------------------------------- MODULE Rollover -------------------------------
(***************************************************************************)
(* The continuation that a session leaves to its next incarnation: one     *)
(* record in a private file, which the command line prepares, adopts and   *)
(* cleans up (rollover.rs, Command::Rollover in main.rs).                  *)
(*                                                                         *)
(* Each command is a process of its own.  It captures the incarnation and  *)
(* the time, waits for an exclusive lock, reads the record, and replaces   *)
(* it: a new file is written, synced and renamed over the old one, and the *)
(* directory is synced.  A process may be killed at any point, which frees *)
(* the lock; when the power fails, a renaming or an unlinking that has not *)
(* been synced may be undone.                                              *)
(*                                                                         *)
(* Left out: the payload, the comparison of the working tree with the one  *)
(* that was recorded and every other reason to refuse that has no state    *)
(* here (a refusal is a run that ends), and temporary files, which nobody  *)
(* reads.  The directory of the records is taken to be there for good: the *)
(* code creates it and does not sync its parent.                           *)
(***************************************************************************)
EXTENDS Naturals

CONSTANTS
    Runs,       \* processes
    Tokens,     \* the random tokens of records
    None,
    TTL,        \* DEFAULT_TTL_SECS
    MaxInc,     \* bound on incarnations
    MaxTime     \* bound on the clock

ASSUME TTLAssumption  == TTL \in Nat
ASSUME NoneAssumption == None \notin Tokens /\ None \notin Runs

VARIABLES
    inc,        \* the incarnation of the session
    now,        \* the time
    file,       \* the record that a process finds
    disk,       \* the records that may be found after the power has failed
    lock,       \* the run that holds the lock
    run,        \* process -> where it stands
    used,       \* the tokens that were drawn
    printed,    \* history: the tokens that were printed
    gone,       \* history: the tokens that a run which read their record has
                \* adopted, replaced or removed
    given,      \* history: token -> the incarnations its payload was printed for
    weak        \* history: the tokens whose payload was taken from a record that
                \* was not synced

world == <<inc, now>>
files == <<file, disk>>
hist  == <<printed, gone, given, weak>>
vars  == <<world, files, lock, run, used, hist>>

Absent           == [st |-> "absent", token |-> None]
Pending(t, i, e) == [st |-> "pending", token |-> t, src |-> i, expires |-> e]
Adopted(t, i)    == [st |-> "adopted", token |-> t, by |-> i]
Idle             == [at |-> "idle"]

Init ==
    /\ inc = 1 /\ now = 0
    /\ file = Absent /\ disk = {Absent}
    /\ lock = None
    /\ run = [r \in Runs |-> Idle]
    /\ used = {}
    /\ printed = {} /\ gone = {} /\ given = [t \in Tokens |-> {}] /\ weak = {}

-----------------------------------------------------------------------------
(* The session and the clock.                                              *)

Restart ==
    /\ inc < MaxInc
    /\ inc' = inc + 1
    /\ UNCHANGED <<now, files, lock, run, used, hist>>

TimePasses ==
    /\ now < MaxTime
    /\ now' = now + 1
    /\ UNCHANGED <<inc, files, lock, run, used, hist>>

-----------------------------------------------------------------------------
(* Any command: capture, lock, read; and the ways to end.                  *)

(* rollover_live_caller and the time: both are old when the lock is got.   *)
(* force stands for --replace-expired and for --force-pending.             *)
Begun(r, op, t, force) ==
    /\ run[r] = Idle
    /\ run' = [run EXCEPT ![r] = [at |-> "begun", op |-> op, token |-> t, force |-> force,
                                  inc |-> inc, now |-> now, seen |-> Absent]]
    /\ UNCHANGED <<world, files, lock, hist>>

Begin(r) ==
    \/ \E t \in Tokens \ used, force \in BOOLEAN :
           Begun(r, "prepare", t, force) /\ used' = used \cup {t}
    \/ \E t \in printed :
           Begun(r, "adopt", t, FALSE) /\ UNCHANGED used
    \/ \E force \in BOOLEAN :
           Begun(r, "cleanup", None, force) /\ UNCHANGED used

Lock(r) ==
    /\ run[r].at = "begun"
    /\ lock = None
    /\ lock' = r
    /\ run' = [run EXCEPT ![r].at = "locked"]
    /\ UNCHANGED <<world, files, used, hist>>

Ended(r) == /\ run' = [run EXCEPT ![r] = Idle]
            /\ lock' = IF lock = r THEN None ELSE lock

(* refused, an error of the file system, or killed *)
RunEnds(r) ==
    /\ run[r] # Idle
    /\ Ended(r)
    /\ UNCHANGED <<world, files, used, hist>>

PowerFails ==
    /\ \E rec \in disk : file' = rec /\ disk' = {rec}
    /\ lock' = None
    /\ run' = [r \in Runs |-> Idle]
    /\ UNCHANGED <<world, used, hist>>

Read(r) ==
    /\ run[r].at = "locked"
    /\ run' = [run EXCEPT ![r].at = "read", ![r].seen = file]
    /\ UNCHANGED <<world, files, lock, used, hist>>

-----------------------------------------------------------------------------
(* What a command makes of the record it has read.                         *)

(* write_record, unlink_private *)
Put(r, rec) ==
    /\ file' = rec
    /\ disk' = disk \cup {rec}
    /\ run' = [run EXCEPT ![r].at = "put"]
    /\ gone' = gone \cup {run[r].seen.token}
    /\ UNCHANGED <<world, lock, used, printed, given, weak>>

Prepare(r) ==
    LET a == run[r] IN
    /\ a.at = "read" /\ a.op = "prepare"
    /\ a.seen.st = "pending" => a.now > a.seen.expires /\ a.force
    /\ Put(r, Pending(a.token, a.inc, a.now + TTL))

Adopt(r) ==
    LET a == run[r] IN
    /\ a.at = "read" /\ a.op = "adopt"
    /\ a.seen.st = "pending" /\ a.seen.token = a.token
    /\ a.now <= a.seen.expires /\ a.inc > a.seen.src
    /\ Put(r, Adopted(a.token, a.inc))

(* faulty: who has adopted it is not compared *)
AdoptByAnyone(r) ==
    LET a == run[r] IN
    /\ a.at = "read" /\ a.op = "adopt"
    /\ a.seen.st = "adopted" /\ a.seen.token = a.token
    /\ run' = [run EXCEPT ![r].at = "done"]
    /\ lock' = None
    /\ UNCHANGED <<world, files, used, hist>>

(* the same incarnation may ask again, and nothing is written *)
AdoptAgain(r) ==
    LET a == run[r] IN
    /\ a.at = "read" /\ a.op = "adopt"
    /\ a.seen = Adopted(a.token, a.inc)
    /\ run' = [run EXCEPT ![r].at = "done"]
    /\ lock' = None
    /\ weak' = IF disk = {file} THEN weak ELSE weak \cup {a.token}
    /\ UNCHANGED <<world, files, used, printed, gone, given>>

CleanUp(r) ==
    LET a == run[r] IN
    /\ a.at = "read" /\ a.op = "cleanup"
    /\ a.seen # Absent
    /\ a.seen.st = "pending" => a.now > a.seen.expires \/ a.force
    /\ Put(r, Absent)

(* faulty: the directory is not synced *)
SyncNothing(r) ==
    /\ run[r].at = "put"
    /\ run' = [run EXCEPT ![r].at = "done"]
    /\ lock' = None
    /\ UNCHANGED <<world, files, used, hist>>

Sync(r) ==
    /\ run[r].at = "put"
    /\ disk' = {file}
    /\ run' = [run EXCEPT ![r].at = "done"]
    /\ lock' = None
    /\ UNCHANGED <<world, file, used, hist>>

Returns(r) ==
    LET a == run[r] IN
    /\ a.at = "done"
    /\ run' = [run EXCEPT ![r] = Idle]
    /\ printed' = IF a.op = "prepare" THEN printed \cup {a.token} ELSE printed
    /\ given' = IF a.op = "adopt" THEN [given EXCEPT ![a.token] = @ \cup {a.inc}] ELSE given
    /\ UNCHANGED <<world, files, lock, used, gone, weak>>

Step(r) ==
    \/ Begin(r) \/ Lock(r) \/ Read(r) \/ RunEnds(r)
    \/ Prepare(r) \/ Adopt(r) \/ AdoptAgain(r) \/ CleanUp(r)
    \/ Sync(r) \/ Returns(r)

Next == Restart \/ TimePasses \/ PowerFails \/ \E r \in Runs : Step(r)

Spec == Init /\ [][Next]_vars

-----------------------------------------------------------------------------
(* A continuation is printed for one incarnation ("continuation was        *)
(* already adopted by a different incarnation" in adopt), although adopters *)
(* are killed anywhere, ask again, and the power fails; unless it was once *)
(* taken from an adoption whose writer was killed before it was synced,    *)
(* which adopt does not sync again.                                        *)
AdoptedOnce ==
    \A t \in Tokens \ weak : \A i, j \in given[t] : i = j

(* A token that prepare has printed is on disk for the next incarnation,   *)
(* until a run that has read it adopts, replaces or removes it: neither a  *)
(* second prepare, nor a process that is killed, nor the power takes it    *)
(* (prepare, write_record).                                                *)
TokenKept ==
    \A t \in printed \ gone :
        \A rec \in disk : rec.st = "pending" /\ rec.token = t
=============================================================================
