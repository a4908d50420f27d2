-------------------------------- MODULE Replies --------------------------------
(***************************************************************************)
(* Questions, answers and the obligations between them.                    *)
(*                                                                         *)
(* A session that is asked owes a reply: the daemon keeps the debt in the  *)
(* bucket of the debtor and nags about it until it is discharged.  A send  *)
(* is several critical sections with the delivery, a paste or an HTTP      *)
(* request, in between: it changes the bucket, delivers, and then settles  *)
(* or takes back what it changed.  Meanwhile other sends, peers' messages, *)
(* renames, removals and their late clean-up act on the same buckets.      *)
(*                                                                         *)
(* A name is where a session lives, and its ID there; the peer's display   *)
(* prefix and its npub are one.  Not here: the text and the log of a       *)
(* message, human correspondents (they are never asked), aliases (a send   *)
(* to a renamed session fails like one to no session), lifecycle leases    *)
(* (they refuse some sends and renames), and the persistence of buckets.   *)
(***************************************************************************)
EXTENDS Integers

CONSTANTS
    Home,       \* this daemon
    Peers,      \* the others
    Ids,        \* session IDs
    Calls,      \* slots for sends under way
    MaxMsg,     \* bound on message numbers
    Disorder    \* what the users of the daemon do against its grain

(* What makes a discharge go astray, each of which the daemon permits:     *)
(* a reply that names the wrong asker, a message number that two daemons   *)
(* have given, a rename in the middle of a conversation, a session of a    *)
(* peer with the ID of a local one, a name taken again before its clean-up *)
Disorders == {"misaddressed", "collision", "rename", "shadow", "hasty"}

ASSUME HomeAssumption     == Home \notin Peers
ASSUME BoundAssumption    == MaxMsg \in Nat
ASSUME DisorderAssumption == Disorder \subseteq Disorders

VARIABLES
    live,       \* the names that have a row
    pending,    \* debtor -> its bucket: the entries it owes a reply
    note,       \* local name -> its row has a reminder
    seq,        \* the last message number given
    calls,      \* slot -> the send in it
    sweeps,     \* the clean-ups of removed names still to be executed
    owed,       \* history: the obligations whose question arrived, unsettled
    settled,    \* history: the obligations answered, waived or gone with a party
    abandoned   \* history: those of a session that was replaced in its pane

rvars == <<live, pending, note, seq, calls, sweeps, owed, settled, abandoned>>

Local == [at : {Home}, id : Ids]
Name  == [at : {Home} \cup Peers, id : Ids]
Msgs  == 1..MaxMsg

Entry      == [msg : Msgs, from : Name, progress : BOOLEAN]
Obligation == [by : Local, msg : Msgs, from : Name]
Sweep      == [names : SUBSET Local, owned : BOOLEAN]

(* A send under way: its parties and options, the obligation it creates    *)
(* and the one it answers (history), and what FailedSendRollback captured: *)
(* the sender's entry before and after, and whether its state was put back     *)
(* until the delivery is resolved                                          *)
Stages == {"idle", "sent", "failed", "accepted", "unwind"}
Maybe  == {{}} \cup {{e} : e \in Entry}
Call   == [at       : Stages,
           from     : Name,
           to       : Name,
           msg      : Nat,
           done     : BOOLEAN,
           asked    : SUBSET Obligation,
           answers  : SUBSET Obligation,
           before   : Maybe,
           after    : Maybe,
           reserved : BOOLEAN]

Idle == [at |-> "idle"]

Bare(n)     == [at |-> Home, id |-> n.id]
Busy        == {c \in Calls : calls[c].at # "idle"}
Allowed(k)  == k \in Disorder

Owes(k, e)  == [by |-> k, msg |-> e.msg, from |-> e.from]
Open        == UNION {{Owes(k, e) : e \in pending[k]} : k \in Local}
Underway    == UNION {calls[c].asked : c \in {c \in Busy : calls[c].at \in {"sent", "failed"}}}
Swept(o)    == \E s \in sweeps : {o.by, o.from} \cap s.names # {}
-------------------------------------------------------------------------------
(* Buckets.  The code keeps an entry at the place it was given: the order   *)
(* tells nothing but which of several entries with a number is found first *)

(* What is found under a number, whoever asked: nothing, or an entry that  *)
(* has it                                                                  *)
Found(q, m) ==
    LET same == {e \in q : e.msg = m}
    IN  IF same = {} THEN {{}} ELSE {{e} : e \in same}

(* A final reply discharges, a progress reply marks, the entry it names *)
Thread(q, to, re, done) ==
    LET named == {e \in q : e.msg = re /\ e.from = to}
    IN  (q \ named) \cup (IF done THEN {} ELSE {[e EXCEPT !.progress = TRUE] : e \in named})

(* faulty: nothing is kept back while the reply is under way *)
ReserveNothing(q, before, after, done) == q

(* Until a final reply is delivered, the entry it discharged stays *)
Reserve(q, before, after, done) == IF done /\ after = {} THEN q \cup before ELSE q

(* faulty: the reminder goes with the attempt *)
ClearedNote(n, done) == note[n] /\ ~ done

(* ... and so does the reminder of its sender *)
HeldNote(n, done) == note[n]

(* A delivered final reply discharges the entry it had captured *)
Discharge(q, before) == {e \in q : \A b \in before : e.msg # b.msg}

(* faulty: puts it back whatever has happened since *)
RestoreUnseen(q, before, after) == Discharge(q, before) \cup before

(* An undelivered reply puts the entry back as it was, unless somebody has *)
(* changed it since                                                        *)
Restore(q, before, after) ==
    IF \E b \in before : after \in Found(q, b.msg) THEN (q \ after) \cup before ELSE q

(* faulty: asks for the sender by its bare ID *)
RetractBare(q, m, from) == {e \in q : e.msg # m \/ e.from # Bare(from)}

(* A question that was not delivered is owed by nobody *)
Retract(q, m, from) == {e \in q : e.msg # m \/ e.from # from}

(* faulty: askers without a row are taken for gone *)
OrphanedUnknown(names) ==
    [k \in Local |-> IF k \in names THEN {}
                     ELSE {e \in pending[k] : e.from \in live \ names}]

(* What is left of the buckets when some names are gone, as debtors and as *)
(* askers                                                                  *)
Orphaned(names) ==
    [k \in Local |-> IF k \in names THEN {}
                     ELSE {e \in pending[k] : e.from \notin names}]

Push(q, m, from, asks) ==
    IF asks THEN q \cup {[msg |-> m, from |-> from, progress |-> FALSE]} ELSE q

(* What everybody believes is owed that involves a name *)
Known         == owed \cup Underway \cup Open
Concerning(n) == {o \in Known : n \in {o.by, o.from}}
-------------------------------------------------------------------------------
(* Sessions come and go *)

RepliesInit == /\ live = {}
               /\ pending = [k \in Local |-> {}]
               /\ note = [k \in Local |-> FALSE]
               /\ seq = 0
               /\ calls = [c \in Calls |-> Idle]
               /\ sweeps = {}
               /\ owed = {}
               /\ settled = {}
               /\ abandoned = {}

Sweeping(n) == \E s \in sweeps : n \in s.names
Talking(n)  == \E c \in Busy : n \in {calls[c].from, calls[c].to}

(* A registration, of a new session or of one that has its row already and *)
(* keeps its reminder.  Another session of the same pane is replaced: its  *)
(* row goes, and nothing is done about its bucket or its questions.        *)
Register(n, replaced) ==
    /\ replaced \subseteq live \ {n}
    /\ Allowed("hasty") \/ ~ Sweeping(n)
    /\ live' = (live \ replaced) \cup {n}
    /\ \E b \in BOOLEAN :
          /\ n \in live /\ note[n] => b
          /\ note' = [k \in Local |-> IF k = n THEN b ELSE note[k] /\ k \notin replaced]
    /\ LET gone == UNION {Concerning(m) : m \in replaced}
       IN  owed' = owed \ gone /\ abandoned' = abandoned \cup (gone \ settled)
    /\ UNCHANGED <<pending, seq, calls, sweeps, settled>>

(* A restart gives its session another reminder, one by a task possibly none *)
RestartReminder(n) ==
    /\ n \in live
    /\ note' = [note EXCEPT ![n] = ~ @]
    /\ UNCHANGED <<live, pending, seq, calls, sweeps, owed, settled, abandoned>>

(* Removal, and dormancy: the buckets are cleaned up after the lock *)
RemoveSession(n) ==
    /\ n \in live
    /\ live' = live \ {n}
    /\ note' = [note EXCEPT ![n] = FALSE]
    /\ sweeps' = sweeps \cup {[names |-> {n}, owned |-> TRUE]}
    /\ settled' = settled \cup Concerning(n)
    /\ owed' = owed \ Concerning(n)
    /\ abandoned' = abandoned \ Concerning(n)
    /\ UNCHANGED <<pending, seq, calls>>

(* The same obligation, of the parties' new names *)
Renamed(n, old, new) == IF n = old THEN new ELSE n
Follow(O, old, new)  == {[o EXCEPT !.by = Renamed(@, old, new),
                                   !.from = Renamed(@, old, new)] : o \in O}

Rename(old, new) ==
    /\ old \in live
    /\ new \notin live
    /\ \/ Allowed("rename")
       \/ /\ ~ Talking(old) /\ ~ Talking(new)
          /\ ~ Sweeping(old) /\ ~ Sweeping(new)
          /\ \A o \in Open : o.from \notin {old, new}
    /\ live' = (live \ {old}) \cup {new}
    /\ note' = [note EXCEPT ![old] = FALSE, ![new] = note[old]]
    /\ pending' = IF pending[old] = {} THEN pending
                  ELSE [pending EXCEPT ![old] = {}, ![new] = pending[old]]
    /\ owed' = Follow(owed, old, new)
    /\ settled' = Follow(settled, old, new)
    /\ abandoned' = Follow(abandoned, old, new)
    /\ calls' = [c \in Calls |->
                    IF c \in Busy
                    THEN [calls[c] EXCEPT !.asked = Follow(@, old, new),
                                          !.answers = Follow(@, old, new)]
                    ELSE calls[c]]
    /\ UNCHANGED <<seq, sweeps>>

(* The clean-up of a name that went away: a local one is spared when the   *)
(* name is taken again, a peer's is not looked at                          *)
ExecuteSweep(s) ==
    LET names == IF s.owned THEN s.names \ live ELSE s.names
    IN  /\ s \in sweeps
        /\ sweeps' = sweeps \ {s}
        /\ pending' = Orphaned(names)
        /\ UNCHANGED <<live, note, seq, calls, owed, settled, abandoned>>

(* A dismissal by pane and asker; the pane was looked up under an earlier  *)
(* lock and may have another name by now                                   *)
DeletePendingReply(k, f) ==
    LET waived == {o \in Known : o.by = k /\ o.from = f}
    IN  /\ \E e \in pending[k] : e.from = f
        /\ pending' = [pending EXCEPT ![k] = {e \in @ : e.from # f}]
        /\ settled' = settled \cup waived
        /\ owed' = owed \ waived
        /\ abandoned' = abandoned \ waived
        /\ UNCHANGED <<live, note, seq, calls, sweeps>>

-------------------------------------------------------------------------------
(* Peers *)

Rows(p)   == {n \in live : n.at = p}
Shadow(n) == Bare(n) \in live \/ \E o \in Open \cup owed : Bare(n) \in {o.by, o.from}

(* Rows of a peer that are gone are cleaned up under their bare IDs *)
Forget(gone) ==
    /\ Allowed("shadow") \/ \A n \in gone : ~ Shadow(n)
    /\ sweeps' = IF gone = {} THEN sweeps
                 ELSE sweeps \cup {[names |-> {Bare(n) : n \in gone}, owned |-> FALSE]}

Announce(n) ==
    /\ n.at # Home
    /\ n \notin live
    /\ live' = live \cup {n}
    /\ UNCHANGED <<pending, note, seq, calls, sweeps, owed, settled, abandoned>>

SessionList(p, rows) ==
    /\ rows # Rows(p)
    /\ Forget(Rows(p) \ rows)
    /\ live' = (live \ Rows(p)) \cup rows
    /\ UNCHANGED <<pending, note, seq, calls, owed, settled, abandoned>>

IncomingRemove(n) ==
    /\ n.at # Home
    /\ n \in live
    /\ Forget({n})
    /\ live' = live \ {n}
    /\ UNCHANGED <<pending, note, seq, calls, owed, settled, abandoned>>

IncomingRenamed(old, new) ==
    /\ old.at # Home
    /\ old.at = new.at
    /\ live' = (live \ {old}) \cup {new}
    /\ UNCHANGED <<pending, note, seq, calls, sweeps, owed, settled, abandoned>>

-------------------------------------------------------------------------------
(* Sends *)

Answers(from, to, re, done) ==
    {o \in Known : done /\ o.by = from /\ o.msg = re /\ o.from = to}

(* faulty: an obligation of a peer's session, too *)
AsksAnyone(to, m, from, asks) ==
    IF asks THEN {[by |-> to, msg |-> m, from |-> from]} ELSE {}

Asks(to, m, from, asks) ==
    IF asks /\ to.at = Home THEN {[by |-> to, msg |-> m, from |-> from]} ELSE {}

(* What a send does to the buckets, and what it remembers for later, given *)
(* what it found of the entry it answers before and after, and whether it  *)
(* is refused                                                              *)
Record(c, from, to, asks, re, done, refused, before, after) ==
    LET thread == Thread(pending[from], to, re, done)
    IN  /\ pending' = [k \in Local |->
               CASE k = from -> Reserve(thread, before, after, done)
                 [] k = to /\ ~ refused -> Push(pending[k], seq + 1, from, asks)
                 [] OTHER -> pending[k]]
        /\ calls' = [calls EXCEPT ![c] =
               [at |-> IF refused THEN "unwind" ELSE "sent",
                from |-> from, to |-> to, msg |-> seq + 1, done |-> done,
                asked |-> IF refused THEN {} ELSE Asks(to, seq + 1, from, asks),
                answers |-> Answers(from, to, re, done),
                before |-> before, after |-> after,
                reserved |-> done /\ (from \in live \/ (before # {} /\ after = {}))]]

(* send_msg and apply_and_execute: the sender's bucket and the receiver's  *)
(* change, and the sender's is put back when the reply is final            *)
Send(c, from, to, asks, re, done) ==
    /\ c \notin Busy
    /\ from # to
    /\ Allowed("hasty") \/ ~ Sweeping(from)
    /\ seq < MaxMsg
    /\ seq' = seq + 1
    /\ \E before \in Found(pending[from], re), refused \in BOOLEAN :
          /\ \/ Allowed("misaddressed")
             \/ before = {}
             \/ \E e \in pending[from] : e.msg = re /\ e.from = to
          /\ to \notin live => refused
          /\ refused => to \notin live \/ to.at = Home
          /\ \E after \in IF before = {} THEN {{}}
                          ELSE Found(Thread(pending[from], to, re, done), re) :
                Record(c, from, to, asks, re, done, refused, before, after)
    /\ note' = [note EXCEPT ![from] = HeldNote(from, done)]
    /\ UNCHANGED <<live, sweeps, owed, settled, abandoned>>

(* A daemon does not give a number twice *)
Fresh(m, at) == /\ \A o \in Known \cup settled \cup abandoned : o.msg = m => o.from.at # at
                /\ \A c \in Busy : calls[c].msg = m => calls[c].from.at # at

(* A peer's message, with the number its daemon gave; the receiver is local *)
IncomingSend(c, from, to, asks, m) ==
    /\ c \notin Busy
    /\ from.at # Home
    /\ to \in live
    /\ Fresh(m, from.at)
    /\ \/ Allowed("collision") /\ seq' = seq
       \/ seq < MaxMsg /\ m = seq + 1 /\ seq' = seq + 1
    /\ pending' = [pending EXCEPT ![to] = Push(@, m, from, asks)]
    /\ calls' = [calls EXCEPT ![c] =
           [at |-> "sent", from |-> from, to |-> to, msg |-> m, done |-> FALSE,
            asked |-> Asks(to, m, from, asks), answers |-> {},
            before |-> {}, after |-> {}, reserved |-> FALSE]]
    /\ UNCHANGED <<live, note, sweeps, owed, settled, abandoned>>

(* The delivery ends; a peer is always reached, as far as a broadcast tells *)
Deliver(c) ==
    /\ calls[c].at = "sent"
    /\ \E ok \in BOOLEAN :
          /\ calls[c].to.at # Home => ok
          /\ calls' = [calls EXCEPT ![c].at = IF ok THEN "accepted" ELSE "failed"]
          /\ owed' = IF ok THEN owed \cup (calls[c].asked \ (settled \cup abandoned)) ELSE owed
    /\ UNCHANGED <<live, pending, note, seq, sweeps, settled, abandoned>>

ClearFailed(c) ==
    /\ calls[c].at = "failed"
    /\ calls' = [calls EXCEPT ![c].at = "unwind"]
    /\ pending' = [k \in Local |->
           IF k = calls[c].to THEN Retract(pending[k], calls[c].msg, calls[c].from)
           ELSE pending[k]]
    /\ UNCHANGED <<live, note, seq, sweeps, owed, settled, abandoned>>

(* rollback_failed_delivery; a reminder is reserved whenever its session   *)
(* lives, so that there is none to put back here                           *)
Unwind(c) ==
    LET r == calls[c]
    IN  /\ r.at = "unwind"
        /\ calls' = [calls EXCEPT ![c] = Idle]
        /\ pending' = [k \in Local |->
               IF k = r.from /\ ~ r.reserved THEN Restore(pending[k], r.before, r.after)
               ELSE pending[k]]
        /\ UNCHANGED <<live, note, seq, sweeps, owed, settled, abandoned>>

Finalize(c) ==
    LET r == calls[c]
    IN  /\ r.at = "accepted"
        /\ calls' = [calls EXCEPT ![c] = Idle]
        /\ pending' = [k \in Local |->
               IF k = r.from /\ r.done THEN Discharge(pending[k], r.before) ELSE pending[k]]
        /\ note' = [k \in Local |-> note[k] /\ ~ (k = r.from /\ r.done)]
        /\ settled' = settled \cup r.answers
        /\ owed' = owed \ r.answers
        /\ abandoned' = abandoned \ r.answers
        /\ UNCHANGED <<live, seq, sweeps>>

-------------------------------------------------------------------------------
Remote == Name \ Local

SessionStep ==
    \/ \E n \in Local : RestartReminder(n) \/ RemoveSession(n)
    \/ \E n \in Local : \E replaced \in {{}} \cup {{m} : m \in Local} : Register(n, replaced)
    \/ \E old, new \in Local : Rename(old, new)
    \/ \E s \in sweeps : ExecuteSweep(s)
    \/ \E k \in Local, f \in Name : DeletePendingReply(k, f)

PeerStep ==
    \/ \E n \in Remote : Announce(n) \/ IncomingRemove(n)
    \/ \E p \in Peers : \E rows \in SUBSET [at : {p}, id : Ids] : SessionList(p, rows)
    \/ \E old, new \in Remote : IncomingRenamed(old, new)
    \/ \E c \in Calls, from \in Remote, to \in Local, asks \in BOOLEAN, m \in Msgs :
           IncomingSend(c, from, to, asks, m)

Begin(c) ==
    \E from \in Local, to \in Name, asks, done \in BOOLEAN, re \in 0..seq :
        Send(c, from, to, asks, re, done)

Resolve(c) == Deliver(c) \/ ClearFailed(c) \/ Unwind(c) \/ Finalize(c)

RepliesNext == \/ SessionStep
               \/ PeerStep
               \/ \E c \in Calls : Begin(c) \/ Resolve(c)

RepliesSpec == RepliesInit /\ [][RepliesNext]_rvars

-------------------------------------------------------------------------------
(* Properties *)

(* Types; obligations are owed by sessions of this daemon only.            *)
RepliesTypeOK ==
    /\ live \subseteq Name
    /\ pending \in [Local -> SUBSET Entry]
    /\ note \in [Local -> BOOLEAN]
    /\ seq \in 0..MaxMsg
    /\ calls \in [Calls -> Call \cup {Idle}]
    /\ sweeps \subseteq Sweep
    /\ owed \subseteq Obligation
    /\ settled \cup abandoned \subseteq Obligation

(* A question that has arrived stays owed until its own asker has the      *)
(* answer, the debtor dismisses it, or a party is gone: no failed reply,   *)
(* no reply to another asker and no clean-up of somebody else loses it     *)
(* (send_msg, finalize_successful_delivery, clear_orphaned_replies).       *)
Kept == owed \subseteq Open

(* Nobody owes a reply to a message that was not delivered                 *)
(* (clear_pending_reply_for_failed_delivery), and nobody owes one twice.   *)
NoPhantom ==
    /\ Open \subseteq owed \cup settled \cup abandoned \cup Underway
    /\ \A k \in Local : \A e, f \in pending[k] : e.msg = f.msg => e = f

(* What is answered, dismissed or orphaned by a removal is not brought     *)
(* back, neither by the undoing of an older reply nor by a late step of    *)
(* another handler; it is there at most until the clean-up that will       *)
(* remove it (rollback_failed_delivery, ClearOwnedPendingReplies).  The    *)
(* debts and questions of a session replaced in its pane are abandoned,    *)
(* not settled: no clean-up comes for them (apply_register_with_owner).    *)
StaysSettled == \A o \in Open \cap settled : Swept(o)

(* The reminder of a session goes only with the session, by a restart, or  *)
(* when the session's final reply has been delivered                       *)
(* (reserve_sender_state_after_send).                                      *)
ReminderKept ==
    [][\A k \in live \cap live' \cap Local :
          note[k] /\ ~ note'[k] =>
              \/ RestartReminder(k)
              \/ \E c \in Busy : /\ calls[c].at = "accepted" /\ calls'[c] = Idle
                                 /\ calls[c].from = k /\ calls[c].done]_rvars
===============================================================================
