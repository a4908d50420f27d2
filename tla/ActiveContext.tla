----------------------------- MODULE ActiveContext -----------------------------
(***************************************************************************)
(* Active-context accounting of one session: how long its context has been *)
(* active, and the notice that asks for a fresh one when that is too long. *)
(*                                                                         *)
(* Hooks tell the session's agent that a turn began or ended; the agent    *)
(* handles its mailbox in order and opens or closes a segment in the row.  *)
(* A stop that finds the limit reached spawns a task that delivers the     *)
(* notice: it looks at the row, waits for the gate of the pane or of the   *)
(* backend session, claims the stop boundary and injects.  Restarts,       *)
(* registrations, dormancy and crashes move the row and its accounting     *)
(* about in the meantime, and only the boundary stays in memory.           *)
(*                                                                         *)
(* The clock does not step back, the limit does not change, and an agent   *)
(* handles a message in one step.  A notice counts as delivered once it is *)
(* claimed: a failing injection after that is only logged.                 *)
(***************************************************************************)
EXTENDS Integers, Sequences

CONSTANTS
    Limit,      \* fresh_context_after_active_secs
    Tasks,      \* slots for notices under way
    MaxTime,    \* bound on the clock
    MaxInc,     \* bound on incarnations
    MaxTurn,    \* bound on turns
    MaxBox      \* bound on the mailbox

ASSUME ContextAssumption ==
    /\ Limit \in Nat \ {0}
    /\ MaxTime \in Nat /\ MaxInc \in Nat /\ MaxTurn \in Nat /\ MaxBox \in Nat

VARIABLES
    now,    \* the clock
    row,    \* the live row: accounting and boundary, NoRow when there is none
    tomb,   \* the tombstone, NoRow when there is none
    lease,  \* the restart in progress: "none", "claimed", "staged" or "fresh"
    kept,   \* restart_previous: the incumbent of a staged restart
    disk,   \* row, kept and tomb as last written
    high,   \* the last incarnation allocated
    contexts,   \* history: how many contexts have begun
    box,    \* the mailbox of the agent of the row
    tasks,  \* slot -> the delivery of a notice in it
    turn,   \* history: how many turns have begun
    told,   \* history: the notices delivered, by owner and turn, since the daemon started
    again   \* history: some notice was delivered twice

store == <<row, tomb, lease, kept, high, contexts>>
notes == <<tasks, told, again>>
cvars == <<now, row, tomb, lease, kept, disk, high, contexts, box, tasks, turn, told, again>>

Closed == -1
NoRow  == [inc |-> 0]
NoTask == [at |-> "idle"]
Incs   == 1..MaxInc

(* The accounting of a row, its boundary, and, as history, the context it  *)
(* accounts for                                                            *)
Row    == [inc : Incs, acc : Nat, seg : Nat \cup {Closed}, due : BOOLEAN, prov : BOOLEAN,
           gen : Nat, stopped : BOOLEAN, claimed : BOOLEAN, ctx : Nat]
Task   == [at : {"spawned", "snapshot"}, inc : Incs, gen : Nat]

(* Rows and tombstones are what the code stores.  An incumbent is kept     *)
(* exactly while a restart of it is staged, no segment begins in the       *)
(* future, and a tombstone has no open one: load_sessions would refuse it. *)
ContextTypeOK ==
    /\ now \in 0..MaxTime
    /\ {row, tomb, kept, disk.row, disk.kept, disk.tomb} \subseteq Row \cup {NoRow}
    /\ lease \in {"none", "claimed", "staged", "fresh"}
    /\ kept # NoRow <=> lease \in {"staged", "fresh"}
    /\ \A r \in {row, kept, disk.row, disk.kept} : r # NoRow => r.seg <= now
    /\ \A r \in {tomb, disk.tomb} : r # NoRow => r.seg = Closed
    /\ row = NoRow \/ tomb = NoRow
    /\ high \in 0..MaxInc /\ contexts \in 0..high
    /\ box \in Seq({"Active", "Stopped"})
    /\ tasks \in [Tasks -> Task \cup {NoTask}]
--------------------------------------------------------------------------------
(* Rows *)

Live         == row # NoRow
Unleased     == lease = "none"
NewRow(i, c) == [inc |-> i, acc |-> 0, seg |-> Closed, due |-> FALSE, prov |-> FALSE,
                 gen |-> 0, stopped |-> FALSE, claimed |-> FALSE, ctx |-> c]

(* ActiveContextDueBoundary::default *)
Unbounded(r) == IF r = NoRow THEN NoRow
                ELSE [r EXCEPT !.gen = 0, !.stopped = FALSE, !.claimed = FALSE]

Close(r) ==
    LET acc == IF r.seg = Closed THEN r.acc ELSE r.acc + (now - r.seg)
    IN  [r EXCEPT !.acc = acc, !.seg = Closed, !.due = @ \/ acc >= Limit]

(* faulty: the segment of a parked row stays open *)
ParkedOpen(r) == Unbounded(r)

Parked(r) == Unbounded(Close(r))

(* What may be told to a session that is over its limit *)
Overdue(r) == r # NoRow /\ r.due /\ ~ r.prov /\ r.seg = Closed

Save(r, k, t) == disk' = [row |-> Unbounded(r), kept |-> Unbounded(k), tomb |-> t]

(* faulty: a stop that follows no activity is not noticed *)
SpawnNever(r) == UNCHANGED tasks

(* An ActiveContextRestartDue effect, unless the boundary is claimed *)
Spawn(r) ==
    IF r.claimed
    THEN UNCHANGED tasks
    ELSE \E t \in Tasks :
            /\ tasks[t] = NoTask
            /\ tasks' = [tasks EXCEPT ![t] = [at |-> "spawned", inc |-> r.inc, gen |-> r.gen]]
--------------------------------------------------------------------------------
(* The clock, the hooks and the agent *)

Tick == now < MaxTime /\ now' = now + 1 /\ UNCHANGED <<store, disk, box, notes, turn>>

Begun == turn + Len(SelectSeq(box, LAMBDA k : k = "Active"))

(* Hooks find the row that is live when they arrive, in any order *)
Hook(k) ==
    /\ Live
    /\ Len(box) < MaxBox
    /\ k = "Active" => Begun < MaxTurn
    /\ box' = Append(box, k)
    /\ UNCHANGED <<now, store, disk, notes, turn>>

Opened(r) == [r EXCEPT !.seg = now, !.gen = @ + 1, !.stopped = FALSE, !.claimed = FALSE]

Opens(r) == r.seg = Closed

HandleActive ==
    /\ box # <<>> /\ Head(box) = "Active"
    /\ box' = Tail(box)
    /\ IF Opens(row)
       THEN row' = Opened(row) /\ turn' = turn + 1
       ELSE UNCHANGED <<row, turn>>
    /\ UNCHANGED <<now, tomb, lease, kept, high, contexts, disk, notes>>

HandleStopped ==
    /\ box # <<>> /\ Head(box) = "Stopped"
    /\ box' = Tail(box)
    /\ LET r == Close(row)
       IN  IF Overdue(r)
           THEN row' = [r EXCEPT !.stopped = TRUE] /\ Spawn(r)
           ELSE row' = r /\ UNCHANGED tasks
    /\ UNCHANGED <<now, tomb, lease, kept, high, contexts, disk, turn, told, again>>

(* The Persist effect of both, after the lock; it may come late, or fail *)
Persist ==
    /\ Save(row, kept, tomb)
    /\ UNCHANGED <<now, store, box, notes, turn>>
--------------------------------------------------------------------------------
(* The delivery of a notice *)

(* notify_active_context_restart_due up to the gate *)
Snapshot(t) ==
    /\ tasks[t].at = "spawned"
    /\ tasks' = [tasks EXCEPT ![t] =
          IF Overdue(row) /\ row.inc = @.inc THEN [@ EXCEPT !.at = "snapshot"] ELSE NoTask]
    /\ UNCHANGED <<now, store, disk, box, turn, told, again>>

(* faulty: does not ask whether another delivery has claimed the boundary *)
ClaimableTwice(r, k) ==
    Overdue(r) /\ r.inc = k.inc /\ r.stopped /\ r.gen = k.gen

Claimable(r, k) ==
    Overdue(r) /\ r.inc = k.inc /\ r.stopped /\ r.gen = k.gen /\ ~ r.claimed

(* Behind the gate: the claim, and the injection that follows it *)
Claim(t) ==
    /\ tasks[t].at = "snapshot"
    /\ tasks' = [tasks EXCEPT ![t] = NoTask]
    /\ IF Claimable(row, tasks[t])
       THEN /\ row' = [row EXCEPT !.claimed = TRUE]
            /\ told' = told \cup {<<row.inc, turn>>}
            /\ again' = (again \/ <<row.inc, turn>> \in told)
       ELSE UNCHANGED <<row, told, again>>
    /\ UNCHANGED <<now, tomb, lease, kept, high, contexts, disk, box, turn>>
--------------------------------------------------------------------------------
(* Sections of the registry that move the accounting; each writes at once *)

(* A new owner has an agent of its own, with an empty mailbox *)
Install(r, k, t) == row' = r /\ kept' = k /\ tomb' = t /\ Save(r, k, t) /\ box' = <<>>

Launch ==
    /\ ~ Live /\ Unleased /\ high < MaxInc
    /\ high' = high + 1 /\ contexts' = contexts + 1
    /\ Install(NewRow(high + 1, contexts + 1), NoRow, NoRow)
    /\ UNCHANGED <<now, lease, notes, turn>>

(* faulty: a registration brings its own metadata, which are blank *)
RegisteredBlank(r) == NewRow(high + 1, r.ctx)

(* A registration inherits the accounting of the row it replaces *)
Registered(r) == [Unbounded(r) EXCEPT !.inc = high + 1]

(* A registration over the live row: the scanner's, a hook's *)
Register ==
    /\ Live /\ Unleased /\ high < MaxInc
    /\ high' = high + 1
    /\ Install(Registered(row), NoRow, NoRow)
    /\ UNCHANGED <<now, lease, notes, turn, contexts>>

Remove ==
    /\ Live /\ Unleased
    /\ Install(NoRow, NoRow, NoRow)
    /\ UNCHANGED <<now, lease, high, contexts, notes, turn>>

(* The row is parked, in a tombstone when it can be recovered *)
DormantOwned ==
    /\ Live /\ Unleased
    /\ \E t \in {NoRow, Parked(row)} : Install(NoRow, NoRow, t)
    /\ UNCHANGED <<now, lease, high, contexts, notes, turn>>

RecoverDormant ==
    /\ tomb # NoRow /\ high < MaxInc
    /\ high' = high + 1
    /\ Install([tomb EXCEPT !.inc = high + 1, !.seg = Closed, !.prov = FALSE], NoRow, NoRow)
    /\ UNCHANGED <<now, lease, notes, turn, contexts>>

ClaimRestart ==
    /\ Live /\ Unleased
    /\ lease' = "claimed"
    /\ UNCHANGED <<now, row, tomb, kept, high, contexts, disk, box, notes, turn>>

Staged(r, fresh) ==
    IF fresh THEN [NewRow(high + 1, contexts + 1) EXCEPT !.prov = TRUE]
             ELSE [Unbounded(r) EXCEPT !.inc = high + 1, !.prov = FALSE]

Stage(fresh) ==
    /\ lease = "claimed" /\ high < MaxInc
    /\ lease' = IF fresh THEN "fresh" ELSE "staged"
    /\ high' = high + 1
    /\ contexts' = IF fresh THEN contexts + 1 ELSE contexts
    /\ Install(Staged(row, fresh), row, NoRow)
    /\ UNCHANGED <<now, notes, turn>>

(* FreshContextRestartSucceeded, on the row of a completed fresh restart *)
Succeeded(r) ==
    CASE ~ r.prov   -> [r EXCEPT !.acc = 0, !.seg = Closed, !.due = FALSE]
      [] r.prov     -> LET s == [r EXCEPT !.prov = FALSE]
                       IN  IF Overdue(s) THEN [s EXCEPT !.stopped = TRUE] ELSE s

Complete ==
    /\ lease \in {"staged", "fresh"}
    /\ lease' = "none"
    /\ kept' = NoRow
    /\ row' = IF lease = "fresh" THEN Succeeded(row) ELSE row
    /\ IF lease = "fresh" /\ Overdue(row') THEN Spawn(row') ELSE UNCHANGED tasks
    /\ Save(row', NoRow, NoRow)
    /\ UNCHANGED <<now, tomb, high, contexts, box, turn, told, again>>

(* faulty: the incumbent comes back with the boundary of a new row *)
RestoredUnbounded(r) == Unbounded(r)

Restored(r) == r

Rollback ==
    /\ lease \in {"staged", "fresh"}
    /\ lease' = "none"
    /\ Install(Restored(kept), NoRow, NoRow)
    /\ UNCHANGED <<now, high, contexts, notes, turn>>

AbortRestart ==
    /\ lease = "claimed"
    /\ lease' = "none"
    /\ UNCHANGED <<now, row, tomb, kept, high, contexts, disk, box, notes, turn>>

(* The daemon stops, or crashes, and starts again: a staged restart is undone *)
Reboot ==
    /\ row'  = IF disk.kept # NoRow THEN disk.kept ELSE disk.row
    /\ kept' = NoRow
    /\ tomb' = disk.tomb
    /\ Save(row', NoRow, tomb')
    /\ lease' = "none"
    /\ box'   = <<>>
    /\ tasks' = [t \in Tasks |-> NoTask]
    /\ told'  = {}
    /\ UNCHANGED <<now, high, contexts, turn, again>>

Sections ==
    \/ Launch \/ Register \/ Remove \/ DormantOwned \/ RecoverDormant
    \/ ClaimRestart \/ Stage(TRUE) \/ Stage(FALSE) \/ Complete \/ Rollback \/ AbortRestart

Next ==
    \/ Tick \/ Persist \/ Reboot \/ Sections
    \/ \E k \in {"Active", "Stopped"} : Hook(k)
    \/ HandleActive \/ HandleStopped
    \/ \E t \in Tasks : Snapshot(t) \/ Claim(t)

Init ==
    /\ now = 0 /\ high = 0 /\ contexts = 0 /\ turn = 0
    /\ row = NoRow /\ tomb = NoRow /\ kept = NoRow
    /\ lease = "none"
    /\ disk = [row |-> NoRow, kept |-> NoRow, tomb |-> NoRow]
    /\ box = <<>>
    /\ tasks = [t \in Tasks |-> NoTask]
    /\ told = {} /\ again = FALSE

ContextSpec == Init /\ [][Next]_cvars

(* The runtime polls the agent and the tasks; nothing is assumed of hooks, *)
(* restarts or the clock                                                   *)
FairContext ==
    /\ ContextSpec
    /\ WF_cvars(HandleActive) /\ WF_cvars(HandleStopped)
    /\ \A t \in Tasks : WF_cvars(Snapshot(t)) /\ WF_cvars(Claim(t))
--------------------------------------------------------------------------------
(* Properties *)

(* A session is told once, and not again before it has been active or the  *)
(* daemon has been restarted: not by the several deliveries that repeated  *)
(* stops spawn, and not after a restart of it was rolled back.             *)
NoticeOnce == ~ again

(* The accounting of a context runs exactly while a segment is open, and   *)
(* nothing sets it back but the start of a fresh context: not repeated and *)
(* misplaced hooks, stops, registrations, resuming restarts, rollbacks,    *)
(* dormancy or crashes.  It implements ActiveMeter.                        *)
MeterAt(r, n) ==
    IF r = NoRow
    THEN [on |-> FALSE, used |-> 0, none |-> TRUE, ctx |-> 0]
    ELSE [on   |-> r.seg # Closed,
          used |-> r.acc + (IF r.seg = Closed THEN 0 ELSE n - r.seg),
          none |-> FALSE,
          ctx  |-> r.ctx]

Asides == {kept, tomb, disk.row, disk.kept, disk.tomb} \ {NoRow}

Meter == INSTANCE ActiveMeter WITH
            meter  <- MeterAt(row, now),
            others <- {MeterAt(r, now) : r \in Asides},
            last   <- contexts

Metered == Meter!Spec

(* A turn that ends over the limit leads to a notice, whatever other hooks *)
(* follow, unless another turn begins, the owner is replaced or parked, or *)
(* the daemon restarts.                                                    *)
EndsOverdue(i, n) ==
    /\ Live /\ row.inc = i /\ turn = n /\ ~ row.prov
    /\ MeterAt(row, now).used >= Limit
    /\ <<i, n>> \notin told
    /\ row.seg # Closed /\ box # <<>> /\ box[Len(box)] = "Stopped"

Answered(i, n) ==
    \/ <<i, n>> \in told
    \/ turn # n \/ ~ Live \/ row.inc # i
    \/ box = <<>> /\ ~ row.stopped

NoticeComes ==
    \A i \in Incs, n \in 1..MaxTurn : EndsOverdue(i, n) ~> Answered(i, n)
================================================================================
