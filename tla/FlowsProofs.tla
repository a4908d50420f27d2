------------------------------ MODULE FlowsProofs ------------------------------
(***************************************************************************)
(* The flows of module Flows implement the registry of module Lifecycle:   *)
(* every step of a flow, of its environment and of a restart of the daemon *)
(* is a critical section of the registry, with arguments the registry      *)
(* expects, or leaves the registry alone.  What is proved of the registry  *)
(* therefore holds of every daemon that runs these flows, however many     *)
(* workers, IDs, panes and backend sessions there are.                     *)
(*                                                                         *)
(* A section is handed what its flow read or was given earlier.  Owners    *)
(* are compared with the registry before anything is done, so that they    *)
(* need no invariant; panes and backend sessions do.  FInv says that a     *)
(* flow has an ID, has a pane once it is past the snapshot of its row      *)
(* (Sensible), and that the rows the flows can bring about have panes and  *)
(* carry credentials that were handed out (Seated), which is not so of     *)
(* every registry: sessions registered over the API have no pane.          *)
(***************************************************************************)
EXTENDS Flows, LifecycleProofs

-----------------------------------------------------------------------------
(* What the flows keep true of the row and the lease of an ID. *)
Seated(row, l, n) ==
    /\ row.inc # 0 => row.pane # None
    /\ row.cred <= n
    /\ l.prev.cred <= n
    /\ l.sidOwner = 0 <=> l.sid = None

AllSeated == \A id \in Ids : Seated(sessions[id], leases[id], highWater)

(* The critical sections that flows and their environment use. *)
FlowSection ==
    \/ \E id \in Ids :
          \/ LeaseStep(id)
          \/ RestartStep(id)
          \/ \E tok \in Tokens, pane \in Panes : DormantOwned(id, tok, pane)
          \/ \E sid \in Sids, tok \in Tokens : BindBackendIdentity(id, sid, tok)
    \/ \E gone \in SUBSET Ids : Restore(gone)

(* They are sections of the registry *)
LEMMA SectionIsNext == FlowSection => Next
BY DEF FlowSection, Next, DormancyStep, BindingStep

-----------------------------------------------------------------------------
(* The rows of the flows stay seated. *)

LEMMA RowTypes ==
    ASSUME IInv, NEW id \in Ids
    PROVE  /\ sessions[id] \in Row /\ leases[id] \in Lease /\ leases[id].prev \in Row
           /\ sessions[id].inc \in Nat /\ sessions[id].cred \in Nat
           /\ leases[id].inc \in Nat /\ leases[id].target \in Nat
           /\ leases[id].prev.inc \in Nat /\ leases[id].prev.cred \in Nat
           /\ highWater \in Nat
BY OfId DEF Row, Lease

LEMMA NoneSeated == \A n \in Nat : Seated(NoRow, NoLease, n)
BY DEF Seated, NoRow, NoLease

(* An ID that loses its row is seated as before *)
LEMMA RowlessSeated ==
    ASSUME NEW row, NEW l, NEW n \in Nat, Seated(row, l, n)
    PROVE  Seated(NoRow, l, n)
BY DEF Seated, NoRow

(* A step that changes one ID and may take the rows of others *)
LEMMA SeatOne ==
    ASSUME IInv, AllSeated, NEW id \in Ids,
           highWater' \in Nat, highWater <= highWater',
           \A j \in Ids \ {id} : /\ sessions'[j] \in {sessions[j], NoRow}
                                 /\ leases'[j] = leases[j],
           Seated(sessions'[id], leases'[id], highWater')
    PROVE  AllSeated'
<1>. SUFFICES ASSUME NEW j \in Ids \ {id}
              PROVE  Seated(sessions'[j], leases'[j], highWater')
    BY DEF AllSeated
<1>1. Seated(sessions[j], leases[j], highWater)
    BY DEF AllSeated
<1>2. Seated(sessions[j], leases[j], highWater')
    BY <1>1, RowTypes DEF Seated
<1>3. Seated(NoRow, leases[j], highWater')
    BY <1>2, RowlessSeated
<1>. QED BY <1>2, <1>3

(* ... that changes its lease only *)
LEMMA SeatLease ==
    ASSUME IInv, AllSeated, NEW id \in Ids, NEW l,
           leases' = [leases EXCEPT ![id] = l],
           UNCHANGED sessions, highWater' \in Nat, highWater <= highWater',
           Seated(sessions[id], l, highWater')
    PROVE  AllSeated'
<1>1. leases'[id] = l /\ \A j \in Ids \ {id} : leases'[j] = leases[j]
    BY DEF IInv
<1>2. Seated(sessions'[id], leases'[id], highWater')
    BY <1>1
<1>. QED BY <1>1, <1>2, SeatOne

(* ... that changes its row only *)
LEMMA SeatRow ==
    ASSUME IInv, AllSeated, NEW id \in Ids, NEW row,
           sessions' = [sessions EXCEPT ![id] = row],
           UNCHANGED <<leases, highWater>>,
           Seated(row, leases[id], highWater)
    PROVE  AllSeated'
<1>1. sessions'[id] = row /\ \A j \in Ids \ {id} : sessions'[j] = sessions[j]
    BY DEF IInv
<1>2. Seated(sessions'[id], leases'[id], highWater')
    BY <1>1
<1>. QED BY <1>1, <1>2, SeatOne, RowTypes

(* A lease that knows neither an incumbent nor a backend session, and one  *)
(* with those of before                                                    *)
LEMMA PlainSeated ==
    ASSUME NEW row, NEW l, NEW n \in Nat, NEW k \in Nat, n <= k, NEW old, row.cred \in Nat,
           Seated(row, old, n), old.prev.cred \in Nat,
           \/ l.prev = NoRow /\ l.sidOwner = 0 /\ l.sid = None
           \/ l.prev = old.prev /\ l.sidOwner = old.sidOwner /\ l.sid = old.sid
    PROVE  Seated(row, l, k)
BY DEF Seated, NoRow

LEMMA LeaseSectionSeats ==
    ASSUME IInv, AllSeated, NEW id \in Ids, LeaseStep(id)
    PROVE  AllSeated'
<1>0. /\ Seated(sessions[id], leases[id], highWater)
      /\ sessions[id] \in Row /\ leases[id] \in Lease /\ leases[id].prev \in Row
      /\ sessions[id].cred \in Nat /\ leases[id].prev.cred \in Nat /\ highWater \in Nat
      /\ Good(sessions[id], dormant[id], leases[id])
      /\ highWater <= highWater
    BY OfId, RowTypes DEF AllSeated
<1>1. CASE ReserveStart(id)
    <2>. DEFINE l == [NoLease EXCEPT !.inc = NextInc, !.phase = "Starting"]
    <2>1. l.prev = NoRow /\ l.sidOwner = 0 /\ l.sid = None
        BY DEF NoLease
    <2>2. /\ leases' = [leases EXCEPT ![id] = l]
          /\ UNCHANGED sessions
          /\ highWater' = highWater + 1
        BY <1>1 DEF ReserveStart, NextInc
    <2>. HIDE DEF l
    <2>3. highWater' \in Nat /\ highWater <= highWater'
        BY <1>0, <2>2
    <2>4. Seated(sessions[id], l, highWater')
        BY <1>0, <2>1, <2>3, PlainSeated
    <2>. QED BY <2>2, <2>3, <2>4, SeatLease
<1>2. ASSUME NEW tok \in Tokens, NEW pane \in Panes, RecordInertStartPane(id, tok, pane)
      PROVE  AllSeated'
    <2>. DEFINE l == [leases[id] EXCEPT !.pane = pane,
                        !.paneOwner = IF leases[id].phase = "Starting"
                                      THEN tok ELSE leases[id].target]
    <2>1. l.prev = leases[id].prev /\ l.sidOwner = leases[id].sidOwner /\ l.sid = leases[id].sid
        BY <1>0 DEF Lease
    <2>2. leases' = [leases EXCEPT ![id] = l] /\ UNCHANGED <<sessions, highWater>>
        BY <1>2 DEF RecordInertStartPane
    <2>. HIDE DEF l
    <2>3. Seated(sessions[id], l, highWater)
        BY <1>0, <2>1, PlainSeated
    <2>. QED BY <1>0, <2>2, <2>3, SeatLease
<1>3. ASSUME NEW tok \in Tokens, NEW dir \in Dirs, RecordProjectDirClaim(id, tok, dir)
      PROVE  AllSeated'
    <2>. DEFINE l == [leases[id] EXCEPT !.dir = dir]
    <2>1. l.prev = leases[id].prev /\ l.sidOwner = leases[id].sidOwner /\ l.sid = leases[id].sid
        BY <1>0 DEF Lease
    <2>2. leases' = [leases EXCEPT ![id] = l] /\ UNCHANGED <<sessions, highWater>>
        BY <1>3 DEF RecordProjectDirClaim
    <2>. HIDE DEF l
    <2>3. Seated(sessions[id], l, highWater)
        BY <1>0, <2>1, PlainSeated
    <2>. QED BY <1>0, <2>2, <2>3, SeatLease
<1>4. ASSUME NEW tok \in Tokens, NEW dir \in Dirs, NEW cred \in {0, tok},
             CommitReservedStart(id, tok, dir, cred)
      PROVE  AllSeated'
    <2>. DEFINE m == [NoRow EXCEPT !.backend = TRUE, !.cred = cred, !.dir = dir]
    <2>1. /\ leases[id].pane # None
          /\ leases[id].inc = tok
          /\ RegisterWithOwner(id, leases[id].pane, m, tok)
        BY <1>4 DEF CommitReservedStart, Holds
    <2>2. cred \in Nat /\ cred <= highWater /\ tok # 0
        BY <1>0, <1>4 DEF Tokens
    <2>3. m.cred = cred
        BY DEF NoRow
    <2>4. UNCHANGED <<leases, highWater>>
        BY <2>1, <2>2 DEF RegisterWithOwner
    <2>5. /\ \A j \in Ids \ {id} : sessions'[j] \in {sessions[j], NoRow}
          /\ \/ sessions'[id] = sessions[id]
             \/ sessions'[id].pane = leases[id].pane /\ sessions'[id].cred = cred
        <3>. DEFINE row == [m EXCEPT !.inc     = tok,
                                     !.pane    = leases[id].pane,
                                     !.backend = IF sessions[id].sid # None THEN TRUE ELSE m.backend,
                                     !.sid     = IF Live(id) THEN sessions[id].sid ELSE m.sid]
                    gone == {j \in Ids \ {id} : leases[id].pane # None
                                                /\ sessions[j].pane = leases[id].pane}
        <3>1. row.pane = leases[id].pane /\ row.cred = cred
            BY DEF NoRow
        <3>2. \/ sessions' = [j \in Ids |-> IF j = id THEN row
                                            ELSE IF j \in gone THEN NoRow
                                            ELSE sessions[j]]
              \/ sessions' = sessions
            BY <2>1, <2>2 DEF RegisterWithOwner
        <3>. HIDE DEF row, gone
        <3>. QED BY <3>1, <3>2
    <2>6. Seated(sessions'[id], leases'[id], highWater')
        BY <1>0, <2>1, <2>2, <2>4, <2>5 DEF Seated
    <2>. QED BY <1>0, <2>4, <2>5, <2>6, SeatOne
<1>5. ASSUME NEW tok \in Tokens, NEW sid \in Sids \cup {None}, FinalizeReservedStart(id, tok, sid)
      PROVE  AllSeated'
    <2>. DEFINE row == Refreshed(sessions[id], sessions[id].pane, sid, sessions[id].dir, FALSE)
    <2>1. /\ row.inc = sessions[id].inc /\ row.pane = sessions[id].pane
          /\ row.cred = sessions[id].cred
        BY <1>0 DEF Refreshed, Row
    <2>2. sessions' = [sessions EXCEPT ![id] = row] /\ UNCHANGED <<leases, highWater>>
        BY <1>5 DEF FinalizeReservedStart
    <2>. HIDE DEF row
    <2>3. Seated(row, leases[id], highWater)
        BY <1>0, <2>1 DEF Seated
    <2>. QED BY <1>0, <2>2, <2>3, SeatRow
<1>6. ASSUME NEW tok \in Tokens, NEW pane \in Panes, RollbackReservedStart(id, tok, pane)
      PROVE  AllSeated'
    <2>1. /\ sessions'[id] = NoRow
          /\ \A j \in Ids \ {id} : sessions'[j] = sessions[j] /\ leases'[j] = leases[j]
          /\ leases'[id].prev = leases[id].prev
          /\ leases'[id].sidOwner = leases[id].sidOwner /\ leases'[id].sid = leases[id].sid
          /\ UNCHANGED highWater
        BY <1>0, <1>6 DEF RollbackReservedStart, IInv, Lease
    <2>2. Seated(NoRow, leases[id], highWater)
        BY <1>0, RowlessSeated
    <2>3. Seated(sessions'[id], leases'[id], highWater')
        BY <2>1, <2>2 DEF Seated
    <2>. QED BY <1>0, <2>1, <2>3, SeatOne
<1>7. ASSUME NEW tok \in Tokens, AbortLifecycle(id, tok)
      PROVE  AllSeated'
    <2>1. NoLease.prev = NoRow /\ NoLease.sidOwner = 0 /\ NoLease.sid = None
        BY DEF NoLease
    <2>2. Seated(sessions[id], NoLease, highWater)
        BY <1>0, <2>1, PlainSeated
    <2>. QED BY <1>0, <1>7, <2>2, SeatLease DEF AbortLifecycle
<1>8. ASSUME NEW tok \in Tokens, ClaimExistingStart(id, tok)
      PROVE  AllSeated'
    <2>. DEFINE l == [NoLease EXCEPT !.inc = tok, !.phase = "Restarting",
                                     !.dir = sessions[id].dir]
    <2>1. l.prev = NoRow /\ l.sidOwner = 0 /\ l.sid = None
        BY DEF NoLease
    <2>2. leases' = [leases EXCEPT ![id] = l] /\ UNCHANGED <<sessions, highWater>>
        BY <1>8 DEF ClaimExistingStart
    <2>. HIDE DEF l
    <2>3. Seated(sessions[id], l, highWater)
        BY <1>0, <2>1, PlainSeated
    <2>. QED BY <1>0, <2>2, <2>3, SeatLease
<1>9. ASSUME NEW tok \in Tokens, NEW pane \in Panes, ClaimExistingStop(id, tok, pane)
      PROVE  AllSeated'
    <2>. DEFINE l == [NoLease EXCEPT !.inc = tok, !.phase = "Stopping",
                              !.sid = sessions[id].sid,
                              !.sidOwner = IF sessions[id].sid = None THEN 0 ELSE tok,
                              !.pane = pane, !.paneOwner = tok,
                              !.dir = sessions[id].dir]
    <2>1. l.prev = NoRow /\ (l.sidOwner = 0 <=> l.sid = None)
        BY DEF NoLease, Tokens
    <2>2. leases' = [leases EXCEPT ![id] = l] /\ UNCHANGED <<sessions, highWater>>
        BY <1>9 DEF ClaimExistingStop
    <2>. HIDE DEF l
    <2>3. Seated(sessions[id], l, highWater)
        BY <1>0, <2>1 DEF Seated, NoRow
    <2>. QED BY <1>0, <2>2, <2>3, SeatLease
<1>10. ASSUME NEW tok \in Tokens, NEW pane \in Panes, CompleteOwnedStop(id, tok, pane)
       PROVE  AllSeated'
    <2>1. Seated(NoRow, leases[id], highWater)
        BY <1>0, RowlessSeated
    <2>. QED BY <1>10, <2>1, SeatRow DEF CompleteOwnedStop
<1>. QED BY <1>1, <1>2, <1>3, <1>4, <1>5, <1>6, <1>7, <1>8, <1>9, <1>10 DEF LeaseStep

(* A step that ends the lease of id and gives it another row *)
LEMMA SeatBoth ==
    ASSUME IInv, AllSeated, NEW id \in Ids, NEW row, NEW l,
           sessions' = [sessions EXCEPT ![id] = row],
           leases' = [leases EXCEPT ![id] = l],
           highWater' \in Nat, highWater <= highWater',
           Seated(row, l, highWater')
    PROVE  AllSeated'
<1>1. /\ sessions'[id] = row /\ leases'[id] = l
      /\ \A j \in Ids \ {id} : sessions'[j] = sessions[j] /\ leases'[j] = leases[j]
    BY DEF IInv
<1>. QED BY <1>1, SeatOne

LEMMA RestartSectionSeats ==
    ASSUME IInv, AllSeated, NEW id \in Ids, RestartStep(id)
    PROVE  AllSeated'
<1>0. /\ Seated(sessions[id], leases[id], highWater)
      /\ sessions[id] \in Row /\ leases[id] \in Lease /\ leases[id].prev \in Row
      /\ sessions[id].cred \in Nat /\ leases[id].prev.cred \in Nat
      /\ highWater \in Nat /\ highWater <= highWater
      /\ Good(sessions[id], dormant[id], leases[id])
    BY OfId, RowTypes DEF AllSeated
<1>1. ASSUME NEW tok \in Tokens, NEW renew \in BOOLEAN, NEW withCred \in BOOLEAN,
             StageRestartLaunch(id, tok, renew, withCred)
      PROVE  AllSeated'
    <2>. DEFINE old == sessions[id]
                row == [old EXCEPT !.inc     = NextInc,
                                   !.backend = TRUE,
                                   !.sid     = IF renew THEN None ELSE @,
                                   !.cred    = IF ~renew THEN @
                                               ELSE IF withCred THEN NextInc ELSE 0]
                l   == [leases[id] EXCEPT !.target = NextInc, !.prev = old]
    <2>1. /\ sessions' = [sessions EXCEPT ![id] = row]
          /\ leases' = [leases EXCEPT ![id] = l]
          /\ highWater' = highWater + 1
          /\ old.inc # 0
        BY <1>1 DEF StageRestartLaunch, Holds, Leased, NextInc
    <2>2. /\ row.pane = old.pane
          /\ row.cred \in {old.cred, highWater + 1, 0}
          /\ l.prev = old
          /\ l.sidOwner = leases[id].sidOwner /\ l.sid = leases[id].sid
        BY <1>0 DEF Row, Lease, NextInc
    <2>. HIDE DEF row, l
    <2>3. highWater' \in Nat /\ highWater <= highWater'
        BY <1>0, <2>1
    <2>4. Seated(row, l, highWater')
        BY <1>0, <2>1, <2>2 DEF Seated
    <2>. QED BY <2>1, <2>3, <2>4, SeatBoth
<1>2. ASSUME NEW tok \in Tokens, NEW target \in Tokens, NEW sid \in Sids,
             RecordRestartBackendClaim(id, tok, target, sid)
      PROVE  AllSeated'
    <2>. DEFINE l == [leases[id] EXCEPT !.sid = sid, !.sidOwner = target]
    <2>1. l.prev = leases[id].prev /\ l.sid # None /\ l.sidOwner # 0
        BY <1>0, NoneIsFresh DEF Lease, Tokens
    <2>2. leases' = [leases EXCEPT ![id] = l] /\ UNCHANGED <<sessions, highWater>>
        BY <1>2 DEF RecordRestartBackendClaim
    <2>. HIDE DEF l
    <2>3. Seated(sessions[id], l, highWater)
        BY <1>0, <2>1 DEF Seated
    <2>. QED BY <1>0, <2>2, <2>3, SeatLease
<1>3. ASSUME NEW tok \in Tokens, NEW target \in Tokens, NEW sid \in Sids,
             ClearRestartBackendClaim(id, tok, target, sid)
      PROVE  AllSeated'
    <2>. DEFINE l == [leases[id] EXCEPT !.sid = None, !.sidOwner = 0]
    <2>1. l.prev = leases[id].prev /\ l.sidOwner = 0 /\ l.sid = None
        BY <1>0 DEF Lease
    <2>2. leases' = [leases EXCEPT ![id] = l] /\ UNCHANGED <<sessions, highWater>>
        BY <1>3 DEF ClearRestartBackendClaim
    <2>. HIDE DEF l
    <2>3. Seated(sessions[id], l, highWater)
        BY <1>0, <2>1 DEF Seated
    <2>. QED BY <1>0, <2>2, <2>3, SeatLease
<1>4. ASSUME NEW tok \in Tokens, NEW target \in Tokens, NEW sid \in Sids \cup {None},
             NEW dir \in Dirs \cup {None}, CompleteRestartLaunch(id, tok, target, sid, dir)
      PROVE  AllSeated'
    <2>. DEFINE pane == IF leases[id].pane # None THEN leases[id].pane ELSE sessions[id].pane
                row  == Refreshed(sessions[id], pane, sid, dir, sessions[id].canon)
    <2>1. row.inc = sessions[id].inc /\ row.pane = pane /\ row.cred = sessions[id].cred
        BY <1>0 DEF Refreshed, Row
    <2>2. /\ sessions' = [sessions EXCEPT ![id] = row]
          /\ leases' = [leases EXCEPT ![id] = NoLease]
          /\ UNCHANGED highWater
        BY <1>4 DEF CompleteRestartLaunch
    <2>. HIDE DEF row
    <2>3. Seated(row, leases[id], highWater)
        BY <1>0, <2>1 DEF Seated
    <2>4. Seated(row, NoLease, highWater)
        BY <1>0, <2>3 DEF Seated, NoLease, NoRow
    <2>. QED BY <1>0, <2>2, <2>4, SeatBoth
<1>5. ASSUME NEW tok \in Tokens, NEW target \in Tokens, RollbackRestartLaunch(id, tok, target)
      PROVE  AllSeated'
    <2>1. /\ sessions' = [sessions EXCEPT ![id] = leases[id].prev]
          /\ leases' = [leases EXCEPT ![id] = NoLease]
          /\ UNCHANGED highWater
          /\ leases[id].phase = "Restarting" /\ leases[id].prev.inc # 0
          /\ sessions[id].inc = target
        BY <1>5 DEF RollbackRestartLaunch, StagedFor, Holds
    <2>2. leases[id].prev.pane = sessions[id].pane /\ sessions[id].inc # 0
        BY <1>0, <2>1, RowTypes, NoRowType DEF Good, Tokens
    <2>3. Seated(leases[id].prev, NoLease, highWater)
        BY <1>0, <2>2 DEF Seated, NoLease, NoRow
    <2>. QED BY <1>0, <2>1, <2>3, SeatBoth
<1>. QED BY <1>1, <1>2, <1>3, <1>4, <1>5 DEF RestartStep

LEMMA RestoreSeats ==
    ASSUME IInv, AllSeated, NEW gone \in SUBSET Ids, Restore(gone)
    PROVE  AllSeated'
<1>. SUFFICES ASSUME NEW id \in Ids
              PROVE  Seated(sessions'[id], leases'[id], highWater')
    BY DEF AllSeated
<1>. DEFINE incumbent == IF /\ leases[id].phase = "Restarting"
                            /\ leases[id].prev.inc # 0
                            /\ Live(id) /\ sessions[id].inc = leases[id].target
                         THEN leases[id].prev ELSE sessions[id]
            bare == [incumbent EXCEPT !.cred = 0, !.scanned = FALSE]
<1>1. /\ Seated(sessions[id], leases[id], highWater)
      /\ sessions[id] \in Row /\ leases[id].prev \in Row
      /\ highWater \in Nat
      /\ Good(sessions[id], dormant[id], leases[id])
    BY OfId, RowTypes DEF AllSeated
<1>2. /\ sessions'[id] \in {NoRow, bare}
      /\ leases'[id] = NoLease /\ highWater' = highWater
    BY DEF Restore, RestoredHighWater
<1>3. incumbent.inc # 0 => incumbent.pane # None
    BY <1>1, NoRowType DEF Seated, Good, Live
<1>4. bare.inc = incumbent.inc /\ bare.pane = incumbent.pane /\ bare.cred = 0
    BY <1>1 DEF Row
<1>. HIDE DEF bare, incumbent
<1>5. Seated(bare, NoLease, highWater)
    BY <1>1, <1>3, <1>4 DEF Seated, NoLease, NoRow
<1>. QED BY <1>1, <1>2, <1>5, NoneSeated

LEMMA SectionSeats ==
    ASSUME IInv, AllSeated, FlowSection
    PROVE  AllSeated'
<1>1. ASSUME NEW id \in Ids, NEW tok \in Tokens, NEW pane \in Panes, DormantOwned(id, tok, pane)
      PROVE  AllSeated'
    <2>1. Seated(NoRow, leases[id], highWater)
        BY RowlessSeated, RowTypes DEF AllSeated
    <2>. QED BY <1>1, <2>1, SeatRow DEF DormantOwned
<1>2. ASSUME NEW id \in Ids, NEW sid \in Sids, NEW tok \in Tokens,
             BindBackendIdentity(id, sid, tok)
      PROVE  AllSeated'
    <2>. DEFINE row == [sessions[id] EXCEPT !.backend = TRUE, !.sid = sid, !.cred = 0]
    <2>1. row.inc = sessions[id].inc /\ row.pane = sessions[id].pane /\ row.cred = 0
        BY RowTypes DEF Row
    <2>2. sessions' = [sessions EXCEPT ![id] = row] /\ UNCHANGED <<leases, highWater>>
        BY <1>2 DEF BindBackendIdentity, SetPair
    <2>. HIDE DEF row
    <2>3. Seated(row, leases[id], highWater)
        BY <2>1, RowTypes DEF Seated, AllSeated
    <2>. QED BY <2>2, <2>3, SeatRow
<1>. QED BY <1>1, <1>2, LeaseSectionSeats, RestartSectionSeats, RestoreSeats DEF FlowSection

-----------------------------------------------------------------------------
(* What the flows in progress look like. *)

Kinds  == {"idle", "start", "restart", "kill", "recover"}
Modes  == {"create", "soft", "resume"}
Stages == {"idle", "release", "failed", "complete",
           "dir", "create", "record", "commit", "launch", "discard", "finalize", "cleanup",
           "rollbackStart", "make", "claim", "attach", "disown", "undo", "clear", "unmade",
           "snapshot", "stage", "inspect", "custody", "giveUp", "respawn", "serve", "prompt",
           "fallback", "custodyNew", "dropNew", "rollback", "killProvisional",
           "claimed", "abort", "exit", "killing", "removeRow", "replay"}

Flow == [flow : Kinds, at : Stages, id : Ids \cup {None}, tok : Nat, target : Nat,
         pane : Panes \cup {None}, sid : Sids \cup {None},
         oldPane : Panes \cup {None}, oldSid : Sids \cup {None}, mode : Modes]

Sensible(f) ==
    /\ f.flow # "idle" \/ f.at # "idle" => f.id \in Ids
    /\ f.flow = "restart" /\ f.at \notin {"snapshot", "release"} => f.pane \in Panes
    /\ f.at = "record" => f.pane \in Panes

Working == /\ work \in [Workers -> Flow]
           /\ \A w \in Workers : Sensible(work[w])

FInv == IInv /\ AllSeated /\ Working /\ http \in BOOLEAN

(* What is shown of every step *)
Allowed == FlowSection \/ UNCHANGED vars

LEMMA IdleSensible == Idle \in Flow /\ Sensible(Idle)
BY DEF Idle, Flow, Sensible, Kinds, Modes, Stages

(* A flow that is replaced by a sensible one, or goes on within itself *)
LEMMA SetWorks ==
    ASSUME Working, NEW w \in Workers, NEW f \in Flow, Sensible(f),
           work' = [work EXCEPT ![w] = f]
    PROVE  Working'
BY DEF Working

LEMMA EndWorks == ASSUME Working, NEW w \in Workers, End(w) PROVE Working'
BY IdleSensible, SetWorks DEF End

LEMMA GotoWorks ==
    ASSUME Working, NEW w \in Workers, NEW at \in Stages, Goto(w, at), at # "record", work[w].at # "idle",
           work[w].flow = "restart" => work[w].at \notin {"snapshot", "release"}
    PROVE  Working'
<1>. DEFINE f == [work[w] EXCEPT !.at = at]
<1>1. work[w] \in Flow /\ Sensible(work[w])
    BY DEF Working
<1>2. /\ f \in Flow /\ f.at = at
      /\ f.flow = work[w].flow /\ f.id = work[w].id /\ f.pane = work[w].pane
    BY <1>1 DEF Flow
<1>3. work' = [work EXCEPT ![w] = f]
    BY DEF Goto
<1>. HIDE DEF f
<1>4. Sensible(f)
    BY <1>1, <1>2 DEF Sensible
<1>. QED BY <1>2, <1>3, <1>4, SetWorks

LEMMA NewPaneWorks ==
    ASSUME Working, NEW w \in Workers, NEW inc, NEW at \in Stages, work[w].at # "idle", NewPane(w, inc, at)
    PROVE  Working'
<1>1. PICK p \in Panes : work' = [work EXCEPT ![w] = [@ EXCEPT !.at = at, !.pane = p]]
    BY DEF NewPane
<1>. DEFINE f == [work[w] EXCEPT !.at = at, !.pane = p]
<1>2. work[w] \in Flow /\ Sensible(work[w])
    BY DEF Working
<1>3. /\ f \in Flow /\ f.pane = p
      /\ f.flow = work[w].flow /\ f.id = work[w].id
    BY <1>2 DEF Flow
<1>4. work' = [work EXCEPT ![w] = f]
    BY <1>1
<1>. HIDE DEF f
<1>5. Sensible(f)
    BY <1>2, <1>3 DEF Sensible
<1>. QED BY <1>3, <1>4, <1>5, SetWorks

LEMMA AtStage ==
    ASSUME Working, NEW w \in Workers, work[w].at # "idle"
    PROVE  work[w].id \in Ids /\ work[w] \in Flow
BY DEF Working, Sensible

LEMMA AtFlow ==
    ASSUME Working, NEW w \in Workers, NEW flow, NEW at, At(w, flow, at), flow # "idle"
    PROVE  work[w].id \in Ids /\ work[w] \in Flow /\ work[w].flow = flow /\ work[w].at = at
BY DEF At, Working, Sensible

(* Owners that a section has compared with the registry were handed out. *)
LEMMA OwnersKnown ==
    ASSUME IInv, NEW id \in Ids
    PROVE  /\ Leased(id) => leases[id].inc \in Tokens
           /\ Live(id) => sessions[id].inc \in Tokens
           /\ sessions[id].inc # 0 => sessions[id].inc \in Tokens
           /\ leases[id].target # 0 => leases[id].target \in Tokens
BY OfId, RowTypes DEF Leased, Live, Tokens

LEMMA StagedTokens ==
    ASSUME IInv, NEW id \in Ids, NEW tok, NEW target, StagedFor(id, tok, target)
    PROVE  tok \in Tokens /\ target \in Tokens
<1>1. /\ leases[id].inc = tok /\ Leased(id) /\ leases[id].phase = "Restarting"
      /\ leases[id].target = target /\ leases[id].prev.inc # 0
    BY DEF StagedFor, Holds
<1>2. Good(sessions[id], dormant[id], leases[id])
    BY OfId
<1>3. target # 0
    BY <1>1, <1>2, NoRowType, RowTypes DEF Good
<1>. QED BY <1>1, <1>3, OwnersKnown

(* Drop, whatever inc and failed are *)
LEMMA DropWorks ==
    ASSUME Working, NEW w \in Workers, NEW inc, NEW dropped \in Stages \ {"record"},
           NEW other \in Stages \ {"record"},
           work[w].at # "idle",
           work[w].flow = "restart" => work[w].at \notin {"snapshot", "release"},
           \/ Drop(w, inc, dropped, End(w))
           \/ Drop(w, inc, dropped, Goto(w, other))
    PROVE  Working' /\ Allowed
<1>1. Goto(w, dropped) \/ Goto(w, other) \/ End(w)
    BY DEF Drop
<1>2. UNCHANGED vars
    BY DEF Drop, Registry
<1>. QED BY <1>1, <1>2, GotoWorks, EndWorks DEF Allowed, Stages

-----------------------------------------------------------------------------
(* Starts. *)

LEMMA StartStepAllowed ==
    ASSUME FInv, NEW w \in Workers, StartStep(w)
    PROVE  Working' /\ Allowed
<1>. USE DEF FInv
<1>. DEFINE f == work[w]
<1>0. Working
    OBVIOUS
<1>1. CASE StartDir(w)
    <2>1. f.id \in Ids /\ f.flow = "start" /\ f.at # "idle"
        BY <1>1, AtFlow DEF StartDir
    <2>2. \/ \E dir \in Dirs : RecordProjectDirClaim(f.id, f.tok, dir)
          \/ UNCHANGED vars
        BY <1>1 DEF StartDir, Attempt, Registry
    <2>3. Allowed
        BY <2>1, <2>2, OwnersKnown DEF RecordProjectDirClaim, MayClaimDir, LeasedBy, Allowed, FlowSection, LeaseStep
    <2>4. Goto(w, "create") \/ Goto(w, "release") \/ End(w)
        BY <1>1 DEF StartDir, Attempt
    <2>. QED BY <2>1, <2>3, <2>4, GotoWorks, EndWorks DEF Stages
<1>2. CASE StartCreate(w)
    <2>1. f.flow = "start" /\ f.at # "idle" /\ UNCHANGED vars
        BY <1>2, AtFlow DEF StartCreate, Registry
    <2>2. NewPane(w, f.tok, "record") \/ Goto(w, "release")
        BY <1>2 DEF StartCreate
    <2>. QED BY <2>1, <2>2, NewPaneWorks, GotoWorks DEF Allowed, Stages
<1>3. CASE StartRecord(w)
    <2>1. f.id \in Ids /\ f.flow = "start" /\ f.at # "idle" /\ f.pane \in Panes
        BY <1>3, AtFlow DEF StartRecord, Working, Sensible
    <2>2. RecordInertStartPane(f.id, f.tok, f.pane) \/ UNCHANGED vars
        BY <1>3 DEF StartRecord, Attempt, Registry
    <2>3. Allowed
        BY <2>1, <2>2, OwnersKnown DEF RecordInertStartPane, MayRecordPane, LeasedBy, Allowed, FlowSection, LeaseStep
    <2>4. Goto(w, "commit") \/ Goto(w, "discard")
        BY <1>3 DEF StartRecord, Attempt
    <2>. QED BY <2>1, <2>3, <2>4, GotoWorks DEF Stages
<1>4. CASE StartCommit(w)
    <2>1. f.id \in Ids /\ f.flow = "start" /\ f.at # "idle"
        BY <1>4, AtFlow DEF StartCommit
    <2>2. \/ \E dir \in Dirs : CommitReservedStart(f.id, f.tok, dir, IF http THEN 0 ELSE f.tok)
          \/ UNCHANGED vars
        BY <1>4 DEF StartCommit, Try, Registry
    <2>3. Allowed
        <3>1. ASSUME NEW dir \in Dirs,
                     CommitReservedStart(f.id, f.tok, dir, IF http THEN 0 ELSE f.tok)
              PROVE  LeaseStep(f.id)
            <4>1. f.tok \in Tokens
                BY <3>1, <2>1, OwnersKnown DEF CommitReservedStart, Holds
            <4>2. (IF http THEN 0 ELSE f.tok) \in {0, f.tok}
                OBVIOUS
            <4>. QED BY <3>1, <4>1, <4>2 DEF LeaseStep
        <3>. QED BY <2>1, <2>2, <3>1 DEF Allowed, FlowSection
    <2>4. Goto(w, "launch") \/ Goto(w, "discard")
        BY <1>4 DEF StartCommit, Try
    <2>. QED BY <2>1, <2>3, <2>4, GotoWorks DEF Stages
<1>5. CASE StartDiscard(w)
    <2>1. f.flow = "start" /\ f.at # "idle"
        BY <1>5, AtFlow DEF StartDiscard
    <2>. QED BY <1>5, <2>1, DropWorks DEF StartDiscard, Stages
<1>6. CASE StartFinalize(w)
    <2>1. f.id \in Ids /\ f.flow = "start" /\ f.at # "idle" /\ f.sid \in Sids \cup {None}
        BY <1>6, AtFlow DEF StartFinalize, Flow
    <2>2. FinalizeReservedStart(f.id, f.tok, f.sid) \/ UNCHANGED vars
        BY <1>6 DEF StartFinalize, Try, Registry
    <2>3. Allowed
        BY <2>1, <2>2, OwnersKnown DEF FinalizeReservedStart, Holds, Allowed, FlowSection, LeaseStep
    <2>4. Goto(w, "release") \/ End(w)
        BY <1>6 DEF StartFinalize, Try
    <2>. QED BY <2>1, <2>3, <2>4, GotoWorks, EndWorks DEF Stages
<1>7. CASE StartCleanup(w)
    <2>1. f.flow = "start" /\ f.at # "idle"
        BY <1>7, AtFlow DEF StartCleanup
    <2>. QED BY <1>7, <2>1, DropWorks DEF StartCleanup, Stages
<1>8. CASE StartRollback(w)
    <2>1. f.id \in Ids /\ f.flow = "start" /\ f.at # "idle"
        BY <1>8, AtFlow DEF StartRollback
    <2>2. RollbackReservedStart(f.id, f.tok, f.pane) \/ UNCHANGED vars
        BY <1>8 DEF StartRollback, Try, Registry
    <2>3. Allowed
        <3>1. ASSUME RollbackReservedStart(f.id, f.tok, f.pane)
              PROVE  LeaseStep(f.id)
            <4>1. /\ f.tok \in Tokens /\ f.tok # 0
                  /\ sessions[f.id].inc = f.tok /\ sessions[f.id].pane = f.pane
                BY <3>1, <2>1, OwnersKnown DEF RollbackReservedStart, Holds, Leased
            <4>2. f.pane \in Panes
                BY <2>1, <4>1, RowTypes DEF AllSeated, Seated, Row
            <4>. QED BY <3>1, <4>1, <4>2 DEF LeaseStep
        <3>. QED BY <2>1, <2>2, <3>1 DEF Allowed, FlowSection
    <2>4. Goto(w, "release") \/ End(w)
        BY <1>8 DEF StartRollback, Try
    <2>. QED BY <2>1, <2>3, <2>4, GotoWorks, EndWorks DEF Stages
<1>. QED BY <1>1, <1>2, <1>3, <1>4, <1>5, <1>6, <1>7, <1>8 DEF StartStep

-----------------------------------------------------------------------------
(* The steps that starts and restarts share. *)

LEMMA SharedStepAllowed ==
    ASSUME FInv, NEW w \in Workers, SharedStep(w)
    PROVE  Working' /\ Allowed
<1>. USE DEF FInv
<1>. DEFINE f == work[w]
<1>1. CASE Launch(w)
    <2>1. f.at = "launch" /\ UNCHANGED vars
        BY <1>1 DEF Launch, Registry
    <2>2. \E at \in {"make", "finalize", "serve", "complete", "cleanup", "rollback"} : Goto(w, at)
        BY <1>1 DEF Launch
    <2>. QED BY <2>1, <2>2, GotoWorks DEF Allowed, Stages
<1>2. CASE Make(w)
    <2>1. f.at = "make" /\ UNCHANGED vars
        BY <1>2 DEF Make, Registry
    <2>2. CASE Goto(w, "unmade")
        BY <2>1, <2>2, GotoWorks DEF Allowed, Stages
    <2>3. ASSUME NEW s \in Sids, NEW at \in {"attach", "claim"},
                 work' = [work EXCEPT ![w] = [@ EXCEPT !.sid = s, !.at = at]]
          PROVE  Working'
        <3>. DEFINE g == [f EXCEPT !.sid = s, !.at = at]
        <3>1. f \in Flow /\ Sensible(f) /\ f.id \in Ids
            BY <2>1, AtStage DEF Working
        <3>2. /\ g \in Flow /\ g.at = at
              /\ g.flow = f.flow /\ g.id = f.id /\ g.pane = f.pane
            BY <3>1 DEF Flow, Stages
        <3>3. work' = [work EXCEPT ![w] = g]
            BY <2>3
        <3>. HIDE DEF g
        <3>4. Sensible(g)
            BY <2>1, <3>1, <3>2 DEF Sensible
        <3>. QED BY <3>2, <3>3, <3>4, SetWorks
    <2>4. \/ Goto(w, "unmade")
          \/ \E s \in Sids : work' = [work EXCEPT ![w] =
                [@ EXCEPT !.sid = s, !.at = IF f.flow = "start" THEN "attach" ELSE "claim"]]
        BY <1>2 DEF Make
    <2>5. (IF f.flow = "start" THEN "attach" ELSE "claim") \in {"attach", "claim"}
        OBVIOUS
    <2>. QED BY <2>1, <2>2, <2>3, <2>4, <2>5 DEF Allowed
<1>3. CASE Claim(w)
    <2>1. /\ f.id \in Ids /\ f.at = "claim" /\ f.sid \in Sids \cup {None}
        BY <1>3, AtFlow DEF Claim, Flow
    <2>2. RecordRestartBackendClaim(f.id, f.tok, f.target, f.sid) \/ UNCHANGED vars
        BY <1>3 DEF Claim, Try, Registry
    <2>3. Allowed
        <3>1. ASSUME RecordRestartBackendClaim(f.id, f.tok, f.target, f.sid)
              PROVE  RestartStep(f.id)
            <4>1. StagedFor(f.id, f.tok, f.target)
                BY <3>1 DEF RecordRestartBackendClaim
            <4>2. f.tok \in Tokens /\ f.target \in Tokens
                BY <2>1, <4>1, StagedTokens
            <4>3. f.sid # None
                BY <2>1, <3>1 DEF RecordRestartBackendClaim, FreshSid
            <4>. QED BY <2>1, <3>1, <4>2, <4>3 DEF RestartStep
        <3>. QED BY <2>1, <2>2, <3>1 DEF Allowed, FlowSection
    <2>4. Goto(w, "attach") \/ Goto(w, "disown")
        BY <1>3 DEF Claim, Try
    <2>. QED BY <2>1, <2>3, <2>4, GotoWorks DEF Stages
<1>4. CASE Attach(w)
    <2>1. f.at = "attach" /\ UNCHANGED vars
        BY <1>4 DEF Attach, Registry
    <2>2. \E at \in {"prompt", "undo", "finalize", "complete"} : Goto(w, at)
        BY <1>4 DEF Attach
    <2>. QED BY <2>1, <2>2, GotoWorks DEF Allowed, Stages
<1>5. CASE Undo(w)
    <2>1. f.at \in {"disown", "undo"} /\ UNCHANGED vars
        BY <1>5 DEF Undo, Registry
    <2>2. Goto(w, "clear") \/ Goto(w, "unmade")
        BY <1>5 DEF Undo
    <2>. QED BY <2>1, <2>2, GotoWorks DEF Allowed, Stages
<1>6. CASE Clear(w)
    <2>1. /\ f.id \in Ids /\ f.at = "clear" /\ f.sid \in Sids \cup {None}
        BY <1>6, AtFlow DEF Clear, Flow
    <2>2. ClearRestartBackendClaim(f.id, f.tok, f.target, f.sid) \/ UNCHANGED vars
        BY <1>6 DEF Clear, Try, Registry
    <2>3. Allowed
        <3>1. ASSUME ClearRestartBackendClaim(f.id, f.tok, f.target, f.sid)
              PROVE  RestartStep(f.id) \/ UNCHANGED vars
            <4>1. /\ Holds(f.id, "Restarting", f.tok)
                  /\ leases[f.id].target = f.target
                  /\ leases[f.id].sidOwner = f.target
                  /\ leases[f.id].sid = f.sid
                BY <3>1 DEF ClearRestartBackendClaim
            <4>2. f.tok \in Tokens
                BY <2>1, <4>1, OwnersKnown DEF Holds
            <4>3. CASE f.target = 0
                <5>. DEFINE l == leases[f.id]
                            g == [l EXCEPT !.sid = None, !.sidOwner = 0]
                <5>1. l \in Lease /\ l.sidOwner = 0 /\ l.sid = None
                    BY <2>1, <4>1, <4>3, RowTypes DEF AllSeated, Seated
                <5>2. g = l
                    BY <5>1 DEF Lease
                <5>3. leases' = [leases EXCEPT ![f.id] = g] /\ UNCHANGED <<sessions, dormant, highWater>>
                    BY <3>1 DEF ClearRestartBackendClaim
                <5>4. leases' = leases
                    BY <2>1, <5>2, <5>3 DEF IInv
                <5>. QED BY <5>3, <5>4 DEF vars
            <4>4. CASE f.target # 0
                <5>1. f.target \in Tokens
                    BY <2>1, <4>1, <4>4, OwnersKnown
                <5>2. f.sid # None
                    BY <2>1, <4>1, <4>4 DEF AllSeated, Seated
                <5>. QED BY <2>1, <3>1, <4>2, <5>1, <5>2 DEF RestartStep
            <4>. QED BY <4>3, <4>4
        <3>. QED BY <2>1, <2>2, <3>1 DEF Allowed, FlowSection
    <2>4. Goto(w, "unmade")
        BY <1>6 DEF Clear, Try
    <2>. QED BY <2>1, <2>3, <2>4, GotoWorks DEF Stages
<1>7. CASE Unmade(w)
    <2>1. f.at = "unmade" /\ UNCHANGED vars
        BY <1>7 DEF Unmade, Registry
    <2>2. PICK at \in {"cleanup", "failed", "inspect", "rollback"} :
              work' = [work EXCEPT ![w] =
                          [@ EXCEPT !.sid = None, !.mode = "create", !.at = at]]
        BY <1>7 DEF Unmade
    <2>. DEFINE g == [f EXCEPT !.sid = None, !.mode = "create", !.at = at]
    <2>3. f \in Flow /\ Sensible(f) /\ f.id \in Ids
        BY <2>1, AtStage DEF Working
    <2>0. at \in Stages /\ "create" \in Modes
        BY DEF Stages, Modes
    <2>4. /\ g \in Flow /\ g.at = at
          /\ g.flow = f.flow /\ g.id = f.id /\ g.pane = f.pane
        BY <2>3, <2>0 DEF Flow
    <2>5. work' = [work EXCEPT ![w] = g]
        BY <2>2
    <2>. HIDE DEF g
    <2>6. Sensible(g)
        BY <2>1, <2>3, <2>4 DEF Sensible
    <2>. QED BY <2>1, <2>4, <2>5, <2>6, SetWorks DEF Allowed
<1>8. CASE Release(w)
    <2>1. f.at = "release" /\ f.id \in Ids
        BY <1>8, AtStage DEF Release
    <2>2. AbortLifecycle(f.id, f.tok) \/ UNCHANGED vars
        BY <1>8 DEF Release, Attempt, Registry
    <2>3. Allowed
        BY <2>1, <2>2, OwnersKnown DEF AbortLifecycle, LeasedBy, Allowed, FlowSection, LeaseStep
    <2>4. End(w)
        BY <1>8 DEF Release, Attempt
    <2>. QED BY <2>3, <2>4, EndWorks
<1>. QED BY <1>1, <1>2, <1>3, <1>4, <1>5, <1>6, <1>7, <1>8 DEF SharedStep

-----------------------------------------------------------------------------
(* Restarts. *)

LEMMA RestartFlowStepAllowed ==
    ASSUME FInv, NEW w \in Workers, RestartFlowStep(w)
    PROVE  Working' /\ Allowed
<1>. USE DEF FInv
<1>. DEFINE f == work[w]
<1>1. CASE RestartSnapshot(w)
    <2>1. /\ f \in Flow /\ Sensible(f) /\ f.id \in Ids
          /\ f.flow = "restart" /\ f.at = "snapshot" /\ UNCHANGED vars
        BY <1>1, AtFlow DEF RestartSnapshot, Registry, Working
    <2>2. CASE work' = [work EXCEPT ![w] = [@ EXCEPT !.at = "release"]]
        <3>1. f.at # "idle" /\ "release" \in Stages
            BY <2>1 DEF Stages
        <3>. DEFINE g == [f EXCEPT !.at = "release"]
        <3>2. /\ g \in Flow /\ g.at = "release" /\ g.id = f.id
            BY <2>1, <3>1 DEF Flow
        <3>3. work' = [work EXCEPT ![w] = g]
            BY <2>2
        <3>. HIDE DEF g
        <3>4. Sensible(g)
            BY <2>1, <3>2 DEF Sensible
        <3>. QED BY <2>1, <3>2, <3>3, <3>4, SetWorks DEF Allowed
    <2>3. CASE ~(work' = [work EXCEPT ![w] = [@ EXCEPT !.at = "release"]])
        <3>. DEFINE row == sessions[f.id]
                    g   == [f EXCEPT !.at = "stage", !.pane = row.pane,
                                     !.oldPane = row.pane, !.oldSid = row.sid]
        <3>1. /\ Holds(f.id, "Restarting", f.tok) /\ row.inc = f.tok
              /\ work' = [work EXCEPT ![w] = g]
            BY <1>1, <2>3 DEF RestartSnapshot
        <3>2. /\ row.inc # 0 /\ row \in Row
            BY <2>1, <3>1, RowTypes DEF Holds, Leased
        <3>3. row.pane \in Panes /\ row.sid \in Sids \cup {None}
            BY <2>1, <3>2 DEF AllSeated, Seated, Row
        <3>4. g \in Flow /\ g.id = f.id /\ g.pane = row.pane
            BY <2>1, <3>3 DEF Flow, Stages
        <3>. HIDE DEF g, row
        <3>5. Sensible(g)
            BY <2>1, <3>3, <3>4 DEF Sensible
        <3>. QED BY <2>1, <3>1, <3>4, <3>5, SetWorks DEF Allowed
    <2>. QED BY <2>2, <2>3
<1>2. CASE RestartStage(w)
    <2>1. /\ f \in Flow /\ Sensible(f) /\ f.id \in Ids
          /\ f.flow = "restart" /\ f.at = "stage"
        BY <1>2, AtFlow DEF RestartStage, Working
    <2>2. PICK fresh \in BOOLEAN :
             \E renew \in IF fresh THEN {TRUE}
                           ELSE IF f.oldSid # None THEN {FALSE} ELSE {TRUE, http} :
                Try(StageRestartLaunch(f.id, f.tok, renew, renew /\ ~http),
                     work' = [work EXCEPT ![w] =
                        [@ EXCEPT !.target = NextInc,
                                  !.at     = IF http /\ fresh THEN "custody" ELSE "inspect",
                                  !.mode   = IF http /\ fresh THEN "soft"
                                             ELSE IF fresh \/ f.oldSid = None THEN "create"
                                             ELSE "resume"]],
                     Goto(w, "release"))
        BY <1>2 DEF RestartStage
    <2>3. PICK renew \in BOOLEAN :
                Try(StageRestartLaunch(f.id, f.tok, renew, renew /\ ~http),
                     work' = [work EXCEPT ![w] =
                        [@ EXCEPT !.target = NextInc,
                                  !.at     = IF http /\ fresh THEN "custody" ELSE "inspect",
                                  !.mode   = IF http /\ fresh THEN "soft"
                                             ELSE IF fresh \/ f.oldSid = None THEN "create"
                                             ELSE "resume"]],
                     Goto(w, "release"))
        BY <2>2
    <2>. DEFINE at   == IF http /\ fresh THEN "custody" ELSE "inspect"
                mode == IF http /\ fresh THEN "soft"
                        ELSE IF fresh \/ f.oldSid = None THEN "create" ELSE "resume"
    <2>4. at \in {"custody", "inspect"} /\ mode \in Modes
        BY DEF Modes
    <2>5. \/ /\ StageRestartLaunch(f.id, f.tok, renew, renew /\ ~http)
             /\ work' = [work EXCEPT ![w] =
                    [@ EXCEPT !.target = NextInc, !.at = at, !.mode = mode]]
          \/ UNCHANGED vars /\ Goto(w, "release")
        BY <2>3 DEF Try, Registry
    <2>. HIDE DEF at, mode
    <2>6. CASE UNCHANGED vars /\ Goto(w, "release")
        BY <2>1, <2>6, GotoWorks DEF Allowed, Stages
    <2>7. CASE /\ StageRestartLaunch(f.id, f.tok, renew, renew /\ ~http)
               /\ work' = [work EXCEPT ![w] =
                    [@ EXCEPT !.target = NextInc, !.at = at, !.mode = mode]]
        <3>. DEFINE g == [f EXCEPT !.target = NextInc, !.at = at, !.mode = mode]
        <3>1. NextInc \in Nat /\ at \in Stages
            BY <2>1, <2>4, RowTypes DEF NextInc, Stages
        <3>2. g \in Flow /\ g.id = f.id /\ g.pane = f.pane /\ g.at = at
            BY <2>1, <2>4, <3>1 DEF Flow
        <3>3. work' = [work EXCEPT ![w] = g]
            BY <2>7
        <3>. HIDE DEF g
        <3>4. Sensible(g)
            BY <2>1, <2>4, <3>2 DEF Sensible
        <3>5. f.tok \in Tokens
            BY <2>1, <2>7, OwnersKnown DEF StageRestartLaunch, Holds
        <3>6. (renew /\ ~http) \in BOOLEAN
            OBVIOUS
        <3>7. RestartStep(f.id)
            BY <2>7, <3>5, <3>6 DEF RestartStep
        <3>8. Working'
            BY <3>2, <3>3, <3>4, SetWorks
        <3>. QED BY <2>1, <3>7, <3>8 DEF Allowed, FlowSection
    <2>. QED BY <2>5, <2>6, <2>7
<1>3. CASE Inspect(w)
    <2>1. f.at = "inspect" /\ UNCHANGED vars
        BY <1>3 DEF Inspect, At, Registry
    <2>2. \E at \in {"fallback", "custody", "rollback"} : Goto(w, at)
        BY <1>3 DEF Inspect
    <2>. QED BY <2>1, <2>2, GotoWorks DEF Allowed, Stages
<1>4. CASE Custody(w)
    <2>1. /\ f.id \in Ids /\ f.at = "custody" /\ f.pane \in Panes
        BY <1>4, AtFlow DEF Custody, Working, Sensible
    <2>2. RecordInertStartPane(f.id, f.tok, f.pane) \/ UNCHANGED vars
        BY <1>4 DEF Custody, Attempt, Registry
    <2>3. Allowed
        BY <2>1, <2>2, OwnersKnown DEF RecordInertStartPane, MayRecordPane, LeasedBy, Allowed, FlowSection, LeaseStep
    <2>4. \E at \in {"make", "respawn", "unmade", "giveUp"} : Goto(w, at)
        BY <1>4 DEF Custody, Attempt
    <2>. QED BY <2>1, <2>3, <2>4, GotoWorks DEF Stages
<1>5. CASE Respawn(w)
    <2>1. f.at = "respawn" /\ UNCHANGED vars
        BY <1>5 DEF Respawn, At, Registry
    <2>2. \E at \in {"serve", "complete", "fallback", "rollback"} : Goto(w, at)
        BY <1>5 DEF Respawn
    <2>. QED BY <2>1, <2>2, GotoWorks DEF Allowed, Stages
<1>6. CASE Fallback(w)
    <2>1. f.at = "fallback" /\ UNCHANGED vars
        BY <1>6 DEF Fallback, At, Registry
    <2>2. NewPane(w, f.target, "custodyNew") \/ Goto(w, "rollback")
        BY <1>6 DEF Fallback
    <2>. QED BY <2>1, <2>2, NewPaneWorks, GotoWorks DEF Allowed, Stages
<1>7. CASE CustodyNew(w)
    <2>1. /\ f.id \in Ids /\ f.at = "custodyNew" /\ f.pane \in Panes
        BY <1>7, AtFlow DEF CustodyNew, Working, Sensible
    <2>2. RecordInertStartPane(f.id, f.tok, f.pane) \/ UNCHANGED vars
        BY <1>7 DEF CustodyNew, Attempt, Registry
    <2>3. Allowed
        BY <2>1, <2>2, OwnersKnown DEF RecordInertStartPane, MayRecordPane, LeasedBy, Allowed, FlowSection, LeaseStep
    <2>4. Goto(w, "launch") \/ Goto(w, "dropNew")
        BY <1>7 DEF CustodyNew, Attempt
    <2>. QED BY <2>1, <2>3, <2>4, GotoWorks DEF Stages
<1>8. CASE DropNew(w)
    <2>1. f.at = "dropNew"
        BY <1>8 DEF DropNew, At
    <2>. QED BY <1>8, <2>1, DropWorks DEF DropNew, Stages
<1>9. CASE Serve(w)
    <2>1. f.at = "serve" /\ UNCHANGED vars
        BY <1>9 DEF Serve, At, Registry
    <2>2. Goto(w, "complete") \/ Goto(w, "make")
        BY <1>9 DEF Serve
    <2>. QED BY <2>1, <2>2, GotoWorks DEF Allowed, Stages
<1>10. CASE Prompt(w)
    <2>1. f.at = "prompt" /\ UNCHANGED vars
        BY <1>10 DEF Prompt, At, Registry
    <2>2. Goto(w, "complete") \/ Goto(w, "undo")
        BY <1>10 DEF Prompt
    <2>. QED BY <2>1, <2>2, GotoWorks DEF Allowed, Stages
<1>11. CASE RestartComplete(w)
    <2>1. f.id \in Ids /\ f.at = "complete"
        BY <1>11, AtFlow DEF RestartComplete
    <2>2. \/ \E sid \in CompletionSids(f.id) :
                CompleteRestartLaunch(f.id, f.tok, f.target, sid, sessions[f.id].dir)
          \/ UNCHANGED vars
        BY <1>11 DEF RestartComplete, Attempt, Registry
    <2>3. Allowed
        <3>1. ASSUME NEW sid \in CompletionSids(f.id),
                     CompleteRestartLaunch(f.id, f.tok, f.target, sid, sessions[f.id].dir)
              PROVE  RestartStep(f.id)
            <4>1. f.tok \in Tokens /\ f.target \in Tokens
                BY <2>1, <3>1, StagedTokens DEF CompleteRestartLaunch, MayComplete
            <4>2. sid \in Sids \cup {None}
                BY <2>1, RowTypes DEF CompletionSids, Lease
            <4>3. sessions[f.id].dir \in Dirs \cup {None}
                BY <2>1, RowTypes DEF Row
            <4>. QED BY <3>1, <4>1, <4>2, <4>3 DEF RestartStep
        <3>. QED BY <2>1, <2>2, <3>1 DEF Allowed, FlowSection
    <2>4. \E at \in {"release", "undo"} : Goto(w, at)
        BY <1>11 DEF RestartComplete, Attempt
    <2>. QED BY <2>1, <2>3, <2>4, GotoWorks DEF Stages
<1>12. CASE Rollback(w)
    <2>1. f.at \in {"rollback", "giveUp"} /\ f.id \in Ids
        BY <1>12, AtStage DEF Rollback
    <2>2. RollbackRestartLaunch(f.id, f.tok, f.target) \/ UNCHANGED vars
        BY <1>12 DEF Rollback, Try, Registry
    <2>3. Allowed
        <3>1. ASSUME RollbackRestartLaunch(f.id, f.tok, f.target)
              PROVE  RestartStep(f.id)
            <4>1. f.tok \in Tokens /\ f.target \in Tokens
                BY <2>1, <3>1, StagedTokens DEF RollbackRestartLaunch
            <4>. QED BY <3>1, <4>1 DEF RestartStep
        <3>. QED BY <2>1, <2>2, <3>1 DEF Allowed, FlowSection
    <2>4. \E at \in {"release", "killProvisional", "failed"} : Goto(w, at)
        BY <1>12 DEF Rollback, Try
    <2>. QED BY <2>1, <2>3, <2>4, GotoWorks DEF Stages
<1>13. CASE KillProvisional(w)
    <2>1. f.at = "killProvisional"
        BY <1>13 DEF KillProvisional, At
    <2>. QED BY <1>13, <2>1, DropWorks DEF KillProvisional, Stages
<1>14. CASE RestartFailed(w)
    <2>1. f.at = "failed" /\ UNCHANGED vars
        BY <1>14 DEF RestartFailed, At, Registry
    <2>2. End(w) \/ Goto(w, "release")
        BY <1>14 DEF RestartFailed
    <2>. QED BY <2>1, <2>2, GotoWorks, EndWorks DEF Allowed, Stages
<1>. QED BY <1>1, <1>2, <1>3, <1>4, <1>5, <1>6, <1>7, <1>8, <1>9, <1>10, <1>11, <1>12,
            <1>13, <1>14 DEF RestartFlowStep

-----------------------------------------------------------------------------
(* Kills, and the recovery of leases. *)

LEMMA KillStepAllowed ==
    ASSUME FInv, NEW w \in Workers, KillStep(w)
    PROVE  Working' /\ Allowed
<1>. USE DEF FInv
<1>. DEFINE f == work[w]
<1>1. CASE KillRecheck(w)
    <2>1. /\ f \in Flow /\ Sensible(f) /\ f.id \in Ids
          /\ f.flow = "kill" /\ f.at = "claimed" /\ UNCHANGED vars
        BY <1>1, AtFlow DEF KillRecheck, Registry, Working
    <2>2. \/ Goto(w, "release")
          \/ \E at \in {"abort", "exit"} :
                work' = [work EXCEPT ![w] = [@ EXCEPT !.at = at, !.sid = sessions[f.id].sid]]
        BY <1>1 DEF KillRecheck, Goto
    <2>3. ASSUME NEW at \in {"abort", "exit"},
                 work' = [work EXCEPT ![w] = [@ EXCEPT !.at = at, !.sid = sessions[f.id].sid]]
          PROVE  Working'
        <3>. DEFINE g == [f EXCEPT !.at = at, !.sid = sessions[f.id].sid]
        <3>1. sessions[f.id].sid \in Sids \cup {None}
            BY <2>1, RowTypes DEF Row
        <3>0. at \in Stages
            BY DEF Stages
        <3>2. g \in Flow /\ g.id = f.id /\ g.flow = f.flow /\ g.at = at
            BY <2>1, <3>0, <3>1 DEF Flow
        <3>3. work' = [work EXCEPT ![w] = g]
            BY <2>3
        <3>. HIDE DEF g
        <3>4. Sensible(g)
            BY <2>1, <3>2 DEF Sensible
        <3>. QED BY <3>2, <3>3, <3>4, SetWorks
    <2>. QED BY <2>1, <2>2, <2>3, GotoWorks DEF Allowed, Stages
<1>2. CASE KillAbort(w)
    <2>1. f.flow = "kill" /\ f.at = "abort" /\ UNCHANGED vars
        BY <1>2 DEF KillAbort, At, Registry
    <2>2. Goto(w, "exit") \/ Goto(w, "release") \/ End(w)
        BY <1>2 DEF KillAbort
    <2>. QED BY <2>1, <2>2, GotoWorks, EndWorks DEF Allowed, Stages
<1>3. CASE KillGate(w)
    <2>1. f.flow = "kill" /\ f.at = "exit" /\ UNCHANGED vars
        BY <1>3 DEF KillGate, At, Registry
    <2>2. \E at \in {"release", "killing"} : Goto(w, at)
        BY <1>3 DEF KillGate
    <2>. QED BY <2>1, <2>2, GotoWorks DEF Allowed, Stages
<1>4. CASE KillPane(w)
    <2>1. f.flow = "kill" /\ f.at = "killing" /\ UNCHANGED vars
        BY <1>4 DEF KillPane, At, Registry
    <2>2. Goto(w, "release") \/ Goto(w, "removeRow") \/ End(w)
        <3>1. CASE ~OwnsStopping(f.id, f.tok, f.pane)
            BY <1>4, <3>1 DEF KillPane
        <3>2. CASE OwnsStopping(f.id, f.tok, f.pane)
            BY <1>4, <3>2 DEF KillPane
        <3>. QED BY <3>1, <3>2
    <2>. QED BY <2>1, <2>2, GotoWorks, EndWorks DEF Allowed, Stages
<1>5. CASE KillComplete(w)
    <2>1. f.id \in Ids /\ f.flow = "kill" /\ f.at = "removeRow"
        BY <1>5, AtFlow DEF KillComplete
    <2>2. CompleteOwnedStop(f.id, f.tok, f.pane) \/ UNCHANGED vars
        BY <1>5 DEF KillComplete, Try, Registry
    <2>3. Allowed
        <3>1. ASSUME CompleteOwnedStop(f.id, f.tok, f.pane)
              PROVE  LeaseStep(f.id)
            <4>1. /\ f.tok \in Tokens /\ f.tok # 0
                  /\ sessions[f.id].inc = f.tok /\ sessions[f.id].pane = f.pane
                BY <3>1, <2>1, OwnersKnown DEF CompleteOwnedStop, Holds, Leased
            <4>2. f.pane \in Panes
                BY <2>1, <4>1, RowTypes DEF AllSeated, Seated, Row
            <4>. QED BY <3>1, <4>1, <4>2 DEF LeaseStep
        <3>. QED BY <2>1, <2>2, <3>1 DEF Allowed, FlowSection
    <2>4. Goto(w, "release")
        BY <1>5 DEF KillComplete, Try
    <2>. QED BY <2>1, <2>3, <2>4, GotoWorks DEF Stages
<1>. QED BY <1>1, <1>2, <1>3, <1>4, <1>5 DEF KillStep

LEMMA RecoveryAllowed ==
    ASSUME FInv, NEW w \in Workers, NEW id \in Ids,
           RecoverReplay(w) \/ RecoverRead(w, id)
    PROVE  Working' /\ Allowed
<1>. USE DEF FInv
<1>1. CASE RecoverReplay(w)
    <2>1. work[w].flow = "recover" /\ work[w].at = "replay" /\ UNCHANGED vars
        BY <1>1 DEF RecoverReplay, At, Registry
    <2>2. Goto(w, "release") \/ End(w)
        BY <1>1 DEF RecoverReplay
    <2>. QED BY <2>1, <2>2, GotoWorks, EndWorks DEF Allowed, Stages
<1>2. CASE RecoverRead(w, id)
    <2>. DEFINE at == IF http /\ leases[id].sid # None THEN "replay" ELSE "release"
                g  == [Idle EXCEPT !.flow = "recover", !.id = id, !.tok = leases[id].inc,
                                   !.sid = leases[id].sid, !.at = at]
    <2>1. at \in {"replay", "release"}
        OBVIOUS
    <2>2. work' = [work EXCEPT ![w] = g] /\ UNCHANGED vars
        BY <1>2 DEF RecoverRead, Begin, Registry
    <2>. HIDE DEF at
    <2>3. leases[id].inc \in Nat /\ leases[id].sid \in Sids \cup {None}
        BY RowTypes DEF Lease
    <2>0. at \in Stages /\ "recover" \in Kinds
        BY <2>1 DEF Stages, Kinds
    <2>4. g \in Flow /\ g.id = id /\ g.flow = "recover" /\ g.at = at
        BY <2>0, <2>3, IdleSensible DEF Flow
    <2>. HIDE DEF g
    <2>5. Sensible(g)
        BY <2>1, <2>4 DEF Sensible
    <2>. QED BY <2>2, <2>4, <2>5, SetWorks DEF Allowed
<1>. QED BY <1>1, <1>2

-----------------------------------------------------------------------------
(* The beginnings of flows, and what happens outside them. *)

LEMMA BeginsAllowed ==
    ASSUME FInv, NEW w \in Workers, NEW id \in Ids, Begins(w, id)
    PROVE  Working' /\ Allowed
<1>. USE DEF FInv
<1>0. highWater \in Nat /\ sessions[id] \in Row /\ sessions[id].inc \in Nat
    BY RowTypes
<1>1. CASE StartReserve(w, id)
    <2>. DEFINE g == [Idle EXCEPT !.flow = "start", !.at = "dir", !.id = id, !.tok = NextInc]
    <2>1. work' = [work EXCEPT ![w] = g] /\ ReserveStart(id)
        BY <1>1 DEF StartReserve, Begin
    <2>2. NextInc \in Nat
        BY <1>0 DEF NextInc
    <2>0. "dir" \in Stages /\ "start" \in Kinds
        BY DEF Stages, Kinds
    <2>3. g \in Flow /\ g.id = id /\ g.flow = "start" /\ g.at = "dir"
        BY <2>0, <2>2, IdleSensible DEF Flow
    <2>. HIDE DEF g
    <2>4. Sensible(g)
        BY <2>3 DEF Sensible
    <2>. QED BY <2>1, <2>3, <2>4, SetWorks DEF Allowed, FlowSection, LeaseStep
<1>2. CASE RestartClaim(w, id)
    <2>. DEFINE tok == sessions[id].inc
                g   == [Idle EXCEPT !.flow = "restart", !.at = "snapshot", !.id = id, !.tok = tok]
    <2>1. work' = [work EXCEPT ![w] = g] /\ ClaimExistingStart(id, tok)
        BY <1>2 DEF RestartClaim, Begin
    <2>0. "snapshot" \in Stages /\ "restart" \in Kinds
        BY DEF Stages, Kinds
    <2>2. g \in Flow /\ g.id = id /\ g.flow = "restart" /\ g.at = "snapshot"
        BY <1>0, <2>0, IdleSensible DEF Flow
    <2>. HIDE DEF g
    <2>3. Sensible(g)
        BY <2>2 DEF Sensible
    <2>4. tok \in Tokens
        BY <2>1, OwnersKnown DEF ClaimExistingStart
    <2>5. Allowed
        BY <2>1, <2>4 DEF Allowed, FlowSection, LeaseStep
    <2>. QED BY <2>1, <2>2, <2>3, <2>5, SetWorks
<1>3. CASE KillClaim(w, id)
    <2>. DEFINE row == sessions[id]
                g   == [Idle EXCEPT !.flow = "kill", !.at = "claimed", !.id = id,
                                    !.tok = row.inc, !.pane = row.pane]
    <2>1. /\ work' = [work EXCEPT ![w] = g]
          /\ ClaimExistingStop(id, row.inc, row.pane)
          /\ row.pane # None
        BY <1>3 DEF KillClaim, Begin
    <2>2. row.pane \in Panes
        BY <1>0, <2>1 DEF Row
    <2>3. g \in Flow /\ g.id = id /\ g.flow = "kill" /\ g.at = "claimed"
        BY <1>0, <2>2, IdleSensible DEF Flow, Kinds, Stages
    <2>. HIDE DEF g
    <2>4. Sensible(g)
        BY <2>3 DEF Sensible
    <2>5. row.inc \in Tokens
        BY <2>1, OwnersKnown DEF ClaimExistingStop
    <2>6. Allowed
        BY <2>1, <2>2, <2>5 DEF Allowed, FlowSection, LeaseStep
    <2>. QED BY <2>1, <2>3, <2>4, <2>6, SetWorks
<1>. QED BY <1>1, <1>2, <1>3 DEF Begins

LEMMA EnvironmentAllowed ==
    ASSUME FInv, Environment
    PROVE  Working' /\ Allowed
<1>. USE DEF FInv
<1>1. ASSUME UNCHANGED work PROVE Working'
    BY <1>1 DEF Working
<1>2. ASSUME NEW p \in Panes, PaneDies(p) PROVE UNCHANGED vars /\ UNCHANGED work
    BY <1>2 DEF PaneDies, Registry
<1>3. ASSUME NEW id \in Ids, Reap(id) PROVE FlowSection /\ UNCHANGED work
    <2>1. DormantOwned(id, sessions[id].inc, sessions[id].pane) /\ sessions[id].pane # None
        BY <1>3 DEF Reap
    <2>2. sessions[id].inc \in Tokens
        BY <2>1, OwnersKnown DEF DormantOwned
    <2>3. sessions[id].pane \in Panes
        BY <2>1, RowTypes DEF Row
    <2>. QED BY <1>3, <2>1, <2>2, <2>3 DEF Reap, FlowSection
<1>4. ASSUME NEW id \in Ids, Deliver(id) PROVE UNCHANGED vars /\ UNCHANGED work
    BY <1>4 DEF Deliver, Registry
<1>5. ASSUME NEW sid \in Sids, TurnEnds(sid) PROVE UNCHANGED vars /\ UNCHANGED work
    BY <1>5 DEF TurnEnds, Registry
<1>6. ASSUME NEW id \in Ids, NEW sid \in Sids, HookBinds(id, sid)
      PROVE  FlowSection /\ UNCHANGED work
    <2>1. BindBackendIdentity(id, sid, sessions[id].cred)
        BY <1>6 DEF HookBinds
    <2>2. sessions[id].cred # 0 /\ sessions[id].cred <= highWater
        BY <2>1 DEF BindBackendIdentity, AllSeated, Seated
    <2>3. sessions[id].cred \in Tokens
        BY <2>2, RowTypes DEF Tokens
    <2>. QED BY <1>6, <2>1, <2>3 DEF HookBinds, FlowSection
<1>7. ASSUME Reboot PROVE FlowSection /\ Working'
    <2>. DEFINE gone == {id \in Ids : /\ KeptPane(id) # None
                                      /\ KeptPane(id) \notin ran \/ proc'[KeptPane(id)] = Gone}
    <2>1. Restore(gone) /\ work' = [w \in Workers |-> Idle]
        BY <1>7 DEF Reboot
    <2>2. gone \in SUBSET Ids
        OBVIOUS
    <2>. HIDE DEF gone
    <2>3. FlowSection
        BY <2>1, <2>2 DEF FlowSection
    <2>. QED BY <2>1, <2>3, IdleSensible DEF Working
<1>8. QED
    <2>1. \/ UNCHANGED vars /\ UNCHANGED work
          \/ FlowSection /\ UNCHANGED work
          \/ FlowSection /\ Working'
        BY <1>2, <1>3, <1>4, <1>5, <1>6, <1>7 DEF Environment
    <2>. QED BY <2>1, <1>1 DEF Allowed

-----------------------------------------------------------------------------
(* All of it together. *)

LEMMA FStep == FInv /\ [NextAttended]_fvars => FInv' /\ [Next]_vars
<1>. SUFFICES ASSUME FInv, [NextAttended]_fvars
              PROVE  FInv' /\ [Next]_vars
    OBVIOUS
<1>1. Working' /\ Allowed /\ UNCHANGED http
    <2>1. CASE UNCHANGED fvars
        BY <2>1 DEF fvars, vars, Allowed, FInv, Working
    <2>2. ASSUME NEW w \in Workers, NEW id \in Ids, Begins(w, id), UNCHANGED http
          PROVE  Working' /\ Allowed /\ UNCHANGED http
        BY <2>2, BeginsAllowed
    <2>3. ASSUME NEW w \in Workers, Continues(w), UNCHANGED http
          PROVE  Working' /\ Allowed /\ UNCHANGED http
        BY <2>3, StartStepAllowed, SharedStepAllowed, RestartFlowStepAllowed, KillStepAllowed
           DEF Continues
    <2>4. CASE Environment /\ UNCHANGED http
        BY <2>4, EnvironmentAllowed
    <2>5. ASSUME NEW w \in Workers, UNCHANGED http,
                 RecoverReplay(w) \/ \E id \in Ids : RecoverRead(w, id)
          PROVE  Working' /\ Allowed /\ UNCHANGED http
        <3>1. CASE \E id \in Ids : RecoverRead(w, id)
            BY <2>5, <3>1, RecoveryAllowed
        <3>2. CASE RecoverReplay(w) /\ Ids # {}
            BY <2>5, <3>2, RecoveryAllowed
        <3>3. CASE RecoverReplay(w) /\ Ids = {}
            BY <3>3, AtFlow DEF RecoverReplay, FInv
        <3>. QED BY <2>5, <3>1, <3>2, <3>3
    <2>. QED BY <2>1, <2>2, <2>3, <2>4, <2>5 DEF NextAttended, NextUnattended, Proceeds
<1>2. [Next]_vars
    BY <1>1, SectionIsNext DEF Allowed
<1>3. IInv'
    BY <1>2, NextKept DEF FInv
<1>4. AllSeated'
    <2>1. CASE FlowSection
        BY <2>1, SectionSeats DEF FInv
    <2>2. CASE UNCHANGED vars
        BY <2>2 DEF vars, AllSeated, Seated, FInv
    <2>. QED BY <1>1, <2>1, <2>2 DEF Allowed
<1>. QED BY <1>1, <1>2, <1>3, <1>4 DEF FInv

LEMMA FInit == FlowsInit => FInv /\ Init
<1>. SUFFICES ASSUME FlowsInit PROVE FInv
    BY DEF FlowsInit
<1>1. IInv
    BY InitEstablishes DEF FlowsInit
<1>2. AllSeated
    <2>1. /\ \A id \in Ids : sessions[id] = NoRow /\ leases[id] = NoLease
          /\ highWater \in Nat
        BY DEF FlowsInit, Init
    <2>2. ASSUME NEW id \in Ids PROVE Seated(sessions[id], leases[id], highWater)
        <3>1. Seated(NoRow, NoLease, highWater)
            BY <2>1, NoneSeated
        <3>. QED BY <2>1, <3>1
    <2>. QED BY <2>2 DEF AllSeated
<1>3. Working
    BY IdleSensible DEF FlowsInit, Working
<1>. QED BY <1>1, <1>2, <1>3 DEF FlowsInit, FInv

(* Every daemon that runs the flows, with recovery by hand and however     *)
(* stale what a flow goes on with is, uses the registry as module          *)
(* Lifecycle describes it: each step is a critical section of AppState's   *)
(* lifecycle wrappers, with an owner that was handed out, or no access.    *)
THEOREM FlowsImplementRegistry == FlowsInit /\ [][NextAttended]_fvars => Spec
BY FInit, FStep, PTL DEF Spec

(* In particular the behaviours that the run of the flows explores (each   *)
(* flow releases the lease it took) refine the registry.                   *)
THEOREM FlowsRefine == ExactSpec => RegistryRefined
<1>1. [NextAttended /\ Exact]_fvars => [NextAttended]_fvars
    OBVIOUS
<1>. QED BY <1>1, FlowsImplementRegistry, PTL DEF ExactSpec, RegistryRefined

(* So does a daemon that nobody attends to, fairly scheduled or not.       *)
THEOREM UnattendedRefines == UnattendedSpec => RegistryRefined
<1>1. [NextUnattended]_fvars => [NextAttended]_fvars
    BY DEF NextAttended
<1>. QED BY <1>1, FlowsImplementRegistry, PTL DEF UnattendedSpec, RegistryRefined

(* Whatever starts, restarts, stops, recoveries and restarts of the daemon *)
(* overlap, and however stale the owner a flow still holds is, one owner   *)
(* has the authority over an ID, no owner is in use twice and no pane      *)
(* belongs to two sessions.                                                *)
THEOREM FlowsKeepAuthority ==
    FlowsInit /\ [][NextAttended]_fvars =>
        [](TypeOK /\ LifecycleAuthority /\ TokensDistinct /\ PaneExclusive /\ DormantNotLive)
BY FlowsImplementRegistry, Invariance, IInvImplies, PTL

(* A flow that stops a session keeps its row and pane to itself, a lease   *)
(* is not taken from the flow that holds it, and no owner is handed out    *)
(* twice, in every daemon that runs the flows.                             *)
THEOREM FlowsKeepLeases ==
    FlowsInit /\ [][NextAttended]_fvars => StoppingFrozen /\ LeaseNeverStolen /\ NoTokenReuse
BY FlowsImplementRegistry, StopsFreeze, LeasesNotStolen, TokensNeverReused, PTL

-----------------------------------------------------------------------------
(* Stops.  A row that is to be removed has a pane that is gone, and a pane *)
(* that is gone stays gone, whatever the other flows do to it.             *)

Buried(f, pr) ==
    f.flow = "kill" => f.pane \in Panes /\ (f.at = "removeRow" => pr[f.pane] = Gone)

DInv == FInv /\ proc \in [Panes -> Int] /\ \A w \in Workers : Buried(work[w], proc)

Spares == /\ proc' \in [Panes -> Int]
          /\ \A p \in Panes : proc[p] = Gone => proc'[p] = Gone

Follows(w) == /\ Buried(work'[w], proc')
              /\ \A v \in Workers \ {w} : work'[v] = work[v]

(* The bodies of StopMeansDead, and of what all sections but the removal   *)
(* of a stopped session keep to.                                           *)
RowEnds(id) == /\ leases[id].phase = "Stopping" /\ leases'[id] = leases[id]
               /\ Live(id) /\ sessions'[id].inc = 0

StopsDead == \A id \in Ids : RowEnds(id) => proc[sessions[id].pane] # sessions[id].inc

RowsStay  == \A id \in Ids : ~RowEnds(id)

LEMMA SetProcSpares ==
    ASSUME DInv, NEW p \in Panes \cup {None}, NEW v \in Int, SetProc(p, v), Running(p) \/ v = Gone
    PROVE  Spares
<1>1. \A q \in Panes : proc'[q] = IF q = p THEN v ELSE proc[q]
    BY DEF DInv, SetProc
<1>2. proc' \in [Panes -> Int]
    BY DEF DInv, SetProc
<1>3. ASSUME NEW q \in Panes, proc[q] = Gone PROVE proc'[q] = Gone
    BY <1>1, <1>3 DEF Running, Gone
<1>. QED BY <1>2, <1>3 DEF Spares

LEMMA SameProcSpares == ASSUME DInv, UNCHANGED proc PROVE Spares
BY DEF DInv, Spares

LEMMA NewPaneSpares == ASSUME DInv, NEW w, NEW inc \in Int, NEW at, NewPane(w, inc, at) PROVE Spares
<1>1. PICK p \in Panes : proc[p] = Unborn /\ SetProc(p, inc)
    BY DEF NewPane
<1>. QED BY <1>1 DEF DInv, SetProc, Spares, Unborn, Gone

LEMMA GotoFollows ==
    ASSUME DInv, NEW w \in Workers, NEW at, at # "removeRow", Goto(w, at)
    PROVE  Follows(w)
<1>. DEFINE f == [work[w] EXCEPT !.at = at]
<1>0. f.flow = work[w].flow /\ f.pane = work[w].pane /\ f.at = at
    BY DEF DInv, FInv, Working, Flow
<1>1. /\ work'[w] = f
      /\ \A v \in Workers \ {w} : work'[v] = work[v]
    BY DEF Goto, DInv, FInv, Working
<1>. HIDE DEF f
<1>. QED BY <1>0, <1>1 DEF Follows, Buried, DInv

LEMMA EndFollows == ASSUME DInv, NEW w \in Workers, End(w) PROVE Follows(w)
BY DEF End, DInv, FInv, Working, Follows, Buried, Idle

LEMMA SetFollows ==
    ASSUME DInv, NEW w \in Workers, NEW f, work' = [work EXCEPT ![w] = f],
           f.flow = "kill" => f.pane \in Panes /\ f.at # "removeRow"
    PROVE  Follows(w)
BY DEF DInv, FInv, Working, Follows, Buried

LEMMA NewPaneFollows ==
    ASSUME DInv, NEW w \in Workers, NEW inc, NEW at \in Stages, at # "removeRow", NewPane(w, inc, at)
    PROVE  Follows(w)
<1>1. PICK p \in Panes : work' = [work EXCEPT ![w] = [@ EXCEPT !.at = at, !.pane = p]]
    BY DEF NewPane
<1>. DEFINE f == [work[w] EXCEPT !.at = at, !.pane = p]
<1>0. work[w] \in Flow
    BY DEF DInv, FInv, Working
<1>2. f \in Flow /\ f.pane = p /\ f.at = at
    BY <1>0 DEF Flow
<1>3. work' = [work EXCEPT ![w] = f]
    BY <1>1
<1>. HIDE DEF f
<1>. QED BY <1>2, <1>3, SetFollows

(* The sections and the rows of sessions that are being stopped. *)

LEMMA SameRowsStay == ASSUME IInv, UNCHANGED sessions PROVE RowsStay
BY DEF RowsStay, RowEnds, Live

LEMMA LeaseEndsStay ==
    ASSUME IInv, NEW id \in Ids, leases'[id] = NoLease,
           \A j \in Ids \ {id} : sessions'[j] = sessions[j]
    PROVE  RowsStay
BY DEF RowsStay, RowEnds, Live, NoLease

LEMMA OneRowStays ==
    ASSUME IInv, NEW id \in Ids, NEW row,
           sessions' = [sessions EXCEPT ![id] = row],
           row.inc # 0 \/ leases[id].phase # "Stopping"
    PROVE  RowsStay
BY DEF IInv, RowsStay, RowEnds, Live

LEMMA CommitStays ==
    ASSUME IInv, NEW id \in Ids, NEW tok, NEW dir, NEW cred, CommitReservedStart(id, tok, dir, cred)
    PROVE  RowsStay
<1>1. /\ RegisterWithOwner(id, leases[id].pane,
             [NoRow EXCEPT !.backend = TRUE, !.cred = cred, !.dir = dir], tok)
      /\ leases[id].phase = "Starting"
    BY DEF CommitReservedStart, Holds
<1>2. \A j \in Ids \ {id} : sessions'[j] = sessions[j] \/ ~Leased(j)
    BY <1>1 DEF RegisterWithOwner
<1>3. \A j \in Ids : ~Leased(j) => leases[j].phase # "Stopping"
    BY OfId DEF Good, Leased
<1>. QED BY <1>1, <1>2, <1>3 DEF RowsStay, RowEnds, Live

LEMMA FinalizeStays ==
    ASSUME IInv, NEW id \in Ids, NEW tok, NEW sid, FinalizeReservedStart(id, tok, sid)
    PROVE  RowsStay
BY OneRowStays DEF FinalizeReservedStart, Holds

LEMMA RollbackStays ==
    ASSUME IInv, NEW id \in Ids, NEW tok, NEW pane, RollbackReservedStart(id, tok, pane)
    PROVE  RowsStay
BY OneRowStays DEF RollbackReservedStart, Holds

LEMMA StageStays ==
    ASSUME IInv, NEW id \in Ids, NEW tok, NEW renew, NEW cred, StageRestartLaunch(id, tok, renew, cred)
    PROVE  RowsStay
BY OneRowStays DEF StageRestartLaunch, Holds

LEMMA RestartEndStays ==
    ASSUME IInv, NEW id \in Ids, NEW tok, NEW target, NEW sid, NEW dir,
           \/ CompleteRestartLaunch(id, tok, target, sid, dir)
           \/ RollbackRestartLaunch(id, tok, target)
    PROVE  RowsStay
BY LeaseEndsStay DEF CompleteRestartLaunch, RollbackRestartLaunch, IInv

LEMMA EnvironmentStays ==
    ASSUME IInv, NEW id \in Ids, NEW sid, NEW cred, NEW tok, NEW pane,
           DormantOwned(id, tok, pane) \/ BindBackendIdentity(id, sid, cred)
    PROVE  RowsStay
<1>1. CASE DormantOwned(id, tok, pane)
    <2>1. leases[id].phase # "Stopping"
        BY <1>1, OfId DEF Good, DormantOwned, Leased
    <2>. QED BY <1>1, <2>1, OneRowStays DEF DormantOwned
<1>2. CASE BindBackendIdentity(id, sid, cred)
    BY <1>2, OneRowStays DEF BindBackendIdentity, SetPair, HasStoppingLease
<1>. QED BY <1>1, <1>2

LEMMA RestoreStays == ASSUME IInv, NEW gone, Restore(gone) PROVE RowsStay
<1>1. leases' = [id \in Ids |-> NoLease]
    BY Zenon DEF Restore
<1>. QED BY <1>1 DEF RowsStay, RowEnds, NoLease

-----------------------------------------------------------------------------
(* The steps of the flows and the panes of sessions that are being stopped. *)

Harmless(w) == Spares /\ Follows(w) /\ StopsDead

(* the flow ends or goes on, not to the removal of a row *)
Moves(w) == End(w) \/ \E at \in Stages \ {"removeRow"} : Goto(w, at)

LEMMA MovesFollow == ASSUME DInv, NEW w \in Workers, Moves(w) PROVE Follows(w)
BY GotoFollows, EndFollows DEF Moves

LEMMA StayDead == RowsStay => StopsDead
BY DEF RowsStay, StopsDead

LEMMA CalmStep ==
    ASSUME DInv, NEW w \in Workers, Moves(w), UNCHANGED proc, UNCHANGED sessions \/ RowsStay
    PROVE  Harmless(w)
BY MovesFollow, SameProcSpares, SameRowsStay, StayDead DEF Harmless, DInv, FInv

LEMMA ProcStep ==
    ASSUME DInv, NEW w \in Workers, Moves(w), NEW v \in Int, SetProc(work[w].pane, v),
           Running(work[w].pane) \/ v = Gone, UNCHANGED sessions
    PROVE  Harmless(w)
<1>1. work[w].pane \in Panes \cup {None}
    BY DEF DInv, FInv, Working, Flow
<1>. QED BY <1>1, MovesFollow, SetProcSpares, SameRowsStay, StayDead DEF Harmless, DInv, FInv

LEMMA NewPaneStep ==
    ASSUME DInv, NEW w \in Workers, NEW inc \in Int, NEW at \in Stages, at # "removeRow",
           NewPane(w, inc, at), UNCHANGED sessions
    PROVE  Harmless(w)
BY NewPaneSpares, NewPaneFollows, SameRowsStay, StayDead DEF Harmless, DInv, FInv

LEMMA DropStep ==
    ASSUME DInv, NEW w \in Workers, NEW inc, NEW dropped \in Stages, NEW other \in Stages,
           dropped # "removeRow", other # "removeRow",
           Drop(w, inc, dropped, End(w)) \/ Drop(w, inc, dropped, Goto(w, other))
    PROVE  Harmless(w)
<1>1. UNCHANGED sessions /\ Moves(w)
    BY DEF Drop, Registry, vars, Moves
<1>2. UNCHANGED proc \/ SetProc(work[w].pane, Gone)
    BY DEF Drop
<1>3. Gone \in Int
    BY DEF Gone
<1>. QED BY <1>1, <1>2, <1>3, CalmStep, ProcStep

LEMMA StartStepHarmless ==
    ASSUME DInv, NEW w \in Workers, StartStep(w)
    PROVE  Harmless(w)
<1>. DEFINE f == work[w]
<1>0. f \in Flow /\ f.tok \in Int /\ IInv
    BY DEF DInv, FInv, Working, Flow
<1>. USE DEF Outside, outside, Registry, vars
<1>1. CASE StartDir(w)
    <2>1. UNCHANGED proc /\ UNCHANGED sessions
        BY <1>1 DEF StartDir, Attempt, RecordProjectDirClaim
    <2>2. Moves(w)
        BY <1>1 DEF StartDir, Attempt, Moves, Stages
    <2>. QED BY <2>1, <2>2, CalmStep
<1>2. CASE StartCreate(w)
    <2>1. /\ UNCHANGED sessions
          /\ \/ NewPane(w, f.tok, "record")
             \/ UNCHANGED proc /\ Goto(w, "release")
        BY <1>2 DEF StartCreate
    <2>2. CASE NewPane(w, f.tok, "record")
        <3>1. "record" \in Stages /\ "record" # "removeRow"
            BY DEF Stages
        <3>. QED BY <1>0, <2>1, <2>2, <3>1, NewPaneStep
    <2>3. CASE UNCHANGED proc /\ Goto(w, "release")
        BY <2>1, <2>3, CalmStep DEF Moves, Stages
    <2>. QED BY <2>1, <2>2, <2>3
<1>3. CASE StartRecord(w)
    <2>1. UNCHANGED proc /\ UNCHANGED sessions
        BY <1>3 DEF StartRecord, Attempt, RecordInertStartPane
    <2>2. Moves(w)
        BY <1>3 DEF StartRecord, Attempt, Moves, Stages
    <2>. QED BY <2>1, <2>2, CalmStep
<1>4. CASE StartCommit(w)
    <2>1. f.id \in Ids
        BY <1>4, AtFlow DEF StartCommit, DInv, FInv
    <2>2. /\ UNCHANGED proc
          /\ \/ UNCHANGED sessions
             \/ \E dir \in Dirs : CommitReservedStart(f.id, f.tok, dir, IF http THEN 0 ELSE f.tok)
        BY <1>4 DEF StartCommit, Try
    <2>3. Moves(w)
        BY <1>4 DEF StartCommit, Try, Moves, Stages
    <2>. QED BY <1>0, <2>1, <2>2, <2>3, CommitStays, CalmStep
<1>5. CASE StartDiscard(w)
    BY <1>5, DropStep DEF StartDiscard, Stages
<1>6. CASE StartFinalize(w)
    <2>1. f.id \in Ids
        BY <1>6, AtFlow DEF StartFinalize, DInv, FInv
    <2>2. /\ UNCHANGED proc
          /\ UNCHANGED sessions \/ FinalizeReservedStart(f.id, f.tok, f.sid)
        BY <1>6 DEF StartFinalize, Try
    <2>3. Moves(w)
        BY <1>6 DEF StartFinalize, Try, Moves, Stages
    <2>. QED BY <1>0, <2>1, <2>2, <2>3, FinalizeStays, CalmStep
<1>7. CASE StartCleanup(w)
    BY <1>7, DropStep DEF StartCleanup, Stages
<1>8. CASE StartRollback(w)
    <2>1. f.id \in Ids
        BY <1>8, AtFlow DEF StartRollback, DInv, FInv
    <2>2. /\ UNCHANGED proc
          /\ UNCHANGED sessions \/ RollbackReservedStart(f.id, f.tok, f.pane)
        BY <1>8 DEF StartRollback, Try
    <2>3. Moves(w)
        BY <1>8 DEF StartRollback, Try, Moves, Stages
    <2>. QED BY <1>0, <2>1, <2>2, <2>3, RollbackStays, CalmStep
<1>. QED BY <1>1, <1>2, <1>3, <1>4, <1>5, <1>6, <1>7, <1>8 DEF StartStep

LEMMA SharedStepHarmless ==
    ASSUME DInv, NEW w \in Workers, SharedStep(w)
    PROVE  Harmless(w)
<1>. DEFINE f == work[w]
<1>0. /\ f \in Flow /\ f.tok \in Int /\ f.target \in Int
      /\ f.flow \in Kinds /\ f.at \in Stages
    BY DEF DInv, FInv, Working, Flow
<1>. USE DEF Outside, outside, Registry, vars
<1>1. CASE Launch(w)
    <2>1. \E at \in {"make", "finalize", "serve", "complete", "cleanup", "rollback"} : Goto(w, at)
        BY <1>1 DEF Launch
    <2>. QED BY <1>1, <2>1, CalmStep DEF Launch, Moves, Stages
<1>2. CASE Make(w)
    <2>1. UNCHANGED proc /\ UNCHANGED sessions
        BY <1>2 DEF Make
    <2>2. CASE Goto(w, "unmade")
        BY <2>1, <2>2, CalmStep DEF Moves, Stages
    <2>3. ASSUME NEW s \in Sids, NEW at \in {"attach", "claim"},
                 work' = [work EXCEPT ![w] = [@ EXCEPT !.sid = s, !.at = at]]
          PROVE  Follows(w)
        <3>. DEFINE g == [f EXCEPT !.sid = s, !.at = at]
        <3>1. g.at = at /\ g.flow = f.flow /\ g.pane = f.pane
            BY <1>0 DEF Flow
        <3>2. work' = [work EXCEPT ![w] = g]
            BY <2>3
        <3>. HIDE DEF g
        <3>3. g.flow = "kill" => g.pane \in Panes
            BY <3>1 DEF DInv, Buried
        <3>. QED BY <3>1, <3>2, <3>3, SetFollows
    <2>4. \/ Goto(w, "unmade")
          \/ \E s \in Sids : work' = [work EXCEPT ![w] =
                [@ EXCEPT !.sid = s, !.at = IF f.flow = "start" THEN "attach" ELSE "claim"]]
        BY <1>2 DEF Make
    <2>5. (IF f.flow = "start" THEN "attach" ELSE "claim") \in {"attach", "claim"}
        OBVIOUS
    <2>6. Spares /\ StopsDead
        BY <2>1, SameProcSpares, SameRowsStay, StayDead DEF DInv, FInv
    <2>. QED BY <2>2, <2>3, <2>4, <2>5, <2>6 DEF Harmless
<1>3. CASE Claim(w)
    <2>1. UNCHANGED proc /\ UNCHANGED sessions
        BY <1>3 DEF Claim, Try, RecordRestartBackendClaim
    <2>2. Moves(w)
        BY <1>3 DEF Claim, Try, Moves, Stages
    <2>. QED BY <2>1, <2>2, CalmStep
<1>4. CASE Attach(w)
    <2>1. UNCHANGED sessions
        BY <1>4 DEF Attach
    <2>2. \E at \in {"prompt", "undo", "finalize", "complete"} : Goto(w, at)
        BY <1>4 DEF Attach
    <2>3. Moves(w)
        BY <2>2 DEF Moves, Stages
    <2>4. \/ UNCHANGED proc
          \/ SetProc(f.pane, f.target) /\ Running(f.pane)
        BY <1>4 DEF Attach
    <2>. QED BY <1>0, <2>1, <2>3, <2>4, CalmStep, ProcStep
<1>5. CASE Undo(w)
    <2>1. UNCHANGED proc /\ UNCHANGED sessions
        BY <1>5 DEF Undo
    <2>2. Goto(w, "clear") \/ Goto(w, "unmade")
        BY <1>5 DEF Undo
    <2>. QED BY <2>1, <2>2, CalmStep DEF Moves, Stages
<1>6. CASE Clear(w)
    <2>1. UNCHANGED proc /\ UNCHANGED sessions
        BY <1>6 DEF Clear, Try, ClearRestartBackendClaim
    <2>2. Moves(w)
        BY <1>6 DEF Clear, Try, Moves, Stages
    <2>. QED BY <2>1, <2>2, CalmStep
<1>7. CASE Unmade(w)
    <2>1. UNCHANGED proc /\ UNCHANGED sessions
        BY <1>7 DEF Unmade
    <2>. DEFINE at == IF f.flow = "start" THEN "cleanup"
                      ELSE IF CleanupPending(f) THEN "failed"
                      ELSE IF f.mode = "soft" THEN "inspect" ELSE "rollback"
                g  == [f EXCEPT !.sid = None, !.mode = "create", !.at = at]
    <2>2. work' = [work EXCEPT ![w] = g]
        BY <1>7 DEF Unmade
    <2>3. at # "removeRow"
        OBVIOUS
    <2>. HIDE DEF at
    <2>4. g.at = at /\ g.flow = f.flow /\ g.pane = f.pane
        BY <1>0 DEF Flow
    <2>. HIDE DEF g
    <2>5. g.flow = "kill" => g.pane \in Panes
        BY <2>4 DEF DInv, Buried
    <2>6. Follows(w)
        BY <2>2, <2>3, <2>4, <2>5, SetFollows
    <2>. QED BY <2>1, <2>6, SameProcSpares, SameRowsStay, StayDead DEF Harmless, DInv, FInv
<1>8. CASE Release(w)
    <2>1. UNCHANGED proc /\ UNCHANGED sessions
        BY <1>8 DEF Release, Attempt, AbortLifecycle
    <2>2. End(w)
        BY <1>8 DEF Release, Attempt
    <2>. QED BY <2>1, <2>2, CalmStep DEF Moves
<1>. QED BY <1>1, <1>2, <1>3, <1>4, <1>5, <1>6, <1>7, <1>8 DEF SharedStep

LEMMA RestartFlowStepHarmless ==
    ASSUME DInv, NEW w \in Workers, RestartFlowStep(w)
    PROVE  Harmless(w)
<1>. DEFINE f == work[w]
<1>0. /\ f \in Flow /\ f.tok \in Int /\ f.target \in Int /\ IInv
      /\ f.flow \in Kinds /\ f.at \in Stages
    BY DEF DInv, FInv, Working, Flow
<1>. USE DEF Outside, outside, Registry, vars
<1>1. CASE RestartSnapshot(w)
    <2>1. UNCHANGED proc /\ UNCHANGED sessions /\ f.flow = "restart"
        BY <1>1 DEF RestartSnapshot, At
    <2>2. PICK g : work' = [work EXCEPT ![w] = g] /\ g.flow = "restart"
        <3>. DEFINE row == sessions[f.id]
                    a == [f EXCEPT !.at = "stage", !.pane = row.pane,
                                   !.oldPane = row.pane, !.oldSid = row.sid]
                    b == [f EXCEPT !.at = "release"]
        <3>1. a.flow = "restart" /\ b.flow = "restart"
            BY <1>0, <2>1 DEF Flow
        <3>2. work' = [work EXCEPT ![w] = a] \/ work' = [work EXCEPT ![w] = b]
            BY <1>1 DEF RestartSnapshot
        <3>. HIDE DEF a, b
        <3>. QED BY <3>1, <3>2
    <2>3. Follows(w)
        BY <2>2, SetFollows
    <2>. QED BY <2>1, <2>3, SameProcSpares, SameRowsStay, StayDead DEF Harmless, DInv, FInv
<1>2. CASE RestartStage(w)
    <2>1. f.flow = "restart" /\ f.id \in Ids /\ UNCHANGED proc
        BY <1>2, AtFlow DEF RestartStage, DInv, FInv, Try
    <2>2. PICK fresh \in BOOLEAN, renew \in BOOLEAN :
             Try(StageRestartLaunch(f.id, f.tok, renew, renew /\ ~http),
                 work' = [work EXCEPT ![w] =
                    [@ EXCEPT !.target = NextInc,
                              !.at     = IF http /\ fresh THEN "custody" ELSE "inspect",
                              !.mode   = IF http /\ fresh THEN "soft"
                                         ELSE IF fresh \/ f.oldSid = None THEN "create"
                                         ELSE "resume"]],
                 Goto(w, "release"))
        <3>1. PICK fresh \in BOOLEAN :
             \E renew \in IF fresh THEN {TRUE}
                           ELSE IF f.oldSid # None THEN {FALSE} ELSE {TRUE, http} :
                Try(StageRestartLaunch(f.id, f.tok, renew, renew /\ ~http),
                     work' = [work EXCEPT ![w] =
                        [@ EXCEPT !.target = NextInc,
                                  !.at     = IF http /\ fresh THEN "custody" ELSE "inspect",
                                  !.mode   = IF http /\ fresh THEN "soft"
                                             ELSE IF fresh \/ f.oldSid = None THEN "create"
                                             ELSE "resume"]],
                     Goto(w, "release"))
            BY <1>2 DEF RestartStage
        <3>2. http \in BOOLEAN
            BY DEF DInv, FInv
        <3>. QED BY <3>1, <3>2
    <2>. DEFINE at   == IF http /\ fresh THEN "custody" ELSE "inspect"
                mode == IF http /\ fresh THEN "soft"
                        ELSE IF fresh \/ f.oldSid = None THEN "create" ELSE "resume"
                g    == [f EXCEPT !.target = NextInc, !.at = at, !.mode = mode]
    <2>3. \/ /\ StageRestartLaunch(f.id, f.tok, renew, renew /\ ~http)
             /\ work' = [work EXCEPT ![w] = g]
          \/ UNCHANGED sessions /\ Goto(w, "release")
        BY <2>2 DEF Try
    <2>. HIDE DEF at, mode
    <2>4. g.flow = "restart"
        BY <1>0, <2>1 DEF Flow
    <2>. HIDE DEF g
    <2>5. CASE UNCHANGED sessions /\ Goto(w, "release")
        BY <2>1, <2>5, CalmStep DEF Moves, Stages
    <2>6. CASE /\ StageRestartLaunch(f.id, f.tok, renew, renew /\ ~http)
               /\ work' = [work EXCEPT ![w] = g]
        <3>1. Follows(w)
            BY <2>4, <2>6, SetFollows
        <3>2. RowsStay
            BY <1>0, <2>1, <2>6, StageStays
        <3>. QED BY <2>1, <3>1, <3>2, SameProcSpares, StayDead DEF Harmless
    <2>. QED BY <2>3, <2>5, <2>6
<1>3. CASE Inspect(w)
    <2>1. UNCHANGED proc /\ UNCHANGED sessions
        BY <1>3 DEF Inspect, Try
    <2>2. Moves(w)
        BY <1>3 DEF Inspect, Try, Moves, Stages
    <2>. QED BY <2>1, <2>2, CalmStep
<1>4. CASE Custody(w)
    <2>1. UNCHANGED proc /\ UNCHANGED sessions
        BY <1>4 DEF Custody, Attempt, RecordInertStartPane
    <2>2. Moves(w)
        BY <1>4 DEF Custody, Attempt, Moves, Stages
    <2>. QED BY <2>1, <2>2, CalmStep
<1>5. CASE Respawn(w)
    <2>1. UNCHANGED sessions
        BY <1>5 DEF Respawn
    <2>2. \E at \in {"serve", "complete", "fallback", "rollback"} : Goto(w, at)
        BY <1>5 DEF Respawn
    <2>3. \/ UNCHANGED proc
          \/ SetProc(f.pane, f.target) /\ Running(f.pane)
          \/ SetProc(f.pane, Gone)
        BY <1>5 DEF Respawn
    <2>4. Moves(w) /\ Gone \in Int
        BY <2>2 DEF Moves, Stages, Gone
    <2>. QED BY <1>0, <2>1, <2>3, <2>4, CalmStep, ProcStep
<1>6. CASE Fallback(w)
    <2>1. /\ UNCHANGED sessions
          /\ \/ NewPane(w, f.target, "custodyNew")
             \/ UNCHANGED proc /\ Goto(w, "rollback")
        BY <1>6 DEF Fallback
    <2>2. CASE NewPane(w, f.target, "custodyNew")
        <3>1. "custodyNew" \in Stages /\ "custodyNew" # "removeRow"
            BY DEF Stages
        <3>. QED BY <1>0, <2>1, <2>2, <3>1, NewPaneStep
    <2>3. CASE UNCHANGED proc /\ Goto(w, "rollback")
        BY <2>1, <2>3, CalmStep DEF Moves, Stages
    <2>. QED BY <2>1, <2>2, <2>3
<1>7. CASE CustodyNew(w)
    <2>1. UNCHANGED proc /\ UNCHANGED sessions
        BY <1>7 DEF CustodyNew, Attempt, RecordInertStartPane
    <2>2. Moves(w)
        BY <1>7 DEF CustodyNew, Attempt, Moves, Stages
    <2>. QED BY <2>1, <2>2, CalmStep
<1>8. CASE DropNew(w)
    BY <1>8, DropStep DEF DropNew, Stages
<1>9. CASE Serve(w)
    <2>1. UNCHANGED proc /\ UNCHANGED sessions
        BY <1>9 DEF Serve, Try
    <2>2. Moves(w)
        BY <1>9 DEF Serve, Try, Moves, Stages
    <2>. QED BY <2>1, <2>2, CalmStep
<1>10. CASE Prompt(w)
    <2>1. UNCHANGED sessions
        BY <1>10 DEF Prompt
    <2>2. Goto(w, "complete") \/ Goto(w, "undo")
        BY <1>10 DEF Prompt
    <2>3. \/ UNCHANGED proc
          \/ SetProc(f.pane, f.tok) /\ Running(f.pane)
        BY <1>10 DEF Prompt
    <2>4. Moves(w)
        BY <2>2 DEF Moves, Stages
    <2>. QED BY <1>0, <2>1, <2>3, <2>4, CalmStep, ProcStep
<1>11. CASE RestartComplete(w)
    <2>1. f.id \in Ids
        BY <1>11, AtFlow DEF RestartComplete, DInv, FInv
    <2>2. /\ UNCHANGED proc
          /\ \/ UNCHANGED sessions
             \/ \E sid \in CompletionSids(f.id) :
                   CompleteRestartLaunch(f.id, f.tok, f.target, sid, sessions[f.id].dir)
        BY <1>11 DEF RestartComplete, Attempt
    <2>3. \E at \in {"release", "undo"} : Goto(w, at)
        BY <1>11 DEF RestartComplete, Attempt
    <2>4. Moves(w)
        BY <2>3 DEF Moves, Stages
    <2>5. UNCHANGED sessions \/ RowsStay
        BY <1>0, <2>1, <2>2, RestartEndStays
    <2>. QED BY <2>2, <2>4, <2>5, CalmStep
<1>12. CASE Rollback(w)
    <2>1. f.id \in Ids
        BY <1>12, AtStage DEF Rollback, DInv, FInv
    <2>2. /\ UNCHANGED proc
          /\ UNCHANGED sessions \/ RollbackRestartLaunch(f.id, f.tok, f.target)
        BY <1>12 DEF Rollback, Try
    <2>3. \E at \in {"release", "killProvisional", "failed"} : Goto(w, at)
        BY <1>12 DEF Rollback, Try
    <2>4. Moves(w)
        BY <2>3 DEF Moves, Stages
    <2>5. UNCHANGED sessions \/ RowsStay
        BY <1>0, <2>1, <2>2, RestartEndStays
    <2>. QED BY <2>2, <2>4, <2>5, CalmStep
<1>13. CASE KillProvisional(w)
    BY <1>13, DropStep DEF KillProvisional, Stages
<1>14. CASE RestartFailed(w)
    <2>1. UNCHANGED proc /\ UNCHANGED sessions
        BY <1>14 DEF RestartFailed, Try
    <2>2. Moves(w)
        BY <1>14 DEF RestartFailed, Try, Moves, Stages
    <2>. QED BY <2>1, <2>2, CalmStep
<1>. QED BY <1>1, <1>2, <1>3, <1>4, <1>5, <1>6, <1>7, <1>8, <1>9, <1>10, <1>11, <1>12,
            <1>13, <1>14 DEF RestartFlowStep

LEMMA KillStepHarmless ==
    ASSUME DInv, NEW w \in Workers, KillStep(w)
    PROVE  Harmless(w)
<1>. DEFINE f == work[w]
<1>0. f \in Flow /\ IInv
    BY DEF DInv, FInv, Working
<1>. USE DEF Outside, outside, Registry, vars
<1>1. CASE KillRecheck(w)
    <2>1. UNCHANGED proc /\ UNCHANGED sessions
        BY <1>1 DEF KillRecheck
    <2>2. PICK at \in {"abort", "exit", "release"} :
             \/ Goto(w, at)
             \/ work' = [work EXCEPT ![w] = [@ EXCEPT !.at = at, !.sid = sessions[f.id].sid]]
        BY <1>1 DEF KillRecheck, Goto
    <2>. DEFINE g == [f EXCEPT !.at = at, !.sid = sessions[f.id].sid]
    <2>3. g.at = at /\ g.flow = f.flow /\ g.pane = f.pane
        BY <1>0 DEF Flow
    <2>4. Goto(w, at) \/ work' = [work EXCEPT ![w] = g]
        BY <2>2
    <2>. HIDE DEF g
    <2>5. g.flow = "kill" => g.pane \in Panes
        BY <2>3 DEF DInv, Buried
    <2>6. Follows(w)
        BY <2>3, <2>4, <2>5, SetFollows, GotoFollows
    <2>. QED BY <2>1, <2>6, SameProcSpares, SameRowsStay, StayDead DEF Harmless, DInv, FInv
<1>2. CASE KillAbort(w)
    <2>1. UNCHANGED proc /\ UNCHANGED sessions
        BY <1>2 DEF KillAbort, Try
    <2>2. Moves(w)
        BY <1>2 DEF KillAbort, Try, Moves, Stages
    <2>. QED BY <2>1, <2>2, CalmStep
<1>3. CASE KillGate(w)
    <2>1. UNCHANGED proc /\ UNCHANGED sessions
        BY <1>3 DEF KillGate, Try
    <2>2. Moves(w)
        BY <1>3 DEF KillGate, Try, Moves, Stages
    <2>. QED BY <2>1, <2>2, CalmStep
<1>4. CASE KillPane(w)
    <2>1. f.flow = "kill" /\ f.pane \in Panes /\ UNCHANGED sessions
        BY <1>4 DEF KillPane, At, DInv, Buried
    <2>2. \/ UNCHANGED proc /\ (Goto(w, "release") \/ End(w))
          \/ UNCHANGED proc /\ proc[f.pane] = Gone /\ Goto(w, "removeRow")
          \/ SetProc(f.pane, Gone) /\ Goto(w, "removeRow")
        <3>1. CASE ~OwnsStopping(f.id, f.tok, f.pane)
            BY <1>4, <3>1 DEF KillPane
        <3>2. CASE OwnsStopping(f.id, f.tok, f.pane)
            BY <1>4, <3>2 DEF KillPane
        <3>. QED BY <3>1, <3>2
    <2>3. CASE UNCHANGED proc /\ (Goto(w, "release") \/ End(w))
        BY <2>1, <2>3, CalmStep DEF Moves, Stages
    <2>4. CASE /\ Goto(w, "removeRow")
               /\ \/ SetProc(f.pane, Gone)
                  \/ UNCHANGED proc /\ proc[f.pane] = Gone
        <3>1. proc'[f.pane] = Gone
            BY <2>1, <2>4 DEF SetProc, DInv
        <3>2. Gone \in Int
            BY DEF Gone
        <3>3. Spares
            BY <2>1, <2>4, <3>2, SetProcSpares, SameProcSpares
        <3>. DEFINE g == [f EXCEPT !.at = "removeRow"]
        <3>4. g.pane = f.pane
            BY <1>0 DEF Flow
        <3>5. work'[w] = g /\ \A v \in Workers \ {w} : work'[v] = work[v]
            BY <2>4 DEF Goto, DInv, FInv, Working
        <3>. HIDE DEF g
        <3>6. Follows(w)
            BY <2>1, <3>1, <3>4, <3>5 DEF Follows, Buried
        <3>. QED BY <1>0, <2>1, <3>3, <3>6, SameRowsStay, StayDead DEF Harmless
    <2>. QED BY <2>2, <2>3, <2>4
<1>5. CASE KillComplete(w)
    <2>1. /\ f.flow = "kill" /\ f.at = "removeRow" /\ f.id \in Ids
          /\ f.pane \in Panes /\ proc[f.pane] = Gone
        BY <1>5, AtFlow DEF KillComplete, DInv, FInv, At, Buried
    <2>2. UNCHANGED proc /\ Goto(w, "release")
        BY <1>5 DEF KillComplete, Try
    <2>3. CASE UNCHANGED sessions
        BY <2>2, <2>3, CalmStep DEF Moves, Stages
    <2>4. CASE CompleteOwnedStop(f.id, f.tok, f.pane)
        <3>1. /\ sessions[f.id].pane = f.pane
              /\ \A j \in Ids \ {f.id} : sessions'[j] = sessions[j]
            BY <1>0, <2>4 DEF CompleteOwnedStop, IInv
        <3>2. StopsDead
            BY <2>1, <3>1 DEF StopsDead, RowEnds, Live, Gone
        <3>. QED BY <2>2, <3>2, GotoFollows, SameProcSpares DEF Harmless
    <2>. QED BY <1>5, <2>3, <2>4 DEF KillComplete, Try
<1>. QED BY <1>1, <1>2, <1>3, <1>4, <1>5 DEF KillStep

LEMMA BeginsHarmless ==
    ASSUME DInv, NEW w \in Workers, NEW id \in Ids, Begins(w, id)
    PROVE  Harmless(w)
<1>0. sessions[id] \in Row /\ IInv
    BY RowTypes DEF DInv, FInv
<1>1. UNCHANGED sessions /\ UNCHANGED proc
    BY DEF Begins, StartReserve, RestartClaim, KillClaim, ReserveStart, ClaimExistingStart,
           ClaimExistingStop, Outside, outside
<1>2. Follows(w)
    <2>1. CASE StartReserve(w, id)
        <3>. DEFINE g == [Idle EXCEPT !.flow = "start", !.at = "dir", !.id = id, !.tok = NextInc]
        <3>1. g.flow = "start"
            BY IdleSensible DEF Flow
        <3>2. work' = [work EXCEPT ![w] = g]
            BY <2>1 DEF StartReserve, Begin
        <3>. HIDE DEF g
        <3>. QED BY <3>1, <3>2, SetFollows
    <2>2. CASE RestartClaim(w, id)
        <3>. DEFINE g == [Idle EXCEPT !.flow = "restart", !.at = "snapshot", !.id = id,
                                      !.tok = sessions[id].inc]
        <3>1. g.flow = "restart"
            BY IdleSensible DEF Flow
        <3>2. work' = [work EXCEPT ![w] = g]
            BY <2>2 DEF RestartClaim, Begin
        <3>. HIDE DEF g
        <3>. QED BY <3>1, <3>2, SetFollows
    <2>3. CASE KillClaim(w, id)
        <3>. DEFINE g == [Idle EXCEPT !.flow = "kill", !.at = "claimed", !.id = id,
                                      !.tok = sessions[id].inc, !.pane = sessions[id].pane]
        <3>1. sessions[id].pane \in Panes
            BY <1>0, <2>3 DEF KillClaim, Row
        <3>2. g.pane = sessions[id].pane /\ g.at = "claimed"
            BY IdleSensible DEF Flow
        <3>3. work' = [work EXCEPT ![w] = g]
            BY <2>3 DEF KillClaim, Begin
        <3>. HIDE DEF g
        <3>. QED BY <3>1, <3>2, <3>3, SetFollows
    <2>. QED BY <2>1, <2>2, <2>3 DEF Begins
<1>. QED BY <1>0, <1>1, <1>2, SameProcSpares, SameRowsStay, StayDead DEF Harmless

LEMMA RecoveryHarmless ==
    ASSUME DInv, NEW w \in Workers, NEW id \in Ids,
           RecoverReplay(w) \/ RecoverRead(w, id)
    PROVE  Harmless(w)
<1>. USE DEF Outside, outside, Registry, vars
<1>1. CASE RecoverReplay(w)
    <2>1. UNCHANGED proc /\ UNCHANGED sessions
        BY <1>1 DEF RecoverReplay
    <2>2. Moves(w)
        BY <1>1 DEF RecoverReplay, Moves, Stages
    <2>. QED BY <2>1, <2>2, CalmStep
<1>2. CASE RecoverRead(w, id)
    <2>. DEFINE at == IF http /\ leases[id].sid # None THEN "replay" ELSE "release"
                g  == [Idle EXCEPT !.flow = "recover", !.id = id, !.tok = leases[id].inc,
                                   !.sid = leases[id].sid, !.at = at]
    <2>1. work' = [work EXCEPT ![w] = g] /\ UNCHANGED proc /\ UNCHANGED sessions
        BY <1>2 DEF RecoverRead, Begin
    <2>. HIDE DEF at
    <2>2. g.flow = "recover"
        BY IdleSensible DEF Flow
    <2>. HIDE DEF g
    <2>3. Follows(w)
        BY <2>1, <2>2, SetFollows
    <2>. QED BY <2>1, <2>3, SameProcSpares, SameRowsStay, StayDead DEF Harmless, DInv, FInv
<1>. QED BY <1>1, <1>2

LEMMA EnvironmentHarmless ==
    ASSUME DInv, Environment
    PROVE  /\ Spares /\ StopsDead
           /\ \A w \in Workers : work'[w] \in {work[w], Idle}
<1>0. IInv /\ Gone \in Int
    BY DEF DInv, FInv, Gone
<1>. USE DEF Outside, outside, Registry, vars
<1>1. ASSUME NEW p \in Panes, PaneDies(p)
      PROVE  Spares /\ UNCHANGED <<sessions, work>>
    <2>1. SetProc(p, Gone) /\ UNCHANGED <<sessions, work>>
        BY <1>1 DEF PaneDies
    <2>. QED BY <1>0, <2>1, SetProcSpares
<1>2. ASSUME NEW id \in Ids, Reap(id)
      PROVE  Spares /\ RowsStay /\ UNCHANGED work
    <2>1. DormantOwned(id, sessions[id].inc, sessions[id].pane) /\ UNCHANGED work /\ UNCHANGED proc
        BY <1>2 DEF Reap
    <2>. QED BY <1>0, <2>1, EnvironmentStays, SameProcSpares
<1>3. ASSUME NEW id \in Ids, Deliver(id) PROVE Spares /\ UNCHANGED <<sessions, work>>
    BY <1>3, SameProcSpares DEF Deliver
<1>4. ASSUME NEW sid \in Sids, TurnEnds(sid) PROVE Spares /\ UNCHANGED <<sessions, work>>
    BY <1>4, SameProcSpares DEF TurnEnds
<1>5. ASSUME NEW id \in Ids, NEW sid \in Sids, HookBinds(id, sid)
      PROVE  Spares /\ RowsStay /\ UNCHANGED work
    <2>1. /\ BindBackendIdentity(id, sid, sessions[id].cred)
          /\ UNCHANGED work /\ UNCHANGED proc
        BY <1>5 DEF HookBinds
    <2>. QED BY <1>0, <2>1, EnvironmentStays, SameProcSpares
<1>6. ASSUME Reboot PROVE Spares /\ RowsStay /\ work' = [w \in Workers |-> Idle]
    <2>. DEFINE gone == {id \in Ids : /\ KeptPane(id) # None
                                      /\ KeptPane(id) \notin ran \/ proc'[KeptPane(id)] = Gone}
    <2>1. Restore(gone) /\ work' = [w \in Workers |-> Idle] /\ proc' = BootProc
        BY <1>6 DEF Reboot
    <2>. HIDE DEF gone
    <2>2. Spares
        <3>1. \A p \in Panes : proc'[p] \in {Gone, proc[p]}
            BY <2>1 DEF BootProc
        <3>2. proc' = [p \in Panes |-> proc'[p]]
            BY <2>1 DEF BootProc
        <3>. QED BY <1>0, <3>1, <3>2 DEF DInv, Spares
    <2>. QED BY <1>0, <2>1, <2>2, RestoreStays
<1>. QED BY <1>0, <1>1, <1>2, <1>3, <1>4, <1>5, <1>6, SameRowsStay, StayDead DEF Environment

LEMMA DKept ==
    ASSUME DInv, FInv', Spares,
           \/ \E w \in Workers : Follows(w)
           \/ \A w \in Workers : work'[w] \in {work[w], Idle}
    PROVE  DInv'
<1>1. ASSUME NEW v \in Workers, work'[v] = work[v] PROVE Buried(work'[v], proc')
    BY <1>1 DEF DInv, Buried, Spares
<1>2. ASSUME NEW v \in Workers, work'[v] = Idle PROVE Buried(work'[v], proc')
    BY <1>2 DEF Buried, Idle
<1>3. ASSUME NEW w \in Workers, Follows(w), NEW v \in Workers PROVE Buried(work'[v], proc')
    BY <1>1, <1>3 DEF Follows
<1>4. \A v \in Workers : Buried(work'[v], proc')
    BY <1>1, <1>2, <1>3
<1>. QED BY <1>4 DEF DInv, Spares

LEMMA DStep == DInv /\ [NextAttended]_fvars => DInv' /\ [StopsDead]_fvars
<1>. SUFFICES ASSUME DInv, [NextAttended]_fvars
              PROVE  DInv' /\ [StopsDead]_fvars
    OBVIOUS
<1>0. FInv'
    BY FStep DEF DInv
<1>1. CASE UNCHANGED fvars
    <2>1. Spares /\ \A w \in Workers : work'[w] \in {work[w], Idle}
        BY <1>1, SameProcSpares DEF fvars
    <2>. QED BY <1>0, <1>1, <2>1, DKept
<1>2. ASSUME NEW w \in Workers, Harmless(w) PROVE DInv' /\ StopsDead
    BY <1>0, <1>2, DKept DEF Harmless
<1>3. ASSUME NEW w \in Workers, NEW id \in Ids, Begins(w, id) PROVE DInv' /\ StopsDead
    BY <1>2, <1>3, BeginsHarmless
<1>4. ASSUME NEW w \in Workers, Continues(w) PROVE DInv' /\ StopsDead
    BY <1>2, <1>4, StartStepHarmless, SharedStepHarmless, RestartFlowStepHarmless, KillStepHarmless
       DEF Continues
<1>5. CASE Environment
    BY <1>0, <1>5, EnvironmentHarmless, DKept
<1>6. ASSUME NEW w \in Workers, RecoverReplay(w) \/ \E id \in Ids : RecoverRead(w, id)
      PROVE  DInv' /\ StopsDead
    <2>1. RecoverReplay(w) => Ids # {}
        BY AtFlow DEF RecoverReplay, DInv, FInv
    <2>. QED BY <1>2, <1>6, <2>1, RecoveryHarmless
<1>. QED BY <1>1, <1>3, <1>4, <1>5, <1>6 DEF NextAttended, NextUnattended, Proceeds

LEMMA DInit == FlowsInit => DInv
<1>. SUFFICES ASSUME FlowsInit PROVE DInv
    OBVIOUS
<1>1. proc \in [Panes -> Int]
    BY DEF FlowsInit, Unborn
<1>2. \A w \in Workers : work[w].flow = "idle"
    BY DEF FlowsInit, Idle
<1>. QED BY <1>1, <1>2, FInit DEF DInv, Buried

(* kill_session_inner removes the row of a session only when the process   *)
(* in the pane of the row is down, whatever the other flows, the hooks,    *)
(* the reaper and restarts of the daemon did since it looked.              *)
THEOREM StopsAreConfirmed == FlowsInit /\ [][NextAttended]_fvars => StopMeansDead
<1>1. [StopsDead]_fvars <=>
        [\A id \in Ids :
          leases[id].phase = "Stopping" /\ leases'[id] = leases[id]
            /\ Live(id) /\ sessions'[id].inc = 0
              => proc[sessions[id].pane] # sessions[id].inc]_fvars
    BY DEF StopsDead, RowEnds
<1>. QED BY <1>1, DInit, DStep, PTL DEF StopMeansDead
=============================================================================
