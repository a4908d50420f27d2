-------------------------- MODULE LifecycleProofs --------------------------
(***************************************************************************)
(* The safety properties of module Lifecycle, proved for every number of   *)
(* IDs, panes, backend sessions and incarnations.                          *)
(*                                                                         *)
(* The inductive invariant IInv says of every ID that its row, tombstone   *)
(* and lease have their types, hold no incarnation above the high water    *)
(* mark and fit together (Good), and of every two IDs that they share      *)
(* neither an incarnation nor a pane.  It is stronger than the properties  *)
(* in three places: an ID without a row has exactly NoRow, an ID without a *)
(* lease exactly NoLease, and the incumbent of a staged restart has the    *)
(* pane of the staged row, so that a rollback does not bring back a pane   *)
(* that somebody else got meanwhile.                                       *)
(*                                                                         *)
(* Nearly every action changes one ID and perhaps drops rows it displaces. *)
(* Lemma Local says once and for all what such a step has to establish;    *)
(* there is one lemma per action below it.                                 *)
(*                                                                         *)
(* The last part is about backend pairs, which need more of the invariant: *)
(* the sections look for a pair among live rows and parked tombstones, and *)
(* it is in none but those (PairsInv).                                     *)
(***************************************************************************)
EXTENDS Lifecycle, TLAPS

-----------------------------------------------------------------------------
(* The incarnations and the panes that one ID holds.                       *)
Tokens5(row, rip, l) == {row.inc, rip.inc, l.inc, l.target, l.prev.inc} \ {0}
PanesOf(row, l)      == {row.pane, l.pane} \ {None}

(* How the row, the tombstone and the lease of one ID fit together.        *)
Good(row, rip, l) ==
    /\ row.inc = 0 => row = NoRow
    /\ row.inc = 0 \/ rip.inc = 0
    /\ l.inc = 0 => l = NoLease
    /\ l.phase = "None" <=> l.inc = 0
    /\ l.phase = "Starting" =>
          /\ row.inc \in {0, l.inc}
          /\ l.target = 0 /\ l.prev = NoRow
          /\ l.paneOwner \in {0, l.inc} /\ l.sidOwner = 0
    /\ l.phase = "Restarting" =>
          \/ /\ l.target = 0 /\ l.prev = NoRow
             /\ row.inc = l.inc
             /\ l.paneOwner = 0 /\ l.sidOwner = 0
          \/ /\ l.target > l.inc
             /\ row.inc = l.target
             /\ l.prev.inc = l.inc /\ l.prev.pane = row.pane
             /\ l.paneOwner \in {0, l.target} /\ l.sidOwner \in {0, l.target}
    /\ l.phase = "Stopping" =>
          /\ row.inc \in {0, l.inc}
          /\ l.target = 0 /\ l.prev = NoRow
          /\ l.paneOwner = l.inc /\ l.sidOwner \in {0, l.inc}
          /\ l.pane # None

(* Good, with the types and the bound n on every incarnation.              *)
Sound(row, rip, l, n) ==
    /\ row \in Row /\ rip \in Tombstone /\ l \in Lease
    /\ row.inc <= n /\ rip.inc <= n /\ l.inc <= n /\ l.target <= n /\ l.prev.inc <= n
    /\ Good(row, rip, l)

(* No two IDs share an incarnation; no two IDs share a pane.               *)
TokensApart == \A i, j \in Ids : i # j =>
    Tokens5(sessions[i], dormant[i], leases[i]) \cap Tokens5(sessions[j], dormant[j], leases[j]) = {}
PanesApart == \A i, j \in Ids : i # j =>
    PanesOf(sessions[i], leases[i]) \cap PanesOf(sessions[j], leases[j]) = {}

HighWaterOK == highWater \in Nat /\ highWater <= MaxInc

IInv ==
    /\ sessions = [id \in Ids |-> sessions[id]]
    /\ dormant = [id \in Ids |-> dormant[id]]
    /\ leases = [id \in Ids |-> leases[id]]
    /\ HighWaterOK
    /\ \A id \in Ids : Sound(sessions[id], dormant[id], leases[id], highWater)
    /\ TokensApart
    /\ PanesApart

(* What a step may do to the incarnations in use: drop them or draw new    *)
(* ones above the high water mark.                                         *)
TokenStep == /\ highWater' >= highWater
             /\ \A j \in Ids, t \in Nat :
                t \in Tokens5(sessions'[j], dormant'[j], leases'[j]) =>
                 \/ \E i \in Ids : t \in Tokens5(sessions[i], dormant[i], leases[i])
                 \/ highWater < t /\ t <= highWater'

(* The bodies of StoppingFrozen and LeaseNeverStolen, for one ID.          *)
StopFrozen(id) ==
    leases[id].phase = "Stopping" /\ leases'[id] = leases[id] =>
        /\ sessions'[id] \in {sessions[id], NoRow}
        /\ \A j \in Ids \ {id} : sessions'[j].pane = leases[id].pane =>
                                   sessions[j].pane = leases[id].pane

LeaseContinues(old, new) ==
    old.inc # 0 /\ new # NoLease =>
        /\ new.inc = old.inc
        /\ new.phase = old.phase
        /\ old.target # 0 => new.target = old.target /\ new.prev = old.prev

(* All that is proved about a step besides the invariant.                  *)
StepOK == /\ TokenStep
          /\ \A id \in Ids : StopFrozen(id) /\ LeaseContinues(leases[id], leases'[id])

-----------------------------------------------------------------------------
(* The absent row and the absent lease have their types.                   *)
LEMMA NoRowType == NoRow \in Row /\ NoRow.inc = 0 /\ NoRow.pane = None
  BY DEF NoRow, Row
(* The absent lease.                                                       *)
LEMMA NoLeaseType == /\ NoLease \in Lease
                     /\ NoLease.inc = 0 /\ NoLease.phase = "None"
                     /\ NoLease.target = 0 /\ NoLease.prev = NoRow
                     /\ NoLease.pane = None
                     /\ NoLease.paneOwner = 0 /\ NoLease.sidOwner = 0
  BY NoRowType DEF NoLease, Lease, Phases
(* The types of the fields of a row, a lease and a tombstone.              *)
LEMMA RowFields ==
  ASSUME NEW r \in Row
  PROVE  /\ r.inc \in Nat /\ r.cred \in Nat
         /\ r.pane \in Panes \cup {None} /\ r.sid \in Sids \cup {None}
         /\ r.dir \in Dirs \cup {None}
         /\ r.backend \in BOOLEAN /\ r.canon \in BOOLEAN
  BY DEF Row

(* The fields of a lease.                                                  *)
LEMMA LeaseFields ==
  ASSUME NEW l \in Lease
  PROVE  /\ l.inc \in Nat /\ l.target \in Nat /\ l.prev \in Row
         /\ l.paneOwner \in Nat /\ l.sidOwner \in Nat /\ l.prev.inc \in Nat
  BY RowFields DEF Lease
(* The fields of a tombstone.                                              *)
LEMMA TombstoneFields ==
  ASSUME NEW l \in Tombstone
  PROVE  l.inc \in Nat
  BY DEF Tombstone

(* An ID that nobody leases may lose its row.                              *)
LEMMA GoodNoRow == ASSUME NEW row, NEW rip, NEW l, Good(row, rip, l), l.inc = 0 PROVE Good(NoRow, rip, l)
  BY NoRowType, NoLeaseType DEF Good

(* Raising the high water mark keeps an ID sound.                          *)
LEMMA SoundLater == ASSUME NEW row, NEW rip, NEW l, NEW n \in Nat, NEW k \in Nat, n <= k, Sound(row, rip, l, n)
  PROVE Sound(row, rip, l, k)
  BY RowFields, LeaseFields, TombstoneFields DEF Sound

-----------------------------------------------------------------------------
(* A step that gives id the row, tombstone and lease (row, rip, l) and drops *)
(* the unleased rows D preserves the invariant when the new triple is sound, *)
(* its incarnations are old or fresh, and its panes are old or nobody's.   *)
LEMMA Local ==
  ASSUME IInv, NEW id \in Ids,
         highWater' \in Nat, highWater <= highWater', highWater' <= MaxInc,
         NEW row, NEW rip, NEW l, NEW D \in SUBSET (Ids \ {id}),
         \A j \in D : leases[j].inc = 0,
         Sound(row, rip, l, highWater'),
         \A t \in Tokens5(row, rip, l) : t \in Tokens5(sessions[id], dormant[id], leases[id]) \/ t > highWater,
         \A p \in PanesOf(row, l) : \/ p \in PanesOf(sessions[id], leases[id])
                                    \/ \A j \in Ids \ ({id} \cup D) : p \notin PanesOf(sessions[j], leases[j]),
         leases[id].phase = "Stopping" /\ l = leases[id] => row \in {sessions[id], NoRow},
         LeaseContinues(leases[id], l),
         sessions' = [j \in Ids |-> IF j = id THEN row ELSE IF j \in D THEN NoRow ELSE sessions[j]],
         dormant' = [dormant EXCEPT ![id] = rip],
         leases' = [leases EXCEPT ![id] = l]
  PROVE IInv' /\ StepOK
<1>1. \A j \in Ids \ {id} : Sound(sessions'[j], dormant'[j], leases'[j], highWater')
  <2>. TAKE j \in Ids \ {id}
  <2>1. Sound(sessions[j], dormant[j], leases[j], highWater')
    BY SoundLater DEF IInv, HighWaterOK
  <2>2. CASE j \in D
    BY <2>1, <2>2, GoodNoRow, NoRowType DEF Sound, IInv
  <2>3. CASE j \notin D
    BY <2>1, <2>3 DEF IInv
  <2>. QED BY <2>2, <2>3
<1>2. Sound(sessions'[id], dormant'[id], leases'[id], highWater')
  BY DEF IInv
<1>3. \A j \in Ids \ {id} : /\ Tokens5(sessions'[j], dormant'[j], leases'[j]) \subseteq Tokens5(sessions[j], dormant[j], leases[j])
                            /\ PanesOf(sessions'[j], leases'[j]) \subseteq PanesOf(sessions[j], leases[j])
  BY NoRowType DEF IInv, Tokens5, PanesOf
<1>4. ASSUME NEW j \in Ids, NEW t \in Tokens5(sessions[j], dormant[j], leases[j])
      PROVE  t \in Nat /\ t <= highWater
  <2>1. /\ sessions[j] \in Row /\ dormant[j] \in Tombstone /\ leases[j] \in Lease
        /\ sessions[j].inc <= highWater /\ dormant[j].inc <= highWater
        /\ leases[j].inc <= highWater /\ leases[j].target <= highWater
        /\ leases[j].prev.inc <= highWater
    BY DEF IInv, Sound
  <2>. QED BY <2>1, RowFields, LeaseFields, TombstoneFields DEF Tokens5
<1>5. TokensApart'
  <2>. SUFFICES ASSUME NEW i \in Ids, NEW j \in Ids, i # j,
                       NEW t \in Tokens5(sessions'[i], dormant'[i], leases'[i]),
                       t \in Tokens5(sessions'[j], dormant'[j], leases'[j])
                PROVE  FALSE
    BY DEF TokensApart
  <2>1. /\ sessions'[id] = row /\ dormant'[id] = rip /\ leases'[id] = l
    BY DEF IInv
  <2>2. CASE i # id /\ j # id
    BY <2>2, <1>3 DEF IInv, TokensApart
  <2>3. CASE i = id
    BY <2>3, <2>1, <1>3, <1>4 DEF IInv, TokensApart, HighWaterOK
  <2>4. CASE j = id
    BY <2>4, <2>1, <1>3, <1>4 DEF IInv, TokensApart, HighWaterOK
  <2>. QED BY <2>2, <2>3, <2>4
<1>6. PanesApart'
  <2>. SUFFICES ASSUME NEW i \in Ids, NEW j \in Ids, i # j,
                       NEW p \in PanesOf(sessions'[i], leases'[i]),
                       p \in PanesOf(sessions'[j], leases'[j])
                PROVE  FALSE
    BY DEF PanesApart
  <2>1. /\ sessions'[id] = row /\ dormant'[id] = rip /\ leases'[id] = l
    BY DEF IInv
  <2>2. CASE i # id /\ j # id
    BY <2>2, <1>3 DEF IInv, PanesApart
  <2>3. ASSUME NEW k \in D
        PROVE  PanesOf(sessions'[k], leases'[k]) = {}
    <3>1. sessions'[k] = NoRow /\ leases'[k] = leases[k]
      BY DEF IInv
    <3>2. leases[k] = NoLease
      BY DEF IInv, Sound, Good
    <3>. QED BY <3>1, <3>2, NoRowType, NoLeaseType DEF PanesOf
  <2>4. CASE i = id
    BY <2>4, <2>1, <2>3, <1>3 DEF IInv, PanesApart
  <2>5. CASE j = id
    BY <2>5, <2>1, <2>3, <1>3 DEF IInv, PanesApart
  <2>. QED BY <2>2, <2>4, <2>5
<1>7. TokenStep
  <2>1. highWater' >= highWater
    BY DEF IInv, HighWaterOK
  <2>. SUFFICES ASSUME NEW j \in Ids, NEW t \in Nat,
                       t \in Tokens5(sessions'[j], dormant'[j], leases'[j])
                PROVE  \/ \E i \in Ids : t \in Tokens5(sessions[i], dormant[i], leases[i])
                       \/ highWater < t /\ t <= highWater'
    BY <2>1 DEF TokenStep
  <2>2. CASE j # id
    BY <2>2, <1>3
  <2>3. CASE j = id
    <3>1. t <= highWater'
      BY <1>2, <2>3 DEF Sound, Tokens5
    <3>2. sessions'[id] = row /\ dormant'[id] = rip /\ leases'[id] = l
      BY DEF IInv
    <3>3. \/ t \in Tokens5(sessions[id], dormant[id], leases[id])
          \/ t > highWater
      BY <2>3, <3>2
    <3>. QED BY <3>1, <3>3 DEF IInv, HighWaterOK
  <2>. QED BY <2>2, <2>3
<1>8. \A j \in Ids : LeaseContinues(leases[j], leases'[j])
  BY DEF IInv, LeaseContinues
<1>9. ASSUME NEW j \in Ids
      PROVE  StopFrozen(j)
  <2>. SUFFICES ASSUME leases[j].phase = "Stopping", leases'[j] = leases[j]
                PROVE  /\ sessions'[j] \in {sessions[j], NoRow}
                       /\ \A k \in Ids \ {j} : sessions'[k].pane = leases[j].pane =>
                                                 sessions[k].pane = leases[j].pane
    BY DEF StopFrozen
  <2>1. leases[j].pane # None /\ leases[j].inc # 0
    BY DEF IInv, Sound, Good
  <2>2. sessions'[j] \in {sessions[j], NoRow}
    BY DEF IInv
  <2>3. ASSUME NEW k \in Ids \ {j}, sessions'[k].pane = leases[j].pane
        PROVE  sessions[k].pane = leases[j].pane
    <3>1. CASE k # id
      BY <2>1, <2>3, <3>1, NoRowType
    <3>2. CASE k = id
      <4>1. leases[j].pane \in PanesOf(row, l)
        BY <2>1, <2>3, <3>2 DEF PanesOf
      <4>2. j \notin D /\ leases[j].pane \in PanesOf(sessions[j], leases[j])
        BY <2>1 DEF PanesOf
      <4>3. leases[j].pane \in PanesOf(sessions[id], leases[id])
        BY <4>1, <4>2, <3>2
      <4>. QED BY <4>2, <4>3, <3>2 DEF IInv, PanesApart
    <3>. QED BY <3>1, <3>2
  <2>. QED BY <2>2, <2>3
<1>10. IInv'
  BY <1>1, <1>2, <1>5, <1>6 DEF IInv, HighWaterOK
<1>. QED BY <1>7, <1>8, <1>9, <1>10 DEF StepOK

(* The part of the invariant about one ID.                                 *)
LEMMA OfId ==
  ASSUME IInv, NEW id \in Ids
  PROVE  /\ sessions[id] \in Row /\ dormant[id] \in Tombstone /\ leases[id] \in Lease
         /\ sessions[id].inc <= highWater /\ dormant[id].inc <= highWater
         /\ leases[id].inc <= highWater /\ leases[id].target <= highWater
         /\ leases[id].prev.inc <= highWater
         /\ highWater \in Nat /\ highWater <= MaxInc
         /\ Good(sessions[id], dormant[id], leases[id])
  BY DEF IInv, Sound, HighWaterOK

(* Local without displaced rows.                                           *)
LEMMA Point ==
  ASSUME IInv, NEW id \in Ids,
         highWater' \in Nat, highWater <= highWater', highWater' <= MaxInc,
         NEW row, NEW rip, NEW l,
         Sound(row, rip, l, highWater'),
         \A t \in Tokens5(row, rip, l) :
            t \in Tokens5(sessions[id], dormant[id], leases[id]) \/ t > highWater,
         \A p \in PanesOf(row, l) :
            \/ p \in PanesOf(sessions[id], leases[id])
            \/ \A j \in Ids \ {id} : p \notin PanesOf(sessions[j], leases[j]),
         leases[id].phase = "Stopping" /\ l = leases[id] => row \in {sessions[id], NoRow},
         LeaseContinues(leases[id], l),
         sessions' = [sessions EXCEPT ![id] = row],
         dormant' = [dormant EXCEPT ![id] = rip],
         leases' = [leases EXCEPT ![id] = l]
  PROVE  IInv' /\ StepOK
<1>. DEFINE D == {}
<1>1. sessions' = [j \in Ids |-> IF j = id THEN row ELSE IF j \in D THEN NoRow ELSE sessions[j]]
  BY DEF IInv
<1>2. \A p \in PanesOf(row, l) :
         \/ p \in PanesOf(sessions[id], leases[id])
         \/ \A j \in Ids \ ({id} \cup D) : p \notin PanesOf(sessions[j], leases[j])
  OBVIOUS
<1>3. D \in SUBSET (Ids \ {id}) /\ \A j \in D : leases[j].inc = 0
  OBVIOUS
<1>. HIDE DEF D
<1>. QED BY <1>1, <1>2, <1>3, Local

(* Local for a step that changes one lease and nothing else.               *)
LEMMA LeaseUpdate ==
  ASSUME IInv, NEW id \in Ids, NEW l \in Lease,
         l.inc <= highWater, l.target <= highWater, l.prev.inc <= highWater,
         Good(sessions[id], dormant[id], l),
         {l.inc, l.target, l.prev.inc} \subseteq {0, sessions[id].inc, leases[id].inc, leases[id].target, leases[id].prev.inc},
         \/ l.pane \in {None, sessions[id].pane, leases[id].pane}
         \/ \A j \in Ids \ {id} : l.pane \notin PanesOf(sessions[j], leases[j]),
         LeaseContinues(leases[id], l),
         leases' = [leases EXCEPT ![id] = l],
         UNCHANGED <<sessions, dormant, highWater>>
  PROVE  IInv' /\ StepOK
<1>1. Sound(sessions[id], dormant[id], l, highWater')
  BY OfId DEF Sound
<1>2. \A t \in Tokens5(sessions[id], dormant[id], l) :
         t \in Tokens5(sessions[id], dormant[id], leases[id])
  BY DEF Tokens5
<1>3. \A p \in PanesOf(sessions[id], l) :
         \/ p \in PanesOf(sessions[id], leases[id])
         \/ \A j \in Ids \ {id} : p \notin PanesOf(sessions[j], leases[j])
  BY DEF PanesOf
<1>4. /\ sessions' = [sessions EXCEPT ![id] = sessions[id]]
      /\ dormant' = [dormant EXCEPT ![id] = dormant[id]]
  BY DEF IInv
<1>5. highWater' \in Nat /\ highWater <= highWater' /\ highWater' <= MaxInc
  BY OfId
<1>. QED BY <1>1, <1>2, <1>3, <1>4, <1>5, Point

(* Local for a step that changes one row and nothing else.                 *)
LEMMA RowUpdate ==
  ASSUME IInv, NEW id \in Ids, NEW row \in Row,
         row.inc <= highWater,
         Good(row, dormant[id], leases[id]),
         row.inc \in {0, sessions[id].inc, leases[id].inc},
         row.pane \in {None, sessions[id].pane, leases[id].pane},
         leases[id].phase = "Stopping" => row \in {sessions[id], NoRow},
         sessions' = [sessions EXCEPT ![id] = row],
         UNCHANGED <<dormant, leases, highWater>>
  PROVE  IInv' /\ StepOK
<1>1. Sound(row, dormant[id], leases[id], highWater')
  BY OfId DEF Sound
<1>2. \A t \in Tokens5(row, dormant[id], leases[id]) :
         t \in Tokens5(sessions[id], dormant[id], leases[id])
  BY DEF Tokens5
<1>3. \A p \in PanesOf(row, leases[id]) : p \in PanesOf(sessions[id], leases[id])
  BY DEF PanesOf
<1>4. /\ leases' = [leases EXCEPT ![id] = leases[id]]
      /\ dormant' = [dormant EXCEPT ![id] = dormant[id]]
  BY DEF IInv
<1>5. highWater' \in Nat /\ highWater <= highWater' /\ highWater' <= MaxInc
  BY OfId
<1>6. LeaseContinues(leases[id], leases[id])
  BY DEF LeaseContinues
<1>. QED BY <1>6, <1>1, <1>2, <1>3, <1>4, <1>5, Point

-----------------------------------------------------------------------------
(* Recording a pane keeps custody exclusive: the pane is new or the row's. *)
LEMMA KeptRecordInertStartPane ==
  ASSUME IInv, NEW id \in Ids, NEW tok, NEW pane \in Panes,
         RecordInertStartPane(id, tok, pane)
  PROVE  IInv' /\ StepOK
<1>. DEFINE l == [leases[id] EXCEPT
                    !.pane      = pane,
                    !.paneOwner = IF leases[id].phase = "Starting"
                                  THEN tok ELSE leases[id].target]
<1>1. leases[id] \in Lease
  BY OfId
<1>2. tok \in Nat
  BY <1>1, LeaseFields DEF RecordInertStartPane, MayRecordPane, LeasedBy
<1>3. /\ l \in Lease /\ l.inc = leases[id].inc /\ l.phase = leases[id].phase
      /\ l.target = leases[id].target /\ l.prev = leases[id].prev
      /\ l.sidOwner = leases[id].sidOwner /\ l.pane = pane
      /\ l.paneOwner = IF leases[id].phase = "Starting" THEN tok ELSE leases[id].target
  BY <1>1, <1>2 DEF Lease
<1>4. leases' = [leases EXCEPT ![id] = l] /\ UNCHANGED <<sessions, dormant, highWater>>
  BY DEF RecordInertStartPane, MayRecordPane, LeasedBy
<1>. HIDE DEF l
<1>5. Good(sessions[id], dormant[id], l)
  BY <1>3, OfId DEF Good, RecordInertStartPane, MayRecordPane, LeasedBy, Leased
<1>6. \/ l.pane = sessions[id].pane
      \/ \A j \in Ids \ {id} : l.pane \notin PanesOf(sessions[j], leases[j])
  BY <1>3 DEF RecordInertStartPane, MayRecordPane, LeasedBy, FreshPane, PanesOf
<1>7. LeaseContinues(leases[id], l)
  BY <1>3 DEF LeaseContinues
<1>. QED BY <1>7, <1>3, <1>4, <1>5, <1>6, OfId, LeaseUpdate

(* Claiming a project directory.                                           *)
LEMMA KeptRecordProjectDirClaim ==
  ASSUME IInv, NEW id \in Ids, NEW tok, NEW dir \in Dirs,
         RecordProjectDirClaim(id, tok, dir)
  PROVE  IInv' /\ StepOK
<1>. DEFINE l == [leases[id] EXCEPT !.dir = dir]
<1>1. leases[id] \in Lease
  BY OfId
<1>2. /\ l \in Lease /\ l.inc = leases[id].inc /\ l.phase = leases[id].phase
      /\ l.target = leases[id].target /\ l.prev = leases[id].prev
      /\ l.sidOwner = leases[id].sidOwner /\ l.pane = leases[id].pane
      /\ l.paneOwner = leases[id].paneOwner
  BY <1>1 DEF Lease
<1>3. leases' = [leases EXCEPT ![id] = l] /\ UNCHANGED <<sessions, dormant, highWater>>
  BY DEF RecordProjectDirClaim, MayClaimDir, LeasedBy
<1>. HIDE DEF l
<1>4. Good(sessions[id], dormant[id], l)
  BY <1>2, OfId DEF Good, RecordProjectDirClaim, MayClaimDir, LeasedBy, Leased
<1>5. LeaseContinues(leases[id], l)
  BY <1>2 DEF LeaseContinues
<1>. QED BY <1>5, <1>2, <1>3, <1>4, OfId, LeaseUpdate

(* Releasing a lease of any phase.                                         *)
LEMMA KeptAbortLifecycle ==
  ASSUME IInv, NEW id \in Ids, NEW tok, AbortLifecycle(id, tok)
  PROVE  IInv' /\ StepOK
<1>1. Good(sessions[id], dormant[id], NoLease)
  BY OfId, NoLeaseType DEF Good
<1>2. leases' = [leases EXCEPT ![id] = NoLease] /\ UNCHANGED <<sessions, dormant, highWater>>
  BY DEF AbortLifecycle, LeasedBy
<1>3. /\ NoLease.inc <= highWater /\ NoLease.target <= highWater
      /\ NoLease.prev.inc <= highWater
      /\ {NoLease.inc, NoLease.target, NoLease.prev.inc} = {0}
  BY OfId, NoLeaseType, NoRowType
<1>4. LeaseContinues(leases[id], NoLease)
  BY DEF LeaseContinues
<1>. QED BY <1>4, <1>1, <1>2, <1>3, NoLeaseType, LeaseUpdate

(* The absent tombstone has its type.                                      *)
LEMMA NoTombstoneType == NoTombstone \in Tombstone /\ NoTombstone.inc = 0
  BY DEF NoTombstone, Tombstone

(* Reserving an ID draws a fresh incarnation.                              *)
LEMMA KeptReserveStart ==
  ASSUME IInv, NEW id \in Ids, ReserveStart(id)
  PROVE  IInv' /\ StepOK
<1>. DEFINE l == [NoLease EXCEPT !.inc = NextInc, !.phase = "Starting"]
<1>1. highWater \in Nat /\ highWater < MaxInc /\ highWater' = NextInc /\ NextInc = highWater + 1
      /\ NextInc \in Nat
  BY OfId DEF ReserveStart, CanAllocate, NextInc
<1>2. /\ l \in Lease /\ l.inc = NextInc /\ l.phase = "Starting"
      /\ l.target = 0 /\ l.prev = NoRow /\ l.prev.inc = 0 /\ l.sidOwner = 0
      /\ l.pane = None /\ l.paneOwner = 0
  BY <1>1, NoLeaseType, NoRowType DEF Lease, Phases
<1>3. /\ leases' = [leases EXCEPT ![id] = l]
      /\ sessions' = [sessions EXCEPT ![id] = sessions[id]]
      /\ dormant' = [dormant EXCEPT ![id] = dormant[id]]
  BY DEF ReserveStart, IInv
<1>. HIDE DEF l
<1>4. Sound(sessions[id], dormant[id], l, highWater')
  <2>1. Good(sessions[id], dormant[id], l)
    BY <1>1, <1>2, OfId DEF Good, ReserveStart, Live
  <2>. QED BY <2>1, <1>1, <1>2, OfId, RowFields, LeaseFields, TombstoneFields DEF Sound
<1>5. \A t \in Tokens5(sessions[id], dormant[id], l) :
         t \in Tokens5(sessions[id], dormant[id], leases[id]) \/ t > highWater
  BY <1>1, <1>2 DEF Tokens5
<1>6. \A p \in PanesOf(sessions[id], l) : p \in PanesOf(sessions[id], leases[id])
  BY <1>2 DEF PanesOf
<1>7. highWater' \in Nat /\ highWater <= highWater' /\ highWater' <= MaxInc
  BY <1>1, MaxIncIsNat
<1>8. LeaseContinues(leases[id], l)
  BY DEF LeaseContinues, ReserveStart, Leased
<1>. QED BY <1>8, <1>3, <1>4, <1>5, <1>6, <1>7, Point

(* Claiming a live row for a restart.                                      *)
LEMMA KeptClaimExistingStart ==
  ASSUME IInv, NEW id \in Ids, NEW tok, ClaimExistingStart(id, tok)
  PROVE  IInv' /\ StepOK
<1>. DEFINE l == [NoLease EXCEPT !.inc = tok, !.phase = "Restarting", !.dir = sessions[id].dir]
<1>1. tok \in Nat /\ tok # 0 /\ tok = sessions[id].inc
  BY OfId, RowFields DEF ClaimExistingStart, Live
<1>0. sessions[id].dir \in Dirs \cup {None} /\ sessions[id].sid \in Sids \cup {None}
  BY OfId, RowFields
<1>2. /\ l \in Lease /\ l.inc = tok /\ l.phase = "Restarting"
      /\ l.target = 0 /\ l.prev = NoRow /\ l.prev.inc = 0 /\ l.sidOwner = 0
      /\ l.pane = None /\ l.paneOwner = 0
  BY <1>1, <1>0, NoLeaseType, NoRowType DEF Lease, Phases
<1>3. leases' = [leases EXCEPT ![id] = l] /\ UNCHANGED <<sessions, dormant, highWater>>
  BY DEF ClaimExistingStart
<1>. HIDE DEF l
<1>4. Good(sessions[id], dormant[id], l)
  BY <1>1, <1>2, OfId DEF Good
<1>5. /\ l.inc <= highWater /\ l.target <= highWater /\ l.prev.inc <= highWater
      /\ {l.inc, l.target, l.prev.inc} \subseteq {0, sessions[id].inc}
      /\ l.pane \in {None, sessions[id].pane}
  BY <1>1, <1>2, OfId
<1>6. LeaseContinues(leases[id], l)
  BY DEF LeaseContinues, ClaimExistingStart, Leased
<1>. QED BY <1>6, <1>2, <1>3, <1>4, <1>5, LeaseUpdate

(* Claiming a live row and its pane for a stop.                            *)
LEMMA KeptClaimExistingStop ==
  ASSUME IInv, NEW id \in Ids, NEW tok, NEW pane \in Panes, ClaimExistingStop(id, tok, pane)
  PROVE  IInv' /\ StepOK
<1>. DEFINE l == [NoLease EXCEPT !.inc = tok, !.phase = "Stopping",
                                 !.sid = sessions[id].sid,
                                 !.sidOwner = IF sessions[id].sid = None THEN 0 ELSE tok,
                                 !.pane = pane, !.paneOwner = tok,
                                 !.dir = sessions[id].dir]
<1>1. tok \in Nat /\ tok # 0 /\ tok = sessions[id].inc /\ pane = sessions[id].pane
  BY OfId, RowFields DEF ClaimExistingStop, Live
<1>0. sessions[id].dir \in Dirs \cup {None} /\ sessions[id].sid \in Sids \cup {None}
  BY OfId, RowFields
<1>9. /\ l.inc = tok /\ l.phase = "Stopping"
      /\ l.target = 0 /\ l.prev = NoRow /\ l.sidOwner \in {0, tok}
      /\ l.pane = pane /\ l.paneOwner = tok
  BY DEF NoLease
<1>10. "Stopping" \in Phases
  BY DEF Phases
<1>11. l \in Lease
  <2>. DEFINE own == IF sessions[id].sid = None THEN 0 ELSE tok
  <2>1. own \in Nat
    BY <1>1
  <2>2. NoLease \in Lease
    BY NoLeaseType
  <2>. HIDE DEF own
  <2>3. [NoLease EXCEPT !.inc = tok, !.phase = "Stopping", !.sid = sessions[id].sid,
                        !.sidOwner = own, !.pane = pane, !.paneOwner = tok,
                        !.dir = sessions[id].dir] \in Lease
    BY <1>1, <1>0, <1>10, <2>1, <2>2 DEF Lease
  <2>. QED BY <2>3 DEF own
<1>2. /\ l \in Lease /\ l.inc = tok /\ l.phase = "Stopping"
      /\ l.target = 0 /\ l.prev = NoRow /\ l.prev.inc = 0 /\ l.sidOwner \in {0, tok}
      /\ l.pane = pane /\ l.paneOwner = tok
  BY <1>9, <1>11, NoRowType
<1>3. leases' = [leases EXCEPT ![id] = l] /\ UNCHANGED <<sessions, dormant, highWater>>
  BY DEF ClaimExistingStop
<1>. HIDE DEF l
<1>4. Good(sessions[id], dormant[id], l)
  BY <1>1, <1>2, OfId, NoneIsFresh DEF Good
<1>5. /\ l.inc <= highWater /\ l.target <= highWater /\ l.prev.inc <= highWater
      /\ {l.inc, l.target, l.prev.inc} \subseteq {0, sessions[id].inc}
      /\ l.pane \in {None, sessions[id].pane}
  BY <1>1, <1>2, OfId
<1>6. LeaseContinues(leases[id], l)
  BY DEF LeaseContinues, ClaimExistingStop, Leased
<1>. QED BY <1>6, <1>2, <1>3, <1>4, <1>5, LeaseUpdate

(* Recording or clearing the backend session of a staged restart.          *)
LEMMA KeptRestartClaim ==
  ASSUME IInv, NEW id \in Ids, leases[id].phase = "Restarting",
         NEW sid \in Sids \cup {None}, NEW owner \in {0, leases[id].target},
         leases[id].target # 0,
         leases' = [leases EXCEPT ![id] = [@ EXCEPT !.sid = sid, !.sidOwner = owner]],
         UNCHANGED <<sessions, dormant, highWater>>
  PROVE  IInv' /\ StepOK
<1>. DEFINE l == [leases[id] EXCEPT !.sid = sid, !.sidOwner = owner]
<1>1. leases[id] \in Lease /\ owner \in Nat
  BY OfId, LeaseFields
<1>2. /\ l \in Lease /\ l.inc = leases[id].inc /\ l.phase = leases[id].phase
      /\ l.target = leases[id].target /\ l.prev = leases[id].prev
      /\ l.sidOwner = owner /\ l.pane = leases[id].pane
      /\ l.paneOwner = leases[id].paneOwner
  BY <1>1 DEF Lease
<1>3. leases' = [leases EXCEPT ![id] = l] /\ UNCHANGED <<sessions, dormant, highWater>>
  OBVIOUS
<1>. HIDE DEF l
<1>4. Good(sessions[id], dormant[id], l)
  BY <1>2, OfId DEF Good
<1>5. /\ l.inc <= highWater /\ l.target <= highWater /\ l.prev.inc <= highWater
      /\ {l.inc, l.target, l.prev.inc} \subseteq
            {0, sessions[id].inc, leases[id].inc, leases[id].target, leases[id].prev.inc}
      /\ l.pane \in {None, sessions[id].pane, leases[id].pane}
  BY <1>2, OfId
<1>6. l \in Lease
  BY <1>2
<1>7. LeaseContinues(leases[id], l)
  BY <1>2 DEF LeaseContinues
<1>. QED BY <1>7, <1>3, <1>4, <1>5, <1>6, LeaseUpdate

(* The backend session a restart created belongs to its staged target.     *)
LEMMA KeptRecordRestartBackendClaim ==
  ASSUME IInv, NEW id \in Ids, NEW tok, NEW target, NEW sid \in Sids,
         RecordRestartBackendClaim(id, tok, target, sid)
  PROVE  IInv' /\ StepOK
<1>1. leases[id].phase = "Restarting" /\ leases[id].target = target
  BY DEF RecordRestartBackendClaim, StagedFor, Holds
<1>2. target # 0
  BY <1>1, OfId, LeaseFields, NoRowType DEF RecordRestartBackendClaim, StagedFor, Good
<1>. QED BY <1>1, <1>2, KeptRestartClaim DEF RecordRestartBackendClaim

(* The backend session of a failed restart is gone.                        *)
LEMMA KeptClearRestartBackendClaim ==
  ASSUME IInv, NEW id \in Ids, NEW tok, NEW target \in Tokens, NEW sid \in Sids,
         ClearRestartBackendClaim(id, tok, target, sid)
  PROVE  IInv' /\ StepOK
<1>1. leases[id].phase = "Restarting" /\ leases[id].target = target
  BY DEF ClearRestartBackendClaim, Holds
<1>2. target # 0
  BY OfId DEF Tokens
<1>. QED BY <1>1, <1>2, KeptRestartClaim DEF ClearRestartBackendClaim

-----------------------------------------------------------------------------
(* A step that changes a row but neither its owner nor its pane.           *)
LEMMA RowTouched ==
  ASSUME IInv, NEW id \in Ids, NEW row \in Row,
         sessions[id].inc # 0,
         row.inc = sessions[id].inc, row.pane = sessions[id].pane,
         leases[id].phase # "Stopping",
         sessions' = [sessions EXCEPT ![id] = row],
         UNCHANGED <<dormant, leases, highWater>>
  PROVE  IInv' /\ StepOK
<1>1. Good(row, dormant[id], leases[id])
  BY OfId DEF Good
<1>. QED BY <1>1, OfId, RowUpdate

(* Finalizing a start keeps owner and pane.                                *)
LEMMA KeptFinalizeReservedStart ==
  ASSUME IInv, NEW id \in Ids, NEW tok, NEW sid \in Sids \cup {None},
         FinalizeReservedStart(id, tok, sid)
  PROVE  IInv' /\ StepOK
<1>. DEFINE row == Refreshed(sessions[id], sessions[id].pane, sid, sessions[id].dir, FALSE)
<1>1. sessions[id] \in Row
  BY OfId
<1>2. row \in Row /\ row.inc = sessions[id].inc /\ row.pane = sessions[id].pane
  BY <1>1 DEF Row, Refreshed
<1>3. sessions' = [sessions EXCEPT ![id] = row] /\ UNCHANGED <<dormant, leases, highWater>>
  BY DEF FinalizeReservedStart
<1>. HIDE DEF row
<1>4. sessions[id].inc # 0 /\ leases[id].phase # "Stopping"
  BY DEF FinalizeReservedStart, Holds, Leased
<1>. QED BY <1>2, <1>3, <1>4, RowTouched

(* New metadata keep owner and pane.                                       *)
LEMMA KeptUpdateMetadata ==
  ASSUME IInv, NEW id \in Ids, NEW dir \in Dirs, UpdateMetadata(id, dir)
  PROVE  IInv' /\ StepOK
<1>. DEFINE row == [sessions[id] EXCEPT !.dir = dir]
<1>1. sessions[id] \in Row
  BY OfId
<1>2. row \in Row /\ row.inc = sessions[id].inc /\ row.pane = sessions[id].pane
  BY <1>1 DEF Row
<1>3. sessions' = [sessions EXCEPT ![id] = row] /\ UNCHANGED <<dormant, leases, highWater>>
  BY DEF UpdateMetadata
<1>. HIDE DEF row
<1>4. sessions[id].inc # 0 /\ leases[id].phase # "Stopping"
  BY DEF UpdateMetadata, Live, HasStoppingLease
<1>. QED BY <1>2, <1>3, <1>4, RowTouched

(* Binding a backend session keeps owner and pane.                         *)
LEMMA KeptSetPair ==
  ASSUME IInv, NEW id \in Ids, NEW sid \in Sids, SetPair(id, sid), Live(id), leases[id].phase # "Stopping"
  PROVE  IInv' /\ StepOK
<1>. DEFINE row == [sessions[id] EXCEPT !.backend = TRUE, !.sid = sid, !.cred = 0]
<1>1. sessions[id] \in Row
  BY OfId
<1>2. row \in Row /\ row.inc = sessions[id].inc /\ row.pane = sessions[id].pane
  BY <1>1 DEF Row
<1>3. sessions' = [sessions EXCEPT ![id] = row] /\ UNCHANGED <<dormant, leases, highWater>>
  BY DEF SetPair
<1>. HIDE DEF row
<1>4. sessions[id].inc # 0
  BY DEF Live
<1>. QED BY <1>2, <1>3, <1>4, RowTouched

(* A row may go unless a restart stands on it.                             *)
LEMMA RowGone ==
  ASSUME IInv, NEW id \in Ids, leases[id].phase # "Restarting",
         sessions' = [sessions EXCEPT ![id] = NoRow],
         UNCHANGED <<dormant, leases, highWater>>
  PROVE  IInv' /\ StepOK
<1>1. Good(NoRow, dormant[id], leases[id])
  BY OfId, NoRowType DEF Good
<1>2. NoRow.inc <= highWater
  BY OfId, NoRowType
<1>. QED BY <1>1, <1>2, NoRowType, RowUpdate

(* A completed stop removes the row of its own owner.                      *)
LEMMA KeptCompleteOwnedStop ==
  ASSUME IInv, NEW id \in Ids, NEW tok, NEW pane, CompleteOwnedStop(id, tok, pane)
  PROVE  IInv' /\ StepOK
  BY RowGone DEF CompleteOwnedStop, Holds

-----------------------------------------------------------------------------
(* Local for a step that changes the row and the lease of one ID.          *)
LEMMA TwoUpdate ==
  ASSUME IInv, NEW id \in Ids, NEW row \in Row, NEW l \in Lease,
         row.inc <= highWater, l.inc <= highWater, l.target <= highWater, l.prev.inc <= highWater,
         Good(row, dormant[id], l),
         {row.inc, l.inc, l.target, l.prev.inc} \subseteq
            {0, sessions[id].inc, leases[id].inc, leases[id].target, leases[id].prev.inc},
         {row.pane, l.pane} \subseteq {None, sessions[id].pane, leases[id].pane},
         leases[id].phase = "Stopping" /\ l = leases[id] => row \in {sessions[id], NoRow},
         LeaseContinues(leases[id], l),
         sessions' = [sessions EXCEPT ![id] = row],
         leases' = [leases EXCEPT ![id] = l],
         UNCHANGED <<dormant, highWater>>
  PROVE  IInv' /\ StepOK
<1>1. Sound(row, dormant[id], l, highWater')
  BY OfId DEF Sound
<1>2. \A t \in Tokens5(row, dormant[id], l) :
         t \in Tokens5(sessions[id], dormant[id], leases[id])
  BY DEF Tokens5
<1>3. \A p \in PanesOf(row, l) : p \in PanesOf(sessions[id], leases[id])
  BY DEF PanesOf
<1>4. dormant' = [dormant EXCEPT ![id] = dormant[id]]
  BY DEF IInv
<1>5. highWater' \in Nat /\ highWater <= highWater' /\ highWater' <= MaxInc
  BY OfId
<1>. QED BY <1>1, <1>2, <1>3, <1>4, <1>5, Point

(* Rolling a start back.                                                   *)
LEMMA KeptRollbackReservedStart ==
  ASSUME IInv, NEW id \in Ids, NEW tok, NEW pane \in Panes, RollbackReservedStart(id, tok, pane)
  PROVE  IInv' /\ StepOK
<1>1. leases[id].phase = "Starting" /\ leases[id].inc = tok /\ leases[id].inc # 0
  BY DEF RollbackReservedStart, Holds, Leased
<1>2. CASE leases[id].pane = pane /\ leases[id].paneOwner = tok
  <2>. DEFINE l == [leases[id] EXCEPT !.pane = None, !.paneOwner = 0]
  <2>1. leases[id] \in Lease
    BY OfId
  <2>2. /\ l \in Lease /\ l.inc = leases[id].inc /\ l.phase = leases[id].phase
        /\ l.target = leases[id].target /\ l.prev = leases[id].prev
        /\ l.sidOwner = leases[id].sidOwner /\ l.pane = None /\ l.paneOwner = 0
    BY <2>1 DEF Lease
  <2>3. /\ sessions' = [sessions EXCEPT ![id] = NoRow]
        /\ leases' = [leases EXCEPT ![id] = l] /\ UNCHANGED <<dormant, highWater>>
    BY <1>2 DEF RollbackReservedStart
  <2>. HIDE DEF l
  <2>4. Good(NoRow, dormant[id], l)
    BY <1>1, <2>2, OfId, NoRowType DEF Good
  <2>5. /\ NoRow.inc <= highWater /\ l.inc <= highWater /\ l.target <= highWater
        /\ l.prev.inc <= highWater
        /\ {NoRow.inc, l.inc, l.target, l.prev.inc} \subseteq
            {0, sessions[id].inc, leases[id].inc, leases[id].target, leases[id].prev.inc}
        /\ {NoRow.pane, l.pane} \subseteq {None, sessions[id].pane, leases[id].pane}
    BY <2>2, OfId, NoRowType
  <2>6. l \in Lease
    BY <2>2
  <2>7. LeaseContinues(leases[id], l)
    BY <2>2 DEF LeaseContinues
  <2>. QED BY <2>7, <2>3, <2>4, <2>5, <2>6, NoRowType, TwoUpdate
<1>3. CASE ~(leases[id].pane = pane /\ leases[id].paneOwner = tok)
  BY <1>1, <1>3, RowGone DEF RollbackReservedStart
<1>. QED BY <1>2, <1>3

(* What the invariant knows of a restart that is staged for target.        *)
LEMMA StagedShape ==
  ASSUME IInv, NEW id \in Ids, NEW tok, NEW target, StagedFor(id, tok, target)
  PROVE  /\ leases[id].phase = "Restarting" /\ leases[id].target = target
         /\ leases[id].target > leases[id].inc /\ sessions[id].inc = leases[id].target
         /\ leases[id].prev.inc = leases[id].inc /\ leases[id].inc # 0
         /\ leases[id].prev.pane = sessions[id].pane
         /\ leases[id].prev \in Row /\ sessions[id].inc # 0 /\ dormant[id].inc = 0
<1>1. leases[id].phase = "Restarting" /\ leases[id].target = target /\ leases[id].prev.inc # 0
  BY DEF StagedFor, Holds
<1>2. leases[id].inc \in Nat /\ leases[id].target \in Nat /\ leases[id].prev \in Row
  BY OfId, LeaseFields
<1>. QED BY <1>1, <1>2, OfId, NoRowType DEF Good

(* A staged restart may end with its target or with its incumbent.         *)
LEMMA RestartEnds ==
  ASSUME IInv, NEW id \in Ids, NEW tok, NEW target, StagedFor(id, tok, target),
         NEW row \in Row,
         row.inc \in {sessions[id].inc, leases[id].prev.inc},
         row.pane \in {sessions[id].pane, leases[id].pane},
         sessions' = [sessions EXCEPT ![id] = row],
         leases' = [leases EXCEPT ![id] = NoLease],
         UNCHANGED <<dormant, highWater>>
  PROVE  IInv' /\ StepOK
<1>1. Good(row, dormant[id], NoLease)
  BY StagedShape, NoLeaseType DEF Good
<1>2. /\ row.inc <= highWater /\ NoLease.inc <= highWater /\ NoLease.target <= highWater
      /\ NoLease.prev.inc <= highWater
      /\ {row.inc, NoLease.inc, NoLease.target, NoLease.prev.inc} \subseteq
            {0, sessions[id].inc, leases[id].inc, leases[id].target, leases[id].prev.inc}
      /\ {row.pane, NoLease.pane} \subseteq {None, sessions[id].pane, leases[id].pane}
  BY OfId, NoLeaseType, NoRowType
<1>3. LeaseContinues(leases[id], NoLease) /\ leases[id] # NoLease
  BY StagedShape, NoLeaseType DEF LeaseContinues
<1>. QED BY <1>3, <1>1, <1>2, NoLeaseType, TwoUpdate

(* Rolling a restart back to its incumbent.                                *)
LEMMA KeptRollbackRestartLaunch ==
  ASSUME IInv, NEW id \in Ids, NEW tok, NEW target, RollbackRestartLaunch(id, tok, target)
  PROVE  IInv' /\ StepOK
<1>1. StagedFor(id, tok, target)
  BY DEF RollbackRestartLaunch
<1>2. leases[id].prev \in Row /\ leases[id].prev.pane = sessions[id].pane
  BY <1>1, StagedShape
<1>. QED BY <1>1, <1>2, RestartEnds DEF RollbackRestartLaunch

(* Completing a restart.                                                   *)
LEMMA KeptCompleteRestartLaunch ==
  ASSUME IInv, NEW id \in Ids, NEW tok, NEW target, NEW sid \in Sids \cup {None},
         NEW dir \in Dirs \cup {None},
         CompleteRestartLaunch(id, tok, target, sid, dir)
  PROVE  IInv' /\ StepOK
<1>. DEFINE pane == IF leases[id].pane # None THEN leases[id].pane ELSE sessions[id].pane
            row  == Refreshed(sessions[id], pane, sid, dir, sessions[id].canon)
<1>1. StagedFor(id, tok, target)
  BY DEF CompleteRestartLaunch, MayComplete
<1>2. sessions[id] \in Row /\ leases[id] \in Lease
  BY OfId
<1>3. pane \in Panes \cup {None} /\ pane \in {sessions[id].pane, leases[id].pane}
  BY <1>2, RowFields DEF Lease
<1>4. /\ sessions' = [sessions EXCEPT ![id] = row] /\ leases' = [leases EXCEPT ![id] = NoLease]
      /\ UNCHANGED <<dormant, highWater>>
  BY DEF CompleteRestartLaunch, MayComplete
<1>. HIDE DEF pane
<1>5. row \in Row /\ row.inc = sessions[id].inc /\ row.pane = pane
  <2>. DEFINE s == IF sessions[id].sid # None THEN sessions[id].sid ELSE sid
  <2>1. s \in Sids \cup {None} /\ sessions[id].canon \in BOOLEAN
    BY <1>2 DEF Row
  <2>. HIDE DEF s
  <2>. DEFINE g == [sessions[id] EXCEPT !.pane = pane, !.backend = TRUE, !.sid = s, !.dir = dir,
                                        !.canon = sessions[id].canon, !.scanned = FALSE]
  <2>2. g \in Row /\ g.inc = sessions[id].inc /\ g.pane = pane
    BY <1>2, <1>3, <2>1 DEF Row
  <2>3. row = g
    BY DEF Refreshed, s
  <2>. QED BY <2>2, <2>3
<1>. HIDE DEF row
<1>6. row.inc \in {sessions[id].inc, leases[id].prev.inc} /\ row.pane \in {sessions[id].pane, leases[id].pane}
  BY <1>3, <1>5
<1>7. row \in Row
  BY <1>5
<1>. QED BY <1>1, <1>4, <1>6, <1>7, RestartEnds

(* Staging a restart: the target is fresh, the incumbent is kept.          *)
LEMMA KeptStageRestartLaunch ==
  ASSUME IInv, NEW id \in Ids, NEW tok, NEW renew \in BOOLEAN, NEW withCred \in BOOLEAN,
         StageRestartLaunch(id, tok, renew, withCred)
  PROVE  IInv' /\ StepOK
<1>. DEFINE row == [sessions[id] EXCEPT
                      !.inc     = NextInc,
                      !.backend = TRUE,
                      !.sid     = IF renew THEN None ELSE @,
                      !.cred    = IF ~renew THEN @
                                  ELSE IF withCred THEN NextInc ELSE 0]
            l   == [leases[id] EXCEPT !.target = NextInc, !.prev = sessions[id]]
<1>1. /\ highWater \in Nat /\ highWater < MaxInc /\ highWater' = NextInc /\ NextInc = highWater + 1
      /\ NextInc \in Nat
  BY OfId DEF StageRestartLaunch, CanAllocate, NextInc
<1>2. sessions[id] \in Row /\ leases[id] \in Lease
  BY OfId
<1>3. row \in Row /\ row.inc = NextInc /\ row.pane = sessions[id].pane
  BY <1>1, <1>2 DEF Row
<1>4. /\ l \in Lease /\ l.inc = leases[id].inc /\ l.phase = leases[id].phase
      /\ l.target = NextInc /\ l.prev = sessions[id] /\ l.sidOwner = leases[id].sidOwner
      /\ l.paneOwner = leases[id].paneOwner /\ l.pane = leases[id].pane
  BY <1>1, <1>2 DEF Lease
<1>5. /\ sessions' = [sessions EXCEPT ![id] = row]
      /\ leases' = [leases EXCEPT ![id] = l]
      /\ dormant' = dormant
  BY DEF StageRestartLaunch
<1>6. /\ leases[id].phase = "Restarting" /\ leases[id].inc # 0 /\ leases[id].inc = tok
      /\ leases[id].target = 0
      /\ sessions[id].inc = tok
  BY DEF StageRestartLaunch, Holds, Leased
<1>. HIDE DEF row, l
<1>7. Sound(row, dormant[id], l, highWater')
  <2>0. leases[id].inc \in Nat /\ leases[id].target \in Nat
    BY <1>2, LeaseFields
  <2>1. Good(row, dormant[id], l)
    BY <2>0, <1>1, <1>3, <1>4, <1>6, OfId DEF Good
  <2>. QED BY <2>0, <2>1, <1>1, <1>3, <1>4, <1>6, OfId, RowFields, TombstoneFields DEF Sound
<1>8. \A t \in Tokens5(row, dormant[id], l) :
         t \in Tokens5(sessions[id], dormant[id], leases[id]) \/ t > highWater
  BY <1>1, <1>3, <1>4 DEF Tokens5
<1>9. \A p \in PanesOf(row, l) : p \in PanesOf(sessions[id], leases[id])
  BY <1>3, <1>4 DEF PanesOf
<1>10. highWater' \in Nat /\ highWater <= highWater' /\ highWater' <= MaxInc
  BY <1>1, MaxIncIsNat
<1>11. dormant' = [dormant EXCEPT ![id] = dormant[id]]
  BY <1>5 DEF IInv
<1>12. LeaseContinues(leases[id], l) /\ leases[id].phase # "Stopping"
  BY <1>4, <1>6 DEF LeaseContinues
<1>. QED BY <1>12, <1>5, <1>7, <1>8, <1>9, <1>10, <1>11, Point

(* A new row with a fresh incarnation for an ID that nobody leases.        *)
LEMMA NewRow ==
  ASSUME IInv, NEW id \in Ids, leases[id].inc = 0, NEW row \in Row,
         CanAllocate, highWater' = NextInc, row.inc = NextInc,
         \/ row.pane \in {None, sessions[id].pane}
         \/ \A j \in Ids \ {id} : row.pane \notin PanesOf(sessions[j], leases[j]),
         sessions' = [sessions EXCEPT ![id] = row],
         dormant' = [dormant EXCEPT ![id] = NoTombstone],
         leases' = leases
  PROVE  IInv' /\ StepOK
<1>1. /\ highWater \in Nat /\ highWater < MaxInc /\ NextInc = highWater + 1
      /\ NextInc \in Nat
  BY OfId DEF CanAllocate, NextInc
<1>2. leases[id] = NoLease
  BY OfId DEF Good
<1>3. leases' = [leases EXCEPT ![id] = NoLease]
  BY <1>2 DEF IInv
<1>4. Sound(row, NoTombstone, NoLease, highWater')
  <2>1. Good(row, NoTombstone, NoLease)
    BY <1>1, NoLeaseType, NoTombstoneType DEF Good
  <2>. QED BY <2>1, <1>1, NoLeaseType, NoRowType, NoTombstoneType DEF Sound
<1>5. \A t \in Tokens5(row, NoTombstone, NoLease) : t > highWater
  BY <1>1, NoLeaseType, NoRowType, NoTombstoneType DEF Tokens5
<1>6. \A p \in PanesOf(row, NoLease) :
            \/ p \in PanesOf(sessions[id], leases[id])
            \/ \A j \in Ids \ {id} : p \notin PanesOf(sessions[j], leases[j])
  BY NoLeaseType DEF PanesOf
<1>7. highWater' \in Nat /\ highWater <= highWater' /\ highWater' <= MaxInc
  BY <1>1, MaxIncIsNat
<1>8. LeaseContinues(leases[id], NoLease) /\ leases[id].phase # "Stopping"
  BY <1>2, NoLeaseType DEF LeaseContinues
<1>. QED BY <1>8, <1>3, <1>4, <1>5, <1>6, <1>7, Point

-----------------------------------------------------------------------------
(* What registrations carry are rows.                                      *)
LEMMA MetasTyped == Metas \subseteq Row /\ ApiMetas \subseteq Metas /\ HookMetas \subseteq Metas
<1>1. \A dir \in Dirs : ScannerMeta(dir) \in Row
  BY DEF ScannerMeta, NoRow, Row
<1>2. \A sid \in Sids, dir \in Dirs : HookMeta(sid, dir) \in Row
  BY DEF HookMeta, NoRow, Row
<1>3. \A sid \in Sids \cup {None}, dir \in Dirs \cup {None} : ApiMeta(sid, dir) \in Row
  BY DEF ApiMeta, NoRow, Row
<1>4. \A dir \in Dirs \cup {None} : PlainMeta(dir) \in Row
  BY DEF PlainMeta, NoRow, Row
<1>5. HookMetas \subseteq Row
  BY <1>2 DEF HookMetas
<1>6. ApiMetas \subseteq Row
  <2>. DEFINE A == {ApiMeta(sid, dir) : sid \in Sids \cup {None}, dir \in Dirs \cup {None}}
              B == {PlainMeta(dir) : dir \in Dirs \cup {None}}
  <2>1. A \subseteq Row
    BY <1>3
  <2>2. B \subseteq Row
    BY <1>4
  <2>3. ApiMetas = A \cup B
    BY DEF ApiMetas
  <2>. HIDE DEF A, B
  <2>. QED BY <2>1, <2>2, <2>3
<1>7. {ScannerMeta(dir) : dir \in Dirs} \subseteq Row
  BY <1>1
<1>8. Metas \subseteq Row
  BY <1>5, <1>6, <1>7, Zenon DEF Metas
<1>9. ApiMetas \subseteq Metas /\ HookMetas \subseteq Metas
  BY Zenon DEF Metas
<1>. QED
  BY <1>8, <1>9

(* A tombstone keeps the owner of its row.                                 *)
LEMMA TombstoneType ==
  ASSUME NEW r \in Row
  PROVE  /\ TombstoneOf(r) \in Tombstone
         /\ Recoverable(r) => TombstoneOf(r).inc = r.inc
  BY NoTombstoneType, RowFields DEF TombstoneOf, Tombstone

(* An ID without a row or a lease holds no pane through it.                *)
LEMMA NotLive ==
  ASSUME IInv, NEW id \in Ids
  PROVE  /\ sessions[id].inc = 0 => sessions[id] = NoRow
         /\ leases[id].inc = 0 => leases[id] = NoLease /\ leases[id].pane = None
  BY OfId, NoLeaseType DEF Good

(* A backend claims an ID for itself.                                      *)
LEMMA KeptClaimLocalSession ==
  ASSUME IInv, NEW id \in Ids, NEW pane \in Panes, NEW sid \in Sids, NEW dir \in Dirs,
         ClaimLocalSession(id, pane, sid, dir)
  PROVE  IInv' /\ StepOK
<1>. DEFINE row == [HookMeta(sid, dir) EXCEPT !.inc = NextInc, !.pane = pane]
<1>1. NextInc \in Nat
  BY OfId DEF NextInc
<1>2. HookMeta(sid, dir) \in Row
  BY MetasTyped DEF HookMetas, Metas
<1>3. row \in Row /\ row.inc = NextInc /\ row.pane = pane
  BY <1>1, <1>2 DEF Row
<1>4. /\ sessions' = [sessions EXCEPT ![id] = row]
      /\ dormant' = [dormant EXCEPT ![id] = NoTombstone]
      /\ leases' = leases /\ CanAllocate /\ highWater' = NextInc
  BY DEF ClaimLocalSession
<1>. HIDE DEF row
<1>5. leases[id].inc = 0
  BY DEF ClaimLocalSession, LifecycleResourceConflict, Leased
<1>6. \A j \in Ids : row.pane \notin PanesOf(sessions[j], leases[j])
  BY <1>3, NotLive, NoneIsFresh, NoRowType
  DEF ClaimLocalSession, LifecycleResourceConflict, LiveResourceConflict, Live, Leased, PanesOf
<1>7. row \in Row /\ row.inc = NextInc
  BY <1>3
<1>. QED BY <1>4, <1>5, <1>6, <1>7, NewRow

(* A dormant session comes back under a fresh incarnation.                 *)
LEMMA KeptRecoverDormant ==
  ASSUME IInv, NEW id \in Ids, NEW tok, NEW pane \in Panes, RecoverDormant(id, tok, pane)
  PROVE  IInv' /\ StepOK
<1>. DEFINE row == [HookMeta(dormant[id].sid, dormant[id].dir) EXCEPT !.inc = NextInc, !.pane = pane]
<1>1. NextInc \in Nat
  BY OfId DEF NextInc
<1>2. HookMeta(dormant[id].sid, dormant[id].dir) \in Row
  <2>1. dormant[id].sid \in Sids \cup {None} /\ dormant[id].dir \in Dirs \cup {None}
    BY OfId DEF Tombstone
  <2>. QED BY <2>1, NoRowType DEF HookMeta, Row
<1>3. row \in Row /\ row.inc = NextInc /\ row.pane = pane
  BY <1>1, <1>2 DEF Row
<1>4. /\ sessions' = [sessions EXCEPT ![id] = row]
      /\ dormant' = [dormant EXCEPT ![id] = NoTombstone]
      /\ leases' = leases /\ CanAllocate /\ highWater' = NextInc
  BY DEF RecoverDormant
<1>. HIDE DEF row
<1>5. leases[id].inc = 0
  BY DEF RecoverDormant, LifecycleResourceConflict, Leased
<1>6. \A j \in Ids : row.pane \notin PanesOf(sessions[j], leases[j])
  BY <1>3, NotLive, NoneIsFresh, NoRowType
  DEF RecoverDormant, LifecycleResourceConflict, LiveResourceConflict, Live, Leased, PanesOf
<1>7. row \in Row /\ row.inc = NextInc
  BY <1>3
<1>. QED BY <1>4, <1>5, <1>6, <1>7, NewRow

(* The pane of a dead session is taken over under the same ID.             *)
LEMMA KeptReplaceReusedPaneOwner ==
  ASSUME IInv, NEW id \in Ids, NEW tok, NEW m \in HookMetas, ReplaceReusedPaneOwner(id, tok, m)
  PROVE  IInv' /\ StepOK
<1>. DEFINE row == [m EXCEPT !.inc = NextInc, !.pane = sessions[id].pane]
<1>1. NextInc \in Nat /\ sessions[id].pane \in Panes \cup {None}
  BY OfId, RowFields DEF NextInc
<1>2. m \in Row
  BY MetasTyped
<1>3. row \in Row /\ row.inc = NextInc /\ row.pane = sessions[id].pane
  BY <1>1, <1>2 DEF Row
<1>4. /\ sessions' = [sessions EXCEPT ![id] = row]
      /\ dormant' = [dormant EXCEPT ![id] = NoTombstone]
      /\ leases' = leases /\ CanAllocate /\ highWater' = NextInc
      /\ leases[id].inc = 0
  BY DEF ReplaceReusedPaneOwner, Leased
<1>. HIDE DEF row
<1>5. row \in Row /\ row.inc = NextInc /\ row.pane \in {None, sessions[id].pane}
  BY <1>3
<1>. QED BY <1>4, <1>5, NewRow

(* The row of an ID that nobody leases is removed or becomes a tombstone.  *)
LEMMA RowParked ==
  ASSUME IInv, NEW id \in Ids, leases[id].inc = 0, NEW rip \in Tombstone,
         rip.inc \in {0, sessions[id].inc, dormant[id].inc},
         sessions' = [sessions EXCEPT ![id] = NoRow],
         dormant' = [dormant EXCEPT ![id] = rip],
         UNCHANGED <<leases, highWater>>
  PROVE  IInv' /\ StepOK
<1>1. Sound(NoRow, rip, leases[id], highWater')
  BY OfId, NoRowType, NoLeaseType DEF Sound, Good
<1>2. \A t \in Tokens5(NoRow, rip, leases[id]) :
         t \in Tokens5(sessions[id], dormant[id], leases[id])
  BY NoRowType DEF Tokens5
<1>3. \A p \in PanesOf(NoRow, leases[id]) : p \in PanesOf(sessions[id], leases[id])
  BY NoRowType DEF PanesOf
<1>4. leases' = [leases EXCEPT ![id] = leases[id]]
  BY DEF IInv
<1>5. highWater' \in Nat /\ highWater <= highWater' /\ highWater' <= MaxInc
  BY OfId
<1>6. LeaseContinues(leases[id], leases[id]) /\ leases[id].phase # "Stopping"
  BY OfId DEF LeaseContinues, Good
<1>. QED BY <1>6, <1>1, <1>2, <1>3, <1>4, <1>5, Point

(* The reaper parks a row whose pane is gone.                              *)
LEMMA KeptDormantOwned ==
  ASSUME IInv, NEW id \in Ids, NEW tok, NEW pane, DormantOwned(id, tok, pane)
  PROVE  IInv' /\ StepOK
<1>. DEFINE rip == IF Recoverable(sessions[id]) THEN TombstoneOf(sessions[id]) ELSE dormant[id]
<1>1. /\ leases[id].inc = 0 /\ sessions' = [sessions EXCEPT ![id] = NoRow]
      /\ dormant' = [dormant EXCEPT ![id] = rip]
      /\ UNCHANGED <<leases, highWater>>
  BY DEF DormantOwned, Leased, IInv
<1>2. rip \in Tombstone /\ rip.inc \in {0, sessions[id].inc, dormant[id].inc}
  BY OfId, TombstoneType
<1>. QED BY <1>1, <1>2, RowParked

(* A removal.                                                              *)
LEMMA KeptRemove ==
  ASSUME IInv, NEW id \in Ids, Remove(id)
  PROVE  IInv' /\ StepOK
<1>0. leases[id].inc = 0 /\ UNCHANGED <<leases, highWater>>
  BY DEF Remove, Leased
<1>1. CASE Live(id)
  <2>1. /\ sessions' = [sessions EXCEPT ![id] = NoRow]
        /\ dormant' = [dormant EXCEPT ![id] = dormant[id]]
    BY <1>1 DEF Remove, IInv
  <2>. QED BY <1>0, <2>1, OfId, RowParked
<1>2. CASE ~Live(id)
  <2>1. sessions[id] = NoRow
    BY <1>2, NotLive DEF Live
  <2>2. /\ sessions' = [sessions EXCEPT ![id] = NoRow]
        /\ dormant' = [dormant EXCEPT ![id] = NoTombstone]
    BY <1>2, <2>1 DEF Remove, IInv
  <2>. QED BY <1>0, <2>2, NoTombstoneType, RowParked
<1>. QED BY <1>1, <1>2

-----------------------------------------------------------------------------
(* A registration, under a fresh incarnation or the one its start reserved; *)
(* also when it fails after it drew the incarnation.                       *)
LEMMA KeptRegisterWithOwner ==
  ASSUME IInv, NEW id \in Ids, NEW pane \in Panes \cup {None}, NEW m \in Row, NEW tok \in Nat,
         RegisterWithOwner(id, pane, m, tok),
         tok = 0 \/ (leases[id].phase = "Starting" /\ leases[id].pane = pane)
  PROVE  IInv' /\ StepOK
<1>. DEFINE inc == IF tok = 0 THEN NextInc ELSE tok
            row == [m EXCEPT !.inc     = inc,
                             !.pane    = pane,
                             !.backend = IF sessions[id].sid # None THEN TRUE ELSE m.backend,
                             !.sid     = IF Live(id) THEN sessions[id].sid ELSE m.sid]
            D   == {j \in Ids \ {id} : pane # None /\ sessions[j].pane = pane}
<1>1. highWater \in Nat /\ NextInc = highWater + 1 /\ NextInc \in Nat
  BY OfId DEF NextInc
<1>2. /\ highWater' \in Nat /\ highWater <= highWater' /\ highWater' <= MaxInc
      /\ tok = 0 => highWater' = NextInc
  BY <1>1, OfId, MaxIncIsNat DEF RegisterWithOwner, CanAllocate
<1>3. \A j \in Ids : /\ leases[j].inc # 0
                     /\ j # id \/ tok = 0 \/ leases[j].inc # tok
                     => j # id /\ (pane = None \/ leases[j].pane # pane)
  BY DEF RegisterWithOwner, RegistrationLeaseConflict, Leased
<1>4. leases' = leases
  BY DEF RegisterWithOwner
<1>5. tok # 0 => leases[id].inc = tok
  BY DEF RegisterWithOwner
<1>5a. LeaseContinues(leases[id], leases[id]) /\ leases[id].phase # "Stopping"
  BY <1>3, OfId DEF LeaseContinues, Good
<1>6. CASE \E j \in D : Leased(j)
  <2>1. sessions' = sessions /\ dormant' = dormant
    BY <1>6 DEF RegisterWithOwner
  <2>2. /\ sessions' = [sessions EXCEPT ![id] = sessions[id]]
        /\ dormant' = [dormant EXCEPT ![id] = dormant[id]]
        /\ leases' = [leases EXCEPT ![id] = leases[id]]
    BY <2>1, <1>4 DEF IInv
  <2>3. Sound(sessions[id], dormant[id], leases[id], highWater')
    BY <1>1, <1>2, SoundLater DEF IInv
  <2>. QED BY <1>5a, <1>2, <2>2, <2>3, Point
<1>7. CASE \A j \in D : ~Leased(j)
  <2>1. /\ sessions' = [j \in Ids |-> IF j = id THEN row ELSE IF j \in D THEN NoRow ELSE sessions[j]]
        /\ dormant' = [dormant EXCEPT ![id] = NoTombstone]
    BY <1>7 DEF RegisterWithOwner
  <2>2. leases' = [leases EXCEPT ![id] = leases[id]]
    BY <1>4 DEF IInv
  <2>3. inc \in Nat /\ inc # 0 /\ inc <= highWater' /\ (inc > highWater \/ inc = leases[id].inc)
    BY <1>1, <1>2, <1>5, OfId
  <2>4. row \in Row /\ row.inc = inc /\ row.pane = pane
    <3>1. /\ (IF sessions[id].sid # None THEN TRUE ELSE m.backend) \in BOOLEAN
          /\ (IF Live(id) THEN sessions[id].sid ELSE m.sid) \in Sids \cup {None}
      BY OfId, RowFields
    <3>. HIDE DEF inc
    <3>. QED BY <2>3, <3>1 DEF Row
  <2>5. D \in SUBSET (Ids \ {id}) /\ \A j \in D : leases[j].inc = 0
    BY <1>7 DEF Leased
  <2>6. \A j \in Ids \ ({id} \cup D) : pane = None \/ pane \notin PanesOf(sessions[j], leases[j])
    BY <1>3, NotLive DEF PanesOf
  <2>. HIDE DEF row, D, inc
  <2>7. Sound(row, NoTombstone, leases[id], highWater')
    <3>1. tok = 0 => leases[id].inc = 0
      BY <1>3
    <3>2. Good(row, NoTombstone, leases[id])
      BY <1>5, <2>3, <2>4, <3>1, OfId, NoLeaseType, NoTombstoneType DEF Good, inc
    <3>. QED BY <1>1, <1>2, <2>3, <2>4, <3>2, OfId, LeaseFields, NoTombstoneType DEF Sound
  <2>8. \A t \in Tokens5(row, NoTombstone, leases[id]) :
           t \in Tokens5(sessions[id], dormant[id], leases[id]) \/ t > highWater
    BY <2>3, <2>4, NoTombstoneType DEF Tokens5
  <2>9. \A p \in PanesOf(row, leases[id]) :
           \/ p \in PanesOf(sessions[id], leases[id])
           \/ \A j \in Ids \ ({id} \cup D) : p \notin PanesOf(sessions[j], leases[j])
    BY <2>4, <2>6 DEF PanesOf
  <2>. QED BY <1>5a, <1>2, <2>1, <2>2, <2>5, <2>7, <2>8, <2>9, Local
<1>. QED BY <1>6, <1>7

(* A start publishes its row.                                              *)
LEMMA KeptCommitReservedStart ==
  ASSUME IInv, NEW id \in Ids, NEW tok \in Nat, NEW dir \in Dirs, NEW cred \in {0, tok},
         CommitReservedStart(id, tok, dir, cred)
  PROVE  IInv' /\ StepOK
<1>1. [NoRow EXCEPT !.backend = TRUE, !.cred = cred, !.dir = dir] \in Row
  BY NoRowType DEF Row
<1>2. leases[id].pane \in Panes \cup {None}
  BY OfId DEF Lease
<1>. QED BY <1>1, <1>2, KeptRegisterWithOwner DEF CommitReservedStart, Holds

(* A registration over the API.                                            *)
LEMMA KeptRegister ==
  ASSUME IInv, NEW id \in Ids, NEW m \in ApiMetas, Register(id, m)
  PROVE  IInv' /\ StepOK
<1>1. m \in Row
  BY MetasTyped
<1>. QED BY <1>1, KeptRegisterWithOwner DEF Register

(* A registration by a hook or by the scanner.                             *)
LEMMA KeptRegisterIfPaneUnbound ==
  ASSUME IInv, NEW id \in Ids, NEW pane \in Panes, NEW m \in Metas,
         RegisterIfPaneUnbound(id, pane, m)
  PROVE  IInv' /\ StepOK
<1>1. m \in Row
  BY MetasTyped
<1>. QED BY <1>1, KeptRegisterWithOwner DEF RegisterIfPaneUnbound

(* A session moves to another pane.                                        *)
LEMMA KeptReclaimMissingBackendPane ==
  ASSUME IInv, NEW id \in Ids, NEW tok, NEW oldPane, NEW newPane \in Panes,
         ReclaimMissingBackendPane(id, tok, oldPane, newPane)
  PROVE  IInv' /\ StepOK
<1>1. sessions[id] \in Row
  BY OfId
<1>. QED BY <1>1, KeptRegisterWithOwner DEF ReclaimMissingBackendPane

-----------------------------------------------------------------------------
(* A rename moves owner and pane from one ID to another.                   *)
LEMMA KeptRename ==
  ASSUME IInv, NEW old \in Ids, NEW new \in Ids, Rename(old, new)
  PROVE  IInv' /\ StepOK
<1>. DEFINE from(j) == IF j = new THEN old ELSE j
<1>1. /\ old # new /\ leases[old].inc = 0 /\ leases[new].inc = 0
      /\ sessions[old].inc # 0 /\ sessions[new].inc = 0
      /\ leases' = leases /\ highWater' = highWater
  BY DEF Rename, Leased, Live
<1>2. \A j \in Ids :
         /\ sessions'[j] = IF j = new THEN sessions[old] ELSE IF j = old THEN NoRow ELSE sessions[j]
         /\ dormant'[j] = IF j = new THEN NoTombstone ELSE dormant[j]
  BY DEF Rename, IInv
<1>3. /\ sessions' = [j \in Ids |-> sessions'[j]]
      /\ dormant' = [j \in Ids |-> dormant'[j]]
      /\ leases' = [j \in Ids |-> leases'[j]]
  BY <1>1 DEF Rename, IInv
<1>4. dormant[old].inc = 0 /\ leases[old] = NoLease /\ leases[new] = NoLease
  BY <1>1, OfId DEF Good
<1>5. ASSUME NEW j \in Ids
      PROVE  Sound(sessions'[j], dormant'[j], leases'[j], highWater')
  <2>1. Good(sessions'[j], dormant'[j], leases'[j])
    BY <1>1, <1>2, <1>4, OfId, NoRowType, NoLeaseType, NoTombstoneType DEF Good
  <2>. QED BY <2>1, <1>1, <1>2, OfId, NoRowType, NoTombstoneType DEF Sound
<1>6. ASSUME NEW j \in Ids
      PROVE  /\ j # old => /\ Tokens5(sessions'[j], dormant'[j], leases'[j])
                                \subseteq Tokens5(sessions[from(j)], dormant[from(j)], leases[from(j)])
                           /\ PanesOf(sessions'[j], leases'[j])
                                \subseteq PanesOf(sessions[from(j)], leases[from(j)])
             /\ Tokens5(sessions'[old], dormant'[old], leases'[old]) = {}
             /\ PanesOf(sessions'[old], leases'[old]) = {}
  BY <1>1, <1>2, <1>4, NoRowType, NoLeaseType, NoTombstoneType DEF Tokens5, PanesOf
<1>7. \A i, j \in Ids : i # j /\ i # old /\ j # old => from(i) # from(j) /\ from(i) \in Ids
  OBVIOUS
<1>. HIDE DEF from
<1>8. TokensApart'
  BY <1>6, <1>7 DEF IInv, TokensApart
<1>9. PanesApart'
  BY <1>6, <1>7 DEF IInv, PanesApart
<1>10. TokenStep
  <2>1. \A j \in Ids \ {old} : from(j) \in Ids
    BY DEF from
  <2>2. highWater' >= highWater
    BY <1>1, OfId
  <2>. QED BY <2>1, <2>2, <1>6 DEF TokenStep
<1>11. HighWaterOK'
  BY <1>1 DEF IInv, HighWaterOK
<1>12. IInv'
  BY <1>3, <1>5, <1>8, <1>9, <1>11 DEF IInv
<1>13. \A j \in Ids : LeaseContinues(leases[j], leases'[j])
  BY <1>1 DEF LeaseContinues
<1>14. ASSUME NEW j \in Ids
       PROVE  StopFrozen(j)
  <2>. SUFFICES ASSUME leases[j].phase = "Stopping"
                PROVE  /\ sessions'[j] \in {sessions[j], NoRow}
                       /\ \A k \in Ids \ {j} : sessions'[k].pane = leases[j].pane =>
                                                 sessions[k].pane = leases[j].pane
    BY DEF StopFrozen
  <2>1. leases[j].pane # None /\ j # old /\ j # new
    BY <1>4, OfId, NoLeaseType DEF Good
  <2>2. sessions'[j] = sessions[j]
    BY <1>2, <2>1
  <2>3. sessions[old].pane # leases[j].pane
    BY <2>1 DEF IInv, PanesApart, PanesOf
  <2>. QED BY <1>2, <2>1, <2>2, <2>3, NoRowType
<1>. QED BY <1>10, <1>12, <1>13, <1>14 DEF StepOK

(* What a restart of the daemon forgets of a row.                          *)
LEMMA RestoredRow ==
  ASSUME NEW row \in Row
  PROVE  LET kept == [row EXCEPT !.cred = 0, !.scanned = FALSE]
         IN  /\ kept \in Row /\ kept.inc = row.inc /\ kept.pane = row.pane
             /\ row = NoRow => kept = NoRow
<1>. DEFINE kept == [row EXCEPT !.cred = 0, !.scanned = FALSE]
<1>1. kept \in Row /\ kept.inc = row.inc /\ kept.pane = row.pane
  BY DEF Row
<1>2. ASSUME row = NoRow
      PROVE  kept = NoRow
  <2>1. /\ kept.inc = NoRow.inc /\ kept.pane = NoRow.pane /\ kept.backend = NoRow.backend
        /\ kept.sid = NoRow.sid /\ kept.cred = 0 /\ kept.dir = NoRow.dir
        /\ kept.canon = NoRow.canon /\ kept.scanned = FALSE
    BY <1>2 DEF Row
  <2>2. NoRow.cred = 0 /\ NoRow.scanned = FALSE
    BY DEF NoRow
  <2>. HIDE DEF kept
  <2>. QED BY <1>1, <2>1, <2>2, NoRowType DEF Row
<1>. QED BY <1>1, <1>2

(* A restart of the daemon invents neither incarnations nor panes.         *)
LEMMA KeptRestore ==
  ASSUME IInv, NEW gone \in SUBSET Ids, Restore(gone)
  PROVE  IInv' /\ StepOK
<1>. DEFINE incumbent(j) == IF /\ leases[j].phase = "Restarting"
                               /\ leases[j].prev.inc # 0
                               /\ Live(j) /\ sessions[j].inc = leases[j].target
                            THEN leases[j].prev ELSE sessions[j]
            kept(j) == IF Leased(j) /\ AbandonedLeaseOwns(leases[j], incumbent(j))
                       THEN NoRow
                       ELSE [incumbent(j) EXCEPT !.cred = 0, !.scanned = FALSE]
            row(j)  == IF j \in gone THEN NoRow ELSE kept(j)
            rip(j)  == IF j \in gone /\ Recoverable(kept(j)) THEN TombstoneOf(kept(j)) ELSE dormant[j]
<1>1. /\ sessions' = [j \in Ids |-> row(j)]
      /\ dormant' = [j \in Ids |-> rip(j)]
      /\ leases' = [j \in Ids |-> NoLease]
      /\ highWater' = highWater
  BY DEF Restore, RestoredHighWater
<1>2. ASSUME NEW j \in Ids
      PROVE  /\ kept(j) \in Row
             /\ kept(j).inc \in {0, sessions[j].inc, leases[j].prev.inc}
             /\ kept(j).pane \in {None, sessions[j].pane}
             /\ kept(j).inc = 0 => kept(j) = NoRow
             /\ kept(j).inc # 0 => dormant[j].inc = 0
  <2>1. /\ incumbent(j) \in Row
        /\ incumbent(j).inc \in {sessions[j].inc, leases[j].prev.inc}
        /\ incumbent(j).pane = sessions[j].pane
        /\ incumbent(j).inc = 0 => incumbent(j) = NoRow
        /\ incumbent(j).inc # 0 => dormant[j].inc = 0
    BY OfId, LeaseFields, NoRowType DEF Good, Live
  <2>. HIDE DEF incumbent
  <2>2. CASE Leased(j) /\ AbandonedLeaseOwns(leases[j], incumbent(j))
    BY <2>2, NoRowType
  <2>3. CASE ~(Leased(j) /\ AbandonedLeaseOwns(leases[j], incumbent(j)))
    BY <2>1, <2>3, RestoredRow
  <2>. QED BY <2>2, <2>3
<1>. HIDE DEF kept
<1>3. ASSUME NEW j \in Ids
      PROVE  /\ row(j) \in Row /\ rip(j) \in Tombstone
             /\ row(j).inc \in {0, sessions[j].inc, leases[j].prev.inc}
             /\ row(j).pane \in {None, sessions[j].pane}
             /\ rip(j).inc \in {0, dormant[j].inc, sessions[j].inc, leases[j].prev.inc}
             /\ row(j).inc = 0 => row(j) = NoRow
             /\ row(j).inc = 0 \/ rip(j).inc = 0
  BY <1>2, OfId, NoRowType, TombstoneType DEF TombstoneOf
<1>. HIDE DEF row, rip
<1>4. ASSUME NEW j \in Ids
      PROVE  /\ Sound(row(j), rip(j), NoLease, highWater)
             /\ Tokens5(row(j), rip(j), NoLease) \subseteq Tokens5(sessions[j], dormant[j], leases[j])
             /\ PanesOf(row(j), NoLease) \subseteq PanesOf(sessions[j], leases[j])
  <2>1. Good(row(j), rip(j), NoLease)
    BY <1>3, NoLeaseType DEF Good
  <2>2. Sound(row(j), rip(j), NoLease, highWater)
    BY <1>3, <2>1, OfId, NoLeaseType, NoRowType DEF Sound
  <2>3. Tokens5(row(j), rip(j), NoLease) \subseteq Tokens5(sessions[j], dormant[j], leases[j])
    BY <1>3, NoLeaseType, NoRowType DEF Tokens5
  <2>4. PanesOf(row(j), NoLease) \subseteq PanesOf(sessions[j], leases[j])
    BY <1>3, NoLeaseType DEF PanesOf
  <2>. QED BY <2>2, <2>3, <2>4
<1>5. \A j \in Ids : /\ sessions'[j] = row(j) /\ dormant'[j] = rip(j) /\ leases'[j] = NoLease
  BY <1>1
<1>6. TokensApart'
  BY <1>4, <1>5 DEF IInv, TokensApart
<1>7. PanesApart'
  BY <1>4, <1>5 DEF IInv, PanesApart
<1>8. TokenStep
  <2>1. highWater' >= highWater
    BY <1>1 DEF IInv, HighWaterOK
  <2>. QED BY <1>4, <1>5, <2>1 DEF TokenStep
<1>9. IInv'
  BY <1>1, <1>4, <1>5, <1>6, <1>7 DEF IInv, HighWaterOK
<1>10. \A j \in Ids : StopFrozen(j) /\ LeaseContinues(leases[j], leases'[j])
  BY <1>5, NoLeaseType DEF StopFrozen, LeaseContinues
<1>. QED BY <1>8, <1>9, <1>10 DEF StepOK

-----------------------------------------------------------------------------
(* The initial state.                                                      *)
LEMMA InitEstablishes == Init => IInv
<1>. SUFFICES ASSUME Init PROVE IInv
  OBVIOUS
<1>1. \A id \in Ids : sessions[id] = NoRow /\ dormant[id] = NoTombstone /\ leases[id] = NoLease
  BY DEF Init
<1>2. Sound(NoRow, NoTombstone, NoLease, 0)
  BY NoRowType, NoTombstoneType, NoLeaseType DEF Sound, Good
<1>3. Tokens5(NoRow, NoTombstone, NoLease) = {} /\ PanesOf(NoRow, NoLease) = {}
  BY NoRowType, NoTombstoneType, NoLeaseType DEF Tokens5, PanesOf
<1>4. TokensApart /\ PanesApart
  BY <1>1, <1>3 DEF TokensApart, PanesApart
<1>5. highWater = 0 /\ HighWaterOK
  BY MaxIncIsNat DEF Init, HighWaterOK
<1>. QED BY <1>1, <1>2, <1>4, <1>5 DEF Init, IInv

(* Nothing happens.                                                        *)
LEMMA StutterKept == ASSUME IInv, UNCHANGED vars PROVE IInv' /\ StepOK
<1>1. TokenStep
  BY DEF TokenStep, IInv, HighWaterOK, vars
<1>2. IInv'
  BY DEF IInv, HighWaterOK, TokensApart, PanesApart, vars
<1>3. \A j \in Ids : StopFrozen(j) /\ LeaseContinues(leases[j], leases'[j])
  BY DEF StopFrozen, LeaseContinues, vars
<1>. QED BY <1>1, <1>2, <1>3 DEF StepOK

(* The disjuncts of Next, one lemma each.                                  *)
LEMMA LeaseStepKept == ASSUME IInv, NEW id \in Ids, LeaseStep(id) PROVE IInv' /\ StepOK
<1>1. CASE ReserveStart(id)
  BY <1>1, KeptReserveStart
<1>2. ASSUME NEW tok \in Tokens,
             \/ \E pane \in Panes : RecordInertStartPane(id, tok, pane)
             \/ \E dir \in Dirs : RecordProjectDirClaim(id, tok, dir)
             \/ AbortLifecycle(id, tok)
             \/ ClaimExistingStart(id, tok)
             \/ \E pane \in Panes : ClaimExistingStop(id, tok, pane)
             \/ \E pane \in Panes : CompleteOwnedStop(id, tok, pane)
      PROVE  IInv' /\ StepOK
  BY <1>2, KeptRecordInertStartPane, KeptRecordProjectDirClaim, KeptAbortLifecycle,
     KeptClaimExistingStart, KeptClaimExistingStop, KeptCompleteOwnedStop
<1>3. ASSUME NEW tok \in Tokens,
             \/ \E dir \in Dirs, cred \in {0, tok} : CommitReservedStart(id, tok, dir, cred)
             \/ \E sid \in Sids \cup {None} : FinalizeReservedStart(id, tok, sid)
             \/ \E pane \in Panes : RollbackReservedStart(id, tok, pane)
      PROVE  IInv' /\ StepOK
  <2>1. tok \in Nat
    BY OfId DEF Tokens
  <2>. QED BY <1>3, <2>1, KeptCommitReservedStart, KeptFinalizeReservedStart, KeptRollbackReservedStart
<1>. QED BY <1>1, <1>2, <1>3 DEF LeaseStep

(* RestartStep.                                                            *)
LEMMA RestartStepKept == ASSUME IInv, NEW id \in Ids, RestartStep(id) PROVE IInv' /\ StepOK
<1>1. PICK tok \in Tokens :
        \/ \E renew, withCred \in BOOLEAN : StageRestartLaunch(id, tok, renew, withCred)
        \/ \E target \in Tokens :
              \/ \E sid \in Sids : RecordRestartBackendClaim(id, tok, target, sid)
              \/ \E sid \in Sids : ClearRestartBackendClaim(id, tok, target, sid)
              \/ \E sid \in Sids \cup {None}, dir \in Dirs \cup {None} :
                    CompleteRestartLaunch(id, tok, target, sid, dir)
              \/ RollbackRestartLaunch(id, tok, target)
  BY DEF RestartStep
<1>2. CASE \E renew, withCred \in BOOLEAN : StageRestartLaunch(id, tok, renew, withCred)
  BY <1>2, KeptStageRestartLaunch
<1>3. ASSUME NEW target \in Tokens,
             \/ \E sid \in Sids : RecordRestartBackendClaim(id, tok, target, sid)
             \/ \E sid \in Sids : ClearRestartBackendClaim(id, tok, target, sid)
             \/ \E sid \in Sids \cup {None}, dir \in Dirs \cup {None} :
                   CompleteRestartLaunch(id, tok, target, sid, dir)
             \/ RollbackRestartLaunch(id, tok, target)
      PROVE  IInv' /\ StepOK
  BY <1>3, KeptRecordRestartBackendClaim, KeptClearRestartBackendClaim,
     KeptCompleteRestartLaunch, KeptRollbackRestartLaunch
<1>. QED BY <1>1, <1>2, <1>3

(* RegistrationStep.                                                       *)
LEMMA RegistrationStepKept ==
  ASSUME IInv, NEW id \in Ids, RegistrationStep(id) PROVE IInv' /\ StepOK
  BY KeptRegister, KeptRegisterIfPaneUnbound, KeptReclaimMissingBackendPane,
     KeptClaimLocalSession, KeptRename, KeptUpdateMetadata DEF RegistrationStep

(* DormancyStep.                                                           *)
LEMMA DormancyStepKept ==
  ASSUME IInv, NEW id \in Ids, DormancyStep(id) PROVE IInv' /\ StepOK
  BY KeptRemove, KeptDormantOwned, KeptReplaceReusedPaneOwner, KeptRecoverDormant
  DEF DormancyStep, RemoveIfStale

(* BindingStep.                                                            *)
LEMMA BindingStepKept == ASSUME IInv, NEW id \in Ids, BindingStep(id) PROVE IInv' /\ StepOK
<1>1. PICK sid \in Sids : \E tok \in Tokens : \/ BindBackendIdentity(id, sid, tok)
                                              \/ AdoptBackend(id, tok, sid)
                                              \/ RecoverBackendIdentity(id, tok, sid)
  BY DEF BindingStep
<1>2. Live(id) /\ SetPair(id, sid)
  BY <1>1 DEF BindBackendIdentity, AdoptBackend, RecoverBackendIdentity
<1>3. leases[id].phase # "Stopping"
  BY <1>1, OfId DEF BindBackendIdentity, AdoptBackend, RecoverBackendIdentity, Good,
                  HasStoppingLease, LifecycleResourceConflict, Leased
<1>. QED BY <1>2, <1>3, KeptSetPair

(* Every step preserves the invariant and does nothing but what StepOK says. *)
LEMMA NextKept == IInv /\ [Next]_vars => IInv' /\ StepOK
<1>. SUFFICES ASSUME IInv, [Next]_vars PROVE IInv' /\ StepOK
  OBVIOUS
<1>1. CASE UNCHANGED vars
  BY <1>1, StutterKept
<1>2. CASE \E gone \in SUBSET Ids : Restore(gone)
  BY <1>2, KeptRestore
<1>3. ASSUME NEW id \in Ids,
             \/ LeaseStep(id)
             \/ RestartStep(id)
             \/ RegistrationStep(id)
             \/ DormancyStep(id)
             \/ BindingStep(id)
      PROVE  IInv' /\ StepOK
  BY <1>3, LeaseStepKept, RestartStepKept, RegistrationStepKept, DormancyStepKept, BindingStepKept
<1>. QED BY <1>1, <1>2, <1>3 DEF Next

(* IInv is an invariant of the registry.                                   *)
THEOREM Invariance == Spec => []IInv
  BY InitEstablishes, NextKept, PTL DEF Spec

-----------------------------------------------------------------------------
(* The incarnations in use, as the properties name them.                   *)
LEMMA TokensAreTokensOf ==
  ASSUME IInv
  PROVE  /\ \A id \in Ids : TokensOf(id) = Tokens5(sessions[id], dormant[id], leases[id])
         /\ \A t : t \in HeldTokens <=>
               \E id \in Ids : t \in Tokens5(sessions[id], dormant[id], leases[id])
         /\ HeldTokens \subseteq 1..highWater
<1>1. \A id \in Ids : TokensOf(id) = Tokens5(sessions[id], dormant[id], leases[id])
  BY DEF TokensOf, Tokens5
<1>2. \A t : t \in HeldTokens <=>
               \E id \in Ids : t \in Tokens5(sessions[id], dormant[id], leases[id])
  BY <1>1 DEF HeldTokens
<1>3. ASSUME NEW id \in Ids, NEW t \in Tokens5(sessions[id], dormant[id], leases[id])
      PROVE  t \in 1..highWater
  BY OfId, RowFields, TombstoneFields, LeaseFields DEF Tokens5
<1>. QED BY <1>1, <1>2, <1>3

(* The invariant implies the safety properties of Lifecycle.               *)
LEMMA IInvImplies == IInv => TypeOK /\ LifecycleAuthority /\ TokensDistinct /\ PaneExclusive /\ DormantNotLive
<1>. SUFFICES ASSUME IInv PROVE TypeOK /\ LifecycleAuthority /\ TokensDistinct /\ PaneExclusive /\ DormantNotLive
  OBVIOUS
<1>1. TypeOK
  <2>1. /\ sessions \in [Ids -> Row] /\ dormant \in [Ids -> Tombstone] /\ leases \in [Ids -> Lease]
    BY DEF IInv, Sound
  <2>2. highWater \in 0..MaxInc
    BY MaxIncIsNat DEF IInv, HighWaterOK
  <2>. QED BY <2>1, <2>2, TokensAreTokensOf DEF TypeOK
<1>2. LifecycleAuthority
  <2>. SUFFICES ASSUME NEW id \in Ids
                PROVE  /\ Leased(id) <=> leases[id].phase # "None"
                       /\ StartingAuthority(id)
                       /\ RestartingAuthority(id)
                       /\ StoppingAuthority(id)
    BY DEF LifecycleAuthority
  <2>1. Good(sessions[id], dormant[id], leases[id])
    BY OfId
  <2>. QED BY <2>1 DEF Good, Leased, Live, StartingAuthority, RestartingAuthority, StoppingAuthority
<1>3. TokensDistinct
  BY TokensAreTokensOf DEF TokensDistinct, IInv, TokensApart
<1>4. PaneExclusive
  BY DEF PaneExclusive, IInv, PanesApart, PanesOf
<1>5. DormantNotLive
  BY OfId DEF DormantNotLive, Good, Live, Parked
<1>. QED BY <1>1, <1>2, <1>3, <1>4, <1>5

(* A step reuses no incarnation.                                           *)
LEMMA TokenStepImplies ==
  IInv /\ IInv' /\ StepOK =>
     /\ highWater' >= highWater
     /\ HeldTokens' \subseteq HeldTokens \cup ((highWater + 1)..highWater')
<1>. SUFFICES ASSUME IInv, IInv', StepOK, NEW t \in HeldTokens'
              PROVE  t \in HeldTokens \cup ((highWater + 1)..highWater')
  BY DEF TokenStep, StepOK
<1>1. t \in Nat /\ highWater \in Nat /\ highWater' \in Nat
  <2>1. (HeldTokens \subseteq 1..highWater)'
    BY TokensAreTokensOf, PTL
  <2>2. highWater \in Nat /\ highWater' \in Nat
    BY DEF IInv, HighWaterOK
  <2>. QED BY <2>1, <2>2
<1>2. \E j \in Ids : t \in Tokens5(sessions'[j], dormant'[j], leases'[j])
  <2>1. (\A id \in Ids : TokensOf(id) = Tokens5(sessions[id], dormant[id], leases[id]))'
    BY TokensAreTokensOf, PTL
  <2>. QED BY <2>1 DEF HeldTokens
<1>3. (\E i \in Ids : t \in Tokens5(sessions[i], dormant[i], leases[i]))
         \/ (highWater < t /\ t <= highWater')
  BY <1>1, <1>2 DEF TokenStep, StepOK
<1>. QED BY <1>1, <1>3, TokensAreTokensOf

(* Every row, tombstone and lease is well typed and no owner is newer than *)
(* the high water mark of allocate_incarnation.                            *)
THEOREM TypeCorrect == Spec => []TypeOK
  BY Invariance, IInvImplies, PTL

(* Whatever flows overlap, a lease and the row it stands on agree about who *)
(* owns the ID (the lifecycle authority of reserve, claim, stage, complete, *)
(* rollback and restore).                                                  *)
THEOREM SingleAuthority == Spec => []LifecycleAuthority
  BY Invariance, IInvImplies, PTL

(* No owner is in use under two IDs, so that delayed work of one session   *)
(* cannot pass the owner check of another.                                 *)
THEOREM OwnersDistinct == Spec => []TokensDistinct
  BY Invariance, IInvImplies, PTL

(* A pane is possessed by one session only, as row or in custody of a lease. *)
THEOREM PanesExclusive == Spec => []PaneExclusive
  BY Invariance, IInvImplies, PTL

(* No ID is live and dormant at once.                                      *)
THEOREM LiveOrDormant == Spec => []DormantNotLive
  BY Invariance, IInvImplies, PTL

(* allocate_incarnation never hands out an owner that was in use before,   *)
(* across removals, rollbacks and restarts of the daemon.                  *)
THEOREM TokensNeverReused == Spec => NoTokenReuse
<1>1. IInv /\ [Next]_vars => [/\ highWater' >= highWater
       /\ HeldTokens' \subseteq HeldTokens \cup ((highWater + 1)..highWater')]_vars
  BY NextKept, TokenStepImplies
<1>. QED BY <1>1, Invariance, PTL DEF Spec, NoTokenReuse

(* The action properties about stops and leases.                           *)
LEMMA StepOKImplies ==
  IInv /\ StepOK =>
     /\ \A id \in Ids :
          leases[id].phase = "Stopping" /\ leases'[id] = leases[id] =>
              /\ sessions'[id] \in {sessions[id], NoRow}
              /\ \A j \in Ids \ {id} : sessions'[j].pane = leases[id].pane =>
                                         sessions[j].pane = leases[id].pane
     /\ \A id \in Ids :
          Leased(id) /\ leases'[id] # NoLease =>
              /\ leases'[id].inc = leases[id].inc
              /\ leases'[id].phase = leases[id].phase
              /\ leases[id].target # 0 => /\ leases'[id].target = leases[id].target
                                          /\ leases'[id].prev = leases[id].prev
  BY DEF StepOK, StopFrozen, LeaseContinues, Leased

(* A claimed stop keeps its row and its pane to itself.                    *)
THEOREM StopsFreeze == Spec => StoppingFrozen
<1>1. IInv /\ [Next]_vars =>
        [\A id \in Ids :
          leases[id].phase = "Stopping" /\ leases'[id] = leases[id] =>
              /\ sessions'[id] \in {sessions[id], NoRow}
              /\ \A j \in Ids \ {id} : sessions'[j].pane = leases[id].pane =>
                                         sessions[j].pane = leases[id].pane]_vars
  BY NextKept, StepOKImplies
<1>. QED BY <1>1, Invariance, PTL DEF Spec, StoppingFrozen

(* A lease ends before another of the same ID begins, and a staged restart *)
(* keeps the incumbent it may have to restore.                             *)
THEOREM LeasesNotStolen == Spec => LeaseNeverStolen
<1>1. IInv /\ [Next]_vars =>
        [\A id \in Ids :
          Leased(id) /\ leases'[id] # NoLease =>
              /\ leases'[id].inc = leases[id].inc
              /\ leases'[id].phase = leases[id].phase
              /\ leases[id].target # 0 => /\ leases'[id].target = leases[id].target
                                          /\ leases'[id].prev = leases[id].prev]_vars
  BY NextKept, StepOKImplies
<1>. QED BY <1>1, Invariance, PTL DEF Spec, LeaseNeverStolen

-----------------------------------------------------------------------------
(* Backend pairs: no step but the end of a restart gives a pair a second   *)
(* owner.  Most sections change the row and the tombstone of one ID, and   *)
(* search the other IDs for the pair they are about to give to it          *)
(* (OneOwner); a rename moves the pairs of an ID; a restart of the daemon  *)
(* relies on what load_sessions checked.  The searches look at live rows   *)
(* and at parked tombstones only; PairsInv says that there is no pair      *)
(* anywhere else.                                                          *)

Bare == \A id \in Ids : dormant[id].inc = 0 => dormant[id].sid = None

PairsInv == IInv /\ Bare

HeldBy(i, sid) == sessions[i].sid = sid \/ dormant[i].sid = sid

(* No pair comes to be shared in a step *)
PairsApart == \A sid \in Sids : Shared(sid)' => Shared(sid)

(* ... or else a restart ends in it: the body of PairsStayDistinct *)
PairStep ==
    \A sid \in Sids :
        ~Shared(sid) /\ Shared(sid)' =>
            \E id \in Ids : leases[id].phase = "Restarting" /\ leases'[id] = NoLease

LEMMA SidTypes ==
    ASSUME PairsInv, NEW id \in Ids
    PROVE  /\ sessions[id].sid \in Sids \cup {None}
           /\ dormant[id].sid \in Sids \cup {None}
           /\ None \notin Sids
           /\ sessions[id].sid # None => Live(id)
           /\ dormant[id].sid # None => Parked(id)
           /\ sessions[id].sid = None \/ dormant[id].sid = None
<1>1. /\ sessions[id] \in Row /\ dormant[id] \in Tombstone
      /\ Good(sessions[id], dormant[id], leases[id])
    BY OfId DEF PairsInv
<1>2. sessions[id].inc = 0 => sessions[id].sid = None
    BY <1>1 DEF Good, NoRow
<1>3. dormant[id].inc = 0 => dormant[id].sid = None
    BY DEF PairsInv, Bare
<1>4. sessions[id].inc = 0 \/ dormant[id].inc = 0
    BY <1>1 DEF Good
<1>. QED BY <1>1, <1>2, <1>3, <1>4, NoneIsFresh DEF Row, Tombstone, Live, Parked

LEMMA NoPairs == NoRow.sid = None /\ NoTombstone.sid = None /\ NoTombstone.inc = 0
BY DEF NoRow, NoTombstone

(* A step that gives pairs to one ID, and may take the rows of others *)
LEMMA OneOwner ==
    ASSUME PairsInv, NEW id \in Ids,
           \A j \in Ids \ {id} : /\ sessions'[j] \in {sessions[j], NoRow}
                                 /\ dormant'[j] = dormant[j],
           sessions'[id].sid = None \/ dormant'[id].sid = None,
           \A sid \in Sids :
              sessions'[id].sid = sid \/ dormant'[id].sid = sid =>
                 HeldBy(id, sid) \/ \A j \in Ids \ {id} : ~HeldBy(j, sid),
           dormant'[id].inc = 0 => dormant'[id].sid = None
    PROVE  Bare' /\ PairsApart
<1>1. Bare'
    BY DEF PairsInv, Bare
<1>2. ASSUME NEW sid \in Sids, Shared(sid)' PROVE Shared(sid)
    <2>0. sid # None /\ NoRow.sid # sid
        BY NoPairs, NoneIsFresh
    <2>1. ASSUME NEW j \in Ids \ {id}, sessions'[j].sid = sid \/ dormant'[j].sid = sid
          PROVE  HeldBy(j, sid)
        BY <2>0, <2>1 DEF HeldBy
    <2>2. ~\E i \in Ids : sessions'[i].sid = sid /\ dormant'[i].sid = sid
        <3>1. ASSUME NEW i \in Ids \ {id}, sessions'[i].sid = sid, dormant'[i].sid = sid
              PROVE  FALSE
            <4>1. sessions[i].sid = sid /\ dormant[i].sid = sid
                BY <2>0, <3>1
            <4>. QED BY <2>0, <4>1, SidTypes
        <3>. QED BY <2>0, <3>1
    <2>3. PICK i \in Ids, j \in Ids : /\ i # j
                                      /\ sessions'[i].sid = sid \/ dormant'[i].sid = sid
                                      /\ sessions'[j].sid = sid \/ dormant'[j].sid = sid
        BY <1>2, <2>2 DEF Shared
    <2>4. HeldBy(i, sid) /\ HeldBy(j, sid)
        <3>1. CASE i = id
            BY <2>1, <2>3, <3>1
        <3>2. CASE j = id
            BY <2>1, <2>3, <3>2
        <3>3. CASE i # id /\ j # id
            BY <2>1, <2>3, <3>3
        <3>. QED BY <3>1, <3>2, <3>3
    <2>. QED BY <2>3, <2>4 DEF Shared, HeldBy
<1>. QED BY <1>1, <1>2 DEF PairsApart

(* What the searches for a pair have found *)
LEMMA PairsSearched ==
    ASSUME PairsInv, NEW id \in Ids, NEW sid \in Sids,
           ~BoundElsewhere(id, sid),
           ~DormantPairConflict(Ids, sid) \/ ~DormantPairConflict(Ids \ {id}, sid)
    PROVE  \A j \in Ids \ {id} : ~HeldBy(j, sid)
<1>1. sid # None
    BY NoneIsFresh
<1>2. ASSUME NEW j \in Ids \ {id}, HeldBy(j, sid) PROVE FALSE
    <2>1. \/ Live(j) /\ sessions[j].sid = sid
          \/ Parked(j) /\ dormant[j].sid = sid
        BY <1>1, <1>2, SidTypes DEF HeldBy
    <2>. QED BY <1>1, <2>1 DEF BoundElsewhere, DormantPairConflict
<1>. QED BY <1>2

(* The row of one ID changes, but not to a pair that others hold *)
LEMMA RowOnlyApart ==
    ASSUME PairsInv, NEW id \in Ids, NEW row,
           sessions' = [sessions EXCEPT ![id] = row], UNCHANGED dormant,
           \/ row.sid \in {None, sessions[id].sid}
           \/ /\ Live(id) /\ row.sid \in Sids
              /\ \A j \in Ids \ {id} : ~HeldBy(j, row.sid)
    PROVE  Bare' /\ PairsApart
<1>1. sessions'[id] = row /\ \A j \in Ids \ {id} : sessions'[j] = sessions[j]
    BY DEF PairsInv, IInv
<1>2. dormant[id].inc = 0 => dormant[id].sid = None
    BY DEF PairsInv, Bare
<1>3. row.sid = None \/ dormant[id].sid = None
    <2>1. CASE Live(id)
        BY <2>1, <1>2, OfId DEF PairsInv, Good, Live
    <2>. QED BY <2>1, SidTypes
<1>4. ASSUME NEW sid \in Sids, sessions'[id].sid = sid \/ dormant'[id].sid = sid
      PROVE  HeldBy(id, sid) \/ \A j \in Ids \ {id} : ~HeldBy(j, sid)
    BY <1>1, <1>4, NoneIsFresh DEF HeldBy
<1>. QED BY <1>1, <1>2, <1>3, <1>4, OneOwner

(* The row of one ID changes and its tombstone goes *)
LEMMA RowForTomb ==
    ASSUME PairsInv, NEW id \in Ids, NEW row,
           sessions'[id] = row,
           \A j \in Ids \ {id} : sessions'[j] \in {sessions[j], NoRow},
           dormant' = [dormant EXCEPT ![id] = NoTombstone],
           \/ row.sid \in {None, sessions[id].sid, dormant[id].sid}
           \/ row.sid \in Sids /\ \A j \in Ids \ {id} : ~HeldBy(j, row.sid)
    PROVE  Bare' /\ PairsApart
<1>1. dormant'[id] = NoTombstone /\ \A j \in Ids \ {id} : dormant'[j] = dormant[j]
    BY DEF PairsInv, IInv
<1>2. ASSUME NEW sid \in Sids, sessions'[id].sid = sid \/ dormant'[id].sid = sid
      PROVE  HeldBy(id, sid) \/ \A j \in Ids \ {id} : ~HeldBy(j, sid)
    BY <1>1, <1>2, NoPairs, NoneIsFresh DEF HeldBy
<1>. QED BY <1>1, <1>2, NoPairs, OneOwner

LEMMA PairsStill == ASSUME PairsInv, UNCHANGED <<sessions, dormant>> PROVE Bare' /\ PairsApart
BY DEF PairsInv, Bare, PairsApart, Shared

-----------------------------------------------------------------------------
(* Leases. *)

LEMMA RegisterApart ==
    ASSUME PairsInv, NEW id \in Ids, NEW pane, NEW m, NEW tok, m.sid \in Sids \cup {None},
           m \in Row, RegisterWithOwner(id, pane, m, tok)
    PROVE  Bare' /\ PairsApart
<1>. DEFINE row  == [m EXCEPT !.inc     = IF tok = 0 THEN NextInc ELSE tok,
                              !.pane    = pane,
                              !.backend = IF sessions[id].sid # None THEN TRUE ELSE m.backend,
                              !.sid     = IF Live(id) THEN sessions[id].sid ELSE m.sid]
            gone == {j \in Ids \ {id} : pane # None /\ sessions[j].pane = pane}
<1>1. \/ /\ sessions' = [j \in Ids |-> IF j = id THEN row
                                       ELSE IF j \in gone THEN NoRow ELSE sessions[j]]
         /\ dormant' = [dormant EXCEPT ![id] = NoTombstone]
      \/ UNCHANGED <<sessions, dormant>>
    BY DEF RegisterWithOwner
<1>2. row.sid = IF Live(id) THEN sessions[id].sid ELSE m.sid
    BY DEF Row
<1>3. ~BoundElsewhere(id, row.sid) /\ ~DormantPairConflict(Ids, m.sid)
    BY DEF RegisterWithOwner
<1>. HIDE DEF row, gone
<1>4. CASE UNCHANGED <<sessions, dormant>>
    BY <1>4, PairsStill
<1>5. CASE /\ sessions' = [j \in Ids |-> IF j = id THEN row
                                         ELSE IF j \in gone THEN NoRow ELSE sessions[j]]
           /\ dormant' = [dormant EXCEPT ![id] = NoTombstone]
    <2>1. /\ sessions'[id] = row
          /\ \A j \in Ids \ {id} : sessions'[j] \in {sessions[j], NoRow}
        BY <1>5
    <2>2. \/ row.sid \in {None, sessions[id].sid, dormant[id].sid}
          \/ row.sid \in Sids /\ \A j \in Ids \ {id} : ~HeldBy(j, row.sid)
        BY <1>2, <1>3, PairsSearched
    <2>. QED BY <1>5, <2>1, <2>2, RowForTomb
<1>. QED BY <1>1, <1>4, <1>5

LEMMA LeaseStepApart ==
    ASSUME PairsInv, NEW id \in Ids, LeaseStep(id)
    PROVE  Bare' /\ PairsApart
<1>0. sessions[id] \in Row
    BY OfId DEF PairsInv
<1>1. ASSUME NEW tok, NEW dir \in Dirs, NEW cred \in {0, tok}, tok \in Tokens,
             CommitReservedStart(id, tok, dir, cred)
      PROVE  Bare' /\ PairsApart
    <2>. DEFINE m == [NoRow EXCEPT !.backend = TRUE, !.cred = cred, !.dir = dir]
    <2>1. RegisterWithOwner(id, leases[id].pane, m, tok)
        BY <1>1 DEF CommitReservedStart
    <2>2. cred \in Nat
        BY <1>1 DEF Tokens
    <2>3. m \in Row /\ m.sid = None
        BY <2>2, NoRowType DEF Row, NoRow
    <2>. HIDE DEF m
    <2>. QED BY <2>1, <2>3, RegisterApart
<1>2. ASSUME NEW tok, NEW sid \in Sids \cup {None}, FinalizeReservedStart(id, tok, sid)
      PROVE  Bare' /\ PairsApart
    <2>. DEFINE row == Refreshed(sessions[id], sessions[id].pane, sid, sessions[id].dir, FALSE)
    <2>1. row.sid = IF sessions[id].sid # None THEN sessions[id].sid ELSE sid
        BY <1>0 DEF Refreshed, Row
    <2>2. sessions' = [sessions EXCEPT ![id] = row] /\ UNCHANGED dormant
        BY <1>2 DEF FinalizeReservedStart
    <2>3. sid # None => FreshSid(sid)
        BY <1>2 DEF FinalizeReservedStart
    <2>4. Live(id)
        BY <1>2, OfId DEF FinalizeReservedStart, Holds, Leased, Live, PairsInv
    <2>. HIDE DEF row
    <2>5. \/ row.sid \in {None, sessions[id].sid}
          \/ row.sid \in Sids /\ \A j \in Ids \ {id} : ~HeldBy(j, row.sid)
        BY <2>1, <2>3 DEF FreshSid, HeldBy
    <2>. QED BY <2>2, <2>4, <2>5, RowOnlyApart
<1>3. ASSUME NEW tok, NEW pane, RollbackReservedStart(id, tok, pane) \/ CompleteOwnedStop(id, tok, pane)
      PROVE  Bare' /\ PairsApart
    BY <1>3, NoPairs, RowOnlyApart DEF RollbackReservedStart, CompleteOwnedStop
<1>4. ASSUME UNCHANGED <<sessions, dormant>> PROVE Bare' /\ PairsApart
    BY <1>4, PairsStill
<1>. QED BY <1>1, <1>2, <1>3, <1>4 DEF LeaseStep, ReserveStart, RecordInertStartPane,
         RecordProjectDirClaim, AbortLifecycle, ClaimExistingStart, ClaimExistingStop

LEMMA RestartStepApart ==
    ASSUME PairsInv, NEW id \in Ids, RestartStep(id)
    PROVE  Bare' /\ PairStep
<1>0. /\ sessions[id] \in Row /\ leases[id] \in Lease
      /\ Good(sessions[id], dormant[id], leases[id])
    BY OfId DEF PairsInv
<1>1. PairsApart => PairStep
    BY DEF PairsApart, PairStep
<1>2. ASSUME NEW tok, NEW renew, NEW cred, StageRestartLaunch(id, tok, renew, cred)
      PROVE  Bare' /\ PairsApart
    <2>. DEFINE row == [sessions[id] EXCEPT
                          !.inc     = NextInc,
                          !.backend = TRUE,
                          !.sid     = IF renew THEN None ELSE @,
                          !.cred    = IF ~renew THEN @ ELSE IF cred THEN NextInc ELSE 0]
    <2>1. row.sid \in {None, sessions[id].sid}
        BY <1>0 DEF Row
    <2>2. sessions' = [sessions EXCEPT ![id] = row] /\ UNCHANGED dormant
        BY <1>2 DEF StageRestartLaunch
    <2>. HIDE DEF row
    <2>. QED BY <2>1, <2>2, RowOnlyApart
<1>3. ASSUME NEW tok, NEW target, NEW sid,
             \/ RecordRestartBackendClaim(id, tok, target, sid)
             \/ ClearRestartBackendClaim(id, tok, target, sid)
      PROVE  Bare' /\ PairsApart
    BY <1>3, PairsStill DEF RecordRestartBackendClaim, ClearRestartBackendClaim
<1>4. ASSUME NEW tok, NEW target, NEW sid, NEW dir,
             \/ CompleteRestartLaunch(id, tok, target, sid, dir)
             \/ RollbackRestartLaunch(id, tok, target)
      PROVE  Bare' /\ PairStep
    <2>1. /\ leases[id].phase = "Restarting" /\ UNCHANGED dormant
          /\ leases' = [leases EXCEPT ![id] = NoLease]
        BY <1>4 DEF CompleteRestartLaunch, MayComplete, RollbackRestartLaunch, StagedFor, Holds
    <2>2. leases'[id] = NoLease
        BY <2>1 DEF PairsInv, IInv
    <2>. QED BY <2>1, <2>2 DEF PairStep, PairsInv, Bare
<1>. QED BY <1>1, <1>2, <1>3, <1>4 DEF RestartStep

-----------------------------------------------------------------------------
(* Registrations, dormancy and bindings. *)

LEMMA MetaPairs ==
    ASSUME NEW m \in Metas
    PROVE  m \in Row /\ m.sid \in Sids \cup {None}
<1>1. m \in Row
    BY MetasTyped
<1>. QED BY <1>1 DEF Row

LEMMA ClaimApart ==
    ASSUME PairsInv, NEW id \in Ids, NEW sid \in Sids, NEW dir, NEW pane, NEW row,
           row.sid = sid,
           sessions' = [sessions EXCEPT ![id] = row],
           dormant' = [dormant EXCEPT ![id] = NoTombstone],
           \/ sid = dormant[id].sid
           \/ \A j \in Ids \ {id} : ~HeldBy(j, sid)
    PROVE  Bare' /\ PairsApart
<1>1. sessions'[id] = row /\ \A j \in Ids \ {id} : sessions'[j] = sessions[j]
    BY DEF PairsInv, IInv
<1>. QED BY <1>1, RowForTomb

LEMMA RenameApart ==
    ASSUME PairsInv, NEW old \in Ids, NEW new \in Ids, Rename(old, new)
    PROVE  Bare' /\ PairsApart
<1>1. /\ sessions'[new] = sessions[old] /\ sessions'[old] = NoRow
      /\ \A j \in Ids \ {old, new} : sessions'[j] = sessions[j]
      /\ dormant'[new] = NoTombstone
      /\ \A j \in Ids \ {new} : dormant'[j] = dormant[j]
      /\ old # new
    BY DEF Rename, PairsInv, IInv
<1>2. Bare'
    BY <1>1, NoPairs DEF PairsInv, Bare
<1>3. dormant[old].sid = None
    BY OfId DEF Rename, Live, PairsInv, Bare, Good
<1>4. ASSUME NEW sid \in Sids, Shared(sid)' PROVE Shared(sid)
    <2>0. sid # None /\ NoRow.sid # sid /\ NoTombstone.sid # sid
        BY NoPairs, NoneIsFresh
    <2>. DEFINE From(j) == IF j = new THEN old ELSE j
    <2>1. ASSUME NEW j \in Ids, sessions'[j].sid = sid \/ dormant'[j].sid = sid
          PROVE  HeldBy(From(j), sid) /\ j # old
        <3>1. CASE j = new
            BY <1>1, <2>0, <2>1, <3>1 DEF HeldBy
        <3>2. CASE j = old
            BY <1>1, <1>3, <2>0, <2>1, <3>2
        <3>3. CASE j \notin {old, new}
            BY <1>1, <2>0, <2>1, <3>3 DEF HeldBy
        <3>. QED BY <3>1, <3>2, <3>3
    <2>2. ~\E i \in Ids : sessions'[i].sid = sid /\ dormant'[i].sid = sid
        <3>1. ASSUME NEW i \in Ids, sessions'[i].sid = sid, dormant'[i].sid = sid PROVE FALSE
            <4>1. i # new /\ i # old
                BY <1>1, <2>0, <3>1
            <4>2. sessions[i].sid = sid /\ dormant[i].sid = sid
                BY <1>1, <3>1, <4>1
            <4>. QED BY <2>0, <4>2, SidTypes
        <3>. QED BY <3>1
    <2>3. PICK i \in Ids, j \in Ids : /\ i # j
                                      /\ sessions'[i].sid = sid \/ dormant'[i].sid = sid
                                      /\ sessions'[j].sid = sid \/ dormant'[j].sid = sid
        BY <1>4, <2>2 DEF Shared
    <2>4. /\ HeldBy(From(i), sid) /\ HeldBy(From(j), sid)
          /\ From(i) # From(j) /\ From(i) \in Ids /\ From(j) \in Ids
        BY <2>1, <2>3
    <2>. QED BY <2>4 DEF Shared, HeldBy
<1>. QED BY <1>2, <1>4 DEF PairsApart

LEMMA RegistrationStepApart ==
    ASSUME PairsInv, NEW id \in Ids, RegistrationStep(id)
    PROVE  Bare' /\ PairsApart
<1>0. sessions[id] \in Row
    BY OfId DEF PairsInv
<1>1. ASSUME NEW m \in Metas, NEW pane, RegisterWithOwner(id, pane, m, 0)
      PROVE  Bare' /\ PairsApart
    BY <1>1, MetaPairs, RegisterApart
<1>2. ASSUME NEW tok, NEW old, NEW new, ReclaimMissingBackendPane(id, tok, old, new)
      PROVE  Bare' /\ PairsApart
    <2>1. RegisterWithOwner(id, new, sessions[id], 0)
        BY <1>2 DEF ReclaimMissingBackendPane
    <2>. QED BY <1>0, <2>1, SidTypes, RegisterApart
<1>3. ASSUME NEW pane, NEW sid \in Sids, NEW dir \in Dirs, ClaimLocalSession(id, pane, sid, dir)
      PROVE  Bare' /\ PairsApart
    <2>. DEFINE row == [HookMeta(sid, dir) EXCEPT !.inc = NextInc, !.pane = pane]
    <2>1. row.sid = sid
        BY DEF HookMeta, NoRow
    <2>2. sessions' = [sessions EXCEPT ![id] = row] /\ dormant' = [dormant EXCEPT ![id] = NoTombstone]
        BY <1>3 DEF ClaimLocalSession
    <2>3. ~LiveResourceConflict(pane, sid) /\ ~DormantPairConflict(Ids, sid)
        BY <1>3 DEF ClaimLocalSession
    <2>4. ~BoundElsewhere(id, sid)
        BY <2>3 DEF LiveResourceConflict, BoundElsewhere
    <2>. HIDE DEF row
    <2>5. \A j \in Ids \ {id} : ~HeldBy(j, sid)
        BY <2>3, <2>4, PairsSearched
    <2>. QED BY <2>1, <2>2, <2>5, ClaimApart
<1>4. ASSUME NEW new \in Ids, Rename(id, new) PROVE Bare' /\ PairsApart
    BY <1>4, RenameApart
<1>5. ASSUME NEW dir, UpdateMetadata(id, dir) PROVE Bare' /\ PairsApart
    <2>1. [sessions[id] EXCEPT !.dir = dir].sid = sessions[id].sid
        BY <1>0 DEF Row
    <2>. QED BY <1>5, <2>1, RowOnlyApart DEF UpdateMetadata
<1>. QED BY <1>1, <1>2, <1>3, <1>4, <1>5, MetasTyped
         DEF RegistrationStep, Register, RegisterIfPaneUnbound

LEMMA RemoveApart ==
    ASSUME PairsInv, NEW id \in Ids, Remove(id)
    PROVE  Bare' /\ PairsApart
<1>1. CASE sessions' = [sessions EXCEPT ![id] = NoRow] /\ UNCHANGED dormant
    BY <1>1, NoPairs, RowOnlyApart
<1>2. CASE dormant' = [dormant EXCEPT ![id] = NoTombstone] /\ UNCHANGED sessions
    BY <1>2, RowForTomb
<1>. QED BY <1>1, <1>2 DEF Remove

LEMMA DormancyStepApart ==
    ASSUME PairsInv, NEW id \in Ids, DormancyStep(id)
    PROVE  Bare' /\ PairsApart
<1>0. /\ sessions[id] \in Row /\ dormant[id] \in Tombstone
      /\ dormant = [j \in Ids |-> dormant[j]]
      /\ sessions = [j \in Ids |-> sessions[j]]
    BY OfId DEF PairsInv, IInv
<1>1. ASSUME NEW tok, NEW pane, DormantOwned(id, tok, pane) PROVE Bare' /\ PairsApart
    <2>1. /\ sessions' = [sessions EXCEPT ![id] = NoRow]
          /\ \/ UNCHANGED dormant
             \/ /\ dormant' = [dormant EXCEPT ![id] = TombstoneOf(sessions[id])]
                /\ Recoverable(sessions[id])
          /\ Live(id)
        BY <1>1 DEF DormantOwned
    <2>2. CASE UNCHANGED dormant
        BY <2>1, <2>2, NoPairs, RowOnlyApart
    <2>3. CASE /\ dormant' = [dormant EXCEPT ![id] = TombstoneOf(sessions[id])]
               /\ Recoverable(sessions[id])
        <3>1. /\ sessions'[id] = NoRow
              /\ dormant'[id].sid = sessions[id].sid /\ dormant'[id].inc = sessions[id].inc
              /\ \A j \in Ids \ {id} : dormant'[j] = dormant[j] /\ sessions'[j] = sessions[j]
            BY <1>0, <2>1, <2>3 DEF TombstoneOf
        <3>2. ASSUME NEW sid \in Sids, sessions'[id].sid = sid \/ dormant'[id].sid = sid
              PROVE  HeldBy(id, sid)
            BY <3>1, <3>2, NoPairs, NoneIsFresh DEF HeldBy
        <3>3. dormant'[id].inc # 0
            BY <2>1, <3>1 DEF Live
        <3>. QED BY <3>1, <3>2, <3>3, NoPairs, OneOwner
    <2>. QED BY <2>1, <2>2, <2>3
<1>2. ASSUME NEW tok, NEW m \in HookMetas, ReplaceReusedPaneOwner(id, tok, m)
      PROVE  Bare' /\ PairsApart
    <2>. DEFINE row == [m EXCEPT !.inc = NextInc, !.pane = sessions[id].pane]
    <2>0. m.sid \in Sids
      <3>1. PICK sid \in Sids, dir \in Dirs : m = HookMeta(sid, dir)
          BY DEF HookMetas
      <3>2. HookMeta(sid, dir).sid = sid
          BY DEF HookMeta, NoRow
      <3>. QED BY <3>1, <3>2
    <2>1. m.sid \in Sids /\ row.sid = m.sid
        BY <2>0, MetasTyped, MetaPairs DEF Row
    <2>2. sessions' = [sessions EXCEPT ![id] = row] /\ dormant' = [dormant EXCEPT ![id] = NoTombstone]
        BY <1>2 DEF ReplaceReusedPaneOwner
    <2>3. ~BoundElsewhere(id, m.sid) /\ ~DormantPairConflict(Ids \ {id}, m.sid)
        BY <1>2 DEF ReplaceReusedPaneOwner
    <2>. HIDE DEF row
    <2>. QED BY <2>1, <2>2, <2>3, PairsSearched, ClaimApart
<1>3. ASSUME NEW tok, NEW pane, RecoverDormant(id, tok, pane)
      PROVE  Bare' /\ PairsApart
    <2>. DEFINE sid == dormant[id].sid
                row == [HookMeta(sid, dormant[id].dir) EXCEPT !.inc = NextInc, !.pane = pane]
    <2>1. row.sid = sid
        BY DEF HookMeta, NoRow
    <2>2. sessions' = [sessions EXCEPT ![id] = row] /\ dormant' = [dormant EXCEPT ![id] = NoTombstone]
        BY <1>3 DEF RecoverDormant
    <2>. HIDE DEF row
    <2>3. /\ sessions'[id] = row
          /\ \A j \in Ids \ {id} : sessions'[j] = sessions[j]
        BY <1>0, <2>2
    <2>. QED BY <2>1, <2>2, <2>3, RowForTomb
<1>4. ASSUME Remove(id) PROVE Bare' /\ PairsApart
    BY <1>4, RemoveApart
<1>. QED BY <1>1, <1>2, <1>3, <1>4 DEF DormancyStep, RemoveIfStale

LEMMA BindingStepApart ==
    ASSUME PairsInv, NEW id \in Ids, BindingStep(id)
    PROVE  Bare' /\ PairsApart
<1>0. sessions[id] \in Row
    BY OfId DEF PairsInv
<1>1. ASSUME NEW sid \in Sids, Live(id), ~BoundElsewhere(id, sid),
             ~DormantPairConflict(Ids, sid), SetPair(id, sid)
      PROVE  Bare' /\ PairsApart
    <2>. DEFINE row == [sessions[id] EXCEPT !.backend = TRUE, !.sid = sid, !.cred = 0]
    <2>1. row.sid = sid
        BY <1>0 DEF Row
    <2>2. sessions' = [sessions EXCEPT ![id] = row] /\ UNCHANGED dormant
        BY <1>1 DEF SetPair
    <2>. HIDE DEF row
    <2>. QED BY <1>1, <2>1, <2>2, PairsSearched, RowOnlyApart
<1>. QED BY <1>1 DEF BindingStep, BindBackendIdentity, AdoptBackend, RecoverBackendIdentity

-----------------------------------------------------------------------------
(* A restart of the daemon: whoever has a pair afterwards has a claim on   *)
(* it in the file, and load_sessions has checked that the claims agree.    *)

Incumbent(id) == IF /\ leases[id].phase = "Restarting"
                    /\ leases[id].prev.inc # 0
                    /\ Live(id) /\ sessions[id].inc = leases[id].target
                 THEN leases[id].prev ELSE sessions[id]

KeptRow(id) == IF Leased(id) /\ AbandonedLeaseOwns(leases[id], Incumbent(id))
            THEN NoRow
            ELSE [Incumbent(id) EXCEPT !.cred = 0, !.scanned = FALSE]

LEMMA RestoredRows ==
    ASSUME NEW gone, Restore(gone)
    PROVE  /\ Loadable
           /\ sessions' = [id \in Ids |-> IF id \in gone THEN NoRow ELSE KeptRow(id)]
           /\ dormant' = [id \in Ids |-> IF id \in gone /\ Recoverable(KeptRow(id))
                                         THEN TombstoneOf(KeptRow(id)) ELSE dormant[id]]
BY Zenon DEF Restore, KeptRow, Incumbent

LEMMA KeptHasClaim ==
    ASSUME PairsInv, NEW id \in Ids, KeptRow(id).sid # None
    PROVE  /\ [sid |-> KeptRow(id).sid, id |-> id, inc |-> KeptRow(id).inc] \in PairClaims
           /\ Live(id) /\ KeptRow(id).inc # 0
<1>1. /\ sessions[id] \in Row /\ leases[id].prev \in Row
      /\ Good(sessions[id], dormant[id], leases[id])
    BY OfId DEF PairsInv, Lease
<1>2. Incumbent(id) \in Row
    BY <1>1 DEF Incumbent
<1>3. KeptRow(id).sid = Incumbent(id).sid /\ KeptRow(id).inc = Incumbent(id).inc
    BY <1>2, NoPairs DEF KeptRow, Row
<1>4. CASE Incumbent(id) = sessions[id]
    <2>1. Live(id)
        BY <1>3, <1>4, SidTypes
    <2>. QED BY <1>3, <1>4, <2>1 DEF PairClaims, Live
<1>5. CASE Incumbent(id) = leases[id].prev /\ leases[id].prev.inc # 0 /\ Live(id)
    BY <1>3, <1>5 DEF PairClaims
<1>. QED BY <1>4, <1>5 DEF Incumbent

LEMMA RestoreApart ==
    ASSUME PairsInv, NEW gone, Restore(gone)
    PROVE  Bare' /\ PairsApart
<1>1. /\ Loadable
      /\ \A id \in Ids : /\ sessions'[id] = IF id \in gone THEN NoRow ELSE KeptRow(id)
                         /\ dormant'[id] = IF id \in gone /\ Recoverable(KeptRow(id))
                                           THEN TombstoneOf(KeptRow(id)) ELSE dormant[id]
    BY RestoredRows
<1>2. ASSUME NEW id \in Ids, id \in gone, Recoverable(KeptRow(id))
      PROVE  /\ dormant'[id].sid = KeptRow(id).sid /\ dormant'[id].inc = KeptRow(id).inc
             /\ KeptRow(id).sid # None
    <2>. DEFINE row == KeptRow(id)
    <2>1. Recoverable(row) /\ dormant'[id] = TombstoneOf(row)
        BY <1>1, <1>2
    <2>. HIDE DEF row
    <2>2. /\ TombstoneOf(row).sid = row.sid /\ TombstoneOf(row).inc = row.inc
          /\ row.sid # None
        BY <2>1 DEF TombstoneOf, Recoverable
    <2>. QED BY <2>1, <2>2 DEF row
<1>3. Bare'
    BY <1>1, <1>2, KeptHasClaim DEF PairsInv, Bare
<1>4. ASSUME NEW id \in Ids, NEW sid \in Sids, sessions'[id].sid = sid \/ dormant'[id].sid = sid
      PROVE  \E inc : [sid |-> sid, id |-> id, inc |-> inc] \in PairClaims
    <2>0. sid # None /\ NoRow.sid # sid
        BY NoPairs, NoneIsFresh
    <2>1. CASE KeptRow(id).sid = sid
        BY <2>0, <2>1, KeptHasClaim
    <2>2. CASE dormant[id].sid = sid
        <3>1. Parked(id)
            BY <2>0, <2>2, SidTypes
        <3>. QED BY <2>2, <3>1 DEF PairClaims
    <2>. QED BY <1>1, <1>2, <1>4, <2>0, <2>1, <2>2
<1>5. ASSUME NEW id \in Ids, NEW sid \in Sids, sessions'[id].sid = sid, dormant'[id].sid = sid
      PROVE  FALSE
    <2>0. sid # None /\ NoRow.sid # sid
        BY NoPairs, NoneIsFresh
    <2>1. id \notin gone /\ KeptRow(id).sid = sid /\ dormant[id].sid = sid
        BY <1>1, <1>5, <2>0
    <2>2. Live(id) /\ Parked(id)
        BY <2>0, <2>1, KeptHasClaim, SidTypes
    <2>. QED BY <1>1, <2>2 DEF Loadable
<1>6. ASSUME NEW sid \in Sids PROVE ~Shared(sid)'
    <2>1. ASSUME NEW i \in Ids, NEW j \in Ids, i # j,
                 sessions'[i].sid = sid \/ dormant'[i].sid = sid,
                 sessions'[j].sid = sid \/ dormant'[j].sid = sid
          PROVE  FALSE
        <3>1. PICK n : [sid |-> sid, id |-> i, inc |-> n] \in PairClaims
            BY <1>4, <2>1
        <3>2. PICK k : [sid |-> sid, id |-> j, inc |-> k] \in PairClaims
            BY <1>4, <2>1
        <3>3. [sid |-> sid, id |-> i, inc |-> n] # [sid |-> sid, id |-> j, inc |-> k]
            BY <2>1
        <3>4. sid # None
            BY NoneIsFresh
        <3>. QED BY <1>1, <3>1, <3>2, <3>3, <3>4 DEF Loadable
    <2>. QED BY <1>5, <2>1 DEF Shared
<1>. QED BY <1>3, <1>6 DEF PairsApart

-----------------------------------------------------------------------------
LEMMA PairsKept == PairsInv /\ [Next]_vars => PairsInv' /\ [PairStep]_vars
<1>. SUFFICES ASSUME PairsInv, [Next]_vars
              PROVE  PairsInv' /\ [PairStep]_vars
    OBVIOUS
<1>1. IInv'
    BY NextKept DEF PairsInv
<1>2. PairsApart => PairStep
    BY DEF PairsApart, PairStep
<1>3. CASE UNCHANGED vars
    BY <1>1, <1>3, PairsStill DEF PairsInv, vars
<1>4. ASSUME NEW id \in Ids,
             \/ LeaseStep(id)
             \/ RestartStep(id)
             \/ RegistrationStep(id)
             \/ DormancyStep(id)
             \/ BindingStep(id)
      PROVE  Bare' /\ PairStep
    BY <1>2, <1>4, LeaseStepApart, RestartStepApart, RegistrationStepApart, DormancyStepApart,
       BindingStepApart
<1>5. ASSUME NEW gone \in SUBSET Ids, Restore(gone) PROVE Bare' /\ PairStep
    BY <1>2, <1>5, RestoreApart
<1>. QED BY <1>1, <1>3, <1>4, <1>5 DEF PairsInv, Next

LEMMA PairsInit == Init => PairsInv
<1>. SUFFICES ASSUME Init PROVE Bare
    BY InitEstablishes DEF PairsInv
<1>. QED BY NoPairs DEF Init, Bare

(* No registration, claim, recovery, adoption, binding, rename, stop or    *)
(* restart of the daemon gives a pair a second owner; only the end of a    *)
(* restart can, whose completion takes the session that the backend        *)
(* reports and whose rollback takes the pair of the incumbent unsearched.  *)
THEOREM PairsDistinct == Spec => PairsStayDistinct
<1>1. [PairStep]_vars <=>
        [\A sid \in Sids :
          ~Shared(sid) /\ Shared(sid)' =>
              \E id \in Ids : /\ leases[id].phase = "Restarting"
                              /\ leases'[id] = NoLease]_vars
    BY DEF PairStep
<1>. QED BY <1>1, PairsInit, PairsKept, PTL DEF Spec, PairsStayDistinct
=============================================================================
