----------------------------- MODULE ContextProofs -----------------------------
(***************************************************************************)
(* Proofs about ActiveContext, for every limit and every bound: its types, *)
(* that a session is told once, and that it implements ActiveMeter.        *)
(***************************************************************************)
EXTENDS ActiveContext, TLAPS

Rows == Row \cup {NoRow}

(* Where rows are: in office, kept for a rollback, parked, and on disk *)
Places ==
    /\ row \in Rows /\ kept \in Rows /\ tomb \in Rows
    /\ disk \in [row : Rows, kept : Rows, tomb : Rows]
    /\ high \in 0..MaxInc
    /\ now \in 0..MaxTime

(* Facts about the leases and what they keep *)
Leases ==
    /\ lease \in {"none", "claimed", "staged", "fresh"}
    /\ kept # NoRow <=> lease \in {"staged", "fresh"}
    /\ lease # "none" => row # NoRow
    /\ row = NoRow \/ tomb = NoRow
    /\ disk.row = NoRow \/ disk.tomb = NoRow
    /\ disk.kept = NoRow \/ disk.tomb = NoRow

NotAhead(r, n) == r # NoRow => r.seg <= n
Shut(r)        == r # NoRow => r.seg = Closed

Segments ==
    /\ NotAhead(row, now) /\ NotAhead(kept, now)
    /\ NotAhead(disk.row, now) /\ NotAhead(disk.kept, now)
    /\ Shut(tomb) /\ Shut(disk.tomb)

Others ==
    /\ box \in Seq({"Active", "Stopped"})
    /\ tasks \in [Tasks -> Task \cup {NoTask}]
    /\ turn \in Nat
    /\ box # <<>> => row # NoRow

(* What has been told was told to an owner of the past or to one whose     *)
(* boundary is claimed and whose segment is closed                         *)
Heard(r) == r # NoRow /\ <<r.inc, turn>> \in told => r.claimed /\ r.seg = Closed

Notices ==
    /\ told \subseteq (0..high) \X (0..turn)
    /\ Heard(row) /\ Heard(kept)
    /\ row # NoRow => row.inc <= high
    /\ kept # NoRow => kept.inc <= high
    /\ row # NoRow /\ kept # NoRow => kept.inc < row.inc
    /\ disk.row # NoRow => disk.row.inc <= high
    /\ disk.kept # NoRow => disk.kept.inc <= high
    /\ ~ again

(* Contexts begin with owners, and only a fresh restart stages a session   *)
(* that is provisional                                                     *)
Contexts ==
    /\ contexts \in 0..high
    /\ lease = "fresh" => row # NoRow /\ row.prov

IInv == Places /\ Leases /\ Segments /\ Others /\ Notices
--------------------------------------------------------------------------------
(* Rows and the operators on them *)

LEMMA RowFacts ==
    /\ NoRow \notin Row
    /\ \A r \in Row : /\ r.inc \in Incs /\ r.acc \in Nat /\ r.seg \in Nat \cup {Closed}
                      /\ r.due \in BOOLEAN /\ r.prov \in BOOLEAN /\ r.gen \in Nat
                      /\ r.stopped \in BOOLEAN /\ r.claimed \in BOOLEAN
                      /\ r.ctx \in Nat
<1>1. NoRow \notin Row
  <2>1. SUFFICES ASSUME NoRow \in Row PROVE FALSE
    OBVIOUS
  <2>2. NoRow.inc \in 1..MaxInc
    BY <2>1 DEF Row, Incs
  <2>3. NoRow.inc = 0
    BY DEF NoRow
  <2>4. QED
    BY <2>2, <2>3, ContextAssumption
<1>2. QED
  BY <1>1 DEF Row

(* Forgetting the boundary changes nothing else *)
LEMMA UnboundedFacts ==
    ASSUME NEW r \in Rows
    PROVE  /\ Unbounded(r) \in Rows
           /\ r = NoRow <=> Unbounded(r) = NoRow
           /\ r # NoRow => /\ Unbounded(r).inc = r.inc
                           /\ Unbounded(r).acc = r.acc
                           /\ Unbounded(r).seg = r.seg
                           /\ Unbounded(r).ctx = r.ctx
<1>1. CASE r = NoRow
  BY <1>1 DEF Rows, Unbounded
<1>2. CASE r \in Row
  <2> DEFINE u == [r EXCEPT !.gen = 0, !.stopped = FALSE, !.claimed = FALSE]
  <2>1. u \in Row /\ u.inc = r.inc /\ u.acc = r.acc /\ u.seg = r.seg /\ u.ctx = r.ctx
    BY <1>2 DEF Row
  <2>2. r # NoRow /\ u # NoRow
    BY <1>2, <2>1, RowFacts
  <2>3. Unbounded(r) = u
    BY <2>2 DEF Unbounded
  <2> HIDE DEF u
  <2>4. QED
    BY <2>1, <2>2, <2>3 DEF Rows
<1>3. QED
  BY <1>1, <1>2 DEF Rows

LEMMA CloseFacts ==
    ASSUME NEW r \in Row, now \in Nat, r.seg <= now
    PROVE  /\ Close(r) \in Row
           /\ Close(r).seg = Closed
           /\ Close(r).inc = r.inc /\ Close(r).ctx = r.ctx
           /\ Close(r).claimed = r.claimed /\ Close(r).prov = r.prov
           /\ Close(r).acc = r.acc + (IF r.seg = Closed THEN 0 ELSE now - r.seg)
<1> DEFINE acc == IF r.seg = Closed THEN r.acc ELSE r.acc + (now - r.seg)
<1> DEFINE due == r.due \/ acc >= Limit
<1>1. acc \in Nat
  BY RowFacts DEF Closed
<1>2. due \in BOOLEAN
  OBVIOUS
<1>3. Close(r) = [r EXCEPT !.acc = acc, !.seg = Closed, !.due = due]
  BY DEF Close
<1>4. acc = r.acc + (IF r.seg = Closed THEN 0 ELSE now - r.seg)
  BY RowFacts DEF Closed
<1> HIDE DEF acc, due
<1>5. QED
  BY <1>1, <1>2, <1>3, <1>4 DEF Row

LEMMA NewRowFacts ==
    ASSUME NEW i \in Incs, NEW c \in Nat
    PROVE  /\ NewRow(i, c) \in Row
           /\ NewRow(i, c).inc = i /\ NewRow(i, c).seg = Closed
           /\ NewRow(i, c).acc = 0 /\ NewRow(i, c).ctx = c
BY DEF Row, NewRow, Closed

(* The row of a fresh restart *)
LEMMA FreshRowFacts ==
    ASSUME NEW i \in Incs, NEW c \in Nat
    PROVE  /\ [NewRow(i, c) EXCEPT !.prov = TRUE] \in Row
           /\ [NewRow(i, c) EXCEPT !.prov = TRUE].inc = i
           /\ [NewRow(i, c) EXCEPT !.prov = TRUE].seg = Closed
           /\ [NewRow(i, c) EXCEPT !.prov = TRUE].acc = 0
           /\ [NewRow(i, c) EXCEPT !.prov = TRUE].ctx = c
           /\ [NewRow(i, c) EXCEPT !.prov = TRUE].prov
BY DEF Row, NewRow, Closed

LEMMA HighFacts ==
    ASSUME high \in 0..MaxInc
    PROVE  /\ high \in Nat
           /\ high < MaxInc => high + 1 \in 0..MaxInc /\ high + 1 \in Incs
BY ContextAssumption DEF Incs

(* What is written of a row is the row without its boundary *)
Image(d, r) ==
    /\ d = NoRow <=> r = NoRow
    /\ r # NoRow => d.inc = r.inc /\ d.acc = r.acc /\ d.seg = r.seg /\ d.ctx = r.ctx

LEMMA SaveFacts ==
    ASSUME NEW r \in Rows, NEW k \in Rows, NEW t \in Rows, Save(r, k, t)
    PROVE  /\ disk' \in [row : Rows, kept : Rows, tomb : Rows]
           /\ Image(disk'.row, r) /\ Image(disk'.kept, k) /\ disk'.tomb = t
<1>1. /\ Unbounded(r) \in Rows /\ Unbounded(k) \in Rows
      /\ Image(Unbounded(r), r) /\ Image(Unbounded(k), k)
  BY UnboundedFacts DEF Image
<1>2. disk' = [row |-> Unbounded(r), kept |-> Unbounded(k), tomb |-> t]
  BY DEF Save
<1>3. QED
  BY <1>1, <1>2

Below(r, h) == r # NoRow => r.inc <= h

(* A row, an incumbent and a tombstone that may be in office together *)
Fit(r, k, t) ==
    /\ r \in Rows /\ k \in Rows /\ t \in Rows
    /\ r = NoRow \/ t = NoRow
    /\ k = NoRow \/ t = NoRow
    /\ NotAhead(r, now) /\ NotAhead(k, now) /\ Shut(t)

(* A section that writes what it installs keeps rows in their places *)
LEMMA WriteKeeps ==
    ASSUME NEW r, NEW k, NEW t, Fit(r, k, t), Save(r, k, t),
           row' = r, kept' = k, tomb' = t, now' = now, now \in 0..MaxTime,
           high' \in 0..MaxInc, Below(r, high'), Below(k, high')
    PROVE  /\ Places' /\ Segments'
           /\ (disk.row = NoRow \/ disk.tomb = NoRow)'
           /\ (disk.kept = NoRow \/ disk.tomb = NoRow)'
           /\ Below(disk'.row, high') /\ Below(disk'.kept, high')
<1>1. /\ disk' \in [row : Rows, kept : Rows, tomb : Rows]
      /\ Image(disk'.row, r) /\ Image(disk'.kept, k) /\ disk'.tomb = t
  BY SaveFacts DEF Fit
<1>2. Places'
  BY <1>1 DEF Places, Fit
<1>3. Segments'
  BY <1>1 DEF Segments, Fit, Image, NotAhead, Shut
<1>4. QED
  BY <1>1, <1>2, <1>3 DEF Fit, Image, Below

(* ... and a section that leaves rows and disk alone does, too *)
LEMMA StoreKeeps ==
    ASSUME IInv, UNCHANGED <<store, disk>>, UNCHANGED <<now, turn, told, again>>
    PROVE  Places' /\ Leases' /\ Segments' /\ Notices'
BY DEF IInv, Places, Leases, Segments, Notices, Heard, NotAhead, Shut, store

(* A new owner has heard nothing, and whoever was left alone no more *)
LEMMA NewcomerHeard ==
    ASSUME IInv, NEW r, r # NoRow => r.inc = high + 1, told' = told, turn' = turn
    PROVE  (r # NoRow /\ <<r.inc, turn>> \in told => FALSE)
<1>1. told \subseteq (0..high) \X (0..turn) /\ high \in Nat
  BY HighFacts DEF IInv, Notices, Places
<1>2. QED
  BY <1>1

LEMMA InstallKeeps ==
    ASSUME IInv, NEW r, NEW k, NEW t, Fit(r, k, t), Install(r, k, t),
           UNCHANGED <<now, turn>>, UNCHANGED notes,
           high' \in {high, high + 1}, high' \in 0..MaxInc,
           lease' \in {"none", "claimed", "staged", "fresh"},
           k # NoRow <=> lease' \in {"staged", "fresh"},
           lease' # "none" => r # NoRow,
           r = NoRow \/ (r.inc <= high /\ Heard(r)) \/ r.inc = high',
           k = NoRow \/ (k.inc <= high /\ Heard(k)) \/ k.inc = high',
           r # NoRow /\ k # NoRow => r.inc = high' /\ high' = high + 1 /\ k.inc <= high,
           high' = high => (r # NoRow => Heard(r)) /\ (k # NoRow => Heard(k))
    PROVE  IInv'
<1>1. high \in Nat /\ high' \in Nat /\ MaxInc \in Nat
  BY ContextAssumption DEF IInv, Places
<1>2. Below(r, high') /\ Below(k, high')
  <2>1. (r # NoRow => r.inc \in Int) /\ (k # NoRow => k.inc \in Int)
    BY RowFacts DEF Fit, Rows, Incs
  <2>2. QED
    BY <1>1, <2>1 DEF Below
<1>3. /\ row' = r /\ kept' = k /\ tomb' = t /\ Save(r, k, t) /\ box' = <<>>
      /\ now' = now /\ turn' = turn /\ tasks' = tasks /\ told' = told /\ again' = again
  BY DEF Install, notes
<1>4. /\ Places' /\ Segments'
      /\ (disk.row = NoRow \/ disk.tomb = NoRow)'
      /\ (disk.kept = NoRow \/ disk.tomb = NoRow)'
      /\ Below(disk'.row, high') /\ Below(disk'.kept, high')
  <2>1. now \in 0..MaxTime
    BY DEF IInv, Places
  <2>2. QED
    BY <1>2, <1>3, <2>1, WriteKeeps
<1>5. Leases'
  BY <1>3, <1>4 DEF Leases, Fit
<1>6. Others'
  BY <1>3 DEF IInv, Others
<1>7. Heard(r) /\ Heard(k)
  <2>1. r # NoRow /\ r.inc = high + 1 => Heard(r)
    BY <1>3, NewcomerHeard DEF Heard
  <2>2. k # NoRow /\ k.inc = high + 1 => Heard(k)
    BY <1>3, NewcomerHeard DEF Heard
  <2>3. (r = NoRow => Heard(r)) /\ (k = NoRow => Heard(k))
    BY DEF Heard
  <2>4. QED
    BY <1>1, <2>1, <2>2, <2>3
<1>8. Notices'
  <2>1. told \subseteq (0..high') \X (0..turn)
    <3>1. told \subseteq (0..high) \X (0..turn)
      BY DEF IInv, Notices
    <3>2. 0..high \subseteq 0..high'
      BY <1>1
    <3>3. QED
      BY <3>1, <3>2
  <2>2. Heard(row)' /\ Heard(kept)'
    BY <1>3, <1>7 DEF Heard
  <2>3. (row # NoRow /\ kept # NoRow => kept.inc < row.inc)'
    <3>1. k # NoRow => k.inc \in Int
      BY RowFacts DEF Fit, Rows, Incs
    <3>2. QED
      BY <1>1, <1>3, <3>1
  <2>4. QED
    BY <1>2, <1>3, <1>4, <2>1, <2>2, <2>3 DEF IInv, Notices, Below
<1>9. QED
  BY <1>4, <1>5, <1>6, <1>8 DEF IInv

LEMMA LaunchKeeps == IInv /\ Contexts /\ Launch => IInv'
<1> SUFFICES ASSUME IInv, Contexts, Launch PROVE IInv'
  OBVIOUS
<1>1. high + 1 \in 0..MaxInc /\ high + 1 \in Incs /\ high \in Nat /\ contexts + 1 \in Nat
  BY HighFacts DEF IInv, Places, Launch, Contexts
<1> DEFINE r == NewRow(high + 1, contexts + 1)
<1>2. r \in Row /\ r.inc = high + 1 /\ r.seg = Closed
  BY <1>1, NewRowFacts
<1>3. r # NoRow
  BY <1>2, RowFacts
<1>4. Fit(r, NoRow, NoRow)
  BY <1>2, <1>3 DEF Fit, Rows, NotAhead, Shut, IInv, Places, Closed
<1> HIDE DEF r
<1>5. Install(r, NoRow, NoRow) /\ high' = high + 1 /\ lease' = "none"
  BY DEF Launch, r, Unleased
<1>6. QED
  BY <1>1, <1>2, <1>3, <1>4, <1>5, InstallKeeps DEF Launch, r

LEMMA RegisterKeeps == IInv /\ Register => IInv'
<1> SUFFICES ASSUME IInv, Register PROVE IInv'
  OBVIOUS
<1>1. high + 1 \in 0..MaxInc /\ high + 1 \in Incs /\ high \in Nat
  BY HighFacts DEF IInv, Places, Register
<1>2. row \in Row /\ row # NoRow /\ row.seg <= now
  BY DEF Register, Live, IInv, Places, Segments, NotAhead, Rows
<1> DEFINE u == Unbounded(row)
           r == [u EXCEPT !.inc = high + 1]
<1>3. u \in Row /\ u.seg = row.seg
  BY <1>2, UnboundedFacts DEF Rows
<1> HIDE DEF u
<1>4. r \in Row /\ r.inc = high + 1 /\ r.seg = row.seg
  BY <1>1, <1>3 DEF Row
<1>5. r # NoRow
  BY <1>4, RowFacts
<1>6. Install(r, NoRow, NoRow) /\ high' = high + 1 /\ lease' = "none"
  BY DEF Register, Registered, Unleased, u
<1> HIDE DEF r
<1>7. Fit(r, NoRow, NoRow)
  BY <1>2, <1>4, <1>5 DEF Fit, Rows, NotAhead, Shut, Closed
<1>8. QED
  BY <1>1, <1>4, <1>5, <1>6, <1>7, InstallKeeps DEF Register

LEMMA RemoveKeeps == IInv /\ Remove => IInv'
<1> SUFFICES ASSUME IInv, Remove PROVE IInv'
  OBVIOUS
<1>1. Fit(NoRow, NoRow, NoRow)
  BY DEF Fit, Rows, NotAhead, Shut
<1>2. high' = high /\ high' \in 0..MaxInc /\ lease' = "none" /\ Install(NoRow, NoRow, NoRow)
  BY DEF Remove, Unleased, IInv, Places
<1>3. QED
  BY <1>1, <1>2, InstallKeeps DEF Remove

LEMMA DormantKeeps == IInv /\ DormantOwned => IInv'
<1> SUFFICES ASSUME IInv, DormantOwned PROVE IInv'
  OBVIOUS
<1>1. row \in Row /\ row # NoRow /\ row.seg <= now /\ now \in Nat
  BY ContextAssumption DEF DormantOwned, Live, IInv, Places, Segments, NotAhead, Rows
<1>2. Parked(row) \in Rows /\ Shut(Parked(row))
  <2>1. Close(row) \in Row /\ Close(row).seg = Closed
    BY <1>1, CloseFacts
  <2>2. Close(row) # NoRow
    BY <2>1, RowFacts
  <2>3. QED
    BY <2>1, <2>2, UnboundedFacts DEF Parked, Rows, Shut
<1>3. PICK t \in {NoRow, Parked(row)} : Install(NoRow, NoRow, t)
  BY DEF DormantOwned
<1>4. Fit(NoRow, NoRow, t)
  BY <1>2, <1>3 DEF Fit, Rows, NotAhead, Shut
<1>5. high' = high /\ high' \in 0..MaxInc /\ lease' = "none"
  BY DEF DormantOwned, Unleased, IInv, Places
<1>6. QED
  BY <1>3, <1>4, <1>5, InstallKeeps DEF DormantOwned

LEMMA RecoverKeeps == IInv /\ RecoverDormant => IInv'
<1> SUFFICES ASSUME IInv, RecoverDormant PROVE IInv'
  OBVIOUS
<1>1. high + 1 \in 0..MaxInc /\ high + 1 \in Incs /\ high \in Nat
  BY HighFacts DEF IInv, Places, RecoverDormant
<1>2. tomb \in Row /\ now \in Nat
  BY ContextAssumption DEF RecoverDormant, IInv, Places, Rows
<1> DEFINE r == [tomb EXCEPT !.inc = high + 1, !.seg = Closed, !.prov = FALSE]
<1>3. r \in Row /\ r.inc = high + 1 /\ r.seg = Closed
  BY <1>1, <1>2 DEF Row
<1>4. r # NoRow
  BY <1>3, RowFacts
<1>5. Install(r, NoRow, NoRow) /\ high' = high + 1 /\ lease' = lease
  BY DEF RecoverDormant
<1>6. lease = "none"
  BY DEF RecoverDormant, IInv, Leases
<1> HIDE DEF r
<1>7. Fit(r, NoRow, NoRow)
  BY <1>2, <1>3, <1>4 DEF Fit, Rows, NotAhead, Shut, Closed
<1>8. QED
  BY <1>1, <1>3, <1>4, <1>5, <1>6, <1>7, InstallKeeps DEF RecoverDormant

LEMMA StageKeeps ==
    ASSUME IInv, Contexts, NEW fresh \in BOOLEAN, Stage(fresh)
    PROVE  IInv'
<1>1. high + 1 \in 0..MaxInc /\ high + 1 \in Incs /\ high \in Nat /\ contexts + 1 \in Nat
  BY HighFacts DEF IInv, Places, Stage, Contexts
<1>2. /\ row \in Row /\ row # NoRow /\ row.seg <= now /\ now \in Nat
      /\ row.inc <= high /\ Heard(row)
  BY ContextAssumption
     DEF Stage, IInv, Places, Leases, Segments, Notices, NotAhead, Rows
<1> DEFINE r == Staged(row, fresh)
<1>3. r \in Row /\ r.inc = high + 1 /\ r.seg <= now
  <2>1. CASE fresh
    <3> DEFINE n == [NewRow(high + 1, contexts + 1) EXCEPT !.prov = TRUE]
    <3>1. n \in Row /\ n.inc = high + 1 /\ n.seg = Closed
      BY <1>1, FreshRowFacts
    <3>2. r = n
      BY <2>1 DEF Staged
    <3> HIDE DEF n, r
    <3>3. QED
      BY <1>2, <3>1, <3>2 DEF Closed
  <2>2. CASE ~ fresh
    <3> DEFINE u == Unbounded(row)
               n == [u EXCEPT !.inc = high + 1, !.prov = FALSE]
    <3>1. u \in Row /\ u.seg = row.seg
      BY <1>2, UnboundedFacts DEF Rows
    <3>2. r = n
      BY <2>2 DEF Staged
    <3> HIDE DEF u, r
    <3>3. n \in Row /\ n.inc = high + 1 /\ n.seg = row.seg
      BY <1>1, <3>1 DEF Row
    <3>4. QED
      BY <1>2, <3>2, <3>3
  <2>3. QED
    BY <2>1, <2>2
<1>4. r # NoRow
  BY <1>3, RowFacts
<1>5. /\ Install(r, row, NoRow) /\ high' = high + 1
      /\ lease' \in {"staged", "fresh"} /\ UNCHANGED <<now, turn>> /\ UNCHANGED notes
  BY DEF Stage
<1> HIDE DEF r
<1>6. Fit(r, row, NoRow)
  BY <1>2, <1>3, <1>4 DEF Fit, Rows, NotAhead, Shut
<1>7. QED
  BY <1>1, <1>2, <1>3, <1>4, <1>5, <1>6, InstallKeeps

LEMMA RollbackKeeps == IInv /\ Rollback => IInv'
<1> SUFFICES ASSUME IInv, Rollback PROVE IInv'
  OBVIOUS
<1>1. /\ kept \in Row /\ kept # NoRow /\ kept.seg <= now
      /\ kept.inc <= high /\ Heard(kept)
  BY DEF Rollback, IInv, Places, Leases, Segments, Notices, NotAhead, Rows
<1>2. Fit(kept, NoRow, NoRow)
  BY <1>1 DEF Fit, Rows, NotAhead, Shut
<1>3. /\ Install(kept, NoRow, NoRow) /\ lease' = "none" /\ high' = high
      /\ UNCHANGED <<now, turn>> /\ UNCHANGED notes
  BY DEF Rollback, Restored
<1>4. high' \in 0..MaxInc
  BY <1>3 DEF IInv, Places
<1>5. QED
  BY <1>1, <1>2, <1>3, <1>4, InstallKeeps

LEMMA LeaseStepKeeps == IInv /\ (ClaimRestart \/ AbortRestart) => IInv'
<1> SUFFICES ASSUME IInv, ClaimRestart \/ AbortRestart PROVE IInv'
  OBVIOUS
<1>1. /\ UNCHANGED <<now, row, tomb, kept, high, disk, box, tasks, told, again, turn>>
      /\ lease' \in {"none", "claimed"} /\ lease \in {"none", "claimed"} /\ row # NoRow
  BY DEF ClaimRestart, AbortRestart, notes, Live, Unleased, IInv, Leases
<1>2. Places' /\ Segments' /\ Notices' /\ Others'
  BY <1>1 DEF IInv, Places, Segments, NotAhead, Shut, Notices, Heard, Others
<1>3. Leases'
  BY <1>1 DEF IInv, Leases
<1>4. QED
  BY <1>2, <1>3 DEF IInv

LEMMA TickKeeps == IInv /\ Tick => IInv'
<1> SUFFICES ASSUME IInv, Tick PROVE IInv'
  OBVIOUS
<1>1. /\ now' = now + 1 /\ now \in Nat /\ now' \in 0..MaxTime
      /\ UNCHANGED <<row, tomb, lease, kept, high, disk, box, tasks, told, again, turn>>
  BY ContextAssumption DEF Tick, store, notes, IInv, Places
<1>2. Places' /\ Leases' /\ Notices' /\ Others'
  BY <1>1 DEF IInv, Places, Leases, Notices, Heard, Others
<1>3. ASSUME NEW r \in Rows, NotAhead(r, now) PROVE NotAhead(r, now + 1)
  <2>1. r # NoRow => r.seg \in Int
    BY RowFacts DEF Rows, Closed
  <2>2. QED
    BY <1>1, <1>3, <2>1 DEF NotAhead
<1>4. Segments'
  BY <1>1, <1>3 DEF IInv, Places, Segments
<1>5. QED
  BY <1>2, <1>4 DEF IInv

LEMMA HookKeeps ==
    ASSUME IInv, NEW k \in {"Active", "Stopped"}, Hook(k)
    PROVE  IInv'
<1>1. /\ UNCHANGED <<now, store, disk, notes, turn>> /\ box' = Append(box, k)
  BY DEF Hook
<1>2. Places' /\ Leases' /\ Segments' /\ Notices'
  BY <1>1, StoreKeeps DEF notes
<1>3. Others'
  BY <1>1 DEF IInv, Others, notes, store, Hook, Live
<1>4. QED
  BY <1>2, <1>3 DEF IInv

LEMMA SnapshotKeeps ==
    ASSUME IInv, NEW t \in Tasks, Snapshot(t)
    PROVE  IInv'
<1>1. /\ UNCHANGED <<now, store, disk, box, turn, told, again>>
  BY DEF Snapshot
<1>2. Places' /\ Leases' /\ Segments' /\ Notices'
  BY <1>1, StoreKeeps
<1>3. Others'
  <2>1. tasks[t] \in Task \/ tasks[t] = NoTask
    BY DEF IInv, Others
  <2>2. [tasks[t] EXCEPT !.at = "snapshot"] \in Task \cup {NoTask}
    BY <2>1 DEF Task, NoTask, Snapshot
  <2>3. tasks' \in [Tasks -> Task \cup {NoTask}]
    BY <2>2 DEF Snapshot, IInv, Others
  <2>4. QED
    BY <1>1, <2>3 DEF IInv, Others, store
<1>4. QED
  BY <1>2, <1>3 DEF IInv

LEMMA PersistKeeps == IInv /\ Persist => IInv'
<1> SUFFICES ASSUME IInv, Persist PROVE IInv'
  OBVIOUS
<1>1. /\ UNCHANGED <<now, store, box, notes, turn>> /\ Save(row, kept, tomb)
  BY DEF Persist
<1>2. /\ UNCHANGED <<row, tomb, lease, kept, high, now, box, tasks, told, again, turn>>
  BY <1>1 DEF store, notes
<1>3. /\ Places' /\ Segments'
      /\ (disk.row = NoRow \/ disk.tomb = NoRow)'
      /\ (disk.kept = NoRow \/ disk.tomb = NoRow)'
      /\ Below(disk'.row, high') /\ Below(disk'.kept, high')
  <2>1. Fit(row, kept, tomb)
    BY DEF IInv, Places, Leases, Segments, Fit
  <2>2. Below(row, high') /\ Below(kept, high') /\ now \in 0..MaxTime /\ high' \in 0..MaxInc
    BY <1>2 DEF IInv, Places, Notices, Below
  <2>3. QED
    BY <1>1, <1>2, <2>1, <2>2, WriteKeeps
<1>4. Leases'
  BY <1>2, <1>3 DEF IInv, Leases
<1>5. Others'
  BY <1>2 DEF IInv, Others
<1>6. Notices'
  BY <1>2, <1>3 DEF IInv, Notices, Heard, Below
<1>7. QED
  BY <1>3, <1>4, <1>5, <1>6 DEF IInv

(* A mailbox with a message in it is that of the agent of a live row *)
LEMMA ActiveKeeps == IInv /\ HandleActive => IInv'
<1> SUFFICES ASSUME IInv, HandleActive PROVE IInv'
  OBVIOUS
<1>1. /\ row \in Row /\ row # NoRow /\ now \in Nat /\ turn \in Nat /\ row.inc <= high
      /\ UNCHANGED <<now, tomb, lease, kept, high, disk, tasks, told, again>>
      /\ box # <<>> /\ box' = Tail(box)
  BY ContextAssumption
     DEF HandleActive, notes, IInv, Places, Others, Notices, Rows
<1>2. box' \in Seq({"Active", "Stopped"})
  BY <1>1 DEF IInv, Others
<1>3. CASE UNCHANGED <<row, turn>>
  BY <1>1, <1>2, <1>3
     DEF IInv, Places, Leases, Segments, NotAhead, Shut, Others, Notices, Heard
<1>4. CASE row' = Opened(row) /\ turn' = turn + 1
  <2> DEFINE r == Opened(row)
  <2>1. r \in Row /\ r.seg = now /\ r.inc = row.inc
    <3> DEFINE g == row.gen + 1
    <3>1. g \in Nat
      BY <1>1, RowFacts
    <3>2. r = [row EXCEPT !.seg = now, !.gen = g, !.stopped = FALSE, !.claimed = FALSE]
      BY DEF Opened
    <3> HIDE DEF g, r
    <3>3. QED
      BY <1>1, <3>1, <3>2 DEF Row
  <2>2. r # NoRow
    BY <2>1, RowFacts
  <2>3. row' = r /\ turn' = turn + 1
    BY <1>4
  <2> HIDE DEF r
  <2>4. Places' /\ Leases'
    BY <1>1, <2>1, <2>2, <2>3 DEF IInv, Places, Leases, Rows
  <2>5. Segments'
    BY <1>1, <2>1, <2>3 DEF IInv, Segments, NotAhead, Shut
  <2>6. Others'
    BY <1>1, <1>2, <2>2, <2>3 DEF IInv, Others
  <2>7. told \subseteq (0..high) \X (0..turn) /\ high \in Nat
    BY HighFacts DEF IInv, Places, Notices
  <2>8. \A i : <<i, turn + 1>> \notin told
    BY <1>1, <2>7
  <2>9. told \subseteq (0..high) \X (0..turn + 1)
    <3>1. 0..turn \subseteq 0..turn + 1
      BY <1>1
    <3>2. QED
      BY <2>7, <3>1
  <2>10. Notices'
    BY <1>1, <2>1, <2>3, <2>8, <2>9 DEF IInv, Notices, Heard
  <2>11. QED
    BY <2>4, <2>5, <2>6, <2>10 DEF IInv
<1>5. QED
  BY <1>3, <1>4 DEF HandleActive

(* Spawning a notice leaves tasks well-formed *)
LEMMA SpawnFacts ==
    ASSUME tasks \in [Tasks -> Task \cup {NoTask}], NEW r \in Row, Spawn(r)
    PROVE  tasks' \in [Tasks -> Task \cup {NoTask}]
<1> DEFINE k == [at |-> "spawned", inc |-> r.inc, gen |-> r.gen]
<1>1. k \in Task
  BY RowFacts DEF Task
<1> HIDE DEF k
<1>2. QED
  BY <1>1 DEF Spawn, k

LEMMA StoppedKeeps == IInv /\ HandleStopped => IInv'
<1> SUFFICES ASSUME IInv, HandleStopped PROVE IInv'
  OBVIOUS
<1>1. /\ row \in Row /\ row # NoRow /\ now \in Nat /\ row.seg <= now /\ row.inc <= high
      /\ UNCHANGED <<now, tomb, lease, kept, high, disk, turn, told, again>>
      /\ box # <<>> /\ box' = Tail(box)
  BY ContextAssumption
     DEF HandleStopped, IInv, Places, Segments, NotAhead, Others, Notices, Rows
<1> DEFINE c == Close(row)
           s == [c EXCEPT !.stopped = TRUE]
<1>2. c \in Row /\ c.seg = Closed /\ c.inc = row.inc /\ c.claimed = row.claimed
  BY <1>1, CloseFacts
<1>3. row' \in {c, s} /\ (tasks' = tasks \/ Spawn(c))
  BY DEF HandleStopped
<1> HIDE DEF c
<1>4. s \in Row /\ s.seg = Closed /\ s.inc = row.inc /\ s.claimed = row.claimed
  BY <1>2 DEF Row
<1> HIDE DEF s
<1>5. /\ row' \in Row /\ row'.seg = Closed /\ row'.inc = row.inc
      /\ row'.claimed = row.claimed
  BY <1>2, <1>3, <1>4
<1>6. row' # NoRow
  BY <1>5, RowFacts
<1>7. Places' /\ Leases'
  BY <1>1, <1>5, <1>6 DEF IInv, Places, Leases, Rows
<1>8. Segments'
  BY <1>1, <1>5 DEF IInv, Segments, NotAhead, Shut, Closed
<1>9. Others'
  <2>1. tasks' \in [Tasks -> Task \cup {NoTask}]
    BY <1>2, <1>3, SpawnFacts DEF IInv, Others
  <2>2. QED
    BY <1>1, <1>6, <2>1 DEF IInv, Others
<1>10. Notices'
  BY <1>1, <1>5, <1>6 DEF IInv, Notices, Heard
<1>11. QED
  BY <1>7, <1>8, <1>9, <1>10 DEF IInv

LEMMA ClaimKeeps ==
    ASSUME IInv, NEW t \in Tasks, Claim(t)
    PROVE  IInv'
<1>1. /\ UNCHANGED <<now, tomb, lease, kept, high, disk, box, turn>>
      /\ tasks' = [tasks EXCEPT ![t] = NoTask]
  BY DEF Claim
<1>2. tasks' \in [Tasks -> Task \cup {NoTask}]
  BY <1>1 DEF IInv, Others
<1>3. CASE UNCHANGED <<row, told, again>>
  BY <1>1, <1>2, <1>3
     DEF IInv, Places, Leases, Segments, NotAhead, Shut, Others, Notices, Heard
<1>4. CASE Claimable(row, tasks[t]) /\ ~ UNCHANGED <<row, told, again>>
  <2> DEFINE r == [row EXCEPT !.claimed = TRUE]
  <2>1. /\ row \in Row /\ row # NoRow /\ row.seg = Closed /\ ~ row.claimed /\ row.inc <= high
        /\ row.inc \in Nat /\ turn \in Nat /\ high \in Nat
    <3>1. row \in Rows /\ high \in 0..MaxInc /\ turn \in Nat
      BY DEF IInv, Places, Others
    <3>2. row \in Row /\ row # NoRow /\ row.seg = Closed /\ ~ row.claimed
      BY <1>4, <3>1 DEF Claimable, Overdue, Rows
    <3>3. QED
      BY <3>1, <3>2, RowFacts DEF IInv, Notices, Incs
  <2>2. /\ row' = r /\ told' = told \cup {<<row.inc, turn>>}
        /\ again' = (again \/ <<row.inc, turn>> \in told)
    BY <1>4 DEF Claim
  <2>3. r \in Row /\ r.seg = Closed /\ r.inc = row.inc /\ r.claimed
    BY <2>1 DEF Row
  <2>4. r # NoRow
    BY <2>3, RowFacts
  <2> HIDE DEF r
  <2>5. <<row.inc, turn>> \notin told /\ ~ again'
    BY <2>1, <2>2 DEF IInv, Notices, Heard
  <2>6. Heard(row)'
    BY <2>2, <2>3 DEF Heard
  <2>7. Heard(kept)'
    <3>1. kept # NoRow => kept.inc \in Int /\ kept.inc < row.inc
      BY <2>1, RowFacts DEF IInv, Places, Rows, Notices, Incs
    <3>2. QED
      BY <1>1, <2>1, <2>2, <3>1 DEF IInv, Notices, Heard
  <2>8. told' \subseteq (0..high) \X (0..turn)
    BY <2>1, <2>2 DEF IInv, Notices
  <2>9. Notices'
    BY <1>1, <2>1, <2>2, <2>3, <2>4, <2>5, <2>6, <2>7, <2>8 DEF IInv, Notices
  <2>10. Places' /\ Leases'
    BY <1>1, <2>1, <2>2, <2>3, <2>4 DEF IInv, Places, Leases, Rows
  <2>11. Segments'
    BY <1>1, <2>1, <2>2, <2>3 DEF IInv, Segments, NotAhead, Shut
  <2>12. Others'
    BY <1>1, <1>2, <2>2, <2>4 DEF IInv, Others
  <2>13. QED
    BY <2>9, <2>10, <2>11, <2>12 DEF IInv
<1>5. QED
  BY <1>3, <1>4 DEF Claim

(* The row of a completed fresh restart *)
LEMMA SucceededFacts ==
    ASSUME NEW r \in Row
    PROVE  /\ Succeeded(r) \in Row
           /\ Succeeded(r).inc = r.inc
           /\ Succeeded(r).claimed = r.claimed
           /\ Succeeded(r).seg \in {r.seg, Closed}
<1>1. r.prov \in BOOLEAN
  BY RowFacts
<1>2. CASE ~ r.prov
  <2> DEFINE n == [r EXCEPT !.acc = 0, !.seg = Closed, !.due = FALSE]
  <2>1. n \in Row /\ n.inc = r.inc /\ n.claimed = r.claimed /\ n.seg = Closed
    BY DEF Row
  <2>2. Succeeded(r) = n
    BY <1>2 DEF Succeeded
  <2> HIDE DEF n
  <2>3. QED
    BY <2>1, <2>2
<1>3. CASE r.prov
  <2> DEFINE n == [r EXCEPT !.prov = FALSE]
             s == [n EXCEPT !.stopped = TRUE]
  <2>1. n \in Row /\ n.inc = r.inc /\ n.claimed = r.claimed /\ n.seg = r.seg
    BY DEF Row
  <2>2. Succeeded(r) \in {n, s}
    BY <1>3 DEF Succeeded
  <2> HIDE DEF n
  <2>3. s \in Row /\ s.inc = r.inc /\ s.claimed = r.claimed /\ s.seg = r.seg
    BY <2>1 DEF Row
  <2> HIDE DEF s
  <2>4. QED
    BY <2>1, <2>2, <2>3
<1>4. QED
  BY <1>1, <1>2, <1>3

LEMMA CompleteKeeps == IInv /\ Complete => IInv'
<1> SUFFICES ASSUME IInv, Complete PROVE IInv'
  OBVIOUS
<1>1. /\ row \in Row /\ row # NoRow /\ row.seg <= now /\ now \in 0..MaxTime /\ row.inc <= high
      /\ tomb = NoRow /\ Heard(row) /\ high \in 0..MaxInc
  BY DEF Complete, IInv, Places, Leases, Segments, NotAhead, Notices, Rows
<1>2. /\ UNCHANGED <<now, tomb, high, box, turn, told, again>>
      /\ lease' = "none" /\ kept' = NoRow
      /\ row' \in {row, Succeeded(row)} /\ (tasks' = tasks \/ Spawn(row'))
      /\ Save(row', NoRow, NoRow)
  BY DEF Complete
<1>3. /\ row' \in Row /\ row'.inc = row.inc /\ row'.claimed = row.claimed
      /\ row'.seg \in {row.seg, Closed}
  BY <1>1, <1>2, SucceededFacts
<1>4. row' # NoRow
  BY <1>3, RowFacts
<1>5. row'.seg <= now
  BY <1>1, <1>3 DEF Closed
<1>6. Fit(row', NoRow, NoRow)
  BY <1>3, <1>4, <1>5 DEF Fit, Rows, NotAhead, Shut
<1>7. /\ Places' /\ Segments'
      /\ (disk.row = NoRow \/ disk.tomb = NoRow)'
      /\ (disk.kept = NoRow \/ disk.tomb = NoRow)'
      /\ Below(disk'.row, high') /\ Below(disk'.kept, high')
  <2>1. Below(row', high') /\ Below(NoRow, high')
    BY <1>1, <1>2, <1>3 DEF Below
  <2> DEFINE r == row'
  <2>2. Fit(r, NoRow, NoRow) /\ Save(r, NoRow, NoRow) /\ row' = r /\ Below(r, high')
    BY <1>2, <1>6, <2>1
  <2> HIDE DEF r
  <2>3. QED
    BY <1>1, <1>2, <2>1, <2>2, WriteKeeps
<1>8. Leases'
  BY <1>1, <1>2, <1>4, <1>7 DEF Leases
<1>9. Others'
  <2>1. tasks' \in [Tasks -> Task \cup {NoTask}]
    <3> DEFINE r == row'
    <3>1. r \in Row /\ (tasks' = tasks \/ Spawn(r))
      BY <1>2, <1>3
    <3> HIDE DEF r
    <3>2. QED
      BY <3>1, SpawnFacts DEF IInv, Others
  <2>2. QED
    BY <1>2, <1>4, <2>1 DEF IInv, Others
<1>10. Notices'
  <2>1. Heard(row)'
    BY <1>1, <1>2, <1>3 DEF Heard
  <2>2. Heard(kept)'
    BY <1>2 DEF Heard
  <2>3. QED
    BY <1>1, <1>2, <1>3, <1>7, <2>1, <2>2 DEF IInv, Notices, Below
<1>11. QED
  BY <1>7, <1>8, <1>9, <1>10 DEF IInv

LEMMA RebootKeeps == IInv /\ Reboot => IInv'
<1> SUFFICES ASSUME IInv, Reboot PROVE IInv'
  OBVIOUS
<1> DEFINE r == IF disk.kept # NoRow THEN disk.kept ELSE disk.row
<1>1. /\ row' = r /\ kept' = NoRow /\ tomb' = disk.tomb /\ Save(r, NoRow, disk.tomb)
      /\ lease' = "none" /\ box' = <<>> /\ tasks' = [t \in Tasks |-> NoTask]
      /\ told' = {} /\ UNCHANGED <<now, high, turn, again>>
  BY DEF Reboot
<1>2. Fit(r, NoRow, disk.tomb)
  BY DEF IInv, Places, Leases, Segments, Fit, Rows, NotAhead, Shut
<1>3. Below(r, high') /\ Below(NoRow, high') /\ high' \in 0..MaxInc /\ now \in 0..MaxTime
  BY <1>1 DEF IInv, Places, Notices, Below
<1> HIDE DEF r
<1>4. /\ Places' /\ Segments'
      /\ (disk.row = NoRow \/ disk.tomb = NoRow)'
      /\ (disk.kept = NoRow \/ disk.tomb = NoRow)'
      /\ Below(disk'.row, high') /\ Below(disk'.kept, high')
  BY <1>1, <1>2, <1>3, WriteKeeps
<1>5. Leases'
  BY <1>1, <1>2, <1>4 DEF Leases, Fit
<1>6. Others'
  BY <1>1 DEF IInv, Others
<1>7. Notices'
  BY <1>1, <1>3, <1>4 DEF IInv, Notices, Heard, Below
<1>8. QED
  BY <1>4, <1>5, <1>6, <1>7 DEF IInv
--------------------------------------------------------------------------------
LEMMA InitIInv == Init => IInv
<1> SUFFICES ASSUME Init PROVE IInv
  OBVIOUS
<1>1. Places
  BY ContextAssumption DEF Init, Places, Rows
<1>2. Leases /\ Segments
  BY DEF Init, Leases, Segments, NotAhead, Shut
<1>3. Others
  BY DEF Init, Others
<1>4. Notices
  BY DEF Init, Notices, Heard
<1>5. QED
  BY <1>1, <1>2, <1>3, <1>4 DEF IInv

LEMMA NextIInv == IInv /\ Contexts /\ [Next]_cvars => IInv'
<1> SUFFICES ASSUME IInv, Contexts, [Next]_cvars PROVE IInv'
  OBVIOUS
<1>1. CASE UNCHANGED cvars
  BY <1>1 DEF cvars, IInv, Places, Leases, Segments, NotAhead, Shut, Others, Notices, Heard
<1>2. CASE Tick \/ Persist \/ Reboot
  BY <1>2, TickKeeps, PersistKeeps, RebootKeeps
<1>3. CASE Sections
  BY <1>3, LaunchKeeps, RegisterKeeps, RemoveKeeps, DormantKeeps, RecoverKeeps,
     LeaseStepKeeps, StageKeeps, CompleteKeeps, RollbackKeeps DEF Sections
<1>4. CASE \E k \in {"Active", "Stopped"} : Hook(k)
  BY <1>4, HookKeeps
<1>5. CASE HandleActive \/ HandleStopped
  BY <1>5, ActiveKeeps, StoppedKeeps
<1>6. CASE \E t \in Tasks : Snapshot(t) \/ Claim(t)
  BY <1>6, SnapshotKeeps, ClaimKeeps
<1>7. QED
  BY <1>1, <1>2, <1>3, <1>4, <1>5, <1>6 DEF Next

(* The agent and a delivery leave a row provisional, and its context be *)
LEMMA ActiveAlters ==
    ASSUME IInv, HandleActive
    PROVE  /\ UNCHANGED <<contexts, high, lease>> /\ row # NoRow /\ row' # NoRow
           /\ row'.prov = row.prov
<1>1. row \in Row /\ row # NoRow /\ now \in Nat
  BY ContextAssumption DEF HandleActive, IInv, Places, Others, Rows
<1> DEFINE g == row.gen + 1
           r == [row EXCEPT !.seg = now, !.gen = g, !.stopped = FALSE, !.claimed = FALSE]
<1>2. g \in Nat
  BY <1>1, RowFacts
<1>3. row' \in {r, row} /\ UNCHANGED <<contexts, high, lease>>
  BY DEF HandleActive, Opened
<1> HIDE DEF g
<1>4. r \in Row /\ r.prov = row.prov
  BY <1>1, <1>2 DEF Row
<1> HIDE DEF r
<1>5. QED
  BY <1>1, <1>3, <1>4, RowFacts

LEMMA StoppedAlters ==
    ASSUME IInv, HandleStopped
    PROVE  /\ UNCHANGED <<contexts, high, lease>> /\ row # NoRow /\ row' # NoRow
           /\ row'.prov = row.prov
<1>1. row \in Row /\ row # NoRow /\ now \in Nat /\ row.seg <= now
  BY ContextAssumption
     DEF HandleStopped, IInv, Places, Others, Segments, NotAhead, Rows
<1> DEFINE c == Close(row)
           s == [c EXCEPT !.stopped = TRUE]
<1>2. c \in Row /\ c.prov = row.prov
  BY <1>1, CloseFacts
<1>3. row' \in {c, s} /\ UNCHANGED <<contexts, high, lease>>
  BY DEF HandleStopped
<1> HIDE DEF c
<1>4. s \in Row /\ s.prov = c.prov
  BY <1>2 DEF Row
<1> HIDE DEF s
<1>5. QED
  BY <1>1, <1>2, <1>3, <1>4, RowFacts

LEMMA ClaimAlters ==
    ASSUME IInv, NEW t \in Tasks, Claim(t)
    PROVE  /\ UNCHANGED <<contexts, high, lease>>
           /\ row # NoRow => row' # NoRow /\ row'.prov = row.prov
<1> DEFINE r == [row EXCEPT !.claimed = TRUE]
<1>1. row' \in {r, row} /\ UNCHANGED <<contexts, high, lease>> /\ row \in Rows
  BY DEF Claim, IInv, Places
<1>2. row # NoRow => r \in Row /\ r.prov = row.prov
  BY <1>1 DEF Row, Rows
<1> HIDE DEF r
<1>3. QED
  BY <1>1, <1>2, RowFacts

LEMMA InitContexts == Init => Contexts
BY ContextAssumption DEF Init, Contexts

(* Who began or ended a fresh restart, and what kept its row as it was *)
LEMMA NextContexts == IInv /\ Contexts /\ [Next]_cvars => Contexts'
<1> SUFFICES ASSUME IInv, Contexts, [Next]_cvars PROVE Contexts'
  OBVIOUS
<1>1. high \in Nat /\ contexts \in 0..high /\ contexts \in Nat
  BY HighFacts DEF IInv, Places, Contexts
<1>2. ASSUME contexts' = contexts, high' \in {high, high + 1}, lease' # "fresh"
      PROVE  Contexts'
  BY <1>1, <1>2 DEF Contexts
<1>3. ASSUME UNCHANGED <<contexts, high, lease, row>>
      PROVE  Contexts'
  BY <1>3 DEF Contexts
<1>4. CASE \/ UNCHANGED cvars \/ Tick \/ Persist
           \/ \E k \in {"Active", "Stopped"} : Hook(k)
           \/ \E t \in Tasks : Snapshot(t)
  BY <1>3, <1>4 DEF cvars, store, Tick, Persist, Hook, Snapshot
<1>5. CASE Reboot \/ ClaimRestart \/ AbortRestart \/ Complete \/ Rollback
  BY <1>2, <1>5 DEF Reboot, ClaimRestart, AbortRestart, Complete, Rollback
<1>6. CASE Register \/ Remove \/ DormantOwned
  BY <1>2, <1>6 DEF Register, Remove, DormantOwned, Unleased
<1>7. CASE RecoverDormant
  BY <1>2, <1>7 DEF RecoverDormant, IInv, Leases
<1>8. CASE Launch
  <2>1. lease' = "none" /\ contexts' = contexts + 1 /\ high' = high + 1
    BY <1>8 DEF Launch, Unleased
  <2>2. QED
    BY <1>1, <2>1 DEF Contexts
<1>9. CASE Stage(FALSE)
  BY <1>2, <1>9 DEF Stage
<1>10. CASE Stage(TRUE)
  <2> DEFINE r == [NewRow(high + 1, contexts + 1) EXCEPT !.prov = TRUE]
  <2>1. high + 1 \in Incs /\ contexts + 1 \in Nat
    BY <1>1, <1>10, HighFacts DEF Stage, IInv, Places
  <2>2. r \in Row /\ r.prov
    BY <2>1, FreshRowFacts
  <2>3. r # NoRow
    BY <2>2, RowFacts
  <2>4. row' = r
    BY <1>10 DEF Stage, Staged, Install
  <2> HIDE DEF r
  <2>5. contexts' = contexts + 1 /\ high' = high + 1
    BY <1>10 DEF Stage
  <2>6. contexts' \in 0..high'
    BY <1>1, <2>5
  <2>7. QED
    BY <2>2, <2>3, <2>4, <2>6 DEF Contexts
<1>11. CASE HandleActive
  BY <1>11, ActiveAlters DEF Contexts
<1>12. CASE HandleStopped
  BY <1>12, StoppedAlters DEF Contexts
<1>13. CASE \E t \in Tasks : Claim(t)
  BY <1>13, ClaimAlters DEF Contexts
<1>14. QED
  BY <1>4, <1>5, <1>6, <1>7, <1>8, <1>9, <1>10, <1>11, <1>12, <1>13 DEF Next, Sections

(* Rows stay where the code keeps them: an incumbent only while a restart  *)
(* of it is staged, no segment ahead of the clock, no tombstone with an    *)
(* open one, which load_sessions would refuse.                             *)
THEOREM ContextTypes == ContextSpec => []ContextTypeOK
<1>1. IInv /\ Contexts => ContextTypeOK
  BY DEF Contexts, IInv, Places, Leases, Segments, NotAhead, Shut, Others, Rows, ContextTypeOK
<1>2. QED
  BY InitIInv, NextIInv, InitContexts, NextContexts, <1>1, PTL DEF ContextSpec

(* Whatever hooks repeat, and however deliveries race with restarts and    *)
(* registrations, no owner is told twice of one turn by one daemon.        *)
THEOREM ContextNoticeOnce == ContextSpec => []NoticeOnce
<1>1. IInv => NoticeOnce
  BY DEF IInv, Notices, NoticeOnce
<1>2. QED
  BY InitIInv, NextIInv, InitContexts, NextContexts, <1>1, PTL DEF ContextSpec
--------------------------------------------------------------------------------
(* The meter of a row *)

Running(u, c)  == [on |-> TRUE, used |-> u, none |-> FALSE, ctx |-> c]
Standing(u, c) == [on |-> FALSE, used |-> u, none |-> FALSE, ctx |-> c]

LEMMA MeterFacts ==
    ASSUME NEW r \in Row, NEW n
    PROVE  /\ r.seg = Closed => MeterAt(r, n) = Standing(r.acc, r.ctx)
           /\ r.seg # Closed =>
                MeterAt(r, n) = Running(r.acc + (n - r.seg), r.ctx)
<1>1. r # NoRow /\ r.acc \in Nat
  BY RowFacts
<1>2. r.acc + 0 = r.acc
  BY <1>1
<1>3. CASE r.seg = Closed
  BY <1>1, <1>2, <1>3 DEF MeterAt, Running, Standing
<1>4. CASE r.seg # Closed
  BY <1>1, <1>4 DEF MeterAt, Running, Standing
<1>5. QED
  BY <1>3, <1>4

(* The operators of ActiveMeter on the meters of rows; the booleans are     *)
(* hidden in the first steps, where only the fields of records matter      *)
LEMMA ReadingFacts ==
    ASSUME NEW u, NEW c
    PROVE  /\ Meter!Off(Running(u, c)) = Standing(u, c)
           /\ Meter!Off(Standing(u, c)) = Standing(u, c)
           /\ [Standing(u, c) EXCEPT !.on = TRUE] = Running(u, c)
           /\ Meter!Grown(Running(u, c)) = Running(u + 1, c)
           /\ Meter!Grown(Standing(u, c)) = Standing(u, c)
<1> DEFINE t == TRUE
           f == FALSE
           v == u + 1
<1>1. /\ [[on |-> t, used |-> u, none |-> f, ctx |-> c] EXCEPT !.on = f]
           = [on |-> f, used |-> u, none |-> f, ctx |-> c]
      /\ [[on |-> f, used |-> u, none |-> f, ctx |-> c] EXCEPT !.on = f]
           = [on |-> f, used |-> u, none |-> f, ctx |-> c]
      /\ [[on |-> f, used |-> u, none |-> f, ctx |-> c] EXCEPT !.on = t]
           = [on |-> t, used |-> u, none |-> f, ctx |-> c]
      /\ [[on |-> t, used |-> u, none |-> f, ctx |-> c] EXCEPT !.used = v]
           = [on |-> t, used |-> v, none |-> f, ctx |-> c]
  <2> HIDE DEF t, f, v
  <2>1. QED
    OBVIOUS
<1>2. Meter!Off(Running(u, c)) = Standing(u, c) /\ Meter!Off(Standing(u, c)) = Standing(u, c)
  BY <1>1, Zenon DEF Meter!Off, Running, Standing
<1>3. [Standing(u, c) EXCEPT !.on = TRUE] = Running(u, c)
  BY <1>1, Zenon DEF Running, Standing
<1>4. Running(u, c).on /\ Running(u, c).used = u /\ ~ Standing(u, c).on
  BY DEF Running, Standing
<1>5. [Running(u, c) EXCEPT !.used = u + 1] = Running(u + 1, c)
  BY <1>1, Zenon DEF Running
<1>6. Meter!Grown(Running(u, c)) = Running(u + 1, c)
  BY <1>4, <1>5 DEF Meter!Grown
<1>7. Meter!Grown(Standing(u, c)) = Standing(u, c)
  BY <1>4 DEF Meter!Grown
<1>8. QED
  BY <1>2, <1>3, <1>6, <1>7

(* Only the segment, the seconds and the context matter *)
LEMMA MeterSame ==
    ASSUME NEW r \in Row, NEW q \in Row, q.seg = r.seg, q.acc = r.acc, q.ctx = r.ctx, NEW n
    PROVE  MeterAt(q, n) = MeterAt(r, n)
BY MeterFacts

LEMMA MeterImage ==
    ASSUME NEW r \in Rows, NEW d \in Rows, Image(d, r), NEW n
    PROVE  MeterAt(d, n) = MeterAt(r, n)
<1>1. CASE r = NoRow
  BY <1>1 DEF Image
<1>2. CASE r # NoRow
  BY <1>2, MeterSame DEF Image, Rows
<1>3. QED
  BY <1>1, <1>2

LEMMA MeterClosed ==
    ASSUME NEW r \in Row, NEW q \in Row, now \in Nat, r.seg <= now, q.seg = Closed,
           q.ctx = r.ctx,
           q.acc = r.acc + (IF r.seg = Closed THEN 0 ELSE now - r.seg)
    PROVE  MeterAt(q, now) = Meter!Off(MeterAt(r, now))
<1>1. r.acc \in Nat /\ r.acc + 0 = r.acc
  BY RowFacts
<1>2. QED
  BY <1>1, MeterFacts, ReadingFacts

LEMMA MeterGrown ==
    ASSUME NEW r \in Rows, now \in Nat
    PROVE  MeterAt(r, now + 1) = Meter!Grown(MeterAt(r, now))
<1>1. CASE r = NoRow
  BY <1>1 DEF MeterAt, Meter!Grown
<1>2. CASE r \in Row
  <2>1. r.acc \in Nat /\ r.seg \in Nat \cup {Closed}
    BY <1>2, RowFacts
  <2>2. CASE r.seg = Closed
    BY <1>2, <2>2, MeterFacts, ReadingFacts
  <2>3. CASE r.seg # Closed
    <3>1. r.acc + ((now + 1) - r.seg) = (r.acc + (now - r.seg)) + 1
      BY <2>1, <2>3
    <3>2. QED
      BY <1>2, <2>3, <3>1, MeterFacts, ReadingFacts
  <2>4. QED
    BY <2>2, <2>3
<1>3. QED
  BY <1>1, <1>2 DEF Rows

(* Where a row put aside by a step may come from *)
From(r) ==
    r # NoRow =>
        \/ \E q \in Asides \cup {row} : MeterAt(r, now) \in {MeterAt(q, now), Meter!Off(MeterAt(q, now))}
        \/ MeterAt(r, now) = MeterAt(row', now)

LEMMA FromKept ==
    ASSUME now' = now, From(kept'), From(tomb'),
           From(disk'.row), From(disk'.kept), From(disk'.tomb)
    PROVE  Meter!Kept
<1>1. ASSUME NEW r \in Asides' PROVE From(r) /\ r # NoRow
  BY <1>1 DEF Asides
<1>2. ASSUME NEW m \in {MeterAt(r, now) : r \in Asides'}
      PROVE  m \in {x : x \in {MeterAt(q, now) : q \in Asides}}
                   \cup {Meter!Off(x) : x \in {MeterAt(q, now) : q \in Asides}}
                   \cup {MeterAt(row, now), Meter!Off(MeterAt(row, now)), MeterAt(row', now)}
  <2>1. PICK r \in Asides' : m = MeterAt(r, now)
    BY <1>2
  <2>2. From(r) /\ r # NoRow
    BY <1>1, <2>1
  <2>3. CASE MeterAt(r, now) = MeterAt(row', now)
    BY <2>1, <2>3
  <2>4. ASSUME NEW q \in Asides \cup {row},
               MeterAt(r, now) \in {MeterAt(q, now), Meter!Off(MeterAt(q, now))}
        PROVE  m \in {x : x \in {MeterAt(p, now) : p \in Asides}}
                     \cup {Meter!Off(x) : x \in {MeterAt(p, now) : p \in Asides}}
                     \cup {MeterAt(row, now), Meter!Off(MeterAt(row, now))}
    BY <2>1, <2>4
  <2>5. QED
    BY <2>2, <2>3, <2>4 DEF From
<1>3. QED
  BY <1>2 DEF Meter!Kept

(* A section that writes what it installs *)
LEMMA WriteKept ==
    ASSUME NEW r \in Rows, NEW k \in Rows, NEW t \in Rows, Save(r, k, t),
           row' = r, kept' = k, tomb' = t, now' = now, From(k), From(t)
    PROVE  Meter!Kept
<1>1. /\ disk' \in [row : Rows, kept : Rows, tomb : Rows]
      /\ Image(disk'.row, r) /\ Image(disk'.kept, k) /\ disk'.tomb = t
  BY SaveFacts
<1>2. /\ MeterAt(disk'.row, now) = MeterAt(row', now)
      /\ MeterAt(disk'.kept, now) = MeterAt(k, now)
  BY <1>1, MeterImage
<1>3. From(disk'.row) /\ From(disk'.kept) /\ From(disk'.tomb) /\ From(kept') /\ From(tomb')
  BY <1>1, <1>2 DEF From, Image
<1>4. QED
  BY <1>3, FromKept

LEMMA NothingFrom == From(NoRow)
BY DEF From

LEMMA RowFrom == From(row)
BY DEF From
--------------------------------------------------------------------------------
(* Every step is one of the meter *)

LEMMA TickMeters == IInv /\ Tick => Meter!Tick
<1> SUFFICES ASSUME IInv, Tick PROVE Meter!Tick
  OBVIOUS
<1>1. /\ now' = now + 1 /\ now \in Nat /\ row' = row /\ Asides' = Asides
      /\ contexts' = contexts
  BY ContextAssumption DEF Tick, store, IInv, Places, Asides
<1>2. row \in Rows /\ Asides \subseteq Rows
  BY DEF IInv, Places, Asides
<1>3. MeterAt(row, now)' = Meter!Grown(MeterAt(row, now))
  BY <1>1, <1>2, MeterGrown
<1>4. {MeterAt(r, now) : r \in Asides}' = {MeterAt(r, now + 1) : r \in Asides}
  BY <1>1
<1>5. {MeterAt(r, now + 1) : r \in Asides} = {Meter!Grown(MeterAt(r, now)) : r \in Asides}
  BY <1>1, <1>2, MeterGrown
<1>6. {Meter!Grown(MeterAt(r, now)) : r \in Asides}
        = {Meter!Grown(m) : m \in {MeterAt(r, now) : r \in Asides}}
  OBVIOUS
<1>7. QED
  BY <1>1, <1>3, <1>4, <1>5, <1>6 DEF Meter!Tick

LEMMA QuietMeters ==
    ASSUME UNCHANGED <<now, row, kept, tomb, disk, contexts>>
    PROVE  UNCHANGED Meter!mvars
BY DEF Meter!mvars, Asides

LEMMA PersistMeters == IInv /\ Persist => Meter!Aside
<1> SUFFICES ASSUME IInv, Persist PROVE Meter!Aside
  OBVIOUS
<1>1. /\ UNCHANGED <<now, row, kept, tomb, contexts>> /\ Save(row, kept, tomb)
      /\ row \in Rows /\ kept \in Rows /\ tomb \in Rows
  BY DEF Persist, store, IInv, Places
<1>2. From(kept) /\ From(tomb)
  BY DEF From, Asides
<1>3. Meter!Kept
  BY <1>1, <1>2, WriteKept
<1>4. QED
  BY <1>1, <1>3 DEF Meter!Aside

LEMMA ActiveMeters == IInv /\ HandleActive => Meter!TurnOn \/ UNCHANGED Meter!mvars
<1> SUFFICES ASSUME IInv, HandleActive PROVE Meter!TurnOn \/ UNCHANGED Meter!mvars
  OBVIOUS
<1>1. UNCHANGED <<now, kept, tomb, disk, contexts>>
  BY DEF HandleActive
<1>2. CASE row' = row
  BY <1>1, <1>2, QuietMeters
<1>3. CASE Opens(row) /\ row' = Opened(row)
  <2>1. row \in Row /\ now \in Nat
    BY ContextAssumption DEF HandleActive, IInv, Places, Others, Rows
  <2> DEFINE g == row.gen + 1
             r == [row EXCEPT !.seg = now, !.gen = g, !.stopped = FALSE, !.claimed = FALSE]
  <2>2. g \in Nat /\ row.acc \in Nat
    BY <2>1, RowFacts
  <2>3. row' = r
    BY <1>3 DEF Opened
  <2> HIDE DEF g
  <2>4. r \in Row /\ r.seg = now /\ r.acc = row.acc /\ r.ctx = row.ctx
    BY <2>1, <2>2 DEF Row
  <2> HIDE DEF r
  <2>5. MeterAt(r, now) = Running(row.acc + (now - now), row.ctx)
    BY <2>1, <2>4, MeterFacts DEF Closed
  <2>6. MeterAt(row, now) = Standing(row.acc, row.ctx)
    BY <1>3, <2>1, MeterFacts DEF Opens
  <2>7. row.acc + (now - now) = row.acc
    BY <2>1, <2>2
  <2>8. Meter!Kept
    <3>1. From(kept) /\ From(tomb) /\ From(disk.row) /\ From(disk.kept) /\ From(disk.tomb)
      BY DEF From, Asides
    <3>2. QED
      BY <1>1, <3>1, FromKept
  <2>9. QED
    <3>1. ~ MeterAt(row, now).none
      BY <2>6 DEF Standing
    <3>2. MeterAt(row', now') = Running(row.acc, row.ctx)
      BY <1>1, <2>3, <2>5, <2>7
    <3>3. MeterAt(row', now') = [MeterAt(row, now) EXCEPT !.on = TRUE]
      BY <2>6, <3>2, ReadingFacts, Zenon
    <3>4. QED
      BY <1>1, <2>8, <3>1, <3>3 DEF Meter!TurnOn
<1>4. QED
  BY <1>2, <1>3 DEF HandleActive

LEMMA StoppedMeters == IInv /\ HandleStopped => Meter!TurnOff
<1> SUFFICES ASSUME IInv, HandleStopped PROVE Meter!TurnOff
  OBVIOUS
<1>1. /\ UNCHANGED <<now, kept, tomb, disk, contexts>>
      /\ row \in Row /\ row # NoRow /\ now \in Nat /\ row.seg <= now
  BY ContextAssumption
     DEF HandleStopped, IInv, Places, Others, Segments, NotAhead, Rows
<1> DEFINE c == Close(row)
           s == [c EXCEPT !.stopped = TRUE]
<1>2. /\ c \in Row /\ c.seg = Closed /\ c.ctx = row.ctx
      /\ c.acc = row.acc + (IF row.seg = Closed THEN 0 ELSE now - row.seg)
  BY <1>1, CloseFacts
<1>3. row' \in {c, s}
  BY DEF HandleStopped
<1> HIDE DEF c
<1>4. s \in Row /\ s.seg = Closed /\ s.acc = c.acc /\ s.ctx = c.ctx
  BY <1>2 DEF Row
<1> HIDE DEF s
<1>5. MeterAt(c, now) = Meter!Off(MeterAt(row, now))
  BY <1>1, <1>2, MeterClosed
<1>6. MeterAt(s, now) = MeterAt(c, now)
  BY <1>2, <1>4, MeterSame
<1>7. Meter!Kept
  <2>1. From(kept) /\ From(tomb) /\ From(disk.row) /\ From(disk.kept) /\ From(disk.tomb)
    BY DEF From, Asides
  <2>2. QED
    BY <1>1, <2>1, FromKept
<1>8. QED
  BY <1>1, <1>3, <1>5, <1>6, <1>7 DEF Meter!TurnOff

LEMMA LaunchMeters == IInv /\ Contexts /\ Launch => Meter!Begin
<1> SUFFICES ASSUME IInv, Contexts, Launch PROVE Meter!Begin
  OBVIOUS
<1>1. high + 1 \in Incs /\ contexts + 1 \in Nat
  BY HighFacts DEF IInv, Places, Launch, Contexts
<1> DEFINE r == NewRow(high + 1, contexts + 1)
<1>2. r \in Row /\ r.seg = Closed /\ r.acc = 0 /\ r.ctx = contexts + 1
  BY <1>1, NewRowFacts
<1>3. /\ row' = r /\ kept' = NoRow /\ tomb' = NoRow /\ Save(r, NoRow, NoRow)
      /\ now' = now /\ contexts' = contexts + 1
  BY DEF Launch, Install
<1> HIDE DEF r
<1>4. Meter!Kept
  BY <1>2, <1>3, NothingFrom, WriteKept DEF Rows
<1>5. MeterAt(row', now') = Meter!Zero(contexts')
  BY <1>2, <1>3, MeterFacts DEF Standing, Meter!Zero
<1>6. QED
  BY <1>3, <1>4, <1>5 DEF Meter!Begin

LEMMA RegisterMeters == IInv /\ Register => Meter!Aside
<1> SUFFICES ASSUME IInv, Register PROVE Meter!Aside
  OBVIOUS
<1>1. high + 1 \in Incs /\ row \in Row
  BY HighFacts DEF IInv, Places, Register, Live, Rows
<1> DEFINE u == Unbounded(row)
           r == [u EXCEPT !.inc = high + 1]
<1>2. u \in Row /\ u.seg = row.seg /\ u.acc = row.acc /\ u.ctx = row.ctx
  BY <1>1, RowFacts, UnboundedFacts DEF Rows
<1>3. /\ row' = r /\ kept' = NoRow /\ tomb' = NoRow /\ Save(r, NoRow, NoRow) /\ now' = now
      /\ contexts' = contexts
  BY DEF Register, Registered, Install
<1> HIDE DEF u
<1>4. r \in Row /\ r.seg = row.seg /\ r.acc = row.acc /\ r.ctx = row.ctx
  BY <1>1, <1>2 DEF Row
<1> HIDE DEF r
<1>5. Meter!Kept
  BY <1>3, <1>4, NothingFrom, WriteKept DEF Rows
<1>6. MeterAt(row', now') = MeterAt(row, now)
  BY <1>1, <1>3, <1>4, MeterSame
<1>7. QED
  BY <1>3, <1>5, <1>6 DEF Meter!Aside

LEMMA RemoveMeters == IInv /\ (Remove \/ DormantOwned) => Meter!End
<1> SUFFICES ASSUME IInv, Remove \/ DormantOwned PROVE Meter!End
  OBVIOUS
<1>1. row \in Row /\ row.seg <= now /\ now \in Nat
  BY ContextAssumption
     DEF Remove, DormantOwned, Live, IInv, Places, Segments, NotAhead, Rows
<1>2. From(Parked(row)) /\ Parked(row) \in Rows
  <2> DEFINE c == Close(row)
  <2>1. /\ c \in Row /\ c.seg = Closed /\ c.ctx = row.ctx
        /\ c.acc = row.acc + (IF row.seg = Closed THEN 0 ELSE now - row.seg)
    BY <1>1, CloseFacts
  <2> HIDE DEF c
  <2> DEFINE u == Unbounded(c)
  <2>2. u \in Row /\ u.seg = c.seg /\ u.acc = c.acc /\ u.ctx = c.ctx
    BY <2>1, RowFacts, UnboundedFacts DEF Rows
  <2> HIDE DEF u
  <2>3. MeterAt(u, now) = Meter!Off(MeterAt(row, now))
    BY <1>1, <2>1, <2>2, MeterClosed
  <2>4. Parked(row) = u
    BY DEF Parked, u, c
  <2>5. QED
    BY <2>2, <2>3, <2>4 DEF From, Rows
<1>3. PICK t \in {NoRow, Parked(row)} : Install(NoRow, NoRow, t)
  BY DEF Remove, DormantOwned
<1>4. now' = now /\ contexts' = contexts
  BY DEF Remove, DormantOwned
<1>5. Meter!Kept
  BY <1>2, <1>3, <1>4, NothingFrom, WriteKept DEF Install, Rows
<1>6. QED
  BY <1>3, <1>4, <1>5 DEF Install, MeterAt, Meter!End, Meter!None

(* A row put aside comes back in office *)
LEMMA ResumeMeters ==
    ASSUME NEW q \in Asides, NEW t \in Rows, NEW r \in Rows, Save(r, NoRow, t),
           row' = r, kept' = NoRow, tomb' = t, now' = now, contexts' = contexts,
           MeterAt(r, now) = MeterAt(q, now), From(t)
    PROVE  Meter!Resume
<1>1. Meter!Kept
  BY NothingFrom, WriteKept DEF Rows
<1>2. MeterAt(q, now) \in {MeterAt(p, now) : p \in Asides}
  OBVIOUS
<1>3. QED
  BY <1>1, <1>2 DEF Meter!Resume

LEMMA RecoverMeters == IInv /\ RecoverDormant => Meter!Resume
<1> SUFFICES ASSUME IInv, RecoverDormant PROVE Meter!Resume
  OBVIOUS
<1>1. high + 1 \in Incs /\ tomb \in Row /\ tomb.seg = Closed /\ tomb \in Asides
  BY HighFacts DEF IInv, Places, Segments, Shut, RecoverDormant, Rows, Asides
<1> DEFINE r == [tomb EXCEPT !.inc = high + 1, !.seg = Closed, !.prov = FALSE]
<1>2. r \in Row /\ r.seg = tomb.seg /\ r.acc = tomb.acc /\ r.ctx = tomb.ctx
  BY <1>1 DEF Row
<1>3. /\ row' = r /\ kept' = NoRow /\ tomb' = NoRow /\ Save(r, NoRow, NoRow) /\ now' = now
      /\ contexts' = contexts
  BY DEF RecoverDormant, Install
<1> HIDE DEF r
<1>4. MeterAt(r, now) = MeterAt(tomb, now)
  BY <1>1, <1>2, MeterSame
<1>5. QED
  BY <1>1, <1>2, <1>3, <1>4, NothingFrom, ResumeMeters DEF Rows

LEMMA RollbackMeters == IInv /\ Rollback => Meter!Resume
<1> SUFFICES ASSUME IInv, Rollback PROVE Meter!Resume
  OBVIOUS
<1>1. kept \in Row /\ kept \in Asides
  BY DEF IInv, Places, Leases, Rollback, Rows, Asides
<1>2. /\ row' = kept /\ kept' = NoRow /\ tomb' = NoRow /\ Save(kept, NoRow, NoRow) /\ now' = now
      /\ contexts' = contexts
  BY DEF Rollback, Restored, Install
<1>3. QED
  BY <1>1, <1>2, NothingFrom, ResumeMeters DEF Rows

LEMMA RebootMeters == IInv /\ Reboot => Meter!Resume \/ Meter!End
<1> SUFFICES ASSUME IInv, Reboot PROVE Meter!Resume \/ Meter!End
  OBVIOUS
<1> DEFINE r == IF disk.kept # NoRow THEN disk.kept ELSE disk.row
<1>1. /\ row' = r /\ kept' = NoRow /\ tomb' = disk.tomb /\ Save(r, NoRow, disk.tomb)
      /\ now' = now /\ contexts' = contexts /\ r \in Rows /\ disk.tomb \in Rows
  BY DEF Reboot, IInv, Places
<1>2. r # NoRow => r \in Asides
  BY DEF Asides
<1> HIDE DEF r
<1>3. From(disk.tomb)
  BY DEF From, Asides
<1>4. CASE r # NoRow
  BY <1>1, <1>2, <1>3, <1>4, ResumeMeters
<1>5. CASE r = NoRow
  <2>1. Meter!Kept
    BY <1>1, <1>3, NothingFrom, WriteKept DEF Rows
  <2>2. QED
    BY <1>1, <1>5, <2>1 DEF MeterAt, Meter!End, Meter!None
<1>6. QED
  BY <1>4, <1>5

LEMMA StageMeters ==
    ASSUME IInv, Contexts, NEW fresh \in BOOLEAN, Stage(fresh)
    PROVE  Meter!Begin \/ Meter!Aside
<1>1. high + 1 \in Incs /\ row \in Row /\ contexts + 1 \in Nat
  BY HighFacts DEF IInv, Places, Leases, Stage, Rows, Contexts
<1> DEFINE r == Staged(row, fresh)
<1>2. row' = r /\ kept' = row /\ tomb' = NoRow /\ Save(r, row, NoRow) /\ now' = now
  BY DEF Stage, Install
<1> HIDE DEF r
<1>3. CASE fresh
  <2> DEFINE n == [NewRow(high + 1, contexts + 1) EXCEPT !.prov = TRUE]
  <2>1. n \in Row /\ n.seg = Closed /\ n.acc = 0 /\ n.ctx = contexts + 1
    BY <1>1, FreshRowFacts
  <2>2. r = n
    BY <1>3 DEF Staged, r
  <2> HIDE DEF n
  <2>3. Meter!Kept
    BY <1>1, <1>2, <2>1, <2>2, NothingFrom, RowFrom, WriteKept DEF Rows
  <2>4. contexts' = contexts + 1
    BY <1>3 DEF Stage
  <2>5. MeterAt(row', now') = Meter!Zero(contexts')
    BY <1>2, <2>1, <2>2, <2>4, MeterFacts DEF Standing, Meter!Zero
  <2>6. QED
    BY <2>3, <2>4, <2>5 DEF Meter!Begin
<1>4. CASE ~ fresh
  <2> DEFINE u == Unbounded(row)
             n == [u EXCEPT !.inc = high + 1, !.prov = FALSE]
  <2>1. u \in Row /\ u.seg = row.seg /\ u.acc = row.acc /\ u.ctx = row.ctx
    BY <1>1, RowFacts, UnboundedFacts DEF Rows
  <2>2. r = n
    BY <1>4 DEF Staged, r
  <2> HIDE DEF u
  <2>3. n \in Row /\ n.seg = row.seg /\ n.acc = row.acc /\ n.ctx = row.ctx
    BY <1>1, <2>1 DEF Row
  <2> HIDE DEF n
  <2>4. Meter!Kept
    BY <1>1, <1>2, <2>2, <2>3, NothingFrom, RowFrom, WriteKept DEF Rows
  <2>5. MeterAt(row', now') = MeterAt(row, now)
    BY <1>1, <1>2, <2>2, <2>3, MeterSame
  <2>6. contexts' = contexts
    BY <1>4 DEF Stage
  <2>7. QED
    BY <2>4, <2>5, <2>6 DEF Meter!Aside
<1>5. QED
  BY <1>3, <1>4

(* A fresh context that was staged keeps what it has used since *)
LEMMA SucceededMeters ==
    ASSUME NEW r \in Row, r.prov
    PROVE  MeterAt(Succeeded(r), now) = MeterAt(r, now)
<1> DEFINE n == [r EXCEPT !.prov = FALSE]
           s == [n EXCEPT !.stopped = TRUE]
<1>1. n \in Row /\ n.acc = r.acc /\ n.seg = r.seg /\ n.ctx = r.ctx
  BY DEF Row
<1>2. Succeeded(r) \in {n, s}
  BY DEF Succeeded
<1> HIDE DEF n
<1>3. s \in Row /\ s.acc = r.acc /\ s.seg = r.seg /\ s.ctx = r.ctx
  BY <1>1 DEF Row
<1> HIDE DEF s
<1>4. QED
  BY <1>1, <1>2, <1>3, MeterSame

LEMMA CompleteMeters == IInv /\ Contexts /\ Complete => Meter!Aside
<1> SUFFICES ASSUME IInv, Contexts, Complete PROVE Meter!Aside
  OBVIOUS
<1>1. row \in Row /\ tomb = NoRow
  BY DEF IInv, Places, Leases, Complete, Rows
<1> DEFINE r == row'
<1>2. /\ r = IF lease = "fresh" THEN Succeeded(row) ELSE row
      /\ row' = r /\ kept' = NoRow /\ tomb' = tomb
      /\ Save(r, NoRow, NoRow) /\ now' = now /\ contexts' = contexts
  BY DEF Complete
<1> HIDE DEF r
<1>3. r \in Row
  BY <1>1, <1>2, SucceededFacts
<1>4. Meter!Kept
  BY <1>1, <1>2, <1>3, NothingFrom, WriteKept DEF Rows
<1>5. MeterAt(r, now) = MeterAt(row, now)
  BY <1>1, <1>2, SucceededMeters DEF Contexts
<1>6. QED
  BY <1>2, <1>4, <1>5 DEF Meter!Aside

LEMMA ClaimMeters ==
    ASSUME IInv, NEW t \in Tasks, Claim(t)
    PROVE  UNCHANGED Meter!mvars
<1>1. UNCHANGED <<now, kept, tomb, disk, contexts>>
  BY DEF Claim
<1>2. CASE row' = row
  BY <1>1, <1>2, QuietMeters
<1>3. CASE Claimable(row, tasks[t]) /\ row' = [row EXCEPT !.claimed = TRUE]
  <2> DEFINE r == [row EXCEPT !.claimed = TRUE]
  <2>1. row \in Row
    BY <1>3 DEF Claimable, Overdue, IInv, Places, Rows
  <2>2. r \in Row /\ r.seg = row.seg /\ r.acc = row.acc /\ r.ctx = row.ctx
    BY <2>1 DEF Row
  <2>3. row' = r
    BY <1>3
  <2> HIDE DEF r
  <2>4. MeterAt(row', now') = MeterAt(row, now)
    BY <1>1, <2>1, <2>2, <2>3, MeterSame
  <2>5. QED
    BY <1>1, <2>4 DEF Meter!mvars, Asides
<1>4. QED
  BY <1>2, <1>3 DEF Claim

LEMMA NextMeters == IInv /\ Contexts /\ [Next]_cvars => [Meter!Next]_(Meter!mvars)
<1> SUFFICES ASSUME IInv, Contexts, [Next]_cvars PROVE Meter!Next \/ UNCHANGED Meter!mvars
  OBVIOUS
<1>1. CASE UNCHANGED cvars
  BY <1>1, QuietMeters DEF cvars
<1>2. CASE Tick \/ Persist \/ Reboot
  BY <1>2, TickMeters, PersistMeters, RebootMeters DEF Meter!Next
<1>3. CASE Sections
  <2>1. CASE ClaimRestart \/ AbortRestart
    BY <2>1, QuietMeters DEF ClaimRestart, AbortRestart
  <2>2. CASE Launch \/ Register \/ Remove \/ DormantOwned \/ RecoverDormant
    BY <2>2, LaunchMeters, RegisterMeters, RemoveMeters, RecoverMeters DEF Meter!Next
  <2>3. CASE Stage(TRUE) \/ Stage(FALSE) \/ Complete \/ Rollback
    BY <2>3, StageMeters, CompleteMeters, RollbackMeters DEF Meter!Next
  <2>4. QED
    BY <1>3, <2>1, <2>2, <2>3 DEF Sections
<1>4. CASE \E k \in {"Active", "Stopped"} : Hook(k)
  BY <1>4, QuietMeters DEF Hook, store
<1>5. CASE HandleActive \/ HandleStopped
  BY <1>5, ActiveMeters, StoppedMeters DEF Meter!Next
<1>6. CASE \E t \in Tasks : Snapshot(t) \/ Claim(t)
  <2>1. ASSUME NEW t \in Tasks, Snapshot(t) PROVE UNCHANGED Meter!mvars
    BY <2>1, QuietMeters DEF Snapshot, store
  <2>2. QED
    BY <1>6, <2>1, ClaimMeters
<1>7. QED
  BY <1>1, <1>2, <1>3, <1>4, <1>5, <1>6 DEF Next

(* Active context is metered as ActiveMeter says: no hook, stop, restart,  *)
(* registration, rollback, recovery or crash counts time twice or drops    *)
(* time of a context, but by coming back to what was put aside, and only   *)
(* the launch of a session or a restart with a fresh context begins a      *)
(* meter at zero.                                                          *)
THEOREM ContextMetered == ContextSpec => Metered
<1>1. Init => Meter!Init
  BY DEF Init, Meter!Init, Meter!None, MeterAt, Asides
<1>2. QED
  BY InitIInv, NextIInv, InitContexts, NextContexts, NextMeters, <1>1, PTL DEF ContextSpec, Metered, Meter!Spec
================================================================================
