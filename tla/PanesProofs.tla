------------------------------ MODULE PanesProofs ------------------------------
(***************************************************************************)
(* Leases and panes in the flows of module Flows, in the behaviours in     *)
(* which a flow releases the lease it took itself (ExactSpec).             *)
(*                                                                         *)
(* The argument has two parts.  The first follows the lease: a start, and  *)
(* a restart until it ends, is the flow that took the lease of its ID last *)
(* and still has it (Duties), so that no two flows work on one ID, no      *)
(* section is refused whose refusal the flow could not cope with, and a    *)
(* lease without a flow is one the code keeps on purpose (Kept).  The      *)
(* second follows the processes of sessions driven in their panes: which   *)
(* incarnations the processes in the panes of a row and of a lease can     *)
(* have (Match), what more is known at each stage of a flow (Phys), and    *)
(* that a backend that runs is in a pane of the registry (Known).          *)
(***************************************************************************)
EXTENDS FlowsProofs

-----------------------------------------------------------------------------
(* The lease of a flow. *)

(* a restart at one of these stages may have lost its lease already *)
Over == {"release", "failed", "killProvisional"}

(* a start has no pane yet; has published its row *)
Early     == {"dir", "create", "record"}
Committed == {"launch", "make", "attach", "disown", "undo", "unmade", "finalize", "cleanup",
              "rollbackStart"}

(* a restart has not staged its target yet; works on the pane of the row;  *)
(* is not a soft one                                                       *)
Unstaged == {"snapshot", "stage"}
InPlace  == {"stage", "inspect", "custody", "respawn"}
Hard     == {"inspect", "respawn", "fallback", "custodyNew", "launch"}

(* the pane a flow has created is nobody else's yet *)
Loose(f) == f.at \in {"record", "custodyNew"}

(* The flow of w is the one that took the lease of its ID last, and the    *)
(* lease is still there.                                                   *)
Held(w) == /\ work[w].id \in Ids
           /\ holder[work[w].id] = w
           /\ leases[work[w].id].inc # 0

Keeps(f) == \/ f.flow = "start"
            \/ f.flow = "restart" /\ f.at \notin Over

(* What the row and the lease are like while it does *)
Duty(f, row, l) ==
    /\ f.flow \in {"start", "restart", "kill"} => l.inc = f.tok
    /\ f.flow = "start" =>
          /\ l.phase = "Starting"
          /\ f.at \in Early => l.pane = None
          /\ f.at \notin Early \cup {"release"} => l.pane = f.pane /\ l.pane # None
          /\ f.at \in Committed => row.inc = f.tok
    /\ f.flow = "restart" =>
          /\ l.phase = "Restarting"
          /\ f.at \in Unstaged => l.target = 0
          /\ f.at \notin Unstaged \cup Over => l.target = f.target /\ f.target # 0
          /\ f.at \in InPlace => f.pane = row.pane
          /\ f.mode = "soft" /\ f.at \notin Over => f.pane = row.pane
          /\ f.at \in Hard => f.mode # "soft"
    /\ f.flow = "kill" => l.phase = "Stopping"

OnDuty(w) == /\ Keeps(work[w]) => Held(w)
             /\ Held(w) => Duty(work[w], sessions[work[w].id], leases[work[w].id])
             /\ work[w].at \notin {"giveUp", "dropNew"}

Duties == \A w \in Workers : OnDuty(w)

(* a pane that is in no row and no lease, and is not only being created, is *)
(* that of one flow                                                         *)
LooseApart ==
    \A w \in Workers : Loose(work[w]) =>
        /\ work[w].pane \in Panes /\ FreshPane(work[w].pane)
        /\ proc[work[w].pane] # Unborn
        /\ \A v \in Workers \ {w} : Loose(work[v]) => work[v].pane # work[w].pane

Born == \A p \in Panes : FreshPane(p) \/ proc[p] # Unborn

(* why a lease without a flow is kept *)
Reason(row, l) ==
    \/ l.phase = "Stopping"
    \/ l.phase = "Restarting" /\ (l.pane # None \/ row.inc # l.inc)
    \/ l.phase = "Starting" /\ (l.pane # None \/ row.inc = l.inc)

Attended(id) == \E w \in Workers : /\ work[w].flow \in {"start", "restart"}
                                   /\ work[w].id = id /\ holder[id] = w

Kept(id) == leases[id].inc # 0 => Reason(sessions[id], leases[id]) \/ Attended(id)

HInv == /\ holder = [id \in Ids |-> holder[id]]
        /\ Duties /\ LooseApart /\ Born
        /\ \A id \in Ids : Kept(id)

-----------------------------------------------------------------------------
(* What most steps have in common. *)

(* as far as flows on duty look at it, the ID is left alone *)
Same(id) == /\ leases'[id] = leases[id]
            /\ sessions'[id].inc = sessions[id].inc
            /\ sessions'[id].pane = sessions[id].pane

(* the flows in V do not move, and only one ID changes: one that the flow  *)
(* which acts has on duty, whose stop ends, or without a lease             *)
Aside(V, id) ==
    /\ \A v \in V : work'[v] = work[v]
    /\ \A j \in Ids \ {id} : Same(j)
    /\ \/ Same(id)
       \/ holder[id] \notin V
       \/ leases[id].phase = "Stopping" /\ leases'[id] \in {leases[id], NoLease}
       \/ leases[id].inc = 0 /\ leases'[id].inc = 0

(* a pane, once there, does not go back to not having been *)
Aging == \A p \in Panes : proc[p] # Unborn => proc'[p] # Unborn

(* no pane but p comes into the registry *)
NoNewPane(p) == \A q \in Panes : FreshPane(q) /\ q # p => FreshPane(q)'

LEMMA DutySame ==
    ASSUME NEW f, NEW row, NEW l, NEW new, Duty(f, row, l),
           \/ new.inc = row.inc /\ new.pane = row.pane
           \/ l.phase = "Stopping"
    PROVE  Duty(f, new, l)
BY DEF Duty

LEMMA OthersOnDuty ==
    ASSUME Duties, NEW V \in SUBSET Workers, NEW id \in Ids, UNCHANGED holder, Aside(V, id),
           NoLease.inc = 0
    PROVE  \A v \in V : OnDuty(v)'
<1>. SUFFICES ASSUME NEW v \in V PROVE OnDuty(v)'
    OBVIOUS
<1>1. work'[v] = work[v] /\ OnDuty(v)
    BY DEF Aside, Duties
<1>2. CASE work[v].id \in Ids /\ Same(work[v].id)
    <2>1. Held(v)' <=> Held(v)
        BY <1>1, <1>2 DEF Held, Same
    <2>2. Held(v) => Duty(work[v], sessions'[work[v].id], leases[work[v].id])
        BY <1>1, <1>2, DutySame DEF OnDuty, Same
    <2>. QED BY <1>1, <1>2, <2>1, <2>2 DEF OnDuty, Same
<1>3. CASE work[v].id \notin Ids
    BY <1>1, <1>3 DEF OnDuty, Held
<1>4. CASE work[v].id = id /\ holder[id] \notin V
    BY <1>1, <1>4 DEF OnDuty, Held
<1>5. CASE work[v].id = id /\ leases[id].inc = 0 /\ leases'[id].inc = 0
    BY <1>1, <1>5 DEF OnDuty, Held
<1>6. CASE work[v].id = id /\ leases[id].phase = "Stopping" /\ leases'[id] \in {leases[id], NoLease}
    <2>1. ~(Keeps(work[v]))
        BY <1>1, <1>6 DEF OnDuty, Duty, Keeps
    <2>2. Held(v)' => Held(v) /\ leases'[id] = leases[id]
        BY <1>1, <1>6 DEF Held
    <2>3. Held(v) => Duty(work[v], sessions'[id], leases[id])
        BY <1>1, <1>6, DutySame DEF OnDuty
    <2>. QED BY <1>1, <1>6, <2>1, <2>2, <2>3 DEF OnDuty
<1>. QED BY <1>2, <1>3, <1>4, <1>5, <1>6 DEF Aside

LEMMA PanesKept ==
    ASSUME IInv, NEW id \in Ids, NEW p, \A j \in Ids \ {id} : Same(j),
           sessions'[id].pane \in {sessions[id].pane, leases[id].pane, None, p},
           leases'[id].pane \in {sessions[id].pane, leases[id].pane, None, p},
           leases'[id].prev.pane \in {sessions[id].pane, leases[id].prev.pane, None}
    PROVE  NoNewPane(p)
<1>1. None \notin Panes
    BY NoneIsFresh
<1>. SUFFICES ASSUME NEW q \in Panes, FreshPane(q), q # p, NEW j \in Ids
              PROVE  /\ sessions'[j].pane # q /\ leases'[j].pane # q
                     /\ leases'[j].prev.pane # q
    BY DEF NoNewPane, FreshPane
<1>. QED BY <1>1 DEF FreshPane, Same

LEMMA LooseKept ==
    ASSUME LooseApart, Born, NEW w \in Workers,
           \A v \in Workers \ {w} : work'[v] = work[v],
           ~Loose(work'[w]), Aging, NEW p, NoNewPane(p),
           p \in Panes => Loose(work[w]) /\ p = work[w].pane
    PROVE  LooseApart' /\ Born'
<1>1. p \in Panes => proc[p] # Unborn
    BY DEF LooseApart
<1>2. Born'
    BY <1>1 DEF Born, Aging, NoNewPane
<1>3. ASSUME NEW v \in Workers, Loose(work'[v]) PROVE v # w /\ work'[v] = work[v] /\ Loose(work[v])
    BY <1>3
<1>4. ASSUME NEW v \in Workers \ {w}, Loose(work[v])
      PROVE  /\ work[v].pane \in Panes /\ FreshPane(work[v].pane)'
             /\ proc'[work[v].pane] # Unborn
    BY <1>4 DEF LooseApart, NoNewPane, Aging
<1>. QED BY <1>2, <1>3, <1>4 DEF LooseApart

(* The lease of the ID stays one that is kept, whoever attended to it *)
StillKept(w, id) ==
    \/ leases'[id].inc = 0 \/ Reason(sessions'[id], leases'[id])
    \/ holder[id] = w /\ work'[w].flow \in {"start", "restart"} /\ work'[w].id = id
    \/ /\ Same(id)
       /\ \/ work'[w].flow = work[w].flow /\ work'[w].id = id
          \/ ~(holder[id] = w /\ work[w].flow \in {"start", "restart"})

LEMMA ReasonSame ==
    ASSUME NEW row, NEW l, NEW new, Reason(row, l), new.inc = row.inc
    PROVE  Reason(new, l)
BY DEF Reason

LEMMA KeptOn ==
    ASSUME \A i \in Ids : Kept(i), NEW w \in Workers, NEW id \in Ids, work[w].id = id,
           UNCHANGED holder, Aside(Workers \ {w}, id), StillKept(w, id)
    PROVE  \A i \in Ids : Kept(i)'
<1>. SUFFICES ASSUME NEW i \in Ids, leases'[i].inc # 0
              PROVE  Reason(sessions'[i], leases'[i]) \/ Attended(i)'
    BY DEF Kept
<1>1. CASE Same(i)
    <2>1. Reason(sessions[i], leases[i]) => Reason(sessions'[i], leases'[i])
        BY <1>1, ReasonSame DEF Same
    <2>2. Reason(sessions[i], leases[i]) \/ Attended(i)
        BY <1>1 DEF Kept, Same
    <2>3. ASSUME NEW v \in Workers \ {w}, work[v].flow \in {"start", "restart"},
                 work[v].id = i /\ holder[i] = v
          PROVE  Attended(i)'
        BY <2>3 DEF Attended, Aside
    <2>4. CASE i # id
        BY <2>1, <2>2, <2>3, <2>4 DEF Attended
    <2>5. CASE i = id
        BY <2>1, <2>2, <2>3, <2>5 DEF Attended, StillKept
    <2>. QED BY <2>4, <2>5
<1>2. CASE i = id /\ ~Same(i)
    BY <1>2 DEF StillKept, Attended
<1>. QED BY <1>1, <1>2 DEF Aside

LEMMA FlowActs ==
    ASSUME HInv, NEW w \in Workers, NEW id \in Ids, work[w].id = id,
           UNCHANGED holder, Aside(Workers \ {w}, id), Aging,
           NEW p, NoNewPane(p), p \in Panes => Loose(work[w]) /\ p = work[w].pane,
           ~Loose(work'[w]), OnDuty(w)', StillKept(w, id)
    PROVE  HInv'
<1>1. \A v \in Workers \ {w} : OnDuty(v)' /\ work'[v] = work[v]
    BY OthersOnDuty DEF HInv, NoLease, Aside
<1>2. Duties'
    BY <1>1 DEF Duties
<1>3. LooseApart' /\ Born'
    BY <1>1, LooseKept DEF HInv
<1>4. \A i \in Ids : Kept(i)'
    BY KeptOn DEF HInv
<1>. QED BY <1>2, <1>3, <1>4 DEF HInv

(* The registry is left alone *)
LEMMA QuietSame ==
    ASSUME UNCHANGED vars
    PROVE  \A id \in Ids : Same(id)
BY DEF vars, Same

LEMMA QuietPanes ==
    ASSUME UNCHANGED vars
    PROVE  NoNewPane(None)
BY DEF vars, NoNewPane, FreshPane

(* From one stage of a flow to another of which no more is known *)
Forward(f, at, mode) ==
    /\ mode # "soft" \/ mode = f.mode
    /\ at \notin {"giveUp", "dropNew", "record", "custodyNew"}
    /\ f.flow = "start" =>
          /\ at \in Early => f.at \in Early
          /\ at \notin Early \cup {"release"} => f.at \notin Early \cup {"release"}
          /\ at \in Committed => f.at \in Committed
    /\ f.flow = "restart" =>
          /\ f.at \in Over => at \in Over
          /\ f.at \in Unstaged => at \in Unstaged \cup Over
          /\ at \in Unstaged => f.at \in Unstaged
          /\ at \in InPlace => f.at \in InPlace \/ f.mode = "soft"
          /\ at \in Hard => f.at \in Hard \/ mode # "soft"

LEMMA DutyForward ==
    ASSUME NEW f, NEW g, NEW row, NEW l, Duty(f, row, l), Forward(f, g.at, g.mode),
           g.flow = f.flow, g.tok = f.tok, g.target = f.target, g.pane = f.pane
    PROVE  Duty(g, row, l)
BY DEF Duty, Forward, Over, Early, Committed, Unstaged, InPlace, Hard

LEMMA QuietSet ==
    ASSUME HInv, Working, NEW w \in Workers, work[w].id \in Ids, NEW g,
           work' = [work EXCEPT ![w] = g], UNCHANGED vars, UNCHANGED holder, Aging,
           g.flow = work[w].flow, g.id = work[w].id, g.tok = work[w].tok,
           g.target = work[w].target, g.pane = work[w].pane,
           Forward(work[w], g.at, g.mode)
    PROVE  HInv'
<1>1. work'[w] = g /\ \A v \in Workers \ {w} : work'[v] = work[v]
    BY DEF Working
<1>2. OnDuty(w)'
    <2>1. Keeps(g) => Keeps(work[w])
        BY DEF Keeps, Forward
    <2>2. OnDuty(w)
        BY DEF HInv, Duties
    <2>3. Held(w) <=> Held(w)'
        BY <1>1 DEF Held, vars
    <2>4. Held(w) => Duty(g, sessions[work[w].id], leases[work[w].id])
        BY <2>2, DutyForward DEF OnDuty
    <2>. QED BY <1>1, <2>1, <2>2, <2>3, <2>4 DEF OnDuty, vars, Forward
<1>3. Aside(Workers \ {w}, work[w].id) /\ StillKept(w, work[w].id)
    BY <1>1, QuietSame DEF Aside, StillKept
<1>4. ~Loose(work'[w])
    BY <1>1 DEF Loose, Forward
<1>. QED BY <1>2, <1>3, <1>4, QuietPanes, NoneIsFresh, FlowActs

LEMMA QuietGoto ==
    ASSUME HInv, Working, NEW w \in Workers, work[w].id \in Ids, NEW at,
           Goto(w, at), UNCHANGED vars, UNCHANGED holder, Aging, Forward(work[w], at, work[w].mode)
    PROVE  HInv'
<1>. DEFINE g == [work[w] EXCEPT !.at = at]
<1>1. work[w] \in Flow
    BY DEF Working
<1>2. /\ g.at = at /\ g.flow = work[w].flow /\ g.id = work[w].id /\ g.tok = work[w].tok
      /\ g.target = work[w].target /\ g.pane = work[w].pane /\ g.mode = work[w].mode
    BY <1>1 DEF Flow
<1>3. work' = [work EXCEPT ![w] = g]
    BY DEF Goto
<1>. HIDE DEF g
<1>. QED BY <1>2, <1>3, QuietSet

(* A flow ends *)
LEMMA IdleOnDuty ==
    ASSUME NEW w \in Workers, work'[w] = Idle
    PROVE  /\ ~Loose(work'[w])
           /\ (Held(w)' => Duty(work[w], sessions[work[w].id], leases[work[w].id])') => OnDuty(w)'
BY DEF Loose, Idle, OnDuty, Keeps

LEMMA IdleDuty ==
    ASSUME NEW row, NEW l
    PROVE  Duty(Idle, row, l)
BY DEF Duty, Idle

LEMMA QuietEnd ==
    ASSUME HInv, Working, NEW w \in Workers, NEW id \in Ids, work[w].id = id,
           End(w), UNCHANGED vars, UNCHANGED holder, Aging,
           Held(w) /\ work[w].flow \in {"start", "restart"} => Reason(sessions[id], leases[id])
    PROVE  HInv'
<1>1. work'[w] = Idle /\ \A v \in Workers \ {w} : work'[v] = work[v]
    BY DEF End, Working
<1>2. OnDuty(w)' /\ ~Loose(work'[w])
    BY <1>1, IdleOnDuty, IdleDuty
<1>3. Aside(Workers \ {w}, id)
    BY <1>1, QuietSame DEF Aside
<1>4. StillKept(w, id)
    BY QuietSame DEF StillKept, Held, vars
<1>. QED BY <1>2, <1>3, <1>4, QuietPanes, NoneIsFresh, FlowActs

(* A flow has a new pane created *)
LEMMA NewPaneActs ==
    ASSUME HInv, Working, proc \in [Panes -> Int],
           NEW w \in Workers, NEW inc \in Nat, NEW at, NewPane(w, inc, at),
           UNCHANGED vars, UNCHANGED holder,
           \/ At(w, "start", "create") /\ at = "record"
           \/ At(w, "restart", "fallback") /\ at = "custodyNew"
    PROVE  HInv'
<1>1. PICK p \in Panes : /\ proc[p] = Unborn /\ SetProc(p, inc)
                         /\ work' = [work EXCEPT ![w] = [@ EXCEPT !.at = at, !.pane = p]]
    BY DEF NewPane
<1>. DEFINE f == work[w]
            g == [f EXCEPT !.at = at, !.pane = p]
<1>2. f \in Flow /\ f.id \in Ids
    BY AtFlow
<1>3. /\ g.at = at /\ g.pane = p /\ g.flow = f.flow /\ g.id = f.id /\ g.tok = f.tok
      /\ g.target = f.target /\ g.mode = f.mode
    BY <1>2 DEF Flow
<1>4. work' = [work EXCEPT ![w] = g]
    BY <1>1
<1>. HIDE DEF g
<1>5. work'[w] = g /\ \A v \in Workers \ {w} : work'[v] = work[v]
    BY <1>4 DEF Working
<1>6. /\ proc'[p] # Unborn /\ FreshPane(p)
      /\ \A q \in Panes \ {p} : proc'[q] = proc[q]
    BY <1>1 DEF SetProc, HInv, Born, Unborn
<1>7. \A q \in Panes : FreshPane(q)' <=> FreshPane(q)
    BY DEF FreshPane, vars
<1>8. OnDuty(w)'
    <2>1. OnDuty(w) /\ (Held(w)' <=> Held(w))
        BY <1>3, <1>5 DEF HInv, Duties, Held, vars
    <2>2. Keeps(f)
        BY DEF Keeps, At, Over
    <2>3. ASSUME NEW row, NEW l, Duty(f, row, l) PROVE Duty(g, row, l)
        BY <1>3, <2>3 DEF Duty, At, Over, Early, Committed, Unstaged, InPlace, Hard
    <2>4. g.at \notin {"giveUp", "dropNew"}
        BY <1>3
    <2>. QED BY <1>3, <1>5, <2>1, <2>2, <2>3, <2>4 DEF OnDuty, vars
<1>9. Duties'
    <2>1. Aside(Workers \ {w}, f.id)
        BY <1>2, <1>5, QuietSame DEF Aside
    <2>2. \A v \in Workers \ {w} : OnDuty(v)'
        BY <1>2, <2>1, OthersOnDuty DEF HInv, NoLease
    <2>. QED BY <1>8, <2>2 DEF Duties
<1>10. LooseApart' /\ Born'
    <2>1. Born'
        BY <1>6, <1>7 DEF HInv, Born
    <2>2. ASSUME NEW v \in Workers \ {w}, Loose(work[v])
          PROVE  /\ work[v].pane \in Panes /\ FreshPane(work[v].pane)' /\ work[v].pane # p
                 /\ proc'[work[v].pane] # Unborn
        BY <1>1, <1>6, <1>7, <2>2 DEF HInv, LooseApart
    <2>3. \A v, u \in Workers : Loose(work[v]) /\ Loose(work[u]) /\ u # v => work[u].pane # work[v].pane
        BY DEF HInv, LooseApart
    <2>. QED BY <1>3, <1>5, <1>6, <1>7, <2>1, <2>2, <2>3 DEF LooseApart
<1>11. \A i \in Ids : Kept(i)'
    <2>1. Aside(Workers \ {w}, f.id) /\ StillKept(w, f.id)
        BY <1>2, <1>3, <1>5, QuietSame DEF Aside, StillKept
    <2>. QED BY <1>2, <2>1, KeptOn DEF HInv
<1>. QED BY <1>9, <1>10, <1>11 DEF HInv

LEMMA SetProcAges ==
    ASSUME proc \in [Panes -> Int], NEW p, NEW inc \in Nat, SetProc(p, inc)
    PROVE  Aging
BY DEF SetProc, Aging, Unborn

LEMMA SameProcAges == ASSUME UNCHANGED proc PROVE Aging
BY DEF Aging

LEMMA GoneAges == ASSUME proc \in [Panes -> Int], NEW p, SetProc(p, Gone) PROVE Aging
BY SetProcAges DEF Gone

(* Drop leaves the registry alone *)
LEMMA DropGoes ==
    ASSUME proc \in [Panes -> Int], NEW w, NEW inc, NEW dropped, NEW other,
           Drop(w, inc, dropped, Goto(w, other))
    PROVE  UNCHANGED vars /\ Aging /\ (Goto(w, dropped) \/ Goto(w, other))
BY GoneAges, SameProcAges DEF Drop, Registry

LEMMA DropEnds ==
    ASSUME proc \in [Panes -> Int], NEW w, NEW inc, NEW dropped, Drop(w, inc, dropped, End(w))
    PROVE  UNCHANGED vars /\ Aging /\ (Goto(w, dropped) \/ End(w))
BY GoneAges, SameProcAges DEF Drop, Registry

-----------------------------------------------------------------------------
(* What the sections do to the row and the lease of their ID. *)

(* the lease goes on *)
Likewise(l, new) == new.inc = l.inc /\ new.phase = l.phase /\ new.target = l.target /\ new.prev = l.prev

Elsewhere(id) == \A j \in Ids \ {id} : Same(j)

LEMMA DirClaimed ==
    ASSUME IInv, NEW id \in Ids, NEW tok, NEW dir, RecordProjectDirClaim(id, tok, dir)
    PROVE  /\ Elsewhere(id) /\ UNCHANGED sessions
           /\ Likewise(leases[id], leases'[id])
           /\ leases'[id].pane = leases[id].pane /\ leases'[id].paneOwner = leases[id].paneOwner
           /\ leases'[id].sid = leases[id].sid
<1>1. /\ leases' = [leases EXCEPT ![id] = [@ EXCEPT !.dir = dir]] /\ UNCHANGED sessions
      /\ leases[id] \in Lease
    BY OfId DEF RecordProjectDirClaim
<1>2. leases'[id] = [leases[id] EXCEPT !.dir = dir] /\ \A j \in Ids \ {id} : leases'[j] = leases[j]
    BY <1>1 DEF IInv
<1>. QED BY <1>1, <1>2 DEF Elsewhere, Same, Likewise, Lease

LEMMA PaneRecorded ==
    ASSUME IInv, NEW id \in Ids, NEW tok, NEW pane, RecordInertStartPane(id, tok, pane)
    PROVE  /\ Elsewhere(id) /\ UNCHANGED sessions
           /\ Likewise(leases[id], leases'[id])
           /\ leases'[id].pane = pane
           /\ leases[id].phase = "Starting" => leases'[id].paneOwner = tok
           /\ leases[id].phase = "Restarting" => leases'[id].paneOwner = leases[id].target
           /\ leases'[id].sid = leases[id].sid
<1>. DEFINE owner == IF leases[id].phase = "Starting" THEN tok ELSE leases[id].target
<1>1. /\ leases' = [leases EXCEPT ![id] = [@ EXCEPT !.pane = pane, !.paneOwner = owner]]
      /\ UNCHANGED sessions /\ leases[id] \in Lease
    BY OfId DEF RecordInertStartPane
<1>. HIDE DEF owner
<1>2. /\ leases'[id] = [leases[id] EXCEPT !.pane = pane, !.paneOwner = owner]
      /\ \A j \in Ids \ {id} : leases'[j] = leases[j]
    BY <1>1 DEF IInv
<1>. DEFINE l == [leases[id] EXCEPT !.pane = pane, !.paneOwner = owner]
<1>3. /\ Likewise(leases[id], l) /\ l.pane = pane
      /\ l.paneOwner = owner /\ l.sid = leases[id].sid
    BY <1>1 DEF Likewise, Lease
<1>. HIDE DEF l
<1>4. Elsewhere(id)
    BY <1>1, <1>2 DEF Elsewhere, Same
<1>. QED BY <1>1, <1>2, <1>3, <1>4 DEF l, owner

LEMMA StartCommitted ==
    ASSUME IInv, NEW id \in Ids, NEW tok, NEW dir, NEW cred, tok # 0,
           CommitReservedStart(id, tok, dir, cred)
    PROVE  /\ Elsewhere(id) /\ UNCHANGED leases
           /\ sessions'[id].inc = tok /\ sessions'[id].pane = leases[id].pane
           /\ sessions[id].inc = 0
<1>. DEFINE pane == leases[id].pane
            m == [NoRow EXCEPT !.backend = TRUE, !.cred = cred, !.dir = dir]
            row == [m EXCEPT !.inc     = tok,
                             !.pane    = pane,
                             !.backend = IF sessions[id].sid # None THEN TRUE ELSE m.backend,
                             !.sid     = IF Live(id) THEN sessions[id].sid ELSE m.sid]
            gone == {j \in Ids \ {id} : pane # None /\ sessions[j].pane = pane}
<1>1. row.inc = tok /\ row.pane = pane
    BY DEF NoRow
<1>2. RegisterWithOwner(id, pane, m, tok) /\ pane # None /\ sessions[id].inc = 0
    BY DEF CommitReservedStart, Live
<1>3. gone = {}
    BY <1>2 DEF IInv, PanesApart, PanesOf
<1>4. /\ sessions' = [j \in Ids |-> IF j = id THEN row ELSE IF j \in gone THEN NoRow ELSE sessions[j]]
      /\ UNCHANGED leases
    <2>1. ~\E j \in gone : Leased(j)
        BY <1>3
    <2>. QED BY <1>2, <2>1 DEF RegisterWithOwner
<1>. HIDE DEF row, gone
<1>. QED BY <1>1, <1>2, <1>3, <1>4 DEF Elsewhere, Same

LEMMA StartFinalized ==
    ASSUME IInv, NEW id \in Ids, NEW tok, NEW sid, FinalizeReservedStart(id, tok, sid)
    PROVE  Elsewhere(id) /\ Same(id) /\ UNCHANGED leases
<1>. DEFINE row == Refreshed(sessions[id], sessions[id].pane, sid, sessions[id].dir, FALSE)
<1>1. sessions[id] \in Row
    BY OfId
<1>2. row.inc = sessions[id].inc /\ row.pane = sessions[id].pane
    BY <1>1 DEF Refreshed, Row
<1>3. sessions' = [sessions EXCEPT ![id] = row] /\ UNCHANGED leases
    BY DEF FinalizeReservedStart
<1>. HIDE DEF row
<1>. QED BY <1>2, <1>3 DEF Elsewhere, Same, IInv

LEMMA StartRolledBack ==
    ASSUME IInv, NEW id \in Ids, NEW tok, NEW pane, RollbackReservedStart(id, tok, pane)
    PROVE  /\ Elsewhere(id) /\ sessions'[id] = NoRow
           /\ Likewise(leases[id], leases'[id]) /\ leases'[id].sid = leases[id].sid
           /\ \/ leases'[id] = leases[id]
              \/ leases'[id].pane = None /\ leases'[id].paneOwner = 0
           /\ leases[id].pane = pane /\ leases[id].paneOwner = tok => leases'[id].pane = None
<1>1. leases[id] \in Lease /\ sessions' = [sessions EXCEPT ![id] = NoRow]
    BY OfId DEF RollbackReservedStart
<1>2. sessions'[id] = NoRow /\ \A j \in Ids \ {id} : sessions'[j] = sessions[j]
    BY <1>1 DEF IInv
<1>3. CASE leases' = leases /\ ~(leases[id].pane = pane /\ leases[id].paneOwner = tok)
    BY <1>2, <1>3 DEF Elsewhere, Same, Likewise
<1>4. CASE leases' = [leases EXCEPT ![id] = [@ EXCEPT !.pane = None, !.paneOwner = 0]]
    <2>1. /\ leases'[id] = [leases[id] EXCEPT !.pane = None, !.paneOwner = 0]
          /\ \A j \in Ids \ {id} : leases'[j] = leases[j]
        BY <1>4 DEF IInv
    <2>. QED BY <1>1, <1>2, <2>1 DEF Elsewhere, Same, Likewise, Lease
<1>. QED BY <1>3, <1>4 DEF RollbackReservedStart

LEMMA Aborted ==
    ASSUME IInv, NEW id \in Ids, NEW tok, AbortLifecycle(id, tok)
    PROVE  Elsewhere(id) /\ UNCHANGED sessions /\ leases'[id] = NoLease /\ leases'[id].inc = 0
BY DEF AbortLifecycle, IInv, Elsewhere, Same, NoLease

LEMMA RestartStaged ==
    ASSUME IInv, NEW id \in Ids, NEW tok, NEW renew, NEW withCred,
           StageRestartLaunch(id, tok, renew, withCred)
    PROVE  /\ Elsewhere(id)
           /\ leases[id].target = 0 /\ sessions[id].inc = tok
           /\ sessions'[id].inc = NextInc /\ sessions'[id].pane = sessions[id].pane
           /\ leases'[id].inc = leases[id].inc /\ leases'[id].phase = leases[id].phase
           /\ leases'[id].target = NextInc /\ leases'[id].prev = sessions[id]
           /\ leases'[id].pane = leases[id].pane /\ leases'[id].paneOwner = leases[id].paneOwner
           /\ leases'[id].sid = leases[id].sid
<1>. DEFINE old == sessions[id]
            row == [old EXCEPT !.inc     = NextInc,
                               !.backend = TRUE,
                               !.sid     = IF renew THEN None ELSE @,
                               !.cred    = IF ~renew THEN @ ELSE IF withCred THEN NextInc ELSE 0]
            l   == [leases[id] EXCEPT !.target = NextInc, !.prev = old]
<1>1. /\ sessions' = [sessions EXCEPT ![id] = row] /\ leases' = [leases EXCEPT ![id] = l]
      /\ leases[id].target = 0 /\ old.inc = tok
    BY DEF StageRestartLaunch
<1>2. old \in Row /\ leases[id] \in Lease
    BY OfId
<1>3. /\ row.inc = NextInc /\ row.pane = old.pane
      /\ l.inc = leases[id].inc /\ l.phase = leases[id].phase /\ l.target = NextInc /\ l.prev = old
      /\ l.pane = leases[id].pane /\ l.paneOwner = leases[id].paneOwner /\ l.sid = leases[id].sid
    BY <1>2 DEF Row, Lease
<1>. HIDE DEF row, l
<1>. QED BY <1>1, <1>3 DEF Elsewhere, Same, IInv

LEMMA BackendClaimed ==
    ASSUME IInv, NEW id \in Ids, NEW tok, NEW target, NEW sid,
           \/ RecordRestartBackendClaim(id, tok, target, sid)
           \/ ClearRestartBackendClaim(id, tok, target, sid)
    PROVE  /\ Elsewhere(id) /\ UNCHANGED sessions
           /\ Likewise(leases[id], leases'[id])
           /\ leases'[id].pane = leases[id].pane /\ leases'[id].paneOwner = leases[id].paneOwner
<1>1. PICK s, o : leases' = [leases EXCEPT ![id] = [@ EXCEPT !.sid = s, !.sidOwner = o]]
    BY DEF RecordRestartBackendClaim, ClearRestartBackendClaim
<1>2. UNCHANGED sessions /\ leases[id] \in Lease
    BY OfId DEF RecordRestartBackendClaim, ClearRestartBackendClaim
<1>3. /\ leases'[id] = [leases[id] EXCEPT !.sid = s, !.sidOwner = o]
      /\ \A j \in Ids \ {id} : leases'[j] = leases[j]
    BY <1>1 DEF IInv
<1>. QED BY <1>2, <1>3 DEF Elsewhere, Same, Likewise, Lease

LEMMA RestartCompleted ==
    ASSUME IInv, NEW id \in Ids, NEW tok, NEW target, NEW sid, NEW dir,
           CompleteRestartLaunch(id, tok, target, sid, dir)
    PROVE  /\ Elsewhere(id) /\ leases'[id] = NoLease /\ leases'[id].inc = 0
           /\ sessions'[id].inc = sessions[id].inc
           /\ sessions'[id].pane = IF leases[id].pane # None THEN leases[id].pane
                                   ELSE sessions[id].pane
<1>. DEFINE pane == IF leases[id].pane # None THEN leases[id].pane ELSE sessions[id].pane
            row == Refreshed(sessions[id], pane, sid, dir, sessions[id].canon)
<1>1. sessions[id] \in Row
    BY OfId
<1>. HIDE DEF pane
<1>2. row.inc = sessions[id].inc /\ row.pane = pane
    BY <1>1 DEF Refreshed, Row
<1>3. sessions' = [sessions EXCEPT ![id] = row] /\ leases' = [leases EXCEPT ![id] = NoLease]
    BY DEF CompleteRestartLaunch, pane
<1>. HIDE DEF row
<1>. QED BY <1>2, <1>3 DEF Elsewhere, Same, IInv, NoLease, pane

LEMMA RestartRolledBack ==
    ASSUME IInv, NEW id \in Ids, NEW tok, NEW target, RollbackRestartLaunch(id, tok, target)
    PROVE  /\ Elsewhere(id) /\ leases'[id] = NoLease /\ leases'[id].inc = 0
           /\ sessions'[id] = leases[id].prev
           /\ leases[id].target # 0
           /\ leases[id].prev.inc = tok /\ leases[id].prev.pane = sessions[id].pane
<1>1. /\ sessions' = [sessions EXCEPT ![id] = leases[id].prev]
      /\ leases' = [leases EXCEPT ![id] = NoLease]
      /\ leases[id].phase = "Restarting" /\ leases[id].prev.inc # 0 /\ leases[id].prev.inc = tok
    BY DEF RollbackRestartLaunch, StagedFor, Holds
<1>2. Good(sessions[id], dormant[id], leases[id]) /\ leases[id].inc \in Nat /\ leases[id].target \in Nat
    BY OfId, RowTypes
<1>3. leases[id].target # 0 /\ leases[id].prev.pane = sessions[id].pane
    BY <1>1, <1>2, NoRowType DEF Good
<1>. QED BY <1>1, <1>3 DEF Elsewhere, Same, IInv, NoLease

(* A section whose effect the flow on duty has on its own ID.              *)
LEMMA DutyActs ==
    ASSUME HInv, Working, IInv, NEW w \in Workers, NEW id \in Ids, work[w].id = id,
           Held(w), UNCHANGED holder, Aging, NEW g, work' = [work EXCEPT ![w] = g],
           \A j \in Ids \ {id} : Same(j),
           NEW p, p \in Panes => Loose(work[w]) /\ p = work[w].pane,
           sessions'[id].pane \in {sessions[id].pane, leases[id].pane, None, p},
           leases'[id].pane \in {sessions[id].pane, leases[id].pane, None, p},
           leases'[id].prev.pane \in {sessions[id].pane, leases[id].prev.pane, None},
           g.at \notin {"record", "custodyNew", "giveUp", "dropNew"}, g.id = id,
           g.flow = work[w].flow, g.flow \in {"start", "restart"},
           \/ leases'[id].inc # 0 /\ Duty(g, sessions'[id], leases'[id])
           \/ leases'[id].inc = 0 /\ g.flow = "restart" /\ g.at \in Over
    PROVE  HInv'
<1>1. work'[w] = g /\ \A v \in Workers \ {w} : work'[v] = work[v]
    BY DEF Working
<1>2. holder[id] = w
    BY DEF Held
<1>3. OnDuty(w)'
    BY <1>1, <1>2 DEF OnDuty, Held, Keeps
<1>4. Aside(Workers \ {w}, id) /\ StillKept(w, id) /\ ~Loose(work'[w])
    BY <1>1, <1>2 DEF Aside, StillKept, Loose
<1>5. NoNewPane(p)
    BY PanesKept
<1>. QED BY <1>3, <1>4, <1>5, FlowActs


(* What a flow that moves on takes along *)
Steps(f, g, at) == /\ g.at = at /\ g.flow = f.flow /\ g.id = f.id /\ g.tok = f.tok
                   /\ g.target = f.target /\ g.pane = f.pane /\ g.mode = f.mode
                   /\ g.sid = f.sid

LEMMA GotoMoves ==
    ASSUME Working, NEW w \in Workers, NEW at, Goto(w, at)
    PROVE  \E g : work' = [work EXCEPT ![w] = g] /\ Steps(work[w], g, at)
<1>. DEFINE g == [work[w] EXCEPT !.at = at]
<1>1. work[w] \in Flow
    BY DEF Working
<1>2. Steps(work[w], g, at)
    BY <1>1 DEF Flow, Steps
<1>3. work' = [work EXCEPT ![w] = g]
    BY DEF Goto
<1>. QED BY <1>2, <1>3

LEMMA DutyGoto ==
    ASSUME HInv, Working, IInv, NEW w \in Workers, NEW id \in Ids, work[w].id = id,
           Held(w), UNCHANGED holder, UNCHANGED proc, NEW at, Goto(w, at), Elsewhere(id),
           NEW p, p \in Panes => Loose(work[w]) /\ p = work[w].pane,
           sessions'[id].pane \in {sessions[id].pane, leases[id].pane, None, p},
           leases'[id].pane \in {sessions[id].pane, leases[id].pane, None, p},
           leases'[id].prev.pane \in {sessions[id].pane, leases[id].prev.pane, None},
           at \notin {"record", "custodyNew", "giveUp", "dropNew"},
           work[w].flow \in {"start", "restart"},
           \/ /\ leases'[id].inc # 0
              /\ \A g : Steps(work[w], g, at) => Duty(g, sessions'[id], leases'[id])
           \/ leases'[id].inc = 0 /\ work[w].flow = "restart" /\ at \in Over
    PROVE  HInv'
<1>1. PICK g : work' = [work EXCEPT ![w] = g] /\ Steps(work[w], g, at)
    BY GotoMoves
<1>2. /\ g.at = at /\ g.flow = work[w].flow /\ g.id = id
    BY <1>1 DEF Steps
<1>3. \/ leases'[id].inc # 0 /\ Duty(g, sessions'[id], leases'[id])
      \/ leases'[id].inc = 0 /\ g.flow = "restart" /\ g.at \in Over
    BY <1>1, <1>2
<1>. QED BY <1>1, <1>2, <1>3, SameProcAges, DutyActs DEF Elsewhere

-----------------------------------------------------------------------------
(* Starts. *)

(* What a start can rely on *)
LEMMA StartOnDuty ==
    ASSUME DInv, HInv, NEW w \in Workers, work[w].flow = "start"
    PROVE  /\ Working /\ IInv /\ proc \in [Panes -> Int]
           /\ work[w].id \in Ids /\ work[w] \in Flow /\ work[w].tok \in Nat
           /\ Held(w) /\ Duty(work[w], sessions[work[w].id], leases[work[w].id])
           /\ leases[work[w].id].inc = work[w].tok /\ work[w].tok # 0
           /\ leases[work[w].id].phase = "Starting"
<1>1. Working /\ IInv /\ proc \in [Panes -> Int]
    BY DEF DInv, FInv
<1>2. work[w].id \in Ids /\ work[w] \in Flow /\ work[w].tok \in Nat
    BY <1>1 DEF Working, Sensible, Flow
<1>3. Held(w) /\ Duty(work[w], sessions[work[w].id], leases[work[w].id])
    BY DEF HInv, Duties, OnDuty, Keeps
<1>. QED BY <1>1, <1>2, <1>3 DEF Held, Duty

LEMMA StartStepHolds ==
    ASSUME DInv, HInv, NEW w \in Workers, StartStep(w), UNCHANGED holder, Dirs # {}
    PROVE  HInv'
<1>. DEFINE f == work[w]
            id == f.id
<1>0. f.flow = "start"
    BY DEF StartStep, StartDir, StartCreate, StartRecord, StartCommit, StartDiscard,
           StartFinalize, StartCleanup, StartRollback, At
<1>1. /\ Working /\ IInv /\ proc \in [Panes -> Int]
      /\ id \in Ids /\ f \in Flow /\ f.tok \in Nat
      /\ Held(w) /\ Duty(f, sessions[id], leases[id])
      /\ leases[id].inc = f.tok /\ f.tok # 0 /\ leases[id].phase = "Starting"
    BY <1>0, StartOnDuty
<1>2. leases[id] \in Lease /\ sessions[id] \in Row /\ NoRow.pane = None /\ None \notin Panes
    BY <1>1, OfId, NoRowType, NoneIsFresh
<1>. USE DEF Outside, outside, Registry
<1>3. CASE StartDir(w)
    <2>1. f.at = "dir" /\ UNCHANGED proc
        BY <1>3 DEF StartDir, At, Attempt
    <2>2. \E dir \in Dirs : MayClaimDir(id, f.tok, dir)
        <3>1. PICK dir \in Dirs : leases[id].dir \in {None, dir}
            BY <1>2 DEF Lease
        <3>. QED BY <1>1, <3>1 DEF MayClaimDir, LeasedBy, Leased
    <2>3. PICK dir \in Dirs, at \in {"create", "release"} :
             RecordProjectDirClaim(id, f.tok, dir) /\ Goto(w, at)
        BY <1>3, <2>2 DEF StartDir, Attempt
    <2>4. \A g : Steps(f, g, at) => Duty(g, sessions'[id], leases'[id])
        BY <1>0, <1>1, <2>1, <2>3, DirClaimed DEF Steps, Duty, Likewise, Early, Committed
    <2>. QED BY <1>0, <1>1, <1>2, <2>1, <2>3, <2>4, DirClaimed, DutyGoto DEF Likewise
<1>4. CASE StartCreate(w)
    BY <1>0, <1>1, <1>4, NewPaneActs, SameProcAges, QuietGoto
       DEF StartCreate, At, Forward, Early, Committed
<1>5. CASE StartRecord(w)
    <2>1. f.at = "record" /\ UNCHANGED proc
        BY <1>5 DEF StartRecord, At, Attempt
    <2>2. MayRecordPane(id, f.tok, f.pane)
        BY <1>1, <2>1 DEF MayRecordPane, LeasedBy, Leased, HInv, LooseApart, Loose
    <2>3. RecordInertStartPane(id, f.tok, f.pane) /\ Goto(w, "commit")
        BY <1>5, <2>2 DEF StartRecord, Attempt
    <2>4. f.pane # None
        BY <1>2, <2>1 DEF HInv, LooseApart, Loose
    <2>5. \A g : Steps(f, g, "commit") => Duty(g, sessions'[id], leases'[id])
        BY <1>0, <1>1, <2>3, <2>4, PaneRecorded DEF Steps, Duty, Likewise, Early, Committed
    <2>. QED BY <1>0, <1>1, <1>2, <2>1, <2>3, <2>5, PaneRecorded, DutyGoto DEF Likewise, Loose
<1>6. CASE StartCommit(w)
    <2>1. f.at = "commit" /\ UNCHANGED proc
        BY <1>6 DEF StartCommit, At, Try
    <2>2. CASE UNCHANGED vars /\ Goto(w, "discard")
        BY <1>0, <1>1, <2>1, <2>2, SameProcAges, QuietGoto DEF Forward, Early, Committed
    <2>3. CASE /\ \E dir \in Dirs : CommitReservedStart(id, f.tok, dir, IF http THEN 0 ELSE f.tok)
               /\ Goto(w, "launch")
        <3>1. /\ Elsewhere(id) /\ UNCHANGED leases
              /\ sessions'[id].inc = f.tok /\ sessions'[id].pane = leases[id].pane
            BY <1>1, <2>3, StartCommitted
        <3>2. \A g : Steps(f, g, "launch") => Duty(g, sessions'[id], leases'[id])
            BY <1>0, <1>1, <2>1, <3>1 DEF Steps, Duty, Early, Committed
        <3>. QED BY <1>0, <1>1, <1>2, <2>1, <2>3, <3>1, <3>2, DutyGoto
    <2>. QED BY <1>6, <2>2, <2>3 DEF StartCommit, Try
<1>7. CASE StartDiscard(w) \/ StartCleanup(w)
    <2>1. f.at \in {"discard", "cleanup"}
        BY <1>7 DEF StartDiscard, StartCleanup, At
    <2>2. PICK at \in {"release", "rollbackStart"} :
             /\ UNCHANGED vars /\ Aging /\ (Goto(w, at) \/ End(w))
             /\ at = "rollbackStart" => f.at = "cleanup"
        BY <1>1, <1>7, <2>1, DropEnds DEF StartDiscard, StartCleanup, At
    <2>3. CASE End(w)
        BY <1>0, <1>1, <2>1, <2>2, <2>3, QuietEnd DEF Duty, Reason, Early
    <2>4. CASE Goto(w, at)
        BY <1>0, <1>1, <2>1, <2>2, <2>4, QuietGoto DEF Forward, Early, Committed
    <2>. QED BY <2>2, <2>3, <2>4
<1>8. CASE StartFinalize(w)
    <2>1. f.at = "finalize" /\ UNCHANGED proc
        BY <1>8 DEF StartFinalize, At, Try
    <2>2. CASE UNCHANGED vars /\ End(w)
        BY <1>0, <1>1, <2>1, <2>2, SameProcAges, QuietEnd DEF Duty, Reason, Early
    <2>3. CASE FinalizeReservedStart(id, f.tok, f.sid) /\ Goto(w, "release")
        <3>1. Elsewhere(id) /\ Same(id) /\ UNCHANGED leases
            BY <1>1, <2>3, StartFinalized
        <3>2. \A g : Steps(f, g, "release") => Duty(g, sessions'[id], leases'[id])
            BY <1>0, <1>1, <2>1, <3>1 DEF Steps, Duty, Early, Committed
        <3>. QED BY <1>0, <1>1, <1>2, <2>1, <2>3, <3>1, <3>2, DutyGoto DEF Same
    <2>. QED BY <1>8, <2>2, <2>3 DEF StartFinalize, Try
<1>9. CASE StartRollback(w)
    <2>1. f.at = "rollbackStart" /\ UNCHANGED proc
        BY <1>9 DEF StartRollback, At, Try
    <2>2. CASE UNCHANGED vars /\ End(w)
        BY <1>0, <1>1, <2>1, <2>2, SameProcAges, QuietEnd DEF Duty, Reason, Early
    <2>3. CASE RollbackReservedStart(id, f.tok, f.pane) /\ Goto(w, "release")
        <3>1. /\ Elsewhere(id) /\ sessions'[id] = NoRow /\ Likewise(leases[id], leases'[id])
              /\ leases'[id].pane \in {leases[id].pane, None}
            BY <1>1, <2>3, StartRolledBack
        <3>2. \A g : Steps(f, g, "release") => Duty(g, sessions'[id], leases'[id])
            BY <1>0, <1>1, <2>1, <3>1 DEF Steps, Duty, Early, Committed, Likewise
        <3>. QED BY <1>0, <1>1, <1>2, <2>1, <2>3, <3>1, <3>2, DutyGoto DEF Likewise
    <2>. QED BY <1>9, <2>2, <2>3 DEF StartRollback, Try
<1>. QED BY <1>3, <1>4, <1>5, <1>6, <1>7, <1>8, <1>9 DEF StartStep

-----------------------------------------------------------------------------
(* The steps that starts and restarts share. *)

(* What a restart can rely on until it is over *)
LEMMA RestartOnDuty ==
    ASSUME DInv, HInv, NEW w \in Workers, work[w].flow = "restart", work[w].at \notin Over
    PROVE  /\ Held(w) /\ Duty(work[w], sessions[work[w].id], leases[work[w].id])
           /\ leases[work[w].id].inc = work[w].tok /\ work[w].tok # 0
           /\ leases[work[w].id].phase = "Restarting"
<1>1. Held(w) /\ Duty(work[w], sessions[work[w].id], leases[work[w].id])
    BY DEF HInv, Duties, OnDuty, Keeps
<1>. QED BY <1>1 DEF Held, Duty

LEMMA ReleaseHolds ==
    ASSUME DInv, HInv, NEW w \in Workers, Release(w), Exact, UNCHANGED holder
    PROVE  HInv'
<1>. DEFINE f == work[w]
            id == f.id
<1>1. Working /\ IInv /\ f.at = "release" /\ id \in Ids /\ UNCHANGED proc /\ End(w)
    BY AtStage DEF DInv, FInv, Release, Attempt, Outside, outside
<1>2. CASE AbortLifecycle(id, f.tok)
    <2>1. /\ Elsewhere(id) /\ UNCHANGED sessions /\ leases'[id] = NoLease /\ leases'[id].inc = 0
          /\ leases[id].inc # 0
        BY <1>1, <1>2, Aborted DEF AbortLifecycle, LeasedBy, Leased
    <2>2. work'[w] = Idle /\ Idle.at # "release" /\ \A v \in Workers \ {w} : work'[v] = work[v]
        BY <1>1 DEF End, Working, Idle
    <2>3. holder[id] = w \/ leases[id].phase = "Stopping"
        BY <1>1, <2>1, <2>2 DEF Exact
    <2>4. Aside(Workers \ {w}, id) /\ StillKept(w, id)
        BY <2>1, <2>2, <2>3 DEF Aside, StillKept, Elsewhere
    <2>5. NoNewPane(None)
        BY <1>1, <2>1, PanesKept, NoLeaseType, NoRowType DEF Elsewhere
    <2>6. ~Loose(work'[w]) /\ OnDuty(w)'
        BY <2>2, IdleOnDuty, IdleDuty
    <2>. QED BY <1>1, <2>4, <2>5, <2>6, NoneIsFresh, SameProcAges, FlowActs
<1>3. CASE ~LeasedBy(id, f.tok) /\ UNCHANGED vars
    <2>1. ~(Held(w) /\ f.flow \in {"start", "restart"})
        BY <1>3 DEF HInv, Duties, OnDuty, Duty, Held, LeasedBy, Leased
    <2>. QED BY <1>1, <1>3, <2>1, SameProcAges, QuietEnd
<1>. QED BY <1>2, <1>3 DEF Release, Attempt, Registry

LEMMA SharedStepHolds ==
    ASSUME DInv, HInv, NEW w \in Workers, SharedStep(w), Exact, UNCHANGED holder
    PROVE  HInv'
<1>. DEFINE f == work[w]
            id == f.id
<1>. USE DEF Outside, outside, Registry
<1>1. Working /\ IInv /\ proc \in [Panes -> Int] /\ None \notin Panes
    BY NoneIsFresh DEF DInv, FInv
<1>2. f.at # "idle"
    BY DEF SharedStep, Launch, Make, Claim, Attach, Undo, Clear, Unmade, Release, At
<1>3. id \in Ids /\ f \in Flow /\ f.target \in Nat
    BY <1>1, <1>2, AtStage DEF Flow
<1>4. CASE Launch(w)
    <2>1. f.at = "launch" /\ UNCHANGED vars /\ Aging
        BY <1>4, SameProcAges DEF Launch
    <2>2. PICK at \in {"make", "finalize", "serve", "complete", "cleanup", "rollback"} :
             /\ Goto(w, at)
             /\ f.flow = "start" => at \in {"make", "finalize", "cleanup"}
        BY <1>4 DEF Launch
    <2>3. Forward(f, at, f.mode)
        BY <2>1, <2>2 DEF Forward, Over, Early, Committed, Unstaged, InPlace, Hard
    <2>. QED BY <1>1, <1>3, <2>1, <2>2, <2>3, QuietGoto
<1>5. CASE Make(w)
    <2>1. f.at = "make" /\ UNCHANGED vars /\ Aging
        BY <1>5, SameProcAges DEF Make
    <2>2. CASE Goto(w, "unmade")
        BY <1>1, <1>3, <2>1, <2>2, QuietGoto
           DEF Forward, Over, Early, Committed, Unstaged, InPlace, Hard
    <2>3. CASE \E s \in Sids : work' = [work EXCEPT ![w] =
                  [@ EXCEPT !.sid = s, !.at = IF f.flow = "start" THEN "attach" ELSE "claim"]]
        <3>. DEFINE at == IF f.flow = "start" THEN "attach" ELSE "claim"
        <3>1. PICK s \in Sids : work' = [work EXCEPT ![w] = [@ EXCEPT !.sid = s, !.at = at]]
            BY <2>3
        <3>2. at \in {"attach", "claim"} /\ (f.flow = "start" => at = "attach")
            OBVIOUS
        <3>. HIDE DEF at
        <3>. DEFINE g == [f EXCEPT !.sid = s, !.at = at]
        <3>3. /\ g.at = at /\ g.flow = f.flow /\ g.id = id /\ g.tok = f.tok
              /\ g.target = f.target /\ g.pane = f.pane /\ g.mode = f.mode
            BY <1>3 DEF Flow
        <3>4. work' = [work EXCEPT ![w] = g]
            BY <3>1
        <3>. HIDE DEF g
        <3>5. Forward(f, g.at, g.mode)
            BY <2>1, <3>2, <3>3 DEF Forward, Over, Early, Committed, Unstaged, InPlace, Hard
        <3>. QED BY <1>1, <1>3, <2>1, <3>3, <3>4, <3>5, QuietSet
    <2>. QED BY <1>5, <2>2, <2>3 DEF Make
<1>6. CASE Claim(w) \/ Clear(w)
    <2>1. f.flow = "restart" /\ f.at \in {"claim", "clear"} /\ UNCHANGED proc
        BY <1>6 DEF Claim, Clear, At, Try
    <2>2. /\ Held(w) /\ Duty(f, sessions[id], leases[id])
          /\ leases[id].inc = f.tok /\ f.tok # 0 /\ leases[id].phase = "Restarting"
        BY <2>1, RestartOnDuty DEF Over
    <2>3. PICK at \in {"attach", "disown", "unmade"} :
             /\ Goto(w, at)
             /\ \/ UNCHANGED vars
                \/ RecordRestartBackendClaim(id, f.tok, f.target, f.sid)
                \/ ClearRestartBackendClaim(id, f.tok, f.target, f.sid)
        BY <1>6 DEF Claim, Clear, Try
    <2>4. CASE UNCHANGED vars
        <3>1. Forward(f, at, f.mode)
            BY <2>1 DEF Forward, Over, Unstaged, InPlace, Hard
        <3>. QED BY <1>1, <1>3, <2>1, <2>3, <2>4, <3>1, SameProcAges, QuietGoto
    <2>5. CASE ~UNCHANGED vars
        <3>1. /\ Elsewhere(id) /\ UNCHANGED sessions /\ Likewise(leases[id], leases'[id])
              /\ leases'[id].pane = leases[id].pane
            BY <1>1, <1>3, <2>3, <2>5, BackendClaimed
        <3>2. \A g : Steps(f, g, at) => Duty(g, sessions'[id], leases'[id])
            BY <2>1, <2>2, <3>1 DEF Steps, Duty, Likewise, Over, Unstaged, InPlace, Hard
        <3>. QED BY <1>1, <1>3, <2>1, <2>2, <2>3, <3>1, <3>2, DutyGoto DEF Likewise
    <2>. QED BY <2>4, <2>5
<1>7. CASE Attach(w)
    <2>1. f.at = "attach" /\ UNCHANGED vars
        BY <1>7 DEF Attach
    <2>2. PICK at \in {"prompt", "undo", "finalize", "complete"} :
             /\ Goto(w, at)
             /\ UNCHANGED proc \/ SetProc(f.pane, f.target)
             /\ f.flow = "start" => at \in {"prompt", "undo", "finalize"}
        BY <1>7 DEF Attach
    <2>3. Aging
        BY <1>1, <1>3, <2>2, SameProcAges, SetProcAges
    <2>4. Forward(f, at, f.mode)
        BY <2>1, <2>2 DEF Forward, Over, Early, Committed, Unstaged, InPlace, Hard
    <2>. QED BY <1>1, <1>3, <2>1, <2>2, <2>3, <2>4, QuietGoto
<1>8. CASE Undo(w)
    <2>1. f.at \in {"disown", "undo"} /\ UNCHANGED vars /\ Aging
        BY <1>8, SameProcAges DEF Undo
    <2>2. PICK at \in {"clear", "unmade"} : Goto(w, at) /\ (f.flow = "start" => at = "unmade")
        BY <1>8 DEF Undo
    <2>3. Forward(f, at, f.mode)
        BY <2>1, <2>2 DEF Forward, Over, Early, Committed, Unstaged, InPlace, Hard
    <2>. QED BY <1>1, <1>3, <2>1, <2>2, <2>3, QuietGoto
<1>9. CASE Unmade(w)
    <2>. DEFINE at == IF f.flow = "start" THEN "cleanup"
                      ELSE IF CleanupPending(f) THEN "failed"
                      ELSE IF f.mode = "soft" THEN "inspect"
                      ELSE "rollback"
                g  == [f EXCEPT !.sid = None, !.mode = "create", !.at = at]
    <2>1. f.at = "unmade" /\ UNCHANGED vars /\ Aging
        BY <1>9, SameProcAges DEF Unmade
    <2>2. work' = [work EXCEPT ![w] = g]
        BY <1>9 DEF Unmade
    <2>3. /\ at \in {"cleanup", "failed", "inspect", "rollback"}
          /\ f.flow = "start" => at = "cleanup"
          /\ at = "inspect" => f.mode = "soft"
        OBVIOUS
    <2>. HIDE DEF at
    <2>4. /\ g.at = at /\ g.flow = f.flow /\ g.id = id /\ g.tok = f.tok
          /\ g.target = f.target /\ g.pane = f.pane /\ g.mode = "create"
        BY <1>3 DEF Flow
    <2>. HIDE DEF g
    <2>5. Forward(f, g.at, g.mode)
        BY <2>1, <2>3, <2>4 DEF Forward, Over, Early, Committed, Unstaged, InPlace, Hard
    <2>. QED BY <1>1, <1>3, <2>1, <2>2, <2>4, <2>5, QuietSet
<1>10. CASE Release(w)
    BY <1>10, ReleaseHolds
<1>. QED BY <1>4, <1>5, <1>6, <1>7, <1>8, <1>9, <1>10 DEF SharedStep

-----------------------------------------------------------------------------
(* Restarts. *)

LEMMA RestartFlowStepHolds ==
    ASSUME DInv, HInv, NEW w \in Workers, RestartFlowStep(w), UNCHANGED holder
    PROVE  HInv'
<1>. DEFINE f == work[w]
            id == f.id
<1>. USE DEF Outside, outside, Registry
<1>1. Working /\ IInv /\ proc \in [Panes -> Int] /\ None \notin Panes /\ NoRow.pane = None
    BY NoneIsFresh, NoRowType DEF DInv, FInv
<1>2. f.flow = "restart" /\ f.at # "idle" /\ f.at \notin {"giveUp", "dropNew"}
    <2>1. f.flow = "restart" /\ f.at # "idle"
        BY DEF RestartFlowStep, RestartSnapshot, RestartStage, Inspect, Custody, Respawn,
               Fallback, CustodyNew, DropNew, Serve, Prompt, RestartComplete, Rollback,
               KillProvisional, RestartFailed, At
    <2>. QED BY <2>1 DEF HInv, Duties, OnDuty
<1>3. /\ id \in Ids /\ f \in Flow /\ f.target \in Nat /\ f.tok \in Nat
      /\ sessions[id] \in Row /\ leases[id] \in Lease
    BY <1>1, <1>2, AtStage, OfId DEF Flow
<1>4. f.at \notin Over => /\ Held(w) /\ Duty(f, sessions[id], leases[id])
                          /\ leases[id].inc = f.tok /\ f.tok # 0
                          /\ leases[id].phase = "Restarting"
    BY <1>2, RestartOnDuty
(* the flow goes on, and the registry is left alone *)
<1>5. ASSUME NEW at \in {"release", "failed", "complete", "unmade", "undo", "make", "rollback",
                         "fallback", "custody"},
             Goto(w, at), UNCHANGED vars, Aging,
             at = "release" \/ f.at \notin Unstaged,
             at \in Over \/ f.at \notin Over,
             at \in {"fallback", "custody"} => f.at \in {"inspect", "respawn"},
             at = "custody" => f.at = "inspect"
      PROVE  HInv'
    <2>1. Forward(f, at, f.mode)
        BY <1>2, <1>5 DEF Forward, Over, Unstaged, InPlace, Hard
    <2>. QED BY <1>1, <1>3, <1>5, <2>1, QuietGoto
<1>6. CASE RestartSnapshot(w)
    <2>1. f.at = "snapshot" /\ UNCHANGED vars /\ Aging
        BY <1>6, SameProcAges DEF RestartSnapshot, At
    <2>2. CASE Goto(w, "release")
        BY <1>5, <2>1, <2>2 DEF Over
    <2>3. CASE work' = [work EXCEPT ![w] =
                  [@ EXCEPT !.at = "stage", !.pane = sessions[id].pane,
                            !.oldPane = sessions[id].pane, !.oldSid = sessions[id].sid]]
        <3>. DEFINE g == [f EXCEPT !.at = "stage", !.pane = sessions[id].pane,
                                   !.oldPane = sessions[id].pane, !.oldSid = sessions[id].sid]
        <3>1. /\ g.at = "stage" /\ g.flow = f.flow /\ g.id = id /\ g.tok = f.tok
              /\ g.pane = sessions[id].pane
            BY <1>3 DEF Flow
        <3>2. work' = [work EXCEPT ![w] = g]
            BY <2>3
        <3>. HIDE DEF g
        <3>3. Held(w) /\ Duty(g, sessions'[id], leases'[id]) /\ leases'[id].inc # 0
            BY <1>2, <1>4, <2>1, <3>1 DEF Duty, Over, Unstaged, InPlace, Hard, vars
        <3>. QED BY <1>1, <1>2, <1>3, <2>1, <3>1, <3>2, <3>3, QuietSame, DutyActs DEF vars
    <2>. QED BY <1>6, <2>2, <2>3 DEF RestartSnapshot, Goto
<1>7. CASE RestartStage(w)
    <2>1. f.at = "stage" /\ Aging
        BY <1>7, SameProcAges DEF RestartStage, At, Try
    <2>2. CASE UNCHANGED vars /\ Goto(w, "release")
        BY <1>5, <2>1, <2>2 DEF Over
    <2>3. CASE ~(UNCHANGED vars /\ Goto(w, "release"))
        <3>1. PICK fresh \in BOOLEAN, renew \in BOOLEAN :
                 /\ StageRestartLaunch(id, f.tok, renew, renew /\ ~http)
                 /\ work' = [work EXCEPT ![w] =
                       [@ EXCEPT !.target = NextInc,
                                 !.at     = IF http /\ fresh THEN "custody" ELSE "inspect",
                                 !.mode   = IF http /\ fresh THEN "soft"
                                            ELSE IF fresh \/ f.oldSid = None THEN "create"
                                            ELSE "resume"]]
            <4>1. http \in BOOLEAN
                BY DEF DInv, FInv
            <4>. QED BY <1>7, <2>3, <4>1 DEF RestartStage, Try
        <3>. DEFINE at   == IF http /\ fresh THEN "custody" ELSE "inspect"
                    mode == IF http /\ fresh THEN "soft"
                            ELSE IF fresh \/ f.oldSid = None THEN "create" ELSE "resume"
                    g    == [f EXCEPT !.target = NextInc, !.at = at, !.mode = mode]
        <3>7. at \in {"custody", "inspect"} /\ (at = "inspect" => mode # "soft")
            OBVIOUS
        <3>8. work' = [work EXCEPT ![w] = g]
            BY <3>1
        <3>. HIDE DEF at, mode
        <3>2. /\ g.at = at /\ g.flow = f.flow /\ g.id = id /\ g.tok = f.tok
              /\ g.pane = f.pane /\ g.target = NextInc /\ g.mode = mode
            BY <1>3 DEF Flow
        <3>. HIDE DEF g
        <3>4. /\ Elsewhere(id)
              /\ sessions'[id].inc = NextInc /\ sessions'[id].pane = sessions[id].pane
              /\ leases'[id].inc = leases[id].inc /\ leases'[id].phase = leases[id].phase
              /\ leases'[id].target = NextInc /\ leases'[id].prev = sessions[id]
              /\ leases'[id].pane = leases[id].pane
            BY <1>1, <1>3, <3>1, RestartStaged
        <3>5. NextInc # 0
            BY <1>1 DEF IInv, HighWaterOK, NextInc
        <3>6. Held(w) /\ Duty(g, sessions'[id], leases'[id]) /\ leases'[id].inc # 0
            BY <1>2, <1>4, <2>1, <3>2, <3>4, <3>5, <3>7 DEF Duty, Over, Unstaged, InPlace, Hard
        <3>9. g.at \notin {"record", "custodyNew", "giveUp", "dropNew"}
            BY <3>2, <3>7
        <3>10. /\ sessions'[id].pane = sessions[id].pane /\ leases'[id].pane = leases[id].pane
               /\ leases'[id].prev.pane = sessions[id].pane
               /\ \A j \in Ids \ {id} : Same(j)
            BY <3>4 DEF Elsewhere
        <3>11. /\ sessions'[id].pane \in {sessions[id].pane, leases[id].pane, None, None}
               /\ leases'[id].pane \in {sessions[id].pane, leases[id].pane, None, None}
               /\ leases'[id].prev.pane \in {sessions[id].pane, leases[id].prev.pane, None}
               /\ \A j \in Ids \ {id} : Same(j)
               /\ None \notin Panes
            BY <3>10, NoneIsFresh
        <3>12. HInv /\ UNCHANGED holder /\ Working /\ IInv /\ id \in Ids /\ Aging
               /\ g.flow = f.flow /\ g.id = id /\ f.flow \in {"start", "restart"}
            BY <1>1, <1>2, <1>3, <2>1, <3>2
        <3>. QED BY <3>6, <3>8, <3>9, <3>11, <3>12, DutyActs
    <2>. QED BY <2>2, <2>3
<1>8. CASE Inspect(w)
    <2>1. f.at = "inspect" /\ UNCHANGED vars /\ Aging
        BY <1>8, SameProcAges DEF Inspect, At
    <2>. QED BY <1>5, <1>8, <2>1 DEF Inspect, Unstaged, Over
<1>9. CASE Custody(w)
    <2>1. f.at = "custody" /\ UNCHANGED proc
        BY <1>9 DEF Custody, At, Attempt
    <2>2. /\ Held(w) /\ Duty(f, sessions[id], leases[id]) /\ sessions[id].pane = f.pane
          /\ leases[id].target = f.target /\ f.target # 0
        BY <1>2, <1>4, <2>1 DEF Duty, Over, Unstaged, InPlace
    <2>3. MayRecordPane(id, f.tok, f.pane)
        BY <1>4, <2>1, <2>2 DEF MayRecordPane, LeasedBy, Leased, Over
    <2>4. PICK at \in {"make", "respawn"} : /\ RecordInertStartPane(id, f.tok, f.pane) /\ Goto(w, at)
                                            /\ at = "respawn" => f.mode # "soft"
        BY <1>9, <2>3 DEF Custody, Attempt
    <2>5. \A g : Steps(f, g, at) => Duty(g, sessions'[id], leases'[id])
        BY <1>1, <1>2, <1>3, <2>1, <2>2, <2>4, PaneRecorded
           DEF Steps, Duty, Likewise, Over, Unstaged, InPlace, Hard
    <2>. QED BY <1>1, <1>2, <1>3, <1>4, <2>1, <2>2, <2>4, <2>5, PaneRecorded, DutyGoto
             DEF Likewise, Over
<1>10. CASE Respawn(w)
    <2>1. f.at = "respawn" /\ UNCHANGED vars
        BY <1>10 DEF Respawn, At
    <2>2. Aging
        BY <1>1, <1>3, <1>10, SameProcAges, SetProcAges, GoneAges DEF Respawn
    <2>3. CASE Goto(w, "serve")
        BY <1>1, <1>2, <1>3, <2>1, <2>2, <2>3, QuietGoto DEF Forward, Over, Unstaged, InPlace, Hard
    <2>. QED BY <1>5, <1>10, <2>1, <2>2, <2>3 DEF Respawn, Unstaged, Over
<1>11. CASE Fallback(w)
    <2>1. f.at = "fallback" /\ UNCHANGED vars
        BY <1>11 DEF Fallback, At
    <2>2. CASE NewPane(w, f.target, "custodyNew")
        BY <1>1, <1>2, <1>3, <2>1, <2>2, NewPaneActs DEF At
    <2>. QED BY <1>5, <1>11, <2>1, <2>2, SameProcAges DEF Fallback, Unstaged, Over
<1>12. CASE CustodyNew(w)
    <2>1. f.at = "custodyNew" /\ UNCHANGED proc
        BY <1>12 DEF CustodyNew, At, Attempt
    <2>2. /\ Held(w) /\ Duty(f, sessions[id], leases[id])
          /\ leases[id].target = f.target /\ f.target # 0
        BY <1>2, <1>4, <2>1 DEF Duty, Over, Unstaged
    <2>3. Loose(f) /\ FreshPane(f.pane)
        BY <2>1 DEF HInv, LooseApart, Loose
    <2>4. MayRecordPane(id, f.tok, f.pane)
        BY <1>4, <2>1, <2>2, <2>3 DEF MayRecordPane, LeasedBy, Leased, Over
    <2>5. RecordInertStartPane(id, f.tok, f.pane) /\ Goto(w, "launch")
        BY <1>12, <2>4 DEF CustodyNew, Attempt
    <2>6. \A g : Steps(f, g, "launch") => Duty(g, sessions'[id], leases'[id])
        BY <1>1, <1>2, <1>3, <2>1, <2>2, <2>5, PaneRecorded
           DEF Steps, Duty, Likewise, Over, Unstaged, InPlace, Hard
    <2>7. /\ Elsewhere(id) /\ leases'[id].inc # 0
          /\ sessions'[id].pane \in {sessions[id].pane, leases[id].pane, None, f.pane}
          /\ leases'[id].pane \in {sessions[id].pane, leases[id].pane, None, f.pane}
          /\ leases'[id].prev.pane \in {sessions[id].pane, leases[id].prev.pane, None}
        BY <1>1, <1>3, <2>2, <2>5, PaneRecorded DEF Likewise, Held
    <2>8. /\ HInv /\ UNCHANGED holder /\ Working /\ IInv /\ id \in Ids /\ Held(w)
          /\ Goto(w, "launch") /\ f.flow \in {"start", "restart"}
          /\ "launch" \notin {"record", "custodyNew", "giveUp", "dropNew"}
          /\ f.pane \in Panes => Loose(f) /\ f.pane = f.pane
        BY <1>1, <1>2, <1>3, <2>2, <2>3, <2>5
    <2>. HIDE DEF id
    <2>. QED BY <2>1, <2>6, <2>7, <2>8, DutyGoto DEF id
<1>13. CASE DropNew(w)
    BY <1>2, <1>13 DEF DropNew, At
<1>14. CASE Serve(w)
    BY <1>5, <1>14, SameProcAges DEF Serve, At, Unstaged, Over
<1>15. CASE Prompt(w)
    <2>1. f.at = "prompt" /\ UNCHANGED vars
        BY <1>15 DEF Prompt, At
    <2>2. Aging
        BY <1>1, <1>3, <1>15, SameProcAges, SetProcAges DEF Prompt
    <2>. QED BY <1>5, <1>15, <2>1, <2>2 DEF Prompt, Unstaged, Over
<1>16. CASE RestartComplete(w)
    <2>1. f.at = "complete" /\ UNCHANGED proc
        BY <1>16 DEF RestartComplete, At, Attempt
    <2>2. CASE UNCHANGED vars
        BY <1>5, <1>16, <2>1, <2>2, SameProcAges DEF RestartComplete, Attempt, Unstaged, Over
    <2>3. CASE ~UNCHANGED vars
        <3>1. PICK sid : /\ CompleteRestartLaunch(id, f.tok, f.target, sid, sessions[id].dir)
                         /\ Goto(w, "release")
            BY <1>16, <2>3 DEF RestartComplete, Attempt
        <3>2. /\ Elsewhere(id) /\ leases'[id] = NoLease /\ leases'[id].inc = 0
              /\ sessions'[id].pane \in {leases[id].pane, sessions[id].pane}
            BY <1>1, <1>3, <3>1, RestartCompleted
        <3>. QED BY <1>1, <1>2, <1>3, <1>4, <2>1, <3>1, <3>2, NoLeaseType, DutyGoto DEF Over
    <2>. QED BY <2>2, <2>3
<1>17. CASE Rollback(w)
    <2>1. f.at = "rollback" /\ UNCHANGED proc
        BY <1>2, <1>17 DEF Rollback, Try
    <2>2. PICK at \in {"killProvisional", "failed"} :
             /\ Goto(w, at)
             /\ \/ UNCHANGED vars /\ at = "failed"
                \/ RollbackRestartLaunch(id, f.tok, f.target)
        BY <1>17, <2>1 DEF Rollback, Try
    <2>3. CASE UNCHANGED vars /\ at = "failed"
        BY <1>5, <2>1, <2>2, <2>3, SameProcAges DEF Unstaged, Over
    <2>4. CASE RollbackRestartLaunch(id, f.tok, f.target)
        <3>1. /\ Elsewhere(id) /\ leases'[id] = NoLease /\ leases'[id].inc = 0
              /\ sessions'[id].pane = sessions[id].pane
            BY <1>1, <1>3, <2>4, RestartRolledBack
        <3>. QED BY <1>1, <1>2, <1>3, <1>4, <2>1, <2>2, <3>1, NoLeaseType, DutyGoto DEF Over
    <2>. QED BY <2>2, <2>3, <2>4
<1>18. CASE KillProvisional(w)
    BY <1>1, <1>5, <1>18, DropGoes DEF KillProvisional, At, Unstaged, Over
<1>19. CASE RestartFailed(w)
    <2>1. f.at = "failed" /\ UNCHANGED vars /\ Aging
        BY <1>19, SameProcAges DEF RestartFailed, At
    <2>2. CASE Goto(w, "release")
        BY <1>5, <2>1, <2>2 DEF Unstaged, Over
    <2>3. CASE /\ End(w) /\ Holds(id, "Restarting", f.tok)
               /\ leases[id].pane # None \/ sessions[id].inc # f.tok
        BY <1>1, <1>3, <2>1, <2>3, QuietEnd DEF Holds, Reason
    <2>. QED BY <1>19, <2>2, <2>3 DEF RestartFailed
<1>. QED BY <1>6, <1>7, <1>8, <1>9, <1>10, <1>11, <1>12, <1>13, <1>14, <1>15, <1>16, <1>17,
            <1>18, <1>19 DEF RestartFlowStep

-----------------------------------------------------------------------------
(* Stops, and the recovery of stops by hand. *)

LEMMA KillStepHolds ==
    ASSUME DInv, HInv, NEW w \in Workers, KillStep(w), UNCHANGED holder
    PROVE  HInv'
<1>. DEFINE f == work[w]
            id == f.id
<1>. USE DEF Outside, outside, Registry
<1>1. /\ Working /\ IInv /\ proc \in [Panes -> Int] /\ None \notin Panes
      /\ NoRow.inc = 0 /\ NoRow.pane = None
    BY NoneIsFresh, NoRowType DEF DInv, FInv
<1>2. f.flow = "kill" /\ id \in Ids /\ f \in Flow
    <2>1. f.flow = "kill"
        BY DEF KillStep, KillRecheck, KillAbort, KillGate, KillPane, KillComplete, At
    <2>. QED BY <1>1, <2>1 DEF Working, Sensible
<1>3. ASSUME NEW at \in {"release", "exit", "killing", "removeRow"},
             Goto(w, at), UNCHANGED vars, Aging
      PROVE  HInv'
    BY <1>1, <1>2, <1>3, QuietGoto DEF Forward
<1>4. ASSUME End(w), UNCHANGED vars, Aging PROVE HInv'
    BY <1>1, <1>2, <1>4, QuietEnd
<1>5. CASE KillRecheck(w)
    <2>1. UNCHANGED vars /\ Aging
        BY <1>5, SameProcAges DEF KillRecheck
    <2>2. CASE Goto(w, "release")
        BY <1>3, <2>1, <2>2
    <2>3. CASE ~Goto(w, "release")
        <3>1. PICK at \in {"abort", "exit"} :
                 work' = [work EXCEPT ![w] = [@ EXCEPT !.at = at, !.sid = sessions[id].sid]]
            BY <1>5, <2>3 DEF KillRecheck, Goto
        <3>. DEFINE g == [f EXCEPT !.at = at, !.sid = sessions[id].sid]
        <3>2. /\ g.at = at /\ g.flow = f.flow /\ g.id = id /\ g.tok = f.tok
              /\ g.target = f.target /\ g.pane = f.pane /\ g.mode = f.mode
            BY <1>2 DEF Flow
        <3>3. work' = [work EXCEPT ![w] = g]
            BY <3>1
        <3>. HIDE DEF g
        <3>4. Forward(f, g.at, g.mode)
            BY <1>2, <3>2 DEF Forward
        <3>. QED BY <1>1, <1>2, <2>1, <3>2, <3>3, <3>4, QuietSet
    <2>. QED BY <2>2, <2>3
<1>6. CASE KillAbort(w)
    BY <1>3, <1>4, <1>6, SameProcAges DEF KillAbort
<1>7. CASE KillGate(w)
    BY <1>3, <1>7, SameProcAges DEF KillGate
<1>8. CASE KillPane(w)
    <2>1. UNCHANGED vars
        BY <1>8 DEF KillPane
    <2>2. /\ UNCHANGED proc \/ SetProc(f.pane, Gone)
          /\ End(w) \/ \E at \in {"release", "removeRow"} : Goto(w, at)
        <3>1. CASE ~OwnsStopping(id, f.tok, f.pane)
            BY <1>8, <3>1 DEF KillPane
        <3>2. CASE OwnsStopping(id, f.tok, f.pane)
            BY <1>8, <3>2 DEF KillPane
        <3>. QED BY <3>1, <3>2
    <2>3. Aging
        BY <1>1, <2>2, SameProcAges, GoneAges
    <2>. QED BY <1>3, <1>4, <2>1, <2>2, <2>3
<1>9. CASE KillComplete(w)
    <2>1. UNCHANGED proc /\ Goto(w, "release")
        BY <1>9 DEF KillComplete, Try
    <2>2. CASE UNCHANGED vars
        BY <1>3, <2>1, <2>2, SameProcAges
    <2>3. CASE CompleteOwnedStop(id, f.tok, f.pane)
        <3>1. /\ UNCHANGED leases /\ leases[id].phase = "Stopping" /\ leases[id].inc = f.tok
              /\ sessions'[id] = NoRow /\ \A j \in Ids \ {id} : sessions'[j] = sessions[j]
            BY <1>1, <1>2, <2>3 DEF CompleteOwnedStop, Holds, IInv
        <3>2. PICK g : work' = [work EXCEPT ![w] = g] /\ Steps(f, g, "release")
            BY <1>1, <2>1, GotoMoves
        <3>3. /\ work'[w] = g /\ g.flow = "kill" /\ g.at = "release" /\ g.tok = f.tok /\ g.id = id
              /\ \A v \in Workers \ {w} : work'[v] = work[v]
            BY <1>1, <1>2, <3>2 DEF Steps, Working
        <3>4. Aside(Workers \ {w}, id) /\ StillKept(w, id)
            BY <3>1, <3>3 DEF Aside, StillKept, Same, Reason
        <3>5. OnDuty(w)' /\ ~Loose(work'[w])
            BY <3>1, <3>3 DEF OnDuty, Keeps, Duty, Loose
        <3>6. NoNewPane(None)
            BY <1>1, <1>2, <3>1, PanesKept DEF Same
        <3>. QED BY <1>1, <1>2, <2>1, <3>4, <3>5, <3>6, SameProcAges, FlowActs
    <2>. QED BY <1>9, <2>2, <2>3 DEF KillComplete, Try
<1>. QED BY <1>5, <1>6, <1>7, <1>8, <1>9 DEF KillStep

LEMMA RecoverReplayHolds ==
    ASSUME DInv, HInv, NEW w \in Workers, RecoverReplay(w), UNCHANGED holder
    PROVE  HInv'
<1>1. /\ work[w].flow = "recover" /\ work[w].id \in Ids /\ Working
    BY DEF RecoverReplay, At, DInv, FInv, Working, Sensible
<1>2. UNCHANGED vars /\ Aging /\ (Goto(w, "release") \/ End(w))
    BY SameProcAges DEF RecoverReplay, Registry
<1>3. Forward(work[w], "release", work[w].mode)
    BY <1>1 DEF Forward
<1>. QED BY <1>1, <1>2, <1>3, QuietGoto, QuietEnd

-----------------------------------------------------------------------------
(* Flows that begin. *)

LEMMA BeginActs ==
    ASSUME HInv, Working, IInv, NEW w \in Workers, NEW id \in Ids, NEW g,
           work[w] = Idle, work' = [work EXCEPT ![w] = g], g.id = id,
           UNCHANGED proc, UNCHANGED sessions, Elsewhere(id),
           leases'[id].pane \in {sessions[id].pane, leases[id].pane, None},
           leases'[id].prev.pane \in {sessions[id].pane, leases[id].prev.pane, None},
           g.at \notin {"record", "custodyNew", "giveUp", "dropNew"},
           \/ /\ leases[id].inc = 0 /\ leases'[id].inc # 0
              /\ holder' = [holder EXCEPT ![id] = w]
              /\ Duty(g, sessions[id], leases'[id])
              /\ g.flow \in {"start", "restart"} \/ leases'[id].phase = "Stopping"
           \/ UNCHANGED leases /\ UNCHANGED holder /\ g.flow = "recover"
    PROVE  HInv'
<1>1. work'[w] = g /\ \A v \in Workers \ {w} : work'[v] = work[v]
    BY DEF Working
<1>2. /\ \A i \in Ids \ {id} : holder'[i] = holder[i] /\ leases'[i] = leases[i]
      /\ leases[id].inc = 0 => holder'[id] = w \/ leases'[id].inc = 0
      /\ leases[id].inc # 0 => holder'[id] = holder[id] /\ leases'[id] = leases[id]
    BY DEF HInv, Elsewhere, Same
<1>3. ASSUME NEW v \in Workers \ {w} PROVE OnDuty(v)'
    <2>1. OnDuty(v) /\ work'[v] = work[v]
        BY <1>1 DEF HInv, Duties
    <2>2. Held(v) <=> Held(v)'
        BY <1>2, <2>1 DEF Held
    <2>3. Held(v) => leases'[work[v].id] = leases[work[v].id]
        BY <1>2 DEF Held
    <2>. QED BY <2>1, <2>2, <2>3 DEF OnDuty
<1>4. OnDuty(w)'
    <2>1. CASE leases[id].inc = 0 /\ leases'[id].inc # 0 /\ holder' = [holder EXCEPT ![id] = w]
               /\ Duty(g, sessions[id], leases'[id])
        BY <1>1, <2>1 DEF OnDuty, Held, HInv
    <2>2. CASE g.flow = "recover"
        BY <1>1, <2>2 DEF OnDuty, Keeps, Duty
    <2>. QED BY <2>1, <2>2
<1>5. LooseApart' /\ Born'
    <2>1. NoNewPane(None)
        BY PanesKept DEF Elsewhere
    <2>2. ~Loose(work'[w])
        BY <1>1 DEF Loose
    <2>. QED BY <1>1, <2>1, <2>2, NoneIsFresh, SameProcAges, LooseKept DEF HInv
<1>6. ASSUME NEW i \in Ids PROVE Kept(i)'
    <2>1. CASE i # id \/ (UNCHANGED leases /\ UNCHANGED holder)
        <3>1. /\ leases'[i] = leases[i] /\ holder'[i] = holder[i]
              /\ leases[i].inc # 0 => Reason(sessions[i], leases[i]) \/ Attended(i)
            BY <1>2, <2>1 DEF HInv, Kept
        <3>2. ASSUME NEW v \in Workers, work[v].flow \in {"start", "restart"},
                     work[v].id = i /\ holder[i] = v
              PROVE  Attended(i)'
            <4>1. v # w
                BY <3>2 DEF Idle
            <4>. QED BY <1>1, <3>1, <3>2, <4>1 DEF Attended
        <3>. QED BY <3>1, <3>2 DEF Kept, Attended
    <2>2. CASE i = id /\ leases[id].inc = 0 /\ holder' = [holder EXCEPT ![id] = w]
               /\ (g.flow \in {"start", "restart"} \/ leases'[id].phase = "Stopping")
        <3>1. holder'[id] = w
            BY <2>2 DEF HInv
        <3>. QED BY <1>1, <2>2, <3>1 DEF Kept, Attended, Reason
    <2>. QED BY <2>1, <2>2
<1>7. holder' = [i \in Ids |-> holder'[i]]
    BY DEF HInv
<1>. QED BY <1>3, <1>4, <1>5, <1>6, <1>7 DEF HInv, Duties

LEMMA BeginsHolds ==
    ASSUME DInv, HInv, NEW w \in Workers, NEW id \in Ids,
           \/ Begins(w, id) /\ holder' = [holder EXCEPT ![id] = w]
           \/ RecoverRead(w, id) /\ UNCHANGED holder
    PROVE  HInv'
<1>. USE DEF Outside, outside, Registry
<1>1. /\ Working /\ IInv /\ sessions[id] \in Row /\ leases[id] \in Lease
      /\ NextInc # 0 /\ NoRow.pane = None
    BY RowTypes, NoRowType DEF DInv, FInv, NextInc
<1>2. /\ NoLease.target = 0 /\ NoLease.pane = None /\ NoLease.prev = NoRow /\ NoLease \in Lease
    BY NoLeaseType
<1>3. CASE StartReserve(w, id) /\ holder' = [holder EXCEPT ![id] = w]
    <2>. DEFINE g == [Idle EXCEPT !.flow = "start", !.at = "dir", !.id = id, !.tok = NextInc]
                l == [NoLease EXCEPT !.inc = NextInc, !.phase = "Starting"]
    <2>1. g.flow = "start" /\ g.at = "dir" /\ g.id = id /\ g.tok = NextInc
        BY DEF Idle
    <2>2. l.inc = NextInc /\ l.phase = "Starting" /\ l.pane = None /\ l.prev = NoRow
        BY <1>2 DEF Lease
    <2>3. /\ work[w] = Idle /\ work' = [work EXCEPT ![w] = g] /\ UNCHANGED proc
          /\ UNCHANGED sessions /\ leases' = [leases EXCEPT ![id] = l] /\ leases[id].inc = 0
        BY <1>3 DEF StartReserve, Begin, ReserveStart, Leased
    <2>. HIDE DEF g, l
    <2>4. leases'[id] = l /\ Elsewhere(id)
        BY <1>1, <2>3 DEF IInv, Elsewhere, Same
    <2>5. Duty(g, sessions[id], leases'[id])
        BY <2>1, <2>2, <2>4 DEF Duty, Early, Committed
    <2>. QED BY <1>1, <1>3, <2>1, <2>2, <2>3, <2>4, <2>5, BeginActs
<1>4. CASE RestartClaim(w, id) /\ holder' = [holder EXCEPT ![id] = w]
    <2>. DEFINE g == [Idle EXCEPT !.flow = "restart", !.at = "snapshot", !.id = id,
                                  !.tok = sessions[id].inc]
                l == [NoLease EXCEPT !.inc = sessions[id].inc, !.phase = "Restarting",
                                     !.dir = sessions[id].dir]
    <2>1. /\ g.flow = "restart" /\ g.at = "snapshot" /\ g.id = id /\ g.tok = sessions[id].inc
          /\ g.mode = "create"
        BY DEF Idle
    <2>2. /\ l.inc = sessions[id].inc /\ l.phase = "Restarting" /\ l.pane = None
          /\ l.prev = NoRow /\ l.target = 0
        BY <1>2 DEF Lease
    <2>3. /\ work[w] = Idle /\ work' = [work EXCEPT ![w] = g] /\ UNCHANGED proc
          /\ UNCHANGED sessions /\ leases' = [leases EXCEPT ![id] = l] /\ leases[id].inc = 0
          /\ sessions[id].inc # 0
        BY <1>4 DEF RestartClaim, Begin, ClaimExistingStart, Leased, Live
    <2>. HIDE DEF g, l
    <2>4. leases'[id] = l /\ Elsewhere(id)
        BY <1>1, <2>3 DEF IInv, Elsewhere, Same
    <2>5. Duty(g, sessions[id], leases'[id])
        BY <2>1, <2>2, <2>4 DEF Duty, Over, Unstaged, InPlace, Hard
    <2>. QED BY <1>1, <1>4, <2>1, <2>2, <2>3, <2>4, <2>5, BeginActs
<1>5. CASE KillClaim(w, id) /\ holder' = [holder EXCEPT ![id] = w]
    <2>. DEFINE row == sessions[id]
                g == [Idle EXCEPT !.flow = "kill", !.at = "claimed", !.id = id,
                                  !.tok = row.inc, !.pane = row.pane]
                o == IF row.sid = None THEN 0 ELSE row.inc
                l == [NoLease EXCEPT !.inc = row.inc, !.phase = "Stopping",
                                     !.sid = row.sid, !.sidOwner = o,
                                     !.pane = row.pane, !.paneOwner = row.inc, !.dir = row.dir]
    <2>1. g.flow = "kill" /\ g.at = "claimed" /\ g.id = id /\ g.tok = row.inc
        BY DEF Idle
    <2>3. /\ work[w] = Idle /\ work' = [work EXCEPT ![w] = g] /\ UNCHANGED proc
          /\ UNCHANGED sessions /\ leases' = [leases EXCEPT ![id] = l] /\ leases[id].inc = 0
          /\ row.inc # 0
        BY <1>5 DEF KillClaim, Begin, ClaimExistingStop, Leased, Live
    <2>. HIDE DEF o
    <2>2. l.inc = row.inc /\ l.phase = "Stopping" /\ l.pane = row.pane /\ l.prev = NoRow
        BY <1>2 DEF Lease
    <2>. HIDE DEF g, l
    <2>4. leases'[id] = l /\ Elsewhere(id)
        BY <1>1, <2>3 DEF IInv, Elsewhere, Same
    <2>5. Duty(g, sessions[id], leases'[id])
        BY <2>1, <2>2, <2>4 DEF Duty
    <2>. QED BY <1>1, <1>5, <2>1, <2>2, <2>3, <2>4, <2>5, BeginActs
<1>6. CASE RecoverRead(w, id) /\ UNCHANGED holder
    <2>. DEFINE at == IF http /\ leases[id].sid # None THEN "replay" ELSE "release"
                g  == [Idle EXCEPT !.flow = "recover", !.id = id, !.tok = leases[id].inc,
                                   !.sid = leases[id].sid, !.at = at]
    <2>1. work[w] = Idle /\ work' = [work EXCEPT ![w] = g] /\ UNCHANGED proc /\ UNCHANGED vars
        BY <1>6 DEF RecoverRead, Begin
    <2>2. at \in {"replay", "release"}
        OBVIOUS
    <2>. HIDE DEF at
    <2>3. g.flow = "recover" /\ g.id = id /\ g.at = at
        BY DEF Idle
    <2>. HIDE DEF g
    <2>4. Elsewhere(id) /\ UNCHANGED sessions /\ UNCHANGED leases
        BY <2>1, QuietSame DEF Elsewhere, vars
    <2>. QED BY <1>1, <1>6, <2>1, <2>2, <2>3, <2>4, BeginActs
<1>. QED BY <1>3, <1>4, <1>5, <1>6 DEF Begins

-----------------------------------------------------------------------------
(* What happens outside the flows. *)

LEMMA NoFlowActs ==
    ASSUME HInv, UNCHANGED work, UNCHANGED holder, Aging,
           \A id \in Ids : /\ leases'[id] = leases[id]
                           /\ Same(id) \/ leases[id].inc = 0
                           /\ sessions'[id].pane \in {sessions[id].pane, None}
    PROVE  HInv'
<1>1. ASSUME NEW v \in Workers PROVE OnDuty(v)'
    <2>1. OnDuty(v) /\ (Held(v) <=> Held(v)')
        BY DEF HInv, Duties, Held
    <2>2. Held(v) => Duty(work[v], sessions'[work[v].id], leases'[work[v].id])
        <3>. SUFFICES ASSUME Held(v)
                      PROVE  Duty(work[v], sessions'[work[v].id], leases[work[v].id])
            BY DEF Held
        <3>. QED BY <2>1, DutySame DEF OnDuty, Held, Same
    <2>. QED BY <2>1, <2>2 DEF OnDuty
<1>2. \A q \in Panes : FreshPane(q) => FreshPane(q)'
    BY NoneIsFresh DEF FreshPane
<1>3. LooseApart' /\ Born'
    BY <1>2 DEF HInv, LooseApart, Born, Aging
<1>4. ASSUME NEW i \in Ids PROVE Kept(i)'
    BY ReasonSame DEF HInv, Kept, Same, Attended
<1>. QED BY <1>1, <1>3, <1>4 DEF HInv, Duties

(* The row of an ID after a restart of the daemon *)
LEMMA RebootRow ==
    ASSUME IInv, NEW gone, Restore(gone), NEW id \in Ids
    PROVE  \/ /\ sessions'[id] = NoRow
              /\ id \in gone \/ (Leased(id) /\ AbandonedLeaseOwns(leases[id], Incumbent(id)))
           \/ /\ id \notin gone
              /\ ~(Leased(id) /\ AbandonedLeaseOwns(leases[id], Incumbent(id)))
              /\ sessions'[id].inc = Incumbent(id).inc
              /\ sessions'[id].pane = Incumbent(id).pane
<1>. DEFINE bare == [Incumbent(id) EXCEPT !.cred = 0, !.scanned = FALSE]
<1>1. sessions'[id] = IF id \in gone THEN NoRow ELSE KeptRow(id)
    BY RestoredRows
<1>2. Incumbent(id) \in Row
    BY RowTypes DEF Incumbent
<1>3. bare.inc = Incumbent(id).inc /\ bare.pane = Incumbent(id).pane
    BY <1>2, RestoredRow
<1>4. KeptRow(id) = IF Leased(id) /\ AbandonedLeaseOwns(leases[id], Incumbent(id))
                    THEN NoRow ELSE bare
    BY Zenon DEF KeptRow
<1>. HIDE DEF bare
<1>. QED BY <1>1, <1>3, <1>4

LEMMA RebootHolds ==
    ASSUME DInv, HInv, Reboot, UNCHANGED holder
    PROVE  HInv'
<1>1. /\ IInv /\ proc \in [Panes -> Int] /\ work' = [w \in Workers |-> Idle] /\ proc' = BootProc
      /\ \E gone : Restore(gone)
    BY Zenon DEF DInv, FInv, Reboot
<1>2. PICK gone : Restore(gone)
    BY <1>1
<1>3. \A id \in Ids : leases'[id] = NoLease /\ leases'[id].inc = 0
    <2>1. leases' = [id \in Ids |-> NoLease]
        BY <1>2, Zenon DEF Restore
    <2>. QED BY <2>1, NoLeaseType
<1>4. \A w \in Workers : OnDuty(w)' /\ ~Loose(work'[w])
    BY <1>1, IdleOnDuty, IdleDuty
<1>5. Aging
    BY <1>1 DEF Aging, BootProc, Gone, Unborn
<1>6. \A id \in Ids : sessions'[id].pane \in {sessions[id].pane, leases[id].prev.pane, None}
    BY <1>1, <1>2, RebootRow, NoRowType DEF Incumbent
<1>7. \A q \in Panes : FreshPane(q) => FreshPane(q)'
    BY <1>3, <1>6, NoLeaseType, NoRowType, NoneIsFresh DEF FreshPane
<1>8. LooseApart' /\ Born'
    BY <1>4, <1>5, <1>7 DEF HInv, LooseApart, Born, Aging
<1>. QED BY <1>3, <1>4, <1>8 DEF HInv, Duties, Kept

LEMMA EnvironmentHolds ==
    ASSUME DInv, HInv, Environment, UNCHANGED holder
    PROVE  HInv'
<1>. USE DEF Outside, outside, Registry
<1>1. IInv /\ proc \in [Panes -> Int]
    BY DEF DInv, FInv
<1>2. ASSUME UNCHANGED vars, UNCHANGED work, Aging PROVE HInv'
    BY <1>2, NoFlowActs DEF vars, Same
<1>3. CASE \E p \in Panes : PaneDies(p)
    BY <1>1, <1>2, <1>3, GoneAges DEF PaneDies
<1>4. CASE \E id \in Ids : Deliver(id)
    BY <1>2, <1>4, SameProcAges DEF Deliver
<1>5. CASE \E sid \in Sids : TurnEnds(sid)
    BY <1>2, <1>5, SameProcAges DEF TurnEnds
<1>6. ASSUME NEW id \in Ids, Reap(id) PROVE HInv'
    <2>1. /\ sessions' = [sessions EXCEPT ![id] = NoRow] /\ UNCHANGED leases /\ leases[id].inc = 0
          /\ UNCHANGED work /\ UNCHANGED proc
        BY <1>6 DEF Reap, DormantOwned, Leased
    <2>2. \A j \in Ids : sessions'[j] = IF j = id THEN NoRow ELSE sessions[j]
        BY <1>1, <2>1 DEF IInv
    <2>. QED BY <2>1, <2>2, NoRowType, SameProcAges, NoFlowActs DEF Same
<1>7. ASSUME NEW id \in Ids, NEW sid \in Sids, HookBinds(id, sid) PROVE HInv'
    <2>. DEFINE row == [sessions[id] EXCEPT !.backend = TRUE, !.sid = sid, !.cred = 0]
    <2>1. /\ sessions' = [sessions EXCEPT ![id] = row] /\ UNCHANGED leases
          /\ UNCHANGED work /\ UNCHANGED proc
        BY <1>7 DEF HookBinds, BindBackendIdentity, SetPair
    <2>2. row.inc = sessions[id].inc /\ row.pane = sessions[id].pane
        BY <1>1, OfId DEF Row
    <2>. HIDE DEF row
    <2>3. \A j \in Ids : sessions'[j] = IF j = id THEN row ELSE sessions[j]
        BY <1>1, <2>1 DEF IInv
    <2>. QED BY <2>1, <2>2, <2>3, SameProcAges, NoFlowActs DEF Same
<1>8. CASE Reboot
    BY <1>8, RebootHolds
<1>. QED BY <1>3, <1>4, <1>5, <1>6, <1>7, <1>8 DEF Environment

-----------------------------------------------------------------------------
LEMMA HStep == DInv /\ HInv /\ Dirs # {} /\ [NextAttended /\ Exact]_fvars => HInv'
<1>. SUFFICES ASSUME DInv, HInv, Dirs # {}, [NextAttended /\ Exact]_fvars PROVE HInv'
    OBVIOUS
<1>1. CASE UNCHANGED fvars
    <2>1. UNCHANGED work /\ UNCHANGED holder /\ UNCHANGED sessions /\ UNCHANGED leases /\ Aging
        BY <1>1, SameProcAges DEF fvars
    <2>. QED BY <2>1, NoFlowActs DEF Same
<1>2. CASE NextUnattended /\ Exact
    BY <1>2, BeginsHolds, StartStepHolds, SharedStepHolds, RestartFlowStepHolds, KillStepHolds,
       EnvironmentHolds DEF NextUnattended, Proceeds,
       Continues
<1>3. ASSUME NEW w \in Workers, NEW id \in Ids, RecoverRead(w, id), UNCHANGED holder
      PROVE  HInv'
    BY <1>3, BeginsHolds
<1>4. ASSUME NEW w \in Workers, RecoverReplay(w), UNCHANGED holder PROVE HInv'
    BY <1>4, RecoverReplayHolds
<1>. QED BY <1>1, <1>2, <1>3, <1>4 DEF NextAttended

LEMMA HStart == FlowsInit => HInv
<1>. SUFFICES ASSUME FlowsInit PROVE HInv
    OBVIOUS
<1>1. /\ \A w \in Workers : work[w] = Idle
      /\ \A id \in Ids : sessions[id] = NoRow /\ leases[id] = NoLease
      /\ holder = [id \in Ids |-> None]
    BY DEF FlowsInit, Init
<1>2. Duties /\ LooseApart
    BY <1>1, IdleDuty DEF Duties, OnDuty, Keeps, LooseApart, Loose, Idle
<1>3. Born /\ \A id \in Ids : Kept(id)
    BY <1>1, NoneIsFresh, NoRowType, NoLeaseType DEF Born, FreshPane, Kept
<1>. QED BY <1>1, <1>2, <1>3 DEF HInv

(* NoLeakedLease: whatever a flow meets on its way, the lease it took is   *)
(* given back in the end, or is one that the code keeps on purpose.        *)
THEOREM LeasesDontLeak == ASSUME Dirs # {} PROVE ExactSpec => []NoLeakedLease
<1>1. HInv => NoLeakedLease
    <2>. SUFFICES ASSUME HInv, NEW id \in Ids, Leased(id), \A w \in Workers : work[w].id # id
                  PROVE  Reason(sessions[id], leases[id])
        BY DEF NoLeakedLease, Reason
    <2>. QED BY DEF HInv, Kept, Leased, Attended
<1>2. DInv /\ HInv /\ [NextAttended /\ Exact]_fvars => DInv' /\ HInv'
    BY HStep, DStep
<1>3. FlowsInit => DInv /\ HInv
    BY DInit, HStart
<1>. QED BY <1>1, <1>2, <1>3, PTL DEF ExactSpec

-----------------------------------------------------------------------------
(* The processes in the panes, when sessions are driven in their panes. *)

(* What the panes hold, without the processes that failed respawns left    *)
(* behind: the registry knows nothing of those.                            *)
own == [p \in Panes |-> IF proc[p] = stray[p] THEN Gone ELSE proc[p]]

LEMMA OwnSame == ASSUME UNCHANGED <<proc, stray>> PROVE own' = own
BY DEF own

LEMMA OwnGone ==
    ASSUME NEW p \in Panes
    PROVE  /\ own[p] \in {proc[p], Gone}
           /\ proc[p] \in {stray[p], Gone} => own[p] = Gone
           /\ own[p] # Gone => own[p] = proc[p] /\ proc[p] # stray[p]
BY DEF own

LEMMA OwnSet ==
    ASSUME proc \in [Panes -> Int], UNCHANGED stray, NEW p, NEW inc, SetProc(p, inc)
    PROVE  /\ \A q \in Panes : q # p => own'[q] = own[q]
           /\ p \in Panes => own'[p] \in {inc, Gone}
BY DEF own, SetProc

(* the process in the pane has one of these incarnations, or is gone *)
Is(pr, p, incs) == p \in Panes /\ pr[p] \in incs \cup {Gone}

(* What the panes of a row and of the lease of its ID can contain: the     *)
(* pane of a row the incarnation of the row; during a restart that of the  *)
(* incumbent or of the target, the latter once the lease has the pane.     *)
Match(row, l, pr) ==
    /\ row.inc # 0 /\ l.target = 0 => Is(pr, row.pane, {row.inc})
    /\ l.target # 0 => /\ Is(pr, row.pane, {l.inc, l.target})
                       /\ pr[row.pane] = l.target => l.pane = row.pane
    /\ l.pane # None /\ l.pane # row.pane => Is(pr, l.pane, {l.paneOwner})
    /\ l.phase = "Starting" => /\ l.pane # None => l.paneOwner = l.inc
                               /\ row.inc # 0 => row.pane = l.pane
    /\ l.phase = "Restarting" =>
          /\ l.sid = None
          /\ l.target = 0 => l.pane = None
          /\ l.target # 0 /\ l.pane # None => l.paneOwner = l.target
    /\ l.phase = "Stopping" => IF row.inc # 0 THEN row.pane = l.pane ELSE Is(pr, l.pane, {})

(* stages of a restart at which its lease has the pane of the row, or one  *)
(* in which nothing was launched yet                                       *)
Unlaunched == {"inspect", "custody", "respawn", "rollback", "fallback", "custodyNew", "launch"}

(* What a flow that has its lease knows besides *)
Phys(f, row, l, pr, rn) ==
    /\ f.flow = "start" =>
          /\ f.at = "record" => Is(pr, f.pane, {f.tok})
          /\ f.at = "rollbackStart" => Is(pr, l.pane, {})
          /\ f.at = "release" /\ row.inc = 0 /\ l.pane # None => Is(pr, l.pane, {})
    /\ f.flow = "restart" =>
          /\ f.at \in {"inspect", "custody", "respawn", "rollback"} => Is(pr, row.pane, {f.tok})
          /\ f.at \in {"fallback", "custodyNew", "launch"} => Is(pr, row.pane, {})
          /\ f.at = "custodyNew" => Is(pr, f.pane, {f.target}) /\ f.pane \notin rn
          /\ f.at = "respawn" => l.pane = row.pane
          /\ f.at = "launch" => l.pane = f.pane
          /\ f.at = "complete" => /\ l.pane = f.pane /\ Is(pr, f.pane, {f.target})
                                  /\ l.pane # row.pane => Is(pr, row.pane, {})
          /\ f.at \in Unlaunched => l.pane = row.pane \/ l.pane \notin rn
          /\ f.at = "release" => l.target = 0

(* The stages of a flow that uses no server *)
Served == {"make", "claim", "attach", "disown", "undo", "clear", "unmade", "serve", "prompt",
           "abort", "replay"}

Plain(f) == /\ f.at \notin Served
            /\ f.mode # "soft"
            /\ f.flow \in {"start", "restart"} => f.sid = None
            /\ f.at = "launch" => f.flow \in {"start", "restart"}
            /\ f.flow = "idle" => f.at = "idle"

PhysOf(w) == Held(w) => Phys(work[w], sessions[work[w].id], leases[work[w].id], own, ran)

(* A backend that runs is in the pane of a row or of a lease *)
Known(p) == /\ proc[p] # Unborn
            /\ own[p] > 0 => \E id \in Ids : p \in {sessions[id].pane, leases[id].pane}

Driven == /\ \A id \in Ids : Match(sessions[id], leases[id], own)
          /\ \A w \in Workers : Plain(work[w]) /\ PhysOf(w)
          /\ ran \subseteq Panes /\ \A p \in ran : Known(p)

PInv == stray \in [Panes -> Int] /\ (http \/ Driven)

-----------------------------------------------------------------------------
(* What does not change for those who do not act. *)

(* the lease is the same as far as panes go *)
Alike(l, new) == /\ new.inc = l.inc /\ new.phase = l.phase /\ new.target = l.target
                 /\ new.pane = l.pane /\ new.paneOwner = l.paneOwner /\ new.sid = l.sid

LEMMA MatchCool ==
    ASSUME NEW row, NEW l, NEW pr, Match(row, l, pr), NEW new, NEW m, NEW npr,
           new.inc = row.inc, new.pane = row.pane, Alike(l, m),
           \A q \in Panes : q \in {row.pane, l.pane} => npr[q] \in {pr[q], Gone}
    PROVE  Match(new, m, npr)
BY DEF Match, Alike, Is, Gone

LEMMA PhysCool ==
    ASSUME NEW f, NEW row, NEW l, NEW pr, NEW rn, Phys(f, row, l, pr, rn),
           NEW new, NEW npr, NEW nrn, new.inc = row.inc, new.pane = row.pane,
           \A q \in Panes : q \in {row.pane, l.pane} => npr[q] \in {pr[q], Gone},
           Loose(f) => f.pane \in Panes /\ npr[f.pane] \in {pr[f.pane], Gone},
           l.pane \in nrn => l.pane \in rn,
           f.at = "custodyNew" /\ f.pane \in nrn => f.pane \in rn
    PROVE  Phys(f, new, l, npr, nrn)
BY DEF Phys, Is, Loose, Unlaunched

(* The panes that a step fills or launches something in (p) are no panes   *)
(* of other IDs and of other flows; elsewhere processes can only go.       *)
Mild(w, id, p) ==
    /\ \A q \in Panes : own'[q] \in {own[q], Gone} \/ q = p
    /\ ran' \subseteq ran \cup ({p} \cap Panes)
    /\ p \in Panes => /\ \A j \in Ids \ {id} : p \notin {sessions[j].pane, leases[j].pane}
                      /\ \A v \in Workers \ {w} : Loose(work[v]) => work[v].pane # p

LEMMA NotElsewhere ==
    ASSUME IInv, NEW id \in Ids, NEW p, p = sessions[id].pane, p # None
    PROVE  \A j \in Ids \ {id} : p \notin {sessions[j].pane, leases[j].pane}
BY DEF IInv, PanesApart, PanesOf

LEMMA OthersMatch ==
    ASSUME Driven, NEW w, NEW id, NEW p, Mild(w, id, p), NEW j \in Ids \ {id}, Same(j)
    PROVE  Match(sessions'[j], leases'[j], own')
BY MatchCool DEF Driven, Mild, Same, Alike

LEMMA OthersPhys ==
    ASSUME Driven, HInv, NEW w \in Workers, NEW id \in Ids, NEW p, Mild(w, id, p),
           NEW v \in Workers \ {w}, work'[v] = work[v],
           Held(v)' /\ work[v].flow \in {"start", "restart"} =>
              /\ Held(v) /\ Same(work[v].id)
              /\ work[v].id = id => p \notin Panes
    PROVE  PhysOf(v)'
<1>. DEFINE f == work[v]
            j == f.id
<1>1. CASE f.flow \notin {"start", "restart"}
    BY <1>1 DEF PhysOf, Phys
<1>2. CASE ~Held(v)'
    BY <1>2 DEF PhysOf
<1>3. CASE f.flow \in {"start", "restart"} /\ Held(v)'
    <2>1. /\ Held(v) /\ Same(j) /\ j \in Ids /\ Phys(f, sessions[j], leases[j], own, ran)
          /\ ran \subseteq Panes
        BY <1>3 DEF Driven, PhysOf, Held
    <2>2. \A q \in Panes : q \in {sessions[j].pane, leases[j].pane} => own'[q] \in {own[q], Gone}
        BY <1>3, <2>1 DEF Mild
    <2>3. Loose(f) => f.pane \in Panes /\ own'[f.pane] \in {own[f.pane], Gone}
        BY DEF Mild, HInv, LooseApart
    <2>4. leases[j].pane \in ran' => leases[j].pane \in ran
        BY <1>3, <2>1 DEF Mild
    <2>5. f.at = "custodyNew" /\ f.pane \in ran' => f.pane \in ran
        BY DEF Mild, Loose
    <2>6. Phys(f, sessions'[j], leases[j], own', ran')
        BY <2>1, <2>2, <2>3, <2>4, <2>5, PhysCool DEF Same
    <2>. QED BY <2>1, <2>6 DEF PhysOf, Same
<1>. QED BY <1>1, <1>2, <1>3

(* Panes that the ID loses have nothing running in them *)
Loses(id) ==
    \A q \in ran : /\ q \in {sessions[id].pane, leases[id].pane}
                   /\ own'[q] > 0
                   => q \in {sessions'[id].pane, leases'[id].pane}

LEMMA StillKnown ==
    ASSUME Driven, proc \in [Panes -> Int], NEW w, NEW id \in Ids, NEW p, Mild(w, id, p), Aging,
           \A j \in Ids \ {id} : Same(j), Loses(id),
           p \in ran' => proc'[p] # Unborn /\ p \in {sessions'[id].pane, leases'[id].pane}
    PROVE  ran' \subseteq Panes /\ \A q \in ran' : Known(q)'
<1>1. ran' \subseteq Panes /\ ran \subseteq Panes
    BY DEF Driven, Mild
<1>2. ASSUME NEW q \in ran', q # p PROVE Known(q)'
    <2>1. q \in ran /\ q \in Panes /\ Known(q) /\ own'[q] \in {own[q], Gone} /\ proc'[q] # Unborn
        BY <1>1, <1>2 DEF Driven, Mild, Known, Aging
    <2>2. CASE own'[q] > 0
        <3>1. own[q] > 0
            BY <2>1, <2>2 DEF Gone
        <3>2. PICK j \in Ids : q \in {sessions[j].pane, leases[j].pane}
            BY <2>1, <3>1 DEF Known
        <3>3. q \in {sessions'[j].pane, leases'[j].pane}
            BY <2>1, <2>2, <3>2 DEF Loses, Same
        <3>. QED BY <2>1, <3>3 DEF Known
    <2>. QED BY <2>1, <2>2 DEF Known
<1>3. ASSUME NEW q \in ran', q = p PROVE Known(q)'
    BY <1>3 DEF Known
<1>. QED BY <1>1, <1>2, <1>3

(* A step of the flow that took the lease of the ID last, of one that ends *)
(* the lease, or of a stop                                                 *)
LEMMA PanesAct ==
    ASSUME DInv, HInv, Driven, NEW w \in Workers, NEW id \in Ids, NEW g, NEW p,
           holder[id] = w \/ leases'[id].inc = 0 \/ leases[id].phase = "Stopping",
           UNCHANGED holder, Aging,
           work' = [work EXCEPT ![w] = g], Elsewhere(id), Mild(w, id, p), Loses(id),
           p \in ran' => proc'[p] # Unborn /\ p \in {sessions'[id].pane, leases'[id].pane},
           Match(sessions'[id], leases'[id], own'), Plain(g),
           g.flow \in {"start", "restart"} =>
              /\ g.id = id
              /\ leases'[id].inc # 0 => Phys(g, sessions'[id], leases'[id], own', ran')
    PROVE  Driven'
<1>1. work'[w] = g /\ \A v \in Workers \ {w} : work'[v] = work[v]
    BY DEF DInv, FInv, Working
<1>2. \A j \in Ids : Match(sessions'[j], leases'[j], own')
    BY OthersMatch DEF Elsewhere
<1>3. ASSUME NEW v \in Workers \ {w} PROVE Plain(work'[v]) /\ PhysOf(v)'
    <2>1. CASE work[v].id = id /\ Held(v)' /\ work[v].flow \in {"start", "restart"}
        <3>1. leases[id].phase = "Stopping" /\ holder[id] = v
            BY <1>1, <2>1 DEF Held
        <3>2. Held(v)
            BY <2>1, <3>1, OfId DEF Held, Good, DInv, FInv
        <3>. QED BY <2>1, <3>1, <3>2 DEF HInv, Duties, OnDuty, Duty
    <2>2. CASE ~(work[v].id = id /\ Held(v)' /\ work[v].flow \in {"start", "restart"})
        <3>1. Held(v)' /\ work[v].flow \in {"start", "restart"} =>
                 Held(v) /\ Same(work[v].id) /\ work[v].id # id
            BY <1>1, <2>2 DEF Held, Elsewhere, Same
        <3>2. PhysOf(v)'
            BY <1>1, <3>1, OthersPhys
        <3>. QED BY <1>1, <3>2 DEF Driven
    <2>. QED BY <2>1, <2>2
<1>4. PhysOf(w)'
    BY <1>1 DEF PhysOf, Held, Phys
<1>5. ran' \subseteq Panes /\ \A q \in ran' : Known(q)'
    BY StillKnown DEF DInv, Elsewhere
<1>. QED BY <1>1, <1>2, <1>3, <1>4, <1>5 DEF Driven

(* A step that leaves the registry alone and starts nothing *)
Cooling == /\ \A q \in Panes : own'[q] \in {own[q], Gone}
           /\ Aging

LEMMA SameCools == ASSUME UNCHANGED <<proc, own>> PROVE Cooling
BY SameProcAges DEF Cooling

LEMMA GoneCools ==
    ASSUME proc \in [Panes -> Int], UNCHANGED stray, NEW p, SetProc(p, Gone) \/ UNCHANGED proc
    PROVE  Cooling
<1>1. CASE SetProc(p, Gone)
    <2>1. \A q \in Panes : own'[q] \in {own[q], Gone}
        BY <1>1, OwnSet
    <2>. QED BY <1>1, <2>1, GoneAges DEF Cooling
<1>2. CASE UNCHANGED proc
    BY <1>2, OwnSame, SameProcAges DEF Cooling
<1>. QED BY <1>1, <1>2

LEMMA PanesQuiet ==
    ASSUME DInv, HInv, Driven, NEW w \in Workers, NEW id \in Ids, NEW g,
           UNCHANGED <<vars, holder, ran>>, Cooling,
           work' = [work EXCEPT ![w] = g], Plain(g),
           g.flow \in {"start", "restart"} =>
              /\ g.id = work[w].id /\ g.id \in Ids
              /\ Held(w) => Phys(g, sessions[g.id], leases[g.id], own', ran)
    PROVE  Driven'
<1>1. work'[w] = g /\ \A v \in Workers \ {w} : work'[v] = work[v]
    BY DEF DInv, FInv, Working
<1>2. /\ \A j \in Ids : Same(j) /\ sessions'[j] = sessions[j] /\ leases'[j] = leases[j]
      /\ None \notin Panes
    BY NoneIsFresh DEF vars, Same
<1>3. Mild(w, id, None) /\ Aging
    BY <1>2 DEF Mild, Cooling
<1>4. ASSUME NEW j \in Ids PROVE Match(sessions'[j], leases'[j], own')
    BY <1>2, MatchCool DEF Driven, Cooling, Alike
<1>5. ASSUME NEW v \in Workers \ {w} PROVE Plain(work'[v]) /\ PhysOf(v)'
    <2>1. Held(v)' => Held(v) /\ Same(work[v].id)
        BY <1>1, <1>2 DEF Held
    <2>2. PhysOf(v)'
        BY <1>1, <1>2, <1>3, <2>1, OthersPhys
    <2>. QED BY <1>1, <2>2 DEF Driven
<1>6. PhysOf(w)'
    <2>1. CASE g.flow \notin {"start", "restart"}
        BY <1>1, <2>1 DEF PhysOf, Phys
    <2>2. CASE g.flow \in {"start", "restart"}
        <3>1. /\ g.id = work[w].id /\ sessions' = sessions /\ leases' = leases
              /\ Held(w) => Phys(g, sessions[g.id], leases[g.id], own', ran)
            BY <2>2 DEF vars
        <3>2. Held(w)' => Held(w)
            BY <1>1, <3>1 DEF Held
        <3>. QED BY <1>1, <3>1, <3>2 DEF PhysOf
    <2>. QED BY <2>1, <2>2
<1>7. ran' \subseteq Panes /\ \A q \in ran' : Known(q)'
    <2>1. Loses(id)
        BY <1>2 DEF Loses
    <2>2. None \notin ran'
        BY <1>2 DEF Driven
    <2>. QED BY <1>2, <1>3, <2>1, <2>2, StillKnown DEF DInv
<1>. QED BY <1>1, <1>4, <1>5, <1>6, <1>7 DEF Driven

(* ... and that takes a flow on *)
LEMMA PlainSteps ==
    ASSUME NEW f, NEW g, NEW at, Plain(f), Steps(f, g, at), at \notin Served, f.flow # "idle",
           at = "launch" => f.flow \in {"start", "restart"}
    PROVE  Plain(g)
BY DEF Plain, Steps

LEMMA PanesGoto ==
    ASSUME DInv, HInv, Driven, NEW w \in Workers, UNCHANGED <<vars, holder, ran>>,
           Cooling, work[w].id \in Ids, NEW at, Goto(w, at), at \notin Served \cup {"launch"},
           work[w].flow # "idle",
           work[w].flow \in {"start", "restart"} /\ Held(w) =>
              \A g : Steps(work[w], g, at) =>
                 Phys(g, sessions[work[w].id], leases[work[w].id], own', ran)
    PROVE  Driven'
<1>1. Working
    BY DEF DInv, FInv
<1>2. PICK g : work' = [work EXCEPT ![w] = g] /\ Steps(work[w], g, at)
    BY <1>1, GotoMoves
<1>3. Plain(g)
    BY <1>2, PlainSteps DEF Driven
<1>4. g.flow = work[w].flow /\ g.id = work[w].id
    BY <1>2 DEF Steps
<1>. QED BY <1>2, <1>3, <1>4, PanesQuiet

LEMMA PanesEnd ==
    ASSUME DInv, HInv, Driven, NEW w \in Workers, UNCHANGED <<vars, holder, ran>>,
           Cooling, work[w].id \in Ids, End(w)
    PROVE  Driven'
<1>1. Plain(Idle) /\ Idle.flow \notin {"start", "restart"}
    BY DEF Plain, Idle, Served
<1>. QED BY <1>1, PanesQuiet DEF End

(* A section that the flow applies to its own ID *)
LEMMA PanesSection ==
    ASSUME DInv, HInv, Driven, NEW w \in Workers, NEW id \in Ids, work[w].id = id, holder[id] = w,
           UNCHANGED <<proc, own, ran, holder>>, NEW at, Goto(w, at), at \notin Served,
           at = "launch" => work[w].flow \in {"start", "restart"}, work[w].flow # "idle",
           Elsewhere(id), Loses(id), Match(sessions'[id], leases'[id], own),
           work[w].flow \in {"start", "restart"} /\ leases'[id].inc # 0 =>
              \A g : Steps(work[w], g, at) => Phys(g, sessions'[id], leases'[id], own, ran)
    PROVE  Driven'
<1>1. Working
    BY DEF DInv, FInv
<1>2. PICK g : work' = [work EXCEPT ![w] = g] /\ Steps(work[w], g, at)
    BY <1>1, GotoMoves
<1>3. Plain(g)
    BY <1>2, PlainSteps DEF Driven
<1>4. g.flow = work[w].flow /\ g.id = id
    BY <1>2 DEF Steps
<1>5. Mild(w, id, None) /\ None \notin ran' /\ Aging
    BY NoneIsFresh, SameProcAges DEF Mild, Driven
<1>6. g.flow \in {"start", "restart"} =>
         (leases'[id].inc # 0 => Phys(g, sessions'[id], leases'[id], own', ran'))
    BY <1>2, <1>4
<1>. QED BY <1>2, <1>3, <1>4, <1>5, <1>6, PanesAct

(* ... and one that changes the lease without touching its pane *)
LEMMA AlikeMatches ==
    ASSUME Driven, NEW id \in Ids, UNCHANGED <<proc, own>>, sessions'[id].inc = sessions[id].inc,
           sessions'[id].pane = sessions[id].pane, Alike(leases[id], leases'[id])
    PROVE  Loses(id) /\ Match(sessions'[id], leases'[id], own)
BY MatchCool DEF Driven, Loses, Alike

(* A new pane *)
LEMMA PanesNew ==
    ASSUME DInv, HInv, Driven, NEW w \in Workers, work[w].id \in Ids, Held(w),
           UNCHANGED <<vars, holder, stray>>, NEW inc \in Nat, NEW at, NewPane(w, inc, at),
           \/ At(w, "start", "create") /\ at = "record" /\ inc = work[w].tok
           \/ At(w, "restart", "fallback") /\ at = "custodyNew" /\ inc = work[w].target
    PROVE  Driven'
<1>. DEFINE f  == work[w]
            id == f.id
<1>1. PICK p \in Panes : /\ proc[p] = Unborn /\ SetProc(p, inc) /\ ran' = ran
                         /\ work' = [work EXCEPT ![w] = [@ EXCEPT !.at = at, !.pane = p]]
    BY DEF NewPane
<1>. DEFINE g == [f EXCEPT !.at = at, !.pane = p]
<1>2. /\ f \in Flow /\ Plain(f) /\ proc \in [Panes -> Int]
      /\ sessions' = sessions /\ leases' = leases /\ holder[id] = w
    BY DEF DInv, FInv, Working, Driven, vars, Held
<1>3. /\ g.at = at /\ g.pane = p /\ g.flow = f.flow /\ g.id = f.id /\ g.tok = f.tok
      /\ g.target = f.target /\ g.mode = f.mode /\ g.sid = f.sid
    BY <1>2 DEF Flow
<1>4. work' = [work EXCEPT ![w] = g]
    BY <1>1
<1>. HIDE DEF g
<1>5. /\ FreshPane(p) /\ p \notin ran /\ own'[p] \in {inc, Gone}
      /\ \A q \in Panes \ {p} : own'[q] = own[q]
      /\ \A v \in Workers : Loose(work[v]) => work[v].pane # p
    <2>1. own'[p] \in {inc, Gone} /\ \A q \in Panes \ {p} : own'[q] = own[q]
        BY <1>1, <1>2, OwnSet
    <2>. QED BY <1>1, <1>2, <2>1 DEF HInv, Born, LooseApart, Driven, Known, Unborn
<1>6. Mild(w, id, p) /\ Elsewhere(id) /\ Loses(id) /\ Aging
    BY <1>1, <1>2, <1>5, SetProcAges DEF Mild, FreshPane, Elsewhere, Same, Loses
<1>7. Match(sessions'[id], leases'[id], own')
    BY <1>2, <1>5, MatchCool DEF Driven, Alike, FreshPane
<1>8. Plain(g)
    BY <1>2, <1>3 DEF Plain, Served, At
<1>9. Phys(g, sessions'[id], leases'[id], own', ran')
    <2>1. Phys(f, sessions[id], leases[id], own, ran)
        BY <1>2 DEF Driven, PhysOf
    <2>. QED BY <1>1, <1>2, <1>3, <1>5, <2>1 DEF Phys, Is, At, FreshPane, Unlaunched
<1>. QED BY <1>1, <1>2, <1>3, <1>4, <1>5, <1>6, <1>7, <1>8, <1>9, PanesAct

-----------------------------------------------------------------------------
(* Starts. *)

LEMMA StartStepDriven ==
    ASSUME DInv, HInv, Driven, NEW w \in Workers, StartStep(w), UNCHANGED <<holder, stray>>
    PROVE  Driven'
<1>. DEFINE f   == work[w]
            id  == f.id
            row == sessions[id]
            l   == leases[id]
<1>. USE OwnSame DEF Outside, outside, Registry
<1>0. f.flow = "start"
    BY DEF StartStep, StartDir, StartCreate, StartRecord, StartCommit, StartDiscard,
           StartFinalize, StartCleanup, StartRollback, At
<1>1. /\ Working /\ IInv /\ proc \in [Panes -> Int]
      /\ id \in Ids /\ f \in Flow /\ f.tok \in Nat
      /\ Held(w) /\ Duty(f, row, l) /\ holder[id] = w
      /\ l.inc = f.tok /\ f.tok # 0 /\ l.phase = "Starting"
    BY <1>0, StartOnDuty DEF Held
<1>2. /\ NoRow.pane = None /\ NoRow.inc = 0 /\ None \notin Panes /\ ran \subseteq Panes
      /\ l.target = 0 /\ (row.inc = 0 => row = NoRow) /\ row.inc \in {0, f.tok}
      /\ row.inc # 0 => row.pane # None
      /\ l.pane \in Panes \cup {None}
    BY <1>1, OfId, NoRowType, NoneIsFresh DEF Driven, Good, DInv, FInv, AllSeated, Seated, Lease
<1>3. Match(row, l, own) /\ Plain(f) /\ Phys(f, row, l, own, ran)
    BY <1>1 DEF Driven, PhysOf
(* the process in the pane of the lease is the one the start launched *)
<1>4. l.pane # None => /\ Is(own, l.pane, {f.tok}) /\ l.paneOwner = f.tok
                       /\ row.inc # 0 => row.pane = l.pane
    BY <1>1, <1>2, <1>3 DEF Match
<1>. HIDE DEF row, l
<1>. USE DEF Served
<1>5. ASSUME NEW at \in {"create", "release", "discard", "rollbackStart"},
             UNCHANGED <<vars, ran>>, Cooling, Goto(w, at),
             at = "rollbackStart" => Is(own', l.pane, {}),
             at = "release" => l.pane = None \/ Is(own', l.pane, {})
      PROVE  Driven'
    <2>1. \A g : Steps(f, g, at) => Phys(g, row, l, own', ran)
        BY <1>0, <1>5 DEF Phys, Steps
    <2>. QED BY <1>0, <1>1, <1>5, <2>1, PanesGoto DEF row, l
<1>6. ASSUME UNCHANGED <<vars, ran>>, Cooling, End(w) PROVE Driven'
    BY <1>1, <1>6, PanesEnd
<1>7. CASE StartDir(w)
    <2>1. f.at = "dir" /\ UNCHANGED <<proc, own, ran>> /\ l.pane = None
        BY <1>0, <1>1, <1>7 DEF StartDir, At, Attempt, Duty, Early
    <2>2. CASE UNCHANGED vars /\ End(w)
        BY <1>6, <2>1, <2>2, SameCools
    <2>3. CASE ~(UNCHANGED vars /\ End(w))
        <3>1. PICK dir \in Dirs, at \in {"create", "release"} :
                 RecordProjectDirClaim(id, f.tok, dir) /\ Goto(w, at)
            BY <1>7, <2>3 DEF StartDir, Attempt
        <3>2. /\ Elsewhere(id) /\ UNCHANGED sessions /\ Alike(l, leases'[id])
              /\ leases'[id].pane = None
            BY <1>1, <2>1, <3>1, DirClaimed DEF Likewise, Alike, l
        <3>3. \A g : Steps(f, g, at) => Phys(g, sessions'[id], leases'[id], own, ran)
            BY <1>0, <3>1, <3>2 DEF Phys, Steps
        <3>4. Loses(id) /\ Match(sessions'[id], leases'[id], own)
            BY <1>1, <2>1, <3>2, AlikeMatches DEF l
        <3>. QED BY <1>0, <1>1, <2>1, <3>1, <3>2, <3>3, <3>4, PanesSection
    <2>. QED BY <2>2, <2>3
<1>8. CASE StartCreate(w)
    <2>1. f.at = "create" /\ UNCHANGED vars /\ l.pane = None
        BY <1>0, <1>1, <1>8 DEF StartCreate, At, Duty, Early
    <2>2. CASE NewPane(w, f.tok, "record")
        BY <1>0, <1>1, <2>1, <2>2, PanesNew DEF At
    <2>3. CASE UNCHANGED <<proc, own, ran>> /\ Goto(w, "release")
        BY <1>5, <2>1, <2>3, SameCools
    <2>. QED BY <1>8, <2>2, <2>3 DEF StartCreate
<1>9. CASE StartRecord(w)
    <2>1. f.at = "record" /\ UNCHANGED <<proc, own, ran>> /\ l.pane = None
        BY <1>0, <1>1, <1>9 DEF StartRecord, At, Attempt, Duty, Early
    <2>2. CASE UNCHANGED vars /\ Goto(w, "discard")
        BY <1>5, <2>1, <2>2, SameCools
    <2>3. CASE RecordInertStartPane(id, f.tok, f.pane) /\ Goto(w, "commit")
        <3>1. /\ Elsewhere(id) /\ UNCHANGED sessions /\ Likewise(l, leases'[id])
              /\ leases'[id].pane = f.pane /\ leases'[id].paneOwner = f.tok
            BY <1>1, <2>3, PaneRecorded DEF l
        <3>2. row.inc = 0 /\ row.pane = None
            BY <1>1, <1>2, <1>3, <2>1 DEF Match
        <3>3. Is(own, f.pane, {f.tok})
            BY <1>0, <1>3, <2>1 DEF Phys
        <3>4. Match(sessions'[id], leases'[id], own)
            BY <1>1, <1>2, <3>1, <3>2, <3>3 DEF Match, Likewise, row
        <3>5. Loses(id)
            BY <1>2, <2>1, <3>2 DEF Loses, row, l
        <3>6. \A g : Steps(f, g, "commit") => Phys(g, sessions'[id], leases'[id], own, ran)
            BY <1>0 DEF Phys, Steps
        <3>. QED BY <1>0, <1>1, <2>1, <2>3, <3>1, <3>4, <3>5, <3>6, PanesSection
    <2>. QED BY <1>9, <2>2, <2>3 DEF StartRecord, Attempt
<1>10. CASE StartCommit(w)
    <2>1. f.at = "commit" /\ UNCHANGED <<proc, own, ran>> /\ l.pane # None
        BY <1>0, <1>1, <1>10 DEF StartCommit, At, Try, Duty, Early
    <2>2. CASE UNCHANGED vars /\ Goto(w, "discard")
        BY <1>5, <2>1, <2>2, SameCools
    <2>3. CASE /\ \E dir \in Dirs : CommitReservedStart(id, f.tok, dir, IF http THEN 0 ELSE f.tok)
               /\ Goto(w, "launch")
        <3>1. /\ Elsewhere(id) /\ leases'[id] = l /\ row.inc = 0
              /\ sessions'[id].inc = f.tok /\ sessions'[id].pane = l.pane
            BY <1>1, <2>3, StartCommitted DEF row, l
        <3>2. Match(sessions'[id], leases'[id], own)
            BY <1>1, <1>2, <1>4, <2>1, <3>1 DEF Match
        <3>3. Loses(id)
            BY <1>2, <3>1 DEF Loses, row, l
        <3>4. \A g : Steps(f, g, "launch") => Phys(g, sessions'[id], leases'[id], own, ran)
            BY <1>0 DEF Phys, Steps
        <3>. QED BY <1>0, <1>1, <2>1, <2>3, <3>1, <3>2, <3>3, <3>4, PanesSection
    <2>. QED BY <1>10, <2>2, <2>3 DEF StartCommit, Try
<1>11. CASE StartDiscard(w) \/ StartCleanup(w)
    <2>1. f.at \in {"discard", "cleanup"} /\ l.pane = f.pane /\ f.pane # None
        BY <1>0, <1>1, <1>11 DEF StartDiscard, StartCleanup, At, Duty, Early
    <2>2. PICK at \in {"release", "rollbackStart"} : Drop(w, f.tok, at, End(w))
        BY <1>11 DEF StartDiscard, StartCleanup
    <2>3. UNCHANGED <<vars, ran>> /\ (UNCHANGED <<proc, own>> \/ SetProc(f.pane, Gone))
        BY <2>2 DEF Drop
    <2>4. Cooling
        BY <1>1, <2>3, GoneCools
    <2>5. CASE End(w)
        BY <1>6, <2>3, <2>4, <2>5
    <2>6. ~PaneTaken(id, f.tok, f.pane)
        <3>. SUFFICES ASSUME NEW j \in Ids, sessions[j].pane = f.pane,
                             ~(j = id /\ sessions[j].inc = f.tok)
                      PROVE  FALSE
            BY DEF PaneTaken
        <3>1. CASE j # id
            BY <1>1, <2>1, <3>1 DEF IInv, PanesApart, PanesOf, l
        <3>2. CASE j = id
            BY <1>2, <2>1, <3>2 DEF row
        <3>. QED BY <3>1, <3>2
    <2>7. CASE Goto(w, at) /\ ~End(w)
        <3>1. ASSUME proc[f.pane] = f.tok PROVE Is(own', l.pane, {})
            <4>1. SetProc(f.pane, Gone)
                BY <2>2, <2>6, <2>7, <3>1 DEF Drop
            <4>2. f.pane \in Panes
                BY <1>2, <2>1
            <4>. QED BY <1>1, <2>1, <4>1, <4>2, OwnSet DEF Is
        <3>2. ASSUME proc[f.pane] # f.tok PROVE Is(own', l.pane, {})
            <4>1. own[f.pane] = Gone /\ f.pane \in Panes
                BY <1>2, <1>4, <2>1, <3>2, OwnGone DEF Is
            <4>2. UNCHANGED proc
                BY <2>2, <3>2 DEF Drop
            <4>. QED BY <2>1, <4>1, <4>2 DEF Is
        <3>3. Is(own', l.pane, {})
            BY <3>1, <3>2
        <3>. QED BY <1>5, <2>3, <2>4, <2>7, <3>3
    <2>. QED BY <2>2, <2>5, <2>7 DEF Drop
<1>12. CASE StartFinalize(w)
    <2>1. f.at = "finalize" /\ UNCHANGED <<proc, own, ran>> /\ row.inc = f.tok
        BY <1>0, <1>1, <1>12 DEF StartFinalize, At, Try, Duty, Committed
    <2>2. CASE UNCHANGED vars /\ End(w)
        BY <1>6, <2>1, <2>2, SameCools
    <2>3. CASE FinalizeReservedStart(id, f.tok, f.sid) /\ Goto(w, "release")
        <3>1. Elsewhere(id) /\ Same(id) /\ Alike(l, leases'[id])
            BY <1>1, <2>3, StartFinalized DEF Same, Alike, l
        <3>2. Loses(id) /\ Match(sessions'[id], leases'[id], own)
            BY <1>1, <2>1, <3>1, AlikeMatches DEF Same, l
        <3>3. \A g : Steps(f, g, "release") => Phys(g, sessions'[id], leases'[id], own, ran)
            BY <1>0, <1>1, <2>1, <3>1 DEF Phys, Steps, Same, row
        <3>. QED BY <1>0, <1>1, <2>1, <2>3, <3>1, <3>2, <3>3, PanesSection
    <2>. QED BY <1>12, <2>2, <2>3 DEF StartFinalize, Try
<1>13. CASE StartRollback(w)
    <2>1. /\ f.at = "rollbackStart" /\ UNCHANGED <<proc, own, ran>> /\ row.inc = f.tok
          /\ l.pane = f.pane /\ f.pane # None
        BY <1>0, <1>1, <1>13 DEF StartRollback, At, Try, Duty, Committed, Early
    <2>2. CASE UNCHANGED vars /\ End(w)
        BY <1>6, <2>1, <2>2, SameCools
    <2>3. CASE RollbackReservedStart(id, f.tok, f.pane) /\ Goto(w, "release")
        <3>1. /\ Elsewhere(id) /\ sessions'[id] = NoRow /\ Likewise(l, leases'[id])
              /\ leases'[id].pane = None
            BY <1>1, <1>4, <2>1, <2>3, StartRolledBack DEF l
        <3>2. Is(own, l.pane, {})
            BY <1>0, <1>3, <2>1 DEF Phys
        <3>3. Match(sessions'[id], leases'[id], own)
            BY <1>1, <1>2, <3>1 DEF Match, Likewise
        <3>4. Loses(id)
            BY <1>1, <1>4, <2>1, <3>2 DEF Loses, Is, Gone, row, l
        <3>5. \A g : Steps(f, g, "release") => Phys(g, sessions'[id], leases'[id], own, ran)
            BY <1>0, <3>1 DEF Phys, Steps
        <3>. QED BY <1>0, <1>1, <2>1, <2>3, <3>1, <3>3, <3>4, <3>5, PanesSection
    <2>. QED BY <1>13, <2>2, <2>3 DEF StartRollback, Try
<1>. QED BY <1>7, <1>8, <1>9, <1>10, <1>11, <1>12, <1>13 DEF StartStep

-----------------------------------------------------------------------------
(* The steps that starts and restarts share. *)

LEMMA LaunchDriven ==
    ASSUME DInv, HInv, Driven, ~http, NEW w \in Workers, Launch(w), UNCHANGED <<holder, stray>>
    PROVE  Driven'
<1>. DEFINE f   == work[w]
            id  == f.id
            row == sessions[id]
            l   == leases[id]
<1>1. /\ Working /\ IInv /\ proc \in [Panes -> Int] /\ f.at = "launch" /\ UNCHANGED vars
      /\ UNCHANGED <<proc, own>> /\ None \notin Panes
      /\ Plain(f) /\ f.flow \in {"start", "restart"}
    BY NoneIsFresh, OwnSame DEF DInv, FInv, Launch, Registry, Driven, Plain
<1>2. /\ id \in Ids /\ f \in Flow /\ Held(w) /\ Duty(f, row, l) /\ holder[id] = w
    BY <1>1, AtStage DEF HInv, Duties, OnDuty, Keeps, Over, Held
<1>3. Match(row, l, own) /\ Phys(f, row, l, own, ran) /\ ran \subseteq Panes
    BY <1>2 DEF Driven, PhysOf
<1>4. l.pane = f.pane /\ f.pane \in Panes
    <2>1. CASE f.flow = "start"
        BY <1>1, <1>2, <2>1 DEF Duty, Early, Flow
    <2>2. CASE f.flow = "restart"
        BY <1>1, <1>2, <1>3, <2>2 DEF Phys, Working, Sensible
    <2>. QED BY <1>1, <2>1, <2>2
<1>5. /\ sessions'[id] = row /\ leases'[id] = l
      /\ Elsewhere(id) /\ Loses(id) /\ Aging /\ Match(sessions'[id], leases'[id], own')
    BY <1>1, <1>3, SameProcAges DEF vars, Elsewhere, Same, Loses
<1>6. PICK at \in {"finalize", "complete", "cleanup", "rollback"} :
         /\ Goto(w, at)
         /\ f.flow = "restart" => at \in {"complete", "rollback"}
         /\ ran' = IF Running(f.pane) /\ at \in {"finalize", "complete"} THEN ran \cup {f.pane} ELSE ran
    BY <1>1 DEF Launch
<1>7. PICK g : work' = [work EXCEPT ![w] = g] /\ Steps(f, g, at)
    BY <1>1, <1>6, GotoMoves
<1>8. g.flow = f.flow /\ g.id = id /\ Plain(g)
    BY <1>1, <1>6, <1>7, PlainSteps DEF Steps, Served
<1>9. Mild(w, id, f.pane)
    <2>1. \A j \in Ids \ {id} : f.pane \notin {sessions[j].pane, leases[j].pane}
        BY <1>1, <1>2, <1>4 DEF IInv, PanesApart, PanesOf
    <2>2. \A v \in Workers : Loose(work[v]) => work[v].pane # f.pane
        BY <1>2, <1>4 DEF HInv, LooseApart, FreshPane
    <2>. QED BY <1>1, <1>4, <1>6, <2>1, <2>2 DEF Mild
<1>10. f.pane \in ran' => proc'[f.pane] # Unborn
    BY <1>1, <1>6 DEF Driven, Known, Running, Unborn
<1>11. f.flow = "restart" => Phys(g, row, l, own, ran')
    <2>. SUFFICES ASSUME f.flow = "restart" PROVE Phys(g, row, l, own, ran')
        OBVIOUS
    <2>1. l.phase = "Restarting" /\ l.target = f.target /\ f.target # 0
        BY <1>1, <1>2 DEF Duty, Over, Unstaged
    <2>2. /\ Is(own, row.pane, {}) /\ (l.pane = row.pane \/ l.pane \notin ran)
        BY <1>1, <1>3 DEF Phys, Unlaunched
    <2>3. Is(own, f.pane, {f.target})
        BY <1>1, <1>3, <1>4, <2>1, <2>2 DEF Match, Is
    <2>4. CASE at = "complete"
        BY <1>4, <1>7, <1>8, <2>2, <2>3, <2>4 DEF Phys, Steps, Unlaunched
    <2>5. CASE at = "rollback"
        BY <1>6, <1>7, <1>8, <2>2, <2>5 DEF Phys, Steps, Is
    <2>. QED BY <1>6, <2>4, <2>5
<1>12. f.flow = "start" => Phys(g, row, l, own, ran')
    BY <1>6, <1>7, <1>8 DEF Phys, Steps
<1>13. Phys(g, sessions'[id], leases'[id], own', ran')
    BY <1>1, <1>5, <1>11, <1>12
<1>. HIDE DEF f
<1>. QED BY <1>2, <1>4, <1>5, <1>7, <1>8, <1>9, <1>10, <1>13, PanesAct

LEMMA ReleaseDriven ==
    ASSUME DInv, HInv, Driven, NEW w \in Workers, Release(w), Exact, UNCHANGED <<holder, stray>>
    PROVE  Driven'
<1>. DEFINE f   == work[w]
            id  == f.id
            row == sessions[id]
            l   == leases[id]
<1>1. /\ Working /\ IInv /\ f.at = "release" /\ id \in Ids /\ UNCHANGED <<proc, own, ran>> /\ End(w)
      /\ f.flow \in Kinds \ {"idle"} /\ None \notin Panes
    <2>1. Working /\ IInv /\ f.at = "release" /\ id \in Ids /\ UNCHANGED <<proc, own, ran>> /\ End(w)
        BY AtStage, OwnSame DEF DInv, FInv, Release, Attempt, Outside, outside
    <2>2. f \in Flow /\ Plain(f)
        BY <2>1 DEF Working, Driven
    <2>. QED BY <2>1, <2>2, NoneIsFresh DEF Flow, Plain
<1>2. CASE UNCHANGED vars
    BY <1>1, <1>2, PanesEnd, SameCools
<1>3. CASE AbortLifecycle(id, f.tok)
    <2>1. /\ Elsewhere(id) /\ UNCHANGED sessions /\ leases'[id] = NoLease /\ leases'[id].inc = 0
          /\ l.inc # 0
        BY <1>1, <1>3, Aborted DEF AbortLifecycle, LeasedBy, Leased
    <2>2. /\ NoLease.target = 0 /\ NoLease.pane = None /\ NoLease.phase = "None"
          /\ Good(row, dormant[id], l)
          /\ row.inc # 0 => row.pane # None
        BY <1>1, OfId DEF NoLease, DInv, FInv, AllSeated, Seated
    <2>3. holder[id] = w \/ l.phase = "Stopping"
        <3>1. work'[w] # f
            BY <1>1 DEF End, Working, Idle
        <3>. QED BY <1>1, <2>1, <3>1 DEF Exact
    <2>4. Match(row, l, own)
        BY <1>1 DEF Driven
    <2>5. l.phase = "Stopping" \/ (Held(w) /\ Duty(f, row, l) /\ Phys(f, row, l, own, ran))
        BY <1>1, <2>1, <2>3 DEF Held, HInv, Duties, OnDuty, Driven, PhysOf
    <2>6. /\ l.target = 0
          /\ l.pane \in {None, row.pane} \/ Is(own, l.pane, {})
        <3>1. CASE l.phase = "Stopping"
            BY <2>2, <2>4, <3>1 DEF Match, Good
        <3>2. CASE l.phase # "Stopping" /\ f.flow = "start"
            BY <1>1, <2>2, <2>4, <2>5, <3>2 DEF Match, Good, Duty, Phys
        <3>3. CASE l.phase # "Stopping" /\ f.flow = "restart"
            BY <1>1, <2>2, <2>4, <2>5, <3>3 DEF Match, Duty, Phys
        <3>4. CASE l.phase # "Stopping" /\ f.flow \in {"kill", "recover"}
            <4>1. f.flow = "recover"
                BY <2>5, <3>4 DEF Duty
            <4>2. work'[w] # f
                BY <1>1 DEF End, Working, Idle
            <4>. QED BY <1>1, <2>1, <3>4, <4>1, <4>2 DEF Exact
        <3>. QED BY <1>1, <3>1, <3>2, <3>3, <3>4 DEF Kinds
    <2>7. Match(sessions'[id], leases'[id], own')
        BY <1>1, <2>1, <2>2, <2>4, <2>6 DEF Match
    <2>8. Loses(id)
        BY <1>1, <2>1, <2>6 DEF Loses, Is, Gone, Driven
    <2>9. Mild(w, id, None) /\ None \notin ran' /\ Aging
        BY <1>1, SameProcAges DEF Mild, Driven
    <2>10. Plain(Idle) /\ Idle.flow \notin {"start", "restart"}
        BY DEF Plain, Idle, Served
    <2>. QED BY <1>1, <2>1, <2>7, <2>8, <2>9, <2>10, PanesAct DEF End
<1>. QED BY <1>2, <1>3 DEF Release, Attempt, Registry

LEMMA SharedStepDriven ==
    ASSUME DInv, HInv, Driven, ~http, NEW w \in Workers, SharedStep(w), Exact, UNCHANGED <<holder, stray>>
    PROVE  Driven'
<1>1. work[w].at \notin Served
    BY DEF Driven, Plain
<1>. QED BY <1>1, LaunchDriven, ReleaseDriven
         DEF SharedStep, Make, Claim, Attach, Undo, Clear, Unmade, At, Served

-----------------------------------------------------------------------------
(* Restarts. *)

(* What a restart that is not over knows of the panes *)
LEMMA RestartKnows ==
    ASSUME DInv, HInv, Driven, NEW w \in Workers, work[w].flow = "restart", work[w].at \notin Over
    PROVE  LET f   == work[w]
               row == sessions[f.id]
               l   == leases[f.id]
           IN  /\ f.id \in Ids /\ f \in Flow /\ f.target \in Nat /\ f.tok \in Nat
               /\ Held(w) /\ Duty(f, row, l) /\ holder[f.id] = w
               /\ l.inc = f.tok /\ f.tok # 0 /\ l.phase = "Restarting"
               /\ Match(row, l, own) /\ Phys(f, row, l, own, ran) /\ Plain(f)
               /\ l.sid = None /\ f.sid = None /\ f.mode # "soft"
               /\ Good(row, dormant[f.id], l) /\ row.inc # 0 /\ row.pane # None
               /\ l.target # 0 => /\ l.target > l.inc /\ row.inc = l.target
                                  /\ l.prev.inc = l.inc /\ l.prev.pane = row.pane
<1>. DEFINE f   == work[w]
            id  == f.id
            row == sessions[id]
            l   == leases[id]
<1>1. /\ Held(w) /\ Duty(f, row, l) /\ l.inc = f.tok /\ f.tok # 0 /\ l.phase = "Restarting"
      /\ id \in Ids /\ holder[id] = w
    BY RestartOnDuty DEF Held
<1>2. f \in Flow /\ f.target \in Nat /\ f.tok \in Nat
    BY DEF DInv, FInv, Working, Flow
<1>3. Match(row, l, own) /\ Phys(f, row, l, own, ran) /\ Plain(f)
    BY <1>1 DEF Driven, PhysOf
<1>4. /\ Good(row, dormant[id], l) /\ l.inc \in Nat /\ l.target \in Nat
      /\ row.inc # 0 => row.pane # None
    BY <1>1, OfId, RowTypes DEF DInv, FInv, AllSeated, Seated
<1>5. /\ row.inc # 0
      /\ l.target # 0 => /\ l.target > l.inc /\ row.inc = l.target
                         /\ l.prev.inc = l.inc /\ l.prev.pane = row.pane
    BY <1>1, <1>2, <1>4 DEF Good
<1>. QED BY <1>1, <1>2, <1>3, <1>4, <1>5 DEF Match, Plain

LEMMA SnapshotDriven ==
    ASSUME DInv, HInv, Driven, NEW w \in Workers, RestartSnapshot(w), UNCHANGED <<holder, stray>>
    PROVE  Driven'
<1>. DEFINE f   == work[w]
            id  == f.id
            row == sessions[id]
<1>. USE OwnSame DEF Outside, outside, Registry, Served
<1>1. f.flow = "restart" /\ f.at = "snapshot" /\ UNCHANGED <<vars, proc, own, ran>>
    BY DEF RestartSnapshot, At
<1>2. id \in Ids /\ f \in Flow /\ Plain(f) /\ leases[id].target = 0 /\ Cooling
    BY <1>1, RestartKnows, SameCools DEF Over, Duty, Unstaged
<1>3. CASE Goto(w, "release")
    <2>1. \A g : Steps(f, g, "release") => Phys(g, sessions[id], leases[id], own', ran)
        BY <1>1, <1>2 DEF Phys, Steps, Unlaunched
    <2>. QED BY <1>1, <1>2, <1>3, <2>1, PanesGoto
<1>4. CASE work' = [work EXCEPT ![w] = [@ EXCEPT !.at = "stage", !.pane = row.pane,
                                                 !.oldPane = row.pane, !.oldSid = row.sid]]
    <2>. DEFINE g == [f EXCEPT !.at = "stage", !.pane = row.pane,
                               !.oldPane = row.pane, !.oldSid = row.sid]
    <2>1. /\ g.at = "stage" /\ g.flow = f.flow /\ g.id = id /\ g.mode = f.mode /\ g.sid = f.sid
        BY <1>2 DEF Flow
    <2>2. work' = [work EXCEPT ![w] = g]
        BY <1>4
    <2>. HIDE DEF g
    <2>3. Plain(g) /\ Phys(g, sessions[id], leases[id], own', ran)
        BY <1>1, <1>2, <2>1 DEF Plain, Phys, Unlaunched
    <2>. QED BY <1>1, <1>2, <2>1, <2>2, <2>3, PanesQuiet
<1>. QED BY <1>3, <1>4 DEF RestartSnapshot, Goto

LEMMA StageDriven ==
    ASSUME DInv, HInv, Driven, ~http, NEW w \in Workers, RestartStage(w), UNCHANGED <<holder, stray>>
    PROVE  Driven'
<1>. DEFINE f   == work[w]
            id  == f.id
            row == sessions[id]
            l   == leases[id]
<1>. USE OwnSame DEF Outside, outside, Registry, Served
<1>1. /\ f.flow = "restart" /\ f.at = "stage" /\ UNCHANGED <<proc, own, ran>>
      /\ IInv /\ http \in BOOLEAN /\ None \notin Panes
    BY NoneIsFresh DEF RestartStage, At, Try, DInv, FInv
<1>2. /\ id \in Ids /\ f \in Flow /\ Plain(f) /\ Held(w) /\ holder[id] = w
      /\ Match(row, l, own) /\ l.target = 0 /\ l.inc = f.tok /\ f.tok \in Nat /\ f.tok # 0
      /\ l.phase = "Restarting" /\ row.inc = f.tok /\ row.inc # 0 /\ f.mode # "soft" /\ f.sid = None
      /\ l.pane = None /\ l.sid = None
    <2>1. /\ id \in Ids /\ f \in Flow /\ Plain(f) /\ Held(w) /\ holder[id] = w
          /\ Match(row, l, own) /\ l.inc = f.tok /\ f.tok \in Nat /\ f.tok # 0
          /\ l.phase = "Restarting" /\ f.mode # "soft" /\ f.sid = None
          /\ row.inc # 0 /\ Duty(f, row, l) /\ Good(row, dormant[id], l)
        BY <1>1, RestartKnows DEF Over
    <2>2. l.target = 0
        BY <1>1, <2>1 DEF Duty, Unstaged
    <2>. QED BY <2>1, <2>2 DEF Match, Good
<1>3. CASE UNCHANGED vars /\ Goto(w, "release")
    <2>1. \A g : Steps(f, g, "release") => Phys(g, row, l, own', ran)
        BY <1>1, <1>2 DEF Phys, Steps, Unlaunched
    <2>. QED BY <1>1, <1>2, <1>3, <2>1, PanesGoto, SameCools
<1>4. CASE ~(UNCHANGED vars /\ Goto(w, "release"))
    <2>1. PICK fresh \in BOOLEAN, renew \in BOOLEAN :
             /\ StageRestartLaunch(id, f.tok, renew, renew /\ ~http)
             /\ work' = [work EXCEPT ![w] =
                   [@ EXCEPT !.target = NextInc,
                             !.at     = IF http /\ fresh THEN "custody" ELSE "inspect",
                             !.mode   = IF http /\ fresh THEN "soft"
                                        ELSE IF fresh \/ f.oldSid = None THEN "create"
                                        ELSE "resume"]]
        BY <1>1, <1>4 DEF RestartStage, Try
    <2>. DEFINE mode == IF fresh \/ f.oldSid = None THEN "create" ELSE "resume"
                g    == [f EXCEPT !.target = NextInc, !.at = "inspect", !.mode = mode]
    <2>2. mode # "soft"
        OBVIOUS
    <2>3. work' = [work EXCEPT ![w] = g]
        BY <2>1
    <2>. HIDE DEF mode
    <2>4. /\ g.at = "inspect" /\ g.flow = f.flow /\ g.id = id /\ g.tok = f.tok
          /\ g.mode = mode /\ g.sid = f.sid
        BY <1>2 DEF Flow
    <2>. HIDE DEF g
    <2>5. /\ Elsewhere(id)
          /\ sessions'[id].inc = NextInc /\ sessions'[id].pane = row.pane
          /\ leases'[id].inc = l.inc /\ leases'[id].phase = l.phase
          /\ leases'[id].target = NextInc
          /\ leases'[id].pane = l.pane /\ leases'[id].sid = l.sid
        BY <1>1, <1>2, <2>1, RestartStaged
    <2>6. NextInc > l.inc /\ NextInc \in Nat /\ NextInc # 0
        BY <1>1, <1>2 DEF IInv, HighWaterOK, Sound, NextInc
    <2>7. Is(own, row.pane, {f.tok})
        BY <1>2 DEF Match
    <2>8. Match(sessions'[id], leases'[id], own')
        BY <1>1, <1>2, <2>5, <2>6, <2>7 DEF Match, Is, Gone
    <2>9. Loses(id)
        BY <1>1, <1>2, <2>5 DEF Loses
    <2>10. Phys(g, sessions'[id], leases'[id], own', ran')
        BY <1>1, <1>2, <2>4, <2>5, <2>7 DEF Phys, Is, Unlaunched, Driven
    <2>11. Plain(g)
        BY <1>1, <1>2, <2>2, <2>4 DEF Plain
    <2>12. Mild(w, id, None) /\ None \notin ran' /\ Aging
        BY <1>1, SameProcAges DEF Mild, Driven
    <2>. QED BY <1>1, <1>2, <2>3, <2>4, <2>5, <2>8, <2>9, <2>10, <2>11, <2>12, PanesAct
<1>. QED BY <1>3, <1>4

(* The pane of the row comes into the custody of the lease, or a new pane *)
LEMMA CustodyDriven ==
    ASSUME DInv, HInv, Driven, NEW w \in Workers, Custody(w) \/ CustodyNew(w), UNCHANGED <<holder, stray>>
    PROVE  Driven'
<1>. DEFINE f   == work[w]
            id  == f.id
            row == sessions[id]
            l   == leases[id]
<1>. USE OwnSame DEF Outside, outside, Registry, Served
<1>1. /\ f.flow = "restart" /\ f.at \in {"custody", "custodyNew"} /\ UNCHANGED <<proc, own, ran>>
      /\ IInv /\ None \notin Panes /\ Cooling
    BY NoneIsFresh, SameCools DEF Custody, CustodyNew, At, Attempt, DInv, FInv
<1>2. /\ id \in Ids /\ f \in Flow /\ Plain(f) /\ Held(w) /\ holder[id] = w /\ Duty(f, row, l)
      /\ Match(row, l, own) /\ Phys(f, row, l, own, ran) /\ f.mode # "soft"
      /\ l.phase = "Restarting" /\ l.target = f.target /\ f.target # 0 /\ f.target \in Nat
      /\ l.sid = None /\ row.pane # None
    <2>1. /\ id \in Ids /\ f \in Flow /\ Plain(f) /\ Held(w) /\ holder[id] = w /\ Duty(f, row, l)
          /\ Match(row, l, own) /\ Phys(f, row, l, own, ran) /\ f.mode # "soft"
          /\ l.phase = "Restarting" /\ f.target \in Nat /\ l.sid = None /\ row.pane # None
        BY <1>1, RestartKnows DEF Over
    <2>. QED BY <1>1, <2>1 DEF Duty, Over, Unstaged
<1>3. ASSUME UNCHANGED vars, NEW at \in {"giveUp", "dropNew"}, Goto(w, at) PROVE Driven'
    <2>1. \A g : Steps(f, g, at) => Phys(g, row, l, own', ran)
        BY <1>1, <1>3 DEF Phys, Steps, Unlaunched
    <2>. QED BY <1>1, <1>2, <1>3, <2>1, PanesGoto
<1>4. ASSUME RecordInertStartPane(id, f.tok, f.pane)
      PROVE  /\ Elsewhere(id) /\ sessions' = sessions /\ Likewise(l, leases'[id])
             /\ leases'[id].pane = f.pane /\ leases'[id].paneOwner = f.target
             /\ leases'[id].sid = None
    BY <1>1, <1>2, <1>4, PaneRecorded
<1>5. l.pane = row.pane \/ l.pane \notin ran
    BY <1>1, <1>2 DEF Phys, Unlaunched
<1>6. CASE Custody(w)
    <2>1. f.at = "custody" /\ f.pane = row.pane /\ Is(own, row.pane, {f.tok})
        BY <1>1, <1>2, <1>6 DEF Custody, At, Duty, InPlace, Phys
    <2>2. CASE RecordInertStartPane(id, f.tok, f.pane) /\ Goto(w, "respawn")
        <3>1. Match(sessions'[id], leases'[id], own)
            BY <1>2, <1>4, <2>1, <2>2 DEF Match, Likewise
        <3>2. Loses(id)
            BY <1>4, <1>5, <2>1, <2>2 DEF Loses
        <3>3. \A g : Steps(f, g, "respawn") => Phys(g, sessions'[id], leases'[id], own, ran)
            BY <1>1, <1>4, <2>1, <2>2 DEF Phys, Steps, Unlaunched
        <3>. QED BY <1>1, <1>2, <1>4, <2>2, <3>1, <3>2, <3>3, PanesSection
    <2>. QED BY <1>2, <1>3, <1>6, <2>2 DEF Custody, Attempt
<1>7. CASE CustodyNew(w)
    <2>1. /\ f.at = "custodyNew" /\ Is(own, row.pane, {}) /\ Is(own, f.pane, {f.target})
          /\ f.pane \notin ran
        BY <1>1, <1>2, <1>7 DEF CustodyNew, At, Phys
    <2>2. f.pane # row.pane
        BY <1>2, <2>1 DEF HInv, LooseApart, Loose, FreshPane
    <2>3. CASE RecordInertStartPane(id, f.tok, f.pane) /\ Goto(w, "launch")
        <3>1. Match(sessions'[id], leases'[id], own)
            BY <1>2, <1>4, <2>1, <2>2, <2>3 DEF Match, Likewise, Is, Gone
        <3>2. Loses(id)
            BY <1>4, <1>5, <2>3 DEF Loses
        <3>3. \A g : Steps(f, g, "launch") => Phys(g, sessions'[id], leases'[id], own, ran)
            BY <1>1, <1>4, <2>1, <2>3 DEF Phys, Steps, Unlaunched
        <3>. QED BY <1>1, <1>2, <1>4, <2>3, <3>1, <3>2, <3>3, PanesSection
    <2>. QED BY <1>2, <1>3, <1>7, <2>3 DEF CustodyNew, Attempt
<1>. QED BY <1>6, <1>7

(* A respawn that fails late leaves the target in the pane, as a stray. *)
LEMMA RespawnDriven ==
    ASSUME DInv, HInv, Driven, stray \in [Panes -> Int], ~http,
           NEW w \in Workers, Respawn(w), Strays(w), UNCHANGED holder
    PROVE  Driven'
<1>. DEFINE f   == work[w]
            id  == f.id
            row == sessions[id]
            l   == leases[id]
            p   == f.pane
<1>. USE DEF Registry, Served
<1>1. /\ f.flow = "restart" /\ f.at = "respawn" /\ UNCHANGED vars /\ Working
      /\ IInv /\ None \notin Panes /\ proc \in [Panes -> Int]
    BY NoneIsFresh DEF Respawn, At, DInv, FInv
<1>2. /\ id \in Ids /\ f \in Flow /\ Plain(f) /\ Held(w) /\ holder[id] = w /\ Duty(f, row, l)
      /\ Match(row, l, own) /\ Phys(f, row, l, own, ran)
      /\ l.phase = "Restarting" /\ l.target = f.target /\ f.target # 0 /\ f.target \in Nat
      /\ f.tok # 0 /\ l.inc = f.tok
    <2>1. /\ id \in Ids /\ f \in Flow /\ Plain(f) /\ Held(w) /\ holder[id] = w /\ Duty(f, row, l)
          /\ Match(row, l, own) /\ Phys(f, row, l, own, ran)
          /\ l.phase = "Restarting" /\ f.target \in Nat /\ f.tok # 0 /\ l.inc = f.tok
        BY <1>1, RestartKnows DEF Over
    <2>. QED BY <1>1, <2>1 DEF Duty, Over, Unstaged
<1>3. p = row.pane /\ l.pane = row.pane /\ Is(own, p, {f.tok}) /\ p \in Panes
    BY <1>1, <1>2 DEF Duty, InPlace, Phys, Is
<1>4. /\ \A q \in Panes \ {p} : proc'[q] = proc[q] /\ stray'[q] = stray[q]
      /\ proc'[p] \in {f.target, Gone, proc[p]}
    BY <1>1, <1>3 DEF Respawn, SetProc, Strays
<1>5. /\ \A q \in Panes \ {p} : own'[q] = own[q]
      /\ own'[p] \in {proc'[p], Gone} /\ (proc'[p] \in {stray'[p], Gone} => own'[p] = Gone)
      /\ Aging
    <2>1. \A q \in Panes \ {p} : own'[q] = own[q]
        BY <1>4 DEF own
    <2>2. own'[p] \in {proc'[p], Gone} /\ (proc'[p] \in {stray'[p], Gone} => own'[p] = Gone)
        BY <1>3 DEF own
    <2>3. Aging
        BY <1>1, <1>2, <1>3, <1>4 DEF Aging, Unborn, Gone
    <2>. QED BY <2>1, <2>2, <2>3
<1>6. ASSUME NEW at \in {"complete", "fallback", "rollback"}, Goto(w, at)
      PROVE  stray' = IF at = "rollback" /\ proc'[p] = f.target
                      THEN [stray EXCEPT ![p] = f.target] ELSE stray
    <2>1. work'[w].at = at
        BY <1>1, <1>6, GotoMoves DEF Working, Steps
    <2>. QED BY <1>1, <2>1 DEF Strays, At
<1>7. ASSUME UNCHANGED ran, NEW at \in {"fallback", "rollback"}, Goto(w, at),
             own'[p] \in {own[p], Gone}, at = "fallback" => own'[p] = Gone
      PROVE  Driven'
    <2>1. Cooling /\ Is(own', p, {f.tok})
        BY <1>3, <1>5, <1>7 DEF Is, Cooling
    <2>2. \A g : Steps(f, g, at) => Phys(g, row, l, own', ran)
        BY <1>1, <1>3, <1>7, <2>1 DEF Phys, Steps, Is, Unlaunched
    <2>. QED BY <1>1, <1>2, <1>7, <2>1, <2>2, PanesGoto
<1>8. ASSUME SetProc(p, f.target), ran' = ran \cup {p}, NEW at \in {"complete", "rollback"},
             Goto(w, at), at = "rollback" => own'[p] = Gone
      PROVE  Driven'
    <2>1. own'[p] \in {f.target, Gone} /\ proc'[p] = f.target
        BY <1>1, <1>3, <1>5, <1>8 DEF SetProc
    <2>2. PICK g : work' = [work EXCEPT ![w] = g] /\ Steps(f, g, at)
        BY <1>1, <1>8, GotoMoves
    <2>3. g.flow = f.flow /\ g.id = id /\ Plain(g)
        BY <1>1, <1>2, <2>2, PlainSteps DEF Steps
    <2>4. /\ sessions'[id] = row /\ leases'[id] = l /\ Elsewhere(id) /\ Loses(id)
        BY <1>1, <1>2 DEF vars, Elsewhere, Same, Loses
    <2>5. Mild(w, id, p)
        <3>1. \A j \in Ids \ {id} : p \notin {sessions[j].pane, leases[j].pane}
            BY <1>1, <1>2, <1>3, NotElsewhere
        <3>2. \A v \in Workers : Loose(work[v]) => work[v].pane # p
            BY <1>2, <1>3 DEF HInv, LooseApart, FreshPane
        <3>. QED BY <1>3, <1>5, <1>8, <3>1, <3>2 DEF Mild
    <2>6. Match(sessions'[id], leases'[id], own')
        BY <1>2, <1>3, <2>1, <2>4 DEF Match, Is
    <2>7. Phys(g, sessions'[id], leases'[id], own', ran')
        BY <1>1, <1>2, <1>3, <1>8, <2>1, <2>2, <2>4 DEF Phys, Steps, Is, Unlaunched
    <2>8. proc'[p] # Unborn
        BY <1>2, <2>1 DEF Unborn
    <2>. HIDE DEF f, p
    <2>. QED BY <1>2, <1>3, <1>5, <1>8, <2>2, <2>3, <2>4, <2>5, <2>6, <2>7, <2>8, PanesAct
(* replaced by the target, with success or not *)
<1>9. ASSUME SetProc(p, f.target), ran' = ran \cup {p}, NEW at \in {"complete", "rollback"},
             Goto(w, at)
      PROVE  Driven'
    <2>1. at = "rollback" => own'[p] = Gone
        BY <1>1, <1>3, <1>5, <1>6, <1>9 DEF SetProc
    <2>. QED BY <1>8, <1>9, <2>1
(* cleaned up, or nothing of the session was there *)
<1>10. ASSUME SetProc(p, Gone) \/ (proc[p] \notin {f.tok, f.target} /\ UNCHANGED proc),
              UNCHANGED ran, Goto(w, "fallback")
       PROVE  Driven'
    <2>1. UNCHANGED stray
        BY <1>6, <1>10
    <2>2. own'[p] = Gone
        BY <1>1, <1>3, <1>5, <1>10, <2>1, OwnGone, OwnSame DEF SetProc, Is
    <2>. QED BY <1>7, <1>10, <2>2
(* killed, or left as it was *)
<1>11. ASSUME SetProc(p, Gone) \/ UNCHANGED proc, UNCHANGED ran, Goto(w, "rollback")
       PROVE  Driven'
    <2>1. own'[p] \in {own[p], Gone}
        <3>1. CASE UNCHANGED <<proc, stray>>
            BY <3>1, OwnSame
        <3>2. CASE proc'[p] \in {stray'[p], Gone}
            BY <1>5, <3>2
        <3>. QED BY <1>1, <1>3, <1>6, <1>11, <3>1, <3>2 DEF SetProc
    <2>. QED BY <1>7, <1>11, <2>1
<1>12. CASE /\ SetProc(p, f.target) /\ ran' = ran \cup {p}
            /\ Goto(w, "complete") \/ Goto(w, "rollback")
    BY <1>9, <1>12
<1>13. CASE /\ SetProc(p, Gone) \/ (proc[p] \notin {f.tok, f.target} /\ UNCHANGED proc)
            /\ UNCHANGED ran /\ Goto(w, "fallback")
    BY <1>10, <1>13
<1>14. CASE (SetProc(p, Gone) \/ UNCHANGED proc) /\ UNCHANGED ran /\ Goto(w, "rollback")
    BY <1>11, <1>14
<1>. QED BY <1>12, <1>13, <1>14 DEF Respawn

LEMMA RestartCompleteDriven ==
    ASSUME DInv, HInv, Driven, NEW w \in Workers, RestartComplete(w), UNCHANGED <<holder, stray>>
    PROVE  Driven'
<1>. DEFINE f   == work[w]
            id  == f.id
            row == sessions[id]
            l   == leases[id]
<1>. USE OwnSame DEF Outside, outside, Registry, Served
<1>1. /\ f.flow = "restart" /\ f.at = "complete" /\ UNCHANGED <<proc, own, ran>>
      /\ IInv /\ None \notin Panes
    BY NoneIsFresh DEF RestartComplete, At, Attempt, DInv, FInv
<1>2. /\ id \in Ids /\ Plain(f) /\ Held(w) /\ holder[id] = w /\ Duty(f, row, l)
      /\ Match(row, l, own) /\ Phys(f, row, l, own, ran)
      /\ l.phase = "Restarting" /\ l.inc = f.tok /\ f.tok # 0
      /\ l.sid = None /\ f.sid = None
      /\ l.target # 0 => row.inc = l.target /\ l.prev.inc = l.inc
    BY <1>1, RestartKnows DEF Over
<1>3. l.target = f.target /\ f.target # 0 /\ row.inc = f.target /\ l.prev.inc # 0
    BY <1>1, <1>2 DEF Duty, Over, Unstaged
<1>4. /\ l.pane = f.pane /\ Is(own, f.pane, {f.target})
      /\ l.pane # row.pane => Is(own, row.pane, {})
    BY <1>1, <1>2 DEF Phys
<1>5. MayComplete(id, f.tok, f.target, None, row.dir) /\ None \in CompletionSids(id)
    <2>1. StagedFor(id, f.tok, f.target)
        BY <1>2, <1>3 DEF StagedFor, Holds, Leased
    <2>2. None \in CompletionSids(id)
        BY <1>2 DEF CompletionSids
    <2>. QED BY <1>2, <2>1, <2>2 DEF MayComplete
<1>6. PICK sid : CompleteRestartLaunch(id, f.tok, f.target, sid, row.dir) /\ Goto(w, "release")
    BY <1>1, <1>2, <1>5 DEF RestartComplete, Attempt
<1>7. /\ Elsewhere(id) /\ leases'[id] = NoLease /\ leases'[id].inc = 0
      /\ sessions'[id].inc = f.target /\ sessions'[id].pane = f.pane
    BY <1>1, <1>2, <1>3, <1>4, <1>6, RestartCompleted DEF Is
<1>8. Match(sessions'[id], leases'[id], own)
    BY <1>4, <1>7 DEF Match, NoLease
<1>9. Loses(id)
    BY <1>1, <1>4, <1>7 DEF Loses, Is, Gone
<1>. QED BY <1>1, <1>2, <1>6, <1>7, <1>8, <1>9, PanesSection

LEMMA RollbackDriven ==
    ASSUME DInv, HInv, Driven, NEW w \in Workers, Rollback(w), UNCHANGED <<holder, stray>>
    PROVE  Driven'
<1>. DEFINE f   == work[w]
            id  == f.id
            row == sessions[id]
            l   == leases[id]
<1>. USE OwnSame DEF Outside, outside, Registry, Served
<1>1. /\ f.flow = "restart" /\ f.at = "rollback" /\ UNCHANGED <<proc, own, ran>>
      /\ IInv /\ None \notin Panes /\ Cooling
    BY NoneIsFresh, SameCools DEF Rollback, Try, DInv, FInv, HInv, Duties, OnDuty
<1>2. /\ id \in Ids /\ Plain(f) /\ Held(w) /\ holder[id] = w
      /\ Match(row, l, own) /\ Phys(f, row, l, own, ran)
    BY <1>1, RestartKnows DEF Over
<1>3. CASE UNCHANGED vars /\ Goto(w, "failed")
    <2>1. \A g : Steps(f, g, "failed") => Phys(g, row, l, own', ran)
        BY <1>1 DEF Phys, Steps, Unlaunched
    <2>. QED BY <1>1, <1>2, <1>3, <2>1, PanesGoto
<1>4. ASSUME RollbackRestartLaunch(id, f.tok, f.target), NEW at \in {"killProvisional", "failed"},
             Goto(w, at)
      PROVE  Driven'
    <2>1. /\ Elsewhere(id) /\ leases'[id] = NoLease /\ leases'[id].inc = 0
          /\ sessions'[id].inc = f.tok /\ sessions'[id].pane = row.pane
        BY <1>1, <1>2, <1>4, RestartRolledBack
    <2>2. Is(own, row.pane, {f.tok}) /\ (l.pane = row.pane \/ l.pane \notin ran)
        BY <1>1, <1>2 DEF Phys, Unlaunched
    <2>3. Match(sessions'[id], leases'[id], own)
        BY <2>1, <2>2 DEF Match, NoLease
    <2>4. Loses(id)
        BY <2>1, <2>2 DEF Loses
    <2>. QED BY <1>1, <1>2, <1>4, <2>1, <2>3, <2>4, PanesSection
<1>. QED BY <1>1, <1>3, <1>4 DEF Rollback, Try

LEMMA RestartFlowStepDriven ==
    ASSUME DInv, HInv, Driven, ~http, NEW w \in Workers, RestartFlowStep(w), ~Respawn(w),
           UNCHANGED <<holder, stray>>
    PROVE  Driven'
<1>. DEFINE f   == work[w]
            id  == f.id
            row == sessions[id]
            l   == leases[id]
<1>. USE OwnSame DEF Outside, outside, Registry, Served
<1>1. /\ Working /\ IInv /\ proc \in [Panes -> Int] /\ f.at \notin Served \cup {"giveUp", "dropNew"}
      /\ Plain(f) /\ f.flow = "restart" /\ f.at # "idle"
    BY DEF DInv, FInv, Driven, Plain, HInv, Duties, OnDuty, RestartFlowStep, RestartSnapshot,
           RestartStage, Inspect, Custody, Respawn, Fallback, CustodyNew, DropNew, Serve, Prompt,
           RestartComplete, Rollback, KillProvisional, RestartFailed, At
<1>2. id \in Ids /\ f \in Flow
    BY <1>1, AtStage
<1>3. CASE Inspect(w)
    <2>1. f.at = "inspect" /\ UNCHANGED <<vars, proc, own, ran>> /\ Cooling
        BY <1>3, SameCools DEF Inspect, At
    <2>2. /\ Phys(f, row, l, own, ran) /\ f.pane = row.pane
        BY <1>1, <2>1, RestartKnows DEF Over, Duty, InPlace
    <2>3. PICK at \in {"fallback", "custody", "rollback"} :
             Goto(w, at) /\ (at = "fallback" => proc[f.pane] = Gone)
        BY <1>3 DEF Inspect
    <2>4. at = "fallback" => Is(own, row.pane, {})
        BY <1>1, <2>1, <2>2, <2>3, OwnGone DEF Phys, Is
    <2>5. \A g : Steps(f, g, at) => Phys(g, row, l, own', ran)
        BY <1>1, <2>1, <2>2, <2>3, <2>4 DEF Phys, Steps, Unlaunched
    <2>. QED BY <1>1, <1>2, <2>1, <2>3, <2>5, PanesGoto
<1>4. CASE Fallback(w)
    <2>1. f.at = "fallback" /\ UNCHANGED vars
        BY <1>4 DEF Fallback, At
    <2>2. Held(w) /\ Phys(f, row, l, own, ran) /\ f.target \in Nat
        BY <1>1, <2>1, RestartKnows DEF Over
    <2>3. CASE NewPane(w, f.target, "custodyNew")
        BY <1>1, <1>2, <2>1, <2>2, <2>3, PanesNew DEF At
    <2>4. CASE UNCHANGED <<proc, own, ran>> /\ Goto(w, "rollback")
        <3>1. \A g : Steps(f, g, "rollback") => Phys(g, row, l, own', ran)
            BY <1>1, <2>1, <2>2, <2>4 DEF Phys, Steps, Is, Unlaunched
        <3>. QED BY <1>1, <1>2, <2>1, <2>4, <3>1, PanesGoto, SameCools
    <2>. QED BY <1>4, <2>3, <2>4 DEF Fallback
<1>5. CASE KillProvisional(w)
    <2>1. /\ UNCHANGED <<vars, ran>> /\ Goto(w, "failed")
          /\ UNCHANGED <<proc, own>> \/ SetProc(f.pane, Gone)
        BY <1>5 DEF KillProvisional, Drop
    <2>2. Cooling
        BY <1>1, <2>1, GoneCools
    <2>3. \A g : Steps(f, g, "failed") => Phys(g, row, l, own', ran)
        BY <1>1 DEF Phys, Steps, Unlaunched
    <2>. QED BY <1>1, <1>2, <2>1, <2>2, <2>3, PanesGoto
<1>6. CASE RestartFailed(w)
    <2>1. UNCHANGED <<vars, proc, own, ran>> /\ Cooling
        BY <1>6, SameCools DEF RestartFailed
    <2>2. CASE End(w)
        BY <1>2, <2>1, <2>2, PanesEnd
    <2>3. CASE /\ Goto(w, "release")
               /\ ~(Holds(id, "Restarting", f.tok) /\ (l.pane # None \/ row.inc # f.tok))
        <3>1. Held(w) => l.target = 0
            <4>. SUFFICES ASSUME Held(w) PROVE l.target = 0
                OBVIOUS
            <4>1. l.inc = f.tok /\ l.phase = "Restarting" /\ l.inc # 0
                BY <1>1 DEF HInv, Duties, OnDuty, Duty, Held
            <4>2. row.inc = f.tok
                BY <2>3, <4>1 DEF Holds, Leased
            <4>3. Good(row, dormant[id], l) /\ l.inc \in Nat /\ l.target \in Nat
                BY <1>1, <1>2, OfId, RowTypes
            <4>. QED BY <4>1, <4>2, <4>3 DEF Good
        <3>2. Held(w) => \A g : Steps(f, g, "release") => Phys(g, row, l, own', ran)
            BY <1>1, <3>1 DEF Phys, Steps, Unlaunched
        <3>. QED BY <1>1, <1>2, <2>1, <2>3, <3>2, PanesGoto
    <2>. QED BY <1>6, <2>2, <2>3 DEF RestartFailed
<1>. QED BY <1>1, <1>3, <1>4, <1>5, <1>6, SnapshotDriven, StageDriven, CustodyDriven,
            RestartCompleteDriven, RollbackDriven
         DEF RestartFlowStep, DropNew, Serve, Prompt, At

-----------------------------------------------------------------------------
(* Stops, and flows that begin. *)

LEMMA KillStepDriven ==
    ASSUME DInv, HInv, Driven, ~http, NEW w \in Workers, KillStep(w), UNCHANGED <<holder, stray>>
    PROVE  Driven'
<1>. DEFINE f   == work[w]
            id  == f.id
            row == sessions[id]
            l   == leases[id]
<1>. USE OwnSame DEF Outside, outside, Registry, Served
<1>1. /\ Working /\ IInv /\ proc \in [Panes -> Int] /\ None \notin Panes /\ Plain(f)
      /\ f.flow = "kill"
    BY NoneIsFresh DEF DInv, FInv, Driven, KillStep, KillRecheck, KillAbort, KillGate, KillPane,
           KillComplete, At
<1>2. id \in Ids /\ f \in Flow
    BY <1>1 DEF Working, Sensible
<1>3. ASSUME NEW at \in {"release", "exit", "killing", "removeRow"},
             Goto(w, at), UNCHANGED <<vars, ran>>, Cooling
      PROVE  Driven'
    BY <1>1, <1>2, <1>3, PanesGoto
<1>4. ASSUME End(w), UNCHANGED <<vars, ran>>, Cooling PROVE Driven'
    BY <1>2, <1>4, PanesEnd
<1>5. CASE KillRecheck(w)
    <2>1. UNCHANGED <<vars, proc, own, ran>> /\ Cooling
        BY <1>5, SameCools DEF KillRecheck
    <2>2. CASE Goto(w, "release")
        BY <1>3, <2>1, <2>2
    <2>3. CASE work' = [work EXCEPT ![w] = [@ EXCEPT !.at = "exit", !.sid = row.sid]]
        <3>. DEFINE g == [f EXCEPT !.at = "exit", !.sid = row.sid]
        <3>1. g.at = "exit" /\ g.flow = f.flow /\ g.mode = f.mode
            BY <1>2 DEF Flow
        <3>2. work' = [work EXCEPT ![w] = g]
            BY <2>3
        <3>. HIDE DEF g
        <3>3. Plain(g)
            BY <1>1, <3>1 DEF Plain
        <3>. QED BY <1>1, <1>2, <2>1, <3>1, <3>2, <3>3, PanesQuiet
    <2>. QED BY <1>5, <2>2, <2>3 DEF KillRecheck, Goto
<1>6. CASE KillGate(w)
    BY <1>3, <1>6, SameCools DEF KillGate
<1>7. CASE KillPane(w)
    <2>1. /\ UNCHANGED <<vars, ran>>
          /\ UNCHANGED <<proc, own>> \/ SetProc(f.pane, Gone)
          /\ End(w) \/ \E at \in {"release", "removeRow"} : Goto(w, at)
        <3>1. CASE ~OwnsStopping(id, f.tok, f.pane)
            BY <1>7, <3>1 DEF KillPane
        <3>2. CASE OwnsStopping(id, f.tok, f.pane)
            BY <1>7, <3>2 DEF KillPane
        <3>. QED BY <3>1, <3>2
    <2>2. Cooling
        BY <1>1, <2>1, GoneCools
    <2>. QED BY <1>3, <1>4, <2>1, <2>2
<1>8. CASE KillComplete(w)
    <2>1. UNCHANGED <<proc, own, ran>> /\ Goto(w, "release") /\ f.at = "removeRow" /\ Cooling
        BY <1>8, SameCools DEF KillComplete, Try, At
    <2>2. CASE UNCHANGED vars
        BY <1>3, <2>1, <2>2
    <2>3. CASE CompleteOwnedStop(id, f.tok, f.pane)
        <3>1. /\ leases' = leases /\ l.phase = "Stopping" /\ l.pane = f.pane /\ row.pane = f.pane
              /\ sessions'[id] = NoRow /\ \A j \in Ids \ {id} : sessions'[j] = sessions[j]
            BY <1>1, <1>2, <2>3 DEF CompleteOwnedStop, Holds, IInv
        <3>2. Is(own, f.pane, {})
            <4>1. f.pane \in Panes /\ proc[f.pane] = Gone
                BY <1>1, <2>1 DEF DInv, Buried
            <4>. QED BY <4>1, OwnGone DEF Is
        <3>3. l.target = 0 /\ NoRow.inc = 0
            BY <1>1, <1>2, <3>1, OfId DEF Good, NoRow
        <3>4. Match(sessions'[id], leases'[id], own')
            BY <2>1, <3>1, <3>2, <3>3 DEF Match, Is
        <3>5. Elsewhere(id) /\ Loses(id)
            BY <3>1 DEF Elsewhere, Same, Loses
        <3>6. PICK g : work' = [work EXCEPT ![w] = g] /\ Steps(f, g, "release")
            BY <1>1, <2>1, GotoMoves
        <3>7. Plain(g) /\ g.flow = "kill"
            BY <1>1, <3>6, PlainSteps DEF Steps
        <3>8. Mild(w, id, None) /\ None \notin ran' /\ Aging
            BY <1>1, <2>1, SameProcAges DEF Mild, Driven
        <3>. QED BY <1>2, <3>1, <3>4, <3>5, <3>6, <3>7, <3>8, PanesAct
    <2>. QED BY <1>8, <2>2, <2>3 DEF KillComplete, Try
<1>9. ~KillAbort(w)
    BY <1>1 DEF KillAbort, At, Plain
<1>. QED BY <1>5, <1>6, <1>7, <1>8, <1>9 DEF KillStep

LEMMA PanesBegin ==
    ASSUME DInv, HInv, Driven, NEW w \in Workers, NEW id \in Ids, NEW g,
           work' = [work EXCEPT ![w] = g], g.id = id, Plain(g),
           UNCHANGED <<proc, own, ran, sessions>>, Elsewhere(id), leases[id].inc = 0,
           holder' = [holder EXCEPT ![id] = w],
           Match(sessions[id], leases'[id], own),
           \A r, m, pr, rn : Phys(g, r, m, pr, rn)
    PROVE  Driven'
<1>1. work'[w] = g /\ \A v \in Workers \ {w} : work'[v] = work[v]
    BY DEF DInv, FInv, Working
<1>2. \A j \in Ids : holder'[j] = IF j = id THEN w ELSE holder[j]
    BY DEF HInv
<1>3. Mild(w, id, None) /\ Aging /\ None \notin ran' /\ Loses(id)
    <2>1. leases[id].pane = None
        BY OfId DEF DInv, FInv, Good, NoLease
    <2>. QED BY <2>1, SameProcAges, NoneIsFresh DEF Mild, Driven, Loses
<1>4. ASSUME NEW j \in Ids PROVE Match(sessions'[j], leases'[j], own')
    BY <1>3, OthersMatch DEF Elsewhere
<1>5. ASSUME NEW v \in Workers \ {w} PROVE Plain(work'[v]) /\ PhysOf(v)'
    <2>1. Held(v)' => Held(v) /\ Same(work[v].id) /\ work[v].id # id
        BY <1>1, <1>2 DEF Held, Elsewhere, Same
    <2>2. PhysOf(v)'
        BY <1>1, <1>3, <2>1, OthersPhys
    <2>. QED BY <1>1, <2>2 DEF Driven
<1>6. PhysOf(w)'
    BY <1>1 DEF PhysOf
<1>7. ran' \subseteq Panes /\ \A q \in ran' : Known(q)'
    BY <1>3, StillKnown DEF DInv, Elsewhere
<1>. QED BY <1>1, <1>4, <1>5, <1>6, <1>7 DEF Driven

LEMMA BeginsDriven ==
    ASSUME DInv, HInv, Driven, ~http, NEW w \in Workers, NEW id \in Ids,
           \/ Begins(w, id) /\ holder' = [holder EXCEPT ![id] = w]
           \/ RecoverRead(w, id) /\ UNCHANGED holder,
           UNCHANGED stray
    PROVE  Driven'
<1>. DEFINE row == sessions[id]
<1>. USE OwnSame DEF Outside, outside, Registry, Served
<1>1. /\ IInv /\ row \in Row /\ Match(row, leases[id], own)
      /\ row.inc = 0 => row = NoRow
      /\ leases[id].inc = 0 => leases[id] = NoLease
    BY OfId DEF DInv, FInv, Driven, Good
<1>2. /\ NoLease.target = 0 /\ NoLease.pane = None /\ NoLease.sid = None /\ NoLease \in Lease
      /\ NoRow.inc = 0
    BY NoLeaseType DEF NoLease, NoRow
<1>3. CASE StartReserve(w, id) /\ holder' = [holder EXCEPT ![id] = w]
    <2>. DEFINE g == [Idle EXCEPT !.flow = "start", !.at = "dir", !.id = id, !.tok = NextInc]
                l == [NoLease EXCEPT !.inc = NextInc, !.phase = "Starting"]
    <2>1. g.flow = "start" /\ g.at = "dir" /\ g.id = id /\ g.sid = None /\ g.mode = "create"
        BY DEF Idle
    <2>2. l.phase = "Starting" /\ l.pane = None /\ l.target = 0
        BY <1>2 DEF Lease
    <2>3. /\ work' = [work EXCEPT ![w] = g] /\ UNCHANGED <<proc, own, ran, sessions>>
          /\ leases' = [leases EXCEPT ![id] = l] /\ leases[id].inc = 0 /\ row.inc = 0
        BY <1>3 DEF StartReserve, Begin, ReserveStart, Leased, Live
    <2>. HIDE DEF g, l
    <2>4. leases'[id] = l /\ Elsewhere(id)
        BY <1>1, <2>3 DEF IInv, Elsewhere, Same
    <2>5. Match(row, leases'[id], own)
        BY <2>2, <2>3, <2>4 DEF Match
    <2>6. Plain(g) /\ \A r, m, pr, rn : Phys(g, r, m, pr, rn)
        BY <2>1 DEF Plain, Phys
    <2>. QED BY <1>3, <2>1, <2>3, <2>4, <2>5, <2>6, PanesBegin
<1>4. CASE RestartClaim(w, id) /\ holder' = [holder EXCEPT ![id] = w]
    <2>. DEFINE g == [Idle EXCEPT !.flow = "restart", !.at = "snapshot", !.id = id, !.tok = row.inc]
                l == [NoLease EXCEPT !.inc = row.inc, !.phase = "Restarting", !.dir = row.dir]
    <2>1. /\ g.flow = "restart" /\ g.at = "snapshot" /\ g.id = id /\ g.sid = None
          /\ g.mode = "create"
        BY DEF Idle
    <2>2. l.phase = "Restarting" /\ l.pane = None /\ l.target = 0 /\ l.sid = None
        BY <1>2 DEF Lease
    <2>3. /\ work' = [work EXCEPT ![w] = g] /\ UNCHANGED <<proc, own, ran, sessions>>
          /\ leases' = [leases EXCEPT ![id] = l] /\ leases[id].inc = 0 /\ row.inc # 0
        BY <1>4 DEF RestartClaim, Begin, ClaimExistingStart, Leased, Live
    <2>. HIDE DEF g, l
    <2>4. leases'[id] = l /\ Elsewhere(id)
        BY <1>1, <2>3 DEF IInv, Elsewhere, Same
    <2>5. Match(row, leases'[id], own)
        BY <1>1, <1>2, <2>2, <2>3, <2>4 DEF Match
    <2>6. Plain(g) /\ \A r, m, pr, rn : Phys(g, r, m, pr, rn)
        BY <2>1 DEF Plain, Phys, Unlaunched
    <2>. QED BY <1>4, <2>1, <2>3, <2>4, <2>5, <2>6, PanesBegin
<1>5. CASE KillClaim(w, id) /\ holder' = [holder EXCEPT ![id] = w]
    <2>. DEFINE g == [Idle EXCEPT !.flow = "kill", !.at = "claimed", !.id = id,
                                  !.tok = row.inc, !.pane = row.pane]
                o == IF row.sid = None THEN 0 ELSE row.inc
                l == [NoLease EXCEPT !.inc = row.inc, !.phase = "Stopping",
                                     !.sid = row.sid, !.sidOwner = o,
                                     !.pane = row.pane, !.paneOwner = row.inc, !.dir = row.dir]
    <2>1. g.flow = "kill" /\ g.at = "claimed" /\ g.id = id /\ g.mode = "create"
        BY DEF Idle
    <2>2. /\ work' = [work EXCEPT ![w] = g] /\ UNCHANGED <<proc, own, ran, sessions>>
          /\ leases' = [leases EXCEPT ![id] = l] /\ leases[id].inc = 0 /\ row.inc # 0
        BY <1>5 DEF KillClaim, Begin, ClaimExistingStop, Leased, Live
    <2>. HIDE DEF o
    <2>3. l.phase = "Stopping" /\ l.pane = row.pane /\ l.target = 0
        BY <1>2 DEF Lease
    <2>. HIDE DEF g, l
    <2>4. leases'[id] = l /\ Elsewhere(id)
        BY <1>1, <2>2 DEF IInv, Elsewhere, Same
    <2>5. Match(row, leases'[id], own)
        BY <1>1, <1>2, <2>2, <2>3, <2>4 DEF Match
    <2>6. Plain(g) /\ \A r, m, pr, rn : Phys(g, r, m, pr, rn)
        BY <2>1 DEF Plain, Phys
    <2>. QED BY <1>5, <2>1, <2>2, <2>4, <2>5, <2>6, PanesBegin
<1>6. CASE RecoverRead(w, id) /\ UNCHANGED holder
    <2>. DEFINE g == [Idle EXCEPT !.flow = "recover", !.id = id, !.tok = leases[id].inc,
                                  !.sid = leases[id].sid, !.at = "release"]
    <2>1. work' = [work EXCEPT ![w] = g] /\ UNCHANGED <<vars, proc, own, ran>> /\ Cooling
        BY <1>6, SameCools DEF RecoverRead, Begin
    <2>2. g.flow = "recover" /\ g.at = "release" /\ g.mode = "create"
        BY DEF Idle
    <2>. HIDE DEF g
    <2>3. Plain(g)
        BY <2>2 DEF Plain
    <2>. QED BY <1>6, <2>1, <2>2, <2>3, PanesQuiet
<1>. QED BY <1>3, <1>4, <1>5, <1>6 DEF Begins

-----------------------------------------------------------------------------
(* What happens outside the flows. *)

LEMMA OutsideDriven ==
    ASSUME DInv, HInv, Driven, UNCHANGED <<work, holder, ran, leases>>, Cooling,
           \A j \in Ids : \/ Same(j)
                          \/ /\ leases[j].inc = 0 /\ sessions'[j] = NoRow
                             /\ sessions[j].pane \in Panes => own'[sessions[j].pane] = Gone
    PROVE  Driven'
<1>1. NoRow.inc = 0 /\ NoLease.target = 0 /\ NoLease.pane = None /\ NoLease.phase = "None"
    BY DEF NoRow, NoLease
<1>2. ASSUME NEW j \in Ids PROVE Match(sessions'[j], leases'[j], own')
    <2>1. Match(sessions[j], leases[j], own)
        BY DEF Driven
    <2>2. CASE Same(j)
        BY <2>1, <2>2, MatchCool DEF Same, Alike, Cooling
    <2>3. CASE leases[j].inc = 0 /\ sessions'[j] = NoRow
        <3>1. leases'[j] = NoLease
            BY <2>3, OfId DEF DInv, FInv, Good
        <3>. QED BY <1>1, <2>3, <3>1 DEF Match
    <2>. QED BY <2>2, <2>3
<1>3. ASSUME NEW w \in Workers PROVE Plain(work'[w]) /\ PhysOf(w)'
    <2>. DEFINE f == work[w]
                j == f.id
    <2>1. Plain(f) /\ PhysOf(w)
        BY DEF Driven
    <2>2. Loose(f) => f.pane \in Panes /\ own'[f.pane] \in {own[f.pane], Gone}
        BY DEF HInv, LooseApart, Cooling
    <2>3. Held(w) => Phys(f, sessions'[j], leases[j], own', ran)
        <3>. SUFFICES ASSUME Held(w) PROVE Phys(f, sessions'[j], leases[j], own', ran)
            OBVIOUS
        <3>1. Same(j) /\ Phys(f, sessions[j], leases[j], own, ran)
            BY <2>1 DEF Held, PhysOf
        <3>. QED BY <2>2, <3>1, PhysCool DEF Same, Cooling
    <2>. QED BY <2>1, <2>3 DEF PhysOf, Held
<1>4. ASSUME NEW q \in ran PROVE Known(q)'
    <2>1. q \in Panes /\ Known(q) /\ own'[q] \in {own[q], Gone} /\ q # None
        BY NoneIsFresh DEF Driven, Cooling
    <2>2. proc'[q] # Unborn
        BY <2>1 DEF Known, Cooling, Aging
    <2>3. ASSUME own'[q] > 0 PROVE \E j \in Ids : q \in {sessions'[j].pane, leases'[j].pane}
        <3>1. own[q] > 0 /\ own'[q] # Gone
            BY <2>1, <2>3 DEF Gone
        <3>2. PICK j \in Ids : q \in {sessions[j].pane, leases[j].pane}
            BY <2>1, <3>1 DEF Known
        <3>3. leases[j].inc = 0 => leases[j].pane = None
            BY <1>1, OfId DEF DInv, FInv, Good
        <3>. QED BY <2>1, <3>1, <3>2, <3>3 DEF Same
    <2>. QED BY <2>2, <2>3 DEF Known
<1>. QED BY <1>2, <1>3, <1>4 DEF Driven

(* The pane of a row is that of the incumbent a restart of the daemon     *)
(* falls back to                                                          *)
LEMMA KeptPaneIs ==
    ASSUME IInv, NEW id \in Ids
    PROVE  KeptPane(id) = sessions[id].pane /\ Incumbent(id).pane = sessions[id].pane
<1>1. Good(sessions[id], dormant[id], leases[id]) /\ leases[id].target \in Nat
      /\ leases[id].inc \in Nat
    BY OfId, RowTypes
<1>2. leases[id].phase = "Restarting" /\ leases[id].prev.inc # 0 =>
         leases[id].prev.pane = sessions[id].pane
    BY <1>1, NoRowType DEF Good
<1>3. leases[id].phase = "Restarting" /\ leases[id].target # 0 =>
         leases[id].prev.pane = sessions[id].pane
    BY <1>1 DEF Good
<1>. QED BY <1>2, <1>3 DEF KeptPane, Incumbent

(* The processes that the daemon kills as it comes up *)
LEMMA BootOwn ==
    ASSUME proc \in [Panes -> Int], UNCHANGED stray, proc' = BootProc, NEW q \in Panes
    PROVE  /\ own'[q] \in {own[q], Gone}
           /\ own'[q] # Gone => proc'[q] # Gone
           /\ proc[q] # Unborn => proc'[q] # Unborn
           /\ \A id \in Ids : /\ leases[id].pane = q
                              /\ own[q] \in {leases[id].inc, leases[id].target, leases[id].paneOwner}
                              => own'[q] = Gone
<1>1. proc'[q] \in {proc[q], Gone}
    BY DEF BootProc
<1>2. /\ own[q] = IF proc[q] = stray[q] THEN Gone ELSE proc[q]
      /\ own'[q] = IF proc'[q] = stray[q] THEN Gone ELSE proc'[q]
    BY DEF own
<1>3. ASSUME NEW id \in Ids, leases[id].pane = q,
             own[q] \in {leases[id].inc, leases[id].target, leases[id].paneOwner}
      PROVE  own'[q] = Gone
    <2>1. CASE own[q] = Gone
        BY <1>1, <1>2, <2>1
    <2>2. CASE own[q] # Gone
        BY <1>2, <1>3, <2>2 DEF BootProc, Gone
    <2>. QED BY <2>1, <2>2
<1>. QED BY <1>1, <1>2, <1>3 DEF Unborn, Gone

(* When a row outlives a restart of the daemon, or not *)
LEMMA RebootPane ==
    ASSUME DInv, Driven, Reboot, UNCHANGED stray, NEW id \in Ids
    PROVE  /\ sessions'[id].inc # 0 => Is(own', sessions'[id].pane, {sessions'[id].inc})
           /\ \A q \in ran : q \in {sessions[id].pane, leases[id].pane} /\ own'[q] > 0 =>
                                sessions'[id].pane = q
<1>. DEFINE row == sessions[id]
            l   == leases[id]
            inc == Incumbent(id)
<1>1. IInv /\ AllSeated /\ proc \in [Panes -> Int] /\ None \notin Panes /\ ran \subseteq Panes
      /\ proc' = BootProc
    BY NoneIsFresh, Zenon DEF DInv, FInv, Driven, Reboot
<1>2. PICK gone : /\ Restore(gone)
                  /\ gone = {j \in Ids : /\ KeptPane(j) # None
                                         /\ KeptPane(j) \notin ran \/ proc'[KeptPane(j)] = Gone}
    BY Zenon DEF Reboot
<1>3. \/ /\ sessions'[id] = NoRow
         /\ id \in gone \/ (Leased(id) /\ AbandonedLeaseOwns(l, inc))
      \/ /\ id \notin gone /\ ~(Leased(id) /\ AbandonedLeaseOwns(l, inc))
         /\ sessions'[id].inc = inc.inc /\ sessions'[id].pane = inc.pane
    BY <1>1, <1>2, RebootRow
<1>4. KeptPane(id) = row.pane /\ inc.pane = row.pane
    BY <1>1, KeptPaneIs
<1>5. /\ Match(row, l, own) /\ Good(row, dormant[id], l)
      /\ l.inc \in Nat /\ l.target \in Nat /\ row.inc \in Nat
      /\ NoRow.inc = 0 /\ NoRow.pane = None /\ NoLease.target = 0 /\ NoLease.pane = None
    BY <1>1, OfId, RowTypes, NoRowType DEF Driven, NoLease, NoRow
<1>6. ASSUME NEW q \in Panes
      PROVE  /\ own'[q] \in {own[q], Gone}
             /\ own'[q] # Gone => proc'[q] # Gone
             /\ l.pane = q /\ own[q] \in {l.inc, l.target, l.paneOwner} => own'[q] = Gone
    BY <1>1, BootOwn
<1>8. /\ l.phase \in {"None", "Starting", "Restarting", "Stopping"}
      /\ l.target # 0 => l.phase = "Restarting"
    BY <1>1, <1>5, OfId DEF Good, Lease, Phases
<1>7. inc.inc = IF l.target # 0 THEN l.inc ELSE row.inc
    <2>1. CASE l.target = 0
        <3>1. l.phase = "Restarting" => l.prev.inc = 0
            BY <1>5, <2>1 DEF Good
        <3>2. inc = row
            BY <3>1 DEF Incumbent
        <3>. QED BY <2>1, <3>2
    <2>2. CASE l.target # 0
        <3>1. l.phase = "Restarting" /\ l.inc # 0 /\ l.prev.inc = l.inc /\ row.inc = l.target
            BY <1>5, <1>8, <2>2 DEF Good
        <3>2. inc = l.prev
            BY <2>2, <3>1 DEF Incumbent, Live
        <3>. QED BY <2>2, <3>1, <3>2
    <2>. QED BY <2>1, <2>2
<1>. HIDE DEF row, l, inc
<1>9. sessions'[id].inc # 0 => Is(own', sessions'[id].pane, {sessions'[id].inc})
    <2>. SUFFICES ASSUME sessions'[id].inc # 0 PROVE Is(own', row.pane, {inc.inc})
        BY <1>3, <1>4, <1>5
    <2>1. sessions'[id].inc = inc.inc
        BY <1>3, <1>5
    <2>2. CASE l.target = 0
        BY <1>5, <1>6, <1>7, <2>1, <2>2 DEF Match, Is
    <2>3. CASE l.target # 0
        <3>1. Is(own, row.pane, {l.inc, l.target}) /\ (own[row.pane] = l.target => l.pane = row.pane)
            BY <1>5, <2>3 DEF Match
        <3>. QED BY <1>6, <1>7, <2>3, <3>1 DEF Is
    <2>. QED BY <2>2, <2>3
<1>10. ASSUME NEW q \in ran, q \in {row.pane, l.pane}, own'[q] > 0
       PROVE  sessions'[id].pane = q
    <2>1. q \in Panes /\ own'[q] = own[q] /\ own'[q] # Gone /\ q # None
        BY <1>1, <1>6, <1>10 DEF Gone
    <2>2. ~(l.pane = q /\ own[q] \in {l.inc, l.target, l.paneOwner})
        BY <1>6, <2>1
    <2>3. q = row.pane
        <3>. SUFFICES ASSUME q # row.pane PROVE FALSE
            OBVIOUS
        <3>. QED BY <1>5, <1>10, <2>1, <2>2 DEF Match, Is
    <2>4. row.inc # 0
        BY <1>5, <2>1, <2>3 DEF Good
    <2>5. id \notin gone
        BY <1>2, <1>4, <1>6, <1>10, <2>1, <2>3
    <2>6. ~(Leased(id) /\ AbandonedLeaseOwns(l, inc))
        <3>1. CASE l.phase = "None"
            BY <1>5, <3>1 DEF Good, Leased, l
        <3>2. CASE l.phase = "Starting" \/ l.phase = "Stopping"
            <4>1. row.inc = l.inc /\ row.pane = l.pane /\ l.target = 0
                BY <1>5, <2>1, <2>3, <2>4, <3>2 DEF Match, Good
            <4>2. own[q] = l.inc
                BY <1>5, <2>1, <2>3, <2>4, <4>1 DEF Match, Is
            <4>. QED BY <2>2, <2>3, <4>1, <4>2
        <3>3. CASE l.phase = "Restarting" /\ l.target = 0
            BY <1>5, <1>7, <3>3 DEF AbandonedLeaseOwns, Match, Good
        <3>4. CASE l.phase = "Restarting" /\ l.target # 0
            <4>1. l.target > l.inc /\ inc.inc = l.inc
                BY <1>5, <1>7, <3>4 DEF Good
            <4>2. l.pane # None => l.paneOwner = l.target
                BY <1>5, <3>4 DEF Match
            <4>. QED BY <1>5, <3>4, <4>1, <4>2 DEF AbandonedLeaseOwns
        <3>. QED BY <1>8, <3>1, <3>2, <3>3, <3>4
    <2>. QED BY <1>3, <1>4, <2>3, <2>5, <2>6
<1>. QED BY <1>9, <1>10 DEF row, l

LEMMA RebootDriven ==
    ASSUME DInv, HInv, Driven, Reboot, UNCHANGED stray
    PROVE  Driven'
<1>1. /\ IInv /\ proc \in [Panes -> Int] /\ work' = [w \in Workers |-> Idle] /\ proc' = BootProc /\ ran' = ran
      /\ \E gone : Restore(gone)
    BY Zenon DEF DInv, FInv, Reboot
<1>2. leases' = [id \in Ids |-> NoLease]
    BY <1>1, Zenon DEF Restore
<1>3. /\ NoLease.target = 0 /\ NoLease.pane = None /\ NoLease.phase = "None"
    BY DEF NoLease
<1>4. ASSUME NEW id \in Ids PROVE Match(sessions'[id], leases'[id], own')
    BY <1>2, <1>3, RebootPane DEF Match
<1>5. ASSUME NEW w \in Workers PROVE Plain(work'[w]) /\ PhysOf(w)'
    <2>1. work'[w] = Idle
        BY <1>1
    <2>2. Plain(Idle) /\ Idle.flow \notin {"start", "restart"}
        BY DEF Plain, Idle, Served
    <2>. QED BY <2>1, <2>2 DEF PhysOf, Phys
<1>6. ASSUME NEW q \in ran PROVE Known(q)'
    <2>1. q \in Panes /\ Known(q)
        BY DEF Driven
    <2>2. own'[q] \in {own[q], Gone} /\ proc'[q] # Unborn
        BY <1>1, <2>1, BootOwn DEF Known
    <2>3. ASSUME own'[q] > 0 PROVE \E j \in Ids : q \in {sessions'[j].pane, leases'[j].pane}
        <3>1. own[q] > 0
            BY <2>2, <2>3 DEF Gone
        <3>2. PICK j \in Ids : q \in {sessions[j].pane, leases[j].pane}
            BY <2>1, <3>1 DEF Known
        <3>3. sessions'[j].pane = q
            BY <1>6, <2>3, <3>2, RebootPane
        <3>. QED BY <3>3
    <2>. QED BY <2>2, <2>3 DEF Known
<1>. QED BY <1>1, <1>4, <1>5, <1>6 DEF Driven

LEMMA EnvironmentDriven ==
    ASSUME DInv, HInv, Driven, ~http, Environment, UNCHANGED <<holder, stray>>
    PROVE  Driven'
<1>. USE OwnSame DEF Outside, outside, Registry
<1>1. IInv /\ proc \in [Panes -> Int]
    BY DEF DInv, FInv
<1>2. ASSUME UNCHANGED <<vars, work, ran>>, Cooling PROVE Driven'
    BY <1>2, QuietSame, OutsideDriven DEF vars
<1>3. CASE \E p \in Panes : PaneDies(p)
    BY <1>1, <1>2, <1>3, GoneCools DEF PaneDies
<1>4. CASE \E sid \in Sids : TurnEnds(sid)
    BY <1>2, <1>4, SameCools DEF TurnEnds
<1>5. ASSUME NEW id \in Ids, Reap(id) PROVE Driven'
    <2>1. /\ sessions' = [sessions EXCEPT ![id] = NoRow] /\ UNCHANGED leases /\ leases[id].inc = 0
          /\ UNCHANGED <<work, proc, own, ran>> /\ proc[sessions[id].pane] = Gone
        BY <1>5 DEF Reap, DormantOwned, Leased
    <2>3. sessions[id].pane \in Panes => own'[sessions[id].pane] = Gone
        BY <2>1, OwnGone
    <2>2. \A j \in Ids : sessions'[j] = IF j = id THEN NoRow ELSE sessions[j]
        BY <1>1, <2>1 DEF IInv
    <2>. QED BY <2>1, <2>2, <2>3, OutsideDriven, SameCools DEF Same
<1>6. ASSUME NEW id \in Ids, NEW sid \in Sids, HookBinds(id, sid) PROVE Driven'
    <2>. DEFINE row == [sessions[id] EXCEPT !.backend = TRUE, !.sid = sid, !.cred = 0]
    <2>1. /\ sessions' = [sessions EXCEPT ![id] = row] /\ UNCHANGED leases
          /\ UNCHANGED <<work, proc, own, ran>>
        BY <1>6 DEF HookBinds, BindBackendIdentity, SetPair
    <2>2. row.inc = sessions[id].inc /\ row.pane = sessions[id].pane
        BY <1>1, OfId DEF Row
    <2>. HIDE DEF row
    <2>3. \A j \in Ids : sessions'[j] = IF j = id THEN row ELSE sessions[j]
        BY <1>1, <2>1 DEF IInv
    <2>. QED BY <2>1, <2>2, <2>3, OutsideDriven, SameCools DEF Same
<1>. QED BY <1>3, <1>4, <1>5, <1>6, RebootDriven DEF Environment, Deliver

-----------------------------------------------------------------------------
(* Only a respawn leaves a stray behind. *)
LEMMA OnlyRespawnStrays ==
    ASSUME NEW w \in Workers, Continues(w), Strays(w)
    PROVE  Respawn(w) \/ UNCHANGED stray
<1>1. CASE ~At(w, "restart", "respawn")
    BY <1>1 DEF Strays
<1>2. CASE At(w, "restart", "respawn")
    <2>1. ~StartStep(w) /\ ~KillStep(w)
        BY <1>2 DEF StartStep, StartDir, StartCreate, StartRecord, StartCommit, StartDiscard,
                    StartFinalize, StartCleanup, StartRollback, KillStep, KillRecheck, KillAbort,
                    KillGate, KillPane, KillComplete, At
    <2>2. ~SharedStep(w)
        BY <1>2 DEF SharedStep, Launch, Make, Claim, Attach, Undo, Clear, Unmade, Release, At
    <2>3. RestartFlowStep(w) => Respawn(w)
        BY <1>2 DEF RestartFlowStep, RestartSnapshot, RestartStage, Inspect, Custody, Fallback,
                    CustodyNew, DropNew, Serve, Prompt, RestartComplete, Rollback,
                    KillProvisional, RestartFailed, At
    <2>. QED BY <2>1, <2>2, <2>3 DEF Continues
<1>. QED BY <1>1, <1>2

LEMMA PStep == DInv /\ HInv /\ PInv /\ Dirs # {} /\ [NextAttended /\ Exact]_fvars => PInv'
<1>. SUFFICES ASSUME DInv, HInv, PInv, [NextAttended /\ Exact]_fvars PROVE PInv'
    OBVIOUS
<1>1. http' = http
    BY DEF NextAttended, NextUnattended, Proceeds, fvars
<1>2. stray' \in [Panes -> Int]
    <2>1. ASSUME NEW w \in Workers, Strays(w) PROVE stray' \in [Panes -> Int]
        <3>1. work[w].target \in Int
            BY DEF DInv, FInv, Working, Flow
        <3>. QED BY <2>1, <3>1 DEF PInv, Strays
    <2>. QED BY <2>1 DEF PInv, NextAttended, NextUnattended, Proceeds, fvars
<1>3. CASE http
    BY <1>1, <1>2, <1>3 DEF PInv
<1>4. CASE ~http
    <2>. SUFFICES Driven'
        BY <1>2 DEF PInv
    <2>1. Driven /\ proc \in [Panes -> Int] /\ stray \in [Panes -> Int]
        BY <1>4 DEF PInv, DInv
    <2>2. CASE UNCHANGED fvars
        <3>1. UNCHANGED <<sessions, leases, work, holder, ran, proc, own>>
            BY <2>2, OwnSame DEF fvars
        <3>. QED BY <2>1, <3>1, OutsideDriven, SameCools DEF Same
    <2>3. ASSUME NEW w \in Workers, Proceeds(w), Exact PROVE Driven'
        <3>1. Continues(w) /\ Strays(w) /\ UNCHANGED holder
            BY <2>3 DEF Proceeds
        <3>2. CASE Respawn(w)
            BY <1>4, <2>1, <3>1, <3>2, RespawnDriven
        <3>3. CASE ~Respawn(w)
            <4>1. UNCHANGED stray
                BY <3>1, <3>3, OnlyRespawnStrays
            <4>. QED BY <1>4, <2>1, <2>3, <3>1, <3>3, <4>1, StartStepDriven, SharedStepDriven,
                        RestartFlowStepDriven, KillStepDriven DEF Continues
        <3>. QED BY <3>2, <3>3
    <2>4. ASSUME NEW w \in Workers, NEW id \in Ids, UNCHANGED stray,
                 \/ Begins(w, id) /\ holder' = [holder EXCEPT ![id] = w]
                 \/ RecoverRead(w, id) /\ UNCHANGED holder
          PROVE  Driven'
        BY <1>4, <2>1, <2>4, BeginsDriven
    <2>5. ASSUME Environment, UNCHANGED <<holder, stray>> PROVE Driven'
        BY <1>4, <2>1, <2>5, EnvironmentDriven
    <2>6. ASSUME NEW w \in Workers, RecoverReplay(w) PROVE FALSE
        BY <2>1, <2>6 DEF RecoverReplay, At, Driven, Plain, Served
    <2>. QED BY <2>2, <2>3, <2>4, <2>5, <2>6 DEF NextAttended, NextUnattended
<1>. QED BY <1>3, <1>4

LEMMA PStart == FlowsInit => PInv
<1>. SUFFICES ASSUME FlowsInit PROVE Driven
    BY DEF PInv, FlowsInit, Gone
<1>1. /\ \A w \in Workers : work[w] = Idle
      /\ \A id \in Ids : sessions[id] = NoRow /\ leases[id] = NoLease
      /\ ran = {}
    BY DEF FlowsInit, Init
<1>2. /\ NoRow.inc = 0 /\ NoLease.target = 0 /\ NoLease.pane = None /\ NoLease.phase = "None"
    BY DEF NoRow, NoLease
<1>3. ASSUME NEW id \in Ids PROVE Match(sessions[id], leases[id], own)
    BY <1>1, <1>2 DEF Match
<1>4. ASSUME NEW w \in Workers PROVE Plain(work[w]) /\ PhysOf(w)
    <2>1. Plain(Idle) /\ Idle.flow \notin {"start", "restart"}
        BY DEF Plain, Idle, Served
    <2>. QED BY <1>1, <2>1 DEF PhysOf, Phys
<1>. QED BY <1>1, <1>3, <1>4 DEF Driven

LEMMA PInductive ==
    ASSUME Dirs # {}
    PROVE  ExactSpec => [](DInv /\ HInv /\ PInv)
<1>1. DInv /\ HInv /\ PInv /\ [NextAttended /\ Exact]_fvars => DInv' /\ HInv' /\ PInv'
    BY DStep, HStep, PStep
<1>2. FlowsInit => DInv /\ HInv /\ PInv
    BY DInit, HStart, PStart
<1>. QED BY <1>1, <1>2, PTL DEF ExactSpec

(* RowMatchesPane: once the flows of an ID are over, whatever became of    *)
(* them, the process in the pane of its row is that of the row, so that    *)
(* it can be stopped and restarted again; but for the target of a restart  *)
(* whose respawn failed late and whose pane could not be cleaned up.       *)
THEOREM RowsMatchPanes == ASSUME Dirs # {} PROVE ExactSpec => []RowMatchesPane
<1>1. DInv /\ PInv => RowMatchesPane
    <2>. SUFFICES ASSUME DInv, PInv, ~http, NEW id \in Ids,
                         Live(id), ~Leased(id), Running(sessions[id].pane)
                  PROVE  proc[sessions[id].pane] \in {sessions[id].inc, stray[sessions[id].pane]}
        BY DEF RowMatchesPane
    <2>1. leases[id].target = 0
        BY OfId, NoLeaseType DEF DInv, FInv, Good, Leased
    <2>2. Is(own, sessions[id].pane, {sessions[id].inc})
        BY <2>1 DEF PInv, Driven, Match, Live
    <2>. QED BY <2>2 DEF Is, Running, Gone, own
<1>. QED BY <1>1, PInductive, PTL

(* NoStrandedBackend: a backend that was launched and still runs is in the *)
(* pane of a row or of a lease, where a stop, a restart of the session or  *)
(* the next start of the daemon finds it; but for one that such a respawn  *)
(* has left.                                                               *)
THEOREM BackendsAreKnown == ASSUME Dirs # {} PROVE ExactSpec => []NoStrandedBackend
<1>1. PInv => NoStrandedBackend
    <2>. SUFFICES ASSUME PInv, ~http, NEW p \in ran, Running(p), proc[p] # stray[p]
                  PROVE  \E id \in Ids : p \in {sessions[id].pane, leases[id].pane}
        BY DEF NoStrandedBackend
    <2>1. p \in Panes /\ Known(p)
        BY DEF PInv, Driven
    <2>2. own[p] > 0
        BY <2>1 DEF own, Running
    <2>. QED BY <2>1, <2>2 DEF Known
<1>. QED BY <1>1, PInductive, PTL

-----------------------------------------------------------------------------
(* Whose process a step takes down. *)

(* A step fills new panes, ends processes of its session, or respawns one  *)
Tame(w) == \A p \in Panes : proc'[p] # proc[p] =>
              \/ proc[p] = Unborn
              \/ /\ proc[p] \in {work[w].tok, work[w].target, Gone}
                 /\ proc'[p] = Gone \/ (Respawn(w) /\ p = work[w].pane)

(* What a restart found in its pane is there until it respawns the pane *)
Examined(f) == f.flow = "restart" /\ f.at \in {"custody", "respawn"}

Seen == \A w \in Workers :
           Examined(work[w]) => proc[work[w].pane] \in {work[w].tok, work[w].target, Gone}

LEMMA NewPaneTame ==
    ASSUME DInv, NEW w \in Workers, NEW inc, NEW at, NewPane(w, inc, at)
    PROVE  Tame(w)
<1>1. PICK p \in Panes : proc[p] = Unborn /\ SetProc(p, inc)
    BY DEF NewPane
<1>. QED BY <1>1 DEF DInv, SetProc, Tame

LEMMA DropTame ==
    ASSUME DInv, NEW w \in Workers, NEW inc \in {work[w].tok, work[w].target}, NEW at, NEW other,
           Drop(w, inc, at, End(w)) \/ Drop(w, inc, at, Goto(w, other))
    PROVE  Tame(w)
<1>1. proc' = proc \/ (proc[work[w].pane] = inc /\ SetProc(work[w].pane, Gone))
    BY DEF Drop
<1>. QED BY <1>1 DEF DInv, SetProc, Tame

LEMMA RespawnTame ==
    ASSUME DInv, Seen, NEW w \in Workers, Respawn(w)
    PROVE  Tame(w)
<1>1. proc[work[w].pane] \in {work[w].tok, work[w].target, Gone}
    BY DEF Seen, Examined, Respawn, At
<1>2. proc' = proc \/ \E inc : SetProc(work[w].pane, inc)
    BY DEF Respawn
<1>. QED BY <1>1, <1>2 DEF DInv, SetProc, Tame

LEMMA ContinuesTame ==
    ASSUME DInv, Driven, Seen, NEW w \in Workers, Continues(w)
    PROVE  Tame(w)
<1>. USE DEF Outside, outside
<1>1. ASSUME UNCHANGED proc PROVE Tame(w)
    BY <1>1 DEF Tame
<1>2. work[w].at \notin Served
    BY DEF Driven, Plain
<1>3. CASE StartStep(w)
    <2>1. CASE StartDiscard(w) \/ StartCleanup(w)
        BY <2>1, DropTame DEF StartDiscard, StartCleanup
    <2>2. CASE StartCreate(w)
        BY <1>1, <2>2, NewPaneTame DEF StartCreate
    <2>. QED BY <1>1, <1>3, <2>1, <2>2
             DEF StartStep, StartDir, StartRecord, StartCommit, StartFinalize, StartRollback,
                 Attempt, Try
<1>4. CASE SharedStep(w)
    BY <1>1, <1>2, <1>4 DEF SharedStep, Launch, Make, Claim, Attach, Undo, Clear, Unmade, Release,
                            Attempt, At, Served
<1>5. CASE RestartFlowStep(w)
    <2>1. CASE DropNew(w) \/ KillProvisional(w)
        BY <2>1, DropTame DEF DropNew, KillProvisional
    <2>2. CASE Fallback(w)
        BY <1>1, <2>2, NewPaneTame DEF Fallback
    <2>3. CASE Respawn(w)
        BY <2>3, RespawnTame
    <2>4. CASE Rollback(w)
        BY <1>1, <2>4 DEF Rollback, Try
    <2>. QED BY <1>1, <1>2, <1>5, <2>1, <2>2, <2>3, <2>4
             DEF RestartFlowStep, RestartSnapshot, RestartStage, Inspect, Custody, CustodyNew,
                 Serve, Prompt, RestartComplete, RestartFailed, Attempt, Try, At, Served
<1>6. CASE KillStep(w)
    <2>1. CASE KillPane(w)
        <3>1. proc' = proc \/ (proc[work[w].pane] = work[w].tok /\ SetProc(work[w].pane, Gone))
            BY <2>1 DEF KillPane
        <3>. QED BY <3>1 DEF DInv, SetProc, Tame
    <2>. QED BY <1>1, <1>6, <2>1 DEF KillStep, KillRecheck, KillAbort, KillGate, KillComplete, Try
<1>. QED BY <1>3, <1>4, <1>5, <1>6 DEF Continues

(* Where restarts enter these stages *)
LEMMA ExaminedBy ==
    ASSUME DInv, Driven, ~http, NEW w \in Workers, Continues(w), Examined(work'[w])
    PROVE  Inspect(w) \/ Custody(w)
<1>. DEFINE f == work[w]
<1>1. /\ Working /\ f.at \notin Served
      /\ \A at : Goto(w, at) => work'[w].at = at
      /\ End(w) => work'[w].at = "idle"
    BY GotoMoves DEF DInv, FInv, Driven, Plain, Working, Steps, End, Idle
<1>2. ASSUME NEW inc, NEW at, NewPane(w, inc, at) PROVE work'[w].at = at
    BY <1>1, <1>2 DEF NewPane, Working, Flow
<1>. USE <1>1, <1>2 DEF Examined
<1>3. ~StartStep(w)
    BY DEF StartStep, StartDir, StartCreate, StartRecord, StartCommit, StartDiscard,
           StartFinalize, StartCleanup, StartRollback, Attempt, Try, Drop
<1>4. ~SharedStep(w)
    BY DEF SharedStep, Launch, Make, Claim, Attach, Undo, Clear, Unmade, Release, Attempt, At, Served
<1>5. ~RestartSnapshot(w) /\ ~RestartStage(w)
    <2>1. ASSUME NEW g, work' = [work EXCEPT ![w] = g] PROVE work'[w] = g
        BY <2>1 DEF Working
    <2>2. ASSUME RestartSnapshot(w) PROVE FALSE
        <3>. DEFINE g == [f EXCEPT !.at = "stage", !.pane = sessions[f.id].pane,
                                   !.oldPane = sessions[f.id].pane, !.oldSid = sessions[f.id].sid]
        <3>1. g.at = "stage"
            BY DEF Working, Flow
        <3>2. work' = [work EXCEPT ![w] = g] \/ Goto(w, "release")
            BY <2>2 DEF RestartSnapshot, Goto
        <3>. HIDE DEF g
        <3>. QED BY <2>1, <3>1, <3>2
    <2>3. ASSUME NEW fresh \in BOOLEAN,
                 work' = [work EXCEPT ![w] =
                    [@ EXCEPT !.target = NextInc,
                              !.at     = IF http /\ fresh THEN "custody" ELSE "inspect",
                              !.mode   = IF http /\ fresh THEN "soft"
                                         ELSE IF fresh \/ f.oldSid = None THEN "create"
                                         ELSE "resume"]]
          PROVE  FALSE
        <3>. DEFINE mode == IF http /\ fresh THEN "soft"
                            ELSE IF fresh \/ f.oldSid = None THEN "create" ELSE "resume"
        <3>. HIDE DEF mode
        <3>. DEFINE g == [f EXCEPT !.target = NextInc, !.at = "inspect", !.mode = mode]
        <3>1. g.at = "inspect"
            BY DEF Working, Flow
        <3>2. work' = [work EXCEPT ![w] = g]
            BY <2>3 DEF mode
        <3>. HIDE DEF g
        <3>. QED BY <2>1, <3>1, <3>2
    <2>4. RestartStage(w) => \/ Goto(w, "release")
                             \/ \E fresh \in BOOLEAN :
                                   work' = [work EXCEPT ![w] =
                                      [@ EXCEPT !.target = NextInc,
                                                !.at     = IF http /\ fresh THEN "custody" ELSE "inspect",
                                                !.mode   = IF http /\ fresh THEN "soft"
                                                           ELSE IF fresh \/ f.oldSid = None THEN "create"
                                                           ELSE "resume"]]
        BY Zenon DEF RestartStage, Try
    <2>. QED BY <2>2, <2>3, <2>4
<1>6. RestartFlowStep(w) => Inspect(w) \/ Custody(w)
    BY <1>5 DEF RestartFlowStep, Respawn, Fallback, CustodyNew, DropNew, Serve, Prompt,
                RestartComplete, Rollback, KillProvisional, RestartFailed, Drop, Attempt, Try,
                At, Served
<1>7. ~KillStep(w)
    <2>1. ~KillRecheck(w)
        <3>. DEFINE g == [f EXCEPT !.at = "exit", !.sid = sessions[f.id].sid]
        <3>1. g.at = "exit"
            BY DEF Working, Flow
        <3>2. work' = [work EXCEPT ![w] = g] => work'[w] = g
            BY DEF Working
        <3>3. KillRecheck(w) => work' = [work EXCEPT ![w] = g] \/ Goto(w, "release")
            BY DEF KillRecheck, Goto
        <3>. HIDE DEF g
        <3>. QED BY <3>1, <3>2, <3>3
    <2>2. ~KillPane(w)
        <3>1. KillPane(w) => End(w) \/ Goto(w, "release") \/ Goto(w, "removeRow")
            BY DEF KillPane
        <3>. QED BY <3>1
    <2>. QED BY <2>1, <2>2 DEF KillStep, KillAbort, KillGate, KillComplete, At, Served, Try
<1>. QED BY <1>3, <1>4, <1>6, <1>7 DEF Continues

LEMMA ContinuesSeen ==
    ASSUME DInv, HInv, Driven, Seen, ~http, NEW v \in Workers, Continues(v), Follows(v)
    PROVE  Seen'
<1>. SUFFICES ASSUME NEW w \in Workers, Examined(work'[w])
              PROVE  proc'[work'[w].pane] \in {work'[w].tok, work'[w].target, Gone}
    BY DEF Seen
<1>1. CASE w = v
    <2>1. Inspect(w) \/ Custody(w)
        BY <1>1, ExaminedBy
    <2>2. /\ proc[work[w].pane] \in {work[w].tok, work[w].target, Gone} /\ UNCHANGED proc
          /\ \E at : Goto(w, at)
        <3>1. CASE Inspect(w)
            <4>1. \A at : Goto(w, at) => work'[w].at = at
                BY GotoMoves DEF DInv, FInv, Working, Steps
            <4>. QED BY <3>1, <4>1 DEF Inspect, Examined, Outside, outside
        <3>2. CASE Custody(w)
            BY <3>2 DEF Custody, At, Seen, Examined, Attempt, Outside, outside
        <3>. QED BY <2>1, <3>1, <3>2
    <2>3. /\ work'[w].pane = work[w].pane /\ work'[w].tok = work[w].tok
          /\ work'[w].target = work[w].target
        BY <2>2, GotoMoves DEF DInv, FInv, Working, Steps
    <2>. QED BY <2>2, <2>3
<1>2. CASE w # v
    <2>. DEFINE f == work[w]
    <2>1. work'[w] = f /\ Examined(f) /\ proc[f.pane] \in {f.tok, f.target, Gone}
        BY <1>2 DEF Follows, Seen
    <2>2. /\ Held(w) /\ f.pane = sessions[f.id].pane /\ f.pane \in Panes
          /\ f.tok \in Nat /\ f.target \in Nat
        BY <2>1, RestartKnows DEF Examined, Over, Duty, InPlace, DInv, FInv, Working, Sensible
    <2>3. proc[f.pane] # Unborn
        BY <2>1, <2>2 DEF Unborn, Gone
    <2>4. ASSUME Respawn(v) PROVE work[v].pane # f.pane
        <3>1. work[v].flow = "restart" /\ work[v].at = "respawn"
            BY <2>4 DEF Respawn, At
        <3>2. Held(v) /\ work[v].pane = sessions[work[v].id].pane
            BY <3>1, RestartKnows DEF Over, Duty, InPlace
        <3>3. work[v].id # f.id
            BY <1>2, <2>2, <3>2 DEF Held
        <3>. QED BY <2>2, <3>2, <3>3, NoneIsFresh DEF Held, DInv, FInv, IInv, PanesApart, PanesOf
    <2>5. proc'[f.pane] \in {proc[f.pane], Gone}
        BY <2>2, <2>3, <2>4, ContinuesTame DEF Tame
    <2>. QED BY <2>1, <2>5
<1>. QED BY <1>1, <1>2

SInv == http \/ Seen

LEMMA SStep == DInv /\ HInv /\ PInv /\ SInv /\ [NextAttended]_fvars => SInv'
<1>. SUFFICES ASSUME DInv, HInv, PInv, SInv, ~http, [NextAttended]_fvars PROVE Seen'
    BY DEF SInv, NextAttended, NextUnattended, Proceeds, fvars
<1>1. Driven /\ Seen /\ Working /\ proc \in [Panes -> Int]
    BY DEF PInv, SInv, DInv, FInv
(* no flow enters these stages, and processes only go *)
<1>2. ASSUME \A p \in Panes : proc'[p] \in {proc[p], Gone},
             \A w \in Workers : work'[w] = work[w] \/ ~Examined(work'[w])
      PROVE  Seen'
    <2>. SUFFICES ASSUME NEW w \in Workers, Examined(work'[w])
                  PROVE  proc'[work'[w].pane] \in {work'[w].tok, work'[w].target, Gone}
        BY DEF Seen
    <2>1. work'[w] = work[w] /\ work[w].pane \in Panes
        BY <1>1, <1>2 DEF Examined, Working, Sensible
    <2>. QED BY <1>1, <1>2, <2>1 DEF Seen
<1>3. ASSUME NEW w \in Workers, Continues(w) PROVE Seen'
    <2>1. Follows(w)
        BY <1>3, StartStepHarmless, SharedStepHarmless, RestartFlowStepHarmless, KillStepHarmless
           DEF Continues, Harmless
    <2>. QED BY <1>1, <1>3, <2>1, ContinuesSeen
<1>4. ASSUME NEW w \in Workers, NEW id \in Ids, Begins(w, id) \/ RecoverRead(w, id)
      PROVE  Seen'
    <2>1. /\ UNCHANGED proc
          /\ \E g : work' = [work EXCEPT ![w] = g] /\ g.at \in {"dir", "snapshot", "claimed", "release"}
        <3>1. CASE Begins(w, id)
            <4>. DEFINE inc == sessions[id].inc
                        a == [Idle EXCEPT !.flow = "start", !.at = "dir", !.id = id, !.tok = NextInc]
                        b == [Idle EXCEPT !.flow = "restart", !.at = "snapshot", !.id = id, !.tok = inc]
                        c == [Idle EXCEPT !.flow = "kill", !.at = "claimed", !.id = id, !.tok = inc,
                                          !.pane = sessions[id].pane]
            <4>1. a.at = "dir" /\ b.at = "snapshot" /\ c.at = "claimed"
                BY DEF Idle
            <4>2. /\ UNCHANGED proc
                  /\ \E g \in {a, b, c} : work' = [work EXCEPT ![w] = g]
                BY <3>1, Zenon DEF Begins, StartReserve, RestartClaim, KillClaim, Begin, Outside, outside
            <4>. HIDE DEF a, b, c
            <4>. QED BY <4>1, <4>2
        <3>2. CASE RecoverRead(w, id)
            <4>. DEFINE g == [Idle EXCEPT !.flow = "recover", !.id = id, !.tok = leases[id].inc,
                                          !.sid = leases[id].sid, !.at = "release"]
            <4>1. g.at = "release"
                BY DEF Idle
            <4>2. UNCHANGED proc /\ work' = [work EXCEPT ![w] = g]
                BY <3>2 DEF RecoverRead, Begin, Outside, outside
            <4>. HIDE DEF g
            <4>. QED BY <4>1, <4>2
        <3>. QED BY <1>4, <3>1, <3>2
    <2>. QED BY <1>1, <1>2, <2>1 DEF Working, Examined
<1>5. CASE Environment
    <2>1. CASE Reboot
        <3>1. work' = [w \in Workers |-> Idle] /\ proc' = BootProc
            BY <2>1, Zenon DEF Reboot
        <3>. QED BY <1>2, <3>1 DEF BootProc, Examined, Idle
    <2>2. CASE ~Reboot
        <3>1. UNCHANGED work /\ (UNCHANGED proc \/ \E p \in Panes : SetProc(p, Gone))
            BY <1>5, <2>2 DEF Environment, PaneDies, Reap, Deliver, TurnEnds, HookBinds, Outside,
                             outside
        <3>. QED BY <1>1, <1>2, <3>1 DEF SetProc
    <2>. QED BY <2>1, <2>2
<1>6. ASSUME NEW w \in Workers, RecoverReplay(w) PROVE FALSE
    BY <1>1, <1>6 DEF RecoverReplay, At, Driven, Plain, Served
<1>7. CASE UNCHANGED fvars
    BY <1>2, <1>7 DEF fvars
<1>. QED BY <1>3, <1>4, <1>5, <1>6, <1>7 DEF NextAttended, NextUnattended, Proceeds

LEMMA SInductive ==
    ASSUME Dirs # {}
    PROVE  ExactSpec => [](DInv /\ PInv /\ SInv)
<1>1. [NextAttended /\ Exact]_fvars => [NextAttended]_fvars
    OBVIOUS
<1>2. FlowsInit => SInv
    BY DEF FlowsInit, SInv, Seen, Examined, Idle
<1>. QED BY <1>1, <1>2, PInductive, SStep, PTL DEF ExactSpec

(* NoForeignKill, of one step *)
Spared == ~http => \A w \in Workers, p \in Panes :
              work'[w] \notin {work[w], Idle} /\ Running(p) /\ proc'[p] # proc[p]
                  => proc[p] \in {work[w].tok, work[w].target}

LEMMA OneActs ==
    ASSUME NEW w \in Workers, Follows(w), Tame(w)
    PROVE  Spared
BY DEF Follows, Tame, Spared, Running, Gone, Unborn

LEMMA SparedStep == DInv /\ PInv /\ SInv /\ [NextAttended]_fvars => [Spared]_fvars
<1>. SUFFICES ASSUME DInv, PInv, SInv, ~http, NextAttended PROVE Spared
    BY DEF Spared
<1>1. Driven /\ Seen
    BY DEF PInv, SInv
<1>2. ASSUME UNCHANGED proc PROVE Spared
    BY <1>2 DEF Spared
<1>3. ASSUME NEW w \in Workers, Continues(w) PROVE Spared
    <2>1. Follows(w)
        BY <1>3, StartStepHarmless, SharedStepHarmless, RestartFlowStepHarmless, KillStepHarmless
           DEF Continues, Harmless
    <2>. QED BY <1>1, <1>3, <2>1, ContinuesTame, OneActs
<1>4. ASSUME NEW w \in Workers, NEW id \in Ids, Begins(w, id) \/ RecoverRead(w, id) PROVE Spared
    BY <1>2, <1>4 DEF Begins, StartReserve, RestartClaim, KillClaim, RecoverRead, Outside, outside
<1>5. CASE Environment
    <2>1. UNCHANGED proc \/ \A w \in Workers : work'[w] \in {work[w], Idle}
        BY <1>5 DEF Environment, PaneDies, Reap, Deliver, TurnEnds, HookBinds, Reboot, Outside,
                    outside
    <2>. QED BY <1>2, <2>1 DEF Spared
<1>6. ASSUME NEW w \in Workers, RecoverReplay(w) PROVE Spared
    BY <1>2, <1>6 DEF RecoverReplay
<1>. QED BY <1>3, <1>4, <1>5, <1>6 DEF NextAttended, NextUnattended, Proceeds

(* NoForeignKill: no flow kills or respawns a process that is neither the  *)
(* one it works for nor the one it launched, however long ago it looked    *)
(* its pane up and whoever came and went since.                            *)
THEOREM FlowsSpareOthers == ASSUME Dirs # {} PROVE ExactSpec => NoForeignKill
<1>1. [Spared]_fvars <=>
        [~http => \A w \in Workers, p \in Panes :
          work'[w] \notin {work[w], Idle} /\ Running(p) /\ proc'[p] # proc[p]
              => proc[p] \in {work[w].tok, work[w].target}]_fvars
    BY DEF Spared
<1>2. [NextAttended /\ Exact]_fvars => [NextAttended]_fvars
    OBVIOUS
<1>. QED BY <1>1, <1>2, SInductive, SparedStep, PTL DEF NoForeignKill, ExactSpec

=============================================================================
