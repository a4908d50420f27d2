------------------------------ MODULE TasksProofs ------------------------------
(* What module Tasks promises, for any number of tasks, triggers and firings. *)
EXTENDS Tasks, TLAPS

(* A task that is not there yet has no history and no firing; the count of *)
(* the table is that of the history; a task that was fired since it was    *)
(* disabled is not on the list of the tick any more.                       *)
Fresh(id) ==
    tasks[id] = Unborn =>
        /\ ended[id] = 0 /\ after[id] = 0
        /\ id \notin due
        /\ \A r \in Runners : run[r] # Idle => run[r].id # id

Counted(id) == Here(id) => tasks[id].count = ended[id]

Stopped(id) ==
    Here(id) => /\ after[id] \in {0, 1}
                /\ tasks[id].enabled => after[id] = 0
                /\ after[id] = 1 => id \notin due

IInv == /\ TasksTypeOK
        /\ \A id \in Ids : Fresh(id) /\ Counted(id) /\ Stopped(id)

USE DEF Runners

(* An entry of the table is a task exactly if it says so. *)
LEMMA Entries ==
    ASSUME NEW e \in Task \cup {Unborn, Gone}
    PROVE  /\ e.state = "here" <=> e \in Task
           /\ e = Unborn => e.state # "here"
           /\ e = Gone => e.state # "here" /\ e # Unborn
BY DEF Task, Unborn, Gone

LEMMA Firings ==
    ASSUME NEW f \in Firing \cup {Idle}
    PROVE  /\ f.at \in {"injecting", "updated"} <=> f \in Firing
           /\ f # Idle => f \in Firing
           /\ f \in Firing => f.id \in Ids /\ f.task \in Task /\ f # Idle
BY DEF Firing, Idle

LEMMA InitInv == Init => IInv
<1>1. Unborn \in Task \cup {Unborn, Gone} /\ Unborn.state # "here"
  BY Entries
<1>2. Idle \in Firing \cup {Idle}
  OBVIOUS
<1> QED
  BY <1>1, <1>2 DEF Init, IInv, TasksTypeOK, Fresh, Counted, Stopped, Here

(* Every action leaves the invariant intact. *)
LEMMA CreateInv ==
    ASSUME IInv, NEW id \in Ids, NEW once \in BOOLEAN, Create(id, once)
    PROVE  IInv'
<1> DEFINE new == [state |-> "here", enabled |-> TRUE, next |-> "later",
                   once |-> once, count |-> 0]
<1>1. /\ new \in Task /\ new.state = "here" /\ new.enabled /\ new.count = 0
      /\ new.next # "none"
  BY DEF Task
<1>2. new # Unborn
  BY <1>1, Entries
<1>3. /\ tasks' = [tasks EXCEPT ![id] = new]
      /\ tasks[id] = Unborn
      /\ UNCHANGED <<due, run, ended, after>>
  BY DEF Create
<1> HIDE DEF new
<1>4. TasksTypeOK'
  BY <1>1, <1>3 DEF IInv, TasksTypeOK, Here
<1>5. ASSUME NEW j \in Ids PROVE Fresh(j)' /\ Counted(j)' /\ Stopped(j)'
  BY <1>1, <1>2, <1>3 DEF IInv, TasksTypeOK, Fresh, Counted, Stopped, Here
<1> QED
  BY <1>4, <1>5 DEF IInv

LEMMA DeleteInv ==
    ASSUME IInv, NEW id \in Ids, Delete(id)
    PROVE  IInv'
<1>1. /\ tasks' = [tasks EXCEPT ![id] = Gone]
      /\ UNCHANGED <<due, run, ended, after>>
  BY DEF Delete, Removed
<1>2. Gone.state # "here" /\ Gone # Unborn
  BY Entries
<1>3. TasksTypeOK'
  BY <1>1, <1>2 DEF IInv, TasksTypeOK, Here
<1>4. ASSUME NEW j \in Ids PROVE Fresh(j)' /\ Counted(j)' /\ Stopped(j)'
  BY <1>1, <1>2 DEF IInv, TasksTypeOK, Fresh, Counted, Stopped, Here
<1> QED
  BY <1>3, <1>4 DEF IInv

(* A task of the table with another next run, and enabled, disabled or as *)
(* it was: Enable, Disable, TimePasses.                                   *)
LEMMA ResetInv ==
    ASSUME IInv, NEW id \in Ids, Here(id),
           NEW e \in BOOLEAN, NEW n \in {"none", "later", "due"},
           e => n # "none",
           tasks' = [tasks EXCEPT ![id] = [@ EXCEPT !.enabled = e, !.next = n]],
           after' = [after EXCEPT ![id] = 0] \/ (after' = after /\ e = tasks[id].enabled),
           UNCHANGED <<due, run, ended>>
    PROVE  IInv'
<1> DEFINE u == [tasks[id] EXCEPT !.enabled = e, !.next = n]
<1>1. tasks[id] \in Task
  BY Entries DEF IInv, TasksTypeOK, Here
<1>2. /\ u \in Task /\ u.state = "here" /\ u.enabled = e /\ u.next = n
      /\ u.count = tasks[id].count
  BY <1>1 DEF Task
<1>3. u # Unborn
  BY <1>2, Entries
<1>4. tasks' = [tasks EXCEPT ![id] = u]
  BY DEF IInv, TasksTypeOK
<1> HIDE DEF u
<1>5. TasksTypeOK'
  BY <1>2, <1>4 DEF IInv, TasksTypeOK, Here
<1>6. ASSUME NEW j \in Ids PROVE Fresh(j)' /\ Counted(j)' /\ Stopped(j)'
  BY <1>2, <1>3, <1>4 DEF IInv, TasksTypeOK, Fresh, Counted, Stopped, Here
<1> QED
  BY <1>5, <1>6 DEF IInv

LEMMA EnableInv ==
    ASSUME IInv, NEW id \in Ids, Enable(id)
    PROVE  IInv'
<1>1. tasks[id] \in Task
  BY Entries DEF IInv, TasksTypeOK, Here, Enable
<1>2. tasks' = [tasks EXCEPT ![id] = [@ EXCEPT !.enabled = TRUE, !.next = "later"]]
  BY <1>1 DEF Enable, Task, IInv, TasksTypeOK
<1> QED
  BY <1>2, ResetInv DEF Enable

LEMMA DisableInv ==
    ASSUME IInv, NEW id \in Ids, Disable(id)
    PROVE  IInv'
<1>1. tasks[id] \in Task
  BY Entries DEF IInv, TasksTypeOK, Here, Disable
<1>2. tasks' = [tasks EXCEPT ![id] = [@ EXCEPT !.enabled = FALSE, !.next = "none"]]
  BY <1>1 DEF Disable, Task, IInv, TasksTypeOK
<1> QED
  BY <1>2, ResetInv DEF Disable

LEMMA TimePassesInv ==
    ASSUME IInv, NEW id \in Ids, TimePasses(id)
    PROVE  IInv'
<1> DEFINE e == tasks[id].enabled
<1>1. tasks[id] \in Task
  BY Entries DEF IInv, TasksTypeOK, Here, TimePasses
<1>2. /\ e \in BOOLEAN
      /\ tasks' = [tasks EXCEPT ![id] = [@ EXCEPT !.enabled = e, !.next = "due"]]
  BY <1>1 DEF TimePasses, Task, IInv, TasksTypeOK
<1> QED
  BY <1>2, ResetInv DEF TimePasses

LEMMA CollectInv ==
    ASSUME IInv, Collect
    PROVE  IInv'
<1>1. ASSUME NEW j \in Ids PROVE Fresh(j)' /\ Counted(j)' /\ Stopped(j)'
  BY Entries DEF IInv, TasksTypeOK, Fresh, Counted, Stopped, Here, Collect, IsDue
<1>2. TasksTypeOK'
  BY DEF IInv, TasksTypeOK, Here, Collect
<1> QED
  BY <1>1, <1>2 DEF IInv

(* The firing that begins is for a task of the table. *)
LEMMA BegunFiring ==
    ASSUME IInv, NEW id \in Ids, Here(id), NEW r \in Runners, Begun(r, id)
    PROVE  /\ run' \in [Runners -> Firing \cup {Idle}]
           /\ \A q \in Runners : run'[q] # Idle =>
                 IF q = r THEN run'[q].id = id ELSE run'[q] = run[q]
           /\ tasks[id] # Unborn
<1> DEFINE f == [at |-> "injecting", id |-> id, task |-> tasks[id]]
<1>1. tasks[id] \in Task /\ tasks[id] # Unborn
  BY Entries DEF IInv, TasksTypeOK, Here
<1>2. f \in Firing /\ f.id = id
  BY <1>1 DEF Firing
<1>3. run' = [run EXCEPT ![r] = f]
  BY DEF Begun
<1> HIDE DEF f
<1> QED
  BY <1>1, <1>2, <1>3 DEF IInv, TasksTypeOK

LEMMA FireInv ==
    ASSUME IInv, NEW id \in Ids, Fire(id)
    PROVE  IInv'
<1>1. CASE Here(id)
  <2>1. Begun(Tick, id) /\ Tick \in Runners
    BY <1>1 DEF Fire
  <2>2. /\ run' \in [Runners -> Firing \cup {Idle}]
        /\ \A q \in Runners : run'[q] # Idle =>
              IF q = Tick THEN run'[q].id = id ELSE run'[q] = run[q]
        /\ tasks[id] # Unborn
    BY <1>1, <2>1, BegunFiring
  <2>3. TasksTypeOK'
    BY <1>1, <2>2 DEF IInv, TasksTypeOK, Here, Fire
  <2>4. ASSUME NEW j \in Ids PROVE Fresh(j)' /\ Counted(j)' /\ Stopped(j)'
    BY <1>1, <2>2 DEF IInv, TasksTypeOK, Fresh, Counted, Stopped, Here, Fire
  <2> QED
    BY <2>3, <2>4 DEF IInv
<1>2. CASE ~Here(id)
  <2>1. TasksTypeOK'
    BY <1>2 DEF IInv, TasksTypeOK, Here, Fire
  <2>2. ASSUME NEW j \in Ids PROVE Fresh(j)' /\ Counted(j)' /\ Stopped(j)'
    BY <1>2 DEF IInv, TasksTypeOK, Fresh, Counted, Stopped, Here, Fire
  <2> QED
    BY <2>1, <2>2 DEF IInv
<1> QED
  BY <1>1, <1>2

LEMMA TriggerInv ==
    ASSUME IInv, NEW r \in Triggers, NEW id \in Ids, Trigger(r, id)
    PROVE  IInv'
<1>1. Begun(r, id) /\ r \in Runners /\ Here(id)
  BY DEF Trigger
<1>2. /\ run' \in [Runners -> Firing \cup {Idle}]
      /\ \A q \in Runners : run'[q] # Idle =>
            IF q = r THEN run'[q].id = id ELSE run'[q] = run[q]
      /\ tasks[id] # Unborn
  BY <1>1, BegunFiring
<1>3. TasksTypeOK'
  BY <1>2 DEF IInv, TasksTypeOK, Here, Trigger
<1>4. ASSUME NEW j \in Ids PROVE Fresh(j)' /\ Counted(j)' /\ Stopped(j)'
  BY <1>2 DEF IInv, TasksTypeOK, Fresh, Counted, Stopped, Here, Trigger
<1> QED
  BY <1>3, <1>4 DEF IInv

(* A task with one more firing on its count. *)
LEMMA CountedTo ==
    ASSUME NEW t \in Task, NEW c \in Nat
    PROVE  /\ [t EXCEPT !.count = c, !.next = "later"] \in Task
           /\ [t EXCEPT !.count = c, !.next = "later"].state = "here"
           /\ [t EXCEPT !.count = c, !.next = "later"].enabled = t.enabled
           /\ [t EXCEPT !.count = c, !.next = "later"].count = c
           /\ [t EXCEPT !.count = c, !.next = "later"].next = "later"
BY DEF Task

LEMMA CountedUp ==
    ASSUME NEW t \in Task
    PROVE  LET u == [t EXCEPT !.count = @ + 1, !.next = "later"]
           IN  /\ u \in Task /\ u.state = "here" /\ u.enabled = t.enabled
               /\ u.count = t.count + 1 /\ u.next = "later"
<1>1. t.count + 1 \in Nat
  BY DEF Task
<1> QED
  BY <1>1, CountedTo

LEMMA UpdateInv ==
    ASSUME IInv, NEW r \in Runners, Update(r)
    PROVE  IInv'
<1> DEFINE f == run[r]
           g == [f EXCEPT !.at = "updated"]
<1>1. /\ f \in Firing /\ f # Idle /\ f.id \in Ids
      /\ g \in Firing /\ g.id = f.id
      /\ run' = [run EXCEPT ![r] = g]
      /\ tasks' = Updated(f)
      /\ ended' = [ended EXCEPT ![f.id] = @ + 1]
      /\ UNCHANGED <<due, after>>
  <2>1. f \in Firing /\ f # Idle /\ f.id \in Ids
    BY Firings DEF Update, IInv, TasksTypeOK
  <2>2. g \in Firing /\ g.id = f.id
    BY <2>1 DEF Firing
  <2> QED
    BY <2>1, <2>2 DEF Update
<1> HIDE DEF g
<1>2. /\ run' \in [Runners -> Firing \cup {Idle}]
      /\ \A q \in Runners : run'[q] # Idle => run[q] # Idle /\ run'[q].id = run[q].id
      /\ tasks[f.id] # Unborn
  BY <1>1 DEF IInv, TasksTypeOK, Fresh
<1> HIDE DEF f
<1>3. CASE ~Here(f.id)
  <2>1. tasks' = tasks
    BY <1>1, <1>3 DEF Updated
  <2>2. TasksTypeOK'
    BY <1>1, <1>2, <2>1 DEF IInv, TasksTypeOK, Here
  <2>3. ASSUME NEW j \in Ids PROVE Fresh(j)' /\ Counted(j)' /\ Stopped(j)'
    BY <1>1, <1>2, <1>3, <2>1 DEF IInv, TasksTypeOK, Fresh, Counted, Stopped, Here
  <2> QED
    BY <2>2, <2>3 DEF IInv
<1>4. CASE Here(f.id)
  <2> DEFINE t == tasks[f.id]
             u == [t EXCEPT !.count = @ + 1, !.next = "later"]
  <2>1. t \in Task
    BY <1>1, <1>4, Entries DEF IInv, TasksTypeOK, Here
  <2>2. /\ u \in Task /\ u.state = "here" /\ u.enabled = t.enabled
        /\ u.count = t.count + 1 /\ u.next = "later"
    BY <2>1, CountedUp
  <2>3. u # Unborn
    BY <2>2, Entries
  <2>4. tasks' = [tasks EXCEPT ![f.id] = u]
    BY <1>1, <1>4, <2>1 DEF Updated, IInv, TasksTypeOK, Task
  <2> HIDE DEF u
  <2>5. TasksTypeOK'
    BY <1>1, <1>2, <2>2, <2>4 DEF IInv, TasksTypeOK, Here
  <2>6. ASSUME NEW j \in Ids PROVE Fresh(j)' /\ Counted(j)' /\ Stopped(j)'
    BY <1>1, <1>2, <1>4, <2>2, <2>3, <2>4
       DEF IInv, TasksTypeOK, Fresh, Counted, Stopped, Here
  <2> QED
    BY <2>5, <2>6 DEF IInv
<1> QED
  BY <1>3, <1>4

LEMMA FinishInv ==
    ASSUME IInv, NEW r \in Runners, Finish(r)
    PROVE  IInv'
<1> DEFINE f == run[r]
<1>1. f \in Firing /\ f.id \in Ids /\ f # Idle
  BY Firings DEF Finish, IInv, TasksTypeOK
<1>2. /\ run' = [run EXCEPT ![r] = Idle]
      /\ UNCHANGED <<due, ended, after>>
      /\ tasks' = tasks \/ tasks' = [tasks EXCEPT ![f.id] = Gone]
  BY DEF Finish, Removed
<1>3. /\ run' \in [Runners -> Firing \cup {Idle}]
      /\ \A q \in Runners : run'[q] # Idle => run'[q] = run[q]
  BY <1>2 DEF IInv, TasksTypeOK
<1>4. Gone.state # "here" /\ Gone # Unborn
  BY Entries
<1>5. TasksTypeOK'
  BY <1>1, <1>2, <1>3, <1>4 DEF IInv, TasksTypeOK, Here
<1>6. ASSUME NEW j \in Ids PROVE Fresh(j)' /\ Counted(j)' /\ Stopped(j)'
  BY <1>1, <1>2, <1>3, <1>4 DEF IInv, TasksTypeOK, Fresh, Counted, Stopped, Here
<1> QED
  BY <1>5, <1>6 DEF IInv

LEMMA RebootInv ==
    ASSUME IInv, Reboot
    PROVE  IInv'
<1>1. \A j \in Ids :
         /\ tasks'[j] \in Task \cup {Unborn, Gone}
         /\ tasks'[j].state = tasks[j].state
         /\ tasks'[j] = Unborn => tasks[j] = Unborn
         /\ Here(j) => /\ tasks'[j].enabled = tasks[j].enabled
                       /\ tasks'[j].count = tasks[j].count
                       /\ tasks[j].enabled => tasks'[j].next = "later"
                       /\ ~tasks[j].enabled => tasks'[j] = tasks[j]
  <2> SUFFICES ASSUME NEW j \in Ids
               PROVE  /\ tasks'[j] \in Task \cup {Unborn, Gone}
                      /\ tasks'[j].state = tasks[j].state
                      /\ tasks'[j] = Unborn => tasks[j] = Unborn
                      /\ Here(j) => /\ tasks'[j].enabled = tasks[j].enabled
                                    /\ tasks'[j].count = tasks[j].count
                                    /\ tasks[j].enabled => tasks'[j].next = "later"
                                    /\ ~tasks[j].enabled => tasks'[j] = tasks[j]
    OBVIOUS
  <2>1. CASE Here(j) /\ tasks[j].enabled
    <3>1. tasks[j] \in Task
      BY <2>1, Entries DEF IInv, TasksTypeOK, Here
    <3>2. tasks'[j] = [tasks[j] EXCEPT !.next = "later"]
      BY <2>1 DEF Reboot
    <3>3. /\ tasks'[j] \in Task /\ tasks'[j].state = "here"
          /\ tasks'[j].enabled = tasks[j].enabled
          /\ tasks'[j].count = tasks[j].count /\ tasks'[j].next = "later"
      BY <3>1, <3>2 DEF Task
    <3>4. tasks'[j] # Unborn
      BY <3>3, Entries
    <3> QED
      BY <2>1, <3>3, <3>4 DEF Here
  <2>2. CASE ~(Here(j) /\ tasks[j].enabled)
    <3>1. tasks'[j] = tasks[j]
      BY <2>2 DEF Reboot
    <3> QED
      BY <2>2, <3>1 DEF IInv, TasksTypeOK
  <2> QED
    BY <2>1, <2>2
<1>2. tasks' \in [Ids -> Task \cup {Unborn, Gone}]
  BY <1>1 DEF Reboot
<1>3. run' \in [Runners -> Firing \cup {Idle}] /\ \A q \in Runners : run'[q] = Idle
  BY DEF Reboot
<1>4. TasksTypeOK'
  BY <1>1, <1>2, <1>3 DEF IInv, TasksTypeOK, Here, Reboot
<1>5. ASSUME NEW j \in Ids PROVE Fresh(j)' /\ Counted(j)' /\ Stopped(j)'
  BY <1>1, <1>3 DEF IInv, TasksTypeOK, Fresh, Counted, Stopped, Here, Reboot
<1> QED
  BY <1>4, <1>5 DEF IInv

LEMMA NextInv == IInv /\ [Next]_vars => IInv'
<1> SUFFICES ASSUME IInv, [Next]_vars PROVE IInv'
  OBVIOUS
<1>1. CASE UNCHANGED vars
  BY <1>1 DEF vars, IInv, TasksTypeOK, Fresh, Counted, Stopped, Here
<1>2. CASE Next
  BY <1>2, CreateInv, DeleteInv, EnableInv, DisableInv, TimePassesInv, FireInv, TriggerInv,
     CollectInv, UpdateInv, FinishInv, RebootInv DEF Next
<1> QED
  BY <1>1, <1>2

LEMMA Invariant == Spec => []IInv
  BY InitInv, NextInv, PTL DEF Spec

-----------------------------------------------------------------------------
(* The table, the list of the tick and the firings are well formed, and an *)
(* enabled task always has a next run (compute_next_run, update_task).     *)
THEOREM TasksTypes == Spec => []TasksTypeOK
<1>1. IInv => TasksTypeOK
  BY DEF IInv
<1> QED
  BY <1>1, Invariant, PTL

(* run_count is the number of firings that ended, however many run at once *)
(* (update_task).                                                          *)
THEOREM TasksCounted == Spec => []CountsRuns
<1>1. IInv => CountsRuns
  BY DEF IInv, CountsRuns, Counted
<1> QED
  BY <1>1, Invariant, PTL

(* A disabled task is fired by the scheduler at most once more (tick).     *)
THEOREM TasksDisabled == Spec => []DisabledStops
<1>1. IInv => DisabledStops
  BY DEF IInv, DisabledStops, Stopped
<1> QED
  BY <1>1, Invariant, PTL

(* A deleted task neither comes back nor begins a firing (update_task,     *)
(* execute_task).                                                          *)
THEOREM TasksGone == Spec => GoneStaysGone
<1> DEFINE Step == \A id \in Ids : tasks[id] = Gone =>
              /\ tasks'[id] = Gone
              /\ \A r \in Runners : run'[r] # Idle /\ run[r] = Idle => run'[r].id # id
<1>1. ASSUME IInv, [Next]_vars PROVE [Step]_vars
  <2> SUFFICES ASSUME Next, NEW id \in Ids, tasks[id] = Gone
               PROVE  /\ tasks'[id] = Gone
                      /\ \A r \in Runners :
                            run'[r] # Idle /\ run[r] = Idle => run'[r].id # id
    BY <1>1
  <2>1. ~Here(id) /\ tasks[id] # Unborn
    BY Entries DEF Here
  <2>2. CASE \E j \in Ids : \/ \E once \in BOOLEAN : Create(j, once)
                            \/ Delete(j) \/ Enable(j) \/ Disable(j) \/ TimePasses(j)
    <3> PICK j \in Ids : \/ \E once \in BOOLEAN : Create(j, once)
                         \/ Delete(j) \/ Enable(j) \/ Disable(j) \/ TimePasses(j)
      BY <2>2
    <3>1. UNCHANGED run /\ (Here(j) \/ tasks[j] = Unborn)
      BY DEF Create, Delete, Enable, Disable, TimePasses
    <3>2. j # id
      BY <2>1, <3>1
    <3>3. tasks'[id] = tasks[id]
      BY <3>2, <1>1 DEF Create, Delete, Enable, Disable, TimePasses, Removed, IInv, TasksTypeOK
    <3> QED
      BY <3>1, <3>3
  <2>3. CASE \E j \in Ids : Fire(j) \/ \E q \in Triggers : Trigger(q, j)
    <3> PICK j \in Ids, q \in Runners : (Here(j) /\ Begun(q, j)) \/ UNCHANGED run
      BY <2>3 DEF Fire, Trigger
    <3>1. tasks' = tasks
      BY <2>3 DEF Fire, Trigger
    <3>2. CASE UNCHANGED run
      BY <2>1, <3>1, <3>2
    <3>3. CASE Here(j) /\ Begun(q, j)
      BY <2>1, <3>1, <3>3, BegunFiring, <1>1
    <3> QED
      BY <3>2, <3>3
  <2>4. CASE Collect
    BY <2>1, <2>4 DEF Collect
  <2>5. CASE \E q \in Runners : Update(q) \/ Finish(q)
    <3> PICK q \in Runners : Update(q) \/ Finish(q)
      BY <2>5
    <3>1. run[q] \in Firing /\ run[q].id \in Ids /\ run[q] # Idle
      BY <1>1, Firings DEF Update, Finish, IInv, TasksTypeOK
    <3>2. \A r \in Runners : r # q => run'[r] = run[r]
      BY <1>1 DEF Update, Finish, IInv, TasksTypeOK
    <3>3. tasks'[id] = Gone
      BY <1>1, <2>1, <3>1 DEF Update, Finish, Updated, Removed, IInv, TasksTypeOK
    <3> QED
      BY <3>1, <3>2, <3>3
  <2>6. CASE Reboot
    BY <2>1, <2>6 DEF Reboot
  <2> QED
    BY <2>2, <2>3, <2>4, <2>5, <2>6 DEF Next
<1> HIDE DEF Step
<1>2. Spec => [][Step]_vars
  BY <1>1, Invariant, PTL DEF Spec
<1> QED
  BY <1>2 DEF GoneStaysGone, Step
=============================================================================
