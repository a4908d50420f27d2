--------------------------------- MODULE Tasks ---------------------------------
(***************************************************************************)
(* The table of scheduled tasks, the scheduler's tick that fires those     *)
(* that are due, and the requests that create, delete, enable, disable and *)
(* trigger them meanwhile (scheduler.rs, the tasks of state.rs and api.rs). *)
(*                                                                         *)
(* A tick collects the IDs that are due under the lock of the table, then  *)
(* fires them one after the other; a firing takes as long as the session   *)
(* it is for needs to come up (module Revival), and works on a copy of its *)
(* task.  The table is written to disk with every change, and the writes   *)
(* succeed: what a restart of the daemon loads is the table as it was.     *)
(* A cron expression that never matches a date is left out.                *)
(***************************************************************************)
EXTENDS Naturals, FiniteSets

CONSTANTS
    Ids,        \* IDs of tasks: random numbers, not given twice
    Triggers,   \* requests that trigger a task
    Tick,       \* the scheduler
    MaxRuns     \* bound: a task with as many firings is not due or triggered again

ASSUME RunnersAssumption == Tick \notin Triggers

VARIABLES
    tasks,      \* the table: an ID is unborn, gone or has a task
    due,        \* what is left of the IDs the tick collected
    run,        \* runner -> the firing under way
    ended,      \* history: id -> the firings that came to their end
    after       \* history: id -> the scheduler's firings since the task was disabled

vars == <<tasks, due, run, ended, after>>

Runners == Triggers \cup {Tick}

Task == [state : {"here"}, enabled : BOOLEAN, next : {"none", "later", "due"},
         once : BOOLEAN, count : Nat]

Unborn == [state |-> "unborn"]
Gone   == [state |-> "gone"]

(* a firing holds the copy that was taken when it began *)
Firing == [at : {"injecting", "updated"}, id : Ids, task : Task]
Idle   == [at |-> "idle"]

Here(id) == tasks[id].state = "here"

Init == /\ tasks = [id \in Ids |-> Unborn]
        /\ due = {}
        /\ run = [r \in Runners |-> Idle]
        /\ ended = [id \in Ids |-> 0]
        /\ after = [id \in Ids |-> 0]

-----------------------------------------------------------------------------
(* The requests.                                                           *)

(* create_task, new_task: compute_next_run finds a time in the future *)
Create(id, once) ==
    /\ tasks[id] = Unborn
    /\ tasks' = [tasks EXCEPT ![id] = [state |-> "here", enabled |-> TRUE, next |-> "later",
                                       once |-> once, count |-> 0]]
    /\ UNCHANGED <<due, run, ended, after>>

(* remove_task *)
Removed(id) == IF Here(id) THEN [tasks EXCEPT ![id] = Gone] ELSE tasks

Delete(id) ==
    /\ Here(id)
    /\ tasks' = Removed(id)
    /\ UNCHANGED <<due, run, ended, after>>

(* faulty: the next run is left to the next start of the daemon *)
EnableKeepsNext(id) ==
    /\ Here(id)
    /\ tasks' = [tasks EXCEPT ![id].enabled = TRUE]
    /\ after' = [after EXCEPT ![id] = 0]
    /\ UNCHANGED <<due, run, ended>>

(* enable_task, disable_task: a task that is gone by then is left alone *)
Enable(id) ==
    /\ Here(id)
    /\ tasks' = [tasks EXCEPT ![id].enabled = TRUE, ![id].next = "later"]
    /\ after' = [after EXCEPT ![id] = 0]
    /\ UNCHANGED <<due, run, ended>>

Disable(id) ==
    /\ Here(id)
    /\ tasks' = [tasks EXCEPT ![id].enabled = FALSE, ![id].next = "none"]
    /\ after' = [after EXCEPT ![id] = 0]
    /\ UNCHANGED <<due, run, ended>>

-----------------------------------------------------------------------------
(* The tick.                                                               *)

(* the time of a task comes; next_run is compared with the clock *)
TimePasses(id) ==
    /\ Here(id) /\ tasks[id].next = "later"
    /\ ended[id] < MaxRuns
    /\ tasks' = [tasks EXCEPT ![id].next = "due"]
    /\ UNCHANGED <<due, run, ended, after>>

(* faulty: next_run alone says what is due *)
DueIgnoringEnabled(id) == Here(id) /\ tasks[id].next = "due"

IsDue(id) == Here(id) /\ tasks[id].enabled /\ tasks[id].next = "due"

(* the next tick, when everything the last one collected has been fired *)
Collect ==
    /\ due = {} /\ run[Tick] = Idle
    /\ due' = {id \in Ids : IsDue(id)}
    /\ due' # {}
    /\ UNCHANGED <<tasks, run, ended, after>>

-----------------------------------------------------------------------------
(* execute_task.                                                           *)

Begun(r, id) ==
    run' = [run EXCEPT ![r] = [at |-> "injecting", id |-> id, task |-> tasks[id]]]

(* faulty: the ID of a deleted task is not taken off the list *)
FireKeepsGone(id) ==
    /\ run[Tick] = Idle
    /\ id \in due /\ Here(id)
    /\ due' = due \ {id}
    /\ Begun(Tick, id)
    /\ after' = [after EXCEPT ![id] = IF tasks[id].enabled THEN @ ELSE @ + 1]
    /\ UNCHANGED <<tasks, ended>>

(* an ID of the tick that has been deleted since is passed over *)
Fire(id) ==
    /\ run[Tick] = Idle
    /\ id \in due
    /\ due' = due \ {id}
    /\ IF Here(id)
       THEN /\ Begun(Tick, id)
            /\ after' = [after EXCEPT ![id] = IF tasks[id].enabled THEN @ ELSE @ + 1]
       ELSE UNCHANGED <<run, after>>
    /\ UNCHANGED <<tasks, ended>>

(* trigger_task, of a disabled task too *)
Trigger(r, id) ==
    /\ run[r] = Idle
    /\ Here(id) /\ ended[id] < MaxRuns
    /\ Begun(r, id)
    /\ UNCHANGED <<tasks, due, ended, after>>

(* faulty: the copy is counted up and written back *)
UpdatedCopy(f) ==
    IF Here(f.id)
    THEN [tasks EXCEPT ![f.id].count = f.task.count + 1, ![f.id].next = "later"]
    ELSE tasks

(* faulty: the task is written back whether it is still there or not *)
UpdatedAnyway(f) ==
    [tasks EXCEPT ![f.id] = [(IF Here(f.id) THEN @ ELSE f.task) EXCEPT !.count = @ + 1,
                                                                       !.next = "later"]]

(* update_task: a task that has been deleted meanwhile stays deleted; one  *)
(* that has been disabled stays disabled, but gets a next run again        *)
Updated(f) ==
    IF Here(f.id)
    THEN [tasks EXCEPT ![f.id].count = @ + 1, ![f.id].next = "later"]
    ELSE tasks

Update(r) ==
    LET f == run[r]
    IN  /\ f.at = "injecting"
        /\ tasks' = Updated(f)
        /\ ended' = [ended EXCEPT ![f.id] = @ + 1]
        /\ run' = [run EXCEPT ![r].at = "updated"]
        /\ UNCHANGED <<due, after>>

(* log_task_run; a task that was to fire once is deleted *)
Finish(r) ==
    LET f == run[r]
    IN  /\ f.at = "updated"
        /\ tasks' = IF f.task.once THEN Removed(f.id) ELSE tasks
        /\ run' = [run EXCEPT ![r] = Idle]
        /\ UNCHANGED <<due, ended, after>>

(* The daemon restarts: recompute_all_next_runs gives every enabled task a *)
(* new next run, whatever was missed.                                      *)
Reboot ==
    /\ tasks' = [id \in Ids |-> IF Here(id) /\ tasks[id].enabled
                                THEN [tasks[id] EXCEPT !.next = "later"] ELSE tasks[id]]
    /\ due' = {}
    /\ run' = [r \in Runners |-> Idle]
    /\ UNCHANGED <<ended, after>>

-----------------------------------------------------------------------------
Next ==
    \/ \E id \in Ids : \/ \E once \in BOOLEAN : Create(id, once)
                       \/ Delete(id) \/ Enable(id) \/ Disable(id)
                       \/ TimePasses(id) \/ Fire(id)
                       \/ \E r \in Triggers : Trigger(r, id)
    \/ Collect
    \/ \E r \in Runners : Update(r) \/ Finish(r)
    \/ Reboot

Spec == Init /\ [][Next]_vars

(* The scheduler's loop goes on, and every firing ends: the waits of a     *)
(* revival are bounded (REVIVAL_TIMEOUT_SECS, TUI_READY_TIMEOUT_SECS).     *)
FairSpec == /\ Spec
            /\ WF_vars(Collect)
            /\ \A id \in Ids : WF_vars(Fire(id))
            /\ \A r \in Runners : WF_vars(Update(r)) /\ WF_vars(Finish(r))

-----------------------------------------------------------------------------
(* Types; an enabled task always has a next run, or no tick would find it. *)
TasksTypeOK ==
    /\ tasks \in [Ids -> Task \cup {Unborn, Gone}]
    /\ due \subseteq Ids
    /\ run \in [Runners -> Firing \cup {Idle}]
    /\ ended \in [Ids -> Nat]
    /\ after \in [Ids -> Nat]
    /\ \A id \in Ids : Here(id) /\ tasks[id].enabled => tasks[id].next # "none"

(* Every firing that came to its end is counted (update_task), also when   *)
(* the tick and a trigger fire the same task at the same time, each with a *)
(* copy of its own.                                                        *)
CountsRuns == \A id \in Ids : Here(id) => tasks[id].count = ended[id]

(* A task that is disabled is fired by the scheduler at most once more,    *)
(* when the tick had collected it before: even though the end of a firing  *)
(* that was under way gives it a next run again (execute_task, tick).      *)
DisabledStops == \A id \in Ids : Here(id) => after[id] <= 1

(* A task that was deleted, by hand or after it fired once, neither comes  *)
(* back with a firing that outlives it nor begins another: not from the    *)
(* list of the tick, not by a trigger (update_task, execute_task).         *)
GoneStaysGone ==
    [][\A id \in Ids : tasks[id] = Gone =>
          /\ tasks'[id] = Gone
          /\ \A r \in Runners : run'[r] # Idle /\ run[r] = Idle => run'[r].id # id]_vars

(* The time of an enabled task does not pass without it: it is fired, or   *)
(* disabled, deleted, enabled anew or put off by a restart of the daemon,  *)
(* however long the tick's other tasks take (tick).                        *)
DueFires == \A id \in Ids : IsDue(id) ~> ~IsDue(id)
=============================================================================
