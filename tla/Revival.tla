-------------------------------- MODULE Revival --------------------------------
(***************************************************************************)
(* The scheduled tasks among the flows: what a firing does to the session  *)
(* it is for (scheduler.rs, execute_injection).  It prompts a session that *)
(* is alive, respawns its pane for a conversation of its own, revives a    *)
(* session whose pane is dead, or starts one that is missing, side by side *)
(* with the starts, restarts and kills of module Flows.                    *)
(*                                                                         *)
(* Which task fires, and when, is module Tasks; here any task may fire for *)
(* any session at any time: the scheduler's tick fires one at a time, but  *)
(* a task triggered over the API fires in its own request.  The backends   *)
(* are those driven in their panes.                                        *)
(***************************************************************************)
EXTENDS Flows

(* A firing for an ID with a row: tok is the owner that was read, oldPane  *)
(* its pane; for one without: tok is the owner it reserved, target 0.      *)
Task(w, at) == At(w, "task", at)
Owner(f)    == IF f.target = 0 THEN f.tok ELSE f.target

(* task_pane_alive: a backend is among the processes of the pane *)
Alive(pane) == Running(pane) /\ pane \in ran

-----------------------------------------------------------------------------
(* execute_injection: the row is read, the pane of that row is looked at.  *)

TaskRead(w, id) ==
    LET row == sessions[id]
    IN  /\ Registry /\ Outside
        /\ Begin(w, [Idle EXCEPT !.flow = "task", !.id = id,
                                 !.tok = row.inc, !.oldPane = row.pane,
                                 !.at = IF ~Live(id) THEN "reserve"
                                        ELSE IF row.pane = None THEN "claim" ELSE "probe"])

(* A pane that tmux or ps could not be asked about counts as dead. *)
TaskProbe(w) ==
    /\ Task(w, "probe")
    /\ Registry /\ Outside
    /\ \/ Alive(work[w].oldPane) /\ Goto(w, "recheck")
       \/ Goto(w, "claim")

(* scheduled_snapshot_is_current; a firing that does not replace the       *)
(* conversation just types its prompt                                      *)
TaskRecheck(w) ==
    LET f   == work[w]
        row == sessions[f.id]
    IN  /\ Task(w, "recheck")
        /\ Registry /\ Outside
        /\ \/ /\ row.inc = f.tok /\ row.pane = f.oldPane
              /\ work' = [work EXCEPT ![w] = [@ EXCEPT !.at = "claimPane", !.pane = f.oldPane]]
           \/ End(w)

(* claim_scheduled_existing_owner, before a revival and before a respawn *)
TaskClaim(w) ==
    LET f == work[w]
    IN  /\ Task(w, "claim") \/ Task(w, "claimPane")
        /\ Try(ClaimExistingStart(f.id, f.tok),
               Goto(w, IF f.at = "claim" THEN "stage" ELSE "stagePane"), End(w))

(* stage_claimed_scheduled_existing_launch: a respawn always replaces the  *)
(* backend's session, a revival unless it resumes one                      *)
TaskStage(w) ==
    LET f == work[w]
    IN  /\ Task(w, "stage") \/ Task(w, "stagePane")
        /\ Free(f.id, f.pane)
        /\ \E renew \in IF f.at = "stage" THEN BOOLEAN ELSE {TRUE} :
              Try(StageRestartLaunch(f.id, f.tok, renew, renew),
                  work' = [work EXCEPT ![w] =
                     [@ EXCEPT !.target = NextInc,
                               !.at = IF f.at = "stage" THEN "dir" ELSE "custody"]],
                  Goto(w, "release"))

-----------------------------------------------------------------------------
(* respawn_and_inject: the pane of the row gets a new backend.             *)

(* complete_restart_launch, with the session the backend reports *)
TaskCompletion(f) ==
    \E sid \in CompletionSids(f.id) :
        CompleteRestartLaunch(f.id, f.tok, f.target, sid, leases[f.id].dir)

TaskCustody(w) ==
    LET f == work[w]
    IN  /\ Task(w, "custody")
        /\ ~Gated(f.pane)
        /\ Try(RecordInertStartPane(f.id, f.tok, f.pane), Goto(w, "respawn"), Goto(w, "rollback"))

(* faulty: the new process exports the incarnation it replaces *)
TaskRespawnOldEnv(w) ==
    LET f == work[w]
    IN  /\ Task(w, "respawn")
        /\ ~Gated(f.pane)
        /\ Registry
        /\ UNCHANGED turn
        /\ \/ /\ PaneClaimed(f.id, f.target, f.pane) /\ Running(f.pane)
              /\ SetProc(f.pane, f.tok)
              /\ UNCHANGED ran
              /\ Goto(w, "finish") \/ Goto(w, "discard")
           \/ UNCHANGED <<proc, ran>> /\ Goto(w, "discard")

(* respawn-pane -k under with_owned_pane_claim, whatever runs in the pane; *)
(* a failing command may have got as far as the new process                *)
TaskRespawn(w) ==
    LET f == work[w]
    IN  /\ Task(w, "respawn")
        /\ ~Gated(f.pane)
        /\ Registry
        /\ UNCHANGED turn
        /\ \/ /\ PaneClaimed(f.id, f.target, f.pane) /\ Running(f.pane)
              /\ SetProc(f.pane, f.target)
              /\ UNCHANGED ran
              /\ Goto(w, "finish") \/ Goto(w, "discard")
           \/ UNCHANGED <<proc, ran>> /\ Goto(w, "discard")

(* A backend that does not come up in time is only warned about. *)
TaskFinish(w) ==
    LET f == work[w]
    IN  /\ Task(w, "finish")
        /\ Free(f.id, f.pane)
        /\ Try(TaskCompletion(f), End(w), End(w))

-----------------------------------------------------------------------------
(* revive_and_inject: a new pane for a dead session, or for a new one.     *)

TaskReserve(w) ==
    LET f == work[w]
    IN  /\ Task(w, "reserve")
        /\ Try(ReserveStart(f.id),
               work' = [work EXCEPT ![w] = [@ EXCEPT !.tok = NextInc, !.at = "dir"]], End(w))

(* with_reserved_project_dir_claim, in which the pane is created *)
TaskDir(w) ==
    LET f == work[w]
    IN  /\ Task(w, "dir")
        /\ Try(\E dir \in Dirs : RecordProjectDirClaim(f.id, f.tok, dir),
               Goto(w, "create"), Goto(w, "paneless"))

TaskCreate(w) ==
    LET f == work[w]
    IN  /\ Task(w, "create")
        /\ Registry
        /\ NewPane(w, Owner(f), "record") \/ (Outside /\ Goto(w, "paneless"))

TaskRecord(w) ==
    LET f == work[w]
    IN  /\ Task(w, "record")
        /\ ~Gated(f.pane)
        /\ Try(RecordInertStartPane(f.id, f.tok, f.pane),
               Goto(w, IF f.target = 0 THEN "commit" ELSE "authority"), Goto(w, "discard"))

TaskCommit(w) ==
    LET f == work[w]
    IN  /\ Task(w, "commit")
        /\ Free(f.id, f.pane)
        /\ Try(\E dir \in Dirs : CommitReservedStart(f.id, f.tok, dir, f.tok),
               Goto(w, "authority"), Goto(w, "discard"))

(* registered_authority.  When the launch credential cannot be written to  *)
(* disk (with_session_start_hook), the firing returns as it is.            *)
TaskAuthority(w) ==
    LET f == work[w]
    IN  /\ Task(w, "authority")
        /\ Registry /\ Outside
        /\ IF IF f.target = 0 THEN sessions[f.id].inc = f.tok /\ sessions[f.id].pane = f.pane
              ELSE /\ TargetCurrent(f)
                   /\ leases[f.id].pane = f.pane /\ leases[f.id].paneOwner = f.target
           THEN Goto(w, "type") \/ End(w)
           ELSE Goto(w, "discard")

(* The shell is respawned with the environment of the registered owner,    *)
(* which it had from the start, and the command is typed into it, each     *)
(* under with_owned_pane_claim.                                            *)
TaskType(w) ==
    LET f == work[w]
    IN  /\ Task(w, "type")
        /\ ~Gated(f.pane)
        /\ Registry
        /\ UNCHANGED <<proc, turn>>
        /\ \/ /\ PaneClaimed(f.id, Owner(f), f.pane) /\ Running(f.pane)
              /\ ran' = ran \cup {f.pane}
              /\ Goto(w, "ready")
           \/ UNCHANGED ran /\ Goto(w, "cleanup")

(* wait_for_process, then scheduled_launch_is_current *)
TaskReady(w) ==
    LET f == work[w]
    IN  /\ Task(w, "ready")
        /\ Registry /\ Outside
        /\ \/ Goto(w, "cleanup")                                \* not in time
           \/ /\ Running(f.pane)
              /\ IF sessions[f.id].inc = Owner(f) /\ PaneClaimed(f.id, Owner(f), f.pane)
                 THEN Goto(w, IF f.target = 0 THEN "release" ELSE "complete")
                 ELSE End(w)

TaskComplete(w) ==
    LET f == work[w]
    IN  /\ Task(w, "complete")
        /\ Free(f.id, f.pane)
        /\ Try(TaskCompletion(f), End(w), End(w))

-----------------------------------------------------------------------------
(* Failures.                                                               *)

(* faulty: the pane of a failed launch is left to itself *)
TaskDiscardKeepsPane(w) ==
    LET f == work[w]
    IN  /\ Task(w, "discard") \/ Task(w, "cleanup")
        /\ Registry /\ Outside
        /\ Goto(w, IF f.target # 0 THEN "rollback"
                   ELSE IF f.at = "cleanup" THEN "rollbackStart" ELSE "release")

(* remove_scheduled_pane_for_owners: the pane first, and nothing else if   *)
(* it survives.  A start that was committed must also lose its row.        *)
TaskDiscard(w) ==
    LET f == work[w]
    IN  /\ Task(w, "discard") \/ Task(w, "cleanup")
        /\ Drop(w, Owner(f),
                IF f.target # 0 THEN "rollback"
                ELSE IF f.at = "cleanup" THEN "rollbackStart" ELSE "release",
                End(w))

(* faulty: a firing whose pane cannot be created just returns *)
TaskPanelessReturns(w) ==
    /\ Task(w, "paneless")
    /\ Registry /\ Outside
    /\ End(w)

(* no pane came about *)
TaskPaneless(w) ==
    /\ Task(w, "paneless")
    /\ Registry /\ Outside
    /\ Goto(w, IF work[w].target # 0 THEN "rollback" ELSE "release")

(* rollback_restart_launch brings the incumbent back and ends the lease *)
TaskRollback(w) ==
    LET f == work[w]
    IN  /\ Task(w, "rollback")
        /\ Free(f.id, f.pane)
        /\ Try(RollbackRestartLaunch(f.id, f.tok, f.target), End(w), End(w))

(* rollback_reserved_scheduled_pane, after the pane *)
TaskRollbackStart(w) ==
    LET f == work[w]
    IN  /\ Task(w, "rollbackStart")
        /\ Free(f.id, f.pane)
        /\ Try(RollbackReservedStart(f.id, f.tok, f.pane), Goto(w, "release"), End(w))

-----------------------------------------------------------------------------
TaskStep(w) ==
    \/ TaskProbe(w) \/ TaskRecheck(w) \/ TaskClaim(w) \/ TaskStage(w)
    \/ TaskCustody(w) \/ TaskRespawn(w) \/ TaskFinish(w)
    \/ TaskReserve(w) \/ TaskDir(w) \/ TaskCreate(w) \/ TaskRecord(w) \/ TaskCommit(w)
    \/ TaskAuthority(w) \/ TaskType(w) \/ TaskReady(w) \/ TaskComplete(w)
    \/ TaskDiscard(w) \/ TaskPaneless(w) \/ TaskRollback(w) \/ TaskRollbackStart(w)

(* The flows in which a stop, a restart or a start of the API takes part *)
NextRevival ==
    \/ NextUnattended
    \/ /\ UNCHANGED <<http, stray>>
       /\ \E w \in Workers :
             \/ (\E id \in Ids : TaskRead(w, id)) /\ UNCHANGED holder
             \/ /\ TaskStep(w)
                /\ holder' = IF leases'[work[w].id] # NoLease /\ ~Leased(work[w].id)
                             THEN [holder EXCEPT ![work[w].id] = w] ELSE holder

RevivalInit == FlowsInit /\ ~http

(* What a claim relies on: the pane the row has now is dead. *)
Rechecked ==
    \A w \in Workers :
        Task(w, "claim") /\ work'[w].at = "stage" => ~Alive(sessions[work[w].id].pane)

(* The behaviours in which it is, and leases are released as in ExactSpec. *)
(* The code does not see to that: execute_injection looks again at the     *)
(* owner of a pane that it found alive, and not at one it found dead.      *)
RecheckedSpec == RevivalInit /\ [][NextRevival /\ Exact /\ Rechecked]_fvars
=============================================================================
