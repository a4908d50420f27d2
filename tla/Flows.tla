--------------------------------- MODULE Flows ---------------------------------
(***************************************************************************)
(* The flows that start, restart, stop and recover sessions, with the tmux *)
(* panes and the server-side turns they act on: nostr_transport.rs over    *)
(* the registry of module Lifecycle, and the restart of the daemon         *)
(* (main.rs).                                                              *)
(*                                                                         *)
(* A worker is a request or a background task, in at most one flow at a    *)
(* time.  A step of a flow is one critical section of the registry, one    *)
(* tmux command or one HTTP request; between two steps, at an await, the   *)
(* others act.  What a flow read (its owner, target, pane) may be stale    *)
(* when it goes on.                                                        *)
(*                                                                         *)
(* All sessions have one backend, chosen in the initial state: one driven  *)
(* in its pane (Claude Code, Codex), or one whose turns run in a server    *)
(* reached over HTTP (OpenCode).  Writing the registry to disk succeeds.   *)
(***************************************************************************)
EXTENDS Lifecycle

CONSTANT Workers    \* requests and tasks that run flows

VARIABLES
    work,   \* worker -> the flow it is in, Idle when in none
    proc,   \* pane -> the incarnation its process exports, or Gone, or Unborn
    ran,    \* the panes in which a backend was launched
    turn,   \* backend session -> whether it exists, and whether a turn runs
    http,   \* the backend is served over HTTP
    holder, \* history: id -> the worker whose flow took the lease of the ID last
    stray   \* history: pane -> what a failed respawn left in it, Gone if nothing

outside == <<proc, ran, turn>>
fvars   == <<sessions, dormant, leases, highWater, work, proc, ran, turn, http, holder, stray>>

Gone   == 0
Unborn == -1

(* A flow: what it does (start, restart, kill, recover, or task) and where *)
(* it stands, the owner it works for, the owner it staged, the pane and    *)
(* the backend session in its hands, those of the incumbent, and how a     *)
(* restart obtains its session: soft, create or resume                     *)
Idle == [flow |-> "idle", at |-> "idle", id |-> None, tok |-> 0, target |-> 0,
         pane |-> None, sid |-> None, oldPane |-> None, oldSid |-> None,
         mode |-> "create"]

FlowsInit == /\ Init
             /\ work = [w \in Workers |-> Idle]
             /\ proc = [p \in Panes |-> Unborn]
             /\ ran  = {}
             /\ turn = [s \in Sids |-> "unborn"]
             /\ http \in BOOLEAN
             /\ holder = [id \in Ids |-> None]
             /\ stray = [p \in Panes |-> Gone]

-----------------------------------------------------------------------------
(* The shape of a step.                                                    *)

At(w, flow, at) == work[w].flow = flow /\ work[w].at = at
Begin(w, f)     == work[w] = Idle /\ work' = [work EXCEPT ![w] = f]
Goto(w, at)     == work' = [work EXCEPT ![w].at = at]
End(w)          == work' = [work EXCEPT ![w] = Idle]

Registry == UNCHANGED vars      \* the step leaves the registry alone
Outside  == UNCHANGED outside   \* ... and tmux and the backend

(* A critical section of the registry is applied, or refused without effect *)
Try(Section, applied, refused) ==
    /\ Outside
    /\ \/ Section /\ applied
       \/ ~ENABLED Section /\ Registry /\ refused

(* ... likewise, where the condition of the section has a name *)
Attempt(may, Section, applied, refused) ==
    /\ Outside
    /\ \/ Section /\ applied
       \/ ~may /\ Registry /\ refused

SetProc(pane, inc) == proc' = [proc EXCEPT ![pane] = inc]
Running(pane)      == pane # None /\ proc[pane] > 0

(* A row of somebody else has the pane, or the backend session: the checks *)
(* of with_allowed_pane_cleanup and with_owned_backend_cleanup.            *)
PaneTaken(id, tok, pane) ==
    \E j \in Ids : sessions[j].pane = pane /\ ~(j = id /\ sessions[j].inc = tok)
SidTaken(id, tok, sid) ==
    \E j \in Ids : sessions[j].sid = sid /\ ~(j = id /\ sessions[j].inc = tok)

(* with_owned_pane_claim *)
PaneClaimed(id, tok, pane) ==
    \/ sessions[id].inc = tok /\ sessions[id].pane = pane
    \/ leases[id].pane = pane /\ leases[id].paneOwner = tok

(* faulty: a stop keeps the gate while it asks for it to remove the row *)
GatedThroughout(pane) ==
    \E w \in Workers :
        /\ At(w, "kill", "killing") \/ At(w, "kill", "removeRow")
        /\ work[w].pane = pane

(* Only a stop holds the gate of a pane over several steps, while it takes *)
(* the process down; whoever needs the gate waits.                         *)
Gated(pane)    == \E w \in Workers : At(w, "kill", "killing") /\ work[w].pane = pane
Free(id, pane) == ~Gated(pane) /\ ~Gated(sessions[id].pane)

(* tmux opens a new pane, with an ID never used before *)
NewPane(w, inc, at) ==
    \E p \in Panes : /\ proc[p] = Unborn
                     /\ SetProc(p, inc)
                     /\ work' = [work EXCEPT ![w] = [@ EXCEPT !.at = at, !.pane = p]]
                     /\ UNCHANGED <<ran, turn>>

(* remove_inert_start_pane and kill_owned_pane: a pane is killed if it is  *)
(* still the flow's own.  tmux may fail to.                                *)
Drop(w, inc, dropped, failed) ==
    LET f == work[w]
    IN  /\ Registry
        /\ ~Gated(f.pane)
        /\ UNCHANGED <<ran, turn>>
        /\ IF proc[f.pane] = inc /\ ~PaneTaken(f.id, inc, f.pane)
           THEN \/ SetProc(f.pane, Gone) /\ Goto(w, dropped)
                \/ UNCHANGED proc /\ failed
           ELSE UNCHANGED proc /\ Goto(w, dropped)

(* the end of a flow: abort_lifecycle with the owner the flow started from *)
Release(w) ==
    LET f == work[w]
    IN  /\ f.at = "release"
        /\ Attempt(LeasedBy(f.id, f.tok), AbortLifecycle(f.id, f.tok), End(w), End(w))

-----------------------------------------------------------------------------
(* Starts: start_session_with_prompt_storage.                              *)

StartReserve(w, id) ==
    /\ ReserveStart(id)
    /\ Begin(w, [Idle EXCEPT !.flow = "start", !.at = "dir", !.id = id, !.tok = NextInc])
    /\ Outside

(* the directory is claimed, then created *)
StartDir(w) ==
    LET f == work[w]
    IN  /\ At(w, "start", "dir")
        /\ Attempt(\E dir \in Dirs : MayClaimDir(f.id, f.tok, dir),
                   \E dir \in Dirs : RecordProjectDirClaim(f.id, f.tok, dir),
                   Goto(w, "create") \/ Goto(w, "release"),
                   End(w))

(* faulty: a start whose pane cannot be created just returns *)
StartCreateReturns(w) ==
    /\ At(w, "start", "create")
    /\ Registry
    /\ NewPane(w, work[w].tok, "record") \/ (Outside /\ End(w))

StartCreate(w) ==
    /\ At(w, "start", "create")
    /\ Registry
    /\ NewPane(w, work[w].tok, "record") \/ (Outside /\ Goto(w, "release"))

StartRecord(w) ==
    LET f == work[w]
    IN  /\ At(w, "start", "record")
        /\ ~Gated(f.pane)
        /\ Attempt(MayRecordPane(f.id, f.tok, f.pane),
                   RecordInertStartPane(f.id, f.tok, f.pane),
                   Goto(w, "commit"), Goto(w, "discard"))

StartCommit(w) ==
    LET f == work[w]
    IN  /\ At(w, "start", "commit")
        /\ Free(f.id, f.pane)
        /\ Try(\E dir \in Dirs : CommitReservedStart(f.id, f.tok, dir, IF http THEN 0 ELSE f.tok),
               Goto(w, "launch"), Goto(w, "discard"))

(* a start refused before anything runs: its pane goes, then its lease *)
StartDiscard(w) ==
    /\ At(w, "start", "discard")
    /\ Drop(w, work[w].tok, "release", End(w))

StartFinalize(w) ==
    LET f == work[w]
    IN  /\ At(w, "start", "finalize")
        /\ Free(f.id, f.pane)
        /\ Try(FinalizeReservedStart(f.id, f.tok, f.sid), Goto(w, "release"), End(w))

(* cleanup_reserved_start, after the launch of a committed start failed *)
StartCleanup(w) ==
    /\ At(w, "start", "cleanup")
    /\ Drop(w, work[w].tok, "rollbackStart", End(w))

StartRollback(w) ==
    LET f == work[w]
    IN  /\ At(w, "start", "rollbackStart")
        /\ Free(f.id, f.pane)
        /\ Try(RollbackReservedStart(f.id, f.tok, f.pane), Goto(w, "release"), End(w))

-----------------------------------------------------------------------------
(* The steps that starts and restarts share.                               *)

(* the command of the backend is typed into a new pane *)
Launch(w) ==
    LET f == work[w]
    IN  /\ f.at = "launch"
        /\ Registry
        /\ UNCHANGED <<proc, turn>>
        /\ \/ /\ ran' = IF Running(f.pane) THEN ran \cup {f.pane} ELSE ran
              /\ Goto(w, IF f.flow = "start"
                         THEN IF http THEN "make" ELSE "finalize"
                         ELSE IF http THEN "serve" ELSE "complete")
           \/ /\ UNCHANGED ran
              /\ Goto(w, IF f.flow = "start" THEN "cleanup" ELSE "rollback")

(* restart_target_is_current *)
TargetCurrent(f) == /\ leases[f.id].phase = "Restarting"
                    /\ leases[f.id].inc = f.tok /\ leases[f.id].target = f.target
                    /\ sessions[f.id].inc = f.target

(* POST /session; a restart first checks that it is still in office *)
Make(w) ==
    LET f == work[w]
    IN  /\ f.at = "make"
        /\ Registry
        /\ UNCHANGED <<proc, ran>>
        /\ \/ /\ f.flow = "start" \/ TargetCurrent(f)
              /\ \E s \in Sids :
                    /\ turn[s] = "unborn"
                    /\ turn' = [turn EXCEPT ![s] = "idle"]
                    /\ work' = [work EXCEPT ![w] =
                          [@ EXCEPT !.sid = s,
                                    !.at = IF f.flow = "start" THEN "attach" ELSE "claim"]]
           \/ UNCHANGED turn /\ Goto(w, "unmade")

Claim(w) ==
    LET f == work[w]
    IN  /\ At(w, "restart", "claim")
        /\ Try(RecordRestartBackendClaim(f.id, f.tok, f.target, f.sid),
               Goto(w, "attach"), Goto(w, "disown"))

(* The client is attached: a soft restart respawns the pane of the row for *)
(* it, without a look at the process that runs there; the other flows type *)
(* it into the pane they have just filled.                                 *)
Attach(w) ==
    LET f == work[w]
    IN  /\ f.at = "attach"
        /\ Registry
        /\ UNCHANGED turn
        /\ \/ /\ f.mode = "soft"
              /\ ~Gated(f.pane)
              /\ TargetCurrent(f) /\ PaneClaimed(f.id, f.target, f.pane) /\ Running(f.pane)
              /\ SetProc(f.pane, f.target)
              /\ ran' = ran \cup {f.pane}
              /\ Goto(w, "prompt") \/ Goto(w, "undo")
           \/ /\ f.mode # "soft" /\ Running(f.pane)
              /\ UNCHANGED <<proc, ran>>
              /\ Goto(w, IF f.flow = "start" THEN "finalize" ELSE "complete")
           \/ /\ UNCHANGED <<proc, ran>>
              /\ Goto(w, "undo")

(* DELETE /session: delete_owned_opencode_session, for a session that the  *)
(* lease does not know (disown), or for one it claims (undo).              *)
Undo(w) ==
    LET f     == work[w]
        owner == IF f.flow = "start" THEN f.tok ELSE f.target
    IN  /\ f.at \in {"disown", "undo"}
        /\ Registry
        /\ UNCHANGED <<proc, ran>>
        /\ \/ /\ ~SidTaken(f.id, owner, f.sid)
              /\ f.flow = "restart" /\ f.at = "undo" => TargetCurrent(f)
              /\ turn' = [turn EXCEPT ![f.sid] = "gone"]
              /\ Goto(w, IF f.flow = "restart" /\ f.at = "undo" THEN "clear" ELSE "unmade")
           \/ UNCHANGED turn /\ Goto(w, "unmade")

Clear(w) ==
    LET f == work[w]
    IN  /\ At(w, "restart", "clear")
        /\ Try(ClearRestartBackendClaim(f.id, f.tok, f.target, f.sid),
               Goto(w, "unmade"), Goto(w, "unmade"))

(* restart_backend_cleanup_pending *)
CleanupPending(f) == /\ leases[f.id].phase = "Restarting"
                     /\ leases[f.id].inc = f.tok /\ leases[f.id].target = f.target
                     /\ leases[f.id].sidOwner = f.target /\ leases[f.id].sid # None

(* No backend session came about.  A soft restart goes on as a hard one,   *)
(* unless the session it made is still to be deleted.                      *)
Unmade(w) ==
    LET f == work[w]
    IN  /\ f.at = "unmade"
        /\ Registry /\ Outside
        /\ work' = [work EXCEPT ![w] = [@ EXCEPT !.sid = None, !.mode = "create",
              !.at = IF f.flow = "start" THEN "cleanup"
                     ELSE IF CleanupPending(f) THEN "failed"
                     ELSE IF f.mode = "soft" THEN "inspect"
                     ELSE "rollback"]]

-----------------------------------------------------------------------------
(* Restarts: restart_session_with_prompt_controls, of a live session.      *)

RestartClaim(w, id) ==
    LET tok == sessions[id].inc
    IN  /\ ClaimExistingStart(id, tok)
        /\ Begin(w, [Idle EXCEPT !.flow = "restart", !.at = "snapshot", !.id = id, !.tok = tok])
        /\ Outside

(* the incumbent is copied, if it is still the one that was claimed *)
RestartSnapshot(w) ==
    LET f   == work[w]
        row == sessions[f.id]
    IN  /\ At(w, "restart", "snapshot")
        /\ Registry /\ Outside
        /\ work' = [work EXCEPT ![w] =
              IF Holds(f.id, "Restarting", f.tok) /\ row.inc = f.tok
              THEN [@ EXCEPT !.at = "stage", !.pane = row.pane,
                             !.oldPane = row.pane, !.oldSid = row.sid]
              ELSE [@ EXCEPT !.at = "release"]]

(* A restart renews the session of the backend when that is asked for, or  *)
(* when there is none to resume, neither in the row nor on disk.           *)
RestartStage(w) ==
    LET f == work[w]
    IN  /\ At(w, "restart", "stage")
        /\ Free(f.id, f.pane)
        /\ \E fresh \in BOOLEAN :
              \E renew \in IF fresh THEN {TRUE}
                           ELSE IF f.oldSid # None THEN {FALSE} ELSE {TRUE, http} :
                 Try(StageRestartLaunch(f.id, f.tok, renew, renew /\ ~http),
                     work' = [work EXCEPT ![w] =
                        [@ EXCEPT !.target = NextInc,
                                  !.at     = IF http /\ fresh THEN "custody" ELSE "inspect",
                                  !.mode   = IF http /\ fresh THEN "soft"
                                             ELSE IF fresh \/ f.oldSid = None THEN "create"
                                             ELSE "resume"]],
                     Goto(w, "release"))

(* classify_incumbent_pane *)
Inspect(w) ==
    LET f == work[w]
    IN  /\ At(w, "restart", "inspect")
        /\ Registry /\ Outside
        /\ \/ proc[f.pane] = Gone /\ Goto(w, "fallback")
           \/ proc[f.pane] \in {f.tok, f.target} /\ Goto(w, "custody")
           \/ proc[f.pane] \notin {Gone, f.tok, f.target} /\ Goto(w, "rollback")
           \/ Goto(w, "rollback")    \* tmux could not be asked

(* the pane of the row is recorded in the lease, before it is respawned *)
Custody(w) ==
    LET f == work[w]
    IN  /\ At(w, "restart", "custody")
        /\ ~Gated(f.pane)
        /\ Attempt(MayRecordPane(f.id, f.tok, f.pane),
                   RecordInertStartPane(f.id, f.tok, f.pane),
                   Goto(w, IF f.mode = "soft" THEN "make" ELSE "respawn"),
                   Goto(w, IF f.mode = "soft" THEN "unmade" ELSE "giveUp"))

(* faulty: the clean-up after a failed respawn knows the incumbent only *)
RespawnForgetsTarget(w) ==
    LET f == work[w]
    IN  /\ At(w, "restart", "respawn")
        /\ Registry
        /\ UNCHANGED turn
        /\ sessions[f.id].pane = f.pane => ~Gated(f.pane)
        /\ \/ /\ Running(f.pane)
              /\ SetProc(f.pane, f.target)
              /\ ran' = ran \cup {f.pane}
              /\ Goto(w, IF http THEN "serve" ELSE "complete") \/ Goto(w, "fallback")
           \/ /\ proc[f.pane] = f.tok
              /\ SetProc(f.pane, Gone)
              /\ UNCHANGED ran
              /\ Goto(w, "fallback")
           \/ UNCHANGED <<proc, ran>> /\ Goto(w, "rollback")

(* respawn-pane -k: a single blocking call, under the gate of the pane if  *)
(* the row still has it.  When it fails, it may have replaced the process  *)
(* or not, and the pane is killed if the incumbent or the target is in it. *)
(* When that cannot be found out, or the pane cannot be killed, the        *)
(* restart is rolled back over whatever is left there.                     *)
Respawn(w) ==
    LET f == work[w]
    IN  /\ At(w, "restart", "respawn")
        /\ Registry
        /\ UNCHANGED turn
        /\ sessions[f.id].pane = f.pane => ~Gated(f.pane)
        /\ \/ /\ Running(f.pane)
              /\ SetProc(f.pane, f.target)
              /\ ran' = ran \cup {f.pane}
              /\ Goto(w, IF http THEN "serve" ELSE "complete") \/ Goto(w, "rollback")
           \/ /\ SetProc(f.pane, Gone) \/ (proc[f.pane] \notin {f.tok, f.target} /\ UNCHANGED proc)
              /\ UNCHANGED ran
              /\ Goto(w, "fallback")
           \/ /\ SetProc(f.pane, Gone) \/ UNCHANGED proc
              /\ UNCHANGED ran
              /\ Goto(w, "rollback")

(* history: a restart that is rolled back leaves its target in the pane *)
Strays(w) ==
    LET f == work[w]
    IN  stray' = IF /\ At(w, "restart", "respawn") /\ work'[w].at = "rollback"
                    /\ proc'[f.pane] = f.target
                 THEN [stray EXCEPT ![f.pane] = f.target] ELSE stray

(* the fallback: a new window *)
Fallback(w) ==
    /\ At(w, "restart", "fallback")
    /\ Registry
    /\ \/ NewPane(w, work[w].target, "custodyNew")
       \/ Outside /\ Goto(w, "rollback")

CustodyNew(w) ==
    LET f == work[w]
    IN  /\ At(w, "restart", "custodyNew")
        /\ ~Gated(f.pane)
        /\ Attempt(MayRecordPane(f.id, f.tok, f.pane),
                   RecordInertStartPane(f.id, f.tok, f.pane),
                   Goto(w, "launch"), Goto(w, "dropNew"))

DropNew(w) ==
    /\ At(w, "restart", "dropNew")
    /\ Drop(w, work[w].target, "release", Goto(w, "release"))

(* A resumed session that still answers, and to which the client attaches, *)
(* is kept and stays unclaimed; otherwise a new one is made.               *)
Serve(w) ==
    LET f == work[w]
    IN  /\ At(w, "restart", "serve")
        /\ Registry /\ Outside
        /\ \/ f.mode = "resume" /\ turn[f.oldSid] \in {"idle", "busy"} /\ Goto(w, "complete")
           \/ Goto(w, "make")

(* The prompt of a soft restart.  When the server refuses it, the pane is  *)
(* handed back to the incumbent.                                           *)
Prompt(w) ==
    LET f == work[w]
    IN  /\ At(w, "restart", "prompt")
        /\ Registry
        /\ UNCHANGED ran
        /\ \/ Outside /\ Goto(w, "complete")                     \* there is none
           \/ /\ TargetCurrent(f)
              /\ turn' = [turn EXCEPT ![f.sid] = "busy"]
              /\ UNCHANGED proc
              /\ Goto(w, "complete")
           \/ /\ TargetCurrent(f) /\ f.oldSid # None
              /\ PaneClaimed(f.id, f.target, f.pane) /\ Running(f.pane) /\ ~Gated(f.pane)
              /\ SetProc(f.pane, f.tok)
              /\ UNCHANGED turn
              /\ Goto(w, "undo")
           \/ Outside /\ Goto(w, "undo")

RestartComplete(w) ==
    LET f    == work[w]
        sids == {sid \in CompletionSids(f.id) : f.sid # None => sid = f.sid}
        dir  == sessions[f.id].dir
    IN  /\ At(w, "restart", "complete")
        /\ Free(f.id, f.pane)
        /\ Attempt(\E sid \in sids : MayComplete(f.id, f.tok, f.target, sid, dir),
                   \E sid \in sids : CompleteRestartLaunch(f.id, f.tok, f.target, sid, dir),
                   Goto(w, "release"),
                   Goto(w, IF f.mode = "soft" THEN "undo" ELSE "release"))

(* rollback_claimed_restart.  After a refusal before the pane was touched  *)
(* (giveUp) the flow reports that it was superseded and releases its lease *)
(* in any case; a new pane is killed once the incumbent is back.           *)
Rollback(w) ==
    LET f    == work[w]
        next == IF f.at = "giveUp" THEN "release"
                ELSE IF f.pane # f.oldPane THEN "killProvisional" ELSE "failed"
        kept == IF f.at = "giveUp" THEN "release" ELSE "failed"
    IN  /\ f.flow = "restart" /\ f.at \in {"rollback", "giveUp"}
        /\ Free(f.id, f.pane)
        /\ IF CleanupPending(f)
           THEN Registry /\ Outside /\ Goto(w, kept)
           ELSE Try(RollbackRestartLaunch(f.id, f.tok, f.target), Goto(w, next), Goto(w, kept))

KillProvisional(w) ==
    /\ At(w, "restart", "killProvisional")
    /\ Drop(w, work[w].target, "failed", Goto(w, "failed"))

(* A failed restart keeps its lease when there is something left for the   *)
(* next start of the daemon to recover: restart_recovery_pending.          *)
RestartFailed(w) ==
    LET f == work[w]
    IN  /\ At(w, "restart", "failed")
        /\ Registry /\ Outside
        /\ IF /\ Holds(f.id, "Restarting", f.tok)
              /\ leases[f.id].pane # None \/ sessions[f.id].inc # f.tok
           THEN End(w)
           ELSE Goto(w, "release")

-----------------------------------------------------------------------------
(* Kills: kill_session_inner.                                              *)

(* owns_stopping_session *)
OwnsStopping(id, tok, pane) ==
    /\ Holds(id, "Stopping", tok)
    /\ leases[id].pane = pane /\ leases[id].paneOwner = tok
    /\ sessions[id].inc = tok /\ sessions[id].pane = pane

KillClaim(w, id) ==
    LET row == sessions[id]
    IN  /\ row.pane # None
        /\ ClaimExistingStop(id, row.inc, row.pane)
        /\ Begin(w, [Idle EXCEPT !.flow = "kill", !.at = "claimed", !.id = id,
                                 !.tok = row.inc, !.pane = row.pane])
        /\ Outside

(* what the claimed row says, and nothing read before the claim, is used *)
KillRecheck(w) ==
    LET f   == work[w]
        row == sessions[f.id]
    IN  /\ At(w, "kill", "claimed")
        /\ Registry /\ Outside
        /\ work' = [work EXCEPT ![w] =
              IF /\ Holds(f.id, "Stopping", f.tok)
                 /\ row.inc = f.tok /\ row.pane = f.pane
                 /\ http => row.sid # None
              THEN [@ EXCEPT !.at = IF http THEN "abort" ELSE "exit", !.sid = row.sid]
              ELSE [@ EXCEPT !.at = "release"]]

(* POST abort, before the pane: the server stops the turn, or refuses to   *)
(* (resolve_failed_abort releases the lease), or does not answer in time,  *)
(* with or without effect (the lease is kept).                             *)
KillAbort(w) ==
    LET f       == work[w]
        stopped == turn' = [turn EXCEPT ![f.sid] = IF @ = "busy" THEN "idle" ELSE @]
    IN  /\ At(w, "kill", "abort")
        /\ Registry
        /\ UNCHANGED <<proc, ran>>
        /\ IF OwnsStopping(f.id, f.tok, f.pane) /\ ~SidTaken(f.id, f.tok, f.sid)
           THEN \/ stopped /\ Goto(w, "exit")
                \/ UNCHANGED turn /\ Goto(w, "release")
                \/ (stopped \/ UNCHANGED turn) /\ End(w)
           ELSE UNCHANGED turn /\ Goto(w, "release")

(* faulty: the pane is killed outright, not through kill_owned_pane *)
KillPaneDirectly(w) ==
    LET f == work[w]
    IN  /\ At(w, "kill", "exit")
        /\ Registry
        /\ UNCHANGED <<ran, turn>>
        /\ SetProc(f.pane, Gone)
        /\ Goto(w, "removeRow")

(* the gate of the pane is taken *)
KillGate(w) ==
    LET f == work[w]
    IN  /\ At(w, "kill", "exit")
        /\ ~Gated(f.pane)
        /\ Registry /\ Outside
        /\ Goto(w, IF PaneTaken(f.id, f.tok, f.pane) THEN "release" ELSE "killing")

(* faulty: the row goes even if the pane has survived *)
KillPaneUnconfirmed(w) ==
    LET f == work[w]
    IN  /\ At(w, "kill", "killing")
        /\ Registry
        /\ UNCHANGED <<ran, turn>>
        /\ IF OwnsStopping(f.id, f.tok, f.pane) /\ proc[f.pane] \in {Gone, f.tok}
           THEN /\ SetProc(f.pane, Gone) \/ UNCHANGED proc
                /\ Goto(w, "removeRow")
           ELSE UNCHANGED proc /\ Goto(w, "release")

(* The backend is told to exit, then signalled, and its pane is killed; in *)
(* between, the lease and the process are looked at again and again.  The  *)
(* pane may survive it.                                                    *)
KillPane(w) ==
    LET f == work[w]
    IN  /\ At(w, "kill", "killing")
        /\ Registry
        /\ UNCHANGED <<ran, turn>>
        /\ CASE ~OwnsStopping(f.id, f.tok, f.pane) -> UNCHANGED proc /\ Goto(w, "release")
             [] OwnsStopping(f.id, f.tok, f.pane) /\ proc[f.pane] = Gone ->
                    UNCHANGED proc /\ Goto(w, "removeRow")
             [] OwnsStopping(f.id, f.tok, f.pane) /\ proc[f.pane] = f.tok ->
                    \/ SetProc(f.pane, Gone) /\ Goto(w, "removeRow")
                    \/ UNCHANGED proc /\ End(w)
             [] OTHER -> UNCHANGED proc /\ Goto(w, "release")

(* faulty: row and lease go in one section, which is not asked *)
KillCompleteAtOnce(w) ==
    LET f == work[w]
    IN  /\ At(w, "kill", "removeRow")
        /\ ~Gated(f.pane)
        /\ Outside
        /\ sessions' = [sessions EXCEPT ![f.id] = NoRow]
        /\ leases' = [leases EXCEPT ![f.id] = NoLease]
        /\ UNCHANGED <<dormant, highWater>>
        /\ End(w)

KillComplete(w) ==
    LET f == work[w]
    IN  /\ At(w, "kill", "removeRow")
        /\ ~Gated(f.pane)
        /\ Try(CompleteOwnedStop(f.id, f.tok, f.pane), Goto(w, "release"), Goto(w, "release"))

-----------------------------------------------------------------------------
(* recover_lease, by which an operator releases a stop that is stuck.      *)

RecoverRead(w, id) ==
    /\ leases[id].phase = "Stopping"
    /\ Registry /\ Outside
    /\ Begin(w, [Idle EXCEPT !.flow = "recover", !.id = id, !.tok = leases[id].inc,
                             !.sid = leases[id].sid,
                             !.at = IF http /\ leases[id].sid # None THEN "replay"
                                    ELSE "release"])

RecoverReplay(w) ==
    LET f == work[w]
    IN  /\ At(w, "recover", "replay")
        /\ Registry
        /\ UNCHANGED <<proc, ran>>
        /\ \/ /\ turn' = [turn EXCEPT ![f.sid] = IF @ = "busy" THEN "idle" ELSE @]
              /\ Goto(w, "release")
           \/ UNCHANGED turn /\ End(w)

-----------------------------------------------------------------------------
(* What happens to panes and backend sessions outside the flows.           *)

(* a process exits and takes its pane along *)
PaneDies(p) ==
    /\ Running(p)
    /\ SetProc(p, Gone)
    /\ Registry
    /\ UNCHANGED <<work, ran, turn>>

(* the reaper finds the pane of a row gone *)
Reap(id) ==
    LET row == sessions[id]
    IN  /\ row.pane # None /\ ~Gated(row.pane)
        /\ proc[row.pane] = Gone
        /\ DormantOwned(id, row.inc, row.pane)
        /\ UNCHANGED work /\ Outside

(* send_msg refuses a session that restarts, not one that stops *)
Deliver(id) ==
    LET sid == sessions[id].sid
    IN  /\ http /\ sid # None
        /\ leases[id].phase # "Restarting"
        /\ turn[sid] = "idle"
        /\ turn' = [turn EXCEPT ![sid] = "busy"]
        /\ Registry
        /\ UNCHANGED <<work, proc, ran>>

TurnEnds(sid) ==
    /\ turn[sid] = "busy"
    /\ turn' = [turn EXCEPT ![sid] = "idle"]
    /\ Registry
    /\ UNCHANGED <<work, proc, ran>>

(* The SessionStart hook of a backend that has just started in its pane    *)
(* presents the credential it was launched with and the session it opened. *)
HookBinds(id, sid) ==
    /\ ~http /\ turn[sid] = "unborn"
    /\ \E p \in ran : proc[p] # Gone /\ proc[p] = sessions[id].cred
    /\ BindBackendIdentity(id, sid, sessions[id].cred)
    /\ turn' = [turn EXCEPT ![sid] = "idle"]
    /\ UNCHANGED <<work, proc, ran>>

(* The daemon goes down, and comes up again: restore_persisted_sessions    *)
(* first deletes the session an interrupted restart claimed, aborts the    *)
(* turn of an interrupted stop and kills the pane in the custody of a      *)
(* lease, then restores the registry from the file.                        *)
BootTurn(id) ==
    LET lease  == leases[id]
        shared == \E j \in Ids : sessions[j].sid = lease.sid
                     /\ IF lease.phase = "Stopping" THEN ~AbandonedLeaseOwns(lease, sessions[j])
                        ELSE sessions[j].inc # lease.sidOwner
    IN  IF ~http \/ lease.sid = None \/ shared THEN turn
        ELSE CASE lease.phase = "Restarting" -> [turn EXCEPT ![lease.sid] = "gone"]
               [] lease.phase = "Stopping"   ->
                     [turn EXCEPT ![lease.sid] = IF @ = "busy" THEN "idle" ELSE @]
               [] OTHER                      -> turn

BootProc ==
    [p \in Panes |->
        IF \E id \in Ids : /\ leases[id].pane = p
                           /\ proc[p] \in {leases[id].inc, leases[id].target,
                                           leases[id].paneOwner} \ {0}
        THEN Gone ELSE proc[p]]

KeptPane(id) == IF /\ leases[id].phase = "Restarting" /\ leases[id].target # 0
                   /\ sessions[id].inc = leases[id].target
                THEN leases[id].prev.pane ELSE sessions[id].pane

Reboot ==
    /\ work' = [w \in Workers |-> Idle]
    /\ proc' = BootProc
    /\ turn' = [s \in Sids |->
          LET claimed == {id \in Ids : leases[id].sid = s}
          IN  IF claimed = {} THEN turn[s] ELSE BootTurn(CHOOSE id \in claimed : TRUE)[s]]
    /\ Restore({id \in Ids : /\ KeptPane(id) # None
                             /\ KeptPane(id) \notin ran \/ proc'[KeptPane(id)] = Gone})
    /\ UNCHANGED ran

-----------------------------------------------------------------------------
StartStep(w) ==
    \/ StartDir(w) \/ StartCreate(w) \/ StartRecord(w) \/ StartCommit(w)
    \/ StartDiscard(w) \/ StartFinalize(w) \/ StartCleanup(w) \/ StartRollback(w)

SharedStep(w) ==
    \/ Launch(w) \/ Make(w) \/ Claim(w) \/ Attach(w) \/ Undo(w) \/ Clear(w)
    \/ Unmade(w) \/ Release(w)

RestartFlowStep(w) ==
    \/ RestartSnapshot(w) \/ RestartStage(w) \/ Inspect(w) \/ Custody(w)
    \/ Respawn(w) \/ Fallback(w) \/ CustodyNew(w) \/ DropNew(w) \/ Serve(w)
    \/ Prompt(w) \/ RestartComplete(w) \/ Rollback(w) \/ KillProvisional(w)
    \/ RestartFailed(w)

KillStep(w) ==
    \/ KillRecheck(w) \/ KillAbort(w) \/ KillGate(w) \/ KillPane(w) \/ KillComplete(w)

Begins(w, id) == StartReserve(w, id) \/ RestartClaim(w, id) \/ KillClaim(w, id)

Continues(w) == StartStep(w) \/ SharedStep(w) \/ RestartFlowStep(w) \/ KillStep(w)

Environment ==
    \/ \E p \in Panes : PaneDies(p)
    \/ \E id \in Ids : Reap(id) \/ Deliver(id)
    \/ \E sid \in Sids : TurnEnds(sid)
    \/ \E id \in Ids, sid \in Sids : HookBinds(id, sid)
    \/ Reboot

Proceeds(w) == Continues(w) /\ Strays(w) /\ UNCHANGED <<http, holder>>

(* nobody recovers a lease by hand *)
NextUnattended ==
    \/ \E w \in Workers : Proceeds(w)
    \/ /\ UNCHANGED <<http, stray>>
       /\ \/ \E w \in Workers, id \in Ids :
                Begins(w, id) /\ holder' = [holder EXCEPT ![id] = w]
          \/ Environment /\ UNCHANGED holder

NextAttended ==
    \/ NextUnattended
    \/ /\ UNCHANGED <<http, holder, stray>>
       /\ \E w \in Workers : RecoverReplay(w) \/ \E id \in Ids : RecoverRead(w, id)

UnattendedSpec == FlowsInit /\ [][NextUnattended]_fvars

(* The steps of a flow are run by the async runtime, every command and     *)
(* request of one has a time limit, and the gates of the panes, for which  *)
(* other flows compete, are granted in the order in which they were asked  *)
(* for: a step that is possible again and again is taken.                  *)
FairSpec == /\ UnattendedSpec
            /\ \A w \in Workers : SF_fvars(Proceeds(w))

(* A flow that ends releases the lease it took itself, or none; recovery   *)
(* by hand, which takes none, releases that of a stop.                     *)
Exact ==
    \A w \in Workers :
        LET f == work[w]
        IN  f.at = "release" /\ work'[w] # f /\ leases'[f.id] # leases[f.id]
                => IF f.flow = "recover" THEN leases[f.id].phase = "Stopping"
                                         ELSE holder[f.id] = w

(* The behaviours in which the leases are released that way.  The code     *)
(* does not confine itself to them: abort_lifecycle compares the owner,    *)
(* and a restart that was rolled back has put an old owner back in office. *)
ExactSpec == FlowsInit /\ [][NextAttended /\ Exact]_fvars

-----------------------------------------------------------------------------
(* A flow that has ended, by success, failure or refusal, leaves a lease   *)
(* behind only where the code keeps it on purpose, for the next start of   *)
(* the daemon or an operator to recover: a stop that is not confirmed, a   *)
(* restart with something to undo (restart_recovery_pending), a start      *)
(* whose pane or row could not be taken back.  Any other lease that        *)
(* outlived its flow would block the ID for good: neither kill, restart    *)
(* nor start gets past it, and recover_lease refuses what is not Stopping. *)
NoLeakedLease ==
    \A id \in Ids : Leased(id) /\ (\A w \in Workers : work[w].id # id) =>
        \/ leases[id].phase = "Stopping"
        \/ /\ leases[id].phase = "Restarting"
           /\ leases[id].pane # None \/ sessions[id].inc # leases[id].inc
        \/ /\ leases[id].phase = "Starting"
           /\ leases[id].pane # None \/ sessions[id].inc = leases[id].inc

(* While no flow has an ID, the process in the pane of its row exports the *)
(* incarnation of the row: every exact-owner check of the code             *)
(* (physical_owner_matches) relies on it, and a row for which it fails can *)
(* neither be stopped nor restarted.  For sessions driven in their panes;  *)
(* the rollback of an HTTP session leaves the target's process behind.     *)
(* The one exception of the code is the target of a restart whose respawn  *)
(* failed late and whose pane could not be examined or killed then.        *)
RowMatchesPane ==
    ~http => \A id \in Ids :
        Live(id) /\ ~Leased(id) /\ Running(sessions[id].pane)
            => proc[sessions[id].pane] \in {sessions[id].inc, stray[sessions[id].pane]}

(* A flow kills or respawns a process only if it exports the incarnation   *)
(* the flow works for, however long ago the flow looked the pane up: the   *)
(* guards on the pane (kill_owned_pane, classify_incumbent_pane) against   *)
(* hitting the session that has replaced it.                               *)
NoForeignKill ==
    [][~http => \A w \in Workers, p \in Panes :
          work'[w] \notin {work[w], Idle} /\ Running(p) /\ proc'[p] # proc[p]
              => proc[p] \in {work[w].tok, work[w].target}]_fvars

(* A stop removes the row only when the process in the row's pane is down: *)
(* a kill whose pane survives is not reported as done                      *)
(* (kill_session_inner), or the session would run on with no row.          *)
StopMeansDead ==
    [][\A id \in Ids :
          leases[id].phase = "Stopping" /\ leases'[id] = leases[id]
            /\ Live(id) /\ sessions'[id].inc = 0
              => proc[sessions[id].pane] # sessions[id].inc]_fvars

(* A backend that was launched and still runs is known to a row, to a      *)
(* lease or to the flow that launched it, through failures, crashes and    *)
(* restarts of the daemon; otherwise nothing would ever stop it.  Except   *)
(* for one that a failed respawn left behind: when the daemon restarts     *)
(* while a stop has its row, the row goes and the process stays.           *)
NoStrandedBackend ==
    ~http => \A p \in ran : Running(p) /\ proc[p] # stray[p] =>
        \/ \E id \in Ids : p \in {sessions[id].pane, leases[id].pane, leases[id].prev.pane}
        \/ \E w \in Workers : work[w].pane = p

(* The flows touch the registry only through its critical sections, one at *)
(* a time, with owners that were allocated before: what is proved of the   *)
(* registry under Spec holds of every daemon that runs these flows         *)
(* (AppState's lifecycle wrappers are their only access to it).            *)
RegistryRefined == Spec

(* Every flow ends: no failure branch leads back into a flow for ever, and *)
(* no two flows wait for the gates the other one holds (kill_session_inner *)
(* must give up the gate of the pane before it asks for it to remove the   *)
(* row).                                                                   *)
FlowsEnd == \A w \in Workers : work[w] # Idle ~> work[w] = Idle
=============================================================================
