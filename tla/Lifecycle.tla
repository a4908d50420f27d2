------------------------------ MODULE Lifecycle ------------------------------
(***************************************************************************)
(* The session registry of one ouija daemon: DaemonState in                *)
(* src/src/daemon_protocol.rs.  It maps a public session ID to the live    *)
(* Local row that owns the ID, to the tombstone ("dormant session") of the *)
(* last owner, and to the lifecycle lease of a start, restart or stop      *)
(* whose external work (tmux, HTTP, file system) is still running.         *)
(*                                                                         *)
(* Every action is one critical section under the protocol write lock.     *)
(* The flows of nostr_transport.rs, scheduler.rs, hooks.rs and api.rs are  *)
(* chains of these critical sections with arbitrary work between them, so  *)
(* their interleaving is the interleaving of the actions below.            *)
(*                                                                         *)
(* An owner (ResourceOwner) is a pair of a public ID and an incarnation.   *)
(* Everything here is indexed by the ID, so an owner is represented by its *)
(* incarnation; 0 stands for "no owner".  Callers present the incarnation  *)
(* they read at some earlier time (the parameter tok), which may be stale. *)
(* Only Local rows are modelled, with one backend kind: a backend pair is  *)
(* complete exactly when the session ID of the backend (sid) is present.   *)
(***************************************************************************)
EXTENDS Integers

CONSTANTS
    Ids,     \* public session IDs
    Panes,   \* tmux panes
    Sids,    \* session IDs issued by the backend (Claude, Codex, OpenCode)
    Dirs,    \* project directories
    None,    \* an absent pane, backend session ID or directory
    MaxInc   \* largest incarnation the allocator can hand out (u64::MAX)

ASSUME NoneIsFresh == None \notin (Panes \cup Sids \cup Dirs)
ASSUME MaxIncIsNat == MaxInc \in Nat

VARIABLES
    sessions,   \* id -> its Local row, NoRow when there is none
    dormant,    \* id -> its tombstone, NoTombstone when there is none
    leases,     \* id -> its lifecycle lease, NoLease when there is none
    highWater   \* the last incarnation handed out

vars == <<sessions, dormant, leases, highWater>>

-----------------------------------------------------------------------------
(* A live row.  "cred" is the launch the one-time SessionStart credential  *)
(* was issued for (0 without one); "canon" tells whether the canonical     *)
(* project identity is known; "scanned" marks a row the scanner created.   *)

Row == [inc     : Nat,
        pane    : Panes \cup {None},
        backend : BOOLEAN,
        sid     : Sids \cup {None},
        cred    : Nat,
        dir     : Dirs \cup {None},
        canon   : BOOLEAN,
        scanned : BOOLEAN]

NoRow == [inc |-> 0, pane |-> None, backend |-> FALSE, sid |-> None, cred |-> 0,
          dir |-> None, canon |-> FALSE, scanned |-> FALSE]

Tombstone == [inc : Nat, sid : Sids \cup {None}, dir : Dirs \cup {None}]

NoTombstone == [inc |-> 0, sid |-> None, dir |-> None]

(* A lease.  "target" and "prev" are the staged owner of a restart and the *)
(* incumbent row it replaces; "sid"/"sidOwner" the backend session whose   *)
(* clean-up the lease is responsible for; "pane"/"paneOwner" the pane in   *)
(* its custody; "dir" the directory its external work may change.          *)

Phases == {"None", "Starting", "Restarting", "Stopping"}

Lease == [inc       : Nat,
          phase     : Phases,
          target    : Nat,
          prev      : Row,
          sid       : Sids \cup {None},
          sidOwner  : Nat,
          pane      : Panes \cup {None},
          paneOwner : Nat,
          dir       : Dirs \cup {None}]

NoLease == [inc |-> 0, phase |-> "None", target |-> 0, prev |-> NoRow,
            sid |-> None, sidOwner |-> 0, pane |-> None, paneOwner |-> 0,
            dir |-> None]

Live(id)    == sessions[id].inc # 0
Leased(id)  == leases[id].inc # 0
Parked(id)  == dormant[id].inc # 0
LeasedBy(id, tok) == Leased(id) /\ leases[id].inc = tok
Holds(id, phase, tok) == /\ Leased(id)
                         /\ leases[id].inc = tok
                         /\ leases[id].phase = phase

(* faulty: a stop in progress does not protect the row *)
HasStoppingLeaseIgnored(id) == FALSE

HasStoppingLease(id) == leases[id].phase = "Stopping"

(* allocate_incarnation *)
CanAllocate == highWater < MaxInc
NextInc     == highWater + 1

-----------------------------------------------------------------------------
(* Conflicts over panes, backend pairs and directories.                    *)

(* live_resource_conflict without an exempt ID *)
LiveResourceConflict(pane, sid) ==
    \E j \in Ids : Live(j) /\ (sessions[j].pane = pane \/ sessions[j].sid = sid)

(* faulty: tombstones are not searched for the pair *)
DormantPairUnsearched(ids, sid) == FALSE

(* dormant_pair_conflict; an incomplete pair conflicts with nothing *)
DormantPairConflict(ids, sid) ==
    sid # None /\ \E j \in ids : Parked(j) /\ dormant[j].sid = sid

(* lifecycle_resource_conflict *)
LifecycleResourceConflict(id, pane, sid, dir) ==
    \E j \in Ids : /\ Leased(j)
                   /\ \/ j = id
                      \/ leases[j].pane = pane
                      \/ leases[j].sid = sid
                      \/ leases[j].dir = dir

(* backend_binding_lifecycle_conflict *)
BindingLifecycleConflict(id, sid) ==
    \E j \in Ids :
        /\ Leased(j)
        /\ ~(j = id /\ sessions[id].inc \in {leases[j].inc, leases[j].target})
        /\ \/ j = id
           \/ sessions[id].pane # None /\ leases[j].pane = sessions[id].pane
           \/ leases[j].sid = sid
           \/ sessions[id].dir # None /\ leases[j].dir = sessions[id].dir

(* the check of every binding path that no other Local row has the pair *)
BoundElsewhere(id, sid) ==
    sid # None /\ \E j \in Ids \ {id} : Live(j) /\ sessions[j].sid = sid

(* faulty: panes in the custody of a lease are not searched *)
RegistrationLeaseConflictByIdentity(id, pane, m, tok) ==
    \E j \in Ids :
        /\ Leased(j)
        /\ ~(j = id /\ tok # 0 /\ leases[j].inc = tok)
        /\ \/ j = id
           \/ m.sid # None /\ leases[j].sid = m.sid
           \/ m.dir # None /\ leases[j].dir = m.dir

(* the search of apply_register_with_owner for a lease of somebody else    *)
RegistrationLeaseConflict(id, pane, m, tok) ==
    \E j \in Ids :
        /\ Leased(j)
        /\ ~(j = id /\ tok # 0 /\ leases[j].inc = tok)
        /\ \/ j = id
           \/ pane # None /\ leases[j].pane = pane
           \/ m.sid # None /\ leases[j].sid = m.sid
           \/ m.dir # None /\ leases[j].dir = m.dir

(* A tmux server never reuses a pane ID and a backend never reuses the ID  *)
(* of a session: what a launch has just created is nobody else's.          *)
FreshPane(pane) ==
    \A j \in Ids : /\ sessions[j].pane # pane
                   /\ leases[j].pane # pane
                   /\ leases[j].prev.pane # pane

FreshSid(sid) ==
    \A j \in Ids : /\ sessions[j].sid # sid
                   /\ dormant[j].sid # sid
                   /\ leases[j].sid # sid
                   /\ leases[j].prev.sid # sid

-----------------------------------------------------------------------------
Init == /\ sessions  = [id \in Ids |-> NoRow]
        /\ dormant   = [id \in Ids |-> NoTombstone]
        /\ leases    = [id \in Ids |-> NoLease]
        /\ highWater = 0

-----------------------------------------------------------------------------
(* Starts.                                                                 *)

(* faulty: the incarnation is used, the high water mark not raised *)
ReserveStartUncounted(id) ==
    /\ ~Leased(id)
    /\ ~Live(id)
    /\ CanAllocate
    /\ leases' = [leases EXCEPT ![id] =
                     [NoLease EXCEPT !.inc = NextInc, !.phase = "Starting"]]
    /\ UNCHANGED <<sessions, dormant, highWater>>

(* reserve_start, the outcome Reserved: the ID is neither live nor leased  *)
ReserveStart(id) ==
    /\ ~Leased(id)
    /\ ~Live(id)
    /\ CanAllocate
    /\ highWater' = NextInc
    /\ leases' = [leases EXCEPT ![id] =
                     [NoLease EXCEPT !.inc = NextInc, !.phase = "Starting"]]
    /\ UNCHANGED <<sessions, dormant>>

(* record_inert_start_pane.  Starts record the pane they created under the *)
(* owner of the lease, restarts under the staged target: a pane created as *)
(* a fallback, or the pane of the row, which is about to be respawned.     *)
MayRecordPane(id, tok, pane) ==
    /\ LeasedBy(id, tok)
    /\ \/ leases[id].phase = "Starting" /\ FreshPane(pane)
       \/ /\ leases[id].phase = "Restarting"
          /\ leases[id].target # 0
          /\ FreshPane(pane) \/ sessions[id].pane = pane

RecordInertStartPane(id, tok, pane) ==
    /\ MayRecordPane(id, tok, pane)
    /\ leases' = [leases EXCEPT ![id] =
          [@ EXCEPT !.pane      = pane,
                    !.paneOwner = IF leases[id].phase = "Starting"
                                  THEN tok ELSE leases[id].target]]
    /\ UNCHANGED <<sessions, dormant, highWater>>

(* record_project_dir_claim *)
MayClaimDir(id, tok, dir) ==
    /\ LeasedBy(id, tok)
    /\ leases[id].phase \in {"Starting", "Restarting"}
    /\ leases[id].dir \in {None, dir}

RecordProjectDirClaim(id, tok, dir) ==
    /\ MayClaimDir(id, tok, dir)
    /\ leases' = [leases EXCEPT ![id] = [@ EXCEPT !.dir = dir]]
    /\ UNCHANGED <<sessions, dormant, highWater>>

(* apply_register_with_owner: row m is published under id, with the owner  *)
(* of the lease (tok) or, for tok = 0, with a new incarnation.  A row of   *)
(* another ID with the same pane is displaced.  When that row is leased    *)
(* the registration fails, but only after the incarnation was allocated.   *)
RegisterWithOwner(id, pane, m, tok) ==
    LET old       == sessions[id]
        displaced == {j \in Ids \ {id} : pane # None /\ sessions[j].pane = pane}
        row       == [m EXCEPT !.inc     = IF tok = 0 THEN NextInc ELSE tok,
                               !.pane    = pane,
                               !.backend = IF old.sid # None THEN TRUE ELSE m.backend,
                               !.sid     = IF Live(id) THEN old.sid ELSE m.sid]
    IN  /\ ~DormantPairConflict(Ids, m.sid)
        /\ ~RegistrationLeaseConflict(id, pane, m, tok)
        /\ tok # 0 => leases[id].inc = tok
        /\ pane # None \/ old.pane = None
        /\ Live(id) => m.sid \in {None, old.sid}
        /\ ~BoundElsewhere(id, row.sid)
        /\ tok = 0 => CanAllocate
        /\ highWater' = IF tok = 0 THEN NextInc ELSE highWater
        /\ \/ /\ \A j \in displaced : ~Leased(j)
              /\ sessions' = [j \in Ids |-> IF j = id THEN row
                                            ELSE IF j \in displaced THEN NoRow
                                            ELSE sessions[j]]
              /\ dormant' = [dormant EXCEPT ![id] = NoTombstone]
           \/ /\ \E j \in displaced : Leased(j)
              /\ UNCHANGED <<sessions, dormant>>
        /\ UNCHANGED leases

(* commit_reserved_start.  A start commits once, while the lease it        *)
(* reserved is still its own.  A launch bound by the SessionStart hook     *)
(* carries a credential (cred = tok), a launch over HTTP does not.         *)
CommitReservedStart(id, tok, dir, cred) ==
    /\ Holds(id, "Starting", tok)
    /\ ~Live(id)
    /\ leases[id].pane # None
    /\ leases[id].dir \in {None, dir}
    /\ cred \in {0, tok}
    /\ RegisterWithOwner(id, leases[id].pane,
           [NoRow EXCEPT !.backend = TRUE, !.cred = cred, !.dir = dir], tok)

(* apply_refresh_launch_metadata: pair and credential of the live row win  *)
(* over those of the finalizer.                                            *)
Refreshed(row, pane, sid, dir, canon) ==
    [row EXCEPT !.pane    = pane,
                !.backend = TRUE,
                !.sid     = IF row.sid # None THEN row.sid ELSE sid,
                !.dir     = dir,
                !.canon   = canon,
                !.scanned = FALSE]

(* finalize_reserved_start: sid is the session created over HTTP, None for *)
(* a launch that the hook binds.  The launch still holds its lease.        *)
FinalizeReservedStart(id, tok, sid) ==
    /\ Holds(id, "Starting", tok)
    /\ sessions[id].inc = tok
    /\ sid # None => sessions[id].cred = 0 /\ FreshSid(sid)
    /\ sessions' = [sessions EXCEPT ![id] =
          Refreshed(sessions[id], sessions[id].pane, sid, sessions[id].dir, FALSE)]
    /\ UNCHANGED <<dormant, leases, highWater>>

(* rollback_reserved_start: the launch failed and its pane is gone.  A row *)
(* whose credential was consumed meanwhile is left alone.                  *)
RollbackReservedStart(id, tok, pane) ==
    /\ Holds(id, "Starting", tok)
    /\ sessions[id].inc = tok
    /\ sessions[id].pane = pane
    /\ sessions[id].cred = tok \/ sessions[id].sid = None
    /\ sessions' = [sessions EXCEPT ![id] = NoRow]
    /\ leases' = IF leases[id].pane = pane /\ leases[id].paneOwner = tok
                 THEN [leases EXCEPT ![id] = [@ EXCEPT !.pane = None, !.paneOwner = 0]]
                 ELSE leases
    /\ UNCHANGED <<dormant, highWater>>

(* abort_lifecycle: every flow ends with it, whatever the outcome.  The    *)
(* owner is all it compares: it releases any phase held under that owner.  *)
AbortLifecycle(id, tok) ==
    /\ LeasedBy(id, tok)
    /\ leases' = [leases EXCEPT ![id] = NoLease]
    /\ UNCHANGED <<sessions, dormant, highWater>>

-----------------------------------------------------------------------------
(* Restarts.                                                               *)

(* faulty: a restart takes over the lease of another flow *)
ClaimExistingStartOverLease(id, tok) ==
    /\ Live(id) /\ sessions[id].inc = tok
    /\ leases' = [leases EXCEPT ![id] =
                     [NoLease EXCEPT !.inc = tok, !.phase = "Restarting",
                                     !.dir = sessions[id].dir]]
    /\ UNCHANGED <<sessions, dormant, highWater>>

(* claim_existing_start *)
ClaimExistingStart(id, tok) ==
    /\ ~Leased(id)
    /\ Live(id) /\ sessions[id].inc = tok
    /\ leases' = [leases EXCEPT ![id] =
                     [NoLease EXCEPT !.inc = tok, !.phase = "Restarting",
                                     !.dir = sessions[id].dir]]
    /\ UNCHANGED <<sessions, dormant, highWater>>

(* stage_restart_launch.  A restart that renews the backend session forgets *)
(* the old pair and carries a new credential unless it goes over HTTP.     *)
StageRestartLaunch(id, tok, renew, withCred) ==
    LET row == sessions[id]
    IN  /\ Holds(id, "Restarting", tok)
        /\ leases[id].target = 0
        /\ leases[id].prev.inc = 0
        /\ row.inc = tok
        /\ withCred => renew
        /\ CanAllocate
        /\ highWater' = NextInc
        /\ sessions' = [sessions EXCEPT ![id] =
              [row EXCEPT !.inc     = NextInc,
                          !.backend = TRUE,
                          !.sid     = IF renew THEN None ELSE @,
                          !.cred    = IF ~renew THEN @
                                      ELSE IF withCred THEN NextInc ELSE 0]]
        /\ leases' = [leases EXCEPT ![id] =
              [@ EXCEPT !.target = NextInc, !.prev = row]]
        /\ UNCHANGED dormant

StagedFor(id, tok, target) ==
    /\ Holds(id, "Restarting", tok)
    /\ leases[id].target = target
    /\ leases[id].prev.inc # 0
    /\ sessions[id].inc = target

(* record_restart_backend_claim, right after the backend created sid *)
RecordRestartBackendClaim(id, tok, target, sid) ==
    /\ StagedFor(id, tok, target)
    /\ leases[id].sid \in {None, sid}
    /\ FreshSid(sid)
    /\ leases' = [leases EXCEPT ![id] =
                     [@ EXCEPT !.sid = sid, !.sidOwner = target]]
    /\ UNCHANGED <<sessions, dormant, highWater>>

(* clear_restart_backend_claim, after the backend session was deleted *)
ClearRestartBackendClaim(id, tok, target, sid) ==
    /\ Holds(id, "Restarting", tok)
    /\ leases[id].target = target
    /\ leases[id].sidOwner = target
    /\ leases[id].sid = sid
    /\ leases' = [leases EXCEPT ![id] = [@ EXCEPT !.sid = None, !.sidOwner = 0]]
    /\ UNCHANGED <<sessions, dormant, highWater>>

(* The backend session a completed restart reports: the one it claimed;    *)
(* else none; else, for a resume of a row that had no pair, the newest one *)
(* the backend finds on disk for the directory (detect_session_id).        *)
CompletionSids(id) ==
    IF leases[id].sid # None THEN {leases[id].sid}
    ELSE IF /\ leases[id].prev.backend /\ leases[id].prev.sid = None
            /\ sessions[id].cred # leases[id].target
         THEN Sids \cup {None}
         ELSE {None}

(* complete_restart_launch *)
MayComplete(id, tok, target, sid, dir) ==
    /\ StagedFor(id, tok, target)
    /\ leases[id].sid # None => leases[id].sidOwner = target
    /\ leases[id].sid # None => sessions[id].sid \in {None, leases[id].sid}
    /\ sid \in CompletionSids(id)
    /\ dir \in {sessions[id].dir, leases[id].prev.dir}
               \cup (IF leases[id].prev.dir = None THEN Dirs ELSE {})

CompleteRestartLaunch(id, tok, target, sid, dir) ==
    LET row == sessions[id]
    IN  /\ MayComplete(id, tok, target, sid, dir)
        /\ sessions' = [sessions EXCEPT ![id] =
              Refreshed(row,
                        IF leases[id].pane # None THEN leases[id].pane ELSE row.pane,
                        sid, dir, row.canon)]
        /\ leases' = [leases EXCEPT ![id] = NoLease]
        /\ UNCHANGED <<dormant, highWater>>

(* rollback_restart_launch; rollback_claimed_restart first makes sure that *)
(* no backend session is left to clean up.                                 *)
RollbackRestartLaunch(id, tok, target) ==
    /\ StagedFor(id, tok, target)
    /\ leases[id].prev.inc = tok
    /\ leases[id].sid = None
    /\ sessions' = [sessions EXCEPT ![id] = leases[id].prev]
    /\ leases' = [leases EXCEPT ![id] = NoLease]
    /\ UNCHANGED <<dormant, highWater>>

-----------------------------------------------------------------------------
(* Stops.                                                                  *)

(* claim_existing_stop *)
ClaimExistingStop(id, tok, pane) ==
    LET row == sessions[id]
    IN  /\ ~Leased(id)
        /\ Live(id) /\ row.inc = tok
        /\ row.pane = pane
        /\ leases' = [leases EXCEPT ![id] =
              [NoLease EXCEPT !.inc = tok, !.phase = "Stopping",
                              !.sid = row.sid,
                              !.sidOwner = IF row.sid = None THEN 0 ELSE tok,
                              !.pane = pane, !.paneOwner = tok,
                              !.dir = row.dir]]
        /\ UNCHANGED <<sessions, dormant, highWater>>

(* apply_complete_owned_stop: the row goes, the lease stays *)
CompleteOwnedStop(id, tok, pane) ==
    /\ Holds(id, "Stopping", tok)
    /\ leases[id].pane = pane /\ leases[id].paneOwner = tok
    /\ sessions[id].inc = tok
    /\ sessions[id].pane = pane
    /\ sessions' = [sessions EXCEPT ![id] = NoRow]
    /\ UNCHANGED <<dormant, leases, highWater>>

-----------------------------------------------------------------------------
(* Registrations without a lease: the hooks, the pane scanner, the API.    *)

(* What a caller of Register may say about the session.  The scanner knows *)
(* no backend and resolves the project; the hook of a backend knows both;  *)
(* a registration over the API leaves the project unresolved.              *)
ScannerMeta(dir)   == [NoRow EXCEPT !.dir = dir, !.canon = TRUE, !.scanned = TRUE]
HookMeta(sid, dir) == [NoRow EXCEPT !.backend = TRUE, !.sid = sid,
                                    !.dir = dir, !.canon = TRUE]

ApiMeta(sid, dir)  == [NoRow EXCEPT !.backend = TRUE, !.sid = sid, !.dir = dir]
PlainMeta(dir)     == [NoRow EXCEPT !.dir = dir]

HookMetas == {HookMeta(sid, dir) : sid \in Sids, dir \in Dirs}
ApiMetas  == {ApiMeta(sid, dir) : sid \in Sids \cup {None}, dir \in Dirs \cup {None}}
             \cup {PlainMeta(dir) : dir \in Dirs \cup {None}}
Metas     == HookMetas \cup ApiMetas \cup {ScannerMeta(dir) : dir \in Dirs}

(* Event::Register: the API registers a session that has no pane *)
Register(id, m) == RegisterWithOwner(id, None, m, 0)

(* apply_register_if_pane_unbound *)
RegisterIfPaneUnbound(id, pane, m) ==
    /\ Live(id) => /\ m.sid \in {None, sessions[id].sid}
                   /\ sessions[id].pane = pane
    /\ ~BoundElsewhere(id, m.sid)
    /\ \A j \in Ids \ {id} : sessions[j].pane # pane
    /\ RegisterWithOwner(id, pane, m, 0)

(* scanner_candidate_is_reclaimable: a row with nothing but what the       *)
(* scanner wrote.  (Aliases, asks and children are not in this model.)     *)
ScannerCandidate(j, row) ==
    /\ sessions[j].scanned
    /\ sessions[j] = [ScannerMeta(row.dir) EXCEPT !.inc   = sessions[j].inc,
                                                  !.pane  = sessions[j].pane,
                                                  !.canon = row.canon]
    /\ ~Leased(j)

(* apply_reclaim_missing_backend_pane: the backend of a session moved to a *)
(* new pane; a scanner row that got hold of the pane first is displaced.   *)
ReclaimMissingBackendPane(id, tok, oldPane, newPane) ==
    LET row == sessions[id]
    IN  /\ Live(id) /\ row.inc = tok
        /\ row.pane = oldPane /\ oldPane # newPane
        /\ row.sid # None /\ row.dir # None
        /\ ~Leased(id)
        /\ ~BoundElsewhere(id, row.sid)
        /\ \A j \in Ids : sessions[j].pane = newPane => ScannerCandidate(j, row)
        /\ RegisterWithOwner(id, newPane, row, 0)

(* apply_claim_local_session: a running backend asks for a name of its own *)
ClaimLocalSession(id, pane, sid, dir) ==
    /\ ~Live(id)
    /\ ~LiveResourceConflict(pane, sid)
    /\ ~DormantPairConflict(Ids, sid)
    /\ ~LifecycleResourceConflict(id, pane, sid, dir)
    /\ CanAllocate
    /\ highWater' = NextInc
    /\ sessions' = [sessions EXCEPT ![id] =
          [HookMeta(sid, dir) EXCEPT !.inc = NextInc, !.pane = pane]]
    /\ dormant' = [dormant EXCEPT ![id] = NoTombstone]
    /\ UNCHANGED leases

-----------------------------------------------------------------------------
(* Dormancy.                                                               *)

(* the condition under which a dying row leaves a tombstone *)
Recoverable(row) == /\ row.backend
                    /\ row.sid # None
                    /\ row.dir # None
                    /\ row.canon

TombstoneOf(row) == IF Recoverable(row)
                    THEN [inc |-> row.inc, sid |-> row.sid, dir |-> row.dir]
                    ELSE NoTombstone

(* apply_dormant_owned: the pane the reaper looked at is gone *)
DormantOwned(id, tok, pane) ==
    /\ Live(id) /\ sessions[id].inc = tok
    /\ ~Leased(id)
    /\ sessions[id].pane = pane
    /\ sessions' = [sessions EXCEPT ![id] = NoRow]
    /\ dormant' = IF Recoverable(sessions[id])
                  THEN [dormant EXCEPT ![id] = TombstoneOf(sessions[id])]
                  ELSE dormant
    /\ UNCHANGED <<leases, highWater>>

(* apply_replace_reused_pane_owner: the pane of a dead session now runs a  *)
(* new one.  The incumbent is parked, its successor registered under the   *)
(* same name, and nothing happens when either half is refused.             *)
ReplaceReusedPaneOwner(id, tok, m) ==
    LET old == sessions[id]
    IN  /\ Live(id) /\ old.inc = tok
        /\ old.pane # None
        /\ ~Leased(id)
        /\ Recoverable(old)
        /\ m.sid # old.sid
        /\ ~DormantPairConflict(Ids \ {id}, m.sid)
        /\ ~RegistrationLeaseConflict(id, old.pane, m, 0)
        /\ ~BoundElsewhere(id, m.sid)
        /\ \A j \in Ids \ {id} : sessions[j].pane # old.pane
        /\ CanAllocate
        /\ highWater' = NextInc
        /\ sessions' = [sessions EXCEPT ![id] =
              [m EXCEPT !.inc = NextInc, !.pane = old.pane]]
        /\ dormant' = [dormant EXCEPT ![id] = NoTombstone]
        /\ UNCHANGED leases

(* apply_recover_dormant_session: the backend of the tombstone came back *)
RecoverDormant(id, tok, pane) ==
    LET rip == dormant[id]
    IN  /\ Parked(id) /\ rip.inc = tok
        /\ ~Live(id)
        /\ ~LiveResourceConflict(pane, rip.sid)
        /\ ~DormantPairConflict(Ids \ {id}, rip.sid)
        /\ ~LifecycleResourceConflict(id, pane, rip.sid, rip.dir)
        /\ CanAllocate
        /\ highWater' = NextInc
        /\ sessions' = [sessions EXCEPT ![id] =
              [HookMeta(rip.sid, rip.dir) EXCEPT !.inc = NextInc, !.pane = pane]]
        /\ dormant' = [dormant EXCEPT ![id] = NoTombstone]
        /\ UNCHANGED leases

-----------------------------------------------------------------------------
(* Renames, removals and metadata.                                         *)

(* faulty: the row stays under its old name as well *)
RenameCopy(old, new) ==
    /\ old # new
    /\ ~Leased(old) /\ ~Leased(new)
    /\ Live(old) /\ ~Live(new)
    /\ sessions' = [sessions EXCEPT ![new] = sessions[old]]
    /\ dormant' = [dormant EXCEPT ![new] = NoTombstone]
    /\ UNCHANGED <<leases, highWater>>

(* faulty: a tombstone under the new name survives *)
RenameOverTombstone(old, new) ==
    /\ old # new
    /\ ~Leased(old) /\ ~Leased(new)
    /\ Live(old) /\ ~Live(new)
    /\ sessions' = [sessions EXCEPT ![new] = sessions[old], ![old] = NoRow]
    /\ UNCHANGED <<dormant, leases, highWater>>

(* apply_rename: the row moves with its incarnation *)
Rename(old, new) ==
    /\ old # new
    /\ ~Leased(old) /\ ~Leased(new)
    /\ Live(old) /\ ~Live(new)
    /\ sessions' = [sessions EXCEPT ![new] = sessions[old], ![old] = NoRow]
    /\ dormant' = [dormant EXCEPT ![new] = NoTombstone]
    /\ UNCHANGED <<leases, highWater>>

(* faulty: a leased row can be removed *)
RemoveLeased(id) ==
    /\ Live(id)
    /\ sessions' = [sessions EXCEPT ![id] = NoRow]
    /\ UNCHANGED <<dormant, leases, highWater>>

(* apply_remove: forgets a tombstone when there is no row to remove *)
Remove(id) ==
    /\ ~Leased(id)
    /\ \/ /\ Live(id)
          /\ sessions' = [sessions EXCEPT ![id] = NoRow]
          /\ UNCHANGED dormant
       \/ /\ ~Live(id) /\ Parked(id)
          /\ dormant' = [dormant EXCEPT ![id] = NoTombstone]
          /\ UNCHANGED sessions
    /\ UNCHANGED <<leases, highWater>>

(* apply_remove_if_stale: the directory seen missing earlier is the row's  *)
RemoveIfStale(id, tok, dir) ==
    /\ Live(id) /\ sessions[id].inc = tok
    /\ sessions[id].dir = dir
    /\ Remove(id)

(* apply_update_metadata, the project directory *)
UpdateMetadata(id, dir) ==
    /\ Live(id)
    /\ ~HasStoppingLease(id)
    /\ sessions' = [sessions EXCEPT ![id] = [@ EXCEPT !.dir = dir]]
    /\ UNCHANGED <<dormant, leases, highWater>>

-----------------------------------------------------------------------------
(* Binding a live row to the backend session that runs in it.              *)

SetPair(id, sid) ==
    /\ sessions' = [sessions EXCEPT ![id] =
                       [@ EXCEPT !.backend = TRUE, !.sid = sid, !.cred = 0]]
    /\ UNCHANGED <<dormant, leases, highWater>>

(* bind_backend_identity: the SessionStart hook of launch cred reports the *)
(* session it started and consumes the credential of the launch.           *)
BindBackendIdentity(id, sid, cred) ==
    /\ Live(id)
    /\ ~HasStoppingLease(id)
    /\ ~BindingLifecycleConflict(id, sid)
    /\ sessions[id].sid = None
    /\ sessions[id].cred # 0 /\ sessions[id].cred = cred
    /\ ~BoundElsewhere(id, sid)
    /\ ~DormantPairConflict(Ids, sid)
    /\ SetPair(id, sid)

(* apply_adopt_backend, as the API calls it for a row it found without a   *)
(* backend, a pair or a credential and with a directory.                   *)
AdoptBackend(id, tok, sid) ==
    /\ Live(id) /\ sessions[id].inc = tok
    /\ ~HasStoppingLease(id)
    /\ ~BindingLifecycleConflict(id, sid)
    /\ ~sessions[id].backend /\ sessions[id].sid = None /\ sessions[id].cred = 0
    /\ sessions[id].dir # None
    /\ ~BoundElsewhere(id, sid)
    /\ ~DormantPairConflict(Ids, sid)
    /\ SetPair(id, sid)

(* apply_recover_backend_identity *)
RecoverBackendIdentity(id, tok, sid) ==
    LET row == sessions[id]
    IN  /\ Live(id) /\ row.inc = tok
        /\ row.pane # None /\ row.dir # None /\ row.canon
        /\ ~LifecycleResourceConflict(id, row.pane, sid, row.dir)
        /\ ~row.backend /\ row.sid = None /\ row.cred = 0
        /\ ~BoundElsewhere(id, sid)
        /\ ~DormantPairConflict(Ids, sid)
        /\ SetPair(id, sid)

-----------------------------------------------------------------------------
(* A crash of the daemon and its restart.  What the lifecycle operations   *)
(* write is on disk before they answer, so the file holds the variables.   *)

(* The claims on backend pairs that validate_session_authority collects    *)
(* from the file, each as the pair, its owner's ID and its incarnation.    *)
PairClaims ==
    LET claim(id, row) == [sid |-> row.sid, id |-> id, inc |-> row.inc]
    IN  {claim(id, sessions[id]) : id \in {j \in Ids : Live(j)}}
        \cup {claim(id, dormant[id]) : id \in {j \in Ids : Parked(j)}}
        \cup {claim(id, leases[id].prev) : id \in {j \in Ids : leases[j].prev.inc # 0}}
        \cup {[sid |-> leases[id].sid, id |-> id, inc |-> leases[id].sidOwner] :
                 id \in {j \in Ids : leases[j].sidOwner # 0}}

(* load_sessions accepts the file: one owner per pair, no ID both live and *)
(* dormant, no half pair in a tombstone or in the incumbent of a restart.  *)
Loadable ==
    /\ \A c, d \in PairClaims : c.sid # None /\ c.sid = d.sid => c = d
    /\ \A id \in Ids : ~(Live(id) /\ Parked(id))
    /\ \A id \in Ids : Parked(id) => dormant[id].sid # None /\ dormant[id].dir # None
    /\ \A id \in Ids : leases[id].prev.backend => leases[id].prev.sid # None
    /\ \A id \in Ids : leases[id].target # 0 => /\ leases[id].phase = "Restarting"
                                                /\ leases[id].prev.inc = leases[id].inc
                                                /\ leases[id].target > leases[id].inc
    /\ \A id \in Ids : leases[id].sidOwner # 0 =>
          leases[id].sidOwner = CASE leases[id].phase = "Stopping"   -> leases[id].inc
                                  [] leases[id].phase = "Restarting" -> leases[id].target
                                  [] OTHER                           -> 0

(* abandoned_lease_owns_staged_row *)
AbandonedLeaseOwns(lease, row) ==
    \/ lease.phase = "Starting" /\ row.inc = lease.inc
    \/ /\ lease.phase = "Restarting"
       /\ \/ lease.pane # None /\ lease.pane = row.pane /\ lease.paneOwner = row.inc
          \/ IF lease.target # 0 THEN row.inc = lease.target ELSE row.inc # lease.inc
    \/ /\ lease.phase = "Stopping"
       /\ row.inc = lease.inc /\ lease.pane = row.pane /\ lease.paneOwner = lease.inc

(* What a restart of the daemon takes for the high water mark: the one in  *)
(* the file, not (the faulty alternative) the newest live incarnation.     *)
NewestLive        == CHOOSE n \in 0..MaxInc :
                        /\ n = 0 \/ \E id \in Ids : sessions[id].inc = n
                        /\ \A id \in Ids : sessions[id].inc <= n
RestoredHighWater == highWater

(* restore_persisted_sessions: a staged restart gives way to its incumbent,*)
(* the row of any other interrupted operation is dropped, and the leases   *)
(* are released.  Rows whose pane died meanwhile (gone) become dormant; a  *)
(* row without a pane survives only if its backend is served over HTTP.    *)
Restore(gone) ==
    LET incumbent(id) ==
            IF /\ leases[id].phase = "Restarting"
               /\ leases[id].prev.inc # 0
               /\ Live(id) /\ sessions[id].inc = leases[id].target
            THEN leases[id].prev ELSE sessions[id]
        kept(id) == IF Leased(id) /\ AbandonedLeaseOwns(leases[id], incumbent(id))
                    THEN NoRow
                    ELSE [incumbent(id) EXCEPT !.cred = 0, !.scanned = FALSE]
    IN  /\ Loadable
        /\ \A id \in Ids : kept(id).inc # 0 /\ kept(id).pane = None /\ ~kept(id).backend =>
                              id \in gone
        /\ sessions' = [id \in Ids |-> IF id \in gone THEN NoRow ELSE kept(id)]
        /\ dormant' = [id \in Ids |-> IF id \in gone /\ Recoverable(kept(id))
                                      THEN TombstoneOf(kept(id))
                                      ELSE dormant[id]]
        /\ leases' = [id \in Ids |-> NoLease]
        /\ highWater' = RestoredHighWater

-----------------------------------------------------------------------------
Tokens == 1..highWater

LeaseStep(id) ==
    \/ ReserveStart(id)
    \/ \E tok \in Tokens :
          \/ \E pane \in Panes : RecordInertStartPane(id, tok, pane)
          \/ \E dir \in Dirs : RecordProjectDirClaim(id, tok, dir)
          \/ \E dir \in Dirs, cred \in {0, tok} : CommitReservedStart(id, tok, dir, cred)
          \/ \E sid \in Sids \cup {None} : FinalizeReservedStart(id, tok, sid)
          \/ \E pane \in Panes : RollbackReservedStart(id, tok, pane)
          \/ AbortLifecycle(id, tok)
          \/ ClaimExistingStart(id, tok)
          \/ \E pane \in Panes : ClaimExistingStop(id, tok, pane)
          \/ \E pane \in Panes : CompleteOwnedStop(id, tok, pane)

RestartStep(id) ==
    \E tok \in Tokens :
        \/ \E renew, withCred \in BOOLEAN : StageRestartLaunch(id, tok, renew, withCred)
        \/ \E target \in Tokens :
              \/ \E sid \in Sids : RecordRestartBackendClaim(id, tok, target, sid)
              \/ \E sid \in Sids : ClearRestartBackendClaim(id, tok, target, sid)
              \/ \E sid \in Sids \cup {None}, dir \in Dirs \cup {None} :
                    CompleteRestartLaunch(id, tok, target, sid, dir)
              \/ RollbackRestartLaunch(id, tok, target)

RegistrationStep(id) ==
    \/ \E m \in ApiMetas : Register(id, m)
    \/ \E pane \in Panes, m \in Metas : RegisterIfPaneUnbound(id, pane, m)
    \/ \E tok \in Tokens, old \in Panes, new \in Panes :
          ReclaimMissingBackendPane(id, tok, old, new)
    \/ \E pane \in Panes, sid \in Sids, dir \in Dirs : ClaimLocalSession(id, pane, sid, dir)
    \/ \E new \in Ids : Rename(id, new)
    \/ \E dir \in Dirs : UpdateMetadata(id, dir)

DormancyStep(id) ==
    \/ Remove(id)
    \/ \E tok \in Tokens :
          \/ \E pane \in Panes \cup {None} : DormantOwned(id, tok, pane)
          \/ \E m \in HookMetas : ReplaceReusedPaneOwner(id, tok, m)
          \/ \E pane \in Panes : RecoverDormant(id, tok, pane)
          \/ \E dir \in Dirs : RemoveIfStale(id, tok, dir)

BindingStep(id) ==
    \E sid \in Sids, tok \in Tokens :
        \/ BindBackendIdentity(id, sid, tok)
        \/ AdoptBackend(id, tok, sid)
        \/ RecoverBackendIdentity(id, tok, sid)

Next ==
    \/ \E id \in Ids : \/ LeaseStep(id)
                       \/ RestartStep(id)
                       \/ RegistrationStep(id)
                       \/ DormancyStep(id)
                       \/ BindingStep(id)
    \/ \E gone \in SUBSET Ids : Restore(gone)

Spec == Init /\ [][Next]_vars

-----------------------------------------------------------------------------
(* The incarnations an ID has in use: of its row, its tombstone, its lease *)
(* and the two rows of its staged restart.                                 *)
TokensOf(id) == {sessions[id].inc, dormant[id].inc, leases[id].inc,
                 leases[id].target, leases[id].prev.inc} \ {0}

HeldTokens == UNION {TokensOf(id) : id \in Ids}

(* Type correctness.  No owner in use is newer than the allocator's high   *)
(* water mark, which is what allocate_incarnation relies on to hand out    *)
(* an incarnation that nobody has.                                         *)
TypeOK ==
    /\ sessions \in [Ids -> Row]
    /\ dormant \in [Ids -> Tombstone]
    /\ leases \in [Ids -> Lease]
    /\ highWater \in 0..MaxInc
    /\ HeldTokens \subseteq 1..highWater

(* The single lifecycle authority.  A Starting lease shares its ID with    *)
(* nobody but the row it published; a Restarting lease has the row it      *)
(* claimed, or the row it staged together with the incumbent it replaces;  *)
(* a Stopping lease has the row it is to remove, until it removed it.      *)
(* Panes and backend sessions in custody belong to the owner on duty.      *)
StartingAuthority(id) ==
    leases[id].phase = "Starting" =>
        /\ Live(id) => sessions[id].inc = leases[id].inc
        /\ leases[id].target = 0 /\ leases[id].prev = NoRow
        /\ leases[id].paneOwner \in {0, leases[id].inc}
        /\ leases[id].sidOwner = 0

RestartingAuthority(id) ==
    leases[id].phase = "Restarting" =>
        \/ /\ leases[id].target = 0 /\ leases[id].prev = NoRow
           /\ sessions[id].inc = leases[id].inc
           /\ leases[id].paneOwner = 0 /\ leases[id].sidOwner = 0
        \/ /\ leases[id].target > leases[id].inc
           /\ sessions[id].inc = leases[id].target
           /\ leases[id].prev.inc = leases[id].inc
           /\ leases[id].paneOwner \in {0, leases[id].target}
           /\ leases[id].sidOwner \in {0, leases[id].target}

StoppingAuthority(id) ==
    leases[id].phase = "Stopping" =>
        /\ Live(id) => sessions[id].inc = leases[id].inc
        /\ leases[id].target = 0 /\ leases[id].prev = NoRow
        /\ leases[id].paneOwner = leases[id].inc
        /\ leases[id].sidOwner \in {0, leases[id].inc}

LifecycleAuthority ==
    \A id \in Ids : /\ Leased(id) <=> leases[id].phase # "None"
                    /\ StartingAuthority(id)
                    /\ RestartingAuthority(id)
                    /\ StoppingAuthority(id)

(* No incarnation is in use under two IDs: delayed work that presents an   *)
(* owner of one ID can never be taken for the owner of another.            *)
TokensDistinct == \A i, j \in Ids : i # j => TokensOf(i) \cap TokensOf(j) = {}

(* A pane belongs to one live row at most, and a pane in the custody of a  *)
(* lease neither to a row nor to a lease of another ID: no two flows       *)
(* respawn, kill or type into the same pane for different sessions.        *)
PaneExclusive ==
    \A i, j \in Ids : i # j =>
        /\ sessions[i].pane # None => sessions[i].pane # sessions[j].pane
        /\ leases[i].pane # None   => leases[i].pane \notin {sessions[j].pane, leases[j].pane}

(* An ID never has a live row and a tombstone at once; save_sessions would *)
(* write a file that load_sessions refuses.                                *)
DormantNotLive == \A id \in Ids : ~(Live(id) /\ Parked(id))

(* An incarnation that went out of use is never used again, whatever was   *)
(* removed, rolled back or lost in a restart of the daemon: an owner a     *)
(* delayed caller still holds cannot come to denote somebody else.         *)
NoTokenReuse ==
    [][/\ highWater' >= highWater
       /\ HeldTokens' \subseteq HeldTokens \cup ((highWater + 1)..highWater')]_vars

(* While a stop is in progress its row does not change, unless by being    *)
(* removed, and no other session comes into possession of its pane.        *)
StoppingFrozen ==
    [][\A id \in Ids :
          leases[id].phase = "Stopping" /\ leases'[id] = leases[id] =>
              /\ sessions'[id] \in {sessions[id], NoRow}
              /\ \A j \in Ids \ {id} : sessions'[j].pane = leases[id].pane =>
                                         sessions[j].pane = leases[id].pane]_vars

(* A lease ends before another one of the same ID begins, and a staged     *)
(* restart keeps the incumbent it will be rolled back to.                  *)
LeaseNeverStolen ==
    [][\A id \in Ids :
          Leased(id) /\ leases'[id] # NoLease =>
              /\ leases'[id].inc = leases[id].inc
              /\ leases'[id].phase = leases[id].phase
              /\ leases[id].target # 0 => /\ leases'[id].target = leases[id].target
                                          /\ leases'[id].prev = leases[id].prev]_vars

(* Two owners of one backend pair: a reply or a prompt for the pair would  *)
(* reach the wrong session.                                                *)
Shared(sid) ==
    \/ \E i, j \in Ids : /\ i # j
                         /\ sessions[i].sid = sid \/ dormant[i].sid = sid
                         /\ sessions[j].sid = sid \/ dormant[j].sid = sid
    \/ \E i \in Ids : sessions[i].sid = sid /\ dormant[i].sid = sid

(* A pair becomes shared only when a restart ends: no registration, claim, *)
(* recovery, adoption, binding, rename or stop makes a second owner.       *)
PairsStayDistinct ==
    [][\A sid \in Sids :
          ~Shared(sid) /\ Shared(sid)' =>
              \E id \in Ids : /\ leases[id].phase = "Restarting"
                              /\ leases'[id] = NoLease]_vars
=============================================================================
