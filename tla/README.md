# Verification of the ouija daemon

ouija runs coding agents ("sessions") in tmux panes, gives each a public ID, lets
them send messages to each other, starts, restarts and stops them on request and on
schedule, and brings everything back after the daemon was restarted. This directory
holds TLA+ models of the parts of the daemon in which most can go wrong: who owns a
session ID, its pane, its server-side session and its directory, who owes whom an
answer, what a session is told and how often, and what peers believe about each
other, while requests, hooks, timers, messages, crashes and failing commands
interleave.

Paths below are relative to the repository; `daemon_protocol.rs` and the other
sources without a directory are in `src/`. About half of the lines of the large
source files are their tests.

## The system

| Part | State | Operations | Interacts with | Modelled in |
|---|---|---|---|---|
| session registry (`daemon_protocol.rs`, wrapped by `state.rs`) | `DaemonState`: live rows, tombstones (dormant sessions), lifecycle leases, the high water mark of incarnations, aliases, pending replies | critical sections under the `protocol` write lock, each of which returns effects to execute after it | everything | `Lifecycle` |
| flows (`nostr_transport.rs`) | local variables of an async function, held over awaits | start, restart (soft, hard, resuming), kill, recover-lease | registry, tmux, OpenCode over HTTP | `Flows` |
| persistence (`persistence.rs`) | `sessions.json` | save after lifecycle sections, load and validate at start | registry, `main.rs` | `Lifecycle`, `ActiveContext` |
| restore (`main.rs`) | none | recover abandoned leases, sort out dead panes | registry, tmux, OpenCode | `Lifecycle`, `Flows` |
| hooks (`hooks.rs`) | none | SessionStart, SessionEnd, Stop, post-compact, tool activity | registry, agents | `Flows`, `ActiveContext`, `Agents` |
| scanner and reaper (`state.rs`) | attestations, suppressed panes | register unknown panes, park rows whose pane died | registry, tmux | `Lifecycle`, `Flows` |
| delivery (`api.rs`, `tmux.rs`) | pending replies, queues of panes, pending prompts | send, inject, retry | registry, backends, agents | `Replies` |
| federation (`transport.rs`, `nostr_transport.rs`, `daemon_protocol.rs`) | sequence numbers, remote rows, aliases, authorised peers | announce, list, rename, remove, send, connect, disconnect | peers over Nostr relays | `Mesh`, `Replies` |
| active context accounting (`daemon_protocol.rs`, `state.rs`) | per row: segment, accumulated time, due flag, stop boundary | start and stop of activity, claim of the boundary, notice | hooks, restart flow | `ActiveContext` |
| scheduler (`scheduler.rs`) | table of tasks | tick, trigger, prompt, respawn, revive | flows, delivery | `Tasks`, `Revival` |
| session agent (`session_agent.rs`) | one actor per owner: turn, compact continuation, queued rechecks, timers | hooks, rechecks, compact, rename, stop | registry, delivery | `Agents` |
| rollover (`rollover.rs`) | private files with a one-shot continuation | prepare, adopt, clean up | CLI | `Rollover` |
| sender claims (`daemon_protocol.rs`, `state.rs`) | attestations of panes and backends | validate a sender, claim an identity | registry | its registry side in `Lifecycle` |
| tmux, backends, admin UI, CLI, configuration, project index | none of their own that the above relies on | adapters | | |

What makes it hard: no lock is held over the external work of a flow, so a flow
that comes back from an await may find its ID restarted, stopped, renamed or taken
by somebody else. The daemon's answer is an *owner* (ID and incarnation), a
*lease* that reserves an ID for one flow, the *custody* of panes and backend
sessions recorded in the lease before they are touched, and *gates*, one async
mutex for each pane, backend session and directory. A command may fail with or
without effect, a pane may die at any time, and the daemon may go down between any
two steps and must then undo what the leases on disk describe. Around the registry
stand structures with locks and files of their own: the table of agents, the tasks,
the mailboxes, the peers. What the registry decides reaches them later, as effects,
messages or broadcasts, in an order nobody fixes.

Correct means, part by part: the registry keeps IDs, incarnations, panes and
backend pairs apart and never revives an old owner; a flow touches only what is its
own, ends, leaves nothing behind, and its failure leaves a state from which the
next flow can go on; a restart of the daemon strands neither processes nor server
turns; a pending reply is cleared only by a reply or by the end of a party; peers
end up agreeing about who is where; accounting never loses or doubles a segment and
a notice is given once; a task that is due is fired, one that is gone is not;
a continuation is told, or adopted, at most once.

## Modules

| Module | Models | Kind |
|---|---|---|
| `Lifecycle` | session registry | state machine, properties, faulty variants of operations |
| `LifecycleProofs` | | inductive invariant, theorems, proofs |
| `Flows` | flows, panes, server-side turns, restart of the daemon, over `Lifecycle` | state machine, fairness, properties, faulty variants |
| `FlowsProofs` | | that the flows implement `Lifecycle`, that stops are confirmed, proofs |
| `PanesProofs` | | that no lease is leaked, and what is in the panes, proofs, on top of `FlowsProofs` |
| `Revival` | what a firing of a task does to its session, among the flows of `Flows` | state machine that extends `Flows`, faulty variants |
| `Tasks` | the table of tasks, ticks, triggers, restarts | state machine, fairness, properties, faulty variants |
| `TasksProofs` | | inductive invariant, theorems, proofs |
| `ActiveContext` | accounting of one session, the notice | state machine, fairness, properties, faulty variants |
| `ActiveMeter` | what the accounting promises: a meter that runs while the session is active | abstract specification |
| `ContextProofs` | | inductive invariant, theorems, the refinement of `ActiveMeter`, proofs |
| `Replies` | sends, the obligations between sessions, reminders, what peers do to both | state machine, properties, faulty variants |
| `RepliesProofs` | | inductive invariant, theorems, proofs |
| `Agents` | the agents of sessions, the table of them, compacts, rechecks | state machine, fairness, properties, faulty variants |
| `AgentsProofs` | | inductive invariants, theorems, proofs |
| `Rollover` | continuations in files, processes that are killed, power failures | state machine, properties, faulty variants |
| `RolloverProofs` | | inductive invariant, theorems, proofs |
| `Mesh` | a daemon and a peer over a network that loses, repeats and reorders | state machine, fairness, property, faulty variants |

Each of the state machines has an instance for TLC, `MCLifecycle`, `MCFlows`,
`MCRevival`, `MCTasks`, `MCContext`, `MCReplies`, `MCAgents`, `MCRollover` and `MCMesh`.

Definitions marked "faulty:" in a comment are variants with a plausible bug. No
specification uses them; putting one in place of the definition it varies shows
that the property it is made for notices.

How the modules compose. `Flows` extends `Lifecycle` and `Revival` extends `Flows`:
their steps are made of the registry's critical sections, and `RegistryRefined` says
that the flows use the registry only as `Lifecycle` allows: TLC checks it and
`FlowsRefine` proves it, so that what is proved of the registry holds of the flows.
`ActiveContext` implements `ActiveMeter` through a refinement mapping. `Tasks` says
when a firing begins and ends, and `Revival` what it does in between. `Replies` holds what the
messages of a peer do to obligations, `Mesh` what they do to rows and aliases.
`Agents` and `ActiveContext` each carry as much of the registry as they depend on.

### Lifecycle

Every action is one critical section and has the name of the function it
translates: `ReserveStart` is `reserve_start`, `StageRestartLaunch` is
`stage_restart_launch`. Guards are the early returns of the function. The
parameters are what a caller brings: an ID, an incarnation `tok` that may be stale,
a pane, a backend session. `Next` lets every section happen at any time with any
parameters, which covers every flow that could be written over the registry;
`Restore` is the restart of the daemon.

Simplifications: an owner is represented by its incarnation, since all maps are
indexed by the ID; one kind of backend, so that a backend pair is its session ID;
the canonical identity of a project is its directory plus whether it is known;
aliases, pending replies, remote rows and accounting are in other modules or left
out, and of the conditions that read them the model allows more than the code
(`scanner_candidate_is_reclaimable` also asks that nothing refers to a row). The
marker an old owner left in the tmux variables of a pane is abstracted into whether
a pane is fresh. Sections that only tests call (`RebindBackend`, `RemoveOwned`,
`stage_fresh_launch`, `rollback_launch` with a previous row) are left out. The file
equals the memory at every point, which holds for the lifecycle sections, which save
under the lock and undo themselves when that fails, but not for ordinary events.
A file that `load_sessions` refuses disables `Restore`: that daemon does not start.

### Flows

A worker is a request, or a task that works like one. `work` holds the local
variables of its flow and where it stands; `proc` the incarnation the process in a
pane exports (`OUIJA_SESSION_INCARNATION`), `ran` the panes a backend was launched
in, `turn` the sessions of the OpenCode server and whether a turn runs in them.
`holder` and `stray` are history variables: whose flow took the lease of an ID last,
and what a failed respawn left in a pane. Each step
of a flow is one section of the registry (`Try`, or `Attempt` where the condition of the
section has a name: applied, or refused without effect), one tmux command or one HTTP request:

* start: `StartReserve`, `StartDir`, `StartCreate`, `StartRecord`, `StartCommit`,
  `Launch`, (`Make`, `Attach`,) `StartFinalize`, `Release`; failures go through
  `StartDiscard` before the commit and `StartCleanup`, `StartRollback` after it;
* restart: `RestartClaim`, `RestartSnapshot`, `RestartStage`, then soft (`Custody`,
  `Make`, `Claim`, `Attach`, `Prompt`) or hard (`Inspect`, `Custody`, `Respawn` or
  `Fallback`, `CustodyNew`, `Launch`, and for HTTP `Serve`, `Make`, `Claim`,
  `Attach`), `RestartComplete`, `Release`; failures go through `Undo`, `Clear`,
  `Unmade`, `Rollback`, `KillProvisional` and `RestartFailed`, which decides whether
  the lease is kept for the next start of the daemon;
* kill: `KillClaim`, `KillRecheck`, `KillAbort`, `KillGate`, `KillPane`,
  `KillComplete`, `Release`;
* recover-lease: `RecoverRead`, `RecoverReplay`, `Release`;
* around them: `PaneDies`, `Reap`, `Deliver`, `TurnEnds`, `HookBinds`, `Reboot`.

One backend kind per behaviour (`http`): Claude Code and Codex run their turns in
the pane, OpenCode in a server. Panes and backend sessions are never reused. The
gate of a pane is held over several steps by a stop only; every other section holds
it within one step and waits for it (`Gated`, `Free`). A `respawn-pane` that fails may
have replaced the process or not; `Respawn` has the clean-up that follows
(`nostr_transport.rs:4322`), and its failures. Writes succeed and nobody
cancels a request. The restore at start is one step, `Reboot`, and succeeds; a
server it cannot reach makes the real one give up and leave the file as it is.

### Revival

A firing is one more kind of flow of a worker (`execute_injection`). `TaskRead`
reads the row; `TaskProbe` looks for a backend in the pane that row had. A session
that lives is prompted or, when the task asks for a conversation of its own,
respawned in its pane (`TaskRecheck`, `TaskClaim`, `TaskStage`, `TaskCustody`,
`TaskRespawn`, `TaskFinish`); one whose pane is dead gets a new pane under a restart
lease, and one that is missing a row (`TaskReserve`, `TaskDir`, `TaskCreate`,
`TaskRecord`, `TaskCommit`, `TaskAuthority`, `TaskType`, `TaskReady`,
`TaskComplete`). Failures take back the pane, the row and the lease (`TaskDiscard`,
`TaskPaneless`, `TaskRollback`, `TaskRollbackStart`). Only backends driven in their
panes; prompts are not modelled.

### Tasks

`tasks` is the table, `due` what is left of the IDs a tick collected, `run` the
firings under way, with the copy of the task each works on. `Create`, `Delete`,
`Enable`, `Disable` and `Trigger` are the requests; `Collect` and `Fire` the tick;
`Update` and `Finish` the end of a firing; `Reboot` recomputes the next runs.
`ended` and `after` are histories. Times are "none", "later" and "due"; a cron
expression that never matches is left out.

### ActiveContext

One session with its row, tombstone, incumbent of a staged restart, and the same
three as last written to disk. `Hook` puts a message into the mailbox of the agent,
`HandleActive` and `HandleStopped` are the agent's; a stop over the limit spawns a
task, which goes through `Snapshot` (`notify_active_context_restart_due` up to the
gate) and `Claim`. `Persist` is the write after a stop or start of activity, which
may come late or never. `Launch`, `Register`, `Remove`, `DormantOwned`,
`RecoverDormant`, `ClaimRestart`, `Stage`, `Complete`, `Rollback`, `AbortRestart`
and `Reboot` are the sections that move the accounting from row to row. A notice
counts as given when it is claimed: one whose injection fails after that is lost
until the next turn (`state.rs:818`). The clock does not step back.

`ActiveMeter` is the promise: each context has a meter, which starts at zero with the
context, runs exactly while the session is active, is set back by nothing, and may be
put aside and come back. Contexts are numbered; `contexts` and the field `ctx` of a row
are histories that say how many have begun, at a launch or a restart with a fresh
context, and which one a row accounts for. `Meter` maps the accumulated time plus that
of the open segment to the meter, and `ctx` to its context: a registration, a rollback or
a hook that zeroed the time of a row would not be a step of `ActiveMeter`.

### Replies

`pending` is `pending_replies`: for each local session the questions it has not
answered, as a set: the order of the vector tells only which of several entries with a
number is found first, and two have one only by "collision"; `Found` then leaves
open which it is. A send is a slot of `calls` that goes through the critical sections of
`send_msg` (and of its twin `_apply_and_execute`): `Send` applies the event, captures
the sender's entry before and after, and reserves it (`Record`); `Deliver` is everything between
the locks, and succeeds or fails; then `Finalize`, or `ClearFailed` and `Unwind`, the
two halves of `rollback_failed_delivery`, or `Unwind` alone when there was no
receiver. `IncomingSend` is the send of a peer, which has no roll-back of a sender's
state. `RemoveSession` stands for removal and dormancy; its effect is a member of
`sweeps` until `ExecuteSweep` carries it out, under another lock. `DeletePendingReply`
is the dismissal by hand, `RestartReminder` the update of metadata by a restart.
`Announce`, `SessionList`, `IncomingRemove` and `IncomingRenamed` are the messages of
peers, whose effect on buckets is a sweep of bare IDs.

The history is in `owed`, `settled` and `abandoned`: an obligation is owed from the
moment its question was delivered until the debtor's final reply has been, it was
dismissed, or a party is gone. Obligations name debtor, number and asker, and follow
renames. A registration replaces another session of its pane (`Register`); nothing is
done about the obligations of that one, which are abandoned: owed by nobody any more,
settled by nothing, and perhaps still in a bucket.

Simplifications: the display prefix of a peer is its npub; a delivered reply may be
`Accepted`, `Ambiguous` or `Queued`, which the code treats alike; a receiver without a
pane or an HTTP session is a nondeterministic refusal; a sender need not be
registered, as `/api/send` does not ask; numbers are shared by local sends and, unless
`Disorder` says otherwise, not given twice. Text, logs, people as correspondents,
aliases (a send to an alias fails like one to nobody), leases (they refuse some sends
and renames) and the file are left out. No send is cancelled. The branch of the
roll-back that puts a reminder back never changes anything: the reservation puts it
back at once whenever the session lives, and then the roll-back returns early.

### Agents

The registry (`row`, `alias`) and the table of agents (`pub`) are two structures. A
registration, a rename and a removal change the first and leave effects on the second
in `todo`, which `Execute` takes in any order; a restart changes both under one lock.
`actor` and `box` are the actors with their mailboxes, and `Handle` one turn of
the actor's loop over one message. A request to compact parks its continuation
(`AskParks`), types the command (`AskTyped`) and takes the continuation back when
that fails (`AskUndoes`); its client may hang up (`AskLeaves`). A post-compact hook
drains the slot and injects (`HookDrains`, `HookInjects`). A delivery that was not
seen asks for a recheck (`PostAsks`, `PostGivesUp`). Timers and the reminders they
type are left out; a restart is not rolled back here.

### Rollover

A run is a process of the command line: `Begin` captures incarnation and time, `Lock`,
`Read`, then `Prepare`, `Adopt`, `AdoptAgain` or `CleanUp`, `Sync` and `Returns`. It may end
anywhere (`RunEnds`), and `PowerFails` leaves any of the records that were not
synced away. The payload and the comparison of working trees are left out, and the
`rollovers` directory is taken to be there for good: it is created by the first run
(`rollover.rs:368`), which syncs it but not its parent, so that a power failure soon
after that may lose it with the records in it.

### Mesh

A home daemon with its sessions, `renamed` (`local_rename_aliases`) and `seq`, and a
peer with `rows`, `alias` and `seen`. Every change of the home is one action with its
broadcast, which may be lost; `Gossip` sends the whole list under the current number.
`Receive` is the receive loop up to the check of the sender, `Apply` the rest;
`Deauthorize` and `Disconnected` are the two halves of `disconnect_node`.
Left out: aliases of bare IDs, the metadata of remote rows, a third daemon. Rows and
keyed aliases of different homes have different keys, so that homes are independent.


## What the runs check

| Run | Instance | States | Question |
|---|---|---|---|
| `lifecycle` | 2 IDs, 2 panes, 2 backend sessions, 1 directory, 3 incarnations | 172,442 | Do the critical sections, in any order and with any stale argument, keep IDs, incarnations, panes and pairs apart? |
| `flows` | 1 ID, 2 panes, 2 backend sessions, 2 workers, 3 incarnations | 380,593 | Do flows with failing commands and restarts of the daemon touch their own only, and leave nothing behind? |
| `flows_live` | the same with 2 incarnations, no symmetry | 119,574 | Does every flow end? |
| `revival` | 1 ID, 3 panes, 2 backend sessions, 2 workers, 3 incarnations | 556,099 | Do the answers of `flows` stand when a worker may be the firing of a task? |
| `tasks` | 2 IDs, 1 trigger, 2 runs counted | 756,781 | Is a firing neither lost nor doubled, nor one of a task that is disabled or gone? Is what is due fired? |
| `context` | limit 2, 2 deliveries of the notice, clock to 3, 2 incarnations, 2 turns, mailbox of 2 | 251,823 | Is time metered as promised, and the notice given, once? |
| `replies` | 2 sessions, 2 sends, 3 numbers | 1,988,829 | Do obligations and reminders survive failing and racing sends? |
| `replies_peers` | 2 IDs here and at a peer, 1 send, 2 numbers | 394,010 | Do they survive what a peer sends, and is nothing owed that nobody asked? |
| `agents` | 2 names, 2 compacts, 2 hooks, 2 incarnations, mailbox of 2, 1 rename | 4,398,660 | Is a continuation told at most once? |
| `agents_live` | 2 names, 1 compact, 1 recheck, 2 incarnations, mailbox of 1, 1 rename, 2 turns | 1,116,309 | Is what is queued looked at, and a compact answered? |
| `rollover` | 2 runs, 2 tokens, TTL 1, 3 incarnations, clock to 2 | 4,147,268 | Is a continuation adopted once, and kept until it is, over kills and power failures? |
| `mesh` | 2 IDs, 3 changes, 1 break, 2 messages on the wire | 864,052 | Does a peer that stays connected end up knowing what the home has? |

Why the bounds are enough. The properties of the registry relate at most two IDs
and at most two holders of a pane or pair. Three incarnations give an old owner, a
staged or new one and a third that comes after both; `MaxInc` plays `u64::MAX`, so
that the top of the range is reached. Two workers compete for one ID, which is
where flows meet, as they share nothing across IDs but panes, which are fresh or
somebody's. Instances of `flows` with three panes (660,308 states) and with four
incarnations (1,753,851) pass as well. Three messages are a question, a progress reply and a final
one, and two sends at once race with each other; with a peer there are four
correspondents. Two firings of one task, two deliveries of one notice, two compacts
and two hooks (the second of which may find what the first has left, or what a second
compact has parked), two rollover processes are the races in question, and the third party
(hook, tick, rename, restart) is there besides. Every action of every next-state
relation happens in some run, and every property fails for some "faulty:" variant.

Deadlock is checked in `lifecycle` only: the other instances stop when their bounded
supplies (incarnations, numbers, changes) are used up.

### Assumptions of the runs

Some runs leave out behaviour the code has, because their properties fail with it.
Each is named in the models, and described under findings.

* `replies` and `replies_peers` take `Disorder = {}`. Its members are a reply that
  names the wrong asker ("misaddressed", `api.rs:1139`), a number two daemons have
  given ("collision"), a rename in the middle of a conversation ("rename"), a peer's
  session with the ID of a local one ("shadow") and a name taken again before its
  clean-up ("hasty"). Each alone makes `Kept` fail in one of the two.
* `flows` uses `ExactSpec`, whose workers do not hit finding 3. `flows_live` uses
  the plain one.
* `revival` uses `RecheckedSpec`: the same, and a task looks at its pane again
  before it claims (finding 7).
* `RowMatchesPane`, `NoForeignKill` and `NoStrandedBackend` speak of backends driven
  in their panes. For OpenCode they do not hold: a hard restart respawns the pane
  before it talks to the server, and a server that refuses leaves the newcomer's pane
  under the incumbent's row (`nostr_transport.rs:4691`); a soft one respawns without
  looking at the process in the pane (`:6083`); and the rollback is on disk before
  the provisional pane is killed (`state.rs:4640`).
* `RowMatchesPane` and `NoStrandedBackend` except a process in `stray`: the target of a
  restart whose respawn failed after it had replaced the process, in a pane that could
  not be inspected or killed then (`nostr_transport.rs:4328`, `:4342`, `:4354`). See the
  further behaviour below.
* `StaysSettled` speaks of what was answered, dismissed or orphaned by a removal. What is
  abandoned is not settled: there is no clean-up to come for it.
* `PairsStayDistinct` excepts the end of a restart (finding 1), and `AdoptedOnce` a
  record adopted again before the adoption was synced ("weak").

### Fairness

* `Flows`: strong fairness for each worker. Gates are `tokio` mutexes, which are first
  come first served; every external call has a time limit.
* `ActiveContext`: weak fairness for `HandleActive`, `HandleStopped`, `Snapshot` and
  `Claim`: an actor goes on with its mailbox and a spawned task runs.
* `Tasks`: weak fairness for `Collect`, `Fire`, `Update` and `Finish`: the scheduler is
  one loop, and the waits of a firing are bounded (`REVIVAL_TIMEOUT_SECS`,
  `TUI_READY_TIMEOUT_SECS`).
* `Agents`: weak fairness for `Handle`, for `AskFails`, and for what ends the typing of a
  compact. A call whose mailbox was dropped returns an error; typing is bounded by
  `INJECT_ATTEMPT_TIMEOUT`.
* `Mesh`: strong fairness for `Gossip`, weak for `Receive`, `Apply` and `Disconnected`.
  The heartbeat of `main.rs` sends the list every `HEARTBEAT_CYCLES` rounds of the
  reaper, about a minute, and relays do not lose every one of them.

## Findings

Each was found by TLC with a property that states the text quoted; the models keep
the behaviour, and the runs step around it as said above.

1. *Pairs shared after a roll-back.* `rollback_restart_launch`
   (`daemon_protocol.rs:3979`) brings the incumbent back with its pair, and does not
   look whether somebody adopted that pair while the restart was staged.
   `docs/superpowers` wants a pair to belong to one session (design of 2026-07-31,
   line 632).
2. *A file the daemon refuses.* A staged resuming restart has the pair of its
   incumbent in both rows; `load_sessions` (`persistence.rs:517`) takes that for a
   duplicate. A crash at that moment leaves a daemon that does not start. `Loadable`.
3. *An abort that aborts another's lease.* `abort_lifecycle`
   (`daemon_protocol.rs:2331`) compares the owner only. After the roll-back of a
   restart the incumbent's old owner is on duty again, and a second flow may have
   claimed it; the first flow then releases that claim. Recover-lease has the same
   weakness. `Exact`.
4. *A restart that can never complete.* A resuming OpenCode restart whose server-side
   session is gone replaces it, but `complete_restart_launch`
   (`daemon_protocol.rs:3826`) requires the pair that was staged.
5. *Message numbers collide.* Each daemon counts its own; captures, discharges and
   roll-backs (`api.rs:1037`, `:1139`) compare the number alone. `apply_send` and its
   test (`daemon_protocol.rs:9246`) tell askers apart. `Disorder`, "collision".
6. *A peer's removal clears a local bucket.* Buckets are cleared by bare ID
   (`daemon_protocol.rs:5991`, `:6031`). `Disorder`, "shadow".
7. *A task revives what lives.* A pane found dead is not looked at again before the
   claim (`scheduler.rs:529`): when the session came up in between, under the same
   incarnation, a second backend is launched. The comment at `scheduler.rs:27` says
   "revive with --continue if dead". `Rechecked`.
8. *A renamed session without an agent.* A second rename before the actor has handled
   the `Renamed` message of the first makes it stop (`session_agent.rs:295`), while
   the table keeps it; the comment at `session_agent.rs:653` takes the actor for alive.
9. *Ghost rows after a disconnect.* `disconnect_node` removes the rows of a peer
   "so future messages are rejected" (`state.rs:5779`), but the receive loop checks the
   sender before it applies: a message between the two brings a row back that no
   later list removes.

Further behaviour worth knowing, met on the way and contradicting no text:

* A message accepted while a stop aborts its turn begins one nobody stops
  (`api.rs:823`). A stop whose abort timed out keeps its lease until the next start
  (`nostr_transport.rs:1797`). Prompts are retried although the first may have arrived
  (`nostr_transport.rs:6903`).
* A respawn that failed late (`nostr_transport.rs:4322`): when the pane cannot be
  inspected or killed either, the flow rolls back the incumbent's row over a pane that
  runs the target. The rollback kills the provisional pane only where it differs from the
  one restored (`daemon_protocol.rs:3985`). The row can then be neither stopped nor
  restarted, as the owner of its process is not its own, until the pane dies; and if the
  daemon restarts while a stop has its lease, the row is removed and the process
  stays, as `restore_persisted_sessions` (`main.rs:1931`) does not expect that owner
  there.
* A registration of another ID in a pane removes the session that had it with
  `StopAgent` and an alias only (`daemon_protocol.rs:3490`): what it owes, and what
  others owe it, stays in the buckets, with no clean-up to come. The path that parks the
  incumbent calls `clear_orphaned_replies` (`daemon_protocol.rs:2808`).
* A rename moves a bucket under a send (`daemon_protocol.rs:4515`). A sender's claim is
  validated against rows that may change before the event (`daemon_protocol.rs:1796`).
* Agents: a rename executed before the `SpawnAgent` effect it overtook leaves the
  session without an agent, a remove before the rename an orphan; a name reused
  before `RenameAgent` loses its alias; the undo of a compact (`api.rs:1938`) drains
  what the current agent of the name has parked; rechecks die with their agent; a
  typing that timed out may still paste.
* Rollover: a process killed between sync and print leaves a pending record nobody
  knows of; prepare and clean-up may replace an adopted one whose adopter never got
  its payload.
* Tasks: a one-shot task may be fired twice (`main.rs:443`). Revival: a launch
  credential that cannot be written (`scheduler.rs:1807`) leaves pane, row and lease
  until the next start. Notices: one whose injection fails is lost (`state.rs:818`).
* Mesh: the guard on bare aliases (`daemon_protocol.rs:6071`) looks at the new name
  once, which misleads a hint, never a delivery; a repeated rename resets remote
  metadata until the next list; peers of the same daemon name share keys.

## What is proved

The proofs hold for every value of the constants that meets the assumptions named.

* `LifecycleProofs` (`NoneIsFresh`, `MaxIncIsNat`): `IInv`, which implies the safety
  properties of the registry but `PairsStayDistinct`. The invariants are not inductive:
  a roll-back brings back an incumbent the live row no longer shows. `IInv` adds what
  is known of incumbents inside leases: their incarnation is nobody else's and their
  pane is that of the staged row. `Local` reduces a step to the one ID it changes,
  the lemmas `Kept...` say what each kind of section leaves alone, `NextKept` collects
  them, and `StepOK` derives the action properties.
  `PairsDistinct` is the last part, from `PairsInv == IInv /\ Bare`. The sections look for
  a pair among live rows and parked tombstones; `Bare` says it is nowhere else. There
  is a lemma per family of sections (`...Apart`), and `RestoreApart` rests on what
  `load_sessions` refuses. The end of a restart is the exception the property names.
* `FlowsProofs`: `FlowsRefine` and its generalisation `FlowsImplementRegistry`, for
  flows that may also turn to a lease that is not theirs. Every step of a flow is a
  section of the registry, with arguments the registry expects, or leaves it alone.
  Owners are compared by the sections themselves and may be stale without harm; what
  the flows must not get wrong is the panes and credentials they pass, and `FInv`
  (`IInv /\ AllSeated /\ Working`) says that these are of the kind expected.
  Whether a section is applied or refused (`ENABLED` in `Try`) does not matter for
  this. `FlowsKeepAuthority` and `FlowsKeepLeases` carry the registry's properties over.
  `StopsAreConfirmed` adds to `FInv` that a flow about to remove a row it stopped saw
  the pane gone, and that a pane that is gone stays so (`DInv`).
* `PanesProofs` (`Dirs # {}`: a start finds a directory): `LeasesDontLeak`, in the
  behaviours of `ExactSpec`, as in run `flows`. A start, and a restart until it ends, is
  the flow that took the lease of its ID last and still has it, and what it remembers
  (owner, target, pane) is what row and lease say at that stage (`Duties`). So at most
  one flow works on an ID, sections are refused only where the flow copes, and a lease
  without a flow is one of those kept on purpose (`Kept`). A pane that is being created
  is nobody else's (`LooseApart`, `Born`).
  `RowsMatchPanes`, `BackendsAreKnown` and `FlowsSpareOthers` follow the processes, for
  sessions driven in their panes. None of the three is inductive: between the steps of
  a restart the pane of a row holds the incumbent, nothing, or the target. `Match` says
  which incarnations the panes of a row and of its lease can have in each phase, `Phys`
  what is known besides at each stage of a flow (a restart about to launch found the
  old pane empty; one about to complete has its target in the pane of its lease),
  `Plain` that such a flow never is at a stage that needs the server, and `Known` that
  a backend that runs is in a pane of the registry. A step touches one pane, which is
  no other ID's (`PanesApart`) and no other flow's (`LooseApart`), while elsewhere
  processes can only go (`Mild`): the rest is a lemma per stage (`...Driven`), and
  `RebootDriven` for the restart of the daemon, which judges every abandoned lease.
  What a failed respawn left in a pane (`stray`) is kept out of all that by looking at
  the panes through `own`, in which it counts as gone; the lemmas `Own...` carry the
  steps over. `FlowsSpareOthers` needs besides that a restart which examined its pane
  finds there, until it respawns, what it saw (`Seen`).
* `ContextProofs`: `IInv == Places /\ Leases /\ Segments /\ Others /\ Notices` with
  `ContextTypes`, `ContextNoticeOnce`, and `ContextMetered`, the refinement: every step
  maps to one of `ActiveMeter` or a stutter. The invariant says which of row,
  incumbent and tombstone may hold an open segment, in memory and on disk. `Contexts`
  adds that the row of a fresh restart stays provisional until it is complete, so
  that its completion does not zero what it has used: only `LaunchMeters` and
  `StageMeters` are steps `Begin`.
* `TasksProofs`: an invariant for each ID, that the firings under way account for the
  counter, and that whatever is under way after a disabling was collected before it:
  `TasksTypes`, `TasksCounted`, `TasksDisabled`, `TasksGone`.
* `RolloverProofs`: `Exclusive` (one run has the lock), `Written` and `Drawn` (records
  and tokens), `Safe` and `Claimed` (what an adopter has read is still so while it
  holds the lock): `ContinuationsOnce`, `ContinuationsKept`.
* `AgentsProofs` (`NoneAssumption`, `MaxIncAssumption`): `Mail` (a call is in the mailbox
  of the agent it was made to), `Placed` (a continuation is in one place at a time:
  parked, carried by a hook or told), `SpawnedOnce` and `Born` (an owner gets one
  agent), `Held` (a queued delivery is with an agent in mid turn):
  `ContinuationsTold`, `QueuedKept`.
* `RepliesProofs`: `RemindersKept` and `RepliesTyped` whatever the users do, and for
  `Disorder = {}`, as in the runs, `ObligationsKept`, `NoPhantoms` and `SettledStays`.
  The three hold each other up, in `RInv`. Numbers are given once (`Numbered`, `Slots`),
  so that what is found by its number is the obligation meant. A clean-up under way is
  of names without a row and of nothing owed (`Unswept`), and who owes has a row
  (`Housed`), so that a name can be taken again. What a send asks is in the debtor's
  bucket, settled or abandoned until it is delivered (`Question`), and what it may put
  back is an entry with the parties and the number it still has (`Answer`). Debts of a
  session replaced in its pane are in `abandoned`, of which nothing is claimed but that
  they are no debts of those who are left.

Model-checked only:

* `Revival`: the invariant of `PanesProofs` would have to be carried through the steps
  of a task's own flow as well.
* `Converges` of `Mesh`, and liveness under fairness (`FlowsEnd`, `NoticeComes`,
  `DueFires`, `AsksEnd`).

## Not modelled

* Sender claims: validating is a function of one reading of the registry and of tmux;
  what it changes are sections of `Lifecycle`.
* The queues of panes and the prompts inside a delivery: they depend on what a
  terminal shows and on timing. A delivery is accepted, queued, ambiguous or failed.
* The write of ordinary events to disk, except for the accounting: a crash may lose
  them, which the registry's properties tolerate for rows and bindings the hooks
  set again.
* Idle and stall timers: they type a text, or ask for a restart like any other.
* Requests that are cancelled because their client hung up, outside `Agents`.
* Human messages: commands of people end in the flows and sends above.
* Worktrees, which are git and the file system; relays and encryption, external
  libraries; the OpenCode plugin and the shell hooks, which call the API; the
  configuration, the admin UI and the project index, which keep no state that the
  above relies on.
