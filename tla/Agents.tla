-------------------------------- MODULE Agents --------------------------------
(***************************************************************************)
(* The agents of the sessions: one actor with a mailbox for every owner    *)
(* (a name and an incarnation), which keeps the continuation of a compact  *)
(* under way and the deliveries that could not be verified in mid turn     *)
(* (session_agent.rs, the agents of state.rs, compact in api.rs,           *)
(* post_compact in hooks.rs).                                              *)
(*                                                                         *)
(* The registry and the table of agents are two structures.  A restart     *)
(* changes both under one lock; a registration, a rename and a removal     *)
(* change the registry and leave effects on the table to whoever applied   *)
(* them, which are executed later, in any order.  A message is handled as  *)
(* a whole, and an agent that is stopped drops its mailbox.  A pane stays  *)
(* with its incarnation, and a restart is not rolled back.  Timers and the *)
(* reminders they make an agent type into its session are left out.        *)
(***************************************************************************)
EXTENDS Naturals, Sequences

CONSTANTS
    Names,      \* session IDs
    Asks,       \* requests to compact a session, each with a continuation
    Hooks,      \* post-compact hooks
    Posts,      \* deliveries whose text was not seen in the pane
    None,
    MaxInc,     \* bound on incarnations
    MaxBox,     \* bound on the length of a mailbox
    MaxRenames, \* bound on renames
    MaxTurns    \* bound on the hooks of turns

ASSUME NoneAssumption   == None \notin Names \cup Asks
ASSUME MaxIncAssumption == MaxInc \in Nat

VARIABLES
    row,        \* name -> the incarnation of its row, 0: no row
    alias,      \* name -> the name it was renamed to
    last,       \* the last incarnation given
    renames,    \* the number of renames
    turns,      \* the number of hooks of turns
    todo,       \* effects on the table of agents still to be executed
    pub,        \* incarnation -> the name its agent has in the table
    actor,      \* incarnation -> its actor
    box,        \* incarnation -> the mailbox of its actor
    ask,        \* request -> where it stands
    hook,       \* hook -> where it stands
    post,       \* delivery -> where it stands
    said        \* history: continuation -> the incarnations that were told it

registry == <<row, alias, last, renames>>
table    == <<pub, actor, box>>
callers  == <<ask, hook, post, said>>
vars     == <<registry, todo, turns, table, callers>>

Incs == 1..MaxInc

Unborn == [st |-> "unborn"]
Down   == [st |-> "down"]

(* an actor knows its owner by itself, whatever the table says *)
Fresh(n) == [st |-> "up", name |-> n, mid |-> FALSE, slot |-> None, checks |-> {}]

Up(i) == actor[i].st = "up"

Init ==
    /\ row = [n \in Names |-> 0]
    /\ alias = [n \in Names |-> None]
    /\ last = 0
    /\ renames = 0
    /\ turns = 0
    /\ todo = {}
    /\ pub = [i \in Incs |-> None]
    /\ actor = [i \in Incs |-> Unborn]
    /\ box = [i \in Incs |-> <<>>]
    /\ ask = [c \in Asks |-> [at |-> "new"]]
    /\ hook = [h \in Hooks |-> [at |-> "new"]]
    /\ post = [p \in Posts |-> [at |-> "new"]]
    /\ said = [c \in Asks |-> <<>>]

-----------------------------------------------------------------------------
(* The registry.                                                           *)

SpawnAgent(n, i)     == [op |-> "spawn", name |-> n, inc |-> i]
StopAgent(n, i)      == [op |-> "stop", name |-> n, inc |-> i]
RenameAgent(n, m, i) == [op |-> "rename", old |-> n, new |-> m, inc |-> i]

(* add_alias: chains collapse, and nothing is an alias of itself *)
AddAlias(a, old, new) ==
    [n \in Names |-> LET t == IF n = old \/ a[n] = old THEN new ELSE a[n]
                     IN  IF t = n THEN None ELSE t]

(* A registration takes the place of the row of its name, and of the row   *)
(* that had its pane (m), whose name becomes an alias.                     *)
Register(n, m) ==
    /\ last < MaxInc
    /\ m # n /\ (m # None => row[m] # 0)
    /\ last' = last + 1
    /\ row' = [k \in Names |-> CASE k = n -> last'
                                 [] k = m -> 0
                                 [] OTHER -> row[k]]
    /\ alias' = LET a == [alias EXCEPT ![n] = None]
                IN  IF m = None THEN a ELSE AddAlias(a, m, n)
    /\ todo' = todo \cup {SpawnAgent(n, last')}
                    \cup {StopAgent(k, row[k]) : k \in {k \in {n, m} \cap Names : row[k] # 0}}
    /\ UNCHANGED <<renames, turns, table, callers>>

Rename(n, m) ==
    /\ renames < MaxRenames
    /\ row[n] # 0 /\ row[m] = 0
    /\ renames' = renames + 1
    /\ row' = [row EXCEPT ![m] = row[n], ![n] = 0]
    /\ alias' = AddAlias([alias EXCEPT ![m] = None], n, m)
    /\ todo' = todo \cup {RenameAgent(n, m, row[n])}
    /\ UNCHANGED <<last, turns, table, callers>>

Remove(n) ==
    /\ row[n] # 0
    /\ row' = [row EXCEPT ![n] = 0]
    /\ todo' = todo \cup {StopAgent(n, row[n])}
    /\ UNCHANGED <<alias, last, renames, turns, table, callers>>

Stopped(i) == /\ actor' = [actor EXCEPT ![i] = Down]
              /\ box' = [box EXCEPT ![i] = <<>>]

(* stage_restart_launch takes the incumbent's agent out of the table and   *)
(* puts the target's in, under the lock of the registry                    *)
Restart(n) ==
    LET i == row[n]
    IN  /\ last < MaxInc /\ i # 0
        /\ last' = last + 1
        /\ row' = [row EXCEPT ![n] = last']
        /\ LET old == pub[i] = n
           IN  /\ pub' = [pub EXCEPT ![i] = IF old THEN None ELSE @, ![last'] = n]
               /\ actor' = [actor EXCEPT ![i] = IF old THEN Down ELSE @, ![last'] = Fresh(n)]
               /\ box' = [box EXCEPT ![i] = IF old THEN <<>> ELSE @]
        /\ UNCHANGED <<alias, renames, todo, turns, callers>>

-----------------------------------------------------------------------------
(* The table of agents.                                                    *)

Cast(i, msg) == box' = [box EXCEPT ![i] = Append(@, msg)]
Room(i)      == Len(box[i]) < MaxBox

(* spawn_session_agent: only while the owner is current *)
ExecuteSpawn(e) ==
    /\ e.op = "spawn"
    /\ IF row[e.name] = e.inc /\ pub[e.inc] = None
       THEN /\ pub' = [pub EXCEPT ![e.inc] = e.name]
            /\ actor' = [actor EXCEPT ![e.inc] = Fresh(e.name)]
            /\ UNCHANGED box
       ELSE UNCHANGED table

(* stop_session_agent: the entry of exactly this owner *)
ExecuteStop(e) ==
    /\ e.op = "stop"
    /\ IF pub[e.inc] = e.name
       THEN pub' = [pub EXCEPT ![e.inc] = None] /\ Stopped(e.inc)
       ELSE UNCHANGED table

(* rename_session_agent *)
ExecuteRename(e) ==
    /\ e.op = "rename"
    /\ IF row[e.new] = e.inc /\ pub[e.inc] = e.old
       THEN /\ pub' = [pub EXCEPT ![e.inc] = e.new]
            /\ IF Up(e.inc)
               THEN /\ Room(e.inc)
                    /\ Cast(e.inc, [kind |-> "Renamed", old |-> e.old, new |-> e.new])
               ELSE UNCHANGED box
            /\ UNCHANGED actor
       ELSE UNCHANGED table

Execute ==
    \E e \in todo :
        /\ ExecuteSpawn(e) \/ ExecuteStop(e) \/ ExecuteRename(e)
        /\ todo' = todo \ {e}
        /\ UNCHANGED <<registry, turns, callers>>

(* current_session_agent, current_owned_session_agent: the agent the table *)
(* has for the owner of a row                                              *)
Reachable(n) == row[n] # 0 /\ pub[row[n]] = n /\ Up(row[n])

Send(n, msg) == Reachable(n) /\ Room(row[n]) /\ Cast(row[n], msg)

-----------------------------------------------------------------------------
(* What comes to the agents: the hooks of turns, and deliveries.           *)

Notify(n, kind) ==
    /\ turns < MaxTurns
    /\ turns' = turns + 1
    /\ Send(n, [kind |-> kind])
    /\ UNCHANGED <<registry, todo, pub, actor, callers>>

(* A delivery whose text was not seen asks the agent of its receiver.      *)
PostAsks(p, n) ==
    /\ post[p].at = "new" /\ row[n] # 0
    /\ IF Reachable(n)
       THEN /\ Send(n, [kind |-> "Recheck", post |-> p])
            /\ post' = [post EXCEPT ![p] = [at |-> "asked", inc |-> row[n]]]
       ELSE /\ post' = [post EXCEPT ![p] = [at |-> "loud"]]
            /\ UNCHANGED box
    /\ UNCHANGED <<registry, todo, turns, pub, actor, ask, hook, said>>

(* DELIVERY_RECHECK_QUERY_TIMEOUT_MS, or the agent is stopped *)
PostGivesUp(p) ==
    /\ post[p].at = "asked"
    /\ post' = [post EXCEPT ![p] = [at |-> "loud"]]
    /\ UNCHANGED <<registry, todo, turns, table, ask, hook, said>>

-----------------------------------------------------------------------------
(* compact: park the continuation, type the command, and if that fails     *)
(* take the continuation back.                                             *)

AskParks(c, n) ==
    /\ ask[c].at = "new" /\ row[n] # 0
    /\ IF Reachable(n)
       THEN /\ Send(n, [kind |-> "TrySet", ask |-> c])
            /\ ask' = [ask EXCEPT ![c] = [at |-> "setting", name |-> n, inc |-> row[n],
                                                call |-> row[n]]]
       ELSE /\ ask' = [ask EXCEPT ![c] = [at |-> "refused"]]
            /\ UNCHANGED box
    /\ UNCHANGED <<registry, todo, turns, pub, actor, hook, post, said>>

AskTyped(c) ==
    /\ ask[c].at = "typing"
    /\ ask' = [ask EXCEPT ![c].at = "ok"]
    /\ UNCHANGED <<registry, todo, turns, table, hook, post, said>>

(* the agent that the name has by now is asked to drain *)
AskUndoes(c) ==
    LET n == ask[c].name
    IN  /\ ask[c].at = "typing"
        /\ IF Reachable(n)
           THEN /\ Send(n, [kind |-> "Undo", ask |-> c])
                /\ ask' = [ask EXCEPT ![c].at = "undoing", ![c].call = row[n]]
           ELSE /\ ask' = [ask EXCEPT ![c].at = "failed"]
                /\ UNCHANGED box
        /\ UNCHANGED <<registry, todo, turns, pub, actor, hook, post, said>>

(* faulty: nobody tells the caller that the agent is gone *)
AskForgotten(c) ==
    /\ ask[c].at = "setting" /\ ~Up(ask[c].call)
    /\ ask' = [ask EXCEPT ![c].at = "refused"]
    /\ UNCHANGED <<registry, todo, turns, table, hook, post, said>>

(* an agent that stops drops its mailbox, and the calls in it fail *)
AskFails(c) ==
    /\ ask[c].at \in {"setting", "undoing"} /\ ~Up(ask[c].call)
    /\ ask' = [ask EXCEPT ![c].at = IF @ = "setting" THEN "refused" ELSE "failed"]
    /\ UNCHANGED <<registry, todo, turns, table, hook, post, said>>

(* the client hangs up, which ends the request at its await *)
AskLeaves(c) ==
    /\ ask[c].at \in {"setting", "typing", "undoing"}
    /\ ask' = [ask EXCEPT ![c].at = IF @ = "setting" THEN "quit" ELSE "left"]
    /\ UNCHANGED <<registry, todo, turns, table, hook, post, said>>

-----------------------------------------------------------------------------
(* post_compact: drain the agent of the owner, then inject.                *)

HookDrains(h, n) ==
    /\ hook[h].at = "new"
    /\ Send(n, [kind |-> "Drain", hook |-> h])
    /\ hook' = [hook EXCEPT ![h] = [at |-> "draining", name |-> n, inc |-> row[n]]]
    /\ UNCHANGED <<registry, todo, turns, pub, actor, ask, post, said>>

(* the agent is stopped, or the client hangs up *)
HookEnds(h) ==
    /\ hook[h].at \in {"draining", "got"}
    /\ hook' = [hook EXCEPT ![h] = [at |-> "done"]]
    /\ UNCHANGED <<registry, todo, turns, table, ask, post, said>>

(* locked_inject_owned: only while the owner is current; else it is lost *)
HookInjects(h) ==
    LET f == hook[h]
    IN  /\ f.at = "got"
        /\ said' = IF row[f.name] = f.inc THEN [said EXCEPT ![f.text] = Append(@, f.inc)]
                                          ELSE said
        /\ hook' = [hook EXCEPT ![h] = [at |-> "done"]]
        /\ UNCHANGED <<registry, todo, turns, table, ask, post>>

-----------------------------------------------------------------------------
(* handle: the actor of incarnation i takes its next message.              *)

(* refresh_renamed_owner: the name under which the actor is current *)
KnownAs(i) ==
    LET n == actor[i].name
    IN  IF row[n] = i THEN n
        ELSE IF alias[n] # None /\ row[alias[n]] = i THEN alias[n] ELSE None

Goes(i, a) == /\ actor' = [actor EXCEPT ![i] = a]
              /\ box' = [box EXCEPT ![i] = Tail(@)]

HandleRenamed(i) ==
    LET msg == Head(box[i])
    IN  /\ msg.kind = "Renamed"
        /\ IF actor[i].name \in {msg.old, msg.new} /\ row[msg.new] = i
           THEN Goes(i, [actor[i] EXCEPT !.name = msg.new])
           ELSE Stopped(i)
        /\ UNCHANGED callers

(* reject_stale_message *)
HandleStale(i) ==
    /\ Head(box[i]).kind # "Renamed" /\ KnownAs(i) = None
    /\ Stopped(i)
    /\ UNCHANGED callers

HandleActive(i, a) ==
    /\ Head(box[i]).kind = "Active"
    /\ Goes(i, [a EXCEPT !.mid = TRUE])
    /\ UNCHANGED callers

(* faulty: a turn that ends leaves what was queued to the next one *)
HandleStoppedBare(i, a) ==
    /\ Head(box[i]).kind = "Stopped"
    /\ Goes(i, [a EXCEPT !.mid = FALSE])
    /\ UNCHANGED callers

(* run_pending_delivery_rechecks *)
HandleStopped(i, a) ==
    /\ Head(box[i]).kind = "Stopped"
    /\ Goes(i, [a EXCEPT !.mid = FALSE, !.checks = {}])
    /\ post' = [p \in Posts |-> IF p \in a.checks /\ post[p].at = "queued"
                                THEN [at |-> "checked"] ELSE post[p]]
    /\ UNCHANGED <<ask, hook, said>>

(* QueueDeliveryRecheck: queued also when the sender has given up by now *)
HandleRecheck(i, a) ==
    LET p == Head(box[i]).post
    IN  /\ Head(box[i]).kind = "Recheck"
        /\ Goes(i, IF a.mid THEN [a EXCEPT !.checks = @ \cup {p}] ELSE a)
        /\ post' = IF post[p].at = "asked"
                   THEN [post EXCEPT ![p] = IF a.mid THEN [at |-> "queued", inc |-> i]
                                                     ELSE [at |-> "loud"]]
                   ELSE post
        /\ UNCHANGED <<ask, hook, said>>

(* try_set_compact_continuation *)
HandleTrySet(i, a) ==
    LET c == Head(box[i]).ask
        free == a.slot = None
        open == ask[c].at = "setting"
    IN  /\ Head(box[i]).kind = "TrySet"
        /\ Goes(i, IF open /\ free THEN [a EXCEPT !.slot = c] ELSE a)
        /\ ask' = IF open THEN [ask EXCEPT ![c].at = IF free THEN "typing" ELSE "refused"]
                          ELSE ask
        /\ UNCHANGED <<hook, post, said>>

(* DrainPendingCompactContinuation: whatever is parked, unless the caller left *)
HandleUndo(i, a) ==
    LET c == Head(box[i]).ask
        open == ask[c].at = "undoing"
    IN  /\ Head(box[i]).kind = "Undo"
        /\ Goes(i, IF open THEN [a EXCEPT !.slot = None] ELSE a)
        /\ ask' = IF open THEN [ask EXCEPT ![c].at = "failed"] ELSE ask
        /\ UNCHANGED <<hook, post, said>>

(* faulty: the slot is read and not taken, the next hook finds it again *)
HandleDrainKeeps(i, a) ==
    LET h == Head(box[i]).hook
    IN  /\ Head(box[i]).kind = "Drain"
        /\ Goes(i, a)
        /\ hook' = IF hook[h].at # "draining" THEN hook
                   ELSE IF a.slot = None THEN [hook EXCEPT ![h] = [at |-> "done"]]
                   ELSE [hook EXCEPT ![h] = [at |-> "got", name |-> @.name, inc |-> @.inc,
                                             text |-> a.slot]]
        /\ UNCHANGED <<ask, post, said>>

HandleDrain(i, a) ==
    LET h == Head(box[i]).hook
        open == hook[h].at = "draining"
    IN  /\ Head(box[i]).kind = "Drain"
        /\ Goes(i, IF open THEN [a EXCEPT !.slot = None] ELSE a)
        /\ hook' = IF ~open THEN hook
                   ELSE IF a.slot = None THEN [hook EXCEPT ![h] = [at |-> "done"]]
                   ELSE [hook EXCEPT ![h] = [at |-> "got", name |-> @.name, inc |-> @.inc,
                                             text |-> a.slot]]
        /\ UNCHANGED <<ask, post, said>>

HandleCurrent(i) ==
    LET a == [actor[i] EXCEPT !.name = KnownAs(i)]
    IN  /\ KnownAs(i) # None
        /\ \/ HandleActive(i, a) \/ HandleStopped(i, a)
           \/ HandleRecheck(i, a)
           \/ HandleTrySet(i, a) \/ HandleUndo(i, a) \/ HandleDrain(i, a)

Handle(i) ==
    /\ Up(i) /\ box[i] # <<>>
    /\ HandleRenamed(i) \/ HandleStale(i) \/ HandleCurrent(i)
    /\ UNCHANGED <<registry, todo, turns, pub>>

-----------------------------------------------------------------------------
Next ==
    \/ \E n \in Names : \/ \E m \in Names \cup {None} : Register(n, m)
                        \/ \E m \in Names : Rename(n, m)
                        \/ Remove(n) \/ Restart(n)
                        \/ \E kind \in {"Active", "Stopped"} : Notify(n, kind)
                        \/ \E p \in Posts : PostAsks(p, n)
                        \/ \E c \in Asks : AskParks(c, n)
                        \/ \E h \in Hooks : HookDrains(h, n)
    \/ Execute
    \/ \E i \in Incs : Handle(i)
    \/ \E p \in Posts : PostGivesUp(p)
    \/ \E c \in Asks : AskTyped(c) \/ AskUndoes(c) \/ AskFails(c) \/ AskLeaves(c)
    \/ \E h \in Hooks : HookEnds(h) \/ HookInjects(h)

Spec == Init /\ [][Next]_vars

(* An actor goes on with its mailbox, a call to an actor that is gone      *)
(* returns, and typing into a pane is bounded (INJECT_ATTEMPT_TIMEOUT).    *)
FairSpec ==
    /\ Spec
    /\ \A i \in Incs : WF_vars(Handle(i))
    /\ \A c \in Asks : WF_vars(AskFails(c)) /\ WF_vars(AskTyped(c) \/ AskUndoes(c))

-----------------------------------------------------------------------------
(* A continuation is told at most once, to the incarnation it was parked   *)
(* for, and never when its request was refused or was given up before it   *)
(* was parked (try_set_compact_continuation, locked_inject_owned): over    *)
(* renames, restarts, hooks that come twice and clients that hang up.      *)
SaidOnce ==
    \A c \in Asks :
        said[c] # <<>> => /\ ask[c].at \in {"typing", "ok", "undoing", "failed", "left"}
                         /\ said[c] = <<ask[c].inc>>

(* A delivery that its sender was told is queued is looked at again when   *)
(* the turn ends: until then its agent is in mid turn and has it, however  *)
(* the session is renamed; only with the agent is it lost                  *)
(* (QueueDeliveryRecheck, run_pending_delivery_rechecks).                  *)
QueuedHeld ==
    \A p \in Posts :
        post[p].at = "queued" /\ Up(post[p].inc) =>
            LET a == actor[post[p].inc] IN a.mid /\ p \in a.checks

(* A request to compact is answered: the calls to an agent have no time    *)
(* limit, and the agent may be stopped, replaced or renamed with the call  *)
(* in its mailbox (try_set_, drain_agent_compact_continuation).            *)
AsksEnd ==
    \A c \in Asks :
        ask[c].at \in {"setting", "typing", "undoing"}
            ~> ask[c].at \in {"refused", "ok", "failed", "quit", "left"}
=============================================================================
