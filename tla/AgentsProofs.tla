----------------------------- MODULE AgentsProofs -----------------------------
(***************************************************************************)
(* A continuation is told once, and what was queued is held by an agent in *)
(* mid turn: proofs for any numbers of sessions, requests, hooks and       *)
(* deliveries, any order of effects and mailboxes of any length.           *)
(***************************************************************************)
EXTENDS Agents, TLAPS

Effect == [op : {"spawn", "stop"}, name : Names, inc : Incs]
          \cup [op : {"rename"}, old : Names, new : Names, inc : Incs]

Msg == [kind : {"Active", "Stopped"}]
       \cup [kind : {"Renamed"}, old : Names, new : Names]
       \cup [kind : {"Recheck"}, post : Posts]
       \cup [kind : {"TrySet", "Undo"}, ask : Asks]
       \cup [kind : {"Drain"}, hook : Hooks]

UpActor == [st : {"up"}, name : Names, mid : BOOLEAN, slot : Asks \cup {None},
            checks : SUBSET Posts]

(* A request that has called an agent, and the other forms of callers *)
Called == [at : {"setting", "typing", "ok", "undoing", "failed", "refused", "quit", "left"},
           name : Names, inc : Incs, call : Incs]

Caller == [at : {"new", "refused"}] \cup Called

Hook == [at : {"new", "done"}]
        \cup [at : {"draining"}, name : Names, inc : Incs]
        \cup [at : {"got"}, name : Names, inc : Incs, text : Asks]

Post == [at : {"new", "loud", "checked"}] \cup [at : {"asked", "queued"}, inc : Incs]

RegistryOK ==
    /\ last \in 0..MaxInc
    /\ row \in [Names -> 0..last]
    /\ alias \in [Names -> Names \cup {None}]
    /\ todo \subseteq Effect

TableOK ==
    /\ pub \in [Incs -> Names \cup {None}]
    /\ actor \in [Incs -> {Unborn, Down} \cup UpActor]
    /\ box \in [Incs -> Seq(Msg)]

CallersOK ==
    /\ ask \in [Asks -> Caller]
    /\ hook \in [Hooks -> Hook]
    /\ post \in [Posts -> Post]
    /\ said \in [Asks -> Seq(Incs)]

AgentsTypeOK == RegistryOK /\ TableOK /\ CallersOK

(* The messages in a mailbox *)
In(s) == {s[k] : k \in 1..Len(s)}

(* A call is in the mailbox of the agent it was made to. *)
Addressed(i, m) ==
    /\ m.kind = "TrySet" => ask[m.ask] \in Called /\ ask[m.ask].inc = i
    /\ m.kind = "Drain"  => /\ hook[m.hook].at # "new"
                            /\ hook[m.hook].at = "draining" => hook[m.hook].inc = i

Mail == \A i \in Incs : \A m \in In(box[i]) : Addressed(i, m)

(* A continuation is parked, carried by a hook or told, or nowhere: in one *)
(* place at a time, and only when its request was parked.                  *)
Open(c)       == ask[c].at \in {"typing", "ok", "undoing", "failed", "left"}
Parked(c, i)  == Up(i) /\ actor[i].slot = c
Carried(c, h) == hook[h].at = "got" /\ hook[h].text = c

Placed ==
    \A c \in Asks :
        /\ \A i \in Incs : Parked(c, i) => /\ Open(c) /\ ask[c].inc = i /\ said[c] = <<>>
                                           /\ \A h \in Hooks : ~Carried(c, h)
        /\ \A h \in Hooks : Carried(c, h) =>
              /\ Open(c) /\ ask[c].inc = hook[h].inc /\ said[c] = <<>>
              /\ \A g \in Hooks : Carried(c, g) => g = h
        /\ said[c] # <<>> => Open(c) /\ said[c] = <<ask[c].inc>>

(* An owner gets one agent: the effect that spawns it finds none before it. *)
Born == \A i \in Incs : /\ actor[i] # Unborn => i <= last
                        /\ pub[i] # None => actor[i] # Unborn

SpawnedOnce ==
    \A e \in todo : e.op = "spawn" =>
        /\ e.inc <= last /\ actor[e.inc] = Unborn
        /\ \A f \in todo : f.op = "spawn" /\ f.inc = e.inc => f = e

(* Only an agent has told a sender that its delivery is queued, and has it. *)
Holds(i, p) == actor[i] # Unborn /\ (Up(i) => actor[i].mid /\ p \in actor[i].checks)

Held == \A p \in Posts, i \in Incs : post[p].at = "queued" /\ post[p].inc = i => Holds(i, p)

IInv == AgentsTypeOK /\ Mail /\ Placed /\ Born /\ SpawnedOnce /\ Held

-----------------------------------------------------------------------------
(* Mailboxes *)

LEMMA InAppend ==
    ASSUME NEW s \in Seq(Msg), NEW m \in Msg
    PROVE  /\ Append(s, m) \in Seq(Msg)
           /\ In(Append(s, m)) = In(s) \cup {m}
  <1>1. /\ Append(s, m) \in Seq(Msg)
        /\ Len(Append(s, m)) = Len(s) + 1
        /\ \A k \in 1..Len(s) : Append(s, m)[k] = s[k]
        /\ Append(s, m)[Len(s) + 1] = m
    OBVIOUS
  <1>2. Len(s) \in Nat  OBVIOUS
  <1>3. ASSUME NEW x \in In(Append(s, m)) PROVE x \in In(s) \cup {m}
    <2>1. PICK k \in 1..(Len(s) + 1) : x = Append(s, m)[k]  BY <1>1 DEF In
    <2> QED  BY <1>1, <1>2, <2>1 DEF In
  <1>4. ASSUME NEW x \in In(s) \cup {m} PROVE x \in In(Append(s, m))
    <2>1. CASE x = m
      <3>1. Len(s) + 1 \in 1..Len(Append(s, m))  BY <1>1, <1>2
      <3> QED  BY <1>1, <2>1, <3>1 DEF In
    <2>2. CASE x \in In(s)
      <3>1. PICK k \in 1..Len(s) : x = s[k]  BY <2>2 DEF In
      <3>2. k \in 1..Len(Append(s, m))  BY <1>1, <1>2
      <3> QED  BY <1>1, <3>1, <3>2 DEF In
    <2> QED  BY <2>1, <2>2
  <1> QED  BY <1>1, <1>3, <1>4

LEMMA InTail ==
    ASSUME NEW s \in Seq(Msg), s # <<>>
    PROVE  /\ Head(s) \in In(s) /\ Head(s) \in Msg
           /\ Tail(s) \in Seq(Msg)
           /\ In(Tail(s)) \subseteq In(s)
  <1>1. /\ Len(s) \in Nat \ {0}
        /\ Head(s) = s[1] /\ Tail(s) \in Seq(Msg)
        /\ Len(Tail(s)) = Len(s) - 1
        /\ \A k \in 1..Len(Tail(s)) : Tail(s)[k] = s[k + 1]
    OBVIOUS
  <1>2. Head(s) \in In(s) /\ Head(s) \in Msg  BY <1>1 DEF In
  <1>3. ASSUME NEW x \in In(Tail(s)) PROVE x \in In(s)
    <2>1. PICK k \in 1..Len(Tail(s)) : x = Tail(s)[k]  BY DEF In
    <2>2. k + 1 \in 1..Len(s)  BY <1>1
    <2> QED  BY <1>1, <2>1, <2>2 DEF In
  <1> QED  BY <1>1, <1>2, <1>3

LEMMA InEmpty == <<>> \in Seq(Msg) /\ In(<<>>) = {}
  BY DEF In

LEMMA CastKeeps ==
    ASSUME TableOK, NEW i \in Incs, NEW m \in Msg, Cast(i, m)
    PROVE  /\ box' \in [Incs -> Seq(Msg)]
           /\ \A j \in Incs : In(box'[j]) = IF j = i THEN In(box[j]) \cup {m} ELSE In(box[j])
  <1>1. box[i] \in Seq(Msg)  BY DEF TableOK
  <1>2. Append(box[i], m) \in Seq(Msg) /\ In(Append(box[i], m)) = In(box[i]) \cup {m}
    BY <1>1, InAppend
  <1>3. box' = [box EXCEPT ![i] = Append(box[i], m)]  BY DEF Cast
  <1> QED  BY <1>2, <1>3 DEF TableOK

LEMMA GoesKeeps ==
    ASSUME TableOK, NEW i \in Incs, NEW a \in UpActor, box[i] # <<>>, Goes(i, a)
    PROVE  /\ box' \in [Incs -> Seq(Msg)]
           /\ actor' \in [Incs -> {Unborn, Down} \cup UpActor]
           /\ \A j \in Incs : /\ In(box'[j]) \subseteq In(box[j])
                              /\ actor'[j] = IF j = i THEN a ELSE actor[j]
  <1>1. box[i] \in Seq(Msg)  BY DEF TableOK
  <1>2. Tail(box[i]) \in Seq(Msg) /\ In(Tail(box[i])) \subseteq In(box[i])  BY <1>1, InTail
  <1>3. box' = [box EXCEPT ![i] = Tail(box[i])] /\ actor' = [actor EXCEPT ![i] = a]
    BY DEF Goes
  <1> QED  BY <1>2, <1>3 DEF TableOK

LEMMA StoppedKeeps ==
    ASSUME TableOK, NEW i \in Incs, Stopped(i)
    PROVE  /\ box' \in [Incs -> Seq(Msg)]
           /\ actor' \in [Incs -> {Unborn, Down} \cup UpActor]
           /\ \A j \in Incs : /\ In(box'[j]) \subseteq In(box[j])
                              /\ actor'[j] = IF j = i THEN Down ELSE actor[j]
  BY InEmpty DEF TableOK, Stopped

(* What an actor that handles a message has in its hands *)
LEMMA Handling ==
    ASSUME AgentsTypeOK, NEW i \in Incs, Up(i), box[i] # <<>>
    PROVE  /\ actor[i] \in UpActor
           /\ Head(box[i]) \in In(box[i]) /\ Head(box[i]) \in Msg
           /\ KnownAs(i) # None => [actor[i] EXCEPT !.name = KnownAs(i)] \in UpActor
  <1>1. actor[i] \in UpActor  BY DEF AgentsTypeOK, TableOK, Up, Unborn, Down
  <1>2. Head(box[i]) \in In(box[i]) /\ Head(box[i]) \in Msg
    BY InTail DEF AgentsTypeOK, TableOK
  <1>3. KnownAs(i) \in Names \cup {None}
    BY <1>1 DEF KnownAs, UpActor, AgentsTypeOK, RegistryOK
  <1> QED  BY <1>1, <1>2, <1>3 DEF UpActor

(* A message stops its actor, or leaves it up. *)
LEMMA HandleGoes ==
    ASSUME AgentsTypeOK, NEW i \in Incs, Handle(i)
    PROVE  Stopped(i) \/ \E b \in UpActor : Goes(i, b)
  <1>1. Up(i) /\ box[i] # <<>> /\ UNCHANGED pub  BY DEF Handle
  <1>2. /\ actor[i] \in UpActor /\ Head(box[i]) \in Msg
        /\ KnownAs(i) # None => [actor[i] EXCEPT !.name = KnownAs(i)] \in UpActor
    BY <1>1, Handling
  <1> DEFINE Result == Stopped(i) \/ \E b \in UpActor : Goes(i, b)
  <1>3. Stopped(i) => Result  OBVIOUS
  <1>4. ASSUME NEW b \in UpActor, Goes(i, b) PROVE Result  BY <1>4
  <1> HIDE DEF Result
  <1>5. ASSUME HandleRenamed(i) PROVE Result
    <2>1. Head(box[i]).new \in Names  BY <1>2, <1>5 DEF HandleRenamed, Msg
    <2>2. [actor[i] EXCEPT !.name = Head(box[i]).new] \in UpActor
      BY <1>2, <2>1 DEF UpActor
    <2> QED  BY <1>3, <1>4, <1>5, <2>2 DEF HandleRenamed
  <1>6. ASSUME HandleStale(i) PROVE Result  BY <1>3, <1>6 DEF HandleStale
  <1>7. ASSUME HandleCurrent(i) PROVE Result
    <2> DEFINE a == [actor[i] EXCEPT !.name = KnownAs(i)]
    <2>1. a \in UpActor  BY <1>2, <1>7 DEF HandleCurrent
    <2>2. \/ HandleActive(i, a) \/ HandleStopped(i, a) \/ HandleRecheck(i, a)
          \/ HandleTrySet(i, a) \/ HandleUndo(i, a) \/ HandleDrain(i, a)
      BY <1>7 DEF HandleCurrent
    <2> HIDE DEF a
    <2>3. ASSUME HandleActive(i, a) PROVE Result
      <3>1. [a EXCEPT !.mid = TRUE] \in UpActor  BY <2>1 DEF UpActor
      <3> QED  BY <1>4, <2>3, <3>1 DEF HandleActive
    <2>4. ASSUME HandleStopped(i, a) PROVE Result
      <3>1. [a EXCEPT !.mid = FALSE, !.checks = {}] \in UpActor  BY <2>1 DEF UpActor
      <3> QED  BY <1>4, <2>4, <3>1 DEF HandleStopped
    <2>5. ASSUME HandleRecheck(i, a) PROVE Result
      <3>1. Head(box[i]).post \in Posts  BY <1>2, <2>5 DEF HandleRecheck, Msg
      <3>2. [a EXCEPT !.checks = @ \cup {Head(box[i]).post}] \in UpActor
        BY <2>1, <3>1 DEF UpActor
      <3> QED  BY <1>4, <2>1, <2>5, <3>2 DEF HandleRecheck
    <2>6. ASSUME HandleTrySet(i, a) PROVE Result
      <3>1. Head(box[i]).ask \in Asks  BY <1>2, <2>6 DEF HandleTrySet, Msg
      <3>2. [a EXCEPT !.slot = Head(box[i]).ask] \in UpActor  BY <2>1, <3>1 DEF UpActor
      <3> QED  BY <1>4, <2>1, <2>6, <3>2 DEF HandleTrySet
    <2>7. [a EXCEPT !.slot = None] \in UpActor  BY <2>1 DEF UpActor
    <2>8. ASSUME HandleUndo(i, a) PROVE Result  BY <1>4, <2>1, <2>7, <2>8 DEF HandleUndo
    <2>9. ASSUME HandleDrain(i, a) PROVE Result  BY <1>4, <2>1, <2>7, <2>9 DEF HandleDrain
    <2> QED  BY <2>2, <2>3, <2>4, <2>5, <2>6, <2>8, <2>9
  <1>8. Result  BY <1>5, <1>6, <1>7 DEF Handle
  <1> QED  BY <1>8 DEF Result

-----------------------------------------------------------------------------
(* Types *)

LEMMA RegistryNext == AgentsTypeOK /\ [Next]_vars => RegistryOK'
  <1> SUFFICES ASSUME AgentsTypeOK, [Next]_vars PROVE RegistryOK'  OBVIOUS
  <1> USE MaxIncAssumption, NoneAssumption
          DEF AgentsTypeOK, RegistryOK, Effect, Incs, SpawnAgent, StopAgent, RenameAgent
  <1>1. ASSUME NEW n \in Names, NEW m \in Names \cup {None}, Register(n, m)
        PROVE  RegistryOK'
    <2>1. last' \in 1..MaxInc /\ last' = last + 1  BY <1>1 DEF Register
    <2>2. row' \in [Names -> 0..last']  BY <1>1, <2>1 DEF Register
    <2>3. alias' \in [Names -> Names \cup {None}]  BY <1>1 DEF Register, AddAlias
    <2>4. todo' \subseteq Effect  BY <1>1, <2>1 DEF Register
    <2> QED  BY <2>1, <2>2, <2>3, <2>4
  <1>2. ASSUME NEW n \in Names, NEW m \in Names, Rename(n, m) PROVE RegistryOK'
    BY <1>2 DEF Rename, AddAlias
  <1>3. ASSUME NEW n \in Names, Remove(n) PROVE RegistryOK'  BY <1>3 DEF Remove
  <1>4. ASSUME NEW n \in Names, Restart(n) PROVE RegistryOK'  BY <1>4 DEF Restart
  <1>5. CASE Execute  BY <1>5 DEF Execute, registry
  <1>6. ASSUME UNCHANGED <<registry, todo>> PROVE RegistryOK'  BY <1>6 DEF registry
  <1> QED
    BY <1>1, <1>2, <1>3, <1>4, <1>5, <1>6
       DEF Next, vars, Notify, PostAsks, PostGivesUp, AskParks, AskTyped, AskUndoes, AskFails,
           AskLeaves, HookDrains, HookEnds, HookInjects, Handle

LEMMA TableNext == AgentsTypeOK /\ [Next]_vars => TableOK'
  <1> SUFFICES ASSUME AgentsTypeOK, [Next]_vars PROVE TableOK'  OBVIOUS
  <1> USE NoneAssumption DEF AgentsTypeOK
  <1>1. TableOK /\ RegistryOK  OBVIOUS
  <1>2. \A n \in Names : Fresh(n) \in UpActor  BY DEF Fresh, UpActor
  <1>3. ASSUME UNCHANGED table PROVE TableOK'  BY <1>3 DEF table, TableOK
  <1>4. ASSUME NEW n \in Names, NEW m \in Msg, Send(n, m), UNCHANGED <<pub, actor>>
        PROVE  TableOK'
    <2>1. row[n] \in Incs  BY <1>4, MaxIncAssumption DEF Send, Reachable, RegistryOK, Incs
    <2> QED  BY <1>1, <1>4, <2>1, CastKeeps DEF Send, TableOK
  <1>5. ASSUME NEW n \in Names, Restart(n) PROVE TableOK'
    <2>1. row[n] \in Incs /\ last' \in Incs
      BY <1>5, MaxIncAssumption DEF Restart, RegistryOK, Incs
    <2> QED  BY <1>1, <1>2, <1>5, <2>1, InEmpty DEF Restart, TableOK
  <1>6. CASE Execute
    <2>1. PICK e \in todo : ExecuteSpawn(e) \/ ExecuteStop(e) \/ ExecuteRename(e)
      BY <1>6 DEF Execute
    <2>2. e \in Effect  BY DEF RegistryOK
    <2>3. CASE ExecuteSpawn(e)
      <3>1. e.inc \in Incs /\ e.name \in Names  BY <2>2, <2>3 DEF ExecuteSpawn, Effect
      <3>2. Fresh(e.name) \in UpActor  BY <1>2, <3>1
      <3>3. \/ /\ pub' = [pub EXCEPT ![e.inc] = e.name]
               /\ actor' = [actor EXCEPT ![e.inc] = Fresh(e.name)]
               /\ UNCHANGED box
            \/ UNCHANGED table
        BY <2>3 DEF ExecuteSpawn
      <3> QED  BY <1>1, <1>3, <3>1, <3>2, <3>3 DEF TableOK
    <2>4. CASE ExecuteStop(e)
      <3>1. e.inc \in Incs  BY <2>2, <2>4 DEF ExecuteStop, Effect
      <3>2. CASE Stopped(e.inc) /\ pub' = [pub EXCEPT ![e.inc] = None]
        BY <1>1, <3>1, <3>2, StoppedKeeps DEF TableOK
      <3> QED  BY <1>3, <2>4, <3>2 DEF ExecuteStop
    <2>5. CASE ExecuteRename(e)
      <3>1. e.inc \in Incs /\ e.new \in Names /\ e.old \in Names
        BY <2>2, <2>5 DEF ExecuteRename, Effect
      <3> DEFINE msg == [kind |-> "Renamed", old |-> e.old, new |-> e.new]
      <3>2. msg \in Msg  BY <3>1 DEF Msg
      <3>3. CASE /\ pub' = [pub EXCEPT ![e.inc] = e.new]
                 /\ UNCHANGED actor
                 /\ Cast(e.inc, msg) \/ UNCHANGED box
        <4> HIDE DEF msg
        <4> QED  BY <1>1, <3>1, <3>2, <3>3, CastKeeps DEF TableOK
      <3> QED  BY <1>3, <2>5, <3>3 DEF ExecuteRename
    <2> QED  BY <2>1, <2>3, <2>4, <2>5
  <1>7. ASSUME NEW i \in Incs, Handle(i) PROVE TableOK'
    <2>1. Up(i) /\ box[i] # <<>> /\ UNCHANGED pub  BY <1>7 DEF Handle
    <2>2. Stopped(i) \/ \E b \in UpActor : Goes(i, b)  BY <1>7, HandleGoes
    <2>3. CASE Stopped(i)  BY <1>1, <2>1, <2>3, StoppedKeeps DEF TableOK
    <2>4. ASSUME NEW b \in UpActor, Goes(i, b) PROVE TableOK'
      BY <1>1, <2>1, <2>4, GoesKeeps DEF TableOK
    <2> QED  BY <2>2, <2>3, <2>4
  <1>8. ASSUME NEW n \in Names, NEW kind \in {"Active", "Stopped"}, Notify(n, kind)
        PROVE  TableOK'
    <2>1. [kind |-> kind] \in Msg  BY DEF Msg
    <2> QED  BY <1>4, <1>8, <2>1 DEF Notify
  <1>9. ASSUME NEW n \in Names, NEW p \in Posts, PostAsks(p, n) PROVE TableOK'
    <2>1. [kind |-> "Recheck", post |-> p] \in Msg  BY DEF Msg
    <2> QED  BY <1>3, <1>4, <1>9, <2>1 DEF PostAsks, table
  <1>10. ASSUME NEW n \in Names, NEW c \in Asks, AskParks(c, n) PROVE TableOK'
    <2>1. [kind |-> "TrySet", ask |-> c] \in Msg  BY DEF Msg
    <2> QED  BY <1>3, <1>4, <1>10, <2>1 DEF AskParks, table
  <1>11. ASSUME NEW n \in Names, NEW h \in Hooks, HookDrains(h, n) PROVE TableOK'
    <2>1. [kind |-> "Drain", hook |-> h] \in Msg  BY DEF Msg
    <2> QED  BY <1>4, <1>11, <2>1 DEF HookDrains
  <1>12. ASSUME NEW c \in Asks, AskUndoes(c) PROVE TableOK'
    <2>1. [kind |-> "Undo", ask |-> c] \in Msg  BY DEF Msg
    <2>2. ask[c].name \in Names  BY <1>12 DEF AskUndoes, CallersOK, Caller, Called
    <2> QED  BY <1>3, <1>4, <1>12, <2>1, <2>2 DEF AskUndoes, table
  <1> QED
    BY <1>3, <1>5, <1>6, <1>7, <1>8, <1>9, <1>10, <1>11, <1>12
       DEF Next, vars, Register, Rename, Remove, PostGivesUp, AskTyped, AskFails,
           AskLeaves, HookEnds, HookInjects

(* A request that waits for an agent, or types, has called one. *)
Moves(c, at) == ask' = [ask EXCEPT ![c].at = at]

LEMMA AskMoves ==
    ASSUME CallersOK, NEW c \in Asks, ask[c].at \in {"setting", "typing", "undoing"},
           NEW at \in {"typing", "ok", "undoing", "failed", "refused", "quit", "left"},
           Moves(c, at)
    PROVE  /\ ask[c] \in Called
           /\ ask' \in [Asks -> Caller]
           /\ ask'[c] \in Called /\ ask'[c].at = at /\ ask'[c].inc = ask[c].inc
           /\ \A d \in Asks : d # c => ask'[d] = ask[d]
  <1>1. ask[c] \in Called  BY DEF CallersOK, Caller
  <1>2. /\ [ask[c] EXCEPT !.at = at] \in Called
        /\ [ask[c] EXCEPT !.at = at].at = at
        /\ [ask[c] EXCEPT !.at = at].inc = ask[c].inc
    BY <1>1 DEF Called
  <1>3. ask' = [ask EXCEPT ![c] = [ask[c] EXCEPT !.at = at]]
    BY DEF Moves
  <1> HIDE DEF Moves
  <1> QED  BY <1>1, <1>2, <1>3 DEF CallersOK, Caller

LEMMA CallersNext == AgentsTypeOK /\ [Next]_vars => CallersOK'
  <1> SUFFICES ASSUME AgentsTypeOK, [Next]_vars PROVE CallersOK'  OBVIOUS
  <1> USE NoneAssumption DEF AgentsTypeOK
  <1>1. CallersOK /\ TableOK /\ RegistryOK  OBVIOUS
  <1>2. ASSUME UNCHANGED callers PROVE CallersOK'  BY <1>2 DEF callers, CallersOK
  <1>3. \A n \in Names : row[n] # 0 => row[n] \in Incs
    BY MaxIncAssumption DEF RegistryOK, Incs
  <1>4. ASSUME NEW p \in Posts, NEW n \in Names, PostAsks(p, n) PROVE CallersOK'
    <2>1. [at |-> "asked", inc |-> row[n]] \in Post /\ [at |-> "loud"] \in Post
      BY <1>3, <1>4 DEF PostAsks, Post
    <2>2. post' \in [Posts -> Post]  BY <2>1, <1>4 DEF PostAsks, CallersOK
    <2> QED  BY <1>4, <2>2 DEF PostAsks, CallersOK
  <1>5. ASSUME NEW p \in Posts, PostGivesUp(p) PROVE CallersOK'
    BY <1>5 DEF PostGivesUp, CallersOK, Post
  <1>6. ASSUME NEW c \in Asks, NEW n \in Names, AskParks(c, n) PROVE CallersOK'
    <2>1. [at |-> "setting", name |-> n, inc |-> row[n], call |-> row[n]] \in Caller
      BY <1>3, <1>6 DEF AskParks, Caller, Called
    <2>2. [at |-> "refused"] \in Caller  BY DEF Caller
    <2>3. ask' \in [Asks -> Caller]  BY <2>1, <2>2, <1>6 DEF AskParks, CallersOK
    <2> QED  BY <1>6, <2>3 DEF AskParks, CallersOK
  <1>7. ASSUME NEW c \in Asks, AskTyped(c) PROVE CallersOK'
    <2>1. ask[c].at = "typing" /\ Moves(c, "ok")  BY <1>7 DEF AskTyped, Moves
    <2> QED  BY <1>1, <1>7, <2>1, AskMoves DEF AskTyped, CallersOK
  <1>8. ASSUME NEW c \in Asks, AskUndoes(c) PROVE CallersOK'
    <2>1. ask[c] \in Called  BY <1>1, <1>8 DEF AskUndoes, CallersOK, Caller
    <2>2. CASE Reachable(ask[c].name)
      <3>1. row[ask[c].name] \in Incs  BY <1>3, <2>1, <2>2 DEF Reachable, Called
      <3>2. [ask[c] EXCEPT !.at = "undoing", !.call = row[ask[c].name]] \in Called
        BY <2>1, <3>1 DEF Called
      <3>3. ask' = [ask EXCEPT ![c] = [ask[c] EXCEPT !.at = "undoing",
                                                     !.call = row[ask[c].name]]]
        BY <1>8, <2>2 DEF AskUndoes, CallersOK
      <3> QED  BY <1>8, <3>2, <3>3 DEF AskUndoes, CallersOK, Caller
    <2>3. CASE ~Reachable(ask[c].name)
      <3>1. ask[c].at = "typing" /\ Moves(c, "failed")  BY <1>8, <2>3 DEF AskUndoes, Moves
      <3> QED  BY <1>1, <1>8, <3>1, AskMoves DEF AskUndoes, CallersOK
    <2> QED  BY <2>2, <2>3
  <1>9. ASSUME NEW c \in Asks, AskFails(c) PROVE CallersOK'
    <2>1. PICK at \in {"refused", "failed"} : Moves(c, at)
      BY <1>9 DEF AskFails, Moves
    <2>2. ask[c].at \in {"setting", "undoing"}  BY <1>9 DEF AskFails
    <2>3. ask' \in [Asks -> Caller]  BY <1>1, <2>1, <2>2, AskMoves
    <2> QED  BY <1>9, <2>3 DEF AskFails, CallersOK
  <1>10. ASSUME NEW c \in Asks, AskLeaves(c) PROVE CallersOK'
    <2>1. PICK at \in {"quit", "left"} : Moves(c, at)
      BY <1>10 DEF AskLeaves, Moves
    <2>2. ask[c].at \in {"setting", "typing", "undoing"}  BY <1>10 DEF AskLeaves
    <2>3. ask' \in [Asks -> Caller]  BY <1>1, <2>1, <2>2, AskMoves
    <2> QED  BY <1>10, <2>3 DEF AskLeaves, CallersOK
  <1>11. ASSUME NEW h \in Hooks, NEW n \in Names, HookDrains(h, n) PROVE CallersOK'
    BY <1>3, <1>11 DEF HookDrains, Send, Reachable, CallersOK, Hook
  <1>12. ASSUME NEW h \in Hooks, HookEnds(h) PROVE CallersOK'
    BY <1>12 DEF HookEnds, CallersOK, Hook
  <1>13. ASSUME NEW h \in Hooks, HookInjects(h) PROVE CallersOK'
    <2>1. hook[h].text \in Asks /\ hook[h].inc \in Incs
      BY <1>13 DEF HookInjects, CallersOK, Hook
    <2>2. Append(said[hook[h].text], hook[h].inc) \in Seq(Incs)  BY <2>1 DEF CallersOK
    <2> QED  BY <1>13, <2>1, <2>2 DEF HookInjects, CallersOK, Hook
  <1>14. ASSUME NEW i \in Incs, Handle(i) PROVE CallersOK'
    <2>1. Up(i) /\ box[i] # <<>>  BY <1>14 DEF Handle
    <2>2. actor[i] \in UpActor /\ Head(box[i]) \in Msg  BY <2>1, Handling
    <2> DEFINE a == [actor[i] EXCEPT !.name = KnownAs(i)]
    <2>3. a.slot \in Asks \cup {None}  BY <2>2 DEF UpActor
    <2>4. \/ UNCHANGED callers
          \/ HandleStopped(i, a) \/ HandleRecheck(i, a)
          \/ HandleTrySet(i, a) \/ HandleUndo(i, a) \/ HandleDrain(i, a)
      BY <1>14 DEF Handle, HandleRenamed, HandleStale, HandleCurrent, HandleActive
    <2> HIDE DEF a
    <2>5. CASE HandleStopped(i, a)  BY <2>5 DEF HandleStopped, CallersOK, Post
    <2>6. CASE HandleRecheck(i, a)
      <3>1. Head(box[i]).post \in Posts  BY <2>2, <2>6 DEF HandleRecheck, Msg
      <3> QED  BY <2>6, <3>1 DEF HandleRecheck, CallersOK, Post
    <2>7. CASE HandleTrySet(i, a)
      <3> DEFINE c == Head(box[i]).ask
      <3>1. c \in Asks  BY <2>2, <2>7 DEF HandleTrySet, Msg
      <3>2. \/ UNCHANGED ask
            \/ ask[c].at = "setting" /\ \E at \in {"typing", "refused"} : Moves(c, at)
        BY <2>7 DEF HandleTrySet, Moves
      <3> HIDE DEF c
      <3>3. ask' \in [Asks -> Caller]  BY <1>1, <3>1, <3>2, AskMoves DEF CallersOK
      <3> QED  BY <2>7, <3>3 DEF HandleTrySet, CallersOK
    <2>8. CASE HandleUndo(i, a)
      <3> DEFINE c == Head(box[i]).ask
      <3>1. c \in Asks  BY <2>2, <2>8 DEF HandleUndo, Msg
      <3>2. UNCHANGED ask \/ (ask[c].at = "undoing" /\ Moves(c, "failed"))
        BY <2>8 DEF HandleUndo, Moves
      <3> HIDE DEF c
      <3>3. ask' \in [Asks -> Caller]  BY <1>1, <3>1, <3>2, AskMoves DEF CallersOK
      <3> QED  BY <2>8, <3>3 DEF HandleUndo, CallersOK
    <2>9. CASE HandleDrain(i, a)
      <3>1. Head(box[i]).hook \in Hooks  BY <2>2, <2>9 DEF HandleDrain, Msg
      <3> QED  BY <2>3, <2>9, <3>1 DEF HandleDrain, CallersOK, Hook
    <2> QED  BY <1>2, <2>4, <2>5, <2>6, <2>7, <2>8, <2>9
  <1> QED
    BY <1>2, <1>4, <1>5, <1>6, <1>7, <1>8, <1>9, <1>10, <1>11, <1>12, <1>13, <1>14
       DEF Next, vars, Register, Rename, Remove, Restart, Execute, Notify

LEMMA TypesNext == AgentsTypeOK /\ [Next]_vars => AgentsTypeOK'
  BY RegistryNext, TableNext, CallersNext DEF AgentsTypeOK

-----------------------------------------------------------------------------
(* Mail *)

(* A caller does not turn to another agent with the same call. *)
AskSteady == \A c \in Asks : ask[c] \in Called => ask'[c] \in Called /\ ask'[c].inc = ask[c].inc

HookSteady ==
    \A h \in Hooks : hook[h].at # "new" =>
        /\ hook'[h].at # "new"
        /\ hook'[h].at = "draining" => hook[h].at = "draining" /\ hook'[h].inc = hook[h].inc

LEMMA AskSteadyNext == AgentsTypeOK /\ [Next]_vars => AskSteady
  <1> SUFFICES ASSUME AgentsTypeOK, [Next]_vars PROVE AskSteady  OBVIOUS
  <1>1. CallersOK  BY DEF AgentsTypeOK
  <1>2. CASE UNCHANGED ask  BY <1>2 DEF AskSteady
  <1>3. ASSUME NEW c \in Asks, ask[c].at \in {"setting", "typing", "undoing"},
               NEW at \in {"typing", "ok", "undoing", "failed", "refused", "quit", "left"},
               Moves(c, at)
        PROVE  AskSteady
    BY <1>1, <1>3, AskMoves DEF AskSteady
  <1>4. ASSUME NEW c \in Asks, NEW n \in Names, AskParks(c, n) PROVE AskSteady
    <2>1. ask[c] \notin Called  BY <1>4 DEF AskParks, Called
    <2>2. \A d \in Asks : d # c => ask'[d] = ask[d]  BY <1>1, <1>4 DEF AskParks, CallersOK
    <2> QED  BY <2>1, <2>2 DEF AskSteady
  <1>5. ASSUME NEW c \in Asks, AskTyped(c) PROVE AskSteady
    BY <1>3, <1>5 DEF AskTyped, Moves
  <1>6. ASSUME NEW c \in Asks, AskUndoes(c) PROVE AskSteady
    <2>1. CASE Moves(c, "failed")  BY <1>3, <1>6, <2>1 DEF AskUndoes
    <2>2. ASSUME NEW k, ask' = [ask EXCEPT ![c].at = "undoing", ![c].call = k] PROVE AskSteady
      <3>1. ask' \in [Asks -> Caller]  BY TypesNext DEF AgentsTypeOK, CallersOK
      <3>2. ask' = [ask EXCEPT ![c] = [ask[c] EXCEPT !.at = "undoing", !.call = k]]
        BY <1>1, <2>2 DEF CallersOK
      <3>3. ask[c] \in Called  BY <1>1, <1>6 DEF AskUndoes, CallersOK, Caller
      <3>4. ask'[c].inc = ask[c].inc /\ ask'[c].at = "undoing"
        BY <1>1, <3>2, <3>3 DEF Called, CallersOK
      <3>5. ask'[c] \in Called  BY <3>1, <3>4 DEF Caller
      <3>6. \A d \in Asks : d # c => ask'[d] = ask[d]  BY <1>1, <3>2 DEF CallersOK
      <3> QED  BY <3>4, <3>5, <3>6 DEF AskSteady
    <2> QED  BY <1>6, <2>1, <2>2 DEF AskUndoes, Moves
  <1>7. ASSUME NEW c \in Asks, AskFails(c) PROVE AskSteady
    <2>1. PICK at \in {"refused", "failed"} : Moves(c, at)  BY <1>7 DEF AskFails, Moves
    <2> QED  BY <1>3, <1>7, <2>1 DEF AskFails
  <1>8. ASSUME NEW c \in Asks, AskLeaves(c) PROVE AskSteady
    <2>1. PICK at \in {"quit", "left"} : Moves(c, at)  BY <1>8 DEF AskLeaves, Moves
    <2> QED  BY <1>3, <1>8, <2>1 DEF AskLeaves
  <1>9. ASSUME NEW i \in Incs, Handle(i) PROVE AskSteady
    <2>1. Up(i) /\ box[i] # <<>>  BY <1>9 DEF Handle
    <2>2. Head(box[i]) \in Msg  BY <2>1, Handling
    <2> DEFINE c == Head(box[i]).ask
    <2>3. UNCHANGED ask
          \/ \E at \in {"typing", "refused", "failed"} :
                /\ Head(box[i]).kind \in {"TrySet", "Undo"}
                /\ ask[c].at \in {"setting", "undoing"} /\ Moves(c, at)
      BY <1>9 DEF Handle, HandleRenamed, HandleStale, HandleCurrent, HandleActive, HandleStopped,
                  HandleRecheck, HandleTrySet, HandleUndo, HandleDrain, callers, Moves
    <2>4. Head(box[i]).kind \in {"TrySet", "Undo"} => c \in Asks  BY <2>2 DEF Msg
    <2> HIDE DEF c
    <2> QED  BY <1>2, <1>3, <2>3, <2>4
  <1> QED
    BY <1>2, <1>4, <1>5, <1>6, <1>7, <1>8, <1>9
       DEF Next, vars, callers, Register, Rename, Remove, Restart, Execute, Notify, PostAsks,
           PostGivesUp, HookDrains, HookEnds, HookInjects

LEMMA HookSteadyNext == AgentsTypeOK /\ [Next]_vars => HookSteady
  <1> SUFFICES ASSUME AgentsTypeOK, [Next]_vars PROVE HookSteady  OBVIOUS
  <1>1. CallersOK  BY DEF AgentsTypeOK
  <1>2. CASE UNCHANGED hook  BY <1>2 DEF HookSteady
  <1>3. ASSUME NEW h \in Hooks, hook' = [hook EXCEPT ![h] = [at |-> "done"]] PROVE HookSteady
    BY <1>1, <1>3 DEF HookSteady, CallersOK
  <1>4. ASSUME NEW h \in Hooks, NEW n \in Names, HookDrains(h, n) PROVE HookSteady
    BY <1>1, <1>4 DEF HookSteady, HookDrains, CallersOK
  <1>5. ASSUME NEW i \in Incs, Handle(i) PROVE HookSteady
    <2>1. Up(i) /\ box[i] # <<>>  BY <1>5 DEF Handle
    <2>2. Head(box[i]) \in Msg  BY <2>1, Handling
    <2> DEFINE a == [actor[i] EXCEPT !.name = KnownAs(i)]
    <2>3. UNCHANGED hook \/ HandleDrain(i, a)
      BY <1>5 DEF Handle, HandleRenamed, HandleStale, HandleCurrent, HandleActive, HandleStopped,
                  HandleRecheck, HandleTrySet, HandleUndo, callers
    <2> HIDE DEF a
    <2>4. CASE HandleDrain(i, a)
      <3>1. Head(box[i]).hook \in Hooks  BY <2>2, <2>4 DEF HandleDrain, Msg
      <3> QED  BY <1>1, <2>4, <3>1 DEF HandleDrain, HookSteady, CallersOK
    <2> QED  BY <1>2, <2>3, <2>4
  <1> QED
    BY <1>2, <1>3, <1>4, <1>5
       DEF Next, vars, callers, Register, Rename, Remove, Restart, Execute, Notify, PostAsks,
           PostGivesUp, AskParks, AskTyped, AskUndoes, AskFails, AskLeaves, HookEnds, HookInjects

LEMMA AddressedStays ==
    ASSUME AgentsTypeOK, AskSteady, HookSteady,
           NEW i \in Incs, NEW m \in Msg, Addressed(i, m)
    PROVE  Addressed(i, m)'
  BY DEF AskSteady, HookSteady, Addressed, Msg

LEMMA MailNext == AgentsTypeOK /\ Mail /\ [Next]_vars => Mail'
  <1> SUFFICES ASSUME AgentsTypeOK, Mail, [Next]_vars PROVE Mail'  OBVIOUS
  <1>1. TableOK /\ CallersOK /\ RegistryOK  BY DEF AgentsTypeOK
  <1>2. AskSteady /\ HookSteady  BY AskSteadyNext, HookSteadyNext
  <1>3. \A i \in Incs : In(box[i]) \subseteq Msg
    <2> SUFFICES ASSUME NEW i \in Incs, NEW k \in 1..Len(box[i]) PROVE box[i][k] \in Msg
      BY DEF In
    <2>1. box[i] \in Seq(Msg)  BY <1>1 DEF TableOK
    <2> QED  BY <2>1
  <1>4. \A i \in Incs : \A m \in In(box[i]) : Addressed(i, m)'
    BY <1>2, <1>3, AddressedStays DEF Mail
  <1>5. ASSUME \A i \in Incs : In(box'[i]) \subseteq In(box[i]) PROVE Mail'
    BY <1>4, <1>5 DEF Mail
  <1>6. ASSUME NEW i \in Incs, NEW m \in Msg, Cast(i, m), Addressed(i, m)' PROVE Mail'
    BY <1>1, <1>4, <1>6, CastKeeps DEF Mail
  <1>7. ASSUME NEW n \in Names, NEW m \in Msg, Send(n, m),
               \A i \in Incs : i = row[n] => Addressed(i, m)'
        PROVE  Mail'
    <2>1. row[n] \in Incs
      BY <1>1, <1>7, MaxIncAssumption DEF Send, Reachable, RegistryOK, Incs
    <2>2. PICK i \in Incs : i = row[n]  BY <2>1
    <2>3. Cast(i, m) /\ Addressed(i, m)'  BY <1>7, <2>2 DEF Send
    <2> QED  BY <1>6, <2>3
  <1>8. CASE UNCHANGED box  BY <1>5, <1>8
  <1>9. ASSUME NEW n \in Names, Restart(n) PROVE Mail'
    <2>1. \A j \in Incs : box'[j] = box[j] \/ box'[j] = <<>>
      BY <1>1, <1>9 DEF Restart, TableOK
    <2> QED  BY <1>5, <2>1, InEmpty
  <1>10. CASE Execute
    <2>1. PICK e \in todo : ExecuteSpawn(e) \/ ExecuteStop(e) \/ ExecuteRename(e)
      BY <1>10 DEF Execute
    <2>2. e \in Effect  BY <1>1 DEF RegistryOK
    <2>3. CASE ExecuteSpawn(e)  BY <1>8, <2>3 DEF ExecuteSpawn, table
    <2>4. CASE ExecuteStop(e)
      <3>1. e.inc \in Incs  BY <2>2, <2>4 DEF ExecuteStop, Effect
      <3>2. CASE Stopped(e.inc)  BY <1>1, <1>5, <3>1, <3>2, StoppedKeeps
      <3> QED  BY <1>8, <2>4, <3>2 DEF ExecuteStop, table
    <2>5. CASE ExecuteRename(e)
      <3>1. e.inc \in Incs /\ e.new \in Names /\ e.old \in Names
        BY <2>2, <2>5 DEF ExecuteRename, Effect
      <3> DEFINE msg == [kind |-> "Renamed", old |-> e.old, new |-> e.new]
      <3>2. msg.kind = "Renamed" /\ msg \in Msg  BY <3>1 DEF Msg
      <3>3. Cast(e.inc, msg) \/ UNCHANGED box  BY <2>5 DEF ExecuteRename, table
      <3>4. UNCHANGED msg  OBVIOUS
      <3> HIDE DEF msg
      <3>5. Addressed(e.inc, msg)'  BY <3>2, <3>4 DEF Addressed
      <3> QED  BY <1>6, <1>8, <3>1, <3>2, <3>3, <3>5
    <2> QED  BY <2>1, <2>3, <2>4, <2>5
  <1>11. ASSUME NEW i \in Incs, Handle(i) PROVE Mail'
    <2>1. Up(i) /\ box[i] # <<>>  BY <1>11 DEF Handle
    <2>2. Stopped(i) \/ box' = [box EXCEPT ![i] = Tail(@)]
      BY <1>11 DEF Handle, HandleRenamed, HandleStale, HandleCurrent, HandleActive, HandleStopped,
                   HandleRecheck, HandleTrySet, HandleUndo, HandleDrain, Goes
    <2>3. CASE Stopped(i)  BY <1>1, <1>5, <2>3, StoppedKeeps
    <2>4. CASE box' = [box EXCEPT ![i] = Tail(@)]
      <3>1. In(Tail(box[i])) \subseteq In(box[i])  BY <1>1, <2>1, InTail DEF TableOK
      <3>2. \A j \in Incs : box'[j] = IF j = i THEN Tail(box[i]) ELSE box[j]
        BY <1>1, <2>4 DEF TableOK
      <3> QED  BY <1>5, <3>1, <3>2
    <2> QED  BY <2>2, <2>3, <2>4
  <1>12. ASSUME NEW n \in Names, NEW kind \in {"Active", "Stopped"}, Notify(n, kind)
         PROVE  Mail'
    <2>1. [kind |-> kind] \in Msg /\ \A i \in Incs : Addressed(i, [kind |-> kind])'
      BY DEF Msg, Addressed
    <2> QED  BY <1>7, <1>12, <2>1 DEF Notify
  <1>13. ASSUME NEW n \in Names, NEW p \in Posts, PostAsks(p, n) PROVE Mail'
    <2> DEFINE msg == [kind |-> "Recheck", post |-> p]
    <2>1. msg \in Msg /\ \A i \in Incs : Addressed(i, msg)'  BY DEF Msg, Addressed
    <2> QED  BY <1>7, <1>8, <1>13, <2>1 DEF PostAsks
  <1>14. ASSUME NEW n \in Names, NEW c \in Asks, AskParks(c, n) PROVE Mail'
    <2> DEFINE msg == [kind |-> "TrySet", ask |-> c]
    <2>1. CASE Send(n, msg)
      <3>1. row[n] \in Incs
        BY <1>1, <2>1, MaxIncAssumption DEF Send, Reachable, RegistryOK, Incs
      <3>2. ask'[c] = [at |-> "setting", name |-> n, inc |-> row[n], call |-> row[n]]
        BY <1>1, <1>14, <2>1 DEF AskParks, Send, CallersOK
      <3>3. ask'[c] \in Called /\ ask'[c].inc = row[n]  BY <3>1, <3>2 DEF Called
      <3>4. msg \in Msg /\ \A i \in Incs : i = row[n] => Addressed(i, msg)'
        BY <3>3 DEF Msg, Addressed
      <3> QED  BY <1>7, <2>1, <3>4
    <2> QED  BY <1>8, <1>14, <2>1 DEF AskParks
  <1>15. ASSUME NEW n \in Names, NEW h \in Hooks, HookDrains(h, n) PROVE Mail'
    <2> DEFINE msg == [kind |-> "Drain", hook |-> h]
    <2>1. hook'[h] = [at |-> "draining", name |-> n, inc |-> row[n]]
      BY <1>1, <1>15 DEF HookDrains, CallersOK
    <2>2. msg \in Msg /\ \A i \in Incs : i = row[n] => Addressed(i, msg)'
      BY <2>1 DEF Msg, Addressed
    <2> QED  BY <1>7, <1>15, <2>2 DEF HookDrains
  <1>16. ASSUME NEW c \in Asks, AskUndoes(c) PROVE Mail'
    <2> DEFINE msg == [kind |-> "Undo", ask |-> c]
    <2>1. ask[c].name \in Names  BY <1>1, <1>16 DEF AskUndoes, CallersOK, Caller, Called
    <2>2. msg \in Msg /\ \A i \in Incs : Addressed(i, msg)'  BY DEF Msg, Addressed
    <2> QED  BY <1>7, <1>8, <1>16, <2>1, <2>2 DEF AskUndoes
  <1> QED
    BY <1>8, <1>9, <1>10, <1>11, <1>12, <1>13, <1>14, <1>15, <1>16
       DEF Next, vars, table, Register, Rename, Remove, PostGivesUp, AskTyped, AskFails,
           AskLeaves, HookEnds, HookInjects

-----------------------------------------------------------------------------
(* Continuations *)

(* Nothing is parked, taken up or told. *)
ActorsLose == \A c \in Asks, i \in Incs : Parked(c, i)' => Parked(c, i)
HooksLose  == \A c \in Asks, h \in Hooks :
                 Carried(c, h)' => Carried(c, h) /\ hook'[h].inc = hook[h].inc
AsksStay   == \A c \in Asks : Open(c) => Open(c)' /\ ask'[c].inc = ask[c].inc

LEMMA PlacedLoses ==
    ASSUME Placed, ActorsLose, HooksLose, AsksStay, UNCHANGED said
    PROVE  Placed'
  BY DEF Placed, ActorsLose, HooksLose, AsksStay

(* An answer never takes an open request back. *)
LEMMA AskStays ==
    ASSUME CallersOK, NEW c \in Asks, ask[c].at \in {"setting", "typing", "undoing"},
           NEW at \in {"typing", "ok", "undoing", "failed", "refused", "quit", "left"},
           Moves(c, at), ask[c].at = "setting" \/ at \in {"ok", "undoing", "failed", "left"}
    PROVE  AsksStay
  BY AskMoves DEF AsksStay, Open

LEMMA AsksStayNext == AgentsTypeOK /\ [Next]_vars => AsksStay
  <1> SUFFICES ASSUME AgentsTypeOK, [Next]_vars PROVE AsksStay  OBVIOUS
  <1>1. CallersOK  BY DEF AgentsTypeOK
  <1>2. CASE UNCHANGED ask  BY <1>2 DEF AsksStay, Open
  <1>3. AskSteady  BY AskSteadyNext
  <1>4. \A c \in Asks : Open(c) => ask[c] \in Called /\ ask[c].at # "new"
    BY <1>1 DEF CallersOK, Caller, Open
  <1>5. ASSUME NEW c \in Asks, \A d \in Asks : d # c => ask'[d] = ask[d],
               Open(c) => Open(c)'
        PROVE  AsksStay
    BY <1>3, <1>4, <1>5 DEF AsksStay, AskSteady, Open
  <1>6. ASSUME NEW c \in Asks, NEW n \in Names, AskParks(c, n) PROVE AsksStay
    <2>1. ~Open(c)  BY <1>6 DEF AskParks, Open
    <2> QED  BY <1>1, <1>5, <1>6, <2>1 DEF AskParks, CallersOK
  <1>7. ASSUME NEW c \in Asks, AskTyped(c) PROVE AsksStay
    <2>1. ask[c].at = "typing" /\ Moves(c, "ok")  BY <1>7 DEF AskTyped, Moves
    <2> QED  BY <1>1, <2>1, AskStays
  <1>8. ASSUME NEW c \in Asks, AskUndoes(c) PROVE AsksStay
    <2>1. CASE Moves(c, "failed")  BY <1>1, <1>8, <2>1, AskStays DEF AskUndoes
    <2>2. ASSUME NEW k, ask' = [ask EXCEPT ![c].at = "undoing", ![c].call = k] PROVE AsksStay
      <3>1. ask' = [ask EXCEPT ![c] = [ask[c] EXCEPT !.at = "undoing", !.call = k]]
        BY <1>1, <2>2 DEF CallersOK
      <3>2. ask[c] \in Called  BY <1>1, <1>8 DEF AskUndoes, CallersOK, Caller
      <3>3. ask'[c].at = "undoing"  BY <1>1, <3>1, <3>2 DEF Called, CallersOK
      <3>4. \A d \in Asks : d # c => ask'[d] = ask[d]  BY <1>1, <3>1 DEF CallersOK
      <3> QED  BY <1>5, <3>3, <3>4 DEF Open
    <2> QED  BY <1>8, <2>1, <2>2 DEF AskUndoes, Moves
  <1>9. ASSUME NEW c \in Asks, AskFails(c) PROVE AsksStay
    <2>1. PICK at \in {"refused", "failed"} :
             Moves(c, at) /\ (ask[c].at = "setting" \/ at = "failed")
      BY <1>9 DEF AskFails, Moves
    <2> QED  BY <1>1, <1>9, <2>1, AskStays DEF AskFails
  <1>10. ASSUME NEW c \in Asks, AskLeaves(c) PROVE AsksStay
    <2>1. PICK at \in {"quit", "left"} :
             Moves(c, at) /\ (ask[c].at = "setting" \/ at = "left")
      BY <1>10 DEF AskLeaves, Moves
    <2> QED  BY <1>1, <1>10, <2>1, AskStays DEF AskLeaves
  <1>11. ASSUME NEW i \in Incs, Handle(i) PROVE AsksStay
    <2>1. Up(i) /\ box[i] # <<>>  BY <1>11 DEF Handle
    <2>2. Head(box[i]) \in Msg  BY <2>1, Handling
    <2> DEFINE c == Head(box[i]).ask
    <2>3. UNCHANGED ask
          \/ \E at \in {"typing", "refused", "failed"} :
                /\ Head(box[i]).kind \in {"TrySet", "Undo"}
                /\ ask[c].at = "setting" \/ (ask[c].at = "undoing" /\ at = "failed")
                /\ Moves(c, at)
      BY <1>11 DEF Handle, HandleRenamed, HandleStale, HandleCurrent, HandleActive, HandleStopped,
                   HandleRecheck, HandleTrySet, HandleUndo, HandleDrain, callers, Moves
    <2>4. Head(box[i]).kind \in {"TrySet", "Undo"} => c \in Asks  BY <2>2 DEF Msg
    <2> HIDE DEF c
    <2> QED  BY <1>1, <1>2, <2>3, <2>4, AskStays
  <1> QED
    BY <1>2, <1>6, <1>7, <1>8, <1>9, <1>10, <1>11
       DEF Next, vars, callers, Register, Rename, Remove, Restart, Execute, Notify, PostAsks,
           PostGivesUp, HookDrains, HookEnds, HookInjects

LEMMA PlacedNext == AgentsTypeOK /\ Mail /\ Placed /\ [Next]_vars => Placed'
  <1> SUFFICES ASSUME AgentsTypeOK, Mail, Placed, [Next]_vars PROVE Placed'  OBVIOUS
  <1>1. TableOK /\ CallersOK /\ RegistryOK  BY DEF AgentsTypeOK
  <1>2. AsksStay  BY AsksStayNext
  <1>3. UNCHANGED hook => HooksLose  BY DEF HooksLose, Carried
  <1>4. UNCHANGED actor => ActorsLose  BY DEF ActorsLose, Parked, Up
  <1>5. ASSUME UNCHANGED <<actor, hook, said>> PROVE Placed'
    BY <1>2, <1>3, <1>4, <1>5, PlacedLoses
  <1>6. ASSUME UNCHANGED <<hook, said>>,
               \A i \in Incs : Up(i)' => actor'[i].slot = None
                                         \/ (Up(i) /\ actor'[i].slot = actor[i].slot)
        PROVE  Placed'
    <2>1. ActorsLose  BY <1>6, NoneAssumption DEF ActorsLose, Parked
    <2> QED  BY <1>2, <1>3, <1>6, <2>1, PlacedLoses
  <1>7. ASSUME NEW i \in Incs, Stopped(i), UNCHANGED <<hook, said>> PROVE Placed'
    BY <1>1, <1>6, <1>7, StoppedKeeps DEF Up, Down
  <1>8. ASSUME NEW n \in Names, Restart(n) PROVE Placed'
    BY <1>1, <1>6, <1>8 DEF Restart, Up, Down, Fresh, TableOK, callers
  <1>9. CASE Execute
    <2>1. PICK e \in todo : ExecuteSpawn(e) \/ ExecuteStop(e) \/ ExecuteRename(e)
      BY <1>9 DEF Execute
    <2>2. e \in Effect /\ UNCHANGED <<hook, said>>  BY <1>1, <1>9 DEF Execute, RegistryOK, callers
    <2>3. CASE ExecuteSpawn(e)
      <3>1. CASE UNCHANGED table  BY <1>5, <2>2, <3>1 DEF table
      <3>2. CASE actor' = [actor EXCEPT ![e.inc] = Fresh(e.name)]
        <4>1. Fresh(e.name).slot = None  BY DEF Fresh
        <4>2. \A j \in Incs : actor'[j] \in {actor[j], Fresh(e.name)}
          BY <1>1, <3>2 DEF TableOK
        <4> QED  BY <1>6, <2>2, <4>1, <4>2 DEF Up
      <3> QED  BY <2>3, <3>1, <3>2 DEF ExecuteSpawn
    <2>4. CASE ExecuteStop(e)
      <3>1. e.inc \in Incs  BY <2>2, <2>4 DEF ExecuteStop, Effect
      <3> QED  BY <1>5, <1>7, <2>2, <2>4, <3>1 DEF ExecuteStop, table
    <2>5. CASE ExecuteRename(e)  BY <1>5, <2>2, <2>5 DEF ExecuteRename, table
    <2> QED  BY <2>1, <2>3, <2>4, <2>5
  <1>10. ASSUME NEW h \in Hooks, HookEnds(h) PROVE Placed'
    <2>1. hook' = [hook EXCEPT ![h] = [at |-> "done"]] /\ UNCHANGED <<actor, said>>
      BY <1>10 DEF HookEnds, table, callers
    <2>2. HooksLose  BY <1>1, <2>1 DEF HooksLose, Carried, CallersOK
    <2> QED  BY <1>2, <1>4, <2>1, <2>2, PlacedLoses
  <1>11. ASSUME NEW h \in Hooks, NEW n \in Names, HookDrains(h, n) PROVE Placed'
    <2>1. HooksLose  BY <1>1, <1>11 DEF HookDrains, HooksLose, Carried, CallersOK
    <2> QED  BY <1>2, <1>4, <1>11, <2>1, PlacedLoses DEF HookDrains
  <1>12. ASSUME NEW h \in Hooks, HookInjects(h) PROVE Placed'
    <2>0. PICK c \in Asks : hook[h].at = "got" /\ hook[h].text = c
      BY <1>1, <1>12 DEF HookInjects, CallersOK, Hook
    <2>1. /\ hook' = [hook EXCEPT ![h] = [at |-> "done"]]
          /\ UNCHANGED <<actor, ask>>
          /\ said' = said \/ said' = [said EXCEPT ![c] = Append(@, hook[h].inc)]
      BY <1>12, <2>0 DEF HookInjects, table
    <2>2. ActorsLose  BY <1>4, <2>1
    <2>3. HooksLose  BY <1>1, <2>1 DEF HooksLose, Carried, CallersOK
    <2>4. CASE said' = said  BY <1>2, <2>2, <2>3, <2>4, PlacedLoses
    <2>5. CASE said' = [said EXCEPT ![c] = Append(@, hook[h].inc)]
      <3>1. /\ Carried(c, h) /\ Open(c) /\ ask[c].inc = hook[h].inc /\ said[c] = <<>>
            /\ \A g \in Hooks : Carried(c, g) => g = h
            /\ \A i \in Incs : ~Parked(c, i)
        BY <2>0 DEF Placed, Carried
      <3>2. said'[c] = <<ask[c].inc>>  BY <1>1, <2>5, <2>1, <3>1 DEF CallersOK
      <3>3. \A d \in Asks : d # c => said'[d] = said[d]  BY <1>1, <2>5 DEF CallersOK
      <3>4. (\A g \in Hooks : ~Carried(c, g)') /\ (\A i \in Incs : ~Parked(c, i)')
        BY <1>1, <2>1, <2>2, <3>1 DEF Carried, ActorsLose, CallersOK
      <3>5. Open(c)' /\ ask'[c].inc = ask[c].inc  BY <1>2, <2>1, <3>1 DEF AsksStay
      <3> QED  BY <1>2, <2>1, <2>2, <2>3, <3>2, <3>3, <3>4, <3>5
               DEF Placed, ActorsLose, HooksLose, AsksStay
    <2> QED  BY <2>1, <2>4, <2>5
  <1>13. ASSUME NEW i \in Incs, Handle(i) PROVE Placed'
    <2>1. Up(i) /\ box[i] # <<>>  BY <1>13 DEF Handle
    <2>2. /\ actor[i] \in UpActor /\ Head(box[i]) \in Msg /\ Head(box[i]) \in In(box[i])
          /\ KnownAs(i) # None => [actor[i] EXCEPT !.name = KnownAs(i)] \in UpActor
      BY <2>1, Handling
    <2>3. Addressed(i, Head(box[i]))  BY <2>2 DEF Mail
    <2>4. ASSUME NEW b \in UpActor, Goes(i, b), UNCHANGED <<hook, said>>,
                 b.slot \in {None, actor[i].slot}
          PROVE  Placed'
      <3>1. \A j \in Incs : actor'[j] = IF j = i THEN b ELSE actor[j]
        BY <1>1, <2>1, <2>4, GoesKeeps
      <3> QED  BY <1>6, <2>1, <2>4, <3>1 DEF Up
    <2>5. CASE HandleRenamed(i)
      <3>1. Head(box[i]).new \in Names  BY <2>2, <2>5 DEF HandleRenamed, Msg
      <3> DEFINE b == [actor[i] EXCEPT !.name = Head(box[i]).new]
      <3>2. b \in UpActor /\ b.slot = actor[i].slot  BY <2>2, <3>1 DEF UpActor
      <3>3. Stopped(i) \/ Goes(i, b)  BY <2>5 DEF HandleRenamed
      <3>4. UNCHANGED <<hook, said>>  BY <2>5 DEF HandleRenamed, callers
      <3> HIDE DEF b
      <3> QED  BY <1>7, <2>4, <3>2, <3>3, <3>4
    <2>6. CASE HandleStale(i)  BY <1>7, <2>6 DEF HandleStale, callers
    <2>7. CASE HandleCurrent(i)
      <3> DEFINE a == [actor[i] EXCEPT !.name = KnownAs(i)]
      <3>1. a \in UpActor /\ a.slot = actor[i].slot
        BY <2>2, <2>7 DEF HandleCurrent, UpActor
      <3>2. \/ HandleActive(i, a) \/ HandleStopped(i, a) \/ HandleRecheck(i, a)
            \/ HandleTrySet(i, a) \/ HandleUndo(i, a) \/ HandleDrain(i, a)
        BY <2>7 DEF HandleCurrent
      <3> HIDE DEF a
      <3>3. CASE HandleActive(i, a)
        <4>1. [a EXCEPT !.mid = TRUE] \in UpActor /\ [a EXCEPT !.mid = TRUE].slot = a.slot
          BY <3>1 DEF UpActor
        <4> QED  BY <2>4, <3>1, <3>3, <4>1 DEF HandleActive, callers
      <3>4. CASE HandleStopped(i, a)
        <4> DEFINE b == [a EXCEPT !.mid = FALSE, !.checks = {}]
        <4>1. b \in UpActor /\ b.slot = a.slot  BY <3>1 DEF UpActor
        <4> QED  BY <2>4, <3>1, <3>4, <4>1 DEF HandleStopped
      <3>5. CASE HandleRecheck(i, a)
        <4>1. Head(box[i]).post \in Posts  BY <2>2, <3>5 DEF HandleRecheck, Msg
        <4> DEFINE b == [a EXCEPT !.checks = @ \cup {Head(box[i]).post}]
        <4>2. b \in UpActor /\ b.slot = a.slot  BY <3>1, <4>1 DEF UpActor
        <4>3. Goes(i, a) \/ Goes(i, b)  BY <3>5 DEF HandleRecheck
        <4> HIDE DEF b
        <4> QED  BY <2>4, <3>1, <3>5, <4>2, <4>3 DEF HandleRecheck
      <3>6. CASE HandleTrySet(i, a)
        <4>1. PICK c \in Asks : c = Head(box[i]).ask /\ UNCHANGED <<hook, said>>
          BY <2>2, <3>6 DEF HandleTrySet, Msg
        <4> DEFINE b == [a EXCEPT !.slot = c]
        <4>2. ask[c].inc = i  BY <2>3, <3>6, <4>1 DEF HandleTrySet, Addressed
        <4>3. b \in UpActor /\ b.slot = c  BY <3>1, <4>1 DEF UpActor
        <4>4. \/ Goes(i, a)
              \/ /\ ask[c].at = "setting" /\ a.slot = None
                 /\ Moves(c, "typing") /\ Goes(i, b)
          BY <3>6, <4>1 DEF HandleTrySet, Moves
        <4>5. CASE Goes(i, a)  BY <2>4, <3>1, <4>1, <4>5
        <4>6. CASE /\ ask[c].at = "setting" /\ a.slot = None
                   /\ Moves(c, "typing") /\ Goes(i, b)
          <5> HIDE DEF b
          <5>1. \A j \in Incs : actor'[j] = IF j = i THEN b ELSE actor[j]
            BY <1>1, <2>1, <4>3, <4>6, GoesKeeps
          <5>2. /\ \A j \in Incs : ~Parked(c, j)
                /\ \A h \in Hooks : ~Carried(c, h)
                /\ said[c] = <<>>
            BY <4>1, <4>6 DEF Placed, Open
          <5>3. ask'[c].at = "typing" /\ ask'[c].inc = i
                /\ \A d \in Asks : d # c => ask'[d] = ask[d]
            BY <1>1, <4>1, <4>2, <4>6, AskMoves
          <5>4. Open(c)'  BY <5>3 DEF Open
          <5>5. /\ \A j \in Incs : Parked(c, j)' => j = i
                /\ \A j \in Incs, d \in Asks : d # c /\ Parked(d, j)' => Parked(d, j)
            BY <4>3, <5>1, <5>2 DEF Parked, Up, UpActor
          <5>6. \A d \in Asks, h \in Hooks : Carried(d, h)' <=> Carried(d, h)
            BY <4>1 DEF Carried
          <5> QED
            BY <1>2, <4>1, <5>2, <5>3, <5>4, <5>5, <5>6 DEF Placed, AsksStay
        <4> QED  BY <4>4, <4>5, <4>6
      <3>7. [a EXCEPT !.slot = None] \in UpActor /\ [a EXCEPT !.slot = None].slot = None
        BY <3>1 DEF UpActor
      <3>8. CASE HandleUndo(i, a)
        <4>1. Goes(i, a) \/ Goes(i, [a EXCEPT !.slot = None])  BY <3>8 DEF HandleUndo
        <4> QED  BY <2>4, <3>1, <3>7, <3>8, <4>1 DEF HandleUndo
      <3>9. CASE HandleDrain(i, a)
        <4> DEFINE b == [a EXCEPT !.slot = None]
        <4>1. PICK h \in Hooks : h = Head(box[i]).hook /\ UNCHANGED <<ask, said>>
          BY <2>2, <3>9 DEF HandleDrain, Msg
        <4>0. PICK c : c = a.slot  OBVIOUS
        <4>2. \/ Goes(i, a) /\ UNCHANGED hook
              \/ /\ hook[h].at = "draining" /\ Goes(i, b)
                 /\ hook' = [hook EXCEPT ![h] = [at |-> "done"]]
              \/ /\ hook[h].at = "draining" /\ Goes(i, b) /\ c # None
                 /\ hook' = [hook EXCEPT ![h] = [at |-> "got", name |-> hook[h].name,
                                                 inc |-> hook[h].inc, text |-> c]]
          BY <1>1, <3>9, <4>0, <4>1 DEF HandleDrain, CallersOK
        <4>3. CASE Goes(i, a) /\ UNCHANGED hook  BY <2>4, <3>1, <4>1, <4>3
        <4>4. ASSUME Goes(i, b)
              PROVE  /\ ActorsLose
                     /\ \A j \in Incs : actor'[j] = IF j = i THEN b ELSE actor[j]
          <5>1. \A j \in Incs : actor'[j] = IF j = i THEN b ELSE actor[j]
            BY <1>1, <2>1, <3>7, <4>4, GoesKeeps
          <5> QED  BY <3>7, <5>1, NoneAssumption DEF ActorsLose, Parked, Up
        <4>5. CASE /\ hook[h].at = "draining" /\ Goes(i, b)
                   /\ hook' = [hook EXCEPT ![h] = [at |-> "done"]]
          <5>1. HooksLose  BY <1>1, <4>1, <4>5 DEF HooksLose, Carried, CallersOK
          <5> QED  BY <1>2, <4>1, <4>4, <4>5, <5>1, PlacedLoses
        <4>6. CASE /\ hook[h].at = "draining" /\ Goes(i, b) /\ c # None
                   /\ hook' = [hook EXCEPT ![h] = [at |-> "got", name |-> hook[h].name,
                                                   inc |-> hook[h].inc, text |-> c]]
          <5>1. c \in Asks /\ Parked(c, i)  BY <2>1, <3>1, <4>0, <4>6 DEF UpActor, Parked
          <5>2. /\ Open(c) /\ ask[c].inc = i /\ said[c] = <<>>
                /\ \A g \in Hooks : ~Carried(c, g)
                /\ \A j \in Incs : Parked(c, j) => j = i
            BY <5>1 DEF Placed
          <5>3. hook[h].inc = i  BY <2>3, <3>9, <4>1, <4>6 DEF HandleDrain, Addressed
          <5>4. /\ hook'[h].at = "got" /\ hook'[h].inc = i /\ hook'[h].text = c
                /\ \A g \in Hooks : g # h => hook'[g] = hook[g]
            BY <1>1, <4>1, <4>6, <5>3 DEF CallersOK
          <5>5. \A j \in Incs : ~Parked(c, j)'
            BY <3>7, <4>4, <4>6, <5>1, <5>2, NoneAssumption DEF Parked, ActorsLose, Up
          <5>6. ActorsLose  BY <4>4, <4>6
          <5> HIDE DEF b
          <5>7. /\ \A g \in Hooks : Carried(c, g)' => g = h
                /\ \A d \in Asks, g \in Hooks :
                      d # c /\ Carried(d, g)' => Carried(d, g) /\ hook'[g].inc = hook[g].inc
            BY <5>2, <5>4 DEF Carried
          <5> QED
            BY <1>2, <4>1, <5>1, <5>2, <5>4, <5>5, <5>6, <5>7
               DEF Placed, ActorsLose, AsksStay
        <4> QED  BY <4>2, <4>3, <4>5, <4>6
      <3> QED  BY <3>2, <3>3, <3>4, <3>5, <3>6, <3>8, <3>9
    <2> QED  BY <1>13, <2>5, <2>6, <2>7 DEF Handle
  <1> QED
    BY <1>5, <1>8, <1>9, <1>10, <1>11, <1>12, <1>13
       DEF Next, vars, table, callers, Register, Rename, Remove, Notify, PostAsks, PostGivesUp,
           AskParks, AskTyped, AskUndoes, AskFails, AskLeaves

-----------------------------------------------------------------------------
(* Actors and what is queued with them *)

(* What a step does to the actors, other than let them handle a message *)
OnlyStops == \A i \in Incs : actor[i] # Unborn => actor'[i] \in {actor[i], Down}

NothingQueued == \A p \in Posts : post'[p].at = "queued" => post'[p] = post[p]

LEMMA HandleActors ==
    ASSUME AgentsTypeOK, NEW i \in Incs, Handle(i)
    PROVE  /\ actor[i] # Unborn /\ actor'[i] # Unborn
           /\ \A j \in Incs : j # i => actor'[j] = actor[j]
           /\ UNCHANGED <<last, todo, pub>>
  <1>1. TableOK  BY DEF AgentsTypeOK
  <1>2. Up(i) /\ box[i] # <<>> /\ UNCHANGED <<last, todo, pub>>  BY DEF Handle, registry
  <1>3. actor[i] \in UpActor  BY <1>2, Handling
  <1>4. Stopped(i) \/ \E b \in UpActor : Goes(i, b)  BY HandleGoes
  <1> QED  BY <1>1, <1>2, <1>3, <1>4, StoppedKeeps DEF Goes, TableOK, Unborn, Down, UpActor

LEMMA BornNext == AgentsTypeOK /\ Born /\ SpawnedOnce /\ [Next]_vars => Born'
  <1> SUFFICES ASSUME AgentsTypeOK, Born, SpawnedOnce, [Next]_vars PROVE Born'  OBVIOUS
  <1>1. TableOK /\ RegistryOK  BY DEF AgentsTypeOK
  <1>2. Unborn # Down /\ \A n \in Names : Fresh(n) # Unborn  BY DEF Unborn, Down, Fresh
  <1>3. last' \in Nat /\ last <= last'
    <2>1. ASSUME NEW n \in Names, NEW m \in Names \cup {None}, Register(n, m)
          PROVE  last' = last + 1
      BY <2>1 DEF Register
    <2>2. ASSUME NEW n \in Names, Restart(n) PROVE last' = last + 1  BY <2>2 DEF Restart
    <2>3. last' \in {last, last + 1}
      BY <2>1, <2>2
         DEF Next, vars, registry, Rename, Remove, Execute, Notify, PostAsks, PostGivesUp,
             AskParks, AskTyped, AskUndoes, AskFails, AskLeaves, HookDrains, HookEnds,
             HookInjects, Handle
    <2> QED  BY <1>1, <2>3, MaxIncAssumption DEF RegistryOK
  <1>4. ASSUME UNCHANGED <<actor, pub>> PROVE Born'
    BY <1>1, <1>3, <1>4 DEF Born, RegistryOK, Incs
  <1>5. ASSUME NEW n \in Names, Restart(n) PROVE Born'
    <2>1. row[n] \in Incs /\ last' = last + 1 /\ last' \in Incs
      BY <1>1, <1>5, MaxIncAssumption DEF Restart, RegistryOK, Incs
    <2>2. \A i \in Incs : actor'[i] = IF i = last' THEN Fresh(n)
                                      ELSE IF i = row[n] /\ pub[i] = n THEN Down ELSE actor[i]
      BY <1>1, <1>5, <2>1 DEF Restart, TableOK
    <2>3. \A i \in Incs : i # last' => pub'[i] = pub[i] \/ pub'[i] = None
      BY <1>1, <1>5, <2>1 DEF Restart, TableOK
    <2>4. n # None  BY NoneAssumption
    <2> QED  BY <1>1, <1>2, <1>3, <2>1, <2>2, <2>3, <2>4 DEF Born, RegistryOK, Incs
  <1>6. CASE Execute
    <2>1. PICK e \in todo : ExecuteSpawn(e) \/ ExecuteStop(e) \/ ExecuteRename(e)
      BY <1>6 DEF Execute
    <2>2. e \in Effect /\ last' = last  BY <1>1, <1>6 DEF Execute, RegistryOK, registry
    <2>3. CASE ExecuteSpawn(e)
      <3>1. e.inc \in Incs /\ e.name \in Names /\ e.inc <= last
        BY <2>2, <2>3 DEF ExecuteSpawn, Effect, SpawnedOnce
      <3>2. CASE UNCHANGED table  BY <1>4, <3>2 DEF table
      <3>3. CASE /\ pub' = [pub EXCEPT ![e.inc] = e.name]
                 /\ actor' = [actor EXCEPT ![e.inc] = Fresh(e.name)]
        BY <1>1, <1>2, <2>2, <3>1, <3>3 DEF Born, TableOK
      <3> QED  BY <2>3, <3>2, <3>3 DEF ExecuteSpawn
    <2>4. CASE ExecuteStop(e)
      <3>1. e.inc \in Incs /\ e.name # None
        BY <2>2, <2>4, NoneAssumption DEF ExecuteStop, Effect
      <3>2. CASE UNCHANGED table  BY <1>4, <3>2 DEF table
      <3>3. CASE /\ pub[e.inc] = e.name /\ pub' = [pub EXCEPT ![e.inc] = None]
                 /\ actor' = [actor EXCEPT ![e.inc] = Down]
        BY <1>1, <1>2, <2>2, <3>1, <3>3 DEF Born, TableOK
      <3> QED  BY <2>4, <3>2, <3>3 DEF ExecuteStop, Stopped
    <2>5. CASE ExecuteRename(e)
      <3>1. e.inc \in Incs /\ e.old # None
        BY <2>2, <2>5, NoneAssumption DEF ExecuteRename, Effect
      <3>2. CASE UNCHANGED table  BY <1>4, <3>2 DEF table
      <3>3. CASE /\ pub[e.inc] = e.old /\ pub' = [pub EXCEPT ![e.inc] = e.new]
                 /\ UNCHANGED actor
        BY <1>1, <2>2, <3>1, <3>3 DEF Born, TableOK
      <3> QED  BY <2>5, <3>2, <3>3 DEF ExecuteRename
    <2> QED  BY <2>1, <2>3, <2>4, <2>5
  <1>7. ASSUME NEW i \in Incs, Handle(i) PROVE Born'
    BY <1>7, HandleActors DEF Born
  <1> QED
    BY <1>4, <1>5, <1>6, <1>7
       DEF Next, vars, table, Register, Rename, Remove, Notify, PostAsks, PostGivesUp, AskParks,
           AskTyped, AskUndoes, AskFails, AskLeaves, HookDrains, HookEnds, HookInjects

LEMMA SpawnedOnceNext == AgentsTypeOK /\ Born /\ SpawnedOnce /\ [Next]_vars => SpawnedOnce'
  <1> SUFFICES ASSUME AgentsTypeOK, Born, SpawnedOnce, [Next]_vars PROVE SpawnedOnce'
    OBVIOUS
  <1>1. TableOK /\ RegistryOK  BY DEF AgentsTypeOK
  <1>2. \A e \in todo : e.inc \in Incs  BY <1>1 DEF RegistryOK, Effect
  <1>3. ASSUME UNCHANGED last, todo' \subseteq todo,
               \A e \in todo' : e.op = "spawn" => actor'[e.inc] = actor[e.inc]
        PROVE  SpawnedOnce'
    BY <1>3 DEF SpawnedOnce
  <1>4. ASSUME UNCHANGED <<last, actor>>,
               \A e \in todo' : e \in todo \/ e.op # "spawn"
        PROVE  SpawnedOnce'
    BY <1>4 DEF SpawnedOnce
  <1>5. ASSUME NEW n \in Names, NEW m \in Names \cup {None}, Register(n, m)
        PROVE  SpawnedOnce'
    <2>1. last' = last + 1 /\ last \in Nat /\ last' \in Incs /\ UNCHANGED actor
      BY <1>1, <1>5, MaxIncAssumption DEF Register, RegistryOK, Incs, table
    <2>2. SpawnAgent(n, last').op = "spawn" /\ SpawnAgent(n, last').inc = last'
      BY DEF SpawnAgent
    <2>3. \A e \in todo' : e.op = "spawn" => e \in todo \/ e = SpawnAgent(n, last')
      BY <1>5 DEF Register, StopAgent
    <2>4. actor[last'] = Unborn  BY <2>1 DEF Born
    <2>5. \A e \in todo : e.op = "spawn" => e.inc <= last /\ e.inc # last'
      BY <1>2, <2>1 DEF SpawnedOnce, Incs
    <2> HIDE DEF SpawnAgent
    <2> QED  BY <1>2, <2>1, <2>2, <2>3, <2>4, <2>5 DEF SpawnedOnce, Incs
  <1>6. ASSUME NEW n \in Names, NEW m \in Names, Rename(n, m) PROVE SpawnedOnce'
    BY <1>4, <1>6 DEF Rename, RenameAgent, table
  <1>7. ASSUME NEW n \in Names, Remove(n) PROVE SpawnedOnce'
    BY <1>4, <1>7 DEF Remove, StopAgent, table
  <1>8. ASSUME NEW n \in Names, Restart(n) PROVE SpawnedOnce'
    <2>1. row[n] \in Incs /\ last' = last + 1 /\ last \in Nat /\ last' \in Incs /\ todo' = todo
      BY <1>1, <1>8, MaxIncAssumption DEF Restart, RegistryOK, Incs
    <2>2. \A i \in Incs : i # last' => actor'[i] = actor[i] \/ pub[i] = n
      BY <1>1, <1>8, <2>1 DEF Restart, TableOK
    <2>3. \A e \in todo : e.op = "spawn" => e.inc # last' /\ pub[e.inc] # n
      BY <1>2, <2>1, NoneAssumption DEF SpawnedOnce, Born, Incs
    <2> QED  BY <1>2, <2>1, <2>2, <2>3 DEF SpawnedOnce, Incs
  <1>9. CASE Execute
    <2>1. PICK e \in todo : /\ ExecuteSpawn(e) \/ ExecuteStop(e) \/ ExecuteRename(e)
                            /\ todo' = todo \ {e} /\ last' = last
      BY <1>9 DEF Execute, registry
    <2>2. e \in Effect  BY <1>1 DEF RegistryOK
    <2>3. CASE ExecuteSpawn(e)
      <3>1. \A f \in todo' : f.op = "spawn" => f.inc # e.inc
        BY <2>1, <2>3 DEF ExecuteSpawn, SpawnedOnce
      <3>2. \A i \in Incs : i # e.inc => actor'[i] = actor[i]
        BY <1>1, <2>3 DEF ExecuteSpawn, TableOK, table
      <3> QED  BY <1>2, <1>3, <2>1, <3>1, <3>2
    <2>4. CASE ExecuteStop(e)
      <3>1. \A i \in Incs : actor'[i] = actor[i] \/ pub[i] # None
        BY <1>1, <2>2, <2>4, NoneAssumption DEF ExecuteStop, Stopped, TableOK, table, Effect
      <3>2. \A f \in todo : f.op = "spawn" => pub[f.inc] = None
        BY <1>2 DEF SpawnedOnce, Born
      <3> QED  BY <1>2, <1>3, <2>1, <3>1, <3>2
    <2>5. CASE ExecuteRename(e)
      BY <1>3, <2>1, <2>5 DEF ExecuteRename, table
    <2> QED  BY <2>1, <2>3, <2>4, <2>5
  <1>10. ASSUME NEW i \in Incs, Handle(i) PROVE SpawnedOnce'
    <2>1. \A e \in todo : e.op = "spawn" => e.inc # i  BY <1>10, HandleActors DEF SpawnedOnce
    <2> QED  BY <1>2, <1>3, <1>10, <2>1, HandleActors
  <1> QED
    BY <1>3, <1>5, <1>6, <1>7, <1>8, <1>9, <1>10
       DEF Next, vars, table, registry, Notify, PostAsks, PostGivesUp, AskParks,
           AskTyped, AskUndoes, AskFails, AskLeaves, HookDrains, HookEnds, HookInjects

(* A delivery is queued, and looked at again, in a message only. *)
LEMMA HeldNext == AgentsTypeOK /\ Born /\ SpawnedOnce /\ Held /\ [Next]_vars => Held'
  <1> SUFFICES ASSUME AgentsTypeOK, Born, SpawnedOnce, Held, [Next]_vars PROVE Held'
    OBVIOUS
  <1>1. TableOK /\ RegistryOK /\ CallersOK  BY DEF AgentsTypeOK
  <1>3. ASSUME OnlyStops, NothingQueued PROVE Held'
    <2>1. Down # Unborn /\ Down.st # "up"  BY DEF Down, Unborn
    <2> SUFFICES ASSUME NEW p \in Posts, NEW i \in Incs,
                        post'[p].at = "queued", post'[p].inc = i
                 PROVE  Holds(i, p)'
      BY DEF Held
    <2>2. post'[p] = post[p] /\ Holds(i, p)  BY <1>3 DEF NothingQueued, Held
    <2>3. actor'[i] \in {actor[i], Down}  BY <1>3, <2>2 DEF Holds, OnlyStops
    <2> QED  BY <2>1, <2>2, <2>3 DEF Holds, Up
  <1>4. UNCHANGED actor => OnlyStops  BY DEF OnlyStops
  <1>5. UNCHANGED post => NothingQueued  BY DEF NothingQueued
  <1>6. ASSUME NEW p \in Posts, NEW n \in Names, PostAsks(p, n) PROVE NothingQueued
    BY <1>1, <1>6 DEF PostAsks, NothingQueued, CallersOK
  <1>7. ASSUME NEW p \in Posts, PostGivesUp(p) PROVE NothingQueued
    BY <1>1, <1>7 DEF PostGivesUp, NothingQueued, CallersOK
  <1>8. ASSUME NEW n \in Names, Restart(n) PROVE OnlyStops
    <2>1. last' = last + 1 /\ last' \in Incs
      BY <1>1, <1>8, MaxIncAssumption DEF Restart, RegistryOK, Incs
    <2>2. actor[last'] = Unborn  BY <1>1, <2>1 DEF Born, RegistryOK
    <2>3. \A i \in Incs : i # last' => actor'[i] \in {actor[i], Down}
      BY <1>1, <1>8, <2>1 DEF Restart, TableOK
    <2> QED  BY <2>2, <2>3 DEF OnlyStops
  <1>9. CASE Execute
    <2>1. PICK e \in todo : ExecuteSpawn(e) \/ ExecuteStop(e) \/ ExecuteRename(e)
      BY <1>9 DEF Execute
    <2>2. UNCHANGED post  BY <1>9 DEF Execute, callers
    <2>3. CASE ExecuteSpawn(e)
      <3>1. actor[e.inc] = Unborn  BY <2>1, <2>3 DEF ExecuteSpawn, SpawnedOnce
      <3>2. \A i \in Incs : i # e.inc => actor'[i] = actor[i]
        BY <1>1, <2>3 DEF ExecuteSpawn, TableOK, table
      <3>3. OnlyStops  BY <3>1, <3>2 DEF OnlyStops
      <3> QED  BY <1>3, <1>5, <2>2, <3>3
    <2>4. CASE ExecuteStop(e)
      <3>1. OnlyStops  BY <1>1, <2>4 DEF ExecuteStop, Stopped, OnlyStops, TableOK, table
      <3> QED  BY <1>3, <1>5, <2>2, <3>1
    <2>5. CASE ExecuteRename(e)
      BY <1>3, <1>4, <1>5, <2>2, <2>5 DEF ExecuteRename, table
    <2> QED  BY <2>1, <2>3, <2>4, <2>5
  <1>10. ASSUME NEW i \in Incs, Handle(i) PROVE Held'
    <2>1. Up(i) /\ box[i] # <<>>  BY <1>10 DEF Handle
    <2>2. /\ actor[i] \in UpActor /\ Head(box[i]) \in Msg
          /\ KnownAs(i) # None => [actor[i] EXCEPT !.name = KnownAs(i)] \in UpActor
      BY <2>1, Handling
    <2>3. /\ actor'[i] # Unborn
          /\ \A j \in Incs : j # i => actor'[j] = actor[j]
      BY <1>10, HandleActors
    <2>4. CASE Stopped(i) /\ UNCHANGED post
      <3>1. actor'[i] = Down  BY <1>1, <2>4, StoppedKeeps
      <3>2. OnlyStops  BY <2>3, <3>1 DEF OnlyStops
      <3> QED  BY <1>3, <1>5, <2>4, <3>2
    <2>5. ASSUME NEW b \in UpActor, Goes(i, b),
                 b.mid, actor[i].checks \subseteq b.checks,
                 \A p \in Posts : post'[p].at = "queued" =>
                    \/ post'[p] = post[p]
                    \/ post'[p].inc = i /\ p \in b.checks
          PROVE  Held'
      <3>1. actor'[i] = b  BY <1>1, <2>1, <2>5, GoesKeeps
      <3> SUFFICES ASSUME NEW p \in Posts, NEW j \in Incs,
                          post'[p].at = "queued", post'[p].inc = j
                   PROVE  Holds(j, p)'
        BY DEF Held
      <3>2. (j = i /\ p \in b.checks) \/ Holds(j, p)  BY <2>5 DEF Held
      <3>3. CASE j = i
        <4>1. p \in b.checks  BY <2>1, <2>5, <3>2, <3>3 DEF Holds
        <4> QED  BY <2>3, <2>5, <3>1, <3>3, <4>1 DEF Holds
      <3>4. CASE j # i  BY <2>3, <3>2, <3>4 DEF Holds, Up
      <3> QED  BY <3>3, <3>4
    <2>6. ASSUME NEW b \in UpActor, Goes(i, b), UNCHANGED post,
                 b.mid = actor[i].mid, b.checks = actor[i].checks
          PROVE  Held'
      <3>1. actor'[i] = b  BY <1>1, <2>1, <2>6, GoesKeeps
      <3> SUFFICES ASSUME NEW p \in Posts, NEW j \in Incs,
                          post'[p].at = "queued", post'[p].inc = j
                   PROVE  Holds(j, p)'
        BY DEF Held
      <3>2. Holds(j, p)  BY <2>6 DEF Held
      <3>3. CASE j = i  BY <2>1, <2>3, <2>6, <3>1, <3>2, <3>3 DEF Holds
      <3>4. CASE j # i  BY <2>3, <3>2, <3>4 DEF Holds, Up
      <3> QED  BY <3>3, <3>4
    <2>7. CASE HandleRenamed(i)
      <3>1. Head(box[i]).new \in Names  BY <2>2, <2>7 DEF HandleRenamed, Msg
      <3> DEFINE b == [actor[i] EXCEPT !.name = Head(box[i]).new]
      <3>2. b \in UpActor /\ b.mid = actor[i].mid /\ b.checks = actor[i].checks
        BY <2>2, <3>1 DEF UpActor
      <3>3. (Stopped(i) \/ Goes(i, b)) /\ UNCHANGED post  BY <2>7 DEF HandleRenamed, callers
      <3> HIDE DEF b
      <3> QED  BY <2>4, <2>6, <3>2, <3>3
    <2>8. CASE HandleStale(i)  BY <2>4, <2>8 DEF HandleStale, callers
    <2>9. CASE HandleCurrent(i)
      <3> DEFINE a == [actor[i] EXCEPT !.name = KnownAs(i)]
      <3>1. a \in UpActor /\ a.mid = actor[i].mid /\ a.checks = actor[i].checks
        BY <2>2, <2>9 DEF HandleCurrent, UpActor
      <3>2. \/ HandleActive(i, a) \/ HandleStopped(i, a) \/ HandleRecheck(i, a)
            \/ HandleTrySet(i, a) \/ HandleUndo(i, a) \/ HandleDrain(i, a)
        BY <2>9 DEF HandleCurrent
      <3> HIDE DEF a
      <3>3. CASE HandleActive(i, a)
        <4> DEFINE b == [a EXCEPT !.mid = TRUE]
        <4>1. b \in UpActor /\ b.mid /\ b.checks = a.checks  BY <3>1 DEF UpActor
        <4>2. Goes(i, b) /\ UNCHANGED post  BY <3>3 DEF HandleActive, callers
        <4> HIDE DEF b
        <4> QED  BY <2>5, <3>1, <4>1, <4>2
      <3>4. CASE HandleStopped(i, a)
        <4> DEFINE b == [a EXCEPT !.mid = FALSE, !.checks = {}]
        <4>1. b \in UpActor  BY <3>1 DEF UpActor
        <4>2. actor'[i] = b  BY <1>1, <2>1, <3>4, <4>1, GoesKeeps DEF HandleStopped
        <4> SUFFICES ASSUME NEW p \in Posts, NEW j \in Incs,
                            post'[p].at = "queued", post'[p].inc = j
                     PROVE  Holds(j, p)'
          BY DEF Held
        <4>3. post'[p] = post[p] /\ p \notin a.checks  BY <3>4 DEF HandleStopped
        <4>4. Holds(j, p)  BY <4>3 DEF Held
        <4>5. j # i  BY <2>1, <3>1, <4>3, <4>4 DEF Holds
        <4> QED  BY <2>3, <4>4, <4>5 DEF Holds, Up
      <3>5. CASE HandleRecheck(i, a)
        <4>1. PICK p \in Posts : p = Head(box[i]).post
          BY <2>2, <3>5 DEF HandleRecheck, Msg
        <4> DEFINE b == [a EXCEPT !.checks = @ \cup {p}]
        <4>2. /\ b \in UpActor /\ b.mid = a.mid /\ p \in b.checks /\ a.checks \subseteq b.checks
          BY <3>1, <4>1 DEF UpActor
        <4>3. CASE a.mid
          <5>1. Goes(i, b)  BY <3>5, <4>1, <4>3 DEF HandleRecheck
          <5>2. \A q \in Posts : post'[q].at = "queued" =>
                   post'[q] = post[q] \/ (post'[q].inc = i /\ q \in b.checks)
            BY <1>1, <3>5, <4>1, <4>2, <4>3 DEF HandleRecheck, CallersOK
          <5> HIDE DEF b
          <5> QED  BY <2>5, <3>1, <4>2, <4>3, <5>1, <5>2
        <4>4. CASE ~a.mid
          <5>1. Goes(i, a)  BY <3>5, <4>4 DEF HandleRecheck
          <5>2. \A q \in Posts : post'[q].at = "queued" => post'[q] = post[q]
            BY <1>1, <3>5, <4>1, <4>4 DEF HandleRecheck, CallersOK
          <5> SUFFICES ASSUME NEW q \in Posts, NEW j \in Incs,
                              post'[q].at = "queued", post'[q].inc = j
                       PROVE  Holds(j, q)'
            BY DEF Held
          <5>3. Holds(j, q)  BY <5>2 DEF Held
          <5>4. j # i  BY <2>1, <3>1, <4>4, <5>3 DEF Holds
          <5> QED  BY <2>3, <5>3, <5>4 DEF Holds, Up
        <4> QED  BY <4>3, <4>4
      <3>6. CASE HandleTrySet(i, a)
        <4>1. Head(box[i]).ask \in Asks  BY <2>2, <3>6 DEF HandleTrySet, Msg
        <4> DEFINE b == [a EXCEPT !.slot = Head(box[i]).ask]
        <4>2. b \in UpActor /\ b.mid = a.mid /\ b.checks = a.checks  BY <3>1, <4>1 DEF UpActor
        <4>3. (Goes(i, a) \/ Goes(i, b)) /\ UNCHANGED post  BY <3>6 DEF HandleTrySet
        <4> HIDE DEF b
        <4> QED  BY <2>6, <3>1, <4>2, <4>3
      <3> DEFINE b == [a EXCEPT !.slot = None]
      <3>7. b \in UpActor /\ b.mid = a.mid /\ b.checks = a.checks  BY <3>1 DEF UpActor
      <3>8. ASSUME HandleUndo(i, a) \/ HandleDrain(i, a) PROVE Held'
        <4>1. (Goes(i, a) \/ Goes(i, b)) /\ UNCHANGED post
          BY <3>8 DEF HandleUndo, HandleDrain
        <4> HIDE DEF b
        <4> QED  BY <2>6, <3>1, <3>7, <4>1
      <3> QED  BY <3>2, <3>3, <3>4, <3>5, <3>6, <3>8
    <2> QED  BY <1>10, <2>7, <2>8, <2>9 DEF Handle
  <1> QED
    BY <1>3, <1>4, <1>5, <1>6, <1>7, <1>8, <1>9, <1>10
       DEF Next, vars, table, callers, Register, Rename, Remove, Restart, Notify, PostAsks,
           PostGivesUp, AskParks, AskTyped, AskUndoes, AskFails, AskLeaves, HookDrains,
           HookEnds, HookInjects

-----------------------------------------------------------------------------
LEMMA InitInv == Init => IInv
  <1> SUFFICES ASSUME Init PROVE IInv  OBVIOUS
  <1>1. AgentsTypeOK
    BY MaxIncAssumption, InEmpty
       DEF Init, AgentsTypeOK, RegistryOK, TableOK, CallersOK, Caller, Hook, Post
  <1>2. Mail  BY InEmpty DEF Init, Mail
  <1>3. Placed  BY DEF Init, Placed, Parked, Carried, Up, Unborn
  <1>4. Born /\ SpawnedOnce /\ Held  BY NoneAssumption DEF Init, Born, SpawnedOnce, Held
  <1> QED  BY <1>1, <1>2, <1>3, <1>4 DEF IInv

(* The inductive invariant holds in every reachable state.                 *)
THEOREM AgentsInv == Spec => []IInv
  <1>1. IInv /\ [Next]_vars => IInv'
    BY TypesNext, MailNext, PlacedNext, BornNext, SpawnedOnceNext, HeldNext DEF IInv
  <1> QED  BY <1>1, InitInv, PTL DEF Spec

(* A continuation is told at most once, to the incarnation it was parked   *)
(* for, however many requests, hooks, renames and restarts meet.           *)
THEOREM ContinuationsTold == Spec => []SaidOnce
  <1>1. IInv => SaidOnce  BY DEF IInv, SaidOnce, Placed, Open
  <1> QED  BY <1>1, AgentsInv, PTL

(* What a sender was told is queued is held by an agent in mid turn.       *)
THEOREM QueuedKept == Spec => []QueuedHeld
  <1>1. IInv => QueuedHeld
    BY DEF IInv, Held, Holds, QueuedHeld, AgentsTypeOK, CallersOK, Post
  <1> QED  BY <1>1, AgentsInv, PTL
=============================================================================
