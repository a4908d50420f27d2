----------------------------- MODULE RepliesProofs -----------------------------
(***************************************************************************)
(* Proofs about module Replies, for any number of sessions, peers, sends   *)
(* under way and messages: obligations are kept, none is invented, none    *)
(* comes back, and a reminder is lost only on purpose.                     *)
(***************************************************************************)
EXTENDS Replies, TLAPS

-------------------------------------------------------------------------------
(* Types *)

LEMMA Locals == /\ Local \subseteq Name
                /\ \A n \in Name : n \in Local <=> n.at = Home
                /\ \A n \in Local : n \in Name /\ n.at = Home
                /\ \A n \in Remote : n \in Name /\ n \notin Local /\ n.at # Home
                /\ \A n \in Name : Bare(n) \in Local
BY DEF Local, Name, Remote, Bare

LEMMA OwesTypes ==
    ASSUME NEW k \in Local, NEW e \in Entry
    PROVE  /\ Owes(k, e) \in Obligation
           /\ Owes(k, e).by = k /\ Owes(k, e).msg = e.msg /\ Owes(k, e).from = e.from
BY DEF Owes, Obligation, Entry

LEMMA KnownTypes ==
    ASSUME RepliesTypeOK
    PROVE  /\ Known \subseteq Obligation /\ Open \subseteq Obligation
           /\ \A c \in Busy : c \in Calls /\ calls[c] \in Call
<1>1. \A c \in Busy : c \in Calls /\ calls[c] \in Call
    BY DEF Busy, RepliesTypeOK, Idle
<1>2. Underway \subseteq Obligation
    BY <1>1 DEF Underway, Call
<1>3. Open \subseteq Obligation
    BY OwesTypes DEF Open, RepliesTypeOK
<1>. QED BY <1>1, <1>2, <1>3 DEF Known, RepliesTypeOK

LEMMA FoundTypes ==
    ASSUME NEW q \in SUBSET Entry, NEW m
    PROVE  \A x \in Found(q, m) : /\ x \in Maybe /\ x \subseteq q
                                  /\ \A e \in x : e.msg = m
                                  /\ x = {} => \A e \in q : e.msg # m
BY DEF Found, Maybe

LEMMA ThreadTypes ==
    ASSUME NEW q \in SUBSET Entry, NEW to, NEW re, NEW done \in BOOLEAN
    PROVE  Thread(q, to, re, done) \in SUBSET Entry
<1>1. \A e \in Entry : [e EXCEPT !.progress = TRUE] \in Entry
    BY DEF Entry
<1>. QED BY <1>1 DEF Thread

LEMMA FollowTypes ==
    ASSUME NEW O \in SUBSET Obligation, NEW old \in Local, NEW new \in Local
    PROVE  Follow(O, old, new) \in SUBSET Obligation
<1>1. \A o \in Obligation :
        [o EXCEPT !.by = Renamed(@, old, new), !.from = Renamed(@, old, new)] \in Obligation
    BY Locals DEF Obligation, Renamed
<1>. QED BY <1>1 DEF Follow

LEMMA AsksTypes ==
    ASSUME NEW to \in Name, NEW from \in Name, NEW m \in Msgs, NEW asks \in BOOLEAN
    PROVE  Asks(to, m, from, asks) \in SUBSET Obligation
BY Locals DEF Asks, Obligation

LEMMA PushTypes ==
    ASSUME NEW q \in SUBSET Entry, NEW m \in Msgs, NEW from \in Name, NEW asks \in BOOLEAN
    PROVE  Push(q, m, from, asks) \in SUBSET Entry
<1>1. [msg |-> m, from |-> from, progress |-> FALSE] \in Entry
    BY DEF Entry
<1>. QED BY <1>1 DEF Push

LEMMA NextMsg ==
    ASSUME seq \in 0..MaxMsg, seq < MaxMsg
    PROVE  seq + 1 \in Msgs /\ seq + 1 \in 0..MaxMsg
BY BoundAssumption DEF Msgs

LEMMA TypeInit == RepliesInit => RepliesTypeOK
BY BoundAssumption DEF RepliesInit, RepliesTypeOK

LEMMA SessionTypes ==
    ASSUME RepliesTypeOK, SessionStep
    PROVE  RepliesTypeOK'
<1>. USE DEF RepliesTypeOK
<1>1. ASSUME NEW n \in Local, NEW replaced, Register(n, replaced) PROVE RepliesTypeOK'
    <2>. DEFINE gone == UNION {Concerning(m) : m \in replaced}
    <2>1. gone \subseteq Obligation
        BY KnownTypes DEF Concerning
    <2>2. owed' = owed \ gone /\ abandoned' = abandoned \cup (gone \ settled)
        BY <1>1 DEF Register
    <2>. HIDE DEF gone
    <2>3. live' \subseteq Name /\ UNCHANGED <<pending, seq, calls, sweeps, settled>>
        BY <1>1, Locals DEF Register
    <2>4. note' \in [Local -> BOOLEAN]
        BY <1>1 DEF Register
    <2>. QED BY <2>1, <2>2, <2>3, <2>4
<1>2. ASSUME NEW n \in Local, RestartReminder(n) PROVE RepliesTypeOK'
    BY <1>2 DEF RestartReminder
<1>3. ASSUME NEW n \in Local, RemoveSession(n) PROVE RepliesTypeOK'
    <2>1. [names |-> {n}, owned |-> TRUE] \in Sweep
        BY DEF Sweep
    <2>2. Concerning(n) \subseteq Obligation
        BY KnownTypes DEF Concerning
    <2>. QED BY <1>3, <2>1, <2>2 DEF RemoveSession
<1>4. ASSUME NEW old \in Local, NEW new \in Local, Rename(old, new) PROVE RepliesTypeOK'
    <2>1. live' \subseteq Name /\ note' \in [Local -> BOOLEAN]
        BY <1>4, Locals DEF Rename
    <2>2. pending' \in [Local -> SUBSET Entry]
        <3>1. CASE pending[old] = {}
            BY <1>4, <3>1 DEF Rename
        <3>2. CASE pending[old] # {}
            <4>1. pending' = [pending EXCEPT ![old] = {}, ![new] = pending[old]]
                BY <1>4, <3>2 DEF Rename
            <4>. QED BY <4>1
        <3>. QED BY <3>1, <3>2
    <2>3. owed' \subseteq Obligation /\ settled' \cup abandoned' \subseteq Obligation
        <3>1. /\ owed \in SUBSET Obligation /\ settled \in SUBSET Obligation
              /\ abandoned \in SUBSET Obligation
            OBVIOUS
        <3>. QED BY <1>4, <3>1, FollowTypes DEF Rename
    <2>4. calls' \in [Calls -> Call \cup {Idle}]
        <3>1. ASSUME NEW c \in Busy
              PROVE  [calls[c] EXCEPT !.asked = Follow(@, old, new),
                                      !.answers = Follow(@, old, new)] \in Call
            <4>1. calls[c] \in Call
                BY KnownTypes
            <4>2. Follow(calls[c].asked, old, new) \in SUBSET Obligation
                BY <4>1, FollowTypes DEF Call
            <4>3. Follow(calls[c].answers, old, new) \in SUBSET Obligation
                BY <4>1, FollowTypes DEF Call
            <4>. QED BY <4>1, <4>2, <4>3 DEF Call
        <3>. QED BY <1>4, <3>1 DEF Rename
    <2>5. seq' = seq /\ sweeps' = sweeps
        BY <1>4 DEF Rename
    <2>. QED BY <2>1, <2>2, <2>3, <2>4, <2>5
<1>5. ASSUME NEW s \in sweeps, ExecuteSweep(s) PROVE RepliesTypeOK'
    BY <1>5 DEF ExecuteSweep, Orphaned
<1>6. ASSUME NEW k \in Local, NEW f \in Name, DeletePendingReply(k, f) PROVE RepliesTypeOK'
    BY <1>6, KnownTypes DEF DeletePendingReply
<1>. QED BY <1>1, <1>2, <1>3, <1>4, <1>5, <1>6 DEF SessionStep

LEMMA PeerTypes ==
    ASSUME RepliesTypeOK, PeerStep
    PROVE  RepliesTypeOK'
<1>. USE DEF RepliesTypeOK
<1>1. ASSUME NEW gone \in SUBSET Name, Forget(gone) PROVE sweeps' \subseteq Sweep
    <2>1. [names |-> {Bare(n) : n \in gone}, owned |-> FALSE] \in Sweep
        BY Locals DEF Sweep
    <2>. QED BY <1>1, <2>1 DEF Forget
<1>2. ASSUME NEW n \in Remote, Announce(n) PROVE RepliesTypeOK'
    BY <1>2, Locals DEF Announce
<1>3. ASSUME NEW n \in Remote, IncomingRemove(n) PROVE RepliesTypeOK'
    BY <1>1, <1>3, Locals DEF IncomingRemove
<1>4. ASSUME NEW p \in Peers, NEW rows \in SUBSET [at : {p}, id : Ids], SessionList(p, rows)
      PROVE  RepliesTypeOK'
    <2>1. rows \subseteq Name
        BY DEF Name
    <2>2. Rows(p) \ rows \in SUBSET Name
        BY DEF Rows
    <2>3. sweeps' \subseteq Sweep
        BY <1>1, <1>4, <2>2 DEF SessionList
    <2>4. /\ live' = (live \ Rows(p)) \cup rows
          /\ UNCHANGED <<pending, note, seq, calls, owed, settled, abandoned>>
        BY <1>4 DEF SessionList
    <2>. QED BY <2>1, <2>3, <2>4
<1>5. ASSUME NEW old \in Remote, NEW new \in Remote, IncomingRenamed(old, new)
      PROVE  RepliesTypeOK'
    BY <1>5, Locals DEF IncomingRenamed
<1>6. ASSUME NEW c \in Calls, NEW from \in Remote, NEW to \in Local, NEW asks \in BOOLEAN,
             NEW m \in Msgs, IncomingSend(c, from, to, asks, m)
      PROVE  RepliesTypeOK'
    <2>1. pending' \in [Local -> SUBSET Entry]
        BY <1>6, PushTypes, Locals DEF IncomingSend
    <2>2. [at |-> "sent", from |-> from, to |-> to, msg |-> m, done |-> FALSE,
           asked |-> Asks(to, m, from, asks), answers |-> {},
           before |-> {}, after |-> {}, reserved |-> FALSE] \in Call
        <3>1. Asks(to, m, from, asks) \in SUBSET Obligation
            BY AsksTypes, Locals
        <3>2. m \in Nat
            BY BoundAssumption DEF Msgs
        <3>. QED BY <3>1, <3>2, Locals DEF Call, Stages, Maybe
    <2>3. calls' \in [Calls -> Call \cup {Idle}]
        BY <1>6, <2>2 DEF IncomingSend
    <2>4. seq' \in 0..MaxMsg
        BY <1>6, NextMsg DEF IncomingSend
    <2>. QED BY <1>6, <2>1, <2>3, <2>4 DEF IncomingSend
<1>. QED BY <1>2, <1>3, <1>4, <1>5, <1>6 DEF PeerStep

(* A send, as the proofs use it: the branch it takes, and what it records  *)
LEMMA SendParts ==
    ASSUME RepliesTypeOK, NEW c \in Calls, NEW from \in Local, NEW to \in Name,
           NEW asks \in BOOLEAN, NEW re \in 0..seq, NEW done \in BOOLEAN,
           Send(c, from, to, asks, re, done)
    PROVE  /\ c \notin Busy /\ from # to /\ seq + 1 \in Msgs /\ seq' = seq + 1
           /\ Allowed("hasty") \/ ~ Sweeping(from)
           /\ UNCHANGED <<live, sweeps, owed, settled, abandoned>> /\ note' = note
           /\ \E refused \in BOOLEAN, before, after \in Maybe :
                 /\ before \in Found(pending[from], re)
                 /\ before = {} => after = {}
                 /\ before # {} => after \in Found(Thread(pending[from], to, re, done), re)
                 /\ \/ Allowed("misaddressed")
                    \/ before = {}
                    \/ \E e \in pending[from] : e.msg = re /\ e.from = to
                 /\ to \notin live => refused
                 /\ Record(c, from, to, asks, re, done, refused, before, after)
<1>1. /\ c \notin Busy /\ from # to /\ seq + 1 \in Msgs /\ seq' = seq + 1
      /\ Allowed("hasty") \/ ~ Sweeping(from)
      /\ UNCHANGED <<live, sweeps, owed, settled, abandoned>>
    BY NextMsg DEF Send, RepliesTypeOK
<1>2. note' = note
    BY DEF Send, HeldNote, RepliesTypeOK
<1>3. pending[from] \in SUBSET Entry
    BY DEF RepliesTypeOK
<1>4. Thread(pending[from], to, re, done) \in SUBSET Entry
    BY <1>3, ThreadTypes
<1>5. PICK before \in Found(pending[from], re), refused \in BOOLEAN :
        /\ \/ Allowed("misaddressed")
           \/ before = {}
           \/ \E e \in pending[from] : e.msg = re /\ e.from = to
        /\ to \notin live => refused
        /\ \E after \in IF before = {} THEN {{}}
                        ELSE Found(Thread(pending[from], to, re, done), re) :
              Record(c, from, to, asks, re, done, refused, before, after)
    BY DEF Send
<1>6. PICK after \in IF before = {} THEN {{}}
                    ELSE Found(Thread(pending[from], to, re, done), re) :
              Record(c, from, to, asks, re, done, refused, before, after)
    BY <1>5
<1>7. before \in Maybe
    BY <1>3, FoundTypes
<1>8. before = {} => after = {}
    BY <1>6
<1>9. before # {} => after \in Found(Thread(pending[from], to, re, done), re)
    BY <1>6
<1>10. after \in Maybe
    BY <1>4, <1>8, <1>9, FoundTypes DEF Maybe
<1>11. \E refused2 \in BOOLEAN, before2, after2 \in Maybe :
          /\ before2 \in Found(pending[from], re)
          /\ before2 = {} => after2 = {}
          /\ before2 # {} => after2 \in Found(Thread(pending[from], to, re, done), re)
          /\ \/ Allowed("misaddressed")
             \/ before2 = {}
             \/ \E e \in pending[from] : e.msg = re /\ e.from = to
          /\ to \notin live => refused2
          /\ Record(c, from, to, asks, re, done, refused2, before2, after2)
    BY <1>5, <1>6, <1>7, <1>8, <1>9, <1>10
<1>. QED BY <1>1, <1>2, <1>11

LEMMA SendTypes ==
    ASSUME RepliesTypeOK, NEW c \in Calls, Begin(c)
    PROVE  RepliesTypeOK'
<1>. PICK from \in Local, to \in Name, asks \in BOOLEAN, done \in BOOLEAN, re \in 0..seq :
        Send(c, from, to, asks, re, done)
    BY DEF Begin
<1>. DEFINE thread == Thread(pending[from], to, re, done)
<1>1. /\ c \notin Busy /\ from # to /\ seq + 1 \in Msgs /\ seq' = seq + 1
      /\ UNCHANGED <<live, sweeps, owed, settled, abandoned>> /\ note' = note
    BY SendParts
<1>2. PICK refused \in BOOLEAN, before \in Maybe, after \in Maybe :
         Record(c, from, to, asks, re, done, refused, before, after)
    BY SendParts
<1>3. thread \in SUBSET Entry
    BY ThreadTypes DEF RepliesTypeOK
<1>. HIDE DEF thread
<1>4. Reserve(thread, before, after, done) \in SUBSET Entry
    BY <1>3 DEF Reserve, Maybe
<1>5. \A k \in Local : Push(pending[k], seq + 1, from, asks) \in SUBSET Entry
    BY <1>1, PushTypes, Locals DEF RepliesTypeOK
<1>6. pending' \in [Local -> SUBSET Entry]
    BY <1>2, <1>4, <1>5 DEF Record, RepliesTypeOK, thread
<1>. DEFINE asked == IF refused THEN {} ELSE Asks(to, seq + 1, from, asks)
            reserved == done /\ (from \in live \/ (before # {} /\ after = {}))
            at == IF refused THEN "unwind" ELSE "sent"
<1>7. asked \in SUBSET Obligation
    BY <1>1, AsksTypes, Locals
<1>8. Answers(from, to, re, done) \in SUBSET Obligation
    BY KnownTypes DEF Answers
<1>9. seq + 1 \in Nat /\ at \in Stages /\ reserved \in BOOLEAN
    BY <1>1, BoundAssumption DEF Msgs, Stages
<1>10. calls' = [calls EXCEPT ![c] =
                [at |-> at, from |-> from, to |-> to, msg |-> seq + 1, done |-> done,
                 asked |-> asked, answers |-> Answers(from, to, re, done),
                 before |-> before, after |-> after, reserved |-> reserved]]
    BY <1>2 DEF Record
<1>. HIDE DEF asked, reserved, at
<1>11. [at |-> at, from |-> from, to |-> to, msg |-> seq + 1, done |-> done,
        asked |-> asked, answers |-> Answers(from, to, re, done),
        before |-> before, after |-> after, reserved |-> reserved] \in Call
    BY <1>7, <1>8, <1>9, Locals DEF Call
<1>12. calls' \in [Calls -> Call \cup {Idle}]
    BY <1>10, <1>11 DEF RepliesTypeOK
<1>13. seq' \in 0..MaxMsg
    BY <1>1 DEF Msgs
<1>. QED BY <1>1, <1>6, <1>12, <1>13 DEF RepliesTypeOK

LEMMA ResolveTypes ==
    ASSUME RepliesTypeOK, NEW c \in Calls, Resolve(c)
    PROVE  RepliesTypeOK'
<1>. USE DEF RepliesTypeOK
<1>1. ASSUME calls[c].at \in Stages \ {"idle"} PROVE calls[c] \in Call
    BY <1>1, KnownTypes DEF Busy
<1>2. ASSUME NEW at \in Stages, calls[c] \in Call, calls' = [calls EXCEPT ![c].at = at]
      PROVE  calls' \in [Calls -> Call \cup {Idle}]
    <2>1. [calls[c] EXCEPT !.at = at] \in Call
        BY <1>2 DEF Call
    <2>. QED BY <1>2, <2>1
<1>3. CASE Deliver(c)
    <2>1. calls[c] \in Call
        BY <1>1, <1>3 DEF Deliver, Stages
    <2>2. calls' \in [Calls -> Call \cup {Idle}]
        BY <1>2, <1>3, <2>1 DEF Deliver, Stages
    <2>3. owed' \subseteq Obligation
        BY <1>3, <2>1 DEF Deliver, Call
    <2>. QED BY <1>3, <2>2, <2>3 DEF Deliver
<1>4. CASE ClearFailed(c)
    <2>1. calls[c] \in Call
        BY <1>1, <1>4 DEF ClearFailed, Stages
    <2>2. calls' \in [Calls -> Call \cup {Idle}]
        BY <1>2, <1>4, <2>1 DEF ClearFailed, Stages
    <2>3. pending' \in [Local -> SUBSET Entry]
        BY <1>4 DEF ClearFailed, Retract
    <2>. QED BY <1>4, <2>2, <2>3 DEF ClearFailed
<1>5. CASE Unwind(c)
    <2>1. calls[c] \in Call
        BY <1>1, <1>5 DEF Unwind, Stages
    <2>2. \A k \in Local : Restore(pending[k], calls[c].before, calls[c].after) \in SUBSET Entry
        BY <2>1 DEF Restore, Call, Maybe
    <2>. QED BY <1>5, <2>2 DEF Unwind
<1>6. CASE Finalize(c)
    <2>1. calls[c] \in Call
        BY <1>1, <1>6 DEF Finalize, Stages
    <2>2. /\ calls' = [calls EXCEPT ![c] = Idle]
          /\ pending' = [k \in Local |-> IF k = calls[c].from /\ calls[c].done
                                         THEN Discharge(pending[k], calls[c].before)
                                         ELSE pending[k]]
          /\ note' = [k \in Local |-> note[k] /\ ~ (k = calls[c].from /\ calls[c].done)]
          /\ settled' = settled \cup calls[c].answers
          /\ owed' = owed \ calls[c].answers
          /\ abandoned' = abandoned \ calls[c].answers
          /\ UNCHANGED <<live, seq, sweeps>>
        BY <1>6 DEF Finalize
    <2>3. calls' \in [Calls -> Call \cup {Idle}]
        BY <2>2
    <2>4. pending' \in [Local -> SUBSET Entry]
        BY <2>2 DEF Discharge
    <2>5. note' \in [Local -> BOOLEAN]
        BY <2>2
    <2>6. owed' \subseteq Obligation /\ settled' \cup abandoned' \subseteq Obligation
        BY <2>1, <2>2 DEF Call
    <2>. QED BY <2>2, <2>3, <2>4, <2>5, <2>6
<1>. QED BY <1>3, <1>4, <1>5, <1>6 DEF Resolve

LEMMA TypeStep ==
    ASSUME RepliesTypeOK, [RepliesNext]_rvars
    PROVE  RepliesTypeOK'
<1>1. CASE UNCHANGED rvars
    BY <1>1 DEF rvars, RepliesTypeOK
<1>. QED BY <1>1, SessionTypes, PeerTypes, SendTypes, ResolveTypes DEF RepliesNext

(* The buckets, the calls and the histories hold what they should, and the *)
(* daemon never records a debt of a session of a peer, whatever the users  *)
(* do (apply_send, apply_incoming_send).                                   *)
THEOREM RepliesTyped == RepliesSpec => []RepliesTypeOK
BY TypeInit, TypeStep, PTL DEF RepliesSpec

-------------------------------------------------------------------------------
(* Reminders *)

(* What the argument rests on: which names have a reminder and which slots *)
(* exist                                                                   *)
NoteInv == /\ note \in [Local -> BOOLEAN]
           /\ DOMAIN calls = Calls

(* The only ways in which a step takes a reminder from a session that had  *)
(* it and stays                                                            *)
Excused(k) == \/ RestartReminder(k)
              \/ \E c \in Busy : /\ calls[c].at = "accepted" /\ calls'[c] = Idle
                                 /\ calls[c].from = k /\ calls[c].done

Taken(k)   == k \in live /\ k \in live' /\ note[k] /\ ~ note'[k]

LEMMA NoteInvInit == RepliesInit => NoteInv
BY DEF RepliesInit, NoteInv

(* Steps that leave the reminders alone *)
LEMMA NoteUnchanged ==
    ASSUME NoteInv, note' = note, DOMAIN calls' = DOMAIN calls
    PROVE  NoteInv' /\ \A k \in Local : Taken(k) => Excused(k)
BY DEF NoteInv, Taken

LEMMA SessionStepKeeps ==
    ASSUME NoteInv, SessionStep
    PROVE  NoteInv' /\ \A k \in Local : Taken(k) => Excused(k)
<1>1. ASSUME NEW n \in Local, NEW replaced, Register(n, replaced)
      PROVE  NoteInv' /\ \A k \in Local : Taken(k) => Excused(k)
    <2>1. PICK b \in BOOLEAN :
             /\ n \in live /\ note[n] => b
             /\ note' = [k \in Local |-> IF k = n THEN b ELSE note[k] /\ k \notin replaced]
        BY <1>1 DEF Register
    <2>2. n \notin replaced /\ live' = (live \ replaced) \cup {n} /\ calls' = calls
        BY <1>1 DEF Register
    <2>. QED BY <2>1, <2>2 DEF NoteInv, Taken
<1>2. ASSUME NEW n \in Local, RestartReminder(n)
      PROVE  NoteInv' /\ \A k \in Local : Taken(k) => Excused(k)
    <2>1. NoteInv'
        BY <1>2 DEF RestartReminder, NoteInv
    <2>2. ASSUME NEW k \in Local, Taken(k)
          PROVE  k = n
        BY <1>2, <2>2 DEF RestartReminder, NoteInv, Taken
    <2>. QED BY <1>2, <2>1, <2>2 DEF Excused
<1>3. ASSUME NEW n \in Local, RemoveSession(n)
      PROVE  NoteInv' /\ \A k \in Local : Taken(k) => Excused(k)
    BY <1>3 DEF RemoveSession, NoteInv, Taken
<1>4. ASSUME NEW old \in Local, NEW new \in Local, Rename(old, new)
      PROVE  NoteInv' /\ \A k \in Local : Taken(k) => Excused(k)
    <2>1. /\ note' = [note EXCEPT ![old] = FALSE, ![new] = note[old]]
          /\ old \notin live'
          /\ new \notin live
        BY <1>4 DEF Rename
    <2>2. DOMAIN calls' = Calls
        BY <1>4 DEF Rename
    <2>3. NoteInv'
        BY <2>1, <2>2 DEF NoteInv
    <2>4. ASSUME NEW k \in Local, Taken(k)
          PROVE  FALSE
        <3>1. k # old /\ k # new
            BY <2>1, <2>4 DEF Taken
        <3>. QED BY <2>1, <2>4, <3>1 DEF Taken, NoteInv
    <2>. QED BY <2>3, <2>4
<1>5. ASSUME NEW s \in sweeps, ExecuteSweep(s)
      PROVE  NoteInv' /\ \A k \in Local : Taken(k) => Excused(k)
    BY <1>5, NoteUnchanged DEF ExecuteSweep
<1>6. ASSUME NEW k \in Local, NEW f \in Name, DeletePendingReply(k, f)
      PROVE  NoteInv' /\ \A j \in Local : Taken(j) => Excused(j)
    BY <1>6, NoteUnchanged DEF DeletePendingReply
<1>. QED BY <1>1, <1>2, <1>3, <1>4, <1>5, <1>6 DEF SessionStep

LEMMA PeerStepKeeps ==
    ASSUME NoteInv, PeerStep
    PROVE  NoteInv' /\ \A k \in Local : Taken(k) => Excused(k)
<1>1. ASSUME NEW n \in Remote, Announce(n) \/ IncomingRemove(n)
      PROVE  UNCHANGED <<note, calls>>
    BY <1>1 DEF Announce, IncomingRemove
<1>2. ASSUME NEW p \in Peers, NEW rows, SessionList(p, rows)
      PROVE  UNCHANGED <<note, calls>>
    BY <1>2 DEF SessionList
<1>3. ASSUME NEW old \in Remote, NEW new \in Remote, IncomingRenamed(old, new)
      PROVE  UNCHANGED <<note, calls>>
    BY <1>3 DEF IncomingRenamed
<1>4. ASSUME NEW c \in Calls, NEW from, NEW to, NEW asks, NEW m,
             IncomingSend(c, from, to, asks, m)
      PROVE  note' = note /\ DOMAIN calls' = DOMAIN calls
    BY <1>4 DEF IncomingSend
<1>5. note' = note /\ DOMAIN calls' = DOMAIN calls
    BY <1>1, <1>2, <1>3, <1>4 DEF PeerStep
<1>. QED BY <1>5, NoteUnchanged

LEMMA SendKeeps ==
    ASSUME NoteInv, NEW c \in Calls, Begin(c)
    PROVE  NoteInv' /\ \A k \in Local : Taken(k) => Excused(k)
<1>. PICK from \in Local, to \in Name, asks \in BOOLEAN, done \in BOOLEAN, re \in 0..seq :
        Send(c, from, to, asks, re, done)
    BY DEF Begin
<1>1. note' = [note EXCEPT ![from] = note[from]]
    BY DEF Send, HeldNote
<1>2. \E re2, done2, refused, before, after :
        Record(c, from, to, asks, re2, done2, refused, before, after)
    BY DEF Send
<1>3. DOMAIN calls' = DOMAIN calls
    BY <1>2 DEF Record
<1>4. note' = note
    BY <1>1 DEF NoteInv
<1>. QED BY <1>3, <1>4, NoteUnchanged

LEMMA ResolveKeeps ==
    ASSUME NoteInv, NEW c \in Calls, Resolve(c)
    PROVE  NoteInv' /\ \A k \in Local : Taken(k) => Excused(k)
<1>1. CASE Deliver(c)
    BY <1>1, NoteUnchanged DEF Deliver
<1>2. CASE ClearFailed(c)
    BY <1>2, NoteUnchanged DEF ClearFailed
<1>3. CASE Unwind(c)
    BY <1>3, NoteUnchanged DEF Unwind
<1>4. CASE Finalize(c)
    <2>1. /\ calls[c].at = "accepted"
          /\ calls' = [calls EXCEPT ![c] = Idle]
          /\ note' = [k \in Local |-> note[k] /\ ~ (k = calls[c].from /\ calls[c].done)]
        BY <1>4 DEF Finalize
    <2>2. NoteInv'
        BY <2>1 DEF NoteInv
    <2>3. c \in Busy /\ calls'[c] = Idle
        BY <2>1 DEF Busy, NoteInv
    <2>4. ASSUME NEW k \in Local, Taken(k)
          PROVE  k = calls[c].from /\ calls[c].done
        BY <2>1, <2>4 DEF Taken
    <2>. QED BY <2>1, <2>2, <2>3, <2>4 DEF Excused
<1>. QED BY <1>1, <1>2, <1>3, <1>4 DEF Resolve

LEMMA StepKeeps ==
    ASSUME NoteInv, [RepliesNext]_rvars
    PROVE  NoteInv' /\ \A k \in Local : Taken(k) => Excused(k)
<1>1. CASE UNCHANGED rvars
    BY <1>1, NoteUnchanged DEF rvars
<1>. QED BY <1>1, SessionStepKeeps, PeerStepKeeps, SendKeeps, ResolveKeeps DEF RepliesNext

(* The reminder of a session goes only with the session, by its owner, or  *)
(* when the session's final reply has been delivered: an attempt at a      *)
(* final reply that fails leaves it, for every number of concurrent sends  *)
(* (reserve_sender_state_after_send).                                      *)
THEOREM RemindersKept == RepliesSpec => ReminderKept
<1>1. ASSUME NoteInv, [RepliesNext]_rvars
      PROVE  [\A k \in live \cap live' \cap Local :
                 note[k] /\ ~ note'[k] =>
                     \/ RestartReminder(k)
                     \/ \E c \in Busy : /\ calls[c].at = "accepted" /\ calls'[c] = Idle
                                        /\ calls[c].from = k /\ calls[c].done]_rvars
    BY <1>1, StepKeeps DEF Taken, Excused
<1>2. NoteInv /\ [RepliesNext]_rvars => NoteInv'
    BY StepKeeps
<1>. QED BY <1>1, <1>2, NoteInvInit, PTL DEF RepliesSpec, ReminderKept

-------------------------------------------------------------------------------
(***************************************************************************)
(* The invariant.  Everything below is about the daemon whose users do not *)
(* work against its grain (Disorder = {}), the one the runs check.         *)
(***************************************************************************)

(* Numbers are given once: obligations with a number are the same *)
Mentioned == Open \cup owed \cup settled
             \cup UNION {calls[c].asked \cup calls[c].answers : c \in Busy}
Numbered  == /\ \A o \in Mentioned : o.msg <= seq
             /\ \A o1, o2 \in Mentioned : o1.msg = o2.msg => o1 = o2
Slots     == \A c \in Busy : /\ calls[c].msg <= seq
                             /\ \A d \in Busy : calls[c].msg = calls[d].msg => c = d

(* Who owes has a row; the debts of a session replaced in its pane stay in *)
(* a bucket without one                                                    *)
Housed    == \A o \in owed : o.by \in live

(* A clean-up is of names that are gone, and of no debt that is still owed *)
Unswept   == /\ \A s \in sweeps : s.names \cap live = {}
             /\ \A o \in owed : ~ Swept(o)

(* What a send asks is its own; until it is delivered, it is in the bucket *)
(* of the debtor, unless it has been settled or abandoned already          *)
Question(r) ==
    /\ \A o \in r.asked : o.by = r.to /\ o.msg = r.msg /\ o.from = r.from
    /\ r.at \in {"sent", "failed"} =>
          /\ \A o \in owed : o.msg # r.msg
          /\ \A o \in r.asked \ (settled \cup abandoned) :
                 o \in Open /\ ~ Swept(o) /\ o.by \in live

(* What a send answers is the entry it captured, if it is in a bucket at   *)
(* all; what it may put back is what it had marked                         *)
Answer(r) ==
    /\ ~ r.done => r.answers = {}
    /\ r.before = {} => r.answers \cap Open = {}
    /\ \A b \in r.before : /\ b.from = r.to
                           /\ \A o \in r.answers : o.msg = b.msg
                           /\ r.done => Owes(r.from, b) \in r.answers
                           /\ r.reserved \/ \E a \in r.after : a.msg = b.msg /\ a.from = b.from

Sends == \A c \in Busy : Question(calls[c]) /\ Answer(calls[c])

RInv == /\ Kept /\ NoPhantom /\ StaysSettled
        /\ Numbered /\ Slots /\ Housed /\ Unswept /\ Sends

Debts(p) == {o \in Obligation : \E e \in p[o.by] : e.msg = o.msg /\ e.from = o.from}

LEMMA DebtsAre ==
    ASSUME NEW p \in [Local -> SUBSET Entry]
    PROVE  UNION {{Owes(k, e) : e \in p[k]} : k \in Local} = Debts(p)
<1>. DEFINE D == UNION {{Owes(k, e) : e \in p[k]} : k \in Local}
<1>1. ASSUME NEW o \in D PROVE o \in Debts(p)
    <2>0. PICK k \in Local : \E e \in p[k] : o = Owes(k, e)
        OBVIOUS
    <2>1. PICK e \in p[k] : o = Owes(k, e)
        BY <2>0
    <2>2. e \in Entry
        OBVIOUS
    <2>. QED BY <2>1, <2>2, OwesTypes DEF Debts
<1>2. ASSUME NEW o \in Debts(p) PROVE o \in D
    <2>1. PICK e \in p[o.by] : e.msg = o.msg /\ e.from = o.from
        BY DEF Debts
    <2>2. o \in Obligation /\ o.by \in Local
        BY DEF Debts, Obligation
    <2>3. o = Owes(o.by, e)
        BY <2>1, <2>2 DEF Owes, Obligation
    <2>4. Owes(o.by, e) \in {Owes(o.by, x) : x \in p[o.by]}
        BY <2>1
    <2>. QED BY <2>2, <2>3, <2>4
<1>. QED BY <1>1, <1>2

LEMMA OpenIs == RepliesTypeOK => Open = Debts(pending)
BY DebtsAre DEF Open, RepliesTypeOK

LEMMA OpenIsNext == RepliesTypeOK' => Open' = Debts(pending')
BY DebtsAre DEF Open, RepliesTypeOK

(* Debts with the same entries *)
LEMMA DebtOf ==
    ASSUME NEW p, NEW o
    PROVE  o \in Debts(p) <=> /\ o \in Obligation
                              /\ \E e \in p[o.by] : e.msg = o.msg /\ e.from = o.from
BY DEF Debts

LEMMA InvInit == RepliesInit => RInv
<1>. SUFFICES ASSUME RepliesInit PROVE RInv
    OBVIOUS
<1>1. Open = {} /\ Busy = {} /\ owed = {} /\ settled = {} /\ sweeps = {}
    BY DEF RepliesInit, Open, Busy, Idle
<1>2. Mentioned = {}
    BY <1>1 DEF Mentioned
<1>3. NoPhantom
    BY <1>1 DEF NoPhantom, RepliesInit
<1>. QED BY <1>1, <1>2, <1>3 DEF RInv, Kept, StaysSettled, Numbered, Slots, Housed, Unswept, Sends

(* Steps that touch no debt: rows come, or rows of peers go and have their *)
(* names cleaned up                                                        *)
LEMMA RowsOnly ==
    ASSUME RInv, UNCHANGED <<pending, seq, calls, owed, settled, abandoned>>,
           sweeps \subseteq sweeps', live \cap Local \subseteq live',
           \A s \in sweeps' : s.names \cap live' = {},
           \A s \in sweeps' \ sweeps : \A n \in s.names :
               \A o \in Open \cup owed : n \notin {o.by, o.from},
           Open \subseteq Obligation
    PROVE  RInv'
<1>1. Open' = Open /\ Busy' = Busy /\ Underway' = Underway /\ Mentioned' = Mentioned
    BY DEF Open, Busy, Underway, Mentioned
<1>2. \A o : Swept(o) => Swept(o)'
    BY DEF Swept
<1>3. \A o \in Open \cup owed : Swept(o)' => Swept(o)
    BY DEF Swept
<1>4. Kept' /\ NoPhantom'
    BY <1>1 DEF RInv, Kept, NoPhantom
<1>5. StaysSettled'
    BY <1>1, <1>2 DEF RInv, StaysSettled
<1>6. Numbered' /\ Slots'
    BY <1>1 DEF RInv, Numbered, Slots
<1>0. \A o \in Open : o.by \in Local
    BY DEF Obligation
<1>7. Housed'
    BY <1>0 DEF RInv, Kept, Housed
<1>8. Unswept'
    BY <1>3 DEF RInv, Unswept
<1>9. Sends'
    <2>1. ASSUME NEW c \in Busy PROVE Question(calls[c])' /\ Answer(calls[c])'
        <3>1. Question(calls[c]) /\ Answer(calls[c])
            BY DEF RInv, Sends
        <3>2. Question(calls[c])'
            BY <1>0, <1>1, <1>3, <3>1 DEF Question
        <3>3. Answer(calls[c])'
            BY <1>1, <3>1 DEF Answer
        <3>. QED BY <3>2, <3>3
    <2>. QED BY <1>1, <2>1 DEF Sends
<1>. QED BY <1>4, <1>5, <1>6, <1>7, <1>8, <1>9 DEF RInv

LEMMA RegisterSafe ==
    ASSUME RepliesTypeOK, RInv, Disorder = {}, NEW n \in Local, NEW replaced,
           Register(n, replaced)
    PROVE  RInv'
<1>. DEFINE gone == UNION {Concerning(m) : m \in replaced}
<1>1. /\ replaced \subseteq live /\ live' = (live \ replaced) \cup {n}
      /\ owed' = owed \ gone /\ abandoned' = abandoned \cup (gone \ settled)
      /\ UNCHANGED <<pending, seq, calls, sweeps, settled>>
    BY DEF Register
<1>2. ~ Sweeping(n)
    BY DEF Register, Allowed
<1>3. \A o \in Open \cup owed \cup Underway : o \in gone <=> {o.by, o.from} \cap replaced # {}
    BY DEF Concerning, Known
<1>. HIDE DEF gone
<1>4. Open' = Open /\ Busy' = Busy /\ Underway' = Underway
    BY <1>1 DEF Open, Busy, Underway
<1>5. \A o : Swept(o)' <=> Swept(o)
    BY <1>1 DEF Swept
<1>6. Kept' /\ NoPhantom'
    BY <1>1, <1>4 DEF RInv, Kept, NoPhantom
<1>7. StaysSettled'
    BY <1>1, <1>4, <1>5 DEF RInv, StaysSettled
<1>8. Mentioned' \subseteq Mentioned
    BY <1>1, <1>4 DEF Mentioned
<1>9. Numbered' /\ Slots'
    BY <1>1, <1>4, <1>8 DEF RInv, Numbered, Slots
<1>10. Housed'
    BY <1>1, <1>3 DEF RInv, Housed
<1>11. Unswept'
    BY <1>1, <1>2, <1>5 DEF RInv, Unswept, Sweeping
<1>12. Sends'
    <2>1. ASSUME NEW c \in Busy PROVE Question(calls[c])' /\ Answer(calls[c])'
        <3>1. Question(calls[c]) /\ Answer(calls[c])
            BY DEF RInv, Sends
        <3>2. calls[c].at \in {"sent", "failed"} => calls[c].asked \subseteq Underway
            BY DEF Underway
        <3>3. Question(calls[c])'
            BY <1>1, <1>3, <1>4, <1>5, <3>1, <3>2 DEF Question
        <3>4. Answer(calls[c])'
            BY <1>1, <1>4, <3>1 DEF Answer
        <3>. QED BY <3>3, <3>4
    <2>. QED BY <1>1, <1>4, <2>1 DEF Sends
<1>. QED BY <1>6, <1>7, <1>9, <1>10, <1>11, <1>12 DEF RInv

LEMMA RestartReminderSafe ==
    ASSUME RepliesTypeOK, RInv, NEW n \in Local, RestartReminder(n)
    PROVE  RInv'
BY RowsOnly, KnownTypes DEF RestartReminder, RInv, Unswept

LEMMA ForgetSafe ==
    ASSUME RepliesTypeOK, RInv, Disorder = {}, NEW gone \in SUBSET (live \cap Remote),
           Forget(gone), live' \subseteq live \cup Remote, live \cap Local \subseteq live',
           UNCHANGED <<pending, seq, calls, owed, settled, abandoned>>
    PROVE  RInv'
<1>1. CASE gone = {}
    <2>1. sweeps' = sweeps
        BY <1>1 DEF Forget
    <2>2. \A s \in sweeps : s.names \cap live' = {}
        BY Locals DEF RInv, Unswept, RepliesTypeOK, Sweep
    <2>. QED BY <2>1, <2>2, RowsOnly, KnownTypes
<1>2. CASE gone # {}
    <2>. DEFINE t == [names |-> {Bare(n) : n \in gone}, owned |-> FALSE]
    <2>1. sweeps' = sweeps \cup {t}
        BY <1>2 DEF Forget
    <2>2. \A n \in gone : ~ Shadow(n)
        BY DEF Forget, Allowed
    <2>3. t.names \subseteq Local
        BY Locals
    <2>4. \A n \in t.names : n \notin live /\ \A o \in Open \cup owed : n \notin {o.by, o.from}
        BY <2>2 DEF Shadow
    <2>. HIDE DEF t
    <2>5. \A s \in sweeps' : s.names \cap live' = {}
        BY <2>1, <2>3, <2>4, Locals DEF RInv, Unswept, RepliesTypeOK, Sweep
    <2>. QED BY <2>1, <2>4, <2>5, RowsOnly, KnownTypes
<1>. QED BY <1>1, <1>2

LEMMA RowsOfPeers ==
    ASSUME RepliesTypeOK, RInv, live' \subseteq live \cup Remote, live \cap Local \subseteq live',
           UNCHANGED <<pending, seq, calls, owed, settled, abandoned, sweeps>>
    PROVE  RInv'
<1>1. \A s \in sweeps : s.names \cap live' = {}
    BY Locals DEF RInv, Unswept, RepliesTypeOK, Sweep
<1>. QED BY <1>1, RowsOnly, KnownTypes

LEMMA RemoveSessionSafe ==
    ASSUME RepliesTypeOK, RInv, NEW n \in Local, RemoveSession(n)
    PROVE  RInv'
<1>. DEFINE t == [names |-> {n}, owned |-> TRUE]
<1>1. /\ live' = live \ {n} /\ sweeps' = sweeps \cup {t}
      /\ settled' = settled \cup Concerning(n) /\ owed' = owed \ Concerning(n)
      /\ abandoned' = abandoned \ Concerning(n)
      /\ UNCHANGED <<pending, seq, calls>>
    BY DEF RemoveSession
<1>2. t.names = {n}
    OBVIOUS
<1>. HIDE DEF t
<1>3. Open' = Open /\ Busy' = Busy /\ Underway' = Underway
    BY <1>1 DEF Open, Busy, Underway
<1>4. \A o : Swept(o)' <=> Swept(o) \/ n \in {o.by, o.from}
    BY <1>1, <1>2 DEF Swept
<1>5. \A o \in Open \cup owed \cup Underway : o \in Concerning(n) <=> n \in {o.by, o.from}
    BY DEF Concerning, Known
<1>6. Concerning(n) \subseteq Open \cup owed \cup Underway
    BY DEF Concerning, Known
<1>7. Kept' /\ NoPhantom'
    BY <1>1, <1>3 DEF RInv, Kept, NoPhantom
<1>8. StaysSettled'
    BY <1>1, <1>3, <1>4 DEF RInv, StaysSettled, Concerning
<1>9. Underway \subseteq UNION {calls[c].asked \cup calls[c].answers : c \in Busy}
    BY DEF Underway
<1>10. Mentioned' \subseteq Mentioned
    BY <1>1, <1>3, <1>6, <1>9 DEF Mentioned
<1>11. Numbered' /\ Slots'
    BY <1>1, <1>3, <1>10 DEF RInv, Numbered, Slots
<1>12. Housed'
    BY <1>1, <1>5 DEF RInv, Housed
<1>13. Unswept'
    BY <1>1, <1>2, <1>4, <1>5 DEF RInv, Unswept
<1>14. Sends'
    <2>1. ASSUME NEW c \in Busy PROVE Question(calls[c])' /\ Answer(calls[c])'
        <3>1. Question(calls[c]) /\ Answer(calls[c])
            BY DEF RInv, Sends
        <3>2. calls[c].at \in {"sent", "failed"} => calls[c].asked \subseteq Underway
            BY DEF Underway
        <3>3. Question(calls[c])'
            BY <1>1, <1>3, <1>4, <1>5, <3>1, <3>2 DEF Question
        <3>4. Answer(calls[c])'
            BY <1>1, <1>3, <3>1 DEF Answer
        <3>. QED BY <3>3, <3>4
    <2>. QED BY <1>1, <1>3, <2>1 DEF Sends
<1>. QED BY <1>7, <1>8, <1>11, <1>12, <1>13, <1>14 DEF RInv

LEMMA ExecuteSweepSafe ==
    ASSUME RepliesTypeOK, RepliesTypeOK', RInv, NEW s \in sweeps, ExecuteSweep(s)
    PROVE  RInv'
<1>1. /\ sweeps' = sweeps \ {s} /\ UNCHANGED <<live, seq, calls, owed, settled, abandoned>>
      /\ pending' = Orphaned(s.names)
    BY DEF ExecuteSweep, RInv, Unswept
<1>2. \A o : o \in Open' <=> o \in Open /\ {o.by, o.from} \cap s.names = {}
    <2>1. ASSUME NEW o \in Obligation
          PROVE  o \in Open' <=> o \in Open /\ {o.by, o.from} \cap s.names = {}
        <3>1. o.by \in Local
            BY DEF Obligation
        <3>2. pending'[o.by] = IF o.by \in s.names THEN {}
                               ELSE {e \in pending[o.by] : e.from \notin s.names}
            BY <1>1, <3>1 DEF Orphaned
        <3>. QED BY <3>2, DebtOf, OpenIs, OpenIsNext
    <2>. QED BY <2>1, DebtOf, OpenIs, OpenIsNext
<1>3. Busy' = Busy /\ Underway' = Underway
    BY <1>1 DEF Busy, Underway
<1>4. \A o \in Open' : Swept(o) => Swept(o)'
    BY <1>1, <1>2 DEF Swept
<1>5. \A o : Swept(o)' => Swept(o)
    BY <1>1 DEF Swept
<1>6. \A o : ~ Swept(o) => {o.by, o.from} \cap s.names = {}
    BY DEF Swept
<1>7. Kept'
    BY <1>1, <1>2, <1>6 DEF RInv, Kept, Unswept
<1>8. NoPhantom'
    <2>1. Open' \subseteq Open
        BY <1>2
    <2>2. \A k \in Local : pending'[k] \subseteq pending[k]
        BY <1>1 DEF Orphaned
    <2>. QED BY <1>1, <1>3, <2>1, <2>2 DEF RInv, NoPhantom
<1>9. StaysSettled'
    BY <1>1, <1>2, <1>4 DEF RInv, StaysSettled
<1>10. Mentioned' \subseteq Mentioned
    BY <1>1, <1>2, <1>3 DEF Mentioned
<1>11. Numbered' /\ Slots'
    BY <1>1, <1>3, <1>10 DEF RInv, Numbered, Slots
<1>12. Housed'
    BY <1>1 DEF RInv, Housed
<1>13. Unswept'
    BY <1>1, <1>5 DEF RInv, Unswept
<1>14. Sends'
    <2>1. ASSUME NEW c \in Busy PROVE Question(calls[c])' /\ Answer(calls[c])'
        <3>1. Question(calls[c]) /\ Answer(calls[c])
            BY DEF RInv, Sends
        <3>2. Question(calls[c])'
            BY <1>1, <1>2, <1>5, <1>6, <3>1 DEF Question
        <3>3. Answer(calls[c])'
            BY <1>1, <1>2, <3>1 DEF Answer
        <3>. QED BY <3>2, <3>3
    <2>. QED BY <1>1, <1>3, <2>1 DEF Sends
<1>. QED BY <1>7, <1>8, <1>9, <1>11, <1>12, <1>13, <1>14 DEF RInv

LEMMA DeletePendingReplySafe ==
    ASSUME RepliesTypeOK, RepliesTypeOK', RInv, NEW k \in Local, NEW f \in Name,
           DeletePendingReply(k, f)
    PROVE  RInv'
<1>. DEFINE waived == {o \in Known : o.by = k /\ o.from = f}
<1>1. /\ pending' = [pending EXCEPT ![k] = {e \in @ : e.from # f}]
      /\ settled' = settled \cup waived /\ owed' = owed \ waived
      /\ abandoned' = abandoned \ waived
      /\ UNCHANGED <<live, seq, calls, sweeps>>
    BY DEF DeletePendingReply
<1>2. \A o : o \in Open' <=> o \in Open /\ ~ (o.by = k /\ o.from = f)
    <2>1. ASSUME NEW o \in Obligation
          PROVE  o \in Open' <=> o \in Open /\ ~ (o.by = k /\ o.from = f)
        <3>1. o.by \in Local
            BY DEF Obligation
        <3>2. pending'[o.by] = IF o.by = k THEN {e \in pending[k] : e.from # f} ELSE pending[o.by]
            BY <1>1, <3>1 DEF RepliesTypeOK
        <3>. QED BY <3>2, DebtOf, OpenIs, OpenIsNext
    <2>. QED BY <2>1, DebtOf, OpenIs, OpenIsNext
<1>3. Busy' = Busy /\ Underway' = Underway /\ (\A o : Swept(o)' <=> Swept(o))
    BY <1>1 DEF Busy, Underway, Swept
<1>4. \A o \in Open \cup owed \cup Underway : o \in waived <=> o.by = k /\ o.from = f
    BY DEF Known
<1>5. /\ waived \subseteq Open \cup owed \cup Underway
      /\ \A o \in waived : o.by = k /\ o.from = f
    BY DEF Known
<1>. HIDE DEF waived
<1>6. Kept'
    BY <1>1, <1>2, <1>4 DEF RInv, Kept
<1>7. NoPhantom'
    <2>1. Open' \subseteq Open
        BY <1>2
    <2>2. \A j \in Local : pending'[j] \subseteq pending[j]
        BY <1>1 DEF RepliesTypeOK
    <2>. QED BY <1>1, <1>3, <2>1, <2>2 DEF RInv, NoPhantom
<1>8. StaysSettled'
    BY <1>1, <1>2, <1>3, <1>5 DEF RInv, StaysSettled
<1>9. Underway \subseteq UNION {calls[c].asked \cup calls[c].answers : c \in Busy}
    BY DEF Underway
<1>10. Mentioned' \subseteq Mentioned
    BY <1>1, <1>2, <1>3, <1>5, <1>9 DEF Mentioned
<1>11. Numbered' /\ Slots'
    BY <1>1, <1>3, <1>10 DEF RInv, Numbered, Slots
<1>12. Housed'
    BY <1>1 DEF RInv, Housed
<1>13. Unswept'
    BY <1>1, <1>3 DEF RInv, Unswept
<1>14. Sends'
    <2>1. ASSUME NEW c \in Busy PROVE Question(calls[c])' /\ Answer(calls[c])'
        <3>1. Question(calls[c]) /\ Answer(calls[c])
            BY DEF RInv, Sends
        <3>2. calls[c].at \in {"sent", "failed"} => calls[c].asked \subseteq Underway
            BY DEF Underway
        <3>3. Question(calls[c])'
            BY <1>1, <1>2, <1>3, <1>4, <3>1, <3>2 DEF Question
        <3>4. Answer(calls[c])'
            BY <1>1, <1>2, <3>1 DEF Answer
        <3>. QED BY <3>3, <3>4
    <2>. QED BY <1>1, <1>3, <2>1 DEF Sends
<1>. QED BY <1>6, <1>7, <1>8, <1>11, <1>12, <1>13, <1>14 DEF RInv

(* A renaming maps obligations one by one, and leaves those alone that do  *)
(* not concern the old name                                                *)
Moved(o, old, new) == [o EXCEPT !.by = Renamed(@, old, new), !.from = Renamed(@, old, new)]

LEMMA MovedParts ==
    ASSUME NEW o \in Obligation, NEW old, NEW new
    PROVE  /\ Moved(o, old, new).by = Renamed(o.by, old, new)
           /\ Moved(o, old, new).from = Renamed(o.from, old, new)
           /\ Moved(o, old, new).msg = o.msg
           /\ o.by # old /\ o.from # old => Moved(o, old, new) = o
BY DEF Moved, Obligation, Renamed

LEMMA FollowIs ==
    ASSUME NEW O, NEW old, NEW new
    PROVE  Follow(O, old, new) = {Moved(o, old, new) : o \in O}
BY DEF Follow, Moved

LEMMA MoveDebts ==
    ASSUME RepliesTypeOK, RepliesTypeOK', RInv, Disorder = {},
           NEW old \in Local, NEW new \in Local, Rename(old, new)
    PROVE  /\ \A n \in Open' : \E o \in Open : n = Moved(o, old, new)
           /\ \A o \in Open : o.by # new => Moved(o, old, new) \in Open'
           /\ \A k \in Local : \E j \in Local : pending'[k] \subseteq pending[j]
<1>1. /\ old \in live /\ new \notin live
      /\ \A o \in Open : o.from \notin {old, new}
      /\ pending' = IF pending[old] = {} THEN pending
                    ELSE [pending EXCEPT ![old] = {}, ![new] = pending[old]]
    BY DEF Rename, Allowed
<1>2. old # new
    BY <1>1
<1>3. \A k \in Local : pending'[k] = IF k = old THEN {}
                                     ELSE IF k = new /\ pending[old] # {} THEN pending[old]
                                     ELSE pending[k]
    <2>1. CASE pending[old] = {}
        BY <1>1, <2>1
    <2>2. CASE pending[old] # {}
        <3>1. pending' = [pending EXCEPT ![old] = {}, ![new] = pending[old]]
            BY <1>1, <2>2
        <3>. QED BY <1>2, <2>2, <3>1 DEF RepliesTypeOK
    <2>. QED BY <2>1, <2>2
<1>4. ASSUME NEW o \in Open, o.by # new PROVE Moved(o, old, new) \in Open'
    <2>1. o \in Obligation /\ o.from # old /\ o.by \in Local
        BY <1>1, KnownTypes DEF Obligation
    <2>2. PICK e \in pending[o.by] : e.msg = o.msg /\ e.from = o.from
        BY OpenIs, DebtOf
    <2>. DEFINE n == Moved(o, old, new)
    <2>3. n.msg = o.msg /\ n.from = o.from /\ n.by = Renamed(o.by, old, new)
        BY <2>1, MovedParts DEF Renamed
    <2>4. n \in Obligation
        <3>1. n \in Follow({o}, old, new)
            BY FollowIs
        <3>2. {o} \in SUBSET Obligation
            BY <2>1
        <3>3. Follow({o}, old, new) \in SUBSET Obligation
            BY <3>2, FollowTypes
        <3>. QED BY <3>1, <3>3
    <2>. HIDE DEF n
    <2>5. pending'[n.by] = pending[o.by]
        BY <1>2, <1>3, <1>4, <2>1, <2>2, <2>3 DEF Renamed
    <2>6. n \in Debts(pending')
        BY <2>2, <2>3, <2>4, <2>5, DebtOf
    <2>. QED BY <2>6, OpenIsNext DEF n
<1>5. ASSUME NEW n \in Open' PROVE \E o \in Open : n = Moved(o, old, new)
    <2>1. n \in Obligation /\ n.by \in Local
        BY OpenIsNext, DebtOf DEF Obligation
    <2>2. PICK e \in pending'[n.by] : e.msg = n.msg /\ e.from = n.from
        BY OpenIsNext, DebtOf
    <2>. DEFINE j == IF n.by = new /\ pending[old] # {} THEN old ELSE n.by
    <2>3. n.by # old /\ j \in Local /\ pending'[n.by] = pending[j]
        BY <1>2, <1>3, <2>1, <2>2
    <2>. DEFINE o == [n EXCEPT !.by = j]
    <2>4. o \in Obligation /\ o.by = j /\ o.msg = n.msg /\ o.from = n.from
        BY <2>1, <2>3 DEF Obligation
    <2>5. j # old => j = n.by
        OBVIOUS
    <2>6. j = old => n.by = new
        BY <2>3
    <2>. HIDE DEF j
    <2>7. o \in Open
        <3>1. e \in pending[o.by] /\ e.msg = o.msg /\ e.from = o.from
            BY <2>2, <2>3, <2>4
        <3>2. o \in Debts(pending)
            BY <2>4, <3>1, DebtOf
        <3>. QED BY <3>2, OpenIs
    <2>8. Moved(o, old, new) = n
        <3>1. n.from # old
            BY <1>1, <2>4, <2>7
        <3>. QED BY <2>1, <2>3, <2>5, <2>6, <3>1 DEF Moved, Obligation, Renamed
    <2>. QED BY <2>7, <2>8
<1>6. \A k \in Local : \E j \in Local : pending'[k] \subseteq pending[j]
    BY <1>3
<1>. QED BY <1>4, <1>5, <1>6

LEMMA RenameSafe ==
    ASSUME RepliesTypeOK, RepliesTypeOK', RInv, Disorder = {},
           NEW old \in Local, NEW new \in Local, Rename(old, new)
    PROVE  RInv'
<1>. DEFINE M(o) == Moved(o, old, new)
            F(O) == Follow(O, old, new)
<1>1. /\ new \notin live /\ ~ Talking(old) /\ ~ Talking(new) /\ ~ Sweeping(old) /\ ~ Sweeping(new)
      /\ live' = (live \ {old}) \cup {new}
      /\ owed' = F(owed) /\ settled' = F(settled) /\ abandoned' = F(abandoned)
      /\ calls' = [c \in Calls |->
                      IF c \in Busy
                      THEN [calls[c] EXCEPT !.asked = Follow(@, old, new),
                                            !.answers = Follow(@, old, new)]
                      ELSE calls[c]]
      /\ UNCHANGED <<seq, sweeps>>
    BY DEF Rename, Allowed
<1>2. /\ \A n \in Open' : \E o \in Open : n = M(o)
      /\ \A o \in Open : o.by # new => M(o) \in Open'
    BY MoveDebts
<1>3. \A O : F(O) = {M(o) : o \in O}
    BY FollowIs
<1>. HIDE DEF F
<1>4. \A o \in Obligation : /\ M(o).by = Renamed(o.by, old, new)
                            /\ M(o).from = Renamed(o.from, old, new)
                            /\ M(o).msg = o.msg
                            /\ o.by # old /\ o.from # old => M(o) = o
    BY MovedParts
<1>. HIDE DEF M
<1>5. /\ Open \subseteq Obligation /\ owed \subseteq Obligation /\ settled \subseteq Obligation
      /\ abandoned \subseteq Obligation
      /\ \A c \in Busy : c \in Calls /\ calls[c] \in Call
                         /\ calls[c].asked \subseteq Obligation
                         /\ calls[c].answers \subseteq Obligation
    BY KnownTypes DEF RepliesTypeOK, Call
<1>6. ASSUME NEW c \in Busy
      PROVE  /\ calls'[c].asked = F(calls[c].asked) /\ calls'[c].answers = F(calls[c].answers)
             /\ calls'[c].at = calls[c].at /\ calls'[c].msg = calls[c].msg
             /\ calls'[c].from = calls[c].from /\ calls'[c].to = calls[c].to
             /\ calls'[c].done = calls[c].done /\ calls'[c].reserved = calls[c].reserved
             /\ calls'[c].before = calls[c].before /\ calls'[c].after = calls[c].after
             /\ calls[c].from \notin {old, new} /\ calls[c].to \notin {old, new}
    <2>1. calls'[c] = [calls[c] EXCEPT !.asked = Follow(@, old, new),
                                       !.answers = Follow(@, old, new)]
        BY <1>1, <1>5
    <2>2. calls[c].from \notin {old, new} /\ calls[c].to \notin {old, new}
        BY <1>1 DEF Talking
    <2>. QED BY <1>5, <2>1, <2>2 DEF Call, F
<1>7. /\ owed' = {M(o) : o \in owed} /\ settled' = {M(o) : o \in settled}
      /\ abandoned' = {M(o) : o \in abandoned}
    BY <1>1, <1>3
<1>8. \A c \in Busy : /\ calls'[c].asked = {M(o) : o \in calls[c].asked}
                       /\ calls'[c].answers = {M(o) : o \in calls[c].answers}
    BY <1>3, <1>6
<1>9. Busy' = Busy
    BY <1>1, <1>6 DEF Busy
<1>10. \A o \in Open \cup owed \cup settled : Swept(o) => Swept(M(o))'
    BY <1>1, <1>4, <1>5 DEF Swept, Sweeping, Renamed
<1>11. \A o \in Obligation : Swept(M(o))' => Swept(o)
    BY <1>1, <1>4 DEF Swept, Sweeping, Renamed
<1>12. Kept'
    BY <1>1, <1>2, <1>7 DEF RInv, Kept, Housed
<1>13. \A o \in Underway : M(o) \in Underway'
    BY <1>3, <1>6, <1>9 DEF Underway
<1>14. NoPhantom'
    <2>1. Open' \subseteq owed' \cup settled' \cup abandoned' \cup Underway'
        <3>1. ASSUME NEW n \in Open' PROVE n \in owed' \cup settled' \cup abandoned' \cup Underway'
            <4>1. PICK o \in Open : n = M(o)
                BY <1>2
            <4>2. o \in owed \cup settled \cup abandoned \cup Underway
                BY DEF RInv, NoPhantom
            <4>. QED BY <1>13, <1>7, <4>1, <4>2
        <3>. QED BY <3>1
    <2>2. \A k \in Local : \E j \in Local : pending'[k] \subseteq pending[j]
        BY MoveDebts
    <2>3. \A k \in Local : \A e, f \in pending'[k] : e.msg = f.msg => e = f
        BY <2>2 DEF RInv, NoPhantom
    <2>. QED BY <2>1, <2>3 DEF NoPhantom
<1>15. \A n \in Mentioned' : \E o \in Mentioned : n = M(o) /\ o \in Obligation
    <2>1. ASSUME NEW n \in Mentioned' PROVE \E o \in Mentioned : n = M(o) /\ o \in Obligation
        <3>1. CASE n \in Open' \cup owed' \cup settled'
            BY <1>2, <1>5, <1>7, <3>1 DEF Mentioned
        <3>2. CASE n \in UNION {calls'[c].asked \cup calls'[c].answers : c \in Busy'}
            <4>1. PICK c \in Busy : n \in calls'[c].asked \cup calls'[c].answers
                BY <1>9, <3>2
            <4>2. PICK o \in calls[c].asked \cup calls[c].answers : n = M(o)
                BY <1>8, <4>1
            <4>3. o \in Mentioned /\ o \in Obligation
                BY <1>5, <4>2 DEF Mentioned
            <4>. QED BY <4>2, <4>3
        <3>. QED BY <3>1, <3>2 DEF Mentioned
    <2>. QED BY <2>1
<1>16. Numbered'
    <2>1. seq' = seq
        BY <1>1
    <2>2. ASSUME NEW n \in Mentioned' PROVE n.msg <= seq'
        BY <1>4, <1>15, <2>1 DEF RInv, Numbered
    <2>3. ASSUME NEW n1 \in Mentioned', NEW n2 \in Mentioned', n1.msg = n2.msg
          PROVE  n1 = n2
        <3>1. PICK o1 \in Mentioned : n1 = M(o1) /\ o1 \in Obligation
            BY <1>15
        <3>2. PICK o2 \in Mentioned : n2 = M(o2) /\ o2 \in Obligation
            BY <1>15
        <3>3. o1 = o2
            BY <1>4, <2>3, <3>1, <3>2 DEF RInv, Numbered
        <3>. QED BY <3>1, <3>2, <3>3
    <2>. QED BY <2>2, <2>3 DEF Numbered
<1>17. StaysSettled'
    <2>1. ASSUME NEW n \in Open' \cap settled' PROVE Swept(n)'
        <3>1. PICK o1 \in Open : n = M(o1)
            BY <1>2
        <3>2. PICK o2 \in settled : n = M(o2)
            BY <1>1, <1>3
        <3>3. o1.msg = o2.msg
            BY <1>4, <1>5, <3>1, <3>2
        <3>4. o1 = o2
            BY <3>3 DEF RInv, Numbered, Mentioned
        <3>. QED BY <1>10, <3>1, <3>4 DEF RInv, StaysSettled
    <2>. QED BY <2>1 DEF StaysSettled
<1>18. Slots'
    <2>1. seq' = seq /\ \A c \in Busy : calls'[c].msg = calls[c].msg
        BY <1>1, <1>6
    <2>. QED BY <1>9, <2>1 DEF RInv, Slots
<1>19. Housed'
    <2>1. ASSUME NEW n \in owed' PROVE n.by \in live'
        <3>1. PICK o \in owed : n = M(o)
            BY <1>7
        <3>2. n.by = Renamed(o.by, old, new) /\ o.by \in live
            BY <1>4, <1>5, <3>1 DEF RInv, Housed
        <3>. QED BY <1>1, <3>2 DEF Renamed
    <2>. QED BY <2>1 DEF Housed
<1>20. Unswept'
    <2>1. \A s \in sweeps' : s.names \cap live' = {}
        BY <1>1 DEF RInv, Unswept, Sweeping
    <2>2. \A n \in owed' : ~ Swept(n)'
        BY <1>1, <1>3, <1>5, <1>11 DEF RInv, Unswept
    <2>. QED BY <2>1, <2>2 DEF Unswept
<1>21. Sends'
    <2>1. ASSUME NEW c \in Busy PROVE Question(calls[c])' /\ Answer(calls[c])'
        <3>1. Question(calls[c]) /\ Answer(calls[c])
            BY DEF RInv, Sends
        <3>2. \A n \in calls'[c].asked : \E o \in calls[c].asked : n = M(o) /\ o \in Obligation
            BY <1>3, <1>5, <1>6
        <3>3. \A o \in calls[c].asked : o.by \notin {old, new} /\ o.from \notin {old, new}
            BY <1>6, <3>1 DEF Question
        <3>4. \A n \in calls'[c].asked : n \in calls[c].asked /\ M(n) = n /\ n \in Obligation
            BY <1>4, <3>2, <3>3
        <3>5. \A n \in owed' : \E o \in owed : n.msg = o.msg
            BY <1>4, <1>5, <1>7
        <3>6. \A n \in calls'[c].asked : n \in settled \cup abandoned => n \in settled' \cup abandoned'
            BY <1>7, <3>4
        <3>7. \A n \in calls'[c].asked : n \in Open => n \in Open'
            BY <1>2, <3>3, <3>4
        <3>11. \A n \in calls'[c].asked : n.by \in live => n.by \in live'
            BY <1>1, <3>3, <3>4
        <3>8. \A n \in calls'[c].asked : Swept(n)' => Swept(n)
            BY <1>11, <3>4
        <3>9. Question(calls[c])'
            BY <1>6, <3>1, <3>4, <3>5, <3>6, <3>7, <3>8, <3>11 DEF Question
        <3>10. Answer(calls[c])'
            <4>1. \A n \in calls'[c].answers : \E o \in calls[c].answers : n = M(o) /\ n.msg = o.msg
                BY <1>3, <1>4, <1>5, <1>6
            <4>2. ~ calls'[c].done => calls'[c].answers = {}
                BY <1>6, <3>1, <4>1 DEF Answer
            <4>3. calls'[c].before = {} => calls'[c].answers \cap Open' = {}
                <5>1. ASSUME calls'[c].before = {}, NEW n \in calls'[c].answers, n \in Open'
                      PROVE  FALSE
                    <6>1. PICK o1 \in calls[c].answers : n = M(o1)
                        BY <4>1
                    <6>2. PICK o2 \in Open : n = M(o2)
                        BY <1>2, <5>1
                    <6>3. o1.msg = o2.msg
                        BY <1>4, <1>5, <6>1, <6>2
                    <6>4. o1 = o2
                        BY <6>3 DEF RInv, Numbered, Mentioned
                    <6>. QED BY <1>6, <3>1, <5>1, <6>2, <6>4 DEF Answer
                <5>. QED BY <5>1
            <4>4. ASSUME NEW b \in calls'[c].before
                  PROVE  /\ b.from = calls'[c].to
                         /\ \A o \in calls'[c].answers : o.msg = b.msg
                         /\ calls'[c].done => Owes(calls'[c].from, b) \in calls'[c].answers
                         /\ \/ calls'[c].reserved
                            \/ \E a \in calls'[c].after : a.msg = b.msg /\ a.from = b.from
                <5>1. \A o \in calls'[c].answers : o.msg = b.msg
                    BY <1>6, <3>1, <4>1, <4>4 DEF Answer
                <5>2. ASSUME calls'[c].done
                      PROVE  Owes(calls'[c].from, b) \in calls'[c].answers
                    <6>. DEFINE o == Owes(calls[c].from, b)
                    <6>1. o \in calls[c].answers
                        BY <1>6, <3>1, <4>4, <5>2 DEF Answer
                    <6>2. o \in Obligation /\ o.by = calls[c].from /\ o.from = b.from
                        BY <1>5, <6>1 DEF Owes
                    <6>3. o.from # old
                        BY <1>6, <3>1, <4>4, <6>2 DEF Answer
                    <6>4. M(o) = o
                        BY <1>4, <1>6, <6>2, <6>3
                    <6>. QED BY <1>3, <1>6, <6>1, <6>4
                <5>. QED BY <1>6, <3>1, <4>4, <5>1, <5>2 DEF Answer
            <4>. QED BY <4>2, <4>3, <4>4 DEF Answer
        <3>. QED BY <3>9, <3>10
    <2>. QED BY <1>9, <2>1 DEF Sends
<1>. QED BY <1>12, <1>14, <1>16, <1>17, <1>18, <1>19, <1>20, <1>21 DEF RInv

(* What a step that starts a send does, whoever sends *)
LEMMA StartSafe ==
    ASSUME RepliesTypeOK, RepliesTypeOK', RInv, NEW c \in Calls, c \notin Busy, NEW r \in Call,
           calls' = [calls EXCEPT ![c] = r], seq' = seq + 1, r.msg = seq + 1,
           UNCHANGED <<live, sweeps, owed, settled, abandoned>>,
           r.at \in {"sent", "unwind"}, r.at = "unwind" => r.asked = {},
           Open' = Open \cup r.asked,
           \A k \in Local : \A e, f \in pending'[k] : e.msg = f.msg => e = f,
           \A o \in r.asked : /\ o.by = r.to /\ o.msg = seq + 1 /\ o.from = r.from
                              /\ o.by \in live /\ ~ Swept(o),
           r.answers \subseteq Mentioned, Answer(r)
    PROVE  RInv'
<1>1. /\ seq \in Nat
      /\ Open \subseteq Obligation /\ owed \subseteq Obligation /\ settled \subseteq Obligation
      /\ \A d \in Busy : d \in Calls /\ calls[d] \in Call
                         /\ calls[d].asked \subseteq Obligation
                         /\ calls[d].answers \subseteq Obligation
      /\ r.asked \subseteq Obligation
      /\ \A o \in Obligation : o.msg \in Nat
    BY KnownTypes, BoundAssumption DEF RepliesTypeOK, Call, Obligation, Msgs
<1>2. /\ Busy' = Busy \cup {c} /\ calls'[c] = r
      /\ \A d \in Busy : d # c /\ calls'[d] = calls[d]
    BY DEF Busy, RepliesTypeOK
<1>3. Underway' = Underway \cup r.asked
    BY <1>2 DEF Underway
<1>4. \A o : Swept(o)' <=> Swept(o)
    BY DEF Swept
<1>5. Mentioned' = Mentioned \cup r.asked
    BY <1>2 DEF Mentioned
<1>6. \A o \in Mentioned : o.msg <= seq /\ o.msg # seq + 1
    BY <1>1 DEF RInv, Numbered, Mentioned
<1>7. Kept' /\ NoPhantom'
    BY <1>3 DEF RInv, Kept, NoPhantom
<1>8. StaysSettled'
    <2>1. \A o \in settled : o.msg # seq + 1
        BY <1>6 DEF Mentioned
    <2>. QED BY <1>4, <2>1 DEF RInv, StaysSettled
<1>9. Numbered'
    <2>1. \A o \in Mentioned' : o.msg <= seq'
        BY <1>1, <1>5, <1>6 DEF Mentioned
    <2>2. \A o1, o2 \in r.asked : o1 = o2
        BY <1>1 DEF Obligation
    <2>3. \A o1, o2 \in Mentioned' : o1.msg = o2.msg => o1 = o2
        BY <1>5, <1>6, <2>2 DEF RInv, Numbered
    <2>. QED BY <2>1, <2>3 DEF Numbered
<1>10. Slots'
    <2>1. \A d \in Busy : calls[d].msg \in Nat /\ calls[d].msg <= seq
        BY <1>1 DEF RInv, Slots, Call
    <2>2. \A d \in Busy' : calls'[d].msg <= seq'
        BY <1>1, <1>2, <2>1
    <2>3. ASSUME NEW d \in Busy', NEW e \in Busy', calls'[d].msg = calls'[e].msg
          PROVE  d = e
        <3>1. CASE d \in Busy /\ e \in Busy
            BY <1>2, <2>3, <3>1 DEF RInv, Slots
        <3>2. CASE d = c /\ e \in Busy
            BY <1>1, <1>2, <2>1, <2>3, <3>2
        <3>3. CASE d \in Busy /\ e = c
            BY <1>1, <1>2, <2>1, <2>3, <3>3
        <3>. QED BY <1>2, <3>1, <3>2, <3>3
    <2>. QED BY <2>2, <2>3 DEF Slots
<1>11. Housed'
    BY DEF RInv, Housed
<1>12. Unswept'
    BY <1>4 DEF RInv, Unswept
<1>13. Sends'
    <2>1. ASSUME NEW d \in Busy PROVE Question(calls[d])' /\ Answer(calls[d])'
        <3>1. Question(calls[d]) /\ Answer(calls[d]) /\ calls'[d] = calls[d]
            BY <1>2 DEF RInv, Sends
        <3>2. Question(calls[d])'
            BY <1>4, <3>1 DEF Question
        <3>3. Answer(calls[d])'
            <4>1. \A o \in calls[d].answers : o.msg # seq + 1
                BY <1>6 DEF Mentioned
            <4>2. calls[d].answers \cap Open' = calls[d].answers \cap Open
                BY <4>1
            <4>. QED BY <3>1, <4>2 DEF Answer
        <3>. QED BY <3>2, <3>3
    <2>2. Question(calls[c])'
        <3>1. \A o \in owed : o.msg # r.msg
            BY <1>6 DEF Mentioned
        <3>. QED BY <1>2, <1>4, <3>1 DEF Question
    <2>3. Answer(calls[c])'
        <3>1. r.answers \cap Open' = r.answers \cap Open
            BY <1>6
        <3>. QED BY <1>2, <3>1 DEF Answer
    <2>. QED BY <1>2, <2>1, <2>2, <2>3 DEF Sends
<1>. QED BY <1>7, <1>8, <1>9, <1>10, <1>11, <1>12, <1>13 DEF RInv

(* A question enters a bucket *)
LEMMA Asked ==
    ASSUME RepliesTypeOK, RepliesTypeOK', RInv, NEW to \in Local, NEW from \in Name,
           NEW asks \in BOOLEAN, seq + 1 \in Msgs,
           NEW q \in [Local -> SUBSET Entry], Debts(q) = Open,
           \A k \in Local : \A e, f \in q[k] : e.msg = f.msg => e = f,
           \A k \in Local : pending'[k] = IF k = to THEN Push(q[k], seq + 1, from, asks)
                                          ELSE q[k]
    PROVE  /\ Open' = Open \cup Asks(to, seq + 1, from, asks)
           /\ \A k \in Local : \A e, f \in pending'[k] : e.msg = f.msg => e = f
<1>1. CASE ~ asks
    <2>1. \A k \in Local : pending'[k] = q[k]
        BY <1>1 DEF Push
    <2>2. pending' = q
        BY <2>1 DEF RepliesTypeOK
    <2>. QED BY <1>1, <2>2, OpenIsNext DEF Asks
<1>2. CASE asks
    <2>. DEFINE new == [msg |-> seq + 1, from |-> from, progress |-> FALSE]
                ob  == [by |-> to, msg |-> seq + 1, from |-> from]
    <2>1. \A k \in Local : pending'[k] = IF k = to THEN q[k] \cup {new} ELSE q[k]
        BY <1>2 DEF Push
    <2>2. Asks(to, seq + 1, from, asks) = {ob}
        BY <1>2, Locals DEF Asks
    <2>3. ob \in Obligation /\ ob.by = to /\ ob.msg = seq + 1 /\ ob.from = from
        BY DEF Obligation
    <2>4. new.msg = seq + 1 /\ new.from = from
        OBVIOUS
    <2>. HIDE DEF new, ob
    <2>5. \A o \in Open : o \in Obligation /\ o.by \in Local
        BY KnownTypes DEF Obligation
    <2>6. \A o \in Open : o \in Debts(pending')
        <3>1. ASSUME NEW o \in Open PROVE o \in Debts(pending')
            <4>1. PICK e \in q[o.by] : e.msg = o.msg /\ e.from = o.from
                BY DebtOf
            <4>2. e \in pending'[o.by]
                BY <2>1, <2>5, <4>1
            <4>. QED BY <2>5, <4>1, <4>2, DebtOf
        <3>. QED BY <3>1
    <2>7. ob \in Debts(pending')
        <3>1. new \in pending'[ob.by]
            BY <2>1, <2>3
        <3>. QED BY <2>3, <2>4, <3>1, DebtOf
    <2>8. ASSUME NEW o \in Debts(pending'), o \notin Debts(q)
          PROVE  o = ob
        <3>1. o \in Obligation /\ o.by \in Local
            BY DebtOf DEF Obligation
        <3>2. PICK e \in pending'[o.by] : e.msg = o.msg /\ e.from = o.from
            BY DebtOf
        <3>3. e \notin q[o.by]
            BY <2>8, <3>1, <3>2, DebtOf
        <3>4. e = new /\ o.by = to
            BY <2>1, <3>1, <3>2, <3>3
        <3>. QED BY <2>3, <2>4, <3>1, <3>2, <3>4 DEF Obligation
    <2>9. Open' = Open \cup {ob}
        BY <2>6, <2>7, <2>8, OpenIsNext
    <2>10. ASSUME NEW e \in q[to] PROVE e.msg # seq + 1
        <3>1. e \in Entry
            OBVIOUS
        <3>2. Owes(to, e) \in Debts(q)
            BY <3>1, OwesTypes, DebtOf
        <3>3. Owes(to, e).msg <= seq
            BY <3>2 DEF RInv, Numbered, Mentioned
        <3>4. seq \in Nat
            BY BoundAssumption DEF RepliesTypeOK
        <3>. QED BY <3>1, <3>3, <3>4, OwesTypes
    <2>11. \A k \in Local : \A e, f \in pending'[k] : e.msg = f.msg => e = f
        <3>1. \A e, f \in q[to] \cup {new} : e.msg = f.msg => e = f
            BY <2>4, <2>10
        <3>. QED BY <2>1, <3>1
    <2>. QED BY <2>2, <2>9, <2>11
<1>. QED BY <1>1, <1>2

(* The parties of a question are there *)
LEMMA AskedUnswept ==
    ASSUME RepliesTypeOK, RInv, NEW to \in Name, NEW from \in Name, NEW asks, NEW m \in Msgs,
           to \in live, ~ Sweeping(from),
           NEW o \in Asks(to, m, from, asks)
    PROVE  o.by = to /\ o.msg = m /\ o.from = from /\ ~ Swept(o)
<1>1. o = [by |-> to, msg |-> m, from |-> from]
    BY DEF Asks
<1>2. o.by = to /\ o.msg = m /\ o.from = from
    BY <1>1
<1>. QED BY <1>2 DEF Swept, Sweeping, RInv, Unswept

LEMMA IncomingSendSafe ==
    ASSUME RepliesTypeOK, RepliesTypeOK', RInv, Disorder = {},
           NEW c \in Calls, NEW from \in Remote, NEW to \in Local, NEW asks \in BOOLEAN,
           NEW m \in Msgs, IncomingSend(c, from, to, asks, m)
    PROVE  RInv'
<1>. DEFINE r == [at |-> "sent", from |-> from, to |-> to, msg |-> m, done |-> FALSE,
                  asked |-> Asks(to, m, from, asks), answers |-> {},
                  before |-> {}, after |-> {}, reserved |-> FALSE]
<1>1. /\ c \notin Busy /\ to \in live /\ m = seq + 1 /\ seq' = seq + 1
      /\ pending' = [pending EXCEPT ![to] = Push(@, m, from, asks)]
      /\ calls' = [calls EXCEPT ![c] = r]
      /\ UNCHANGED <<live, sweeps, owed, settled, abandoned>>
    BY DEF IncomingSend, Allowed
<1>2. r \in Call
    <2>1. Asks(to, m, from, asks) \in SUBSET Obligation
        BY AsksTypes, Locals
    <2>2. m \in Nat
        BY BoundAssumption DEF Msgs
    <2>. QED BY <2>1, <2>2, Locals DEF Call, Stages, Maybe
<1>3. /\ Open' = Open \cup Asks(to, m, from, asks)
      /\ \A k \in Local : \A e, f \in pending'[k] : e.msg = f.msg => e = f
    <2>1. pending \in [Local -> SUBSET Entry]
        BY DEF RepliesTypeOK
    <2>2. \A k \in Local : pending'[k] = IF k = to THEN Push(pending[k], seq + 1, from, asks)
                                         ELSE pending[k]
        BY <1>1, <2>1
    <2>3. \A k \in Local : \A e, f \in pending[k] : e.msg = f.msg => e = f
        BY DEF RInv, NoPhantom
    <2>4. Debts(pending) = Open
        BY OpenIs
    <2>5. from \in Name /\ seq + 1 \in Msgs
        BY <1>1, Locals
    <2>. QED BY <1>1, <2>1, <2>2, <2>3, <2>4, <2>5, Asked
<1>4. ~ Sweeping(from)
    BY Locals DEF Sweeping, RepliesTypeOK, Sweep
<1>5. \A o \in Asks(to, m, from, asks) : o.by = to /\ o.msg = m /\ o.from = from /\ ~ Swept(o)
    BY <1>1, <1>4, AskedUnswept, Locals
<1>6. /\ r.at = "sent" /\ r.asked = Asks(to, m, from, asks) /\ r.answers = {} /\ r.to = to
      /\ r.from = from /\ r.msg = m /\ r.before = {}
    OBVIOUS
<1>. HIDE DEF r
<1>7. Answer(r)
    BY <1>6 DEF Answer
<1>. QED BY <1>1, <1>2, <1>3, <1>5, <1>6, <1>7, StartSafe

(* What a reply does to the bucket of its sender: the same debts, none     *)
(* twice, one of them perhaps marked                                       *)
Marks(n, q, to, re, done, before, after) ==
    /\ n \in SUBSET Entry
    /\ \A e, f \in n : e.msg = f.msg => e = f
    /\ \A e \in q : \E f \in n : f.msg = e.msg /\ f.from = e.from
    /\ \A f \in n : \E e \in q : f.msg = e.msg /\ f.from = e.from
    /\ before = {} => \A e \in q : e.msg # re
    /\ \A b \in before : /\ b \in q /\ b.msg = re /\ b.from = to
                         /\ done => after = {}
                         /\ ~ done => \E a \in after : a.msg = b.msg /\ a.from = b.from

LEMMA Marked ==
    ASSUME NEW q \in SUBSET Entry, \A e, f \in q : e.msg = f.msg => e = f,
           NEW to, NEW re, NEW done \in BOOLEAN,
           NEW before \in Found(q, re), NEW after \in Maybe,
           before = {} \/ \E e \in q : e.msg = re /\ e.from = to,
           before = {} => after = {},
           before # {} => after \in Found(Thread(q, to, re, done), re),
           NEW n, n = Reserve(Thread(q, to, re, done), before, after, done)
    PROVE  Marks(n, q, to, re, done, before, after)
<1>. USE DEF Marks
<1>. DEFINE T == Thread(q, to, re, done)
<1>1. CASE before = {}
    <2>1. \A e \in q : e.msg # re
        BY <1>1, FoundTypes
    <2>2. T = q
        BY <2>1 DEF Thread
    <2>3. n = q
        BY <1>1, <2>2 DEF Reserve
    <2>. QED BY <1>1, <2>1, <2>3
<1>2. CASE before # {}
    <2>1. PICK b \in before : TRUE
        BY <1>2
    <2>2. b \in q /\ b.msg = re /\ before \in Maybe
        BY <2>1, FoundTypes
    <2>3. before = {b}
        BY <2>1, <2>2 DEF Maybe
    <2>4. b.from = to
        BY <1>2, <2>2
    <2>5. {e \in q : e.msg = re /\ e.from = to} = {b}
        BY <2>2, <2>4
    <2>6. CASE done
        <3>1. T = q \ {b}
            BY <2>5, <2>6 DEF Thread
        <3>2. \A e \in T : e.msg # re
            BY <2>2, <3>1
        <3>3. after = {}
            BY <1>2, <3>2 DEF Found
        <3>4. n = q
            BY <2>2, <2>3, <2>6, <3>1, <3>3 DEF Reserve
        <3>. QED BY <1>2, <2>2, <2>3, <2>4, <2>6, <3>3, <3>4
    <2>7. CASE ~ done
        <3>. DEFINE x == [b EXCEPT !.progress = TRUE]
        <3>1. x \in Entry /\ x.msg = b.msg /\ x.from = b.from
            BY <2>2 DEF Entry
        <3>. HIDE DEF x
        <3>2. {[e EXCEPT !.progress = TRUE] : e \in {b}} = {x}
            BY DEF x
        <3>3. T = (q \ {b}) \cup {x}
            BY <2>5, <2>7, <3>2 DEF Thread
        <3>4. n = (q \ {b}) \cup {x}
            BY <2>7, <3>3 DEF Reserve
        <3>. HIDE DEF T
        <3>5. {e \in T : e.msg = re} = {x}
            BY <2>2, <3>1, <3>3
        <3>6. after = {x}
            BY <1>2, <3>5 DEF Found, T
        <3>7. \A e, f \in n : e.msg = f.msg => e = f
            BY <2>2, <3>1, <3>4
        <3>8. n \in SUBSET Entry
            BY <3>1, <3>4
        <3>9. /\ \A e \in q : \E f \in n : f.msg = e.msg /\ f.from = e.from
              /\ \A f \in n : \E e \in q : f.msg = e.msg /\ f.from = e.from
            BY <2>2, <3>1, <3>4
        <3>10. \E a \in after : a.msg = b.msg /\ a.from = b.from
            BY <3>1, <3>6
        <3>11. ASSUME NEW d \in before
               PROVE  /\ d \in q /\ d.msg = re /\ d.from = to /\ (done => after = {})
                      /\ ~ done => \E a \in after : a.msg = d.msg /\ a.from = d.from
            BY <2>2, <2>3, <2>4, <2>7, <3>10
        <3>. QED BY <1>2, <3>7, <3>8, <3>9, <3>11
    <2>. QED BY <2>6, <2>7
<1>. QED BY <1>1, <1>2

(* What a send records as its answer *)
LEMMA Recorded ==
    ASSUME RepliesTypeOK, RInv, NEW from \in Local, NEW to \in Name, NEW re,
           NEW done \in BOOLEAN, NEW before, NEW after, NEW r,
           before = {} => \A e \in pending[from] : e.msg # re,
           \A b \in before : /\ b \in pending[from] /\ b.msg = re /\ b.from = to
                             /\ done => after = {}
                             /\ ~ done => \E a \in after : a.msg = b.msg /\ a.from = b.from,
           r.answers = Answers(from, to, re, done), r.done = done, r.to = to, r.from = from,
           r.before = before, r.after = after,
           done /\ before # {} /\ after = {} => r.reserved
    PROVE  Answer(r) /\ r.answers \subseteq Mentioned
<1>1. r.answers \subseteq Mentioned
    <2>1. Underway \subseteq UNION {calls[c].asked \cup calls[c].answers : c \in Busy}
        BY DEF Underway
    <2>. QED BY <2>1 DEF Answers, Known, Mentioned
<1>2. ~ done => r.answers = {}
    BY DEF Answers
<1>3. ASSUME before = {}, NEW o \in r.answers PROVE o \notin Open
    <2>1. o.by = from /\ o.msg = re
        BY <1>3 DEF Answers
    <2>. QED BY <1>3, <2>1, OpenIs, DebtOf
<1>4. ASSUME NEW b \in before
      PROVE  /\ b.from = to /\ \A o \in r.answers : o.msg = b.msg
             /\ done => Owes(from, b) \in r.answers
             /\ r.reserved \/ \E a \in after : a.msg = b.msg /\ a.from = b.from
    <2>1. b \in pending[from] /\ b \in Entry /\ b.msg = re /\ b.from = to
        BY <1>4 DEF RepliesTypeOK
    <2>2. Owes(from, b) \in Open
        BY <2>1, OwesTypes, OpenIs, DebtOf
    <2>3. done => Owes(from, b) \in r.answers
        BY <2>1, <2>2, OwesTypes DEF Answers, Known
    <2>. QED BY <1>4, <2>1, <2>3 DEF Answers
<1>. QED BY <1>1, <1>2, <1>3, <1>4 DEF Answer

LEMMA SendSafe ==
    ASSUME RepliesTypeOK, RepliesTypeOK', RInv, Disorder = {}, NEW c \in Calls, Begin(c)
    PROVE  RInv'
<1>. PICK from \in Local, to \in Name, asks \in BOOLEAN, done \in BOOLEAN, re \in 0..seq :
        Send(c, from, to, asks, re, done)
    BY DEF Begin
<1>1. /\ c \notin Busy /\ from # to /\ seq + 1 \in Msgs /\ seq' = seq + 1
      /\ ~ Sweeping(from)
      /\ UNCHANGED <<live, sweeps, owed, settled, abandoned>>
    BY SendParts DEF Allowed
<1>2. PICK refused \in BOOLEAN, before \in Maybe, after \in Maybe :
         /\ before \in Found(pending[from], re)
         /\ before = {} => after = {}
         /\ before # {} => after \in Found(Thread(pending[from], to, re, done), re)
         /\ before = {} \/ \E e \in pending[from] : e.msg = re /\ e.from = to
         /\ to \notin live => refused
         /\ Record(c, from, to, asks, re, done, refused, before, after)
    BY SendParts DEF Allowed
<1>. DEFINE n == Reserve(Thread(pending[from], to, re, done), before, after, done)
            asked == IF refused THEN {} ELSE Asks(to, seq + 1, from, asks)
            reserved == done /\ (from \in live \/ (before # {} /\ after = {}))
            at == IF refused THEN "unwind" ELSE "sent"
            r == [at |-> at, from |-> from, to |-> to, msg |-> seq + 1, done |-> done,
                  asked |-> asked, answers |-> Answers(from, to, re, done),
                  before |-> before, after |-> after, reserved |-> reserved]
            q == [k \in Local |-> IF k = from THEN n ELSE pending[k]]
<1>3. /\ calls' = [calls EXCEPT ![c] = r]
      /\ pending' = [k \in Local |-> CASE k = from -> n
                                       [] k = to /\ ~ refused -> Push(pending[k], seq + 1, from, asks)
                                       [] OTHER -> pending[k]]
    BY <1>2 DEF Record
<1>4. /\ r.at = at /\ r.from = from /\ r.to = to /\ r.msg = seq + 1 /\ r.done = done
      /\ r.asked = asked /\ r.answers = Answers(from, to, re, done)
      /\ r.before = before /\ r.after = after /\ r.reserved = reserved
    OBVIOUS
<1>5. r \in Call
    <2>1. r = calls'[c]
        BY <1>3 DEF RepliesTypeOK
    <2>2. r.at # "idle"
        BY <1>4
    <2>3. r \in Call \cup {Idle}
        BY <2>1 DEF RepliesTypeOK
    <2>4. Idle.at = "idle"
        BY DEF Idle
    <2>. HIDE DEF r
    <2>. QED BY <2>2, <2>3, <2>4
<1>. HIDE DEF r
<1>6. pending[from] \in SUBSET Entry /\ pending \in [Local -> SUBSET Entry]
    BY DEF RepliesTypeOK
<1>7. \A k \in Local : \A e, f \in pending[k] : e.msg = f.msg => e = f
    BY DEF RInv, NoPhantom
<1>8. /\ n \in SUBSET Entry
      /\ \A e, f \in n : e.msg = f.msg => e = f
      /\ \A e \in pending[from] : \E f \in n : f.msg = e.msg /\ f.from = e.from
      /\ \A f \in n : \E e \in pending[from] : f.msg = e.msg /\ f.from = e.from
      /\ before = {} => \A e \in pending[from] : e.msg # re
      /\ \A b \in before : /\ b \in pending[from] /\ b.msg = re /\ b.from = to
                           /\ done => after = {}
                           /\ ~ done => \E a \in after : a.msg = b.msg /\ a.from = b.from
    <2>1. \A e, f \in pending[from] : e.msg = f.msg => e = f
        BY <1>7
    <2>2. n = Reserve(Thread(pending[from], to, re, done), before, after, done)
        OBVIOUS
    <2>. HIDE DEF n
    <2>3. Marks(n, pending[from], to, re, done, before, after)
        BY <1>2, <1>6, <2>1, <2>2, Marked
    <2>. QED BY <2>3 DEF Marks
<1>. HIDE DEF n
<1>9. Answer(r) /\ r.answers \subseteq Mentioned
    BY <1>4, <1>8, Recorded DEF reserved
<1>10. q \in [Local -> SUBSET Entry] /\ \A k \in Local : q[k] = IF k = from THEN n ELSE pending[k]
    BY <1>6, <1>8
<1>. HIDE DEF q
<1>11. \A k \in Local : \A e, f \in q[k] : e.msg = f.msg => e = f
    BY <1>7, <1>8, <1>10
<1>12. Debts(q) = Open
    <2>1. ASSUME NEW o \in Obligation PROVE o \in Debts(q) <=> o \in Debts(pending)
        <3>1. o.by \in Local
            BY DEF Obligation
        <3>2. CASE o.by = from
            BY <1>8, <1>10, <3>1, <3>2, DebtOf
        <3>3. CASE o.by # from
            BY <1>10, <3>1, <3>3, DebtOf
        <3>. QED BY <3>2, <3>3
    <2>. QED BY <2>1, DebtOf, OpenIs
<1>13. /\ Open' = Open \cup asked
       /\ \A k \in Local : \A e, f \in pending'[k] : e.msg = f.msg => e = f
    <2>1. CASE to \in Local /\ ~ refused
        <3>1. \A k \in Local : pending'[k] = IF k = to THEN Push(q[k], seq + 1, from, asks) ELSE q[k]
            BY <1>1, <1>3, <1>10, <2>1
        <3>2. asked = Asks(to, seq + 1, from, asks)
            BY <2>1
        <3>3. from \in Name
            BY Locals
        <3>. HIDE DEF asked
        <3>4. /\ Open' = Open \cup Asks(to, seq + 1, from, asks)
              /\ \A k \in Local : \A e, f \in pending'[k] : e.msg = f.msg => e = f
            BY <1>1, <1>10, <1>11, <1>12, <2>1, <3>1, <3>3, Asked
        <3>. QED BY <3>2, <3>4
    <2>2. CASE ~ (to \in Local /\ ~ refused)
        <3>1. \A k \in Local : pending'[k] = q[k]
            BY <1>3, <1>10, <2>2
        <3>2. pending' = q
            BY <1>10, <3>1 DEF RepliesTypeOK
        <3>3. asked = {}
            BY <2>2, Locals DEF Asks
        <3>. QED BY <1>11, <1>12, <3>2, <3>3, OpenIsNext
    <2>. QED BY <2>1, <2>2
<1>14. \A o \in asked : /\ o.by = to /\ o.msg = seq + 1 /\ o.from = from
                        /\ o.by \in live /\ ~ Swept(o)
    BY <1>1, <1>2, AskedUnswept, Locals
<1>15. r.at \in {"sent", "unwind"} /\ (r.at = "unwind" => r.asked = {})
    BY <1>4
<1>. HIDE DEF asked
<1>. QED BY <1>1, <1>3, <1>4, <1>5, <1>9, <1>13, <1>14, <1>15, StartSafe

(* What a step keeps of the calls that are not its own *)
LEMMA CallsStep ==
    ASSUME RepliesTypeOK, NEW c \in Busy, NEW x, calls' = [calls EXCEPT ![c] = x]
    PROVE  /\ calls'[c] = x
           /\ \A d \in Busy : d # c => d \in Busy' /\ calls'[d] = calls[d]
           /\ x.at # "idle" => Busy' = Busy
BY DEF Busy, RepliesTypeOK, Idle

LEMMA DeliverSafe ==
    ASSUME RepliesTypeOK, RInv, NEW c \in Calls, Deliver(c)
    PROVE  RInv'
<1>1. PICK ok \in BOOLEAN :
        /\ calls' = [calls EXCEPT ![c].at = IF ok THEN "accepted" ELSE "failed"]
        /\ owed' = IF ok THEN owed \cup (calls[c].asked \ (settled \cup abandoned)) ELSE owed
    BY DEF Deliver
<1>2. calls[c].at = "sent" /\ UNCHANGED <<live, pending, seq, sweeps, settled, abandoned>>
    BY DEF Deliver
<1>. DEFINE at == IF ok THEN "accepted" ELSE "failed"
            x == [calls[c] EXCEPT !.at = at]
<1>3. c \in Busy /\ calls[c] \in Call
    BY <1>2, KnownTypes DEF Busy
<1>4. /\ x.at = at /\ x.asked = calls[c].asked /\ x.answers = calls[c].answers
      /\ x.from = calls[c].from /\ x.to = calls[c].to /\ x.msg = calls[c].msg
      /\ x.done = calls[c].done /\ x.before = calls[c].before /\ x.after = calls[c].after
      /\ x.reserved = calls[c].reserved
    BY <1>3 DEF Call
<1>5. calls' = [calls EXCEPT ![c] = x]
    BY <1>1
<1>. HIDE DEF x
<1>6. calls'[c] = x /\ Busy' = Busy /\ \A d \in Busy : d # c => calls'[d] = calls[d]
    BY <1>3, <1>4, <1>5, CallsStep
<1>7. Open' = Open /\ \A o : Swept(o)' <=> Swept(o)
    BY <1>2 DEF Open, Swept
<1>8. Question(calls[c]) /\ Answer(calls[c])
    BY <1>3 DEF RInv, Sends
<1>9. \A d \in Busy : calls'[d].asked = calls[d].asked /\ calls'[d].answers = calls[d].answers
                      /\ calls'[d].msg = calls[d].msg
    BY <1>4, <1>6
<1>10. owed' \subseteq owed \cup (calls[c].asked \ (settled \cup abandoned)) /\ owed \subseteq owed'
    BY <1>1
<1>11. \A o \in calls[c].asked \ (settled \cup abandoned) :
          o \in Open /\ ~ Swept(o) /\ o.by \in live /\ o.msg = calls[c].msg
    BY <1>2, <1>8 DEF Question
<1>12. Kept'
    BY <1>7, <1>10, <1>11 DEF RInv, Kept
<1>13. NoPhantom'
    <2>1. Underway \subseteq Underway' \cup owed' \cup settled' \cup abandoned'
        <3>1. ASSUME NEW d \in Busy, calls[d].at \in {"sent", "failed"}, NEW o \in calls[d].asked
              PROVE  o \in Underway' \cup owed' \cup settled' \cup abandoned'
            <4>1. CASE d # c
                BY <1>6, <3>1, <4>1 DEF Underway
            <4>2. CASE d = c /\ ok
                BY <1>1, <1>2, <3>1, <4>2
            <4>3. CASE d = c /\ ~ ok
                BY <1>4, <1>6, <3>1, <4>3 DEF Underway
            <4>. QED BY <4>1, <4>2, <4>3
        <3>. QED BY <3>1 DEF Underway
    <2>. QED BY <1>2, <1>7, <1>10, <2>1 DEF RInv, NoPhantom
<1>14. StaysSettled'
    BY <1>2, <1>7 DEF RInv, StaysSettled
<1>15. Mentioned' \subseteq Mentioned
    <2>1. calls[c].asked \subseteq Mentioned
        BY <1>3 DEF Mentioned
    <2>. QED BY <1>2, <1>6, <1>7, <1>9, <1>10, <2>1 DEF Mentioned
<1>16. Numbered' /\ Slots'
    BY <1>2, <1>6, <1>9, <1>15 DEF RInv, Numbered, Slots
<1>17. Housed'
    BY <1>2, <1>10, <1>11 DEF RInv, Housed
<1>18. Unswept'
    BY <1>2, <1>7, <1>10, <1>11 DEF RInv, Unswept
<1>19. Sends'
    <2>1. ASSUME NEW d \in Busy, d # c PROVE Question(calls[d])' /\ Answer(calls[d])'
        <3>1. Question(calls[d]) /\ Answer(calls[d]) /\ calls'[d] = calls[d]
            BY <1>6, <2>1 DEF RInv, Sends
        <3>2. calls[d].msg # calls[c].msg
            BY <1>3, <2>1 DEF RInv, Slots
        <3>3. Question(calls[d])'
            BY <1>2, <1>7, <1>10, <1>11, <3>1, <3>2 DEF Question
        <3>4. Answer(calls[d])'
            BY <1>2, <1>7, <3>1 DEF Answer
        <3>. QED BY <3>3, <3>4
    <2>2. Question(calls[c])'
        BY <1>1, <1>2, <1>4, <1>6, <1>7, <1>8 DEF Question
    <2>3. Answer(calls[c])'
        BY <1>2, <1>4, <1>6, <1>7, <1>8 DEF Answer
    <2>. QED BY <1>6, <2>1, <2>2, <2>3 DEF Sends
<1>. QED BY <1>12, <1>13, <1>14, <1>16, <1>17, <1>18, <1>19 DEF RInv

LEMMA ClearFailedSafe ==
    ASSUME RepliesTypeOK, RepliesTypeOK', RInv, NEW c \in Calls, ClearFailed(c)
    PROVE  RInv'
<1>1. /\ calls[c].at = "failed"
      /\ calls' = [calls EXCEPT ![c].at = "unwind"]
      /\ pending' = [k \in Local |->
             IF k = calls[c].to THEN Retract(pending[k], calls[c].msg, calls[c].from)
             ELSE pending[k]]
      /\ UNCHANGED <<live, seq, sweeps, owed, settled, abandoned>>
    BY DEF ClearFailed
<1>. DEFINE x == [calls[c] EXCEPT !.at = "unwind"]
            Mine(o) == o.by = calls[c].to /\ o.msg = calls[c].msg /\ o.from = calls[c].from
<1>2. c \in Busy /\ calls[c] \in Call
    BY <1>1, KnownTypes DEF Busy
<1>3. /\ x.at = "unwind" /\ x.asked = calls[c].asked /\ x.answers = calls[c].answers
      /\ x.from = calls[c].from /\ x.to = calls[c].to /\ x.msg = calls[c].msg
      /\ x.done = calls[c].done /\ x.before = calls[c].before /\ x.after = calls[c].after
      /\ x.reserved = calls[c].reserved
    BY <1>2 DEF Call
<1>4. calls' = [calls EXCEPT ![c] = x]
    BY <1>1
<1>. HIDE DEF x
<1>5. calls'[c] = x /\ Busy' = Busy /\ \A d \in Busy : d # c => calls'[d] = calls[d]
    BY <1>2, <1>3, <1>4, CallsStep
<1>6. \A o : Swept(o)' <=> Swept(o)
    BY <1>1 DEF Swept
<1>7. Question(calls[c]) /\ Answer(calls[c])
    BY <1>2 DEF RInv, Sends
<1>8. \A o : o \in Open' <=> o \in Open /\ ~ Mine(o)
    <2>1. ASSUME NEW o \in Obligation
          PROVE  o \in Open' <=> o \in Open /\ ~ Mine(o)
        <3>1. o.by \in Local
            BY DEF Obligation
        <3>2. pending'[o.by] = IF o.by = calls[c].to
                               THEN {e \in pending[o.by] : e.msg # calls[c].msg \/ e.from # calls[c].from}
                               ELSE pending[o.by]
            BY <1>1, <3>1 DEF Retract
        <3>. QED BY <3>2, DebtOf, OpenIs, OpenIsNext
    <2>. QED BY <2>1, DebtOf, OpenIs, OpenIsNext
<1>9. \A d \in Busy : calls'[d].asked = calls[d].asked /\ calls'[d].answers = calls[d].answers
                      /\ calls'[d].msg = calls[d].msg
    BY <1>3, <1>5
<1>10. Kept'
    BY <1>1, <1>7, <1>8 DEF RInv, Kept, Question
<1>11. NoPhantom'
    <2>1. ASSUME NEW o \in Open' PROVE o \in owed \cup settled \cup abandoned \cup Underway'
        <3>1. o \in owed \cup settled \cup abandoned \cup Underway
            BY <1>8 DEF RInv, NoPhantom
        <3>2. ASSUME o \in Underway PROVE o \in Underway'
            <4>1. PICK d \in Busy : calls[d].at \in {"sent", "failed"} /\ o \in calls[d].asked
                BY <3>2 DEF Underway
            <4>2. d # c
                BY <1>7, <1>8, <4>1 DEF Question
            <4>. QED BY <1>5, <4>1, <4>2 DEF Underway
        <3>. QED BY <3>1, <3>2
    <2>2. \A k \in Local : pending'[k] \subseteq pending[k]
        BY <1>1 DEF Retract
    <2>. QED BY <1>1, <2>1, <2>2 DEF RInv, NoPhantom
<1>12. StaysSettled'
    BY <1>1, <1>6, <1>8 DEF RInv, StaysSettled
<1>13. Mentioned' \subseteq Mentioned
    BY <1>1, <1>5, <1>8, <1>9 DEF Mentioned
<1>14. Numbered' /\ Slots'
    BY <1>1, <1>5, <1>9, <1>13 DEF RInv, Numbered, Slots
<1>15. Housed'
    BY <1>1 DEF RInv, Housed
<1>16. Unswept'
    BY <1>1, <1>6 DEF RInv, Unswept
<1>17. Sends'
    <2>1. ASSUME NEW d \in Busy, d # c PROVE Question(calls[d])' /\ Answer(calls[d])'
        <3>1. Question(calls[d]) /\ Answer(calls[d]) /\ calls'[d] = calls[d]
            BY <1>5, <2>1 DEF RInv, Sends
        <3>2. calls[d].msg # calls[c].msg
            BY <1>2, <2>1 DEF RInv, Slots
        <3>3. Question(calls[d])'
            BY <1>1, <1>6, <1>8, <3>1, <3>2 DEF Question
        <3>4. Answer(calls[d])'
            BY <1>1, <1>8, <3>1 DEF Answer
        <3>. QED BY <3>3, <3>4
    <2>2. Question(calls[c])'
        BY <1>3, <1>5, <1>7 DEF Question
    <2>3. Answer(calls[c])'
        BY <1>1, <1>3, <1>5, <1>7, <1>8 DEF Answer
    <2>. QED BY <1>5, <2>1, <2>2, <2>3 DEF Sends
<1>. QED BY <1>10, <1>11, <1>12, <1>14, <1>15, <1>16, <1>17 DEF RInv

(* An undone reply leaves the same debts, none twice *)
LEMMA Restored ==
    ASSUME NEW q \in SUBSET Entry, \A e, f \in q : e.msg = f.msg => e = f,
           NEW before \in Maybe, NEW after,
           \A b \in before : \E a \in after : a.msg = b.msg /\ a.from = b.from,
           NEW n, n = Restore(q, before, after)
    PROVE  /\ \A e, f \in n : e.msg = f.msg => e = f
           /\ \A e \in q : \E f \in n : f.msg = e.msg /\ f.from = e.from
           /\ \A f \in n : \E e \in q : f.msg = e.msg /\ f.from = e.from
<1>1. CASE ~ \E b \in before : after \in Found(q, b.msg)
    BY <1>1 DEF Restore
<1>2. CASE \E b \in before : after \in Found(q, b.msg)
    <2>1. PICK b \in before : after \in Found(q, b.msg)
        BY <1>2
    <2>2. before = {b}
        BY <2>1 DEF Maybe
    <2>3. PICK a \in after : a.msg = b.msg /\ a.from = b.from
        BY <2>1
    <2>4. a \in q /\ after = {a}
        BY <2>1, <2>3 DEF Found
    <2>5. n = (q \ {a}) \cup {b}
        BY <1>2, <2>2, <2>4 DEF Restore
    <2>. QED BY <2>3, <2>4, <2>5
<1>. QED BY <1>1, <1>2

LEMMA UnwindSafe ==
    ASSUME RepliesTypeOK, RepliesTypeOK', RInv, NEW c \in Calls, Unwind(c)
    PROVE  RInv'
<1>1. /\ calls[c].at = "unwind"
      /\ calls' = [calls EXCEPT ![c] = Idle]
      /\ pending' = [k \in Local |->
             IF k = calls[c].from /\ ~ calls[c].reserved
             THEN Restore(pending[k], calls[c].before, calls[c].after) ELSE pending[k]]
      /\ UNCHANGED <<live, seq, sweeps, owed, settled, abandoned>>
    BY DEF Unwind
<1>2. c \in Busy /\ calls[c] \in Call
    BY <1>1, KnownTypes DEF Busy
<1>3. Busy' = Busy \ {c} /\ \A d \in Busy' : calls'[d] = calls[d]
    BY <1>1, <1>2 DEF Busy, RepliesTypeOK, Idle
<1>4. Answer(calls[c])
    BY <1>2 DEF RInv, Sends
<1>5. ASSUME NEW k \in Local
      PROVE  /\ \A e, f \in pending'[k] : e.msg = f.msg => e = f
             /\ \A e \in pending[k] : \E f \in pending'[k] : f.msg = e.msg /\ f.from = e.from
             /\ \A f \in pending'[k] : \E e \in pending[k] : f.msg = e.msg /\ f.from = e.from
    <2>1. pending[k] \in SUBSET Entry /\ \A e, f \in pending[k] : e.msg = f.msg => e = f
        BY DEF RepliesTypeOK, RInv, NoPhantom
    <2>2. CASE k = calls[c].from /\ ~ calls[c].reserved
        <3>1. pending'[k] = Restore(pending[k], calls[c].before, calls[c].after)
            BY <1>1, <2>2
        <3>2. /\ calls[c].before \in Maybe
              /\ \A b \in calls[c].before : \E a \in calls[c].after : a.msg = b.msg /\ a.from = b.from
            BY <1>2, <1>4, <2>2 DEF Call, Answer
        <3>. QED BY <2>1, <3>1, <3>2, Restored
    <2>3. CASE ~ (k = calls[c].from /\ ~ calls[c].reserved)
        <3>1. pending'[k] = pending[k]
            BY <1>1, <2>3
        <3>. QED BY <2>1, <3>1
    <2>. QED BY <2>2, <2>3
<1>6. Open' = Open
    <2>1. ASSUME NEW o \in Obligation PROVE o \in Open' <=> o \in Open
        <3>1. o.by \in Local
            BY DEF Obligation
        <3>. QED BY <1>5, <3>1, DebtOf, OpenIs, OpenIsNext
    <2>. QED BY <2>1, DebtOf, OpenIs, OpenIsNext
<1>7. Underway' = Underway
    BY <1>1, <1>3 DEF Underway
<1>8. \A o : Swept(o)' <=> Swept(o)
    BY <1>1 DEF Swept
<1>9. Kept' /\ NoPhantom'
    BY <1>1, <1>5, <1>6, <1>7 DEF RInv, Kept, NoPhantom
<1>10. StaysSettled'
    BY <1>1, <1>6, <1>8 DEF RInv, StaysSettled
<1>11. Mentioned' \subseteq Mentioned
    BY <1>1, <1>3, <1>6 DEF Mentioned
<1>12. Numbered' /\ Slots'
    BY <1>1, <1>3, <1>11 DEF RInv, Numbered, Slots
<1>13. Housed'
    BY <1>1 DEF RInv, Housed
<1>14. Unswept'
    BY <1>1, <1>8 DEF RInv, Unswept
<1>15. Sends'
    <2>1. ASSUME NEW d \in Busy' PROVE Question(calls[d])' /\ Answer(calls[d])'
        <3>1. Question(calls[d]) /\ Answer(calls[d]) /\ calls'[d] = calls[d]
            BY <1>3 DEF RInv, Sends
        <3>2. Question(calls[d])'
            BY <1>1, <1>6, <1>8, <3>1 DEF Question
        <3>3. Answer(calls[d])'
            BY <1>1, <1>6, <3>1 DEF Answer
        <3>. QED BY <3>2, <3>3
    <2>. QED BY <2>1 DEF Sends
<1>. QED BY <1>9, <1>10, <1>12, <1>13, <1>14, <1>15 DEF RInv

LEMMA FinalizeSafe ==
    ASSUME RepliesTypeOK, RepliesTypeOK', RInv, NEW c \in Calls, Finalize(c)
    PROVE  RInv'
<1>. DEFINE r == calls[c]
<1>1. /\ r.at = "accepted"
      /\ calls' = [calls EXCEPT ![c] = Idle]
      /\ pending' = [k \in Local |->
             IF k = r.from /\ r.done THEN Discharge(pending[k], r.before) ELSE pending[k]]
      /\ settled' = settled \cup r.answers /\ owed' = owed \ r.answers
      /\ abandoned' = abandoned \ r.answers
      /\ UNCHANGED <<live, seq, sweeps>>
    BY DEF Finalize
<1>2. c \in Busy /\ r \in Call /\ r.before \in Maybe
    BY <1>1, KnownTypes DEF Busy, Call
<1>3. Busy' = Busy \ {c} /\ \A d \in Busy' : calls'[d] = calls[d]
    BY <1>1, <1>2 DEF Busy, RepliesTypeOK, Idle
<1>4. Answer(r)
    BY <1>2 DEF RInv, Sends
<1>. DEFINE Gone(o) == o.by = r.from /\ r.done /\ \E b \in r.before : o.msg = b.msg
<1>. HIDE DEF r
<1>5. \A o : o \in Open' <=> o \in Open /\ ~ Gone(o)
    <2>1. ASSUME NEW o \in Obligation
          PROVE  o \in Open' <=> o \in Open /\ ~ Gone(o)
        <3>1. o.by \in Local
            BY DEF Obligation
        <3>2. pending'[o.by] = IF o.by = r.from /\ r.done
                               THEN {e \in pending[o.by] : \A b \in r.before : e.msg # b.msg}
                               ELSE pending[o.by]
            BY <1>1, <3>1 DEF Discharge
        <3>. QED BY <3>2, DebtOf, OpenIs, OpenIsNext
    <2>. QED BY <2>1, DebtOf, OpenIs, OpenIsNext
<1>6. r.answers \subseteq Mentioned
    BY <1>2 DEF Mentioned, r
<1>7. \A o \in Open : Gone(o) => o \in r.answers
    <2>1. ASSUME NEW o \in Open, Gone(o) PROVE o \in r.answers
        <3>1. PICK b \in r.before : o.msg = b.msg
            BY <2>1
        <3>2. Owes(r.from, b) \in r.answers
            BY <1>4, <2>1 DEF Answer
        <3>3. Owes(r.from, b) \in Mentioned /\ Owes(r.from, b).msg = o.msg
            BY <1>6, <3>1, <3>2 DEF Owes
        <3>4. o = Owes(r.from, b)
            BY <3>3 DEF RInv, Numbered, Mentioned
        <3>. QED BY <3>2, <3>4
    <2>. QED BY <2>1
<1>8. \A o \in r.answers : o \notin Open'
    <2>1. ASSUME NEW o \in r.answers, o \in Open PROVE o \notin Open'
        <3>1. r.done /\ r.before # {}
            BY <1>4, <2>1 DEF Answer
        <3>2. PICK b \in r.before : o.msg = b.msg
            BY <1>4, <3>1 DEF Answer
        <3>3. Owes(r.from, b) \in r.answers /\ Owes(r.from, b).msg = o.msg
              /\ Owes(r.from, b).by = r.from
            BY <1>4, <3>1, <3>2 DEF Answer, Owes
        <3>4. o = Owes(r.from, b)
            BY <1>6, <3>3 DEF RInv, Numbered
        <3>. QED BY <1>5, <3>1, <3>2, <3>3, <3>4
    <2>. QED BY <1>5, <2>1
<1>. HIDE DEF Gone
<1>9. \A o : Swept(o)' <=> Swept(o)
    BY <1>1 DEF Swept
<1>10. Underway' = Underway
    BY <1>1, <1>3 DEF Underway, r
<1>11. Kept'
    BY <1>1, <1>5, <1>7 DEF RInv, Kept
<1>12. NoPhantom'
    <2>1. Open' \subseteq owed' \cup settled' \cup abandoned' \cup Underway'
        BY <1>1, <1>5, <1>10 DEF RInv, NoPhantom
    <2>2. \A k \in Local : pending'[k] \subseteq pending[k]
        BY <1>1 DEF Discharge
    <2>. QED BY <2>1, <2>2 DEF RInv, NoPhantom
<1>13. StaysSettled'
    BY <1>1, <1>5, <1>8, <1>9 DEF RInv, StaysSettled
<1>14. Mentioned' \subseteq Mentioned
    BY <1>1, <1>3, <1>5, <1>6 DEF Mentioned
<1>15. Numbered' /\ Slots'
    BY <1>1, <1>3, <1>14 DEF RInv, Numbered, Slots
<1>16. Housed'
    BY <1>1 DEF RInv, Housed
<1>17. Unswept'
    BY <1>1, <1>9 DEF RInv, Unswept
<1>18. Sends'
    <2>1. ASSUME NEW d \in Busy' PROVE Question(calls[d])' /\ Answer(calls[d])'
        <3>1. Question(calls[d]) /\ Answer(calls[d]) /\ calls'[d] = calls[d]
            BY <1>3 DEF RInv, Sends
        <3>2. Question(calls[d])'
            BY <1>1, <1>5, <1>7, <1>9, <3>1 DEF Question
        <3>3. Answer(calls[d])'
            BY <1>1, <1>5, <3>1 DEF Answer
        <3>. QED BY <3>2, <3>3
    <2>. QED BY <2>1 DEF Sends
<1>. QED BY <1>11, <1>12, <1>13, <1>15, <1>16, <1>17, <1>18 DEF RInv

LEMMA InvStep ==
    ASSUME RepliesTypeOK, RepliesTypeOK', RInv, Disorder = {}, [RepliesNext]_rvars
    PROVE  RInv'
<1>1. CASE UNCHANGED rvars
    BY <1>1, RowsOnly, KnownTypes DEF rvars, RInv, Unswept
<1>2. CASE SessionStep
    BY <1>2, RegisterSafe, RestartReminderSafe, RemoveSessionSafe, RenameSafe,
       ExecuteSweepSafe, DeletePendingReplySafe DEF SessionStep
<1>3. CASE PeerStep
    <2>1. ASSUME NEW n \in Remote, Announce(n) PROVE RInv'
        BY <2>1, RowsOfPeers DEF Announce
    <2>2. ASSUME NEW n \in Remote, IncomingRemove(n) PROVE RInv'
        <3>1. {n} \in SUBSET (live \cap Remote) /\ Forget({n})
            BY <2>2 DEF IncomingRemove
        <3>. QED BY <2>2, <3>1, ForgetSafe, Locals DEF IncomingRemove
    <2>3. ASSUME NEW p \in Peers, NEW rows \in SUBSET [at : {p}, id : Ids], SessionList(p, rows)
          PROVE  RInv'
        <3>1. rows \subseteq Remote /\ Rows(p) \subseteq Remote
            BY HomeAssumption DEF Remote, Name, Local, Rows, RepliesTypeOK
        <3>2. Rows(p) \ rows \in SUBSET (live \cap Remote)
            BY <3>1 DEF Rows
        <3>3. /\ live' = (live \ Rows(p)) \cup rows /\ Forget(Rows(p) \ rows)
              /\ UNCHANGED <<pending, note, seq, calls, owed, settled, abandoned>>
            BY <2>3 DEF SessionList
        <3>4. live' \subseteq live \cup Remote /\ live \cap Local \subseteq live'
            BY <3>1, <3>3, Locals
        <3>. QED BY <3>2, <3>3, <3>4, ForgetSafe
    <2>4. ASSUME NEW old \in Remote, NEW new \in Remote, IncomingRenamed(old, new) PROVE RInv'
        BY <2>4, RowsOfPeers, Locals DEF IncomingRenamed
    <2>. QED BY <1>3, <2>1, <2>2, <2>3, <2>4, IncomingSendSafe DEF PeerStep
<1>4. CASE \E c \in Calls : Begin(c) \/ Resolve(c)
    BY <1>4, SendSafe, DeliverSafe, ClearFailedSafe, UnwindSafe, FinalizeSafe DEF Resolve
<1>. QED BY <1>1, <1>2, <1>3, <1>4 DEF RepliesNext

LEMMA Invariant ==
    ASSUME Disorder = {}
    PROVE  RepliesSpec => [](RepliesTypeOK /\ RInv)
<1>1. RepliesInit => RepliesTypeOK /\ RInv
    BY TypeInit, InvInit
<1>2. RepliesTypeOK /\ RInv /\ [RepliesNext]_rvars => (RepliesTypeOK /\ RInv)'
    BY TypeStep, InvStep
<1>. QED BY <1>1, <1>2, PTL DEF RepliesSpec

(* A question that has arrived stays in the bucket of the session that was *)
(* asked until the answer to it was delivered, it was dismissed, or a      *)
(* party is gone: for any number of sessions, peers, messages and sends    *)
(* under way (send_msg, finalize_successful_delivery,                      *)
(* clear_orphaned_replies).                                                *)
THEOREM ObligationsKept ==
    ASSUME Disorder = {}
    PROVE  RepliesSpec => []Kept
<1>1. RInv => Kept
    BY DEF RInv
<1>. QED BY <1>1, Invariant, PTL

(* A failed delivery leaves no debt, and no debt is entered twice, however *)
(* the sends overlap (clear_pending_reply_for_failed_delivery,             *)
(* reserve_sender_state_after_send).                                       *)
THEOREM NoPhantoms ==
    ASSUME Disorder = {}
    PROVE  RepliesSpec => []NoPhantom
<1>1. RInv => NoPhantom
    BY DEF RInv
<1>. QED BY <1>1, Invariant, PTL

(* No undone reply and no late step of another handler brings back what    *)
(* was answered, dismissed or orphaned by a removal, however many sessions *)
(* replace each other in their panes meanwhile (rollback_failed_delivery,  *)
(* ClearOwnedPendingReplies, apply_register_with_owner).                   *)
THEOREM SettledStays ==
    ASSUME Disorder = {}
    PROVE  RepliesSpec => []StaysSettled
<1>1. RInv => StaysSettled
    BY DEF RInv
<1>. QED BY <1>1, Invariant, PTL
===============================================================================
