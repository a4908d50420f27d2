---------------------------- MODULE RolloverProofs ----------------------------
(***************************************************************************)
(* A continuation goes to one incarnation, and a token that was printed is *)
(* not lost: proofs for any number of processes, over kills and power      *)
(* failures.                                                               *)
(***************************************************************************)
EXTENDS Rollover, TLAPS

Rec == [st : {"absent"}, token : {None}]
       \cup [st : {"pending"}, token : Tokens, src : Nat, expires : Nat]
       \cup [st : {"adopted"}, token : Tokens, by : Nat]

Body == [at : {"begun", "locked", "read", "put", "done"},
         op : {"prepare", "adopt", "cleanup"}, token : Tokens \cup {None},
         force : BOOLEAN, inc : Nat, now : Nat, seen : Rec]

RolloverTypeOK ==
    /\ inc \in Nat /\ now \in Nat
    /\ disk \subseteq Rec /\ file \in disk
    /\ run \in [Runs -> {Idle} \cup Body]
    /\ \A r \in Runs : run[r].at # "idle" /\ run[r].op # "cleanup" => run[r].token \in Tokens
    /\ printed \subseteq Tokens /\ used \subseteq Tokens
    /\ given \in [Tokens -> SUBSET Nat]

Does(r, op) == run[r].at # "idle" /\ run[r].op = op

(* Whoever is between locking and syncing has the lock, and what it has    *)
(* read is still there.                                                    *)
Exclusive ==
    \A r \in Runs :
        /\ run[r].at \in {"locked", "read", "put"} => lock = r
        /\ run[r].at = "read" => run[r].seen = file

(* What a run has put is what is there until it is synced.                 *)
Written ==
    \A r \in Runs : run[r].at = "put" =>
        /\ run[r].op = "prepare" => file.st = "pending" /\ file.token = run[r].token
        /\ run[r].op = "adopt" => /\ file.st = "adopted" /\ file.token = run[r].token
                                  /\ file.by = run[r].inc

(* The token of a prepare is its own, and only printed ones are adopted.   *)
Drawn ==
    /\ printed \subseteq used
    /\ \A r \in Runs :
        /\ Does(r, "prepare") => run[r].token \in used \ printed
        /\ Does(r, "adopt") => run[r].token \in printed
        /\ \A s \in Runs : Does(r, "prepare") /\ Does(s, "prepare") /\ run[r].token = run[s].token
                              => r = s
    /\ \A t \in Tokens : given[t] # {} => t \in printed

Durable(t) == \A rec \in disk : rec.st = "pending" /\ rec.token = t

Safe ==
    /\ \A t \in printed \ gone : Durable(t)
    /\ \A r \in Runs : run[r].at = "done" /\ run[r].op = "prepare" /\ run[r].token \notin gone
                          => Durable(run[r].token)

(* The incarnations for which a payload was printed, or is about to be.    *)
Claims(t, i) ==
    \/ i \in given[t]
    \/ \E r \in Runs : run[r].at = "done" /\ run[r].op = "adopt" /\ run[r].token = t /\ run[r].inc = i

Claimed ==
    \A t \in Tokens \ weak : \A i \in Nat : Claims(t, i) =>
        /\ \A j \in Nat : Claims(t, j) => i = j
        /\ \A rec \in disk : rec.token = t => rec.st = "adopted" /\ rec.by = i

IInv == RolloverTypeOK /\ Exclusive /\ Written /\ Drawn /\ Safe /\ Claimed

-----------------------------------------------------------------------------
LEMMA InitInv == Init => IInv
  <1> SUFFICES ASSUME Init PROVE IInv  OBVIOUS
  <1> USE DEF Init, Idle, Absent
  <1>1. RolloverTypeOK  BY DEF RolloverTypeOK, Rec
  <1>2. Exclusive /\ Written  BY DEF Exclusive, Written
  <1>3. Drawn /\ Safe /\ Claimed  BY DEF Drawn, Does, Safe, Claimed, Claims
  <1> QED  BY <1>1, <1>2, <1>3 DEF IInv

(* Every action keeps the types. *)
LEMMA TypesNext == IInv /\ [Next]_vars => RolloverTypeOK'
  <1> SUFFICES ASSUME IInv, [Next]_vars PROVE RolloverTypeOK'  OBVIOUS
  <1> USE DEF IInv, RolloverTypeOK, Rec, Body, Idle
  <1>1. CASE Restart  BY <1>1 DEF Restart, world, files, hist
  <1>2. CASE TimePasses  BY <1>2 DEF TimePasses, world, files, hist
  <1>3. CASE PowerFails  BY <1>3 DEF PowerFails, world, files, hist
  <1>4. CASE UNCHANGED vars  BY <1>4 DEF vars, world, files, hist
  <1>5. ASSUME NEW r \in Runs, Step(r) PROVE RolloverTypeOK'
    <2>1. CASE Begin(r)
      <3>1. ASSUME NEW op \in {"prepare", "adopt", "cleanup"}, NEW t \in Tokens \cup {None},
                   NEW force \in BOOLEAN, Begun(r, op, t, force), op # "cleanup" => t \in Tokens,
                   used' \subseteq Tokens
            PROVE  RolloverTypeOK'
        <4> DEFINE b == [at |-> "begun", op |-> op, token |-> t, force |-> force,
                         inc |-> inc, now |-> now, seen |-> Absent]
        <4>1. b \in Body  BY DEF Absent
        <4>2. b.at # "idle" /\ (b.op # "cleanup" => b.token \in Tokens)  BY <3>1
        <4>3. run' = [run EXCEPT ![r] = b]  BY <3>1 DEF Begun
        <4> HIDE DEF b
        <4>4. run' \in [Runs -> {Idle} \cup Body]  BY <4>1, <4>3 DEF RolloverTypeOK
        <4>5. \A q \in Runs : run'[q].at # "idle" /\ run'[q].op # "cleanup" => run'[q].token \in Tokens
          BY <4>2, <4>3 DEF RolloverTypeOK
        <4>6. UNCHANGED <<world, files, lock, hist>>  BY <3>1 DEF Begun
        <4> QED  BY <3>1, <4>4, <4>5, <4>6 DEF RolloverTypeOK, world, files, hist
      <3>2. ASSUME NEW t \in Tokens \ used, NEW force \in BOOLEAN,
                   Begun(r, "prepare", t, force), used' = used \cup {t}
            PROVE  RolloverTypeOK'
        <4>1. used' \subseteq Tokens  BY <3>2 DEF RolloverTypeOK
        <4> QED  BY <3>1, <3>2, <4>1
      <3>3. ASSUME NEW t \in Tokens \cup {None}, NEW op \in {"adopt", "cleanup"},
                   NEW force \in BOOLEAN, Begun(r, op, t, force), op # "cleanup" => t \in Tokens,
                   UNCHANGED used
            PROVE  RolloverTypeOK'
        <4>1. used' \subseteq Tokens  BY <3>3 DEF RolloverTypeOK
        <4> QED  BY <3>1, <3>3, <4>1
      <3> QED  BY <2>1, <3>2, <3>3 DEF Begin, RolloverTypeOK
    <2>2. CASE Lock(r)
      <3> DEFINE b == [run[r] EXCEPT !.at = "locked"]
      <3>1. run[r] \in Body /\ run[r].at # "idle"  BY <2>2 DEF Lock
      <3>2. b \in Body /\ b.op = run[r].op /\ b.token = run[r].token  BY <3>1 DEF Body
      <3>3. run' = [run EXCEPT ![r] = b] /\ UNCHANGED <<world, files, used, hist>>
        BY <2>2 DEF Lock
      <3> HIDE DEF b
      <3> QED  BY <3>1, <3>2, <3>3 DEF RolloverTypeOK, world, files, hist
    <2>3. CASE Read(r)
      <3>1. run[r] \in Body /\ file \in Rec  BY <2>3 DEF Read, RolloverTypeOK
      <3>2. [run[r] EXCEPT !.at = "read", !.seen = file] \in Body  BY <3>1 DEF Body
      <3>3. UNCHANGED <<world, files, lock, used, hist>>  BY <2>3 DEF Read
      <3>4. run' = [run EXCEPT ![r] = [run[r] EXCEPT !.at = "read", !.seen = file]]
        BY <2>3 DEF Read
      <3>5. \A q \in Runs : run'[q].at # "idle" /\ run'[q].op # "cleanup" => run'[q].token \in Tokens
        BY <2>3, <3>1, <3>4 DEF Read
      <3> QED  BY <3>2, <3>3, <3>4, <3>5 DEF world, files, hist
    <2>4. CASE RunEnds(r)  BY <2>4 DEF RunEnds, Ended, world, files, hist
    <2>5. CASE Prepare(r)
      <3> DEFINE p == Pending(run[r].token, run[r].inc, run[r].now + TTL)
      <3>1. run[r] \in Body /\ run[r].token \in Tokens  BY <2>5 DEF Prepare
      <3>2. run[r].now + TTL \in Nat  BY <3>1, TTLAssumption
      <3>3. p \in Rec  BY <3>1, <3>2 DEF Pending
      <3> HIDE DEF p
      <3>4. Put(r, p)  BY <2>5 DEF Prepare, p
      <3>5. [run[r] EXCEPT !.at = "put"] \in Body  BY <3>1
      <3> QED  BY <3>1, <3>3, <3>4, <3>5 DEF Put, world, hist
    <2>6. CASE Adopt(r)  BY <2>6 DEF Adopt, Put, Adopted, world, files, hist
    <2>7. CASE AdoptAgain(r)  BY <2>7 DEF AdoptAgain, Adopted, world, files, hist
    <2>8. CASE CleanUp(r)  BY <2>8 DEF CleanUp, Put, Absent, world, files, hist
    <2>9. CASE Sync(r)  BY <2>9 DEF Sync, world, files, hist
    <2>10. CASE Returns(r)  BY <2>10 DEF Returns, world, files, hist
    <2> QED  BY <1>5, <2>1, <2>2, <2>3, <2>4, <2>5, <2>6, <2>7, <2>8, <2>9, <2>10 DEF Step
  <1> QED  BY <1>1, <1>2, <1>3, <1>4, <1>5 DEF Next

(* Only the run that has the lock reads and writes. *)
LEMMA ExclusiveNext == IInv /\ [Next]_vars => Exclusive'
  <1> SUFFICES ASSUME IInv, [Next]_vars PROVE Exclusive'  OBVIOUS
  <1> USE DEF IInv, RolloverTypeOK, Exclusive, Idle, Body
  <1>1. CASE Restart  BY <1>1 DEF Restart, world, files, hist
  <1>2. CASE TimePasses  BY <1>2 DEF TimePasses, world, files, hist
  <1>3. CASE PowerFails  BY <1>3 DEF PowerFails, world, files, hist
  <1>4. CASE UNCHANGED vars  BY <1>4 DEF vars, world, files, hist
  <1>5. ASSUME NEW r \in Runs, Step(r) PROVE Exclusive'
    <2>1. CASE Begin(r)  BY <2>1 DEF Begin, Begun, world, files, hist
    <2>2. CASE Lock(r)  BY <2>2, NoneAssumption DEF Lock, world, files, hist
    <2>3. CASE Read(r)  BY <2>3 DEF Read, world, files, hist
    <2>4. CASE RunEnds(r)  BY <2>4 DEF RunEnds, Ended, world, files, hist
    <2>5. CASE Prepare(r)  BY <2>5 DEF Prepare, Put, Pending, world, files, hist
    <2>6. CASE Adopt(r)  BY <2>6 DEF Adopt, Put, Adopted, world, files, hist
    <2>7. CASE AdoptAgain(r)  BY <2>7 DEF AdoptAgain, Adopted, world, files, hist
    <2>8. CASE CleanUp(r)  BY <2>8 DEF CleanUp, Put, Absent, world, files, hist
    <2>9. CASE Sync(r)  BY <2>9 DEF Sync, world, files, hist
    <2>10. CASE Returns(r)  BY <2>10 DEF Returns, world, files, hist
    <2> QED  BY <1>5, <2>1, <2>2, <2>3, <2>4, <2>5, <2>6, <2>7, <2>8, <2>9, <2>10 DEF Step
  <1> QED  BY <1>1, <1>2, <1>3, <1>4, <1>5 DEF Next

(* Nobody writes between a run's putting and its syncing. *)
LEMMA WrittenNext == IInv /\ [Next]_vars => Written'
  <1> SUFFICES ASSUME IInv, [Next]_vars PROVE Written'  OBVIOUS
  <1> USE DEF IInv, RolloverTypeOK, Exclusive, Written, Idle, Body
  <1>1. CASE Restart  BY <1>1 DEF Restart, world, files, hist
  <1>2. CASE TimePasses  BY <1>2 DEF TimePasses, world, files, hist
  <1>3. CASE PowerFails  BY <1>3 DEF PowerFails, world, files, hist
  <1>4. CASE UNCHANGED vars  BY <1>4 DEF vars, world, files, hist
  <1>5. ASSUME NEW r \in Runs, Step(r) PROVE Written'
    <2>1. CASE Begin(r)  BY <2>1 DEF Begin, Begun, world, files, hist
    <2>2. CASE Lock(r)  BY <2>2 DEF Lock, world, files, hist
    <2>3. CASE Read(r)  BY <2>3 DEF Read, world, files, hist
    <2>4. CASE RunEnds(r)  BY <2>4 DEF RunEnds, Ended, world, files, hist
    <2>5. CASE Prepare(r)  BY <2>5 DEF Prepare, Put, Pending, world, files, hist
    <2>6. CASE Adopt(r)  BY <2>6 DEF Adopt, Put, Adopted, world, files, hist
    <2>7. CASE AdoptAgain(r)  BY <2>7 DEF AdoptAgain, Adopted, world, files, hist
    <2>8. CASE CleanUp(r)  BY <2>8 DEF CleanUp, Put, Absent, world, files, hist
    <2>9. CASE Sync(r)  BY <2>9 DEF Sync, world, files, hist
    <2>10. CASE Returns(r)  BY <2>10 DEF Returns, world, files, hist
    <2> QED  BY <1>5, <2>1, <2>2, <2>3, <2>4, <2>5, <2>6, <2>7, <2>8, <2>9, <2>10 DEF Step
  <1> QED  BY <1>1, <1>2, <1>3, <1>4, <1>5 DEF Next

(* A token is drawn once, and printed by its run. *)
LEMMA DrawnNext == IInv /\ [Next]_vars => Drawn'
  <1> SUFFICES ASSUME IInv, [Next]_vars PROVE Drawn'  OBVIOUS
  <1> USE DEF IInv, RolloverTypeOK, Drawn, Does, Idle, Body
  <1>1. CASE Restart  BY <1>1 DEF Restart, world, files, hist
  <1>2. CASE TimePasses  BY <1>2 DEF TimePasses, world, files, hist
  <1>3. CASE PowerFails  BY <1>3 DEF PowerFails, world, files, hist
  <1>4. CASE UNCHANGED vars  BY <1>4 DEF vars, world, files, hist
  <1>5. ASSUME NEW r \in Runs, Step(r) PROVE Drawn'
    <2>1. CASE Begin(r)  BY <2>1 DEF Begin, Begun, world, files, hist
    <2>2. CASE Lock(r)  BY <2>2 DEF Lock, world, files, hist
    <2>3. CASE Read(r)  BY <2>3 DEF Read, world, files, hist
    <2>4. CASE RunEnds(r)  BY <2>4 DEF RunEnds, Ended, world, files, hist
    <2>5. CASE Prepare(r)  BY <2>5 DEF Prepare, Put, Pending, world, files, hist
    <2>6. CASE Adopt(r)  BY <2>6 DEF Adopt, Put, Adopted, world, files, hist
    <2>7. CASE AdoptAgain(r)  BY <2>7 DEF AdoptAgain, Adopted, world, files, hist
    <2>8. CASE CleanUp(r)  BY <2>8 DEF CleanUp, Put, Absent, world, files, hist
    <2>9. CASE Sync(r)  BY <2>9 DEF Sync, world, files, hist
    <2>10. CASE Returns(r)  BY <2>10 DEF Returns, world, files, hist
    <2> QED  BY <1>5, <2>1, <2>2, <2>3, <2>4, <2>5, <2>6, <2>7, <2>8, <2>9, <2>10 DEF Step
  <1> QED  BY <1>1, <1>2, <1>3, <1>4, <1>5 DEF Next

(* What replaces a record has read it. *)
LEMMA SafeNext == IInv /\ [Next]_vars => Safe'
  <1> SUFFICES ASSUME IInv, [Next]_vars PROVE Safe'  OBVIOUS
  <1> USE DEF IInv, RolloverTypeOK, Exclusive, Written, Safe, Durable, Idle, Body, Rec
  <1>1. CASE Restart  BY <1>1 DEF Restart, world, files, hist
  <1>2. CASE TimePasses  BY <1>2 DEF TimePasses, world, files, hist
  <1>3. CASE PowerFails  BY <1>3 DEF PowerFails, world, files, hist
  <1>4. CASE UNCHANGED vars  BY <1>4 DEF vars, world, files, hist
  <1>5. ASSUME NEW r \in Runs, Step(r) PROVE Safe'
    <2>1. CASE Begin(r)  BY <2>1 DEF Begin, Begun, world, files, hist
    <2>2. CASE Lock(r)  BY <2>2 DEF Lock, world, files, hist
    <2>3. CASE Read(r)  BY <2>3 DEF Read, world, files, hist
    <2>4. CASE RunEnds(r)  BY <2>4 DEF RunEnds, Ended, world, files, hist
    <2>5. CASE Prepare(r)  BY <2>5 DEF Prepare, Put, Pending, world, files, hist
    <2>6. CASE Adopt(r)  BY <2>6 DEF Adopt, Put, Adopted, world, files, hist
    <2>7. CASE AdoptAgain(r)  BY <2>7 DEF AdoptAgain, Adopted, world, files, hist
    <2>8. CASE CleanUp(r)  BY <2>8 DEF CleanUp, Put, Absent, world, files, hist
    <2>9. CASE Sync(r)  BY <2>9 DEF Sync, world, files, hist
    <2>10. CASE Returns(r)  BY <2>10 DEF Returns, world, files, hist
    <2> QED  BY <1>5, <2>1, <2>2, <2>3, <2>4, <2>5, <2>6, <2>7, <2>8, <2>9, <2>10 DEF Step
  <1> QED  BY <1>1, <1>2, <1>3, <1>4, <1>5 DEF Next

(* A claim is made on an adoption that is on disk. *)
LEMMA ClaimedNext == IInv /\ [Next]_vars => Claimed'
  <1> SUFFICES ASSUME IInv, [Next]_vars PROVE Claimed'  OBVIOUS
  <1> USE DEF IInv, RolloverTypeOK, Exclusive, Written, Drawn, Does, Claimed, Claims, Idle, Body, Rec
  <1>1. CASE Restart  BY <1>1 DEF Restart, world, files, hist
  <1>2. CASE TimePasses  BY <1>2 DEF TimePasses, world, files, hist
  <1>3. CASE PowerFails  BY <1>3 DEF PowerFails, world, files, hist
  <1>4. CASE UNCHANGED vars  BY <1>4 DEF vars, world, files, hist
  <1>5. ASSUME NEW r \in Runs, Step(r) PROVE Claimed'
    <2>1. CASE Begin(r)  BY <2>1 DEF Begin, Begun, world, files, hist
    <2>2. CASE Lock(r)  BY <2>2 DEF Lock, world, files, hist
    <2>3. CASE Read(r)  BY <2>3 DEF Read, world, files, hist
    <2>4. CASE RunEnds(r)  BY <2>4 DEF RunEnds, Ended, world, files, hist
    <2>5. CASE Prepare(r)  BY <2>5 DEF Prepare, Put, Pending, world, files, hist
    <2>6. CASE Adopt(r)  BY <2>6 DEF Adopt, Put, Adopted, world, files, hist
    <2>7. CASE AdoptAgain(r)  BY <2>7 DEF AdoptAgain, Adopted, world, files, hist
    <2>8. CASE CleanUp(r)  BY <2>8, NoneAssumption DEF CleanUp, Put, Absent, world, files, hist
    <2>9. CASE Sync(r)  BY <2>9 DEF Sync, world, files, hist
    <2>10. CASE Returns(r)  BY <2>10 DEF Returns, world, files, hist
    <2> QED  BY <1>5, <2>1, <2>2, <2>3, <2>4, <2>5, <2>6, <2>7, <2>8, <2>9, <2>10 DEF Step
  <1> QED  BY <1>1, <1>2, <1>3, <1>4, <1>5 DEF Next

-----------------------------------------------------------------------------
THEOREM RolloverInv == Spec => []IInv
  <1>1. IInv /\ [Next]_vars => IInv'
    BY TypesNext, ExclusiveNext, WrittenNext, DrawnNext, SafeNext, ClaimedNext DEF IInv
  <1> QED  BY <1>1, InitInv, PTL DEF Spec

(* The types of the variables, for any number of processes.                *)
THEOREM RolloverTypes == Spec => []RolloverTypeOK
  <1>1. IInv => RolloverTypeOK  BY DEF IInv
  <1> QED  BY <1>1, RolloverInv, PTL

(* A payload is printed for one incarnation only, whoever is killed.       *)
THEOREM ContinuationsOnce == Spec => []AdoptedOnce
  <1>1. IInv => AdoptedOnce
    BY DEF IInv, AdoptedOnce, Claimed, Claims, RolloverTypeOK
  <1> QED  BY <1>1, RolloverInv, PTL

(* A printed token stays on disk until a run that has read it lets it go.  *)
THEOREM ContinuationsKept == Spec => []TokenKept
  <1>1. IInv => TokenKept  BY DEF IInv, TokenKept, Safe, Durable
  <1> QED  BY <1>1, RolloverInv, PTL
=============================================================================
