--------------------------- MODULE TxAtomic_proofs ---------------------------
(***************************************************************************)
(* TxRAMCloud implements AtomicStore: users see every operation take       *)
(* effect in one step or not at all, whatever clients do between any two   *)
(* calls to the server and wherever they stop; for any number of clients,  *)
(* keys and transactions, and any scripts.  Their commits are final.       *)
(***************************************************************************)
EXTENDS TxRAMCloud_proofs

-----------------------------------------------------------------------------
(* The inductive invariant.                                                 *)

(* No operation makes an object disappear.                                  *)
NoDeletes ==
  \A op \in UserOp :
    op.type # "delete" /\ \A k \in DOMAIN op.ops : op.ops[k].kind # "delete"

Rule(c, k) == KOp(c, k).rule
Seen(c, k) == known[c][k].data

Filled(k) == Exists(obj[k]) /\ obj[k].body.data # NoData

(* Whoever waits for ever takes off no masks of others.                     *)
PatientInv(c) == ~MayExpire => ~Cleaning(c) /\ cl[c].pc # "writeTombstone"

(* The loops of _write_unsafe and _delete_unsafe.                           *)
LoopInv(c) ==
  (cl[c].pc \notin {"idle", "crashed", "direct"} /\ Op(c).type \in {"write", "delete"}) =>
    \A k \in KeysOf(c) : Rule(c, k) \in {"any", "exist"}

(* The call of a write or a delete says what the operation says, and is     *)
(* accepted only if its rule holds.                                         *)
UserInv(c) ==
  LET q == cl[c].call
  IN  cl[c].pc \in {"user", "direct"} =>
        /\ Op(c).type \in {"write", "delete"} /\ KeysOf(c) = {q.key}
        /\ q.body = IF Op(c).type = "delete" THEN NoBody ELSE Packed(NoTx, NewData(c, q.key))
        /\ cl[c].pc = "direct" => q.rr = UserRules(c, q.key)
        /\ (cl[c].pc = "user" /\ Rule(c, q.key) = "exist") => q.rr.doesntExist

(* A call with data d knows the data of the object if it has the version it *)
(* asks for.                                                                *)
UpToDate(q, d) ==
  (Exists(obj[q.key]) /\ obj[q.key].ver = q.rr.given) => obj[q.key].body.data = d

(* A mask keeps the data it covers, for which the rule of its key holds.    *)
MaskingInv(c) ==
  LET q == cl[c].call
  IN  cl[c].pc = "mask" =>
        /\ Store!Holds(Rule(c, q.key), q.body.data, Seen(c, q.key))
        /\ IF q.rr.exists THEN q.body.data = NoData
           ELSE q.rr.doesntExist /\ q.rr.gtGiven /\ UpToDate(q, q.body.data)

HeldInv(c) ==
  cl[c].tx # NoTx =>
    \A k \in KeysOf(c) :
      MaskedBy(k, cl[c].tx) => Store!Holds(Rule(c, k), obj[k].body.data, Seen(c, k))

(* Whoever takes off a mask leaves the data. An absent object would be      *)
(* written again by such a call: so the object is still there.              *)
UnmaskingInv(c) ==
  LET q == cl[c].call
  IN  cl[c].pc = "unmask" =>
        /\ ~q.rr.exists
        /\ (Exists(obj[q.key]) /\ obj[q.key].ver = q.rr.given) =>
             q.body = Plain(obj[q.key].body.data)
        /\ q.body # NoBody =>
             IF MayExpire THEN Filled(q.key) ELSE MaskedBy(q.key, cl[c].job.tx)

ApplyingInv(c) == cl[c].pc = "apply" => cl[c].call.rr.doesntExist

(* A coordinator that has given up did not commit.                          *)
AbortInv(c) ==
  (cl[c].tx # NoTx /\ cl[c].job.then \notin {"retry", "ok"}) =>
    tobj[cl[c].tx].body # "MiniTransaction"

EffectInv(c) ==
  /\ PatientInv(c) /\ LoopInv(c) /\ UserInv(c) /\ MaskingInv(c) /\ HeldInv(c)
  /\ UnmaskingInv(c) /\ ApplyingInv(c) /\ AbortInv(c)

StoreInv ==
  /\ NoDeletes =>
       \A t \in used : \A k \in DOMAIN intent[t] :
         /\ intent[t][k].kind # "delete"
         /\ intent[t][k].kind = "write" => intent[t][k].data # NoData
  /\ ~MayExpire => \A t \in TxId : tobj[t].body # "Tombstone"

AtomicInv ==
  /\ faults.interrupt <= MaxInterrupt
  /\ faults.interrupt = 0 => StoreInv /\ \A c \in Client : EffectInv(c)

-----------------------------------------------------------------------------
(* Steps of the abstract store.                                             *)

(* What the store keeps for client c: the answer of a transaction that took *)
(* effect.                                                                  *)
Answer(c) ==
  IF cl[c].job.then = "ok" THEN [k \in Key |-> Returned(c)[k].data] ELSE <<>>

SameData == \A k \in Key : Logical(k)' = Logical(k)

StoreStep == [Store!Next]_(Store!vars)

LEMMA StoreStutters ==
  ASSUME SameData, UNCHANGED <<todo, known>>, \A d \in Client : Answer(d)' = Answer(d)
  PROVE  StoreStep
BY DEF SameData, StoreStep, Store!vars, Answer

LEMMA StoreFails ==
  ASSUME NEW c \in Client, SameData, todo[c] # <<>>,
         todo' = [todo EXCEPT ![c] = Tail(@)], UNCHANGED known,
         \A d \in Client : Answer(d)' = IF d = c THEN <<>> ELSE Answer(d)
  PROVE  StoreStep
<1>1. Store!Fail(c)
  BY DEF SameData, Store!Fail, Answer
<1> QED
  BY <1>1 DEF StoreStep, Store!Next

(* What a read, a write or a delete of client c leaves under its key.       *)
Outcome(c, k) ==
  CASE Op(c).type = "read" -> Logical(k)
    [] Op(c).type = "write" -> NewData(c, k)
    [] Op(c).type = "delete" -> NoData

LEMMA SingleFacts ==
  ASSUME TypeOK, NEW c \in Client, todo[c] # <<>>, ~IsCommit(c)
  PROVE  /\ Op(c).type \in {"read", "write", "delete"}
         /\ \E k \in Key : KeysOf(c) = {k}
         /\ \A k \in KeysOf(c) : KOp(c, k).kind = IF Op(c).type = "read" THEN "noop" ELSE Op(c).type
<1>1. Op(c) \in UserOp
  BY OpFacts
<1> QED
  BY <1>1, ScriptAssumption, SingleAssumption DEF IsCommit, KeysOf, KOp

LEMMA ToldOutcome ==
  ASSUME TypeOK, NEW c \in Client, todo[c] # <<>>, ~IsCommit(c),
         NEW k \in Key, KeysOf(c) = {k}
  PROVE  /\ Store!NewValue(c, k) = Outcome(c, k)
         /\ Store!Told(c) = [j \in Key |-> IF j = k THEN Outcome(c, k) ELSE Seen(c, j)]
<1>1. Op(c).type \in {"read", "write", "delete"} /\ DOMAIN Op(c).ops = {k}
      /\ Op(c).ops[k].kind = IF Op(c).type = "read" THEN "noop" ELSE Op(c).type
  BY SingleFacts DEF KeysOf, KOp
<1>2. Store!Op(c) = Op(c)
  BY DEF Store!Op, Op
<1>3. Store!NewValue(c, k) = Outcome(c, k)
  BY <1>1, <1>2 DEF Store!NewValue, Outcome, NewData, KOp
<1> QED
  BY <1>1, <1>2, <1>3 DEF Store!Told, Seen

LEMMA StorePerforms ==
  ASSUME TypeOK, NEW c \in Client, todo[c] # <<>>, ~IsCommit(c),
         NEW k \in Key, KeysOf(c) = {k}, NEW v,
         Store!Holds(Rule(c, k), Logical(k), Seen(c, k)) \/
           (Op(c).type = "read" /\ Logical(k) = NoData),
         Learn(c, k, v, Outcome(c, k)),
         Logical(k)' = Outcome(c, k), \A j \in Key \ {k} : Logical(j)' = Logical(j),
         todo' = [todo EXCEPT ![c] = Tail(@)],
         Answer(c) = <<>>, \A d \in Client : Answer(d)' = Answer(d)
  PROVE  StoreStep
<1> DEFINE KV == [j \in Key |-> Logical(j)]
           S == [d \in Client |-> [j \in Key |-> known[d][j].data]]
           A == [d \in Client |-> Answer(d)]
<1>1. Op(c).type \in {"read", "write", "delete"} /\ DOMAIN Op(c).ops = {k}
      /\ Store!Op(c) = Op(c) /\ Op(c).type # "commit"
  BY SingleFacts DEF KeysOf, KOp, Store!Op, Op
<1>2. \A j \in Key : Store!NewValue(c, j) = Outcome(c, j) \/ j # k
  BY ToldOutcome
<1>3. S' = [S EXCEPT ![c] = Store!Told(c)]
  <2>1. S'[c] = Store!Told(c)
    BY ToldOutcome DEF Learn, TypeOK, Seen
  <2>2. \A d \in Client : d # c => S'[d] = S[d]
    BY DEF Learn, TypeOK
  <2> QED
    BY <2>1, <2>2
<1>4. A' = A /\ A[c] = <<>>
  OBVIOUS
<1>5. CASE Store!Holds(Rule(c, k), Logical(k), Seen(c, k))
  <2>1. KV' = [j \in Key |-> IF j \in DOMAIN Op(c).ops THEN Store!NewValue(c, j) ELSE KV[j]]
    BY <1>1, <1>2
  <2>2. Store!Effect(c)
    BY <1>1, <1>4, <1>5, <2>1 DEF Store!Effect, Rule, KOp, Seen, Answer
  <2>3. Store!Perform(c)
    BY <1>1, <1>3, <1>4, <2>2 DEF Store!Perform, Answer
  <2> QED
    BY <2>3 DEF StoreStep, Store!Next
<1>6. CASE Op(c).type = "read" /\ Logical(k) = NoData
  <2>1. KV' = KV
    BY <1>6 DEF Outcome
  <2>2. Store!Miss(c)
    BY <1>1, <1>3, <1>4, <1>6, <2>1 DEF Store!Miss, Answer
  <2> QED
    BY <2>2 DEF StoreStep, Store!Next
<1> QED
  BY <1>5, <1>6

LEMMA StoreCommits ==
  ASSUME TypeOK, NEW c \in Client, todo[c] # <<>>, IsCommit(c), Answer(c) = <<>>,
         \A k \in KeysOf(c) : Store!Holds(Rule(c, k), Logical(k), Seen(c, k)),
         \A k \in Key : Logical(k)' = IF k \in KeysOf(c) THEN Store!NewValue(c, k) ELSE Logical(k),
         UNCHANGED <<todo, known>>,
         \A d \in Client : Answer(d)' = IF d = c THEN Store!Told(c) ELSE Answer(d)
  PROVE  StoreStep
<1>1. Store!Op(c) = Op(c) /\ DOMAIN Op(c).ops = KeysOf(c)
  BY DEF Store!Op, Op, KeysOf
<1>2. KeysOf(c) \subseteq Key
  BY OpFacts
<1>3. Store!Effect(c)
  BY <1>1, <1>2 DEF Store!Effect, Rule, KOp, Seen, Answer
<1>4. Store!Commit(c)
  BY <1>1, <1>3 DEF Store!Commit, IsCommit, Answer
<1> QED
  BY <1>4 DEF StoreStep, Store!Next

LEMMA StoreReturns ==
  ASSUME TypeOK, NEW c \in Client, todo[c] # <<>>, cl[c].job.then = "ok",
         SameData, todo' = [todo EXCEPT ![c] = Tail(@)],
         known' = [known EXCEPT ![c] = Returned(c)],
         \A d \in Client : Answer(d)' = IF d = c THEN <<>> ELSE Answer(d)
  PROVE  StoreStep
<1>1. Answer(c) = [k \in Key |-> Returned(c)[k].data]
  BY DEF Answer
<1>2. Answer(c) # <<>>
  <2>1. PICK k \in KeysOf(c) : TRUE
    BY OpFacts
  <2>2. k \in Key
    BY OpFacts
  <2> QED
    BY <1>1, <2>2
<1>3. \A d \in Client : [k \in Key |-> known'[d][k].data] =
        IF d = c THEN Answer(c) ELSE [k \in Key |-> known[d][k].data]
  BY <1>1 DEF TypeOK
<1>4. Store!Return(c)
  BY <1>2, <1>3 DEF SameData, Store!Return, Answer
<1> QED
  BY <1>4 DEF StoreStep, Store!Next

LEMMA StoreStops ==
  ASSUME NEW c \in Client, SameData, todo' = [todo EXCEPT ![c] = <<>>], UNCHANGED known,
         \A d \in Client : Answer(d)' = IF d = c THEN <<>> ELSE Answer(d)
  PROVE  StoreStep
<1>1. Store!Stop(c)
  BY DEF SameData, Store!Stop, Answer
<1> QED
  BY <1>1 DEF StoreStep, Store!Next

-----------------------------------------------------------------------------
(* What the steps of the protocol are for the abstract store.               *)

LEMMA ReturnedStays ==
  ASSUME NEW c, todo'[c] = todo[c], known'[c] = known[c], cl'[c].mver = cl[c].mver
  PROVE  Returned(c)' = Returned(c)
BY DEF Returned, NewData, KOp, KeysOf, Op

LEMMA AnswersStay ==
  ASSUME NEW c \in Client, Alone(c), NEW d \in Client, d # c
  PROVE  Answer(d)' = Answer(d)
<1>1. cl'[d] = cl[d] /\ todo'[d] = todo[d] /\ known'[d] = known[d]
  BY DEF Alone
<1>2. Returned(d)' = Returned(d)
  BY <1>1, ReturnedStays
<1> QED
  BY <1>1, <1>2 DEF Answer

LEMMA GoOnStutters ==
  ASSUME TypeOK, NEW c \in Client, NEW s, GoOn(c, s), Alone(c), SameData,
         s.job.then = "ok" <=> cl[c].job.then = "ok",
         s.job.then = "ok" => s.mver = cl[c].mver
  PROVE  StoreStep
<1>1. cl'[c] = s /\ UNCHANGED <<todo, known>>
  BY DEF GoOn, Become, TypeOK
<1>2. Answer(c)' = Answer(c)
  BY <1>1, ReturnedStays DEF Answer
<1>3. \A d \in Client : Answer(d)' = Answer(d)
  BY <1>2, AnswersStay
<1> QED
  BY <1>1, <1>3, StoreStutters

LEMMA EndAnswers ==
  ASSUME TypeOK, NEW c \in Client, NEW r, End(c, r), Alone(c), NEW d \in Client
  PROVE  Answer(d)' = IF d = c THEN <<>> ELSE Answer(d)
<1>1. cl'[c].job.then = "retry"
  BY DEF End, Become, TypeOK, Idle, NoJob
<1> QED
  BY <1>1, AnswersStay DEF Answer

LEMMA EndFails ==
  ASSUME TypeOK, NEW c \in Client, NEW r, End(c, r), Alone(c), UNCHANGED known,
         todo[c] # <<>>, SameData
  PROVE  StoreStep
BY EndAnswers, StoreFails DEF End

LEMMA EndPerforms ==
  ASSUME TypeOK, NEW c \in Client, NEW r, End(c, r), Alone(c),
         todo[c] # <<>>, ~IsCommit(c), cl[c].job.then # "ok",
         NEW k \in Key, KeysOf(c) = {k}, NEW v,
         Store!Holds(Rule(c, k), Logical(k), Seen(c, k)) \/
           (Op(c).type = "read" /\ Logical(k) = NoData),
         NEW x, x = Outcome(c, k), Learn(c, k, v, x),
         Logical(k)' = x, \A j \in Key \ {k} : Logical(j)' = Logical(j)
  PROVE  StoreStep
<1>1. Answer(c) = <<>> /\ \A d \in Client : Answer(d)' = Answer(d)
  BY EndAnswers DEF Answer
<1>2. todo' = [todo EXCEPT ![c] = Tail(@)]
  BY DEF End
<1> QED
  BY <1>1, <1>2, StorePerforms

(* An object looks the same to users if it is the same, and so is the fate  *)
(* of the transaction that masks it.                                        *)
LEMMA LogicalStays ==
  ASSUME TypeOK, NEW c \in Client, Alone(c), NEW k \in Key, obj'[k] = obj[k],
         \A t \in TxId : MaskedBy(k, t) =>
           (tobj'[t].body = "MiniTransaction" <=> tobj[t].body = "MiniTransaction")
  PROVE  Logical(k)' = Logical(k)
<1>1. CASE ~Exists(obj[k])
  BY <1>1 DEF Logical, Exists
<1>2. CASE Exists(obj[k])
  <2>1. PICK t \in used \cup {NoTx} : t = obj[k].body.tx
    BY <1>2, UsedIds DEF Exists, Object
  <2>2. CASE t = NoTx
    BY <1>2, <2>1, <2>2 DEF Logical, Exists
  <2>3. CASE t # NoTx
    <3>1. t \in TxId /\ MaskedBy(k, t) /\ intent'[t] = intent[t]
      BY <1>2, <2>1, <2>3, UsedIds DEF MaskedBy, Alone
    <3> QED
      BY <1>2, <2>1, <2>3, <3>1 DEF Logical, Exists
  <2> QED
    BY <2>2, <2>3
<1> QED
  BY <1>1, <1>2

LEMMA SameStore ==
  ASSUME TypeOK, NEW c \in Client, Alone(c), UNCHANGED <<obj, tobj>>
  PROVE  SameData
BY LogicalStays DEF SameData

(* A transaction object that comes or goes matters to no user if it is a    *)
(* tombstone, or if no mask is left.                                        *)
LEMMA SealsChange ==
  ASSUME TypeOK, MaskProtocol, NEW c \in Client, StepOf(c), UNCHANGED obj,
         cl[c].pc # "writeT"
  PROVE  SameData
<1> SUFFICES ASSUME NEW k \in Key PROVE Logical(k)' = Logical(k)
  BY DEF SameData
<1>1. Alone(c) /\ TStep(c)
  BY DEF StepOf
<1>2. ASSUME NEW t \in TxId, MaskedBy(k, t), tobj'[t] # tobj[t]
      PROVE  tobj'[t].body # "MiniTransaction" /\ tobj[t].body # "MiniTransaction"
  <2>1. cl[c].pc = "writeTombstone"
    <3>1. ASSUME cl[c].pc # "writeTombstone" PROVE FALSE
      <4>1. Gone(t)
        BY <1>2, <3>1, DeletedIsGone
      <4> QED
        BY <1>2, <4>1 DEF Gone, NoMask
    <3> QED
      BY <3>1
  <2> QED
    BY <1>1, <1>2, <2>1, BodyAssumption DEF TStep, Exists
<1> QED
  BY <1>1, <1>2, LogicalStays

-----------------------------------------------------------------------------
(* The invariant of a client whose operation ends or goes on.               *)

LEMMA EffectEnds ==
  ASSUME NEW c \in Client, cl'[c].pc \in {"idle", "crashed"}, cl'[c].tx = NoTx
  PROVE  EffectInv(c)'
BY DEF EffectInv, PatientInv, Cleaning, LoopInv, UserInv, MaskingInv, HeldInv, UnmaskingInv,
       ApplyingInv, AbortInv

LEMMA EndEffect ==
  ASSUME TypeOK, NEW c \in Client, NEW r, End(c, r) PROVE EffectInv(c)'
<1>1. cl'[c].pc = "idle" /\ cl'[c].tx = NoTx
  BY DEF End, Become, TypeOK, Idle
<1> QED
  BY <1>1, EffectEnds

(* A mask keeps its data while c does not put down another one.             *)
LEMMA HeldKeeps ==
  ASSUME TypeOK, MaskProtocol, NEW c \in Client, ObjStep(c),
         NEW d \in Client, HeldInv(d), cl'[d].tx = cl[d].tx, todo'[d] = todo[d],
         known'[d] = known[d], c # d \/ cl[c].pc # "mask" \/ UNCHANGED obj
  PROVE  HeldInv(d)'
<1> SUFFICES ASSUME cl[d].tx # NoTx, NEW k \in KeysOf(d), MaskedBy(k, cl[d].tx)'
             PROVE  Store!Holds(Rule(d, k), obj'[k].body.data, Seen(d, k))
  BY OpStays DEF HeldInv, Rule, Seen
<1>1. cl[d].tx \in TxId /\ k \in Key
  <2>1. cl[d].pc \notin {"idle", "crashed"}
    BY MoverFacts DEF ShapeInv
  <2> QED
    BY <2>1, UsedIds, ClientFacts
<1>2. MaskedBy(k, cl[d].tx)'
  OBVIOUS
<1>3. obj'[k] = obj[k]
  <2>1. \A t \in TxId : (t = cl[d].tx) => MaskedBy(k, t)'
    BY <1>2 DEF MaskedBy
  <2>2. obj'[k] = obj[k] \/ (cl[c].pc = "mask" /\ cl[c].tx = cl[d].tx)
    BY <1>1, <2>1, MaskOn
  <2> QED
    BY <2>2, SameCoordinator
<1>4. MaskedBy(k, cl[d].tx)
  BY <1>2, <1>3 DEF MaskedBy, Exists
<1> QED
  BY <1>3, <1>4 DEF HeldInv

(* Only the coordinator of a transaction commits it.                        *)
LEMMA AbortKeeps ==
  ASSUME TypeOK, MaskProtocol, NEW c \in Client, StepOf(c),
         NEW d \in Client, AbortInv(d), cl'[d].tx = cl[d].tx, cl'[d].job.then = cl[d].job.then,
         c # d \/ cl[c].pc # "writeT"
  PROVE  AbortInv(d)'
<1> SUFFICES ASSUME cl[d].tx # NoTx, cl[d].job.then \notin {"retry", "ok"},
                    tobj'[cl[d].tx].body = "MiniTransaction"
             PROVE  FALSE
  BY DEF AbortInv
<1>1. cl[d].tx \in TxId /\ TStep(c)
  BY UsedIds DEF StepOf
<1>2. tobj[cl[d].tx].body # "MiniTransaction"
  BY DEF AbortInv
<1>3. cl[c].pc = "writeT" /\ cl[c].tx = cl[d].tx
  BY <1>1, <1>2, BodyAssumption DEF TStep
<1> QED
  BY <1>3, SameCoordinator

LEMMA GoOnEffect ==
  ASSUME TypeOK, MaskProtocol, NEW c \in Client, EffectInv(c), StepOf(c), NEW s, GoOn(c, s),
         s.tx = cl[c].tx, s.pc \notin CallLabels, s.pc \notin {"idle", "crashed"},
         cl[c].pc \notin {"idle", "crashed", "direct"},
         cl[c].pc = "mask" => UNCHANGED obj,
         \A t \in TxId : (t = cl[c].tx /\ s.job.then \notin {"retry", "ok"}) =>
                            tobj'[t].body # "MiniTransaction",
         ~MayExpire => s.pc # "writeTombstone" /\ (s.pc = "unmaskRead" => s.job.then # "retry")
  PROVE  EffectInv(c)'
<1>1. cl'[c] = s /\ todo'[c] = todo[c] /\ known'[c] = known[c]
  BY DEF GoOn, Become, TypeOK
<1>2. HeldInv(c)'
  BY <1>1, HeldKeeps DEF EffectInv, StepOf
<1>3. AbortInv(c)'
  BY <1>1, UsedIds DEF AbortInv
<1>4. LoopInv(c)'
  BY <1>1, OpStays DEF EffectInv, LoopInv, Rule
<1>5. PatientInv(c)'
  BY <1>1 DEF PatientInv, Cleaning, CallLabels
<1> QED
  BY <1>1, <1>2, <1>3, <1>4, <1>5
     DEF EffectInv, UserInv, MaskingInv, UnmaskingInv, ApplyingInv, CallLabels

-----------------------------------------------------------------------------
(* What holds of a client while another one moves.                          *)

(* What a call that is accepted knows of the object it replaces.            *)
LEMMA AcceptedVersion ==
  ASSUME TypeOK, NEW c \in Client, NEW t, CallStatus(c) = "ok", cl[c].call.key \in Key,
         Guarded(cl[c].call, t), Exists(obj[cl[c].call.key])
  PROVE  /\ ~cl[c].call.rr.exists /\ cl[c].call.rr.gtGiven
         /\ obj[cl[c].call.key].ver = cl[c].call.rr.given
         /\ obj[cl[c].call.key].body.tx = t
<1>1. PICK q \in Call : q = cl[c].call
  BY UsedIds DEF Local
<1>2. PICK v \in Nat : v = obj[q.key].ver
  BY <1>1 DEF TypeOK, StoreOK
<1>3. PICK g \in Nat : g = q.rr.given
  BY <1>1 DEF Call, RulesType
<1>4. ~q.rr.exists /\ ~(q.rr.gtGiven /\ v > g)
  BY <1>1, <1>2, <1>3 DEF CallStatus, Status
<1>5. q.rr.gtGiven /\ g <= v
  BY <1>1, <1>2, <1>3, <1>4 DEF Guarded
<1>6. g = v
  BY <1>4, <1>5
<1> QED
  BY <1>1, <1>2, <1>3, <1>4, <1>5, <1>6, GuardedCall

LEMMA IntentType ==
  ASSUME TypeOK, NEW t \in TxId, NEW k \in DOMAIN intent[t]
  PROVE  intent[t][k] \in [kind : {"noop", "write", "delete"}, data : Data]
<1>1. PICK S \in SUBSET Key :
        intent[t] \in [S -> [kind : {"noop", "write", "delete"}, data : Data]]
  BY DEF TypeOK, StoreOK
<1> QED
  BY <1>1

(* The data that a call of client c leaves under an object with data.       *)
LEMMA AcceptedData ==
  ASSUME TypeOK, MaskProtocol, NoDeletes, StoreInv, NEW c \in Client, EffectInv(c),
         cl[c].pc \in CallLabels, CallStatus(c) = "ok", Filled(cl[c].call.key)
  PROVE  cl[c].call.body # NoBody /\ cl[c].call.body.data # NoData
<1> DEFINE q == cl[c].call
           t == cl[c].job.tx
<1>1. q.key \in Key /\ Fit(c, cl[c]) /\ todo[c] # <<>> /\ Exists(obj[q.key])
  BY ClientFacts DEF Fit, CallLabels, Filled
<1>2. CallInv(c)
  BY MoverFacts
<1>3. PICK x \in Data \ {NoData} : x = obj[q.key].body.data
  BY <1>1, UsedIds DEF Filled, Exists, Object
<1>4. CASE cl[c].pc = "mask"
  <2>1. Guarded(q, NoTx)
    BY <1>2, <1>4 DEF CallInv
  <2>2. ~q.rr.exists /\ obj[q.key].ver = q.rr.given
    BY <1>1, <2>1, AcceptedVersion
  <2> QED
    BY <1>1, <1>2, <1>3, <1>4, <2>2 DEF EffectInv, MaskingInv, UpToDate, CallInv
<1>5. CASE cl[c].pc \in {"user", "direct"}
  <2>1. Op(c).type # "delete" /\ KeysOf(c) = {q.key}
        /\ q.body = Packed(NoTx, NewData(c, q.key))
    BY <1>1, <1>5, OpFacts DEF EffectInv, UserInv, NoDeletes
  <2>2. NewData(c, q.key) \in Value
    BY <1>1, <2>1, NewDataType
  <2> QED
    BY <2>1, <2>2, PlainBody, NullAssumption DEF Data
<1>6. CASE cl[c].pc = "unmask"
  <2>1. Guarded(q, t)
    BY <1>2, <1>6 DEF CallInv
  <2>2. obj[q.key].ver = q.rr.given
    BY <1>1, <2>1, AcceptedVersion
  <2>3. q.body = Plain(x)
    BY <1>1, <1>3, <1>6, <2>2 DEF EffectInv, UnmaskingInv
  <2> QED
    BY <1>3, <2>3, PlainBody
<1>7. CASE cl[c].pc = "apply"
  <2>1. Guarded(q, t)
    BY <1>2, <1>7 DEF CallInv
  <2>2. t \in used /\ t \in TxId /\ t # NoTx /\ MaskedBy(q.key, t)
    <3>1. t \in used /\ t \in TxId /\ t # NoTx
      BY <1>7, ApplierFacts DEF Applying
    <3> QED
      BY <1>1, <2>1, <3>1, AcceptedVersion DEF MaskedBy
  <2>3. q.body = Plain(Result(intent[t][q.key], x))
    BY <1>2, <1>3, <1>7, <2>2 DEF CallInv
  <2>4. q.key \in DOMAIN intent[t]
    BY <1>1, <2>2, MoverFacts DEF ObjectInv, MaskedBy
  <2>5. PICK i \in [kind : {"noop", "write", "delete"}, data : Data] : i = intent[t][q.key]
    BY <2>2, <2>4, IntentType
  <2>6. i.kind # "delete" /\ (i.kind = "write" => i.data # NoData)
    BY <2>2, <2>4, <2>5 DEF StoreInv
  <2>7. PICK y \in Data \ {NoData} : y = Result(i, x)
    BY <1>3, <2>5, <2>6 DEF Result
  <2>8. q.body = Plain(y)
    BY <2>3, <2>5, <2>7
  <2> QED
    BY <2>7, <2>8, PlainBody
<1> QED
  BY <1>4, <1>5, <1>6, <1>7 DEF CallLabels

LEMMA FilledStays ==
  ASSUME TypeOK, MaskProtocol, NoDeletes, StoreInv, NEW c \in Client, EffectInv(c),
         ObjStep(c), NEW k \in Key, Filled(k)
  PROVE  Filled(k)'
<1>1. CASE obj'[k] = obj[k]
  BY <1>1 DEF Filled, Exists
<1>2. CASE obj'[k] # obj[k]
  <2>1. cl[c].pc \in CallLabels /\ CallStatus(c) = "ok"
        /\ obj' = [obj EXCEPT ![cl[c].call.key] = Changed(@, cl[c].call.body)]
    BY <1>2 DEF ObjStep
  <2>2. obj \in [Key -> [ver : Nat, body : {NoBody} \cup Object]]
    BY DEF TypeOK, StoreOK
  <2>3. cl[c].call.key = k /\ obj'[k] = Changed(obj[k], cl[c].call.body)
    BY <1>2, <2>1, <2>2
  <2>4. cl[c].call.body # NoBody /\ cl[c].call.body.data # NoData
    BY <2>1, <2>3, AcceptedData
  <2> QED
    BY <2>3, <2>4 DEF Changed, Written, Filled, Exists
<1> QED
  BY <1>1, <1>2

(* A coordinator that takes off its masks is the only one to do so, if      *)
(* nobody cleans.                                                           *)
LEMMA OwnMaskStays ==
  ASSUME TypeOK, MaskProtocol, NEW c \in Client, PatientInv(c), ObjStep(c), ~MayExpire,
         NEW d \in Client, d # c, Ending(d), cl[d].job.then # "ok", AbortInv(d),
         NEW k \in Key, MaskedBy(k, cl[d].tx)
  PROVE  obj'[k] = obj[k]
<1>1. cl[d].tx \in TxId /\ cl[d].tx # NoTx /\ tobj[cl[d].tx].body # "MiniTransaction"
  BY EndedUncoordinated, UsedIds DEF AbortInv, Ending
<1>2. ASSUME cl[c].pc \in {"unmask", "apply"}, cl[c].job.tx = cl[d].tx PROVE FALSE
  <2>1. CASE cl[c].pc = "unmask"
    <3>1. Ending(c)
      BY <2>1 DEF PatientInv, Cleaning, Ending
    <3>2. cl[c].tx = cl[d].tx
      BY <1>2, <3>1, EndedUncoordinated
    <3> QED
      BY <1>1, <3>2, SameCoordinator
  <2>2. CASE cl[c].pc = "apply"
    <3>1. tobj[cl[d].tx].body = "MiniTransaction" \/ NoMask(cl[d].tx)
      BY <1>2, <2>2, MoverFacts DEF RemoveInv, Applying
    <3> QED
      BY <1>1, <3>1 DEF NoMask
  <2> QED
    BY <1>2, <2>1, <2>2
<1>3. \A t \in TxId : (t = cl[d].tx) => MaskedBy(k, t)
  OBVIOUS
<1> QED
  BY <1>1, <1>2, <1>3, MaskOff

LEMMA UpToDateStays ==
  ASSUME TypeOK, NEW c \in Client, ObjStep(c), NEW q, NEW k \in Key, q.key = k,
         NEW g \in Nat, q.rr.given = g, g <= obj[k].ver
  PROVE  \/ obj'[k] = obj[k]
         \/ ~(Exists(obj'[k]) /\ obj'[k].ver = g)
<1>1. PICK v \in Nat : v = obj[k].ver
  BY DEF TypeOK, StoreOK
<1>2. obj'[k] = obj[k] \/ obj'[k].ver = v + 1 \/ ~Exists(obj'[k])
  BY <1>1, ObjectsGrow
<1> QED
  BY <1>1, <1>2

LEMMA OthersEffect ==
  ASSUME TypeOK, MaskProtocol, StoreInv, ~MayExpire \/ NoDeletes,
         NEW c \in Client, EffectInv(c), StepOf(c), NEW d \in Client, d # c, EffectInv(d)
  PROVE  EffectInv(d)'
<1>1. cl'[d] = cl[d] /\ todo'[d] = todo[d] /\ known'[d] = known[d] /\ ObjStep(c)
  BY DEF StepOf, Alone
<1>2. Op(d)' = Op(d) /\ KeysOf(d)' = KeysOf(d) /\ \A k : KOp(d, k)' = KOp(d, k)
  BY <1>1, OpStays
<1>3. PatientInv(d)' /\ LoopInv(d)' /\ ApplyingInv(d)'
  BY <1>1, <1>2 DEF EffectInv, PatientInv, Cleaning, LoopInv, Rule, ApplyingInv
<1>4. UserInv(d)'
  <2>1. \A k : NewData(d, k)' = NewData(d, k) /\ UserRules(d, k)' = UserRules(d, k)
    BY <1>1 DEF NewData, UserRules, KOp, Op
  <2> QED
    BY <1>1, <1>2, <2>1 DEF EffectInv, UserInv, Rule
<1>5. HeldInv(d)' /\ AbortInv(d)'
  BY <1>1, HeldKeeps, AbortKeeps DEF EffectInv
<1>6. PICK q \in Call : q = cl[d].call
  BY UsedIds DEF Local
<1>7. PICK g \in Nat : g = q.rr.given
  BY <1>6 DEF Call, RulesType
<1>8. cl[d].pc \in CallLabels => q.key \in Key
  BY <1>6, ClientFacts DEF Fit, CallLabels
<1>9. MaskingInv(d)'
  <2> SUFFICES ASSUME cl[d].pc = "mask"
               PROVE  /\ Store!Holds(Rule(d, q.key), q.body.data, Seen(d, q.key))
                      /\ IF q.rr.exists THEN q.body.data = NoData
                         ELSE q.rr.doesntExist /\ q.rr.gtGiven /\ UpToDate(q, q.body.data)'
    BY <1>1, <1>2, <1>6 DEF MaskingInv, UpToDate, Rule, Seen
  <2>1. /\ Store!Holds(Rule(d, q.key), q.body.data, Seen(d, q.key))
        /\ IF q.rr.exists THEN q.body.data = NoData
           ELSE q.rr.doesntExist /\ q.rr.gtGiven /\ UpToDate(q, q.body.data)
    BY <1>6 DEF EffectInv, MaskingInv
  <2>2. ASSUME ~q.rr.exists PROVE UpToDate(q, q.body.data)'
    <3>1. Guarded(q, NoTx)
      BY <1>6, MoverFacts DEF CallInv
    <3>2. g <= obj[q.key].ver
      BY <1>7, <2>2, <3>1 DEF Guarded
    <3>3. q.key \in Key
      BY <1>8 DEF CallLabels
    <3>4. obj'[q.key] = obj[q.key] \/ ~(Exists(obj'[q.key]) /\ obj'[q.key].ver = g)
      BY <1>1, <1>7, <3>2, <3>3, UpToDateStays
    <3> QED
      BY <1>7, <2>1, <2>2, <3>4 DEF UpToDate, Exists
  <2> QED
    BY <2>1, <2>2
<1>10. UnmaskingInv(d)'
  <2> SUFFICES ASSUME cl[d].pc = "unmask"
               PROVE  /\ ~q.rr.exists
                      /\ (Exists(obj'[q.key]) /\ obj'[q.key].ver = q.rr.given) =>
                           q.body = Plain(obj'[q.key].body.data)
                      /\ q.body # NoBody =>
                           IF MayExpire THEN Filled(q.key)'
                           ELSE Exists(obj'[q.key]) /\ obj'[q.key].body.tx = cl[d].job.tx
    BY <1>1, <1>6 DEF UnmaskingInv, Filled, MaskedBy, Exists
  <2>1. /\ ~q.rr.exists
        /\ (Exists(obj[q.key]) /\ obj[q.key].ver = q.rr.given) =>
             q.body = Plain(obj[q.key].body.data)
        /\ q.body # NoBody =>
             IF MayExpire THEN Filled(q.key) ELSE MaskedBy(q.key, cl[d].job.tx)
    BY <1>6 DEF EffectInv, UnmaskingInv
  <2>2. q.key \in Key
    BY <1>8 DEF CallLabels
  <2>3. (Exists(obj'[q.key]) /\ obj'[q.key].ver = q.rr.given) =>
          q.body = Plain(obj'[q.key].body.data)
    <3>1. Guarded(q, cl[d].job.tx)
      BY <1>6, MoverFacts DEF CallInv
    <3>2. g <= obj[q.key].ver
      BY <1>7, <2>1, <3>1 DEF Guarded
    <3>3. obj'[q.key] = obj[q.key] \/ ~(Exists(obj'[q.key]) /\ obj'[q.key].ver = g)
      BY <1>1, <1>7, <2>2, <3>2, UpToDateStays
    <3> QED
      BY <1>7, <2>1, <3>3 DEF Exists
  <2>4. ASSUME q.body # NoBody, MayExpire PROVE Filled(q.key)'
    <3>1. Filled(q.key) /\ NoDeletes
      BY <2>1, <2>4
    <3>2. \A k \in Key : Filled(k) => Filled(k)'
      BY <1>1, <3>1, FilledStays
    <3>3. \A k \in Key : Filled(k)' <=> Exists(obj'[k]) /\ obj'[k].body.data # NoData
      BY DEF Filled, Exists
    <3> QED
      BY <2>2, <3>1, <3>2, <3>3 DEF Filled, Exists
  <2>5. ASSUME q.body # NoBody, ~MayExpire
        PROVE  Exists(obj'[q.key]) /\ obj'[q.key].body.tx = cl[d].job.tx
    <3>1. MaskedBy(q.key, cl[d].job.tx)
      BY <2>1, <2>5
    <3>2. Ending(d) /\ cl[d].job.then # "ok"
      BY <2>5, UnmaskerFacts DEF EffectInv, PatientInv, Cleaning, Ending
    <3>3. cl[d].job.tx = cl[d].tx
      BY <3>2, EndedUncoordinated
    <3>4. obj'[q.key] = obj[q.key]
      BY <1>1, <2>2, <2>5, <3>1, <3>2, <3>3, OwnMaskStays DEF EffectInv
    <3> QED
      BY <3>1, <3>4 DEF MaskedBy, Exists
  <2> QED
    BY <2>1, <2>3, <2>4, <2>5
<1> QED
  BY <1>3, <1>4, <1>5, <1>9, <1>10 DEF EffectInv

-----------------------------------------------------------------------------
(* The client that moves: what its step is for the store, and what holds of *)
(* it afterwards.                                                           *)

Moved(c) == EffectInv(c)' /\ StoreStep

LEMMA EndMoved ==
  ASSUME TypeOK, NEW c \in Client, NEW r, End(c, r), Alone(c), UNCHANGED known,
         todo[c] # <<>>, SameData
  PROVE  Moved(c)
BY EndFails, EndEffect DEF Moved

LEMMA GoOnMoved ==
  ASSUME TypeOK, MaskProtocol, NEW c \in Client, EffectInv(c), StepOf(c), NEW s, GoOn(c, s),
         s.tx = cl[c].tx, s.pc \notin CallLabels, s.pc \notin {"idle", "crashed"},
         cl[c].pc \notin {"idle", "crashed", "direct"},
         cl[c].pc = "mask" => UNCHANGED obj,
         \A t \in TxId : (t = cl[c].tx /\ s.job.then \notin {"retry", "ok"}) =>
                            tobj'[t].body # "MiniTransaction",
         ~MayExpire => s.pc # "writeTombstone" /\ (s.pc = "unmaskRead" => s.job.then # "retry"),
         SameData, s.job.then = "ok" <=> cl[c].job.then = "ok",
         s.job.then = "ok" => s.mver = cl[c].mver
  PROVE  Moved(c)
<1>1. EffectInv(c)'
  BY GoOnEffect
<1>2. StoreStep
  BY GoOnStutters DEF StepOf
<1> QED
  BY <1>1, <1>2 DEF Moved

LEMMA RereadMoved ==
  ASSUME TypeOK, MaskProtocol, NEW c \in Client, EffectInv(c), StepOf(c), Reread(c, cl[c]),
         cl[c].pc \notin {"idle", "crashed", "direct"}, ~Ending(c),
         cl[c].pc = "mask" => UNCHANGED obj, SameData
  PROVE  Moved(c)
<1>1. PICK s : s = [cl[c] EXCEPT !.pc = "read", !.call = NoCall, !.job = NoJob]
  OBVIOUS
<1>2. GoOn(c, s) /\ cl[c] \in Local
  BY <1>1, UsedIds DEF Reread
<1>3. s.pc = "read" /\ s.job.then = "retry" /\ s.tx = cl[c].tx
  BY <1>1, <1>2 DEF NoJob, Local
<1>4. cl[c].job.then # "ok" /\ s.pc \notin CallLabels
  BY <1>3 DEF Ending, CallLabels
<1> QED
  BY <1>2, <1>3, <1>4, GoOnMoved

LEMMA RaiseMoved ==
  ASSUME TypeOK, MaskProtocol, NEW c \in Client, EffectInv(c), StepOf(c),
         NEW e \in Endings \ {"ok"}, Raise(c, e),
         cl[c].pc \notin {"idle", "crashed", "writeT"}, UNCHANGED <<obj, tobj>>
  PROVE  Moved(c)
<1> DEFINE masking == IsCommit(c) /\ cl[c].job.then = "retry"
           out == IF masking /\ e \in RejectErrors THEN "TransactionRejected" ELSE e
<1>1. Fit(c, cl[c]) /\ todo[c] # <<>> /\ cl[c] \in Local /\ Alone(c)
  BY ClientFacts DEF StepOf
<1>2. SameData
  BY <1>1, SameStore
<1>3. CASE masking /\ Masked(c) # {}
  <2>1. PICK s : s = [cl[c] EXCEPT !.pc = "unmaskRead", !.call = NoCall,
                        !.job = [NoJob EXCEPT !.tx = cl[c].tx, !.keys = Masked(c),
                                              !.then = out]]
    OBVIOUS
  <2>2. GoOn(c, s)
    BY <1>3, <2>1 DEF Raise
  <2>3. s.pc = "unmaskRead" /\ s.tx = cl[c].tx /\ s.job.then = out
    BY <1>1, <2>1 DEF Local, NoJob
  <2>4. out \notin {"retry", "ok"}
    BY DEF Endings, Documented
  <2> HIDE DEF out
  <2>5. cl[c].tx # NoTx /\ Masking(c) /\ cl[c].pc # "direct"
    <3>1. cl[c].tx # NoTx
      BY <1>1, <1>3, UsedIds DEF Fit
    <3> QED
      BY <1>3, <3>1 DEF Masking, EffectInv, UserInv, IsCommit
  <2>6. tobj'[cl[c].tx].body # "MiniTransaction"
    BY <2>5, MoverFacts DEF MaskInv
  <2>7. s.pc \notin CallLabels /\ cl[c].job.then # "ok"
    BY <1>3, <2>3 DEF CallLabels
  <2> QED
    BY <1>2, <2>2, <2>3, <2>4, <2>5, <2>6, <2>7, GoOnMoved
<1>4. CASE ~(masking /\ Masked(c) # {})
  <2>1. End(c, out) /\ UNCHANGED known
    BY <1>4 DEF Raise
  <2> QED
    BY <1>1, <1>2, <2>1, EndMoved
<1> QED
  BY <1>3, <1>4

LEMMA PrepareMoved ==
  ASSUME TypeOK, MaskProtocol, NEW c \in Client, EffectInv(c), StepOf(c),
         NEW l \in {"mask", "user", "unmask", "apply"}, NEW k, NEW rr, NEW b,
         Prepare(c, l, k, rr, b), UNCHANGED <<obj, tobj>>,
         cl[c].pc \in {"read", "unmaskRead", "applyRead"},
         l = "unmask" => cl[c].pc = "unmaskRead",
         l = "user" =>
           /\ Op(c).type \in {"write", "delete"} /\ KeysOf(c) = {k}
           /\ b = IF Op(c).type = "delete" THEN NoBody ELSE Packed(NoTx, NewData(c, k))
           /\ Rule(c, k) = "exist" => rr.doesntExist,
         l = "mask" =>
           /\ Store!Holds(Rule(c, k), b.data, Seen(c, k))
           /\ IF rr.exists THEN b.data = NoData
              ELSE /\ rr.doesntExist /\ rr.gtGiven
                   /\ (Exists(obj[k]) /\ obj[k].ver = rr.given) => obj[k].body.data = b.data,
         l = "unmask" =>
           /\ ~rr.exists
           /\ (Exists(obj[k]) /\ obj[k].ver = rr.given) => b = Plain(obj[k].body.data)
           /\ b # NoBody => IF MayExpire THEN Filled(k) ELSE MaskedBy(k, cl[c].job.tx),
         l = "apply" => rr.doesntExist
  PROVE  Moved(c)
<1>1. PICK q : q = [key |-> k, rr |-> rr, body |-> b]
  OBVIOUS
<1>2. PICK s : s = [cl[c] EXCEPT !.pc = l, !.call = q]
  OBVIOUS
<1>3. GoOn(c, s) /\ cl[c] \in Local
  BY <1>1, <1>2, UsedIds DEF Prepare
<1>4. /\ s.pc = l /\ s.call = q /\ s.tx = cl[c].tx /\ s.job = cl[c].job
      /\ s.mver = cl[c].mver
  BY <1>2, <1>3 DEF Local
<1>5. cl'[c] = s /\ todo'[c] = todo[c] /\ known'[c] = known[c]
  BY <1>3 DEF GoOn, Become, TypeOK
<1>6. Op(c)' = Op(c) /\ KeysOf(c)' = KeysOf(c) /\ \A j : KOp(c, j)' = KOp(c, j)
  BY <1>5, OpStays
<1>7. q.key = k /\ q.rr = rr /\ q.body = b
  BY <1>1
<1>8. PatientInv(c)'
  BY <1>4, <1>5 DEF EffectInv, PatientInv, Cleaning
<1>9. LoopInv(c)'
  BY <1>4, <1>5, <1>6 DEF EffectInv, LoopInv, Rule
<1>10. UserInv(c)'
  <2>1. \A j : NewData(c, j)' = NewData(c, j)
    BY <1>5 DEF NewData, KOp, Op
  <2> QED
    BY <1>4, <1>5, <1>6, <1>7, <2>1 DEF UserInv, Rule
<1>11. MaskingInv(c)'
  BY <1>4, <1>5, <1>6, <1>7 DEF MaskingInv, UpToDate, Rule, Seen
<1>12. UnmaskingInv(c)'
  BY <1>4, <1>5, <1>7 DEF UnmaskingInv, Filled, MaskedBy
<1>13. ApplyingInv(c)'
  BY <1>4, <1>5, <1>7 DEF ApplyingInv
<1>14. HeldInv(c)' /\ AbortInv(c)'
  <2>1. HeldInv(c)'
    BY <1>4, <1>5, HeldKeeps DEF EffectInv, StepOf
  <2>2. AbortInv(c)'
    BY <1>4, <1>5, AbortKeeps DEF EffectInv
  <2> QED
    BY <2>1, <2>2
<1>15. StoreStep
  <2>1. Alone(c) /\ SameData
    BY SameStore DEF StepOf
  <2> QED
    BY <1>3, <1>4, <2>1, GoOnStutters
<1> QED
  BY <1>8, <1>9, <1>10, <1>11, <1>12, <1>13, <1>14, <1>15 DEF Moved, EffectInv

-----------------------------------------------------------------------------
(* Beginning, reading, and calls for the user.                              *)

LEMMA BeginMoved ==
  ASSUME TypeOK, MaskProtocol, NEW c \in Client, StepOf(c), Begin(c) PROVE Moved(c)
<1>1. /\ cl[c].pc = "idle" /\ todo[c] # <<>> /\ KeysOf(c) \subseteq Key /\ KeysOf(c) # {}
      /\ UNCHANGED <<obj, tobj>> /\ Alone(c) /\ ~Ending(c)
  <2>1. cl[c].pc = "idle" /\ todo[c] # <<>> /\ UNCHANGED <<obj, tobj>>
    BY DEF Begin, At
  <2> QED
    BY <2>1, OpFacts, MoverFacts DEF StepOf
<1>2. ASSUME NEW s, GoOn(c, s), s.job = NoJob, s.pc \in {"read", "direct"},
             s.tx = NoTx \/ s.tx \in TxId \ used
      PROVE  /\ StoreStep /\ cl'[c] = s /\ todo'[c] = todo[c] /\ known'[c] = known[c]
             /\ (LoopInv(c)' /\ UserInv(c)') => Moved(c)
  <2>1. cl'[c] = s /\ todo'[c] = todo[c] /\ known'[c] = known[c]
    BY <1>2 DEF GoOn, Become, TypeOK
  <2>2. s.job.then = "retry" /\ cl[c].job.then = "retry"
    BY <1>1, <1>2 DEF NoJob, Ending
  <2>3. SameData
    BY <1>1, SameStore
  <2>4. StoreStep
    BY <1>1, <1>2, <2>2, <2>3, GoOnStutters
  <2>5. HeldInv(c)'
    <3>1. \A k \in Key : s.tx # NoTx => ~MaskedBy(k, s.tx)
      BY <1>2, UsedIds DEF MaskedBy, Exists, Object
    <3>2. KeysOf(c)' \subseteq Key
      BY <1>1, <2>1, OpStays
    <3> QED
      BY <1>1, <2>1, <3>1, <3>2 DEF HeldInv, MaskedBy, Exists
  <2>6. PatientInv(c)' /\ MaskingInv(c)' /\ UnmaskingInv(c)' /\ ApplyingInv(c)' /\ AbortInv(c)'
    BY <1>2, <2>1, <2>2
       DEF PatientInv, Cleaning, MaskingInv, UnmaskingInv, ApplyingInv, AbortInv
  <2> QED
    BY <2>1, <2>4, <2>5, <2>6 DEF EffectInv, Moved
<1>3. CASE BeginCommit(c)
  <2>1. PICK t \in TxId \ used :
             GoOn(c, [Idle EXCEPT !.pc = "read", !.tx = t, !.left = KeysOf(c)])
    BY <1>3 DEF BeginCommit, NewTxId
  <2>2. PICK s : s = [Idle EXCEPT !.pc = "read", !.tx = t, !.left = KeysOf(c)]
    OBVIOUS
  <2>3. s.pc = "read" /\ s.tx = t /\ s.job = NoJob /\ GoOn(c, s)
    BY <2>1, <2>2 DEF Idle
  <2>4. cl'[c] = s /\ todo'[c] = todo[c] /\ ((LoopInv(c)' /\ UserInv(c)') => Moved(c))
    BY <1>2, <2>3
  <2>5. LoopInv(c)' /\ UserInv(c)'
    <3>1. Op(c)'.type = "commit"
      BY <1>3, <2>4, OpStays DEF BeginCommit, IsCommit
    <3> QED
      BY <2>3, <2>4, <3>1 DEF LoopInv, UserInv
  <2> QED
    BY <2>4, <2>5
<1>4. CASE BeginSingle(c)
  <2>1. PICK k : k = Least(KeysOf(c))
    OBVIOUS
  <2>2. KeysOf(c) = {k} /\ k \in Key /\ Op(c).type \in {"read", "write", "delete"}
        /\ ~IsCommit(c)
    <3>1. ~IsCommit(c)
      BY <1>4 DEF BeginSingle
    <3>2. k \in KeysOf(c)
      BY <1>1, <2>1, LeastIn, KeyAssumption
    <3> QED
      BY <1>1, <3>1, <3>2, SingleFacts
  <2>3. PICK rr \in RulesType : rr = UserRules(c, k)
    BY <1>1, <2>2, NewDataType
  <2>4. KOp(c, k).rule \in {"any", "exist", "absent", "same", "notnewer"}
    BY <1>1, <2>2, OpFacts DEF KeyOp
  <2>5. PICK b : b = IF Op(c).type = "delete" THEN NoBody ELSE Packed(NoTx, NewData(c, k))
    OBVIOUS
  <2>6. CASE Op(c).type # "read" /\ (rr.exists \/ rr.gtGiven)
    <3>1. PICK q : q = [key |-> k, rr |-> rr, body |-> b]
      OBVIOUS
    <3>2. PICK s : s = [Idle EXCEPT !.left = {k}, !.pc = "direct", !.call = q]
      OBVIOUS
    <3>3. GoOn(c, s)
      <4>1. GoOn(c, [[Idle EXCEPT !.left = {k}] EXCEPT !.pc = "direct", !.call = q])
        BY <1>4, <2>1, <2>3, <2>5, <2>6, <3>1 DEF BeginSingle
      <4>2. s = [[Idle EXCEPT !.left = {k}] EXCEPT !.pc = "direct", !.call = q]
        BY <3>2 DEF Idle
      <4> QED
        BY <4>1, <4>2
    <3>4. s.pc = "direct" /\ s.tx = NoTx /\ s.job = NoJob /\ s.call = q
      BY <3>2 DEF Idle
    <3>5. cl'[c] = s /\ todo'[c] = todo[c] /\ known'[c] = known[c]
          /\ ((LoopInv(c)' /\ UserInv(c)') => Moved(c))
      BY <1>2, <3>3, <3>4
    <3>6. Op(c)' = Op(c) /\ KeysOf(c)' = KeysOf(c) /\ NewData(c, k)' = NewData(c, k)
          /\ UserRules(c, k)' = UserRules(c, k)
      BY <3>5 DEF Op, KeysOf, KOp, NewData, UserRules
    <3>7. UserInv(c)'
      <4>1. q.key = k /\ q.rr = rr /\ q.body = b
        BY <3>1
      <4>2. \A j : j = k => NewData(c, j)' = NewData(c, j) /\ UserRules(c, j)' = UserRules(c, j)
        BY <3>6
      <4> QED
        BY <2>2, <2>3, <2>5, <2>6, <3>4, <3>5, <3>6, <4>1, <4>2 DEF UserInv
    <3>8. LoopInv(c)'
      BY <3>4, <3>5 DEF LoopInv
    <3> QED
      BY <3>5, <3>7, <3>8
  <2>7. CASE ~(Op(c).type # "read" /\ (rr.exists \/ rr.gtGiven))
    <3>1. PICK s : s = [Idle EXCEPT !.left = {k}, !.pc = "read"]
      OBVIOUS
    <3>2. GoOn(c, s)
      <4>1. GoOn(c, [[Idle EXCEPT !.left = {k}] EXCEPT !.pc = "read"])
        BY <1>4, <2>1, <2>3, <2>7 DEF BeginSingle
      <4>2. s = [[Idle EXCEPT !.left = {k}] EXCEPT !.pc = "read"]
        BY <3>1 DEF Idle
      <4> QED
        BY <4>1, <4>2
    <3>3. s.pc = "read" /\ s.tx = NoTx /\ s.job = NoJob
      BY <3>1 DEF Idle
    <3>4. cl'[c] = s /\ todo'[c] = todo[c]
          /\ ((LoopInv(c)' /\ UserInv(c)') => Moved(c))
      BY <1>2, <3>2, <3>3
    <3>5. Op(c)' = Op(c) /\ KeysOf(c)' = KeysOf(c) /\ (\A j : KOp(c, j)' = KOp(c, j))
      BY <3>4, OpStays
    <3>6. Op(c).type # "read" => KOp(c, k).rule \in {"any", "exist"}
      BY <2>3, <2>4, <2>7 DEF UserRules, RejectRules
    <3>7. LoopInv(c)' /\ UserInv(c)'
      BY <2>2, <3>3, <3>4, <3>5, <3>6 DEF LoopInv, UserInv, Rule
    <3> QED
      BY <3>4, <3>7
  <2> QED
    BY <2>6, <2>7
<1>5. CASE BeginFails(c)
  <2>1. SameData
    BY <1>1, SameStore
  <2> QED
    BY <1>1, <1>5, <2>1, EndMoved DEF BeginFails
<1> QED
  BY <1>3, <1>4, <1>5 DEF Begin

(* The rule of the user holds for an object that the server accepts, and    *)
(* for none.                                                                *)
LEMMA RuleOfObject ==
  ASSUME TypeOK, MaskProtocol, NEW c \in Client, todo[c] # <<>>,
         NEW k \in KeysOf(c), k \in Key, Exists(obj[k]), obj[k].body.tx = NoTx,
         ~UserRules(c, k).exists,
         UserRules(c, k).gtGiven => obj[k].ver <= UserRules(c, k).given
  PROVE  /\ Store!Holds(Rule(c, k), obj[k].body.data, Seen(c, k))
         /\ Logical(k) = obj[k].body.data
<1>1. Rule(c, k) \in {"any", "exist", "absent", "same", "notnewer"}
  BY OpFacts DEF KeyOp, Rule
<1>2. obj[k].body.data # NoData /\ KnownInv(c, k)
  BY MoverFacts DEF ObjectInv
<1>3. PICK v \in Nat : v = obj[k].ver
  BY DEF TypeOK, StoreOK
<1>4. PICK w \in Nat : w = known[c][k].ver
  BY DEF TypeOK
<1>5. ASSUME Rule(c, k) \in {"same", "notnewer"} PROVE obj[k].body.data = Seen(c, k)
  <2>1. v <= w
    BY <1>3, <1>4, <1>5 DEF UserRules, RejectRules, Rule
  <2>2. v = w
    BY <1>2, <1>3, <1>4, <2>1 DEF KnownInv
  <2> QED
    BY <1>2, <1>3, <1>4, <2>2 DEF KnownInv, Packed, Seen
<1>6. Rule(c, k) # "absent"
  BY DEF UserRules, RejectRules, Rule
<1>7. Logical(k) = obj[k].body.data
  BY DEF Logical
<1> QED
  BY <1>1, <1>2, <1>5, <1>6, <1>7 DEF Store!Holds

LEMMA RuleOfNothing ==
  ASSUME TypeOK, NEW c \in Client, todo[c] # <<>>, NEW k \in KeysOf(c),
         ~UserRules(c, k).doesntExist
  PROVE  Store!Holds(Rule(c, k), NoData, Seen(c, k))
<1>1. Rule(c, k) \in {"any", "exist", "absent", "same", "notnewer"}
  BY OpFacts DEF KeyOp, Rule
<1>2. Rule(c, k) \notin {"exist", "same"}
  BY DEF UserRules, RejectRules, Rule
<1> QED
  BY <1>1, <1>2 DEF Store!Holds

LEMMA NothingThere ==
  ASSUME NEW k \in Key, ~Exists(obj[k]) PROVE Logical(k) = NoData
BY DEF Logical

(* A read or a delete that ends without changing an object.                 *)
LEMMA LearnMoved ==
  ASSUME TypeOK, MaskProtocol, NEW c \in Client, StepOf(c), cl[c].pc = "read",
         ~IsCommit(c), NEW k \in KeysOf(c), NEW r, NEW v, NEW x,
         Learn(c, k, v, x), End(c, r), UNCHANGED <<obj, tobj>>,
         Logical(k) = x, Op(c).type = "delete" => x = NoData,
         Op(c).type \in {"read", "delete"},
         Store!Holds(Rule(c, k), x, Seen(c, k)) \/ (Op(c).type = "read" /\ x = NoData)
  PROVE  Moved(c)
<1>1. todo[c] # <<>> /\ k \in Key /\ ~Ending(c) /\ Alone(c)
  BY ClientFacts, MoverFacts DEF StepOf
<1>2. KeysOf(c) = {k} /\ cl[c].job.then # "ok"
  BY <1>1, SingleFacts DEF Ending
<1>3. \A j \in Key : Logical(j)' = Logical(j)
  BY <1>1, SameStore DEF SameData
<1>4. x = Outcome(c, k) /\ Logical(k)' = x
  BY <1>1, <1>3 DEF Outcome
<1>5. StoreStep
  BY <1>1, <1>2, <1>3, <1>4, EndPerforms
<1> QED
  BY <1>5, EndEffect DEF Moved

LEMMA GotMoved ==
  ASSUME TypeOK, MaskProtocol, NEW c \in Client, EffectInv(c), StepOf(c), cl[c].pc = "read",
         NEW k \in Key, k = Cur(c), Exists(obj[k]), obj[k].body.tx = NoTx,
         ~UserRules(c, k).exists,
         UserRules(c, k).gtGiven => obj[k].ver <= UserRules(c, k).given,
         Got(c, k, obj[k]), UNCHANGED <<obj, tobj>>
  PROVE  Moved(c)
<1>1. todo[c] # <<>> /\ k \in KeysOf(c) /\ cl[c].left # {}
  BY ClientFacts DEF Fit
<1>2. PICK o \in [ver : Nat, body : Object] : o = obj[k]
  BY UsedIds DEF Exists
<1>3. PICK d \in Data : d = o.body.data
  BY <1>2 DEF Object
<1>4. Store!Holds(Rule(c, k), d, Seen(c, k)) /\ Logical(k) = d
  BY <1>1, <1>2, <1>3, RuleOfObject
<1>5. CASE Op(c).type = "read"
  <2>1. Learn(c, k, o.ver, d) /\ End(c, "ok") /\ ~IsCommit(c)
    BY <1>2, <1>3, <1>5 DEF Got, IsCommit
  <2> QED
    BY <1>1, <1>4, <1>5, <2>1, LearnMoved
<1>6. CASE IsCommit(c)
  <2>1. PICK b : b = Packed(cl[c].tx, d)
    OBVIOUS
  <2>2. PICK r : r = Exactly(o.ver)
    OBVIOUS
  <2>3. Prepare(c, "mask", k, r, b)
    BY <1>2, <1>3, <1>6, <2>1, <2>2 DEF Got, IsCommit
  <2>4. b.data = d /\ r.doesntExist /\ r.gtGiven /\ r.exists = FALSE
    BY <2>1, <2>2 DEF Packed, Exactly, RejectRules
  <2>5. /\ Store!Holds(Rule(c, k), b.data, Seen(c, k))
        /\ IF r.exists THEN b.data = NoData
           ELSE /\ r.doesntExist /\ r.gtGiven
                /\ (Exists(obj[k]) /\ obj[k].ver = r.given) => obj[k].body.data = b.data
    BY <1>2, <1>3, <1>4, <2>4
  <2> QED
    BY <2>3, <2>5, PrepareMoved
<1>7. CASE Op(c).type \in {"write", "delete"}
  <2>1. KeysOf(c) = {k} /\ Rule(c, k) \in {"any", "exist"}
    BY <1>1, <1>7, SingleFacts DEF EffectInv, LoopInv, IsCommit
  <2>2. UserRules(c, k).doesntExist <=> Rule(c, k) = "exist"
    BY <2>1 DEF UserRules, RejectRules, Rule
  <2>3. PICK b : b = IF Op(c).type = "delete" THEN NoBody ELSE Packed(NoTx, NewData(c, k))
    OBVIOUS
  <2>4. PICK r : /\ Prepare(c, "user", k, r, b)
                 /\ Rule(c, k) = "exist" => r.doesntExist
    <3>1. CASE Op(c).type = "write"
      <4>1. PICK r : r = IF UserRules(c, k).doesntExist THEN Exactly(o.ver) ELSE NotNewerThan(o.ver)
        OBVIOUS
      <4>2. Prepare(c, "user", k, r, b)
        BY <1>2, <2>3, <3>1, <4>1 DEF Got, IsCommit
      <4>3. Rule(c, k) = "exist" => r.doesntExist
        BY <2>2, <4>1 DEF Exactly, RejectRules
      <4> QED
        BY <4>2, <4>3
    <3>2. CASE Op(c).type = "delete"
      <4>1. PICK r : r = RejectRules(UserRules(c, k).doesntExist, FALSE, TRUE, o.ver)
        OBVIOUS
      <4>2. Prepare(c, "user", k, r, b)
        BY <1>2, <2>3, <3>2, <4>1 DEF Got, IsCommit
      <4>3. Rule(c, k) = "exist" => r.doesntExist
        BY <2>2, <4>1 DEF RejectRules
      <4> QED
        BY <4>2, <4>3
    <3> QED
      BY <1>7, <3>1, <3>2
  <2> QED
    BY <1>7, <2>1, <2>3, <2>4, PrepareMoved
<1> QED
  BY <1>1, <1>5, <1>6, <1>7, OpFacts, ScriptAssumption DEF IsCommit

LEMMA MissingMoved ==
  ASSUME TypeOK, MaskProtocol, NEW c \in Client, EffectInv(c), StepOf(c), cl[c].pc = "read",
         NEW k \in Key, k = Cur(c), ~Exists(obj[k]), Missing(c, k), UNCHANGED <<obj, tobj>>
  PROVE  Moved(c)
<1>1. todo[c] # <<>> /\ k \in KeysOf(c) /\ cl[c].left # {}
  BY ClientFacts DEF Fit
<1>2. Logical(k) = NoData
  BY NothingThere
<1>3. ~UserRules(c, k).doesntExist => Store!Holds(Rule(c, k), NoData, Seen(c, k))
  BY <1>1, RuleOfNothing
<1>4. UserRules(c, k).doesntExist \in BOOLEAN
  BY <1>1, NewDataType DEF RulesType
<1>5. PICK r : r = MustNotExist
  OBVIOUS
<1>6. CASE Op(c).type = "read"
  <2>1. Learn(c, k, 0, NoData) /\ End(c, "NoObjectError") /\ ~IsCommit(c)
    BY <1>6 DEF Missing, IsCommit
  <2> QED
    BY <1>1, <1>2, <1>6, <2>1, LearnMoved
<1>7. CASE Op(c).type # "read" /\ UserRules(c, k).doesntExist
  <2>1. Raise(c, "NoObjectError")
    BY <1>7 DEF Missing
  <2> QED
    BY <2>1, RaiseMoved DEF Endings, Documented
<1>8. CASE IsCommit(c) /\ ~UserRules(c, k).doesntExist
  <2>1. PICK b : b = Packed(cl[c].tx, NoData)
    OBVIOUS
  <2>2. Prepare(c, "mask", k, r, b)
    BY <1>5, <1>8, <2>1 DEF Missing, IsCommit
  <2>3. b.data = NoData /\ r.exists
    BY <1>5, <2>1 DEF Packed, MustNotExist, RejectRules
  <2> QED
    BY <1>3, <1>8, <2>2, <2>3, PrepareMoved
<1>9. CASE Op(c).type = "write" /\ ~UserRules(c, k).doesntExist
  <2>1. Prepare(c, "user", k, r, Packed(NoTx, NewData(c, k)))
    BY <1>5, <1>9 DEF Missing, IsCommit
  <2>2. KeysOf(c) = {k} /\ Rule(c, k) # "exist"
    BY <1>1, <1>9, SingleFacts DEF IsCommit, UserRules, RejectRules, Rule
  <2>3. PICK b : b = Packed(NoTx, NewData(c, k))
    OBVIOUS
  <2> QED
    BY <1>9, <2>1, <2>2, <2>3, PrepareMoved
<1>10. CASE Op(c).type = "delete" /\ ~UserRules(c, k).doesntExist
  <2>1. Learn(c, k, 0, NoData) /\ End(c, "ok") /\ ~IsCommit(c)
    BY <1>10 DEF Missing, IsCommit
  <2> QED
    BY <1>1, <1>2, <1>3, <1>10, <2>1, LearnMoved
<1>11. Op(c).type \in {"read", "write", "delete", "commit"}
  BY <1>1, OpFacts, ScriptAssumption
<1> QED
  BY <1>4, <1>6, <1>7, <1>8, <1>9, <1>10, <1>11 DEF IsCommit

LEMMA ReadObjectMoved ==
  ASSUME TypeOK, MaskProtocol, NEW c \in Client, EffectInv(c), StepOf(c), ReadObject(c)
  PROVE  Moved(c)
<1>1. cl[c].pc = "read" /\ UNCHANGED <<obj, tobj>>
  BY DEF ReadObject, At
<1>2. PICK k \in Key : k = Cur(c) /\ k \in KeysOf(c)
  BY <1>1, ClientFacts DEF Fit
<1>3. cl[c] \in Local /\ todo[c] # <<>> /\ ~Ending(c) /\ Alone(c)
  BY <1>1, ClientFacts, MoverFacts DEF StepOf
<1>4. PICK rr \in RulesType : rr = UserRules(c, k)
  BY <1>2, <1>3, NewDataType
<1>5. PICK o \in [ver : Nat, body : {NoBody} \cup Object] : o = obj[k]
  BY UsedIds
<1>6. PICK ro \in RulesType : ro = [rr EXCEPT !.doesntExist = TRUE, !.exists = FALSE]
  BY <1>4 DEF RulesType
<1>7. PICK st : st = Err(Status(ro, o))
  OBVIOUS
<1>8. (st # "ok" => st \in Endings) /\ (st = "ok" <=> Status(ro, o) = "ok")
  BY <1>7, StatusRange
<1>9. /\ st = "ok" /\ IsMasked(o.body) =>
           GoOn(c, [cl[c] EXCEPT !.pc = "readT",
                      !.job = [NoJob EXCEPT !.tx = o.body.tx, !.keys = {k}]])
      /\ st = "ok" /\ ~IsMasked(o.body) =>
           (rr.exists /\ Raise(c, "ObjectExistsError")) \/ (~rr.exists /\ Got(c, k, o))
      /\ st = "NoObjectError" => Missing(c, k)
      /\ st \notin {"ok", "NoObjectError"} => Raise(c, st)
  BY <1>2, <1>4, <1>5, <1>6, <1>7 DEF ReadObject
<1>10. ro.doesntExist /\ ~ro.exists /\ ro.gtGiven = rr.gtGiven /\ ro.given = rr.given
  BY <1>4, <1>6 DEF RulesType
<1>11. st = "ok" => Exists(o) /\ (rr.gtGiven => o.ver <= rr.given)
  <2>1. o.ver \in Nat /\ rr.given \in Nat
    BY <1>4, <1>5 DEF RulesType
  <2> QED
    BY <1>8, <1>10, <2>1 DEF Status
<1>12. st = "NoObjectError" => ~Exists(o)
  BY <1>7 DEF Err, Status
<1>13. CASE st = "ok" /\ IsMasked(o.body)
  <2>1. PICK s : s = [cl[c] EXCEPT !.pc = "readT",
                        !.job = [NoJob EXCEPT !.tx = o.body.tx, !.keys = {k}]]
    OBVIOUS
  <2>2. GoOn(c, s) /\ s.pc = "readT" /\ s.tx = cl[c].tx /\ s.job.then = "retry"
    BY <1>3, <1>9, <1>13, <2>1 DEF NoJob, Local
  <2>3. s.pc \notin CallLabels /\ cl[c].job.then # "ok" /\ SameData
    BY <1>1, <1>3, <2>2, SameStore DEF CallLabels, Ending
  <2> QED
    BY <1>1, <2>2, <2>3, GoOnMoved
<1>14. CASE st = "ok" /\ ~IsMasked(o.body)
  <2>1. CASE rr.exists /\ Raise(c, "ObjectExistsError")
    BY <1>1, <2>1, RaiseMoved DEF Endings, Documented
  <2>2. CASE ~rr.exists /\ Got(c, k, o)
    BY <1>1, <1>2, <1>4, <1>5, <1>11, <1>14, <2>2, GotMoved DEF IsMasked
  <2> QED
    BY <1>9, <1>14, <2>1, <2>2
<1>15. CASE st = "NoObjectError"
  BY <1>1, <1>2, <1>5, <1>9, <1>12, <1>15, MissingMoved
<1>16. CASE st \notin {"ok", "NoObjectError"}
  BY <1>1, <1>8, <1>9, <1>16, RaiseMoved
<1> QED
  BY <1>13, <1>14, <1>15, <1>16

(* The call of a write or a delete takes effect for the user.               *)
LEMMA EndCallMoved ==
  ASSUME TypeOK, MaskProtocol, NEW c \in Client, EffectInv(c), StepOf(c),
         cl[c].pc \in {"user", "direct"}, SendCall(c), CallStatus(c) = "ok", EndCall(c),
         UNCHANGED tobj
  PROVE  Moved(c)
<1>1. PICK q \in Call : q = cl[c].call
  BY UsedIds DEF Local
<1>2. PICK k \in Key : k = q.key
  BY <1>1, SentCall DEF CallLabels
<1>3. /\ todo[c] # <<>> /\ ~Ending(c) /\ Alone(c) /\ CallInv(c)
      /\ obj' = [obj EXCEPT ![k] = Changed(@, q.body)]
  BY <1>1, <1>2, ClientFacts, MoverFacts DEF StepOf, SendCall
<1>4. /\ Op(c).type \in {"write", "delete"} /\ KeysOf(c) = {k}
      /\ q.body = IF Op(c).type = "delete" THEN NoBody ELSE Packed(NoTx, NewData(c, k))
      /\ cl[c].pc = "direct" => q.rr = UserRules(c, k)
      /\ cl[c].pc = "user" =>
           /\ Rule(c, k) \in {"any", "exist"}
           /\ Rule(c, k) = "exist" => q.rr.doesntExist
  BY <1>1, <1>2, <1>3 DEF EffectInv, UserInv, LoopInv
<1>5. PICK x \in Data : x = Outcome(c, k)
  BY <1>3, <1>4, NewDataType DEF Outcome, Data
<1>6. q.body = Plain(x) /\ (q.body # NoBody => q.body = Packed(NoTx, x) /\ q.body.data = x)
      /\ (q.body = NoBody => x = NoData)
  <2>1. CASE Op(c).type = "delete"
    BY <1>4, <1>5, <2>1 DEF Outcome, Plain
  <2>2. CASE Op(c).type = "write"
    <3>1. x = NewData(c, k) /\ x \in Value
      BY <1>3, <1>4, <1>5, <2>2, NewDataType DEF Outcome
    <3>2. x # NoData /\ q.body = Packed(NoTx, x)
      BY <1>4, <2>2, <3>1, NullAssumption
    <3> QED
      BY <1>5, <3>2, PlainBody
  <2> QED
    BY <1>4, <2>1, <2>2
<1>7. Store!Holds(Rule(c, k), Logical(k), Seen(c, k))
  <2>1. Guarded(q, NoTx) /\ q.rr \in RulesType
    BY <1>1, <1>3 DEF CallInv, Call
  <2>2. ~(q.rr.exists /\ Exists(obj[k])) /\ ~(q.rr.doesntExist /\ ~Exists(obj[k]))
    BY <1>1, <1>2 DEF CallStatus, Status
  <2>3. CASE Exists(obj[k])
    <3>1. /\ ~q.rr.exists /\ obj[k].ver = q.rr.given /\ obj[k].body.tx = NoTx
      BY <1>1, <1>2, <2>1, <2>3, AcceptedVersion
    <3>2. q.rr.given <= q.rr.given
      BY <2>1 DEF RulesType
    <3>3. CASE cl[c].pc = "direct"
      BY <1>3, <1>4, <2>3, <3>1, <3>2, <3>3, RuleOfObject
    <3>4. CASE cl[c].pc = "user"
      <4>1. Logical(k) # NoData
        BY <2>3, <3>1, MoverFacts DEF Logical, ObjectInv
      <4> QED
        BY <1>4, <3>4, <4>1 DEF Store!Holds
    <3> QED
      BY <3>3, <3>4
  <2>4. CASE ~Exists(obj[k])
    <3>1. ~q.rr.doesntExist /\ Logical(k) = NoData
      BY <2>2, <2>4, NothingThere
    <3>2. CASE cl[c].pc = "direct"
      BY <1>3, <1>4, <3>1, <3>2, RuleOfNothing
    <3>3. CASE cl[c].pc = "user"
      BY <1>4, <3>1, <3>3 DEF Store!Holds
    <3> QED
      BY <3>2, <3>3
  <2> QED
    BY <2>3, <2>4
<1>8. Logical(k)' = x
  <2>1. obj'[k] = Changed(obj[k], q.body)
    BY <1>3 DEF TypeOK, StoreOK
  <2>2. CASE q.body = NoBody
    <3>1. ~Exists(obj'[k])
      BY <2>1, <2>2 DEF Changed, Deleted, Exists, TypeOK, StoreOK
    <3> QED
      BY <1>6, <2>2, <3>1 DEF Logical, Exists
  <2>3. CASE q.body # NoBody
    <3>1. obj'[k].body = Packed(NoTx, x) /\ Exists(obj'[k])
      BY <1>6, <2>1, <2>3 DEF Changed, Written, Exists
    <3> QED
      BY <3>1 DEF Logical, Exists, Packed
  <2> QED
    BY <2>2, <2>3
<1>9. \A j \in Key \ {k} : Logical(j)' = Logical(j)
  <2>1. \A j \in Key \ {k} : obj'[j] = obj[j]
    BY <1>3 DEF TypeOK, StoreOK
  <2> QED
    BY <1>3, <2>1, LogicalStays
<1>10. \E v : Learn(c, k, v, x)
  BY <1>1, <1>2, <1>6 DEF EndCall
<1>11. End(c, "ok")
  BY DEF EndCall
<1>12. StoreStep
  BY <1>3, <1>4, <1>5, <1>7, <1>8, <1>9, <1>10, <1>11, EndPerforms DEF IsCommit, Ending
<1> QED
  BY <1>11, <1>12, EndEffect DEF Moved

LEMMA UserCallMoved ==
  ASSUME TypeOK, MaskProtocol, NEW c \in Client, EffectInv(c), StepOf(c),
         UserCall(c) \/ DirectCall(c)
  PROVE  Moved(c)
<1>1. cl[c].pc \in {"user", "direct"} /\ SendCall(c) /\ UNCHANGED tobj
  BY DEF UserCall, DirectCall, At
<1>2. PICK st : st = Err(CallStatus(c))
  OBVIOUS
<1>3. (st # "ok" => st \in Endings /\ UNCHANGED obj) /\ (st = "ok" <=> CallStatus(c) = "ok")
  BY <1>1, <1>2, StatusRange DEF CallStatus, SendCall
<1>4. /\ st = "ok" => EndCall(c)
      /\ st # "ok" => (cl[c].pc = "user" /\ Reread(c, cl[c])) \/ Raise(c, st)
  BY <1>2, StatusRange DEF UserCall, DirectCall, Caught, At, CallStatus
<1>5. CASE st = "ok"
  BY <1>1, <1>3, <1>4, <1>5, EndCallMoved
<1>6. CASE cl[c].pc = "user" /\ Reread(c, cl[c]) /\ UNCHANGED obj
  <2>1. ~Ending(c) /\ SameData
    BY <1>1, <1>6, MoverFacts, SameStore DEF StepOf
  <2> QED
    BY <1>6, <2>1, RereadMoved
<1>7. CASE st # "ok" /\ Raise(c, st) /\ UNCHANGED obj
  BY <1>1, <1>3, <1>7, RaiseMoved
<1> QED
  BY <1>3, <1>4, <1>5, <1>6, <1>7

-----------------------------------------------------------------------------
(* Meeting the mask of another transaction, and putting down one's own.     *)

LEMMA ReadTMoved ==
  ASSUME TypeOK, MaskProtocol, StoreInv, NEW c \in Client, EffectInv(c), StepOf(c), ReadT(c)
  PROVE  Moved(c)
<1>1. cl[c].pc = "readT" /\ UNCHANGED <<obj, tobj>>
  BY DEF ReadT, At
<1>2. cl[c] \in Local /\ cl[c].job \in Job /\ cl[c].job.then = "retry" /\ cl[c].job.tx \in TxId
  BY <1>1, ClientFacts, UsedIds DEF Fit, Local, JobLabels
<1>3. PICK t \in TxId : t = cl[c].job.tx
  BY <1>2
<1>4. SameData /\ ~Ending(c)
  BY <1>1, <1>2, SameStore DEF StepOf, Ending
<1>5. ASSUME NEW s, GoOn(c, s), s.tx = cl[c].tx, s.job.then = "retry",
             s.pc = "applyRead" \/ (s.pc = "unmaskRead" /\ MayExpire)
      PROVE  Moved(c)
  BY <1>1, <1>2, <1>4, <1>5, GoOnMoved DEF CallLabels
<1>6. tobj[t].body \in {NoBody, "MiniTransaction", "Tombstone"}
  BY DEF TypeOK, StoreOK
<1>7. CASE Verdict(tobj[t].body) = "unmask" /\ GoOn(c, [cl[c] EXCEPT !.pc = "unmaskRead"])
  <2>1. MayExpire
    BY <1>6, <1>7, BodyAssumption DEF Verdict, Verdicts, StoreInv
  <2>2. PICK s : s = [cl[c] EXCEPT !.pc = "unmaskRead"]
    OBVIOUS
  <2>3. s.pc = "unmaskRead" /\ s.tx = cl[c].tx /\ s.job.then = "retry"
    BY <1>2, <2>2 DEF Local
  <2> QED
    BY <1>5, <1>7, <2>1, <2>2, <2>3
<1>8. CASE GoOn(c, [cl[c] EXCEPT !.pc = "applyRead",
                      !.job.keys = DOMAIN intent[t], !.job.ver = tobj[t].ver])
  <2>1. PICK s : s = [cl[c] EXCEPT !.pc = "applyRead",
                        !.job.keys = DOMAIN intent[t], !.job.ver = tobj[t].ver]
    OBVIOUS
  <2>2. s.pc = "applyRead" /\ s.tx = cl[c].tx /\ s.job.then = "retry"
    BY <1>2, <2>1 DEF Local, Job
  <2> QED
    BY <1>5, <1>8, <2>1, <2>2
<1>9. CASE Reread(c, cl[c])
  BY <1>1, <1>4, <1>9, RereadMoved
<1> QED
  BY <1>3, <1>7, <1>8, <1>9 DEF ReadT

LEMMA TombstoneMoved ==
  ASSUME TypeOK, MaskProtocol, NEW c \in Client, EffectInv(c), StepOf(c),
         Expire(c) \/ WriteTombstone(c)
  PROVE  Moved(c)
<1>1. cl[c].pc \in {"readT", "writeTombstone"} /\ UNCHANGED obj
  BY DEF Expire, WriteTombstone, At
<1>2. MayExpire
  BY DEF Expire, WriteTombstone, At, EffectInv, PatientInv
<1>3. cl[c] \in Local /\ cl[c].job.then = "retry" /\ ~Ending(c)
  BY <1>1, ClientFacts DEF Fit, Ending
<1>4. SameData
  BY <1>1, SealsChange
<1>5. ASSUME NEW l \in {"writeTombstone", "unmaskRead"}, GoOn(c, [cl[c] EXCEPT !.pc = l])
      PROVE  Moved(c)
  <2>1. PICK s : s = [cl[c] EXCEPT !.pc = l]
    OBVIOUS
  <2>2. s.pc = l /\ s.tx = cl[c].tx /\ s.job.then = "retry"
    BY <1>3, <2>1 DEF Local
  <2>3. GoOn(c, s)
    BY <1>5, <2>1
  <2> QED
    BY <1>1, <1>2, <1>3, <1>4, <2>2, <2>3, GoOnMoved DEF CallLabels
<1>6. CASE Reread(c, cl[c])
  BY <1>1, <1>3, <1>4, <1>6, RereadMoved
<1> QED
  BY <1>5, <1>6 DEF Expire, WriteTombstone

(* A mask hides no data.                                                    *)
LEMMA MaskedMoved ==
  ASSUME TypeOK, MaskProtocol, NEW c \in Client, EffectInv(c), StepOf(c), cl[c].pc = "mask",
         SendCall(c), CallStatus(c) = "ok", NEW s, GoOn(c, s), s.pc \in {"read", "writeT"},
         s.tx = cl[c].tx, s.job.then = "retry", UNCHANGED tobj
  PROVE  Moved(c)
<1>1. /\ ~Ending(c) /\ IsCommit(c) /\ cl[c].tx \in used /\ KeysOf(c) \subseteq Key
      /\ cl[c].call.key \in Key
  BY ClientFacts, MoverFacts DEF Fit, CallLabels
<1>2. PICK t \in TxId : t = cl[c].tx
  BY <1>1, UsedIds
<1>3. PICK q \in Call : q = cl[c].call
  BY UsedIds DEF Local
<1>4. PICK k \in Key : k = q.key
  BY <1>1, <1>3
<1>5. q.body # NoBody /\ q.body.tx = t /\ Guarded(q, NoTx) /\ t # NoTx
  BY <1>2, <1>3, MoverFacts, UsedIds DEF CallInv
<1>6. obj' = [obj EXCEPT ![k] = Written(@, q.body)]
  BY <1>3, <1>4, <1>5 DEF SendCall, Changed
<1>7. obj'[k].body = q.body /\ \A j \in Key : j # k => obj'[j] = obj[j]
  BY <1>6 DEF TypeOK, StoreOK, Written
<1>8. /\ Store!Holds(Rule(c, k), q.body.data, Seen(c, k))
      /\ IF q.rr.exists THEN q.body.data = NoData
         ELSE q.rr.doesntExist /\ q.rr.gtGiven /\ UpToDate(q, q.body.data)
  BY <1>3, <1>4 DEF EffectInv, MaskingInv
<1>9. Logical(k) = q.body.data
  <2>1. CASE Exists(obj[k])
    <3>1. ~q.rr.exists /\ obj[k].ver = q.rr.given /\ obj[k].body.tx = NoTx
      BY <1>3, <1>4, <1>5, <2>1, AcceptedVersion
    <3> QED
      BY <1>4, <1>8, <2>1, <3>1 DEF UpToDate, Logical
  <2>2. CASE ~Exists(obj[k])
    <3>1. ~q.rr.doesntExist
      BY <1>3, <1>4, <2>2 DEF CallStatus, Status
    <3> QED
      BY <1>8, <2>2, <3>1, NothingThere
  <2> QED
    BY <2>1, <2>2
<1>10. Logical(k)' = q.body.data
  <2>1. tobj'[t].body # "MiniTransaction"
    BY <1>1, <1>2, <1>5, MoverFacts DEF MaskInv, Masking, Ending
  <2> QED
    BY <1>5, <1>7, <2>1 DEF Logical, Exists
<1>11. SameData
  <2>1. \A j \in Key : j # k => Logical(j)' = Logical(j)
    BY <1>7, LogicalStays DEF StepOf
  <2> QED
    BY <1>9, <1>10, <2>1 DEF SameData
<1>12. StoreStep
  <2>1. cl[c].job.then # "ok" /\ Alone(c)
    BY <1>1 DEF Ending, StepOf
  <2> QED
    BY <1>11, <2>1, GoOnStutters
<1>13. cl'[c] = s /\ todo'[c] = todo[c] /\ known'[c] = known[c]
  BY DEF GoOn, Become, TypeOK
<1>14. Op(c)' = Op(c) /\ KeysOf(c)' = KeysOf(c) /\ \A j : KOp(c, j)' = KOp(c, j)
  BY <1>13, OpStays
<1>15. HeldInv(c)'
  <2> SUFFICES ASSUME NEW j \in KeysOf(c), Exists(obj'[j]), obj'[j].body.tx = t
               PROVE  Store!Holds(Rule(c, j), obj'[j].body.data, Seen(c, j))
    BY <1>2, <1>13, <1>14 DEF HeldInv, MaskedBy, Exists, Rule, Seen
  <2>1. CASE j = k
    BY <1>7, <1>8, <2>1
  <2>2. CASE j # k
    <3>1. j \in Key /\ obj'[j] = obj[j]
      BY <1>1, <1>7, <2>2
    <3>2. MaskedBy(j, t)
      BY <3>1 DEF MaskedBy, Exists
    <3> QED
      BY <1>2, <1>5, <3>1, <3>2 DEF EffectInv, HeldInv
  <2> QED
    BY <2>1, <2>2
<1>16. LoopInv(c)' /\ PatientInv(c)' /\ AbortInv(c)'
  BY <1>1, <1>13, <1>14 DEF LoopInv, PatientInv, Cleaning, AbortInv, IsCommit
<1> QED
  BY <1>12, <1>13, <1>15, <1>16
     DEF Moved, EffectInv, UserInv, MaskingInv, UnmaskingInv, ApplyingInv

LEMMA MaskMoved ==
  ASSUME TypeOK, MaskProtocol, NEW c \in Client, EffectInv(c), StepOf(c), Mask(c)
  PROVE  Moved(c)
<1>1. cl[c].pc = "mask" /\ SendCall(c) /\ UNCHANGED tobj
  BY DEF Mask, At
<1>2. PICK st : st = Err(CallStatus(c))
  OBVIOUS
<1>3. (st # "ok" => st \in Endings /\ UNCHANGED obj) /\ (st = "ok" <=> CallStatus(c) = "ok")
  BY <1>1, <1>2, StatusRange DEF CallStatus, SendCall
<1>4. ~Ending(c) /\ cl[c] \in Local /\ cl[c].job.then = "retry"
  BY <1>1, MoverFacts, ClientFacts DEF Ending
<1>5. CASE st = "ok"
  <2>1. PICK k : k = cl[c].call.key
    OBVIOUS
  <2>2. PICK r : r = [cl[c] EXCEPT !.left = cl[c].left \ {k},
                        !.mver[k] = [ver |-> obj'[k].ver, data |-> cl[c].call.body.data]]
    OBVIOUS
  <2>3. r.tx = cl[c].tx /\ r.job = cl[c].job
    BY <1>4, <2>2 DEF Local
  <2>4. PICK s : /\ s.pc \in {"read", "writeT"} /\ GoOn(c, s)
                 /\ s.tx = cl[c].tx /\ s.job.then = "retry"
    <3>1. CASE Reread(c, r)
      <4>1. PICK s : s = [r EXCEPT !.pc = "read", !.call = NoCall, !.job = NoJob]
        OBVIOUS
      <4>2. s.pc = "read" /\ s.tx = cl[c].tx /\ s.job.then = "retry"
        BY <1>4, <2>2, <2>3, <4>1 DEF NoJob, Local
      <4> QED
        BY <3>1, <4>1, <4>2 DEF Reread
    <3>2. CASE GoOn(c, [r EXCEPT !.pc = "writeT", !.call = NoCall])
      <4>1. PICK s : s = [r EXCEPT !.pc = "writeT", !.call = NoCall]
        OBVIOUS
      <4>2. s.pc = "writeT" /\ s.tx = cl[c].tx /\ s.job.then = "retry"
        BY <1>4, <2>2, <2>3, <4>1 DEF Local
      <4> QED
        BY <3>2, <4>1, <4>2
    <3>3. Reread(c, r) \/ GoOn(c, [r EXCEPT !.pc = "writeT", !.call = NoCall])
      BY <1>2, <1>5, <2>1, <2>2 DEF Mask, RejectErrors
    <3> QED
      BY <3>1, <3>2, <3>3
  <2> QED
    BY <1>1, <1>3, <1>5, <2>4, MaskedMoved
<1>6. CASE st # "ok" /\ Reread(c, cl[c])
  <2>1. SameData /\ UNCHANGED obj
    BY <1>1, <1>3, <1>6, SameStore DEF StepOf
  <2> QED
    BY <1>1, <1>4, <1>6, <2>1, RereadMoved
<1>7. CASE st # "ok" /\ Raise(c, st)
  BY <1>1, <1>3, <1>7, RaiseMoved
<1>8. st # "ok" => Reread(c, cl[c]) \/ Raise(c, st)
  BY <1>2 DEF Mask
<1> QED
  BY <1>5, <1>6, <1>7, <1>8

-----------------------------------------------------------------------------
(* Taking masks off.                                                        *)

LEMMA UnmaskedMoved ==
  ASSUME TypeOK, MaskProtocol, NEW c \in Client, EffectInv(c), StepOf(c),
         cl[c].pc \in {"unmaskRead", "unmask"}, UNCHANGED tobj, SameData,
         NEW k \in Key, Unmasked(c, k)
  PROVE  Moved(c)
<1>1. /\ cl[c] \in Local /\ cl[c].job \in Job /\ cl[c].job.then # "ok" /\ todo[c] # <<>>
      /\ Alone(c)
  BY UnmaskerFacts, ClientFacts DEF StepOf
<1>2. PICK ks : ks = Rest(c, k)
  OBVIOUS
<1>3. \A l : [[cl[c] EXCEPT !.job.keys = ks, !.call = NoCall] EXCEPT !.pc = l] =
               [cl[c] EXCEPT !.job.keys = ks, !.call = NoCall, !.pc = l]
  BY <1>1 DEF Local
<1>4. \/ GoOn(c, [cl[c] EXCEPT !.job.keys = ks, !.call = NoCall, !.pc = "unmaskRead"])
      \/ cl[c].job.then = "retry" /\ Reread(c, cl[c])
      \/ /\ cl[c].job.then # "retry"
         /\ GoOn(c, [cl[c] EXCEPT !.job.keys = ks, !.call = NoCall, !.pc = "deleteTombstone"])
      \/ End(c, cl[c].job.then) /\ UNCHANGED known
  BY <1>2, <1>3 DEF Unmasked
<1>5. ASSUME NEW l \in {"unmaskRead", "deleteTombstone"},
             GoOn(c, [cl[c] EXCEPT !.job.keys = ks, !.call = NoCall, !.pc = l])
      PROVE  Moved(c)
  <2>1. PICK s : s = [cl[c] EXCEPT !.job.keys = ks, !.call = NoCall, !.pc = l]
    OBVIOUS
  <2>2. s.pc = l /\ s.tx = cl[c].tx /\ s.job.then = cl[c].job.then /\ GoOn(c, s)
    BY <1>1, <1>5, <2>1 DEF Local, Job
  <2>3. \A t \in TxId : (t = cl[c].tx /\ s.job.then \notin {"retry", "ok"}) =>
                           tobj'[t].body # "MiniTransaction"
    BY <2>2, UsedIds DEF EffectInv, AbortInv
  <2>4. ~MayExpire => s.pc # "writeTombstone" /\ (s.pc = "unmaskRead" => s.job.then # "retry")
    BY <2>2 DEF EffectInv, PatientInv, Cleaning
  <2> QED
    BY <1>1, <2>2, <2>3, <2>4, GoOnMoved DEF CallLabels
<1>6. CASE cl[c].job.then = "retry" /\ Reread(c, cl[c])
  BY <1>6, RereadMoved DEF Ending
<1>7. CASE End(c, cl[c].job.then) /\ UNCHANGED known
  BY <1>1, <1>7, EndMoved
<1> QED
  BY <1>4, <1>5, <1>6, <1>7

LEMMA UnmaskReadMoved ==
  ASSUME TypeOK, MaskProtocol, NEW c \in Client, EffectInv(c), StepOf(c), UnmaskRead(c)
  PROVE  Moved(c)
<1>1. cl[c].pc = "unmaskRead" /\ UNCHANGED <<obj, tobj>>
  BY DEF UnmaskRead, At
<1>2. PICK t \in TxId : t = cl[c].job.tx
  BY <1>1, UnmaskerFacts
<1>3. PICK k \in Candidates(c) :
        IF MaskedBy(k, t)
          THEN Prepare(c, "unmask", k, NotNewerThan(obj[k].ver), Plain(obj[k].body.data))
          ELSE Unmasked(c, k)
  BY <1>2 DEF UnmaskRead
<1>4. k \in Key
  <2>1. cl[c].job.keys \subseteq Key /\ cl[c].job.keys # {} /\ cl[c].job.keys \subseteq Nat
    BY <1>1, UnmaskerFacts, KeyAssumption DEF Fit
  <2> QED
    BY <2>1, LeastIn DEF Candidates
<1>5. CASE MaskedBy(k, t)
  <2>1. PICK r, b : r = NotNewerThan(obj[k].ver) /\ b = Plain(obj[k].body.data)
    OBVIOUS
  <2>2. Prepare(c, "unmask", k, r, b)
    BY <1>3, <1>5, <2>1
  <2>3. r.exists = FALSE
    BY <2>1 DEF NotNewerThan, RejectRules
  <2>4. b # NoBody => IF MayExpire THEN Filled(k) ELSE MaskedBy(k, cl[c].job.tx)
    BY <1>2, <1>5, <2>1 DEF Plain, Filled, MaskedBy
  <2> QED
    BY <1>1, <2>1, <2>2, <2>3, <2>4, PrepareMoved
<1>6. CASE ~MaskedBy(k, t)
  <2>1. SameData
    BY <1>1, SameStore DEF StepOf
  <2> QED
    BY <1>1, <1>3, <1>4, <1>6, <2>1, UnmaskedMoved
<1> QED
  BY <1>5, <1>6

(* The data under a key after it was written without a mask, or deleted.    *)
LEMMA PlainData ==
  ASSUME TypeOK, NEW k \in Key, NEW x \in Data, obj'[k] = Changed(obj[k], Plain(x))
  PROVE  Logical(k)' = x
<1>1. CASE x = NoData
  <2>1. obj'[k].body = NoBody
    BY <1>1 DEF Plain, Changed, Deleted, TypeOK, StoreOK
  <2> QED
    BY <1>1, <2>1 DEF Logical, Exists
<1>2. CASE x # NoData
  <2>1. obj'[k].body = Packed(NoTx, x) /\ Packed(NoTx, x) # NoBody
    BY <1>2, PlainBody DEF Changed, Written
  <2> QED
    BY <2>1 DEF Logical, Exists, Packed
<1> QED
  BY <1>1, <1>2

(* Whoever takes off a mask knows that its transaction did not commit.      *)
LEMMA UnmaskedAborted ==
  ASSUME TypeOK, MaskProtocol, NEW c \in Client, AbortInv(c), cl[c].pc = "unmask",
         CallStatus(c) = "ok", NEW k \in Key, k = cl[c].call.key, Exists(obj[k]),
         NEW t \in TxId, t = cl[c].job.tx
  PROVE  obj[k].ver = cl[c].call.rr.given /\ MaskedBy(k, t) /\ tobj[t].body # "MiniTransaction"
<1>1. PICK q \in Call : q = cl[c].call
  BY UsedIds DEF Local
<1>2. Guarded(q, t)
  BY <1>1, MoverFacts DEF CallInv
<1>3. obj[k].ver = q.rr.given /\ obj[k].body.tx = t /\ MaskedBy(k, t) /\ t # NoTx
  BY <1>1, <1>2, AcceptedVersion, UsedIds DEF MaskedBy
<1>4. tobj[t].body # "MiniTransaction"
  <2>1. CASE Ending(c)
    BY <2>1, UnmaskerFacts, EndedUncoordinated, UsedIds DEF AbortInv, Ending
  <2>2. CASE ~Ending(c)
    <3>1. tobj[t].body = "Tombstone" \/ Gone(t)
      BY <2>2, MoverFacts DEF RemoveInv, Cleaning, Ending
    <3> QED
      BY <1>3, <3>1 DEF Gone, NoMask
  <2> QED
    BY <2>1, <2>2
<1> QED
  BY <1>1, <1>3, <1>4

LEMMA UnmaskedData ==
  ASSUME TypeOK, MaskProtocol, NEW c \in Client, EffectInv(c), StepOf(c), cl[c].pc = "unmask",
         SendCall(c), CallStatus(c) = "ok", UNCHANGED tobj
  PROVE  SameData
<1>1. PICK q \in Call : q = cl[c].call
  BY UsedIds DEF Local
<1>2. PICK k \in Key : k = q.key
  BY <1>1, SentCall DEF CallLabels
<1>3. PICK t \in TxId : t = cl[c].job.tx
  BY UnmaskerFacts
<1>4. obj' = [obj EXCEPT ![k] = Changed(@, q.body)]
  BY <1>1, <1>2 DEF SendCall
<1>5. obj'[k] = Changed(obj[k], q.body) /\ \A j \in Key : j # k => obj'[j] = obj[j]
  BY <1>4 DEF TypeOK, StoreOK
<1>6. Logical(k)' = Logical(k)
  <2>1. /\ (Exists(obj[k]) /\ obj[k].ver = q.rr.given) => q.body = Plain(obj[k].body.data)
        /\ q.body # NoBody => IF MayExpire THEN Filled(k) ELSE MaskedBy(k, t)
    BY <1>1, <1>2, <1>3 DEF EffectInv, UnmaskingInv
  <2>2. CASE Exists(obj[k])
    <3>1. /\ obj[k].ver = q.rr.given /\ MaskedBy(k, t) /\ obj[k].body.tx = t /\ t # NoTx
          /\ tobj[t].body # "MiniTransaction"
      BY <1>1, <1>2, <1>3, <2>2, UnmaskedAborted, UsedIds DEF EffectInv, MaskedBy
    <3>2. PICK x \in Data : x = obj[k].body.data
      BY <2>2, UsedIds DEF Exists, Object
    <3>3. Logical(k) = x
      BY <2>2, <3>1, <3>2 DEF Logical
    <3>4. obj'[k] = Changed(obj[k], Plain(x))
      BY <1>5, <2>1, <2>2, <3>1, <3>2
    <3> QED
      BY <3>3, <3>4, PlainData
  <2>3. CASE ~Exists(obj[k])
    <3>1. q.body = NoBody
      BY <2>1, <2>3 DEF Filled, MaskedBy
    <3>2. obj'[k].body = NoBody
      BY <1>5, <3>1 DEF Changed, Deleted, TypeOK, StoreOK
    <3> QED
      BY <2>3, <3>2 DEF Logical, Exists
  <2> QED
    BY <2>2, <2>3
<1>7. \A j \in Key : j # k => Logical(j)' = Logical(j)
  BY <1>5, LogicalStays DEF StepOf
<1> QED
  BY <1>6, <1>7 DEF SameData

LEMMA UnmaskMoved ==
  ASSUME TypeOK, MaskProtocol, NEW c \in Client, EffectInv(c), StepOf(c), Unmask(c)
  PROVE  Moved(c)
<1>1. cl[c].pc = "unmask" /\ SendCall(c) /\ UNCHANGED tobj
  BY DEF Unmask, At
<1>2. PICK st : st = Err(CallStatus(c))
  OBVIOUS
<1>3. (st # "ok" => st \in Endings /\ UNCHANGED obj) /\ (st = "ok" <=> CallStatus(c) = "ok")
  BY <1>1, <1>2, StatusRange DEF CallStatus, SendCall
<1>4. CASE st = "ok"
  <2>1. PICK k \in Key : k = cl[c].call.key
    BY <1>1, SentCall DEF CallLabels
  <2>2. Unmasked(c, k) /\ SameData
    BY <1>1, <1>2, <1>3, <1>4, <2>1, UnmaskedData DEF Unmask
  <2> QED
    BY <1>1, <2>2, UnmaskedMoved
<1>5. CASE st = "VersionError"
  <2>1. PICK s : s = [cl[c] EXCEPT !.pc = "unmaskRead"]
    OBVIOUS
  <2>2. GoOn(c, s) /\ cl[c] \in Local
    BY <1>1, <1>2, <1>5, <2>1, UnmaskerFacts DEF Unmask
  <2>3. s.pc = "unmaskRead" /\ s.tx = cl[c].tx /\ s.job.then = cl[c].job.then
    BY <2>1, <2>2 DEF Local
  <2>4. \A t \in TxId : (t = cl[c].tx /\ s.job.then \notin {"retry", "ok"}) =>
                           tobj'[t].body # "MiniTransaction"
    BY <1>1, <2>3, UsedIds DEF EffectInv, AbortInv
  <2>5. ~MayExpire => s.job.then # "retry"
    BY <1>1, <2>3 DEF EffectInv, PatientInv, Cleaning
  <2>6. SameData /\ cl[c].job.then # "ok"
    BY <1>1, <1>3, <1>5, SameStore, UnmaskerFacts DEF StepOf
  <2> QED
    BY <1>1, <2>2, <2>3, <2>4, <2>5, <2>6, GoOnMoved DEF CallLabels
<1>6. CASE st \notin {"ok", "VersionError"}
  <2>1. Raise(c, st)
    BY <1>2, <1>6 DEF Unmask
  <2> QED
    BY <1>1, <1>3, <1>6, <2>1, RaiseMoved
<1> QED
  BY <1>4, <1>5, <1>6

LEMMA DeleteTombstoneMoved ==
  ASSUME TypeOK, MaskProtocol, NEW c \in Client, StepOf(c), DeleteTombstone(c)
  PROVE  Moved(c)
<1>1. /\ cl[c].pc = "deleteTombstone" /\ End(c, cl[c].job.then) /\ UNCHANGED <<obj, known>>
  BY DEF DeleteTombstone, At
<1>2. todo[c] # <<>> /\ SameData /\ Alone(c)
  BY <1>1, ClientFacts, SealsChange DEF StepOf
<1> QED
  BY <1>1, <1>2, EndMoved

-----------------------------------------------------------------------------
(* Committing and applying.                                                 *)

(* T is written: the transaction takes effect on all of its keys at once.   *)
LEMMA CommitMoved ==
  ASSUME TypeOK, MaskProtocol, NEW c \in Client, EffectInv(c), StepOf(c), cl[c].pc = "writeT",
         NEW t \in TxId, t = cl[c].tx, ~Exists(tobj[t]),
         tobj' = [tobj EXCEPT ![t] = Written(@, "MiniTransaction")], UNCHANGED obj, NEW v,
         GoOn(c, [cl[c] EXCEPT !.pc = "applyRead",
                    !.job = [tx |-> t, keys |-> KeysOf(c), ver |-> v, then |-> "ok"]])
  PROVE  Moved(c)
<1>1. /\ cl[c] \in Local /\ ~Ending(c) /\ Masking(c) /\ cl[c].left = {} /\ t \in used
      /\ KeysOf(c) \subseteq Key /\ t # NoTx /\ IsCommit(c) /\ todo[c] # <<>> /\ Alone(c)
      /\ \A k \in Key \ KeysOf(c) : ~MaskedBy(k, t)
  BY CoordinatorFacts, ClientFacts DEF Fit, StepOf
<1>2. PICK s : s = [cl[c] EXCEPT !.pc = "applyRead",
                      !.job = [tx |-> t, keys |-> KeysOf(c), ver |-> v, then |-> "ok"]]
  OBVIOUS
<1>3. s.pc = "applyRead" /\ s.tx = cl[c].tx /\ s.mver = cl[c].mver /\ s.job.then = "ok"
      /\ GoOn(c, s)
  BY <1>1, <1>2 DEF Local
<1>4. EffectInv(c)'
  BY <1>3, GoOnEffect DEF CallLabels
<1>5. cl'[c] = s /\ UNCHANGED <<todo, known>>
  BY <1>3 DEF GoOn, Become, TypeOK
<1>6. tobj'[t].body = "MiniTransaction" /\ (\A u \in TxId : u # t => tobj'[u] = tobj[u])
      /\ tobj[t].body # "MiniTransaction"
  BY BodyAssumption DEF TypeOK, StoreOK, Written, Exists
<1>7. ASSUME NEW k \in KeysOf(c)
      PROVE  /\ k \in Key /\ Store!Holds(Rule(c, k), Logical(k), Seen(c, k))
             /\ Logical(k)' = Store!NewValue(c, k)
  <2>1. MaskedBy(k, t) /\ k \in Key
    BY <1>1, MoverFacts DEF MaskInv, Masked
  <2>2. Exists(obj[k]) /\ obj[k].body.tx = t
    BY <2>1 DEF MaskedBy
  <2>3. Logical(k) = obj[k].body.data
    BY <1>6, <2>2 DEF Logical
  <2>4. Store!Holds(Rule(c, k), obj[k].body.data, Seen(c, k))
    BY <1>1, <2>1 DEF EffectInv, HeldInv
  <2>5. intent'[t][k] = [kind |-> KOp(c, k).kind, data |-> NewData(c, k)]
    <3>1. intent[t][k] = [kind |-> KOp(c, k).kind, data |-> NewData(c, k)]
      BY <1>1, IntentFacts
    <3> QED
      BY <1>1, <3>1 DEF Alone
  <2>6. Logical(k)' = Result([kind |-> KOp(c, k).kind, data |-> NewData(c, k)], Logical(k))
    <3>1. Logical(k)' = Result(intent'[t][k], obj[k].body.data)
      BY <1>1, <1>6, <2>2 DEF Logical, Exists, Result
    <3> QED
      BY <2>3, <2>5, <3>1
  <2>7. Store!NewValue(c, k) =
          Result([kind |-> KOp(c, k).kind, data |-> NewData(c, k)], Logical(k))
    BY <2>1 DEF Store!NewValue, Store!Op, Op, KOp, Result, NewData
  <2> QED
    BY <2>1, <2>3, <2>4, <2>6, <2>7
<1>8. ASSUME NEW k \in Key \ KeysOf(c) PROVE Logical(k)' = Logical(k)
  BY <1>1, <1>6, LogicalStays
<1>9. Answer(c)' = Store!Told(c)
  <2>1. Returned(c)' = Returned(c)
    BY <1>3, <1>5, ReturnedStays
  <2>2. Answer(c)' = [k \in Key |-> Returned(c)[k].data]
    BY <1>3, <1>5, <2>1 DEF Answer
  <2>3. Store!Op(c) = Op(c) /\ DOMAIN Op(c).ops = KeysOf(c) /\ Op(c).type = "commit"
    BY <1>1 DEF Store!Op, Op, KeysOf, IsCommit
  <2>4. ASSUME NEW k \in KeysOf(c), KOp(c, k).kind = "noop"
        PROVE  Returned(c)[k].data = Logical(k)
    <3>1. MaskedBy(k, t) /\ k \in Key /\ Noop(c, k)
      BY <1>1, <2>4, MoverFacts DEF MaskInv, Masked, Noop
    <3>2. obj[k].body.data = cl[c].mver[k].data
      BY <1>1, <3>1 DEF MaskProtocol, ClientInv, ReturnInv
    <3>3. Logical(k) = obj[k].body.data
      BY <1>6, <3>1 DEF Logical, MaskedBy
    <3>4. Returned(c)[k].data = cl[c].mver[k].data
      BY <2>4, <3>1 DEF Returned
    <3> QED
      BY <3>2, <3>3, <3>4
  <2>5. ASSUME NEW k \in Key PROVE Returned(c)[k].data = Store!Told(c)[k]
    <3>1. CASE k \notin KeysOf(c)
      BY <2>3, <3>1 DEF Store!Told, Returned
    <3>2. CASE k \in KeysOf(c)
      <4>1. KOp(c, k).kind \in {"noop", "write", "delete"}
        BY <1>1, <3>2, OpFacts DEF KeyOp
      <4>2. Store!NewValue(c, k) = CASE KOp(c, k).kind = "noop" -> Logical(k)
                                     [] KOp(c, k).kind = "write" -> NewData(c, k)
                                     [] KOp(c, k).kind = "delete" -> NoData
        BY <2>3 DEF Store!NewValue, KOp, NewData
      <4>3. Store!Told(c)[k] = Store!NewValue(c, k)
        BY <2>3, <3>2 DEF Store!Told
      <4>4. CASE KOp(c, k).kind = "noop"
        BY <2>4, <3>2, <4>2, <4>3, <4>4
      <4>5. CASE KOp(c, k).kind = "write"
        BY <3>2, <4>2, <4>3, <4>5 DEF Returned
      <4>6. CASE KOp(c, k).kind = "delete"
        BY <3>2, <4>2, <4>3, <4>6 DEF Returned
      <4> QED
        BY <4>1, <4>4, <4>5, <4>6
    <3> QED
      BY <3>1, <3>2
  <2> QED
    BY <2>2, <2>5 DEF Store!Told
<1>10. \A d \in Client : Answer(d)' = IF d = c THEN Store!Told(c) ELSE Answer(d)
  BY <1>1, <1>9, AnswersStay
<1>11. Answer(c) = <<>>
  BY <1>1 DEF Answer, Ending
<1>12. \A k \in Key : Logical(k)' = IF k \in KeysOf(c) THEN Store!NewValue(c, k) ELSE Logical(k)
  BY <1>7, <1>8
<1>13. StoreStep
  BY <1>1, <1>5, <1>7, <1>10, <1>11, <1>12, StoreCommits
<1> QED
  BY <1>4, <1>13 DEF Moved

LEMMA WriteTMoved ==
  ASSUME TypeOK, MaskProtocol, NEW c \in Client, EffectInv(c), StepOf(c), WriteT(c)
  PROVE  Moved(c)
<1>1. cl[c].pc = "writeT" /\ UNCHANGED obj
  BY DEF WriteT, At
<1>2. PICK t \in TxId : t = cl[c].tx
  BY <1>1, CoordinatorFacts
<1>3. CASE Accepts(IntentRules, tobj[t])
  <2>1. PICK v : v = tobj'[t].ver
    OBVIOUS
  <2>2. tobj' = [tobj EXCEPT ![t] = Written(@, "MiniTransaction")]
        /\ GoOn(c, [cl[c] EXCEPT !.pc = "applyRead",
                      !.job = [tx |-> t, keys |-> KeysOf(c), ver |-> v, then |-> "ok"]])
    BY <1>2, <1>3, <2>1 DEF WriteT
  <2>3. ~Exists(tobj[t])
    BY <1>3 DEF Accepts, IntentRules, MustNotExist, RejectRules, Status
  <2> QED
    BY <1>1, <1>2, <2>2, <2>3, CommitMoved
<1>4. CASE ~Accepts(IntentRules, tobj[t])
  <2>1. StartUnmasking(c, "TransactionExpired") /\ UNCHANGED tobj
    BY <1>2, <1>4 DEF WriteT
  <2>2. PICK s : s = [cl[c] EXCEPT !.pc = "unmaskRead", !.call = NoCall,
                        !.job = [NoJob EXCEPT !.tx = cl[c].tx, !.keys = KeysOf(c),
                                              !.then = "TransactionExpired"]]
    OBVIOUS
  <2>3. GoOn(c, s)
    BY <2>1, <2>2 DEF StartUnmasking
  <2>4. s.pc = "unmaskRead" /\ s.tx = cl[c].tx /\ s.job.then = "TransactionExpired"
    BY <1>1, <2>2, CoordinatorFacts DEF Local, NoJob
  <2>5. tobj'[t].body # "MiniTransaction" /\ cl[c].job.then # "ok" /\ SameData
    BY <1>1, <1>2, <2>1, CoordinatorFacts, MoverFacts, SameStore DEF MaskInv, Ending, StepOf
  <2> QED
    BY <1>1, <1>2, <2>3, <2>4, <2>5, GoOnMoved DEF CallLabels
<1> QED
  BY <1>3, <1>4

LEMMA AppliedMoved ==
  ASSUME TypeOK, MaskProtocol, NEW c \in Client, EffectInv(c), StepOf(c), Applying(c), SameData,
         NEW k, Applied(c, k)
  PROVE  Moved(c)
<1>1. cl[c].pc \in {"applyRead", "apply", "deleteT"} /\ cl[c] \in Local /\ cl[c].job \in Job
      /\ cl[c].job.then \in {"retry", "ok"}
  BY ApplierFacts DEF Applying
<1>2. PICK l : l \in {"deleteT", "applyRead"} /\ l = IF Rest(c, k) = {} THEN "deleteT" ELSE "applyRead"
  OBVIOUS
<1>3. PICK s : s = [cl[c] EXCEPT !.pc = l, !.job.keys = Rest(c, k), !.call = NoCall]
  OBVIOUS
<1>4. GoOn(c, s)
  BY <1>2, <1>3 DEF Applied
<1>5. s.pc = l /\ s.tx = cl[c].tx /\ s.mver = cl[c].mver /\ s.job.then = cl[c].job.then
  BY <1>1, <1>3 DEF Local, Job
<1> QED
  BY <1>1, <1>2, <1>4, <1>5, GoOnMoved DEF CallLabels

LEMMA ApplyReadMoved ==
  ASSUME TypeOK, MaskProtocol, NEW c \in Client, EffectInv(c), StepOf(c), ApplyRead(c)
  PROVE  Moved(c)
<1>1. cl[c].pc = "applyRead" /\ UNCHANGED <<obj, tobj>> /\ Applying(c)
  BY DEF ApplyRead, At, Applying
<1>2. PICK t \in TxId : t = cl[c].job.tx
  BY <1>1, ApplierFacts
<1>3. PICK k \in cl[c].job.keys :
        IF MaskedBy(k, t)
          THEN Prepare(c, "apply", k, ApplyRules(obj[k].ver),
                       Plain(Result(intent[t][k], obj[k].body.data)))
          ELSE Applied(c, k)
  BY <1>2 DEF ApplyRead
<1>4. CASE MaskedBy(k, t)
  <2>1. PICK r, b : /\ r = ApplyRules(obj[k].ver)
                    /\ b = Plain(Result(intent[t][k], obj[k].body.data))
    OBVIOUS
  <2>2. Prepare(c, "apply", k, r, b)
    BY <1>3, <1>4, <2>1
  <2>3. r.doesntExist
    BY <2>1 DEF ApplyRules, Exactly, RejectRules
  <2> QED
    BY <1>1, <2>2, <2>3, PrepareMoved
<1>5. CASE ~MaskedBy(k, t)
  <2>1. SameData
    BY <1>1, SameStore DEF StepOf
  <2> QED
    BY <1>1, <1>3, <1>5, <2>1, AppliedMoved
<1> QED
  BY <1>4, <1>5

(* Whoever applies a transaction knows that it committed.                   *)
LEMMA AppliedCommitted ==
  ASSUME TypeOK, MaskProtocol, NEW c \in Client, cl[c].pc = "apply",
         SendCall(c), CallStatus(c) = "ok", NEW k \in Key, k = cl[c].call.key, Exists(obj[k])
  PROVE  Logical(k)' = Logical(k)
<1>1. PICK q \in Call : q = cl[c].call
  BY UsedIds DEF Local
<1>2. Applying(c)
  BY DEF Applying
<1>3. PICK t \in TxId : t = cl[c].job.tx
  BY <1>2, ApplierFacts
<1>4. obj' = [obj EXCEPT ![k] = Changed(@, q.body)]
  BY <1>1 DEF SendCall
<1>5. obj'[k] = Changed(obj[k], q.body)
  BY <1>4 DEF TypeOK, StoreOK
<1>6. Guarded(q, t)
  BY <1>1, <1>3, MoverFacts DEF CallInv
<1>7. MaskedBy(k, t) /\ obj[k].body.tx = t /\ t # NoTx
  BY <1>1, <1>6, AcceptedVersion, UsedIds DEF MaskedBy
<1>8. tobj[t].body = "MiniTransaction"
  BY <1>2, <1>3, <1>7, MoverFacts DEF RemoveInv, NoMask
<1>9. PICK d \in Data : d = obj[k].body.data
  BY UsedIds DEF Exists, Object
<1>10. k \in DOMAIN intent[t]
  BY <1>7, MoverFacts DEF ObjectInv
<1>11. PICK i \in [kind : {"noop", "write", "delete"}, data : Data] : i = intent[t][k]
  BY <1>10, IntentType
<1>12. PICK x \in Data : x = Result(i, d)
  BY <1>9, <1>11 DEF Result, Data
<1>13. Logical(k) = x
  BY <1>7, <1>8, <1>9, <1>11, <1>12 DEF Logical
<1>14. q.body = Plain(x)
  BY <1>1, <1>3, <1>7, <1>9, <1>11, <1>12, MoverFacts DEF CallInv
<1> QED
  BY <1>5, <1>13, <1>14, PlainData

LEMMA AppliedData ==
  ASSUME TypeOK, MaskProtocol, NEW c \in Client, EffectInv(c), StepOf(c), cl[c].pc = "apply",
         SendCall(c), CallStatus(c) = "ok", UNCHANGED tobj
  PROVE  SameData
<1>1. PICK k \in Key : k = cl[c].call.key
  BY SentCall DEF CallLabels
<1>2. Exists(obj[k])
  BY <1>1 DEF EffectInv, ApplyingInv, CallStatus, Status
<1>3. Logical(k)' = Logical(k)
  BY <1>1, <1>2, AppliedCommitted
<1>4. obj' = [obj EXCEPT ![k] = Changed(@, cl[c].call.body)]
  BY <1>1 DEF SendCall
<1>5. \A j \in Key : j # k => obj'[j] = obj[j]
  BY <1>4 DEF TypeOK, StoreOK
<1>6. \A j \in Key : j # k => Logical(j)' = Logical(j)
  BY <1>5, LogicalStays DEF StepOf
<1> QED
  BY <1>3, <1>6 DEF SameData

LEMMA ApplyMoved ==
  ASSUME TypeOK, MaskProtocol, NEW c \in Client, EffectInv(c), StepOf(c), Apply(c)
  PROVE  Moved(c)
<1>1. cl[c].pc = "apply" /\ SendCall(c) /\ UNCHANGED tobj /\ Applying(c)
  BY DEF Apply, At, Applying
<1>2. PICK st : st = Err(CallStatus(c))
  OBVIOUS
<1>3. (st # "ok" => st \in Endings /\ UNCHANGED obj) /\ (st = "ok" <=> CallStatus(c) = "ok")
  BY <1>1, <1>2, StatusRange DEF CallStatus, SendCall
<1>4. SameData
  <2>1. CASE st = "ok"
    BY <1>1, <1>3, <2>1, AppliedData
  <2>2. CASE st # "ok"
    BY <1>1, <1>3, <2>2, SameStore DEF StepOf
  <2> QED
    BY <2>1, <2>2
<1>5. CASE Applied(c, cl[c].call.key)
  BY <1>1, <1>4, <1>5, AppliedMoved
<1>6. CASE st # "ok" /\ Raise(c, st)
  BY <1>1, <1>3, <1>6, RaiseMoved
<1>7. Applied(c, cl[c].call.key) \/ (st # "ok" /\ Raise(c, st))
  BY <1>2 DEF Apply
<1> QED
  BY <1>5, <1>6, <1>7

LEMMA DeleteTMoved ==
  ASSUME TypeOK, MaskProtocol, NEW c \in Client, EffectInv(c), StepOf(c), DeleteT(c)
  PROVE  Moved(c)
<1>1. cl[c].pc = "deleteT" /\ UNCHANGED obj /\ Applying(c)
  BY DEF DeleteT, At, Applying
<1>2. PICK st : st = Err(Status(NotNewerThan(cl[c].job.ver), tobj[cl[c].job.tx]))
  OBVIOUS
<1>3. st # "ok" => st \in Endings
  BY <1>2, StatusRange
<1>4. SameData /\ Alone(c) /\ todo[c] # <<>>
  BY <1>1, SealsChange, ClientFacts DEF StepOf
<1>5. \/ cl[c].job.then = "retry" /\ Reread(c, cl[c])
      \/ cl[c].job.then = "ok" /\ known' = [known EXCEPT ![c] = Returned(c)] /\ End(c, "ok")
      \/ \E e \in Endings \ {"ok"} : Raise(c, e) /\ UNCHANGED tobj
  <2>1. cl[c].job.then \in {"retry", "ok"}
    BY <1>1, ApplierFacts
  <2>2. CASE st = "ok"
    BY <1>2, <2>1, <2>2 DEF DeleteT
  <2>3. CASE st # "ok"
    BY <1>2, <1>3, <2>3 DEF DeleteT, Endings
  <2> QED
    BY <2>2, <2>3
<1>6. CASE cl[c].job.then = "retry" /\ Reread(c, cl[c])
  BY <1>1, <1>4, <1>6, RereadMoved DEF Ending
<1>7. CASE cl[c].job.then = "ok" /\ known' = [known EXCEPT ![c] = Returned(c)] /\ End(c, "ok")
  <2>1. \A d \in Client : Answer(d)' = IF d = c THEN <<>> ELSE Answer(d)
    BY <1>4, <1>7, EndAnswers
  <2>2. todo' = [todo EXCEPT ![c] = Tail(@)]
    BY <1>7 DEF End
  <2>3. StoreStep
    BY <1>4, <1>7, <2>1, <2>2, StoreReturns
  <2> QED
    BY <1>7, <2>3, EndEffect DEF Moved
<1>8. CASE \E e \in Endings \ {"ok"} : Raise(c, e) /\ UNCHANGED tobj
  BY <1>1, <1>8, RaiseMoved
<1> QED
  BY <1>5, <1>6, <1>7, <1>8

LEMMA CrashMoved ==
  ASSUME TypeOK, NEW c \in Client, StepOf(c), Crash(c)
  PROVE  Moved(c)
<1>1. /\ cl' = [cl EXCEPT ![c] = [Idle EXCEPT !.pc = "crashed"]]
      /\ todo' = [todo EXCEPT ![c] = <<>>] /\ UNCHANGED <<obj, tobj, known>>
  BY DEF Crash
<1>2. cl'[c].pc = "crashed" /\ cl'[c].tx = NoTx /\ cl'[c].job.then = "retry"
  BY <1>1 DEF TypeOK, Idle, NoJob
<1>3. SameData /\ Alone(c)
  BY <1>1, SameStore DEF StepOf
<1>4. \A d \in Client : Answer(d)' = IF d = c THEN <<>> ELSE Answer(d)
  BY <1>2, <1>3, AnswersStay DEF Answer
<1>5. StoreStep
  BY <1>1, <1>3, <1>4, StoreStops
<1> QED
  BY <1>2, <1>5, EffectEnds DEF Moved

-----------------------------------------------------------------------------
(* Every step keeps the invariant, and is one of the store or none.         *)

LEMMA StepMoved ==
  ASSUME TypeOK, MaskProtocol, StoreInv, NEW c \in Client, EffectInv(c), StepOf(c),
         Step(c) \/ Crash(c)
  PROVE  Moved(c)
<1>1. CASE Begin(c) \/ ReadObject(c) \/ Mask(c) \/ UserCall(c) \/ DirectCall(c)
  BY <1>1, BeginMoved, ReadObjectMoved, MaskMoved, UserCallMoved
<1>2. CASE ReadT(c) \/ Expire(c) \/ WriteTombstone(c)
  BY <1>2, ReadTMoved, TombstoneMoved
<1>3. CASE UnmaskRead(c) \/ Unmask(c) \/ DeleteTombstone(c)
  BY <1>3, UnmaskReadMoved, UnmaskMoved, DeleteTombstoneMoved
<1>4. CASE WriteT(c) \/ ApplyRead(c) \/ Apply(c) \/ DeleteT(c) \/ Crash(c)
  BY <1>4, WriteTMoved, ApplyReadMoved, ApplyMoved, DeleteTMoved, CrashMoved
<1> QED
  BY <1>1, <1>2, <1>3, <1>4 DEF Step

(* A transaction says what it does when it begins.                          *)
LEMMA IntentsBegin ==
  ASSUME NEW c \in Client, Step(c) \/ Crash(c)
  PROVE  \/ UNCHANGED <<used, intent>>
         \/ \E t \in NewTxId : /\ used' = used \cup {t}
                               /\ intent' = [intent EXCEPT ![t] = Intent(c)]
                               /\ todo[c] # <<>>
<1>1. CASE Begin(c)
  BY <1>1 DEF Begin, BeginCommit, BeginSingle, BeginFails
<1>2. CASE ReadObject(c) \/ Mask(c) \/ UserCall(c) \/ DirectCall(c)
  BY <1>2 DEF ReadObject, Mask, UserCall, DirectCall
<1>3. CASE ReadT(c) \/ Expire(c) \/ WriteTombstone(c)
  BY <1>3 DEF ReadT, Expire, WriteTombstone
<1>4. CASE UnmaskRead(c) \/ Unmask(c) \/ DeleteTombstone(c)
  BY <1>4 DEF UnmaskRead, Unmask, DeleteTombstone
<1>5. CASE WriteT(c) \/ ApplyRead(c) \/ Apply(c) \/ DeleteT(c) \/ Crash(c)
  BY <1>5 DEF WriteT, ApplyRead, Apply, DeleteT, Crash
<1> QED
  BY <1>1, <1>2, <1>3, <1>4, <1>5 DEF Step

LEMMA InterruptsStay ==
  ASSUME TypeOK, NEW c \in Client, Step(c) \/ Crash(c)
  PROVE  faults'.interrupt = faults.interrupt
<1>1. CASE Crash(c)
  BY <1>1 DEF Crash, TypeOK
<1>2. CASE Begin(c) \/ ReadObject(c) \/ Mask(c) \/ UserCall(c) \/ DirectCall(c)
  BY <1>2 DEF Begin, ReadObject, Mask, UserCall, DirectCall
<1>3. CASE ReadT(c) \/ Expire(c) \/ WriteTombstone(c)
  BY <1>3 DEF ReadT, Expire, WriteTombstone
<1>4. CASE UnmaskRead(c) \/ Unmask(c) \/ DeleteTombstone(c)
  BY <1>4 DEF UnmaskRead, Unmask, DeleteTombstone
<1>5. CASE WriteT(c) \/ ApplyRead(c) \/ Apply(c) \/ DeleteT(c)
  BY <1>5 DEF WriteT, ApplyRead, Apply, DeleteT
<1> QED
  BY <1>1, <1>2, <1>3, <1>4, <1>5 DEF Step

LEMMA StoreInvStays ==
  ASSUME TypeOK, MaskProtocol, StoreInv, NEW c \in Client, EffectInv(c), StepOf(c),
         Step(c) \/ Crash(c)
  PROVE  StoreInv'
<1>1. ASSUME NoDeletes, NEW t \in used', NEW k \in DOMAIN intent'[t]
      PROVE  /\ intent'[t][k].kind # "delete"
             /\ intent'[t][k].kind = "write" => intent'[t][k].data # NoData
  <2>1. CASE t \in used
    <3>1. intent'[t] = intent[t]
      BY <2>1 DEF StepOf, Alone
    <3> QED
      BY <1>1, <2>1, <3>1 DEF StoreInv
  <2>2. CASE t \notin used
    <3>1. t \in TxId /\ intent' = [intent EXCEPT ![t] = Intent(c)] /\ todo[c] # <<>>
      BY <1>1, <2>2, IntentsBegin DEF NewTxId
    <3>2. intent'[t] = Intent(c)
      BY <3>1 DEF TypeOK, StoreOK
    <3>3. k \in KeysOf(c)
          /\ intent'[t][k] = [kind |-> KOp(c, k).kind, data |-> NewData(c, k)]
      BY <1>1, <3>2 DEF Intent
    <3>4. NewData(c, k) \in Value
      BY <3>1, <3>3, OpFacts, NewDataType
    <3>5. KOp(c, k).kind # "delete"
      BY <1>1, <3>1, <3>3, OpFacts DEF NoDeletes, KOp, KeysOf
    <3> QED
      BY <3>3, <3>4, <3>5, NullAssumption
  <2> QED
    BY <2>1, <2>2
<1>2. ASSUME ~MayExpire, NEW t \in TxId PROVE tobj'[t].body # "Tombstone"
  <2>1. tobj[t].body # "Tombstone" /\ cl[c].pc # "writeTombstone" /\ TStep(c)
    BY <1>2 DEF StoreInv, EffectInv, PatientInv, StepOf
  <2> QED
    BY <2>1, BodyAssumption DEF TStep
<1>3. NoDeletes' <=> NoDeletes
  BY DEF NoDeletes
<1> QED
  BY <1>1, <1>2, <1>3 DEF StoreInv

LEMMA StutterAtomic ==
  ASSUME UNCHANGED vars PROVE (AtomicInv => AtomicInv') /\ StoreStep
<1>1. /\ obj' = obj /\ tobj' = tobj /\ intent' = intent /\ used' = used
      /\ todo' = todo /\ known' = known /\ cl' = cl /\ faults' = faults
  BY DEF vars
<1>2. \A k \in Key : Logical(k)' = Logical(k)
  BY <1>1 DEF Logical, Exists, Result
<1>3. \A d \in Client : Answer(d)' = Answer(d)
  BY <1>1, ReturnedStays DEF Answer
<1>4. StoreStep
  BY <1>1, <1>2, <1>3, StoreStutters DEF SameData
<1>5. ASSUME NEW d \in Client, EffectInv(d) PROVE EffectInv(d)'
  <2>1. Op(d)' = Op(d) /\ KeysOf(d)' = KeysOf(d) /\ \A k : KOp(d, k)' = KOp(d, k)
    BY <1>1 DEF Op, KeysOf, KOp
  <2>2. \A k : NewData(d, k)' = NewData(d, k) /\ UserRules(d, k)' = UserRules(d, k)
    BY <1>1 DEF NewData, UserRules, KOp, Op
  <2>3. PatientInv(d)' /\ LoopInv(d)' /\ ApplyingInv(d)' /\ AbortInv(d)'
    BY <1>1, <1>5, <2>1 DEF EffectInv, PatientInv, Cleaning, LoopInv, Rule, ApplyingInv, AbortInv
  <2>4. UserInv(d)'
    BY <1>1, <1>5, <2>1, <2>2 DEF EffectInv, UserInv, Rule
  <2>5. MaskingInv(d)' /\ HeldInv(d)'
    BY <1>1, <1>5, <2>1
       DEF EffectInv, MaskingInv, HeldInv, UpToDate, MaskedBy, Exists, Rule, Seen
  <2>6. UnmaskingInv(d)'
    BY <1>1, <1>5 DEF EffectInv, UnmaskingInv, Filled, MaskedBy, Exists
  <2> QED
    BY <2>3, <2>4, <2>5, <2>6 DEF EffectInv
<1>6. StoreInv => StoreInv'
  BY <1>1 DEF StoreInv, NoDeletes
<1> QED
  BY <1>1, <1>4, <1>5, <1>6 DEF AtomicInv

LEMMA NextAtomic ==
  ASSUME NoopsNeedObjects, TypeOK, TypeOK', MaskProtocol, AtomicInv, ~MayExpire \/ NoDeletes,
         [Next]_vars
  PROVE  AtomicInv' /\ (faults'.interrupt > 0 \/ StoreStep)
<1>1. CASE UNCHANGED vars
  BY <1>1, StutterAtomic
<1>2. ASSUME NEW c \in Client, Step(c) \/ Crash(c)
      PROVE  AtomicInv' /\ (faults'.interrupt > 0 \/ StoreStep)
  <2>1. faults'.interrupt = faults.interrupt /\ faults.interrupt \in Nat
    BY <1>2, InterruptsStay DEF TypeOK
  <2>2. CASE faults.interrupt = 0
    <3>1. StoreInv /\ \A d \in Client : EffectInv(d)
      BY <2>2 DEF AtomicInv
    <3>2. StepOf(c)
      BY <1>2, StepMoves
    <3>3. Moved(c)
      BY <1>2, <3>1, <3>2, StepMoved
    <3>4. StoreInv'
      BY <1>2, <3>1, <3>2, StoreInvStays
    <3>5. ASSUME NEW d \in Client PROVE EffectInv(d)'
      <4>1. CASE d = c
        BY <3>3, <4>1 DEF Moved
      <4>2. CASE d # c
        BY <3>1, <3>2, <4>2, OthersEffect
      <4> QED
        BY <4>1, <4>2
    <3> QED
      BY <2>1, <3>3, <3>4, <3>5 DEF AtomicInv, Moved
  <2>3. CASE faults.interrupt # 0
    BY <2>1, <2>3 DEF AtomicInv
  <2> QED
    BY <2>2, <2>3
<1>3. ASSUME NEW c \in Client, InterruptWriteT(c)
      PROVE  AtomicInv' /\ faults'.interrupt > 0
  <2>1. faults'.interrupt = faults.interrupt + 1 /\ faults.interrupt \in Nat
        /\ faults.interrupt < MaxInterrupt /\ MaxInterrupt \in Nat
    BY <1>3, BoundAssumption DEF InterruptWriteT, TypeOK
  <2> QED
    BY <2>1 DEF AtomicInv
<1> QED
  BY <1>1, <1>2, <1>3 DEF Next, Finished

LEMMA InitAtomic == Init => AtomicInv /\ Store!Init
<1> SUFFICES ASSUME Init PROVE AtomicInv /\ Store!Init
  OBVIOUS
<1>1. \A c \in Client : cl[c].pc = "idle" /\ cl[c].tx = NoTx /\ cl[c].job.then = "retry"
  BY DEF Init, Idle, NoJob
<1>2. \A c \in Client : EffectInv(c)
  BY <1>1 DEF EffectInv, PatientInv, Cleaning, LoopInv, UserInv, MaskingInv, HeldInv,
              UnmaskingInv, ApplyingInv, AbortInv
<1>3. StoreInv
  BY BodyAssumption DEF Init, StoreInv
<1>4. AtomicInv
  BY <1>2, <1>3, BoundAssumption DEF AtomicInv, Init
<1>5. PICK data \in InitialData :
        obj = [k \in Key |-> IF data[k] = NoData
                              THEN [ver |-> 0, body |-> NoBody]
                              ELSE [ver |-> 1, body |-> Packed(NoTx, data[k])]]
  BY DEF Init
<1>6. data \in [Key -> Data]
  BY DataAssumption
<1>7. ASSUME NEW k \in Key PROVE Logical(k) = data[k]
  <2>1. CASE data[k] = NoData
    BY <1>5, <2>1 DEF Logical, Exists
  <2>2. CASE data[k] # NoData
    <3>1. obj[k].body = Packed(NoTx, data[k]) /\ Packed(NoTx, data[k]) # NoBody
      BY <1>5, <1>6, <2>2, PlainBody
    <3> QED
      BY <3>1 DEF Logical, Exists, Packed
  <2> QED
    BY <2>1, <2>2
<1>8. [k \in Key |-> Logical(k)] \in InitialData
  <2>1. [k \in Key |-> Logical(k)] = data
    BY <1>6, <1>7
  <2> QED
    BY <2>1
<1>9. [c \in Client |-> [k \in Key |-> known[c][k].data]] = [c \in Client |-> [k \in Key |-> NoData]]
  BY DEF Init
<1>10. [c \in Client |-> Answer(c)] = [c \in Client |-> <<>>]
  BY <1>1 DEF Answer
<1>11. Store!Init
  BY <1>8, <1>9, <1>10 DEF Store!Init, Init, Answer
<1> QED
  BY <1>4, <1>11

-----------------------------------------------------------------------------
(* The refinement.                                                          *)

(* As long as no interrupt makes half a transaction of _write_mt, a client  *)
(* may stop between any two calls of mt_commit, _finish_mt and _clean, and  *)
(* no user ever sees a part of a transaction. Deletes are left out if masks *)
(* may time out: there _unmask_object can bring a deleted object back (the  *)
(* run tx_expired_delete).                                                  *)
THEOREM TransactionsAtomic ==
  ASSUME NoopsNeedObjects, ~MayExpire \/ NoDeletes PROVE Spec => AtomicUntilInterrupted
<1>1. Init => AtomicInv /\ Store!Init
  BY InitAtomic
<1>2. TypeOK /\ TypeOK' /\ MaskProtocol /\ AtomicInv /\ [Next]_vars =>
        AtomicInv' /\ [faults'.interrupt > 0 \/ Store!Next]_(Store!vars)
  BY NextAtomic DEF StoreStep
<1> QED
  BY <1>1, <1>2, MasksProtected, PTL DEF Spec, AtomicUntilInterrupted

(* Without interrupts, txramcloud.py implements the abstract store.         *)
THEOREM StoreImplemented ==
  ASSUME NoopsNeedObjects, ~MayExpire \/ NoDeletes, MaxInterrupt = 0 PROVE Spec => Atomic
<1>1. Init => AtomicInv /\ Store!Init
  BY InitAtomic
<1>2. TypeOK /\ TypeOK' /\ MaskProtocol /\ AtomicInv /\ [Next]_vars =>
        AtomicInv' /\ [Store!Next]_(Store!vars)
  <2> SUFFICES ASSUME TypeOK, TypeOK', MaskProtocol, AtomicInv, [Next]_vars
               PROVE  AtomicInv' /\ StoreStep
    BY DEF StoreStep
  <2>1. AtomicInv' /\ (faults'.interrupt > 0 \/ StoreStep)
    BY NextAtomic
  <2>2. faults'.interrupt \in Nat /\ faults'.interrupt <= 0
    BY <2>1 DEF AtomicInv, TypeOK
  <2>3. ~(faults'.interrupt > 0)
    BY <2>2
  <2> QED
    BY <2>1, <2>3
<1> QED
  BY <1>1, <1>2, MasksProtected, PTL DEF Spec, Atomic, Store!Spec

-----------------------------------------------------------------------------
(* A commit is final.  This needs less: an object may come back from a      *)
(* delete, but never because somebody takes a mask of a transaction off     *)
(* that has committed.                                                      *)

LEMMA CommittedStays ==
  ASSUME TypeOK, MaskProtocol, NEW c \in Client, Step(c) \/ Crash(c), cl[c].job.then = "ok"
  PROVE  cl'[c].job.then \in {"retry", "ok"}
<1>1. Applying(c) /\ Ending(c) /\ Fit(c, cl[c]) /\ cl[c] \in Local /\ cl[c].job \in Job
  BY MoverFacts, ClientFacts, UsedIds DEF ShapeInv, Applying, Ending, Local
<1>2. cl' = [cl EXCEPT ![c] = Idle] => cl'[c].job.then = "retry"
  BY DEF TypeOK, Idle, NoJob
<1>3. \A e : Raise(c, e) => cl' = [cl EXCEPT ![c] = Idle]
  BY <1>1 DEF Raise, End, Become, Ending
<1>4. ASSUME NEW k, Applied(c, k) PROVE cl'[c].job.then = "ok"
  <2>1. PICK l : cl'[c] = [cl[c] EXCEPT !.pc = l, !.job.keys = Rest(c, k), !.call = NoCall]
    BY <1>4 DEF Applied, GoOn, Become, TypeOK
  <2> QED
    BY <1>1, <2>1 DEF Local, Job
<1>5. CASE ApplyRead(c)
  <2>1. PICK k \in cl[c].job.keys :
          \/ Applied(c, k)
          \/ \E rr, b : Prepare(c, "apply", k, rr, b)
    BY <1>5 DEF ApplyRead
  <2>2. CASE \E rr, b : Prepare(c, "apply", k, rr, b)
    <3>1. cl'[c].job = cl[c].job
      BY <1>1, <2>2 DEF Prepare, GoOn, Become, TypeOK, Local
    <3> QED
      BY <3>1
  <2> QED
    BY <1>4, <2>1, <2>2
<1>6. CASE Apply(c)
  BY <1>2, <1>3, <1>4, <1>6 DEF Apply
<1>7. CASE DeleteT(c)
  <2>1. cl' = [cl EXCEPT ![c] = Idle]
    BY <1>3, <1>7 DEF DeleteT, End, Become
  <2> QED
    BY <1>2, <2>1
<1>8. CASE Crash(c)
  BY <1>8 DEF Crash, TypeOK, Idle, NoJob
<1>9. ApplyRead(c) \/ Apply(c) \/ DeleteT(c) \/ Crash(c)
  BY <1>1 DEF Step, Applying, Begin, ReadObject, Mask, UserCall, DirectCall, ReadT, Expire,
              WriteTombstone, UnmaskRead, Unmask, DeleteTombstone, WriteT, At
<1> QED
  BY <1>5, <1>6, <1>7, <1>8, <1>9

(* A coordinator that gives up does so before T is there.                   *)
LEMMA NewAborts ==
  ASSUME TypeOK, TypeOK', MaskProtocol, NEW c \in Client, Step(c) \/ Crash(c), StepOf(c),
         AbortInv(c)
  PROVE  AbortInv(c)'
<1>t. cl'[c].tx \in used' \cup {NoTx} /\ used' \subseteq TxId
  BY DEF TypeOK, StoreOK, Local
<1> SUFFICES ASSUME NEW t \in TxId, t = cl'[c].tx, cl'[c].job.then \notin {"retry", "ok"}
             PROVE  tobj'[t].body # "MiniTransaction"
  BY <1>t DEF AbortInv
<1>1. t = cl[c].tx
  <2>1. ASSUME Begin(c) PROVE FALSE
    <3>1. cl'[c].job = NoJob
      <4>1. CASE BeginCommit(c)
        <5>1. PICK u : GoOn(c, [Idle EXCEPT !.pc = "read", !.tx = u, !.left = KeysOf(c)])
          BY <4>1 DEF BeginCommit
        <5> QED
          BY <5>1 DEF GoOn, Become, Idle, TypeOK
      <4>2. CASE BeginSingle(c)
        <5>1. \/ \E k, q : GoOn(c, [Idle EXCEPT !.left = {k}, !.pc = "direct", !.call = q])
              \/ \E k : GoOn(c, [Idle EXCEPT !.left = {k}, !.pc = "read"])
          BY <4>2 DEF BeginSingle
        <5>2. PICK s : GoOn(c, s) /\ \/ \E k, q : s = [Idle EXCEPT !.left = {k}, !.pc = "direct",
                                                                  !.call = q]
                                     \/ \E k : s = [Idle EXCEPT !.left = {k}, !.pc = "read"]
          BY <5>1
        <5>3. s.job = NoJob
          BY <5>2 DEF Idle
        <5> QED
          BY <5>2, <5>3 DEF GoOn, Become, TypeOK
      <4>3. CASE BeginFails(c)
        BY <4>3 DEF BeginFails, End, Become, Idle, TypeOK
      <4> QED
        BY <2>1, <4>1, <4>2, <4>3 DEF Begin
    <3> QED
      BY <3>1 DEF NoJob
  <2>2. used' = used
    BY <2>1 DEF Step, Crash, ReadObject, Mask, UserCall, DirectCall, ReadT, Expire,
                WriteTombstone, UnmaskRead, Unmask, DeleteTombstone, WriteT, ApplyRead, Apply,
                DeleteT
  <2>3. t \in used
    BY <1>t, <2>2, NullAssumption
  <2> QED
    BY <2>3, UsedIds DEF StepOf, Turns
<1>2. t # NoTx /\ TStep(c)
  BY UsedIds DEF StepOf
<1>3. cl[c].job.then # "ok"
  BY CommittedStays
<1>4. tobj[t].body # "MiniTransaction"
  <2>1. CASE Ending(c)
    BY <1>1, <1>2, <1>3, <2>1 DEF AbortInv, Ending
  <2>2. CASE ~Ending(c)
    BY <1>1, <1>2, <2>2, MoverFacts DEF MaskInv, Masking, Ending
  <2> QED
    BY <2>1, <2>2
<1>5. CASE cl[c].pc = "writeT"
  <2>1. WriteT(c) \/ Crash(c)
    BY <1>5 DEF Step, Begin, ReadObject, Mask, UserCall, DirectCall, ReadT, Expire,
                WriteTombstone, UnmaskRead, Unmask, DeleteTombstone, ApplyRead, Apply, DeleteT, At
  <2>2. CASE UNCHANGED tobj
    BY <1>4, <2>2
  <2>3. CASE tobj' # tobj
    <3>1. cl'[c] = [cl[c] EXCEPT !.pc = "applyRead",
                      !.job = [tx |-> t, keys |-> KeysOf(c), ver |-> tobj'[t].ver, then |-> "ok"]]
      BY <1>1, <2>1, <2>3 DEF WriteT, Crash, GoOn, Become, TypeOK
    <3>2. cl'[c].job.then = "ok"
      BY <3>1, UsedIds DEF Local
    <3> QED
      BY <3>2
  <2> QED
    BY <2>2, <2>3
<1>6. CASE cl[c].pc # "writeT"
  BY <1>2, <1>4, <1>6, BodyAssumption DEF TStep
<1> QED
  BY <1>5, <1>6

(* And no other client commits its transaction.                             *)
LEMMA OthersAbort ==
  ASSUME TypeOK, MaskProtocol, NEW c \in Client, StepOf(c), NEW d \in Client, c # d, AbortInv(d)
  PROVE  AbortInv(d)'
<1>1. cl'[d] = cl[d]
  BY DEF StepOf, Alone
<1> QED
  BY <1>1, AbortKeeps

AllAbort == \A c \in Client : AbortInv(c)

LEMMA NextAborts ==
  ASSUME NoopsNeedObjects, TypeOK, TypeOK', MaskProtocol, AllAbort, MaxInterrupt = 0, [Next]_vars
  PROVE  AllAbort'
<1>1. CASE UNCHANGED vars
  BY <1>1 DEF vars, AllAbort, AbortInv
<1>2. ASSUME NEW c \in Client, Step(c) \/ Crash(c) PROVE AllAbort'
  BY <1>2, StepMoves, NewAborts, OthersAbort DEF AllAbort
<1>3. ASSUME NEW c \in Client, InterruptWriteT(c) PROVE FALSE
  BY <1>3 DEF InterruptWriteT, TypeOK
<1> QED
  BY <1>1, <1>2, <1>3 DEF Next, Finished

(* A mask gives way to a call that may replace it.                          *)
LEMMA MaskGivesWay ==
  ASSUME TypeOK, MaskProtocol, NEW c \in Client, StepOf(c), AbortInv(c), Step(c) \/ Crash(c),
         NEW k \in Key, NEW t \in TxId, MaskedBy(k, t), ~MaskedBy(k, t)',
         tobj[t].body = "MiniTransaction"
  PROVE  Logical(k)' = Logical(k)
<1>1. obj[k].body.tx = t /\ Exists(obj[k]) /\ obj'[k] # obj[k]
  BY DEF MaskedBy
<1>2. /\ cl[c].pc \in CallLabels /\ CallStatus(c) = "ok"
      /\ obj' = [obj EXCEPT ![cl[c].call.key] = Changed(@, cl[c].call.body)]
  BY <1>1 DEF StepOf, ObjStep
<1>3. k = cl[c].call.key
  BY <1>1, <1>2 DEF TypeOK, StoreOK
<1>4. CASE cl[c].pc \in {"mask", "user", "direct"}
  <2>1. Guarded(cl[c].call, NoTx)
    BY <1>4, MoverFacts DEF CallInv
  <2>2. obj[k].body.tx = NoTx
    BY <1>1, <1>2, <1>3, <2>1, GuardedCall
  <2> QED
    BY <1>1, <2>2, UsedIds
<1>5. CASE cl[c].pc = "unmask"
  <2>1. PICK u \in TxId : u = cl[c].job.tx
    BY <1>5, UnmaskerFacts
  <2>2. MaskedBy(k, u) /\ tobj[u].body # "MiniTransaction"
    BY <1>1, <1>2, <1>3, <1>5, <2>1, UnmaskedAborted
  <2> QED
    BY <1>1, <2>2 DEF MaskedBy
<1>6. CASE cl[c].pc = "apply"
  <2>1. SendCall(c)
    BY <1>2 DEF SendCall
  <2> QED
    BY <1>1, <1>2, <1>3, <1>6, <2>1, AppliedCommitted
<1> QED
  BY <1>2, <1>4, <1>5, <1>6 DEF CallLabels

(* "The transaction is no longer abortable" (txramcloud.py:67): what a      *)
(* transaction has written under a mask is there after the mask, whoever    *)
(* takes it off; also where masks may time out and objects are deleted, but *)
(* not after an interrupt (the run tx_interrupt).                           *)
THEOREM CommitsAreFinal ==
  ASSUME NoopsNeedObjects, MaxInterrupt = 0 PROVE Spec => CommitIsFinal
<1>1. Init => AllAbort
  BY DEF Init, Idle, AllAbort, AbortInv
<1>2. TypeOK /\ TypeOK' /\ MaskProtocol /\ AllAbort /\ [Next]_vars => AllAbort'
  BY NextAborts
<1>3. TypeOK /\ TypeOK' /\ MaskProtocol /\ AllAbort /\ [Next]_vars =>
        [\A k \in Key, t \in TxId :
           (tobj[t].body = "MiniTransaction" /\ MaskedBy(k, t) /\ ~MaskedBy(k, t)') =>
             Logical(k)' = Logical(k)]_vars
  <2> SUFFICES ASSUME TypeOK, TypeOK', MaskProtocol, AllAbort, Next, ~(UNCHANGED vars),
                      NEW k \in Key, NEW t \in TxId, tobj[t].body = "MiniTransaction",
                      MaskedBy(k, t), ~MaskedBy(k, t)'
               PROVE  Logical(k)' = Logical(k)
    OBVIOUS
  <2>1. ASSUME NEW c \in Client, InterruptWriteT(c) PROVE FALSE
    BY <2>1 DEF InterruptWriteT, TypeOK
  <2>2. PICK c \in Client : Step(c) \/ Crash(c)
    BY <2>1 DEF Next, Finished
  <2> QED
    BY <2>2, StepMoves, MaskGivesWay DEF AllAbort
<1> QED
  BY <1>1, <1>2, <1>3, MasksProtected, PTL DEF Spec, CommitIsFinal
=============================================================================
