------------------------- MODULE TxRAMCloud_proofs -------------------------
(***************************************************************************)
(* Type correctness of the transaction protocol; then its masks: who may   *)
(* put one on an object, who may take it off, and why a version that a     *)
(* client knows is never that of a mask; and who is going to take it off,  *)
(* and to remove T, so that nothing of a transaction is left over where    *)
(* there were no faults.  For any number of clients, keys and              *)
(* transactions, any scripts and any number of faults.                     *)
(***************************************************************************)
EXTENDS TxRAMCloud, TLAPS, SequenceTheorems, WellFoundedInduction

-----------------------------------------------------------------------------
(* Helpers of the model.                                                    *)

(* A nonempty set of keys has a least one.                                  *)
LEMMA LeastIn == ASSUME NEW S, S \subseteq Nat, S # {} PROVE Least(S) \in S
<1> DEFINE R == {ss \in Nat \X Nat : ss[1] < ss[2]}
<1>1. IsWellFoundedOn(R, Nat)
  BY NatLessThanWellFounded, Zenon DEF OpToRel
<1> HIDE DEF R
<1>2. PICK x \in S : \A y \in S : <<y, x>> \notin R
  BY <1>1, WFMin
<1>3. \A y \in S : x <= y
  <2> SUFFICES ASSUME NEW y \in S, ~ x <= y PROVE FALSE
    OBVIOUS
  <2>1. x \in Nat /\ y \in Nat /\ y < x
    OBVIOUS
  <2>2. <<y, x>> \in R
    BY <2>1 DEF R
  <2> QED
    BY <1>2, <2>2
<1> QED
  BY <1>3 DEF Least

(* A script is made of user operations.                                     *)
LEMMA OpFacts ==
  ASSUME TypeOK, NEW c \in Client, todo[c] # <<>>
  PROVE  /\ Op(c) \in UserOp
         /\ Tail(todo[c]) \in Seq(UserOp)
         /\ KeysOf(c) # {} /\ KeysOf(c) \subseteq Key
         /\ \A k \in KeysOf(c) : KOp(c, k) \in KeyOp
<1>1. todo[c] \in Seq(UserOp)
  BY DEF TypeOK
<1>2. Op(c) \in UserOp /\ Tail(todo[c]) \in Seq(UserOp)
  BY <1>1, HeadTailProperties DEF Op
<1> QED
  BY <1>2, ScriptAssumption DEF KeysOf, KOp

LEMMA StatusRange ==
  ASSUME NEW rr, NEW o
  PROVE  /\ Err(Status(rr, o)) \in {"ok", "NoObjectError", "ObjectExistsError",
                                    "VersionError", "NameError"}
         /\ Err(Status(rr, o)) # "ok" => Err(Status(rr, o)) \in Endings
         /\ Err(Status(rr, o)) = "ok" <=> Status(rr, o) = "ok"
BY DEF Err, Status, Endings, Documented

LEMMA NewDataType ==
  ASSUME TypeOK, NEW c \in Client, todo[c] # <<>>, NEW k \in KeysOf(c)
  PROVE  NewData(c, k) \in Value /\ UserRules(c, k) \in RulesType
<1>1. k \in Key /\ KOp(c, k) \in KeyOp
  BY OpFacts
<1>2. known[c][k] \in [ver : Nat, data : Data]
  BY <1>1 DEF TypeOK
<1> QED
  BY <1>1, <1>2 DEF KeyOp, NewData, UserRules, RejectRules, RulesType

(* The types that mention the ids handed out only grow.                     *)
LEMMA Growth ==
  ASSUME used \subseteq used'
  PROVE  Object \subseteq Object' /\ Call \subseteq Call' /\ Job \subseteq Job'
         /\ Local \subseteq Local'
<1>1. Object \subseteq Object'
  BY DEF Object
<1>2. Call \subseteq Call'
  BY <1>1 DEF Call
<1>3. Job \subseteq Job'
  BY DEF Job
<1> QED
  BY <1>1, <1>2, <1>3 DEF Local
(* A packed object is not the absence of one.                               *)
LEMMA PackedBody == ASSUME TypeOK, NEW b \in Object PROVE b # NoBody
BY BodyAssumption, Zenon DEF Object, TypeOK, StoreOK, Data

-----------------------------------------------------------------------------
(* What a client may turn to next.                                          *)

(* What a client has fits as long as the client itself does not move.       *)
LEMMA FitStays ==
  ASSUME NEW d, At(d, "idle") \/ At(d, "crashed") \/ Fit(d, cl[d]),
         cl'[d] = cl[d], todo'[d] = todo[d],
         used \subseteq used', \A t \in used : intent'[t] = intent[t]
  PROVE  At(d, "idle")' \/ At(d, "crashed")' \/ Fit(d, cl[d])'
<1>1. KeysOf(d)' = KeysOf(d) /\ IsCommit(d)' = IsCommit(d)
  BY DEF KeysOf, IsCommit, Op
<1>2. CASE Fit(d, cl[d])
  <2> DEFINE s == cl[d]
  <2>1. Fit(d, s) /\ s = cl'[d]
    BY <1>2
  <2> HIDE DEF s
  <2>2. IF IsCommit(d)' THEN s.tx \in used' /\ DOMAIN intent'[s.tx] = KeysOf(d)'
                       ELSE s.tx = NoTx
    BY <1>1, <2>1 DEF Fit
  <2>3. s.pc \in JobLabels => s.job.tx \in used' /\ (s.job.then = "retry" => s.left # {})
    BY <2>1 DEF Fit
  <2>4. s.pc \in {"applyRead", "apply"} => s.job.keys \subseteq DOMAIN intent'[s.job.tx]
    BY <2>1 DEF Fit, JobLabels
  <2> QED
    BY <1>1, <2>1, <2>2, <2>3, <2>4 DEF Fit
<1> QED
  BY <1>2 DEF At

(* A step of client c that leaves it with local state s, which fits.        *)
LEMMA GoOnKeeps ==
  ASSUME TypeOK, NEW c \in Client, NEW s \in Local, GoOn(c, s), Fit(c, s),
         UNCHANGED <<used, intent>>, StoreOK',
         faults' = faults \/ faults' \in [crash : Nat, interrupt : Nat]
  PROVE  TypeOK'
<1> USE DEF GoOn, Become
<1>1. cl' \in [Client -> Local] /\ cl'[c] = s
  BY DEF TypeOK
<1>2. cl' \in [Client -> Local']
  BY <1>1 DEF Local, Call, Job, Object
<1>3. ASSUME NEW d \in Client PROVE At(d, "idle")' \/ At(d, "crashed")' \/ Fit(d, cl[d])'
  <2>1. CASE d = c
    BY <2>1, <1>1 DEF Fit, KeysOf, IsCommit, Op
  <2>2. CASE d # c
    <3>1. cl'[d] = cl[d] /\ (At(d, "idle") \/ At(d, "crashed") \/ Fit(d, cl[d]))
      BY <2>2 DEF TypeOK
    <3> QED
      BY <3>1, FitStays
  <2> QED
    BY <2>1, <2>2
<1> QED
  BY <1>2, <1>3 DEF TypeOK

(* The end of an operation.                                                 *)
LEMMA EndKeeps ==
  ASSUME TypeOK, NEW c \in Client, NEW r \in Endings, End(c, r), todo[c] # <<>>,
         known' \in [Client -> [Key -> [ver : Nat, data : Data]]],
         UNCHANGED <<used, intent, faults>>, StoreOK'
  PROVE  TypeOK'
<1> USE DEF End, Become
<1>1. Idle \in Local
  BY DEF Idle, NoCall, NoJob, NoVersion, Local, Call, Job, Unconditional,
         RejectRules, RulesType, Labels, Data
<1>2. cl' \in [Client -> Local] /\ At(c, "idle")'
  BY <1>1 DEF TypeOK, Idle, At
<1>3. cl' \in [Client -> Local']
  BY <1>2 DEF Local, Call, Job, Object
<1>4. todo' \in [Client -> Seq(UserOp)]
  BY OpFacts DEF TypeOK
<1>5. fate' \in [TxId -> Endings \cup {"none"}]
  BY DEF TypeOK
<1>6. ASSUME NEW d \in Client, d # c
      PROVE  At(d, "idle")' \/ At(d, "crashed")' \/ Fit(d, cl[d])'
  <2>1. cl'[d] = cl[d] /\ todo'[d] = todo[d]
    BY <1>6 DEF TypeOK
  <2>2. At(d, "idle") \/ At(d, "crashed") \/ Fit(d, cl[d])
    BY DEF TypeOK
  <2> QED
    BY <2>1, <2>2, FitStays
<1> QED
  BY <1>2, <1>3, <1>4, <1>5, <1>6 DEF TypeOK

(* read_rr is called (again), for an operation with keys left.              *)
LEMMA RereadKeeps ==
  ASSUME TypeOK, NEW c \in Client, NEW s \in Local, Reread(c, s), Fit(c, s),
         s.left # {},
         UNCHANGED <<used, intent, faults>>, StoreOK'
  PROVE  TypeOK'
<1> DEFINE r == [s EXCEPT !.pc = "read", !.call = NoCall, !.job = NoJob]
<1>1. r \in Local
  BY DEF Local, Call, Job, NoCall, NoJob, Unconditional, RejectRules, RulesType, Labels
<1>2. Fit(c, r)
  BY DEF Fit, NoJob, NoCall, Local, CallLabels, JobLabels
<1> QED
  BY <1>1, <1>2, GoOnKeeps DEF Reread

(* A conditional call is prepared.                                          *)
LEMMA PrepareKeeps ==
  ASSUME TypeOK, NEW c \in Client, NEW l \in CallLabels, NEW k \in Key,
         NEW rr \in RulesType, NEW b \in {NoBody} \cup Object,
         Prepare(c, l, k, rr, b), Fit(c, [cl[c] EXCEPT !.pc = l,
                                            !.call = [key |-> k, rr |-> rr, body |-> b]]),
         UNCHANGED <<used, intent, faults>>, StoreOK'
  PROVE  TypeOK'
<1>1. cl[c] \in Local
  BY DEF TypeOK
<1>2. [cl[c] EXCEPT !.pc = l, !.call = [key |-> k, rr |-> rr, body |-> b]] \in Local
  BY <1>1 DEF Local, Call, CallLabels, Labels
<1> QED
  BY <1>2, GoOnKeeps DEF Prepare

(* An exception ends the operation or turns to the unmasking of what the    *)
(* transaction has masked.                                                  *)
LEMMA RaiseKeeps ==
  ASSUME TypeOK, NEW c \in Client, NEW e \in Endings, Raise(c, e), Fit(c, cl[c]),
         UNCHANGED <<used, intent, faults>>, StoreOK'
  PROVE  TypeOK'
<1> DEFINE masking == IsCommit(c) /\ cl[c].job.then = "retry"
           out == IF masking /\ e \in RejectErrors THEN "TransactionRejected" ELSE e
           s == [cl[c] EXCEPT !.pc = "unmaskRead", !.call = NoCall,
                   !.job = [NoJob EXCEPT !.tx = cl[c].tx, !.keys = Masked(c), !.then = out]]
<1>1. out \in Endings /\ cl[c] \in Local /\ todo[c] # <<>>
  BY DEF Endings, Documented, TypeOK, Fit
<1>2. CASE masking /\ Masked(c) # {}
  <2>1. Masked(c) \subseteq Key
    BY <1>1, OpFacts DEF Masked
  <2>2. s \in Local
    <3>1. [NoJob EXCEPT !.tx = cl[c].tx, !.keys = Masked(c), !.then = out] \in Job
      BY <1>1, <2>1 DEF Local, Job, NoJob
    <3>2. NoCall \in Call
      BY DEF Call, NoCall, Unconditional, RejectRules, RulesType
    <3> QED
      BY <1>1, <3>1, <3>2 DEF Local, Labels
  <2>3. out # "retry"
    BY <1>1 DEF Endings, Documented
  <2>4. Fit(c, s)
    BY <1>1, <1>2, <2>3 DEF Fit, NoJob, NoCall, Local, CallLabels, JobLabels
  <2>5. GoOn(c, s)
    BY <1>2 DEF Raise
  <2> QED
    BY <2>2, <2>4, <2>5, GoOnKeeps
<1>3. CASE ~(masking /\ Masked(c) # {})
  <2>1. End(c, out) /\ UNCHANGED known
    BY <1>3 DEF Raise
  <2>2. known' \in [Client -> [Key -> [ver : Nat, data : Data]]]
    BY <2>1 DEF TypeOK
  <2> QED
    BY <1>1, <2>1, <2>2, EndKeeps
<1> QED
  BY <1>2, <1>3
-----------------------------------------------------------------------------
(* What holds of a client in the middle of an operation, and of the store.  *)

LEMMA ClientFacts ==
  ASSUME TypeOK, NEW c \in Client
  PROVE  /\ cl[c] \in Local
         /\ cl[c].pc \notin {"idle", "crashed"} =>
              /\ Fit(c, cl[c]) /\ todo[c] # <<>>
              /\ KeysOf(c) \subseteq Key
              /\ cl[c].left # {} => Cur(c) \in KeysOf(c) /\ Cur(c) \in cl[c].left
<1>1. cl[c] \in Local
  BY DEF TypeOK
<1>2. ASSUME cl[c].pc \notin {"idle", "crashed"}
      PROVE  Fit(c, cl[c]) /\ todo[c] # <<>> /\ KeysOf(c) \subseteq Key
  <2>1. Fit(c, cl[c])
    BY <1>2 DEF TypeOK, At
  <2> QED
    BY <2>1, OpFacts DEF Fit
<1>3. ASSUME cl[c].pc \notin {"idle", "crashed"}, cl[c].left # {}
      PROVE  Cur(c) \in KeysOf(c) /\ Cur(c) \in cl[c].left
  <2>1. cl[c].left \subseteq KeysOf(c) /\ cl[c].left \subseteq Nat
    BY <1>2, <1>3, KeyAssumption DEF Fit
  <2> QED
    BY <1>3, <2>1, LeastIn DEF Cur
<1> QED
  BY <1>1, <1>2, <1>3

LEMMA StoreStays ==
  ASSUME TypeOK, UNCHANGED <<obj, tobj, intent, used>>
  PROVE  StoreOK'
BY DEF TypeOK, StoreOK, Object

(* What the server does with a call keeps the store well-formed.            *)
LEMMA SendCallStore ==
  ASSUME TypeOK, NEW c \in Client, SendCall(c), cl[c].call.key \in Key,
         UNCHANGED <<tobj, intent, used>>
  PROVE  StoreOK' /\ \A k \in Key : obj'[k].ver \in Nat
<1> DEFINE k == cl[c].call.key
           b == cl[c].call.body
<1>1. b \in {NoBody} \cup Object
  BY DEF TypeOK, Local, Call
<1>2. obj[k] \in [ver : Nat, body : {NoBody} \cup Object]
  BY DEF TypeOK, StoreOK
<1>3. Changed(obj[k], b) \in [ver : Nat, body : {NoBody} \cup Object]
  BY <1>1, <1>2 DEF Changed, Deleted, Written
<1>4. obj' \in [Key -> [ver : Nat, body : {NoBody} \cup Object]]
  BY <1>3 DEF SendCall, TypeOK, StoreOK
<1> QED
  BY <1>4 DEF TypeOK, StoreOK, Object

(* T or a tombstone is written or deleted.                                  *)
LEMMA TStore ==
  ASSUME TypeOK, NEW t \in used, NEW b \in {"MiniTransaction", "Tombstone"},
         \/ tobj' = [tobj EXCEPT ![t] = Written(@, b)]
         \/ tobj' = [tobj EXCEPT ![t] = Deleted(@)]
         \/ UNCHANGED tobj,
         UNCHANGED <<obj, intent, used>>
  PROVE  StoreOK' /\ tobj'[t].ver \in Nat
<1> USE DEF TypeOK, StoreOK
<1>1. t \in TxId /\ tobj[t] \in [ver : Nat, body : {NoBody, "MiniTransaction", "Tombstone"}]
  OBVIOUS
<1>2. Written(tobj[t], b) \in [ver : Nat, body : {NoBody, "MiniTransaction", "Tombstone"}]
      /\ Deleted(tobj[t]) \in [ver : Nat, body : {NoBody, "MiniTransaction", "Tombstone"}]
  BY <1>1 DEF Written, Deleted
<1>3. tobj' \in [TxId -> [ver : Nat, body : {NoBody, "MiniTransaction", "Tombstone"}]]
  BY <1>1, <1>2
<1> QED
  BY <1>1, <1>3 DEF Object

-----------------------------------------------------------------------------
(* One lemma for each action.                                               *)

LEMMA IdleLocal ==
  ASSUME NEW S, S \subseteq Key, NEW x \in Call
  PROVE  /\ [[Idle EXCEPT !.left = S] EXCEPT !.pc = "read"] \in Local
         /\ [[Idle EXCEPT !.left = S] EXCEPT !.pc = "direct", !.call = x] \in Local
<1>1. NoCall \in Call /\ NoJob \in Job
  BY DEF NoCall, NoJob, Call, Job, Unconditional, RejectRules, RulesType
<1> QED
  BY <1>1 DEF Idle, Local, Labels, NoVersion, Data

LEMMA BeginKeeps == ASSUME TypeOK, NEW c \in Client, Begin(c) PROVE TypeOK'
<1> USE DEF Begin
<1>1. todo[c] # <<>> /\ KeysOf(c) \subseteq Key /\ KeysOf(c) # {}
  BY OpFacts
<1>2. CASE BeginCommit(c)
  <2>1. PICK t \in NewTxId :
             /\ used' = used \cup {t}
             /\ intent' = [intent EXCEPT ![t] = Intent(c)]
             /\ GoOn(c, [Idle EXCEPT !.pc = "read", !.tx = t, !.left = KeysOf(c)])
    BY <1>2 DEF BeginCommit
  <2>0. PICK s : s = [Idle EXCEPT !.pc = "read", !.tx = t, !.left = KeysOf(c)]
    OBVIOUS
  <2>2. t \in TxId /\ t \notin used /\ intent \in [TxId -> UNION {[S -> [kind : {"noop", "write", "delete"}, data : Data]] : S \in SUBSET Key}]
    BY DEF NewTxId, TypeOK, StoreOK
  <2>3. Intent(c) \in [KeysOf(c) -> [kind : {"noop", "write", "delete"}, data : Data]]
    BY <1>1, OpFacts, NewDataType DEF Intent, KeyOp, Data
  <2>4. intent' \in [TxId -> UNION {[S -> [kind : {"noop", "write", "delete"}, data : Data]] : S \in SUBSET Key}]
    BY <1>1, <2>1, <2>2, <2>3
  <2>5. intent'[t] = Intent(c) /\ (\A u \in used : intent'[u] = intent[u])
    BY <2>1, <2>2 DEF TypeOK, StoreOK
  <2>6. DOMAIN intent'[t] = KeysOf(c)
    BY <2>3, <2>5 DEF Intent
  <2>7. StoreOK'
    BY <2>1, <2>2, <2>4 DEF TypeOK, StoreOK, Object
  <2>8. s \in Local'
    <3>1. [NoCall EXCEPT !.key = 0] \in Call' /\ NoCall \in Call' /\ NoJob \in Job'
      BY DEF NoCall, NoJob, Call, Job, Unconditional, RejectRules, RulesType
    <3> QED
      BY <1>1, <2>0, <2>1, <3>1 DEF Idle, Local, Labels, NoVersion, Data
  <2>9. cl' = [cl EXCEPT ![c] = s] /\ UNCHANGED <<todo, fate, known, faults>>
    BY <2>0, <2>1 DEF GoOn, Become
  <2>10. cl' \in [Client -> Local'] /\ cl'[c] = s
    BY <2>1, <2>8, <2>9, Growth DEF TypeOK
  <2>11. ASSUME NEW d \in Client PROVE At(d, "idle")' \/ At(d, "crashed")' \/ Fit(d, cl[d])'
    <3>1. CASE d = c
      <4>1. KeysOf(c)' = KeysOf(c) /\ IsCommit(c)' = IsCommit(c) /\ IsCommit(c)
        BY <1>2, <2>9 DEF KeysOf, IsCommit, Op, BeginCommit
      <4>2. s.pc = "read" /\ s.tx = t /\ s.left = KeysOf(c) /\ s.job = NoJob
        BY <2>0 DEF Idle
      <4>3. Fit(c, s)'
        BY <1>1, <2>1, <2>6, <2>9, <4>1, <4>2 DEF Fit, CallLabels, JobLabels, NoJob
      <4> QED
        BY <2>10, <3>1, <4>3
    <3>2. CASE d # c
      <4>1. cl'[d] = cl[d] /\ todo'[d] = todo[d] /\ used \subseteq used'
        BY <2>1, <2>9, <3>2 DEF TypeOK
      <4>2. At(d, "idle") \/ At(d, "crashed") \/ Fit(d, cl[d])
        BY DEF TypeOK
      <4> QED
        BY <2>5, <4>1, <4>2, FitStays
    <3> QED
      BY <3>1, <3>2
  <2> QED
    BY <2>7, <2>9, <2>10, <2>11 DEF TypeOK
<1>3. CASE BeginSingle(c)
  <2> DEFINE k == Least(KeysOf(c))
             rr == UserRules(c, k)
             s == [Idle EXCEPT !.left = {k}]
             b == IF Op(c).type = "delete" THEN NoBody ELSE Packed(NoTx, NewData(c, k))
             x == [key |-> k, rr |-> rr, body |-> b]
  <2>1. k \in KeysOf(c) /\ k \in Key
    BY <1>1, LeastIn, KeyAssumption
  <2>2. rr \in RulesType /\ NewData(c, k) \in Value
    BY <1>1, <2>1, NewDataType
  <2>3. x \in Call
    BY <2>1, <2>2 DEF Call, Object, Packed, Data
  <2>4. PICK r \in {[s EXCEPT !.pc = "read"], [s EXCEPT !.pc = "direct", !.call = x]} : GoOn(c, r)
    BY <1>3 DEF BeginSingle
  <2>5. r \in Local
    <3>1. /\ [s EXCEPT !.pc = "read"] \in Local
          /\ [s EXCEPT !.pc = "direct", !.call = x] \in Local
      BY <2>1, <2>3, IdleLocal
    <3> QED
      BY <2>4, <3>1
  <2>6. Fit(c, r)
    <3>1. r.pc \in {"read", "direct"} /\ r.left = {k} /\ r.tx = NoTx /\ r.job = NoJob
          /\ (r.pc = "direct" => r.call.key \in Key)
      <4>1. CASE r = [s EXCEPT !.pc = "read"]
        BY <4>1 DEF Idle
      <4>2. CASE r = [s EXCEPT !.pc = "direct", !.call = x]
        BY <2>1, <4>2 DEF Idle
      <4> QED
        BY <2>4, <4>1, <4>2
    <3>2. ~IsCommit(c)
      BY <1>3 DEF BeginSingle
    <3> QED
      BY <1>1, <2>1, <3>1, <3>2 DEF Fit, NoJob, CallLabels, JobLabels
  <2>7. StoreOK' /\ UNCHANGED <<used, intent, faults>>
    BY <1>3, StoreStays DEF BeginSingle
  <2> HIDE DEF s, x
  <2> QED
    BY <2>4, <2>5, <2>6, <2>7, GoOnKeeps
<1>4. CASE BeginFails(c)
  <2>1. StoreOK' /\ UNCHANGED <<used, intent, known, faults>>
    BY <1>4, StoreStays DEF BeginFails
  <2>2. End(c, "NameError") /\ "NameError" \in Endings
    BY <1>4 DEF BeginFails, Endings
  <2>3. known' \in [Client -> [Key -> [ver : Nat, data : Data]]]
    BY <2>1 DEF TypeOK
  <2> QED
    BY <1>1, <2>1, <2>2, <2>3, EndKeeps
<1> QED
  BY <1>2, <1>3, <1>4

(* Returned with what was read, or with a conditional call at hand.         *)
LEMMA GotKeeps ==
  ASSUME TypeOK, NEW c \in Client, At(c, "read"), NEW o \in [ver : Nat, body : Object],
         Got(c, Cur(c), o), UNCHANGED <<obj, tobj, used, intent, faults>>
  PROVE  TypeOK'
<1> DEFINE k == Cur(c)
           rr == UserRules(c, k)
<1>1. cl[c].pc = "read" /\ Fit(c, cl[c]) /\ todo[c] # <<>> /\ cl[c] \in Local
      /\ k \in KeysOf(c) /\ k \in Key
  BY ClientFacts DEF At, Fit
<1>2. rr \in RulesType /\ NewData(c, k) \in Value /\ rr.doesntExist \in BOOLEAN
  BY <1>1, NewDataType DEF RulesType
<1>3. StoreOK' /\ Op(c) \in UserOp
  BY <1>1, StoreStays, OpFacts
<1>4. CASE Op(c).type = "read"
  <2>1. Learn(c, k, o.ver, o.body.data) /\ End(c, "ok")
    BY <1>4 DEF Got, IsCommit
  <2>2. known' \in [Client -> [Key -> [ver : Nat, data : Data]]]
    BY <1>1, <2>1 DEF Learn, TypeOK, Object
  <2> QED
    BY <1>1, <1>3, <2>1, <2>2, EndKeeps DEF Endings
<1>5. CASE IsCommit(c)
  <2>1. Prepare(c, "mask", k, Exactly(o.ver), Packed(cl[c].tx, o.body.data))
    BY <1>5 DEF Got, IsCommit
  <2>2. Exactly(o.ver) \in RulesType /\ Packed(cl[c].tx, o.body.data) \in Object
    BY <1>1 DEF Exactly, RejectRules, RulesType, Packed, Object, Local
  <2>3. Fit(c, [cl[c] EXCEPT !.pc = "mask",
                  !.call = [key |-> k, rr |-> Exactly(o.ver),
                            body |-> Packed(cl[c].tx, o.body.data)]])
    BY <1>1, <1>5, <2>2, PackedBody DEF Fit, CallLabels, JobLabels, Local
  <2> QED
    BY <1>1, <1>3, <2>1, <2>2, <2>3, PrepareKeeps DEF CallLabels
<1>6. CASE Op(c).type \in {"write", "delete"}
  <2>1. PICK r \in RulesType, b \in {NoBody} \cup Object : Prepare(c, "user", k, r, b)
    <3>1. Packed(NoTx, NewData(c, k)) \in Object
      BY <1>2 DEF Packed, Object, Data
    <3>2. /\ Exactly(o.ver) \in RulesType /\ NotNewerThan(o.ver) \in RulesType
          /\ RejectRules(rr.doesntExist, FALSE, TRUE, o.ver) \in RulesType
      BY <1>2 DEF Exactly, NotNewerThan, RejectRules, RulesType
    <3> QED
      BY <1>6, <3>1, <3>2 DEF Got, IsCommit
  <2>2. Fit(c, [cl[c] EXCEPT !.pc = "user", !.call = [key |-> k, rr |-> r, body |-> b]])
    BY <1>1, <1>6 DEF Fit, CallLabels, JobLabels, Local, IsCommit
  <2> QED
    BY <1>1, <1>3, <2>1, <2>2, PrepareKeeps DEF CallLabels
<1> QED
  BY <1>3, <1>4, <1>5, <1>6, OpFacts, ScriptAssumption DEF IsCommit

LEMMA MissingKeeps ==
  ASSUME TypeOK, NEW c \in Client, At(c, "read"), Missing(c, Cur(c)),
         UNCHANGED <<obj, tobj, used, intent, faults>>
  PROVE  TypeOK'
<1> DEFINE k == Cur(c)
<1>1. cl[c].pc = "read" /\ Fit(c, cl[c]) /\ todo[c] # <<>> /\ cl[c] \in Local
      /\ k \in KeysOf(c) /\ k \in Key
  BY ClientFacts DEF At, Fit
<1>2. StoreOK' /\ Op(c) \in UserOp /\ NewData(c, k) \in Value
  BY <1>1, StoreStays, OpFacts, NewDataType
<1>3. ASSUME NEW e \in Endings, Learn(c, k, 0, NoData) /\ End(c, e) PROVE TypeOK'
  <2>1. known' \in [Client -> [Key -> [ver : Nat, data : Data]]]
    BY <1>1, <1>3 DEF Learn, TypeOK, Data
  <2> QED
    BY <1>1, <1>2, <1>3, <2>1, EndKeeps
<1>4. ASSUME Raise(c, "NoObjectError") PROVE TypeOK'
  BY <1>1, <1>2, <1>4, RaiseKeeps DEF Endings, Documented
<1>5. ASSUME NEW l \in {"mask", "user"}, NEW b \in Object, l = "mask" <=> IsCommit(c),
             Prepare(c, l, k, MustNotExist, b)
      PROVE  TypeOK'
  <2>1. MustNotExist \in RulesType
    BY DEF MustNotExist, RejectRules, RulesType
  <2>2. Fit(c, [cl[c] EXCEPT !.pc = l, !.call = [key |-> k, rr |-> MustNotExist, body |-> b]])
    BY <1>1, <1>5, PackedBody DEF Fit, CallLabels, JobLabels, Local
  <2> QED
    BY <1>1, <1>2, <1>5, <2>1, <2>2, PrepareKeeps DEF CallLabels
<1>6. Packed(NoTx, NewData(c, k)) \in Object /\ Packed(cl[c].tx, NoData) \in Object
  BY <1>1, <1>2 DEF Packed, Object, Data, Local
<1>7. UserRules(c, k).doesntExist \in BOOLEAN
  BY <1>1, NewDataType DEF RulesType
<1>8. Op(c).type \in {"read", "write", "delete", "commit"}
  BY <1>2, ScriptAssumption
<1>9. CASE Op(c).type = "read"
  BY <1>3, <1>9 DEF Missing, IsCommit, Endings, Documented
<1>10. CASE Op(c).type # "read" /\ UserRules(c, k).doesntExist
  BY <1>4, <1>10 DEF Missing
<1>11. CASE IsCommit(c) /\ ~UserRules(c, k).doesntExist
  BY <1>5, <1>6, <1>11 DEF Missing, IsCommit
<1>12. CASE Op(c).type = "write" /\ ~UserRules(c, k).doesntExist
  BY <1>5, <1>6, <1>12 DEF Missing, IsCommit
<1>13. CASE Op(c).type = "delete" /\ ~UserRules(c, k).doesntExist
  BY <1>3, <1>13 DEF Missing, IsCommit, Endings
<1> QED
  BY <1>7, <1>8, <1>9, <1>10, <1>11, <1>12, <1>13 DEF IsCommit

LEMMA ReadObjectKeeps == ASSUME TypeOK, NEW c \in Client, ReadObject(c) PROVE TypeOK'
<1> DEFINE k == Cur(c)
           o == obj[k]
           rr == UserRules(c, k)
           st == Err(Status([rr EXCEPT !.doesntExist = TRUE, !.exists = FALSE], o))
<1>1. At(c, "read") /\ UNCHANGED <<obj, tobj, intent, used, faults>>
  BY DEF ReadObject
<1>2. cl[c].pc = "read" /\ Fit(c, cl[c]) /\ cl[c] \in Local /\ k \in Key /\ StoreOK'
      /\ k \in KeysOf(c) /\ todo[c] # <<>>
  BY <1>1, ClientFacts, StoreStays DEF At, Fit
<1>3. st \in {"ok", "NoObjectError", "ObjectExistsError", "VersionError", "NameError"}
      /\ (st # "ok" => st \in Endings)
  BY StatusRange
<1>4. o \in [ver : Nat, body : {NoBody} \cup Object]
  BY <1>2 DEF TypeOK, StoreOK
<1>5. st = "ok" => o.body \in Object
  <2>1. rr \in RulesType
    BY <1>2, NewDataType
  <2>2. st = "ok" => Status([rr EXCEPT !.doesntExist = TRUE, !.exists = FALSE], o) = "ok"
    BY StatusRange
  <2> QED
    BY <1>4, <2>1, <2>2 DEF Status, Exists, RulesType
<1>6. CASE st = "ok" /\ IsMasked(o.body)
  <2> DEFINE s == [cl[c] EXCEPT !.pc = "readT",
                     !.job = [NoJob EXCEPT !.tx = o.body.tx, !.keys = {k}]]
  <2>1. GoOn(c, s)
    BY <1>6 DEF ReadObject
  <2>2. o.body.tx \in used
    BY <1>5, <1>6 DEF IsMasked, Object
  <2>3. [NoJob EXCEPT !.tx = o.body.tx, !.keys = {k}] \in Job
    BY <1>2, <2>2 DEF NoJob, Job
  <2>4. s \in Local
    BY <1>2, <2>3 DEF Local, Labels
  <2>5. Fit(c, s)
    BY <1>2, <2>2 DEF Fit, NoJob, CallLabels, JobLabels, Local
  <2> HIDE DEF s
  <2> QED
    BY <1>1, <1>2, <2>1, <2>4, <2>5, GoOnKeeps
<1>7. CASE st = "ok" /\ ~IsMasked(o.body)
  <2>1. (rr.exists /\ Raise(c, "ObjectExistsError")) \/ Got(c, k, o)
    BY <1>7 DEF ReadObject
  <2>2. o \in [ver : Nat, body : Object]
    BY <1>4, <1>5, <1>7
  <2>3. "ObjectExistsError" \in Endings
    BY DEF Endings, Documented
  <2>4. CASE Got(c, k, o)
    BY <1>1, <2>2, <2>4, GotKeeps
  <2>5. CASE Raise(c, "ObjectExistsError")
    BY <1>1, <1>2, <2>3, <2>5, RaiseKeeps
  <2> QED
    BY <2>1, <2>4, <2>5
<1>8. CASE st = "NoObjectError"
  <2>1. Missing(c, k)
    BY <1>8 DEF ReadObject
  <2> QED
    BY <1>1, <2>1, MissingKeeps
<1>9. CASE st \notin {"ok", "NoObjectError"}
  <2>1. Raise(c, st)
    BY <1>9 DEF ReadObject
  <2> HIDE DEF st
  <2> QED
    BY <1>1, <1>2, <1>3, <1>9, <2>1, RaiseKeeps
<1> QED
  BY <1>6, <1>7, <1>8, <1>9

LEMMA MaskKeeps == ASSUME TypeOK, NEW c \in Client, Mask(c) PROVE TypeOK'
<1> DEFINE k == cl[c].call.key
           st == Err(CallStatus(c))
           left == cl[c].left \ {k}
           m == [ver |-> obj'[k].ver, data |-> cl[c].call.body.data]
           s == [cl[c] EXCEPT !.left = left, !.mver[k] = m]
<1>1. cl[c].pc = "mask" /\ Fit(c, cl[c]) /\ cl[c] \in Local /\ k \in Key /\ IsCommit(c)
  BY ClientFacts DEF Mask, At, Fit, CallLabels
<1>2. StoreOK' /\ obj'[k].ver \in Nat /\ UNCHANGED <<tobj, intent, used, faults>>
  BY <1>1, SendCallStore DEF Mask
<1>3. st \in {"ok", "NoObjectError", "ObjectExistsError", "VersionError", "NameError"}
      /\ (st # "ok" => st \in Endings)
  BY StatusRange DEF CallStatus
<1>4. s \in Local /\ s.pc = "mask" /\ s.left = left /\ s.tx = cl[c].tx /\ s.job = cl[c].job
      /\ s.call = cl[c].call
  <2>1. cl[c].call.body \in Object
    BY <1>1 DEF Fit, Local, Call
  <2>2. m \in [ver : Nat, data : Data]
    BY <1>2, <2>1 DEF Object
  <2> HIDE DEF m
  <2> QED
    BY <1>1, <2>2 DEF Local
<1>5. CASE st = "ok" /\ left # {}
  <2>1. Reread(c, s)
    BY <1>5 DEF Mask, RejectErrors
  <2>2. Fit(c, s)
    BY <1>1, <1>4, <1>5 DEF Fit, JobLabels
  <2> HIDE DEF s
  <2> QED
    BY <1>1, <1>2, <1>4, <1>5, <2>1, <2>2, RereadKeeps
<1>6. CASE st = "ok" /\ left = {}
  <2>1. PICK q : q = [s EXCEPT !.pc = "writeT", !.call = NoCall]
    OBVIOUS
  <2>2. GoOn(c, q)
    BY <1>6, <2>1 DEF Mask, RejectErrors
  <2>3. NoCall \in Call
    BY DEF NoCall, Call, Unconditional, RejectRules, RulesType
  <2>4. q \in Local
    BY <1>4, <2>1, <2>3 DEF Local, Labels
  <2>5. q.pc = "writeT" /\ q.left = {} /\ q.tx = cl[c].tx
    BY <1>4, <1>6, <2>1 DEF Local
  <2>6. Fit(c, q)
    BY <1>1, <2>5 DEF Fit, CallLabels, JobLabels
  <2> QED
    BY <1>2, <2>2, <2>4, <2>6, GoOnKeeps
<1>7. CASE st \in RejectErrors
  <2>1. Reread(c, cl[c])
    BY <1>7 DEF Mask, RejectErrors
  <2>2. cl[c].left # {}
    BY <1>1 DEF Fit
  <2> QED
    BY <1>1, <1>2, <2>1, <2>2, RereadKeeps
<1>8. CASE st \notin RejectErrors \cup {"ok"}
  <2>1. Raise(c, st)
    BY <1>8 DEF Mask
  <2> HIDE DEF st
  <2> QED
    BY <1>1, <1>2, <1>3, <1>8, <2>1, RaiseKeeps
<1> QED
  BY <1>5, <1>6, <1>7, <1>8

LEMMA EndCallKeeps ==
  ASSUME TypeOK, NEW c \in Client, EndCall(c), Fit(c, cl[c]), cl[c].call.key \in Key,
         StoreOK', UNCHANGED <<used, intent, faults>>
  PROVE  TypeOK'
<1> DEFINE k == cl[c].call.key
<1>1. obj'[k].ver \in Nat /\ cl[c].call.body \in {NoBody} \cup Object
  BY DEF StoreOK, TypeOK, Local, Call
<1>2. known' \in [Client -> [Key -> [ver : Nat, data : Data]]]
  <2>1. PICK v \in Nat, d \in Data : Learn(c, k, v, d)
    BY <1>1 DEF EndCall, Data, Object
  <2> QED
    BY <2>1 DEF Learn, TypeOK
<1>3. End(c, "ok") /\ todo[c] # <<>>
  BY DEF EndCall, Fit
<1> QED
  BY <1>2, <1>3, EndKeeps DEF Endings

LEMMA UserCallKeeps ==
  ASSUME TypeOK, NEW c \in Client, UserCall(c) \/ DirectCall(c) PROVE TypeOK'
<1> DEFINE st == Err(CallStatus(c))
<1>1. cl[c].pc \in {"user", "direct"} /\ Fit(c, cl[c]) /\ cl[c] \in Local
      /\ cl[c].call.key \in Key /\ cl[c].left # {}
  BY ClientFacts DEF UserCall, DirectCall, At, Fit, CallLabels
<1>2. StoreOK' /\ UNCHANGED <<tobj, intent, used, faults>>
  BY <1>1, SendCallStore DEF UserCall, DirectCall
<1>3. st \in {"ok", "NoObjectError", "ObjectExistsError", "VersionError", "NameError"}
      /\ (st # "ok" => st \in Endings)
  BY StatusRange DEF CallStatus
<1>4. EndCall(c) \/ Reread(c, cl[c]) \/ (st # "ok" /\ Raise(c, st))
  <2>1. CASE UserCall(c)
    BY <2>1 DEF UserCall, Caught
  <2>2. CASE DirectCall(c)
    BY <2>2 DEF DirectCall
  <2> QED
    BY <2>1, <2>2
<1>5. CASE EndCall(c)
  BY <1>1, <1>2, <1>5, EndCallKeeps
<1>6. CASE Reread(c, cl[c])
  BY <1>1, <1>2, <1>6, RereadKeeps
<1>7. CASE st # "ok" /\ Raise(c, st)
  <2> HIDE DEF st
  <2> QED
    BY <1>1, <1>2, <1>3, <1>7, RaiseKeeps
<1> QED
  BY <1>4, <1>5, <1>6, <1>7

LEMMA ReadTKeeps == ASSUME TypeOK, NEW c \in Client, ReadT(c) PROVE TypeOK'
<1> DEFINE t == cl[c].job.tx
<1>1. cl[c].pc = "readT" /\ Fit(c, cl[c]) /\ cl[c] \in Local /\ t \in used
      /\ cl[c].job \in Job /\ cl[c].job.keys # {}
  BY ClientFacts DEF ReadT, At, Fit, JobLabels, Local
<1>2. StoreOK' /\ UNCHANGED <<used, intent, faults>>
  BY StoreStays DEF ReadT
<1>3. CASE GoOn(c, [cl[c] EXCEPT !.pc = "unmaskRead"])
  <2>1. [cl[c] EXCEPT !.pc = "unmaskRead"] \in Local
    BY <1>1 DEF Local, Labels
  <2>2. Fit(c, [cl[c] EXCEPT !.pc = "unmaskRead"])
    BY <1>1 DEF Fit, CallLabels, JobLabels, Local
  <2> QED
    BY <1>2, <1>3, <2>1, <2>2, GoOnKeeps
<1>4. CASE GoOn(c, [cl[c] EXCEPT !.pc = "applyRead",
                      !.job.keys = DOMAIN intent[t], !.job.ver = tobj[t].ver])
  <2>1. PICK j : j = [cl[c].job EXCEPT !.keys = DOMAIN intent[t], !.ver = tobj[t].ver]
    OBVIOUS
  <2>2. DOMAIN intent[t] \subseteq Key /\ tobj[t].ver \in Nat
    BY <1>1 DEF TypeOK, StoreOK
  <2>3. j \in Job /\ j.tx = t /\ j.then = cl[c].job.then /\ j.keys = DOMAIN intent[t]
    BY <1>1, <2>1, <2>2 DEF Job
  <2>4. PICK s : s = [cl[c] EXCEPT !.pc = "applyRead", !.job = j]
    OBVIOUS
  <2>5. GoOn(c, s)
    BY <1>1, <1>4, <2>1, <2>4 DEF Local, Job
  <2>6. s \in Local
    BY <1>1, <2>3, <2>4 DEF Local, Labels
  <2>7. Fit(c, s)
    BY <1>1, <2>3, <2>4 DEF Fit, CallLabels, JobLabels, Local
  <2> QED
    BY <1>2, <2>5, <2>6, <2>7, GoOnKeeps
<1>5. CASE Reread(c, cl[c])
  <2>1. cl[c].left # {}
    BY <1>1 DEF Fit, JobLabels
  <2> QED
    BY <1>1, <1>2, <1>5, <2>1, RereadKeeps
<1> QED
  BY <1>3, <1>4, <1>5 DEF ReadT

LEMMA ExpireKeeps == ASSUME TypeOK, NEW c \in Client, Expire(c) PROVE TypeOK'
<1> DEFINE s == [cl[c] EXCEPT !.pc = "writeTombstone"]
<1>1. cl[c].pc = "readT" /\ Fit(c, cl[c]) /\ cl[c] \in Local
  BY ClientFacts DEF Expire, At
<1>2. s \in Local /\ Fit(c, s)
  BY <1>1 DEF Fit, CallLabels, JobLabels, Local, Labels
<1>3. GoOn(c, s) /\ StoreOK' /\ UNCHANGED <<used, intent, faults>>
  BY StoreStays DEF Expire
<1> HIDE DEF s
<1> QED
  BY <1>2, <1>3, GoOnKeeps

LEMMA WriteTombstoneKeeps ==
  ASSUME TypeOK, NEW c \in Client, WriteTombstone(c) PROVE TypeOK'
<1> DEFINE s == [cl[c] EXCEPT !.pc = "unmaskRead"]
<1>1. cl[c].pc = "writeTombstone" /\ Fit(c, cl[c]) /\ cl[c] \in Local
      /\ cl[c].job.tx \in used /\ cl[c].left # {}
  BY ClientFacts DEF WriteTombstone, At, Fit, JobLabels
<1>2. s \in Local /\ Fit(c, s)
  BY <1>1 DEF Fit, CallLabels, JobLabels, Local, Labels
<1>3. StoreOK' /\ UNCHANGED <<used, intent, faults>>
  BY <1>1, TStore DEF WriteTombstone
<1>4. GoOn(c, s) \/ Reread(c, cl[c])
  BY DEF WriteTombstone
<1> HIDE DEF s
<1> QED
  BY <1>1, <1>2, <1>3, <1>4, GoOnKeeps, RereadKeeps

(* Key k is dealt with in _unmask_objects.                                  *)
LEMMA UnmaskedKeeps ==
  ASSUME TypeOK, NEW c \in Client, cl[c].pc \in {"unmaskRead", "unmask"}, NEW k,
         Unmasked(c, k), StoreOK', UNCHANGED <<used, intent, faults>>
  PROVE  TypeOK'
<1> DEFINE ks == Rest(c, k)
           then == cl[c].job.then
           q == [cl[c] EXCEPT !.job.keys = ks, !.call = NoCall]
<1>1. Fit(c, cl[c]) /\ cl[c] \in Local /\ cl[c].job \in Job /\ todo[c] # <<>>
      /\ ks \subseteq Key /\ then \in Endings \cup {"retry"}
  BY ClientFacts DEF Rest, Fit, Local, Job
<1>2. ASSUME NEW l \in {"unmaskRead", "deleteTombstone"}, GoOn(c, [q EXCEPT !.pc = l]),
             l = "unmaskRead" => ks # {}, l = "deleteTombstone" => then # "retry"
      PROVE  TypeOK'
  <2>1. PICK s : s = [q EXCEPT !.pc = l]
    OBVIOUS
  <2>2. [cl[c].job EXCEPT !.keys = ks] \in Job /\ NoCall \in Call
    BY <1>1 DEF Job, NoCall, Call, Unconditional, RejectRules, RulesType
  <2>3. s = [[[cl[c] EXCEPT !.job = [cl[c].job EXCEPT !.keys = ks]] EXCEPT !.call = NoCall] EXCEPT !.pc = l]
    BY <1>1, <2>1 DEF Local, Job
  <2>4. s \in Local
    BY <1>1, <2>2, <2>3 DEF Local, Labels
  <2>5. s.pc = l /\ s.left = cl[c].left /\ s.tx = cl[c].tx /\ s.job.then = then
        /\ s.job.tx = cl[c].job.tx /\ s.job.keys = ks
    BY <1>1, <2>3 DEF Local, Job
  <2>6. Fit(c, s)
    BY <1>1, <1>2, <2>5 DEF Fit, CallLabels, JobLabels
  <2> QED
    BY <1>2, <2>1, <2>4, <2>6, GoOnKeeps
<1>3. CASE ks # {}
  <2>1. GoOn(c, [q EXCEPT !.pc = "unmaskRead"])
    BY <1>3 DEF Unmasked
  <2> QED
    BY <1>2, <1>3, <2>1
<1>4. CASE ks = {} /\ then = "retry"
  <2>1. Reread(c, cl[c]) /\ cl[c].left # {}
    BY <1>1, <1>4 DEF Unmasked, Fit, JobLabels
  <2> QED
    BY <1>1, <2>1, RereadKeeps
<1>5. CASE ks = {} /\ then # "retry" /\ cl[c].left = {}
  <2>1. GoOn(c, [q EXCEPT !.pc = "deleteTombstone"])
    BY <1>5 DEF Unmasked
  <2> QED
    BY <1>2, <1>5, <2>1
<1>6. CASE ks = {} /\ then # "retry" /\ cl[c].left # {}
  <2>1. End(c, then) /\ UNCHANGED known
    BY <1>6 DEF Unmasked
  <2>2. then \in Endings /\ known' \in [Client -> [Key -> [ver : Nat, data : Data]]]
    BY <1>1, <1>6, <2>1 DEF TypeOK
  <2> HIDE DEF then
  <2> QED
    BY <1>1, <2>1, <2>2, EndKeeps
<1> QED
  BY <1>3, <1>4, <1>5, <1>6

LEMMA UnmaskReadKeeps == ASSUME TypeOK, NEW c \in Client, UnmaskRead(c) PROVE TypeOK'
<1>1. cl[c].pc = "unmaskRead" /\ Fit(c, cl[c]) /\ cl[c] \in Local /\ cl[c].job \in Job
      /\ cl[c].job.keys # {} /\ cl[c].job.keys \subseteq Key
  BY ClientFacts DEF UnmaskRead, At, Fit, Local, Job
<1>2. StoreOK' /\ UNCHANGED <<used, intent, faults>>
  BY StoreStays DEF UnmaskRead
<1>3. PICK k \in Candidates(c) :
             IF MaskedBy(k, cl[c].job.tx)
               THEN Prepare(c, "unmask", k, NotNewerThan(obj[k].ver), Plain(obj[k].body.data))
               ELSE Unmasked(c, k)
  BY DEF UnmaskRead
<1>4. k \in Key
  BY <1>1, LeastIn, KeyAssumption DEF Candidates
<1>5. CASE MaskedBy(k, cl[c].job.tx)
  <2>1. obj[k].ver \in Nat /\ obj[k].body \in Object
    BY <1>4, <1>5 DEF TypeOK, StoreOK, MaskedBy, Exists
  <2>2. NotNewerThan(obj[k].ver) \in RulesType /\ Plain(obj[k].body.data) \in {NoBody} \cup Object
    BY <2>1 DEF NotNewerThan, RejectRules, RulesType, Plain, Packed, Object
  <2>3. ASSUME NEW rr \in RulesType, NEW b \in {NoBody} \cup Object
        PROVE  Fit(c, [cl[c] EXCEPT !.pc = "unmask", !.call = [key |-> k, rr |-> rr, body |-> b]])
    BY <1>1, <1>4 DEF Fit, CallLabels, JobLabels, Local
  <2> QED
    BY <1>2, <1>3, <1>4, <1>5, <2>2, <2>3, PrepareKeeps DEF CallLabels
<1>6. CASE ~MaskedBy(k, cl[c].job.tx)
  BY <1>1, <1>2, <1>3, <1>6, UnmaskedKeeps
<1> QED
  BY <1>5, <1>6

LEMMA UnmaskKeeps == ASSUME TypeOK, NEW c \in Client, Unmask(c) PROVE TypeOK'
<1> DEFINE st == Err(CallStatus(c))
           s == [cl[c] EXCEPT !.pc = "unmaskRead"]
<1>1. cl[c].pc = "unmask" /\ Fit(c, cl[c]) /\ cl[c] \in Local /\ cl[c].call.key \in Key
  BY ClientFacts DEF Unmask, At, Fit, CallLabels
<1>2. StoreOK' /\ UNCHANGED <<used, intent, faults>>
  BY <1>1, SendCallStore DEF Unmask
<1>3. st # "ok" => st \in Endings
  BY StatusRange DEF CallStatus
<1>4. CASE st = "ok"
  <2>1. Unmasked(c, cl[c].call.key)
    BY <1>4 DEF Unmask
  <2> QED
    BY <1>1, <1>2, <2>1, UnmaskedKeeps
<1>5. CASE st = "VersionError"
  <2>1. GoOn(c, s)
    BY <1>5 DEF Unmask
  <2>2. s \in Local /\ Fit(c, s)
    BY <1>1 DEF Fit, CallLabels, JobLabels, Local, Labels
  <2> HIDE DEF s
  <2> QED
    BY <1>2, <2>1, <2>2, GoOnKeeps
<1>6. CASE st \notin {"ok", "VersionError"}
  <2>1. Raise(c, st)
    BY <1>6 DEF Unmask
  <2> HIDE DEF st
  <2> QED
    BY <1>1, <1>2, <1>3, <1>6, <2>1, RaiseKeeps
<1> QED
  BY <1>4, <1>5, <1>6

LEMMA DeleteTombstoneKeeps ==
  ASSUME TypeOK, NEW c \in Client, DeleteTombstone(c) PROVE TypeOK'
<1>1. Fit(c, cl[c]) /\ cl[c].pc = "deleteTombstone" /\ cl[c] \in Local
  BY ClientFacts DEF DeleteTombstone, At
<1>2. cl[c].tx \in used /\ todo[c] # <<>>
  BY <1>1 DEF Fit
<1>3. StoreOK' /\ UNCHANGED <<used, intent, faults>>
  BY <1>2, TStore DEF DeleteTombstone
<1>4. cl[c].job.then \in Endings
  BY <1>1 DEF Fit, Local, Job
<1>5. End(c, cl[c].job.then) /\ known' \in [Client -> [Key -> [ver : Nat, data : Data]]]
  BY DEF DeleteTombstone, TypeOK
<1> QED
  BY <1>2, <1>3, <1>4, <1>5, EndKeeps

(* The handler around _write_mt starts to unmask.                           *)
LEMMA StartUnmaskingKeeps ==
  ASSUME TypeOK, NEW c \in Client, cl[c].pc = "writeT", NEW e \in Endings,
         e # "retry", StartUnmasking(c, e), StoreOK', UNCHANGED <<used, intent>>,
         faults' \in [crash : Nat, interrupt : Nat]
  PROVE  TypeOK'
<1> DEFINE j == [NoJob EXCEPT !.tx = cl[c].tx, !.keys = KeysOf(c), !.then = e]
           s == [cl[c] EXCEPT !.pc = "unmaskRead", !.call = NoCall, !.job = j]
<1>1. Fit(c, cl[c]) /\ cl[c] \in Local /\ KeysOf(c) \subseteq Key /\ KeysOf(c) # {}
      /\ cl[c].tx \in used /\ IsCommit(c)
  BY ClientFacts, OpFacts DEF Fit
<1>2. j \in Job /\ NoCall \in Call
  BY <1>1 DEF NoJob, Job, NoCall, Call, Unconditional, RejectRules, RulesType
<1>3. s \in Local
  BY <1>1, <1>2 DEF Local, Labels
<1>4. Fit(c, s)
  BY <1>1 DEF Fit, NoJob, CallLabels, JobLabels, Local
<1>5. GoOn(c, s)
  BY DEF StartUnmasking
<1> HIDE DEF s
<1> QED
  BY <1>3, <1>4, <1>5, GoOnKeeps

LEMMA WriteTKeeps == ASSUME TypeOK, NEW c \in Client, WriteT(c) PROVE TypeOK'
<1> DEFINE t == cl[c].tx
           j == [tx |-> t, keys |-> KeysOf(c), ver |-> tobj'[t].ver, then |-> "ok"]
<1>1. cl[c].pc = "writeT" /\ Fit(c, cl[c]) /\ cl[c] \in Local /\ KeysOf(c) \subseteq Key
      /\ t \in used /\ IsCommit(c) /\ DOMAIN intent[t] = KeysOf(c)
  BY ClientFacts DEF WriteT, At, Fit
<1>2. StoreOK' /\ tobj'[t].ver \in Nat /\ UNCHANGED <<used, intent, faults>>
  BY <1>1, TStore DEF WriteT
<1>3. CASE StartUnmasking(c, "TransactionExpired")
  <2>1. faults' \in [crash : Nat, interrupt : Nat]
    BY <1>2 DEF TypeOK
  <2> QED
    BY <1>1, <1>2, <1>3, <2>1, StartUnmaskingKeeps DEF Endings, Documented
<1>4. CASE GoOn(c, [cl[c] EXCEPT !.pc = "applyRead", !.job = j])
  <2>1. PICK s : s = [cl[c] EXCEPT !.pc = "applyRead", !.job = j]
    OBVIOUS
  <2>2. j \in Job
    BY <1>1, <1>2 DEF Job, Endings
  <2>3. s \in Local
    BY <1>1, <2>1, <2>2 DEF Local, Labels
  <2>4. Fit(c, s)
    BY <1>1, <2>1 DEF Fit, CallLabels, JobLabels, Local
  <2>5. GoOn(c, s)
    BY <1>4, <2>1
  <2> QED
    BY <1>2, <2>3, <2>4, <2>5, GoOnKeeps
<1> QED
  BY <1>3, <1>4 DEF WriteT

LEMMA InterruptWriteTKeeps ==
  ASSUME TypeOK, NEW c \in Client, InterruptWriteT(c) PROVE TypeOK'
<1>1. cl[c].pc = "writeT" /\ cl[c].tx \in used
  BY ClientFacts DEF InterruptWriteT, At, Fit
<1>2. StoreOK' /\ UNCHANGED <<used, intent>>
  BY <1>1, TStore DEF InterruptWriteT
<1>3. faults' \in [crash : Nat, interrupt : Nat]
  <2>1. faults' = [faults EXCEPT !.interrupt = @ + 1]
    BY DEF InterruptWriteT
  <2>2. faults \in [crash : Nat, interrupt : Nat]
    BY DEF TypeOK
  <2> QED
    BY <2>1, <2>2, SMT
<1>4. StartUnmasking(c, "KeyboardInterrupt")
  BY DEF InterruptWriteT
<1> QED
  BY <1>1, <1>2, <1>3, <1>4, StartUnmaskingKeeps DEF Endings, Documented

(* Key k is dealt with in _apply_mt.                                        *)
LEMMA AppliedKeeps ==
  ASSUME TypeOK, NEW c \in Client, cl[c].pc \in {"applyRead", "apply"}, NEW k,
         Applied(c, k), StoreOK', UNCHANGED <<used, intent, faults>>
  PROVE  TypeOK'
<1> DEFINE ks == Rest(c, k)
<1>1. Fit(c, cl[c]) /\ cl[c] \in Local /\ cl[c].job \in Job /\ ks \subseteq cl[c].job.keys
  BY ClientFacts DEF Rest, Fit, Local
<1>2. PICK l \in {"deleteT", "applyRead"} :
             GoOn(c, [cl[c] EXCEPT !.pc = l, !.job.keys = ks, !.call = NoCall])
  BY DEF Applied
<1>3. PICK s : s = [cl[c] EXCEPT !.pc = l, !.job.keys = ks, !.call = NoCall]
  OBVIOUS
<1>4. [cl[c].job EXCEPT !.keys = ks] \in Job /\ NoCall \in Call
  BY <1>1 DEF Job, NoCall, Call, Unconditional, RejectRules, RulesType
<1>5. s = [cl[c] EXCEPT !.pc = l, !.job = [cl[c].job EXCEPT !.keys = ks], !.call = NoCall]
  BY <1>1, <1>3 DEF Local, Job
<1>6. s \in Local
  BY <1>1, <1>4, <1>5 DEF Local, Labels
<1>7. s.pc = l /\ s.left = cl[c].left /\ s.tx = cl[c].tx /\ s.job.then = cl[c].job.then
      /\ s.job.tx = cl[c].job.tx /\ s.job.keys = ks
  BY <1>1, <1>5 DEF Local, Job
<1>8. Fit(c, s)
  BY <1>1, <1>7 DEF Fit, CallLabels, JobLabels
<1> QED
  BY <1>2, <1>3, <1>6, <1>8, GoOnKeeps

LEMMA ApplyReadKeeps == ASSUME TypeOK, NEW c \in Client, ApplyRead(c) PROVE TypeOK'
<1> DEFINE t == cl[c].job.tx
<1>1. cl[c].pc = "applyRead" /\ Fit(c, cl[c]) /\ cl[c] \in Local
      /\ t \in used /\ cl[c].job.keys \subseteq DOMAIN intent[t]
  BY ClientFacts DEF ApplyRead, At, Fit, JobLabels
<1>2. StoreOK' /\ UNCHANGED <<used, intent, faults>>
  BY StoreStays DEF ApplyRead
<1>3. PICK k \in cl[c].job.keys :
             IF MaskedBy(k, t)
               THEN Prepare(c, "apply", k, ApplyRules(obj[k].ver),
                            Plain(Result(intent[t][k], obj[k].body.data)))
               ELSE Applied(c, k)
  BY DEF ApplyRead
<1>4. k \in Key /\ intent[t][k] \in [kind : {"noop", "write", "delete"}, data : Data]
  BY <1>1 DEF TypeOK, StoreOK
<1>5. CASE MaskedBy(k, t)
  <2>1. obj[k].ver \in Nat /\ obj[k].body \in Object
    BY <1>4, <1>5 DEF TypeOK, StoreOK, MaskedBy, Exists
  <2>2. Result(intent[t][k], obj[k].body.data) \in Data
    BY <1>4, <2>1 DEF Result, Object, Data
  <2>3. ApplyRules(obj[k].ver) \in RulesType
        /\ Plain(Result(intent[t][k], obj[k].body.data)) \in {NoBody} \cup Object
    BY <2>1, <2>2 DEF ApplyRules, Exactly, RejectRules, RulesType, Plain, Packed, Object
  <2>4. ASSUME NEW rr \in RulesType, NEW b \in {NoBody} \cup Object
        PROVE  Fit(c, [cl[c] EXCEPT !.pc = "apply", !.call = [key |-> k, rr |-> rr, body |-> b]])
    BY <1>1, <1>4 DEF Fit, CallLabels, JobLabels, Local
  <2> QED
    BY <1>2, <1>3, <1>4, <1>5, <2>3, <2>4, PrepareKeeps DEF CallLabels
<1>6. CASE ~MaskedBy(k, t)
  BY <1>1, <1>2, <1>3, <1>6, AppliedKeeps
<1> QED
  BY <1>5, <1>6

LEMMA ApplyKeeps == ASSUME TypeOK, NEW c \in Client, Apply(c) PROVE TypeOK'
<1> DEFINE st == Err(CallStatus(c))
<1>1. cl[c].pc = "apply" /\ Fit(c, cl[c]) /\ cl[c].call.key \in Key
  BY ClientFacts DEF Apply, At, Fit, CallLabels
<1>2. StoreOK' /\ UNCHANGED <<used, intent, faults>>
  BY <1>1, SendCallStore DEF Apply
<1>3. st # "ok" => st \in Endings
  BY StatusRange DEF CallStatus
<1>4. Applied(c, cl[c].call.key) \/ (st # "ok" /\ Raise(c, st))
  BY DEF Apply
<1> HIDE DEF st
<1> QED
  BY <1>1, <1>2, <1>3, <1>4, AppliedKeeps, RaiseKeeps

LEMMA ReturnedType ==
  ASSUME TypeOK, NEW c \in Client, todo[c] # <<>>
  PROVE  Returned(c) \in [Key -> [ver : Nat, data : Data]]
<1> SUFFICES ASSUME NEW k \in Key PROVE Returned(c)[k] \in [ver : Nat, data : Data]
  BY DEF Returned
<1>1. known[c][k] \in [ver : Nat, data : Data] /\ cl[c].mver[k] \in [ver : Nat, data : Data]
  BY DEF TypeOK, Local
<1>2. ASSUME k \in KeysOf(c)
      PROVE  NewData(c, k) \in Value /\ KOp(c, k).kind \in {"noop", "write", "delete"}
  BY <1>2, NewDataType, OpFacts DEF KeyOp
<1> QED
  BY <1>1, <1>2 DEF Returned, Data

LEMMA DeleteTKeeps == ASSUME TypeOK, NEW c \in Client, DeleteT(c) PROVE TypeOK'
<1> DEFINE t == cl[c].job.tx
           st == Err(Status(NotNewerThan(cl[c].job.ver), tobj[t]))
<1>1. cl[c].pc = "deleteT" /\ Fit(c, cl[c]) /\ cl[c] \in Local /\ t \in used /\ todo[c] # <<>>
  BY ClientFacts DEF DeleteT, At, Fit, JobLabels
<1>2. StoreOK' /\ UNCHANGED <<used, intent, faults>>
  BY <1>1, TStore DEF DeleteT
<1>3. st # "ok" => st \in Endings
  BY StatusRange
<1>4. CASE st = "ok" /\ cl[c].job.then = "retry"
  <2>1. Reread(c, cl[c]) /\ cl[c].left # {}
    BY <1>1, <1>4 DEF DeleteT, Fit, JobLabels
  <2> QED
    BY <1>1, <1>2, <2>1, RereadKeeps
<1>5. CASE st = "ok" /\ cl[c].job.then = "ok"
  <2>1. known' = [known EXCEPT ![c] = Returned(c)] /\ End(c, "ok")
    BY <1>5 DEF DeleteT
  <2>2. known' \in [Client -> [Key -> [ver : Nat, data : Data]]]
    BY <1>1, <2>1, ReturnedType DEF TypeOK
  <2> QED
    BY <1>1, <1>2, <2>1, <2>2, EndKeeps DEF Endings
<1>6. CASE st = "VersionError"
  <2>1. Raise(c, "InconsistencyError")
    BY <1>6 DEF DeleteT
  <2> QED
    BY <1>1, <1>2, <2>1, RaiseKeeps DEF Endings
<1>7. CASE st \notin {"ok", "VersionError"}
  <2>1. Raise(c, st)
    BY <1>7 DEF DeleteT
  <2> HIDE DEF st
  <2> QED
    BY <1>1, <1>2, <1>3, <1>7, <2>1, RaiseKeeps
<1>8. cl[c].job.then \in {"retry", "ok"}
  BY <1>1 DEF Fit
<1> HIDE DEF st
<1> QED
  BY <1>4, <1>5, <1>6, <1>7, <1>8

LEMMA CrashKeeps == ASSUME TypeOK, NEW c \in Client, Crash(c) PROVE TypeOK'
<1> USE DEF Crash
<1>1. [Idle EXCEPT !.pc = "crashed"] \in Local
  BY DEF Idle, NoCall, NoJob, NoVersion, Local, Call, Job, Unconditional,
         RejectRules, RulesType, Labels, Data
<1>2. cl' \in [Client -> Local] /\ At(c, "crashed")'
  BY <1>1 DEF TypeOK, Idle, At
<1>3. cl' \in [Client -> Local']
  BY <1>2 DEF Local, Call, Job, Object
<1>4. todo' \in [Client -> Seq(UserOp)]
  BY DEF TypeOK
<1>5. ASSUME NEW d \in Client, d # c
      PROVE  At(d, "idle")' \/ At(d, "crashed")' \/ Fit(d, cl[d])'
  <2>1. cl'[d] = cl[d] /\ todo'[d] = todo[d]
    BY <1>5 DEF TypeOK
  <2>2. At(d, "idle") \/ At(d, "crashed") \/ Fit(d, cl[d])
    BY DEF TypeOK
  <2> QED
    BY <2>1, <2>2, FitStays
<1>6. StoreOK'
  BY StoreStays DEF TypeOK
<1>7. faults' \in [crash : Nat, interrupt : Nat]
  <2>1. faults \in [crash : Nat, interrupt : Nat]
    BY DEF TypeOK
  <2>2. faults' = [faults EXCEPT !.crash = @ + 1]
    OBVIOUS
  <2> QED
    BY ONLY <2>1, <2>2
<1>8. known' \in [Client -> [Key -> [ver : Nat, data : Data]]]
  BY DEF TypeOK
<1> QED
  BY <1>2, <1>3, <1>4, <1>5, <1>6, <1>7, <1>8 DEF TypeOK

-----------------------------------------------------------------------------
(* Type correctness.                                                        *)

LEMMA InitType == Init => TypeOK
<1> SUFFICES ASSUME Init PROVE TypeOK
  OBVIOUS
<1> USE DEF Init
<1>1. obj \in [Key -> [ver : Nat, body : {NoBody} \cup Object]]
  <2>1. PICK data \in InitialData :
          obj = [k \in Key |-> IF data[k] = NoData
                                THEN [ver |-> 0, body |-> NoBody]
                                ELSE [ver |-> 1, body |-> Packed(NoTx, data[k])]]
    OBVIOUS
  <2>2. data \in [Key -> Data]
    BY DataAssumption
  <2> QED
    BY <2>1, <2>2 DEF Packed, Object
<1>2. intent \in [TxId -> UNION {[S -> [kind : {"noop", "write", "delete"}, data : Data]] :
                                 S \in SUBSET Key}]
  <2>1. <<>> \in [{} -> [kind : {"noop", "write", "delete"}, data : Data]]
    OBVIOUS
  <2> QED
    BY <2>1
<1>3. StoreOK
  BY <1>1, <1>2 DEF StoreOK
<1>4. Idle \in Local
  BY DEF Idle, NoCall, NoJob, NoVersion, Local, Call, Job, Unconditional,
         RejectRules, RulesType, Labels, Data
<1>5. cl \in [Client -> Local] /\ \A c \in Client : At(c, "idle")
  BY <1>4 DEF At, Idle
<1>6. todo \in [Client -> Seq(UserOp)]
  BY ScriptAssumption
<1> QED
  BY <1>3, <1>5, <1>6 DEF TypeOK, Data

LEMMA StutterType == ASSUME TypeOK, UNCHANGED vars PROVE TypeOK'
<1>1. StoreOK' /\ Object' = Object
  BY StoreStays DEF vars, Object
<1>2. Local' = Local
  BY <1>1 DEF vars, Local, Call, Job
<1>3. ASSUME NEW d \in Client PROVE At(d, "idle")' \/ At(d, "crashed")' \/ Fit(d, cl[d])'
  BY FitStays DEF TypeOK, vars
<1> QED
  BY <1>1, <1>2, <1>3 DEF TypeOK, vars

(* Every step of a client keeps the types, whichever it is.                 *)
LEMMA NextType == ASSUME TypeOK, [Next]_vars PROVE TypeOK'
<1>1. CASE \E c \in Client : Step(c)
  BY <1>1, BeginKeeps, ReadObjectKeeps, MaskKeeps, UserCallKeeps, ReadTKeeps,
     ExpireKeeps, WriteTombstoneKeeps, UnmaskReadKeeps, UnmaskKeeps,
     DeleteTombstoneKeeps, WriteTKeeps, ApplyReadKeeps, ApplyKeeps, DeleteTKeeps
     DEF Step
<1>2. CASE \E c \in Client : Crash(c)
  BY <1>2, CrashKeeps
<1>3. CASE \E c \in Client : InterruptWriteT(c)
  BY <1>3, InterruptWriteTKeeps
<1>4. CASE Finished \/ UNCHANGED vars
  BY <1>4, StutterType DEF Finished
<1> QED
  BY <1>1, <1>2, <1>3, <1>4 DEF Next

(* The state of the protocol always has its type: in particular each step   *)
(* of a client finds the operation, the keys, the transaction id and the    *)
(* intent that it uses, and only ids that were handed out are in headers.   *)
THEOREM TypeCorrect == Spec => []TypeOK
BY InitType, NextType, PTL DEF Spec

-----------------------------------------------------------------------------
(* The inductive invariant of the masks.                                    *)

(* Client c has masks to put down, or all of them, and no T yet.            *)
Masking(c) == cl[c].tx # NoTx /\ cl[c].job.then = "retry"

(* Client c applies a transaction, removes the masks of another client's    *)
(* transaction, or ends its own with an exception or a result.              *)
Applying(c) == cl[c].pc \in {"applyRead", "apply", "deleteT"}
Cleaning(c) == cl[c].pc \in {"unmaskRead", "unmask"} /\ cl[c].job.then = "retry"
Ending(c)   == cl[c].job.then # "retry"

NoMask(t) == \A k \in Key : ~MaskedBy(k, t)

(* No mask of t is left, and none will come.                                *)
Gone(t) == NoMask(t) /\ \A c \in Client : cl[c].tx = t => ~Masking(c)

ObjectInv(k) ==
  Exists(obj[k]) =>
    /\ obj[k].ver > 0
    /\ obj[k].body.tx = NoTx => obj[k].body.data # NoData
    /\ obj[k].body.tx # NoTx => k \in DOMAIN intent[obj[k].body.tx]

(* What c knows of k is not newer than the object, and right if it is as    *)
(* new.                                                                     *)
KnownInv(c, k) ==
  /\ known[c][k].ver <= obj[k].ver
  /\ (Exists(obj[k]) /\ obj[k].ver = known[c][k].ver) =>
       obj[k].body = Packed(NoTx, known[c][k].data)

(* The rules of a call let it replace no object but one masked by t (one    *)
(* that is not masked, if t is NoTx).                                       *)
Guarded(q, t) ==
  \/ q.rr.exists
  \/ /\ q.rr.gtGiven
     /\ q.rr.given <= obj[q.key].ver
     /\ (Exists(obj[q.key]) /\ obj[q.key].ver = q.rr.given) => obj[q.key].body.tx = t

(* Does c still demand of k the version it knows?                           *)
Same(c, k) == KOp(c, k).rule = "same"

(* Is k only included in the transaction of c?                              *)
Noop(c, k) == KOp(c, k).kind = "noop"

CallInv(c) ==
  LET q == cl[c].call
      t == cl[c].job.tx
  IN  /\ cl[c].pc \in {"mask", "user", "direct"} => Guarded(q, NoTx)
      /\ cl[c].pc \in {"unmask", "apply"} => Guarded(q, t)
      /\ cl[c].pc = "mask" =>
           /\ q.key \in cl[c].left /\ q.body # NoBody /\ q.body.tx = cl[c].tx
           /\ Same(c, q.key) =>
                q.body.data = known[c][q.key].data /\ q.body.data # NoData
           /\ Noop(c, q.key) => q.body.data # NoData
      /\ cl[c].pc \in {"user", "direct", "unmask", "apply"} =>
           q.body = NoBody \/ (q.body.tx = NoTx /\ q.body.data # NoData)
      /\ (cl[c].pc = "apply" /\ MaskedBy(q.key, t)) =>
           /\ obj[q.key].ver = q.rr.given
           /\ q.body = Plain(Result(intent[t][q.key], obj[q.key].body.data))

ShapeInv(c) ==
  /\ cl[c].pc \in {"idle", "crashed"} => cl[c].tx = NoTx
  /\ cl[c].pc \in {"idle", "crashed", "read", "mask", "user", "direct", "writeT"} =>
       cl[c].job.then = "retry"
  /\ cl[c].job.then = "ok" => Applying(c)
  /\ Ending(c) => cl[c].tx # NoTx /\ cl[c].job.tx = cl[c].tx
  /\ cl[c].pc = "writeT" => cl[c].left = {}
  /\ cl[c].pc \in {"deleteT", "deleteTombstone"} => cl[c].job.keys = {}
  /\ cl[c].tx # NoTx => intent[cl[c].tx] = Intent(c)

(* While c puts down its masks: it has yet to put down those of left, and   *)
(* has lost none of the others unless a tombstone is there.                 *)
MaskInv(c) ==
  LET t == cl[c].tx
  IN  Masking(c) =>
        /\ tobj[t].body # "MiniTransaction"
        /\ \A k \in cl[c].left : ~MaskedBy(k, t)
        /\ ~Exists(tobj[t]) =>
             \A k \in Masked(c) : MaskedBy(k, t) /\ obj[k].ver = cl[c].mver[k].ver

(* Who takes masks off, and on which grounds.                               *)
RemoveInv(c) ==
  LET t == cl[c].job.tx
  IN  /\ Applying(c) \/ Ending(c) => \A k \in Key \ cl[c].job.keys : ~MaskedBy(k, t)
      /\ Cleaning(c) => tobj[t].body = "Tombstone" \/ Gone(t)
      /\ Applying(c) => tobj[t].body = "MiniTransaction" \/ NoMask(t)

(* What mt_commit is going to return of k.                                  *)
Informs(c, k) == KOp(c, k).kind = "write" \/ Noop(c, k)

ReturnInv(c, k) ==
  LET t == cl[c].tx
  IN  /\ (MaskedBy(k, t) /\ Same(c, k)) =>
           obj[k].body.data = known[c][k].data /\ obj[k].body.data # NoData
      /\ (MaskedBy(k, t) /\ Noop(c, k)) =>
           obj[k].body.data = cl[c].mver[k].data /\ obj[k].body.data # NoData
      /\ (cl[c].job.then = "ok" /\ MaskedBy(k, t)) => obj[k].ver = cl[c].mver[k].ver
      /\ (cl[c].job.then = "ok" /\ ~MaskedBy(k, t) /\ Informs(c, k)) =>
           /\ obj[k].ver > cl[c].mver[k].ver
           /\ (Exists(obj[k]) /\ obj[k].ver = cl[c].mver[k].ver + 1) =>
                obj[k].body = Packed(NoTx, Returned(c)[k].data)

ClientInv(c) ==
  /\ CallInv(c) /\ ShapeInv(c) /\ MaskInv(c) /\ RemoveInv(c)
  /\ \A k \in Key : KnownInv(c, k)
  /\ cl[c].tx # NoTx => \A k \in KeysOf(c) : ReturnInv(c, k)

(* A transaction has one coordinator, and is applied only when it has ended *)
(* to put down masks.                                                       *)
PairInv(c, d) ==
  /\ (c # d /\ cl[c].tx # NoTx) => cl[c].tx # cl[d].tx
  /\ (Masking(c) /\ Applying(d)) => cl[d].job.tx # cl[c].tx

MaskProtocol ==
  /\ \A t \in TxId \ used : ~Exists(tobj[t])
  /\ \A k \in Key : ObjectInv(k)
  /\ \A c \in Client : ClientInv(c)
  /\ \A c, d \in Client : PairInv(c, d)

-----------------------------------------------------------------------------
(* What a step of client c does, as far as other clients can tell.          *)

ObjStep(c) ==
  \/ UNCHANGED obj
  \/ /\ cl[c].pc \in CallLabels /\ CallStatus(c) = "ok"
     /\ obj' = [obj EXCEPT ![cl[c].call.key] = Changed(@, cl[c].call.body)]

TStep(c) ==
  \A t \in TxId :
    \/ tobj'[t] = tobj[t]
    \/ /\ cl[c].pc = "writeTombstone" /\ t = cl[c].job.tx
       /\ ~Exists(tobj[t]) /\ tobj'[t].body = "Tombstone"
    \/ /\ cl[c].pc = "writeT" /\ t = cl[c].tx
       /\ ~Exists(tobj[t]) /\ tobj'[t].body = "MiniTransaction"
    \/ cl[c].pc = "deleteT" /\ t = cl[c].job.tx /\ tobj'[t].body = NoBody
    \/ cl[c].pc = "deleteTombstone" /\ t = cl[c].tx /\ tobj'[t].body = NoBody

(* Nobody but c moves, and ids keep their meaning.                          *)
Alone(c) ==
  /\ used \subseteq used' /\ \A t \in used : intent'[t] = intent[t]
  /\ \A d \in Client \ {c} :
       cl'[d] = cl[d] /\ todo'[d] = todo[d] /\ known'[d] = known[d]

(* c puts down masks for the transaction it is at or for a new one, and     *)
(* turns to applying one that is committed, or its own.                     *)
Turns(c) ==
  /\ cl'[c].tx = cl[c].tx \/ cl'[c].tx = NoTx \/ cl'[c].tx \in TxId \ used
  /\ (cl'[c].tx = cl[c].tx /\ Ending(c)) => Ending(c)' \/ cl[c].tx = NoTx
  /\ Applying(c)' =>
       /\ cl'[c].tx = cl[c].tx
       /\ \/ Applying(c) /\ cl'[c].job.tx = cl[c].job.tx
          \/ tobj[cl'[c].job.tx].body = "MiniTransaction"
          \/ cl'[c].job.tx = cl[c].tx /\ Ending(c)'

StepOf(c) == ObjStep(c) /\ TStep(c) /\ Alone(c) /\ Turns(c)

-----------------------------------------------------------------------------
(* What a step does to objects and masks.                                   *)

LEMMA UsedIds ==
  ASSUME TypeOK
  PROVE  /\ used \subseteq TxId /\ NoTx \notin TxId
         /\ \A c \in Client : cl[c] \in Local /\ cl[c].tx \in used \cup {NoTx}
                                /\ cl[c].job.tx \in used \cup {NoTx}
         /\ \A k \in Key : obj[k] \in [ver : Nat, body : {NoBody} \cup Object]
BY NullAssumption DEF TypeOK, StoreOK, Local, Job

(* Versions only grow, and an object that keeps its version is the same or  *)
(* is gone.                                                                 *)
LEMMA ObjectsGrow ==
  ASSUME TypeOK, NEW c \in Client, ObjStep(c), NEW k \in Key
  PROVE  \/ obj'[k] = obj[k]
         \/ obj'[k].ver = obj[k].ver + 1
         \/ obj'[k].ver = obj[k].ver /\ ~Exists(obj'[k])
<1>1. obj[k].ver \in Nat /\ obj \in [Key -> [ver : Nat, body : {NoBody} \cup Object]]
  BY DEF TypeOK, StoreOK
<1>2. CASE obj' = [obj EXCEPT ![cl[c].call.key] = Changed(@, cl[c].call.body)]
  <2>1. obj'[k] = obj[k] \/ obj'[k] = Changed(obj[k], cl[c].call.body)
    BY <1>1, <1>2
  <2>2. obj[k] \in [ver : Nat, body : {NoBody} \cup Object]
    BY <1>1
  <2> QED
    BY <2>1, <2>2 DEF Changed, Written, Deleted, Exists
<1> QED
  BY <1>2 DEF ObjStep

(* An accepted call replaces no object but the one it is meant for.         *)
LEMMA GuardedCall ==
  ASSUME TypeOK, NEW c \in Client, CallStatus(c) = "ok", cl[c].call.key \in Key, NEW t,
         Guarded(cl[c].call, t), Exists(obj[cl[c].call.key])
  PROVE  obj[cl[c].call.key].body.tx = t
<1> DEFINE q == cl[c].call
           o == obj[q.key]
<1>1. q.rr \in RulesType /\ o.ver \in Nat
  BY UsedIds DEF Local, Call
<1>2. ~q.rr.exists /\ ~(q.rr.gtGiven /\ o.ver > q.rr.given)
  BY DEF CallStatus, Status
<1>3. q.rr.gtGiven /\ q.rr.given <= o.ver /\ (o.ver = q.rr.given => o.body.tx = t)
  BY <1>2 DEF Guarded
<1>4. q.rr.given \in Nat
  BY <1>1 DEF RulesType
<1> QED
  BY <1>1, <1>2, <1>3, <1>4

(* A mask stays as it is, unless it is taken off by a client that applies   *)
(* or unmasks its transaction.                                              *)
LEMMA MaskOff ==
  ASSUME TypeOK, MaskProtocol, NEW c \in Client, ObjStep(c),
         NEW k \in Key, NEW t \in TxId, MaskedBy(k, t)
  PROVE  \/ obj'[k] = obj[k]
         \/ /\ cl[c].pc \in {"unmask", "apply"} /\ cl[c].job.tx = t
            /\ cl[c].call.key = k
            /\ obj'[k] = Changed(obj[k], cl[c].call.body)
<1> SUFFICES ASSUME obj'[k] # obj[k]
             PROVE  /\ cl[c].pc \in {"unmask", "apply"} /\ cl[c].job.tx = t
                    /\ cl[c].call.key = k
                    /\ obj'[k] = Changed(obj[k], cl[c].call.body)
  OBVIOUS
<1>1. /\ cl[c].pc \in CallLabels /\ CallStatus(c) = "ok"
      /\ obj' = [obj EXCEPT ![cl[c].call.key] = Changed(@, cl[c].call.body)]
  BY DEF ObjStep
<1>2. obj \in [Key -> [ver : Nat, body : {NoBody} \cup Object]]
  BY DEF TypeOK, StoreOK
<1>3. cl[c].call.key = k /\ obj'[k] = Changed(obj[k], cl[c].call.body)
  BY <1>1, <1>2
<1>4. Exists(obj[k]) /\ obj[k].body.tx = t /\ t # NoTx
  BY UsedIds DEF MaskedBy
<1>5. cl[c].pc \in {"unmask", "apply"}
  <2>1. ASSUME cl[c].pc \in {"mask", "user", "direct"} PROVE FALSE
    <3>1. Guarded(cl[c].call, NoTx)
      BY <2>1 DEF MaskProtocol, ClientInv, CallInv
    <3> QED
      BY <1>1, <1>3, <1>4, <3>1, GuardedCall
  <2> QED
    BY <1>1, <2>1 DEF CallLabels
<1>6. Guarded(cl[c].call, cl[c].job.tx)
  BY <1>5 DEF MaskProtocol, ClientInv, CallInv
<1>7. cl[c].job.tx = t
  BY <1>1, <1>3, <1>4, <1>6, GuardedCall
<1> QED
  BY <1>3, <1>5, <1>7

(* A new mask is put down by the coordinator of its transaction.            *)
LEMMA MaskOn ==
  ASSUME TypeOK, MaskProtocol, NEW c \in Client, ObjStep(c),
         NEW k \in Key, NEW t \in TxId, MaskedBy(k, t)'
  PROVE  \/ obj'[k] = obj[k]
         \/ /\ cl[c].pc = "mask" /\ cl[c].tx = t /\ cl[c].call.key = k
            /\ CallStatus(c) = "ok" /\ Masking(c)
            /\ obj'[k] = Written(obj[k], cl[c].call.body)
<1> SUFFICES ASSUME obj'[k] # obj[k]
             PROVE  /\ cl[c].pc = "mask" /\ cl[c].tx = t /\ cl[c].call.key = k
                    /\ CallStatus(c) = "ok" /\ Masking(c)
                    /\ obj'[k] = Written(obj[k], cl[c].call.body)
  OBVIOUS
<1>1. /\ cl[c].pc \in CallLabels /\ CallStatus(c) = "ok"
      /\ obj' = [obj EXCEPT ![cl[c].call.key] = Changed(@, cl[c].call.body)]
  BY DEF ObjStep
<1>2. obj \in [Key -> [ver : Nat, body : {NoBody} \cup Object]]
  BY DEF TypeOK, StoreOK
<1>3. cl[c].call.key = k /\ obj'[k] = Changed(obj[k], cl[c].call.body)
  BY <1>1, <1>2
<1>4. Exists(obj'[k]) /\ obj'[k].body.tx = t /\ t # NoTx
  BY UsedIds DEF MaskedBy
<1>5. cl[c].call.body # NoBody /\ obj'[k] = Written(obj[k], cl[c].call.body)
  BY <1>3, <1>4, <1>2 DEF Changed, Deleted, Exists
<1>6. cl[c].call.body.tx = t
  BY <1>4, <1>5 DEF Written
<1>7. CallInv(c) /\ ShapeInv(c)
  BY DEF MaskProtocol, ClientInv
<1>8. cl[c].pc = "mask"
  BY <1>1, <1>4, <1>5, <1>6, <1>7 DEF CallInv, CallLabels
<1>9. cl[c].tx = t /\ Masking(c)
  BY <1>4, <1>6, <1>7, <1>8 DEF CallInv, ShapeInv, Masking
<1> QED
  BY <1>1, <1>3, <1>5, <1>8, <1>9

LEMMA ObjectsKeep ==
  ASSUME TypeOK, TypeOK', MaskProtocol, NEW c \in Client, StepOf(c), NEW k \in Key
  PROVE  ObjectInv(k)'
<1> SUFFICES ASSUME Exists(obj'[k])
             PROVE  /\ obj'[k].ver > 0
                    /\ obj'[k].body.tx = NoTx => obj'[k].body.data # NoData
                    /\ obj'[k].body.tx # NoTx => k \in DOMAIN intent'[obj'[k].body.tx]
  BY DEF ObjectInv, Exists
<1>1. ObjStep(c) /\ Alone(c)
  BY DEF StepOf
<1>2. obj[k] \in [ver : Nat, body : {NoBody} \cup Object] /\ ObjectInv(k)
  BY UsedIds DEF MaskProtocol
<1>3. CASE obj'[k] = obj[k]
  <2>1. obj[k].body \in Object
    BY <1>2, <1>3 DEF Exists
  <2> QED
    BY <1>1, <1>2, <1>3, <2>1 DEF ObjectInv, Alone, Object
<1>4. CASE obj'[k] # obj[k]
  <2> DEFINE q == cl[c].call
  <2>1. /\ cl[c].pc \in CallLabels /\ CallStatus(c) = "ok"
        /\ obj' = [obj EXCEPT ![q.key] = Changed(@, q.body)]
    BY <1>1, <1>4 DEF ObjStep
  <2>2. obj \in [Key -> [ver : Nat, body : {NoBody} \cup Object]]
    BY DEF TypeOK, StoreOK
  <2>3. q.key = k /\ obj'[k] = Changed(obj[k], q.body)
    BY <1>4, <2>1, <2>2
  <2>4. q.body # NoBody /\ obj'[k] = Written(obj[k], q.body)
    BY <1>2, <2>3 DEF Changed, Deleted, Exists
  <2>5. obj'[k].ver = obj[k].ver + 1 /\ obj'[k].body = q.body
    BY <2>4 DEF Written
  <2>6. CallInv(c) /\ ShapeInv(c)
    BY DEF MaskProtocol, ClientInv
  <2>7. CASE q.body.tx = NoTx
    <3>1. cl[c].pc \in {"user", "direct", "unmask", "apply"} \/ cl[c].pc = "mask"
      BY <2>1 DEF CallLabels
    <3>2. cl[c].pc # "mask"
      <4>1. ASSUME cl[c].pc = "mask" PROVE FALSE
        <5>1. cl[c].tx = NoTx /\ Fit(c, cl[c])
          BY <2>6, <2>7, <4>1, ClientFacts DEF CallInv
        <5>2. IsCommit(c)
          BY <4>1, <5>1 DEF Fit
        <5> QED
          BY <5>1, <5>2, UsedIds DEF Fit
      <4> QED
        BY <4>1
    <3>3. q.body.data # NoData
      BY <2>4, <2>6, <3>1, <3>2 DEF CallInv
    <3> QED
      BY <1>2, <2>5, <2>7, <3>3
  <2>8. CASE q.body.tx # NoTx
    <3>1. cl[c].pc = "mask" /\ q.body.tx = cl[c].tx /\ k \in cl[c].left
      BY <2>1, <2>3, <2>4, <2>6, <2>8 DEF CallInv, CallLabels
    <3>2. Fit(c, cl[c])
      BY <3>1, ClientFacts
    <3>3. k \in KeysOf(c) /\ cl[c].tx \in used /\ DOMAIN intent[cl[c].tx] = KeysOf(c)
      BY <3>1, <3>2 DEF Fit
    <3>4. intent'[cl[c].tx] = intent[cl[c].tx]
      BY <1>1, <3>3 DEF Alone
    <3> QED
      BY <1>2, <2>5, <2>8, <3>1, <3>3, <3>4
  <2> QED
    BY <2>7, <2>8
<1> QED
  BY <1>3, <1>4

LEMMA KnownKeeps ==
  ASSUME TypeOK, TypeOK', MaskProtocol, NEW c \in Client, ObjStep(c),
         NEW d \in Client, NEW k \in Key, known'[d][k] = known[d][k]
  PROVE  KnownInv(d, k)'
<1>1. KnownInv(d, k)
  BY DEF MaskProtocol, ClientInv
<1>2. known[d][k].ver \in Nat /\ obj[k].ver \in Nat
  BY DEF TypeOK, StoreOK
<1>3. CASE obj'[k] = obj[k]
  BY <1>1, <1>3 DEF KnownInv
<1>4. CASE obj'[k].ver = obj[k].ver + 1
  <2>1. known'[d][k].ver < obj'[k].ver
    BY <1>1, <1>2, <1>4 DEF KnownInv
  <2>2. known'[d][k].ver \in Nat /\ obj'[k].ver \in Nat
    BY <1>2, <1>4
  <2> QED
    BY <2>1, <2>2 DEF KnownInv
<1>5. CASE obj'[k].ver = obj[k].ver /\ ~Exists(obj'[k])
  BY <1>1, <1>5 DEF KnownInv, Exists
<1> QED
  BY <1>3, <1>4, <1>5, ObjectsGrow

-----------------------------------------------------------------------------
(* The end of a transaction.                                                *)

(* No client puts down masks of t.                                          *)
NoCoord(t) == \A e \in Client : cl[e].tx = t => ~Masking(e)

LEMMA NoNewMask ==
  ASSUME TypeOK, MaskProtocol, NEW c \in Client, ObjStep(c),
         NEW t \in TxId, NoCoord(t), NEW k \in Key, ~MaskedBy(k, t)
  PROVE  ~MaskedBy(k, t)'
BY MaskOn DEF NoCoord, MaskedBy, Exists

(* A client that applies t finds no coordinator that still puts down masks. *)
LEMMA AppliedUncoordinated ==
  ASSUME TypeOK, MaskProtocol, NEW d \in Client, Applying(d)
  PROVE  cl[d].job.tx \in used /\ cl[d].job.tx \in TxId /\ NoCoord(cl[d].job.tx)
<1>1. Fit(d, cl[d])
  BY ClientFacts DEF Applying
<1>2. cl[d].job.tx \in used
  BY <1>1 DEF Fit, JobLabels, Applying
<1>3. NoCoord(cl[d].job.tx)
  BY DEF MaskProtocol, PairInv, NoCoord
<1> QED
  BY <1>2, <1>3, UsedIds

(* Nor does one that ends its own transaction.                              *)
LEMMA EndedUncoordinated ==
  ASSUME TypeOK, MaskProtocol, NEW d \in Client, Ending(d)
  PROVE  /\ cl[d].tx \in used /\ cl[d].tx \in TxId /\ NoCoord(cl[d].tx)
         /\ cl[d].job.tx = cl[d].tx
<1>1. ShapeInv(d)
  BY DEF MaskProtocol, ClientInv
<1>2. cl[d].tx # NoTx /\ cl[d].job.tx = cl[d].tx
  BY <1>1 DEF ShapeInv
<1>3. ASSUME NEW e \in Client, cl[e].tx = cl[d].tx PROVE ~Masking(e)
  <2>1. e = d
    BY <1>2, <1>3 DEF MaskProtocol, PairInv
  <2> QED
    BY <2>1 DEF Ending, Masking
<1> QED
  BY <1>2, <1>3, UsedIds DEF NoCoord

(* T or a tombstone is deleted when no mask of its transaction is left.     *)
LEMMA DeletedIsGone ==
  ASSUME TypeOK, MaskProtocol, NEW c \in Client, StepOf(c),
         NEW t \in TxId, tobj'[t] # tobj[t],
         ~(cl[c].pc \in {"writeTombstone", "writeT"})
  PROVE  Gone(t) /\ UNCHANGED obj
<1>1. ObjStep(c) /\ TStep(c)
  BY DEF StepOf
<1>2. RemoveInv(c) /\ ShapeInv(c)
  BY DEF MaskProtocol, ClientInv
<1>3. CASE cl[c].pc = "deleteT" /\ t = cl[c].job.tx
  <2>1. Applying(c) /\ cl[c].job.keys = {}
    BY <1>2, <1>3 DEF Applying, ShapeInv
  <2>2. NoMask(t) /\ NoCoord(t)
    BY <1>2, <1>3, <2>1, AppliedUncoordinated DEF RemoveInv, NoMask
  <2> QED
    BY <1>1, <1>3, <2>2 DEF Gone, NoCoord, ObjStep, CallLabels
<1>4. CASE cl[c].pc = "deleteTombstone" /\ t = cl[c].tx
  <2>1. Fit(c, cl[c]) /\ cl[c].job.keys = {}
    BY <1>2, <1>4, ClientFacts DEF ShapeInv
  <2>2. Ending(c)
    BY <1>4, <2>1 DEF Fit, Ending
  <2>3. NoMask(t) /\ NoCoord(t)
    BY <1>2, <1>4, <2>1, <2>2, EndedUncoordinated DEF RemoveInv, NoMask
  <2> QED
    BY <1>1, <1>4, <2>3 DEF Gone, NoCoord, ObjStep, CallLabels
<1> QED
  BY <1>1, <1>3, <1>4 DEF TStep

LEMMA UncoordinatedStays ==
  ASSUME TypeOK, NEW c \in Client, StepOf(c), NEW t \in used, NoCoord(t)
  PROVE  NoCoord(t)'
<1> SUFFICES ASSUME NEW e \in Client, cl'[e].tx = t PROVE ~Masking(e)'
  BY DEF NoCoord
<1>1. Alone(c) /\ Turns(c) /\ t # NoTx
  BY UsedIds DEF StepOf
<1>2. CASE e # c
  BY <1>1, <1>2 DEF Alone, NoCoord, Masking
<1>3. CASE e = c
  <2>1. cl'[c].tx = cl[c].tx
    BY <1>1, <1>3 DEF Turns
  <2>2. Ending(c)
    BY <1>1, <1>3, <2>1 DEF NoCoord, Masking, Ending
  <2> QED
    BY <1>1, <1>3, <2>1, <2>2 DEF Turns, Masking, Ending
<1> QED
  BY <1>2, <1>3

LEMMA NoMaskStays ==
  ASSUME TypeOK, MaskProtocol, NEW c \in Client, StepOf(c), NEW t \in used,
         NoCoord(t), NoMask(t)
  PROVE  NoMask(t)'
<1> SUFFICES ASSUME NEW k \in Key PROVE ~MaskedBy(k, t)'
  BY DEF NoMask
<1> QED
  BY NoNewMask, UsedIds DEF StepOf, NoMask

LEMMA GoneStays ==
  ASSUME TypeOK, MaskProtocol, NEW c \in Client, StepOf(c), NEW t \in used, Gone(t)
  PROVE  Gone(t)'
<1>1. NoCoord(t) /\ NoMask(t)
  BY DEF Gone, NoCoord
<1>2. NoCoord(t)' /\ NoMask(t)'
  BY <1>1, NoMaskStays, UncoordinatedStays
<1> QED
  BY <1>2 DEF Gone, NoCoord

(* A tombstone stays until its transaction is gone for ever, and so does T. *)
LEMMA SealStays ==
  ASSUME TypeOK, MaskProtocol, NEW c \in Client, StepOf(c), NEW t \in used,
         NEW b \in {"MiniTransaction", "Tombstone"}, tobj[t].body = b \/ Gone(t)
  PROVE  (tobj[t].body = b \/ Gone(t))'
<1>1. t \in TxId /\ TStep(c) /\ b # NoBody
  BY UsedIds, BodyAssumption DEF StepOf
<1>2. CASE Gone(t)
  BY <1>2, GoneStays
<1>3. CASE tobj[t].body = b /\ tobj'[t] # tobj[t]
  <2>1. Exists(tobj[t])
    BY <1>1, <1>3 DEF Exists
  <2>2. ~(cl[c].pc \in {"writeTombstone", "writeT"})
    BY <1>1, <1>3, <2>1 DEF TStep
  <2>3. Gone(t)
    BY <1>1, <1>3, <2>2, DeletedIsGone
  <2> QED
    BY <2>3, GoneStays
<1>4. CASE tobj[t].body = b /\ tobj'[t] = tobj[t]
  BY <1>4
<1> QED
  BY <1>2, <1>3, <1>4

-----------------------------------------------------------------------------
(* What holds of a client while another one, or a part of it, moves.        *)

(* A client has only one transaction.                                       *)
LEMMA SameCoordinator ==
  ASSUME MaskProtocol, NEW c \in Client, NEW d \in Client, cl[c].tx = cl[d].tx,
         cl[c].tx # NoTx
  PROVE  c = d
BY DEF MaskProtocol, PairInv

LEMMA OpStays ==
  ASSUME NEW d, todo'[d] = todo[d]
  PROVE  /\ Op(d)' = Op(d) /\ KeysOf(d)' = KeysOf(d) /\ IsCommit(d)' = IsCommit(d)
         /\ \A k : KOp(d, k)' = KOp(d, k)
BY DEF Op, KeysOf, IsCommit, KOp

(* A client takes off a mask of another one that still puts down masks only *)
(* when there is a tombstone.                                               *)
LEMMA MaskTakenOff ==
  ASSUME TypeOK, MaskProtocol, NEW c \in Client, NEW d \in Client,
         Masking(d), cl[c].pc \in {"unmask", "apply"}, cl[c].job.tx = cl[d].tx
  PROVE  tobj[cl[d].tx].body = "Tombstone"
<1>1. cl[c].pc # "apply"
  BY DEF MaskProtocol, PairInv, Applying
<1>2. ~Ending(c)
  <2>1. ASSUME Ending(c) PROVE FALSE
    BY <2>1, EndedUncoordinated DEF NoCoord
  <2> QED
    BY <2>1
<1>3. Cleaning(c)
  BY <1>1, <1>2 DEF Cleaning, Ending
<1>4. RemoveInv(c)
  BY DEF MaskProtocol, ClientInv
<1> QED
  BY <1>3, <1>4 DEF RemoveInv, Gone

LEMMA MaskInvKeeps ==
  ASSUME TypeOK, MaskProtocol, NEW c \in Client, StepOf(c), NEW d \in Client,
         cl'[d].tx = cl[d].tx, cl'[d].left = cl[d].left, cl'[d].mver = cl[d].mver,
         todo'[d] = todo[d], Masking(d)' => Masking(d),
         d = c => cl[c].pc # "writeT" /\ (cl[c].pc = "mask" => UNCHANGED obj)
  PROVE  MaskInv(d)'
<1> DEFINE t == cl[d].tx
<1> SUFFICES ASSUME Masking(d)'
             PROVE  /\ tobj'[t].body # "MiniTransaction"
                    /\ \A k \in cl[d].left : ~MaskedBy(k, t)'
                    /\ ~Exists(tobj'[t]) =>
                         \A k \in Masked(d)' : MaskedBy(k, t)' /\ obj'[k].ver = cl[d].mver[k].ver
  BY DEF MaskInv, MaskedBy, Exists
<1>1. Masking(d) /\ MaskInv(d) /\ ObjStep(c) /\ TStep(c)
  BY DEF MaskProtocol, ClientInv, StepOf
<1>2. t \in used /\ t \in TxId /\ t # NoTx
  BY <1>1, UsedIds DEF Masking
<1>3. cl[d].left \subseteq Key /\ Masked(d)' = Masked(d) /\ Masked(d) \subseteq Key
  <2>1. cl[d].left \subseteq Key
    BY DEF TypeOK, Local
  <2>2. Masked(d)' = Masked(d)
    BY OpStays DEF Masked
  <2>3. KeysOf(d) \subseteq Key
    <3>1. ShapeInv(d) /\ cl[d].pc \notin {"idle", "crashed"}
      BY <1>2 DEF MaskProtocol, ClientInv, ShapeInv
    <3> QED
      BY <3>1, ClientFacts
  <2> QED
    BY <2>1, <2>2, <2>3 DEF Masked
<1>4. ASSUME NEW k \in Key, MaskedBy(k, t)' PROVE obj'[k] = obj[k]
  BY <1>1, <1>2, <1>4, MaskOn, SameCoordinator
<1>5. tobj'[t].body # "MiniTransaction"
  <2>1. CASE tobj'[t] = tobj[t]
    BY <1>1, <2>1 DEF MaskInv
  <2>2. CASE tobj'[t] # tobj[t]
    <3>1. ~(cl[c].pc = "writeT" /\ t = cl[c].tx)
      BY <1>2, SameCoordinator
    <3> QED
      BY <1>1, <1>2, <2>2, <3>1, BodyAssumption DEF TStep
  <2> QED
    BY <2>1, <2>2
<1>6. ASSUME NEW k \in cl[d].left PROVE ~MaskedBy(k, t)'
  <2>1. ASSUME MaskedBy(k, t)' PROVE FALSE
    <3>1. obj'[k] = obj[k]
      BY <1>3, <1>4, <2>1
    <3> QED
      BY <1>1, <2>1, <3>1 DEF MaskInv, MaskedBy
  <2> QED
    BY <2>1
<1>7. ASSUME ~Exists(tobj'[t]), NEW k \in Masked(d)
      PROVE  MaskedBy(k, t)' /\ obj'[k].ver = cl[d].mver[k].ver
  <2>1. ~Exists(tobj[t])
    <3>1. CASE tobj'[t] = tobj[t]
      BY <1>7, <3>1
    <3>2. CASE tobj'[t] # tobj[t]
      <4>1. CASE cl[c].pc \in {"writeTombstone", "writeT"}
        BY <1>1, <1>2, <3>2, <4>1 DEF TStep
      <4>2. CASE ~(cl[c].pc \in {"writeTombstone", "writeT"})
        <5>1. Gone(t)
          BY <1>2, <3>2, <4>2, DeletedIsGone
        <5> QED
          BY <1>1, <5>1 DEF Gone
      <4> QED
        BY <4>1, <4>2
    <3> QED
      BY <3>1, <3>2
  <2>2. MaskedBy(k, t) /\ obj[k].ver = cl[d].mver[k].ver /\ k \in Key
    BY <1>1, <1>3, <1>7, <2>1 DEF MaskInv
  <2>3. obj'[k] = obj[k]
    <3>1. ASSUME cl[c].pc \in {"unmask", "apply"}, cl[c].job.tx = t PROVE FALSE
      <4>1. tobj[t].body = "Tombstone"
        BY <1>1, <3>1, MaskTakenOff
      <4> QED
        BY <2>1, <4>1, BodyAssumption DEF Exists
    <3> QED
      BY <1>1, <1>2, <2>2, <3>1, MaskOff
  <2> QED
    BY <2>2, <2>3 DEF MaskedBy
<1> QED
  BY <1>3, <1>5, <1>6, <1>7

(* What the transaction of d says of its keys.                              *)
LEMMA IntentFacts ==
  ASSUME TypeOK, MaskProtocol, NEW d \in Client, cl[d].tx # NoTx, NEW k \in KeysOf(d)
  PROVE  /\ intent[cl[d].tx][k] = [kind |-> KOp(d, k).kind, data |-> NewData(d, k)]
         /\ NewData(d, k) \in Value /\ k \in Key /\ todo[d] # <<>>
         /\ cl[d].tx \in used /\ cl[d].tx \in TxId
<1>1. ShapeInv(d) /\ cl[d].pc \notin {"idle", "crashed"}
  BY DEF MaskProtocol, ClientInv, ShapeInv
<1>2. todo[d] # <<>> /\ k \in Key
  BY <1>1, ClientFacts
<1>3. NewData(d, k) \in Value
  BY <1>2, NewDataType
<1>4. intent[cl[d].tx] = Intent(d)
  BY <1>1 DEF ShapeInv
<1> QED
  BY <1>2, <1>3, <1>4, UsedIds DEF Intent

(* Whoever applies the transaction of d to k writes what d returns.         *)
LEMMA AppliedAsReturned ==
  ASSUME TypeOK, MaskProtocol, NEW c \in Client, NEW d \in Client, NEW k \in KeysOf(d),
         cl[d].job.then = "ok", cl[c].pc \in {"unmask", "apply"}, cl[c].job.tx = cl[d].tx,
         cl[c].call.key = k, MaskedBy(k, cl[d].tx), Informs(d, k),
         obj'[k] = Changed(obj[k], cl[c].call.body)
  PROVE  /\ obj'[k].ver = cl[d].mver[k].ver + 1
         /\ obj'[k].body = Packed(NoTx, Returned(d)[k].data)
<1> DEFINE t == cl[d].tx
<1>1. Applying(d) /\ Ending(d) /\ t # NoTx /\ cl[d].job.tx = t
  BY DEF MaskProtocol, ClientInv, ShapeInv, Ending
<1>2. t \in used /\ k \in Key /\ NewData(d, k) \in Value
      /\ intent[t][k] = [kind |-> KOp(d, k).kind, data |-> NewData(d, k)]
  BY <1>1, IntentFacts
<1>3. tobj[t].body = "MiniTransaction"
  BY <1>1, <1>2 DEF MaskProtocol, ClientInv, RemoveInv, NoMask
<1>4. cl[c].pc = "apply"
  <2>1. ASSUME Cleaning(c) PROVE FALSE
    BY <1>2, <1>3, <2>1 DEF MaskProtocol, ClientInv, RemoveInv, Gone, NoMask
  <2>2. ASSUME cl[c].pc = "unmask", Ending(c) PROVE FALSE
    <3>1. cl[c].tx = t
      BY <2>2, EndedUncoordinated
    <3>2. c = d
      BY <1>1, <3>1, SameCoordinator
    <3> QED
      BY <1>1, <2>2, <3>2 DEF Applying
  <2> QED
    BY <2>1, <2>2 DEF Cleaning, Ending
<1>5. cl[c].call.body = Plain(Result(intent[t][k], obj[k].body.data))
  BY <1>4 DEF MaskProtocol, ClientInv, CallInv
<1>6. ReturnInv(d, k)
  BY <1>1 DEF MaskProtocol, ClientInv
<1>7. obj[k].ver = cl[d].mver[k].ver
  BY <1>6 DEF ReturnInv
<1>8. Result(intent[t][k], obj[k].body.data) = Returned(d)[k].data
      /\ Returned(d)[k].data # NoData
  <2>1. CASE KOp(d, k).kind = "write"
    <3>1. Returned(d)[k].data = NewData(d, k)
      BY <1>2, <2>1 DEF Returned
    <3>2. Result(intent[t][k], obj[k].body.data) = NewData(d, k)
      BY <1>2, <2>1 DEF Result
    <3> QED
      BY <1>2, <3>1, <3>2, NullAssumption
  <2>2. CASE Noop(d, k)
    <3>1. Returned(d)[k].data = cl[d].mver[k].data
      BY <1>2, <2>2 DEF Returned, Noop
    <3>2. Result(intent[t][k], obj[k].body.data) = obj[k].body.data
      BY <1>2, <2>2 DEF Result, Noop
    <3> QED
      BY <1>6, <2>2, <3>1, <3>2 DEF ReturnInv
  <2> QED
    BY <2>1, <2>2 DEF Informs
<1>9. Returned(d)[k].data \in Value
  <2>1. intent[t][k].data \in Data
    BY <1>2 DEF Data
  <2>2. obj[k].body \in Object
    BY <1>2, UsedIds DEF MaskedBy, Exists
  <2>3. Result(intent[t][k], obj[k].body.data) \in Data
    <3>1. KOp(d, k).kind \in {"write", "noop"}
      BY DEF Informs, Noop
    <3> QED
      BY <1>2, <2>1, <2>2, <3>1 DEF Result, Object
  <2> QED
    BY <1>8, <2>3 DEF Data
<1>10. cl[c].call.body = Packed(NoTx, Returned(d)[k].data)
       /\ cl[c].call.body # NoBody
  <2>1. Packed(NoTx, Returned(d)[k].data) # NoBody
    BY <1>9, BodyAssumption DEF Packed
  <2> QED
    BY <1>5, <1>8, <2>1 DEF Plain
<1>11. obj'[k] = Written(obj[k], cl[c].call.body)
  BY <1>10 DEF Changed
<1> QED
  BY <1>7, <1>10, <1>11 DEF Written

LEMMA ReturnInvKeeps ==
  ASSUME TypeOK, TypeOK', MaskProtocol, NEW c \in Client, StepOf(c), NEW d \in Client,
         cl[d].tx # NoTx, cl'[d].tx = cl[d].tx, cl'[d].mver = cl[d].mver,
         todo'[d] = todo[d], known'[d] = known[d],
         cl'[d].job.then = "ok" => cl[d].job.then = "ok",
         (d = c /\ cl[c].pc = "mask") => UNCHANGED obj, NEW k \in KeysOf(d)
  PROVE  ReturnInv(d, k)'
<1> DEFINE t == cl[d].tx
<1>1. ObjStep(c) /\ ReturnInv(d, k) /\ k \in Key /\ t \in TxId /\ t \in used
  BY IntentFacts DEF StepOf, MaskProtocol, ClientInv
<1>2. /\ Same(d, k)' <=> Same(d, k)
      /\ Noop(d, k)' <=> Noop(d, k)
      /\ Informs(d, k)' <=> Informs(d, k)
      /\ Returned(d)'[k] = Returned(d)[k]
  <2>1. KOp(d, k)' = KOp(d, k) /\ k \in KeysOf(d)'
    BY OpStays
  <2>2. NewData(d, k)' = NewData(d, k)
    BY <2>1 DEF NewData
  <2>3. /\ Same(d, k)' <=> Same(d, k)
        /\ Noop(d, k)' <=> Noop(d, k)
        /\ Informs(d, k)' <=> Informs(d, k)
    BY <2>1 DEF Same, Noop, Informs
  <2>4. Returned(d)'[k] = Returned(d)[k]
    BY <1>1 DEF Returned, NewData, KOp, KeysOf, Op
  <2> QED
    BY <2>3, <2>4
<1>3. ASSUME MaskedBy(k, t)' PROVE obj'[k] = obj[k] /\ MaskedBy(k, t)
  <2>1. obj'[k] = obj[k]
    BY <1>1, <1>3, MaskOn, SameCoordinator
  <2> QED
    BY <1>3, <2>1 DEF MaskedBy
<1>4. ASSUME cl[d].job.then = "ok", ~MaskedBy(k, t)', Informs(d, k)
      PROVE  /\ obj'[k].ver > cl[d].mver[k].ver
             /\ (Exists(obj'[k]) /\ obj'[k].ver = cl[d].mver[k].ver + 1) =>
                  obj'[k].body = Packed(NoTx, Returned(d)[k].data)
  <2>1. obj[k].ver \in Nat /\ cl[d].mver[k].ver \in Nat
    <3>1. cl[d].mver[k] \in [ver : Nat, data : Data]
      BY <1>1, UsedIds DEF Local
    <3> QED
      BY <1>1, <3>1, UsedIds
  <2>2. CASE MaskedBy(k, t)
    <3>1. obj'[k] # obj[k]
      BY <1>4, <2>2 DEF MaskedBy
    <3>2. cl[c].pc \in {"unmask", "apply"} /\ cl[c].job.tx = t /\ cl[c].call.key = k
          /\ obj'[k] = Changed(obj[k], cl[c].call.body)
      BY <1>1, <2>2, <3>1, MaskOff
    <3>3. /\ obj'[k].ver = cl[d].mver[k].ver + 1
          /\ obj'[k].body = Packed(NoTx, Returned(d)[k].data)
      BY <1>4, <2>2, <3>2, AppliedAsReturned
    <3> QED
      BY <2>1, <3>3
  <2>3. CASE ~MaskedBy(k, t)
    <3>1. /\ obj[k].ver > cl[d].mver[k].ver
          /\ (Exists(obj[k]) /\ obj[k].ver = cl[d].mver[k].ver + 1) =>
               obj[k].body = Packed(NoTx, Returned(d)[k].data)
      BY <1>1, <1>4, <2>3 DEF ReturnInv
    <3>2. CASE obj'[k] = obj[k]
      BY <3>1, <3>2
    <3>3. CASE obj'[k].ver = obj[k].ver + 1
      BY <2>1, <3>1, <3>3
    <3>4. CASE obj'[k].ver = obj[k].ver /\ ~Exists(obj'[k])
      BY <2>1, <3>1, <3>4
    <3> QED
      BY <1>1, <3>2, <3>3, <3>4, ObjectsGrow
  <2> QED
    BY <2>2, <2>3
<1>5. (MaskedBy(k, t)' /\ Same(d, k)) =>
        obj'[k].body.data = known[d][k].data /\ obj'[k].body.data # NoData
  BY <1>1, <1>3 DEF ReturnInv
<1>6. (cl[d].job.then = "ok" /\ MaskedBy(k, t)') => obj'[k].ver = cl[d].mver[k].ver
  BY <1>1, <1>3 DEF ReturnInv
<1>7. (MaskedBy(k, t)' /\ Noop(d, k)) =>
        obj'[k].body.data = cl[d].mver[k].data /\ obj'[k].body.data # NoData
  BY <1>1, <1>3 DEF ReturnInv
<1> QED
  BY <1>2, <1>4, <1>5, <1>6, <1>7 DEF ReturnInv, MaskedBy, Exists

LEMMA JobUsed ==
  ASSUME TypeOK, NEW d \in Client, Applying(d) \/ Cleaning(d)
  PROVE  cl[d].job.tx \in used /\ cl[d].job.tx \in TxId
BY ClientFacts, UsedIds DEF Fit, JobLabels, Applying, Cleaning

LEMMA RemoveInvKeeps ==
  ASSUME TypeOK, MaskProtocol, NEW c \in Client, StepOf(c), NEW d \in Client,
         cl'[d].job = cl[d].job, Applying(d)' => Applying(d), Cleaning(d)' => Cleaning(d)
  PROVE  RemoveInv(d)'
<1> DEFINE t == cl[d].job.tx
<1>1. RemoveInv(d) /\ ObjStep(c)
  BY DEF MaskProtocol, ClientInv, StepOf
<1>2. ASSUME Applying(d)' \/ Ending(d)', NEW k \in Key \ cl[d].job.keys
      PROVE  ~MaskedBy(k, t)'
  <2>1. Applying(d) \/ Ending(d)
    BY <1>2 DEF Ending
  <2>2. t \in used /\ t \in TxId /\ NoCoord(t)
    BY <2>1, AppliedUncoordinated, EndedUncoordinated
  <2>3. ~MaskedBy(k, t)
    BY <1>1, <2>1 DEF RemoveInv
  <2> QED
    BY <1>1, <2>2, <2>3, NoNewMask
<1>3. Cleaning(d)' => (tobj[t].body = "Tombstone" \/ Gone(t))'
  <2>1. ASSUME Cleaning(d)' PROVE (tobj[t].body = "Tombstone" \/ Gone(t))'
    <3>1. t \in used /\ (tobj[t].body = "Tombstone" \/ Gone(t))
      BY <1>1, <2>1, JobUsed DEF RemoveInv
    <3>2. t' = t
      OBVIOUS
    <3> HIDE DEF t
    <3>3. PICK u : u = t
      OBVIOUS
    <3>4. (tobj[u].body = "Tombstone" \/ Gone(u))'
      BY <3>1, <3>3, SealStays
    <3> QED
      BY <3>2, <3>3, <3>4
  <2> QED
    BY <2>1
<1>4. Applying(d)' => (tobj[t].body = "MiniTransaction" \/ NoMask(t))'
  <2>1. ASSUME Applying(d)' PROVE (tobj[t].body = "MiniTransaction" \/ NoMask(t))'
    <3>1. t \in used /\ NoCoord(t) /\ (tobj[t].body = "MiniTransaction" \/ NoMask(t))
      BY <1>1, <2>1, AppliedUncoordinated DEF RemoveInv
    <3>2. tobj[t].body = "MiniTransaction" \/ Gone(t)
      BY <3>1 DEF Gone, NoCoord
    <3>3. PICK u : u = t
      OBVIOUS
    <3>4. (tobj[u].body = "MiniTransaction" \/ Gone(u))'
      BY <3>1, <3>2, <3>3, SealStays
    <3> QED
      BY <3>3, <3>4 DEF Gone
  <2> QED
    BY <2>1
<1> QED
  BY <1>2, <1>3, <1>4 DEF RemoveInv, MaskedBy, Exists

(* A call about to be sent is still guarded after another client's step.    *)
LEMMA GuardStays ==
  ASSUME TypeOK, NEW c \in Client, ObjStep(c), NEW q \in Call, q.key \in Key, NEW t,
         Guarded(q, t)
  PROVE  Guarded(q, t)'
<1> DEFINE k == q.key
<1>1. obj[k].ver \in Nat /\ q.rr.given \in Nat
  BY UsedIds DEF Call, RulesType
<1>2. CASE q.rr.exists
  BY <1>2 DEF Guarded
<1>3. CASE ~q.rr.exists
  <2>1. /\ q.rr.gtGiven /\ q.rr.given <= obj[k].ver
        /\ (Exists(obj[k]) /\ obj[k].ver = q.rr.given) => obj[k].body.tx = t
    BY <1>3 DEF Guarded
  <2>2. /\ q.rr.given <= obj'[k].ver
        /\ (Exists(obj'[k]) /\ obj'[k].ver = q.rr.given) => obj'[k].body.tx = t
    <3>1. CASE obj'[k] = obj[k]
      BY <2>1, <3>1
    <3>2. CASE obj'[k].ver = obj[k].ver + 1
      BY <1>1, <2>1, <3>2
    <3>3. CASE obj'[k].ver = obj[k].ver /\ ~Exists(obj'[k])
      BY <2>1, <3>3
    <3> QED
      BY <3>1, <3>2, <3>3, ObjectsGrow
  <2> QED
    BY <2>1, <2>2 DEF Guarded, Exists
<1> QED
  BY <1>2, <1>3

LEMMA CallInvKeeps ==
  ASSUME TypeOK, MaskProtocol, NEW c \in Client, StepOf(c), NEW d \in Client, d # c
  PROVE  CallInv(d)'
<1>1. ObjStep(c) /\ CallInv(d) /\ cl'[d] = cl[d] /\ known'[d] = known[d] /\ todo'[d] = todo[d]
      /\ (\A u \in used : intent'[u] = intent[u])
  BY DEF StepOf, Alone, MaskProtocol, ClientInv
<1>2. PICK q \in Call : q = cl[d].call
  BY UsedIds DEF Local
<1>3. PICK t : t = cl[d].job.tx
  OBVIOUS
<1>4. cl[d].pc \in CallLabels => q.key \in Key
  BY <1>2, ClientFacts DEF Fit, CallLabels
<1>5. cl[d].pc \in {"mask", "user", "direct"} => Guarded(q, NoTx)'
  BY <1>1, <1>2, <1>4, GuardStays DEF CallInv, CallLabels
<1>6. cl[d].pc \in {"unmask", "apply"} => Guarded(q, t)'
  BY <1>1, <1>2, <1>3, <1>4, GuardStays DEF CallInv, CallLabels
<1>7. (Same(d, q.key)' <=> Same(d, q.key)) /\ (Noop(d, q.key)' <=> Noop(d, q.key))
  BY <1>1, OpStays DEF Same, Noop
<1>8. ASSUME cl[d].pc = "apply", MaskedBy(q.key, t)'
      PROVE  /\ obj'[q.key].ver = q.rr.given
             /\ q.body = Plain(Result(intent'[t][q.key], obj'[q.key].body.data))
  <2>1. q.key \in Key /\ Applying(d)
    BY <1>4, <1>8 DEF CallLabels, Applying
  <2>2. t \in used /\ t \in TxId /\ NoCoord(t)
    BY <1>3, <2>1, AppliedUncoordinated
  <2>3. obj'[q.key] = obj[q.key]
    BY <1>1, <1>8, <2>1, <2>2, MaskOn DEF NoCoord
  <2>4. MaskedBy(q.key, t)
    BY <1>8, <2>3 DEF MaskedBy
  <2> QED
    BY <1>1, <1>2, <1>3, <1>8, <2>2, <2>3, <2>4 DEF CallInv
<1>9. cl[d].pc = "mask" =>
           /\ q.key \in cl[d].left /\ q.body # NoBody /\ q.body.tx = cl[d].tx
           /\ Same(d, q.key)' =>
                q.body.data = known'[d][q.key].data /\ q.body.data # NoData
           /\ Noop(d, q.key)' => q.body.data # NoData
  BY <1>1, <1>2, <1>7 DEF CallInv
<1>10. cl[d].pc \in {"user", "direct", "unmask", "apply"} =>
           q.body = NoBody \/ (q.body.tx = NoTx /\ q.body.data # NoData)
  BY <1>1, <1>2 DEF CallInv
<1>11. q = cl'[d].call /\ t = cl'[d].job.tx
  BY <1>1, <1>2, <1>3
<1> QED
  BY <1>1, <1>5, <1>6, <1>8, <1>9, <1>10, <1>11 DEF CallInv

(* A step of client c keeps what holds of the others.                       *)
LEMMA OthersKeep ==
  ASSUME TypeOK, TypeOK', MaskProtocol, NEW c \in Client, StepOf(c),
         NEW d \in Client, d # c
  PROVE  ClientInv(d)'
<1>1. /\ cl'[d] = cl[d] /\ todo'[d] = todo[d] /\ known'[d] = known[d] /\ ObjStep(c)
      /\ (\A u \in used : intent'[u] = intent[u])
  BY DEF StepOf, Alone
<1>2. (Masking(d)' <=> Masking(d)) /\ (Applying(d)' <=> Applying(d))
      /\ (Cleaning(d)' <=> Cleaning(d)) /\ (Ending(d)' <=> Ending(d))
  BY <1>1 DEF Masking, Applying, Cleaning, Ending
<1>3. CallInv(d)' /\ MaskInv(d)' /\ RemoveInv(d)'
  BY <1>1, <1>2, CallInvKeeps, MaskInvKeeps, RemoveInvKeeps
<1>4. \A k \in Key : KnownInv(d, k)'
  BY <1>1, KnownKeeps
<1>5. ShapeInv(d)'
  <2>1. ShapeInv(d)
    BY DEF MaskProtocol, ClientInv
  <2>2. cl[d].tx # NoTx => intent'[cl[d].tx] = Intent(d)'
    <3>1. Intent(d)' = Intent(d)
      BY <1>1 DEF Intent, KeysOf, KOp, NewData, Op
    <3> QED
      BY <1>1, <2>1, <3>1, UsedIds DEF ShapeInv
  <2> QED
    BY <1>1, <1>2, <2>1, <2>2 DEF ShapeInv
<1>6. ASSUME cl[d].tx # NoTx, NEW k \in KeysOf(d) PROVE ReturnInv(d, k)'
  BY <1>1, <1>6, ReturnInvKeeps
<1>7. KeysOf(d)' = KeysOf(d)
  BY <1>1, OpStays
<1> QED
  BY <1>1, <1>3, <1>4, <1>5, <1>6, <1>7 DEF ClientInv

LEMMA PairsKeep ==
  ASSUME TypeOK, TypeOK', MaskProtocol, NEW c \in Client, StepOf(c),
         NEW d \in Client, NEW e \in Client
  PROVE  PairInv(d, e)'
<1>1. Alone(c) /\ Turns(c)
  BY DEF StepOf
<1>2. ASSUME d # e, cl'[d].tx # NoTx PROVE cl'[d].tx # cl'[e].tx
  <2>1. cl[d].tx \in used \cup {NoTx} /\ cl[e].tx \in used \cup {NoTx}
        /\ (cl[d].tx # NoTx => cl[d].tx # cl[e].tx)
        /\ (cl[e].tx # NoTx => cl[e].tx # cl[d].tx)
    BY <1>2, UsedIds DEF MaskProtocol, PairInv
  <2> QED
    BY <1>1, <1>2, <2>1 DEF Alone, Turns
<1>3. ASSUME Masking(d)', Applying(e)' PROVE cl'[e].job.tx # cl'[d].tx
  <2>1. CASE e # c
    <3>1. Applying(e) /\ cl'[e].job.tx = cl[e].job.tx
      BY <1>1, <1>3, <2>1 DEF Alone, Applying
    <3>2. cl[e].job.tx \in used /\ NoCoord(cl[e].job.tx)
      BY <3>1, AppliedUncoordinated
    <3>3. NoCoord(cl[e].job.tx)'
      <4>1. PICK t : t = cl[e].job.tx
        OBVIOUS
      <4>2. NoCoord(t)'
        BY <3>2, <4>1, UncoordinatedStays
      <4> QED
        BY <3>1, <4>1, <4>2 DEF NoCoord
    <3> QED
      BY <1>3, <3>1, <3>3 DEF NoCoord
  <2>2. CASE e = c
    <3>1. Masking(d)
      <4>1. CASE d = c
        <5>1. cl'[c].tx = cl[c].tx /\ cl[c].tx # NoTx /\ ~Ending(c)'
          BY <1>1, <1>3, <2>2, <4>1 DEF Turns, Masking, Ending
        <5> QED
          BY <1>1, <4>1, <5>1 DEF Turns, Masking, Ending
      <4>2. CASE d # c
        BY <1>1, <1>3, <4>2 DEF Alone, Masking
      <4> QED
        BY <4>1, <4>2
    <3>2. cl'[d].tx = cl[d].tx
      BY <1>1, <1>3, <2>2 DEF Alone, Turns
    <3>3. CASE Applying(c) /\ cl'[c].job.tx = cl[c].job.tx
      BY <2>2, <3>1, <3>2, <3>3 DEF MaskProtocol, PairInv
    <3>4. CASE tobj[cl'[c].job.tx].body = "MiniTransaction"
      BY <2>2, <3>1, <3>2, <3>4 DEF MaskProtocol, ClientInv, MaskInv
    <3>5. CASE cl'[c].job.tx = cl[c].tx /\ Ending(c)'
      <4>1. d # c
        BY <1>3, <3>5 DEF Masking, Ending
      <4> QED
        BY <2>2, <3>1, <3>2, <3>5, <4>1, SameCoordinator DEF Masking
    <3> QED
      BY <1>1, <1>3, <2>2, <3>3, <3>4, <3>5 DEF Turns
  <2> QED
    BY <2>1, <2>2
<1> QED
  BY <1>2, <1>3 DEF PairInv

-----------------------------------------------------------------------------
(* How the client that moves gets on.                                       *)

(* Local state s of client c has the shape that ShapeInv asks for.          *)
Shaped(c, s) ==
  /\ s.tx = cl[c].tx /\ s.left = cl[c].left /\ s.mver = cl[c].mver
  /\ s.pc \notin {"idle", "crashed"}
  /\ s.pc \in {"read", "mask", "user", "direct", "writeT"} => s.job.then = "retry"
  /\ s.job.then = "ok" => s.pc \in {"applyRead", "apply", "deleteT"}
  /\ s.job.then # "retry" => s.tx # NoTx /\ s.job.tx = s.tx
  /\ s.pc = "writeT" => s.left = {}
  /\ s.pc \in {"deleteT", "deleteTombstone"} => s.job.keys = {}

LEMMA GoOnStep ==
  ASSUME TypeOK, NEW c \in Client, NEW s, GoOn(c, s), UNCHANGED <<used, intent>>,
         ObjStep(c), TStep(c), s.tx = cl[c].tx, Ending(c) => s.job.then # "retry",
         s.pc \in {"applyRead", "apply", "deleteT"} =>
           \/ Applying(c) /\ s.job.tx = cl[c].job.tx
           \/ tobj[s.job.tx].body = "MiniTransaction"
           \/ s.job.tx = cl[c].tx /\ s.job.then # "retry"
  PROVE  /\ StepOf(c) /\ cl'[c] = s
         /\ todo'[c] = todo[c] /\ known'[c] = known[c]
<1>1. cl' = [cl EXCEPT ![c] = s] /\ UNCHANGED <<todo, known>>
  BY DEF GoOn, Become
<1>2. cl'[c] = s /\ \A d \in Client \ {c} : cl'[d] = cl[d]
  BY <1>1 DEF TypeOK
<1>3. Alone(c)
  BY <1>1, <1>2 DEF Alone
<1>4. Turns(c)
  BY <1>2 DEF Turns, Applying, Ending
<1> QED
  BY <1>1, <1>2, <1>3, <1>4 DEF StepOf

LEMMA GoOnInv ==
  ASSUME TypeOK, TypeOK', MaskProtocol, NEW c \in Client, NEW s, Shaped(c, s),
         StepOf(c), cl'[c] = s, todo'[c] = todo[c], known'[c] = known[c],
         s.job.then = "retry" => ~Ending(c) /\ cl[c].pc # "writeT",
         s.job.then = "ok" => cl[c].job.then = "ok",
         cl[c].pc = "mask" => UNCHANGED obj,
         CallInv(c)', RemoveInv(c)'
  PROVE  ClientInv(c)'
<1>1. /\ cl'[c].tx = cl[c].tx /\ cl'[c].left = cl[c].left /\ cl'[c].mver = cl[c].mver
      /\ cl'[c].job.then = "ok" => cl[c].job.then = "ok"
  BY DEF Shaped
<1>2. MaskInv(c)'
  <2>1. CASE s.job.then = "retry"
    <3>1. Masking(c)' => Masking(c)
      BY <1>1, <2>1 DEF Masking, Ending
    <3> QED
      BY <1>1, <2>1, <3>1, MaskInvKeeps
  <2>2. CASE s.job.then # "retry"
    BY <2>2 DEF MaskInv, Masking
  <2> QED
    BY <2>1, <2>2
<1>3. ShapeInv(c)'
  <2>1. ShapeInv(c) /\ ObjStep(c) /\ (\A u \in used : intent'[u] = intent[u])
    BY DEF MaskProtocol, ClientInv, StepOf, Alone
  <2>2. s.tx # NoTx => intent'[s.tx] = Intent(c)'
    <3>1. Intent(c)' = Intent(c)
      BY DEF Intent, KeysOf, KOp, NewData, Op
    <3> QED
      BY <1>1, <2>1, <3>1, UsedIds DEF ShapeInv
  <2> QED
    BY <1>1, <2>2 DEF ShapeInv, Shaped, Ending, Applying
<1>4. \A k \in Key : KnownInv(c, k)'
  BY KnownKeeps DEF StepOf
<1>5. ASSUME cl[c].tx # NoTx, NEW k \in KeysOf(c) PROVE ReturnInv(c, k)'
  BY <1>1, <1>5, ReturnInvKeeps
<1>6. KeysOf(c)' = KeysOf(c)
  BY OpStays
<1> QED
  BY <1>1, <1>2, <1>3, <1>4, <1>5, <1>6 DEF ClientInv

(* The operation ends.                                                      *)
LEMMA EndMoves ==
  ASSUME TypeOK, MaskProtocol, NEW c \in Client,
         cl' = [cl EXCEPT ![c] = Idle] \/ cl' = [cl EXCEPT ![c] = [Idle EXCEPT !.pc = "crashed"]],
         \A d \in Client \ {c} : todo'[d] = todo[d] /\ known'[d] = known[d],
         UNCHANGED <<used, intent>>, ObjStep(c), TStep(c),
         \A k \in Key : KnownInv(c, k)'
  PROVE  StepOf(c) /\ ClientInv(c)'
<1>1. PICK s \in {Idle, [Idle EXCEPT !.pc = "crashed"]} : cl' = [cl EXCEPT ![c] = s]
  OBVIOUS
<1>2. cl'[c] = s /\ \A d \in Client \ {c} : cl'[d] = cl[d]
  BY <1>1 DEF TypeOK
<1>3. s.pc \in {"idle", "crashed"} /\ s.tx = NoTx /\ s.job = NoJob /\ s.job.then = "retry"
  <2>1. CASE s = Idle
    BY <2>1 DEF Idle, NoJob
  <2>2. CASE s = [Idle EXCEPT !.pc = "crashed"]
    BY <2>2 DEF Idle, NoJob
  <2> QED
    BY <1>1, <2>1, <2>2
<1>4. StepOf(c)
  <2>1. Alone(c)
    BY <1>2 DEF Alone
  <2>2. Turns(c)
    BY <1>2, <1>3 DEF Turns, Applying
  <2> QED
    BY <2>1, <2>2 DEF StepOf
<1>5. ~Masking(c)' /\ ~Applying(c)' /\ ~Cleaning(c)' /\ ~Ending(c)'
  BY <1>2, <1>3 DEF Masking, Applying, Cleaning, Ending
<1>6. CallInv(c)' /\ ShapeInv(c)' /\ MaskInv(c)' /\ RemoveInv(c)'
  BY <1>2, <1>3, <1>5 DEF CallInv, ShapeInv, MaskInv, RemoveInv
<1> QED
  BY <1>2, <1>3, <1>4, <1>6 DEF ClientInv

(* What follows from an operation that ends without learning anything.      *)
LEMMA EndUnlearnt ==
  ASSUME TypeOK, TypeOK', MaskProtocol, NEW c \in Client, NEW r, End(c, r),
         UNCHANGED <<used, intent, known>>, ObjStep(c), TStep(c)
  PROVE  StepOf(c) /\ ClientInv(c)'
<1>1. cl' = [cl EXCEPT ![c] = Idle]
  BY DEF End, Become
<1>2. \A d \in Client \ {c} : todo'[d] = todo[d] /\ known'[d] = known[d]
  BY DEF End, TypeOK
<1>3. \A k \in Key : KnownInv(c, k)'
  BY KnownKeeps
<1> QED
  BY <1>1, <1>2, <1>3, EndMoves

(* The end of an operation that learns version v and data x of key k.       *)
LEMMA EndLearnt ==
  ASSUME TypeOK, TypeOK', MaskProtocol, NEW c \in Client, NEW r, End(c, r),
         NEW k \in Key, NEW v \in Nat, NEW x, Learn(c, k, v, x),
         v <= obj'[k].ver,
         (Exists(obj'[k]) /\ obj'[k].ver = v) => obj'[k].body = Packed(NoTx, x),
         UNCHANGED <<used, intent>>, ObjStep(c), TStep(c)
  PROVE  StepOf(c) /\ ClientInv(c)'
<1>1. cl' = [cl EXCEPT ![c] = Idle]
  BY DEF End, Become
<1>2. \A d \in Client \ {c} : todo'[d] = todo[d] /\ known'[d] = known[d]
  BY DEF End, Learn, TypeOK
<1>3. ASSUME NEW j \in Key PROVE KnownInv(c, j)'
  <2>1. CASE j = k
    <3>1. known'[c][j] = [ver |-> v, data |-> x]
      BY <2>1 DEF Learn, TypeOK
    <3> QED
      BY <2>1, <3>1 DEF KnownInv, Exists
  <2>2. CASE j # k
    <3>1. known'[c][j] = known[c][j]
      BY <2>2 DEF Learn, TypeOK
    <3> QED
      BY <3>1, KnownKeeps
  <2> QED
    BY <2>1, <2>2
<1> QED
  BY <1>1, <1>2, <1>3, EndMoves

(* read_rr is called (again).                                               *)
LEMMA RereadMoves ==
  ASSUME TypeOK, TypeOK', MaskProtocol, NEW c \in Client, Reread(c, cl[c]),
         cl[c].pc \notin {"idle", "crashed", "writeT"}, ~Ending(c),
         cl[c].pc = "mask" => UNCHANGED obj,
         UNCHANGED <<used, intent>>, ObjStep(c), TStep(c)
  PROVE  StepOf(c) /\ ClientInv(c)'
<1>1. PICK s : s = [cl[c] EXCEPT !.pc = "read", !.call = NoCall, !.job = NoJob]
  OBVIOUS
<1>2. GoOn(c, s) /\ cl[c] \in Local
  BY <1>1, UsedIds DEF Reread
<1>3. s.pc = "read" /\ s.job.then = "retry" /\ s.tx = cl[c].tx /\ s.left = cl[c].left
      /\ s.mver = cl[c].mver
  BY <1>1, <1>2 DEF NoJob, Local
<1>4. /\ StepOf(c) /\ cl'[c] = s
      /\ todo'[c] = todo[c] /\ known'[c] = known[c]
  BY <1>2, <1>3, GoOnStep
<1>5. CallInv(c)' /\ RemoveInv(c)' /\ Shaped(c, s)
  BY <1>3, <1>4 DEF CallInv, RemoveInv, Applying, Cleaning, Ending, Shaped
<1> QED
  BY <1>3, <1>4, <1>5, GoOnInv

(* An exception ends the operation, or turns to the masks it has put down.  *)
LEMMA RaiseMoves ==
  ASSUME TypeOK, TypeOK', MaskProtocol, NEW c \in Client, NEW e \in Endings \ {"ok"},
         Raise(c, e), cl[c].pc \notin {"idle", "crashed", "writeT"},
         UNCHANGED <<obj, tobj, used, intent>>
  PROVE  StepOf(c) /\ ClientInv(c)'
<1> DEFINE masking == IsCommit(c) /\ cl[c].job.then = "retry"
           out == IF masking /\ e \in RejectErrors THEN "TransactionRejected" ELSE e
<1>1. ObjStep(c) /\ TStep(c)
  BY DEF ObjStep, TStep
<1>2. CASE masking /\ Masked(c) # {}
  <2>1. PICK s : s = [cl[c] EXCEPT !.pc = "unmaskRead", !.call = NoCall,
                        !.job = [NoJob EXCEPT !.tx = cl[c].tx, !.keys = Masked(c),
                                              !.then = out]]
    OBVIOUS
  <2>2. GoOn(c, s) /\ cl[c] \in Local
    BY <1>2, <2>1, UsedIds DEF Raise
  <2>3. s.pc = "unmaskRead" /\ s.tx = cl[c].tx /\ s.left = cl[c].left /\ s.mver = cl[c].mver
        /\ s.job.tx = cl[c].tx /\ s.job.keys = Masked(c) /\ s.job.then = out
    BY <2>1, <2>2 DEF Local, NoJob
  <2>4. out \notin {"retry", "ok"}
    BY DEF Endings, Documented
  <2>5. cl[c].tx \in used /\ cl[c].tx \in TxId /\ cl[c].tx # NoTx
        /\ DOMAIN intent[cl[c].tx] = KeysOf(c)
    <3>1. Fit(c, cl[c])
      BY ClientFacts
    <3> QED
      BY <1>2, <3>1, UsedIds DEF Fit
  <2> HIDE DEF out
  <2>6. /\ StepOf(c) /\ cl'[c] = s
        /\ todo'[c] = todo[c] /\ known'[c] = known[c]
    BY <1>1, <2>2, <2>3, <2>4, GoOnStep
  <2>7. Shaped(c, s)
    BY <2>3, <2>4, <2>5 DEF Shaped
  <2>8. CallInv(c)'
    BY <2>3, <2>6 DEF CallInv
  <2>9. RemoveInv(c)'
    <3>1. ASSUME NEW k \in Key \ Masked(c) PROVE ~MaskedBy(k, cl[c].tx)
      <4>1. CASE k \in cl[c].left
        BY <1>2, <2>5, <4>1 DEF MaskProtocol, ClientInv, MaskInv, Masking
      <4>2. CASE k \notin KeysOf(c)
        BY <2>5, <4>2 DEF MaskProtocol, ObjectInv, MaskedBy
      <4> QED
        BY <4>1, <4>2 DEF Masked
    <3>2. ~Applying(c)' /\ ~Cleaning(c)'
      BY <2>3, <2>4, <2>6 DEF Applying, Cleaning
    <3> QED
      BY <2>3, <2>6, <3>1, <3>2 DEF RemoveInv, MaskedBy
  <2> QED
    BY <2>3, <2>4, <2>6, <2>7, <2>8, <2>9, GoOnInv
<1>3. CASE ~(masking /\ Masked(c) # {})
  <2>1. End(c, out) /\ UNCHANGED known
    BY <1>3 DEF Raise
  <2> QED
    BY <1>1, <2>1, EndUnlearnt
<1> QED
  BY <1>2, <1>3

(* A conditional call is prepared.                                          *)
LEMMA PrepareMoves ==
  ASSUME TypeOK, TypeOK', MaskProtocol, NEW c \in Client, NEW l \in CallLabels,
         NEW k \in Key, NEW rr, NEW b, Prepare(c, l, k, rr, b),
         UNCHANGED <<obj, tobj, used, intent>>, ~Ending(c) \/ l \in {"unmask", "apply"},
         l \in {"mask", "user", "direct"} => cl[c].pc = "read",
         l = "unmask" => cl[c].pc = "unmaskRead" /\ cl[c].job.then # "ok",
         l = "apply" => cl[c].pc = "applyRead",
         Guarded([key |-> k, rr |-> rr, body |-> b],
                 IF l \in {"unmask", "apply"} THEN cl[c].job.tx ELSE NoTx),
         l = "mask" =>
           /\ k \in cl[c].left /\ b # NoBody /\ b.tx = cl[c].tx
           /\ Same(c, k) => b.data = known[c][k].data /\ b.data # NoData
           /\ Noop(c, k) => b.data # NoData,
         l # "mask" => b = NoBody \/ (b.tx = NoTx /\ b.data # NoData),
         (l = "apply" /\ MaskedBy(k, cl[c].job.tx)) =>
           /\ obj[k].ver = rr.given
           /\ b = Plain(Result(intent[cl[c].job.tx][k], obj[k].body.data))
  PROVE  StepOf(c) /\ ClientInv(c)'
<1>1. PICK q : q = [key |-> k, rr |-> rr, body |-> b]
  OBVIOUS
<1>2. PICK s : s = [cl[c] EXCEPT !.pc = l, !.call = q]
  OBVIOUS
<1>3. GoOn(c, s) /\ cl[c] \in Local /\ ObjStep(c) /\ TStep(c)
  BY <1>1, <1>2, UsedIds DEF Prepare, ObjStep, TStep
<1>4. s.pc = l /\ s.job = cl[c].job /\ s.tx = cl[c].tx /\ s.left = cl[c].left
      /\ s.mver = cl[c].mver /\ s.call = q /\ q.key = k /\ q.rr = rr /\ q.body = b
  BY <1>1, <1>2, <1>3 DEF Local
<1>5. ShapeInv(c)
  BY DEF MaskProtocol, ClientInv
<1>6. /\ StepOf(c) /\ cl'[c] = s
      /\ todo'[c] = todo[c] /\ known'[c] = known[c]
  <2>1. s.pc \in {"applyRead", "apply", "deleteT"} => Applying(c)
    BY <1>4 DEF CallLabels, Applying
  <2>2. Ending(c) => s.job.then # "retry"
    BY <1>4 DEF Ending
  <2> QED
    BY <1>3, <1>4, <2>1, <2>2, GoOnStep
<1>7. Shaped(c, s)
  BY <1>4, <1>5 DEF Shaped, ShapeInv, Ending, CallLabels
<1>8. RemoveInv(c)'
  <2>1. Applying(c)' => Applying(c)
    BY <1>4, <1>6 DEF Applying, CallLabels
  <2>2. Cleaning(c)' => Cleaning(c)
    BY <1>4, <1>6 DEF Cleaning, CallLabels
  <2> QED
    BY <1>4, <1>6, <2>1, <2>2, RemoveInvKeeps
<1>9. CallInv(c)'
  <2>1. Guarded(q, IF l \in {"unmask", "apply"} THEN cl[c].job.tx ELSE NoTx)'
    BY <1>1, <1>4, <1>6 DEF Guarded
  <2>2. (Same(c, k)' <=> Same(c, k)) /\ (Noop(c, k)' <=> Noop(c, k))
    BY <1>6, OpStays DEF Same, Noop
  <2>3. (l = "apply" /\ MaskedBy(k, cl[c].job.tx)') =>
           /\ obj'[k].ver = rr.given
           /\ b = Plain(Result(intent'[cl[c].job.tx][k], obj'[k].body.data))
    BY <1>4, <1>6 DEF MaskedBy, Exists
  <2> QED
    BY <1>4, <1>6, <2>1, <2>2, <2>3 DEF CallInv, CallLabels
<1> QED
  <2>1. cl[c].pc \notin {"mask", "writeT"}
    BY DEF CallLabels
  <2>2. s.job.then = "ok" => cl[c].job.then = "ok"
    BY <1>4
  <2>3. s.job.then = "retry" => ~Ending(c)
    BY <1>4 DEF Ending
  <2> QED
    BY <1>6, <1>7, <1>8, <1>9, <2>1, <2>2, <2>3, GoOnInv

-----------------------------------------------------------------------------
(* One lemma for each action.                                               *)

LEMMA MoverFacts ==
  ASSUME TypeOK, MaskProtocol, NEW c \in Client
  PROVE  /\ CallInv(c) /\ ShapeInv(c) /\ MaskInv(c) /\ RemoveInv(c)
         /\ \A k \in Key : KnownInv(c, k) /\ ObjectInv(k)
         /\ cl[c].pc \in {"idle", "crashed", "read", "mask", "user", "direct", "writeT"} =>
              ~Ending(c)
BY DEF MaskProtocol, ClientInv, ShapeInv, Ending

(* A body that user calls write, or that unmasks an object.                 *)
LEMMA PlainBody ==
  ASSUME NEW d \in Data
  PROVE  /\ Plain(d) = NoBody \/ (Plain(d).tx = NoTx /\ Plain(d).data # NoData)
         /\ d # NoData => Plain(d) = Packed(NoTx, d)
         /\ \A t \in TxId \cup {NoTx} :
              /\ Packed(t, d) # NoBody /\ Packed(t, d).tx = t /\ Packed(t, d).data = d
<1>1. \A t \in TxId \cup {NoTx} : Packed(t, d) # NoBody
  BY BodyAssumption DEF Packed, Data
<1> QED
  BY <1>1 DEF Plain, Packed

LEMMA BeginMoves ==
  ASSUME TypeOK, TypeOK', MaskProtocol, NEW c \in Client, Begin(c)
  PROVE  StepOf(c) /\ ClientInv(c)'
<1>1. /\ cl[c].pc = "idle" /\ todo[c] # <<>> /\ KeysOf(c) \subseteq Key /\ KeysOf(c) # {}
      /\ ObjStep(c) /\ TStep(c) /\ UNCHANGED <<obj, tobj, faults>>
      /\ cl[c].tx = NoTx /\ ShapeInv(c)
  <2>1. cl[c].pc = "idle" /\ todo[c] # <<>> /\ UNCHANGED <<obj, tobj, faults>>
    BY DEF Begin, At
  <2> QED
    BY <2>1, OpFacts, MoverFacts DEF ObjStep, TStep, ShapeInv
<1>2. ASSUME NEW s, GoOn(c, s), s.pc \in {"read", "direct"}, s.job = NoJob,
             used \subseteq used', \A t \in used : intent'[t] = intent[t],
             s.tx \in {NoTx} \cup (TxId \ used)
      PROVE  /\ StepOf(c) /\ cl'[c] = s
             /\ todo'[c] = todo[c] /\ known'[c] = known[c]
             /\ ~Applying(c)' /\ ~Cleaning(c)' /\ ~Ending(c)'
  <2>1. cl' = [cl EXCEPT ![c] = s] /\ UNCHANGED <<todo, known>>
    BY <1>2 DEF GoOn, Become
  <2>2. cl'[c] = s /\ \A d \in Client \ {c} : cl'[d] = cl[d]
    BY <2>1 DEF TypeOK
  <2>3. ~Applying(c)' /\ ~Cleaning(c)' /\ ~Ending(c)'
    BY <1>2, <2>2 DEF Applying, Cleaning, Ending, NoJob
  <2>4. Alone(c)
    BY <1>2, <2>1, <2>2 DEF Alone
  <2>5. Turns(c)
    BY <1>1, <1>2, <2>2, <2>3 DEF Turns
  <2> QED
    BY <1>1, <2>1, <2>2, <2>3, <2>4, <2>5 DEF StepOf
<1>3. ASSUME known'[c] = known[c] PROVE \A k \in Key : KnownInv(c, k)'
  BY <1>1, <1>3, KnownKeeps
<1>4. CASE BeginCommit(c)
  <2>1. PICK t \in NewTxId :
             /\ used' = used \cup {t}
             /\ intent' = [intent EXCEPT ![t] = Intent(c)]
             /\ GoOn(c, [Idle EXCEPT !.pc = "read", !.tx = t, !.left = KeysOf(c)])
    BY <1>4 DEF BeginCommit
  <2>2. PICK s : s = [Idle EXCEPT !.pc = "read", !.tx = t, !.left = KeysOf(c)]
    OBVIOUS
  <2>3. t \in TxId /\ t \notin used /\ t # NoTx
    BY UsedIds DEF NewTxId
  <2>4. intent'[t] = Intent(c) /\ (\A u \in used : intent'[u] = intent[u])
    BY <2>1, <2>3 DEF TypeOK, StoreOK
  <2>5. s.pc = "read" /\ s.tx = t /\ s.left = KeysOf(c) /\ s.job = NoJob
    BY <2>2 DEF Idle
  <2>6. /\ StepOf(c) /\ cl'[c] = s
        /\ todo'[c] = todo[c] /\ known'[c] = known[c]
        /\ ~Applying(c)' /\ ~Cleaning(c)' /\ ~Ending(c)'
    <3>1. GoOn(c, s) /\ used \subseteq used'
      BY <2>1, <2>2
    <3> QED
      BY <1>2, <2>3, <2>4, <2>5, <3>1
  <2>7. CallInv(c)' /\ RemoveInv(c)'
    BY <2>5, <2>6 DEF CallInv, RemoveInv
  <2>8. ShapeInv(c)'
    <3>1. Intent(c)' = Intent(c)
      BY <2>6 DEF Intent, KeysOf, KOp, NewData, Op
    <3> QED
      BY <2>3, <2>4, <2>5, <2>6, <3>1 DEF ShapeInv, NoJob, Ending
  <2>9. ASSUME NEW k \in Key PROVE ~MaskedBy(k, t)'
    <3>1. ~MaskedBy(k, t)
      BY <2>3, UsedIds DEF MaskedBy, Exists, Object
    <3> QED
      BY <1>1, <3>1 DEF MaskedBy
  <2>10. KeysOf(c)' = KeysOf(c)
    BY <2>6, OpStays
  <2>11. MaskInv(c)'
    <3>1. tobj'[t].body # "MiniTransaction" /\ ~Exists(tobj[t])
      BY <1>1, <2>3, BodyAssumption DEF MaskProtocol, Exists
    <3>2. Masked(c)' = {}
      BY <2>5, <2>6, <2>10 DEF Masked
    <3> QED
      BY <1>1, <2>5, <2>6, <2>9, <3>1, <3>2 DEF MaskInv
  <2>12. ASSUME NEW k \in KeysOf(c) PROVE ReturnInv(c, k)'
    BY <1>1, <2>5, <2>6, <2>9 DEF ReturnInv, Ending
  <2> QED
    BY <1>3, <2>6, <2>7, <2>8, <2>10, <2>11, <2>12 DEF ClientInv
<1>5. CASE BeginSingle(c)
  <2>1. PICK k : k = Least(KeysOf(c))
    OBVIOUS
  <2>2. PICK rr : rr = UserRules(c, k)
    OBVIOUS
  <2>3. PICK b : b = IF Op(c).type = "delete" THEN NoBody ELSE Packed(NoTx, NewData(c, k))
    OBVIOUS
  <2>4. k \in KeysOf(c) /\ k \in Key
    BY <1>1, <2>1, LeastIn, KeyAssumption
  <2>5. rr \in RulesType /\ NewData(c, k) \in Value /\ NewData(c, k) \in Data
    BY <1>1, <2>2, <2>4, NewDataType DEF Data
  <2>6. UNCHANGED <<used, intent>>
    BY <1>5 DEF BeginSingle
  <2>7. PICK s : /\ GoOn(c, s)
                 /\ \/ s = [[Idle EXCEPT !.left = {k}] EXCEPT !.pc = "read"]
                    \/ /\ rr.exists \/ rr.gtGiven
                       /\ s = [[Idle EXCEPT !.left = {k}] EXCEPT !.pc = "direct",
                                  !.call = [key |-> k, rr |-> rr, body |-> b]]
    BY <1>5, <2>1, <2>2, <2>3 DEF BeginSingle
  <2>8. s.pc \in {"read", "direct"} /\ s.tx = NoTx /\ s.job = NoJob
        /\ (s.pc = "direct" => /\ rr.exists \/ rr.gtGiven
                               /\ s.call = [key |-> k, rr |-> rr, body |-> b])
    <3>1. CASE s = [[Idle EXCEPT !.left = {k}] EXCEPT !.pc = "read"]
      BY <3>1 DEF Idle
    <3>2. CASE /\ rr.exists \/ rr.gtGiven
               /\ s = [[Idle EXCEPT !.left = {k}] EXCEPT !.pc = "direct",
                          !.call = [key |-> k, rr |-> rr, body |-> b]]
      BY <3>2 DEF Idle
    <3> QED
      BY <2>7, <3>1, <3>2
  <2>9. /\ StepOf(c) /\ cl'[c] = s
        /\ todo'[c] = todo[c] /\ known'[c] = known[c]
        /\ ~Applying(c)' /\ ~Cleaning(c)' /\ ~Ending(c)'
    BY <1>2, <2>6, <2>7, <2>8
  <2>10. RemoveInv(c)' /\ ShapeInv(c)' /\ MaskInv(c)'
    BY <2>8, <2>9 DEF RemoveInv, ShapeInv, MaskInv, Masking, NoJob, Ending
  <2>11. CallInv(c)'
    <3>1. b = NoBody \/ (b.tx = NoTx /\ b.data # NoData)
      BY <2>3, <2>5, PlainBody, NullAssumption
    <3>2. s.pc = "direct" => Guarded(s.call, NoTx)'
      <4>1. ASSUME s.pc = "direct", ~rr.exists
            PROVE  rr.gtGiven /\ rr.given <= obj'[k].ver
                   /\ ((Exists(obj'[k]) /\ obj'[k].ver = rr.given) => obj'[k].body.tx = NoTx)
        <5>1. rr.gtGiven /\ rr.given = known[c][k].ver
          BY <2>2, <2>8, <4>1 DEF UserRules, RejectRules
        <5>2. KnownInv(c, k)
          BY <2>4, MoverFacts
        <5> QED
          BY <1>1, <5>1, <5>2 DEF KnownInv, Packed
      <4> QED
        BY <2>8, <4>1 DEF Guarded, Exists
    <3> QED
      BY <2>8, <2>9, <3>1, <3>2 DEF CallInv
  <2> QED
    BY <1>3, <2>8, <2>9, <2>10, <2>11 DEF ClientInv
<1>6. CASE BeginFails(c)
  BY <1>1, <1>6, EndUnlearnt DEF BeginFails
<1> QED
  BY <1>4, <1>5, <1>6 DEF Begin

(* A version that was read from an object that is not masked, or rules that *)
(* keep off every object, guard a call.                                     *)
LEMMA ReadGuards ==
  ASSUME TypeOK, NEW k \in Key, NEW rr, NEW b,
         \/ rr.exists
         \/ rr.gtGiven /\ rr.given = obj[k].ver /\ (Exists(obj[k]) => obj[k].body.tx = NoTx)
  PROVE  Guarded([key |-> k, rr |-> rr, body |-> b], NoTx)
BY UsedIds DEF Guarded

LEMMA GotMoves ==
  ASSUME TypeOK, TypeOK', MaskProtocol, NEW c \in Client, At(c, "read"),
         NEW k \in Key, k = Cur(c), Exists(obj[k]), obj[k].body.tx = NoTx,
         UserRules(c, k).gtGiven => obj[k].ver <= UserRules(c, k).given,
         Got(c, k, obj[k]), UNCHANGED <<obj, tobj, used, intent>>
  PROVE  StepOf(c) /\ ClientInv(c)'
<1>1. cl[c].pc = "read" /\ Fit(c, cl[c]) /\ todo[c] # <<>> /\ cl[c] \in Local
      /\ k \in KeysOf(c) /\ k \in cl[c].left /\ ~Ending(c)
  BY ClientFacts, MoverFacts DEF At, Fit
<1>2. PICK o \in [ver : Nat, body : Object] : o = obj[k]
  BY UsedIds DEF Exists
<1>3. PICK d \in Data : d = o.body.data /\ o.body = Packed(NoTx, d) /\ d # NoData
  BY <1>2, MoverFacts DEF Object, Packed, ObjectInv
<1>4. PICK rr \in RulesType : rr = UserRules(c, k)
  BY <1>1, NewDataType
<1>5. NewData(c, k) \in Value /\ NewData(c, k) \in Data
  BY <1>1, NewDataType DEF Data
<1>6. ObjStep(c) /\ TStep(c)
  BY DEF ObjStep, TStep
<1>7. CASE Op(c).type = "read"
  <2>1. Learn(c, k, o.ver, d) /\ End(c, "ok")
    BY <1>2, <1>3, <1>7 DEF Got, IsCommit
  <2>2. o.ver \in Nat /\ o.ver <= obj'[k].ver /\ obj'[k].body = Packed(NoTx, d)
    BY <1>2, <1>3
  <2> QED
    BY <1>3, <1>6, <2>1, <2>2, EndLearnt
<1>8. CASE IsCommit(c)
  <2>1. PICK r : r = Exactly(o.ver)
    OBVIOUS
  <2>2. PICK b : b = Packed(cl[c].tx, d)
    OBVIOUS
  <2>3. Prepare(c, "mask", k, r, b)
    BY <1>2, <1>3, <1>8, <2>1, <2>2 DEF Got, IsCommit
  <2>4. r.gtGiven /\ r.given = obj[k].ver
    BY <1>2, <2>1 DEF Exactly, RejectRules
  <2>5. b # NoBody /\ b.tx = cl[c].tx /\ b.data = d
    <3>1. cl[c].tx \in TxId \cup {NoTx} /\ d \in Data
      BY <1>3, UsedIds
    <3> QED
      BY <2>2, <3>1, PlainBody
  <2>6. Same(c, k) => b.data = known[c][k].data /\ b.data # NoData
    <3>1. ASSUME Same(c, k) PROVE known[c][k].data = d
      <4>1. rr.gtGiven /\ rr.given = known[c][k].ver
        BY <1>4, <3>1 DEF UserRules, RejectRules, Same
      <4>2. known[c][k].ver \in Nat /\ obj[k].ver \in Nat /\ KnownInv(c, k)
        BY MoverFacts DEF TypeOK, StoreOK
      <4>3. obj[k].ver = known[c][k].ver
        BY <1>4, <4>1, <4>2 DEF KnownInv
      <4> QED
        BY <1>2, <1>3, <4>2, <4>3 DEF KnownInv, Packed
    <3> QED
      BY <1>3, <2>5, <3>1
  <2>7. Guarded([key |-> k, rr |-> r, body |-> b], NoTx)
    BY <2>4, ReadGuards
  <2> QED
    BY <1>1, <1>3, <2>3, <2>5, <2>6, <2>7, PrepareMoves DEF CallLabels
<1>9. CASE Op(c).type \in {"write", "delete"}
  <2>1. PICK r, b : /\ Prepare(c, "user", k, r, b)
                    /\ r.gtGiven /\ r.given = o.ver
                    /\ b \in {NoBody, Packed(NoTx, NewData(c, k))}
    <3>1. CASE Op(c).type = "write"
      <4>1. PICK r \in {Exactly(o.ver), NotNewerThan(o.ver)} :
                   Prepare(c, "user", k, r, Packed(NoTx, NewData(c, k)))
        BY <1>2, <1>4, <3>1 DEF Got, IsCommit
      <4>2. r.gtGiven /\ r.given = o.ver
        BY <4>1 DEF Exactly, NotNewerThan, RejectRules
      <4> QED
        BY <4>1, <4>2
    <3>2. CASE Op(c).type = "delete"
      <4>1. Prepare(c, "user", k, RejectRules(rr.doesntExist, FALSE, TRUE, o.ver), NoBody)
        BY <1>2, <1>4, <3>2 DEF Got, IsCommit
      <4> QED
        BY <4>1 DEF RejectRules
    <3> QED
      BY <1>9, <3>1, <3>2
  <2>2. b = NoBody \/ (b.tx = NoTx /\ b.data # NoData)
    BY <1>5, <2>1, PlainBody, NullAssumption
  <2>3. Guarded([key |-> k, rr |-> r, body |-> b], NoTx)
    BY <1>2, <2>1, ReadGuards
  <2> QED
    BY <1>1, <2>1, <2>2, <2>3, PrepareMoves DEF CallLabels
<1> QED
  BY <1>1, <1>7, <1>8, <1>9, OpFacts, ScriptAssumption DEF IsCommit

LEMMA MissingMoves ==
  ASSUME NoopsNeedObjects, TypeOK, TypeOK', MaskProtocol, NEW c \in Client, At(c, "read"),
         NEW k \in Key, k = Cur(c), Missing(c, k), UNCHANGED <<obj, tobj, used, intent>>
  PROVE  StepOf(c) /\ ClientInv(c)'
<1>1. cl[c].pc = "read" /\ Fit(c, cl[c]) /\ todo[c] # <<>> /\ cl[c] \in Local
      /\ k \in KeysOf(c) /\ k \in cl[c].left /\ ~Ending(c)
  BY ClientFacts, MoverFacts DEF At, Fit
<1>2. ObjStep(c) /\ TStep(c)
  BY DEF ObjStep, TStep
<1>3. ASSUME NEW e, Learn(c, k, 0, NoData), End(c, e) PROVE StepOf(c) /\ ClientInv(c)'
  <2>1. 0 <= obj'[k].ver /\ ~(Exists(obj'[k]) /\ obj'[k].ver = 0)
    <3>1. ObjectInv(k) /\ obj[k].ver \in Nat
      BY MoverFacts DEF TypeOK, StoreOK
    <3> QED
      BY <3>1 DEF ObjectInv
  <2> QED
    BY <1>2, <1>3, <2>1, EndLearnt
<1>4. NewData(c, k) \in Data /\ NewData(c, k) # NoData
      /\ UserRules(c, k).doesntExist \in BOOLEAN
  BY <1>1, NewDataType, NullAssumption DEF Data, RulesType
<1>5. PICK r : r = MustNotExist
  OBVIOUS
<1>6. ASSUME NEW b PROVE Guarded([key |-> k, rr |-> r, body |-> b], NoTx)
  BY <1>5, ReadGuards DEF MustNotExist, RejectRules
<1>7. CASE Op(c).type = "read"
  BY <1>3, <1>7 DEF Missing, IsCommit
<1>8. CASE Op(c).type # "read" /\ UserRules(c, k).doesntExist
  <2>1. Raise(c, "NoObjectError")
    BY <1>8 DEF Missing
  <2> QED
    BY <1>1, <2>1, RaiseMoves DEF Endings, Documented
<1>9. CASE IsCommit(c) /\ ~UserRules(c, k).doesntExist
  <2>1. PICK b : b = Packed(cl[c].tx, NoData)
    OBVIOUS
  <2>2. Prepare(c, "mask", k, r, b)
    BY <1>5, <1>9, <2>1 DEF Missing, IsCommit
  <2>3. b # NoBody /\ b.tx = cl[c].tx
    BY <2>1, PlainBody, UsedIds DEF Data
  <2>4. ~Same(c, k)
    BY <1>9 DEF Same, UserRules, RejectRules
  <2>5. ~Noop(c, k)
    <3>1. Op(c) \in UserOp /\ KOp(c, k).rule \notin {"exist", "same"}
      BY <1>1, <1>9, OpFacts DEF UserRules, RejectRules
    <3> QED
      BY <1>1, <1>9, <3>1 DEF NoopsNeedObjects, Noop, KOp, KeysOf, IsCommit
  <2> QED
    BY <1>1, <1>6, <2>2, <2>3, <2>4, <2>5, PrepareMoves DEF CallLabels
<1>10. CASE Op(c).type = "write" /\ ~UserRules(c, k).doesntExist
  <2>1. PICK b : b = Packed(NoTx, NewData(c, k))
    OBVIOUS
  <2>2. Prepare(c, "user", k, r, b)
    BY <1>5, <1>10, <2>1 DEF Missing, IsCommit
  <2>3. b.tx = NoTx /\ b.data # NoData
    BY <1>4, <2>1, PlainBody
  <2> QED
    BY <1>1, <1>6, <2>2, <2>3, PrepareMoves DEF CallLabels
<1>11. CASE Op(c).type = "delete" /\ ~UserRules(c, k).doesntExist
  BY <1>3, <1>11 DEF Missing, IsCommit
<1>12. Op(c).type \in {"read", "write", "delete", "commit"}
  BY <1>1, OpFacts, ScriptAssumption
<1> QED
  BY <1>4, <1>7, <1>8, <1>9, <1>10, <1>11, <1>12 DEF IsCommit

LEMMA ReadObjectMoves ==
  ASSUME NoopsNeedObjects, TypeOK, TypeOK', MaskProtocol, NEW c \in Client, ReadObject(c)
  PROVE  StepOf(c) /\ ClientInv(c)'
<1> DEFINE k == Cur(c)
           o == obj[k]
           rr == UserRules(c, k)
           ro == [rr EXCEPT !.doesntExist = TRUE, !.exists = FALSE]
           st == Err(Status(ro, o))
<1>1. At(c, "read") /\ UNCHANGED <<obj, tobj, intent, used, faults>>
  BY DEF ReadObject
<1>2. cl[c].pc = "read" /\ Fit(c, cl[c]) /\ cl[c] \in Local /\ k \in Key
      /\ k \in KeysOf(c) /\ todo[c] # <<>> /\ ~Ending(c)
  BY <1>1, ClientFacts, MoverFacts DEF At, Fit
<1>3. st \in {"ok", "NoObjectError", "ObjectExistsError", "VersionError", "NameError"}
      /\ (st # "ok" => st \in Endings)
  BY StatusRange
<1>4. rr \in RulesType /\ o \in [ver : Nat, body : {NoBody} \cup Object]
  BY <1>2, NewDataType, UsedIds
<1>5. st = "ok" => /\ Exists(o)
                   /\ rr.gtGiven => o.ver <= rr.given
  <2>1. st = "ok" => Status(ro, o) = "ok"
    BY StatusRange
  <2>2. ro.doesntExist /\ ~ro.exists /\ ro.gtGiven = rr.gtGiven /\ ro.given = rr.given
    BY <1>4 DEF RulesType
  <2>3. o.ver \in Nat /\ rr.given \in Nat
    BY <1>4 DEF RulesType
  <2> HIDE DEF ro, st
  <2> QED
    BY <2>1, <2>2, <2>3 DEF Status
<1>6. CASE st = "ok" /\ IsMasked(o.body)
  <2>1. PICK s : s = [cl[c] EXCEPT !.pc = "readT",
                        !.job = [NoJob EXCEPT !.tx = o.body.tx, !.keys = {k}]]
    OBVIOUS
  <2>2. GoOn(c, s)
    BY <1>6, <2>1 DEF ReadObject
  <2>3. s.pc = "readT" /\ s.tx = cl[c].tx /\ s.left = cl[c].left /\ s.mver = cl[c].mver
        /\ s.job.then = "retry"
    BY <1>2, <2>1 DEF NoJob, Local
  <2>4. ObjStep(c) /\ TStep(c)
    BY <1>1 DEF ObjStep, TStep
  <2>5. /\ StepOf(c) /\ cl'[c] = s
        /\ todo'[c] = todo[c] /\ known'[c] = known[c]
    BY <1>1, <1>2, <2>2, <2>3, <2>4, GoOnStep
  <2>6. CallInv(c)' /\ RemoveInv(c)' /\ Shaped(c, s)
    BY <2>3, <2>5 DEF CallInv, RemoveInv, Applying, Cleaning, Ending, Shaped
  <2> QED
    BY <1>2, <2>3, <2>5, <2>6, GoOnInv
<1>7. CASE st = "ok" /\ ~IsMasked(o.body)
  <2>1. (rr.exists /\ Raise(c, "ObjectExistsError")) \/ Got(c, k, o)
    BY <1>7 DEF ReadObject
  <2>2. CASE Got(c, k, o)
    <3>1. PICK j \in Key : j = k
      BY <1>2
    <3>2. Exists(obj[j]) /\ obj[j].body.tx = NoTx /\ Got(c, j, obj[j])
          /\ (UserRules(c, j).gtGiven => obj[j].ver <= UserRules(c, j).given)
      BY <1>5, <1>7, <2>2, <3>1 DEF IsMasked
    <3> QED
      BY <1>1, <3>1, <3>2, GotMoves
  <2>3. CASE Raise(c, "ObjectExistsError")
    BY <1>1, <1>2, <2>3, RaiseMoves DEF Endings, Documented
  <2> QED
    BY <2>1, <2>2, <2>3
<1>8. CASE st = "NoObjectError"
  <2>1. Missing(c, k)
    BY <1>8 DEF ReadObject
  <2> QED
    BY <1>1, <1>2, <2>1, MissingMoves
<1>9. CASE st \notin {"ok", "NoObjectError"}
  <2>1. Raise(c, st)
    BY <1>9 DEF ReadObject
  <2> HIDE DEF st
  <2> QED
    BY <1>1, <1>2, <1>3, <1>9, <2>1, RaiseMoves
<1> QED
  BY <1>6, <1>7, <1>8, <1>9

-----------------------------------------------------------------------------
(* Calls to the server.                                                     *)

(* What a call does to the store.                                           *)
LEMMA SentCall ==
  ASSUME TypeOK, NEW c \in Client, SendCall(c), cl[c].pc \in CallLabels
  PROVE  /\ ObjStep(c) /\ cl[c].call.key \in Key
         /\ CallStatus(c) # "ok" => UNCHANGED obj
         /\ CallStatus(c) = "ok" =>
              obj'[cl[c].call.key] = Changed(obj[cl[c].call.key], cl[c].call.body)
<1>1. cl[c].call.key \in Key
  BY ClientFacts DEF Fit, CallLabels
<1>2. CASE CallStatus(c) = "ok"
  <2>1. obj' = [obj EXCEPT ![cl[c].call.key] = Changed(@, cl[c].call.body)]
    BY <1>2 DEF SendCall
  <2> QED
    BY <1>1, <1>2, <2>1 DEF ObjStep, TypeOK, StoreOK
<1>3. CASE CallStatus(c) # "ok"
  BY <1>1, <1>3 DEF SendCall, ObjStep
<1> QED
  BY <1>2, <1>3

LEMMA EndCallMoves ==
  ASSUME TypeOK, TypeOK', MaskProtocol, NEW c \in Client, cl[c].pc \in {"user", "direct"},
         SendCall(c), CallStatus(c) = "ok", EndCall(c), UNCHANGED <<tobj, used, intent>>
  PROVE  StepOf(c) /\ ClientInv(c)'
<1>1. PICK q \in Call : q = cl[c].call
  BY UsedIds DEF Local
<1>2. PICK k \in Key : k = q.key
  BY <1>1, SentCall DEF CallLabels
<1>3. ObjStep(c) /\ TStep(c) /\ obj'[k] = Changed(obj[k], q.body)
  BY <1>1, <1>2, SentCall DEF CallLabels, TStep
<1>4. End(c, "ok") /\ obj'[k].ver \in Nat
  BY DEF EndCall, TypeOK, StoreOK
<1>5. CASE q.body = NoBody
  <2>1. Learn(c, k, 0, NoData)
    BY <1>1, <1>2, <1>5 DEF EndCall
  <2>2. 0 <= obj'[k].ver
    BY <1>4
  <2>3. ~Exists(obj'[k])
    BY <1>3, <1>5 DEF Changed, Deleted, Exists, TypeOK, StoreOK
  <2> QED
    BY <1>3, <1>4, <2>1, <2>2, <2>3, EndLearnt
<1>6. CASE q.body # NoBody
  <2>1. PICK v \in Nat : v = obj'[k].ver
    BY <1>4
  <2>2. Learn(c, k, v, q.body.data)
    BY <1>1, <1>2, <1>6, <2>1 DEF EndCall
  <2>3. q.body \in Object /\ q.body.tx = NoTx
    BY <1>1, <1>6, MoverFacts DEF Call, CallInv
  <2>4. obj'[k].body = Packed(NoTx, q.body.data)
    BY <1>3, <1>6, <2>3 DEF Changed, Written, Packed, Object
  <2>5. v <= obj'[k].ver
    BY <2>1
  <2> QED
    BY <1>3, <1>4, <2>2, <2>4, <2>5, EndLearnt
<1> QED
  BY <1>5, <1>6

LEMMA UserCallMoves ==
  ASSUME TypeOK, TypeOK', MaskProtocol, NEW c \in Client, UserCall(c) \/ DirectCall(c)
  PROVE  StepOf(c) /\ ClientInv(c)'
<1> DEFINE st == Err(CallStatus(c))
<1>1. cl[c].pc \in {"user", "direct"} /\ SendCall(c)
      /\ UNCHANGED <<tobj, intent, used, faults>>
  BY DEF UserCall, DirectCall, At
<1>2. (st = "ok" <=> CallStatus(c) = "ok") /\ (st # "ok" => st \in Endings)
  BY StatusRange DEF CallStatus
<1>3. ObjStep(c) /\ TStep(c) /\ (st # "ok" => UNCHANGED obj) /\ ~Ending(c)
  BY <1>1, <1>2, SentCall, MoverFacts DEF CallLabels, TStep
<1>4. CASE st = "ok"
  <2>1. EndCall(c)
    BY <1>4 DEF UserCall, DirectCall, Caught
  <2> QED
    BY <1>1, <1>2, <1>4, <2>1, EndCallMoves
<1>5. CASE st # "ok" /\ Reread(c, cl[c])
  BY <1>1, <1>3, <1>5, RereadMoves
<1>6. CASE st # "ok" /\ Raise(c, st)
  <2> HIDE DEF st
  <2> QED
    BY <1>1, <1>2, <1>3, <1>6, RaiseMoves
<1>7. st # "ok" => Reread(c, cl[c]) \/ Raise(c, st)
  BY DEF UserCall, DirectCall
<1> QED
  BY <1>4, <1>5, <1>6, <1>7

-----------------------------------------------------------------------------
(* Meeting the mask of another transaction.                                 *)

LEMMA ReadTMoves ==
  ASSUME TypeOK, TypeOK', MaskProtocol, NEW c \in Client, ReadT(c)
  PROVE  StepOf(c) /\ ClientInv(c)'
<1>1. At(c, "readT") /\ UNCHANGED <<obj, tobj, intent, used, faults>>
  BY DEF ReadT
<1>2. cl[c].pc = "readT" /\ Fit(c, cl[c]) /\ cl[c] \in Local /\ cl[c].job \in Job
  BY <1>1, ClientFacts DEF At, Local
<1>3. cl[c].job.tx \in used /\ cl[c].job.tx \in TxId /\ cl[c].job.then = "retry" /\ ~Ending(c)
  BY <1>2, UsedIds DEF Fit, JobLabels, Ending
<1>4. PICK t \in TxId : t = cl[c].job.tx
  BY <1>3
<1>5. ObjStep(c) /\ TStep(c)
  BY <1>1 DEF ObjStep, TStep
<1>6. tobj[t].body \in {NoBody, "MiniTransaction", "Tombstone"}
  BY DEF TypeOK, StoreOK
<1>7. CASE Verdict(tobj[t].body) = "unmask" /\ GoOn(c, [cl[c] EXCEPT !.pc = "unmaskRead"])
  <2>1. tobj[t].body = "Tombstone"
    BY <1>6, <1>7, BodyAssumption DEF Verdict, Verdicts
  <2>2. PICK s : s = [cl[c] EXCEPT !.pc = "unmaskRead"]
    OBVIOUS
  <2>3. s.pc = "unmaskRead" /\ s.tx = cl[c].tx /\ s.left = cl[c].left /\ s.mver = cl[c].mver
        /\ s.job = cl[c].job
    BY <1>2, <2>2 DEF Local
  <2>4. /\ StepOf(c) /\ cl'[c] = s
        /\ todo'[c] = todo[c] /\ known'[c] = known[c]
    BY <1>1, <1>3, <1>5, <1>7, <2>2, <2>3, GoOnStep
  <2>5. tobj'[t].body = "Tombstone" /\ cl'[c].job.tx = t /\ cl'[c].job.then = "retry"
    BY <1>1, <1>3, <1>4, <2>1, <2>3, <2>4
  <2>6. CallInv(c)' /\ RemoveInv(c)' /\ Shaped(c, s)
    BY <1>3, <2>3, <2>4, <2>5 DEF CallInv, RemoveInv, Applying, Cleaning, Ending, Shaped
  <2> QED
    BY <1>2, <1>3, <2>3, <2>4, <2>6, GoOnInv
<1>8. CASE /\ Verdict(tobj[t].body) = "finish"
           /\ GoOn(c, [cl[c] EXCEPT !.pc = "applyRead",
                         !.job.keys = DOMAIN intent[t], !.job.ver = tobj[t].ver])
  <2>1. tobj[t].body = "MiniTransaction"
    BY <1>6, <1>8, BodyAssumption DEF Verdict, Verdicts
  <2>2. PICK s : s = [cl[c] EXCEPT !.pc = "applyRead",
                        !.job.keys = DOMAIN intent[t], !.job.ver = tobj[t].ver]
    OBVIOUS
  <2>3. s.pc = "applyRead" /\ s.tx = cl[c].tx /\ s.left = cl[c].left /\ s.mver = cl[c].mver
        /\ s.job.tx = t /\ s.job.then = "retry" /\ s.job.keys = DOMAIN intent[t]
    BY <1>2, <1>3, <1>4, <2>2 DEF Local, Job
  <2>4. /\ StepOf(c) /\ cl'[c] = s
        /\ todo'[c] = todo[c] /\ known'[c] = known[c]
    BY <1>1, <1>3, <1>5, <1>8, <2>1, <2>2, <2>3, GoOnStep
  <2>5. ASSUME NEW k \in Key \ DOMAIN intent[t] PROVE ~MaskedBy(k, t)
    BY <1>3, <1>4, MoverFacts, UsedIds DEF ObjectInv, MaskedBy
  <2>6. cl'[c].job.tx = t /\ \A k \in Key \ cl'[c].job.keys : ~MaskedBy(k, t)'
    BY <1>1, <2>3, <2>4, <2>5 DEF MaskedBy
  <2>7. tobj'[cl'[c].job.tx].body = "MiniTransaction" /\ ~Cleaning(c)'
    BY <1>1, <2>1, <2>3, <2>4 DEF Cleaning
  <2>8. RemoveInv(c)'
    BY <2>6, <2>7 DEF RemoveInv, MaskedBy
  <2>9. CallInv(c)' /\ Shaped(c, s)
    BY <2>3, <2>4 DEF CallInv, Shaped
  <2> QED
    BY <1>2, <1>3, <2>3, <2>4, <2>8, <2>9, GoOnInv
<1>9. CASE Reread(c, cl[c])
  BY <1>1, <1>2, <1>3, <1>5, <1>9, RereadMoves
<1> QED
  BY <1>4, <1>7, <1>8, <1>9 DEF ReadT

LEMMA ExpireMoves ==
  ASSUME TypeOK, TypeOK', MaskProtocol, NEW c \in Client, Expire(c)
  PROVE  StepOf(c) /\ ClientInv(c)'
<1>1. At(c, "readT") /\ UNCHANGED <<obj, tobj, intent, used, faults>>
      /\ GoOn(c, [cl[c] EXCEPT !.pc = "writeTombstone"])
  BY DEF Expire
<1>2. cl[c].pc = "readT" /\ Fit(c, cl[c]) /\ cl[c] \in Local
  BY <1>1, ClientFacts DEF At
<1>3. cl[c].job.then = "retry" /\ ~Ending(c)
  BY <1>2 DEF Fit, Ending
<1>4. ObjStep(c) /\ TStep(c)
  BY <1>1 DEF ObjStep, TStep
<1>5. PICK s : s = [cl[c] EXCEPT !.pc = "writeTombstone"]
  OBVIOUS
<1>6. s.pc = "writeTombstone" /\ s.tx = cl[c].tx /\ s.left = cl[c].left
      /\ s.mver = cl[c].mver /\ s.job = cl[c].job
  BY <1>2, <1>5 DEF Local
<1>7. /\ StepOf(c) /\ cl'[c] = s
      /\ todo'[c] = todo[c] /\ known'[c] = known[c]
  BY <1>1, <1>3, <1>4, <1>5, <1>6, GoOnStep
<1>8. CallInv(c)' /\ RemoveInv(c)' /\ Shaped(c, s)
  BY <1>3, <1>6, <1>7 DEF CallInv, RemoveInv, Applying, Cleaning, Ending, Shaped
<1> QED
  BY <1>2, <1>3, <1>6, <1>7, <1>8, GoOnInv

LEMMA WriteTombstoneMoves ==
  ASSUME TypeOK, TypeOK', MaskProtocol, NEW c \in Client, WriteTombstone(c)
  PROVE  StepOf(c) /\ ClientInv(c)'
<1>1. At(c, "writeTombstone") /\ UNCHANGED <<obj, intent, used, faults>>
  BY DEF WriteTombstone
<1>2. cl[c].pc = "writeTombstone" /\ Fit(c, cl[c]) /\ cl[c] \in Local
  BY <1>1, ClientFacts DEF At
<1>3. cl[c].job.tx \in TxId /\ cl[c].job.then = "retry" /\ ~Ending(c)
  BY <1>2, UsedIds DEF Fit, JobLabels, Ending
<1>4. PICK t \in TxId : t = cl[c].job.tx
  BY <1>3
<1>5. ObjStep(c)
  BY <1>1 DEF ObjStep
<1>6. CASE /\ Accepts(TombstoneRules, tobj[t])
           /\ tobj' = [tobj EXCEPT ![t] = Written(@, "Tombstone")]
           /\ GoOn(c, [cl[c] EXCEPT !.pc = "unmaskRead"])
  <2>1. ~Exists(tobj[t])
    BY <1>6 DEF Accepts, TombstoneRules, MustNotExist, RejectRules, Status
  <2>2. tobj'[t].body = "Tombstone" /\ \A u \in TxId \ {t} : tobj'[u] = tobj[u]
    BY <1>6 DEF TypeOK, StoreOK, Written
  <2>3. TStep(c)
    BY <1>2, <1>4, <2>1, <2>2 DEF TStep
  <2>4. PICK s : s = [cl[c] EXCEPT !.pc = "unmaskRead"]
    OBVIOUS
  <2>5. s.pc = "unmaskRead" /\ s.tx = cl[c].tx /\ s.left = cl[c].left /\ s.mver = cl[c].mver
        /\ s.job = cl[c].job
    BY <1>2, <2>4 DEF Local
  <2>6. /\ StepOf(c) /\ cl'[c] = s
        /\ todo'[c] = todo[c] /\ known'[c] = known[c]
    BY <1>1, <1>3, <1>5, <1>6, <2>3, <2>4, <2>5, GoOnStep
  <2>7. tobj'[cl'[c].job.tx].body = "Tombstone" /\ cl'[c].job.then = "retry"
    BY <1>3, <1>4, <2>2, <2>5, <2>6
  <2>8. CallInv(c)' /\ RemoveInv(c)' /\ Shaped(c, s)
    BY <1>3, <2>5, <2>6, <2>7 DEF CallInv, RemoveInv, Applying, Cleaning, Ending, Shaped
  <2> QED
    BY <1>2, <1>3, <2>5, <2>6, <2>8, GoOnInv
<1>7. CASE Reread(c, cl[c]) /\ UNCHANGED tobj
  <2>1. TStep(c)
    BY <1>7 DEF TStep
  <2> QED
    BY <1>1, <1>2, <1>3, <1>5, <1>7, <2>1, RereadMoves
<1> QED
  BY <1>4, <1>6, <1>7 DEF WriteTombstone

-----------------------------------------------------------------------------
(* Putting down a mask.                                                     *)

LEMMA MaskedMoves ==
  ASSUME TypeOK, TypeOK', MaskProtocol, NEW c \in Client, cl[c].pc = "mask",
         NEW k \in Key, k = cl[c].call.key, SendCall(c), CallStatus(c) = "ok",
         NEW s, GoOn(c, s), s.pc \in {"read", "writeT"}, s.tx = cl[c].tx,
         s.left = cl[c].left \ {k}, NEW m, s.mver = [cl[c].mver EXCEPT ![k] = m],
         m.ver = obj'[k].ver, m.data = cl[c].call.body.data,
         s.job.then = "retry", s.pc = "writeT" => s.left = {},
         UNCHANGED <<tobj, used, intent>>
  PROVE  StepOf(c) /\ ClientInv(c)'
<1>1. Fit(c, cl[c]) /\ cl[c] \in Local /\ ~Ending(c)
  BY ClientFacts, MoverFacts DEF Fit
<1>2. IsCommit(c) /\ cl[c].tx \in used /\ cl[c].tx # NoTx
  BY <1>1, UsedIds DEF Fit
<1>3. PICK t \in TxId : t = cl[c].tx
  BY <1>2, UsedIds
<1>4. PICK q \in Call : q = cl[c].call
  BY <1>1 DEF Local
<1>5. ObjStep(c) /\ TStep(c) /\ obj'[k] = Changed(obj[k], q.body)
  BY <1>4, SentCall DEF CallLabels, TStep
<1>6. /\ StepOf(c) /\ cl'[c] = s
      /\ todo'[c] = todo[c] /\ known'[c] = known[c]
  BY <1>1, <1>5, GoOnStep
<1>7. CallInv(c) /\ ShapeInv(c) /\ MaskInv(c)
  BY MoverFacts
<1>8. q.key = k /\ k \in cl[c].left /\ q.body # NoBody /\ q.body.tx = t
      /\ (Same(c, k) => q.body.data = known[c][k].data /\ q.body.data # NoData)
      /\ (Noop(c, k) => q.body.data # NoData)
  BY <1>3, <1>4, <1>7 DEF CallInv
<1>9. obj'[k] = [ver |-> obj[k].ver + 1, body |-> q.body]
  BY <1>5, <1>8 DEF Changed, Written
<1>10. \A j \in Key : j # k => obj'[j] = obj[j]
  <2>1. obj' = [obj EXCEPT ![k] = Changed(@, q.body)]
    BY <1>4 DEF SendCall
  <2> QED
    BY <2>1 DEF TypeOK, StoreOK
<1>11. Op(c)' = Op(c) /\ KeysOf(c)' = KeysOf(c) /\ \A j : KOp(c, j)' = KOp(c, j)
  BY <1>6, OpStays
<1>12. CallInv(c)' /\ RemoveInv(c)'
  BY <1>6 DEF CallInv, RemoveInv, Applying, Cleaning, Ending
<1>13. ShapeInv(c)'
  <2>1. Intent(c)' = Intent(c)
    BY <1>6 DEF Intent, KeysOf, KOp, NewData, Op
  <2>2. intent'[s.tx] = Intent(c)'
    BY <1>2, <1>7, <2>1 DEF ShapeInv
  <2> QED
    BY <1>2, <1>6, <2>2 DEF ShapeInv, Applying, Ending
<1>14. Masking(c) /\ k \in KeysOf(c) /\ cl[c].left \subseteq KeysOf(c)
       /\ KeysOf(c) \subseteq Key
  BY <1>1, <1>2, <1>8, ClientFacts DEF Masking, Ending, Fit
<1>15. MaskInv(c)'
  <2>1. tobj'[t].body # "MiniTransaction" /\ \A j \in cl[c].left : ~MaskedBy(j, t)
    BY <1>3, <1>7, <1>14 DEF MaskInv
  <2>2. ASSUME NEW j \in s.left PROVE ~MaskedBy(j, t)'
    BY <1>10, <1>14, <2>1, <2>2 DEF MaskedBy
  <2>3. ASSUME ~Exists(tobj[t]), NEW j \in KeysOf(c) \ s.left
        PROVE  MaskedBy(j, t)' /\ obj'[j].ver = s.mver[j].ver
    <3>1. CASE j = k
      <4>1. s.mver[k].ver = obj'[k].ver
        BY <1>1 DEF Local
      <4> QED
        BY <1>8, <1>9, <3>1, <4>1 DEF MaskedBy, Exists
    <3>2. CASE j # k
      <4>1. j \in Masked(c) /\ j \in Key /\ s.mver[j] = cl[c].mver[j]
        BY <1>1, <1>14, <2>3, <3>2 DEF Masked, Local
      <4>2. MaskedBy(j, t) /\ obj[j].ver = cl[c].mver[j].ver
        BY <1>3, <1>7, <1>14, <2>3, <4>1 DEF MaskInv
      <4> QED
        BY <1>10, <3>2, <4>1, <4>2 DEF MaskedBy
    <3> QED
      BY <3>1, <3>2
  <2>4. cl'[c].tx = t /\ cl'[c].left = s.left /\ cl'[c].mver = s.mver
        /\ Masked(c)' = KeysOf(c) \ s.left
    BY <1>3, <1>6, <1>11 DEF Masked
  <2> QED
    BY <2>1, <2>2, <2>3, <2>4 DEF MaskInv, MaskedBy
<1>16. ASSUME NEW j \in KeysOf(c) PROVE ReturnInv(c, j)'
  <2>1. cl'[c].tx = t /\ cl'[c].job.then # "ok" /\ j \in Key
    BY <1>3, <1>6, <1>14, <1>16
  <2>2. ASSUME MaskedBy(j, t)', Same(c, j)
        PROVE  obj'[j].body.data = known[c][j].data /\ obj'[j].body.data # NoData
    <3>1. CASE j = k
      BY <1>8, <1>9, <2>2, <3>1
    <3>2. CASE j # k
      <4>1. MaskedBy(j, t) /\ obj'[j] = obj[j]
        BY <1>10, <2>1, <2>2, <3>2 DEF MaskedBy
      <4>2. ReturnInv(c, j)
        BY <1>2, <1>16 DEF MaskProtocol, ClientInv
      <4> QED
        BY <1>3, <2>2, <4>1, <4>2 DEF ReturnInv
    <3> QED
      BY <3>1, <3>2
  <2>3. Same(c, j)' = Same(c, j) /\ Noop(c, j)' = Noop(c, j)
    BY <1>11 DEF Same, Noop
  <2>4. ASSUME MaskedBy(j, t)', Noop(c, j)
        PROVE  obj'[j].body.data = s.mver[j].data /\ obj'[j].body.data # NoData
    <3>1. CASE j = k
      <4>1. s.mver[k].data = q.body.data
        BY <1>1, <1>4 DEF Local
      <4> QED
        BY <1>8, <1>9, <2>4, <3>1, <4>1
    <3>2. CASE j # k
      <4>1. MaskedBy(j, t) /\ obj'[j] = obj[j] /\ s.mver[j] = cl[c].mver[j]
        BY <1>1, <1>10, <2>1, <2>4, <3>2 DEF MaskedBy, Local
      <4>2. ReturnInv(c, j)
        BY <1>2, <1>16 DEF MaskProtocol, ClientInv
      <4> QED
        BY <1>3, <2>4, <4>1, <4>2 DEF ReturnInv
    <3> QED
      BY <3>1, <3>2
  <2> QED
    BY <1>6, <2>1, <2>2, <2>3, <2>4 DEF ReturnInv, MaskedBy
<1>17. \A j \in Key : KnownInv(c, j)'
  BY <1>5, <1>6, KnownKeeps
<1> QED
  BY <1>6, <1>11, <1>12, <1>13, <1>15, <1>16, <1>17 DEF ClientInv

LEMMA MaskMoves ==
  ASSUME TypeOK, TypeOK', MaskProtocol, NEW c \in Client, Mask(c)
  PROVE  StepOf(c) /\ ClientInv(c)'
<1> DEFINE st == Err(CallStatus(c))
<1>1. cl[c].pc = "mask" /\ SendCall(c) /\ UNCHANGED <<tobj, intent, used, faults>>
  BY DEF Mask, At
<1>2. (st = "ok" <=> CallStatus(c) = "ok") /\ (st # "ok" => st \in Endings)
  BY StatusRange DEF CallStatus
<1>3. ObjStep(c) /\ TStep(c) /\ (st # "ok" => UNCHANGED obj) /\ ~Ending(c)
      /\ cl[c].call.key \in Key /\ cl[c] \in Local
  BY <1>1, <1>2, SentCall, MoverFacts, ClientFacts DEF CallLabels, TStep
<1>4. CASE st = "ok"
  <2>1. PICK k \in Key : k = cl[c].call.key
    BY <1>3
  <2>2. PICK v \in [ver : Nat, data : Data] :
               v = [ver |-> obj'[k].ver, data |-> cl[c].call.body.data]
    <3>1. Fit(c, cl[c]) /\ cl[c].call.body \in {NoBody} \cup Object
      BY <1>1, <1>3, ClientFacts DEF Local, Call
    <3>2. cl[c].call.body.data \in Data /\ obj'[k].ver \in Nat
      BY <1>1, <3>1 DEF Fit, Object, TypeOK, StoreOK
    <3> QED
      BY <3>2
  <2>3. PICK r : r = [cl[c] EXCEPT !.left = cl[c].left \ {k}, !.mver[k] = v]
    OBVIOUS
  <2>4. r.tx = cl[c].tx /\ r.left = cl[c].left \ {k} /\ r.mver = [cl[c].mver EXCEPT ![k] = v]
        /\ r.job = cl[c].job /\ r \in Local
    BY <1>3, <2>2, <2>3 DEF Local
  <2>5. CASE r.left # {} /\ Reread(c, r)
    <3>1. PICK s : s = [r EXCEPT !.pc = "read", !.call = NoCall, !.job = NoJob]
      OBVIOUS
    <3>2. s.pc = "read" /\ s.tx = cl[c].tx /\ s.left = cl[c].left \ {k}
          /\ s.mver = [cl[c].mver EXCEPT ![k] = v] /\ s.job.then = "retry"
      BY <2>2, <2>4, <3>1 DEF NoJob, Local
    <3>3. GoOn(c, s)
      BY <2>5, <3>1 DEF Reread
    <3> QED
      BY <1>1, <1>2, <1>4, <2>1, <2>2, <3>2, <3>3, MaskedMoves
  <2>6. CASE r.left = {} /\ GoOn(c, [r EXCEPT !.pc = "writeT", !.call = NoCall])
    <3>1. PICK s : s = [r EXCEPT !.pc = "writeT", !.call = NoCall]
      OBVIOUS
    <3>2. s.pc = "writeT" /\ s.tx = cl[c].tx /\ s.left = cl[c].left \ {k} /\ s.left = {}
          /\ s.mver = [cl[c].mver EXCEPT ![k] = v] /\ s.job.then = "retry"
      BY <1>3, <2>2, <2>4, <2>6, <3>1 DEF Ending, Local
    <3>3. GoOn(c, s) /\ v.ver = obj'[k].ver /\ v.data = cl[c].call.body.data
      BY <2>2, <2>6, <3>1
    <3> QED
      BY <1>1, <1>2, <1>4, <2>1, <3>2, <3>3, MaskedMoves
  <2>7. \/ r.left # {} /\ Reread(c, r)
        \/ r.left = {} /\ GoOn(c, [r EXCEPT !.pc = "writeT", !.call = NoCall])
    BY <1>4, <2>1, <2>2, <2>3, <2>4 DEF Mask, RejectErrors
  <2> QED
    BY <2>5, <2>6, <2>7
<1>5. CASE st \in RejectErrors
  <2>1. Reread(c, cl[c]) /\ st # "ok"
    BY <1>5 DEF Mask, RejectErrors
  <2> QED
    BY <1>1, <1>3, <2>1, RereadMoves
<1>6. CASE st \notin RejectErrors \cup {"ok"}
  <2>1. Raise(c, st) /\ st # "ok"
    BY <1>6 DEF Mask
  <2> HIDE DEF st
  <2> QED
    BY <1>1, <1>2, <1>3, <2>1, RaiseMoves
<1> QED
  BY <1>4, <1>5, <1>6

-----------------------------------------------------------------------------
(* Taking masks off.                                                        *)

(* A client at the loop of _unmask_objects.                                 *)
LEMMA UnmaskerFacts ==
  ASSUME TypeOK, MaskProtocol, NEW c \in Client, cl[c].pc \in {"unmaskRead", "unmask"}
  PROVE  /\ Fit(c, cl[c]) /\ cl[c] \in Local /\ cl[c].job \in Job
         /\ cl[c].job.keys \subseteq Key /\ cl[c].job.then # "ok" /\ ~Applying(c)
         /\ cl[c].job.tx \in used /\ cl[c].job.tx \in TxId /\ cl[c].job.tx # NoTx
         /\ Ending(c) => NoCoord(cl[c].job.tx)
<1>1. Fit(c, cl[c]) /\ cl[c] \in Local /\ cl[c].job \in Job
  BY ClientFacts DEF Local
<1>2. cl[c].job.tx \in used /\ cl[c].job.tx \in TxId /\ cl[c].job.tx # NoTx
  BY <1>1, UsedIds DEF Fit, JobLabels
<1>3. cl[c].job.then # "ok" /\ ~Applying(c)
  BY MoverFacts DEF ShapeInv, Applying
<1>4. Ending(c) => NoCoord(cl[c].job.tx)
  BY EndedUncoordinated
<1> QED
  BY <1>1, <1>2, <1>3, <1>4 DEF Job

LEMMA UnmaskedMoves ==
  ASSUME TypeOK, TypeOK', MaskProtocol, NEW c \in Client,
         cl[c].pc \in {"unmaskRead", "unmask"}, ObjStep(c), UNCHANGED <<tobj, used, intent>>,
         NEW k \in Key, NEW t \in TxId, t = cl[c].job.tx, ~MaskedBy(k, t)', Unmasked(c, k)
  PROVE  StepOf(c) /\ ClientInv(c)'
<1>1. TStep(c)
  BY DEF TStep
<1>2. PICK ks : ks = Rest(c, k)
  OBVIOUS
<1>3. /\ ks # {} => GoOn(c, [cl[c] EXCEPT !.job.keys = ks, !.call = NoCall, !.pc = "unmaskRead"])
      /\ (ks = {} /\ cl[c].job.then = "retry") => Reread(c, cl[c])
      /\ (ks = {} /\ cl[c].job.then # "retry") =>
           \/ GoOn(c, [cl[c] EXCEPT !.job.keys = ks, !.call = NoCall, !.pc = "deleteTombstone"])
           \/ End(c, cl[c].job.then) /\ UNCHANGED known
  <2>1. cl[c] \in Local
    BY UnmaskerFacts
  <2>2. \A l : [[cl[c] EXCEPT !.job.keys = ks, !.call = NoCall] EXCEPT !.pc = l] =
                 [cl[c] EXCEPT !.job.keys = ks, !.call = NoCall, !.pc = l]
    BY <2>1 DEF Local
  <2> QED
    BY <1>2, <2>2 DEF Unmasked
<1>4. ASSUME NEW l \in {"unmaskRead", "deleteTombstone"},
             GoOn(c, [cl[c] EXCEPT !.job.keys = ks, !.call = NoCall, !.pc = l]),
             l = "deleteTombstone" => ks = {} /\ Ending(c)
      PROVE  StepOf(c) /\ ClientInv(c)'
  <2>1. PICK s : s = [cl[c] EXCEPT !.job.keys = ks, !.call = NoCall, !.pc = l]
    OBVIOUS
  <2>2. s.pc = l /\ s.tx = cl[c].tx /\ s.left = cl[c].left /\ s.mver = cl[c].mver
        /\ s.job.tx = t /\ s.job.then = cl[c].job.then /\ s.job.keys = ks
    BY <2>1, UnmaskerFacts DEF Local, Job
  <2>3. /\ StepOf(c) /\ cl'[c] = s
        /\ todo'[c] = todo[c] /\ known'[c] = known[c]
    BY <1>1, <1>4, <2>1, <2>2, GoOnStep DEF Ending
  <2>4. Ending(c) => \A j \in Key \ ks : ~MaskedBy(j, t)'
    <3> SUFFICES ASSUME Ending(c), NEW j \in Key \ ks PROVE ~MaskedBy(j, t)'
      OBVIOUS
    <3>1. CASE j = k
      BY <3>1
    <3>2. CASE j # k
      <4>1. j \in Key \ cl[c].job.keys
        BY <1>2, <3>2 DEF Rest
      <4>2. ~MaskedBy(j, t)
        BY <4>1, MoverFacts DEF RemoveInv
      <4> QED
        BY <4>2, UnmaskerFacts, NoNewMask
    <3> QED
      BY <3>1, <3>2
  <2>5. Cleaning(c)' => tobj'[t].body = "Tombstone" \/ Gone(t)'
    <3>1. Cleaning(c)' => Cleaning(c)
      BY <2>2, <2>3 DEF Cleaning
    <3>2. Cleaning(c) => tobj[t].body = "Tombstone" \/ Gone(t)
      BY MoverFacts DEF RemoveInv
    <3> QED
      BY <2>3, <3>1, <3>2, SealStays, UnmaskerFacts
  <2>6. RemoveInv(c)'
    <3>1. cl'[c].job.tx = t /\ cl'[c].job.keys = ks /\ ~Applying(c)'
          /\ (Ending(c)' <=> Ending(c))
      BY <2>2, <2>3 DEF Applying, Ending
    <3> QED
      BY <2>4, <2>5, <3>1 DEF RemoveInv, MaskedBy, Gone, NoMask
  <2>7. Ending(c) => cl[c].tx # NoTx /\ cl[c].job.tx = cl[c].tx
    BY MoverFacts DEF ShapeInv
  <2>8. CallInv(c)' /\ Shaped(c, s)
    BY <1>4, <2>2, <2>3, <2>7, UnmaskerFacts DEF CallInv, Shaped, Ending
  <2> QED
    BY <2>2, <2>3, <2>6, <2>8, UnmaskerFacts, GoOnInv DEF Ending
<1>5. CASE ks # {}
  BY <1>3, <1>4, <1>5
<1>6. CASE ks = {} /\ ~Ending(c)
  BY <1>1, <1>3, <1>6, RereadMoves DEF Ending
<1>7. CASE ks = {} /\ Ending(c)
  <2>1. CASE GoOn(c, [cl[c] EXCEPT !.job.keys = ks, !.call = NoCall, !.pc = "deleteTombstone"])
    BY <1>4, <1>7, <2>1
  <2>2. CASE End(c, cl[c].job.then) /\ UNCHANGED known
    BY <1>1, <2>2, EndUnlearnt
  <2> QED
    BY <1>3, <1>7, <2>1, <2>2 DEF Ending
<1> QED
  BY <1>5, <1>6, <1>7

LEMMA UnmaskReadMoves ==
  ASSUME TypeOK, TypeOK', MaskProtocol, NEW c \in Client, UnmaskRead(c)
  PROVE  StepOf(c) /\ ClientInv(c)'
<1>1. cl[c].pc = "unmaskRead" /\ UNCHANGED <<obj, tobj, intent, used, faults>>
  BY DEF UnmaskRead, At
<1>2. PICK t \in TxId : t = cl[c].job.tx
  BY <1>1, UnmaskerFacts
<1>3. PICK k \in Candidates(c) :
        IF MaskedBy(k, t)
          THEN Prepare(c, "unmask", k, NotNewerThan(obj[k].ver), Plain(obj[k].body.data))
          ELSE Unmasked(c, k)
  BY <1>2 DEF UnmaskRead
<1>4. k \in Key
  <2>1. cl[c].job.keys \subseteq Key /\ cl[c].job.keys # {} /\ cl[c].job.keys \subseteq Nat
    BY <1>1, UnmaskerFacts, KeyAssumption DEF Fit
  <2> QED
    BY <2>1, LeastIn DEF Candidates
<1>5. CASE MaskedBy(k, t)
  <2>1. PICK r, b : r = NotNewerThan(obj[k].ver) /\ b = Plain(obj[k].body.data)
    OBVIOUS
  <2>2. Prepare(c, "unmask", k, r, b)
    BY <1>3, <1>5, <2>1
  <2>3. obj[k].body.data \in Data
    BY <1>4, <1>5, UsedIds DEF MaskedBy, Exists, Object
  <2>4. b = NoBody \/ (b.tx = NoTx /\ b.data # NoData)
    BY <2>1, <2>3, PlainBody
  <2>5. r.gtGiven /\ r.given = obj[k].ver
    BY <2>1 DEF NotNewerThan, RejectRules
  <2>6. obj[k].ver \in Nat /\ obj[k].body.tx = t
    BY <1>4, <1>5 DEF TypeOK, StoreOK, MaskedBy
  <2>7. Guarded([key |-> k, rr |-> r, body |-> b], t)
    BY <2>5, <2>6 DEF Guarded
  <2> QED
    BY <1>1, <1>2, <1>4, <2>2, <2>4, <2>7, PrepareMoves, UnmaskerFacts DEF CallLabels
<1>6. CASE ~MaskedBy(k, t)
  <2>1. Unmasked(c, k) /\ ~MaskedBy(k, t)' /\ ObjStep(c)
    BY <1>1, <1>3, <1>6 DEF MaskedBy, ObjStep
  <2> QED
    BY <1>1, <1>2, <1>4, <2>1, UnmaskedMoves
<1> QED
  BY <1>5, <1>6

(* An object that is written without a mask, or deleted, is not masked.     *)
LEMMA PlainUnmasks ==
  ASSUME TypeOK, NEW k \in Key, NEW t \in TxId, NEW b, b = NoBody \/ b.tx = NoTx,
         obj'[k] = Changed(obj[k], b)
  PROVE  ~MaskedBy(k, t)'
BY UsedIds DEF MaskedBy, Changed, Deleted, Written, Exists, TypeOK, StoreOK

LEMMA UnmaskMoves ==
  ASSUME TypeOK, TypeOK', MaskProtocol, NEW c \in Client, Unmask(c)
  PROVE  StepOf(c) /\ ClientInv(c)'
<1> DEFINE st == Err(CallStatus(c))
<1>1. cl[c].pc = "unmask" /\ SendCall(c) /\ UNCHANGED <<tobj, intent, used, faults>>
  BY DEF Unmask, At
<1>2. (st = "ok" <=> CallStatus(c) = "ok") /\ (st # "ok" => st \in Endings)
  BY StatusRange DEF CallStatus
<1>3. ObjStep(c) /\ TStep(c) /\ (st # "ok" => UNCHANGED obj) /\ cl[c].call.key \in Key
  BY <1>1, <1>2, SentCall DEF CallLabels, TStep
<1>4. PICK t \in TxId : t = cl[c].job.tx
  BY <1>1, UnmaskerFacts
<1>5. CASE st = "ok"
  <2>1. PICK k \in Key : k = cl[c].call.key
    BY <1>3
  <2>2. PICK b : b = cl[c].call.body
    OBVIOUS
  <2>3. obj'[k] = Changed(obj[k], b)
    BY <1>1, <1>2, <1>5, <2>1, <2>2, SentCall DEF CallLabels
  <2>4. b = NoBody \/ b.tx = NoTx
    BY <1>1, <2>2, MoverFacts DEF CallInv
  <2>5. ~MaskedBy(k, t)'
    BY <2>3, <2>4, PlainUnmasks
  <2>6. Unmasked(c, k)
    BY <1>5, <2>1 DEF Unmask
  <2> QED
    BY <1>1, <1>3, <1>4, <2>5, <2>6, UnmaskedMoves
<1>6. CASE st = "VersionError"
  <2>1. PICK s : s = [cl[c] EXCEPT !.pc = "unmaskRead"]
    OBVIOUS
  <2>2. GoOn(c, s)
    BY <1>6, <2>1 DEF Unmask
  <2>3. cl[c] \in Local
    BY <1>1, UnmaskerFacts
  <2>4. s.pc = "unmaskRead" /\ s.tx = cl[c].tx /\ s.left = cl[c].left /\ s.mver = cl[c].mver
        /\ s.job = cl[c].job
    BY <2>1, <2>3 DEF Local
  <2>5. /\ StepOf(c) /\ cl'[c] = s
        /\ todo'[c] = todo[c] /\ known'[c] = known[c]
    BY <1>1, <1>3, <2>2, <2>4, GoOnStep DEF Ending
  <2>6. RemoveInv(c)'
    <3>1. cl'[c].job = cl[c].job /\ ~Applying(c)' /\ (Cleaning(c)' => Cleaning(c))
      BY <1>1, <2>4, <2>5 DEF Applying, Cleaning
    <3> QED
      BY <2>5, <3>1, RemoveInvKeeps
  <2>7. Ending(c) => cl[c].tx # NoTx /\ cl[c].job.tx = cl[c].tx
    BY MoverFacts DEF ShapeInv
  <2>8. CallInv(c)' /\ Shaped(c, s)
    BY <1>1, <2>4, <2>5, <2>7, UnmaskerFacts DEF CallInv, Shaped, Ending
  <2> QED
    BY <1>1, <2>4, <2>5, <2>6, <2>8, UnmaskerFacts, GoOnInv DEF Ending
<1>7. CASE st \notin {"ok", "VersionError"}
  <2>1. Raise(c, st)
    BY <1>7 DEF Unmask
  <2> HIDE DEF st
  <2> QED
    BY <1>1, <1>2, <1>3, <1>7, <2>1, RaiseMoves
<1> QED
  BY <1>5, <1>6, <1>7

LEMMA DeleteTombstoneMoves ==
  ASSUME TypeOK, TypeOK', MaskProtocol, NEW c \in Client, DeleteTombstone(c)
  PROVE  StepOf(c) /\ ClientInv(c)'
<1>1. /\ cl[c].pc = "deleteTombstone" /\ tobj' = [tobj EXCEPT ![cl[c].tx] = Deleted(@)]
      /\ End(c, cl[c].job.then) /\ UNCHANGED <<obj, intent, used, known, faults>>
  BY DEF DeleteTombstone, At
<1>2. ObjStep(c)
  BY <1>1 DEF ObjStep
<1>3. TStep(c)
  BY <1>1 DEF TStep, TypeOK, StoreOK, Deleted
<1> QED
  BY <1>1, <1>2, <1>3, EndUnlearnt

-----------------------------------------------------------------------------
(* The commit point.                                                        *)

(* A coordinator that has all of its masks.                                 *)
LEMMA CoordinatorFacts ==
  ASSUME TypeOK, MaskProtocol, NEW c \in Client, cl[c].pc = "writeT"
  PROVE  /\ Fit(c, cl[c]) /\ cl[c] \in Local /\ ~Ending(c) /\ Masking(c)
         /\ cl[c].left = {} /\ KeysOf(c) \subseteq Key
         /\ cl[c].tx \in used /\ cl[c].tx \in TxId /\ cl[c].tx # NoTx
         /\ \A k \in Key \ KeysOf(c) : ~MaskedBy(k, cl[c].tx)
<1>1. Fit(c, cl[c]) /\ cl[c] \in Local /\ ~Ending(c) /\ KeysOf(c) \subseteq Key
      /\ cl[c].left = {}
  BY ClientFacts, MoverFacts DEF ShapeInv
<1>2. IsCommit(c) /\ cl[c].tx \in used /\ DOMAIN intent[cl[c].tx] = KeysOf(c)
  BY <1>1 DEF Fit
<1>3. cl[c].tx \in TxId /\ cl[c].tx # NoTx
  BY <1>2, UsedIds
<1>4. \A k \in Key \ KeysOf(c) : ~MaskedBy(k, cl[c].tx)
  BY <1>2, <1>3, MoverFacts DEF ObjectInv, MaskedBy
<1> QED
  BY <1>1, <1>2, <1>3, <1>4 DEF Masking, Ending

LEMMA StartUnmaskingMoves ==
  ASSUME TypeOK, TypeOK', MaskProtocol, NEW c \in Client, cl[c].pc = "writeT",
         NEW e \in Endings \ {"ok"}, StartUnmasking(c, e), TStep(c),
         UNCHANGED <<obj, used, intent>>
  PROVE  StepOf(c) /\ ClientInv(c)'
<1>1. PICK t \in TxId : t = cl[c].tx
  BY CoordinatorFacts
<1>2. PICK s : s = [cl[c] EXCEPT !.pc = "unmaskRead", !.call = NoCall,
                      !.job = [NoJob EXCEPT !.tx = cl[c].tx, !.keys = KeysOf(c), !.then = e]]
  OBVIOUS
<1>3. GoOn(c, s)
  BY <1>2 DEF StartUnmasking
<1>4. s.pc = "unmaskRead" /\ s.tx = cl[c].tx /\ s.left = cl[c].left /\ s.mver = cl[c].mver
      /\ s.job.tx = t /\ s.job.keys = KeysOf(c) /\ s.job.then = e
  BY <1>1, <1>2, CoordinatorFacts DEF Local, NoJob
<1>5. e # "retry"
  BY DEF Endings, Documented
<1>6. ObjStep(c)
  BY DEF ObjStep
<1>7. /\ StepOf(c) /\ cl'[c] = s
      /\ todo'[c] = todo[c] /\ known'[c] = known[c]
  BY <1>3, <1>4, <1>5, <1>6, GoOnStep
<1>8. RemoveInv(c)'
  <2>1. \A k \in Key \ KeysOf(c) : ~MaskedBy(k, t)'
    BY <1>1, CoordinatorFacts DEF MaskedBy
  <2>2. cl'[c].job.tx = t /\ cl'[c].job.keys = KeysOf(c) /\ ~Applying(c)' /\ ~Cleaning(c)'
    BY <1>4, <1>5, <1>7 DEF Applying, Cleaning
  <2> QED
    BY <2>1, <2>2 DEF RemoveInv, MaskedBy
<1>9. CallInv(c)' /\ Shaped(c, s)
  BY <1>1, <1>4, <1>5, <1>7, CoordinatorFacts DEF CallInv, Shaped
<1> QED
  BY <1>4, <1>5, <1>7, <1>8, <1>9, GoOnInv

LEMMA CommitMoves ==
  ASSUME TypeOK, TypeOK', MaskProtocol, NEW c \in Client, cl[c].pc = "writeT",
         NEW t \in TxId, t = cl[c].tx, ~Exists(tobj[t]),
         tobj' = [tobj EXCEPT ![t] = Written(@, "MiniTransaction")], NEW v,
         GoOn(c, [cl[c] EXCEPT !.pc = "applyRead",
                    !.job = [tx |-> t, keys |-> KeysOf(c), ver |-> v, then |-> "ok"]]),
         UNCHANGED <<obj, used, intent>>
  PROVE  StepOf(c) /\ ClientInv(c)'
<1>1. PICK s : s = [cl[c] EXCEPT !.pc = "applyRead",
                      !.job = [tx |-> t, keys |-> KeysOf(c), ver |-> v, then |-> "ok"]]
  OBVIOUS
<1>2. s.pc = "applyRead" /\ s.tx = cl[c].tx /\ s.left = {} /\ s.mver = cl[c].mver
      /\ s.job.tx = t /\ s.job.keys = KeysOf(c) /\ s.job.then = "ok"
  BY <1>1, CoordinatorFacts DEF Local
<1>3. tobj'[t].body = "MiniTransaction" /\ \A u \in TxId \ {t} : tobj'[u] = tobj[u]
  BY DEF TypeOK, StoreOK, Written
<1>4. ObjStep(c) /\ TStep(c)
  BY <1>3 DEF ObjStep, TStep
<1>5. /\ StepOf(c) /\ cl'[c] = s
      /\ todo'[c] = todo[c] /\ known'[c] = known[c]
  BY <1>1, <1>2, <1>4, GoOnStep
<1>6. Op(c)' = Op(c) /\ KeysOf(c)' = KeysOf(c) /\ \A j : KOp(c, j)' = KOp(c, j)
  BY <1>5, OpStays
<1>7. Applying(c)' /\ Ending(c)' /\ ~Cleaning(c)' /\ ~Masking(c)'
  BY <1>2, <1>5 DEF Applying, Ending, Cleaning, Masking
<1>8. RemoveInv(c)'
  <2>1. \A k \in Key \ KeysOf(c) : ~MaskedBy(k, t)'
    BY CoordinatorFacts DEF MaskedBy
  <2>2. cl'[c].job.tx = t /\ cl'[c].job.keys = KeysOf(c)
    BY <1>2, <1>5
  <2> QED
    BY <1>3, <1>7, <2>1, <2>2 DEF RemoveInv, MaskedBy
<1>9. ShapeInv(c)'
  <2>1. Intent(c)' = Intent(c)
    BY <1>5 DEF Intent, KeysOf, KOp, NewData, Op
  <2>2. intent'[t] = Intent(c)' /\ t # NoTx
    BY <2>1, CoordinatorFacts, MoverFacts DEF ShapeInv
  <2> QED
    BY <1>2, <1>5, <1>7, <2>2 DEF ShapeInv
<1>10. CallInv(c)' /\ MaskInv(c)'
  BY <1>2, <1>5, <1>7 DEF CallInv, MaskInv
<1>11. ASSUME NEW k \in KeysOf(c) PROVE ReturnInv(c, k)'
  <2>1. ReturnInv(c, k) /\ MaskInv(c) /\ Masking(c) /\ k \in Key
    BY <1>11, CoordinatorFacts DEF MaskProtocol, ClientInv
  <2>2. MaskedBy(k, t) /\ obj[k].ver = cl[c].mver[k].ver
    BY <1>11, <2>1, CoordinatorFacts DEF MaskInv, Masked
  <2>3. (Same(c, k) => obj[k].body.data = known[c][k].data /\ obj[k].body.data # NoData)
        /\ (Noop(c, k) =>
              obj[k].body.data = cl[c].mver[k].data /\ obj[k].body.data # NoData)
        /\ (Same(c, k)' <=> Same(c, k)) /\ (Noop(c, k)' <=> Noop(c, k))
    BY <1>6, <2>1, <2>2 DEF ReturnInv, Same, Noop
  <2>4. cl'[c].tx = t /\ cl'[c].mver = cl[c].mver /\ obj' = obj
    BY <1>2, <1>5
  <2> QED
    BY <1>5, <2>2, <2>3, <2>4 DEF ReturnInv, MaskedBy
<1>12. \A j \in Key : KnownInv(c, j)'
  BY <1>4, <1>5, KnownKeeps
<1> QED
  BY <1>5, <1>6, <1>8, <1>9, <1>10, <1>11, <1>12 DEF ClientInv

LEMMA WriteTMoves ==
  ASSUME TypeOK, TypeOK', MaskProtocol, NEW c \in Client, WriteT(c) \/ InterruptWriteT(c)
  PROVE  StepOf(c) /\ ClientInv(c)'
<1>1. cl[c].pc = "writeT" /\ UNCHANGED <<obj, intent, used>>
  BY DEF WriteT, InterruptWriteT, At
<1>2. PICK t \in TxId : t = cl[c].tx
  BY <1>1, CoordinatorFacts
<1>3. Accepts(IntentRules, tobj[t]) => ~Exists(tobj[t])
  BY DEF Accepts, IntentRules, MustNotExist, RejectRules, Status
<1>4. CASE WriteT(c) /\ Accepts(IntentRules, tobj[t])
  <2>1. PICK v : v = tobj'[t].ver
    OBVIOUS
  <2>2. tobj' = [tobj EXCEPT ![t] = Written(@, "MiniTransaction")]
        /\ GoOn(c, [cl[c] EXCEPT !.pc = "applyRead",
                      !.job = [tx |-> t, keys |-> KeysOf(c), ver |-> v, then |-> "ok"]])
    BY <1>2, <1>4, <2>1 DEF WriteT
  <2> QED
    BY <1>1, <1>2, <1>3, <1>4, <2>2, CommitMoves
<1>5. CASE WriteT(c) /\ ~Accepts(IntentRules, tobj[t])
  <2>1. StartUnmasking(c, "TransactionExpired") /\ UNCHANGED tobj
    BY <1>2, <1>5 DEF WriteT
  <2>2. TStep(c)
    BY <2>1 DEF TStep
  <2> QED
    BY <1>1, <2>1, <2>2, StartUnmaskingMoves DEF Endings, Documented
<1>6. CASE InterruptWriteT(c)
  <2>1. StartUnmasking(c, "KeyboardInterrupt") /\ Accepts(IntentRules, tobj[t])
        /\ tobj' = [tobj EXCEPT ![t] = Written(@, "MiniTransaction")]
    BY <1>2, <1>6 DEF InterruptWriteT
  <2>2. TStep(c)
    BY <1>1, <1>2, <1>3, <2>1 DEF TStep, TypeOK, StoreOK, Written
  <2> QED
    BY <1>1, <2>1, <2>2, StartUnmaskingMoves DEF Endings
<1> QED
  BY <1>4, <1>5, <1>6

-----------------------------------------------------------------------------
(* Applying a transaction.                                                  *)

LEMMA ApplierFacts ==
  ASSUME TypeOK, MaskProtocol, NEW c \in Client, Applying(c)
  PROVE  /\ Fit(c, cl[c]) /\ cl[c] \in Local /\ cl[c].job \in Job
         /\ cl[c].job.keys \subseteq Key /\ cl[c].job.then \in {"retry", "ok"}
         /\ cl[c].job.tx \in used /\ cl[c].job.tx \in TxId /\ cl[c].job.tx # NoTx
         /\ NoCoord(cl[c].job.tx)
         /\ \A k \in Key \ cl[c].job.keys : ~MaskedBy(k, cl[c].job.tx)
         /\ Ending(c) => cl[c].tx # NoTx /\ cl[c].job.tx = cl[c].tx
<1>1. cl[c].pc \in {"applyRead", "apply", "deleteT"}
  BY DEF Applying
<1>2. Fit(c, cl[c]) /\ cl[c] \in Local /\ cl[c].job \in Job
  BY <1>1, ClientFacts DEF Local
<1>3. cl[c].job.tx \in used /\ cl[c].job.tx \in TxId /\ cl[c].job.tx # NoTx
  BY <1>1, <1>2, UsedIds DEF Fit, JobLabels
<1>4. cl[c].job.then \in {"retry", "ok"}
  BY <1>1, <1>2 DEF Fit
<1>5. NoCoord(cl[c].job.tx)
  BY AppliedUncoordinated
<1>6. \A k \in Key \ cl[c].job.keys : ~MaskedBy(k, cl[c].job.tx)
  BY MoverFacts DEF RemoveInv
<1>7. Ending(c) => cl[c].tx # NoTx /\ cl[c].job.tx = cl[c].tx
  BY MoverFacts DEF ShapeInv
<1> QED
  BY <1>2, <1>3, <1>4, <1>5, <1>6, <1>7 DEF Job

LEMMA AppliedMoves ==
  ASSUME TypeOK, TypeOK', MaskProtocol, NEW c \in Client, Applying(c), ObjStep(c),
         UNCHANGED <<tobj, used, intent>>, cl[c].pc # "mask",
         NEW k \in Key, NEW t \in TxId, t = cl[c].job.tx, ~MaskedBy(k, t)', Applied(c, k)
  PROVE  StepOf(c) /\ ClientInv(c)'
<1>1. TStep(c)
  BY DEF TStep
<1>2. PICK ks : ks = Rest(c, k)
  OBVIOUS
<1>3. PICK l : l = IF ks = {} THEN "deleteT" ELSE "applyRead"
  OBVIOUS
<1>4. PICK s : s = [cl[c] EXCEPT !.pc = l, !.job.keys = ks, !.call = NoCall]
  OBVIOUS
<1>5. GoOn(c, s)
  BY <1>2, <1>3, <1>4 DEF Applied
<1>6. s.pc = l /\ s.tx = cl[c].tx /\ s.left = cl[c].left /\ s.mver = cl[c].mver
      /\ s.job.tx = t /\ s.job.then = cl[c].job.then /\ s.job.keys = ks
  BY <1>4, ApplierFacts DEF Local, Job
<1>7. /\ StepOf(c) /\ cl'[c] = s
      /\ todo'[c] = todo[c] /\ known'[c] = known[c]
  BY <1>1, <1>5, <1>6, GoOnStep DEF Ending
<1>8. ASSUME NEW j \in Key \ ks PROVE ~MaskedBy(j, t)'
  <2>1. CASE j = k
    BY <2>1
  <2>2. CASE j # k
    <3>1. j \in Key \ cl[c].job.keys
      BY <1>2, <2>2 DEF Rest
    <3>2. ~MaskedBy(j, t)
      BY <3>1, ApplierFacts
    <3> QED
      BY <3>2, ApplierFacts, NoNewMask
  <2> QED
    BY <2>1, <2>2
<1>9. tobj'[t].body = "MiniTransaction" \/ NoMask(t)'
  <2>1. tobj[t].body = "MiniTransaction" \/ NoMask(t)
    BY MoverFacts DEF RemoveInv
  <2>2. NoMask(t) => NoMask(t)'
    BY <1>7, ApplierFacts, NoMaskStays
  <2> QED
    BY <2>1, <2>2
<1>10. RemoveInv(c)'
  <2>1. cl'[c].job.tx = t /\ cl'[c].job.keys = ks /\ ~Cleaning(c)'
    BY <1>3, <1>6, <1>7 DEF Cleaning
  <2> QED
    BY <1>8, <1>9, <2>1 DEF RemoveInv, MaskedBy, NoMask
<1>11. CallInv(c)' /\ Shaped(c, s)
  BY <1>3, <1>6, <1>7, ApplierFacts DEF CallInv, Shaped, Ending
<1> QED
  BY <1>6, <1>7, <1>10, <1>11, GoOnInv DEF Ending, Applying

LEMMA ApplyReadMoves ==
  ASSUME TypeOK, TypeOK', MaskProtocol, NEW c \in Client, ApplyRead(c)
  PROVE  StepOf(c) /\ ClientInv(c)'
<1>1. cl[c].pc = "applyRead" /\ UNCHANGED <<obj, tobj, intent, used, faults>> /\ Applying(c)
  BY DEF ApplyRead, At, Applying
<1>2. PICK t \in TxId : t = cl[c].job.tx
  BY <1>1, ApplierFacts
<1>3. PICK k \in cl[c].job.keys :
        IF MaskedBy(k, t)
          THEN Prepare(c, "apply", k, ApplyRules(obj[k].ver),
                       Plain(Result(intent[t][k], obj[k].body.data)))
          ELSE Applied(c, k)
  BY <1>2 DEF ApplyRead
<1>4. k \in Key /\ k \in DOMAIN intent[t]
  BY <1>1, <1>2, ApplierFacts DEF Fit
<1>5. CASE MaskedBy(k, t)
  <2>1. PICK r, b : /\ r = ApplyRules(obj[k].ver)
                    /\ b = Plain(Result(intent[t][k], obj[k].body.data))
    OBVIOUS
  <2>2. Prepare(c, "apply", k, r, b)
    BY <1>3, <1>5, <2>1
  <2>3. Result(intent[t][k], obj[k].body.data) \in Data
    <3>1. obj[k].body.data \in Data
      BY <1>4, <1>5, UsedIds DEF MaskedBy, Exists, Object
    <3>2. intent[t][k] \in [kind : {"noop", "write", "delete"}, data : Data]
      BY <1>4 DEF TypeOK, StoreOK
    <3> QED
      BY <3>1, <3>2 DEF Result, Data
  <2>4. b = NoBody \/ (b.tx = NoTx /\ b.data # NoData)
    BY <2>1, <2>3, PlainBody
  <2>5. r.gtGiven /\ r.given = obj[k].ver
    BY <2>1 DEF ApplyRules, Exactly, RejectRules
  <2>6. obj[k].ver \in Nat /\ obj[k].body.tx = t
    BY <1>4, <1>5 DEF TypeOK, StoreOK, MaskedBy
  <2>7. Guarded([key |-> k, rr |-> r, body |-> b], t)
    BY <2>5, <2>6 DEF Guarded
  <2> QED
    BY <1>1, <1>2, <1>4, <2>1, <2>2, <2>4, <2>5, <2>7, PrepareMoves DEF CallLabels
<1>6. CASE ~MaskedBy(k, t)
  <2>1. Applied(c, k) /\ ~MaskedBy(k, t)' /\ ObjStep(c)
    BY <1>1, <1>3, <1>6 DEF MaskedBy, ObjStep
  <2> QED
    BY <1>1, <1>2, <1>4, <2>1, AppliedMoves
<1> QED
  BY <1>5, <1>6

LEMMA ApplyMoves ==
  ASSUME TypeOK, TypeOK', MaskProtocol, NEW c \in Client, Apply(c)
  PROVE  StepOf(c) /\ ClientInv(c)'
<1> DEFINE st == Err(CallStatus(c))
<1>1. cl[c].pc = "apply" /\ SendCall(c) /\ UNCHANGED <<tobj, intent, used, faults>>
      /\ Applying(c)
  BY DEF Apply, At, Applying
<1>2. (st = "ok" <=> CallStatus(c) = "ok") /\ (st # "ok" => st \in Endings)
  BY StatusRange DEF CallStatus
<1>3. ObjStep(c) /\ TStep(c) /\ (st # "ok" => UNCHANGED obj) /\ cl[c].call.key \in Key
  BY <1>1, <1>2, SentCall DEF CallLabels, TStep
<1>4. PICK t \in TxId : t = cl[c].job.tx
  BY <1>1, ApplierFacts
<1>5. PICK k \in Key, q \in Call : k = q.key /\ q = cl[c].call
  BY <1>3, UsedIds DEF Local
<1>6. CASE st \in {"ok", "NoObjectError", "VersionError"}
  <2>1. Applied(c, k)
    BY <1>5, <1>6 DEF Apply
  <2>2. ~MaskedBy(k, t)'
    <3>1. CASE st = "ok"
      <4>1. obj'[k] = Changed(obj[k], q.body)
        BY <1>1, <1>2, <1>5, <3>1, SentCall DEF CallLabels
      <4>2. q.body = NoBody \/ q.body.tx = NoTx
        BY <1>1, <1>5, MoverFacts DEF CallInv
      <4> QED
        BY <4>1, <4>2, PlainUnmasks
    <3>2. CASE st # "ok"
      <4>1. Status(q.rr, obj[k]) \in {"NoObjectError", "VersionError"}
        BY <1>5, <1>6, <3>2 DEF CallStatus, Err
      <4>2. obj[k].ver \in Nat
        BY DEF TypeOK, StoreOK
      <4>3. MaskedBy(k, t) => obj[k].ver = q.rr.given
        BY <1>1, <1>4, <1>5, MoverFacts DEF CallInv
      <4>4. ~MaskedBy(k, t)
        BY <4>1, <4>2, <4>3 DEF Status, MaskedBy
      <4> QED
        BY <1>3, <3>2, <4>4 DEF MaskedBy
    <3> QED
      BY <3>1, <3>2
  <2> QED
    BY <1>1, <1>3, <1>4, <2>1, <2>2, AppliedMoves
<1>7. CASE st \notin {"ok", "NoObjectError", "VersionError"}
  <2>1. Raise(c, st)
    BY <1>7 DEF Apply
  <2> HIDE DEF st
  <2> QED
    BY <1>1, <1>2, <1>3, <1>7, <2>1, RaiseMoves
<1> QED
  BY <1>6, <1>7

-----------------------------------------------------------------------------
(* The end of a transaction, and of a client.                               *)

(* What mt_commit returns is right.                                         *)
LEMMA ReturnedIsKnown ==
  ASSUME TypeOK, MaskProtocol, NEW c \in Client, cl[c].pc = "deleteT",
         cl[c].job.then = "ok", NEW k \in Key
  PROVE  /\ Returned(c)[k].ver <= obj[k].ver
         /\ (Exists(obj[k]) /\ obj[k].ver = Returned(c)[k].ver) =>
              obj[k].body = Packed(NoTx, Returned(c)[k].data)
<1>1. Fit(c, cl[c]) /\ cl[c] \in Local /\ Applying(c) /\ Ending(c) /\ todo[c] # <<>>
  BY ClientFacts DEF Applying, Ending
<1>2. cl[c].job.keys = {} /\ cl[c].tx # NoTx /\ cl[c].job.tx = cl[c].tx
      /\ KnownInv(c, k) /\ ObjectInv(k)
  BY <1>1, MoverFacts DEF ShapeInv
<1>3. obj[k].ver \in Nat /\ cl[c].mver[k].ver \in Nat
  BY <1>1 DEF TypeOK, StoreOK, Local
<1>4. CASE k \notin KeysOf(c)
  BY <1>2, <1>4 DEF Returned, KnownInv
<1>5. CASE k \in KeysOf(c)
  <2>1. KOp(c, k).kind \in {"noop", "write", "delete"}
    BY <1>1, <1>5, OpFacts DEF KeyOp
  <2>2. CASE Informs(c, k)
    <3>1. Returned(c)[k].ver = cl[c].mver[k].ver + 1
      BY <1>5, <2>2 DEF Informs, Noop, Returned
    <3>2. ~MaskedBy(k, cl[c].tx)
      BY <1>1, <1>2, ApplierFacts
    <3>3. ReturnInv(c, k)
      BY <1>2, <1>5 DEF MaskProtocol, ClientInv
    <3> QED
      BY <1>3, <2>2, <3>1, <3>2, <3>3 DEF ReturnInv
  <2>3. CASE ~Informs(c, k)
    <3>1. Returned(c)[k].ver = 0
      BY <1>5, <2>1, <2>3 DEF Informs, Noop, Returned
    <3> QED
      BY <1>2, <1>3, <3>1 DEF ObjectInv
  <2> QED
    BY <2>2, <2>3
<1> QED
  BY <1>4, <1>5

LEMMA DeleteTMoves ==
  ASSUME TypeOK, TypeOK', MaskProtocol, NEW c \in Client, DeleteT(c)
  PROVE  StepOf(c) /\ ClientInv(c)'
<1>1. cl[c].pc = "deleteT" /\ UNCHANGED <<obj, intent, used, faults>> /\ Applying(c)
  BY DEF DeleteT, At, Applying
<1>2. PICK t \in TxId : t = cl[c].job.tx
  BY <1>1, ApplierFacts
<1>3. PICK st : st = Err(Status(NotNewerThan(cl[c].job.ver), tobj[t]))
  OBVIOUS
<1>4. st # "ok" => st \in Endings
  BY <1>3, StatusRange
<1>5. ObjStep(c) /\ cl[c].job.then \in {"retry", "ok"}
  BY <1>1, ApplierFacts DEF ObjStep
<1>6. CASE st = "ok"
  <2>1. tobj' = [tobj EXCEPT ![t] = Deleted(@)]
    BY <1>2, <1>3, <1>6 DEF DeleteT
  <2>2. TStep(c)
    BY <1>1, <1>2, <2>1 DEF TStep, TypeOK, StoreOK, Deleted
  <2>3. CASE cl[c].job.then = "retry"
    <3>1. Reread(c, cl[c])
      BY <1>2, <1>3, <1>6, <2>3 DEF DeleteT
    <3> QED
      BY <1>1, <1>5, <2>2, <2>3, <3>1, RereadMoves DEF Ending
  <2>4. CASE cl[c].job.then = "ok"
    <3>1. known' = [known EXCEPT ![c] = Returned(c)] /\ End(c, "ok")
      BY <1>2, <1>3, <1>6, <2>4 DEF DeleteT
    <3>2. ASSUME NEW k \in Key PROVE KnownInv(c, k)'
      <4>1. known'[c] = Returned(c)
        BY <3>1 DEF TypeOK
      <4> QED
        BY <1>1, <2>4, <4>1, ReturnedIsKnown DEF KnownInv
    <3>3. cl' = [cl EXCEPT ![c] = Idle] /\ todo' = [todo EXCEPT ![c] = Tail(@)]
      BY <3>1 DEF End, Become
    <3>4. \A d \in Client \ {c} : todo'[d] = todo[d] /\ known'[d] = known[d]
      BY <3>1, <3>3 DEF TypeOK
    <3> QED
      BY <1>1, <1>5, <2>2, <3>2, <3>3, <3>4, EndMoves
  <2> QED
    BY <1>5, <2>3, <2>4
<1>7. CASE st # "ok"
  <2>1. UNCHANGED tobj
    BY <1>2, <1>3, <1>7 DEF DeleteT
  <2>2. PICK e \in Endings \ {"ok"} : Raise(c, e)
    BY <1>2, <1>3, <1>4, <1>7 DEF DeleteT, Endings
  <2> QED
    BY <1>1, <2>1, <2>2, RaiseMoves
<1> QED
  BY <1>6, <1>7

LEMMA CrashMoves ==
  ASSUME TypeOK, TypeOK', MaskProtocol, NEW c \in Client, Crash(c)
  PROVE  StepOf(c) /\ ClientInv(c)'
<1>1. /\ cl' = [cl EXCEPT ![c] = [Idle EXCEPT !.pc = "crashed"]]
      /\ todo' = [todo EXCEPT ![c] = <<>>] /\ UNCHANGED <<obj, tobj, intent, used, known>>
  BY DEF Crash
<1>2. ObjStep(c) /\ TStep(c)
  BY <1>1 DEF ObjStep, TStep
<1>3. \A d \in Client \ {c} : todo'[d] = todo[d] /\ known'[d] = known[d]
  BY <1>1 DEF TypeOK
<1>4. \A k \in Key : KnownInv(c, k)'
  BY <1>1, <1>2, KnownKeeps
<1> QED
  BY <1>1, <1>2, <1>3, <1>4, EndMoves

-----------------------------------------------------------------------------
(* Every step keeps the protocol.                                           *)

LEMMA StepMoves ==
  ASSUME NoopsNeedObjects, TypeOK, TypeOK', MaskProtocol, NEW c \in Client,
         Step(c) \/ Crash(c) \/ InterruptWriteT(c)
  PROVE  StepOf(c) /\ ClientInv(c)'
<1>1. CASE Begin(c) \/ ReadObject(c) \/ Mask(c) \/ UserCall(c) \/ DirectCall(c)
  BY <1>1, BeginMoves, ReadObjectMoves, MaskMoves, UserCallMoves
<1>2. CASE ReadT(c) \/ Expire(c) \/ WriteTombstone(c)
  BY <1>2, ReadTMoves, ExpireMoves, WriteTombstoneMoves
<1>3. CASE UnmaskRead(c) \/ Unmask(c) \/ DeleteTombstone(c)
  BY <1>3, UnmaskReadMoves, UnmaskMoves, DeleteTombstoneMoves
<1>4. CASE WriteT(c) \/ InterruptWriteT(c)
  BY <1>4, WriteTMoves
<1>5. CASE ApplyRead(c) \/ Apply(c) \/ DeleteT(c) \/ Crash(c)
  BY <1>5, ApplyReadMoves, ApplyMoves, DeleteTMoves, CrashMoves
<1> QED
  BY <1>1, <1>2, <1>3, <1>4, <1>5 DEF Step

LEMMA StutterMasks ==
  ASSUME UNCHANGED vars, MaskProtocol PROVE MaskProtocol'
<1>1. /\ obj' = obj /\ tobj' = tobj /\ intent' = intent /\ used' = used
      /\ todo' = todo /\ known' = known /\ cl' = cl
  BY DEF vars
<1>2. \A t \in TxId \ used' : ~Exists(tobj'[t])
  BY <1>1 DEF MaskProtocol
<1>3. ASSUME NEW k \in Key PROVE ObjectInv(k)'
  BY <1>1 DEF MaskProtocol, ObjectInv
<1>4. ASSUME NEW c \in Client PROVE ClientInv(c)'
  <2>1. Op(c)' = Op(c) /\ KeysOf(c)' = KeysOf(c) /\ Intent(c)' = Intent(c)
        /\ (\A k : KOp(c, k)' = KOp(c, k)) /\ Returned(c)' = Returned(c)
        /\ Masked(c)' = Masked(c)
    BY <1>1 DEF Op, KeysOf, KOp, Intent, NewData, Returned, Masked
  <2>2. CallInv(c) /\ ShapeInv(c) /\ MaskInv(c) /\ RemoveInv(c)
        /\ (\A k \in Key : KnownInv(c, k))
        /\ (cl[c].tx # NoTx => \A k \in KeysOf(c) : ReturnInv(c, k))
    BY DEF MaskProtocol, ClientInv
  <2>3. CallInv(c)'
    BY <1>1, <2>1, <2>2 DEF CallInv, Guarded, Same, Noop, MaskedBy
  <2>4. ShapeInv(c)'
    BY <1>1, <2>1, <2>2 DEF ShapeInv, Applying, Ending
  <2>5. MaskInv(c)'
    BY <1>1, <2>1, <2>2 DEF MaskInv, Masking, MaskedBy
  <2>6. RemoveInv(c)'
    BY <1>1, <2>2 DEF RemoveInv, Applying, Ending, Cleaning, MaskedBy, Gone, NoMask, Masking
  <2>7. \A k \in Key : KnownInv(c, k)'
    BY <1>1, <2>2 DEF KnownInv
  <2>8. cl'[c].tx # NoTx => \A k \in KeysOf(c) : ReturnInv(c, k)'
    BY <1>1, <2>1, <2>2 DEF ReturnInv, Same, Noop, Informs, MaskedBy
  <2> QED
    BY <2>1, <2>3, <2>4, <2>5, <2>6, <2>7, <2>8 DEF ClientInv
<1>5. ASSUME NEW c \in Client, NEW d \in Client PROVE PairInv(c, d)'
  <2>1. PairInv(c, d)
    BY DEF MaskProtocol
  <2> QED
    BY <1>1, <2>1 DEF PairInv, Masking, Applying
<1> QED
  BY <1>2, <1>3, <1>4, <1>5 DEF MaskProtocol

(* A step makes no transaction object for an id that was not handed out.    *)
LEMMA UnusedStay ==
  ASSUME TypeOK, MaskProtocol, NEW c \in Client, StepOf(c), NEW t \in TxId \ used'
  PROVE  ~Exists(tobj'[t])
<1>1. t \notin used /\ TStep(c)
  BY DEF StepOf, Alone
<1>2. ~Exists(tobj[t])
  BY <1>1 DEF MaskProtocol
<1>3. cl[c].pc = "writeTombstone" => cl[c].job.tx \in used
  BY ClientFacts DEF Fit, JobLabels
<1>4. cl[c].pc = "writeT" => cl[c].tx \in used
  BY CoordinatorFacts
<1> QED
  BY <1>1, <1>2, <1>3, <1>4 DEF TStep, Exists

LEMMA NextMasks ==
  ASSUME NoopsNeedObjects, TypeOK, TypeOK', MaskProtocol, [Next]_vars PROVE MaskProtocol'
<1>1. CASE UNCHANGED vars
  BY <1>1, StutterMasks
<1>2. ASSUME NEW c \in Client, Step(c) \/ Crash(c) \/ InterruptWriteT(c)
      PROVE  MaskProtocol'
  <2>1. StepOf(c) /\ ClientInv(c)'
    BY <1>2, StepMoves
  <2>2. \A d \in Client : ClientInv(d)'
    BY <2>1, OthersKeep
  <2>3. \A k \in Key : ObjectInv(k)'
    BY <2>1, ObjectsKeep
  <2>4. \A d, e \in Client : PairInv(d, e)'
    BY <2>1, PairsKeep
  <2>5. \A t \in TxId \ used' : ~Exists(tobj'[t])
    BY <2>1, UnusedStay
  <2> QED
    BY <2>2, <2>3, <2>4, <2>5 DEF MaskProtocol
<1> QED
  BY <1>1, <1>2 DEF Next, Finished

LEMMA InitMasks == Init => MaskProtocol
<1> SUFFICES ASSUME Init PROVE MaskProtocol
  OBVIOUS
<1>1. \A c \in Client : cl[c] = Idle
  BY DEF Init
<1>2. \A c \in Client : /\ cl[c].pc = "idle" /\ cl[c].tx = NoTx /\ cl[c].job.then = "retry"
  BY <1>1 DEF Idle, NoJob
<1>3. ASSUME NEW k \in Key
      PROVE  /\ obj[k].ver \in {0, 1} /\ (Exists(obj[k]) => obj[k].ver = 1)
             /\ Exists(obj[k]) => obj[k].body.tx = NoTx /\ obj[k].body.data # NoData
  <2>1. PICK data \in InitialData :
          obj = [j \in Key |-> IF data[j] = NoData
                                THEN [ver |-> 0, body |-> NoBody]
                                ELSE [ver |-> 1, body |-> Packed(NoTx, data[j])]]
    BY DEF Init
  <2>2. obj[k] = IF data[k] = NoData THEN [ver |-> 0, body |-> NoBody]
                 ELSE [ver |-> 1, body |-> Packed(NoTx, data[k])]
    BY <2>1
  <2> QED
    BY <2>2 DEF Exists, Packed
<1>4. \A k \in Key : ObjectInv(k)
  BY <1>3 DEF ObjectInv
<1>5. \A t \in TxId \ used : ~Exists(tobj[t])
  BY DEF Init, Exists
<1>6. ASSUME NEW c \in Client PROVE ClientInv(c)
  <2>1. CallInv(c) /\ MaskInv(c) /\ RemoveInv(c)
    BY <1>2 DEF CallInv, MaskInv, RemoveInv, Masking, Applying, Ending, Cleaning
  <2>2. ShapeInv(c)
    BY <1>2 DEF ShapeInv, Applying, Ending
  <2>3. ASSUME NEW k \in Key PROVE KnownInv(c, k)
    <3>1. known[c][k].ver = 0
      BY DEF Init
    <3> QED
      BY <1>3, <3>1 DEF KnownInv
  <2> QED
    BY <1>2, <2>1, <2>2, <2>3 DEF ClientInv
<1>7. \A c, d \in Client : PairInv(c, d)
  BY <1>2 DEF PairInv, Masking
<1> QED
  BY <1>4, <1>5, <1>6, <1>7 DEF MaskProtocol

-----------------------------------------------------------------------------
(* What follows.                                                            *)

(* Who may mask, unmask and apply: the invariant behind the theorems below, *)
(* over every call that _mask_object, _unmask_objects, _clean and           *)
(* _finish_mt send.                                                         *)
THEOREM MasksProtected ==
  ASSUME NoopsNeedObjects PROVE Spec => [](TypeOK /\ MaskProtocol)
<1>1. Init => MaskProtocol
  BY InitMasks
<1>2. TypeOK /\ TypeOK' /\ MaskProtocol /\ [Next]_vars => MaskProtocol'
  BY NextMasks
<1> QED
  BY <1>1, <1>2, TypeCorrect, PTL DEF Spec

(* A version that read_rr, write_rr, delete_rr or mt_commit returned never  *)
(* is the version of a mask, nor of other data than the client knows.       *)
THEOREM VersionsSafe == ASSUME NoopsNeedObjects PROVE Spec => []VersionsAreSafe
<1>1. MaskProtocol => VersionsAreSafe
  BY DEF MaskProtocol, ClientInv, KnownInv, VersionsAreSafe
<1> QED
  BY <1>1, MasksProtected, PTL

(* A coordinator that is about to write its MiniTransaction, and finds no   *)
(* tombstone, has its mask on each of its objects, as it put it there.      *)
THEOREM CoordinatorHoldsMasks == ASSUME NoopsNeedObjects PROVE Spec => []MasksHeld
<1>1. TypeOK /\ MaskProtocol => MasksHeld
  <2> SUFFICES ASSUME TypeOK, MaskProtocol, NEW c \in Client, At(c, "writeT"),
                      ~Exists(tobj[cl[c].tx]), NEW k \in KeysOf(c)
               PROVE  MaskedBy(k, cl[c].tx) /\ obj[k].ver = cl[c].mver[k].ver
    BY DEF MasksHeld
  <2>1. MaskInv(c) /\ Masking(c) /\ k \in Masked(c)
    BY CoordinatorFacts, MoverFacts DEF At, Masked
  <2> QED
    BY <2>1 DEF MaskInv
<1> QED
  BY <1>1, MasksProtected, PTL

(* _unmask_objects and _finish_mt take a mask off only when T or a          *)
(* tombstone is there, or when the coordinator has given up.                *)
THEOREM MasksKept == ASSUME NoopsNeedObjects PROVE Spec => MasksAreKept
<1>1. TypeOK /\ TypeOK' /\ MaskProtocol /\ [Next]_vars =>
        [\A k \in Key, t \in TxId :
           (MaskedBy(k, t) /\ ~MaskedBy(k, t)') =>
             \/ Exists(tobj[t])
             \/ \E c \in Client : cl[c].tx = t /\ cl[c].job.then \notin {"retry", "ok"}]_vars
  <2> SUFFICES ASSUME TypeOK, TypeOK', MaskProtocol, Next, NEW k \in Key, NEW t \in TxId,
                      MaskedBy(k, t), ~MaskedBy(k, t)', ~(UNCHANGED vars)
               PROVE  \/ Exists(tobj[t])
                      \/ \E c \in Client : /\ cl[c].tx = t
                                           /\ cl[c].job.then \notin {"retry", "ok"}
    OBVIOUS
  <2>1. PICK c \in Client : Step(c) \/ Crash(c) \/ InterruptWriteT(c)
    BY DEF Next, Finished
  <2>2. obj'[k] # obj[k] /\ ObjStep(c)
    BY <2>1, StepMoves DEF MaskedBy, StepOf
  <2>3. cl[c].pc \in {"unmask", "apply"} /\ cl[c].job.tx = t
    BY <2>2, MaskOff
  <2>4. RemoveInv(c) /\ ShapeInv(c) /\ ~NoMask(t) /\ ~Gone(t)
    BY MoverFacts DEF NoMask, Gone
  <2>5. CASE Applying(c) \/ Cleaning(c)
    BY <2>3, <2>4, <2>5, BodyAssumption DEF RemoveInv, Exists
  <2>6. CASE ~Applying(c) /\ ~Cleaning(c)
    BY <2>3, <2>4, <2>6 DEF Applying, Cleaning, Ending, ShapeInv
  <2> QED
    BY <2>5, <2>6
<1> QED
  BY <1>1, MasksProtected, PTL DEF Spec, MasksAreKept

-----------------------------------------------------------------------------
(* What is left of a transaction whose mt_commit has ended.                 *)

(* The endings that say what became of a transaction.                       *)
Rejections == {"TransactionRejected", "TransactionExpired"}
Sealed == Rejections \cup {"ok"}

Void(t) == NoMask(t) /\ tobj[t].body # "MiniTransaction"

(* A client that is about to report a rejection has no T.                   *)
RejectInv(c) ==
  cl[c].job.then \in Rejections => tobj[cl[c].tx].body # "MiniTransaction"

Settled ==
  /\ \A c \in Client : RejectInv(c)
  /\ \A t \in TxId : fate[t] \in Sealed =>
       Void(t) /\ t \in used /\ \A c \in Client : cl[c].tx # t

(* A step of c ends at most its own transaction, and says no more of it     *)
(* than is true.                                                            *)
Closes(c) ==
  /\ RejectInv(c)'
  /\ \A t \in TxId :
       \/ fate'[t] = fate[t]
       \/ t = cl[c].tx /\ cl'[c].tx = NoTx /\ (fate'[t] \in Sealed => Void(t)')

LEMMA GoOnCloses ==
  ASSUME TypeOK, NEW c \in Client, NEW s, GoOn(c, s),
         s.job.then \in Rejections => tobj'[s.tx].body # "MiniTransaction"
  PROVE  Closes(c)
<1>1. cl'[c] = s /\ fate' = fate
  BY DEF GoOn, Become, TypeOK
<1> QED
  BY <1>1 DEF Closes, RejectInv

LEMMA RereadCloses ==
  ASSUME TypeOK, NEW c \in Client, NEW r \in Local, Reread(c, r)
  PROVE  Closes(c)
<1>1. PICK s : s = [r EXCEPT !.pc = "read", !.call = NoCall, !.job = NoJob] /\ GoOn(c, s)
  BY DEF Reread
<1>2. s.job.then = "retry"
  BY <1>1 DEF NoJob, Local
<1> QED
  BY <1>1, <1>2, GoOnCloses DEF Rejections

LEMMA EndCloses ==
  ASSUME TypeOK, NEW c \in Client, NEW r, End(c, r),
         r \in Sealed => \A t \in TxId : t = cl[c].tx => Void(t)'
  PROVE  Closes(c)
<1>1. cl'[c] = Idle /\ Idle.tx = NoTx /\ Idle.job.then = "retry"
  BY DEF End, Become, TypeOK, Idle, NoJob
<1>2. ASSUME NEW t \in TxId
      PROVE  fate'[t] = IF t = cl[c].tx THEN r ELSE fate[t]
  BY DEF End
<1> QED
  BY <1>1, <1>2 DEF Closes, RejectInv, Rejections

(* An operation on a single object ends no transaction.                     *)
LEMMA SingleCloses ==
  ASSUME TypeOK, NEW c \in Client, NEW r, End(c, r), Fit(c, cl[c]), ~IsCommit(c)
  PROVE  Closes(c)
<1>1. cl[c].tx \notin TxId
  BY NullAssumption DEF Fit
<1> QED
  BY <1>1, EndCloses

LEMMA PrepareCloses ==
  ASSUME TypeOK, NEW c \in Client, RejectInv(c), NEW l, NEW k, NEW rr, NEW b,
         Prepare(c, l, k, rr, b), UNCHANGED tobj
  PROVE  Closes(c)
<1>1. PICK s : s = [cl[c] EXCEPT !.pc = l, !.call = [key |-> k, rr |-> rr, body |-> b]]
               /\ GoOn(c, s)
  BY DEF Prepare
<1>2. s.tx = cl[c].tx /\ s.job = cl[c].job
  BY <1>1, UsedIds DEF Local
<1> QED
  BY <1>1, <1>2, GoOnCloses DEF RejectInv

(* A transaction of which no mask was put down.                             *)
LEMMA NothingMasked ==
  ASSUME TypeOK, MaskProtocol, NEW c \in Client, Masking(c), Masked(c) = {}
  PROVE  NoMask(cl[c].tx)
<1>1. cl[c].pc \notin {"idle", "crashed"} /\ MaskInv(c)
  BY MoverFacts DEF ShapeInv, Masking
<1>2. Fit(c, cl[c]) /\ cl[c].tx # NoTx
  BY <1>1, ClientFacts DEF Masking
<1>3. IsCommit(c) /\ cl[c].tx \in used /\ DOMAIN intent[cl[c].tx] = KeysOf(c)
  BY <1>2, UsedIds DEF Fit
<1>4. KeysOf(c) \subseteq cl[c].left
  BY DEF Masked
<1>5. ASSUME NEW k \in Key, MaskedBy(k, cl[c].tx) PROVE FALSE
  <2>1. k \in KeysOf(c)
    BY <1>2, <1>3, <1>5, MoverFacts DEF ObjectInv, MaskedBy
  <2> QED
    BY <1>1, <1>4, <1>5, <2>1 DEF MaskInv
<1> QED
  BY <1>5 DEF NoMask

(* Exceptions of the server.                                                *)
Errors == {"NoObjectError", "ObjectExistsError", "VersionError", "NameError",
           "InconsistencyError"}

LEMMA RaiseCloses ==
  ASSUME TypeOK, MaskProtocol, NEW c \in Client, NEW e \in Errors, Raise(c, e),
         UNCHANGED <<obj, tobj>>, cl[c].pc \notin {"idle", "crashed", "writeT"}
  PROVE  Closes(c)
<1>1. Fit(c, cl[c]) /\ cl[c] \in Local
  BY ClientFacts
<1>2. ASSUME IsCommit(c), ~Ending(c)
      PROVE  Masking(c) /\ tobj[cl[c].tx].body # "MiniTransaction"
  <2>1. Masking(c)
    BY <1>1, <1>2, UsedIds DEF Fit, Masking, Ending
  <2> QED
    BY <2>1, MoverFacts DEF MaskInv
<1>3. CASE IsCommit(c) /\ ~Ending(c) /\ Masked(c) # {}
  <2>1. PICK o, s : /\ GoOn(c, s)
                    /\ s = [cl[c] EXCEPT !.pc = "unmaskRead", !.call = NoCall,
                              !.job = [NoJob EXCEPT !.tx = cl[c].tx,
                                         !.keys = Masked(c), !.then = o]]
    BY <1>3 DEF Raise, Ending
  <2>2. s.tx = cl[c].tx
    BY <1>1, <2>1 DEF Local
  <2> QED
    BY <1>2, <1>3, <2>1, <2>2, GoOnCloses
<1>4. CASE IsCommit(c) /\ ~Ending(c) /\ Masked(c) = {}
  <2>1. PICK o : End(c, o)
    BY <1>4 DEF Raise, Ending
  <2>2. ASSUME NEW t \in TxId, t = cl[c].tx PROVE Void(t)'
    BY <1>2, <1>4, <2>2, NothingMasked DEF Void, NoMask, MaskedBy
  <2> QED
    BY <2>1, <2>2, EndCloses
<1>5. CASE ~IsCommit(c) \/ Ending(c)
  <2>1. End(c, e)
    BY <1>5 DEF Raise, Ending
  <2>2. e \notin Sealed
    BY DEF Errors, Sealed, Rejections
  <2> QED
    BY <2>1, <2>2, EndCloses
<1> QED
  BY <1>3, <1>4, <1>5

-----------------------------------------------------------------------------
(* Reading, masking and the calls of single operations.                     *)

LEMMA BeginCloses == ASSUME TypeOK, NEW c \in Client, Begin(c) PROVE Closes(c)
<1>1. CASE BeginCommit(c) \/ BeginSingle(c)
  <2>1. PICK s : GoOn(c, s) /\ s.job.then = "retry"
    <3>1. CASE BeginCommit(c)
      <4>1. PICK t, s : /\ GoOn(c, s)
                        /\ s = [Idle EXCEPT !.pc = "read", !.tx = t, !.left = KeysOf(c)]
        BY <3>1 DEF BeginCommit
      <4>2. s.job.then = "retry"
        BY <4>1 DEF Idle, NoJob
      <4> QED
        BY <4>1, <4>2
    <3>2. CASE BeginSingle(c)
      <4>1. PICK s, x : /\ s = [Idle EXCEPT !.left = {Least(KeysOf(c))}]
                        /\ \/ GoOn(c, [s EXCEPT !.pc = "direct", !.call = x])
                           \/ GoOn(c, [s EXCEPT !.pc = "read"])
        BY <3>2 DEF BeginSingle
      <4>2. s.job = NoJob /\ DOMAIN s = DOMAIN Idle
        BY <4>1 DEF Idle
      <4>3. PICK n : /\ GoOn(c, n)
                     /\ \/ n = [s EXCEPT !.pc = "direct", !.call = x]
                        \/ n = [s EXCEPT !.pc = "read"]
        BY <4>1
      <4>4. n.job = NoJob
        BY <4>1, <4>3 DEF Idle
      <4> QED
        BY <4>3, <4>4 DEF NoJob
    <3> QED
      BY <1>1, <3>1, <3>2
  <2> QED
    BY <2>1, GoOnCloses DEF Rejections
<1>2. CASE BeginFails(c)
  BY <1>2, EndCloses DEF BeginFails, Sealed, Rejections
<1> QED
  BY <1>1, <1>2 DEF Begin

LEMMA ReadObjectCloses ==
  ASSUME TypeOK, MaskProtocol, NEW c \in Client, RejectInv(c), ReadObject(c)
  PROVE  Closes(c)
<1> DEFINE k == Cur(c)
           o == obj[k]
           st == Err(Status([UserRules(c, k) EXCEPT !.doesntExist = TRUE, !.exists = FALSE], o))
<1>1. cl[c].pc = "read" /\ UNCHANGED <<obj, tobj>> /\ Fit(c, cl[c])
  BY ClientFacts DEF ReadObject, At
<1>2. st \in Errors \cup {"ok"}
  BY StatusRange DEF Errors
<1>3. Op(c).type \in {"read", "write", "delete", "commit"}
  BY <1>1, OpFacts, ScriptAssumption DEF Fit
<1>4. ASSUME NEW e \in Errors, Raise(c, e) PROVE Closes(c)
  BY <1>1, <1>4, RaiseCloses
<1>5. ASSUME NEW l, NEW rr, NEW b, Prepare(c, l, k, rr, b) PROVE Closes(c)
  BY <1>1, <1>5, PrepareCloses
<1>6. ASSUME NEW r, End(c, r), Op(c).type # "commit" PROVE Closes(c)
  BY <1>1, <1>6, SingleCloses DEF IsCommit
<1>7. CASE st = "ok" /\ IsMasked(o.body)
  <2>1. PICK s : /\ GoOn(c, s)
                 /\ s = [cl[c] EXCEPT !.pc = "readT",
                           !.job = [NoJob EXCEPT !.tx = o.body.tx, !.keys = {k}]]
    BY <1>7 DEF ReadObject
  <2>2. s.job.then = "retry"
    BY <2>1, UsedIds DEF Local, NoJob
  <2> QED
    BY <2>1, <2>2, GoOnCloses DEF Rejections
<1>8. CASE st = "ok" /\ ~IsMasked(o.body)
  <2>1. Raise(c, "ObjectExistsError") \/ Got(c, k, o)
    BY <1>8 DEF ReadObject
  <2>2. CASE Got(c, k, o)
    <3>1. \/ \E l, rr, b : Prepare(c, l, k, rr, b)
          \/ \E r : End(c, r) /\ Op(c).type # "commit"
      BY <1>3, <2>2 DEF Got, IsCommit
    <3> QED
      BY <1>5, <1>6, <3>1
  <2> QED
    BY <1>4, <2>1, <2>2 DEF Errors
<1>9. CASE st = "NoObjectError"
  <2>1. Missing(c, k)
    BY <1>9 DEF ReadObject
  <2>2. UserRules(c, k).doesntExist \in BOOLEAN
    BY DEF UserRules, RejectRules
  <2>3. \/ \E l, rr, b : Prepare(c, l, k, rr, b)
        \/ \E r : End(c, r) /\ Op(c).type # "commit"
        \/ Raise(c, "NoObjectError")
    BY <1>3, <2>1, <2>2 DEF Missing, IsCommit
  <2> QED
    BY <1>4, <1>5, <1>6, <2>3 DEF Errors
<1>10. CASE st \notin {"ok", "NoObjectError"}
  <2>1. Raise(c, st)
    BY <1>10 DEF ReadObject
  <2> HIDE DEF st
  <2> QED
    BY <1>2, <1>4, <1>10, <2>1
<1> QED
  BY <1>7, <1>8, <1>9, <1>10

LEMMA MaskCloses ==
  ASSUME TypeOK, TypeOK', MaskProtocol, NEW c \in Client, Mask(c) PROVE Closes(c)
<1> DEFINE st == Err(CallStatus(c))
           left == cl[c].left \ {cl[c].call.key}
           m == [ver |-> obj'[cl[c].call.key].ver, data |-> cl[c].call.body.data]
           s == [cl[c] EXCEPT !.left = left, !.mver[cl[c].call.key] = m]
<1>1. cl[c].pc = "mask" /\ SendCall(c) /\ UNCHANGED tobj
  BY DEF Mask, At
<1>2. st \in Errors \cup {"ok"} /\ (st = "ok" <=> CallStatus(c) = "ok")
  BY StatusRange DEF CallStatus, Errors
<1>3. \/ Reread(c, s) \/ Reread(c, cl[c])
      \/ GoOn(c, [s EXCEPT !.pc = "writeT", !.call = NoCall])
      \/ st # "ok" /\ Raise(c, st)
  <2> HIDE DEF s
  <2>1. CASE st = "ok"
    <3>1. Reread(c, s) \/ GoOn(c, [s EXCEPT !.pc = "writeT", !.call = NoCall])
      BY <2>1 DEF Mask, s, RejectErrors
    <3> QED
      BY <3>1
  <2>2. CASE st # "ok"
    BY <2>2 DEF Mask
  <2> QED
    BY <2>1, <2>2
<1>4. CASE Reread(c, s) \/ Reread(c, cl[c])
  <2>1. Fit(c, cl[c]) /\ cl[c] \in Local /\ cl[c].call.key \in Key
        /\ cl[c].call.body \in {NoBody} \cup Object
    BY <1>1, ClientFacts DEF Local, Call, Fit, CallLabels
  <2>2. m \in [ver : Nat, data : Data]
    BY <1>1, <2>1 DEF Fit, Object, TypeOK, StoreOK
  <2> HIDE DEF m
  <2>3. s \in Local
    BY <2>1, <2>2 DEF Local
  <2> QED
    BY <1>4, <2>1, <2>3, RereadCloses
<1>5. CASE GoOn(c, [s EXCEPT !.pc = "writeT", !.call = NoCall])
  <2>1. PICK n : n = [s EXCEPT !.pc = "writeT", !.call = NoCall] /\ GoOn(c, n)
    BY <1>5
  <2>2. n.job = cl[c].job
    BY <2>1, UsedIds DEF Local
  <2>3. n.job.then = "retry"
    BY <1>1, <2>2, MoverFacts DEF ShapeInv
  <2> QED
    BY <2>1, <2>3, GoOnCloses DEF Rejections
<1>6. CASE st # "ok" /\ Raise(c, st)
  <2>1. UNCHANGED obj
    BY <1>1, <1>2, <1>6, SentCall DEF CallLabels
  <2> HIDE DEF st
  <2> QED
    BY <1>1, <1>2, <1>6, <2>1, RaiseCloses
<1> QED
  BY <1>3, <1>4, <1>5, <1>6

LEMMA UserCallCloses ==
  ASSUME TypeOK, MaskProtocol, NEW c \in Client, UserCall(c) \/ DirectCall(c)
  PROVE  Closes(c)
<1> DEFINE st == Err(CallStatus(c))
<1>1. cl[c].pc \in {"user", "direct"} /\ SendCall(c) /\ UNCHANGED tobj
  BY DEF UserCall, DirectCall, At
<1>2. Fit(c, cl[c]) /\ ~IsCommit(c)
  BY <1>1, ClientFacts DEF Fit
<1>3. st \in Errors \cup {"ok"} /\ (st = "ok" <=> CallStatus(c) = "ok")
  BY StatusRange DEF CallStatus, Errors
<1>4. EndCall(c) \/ Reread(c, cl[c]) \/ (st # "ok" /\ Raise(c, st))
  BY DEF UserCall, DirectCall, Caught
<1>5. CASE EndCall(c)
  BY <1>2, <1>5, SingleCloses DEF EndCall
<1>6. CASE Reread(c, cl[c])
  BY <1>6, UsedIds, RereadCloses
<1>7. CASE st # "ok" /\ Raise(c, st)
  <2>1. UNCHANGED obj
    BY <1>1, <1>3, <1>7, SentCall DEF CallLabels
  <2> HIDE DEF st
  <2> QED
    BY <1>1, <1>3, <1>7, <2>1, RaiseCloses
<1> QED
  BY <1>4, <1>5, <1>6, <1>7

-----------------------------------------------------------------------------
(* Meeting a mask, and taking masks off.                                    *)

LEMMA ReadTCloses ==
  ASSUME TypeOK, MaskProtocol, NEW c \in Client,
         ReadT(c) \/ Expire(c) \/ WriteTombstone(c)
  PROVE  Closes(c)
<1>1. cl[c].pc \in {"readT", "writeTombstone"}
  BY DEF ReadT, Expire, WriteTombstone, At
<1>2. cl[c].job.then = "retry" /\ cl[c] \in Local /\ cl[c].job \in Job
  BY <1>1, ClientFacts, UsedIds DEF Fit, Local
<1>3. \/ Reread(c, cl[c])
      \/ GoOn(c, [cl[c] EXCEPT !.pc = "unmaskRead"])
      \/ GoOn(c, [cl[c] EXCEPT !.pc = "writeTombstone"])
      \/ \E ks, v : GoOn(c, [cl[c] EXCEPT !.pc = "applyRead", !.job.keys = ks, !.job.ver = v])
  BY DEF ReadT, Expire, WriteTombstone
<1>4. CASE Reread(c, cl[c])
  BY <1>2, <1>4, RereadCloses
<1>5. ASSUME NEW l, GoOn(c, [cl[c] EXCEPT !.pc = l]) PROVE Closes(c)
  <2>1. PICK s : s = [cl[c] EXCEPT !.pc = l] /\ GoOn(c, s)
    BY <1>5
  <2>2. s.job.then = "retry"
    BY <1>2, <2>1 DEF Local
  <2> QED
    BY <2>1, <2>2, GoOnCloses DEF Rejections
<1>6. ASSUME NEW ks, NEW v,
             GoOn(c, [cl[c] EXCEPT !.pc = "applyRead", !.job.keys = ks, !.job.ver = v])
      PROVE  Closes(c)
  <2>1. PICK s : /\ s = [cl[c] EXCEPT !.pc = "applyRead", !.job.keys = ks, !.job.ver = v]
                 /\ GoOn(c, s)
    BY <1>6
  <2>2. s.job.then = "retry"
    BY <1>2, <2>1 DEF Local, Job
  <2> QED
    BY <2>1, <2>2, GoOnCloses DEF Rejections
<1> QED
  BY <1>3, <1>4, <1>5, <1>6

(* Key k was the last one to unmask.                                        *)
LEMMA LastUnmasked ==
  ASSUME TypeOK, MaskProtocol, NEW c \in Client, cl[c].pc \in {"unmaskRead", "unmask"},
         ObjStep(c), Ending(c), NEW k, NEW t \in TxId, t = cl[c].job.tx, ~MaskedBy(k, t)',
         cl[c].job.keys \subseteq {k}
  PROVE  NoMask(t)'
<1> SUFFICES ASSUME NEW j \in Key PROVE ~MaskedBy(j, t)'
  BY DEF NoMask
<1>1. CASE j = k
  BY <1>1
<1>2. CASE j # k
  <2>1. ~MaskedBy(j, t)
    BY <1>2, MoverFacts DEF RemoveInv
  <2> QED
    BY <2>1, UnmaskerFacts, NoNewMask
<1> QED
  BY <1>1, <1>2

LEMMA UnmaskedCloses ==
  ASSUME TypeOK, MaskProtocol, NEW c \in Client, RejectInv(c),
         cl[c].pc \in {"unmaskRead", "unmask"}, ObjStep(c), UNCHANGED tobj,
         NEW k, NEW t \in TxId, t = cl[c].job.tx, ~MaskedBy(k, t)', Unmasked(c, k)
  PROVE  Closes(c)
<1>1. cl[c] \in Local /\ cl[c].job \in Job /\ cl[c].job.then # "ok"
  BY UnmaskerFacts
<1>2. PICK ks : ks = Rest(c, k)
  OBVIOUS
<1>3. PICK r : r = [cl[c] EXCEPT !.job.keys = ks, !.call = NoCall]
  OBVIOUS
<1>4. \/ \E l : GoOn(c, [r EXCEPT !.pc = l])
      \/ Reread(c, cl[c])
      \/ ks = {} /\ Ending(c) /\ End(c, cl[c].job.then)
  BY <1>2, <1>3 DEF Unmasked, Ending
<1>5. CASE \E l : GoOn(c, [r EXCEPT !.pc = l])
  <2>1. PICK l, s : s = [r EXCEPT !.pc = l] /\ GoOn(c, s)
    BY <1>5
  <2>2. s.tx = cl[c].tx /\ s.job.then = cl[c].job.then
    BY <1>1, <1>3, <2>1 DEF Local, Job
  <2> QED
    BY <2>1, <2>2, GoOnCloses DEF RejectInv
<1>6. CASE Reread(c, cl[c])
  BY <1>6, UsedIds, RereadCloses
<1>7. CASE ks = {} /\ Ending(c) /\ End(c, cl[c].job.then)
  <2>1. t = cl[c].tx
    BY <1>7, MoverFacts DEF ShapeInv
  <2>2. NoMask(t)'
    BY <1>2, <1>7, LastUnmasked DEF Rest
  <2>3. cl[c].job.then \in Sealed => tobj[t].body # "MiniTransaction"
    BY <1>1, <2>1 DEF RejectInv, Sealed
  <2>4. cl[c].job.then \in Sealed => Void(t)'
    BY <2>2, <2>3 DEF Void
  <2> QED
    BY <1>7, <2>1, <2>4, EndCloses
<1> QED
  BY <1>4, <1>5, <1>6, <1>7

LEMMA UnmaskReadCloses ==
  ASSUME TypeOK, MaskProtocol, NEW c \in Client, RejectInv(c), UnmaskRead(c)
  PROVE  Closes(c)
<1>1. cl[c].pc = "unmaskRead" /\ UNCHANGED <<obj, tobj>>
  BY DEF UnmaskRead, At
<1>2. PICK t \in TxId : t = cl[c].job.tx
  BY <1>1, UnmaskerFacts
<1>3. PICK k \in Candidates(c) :
        IF MaskedBy(k, t)
          THEN Prepare(c, "unmask", k, NotNewerThan(obj[k].ver), Plain(obj[k].body.data))
          ELSE Unmasked(c, k)
  BY <1>2 DEF UnmaskRead
<1>4. CASE MaskedBy(k, t)
  BY <1>1, <1>3, <1>4, PrepareCloses
<1>5. CASE ~MaskedBy(k, t)
  <2>1. Unmasked(c, k) /\ ~MaskedBy(k, t)' /\ ObjStep(c)
    BY <1>1, <1>3, <1>5 DEF MaskedBy, ObjStep
  <2> QED
    BY <1>1, <1>2, <2>1, UnmaskedCloses
<1> QED
  BY <1>4, <1>5

LEMMA UnmaskCloses ==
  ASSUME TypeOK, MaskProtocol, NEW c \in Client, RejectInv(c), Unmask(c)
  PROVE  Closes(c)
<1>1. cl[c].pc = "unmask" /\ SendCall(c) /\ UNCHANGED tobj
  BY DEF Unmask, At
<1>2. PICK st : st = Err(CallStatus(c))
  OBVIOUS
<1>3. st \in Errors \cup {"ok"} /\ (st = "ok" <=> CallStatus(c) = "ok")
  BY <1>2, StatusRange DEF CallStatus, Errors
<1>4. PICK t \in TxId : t = cl[c].job.tx
  BY <1>1, UnmaskerFacts
<1>5. PICK k \in Key, q \in Call : k = q.key /\ q = cl[c].call
  BY <1>1, SentCall, UsedIds DEF CallLabels, Local
<1>6. CASE st = "ok"
  <2>1. obj'[k] = Changed(obj[k], q.body) /\ ObjStep(c)
    BY <1>1, <1>3, <1>5, <1>6, SentCall DEF CallLabels
  <2>2. q.body = NoBody \/ q.body.tx = NoTx
    BY <1>1, <1>5, MoverFacts DEF CallInv
  <2>3. ~MaskedBy(k, t)'
    <3>1. PICK b : b = q.body
      OBVIOUS
    <3> QED
      BY <2>1, <2>2, <3>1, PlainUnmasks
  <2>4. Unmasked(c, k)
    BY <1>2, <1>5, <1>6 DEF Unmask
  <2> QED
    BY <1>1, <1>4, <2>1, <2>3, <2>4, UnmaskedCloses
<1>7. CASE st = "VersionError"
  <2>1. PICK s : s = [cl[c] EXCEPT !.pc = "unmaskRead"] /\ GoOn(c, s)
    BY <1>2, <1>7 DEF Unmask
  <2>2. s.tx = cl[c].tx /\ s.job = cl[c].job
    BY <1>1, <2>1, UnmaskerFacts DEF Local
  <2> QED
    BY <1>1, <2>1, <2>2, GoOnCloses DEF RejectInv
<1>8. CASE st \notin {"ok", "VersionError"}
  <2>1. Raise(c, st) /\ UNCHANGED obj
    BY <1>1, <1>2, <1>3, <1>8, SentCall DEF Unmask, CallLabels
  <2> QED
    BY <1>1, <1>3, <1>8, <2>1, RaiseCloses
<1> QED
  BY <1>6, <1>7, <1>8

LEMMA DeleteTombstoneCloses ==
  ASSUME TypeOK, MaskProtocol, NEW c \in Client, DeleteTombstone(c) PROVE Closes(c)
<1>1. /\ cl[c].pc = "deleteTombstone" /\ tobj' = [tobj EXCEPT ![cl[c].tx] = Deleted(@)]
      /\ End(c, cl[c].job.then) /\ UNCHANGED obj
  BY DEF DeleteTombstone, At
<1>2. Fit(c, cl[c]) /\ cl[c].job.then # "retry" /\ Ending(c)
  BY <1>1, ClientFacts DEF Fit, Ending
<1>3. PICK t \in TxId : t = cl[c].tx /\ t = cl[c].job.tx
  BY <1>2, EndedUncoordinated
<1>4. cl[c].job.keys = {} /\ RemoveInv(c)
  BY <1>1, MoverFacts DEF ShapeInv
<1>5. NoMask(t)
  BY <1>2, <1>3, <1>4 DEF RemoveInv, NoMask
<1>6. NoMask(t)'
  BY <1>1, <1>5 DEF NoMask, MaskedBy
<1>7. tobj'[t].body # "MiniTransaction"
  BY <1>1, <1>3, BodyAssumption DEF TypeOK, StoreOK, Deleted
<1> QED
  BY <1>1, <1>3, <1>6, <1>7, EndCloses DEF Void

-----------------------------------------------------------------------------
(* The commit point, and what follows it.                                   *)

LEMMA WriteTCloses ==
  ASSUME TypeOK, MaskProtocol, NEW c \in Client, WriteT(c) \/ InterruptWriteT(c)
  PROVE  Closes(c)
<1>1. cl[c].pc = "writeT" /\ cl[c] \in Local /\ Masking(c)
  BY CoordinatorFacts DEF WriteT, InterruptWriteT, At
<1>2. PICK t \in TxId : t = cl[c].tx
  BY <1>1, CoordinatorFacts
<1>3. tobj[t].body # "MiniTransaction"
  BY <1>1, <1>2, MoverFacts DEF MaskInv
<1>4. CASE WriteT(c) /\ Accepts(IntentRules, tobj[t])
  <2>1. PICK s : /\ GoOn(c, s)
                 /\ s = [cl[c] EXCEPT !.pc = "applyRead",
                           !.job = [tx |-> t, keys |-> KeysOf(c),
                                    ver |-> tobj'[t].ver, then |-> "ok"]]
    BY <1>2, <1>4 DEF WriteT
  <2>2. s.job.then = "ok"
    BY <1>1, <2>1 DEF Local
  <2> QED
    BY <2>1, <2>2, GoOnCloses DEF Rejections
<1>5. ASSUME NEW e, StartUnmasking(c, e),
             e = "KeyboardInterrupt" \/ UNCHANGED tobj
      PROVE  Closes(c)
  <2>1. PICK s : /\ GoOn(c, s)
                 /\ s = [cl[c] EXCEPT !.pc = "unmaskRead", !.call = NoCall,
                           !.job = [NoJob EXCEPT !.tx = cl[c].tx, !.keys = KeysOf(c),
                                                 !.then = e]]
    BY <1>5 DEF StartUnmasking
  <2>2. s.tx = t /\ s.job.then = e
    BY <1>1, <1>2, <2>1 DEF Local, NoJob
  <2>3. s.job.then \in Rejections => tobj'[s.tx].body # "MiniTransaction"
    BY <1>3, <1>5, <2>2 DEF Rejections
  <2>4. GoOn(c, s)
    BY <2>1
  <2> QED
    BY <2>3, <2>4, GoOnCloses
<1>6. CASE WriteT(c) /\ ~Accepts(IntentRules, tobj[t])
  <2>1. StartUnmasking(c, "TransactionExpired") /\ UNCHANGED tobj
    BY <1>2, <1>6 DEF WriteT
  <2> QED
    BY <1>5, <2>1
<1>7. CASE InterruptWriteT(c)
  BY <1>5, <1>7 DEF InterruptWriteT
<1> QED
  BY <1>4, <1>6, <1>7

LEMMA AppliedCloses ==
  ASSUME TypeOK, MaskProtocol, NEW c \in Client, Applying(c), NEW k, Applied(c, k)
  PROVE  Closes(c)
<1>1. PICK l, ks : ks = Rest(c, k) /\ l = IF ks = {} THEN "deleteT" ELSE "applyRead"
  OBVIOUS
<1>2. PICK s : s = [cl[c] EXCEPT !.pc = l, !.job.keys = ks, !.call = NoCall] /\ GoOn(c, s)
  BY <1>1 DEF Applied
<1>3. s.job.then \in {"retry", "ok"}
  BY <1>2, ApplierFacts, ClientFacts DEF Local, Job, Fit, Applying
<1> QED
  BY <1>2, <1>3, GoOnCloses DEF Rejections

LEMMA ApplyCloses ==
  ASSUME TypeOK, MaskProtocol, NEW c \in Client, RejectInv(c), ApplyRead(c) \/ Apply(c)
  PROVE  Closes(c)
<1>1. UNCHANGED tobj /\ Applying(c)
  BY DEF ApplyRead, Apply, At, Applying
<1>2. CASE ApplyRead(c)
  <2>1. PICK k : \/ \E rr, b : Prepare(c, "apply", k, rr, b)
                 \/ Applied(c, k)
    BY <1>2 DEF ApplyRead
  <2> QED
    BY <1>1, <2>1, AppliedCloses, PrepareCloses
<1>3. CASE Apply(c)
  <2>1. PICK st : st = Err(CallStatus(c))
    OBVIOUS
  <2>2. st \in Errors \cup {"ok"} /\ (st = "ok" <=> CallStatus(c) = "ok")
    BY <2>1, StatusRange DEF CallStatus, Errors
  <2>3. cl[c].pc = "apply" /\ SendCall(c)
    BY <1>3 DEF Apply, At
  <2>4. Applied(c, cl[c].call.key) \/ (st # "ok" /\ Raise(c, st))
    BY <1>3, <2>1 DEF Apply
  <2>5. CASE st # "ok" /\ Raise(c, st)
    <3>1. UNCHANGED obj
      BY <2>2, <2>3, <2>5, SentCall DEF CallLabels
    <3> QED
      BY <1>1, <2>2, <2>3, <2>5, <3>1, RaiseCloses
  <2> QED
    BY <1>1, <2>4, <2>5, AppliedCloses
<1> QED
  BY <1>2, <1>3

LEMMA DeleteTCloses ==
  ASSUME TypeOK, MaskProtocol, NEW c \in Client, DeleteT(c) PROVE Closes(c)
<1>1. cl[c].pc = "deleteT" /\ UNCHANGED obj /\ Applying(c) /\ cl[c] \in Local
  BY ClientFacts DEF DeleteT, At, Applying
<1>2. PICK t \in TxId : t = cl[c].job.tx
  BY <1>1, ApplierFacts
<1>3. PICK st : st = Err(Status(NotNewerThan(cl[c].job.ver), tobj[t]))
  OBVIOUS
<1>4. st \in Errors \cup {"ok"}
  BY <1>3, StatusRange DEF Errors
<1>5. CASE st = "ok"
  <2>1. tobj' = [tobj EXCEPT ![t] = Deleted(@)]
        /\ (Reread(c, cl[c]) \/ (Ending(c) /\ End(c, "ok")))
    BY <1>1, <1>2, <1>3, <1>5, ApplierFacts DEF DeleteT, Ending
  <2>2. CASE Reread(c, cl[c])
    BY <1>1, <2>2, RereadCloses
  <2>3. CASE Ending(c) /\ End(c, "ok")
    <3>1. tobj'[t].body # "MiniTransaction"
      BY <2>1, BodyAssumption DEF TypeOK, StoreOK, Deleted
    <3>2. t = cl[c].tx /\ NoMask(t)
      BY <1>1, <1>2, <2>3, ApplierFacts, MoverFacts DEF NoMask, ShapeInv
    <3>3. Void(t)'
      BY <1>1, <3>1, <3>2 DEF Void, NoMask, MaskedBy
    <3> QED
      BY <2>3, <3>2, <3>3, EndCloses
  <2> QED
    BY <2>1, <2>2, <2>3
<1>6. CASE st # "ok"
  <2>1. UNCHANGED tobj /\ \E e \in Errors : Raise(c, e)
    BY <1>2, <1>3, <1>4, <1>6 DEF DeleteT, Errors
  <2> QED
    BY <1>1, <2>1, RaiseCloses
<1> QED
  BY <1>5, <1>6

LEMMA CrashCloses == ASSUME TypeOK, NEW c \in Client, Crash(c) PROVE Closes(c)
<1>1. cl'[c] = [Idle EXCEPT !.pc = "crashed"] /\ fate' = fate
  BY DEF Crash, TypeOK
<1>2. cl'[c].job.then = "retry"
  BY <1>1 DEF Idle, NoJob
<1> QED
  BY <1>1, <1>2 DEF Closes, RejectInv, Rejections

LEMMA StepCloses ==
  ASSUME TypeOK, TypeOK', MaskProtocol, NEW c \in Client, RejectInv(c),
         Step(c) \/ Crash(c) \/ InterruptWriteT(c)
  PROVE  Closes(c)
<1>1. CASE Begin(c) \/ ReadObject(c) \/ Mask(c) \/ UserCall(c) \/ DirectCall(c)
  BY <1>1, BeginCloses, ReadObjectCloses, MaskCloses, UserCallCloses
<1>2. CASE ReadT(c) \/ Expire(c) \/ WriteTombstone(c)
  BY <1>2, ReadTCloses
<1>3. CASE UnmaskRead(c) \/ Unmask(c) \/ DeleteTombstone(c)
  BY <1>3, UnmaskReadCloses, UnmaskCloses, DeleteTombstoneCloses
<1>4. CASE WriteT(c) \/ InterruptWriteT(c)
  BY <1>4, WriteTCloses
<1>5. CASE ApplyRead(c) \/ Apply(c) \/ DeleteT(c) \/ Crash(c)
  BY <1>5, ApplyCloses, DeleteTCloses, CrashCloses
<1> QED
  BY <1>1, <1>2, <1>3, <1>4, <1>5 DEF Step

-----------------------------------------------------------------------------
(* What is void stays void, for its id is not used again.                   *)

LEMMA NoNewT ==
  ASSUME TypeOK, MaskProtocol, NEW c \in Client, StepOf(c), NEW t \in TxId,
         cl[c].tx # t \/ cl[c].pc # "writeT", tobj[t].body # "MiniTransaction"
  PROVE  tobj'[t].body # "MiniTransaction"
BY BodyAssumption DEF StepOf, TStep

LEMMA NextSettled ==
  ASSUME NoopsNeedObjects, TypeOK, TypeOK', MaskProtocol, Settled, [Next]_vars
  PROVE  Settled'
<1>1. CASE UNCHANGED vars
  <2>1. obj' = obj /\ tobj' = tobj /\ cl' = cl /\ fate' = fate /\ used' = used
    BY <1>1 DEF vars
  <2> QED
    BY <2>1 DEF Settled, RejectInv, Void, NoMask, MaskedBy
<1>2. ASSUME NEW c \in Client, Step(c) \/ Crash(c) \/ InterruptWriteT(c) PROVE Settled'
  <2>1. StepOf(c) /\ Closes(c)
    BY <1>2, StepMoves, StepCloses DEF Settled
  <2>2. Alone(c) /\ Turns(c)
    BY <2>1 DEF StepOf
  <2>3. ASSUME NEW d \in Client, d # c PROVE RejectInv(d)'
    <3> SUFFICES ASSUME cl[d].job.then \in Rejections
                 PROVE  tobj'[cl[d].tx].body # "MiniTransaction"
      BY <2>2, <2>3 DEF Alone, RejectInv
    <3>1. Ending(d) /\ tobj[cl[d].tx].body # "MiniTransaction"
      BY DEF Settled, RejectInv, Ending, Rejections
    <3>2. PICK t \in TxId : t = cl[d].tx /\ t # NoTx
      BY <3>1, EndedUncoordinated, UsedIds
    <3>3. cl[c].tx # t
      BY <2>3, <3>2, SameCoordinator
    <3> QED
      BY <2>1, <3>1, <3>2, <3>3, NoNewT
  <2>4. ASSUME NEW t \in TxId, fate'[t] \in Sealed
        PROVE  Void(t)' /\ t \in used' /\ \A d \in Client : cl'[d].tx # t
    <3>1. CASE fate'[t] = fate[t]
      <4>1. Void(t) /\ t \in used /\ \A d \in Client : cl[d].tx # t
        BY <2>4, <3>1 DEF Settled
      <4>2. NoMask(t)'
        BY <2>1, <4>1, NoMaskStays DEF Void, NoCoord
      <4>3. tobj'[t].body # "MiniTransaction"
        BY <2>1, <4>1, NoNewT DEF Void
      <4>4. ASSUME NEW d \in Client PROVE cl'[d].tx # t
        BY <2>2, <4>1, UsedIds DEF Alone, Turns
      <4> QED
        BY <2>2, <4>1, <4>2, <4>3, <4>4 DEF Void, Alone
    <3>2. CASE t = cl[c].tx /\ cl'[c].tx = NoTx /\ Void(t)'
      <4>1. t \in used /\ t # NoTx
        BY <3>2, UsedIds
      <4>2. ASSUME NEW d \in Client PROVE cl'[d].tx # t
        BY <2>2, <3>2, <4>1, SameCoordinator DEF Alone
      <4> QED
        BY <2>2, <3>2, <4>1, <4>2 DEF Alone
    <3> QED
      BY <2>1, <2>4, <3>1, <3>2 DEF Closes
  <2> QED
    BY <2>1, <2>3, <2>4 DEF Settled, Closes
<1> QED
  BY <1>1, <1>2 DEF Next, Finished

LEMMA InitSettled == Init => Settled
<1> SUFFICES ASSUME Init PROVE Settled
  OBVIOUS
<1>1. \A c \in Client : cl[c].job.then = "retry"
  BY DEF Init, Idle, NoJob
<1>2. \A t \in TxId : fate[t] = "none"
  BY DEF Init
<1> QED
  BY <1>1, <1>2 DEF Settled, RejectInv, Sealed, Rejections

(* When mt_commit has returned, rejected the transaction or told that it    *)
(* expired, the transaction has no mask, no seed and no T, now and later.   *)
THEOREM NothingIsLeft == ASSUME NoopsNeedObjects PROVE Spec => []NothingLeftBehind
<1>1. Settled => NothingLeftBehind
  BY DEF Settled, Sealed, Rejections, Void, NoMask, NothingLeftBehind
<1>2. TypeOK /\ TypeOK' /\ MaskProtocol /\ Settled /\ [Next]_vars => Settled'
  BY NextSettled
<1> QED
  BY <1>1, <1>2, InitSettled, MasksProtected, PTL DEF Spec

=============================================================================
