--------------------------- MODULE OIDRes_proofs ---------------------------
(***************************************************************************)
(* Clients never hand out an id twice: for every number of clients, all    *)
(* batch sizes and any number of restarts, as long as no batch size changes *)
(* between the write that reserves a batch and the range that is kept.     *)
(*                                                                         *)
(* The inductive invariant says that the batches clients hold are disjoint *)
(* and lie below the next unreserved id, that none of their ids has been   *)
(* returned, and that a client about to update the reservation object has  *)
(* either seen its present state or an older version.                      *)
(*                                                                         *)
(* And only exits waste ids, each of them no more than one batch: with the  *)
(* same invariant, that is a count of what becomes of a batch.              *)
(***************************************************************************)
EXTENDS OIDRes, TLAPS, FiniteSetTheorems

(* Where a client in the retry loop stands with respect to the object.      *)
Fresh(c) ==
  /\ pc[c] = "update" => /\ Exists(obj)
                         /\ seen[c].ver <= obj.ver
                         /\ seen[c].ver = obj.ver => seen[c].next = obj.body
  /\ pc[c] = "create" => seen[c].next = 0
  /\ pc[c] # "idle" => reserved[c] = {}

Held(c) == \A i \in Batch(c) : i < NextAvail /\ issued[i] = 0

IssuedBelow == \A i \in Id : issued[i] > 0 => i < NextAvail

Disjoint == \A c, d \in Client : c # d => Batch(c) \cap Batch(d) = {}

IInv ==
  /\ TypeOK
  /\ NextAvail <= MaxNext
  /\ \A c \in Client : Fresh(c) /\ Held(c)
  /\ IssuedBelow
  /\ Disjoint
  /\ NoIdTwice

USE DeltasAssumption, BoundsAssumption, NoBodyAssumption
USE DEF RejectRules, Unconditional, MustExist, MustNotExist, Exactly, Status,
        Accepts, Exists, Written

(* What a batch of a well-typed state consists of.                          *)
LEMMA BatchIsNat ==
  ASSUME TypeOK, NEW c \in Client
  PROVE  /\ Batch(c) \subseteq Nat
         /\ pc[c] # "fill" => Batch(c) = reserved[c]
BY DEF TypeOK, Batch, Id

LEMMA Types ==
  ASSUME TypeOK, NEW c \in Client
  PROVE  /\ seen[c].next \in Nat /\ seen[c].ver \in Nat
         /\ delta[c] \in Nat \ {0} /\ delta[c] <= MaxNext
         /\ obj.ver \in Nat /\ NextAvail \in Nat
<1>1. seen[c] \in [ver : Nat, next : Nat] /\ delta[c] \in Deltas
      /\ obj \in [ver : Nat, body : Nat \cup {NoBody}]
  BY DEF TypeOK
<1>2. delta[c] \in 1 .. MaxNext
  BY <1>1
<1>3. obj.ver \in Nat /\ obj.body \in Nat \cup {NoBody}
  BY <1>1
<1>4. NextAvail \in Nat
  BY <1>3 DEF NextAvail
<1> QED
  BY <1>1, <1>2, <1>3, <1>4

LEMMA InitIInv == Init => IInv
BY DEF Init, IInv, TypeOK, Fresh, Held, IssuedBelow, Disjoint, NoIdTwice, Batch,
       NextAvail, Id

(* Popping the least reserved id takes it out of the batch it returns from. *)
LEMMA PopIInv ==
  ASSUME IInv, NEW c \in Client, Pop(c)
  PROVE  IInv'
<1>1. PICK i \in reserved[c] : /\ reserved' = [reserved EXCEPT ![c] = @ \ {i}]
                               /\ issued' = [issued EXCEPT ![i] = @ + 1]
  BY DEF Pop, Return
<1>2. /\ i \in Id /\ i \in Batch(c) /\ i < NextAvail /\ issued[i] = 0
      /\ UNCHANGED <<obj, delta, pc, seen, crashes>>
  BY DEF Pop, IInv, TypeOK, Held, Batch
<1>3. TypeOK'
  BY <1>1, <1>2 DEF IInv, TypeOK
<1>4. \A d \in Client : Batch(d)' = IF d = c THEN Batch(d) \ {i} ELSE Batch(d)
  BY <1>1, <1>2 DEF Batch, IInv, TypeOK, Pop
<1>5. \A d \in Client : i \in Batch(d) => d = c
  BY <1>2 DEF IInv, Disjoint
<1>6. \A j \in Id : issued'[j] = IF j = i THEN 1 ELSE issued[j]
  BY <1>1, <1>2 DEF IInv, TypeOK
<1>7. NextAvail' = NextAvail
  BY <1>2 DEF NextAvail
<1>8. \A d \in Client : Held(d)'
  <2> SUFFICES ASSUME NEW d \in Client, NEW j \in Batch(d)'
               PROVE  j < NextAvail /\ issued'[j] = 0
    BY <1>7 DEF Held
  <2>1. j \in Batch(d) /\ j # i
    BY <1>4, <1>5
  <2> QED
    BY <2>1, <1>1, <1>2 DEF IInv, Held, TypeOK
<1>9. \A d \in Client : Fresh(d)'
  BY <1>1, <1>2 DEF IInv, Fresh, TypeOK, Pop
<1>10. Disjoint'
  BY <1>4 DEF IInv, Disjoint
<1>11. IssuedBelow' /\ NoIdTwice' /\ NextAvail' <= MaxNext
  BY <1>2, <1>6, <1>7 DEF IInv, IssuedBelow, NoIdTwice
<1> QED
  BY <1>3, <1>8, <1>9, <1>10, <1>11 DEF IInv

(* Steps that leave the object, the batches and the returned ids alone.     *)
LEMMA QuietIInv ==
  ASSUME IInv, NEW c \in Client, StartReserving(c) \/ ReadNext(c)
  PROVE  IInv'
<1>1. /\ UNCHANGED <<obj, delta, reserved, issued, crashes>>
      /\ pc[c] # "fill" /\ pc'[c] # "fill"
      /\ \A d \in Client : d # c => pc'[d] = pc[d] /\ seen'[d] = seen[d]
  BY DEF StartReserving, ReadNext, IInv, TypeOK
<1>2. TypeOK'
  <2>1. CASE StartReserving(c)
    BY <2>1 DEF StartReserving, IInv, TypeOK
  <2>2. CASE ReadNext(c)
    <3>1. obj.ver \in Nat /\ (Exists(obj) => obj.body \in Nat)
      BY Types DEF IInv, TypeOK
    <3>2. seen' \in [Client -> [ver : Nat, next : Nat]]
      <4>1. CASE Accepts(MustExist, obj)
        BY <4>1, <3>1, <2>2 DEF ReadNext, IInv, TypeOK
      <4>2. CASE ~Accepts(MustExist, obj)
        BY <4>2, <2>2 DEF ReadNext, IInv, TypeOK
      <4> QED
        BY <4>1, <4>2
    <3> QED
      BY <2>2, <3>2 DEF ReadNext, IInv, TypeOK
  <2> QED
    BY <2>1, <2>2
<1>3. NextAvail' = NextAvail /\ \A d \in Client : Batch(d)' = Batch(d)
  BY <1>1 DEF NextAvail, Batch
<1>4. \A d \in Client : Fresh(d)'
  <2> SUFFICES ASSUME NEW d \in Client PROVE Fresh(d)'
    OBVIOUS
  <2>1. CASE d # c
    BY <2>1, <1>1 DEF IInv, Fresh
  <2>2. CASE d = c
    BY <2>2, <1>1 DEF IInv, Fresh, StartReserving, ReadNext, TypeOK
  <2> QED
    BY <2>1, <2>2
<1> QED
  BY <1>1, <1>2, <1>3, <1>4 DEF IInv, Held, IssuedBelow, Disjoint, NoIdTwice

(* The accepted write moves the counter by delta and makes the ids it       *)
(* passed over the batch of this client; the ids were above every other's.  *)
LEMMA ReserveIInv ==
  ASSUME IInv, NEW c \in Client, Create(c) \/ Update(c)
  PROVE  IInv'
<1> DEFINE n == seen[c].next
<1>1. /\ n + delta[c] <= MaxNext
      /\ UNCHANGED <<delta, reserved, seen, issued, crashes>>
      /\ pc[c] \in {"create", "update"}
      /\ reserved[c] = {}
  BY DEF Create, Update, Reserve, IInv, Fresh
<1>2. n \in Nat /\ delta[c] \in Nat \ {0} /\ delta[c] <= MaxNext
  BY Types DEF IInv
<1>3. pack(n + delta[c]) = n + delta[c]
  BY <1>1, <1>2 DEF pack
<1>4. ASSUME UNCHANGED obj, NEW l \in {"read", "idle"}, pc' = [pc EXCEPT ![c] = l]
      PROVE  IInv'
  <2>1. TypeOK'
    BY <1>1, <1>4 DEF IInv, TypeOK
  <2>2. NextAvail' = NextAvail /\ \A d \in Client : Batch(d)' = Batch(d)
    BY <1>1, <1>4 DEF NextAvail, Batch, IInv, TypeOK
  <2>3. \A d \in Client : Fresh(d)'
    BY <1>1, <1>4 DEF IInv, Fresh, TypeOK
  <2> QED
    BY <1>1, <2>1, <2>2, <2>3 DEF IInv, Held, IssuedBelow, Disjoint, NoIdTwice
<1>5. CASE /\ pc' = [pc EXCEPT ![c] = "fill"]
           /\ obj' = [ver |-> obj.ver + 1, body |-> n + delta[c]]
           /\ NextAvail = n
  <2>1. TypeOK'
    BY <1>1, <1>2, <1>5 DEF IInv, TypeOK
  <2>2. NextAvail' = n + delta[c]
    BY <1>2, <1>5 DEF NextAvail
  <2>3. \A d \in Client :
          Batch(d)' = IF d = c THEN n .. (n + delta[c] - 1) ELSE Batch(d)
    BY <1>1, <1>5 DEF Batch, IInv, TypeOK
  <2>4. \A d \in Client : Fresh(d)'
    <3> SUFFICES ASSUME NEW d \in Client PROVE Fresh(d)'
      OBVIOUS
    <3>1. CASE d = c
      BY <3>1, <1>1, <1>5 DEF Fresh, IInv, TypeOK
    <3>2. CASE d # c
      BY <3>2, <1>1, <1>2, <1>5 DEF Fresh, IInv, TypeOK
    <3> QED
      BY <3>1, <3>2
  <2>5. \A j \in n .. (n + delta[c] - 1) : j \in Id /\ issued[j] = 0
    <3> SUFFICES ASSUME NEW j \in n .. (n + delta[c] - 1)
                 PROVE  j \in Id /\ issued[j] = 0
      OBVIOUS
    <3>1. j \in Id
      BY <1>1, <1>2 DEF Id
    <3>2. ~(j < NextAvail)
      BY <1>2, <1>5
    <3> QED
      BY <3>1, <3>2 DEF IInv, IssuedBelow, TypeOK
  <2>6. \A d \in Client : Held(d)'
    <3> SUFFICES ASSUME NEW d \in Client, NEW j \in Batch(d)'
                 PROVE  j < NextAvail' /\ issued'[j] = 0
      BY DEF Held
    <3>1. CASE d = c
      <4>1. j \in n .. (n + delta[c] - 1)
        BY <3>1, <2>3
      <4>2. j < n + delta[c]
        BY <4>1, <1>2
      <4> QED
        BY <4>1, <4>2, <1>1, <2>2, <2>5
    <3>2. CASE d # c
      <4>1. j \in Batch(d)
        BY <3>2, <2>3
      <4>2. j \in Nat /\ j < n /\ issued[j] = 0
        BY <4>1, <1>5, BatchIsNat DEF IInv, Held
      <4> QED
        BY <4>2, <1>1, <1>2, <2>2
    <3> QED
      BY <3>1, <3>2
  <2>7. \A d \in Client : d # c => Batch(d) \cap (n .. (n + delta[c] - 1)) = {}
    <3> SUFFICES ASSUME NEW d \in Client, d # c, NEW j \in Batch(d),
                        j \in n .. (n + delta[c] - 1)
                 PROVE  FALSE
      OBVIOUS
    <3>1. j < n
      BY <1>5 DEF IInv, Held
    <3> QED
      BY <3>1, <1>2
  <2>8. Disjoint'
    <3> SUFFICES ASSUME NEW d \in Client, NEW e \in Client, d # e
                 PROVE  Batch(d)' \cap Batch(e)' = {}
      BY DEF Disjoint
    <3>1. CASE d = c
      BY ZenonT(30), <3>1, <2>3, <2>7
    <3>2. CASE e = c
      BY <3>2, <2>3, <2>7
    <3>3. CASE d # c /\ e # c
      BY <3>3, <2>3 DEF IInv, Disjoint
    <3> QED
      BY <3>1, <3>2, <3>3
  <2>9. IssuedBelow'
    BY <1>1, <1>2, <1>5, <2>2 DEF IInv, IssuedBelow, Id
  <2> QED
    BY <1>1, <2>1, <2>2, <2>4, <2>6, <2>8, <2>9 DEF IInv, NoIdTwice
<1>6. CASE Create(c)
  <2>1. n = 0 /\ Reserve(c, MustNotExist, {"ObjectExistsError"}) /\ pc[c] = "create"
    BY <1>6 DEF Create, IInv, Fresh
  <2>2. CASE Accepts(MustNotExist, obj)
    BY <2>1, <2>2, <1>3, <1>5 DEF Reserve, NextAvail
  <2>3. CASE ~Accepts(MustNotExist, obj)
    BY <2>1, <2>3, <1>4 DEF Reserve
  <2> QED
    BY <2>2, <2>3
<1>7. CASE Update(c)
  <2>1. /\ Reserve(c, Exactly(seen[c].ver), {"NoObjectError", "VersionError"}) /\ pc[c] = "update"
        /\ Exists(obj) /\ seen[c].ver <= obj.ver
        /\ seen[c].ver = obj.ver => n = obj.body
    BY <1>7 DEF Update, IInv, Fresh
  <2>2. CASE Accepts(Exactly(seen[c].ver), obj)
    <3>1. seen[c].ver = obj.ver
      BY <2>1, <2>2, Types DEF IInv
    <3> QED
      BY <2>1, <2>2, <3>1, <1>3, <1>5 DEF Reserve, NextAvail
  <2>3. CASE ~Accepts(Exactly(seen[c].ver), obj)
    BY <2>1, <2>3, <1>4 DEF Reserve
  <2> QED
    BY <2>2, <2>3
<1> QED
  BY <1>6, <1>7

(* The batch becomes the reserved ids and the one id that is returned.      *)
LEMMA FillIInv ==
  ASSUME IInv, NEW c \in Client, Fill(c)
  PROVE  IInv'
<1> DEFINE n == seen[c].next
           rest == (n + 1) .. (n + delta[c] - 1)
<1>1. /\ pc[c] = "fill" /\ reserved[c] = {}
      /\ pc' = [pc EXCEPT ![c] = "idle"]
      /\ reserved' = [reserved EXCEPT ![c] = rest]
      /\ issued' = [issued EXCEPT ![n] = @ + 1]
      /\ UNCHANGED <<obj, delta, seen, crashes>>
  BY DEF Fill, Return, IInv, Fresh
<1>2. n \in Nat /\ delta[c] \in Nat \ {0} /\ delta[c] <= MaxNext
  BY Types DEF IInv
<1>3. Batch(c) = {n} \cup rest /\ n \notin rest
  BY <1>1, <1>2 DEF Batch
<1>4. n \in Id /\ n < NextAvail /\ issued[n] = 0
  <2>1. n < NextAvail /\ issued[n] = 0
    BY <1>3 DEF IInv, Held
  <2>2. NextAvail \in Nat
    BY DEF IInv, TypeOK, NextAvail
  <2> QED
    BY <1>2, <2>1, <2>2 DEF IInv, Id
<1>5. rest \subseteq Id
  <2> SUFFICES ASSUME NEW j \in rest PROVE j \in Id
    OBVIOUS
  <2>1. j \in Nat /\ j < NextAvail /\ NextAvail \in Nat
    BY <1>2, <1>3 DEF IInv, Held, TypeOK, NextAvail
  <2> QED
    BY <2>1 DEF IInv, Id
<1>6. TypeOK'
  BY <1>1, <1>4, <1>5 DEF IInv, TypeOK
<1>7. NextAvail' = NextAvail
  BY <1>1 DEF NextAvail
<1>8. \A d \in Client : Batch(d)' = IF d = c THEN rest ELSE Batch(d)
  BY <1>1 DEF Batch, IInv, TypeOK
<1>9. \A j \in Id : issued'[j] = IF j = n THEN 1 ELSE issued[j]
  BY <1>1, <1>4 DEF IInv, TypeOK
<1>10. \A d \in Client : n \notin Batch(d)'
  BY ZenonT(30), <1>3, <1>8 DEF IInv, Disjoint
<1>11. \A d \in Client : Batch(d)' \subseteq Batch(d)
  BY <1>3, <1>8
<1>12. \A d \in Client : Held(d)'
  <2> SUFFICES ASSUME NEW d \in Client, NEW j \in Batch(d)'
               PROVE  j < NextAvail /\ issued'[j] = 0
    BY <1>7 DEF Held
  <2>1. j \in Batch(d) /\ j # n
    BY <1>10, <1>11
  <2> QED
    BY <2>1, <1>1, <1>4 DEF IInv, Held, TypeOK
<1>13. \A d \in Client : Fresh(d)'
  BY <1>1 DEF IInv, Fresh, TypeOK
<1>14. Disjoint'
  BY <1>11 DEF IInv, Disjoint
<1>15. IssuedBelow' /\ NoIdTwice' /\ NextAvail' <= MaxNext
  BY <1>4, <1>7, <1>9 DEF IInv, IssuedBelow, NoIdTwice
<1> QED
  BY <1>6, <1>12, <1>13, <1>14, <1>15 DEF IInv

(* A restart only gives ids up.                                             *)
LEMMA RestartIInv ==
  ASSUME IInv, NEW c \in Client, Restart(c)
  PROVE  IInv'
<1>1. /\ reserved' = [reserved EXCEPT ![c] = {}]
      /\ pc' = [pc EXCEPT ![c] = "idle"]
      /\ UNCHANGED <<obj, delta, seen, issued>>
  BY DEF Restart
<1>2. TypeOK'
  BY <1>1 DEF Restart, IInv, TypeOK
<1>3. NextAvail' = NextAvail
  BY <1>1 DEF NextAvail
<1>4. \A d \in Client : Batch(d)' \subseteq Batch(d)
  BY <1>1 DEF Batch, IInv, TypeOK
<1>5. \A d \in Client : Held(d)'
  BY <1>1, <1>3, <1>4 DEF IInv, Held
<1>6. \A d \in Client : Fresh(d)'
  BY <1>1 DEF IInv, Fresh, TypeOK
<1>7. Disjoint'
  BY <1>4 DEF IInv, Disjoint
<1> QED
  BY <1>1, <1>2, <1>3, <1>5, <1>6, <1>7 DEF IInv, IssuedBelow, NoIdTwice

LEMMA StutterIInv == IInv /\ UNCHANGED vars => IInv'
BY DEF vars, IInv, TypeOK, NextAvail, Fresh, Held, IssuedBelow, Disjoint, NoIdTwice,
       Batch

(* A batch that nobody is about to fill does not depend on delta.           *)
LEMMA ChangeIInv ==
  ASSUME IInv, "fill" \notin ChangeAt, NEW c \in Client, ChangeDelta(c)
  PROVE  IInv'
<1>1. /\ pc[c] # "fill" /\ UNCHANGED <<obj, reserved, pc, seen, issued, crashes>>
      /\ \E d \in Deltas : delta' = [delta EXCEPT ![c] = d]
  BY DEF ChangeDelta
<1>2. TypeOK'
  BY <1>1 DEF IInv, TypeOK
<1>3. \A d \in Client : Batch(d)' = Batch(d)
  BY <1>1 DEF Batch, IInv, TypeOK
<1>4. NextAvail' = NextAvail
  BY <1>1 DEF NextAvail
<1>5. \A d \in Client : Held(d)' /\ Fresh(d)'
  <2>1. \A d \in Client : Held(d)'
    BY <1>1, <1>3, <1>4 DEF IInv, Held
  <2>2. \A d \in Client : Fresh(d)'
    BY <1>1, <1>4 DEF IInv, Fresh
  <2> QED
    BY <2>1, <2>2
<1>6. Disjoint'
  BY <1>3 DEF IInv, Disjoint
<1>7. IssuedBelow' /\ NoIdTwice' /\ NextAvail' <= MaxNext
  BY <1>1, <1>4 DEF IInv, IssuedBelow, NoIdTwice
<1> QED
  BY <1>2, <1>5, <1>6, <1>7 DEF IInv

(* As long as delta does not change between the write and the range that is *)
(* kept, every step keeps the invariant.                                    *)
LEMMA NextIInv ==
  ASSUME "fill" \notin ChangeAt
  PROVE  IInv /\ [Next]_vars => IInv'
<1> SUFFICES ASSUME IInv, Next PROVE IInv'
  BY StutterIInv
<1>1. PICK c \in Client : Step(c) \/ ChangeDelta(c) \/ Restart(c)
  BY DEF Next
<1> QED
  BY <1>1, ChangeIInv, PopIInv, QuietIInv, ReserveIInv, FillIInv, RestartIInv DEF Step

THEOREM Invariance ==
  ASSUME "fill" \notin ChangeAt
  PROVE  Spec => []IInv
<1>1. IInv /\ [Next]_vars => IInv'
  BY NextIInv
<1> QED
  BY <1>1, InitIInv, PTL DEF Spec

(* No id is ever returned twice (oidres.py:103-104), by one client or two,  *)
(* whatever their number, their batch sizes and their restarts, also when   *)
(* batch sizes change anywhere but between a reservation and its use.       *)
THEOREM IdsAreUnique ==
  ASSUME "fill" \notin ChangeAt
  PROVE  Spec => []NoIdTwice
<1>1. IInv => NoIdTwice
  BY DEF IInv
<1> QED
  BY <1>1, Invariance, PTL

THEOREM TypeCorrect ==
  ASSUME "fill" \notin ChangeAt
  PROVE  Spec => []TypeOK
<1>1. IInv => TypeOK
  BY DEF IInv
<1> QED
  BY <1>1, Invariance, PTL

-----------------------------------------------------------------------------
(* Waste.  The ids that are wasted are counted by the exits: a batch lies   *)
(* within a range no longer than the largest delta, and only an exit takes  *)
(* ids from a batch that it does not return.                                *)

Wasted == {i \in 0 .. NextAvail - 1 :
             issued[i] = 0 /\ \A c \in Client : i \notin Batch(c)}

Narrow(c) == \E k \in Nat, d \in Deltas : Batch(c) \subseteq k .. (k + d - 1)

WasteInv == (\A c \in Client : Narrow(c)) /\ WasteBounded

LEMMA WastedIsFinite ==
  ASSUME TypeOK
  PROVE  IsFiniteSet(Wasted) /\ Cardinality(Wasted) \in Nat
<1>1. NextAvail - 1 \in Int
  BY DEF TypeOK, NextAvail
<1>2. IsFiniteSet(0 .. NextAvail - 1)
  BY <1>1, FS_Interval
<1>3. Wasted \in SUBSET (0 .. NextAvail - 1)
  BY DEF Wasted
<1> QED
  BY <1>2, <1>3, FS_Subset, FS_CardinalityType

(* A step wastes nothing if whatever was unreserved, or held, stays held or *)
(* is returned.                                                             *)
LEMMA NothingWasted ==
  ASSUME IInv, IInv', WasteInv, crashes' = crashes,
         \A c \in Client : Narrow(c)',
         \A i \in Wasted' : i \in Wasted
  PROVE  WasteInv'
<1>1. IsFiniteSet(Wasted) /\ Cardinality(Wasted) \in Nat
  BY WastedIsFinite DEF IInv
<1>2. /\ Cardinality(Wasted') <= Cardinality(Wasted)
      /\ Cardinality(Wasted') \in Nat
  <2>1. Wasted' \in SUBSET Wasted
    OBVIOUS
  <2> QED
    BY <1>1, <2>1, FS_Subset, FS_CardinalityType
<1> SUFFICES ASSUME NEW d \in Deltas, \A e \in Deltas : e <= d
             PROVE  Cardinality(Wasted') <= crashes * d
  BY DEF WasteInv, WasteBounded, Wasted
<1>3. Cardinality(Wasted) <= crashes * d
  BY DEF WasteInv, WasteBounded, Wasted
<1>4. crashes * d \in Nat
  BY DEF IInv, TypeOK
<1> QED
  BY <1>1, <1>2, <1>3, <1>4

LEMMA PopWastes ==
  ASSUME IInv, IInv', WasteInv, NEW c \in Client, Pop(c)
  PROVE  WasteInv'
<1>1. PICK i \in reserved[c] : /\ reserved' = [reserved EXCEPT ![c] = @ \ {i}]
                               /\ issued' = [issued EXCEPT ![i] = @ + 1]
  BY DEF Pop, Return
<1>2. i \in Id /\ UNCHANGED <<obj, delta, pc, seen, crashes>>
  BY DEF Pop, IInv, TypeOK
<1>3. \A d \in Client : Batch(d)' = IF d = c THEN Batch(d) \ {i} ELSE Batch(d)
  BY <1>1, <1>2 DEF Batch, IInv, TypeOK, Pop
<1>4. NextAvail' = NextAvail
  BY <1>2 DEF NextAvail
<1>5. \A d \in Client : Narrow(d)'
  BY <1>3 DEF WasteInv, Narrow
<1>6. \A j \in Id : issued'[j] = IF j = i THEN issued[j] + 1 ELSE issued[j]
  BY <1>1, <1>2 DEF IInv, TypeOK
<1>7. ASSUME NEW j \in Wasted' PROVE j \in Wasted
  <2>1. /\ j \in 0 .. NextAvail - 1 /\ issued'[j] = 0
        /\ \A d \in Client : j \notin Batch(d)'
    BY <1>4 DEF Wasted
  <2>2. j \in Id
    BY <2>1, Types DEF IInv, Id
  <2>3. j # i /\ issued[j] = 0
    BY <2>1, <2>2, <1>2, <1>6 DEF IInv, TypeOK
  <2>4. \A d \in Client : j \notin Batch(d)
    BY <2>1, <2>3, <1>3
  <2> QED
    BY <2>1, <2>3, <2>4 DEF Wasted
<1> QED
  BY <1>2, <1>5, <1>7, NothingWasted

(* Steps that leave the object, the batches and the returned ids alone.     *)
LEMMA QuietWastes ==
  ASSUME IInv, IInv', WasteInv, UNCHANGED <<issued, crashes>>,
         NextAvail' = NextAvail, \A d \in Client : Batch(d)' = Batch(d)
  PROVE  WasteInv'
<1>1. \A d \in Client : Narrow(d)'
  BY DEF WasteInv, Narrow
<1>2. \A j \in Wasted' : j \in Wasted
  BY DEF Wasted
<1> QED
  BY <1>1, <1>2, NothingWasted

(* The ids that an accepted write reserves are the batch of its client.     *)
LEMMA ReserveWastes ==
  ASSUME IInv, IInv', WasteInv, NEW c \in Client, Create(c) \/ Update(c)
  PROVE  WasteInv'
<1> DEFINE n == seen[c].next
<1>1. /\ n + delta[c] <= MaxNext
      /\ UNCHANGED <<delta, reserved, seen, issued, crashes>>
      /\ pc[c] \in {"create", "update"}
      /\ reserved[c] = {}
  BY DEF Create, Update, Reserve, IInv, Fresh
<1>2. n \in Nat /\ delta[c] \in Deltas /\ delta[c] \in Nat /\ NextAvail \in Nat
  BY Types DEF IInv, TypeOK
<1>3. ASSUME UNCHANGED obj, NEW l \in {"read", "idle"}, pc' = [pc EXCEPT ![c] = l]
      PROVE  WasteInv'
  <2>1. NextAvail' = NextAvail /\ \A d \in Client : Batch(d)' = Batch(d)
    BY <1>1, <1>3 DEF NextAvail, Batch, IInv, TypeOK
  <2> QED
    BY <1>1, <2>1, QuietWastes
<1>4. CASE /\ pc' = [pc EXCEPT ![c] = "fill"]
           /\ obj' = [ver |-> obj.ver + 1, body |-> n + delta[c]]
           /\ NextAvail = n
  <2>1. NextAvail' = n + delta[c]
    BY <1>2, <1>4 DEF NextAvail
  <2>2. \A d \in Client :
          Batch(d)' = IF d = c THEN n .. (n + delta[c] - 1) ELSE Batch(d)
    BY <1>1, <1>4 DEF Batch, IInv, TypeOK
  <2>3. Batch(c) = {}
    BY <1>1 DEF Batch
  <2>4. ASSUME NEW d \in Client PROVE Narrow(d)'
    <3>1. CASE d = c
      BY <3>1, <2>2, <1>2 DEF Narrow
    <3>2. CASE d # c
      BY <3>2, <2>2 DEF WasteInv, Narrow
    <3> QED
      BY <3>1, <3>2
  <2>5. ASSUME NEW j \in Wasted' PROVE j \in Wasted
    <3>1. /\ j \in 0 .. (n + delta[c] - 1) /\ issued[j] = 0
          /\ \A d \in Client : j \notin Batch(d)'
      <4>1. j \in 0 .. NextAvail' - 1 /\ issued'[j] = 0
            /\ \A d \in Client : j \notin Batch(d)'
        BY DEF Wasted
      <4> QED
        BY <1>1, <1>2, <2>1, <4>1
    <3>2. j \notin n .. (n + delta[c] - 1)
      BY <3>1, <2>2
    <3>3. j \in 0 .. NextAvail - 1
      BY <3>1, <3>2, <1>2, <1>4
    <3>4. \A d \in Client : j \notin Batch(d)
      BY <3>1, <2>2, <2>3
    <3> QED
      BY <3>1, <3>3, <3>4 DEF Wasted
  <2> QED
    BY <1>1, <2>4, <2>5, NothingWasted
<1>5. pack(n + delta[c]) = n + delta[c]
  BY <1>1, <1>2 DEF pack
<1>6. CASE Create(c)
  <2>1. n = 0 /\ Reserve(c, MustNotExist, {"ObjectExistsError"}) /\ pc[c] = "create"
    BY <1>6 DEF Create, IInv, Fresh
  <2>2. CASE Accepts(MustNotExist, obj)
    BY <2>1, <2>2, <1>5, <1>4 DEF Reserve, NextAvail
  <2>3. CASE ~Accepts(MustNotExist, obj)
    BY <2>1, <2>3, <1>3 DEF Reserve
  <2> QED
    BY <2>2, <2>3
<1>7. CASE Update(c)
  <2>1. /\ Reserve(c, Exactly(seen[c].ver), {"NoObjectError", "VersionError"}) /\ pc[c] = "update"
        /\ Exists(obj) /\ seen[c].ver <= obj.ver
        /\ seen[c].ver = obj.ver => n = obj.body
    BY <1>7 DEF Update, IInv, Fresh
  <2>2. CASE Accepts(Exactly(seen[c].ver), obj)
    <3>1. seen[c].ver = obj.ver
      BY <2>1, <2>2, Types DEF IInv
    <3> QED
      BY <2>1, <2>2, <3>1, <1>5, <1>4 DEF Reserve, NextAvail
  <2>3. CASE ~Accepts(Exactly(seen[c].ver), obj)
    BY <2>1, <2>3, <1>3 DEF Reserve
  <2> QED
    BY <2>2, <2>3
<1> QED
  BY <1>6, <1>7

LEMMA FillWastes ==
  ASSUME IInv, IInv', WasteInv, NEW c \in Client, Fill(c)
  PROVE  WasteInv'
<1> DEFINE n == seen[c].next
           rest == (n + 1) .. (n + delta[c] - 1)
<1>1. /\ pc[c] = "fill" /\ reserved[c] = {}
      /\ pc' = [pc EXCEPT ![c] = "idle"]
      /\ reserved' = [reserved EXCEPT ![c] = rest]
      /\ issued' = [issued EXCEPT ![n] = @ + 1]
      /\ UNCHANGED <<obj, delta, seen, crashes>>
  BY DEF Fill, Return, IInv, Fresh
<1>2. n \in Nat /\ delta[c] \in Nat \ {0}
  BY Types DEF IInv
<1>3. Batch(c) = {n} \cup rest
  BY <1>1, <1>2 DEF Batch
<1>4. n \in Id /\ NextAvail \in Nat /\ NextAvail <= MaxNext
  <2>1. n < NextAvail
    BY <1>3 DEF IInv, Held
  <2>2. NextAvail \in Nat
    BY DEF IInv, TypeOK, NextAvail
  <2> QED
    BY <1>2, <2>1, <2>2 DEF IInv, Id
<1>5. NextAvail' = NextAvail
  BY <1>1 DEF NextAvail
<1>6. \A d \in Client : Batch(d)' = IF d = c THEN rest ELSE Batch(d)
  BY <1>1 DEF Batch, IInv, TypeOK
<1>7. \A j \in Id : issued'[j] = IF j = n THEN issued[j] + 1 ELSE issued[j]
  BY <1>1, <1>4 DEF IInv, TypeOK
<1>8. \A d \in Client : Batch(d)' \subseteq Batch(d)
  BY <1>3, <1>6
<1>9. \A d \in Client : Narrow(d)'
  BY <1>8 DEF WasteInv, Narrow
<1>10. ASSUME NEW j \in Wasted' PROVE j \in Wasted
  <2>1. /\ j \in 0 .. NextAvail - 1 /\ issued'[j] = 0
        /\ \A d \in Client : j \notin Batch(d)'
    BY <1>5 DEF Wasted
  <2>2. j \in Id
    BY <2>1, <1>4 DEF Id
  <2>3. j # n /\ issued[j] = 0
    BY <2>1, <2>2, <1>4, <1>7 DEF IInv, TypeOK
  <2>4. \A d \in Client : j \notin Batch(d)
    BY <2>1, <2>3, <1>3, <1>6
  <2> QED
    BY <2>1, <2>3, <2>4 DEF Wasted
<1> QED
  BY <1>1, <1>9, <1>10, NothingWasted

(* An exit wastes what was left of a batch.                                 *)
LEMMA RestartWastes ==
  ASSUME IInv, IInv', WasteInv, NEW c \in Client, Restart(c)
  PROVE  WasteInv'
<1>1. /\ reserved' = [reserved EXCEPT ![c] = {}]
      /\ pc' = [pc EXCEPT ![c] = "idle"]
      /\ UNCHANGED <<obj, delta, seen, issued>>
      /\ crashes' = crashes + 1
  BY DEF Restart
<1>2. NextAvail' = NextAvail
  BY <1>1 DEF NextAvail
<1>3. \A d \in Client : Batch(d)' = IF d = c THEN {} ELSE Batch(d)
  BY <1>1 DEF Batch, IInv, TypeOK
<1>4. \A d \in Client : Narrow(d)'
  BY <1>3 DEF WasteInv, Narrow
<1>5. Wasted' \subseteq Wasted \cup Batch(c)
  BY <1>1, <1>2, <1>3 DEF Wasted
<1>6. PICK k \in Nat, b \in Deltas : Batch(c) \subseteq k .. (k + b - 1)
  BY DEF WasteInv, Narrow
<1> DEFINE R == k .. (k + b - 1)
<1>7. b \in Nat \ {0}
  OBVIOUS
<1>8. IsFiniteSet(R) /\ Cardinality(R) = b
  BY <1>7, FS_Interval
<1>9. IsFiniteSet(Wasted) /\ Cardinality(Wasted) \in Nat
  BY WastedIsFinite DEF IInv
<1> HIDE DEF R
<1>10. /\ IsFiniteSet(Wasted \cup R)
       /\ Cardinality(Wasted \cup R)
            = Cardinality(Wasted) + Cardinality(R) - Cardinality(Wasted \cap R)
  BY <1>8, <1>9, FS_Union
<1>11. Cardinality(Wasted \cap R) \in Nat
  BY <1>9, FS_Intersection, FS_CardinalityType
<1>12. Wasted' \in SUBSET (Wasted \cup R)
  BY <1>5, <1>6 DEF R
<1>13. Cardinality(Wasted') <= Cardinality(Wasted \cup R)
  BY <1>10, <1>12, FS_Subset
<1>14. Cardinality(Wasted') \in Nat
  BY <1>10, <1>12, FS_Subset, FS_CardinalityType
<1>15. ASSUME NEW d \in Deltas, \A e \in Deltas : e <= d
       PROVE  Cardinality(Wasted') <= crashes' * d
  <2>1. Cardinality(Wasted) <= crashes * d /\ b <= d
    BY <1>15 DEF WasteInv, WasteBounded, Wasted
  <2>2. crashes \in Nat /\ d \in Nat
    BY DEF IInv, TypeOK
  <2>3. crashes * d \in Nat /\ (crashes + 1) * d = crashes * d + d
    BY <2>2
  <2>4. Cardinality(Wasted') <= Cardinality(Wasted) + b
    BY <1>7, <1>8, <1>9, <1>10, <1>11, <1>13, <1>14
  <2> QED
    BY <2>1, <2>2, <2>3, <2>4, <1>1, <1>7, <1>9, <1>14
<1> QED
  BY <1>4, <1>15 DEF WasteInv, WasteBounded, Wasted

LEMMA InitWaste == Init => WasteInv
<1> SUFFICES ASSUME Init PROVE WasteInv
  OBVIOUS
<1>1. NextAvail = 0 /\ \A c \in Client : Batch(c) = {}
  BY DEF Init, NextAvail, Batch
<1>2. \A c \in Client : delta[c] \in Deltas
  BY DEF Init
<1>3. \A c \in Client : Narrow(c)
  BY <1>1, <1>2 DEF Narrow
<1>4. Wasted = {}
  BY <1>1 DEF Wasted
<1>5. \A d \in Deltas : Cardinality(Wasted) <= crashes * d
  BY <1>4, FS_EmptySet DEF Init
<1> QED
  BY <1>3, <1>5 DEF WasteInv, WasteBounded, Wasted

LEMMA NextWaste ==
  ASSUME "fill" \notin ChangeAt
  PROVE  IInv /\ IInv' /\ WasteInv /\ [Next]_vars => WasteInv'
<1> SUFFICES ASSUME IInv, IInv', WasteInv, [Next]_vars PROVE WasteInv'
  OBVIOUS
<1>1. CASE UNCHANGED vars
  BY <1>1, QuietWastes DEF vars, NextAvail, Batch
<1>2. ASSUME NEW c \in Client, StartReserving(c) \/ ReadNext(c) PROVE WasteInv'
  <2>1. /\ UNCHANGED <<obj, delta, reserved, issued, crashes>>
        /\ pc[c] # "fill" /\ pc'[c] # "fill"
        /\ \A d \in Client : d # c => pc'[d] = pc[d] /\ seen'[d] = seen[d]
    BY <1>2 DEF StartReserving, ReadNext, IInv, TypeOK
  <2>2. NextAvail' = NextAvail /\ \A d \in Client : Batch(d)' = Batch(d)
    BY <2>1 DEF NextAvail, Batch
  <2> QED
    BY <2>1, <2>2, QuietWastes
<1>3. ASSUME NEW c \in Client, ChangeDelta(c) PROVE WasteInv'
  <2>1. /\ pc[c] # "fill" /\ UNCHANGED <<obj, reserved, pc, seen, issued, crashes>>
        /\ \E d \in Deltas : delta' = [delta EXCEPT ![c] = d]
    BY <1>3 DEF ChangeDelta
  <2>2. NextAvail' = NextAvail /\ \A d \in Client : Batch(d)' = Batch(d)
    BY <2>1 DEF NextAvail, Batch, IInv, TypeOK
  <2> QED
    BY <2>1, <2>2, QuietWastes
<1> QED
  BY <1>1, <1>2, <1>3, PopWastes, ReserveWastes, FillWastes, RestartWastes DEF Next, Step

(* "Every time a client exits (gracefully or otherwise), it wastes up to    *)
(* delta object IDs" (oidres.py:104-106), and nothing else wastes any: for  *)
(* any number of clients and of exits, whatever race they are lost in.      *)
THEOREM WasteIsBounded ==
  ASSUME "fill" \notin ChangeAt
  PROVE  Spec => []WasteBounded
<1>1. IInv /\ IInv' /\ WasteInv /\ [Next]_vars => WasteInv'
  BY NextWaste
<1>2. WasteInv => WasteBounded
  BY DEF WasteInv
<1> QED
  BY <1>1, <1>2, InitWaste, Invariance, PTL DEF Spec

=============================================================================
