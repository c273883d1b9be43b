------------------------ MODULE TableIterator_proofs ------------------------
(***************************************************************************)
(* Proofs about TableIterator, for every number of objects, any number of  *)
(* changes by other clients, and calls to the server that may fail.        *)
(***************************************************************************)
EXTENDS TableIterator, TLAPS

(* The inductive invariant.  The enumerator's position separates the        *)
(* objects that were returned, or are in hand, from those that were not:    *)
(* what lies ahead or is in hand was not returned, and what lies behind and *)
(* was there throughout is in hand or was returned.                         *)
NotYet == \A o \in Object : o > position \/ o \in objectBlob => returned[o] = 0
Behind == \A o \in throughout : o <= position => o \in objectBlob \/ returned[o] = 1
AtEnd == done /\ ~failed => \A o \in throughout : o <= position

(* The pointer goes when the enumerator goes, except in finalize().         *)
Owned ==
  /\ ~collected => enumerator = (IF pointer THEN "live" ELSE "freed")
  /\ collected => enumerator = "freed"

IInv ==
  /\ TypeOK
  /\ \A o \in Object : returned[o] <= 1
  /\ NotYet /\ Behind /\ AtEnd /\ Owned

LEMMA InitHolds == Init => IInv
<1> SUFFICES ASSUME Init PROVE IInv
  OBVIOUS
<1> USE ConstantsAssumption DEF Init, Object, none
<1>1. TypeOK
  <2>1. done \in BOOLEAN /\ pointer = ~done /\ failed \in BOOLEAN /\ collected \in BOOLEAN
    BY Zenon
  <2> QED
    BY <2>1 DEF TypeOK
<1>2. NotYet /\ Behind
  BY DEF NotYet, Behind
<1>3. AtEnd /\ Owned
  BY DEF AtEnd, Owned
<1>4. \A o \in Object : returned[o] <= 1
  OBVIOUS
<1> QED
  BY <1>1, <1>2, <1>3, <1>4 DEF IInv

(* What a call of retrieveBatch() can find.                                 *)
LEMMA RetrievedIs ==
  ASSUME TypeOK, NEW r \in Retrieved
  PROVE  /\ r.position \in 0 .. NumHashes /\ position <= r.position
         /\ r.done \in BOOLEAN /\ r.failed \in BOOLEAN
         /\ r.blob \subseteq 1 .. r.position /\ (r.done => r.blob = {})
         /\ Calls => r.blob = {o \in table : o > position /\ o <= r.position}
         /\ ~Calls => r.position = position /\ r.blob = objectBlob /\ r.done = done /\ r.failed = failed
         /\ Calls /\ r.done /\ ~r.failed => ~failed /\ \A o \in table : o <= position
         /\ Calls => ~done /\ objectBlob = {}
<1> USE ConstantsAssumption DEF TypeOK, Object
<1>1. CASE Calls
  <2>1. PICK b \in Blobs :
          r = [position |-> b.position, blob |-> b.blob, done |-> b.blob = {},
               failed |-> failed \/ (b.blob = {} /\ Ahead # {})]
    BY <1>1 DEF Retrieved
  <2>2. r.position = b.position /\ r.blob = b.blob
    BY <2>1
  <2>3. /\ r.done = (r.blob = {})
        /\ r.failed = (failed \/ (r.blob = {} /\ Ahead # {}))
    BY <2>1, Zenon
  <2>4. /\ b.position \in 0 .. NumHashes /\ position <= b.position
        /\ b.blob = {o \in table : o > position /\ o <= b.position}
    <3>1. CASE b \in Stretches /\ b.blob # {}
      <4>1. PICK e \in Object : b = [position |-> e, blob |-> {o \in Ahead : o <= e}]
        BY <3>1 DEF Stretches
      <4>2. PICK o \in Ahead : o <= e
        BY <3>1, <4>1
      <4> QED
        BY <4>1, <4>2 DEF Ahead
    <3>2. CASE b = [position |-> position, blob |-> {}]
      <4>1. position \in Int /\ \A o \in table : o \in Int
        OBVIOUS
      <4>2. \A o \in table : ~(o > position /\ o <= position)
        BY <4>1
      <4>3. {o \in table : o > position /\ o <= position} = {}
        BY <4>2
      <4> QED
        BY <3>2, <4>3
    <3> QED
      BY <3>1, <3>2 DEF Blobs
  <2>5. r.blob \subseteq 1 .. r.position
    <3> SUFFICES ASSUME NEW o \in r.blob PROVE o \in 1 .. r.position
      OBVIOUS
    <3>1. o \in table /\ o > position /\ o <= b.position
      BY <2>2, <2>4
    <3>2. o \in Int /\ position \in Nat /\ b.position \in Int
      BY <2>4, <3>1
    <3> QED
      BY ONLY <2>2, <3>1, <3>2
  <2>6. r.done /\ ~r.failed => ~failed /\ Ahead = {}
    BY <2>3, Zenon
  <2>7. Ahead = {} => \A o \in table : o <= position
    <3> SUFFICES ASSUME Ahead = {}, NEW o \in table PROVE o <= position
      OBVIOUS
    <3>1. ~(o > position)
      BY DEF Ahead
    <3> QED
      BY <3>1
  <2>8. r.done \in BOOLEAN /\ r.failed \in BOOLEAN /\ (r.done => r.blob = {})
    BY <2>3, Zenon
  <2>9. ~done /\ objectBlob = {}
    BY <1>1 DEF Calls
  <2> QED
    BY <1>1, <2>2, <2>4, <2>5, <2>6, <2>7, <2>8, <2>9
<1>2. CASE ~Calls
  <2>1. r.position = position /\ r.blob = objectBlob /\ r.done = done /\ r.failed = failed
    BY <1>2 DEF Retrieved
  <2> QED
    BY <1>2, <2>1
<1> QED
  BY <1>1, <1>2

(* retrieveBatch() keeps the invariant, if nothing is taken out of the blob. *)
LEMMA RetrieveKeeps ==
  ASSUME IInv, ~collected, NEW r \in Retrieved, Retrieve(r)
  PROVE  /\ enumerator' = (IF pointer' THEN "live" ELSE "freed")
         /\ pointer' = ~done' /\ enumerator' \in {"live", "freed"}
         /\ \A o \in Object : o > position' \/ o \in r.blob => returned[o] = 0
         /\ \A o \in throughout : o <= position' => o \in r.blob \/ returned[o] = 1
         /\ done' /\ ~failed' => \A o \in throughout : o <= position'
<1> USE ConstantsAssumption DEF IInv, TypeOK, Object
<1>1. /\ position' = r.position /\ done' = r.done /\ failed' = r.failed
      /\ pointer' = (pointer /\ ~r.done)
      /\ enumerator' = IF ~Calls THEN enumerator
                       ELSE IF r.done \/ enumerator # "live" THEN Freed(enumerator) ELSE "live"
  BY DEF Retrieve, StillPoints
<1>2. enumerator' = (IF pointer' THEN "live" ELSE "freed") /\ pointer' = ~done'
  <2>1. CASE Calls
    BY <1>1, <2>1, RetrievedIs DEF Freed, Owned, Calls
  <2>2. CASE ~Calls
    BY <1>1, <2>2, RetrievedIs DEF Owned
  <2> QED
    BY <2>1, <2>2
<1>3. \A o \in Object : o > position' \/ o \in r.blob => returned[o] = 0
  <2> SUFFICES ASSUME NEW o \in Object, o > r.position \/ o \in r.blob
               PROVE  returned[o] = 0
    BY <1>1
  <2>1. CASE Calls
    <3>1. /\ r.position \in Int /\ position \in Int /\ position <= r.position
          /\ o \in r.blob => o > position
      BY <2>1, RetrievedIs
    <3>2. o \in Int /\ o > position
      BY <3>1
    <3> QED
      BY <3>2 DEF NotYet
  <2>2. CASE ~Calls
    <3>1. r.position = position /\ r.blob = objectBlob
      BY <2>2, RetrievedIs
    <3> QED
      BY <3>1 DEF NotYet
  <2> QED
    BY <2>1, <2>2
<1>4. \A o \in throughout : o <= position' => o \in r.blob \/ returned[o] = 1
  <2> SUFFICES ASSUME NEW o \in throughout, o <= r.position, o \notin r.blob
               PROVE  returned[o] = 1
    BY <1>1
  <2>1. CASE Calls /\ o > position
    <3>1. r.blob = {q \in table : q > position /\ q <= r.position}
      BY <2>1, RetrievedIs
    <3>2. o \in table
      OBVIOUS
    <3> QED
      BY <2>1, <3>1, <3>2
  <2>2. CASE Calls /\ ~(o > position)
    <3>1. objectBlob = {}
      BY <2>2, RetrievedIs
    <3>2. o <= position
      <4>1. o \in Int /\ position \in Int
        OBVIOUS
      <4>2. ~(o > position)
        BY <2>2
      <4> QED
        BY <4>1, <4>2
    <3> QED
      BY <3>1, <3>2 DEF Behind
  <2>3. CASE ~Calls
    <3>1. r.position = position /\ r.blob = objectBlob
      BY <2>3, RetrievedIs
    <3> QED
      BY <3>1 DEF Behind
  <2> QED
    BY <2>1, <2>2, <2>3
<1>5. done' /\ ~failed' => \A o \in throughout : o <= position'
  <2>1. CASE Calls /\ r.done /\ ~r.failed
    <3>1. \A o \in table : o <= position
      BY <2>1, RetrievedIs
    <3> QED
      BY <1>1, <3>1, RetrievedIs
  <2>2. CASE ~Calls
    <3>1. r.position = position /\ r.done = done /\ r.failed = failed
      BY <2>2, RetrievedIs
    <3> QED
      BY <1>1, <3>1 DEF AtEnd
  <2>3. CASE ~(r.done /\ ~r.failed)
    BY <1>1, <2>3, Zenon
  <2> QED
    BY <2>1, <2>2, <2>3
<1> QED
  BY <1>2, <1>3, <1>4, <1>5

LEMMA HasNextKeeps == IInv /\ HasNext => IInv'
<1> SUFFICES ASSUME IInv, HasNext PROVE IInv'
  OBVIOUS
<1> USE ConstantsAssumption
<1>1. PICK r \in Retrieved : Retrieve(r) /\ objectBlob' = r.blob
  BY DEF HasNext
<1>2. ~collected /\ UNCHANGED <<table, last, collected, changes, throughout, returned>>
  BY DEF HasNext
<1>3. TypeOK'
  BY <1>1, <1>2, RetrievedIs, RetrieveKeeps DEF IInv, TypeOK, Retrieve
<1> QED
  BY <1>1, <1>2, <1>3, RetrieveKeeps DEF IInv, TypeOK, NotYet, Behind, AtEnd, Owned, Object

LEMMA NextObjectKeeps == IInv /\ NextObject => IInv'
<1> SUFFICES ASSUME IInv, NextObject PROVE IInv'
  OBVIOUS
<1> USE ConstantsAssumption
<1>1. PICK r \in Retrieved :
        /\ Retrieve(r)
        /\ IF r.done
             THEN objectBlob' = r.blob /\ UNCHANGED <<last, returned>>
             ELSE \E o \in r.blob :
                    /\ objectBlob' = r.blob \ {o}
                    /\ last' = o
                    /\ returned' = [returned EXCEPT ![o] = @ + 1]
  BY DEF NextObject
<1>2. ~collected /\ UNCHANGED <<table, collected, changes, throughout>>
  BY DEF NextObject
<1>3. CASE r.done
  <2>1. TypeOK'
    BY <1>1, <1>2, <1>3, RetrievedIs, RetrieveKeeps DEF IInv, TypeOK, Retrieve
  <2> QED
    BY <1>1, <1>2, <1>3, <2>1, RetrieveKeeps DEF IInv, TypeOK, NotYet, Behind, AtEnd, Owned, Object
<1>4. CASE ~r.done
  <2>1. PICK o \in r.blob :
          objectBlob' = r.blob \ {o} /\ last' = o /\ returned' = [returned EXCEPT ![o] = @ + 1]
    BY <1>1, <1>4
  <2>2. /\ o \in Object /\ o <= position' /\ position' \in 0 .. NumHashes
        /\ returned[o] = 0 /\ ~done'
    <3>1. position' = r.position /\ done' = r.done
      BY <1>1 DEF Retrieve
    <3>2. o \in 1 .. r.position /\ r.position \in 0 .. NumHashes
      BY <2>1, RetrievedIs DEF IInv
    <3>3. o \in Object
      BY <3>2 DEF Object
    <3>4. returned[o] = 0
      BY <1>1, <1>2, <2>1, <3>3, RetrieveKeeps
    <3> QED
      BY <1>4, <3>1, <3>2, <3>3, <3>4
  <2>3. TypeOK'
    BY <1>1, <1>2, <1>4, <2>1, <2>2, RetrievedIs, RetrieveKeeps DEF IInv, TypeOK, Retrieve
  <2>4. \A q \in Object : returned'[q] = IF q = o THEN 1 ELSE returned[q]
    BY <2>1, <2>2 DEF IInv, TypeOK
  <2>5. NotYet'
    BY <1>1, <1>2, <2>1, <2>2, <2>4, RetrieveKeeps DEF NotYet, Object
  <2>6. Behind'
    <3>1. throughout \subseteq Object
      BY DEF IInv, TypeOK
    <3> QED
      BY <1>1, <1>2, <2>1, <2>4, <3>1, RetrieveKeeps DEF Behind
  <2> QED
    BY <1>1, <1>2, <2>2, <2>3, <2>4, <2>5, <2>6, RetrieveKeeps DEF IInv, AtEnd, Owned
<1> QED
  BY <1>3, <1>4

(* The other steps leave the iterator alone, or only its owner.             *)
LEMMA OthersKeep ==
  IInv /\ (Remove \/ Finalize \/ (\E o \in Object : Change(o)) \/ UNCHANGED vars) => IInv'
<1> SUFFICES ASSUME IInv,
                    Remove \/ Finalize \/ (\E o \in Object : Change(o)) \/ UNCHANGED vars
             PROVE  IInv'
  OBVIOUS
<1> USE ConstantsAssumption DEF IInv, TypeOK, Object, NotYet, Behind, AtEnd, Owned, iterator
<1>1. CASE Remove
  BY <1>1 DEF Remove, none
<1>2. CASE Finalize
  BY <1>2 DEF Finalize, Freed
<1>3. CASE \E o \in Object : Change(o)
  BY <1>3 DEF Change
<1>4. CASE UNCHANGED vars
  BY <1>4 DEF vars
<1> QED
  BY <1>1, <1>2, <1>3, <1>4

LEMMA Invariance == Spec => []IInv
<1>1. IInv /\ [Next]_vars => IInv'
  BY HasNextKeeps, NextObjectKeeps, OthersKeep DEF Next
<1> QED
  BY InitHolds, <1>1, PTL DEF Spec

(* Every object is returned at most once, and one that was in the table all *)
(* the time exactly once, if no call failed (TableIterator.java:110-114).   *)
THEOREM ReturnedOnceAlways == Spec => []ReturnedOnce
<1>1. IInv => ReturnedOnce
  BY DEF IInv, TypeOK, Behind, AtEnd, ReturnedOnce
<1> QED
  BY <1>1, Invariance, PTL

(* hasNext(), next(), remove() and finalize() in any order, with calls that *)
(* fail or not, free the C++ enumerator once and never use it afterwards.   *)
THEOREM FreedOnceAlways == Spec => []FreedOnce
<1>1. IInv => FreedOnce
  BY DEF IInv, Owned, FreedOnce
<1> QED
  BY <1>1, Invariance, PTL

(* Type correctness: an iterator that is done has no pointer and no blob.   *)
THEOREM TypeCorrect == Spec => []TypeOK
<1>1. IInv => TypeOK
  BY DEF IInv
<1> QED
  BY <1>1, Invariance, PTL
=============================================================================
