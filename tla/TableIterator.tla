---------------------------- MODULE TableIterator ----------------------------
(***************************************************************************)
(* TableIterator.java with its JNI half: one Java iterator over a table,   *)
(* on top of a C++ TableEnumerator that it owns and must free once.  The   *)
(* objects come in blobs, each a call to the server; between the calls     *)
(* other clients go on changing the table.                                 *)
(*                                                                         *)
(* Objects are known by their place in the order of key hashes, in which   *)
(* the servers enumerate.  A blob holds the objects of the next stretch of *)
(* hashes that has any, as they are at that time.  A step is one call of   *)
(* the iterator's user, or a change to the table by another client.        *)
(***************************************************************************)
EXTENDS Integers, FiniteSets

CONSTANTS
  NumHashes,    \* objects have the hashes 1 .. NumHashes
  MaxChange,    \* bound: changes to the table by other clients
  MayFail       \* may the call to the server fail?

ASSUME ConstantsAssumption ==
  NumHashes \in Nat /\ MaxChange \in Nat /\ MayFail \in BOOLEAN

VARIABLES
  table,       \* the objects that exist
  position,    \* how far the enumerator has come
  enumerator,  \* the C++ object: live, freed, or used when it was freed
  pointer,     \* does tableEnumeratorPointer point to it, or is it -1?
  objectBlob,  \* what remains of the blob, empty if there is none
  done, last,  \* as in the source: last is none or an object
  collected,   \* has the iterator been garbage collected?
  changes,     \* changes so far
  throughout,  \* the objects that have existed from the beginning
  returned,    \* how often next() has returned each object
  failed       \* has a call to the server failed?

vars == <<table, position, enumerator, pointer, objectBlob, done, last,
          collected, changes, throughout, returned, failed>>
iterator == <<position, enumerator, pointer, objectBlob, done, failed>>

Object == 1 .. NumHashes
none == 0

Init ==
  /\ table \in SUBSET Object /\ throughout = table
  /\ position = 0 /\ enumerator = "live" /\ pointer = TRUE
  /\ objectBlob = {} /\ done = FALSE /\ last = none
  /\ collected = FALSE /\ changes = 0
  /\ returned = [o \in Object |-> 0]
  /\ failed = FALSE

-----------------------------------------------------------------------------
(* The enumerator goes on to some hash with at least one object before it,  *)
(* and answers NULL if there are no more objects.                           *)
Ahead == {o \in table : o > position}
Stretches == {[position |-> e, blob |-> {o \in Ahead : o <= e}] : e \in Object}

(* nextObjectBlob(): an exception is swallowed, and leaves NULL as well.    *)
Blobs ==
  {s \in Stretches : s.blob # {}} \cup
  (IF Ahead = {} \/ MayFail THEN {[position |-> position, blob |-> {}]} ELSE {})

(* retrieveBatch() calls C++ only with nothing in hand, and not after NULL.  *)
CallsAlways == ~done              \* mutant: the rest of the blob is forgotten
CallsAgain == objectBlob = {}     \* mutant: NULL is asked for again
Calls == ~done /\ objectBlob = {}

Retrieved ==
  IF Calls
    THEN {[position |-> b.position, blob |-> b.blob, done |-> b.blob = {},
           failed |-> failed \/ (b.blob = {} /\ Ahead # {})] : b \in Blobs}
    ELSE {[position |-> position, blob |-> objectBlob, done |-> done, failed |-> failed]}

KeepsPointing(r) == pointer       \* mutant: the pointer is not set to -1
StillPoints(r) == pointer /\ ~r.done

Freed(e) == IF e = "live" THEN "freed" ELSE "misused"

(* What retrieveBatch() leaves, but for the objects next() takes out.       *)
Retrieve(r) ==
  /\ position' = r.position /\ done' = r.done /\ failed' = r.failed
  /\ pointer' = StillPoints(r)
  /\ enumerator' = IF ~Calls THEN enumerator
                   ELSE IF r.done \/ enumerator # "live" THEN Freed(enumerator) ELSE "live"

(* hasNext() answers whether anything is left, and has fetched it then.      *)
HasNext ==
  /\ ~collected
  /\ \E r \in Retrieved : Retrieve(r) /\ objectBlob' = r.blob
  /\ UNCHANGED <<table, last, collected, changes, throughout, returned>>

(* next() returns an object of the blob, or null, which leaves last alone.  *)
NextObject ==
  /\ ~collected
  /\ \E r \in Retrieved :
       /\ Retrieve(r)
       /\ IF r.done
            THEN objectBlob' = r.blob /\ UNCHANGED <<last, returned>>
            ELSE \E o \in r.blob :
                   /\ objectBlob' = r.blob \ {o}
                   /\ last' = o
                   /\ returned' = [returned EXCEPT ![o] = @ + 1]
  /\ UNCHANGED <<table, collected, changes, throughout>>

(* remove() forgets what it removed, unless the server's answer throws.     *)
Remove ==
  /\ ~collected /\ last # none
  /\ \/ table' = table \ {last} /\ last' = none
     \/ MayFail /\ table' \in {table, table \ {last}} /\ UNCHANGED last
  /\ throughout' = throughout \cap table'
  /\ UNCHANGED <<iterator, collected, changes, returned>>

(* finalize(): the user has dropped the iterator.  It runs once, and nothing *)
(* is called after it: it leaves the pointer as it is.                      *)
Finalize ==
  /\ ~collected /\ collected' = TRUE
  /\ enumerator' = IF pointer THEN Freed(enumerator) ELSE enumerator
  /\ UNCHANGED <<table, position, pointer, objectBlob, done, last, changes,
                 throughout, returned, failed>>

(* Another client creates or deletes an object.                             *)
Change(o) ==
  /\ changes < MaxChange /\ changes' = changes + 1
  /\ table' = IF o \in table THEN table \ {o} ELSE table \cup {o}
  /\ throughout' = throughout \cap table'
  /\ UNCHANGED <<iterator, last, collected, returned>>

Next ==
  \/ HasNext \/ NextObject \/ Remove \/ Finalize
  \/ \E o \in Object : Change(o)

Spec == Init /\ [][Next]_vars

-----------------------------------------------------------------------------
(* Type invariant.  An iterator that is done has nothing left to give, and  *)
(* no pointer.                                                              *)
TypeOK ==
  /\ table \subseteq Object /\ throughout \subseteq table
  /\ position \in 0 .. NumHashes
  /\ enumerator \in {"live", "freed", "misused"}
  /\ done \in BOOLEAN /\ pointer = ~done /\ failed \in BOOLEAN
  /\ collected \in BOOLEAN
  /\ objectBlob \subseteq 1 .. position /\ (done => objectBlob = {})
  /\ last \in Object \cup {none}
  /\ changes \in 0 .. MaxChange
  /\ returned \in [Object -> Nat]

(* "each object that existed throughout the entire lifetime of the          *)
(* enumeration is guaranteed to be returned exactly once.  Objects that are *)
(* created after the enumeration starts, or that are deleted before the     *)
(* enumeration completes, will be returned either 0 or 1 time"              *)
(* (TableIterator.java:110-114), if no call to the server failed; no object *)
(* is ever returned twice.                                                  *)
ReturnedOnce ==
  /\ \A o \in Object : returned[o] <= 1
  /\ done /\ ~failed => \A o \in throughout : returned[o] = 1

(* The C++ enumerator is not used after it was freed, nor freed twice, and  *)
(* it is freed when the iterator is collected, however the enumeration      *)
(* ended.                                                                   *)
FreedOnce == enumerator # "misused" /\ (collected => enumerator = "freed")
=============================================================================
