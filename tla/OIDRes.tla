------------------------------- MODULE OIDRes -------------------------------
(***************************************************************************)
(* oidres.py: clients reserve batches of object ids from one RAMCloud      *)
(* object, which holds the next id that nobody has reserved, and hand out  *)
(* the ids of their batch one by one.  There is no lock: a reservation is  *)
(* a read followed by a conditional write.  One that is refused because    *)
(* the object is there meanwhile is retried; one that is refused because of *)
(* the version ends next() with the NameError that handle_error makes of it.*)
(*                                                                         *)
(* A step is one call to the server with the local computation that        *)
(* follows it, except that delta, which next() evaluates once before the   *)
(* write and again after it, is read in two steps.                         *)
(***************************************************************************)
EXTENDS RAMCloud, FiniteSets

CONSTANTS
  Client,         \* the processes that share the reservation object
  Deltas,         \* the batch sizes clients may be configured with
  ChangeAt,       \* where in next() a client's delta may change
  IdSpace,        \* 2^64: pack() keeps 64 bits of next_avail
  MaxNext,        \* bound: reservations stop when next_avail would pass it
  MaxCrash        \* bound: how many times clients exit and restart

ASSUME DeltasAssumption == MaxNext \in Nat /\ Deltas \subseteq 1 .. MaxNext
ASSUME BoundsAssumption ==
  /\ IdSpace \in Nat /\ MaxNext < IdSpace
  /\ MaxCrash \in Nat
  /\ ChangeAt \subseteq {"idle", "read", "create", "update", "fill"}
ASSUME NoBodyAssumption == NoBody \notin Nat

VARIABLES
  obj,        \* the reservation object: its body is next_avail
  delta,      \* OIDRes.delta of each client
  reserved,   \* OIDRes._reserved of each client
  pc,         \* where each client is in next()
  seen,       \* next_avail and version, as next() last read them
  issued,     \* how many times each id has been returned by some next()
  crashes     \* exits so far

vars == <<obj, delta, reserved, pc, seen, issued, crashes>>

Id == 0 .. 2 * MaxNext   \* every id a client can come to hold

pack(n) == n % IdSpace

Init ==
  /\ obj = [ver |-> 0, body |-> NoBody]
  /\ delta \in [Client -> Deltas]
  /\ reserved = [c \in Client |-> {}]
  /\ pc = [c \in Client |-> "idle"]
  /\ seen = [c \in Client |-> [ver |-> 0, next |-> 0]]
  /\ issued = [i \in Id |-> 0]
  /\ crashes = 0

-----------------------------------------------------------------------------
Return(i) == issued' = [issued EXCEPT ![i] = @ + 1]

(* next() with ids left: pop() takes the end of a descending list, hence    *)
(* the least id.                                                            *)
Pop(c) ==
  /\ pc[c] = "idle"
  /\ \E i \in reserved[c] :
       /\ \A j \in reserved[c] : i <= j
       /\ reserved' = [reserved EXCEPT ![c] = @ \ {i}]
       /\ Return(i)
  /\ UNCHANGED <<obj, delta, pc, seen, crashes>>

(* next() with no ids left enters the retry loop. *)
StartReserving(c) ==
  /\ pc[c] = "idle" /\ reserved[c] = {}
  /\ pc' = [pc EXCEPT ![c] = "read"]
  /\ UNCHANGED <<obj, delta, reserved, seen, issued, crashes>>

(* Mutant: a missing object is not told apart from one that was read.       *)
ReadNextUnchecked(c) ==
  /\ pc[c] = "read"
  /\ seen' = [seen EXCEPT ![c] = [ver |-> obj.ver, next |-> obj.body]]
  /\ pc' = [pc EXCEPT ![c] = "update"]
  /\ UNCHANGED <<obj, delta, reserved, issued, crashes>>

ReadNext(c) ==
  /\ pc[c] = "read"
  /\ IF Accepts(MustExist, obj)
       THEN /\ seen' = [seen EXCEPT ![c] = [ver |-> obj.ver, next |-> obj.body]]
            /\ pc' = [pc EXCEPT ![c] = "update"]
       ELSE /\ seen' = [seen EXCEPT ![c] = [ver |-> 0, next |-> 0]]
            /\ pc' = [pc EXCEPT ![c] = "create"]
  /\ UNCHANGED <<obj, delta, reserved, issued, crashes>>

(* Mutant: a rejected write is sent again without another read.             *)
ReserveAgain(c, rr, caught) ==
  LET next == seen[c].next + delta[c]
  IN  /\ next <= MaxNext
      /\ IF Accepts(rr, obj)
           THEN obj' = Written(obj, pack(next)) /\ pc' = [pc EXCEPT ![c] = "fill"]
           ELSE UNCHANGED <<obj, pc>>
      /\ UNCHANGED <<delta, reserved, seen, issued, crashes>>

(* The conditional write; a rejected one is retried from the read if its    *)
(* exception is caught, and otherwise next() ends with it.                  *)
Reserve(c, rr, caught) ==
  LET next == seen[c].next + delta[c]
      st == Status(rr, obj)
  IN  /\ next <= MaxNext
      /\ IF st = "ok"
           THEN /\ obj' = Written(obj, pack(next))
                /\ pc' = [pc EXCEPT ![c] = "fill"]
           ELSE /\ pc' = [pc EXCEPT ![c] = IF Err(st) \in caught THEN "read" ELSE "idle"]
                /\ UNCHANGED obj
      /\ UNCHANGED <<delta, reserved, seen, issued, crashes>>

(* Mutant: the version is not compared.                                     *)
UpdateAnyVersion(c) == pc[c] = "update" /\ Reserve(c, MustExist, {"NoObjectError"})

Create(c) == pc[c] = "create" /\ Reserve(c, MustNotExist, {"ObjectExistsError"})
Update(c) ==
  /\ pc[c] = "update"
  /\ Reserve(c, Exactly(seen[c].ver), {"NoObjectError", "VersionError"})

(* Mutant: the range that is kept ends one id early.                        *)
FillShort(c) ==
  LET first == seen[c].next
  IN  /\ pc[c] = "fill"
      /\ reserved' = [reserved EXCEPT ![c] = (first + 1) .. (first + delta[c] - 2)]
      /\ Return(first)
      /\ pc' = [pc EXCEPT ![c] = "idle"]
      /\ UNCHANGED <<obj, delta, seen, crashes>>

(* After the loop: keep the rest of the batch, return its first id. *)
Fill(c) ==
  LET first == seen[c].next
  IN  /\ pc[c] = "fill"
      /\ reserved' = [reserved EXCEPT ![c] = (first + 1) .. (first + delta[c] - 1)]
      /\ Return(first)
      /\ pc' = [pc EXCEPT ![c] = "idle"]
      /\ UNCHANGED <<obj, delta, seen, crashes>>

(* "Subclasses are free to implement delta as a variable or property that  *)
(* changes over time."  With "fill" in ChangeAt it may change between the   *)
(* write and the range that is kept.                                        *)
ChangeDelta(c) ==
  /\ pc[c] \in ChangeAt
  /\ \E d \in Deltas : d # delta[c] /\ delta' = [delta EXCEPT ![c] = d]
  /\ UNCHANGED <<obj, reserved, pc, seen, issued, crashes>>

(* A client exits, gracefully or otherwise, and a new one takes its place:  *)
(* what it had reserved is lost.                                            *)
Restart(c) ==
  /\ crashes < MaxCrash
  /\ crashes' = crashes + 1
  /\ reserved' = [reserved EXCEPT ![c] = {}]
  /\ pc' = [pc EXCEPT ![c] = "idle"]
  /\ UNCHANGED <<obj, delta, seen, issued>>

Step(c) ==
  \/ Pop(c) \/ StartReserving(c) \/ ReadNext(c)
  \/ Create(c) \/ Update(c) \/ Fill(c)

Next == \E c \in Client : Step(c) \/ ChangeDelta(c) \/ Restart(c)

Spec == Init /\ [][Next]_vars

(* A client that called next() keeps running it. *)
FairSpec == Spec /\ \A c \in Client : WF_vars(pc[c] # "idle" /\ Step(c))

-----------------------------------------------------------------------------
TypeOK ==
  /\ obj \in [ver : Nat, body : Nat \cup {NoBody}]
  /\ delta \in [Client -> Deltas]
  /\ reserved \in [Client -> SUBSET Id]
  /\ pc \in [Client -> {"idle", "read", "create", "update", "fill"}]
  /\ seen \in [Client -> [ver : Nat, next : Nat]]
  /\ issued \in [Id -> Nat]
  /\ crashes \in 0 .. MaxCrash

(* "Once a batch of object IDs is reserved, none of those object IDs can   *)
(* ever be assigned again" (oidres.py:103-104): whatever the interleaving   *)
(* of reservations, no id is returned twice, by one client or by two.      *)
NoIdTwice == \A i \in Id : issued[i] <= 1

NextAvail == IF Exists(obj) THEN obj.body ELSE 0

(* The ids a client holds and has not returned yet.                         *)
Batch(c) ==
  reserved[c] \cup
  (IF pc[c] = "fill" THEN seen[c].next .. (seen[c].next + delta[c] - 1) ELSE {})

(* "Every time a client exits (gracefully or otherwise), it wastes up to    *)
(* delta object IDs" (oidres.py:104-106), and nothing else wastes any: a    *)
(* reserved id that was never returned and that no client holds was lost    *)
(* by an exit, and an exit loses at most one batch.                         *)
WasteBounded ==
  \A d \in Deltas : (\A e \in Deltas : e <= d) =>
    Cardinality({i \in 0 .. NextAvail - 1 :
                   issued[i] = 0 /\ \A c \in Client : i \notin Batch(c)})
      <= crashes * d

(* A call of next() ends, with an id or with the exception of a lost race,  *)
(* whatever other clients do to the reservation object meanwhile: as long   *)
(* as there are ids left to reserve, nobody is kept in the loop of next().  *)
NextEnds ==
  \A c \in Client :
    pc[c] # "idle" ~> pc[c] = "idle" \/ NextAvail + delta[c] > MaxNext
=============================================================================
