--------------------------- MODULE ExerciseCluster ---------------------------
(***************************************************************************)
(* RCClient.cc, exerciseCluster(): a client that is run while coordinators *)
(* crash.  It keeps a range of tables, each with one object, drops the     *)
(* oldest and makes a new one in every round, and complains when it does   *)
(* not find what it expects.                                               *)
(*                                                                         *)
(* A step is one call to the cluster with the computation that follows it. *)
(* A call that throws may have had its effect.  What the exerciser is      *)
(* there to detect, tables and objects that are lost, is a step too.       *)
(***************************************************************************)
EXTENDS Integers, FiniteSets, FiniteSetsExt

CONSTANTS
  Limit,      \* the search for the first table ends here: 1000
  MaxFault    \* bound: failed calls and restarts, and losses, together

ASSUME BoundsAssumption == Limit \in Nat /\ Limit > 6 /\ MaxFault \in Nat

VARIABLES
  tables,         \* the numbers of the tables that exist
  named,          \* those that have their object
  expectedLast,   \* as in the source: 0 is none
  pc,             \* where the client is in the round
  first, last, numTables,
  alarm,          \* has this round complained?
  fails, losses,  \* faults so far
  calm,           \* rounds that ended since the last fault, up to a bound
  left,           \* the tables that the round in which it fell left behind
  owed            \* must this round complain?

vars == <<tables, named, expectedLast, pc, first, last, numTables, alarm, fails, losses, calm, left, owed>>
cluster == <<tables, named>>
watched == <<fails, losses, calm, left, owed>>

Table == 1 .. Limit + 6
SettleRounds == 2
MaxCalm == SettleRounds

Init ==
  /\ tables = {} /\ named = {}
  /\ expectedLast = 0
  /\ pc = "idle" /\ first = 1 /\ last = 0 /\ numTables = 0
  /\ alarm = FALSE
  /\ fails = 0 /\ losses = 0 /\ calm = MaxCalm /\ left = {} /\ owed = FALSE

-----------------------------------------------------------------------------
StartRound ==
  /\ pc = "idle"
  /\ pc' = "find" /\ first' = 1 /\ alarm' = FALSE
  /\ UNCHANGED <<cluster, expectedLast, last, numTables, watched>>

(* Step 1: the first table that exists, or 1 if there is none below Limit.  *)
FindFirst ==
  /\ pc = "find"
  /\ LET found == IF first = Limit THEN 1 ELSE first
     IN  IF first \in tables \/ first = Limit
           THEN pc' = "scan" /\ first' = found /\ last' = found
           ELSE first' = first + 1 /\ UNCHANGED <<pc, last>>
  /\ UNCHANGED <<cluster, expectedLast, numTables, alarm, watched>>

(* Step 2: a table that exists is read, and complained about if it is       *)
(* without its object.                                                      *)
ScanTable ==
  /\ pc = "scan" /\ last \in tables
  /\ pc' = "read"
  /\ UNCHANGED <<cluster, expectedLast, first, last, numTables, alarm, watched>>

ReadName ==
  /\ pc = "read"
  /\ alarm' = (alarm \/ last \notin named)
  /\ last' = last + 1 /\ pc' = "scan"
  /\ UNCHANGED <<cluster, expectedLast, first, numTables, watched>>

(* Step 3: is the range f .. l the expected one?                            *)
LastUnexpected(f, l) == expectedLast > 0 /\ l # expectedLast   \* mutant
Unexpected(f, l) ==
  /\ expectedLast > 0
  /\ l # expectedLast \/ f # Max({expectedLast - 4, 1})

EndScan ==
  /\ pc = "scan" /\ last \notin tables
  /\ numTables' = last - first
  /\ last' = last - 1
  /\ alarm' = (alarm \/ Unexpected(first, last'))
  /\ pc' = "drop" /\ owed' = FALSE
  /\ UNCHANGED <<cluster, expectedLast, first, fails, losses, calm, left>>

(* The round in which a fault falls may have counted the tables before it:  *)
(* the one that it still makes need not join them, and is left behind too.  *)
Leave == left' = IF calm = 0 THEN tables' ELSE left \cap tables'

(* Step 4: with five tables or more, the oldest goes.                       *)
NeverFull == FALSE   \* mutant
Full == numTables >= 5

Drop ==
  /\ pc = "drop"
  /\ tables' = IF Full THEN tables \ {first} ELSE tables
  /\ named' = named \cap tables'
  /\ Leave
  /\ last' = last + 1 /\ pc' = "create"
  /\ UNCHANGED <<expectedLast, first, numTables, alarm, fails, losses, calm, owed>>

(* Mutants: a table that makes up for a failed one, and no bound.           *)
FullRoom == numTables < 5
AlwaysRoom == TRUE
Room == numTables <= 5

Idle == pc' = "idle" /\ first' = 1 /\ last' = 0 /\ numTables' = 0

EndRound == expectedLast' = last /\ Idle

Calm == calm' = Min({calm + 1, MaxCalm})

Created == expectedLast + 1   \* mutant: the table after the expected one
New == last

(* ... and with five or less, a new one is made.  expectedLast moves on in  *)
(* any case.                                                                *)
Create ==
  /\ pc = "create"
  /\ IF Room
       THEN /\ tables' = tables \cup {New}
            /\ pc' = "write" /\ UNCHANGED <<expectedLast, calm, first, last, numTables>>
       ELSE /\ EndRound /\ Calm /\ UNCHANGED tables
  /\ Leave
  /\ UNCHANGED <<named, alarm, fails, losses, owed>>

Write ==
  /\ pc = "write" /\ New \in tables
  /\ named' = named \cup {New}
  /\ EndRound /\ Calm
  /\ UNCHANGED <<tables, alarm, fails, losses, left, owed>>

-----------------------------------------------------------------------------
(* Faults.  A complaint is owed after a loss that hits a cluster which is   *)
(* as expected, between two rounds.                                         *)
Fault == fails + losses < MaxFault /\ calm' = 0 /\ left' = tables'
Fail == Fault /\ fails' = fails + 1 /\ UNCHANGED losses
Loss == Fault /\ losses' = losses + 1 /\ UNCHANGED fails

AsExpected ==
  /\ expectedLast > 0 /\ pc = "idle"
  /\ tables = Max({expectedLast - 4, 1}) .. expectedLast
  /\ expectedLast < Limit

(* A read ends with a ClientException, whatever there is: a complaint too.  *)
ReadFails ==
  /\ pc = "read"
  /\ alarm' = TRUE
  /\ last' = last + 1 /\ pc' = "scan"
  /\ UNCHANGED <<cluster, expectedLast, first, numTables, owed>>
  /\ Fail

(* The others do so having had their effect or not.                         *)
DropFails ==
  /\ pc = "drop" /\ Full
  /\ tables' \in {tables, tables \ {first}} /\ Fail /\ named' = named \cap tables'
  /\ last' = last + 1 /\ pc' = "create"
  /\ UNCHANGED <<expectedLast, first, numTables, alarm, owed>>

CreateFails ==
  /\ pc = "create" /\ Room
  /\ tables' \in {tables, tables \cup {New}} /\ Fail
  /\ EndRound
  /\ UNCHANGED <<named, alarm, owed>>

WriteFails ==
  /\ pc = "write"
  /\ named' \in {named, (named \cup {New}) \cap tables}
  /\ EndRound
  /\ UNCHANGED <<tables, alarm, owed>> /\ Fail

(* The table is lost, or its object, by the cluster.                        *)
Lose(t) ==
  /\ t \in tables
  /\ tables' \in {tables, tables \ {t}} /\ named' = named \ {t} /\ cluster' # cluster
  /\ Loss
  /\ owed' = (owed \/ AsExpected)
  /\ UNCHANGED <<expectedLast, pc, first, last, numTables, alarm>>

(* The write finds that its table is lost.                                  *)
WriteToLost ==
  /\ pc = "write" /\ New \notin tables
  /\ EndRound /\ Calm
  /\ UNCHANGED <<cluster, alarm, fails, losses, left, owed>>

(* Any other exception ends the program, which is then started again.       *)
Restart ==
  /\ expectedLast' = 0 /\ Idle /\ alarm' = FALSE /\ owed' = FALSE
  /\ UNCHANGED cluster /\ Fail

-----------------------------------------------------------------------------
Round ==
  \/ StartRound \/ FindFirst \/ ScanTable \/ ReadName \/ EndScan
  \/ Drop \/ Create \/ Write \/ WriteToLost

Next ==
  \/ Round
  \/ ReadFails \/ DropFails \/ CreateFails \/ WriteFails \/ Restart
  \/ \E t \in tables : Lose(t)

(* main() calls exerciseCluster() for ever.                                 *)
Spec == Init /\ [][Next]_vars
FairSpec == Spec /\ WF_vars(Round)

-----------------------------------------------------------------------------
TypeOK ==
  /\ tables \subseteq Table /\ named \subseteq tables
  /\ expectedLast \in 0 .. Limit + 6
  /\ pc \in {"idle", "find", "scan", "read", "drop", "create", "write"}
  /\ first \in 1 .. Limit /\ last \in 0 .. Limit + 7 /\ numTables \in 0 .. Limit + 6
  /\ alarm \in BOOLEAN /\ owed \in BOOLEAN
  /\ fails \in 0 .. MaxFault /\ losses \in 0 .. MaxFault /\ calm \in 0 .. MaxCalm
  /\ left \subseteq tables

InReach == \A t \in tables : t < Limit

(* "At any given time a contiguous range of tables should exist"            *)
(* (RCClient.cc:49-50), of no more than six: calls that fail, with or       *)
(* without their effect, and programs that are started again leave no hole, *)
(* as long as nothing is lost and the search still reaches the range.       *)
Contiguous ==
  losses = 0 /\ InReach =>
    /\ Cardinality(tables) <= 6
    /\ \A t, u \in tables : t .. u \subseteq tables

(* Complaints stop: once two rounds have ended since the last fault (a       *)
(* restart is one), a round complains only while a table exists that the    *)
(* first of them left behind, or while a range that begins after table1     *)
(* ends where it should but has fewer than five tables.  Neither lasts: the *)
(* tables move out of the range (MovesUp), and such a round adds a table.   *)
Growing == first > 1 /\ ~Full /\ last = expectedLast
Unsettled == calm < SettleRounds \/ left # {} \/ Growing
ComplaintsStop == pc = "drop" /\ alarm /\ InReach => Unsettled

(* What is lost between two rounds is reported by the next, whichever table *)
(* or object it is.                                                         *)
LossReported == [][owed /\ EndScan => alarm']_vars

(* "the existing range gradually moves up" (RCClient.cc:51-52): each table   *)
(* that the search reaches is dropped in the end, and there is a time when  *)
(* none of them is left.  What is beyond is left alone.                     *)
Reached == {t \in tables : t < Limit}
MovesUp == Reached # {} ~> Reached = {}
=============================================================================
