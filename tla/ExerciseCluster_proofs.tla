----------------------- MODULE ExerciseCluster_proofs -----------------------
(***************************************************************************)
(* The exerciser keeps a contiguous range of at most six tables, whatever  *)
(* calls fail and whenever it is started again, a loss between two rounds  *)
(* does not escape it, and its complaints end when the faults do; for any  *)
(* limit of the search, and any number of faults.                          *)
(***************************************************************************)
EXTENDS ExerciseCluster, FiniteSetTheorems, TLAPS

USE BoundsAssumption DEF SettleRounds, MaxCalm

-----------------------------------------------------------------------------
(* The inductive invariant.                                                 *)

(* What the counters of a round say of each other.  The search ends below   *)
(* Limit, and a table is only made within five of the first.                *)
RoundInv ==
  /\ \A t \in tables : t <= Limit + 4
  /\ pc # "find" => first < Limit
  /\ pc \in {"scan", "read"} => first <= last /\ last <= Limit + 5
  /\ pc = "read" => last <= Limit + 4
  /\ pc = "drop" => numTables = last + 1 - first /\ last <= Limit + 4
  /\ pc \in {"create", "write"} => numTables = last - first /\ last <= Limit + 5
  /\ pc = "write" => Room

(* The tables are the n from a on; where there are none, a is 1, as for the *)
(* search.                                                                  *)
Span(a, n) == tables = a .. (a + n - 1) /\ n <= 6 /\ (n = 0 => a = 1)

(* What the round knows of them: first has not passed them, and then is the *)
(* oldest; last has not passed them either, and then is the next to make.   *)
Knows(a, n) ==
  /\ (pc = "find" /\ n > 0) => first <= a
  /\ pc = "scan" => first = a /\ last <= a + n
  /\ pc = "read" => first = a /\ last < a + n
  /\ pc = "drop" => first = a /\ numTables = n
  /\ pc = "create" => last = a + n /\ (Room => n <= 5)

SpanInv ==
  losses = 0 /\ InReach => \E a \in Nat \ {0}, n \in Nat : Span(a, n) /\ Knows(a, n)

(* A loss that is to be complained about: there is an expected table which  *)
(* the round has yet to see, or has complained about.                       *)
Unseen(e) == pc \in {"scan", "read"} => e < first \/ e >= last \/ alarm

OwedInv ==
  owed =>
    /\ pc \in {"idle", "find", "scan", "read"} /\ expectedLast > 0
    /\ \E e \in Max({expectedLast - 4, 1}) .. expectedLast : e \notin named /\ Unseen(e)

(* Of the rounds after the one in which the last fault fell: the tables     *)
(* made since have their objects, and the range that each was added to has  *)
(* no hole and holds five at most.                                          *)
FreshTables == tables \ left

FreshInv ==
  \A t \in FreshTables :
    /\ t \in named \/ (pc = "write" /\ t = New)
    /\ \A u \in tables : u <= t => t <= u + 4 /\ u .. t \subseteq tables

(* The first table that the round still finds, after it dropped one.        *)
Oldest == IF pc \in {"create", "write"} /\ Full THEN first + 1 ELSE first

(* What the round has found is so.  A sixth table in the range is one that  *)
(* was left behind.                                                         *)
FoundInv ==
  /\ pc # "idle" => \A t \in tables : Oldest <= t
  /\ pc \in {"scan", "read", "drop"} => tables = {} \/ first \in tables
  /\ pc \in {"scan", "read", "create", "write"} => Oldest .. (last - 1) \subseteq tables
  /\ pc = "read" => last \in tables
  /\ pc = "drop" => first .. last \subseteq tables /\ last + 1 \notin tables
  /\ pc = "create" => last \notin tables /\ (numTables > 5 => left # {})
  /\ pc = "write" => last \in tables
  /\ pc \in {"create", "write"} => \A t \in FreshTables : t <= last

(* When nothing that was left behind exists, the client expects what there  *)
(* is, and only complains of a range that is still growing.                 *)
Settled == calm = MaxCalm /\ left = {}

ExpectInv ==
  /\ Settled /\ pc \in {"idle", "find", "scan", "read", "drop"} /\ expectedLast > 0 =>
       expectedLast \in tables /\ \A t \in tables : t <= expectedLast
  /\ Settled /\ pc \in {"find", "scan", "read", "drop"} /\ alarm =>
       pc = "drop" /\ Growing

SettleInv ==
  /\ calm = 0 => left = tables
  /\ calm > 0 /\ InReach => FreshInv /\ FoundInv /\ ExpectInv

IInv == TypeOK /\ RoundInv /\ SpanInv /\ OwedInv /\ SettleInv

LEMMA MaxOfTwo ==
  ASSUME NEW a \in Int, NEW b \in Int
  PROVE  Max({a, b}) = IF a >= b THEN a ELSE b
<1> DEFINE m == IF a >= b THEN a ELSE b
<1>1. m \in {a, b} /\ \A y \in {a, b} : m >= y
  OBVIOUS
<1>2. \A x \in {a, b} : (\A y \in {a, b} : x >= y) => x = m
  OBVIOUS
<1> QED
  BY <1>1, <1>2 DEF Max

LEMMA MinOfTwo ==
  ASSUME NEW a \in Int, NEW b \in Int
  PROVE  Min({a, b}) = IF a <= b THEN a ELSE b
<1> DEFINE m == IF a <= b THEN a ELSE b
<1>1. m \in {a, b} /\ \A y \in {a, b} : m <= y
  OBVIOUS
<1>2. \A x \in {a, b} : (\A y \in {a, b} : x <= y) => x = m
  OBVIOUS
<1> QED
  BY <1>1, <1>2 DEF Min

LEMMA TableNumbers ==
  ASSUME TypeOK
  PROVE  /\ \A t \in tables : t \in Nat \ {0}
         /\ first \in Nat \ {0} /\ first <= Limit
         /\ last \in Nat /\ numTables \in Nat /\ losses \in Nat /\ fails \in Nat
         /\ expectedLast \in Nat /\ Limit \in Nat /\ Limit > 6
BY DEF TypeOK, Table

(* The counters of the faults stay within their bound.                      *)
LEMMA FaultTypes ==
  ASSUME TypeOK
  PROVE  /\ Calm => calm' \in 0 .. MaxCalm
         /\ Fail => fails' \in 0 .. MaxFault /\ losses' = losses /\ calm' \in 0 .. MaxCalm
         /\ Loss => losses' \in 0 .. MaxFault /\ fails' = fails /\ calm' \in 0 .. MaxCalm
                    /\ losses' # 0
         /\ Fail \/ Loss \/ Leave => left' \subseteq tables'
<1>1. calm \in 0 .. MaxCalm /\ fails \in 0 .. MaxFault /\ losses \in 0 .. MaxFault
  BY DEF TypeOK
<1>2. Min({calm + 1, MaxCalm}) \in 0 .. MaxCalm
  BY <1>1, MinOfTwo
<1> QED
  BY <1>1, <1>2 DEF Calm, Fail, Loss, Fault, Leave

-----------------------------------------------------------------------------
(* Types, and the counters of a round.                                      *)

LEMMA InitRound == Init => TypeOK /\ RoundInv
<1> SUFFICES ASSUME Init PROVE TypeOK /\ RoundInv
  OBVIOUS
<1>1. alarm \in BOOLEAN /\ owed \in BOOLEAN
  BY Zenon DEF Init
<1>2. TypeOK
  BY <1>1 DEF Init, TypeOK
<1>3. RoundInv
  BY DEF Init, RoundInv
<1> QED
  BY <1>2, <1>3

LEMMA SearchRound ==
  ASSUME TypeOK, RoundInv, StartRound \/ FindFirst \/ ScanTable \/ ReadName \/ EndScan
  PROVE  TypeOK' /\ RoundInv'
<1>1. CASE StartRound
  <2>1. alarm' \in BOOLEAN
    BY <1>1, Zenon DEF StartRound
  <2>2. TypeOK'
    BY <1>1, <2>1 DEF StartRound, TypeOK, cluster, watched
  <2>3. RoundInv'
    BY <1>1 DEF StartRound, RoundInv, cluster
  <2> QED
    BY <2>2, <2>3
<1>2. CASE FindFirst
  BY <1>2 DEF FindFirst, TypeOK, RoundInv, cluster, watched
<1>3. CASE ScanTable
  BY <1>3 DEF ScanTable, TypeOK, RoundInv, cluster, watched, Table
<1>5. CASE ReadName
  BY <1>5 DEF ReadName, TypeOK, RoundInv, cluster, watched, Table
<1>4. CASE EndScan
  <2>1. alarm' \in BOOLEAN /\ owed' \in BOOLEAN
    BY <1>4 DEF EndScan
  <2>2. TypeOK'
    BY <1>4, <2>1 DEF EndScan, TypeOK, RoundInv, cluster
  <2>3. RoundInv'
    <3>1. last \in Int /\ first \in Int
      BY TableNumbers
    <3> QED
      BY <1>4, <3>1 DEF EndScan, RoundInv, cluster
  <2> QED
    BY <2>2, <2>3
<1> QED
  BY <1>1, <1>2, <1>3, <1>4, <1>5

LEMMA ReadRound ==
  ASSUME TypeOK, RoundInv, ReadFails
  PROVE  TypeOK' /\ RoundInv'
<1>1. /\ pc = "read" /\ pc' = "scan" /\ last' = last + 1 /\ alarm' = TRUE
      /\ UNCHANGED <<tables, named, expectedLast, first, numTables, owed>>
  BY DEF ReadFails, cluster
<1>2. /\ fails' \in 0 .. MaxFault /\ losses' \in 0 .. MaxFault /\ calm' \in 0 .. MaxCalm
      /\ left' \subseteq tables'
  BY FaultTypes DEF ReadFails, TypeOK
<1>3. last' \in 0 .. Limit + 7
  BY <1>1, TableNumbers DEF RoundInv
<1>4. alarm' \in BOOLEAN
  BY <1>1, Zenon
<1> QED
  BY <1>1, <1>2, <1>3, <1>4 DEF TypeOK, RoundInv

LEMMA DropRound ==
  ASSUME TypeOK, RoundInv, Drop \/ DropFails
  PROVE  TypeOK' /\ RoundInv'
<1>1. /\ pc = "drop" /\ pc' = "create" /\ last' = last + 1
      /\ tables' \subseteq tables /\ named' = named \cap tables'
      /\ UNCHANGED <<expectedLast, first, numTables, alarm, owed>>
  BY DEF Drop, DropFails, watched
<1>2. /\ fails' \in 0 .. MaxFault /\ losses' \in 0 .. MaxFault /\ calm' \in 0 .. MaxCalm
      /\ left' \subseteq tables'
  BY FaultTypes DEF Drop, DropFails, TypeOK
<1> QED
  BY <1>1, <1>2 DEF TypeOK, RoundInv

(* A table that is made is within five of the first.                        *)
LEMMA NewTable ==
  ASSUME TypeOK, RoundInv, pc \in {"create", "write"}, Room
  PROVE  New \in Table /\ New <= Limit + 4
BY DEF TypeOK, RoundInv, Room, New, Table

LEMMA CreateRound ==
  ASSUME TypeOK, RoundInv, Create \/ CreateFails
  PROVE  TypeOK' /\ RoundInv'
<1>1. /\ pc = "create" /\ UNCHANGED <<named, alarm, owed>>
      /\ tables' = tables \/ (tables' = tables \cup {New} /\ Room)
      /\ EndRound \/ (pc' = "write" /\ Room /\ UNCHANGED <<expectedLast, first, last, numTables>>)
  BY DEF Create, CreateFails
<1>2. /\ fails' \in 0 .. MaxFault /\ losses' \in 0 .. MaxFault /\ calm' \in 0 .. MaxCalm
      /\ left' \subseteq tables'
  BY FaultTypes DEF Create, CreateFails, TypeOK
<1>3. tables' \subseteq Table /\ tables \subseteq tables' /\ \A t \in tables' : t <= Limit + 4
  BY <1>1, NewTable DEF TypeOK, RoundInv
<1>4. CASE EndRound
  BY <1>1, <1>2, <1>3, <1>4 DEF TypeOK, RoundInv, EndRound, Idle
<1>5. CASE pc' = "write" /\ Room /\ UNCHANGED <<expectedLast, first, last, numTables>>
  BY <1>1, <1>2, <1>3, <1>5 DEF TypeOK, RoundInv, Room
<1> QED
  BY <1>1, <1>4, <1>5

LEMMA WriteRound ==
  ASSUME TypeOK, RoundInv, Write \/ WriteFails \/ WriteToLost
  PROVE  TypeOK' /\ RoundInv'
<1>1. /\ pc = "write" /\ EndRound /\ UNCHANGED <<tables, alarm, owed>>
      /\ named' \subseteq tables
  BY DEF Write, WriteFails, WriteToLost, cluster, watched, TypeOK
<1>2. /\ fails' \in 0 .. MaxFault /\ losses' \in 0 .. MaxFault /\ calm' \in 0 .. MaxCalm
      /\ left' \subseteq tables'
  BY FaultTypes DEF Write, WriteFails, WriteToLost, cluster, TypeOK
<1> QED
  BY <1>1, <1>2 DEF TypeOK, RoundInv, EndRound, Idle

LEMMA FaultRound ==
  ASSUME TypeOK, RoundInv, Restart \/ \E t \in tables : Lose(t)
  PROVE  TypeOK' /\ RoundInv'
<1>1. CASE Restart
  <2>1. /\ fails' \in 0 .. MaxFault /\ losses' \in 0 .. MaxFault /\ calm' \in 0 .. MaxCalm
        /\ left' \subseteq tables'
    BY <1>1, FaultTypes DEF Restart, TypeOK
  <2>2. alarm' \in BOOLEAN /\ owed' \in BOOLEAN
    BY <1>1, Zenon DEF Restart
  <2>3. TypeOK'
    BY <1>1, <2>1, <2>2 DEF Restart, Idle, cluster, TypeOK
  <2>4. RoundInv'
    BY <1>1 DEF Restart, Idle, cluster, RoundInv
  <2> QED
    BY <2>3, <2>4
<1>2. ASSUME NEW t \in tables, Lose(t) PROVE TypeOK' /\ RoundInv'
  <2>1. /\ tables' \subseteq tables /\ named' \subseteq tables'
        /\ UNCHANGED <<expectedLast, pc, first, last, numTables, alarm>>
        /\ owed' \in BOOLEAN
    BY <1>2 DEF Lose, TypeOK, AsExpected
  <2> QED
    BY <1>2, <2>1, FaultTypes DEF Lose, TypeOK, RoundInv, Room
<1> QED
  BY <1>1, <1>2

LEMMA NextRound == TypeOK /\ RoundInv /\ [Next]_vars => TypeOK' /\ RoundInv'
<1>1. TypeOK /\ RoundInv /\ UNCHANGED vars => TypeOK' /\ RoundInv'
  BY DEF vars, cluster, watched, TypeOK, RoundInv, Room
<1> QED
  BY <1>1, SearchRound, ReadRound, DropRound, CreateRound, WriteRound, FaultRound DEF Next, Round

-----------------------------------------------------------------------------
(* The range of tables.                                                     *)

(* A table that the search does not reach is never dropped.                 *)
LEMMA OutOfReach ==
  ASSUME TypeOK, RoundInv, Next, InReach', losses' = 0
  PROVE  InReach /\ losses = 0
<1>1. losses = 0 /\ \A t \in tables : ~Lose(t)
  BY FaultTypes DEF Next, Round, StartRound, FindFirst, ScanTable, ReadName, EndScan, Drop, Create, Write,
                    WriteToLost, ReadFails, DropFails, CreateFails, WriteFails, Restart, Lose, Fail, Fault, watched
<1>2. \A t \in tables : t \in tables' \/ (t = first /\ pc = "drop")
  BY <1>1 DEF Next, Round, StartRound, FindFirst, ScanTable, ReadName, EndScan, Drop, Create, Write,
              WriteToLost, ReadFails, DropFails, CreateFails, WriteFails, Restart, cluster
<1> QED
  BY <1>1, <1>2 DEF InReach, RoundInv

LEMMA FindSpan ==
  ASSUME TypeOK, RoundInv, InReach, NEW a \in Nat \ {0}, NEW n \in Nat, Span(a, n), Knows(a, n),
         StartRound \/ FindFirst
  PROVE  Span(a, n)' /\ Knows(a, n)'
<1>1. CASE StartRound
  BY <1>1, TableNumbers DEF StartRound, cluster, Span, Knows
<1>2. CASE FindFirst
  <2>1. n > 0 => a \in tables /\ a < Limit /\ first <= a
    BY <1>2 DEF FindFirst, Span, Knows, InReach
  <2>2. n = 0 => first \notin tables /\ a = 1
    BY TableNumbers DEF Span
  <2>3. first \in tables => first = a
    BY <2>1, <2>2, TableNumbers DEF Span
  <2>4. Span(a, n)' /\ pc' \in {"find", "scan"}
    BY <1>2 DEF FindFirst, cluster, Span
  <2>5. CASE first \in tables \/ first = Limit
    <3>1. pc' = "scan" /\ first' = a /\ last' = a
      BY <1>2, <2>1, <2>2, <2>3, <2>5, TableNumbers DEF FindFirst
    <3> QED
      BY <2>4, <3>1 DEF Knows
  <2>6. CASE ~(first \in tables \/ first = Limit)
    <3>1. pc' = "find" /\ first' = first + 1
      BY <1>2, <2>6 DEF FindFirst
    <3>2. n > 0 => first' <= a
      BY <2>1, <2>6, <3>1, TableNumbers
    <3> QED
      BY <2>4, <3>1, <3>2 DEF Knows
  <2> QED
    BY <2>5, <2>6
<1> QED
  BY <1>1, <1>2

LEMMA ScanSpan ==
  ASSUME TypeOK, RoundInv, NEW a \in Nat \ {0}, NEW n \in Nat, Span(a, n), Knows(a, n),
         ScanTable \/ ReadName \/ ReadFails \/ EndScan
  PROVE  Span(a, n)' /\ Knows(a, n)'
<1>1. first = a /\ last <= a + n /\ first <= last /\ last \in Nat
  BY TableNumbers DEF ScanTable, ReadName, ReadFails, EndScan, Knows, RoundInv
<1>4. CASE ReadName \/ ReadFails
  BY <1>1, <1>4 DEF ReadName, ReadFails, cluster, Span, Knows
<1>2. CASE ScanTable
  <2>1. last <= a + n - 1
    BY <1>2 DEF ScanTable, Span
  <2> QED
    BY <1>1, <1>2, <2>1 DEF ScanTable, cluster, Span, Knows
<1>3. CASE EndScan
  <2>1. last = a + n
    BY <1>1, <1>3 DEF EndScan, Span
  <2> QED
    BY <1>1, <1>3, <2>1 DEF EndScan, cluster, Span, Knows
<1> QED
  BY <1>2, <1>3, <1>4

(* With five tables or more the oldest goes, or stays where the call fails. *)
LEMMA DropSpan ==
  ASSUME TypeOK, RoundInv, NEW a \in Nat \ {0}, NEW n \in Nat, Span(a, n), Knows(a, n),
         Drop \/ DropFails
  PROVE  \E b \in Nat \ {0}, m \in Nat : Span(b, m)' /\ Knows(b, m)'
<1>1. /\ pc = "drop" /\ pc' = "create" /\ last' = last + 1 /\ UNCHANGED <<first, numTables>>
      /\ tables' = tables \/ (Full /\ tables' = tables \ {first})
  BY DEF Drop, DropFails
<1>2. first = a /\ numTables = n /\ last' = a + n
  BY <1>1, TableNumbers DEF Knows, RoundInv
<1>3. CASE tables' = tables
  <2>1. Span(a, n)' /\ Knows(a, n)'
    BY <1>1, <1>2, <1>3 DEF Span, Knows, Room
  <2> QED
    BY <2>1
<1>4. CASE Full /\ tables' = tables \ {first}
  <2>1. n >= 5 /\ n - 1 \in Nat /\ a + 1 \in Nat \ {0}
    BY <1>2, <1>4 DEF Full
  <2>2. tables' = (a + 1) .. ((a + 1) + (n - 1) - 1)
    BY <1>2, <1>4, <2>1 DEF Span
  <2>3. Span(a + 1, n - 1)' /\ Knows(a + 1, n - 1)'
    BY <1>1, <1>2, <2>1, <2>2 DEF Span, Knows, Room
  <2> QED
    BY <2>1, <2>3
<1> QED
  BY <1>1, <1>3, <1>4

(* With five tables or less the next one is made, if the call takes effect. *)
LEMMA CreateSpan ==
  ASSUME TypeOK, RoundInv, NEW a \in Nat \ {0}, NEW n \in Nat, Span(a, n), Knows(a, n),
         Create \/ CreateFails
  PROVE  \E b \in Nat \ {0}, m \in Nat : Span(b, m)' /\ Knows(b, m)'
<1>1. /\ pc = "create" /\ pc' \in {"write", "idle"}
      /\ tables' = tables \/ (Room /\ tables' = tables \cup {last})
  BY DEF Create, CreateFails, EndRound, Idle, New
<1>2. CASE tables' = tables
  <2>1. Span(a, n)' /\ Knows(a, n)'
    BY <1>1, <1>2 DEF Span, Knows
  <2> QED
    BY <2>1
<1>3. CASE Room /\ tables' = tables \cup {last}
  <2>1. last = a + n /\ n <= 5
    BY <1>1, <1>3 DEF Knows
  <2>2. tables' = a .. (a + (n + 1) - 1)
    BY <1>3, <2>1 DEF Span
  <2>3. Span(a, n + 1)' /\ Knows(a, n + 1)'
    BY <1>1, <2>1, <2>2 DEF Span, Knows
  <2> QED
    BY <2>3
<1> QED
  BY <1>1, <1>2, <1>3

LEMMA NextSpan ==
  ASSUME TypeOK, RoundInv, SpanInv, [Next]_vars
  PROVE  SpanInv'
<1>1. CASE UNCHANGED vars
  BY <1>1 DEF vars, cluster, watched, SpanInv, Span, Knows, InReach, Room
<1> SUFFICES ASSUME Next, losses' = 0, InReach'
             PROVE  \E a \in Nat \ {0}, n \in Nat : Span(a, n)' /\ Knows(a, n)'
  BY <1>1 DEF SpanInv
<1>2. losses = 0 /\ InReach
  BY OutOfReach
<1>3. PICK a \in Nat \ {0}, n \in Nat : Span(a, n) /\ Knows(a, n)
  BY <1>2 DEF SpanInv
<1>4. CASE StartRound \/ FindFirst \/ ScanTable \/ ReadName \/ ReadFails \/ EndScan
  BY <1>2, <1>3, <1>4, FindSpan, ScanSpan
<1>5. CASE Drop \/ DropFails \/ Create \/ CreateFails
  BY <1>3, <1>5, DropSpan, CreateSpan
<1>6. CASE Write \/ WriteFails \/ WriteToLost \/ Restart
  <2>1. tables' = tables /\ pc' = "idle"
    BY <1>6 DEF Write, WriteFails, WriteToLost, Restart, EndRound, Idle, cluster
  <2>2. Span(a, n)' /\ Knows(a, n)'
    BY <1>3, <2>1 DEF Span, Knows
  <2> QED
    BY <2>2
<1>7. ASSUME NEW t \in tables, Lose(t) PROVE FALSE
  BY <1>7, FaultTypes DEF Lose
<1> QED
  BY <1>4, <1>5, <1>6, <1>7 DEF Next, Round

-----------------------------------------------------------------------------
(* The complaint that is owed.                                              *)

(* Objects are only written at the end of a round.                          *)
LEMMA SearchOwed ==
  ASSUME TypeOK, OwedInv, owed,
         StartRound \/ FindFirst \/ ScanTable \/ ReadName \/ ReadFails
  PROVE  OwedInv'
<1>1. /\ UNCHANGED <<named, expectedLast, owed>>
      /\ pc' \in {"find", "scan", "read"} /\ expectedLast > 0
  BY DEF StartRound, FindFirst, ScanTable, ReadName, ReadFails, cluster, watched, OwedInv
<1>2. PICK e \in Max({expectedLast - 4, 1}) .. expectedLast : e \notin named /\ Unseen(e)
  BY DEF OwedInv
<1>3. e \in Int /\ first \in Nat /\ last \in Nat
  BY <1>2, TableNumbers
<1>4. Unseen(e)'
  <2>1. CASE StartRound
    BY <2>1 DEF StartRound, Unseen
  <2>2. CASE FindFirst
    BY <1>3, <2>2, TableNumbers DEF FindFirst, Unseen
  <2>3. CASE ScanTable
    BY <1>2, <2>3 DEF ScanTable, Unseen
  <2>4. CASE ReadName \/ ReadFails
    <3>1. pc = "read" /\ last' = last + 1 /\ first' = first
          /\ (alarm => alarm') /\ (last \notin named => alarm')
      BY <2>4 DEF ReadName, ReadFails
    <3> QED
      BY <1>2, <1>3, <3>1 DEF Unseen
  <2> QED
    BY <2>1, <2>2, <2>3, <2>4
<1> QED
  BY <1>1, <1>2, <1>4 DEF OwedInv

LEMMA LoseOwed ==
  ASSUME TypeOK, OwedInv, NEW t \in tables, Lose(t)
  PROVE  OwedInv'
<1>1. /\ named' = named \ {t} /\ UNCHANGED <<expectedLast, pc, first, last, alarm>>
      /\ owed' = (owed \/ AsExpected)
  BY DEF Lose
<1>2. CASE owed
  BY <1>1, <1>2 DEF OwedInv, Unseen
<1>3. CASE AsExpected
  <2>1. pc = "idle" /\ expectedLast > 0 /\ t \in Max({expectedLast - 4, 1}) .. expectedLast
    BY <1>3 DEF AsExpected
  <2>2. t \notin named' /\ Unseen(t)'
    BY <1>1, <2>1 DEF Unseen
  <2> QED
    BY <1>1, <2>1, <2>2 DEF OwedInv
<1>4. CASE ~owed /\ ~AsExpected
  BY <1>1, <1>4 DEF OwedInv
<1> QED
  BY <1>2, <1>3, <1>4

LEMMA NextOwed ==
  ASSUME TypeOK, OwedInv, [Next]_vars
  PROVE  OwedInv'
<1>1. CASE UNCHANGED vars
  BY <1>1 DEF vars, cluster, watched, OwedInv, Unseen
<1>2. CASE StartRound \/ FindFirst \/ ScanTable \/ ReadName \/ ReadFails
  <2>1. CASE owed
    BY <1>2, <2>1, SearchOwed
  <2>2. CASE ~owed
    BY <1>2, <2>2 DEF StartRound, FindFirst, ScanTable, ReadName, ReadFails, watched, OwedInv
  <2> QED
    BY <2>1, <2>2
<1>3. CASE EndScan \/ Restart
  BY <1>3 DEF EndScan, Restart, OwedInv
<1>4. CASE Drop \/ DropFails \/ Create \/ CreateFails \/ Write \/ WriteFails \/ WriteToLost
  <2>1. pc \in {"drop", "create", "write"} /\ owed' = owed
    BY <1>4 DEF Drop, DropFails, Create, CreateFails, Write, WriteFails, WriteToLost, watched
  <2> QED
    BY <2>1 DEF OwedInv
<1> QED
  BY <1>1, <1>2, <1>3, <1>4, LoseOwed DEF Next, Round

(* A round that has found what it expects has seen every expected table.    *)
LEMMA OwedIsPaid ==
  ASSUME TypeOK, OwedInv, owed, EndScan
  PROVE  alarm'
<1>1. PICK e \in Max({expectedLast - 4, 1}) .. expectedLast : e \notin named /\ Unseen(e)
  BY DEF OwedInv
<1>2. /\ pc = "scan" /\ last' = last - 1 /\ expectedLast > 0
      /\ alarm' = (alarm \/ Unexpected(first, last - 1))
  BY DEF EndScan, OwedInv
<1>3. CASE Unexpected(first, last - 1)
  BY <1>2, <1>3
<1>4. CASE ~Unexpected(first, last - 1)
  <2>1. last - 1 = expectedLast /\ first = Max({expectedLast - 4, 1})
    BY <1>2, <1>4 DEF Unexpected
  <2>2. ~(e < first) /\ ~(e >= last)
    BY <1>1, <2>1, TableNumbers
  <2> QED
    BY <1>1, <1>2, <2>2 DEF Unseen
<1> QED
  BY <1>3, <1>4

-----------------------------------------------------------------------------
(* The end of the complaints.                                               *)

LEMMA StartSettle ==
  ASSUME TypeOK, RoundInv, FreshInv, FoundInv, ExpectInv, StartRound
  PROVE  FreshInv' /\ FoundInv' /\ ExpectInv'
<1>1. /\ pc = "idle" /\ pc' = "find" /\ first' = 1 /\ ~alarm'
      /\ UNCHANGED <<tables, named, left, calm, expectedLast, last>>
  BY DEF StartRound, cluster, watched
<1>2. FreshInv'
  BY <1>1 DEF FreshInv, FreshTables
<1>3. FoundInv'
  BY <1>1, TableNumbers DEF FoundInv, Oldest
<1>4. ExpectInv'
  BY <1>1 DEF ExpectInv, Settled
<1> QED
  BY <1>2, <1>3, <1>4

LEMMA FindSettle ==
  ASSUME TypeOK, RoundInv, InReach, FreshInv, FoundInv, ExpectInv, FindFirst
  PROVE  FreshInv' /\ FoundInv' /\ ExpectInv'
<1>1. /\ pc = "find" /\ pc' \in {"find", "scan"}
      /\ UNCHANGED <<tables, named, left, calm, expectedLast, alarm>>
  BY DEF FindFirst, cluster, watched
<1>2. FreshInv'
  BY <1>1 DEF FreshInv, FreshTables
<1>3. \A t \in tables : first <= t /\ t < Limit /\ t \in Nat \ {0}
  BY <1>1, TableNumbers DEF FoundInv, Oldest, InReach
<1>4. FoundInv'
  <2>1. CASE first = Limit
    <3>1. tables = {} /\ pc' = "scan" /\ first' = 1 /\ last' = 1
      BY <1>3, <2>1, TableNumbers DEF FindFirst
    <3> QED
      BY <1>1, <3>1 DEF FoundInv, Oldest, FreshTables
  <2>2. CASE first \in tables /\ first # Limit
    <3>1. pc' = "scan" /\ first' = first /\ last' = first
      BY <2>2 DEF FindFirst
    <3> QED
      BY <1>1, <1>3, <2>2, <3>1, TableNumbers DEF FoundInv, Oldest
  <2>3. CASE first \notin tables /\ first # Limit
    <3>1. pc' = "find" /\ first' = first + 1
      BY <1>1, <2>3 DEF FindFirst
    <3> QED
      BY <1>1, <1>3, <2>3, <3>1, TableNumbers DEF FoundInv, Oldest
  <2> QED
    BY <2>1, <2>2, <2>3
<1>5. ExpectInv'
  BY <1>1 DEF ExpectInv, Settled
<1> QED
  BY <1>2, <1>4, <1>5

LEMMA ScanSettle ==
  ASSUME FreshInv, FoundInv, ExpectInv, ScanTable
  PROVE  FreshInv' /\ FoundInv' /\ ExpectInv'
<1>1. /\ pc = "scan" /\ pc' = "read" /\ last \in tables
      /\ UNCHANGED <<tables, named, left, calm, expectedLast, first, last, alarm>>
  BY DEF ScanTable, cluster, watched
<1> QED
  BY <1>1 DEF FreshInv, FreshTables, FoundInv, Oldest, ExpectInv, Settled

LEMMA ReadSettle ==
  ASSUME TypeOK, RoundInv, FreshInv, FoundInv, ExpectInv, ReadName
  PROVE  FreshInv' /\ FoundInv' /\ ExpectInv'
<1>1. /\ pc = "read" /\ pc' = "scan" /\ last \in tables /\ last' = last + 1
      /\ alarm' = (alarm \/ last \notin named)
      /\ UNCHANGED <<tables, named, left, calm, expectedLast, first>>
  BY DEF ReadName, FoundInv, cluster, watched
<1>2. FreshInv'
  BY <1>1 DEF FreshInv, FreshTables
<1>3. FoundInv'
  <2>1. first .. (last' - 1) \subseteq tables
    BY <1>1, TableNumbers DEF FoundInv, Oldest
  <2> QED
    BY <1>1, <2>1 DEF FoundInv, Oldest
<1>4. ExpectInv'
  <2>1. Settled => last \in named
    BY <1>1 DEF FreshInv, FreshTables, Settled
  <2> QED
    BY <1>1, <2>1 DEF ExpectInv, Settled
<1> QED
  BY <1>2, <1>3, <1>4

(* What a settled client finds is what it expects, or begins after table1   *)
(* and is not full.                                                         *)
LEMMA EndScanSettle ==
  ASSUME TypeOK, RoundInv, FreshInv, FoundInv, ExpectInv, EndScan
  PROVE  FreshInv' /\ FoundInv' /\ ExpectInv'
<1>1. /\ pc = "scan" /\ pc' = "drop" /\ last \notin tables /\ last' = last - 1
      /\ numTables' = last - first
      /\ alarm' = (alarm \/ Unexpected(first, last - 1))
      /\ UNCHANGED <<tables, named, left, calm, expectedLast, first>>
  BY DEF EndScan, cluster
<1>2. last \in Nat /\ first \in Nat \ {0} /\ first <= last /\ expectedLast \in Nat
  BY <1>1, TableNumbers DEF RoundInv
<1>3. FreshInv'
  BY <1>1 DEF FreshInv, FreshTables
<1>4. first .. (last - 1) \subseteq tables /\ \A t \in tables : first <= t
  BY <1>1 DEF FoundInv, Oldest
<1>5. FoundInv'
  <2>1. last' + 1 = last
    BY <1>1, <1>2
  <2> QED
    BY <1>1, <1>4, <2>1 DEF FoundInv, Oldest
<1>6. ASSUME Settled, Unexpected(first, last - 1) 
      PROVE  first > 1 /\ ~(last - first >= 5) /\ last - 1 = expectedLast
  <2>1. /\ expectedLast > 0 /\ expectedLast \in tables
        /\ \A t \in tables : t <= expectedLast
    BY <1>1, <1>6 DEF Unexpected, ExpectInv
  <2>2. /\ expectedLast \in FreshTables /\ first \in tables
        /\ first <= expectedLast
    BY <1>1, <1>4, <1>6, <2>1 DEF FoundInv, Settled, FreshTables
  <2>3. expectedLast <= first + 4 /\ first .. expectedLast \subseteq tables
    BY <2>2 DEF FreshInv
  <2>4. last - 1 = expectedLast
    <3>1. ~(last <= expectedLast)
      BY <1>1, <1>2, <2>3
    <3>2. last - 1 <= expectedLast
      <4>1. CASE last = first
        BY <1>2, <2>2, <4>1
      <4>2. CASE last # first
        <5>1. last - 1 \in tables
          BY <1>2, <1>4, <4>2
        <5> QED
          BY <2>1, <5>1
      <4> QED
        BY <4>1, <4>2
    <3> QED
      BY <1>2, <3>1, <3>2
  <2>5. first # Max({expectedLast - 4, 1})
    BY <1>6, <2>4 DEF Unexpected
  <2>6. first # (IF expectedLast - 4 >= 1 THEN expectedLast - 4 ELSE 1)
    <3>1. Max({expectedLast - 4, 1}) = IF expectedLast - 4 >= 1 THEN expectedLast - 4 ELSE 1
      BY <1>2, MaxOfTwo
    <3> QED
      BY <2>5, <3>1
  <2> QED
    BY <1>2, <2>3, <2>4, <2>6
<1>7. ExpectInv'
  <2>1. Settled' /\ alarm' => Growing'
    BY <1>1, <1>6 DEF ExpectInv, Settled, Growing, Full
  <2> QED
    BY <1>1, <2>1 DEF ExpectInv, Settled
<1> QED
  BY <1>3, <1>5, <1>7

(* The oldest of five goes.  The last of six was left behind, and stays.    *)
LEMMA DropSettle ==
  ASSUME TypeOK, RoundInv, FreshInv, FoundInv, Drop, calm > 0
  PROVE  FreshInv' /\ FoundInv' /\ ExpectInv'
<1>1. /\ pc = "drop" /\ pc' = "create" /\ last' = last + 1
      /\ tables' = IF Full THEN tables \ {first} ELSE tables
      /\ named' = named \cap tables' /\ left' = left \cap tables'
      /\ UNCHANGED <<calm, first, numTables>>
  BY DEF Drop, Leave
<1>2. last \in Nat /\ first \in Nat \ {0} /\ numTables = last + 1 - first
  BY <1>1, TableNumbers DEF RoundInv
<1>3. \A t \in tables : t \in Nat /\ first <= t
  BY <1>1, TableNumbers DEF FoundInv, Oldest
<1>4. FreshTables' \subseteq FreshTables /\ tables' \subseteq tables
      /\ \A t \in tables' : Oldest' <= t /\ t \in tables
  <2>1. CASE Full
    BY <1>1, <1>2, <1>3, <2>1 DEF FreshTables, Oldest, Full
  <2>2. CASE ~Full
    BY <1>1, <1>2, <1>3, <2>2 DEF FreshTables, Oldest, Full
  <2> QED
    BY <2>1, <2>2
<1>5. FreshInv'
  <2> SUFFICES ASSUME NEW t \in FreshTables'
               PROVE  /\ t \in named'
                      /\ \A u \in tables' : u <= t => t <= u + 4 /\ u .. t \subseteq tables'
    BY DEF FreshInv
  <2>1. t \in FreshTables /\ t \in tables'
    BY <1>4 DEF FreshTables
  <2>2. t \in named'
    BY <1>1, <2>1 DEF FreshInv
  <2>3. ASSUME NEW u \in tables', u <= t PROVE t <= u + 4 /\ u .. t \subseteq tables'
    <3>1. t <= u + 4 /\ u .. t \subseteq tables
      BY <1>4, <2>1, <2>3 DEF FreshInv
    <3>2. Full => first \notin u .. t
      BY <1>1, <1>2, <1>3, <1>4, <2>3
    <3> QED
      BY <1>1, <3>1, <3>2
  <2> QED
    BY <2>2, <2>3
<1>6. FoundInv'
  <2>1. first .. last \subseteq tables /\ last + 1 \notin tables
    BY <1>1 DEF FoundInv
  <2>2. last' \notin tables' /\ Oldest' .. (last' - 1) \subseteq tables'
    <3>1. CASE Full
      BY <1>1, <1>2, <2>1, <3>1 DEF Oldest, Full
    <3>2. CASE ~Full
      BY <1>1, <1>2, <2>1, <3>2 DEF Oldest, Full
    <3> QED
      BY <3>1, <3>2
  <2>3. numTables' > 5 => left' # {}
    <3> SUFFICES ASSUME numTables > 5 PROVE last \in left'
      BY <1>1
    <3>1. last \in tables /\ first \in tables /\ first + 5 <= last
      BY <1>2, <2>1
    <3>2. last \notin FreshTables
      BY <1>2, <3>1 DEF FreshInv
    <3> QED
      BY <1>1, <1>2, <3>1, <3>2 DEF FreshTables
  <2>4. \A t \in FreshTables' : t <= last'
    <3> SUFFICES ASSUME NEW t \in FreshTables', ~(t <= last + 1) PROVE FALSE
      BY <1>1
    <3>1. t \in FreshTables /\ first \in tables /\ first <= t /\ t \in Nat
      BY <1>1, <1>3, <1>4 DEF FoundInv, FreshTables
    <3>2. first .. t \subseteq tables
      BY <3>1 DEF FreshInv
    <3>3. first <= last + 1
      BY <1>2, TableNumbers
    <3> QED
      BY <1>2, <2>1, <3>1, <3>2, <3>3
  <2> QED
    BY <1>1, <1>4, <2>2, <2>3, <2>4 DEF FoundInv
<1>7. ExpectInv'
  BY <1>1 DEF ExpectInv
<1> QED
  BY <1>5, <1>6, <1>7

(* The table that is made ends the range, of five at most.                  *)
LEMMA MakeSettle ==
  ASSUME TypeOK, RoundInv, FreshInv, FoundInv, Create, Room, calm > 0
  PROVE  FreshInv' /\ FoundInv' /\ ExpectInv'
<1>1. /\ pc = "create" /\ pc' = "write" /\ tables' = tables \cup {last}
      /\ left' = left \cap tables' /\ named' = named
      /\ UNCHANGED <<calm, first, last, numTables>>
  BY DEF Create, New, Leave
<1>2. /\ last \in Nat /\ first \in Nat \ {0}
      /\ numTables = last - first /\ numTables \in Nat /\ numTables <= 5
  BY <1>1, TableNumbers DEF RoundInv, Room
<1>3. /\ last \notin tables /\ Oldest .. (last - 1) \subseteq tables
      /\ \A t \in tables : Oldest <= t /\ t \in Nat
      /\ \A t \in FreshTables : t <= last
  BY <1>1, TableNumbers DEF FoundInv
<1>4. Oldest' = Oldest /\ Oldest \in Nat /\ last <= Oldest + 4 /\ Oldest <= last
  BY <1>1, <1>2 DEF Oldest, Full
<1>5. left' = left /\ FreshTables' \subseteq FreshTables \cup {last}
  BY <1>1 DEF FreshTables, TypeOK
<1>6. FreshInv'
  <2> SUFFICES ASSUME NEW t \in FreshTables'
               PROVE  /\ t \in named \/ t = last
                      /\ \A u \in tables' : u <= t => t <= u + 4 /\ u .. t \subseteq tables'
    BY <1>1 DEF FreshInv, New
  <2>1. CASE t = last
    <3>1. \A u \in tables' : u <= last => last <= u + 4 /\ u .. last \subseteq tables'
      BY <1>1, <1>2, <1>3, <1>4
    <3> QED
      BY <2>1, <3>1
  <2>2. CASE t # last
    <3>1. t \in FreshTables /\ t \in tables /\ t < last /\ t \in Nat
      BY <1>2, <1>3, <1>5, <2>2 DEF FreshTables
    <3>2. t \in named
      BY <1>1, <3>1 DEF FreshInv
    <3>3. ASSUME NEW u \in tables', u <= t PROVE t <= u + 4 /\ u .. t \subseteq tables'
      <4>1. u \in tables
        BY <1>1, <1>2, <3>1, <3>3
      <4>2. t <= u + 4 /\ u .. t \subseteq tables
        BY <3>1, <3>3, <4>1 DEF FreshInv
      <4> QED
        BY <1>1, <4>2
    <3> QED
      BY <3>2, <3>3
  <2> QED
    BY <2>1, <2>2
<1>7. FoundInv'
  <2>1. \A t \in tables' : Oldest' <= t
    BY <1>1, <1>3, <1>4
  <2>2. \A t \in FreshTables' : t <= last
    BY <1>2, <1>3, <1>5
  <2> QED
    BY <1>1, <1>3, <1>4, <2>1, <2>2 DEF FoundInv
<1>8. ExpectInv'
  BY <1>1 DEF ExpectInv
<1> QED
  BY <1>6, <1>7, <1>8

(* With six tables none is made, and one was left behind.                   *)
LEMMA SkipSettle ==
  ASSUME TypeOK, FreshInv, FoundInv, Create, ~Room, calm > 0
  PROVE  FreshInv' /\ FoundInv' /\ ExpectInv'
<1>1. /\ pc = "create" /\ pc' = "idle"
      /\ tables' = tables /\ left' = left /\ named' = named
  BY DEF Create, EndRound, Idle, Leave, TypeOK
<1>2. left # {}
  BY <1>1, TableNumbers DEF FoundInv, Room
<1>3. FreshInv'
  BY <1>1 DEF FreshInv, FreshTables
<1>4. FoundInv' /\ ExpectInv'
  BY <1>1, <1>2 DEF FoundInv, ExpectInv, Settled
<1> QED
  BY <1>3, <1>4

LEMMA WriteSettle ==
  ASSUME TypeOK, FreshInv, FoundInv, Write
  PROVE  FreshInv' /\ FoundInv' /\ ExpectInv'
<1>1. /\ pc = "write" /\ pc' = "idle" /\ expectedLast' = last
      /\ named' = named \cup {last} /\ UNCHANGED <<tables, left>>
  BY DEF Write, New, EndRound, Idle
<1>2. FreshInv'
  BY <1>1 DEF FreshInv, FreshTables, New
<1>3. ExpectInv'
  BY <1>1 DEF FoundInv, FreshTables, ExpectInv, Settled
<1> QED
  BY <1>1, <1>2, <1>3 DEF FoundInv

(* The round in which a fault fell leaves its tables behind.                *)
LEMMA FirstSettle ==
  ASSUME TypeOK, left' = tables', pc' = "idle", Calm, calm = 0
  PROVE  FreshInv' /\ FoundInv' /\ ExpectInv'
<1>1. calm' = 1
  BY MinOfTwo DEF Calm
<1>2. FreshTables' = {}
  BY DEF FreshTables
<1> QED
  BY <1>1, <1>2 DEF FreshInv, FoundInv, ExpectInv, Settled

(* Without a fault, a table that the search does not reach is not dropped.  *)
LEMMA StillOutOfReach ==
  ASSUME TypeOK, RoundInv, Round, InReach'
  PROVE  InReach
<1>1. \A t \in tables : t \in tables' \/ (t = first /\ pc = "drop")
  BY DEF Round, StartRound, FindFirst, ScanTable, ReadName, EndScan, Drop, Create, Write, WriteToLost, cluster
<1> QED
  BY <1>1 DEF InReach, RoundInv

LEMMA FaultSettle ==
  ASSUME Fault
  PROVE  SettleInv'
BY DEF Fault, SettleInv

LEMMA RoundSettle ==
  ASSUME TypeOK, RoundInv, SettleInv, Round
  PROVE  SettleInv'
<1>1. CASE calm > 0
  <2>1. calm' > 0
    <3>1. calm \in Nat /\ Min({calm + 1, MaxCalm}) = IF calm + 1 <= MaxCalm THEN calm + 1 ELSE MaxCalm
      BY MinOfTwo DEF TypeOK
    <3> QED
      BY <1>1, <3>1 DEF Round, StartRound, FindFirst, ScanTable, ReadName, EndScan, Drop, Create, Write,
                        WriteToLost, Calm, watched
  <2> SUFFICES ASSUME InReach' PROVE FreshInv' /\ FoundInv' /\ ExpectInv'
    BY <2>1 DEF SettleInv
  <2>2. InReach /\ FreshInv /\ FoundInv /\ ExpectInv
    BY <1>1, StillOutOfReach DEF SettleInv
  <2>3. ~WriteToLost
    BY <2>2 DEF WriteToLost, New, FoundInv
  <2> QED
    BY <1>1, <2>2, <2>3, StartSettle, FindSettle, ScanSettle, ReadSettle, EndScanSettle, DropSettle, MakeSettle,
       SkipSettle, WriteSettle DEF Round
<1>2. CASE calm = 0
  <2>1. left = tables
    BY <1>2 DEF SettleInv
  <2>2. CASE StartRound \/ FindFirst \/ ScanTable \/ ReadName \/ EndScan
    BY <1>2, <2>1, <2>2 DEF StartRound, FindFirst, ScanTable, ReadName, EndScan, cluster, watched, SettleInv
  <2>3. CASE Drop
    BY <1>2, <2>3 DEF Drop, Leave, SettleInv
  <2>4. CASE Create
    <3>1. left' = tables'
      BY <1>2, <2>4 DEF Create, Leave
    <3>2. CASE Room
      BY <1>2, <2>4, <3>1, <3>2 DEF Create, SettleInv
    <3>3. CASE ~Room
      BY <1>2, <2>4, <3>1, <3>3, FirstSettle DEF Create, EndRound, Idle, SettleInv
    <3> QED
      BY <3>2, <3>3
  <2>5. CASE Write \/ WriteToLost
    <3>1. left' = tables' /\ pc' = "idle" /\ Calm
      BY <2>1, <2>5 DEF Write, WriteToLost, cluster, EndRound, Idle
    <3> QED
      BY <1>2, <3>1, FirstSettle DEF SettleInv
  <2> QED
    BY <2>2, <2>3, <2>4, <2>5 DEF Round
<1> QED
  BY <1>1, <1>2 DEF TypeOK

LEMMA NextSettle ==
  ASSUME TypeOK, RoundInv, SettleInv, [Next]_vars
  PROVE  SettleInv'
<1>1. CASE UNCHANGED vars
  <2>1. UNCHANGED <<tables, named, expectedLast, pc, first, last, numTables, alarm, calm, left>>
    BY <1>1 DEF vars
  <2>2. (FreshInv <=> FreshInv') /\ (InReach <=> InReach')
    BY <2>1 DEF FreshInv, FreshTables, New, InReach
  <2>3. FoundInv <=> FoundInv'
    BY <2>1 DEF FoundInv, FreshTables, Oldest, Full
  <2>4. ExpectInv <=> ExpectInv'
    BY <2>1 DEF ExpectInv, Settled, Growing, Full
  <2> QED
    BY <2>1, <2>2, <2>3, <2>4 DEF SettleInv
<1>2. CASE Round
  BY <1>2, RoundSettle
<1>3. CASE \/ ReadFails \/ DropFails \/ CreateFails \/ WriteFails \/ Restart
           \/ \E t \in tables : Lose(t)
  BY <1>3, FaultSettle DEF ReadFails, DropFails, CreateFails, WriteFails, Restart, Lose, Fail, Loss
<1> QED
  BY <1>1, <1>2, <1>3 DEF Next

-----------------------------------------------------------------------------
(* The theorems.                                                            *)

LEMMA InitIInv == Init => IInv
<1> SUFFICES ASSUME Init PROVE IInv
  OBVIOUS
<1>1. TypeOK /\ RoundInv /\ OwedInv
  BY InitRound DEF Init, OwedInv
<1>3. SettleInv
  BY DEF Init, SettleInv, FreshInv, FreshTables, FoundInv, ExpectInv
<1>2. Span(1, 0) /\ Knows(1, 0)
  BY DEF Init, Span, Knows
<1> QED
  BY <1>1, <1>2, <1>3 DEF IInv, SpanInv

THEOREM Invariance == Spec => []IInv
<1>1. IInv /\ [Next]_vars => IInv'
  BY NextRound, NextSpan, NextOwed, NextSettle DEF IInv
<1> QED
  BY <1>1, InitIInv, PTL DEF Spec

THEOREM TypeCorrect == Spec => []TypeOK
<1>1. IInv => TypeOK
  BY DEF IInv
<1> QED
  BY <1>1, Invariance, PTL

(* "At any given time a contiguous range of tables should exist"            *)
(* (RCClient.cc:49-50): calls that fail, with or without their effect, and  *)
(* programs that are started again leave no hole, and no more than six      *)
(* tables, as long as nothing is lost and the search reaches the range.     *)
THEOREM AlwaysContiguous == Spec => []Contiguous
<1>1. IInv => Contiguous
  <2> SUFFICES ASSUME IInv, losses = 0, InReach
               PROVE  /\ Cardinality(tables) <= 6
                      /\ \A t, u \in tables : t .. u \subseteq tables
    BY DEF Contiguous
  <2>1. PICK a \in Nat \ {0}, n \in Nat : Span(a, n)
    BY DEF IInv, SpanInv
  <2>2. tables = a .. (a + n - 1) /\ n <= 6
    BY <2>1 DEF Span
  <2>3. Cardinality(a .. (a + n - 1)) <= 6
    <3>1. Cardinality(a .. (a + n - 1)) = IF a > a + n - 1 THEN 0 ELSE (a + n - 1) - a + 1
      BY FS_Interval
    <3> QED
      BY <2>2, <3>1
  <2>4. \A t, u \in tables : t .. u \subseteq tables
    BY <2>2
  <2> QED
    BY <2>2, <2>3, <2>4
<1> QED
  BY <1>1, Invariance, PTL

(* A table or an object that is lost between two rounds, when the range was *)
(* as expected, is complained about by the next round that gets to its      *)
(* comparison, whatever else is lost meanwhile.                             *)
THEOREM LossesReported == Spec => LossReported
<1>1. IInv /\ [Next]_vars => [owed /\ EndScan => alarm']_vars
  BY OwedIsPaid DEF IInv
<1> QED
  BY <1>1, Invariance, PTL DEF Spec, LossReported

(* "*** Error: expected table%d..table%d" (RCClient.cc:116): complaints      *)
(* stop.  Once two rounds have ended since the last fault, a round          *)
(* complains only while a table exists that the first left behind, or while *)
(* a range that begins after table1 ends where it should but has fewer than *)
(* five tables; whatever was lost, and however many calls failed.           *)
THEOREM ComplaintsAlwaysStop == Spec => []ComplaintsStop
<1>1. IInv => ComplaintsStop
  <2> SUFFICES ASSUME IInv, pc = "drop", alarm, InReach, ~Unsettled PROVE FALSE
    BY DEF ComplaintsStop
  <2>1. calm = MaxCalm /\ left = {} /\ ~Growing
    BY DEF Unsettled, IInv, TypeOK
  <2> QED
    BY <2>1 DEF IInv, SettleInv, ExpectInv, Settled
<1> QED
  BY <1>1, Invariance, PTL
=============================================================================
