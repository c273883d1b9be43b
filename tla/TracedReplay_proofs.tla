------------------------- MODULE TracedReplay_proofs -------------------------
(***************************************************************************)
(* The load generator measures what it claims to, runs what it is asked to *)
(* run, and replays a trace up to the limits of its parser; the tracer     *)
(* writes traces of which the replay does what the workload did.  For any  *)
(* options, any workload of any number of records, sessions and crashes.   *)
(***************************************************************************)
EXTENDS TracedReplay, FiniteSetTheorems, SequenceTheorems, TLAPS

-----------------------------------------------------------------------------
(* The inductive invariant of the load generator.                           *)

(* Where a benchmark is under way, or has just ended.                       *)
AtBench == InBenchmark \/ pc = "benchDone"
Looping == AtBench \/ pc = "bench"

(* The drivers are different targets; names that nothing matches are found  *)
(* out before anything runs.                                                *)
LoopInv ==
  /\ options \in Options /\ trace \in Seq(Line)
  /\ \A i, j \in DOMAIN drivers : drivers[i] = drivers[j] => i = j
  /\ pc = "start" => drivers = <<>>
  /\ pc \in {"start", "setup"} => di = 1 /\ bj = 1
  /\ di <= Len(drivers) + 1 /\ bj \in 1 .. Len(options.benches) + 1
  /\ AtBench => di <= Len(drivers) /\ bj <= Len(options.benches)
  /\ Looping \/ di > 1 => \A i \in DOMAIN options.benches : Matches(options.benches[i]) # {}

(* What s has of the first n benchmarks that were looked up: each of them,  *)
(* and of any two the one that was named first is before the other, and so  *)
(* none is there twice.                                                     *)
Named(i) == gBenchmarks[Min(Matches(options.benches[i]))].name
InOrder(s, n) ==
  /\ ToSet(s) = {Named(i) : i \in 1 .. n}
  /\ \A a, b \in DOMAIN s :
       a < b => \E i \in 1 .. n : Named(i) = s[a] /\ \A j \in 1 .. i : Named(j) # s[b]

(* A target has run the names that were looked up for it, up to this one.   *)
NamesDone == IF AtBench THEN bj ELSE bj - 1

RanInv ==
  \A t \in Target :
    /\ ~Contains(drivers, t) => ran[t] = <<>>
    /\ \A i \in DOMAIN drivers : drivers[i] = t =>
         /\ i < di => InOrder(ran[t], Len(options.benches))
         /\ i = di /\ pc # "aborted" => InOrder(ran[t], NamesDone)
         /\ i > di => ran[t] = <<>>

(* What is accessed is what was filled, and the last size of several fills  *)
(* the most.                                                                *)
Smallest == 100
Most == 1333333

MeasureInv ==
  /\ pc \in {"read", "readDist", "write", "writeDist"} =>
       \A g \in Groups : g <= NumObjects(Param) => store[Driver][g] = Sent(Driver, Param.objSize)
  /\ pc = "benchDone" /\ Len(Entry.params) > 1 =>
       \A g \in Groups : g <= Most => store[Driver][g] = Sent(Driver, Smallest)

(* Of the first n lines, line i is the last to write k.                     *)
LastWrite(T, k, i, n) ==
  /\ i \in 1 .. n /\ T[i].key = k /\ T[i].op # "GET"
  /\ \A j \in i + 1 .. n : T[j].key = k => T[j].op = "GET"
Unwritten(T, k, n) == \A j \in 1 .. n : T[j].key = k => T[j].op = "GET"

(* The store is as the first n lines of the trace say, the keys of which    *)
(* are cut.                                                                 *)
Short(T) == [i \in DOMAIN T |-> [T[i] EXCEPT !.key = Prefix[@]]]

ReplayedTo(n) ==
  \A k \in TraceKey :
    \/ store[Driver][k] = found[Driver][k] /\ Unwritten(Short(trace), k, n)
    \/ \E i \in 1 .. n :
         LastWrite(Short(trace), k, i, n) /\ store[Driver][k] = Written(trace[i])

Readable(n) == \A j \in 1 .. n : trace[j].op # "bad"

ReplayInv ==
  /\ pc \notin {"exited", "aborted"} =>
       \A t \in Target : ~Contains(ran[t], "ycsbReplay") =>
         \A k \in TraceKey : store[t][k] = found[t][k]
  /\ AtBench => Contains(ran[Driver], Entry.name)
  /\ InBenchmark => (pc = "replay" <=> Entry.name = "ycsbReplay")
  /\ pc = "replay" => pi \in 1 .. Len(trace) + 1 /\ Readable(pi - 1) /\ ReplayedTo(pi - 1)
  /\ Replayed =>
       \E n \in 0 .. Len(trace) :
         Readable(n) /\ (n < Len(trace) => trace[n + 1].op = "bad") /\ ReplayedTo(n)

IInv ==
  TypeOK /\ LoopInv /\ RanInv /\ MeasureInv /\ ReplayInv /\ OnlyMeasuredTimes

-----------------------------------------------------------------------------
(* The inductive invariant of the tracer.                                   *)

(* A trace f says what the workload has put: m.  A key of a field is only   *)
(* written by updates, of something, and unless it was deleted since, the   *)
(* last one says what it has.                                               *)
Says(f, m) ==
  /\ \A j \in DOMAIN f :
       /\ f[j].op # "bad" /\ f[j].key \in Encoded
       /\ f[j].key \in EncKey => f[j].op = "GET" \/ (f[j].op = "UPDATE" /\ f[j].size > 0)
  /\ \A k \in EncKey :
       /\ m[k] = Never => Unwritten(f, k, Len(f))
       /\ m[k] # Never /\ m[k] # Gone =>
            m[k] > 0 /\ \E i \in DOMAIN f : LastWrite(f, k, i, Len(f)) /\ f[i].size = m[k]

(* What a GET says that the workload read is what was last written.         *)
ReadBack(f) ==
  \A j \in DOMAIN f : f[j].op = "GET" /\ f[j].size > 0 =>
    \E i \in 1 .. j - 1 :
      LastWrite(f, f[j].key, i, j - 1) /\ f[i].op = "UPDATE" /\ f[i].size = f[j].size

TracerInv ==
  /\ TracerTypeOK /\ KeysKnown
  /\ file \in Seq(Line) /\ opWriter \in Seq(Line)
  /\ session # "cut" => Says(file, kept) /\ ReadBack(file)
  /\ session = "open" => Says(file \o opWriter, asked) /\ ReadBack(file \o opWriter)

(* The load generator starts when the trace is there, and replays it.       *)
AllInv ==
  /\ IInv /\ TracerInv
  /\ invoked \in BOOLEAN
  /\ ~invoked => pc = "start"
  /\ invoked => trace = file /\ session # "open"

-----------------------------------------------------------------------------
(* The operators of the load generator.                                     *)

Size == [keyLength : {30}, objSize : Nat, dataSize : Nat, reads : Nat, writes : Nat]

(* What the lists of sizes of the table have in common.                     *)
Sizes(P) ==
  /\ P \in Seq(Size)
  /\ \A i \in DOMAIN P :
       /\ NumObjects(P[i]) \in Nat /\ NumObjects(P[i]) <= Most
       /\ NumObjects(P[i]) = Most => P[i].objSize = Smallest
  /\ Len(P) > 1 => NumObjects(P[1]) = Most /\ P[1].objSize = Smallest

MixOf(P, sizes, dataSize) ==
  /\ P \in Seq(Size) /\ Len(P) = Len(sizes) /\ DOMAIN P = 1 .. Len(sizes)
  /\ \A i \in 1 .. Len(sizes) :
       P[i].objSize = sizes[i] /\ NumObjects(P[i]) = dataSize \div (sizes[i] + 50)

LEMMA MixSizes ==
  ASSUME NEW sizes \in Seq(Nat), NEW dataSize \in Nat, NEW reads \in 0 .. 10
  PROVE  MixOf(Mix(sizes, dataSize, reads), sizes, dataSize)
<1> DEFINE P == Mix(sizes, dataSize, reads)
           r == (Operations * reads) \div 10
           w == (Operations * (10 - reads)) \div 10
<1>1. Operations * reads \in Nat /\ Operations * (10 - reads) \in Nat
  BY OperationsAssumption
<1>2. r \in Nat /\ w \in Nat
  BY <1>1
<1>3. \A i \in DOMAIN sizes : sizes[i] \in Nat
  OBVIOUS
<1> HIDE DEF r, w
<1>4. P = [i \in DOMAIN sizes |-> [keyLength |-> 30, objSize |-> sizes[i], dataSize |-> dataSize,
                                  reads |-> r, writes |-> w]]
  BY DEF Mix, r, w
<1>5. P \in [1 .. Len(sizes) -> Size]
  BY <1>2, <1>3, <1>4 DEF Size
<1>6. P \in Seq(Size) /\ Len(P) = Len(sizes) /\ DOMAIN P = 1 .. Len(sizes)
  BY <1>5
<1>7. ASSUME NEW i \in 1 .. Len(sizes)
      PROVE  P[i].objSize = sizes[i] /\ NumObjects(P[i]) = dataSize \div (sizes[i] + 50)
  <2>1. P[i].objSize = sizes[i] /\ P[i].keyLength = 30 /\ P[i].dataSize = dataSize
    BY <1>4
  <2>2. sizes[i] + 30 + 20 = sizes[i] + 50
    BY <1>3
  <2> QED
    BY <2>1, <2>2 DEF NumObjects
<1> QED
  BY <1>6, <1>7 DEF MixOf

LEMMA BasicSizes ==
  ASSUME NEW reads \in 0 .. 10
  PROVE  Sizes(Basic(reads)) /\ Len(Basic(reads)) = 5
<1> DEFINE P == Basic(reads)
<1>1. AllSizes \in Seq(Nat) /\ Len(AllSizes) = 5
  BY SMT DEF AllSizes
<1>2. 200000000 \in Nat
  BY SMT
<1>3. MixOf(P, AllSizes, 200000000)
  BY <1>1, <1>2, MixSizes, SMT DEF Basic
<1> HIDE DEF P
<1>4. P \in Seq(Size) /\ Len(P) = 5 /\ DOMAIN P = 1 .. 5
  BY <1>1, <1>3, SMT DEF MixOf
<1>5. \A i \in 1 .. 5 : NumObjects(P[i]) = 200000000 \div (AllSizes[i] + 50)
  BY <1>1, <1>3, SMT DEF MixOf
<1>6. NumObjects(P[1]) = Most
  BY <1>5, SMT DEF AllSizes, Most
<1>7. NumObjects(P[2]) = 190476
  BY <1>5, SMT DEF AllSizes
<1>8. NumObjects(P[3]) = 19900
  BY <1>5, SMT DEF AllSizes
<1>9. NumObjects(P[4]) = 1999
  BY <1>5, SMT DEF AllSizes
<1>10. NumObjects(P[5]) = 199
  BY <1>5, SMT DEF AllSizes
<1>11. P[1].objSize = Smallest
  BY <1>1, <1>3, SMT DEF MixOf, AllSizes, Smallest
<1>12. ASSUME NEW i \in 1 .. 5
       PROVE  /\ NumObjects(P[i]) \in Nat /\ NumObjects(P[i]) <= Most
              /\ NumObjects(P[i]) = Most => i = 1
  <2>1. i = 1 \/ i = 2 \/ i = 3 \/ i = 4 \/ i = 5
    BY SMT
  <2>2. NumObjects(P[i]) \in {Most, 190476, 19900, 1999, 199} /\ (NumObjects(P[i]) = Most => i = 1)
    BY <2>1, <1>6, <1>7, <1>8, <1>9, <1>10, SMT DEF Most
  <2> QED
    BY <2>2, SMT DEF Most
<1> QED
  BY <1>4, <1>6, <1>11, <1>12, SMT DEF Sizes, P

LEMMA OneSize ==
  ASSUME NEW size \in Nat, NEW dataSize \in Nat, NEW reads \in 0 .. 10,
         NEW n \in Nat, n < Most, dataSize \div (size + 50) = n
  PROVE  Sizes(Mix(<<size>>, dataSize, reads)) /\ Mix(<<size>>, dataSize, reads) # <<>>
<1> DEFINE P == Mix(<<size>>, dataSize, reads)
<1>1. <<size>> \in Seq(Nat) /\ Len(<<size>>) = 1 /\ <<size>>[1] = size
  OBVIOUS
<1>2. MixOf(P, <<size>>, dataSize)
  BY <1>1, MixSizes
<1> HIDE DEF P
<1>3. P \in Seq(Size) /\ Len(P) = 1 /\ DOMAIN P = 1 .. 1
  BY <1>1, <1>2 DEF MixOf
<1>4. NumObjects(P[1]) = n
  BY <1>1, <1>2 DEF MixOf
<1>5. n <= Most /\ n # Most
  BY SMT DEF Most
<1>6. P # <<>>
  <2>1. Len(<<>>) = 0
    OBVIOUS
  <2>2. Len(P) # 0
    BY <1>3
  <2> QED
    BY <2>1, <2>2, Zenon
<1>7. \A i \in DOMAIN P : NumObjects(P[i]) = n
  BY <1>3, <1>4
<1>8. Sizes(P)
  BY <1>3, <1>5, <1>7 DEF Sizes
<1> QED
  BY <1>6, <1>8 DEF P

LEMMA TableDomain == DOMAIN gBenchmarks = 1 .. 19 /\ DOMAIN gBenchmarks \subseteq Nat
<1>1. DOMAIN gBenchmarks = 1 .. 19
  BY SMT DEF gBenchmarks
<1> QED
  BY <1>1

(* The table: lists of sizes, and the replay is its first entry.            *)
LEMMA Table ==
  \A k \in DOMAIN gBenchmarks :
    /\ Sizes(gBenchmarks[k].params)
    /\ IF k = 1 THEN gBenchmarks[k].name = "ycsbReplay" /\ gBenchmarks[k].params = <<>>
       ELSE gBenchmarks[k].name # "ycsbReplay" /\ gBenchmarks[k].params # <<>>
<1> DEFINE Lists == {Basic(1), Basic(5), Basic(9), Small(1), Small(5), Small(9),
                     Large(1), Large(5), Large(9)}
<1>1. Sizes(<<>>)
  BY DEF Sizes
<1>2. \A r \in {1, 5, 9} : Sizes(Basic(r)) /\ Basic(r) # <<>>
  BY BasicSizes, SMT
<1>3. \A r \in {1, 5, 9} : Sizes(Small(r)) /\ Small(r) # <<>>
  <2>1. 20000000 \div (10 + 50) = 333333 /\ 20000000 \in Nat
    BY SMT
  <2>2. 333333 \in Nat /\ 333333 < Most
    BY SMT DEF Most
  <2> QED
    BY <2>1, <2>2, OneSize, SMT DEF Small
<1>4. \A r \in {1, 5, 9} : Sizes(Large(r)) /\ Large(r) # <<>>
  <2>1. 200000000 \div (1000000 + 50) = 199 /\ 200000000 \in Nat /\ 1000000 \in Nat
    BY SMT
  <2>2. 199 \in Nat /\ 199 < Most
    BY SMT DEF Most
  <2> QED
    BY <2>1, <2>2, OneSize, SMT DEF Large
<1>5. \A P \in Lists : Sizes(P) /\ P # <<>>
  BY <1>2, <1>3, <1>4
<1>7. /\ gBenchmarks[1].name = "ycsbReplay" /\ gBenchmarks[1].params = <<>>
  BY SMT DEF gBenchmarks
<1>8. \A k \in 2 .. 19 : gBenchmarks[k].params \in Lists
  BY SMT DEF gBenchmarks
<1>9. \A k \in 2 .. 19 : gBenchmarks[k].name # "ycsbReplay"
  BY SMT DEF gBenchmarks
<1>10. ASSUME NEW k \in 1 .. 19, k # 1
       PROVE  gBenchmarks[k].params \in Lists /\ gBenchmarks[k].name # "ycsbReplay"
  BY <1>8, <1>9, <1>10
<1> HIDE DEF Lists
<1> QED
  BY <1>1, <1>5, <1>7, <1>10, TableDomain

(* The number that Min picks is there, and the least.                       *)
LEMMA MinOfSet ==
  ASSUME NEW S, S \subseteq Nat, S # {}
  PROVE  Min(S) \in S /\ \A i \in S : Min(S) <= i
<1> DEFINE R == {ss \in Nat \X Nat : ss[1] < ss[2]}
<1>1. IsWellFoundedOn(R, Nat)
  BY NatLessThanWellFounded, Zenon DEF OpToRel
<1> HIDE DEF R
<1>2. PICK x \in S : \A y \in S : <<y, x>> \notin R
  BY <1>1, WFMin
<1>3. \A y \in S : x <= y
  <2> SUFFICES ASSUME NEW y \in S, ~(x <= y) PROVE FALSE
    OBVIOUS
  <2>1. x \in Nat /\ y \in Nat /\ y < x
    OBVIOUS
  <2>2. <<y, x>> \in R
    BY <2>1 DEF R
  <2> QED
    BY <1>2, <2>2
<1> QED
  BY <1>3 DEF Min

LEMMA Drivers ==
  /\ Target = {"ramcloud", "tachyon", "redis"}
  /\ \A s : s \in SeqOf(Target, 3) <=> s \in Seq(Target) /\ Len(s) <= 3
<1>1. Target = {"ramcloud", "tachyon", "redis"}
  <2>1. DOMAIN Targets = {1, 2, 3} /\ Targets[1] = "ramcloud" /\ Targets[2] = "tachyon" /\ Targets[3] = "redis"
    BY DEF Targets
  <2> QED
    BY <2>1 DEF Target, ToSet
<1>2. ASSUME NEW s, s \in SeqOf(Target, 3) PROVE s \in Seq(Target) /\ Len(s) <= 3
  <2>1. PICK m \in 0 .. 3 : s \in [1 .. m -> Target]
    BY <1>2 DEF SeqOf
  <2> QED
    BY <2>1
<1>3. ASSUME NEW s, s \in Seq(Target), Len(s) <= 3 PROVE s \in SeqOf(Target, 3)
  <2>1. Len(s) \in Nat /\ s \in [1 .. Len(s) -> Target]
    BY <1>3, LenProperties
  <2>2. Len(s) \in 0 .. 3
    BY <1>3, <2>1
  <2> QED
    BY <2>1, <2>2 DEF SeqOf
<1> QED
  BY <1>1, <1>2, <1>3

LEMMA GroupNumbers ==
  /\ Groups \subseteq Nat /\ Most \in Groups /\ Groups \cap TraceKey = {}
  /\ \A k \in DOMAIN gBenchmarks : \A i \in DOMAIN gBenchmarks[k].params :
       NumObjects(gBenchmarks[k].params[i]) \in Groups
<1>1. Groups \subseteq Nat
  <2> SUFFICES ASSUME NEW k \in DOMAIN gBenchmarks, NEW p \in ToSet(gBenchmarks[k].params), NEW b \in {0, 1}
               PROVE  NumObjects(p) + b \in Nat
    BY DEF Groups
  <2>1. NumObjects(p) \in Nat
    BY Table DEF Sizes, ToSet
  <2> QED
    BY <2>1
<1>2. ASSUME NEW k \in DOMAIN gBenchmarks, NEW i \in DOMAIN gBenchmarks[k].params
      PROVE  NumObjects(gBenchmarks[k].params[i]) \in Groups
  <2> DEFINE p == gBenchmarks[k].params[i]
  <2>1. NumObjects(p) \in Nat
    BY Table DEF Sizes
  <2>2. p \in ToSet(gBenchmarks[k].params)
    BY DEF ToSet
  <2>3. NumObjects(p) + 0 \in Groups
    BY <2>2 DEF Groups
  <2> QED
    BY <2>1, <2>3
<1>3. Most \in Groups
  <2> DEFINE P == Basic(5)
  <2>1. gBenchmarks[2].params = P
    BY DEF gBenchmarks
  <2>2. Sizes(P) /\ Len(P) = 5
    BY BasicSizes
  <2> HIDE DEF P
  <2>3. 1 \in DOMAIN P /\ NumObjects(P[1]) = Most
    BY <2>2 DEF Sizes
  <2>4. 2 \in DOMAIN gBenchmarks
    BY TableDomain
  <2> QED
    BY <2>1, <2>3, <2>4, <1>2
<1> QED
  BY <1>1, <1>2, <1>3, TraceAssumption

(* The entry that is run, and the size that is measured.                    *)
LEMMA EntryFound ==
  ASSUME LoopInv, Looping, NEW i \in 1 .. Len(options.benches)
  PROVE  \E k \in DOMAIN gBenchmarks :
           Min(Matches(options.benches[i])) = k /\ k \in Matches(options.benches[i])
<1>1. options.benches \in Seq(STRING)
  BY OptionsAssumption DEF LoopInv
<1>2. Matches(options.benches[i]) # {}
  BY <1>1 DEF LoopInv
<1>3. Matches(options.benches[i]) \subseteq DOMAIN gBenchmarks
  BY DEF Matches
<1>4. Matches(options.benches[i]) \subseteq Nat
  BY <1>3, TableDomain
<1> QED
  BY <1>2, <1>3, <1>4, MinOfSet

LEMMA EntryFacts ==
  ASSUME LoopInv, Looping, bj <= Len(options.benches)
  PROVE  /\ bj \in 1 .. Len(options.benches)
         /\ \E k \in DOMAIN gBenchmarks : Entry = gBenchmarks[k]
         /\ Sizes(Entry.params)
         /\ Entry.name # "ycsbReplay" <=> Entry.params # <<>>
<1>1. options.benches \in Seq(STRING)
  BY OptionsAssumption DEF LoopInv
<1>2. bj \in 1 .. Len(options.benches)
  BY <1>1 DEF LoopInv
<1>3. PICK k \in DOMAIN gBenchmarks : Min(Matches(options.benches[bj])) = k
  BY <1>2, EntryFound
<1>4. Entry = gBenchmarks[k]
  BY <1>3 DEF Entry
<1> QED
  BY <1>2, <1>4, Table

LEMMA ParamFacts ==
  ASSUME TypeOK, LoopInv, InBenchmark, pc # "replay"
  PROVE  /\ pi \in 1 .. Len(Entry.params) /\ Param \in Size
         /\ NumObjects(Param) \in Groups /\ NumObjects(Param) \in Nat /\ NumObjects(Param) <= Most
         /\ NumObjects(Param) = Most => Param.objSize = Smallest
         /\ pi = 1 /\ Len(Entry.params) > 1 => NumObjects(Param) = Most
<1>1. PICK k \in DOMAIN gBenchmarks : Entry = gBenchmarks[k]
  BY EntryFacts DEF LoopInv, Looping, AtBench
<1>2. Sizes(Entry.params)
  BY EntryFacts DEF LoopInv, Looping, AtBench
<1>3. pi \in DOMAIN Entry.params /\ Entry.params \in Seq(Size)
  BY <1>2 DEF TypeOK, Sizes
<1>4. NumObjects(Param) \in Groups
  BY <1>1, <1>3, GroupNumbers DEF Param
<1> QED
  BY <1>2, <1>3, <1>4 DEF Sizes, Param

LEMMA DriverFacts ==
  ASSUME TypeOK, LoopInv, AtBench
  PROVE  di \in 1 .. Len(drivers) /\ di \in DOMAIN drivers /\ Driver \in Target
<1>1. drivers \in Seq(Target)
  BY Drivers DEF TypeOK
<1> QED
  BY <1>1 DEF TypeOK, LoopInv, Driver

Held == Nat \cup {Nothing, Overrun}
Stores == [Target -> [Groups \cup TraceKey -> Held]]

LEMMA HeldSizes == \A n \in Nat : Value(n) \in Held /\ \A d : Sent(d, n) \in Held
  BY DEF Held, Value, Sent

LEMMA PutFacts ==
  ASSUME store \in Stores, NEW d \in Target, NEW K, NEW n \in Held
  PROVE  /\ Put(d, K, n) \in Stores
         /\ \A t \in Target : \A k \in Groups \cup TraceKey :
              Put(d, K, n)[t][k] = IF t = d /\ k \in K THEN n ELSE store[t][k]
<1> DEFINE f == [k \in DOMAIN store[d] |-> IF k \in K THEN n ELSE store[d][k]]
<1>1. store[d] \in [Groups \cup TraceKey -> Held]
  BY DEF Stores
<1>2. DOMAIN store[d] = Groups \cup TraceKey
  BY <1>1
<1>3. f \in [Groups \cup TraceKey -> Held] /\ \A k \in Groups \cup TraceKey : f[k] = IF k \in K THEN n ELSE store[d][k]
  BY <1>1, <1>2
<1>4. Put(d, K, n) = [store EXCEPT ![d] = f]
  BY DEF Put
<1> HIDE DEF f
<1>5. Put(d, K, n) \in Stores
  BY <1>1, <1>3, <1>4 DEF Stores
<1>6. ASSUME NEW t \in Target PROVE Put(d, K, n)[t] = IF t = d THEN f ELSE store[t]
  BY <1>1, <1>4 DEF Stores
<1> QED
  BY <1>3, <1>5, <1>6

-----------------------------------------------------------------------------
(* Types, and the loops over drivers and names.                             *)

LEMMA Typed ==
  ASSUME TypeOK, LoopInv
  PROVE  /\ drivers \in Seq(Target) /\ Len(drivers) \in 0 .. 3 /\ DOMAIN drivers = 1 .. Len(drivers)
         /\ options.benches \in Seq(STRING) /\ Len(options.benches) \in Nat
         /\ DOMAIN options.benches = 1 .. Len(options.benches)
         /\ store \in Stores /\ found \in Stores /\ trace \in Seq(Line) /\ Len(trace) \in Nat
         /\ di \in Nat /\ bj \in Nat /\ pi \in Nat
<1>1. options.benches \in Seq(STRING)
  BY OptionsAssumption DEF LoopInv
<1>2. drivers \in Seq(Target) /\ Len(drivers) <= 3
  BY Drivers DEF TypeOK
<1>3. Len(drivers) \in Nat /\ DOMAIN drivers = 1 .. Len(drivers)
  BY <1>2
<1>4. Len(options.benches) \in Nat /\ DOMAIN options.benches = 1 .. Len(options.benches)
  BY <1>1
<1>5. store \in Stores /\ found \in Stores /\ di \in 1 .. 4 /\ bj \in Nat /\ pi \in Nat
  BY DEF TypeOK, Stores, Contents, Held
<1>6. trace \in Seq(Line)
  BY DEF LoopInv
<1>7. Len(trace) \in Nat
  BY <1>6
<1> QED
  BY <1>1, <1>2, <1>3, <1>4, <1>5, <1>6, <1>7

LEMMA LoadInit == Init => TypeOK /\ LoopInv
<1> SUFFICES ASSUME Init PROVE TypeOK /\ LoopInv
  OBVIOUS
<1>1. drivers \in SeqOf(Target, 3) /\ Len(drivers) = 0 /\ DOMAIN drivers = {}
  <2>1. drivers \in Seq(Target) /\ Len(drivers) = 0 /\ DOMAIN drivers = {}
    BY DEF Init
  <2>2. Len(drivers) <= 3
    BY <2>1
  <2> QED
    BY <2>1, <2>2, Drivers, Zenon
<1>2. store \in [Target -> Contents] /\ found \in [Target -> Contents]
  BY LeftoversAssumption DEF Init
<1>3. ran \in [Target -> Seq({gBenchmarks[k].name : k \in DOMAIN gBenchmarks})]
  BY DEF Init
<1>4. TypeOK
  <2>1. /\ pc = "start" /\ di \in 1 .. 4 /\ bj \in Nat /\ pi \in Nat
        /\ times \in [size : Nat, set : Nat] /\ times.set <= times.size
    BY DEF Init
  <2>2. ~InBenchmark
    BY <2>1 DEF InBenchmark
  <2> QED
    BY <1>1, <1>2, <1>3, <2>1, <2>2 DEF TypeOK
<1>5. options \in Options /\ trace \in Seq(Line)
  BY TraceAssumption DEF Init
<1>6. Len(options.benches) \in Nat
  BY <1>5, OptionsAssumption
<1> QED
  BY <1>1, <1>4, <1>5, <1>6 DEF Init, LoopInv, AtBench, Looping, InBenchmark

(* The steps of main() that leave the loops alone.                          *)
LEMMA MainLoop ==
  ASSUME TypeOK, LoopInv, Start \/ CheckBenches \/ Exit \/ BenchesDone
  PROVE  TypeOK' /\ LoopInv'
<1>1. /\ UNCHANGED <<options, trace, found, drivers, di, bj, ran, pi, times>>
      /\ pc \in {"start", "setup", "exit", "bench"}
      /\ pc' \in {"exit", "setup", "bench", "exited", "aborted"}
      /\ pc' = "setup" => pc = "start"
      /\ pc' = "bench" => \A i \in DOMAIN options.benches : Matches(options.benches[i]) # {}
  BY DEF Start, CheckBenches, Exit, BenchesDone, given
<1>2. store' \in Stores
  <2>1. CASE store' = store
    BY <2>1, Typed
  <2>2. CASE Exit
    <3>1. Empty \in [Groups \cup TraceKey -> Held]
      BY DEF Empty, Held
    <3>2. PICK D : store' = [t \in Target |-> IF t \in D THEN Empty ELSE store[t]]
      BY <2>2 DEF Exit
    <3> QED
      BY <3>1, <3>2, Typed DEF Stores
  <2> QED
    BY <2>1, <2>2 DEF Start, CheckBenches, BenchesDone
<1>3. TypeOK'
  BY <1>1, <1>2 DEF TypeOK, Stores, Contents, Held, InBenchmark
<1> QED
  BY <1>1, <1>3 DEF LoopInv, AtBench, Looping, InBenchmark

LEMMA SetupLoop ==
  ASSUME TypeOK, LoopInv, SetupDriver
  PROVE  /\ TypeOK' /\ LoopInv'
         /\ UNCHANGED <<options, trace, found, store, di, bj, ran, pi, times>>
         /\ pc = "setup" /\ pc' \in {"setup", "exit", "aborted"}
         /\ \/ drivers' = drivers
            \/ \E t \in Target : ~Contains(drivers, t) /\ drivers' = Append(drivers, t)
<1> DEFINE S == {i \in DOMAIN Targets : Targets[i] \in Missing}
           t == Targets[Min(S)]
<1>0. drivers \in Seq(Target) /\ Len(drivers) \in 0 .. 3 /\ DOMAIN drivers = 1 .. Len(drivers)
  BY Typed
<1>1. S \subseteq Nat /\ S # {}
  <2>1. DOMAIN Targets = {1, 2, 3}
    BY DEF Targets
  <2>2. Missing # {} /\ Missing \subseteq Target
    BY DEF SetupDriver, Missing, Requested
  <2>3. \A x \in Target : \E i \in DOMAIN Targets : x = Targets[i]
    BY DEF Target, ToSet
  <2> QED
    BY <2>1, <2>2, <2>3
<1>2. t \in Target /\ t \notin ToSet(drivers)
  BY <1>1, MinOfSet DEF Missing, Requested
<1>3. /\ pc = "setup" /\ UNCHANGED <<options, trace, found, store, di, bj, ran, pi, times>>
      /\ \/ drivers' = Append(drivers, t) /\ pc' = pc
         \/ pc' \in {"exit", "aborted"} /\ drivers' = drivers
  BY DEF SetupDriver, given
<1> HIDE DEF S, t
<1>4. store' \in [Target -> Contents]
  BY <1>3 DEF TypeOK
<1>5. pc' \in {"setup", "exit", "aborted"}
  BY <1>3
<1>6. CASE drivers' = drivers
  <2>1. TypeOK'
    BY <1>3, <1>4, <1>5, <1>6 DEF TypeOK, InBenchmark
  <2> QED
    BY <1>3, <1>4, <1>5, <1>6, <2>1 DEF LoopInv, AtBench, Looping, InBenchmark
<1>7. CASE drivers' = Append(drivers, t)
  <2> DEFINE n == Len(drivers)
  <2>1. ~Contains(drivers, t)
    BY <1>2, Typed DEF Contains, ToSet
  <2>2. /\ drivers' \in Seq(Target) /\ Len(drivers') = n + 1 /\ DOMAIN drivers' = 1 .. n + 1
        /\ drivers'[n + 1] = t /\ \A i \in 1 .. n : drivers'[i] = drivers[i]
    BY <1>2, <1>7, Typed
  <2>3. \A i \in 1 .. n : drivers[i] # t
    BY <2>1 DEF Contains
  <2>4. \A i, j \in 1 .. n : drivers[i] = drivers[j] => i = j
    BY Typed DEF LoopInv
  <2>5. \A i, j \in DOMAIN drivers' : drivers'[i] = drivers'[j] => i = j
    <3>1. n \in Nat
      BY Typed
    <3>2. \A i \in DOMAIN drivers' : i \in 1 .. n \/ i = n + 1
      BY <2>2, <3>1
    <3> HIDE DEF n
    <3> SUFFICES ASSUME NEW i \in DOMAIN drivers', NEW j \in DOMAIN drivers', drivers'[i] = drivers'[j]
                 PROVE  i = j
      OBVIOUS
    <3>3. CASE i \in 1 .. n /\ j \in 1 .. n
      BY <2>2, <2>4, <3>3
    <3>4. CASE (i \in 1 .. n /\ j = n + 1) \/ (i = n + 1 /\ j \in 1 .. n)
      BY <2>2, <2>3, <3>4
    <3> QED
      BY <3>2, <3>3, <3>4
  <2>9. \A i \in 1 .. n : drivers[i] \in Target
    BY <1>0
  <2>6. Len(drivers') <= 3
    <3> SUFFICES ASSUME n = 3 PROVE FALSE
      BY <2>2, Typed
    <3>1. 1 \in 1 .. n /\ 2 \in 1 .. n /\ 3 \in 1 .. n
      OBVIOUS
    <3>2. /\ drivers[1] \in Target /\ drivers[2] \in Target /\ drivers[3] \in Target
          /\ drivers[1] # t /\ drivers[2] # t /\ drivers[3] # t
          /\ drivers[1] # drivers[2] /\ drivers[1] # drivers[3] /\ drivers[2] # drivers[3]
      BY <2>3, <2>4, <2>9, <3>1
    <3> QED
      BY <1>2, <3>2, Drivers
  <2>7. TypeOK'
    BY <1>3, <1>4, <1>5, <2>2, <2>6, Drivers DEF TypeOK, InBenchmark
  <2>8. LoopInv'
    BY <1>3, <1>5, <2>2, <2>5, Typed DEF LoopInv, AtBench, Looping, InBenchmark
  <2> QED
    BY <1>2, <1>3, <1>4, <1>5, <1>7, <2>1, <2>7, <2>8
<1> QED
  BY <1>3, <1>6, <1>7

LEMMA BenchLoop ==
  ASSUME TypeOK, LoopInv, NextBench \/ NextDriver
  PROVE  TypeOK' /\ LoopInv'
<1>1. /\ UNCHANGED <<options, trace, found, drivers, store, ran, pi, times>> /\ pc' = "bench"
      /\ pc \in {"bench", "benchDone"}
  BY DEF NextBench, NextDriver, given
<1>2. di' \in 1 .. 4 /\ bj' \in Nat /\ di' <= Len(drivers) + 1 /\ bj' \in 1 .. Len(options.benches) + 1
  <2>1. CASE NextBench
    <3>1. di' = di /\ bj' = bj + 1 /\ bj <= Len(options.benches)
      BY <2>1 DEF NextBench, LoopInv, AtBench
    <3> QED
      BY <3>1, Typed DEF TypeOK, LoopInv
  <2>2. CASE NextDriver
    <3>1. di' = di + 1 /\ bj' = 1 /\ di <= Len(drivers)
      BY <2>2 DEF NextDriver
    <3>2. di \in 1 .. 4
      BY DEF TypeOK
    <3>3. di' \in 1 .. 4 /\ di' <= Len(drivers) + 1
      BY <3>1, <3>2, Typed
    <3> QED
      BY <3>1, <3>3, Typed
  <2> QED
    BY <2>1, <2>2
<1>3. TypeOK'
  BY <1>1, <1>2 DEF TypeOK, InBenchmark
<1> QED
  BY <1>1, <1>2, <1>3 DEF LoopInv, AtBench, Looping, InBenchmark

LEMMA StartLoop ==
  ASSUME TypeOK, LoopInv, StartBench
  PROVE  /\ TypeOK' /\ LoopInv' /\ Entry' = Entry /\ Driver' = Driver /\ Driver \in Target
         /\ UNCHANGED <<options, trace, found, drivers, store, di, bj>>
         /\ AtBench' /\ pc = "bench" /\ pc' \in {"fill", "replay", "benchDone"}
         /\ Entry.name # "ycsbReplay" => pc' = "fill"
         /\ Entry.name = "ycsbReplay" =>
              (pc' = "replay" /\ pi' = 1) \/ (pc' = "benchDone" /\ pi' = 0)
<1>1. /\ pc = "bench" /\ di <= Len(drivers) /\ bj <= Len(options.benches)
      /\ UNCHANGED <<options, trace, found, drivers, store, di, bj>>
      /\ ran' = [ran EXCEPT ![Driver] = Append(@, Entry.name)]
      /\ IF Entry.name # "ycsbReplay" THEN pc' = "fill" /\ pi' = Len(Entry.params)
         ELSE (pc' = "replay" /\ pi' = 1) \/ (pc' = "benchDone" /\ pi' = 0)
      /\ times' = [size |-> 0, set |-> 0]
  BY DEF StartBench, given, LastSize
<1>2. Looping
  BY <1>1 DEF Looping
<1>3. Entry' = Entry /\ Driver' = Driver
  BY <1>1 DEF Entry, Driver
<1>4. pc' \in {"fill", "replay", "benchDone"} /\ AtBench'
  BY <1>1 DEF AtBench, InBenchmark
<1>5. pi' \in Nat /\ (InBenchmark' /\ pc' # "replay" => pi' \in DOMAIN Entry.params)
  <2>1. Entry.params \in Seq(Size) /\ (Entry.name # "ycsbReplay" => Entry.params # <<>>)
    BY <1>1, <1>2, EntryFacts DEF Sizes
  <2>2. Len(Entry.params) \in Nat /\ DOMAIN Entry.params = 1 .. Len(Entry.params)
    BY <2>1
  <2>3. Entry.params # <<>> => Len(Entry.params) # 0
    BY <2>1, EmptySeq
  <2>4. CASE Entry.name # "ycsbReplay"
    BY <1>1, <2>1, <2>2, <2>3, <2>4
  <2>5. CASE Entry.name = "ycsbReplay"
    BY <1>1, <2>5 DEF InBenchmark
  <2> QED
    BY <2>4, <2>5
<1>6. Driver \in Target
  <2>1. di \in 1 .. 4
    BY DEF TypeOK
  <2>2. di \in 1 .. Len(drivers)
    BY <1>1, <2>1, Typed
  <2> QED
    BY <2>2, Typed DEF Driver
<1>7. ran' \in [Target -> Seq({gBenchmarks[k].name : k \in DOMAIN gBenchmarks})]
  <2>1. Entry.name \in {gBenchmarks[k].name : k \in DOMAIN gBenchmarks}
    BY <1>1, <1>2, EntryFacts
  <2>2. ran \in [Target -> Seq({gBenchmarks[k].name : k \in DOMAIN gBenchmarks})]
    BY DEF TypeOK
  <2> DEFINE N == {gBenchmarks[k].name : k \in DOMAIN gBenchmarks}
  <2> HIDE DEF N
  <2>3. Entry.name \in N /\ ran \in [Target -> Seq(N)]
    BY <2>1, <2>2 DEF N
  <2>4. Append(ran[Driver], Entry.name) \in Seq(N)
    BY <1>6, <2>3
  <2>5. ran' \in [Target -> Seq(N)]
    BY <1>1, <2>3, <2>4
  <2> QED
    BY <2>5 DEF N
<1>8. TypeOK'
  <2>1. times' \in [size : Nat, set : Nat] /\ times'.set <= times'.size
    BY <1>1
  <2>2. InBenchmark' /\ pc' # "replay" => pi' \in DOMAIN Entry'.params
    BY <1>3, <1>5
  <2>3. pi' \in Nat
    BY <1>5
  <2> QED
    BY <1>1, <1>4, <1>7, <2>1, <2>2, <2>3 DEF TypeOK
<1>9. LoopInv'
  BY <1>1, <1>4 DEF LoopInv, Looping
<1> QED
  BY <1>1, <1>3, <1>4, <1>6, <1>8, <1>9

(* A step within a benchmark.                                               *)
LEMMA WithinLoop ==
  ASSUME TypeOK, LoopInv, AtBench, UNCHANGED <<options, trace, found, drivers, di, bj, ran>>,
         pc' \in {"fill", "read", "readDist", "write", "writeDist", "replay", "benchDone", "aborted"},
         store' \in Stores, times' \in [size : Nat, set : Nat], times'.set <= times'.size, pi' \in Nat,
         pc' \in {"fill", "read", "readDist", "write", "writeDist"} => pi' \in DOMAIN Entry.params
  PROVE  TypeOK' /\ LoopInv' /\ Entry' = Entry /\ Driver' = Driver
<1>1. Entry' = Entry /\ Driver' = Driver
  BY DEF Entry, Driver
<1>2. InBenchmark' /\ pc' # "replay" => pi' \in DOMAIN Entry'.params
  BY <1>1 DEF InBenchmark
<1>3. TypeOK'
  BY <1>2 DEF TypeOK, Stores, Contents, Held
<1>4. AtBench' => AtBench
  OBVIOUS
<1>5. pc' # "start" /\ pc' # "setup"
  OBVIOUS
<1>6. Looping
  BY DEF Looping
<1>7. LoopInv'
  BY <1>4, <1>5, <1>6 DEF LoopInv
<1> QED
  BY <1>1, <1>3, <1>7

Measures == FillData \/ Expired \/ ReadRandom \/ WriteRandom \/ LoopDone \/ GetDist

LEMMA MeasureLoop ==
  ASSUME TypeOK, LoopInv, Measures
  PROVE  /\ TypeOK' /\ LoopInv' /\ Entry' = Entry /\ Driver' = Driver
         /\ UNCHANGED <<options, trace, found, drivers, di, bj, ran>>
         /\ AtBench /\ InBenchmark /\ pc # "replay" /\ Param \in Size
         /\ pc' \in {"fill", "read", "readDist", "write", "writeDist", "benchDone", "aborted"}
<1>1. /\ UNCHANGED <<options, trace, found, drivers, di, bj, ran>>
      /\ pc \in {"fill", "read", "readDist", "write", "writeDist"}
  BY DEF Measures, FillData, Expired, ReadRandom, WriteRandom, LoopDone, GetDist, given
<1>2. InBenchmark /\ AtBench /\ pc # "replay"
  BY <1>1 DEF AtBench, InBenchmark
<1>3. /\ Param \in Size /\ pi \in 1 .. Len(Entry.params) /\ Driver \in Target /\ store \in Stores
      /\ DOMAIN Entry.params = 1 .. Len(Entry.params) /\ Len(Entry.params) \in Nat
  <2>1. Param \in Size /\ pi \in 1 .. Len(Entry.params)
    BY <1>2, ParamFacts
  <2>2. Entry.params \in Seq(Size)
    BY <1>2, EntryFacts DEF Sizes, LoopInv, Looping
  <2> QED
    BY <1>2, <2>1, <2>2, DriverFacts, Typed
<1>4. times \in [size : Nat, set : Nat] /\ times.set <= times.size
  BY DEF TypeOK
<1>5. Sent(Driver, Param.objSize) \in Held /\ Param.reads \in Nat /\ Param.writes \in Nat
  BY <1>3, HeldSizes DEF Size
<1>6. pc' \in {"fill", "read", "readDist", "write", "writeDist", "benchDone", "aborted"}
  <2>1. pc' \in {pc, "fill", "read", "readDist", "write", "writeDist", "benchDone", "aborted"}
    BY DEF Measures, FillData, Expired, ReadRandom, WriteRandom, LoopDone, GetDist
  <2> QED
    BY <1>1, <2>1
<1>7. store' \in Stores
  <2>1. CASE UNCHANGED store
    BY <1>3, <2>1
  <2>2. CASE FillData
    BY <1>3, <1>5, <2>2, PutFacts DEF FillData
  <2>3. CASE WriteRandom
    BY <1>3, <1>5, <2>3, PutFacts DEF WriteRandom
  <2> QED
    BY <2>1, <2>2, <2>3 DEF Measures, Expired, ReadRandom, LoopDone, GetDist
<1>8. times' \in [size : Nat, set : Nat] /\ times'.set <= times'.size
  <2>1. CASE UNCHANGED times
    BY <1>4, <2>1
  <2>2. CASE FillData
    BY <1>5, <2>2 DEF FillData
  <2>3. CASE Expired
    BY <1>4, <2>3 DEF Expired, Resized
  <2>4. CASE times.set < times.size /\ times' = [times EXCEPT !.set = @ + 1]
    BY <1>4, <2>4
  <2>5. CASE GetDist /\ times' = [size |-> Param.writes, set |-> 0]
    BY <1>5, <2>5
  <2> QED
    BY <2>1, <2>2, <2>3, <2>4, <2>5 DEF Measures, ReadRandom, WriteRandom, LoopDone, GetDist
<1>9. /\ pi' \in Nat
      /\ pc' \in {"fill", "read", "readDist", "write", "writeDist"} => pi' \in DOMAIN Entry.params
  <2>1. CASE UNCHANGED pi
    BY <1>3, <2>1
  <2>2. CASE pi' = pi - 1 /\ pc' = IF pi = 1 THEN "benchDone" ELSE "fill"
    BY <1>3, <2>2
  <2> QED
    BY <2>1, <2>2 DEF Measures, FillData, Expired, ReadRandom, WriteRandom, LoopDone, GetDist
<1> QED
  BY <1>1, <1>2, <1>3, <1>6, <1>7, <1>8, <1>9, WithinLoop

Replays == ReplayLine \/ ReplayDone

LEMMA ReplayLoop ==
  ASSUME TypeOK, LoopInv, pi # 0, Replays
  PROVE  /\ TypeOK' /\ LoopInv' /\ Entry' = Entry /\ Driver' = Driver
         /\ UNCHANGED <<options, trace, found, drivers, di, bj, ran>>
         /\ AtBench /\ pc = "replay" /\ pc' \in {"replay", "benchDone", "aborted"}
         /\ ReplayLine => trace[pi] \in Line /\ pi \in DOMAIN trace
<1>1. /\ UNCHANGED <<options, trace, found, drivers, di, bj, ran>> /\ pc = "replay"
      /\ pc' \in {"replay", "benchDone", "aborted"}
  <2>1. CASE ReplayLine
    BY <2>1 DEF ReplayLine, given
  <2>2. CASE ReplayDone
    BY <2>2 DEF ReplayDone, given
  <2> QED
    BY <2>1, <2>2 DEF Replays
<1>2. AtBench
  BY <1>1 DEF AtBench, InBenchmark
<1>3. ReplayLine => trace[pi] \in Line /\ pi \in DOMAIN trace
  <2>1. ReplayLine => pi <= Len(trace)
    BY DEF ReplayLine
  <2> QED
    BY <2>1, Typed
<1>4. store' \in Stores
  <2>1. CASE ReplayLine /\ store' = Put(Driver, {Prefix[trace[pi].key]}, Written(trace[pi]))
    <3>1. Written(trace[pi]) \in Held
      BY <1>3, <2>1, HeldSizes DEF Written, Line, Held
    <3> QED
      BY <1>2, <2>1, <3>1, DriverFacts, Typed, PutFacts
  <2> QED
    BY <2>1, Typed DEF Replays, ReplayLine, ReplayDone
<1>5. times' \in [size : Nat, set : Nat] /\ times'.set <= times'.size
  <2>1. times \in [size : Nat, set : Nat] /\ times.set <= times.size
    BY DEF TypeOK
  <2>2. \/ times' = times
        \/ times' = [size |-> times.size + 1, set |-> times.set + 1]
    BY DEF Replays, ReplayLine, ReplayDone
  <2> QED
    BY <2>1, <2>2
<1>6. pi' \in Nat
  <2>1. pi' = pi \/ pi' = pi + 1
    BY DEF Replays, ReplayLine, ReplayDone
  <2> QED
    BY <2>1, Typed
<1>7. TypeOK' /\ LoopInv' /\ Entry' = Entry /\ Driver' = Driver
  BY <1>1, <1>2, <1>4, <1>5, <1>6, WithinLoop
<1> QED
  BY <1>1, <1>2, <1>3, <1>7

LEMMA LoopStep ==
  ASSUME TypeOK, LoopInv, ReplayInv, [Next]_vars
  PROVE  TypeOK' /\ LoopInv'
<1>1. CASE Replays
  <2>1. pc = "replay"
    BY <1>1 DEF Replays, ReplayLine, ReplayDone
  <2>2. pi # 0
    BY <2>1, Typed DEF ReplayInv
  <2> QED
    BY <1>1, <2>2, ReplayLoop
<1>2. CASE UNCHANGED vars
  BY <1>2 DEF vars, given, TypeOK, LoopInv, AtBench, Looping, InBenchmark, Entry
<1> QED
  BY <1>1, <1>2, MainLoop, SetupLoop, BenchLoop, StartLoop, MeasureLoop
  DEF Next, Running, Finished, Measures, Replays

-----------------------------------------------------------------------------
(* What has run.                                                            *)

LEMMA NothingInOrder == InOrder(<<>>, 0)
<1>1. 1 .. 0 = {} /\ DOMAIN <<>> = {}
  OBVIOUS
<1>2. ToSet(<<>>) = {}
  BY <1>1 DEF ToSet
<1> QED
  BY <1>1, <1>2 DEF InOrder

LEMMA NextInOrder ==
  ASSUME NEW N, NEW s \in Seq(N), NEW n \in Nat, n > 0, InOrder(s, n - 1), Named(n) \in N
  PROVE  IF Contains(s, Named(n)) THEN InOrder(s, n) ELSE InOrder(Append(s, Named(n)), n)
<1> DEFINE e == Named(n)
           F(m) == {Named(i) : i \in 1 .. m}
<1>1. 1 .. n = (1 .. n - 1) \cup {n}
  OBVIOUS
<1>2. F(n) = F(n - 1) \cup {e}
  BY <1>1
<1>3. ToSet(s) = F(n - 1)
  BY DEF InOrder
<1>4. \A a, b \in DOMAIN s :
        a < b => \E i \in 1 .. n - 1 : Named(i) = s[a] /\ \A j \in 1 .. i : Named(j) # s[b]
  BY DEF InOrder
<1>5. Contains(s, e) <=> e \in F(n - 1)
  <2>1. DOMAIN s = 1 .. Len(s)
    OBVIOUS
  <2>2. Contains(s, e) <=> e \in ToSet(s)
    BY <2>1 DEF Contains, ToSet
  <2> QED
    BY <1>3, <2>2
<1>6. CASE Contains(s, e)
  <2>1. ToSet(s) = F(n)
    BY <1>2, <1>3, <1>5, <1>6
  <2> QED
    BY <1>1, <1>4, <1>6, <2>1 DEF InOrder
<1>7. CASE ~Contains(s, e)
  <2> DEFINE r == Append(s, e)
             l == Len(s)
  <2>1. /\ l \in Nat /\ DOMAIN s = 1 .. l /\ r \in Seq(N) /\ DOMAIN r = 1 .. l + 1
        /\ r[l + 1] = e /\ \A a \in 1 .. l : r[a] = s[a]
    OBVIOUS
  <2> HIDE DEF r, l, e
  <2>2. ToSet(r) = ToSet(s) \cup {e}
    <3>1. 1 .. l + 1 = (1 .. l) \cup {l + 1}
      BY <2>1
    <3> QED
      BY <2>1, <3>1 DEF ToSet
  <2>3. ToSet(r) = F(n)
    BY <1>2, <1>3, <2>2
  <2>4. ASSUME NEW a \in DOMAIN r, NEW b \in DOMAIN r, a < b
        PROVE  \E i \in 1 .. n : Named(i) = r[a] /\ \A j \in 1 .. i : Named(j) # r[b]
    <3>1. a \in 1 .. l /\ r[a] = s[a]
      BY <2>1, <2>4
    <3>2. CASE b \in 1 .. l
      <4>1. r[b] = s[b] /\ b \in DOMAIN s /\ a \in DOMAIN s
        BY <2>1, <3>1, <3>2
      <4>2. PICK i \in 1 .. n - 1 : Named(i) = s[a] /\ \A j \in 1 .. i : Named(j) # s[b]
        BY <1>4, <2>4, <4>1
      <4> QED
        BY <1>1, <3>1, <4>1, <4>2
    <3>3. CASE b = l + 1
      <4>1. s[a] \in ToSet(s)
        BY <2>1, <3>1 DEF ToSet
      <4>2. PICK i \in 1 .. n - 1 : s[a] = Named(i)
        BY <1>3, <4>1
      <4>3. \A j \in 1 .. i : Named(j) # e
        <5>1. \A j \in 1 .. i : j \in 1 .. n - 1
          OBVIOUS
        <5> QED
          BY <1>5, <1>7, <5>1
      <4> QED
        BY <1>1, <2>1, <3>1, <3>3, <4>2, <4>3
    <3> QED
      BY <2>1, <3>2, <3>3
  <2>5. InOrder(r, n)
    BY <2>3, <2>4 DEF InOrder
  <2> QED
    BY <1>7, <2>5 DEF r, e
<1> QED
  BY <1>6, <1>7

LEMMA RanKept ==
  ASSUME RanInv, UNCHANGED <<options, drivers, di, ran>>, pc # "aborted",
         NamesDone' = NamesDone \/ pc' = "aborted"
  PROVE  RanInv'
<1>1. \A t \in Target : InOrder(ran[t], Len(options.benches)) => InOrder(ran[t], Len(options.benches))'
  BY DEF InOrder, Named
<1>2. ASSUME NamesDone' = NamesDone, NEW t \in Target, InOrder(ran[t], NamesDone)
      PROVE  InOrder(ran[t], NamesDone)'
  BY <1>2 DEF InOrder, Named
<1> QED
  BY <1>1, <1>2 DEF RanInv

LEMMA RanSetup ==
  ASSUME TypeOK, LoopInv, RanInv, SetupDriver
  PROVE  RanInv'
<1>1. /\ UNCHANGED <<options, di, bj, ran>> /\ pc = "setup" /\ pc' \in {"setup", "exit", "aborted"}
      /\ di = 1 /\ bj = 1
      /\ \/ drivers' = drivers
         \/ \E t \in Target : ~Contains(drivers, t) /\ drivers' = Append(drivers, t)
  BY SetupLoop DEF LoopInv
<1>2. NamesDone = 0 /\ NamesDone' = 0
  BY <1>1 DEF NamesDone, AtBench, InBenchmark
<1>3. CASE drivers' = drivers
  BY <1>1, <1>2, <1>3, RanKept
<1>4. CASE drivers' # drivers
  <2>1. PICK u \in Target : ~Contains(drivers, u) /\ drivers' = Append(drivers, u)
    BY <1>1, <1>4
  <2> DEFINE n == Len(drivers)
  <2>2. drivers \in Seq(Target) /\ DOMAIN drivers = 1 .. n /\ n \in Nat
    BY Typed
  <2>3. /\ DOMAIN drivers' = 1 .. n + 1 /\ drivers'[n + 1] = u
        /\ \A i \in 1 .. n : drivers'[i] = drivers[i]
    BY <2>1, <2>2
  <2>4. ran[u] = <<>>
    BY <2>1 DEF RanInv
  <2> HIDE DEF n
  <2> SUFFICES ASSUME NEW t \in Target
               PROVE  /\ ~Contains(drivers', t) => ran[t] = <<>>
                      /\ \A i \in DOMAIN drivers' : drivers'[i] = t =>
                           (i >= 1 /\ ran[t] = <<>>) \/ (i = 1 /\ InOrder(ran[t], 0))
    <3>1. InOrder(<<>>, 0)'
      BY NothingInOrder, <1>1 DEF InOrder, Named
    <3>2. ASSUME NEW t \in Target, InOrder(ran[t], 0)
          PROVE  InOrder(ran[t], 0)'
      BY <1>1, <3>2 DEF InOrder, Named
    <3> QED
      BY <1>1, <1>2, <2>2, <2>3, <3>1, <3>2 DEF RanInv
  <2>5. ~Contains(drivers', t) => ~Contains(drivers, t)
    BY <2>2, <2>3 DEF Contains
  <2>6. ASSUME NEW i \in 1 .. n, drivers[i] = t
        PROVE  ran[t] = <<>> \/ (i = 1 /\ InOrder(ran[t], 0))
    BY <1>1, <1>2, <2>2, <2>6 DEF RanInv
  <2> QED
    BY <2>2, <2>3, <2>4, <2>5, <2>6 DEF RanInv
<1> QED
  BY <1>3, <1>4

LEMMA RanStart ==
  ASSUME TypeOK, LoopInv, RanInv, StartBench
  PROVE  RanInv'
<1>1. /\ UNCHANGED <<options, drivers, di, bj>> /\ AtBench' /\ pc = "bench" /\ Driver \in Target
      /\ pc' \in {"fill", "replay", "benchDone"} /\ bj <= Len(options.benches)
      /\ ran' = [ran EXCEPT ![Driver] = Append(@, Entry.name)] /\ ~Contains(ran[Driver], Entry.name)
      /\ di <= Len(drivers)
  BY StartLoop DEF StartBench, HasRun
<1>2. di \in 1 .. Len(drivers) /\ DOMAIN drivers = 1 .. Len(drivers) /\ bj \in Nat /\ bj > 0
  <2>1. di \in 1 .. 4
    BY DEF TypeOK
  <2> QED
    BY <1>1, <2>1, Typed DEF LoopInv
<1>3. NamesDone = bj - 1 /\ NamesDone' = bj
  BY <1>1 DEF NamesDone, AtBench, InBenchmark
<1>4. \A i \in DOMAIN drivers : drivers[i] = Driver <=> i = di
  BY <1>2 DEF LoopInv, Driver
<1>5. InOrder(ran[Driver], bj - 1)
  BY <1>1, <1>2, <1>3 DEF RanInv, Driver
<1>6. InOrder(Append(ran[Driver], Entry.name), bj)
  <2> DEFINE N == {gBenchmarks[k].name : k \in DOMAIN gBenchmarks}
  <2>1. Entry.name \in N
    BY <1>1, EntryFacts DEF Looping
  <2>2. ran[Driver] \in Seq(N)
    BY <1>1 DEF TypeOK
  <2>3. Entry.name = Named(bj)
    BY DEF Entry, Named
  <2> HIDE DEF N
  <2> QED
    BY <1>1, <1>2, <1>5, <2>1, <2>2, <2>3, NextInOrder
<1>7. /\ ran'[Driver] = Append(ran[Driver], Entry.name)
      /\ \A t \in Target : t # Driver => ran'[t] = ran[t]
  BY <1>1 DEF TypeOK
<1>8. \A t \in Target : t # Driver =>
        (InOrder(ran[t], Len(options.benches)) => InOrder(ran[t], Len(options.benches))')
  BY <1>1, <1>7 DEF InOrder, Named
<1>9. InOrder(ran[Driver], NamesDone)'
  <2>1. ran'[Driver'] = Append(ran[Driver], Entry.name) /\ NamesDone' = bj
    BY <1>1, <1>3, <1>7 DEF Driver
  <2>2. options' = options
    BY <1>1
  <2>3. ASSUME NEW s, NEW n, InOrder(s, n), ran'[Driver'] = s, NamesDone' = n
        PROVE  InOrder(ran[Driver], NamesDone)'
    BY <2>2, <2>3 DEF InOrder, Named
  <2> QED
    BY <1>6, <2>1, <2>3
<1>10. ASSUME NEW t \in Target, t # Driver
       PROVE  /\ ~Contains(drivers', t) => ran'[t] = <<>>
              /\ \A i \in DOMAIN drivers' : drivers'[i] = t =>
                   /\ i < di' => InOrder(ran[t], Len(options.benches))'
                   /\ i # di'
                   /\ i > di' => ran'[t] = <<>>
  BY <1>1, <1>4, <1>7, <1>8, <1>10 DEF RanInv
<1>11. Contains(drivers', Driver)
  BY <1>1, <1>2, <1>4 DEF Contains
<1>12. \A i \in DOMAIN drivers' : drivers'[i] = Driver => i = di'
  BY <1>1, <1>4
<1>13. di' \in Nat
  BY <1>1, <1>2
<1>14. ASSUME NEW t \in Target
       PROVE  /\ ~Contains(drivers', t) => ran'[t] = <<>>
              /\ \A i \in DOMAIN drivers' : drivers'[i] = t =>
                   /\ i < di' => InOrder(ran[t], Len(options.benches))'
                   /\ i = di' /\ pc' # "aborted" => InOrder(ran[t], NamesDone)'
                   /\ i > di' => ran'[t] = <<>>
  <2>1. CASE t = Driver
    BY <1>9, <1>11, <1>12, <1>13, <2>1, <1>1 DEF Driver
  <2>2. CASE t # Driver
    BY <1>10, <2>2
  <2> QED
    BY <2>1, <2>2
<1> QED
  BY <1>14 DEF RanInv

LEMMA RanLoop ==
  ASSUME TypeOK, LoopInv, RanInv, NextBench \/ NextDriver
  PROVE  RanInv'
<1>1. UNCHANGED <<options, drivers, ran>> /\ pc' = "bench" /\ NamesDone' = bj' - 1 /\ pc # "aborted"
  BY DEF NextBench, NextDriver, given, NamesDone, AtBench, InBenchmark
<1>2. CASE NextBench
  <2>1. /\ di' = di /\ bj' = bj + 1 /\ bj \in Nat /\ bj > 0
        /\ \/ pc = "benchDone"
           \/ pc = "bench" /\ di <= Len(drivers) /\ bj <= Len(options.benches) /\ HasRun
    <3>1. bj \in 1 .. Len(options.benches) + 1
      BY DEF LoopInv
    <3> QED
      BY <1>2, <3>1, Typed DEF NextBench
  <2>2. CASE pc = "benchDone"
    <3>1. NamesDone' = NamesDone
      BY <1>1, <2>1, <2>2 DEF NamesDone, AtBench
    <3> QED
      BY <1>1, <2>1, <3>1, RanKept
  <2>3. CASE pc = "bench" /\ di <= Len(drivers) /\ bj <= Len(options.benches) /\ HasRun
    <3>1. NamesDone = bj - 1 /\ NamesDone' = bj
      BY <1>1, <2>1, <2>3 DEF NamesDone, AtBench, InBenchmark
    <3>2. di \in DOMAIN drivers /\ Driver \in Target
      <4>1. di \in 1 .. 4
        BY DEF TypeOK
      <4>2. di \in 1 .. Len(drivers)
        BY <2>3, <4>1, Typed
      <4> QED
        BY <4>2, Typed DEF Driver
    <3>3. \A i \in DOMAIN drivers : drivers[i] = Driver <=> i = di
      BY <3>2 DEF LoopInv, Driver
    <3>4. InOrder(ran[Driver], bj - 1)
      BY <2>3, <3>1, <3>2 DEF RanInv, Driver
    <3>5. InOrder(ran[Driver], bj)
      <4> DEFINE N == {gBenchmarks[k].name : k \in DOMAIN gBenchmarks}
      <4>1. Entry.name \in N
        BY <2>3, EntryFacts DEF Looping
      <4>2. ran[Driver] \in Seq(N)
        BY <3>2 DEF TypeOK
      <4>3. Entry.name = Named(bj)
        BY DEF Entry, Named
      <4> HIDE DEF N
      <4> QED
        BY <2>1, <2>3, <3>4, <4>1, <4>2, <4>3, NextInOrder DEF HasRun
    <3>6. \A t \in Target :
            InOrder(ran[t], Len(options.benches)) => InOrder(ran[t], Len(options.benches))'
      BY <1>1 DEF InOrder, Named
    <3>7. \A t \in Target : t = Driver => InOrder(ran[t], NamesDone)'
      BY <1>1, <3>1, <3>5 DEF InOrder, Named
    <3> QED
      BY <1>1, <2>1, <3>3, <3>6, <3>7 DEF RanInv
  <2> QED
    BY <2>1, <2>2, <2>3
<1>3. CASE NextDriver
  <2>1. /\ pc = "bench" /\ di <= Len(drivers) /\ bj > Len(options.benches) /\ di' = di + 1 /\ bj' = 1
    BY <1>3 DEF NextDriver
  <2>2. bj = Len(options.benches) + 1 /\ di \in Nat
    <3>1. bj \in 1 .. Len(options.benches) + 1
      BY DEF LoopInv
    <3>2. Len(options.benches) \in Nat /\ di \in Nat
      BY Typed
    <3> QED
      BY <2>1, <3>1, <3>2
  <2>3. NamesDone = Len(options.benches) /\ NamesDone' = 0
    BY <1>1, <2>1, <2>2, Typed DEF NamesDone, AtBench, InBenchmark
  <2>4. \A t \in Target :
          InOrder(ran[t], Len(options.benches)) => InOrder(ran[t], Len(options.benches))'
    BY <1>1 DEF InOrder, Named
  <2>6. ASSUME NEW t \in Target, NEW i \in DOMAIN drivers, drivers[i] = t
        PROVE  /\ i < di + 1 => InOrder(ran[t], Len(options.benches))'
               /\ i > di => ran[t] = <<>>
    BY <2>1, <2>2, <2>3, <2>4, <2>6, Typed DEF RanInv
  <2>7. ASSUME NEW t \in Target, NEW i \in DOMAIN drivers, drivers[i] = t
        PROVE  /\ i < di' => InOrder(ran[t], Len(options.benches))'
               /\ i = di' => InOrder(ran[t], NamesDone)'
               /\ i > di' => ran[t] = <<>>
    <3>1. i = di' => ran'[t] = <<>>
      BY <1>1, <2>1, <2>2, <2>6, <2>7
    <3>2. ASSUME NEW n, InOrder(<<>>, n), ran'[t] = <<>>, NamesDone' = n
          PROVE  InOrder(ran[t], NamesDone)'
      BY <1>1, <3>2 DEF InOrder, Named
    <3>3. i = di' => InOrder(ran[t], NamesDone)'
      BY <2>3, <3>1, <3>2, NothingInOrder
    <3>4. i \in Nat
      BY Typed
    <3> QED
      BY <1>1, <2>1, <2>2, <2>6, <2>7, <3>3, <3>4
  <2> QED
    BY <1>1, <2>7 DEF RanInv
<1> QED
  BY <1>2, <1>3

LEMMA RanStep ==
  ASSUME TypeOK, LoopInv, RanInv, ReplayInv, [Next]_vars
  PROVE  RanInv'
<1>1. CASE Start \/ CheckBenches \/ Exit \/ BenchesDone
  <2>1. /\ UNCHANGED <<options, drivers, di, bj, ran>> /\ pc \in {"start", "setup", "exit", "bench"}
        /\ pc' \in {"setup", "bench", "exit", "exited", "aborted"}
    BY <1>1 DEF Start, CheckBenches, Exit, BenchesDone, given
  <2>2. NamesDone' = NamesDone
    BY <2>1 DEF NamesDone, AtBench, InBenchmark
  <2> QED
    BY <2>1, <2>2, RanKept
<1>2. CASE Measures
  <2>1. /\ UNCHANGED <<options, drivers, di, bj, ran>> /\ AtBench /\ InBenchmark
        /\ pc' \in {"fill", "read", "readDist", "write", "writeDist", "benchDone", "aborted"}
    BY <1>2, MeasureLoop
  <2>2. NamesDone' = NamesDone \/ pc' = "aborted"
    BY <2>1 DEF NamesDone, AtBench, InBenchmark
  <2> QED
    BY <2>1, <2>2, RanKept DEF InBenchmark
<1>3. CASE Replays
  <2>1. pc = "replay"
    BY <1>3 DEF Replays, ReplayLine, ReplayDone
  <2>2. pi # 0
    BY <2>1, Typed DEF ReplayInv
  <2>3. /\ UNCHANGED <<options, drivers, di, bj, ran>> /\ AtBench
        /\ pc' \in {"replay", "benchDone", "aborted"}
    BY <1>3, <2>2, ReplayLoop
  <2>4. NamesDone' = NamesDone \/ pc' = "aborted"
    BY <2>3 DEF NamesDone, AtBench, InBenchmark
  <2> QED
    BY <2>1, <2>3, <2>4, RanKept
<1>4. CASE UNCHANGED vars
  <2>1. UNCHANGED <<options, drivers, di, bj, ran, pc>>
    BY <1>4 DEF vars, given
  <2>2. CASE pc = "aborted"
    <3>1. \A t \in Target :
            InOrder(ran[t], Len(options.benches)) => InOrder(ran[t], Len(options.benches))'
      BY <2>1 DEF InOrder, Named
    <3> QED
      BY <2>1, <2>2, <3>1 DEF RanInv
  <2>3. NamesDone' = NamesDone
    BY <2>1 DEF NamesDone, AtBench, InBenchmark
  <2> QED
    BY <2>1, <2>2, <2>3, RanKept
<1> QED
  BY <1>1, <1>2, <1>3, <1>4, RanSetup, RanStart, RanLoop
  DEF Next, Running, Finished, Measures, Replays

-----------------------------------------------------------------------------
(* What is measured.                                                        *)

LEMMA MostNumber == Most \in Nat /\ Smallest \in Nat
  BY SMT DEF Most, Smallest

LEMMA MeasureKept ==
  ASSUME MeasureInv,
         pc' \notin {"read", "readDist", "write", "writeDist", "benchDone"}
  PROVE  MeasureInv'
  BY DEF MeasureInv

LEMMA MeasureOther ==
  ASSUME TypeOK, LoopInv, MeasureInv, ReplayInv, [Next]_vars, ~Measures
  PROVE  MeasureInv'
<1>1. CASE Start \/ CheckBenches \/ Exit \/ BenchesDone
  <2>1. pc' \notin {"read", "readDist", "write", "writeDist", "benchDone"}
    BY <1>1 DEF Start, CheckBenches, Exit, BenchesDone
  <2> QED
    BY <2>1, MeasureKept
<1>2. CASE SetupDriver
  BY <1>2, SetupLoop, MeasureKept
<1>3. CASE NextBench \/ NextDriver
  <2>1. UNCHANGED store /\ pc' = "bench"
    BY <1>3 DEF NextBench, NextDriver
  <2> QED
    BY <2>1, MeasureKept
<1>4. CASE StartBench
  <2>1. /\ UNCHANGED store /\ Entry' = Entry /\ pc' \in {"fill", "replay", "benchDone"}
        /\ pc' = "benchDone" => Entry.name = "ycsbReplay"
        /\ bj <= Len(options.benches) /\ Looping
    BY <1>4, StartLoop DEF StartBench, Looping
  <2>2. pc' = "benchDone" => Len(Entry.params) = 0
    <3>1. Len(<<>>) = 0
      OBVIOUS
    <3>2. Entry.name = "ycsbReplay" => Entry.params = <<>>
      BY <2>1, EntryFacts
    <3> QED
      BY <2>1, <3>1, <3>2
  <2> QED
    BY <2>1, <2>2 DEF MeasureInv
<1>5. CASE Replays
  <2>1. pc = "replay" /\ pi # 0
    BY <1>5, Typed DEF Replays, ReplayLine, ReplayDone, ReplayInv
  <2>2. /\ Entry' = Entry /\ Driver' = Driver /\ pc' \in {"replay", "benchDone", "aborted"} /\ AtBench
        /\ ReplayLine => trace[pi] \in Line
    BY <1>5, <2>1, ReplayLoop
  <2>3. Len(Entry.params) = 0
    <3>1. Len(<<>>) = 0
      OBVIOUS
    <3>2. Entry.name = "ycsbReplay"
      BY <2>1 DEF ReplayInv, InBenchmark
    <3>3. Entry.params = <<>>
      BY <2>2, <3>2, EntryFacts DEF Looping, LoopInv
    <3> QED
      BY <3>1, <3>3
  <2> QED
    BY <2>2, <2>3 DEF MeasureInv
<1>6. CASE UNCHANGED vars
  BY <1>6 DEF vars, given, MeasureInv, Param, Entry, Driver
<1> QED
  BY <1>1, <1>2, <1>3, <1>4, <1>5, <1>6 DEF Next, Running, Finished, Measures, Replays

LEMMA MeasureStep ==
  ASSUME TypeOK, LoopInv, MeasureInv, Measures
  PROVE  MeasureInv'
<1> DEFINE n == NumObjects(Param)
           m == Sent(Driver, Param.objSize)
<1>1. /\ Entry' = Entry /\ Driver' = Driver /\ InBenchmark /\ AtBench /\ pc # "replay" /\ Param \in Size
  BY MeasureLoop
<1>2. /\ pi \in 1 .. Len(Entry.params) /\ n \in Nat /\ n <= Most /\ m \in Held
      /\ n = Most => m = Sent(Driver, Smallest)
      /\ pi = 1 /\ Len(Entry.params) > 1 => n = Most
  BY <1>1, ParamFacts, HeldSizes DEF Size
<1>3. Driver \in Target /\ store \in Stores
  BY <1>1, DriverFacts, Typed
<1>4. /\ pc' \in {"read", "readDist", "write", "writeDist"} => UNCHANGED pi
      /\ pc' = "benchDone" => pc = "writeDist" /\ pi = 1
      /\ pc' \in {"read", "readDist", "write", "writeDist"} =>
           pc \in {"read", "readDist", "write", "writeDist"} \/ FillData
      /\ FillData => pc' # "benchDone"
  BY DEF Measures, FillData, Expired, ReadRandom, WriteRandom, LoopDone, GetDist
<1>5. UNCHANGED pi => Param' = Param
  BY <1>1 DEF Param
<1> HIDE DEF n, m
<1>7. CASE UNCHANGED store /\ ~FillData
  <2>1. pc' \in {"read", "readDist", "write", "writeDist"} =>
          \A g \in Groups : g <= n => store[Driver][g] = m
    BY <1>4, <1>7 DEF MeasureInv, n, m
  <2>2. pc' \in {"read", "readDist", "write", "writeDist"} =>
          \A g \in Groups : g <= NumObjects(Param') => store'[Driver'][g] = Sent(Driver', Param'.objSize)
    BY <1>1, <1>4, <1>5, <1>7, <2>1 DEF n, m
  <2>3. pc' = "benchDone" /\ Len(Entry.params) > 1 =>
          \A g \in Groups : g <= Most => store[Driver][g] = Sent(Driver, Smallest)
    <3>1. pc' = "benchDone" => \A g \in Groups : g <= n => store[Driver][g] = m
      BY <1>4 DEF MeasureInv, n, m
    <3> QED
      BY <1>2, <1>4, <3>1
  <2> QED
    BY <1>1, <1>7, <2>2, <2>3 DEF MeasureInv
<1>8. CASE \E K : /\ store' = Put(Driver, K, m) /\ pc' # "benchDone" /\ UNCHANGED pi
                  /\ FillData => \A g \in Groups : g <= n => g \in K
  <2>1. PICK K : /\ store' = Put(Driver, K, m) /\ pc' # "benchDone" /\ UNCHANGED pi
                 /\ FillData => \A g \in Groups : g <= n => g \in K
    BY <1>8
  <2>2. \A t \in Target : \A g \in Groups :
          store'[t][g] = IF t = Driver /\ g \in K THEN m ELSE store[t][g]
    BY <1>2, <1>3, <2>1, PutFacts
  <2>3. pc' \in {"read", "readDist", "write", "writeDist"} =>
          \A g \in Groups : g <= n => store'[Driver][g] = m
    BY <1>3, <1>4, <2>1, <2>2 DEF MeasureInv, n, m
  <2>4. pc' \in {"read", "readDist", "write", "writeDist"} =>
          \A g \in Groups : g <= NumObjects(Param') => store'[Driver'][g] = Sent(Driver', Param'.objSize)
    BY <1>1, <1>5, <2>1, <2>3 DEF n, m
  <2> QED
    BY <2>1, <2>4 DEF MeasureInv
<1>9. CASE FillData
  <2>1. store' = Put(Driver, Filled(n), m) /\ pc' # "benchDone" /\ UNCHANGED pi
    BY <1>9 DEF FillData, n, m
  <2>2. \A g \in Groups : g <= n => g \in Filled(n)
    BY DEF Filled
  <2> QED
    BY <1>8, <2>1, <2>2
<1>10. CASE WriteRandom
  <2>1. PICK k \in Picks(Entry, Param) : store' = Put(Driver, {k}, m)
    BY <1>10 DEF WriteRandom, m
  <2>2. pc' # "benchDone" /\ UNCHANGED pi /\ ~FillData
    BY <1>10 DEF WriteRandom, FillData
  <2> QED
    BY <1>8, <2>1, <2>2
<1> QED
  BY <1>7, <1>9, <1>10 DEF Measures, Expired, ReadRandom, LoopDone, GetDist

-----------------------------------------------------------------------------
(* What is replayed.                                                        *)

LEMMA LinesOn ==
  ASSUME NEW T, NEW k, NEW n \in Nat, T[n + 1].key = k => T[n + 1].op = "GET"
  PROVE  /\ Unwritten(T, k, n) => Unwritten(T, k, n + 1)
         /\ \A i \in 1 .. n : LastWrite(T, k, i, n) => LastWrite(T, k, i, n + 1)
<1>1. 1 .. n + 1 = (1 .. n) \cup {n + 1}
  OBVIOUS
<1>2. \A i \in 1 .. n : i + 1 .. n + 1 = (i + 1 .. n) \cup {n + 1}
  OBVIOUS
<1> QED
  BY <1>1, <1>2 DEF Unwritten, LastWrite

LEMMA ShortFacts ==
  ASSUME NEW T \in Seq(Line)
  PROVE  \A i \in DOMAIN T :
           /\ T[i].key \in TraceKey /\ Prefix[T[i].key] \in TraceKey
           /\ Short(T)[i].key = Prefix[T[i].key] /\ Short(T)[i].op = T[i].op
<1> SUFFICES ASSUME NEW i \in DOMAIN T
             PROVE  /\ T[i].key \in TraceKey /\ Prefix[T[i].key] \in TraceKey
                    /\ Short(T)[i].key = Prefix[T[i].key] /\ Short(T)[i].op = T[i].op
  OBVIOUS
<1>1. T[i] \in Line
  OBVIOUS
<1>2. T[i].key \in TraceKey /\ Prefix[T[i].key] \in TraceKey
  BY <1>1, TraceAssumption DEF Line
<1>3. Short(T)[i] = [T[i] EXCEPT !.key = Prefix[@]]
  BY DEF Short
<1> QED
  BY <1>1, <1>2, <1>3 DEF Line

LEMMA ReplayKept ==
  ASSUME ReplayInv, UNCHANGED <<ran, found>>, ~AtBench',
         \/ pc' \in {"exited", "aborted"}
         \/ pc \notin {"exited", "aborted"} /\ UNCHANGED store
  PROVE  ReplayInv'
<1>1. pc' \notin {"exited", "aborted"} =>
        \A t \in Target : ~Contains(ran'[t], "ycsbReplay") =>
          \A k \in TraceKey : store'[t][k] = found'[t][k]
  BY DEF ReplayInv
<1>2. ~InBenchmark' /\ pc' # "replay" /\ ~Replayed'
  BY DEF AtBench, InBenchmark, Replayed
<1> QED
  BY <1>1, <1>2 DEF ReplayInv

LEMMA ReplayOther ==
  ASSUME TypeOK, LoopInv, ReplayInv, [Next]_vars, ~Measures, ~Replays, ~StartBench
  PROVE  ReplayInv'
<1>1. CASE Start \/ CheckBenches \/ Exit \/ BenchesDone \/ NextBench \/ NextDriver
  <2>1. ~AtBench' /\ UNCHANGED <<ran, found>>
    BY <1>1 DEF Start, CheckBenches, Exit, BenchesDone, NextBench, NextDriver, AtBench, InBenchmark,
       given
  <2>2. pc' \in {"exited", "aborted"} \/ (pc \notin {"exited", "aborted"} /\ UNCHANGED store)
    BY <1>1 DEF Start, CheckBenches, Exit, BenchesDone, NextBench, NextDriver
  <2> QED
    BY <2>1, <2>2, ReplayKept
<1>2. CASE SetupDriver
  <2>1. ~AtBench' /\ UNCHANGED <<ran, found, store>> /\ pc \notin {"exited", "aborted"}
    BY <1>2, SetupLoop DEF AtBench, InBenchmark
  <2> QED
    BY <2>1, ReplayKept
<1>3. CASE UNCHANGED vars
  <2>1. UNCHANGED <<options, trace, found, drivers, store, di, bj, ran, pc, pi>>
    BY <1>3 DEF vars, given
  <2>2. UNCHANGED Driver /\ UNCHANGED Entry
    BY <2>1 DEF Driver, Entry
  <2>3. UNCHANGED InBenchmark /\ UNCHANGED AtBench
    BY <2>1 DEF AtBench, InBenchmark
  <2>4. pc = "replay" /\ ReplayedTo(pi - 1) => ReplayedTo(pi - 1)'
    BY <2>1, <2>2 DEF ReplayedTo
  <2>5. \A n : Readable(n) => Readable(n)'
    BY <2>1 DEF Readable
  <2>6. \A n : ReplayedTo(n) => ReplayedTo(n)'
    BY <2>1, <2>2 DEF ReplayedTo
  <2>7. pc = "replay" /\ Readable(pi - 1) => Readable(pi - 1)'
    BY <2>1 DEF Readable
  <2>8. UNCHANGED Replayed
    BY <2>1, <2>2 DEF Replayed
  <2> QED
    BY <2>1, <2>2, <2>3, <2>4, <2>5, <2>6, <2>7, <2>8 DEF ReplayInv
<1> QED
  BY <1>1, <1>2, <1>3 DEF Next, Running, Finished, Measures, Replays

LEMMA ReplayMeasures ==
  ASSUME TypeOK, LoopInv, ReplayInv, Measures
  PROVE  ReplayInv'
<1>1. /\ Entry' = Entry /\ Driver' = Driver /\ InBenchmark /\ AtBench /\ pc # "replay"
      /\ Param \in Size /\ UNCHANGED <<options, trace, found, drivers, di, bj, ran>>
      /\ pc' \in {"fill", "read", "readDist", "write", "writeDist", "benchDone", "aborted"}
  BY MeasureLoop
<1> DEFINE m == Sent(Driver, Param.objSize)
<1>2. Driver \in Target /\ store \in Stores /\ m \in Held
  BY <1>1, DriverFacts, Typed, HeldSizes DEF Size
<1>3. NumObjects(Param) \in Nat /\ NumObjects(Param) \in Groups
  BY <1>1, ParamFacts
<1>4. ASSUME NEW t \in Target, NEW k \in TraceKey
      PROVE  store'[t][k] = store[t][k]
  <2>1. CASE UNCHANGED store
    BY <2>1
  <2>2. CASE FillData
    <3>1. store' = Put(Driver, Filled(NumObjects(Param)), m)
      BY <2>2 DEF FillData
    <3>2. k \notin Filled(NumObjects(Param))
      BY GroupNumbers DEF Filled
    <3> HIDE DEF m
    <3> QED
      BY <1>2, <3>1, <3>2, PutFacts
  <2>3. CASE WriteRandom
    <3>1. PICK g \in Picks(Entry, Param) : store' = Put(Driver, {g}, m)
      BY <2>3 DEF WriteRandom
    <3>2. g \in Groups \/ g \in Nat
      BY <1>3 DEF Picks, Filled
    <3>3. k \notin {g}
      BY <3>2, GroupNumbers, TraceAssumption
    <3> HIDE DEF m
    <3> QED
      BY <1>2, <3>1, <3>3, PutFacts
  <2> QED
    BY <2>1, <2>2, <2>3 DEF Measures, Expired, ReadRandom, LoopDone, GetDist
<1> HIDE DEF m
<1>5. Entry.name # "ycsbReplay" /\ pc \notin {"exited", "aborted"}
  BY <1>1 DEF ReplayInv, InBenchmark
<1>6. Contains(ran[Driver], Entry.name)
  BY <1>1 DEF ReplayInv
<1>7. \A t \in Target : ~Contains(ran'[t], "ycsbReplay") =>
        \A k \in TraceKey : store'[t][k] = found'[t][k]
  BY <1>1, <1>4, <1>5 DEF ReplayInv
<1>8. pc' # "replay"
  BY <1>1
<1>9. ~Replayed'
  BY <1>1, <1>5 DEF Replayed
<1> QED
  BY <1>1, <1>5, <1>6, <1>7, <1>8, <1>9 DEF ReplayInv

LEMMA ReplayStart ==
  ASSUME TypeOK, LoopInv, ReplayInv, StartBench
  PROVE  ReplayInv'
<1>1. /\ UNCHANGED <<options, trace, found, drivers, store, di, bj>> /\ AtBench' /\ Driver \in Target
      /\ Driver' = Driver /\ Entry' = Entry /\ pc' \in {"fill", "replay", "benchDone"}
      /\ Entry.name # "ycsbReplay" => pc' = "fill"
      /\ Entry.name = "ycsbReplay" =>
           (pc' = "replay" /\ pi' = 1) \/ (pc' = "benchDone" /\ pi' = 0)
      /\ ran' = [ran EXCEPT ![Driver] = Append(@, Entry.name)] /\ ~Contains(ran[Driver], Entry.name)
      /\ pc = "bench" /\ bj <= Len(options.benches)
  BY StartLoop DEF StartBench, HasRun
<1> DEFINE N == {gBenchmarks[k].name : k \in DOMAIN gBenchmarks}
<1>2. Entry.name \in N
  BY <1>1, EntryFacts DEF Looping
<1>3. ran \in [Target -> Seq(N)]
  BY DEF TypeOK
<1> HIDE DEF N
<1>4. ASSUME NEW s \in Seq(N), NEW e \in N, NEW x
      PROVE  Contains(Append(s, e), x) <=> Contains(s, x) \/ x = e
  <2>1. /\ Len(s) \in Nat /\ Len(Append(s, e)) = Len(s) + 1
        /\ \A i \in 1 .. Len(s) : Append(s, e)[i] = s[i]
        /\ Append(s, e)[Len(s) + 1] = e
    OBVIOUS
  <2>2. 1 .. Len(s) + 1 = (1 .. Len(s)) \cup {Len(s) + 1}
    BY <2>1
  <2> QED
    BY <2>1, <2>2 DEF Contains
<1>5. \A t \in Target : t # Driver => ran'[t] = ran[t]
  BY <1>1, <1>3
<1>6. ran'[Driver] = Append(ran[Driver], Entry.name) /\ ran[Driver] \in Seq(N)
  BY <1>1, <1>3
<1>7. \A t \in Target : ~Contains(ran'[t], "ycsbReplay") =>
        \A k \in TraceKey : store'[t][k] = found'[t][k]
  BY <1>1, <1>2, <1>4, <1>5, <1>6 DEF ReplayInv
<1>8. Contains(ran'[Driver], Entry.name)
  BY <1>2, <1>4, <1>6
<1>9. InBenchmark' => (pc' = "replay" <=> Entry.name = "ycsbReplay")
  BY <1>1 DEF InBenchmark
<1>10. ASSUME pc' = "replay"
       PROVE  pi' \in 1 .. Len(trace) + 1 /\ Readable(pi - 1)' /\ ReplayedTo(pi - 1)'
  <2>1. pi' = 1 /\ Entry.name = "ycsbReplay"
    BY <1>1, <1>10
  <2>2. Len(trace) \in Nat
    BY Typed
  <2>3. \A k \in TraceKey : store[Driver][k] = found[Driver][k]
    BY <1>1, <2>1 DEF ReplayInv
  <2>4. 1 .. pi' - 1 = {}
    BY <2>1
  <2>5. Readable(pi - 1)'
    BY <2>4 DEF Readable
  <2>6. ReplayedTo(pi - 1)'
    BY <1>1, <2>3, <2>4 DEF ReplayedTo, Unwritten
  <2> QED
    BY <2>1, <2>2, <2>5, <2>6
<1>11. ~Replayed'
  BY <1>1 DEF Replayed
<1> QED
  BY <1>1, <1>7, <1>8, <1>9, <1>10, <1>11 DEF ReplayInv

LEMMA ReplayStep ==
  ASSUME TypeOK, LoopInv, ReplayInv, Replays
  PROVE  ReplayInv'
<1> DEFINE T == Short(trace)
<1>1. pc = "replay" /\ pi \in 1 .. Len(trace) + 1 /\ Readable(pi - 1) /\ ReplayedTo(pi - 1)
  BY DEF Replays, ReplayLine, ReplayDone, ReplayInv
<1>2. trace \in Seq(Line) /\ Len(trace) \in Nat /\ DOMAIN trace = 1 .. Len(trace) /\ store \in Stores
  BY Typed
<1>3. /\ Entry' = Entry /\ Driver' = Driver /\ UNCHANGED <<options, trace, found, drivers, di, bj, ran>>
      /\ AtBench /\ pc' \in {"replay", "benchDone", "aborted"}
      /\ ReplayLine => trace[pi] \in Line
  BY <1>1, <1>2, ReplayLoop
<1>4. Driver \in Target /\ Entry.name = "ycsbReplay" /\ Contains(ran[Driver], Entry.name)
  BY <1>1, <1>3, DriverFacts DEF ReplayInv, InBenchmark
<1>5. CASE ReplayLine
  <2> DEFINE line == trace[pi]
             n == pi - 1
  <2>1. /\ pi \in DOMAIN trace /\ pi' = pi + 1 /\ line.op # "bad" /\ pc' \in {"replay", "aborted"}
        /\ \/ line.op = "GET" /\ store' = store
           \/ line.op # "GET" /\ store' = Put(Driver, {Prefix[line.key]}, Written(line))
    BY <1>1, <1>2, <1>5 DEF ReplayLine
  <2> DEFINE p == Prefix[line.key]
  <2>2. p \in TraceKey /\ Written(line) \in Held /\ T[pi].key = p /\ T[pi].op = line.op
    BY <1>2, <1>3, <1>5, <2>1, ShortFacts, HeldSizes DEF Line, Written, Held
  <2> HIDE DEF T, p
  <2>3. n \in Nat /\ n + 1 = pi /\ 1 .. pi = (1 .. n) \cup {pi}
    BY <1>1
  <2>4. Readable(pi)
    BY <1>1, <2>1, <2>3 DEF Readable
  <2>5. ASSUME NEW t \in Target, NEW k \in TraceKey
        PROVE  store'[t][k] =
                 IF t = Driver /\ k = p /\ line.op # "GET" THEN Written(line) ELSE store[t][k]
    BY <1>2, <1>4, <2>1, <2>2, PutFacts DEF p
  <2>6. \A t \in Target : ~Contains(ran'[t], "ycsbReplay") =>
          \A k \in TraceKey : store'[t][k] = found'[t][k]
    BY <1>1, <1>3, <1>4, <2>5 DEF ReplayInv
  <2>7. ASSUME NEW k \in TraceKey
        PROVE  \/ store'[Driver][k] = found[Driver][k] /\ Unwritten(T, k, pi)
               \/ \E i \in 1 .. pi : LastWrite(T, k, i, pi) /\ store'[Driver][k] = Written(trace[i])
    <3>1. CASE k = p /\ line.op # "GET"
      <4>1. store'[Driver][k] = Written(line)
        BY <1>4, <2>5, <3>1
      <4>2. LastWrite(T, k, pi, pi)
        <5>1. pi \in 1 .. pi /\ pi + 1 .. pi = {}
          BY <1>1
        <5> QED
          BY <2>2, <3>1, <5>1 DEF LastWrite
      <4> QED
        BY <2>3, <4>1, <4>2
    <3>2. CASE ~(k = p /\ line.op # "GET")
      <4>1. store'[Driver][k] = store[Driver][k]
        BY <1>4, <2>5, <3>2
      <4>2. T[n + 1].key = k => T[n + 1].op = "GET"
        BY <2>2, <2>3, <3>2
      <4>3. /\ Unwritten(T, k, n) => Unwritten(T, k, pi)
            /\ \A i \in 1 .. n : LastWrite(T, k, i, n) => LastWrite(T, k, i, pi)
        <5> HIDE DEF n
        <5> QED
          BY <2>3, <4>2, LinesOn
      <4>4. \/ store[Driver][k] = found[Driver][k] /\ Unwritten(T, k, n)
            \/ \E i \in 1 .. n : LastWrite(T, k, i, n) /\ store[Driver][k] = Written(trace[i])
        BY <1>1 DEF ReplayedTo, T
      <4> QED
        BY <2>3, <4>1, <4>3, <4>4
    <3> QED
      BY <3>1, <3>2
  <2>8. pi' \in 1 .. Len(trace') + 1 /\ pi' - 1 = pi
    BY <1>1, <1>2, <1>3, <2>1
  <2>9. Readable(pi - 1)'
    BY <1>3, <2>4, <2>8 DEF Readable
  <2>10. ReplayedTo(pi - 1)'
    BY <1>3, <2>7, <2>8 DEF ReplayedTo, T
  <2>11. Contains(ran'[Driver'], Entry'.name) /\ Entry'.name = "ycsbReplay"
    BY <1>3, <1>4
  <2>12. (InBenchmark' => pc' = "replay") /\ (pc' = "replay" => InBenchmark') /\ ~Replayed'
    BY <2>1 DEF InBenchmark, Replayed
  <2> HIDE DEF line, n
  <2> QED
    BY <2>6, <2>8, <2>9, <2>10, <2>11, <2>12 DEF ReplayInv
<1>6. CASE ReplayDone
  <2>1. UNCHANGED <<store, pi>> /\ TraceEnds /\ pc' \in {"benchDone", "aborted"}
    BY <1>6 DEF ReplayDone
  <2> DEFINE n == pi - 1
  <2>2. n \in 0 .. Len(trace) /\ (n < Len(trace) => trace[n + 1].op = "bad")
    BY <1>1, <1>2, <2>1 DEF TraceEnds
  <2>3. Readable(n)' /\ ReplayedTo(n)'
    BY <1>1, <1>3, <2>1 DEF Readable, ReplayedTo
  <2>4. /\ \A t \in Target : ~Contains(ran'[t], "ycsbReplay") =>
             \A k \in TraceKey : store'[t][k] = found'[t][k]
        /\ ~InBenchmark' /\ pc' # "replay"
    BY <1>1, <1>3, <2>1 DEF ReplayInv, InBenchmark
  <2>5. n' = n
    BY <2>1
  <2>6. \E m \in 0 .. Len(trace') :
          Readable(m)' /\ (m < Len(trace') => trace'[m + 1].op = "bad") /\ ReplayedTo(m)'
    <3>1. Readable(pi - 1)' /\ ReplayedTo(pi - 1)'
      BY <2>3
    <3>2. ASSUME NEW m, m = pi - 1
          PROVE  Readable(m)' /\ ReplayedTo(m)'
      BY <1>1, <1>3, <2>1, <3>2 DEF Readable, ReplayedTo
    <3> QED
      BY <1>3, <2>2, <3>2
  <2> QED
    BY <1>3, <1>4, <2>4, <2>6 DEF ReplayInv
<1> QED
  BY <1>5, <1>6 DEF Replays

-----------------------------------------------------------------------------
(* The load generator keeps its invariant.                                  *)

LEMMA TimesStep ==
  ASSUME TypeOK, OnlyMeasuredTimes, [Next]_vars
  PROVE  OnlyMeasuredTimes'
<1>1. CASE Expired
  BY <1>1 DEF Expired, Resized, OnlyMeasuredTimes, TypeOK
<1>2. CASE LoopDone
  BY <1>2 DEF LoopDone, OnlyMeasuredTimes
<1>3. CASE UNCHANGED vars
  BY <1>3 DEF vars, given, OnlyMeasuredTimes
<1>4. CASE ~Expired /\ ~LoopDone /\ Running
  <2>1. pc' \notin {"readDist", "writeDist"}
    BY <1>4 DEF Running, Start, SetupDriver, CheckBenches, Exit, StartBench, NextBench, NextDriver,
       BenchesDone, FillData, ReadRandom, WriteRandom, GetDist, ReplayLine, ReplayDone
  <2> QED
    BY <2>1 DEF OnlyMeasuredTimes
<1> QED
  BY <1>1, <1>2, <1>3, <1>4 DEF Next, Running, Finished

LEMMA InitIInv == Init => IInv
<1> SUFFICES ASSUME Init PROVE IInv
  OBVIOUS
<1>1. TypeOK /\ LoopInv
  BY LoadInit
<1>2. pc = "start" /\ drivers = <<>> /\ ran = [t \in Target |-> <<>>] /\ store = found
  BY DEF Init
<1>3. ~InBenchmark /\ ~AtBench /\ ~Replayed
  BY <1>2 DEF InBenchmark, AtBench, Replayed
<1>5. DOMAIN drivers = {} /\ \A t \in Target : ran[t] = <<>>
  BY <1>2
<1>6. RanInv
  BY <1>5 DEF RanInv
<1>7. MeasureInv
  BY <1>2 DEF MeasureInv
<1>8. ReplayInv
  BY <1>2, <1>3 DEF ReplayInv
<1>9. OnlyMeasuredTimes
  BY <1>2 DEF OnlyMeasuredTimes
<1> QED
  BY <1>1, <1>6, <1>7, <1>8, <1>9 DEF IInv

LEMMA NextIInv ==
  ASSUME IInv, [Next]_vars
  PROVE  IInv'
<1>1. TypeOK /\ LoopInv /\ RanInv /\ MeasureInv /\ ReplayInv /\ OnlyMeasuredTimes
  BY DEF IInv
<1>2. TypeOK' /\ LoopInv' /\ RanInv'
  BY <1>1, LoopStep, RanStep
<1>3. MeasureInv'
  BY <1>1, MeasureStep, MeasureOther
<1>4. ReplayInv'
  BY <1>1, ReplayStep, ReplayStart, ReplayMeasures, ReplayOther
<1>5. OnlyMeasuredTimes'
  BY <1>1, TimesStep
<1> QED
  BY <1>2, <1>3, <1>4, <1>5 DEF IInv

(* Before it does anything, the trace may change.                           *)
LEMMA FileIInv ==
  ASSUME IInv, pc = "start", trace' \in Seq(Line),
         UNCHANGED <<pc, options, found, drivers, store, di, bj, ran, pi, times>>
  PROVE  IInv'
<1>1. TypeOK /\ LoopInv /\ RanInv /\ MeasureInv /\ ReplayInv /\ OnlyMeasuredTimes
  BY DEF IInv
<1>2. ~AtBench /\ ~AtBench' /\ ~InBenchmark /\ ~InBenchmark' /\ ~Looping /\ ~Looping'
  BY DEF AtBench, InBenchmark, Looping
<1>3. TypeOK'
  BY <1>1, <1>2 DEF TypeOK
<1>4. LoopInv'
  BY <1>1, <1>2 DEF LoopInv
<1>5. RanInv'
  BY <1>1, <1>2, RanKept DEF NamesDone
<1>6. MeasureInv' /\ ReplayInv'
  BY <1>1, <1>2, MeasureKept, ReplayKept
<1>7. OnlyMeasuredTimes'
  BY <1>1 DEF OnlyMeasuredTimes
<1> QED
  BY <1>3, <1>4, <1>5, <1>6, <1>7 DEF IInv

-----------------------------------------------------------------------------
(* What follows for what the load generator is to do.                       *)

(* Names in order, once each, in terms of the list itself.                  *)
LEMMA OrderOfNames ==
  ASSUME options.benches \in Seq(STRING), NEW S, NEW s \in Seq(S), InOrder(s, Len(options.benches)),
         \A i \in DOMAIN options.benches : Matches(options.benches[i]) # {}
  PROVE  /\ ToSet(options.benches) \ {"all"} \subseteq ToSet(s)
         /\ \A a, b \in DOMAIN s : a # b => s[a] # s[b]
         /\ "all" \notin ToSet(options.benches) =>
              /\ ToSet(s) = ToSet(options.benches)
              /\ \A a, b \in DOMAIN s : a < b => Before(s[a], s[b])
<1> DEFINE B == options.benches
<1>1. DOMAIN B = 1 .. Len(B) /\ Len(B) \in Nat /\ DOMAIN s = 1 .. Len(s) /\ Len(s) \in Nat
  OBVIOUS
<1>2. ASSUME NEW i \in DOMAIN B, B[i] # "all"
      PROVE  Named(i) = B[i]
  <2>1. Matches(B[i]) \subseteq Nat /\ Matches(B[i]) # {}
    BY TableDomain DEF Matches
  <2>2. Min(Matches(B[i])) \in Matches(B[i])
    BY <2>1, MinOfSet
  <2> QED
    BY <1>2, <2>2 DEF Named, Matches
<1>3. ToSet(s) = {Named(i) : i \in DOMAIN B}
  BY <1>1 DEF InOrder
<1>4. ASSUME NEW a \in DOMAIN s, NEW b \in DOMAIN s, a < b
      PROVE  \E i \in DOMAIN B : Named(i) = s[a] /\ \A j \in 1 .. i : j \in DOMAIN B /\ Named(j) # s[b]
  <2>1. PICK i \in 1 .. Len(B) : Named(i) = s[a] /\ \A j \in 1 .. i : Named(j) # s[b]
    BY <1>4 DEF InOrder
  <2>2. \A j \in 1 .. i : j \in 1 .. Len(B)
    OBVIOUS
  <2> QED
    BY <1>1, <2>1, <2>2
<1>5. ToSet(B) \ {"all"} \subseteq ToSet(s)
  BY <1>2, <1>3 DEF ToSet
<1>6. ASSUME NEW a \in DOMAIN s, NEW b \in DOMAIN s, a < b
      PROVE  s[a] # s[b]
  <2>1. PICK i \in DOMAIN B : Named(i) = s[a] /\ \A j \in 1 .. i : Named(j) # s[b]
    BY <1>4, <1>6
  <2>2. i \in 1 .. i
    BY <1>1
  <2> QED
    BY <2>1, <2>2
<1>7. \A a, b \in DOMAIN s : a # b => s[a] # s[b]
  <2>1. \A a, b \in DOMAIN s : a # b => a < b \/ b < a
    BY <1>1
  <2> QED
    BY <1>6, <2>1
<1>8. ASSUME "all" \notin ToSet(B)
      PROVE  ToSet(s) = ToSet(B) /\ \A a, b \in DOMAIN s : a < b => Before(s[a], s[b])
  <2>1. \A i \in DOMAIN B : Named(i) = B[i]
    BY <1>2, <1>8 DEF ToSet
  <2>2. ToSet(s) = ToSet(B)
    BY <1>3, <2>1 DEF ToSet
  <2>3. ASSUME NEW a \in DOMAIN s, NEW b \in DOMAIN s, a < b
        PROVE  Before(s[a], s[b])
    <3>1. PICK i \in DOMAIN B :
            Named(i) = s[a] /\ \A j \in 1 .. i : j \in DOMAIN B /\ Named(j) # s[b]
      BY <1>4, <2>3
    <3> QED
      BY <2>1, <3>1 DEF Before
  <2> QED
    BY <2>2, <2>3
<1> QED
  BY <1>5, <1>7, <1>8

LEMMA OneFor ==
  IInv => RequestsRunOnce /\ AccessesHit /\ EachSizeReplaced /\ OnlyMeasuredTimes
<1> SUFFICES ASSUME IInv PROVE RequestsRunOnce /\ AccessesHit /\ EachSizeReplaced
  BY DEF IInv
<1>1. TypeOK /\ LoopInv /\ RanInv /\ MeasureInv /\ ReplayInv
  BY DEF IInv
<1>2. RequestsRunOnce
  <2> SUFFICES ASSUME drivers # <<>>, di > Len(drivers), NEW t \in Target
               PROVE  LET names == IF Contains(drivers, t) THEN ToSet(options.benches) ELSE {}
                      IN  /\ names \ {"all"} \subseteq ToSet(ran[t])
                          /\ \A a, b \in DOMAIN ran[t] : a # b => ran[t][a] # ran[t][b]
                          /\ "all" \notin names =>
                               /\ ToSet(ran[t]) = names
                               /\ \A a, b \in DOMAIN ran[t] : a < b => Before(ran[t][a], ran[t][b])
    BY DEF RequestsRunOnce
  <2>1. DOMAIN drivers = 1 .. Len(drivers) /\ options.benches \in Seq(STRING)
    BY <1>1, Typed
  <2>2. \A i \in DOMAIN drivers : i < di
    BY <1>1, Typed
  <2>3. CASE ~Contains(drivers, t)
    <3>1. ran[t] = <<>> /\ DOMAIN ran[t] = {} /\ ToSet(ran[t]) = {}
      BY <1>1, <2>3 DEF RanInv, ToSet
    <3> QED
      BY <2>3, <3>1
  <2>4. CASE Contains(drivers, t)
    <3>1. InOrder(ran[t], Len(options.benches))
      BY <1>1, <2>1, <2>2, <2>4 DEF RanInv, Contains
    <3>2. ran[t] \in Seq({gBenchmarks[k].name : k \in DOMAIN gBenchmarks})
      BY <1>1 DEF TypeOK
    <3>3. di > 1
      <4>1. Len(drivers) \in Nat /\ Len(drivers) # 0 /\ di \in Nat
        BY <1>1, Typed, EmptySeq
      <4> QED
        BY <4>1
    <3>4. \A i \in DOMAIN options.benches : Matches(options.benches[i]) # {}
      BY <1>1, <3>3 DEF LoopInv
    <3> QED
      BY <2>1, <2>4, <3>1, <3>2, <3>4, OrderOfNames
  <2> QED
    BY <2>3, <2>4
<1>3. AccessesHit
  BY <1>1 DEF MeasureInv, AccessesHit, Sent
<1>4. EachSizeReplaced
  <2> SUFFICES ASSUME pc = "benchDone", Len(Entry.params) > 1, Driver # "redis",
                      NEW p \in ToSet(Entry.params), NEW g \in Groups, g <= NumObjects(p)
               PROVE  store[Driver][g] = Entry.params[1].objSize
    BY DEF EachSizeReplaced
  <2>1. AtBench /\ Looping
    BY DEF AtBench, Looping
  <2>2. Sizes(Entry.params)
    BY <1>1, <2>1, EntryFacts DEF LoopInv
  <2>3. NumObjects(p) \in Nat /\ NumObjects(p) <= Most /\ Entry.params[1].objSize = Smallest
    BY <2>2 DEF Sizes, ToSet
  <2>4. g \in Nat /\ Most \in Nat
    BY GroupNumbers, MostNumber
  <2>5. g <= Most
    <3> HIDE DEF Most
    <3> QED
      BY <2>3, <2>4
  <2>6. store[Driver][g] = Sent(Driver, Smallest)
    BY <1>1, <2>5 DEF MeasureInv
  <2> QED
    BY <2>3, <2>6 DEF Sent
<1> QED
  BY <1>2, <1>3, <1>4

LEMMA MaxOfSet ==
  ASSUME NEW S, S \subseteq Int, NEW i \in S, \A j \in S : j <= i
  PROVE  Max(S) = i
<1>1. \A x \in S : (\A y \in S : x >= y) => x = i
  OBVIOUS
<1>2. \A y \in S : i >= y
  OBVIOUS
<1> QED
  BY <1>1, <1>2 DEF Max

LEMMA Faithful == IInv => ReplayFaithful
<1> DEFINE Read == {i \in DOMAIN trace : \A j \in 1..i : trace[j].op # "bad"}
           Writes(k) == {i \in Read : trace[i].key = k /\ trace[i].op # "GET"}
           Final(k) == trace[Max(Writes(k))]
           S == Short(trace)
<1> SUFFICES ASSUME IInv, Replayed, NEW k \in TraceKey,
                    ~\E i \in Read : trace[i].key # k /\ Prefix[trace[i].key] = Prefix[k]
             PROVE  LET now == store[Driver][Prefix[k]]
                    IN  /\ Writes(k) = {} => now = found[Driver][Prefix[k]]
                        /\ Writes(k) # {} /\ Final(k).op = "DELETE" => now = 0
                        /\ Writes(k) # {} /\ Final(k).op = "UPDATE" /\ Final(k).size < MAX_TRACE_VALUE =>
                             now = Final(k).size
  BY DEF ReplayFaithful
<1>1. PICK n \in 0 .. Len(trace) :
        Readable(n) /\ (n < Len(trace) => trace[n + 1].op = "bad") /\ ReplayedTo(n)
  BY DEF IInv, ReplayInv
<1>2. Len(trace) \in Nat /\ DOMAIN trace = 1 .. Len(trace) /\ trace \in Seq(Line)
  BY Typed DEF IInv
<1>3. Read = 1 .. n
  <2>1. ASSUME NEW i \in DOMAIN trace PROVE i \in Read <=> i <= n
    <3>1. i <= n => \A j \in 1 .. i : trace[j].op # "bad"
      BY <1>1, <1>2 DEF Readable
    <3>2. i > n => n + 1 \in 1 .. i /\ trace[n + 1].op = "bad"
      BY <1>1, <1>2
    <3> QED
      BY <1>1, <1>2, <3>1, <3>2
  <2>2. Read \subseteq DOMAIN trace
    OBVIOUS
  <2>3. \A i : i \in 1 .. n <=> i \in DOMAIN trace /\ i <= n
    BY <1>1, <1>2
  <2> HIDE DEF Read
  <2> QED
    BY <2>1, <2>2, <2>3
<1> DEFINE p == Prefix[k]
<1> HIDE DEF S, p
<1>4. p \in TraceKey
  BY TraceAssumption DEF p
<1>5. ASSUME NEW i \in 1 .. n
      PROVE  (S[i].key = p <=> trace[i].key = k) /\ S[i].op = trace[i].op
  <2>1. i \in Read /\ i \in DOMAIN trace
    BY <1>1, <1>2, <1>3
  <2>2. S[i].key = Prefix[trace[i].key] /\ S[i].op = trace[i].op
    BY <1>2, <2>1, ShortFacts DEF S
  <2> QED
    BY <2>1, <2>2 DEF p
<1>6. \A i : i \in Writes(k) <=> i \in 1 .. n /\ S[i].key = p /\ S[i].op # "GET"
  <2>1. \A i : i \in Writes(k) <=> i \in 1 .. n /\ trace[i].key = k /\ trace[i].op # "GET"
    BY <1>3
  <2> QED
    BY <1>5, <2>1
<1> HIDE DEF Read, Writes
<1>7. CASE store[Driver][p] = found[Driver][p] /\ Unwritten(S, p, n)
  <2>1. Writes(k) = {}
    BY <1>6, <1>7 DEF Unwritten
  <2> QED
    BY <1>7, <2>1 DEF p
<1>8. CASE \E i \in 1 .. n : LastWrite(S, p, i, n) /\ store[Driver][p] = Written(trace[i])
  <2>1. PICK i \in 1 .. n : LastWrite(S, p, i, n) /\ store[Driver][p] = Written(trace[i])
    BY <1>8
  <2>2. i \in Writes(k)
    BY <1>6, <2>1 DEF LastWrite
  <2>3. \A j \in Writes(k) : j \in 1 .. n /\ j <= i
    BY <1>6, <2>1 DEF LastWrite
  <2>4. Max(Writes(k)) = i
    <3>1. Writes(k) \subseteq Int
      BY <2>3
    <3> QED
      BY <2>2, <2>3, <3>1, MaxOfSet
  <2>5. Final(k) = trace[i] /\ Writes(k) # {}
    BY <2>2, <2>4
  <2> QED
    BY <2>1, <2>5 DEF Written, Value, p
<1> QED
  BY <1>1, <1>4, <1>7, <1>8 DEF ReplayedTo, S

-----------------------------------------------------------------------------
(* The lines of the tracer.                                                 *)

(* A call writes one line for each key, of the same kind.                   *)
OneEach(L, op, K, size) ==
  /\ L \in Seq(Line)
  /\ \A i \in DOMAIN L : L[i].op = op /\ L[i].key \in K /\ L[i].size = size[L[i].key]
  /\ \A i, j \in DOMAIN L : L[i].key = L[j].key => i = j
  /\ \A k \in K : \E i \in DOMAIN L : L[i].key = k

LEMMA LinesOf ==
  ASSUME NEW op \in {"GET", "UPDATE", "DELETE"}, NEW K, IsFiniteSet(K), K \subseteq TraceKey,
         NEW size \in [K -> Nat]
  PROVE  OneEach(Lines(op, K, size), op, K, size)
<1> DEFINE s == SetToSeq(K)
           c == Cardinality(K)
           L == Lines(op, K, size)
<1>1. c \in Nat /\ ExistsBijection(1 .. c, K)
  BY FS_CardinalityType
<1>2. \E f \in [1 .. c -> K] : IsInjective(f)
  <2>1. PICK f : f \in Bijection(1 .. c, K)
    BY <1>1 DEF ExistsBijection
  <2> QED
    BY <2>1 DEF Bijection, Injection
<1>3. s \in [1 .. c -> K] /\ IsInjective(s)
  BY <1>2 DEF SetToSeq
<1>4. s \in Surjection(1 .. c, K)
  <2>1. s \in Injection(1 .. c, K)
    BY <1>3 DEF Injection
  <2>2. IsFiniteSet(1 .. c) /\ Cardinality(1 .. c) = Cardinality(K)
    BY <1>1, FS_Interval
  <2> QED
    BY <2>1, <2>2, FS_Injection
<1> HIDE DEF s, c
<1>5. L = [i \in 1 .. c |-> [op |-> op, key |-> s[i], size |-> size[s[i]]]]
  <2>1. DOMAIN s = 1 .. c
    BY <1>3
  <2> QED
    BY <2>1 DEF Lines, s
<1> HIDE DEF L
<1>6. \A i \in 1 .. c : s[i] \in TraceKey /\ size[s[i]] \in Nat
  BY <1>3
<1>7. L \in [1 .. c -> Line]
  BY <1>5, <1>6 DEF Line
<1>8. L \in Seq(Line) /\ DOMAIN L = 1 .. c
  BY <1>1, <1>7
<1>9. \A i \in 1 .. c : L[i].op = op /\ L[i].key = s[i] /\ L[i].size = size[s[i]]
  BY <1>5
<1>10. \A i, j \in DOMAIN L : L[i].key = L[j].key => i = j
  BY <1>3, <1>8, <1>9 DEF IsInjective
<1>11. \A k \in K : \E i \in DOMAIN L : L[i].key = k
  BY <1>4, <1>8, <1>9 DEF Surjection
<1>12. \A i \in DOMAIN L : L[i].op = op /\ L[i].key \in K /\ L[i].size = size[L[i].key]
  BY <1>3, <1>8, <1>9
<1> QED
  BY <1>8, <1>10, <1>11, <1>12 DEF L, OneEach

(* A trace f that goes on with the lines L.                                 *)
Goes(g, f, L) ==
  /\ g \in Seq(Line) /\ Len(f) \in Nat /\ Len(L) \in Nat /\ Len(g) = Len(f) + Len(L)
  /\ DOMAIN f = 1 .. Len(f) /\ DOMAIN L = 1 .. Len(L) /\ DOMAIN g = 1 .. Len(f) + Len(L)
  /\ \A i \in DOMAIN f : g[i] = f[i]
  /\ \A i \in DOMAIN L : g[Len(f) + i] = L[i]
  /\ \A j \in DOMAIN g : j \in DOMAIN f \/ \E i \in DOMAIN L : j = Len(f) + i

LEMMA GoesOn ==
  ASSUME NEW f \in Seq(Line), NEW L \in Seq(Line)
  PROVE  Goes(f \o L, f, L)
<1> DEFINE g == f \o L
<1>1. /\ g \in Seq(Line) /\ Len(g) = Len(f) + Len(L)
      /\ \A i \in 1 .. Len(f) + Len(L) : g[i] = IF i <= Len(f) THEN f[i] ELSE L[i - Len(f)]
  BY ConcatProperties
<1>2. /\ Len(f) \in Nat /\ Len(L) \in Nat /\ DOMAIN f = 1 .. Len(f) /\ DOMAIN L = 1 .. Len(L)
  OBVIOUS
<1> HIDE DEF g
<1>3. DOMAIN g = 1 .. Len(f) + Len(L)
  BY <1>1
<1>4. \A i \in DOMAIN f : g[i] = f[i]
  BY <1>1, <1>2
<1>5. \A i \in DOMAIN L : g[Len(f) + i] = L[i]
  BY <1>1, <1>2
<1>6. ASSUME NEW j \in DOMAIN g, j \notin DOMAIN f
      PROVE  \E i \in DOMAIN L : j = Len(f) + i
  <2>1. j - Len(f) \in DOMAIN L /\ j = Len(f) + (j - Len(f))
    BY <1>2, <1>3, <1>6
  <2> QED
    BY <2>1
<1> QED
  BY <1>1, <1>2, <1>3, <1>4, <1>5, <1>6 DEF Goes, g

(* Lines that do not write k leave its last write.                          *)
Spares(L, k) == \A i \in DOMAIN L : L[i].key = k => L[i].op = "GET"

LEMMA WriteStays ==
  ASSUME NEW f, NEW L, NEW g, Goes(g, f, L), NEW k, Spares(L, k)
  PROVE  /\ Unwritten(f, k, Len(f)) => Unwritten(g, k, Len(g))
         /\ \A i \in DOMAIN f : LastWrite(f, k, i, Len(f)) => LastWrite(g, k, i, Len(g)) /\ g[i] = f[i]
<1>1. ASSUME NEW j \in DOMAIN g, g[j].key = k, g[j].op # "GET"
      PROVE  j \in DOMAIN f /\ f[j] = g[j]
  BY <1>1 DEF Goes, Spares
<1>2. DOMAIN f = 1 .. Len(f) /\ DOMAIN g = 1 .. Len(g) /\ Len(f) \in Nat /\ Len(g) \in Nat /\ Len(f) <= Len(g)
  BY DEF Goes
<1>3. Unwritten(f, k, Len(f)) => Unwritten(g, k, Len(g))
  BY <1>1, <1>2 DEF Unwritten
<1>4. ASSUME NEW i \in DOMAIN f, LastWrite(f, k, i, Len(f))
      PROVE  LastWrite(g, k, i, Len(g)) /\ g[i] = f[i]
  <2>1. g[i] = f[i] /\ i \in 1 .. Len(g) /\ f[i].key = k /\ f[i].op # "GET"
    BY <1>2, <1>4 DEF Goes, LastWrite
  <2>2. ASSUME NEW j \in i + 1 .. Len(g), g[j].key = k, g[j].op # "GET"
        PROVE  FALSE
    <3>1. j \in DOMAIN g
      BY <1>2, <2>1
    <3>2. j \in i + 1 .. Len(f) /\ f[j] = g[j]
      BY <1>1, <1>2, <2>1, <2>2, <3>1
    <3> QED
      BY <1>4, <2>2, <3>2 DEF LastWrite
  <2> QED
    BY <2>1, <2>2 DEF LastWrite
<1> QED
  BY <1>3, <1>4

LEMMA Fields ==
  /\ FieldKey \subseteq EncKey /\ EncKey \subseteq Encoded /\ Encoded \subseteq TraceKey
  /\ CutKey \in TraceKey
  /\ \A r \in Record :
       /\ KeysOf[r] \subseteq FieldKey /\ KeysOf[r] \subseteq MapKeys(r) /\ KeysOf[r] \subseteq EncKey
       /\ MapKeys(r) \subseteq EncKey /\ Part[r] \in MapKeys(r) /\ IsFiniteSet(MapKeys(r))
  /\ \A k \in EncKey : Again[k] \in Encoded /\ Again[k] \notin EncKey
<1>1. \A r \in Record : IsFiniteSet(MapKeys(r))
  BY KeysAssumption, FS_AddElement DEF MapKeys
<1>2. /\ FieldKey \subseteq EncKey
      /\ \A r \in Record : /\ KeysOf[r] \subseteq FieldKey /\ KeysOf[r] \subseteq MapKeys(r)
                           /\ MapKeys(r) \subseteq EncKey /\ Part[r] \in MapKeys(r)
  BY DEF FieldKey, EncKey, MapKeys
<1> QED
  BY <1>1, <1>2, KeysAssumption, KeysOfTraces DEF Encoded

(* Lines that only read, or only write keys of no field, change nothing.    *)
LEMMA SaysStill ==
  ASSUME NEW f, NEW L, NEW g, Goes(g, f, L), NEW m, NEW l, Says(f, m),
         \A i \in DOMAIN L :
           L[i].op # "bad" /\ L[i].key \in Encoded /\ (L[i].key \in EncKey => L[i].op = "GET"),
         \A k \in EncKey : l[k] = m[k] \/ (l[k] = Gone /\ m[k] # Never)
  PROVE  Says(g, l)
<1>1. ASSUME NEW j \in DOMAIN g
      PROVE  /\ g[j].op # "bad" /\ g[j].key \in Encoded
             /\ g[j].key \in EncKey => g[j].op = "GET" \/ (g[j].op = "UPDATE" /\ g[j].size > 0)
  <2>1. CASE j \in DOMAIN f
    BY <2>1 DEF Goes, Says
  <2>2. CASE \E i \in DOMAIN L : j = Len(f) + i
    BY <2>2 DEF Goes
  <2> QED
    BY <2>1, <2>2 DEF Goes
<1>2. ASSUME NEW k \in EncKey
      PROVE  /\ l[k] = Never => Unwritten(g, k, Len(g))
             /\ l[k] # Never /\ l[k] # Gone =>
                  l[k] > 0 /\ \E i \in DOMAIN g : LastWrite(g, k, i, Len(g)) /\ g[i].size = l[k]
  <2>1. Spares(L, k)
    BY DEF Spares
  <2>2. Gone # Never
    BY DEF Gone, Never
  <2>3. (l[k] = Never <=> m[k] = Never) /\ (l[k] # Gone => l[k] = m[k])
    BY <2>2
  <2>4. \A i \in DOMAIN f : i \in DOMAIN g /\ g[i] = f[i]
    BY DEF Goes
  <2>5. /\ Unwritten(f, k, Len(f)) => Unwritten(g, k, Len(g))
        /\ \A i \in DOMAIN f : LastWrite(f, k, i, Len(f)) => LastWrite(g, k, i, Len(g))
    BY <2>1, WriteStays, Zenon
  <2>6. l[k] = Never => Unwritten(g, k, Len(g))
    BY <2>3, <2>5 DEF Says
  <2>7. ASSUME l[k] # Never, l[k] # Gone
        PROVE  l[k] > 0 /\ \E i \in DOMAIN g : LastWrite(g, k, i, Len(g)) /\ g[i].size = l[k]
    <3>1. PICK i \in DOMAIN f : m[k] > 0 /\ LastWrite(f, k, i, Len(f)) /\ f[i].size = m[k]
      BY <2>3, <2>7 DEF Says
    <3>2. g[i] = f[i] /\ i \in DOMAIN g
      BY <2>4
    <3>3. LastWrite(g, k, i, Len(g))
      BY <2>5, <3>1
    <3> QED
      BY <2>3, <2>7, <3>1, <3>2, <3>3
  <2> QED
    BY <2>6, <2>7
<1> QED
  BY <1>1, <1>2 DEF Says

(* An update of the keys K.                                                 *)
LEMMA SaysUpdated ==
  ASSUME NEW f, NEW L, NEW g, Goes(g, f, L), NEW m, NEW l, Says(f, m),
         NEW K, K \subseteq EncKey, NEW n \in Nat, n > 0,
         NEW size, OneEach(L, "UPDATE", K, size), \A k \in K : size[k] = n,
         \A k \in EncKey : l[k] = IF k \in K THEN n ELSE m[k]
  PROVE  Says(g, l)
<1>0. /\ \A i \in DOMAIN L : L[i].op = "UPDATE" /\ L[i].key \in K /\ L[i].size = n
      /\ \A i, j \in DOMAIN L : L[i].key = L[j].key => i = j
      /\ \A k \in K : \E i \in DOMAIN L : L[i].key = k
  BY DEF OneEach
<1>1. ASSUME NEW j \in DOMAIN g
      PROVE  /\ g[j].op # "bad" /\ g[j].key \in Encoded
             /\ g[j].key \in EncKey => g[j].op = "GET" \/ (g[j].op = "UPDATE" /\ g[j].size > 0)
  <2>1. CASE j \in DOMAIN f
    BY <2>1 DEF Goes, Says
  <2>2. CASE \E i \in DOMAIN L : j = Len(f) + i
    BY <1>0, <2>2, Fields DEF Goes
  <2> QED
    BY <2>1, <2>2 DEF Goes
<1>2. \A i \in DOMAIN f : i \in DOMAIN g /\ g[i] = f[i]
  BY DEF Goes
<1>3. n # Never /\ n # Gone
  BY DEF Never, Gone
<1>4. ASSUME NEW k \in EncKey, k \in K
      PROVE  \E i \in DOMAIN g : LastWrite(g, k, i, Len(g)) /\ g[i].size = l[k]
  <2>1. PICK i \in DOMAIN L : L[i].key = k
    BY <1>0, <1>4
  <2> DEFINE e == Len(f) + i
  <2>2. e \in DOMAIN g /\ DOMAIN g = 1 .. Len(g) /\ g[e] = L[i] /\ e \in Nat
    BY DEF Goes
  <2>3. ASSUME NEW j \in e + 1 .. Len(g), g[j].key = k
        PROVE  FALSE
    <3>1. j \in DOMAIN g /\ j \notin DOMAIN f
      BY <2>2 DEF Goes
    <3>2. PICK h \in DOMAIN L : j = Len(f) + h
      BY <3>1 DEF Goes
    <3>3. g[j] = L[h]
      BY <3>2 DEF Goes
    <3>4. h = i
      BY <1>0, <2>1, <2>3, <3>3
    <3> QED
      BY <2>2, <3>2, <3>4
  <2>4. LastWrite(g, k, e, Len(g))
    <3>1. g[e].key = k /\ g[e].op # "GET" /\ e \in 1 .. Len(g)
      BY <1>0, <2>1, <2>2
    <3> HIDE DEF e
    <3> QED
      BY <2>3, <3>1 DEF LastWrite
  <2>5. g[e].size = l[k]
    BY <1>0, <1>4, <2>2
  <2> QED
    BY <2>2, <2>4, <2>5
<1>5. ASSUME NEW k \in EncKey
      PROVE  /\ l[k] = Never => Unwritten(g, k, Len(g))
             /\ l[k] # Never /\ l[k] # Gone =>
                  l[k] > 0 /\ \E i \in DOMAIN g : LastWrite(g, k, i, Len(g)) /\ g[i].size = l[k]
  <2>1. CASE k \in K
    <3>1. l[k] = n
      BY <2>1
    <3> QED
      BY <1>3, <1>4, <2>1, <3>1
  <2>2. CASE k \notin K
    <3>0. l[k] = m[k]
      BY <2>2
    <3>1. Spares(L, k)
      BY <1>0, <2>2 DEF Spares
    <3>2. /\ Unwritten(f, k, Len(f)) => Unwritten(g, k, Len(g))
          /\ \A i \in DOMAIN f : LastWrite(f, k, i, Len(f)) => LastWrite(g, k, i, Len(g))
      BY <3>1, WriteStays, Zenon
    <3>3. m[k] = Never => Unwritten(f, k, Len(f))
      BY DEF Says
    <3>4. l[k] = Never => Unwritten(g, k, Len(g))
      BY <3>0, <3>2, <3>3
    <3>5. ASSUME l[k] # Never, l[k] # Gone
          PROVE  l[k] > 0 /\ \E i \in DOMAIN g : LastWrite(g, k, i, Len(g)) /\ g[i].size = l[k]
      <4>1. PICK i \in DOMAIN f : m[k] > 0 /\ LastWrite(f, k, i, Len(f)) /\ f[i].size = m[k]
        BY <3>0, <3>5 DEF Says
      <4> QED
        BY <1>2, <3>0, <3>2, <4>1
    <3> QED
      BY <3>4, <3>5
  <2> QED
    BY <2>1, <2>2
<1> QED
  BY <1>1, <1>5 DEF Says

(* What is read is what has been written.                                   *)
LEMMA ReadBackStill ==
  ASSUME NEW f, NEW L, NEW g, Goes(g, f, L), ReadBack(f),
         (\A i \in DOMAIN L : L[i].op = "GET") \/ (\A i \in DOMAIN L : L[i].op # "GET"),
         \A i \in DOMAIN L : L[i].op = "GET" /\ L[i].size > 0 =>
           \E h \in DOMAIN f :
             LastWrite(f, L[i].key, h, Len(f)) /\ f[h].op = "UPDATE" /\ f[h].size = L[i].size
  PROVE  ReadBack(g)
<1> SUFFICES ASSUME NEW j \in DOMAIN g, g[j].op = "GET", g[j].size > 0
             PROVE  \E i \in 1 .. j - 1 : /\ LastWrite(g, g[j].key, i, j - 1)
                                          /\ g[i].op = "UPDATE" /\ g[i].size = g[j].size
  BY DEF ReadBack
<1>0. /\ DOMAIN f = 1 .. Len(f) /\ DOMAIN g = 1 .. Len(g) /\ Len(f) \in Nat /\ Len(g) \in Nat
      /\ \A i \in DOMAIN f : g[i] = f[i]
  BY DEF Goes
<1>1. CASE j \in DOMAIN f
  <2>1. g[j] = f[j] /\ \A i \in 1 .. j - 1 : i \in DOMAIN f /\ g[i] = f[i]
    BY <1>0, <1>1
  <2>2. PICK i \in 1 .. j - 1 :
          LastWrite(f, f[j].key, i, j - 1) /\ f[i].op = "UPDATE" /\ f[i].size = f[j].size
    BY <1>1, <2>1 DEF ReadBack
  <2>3. \A h \in i + 1 .. j - 1 : h \in 1 .. j - 1
    BY <1>0, <1>1
  <2>4. LastWrite(g, g[j].key, i, j - 1)
    BY <2>1, <2>2, <2>3 DEF LastWrite
  <2> QED
    BY <2>1, <2>2, <2>4
<1>2. CASE j \notin DOMAIN f
  <2>1. PICK i \in DOMAIN L : j = Len(f) + i /\ g[j] = L[i] /\ i \in Nat /\ i > 0
    BY <1>2 DEF Goes
  <2>2. \A u \in DOMAIN L : L[u].op = "GET"
    BY <2>1
  <2>3. PICK h \in DOMAIN f :
          LastWrite(f, L[i].key, h, Len(f)) /\ f[h].op = "UPDATE" /\ f[h].size = L[i].size
    BY <2>1
  <2>4. h \in 1 .. j - 1 /\ g[h] = f[h]
    BY <1>0, <2>1
  <2>5. ASSUME NEW q \in h + 1 .. j - 1, g[q].key = L[i].key
        PROVE  g[q].op = "GET"
    <3>1. q \in DOMAIN g
      BY <1>0, <2>4
    <3>2. CASE q \in DOMAIN f
      <4>1. q \in h + 1 .. Len(f) /\ g[q] = f[q]
        BY <1>0, <3>2
      <4> QED
        BY <2>3, <2>5, <4>1 DEF LastWrite
    <3>3. CASE q \notin DOMAIN f
      <4>1. PICK u \in DOMAIN L : q = Len(f) + u /\ g[q] = L[u]
        BY <3>1, <3>3 DEF Goes
      <4> QED
        BY <2>2, <4>1
    <3> QED
      BY <3>2, <3>3
  <2>6. LastWrite(g, g[j].key, h, j - 1)
    <3>1. f[h].key = L[i].key /\ f[h].op # "GET"
      BY <2>3 DEF LastWrite
    <3> QED
      BY <2>1, <2>4, <2>5, <3>1 DEF LastWrite
  <2> QED
    BY <2>1, <2>3, <2>4, <2>6
<1> QED
  BY <1>1, <1>2

-----------------------------------------------------------------------------
(* The steps of the tracer.                                                 *)

LEMMA InitTracer == Untraced => TracerInv
<1> SUFFICES ASSUME Untraced PROVE TracerInv
  OBVIOUS
<1>1. /\ file = <<>> /\ opWriter = <<>> /\ session = "closed" /\ keymapFile = {}
      /\ kept = [k \in EncKey |-> Never]
  BY DEF Untraced
<1>2. TracerTypeOK
  BY BoundsAssumption DEF Untraced, TracerTypeOK, Never
<1>3. KeysKnown
  BY <1>1, Fields DEF KeysKnown
<1>4. file \in Seq(Line) /\ opWriter \in Seq(Line) /\ DOMAIN file = {} /\ Len(file) = 0
  BY <1>1
<1>5. ReadBack(file)
  BY <1>4 DEF ReadBack
<1>6. Says(file, kept)
  <2>1. 1 .. 0 = {}
    OBVIOUS
  <2>2. \A k \in EncKey : Unwritten(file, k, Len(file)) /\ kept[k] = Never
    BY <1>1, <1>4, <2>1 DEF Unwritten
  <2> QED
    BY <1>4, <2>2 DEF Says
<1> QED
  BY <1>1, <1>2, <1>3, <1>4, <1>5, <1>6 DEF TracerInv

LEMMA TracerStill == TracerInv /\ UNCHANGED tracer => TracerInv'
  BY DEF TracerInv, TracerTypeOK, KeysKnown, tracer

LEMMA InitStep ==
  ASSUME TracerInv, init
  PROVE  TracerInv'
<1>1. /\ session = "closed" /\ sessions < MaxSessions /\ sessions' = sessions + 1
      /\ opWriter' = <<>> /\ asked' = kept /\ UNCHANGED <<file, calls, forgotten, kept>>
  BY DEF init
<1>2. \/ UNCHANGED <<session, mKeyMap, keymapFile>>
      \/ /\ session' = "open" /\ keymapFile' = {}
         /\ mKeyMap' = [r \in Record |-> keymapFile \cap MapKeys(r)]
  BY DEF init, Loaded
<1>3. TracerTypeOK'
  <2>1. sessions' \in 0 .. MaxSessions
    BY <1>1, BoundsAssumption DEF TracerInv, TracerTypeOK
  <2>2. /\ mKeyMap' \in [Record -> SUBSET EncKey] /\ \A r \in Record : mKeyMap'[r] \subseteq MapKeys(r)
        /\ keymapFile' \subseteq EncKey \cup {CutKey} /\ session' \in {"closed", "open", "cut"}
    BY <1>1, <1>2, Fields DEF TracerInv, TracerTypeOK
  <2> QED
    BY <1>1, <2>1, <2>2 DEF TracerInv, TracerTypeOK
<1>4. KeysKnown'
  <2> SUFFICES ASSUME ~forgotten
               PROVE  /\ session' = "open" =>
                           \A r \in Record : {k \in KeysOf[r] : kept[k] # Never} \subseteq mKeyMap'[r]
                      /\ session' = "closed" => {k \in FieldKey : kept[k] # Never} \subseteq keymapFile'
    BY <1>1 DEF KeysKnown
  <2>1. {k \in FieldKey : kept[k] # Never} \subseteq keymapFile
    BY <1>1 DEF TracerInv, KeysKnown
  <2>2. ASSUME session' = "open", NEW r \in Record
        PROVE  {k \in KeysOf[r] : kept[k] # Never} \subseteq mKeyMap'[r]
    <3>1. mKeyMap'[r] = keymapFile \cap MapKeys(r)
      BY <1>1, <1>2, <2>2
    <3> QED
      BY <2>1, <3>1, Fields
  <2> QED
    BY <1>1, <1>2, <2>1, <2>2
<1>5. file \in Seq(Line) /\ Says(file, kept) /\ ReadBack(file)
  BY <1>1 DEF TracerInv
<1>6. file' \o opWriter' = file /\ opWriter' \in Seq(Line)
  BY <1>1, <1>5, ConcatEmptySeq
<1> QED
  BY <1>1, <1>3, <1>4, <1>5, <1>6 DEF TracerInv

LEMMA CleanupStep ==
  ASSUME TracerInv, cleanup
  PROVE  TracerInv'
<1>1. /\ session = "open" /\ session' = "closed" /\ file' = file \o opWriter
      /\ keymapFile' = UNION {mKeyMap[r] : r \in Record}
      /\ mKeyMap' = [r \in Record |-> {}] /\ opWriter' = <<>> /\ kept' = asked
      /\ UNCHANGED <<sessions, calls, forgotten, asked>>
  BY DEF cleanup, Merged
<1>2. TracerTypeOK'
  <2>1. \A r \in Record : mKeyMap[r] \subseteq EncKey
    BY Fields DEF TracerInv, TracerTypeOK
  <2>2. keymapFile' \subseteq EncKey
    BY <1>1, <2>1
  <2> QED
    BY <1>1, <2>2 DEF TracerInv, TracerTypeOK
<1>3. KeysKnown'
  <2>1. ~forgotten => \A r \in Record : {k \in KeysOf[r] : asked[k] # Never} \subseteq mKeyMap[r]
    BY <1>1 DEF TracerInv, KeysKnown
  <2>2. ~forgotten => {k \in FieldKey : asked[k] # Never} \subseteq keymapFile'
    BY <1>1, <2>1 DEF FieldKey
  <2> QED
    BY <1>1, <2>2 DEF KeysKnown
<1>4. Says(file \o opWriter, asked) /\ ReadBack(file \o opWriter) /\ file \o opWriter \in Seq(Line)
  BY <1>1 DEF TracerInv
<1>5. opWriter' \in Seq(Line)
  BY <1>1
<1> QED
  BY <1>1, <1>2, <1>3, <1>4, <1>5 DEF TracerInv

LEMMA CrashStep ==
  ASSUME TracerInv, Crash
  PROVE  TracerInv'
<1>1. /\ session = "open" /\ (keymapFile' = keymapFile \/ keymapFile' \in MapRemains)
      /\ mKeyMap' = [r \in Record |-> {}] /\ opWriter' = <<>>
      /\ forgotten' = TRUE /\ asked' = kept /\ UNCHANGED <<sessions, calls, kept>>
      /\ \/ session' = "closed" /\ UNCHANGED file
         \/ session' = "cut" /\ \E part \in Remains : file' = file \o part
  BY DEF Crash
<1>2. TracerTypeOK'
  <2> DEFINE K == UNION {mKeyMap[r] : r \in Record}
  <2>1. \A r \in Record : mKeyMap[r] \subseteq EncKey /\ Part[r] \in EncKey
    BY Fields DEF TracerInv, TracerTypeOK
  <2>2. K \subseteq EncKey
    BY <2>1
  <2> HIDE DEF K
  <2>3. MapRemains \subseteq SUBSET (EncKey \cup {CutKey})
    <3> DEFINE Cuts == {{}, {CutKey}} \cup {{Part[r]} : r \in {s \in Record : mKeyMap[s] # {}}}
    <3>1. Cuts \cup {{}} \subseteq SUBSET (EncKey \cup {CutKey})
      BY <2>1
    <3>2. MapRemains = {keys \cup c : keys \in SUBSET K, c \in IF K = {} THEN {{}} ELSE Cuts}
      BY DEF MapRemains, K
    <3> HIDE DEF Cuts
    <3> QED
      BY <2>2, <3>1, <3>2
  <2>4. keymapFile' \subseteq EncKey \cup {CutKey}
    BY <1>1, <2>3 DEF TracerInv, TracerTypeOK
  <2> QED
    BY <1>1, <2>4 DEF TracerInv, TracerTypeOK
<1>3. KeysKnown'
  BY <1>1 DEF KeysKnown
<1>4. file \in Seq(Line) /\ opWriter \in Seq(Line)
  BY DEF TracerInv
<1>5. Remains \subseteq Seq(Line)
  <2> SUFFICES ASSUME NEW part \in Remains PROVE part \in Seq(Line)
    OBVIOUS
  <2>1. CASE \E n \in 0 .. Len(opWriter) : part = SubSeq(opWriter, 1, n)
    BY <1>4, <2>1
  <2>2. CASE \E n \in DOMAIN opWriter : \E l \in Cut(opWriter[n]) :
               part = Append(SubSeq(opWriter, 1, n - 1), l)
    <3>0. PICK n \in DOMAIN opWriter : \E l \in Cut(opWriter[n]) :
            part = Append(SubSeq(opWriter, 1, n - 1), l)
      BY <2>2
    <3>1. PICK l \in Cut(opWriter[n]) : part = Append(SubSeq(opWriter, 1, n - 1), l)
      BY <3>0
    <3>2. opWriter[n] \in Line
      BY <1>4
    <3>3. l \in Line
      <4> DEFINE w == opWriter[n]
      <4>1. CASE l = [w EXCEPT !.op = "bad"]
        BY <3>2, <4>1 DEF Line
      <4>2. CASE \E m \in CutSizes : l = [w EXCEPT !.size = m]
        BY <3>2, <4>2, BoundsAssumption DEF Line
      <4>3. CASE l = [w EXCEPT !.key = CutKey]
        BY <3>2, <4>3, Fields DEF Line
      <4>4. l \in Cut(w)
        OBVIOUS
      <4> HIDE DEF w
      <4> QED
        BY <4>1, <4>2, <4>3, <4>4 DEF Cut
    <3>4. SubSeq(opWriter, 1, n - 1) \in Seq(Line)
      BY <1>4
    <3> QED
      BY <3>1, <3>3, <3>4
  <2> QED
    BY <2>1, <2>2 DEF Remains
<1>6. file' \in Seq(Line) /\ opWriter' \in Seq(Line)
  <2>1. \A part \in Remains : file \o part \in Seq(Line)
    BY <1>4, <1>5, ConcatProperties
  <2>2. file' \in Seq(Line)
    BY <1>1, <1>4, <2>1
  <2>3. opWriter' \in Seq(Line)
    BY <1>1
  <2> QED
    BY <2>2, <2>3
<1>7. session' # "cut" => Says(file', kept') /\ ReadBack(file')
  BY <1>1 DEF TracerInv
<1>8. session' # "open"
  BY <1>1
<1> QED
  BY <1>2, <1>3, <1>6, <1>7, <1>8 DEF TracerInv

(* A call that writes the lines L.                                          *)
LEMMA CallStep ==
  ASSUME TracerInv, NEW L \in Seq(Line), Called(L), TracerTypeOK', KeysKnown',
         \A g : Goes(g, file \o opWriter, L) => Says(g, asked') /\ ReadBack(g)
  PROVE  TracerInv'
<1>1. /\ session = "open" /\ opWriter' = opWriter \o L
      /\ UNCHANGED <<file, keymapFile, session, sessions, forgotten, kept>>
  BY DEF Called
<1>2. file \in Seq(Line) /\ opWriter \in Seq(Line) /\ file \o opWriter \in Seq(Line)
  BY DEF TracerInv
<1>3. (file \o opWriter) \o L = file' \o opWriter' /\ opWriter' \in Seq(Line)
  BY <1>1, <1>2, ConcatAssociative, ConcatProperties
<1>4. Goes(file' \o opWriter', file \o opWriter, L)
  BY <1>2, <1>3, GoesOn
<1> QED
  BY <1>1, <1>2, <1>3, <1>4 DEF TracerInv

(* The keys K are put, and those in N known from then on.                   *)
LEMMA PutStep ==
  ASSUME TracerInv, NEW r \in Record, NEW K, NEW N \in SUBSET KeysOf[r], K \subseteq N, put(K, K),
         mKeyMap' = [mKeyMap EXCEPT ![r] = mKeyMap[r] \cup N]
  PROVE  TracerInv'
<1> DEFINE n == ValueSize[calls + 1]
           size == [k \in K |-> n]
           L == Lines("UPDATE", K, size)
           f == file \o opWriter
<1>1. /\ Called(L) /\ session = "open" /\ calls < MaxCalls /\ calls' = calls + 1
      /\ UNCHANGED <<file, keymapFile, session, sessions, forgotten, kept>>
      /\ asked' = [k \in EncKey |-> IF k \in K THEN n ELSE asked[k]]
  BY DEF put, Called
<1>2. TracerTypeOK /\ calls \in Nat /\ calls + 1 \in 1 .. MaxCalls
  BY <1>1, BoundsAssumption DEF TracerInv, TracerTypeOK
<1>3. n \in Nat /\ n > 0
  BY <1>2, ValuesAssumption
<1>4. K \subseteq EncKey /\ K \subseteq TraceKey /\ IsFiniteSet(K)
  BY Fields, KeysAssumption, FS_Subset
<1> HIDE DEF n
<1>5. OneEach(L, "UPDATE", K, size)
  <2>1. size \in [K -> Nat]
    BY <1>3
  <2> HIDE DEF size
  <2> QED
    BY <1>4, <2>1, LinesOf
<1> HIDE DEF L, f
<1>6. Says(f, asked) /\ ReadBack(f)
  BY <1>1 DEF TracerInv, f
<1>7. \A q \in Record : mKeyMap'[q] = IF q = r THEN mKeyMap[q] \cup N ELSE mKeyMap[q]
  BY <1>2 DEF TracerTypeOK
<1>8. TracerTypeOK'
  <2>1. \A q \in Record : mKeyMap'[q] \subseteq MapKeys(q)
    BY <1>2, <1>7, Fields DEF TracerTypeOK
  <2>2. mKeyMap' \in [Record -> SUBSET EncKey]
    <3>1. N \subseteq EncKey
      BY Fields
    <3> QED
      BY <1>2, <3>1 DEF TracerTypeOK
  <2>3. asked' \in [EncKey -> Int]
    BY <1>1, <1>2, <1>3 DEF TracerTypeOK
  <2>4. calls' \in 0 .. MaxCalls
    BY <1>1, <1>2
  <2> QED
    BY <1>1, <1>2, <2>1, <2>2, <2>3, <2>4 DEF TracerTypeOK
<1>9. KeysKnown'
  <2> SUFFICES ASSUME ~forgotten, NEW q \in Record, NEW k \in KeysOf[q], asked'[k] # Never
               PROVE  k \in mKeyMap'[q]
    BY <1>1 DEF KeysKnown
  <2>1. asked[k] # Never => k \in mKeyMap[q]
    BY <1>1 DEF TracerInv, KeysKnown
  <2>2. q # r => k \notin K
    BY Fields, KeysAssumption
  <2>3. asked'[k] = IF k \in K THEN n ELSE asked[k]
    BY <1>1, Fields
  <2> QED
    BY <1>7, <2>1, <2>2, <2>3
<1>10. ASSUME NEW g, Goes(g, f, L)
       PROVE  Says(g, asked') /\ ReadBack(g)
  <2>1. \A k \in EncKey : asked'[k] = IF k \in K THEN n ELSE asked[k]
    BY <1>1
  <2>2. \A k \in K : size[k] = n
    OBVIOUS
  <2> HIDE DEF size
  <2>3. Says(g, asked')
    BY <1>3, <1>4, <1>5, <1>6, <1>10, <2>1, <2>2, SaysUpdated
  <2>4. \A i \in DOMAIN L : L[i].op # "GET"
    BY <1>5 DEF OneEach
  <2>5. ReadBack(g)
    BY <1>6, <1>10, <2>4, ReadBackStill
  <2> QED
    BY <2>3, <2>5
<1>11. L \in Seq(Line)
  BY <1>5 DEF OneEach
<1> QED
  BY <1>1, <1>8, <1>9, <1>10, <1>11, CallStep DEF f

LEMMA ReadStep ==
  ASSUME TracerInv, NEW r \in Record, NEW K \in SUBSET MapKeys(r), read(K)
  PROVE  TracerInv'
<1> DEFINE size == [k \in K |-> IF asked[k] > 0 THEN asked[k] ELSE 0]
           L == Lines("GET", K, size)
           f == file \o opWriter
<1>1. /\ Called(L) /\ session = "open" /\ calls < MaxCalls /\ calls' = calls + 1
      /\ UNCHANGED <<file, keymapFile, session, sessions, forgotten, kept, mKeyMap, asked>>
  BY DEF read, Called
<1>2. calls \in Nat /\ TracerTypeOK /\ KeysKnown
  BY DEF TracerInv, TracerTypeOK
<1>3. K \subseteq EncKey /\ K \subseteq TraceKey /\ IsFiniteSet(K)
  BY Fields, FS_Subset
<1>4. /\ L \in Seq(Line)
      /\ \A i \in DOMAIN L : L[i].op = "GET" /\ L[i].key \in K /\ L[i].size = size[L[i].key]
  <2>1. asked \in [EncKey -> Int]
    BY <1>2 DEF TracerTypeOK
  <2>2. size \in [K -> Nat]
    BY <1>3, <2>1
  <2> HIDE DEF size
  <2> QED
    BY <1>3, <2>2, LinesOf DEF OneEach
<1>5. \A k \in K : size[k] > 0 => asked[k] = size[k]
  BY <1>2, <1>3 DEF TracerTypeOK
<1> HIDE DEF L, f, size
<1>6. Says(f, asked) /\ ReadBack(f)
  BY <1>1 DEF TracerInv, f
<1>7. calls' \in 0 .. MaxCalls
  BY <1>1, <1>2, BoundsAssumption
<1>8. TracerTypeOK'
  BY <1>1, <1>2, <1>7 DEF TracerTypeOK
<1>9. KeysKnown'
  BY <1>1, <1>2 DEF KeysKnown
<1>10. ASSUME NEW g, Goes(g, f, L)
       PROVE  Says(g, asked') /\ ReadBack(g)
  <2>1. \A i \in DOMAIN L : L[i].op = "GET" /\ L[i].op # "bad" /\ L[i].key \in Encoded
    BY <1>3, <1>4, Fields
  <2>2. Says(g, asked)
    BY <1>6, <1>10, <2>1, SaysStill
  <2>3. ASSUME NEW i \in DOMAIN L, L[i].size > 0
        PROVE  \E h \in DOMAIN f :
                 LastWrite(f, L[i].key, h, Len(f)) /\ f[h].op = "UPDATE" /\ f[h].size = L[i].size
    <3> DEFINE k == L[i].key
    <3>1. k \in EncKey /\ asked[k] = L[i].size /\ asked[k] > 0
      BY <1>3, <1>4, <1>5, <2>3
    <3>2. asked[k] # Never /\ asked[k] # Gone
      BY <3>1 DEF Never, Gone
    <3> HIDE DEF k
    <3>3. PICK h \in DOMAIN f : LastWrite(f, k, h, Len(f)) /\ f[h].size = asked[k]
      BY <1>6, <3>1, <3>2 DEF Says
    <3>4. f[h].op = "UPDATE"
      BY <1>6, <3>1, <3>3 DEF Says, LastWrite
    <3> QED
      BY <3>1, <3>3, <3>4 DEF k
  <2>4. ReadBack(g)
    BY <1>6, <1>10, <2>1, <2>3, ReadBackStill
  <2> QED
    BY <1>1, <2>2, <2>4
<1> QED
  BY <1>1, <1>4, <1>8, <1>9, <1>10, CallStep DEF f

LEMMA DeleteStep ==
  ASSUME TracerInv, NEW r \in Record, delete(r)
  PROVE  TracerInv'
<1> DEFINE M == mKeyMap[r]
           K == {Again[k] : k \in M}
           size == [k \in K |-> 0]
           L == Lines("DELETE", K, size)
           f == file \o opWriter
<1>1. /\ Called(L) /\ session = "open" /\ calls < MaxCalls /\ calls' = calls + 1
      /\ UNCHANGED <<file, keymapFile, session, sessions, forgotten, kept, mKeyMap>>
      /\ asked' = [k \in EncKey |-> IF k \in KeysOf[r] /\ asked[k] # Never THEN Gone ELSE asked[k]]
  BY DEF delete, Called
<1>2. calls \in Nat /\ TracerTypeOK /\ KeysKnown
  BY DEF TracerInv, TracerTypeOK
<1>3. M \subseteq EncKey /\ IsFiniteSet(M)
  <2>1. M \in SUBSET MapKeys(r)
    BY <1>2 DEF TracerTypeOK
  <2> QED
    BY <2>1, Fields, FS_Subset
<1> HIDE DEF M
<1>4. K \subseteq TraceKey /\ K \subseteq Encoded /\ K \cap EncKey = {}
  BY <1>3, Fields
<1>5. IsFiniteSet(K)
  <2>1. [k \in M |-> Again[k]] \in Surjection(M, K)
    BY DEF Surjection
  <2> QED
    BY <1>3, <2>1, FS_Surjection
<1> HIDE DEF K
<1>6. /\ L \in Seq(Line)
      /\ \A i \in DOMAIN L : L[i].op = "DELETE" /\ L[i].key \in K
  <2>1. size \in [K -> Nat]
    OBVIOUS
  <2> HIDE DEF size
  <2> QED
    BY <1>4, <1>5, <2>1, LinesOf DEF OneEach
<1> HIDE DEF L, f
<1>7. Says(f, asked) /\ ReadBack(f)
  BY <1>1 DEF TracerInv, f
<1>8. calls' \in 0 .. MaxCalls
  BY <1>1, <1>2, BoundsAssumption
<1>9. Gone # Never /\ Gone \in Int
  BY DEF Gone, Never
<1>10. \A k \in EncKey :
         asked'[k] = IF k \in KeysOf[r] /\ asked[k] # Never THEN Gone ELSE asked[k]
  BY <1>1
<1>11. TracerTypeOK'
  <2>1. asked' \in [EncKey -> Int]
    BY <1>1, <1>2, <1>9 DEF TracerTypeOK
  <2> QED
    BY <1>1, <1>2, <1>8, <2>1 DEF TracerTypeOK
<1>12. KeysKnown'
  <2> SUFFICES ASSUME ~forgotten, NEW q \in Record, NEW k \in KeysOf[q], asked'[k] # Never
               PROVE  k \in mKeyMap[q]
    BY <1>1 DEF KeysKnown
  <2>1. asked[k] # Never => k \in mKeyMap[q]
    BY <1>1, <1>2 DEF KeysKnown
  <2>2. asked[k] # Never
    BY <1>9, <1>10, Fields
  <2> QED
    BY <2>1, <2>2
<1>13. ASSUME NEW g, Goes(g, f, L)
       PROVE  Says(g, asked') /\ ReadBack(g)
  <2>1. \A k \in EncKey : asked'[k] = asked[k] \/ (asked'[k] = Gone /\ asked[k] # Never)
    BY <1>10
  <2>2. \A i \in DOMAIN L : /\ L[i].op # "bad" /\ L[i].key \in Encoded /\ L[i].key \notin EncKey
                            /\ L[i].op # "GET"
    BY <1>4, <1>6
  <2>3. Says(g, asked')
    BY <1>7, <1>13, <2>1, <2>2, SaysStill
  <2>4. ReadBack(g)
    BY <1>7, <1>13, <2>2, ReadBackStill
  <2> QED
    BY <2>3, <2>4
<1> QED
  BY <1>1, <1>6, <1>11, <1>12, <1>13, CallStep DEF f

LEMMA TraceStep ==
  ASSUME TracerInv, Trace
  PROVE  TracerInv'
<1>1. ASSUME NEW r \in Record, readAll(r)
      PROVE  TracerInv'
  <2>1. mKeyMap[r] \in SUBSET MapKeys(r)
    BY DEF TracerInv, TracerTypeOK
  <2> QED
    BY <1>1, <2>1, ReadStep DEF readAll
<1>2. ASSUME NEW r \in Record, NEW K \in SUBSET {k \in KeysOf[r] : asked[k] > 0}, read(K)
      PROVE  TracerInv'
  <2>1. K \in SUBSET MapKeys(r)
    BY Fields
  <2> QED
    BY <1>2, <2>1, ReadStep
<1>3. ASSUME NEW r \in Record, NEW K \in SUBSET KeysOf[r], update(r, K)
      PROVE  TracerInv'
  BY <1>3, PutStep DEF update, Known
<1>4. ASSUME NEW r \in Record, NEW k \in KeysOf[r], NEW K \in SUBSET (KeysOf[r] \ {k}),
             updateFails(r, K, k)
      PROVE  TracerInv'
  <2>1. K \cup {k} \in SUBSET KeysOf[r] /\ K \subseteq K \cup {k}
    OBVIOUS
  <2> DEFINE N == K \cup {k}
  <2>2. put(K, K) /\ mKeyMap' = [mKeyMap EXCEPT ![r] = mKeyMap[r] \cup N]
    BY <1>4 DEF updateFails, Known
  <2> HIDE DEF N
  <2>3. N \in SUBSET KeysOf[r] /\ K \subseteq N
    BY <2>1 DEF N
  <2> QED
    BY <2>2, <2>3, PutStep
<1> QED
  BY <1>1, <1>2, <1>3, <1>4, InitStep, CleanupStep, CrashStep, DeleteStep DEF Trace

-----------------------------------------------------------------------------
(* Both together.                                                           *)

LEMMA InitAll == TracedInit => AllInv
<1> SUFFICES ASSUME TracedInit PROVE AllInv
  OBVIOUS
<1>1. IInv /\ TracerInv
  BY InitIInv, InitTracer DEF TracedInit
<1>2. pc = "start" /\ invoked = FALSE
  BY DEF TracedInit, Init
<1>3. invoked \in BOOLEAN /\ ~invoked
  BY <1>2, Zenon
<1> QED
  BY <1>1, <1>2, <1>3 DEF AllInv

LEMMA NextAll == AllInv /\ [TracedNext]_all => AllInv'
<1> SUFFICES ASSUME AllInv, [TracedNext]_all PROVE AllInv'
  OBVIOUS
<1>1. /\ IInv /\ TracerInv /\ invoked \in BOOLEAN /\ (~invoked => pc = "start")
      /\ (invoked => trace = file /\ session # "open")
  BY DEF AllInv
<1>2. CASE Tracing
  <2>1. ~invoked /\ Trace /\ UNCHANGED <<options, trace, found, pc, drivers, store, di, bj, ran, pi, times, invoked>>
    BY <1>2 DEF Tracing, vars, given
  <2>2. trace' \in Seq(Line)
    BY <1>1, <2>1 DEF IInv, LoopInv
  <2>3. IInv' /\ TracerInv'
    BY <1>1, <2>1, <2>2, FileIInv, TraceStep
  <2>4. ~invoked' /\ pc' = "start" /\ invoked' \in BOOLEAN
    BY <1>1, <2>1
  <2> QED
    BY <2>3, <2>4 DEF AllInv
<1>3. CASE Invoke
  <2>1. /\ ~invoked /\ session # "open" /\ invoked' = TRUE /\ trace' = file /\ UNCHANGED tracer
        /\ UNCHANGED <<options, found, pc, drivers, store, di, bj, ran, pi, times>>
    BY <1>3 DEF Invoke
  <2>2. trace' \in Seq(Line)
    BY <1>1, <2>1 DEF TracerInv
  <2>3. IInv' /\ TracerInv'
    BY <1>1, <2>1, <2>2, FileIInv, TracerStill
  <2>4. file' = file /\ session' = session
    BY <2>1 DEF tracer
  <2>5. invoked' /\ invoked' \in BOOLEAN
    BY <2>1, Zenon
  <2> QED
    BY <2>1, <2>3, <2>4, <2>5 DEF AllInv
<1>4. CASE Replaying
  <2>1. invoked /\ Next /\ UNCHANGED tracer /\ UNCHANGED invoked
    BY <1>4 DEF Replaying
  <2>2. IInv' /\ TracerInv'
    BY <1>1, <2>1, NextIInv, TracerStill
  <2>3. UNCHANGED trace
    BY <2>1 DEF Next, Running, Finished, vars, Start, SetupDriver, CheckBenches, Exit, StartBench,
       NextBench, NextDriver, BenchesDone, FillData, Expired, ReadRandom, WriteRandom, LoopDone,
       GetDist, ReplayLine, ReplayDone, given
  <2>4. file' = file /\ session' = session
    BY <2>1 DEF tracer
  <2> QED
    BY <1>1, <2>1, <2>2, <2>3, <2>4 DEF AllInv
<1>5. CASE UNCHANGED all
  <2>1. UNCHANGED vars /\ UNCHANGED tracer /\ UNCHANGED invoked
    BY <1>5 DEF all
  <2>2. IInv' /\ TracerInv'
    BY <1>1, <2>1, NextIInv, TracerStill
  <2>3. UNCHANGED <<trace, pc, file, session>>
    BY <2>1 DEF vars, given, tracer
  <2> QED
    BY <1>1, <2>1, <2>2, <2>3 DEF AllInv
<1> QED
  BY <1>2, <1>3, <1>4, <1>5 DEF TracedNext

(* There is one last write, or none.                                        *)
LEMMA OneLastWrite ==
  ASSUME NEW T, NEW k, NEW n \in Nat, NEW i \in 1 .. n, LastWrite(T, k, i, n)
  PROVE  ~Unwritten(T, k, n) /\ \A j \in 1 .. n : LastWrite(T, k, j, n) => i = j
<1>1. T[i].key = k /\ T[i].op # "GET"
  BY DEF LastWrite
<1>2. ~Unwritten(T, k, n)
  BY <1>1 DEF Unwritten
<1>3. ASSUME NEW j \in 1 .. n, LastWrite(T, k, j, n)
      PROVE  i = j
  <2>1. ~(i < j)
    BY <1>3 DEF LastWrite
  <2>2. ~(j < i)
    BY <1>1, <1>3 DEF LastWrite
  <2> QED
    BY <2>1, <2>2
<1> QED
  BY <1>2, <1>3

(* What a key that is alone has of the replay is what was last written.     *)
LEMMA AloneReplayed ==
  ASSUME NEW n \in 0 .. Len(trace), trace \in Seq(Line), ReplayedTo(n),
         \A j \in DOMAIN trace : trace[j].key \in Encoded,
         NEW k \in Encoded, Alone(k)
  PROVE  LET now == store[Driver][Prefix[k]]
         IN  \/ now = found[Driver][Prefix[k]] /\ Unwritten(trace, k, n)
             \/ \E i \in 1 .. n : LastWrite(trace, k, i, n) /\ now = Written(trace[i])
<1> DEFINE S == Short(trace)
           p == Prefix[k]
<1>1. p \in TraceKey
  BY Fields, TraceAssumption
<1>2. ASSUME NEW i \in 1 .. n
      PROVE  (S[i].key = p <=> trace[i].key = k) /\ S[i].op = trace[i].op
  <2>1. i \in DOMAIN trace
    OBVIOUS
  <2>2. S[i].key = Prefix[trace[i].key] /\ S[i].op = trace[i].op
    BY <2>1, ShortFacts
  <2> QED
    BY <2>1, <2>2 DEF Alone
<1>3. \/ store[Driver][p] = found[Driver][p] /\ Unwritten(S, p, n)
      \/ \E i \in 1 .. n : LastWrite(S, p, i, n) /\ store[Driver][p] = Written(trace[i])
  BY <1>1 DEF ReplayedTo
<1> HIDE DEF S, p
<1>4. Unwritten(S, p, n) => Unwritten(trace, k, n)
  BY <1>2 DEF Unwritten
<1>5. ASSUME NEW i \in 1 .. n, LastWrite(S, p, i, n)
      PROVE  LastWrite(trace, k, i, n)
  <2>1. \A j \in i + 1 .. n : j \in 1 .. n
    OBVIOUS
  <2> QED
    BY <1>2, <1>5, <2>1 DEF LastWrite
<1> QED
  BY <1>3, <1>4, <1>5 DEF p

LEMMA WorkloadFollows == AllInv => WorkloadReplayed
<1> SUFFICES ASSUME AllInv, invoked, session # "cut"
             PROVE  /\ Replayed =>
                         \A k \in FieldKey :
                           LET now == store[Driver][Prefix[k]]
                           IN  Alone(k) /\ kept[k] # Gone /\ kept[k] < MAX_TRACE_VALUE =>
                                 now = IF kept[k] = Never THEN found[Driver][Prefix[k]] ELSE kept[k]
                    /\ pc = "replay" /\ pi <= Len(trace) =>
                         LET line == trace[pi]
                         IN  line.op = "GET" /\ Alone(line.key) /\ line.size \in 1 .. MAX_TRACE_VALUE - 1 =>
                               store[Driver][Prefix[line.key]] = line.size
  BY DEF WorkloadReplayed
<1>1. TypeOK /\ LoopInv /\ ReplayInv /\ trace = file /\ Says(trace, kept) /\ ReadBack(trace)
  BY DEF AllInv, IInv, TracerInv
<1>2. trace \in Seq(Line) /\ DOMAIN trace = 1 .. Len(trace) /\ Len(trace) \in Nat
  BY <1>1, Typed
<1>3. \A j \in DOMAIN trace : trace[j].key \in Encoded
  BY <1>1 DEF Says
<1>4. ASSUME Replayed, NEW k \in FieldKey, Alone(k), kept[k] # Gone, kept[k] < MAX_TRACE_VALUE
      PROVE  store[Driver][Prefix[k]] = IF kept[k] = Never THEN found[Driver][Prefix[k]] ELSE kept[k]
  <2>1. PICK n \in 0 .. Len(trace) :
          (n < Len(trace) => trace[n + 1].op = "bad") /\ ReplayedTo(n)
    BY <1>1, <1>4 DEF ReplayInv
  <2>2. n = Len(trace)
    <3>1. n < Len(trace) => n + 1 \in DOMAIN trace
      BY <1>2
    <3>2. \A j \in DOMAIN trace : trace[j].op # "bad"
      BY <1>1 DEF Says
    <3>3. ~(n < Len(trace))
      BY <2>1, <3>1, <3>2
    <3>4. Len(trace) \in Nat
      BY <1>2
    <3> QED
      BY <3>3, <3>4
  <2>3. k \in EncKey /\ k \in Encoded
    BY Fields
  <2> DEFINE now == store[Driver][Prefix[k]]
  <2>4. \/ now = found[Driver][Prefix[k]] /\ Unwritten(trace, k, n)
        \/ \E i \in 1 .. n : LastWrite(trace, k, i, n) /\ now = Written(trace[i])
    BY <1>2, <1>3, <1>4, <2>1, <2>3, AloneReplayed
  <2> HIDE DEF now
  <2>5. CASE kept[k] = Never
    <3>1. Unwritten(trace, k, n)
      BY <1>1, <2>2, <2>3, <2>5 DEF Says
    <3>2. \A i \in 1 .. n : ~LastWrite(trace, k, i, n)
      BY <3>1 DEF Unwritten, LastWrite
    <3> QED
      BY <2>4, <2>5, <3>2 DEF now
  <2>6. CASE kept[k] # Never
    <3>1. PICK i \in DOMAIN trace : LastWrite(trace, k, i, n) /\ trace[i].size = kept[k] /\ kept[k] > 0
      BY <1>1, <1>4, <2>2, <2>3, <2>6 DEF Says
    <3>2. trace[i].op = "UPDATE"
      BY <1>1, <2>3, <3>1 DEF Says, LastWrite
    <3>3. now = Written(trace[i])
      BY <1>2, <2>2, <2>4, <3>1, OneLastWrite
    <3> QED
      BY <1>4, <2>6, <3>1, <3>2, <3>3 DEF Written, Value, now
  <2> QED
    BY <2>5, <2>6
<1>5. ASSUME pc = "replay", pi <= Len(trace), trace[pi].op = "GET", Alone(trace[pi].key),
             trace[pi].size \in 1 .. MAX_TRACE_VALUE - 1
      PROVE  store[Driver][Prefix[trace[pi].key]] = trace[pi].size
  <2> DEFINE n == pi - 1
             k == trace[pi].key
  <2>1. pi \in 1 .. Len(trace) + 1 /\ ReplayedTo(n)
    BY <1>1, <1>5 DEF ReplayInv
  <2>2. pi \in DOMAIN trace /\ n \in 0 .. Len(trace) /\ n \in Nat
    BY <1>2, <1>5, <2>1
  <2>3. k \in Encoded /\ trace[pi].size > 0
    BY <1>3, <1>5, <2>2
  <2>4. PICK i \in 1 .. n : LastWrite(trace, k, i, n) /\ trace[i].op = "UPDATE" /\ trace[i].size = trace[pi].size
    BY <1>1, <1>5, <2>2, <2>3 DEF ReadBack
  <2> DEFINE now == store[Driver][Prefix[k]]
  <2> HIDE DEF n
  <2>5. \/ now = found[Driver][Prefix[k]] /\ Unwritten(trace, k, n)
        \/ \E j \in 1 .. n : LastWrite(trace, k, j, n) /\ now = Written(trace[j])
    BY <1>2, <1>3, <1>5, <2>1, <2>2, <2>3, AloneReplayed
  <2> HIDE DEF now, k
  <2>6. now = Written(trace[i])
    BY <2>2, <2>4, <2>5, OneLastWrite
  <2>7. Written(trace[i]) = trace[pi].size
    <3>1. trace[pi].size \in 1 .. MAX_TRACE_VALUE - 1
      BY <1>5, Zenon
    <3>2. MAX_TRACE_VALUE \in Nat
      BY DEF MAX_TRACE_VALUE
    <3>3. trace[pi].size < MAX_TRACE_VALUE
      BY <3>1, <3>2
    <3> QED
      BY <2>4, <3>3 DEF Written, Value
  <2> QED
    BY <2>6, <2>7 DEF now, k
<1> QED
  BY <1>4, <1>5

THEOREM AllAlways == TracedSpec => []AllInv
<1>1. TracedInit => AllInv
  BY InitAll
<1>2. AllInv /\ [TracedNext]_all => AllInv'
  BY NextAll
<1> QED
  BY <1>1, <1>2, PTL DEF TracedSpec

(* Type correctness of the tracer and of the load generator; in a benchmark *)
(* the loop counter is an index of its list of sizes.                       *)
THEOREM TypeCorrect == TracedSpec => []TracedTypeOK
<1>1. AllInv => TracedTypeOK
  BY DEF AllInv, IInv, TracerInv, TracedTypeOK
<1> QED
  BY <1>1, AllAlways, PTL

(* For any lists of targets and benchmarks: main() runs what was named on   *)
(* each target, in the order it was named, and no benchmark twice.  What    *)
(* "all" is to run is left open: the source runs the first of the table.    *)
THEOREM RequestsOnceAlways == TracedSpec => []RequestsRunOnce
<1>1. AllInv => RequestsRunOnce
  BY OneFor DEF AllInv
<1> QED
  BY <1>1, AllAlways, PTL

(* What _randomRW() accesses below n is there and has the size it measures, *)
(* or more on Redis, for the whole table of benchmarks, whatever has run    *)
(* before.                                                                  *)
THEOREM AccessesHitAlways == TracedSpec => []AccessesHit
<1>1. AllInv => AccessesHit
  BY OneFor DEF AllInv
<1> QED
  BY <1>1, AllAlways, PTL

(* After a benchmark of several sizes all that it filled has the last of    *)
(* them, in RAMCloud and in Tachyon.                                        *)
THEOREM SizesReplacedAlways == TracedSpec => []EachSizeReplaced
<1>1. AllInv => EachSizeReplaced
  BY OneFor DEF AllInv
<1> QED
  BY <1>1, AllAlways, PTL

(* getDist() is given no time that was not measured.                        *)
THEOREM MeasuredAlways == TracedSpec => []OnlyMeasuredTimes
<1>1. AllInv => OnlyMeasuredTimes
  BY OneFor DEF AllInv
<1> QED
  BY <1>1, AllAlways, PTL

(* ycsbReplay() leaves what the trace says, for any trace and whatever the  *)
(* store held, up to the limits of nextLog().                               *)
THEOREM ReplayFaithfulAlways == TracedSpec => []ReplayFaithful
<1>1. AllInv => ReplayFaithful
  BY Faithful DEF AllInv
<1> QED
  BY <1>1, AllAlways, PTL

(* The key map of the tracer has each key that was put, over any number of  *)
(* sessions, calls that fail, and restarts, until a crash loses it.         *)
THEOREM KeysKnownAlways == TracedSpec => []KeysKnown
<1>1. AllInv => KeysKnown
  BY DEF AllInv, TracerInv
<1> QED
  BY <1>1, AllAlways, PTL

(* The replay of a traced workload leaves what the workload put, and on the *)
(* way its GETs find what the workload read: for any number of records,     *)
(* sessions and crashes, but for keys that were deleted last, traces that   *)
(* are cut, keys that are confused and values of 4096 bytes or more.        *)
THEOREM WorkloadReplayedAlways == TracedSpec => []WorkloadReplayed
<1>1. AllInv => WorkloadReplayed
  BY WorkloadFollows
<1> QED
  BY <1>1, AllAlways, PTL
=============================================================================
