---------------------------- MODULE LoadGenerator ----------------------------
(***************************************************************************)
(* loadgenerator/: main() reads a configuration, brings up the drivers of  *)
(* the requested targets, runs the requested benchmarks on each of them,   *)
(* and leaves the stores to the destructors of the drivers.                *)
(*                                                                         *)
(* A benchmark of random accesses fills the store and then reads and       *)
(* writes objects at random for a limited time, once per object size; the  *)
(* replay benchmark follows a trace file.  Of a value only the length is   *)
(* modelled, and of the configuration which targets have their settings;   *)
(* RAMCloud's names a test table, as by default.  Calls of a store succeed *)
(* while benchmarks run, but for the read of what is not there.            *)
(***************************************************************************)
EXTENDS Integers, Sequences, FiniteSets, FiniteSetsExt, SequencesExt

CONSTANTS
  Operations,   \* the operations of a benchmark: 10000 in the source
  Options,      \* what it may be called with: targets, benches as split at the
                \* commas, traced if -w is given, sections of the configuration
  Traces,       \* the contents a trace file may have
  TraceKey,     \* the keys of the traces, and those that are read of them
  Prefix,       \* of each its first 127 characters
  Leftovers     \* what earlier runs may have left in the stores

ASSUME OperationsAssumption == Operations \in Nat /\ Operations % 10 = 0

ASSUME OptionsAssumption ==
  \A o \in Options :
    o.traced \in BOOLEAN /\ o.targets \in Seq(STRING) /\ o.benches \in Seq(STRING)

Line == [op : {"GET", "UPDATE", "DELETE", "bad"}, key : TraceKey, size : Nat]
ASSUME TraceAssumption ==
  /\ Traces \subseteq Seq(Line)
  /\ TraceKey \cap Nat = {}
  /\ Prefix \in [TraceKey -> TraceKey]
  /\ \A k \in TraceKey : Prefix[Prefix[k]] = Prefix[k]

(* The order in which main() sets the drivers up.                           *)
Targets == <<"ramcloud", "tachyon", "redis">>
Target == ToSet(Targets)

-----------------------------------------------------------------------------
(* The table of benchmarks.                                                 *)

Mix(sizes, dataSize, reads) ==
  [i \in DOMAIN sizes |->
     [keyLength |-> 30, objSize |-> sizes[i], dataSize |-> dataSize,
      reads |-> (Operations * reads) \div 10,
      writes |-> (Operations * (10 - reads)) \div 10]]

AllSizes == <<100, 1000, 10000, 100000, 1000000>>

Basic(reads) == Mix(AllSizes, 200000000, reads)
Small(reads) == Mix(<<10>>, 20000000, reads)
Large(reads) == Mix(<<1000000>>, 200000000, reads)

gBenchmarks == <<
  [name |-> "ycsbReplay",                    zipf |-> FALSE, params |-> <<>>],
  [name |-> "uniformRandomRW",               zipf |-> FALSE, params |-> Basic(5)],
  [name |-> "zipfRandomRW",                  zipf |-> TRUE, params |-> Basic(5)],
  [name |-> "uniformRandomReadMost",         zipf |-> FALSE, params |-> Basic(9)],
  [name |-> "zipfRandomReadMost",            zipf |-> TRUE, params |-> Basic(9)],
  [name |-> "uniformRandomWriteMost",        zipf |-> FALSE, params |-> Basic(1)],
  [name |-> "zipfRandomWriteMost",           zipf |-> TRUE, params |-> Basic(1)],
  [name |-> "uniformRandomRWSmallObj",       zipf |-> FALSE, params |-> Small(5)],
  [name |-> "zipfRandomRWSmallObj",          zipf |-> TRUE, params |-> Small(5)],
  [name |-> "uniformRandomReadMostSmallObj", zipf |-> FALSE, params |-> Small(9)],
  [name |-> "zipfRandomReadMostSmallObj",    zipf |-> TRUE, params |-> Small(9)],
  [name |-> "uniformRandomWriteMostSmallObj", zipf |-> FALSE, params |-> Small(1)],
  [name |-> "zipfRandomWriteMostSmallObj",   zipf |-> TRUE, params |-> Small(1)],
  [name |-> "uniformRandomRWLargeObj",       zipf |-> FALSE, params |-> Large(5)],
  [name |-> "zipfRandomRWLargeObj",          zipf |-> TRUE, params |-> Large(5)],
  [name |-> "uniformRandomReadMostLargeObj", zipf |-> FALSE, params |-> Large(9)],
  [name |-> "zipfRandomReadMostLargeObj",    zipf |-> TRUE, params |-> Large(9)],
  [name |-> "uniformRandomWriteMostLargeObj", zipf |-> FALSE, params |-> Large(1)],
  [name |-> "zipfRandomWriteMostLargeObj",   zipf |-> TRUE, params |-> Large(1)] >>

(* "The 20 accounts for additional overhead per object"                     *)
NumObjects(p) == p.dataSize \div (p.objSize + p.keyLength + 20)

(* The keys 0, 1, 2... of the random benchmarks in groups: where NumObjects *)
(* is n, group n + 1 holds just the key n, and group n the keys below n that *)
(* are in no smaller group.  A fill of n objects writes the groups up to n,  *)
(* all keys of a group.                                                      *)
Groups == UNION {{NumObjects(p) + b : p \in ToSet(gBenchmarks[k].params), b \in {0, 1}}
                 : k \in DOMAIN gBenchmarks}

FilledBelow(n) == {g \in Groups : g < n}    \* mutant: the last object is not there
Filled(n) == {g \in Groups : g <= n}

(* The key of a random access is below n; but when the 64 random bits, as a *)
(* double, round up to the quotient 1.0, the Zipf generator returns n.      *)
Picks(e, p) ==
  Filled(NumObjects(p)) \cup (IF e.zipf THEN {NumObjects(p) + 1} ELSE {})

(* The entries of the table that a name of the list stands for.             *)
Matches(name) == {k \in DOMAIN gBenchmarks : gBenchmarks[k].name = name \/ name = "all"}

Nothing == -1    \* no object under a key
Overrun == -2    \* an object that has what follows an array in memory, too
Contents == [Groups \cup TraceKey -> Nat \cup {Nothing, Overrun}]
Empty == [k \in Groups \cup TraceKey |-> Nothing]

ASSUME LeftoversAssumption == Leftovers \subseteq [Target -> Contents]

VARIABLES
  pc,      \* what the program does
  options, \* what it was called with
  trace,   \* the content of the file that -w names
  found,   \* what the stores held when it was
  drivers, \* the targets whose drivers are up, in order
  store,   \* what each target holds: the size of each value
  di, bj,  \* the loop counters of runBenchMarks()
  ran,     \* benchrun, as a sequence: the benchmarks run on each target
  pi,      \* the loop counter over the object sizes, or the lines of a trace
  times    \* the vector of measured times: its size, and how many are set

given == <<options, trace, found>>
vars == <<pc, given, drivers, store, di, bj, ran, pi, times>>

Init ==
  /\ pc = "start"
  /\ options \in Options
  /\ trace \in Traces
  /\ drivers = <<>>
  /\ found \in Leftovers /\ store = found
  /\ di = 1 /\ bj = 1 /\ pi = 0
  /\ ran = [t \in Target |-> <<>>]
  /\ times = [size |-> 0, set |-> 0]

-----------------------------------------------------------------------------
(* main().                                                                  *)

Requested ==
  {t \in Target : Contains(options.targets, "all") \/ Contains(options.targets, t)}
Missing == Requested \ ToSet(drivers)

(* testConfigs() exits unless the settings of all targets are there, those  *)
(* of the targets that are not requested too.                               *)
Start ==
  /\ pc = "start"
  /\ pc' = IF options.sections # Target THEN "exit"
           ELSE IF Requested = {} THEN "exit" ELSE "setup"
  /\ UNCHANGED <<given, drivers, store, di, bj, ran, pi, times>>

(* The setup of the next driver, but for the object its smoke test leaves   *)
(* behind.  When init() fails, main() exits, or an exception nobody catches *)
(* ends the program.                                                        *)
SetupDriver ==
  LET t == Targets[Min({i \in DOMAIN Targets : Targets[i] \in Missing})]
  IN  /\ pc = "setup" /\ Missing # {}
      /\ \/ drivers' = Append(drivers, t) /\ UNCHANGED pc
         \/ pc' \in {"exit", "aborted"} /\ UNCHANGED drivers
      /\ UNCHANGED <<given, store, di, bj, ran, pi, times>>

(* runBenchMarks() looks up all names before it runs anything.              *)
CheckBenches ==
  /\ pc = "setup" /\ Missing = {}
  /\ pc' = IF options.benches # <<>> /\ \A i \in DOMAIN options.benches :
                                           Matches(options.benches[i]) # {}
             THEN "bench" ELSE "exit"
  /\ UNCHANGED <<given, drivers, store, di, bj, ran, pi, times>>

(* The destructors of the drivers that are up: reset() drops the test table *)
(* of RAMCloud, or throws, which ends the program, and the path of Tachyon, *)
(* or prints that it failed.  It leaves the keys in Redis.                  *)
Exit ==
  /\ pc = "exit"
  /\ \E dropped \in SUBSET (ToSet(drivers) \ {"redis"}) :
       /\ store' = [t \in Target |-> IF t \in dropped THEN Empty ELSE store[t]]
       /\ IF "ramcloud" \in ToSet(drivers) \ dropped THEN pc' = "aborted"
          ELSE pc' \in {"exited"} \cup (IF "ramcloud" \in dropped THEN {"aborted"} ELSE {})
  /\ UNCHANGED <<given, drivers, di, bj, ran, pi, times>>

-----------------------------------------------------------------------------
(* runBenchMarks(): for each driver, for each name, the first entry of the  *)
(* table that matches, unless it has run.                                   *)

Driver == drivers[di]
Entry == gBenchmarks[Min(Matches(options.benches[bj]))]
AscendingParam == Entry.params[Len(Entry.params) + 1 - pi]
Param == Entry.params[pi]

NeverRan == FALSE
HasRun == Contains(ran[Driver], Entry.name)

(* uniformRandomRW() and zipfRandomRW() start with the last of the sizes.   *)
PastLast(e) == Len(e.params) + 1
LastSize(e) == Len(e.params)

(* The trace file may be missing, or not open.                              *)
StartBench ==
  /\ pc = "bench" /\ di <= Len(drivers) /\ bj <= Len(options.benches)
  /\ ~HasRun
  /\ ran' = [ran EXCEPT ![Driver] = Append(@, Entry.name)]
  /\ IF Entry.name # "ycsbReplay"
       THEN pc' = "fill" /\ pi' = LastSize(Entry)
       ELSE \/ options.traced /\ pc' = "replay" /\ pi' = 1
            \/ pc' = "benchDone" /\ pi' = 0
  /\ times' = [size |-> 0, set |-> 0]
  /\ UNCHANGED <<given, drivers, store, di, bj>>

NextBench ==
  /\ \/ pc = "benchDone"
     \/ pc = "bench" /\ di <= Len(drivers) /\ bj <= Len(options.benches) /\ HasRun
  /\ pc' = "bench" /\ bj' = bj + 1
  /\ UNCHANGED <<given, drivers, store, di, ran, pi, times>>

NextDriver ==
  /\ pc = "bench" /\ di <= Len(drivers) /\ bj > Len(options.benches)
  /\ di' = di + 1 /\ bj' = 1
  /\ UNCHANGED <<pc, given, drivers, store, ran, pi, times>>

BenchesDone ==
  /\ pc = "bench" /\ di > Len(drivers)
  /\ pc' = "exit"
  /\ UNCHANGED <<given, drivers, store, di, bj, ran, pi, times>>

-----------------------------------------------------------------------------
(* _randomRW(), once per size.                                              *)

Put(t, K, n) == [store EXCEPT ![t] = [k \in DOMAIN @ |-> IF k \in K THEN n ELSE @[k]]]

(* What arrives of an array of n bytes.  Redis gets a string: it goes on    *)
(* after the array, up to a zero byte.                                      *)
Sent(t, n) == IF t = "redis" THEN Overrun ELSE n

FillData ==
  /\ pc = "fill"
  /\ store' = Put(Driver, Filled(NumObjects(Param)), Sent(Driver, Param.objSize))
  /\ pc' = "read"
  /\ times' = [size |-> Param.reads, set |-> 0]
  /\ UNCHANGED <<given, drivers, di, bj, ran, pi>>

(* The loops stop when the time is up: the vector shrinks to what was       *)
(* measured.                                                                *)
NotResized == times
Resized == [times EXCEPT !.size = times.set]

Expired ==
  /\ pc \in {"read", "write"} /\ times.set < times.size
  /\ times' = Resized
  /\ pc' = IF pc = "read" THEN "readDist" ELSE "writeDist"
  /\ UNCHANGED <<given, drivers, store, di, bj, ran, pi>>

(* Whether a read may succeed, or not: RAMCloud throws at a key without an  *)
(* object, and nobody catches it; of an empty object its buffer may have no *)
(* address to copy from.  The other drivers say nothing.                    *)
ReadSucceeds(k) ==
  CASE Driver # "ramcloud" \/ store[Driver][k] \notin {Nothing, 0} -> {TRUE}
    [] Driver = "ramcloud" /\ store[Driver][k] = Nothing -> {FALSE}
    [] Driver = "ramcloud" /\ store[Driver][k] = 0 -> BOOLEAN

ReadRandom ==
  /\ pc = "read" /\ times.set < times.size
  /\ \E k \in Picks(Entry, Param) : \E ok \in ReadSucceeds(k) :
       IF ok THEN times' = [times EXCEPT !.set = @ + 1] /\ UNCHANGED pc
       ELSE pc' = "aborted" /\ UNCHANGED times
  /\ UNCHANGED <<given, drivers, store, di, bj, ran, pi>>

WriteRandom ==
  /\ pc = "write" /\ times.set < times.size
  /\ \E k \in Picks(Entry, Param) : store' = Put(Driver, {k}, Sent(Driver, Param.objSize))
  /\ times' = [times EXCEPT !.set = @ + 1]
  /\ UNCHANGED <<pc, given, drivers, di, bj, ran, pi>>

LoopDone ==
  /\ pc \in {"read", "write"} /\ times.set = times.size
  /\ pc' = IF pc = "read" THEN "readDist" ELSE "writeDist"
  /\ UNCHANGED <<given, drivers, store, di, bj, ran, pi, times>>

(* getDist() sorts the vector and picks from it, the first element always:  *)
(* when there is none, that is undefined behaviour.  The writes, or the next *)
(* size, follow.                                                             *)
GetDist ==
  /\ pc \in {"readDist", "writeDist"}
  /\ \/ times.size = 0 /\ pc' = "aborted" /\ UNCHANGED <<pi, times>>
     \/ /\ pc = "readDist"
        /\ pc' = "write" /\ times' = [size |-> Param.writes, set |-> 0]
        /\ UNCHANGED pi
     \/ /\ pc = "writeDist"
        /\ pi' = pi - 1
        /\ pc' = IF pi = 1 THEN "benchDone" ELSE "fill"
        /\ UNCHANGED times
  /\ UNCHANGED <<given, drivers, store, di, bj, ran>>

-----------------------------------------------------------------------------
(* ycsbReplay(): stops at the first line that nextLog() cannot parse.  A key *)
(* is cut at 127 characters; a value of 4096 or more is cut without a zero  *)
(* byte at its end.  There is no delete in a driver: the empty value takes  *)
(* the place of an object.                                                  *)
MAX_TRACE_VALUE == 4096

Value(n) == IF n < MAX_TRACE_VALUE THEN n ELSE Overrun

(* Mutant: the end of the string is written with it.                        *)
DeleteWithEnd(line) == IF line.op = "DELETE" THEN 1 ELSE Value(line.size)
Written(line) == IF line.op = "DELETE" THEN 0 ELSE Value(line.size)

ReplayLine ==
  LET line == trace[pi]
  IN  /\ pc = "replay" /\ pi <= Len(trace) /\ line.op # "bad"
      /\ \/ /\ line.op = "GET" /\ UNCHANGED store
            /\ \E ok \in ReadSucceeds(Prefix[line.key]) : pc' = IF ok THEN "replay" ELSE "aborted"
         \/ /\ line.op # "GET" /\ UNCHANGED pc
            /\ store' = Put(Driver, {Prefix[line.key]}, Written(line))
      /\ pi' = pi + 1
      /\ times' = [size |-> times.size + 1, set |-> times.set + 1]
      /\ UNCHANGED <<given, drivers, di, bj, ran>>

TraceEnds == pi \in DOMAIN trace => trace[pi].op = "bad"

(* getDist() again, perhaps of no times at all.                             *)
ReplayDone ==
  /\ pc = "replay" /\ TraceEnds
  /\ pc' \in IF times.size = 0 THEN {"benchDone", "aborted"} ELSE {"benchDone"}
  /\ UNCHANGED <<given, drivers, store, di, bj, ran, pi, times>>

-----------------------------------------------------------------------------
Ended == pc \in {"exited", "aborted"}

Finished == Ended /\ UNCHANGED vars

Running ==
  \/ Start \/ SetupDriver \/ CheckBenches \/ Exit
  \/ StartBench \/ NextBench \/ NextDriver \/ BenchesDone
  \/ FillData \/ Expired \/ ReadRandom \/ WriteRandom \/ LoopDone \/ GetDist
  \/ ReplayLine \/ ReplayDone

Next == Running \/ Finished

Spec == Init /\ [][Next]_vars

-----------------------------------------------------------------------------
(* Properties.                                                              *)

InBenchmark == pc \in {"fill", "read", "readDist", "write", "writeDist", "replay"}

(* Type invariant.  In a random benchmark the loop counter is an index of   *)
(* its parameters.                                                          *)
TypeOK ==
  /\ pc \in {"start", "setup", "bench", "fill", "read", "readDist", "write", "writeDist",
             "replay", "benchDone", "exit", "exited", "aborted"}
  /\ drivers \in SeqOf(Target, 3)
  /\ store \in [Target -> Contents] /\ found \in [Target -> Contents]
  /\ di \in 1..4 /\ bj \in Nat
  /\ ran \in [Target -> Seq({gBenchmarks[k].name : k \in DOMAIN gBenchmarks})]
  /\ times \in [size : Nat, set : Nat] /\ times.set <= times.size
  /\ pi \in Nat /\ (InBenchmark /\ pc # "replay" => pi \in DOMAIN Entry.params)

(* When all is done, each driver that was set up has run each benchmark the *)
(* user named, once, in the order they were first named, no matter how      *)
(* often a name came; and no benchmark twice, whether it was named or came  *)
(* with "all".                                                              *)
Before(name, other) ==
  LET B == options.benches
  IN  \E i \in DOMAIN B : B[i] = name /\ \A j \in 1..i : B[j] # other

RequestsRunOnce ==
  drivers # <<>> /\ di > Len(drivers) =>
    \A t \in Target :
      LET names == IF Contains(drivers, t) THEN ToSet(options.benches) ELSE {}
      IN  /\ names \ {"all"} \subseteq ToSet(ran[t])
          /\ \A a, b \in DOMAIN ran[t] : a # b => ran[t][a] # ran[t][b]
          /\ "all" \notin names =>
               /\ ToSet(ran[t]) = names
               /\ \A a, b \in DOMAIN ran[t] : a < b => Before(ran[t][a], ran[t][b])

(* While a benchmark accesses objects at random, all keys below n, of which *)
(* it should be, have objects of the size being measured, whatever the      *)
(* benchmarks and the sizes before it have left, or runs before this one.   *)
(* (The key n, that the Zipf generator may return, need not have one; and   *)
(* on Redis an object has the size of the array, or more.)                  *)
AccessesHit ==
  pc \in {"read", "write"} =>
    \A g \in Groups : g <= NumObjects(Param) =>
      store[Driver][g] = IF Driver = "redis" THEN Overrun ELSE Param.objSize

(* "each iteration will replace all of the objects created by the previous  *)
(* iteration": after a benchmark over several sizes what any of them filled *)
(* has the last one, in the stores that are told the size.                  *)
EachSizeReplaced ==
  pc = "benchDone" /\ Len(Entry.params) > 1 /\ Driver # "redis" =>
    \A p \in ToSet(Entry.params) : \A g \in Groups :
      g <= NumObjects(p) => store[Driver][g] = Entry.params[1].objSize

(* getDist() gets a vector of measured times only, also when the time       *)
(* expired: no percentile is one of the zeros the vector starts with.       *)
OnlyMeasuredTimes == pc \in {"readDist", "writeDist"} => times.set = times.size

(* After a replay each key of the trace has what its last UPDATE or DELETE  *)
(* before the first unreadable line says, and what it had without one: as   *)
(* far as another key of the trace is not the same in its first 127         *)
(* characters, and a value not longer than 4095 bytes.                      *)
Replayed == pc = "benchDone" /\ Entry.name = "ycsbReplay" /\ pi > 0

ReplayFaithful ==
  LET T == trace
      Read == {i \in DOMAIN T : \A j \in 1..i : T[j].op # "bad"}
      Writes(k) == {i \in Read : T[i].key = k /\ T[i].op # "GET"}
      Final(k) == T[Max(Writes(k))]
      Confused(k) == \E i \in Read : T[i].key # k /\ Prefix[T[i].key] = Prefix[k]
  IN  Replayed =>
        \A k \in TraceKey :
          LET now == store[Driver][Prefix[k]]
          IN  \/ Confused(k)
              \/ /\ Writes(k) = {} => now = found[Driver][Prefix[k]]
                 /\ Writes(k) # {} /\ Final(k).op = "DELETE" => now = 0
                 /\ Writes(k) # {} /\ Final(k).op = "UPDATE" /\ Final(k).size < MAX_TRACE_VALUE =>
                      now = Final(k).size
=============================================================================
