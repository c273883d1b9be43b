--------------------------- MODULE MCTracedReplay ---------------------------
(* Values of the constants of KVTracer and LoadGenerator for model checking. *)
EXTENDS TracedReplay

CONSTANTS r1, r2, k1, k2, k3, p1, a1, a2, a3, b1, q2, q3, cut

(* A record with two fields, and one with one.  The name of the second has  *)
(* a \: in it, and is so long that its keys, encoded once or twice, are the *)
(* same in their first 127 characters.  A field's name may be cut to one    *)
(* that is no field, or, of the second, not at all.                         *)
TwoRecords == [r \in {r1, r2} |-> IF r = r1 THEN {k1, k2} ELSE {k3}]
CutFields == [r \in {r1, r2} |-> IF r = r1 THEN p1 ELSE k3]
EncodedAgain ==
  [k \in {k1, k2, k3, p1} |-> CASE k = k1 -> a1 [] k = k2 -> a2 [] k = k3 -> a3 [] k = p1 -> b1]

TheKeys == {k1, k2, k3, p1, a1, a2, a3, b1, q2, q3, cut}
First127 ==
  [k \in TheKeys |-> CASE k = k2 -> q2 [] k \in {k3, a3} -> q3 [] OTHER -> k]

(* Two values are short, and one is too long.                               *)
Values == <<1, MAX_TRACE_VALUE, 3>>

(* Earlier runs have left objects of both kinds in Redis and Tachyon, and   *)
(* an aborted one the objects of a fill in the test table of RAMCloud.      *)
OldStore ==
  [t \in Target |-> [k \in Groups \cup TheKeys |->
     CASE t = "redis" /\ k \in Groups -> Overrun
       [] t = "ramcloud" /\ k \in Groups -> IF k <= 333333 THEN 10 ELSE Nothing
       [] t = "ramcloud" /\ k \in TheKeys -> Nothing
       [] OTHER -> 2]]
OldStores == {OldStore}

(* No trace: a few lists of targets, repeated, unknown and none, and "all"; *)
(* benchmarks that fill a table with small objects, then larger ones, names *)
(* that repeat, directly or as "all", and one that is not in the table.     *)
SomeTargets == {<<"ramcloud">>, <<"redis", "tachyon", "redis">>, <<"all">>, <<"ramloud">>, <<>>}
SomeBenches == {
  <<"uniformRandomRW", "zipfRandomRWSmallObj", "uniformRandomRW">>,
  <<"zipfRandomRWSmallObj", "zipfRandomReadMost">>,
  <<"all", "uniformRandomRWLargeObj", "ycsbReplay">>,
  <<"uniformRandomRWSmallObj", "uniformRandom">>,
  <<>> }

(* With a trace: its replay, on two stores one after the other.             *)
SomeOptions ==
  [targets : SomeTargets, benches : SomeBenches, traced : {FALSE}, sections : SUBSET Target] \cup
  {[targets |-> <<"redis", "ramcloud">>, benches |-> <<"ycsbReplay">>, traced |-> TRUE,
    sections |-> Target]}

NoFile == {<<>>}
=============================================================================
