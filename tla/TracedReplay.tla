---------------------------- MODULE TracedReplay ----------------------------
(***************************************************************************)
(* A workload of YCSB is traced, and the trace replayed by the load        *)
(* generator: KVTracer and LoadGenerator, one after the other, with the    *)
(* trace file between them.                                                *)
(***************************************************************************)
EXTENDS KVTracer, LoadGenerator

Encoded == EncKey \cup {Again[k] : k \in EncKey}
ASSUME KeysOfTraces == Encoded \cup {CutKey} \subseteq TraceKey

VARIABLE invoked   \* has the load generator been started?

all == <<tracer, vars, invoked>>

TracedInit == Untraced /\ Init /\ invoked = FALSE

(* YCSB is only run where the load generator is to replay its trace.        *)
Tracing == ~invoked /\ options.traced /\ Trace /\ UNCHANGED <<vars, invoked>>

Invoke ==
  /\ ~invoked /\ session # "open"
  /\ invoked' = TRUE
  /\ trace' = file
  /\ UNCHANGED <<tracer, pc, options, found, drivers, store, di, bj, ran, pi, times>>

Replaying == invoked /\ Next /\ UNCHANGED <<tracer, invoked>>

TracedNext == Tracing \/ Invoke \/ Replaying

TracedSpec == TracedInit /\ [][TracedNext]_all

-----------------------------------------------------------------------------
(* Type invariant of both.                                                  *)
TracedTypeOK == TypeOK /\ TracerTypeOK /\ invoked \in BOOLEAN

(* What the workload did to the tables of YCSB, the replay does to the      *)
(* store, over sessions and crashes whose trace was thrown away.  In the    *)
(* end each key has the value it was last given, and what it had before if  *)
(* it was given none; and on the way each GET finds the value that the      *)
(* workload read, when it read one.  (Left out are keys that were deleted   *)
(* last, of which the replay keeps the value, traces that are cut, keys of  *)
(* which others have the same first 127 characters, and values longer than  *)
(* 4095 bytes.)                                                             *)
Alone(k) == \A j \in Encoded \ {k} : Prefix[j] # Prefix[k]

WorkloadReplayed ==
  invoked /\ session # "cut" =>
    /\ Replayed =>
         \A k \in FieldKey :
           LET now == store[Driver][Prefix[k]]
           IN  Alone(k) /\ kept[k] # Gone /\ kept[k] < MAX_TRACE_VALUE =>
                 now = IF kept[k] = Never THEN found[Driver][Prefix[k]] ELSE kept[k]
    /\ pc = "replay" /\ pi <= Len(trace) =>
         LET line == trace[pi]
         IN  line.op = "GET" /\ Alone(line.key) /\ line.size \in 1 .. MAX_TRACE_VALUE - 1 =>
               store[Driver][Prefix[line.key]] = line.size
=============================================================================
