----------------------------- MODULE MallocTrace -----------------------------
(***************************************************************************)
(* malloc.c: malloc, free, calloc and realloc of the traced program are    *)
(* replaced by functions that time the call and print a line about it.     *)
(* The hook of a function times the function itself, called again; a flag  *)
(* that is off meanwhile, one per function, sends the inner call to libc.  *)
(*                                                                         *)
(* The flags are plain static variables that all threads of the program    *)
(* share.  A step of a thread is one access to what the threads share,     *)
(* with the local computation that follows it.  The file is compiled       *)
(* without optimization, for x86 (rdtsc): an access to a flag is a load or *)
(* a store of one byte, and a store becomes visible to other threads only  *)
(* when it leaves the store buffer of the processor, in order.             *)
(***************************************************************************)
EXTENDS Integers, Sequences, FiniteSets

CONSTANTS
  Thread,    \* the threads of the traced program
  Kind,      \* the replaced functions that it calls, malloc among them
  MaxCalls   \* bound: how many calls of the program per thread

ASSUME KindAssumption == "malloc" \in Kind /\ Kind \subseteq {"malloc", "free", "calloc", "realloc"}
ASSUME BoundAssumption == MaxCalls \in Nat

VARIABLES
  enabled,   \* the enable_*_hook flags in memory
  pending,   \* the stores of each thread that have not reached memory
  stack,     \* the calls each thread is in, the innermost first
  buffered,  \* does stdout have its buffer?
  calls,     \* how often the program has called, by thread
  served,    \* how often libc was called for the last call of each thread
  lines,     \* how many lines the trace has about it
  alone      \* was no other thread in the same function meanwhile?

vars == <<enabled, pending, stack, buffered, calls, served, lines, alone>>

Init ==
  /\ enabled = [k \in Kind |-> TRUE]
  /\ pending = [t \in Thread |-> <<>>]
  /\ stack = [t \in Thread |-> <<>>]
  /\ buffered = FALSE
  /\ calls = [t \in Thread |-> 0]
  /\ served = [t \in Thread |-> 0]
  /\ lines = [t \in Thread |-> 0]
  /\ alone = [t \in Thread |-> TRUE]

-----------------------------------------------------------------------------
(* A thread reads its own latest store, and memory if it has none.          *)
Stores(t, k) == {i \in DOMAIN pending[t] : pending[t][i].kind = k}
Seen(t, k) ==
  IF Stores(t, k) = {} THEN enabled[k]
  ELSE \E i \in Stores(t, k) : pending[t][i].on /\ \A j \in Stores(t, k) : j <= i

Set(t, k, b) == pending' = [pending EXCEPT ![t] = Append(@, [kind |-> k, on |-> b])]

At(t, l) == stack[t] # <<>> /\ Head(stack[t]).at = l
Running(t) == Head(stack[t]).kind    \* the innermost function
Called(t) == stack[t][Len(stack[t])].kind    \* the one the program called

Enter(st, k) == <<[kind |-> k, at |-> "check"]>> \o st
Goto(st, l) == <<[Head(st) EXCEPT !.at = l]>> \o Tail(st)

(* The innermost call returns: into the hook that times it, or into a       *)
(* printf that wanted a buffer.                                             *)
After == [timing |-> "print", buffering |-> "write"]
ReturnOnly(st) == Tail(st)   \* mutant: the caller does not go on
Return(st) == IF Len(st) = 1 THEN <<>> ELSE Goto(Tail(st), After[st[2].at])

(* Is the innermost call made for the program, not for printf?              *)
ForProgram(t) == \A i \in 2 .. Len(stack[t]) : stack[t][i].at # "buffering"

(* printf holds the lock of stdout, which its thread may take again.        *)
Prints(t) == \E i \in DOMAIN stack[t] : stack[t][i].at \in {"buffering", "write"}

-----------------------------------------------------------------------------
(* The program calls one of the functions.                                  *)
Call(t, k) ==
  /\ stack[t] = <<>> /\ calls[t] < MaxCalls
  /\ calls' = [calls EXCEPT ![t] = @ + 1]
  /\ served' = [served EXCEPT ![t] = 0]
  /\ lines' = [lines EXCEPT ![t] = 0]
  /\ stack' = [stack EXCEPT ![t] = Enter(@, k)]
  /\ UNCHANGED <<enabled, pending, buffered>>

(* Mutant: the call to libc is not followed by a return.                    *)
CheckOnly(t) ==
  /\ At(t, "check")
  /\ stack' = [stack EXCEPT ![t] = Goto(@, "clear")]
  /\ served' = [served EXCEPT ![t] = IF ~Seen(t, Running(t)) /\ ForProgram(t) THEN @ + 1 ELSE @]
  /\ UNCHANGED <<enabled, pending, buffered, calls, lines>>

(* Mutant: a call that finds the flag off waits until it is on.             *)
CheckAndWait(t) ==
  /\ At(t, "check") /\ Seen(t, Running(t))
  /\ stack' = [stack EXCEPT ![t] = Goto(@, "clear")]
  /\ UNCHANGED <<enabled, pending, buffered, calls, served, lines>>

(* The replaced function begins with a look at its flag.                    *)
Check(t) ==
  /\ At(t, "check")
  /\ IF Seen(t, Running(t))
       THEN stack' = [stack EXCEPT ![t] = Goto(@, "clear")] /\ UNCHANGED served
       ELSE /\ stack' = [stack EXCEPT ![t] = Return(@)]
            /\ served' = [served EXCEPT ![t] = IF ForProgram(t) THEN @ + 1 ELSE @]
  /\ UNCHANGED <<enabled, pending, buffered, calls, lines>>

(* It switches itself off, and its hook calls it again.                     *)
MallocFlag(k) == "malloc"    \* mutant: the flag of another function
Flag(k) == k

Clear(t) ==
  /\ At(t, "clear")
  /\ Set(t, Flag(Running(t)), FALSE)
  /\ stack' = [stack EXCEPT ![t] = Enter(Goto(@, "timing"), Running(t))]
  /\ UNCHANGED <<enabled, buffered, calls, served, lines>>

(* printf locks stdout, by an instruction that waits for the store buffer   *)
(* to be empty.  The first one in the program allocates stdout's buffer.    *)
PrintLine(t) ==
  /\ At(t, "print")
  /\ pending[t] = <<>> /\ \A u \in Thread \ {t} : ~Prints(u)
  /\ stack' = [stack EXCEPT ![t] = IF buffered THEN Goto(@, "write")
                                   ELSE Enter(Goto(@, "buffering"), "malloc")]
  /\ UNCHANGED <<enabled, pending, buffered, calls, served, lines>>

Write(t) ==
  /\ At(t, "write")
  /\ buffered' = TRUE
  /\ lines' = [lines EXCEPT ![t] = IF ForProgram(t) THEN @ + 1 ELSE @]
  /\ stack' = [stack EXCEPT ![t] = Goto(@, "reset")]
  /\ UNCHANGED <<enabled, pending, calls, served>>

(* Mutant: the flag stays off.                                              *)
ForgetReset(t) ==
  /\ At(t, "reset")
  /\ stack' = [stack EXCEPT ![t] = Return(@)]
  /\ UNCHANGED <<enabled, pending, buffered, calls, served, lines>>

(* The hook has returned: the function switches itself on, and returns.     *)
Reset(t) ==
  /\ At(t, "reset")
  /\ Set(t, Running(t), TRUE)
  /\ stack' = [stack EXCEPT ![t] = Return(@)]
  /\ UNCHANGED <<enabled, buffered, calls, served, lines>>

Drain(t) ==
  /\ pending[t] # <<>>
  /\ LET s == Head(pending[t]) IN enabled' = [enabled EXCEPT ![s.kind] = s.on]
  /\ pending' = [pending EXCEPT ![t] = Tail(@)]
  /\ UNCHANGED <<stack, buffered, calls, served, lines>>

-----------------------------------------------------------------------------
(* Is a thread in the function, or about to change its flag?                *)
Busy(t, k) ==
  \/ \E i \in DOMAIN stack[t] : stack[t][i].kind = k
  \/ Stores(t, k) # {}

Watch ==
  alone' = [t \in Thread |->
              IF stack'[t] = <<>> THEN alone[t]
              ELSE /\ stack[t] = <<>> \/ alone[t]
                   /\ (\A u \in Thread \ {t} : ~Busy(u, Called(t)))']

Step(t) == Check(t) \/ Clear(t) \/ PrintLine(t) \/ Write(t) \/ Reset(t)

Next ==
  /\ \E t \in Thread : Step(t) \/ Drain(t) \/ \E k \in Kind : Call(t, k)
  /\ Watch

Spec == Init /\ [][Next]_vars

(* Threads inside the functions go on, and stores reach memory.  When the   *)
(* program calls again is its own affair.                                   *)
FairSpec == Spec /\ \A t \in Thread : WF_vars(Step(t) /\ Watch) /\ WF_vars(Drain(t) /\ Watch)

-----------------------------------------------------------------------------
(* Properties.                                                              *)

Labels == {"check", "clear", "timing", "print", "buffering", "write", "reset"}

(* Type invariant.  All calls of a thread but the innermost are in a hook   *)
(* that waits for the one above.                                            *)
TypeOK ==
  /\ enabled \in [Kind -> BOOLEAN]
  /\ pending \in [Thread -> Seq([kind : Kind, on : BOOLEAN])]
  /\ stack \in [Thread -> Seq([kind : Kind, at : Labels])]
  /\ \A t \in Thread : \A i \in DOMAIN stack[t] : i > 1 <=> stack[t][i].at \in DOMAIN After
  /\ buffered \in BOOLEAN
  /\ calls \in [Thread -> 0 .. MaxCalls]
  /\ served \in [Thread -> Nat] /\ lines \in [Thread -> Nat]
  /\ alone \in [Thread -> BOOLEAN]

(* Whatever other threads do to the flags, a call of the program reaches    *)
(* libc once: no pointer is freed twice, and no block is lost.              *)
ServedOnce ==
  \A t \in Thread :
    /\ served[t] <= 1
    /\ stack[t] = <<>> /\ calls[t] > 0 => served[t] = 1

(* "flags to disable hooks to avoid recursion" (malloc.c:89): a call is in   *)
(* the trace with one line, neither left out because a thread left the flag *)
(* off, nor traced again by the call its own hook makes, unless another     *)
(* thread is in the same function at some time during the call.             *)
TracedOnce ==
  \A t \in Thread : calls[t] > 0 /\ stack[t] = <<>> /\ alone[t] => lines[t] = 1

(* Every call returns, although threads open the hooks of each other again  *)
(* and wait for stdout.                                                     *)
CallsReturn == \A t \in Thread : stack[t] # <<>> ~> stack[t] = <<>>
=============================================================================
