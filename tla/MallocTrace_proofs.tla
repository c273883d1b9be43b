------------------------- MODULE MallocTrace_proofs -------------------------
(***************************************************************************)
(* MallocTrace: a call of the program reaches libc once whatever the other *)
(* threads do to the flags, and has one line in the trace if no other      *)
(* thread was in the same function; for any number of threads and calls.   *)
(***************************************************************************)
EXTENDS MallocTrace, TLAPS

-----------------------------------------------------------------------------
(* The inductive invariant.                                                 *)

Frame == [kind : Kind, at : Labels]
Store == [kind : Kind, on : BOOLEAN]

(* A frame at one of these has switched its function off, and not on again. *)
Opened == {"timing", "print", "buffering", "write", "reset"}

Off(t, k) ==
  \E i \in DOMAIN stack[t] : stack[t][i].kind = k /\ stack[t][i].at \in Opened

(* The latest store of t to the flag of k that is on its way, if any,       *)
(* switches the function on.                                                *)
LastOn(t, k) == Stores(t, k) = {} \/ Seen(t, k)

(* A flag that is off is going to be switched on by somebody.               *)
FlagInv ==
  \A k \in Kind :
    /\ \A t \in Thread : Off(t, k) \/ LastOn(t, k)
    /\ enabled[k] \/ \E t \in Thread : Off(t, k) \/ Stores(t, k) # {}

(* libc was called for the program as soon as the innermost hook has timed  *)
(* a call, or a printf wants its buffer.                                    *)
Reached(t) == ~ForProgram(t) \/ Head(stack[t]).at \in {"print", "write", "reset"}

ServedInv(t) ==
  /\ stack[t] # <<>> => calls[t] > 0
  /\ served[t] = IF calls[t] > 0 /\ (stack[t] = <<>> \/ Reached(t)) THEN 1 ELSE 0

(* Where thread t can be if it alone is in the function that the program    *)
(* called: the hook runs once, and what it calls finds the flag off.  The   *)
(* malloc of a printf is of the same function only if that is malloc.       *)
Course(t, k) ==
  LET st == stack[t]
      n  == Len(st)
  IN  /\ Seen(t, k) <=> (n = 1 /\ st[1].at \in {"check", "clear"})
      /\ lines[t] = IF n = 1 /\ st[1].at = "reset" THEN 1 ELSE 0
      /\ (n > 1 /\ st[n].at = "timing") => n = 2 /\ st[1].kind = k /\ st[1].at = "check"
      /\ (n > 1 /\ st[n].at = "buffering") =>
           /\ \A i \in 1 .. n - 1 : st[i].kind = "malloc"
           /\ k = "malloc" => n = 2 /\ st[1].at = "check"

TraceInv(t) ==
  alone[t] =>
    IF stack[t] = <<>> THEN calls[t] > 0 => lines[t] = 1
    ELSE \A k \in Kind : k = Called(t) =>
           Course(t, k) /\ \A u \in Thread \ {t} : ~Busy(u, k)

IInv ==
  /\ TypeOK
  /\ FlagInv
  /\ \A t \in Thread : ServedInv(t) /\ TraceInv(t)

-----------------------------------------------------------------------------
(* Stacks.                                                                  *)

LEMMA Kinds == "malloc" \in Kind
  BY KindAssumption

(* The program's call is the last frame, the innermost one the first.       *)
LEMMA Frames ==
  ASSUME TypeOK, NEW t \in Thread, stack[t] # <<>>
  PROVE  /\ stack[t] \in Seq(Frame) /\ Len(stack[t]) \in Nat \ {0}
         /\ DOMAIN stack[t] = 1 .. Len(stack[t])
         /\ Head(stack[t]) = stack[t][1] /\ Running(t) = stack[t][1].kind
         /\ \A i \in 1 .. Len(stack[t]) :
              /\ stack[t][i] \in Frame
              /\ i > 1 <=> stack[t][i].at \in {"timing", "buffering"}
<1>1. stack[t] \in Seq(Frame)
  BY DEF TypeOK, Frame
<1>2. DOMAIN After = {"timing", "buffering"}
  BY DEF After
<1>3. \A i \in DOMAIN stack[t] : i > 1 <=> stack[t][i].at \in {"timing", "buffering"}
  BY <1>2 DEF TypeOK
<1> QED
  BY <1>1, <1>3 DEF Running

LEMMA GotoFrames ==
  ASSUME NEW st \in Seq(Frame), st # <<>>, NEW l \in Labels
  PROVE  /\ Goto(st, l) \in Seq(Frame) /\ Len(Goto(st, l)) = Len(st)
         /\ Goto(st, l)[1].kind = st[1].kind /\ Goto(st, l)[1].at = l
         /\ \A i \in 2 .. Len(st) : Goto(st, l)[i] = st[i]
<1> DEFINE f == [Head(st) EXCEPT !.at = l]
<1>1. Head(st) \in Frame /\ Head(st) = st[1] /\ Tail(st) \in Seq(Frame)
      /\ Len(Tail(st)) = Len(st) - 1 /\ Len(st) \in Nat \ {0}
      /\ \A i \in 2 .. Len(st) : Tail(st)[i - 1] = st[i]
  OBVIOUS
<1>2. f \in Frame /\ f.kind = st[1].kind /\ f.at = l
  BY <1>1 DEF Frame
<1>3. Goto(st, l) = <<f>> \o Tail(st)
  BY DEF Goto
<1> HIDE DEF f
<1> QED
  BY <1>1, <1>2, <1>3

LEMMA EnterFrames ==
  ASSUME NEW st \in Seq(Frame), NEW k \in Kind
  PROVE  /\ Enter(st, k) \in Seq(Frame) /\ Len(Enter(st, k)) = Len(st) + 1
         /\ Enter(st, k)[1].kind = k /\ Enter(st, k)[1].at = "check"
         /\ \A i \in 1 .. Len(st) : Enter(st, k)[i + 1] = st[i]
  BY DEF Enter, Frame, Labels

LEMMA ReturnFrames ==
  ASSUME NEW st \in Seq(Frame), Len(st) > 1, st[2].at \in {"timing", "buffering"}
  PROVE  /\ Return(st) \in Seq(Frame) /\ Len(Return(st)) = Len(st) - 1
         /\ Return(st)[1].kind = st[2].kind
         /\ Return(st)[1].at = IF st[2].at = "timing" THEN "print" ELSE "write"
         /\ \A i \in 2 .. Len(st) - 1 : Return(st)[i] = st[i + 1]
<1>1. Tail(st) \in Seq(Frame) /\ Tail(st) # <<>> /\ Len(Tail(st)) = Len(st) - 1
  <2>1. Tail(st) \in Seq(Frame) /\ Len(Tail(st)) = Len(st) - 1
    OBVIOUS
  <2>2. Len(Tail(st)) # Len(<<>>)
    BY <2>1
  <2> QED
    BY <2>1, <2>2
<1>2. \A i \in 1 .. Len(st) - 1 : Tail(st)[i] = st[i + 1]
  OBVIOUS
<1>3. After[st[2].at] = IF st[2].at = "timing" THEN "print" ELSE "write"
  <2>1. After["timing"] = "print" /\ After["buffering"] = "write"
    BY DEF After
  <2> QED
    BY <2>1
<1> DEFINE l == After[st[2].at]
<1>4. l \in Labels /\ l = IF st[2].at = "timing" THEN "print" ELSE "write"
  BY <1>3 DEF Labels
<1>5. Return(st) = Goto(Tail(st), l)
  BY DEF Return
<1> HIDE DEF l
<1>6. /\ Goto(Tail(st), l) \in Seq(Frame) /\ Len(Goto(Tail(st), l)) = Len(Tail(st))
      /\ Goto(Tail(st), l)[1].kind = Tail(st)[1].kind /\ Goto(Tail(st), l)[1].at = l
      /\ \A i \in 2 .. Len(Tail(st)) : Goto(Tail(st), l)[i] = Tail(st)[i]
  BY <1>1, <1>4, GotoFrames
<1>7. Tail(st)[1] = st[2] /\ Len(st) \in Nat
  OBVIOUS
<1>8. ASSUME NEW i \in 2 .. Len(st) - 1
      PROVE  Return(st)[i] = st[i + 1]
  <2>1. i \in 2 .. Len(Tail(st)) /\ i \in 1 .. Len(st) - 1
    BY <1>1, <1>7
  <2> QED
    BY <2>1, <1>2, <1>5, <1>6
<1> QED
  BY <1>1, <1>4, <1>5, <1>6, <1>7, <1>8

-----------------------------------------------------------------------------
(* Flags.                                                                   *)

LEMMA StoresAre ==
  ASSUME TypeOK, NEW t \in Thread
  PROVE  /\ pending[t] \in Seq(Store) /\ Len(pending[t]) \in Nat
         /\ \A k : Stores(t, k) = {i \in 1 .. Len(pending[t]) : pending[t][i].kind = k}
<1>1. pending[t] \in Seq(Store)
  BY DEF TypeOK, Store
<1>2. DOMAIN pending[t] = 1 .. Len(pending[t]) /\ Len(pending[t]) \in Nat
  BY <1>1
<1> QED
  BY <1>1, <1>2 DEF Stores

(* A store that is added is the latest one.                                 *)
LEMMA SetSeen ==
  ASSUME TypeOK, NEW t \in Thread, NEW k \in Kind, NEW b \in BOOLEAN,
         Set(t, k, b), UNCHANGED enabled
  PROVE  /\ pending'[t] \in Seq(Store) /\ \A u \in Thread \ {t} : pending'[u] = pending[u]
         /\ Stores(t, k)' # {} /\ (Seen(t, k)' <=> b) /\ (b => LastOn(t, k)')
         /\ \A j \in Kind \ {k} : /\ Stores(t, j)' = Stores(t, j)
                                  /\ Seen(t, j)' <=> Seen(t, j)
                                  /\ LastOn(t, j) => LastOn(t, j)'
<1> DEFINE n == Len(pending[t])
           s == [kind |-> k, on |-> b]
<1>1. n \in Nat /\ pending[t] \in Seq(Store) /\ s \in Store
  BY StoresAre DEF Store
<1>2. pending'[t] = Append(pending[t], s) /\ \A u \in Thread \ {t} : pending'[u] = pending[u]
  BY DEF Set, TypeOK
<1>3. /\ pending'[t] \in Seq(Store) /\ DOMAIN pending'[t] = 1 .. n + 1
      /\ pending'[t][n + 1] = s /\ \A i \in 1 .. n : pending'[t][i] = pending[t][i]
  BY <1>1, <1>2
<1>4. DOMAIN pending[t] = 1 .. n
  BY <1>1
<1>5. n + 1 \in Stores(t, k)' /\ \A j \in Stores(t, k)' : j <= n + 1
  BY <1>1, <1>3 DEF Stores
<1>6. ASSUME NEW i \in Stores(t, k)', \A j \in Stores(t, k)' : j <= i
      PROVE  i = n + 1
  BY <1>1, <1>3, <1>5, <1>6 DEF Stores
<1>7. pending'[t][n + 1].on = b
  BY <1>3
<1>8. Seen(t, k)' <=> b
  BY <1>5, <1>6, <1>7 DEF Seen
<1>9. b => LastOn(t, k)'
  BY <1>8 DEF LastOn
<1>10. ASSUME NEW j \in Kind \ {k}
       PROVE  Stores(t, j)' = Stores(t, j)
  BY <1>1, <1>3, <1>4 DEF Stores
<1>11. ASSUME NEW j \in Kind \ {k}
       PROVE  \A i \in Stores(t, j) : pending'[t][i] = pending[t][i]
  BY <1>3, <1>4 DEF Stores
<1>12. ASSUME NEW j \in Kind \ {k}
       PROVE  /\ Seen(t, j)' <=> Seen(t, j)
              /\ LastOn(t, j) => LastOn(t, j)'
  BY <1>10, <1>11 DEF Seen, LastOn
<1> QED
  BY <1>2, <1>3, <1>5, <1>8, <1>9, <1>10, <1>12

(* A store that reaches memory says there what the thread saw before.       *)
LEMMA DrainSeen ==
  ASSUME TypeOK, NEW t \in Thread, Drain(t)
  PROVE  /\ pending'[t] \in Seq(Store) /\ \A u \in Thread \ {t} : pending'[u] = pending[u]
         /\ enabled' \in [Kind -> BOOLEAN]
         /\ \A k \in Kind : /\ Seen(t, k)' <=> Seen(t, k)
                            /\ LastOn(t, k) => LastOn(t, k)'
                            /\ Stores(t, k) = {} => enabled'[k] = enabled[k]
                            /\ LastOn(t, k) => \/ enabled'[k] \/ Stores(t, k)' # {}
                                               \/ Stores(t, k) = {}
<1> DEFINE n == Len(pending[t])
           s == Head(pending[t])
<1>1. n \in Nat /\ n > 0 /\ pending[t] \in Seq(Store) /\ s = pending[t][1]
      /\ s.kind \in Kind /\ s.on \in BOOLEAN
  <2>1. pending[t] \in Seq(Store) /\ pending[t] # <<>>
    BY StoresAre DEF Drain
  <2>2. n \in Nat /\ n > 0 /\ s = pending[t][1] /\ s \in Store
    BY <2>1
  <2> QED
    BY <2>1, <2>2 DEF Store
<1>2. pending'[t] = Tail(pending[t]) /\ \A u \in Thread \ {t} : pending'[u] = pending[u]
  BY DEF Drain, TypeOK
<1>3. /\ enabled'[s.kind] = s.on
      /\ \A k \in Kind : k # s.kind => enabled'[k] = enabled[k]
      /\ enabled' \in [Kind -> BOOLEAN]
  BY <1>1 DEF Drain, TypeOK
<1>4. /\ pending'[t] \in Seq(Store) /\ DOMAIN pending'[t] = 1 .. n - 1
      /\ \A i \in 1 .. n - 1 : pending'[t][i] = pending[t][i + 1]
      /\ DOMAIN pending[t] = 1 .. n
  BY <1>1, <1>2
<1>5. ASSUME NEW k \in Kind
      PROVE  /\ Seen(t, k)' <=> Seen(t, k)
             /\ LastOn(t, k) => LastOn(t, k)'
             /\ Stores(t, k) = {} => enabled'[k] = enabled[k]
             /\ LastOn(t, k) => enabled'[k] \/ Stores(t, k)' # {} \/ Stores(t, k) = {}
  <2> DEFINE S == Stores(t, k)
             R == Stores(t, k)'
  <2>1. S = {i \in 1 .. n : pending[t][i].kind = k}
    BY <1>4 DEF Stores
  <2>2. R = {i \in 1 .. n - 1 : pending[t][i + 1].kind = k}
    BY <1>4 DEF Stores
  <2>3. \A i \in R : i + 1 \in S /\ pending'[t][i] = pending[t][i + 1]
    BY <2>1, <2>2, <1>1, <1>4
  <2>4. \A i \in S : i = 1 \/ i - 1 \in R
    BY <2>1, <2>2, <1>1
  <2>5. S \subseteq Nat /\ R \subseteq Nat \ {0}
    BY <2>1, <2>2, <1>1
  <2>6. 1 \in S <=> s.kind = k
    BY <2>1, <1>1
  <2> HIDE DEF S, R
  <2>7. ASSUME NEW i \in R
        PROVE  (\A j \in R : j <= i) <=> (\A j \in S : j <= i + 1)
    BY <2>3, <2>4, <2>5, <2>7
  <2>8. ASSUME R # {}
        PROVE  (\E i \in R : pending'[t][i].on /\ \A j \in R : j <= i)
                 <=> (\E i \in S : pending[t][i].on /\ \A j \in S : j <= i)
    <3>1. ASSUME NEW i \in R, pending'[t][i].on, \A j \in R : j <= i
          PROVE  \E m \in S : pending[t][m].on /\ \A j \in S : j <= m
      <4>1. i + 1 \in S /\ pending[t][i + 1].on
        BY <2>3, <3>1
      <4>2. \A j \in S : j <= i + 1
        BY <2>7, <3>1
      <4> QED
        BY <4>1, <4>2
    <3>2. ASSUME NEW i \in S, pending[t][i].on, \A j \in S : j <= i
          PROVE  \E m \in R : pending'[t][m].on /\ \A j \in R : j <= m
      <4>1. PICK r \in R : TRUE
        BY <2>8
      <4>2. i # 1
        BY <2>3, <2>5, <3>2, <4>1
      <4>3. i - 1 \in R /\ (i - 1) + 1 = i
        BY <4>2, <2>4, <2>5
      <4>4. pending'[t][i - 1].on
        BY <4>3, <2>3, <3>2
      <4>5. \A j \in R : j <= i - 1
        BY <4>3, <2>7, <3>2
      <4> QED
        BY <4>3, <4>4, <4>5
    <3> QED
      BY <3>1, <3>2
  <2>9. CASE R # {}
    <3>1. Seen(t, k)' <=> Seen(t, k)
      <4>1. S # {}
        BY <2>3, <2>9
      <4> QED
        BY <4>1, <2>8, <2>9 DEF Seen, S, R
    <3>2. LastOn(t, k) => LastOn(t, k)'
      BY <3>1, <2>3, <2>9 DEF LastOn, S
    <3>3. S # {}
      BY <2>3, <2>9
    <3> QED
      BY <3>1, <3>2, <3>3, <2>9 DEF S, R
  <2>10. CASE R = {} /\ S = {}
    <3>1. enabled'[k] = enabled[k]
      BY <2>6, <2>10, <1>3
    <3>2. Seen(t, k)' <=> Seen(t, k)
      BY <3>1, <2>10 DEF Seen, S, R
    <3>3. LastOn(t, k)'
      BY <2>10 DEF LastOn, R
    <3> QED
      BY <3>1, <3>2, <3>3, <2>10 DEF S
  <2>11. CASE R = {} /\ S # {}
    <3>1. S = {1}
      BY <2>4, <2>11
    <3>2. enabled'[k] = pending[t][1].on
      BY <3>1, <2>6, <1>1, <1>3
    <3>3. Seen(t, k)' <=> enabled'[k]
      BY <2>11 DEF Seen, R
    <3>4. Seen(t, k) <=> pending[t][1].on
      BY <3>1 DEF Seen, S
    <3>5. LastOn(t, k) => pending[t][1].on
      BY <3>1, <3>4 DEF LastOn, S
    <3>6. LastOn(t, k)'
      BY <2>11 DEF LastOn, R
    <3> QED
      BY <3>2, <3>3, <3>4, <3>5, <3>6, <2>11 DEF S
  <2> QED
    BY <2>9, <2>10, <2>11
<1> QED
  BY <1>2, <1>3, <1>4, <1>5
-----------------------------------------------------------------------------
(* What every step of a thread does.                                        *)

LEMMA WatchFacts ==
  ASSUME TypeOK, Watch, NEW t \in Thread
  PROVE  /\ alone' \in [Thread -> BOOLEAN]
         /\ stack'[t] = <<>> => (alone'[t] <=> alone[t])
         /\ (alone'[t] /\ stack'[t] # <<>> /\ stack[t] # <<>>) => alone[t]
         /\ (alone'[t] /\ stack'[t] # <<>>) =>
              \A k \in Kind : k = Called(t)' => \A u \in Thread \ {t} : ~Busy(u, k)'
<1>1. alone' \in [Thread -> BOOLEAN]
  <2>1. \A u \in Thread : alone[u] \in BOOLEAN
    BY DEF TypeOK
  <2> QED
    BY <2>1 DEF Watch
<1>2. stack'[t] = <<>> => (alone'[t] <=> alone[t])
  BY DEF Watch
<1>3. (alone'[t] /\ stack'[t] # <<>> /\ stack[t] # <<>>) => alone[t]
  BY DEF Watch
<1>4. (alone'[t] /\ stack'[t] # <<>>) =>
        \A k \in Kind : k = Called(t)' => \A u \in Thread \ {t} : ~Busy(u, k)'
  BY DEF Watch, Busy, Stores
<1> QED
  BY <1>1, <1>2, <1>3, <1>4

(* A step of thread t leaves the others where they are, and touches only    *)
(* flags that it has stores for.                                            *)
Others(t) ==
  \A u \in Thread \ {t} :
    /\ stack'[u] = stack[u] /\ pending'[u] = pending[u]
    /\ calls'[u] = calls[u] /\ served'[u] = served[u] /\ lines'[u] = lines[u]

Flags(t) ==
  \A k \in Kind :
    /\ enabled'[k] = enabled[k] \/ Stores(t, k) # {}
    /\ Off(t, k)' \/ LastOn(t, k)'
    /\ Off(t, k) \/ Stores(t, k) # {} => enabled'[k] \/ Off(t, k)' \/ Stores(t, k)' # {}

StepOf(t) ==
  TypeOK' /\ Others(t) /\ Flags(t) /\ ServedInv(t)' /\ TraceInv(t)'

LEMMA FlagsStay ==
  ASSUME IInv, NEW t \in Thread, StepOf(t)
  PROVE  FlagInv'
<1>1. ASSUME NEW k \in Kind, NEW u \in Thread, u # t
      PROVE  /\ Off(u, k)' <=> Off(u, k)
             /\ LastOn(u, k)' <=> LastOn(u, k)
             /\ Stores(u, k)' = Stores(u, k)
  <2>1. stack'[u] = stack[u] /\ pending'[u] = pending[u]
    BY <1>1 DEF StepOf, Others
  <2>2. Stores(u, k)' = Stores(u, k)
    BY <2>1 DEF Stores
  <2>3. Off(u, k)' <=> Off(u, k)
    BY <2>1 DEF Off
  <2>4. LastOn(u, k)' <=> LastOn(u, k)
    BY <2>1, <2>2 DEF LastOn, Seen
  <2> QED
    BY <2>2, <2>3, <2>4
<1>2. ASSUME NEW k \in Kind, NEW u \in Thread
      PROVE  Off(u, k)' \/ LastOn(u, k)'
  BY <1>1 DEF StepOf, Flags, IInv, FlagInv
<1>3. ASSUME NEW k \in Kind
      PROVE  enabled'[k] \/ \E u \in Thread : Off(u, k)' \/ Stores(u, k)' # {}
  <2>1. CASE enabled[k] /\ enabled'[k] = enabled[k]
    BY <2>1
  <2>2. CASE Off(t, k) \/ Stores(t, k) # {}
    BY <2>2 DEF StepOf, Flags
  <2>3. CASE \E u \in Thread \ {t} : Off(u, k) \/ Stores(u, k) # {}
    BY <2>3, <1>1
  <2> QED
    BY <2>1, <2>2, <2>3 DEF StepOf, Flags, IInv, FlagInv
<1> QED
  BY <1>2, <1>3 DEF FlagInv

LEMMA ServedStays ==
  ASSUME IInv, NEW t \in Thread, StepOf(t), NEW u \in Thread
  PROVE  ServedInv(u)'
<1>1. CASE u = t
  BY <1>1 DEF StepOf
<1>2. CASE u # t
  <2>1. stack'[u] = stack[u] /\ calls'[u] = calls[u] /\ served'[u] = served[u]
    BY <1>2 DEF StepOf, Others
  <2>2. ServedInv(u)
    BY DEF IInv
  <2> QED
    BY <2>1, <2>2 DEF ServedInv, Reached, ForProgram
<1> QED
  BY <1>1, <1>2

(* No store to the flag of a function that u is alone in reaches memory.    *)
LEMMA CourseStays ==
  ASSUME IInv, Watch, NEW t \in Thread, StepOf(t), NEW u \in Thread
  PROVE  TraceInv(u)'
<1>1. CASE u = t
  BY <1>1 DEF StepOf
<1>2. CASE u # t
  <2>1. stack'[u] = stack[u] /\ calls'[u] = calls[u] /\ lines'[u] = lines[u]
        /\ pending'[u] = pending[u]
    BY <1>2 DEF StepOf, Others
  <2>2. TraceInv(u)
    BY DEF IInv
  <2> SUFFICES ASSUME alone'[u]
               PROVE  IF stack'[u] = <<>> THEN calls'[u] > 0 => lines'[u] = 1
                      ELSE \A k \in Kind : k = Called(u)' =>
                             Course(u, k)' /\ \A v \in Thread \ {u} : ~Busy(v, k)'
    BY DEF TraceInv
  <2>3. alone[u]
    BY <2>1, WatchFacts DEF IInv
  <2>4. CASE stack[u] = <<>>
    BY <2>1, <2>2, <2>3, <2>4 DEF TraceInv
  <2>5. CASE stack[u] # <<>>
    <3> SUFFICES ASSUME NEW k \in Kind, k = Called(u)'
                 PROVE  Course(u, k)' /\ \A v \in Thread \ {u} : ~Busy(v, k)'
      BY <2>1, <2>5
    <3>1. k = Called(u)
      BY <2>1 DEF Called
    <3>2. Course(u, k) /\ ~Busy(t, k)
      BY <2>2, <2>3, <2>5, <3>1, <1>2 DEF TraceInv
    <3>3. enabled'[k] = enabled[k]
      BY <3>2 DEF StepOf, Flags, Busy
    <3>4. Seen(u, k)' <=> Seen(u, k)
      BY <2>1, <3>3 DEF Seen, Stores
    <3>5. Course(u, k)'
      BY <2>1, <3>2, <3>4 DEF Course
    <3>6. \A v \in Thread \ {u} : ~Busy(v, k)'
      BY <2>1, <2>5, WatchFacts DEF IInv
    <3> QED
      BY <3>5, <3>6
  <2> QED
    BY <2>4, <2>5
<1> QED
  BY <1>1, <1>2

LEMMA StepKeeps ==
  ASSUME IInv, Watch, NEW t \in Thread, StepOf(t)
  PROVE  IInv'
BY FlagsStay, ServedStays, CourseStays DEF IInv, StepOf

-----------------------------------------------------------------------------
(* A step that replaces the stack of t.                                     *)

LEMMA StackType ==
  ASSUME TypeOK, Watch, NEW t \in Thread, NEW st \in Seq(Frame),
         stack' = [stack EXCEPT ![t] = st],
         \A i \in 1 .. Len(st) : i > 1 <=> st[i].at \in {"timing", "buffering"},
         enabled' \in [Kind -> BOOLEAN],
         pending' \in [Thread -> Seq(Store)],
         buffered' \in BOOLEAN,
         calls' \in [Thread -> 0 .. MaxCalls],
         served' \in [Thread -> Nat], lines' \in [Thread -> Nat]
  PROVE  /\ TypeOK'
         /\ stack'[t] = st /\ \A u \in Thread \ {t} : stack'[u] = stack[u]
<1>1. stack'[t] = st /\ \A u \in Thread \ {t} : stack'[u] = stack[u]
  BY DEF TypeOK
<1>2. stack' \in [Thread -> Seq(Frame)]
  BY DEF TypeOK, Frame
<1>3. DOMAIN After = {"timing", "buffering"}
  BY DEF After
<1>4. \A u \in Thread : \A i \in DOMAIN stack'[u] : i > 1 <=> stack'[u][i].at \in DOMAIN After
  <2>1. \A i \in DOMAIN stack'[t] : i > 1 <=> stack'[t][i].at \in DOMAIN After
    BY <1>1, <1>3
  <2> QED
    BY <1>1, <2>1 DEF TypeOK
<1>5. alone' \in [Thread -> BOOLEAN]
  BY WatchFacts
<1> QED
  BY <1>1, <1>2, <1>4, <1>5 DEF TypeOK, Frame, Store

(* What of t's flags does not change if neither its stores nor memory does. *)
LEMMA FlagsKept ==
  ASSUME IInv, NEW t \in Thread, UNCHANGED <<enabled, pending>>,
         \A k \in Kind : Off(t, k)' <=> Off(t, k)
  PROVE  Flags(t) /\ \A k \in Kind : Seen(t, k)' <=> Seen(t, k)
<1>1. \A k : Stores(t, k)' = Stores(t, k)
  BY DEF Stores
<1>2. ASSUME NEW k \in Kind
      PROVE  /\ LastOn(t, k)' <=> LastOn(t, k)
             /\ Seen(t, k)' <=> Seen(t, k)
  BY <1>1 DEF LastOn, Seen
<1> QED
  BY <1>1, <1>2 DEF Flags, IInv, FlagInv

-----------------------------------------------------------------------------
(* The steps, one by one.                                                   *)

(* What a thread is in that alone runs k, has called something, and is not  *)
(* at the call that finds k switched off: printf's malloc, not k.           *)
LEMMA InPrintf ==
  ASSUME TypeOK, NEW t \in Thread, NEW k \in Kind, Course(t, k),
         stack[t] # <<>>, k = Called(t), Len(stack[t]) > 1,
         ~(stack[t][1].kind = k /\ stack[t][1].at = "check")
  PROVE  /\ k # "malloc" /\ ~Seen(t, k) /\ lines[t] = 0
         /\ stack[t][Len(stack[t])].at = "buffering"
         /\ \A i \in 1 .. Len(stack[t]) - 1 : stack[t][i].kind = "malloc"
<1> DEFINE n == Len(stack[t])
<1>1. n \in Nat /\ stack[t][n].at \in {"timing", "buffering"}
  BY Frames
<1>2. stack[t][n].at = "buffering"
  BY <1>1 DEF Course
<1>3. \A i \in 1 .. n - 1 : stack[t][i].kind = "malloc"
  BY <1>2 DEF Course
<1>4. stack[t][1].kind = "malloc"
  BY <1>1, <1>3
<1>5. k # "malloc"
  BY <1>1, <1>2, <1>4 DEF Course
<1>6. ~Seen(t, k) /\ lines[t] = 0
  BY <1>1 DEF Course
<1> QED
  BY <1>2, <1>3, <1>5, <1>6

(* There it can call and return without any effect on the call of k, as     *)
(* long as the frame of k is not reached again.                             *)
LEMMA StaysInPrintf ==
  ASSUME NEW t \in Thread, NEW k \in Kind, NEW st \in Seq(Frame), Len(st) > 1,
         k # "malloc", ~Seen(t, k)', lines'[t] = 0, stack'[t] = st,
         st[Len(st)].at = "buffering",
         \A i \in 1 .. Len(st) - 1 : st[i].kind = "malloc"
  PROVE  Course(t, k)'
<1>1. Len(st) \in Nat
  OBVIOUS
<1> QED
  BY <1>1 DEF Course

LEMMA CheckOpens ==
  ASSUME IInv, Watch, NEW t \in Thread, Check(t), Seen(t, Running(t))
  PROVE  StepOf(t)
<1>1. stack[t] # <<>> /\ stack[t][1].at = "check"
  BY Frames DEF IInv, Check, At
<1>2. PICK st : st = Goto(stack[t], "clear")
  OBVIOUS
<1>0. PICK n \in Nat \ {0} : n = Len(stack[t])
  BY <1>1, Frames DEF IInv
<1>3. /\ stack[t] \in Seq(Frame) /\ n = Len(stack[t])
      /\ Running(t) = stack[t][1].kind /\ Head(stack[t]) = stack[t][1]
      /\ DOMAIN stack[t] = 1 .. n
      /\ \A i \in 1 .. n : /\ stack[t][i] \in Frame
                           /\ i > 1 <=> stack[t][i].at \in {"timing", "buffering"}
  BY <1>0, <1>1, Frames DEF IInv
<1>4. /\ st \in Seq(Frame) /\ Len(st) = n /\ DOMAIN st = 1 .. n
      /\ st[1].kind = stack[t][1].kind /\ st[1].at = "clear"
      /\ \A i \in 2 .. n : st[i] = stack[t][i]
      /\ st # <<>> /\ Head(st) = st[1]
  <2>1. /\ st \in Seq(Frame) /\ Len(st) = n
        /\ st[1].kind = stack[t][1].kind /\ st[1].at = "clear"
        /\ \A i \in 2 .. n : st[i] = stack[t][i]
    BY <1>1, <1>2, <1>3, GotoFrames DEF Labels
  <2> QED
    BY <2>1, <1>3
<1>5. /\ stack' = [stack EXCEPT ![t] = st]
      /\ UNCHANGED <<enabled, pending, buffered, calls, served, lines>>
  BY <1>2 DEF Check
<1>6. \A i \in 1 .. Len(st) : i > 1 <=> st[i].at \in {"timing", "buffering"}
  BY <1>3, <1>4
<1>7. TypeOK' /\ stack'[t] = st /\ \A u \in Thread \ {t} : stack'[u] = stack[u]
  BY <1>4, <1>5, <1>6, StackType DEF IInv, TypeOK, Store
<1>8. Others(t)
  BY <1>5, <1>7 DEF Others
<1>9. ASSUME NEW k \in Kind
      PROVE  Off(t, k)' <=> Off(t, k)
  BY <1>1, <1>3, <1>4, <1>7 DEF Off, Opened
<1>10. Flags(t) /\ \A k \in Kind : Seen(t, k)' <=> Seen(t, k)
  BY <1>5, <1>9, FlagsKept
<1>11. ServedInv(t)'
  <2>1. ForProgram(t)' <=> ForProgram(t)
    BY <1>3, <1>4, <1>7 DEF ForProgram
  <2>2. ServedInv(t)
    BY DEF IInv
  <2> QED
    BY <2>1, <2>2, <1>1, <1>3, <1>4, <1>5, <1>7 DEF ServedInv, Reached
<1>12. ASSUME alone'[t], NEW k \in Kind, k = Called(t)'
       PROVE  Course(t, k)'
  <2>1. k = Called(t)
    BY <1>3, <1>4, <1>7, <1>12 DEF Called
  <2>2. Course(t, k)
    BY <2>1, <1>1, <1>4, <1>7, <1>12, WatchFacts DEF IInv, TraceInv
  <2>3. CASE n = 1
    BY <2>2, <2>3, <1>1, <1>3, <1>4, <1>5, <1>7, <1>10 DEF Course
  <2>4. CASE n > 1
    <3>1. stack[t][1].kind # k
      BY <2>2, <2>4, <1>3 DEF Course
    <3>2. /\ k # "malloc" /\ ~Seen(t, k) /\ lines[t] = 0 /\ stack[t][n].at = "buffering"
          /\ \A i \in 1 .. n - 1 : stack[t][i].kind = "malloc"
      BY <2>1, <2>2, <2>4, <3>1, <1>1, <1>3, InPrintf DEF IInv
    <3>3. st[n].at = "buffering" /\ \A i \in 1 .. n - 1 : st[i].kind = "malloc"
      BY <2>4, <3>2, <1>3, <1>4
    <3> QED
      BY <2>4, <3>2, <3>3, <1>4, <1>5, <1>7, <1>10, StaysInPrintf
  <2>5. n = 1 \/ n > 1
    OBVIOUS
  <2> QED
    BY <2>3, <2>4, <2>5
<1> QED
  BY <1>4, <1>7, <1>8, <1>10, <1>11, <1>12, WatchFacts DEF StepOf, TraceInv, IInv

(* The stack after the innermost call has returned.                         *)
LEMMA Popped ==
  ASSUME NEW s \in Seq(Frame), NEW n \in Nat \ {0}, n = Len(s),
         \A i \in 1 .. n : i > 1 <=> s[i].at \in {"timing", "buffering"}
  PROVE  /\ Return(s) \in Seq(Frame) /\ Len(Return(s)) = n - 1
         /\ n > 1 => /\ Return(s) # <<>> /\ Head(Return(s)) = Return(s)[1]
                     /\ Return(s)[1].at = IF s[2].at = "timing" THEN "print" ELSE "write"
         /\ \A i \in 1 .. n - 1 :
              /\ Return(s)[i].kind = s[i + 1].kind
              /\ i > 1 => Return(s)[i] = s[i + 1]
              /\ i > 1 <=> Return(s)[i].at \in {"timing", "buffering"}
              /\ Return(s)[i].at \in Opened
<1> DEFINE st == Return(s)
<1>1. CASE n = 1
  <2>1. st = <<>>
    BY <1>1 DEF Return
  <2> QED
    BY <2>1, <1>1
<1>2. CASE n > 1
  <2>1. s[2].at \in {"timing", "buffering"}
    BY <1>2
  <2>2. /\ st \in Seq(Frame) /\ Len(st) = n - 1
        /\ st[1].kind = s[2].kind
        /\ st[1].at = IF s[2].at = "timing" THEN "print" ELSE "write"
        /\ \A i \in 2 .. n - 1 : st[i] = s[i + 1]
    BY <1>2, <2>1, ReturnFrames
  <2>3. ASSUME NEW i \in 1 .. n - 1
        PROVE  /\ st[i].kind = s[i + 1].kind
               /\ i > 1 => st[i] = s[i + 1]
               /\ i > 1 <=> st[i].at \in {"timing", "buffering"}
               /\ st[i].at \in Opened
    <3>1. CASE i = 1
      BY <3>1, <2>2 DEF Opened
    <3>2. CASE i > 1
      <4>1. i \in 2 .. n - 1 /\ i + 1 \in 2 .. n
        BY <3>2
      <4> QED
        BY <4>1, <3>2, <2>2 DEF Opened
    <3> QED
      BY <3>1, <3>2
  <2>4. st # <<>> /\ Head(st) = st[1]
    BY <2>2, <1>2
  <2> QED
    BY <2>2, <2>3, <2>4
<1> QED
  BY <1>1, <1>2

LEMMA PoppedOff ==
  ASSUME NEW s \in Seq(Frame), NEW n \in Nat \ {0}, n = Len(s),
         \A i \in 1 .. n : i > 1 <=> s[i].at \in {"timing", "buffering"},
         NEW k \in Kind
  PROVE  (\E i \in DOMAIN Return(s) : Return(s)[i].kind = k /\ Return(s)[i].at \in Opened)
           <=> \E i \in 2 .. n : s[i].kind = k
<1> DEFINE st == Return(s)
<1>1. DOMAIN st = 1 .. n - 1
  BY Popped
<1>2. \A i \in 1 .. n - 1 : st[i].kind = s[i + 1].kind /\ st[i].at \in Opened
  BY Popped
<1>3. ASSUME NEW i \in 1 .. n - 1, st[i].kind = k
      PROVE  \E j \in 2 .. n : s[j].kind = k
  <2>1. i + 1 \in 2 .. n
    OBVIOUS
  <2> QED
    BY <2>1, <1>2, <1>3
<1>4. ASSUME NEW i \in 2 .. n, s[i].kind = k
      PROVE  \E j \in 1 .. n - 1 : st[j].kind = k /\ st[j].at \in Opened
  <2>1. i - 1 \in 1 .. n - 1 /\ (i - 1) + 1 = i
    OBVIOUS
  <2> QED
    BY <2>1, <1>2, <1>4
<1> QED
  BY <1>1, <1>3, <1>4

(* A return to a call that the program, or printf, is in.                   *)
LEMMA ReturnCourse ==
  ASSUME TypeOK, NEW t \in Thread, NEW k \in Kind, Course(t, k),
         stack[t] # <<>>, k = Called(t), Len(stack[t]) > 1,
         stack'[t] = Return(stack[t]),
         Seen(t, k)' <=> Seen(t, k), lines'[t] = lines[t]
  PROVE  k = Called(t)' /\ Course(t, k)'
<1>0. PICK n \in Nat \ {0} : n = Len(stack[t])
  BY Frames
<1>1. PICK st : st = Return(stack[t]) /\ stack'[t] = st
  OBVIOUS
<1>2. /\ stack[t] \in Seq(Frame) /\ n > 1 /\ k = stack[t][n].kind
      /\ \A i \in 1 .. n : i > 1 <=> stack[t][i].at \in {"timing", "buffering"}
  BY <1>0, Frames DEF Called
<1>3. /\ st \in Seq(Frame) /\ Len(st) = n - 1
      /\ st[1].at \in {"print", "write"}
      /\ \A i \in 1 .. n - 1 : /\ st[i].kind = stack[t][i + 1].kind
                               /\ i > 1 => st[i] = stack[t][i + 1]
  <2>1. /\ st \in Seq(Frame) /\ Len(st) = n - 1
        /\ st[1].at = IF stack[t][2].at = "timing" THEN "print" ELSE "write"
        /\ \A i \in 1 .. n - 1 : /\ st[i].kind = stack[t][i + 1].kind
                                 /\ i > 1 => st[i] = stack[t][i + 1]
    <3>1. /\ stack[t] \in Seq(Frame) /\ n = Len(stack[t]) /\ st = Return(stack[t]) /\ n > 1
          /\ \A i \in 1 .. n : i > 1 <=> stack[t][i].at \in {"timing", "buffering"}
      BY <1>0, <1>1, <1>2
    <3> QED
      BY <3>1, Popped
  <2> QED
    BY <2>1
<1>4. n - 1 \in 1 .. n - 1 /\ (n - 1) + 1 = n
  BY <1>2
<1>5. k = Called(t)'
  <2>1. Called(t)' = st[Len(st)].kind
    BY <1>1 DEF Called
  <2>2. st[n - 1].kind = stack[t][(n - 1) + 1].kind
    BY <1>3, <1>4
  <2> QED
    BY <2>1, <2>2, <1>2, <1>3, <1>4
<1>6. ~Seen(t, k)' /\ lines'[t] = 0
  BY <1>0, <1>2 DEF Course
<1>7. CASE n = 2
  <2>1. Len(st) = 1 /\ st[1].at \in {"print", "write"}
    BY <1>3, <1>7
  <2> QED
    BY <2>1, <1>1, <1>5, <1>6 DEF Course
<1>8. CASE n > 2
  <2>1. ~(stack[t][1].kind = k /\ stack[t][1].at = "check")
    <3>1. stack[t][n].at = "buffering" /\ k # "malloc"
      BY <1>0, <1>2, <1>8 DEF Course
    <3>2. stack[t][1].kind = "malloc"
      BY <3>1, <1>0, <1>2 DEF Course
    <3> QED
      BY <3>1, <3>2
  <2>2. /\ k # "malloc" /\ stack[t][n].at = "buffering"
        /\ \A i \in 1 .. n - 1 : stack[t][i].kind = "malloc"
    BY <2>1, <1>0, <1>2, InPrintf
  <2>3. st[n - 1].at = "buffering"
    BY <2>2, <1>3, <1>4, <1>8
  <2>4. ASSUME NEW i \in 1 .. (n - 1) - 1
        PROVE  st[i].kind = "malloc"
    <3>1. i \in 1 .. n - 1 /\ i + 1 \in 1 .. n - 1
      OBVIOUS
    <3> QED
      BY <3>1, <2>2, <1>3
  <2> QED
    <3>1. Len(st) > 1 /\ Len(st) = n - 1
      BY <1>3, <1>8
    <3> QED
      BY <3>1, <2>2, <2>3, <2>4, <1>1, <1>3, <1>5, <1>6, StaysInPrintf
<1> QED
  BY <1>2, <1>5, <1>7, <1>8

(* The flag is off: libc serves the call, and the one below goes on.        *)
LEMMA CheckServes ==
  ASSUME IInv, Watch, NEW t \in Thread, Check(t), ~Seen(t, Running(t))
  PROVE  StepOf(t)
<1>1. stack[t] # <<>> /\ stack[t][1].at = "check"
  BY Frames DEF IInv, Check, At
<1>2. PICK st : st = Return(stack[t])
  OBVIOUS
<1>3. PICK x : x = IF ForProgram(t) THEN served[t] + 1 ELSE served[t]
  OBVIOUS
<1>0. PICK n \in Nat \ {0} : n = Len(stack[t])
  BY <1>1, Frames DEF IInv
<1>4. /\ stack[t] \in Seq(Frame) /\ Running(t) = stack[t][1].kind
      /\ Head(stack[t]) = stack[t][1] /\ DOMAIN stack[t] = 1 .. n
      /\ \A i \in 1 .. n : i > 1 <=> stack[t][i].at \in {"timing", "buffering"}
  BY <1>0, <1>1, Frames DEF IInv
<1>5. /\ st \in Seq(Frame) /\ Len(st) = n - 1
      /\ n > 1 => /\ st # <<>> /\ Head(st).at \in {"print", "write"}
      /\ \A i \in 1 .. Len(st) : i > 1 <=> st[i].at \in {"timing", "buffering"}
  <2>0. /\ stack[t] \in Seq(Frame) /\ n = Len(stack[t]) /\ st = Return(stack[t])
        /\ \A i \in 1 .. n : i > 1 <=> stack[t][i].at \in {"timing", "buffering"}
    BY <1>0, <1>2, <1>4
  <2>1. /\ st \in Seq(Frame) /\ Len(st) = n - 1
        /\ n > 1 => /\ st # <<>> /\ Head(st) = st[1]
                    /\ st[1].at = IF stack[t][2].at = "timing" THEN "print" ELSE "write"
        /\ \A i \in 1 .. n - 1 : i > 1 <=> st[i].at \in {"timing", "buffering"}
    BY <2>0, Popped
  <2> QED
    BY <2>1
<1>6. /\ stack' = [stack EXCEPT ![t] = st]
      /\ served' = [served EXCEPT ![t] = x]
      /\ UNCHANGED <<enabled, pending, buffered, calls, lines>>
  BY <1>2, <1>3 DEF Check
<1>7. served' \in [Thread -> Nat] /\ served'[t] = x
      /\ \A u \in Thread \ {t} : served'[u] = served[u]
  <2>1. x \in Nat
    BY <1>3 DEF IInv, TypeOK
  <2> QED
    BY <1>6, <2>1 DEF IInv, TypeOK
<1>8. TypeOK' /\ stack'[t] = st /\ \A u \in Thread \ {t} : stack'[u] = stack[u]
  BY <1>5, <1>6, <1>7, StackType DEF IInv, TypeOK, Store
<1>9. Others(t)
  BY <1>6, <1>7, <1>8 DEF Others
<1>10. ASSUME NEW k \in Kind
       PROVE  Off(t, k)' <=> Off(t, k)
  <2>1. Off(t, k) <=> \E i \in 2 .. n : stack[t][i].kind = k
    BY <1>1, <1>4 DEF Off, Opened
  <2>2. Off(t, k)' <=> \E i \in DOMAIN st : st[i].kind = k /\ st[i].at \in Opened
    BY <1>8 DEF Off
  <2>3. (\E i \in DOMAIN st : st[i].kind = k /\ st[i].at \in Opened)
          <=> \E i \in 2 .. n : stack[t][i].kind = k
    BY <1>0, <1>2, <1>4, PoppedOff
  <2> QED
    BY <2>1, <2>2, <2>3
<1>11. Flags(t) /\ \A k \in Kind : Seen(t, k)' <=> Seen(t, k)
  BY <1>6, <1>10, FlagsKept
<1>12. ServedInv(t)'
  <2>1. served[t] = (IF ForProgram(t) THEN 0 ELSE 1) /\ calls[t] > 0
    BY <1>1, <1>4 DEF IInv, ServedInv, Reached
  <2>2. served'[t] = 1 /\ calls'[t] > 0
    BY <2>1, <1>3, <1>6, <1>7
  <2>3. stack'[t] = <<>> \/ Head(stack'[t]).at \in {"print", "write"}
    <3>1. CASE n = 1
      BY <3>1, <1>5, <1>8
    <3> QED
      BY <3>1, <1>5, <1>8
  <2> QED
    BY <2>2, <2>3 DEF ServedInv, Reached
<1>13. ASSUME alone'[t]
       PROVE  n > 1 /\ \A k \in Kind : k = Called(t)' => Course(t, k)'
  <2>1. alone[t]
    BY <1>1, <1>13, WatchFacts DEF IInv
  <2>2. PICK k \in Kind : k = Called(t)
    <3>1. stack[t][n] \in Frame
      BY <1>0, <1>1, Frames DEF IInv
    <3> QED
      BY <3>1, <1>0 DEF Called, Frame
  <2>3. Course(t, k)
    BY <2>1, <2>2, <1>1 DEF IInv, TraceInv
  <2>4. n > 1
    <3>1. ASSUME n = 1
          PROVE  FALSE
      BY <3>1, <2>2, <2>3, <1>0, <1>1, <1>4 DEF Course, Called
    <3> QED
      BY <3>1
  <2>5. k = Called(t)' /\ Course(t, k)'
    BY <2>2, <2>3, <2>4, <1>0, <1>1, <1>2, <1>6, <1>8, <1>11, ReturnCourse DEF IInv
  <2> QED
    BY <2>4, <2>5
<1>14. TraceInv(t)'
  BY <1>5, <1>8, <1>13, WatchFacts DEF TraceInv, IInv
<1> QED
  BY <1>8, <1>9, <1>11, <1>12, <1>14 DEF StepOf

(* The flag goes off, and the call to be timed is made.                     *)
LEMMA ClearKeeps ==
  ASSUME IInv, Watch, NEW t \in Thread, Clear(t)
  PROVE  StepOf(t)
<1>1. stack[t] # <<>> /\ stack[t][1].at = "clear"
  BY Frames DEF IInv, Clear, At
<1>0. PICK n \in Nat \ {0} : n = Len(stack[t])
  BY <1>1, Frames DEF IInv
<1>2. /\ stack[t] \in Seq(Frame) /\ Running(t) = stack[t][1].kind
      /\ Head(stack[t]) = stack[t][1] /\ DOMAIN stack[t] = 1 .. n
      /\ \A i \in 1 .. n : /\ stack[t][i] \in Frame
                           /\ i > 1 <=> stack[t][i].at \in {"timing", "buffering"}
  BY <1>0, <1>1, Frames DEF IInv
<1>3. PICK r \in Kind : r = Running(t)
  BY <1>2 DEF Frame
<1>4. PICK st : st = Enter(Goto(stack[t], "timing"), r)
  OBVIOUS
<1>5. /\ st \in Seq(Frame) /\ Len(st) = n + 1 /\ st # <<>> /\ Head(st) = st[1]
      /\ st[1].kind = r /\ st[1].at = "check"
      /\ st[2].kind = r /\ st[2].at = "timing"
      /\ \A i \in 2 .. n : st[i + 1] = stack[t][i]
  <2> DEFINE g == Goto(stack[t], "timing")
  <2>1. /\ g \in Seq(Frame) /\ Len(g) = n /\ g[1].kind = r /\ g[1].at = "timing"
        /\ \A i \in 2 .. n : g[i] = stack[t][i]
    BY <1>0, <1>1, <1>2, <1>3, GotoFrames DEF Labels
  <2>2. st = Enter(g, r)
    BY <1>4
  <2> HIDE DEF g
  <2>3. /\ st \in Seq(Frame) /\ Len(st) = n + 1
        /\ st[1].kind = r /\ st[1].at = "check"
        /\ \A i \in 1 .. n : st[i + 1] = g[i]
    <3>1. /\ Enter(g, r) \in Seq(Frame) /\ Len(Enter(g, r)) = Len(g) + 1
          /\ Enter(g, r)[1].kind = r /\ Enter(g, r)[1].at = "check"
          /\ \A i \in 1 .. Len(g) : Enter(g, r)[i + 1] = g[i]
      BY <2>1, EnterFrames
    <3> QED
      BY <3>1, <2>1, <2>2
  <2>4. st[2] = g[1]
    BY <2>3
  <2>5. st # <<>> /\ Head(st) = st[1]
    BY <2>3
  <2> QED
    BY <2>1, <2>3, <2>4, <2>5
<1>6. /\ stack' = [stack EXCEPT ![t] = st]
      /\ Set(t, r, FALSE)
      /\ UNCHANGED <<enabled, buffered, calls, served, lines>>
  BY <1>3, <1>4 DEF Clear, Flag
<1>7. \A i \in 1 .. Len(st) : i > 1 <=> st[i].at \in {"timing", "buffering"}
  <2>1. ASSUME NEW i \in 1 .. n + 1
        PROVE  i > 1 <=> st[i].at \in {"timing", "buffering"}
    <3>1. CASE i = 1 \/ i = 2
      BY <3>1, <1>5
    <3>2. CASE i > 2
      <4>1. i - 1 \in 2 .. n /\ (i - 1) + 1 = i /\ i - 1 \in 1 .. n /\ i - 1 > 1
        BY <3>2
      <4>2. st[(i - 1) + 1] = stack[t][i - 1]
        BY <4>1, <1>5
      <4>3. stack[t][i - 1].at \in {"timing", "buffering"}
        BY <4>1, <1>2
      <4> QED
        BY <4>1, <4>2, <4>3, <3>2
    <3> QED
      BY <3>1, <3>2
  <2> QED
    BY <2>1, <1>5
<1>8. /\ pending' \in [Thread -> Seq(Store)]
      /\ \A u \in Thread \ {t} : pending'[u] = pending[u]
      /\ Stores(t, r)' # {} /\ ~Seen(t, r)'
      /\ \A j \in Kind \ {r} : /\ Stores(t, j)' = Stores(t, j)
                               /\ Seen(t, j)' <=> Seen(t, j)
                               /\ LastOn(t, j) => LastOn(t, j)'
  <2>1. /\ pending'[t] \in Seq(Store) /\ \A u \in Thread \ {t} : pending'[u] = pending[u]
        /\ Stores(t, r)' # {} /\ ~Seen(t, r)'
        /\ \A j \in Kind \ {r} : /\ Stores(t, j)' = Stores(t, j)
                                 /\ Seen(t, j)' <=> Seen(t, j)
                                 /\ LastOn(t, j) => LastOn(t, j)'
    BY <1>6, SetSeen DEF IInv
  <2>2. pending' \in [Thread -> Seq(Store)]
    BY <2>1, <1>6 DEF Set, IInv, TypeOK, Store
  <2> QED
    BY <2>1, <2>2
<1>9. TypeOK' /\ stack'[t] = st /\ \A u \in Thread \ {t} : stack'[u] = stack[u]
  <2>1. /\ enabled' \in [Kind -> BOOLEAN] /\ buffered' \in BOOLEAN
        /\ calls' \in [Thread -> 0 .. MaxCalls]
        /\ served' \in [Thread -> Nat] /\ lines' \in [Thread -> Nat]
    BY <1>6 DEF IInv, TypeOK
  <2>2. TypeOK
    BY DEF IInv
  <2> QED
    BY <2>1, <2>2, <1>5, <1>6, <1>7, <1>8, StackType
<1>10. Others(t)
  BY <1>6, <1>8, <1>9 DEF Others
<1>11. DOMAIN st = 1 .. n + 1
  BY <1>5
<1>12. Off(t, r)'
  <2>1. 2 \in DOMAIN st
    BY <1>11
  <2> QED
    BY <2>1, <1>5, <1>9 DEF Off, Opened
<1>13. ASSUME NEW k \in Kind \ {r}
       PROVE  Off(t, k)' <=> Off(t, k)
  <2>1. ASSUME NEW i \in 1 .. n, stack[t][i].kind = k, stack[t][i].at \in Opened
        PROVE  Off(t, k)'
    <3>1. i \in 2 .. n /\ i + 1 \in 1 .. n + 1
      BY <2>1, <1>2, <1>3
    <3> QED
      BY <3>1, <2>1, <1>5, <1>9, <1>11 DEF Off
  <2>2. ASSUME NEW i \in 1 .. n + 1, st[i].kind = k, st[i].at \in Opened
        PROVE  Off(t, k)
    <3>1. i # 1 /\ i # 2
      BY <2>2, <1>5
    <3>2. i - 1 \in 2 .. n /\ (i - 1) + 1 = i /\ i - 1 \in 1 .. n
      BY <3>1, <2>2
    <3>3. stack[t][i - 1] = st[i]
      BY <3>2, <1>5
    <3> QED
      BY <3>2, <3>3, <2>2, <1>2 DEF Off
  <2> QED
    BY <2>1, <2>2, <1>2, <1>9, <1>11 DEF Off
<1>14. Flags(t)
  <2>1. ASSUME NEW k \in Kind
        PROVE  /\ enabled'[k] = enabled[k]
               /\ Off(t, k)' \/ LastOn(t, k)'
               /\ Off(t, k) \/ Stores(t, k) # {} => Off(t, k)' \/ Stores(t, k)' # {}
    <3>1. CASE k = r
      BY <3>1, <1>6, <1>8, <1>12
    <3>2. CASE k # r
      BY <3>2, <1>6, <1>8, <1>13 DEF IInv, FlagInv
    <3> QED
      BY <3>1, <3>2
  <2> QED
    BY <2>1 DEF Flags
<1>15. ServedInv(t)'
  <2>1. ForProgram(t)' <=> ForProgram(t)
    <3>1. ASSUME NEW i \in 2 .. n
          PROVE  i + 1 \in 2 .. n + 1 /\ st[i + 1].at = stack[t][i].at
      BY <1>5
    <3>2. ASSUME NEW i \in 2 .. n + 1, st[i].at = "buffering"
          PROVE  \E j \in 2 .. n : stack[t][j].at = "buffering"
      <4>1. i # 2
        BY <3>2, <1>5
      <4>2. i - 1 \in 2 .. n /\ (i - 1) + 1 = i
        BY <4>1
      <4> QED
        BY <4>2, <3>2, <1>5
    <3>3. ForProgram(t)' <=> \A i \in 2 .. n + 1 : st[i].at # "buffering"
      BY <1>5, <1>9 DEF ForProgram
    <3>4. ForProgram(t) <=> \A i \in 2 .. n : stack[t][i].at # "buffering"
      BY <1>0 DEF ForProgram
    <3> QED
      BY <3>1, <3>2, <3>3, <3>4
  <2>2. ServedInv(t) /\ Head(stack[t]).at = "clear" /\ calls[t] > 0
    BY <1>1, <1>2 DEF IInv, ServedInv
  <2>3. Head(stack'[t]).at = "check" /\ stack'[t] # <<>>
    BY <1>5, <1>9
  <2>4. Reached(t)' <=> Reached(t)
    BY <2>1, <2>2, <2>3 DEF Reached
  <2> QED
    BY <2>2, <2>3, <2>4, <1>1, <1>6 DEF ServedInv
<1>16. ASSUME alone'[t], NEW k \in Kind, k = Called(t)'
       PROVE  Course(t, k)'
  <2>1. k = Called(t)
    <3>1. Called(t)' = st[n + 1].kind
      BY <1>5, <1>9 DEF Called
    <3>2. CASE n = 1
      BY <3>1, <3>2, <1>0, <1>2, <1>3, <1>5, <1>16 DEF Called
    <3>3. CASE n > 1
      <4>1. st[n + 1] = stack[t][n]
        BY <3>3, <1>5
      <4> QED
        BY <4>1, <3>1, <1>0, <1>16 DEF Called
    <3> QED
      BY <3>2, <3>3
  <2>2. Course(t, k)
    BY <2>1, <1>1, <1>5, <1>9, <1>16, WatchFacts DEF IInv, TraceInv
  <2>3. CASE n = 1
    <3>1. r = k
      BY <2>1, <2>3, <1>0, <1>2, <1>3 DEF Called
    <3>2. lines'[t] = 0
      BY <2>2, <1>0, <1>1, <1>6 DEF Course
    <3>3. Len(st) = 2 /\ ~Seen(t, k)'
      BY <2>3, <3>1, <1>5, <1>8
    <3> QED
      BY <3>1, <3>2, <3>3, <1>5, <1>9 DEF Course
  <2>4. CASE n > 1
    <3>1. /\ k # "malloc" /\ ~Seen(t, k) /\ lines[t] = 0 /\ stack[t][n].at = "buffering"
          /\ \A i \in 1 .. n - 1 : stack[t][i].kind = "malloc"
      BY <2>1, <2>2, <2>4, <1>0, <1>1, InPrintf DEF IInv
    <3>2. r = "malloc"
      BY <2>4, <3>1, <1>2, <1>3
    <3>3. ~Seen(t, k)' /\ lines'[t] = 0
      BY <3>1, <3>2, <1>6, <1>8
    <3>4. st[n + 1].at = "buffering"
      BY <2>4, <3>1, <1>5
    <3>5. ASSUME NEW i \in 1 .. n
          PROVE  st[i].kind = "malloc"
      <4>1. CASE i = 1 \/ i = 2
        BY <4>1, <3>2, <1>5
      <4>2. CASE i > 2
        <5>1. i - 1 \in 2 .. n /\ i - 1 \in 1 .. n - 1 /\ (i - 1) + 1 = i
          BY <4>2
        <5>2. st[(i - 1) + 1] = stack[t][i - 1]
          BY <5>1, <1>5
        <5> QED
          BY <5>1, <5>2, <3>1
      <4> QED
        BY <4>1, <4>2
    <3>6. Len(st) > 1 /\ Len(st) - 1 = n
      BY <1>5
    <3> QED
      BY <3>1, <3>3, <3>4, <3>5, <3>6, <1>5, <1>9, StaysInPrintf
  <2> QED
    BY <2>3, <2>4
<1> QED
  BY <1>5, <1>9, <1>10, <1>14, <1>15, <1>16, WatchFacts DEF StepOf, TraceInv, IInv

(* A hook prints: the first printf of the program calls malloc.             *)
LEMMA PrintKeeps ==
  ASSUME IInv, Watch, NEW t \in Thread, PrintLine(t)
  PROVE  StepOf(t)
<1>1. stack[t] # <<>> /\ stack[t][1].at = "print"
  BY Frames DEF IInv, PrintLine, At
<1>0. PICK n \in Nat \ {0} : n = Len(stack[t])
  BY <1>1, Frames DEF IInv
<1>2. /\ stack[t] \in Seq(Frame) /\ Head(stack[t]) = stack[t][1] /\ DOMAIN stack[t] = 1 .. n
      /\ \A i \in 1 .. n : /\ stack[t][i] \in Frame
                           /\ i > 1 <=> stack[t][i].at \in {"timing", "buffering"}
  BY <1>0, <1>1, Frames DEF IInv
<1>3. PICK st : st = IF buffered THEN Goto(stack[t], "write")
                     ELSE Enter(Goto(stack[t], "buffering"), "malloc")
  OBVIOUS
<1>4. /\ stack' = [stack EXCEPT ![t] = st]
      /\ UNCHANGED <<enabled, pending, buffered, calls, served, lines>>
  BY <1>3 DEF PrintLine
(* The stack is as before, with the frame that prints at "write", or with   *)
(* malloc above the frame, now at "buffering".                              *)
<1>5. PICK d \in {0, 1} :
        /\ st \in Seq(Frame) /\ Len(st) = n + d
        /\ st[d + 1].kind = stack[t][1].kind
        /\ st[d + 1].at = IF d = 0 THEN "write" ELSE "buffering"
        /\ d = 1 => st[1].kind = "malloc" /\ st[1].at = "check"
        /\ \A i \in 2 .. n : st[i + d] = stack[t][i]
  <2>1. CASE buffered
    <3>1. /\ st \in Seq(Frame) /\ Len(st) = n
          /\ st[1].kind = stack[t][1].kind /\ st[1].at = "write"
          /\ \A i \in 2 .. n : st[i] = stack[t][i]
      BY <2>1, <1>0, <1>1, <1>2, <1>3, GotoFrames DEF Labels
    <3>2. \A i \in 2 .. n : i + 0 = i
      OBVIOUS
    <3> QED
      BY <3>1, <3>2
  <2>2. CASE ~buffered
    <3>g. PICK g : g = Goto(stack[t], "buffering")
      OBVIOUS
    <3>1. /\ g \in Seq(Frame) /\ Len(g) = n /\ g[1].kind = stack[t][1].kind
          /\ g[1].at = "buffering" /\ \A i \in 2 .. n : g[i] = stack[t][i]
      BY <3>g, <1>0, <1>1, <1>2, GotoFrames DEF Labels
    <3>m. PICK m \in Kind : m = "malloc"
      BY Kinds
    <3>2. st = Enter(g, m)
      BY <2>2, <3>g, <3>m, <1>3
    <3>3. /\ st \in Seq(Frame) /\ Len(st) = n + 1
          /\ st[1].kind = m /\ st[1].at = "check"
          /\ \A i \in 1 .. n : st[i + 1] = g[i]
      <4>1. g \in Seq(Frame) /\ Len(g) = n
        BY <3>1
      <4>2. /\ Enter(g, m) \in Seq(Frame) /\ Len(Enter(g, m)) = Len(g) + 1
            /\ Enter(g, m)[1].kind = m /\ Enter(g, m)[1].at = "check"
            /\ \A i \in 1 .. Len(g) : Enter(g, m)[i + 1] = g[i]
        BY <4>1, EnterFrames
      <4> QED
        BY <4>1, <4>2, <3>2
    <3>4. st[1 + 1] = g[1]
      BY <3>3
    <3> QED
      BY <3>1, <3>3, <3>4, <3>m
  <2> QED
    BY <2>1, <2>2
<1>6. /\ st # <<>> /\ Head(st) = st[1] /\ DOMAIN st = 1 .. n + d
      /\ st[1].at \in {"write", "check"}
  BY <1>5
<1>7. \A i \in 1 .. Len(st) : i > 1 <=> st[i].at \in {"timing", "buffering"}
  <2>1. ASSUME NEW i \in 1 .. n + d
        PROVE  i > 1 <=> st[i].at \in {"timing", "buffering"}
    <3>1. CASE i = 1 \/ i = d + 1
      BY <3>1, <1>5, <1>6
    <3>2. CASE i > d + 1
      <4>1. i - d \in 2 .. n /\ (i - d) + d = i /\ i - d \in 1 .. n /\ i - d > 1
        BY <3>2
      <4>2. st[(i - d) + d] = stack[t][i - d]
        BY <4>1, <1>5
      <4>3. stack[t][i - d].at \in {"timing", "buffering"}
        BY <4>1, <1>2
      <4> QED
        BY <4>1, <4>2, <4>3, <3>2
    <3> QED
      BY <3>1, <3>2
  <2> QED
    BY <2>1, <1>5
<1>8. TypeOK' /\ stack'[t] = st /\ \A u \in Thread \ {t} : stack'[u] = stack[u]
  <2>1. /\ enabled' \in [Kind -> BOOLEAN] /\ pending' \in [Thread -> Seq(Store)]
        /\ buffered' \in BOOLEAN /\ calls' \in [Thread -> 0 .. MaxCalls]
        /\ served' \in [Thread -> Nat] /\ lines' \in [Thread -> Nat]
    BY <1>4 DEF IInv, TypeOK, Store
  <2>2. TypeOK
    BY DEF IInv
  <2> QED
    BY <2>1, <2>2, <1>4, <1>5, <1>7, StackType
<1>9. Others(t)
  BY <1>4, <1>8 DEF Others
<1>10. ASSUME NEW k \in Kind
       PROVE  Off(t, k)' <=> Off(t, k)
  <2>1. ASSUME NEW i \in 1 .. n, stack[t][i].kind = k
        PROVE  Off(t, k)'
    <3>1. i + d \in 1 .. n + d /\ (i = 1 \/ i \in 2 .. n)
      OBVIOUS
    <3>2. st[i + d].kind = k /\ st[i + d].at \in Opened
      <4>1. CASE i = 1
        <5>1. 1 + d = d + 1
          OBVIOUS
        <5> QED
          BY <4>1, <5>1, <2>1, <1>5 DEF Opened
      <4>2. CASE i \in 2 .. n
        <5>1. st[i + d] = stack[t][i] /\ i \in 1 .. n /\ i > 1
          BY <4>2, <1>5
        <5>2. stack[t][i].at \in {"timing", "buffering"}
          BY <5>1, <1>2
        <5> QED
          BY <5>1, <5>2, <2>1 DEF Opened
      <4> QED
        BY <3>1, <4>1, <4>2
    <3> QED
      BY <3>1, <3>2, <1>6, <1>8 DEF Off
  <2>2. ASSUME NEW i \in 1 .. n + d, st[i].kind = k, st[i].at \in Opened
        PROVE  Off(t, k)
    <3>1. i >= d + 1
      BY <2>2, <1>5 DEF Opened
    <3>2. CASE i = d + 1
      <4>1. 1 \in 1 .. n /\ stack[t][1].kind = k /\ stack[t][1].at \in Opened
        BY <3>2, <2>2, <1>1, <1>5 DEF Opened
      <4> QED
        BY <4>1, <1>2 DEF Off
    <3>3. CASE i > d + 1
      <4>1. i - d \in 2 .. n /\ (i - d) + d = i /\ i - d \in 1 .. n
        BY <3>3
      <4>2. stack[t][i - d] = st[i]
        BY <4>1, <1>5
      <4> QED
        BY <4>1, <4>2, <2>2, <1>2 DEF Off
    <3> QED
      BY <3>1, <3>2, <3>3
  <2> QED
    BY <2>1, <2>2, <1>2, <1>6, <1>8 DEF Off
<1>11. Flags(t) /\ \A k \in Kind : Seen(t, k)' <=> Seen(t, k)
  BY <1>4, <1>10, FlagsKept
<1>12. ServedInv(t)'
  <2>1. served[t] = 1 /\ calls[t] > 0
    BY <1>1, <1>2 DEF IInv, ServedInv, Reached
  <2>2. Reached(t)'
    <3>1. CASE d = 0
      BY <3>1, <1>5, <1>6, <1>8 DEF Reached
    <3>2. CASE d = 1
      <4>1. 2 \in 2 .. Len(st) /\ st[2].at = "buffering"
        BY <3>2, <1>5
      <4> QED
        BY <4>1, <1>8 DEF Reached, ForProgram
    <3> QED
      BY <3>1, <3>2
  <2> QED
    BY <2>1, <2>2, <1>4 DEF ServedInv
<1>13. ASSUME alone'[t], NEW k \in Kind, k = Called(t)'
       PROVE  Course(t, k)'
  <2>1. k = Called(t)
    <3>1. Called(t)' = st[n + d].kind
      BY <1>5, <1>8 DEF Called
    <3>2. CASE n = 1
      <4>1. n + d = d + 1
        BY <3>2
      <4> QED
        BY <4>1, <3>1, <3>2, <1>0, <1>5, <1>13 DEF Called
    <3>3. CASE n > 1
      <4>1. st[n + d] = stack[t][n]
        BY <3>3, <1>5
      <4> QED
        BY <4>1, <3>1, <1>0, <1>13 DEF Called
    <3> QED
      BY <3>2, <3>3
  <2>2. Course(t, k)
    BY <2>1, <1>1, <1>6, <1>8, <1>13, WatchFacts DEF IInv, TraceInv
  <2>3. ~Seen(t, k)' /\ lines'[t] = 0
    BY <2>2, <1>0, <1>1, <1>4, <1>11 DEF Course
  <2>4. CASE n = 1 /\ d = 0
    <3>1. Len(st) = 1 /\ st[1].at = "write"
      BY <2>4, <1>5
    <3> QED
      BY <2>3, <3>1, <1>8 DEF Course
  <2>5. CASE n = 1 /\ d = 1
    <3>1. Len(st) = 2 /\ st[2].at = "buffering" /\ st[1].kind = "malloc" /\ st[1].at = "check"
      BY <2>5, <1>5
    <3>2. \A i \in 1 .. 2 - 1 : st[i].kind = "malloc"
      BY <3>1
    <3> QED
      BY <2>3, <3>1, <3>2, <1>8 DEF Course
  <2>6. CASE n > 1
    <3>1. /\ k # "malloc" /\ stack[t][n].at = "buffering"
          /\ \A i \in 1 .. n - 1 : stack[t][i].kind = "malloc"
      BY <2>1, <2>2, <2>6, <1>0, <1>1, InPrintf DEF IInv
    <3>2. st[n + d].at = "buffering"
      BY <2>6, <3>1, <1>5
    <3>3. ASSUME NEW i \in 1 .. (n + d) - 1
          PROVE  st[i].kind = "malloc"
      <4>1. CASE i <= d
        BY <4>1, <1>5
      <4>2. CASE i = d + 1
        <5>1. stack[t][1].kind = "malloc"
          BY <2>6, <3>1
        <5> QED
          BY <4>2, <5>1, <1>5
      <4>3. CASE i > d + 1
        <5>1. i - d \in 2 .. n /\ i - d \in 1 .. n - 1 /\ (i - d) + d = i
          BY <4>3
        <5>2. st[(i - d) + d] = stack[t][i - d]
          BY <5>1, <1>5
        <5> QED
          BY <5>1, <5>2, <3>1
      <4> QED
        BY <4>1, <4>2, <4>3
    <3>4. Len(st) > 1
      BY <2>6, <1>5
    <3> QED
      <4>1. Len(st) = n + d /\ st \in Seq(Frame) /\ stack'[t] = st
        BY <1>5, <1>8
      <4>2. \A i \in 1 .. Len(st) - 1 : st[i].kind = "malloc"
        BY <3>3, <4>1
      <4> QED
        BY <2>3, <3>1, <3>2, <3>4, <4>1, <4>2, StaysInPrintf
  <2> QED
    BY <2>4, <2>5, <2>6
<1> QED
  BY <1>6, <1>8, <1>9, <1>11, <1>12, <1>13, WatchFacts DEF StepOf, TraceInv, IInv

(* The line is written.                                                     *)
LEMMA WriteKeeps ==
  ASSUME IInv, Watch, NEW t \in Thread, Write(t)
  PROVE  StepOf(t)
<1>1. stack[t] # <<>> /\ stack[t][1].at = "write"
  BY Frames DEF IInv, Write, At
<1>0. PICK n \in Nat \ {0} : n = Len(stack[t])
  BY <1>1, Frames DEF IInv
<1>2. /\ stack[t] \in Seq(Frame) /\ Head(stack[t]) = stack[t][1] /\ DOMAIN stack[t] = 1 .. n
      /\ \A i \in 1 .. n : i > 1 <=> stack[t][i].at \in {"timing", "buffering"}
  BY <1>0, <1>1, Frames DEF IInv
<1>3. PICK st : st = Goto(stack[t], "reset")
  OBVIOUS
<1>4. PICK x : x = IF ForProgram(t) THEN lines[t] + 1 ELSE lines[t]
  OBVIOUS
<1>5. /\ st \in Seq(Frame) /\ Len(st) = n
      /\ st[1].kind = stack[t][1].kind /\ st[1].at = "reset"
      /\ \A i \in 2 .. n : st[i] = stack[t][i]
  BY <1>0, <1>1, <1>2, <1>3, GotoFrames DEF Labels
<1>6. /\ stack' = [stack EXCEPT ![t] = st]
      /\ lines' = [lines EXCEPT ![t] = x]
      /\ buffered' = TRUE
      /\ UNCHANGED <<enabled, pending, calls, served>>
  BY <1>3, <1>4 DEF Write
<1>7. lines' \in [Thread -> Nat] /\ lines'[t] = x
      /\ \A u \in Thread \ {t} : lines'[u] = lines[u]
  <2>1. x \in Nat
    BY <1>4 DEF IInv, TypeOK
  <2> QED
    BY <1>6, <2>1 DEF IInv, TypeOK
<1>8. \A i \in 1 .. Len(st) : i > 1 <=> st[i].at \in {"timing", "buffering"}
  BY <1>2, <1>5
<1>9. TypeOK' /\ stack'[t] = st /\ \A u \in Thread \ {t} : stack'[u] = stack[u]
  BY <1>5, <1>6, <1>7, <1>8, StackType DEF IInv, TypeOK, Store
<1>10. st # <<>> /\ Head(st) = st[1] /\ DOMAIN st = 1 .. n
  BY <1>5
<1>11. Others(t)
  BY <1>6, <1>7, <1>9 DEF Others
<1>12. ASSUME NEW k \in Kind
       PROVE  Off(t, k)' <=> Off(t, k)
  BY <1>1, <1>2, <1>5, <1>9, <1>10 DEF Off, Opened
<1>13. Flags(t) /\ \A k \in Kind : Seen(t, k)' <=> Seen(t, k)
  BY <1>6, <1>12, FlagsKept
<1>14. ServedInv(t)'
  <2>1. served[t] = 1 /\ calls[t] > 0
    BY <1>1, <1>2 DEF IInv, ServedInv, Reached
  <2>2. Reached(t)'
    BY <1>5, <1>9, <1>10 DEF Reached
  <2> QED
    BY <2>1, <2>2, <1>6 DEF ServedInv
<1>15. ASSUME alone'[t], NEW k \in Kind, k = Called(t)'
       PROVE  Course(t, k)'
  <2>1. k = Called(t)
    <3>1. Called(t)' = st[n].kind
      BY <1>5, <1>9 DEF Called
    <3> QED
      BY <3>1, <1>0, <1>5, <1>15 DEF Called
  <2>2. Course(t, k)
    BY <2>1, <1>1, <1>9, <1>10, <1>15, WatchFacts DEF IInv, TraceInv
  <2>3. ~Seen(t, k)' /\ lines[t] = 0
    BY <2>2, <1>0, <1>1, <1>13 DEF Course
  <2>4. CASE n = 1
    <3>1. ForProgram(t)
      BY <2>4, <1>0 DEF ForProgram
    <3>2. lines'[t] = 1
      BY <2>3, <3>1, <1>4, <1>7
    <3> QED
      BY <2>3, <2>4, <3>2, <1>5, <1>9 DEF Course
  <2>5. CASE n > 1
    <3>1. /\ k # "malloc" /\ stack[t][n].at = "buffering"
          /\ \A i \in 1 .. n - 1 : stack[t][i].kind = "malloc"
      BY <2>1, <2>2, <2>5, <1>0, <1>1, InPrintf DEF IInv
    <3>2. ~ForProgram(t)
      BY <2>5, <3>1, <1>0 DEF ForProgram
    <3>3. lines'[t] = 0
      BY <2>3, <3>2, <1>4, <1>7
    <3>4. st[n].at = "buffering" /\ \A i \in 1 .. n - 1 : st[i].kind = "malloc"
      BY <2>5, <3>1, <1>5
    <3> QED
      BY <2>3, <2>5, <3>1, <3>3, <3>4, <1>5, <1>9, StaysInPrintf
  <2> QED
    BY <2>4, <2>5
<1> QED
  BY <1>9, <1>10, <1>11, <1>13, <1>14, <1>15, WatchFacts DEF StepOf, TraceInv, IInv

(* The flag goes on again, and the hooked call returns.                     *)
LEMMA ResetKeeps ==
  ASSUME IInv, Watch, NEW t \in Thread, Reset(t)
  PROVE  StepOf(t)
<1>1. stack[t] # <<>> /\ stack[t][1].at = "reset"
  BY Frames DEF IInv, Reset, At
<1>2. PICK st : st = Return(stack[t])
  OBVIOUS
<1>0. PICK n \in Nat \ {0} : n = Len(stack[t])
  BY <1>1, Frames DEF IInv
<1>4. /\ stack[t] \in Seq(Frame) /\ Running(t) = stack[t][1].kind
      /\ Head(stack[t]) = stack[t][1] /\ DOMAIN stack[t] = 1 .. n
      /\ \A i \in 1 .. n : /\ stack[t][i] \in Frame
                           /\ i > 1 <=> stack[t][i].at \in {"timing", "buffering"}
  BY <1>0, <1>1, Frames DEF IInv
<1>3. PICK r \in Kind : r = Running(t)
  BY <1>4 DEF Frame
<1>5. /\ st \in Seq(Frame) /\ Len(st) = n - 1
      /\ n > 1 => /\ st # <<>> /\ Head(st).at \in {"print", "write"}
      /\ \A i \in 1 .. Len(st) : i > 1 <=> st[i].at \in {"timing", "buffering"}
  <2>0. /\ stack[t] \in Seq(Frame) /\ n = Len(stack[t]) /\ st = Return(stack[t])
        /\ \A i \in 1 .. n : i > 1 <=> stack[t][i].at \in {"timing", "buffering"}
    BY <1>0, <1>2, <1>4
  <2>1. /\ st \in Seq(Frame) /\ Len(st) = n - 1
        /\ n > 1 => /\ st # <<>> /\ Head(st) = st[1]
                    /\ st[1].at = IF stack[t][2].at = "timing" THEN "print" ELSE "write"
        /\ \A i \in 1 .. n - 1 : i > 1 <=> st[i].at \in {"timing", "buffering"}
    BY <2>0, Popped
  <2> QED
    BY <2>1
<1>6. /\ stack' = [stack EXCEPT ![t] = st]
      /\ Set(t, r, TRUE)
      /\ UNCHANGED <<enabled, buffered, calls, served, lines>>
  BY <1>2, <1>3 DEF Reset
<1>7. /\ pending' \in [Thread -> Seq(Store)]
      /\ \A u \in Thread \ {t} : pending'[u] = pending[u]
      /\ Stores(t, r)' # {} /\ LastOn(t, r)'
      /\ \A j \in Kind \ {r} : /\ Stores(t, j)' = Stores(t, j)
                               /\ Seen(t, j)' <=> Seen(t, j)
                               /\ LastOn(t, j) => LastOn(t, j)'
  <2>1. /\ pending'[t] \in Seq(Store) /\ \A u \in Thread \ {t} : pending'[u] = pending[u]
        /\ Stores(t, r)' # {} /\ LastOn(t, r)'
        /\ \A j \in Kind \ {r} : /\ Stores(t, j)' = Stores(t, j)
                                 /\ Seen(t, j)' <=> Seen(t, j)
                                 /\ LastOn(t, j) => LastOn(t, j)'
    BY <1>6, SetSeen DEF IInv
  <2>2. pending' \in [Thread -> Seq(Store)]
    BY <2>1, <1>6 DEF Set, IInv, TypeOK, Store
  <2> QED
    BY <2>1, <2>2
<1>8. TypeOK' /\ stack'[t] = st /\ \A u \in Thread \ {t} : stack'[u] = stack[u]
  BY <1>5, <1>6, <1>7, StackType DEF IInv, TypeOK
<1>9. Others(t)
  BY <1>6, <1>7, <1>8 DEF Others
<1>10. ASSUME NEW k \in Kind \ {r}
       PROVE  Off(t, k)' <=> Off(t, k)
  <2>1. Off(t, k) => \E i \in 2 .. n : stack[t][i].kind = k
    BY <1>3, <1>4 DEF Off
  <2>2. (\E i \in 2 .. n : stack[t][i].kind = k) => Off(t, k)
    BY <1>4 DEF Off, Opened
  <2>3. Off(t, k)' <=> \E i \in DOMAIN st : st[i].kind = k /\ st[i].at \in Opened
    BY <1>8 DEF Off
  <2>4. (\E i \in DOMAIN st : st[i].kind = k /\ st[i].at \in Opened)
          <=> \E i \in 2 .. n : stack[t][i].kind = k
    BY <1>0, <1>2, <1>4, PoppedOff
  <2> QED
    BY <2>1, <2>2, <2>3, <2>4
<1>11. Flags(t)
  <2>1. ASSUME NEW k \in Kind
        PROVE  /\ enabled'[k] = enabled[k]
               /\ Off(t, k)' \/ LastOn(t, k)'
               /\ Off(t, k) \/ Stores(t, k) # {} => Off(t, k)' \/ Stores(t, k)' # {}
    <3>1. CASE k = r
      BY <3>1, <1>6, <1>7
    <3>2. CASE k # r
      BY <3>2, <1>6, <1>7, <1>10 DEF IInv, FlagInv
    <3> QED
      BY <3>1, <3>2
  <2> QED
    BY <2>1 DEF Flags
<1>12. ServedInv(t)'
  <2>1. served[t] = 1 /\ calls[t] > 0
    BY <1>1, <1>4 DEF IInv, ServedInv, Reached
  <2>2. stack'[t] = <<>> \/ Head(stack'[t]).at \in {"print", "write"}
    <3>1. CASE n = 1
      BY <3>1, <1>5, <1>8
    <3> QED
      BY <3>1, <1>5, <1>8
  <2> QED
    BY <2>1, <2>2, <1>6 DEF ServedInv, Reached
<1>13. PICK k \in Kind : k = Called(t) /\ k = stack[t][n].kind
  BY <1>0, <1>4 DEF Called, Frame
<1>14. ASSUME alone'[t], n > 1
       PROVE  \A j \in Kind : j = Called(t)' => Course(t, j)'
  <2>1. Course(t, k)
    BY <1>1, <1>5, <1>8, <1>13, <1>14, WatchFacts DEF IInv, TraceInv
  <2>2. k # "malloc" /\ \A i \in 1 .. n - 1 : stack[t][i].kind = "malloc"
    BY <2>1, <1>0, <1>1, <1>13, <1>14, InPrintf DEF IInv
  <2>3. r # k
    BY <2>2, <1>3, <1>4, <1>14
  <2>4. k = Called(t)' /\ Course(t, k)'
    BY <2>1, <2>3, <1>0, <1>1, <1>2, <1>6, <1>7, <1>8, <1>13, <1>14, ReturnCourse DEF IInv
  <2> QED
    BY <2>4
<1>15. ASSUME alone'[t], n = 1
       PROVE  stack'[t] = <<>> /\ lines'[t] = 1
  <2>1. stack'[t] = <<>>
    BY <1>5, <1>8, <1>15
  <2>2. Course(t, k)
    BY <2>1, <1>1, <1>13, <1>15, WatchFacts DEF IInv, TraceInv
  <2>3. lines[t] = 1
    BY <2>2, <1>0, <1>1, <1>15 DEF Course
  <2> QED
    BY <2>1, <2>3, <1>6
<1>16. TraceInv(t)'
  <2>1. CASE n = 1
    BY <2>1, <1>15 DEF TraceInv
  <2>2. CASE n > 1
    BY <2>2, <1>5, <1>8, <1>14, WatchFacts DEF TraceInv, IInv
  <2> QED
    BY <2>1, <2>2
<1> QED
  BY <1>8, <1>9, <1>11, <1>12, <1>16 DEF StepOf

(* A store reaches memory.                                                  *)
LEMMA DrainKeeps ==
  ASSUME IInv, Watch, NEW t \in Thread, Drain(t)
  PROVE  StepOf(t)
<1>1. /\ pending'[t] \in Seq(Store) /\ \A u \in Thread \ {t} : pending'[u] = pending[u]
      /\ enabled' \in [Kind -> BOOLEAN]
      /\ \A k \in Kind : /\ Seen(t, k)' <=> Seen(t, k)
                         /\ LastOn(t, k) => LastOn(t, k)'
                         /\ Stores(t, k) = {} => enabled'[k] = enabled[k]
                         /\ LastOn(t, k) => \/ enabled'[k] \/ Stores(t, k)' # {}
                                            \/ Stores(t, k) = {}
  BY DrainSeen DEF IInv
<1>2. UNCHANGED <<stack, buffered, calls, served, lines>>
  BY DEF Drain
<1>3. pending' \in [Thread -> Seq(Store)]
  BY <1>1 DEF Drain, IInv, TypeOK, Store
<1>4. TypeOK'
  <2>1. alone' \in [Thread -> BOOLEAN]
    BY WatchFacts DEF IInv
  <2> QED
    BY <2>1, <1>1, <1>2, <1>3 DEF IInv, TypeOK, Store
<1>5. Others(t)
  BY <1>1, <1>2 DEF Others
<1>6. \A k \in Kind : Off(t, k)' <=> Off(t, k)
  BY <1>2 DEF Off
<1>7. Flags(t)
  <2>1. ASSUME NEW k \in Kind
        PROVE  /\ enabled'[k] = enabled[k] \/ Stores(t, k) # {}
               /\ Off(t, k)' \/ LastOn(t, k)'
               /\ Off(t, k) \/ Stores(t, k) # {} =>
                    enabled'[k] \/ Off(t, k)' \/ Stores(t, k)' # {}
    BY <1>1, <1>6 DEF IInv, FlagInv
  <2> QED
    BY <2>1 DEF Flags
<1>8. ServedInv(t)'
  BY <1>2 DEF IInv, ServedInv, Reached, ForProgram
<1>9. TraceInv(t)'
  <2>1. TraceInv(t)
    BY DEF IInv
  <2>2. CASE stack[t] = <<>>
    BY <2>1, <2>2, <1>2, WatchFacts DEF TraceInv, IInv
  <2>3. CASE stack[t] # <<>>
    <3> SUFFICES ASSUME alone'[t], NEW k \in Kind, k = Called(t)'
                 PROVE  Course(t, k)' /\ \A u \in Thread \ {t} : ~Busy(u, k)'
      BY <2>3, <1>2 DEF TraceInv
    <3>1. k = Called(t)
      BY <1>2 DEF Called
    <3>2. Course(t, k)
      BY <2>1, <2>3, <3>1, <1>2, WatchFacts DEF TraceInv, IInv
    <3>3. Seen(t, k)' <=> Seen(t, k)
      BY <1>1
    <3>4. Course(t, k)'
      BY <3>2, <3>3, <1>2 DEF Course
    <3>5. \A u \in Thread \ {t} : ~Busy(u, k)'
      BY <2>3, <1>2, WatchFacts DEF IInv
    <3> QED
      BY <3>4, <3>5
  <2> QED
    BY <2>2, <2>3
<1> QED
  BY <1>4, <1>5, <1>7, <1>8, <1>9 DEF StepOf

(* The program calls: if nobody else is in the function, its flag is on.    *)
LEMMA CallKeeps ==
  ASSUME IInv, Watch, NEW t \in Thread, NEW k \in Kind, Call(t, k)
  PROVE  StepOf(t)
<1>1. PICK st : st = Enter(stack[t], k)
  OBVIOUS
<1>2. stack[t] = <<>> /\ calls[t] < MaxCalls /\ calls[t] \in 0 .. MaxCalls
  BY DEF Call, IInv, TypeOK
<1>3. /\ st \in Seq(Frame) /\ Len(st) = 1 /\ DOMAIN st = {1} /\ st # <<>>
      /\ Head(st) = st[1] /\ st[1].kind = k /\ st[1].at = "check"
  <2>1. stack[t] \in Seq(Frame) /\ Len(stack[t]) = 0
    BY <1>2
  <2>2. /\ st \in Seq(Frame) /\ Len(st) = 1
        /\ st[1].kind = k /\ st[1].at = "check"
    <3>1. /\ Enter(stack[t], k) \in Seq(Frame)
          /\ Len(Enter(stack[t], k)) = Len(stack[t]) + 1
          /\ Enter(stack[t], k)[1].kind = k /\ Enter(stack[t], k)[1].at = "check"
      BY <2>1, EnterFrames
    <3> QED
      BY <3>1, <2>1, <1>1
  <2>3. st # <<>> /\ Head(st) = st[1] /\ DOMAIN st = 1 .. Len(st)
    <3>1. Len(st) > 0
      BY <2>2
    <3>2. st # <<>>
      BY <3>1
    <3>3. DOMAIN st = 1 .. Len(st)
      BY <2>2
    <3>4. Head(st) = st[1]
      BY <2>2
    <3> QED
      BY <3>2, <3>3, <3>4
  <2>4. 1 .. 1 = {1}
    OBVIOUS
  <2> QED
    BY <2>2, <2>3, <2>4
<1>4. /\ stack' = [stack EXCEPT ![t] = st]
      /\ calls' = [calls EXCEPT ![t] = @ + 1]
      /\ served' = [served EXCEPT ![t] = 0]
      /\ lines' = [lines EXCEPT ![t] = 0]
      /\ UNCHANGED <<enabled, pending, buffered>>
  BY <1>1 DEF Call
<1>5. /\ calls' \in [Thread -> 0 .. MaxCalls] /\ calls'[t] > 0
      /\ \A u \in Thread \ {t} : calls'[u] = calls[u]
  <2>1. calls[t] + 1 \in 0 .. MaxCalls /\ calls[t] + 1 > 0
    BY <1>2, BoundAssumption
  <2> QED
    BY <2>1, <1>4 DEF IInv, TypeOK
<1>6. /\ served' \in [Thread -> Nat] /\ served'[t] = 0
      /\ lines' \in [Thread -> Nat] /\ lines'[t] = 0
      /\ \A u \in Thread \ {t} : served'[u] = served[u] /\ lines'[u] = lines[u]
  BY <1>4 DEF IInv, TypeOK
<1>7. \A i \in 1 .. Len(st) : i > 1 <=> st[i].at \in {"timing", "buffering"}
  BY <1>3
<1>8. TypeOK' /\ stack'[t] = st /\ \A u \in Thread \ {t} : stack'[u] = stack[u]
  <2>1. /\ enabled' \in [Kind -> BOOLEAN] /\ pending' \in [Thread -> Seq(Store)]
        /\ buffered' \in BOOLEAN /\ TypeOK
    BY <1>4 DEF IInv, TypeOK, Store
  <2> QED
    BY <2>1, <1>3, <1>4, <1>5, <1>6, <1>7, StackType
<1>9. Others(t)
  BY <1>4, <1>5, <1>6, <1>8 DEF Others
<1>10. \A j \in Kind : ~Off(t, j) /\ ~Off(t, j)'
  BY <1>2, <1>3, <1>8 DEF Off, Opened
<1>11. Flags(t) /\ \A j \in Kind : Seen(t, j)' <=> Seen(t, j)
  BY <1>4, <1>10, FlagsKept
<1>12. ServedInv(t)'
  <2>1. ForProgram(t)'
    <3>1. 2 .. 1 = {}
      OBVIOUS
    <3> QED
      BY <3>1, <1>3, <1>8 DEF ForProgram
  <2>2. ~Reached(t)' /\ stack'[t] # <<>>
    BY <2>1, <1>3, <1>8 DEF Reached
  <2> QED
    BY <2>2, <1>5, <1>6 DEF ServedInv
<1>13. Called(t)' = k
  BY <1>3, <1>8 DEF Called
<1>14. ASSUME alone'[t]
       PROVE  Course(t, k)' /\ \A u \in Thread \ {t} : ~Busy(u, k)'
  <2>1. \A u \in Thread \ {t} : ~Busy(u, k)'
    BY <1>3, <1>8, <1>13, <1>14, WatchFacts DEF IInv
  <2>2. \A u \in Thread \ {t} : ~Off(u, k) /\ Stores(u, k) = {}
    BY <2>1, <1>4, <1>8 DEF Busy, Off, Stores
  <2>3. enabled[k] \/ Stores(t, k) # {}
    BY <2>2, <1>10 DEF IInv, FlagInv
  <2>4. LastOn(t, k)
    BY <1>10 DEF IInv, FlagInv
  <2>5. Seen(t, k)
    <3>1. CASE Stores(t, k) = {}
      BY <3>1, <2>3 DEF Seen
    <3> QED
      BY <3>1, <2>4 DEF LastOn
  <2>6. Course(t, k)'
    BY <2>5, <1>3, <1>6, <1>8, <1>11 DEF Course
  <2> QED
    BY <2>1, <2>6
<1>15. TraceInv(t)'
  BY <1>3, <1>8, <1>13, <1>14 DEF TraceInv
<1> QED
  BY <1>8, <1>9, <1>11, <1>12, <1>15 DEF StepOf

-----------------------------------------------------------------------------
(* The theorems.                                                            *)

LEMMA NextKeeps == IInv /\ [Next]_vars => IInv'
<1> SUFFICES ASSUME IInv, [Next]_vars
             PROVE  IInv'
  OBVIOUS
<1>1. ASSUME UNCHANGED vars
      PROVE  IInv'
  <2>1. TypeOK'
    BY <1>1 DEF vars, IInv, TypeOK
  <2>2. ASSUME NEW t \in Thread, NEW k \in Kind
        PROVE  /\ Stores(t, k)' = Stores(t, k) /\ enabled'[k] = enabled[k]
               /\ stack'[t] = stack[t] /\ lines'[t] = lines[t] /\ calls'[t] = calls[t]
               /\ alone'[t] = alone[t] /\ Called(t)' = Called(t)
    BY <1>1 DEF vars, Stores, Called
  <2>3. ASSUME NEW t \in Thread, NEW k \in Kind
        PROVE  /\ Off(t, k)' <=> Off(t, k)
               /\ Seen(t, k)' <=> Seen(t, k)
               /\ Busy(t, k)' <=> Busy(t, k)
    BY <1>1 DEF vars, Off, Seen, Stores, Busy
  <2>4. ASSUME NEW t \in Thread, NEW k \in Kind, Course(t, k)
        PROVE  Course(t, k)'
    BY <2>2, <2>3, <2>4 DEF Course
  <2>5. FlagInv'
    <3>1. ASSUME NEW k \in Kind
          PROVE  /\ enabled'[k] = enabled[k]
                 /\ \A t \in Thread : Off(t, k)' \/ LastOn(t, k)'
      BY <1>1, <2>2, <2>3 DEF vars, IInv, FlagInv, LastOn
    <3>2. ASSUME NEW k \in Kind
          PROVE  enabled'[k] \/ \E t \in Thread : Off(t, k)' \/ Stores(t, k)' # {}
      BY <3>1, <2>2, <2>3 DEF IInv, FlagInv
    <3> QED
      BY <3>1, <3>2 DEF FlagInv
  <2>6. \A t \in Thread : ServedInv(t)'
    BY <1>1 DEF vars, IInv, ServedInv, Reached, ForProgram
  <2>7. ASSUME NEW t \in Thread
        PROVE  TraceInv(t)'
    <3>1. TraceInv(t)
      BY DEF IInv
    <3> QED
      BY <1>1, <3>1, <2>2, <2>3, <2>4 DEF vars, TraceInv
  <2> QED
    BY <2>1, <2>5, <2>6, <2>7 DEF IInv
<1>2. ASSUME Watch, NEW t \in Thread, Step(t) \/ Drain(t) \/ \E k \in Kind : Call(t, k)
      PROVE  StepOf(t)
  BY <1>2, CheckOpens, CheckServes, ClearKeeps, PrintKeeps, WriteKeeps, ResetKeeps,
     DrainKeeps, CallKeeps DEF Step
<1>3. ASSUME Next
      PROVE  IInv'
  <2>1. PICK t \in Thread : Step(t) \/ Drain(t) \/ \E k \in Kind : Call(t, k)
    BY <1>3 DEF Next
  <2>2. Watch
    BY <1>3 DEF Next
  <2> QED
    BY <2>1, <2>2, <1>2, StepKeeps
<1> QED
  BY <1>1, <1>3

LEMMA InitKeeps == Init => IInv
<1> SUFFICES ASSUME Init
             PROVE  IInv
  OBVIOUS
<1>1. TypeOK
  <2>1. \A t \in Thread : stack[t] = <<>> /\ DOMAIN stack[t] = {}
    BY DEF Init
  <2>2. /\ pending \in [Thread -> Seq([kind : Kind, on : BOOLEAN])]
        /\ stack \in [Thread -> Seq([kind : Kind, at : Labels])]
    BY DEF Init
  <2>3. calls \in [Thread -> 0 .. MaxCalls]
    BY BoundAssumption DEF Init
  <2>4. /\ enabled \in [Kind -> BOOLEAN] /\ buffered \in BOOLEAN
        /\ alone \in [Thread -> BOOLEAN]
    BY DEF Init
  <2>5. served \in [Thread -> Nat] /\ lines \in [Thread -> Nat]
    BY DEF Init
  <2> QED
    BY <2>1, <2>2, <2>3, <2>4, <2>5 DEF TypeOK
<1>2. ASSUME NEW t \in Thread, NEW k \in Kind
      PROVE  ~Off(t, k) /\ Stores(t, k) = {} /\ enabled[k]
  <2>1. stack[t] = <<>> /\ pending[t] = <<>> /\ enabled[k]
    BY DEF Init
  <2>2. DOMAIN stack[t] = {} /\ DOMAIN pending[t] = {}
    BY <2>1
  <2> QED
    BY <2>1, <2>2 DEF Off, Stores
<1>3. FlagInv
  <2>1. \A k \in Kind : enabled[k]
    BY DEF Init
  <2> QED
    BY <1>2, <2>1 DEF FlagInv, LastOn
<1>4. \A t \in Thread : ServedInv(t) /\ TraceInv(t)
  BY DEF Init, ServedInv, TraceInv
<1> QED
  BY <1>1, <1>3, <1>4 DEF IInv

LEMMA Invariance == Spec => []IInv
BY InitKeeps, NextKeeps, PTL DEF Spec

(* Flags, store buffers and stacks have their types, and all calls of a     *)
(* thread but the innermost wait in a hook of malloc.c or in its printf.    *)
THEOREM TypeCorrect == Spec => []TypeOK
<1>1. IInv => TypeOK
  BY DEF IInv
<1> QED
  BY <1>1, Invariance, PTL

(* Whatever the threads do to the flags that all of them share, a call of   *)
(* malloc, free, calloc or realloc reaches libc once.                       *)
THEOREM ServedOnceAlways == Spec => []ServedOnce
<1>1. IInv => ServedOnce
  BY DEF IInv, ServedInv, ServedOnce
<1> QED
  BY <1>1, Invariance, PTL

(* A call has exactly one line in the trace if no other thread was in the   *)
(* function, or had a store to its flag on the way, while it lasted.        *)
THEOREM TracedOnceAlways == Spec => []TracedOnce
<1>1. IInv => TracedOnce
  BY DEF IInv, TraceInv, TracedOnce
<1> QED
  BY <1>1, Invariance, PTL
=============================================================================
