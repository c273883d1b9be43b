---------------------------- MODULE MultiOp_proofs ---------------------------
(***************************************************************************)
(* Proofs about MultiOp, for every size of the buffer, batch limit, array  *)
(* and length of a value.                                                  *)
(*                                                                         *)
(* The invariant IInv says where every request is: those up to some number *)
(* are performed, of these the first ones are answered, and the responses  *)
(* to the others are in the buffer, in order and complete.                 *)
(***************************************************************************)
EXTENDS MultiOp, TLAPS

Item == [of : Int, ok : BOOLEAN, whole : BOOLEAN]
Result == [of : Int, ok : BOOLEAN, len : 0 .. Capacity - 24]
Buffer == [index : Nat, items : Seq(Item), mark : Nat, flushed : Nat]

(* The requests that earlier calls of C++ have dealt with.                  *)
First == start + sent

(* Exactly the first n requests have their answer in a.                     *)
Answered(a, n) ==
  /\ a \in [DOMAIN request -> Response]
  /\ \A j \in DOMAIN request : IF j <= n THEN a[j].of = j ELSE a[j] = NoAnswer

Performed(n) == performed = [j \in DOMAIN request |-> IF j <= n THEN 1 ELSE 0]

(* The first n responses in buffer o are complete, and those that come      *)
(* after the results that were flushed before.                              *)
Holds(o, n) ==
  /\ o \in Buffer
  /\ o.index = First + o.flushed
  /\ n \in 0 .. Len(o.items)
  /\ \A i \in 1 .. n : /\ o.items[i].of = First + o.flushed + i
                       /\ o.items[i].ok => o.items[i].whole

(* Of the first n results of this call, a has those before the last flush   *)
(* and buffer o the others.                                                 *)
Kept(a, o, n) ==
  /\ o.flushed \in 0 .. n
  /\ Len(o.items) = n - o.flushed
  /\ Holds(o, n - o.flushed)
  /\ Answered(a, First + o.flushed)

(* Between two iterations of the C++ loop.                                  *)
LoopInv ==
  /\ results \in [1 .. put -> Result]
  /\ \A j \in 1 .. put : results[j].of = First + j
  /\ done \in 0 .. put
  /\ Kept(answer, out, done)
  /\ Performed(First + put)

IInv ==
  /\ pc \in {"idle", "fill", "perform", "respond"} /\ kind \in Kinds
  /\ request \in Batches \cup {<<>>}
  /\ start \in Nat /\ sent \in Nat /\ put \in Nat /\ mark \in Nat /\ calls \in Nat
  /\ mark <= Capacity
  /\ out \in Buffer /\ out.mark <= Capacity
  /\ pc # "idle" => start < Len(request) /\ sent \in 0 .. Length - 1 /\ put \in 0 .. Length - sent
  /\ pc \in {"fill", "perform"} => Answered(answer, First) /\ Performed(First)
  /\ pc = "respond" => LoopInv
  /\ pc = "idle" => Answered(answer, Len(request)) /\ Performed(Len(request))

-----------------------------------------------------------------------------
(* Lemmas about the constants and the operators.                            *)

LEMMA ElementType ==
  ASSUME NEW S, NEW s \in Seq(S), NEW k \in 1 .. Len(s)
  PROVE  s[k] \in S
OBVIOUS

LEMMA ArrayTypes ==
  ASSUME IInv
  PROVE  /\ request \in Seq([key : Nat, value : Nat])
         /\ Len(request) \in Nat /\ DOMAIN request = 1 .. Len(request)
<1>1. request \in Seq([key : Nat, value : Nat])
  <2>1. CASE request \in Batches BY <2>1, BatchAssumption
  <2>2. CASE request = <<>> BY <2>2
  <2>3. QED BY <2>1, <2>2 DEF IInv
<1>2. QED BY <1>1

LEMMA LengthTypes ==
  ASSUME IInv, start < Len(request)
  PROVE  /\ Length \in Nat \ {0} /\ Length <= BatchLimit
         /\ start + Length <= Len(request)
BY ArrayTypes, LimitAssumption DEF IInv, Length

(* Java stores n complete responses: the requests up to the last of them    *)
(* are answered.                                                            *)
LEMMA UnloadAnswers ==
  ASSUME IInv, NEW a, NEW o, NEW n \in Nat,
         Holds(o, n), Answered(a, First + o.flushed),
         First + o.flushed + n <= Len(request)
  PROVE  Answered(Unload(a, o, n), First + o.flushed + n)
<1> DEFINE u == Unload(a, o, n)
           b == First + o.flushed
<1>1. b \in Nat /\ o.index = b /\ DOMAIN a = DOMAIN request
  BY DEF Holds, Buffer, First, IInv, Answered
<1>2. DOMAIN request = 1 .. Len(request) /\ Len(request) \in Nat
  BY ArrayTypes
<1>3. ASSUME NEW j \in DOMAIN request
      PROVE  /\ u[j] \in Response
             /\ IF j <= b + n THEN u[j].of = j ELSE u[j] = NoAnswer
  <2>1. CASE j <= b
    <3>1. u[j] = a[j]
      BY <1>1, <1>2, <2>1 DEF Unload
    <3>2. QED BY <3>1, <1>1, <1>2, <2>1 DEF Answered
  <2>2. CASE j > b + n
    <3>1. u[j] = a[j]
      BY <1>1, <1>2, <2>2 DEF Unload
    <3>2. QED BY <3>1, <1>1, <1>2, <2>2 DEF Answered
  <2>3. CASE j > b /\ j <= b + n
    <3> DEFINE i == j - b
    <3>1. i \in 1 .. n /\ i <= Len(o.items) /\ Len(o.items) \in Nat
      BY <1>1, <1>2, <2>3 DEF Holds, Buffer
    <3>2. u[j] = Stored(o, i)
      BY <1>1, <1>2, <2>3 DEF Unload
    <3>3. o.items[i].of = j /\ (o.items[i].ok => o.items[i].whole)
      BY <3>1, <1>1, <1>2 DEF Holds
    <3>4. o.items[i] \in Item
      BY <3>1 DEF Holds, Buffer
    <3>5. u[j] = [of |-> j, ok |-> o.items[i].ok]
      BY <3>1, <3>2, <3>3 DEF Stored
    <3>6. QED BY <3>4, <3>5, <2>3 DEF Item, Response
  <2>4. QED BY <2>1, <2>2, <2>3, <1>1, <1>2
<1>4. u \in [DOMAIN request -> Response]
  BY <1>1, <1>3 DEF Unload
<1>5. QED BY <1>3, <1>4 DEF Answered

(* A buffer that was flushed before result i holds no response.             *)
LEMMA FlushedHolds ==
  ASSUME IInv, NEW o, NEW i \in Nat
  PROVE  /\ Holds(Flushed(o, i), 0)
         /\ Flushed(o, i).flushed = i /\ Flushed(o, i).items = <<>> /\ Flushed(o, i).mark = 8
<1>1. Flushed(o, i) = [index |-> First + i, items |-> <<>>, mark |-> 8, flushed |-> i]
  BY DEF Flushed, Fresh, First
<1>2. First \in Nat /\ First + i \in Nat
  BY DEF First, IInv
<1>3. <<>> \in Seq(Item) /\ Len(<<>>) = 0
  OBVIOUS
<1>4. Flushed(o, i) \in Buffer
  BY <1>1, <1>2, <1>3 DEF Buffer
<1>5. QED BY <1>1, <1>2, <1>3, <1>4 DEF Holds

(* Writing the status of the next result adds an item to the buffer; for a  *)
(* failure, or once the rest is written, that is a complete response.       *)
LEMMA StatusHolds ==
  ASSUME IInv, NEW o, NEW r \in Result, Holds(o, Len(o.items)),
         r.of = First + o.flushed + Len(o.items) + 1
  PROVE  LET o2 == WriteStatus(o, r)
             o3 == WriteRest(o2, r)
             n  == Len(o.items)
         IN  /\ n \in Nat
             /\ Len(o2.items) = n + 1 /\ Len(o3.items) = n + 1
             /\ o2.flushed = o.flushed /\ o3.flushed = o.flushed
             /\ o2.mark = o.mark + 4 /\ o3.mark = o.mark + 4 + RestSize(r)
             /\ Holds(o2, n)
             /\ ~r.ok => Holds(o2, n + 1)
             /\ Holds(o3, n + 1)
<1> DEFINE o2 == WriteStatus(o, r)
           o3 == WriteRest(o2, r)
           n  == Len(o.items)
           x2 == [of |-> r.of, ok |-> r.ok, whole |-> FALSE]
           x3 == [of |-> r.of, ok |-> r.ok, whole |-> TRUE]
<1>1. /\ o \in Buffer /\ o.items \in Seq(Item) /\ n \in Nat
      /\ o = [index |-> o.index, items |-> o.items, mark |-> o.mark, flushed |-> o.flushed]
      /\ o.mark \in Nat /\ o.flushed \in Nat /\ o.index \in Nat
  BY DEF Holds, Buffer
<1>2. x2 \in Item /\ x3 \in Item
  BY DEF Item, Result
<1>3. o2 = [index |-> o.index, items |-> Append(o.items, x2), mark |-> o.mark + 4,
            flushed |-> o.flushed]
  BY <1>1 DEF WriteStatus
<1>4. RestSize(r) \in Nat
  BY DEF RestSize, Result
<1>5. /\ o2.items \in Seq(Item) /\ Len(o2.items) = n + 1
      /\ o2.items[n + 1] = x2
      /\ \A i \in 1 .. n : o2.items[i] = o.items[i]
  BY <1>1, <1>2, <1>3
<1>6. o2 \in Buffer
  BY <1>1, <1>3, <1>5 DEF Buffer
<1>7. o3 = [index |-> o.index, items |-> [o2.items EXCEPT ![n + 1] = x3],
            mark |-> o.mark + 4 + RestSize(r), flushed |-> o.flushed]
  BY <1>3, <1>5 DEF WriteRest
<1>8. /\ o3.items \in Seq(Item) /\ Len(o3.items) = n + 1
      /\ o3.items[n + 1] = x3
      /\ \A i \in 1 .. n : o3.items[i] = o.items[i]
  <2>1. o3.items = [o2.items EXCEPT ![n + 1] = x3]
    BY <1>7
  <2>2. QED BY <2>1, <1>1, <1>2, <1>5
<1>9. o3 \in Buffer
  BY <1>1, <1>4, <1>7, <1>8 DEF Buffer
<1>10. First \in Nat
  BY DEF First, IInv
<1>11. Holds(o2, n)
  BY <1>1, <1>3, <1>5, <1>6 DEF Holds
<1>12. ASSUME NEW x, x \in {o2, o3}, x = o3 \/ ~r.ok
       PROVE  Holds(x, n + 1)
  <2>1. /\ x \in Buffer /\ x.index = o.index /\ x.flushed = o.flushed
        /\ Len(x.items) = n + 1
        /\ x.items[n + 1].of = r.of
        /\ x.items[n + 1].ok => x.items[n + 1].whole
        /\ \A i \in 1 .. n : x.items[i] = o.items[i]
    <3>1. CASE x = o2
      <4>1. ~r.ok \/ x = o3
        BY <1>12
      <4>2. o2.index = o.index /\ o2.flushed = o.flushed
        BY <1>3
      <4>3. o2.items[n + 1].of = r.of /\ o2.items[n + 1].ok = r.ok
        BY <1>5
      <4>4. o3.items[n + 1].whole
        BY <1>8
      <4>5. QED BY <3>1, <4>1, <4>2, <4>3, <4>4, <1>5, <1>6
    <3>2. CASE x = o3
      <4>1. o3.index = o.index /\ o3.flushed = o.flushed
        BY <1>7
      <4>2. o3.items[n + 1].of = r.of /\ o3.items[n + 1].whole
        BY <1>8
      <4>3. QED BY <3>2, <4>1, <4>2, <1>8, <1>9
    <3>3. QED BY <3>1, <3>2, <1>12
  <2>2. n + 1 \in 0 .. Len(x.items)
    BY <1>1, <2>1
  <2>3. ASSUME NEW i \in 1 .. n + 1
        PROVE  /\ x.items[i].of = First + x.flushed + i
               /\ x.items[i].ok => x.items[i].whole
    <3>1. CASE i = n + 1
      BY <3>1, <1>1, <1>10, <2>1
    <3>2. CASE i \in 1 .. n
      BY <3>2, <2>1 DEF Holds
    <3>3. QED BY <3>1, <3>2, <1>1
  <2>4. x.index = First + x.flushed
    BY <2>1 DEF Holds
  <2>5. QED BY <2>1, <2>2, <2>3, <2>4 DEF Holds
<1>13. (~r.ok => Holds(o2, n + 1)) /\ Holds(o3, n + 1)
  BY <1>12
<1>14. QED BY <1>1, <1>3, <1>5, <1>7, <1>8, <1>11, <1>13

-----------------------------------------------------------------------------
(* IInv holds initially and after each action.                              *)

LEMMA InitHolds == Init => IInv
<1> SUFFICES ASSUME Init PROVE IInv
  OBVIOUS
<1>1. /\ pc = "idle" /\ kind \in Kinds /\ request = <<>> /\ start = 0 /\ sent = 0 /\ put = 0
      /\ mark = 0 /\ calls = 0 /\ answer = <<>> /\ performed = <<>>
      /\ out = [index |-> 0, items |-> <<>>, mark |-> 8, flushed |-> 0]
  BY DEF Init, Fresh
<1>2. out \in Buffer /\ out.mark = 8
  BY <1>1 DEF Buffer
<1>3. DOMAIN request = {} /\ Len(request) = 0
  BY <1>1
<1>4. Answered(answer, Len(request))
  BY <1>1, <1>3 DEF Answered
<1>5. Performed(Len(request))
  BY <1>1, <1>3 DEF Performed
<1>6. QED BY <1>1, <1>2, <1>4, <1>5, LengthAssumption DEF IInv

LEMMA HandleStep == IInv /\ Handle => IInv'
<1> SUFFICES ASSUME IInv, Handle PROVE IInv'
  OBVIOUS
<1>1. /\ pc' = "fill" /\ kind' \in Kinds /\ request' \in Batches
      /\ start' = 0 /\ sent' = 0 /\ put' = 0 /\ mark' = 16 /\ calls' = calls + 1 /\ out' = out
      /\ answer' = [j \in DOMAIN request' |-> NoAnswer]
      /\ performed' = [j \in DOMAIN request' |-> 0]
  BY DEF Handle, Rewound
<1>2. /\ request' \in Seq([key : Nat, value : Nat]) /\ request' # <<>>
      /\ DOMAIN request' = 1 .. Len(request') /\ Len(request') \in Nat \ {0}
  BY <1>1, BatchAssumption
<1>3. Length' \in Nat \ {0}
  BY <1>1, <1>2, LimitAssumption DEF Length
<1>4. First' = 0
  BY <1>1 DEF First
<1>5. \A j \in DOMAIN request' : answer'[j] = NoAnswer /\ ~(j <= 0)
  BY <1>1, <1>2
<1>6. NoAnswer \in Response'
  BY DEF NoAnswer, Response
<1>7. Answered(answer, First)'
  BY <1>1, <1>4, <1>5, <1>6 DEF Answered
<1>8. Performed(First)'
  <2> DEFINE f(j) == IF j <= 0 THEN 1 ELSE 0
  <2>1. \A j \in DOMAIN request' : f(j) = 0
    BY <1>5
  <2>2. performed' = [j \in DOMAIN request' |-> f(j)]
    <3> HIDE DEF f
    <3>1. QED BY <2>1, <1>1
  <2>3. QED BY <2>2, <1>4 DEF Performed
<1>9. (out \in Buffer /\ out.mark <= Capacity)'
  BY <1>1 DEF IInv, Buffer
<1>10. 16 <= Capacity
  BY LengthAssumption
<1>11. start' < Len(request') /\ sent' \in 0 .. Length' - 1 /\ put' \in 0 .. Length' - sent'
  <2>1. 0 < Len(request')
    BY <1>2
  <2>2. 0 \in 0 .. Length' - 1 /\ 0 \in 0 .. Length' - 0
    <3>1. ASSUME NEW l \in Nat \ {0} PROVE 0 \in 0 .. l - 1 /\ 0 \in 0 .. l - 0
      OBVIOUS
    <3>2. QED BY <3>1, <1>3, Zenon
  <2>3. QED BY <2>1, <2>2, <1>1, Zenon
<1>12. calls' \in Nat
  BY <1>1 DEF IInv
<1>13. QED BY <1>1, <1>7, <1>8, <1>9, <1>10, <1>11, <1>12 DEF IInv

LEMMA WriteRequestStep == IInv /\ WriteRequest => IInv'
<1> SUFFICES ASSUME IInv, WriteRequest PROVE IInv'
  OBVIOUS
<1>1. /\ pc = "fill" /\ put < Length - sent /\ put' = put + 1
      /\ mark + RequestSize(NextRequest) < Capacity
      /\ mark' = mark + RequestSize(NextRequest)
      /\ UNCHANGED <<pc, kind, request, start, sent, out, performed, answer, calls>>
  BY DEF WriteRequest, CanWrite, Fits
<1>2. NextRequest \in [key : Nat, value : Nat]
  <2>1. start < Len(request) /\ start \in Nat /\ sent \in Nat /\ put \in Nat
    BY <1>1 DEF IInv
  <2>2. start + sent + put + 1 \in 1 .. Len(request)
    BY <2>1, <1>1, ArrayTypes, LengthTypes
  <2>3. \A k \in 1 .. Len(request) : request[k] \in [key : Nat, value : Nat]
    BY ArrayTypes, ElementType, Zenon
  <2>4. QED BY <2>1, <2>2, <2>3, Zenon DEF NextRequest
<1>3. RequestSize(NextRequest) \in Nat
  BY SMTT(30), <1>2 DEF RequestSize, IInv, Kinds
<1>4. Length' = Length /\ Length \in Nat
  BY <1>1, LengthTypes DEF Length, IInv
<1>5. (Answered(answer, First) /\ Performed(First))'
  BY <1>1 DEF IInv, Answered, Performed, First, Response
<1>6. QED BY <1>1, <1>3, <1>4, <1>5, LengthAssumption DEF IInv, Buffer

LEMMA CallCppStep == IInv /\ CallCpp => IInv'
<1> SUFFICES ASSUME IInv, CallCpp PROVE IInv'
  OBVIOUS
<1>1. /\ pc = "fill" /\ pc' = "perform"
      /\ UNCHANGED <<kind, request, start, sent, put, mark, out, performed, answer, calls>>
  BY DEF CallCpp
<1>2. Length' = Length
  BY <1>1 DEF Length
<1>3. (Answered(answer, First) /\ Performed(First))'
  BY <1>1 DEF IInv, Answered, Performed, First, Response
<1>4. QED BY <1>1, <1>2, <1>3 DEF IInv, Buffer

(* The server performs the requests in the buffer, which come after those   *)
(* it has performed.                                                        *)
LEMMA PerformStep == IInv /\ Perform => IInv'
<1> SUFFICES ASSUME IInv, Perform PROVE IInv'
  OBVIOUS
<1>1. /\ pc = "perform" /\ pc' = "respond" /\ done' = 0
      /\ out' = [index |-> First, items |-> <<>>, mark |-> 8, flushed |-> 0]
      /\ performed' = [j \in DOMAIN request |->
                         performed[j] + IF j \in First + 1 .. First + put THEN 1 ELSE 0]
      /\ UNCHANGED <<kind, request, start, sent, put, mark, answer, calls>>
  BY DEF Perform, Fresh, First
<1>2. PICK o \in [1 .. put -> Outcome] :
        results' = [j \in 1 .. put |-> [of |-> First + j, ok |-> o[j].ok, len |-> o[j].len]]
  BY DEF Perform, First
<1>3. Length' = Length /\ First' = First /\ First \in Nat /\ put \in Nat
  BY <1>1 DEF Length, First, IInv
<1>4. results' \in [1 .. put -> Result] /\ \A j \in 1 .. put : results'[j].of = First + j
  <2>1. ASSUME NEW j \in 1 .. put
        PROVE  o[j].ok \in BOOLEAN /\ o[j].len \in 0 .. Capacity - 24
    <3>1. o[j] \in Outcome
      BY <1>2
    <3>2. 0 \in 0 .. Capacity - 24
      BY LengthAssumption
    <3>3. CASE o[j] = [ok |-> FALSE, len |-> 0]
      BY <3>2, <3>3
    <3>4. CASE o[j] \in [ok : {TRUE}, len : IF kind = "read" THEN Lengths ELSE {0}]
      <4>1. o[j].ok = TRUE /\ o[j].len \in IF kind = "read" THEN Lengths ELSE {0}
        BY <3>4
      <4>2. QED BY <4>1, <3>2, LengthAssumption
    <3>5. QED BY <3>1, <3>3, <3>4 DEF Outcome
  <2>2. QED BY <1>2, <1>3, <2>1 DEF Result
<1>5. out' \in Buffer
  BY <1>1, <1>3 DEF Buffer
<1>6. Holds(out, 0)'
  BY <1>1, <1>3, <1>5 DEF Holds, Buffer
<1>7. Answered(answer, First + out.flushed)'
  BY <1>1, <1>3 DEF IInv, Answered, Response
<1>8. Performed(First + put)'
  <2>1. \A j \in DOMAIN request : j \in Int
    BY ArrayTypes
  <2>2. performed = [j \in DOMAIN request |-> IF j <= First THEN 1 ELSE 0]
    BY <1>1 DEF IInv, Performed
  <2>3. ASSUME NEW j \in DOMAIN request
        PROVE  performed[j] + (IF j \in First + 1 .. First + put THEN 1 ELSE 0)
                 = IF j <= First + put THEN 1 ELSE 0
    BY <2>1, <2>2, <1>3
  <2>4. QED BY <1>1, <1>3, <2>3 DEF Performed
<1>9. LoopInv'
  BY <1>1, <1>3, <1>4, <1>6, <1>7, <1>8 DEF LoopInv, Result, Kept
<1>10. QED BY <1>1, <1>3, <1>5, <1>9, LengthAssumption DEF IInv, Buffer

(* C++ writes a response, after a flush if need be: what is flushed is      *)
(* complete up to the last response, and what it writes then fits.          *)
LEMMA WriteResponseStep == IInv /\ WriteResponse => IInv'
<1> SUFFICES ASSUME IInv, WriteResponse PROVE IInv'
  OBVIOUS
<1> DEFINE r == results[done + 1]
           early == Full(out.mark, 4)
           o1 == IF early THEN Flushed(out, done) ELSE out
           a1 == IF early THEN Unload(answer, out, Count(out, done)) ELSE answer
           o2 == WriteStatus(o1, r)
           late == r.ok /\ Full(o2.mark, RestSize(r))
           o3 == IF late THEN WriteStatus(Flushed(o2, done), r) ELSE o2
           a4 == IF late THEN Unload(a1, o2, Count(o2, done)) ELSE a1
           o4 == IF r.ok THEN WriteRest(o3, r) ELSE o3
<1>1. /\ pc = "respond" /\ done < put /\ done' = done + 1 /\ answer' = a4 /\ out' = o4
      /\ UNCHANGED <<pc, kind, request, start, sent, put, mark, results, performed, calls>>
  BY DEF WriteResponse
<1>2. LoopInv
  BY <1>1 DEF IInv
<1>3. /\ First \in Nat /\ done \in Nat /\ put \in Nat
      /\ First + done <= Len(request) /\ Len(request) \in Nat
  <2>1. start < Len(request) /\ start \in Nat /\ sent \in Nat /\ put \in 0 .. Length - sent
    BY <1>1 DEF IInv
  <2>2. start + Length <= Len(request) /\ Length \in Nat /\ Len(request) \in Nat
    BY <2>1, ArrayTypes, LengthTypes
  <2>3. done \in 0 .. put
    BY <1>2 DEF LoopInv
  <2>4. QED BY <2>1, <2>2, <2>3, <1>1 DEF First
<1>4. r \in Result /\ r.of = First + done + 1
  BY <1>1, <1>2, <1>3 DEF LoopInv
<1>5. Kept(answer, out, done) /\ out.mark \in Nat /\ out.mark <= Capacity
  BY <1>2 DEF LoopInv, IInv, Buffer
<1>6. RestSize(r) \in Nat /\ 12 + RestSize(r) <= Capacity
  BY <1>4, LengthAssumption DEF RestSize, Result
<1>7. Kept(a1, o1, done) /\ o1.mark \in Nat /\ o1.mark + 4 <= Capacity
  <2>1. CASE ~early
    BY <2>1, <1>5, LengthAssumption DEF Full
  <2>2. CASE early
    <3>1. a1 = Unload(answer, out, done - out.flushed) /\ o1 = Flushed(out, done)
      BY <2>2 DEF Count
    <3>2. done - out.flushed \in Nat /\ First + out.flushed + (done - out.flushed) = First + done
      BY <1>3, <1>5 DEF Kept
    <3>3. Answered(a1, First + done)
      BY <3>1, <3>2, <1>3, <1>5, UnloadAnswers DEF Kept
    <3>4. o1.flushed = done /\ o1.items = <<>> /\ o1.mark = 8 /\ Holds(o1, 0)
      BY <3>1, <1>3, FlushedHolds
    <3>5. QED BY <3>3, <3>4, <1>3, LengthAssumption DEF Kept
  <2>3. QED BY <2>1, <2>2
<1> HIDE DEF r, o1, a1
<1>8. /\ o2.flushed = o1.flushed /\ o2.mark = o1.mark + 4
      /\ Holds(o2, done - o1.flushed)
      /\ ~r.ok => Holds(o2, done + 1 - o1.flushed)
      /\ Holds(WriteRest(o2, r), done + 1 - o1.flushed)
      /\ WriteRest(o2, r).flushed = o1.flushed
      /\ WriteRest(o2, r).mark = o1.mark + 4 + RestSize(r)
      /\ Len(o2.items) = done + 1 - o1.flushed
      /\ Len(WriteRest(o2, r).items) = done + 1 - o1.flushed
  <2>1. Holds(o1, Len(o1.items)) /\ r.of = First + o1.flushed + Len(o1.items) + 1
    BY <1>3, <1>4, <1>7 DEF Kept
  <2>2. Len(o1.items) = done - o1.flushed /\ Len(o1.items) + 1 = done + 1 - o1.flushed
    BY <1>3, <1>7 DEF Kept
  <2>3. QED BY <2>1, <2>2, <1>4, StatusHolds
<1> HIDE DEF o2
<1>9. o1.flushed \in Nat /\ o1.flushed <= done /\ o2.flushed = o1.flushed
  BY <1>3, <1>7, <1>8 DEF Kept
<1>10. Answered(a1, First + o2.flushed)
  BY <1>7, <1>8 DEF Kept
<1>11. Kept(a4, o4, done + 1) /\ o4.mark <= Capacity
  <2>1. CASE ~r.ok
    <3>1. o4 = o2 /\ a4 = a1
      BY <2>1
    <3>2. o2.flushed \in 0 .. done + 1 /\ o2.mark <= Capacity
      BY <1>3, <1>7, <1>8, <1>9, LengthAssumption
    <3>3. Kept(a1, o2, done + 1)
      <4>1. done + 1 - o2.flushed = done + 1 - o1.flushed
        BY <1>9
      <4>2. Holds(o2, done + 1 - o2.flushed) /\ Len(o2.items) = done + 1 - o2.flushed
        BY <4>1, <2>1, <1>8
      <4>3. QED BY SMTT(30), <4>2, <3>2, <1>3, <1>9, <1>10 DEF Kept
    <3>4. QED BY <3>1, <3>2, <3>3
  <2>2. CASE r.ok /\ ~late
    <3> DEFINE w == WriteRest(o2, r)
    <3>1. o4 = w /\ a4 = a1
      BY <2>2
    <3>2. w.mark <= Capacity
      BY <2>2, <1>6, <1>7, <1>8, LengthAssumption DEF Full
    <3>3. /\ w.flushed = o2.flushed /\ w.flushed \in 0 .. done + 1
          /\ Len(w.items) = done + 1 - w.flushed /\ Holds(w, done + 1 - w.flushed)
      BY <1>3, <1>8, <1>9
    <3> HIDE DEF w
    <3>4. Kept(a1, w, done + 1)
      <4>1. Answered(a1, First + w.flushed)
        BY <3>3, <1>10
      <4>2. QED BY <4>1, <3>3, <1>3, <1>9 DEF Kept
    <3>5. QED BY <3>1, <3>2, <3>4
  <2>3. CASE late
    <3> DEFINE e == Flushed(o2, done)
               w == WriteRest(WriteStatus(e, r), r)
    <3>1. o4 = w /\ a4 = Unload(a1, o2, done - o2.flushed)
      BY <2>3 DEF Count
    <3> HIDE DEF a4, o4
    <3>2. Answered(a4, First + done)
      <4>1. done - o2.flushed \in Nat /\ First + o2.flushed + (done - o2.flushed) = First + done
        BY <1>3, <1>9
      <4>2. Holds(o2, done - o2.flushed)
        BY <1>8, <1>9
      <4>3. QED BY <3>1, <4>1, <4>2, <1>3, <1>10, UnloadAnswers
    <3>3. Holds(e, 0) /\ e.flushed = done /\ e.items = <<>> /\ e.mark = 8
      BY <1>3, FlushedHolds
    <3> HIDE DEF e
    <3>4. Len(e.items) = 0 /\ r.of = First + e.flushed + Len(e.items) + 1
      BY <3>3, <1>3, <1>4
    <3>5. /\ Len(w.items) = 1 /\ w.flushed = done /\ Holds(w, 1)
          /\ w.mark = 8 + 4 + RestSize(r)
      <4>1. Holds(e, Len(e.items)) /\ Len(e.items) + 1 = 1
        BY <3>3, <3>4
      <4>2. /\ Len(w.items) = Len(e.items) + 1 /\ Holds(w, Len(e.items) + 1)
            /\ w.flushed = e.flushed /\ w.mark = e.mark + 4 + RestSize(r)
        BY <4>1, <3>4, <1>4, StatusHolds
      <4>3. QED BY <4>1, <4>2, <3>3
    <3> HIDE DEF w
    <3>6. done + 1 - w.flushed = 1 /\ w.flushed \in 0 .. done + 1 /\ w.mark <= Capacity
      BY <3>5, <1>3, <1>6
    <3>7. Kept(a4, w, done + 1)
      BY <3>2, <3>5, <3>6 DEF Kept
    <3>8. QED BY <3>1, <3>6, <3>7
  <2>4. QED BY <2>1, <2>2, <2>3
<1> HIDE DEF a4, o4
<1>12. First' = First /\ Length' = Length
  BY <1>1 DEF First, Length
<1>13. LoopInv'
  <2>1. /\ results' \in [1 .. put' -> Result'] /\ \A j \in 1 .. put' : results'[j].of = First' + j
        /\ Performed(First + put)'
    BY <1>1, <1>2, <1>12 DEF LoopInv, Performed, Result
  <2>2. done' \in 0 .. put'
    BY <1>1, <1>3
  <2>3. Kept(answer, out, done)'
    BY <1>1, <1>11, <1>12 DEF Kept, Holds, Buffer, Answered, Response
  <2>4. QED BY <2>1, <2>2, <2>3 DEF LoopInv
<1>14. (out \in Buffer /\ out.mark <= Capacity)'
  BY <1>1, <1>11 DEF Kept, Holds, Buffer
<1>15. QED BY <1>1, <1>12, <1>13, <1>14 DEF IInv

(* The last flush answers the requests that were in the buffer, and handle()*)
(* goes on after the last of them.                                          *)
LEMMA ReturnStep == IInv /\ Return => IInv'
<1> SUFFICES ASSUME IInv, Return PROVE IInv'
  OBVIOUS
<1> DEFINE batchDone == sent + put >= Length
           begin == IF batchDone THEN NextStart ELSE start
           a == Unload(answer, out, Count(out, put))
<1>1. /\ pc = "respond" /\ done = put /\ put' = 0 /\ mark' = 16
      /\ answer' = a /\ out' = Flushed(out, put)
      /\ start' = begin
      /\ sent' = IF batchDone THEN 0 ELSE sent + put
      /\ pc' = IF begin >= Len(request) THEN "idle" ELSE "fill"
      /\ UNCHANGED <<kind, request, performed, calls>>
  BY DEF Return, Rewound
<1>2. LoopInv
  BY <1>1 DEF IInv
<1>3. /\ start < Len(request) /\ start \in Nat /\ sent \in Nat /\ put \in Nat
      /\ sent \in 0 .. Length - 1 /\ put \in 0 .. Length - sent
  BY <1>1 DEF IInv
<1>4. /\ start + Length <= Len(request) /\ Length \in Nat \ {0} /\ Len(request) \in Nat
      /\ Length <= BatchLimit
  BY <1>3, ArrayTypes, LengthTypes
<1>5. First + put \in Nat /\ First \in Nat /\ First + put <= Len(request)
  BY <1>3, <1>4 DEF First
<1>6. Answered(a, First + put) /\ Performed(First + put)
  <2>1. /\ out.flushed \in 0 .. put /\ Holds(out, put - out.flushed)
        /\ Answered(answer, First + out.flushed) /\ Performed(First + put)
    BY <1>1, <1>2 DEF LoopInv, Kept
  <2>2. /\ put - out.flushed \in Nat
        /\ First + out.flushed + (put - out.flushed) = First + put
    BY <2>1, <1>3, <1>5
  <2>3. QED BY <2>1, <2>2, <1>5, UnloadAnswers DEF Count
<1>7. (out \in Buffer /\ out.mark <= Capacity)'
  <2>1. Holds(Flushed(out, put), 0) /\ Flushed(out, put).mark = 8
    BY <1>3, FlushedHolds
  <2>2. Buffer' = Buffer
    BY DEF Buffer
  <2>3. QED BY <2>1, <2>2, <1>1, LengthAssumption DEF Holds
<1> HIDE DEF a
<1>8. /\ start' \in Nat /\ sent' \in Nat
      /\ pc' = "idle" => First + put = Len(request)
      /\ pc' # "idle" => /\ start' < Len(request) /\ pc' = "fill"
                         /\ First' = First + put
                         /\ Length' \in Nat /\ sent' < Length'
  <2>1. CASE batchDone
    <3>1. /\ start' = start + BatchLimit /\ sent' = 0 /\ First + put = start + Length
          /\ BatchLimit \in Nat \ {0}
      BY <2>1, <1>1, <1>3, <1>4, LimitAssumption DEF NextStart, First
    <3>2. CASE start' >= Len(request)
      <4>1. Len(request) - start <= BatchLimit
        BY <3>1, <3>2, <1>3, <1>4
      <4>2. Length = Len(request) - start
        BY <4>1, <1>3, <1>4, LimitAssumption DEF Length
      <4>3. QED BY <3>1, <3>2, <4>2, <1>1, <1>3, <1>4
    <3>3. CASE start' < Len(request)
      <4>1. Length = BatchLimit
        BY <3>1, <3>3, <1>3, <1>4, LimitAssumption DEF Length
      <4>2. Length' \in Nat \ {0}
        BY <3>1, <3>3, <1>1, <1>3, <1>4 DEF Length
      <4>3. First' = First + put
        BY <3>1, <4>1, <1>3, <1>4 DEF First
      <4>4. QED BY <3>1, <3>3, <4>2, <4>3, <1>1, <1>3, <1>4
    <3>4. QED BY <3>1, <3>2, <3>3, <1>3, <1>4
  <2>2. CASE ~batchDone
    <3>1. start' = start /\ sent' = sent + put /\ sent + put < Length
      BY <2>2, <1>1, <1>3, <1>4
    <3>2. pc' = "fill"
      BY <2>2, <1>1, <1>3, <1>4
    <3>3. Length' = Length /\ First' = First + put
      BY <3>1, <1>1, <1>3 DEF Length, First
    <3>4. QED BY <3>1, <3>2, <3>3, <1>3, <1>4
  <2>3. QED BY <2>1, <2>2
<1>9. CASE pc' = "idle"
  <2>1. (Answered(answer, Len(request)) /\ Performed(Len(request)))'
    BY <1>1, <1>6, <1>8, <1>9 DEF Answered, Performed, Response
  <2>2. 16 <= Capacity
    BY LengthAssumption
  <2>3. QED BY <1>1, <1>7, <1>8, <1>9, <2>1, <2>2 DEF IInv
<1>10. CASE pc' # "idle"
  <2>1. (Answered(answer, First) /\ Performed(First))'
    BY <1>1, <1>6, <1>8, <1>10 DEF Answered, Performed, Response
  <2>2. 16 <= Capacity
    BY LengthAssumption
  <2>3. sent' \in 0 .. Length' - 1 /\ put' \in 0 .. Length' - sent'
    BY <1>1, <1>8, <1>10
  <2>4. QED BY <1>1, <1>7, <1>8, <1>10, <2>1, <2>2, <2>3 DEF IInv
<1>11. QED BY <1>9, <1>10

LEMMA StepHolds == IInv /\ [Next]_vars => IInv'
<1> SUFFICES ASSUME IInv, [Next]_vars PROVE IInv'
  OBVIOUS
<1>1. CASE Handle BY <1>1, HandleStep
<1>2. CASE WriteRequest BY <1>2, WriteRequestStep
<1>3. CASE CallCpp BY <1>3, CallCppStep
<1>4. CASE Perform BY <1>4, PerformStep
<1>5. CASE WriteResponse BY <1>5, WriteResponseStep
<1>6. CASE Return BY <1>6, ReturnStep
<1>7. CASE UNCHANGED vars
  <2>1. /\ UNCHANGED <<pc, kind, request, start, sent, put, mark>>
        /\ UNCHANGED <<results, done, out, performed, answer, calls>>
    BY <1>7 DEF vars
  <2>2. First' = First /\ Length' = Length /\ LoopInv' = LoopInv
    BY <2>1 DEF First, Length, LoopInv, Kept, Holds, Answered, Performed, Response, Buffer,
                Result
  <2>3. QED BY <2>1, <2>2 DEF IInv, Buffer, Answered, Performed, Response
<1>8. QED BY <1>1, <1>2, <1>3, <1>4, <1>5, <1>6, <1>7 DEF Next, Finished

(* Where every request is, at any time: IInv holds in every behaviour.      *)
THEOREM Invariance == Spec => []IInv
BY InitHolds, StepHolds, PTL DEF Spec

(* In every state some n requests have been performed, and the first m of   *)
(* them are answered.                                                       *)
LEMMA Progressed ==
  ASSUME IInv
  PROVE  \E n \in Nat, m \in Nat : m <= n /\ Answered(answer, m) /\ Performed(n)
<1>1. CASE pc = "idle"
  BY <1>1, ArrayTypes DEF IInv
<1>2. CASE pc \in {"fill", "perform"}
  BY <1>2 DEF IInv, First
<1>3. CASE pc = "respond"
  <2>1. /\ Answered(answer, First + out.flushed) /\ Performed(First + put)
        /\ out.flushed \in 0 .. done /\ done \in 0 .. put
    BY <1>3 DEF IInv, LoopInv, Kept
  <2>2. First \in Nat /\ put \in Nat
    BY DEF IInv, First
  <2>3. /\ First + out.flushed \in Nat /\ First + put \in Nat
        /\ First + out.flushed <= First + put
    BY <2>1, <2>2
  <2>4. QED BY <2>1, <2>3
<1>4. QED BY <1>1, <1>2, <1>3 DEF IInv

(* Every variable has its type, and the counters of the loops of handle()   *)
(* stay within the batch and the array.                                     *)
THEOREM TypeCorrect == Spec => []TypeOK
<1>1. IInv => TypeOK
  <2> SUFFICES ASSUME IInv PROVE TypeOK
    OBVIOUS
  <2>1. PICK n \in Nat, m \in Nat : Answered(answer, m) /\ Performed(n)
    BY Progressed
  <2>2. performed \in [DOMAIN request -> Nat] /\ answer \in [DOMAIN request -> Response]
    BY <2>1 DEF Answered, Performed
  <2>3. pc = "respond" => DOMAIN results = 1 .. put /\ done \in 0 .. put
    BY DEF IInv, LoopInv
  <2>4. out.index \in Nat /\ out.flushed \in Nat
    BY DEF IInv, Buffer
  <2>5. QED BY <2>2, <2>3, <2>4 DEF IInv, TypeOK
<1>2. QED BY <1>1, Invariance, PTL

(* Each request is performed once, in order, and its own response is stored *)
(* in its own object, however the array is cut into calls and the responses *)
(* into flushes.                                                            *)
THEOREM InOrderAlways == Spec => []InOrder
<1>1. IInv => InOrder
  <2> SUFFICES ASSUME IInv, NEW j \in DOMAIN request
               PROVE  /\ performed[j] \in {0, 1}
                      /\ answer[j] # NoAnswer => answer[j].of = j /\ performed[j] = 1
                      /\ j > 1 => performed[j] <= performed[j - 1]
                      /\ (j > 1 /\ answer[j] # NoAnswer) => answer[j - 1] # NoAnswer
    BY DEF InOrder
  <2>1. PICK n \in Nat, m \in Nat : m <= n /\ Answered(answer, m) /\ Performed(n)
    BY Progressed
  <2>2. DOMAIN request = 1 .. Len(request) /\ Len(request) \in Nat
    BY ArrayTypes
  <2>3. /\ performed[j] = IF j <= n THEN 1 ELSE 0
        /\ IF j <= m THEN answer[j].of = j ELSE answer[j] = NoAnswer
    BY <2>1 DEF Answered, Performed
  <2>4. ASSUME j > 1
        PROVE  /\ performed[j - 1] = IF j - 1 <= n THEN 1 ELSE 0
               /\ j - 1 <= m => answer[j - 1].of = j - 1
    <3>1. j - 1 \in DOMAIN request
      BY <2>2, <2>4
    <3>2. QED BY <3>1, <2>1 DEF Answered, Performed
  <2>5. ASSUME j > 1, j - 1 <= m PROVE answer[j - 1] # NoAnswer
    BY <2>2, <2>4, <2>5 DEF NoAnswer
  <2>6. QED BY <2>1, <2>2, <2>3, <2>4, <2>5
<1>2. QED BY <1>1, Invariance, PTL

(* When handle() has returned, every object of the array has its response.  *)
THEOREM AllAnsweredAlways == Spec => []AllAnswered
<1>1. IInv => AllAnswered
  <2> SUFFICES ASSUME IInv, pc = "idle", NEW j \in DOMAIN request
               PROVE  answer[j].of = j
    BY DEF AllAnswered
  <2>1. j <= Len(request)
    BY ArrayTypes
  <2>2. QED BY <2>1 DEF IInv, Answered
<1>2. QED BY <1>1, Invariance, PTL

(* Neither side writes past the end of the buffer, and the responses that   *)
(* Java has yet to store are all in it.                                     *)
THEOREM InBufferAlways == Spec => []InBuffer
<1>1. IInv => InBuffer
  BY DEF IInv, LoopInv, Kept, InBuffer
<1>2. QED BY <1>1, Invariance, PTL
==============================================================================
