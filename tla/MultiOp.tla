------------------------------- MODULE MultiOp -------------------------------
(***************************************************************************)
(* The multi-operations of the Java bindings: MultiOpHandler.handle(), its *)
(* C++ half, and the byte buffer the two share.                            *)
(*                                                                         *)
(* Java writes as many requests into the buffer as the batch limit and the *)
(* buffer allow and calls C++, which has the server perform them and       *)
(* writes the responses over them.  When these do not fit, C++ calls back  *)
(* into Java (unloadBuffer) to store what is there, and starts over at the *)
(* beginning of the buffer.                                                *)
(*                                                                         *)
(* Requests and responses are what they take in the buffer, in bytes.      *)
(***************************************************************************)
EXTENDS Integers, Sequences

CONSTANTS
  Capacity,     \* bufferCapacity in Java, bufferSize in C++
  BatchLimit,   \* the batch limit of the handler
  Batches,      \* sequences of requests a caller may pass: [key, value] lengths
  Lengths,      \* lengths of the values the server may return
  MaxCalls      \* bound: calls of handle()

ASSUME LimitAssumption == BatchLimit \in Nat \ {0} /\ MaxCalls \in Nat
ASSUME BatchAssumption ==
  \A b \in Batches : b \in Seq([key : Nat, value : Nat]) /\ b # <<>>
(* Java writes the length of a key as a short, and C++ reads an unsigned    *)
(* one: a longer key, which no server takes, would be cut in the buffer and *)
(* what follows it taken for other requests.                                *)
ASSUME KeyLengthAssumption == \A b \in Batches : \A j \in DOMAIN b : b[j].key < 65536
(* The server's limit on objects is well below the buffer's size.           *)
ASSUME LengthAssumption ==
  Capacity \in Nat /\ Capacity >= 24 /\ \A n \in Lengths : n \in 0 .. Capacity - 24

VARIABLES
  pc,          \* "idle", or what goes on: "fill", "perform" or "respond"
  kind,        \* which of the three handlers runs
  request,     \* the array passed to handle()
  start, sent, \* the loop counters of handle()
  put,         \* its i: the requests in the buffer
  mark,        \* the position at which Java writes
  results,     \* what the server answered to the requests of this call
  done,        \* the i of the C++ loop
  out,         \* the buffer and the local state of the C++ loop
  performed,   \* how often the server performed each request
  answer,      \* what Java stored in each object of the array
  calls        \* calls of handle() so far

vars == <<pc, kind, request, start, sent, put, mark, results, done, out,
          performed, answer, calls>>

Kinds == {"read", "write", "remove"}
NoAnswer == [of |-> 0, ok |-> FALSE]
Garbage == [of |-> -1, ok |-> TRUE]

(* index: the first cell, where Java will store from.  items: the responses *)
(* from the third cell on.  flushed: lastFlush.                             *)
Fresh(first, flushed) ==
  [index |-> first, items |-> <<>>, mark |-> 8, flushed |-> flushed]

Init ==
  /\ pc = "idle" /\ kind \in Kinds /\ request = <<>>
  /\ start = 0 /\ sent = 0 /\ put = 0 /\ mark = 0
  /\ results = <<>> /\ done = 0 /\ out = Fresh(0, 0)
  /\ performed = <<>> /\ answer = <<>> /\ calls = 0

-----------------------------------------------------------------------------
(* Java: handle() and the writeRequest() of each handler.                   *)

RequestSize(r) ==
  CASE kind = "read"   -> 10 + r.key
    [] kind = "write"  -> 26 + r.key + r.value
    [] kind = "remove" -> 22 + r.key

Fits(pos, r) == pos + RequestSize(r) < Capacity

(* rewind(), the handle, the index of the first request and the number.     *)
NotRewound == IF mark = 0 THEN 16 ELSE mark
Rewound == 16

Length == IF Len(request) - start < BatchLimit THEN Len(request) - start ELSE BatchLimit

NextRequest == request[start + sent + put + 1]

(* There is a request left in the batch, and writeRequest() accepts it.     *)
CanWrite == put < Length - sent /\ Fits(mark, NextRequest)

Handle ==
  /\ pc = "idle" /\ calls < MaxCalls
  /\ kind' \in Kinds
  /\ request' \in Batches
  /\ performed' = [j \in DOMAIN request' |-> 0]
  /\ answer' = [j \in DOMAIN request' |-> NoAnswer]
  /\ pc' = "fill" /\ start' = 0 /\ sent' = 0 /\ put' = 0 /\ mark' = Rewound
  /\ calls' = calls + 1
  /\ UNCHANGED <<results, done, out>>

WriteRequest ==
  /\ pc = "fill" /\ CanWrite
  /\ put' = put + 1
  /\ mark' = mark + RequestSize(NextRequest)
  /\ UNCHANGED <<pc, kind, request, start, sent, results, done, out, performed,
                 answer, calls>>

CallCpp ==
  /\ pc = "fill" /\ ~CanWrite
  /\ pc' = "perform"
  /\ UNCHANGED <<kind, request, start, sent, put, mark, results, done, out,
                 performed, answer, calls>>

-----------------------------------------------------------------------------
(* C++: cppMultiRead, cppMultiWrite and cppMultiRemove.                     *)

(* The server performs what is in the buffer; some of it may fail.  Only    *)
(* values that are read have a length.                                      *)
Outcome == {[ok |-> FALSE, len |-> 0]} \cup
           [ok : {TRUE}, len : IF kind = "read" THEN Lengths ELSE {0}]

Perform ==
  LET first == start + sent
  IN  /\ pc = "perform"
      /\ \E o \in [1 .. put -> Outcome] :
           results' = [j \in 1 .. put |-> [of |-> first + j, ok |-> o[j].ok, len |-> o[j].len]]
      /\ performed' = [j \in DOMAIN request |->
                         performed[j] + IF j \in first + 1 .. first + put THEN 1 ELSE 0]
      /\ pc' = "respond" /\ done' = 0
      /\ out' = Fresh(first, 0)
      /\ UNCHANGED <<kind, request, start, sent, put, mark, answer, calls>>

(* unloadBuffer(): Java stores the first n responses of buffer o.  What was *)
(* not written completely is garbage.                                       *)
Stored(o, j) ==
  IF j > Len(o.items) \/ (o.items[j].ok /\ ~o.items[j].whole) THEN Garbage
  ELSE [of |-> o.items[j].of, ok |-> o.items[j].ok]

Unload(a, o, n) ==
  [j \in DOMAIN a |-> IF j \in o.index + 1 .. o.index + n THEN Stored(o, j - o.index)
                      ELSE a[j]]

(* The number of results flushBuffer() is told, at iteration i of the loop. *)
OneTooMany(o, i) == i - o.flushed + 1
Count(o, i) == i - o.flushed

(* The buffer after flushBuffer(), with the index of the result to come.    *)
KeepIndex(o, i) == Fresh(o.index, i)
Flushed(o, i) == Fresh(start + sent + i, i)

WriteStatus(o, r) ==
  [index |-> o.index, flushed |-> o.flushed, mark |-> o.mark + 4,
   items |-> Append(o.items, [of |-> r.of, ok |-> r.ok, whole |-> FALSE])]

(* What follows the status of a success.                                    *)
RestSize(r) == IF kind = "read" THEN 12 + r.len ELSE 8

WriteRest(o, r) ==
  [index |-> o.index, flushed |-> o.flushed, mark |-> o.mark + RestSize(r),
   items |-> [o.items EXCEPT ![Len(o.items)] = [of |-> r.of, ok |-> r.ok, whole |-> TRUE]]]

(* One iteration: the buffer is unloaded before the status, or after it,    *)
(* when what is to be written next does not fit.                            *)
LateFull(pos, n) == pos >= Capacity
Full(pos, n) == pos + n >= Capacity

WriteResponse ==
  LET r  == results[done + 1]
      early == Full(out.mark, 4)
      o1 == IF early THEN Flushed(out, done) ELSE out
      a1 == IF early THEN Unload(answer, out, Count(out, done)) ELSE answer
      o2 == WriteStatus(o1, r)
      late == r.ok /\ Full(o2.mark, RestSize(r))
      o3 == IF late THEN WriteStatus(Flushed(o2, done), r) ELSE o2
  IN  /\ pc = "respond" /\ done < put
      /\ answer' = IF late THEN Unload(a1, o2, Count(o2, done)) ELSE a1
      /\ out' = IF r.ok THEN WriteRest(o3, r) ELSE o3
      /\ done' = done + 1
      /\ UNCHANGED <<pc, kind, request, start, sent, put, mark, results, performed, calls>>

OneSkipped == start + BatchLimit + 1
NextStart == start + BatchLimit

(* The last flush, and back in handle(): the next call, the next batch or   *)
(* the end.                                                                 *)
Return ==
  LET batchDone == sent + put >= Length
      begin == IF batchDone THEN NextStart ELSE start
  IN  /\ pc = "respond" /\ done = put
      /\ answer' = Unload(answer, out, Count(out, put))
      /\ out' = Flushed(out, put)
      /\ start' = begin
      /\ sent' = IF batchDone THEN 0 ELSE sent + put
      /\ put' = 0 /\ mark' = Rewound
      /\ pc' = IF begin >= Len(request) THEN "idle" ELSE "fill"
      /\ UNCHANGED <<kind, request, results, done, performed, calls>>

Finished == pc = "idle" /\ calls = MaxCalls /\ UNCHANGED vars

Next == Handle \/ WriteRequest \/ CallCpp \/ Perform \/ WriteResponse \/ Return \/ Finished

Spec == Init /\ [][Next]_vars

(* One thread runs all of it, and does not stop inside handle().            *)
Working == WriteRequest \/ CallCpp \/ Perform \/ WriteResponse \/ Return

FairSpec == Spec /\ WF_vars(Working)

-----------------------------------------------------------------------------
(* Properties.                                                              *)

Response == [of : DOMAIN request \cup {0}, ok : BOOLEAN]

TypeOK ==
  /\ pc \in {"idle", "fill", "perform", "respond"} /\ kind \in Kinds
  /\ request \in Batches \cup {<<>>}
  /\ start \in Nat /\ mark \in Nat /\ calls \in Nat
  /\ pc # "idle" => start < Len(request) /\ sent \in 0 .. Length - 1 /\ put \in 0 .. Length - sent
  /\ pc = "respond" => DOMAIN results = 1 .. put /\ done \in 0 .. put
  /\ out.index \in Nat /\ out.flushed \in Nat
  /\ performed \in [DOMAIN request -> Nat]
  /\ answer \in [DOMAIN request -> Response]

(* The requests go to the server and the responses to the objects of the    *)
(* array in order, each request once and each response to its own object,   *)
(* however often the buffer fills up in either direction.                   *)
InOrder ==
  \A j \in DOMAIN request :
    /\ performed[j] \in {0, 1}
    /\ answer[j] # NoAnswer => answer[j].of = j /\ performed[j] = 1
    /\ j > 1 => performed[j] <= performed[j - 1]
    /\ (j > 1 /\ answer[j] # NoAnswer) => answer[j - 1] # NoAnswer

(* When handle() has returned every object has its response: one without    *)
(* would look like a success, with the STATUS_OK it was constructed with.   *)
AllAnswered == pc = "idle" => \A j \in DOMAIN request : answer[j].of = j

(* "so that C++ can resume filling the buffer from the beginning without    *)
(* fear of overwriting data that has not yet been stored in Java"           *)
(* (edu_stanford_ramcloud_multiop_MultiOpHandler.cc:39): neither side       *)
(* writes past the end of the buffer, and the responses that Java has yet   *)
(* to store are all in it.                                                  *)
InBuffer ==
  /\ mark <= Capacity /\ out.mark <= Capacity
  /\ pc = "respond" => Len(out.items) = done - out.flushed

(* handle() returns if each request fits into the buffer on its own.        *)
HandleReturns ==
  (pc # "idle" /\ \A j \in DOMAIN request : Fits(16, request[j])) ~> pc = "idle"

=============================================================================
