---------------------------- MODULE AtomicStore ----------------------------
(***************************************************************************)
(* What txramcloud.py promises: a store in which every operation of a      *)
(* client, a transaction over many keys included, takes effect in one      *)
(* step between its start and its end, or not at all.                      *)
(*                                                                         *)
(* There are no versions here.  A rule that demands the version a client   *)
(* knows demands that the key holds the data the client knows.             *)
(***************************************************************************)
EXTENDS Naturals, Sequences

CONSTANTS Client, Key, Value, NoData, Scripts, InitialData

VARIABLES
  kv,       \* the data under each key
  todo,     \* the operations each client has yet to end
  seen,     \* the data each client last learnt of each key
  answer    \* what the first operation of todo, a transaction that has
            \* taken effect, will tell its client: [Key -> Data], or <<>>

vars == <<kv, todo, seen, answer>>

Data == Value \cup {NoData}

Init ==
  /\ kv \in InitialData
  /\ todo \in [Client -> Scripts]
  /\ seen = [c \in Client |-> [k \in Key |-> NoData]]
  /\ answer = [c \in Client |-> <<>>]

Op(c) == Head(todo[c])

Holds(rule, now, last) ==
  CASE rule = "any" -> TRUE
    [] rule = "exist" -> now # NoData
    [] rule = "absent" -> now = NoData
    [] rule = "same" -> now # NoData /\ now = last
    [] rule = "notnewer" -> now = NoData \/ now = last

NewValue(c, k) ==
  LET op == Op(c).ops[k]
  IN  CASE op.kind = "noop" -> kv[k]
        [] op.kind = "write" -> op.f[seen[c][k]]
        [] op.kind = "delete" -> NoData

(* The operation takes effect on all of its keys at once.                   *)
Effect(c) ==
  /\ todo[c] # <<>> /\ answer[c] = <<>>
  /\ \A k \in DOMAIN Op(c).ops : Holds(Op(c).ops[k].rule, kv[k], seen[c][k])
  /\ kv' = [k \in Key |-> IF k \in DOMAIN Op(c).ops THEN NewValue(c, k) ELSE kv[k]]

(* What the client knows once it has the answer.                            *)
Told(c) ==
  [k \in Key |-> IF k \in DOMAIN Op(c).ops THEN NewValue(c, k) ELSE seen[c][k]]

(* A transaction answers some time after it took effect.                    *)
Commit(c) ==
  /\ Effect(c)
  /\ Op(c).type = "commit"
  /\ answer' = [answer EXCEPT ![c] = Told(c)]
  /\ UNCHANGED <<todo, seen>>

(* Any other operation answers with its effect.                             *)
Perform(c) ==
  /\ Effect(c)
  /\ Op(c).type # "commit"
  /\ todo' = [todo EXCEPT ![c] = Tail(@)]
  /\ seen' = [seen EXCEPT ![c] = Told(c)]
  /\ UNCHANGED answer

(* A read that finds nothing says so, whatever its rule demands.            *)
Miss(c) ==
  /\ todo[c] # <<>> /\ answer[c] = <<>>
  /\ Op(c).type = "read"
  /\ \A k \in DOMAIN Op(c).ops : kv[k] = NoData
  /\ todo' = [todo EXCEPT ![c] = Tail(@)]
  /\ seen' = [seen EXCEPT ![c] = Told(c)]
  /\ UNCHANGED <<kv, answer>>

(* The operation ends with an exception, whether or not it took effect.     *)
Fail(c) ==
  /\ todo[c] # <<>>
  /\ todo' = [todo EXCEPT ![c] = Tail(@)]
  /\ answer' = [answer EXCEPT ![c] = <<>>]
  /\ UNCHANGED <<kv, seen>>

(* A transaction that took effect returns.                                  *)
Return(c) ==
  /\ answer[c] # <<>>
  /\ todo' = [todo EXCEPT ![c] = Tail(@)]
  /\ seen' = [seen EXCEPT ![c] = answer[c]]
  /\ answer' = [answer EXCEPT ![c] = <<>>]
  /\ UNCHANGED kv

(* A client stops; its pending operation has taken effect or never will.    *)
Stop(c) ==
  /\ todo' = [todo EXCEPT ![c] = <<>>]
  /\ answer' = [answer EXCEPT ![c] = <<>>]
  /\ UNCHANGED <<kv, seen>>

Next ==
  \E c \in Client :
    Commit(c) \/ Perform(c) \/ Miss(c) \/ Fail(c) \/ Return(c) \/ Stop(c)

Spec == Init /\ [][Next]_vars
=============================================================================
