----------------------------- MODULE TxRAMCloud -----------------------------
(***************************************************************************)
(* txramcloud.py: transactions over several RAMCloud objects, run by the   *)
(* clients alone.                                                          *)
(*                                                                         *)
(* A coordinator masks the objects of its transaction one by one, writes   *)
(* the transaction object T (the commit point), applies the new values,    *)
(* which also removes the masks, and deletes T.  A client that meets a     *)
(* mask looks at T: it finishes a committed transaction itself, and        *)
(* removes the mask of an aborted one; if there is no T for too long it    *)
(* writes a tombstone in its place, which aborts the transaction.          *)
(*                                                                         *)
(* Every client runs a script of user operations.  A step of a client is   *)
(* one call to the server with the local computation that follows it, so   *)
(* the steps of different clients interleave between any two calls.        *)
(***************************************************************************)
EXTENDS RAMCloud, Sequences, FiniteSets

CONSTANTS
  Client,        \* client processes
  Key,           \* (table, oid) pairs, as numbers: mt_commit sorts them
  TxId,          \* the ids OIDRes hands out, each once (see OIDRes)
  Value,         \* user data
  NoTx,          \* the txid 0 of an object that is not masked
  NoData,        \* the data None of a seed, and of what is not there
  Scripts,       \* the sequences of user operations a client may run
  InitialData,   \* the contents a store may start with
  MayExpire,     \* FALSE: no client ever waits past a mask's timeout
  MaxCrash,      \* bound: clients that stop for ever
  MaxInterrupt   \* bound: asynchronous exceptions in clients

ASSUME KeyAssumption == Key \subseteq Nat \ {0}
ASSUME NullAssumption == NoTx \notin TxId /\ NoData \notin Value
ASSUME BodyAssumption ==
  /\ NoBody \notin {"MiniTransaction", "Tombstone"}
  /\ NoBody \notin [tx : TxId \cup {NoTx}, data : Value \cup {NoData}]
ASSUME BoundAssumption ==
  MayExpire \in BOOLEAN /\ MaxCrash \in Nat /\ MaxInterrupt \in Nat

Data == Value \cup {NoData}

(* A user operation: what it does to each of its keys.  A write of f stores *)
(* f[d], where d is the data the client last saw under the key.  rule says  *)
(* which reject rules go with it; the user's version_eq_given, which only   *)
(* restricts what a read accepts, is left out: it takes no part in what the *)
(* methods here send themselves, and no stress test sets it.                *)
KeyOp == [kind : {"noop", "write", "delete"},
          f    : [Data -> Value],
          rule : {"any", "exist", "absent", "same", "notnewer"}]

UserOp == UNION {{s[i] : i \in DOMAIN s} : s \in Scripts}

ASSUME ScriptAssumption ==
  /\ \A s \in Scripts : s \in Seq(UserOp)
  /\ \A op \in UserOp :
       /\ op.type \in {"read", "write", "delete", "commit"}
       /\ DOMAIN op.ops # {} /\ DOMAIN op.ops \subseteq Key
       /\ \A k \in DOMAIN op.ops : op.ops[k] \in KeyOp
(* read_rr(), write_rr() and delete_rr() are about one object.              *)
ASSUME SingleAssumption ==
  \A op \in UserOp : op.type # "commit" =>
    /\ \E k \in Key : DOMAIN op.ops = {k}
    /\ \A k \in DOMAIN op.ops :
         op.ops[k].kind = IF op.type = "read" THEN "noop" ELSE op.type
ASSUME DataAssumption == InitialData \subseteq [Key -> Data]

(* A transaction that only includes an object, without an operation, wants  *)
(* the object to exist. Not all scripts do: without it the version that     *)
(* mt_commit returns may be that of nothing (tx_noop_version).              *)
NoopsNeedObjects ==
  \A op \in UserOp : op.type = "commit" =>
    \A k \in DOMAIN op.ops :
      op.ops[k].kind = "noop" => op.ops[k].rule \in {"exist", "same"}

VARIABLES
  obj,      \* the user objects: body is NoBody or a packed object
  tobj,     \* the object at each txid: NoBody, a MiniTransaction, a Tombstone
  intent,   \* what the MiniTransaction of each txid says
  used,     \* the txids handed out so far
  todo,     \* the operations left of each client's script
  known,    \* the version each client last got for each key, and the data
            \* that it stands for
  cl,       \* where each client is within its current operation
  fate,     \* how the mt_commit of each txid ended
  faults    \* crashes and interrupts so far

vars == <<obj, tobj, intent, used, todo, known, cl, fate, faults>>

(* pack(): the header with the mask, and the data.                          *)
Packed(t, d) == [tx |-> t, data |-> d]

(* Does the header say that the object is masked?                           *)
NeverMasked(b) == FALSE
IsMasked(b) == b.tx # NoTx

MaskedBy(k, t) == Exists(obj[k]) /\ obj[k].body.tx = t

(* What an object without its mask is: a seed goes away.                    *)
Plain(d) == IF d = NoData THEN NoBody ELSE Packed(NoTx, d)

NoCall == [key |-> 0, rr |-> Unconditional, body |-> NoBody]
NoJob  == [tx |-> NoTx, keys |-> {}, ver |-> 0, then |-> "retry"]
NoVersion == [ver |-> 0, data |-> NoData]

(* left: keys the operation has yet to deal with.  mver: masked_versions,   *)
(* with the data that was masked, which mt_commit does not keep.            *)
(* call: a conditional write or delete about to be sent.  job: the          *)
(* transaction being finished or unmasked, the keys that remain, the        *)
(* version of T, and what comes after: going on with read_rr ("retry"), or  *)
(* the end of the operation.                                                *)
Idle == [pc |-> "idle", tx |-> NoTx, left |-> {}, mver |-> [k \in Key |-> NoVersion],
         call |-> NoCall, job |-> NoJob]

Init ==
  /\ \E data \in InitialData :
       obj = [k \in Key |-> IF data[k] = NoData
                              THEN [ver |-> 0, body |-> NoBody]
                              ELSE [ver |-> 1, body |-> Packed(NoTx, data[k])]]
  /\ tobj = [t \in TxId |-> [ver |-> 0, body |-> NoBody]]
  /\ intent = [t \in TxId |-> <<>>]
  /\ used = {}
  /\ todo \in [Client -> Scripts]
  /\ known = [c \in Client |-> [k \in Key |-> [ver |-> 0, data |-> NoData]]]
  /\ cl = [c \in Client |-> Idle]
  /\ fate = [t \in TxId |-> "none"]
  /\ faults = [crash |-> 0, interrupt |-> 0]

-----------------------------------------------------------------------------
(* Helpers.                                                                 *)

At(c, l)     == cl[c].pc = l
Become(c, s) == cl' = [cl EXCEPT ![c] = s]

Op(c)      == Head(todo[c])
KeysOf(c)  == DOMAIN Op(c).ops
KOp(c, k)  == Op(c).ops[k]
Masked(c)  == KeysOf(c) \ cl[c].left
IsCommit(c) == Op(c).type = "commit"

Least(S) == CHOOSE k \in S : \A j \in S : k <= j

(* The key an operation works on: mt_commit masks in sorted order.          *)
CurUnsorted(c) ==
  IF cl[c].tx = CHOOSE t \in TxId : TRUE
    THEN CHOOSE k \in cl[c].left : \A j \in cl[c].left : j <= k
    ELSE Least(cl[c].left)
Cur(c) == Least(cl[c].left)

UserRules(c, k) ==
  LET r == KOp(c, k).rule
  IN  RejectRules(r \in {"exist", "same"}, r = "absent",
                  r \in {"same", "notnewer"}, known[c][k].ver)

NewData(c, k) == KOp(c, k).f[known[c][k].data]

RejectErrors == {"NoObjectError", "ObjectExistsError", "VersionError"}

(* The operation ends, with a result or an exception.                       *)
End(c, r) ==
  /\ todo' = [todo EXCEPT ![c] = Tail(@)]
  /\ fate' = [t \in TxId |-> IF t = cl[c].tx THEN r ELSE fate[t]]
  /\ Become(c, Idle)

Learn(c, k, v, d) == known' = [known EXCEPT ![c][k] = [ver |-> v, data |-> d]]

(* The operation goes on with local state s.                                *)
GoOn(c, s) == Become(c, s) /\ UNCHANGED <<todo, fate, known>>

(* An exception e leaves the operation, unless it is raised while           *)
(* _mask_objects runs: then the objects masked so far are unmasked first.   *)
(* mt_commit turns the exceptions of reject rules into                      *)
(* TransactionRejected.                                                     *)
Raise(c, e) ==
  LET masking == IsCommit(c) /\ cl[c].job.then = "retry"
      out == IF masking /\ e \in RejectErrors THEN "TransactionRejected" ELSE e
  IN  IF masking /\ Masked(c) # {}
        THEN GoOn(c, [cl[c] EXCEPT !.pc = "unmaskRead", !.call = NoCall,
                        !.job = [NoJob EXCEPT !.tx = cl[c].tx,
                                   !.keys = Masked(c), !.then = out]])
        ELSE End(c, out) /\ UNCHANGED known

(* read_rr is called (again).                                               *)
Reread(c, s) == GoOn(c, [s EXCEPT !.pc = "read", !.call = NoCall, !.job = NoJob])

(* The conditional write or delete of key k that is to be sent next.        *)
Prepare(c, l, k, rr, body) ==
  GoOn(c, [cl[c] EXCEPT !.pc = l, !.call = [key |-> k, rr |-> rr, body |-> body]])

CallStatus(c) == Status(cl[c].call.rr, obj[cl[c].call.key])

(* The server takes the call of client c.                                   *)
SendCall(c) ==
  LET k == cl[c].call.key
  IN  IF CallStatus(c) = "ok"
        THEN obj' = [obj EXCEPT ![k] = Changed(@, cl[c].call.body)]
        ELSE UNCHANGED obj

-----------------------------------------------------------------------------
(* Starting an operation.                                                   *)

(* What the MiniTransaction of client c says.                               *)
Intent(c) == [k \in KeysOf(c) |-> [kind |-> KOp(c, k).kind, data |-> NewData(c, k)]]

(* mt_commit(): a txid that was never handed out before and is not 0, then  *)
(* the masks.                                                               *)
NewTxIdOrZero == (TxId \cup {NoTx}) \ used
NewTxId == TxId \ used

BeginCommit(c) ==
  /\ IsCommit(c)
  /\ \E t \in NewTxId :
       /\ used' = used \cup {t}
       /\ intent' = [intent EXCEPT ![t] = Intent(c)]
       /\ GoOn(c, [Idle EXCEPT !.pc = "read", !.tx = t, !.left = KeysOf(c)])

(* read_rr(), write_rr(), delete_rr(): the last two send the user's rules   *)
(* as they are when these exclude masked objects, and read first otherwise. *)
BeginSingle(c) ==
  /\ ~IsCommit(c)
  /\ LET k == Least(KeysOf(c))
         rr == UserRules(c, k)
         s == [Idle EXCEPT !.left = {k}]
     IN  IF Op(c).type # "read" /\ (rr.exists \/ rr.gtGiven)
           THEN GoOn(c, [s EXCEPT !.pc = "direct",
                           !.call = [key |-> k, rr |-> rr,
                                     body |-> IF Op(c).type = "delete" THEN NoBody
                                              ELSE Packed(NoTx, NewData(c, k))]])
           ELSE GoOn(c, [s EXCEPT !.pc = "read"])
  /\ UNCHANGED <<used, intent>>

(* mt_commit() gets no txid: the client loses the race for the next batch   *)
(* of ids, and the NameError of that leaves txid_res.next() (see OIDRes).   *)
BeginFails(c) ==
  /\ IsCommit(c)
  /\ End(c, "NameError")
  /\ UNCHANGED <<used, intent, known>>

Begin(c) ==
  /\ At(c, "idle") /\ todo[c] # <<>>
  /\ BeginCommit(c) \/ BeginSingle(c) \/ BeginFails(c)
  /\ UNCHANGED <<obj, tobj, faults>>

-----------------------------------------------------------------------------
(* The read loop of _read_rr, and what its callers do with the outcome.     *)

(* An unmasked object was read.                                             *)
Got(c, k, o) ==
  LET rr == UserRules(c, k)
  IN  CASE Op(c).type = "read" -> Learn(c, k, o.ver, o.body.data) /\ End(c, "ok")
        [] IsCommit(c) ->
             Prepare(c, "mask", k, Exactly(o.ver), Packed(cl[c].tx, o.body.data))
        [] Op(c).type = "write" ->
             Prepare(c, "user", k,
                     IF rr.doesntExist THEN Exactly(o.ver) ELSE NotNewerThan(o.ver),
                     Packed(NoTx, NewData(c, k)))
        [] Op(c).type = "delete" ->
             Prepare(c, "user", k, RejectRules(rr.doesntExist, FALSE, TRUE, o.ver), NoBody)

(* There was no object: a commit plants a seed, a write creates.            *)
Missing(c, k) ==
  CASE Op(c).type = "read" ->
         Learn(c, k, 0, NoData) /\ End(c, "NoObjectError")
    [] Op(c).type # "read" /\ UserRules(c, k).doesntExist -> Raise(c, "NoObjectError")
    [] IsCommit(c) /\ ~UserRules(c, k).doesntExist ->
         Prepare(c, "mask", k, MustNotExist, Packed(cl[c].tx, NoData))
    [] Op(c).type = "write" /\ ~UserRules(c, k).doesntExist ->
         Prepare(c, "user", k, MustNotExist, Packed(NoTx, NewData(c, k)))
    [] Op(c).type = "delete" /\ ~UserRules(c, k).doesntExist ->
         Learn(c, k, 0, NoData) /\ End(c, "ok")

ReadObject(c) ==
  LET k == Cur(c)
      o == obj[k]
      rr == UserRules(c, k)
      st == Err(Status([rr EXCEPT !.doesntExist = TRUE, !.exists = FALSE], o))
  IN  /\ At(c, "read")
      /\ CASE st = "ok" /\ IsMasked(o.body) ->
                GoOn(c, [cl[c] EXCEPT !.pc = "readT",
                           !.job = [NoJob EXCEPT !.tx = o.body.tx, !.keys = {k}]])
           [] st = "ok" /\ ~IsMasked(o.body) ->
                IF rr.exists THEN Raise(c, "ObjectExistsError") ELSE Got(c, k, o)
           [] st = "NoObjectError" -> Missing(c, k)
           [] st \notin {"ok", "NoObjectError"} -> Raise(c, st)
      /\ UNCHANGED <<obj, tobj, intent, used, faults>>

(* _mask_object(): the object is overwritten with its mask; a client that   *)
(* lost a race reads again.                                                 *)
Mask(c) ==
  LET k == cl[c].call.key
      st == Err(CallStatus(c))
      left == cl[c].left \ {k}
      s == [cl[c] EXCEPT !.left = left, !.mver[k] = [ver |-> obj'[k].ver, data |-> cl[c].call.body.data]]
  IN  /\ At(c, "mask")
      /\ SendCall(c)
      /\ CASE st = "ok" /\ left # {} -> Reread(c, s)
           [] st = "ok" /\ left = {} -> GoOn(c, [s EXCEPT !.pc = "writeT", !.call = NoCall])
           [] st \in RejectErrors -> Reread(c, cl[c])
           [] st \notin RejectErrors \cup {"ok"} -> Raise(c, st)
      /\ UNCHANGED <<tobj, intent, used, faults>>

(* The conditional call at the end of _delete_unsafe, _update_unsafe and    *)
(* _write_unsafe.                                                           *)
Caught(c) ==
  IF Op(c).type = "write" /\ KOp(c, Cur(c)).rule = "any"
    THEN {"ObjectExistsError", "VersionError"} ELSE {"VersionError"}

EndCall(c) ==
  LET k == cl[c].call.key
  IN  /\ IF cl[c].call.body = NoBody THEN Learn(c, k, 0, NoData)
         ELSE Learn(c, k, obj'[k].ver, cl[c].call.body.data)
      /\ End(c, "ok")

UserCall(c) ==
  LET st == Err(CallStatus(c))
  IN  /\ At(c, "user")
      /\ SendCall(c)
      /\ CASE st = "ok" -> EndCall(c)
           [] st \in Caught(c) -> Reread(c, cl[c])
           [] st \notin Caught(c) \cup {"ok"} -> Raise(c, st)
      /\ UNCHANGED <<tobj, intent, used, faults>>

(* write_rr() and delete_rr() with rules that are safe as they are.         *)
DirectCall(c) ==
  LET st == Err(CallStatus(c))
  IN  /\ At(c, "direct")
      /\ SendCall(c)
      /\ IF st = "ok" THEN EndCall(c) ELSE Raise(c, st)
      /\ UNCHANGED <<tobj, intent, used, faults>>

-----------------------------------------------------------------------------
(* _clean(): what to do about the mask of another transaction.              *)

Verdicts(tombstone, missing) ==
  [b \in {NoBody, "MiniTransaction", "Tombstone"} |->
     CASE b = "Tombstone" -> tombstone
       [] b = "MiniTransaction" -> "finish"
       [] b = NoBody -> missing]

HastyVerdict(b)    == Verdicts("unmask", "unmask")[b]
HesitantVerdict(b) == Verdicts("wait", "wait")[b]
Verdict(b)         == Verdicts("unmask", "wait")[b]

ReadT(c) ==
  LET t == cl[c].job.tx
      verdict == Verdict(tobj[t].body)
  IN  /\ At(c, "readT")
      /\ \/ /\ verdict = "unmask"
            /\ GoOn(c, [cl[c] EXCEPT !.pc = "unmaskRead"])
         \/ /\ verdict = "finish"
            /\ GoOn(c, [cl[c] EXCEPT !.pc = "applyRead",
                          !.job.keys = DOMAIN intent[t], !.job.ver = tobj[t].ver])
         \/ verdict = "wait" /\ Reread(c, cl[c])
      /\ UNCHANGED <<obj, tobj, intent, used, faults>>

(* No T is there, and the clock has passed the time-out: give it up.        *)
Expire(c) ==
  /\ MayExpire
  /\ At(c, "readT") /\ ~Exists(tobj[cl[c].job.tx])
  /\ GoOn(c, [cl[c] EXCEPT !.pc = "writeTombstone"])
  /\ UNCHANGED <<obj, tobj, intent, used, faults>>

OverwriteRules == Unconditional
TombstoneRules == MustNotExist

WriteTombstone(c) ==
  LET t == cl[c].job.tx
  IN  /\ At(c, "writeTombstone")
      /\ IF Accepts(TombstoneRules, tobj[t])
           THEN /\ tobj' = [tobj EXCEPT ![t] = Written(@, "Tombstone")]
                /\ GoOn(c, [cl[c] EXCEPT !.pc = "unmaskRead"])
           ELSE Reread(c, cl[c]) /\ UNCHANGED tobj
      /\ UNCHANGED <<obj, intent, used, faults>>

-----------------------------------------------------------------------------
(* _unmask_objects(), one key after the other.                              *)

(* The keys left after k.                                                   *)
NoRest(c, k) == {}
Rest(c, k) == cl[c].job.keys \ {k}

(* The keys the loop may turn to: the one it is retrying, or any. After a   *)
(* failed _write_mt the keys come in sorted order.                          *)
Candidates(c) ==
  LET ks == cl[c].job.keys
  IN  IF cl[c].call.key \in ks THEN {cl[c].call.key}
      ELSE IF cl[c].job.then # "retry" /\ cl[c].left = {} THEN {Least(ks)}
      ELSE ks

(* Key k is not masked any more. After the last one the read loop goes on,  *)
(* or the exception that was being handled leaves the operation; the        *)
(* handler around _write_mt deletes the tombstone before that.              *)
Unmasked(c, k) ==
  LET ks == Rest(c, k)
      s == [cl[c] EXCEPT !.job.keys = ks, !.call = NoCall]
  IN  CASE ks # {} -> GoOn(c, [s EXCEPT !.pc = "unmaskRead"])
        [] ks = {} /\ cl[c].job.then = "retry" -> Reread(c, cl[c])
        [] ks = {} /\ cl[c].job.then # "retry" /\ cl[c].left = {} ->
             GoOn(c, [s EXCEPT !.pc = "deleteTombstone"])
        [] ks = {} /\ cl[c].job.then # "retry" /\ cl[c].left # {} ->
             End(c, cl[c].job.then) /\ UNCHANGED known

UnmaskRead(c) ==
  /\ At(c, "unmaskRead")
  /\ \E k \in Candidates(c) :
       LET o == obj[k]
       IN  IF MaskedBy(k, cl[c].job.tx)
             THEN Prepare(c, "unmask", k, NotNewerThan(o.ver), Plain(o.body.data))
             ELSE Unmasked(c, k)
  /\ UNCHANGED <<obj, tobj, intent, used, faults>>

Unmask(c) ==
  LET st == Err(CallStatus(c))
  IN  /\ At(c, "unmask")
      /\ SendCall(c)
      /\ CASE st = "ok" -> Unmasked(c, cl[c].call.key)
           [] st = "VersionError" -> GoOn(c, [cl[c] EXCEPT !.pc = "unmaskRead"])
           [] st \notin {"ok", "VersionError"} -> Raise(c, st)
      /\ UNCHANGED <<tobj, intent, used, faults>>

DeleteTombstone(c) ==
  /\ At(c, "deleteTombstone")
  /\ tobj' = [tobj EXCEPT ![cl[c].tx] = Deleted(@)]
  /\ End(c, cl[c].job.then)
  /\ UNCHANGED <<obj, intent, used, known, faults>>

-----------------------------------------------------------------------------
(* The commit point, and _finish_mt().                                      *)

StartUnmasking(c, e) ==
  GoOn(c, [cl[c] EXCEPT !.pc = "unmaskRead", !.call = NoCall,
             !.job = [NoJob EXCEPT !.tx = cl[c].tx, !.keys = KeysOf(c), !.then = e]])

CarelessRules == Unconditional
IntentRules == MustNotExist

WriteT(c) ==
  LET t == cl[c].tx
  IN  /\ At(c, "writeT")
      /\ IF Accepts(IntentRules, tobj[t])
           THEN /\ tobj' = [tobj EXCEPT ![t] = Written(@, "MiniTransaction")]
                /\ GoOn(c, [cl[c] EXCEPT !.pc = "applyRead",
                              !.job = [tx |-> t, keys |-> KeysOf(c),
                                       ver |-> tobj'[t].ver, then |-> "ok"]])
           ELSE StartUnmasking(c, "TransactionExpired") /\ UNCHANGED tobj
      /\ UNCHANGED <<obj, intent, used, faults>>

(* The data a transaction leaves under a key, NoData to delete.             *)
Result(op, data) ==
  CASE op.kind = "noop" -> data
    [] op.kind = "write" -> op.data
    [] op.kind = "delete" -> NoData

Applied(c, k) ==
  LET ks == Rest(c, k)
  IN  GoOn(c, [cl[c] EXCEPT !.pc = IF ks = {} THEN "deleteT" ELSE "applyRead",
                 !.job.keys = ks, !.call = NoCall])

(* An applied object may be deleted meanwhile: its version must still be    *)
(* there.                                                                   *)
LooseRules(v) == NotNewerThan(v)
ApplyRules(v) == Exactly(v)

ApplyRead(c) ==
  LET t == cl[c].job.tx
  IN  /\ At(c, "applyRead")
      /\ \E k \in cl[c].job.keys :
           LET o == obj[k]
           IN  IF MaskedBy(k, t)
                 THEN Prepare(c, "apply", k, ApplyRules(o.ver),
                              Plain(Result(intent[t][k], o.body.data)))
                 ELSE Applied(c, k)
      /\ UNCHANGED <<obj, tobj, intent, used, faults>>

Apply(c) ==
  LET st == Err(CallStatus(c))
      caught == {"ok", "NoObjectError", "VersionError"}
  IN  /\ At(c, "apply")
      /\ SendCall(c)
      /\ IF st \in caught THEN Applied(c, cl[c].call.key) ELSE Raise(c, st)
      /\ UNCHANGED <<tobj, intent, used, faults>>

(* What mt_commit returns: one more than the version of each mask, except   *)
(* for the objects that were deleted. It does not return data: that of an   *)
(* object without an operation is what the version stands for.              *)
Returned(c) ==
  [k \in Key |->
     IF k \notin KeysOf(c) THEN known[c][k]
     ELSE CASE KOp(c, k).kind = "delete" -> [ver |-> 0, data |-> NoData]
            [] KOp(c, k).kind = "write" ->
                 [ver |-> cl[c].mver[k].ver + 1, data |-> NewData(c, k)]
            [] KOp(c, k).kind = "noop" ->
                 [ver |-> cl[c].mver[k].ver + 1, data |-> cl[c].mver[k].data]]

(* _delete_mt(), at the end of the coordinator's or a cleaner's _finish_mt. *)
DeleteT(c) ==
  LET t == cl[c].job.tx
      st == Err(Status(NotNewerThan(cl[c].job.ver), tobj[t]))
  IN  /\ At(c, "deleteT")
      /\ IF st = "ok" THEN tobj' = [tobj EXCEPT ![t] = Deleted(@)]
                      ELSE UNCHANGED tobj
      /\ CASE st = "ok" /\ cl[c].job.then = "retry" -> Reread(c, cl[c])
           [] st = "ok" /\ cl[c].job.then = "ok" ->
                known' = [known EXCEPT ![c] = Returned(c)] /\ End(c, "ok")
           [] st = "VersionError" -> Raise(c, "InconsistencyError")
           [] st \notin {"ok", "VersionError"} -> Raise(c, st)
      /\ UNCHANGED <<obj, intent, used, faults>>

-----------------------------------------------------------------------------
(* Faults.                                                                  *)

(* A client stops for ever, anywhere in an operation.                       *)
Crash(c) ==
  /\ faults.crash < MaxCrash /\ ~At(c, "idle") /\ ~At(c, "crashed")
  /\ faults' = [faults EXCEPT !.crash = @ + 1]
  /\ cl' = [cl EXCEPT ![c] = [Idle EXCEPT !.pc = "crashed"]]
  /\ todo' = [todo EXCEPT ![c] = <<>>]
  /\ UNCHANGED <<obj, tobj, intent, used, known, fate>>

(* An exception other than those of handle_error (KeyboardInterrupt) is     *)
(* raised in _write_mt when the server has already written T: the handler   *)
(* around it catches everything.                                            *)
InterruptWriteT(c) ==
  LET t == cl[c].tx
  IN  /\ faults.interrupt < MaxInterrupt
      /\ At(c, "writeT") /\ Accepts(IntentRules, tobj[t])
      /\ faults' = [faults EXCEPT !.interrupt = @ + 1]
      /\ tobj' = [tobj EXCEPT ![t] = Written(@, "MiniTransaction")]
      /\ StartUnmasking(c, "KeyboardInterrupt")
      /\ UNCHANGED <<obj, intent, used>>

-----------------------------------------------------------------------------
Step(c) ==
  \/ Begin(c) \/ ReadObject(c) \/ Mask(c) \/ UserCall(c) \/ DirectCall(c)
  \/ ReadT(c) \/ Expire(c) \/ WriteTombstone(c)
  \/ UnmaskRead(c) \/ Unmask(c) \/ DeleteTombstone(c)
  \/ WriteT(c) \/ ApplyRead(c) \/ Apply(c) \/ DeleteT(c)

AllDone == \A c \in Client : At(c, "crashed") \/ (At(c, "idle") /\ todo[c] = <<>>)

Finished == AllDone /\ UNCHANGED vars

Next ==
  \/ \E c \in Client : Step(c) \/ Crash(c) \/ InterruptWriteT(c)
  \/ Finished

Spec == Init /\ [][Next]_vars

(* Clients that have not crashed keep running, and the clock moves on: a    *)
(* client that finds no T again and again gives it up at some point.        *)
FairSpec ==
  /\ Spec
  /\ \A c \in Client : WF_vars(Step(c)) /\ SF_vars(Expire(c))

-----------------------------------------------------------------------------
(* Properties.                                                              *)

Labels == {"idle", "crashed", "read", "mask", "user", "direct", "readT",
           "writeTombstone", "unmaskRead", "unmask", "deleteTombstone",
           "writeT", "applyRead", "apply", "deleteT"}

JobLabels == {"readT", "writeTombstone", "unmaskRead", "unmask", "applyRead",
              "apply", "deleteT"}
CallLabels == {"mask", "user", "direct", "unmask", "apply"}

Documented == {"TransactionRejected", "TransactionExpired", "NoObjectError",
               "ObjectExistsError", "VersionError"}
Endings == Documented \cup {"ok", "NameError", "InconsistencyError", "KeyboardInterrupt"}

(* Only ids that were handed out appear in headers.                         *)
Object == [tx : used \cup {NoTx}, data : Data]

Call == [key : Key \cup {0}, rr : RulesType, body : {NoBody} \cup Object]
Job  == [tx : used \cup {NoTx}, keys : SUBSET Key, ver : Nat,
         then : Endings \cup {"retry"}]
Local == [pc : Labels, tx : used \cup {NoTx}, left : SUBSET Key,
          mver : [Key -> [ver : Nat, data : Data]], call : Call, job : Job]

StoreOK ==
  /\ used \subseteq TxId
  /\ obj \in [Key -> [ver : Nat, body : {NoBody} \cup Object]]
  /\ tobj \in [TxId -> [ver : Nat, body : {NoBody, "MiniTransaction", "Tombstone"}]]
  /\ intent \in [TxId -> UNION {[S -> [kind : {"noop", "write", "delete"}, data : Data]] :
                                  S \in SUBSET Key}]

(* Local state s of client c in the middle of an operation has what the     *)
(* next step needs.                                                         *)
Fit(c, s) ==
  /\ s.pc \notin {"idle", "crashed"}
  /\ todo[c] # <<>>
  /\ s.left \subseteq KeysOf(c)
  /\ IF IsCommit(c) THEN s.tx \in used /\ DOMAIN intent[s.tx] = KeysOf(c)
                    ELSE s.tx = NoTx
  /\ s.pc \in {"mask", "writeT", "deleteTombstone"} \/ s.job.then # "retry" => IsCommit(c)
  /\ s.pc \in {"read", "mask", "user", "direct"} => s.left # {}
  /\ s.pc \in CallLabels => s.call.key \in Key
  /\ s.pc = "mask" => s.call.body # NoBody
  /\ s.pc \in {"user", "direct"} => ~IsCommit(c)
  /\ s.pc \in JobLabels => s.job.tx \in used /\ (s.job.then = "retry" => s.left # {})
  /\ s.pc \in {"readT", "writeTombstone", "unmaskRead", "unmask"} => s.job.keys # {}
  /\ s.pc \in {"readT", "writeTombstone"} => s.job.then = "retry"
  /\ s.pc \in {"applyRead", "apply", "deleteT"} => s.job.then \in {"retry", "ok"}
  /\ s.pc = "deleteTombstone" => s.job.then # "retry"
  /\ s.pc \in {"applyRead", "apply"} => s.job.keys \subseteq DOMAIN intent[s.job.tx]

TypeOK ==
  /\ StoreOK
  /\ cl \in [Client -> Local]
  /\ todo \in [Client -> Seq(UserOp)]
  /\ known \in [Client -> [Key -> [ver : Nat, data : Data]]]
  /\ fate \in [TxId -> Endings \cup {"none"}]
  /\ faults \in [crash : Nat, interrupt : Nat]
  /\ \A c \in Client : At(c, "idle") \/ At(c, "crashed") \/ Fit(c, cl[c])

(* The data under a key as a user sees it: that of the transaction which    *)
(* masks the object, once that transaction is committed.                    *)
Logical(k) ==
  IF ~Exists(obj[k]) THEN NoData
  ELSE LET b == obj[k].body
       IN  IF b.tx # NoTx /\ tobj[b.tx].body = "MiniTransaction"
             THEN Result(intent[b.tx][k], b.data)
             ELSE b.data

Store == INSTANCE AtomicStore WITH
  kv     <- [k \in Key |-> Logical(k)],
  seen   <- [c \in Client |-> [k \in Key |-> known[c][k].data]],
  answer <- [c \in Client |-> IF cl[c].job.then = "ok"
                                THEN [k \in Key |-> Returned(c)[k].data] ELSE <<>>]

(* Operations are atomic and isolated ("fully ACID", txramcloud.py:17):     *)
(* whatever clients do between any two calls to the server, and wherever    *)
(* they stop, what users see is what one-step operations would give.        *)
Atomic == Store!Spec

(* The same up to the first interrupt, of which the code makes half a       *)
(* transaction (CommitIsFinal).                                             *)
AtomicUntilInterrupted ==
  Store!Init /\ [][faults'.interrupt > 0 \/ Store!Next]_(Store!vars)

(* "all version numbers returned from read_rr are safe" (txramcloud.py:     *)
(* 184): as long as an object has the version a client knows, it is not     *)
(* masked and holds the data the client knows.                              *)
VersionsAreSafe ==
  \A c \in Client, k \in Key :
    (known[c][k].ver > 0 /\ Exists(obj[k]) /\ obj[k].ver = known[c][k].ver) =>
      obj[k].body = Packed(NoTx, known[c][k].data)

(* A coordinator that is about to commit, and is not blocked by a           *)
(* tombstone, still has its mask on all of its objects, unchanged since it  *)
(* put them there.                                                          *)
MasksHeld ==
  \A c \in Client :
    (At(c, "writeT") /\ ~Exists(tobj[cl[c].tx])) =>
      \A k \in KeysOf(c) : MaskedBy(k, cl[c].tx) /\ obj[k].ver = cl[c].mver[k].ver

(* A mask only goes when the fate of its transaction is sealed: T is there, *)
(* or a tombstone is, or its own coordinator gave the transaction up.       *)
MasksAreKept ==
  [][\A k \in Key, t \in TxId :
       (MaskedBy(k, t) /\ ~MaskedBy(k, t)') =>
         \/ Exists(tobj[t])
         \/ \E c \in Client : cl[c].tx = t /\ cl[c].job.then \notin {"retry", "ok"}]_vars

(* "The transaction is no longer abortable" (line 67): once T is written, a *)
(* mask gives way only to what T says of the object.                        *)
CommitIsFinal ==
  [][\A k \in Key, t \in TxId :
       (tobj[t].body = "MiniTransaction" /\ MaskedBy(k, t) /\ ~MaskedBy(k, t)') =>
         Logical(k)' = Logical(k)]_vars

(* "No object will be masked by the minitransaction and the mt will not     *)
(* exist in the system" (_finish_mt, line 784): when mt_commit has returned *)
(* a result, or rejected the transaction or told that it expired, then      *)
(* whoever helped, was late, stopped or failed, none of its masks and seeds *)
(* is left, nor is T, and no client brings one back.                        *)
NothingLeftBehind ==
  \A t \in TxId :
    fate[t] \in {"ok", "TransactionRejected", "TransactionExpired"} =>
      /\ \A k \in Key : ~MaskedBy(k, t)
      /\ tobj[t].body # "MiniTransaction"

(* Every operation ends: masks of clients that stopped, or are slow, do     *)
(* not block others for ever, and coordinators do not deadlock.             *)
OperationsEnd ==
  \A c \in Client : ~At(c, "idle") ~> At(c, "idle") \/ At(c, "crashed")

=============================================================================
