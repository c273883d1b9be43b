------------------------------ MODULE KVTracer ------------------------------
(***************************************************************************)
(* KVTracerClient.java: a database interface of YCSB that writes what YCSB *)
(* does to its tables into a trace of single keys.  A record is a table    *)
(* and a key; each of its fields is a key of the trace, encoded from all   *)
(* three.  Which fields a record has is remembered from one session of     *)
(* YCSB to the next, in the key map file.                                  *)
(*                                                                         *)
(* Encoded keys are given, with those that decodeKey() does not take apart *)
(* as they were put together, and of a value the size.  Each session       *)
(* writes a trace file of its own, and the user merges them in order; what *)
(* a crash leaves of one he may add as the last, or throw away.  A step is *)
(* one call of YCSB, which has one thread here, as by default.             *)
(***************************************************************************)
EXTENDS Integers, Sequences, FiniteSets, SequencesExt

CONSTANTS
  Record,      \* the records of the workload
  KeysOf,      \* the encoded keys of the fields of each record
  Part,        \* an encoded key of each record, with part of a field's name
  Again,       \* what becomes of an encoded key that is encoded again
  Escaped,     \* the keys with \: in a name, of which decodeKey() makes four
  CutKey,      \* a key of which the rest is missing, so that it makes less
  ValueSize,   \* the size of the values that each call puts
  CutSizes,    \* bound: to which a value may be cut
  MaxCalls,    \* bound: calls of YCSB
  MaxSessions  \* bound: sessions of YCSB

FieldKey == UNION {KeysOf[r] : r \in Record}
MapKeys(r) == KeysOf[r] \cup {Part[r]}
EncKey == UNION {MapKeys(r) : r \in Record}

ASSUME KeysAssumption ==
  /\ \A r \in Record : IsFiniteSet(KeysOf[r])
  /\ \A r, s \in Record : r # s => MapKeys(r) \cap MapKeys(s) = {}
  /\ \A k \in EncKey : Again[k] \notin EncKey \cup {CutKey}
  /\ CutKey \notin EncKey
ASSUME ValuesAssumption == \A n \in 1 .. MaxCalls : ValueSize[n] \in Nat \ {0}
ASSUME BoundsAssumption == MaxCalls \in Nat /\ MaxSessions \in Nat /\ CutSizes \subseteq Nat

VARIABLES
  file,         \* the merged trace
  keymapFile,   \* the key map file
  mKeyMap,      \* the encoded keys of each record, as in the source
  opWriter,     \* the lines of this session, written or still in the buffer
  session,      \* closed, open, or cut: the trace ends where a crash cut it
  sessions, calls,   \* so far
  forgotten,    \* has a key map been lost?
  asked,        \* what the workload has put under each key, by this session
  kept          \* and by the sessions whose trace is in the file

tracer == <<file, keymapFile, mKeyMap, opWriter, session, sessions, calls, forgotten, asked, kept>>

Never == -1     \* nothing has been put
Gone == 0       \* the record has been deleted

Untraced ==
  /\ file = <<>> /\ keymapFile = {}
  /\ mKeyMap = [r \in Record |-> {}] /\ opWriter = <<>>
  /\ session = "closed" /\ sessions = 0 /\ calls = 0
  /\ forgotten = FALSE
  /\ asked = [k \in EncKey |-> Never] /\ kept = asked

-----------------------------------------------------------------------------
(* The key map file is read, and then opened for writing, which empties it. *)
(* A line that decodeKey() does not make three parts of ends init(), and    *)
(* the session: the file stays as it is.                                    *)
LoadedLate == [r \in Record |-> {}]     \* mutant: it is emptied first
Loaded == [r \in Record |-> keymapFile \cap MapKeys(r)]
Decoded == keymapFile \cap (Escaped \cup {CutKey}) = {}

init ==
  /\ session = "closed" /\ sessions < MaxSessions
  /\ sessions' = sessions + 1
  /\ IF Decoded
       THEN /\ session' = "open"
            /\ mKeyMap' = Loaded /\ keymapFile' = {}
       ELSE UNCHANGED <<session, mKeyMap, keymapFile>>
  /\ opWriter' = <<>> /\ asked' = kept
  /\ UNCHANGED <<file, calls, forgotten, kept>>

(* A call writes a line for each of some keys, in the order of a hash set.  *)
(* The size is the value's; a GET has none, and there it stands for what    *)
(* the workload reads.                                                      *)
Lines(op, K, size) ==
  LET s == SetToSeq(K) IN [i \in DOMAIN s |-> [op |-> op, key |-> s[i], size |-> size[s[i]]]]

Called(lines) ==
  /\ session = "open" /\ calls < MaxCalls /\ calls' = calls + 1
  /\ opWriter' = opWriter \o lines
  /\ UNCHANGED <<file, keymapFile, session, sessions, forgotten, kept>>

Known(r, K) == mKeyMap[r] \cup K

(* insert() and update().                                                   *)
put(K, written) ==
  LET n == ValueSize[calls + 1]
  IN  /\ Called(Lines("UPDATE", written, [k \in written |-> n]))
      /\ asked' = [k \in EncKey |-> IF k \in K THEN n ELSE asked[k]]

onlyNew(r, K) ==    \* mutant: a key that is known is not written again
  put(K, K \ mKeyMap[r]) /\ mKeyMap' = [mKeyMap EXCEPT ![r] = Known(r, K)]
update(r, K) == put(K, K) /\ mKeyMap' = [mKeyMap EXCEPT ![r] = Known(r, K)]

(* The line of k, which is already in the map, cannot be written, and the   *)
(* fields after it are left out.                                            *)
updateFails(r, K, k) ==
  put(K, K) /\ mKeyMap' = [mKeyMap EXCEPT ![r] = Known(r, K \cup {k})]

(* read() of given fields, or of all that are known.                        *)
read(K) ==
  /\ Called(Lines("GET", K, [k \in K |-> IF asked[k] > 0 THEN asked[k] ELSE 0]))
  /\ UNCHANGED <<mKeyMap, asked>>
readAll(r) == read(mKeyMap[r])

(* delete() encodes the keys once more, and does not forget them.           *)
delete(r) ==
  LET K == {Again[k] : k \in mKeyMap[r]}
  IN  /\ Called(Lines("DELETE", K, [k \in K |-> 0]))
      /\ asked' = [k \in EncKey |-> IF k \in KeysOf[r] /\ asked[k] # Never THEN Gone ELSE asked[k]]
      /\ UNCHANGED mKeyMap

Merged == file \o opWriter

cleanup ==
  /\ session = "open" /\ session' = "closed"
  /\ file' = Merged
  /\ keymapFile' = UNION {mKeyMap[r] : r \in Record}
  /\ mKeyMap' = [r \in Record |-> {}] /\ opWriter' = <<>>
  /\ kept' = asked
  /\ UNCHANGED <<sessions, calls, forgotten, asked>>

(* A crash: the buffers of the writers are lost.  The key map file is empty *)
(* until cleanup(), and has any of the keys if the crash is there, the last *)
(* of them perhaps cut: within the field, or so that parts are missing.  Of *)
(* the trace there may be any part; the last line may be cut, so that it    *)
(* has no separator, a part of the key, or a part of the value.             *)
Cut(line) ==
  {[line EXCEPT !.op = "bad"]} \cup
  IF line.op = "UPDATE" THEN {[line EXCEPT !.size = n] : n \in {m \in CutSizes : m < line.size}}
  ELSE {[line EXCEPT !.key = CutKey]}

Remains ==
  {SubSeq(opWriter, 1, n) : n \in 0 .. Len(opWriter)} \cup
  UNION {{Append(SubSeq(opWriter, 1, n - 1), l) : l \in Cut(opWriter[n])} : n \in DOMAIN opWriter}

MapRemains ==
  LET K == UNION {mKeyMap[r] : r \in Record}
      Cuts == {{}, {CutKey}} \cup {{Part[r]} : r \in {s \in Record : mKeyMap[s] # {}}}
  IN  {keys \cup cut : keys \in SUBSET K, cut \in IF K = {} THEN {{}} ELSE Cuts}

Crash ==
  /\ session = "open"
  /\ mKeyMap' = [r \in Record |-> {}] /\ opWriter' = <<>>
  /\ forgotten' = TRUE /\ asked' = kept
  /\ \/ session' = "closed" /\ keymapFile' \in MapRemains /\ UNCHANGED file
     \/ /\ session' = "cut" /\ UNCHANGED keymapFile    \* no session follows that reads it
        /\ \E part \in Remains : file' = file \o part
  /\ UNCHANGED <<sessions, calls, kept>>

-----------------------------------------------------------------------------
(* YCSB reads what it has put and not deleted.                              *)
Trace ==
  \/ init \/ cleanup \/ Crash
  \/ \E r \in Record :
       \/ \E K \in SUBSET KeysOf[r] \ {{}} : update(r, K)
       \/ \E k \in KeysOf[r] : \E K \in SUBSET (KeysOf[r] \ {k}) : updateFails(r, K, k)
       \/ \E K \in SUBSET {k \in KeysOf[r] : asked[k] > 0} \ {{}} : read(K) \/ readAll(r)
       \/ delete(r)

-----------------------------------------------------------------------------
(* Type invariant.  An encoded key is only known for its own record.        *)
TracerTypeOK ==
  /\ keymapFile \subseteq EncKey \cup {CutKey}
  /\ mKeyMap \in [Record -> SUBSET EncKey]
  /\ \A r \in Record : mKeyMap[r] \subseteq MapKeys(r)
  /\ session \in {"closed", "open", "cut"}
  /\ sessions \in 0 .. MaxSessions /\ calls \in 0 .. MaxCalls
  /\ asked \in [EncKey -> Int] /\ kept \in [EncKey -> Int]

(* "The keymap file is needed because the YCSB operations are richer than   *)
(* simple key-value GET/PUT" (README.md of kvtracer): unless a crash lost   *)
(* it, the map has all keys that the workload has put, of this session and  *)
(* of those before, over updates that fail and sessions that do not begin.  *)
KeysKnown ==
  ~forgotten =>
    /\ session = "open" => \A r \in Record : {k \in KeysOf[r] : asked[k] # Never} \subseteq mKeyMap[r]
    /\ session = "closed" => {k \in FieldKey : kept[k] # Never} \subseteq keymapFile
=============================================================================
