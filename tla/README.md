# Verification of imembench

imembench compares in-memory stores (RAMCloud, Redis, Tachyon).  The repository
is a load generator, the client bindings the stores are driven through, and the
tooling around the measurements.  This directory holds TLA+ models of the parts
that have logic of their own, the TLC runs that check them and the TLAPS proofs
about them.

    tlc -workers 2 -config TxMixed.cfg MCTxRAMCloud     # a run
    tlapm TxRAMCloud_proofs.tla                         # proofs

`PROJECT.json` lists components, runs, mutants (one faulty variant of a
definition per property, which the property must tell from the code), the map
from definitions to source lines, findings, hazards and theorems.

## 1. Inventory

| part | state it keeps | operations | interacts with | what makes it correct |
|---|---|---|---|---|
| `bindings/ramcloud/python/ramcloud.py` | a connection | conditional read, write, delete; `handle_error` | the RAMCloud server (external) | every status is turned into the exception the callers handle |
| `oidres.py` | a batch of reserved ids per client, one shared reservation object | `next`, `LazyOID.__int__` | `ramcloud.py` | no id handed out twice, whatever the races and restarts; bounded waste |
| `txramcloud.py` | masks on objects, transaction objects T and tombstones in the store; nothing on the client | `mt_commit`, `read_rr`, `write_rr`, `delete_rr`, and the cleaning of other clients' masks | `ramcloud.py`, `oidres.py`, other clients through the store | transactions are atomic and isolated although any client may stop anywhere; no mask stays for ever |
| `retries.py` | a retry flag, a wait flag | `next`, `immediate`, `later` | all retry loops | a loop runs again exactly when asked to, and sleeps unless told not to |
| `loadgenerator/` | the chosen targets, their drivers, the loop over benchmarks and sizes, the measured times | option parsing, driver set-up and reset, benchmark loop, random access, trace replay | the three drivers and their stores | the requested benchmarks run once each on each target and measure what they claim |
| Java multi-operations (`multiop/`) | request and response cursors in one shared byte buffer | batched read, write, remove | JNI code on the other side of the buffer | every request is performed once and gets its own response, whatever the limits |
| Java `TableIterator` | the blob in hand, a pointer to a C++ enumerator, `done`, `last` | `hasNext`, `next`, `remove`, `finalize` | JNI code, which enumerates the table on the servers | each object exactly once, the enumerator freed once |
| `bindings/redis/python` reader | partial reply, task stack | feed, gets | hiredis (submodule, absent) | replies are rebuilt across chunk boundaries |
| `bindings/tachyon/java` | a file per key, in-memory map | get, set, connect | Tachyon (external) | what is set is what is read |
| `malloc/malloc.c` | one flag per replaced function, shared by all threads | malloc, free, calloc, realloc | every thread of the traced program, stdio | each call served once and, as far as it promises, traced once; no recursion |
| `traces/YCSB/kvtracer` | key map, in memory and in a file; the trace file | init, insert, read, update, delete, cleanup | YCSB, the load generator's replayer | the trace, over sessions and crashes, replays to what YCSB did |
| `build/RCClient.cc` | a range of tables in the cluster, `expectedLast` | exerciseCluster | RAMCloud, whose coordinator is made to crash meanwhile | the range stays contiguous and moves up; it reports what is lost, and is quiet otherwise |

The hard behaviours are in the first three lines: there is no server-side
transaction and no lock, only conditional single-object calls, and a client may
stop, or lose any race, between any two of them.  `txramcloud.py` takes its
transaction ids from `oidres.py`; both talk to the server through
`ramcloud.py`.  The multi-operations have a protocol of their own between two
languages over one buffer.  The load generator is sequential, with much
left-over state between benchmarks, and takes its traces from kvtracer, whose
state is spread over a program, two files, and what the user does with them
after a crash.  The iterator and the exerciser are sequential too, in a cluster
that changes or fails between any two of their calls.  `malloc.c` runs in every
thread of a program, with flags that nobody synchronises.  The hazards are
listed with their lines in `PROJECT.json`.

## 2. Modules

    RAMCloud            versioned objects and reject rules (server: external)
      OIDRes            reservation of ids        MCOIDRes      OIDRes_proofs
      TxRAMCloud        transactions              MCTxRAMCloud  TxRAMCloud_proofs
                                                              TxAtomic_proofs
        AtomicStore     what TxRAMCloud promises (INSTANCE in TxRAMCloud)
    MultiOp             shared buffer             MCMultiOp     MultiOp_proofs
    LoadGenerator       main(), benchmarks
    KVTracer            YCSB into a trace
      TracedReplay      KVTracer and LoadGenerator, with the trace file between  MCTracedReplay  TracedReplay_proofs
    TableIterator       an iterator and its enumerator  MCTableIterator  TableIterator_proofs
    ExerciseCluster     rounds of exerciseCluster()           MCExerciseCluster  ExerciseCluster_proofs
    MallocTrace         threads in the replaced functions          MCMallocTrace  MallocTrace_proofs

**RAMCloud** is operators only: `RejectRules`, `Status` (what a call under some
rules on some object answers) and the effects of an accepted call.  One call is
one atomic step.  The version of a key survives a delete, so that a key which
is written again goes on from it.

**OIDRes** has one `pc` per client.  `Pop` and `StartReserving` are the two ways
through the beginning of `next()`, `ReadNext` is `_read`, `Create` and `Update`
the two conditional writes, `Fill` what follows the loop.  The
write and the filling are two steps because `next()` evaluates `self.delta` in
both; `ChangeDelta` lets delta change wherever `ChangeAt` allows.  A write that is
refused because the object is there, or is not, goes back to the read; one that is refused
because of the version ends `next()` with `NameError` (see "The exception of a lost race"),
and the client may call again.  `Restart` is a client that exits anywhere.  `issued` counts how often
each id was returned; it is the only variable the code does not have.

**TxRAMCloud** keeps the user objects (`obj`, with the masking txid in the
body), the object at each txid (`tobj`: nothing, a MiniTransaction T, or a
tombstone), what T says (`intent`), and for each client the rest of its script
(`todo`), what it learnt from its operations (`known`) and where it is in the
current one (`cl`).  A step is one server call and the computation up to the
next one.

| actions | code |
|---|---|
| `Begin` | start of `mt_commit`, `read_rr`, `write_rr`, `delete_rr`, with a fresh txid from OIDRes, or without one when `next()` ends with the `NameError` of a lost race (`BeginFails`) |
| `ReadObject` | the read loop of `_read_rr`, and what each caller does with an object, a seed, or nothing |
| `Mask` | `_mask_object` in sorted key order, seeds for absent objects |
| `UserCall`, `DirectCall` | the conditional calls of `_write_unsafe`, `_update_unsafe`, `_delete_unsafe`, and those sent with the user's rules |
| `ReadT`, `Expire`, `WriteTombstone` | `_clean` and `_write_tombstone` |
| `UnmaskRead`, `Unmask`, `DeleteTombstone` | `_unmask_object(s)`, and the clean-up after a failed `_write_mt` |
| `WriteT` | `_write_mt`, the commit point |
| `ApplyRead`, `Apply`, `DeleteT` | `_finish_mt`, `_apply_op`, `_delete_mt`, by the coordinator or a cleaner |
| `Crash`, `InterruptWriteT` | a client that stops for ever; an exception that reaches `_write_mt` when T is already written |

`fate` is how the `mt_commit` of each txid ended, and is there for the properties.
The versions that `mt_commit` returns are those of the code, one more than
the mask's for every object that was not deleted, also for one that was only
included (`Returned`).  The user's rule `version_eq_given` is left out: it
restricts what a read accepts and takes no part in the calls the methods send themselves.

Txids are handed out once each in this module.  That is what OIDRes is proved to do
(`IdsAreUnique`), so the two modules are joined by that theorem and not by a
product of their states.

**AtomicStore** has no versions, masks or txids: an operation takes effect on
all its keys in one step, or ends with an exception, and a read that finds nothing
says so whatever its rules.  `TxRAMCloud!Atomic` is its
specification under a refinement mapping: the data under a key is what the
masking transaction makes of it once that transaction's T is there, and what a
client knows is the data part of `known`.  A transaction takes effect when T is
written, and answers later.

**MultiOp** has one actor at a time, Java or C++: `Handle`, `WriteRequest`,
`CallCpp` are `MultiOpHandler.handle()` and the `writeRequest()` of the three
handlers; `Perform` is the server's part; `WriteResponse` is one iteration of
the C++ loop, with the flush before the status and the flush before the rest of
a response; `Return` is the last flush and the loop control of `handle()`.  The
buffer is the list of responses in it, each whole or not, the cell with the
index Java stores from, and the position; sizes are counted in bytes as the code
counts them.  The length of a key goes through the buffer as 16 bits
(`MultiReadHandler.java:42` and its like), so keys are assumed to be shorter than 65536
bytes (`KeyLengthAssumption`).

**LoadGenerator** has the control of `main()`, `runBenchMarks()`, `_randomRW()`
and `ycsbReplay()` as one program counter, the table of benchmarks as in the
source, and of each store which size the value under each key has.  Keys are put
in groups that the table's object counts cannot tell apart, so that a fill of
four million objects is one update of a handful of groups.  The keys of a trace
are groups of their own, and the content of the trace file is the variable
`trace`; the file may also be missing.  What the stores held before is `found`, one of
`Leftovers`: Redis keeps the keys of earlier runs, and an aborted run its table.

* The array of a fill or a write has no zero byte at its end, and `redisdriver.cc` ignores
  its length: what Redis gets is as long as memory makes it, `Overrun`.
* `nextLog()` cuts keys at 127 characters (`Prefix`), and a value of 4096 bytes or more
  so that nothing ends it (`MAX_TRACE_VALUE`, `Overrun`).
* `Exit` is the destructors: a drop that throws ends the program, with the table
  dropped or not, and a deletion that Tachyon fails is only printed.
* A Zipf draw for n keys may be n (`Picks`).

**KVTracer** has one action per call of YCSB: `init`, `update` (also insert, which
is the same code), `read`, `readAll`, `delete`, `cleanup`, and `Crash`.  In
`updateFails` a line cannot be written, its key is in the map all the same, and the fields after
it are left out.  `init` ends with an exception where the key map has a line that `decodeKey()` does
not make three parts of (`Decoded`): a key that a crash cut (`CutKey`), or one with `\:` in a
name (`Escaped`).  A key cut within the field's name (`Part`) is loaded as if it was one.  `MapRemains` and
`Remains` are what a crash leaves of the map and of the trace, up to parts of the last line.  `mKeyMap`
and `keymapFile` are the map in memory and on disk, `opWriter` the lines of this
session, `file` the traces the user has put together.  `asked` and `kept` are
what YCSB itself did to the records: they are not in the code, and are what
trace and map are compared with.  **TracedReplay** runs LoadGenerator on the file
that KVTracer leaves: `Tracing` steps, then `Invoke`, then `Replaying` steps.
What LoadGenerator does with other options, and no trace, it does there too, so
that one run is about both modules.

**TableIterator** knows objects by their place in the order of the enumeration.
`HasNext` and `NextObject` share `Retrieve`, the whole of `retrieveBatch()` with
its JNI half; `Remove` and `Finalize` are the other two methods, and `Change` is
another client.  `returned`, `throughout` and `failed` are there for the
properties.

**ExerciseCluster** has one step per call to the cluster: `FindFirst`,
`ScanTable`, `ReadName`, `EndScan`, `Drop`, `Create`, `Write` are the round in the order of
the code; a scan is a `getTableId` and a `read` for each table, and a loss may come between them.  `ReadFails` is a
read that throws although the object is there.  `DropFails`, `CreateFails`, `WriteFails` are calls that throw, with
their effect or without; `Restart` is an exception that ends the program, `Lose`
the loss that the exerciser is there to find.  `calm`, `left` and `owed` are
there for the properties: how many rounds have ended since the last fault, which
tables the round in which it fell left behind, and whether a complaint is due.

**MallocTrace** has a stack of frames per thread, since a hook calls the replaced
function again and `printf` may call `malloc`.  The flags are in memory, and each
thread has its stores on their way there (`pending`, `Drain`): the file is for x86
and compiled without optimisation, and its flags are plain variables, so what
another thread sees is what the processor lets it see.

## 3. Runs

| run | instance | what it shows |
|---|---|---|
| `oidres` | 2 clients, deltas 1 to 3 that may change except between write and fill, ids below 7, one restart | `NoIdTwice`, `WasteBounded`, `NextEnds` |
| `tx_mixed` | 2 clients, 6 scripts, objects there or not, expiry, one crash, one interrupt | `AtomicUntilInterrupted`, `VersionsAreSafe`, `MasksHeld`, `NothingLeftBehind`, `OperationsEnd` |
| `tx_three` | 3 clients, transactions and readers, expiry, one crash | `Atomic`, `MasksAreKept` with two cleaners and a coordinator at once |
| `tx_deletes` | 2 clients, objects come and go, no expiry | `Atomic`, `OperationsEnd` |
| `tx_expired_delete` | as `tx_deletes` with expiry | violation of `Atomic` |
| `tx_noop_version` | 2 clients, a transaction that includes an absent object | violation of `MasksAreKept` |
| `tx_interrupt` | one interrupt in `_write_mt` | violation of `CommitIsFinal` |
| `multiop` | a buffer of 60 bytes, batches of 3, arrays up to 5 | `InOrder`, `AllAnswered`, `InBuffer`, `HandleReturns` |
| `traced_replay` | two records with three fields, 3 calls in up to 2 sessions, crashes; stores with what earlier runs left; 5 target lists, 5 benchmark lists, 10 operations | `KeysKnown`, `WorkloadReplayed`, and of LoadGenerator `RequestsRunOnce`, `AccessesHit`, `EachSizeReplaced`, `OnlyMeasuredTimes`, `ReplayFaithful` |
| `table_iterator` | objects under 4 hashes, 3 changes by others, failing calls | `ReturnedOnce`, `FreedOnce` |
| `exercise_cluster` | 7 tables in reach of the search, 2 faults or losses | `Contiguous`, `ComplaintsStop`, `LossReported`, `MovesUp` |
| `malloc_trace` | 2 threads with 2 calls each, two functions | `ServedOnce`, `TracedOnce`, `CallsReturn` |

`TypeOK` is checked in one run of each module (of LoadGenerator and KVTracer as
part of `TracedTypeOK`).  Symmetry of clients and of txids is used in runs
without liveness only.  A commit that an interrupt hits is not atomic, which is
what `tx_interrupt` shows: `AtomicUntilInterrupted` is `Atomic` up to that step, so
that `tx_mixed` can also show that masks are removed and operations end after one.

### Bounds

* OIDRes: `MaxNext` stops reservations, `MaxCrash` restarts.  Two clients are
  enough for every race over one object, since a reservation that lost to any
  number of others sees only that the version is not its own; 7 ids let each
  client reserve several times with a delta of 1.  `IdSpace` (2^64 in the code) is
  above `MaxNext`, so the counter never wraps; the class says the space is large
  enough not to be exhausted.
* TxRAMCloud: two keys are the least for a transaction that is half done, and
  three clients the least for two cleaners that race each other and the
  coordinator.  A script has up to three operations, so that a client acts on
  what an earlier operation told it.  Each client commits at most once, so there
  are as many txids as clients.  Values are three numbers, of which `Inc` makes the next from
  the last, so a lost update shows.  `MaxCrash` is 1: one stopped coordinator leaves masks
  at every possible point, and those left running must deal with them.
* MultiOp: in 60 bytes a response fits several times, exactly, or hardly at all;
  the request sizes include one that just fits and one that does not.  One call
  of `handle()` is enough because it leaves nothing behind that the next reads.
* KVTracer: a record with two fields and one with one are enough for a map that
  has some of the fields; three calls make a put, a delete and a put again, over
  two sessions or with a crash between them.  One record has a `\:` in its name, and keys that are
  the same as others in 127 characters; one value of the three is too long for `nextLog()`.  `CutSizes` has nothing
  and a length between those of two values, for a value that a crash cuts.
* TableIterator: four hashes give a blob with objects before, in and behind it,
  and a gap; three changes create, delete and create again.
* ExerciseCluster: seven tables let the range of up to six move up, and two faults
  are the least that hit one repair with another.  `Limit` is 1000 in the code.
  `SettleRounds` is 2, the least: with 1, TLC finds `ComplaintsStop` violated.
* MallocTrace: the four functions have the same code, so malloc, which printf
  calls, and one it does not call stand for them.  Two calls let a thread meet
  what its first, or another thread's, left of a flag.
* LoadGenerator: 10 operations instead of 10000 keep the ratios of the
  table (9:1, 5:5, 1:9).

### Fairness

* OIDRes: a client inside `next()` keeps running (`WF`), as `ImmediateRetry`
  does not stop by itself.  A client outside may never call again.
* TxRAMCloud: `WF` of every client's step, since the retry loops run on until
  they succeed.  `SF` of `Expire`: a client that meets a mask without a T waits
  until `min(start + 1, timeout)` (`txramcloud.py:328`), one second
  at most, and it leaves and enters the state in which it looks at the clock on
  every retry, hence strong fairness.  Where `MayExpire` is FALSE the clock
  never runs out, and the run shows what holds between prompt clients.
* ExerciseCluster: `WF` of the rounds, which `main()` runs in an endless loop.
  Faults have no fairness.
* MallocTrace: `WF` of each thread's steps inside the functions, where only the
  lock of stdout stops it, and of `Drain`, as stores reach memory in the end.
* MultiOp: `WF` of all steps inside `handle()`, one thread that does not stop there.

### The exception of a lost race

For status 4 `handle_error` is meant to raise `VersionError`, and does raise
`NameError`, because `reject_rules` is not defined there (`ramcloud.py:232`).
The callers catch `VersionError` and the mocks of the tests raise it; the models have
the `NameError` of the code everywhere.  So `next()` does not retry after a lost
race but ends without an id, as its caller then does; and a client that loses a race in
`txramcloud.py` ends its operation wherever it is, also half-way through masking or
cleaning up, and leaves the store as a crash would.  `Atomic` and
`MasksAreKept` hold all the same.  `NothingLeftBehind` says nothing of a transaction
that ended so, and is about the endings that tell the user what became of it: a result,
`TransactionRejected` or `TransactionExpired`.  That OIDRes may keep a client in its loop under contention, or `_delete_mt`
raise `InconsistencyError` after a `VersionError` (`txramcloud.py:695-696`), is written in the
code and cannot be reached in it.

## 4. Findings

* **`tx_expired_delete`** (`txramcloud.py:496`).  A cleaner waits past the
  time-out, reads a masked object and is slow.  Another unmasks the object, a user
  deletes it, and the cleaner's write under `version_gt_given` alone creates the
  object again with the old data.  `_apply_op` uses `exactly` in the
  same position, and is right.
* **`tx_noop_version`** (`txramcloud.py:860`).  `mt_commit` returns a new version also for an
  object that was only included in the transaction and was not there.  `_apply_op`
  removes its seed, so that nothing has this version until the next transaction masks
  the object; `write_rr` under `version_gt_given` with it then replaces the mask.
* **`tx_interrupt`** (`txramcloud.py:844`).  The handler around `_write_mt`
  unmasks everything on any exception, also on one that comes after the
  server took T: a committed transaction loses masks without being applied.

Observed while modelling, without a run of their own:

* `handle_error` raises `NameError` for a rejected write (`ramcloud.py:232`), see
  above.
* Called without a list, imembench runs all benchmarks according to its README ("care, run all
  benchmarks, very slow", `src/README.md:43`; the list is then "all", `main.cc:187`), but only the first entry of
  the table, the replay, does run: the search for a name leaves the loop at the first that matches
  (`imembench.cc:748`), and "all" matches each.  No run has this as its question; `RequestsRunOnce`
  leaves open what "all" runs, and only wants that nothing runs twice.
* The Redis driver ignores the length of a value and takes it for a string
  (`redisdriver.cc:53-54`), which the arrays of the benchmarks are not (`imembench.cc:259-270`): Redis
  is measured with other sizes than the others, and what follows the array in memory is sent.
* `nextLog()` has room for 127 characters of a key and 4096 bytes of a value, and no
  zero byte behind a value that fills it (`imembench.cc:166-170`, `:181`, `:440-442`): keys that differ later are one
  to the replay.
* Data stays in the stores when a drop fails (`tachyondriver.cc:60-63`,
  `ramclouddriver.cc:15`) or a benchmark aborts the program; and always in Redis.
* `OIDRes.next` evaluates `self.delta` in the write and again in the range it
  keeps (`oidres.py:195`).  If delta grows in between, as the comment on `delta`
  allows, two clients hold the same ids: `NoIdTwice` fails when `ChangeAt`
  contains `"fill"`.  The run and the theorem let it change everywhere else.
* An exception of the enumeration call is swallowed in C++ and looks to Java like
  the end of the table, although `TableIterator.java:110-111` guarantees each
  object.  `ReturnedOnce` therefore leaves out enumerations in which a call
  failed.  `remove()` does not compare versions: an object that was rewritten
  since `next()` returned it is removed too.
* kvtracer encodes the keys of a record again when it deletes it, and keeps them
  in its map.  Its deletions are under keys that the trace never wrote, and the
  replay leaves the objects where they are; `WorkloadReplayed` leaves out keys
  that were deleted last.  A crash loses the whole key map, since `init` empties
  the file and only `cleanup` writes it, and a map partly written can have keys
  of a trace that was thrown away.  A line of it that was cut before its last part, or the key of a
  record with `\:` in its name, makes every later `init` fail while the file is there (`KVTracerClient.java:66-77`).
* `exerciseCluster` sets `expectedLast` also in a round in which the new table
  could not be made (`RCClient.cc:136`, `:154`), so it complains in a later round
  of a cluster in which nothing is lost; `ComplaintsStop` says that it settles.
  How soon depends on what is left, not on a number of rounds: a table that lost
  its object is complained about until it is the oldest and goes, and a range that
  starts again at a table after table1 is complained about until it has five, as
  the expected range has five unless it begins at table1 (`RCClient.cc:111-114`).
  Once the range is past table 1000, it starts a new one at 1 and leaves the old
  tables for ever.
* In `malloc.c` a call of a function in which another thread is may have no
  line, or two (`malloc.c:174` and its like): the flag that is off for the one is
  off for the other.  `TracedOnce` is about calls that were alone in their
  function.
* The Zipf generator can return n for a table of n objects
  (`imembench.cc:233`): a draw whose quotient rounds to 1.0 accesses a key that
  may not be there.
* `getDist()` reads the first of the measured times also when there are none
  (`imembench.cc:608`), after a time-out or an empty trace.
* A request that does not fit into the empty buffer makes `handle()` call
  C++ for ever with no request.  `HandleReturns` assumes that each request fits.

## 5. Proofs

All theorems hold for every value of the constants under the assumptions named
in the modules.

**OIDRes_proofs.**  `IdsAreUnique`: `Spec => []NoIdTwice`, for deltas that may change
anywhere but between the write and the fill (`"fill" \notin ChangeAt`).  `NoIdTwice` alone is not inductive: a step of `Fill` is safe only if the ids
it returns were never returned and no other client holds them.  `IInv` adds
that the batches of clients (kept, or reserved and about to be filled) are
disjoint and below `NextAvail`, that none of their ids was returned, that returned ids are
below `NextAvail`, and `Fresh`: a client about to update has seen the object as it is or
in an older version, in which case its write will be rejected.  The step that
matters is an accepted `Update` or `Create`: the version pins what was read, so
the new batch starts at `NextAvail`.  `WasteIsBounded`: `Spec => []WasteBounded`, under the
same assumption.  It adds to `IInv` that a batch lies within a range no longer than some
delta (`Narrow`), and then follows `Wasted`, the ids below `NextAvail` that nobody holds or
has returned: only a restart adds to it, and no more than a batch.

**TxRAMCloud_proofs.**  `TypeCorrect`: `Spec => []TypeOK`.  Types alone are not
inductive, because each step takes its operation, key, txid and intent from the
local state a previous step prepared.  `Fit(c, s)`, a part of `TypeOK`, says what
local state `s` has at each label: a script that is not empty, keys left to mask
while masking, a job with keys that belong to the transaction's intent
while applying, and so on.  One lemma per action shows that it re-establishes
`Fit`; `FitStays` shows that steps of other clients cannot destroy it.

The rest of the module is about masks.  `VersionsSafe`, `CoordinatorHoldsMasks`, `MasksKept`:
`VersionsAreSafe`, `MasksHeld` and `MasksAreKept` hold for any number of clients,
keys and transactions, any crashes, interrupts, timeouts and lost races, and any
scripts with `NoopsNeedObjects`: a transaction that includes an object
without an operation wants it to exist.  All theorems of this module and the next but
`TypeCorrect` assume this, and `tx_noop_version` shows that they need it.  They rest on one inductive invariant,
`MaskProtocol`, since none of them is inductive alone: whether a mask stays
depends on every call that is about to be sent, and what such a call may do
depends on what its client saw of the object and of T steps ago.  The invariant
has these parts:

* `CallInv`: a call about to be sent carries rules (`Guarded`) that let it
  replace only an object that is not masked, or masked by the transaction it is
  for.  It is stable because versions only grow (`ObjectsGrow`, `GuardedCall`).
* `MaskInv`: a coordinator that is putting down masks has lost none of them
  unless there is a tombstone; `RemoveInv`: who takes masks off has
  a T, a tombstone or the end of the coordinator to justify it.
* `KnownInv` and `ReturnInv`: a version a client knows, or will be told
  by `mt_commit`, is that of an unmasked object with the data it knows, or is out of date.
* `ShapeInv`, `ObjectInv` and `PairInv`: what local states and objects look like, and that a
  transaction has one coordinator.

The proof is split into what a step looks like from outside (`StepOf`) and what
it does to its own client.  `StepMoves` shows, with a lemma per action, that
the client that moves keeps its part and takes a `StepOf`; `OthersKeep` and `PairsKeep` show that
any `StepOf` leaves the parts of other clients intact.

`NothingIsLeft`: `Spec => []NothingLeftBehind`.  `Settled` adds to the mask protocol that of
a transaction whose fate is sealed (a result, or one of the two rejections) there is neither
a mask nor T, its txid is used, and no client has it as its own; and that a
client about to report a rejection has no T (`RejectInv`).  A step ends at most the client's own
transaction, and then says no more of it than is true (`Closes`, with a
lemma per action).  Afterwards nothing comes back: only the coordinator of a transaction puts
down masks for it (`NoMaskStays`) or writes its T (`NoNewT`), and there is none.

**TxAtomic_proofs.**  `TransactionsAtomic`: `Spec => AtomicUntilInterrupted`, and
`StoreImplemented`: `Spec => Atomic` if `MaxInterrupt = 0`; both with `NoopsNeedObjects`, and if masks do not time out, or
no operation deletes.  What is left out is where the refinement fails: a
transaction that is interrupted while T is written (the run `tx_interrupt`), and a deleted
object that `_unmask_object` brings back when a mask has timed out (`tx_expired_delete`).
`MaskProtocol` says who may replace an object; `AtomicInv` says what with:

* `MaskingInv` and `HeldInv`: a call that masks carries the data of the object it is
  going to replace, and the rule of its key holds of that data until T is written, since
  nobody else can change it;
* `UnmaskingInv`: a call that takes off a mask carries the data under it, and the object
  is still there, so that the call cannot bring back what is gone;
* `AbortInv`: a coordinator that ends with an exception has not committed;
* `UserInv`, `LoopInv`, `ApplyingInv`: the calls of writes, deletes and of `_apply_op`
  carry what the operation says, under rules at least as strict as the user's;
* `PatientInv`, `StoreInv`: without time-outs there are no tombstones, and without deletes
  no transaction leaves a key without data.

There is again one lemma per action (`Moved`): the client that moves keeps its part, and its step is
one of the abstract store.  Only three are visible: `WriteT` (`CommitMoved`) is the whole
transaction, an accepted single call or a read is its operation (`EndPerforms`), and `DeleteT` of the coordinator gives the
answer (`StoreReturns`).  Exceptions are `Fail`, a crash is `Stop`, and every other
step leaves the data of every key as a user sees it, which `UnmaskedData` and `AppliedData` show of the two
calls that write.  `OthersEffect` shows that no step disturbs the parts of other clients.

`CommitsAreFinal`: `Spec => CommitIsFinal` if `MaxInterrupt = 0`.  It needs `MaskProtocol` and `AbortInv` only, and
so holds with time-outs and deletes as well.

**MultiOp_proofs.**  `InOrderAlways`, `AllAnsweredAlways`, `InBufferAlways`,
`TypeCorrect`, for every buffer of at least 24 bytes, batch limit, array, and values that leave 24 bytes
in the buffer, as the server's limit on objects does.  `IInv` says where every
request is: those up to `First + put` are performed, those up to
`First + out.flushed` are answered, and the responses between are in
the buffer, in order and complete.  It is needed because `InOrder` does not say what
the buffer holds, on which the next flush depends.  `UnloadAnswers` is about
Java's side of a flush, `FlushedHolds` and `StatusHolds` about C++'s; `Invariance`
puts them together.  From `IInv` the four theorems follow
in any state.

**TableIterator_proofs.**  `ReturnedOnceAlways`, `FreedOnceAlways`, `TypeCorrect`, for
every number of objects and of changes.  `IInv` adds that the enumerator's position
separates the objects: those ahead or in hand were not returned (`NotYet`), those
behind that were there throughout are in hand or were returned (`Behind`), and
an end without a failed call has none ahead (`AtEnd`).  For the C++ object it adds
`Owned`: it lives exactly as long as there is a pointer to it, until
`finalize()`.  Both counts in `ReturnedOnce` need it, since what the next call does to
a count depends on what is in hand.

**MallocTrace_proofs.**  `ServedOnceAlways`, `TracedOnceAlways`, `TypeCorrect`, for any
number of threads and of calls in each.  What the two say of a call that
has ended depends on where its thread was in its stack before.  `ServedInv` says when libc was called for it: as soon as the
innermost hook has timed a call, or a printf wants its buffer.  The trace has
its line for certain only if the thread is alone in its function, and finds the flag on: `FlagInv` says that a flag that is off will be switched on by a thread that
is inside (`Off`, `Stores`, `LastOn`), so a thread that enters alone finds it on, and `Course` says where
such a thread can be: its hook runs once, calls printf once, and the malloc that printf may call
passes the hook by.

**TracedReplay_proofs.**  The eight properties of the run `traced_replay`, for any number of
operations of a benchmark, any options, records, keys, values, sessions, traces and
contents of the stores; the table of benchmarks is the one of the source.  The assumptions on the constants are
that `Operations` divides by ten (`OperationsAssumption`), that the two lists of the options are
sequences of strings (`OptionsAssumption`), that the keys of traces are no numbers, and cutting one twice is cutting it
once (`TraceAssumption`), that a record has finitely many keys of its own, and
encoding a key again gives none that the workload uses (`KeysAssumption`), and that values are not empty
(`ValuesAssumption`).

* `TypeCorrect` is also that each loop counter is an index of the list it runs over.
* `RanInv` is behind `RequestsOnceAlways`: of the drivers in the list, which are all different, those before the
  current one have run all names in the order in which they were first given (`InOrder`), the
  current one those it has come to, those behind it none.
* `MeasureInv` is behind `AccessesHitAlways` and `SizesReplacedAlways`.  Between the accesses of a
  benchmark, the filled groups have what the store made of its size (`Sent`); after one with
  several sizes, all up to the largest fill (`Most`) have the last.  `Table` has computed from the table of
  the source what this needs: the first of several sizes is the smallest, and has the most objects.
* `ReplayInv` is behind `ReplayFaithfulAlways`: at line n of the trace the store is what the
  lines before it, with their keys cut (`Short`), make of what was found (`ReplayedTo`), and no benchmark but the
  replay puts the keys of a trace.
* `OnlyMeasuredTimes` is inductive with the types.
* `TracerInv` is behind `KeysKnownAlways` and the next.  `Says`: the last line about a key that was not
  deleted has what the workload put, in the file and in what is written of the session.  `ReadBack`: what a GET
  says the workload read is what the trace last wrote.
* `WorkloadReplayedAlways` combines both sides: the trace that the replay follows is the file (`AllInv`), so the
  store is what the file says, and the file says what the workload did.  For a key that no other equals in its
  first 127 characters, the last write of the cut key is the last write of the key (`AloneReplayed`, `OneLastWrite`).

The operators these rest on are proved once: `Table`, `MinOfSet`, `GroupNumbers`, and
what appending lines changes of `Says`, `ReadBack` and `LastWrite`.

**ExerciseCluster_proofs.**  `AlwaysContiguous`, `LossesReported`, `ComplaintsAlwaysStop`, `TypeCorrect`, for
any end of the search above 6 (it is 1000 in the code) and any number of faults.

* `SpanInv`, as long as nothing is lost: the tables are n in a row, at most six, from a on, and what the round knows of them is
  true. `first` has not passed a while it searches, and then is a; `last` has not passed the end, and then is the
  number of the table to make; a sixth table is made only where five were found. That a drop which fails and a
  creation which follows leave no hole needs all of this, since the round goes on with the count it
  took before them.
* `OutOfReach`: a table that the search does not reach is never dropped, so the range
  cannot come back into reach, and what `SpanInv` says in reach was true in the step before.
* `RoundInv` relates the counters of a round, which bounds them and the number of the next table.
* `OwedInv`: where a complaint is owed, one of the expected tables has no object, and the scan
  has not come to it, has started behind it, or has complained. So a scan that ends with exactly the expected range
  has complained (`OwedIsPaid`), whatever else was lost meanwhile.
* `SettleInv` is about the rounds after the one in which the last fault fell, and holds with losses
  too. A table made since (`FreshTables`) has its object, and there is no hole between it and the older
  ones, of which it is within five; so a sixth table in the range is one that was left behind, and when
  none of those exists, the client expects exactly what there is (`ExpectInv`). It is not enough to say this of
  the tables: `FoundInv` says that `first` and `last` still tell the truth about them at each point of the round.

Only model-checked: `NextEnds`, `OperationsEnd`, `HandleReturns`, `MovesUp` and `CallsReturn`, which are liveness
under fairness and need ENABLED, which the prover does not reason about here.  Every
invariant and every other action property of a run that passes is a theorem.

## 6. Not modelled, and why

* The RAMCloud, Redis and Tachyon servers: not in the repository; what the
  clients rely on is stated in RAMCloud, in the driver part of LoadGenerator, and
  in the actions of TableIterator and ExerciseCluster that stand for calls.
* `insert()` of TxRAMCloud calls a method that does not exist; the check for
  outdated clients compares a header version with the one constant every client
  writes.
* `retries.py`: its flag is the control of the loops in OIDRes and TxRAMCloud, and
  modelled there; the sleeps between rounds are covered by interleaving.
* Connections, table administration, the single Java operations: one call each,
  with copying of arguments.
* kvtracer with more than one thread: YCSB has one by default, and the tracer's
  maps and writers are not made for more.  Two load generators on one table:
  each drops the table under the other, and nothing can be promised.
* `TachyonKV.java` copies arguments around calls of Tachyon, and is reached
  through a C++ binding that is not in the repository.
* The Redis reader wraps hiredis, which is absent; the Tachyon examples and the
  measurement scripts are third-party or data.
* BigDataBench with SNAP and GLib: almost all lines of the repository are this
  vendored copy of a graph library and its data generators, which only shell
  scripts call.  The map therefore covers a small share of all lines, although it
  covers most of the logic that was written for imembench.
* Widths: the 64 bits of `pack()` are modelled, but no run comes near the wrap.

## 7. Order of work

RAMCloud, OIDRes, TxRAMCloud with AtomicStore, their proofs, those about masks
and what is left behind, and that of the refinement; MultiOp and its proofs;
LoadGenerator; TableIterator and its proofs; KVTracer and TracedReplay;
MallocTrace and its proofs; ExerciseCluster and its proofs; the proofs about
TracedReplay.  The liveness properties remain with TLC.
