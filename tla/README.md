# mdapi: a verification project

mdapi serves Parquet files of market data from a gateway host to clients. This directory
holds TLA+ models of the parts of it where threads, processes, files and the network meet,
TLC runs that check them on small instances, and TLAPS proofs of what matters most for
every instance. Paths below are relative to the root of the repository; module names are
files of this directory.

## 1. The system

```
 producers                        gateway host                                   client host
 replace_partition  --files-->  CatalogStore  --\
 migrate_legacy_catalog                          >-- HTTP handlers -- streams --> GatewayPool
 derived tables, flow_points --> DerivedStore --/    | FairStreamScheduler        | direct / selective / cache
 manage_users, update_users --> token file ----> GatewayState                   LocalCache (SQLite + files)
```

Every box of the gateway is used by many handler threads (one per connection); every box of
the client by many application threads, and its cache directory by many processes.

| component (source) | state | operations | what makes it hard | correct when | module |
|---|---|---|---|---|---|
| stream admission (`scheduler.py`) | queue per user, rotation, counters, one lock and condition | acquire, wait, timeout, release, scheduling pass | a deadline, a wake-up and a release meet; skipped users rotate in mid-scan | no slot leaks, nobody eligible waits, wake-ups arrive, no user is passed twice | `FairStreamScheduler`, `FairShare`, `StreamAdmission` |
| user tokens (`scripts/manage_users.py`, `scripts/update_users.py`, `gateway.py`) | token file, table and signature in memory | add, rotate, remove, load, reload | reloads with old signatures; replacement between load and signing; unreadable file | a request is answered from a table as new as the file it has seen | `TokenStore` |
| sharded catalog (`catalog.py`) | catalog.json, current.json and version files; signatures and two LRU caches in memory | publish, migrate, select, resolve references | publisher dies between files; signature, lock, read and store of a loader are apart | answers are current, whole and one content per version | `Catalog` |
| derived tables (`derived.py`, `parquet_inspect.py`, `gateway.py`) | LRU of inspected files and of named entries | scan, manifest, transfer | producers replace files in place at any time; restart forgets entries | a plan reads the version it is bound to | `PinnedFiles` |
| local cache (`cache.py`, `service.py`, `client.py`) | SQLite rows, object files, fill lock | plan, download, publish, select, serve | crash between moves and commit; several processes; files deleted | buckets are whole, requests serve the version they were promised | `CacheFill` |
| gateway client (`client.py`, `selective.py`) | LIFO pool, state of each HTTP connection | request, retry, give up | errors in every phase; a connection goes back in any state | no connection lost, no object twice, everything ends | `GatewayClient` |
| direct streams (`client.py`) | producer thread, bounded queue, stop event, its connection | produce, consume, stop early, retry | consumer stops while the producer blocks or waits for the network; the join gives up | every object once and in order, everybody ends | `DirectStream` |
| Arrow pipe (`service.py`) | pipe, writer thread, errors | write, read, stop early | error in mid-stream, reader goes away | no end marker after an error | `ArrowStream` |
| bundle downloads (`client.py`) | partial files, published buckets | download, publish bucket by bucket, retry | publication fails half-way, retries begin again at a bucket | whole buckets, nothing twice | `GatewayClient` (kind `cache`), `CacheFill` |
| admission of reads (`service.py`) | slots, memory gate, fill lock, pool | acquire in turn, release, time out | resources held by suspended generators | no deadlock, capacity respected | `ReadAdmission` |
| range planning, footers and sparse files (`selective.py`, `range_gateway.py`) | two footer caches, sparse buffers | prune, coalesce, split, bundle, validate, decode | boundaries, overlaps, byte accounting | the answer is that of a full scan | `RangePlan`, `FooterCaches`, `SelectiveRead` |
| flow_points (`points.py`) | LRU of entries, receipts on disk | load with receipt, select, transfer | receipt and file are replaced apart | a plan is for one file | `PinnedFiles` (store `points`) |
| HTTP handlers and bundle framing (`gateway.py`, `protocol.py`) | flags of a handler | route, frame, fail | error after the status is sent | truncation is visible | in part: the gateway modules |
| table publication (`publish.py`, `tools/`) | table.json, editions, lock file | publish | publisher dies between rename and replace | table.json names what exists | not modelled (section 6) |
| SDK, CLI, local API, installation, benchmarks, release tools | none that interacts | | | | not modelled (section 6) |

`PROJECT.json` lists every component with its status, and every hazard with the line where
it bites and the properties that would catch it.

## 2. The modules

**`FairStreamScheduler`** is `scheduler.py` under its lock. `acquire` is `Acquire`, then one
pass of `_schedule_locked` (`Rotate` and `Grant`, one iteration of its loops per step),
`ReturnLease` or `Sleep`, `Wake`, and `GiveUp`/`RaiseTimeout` if the deadline (`Expire`) has
passed; `release` is `Release`, the pass, `ReturnRelease`. `pc` says where each thread is; a
thread whose `pc` is a scheduling place holds the lock. A rejected `acquire` (a queue limit)
changes nothing and is the guard of `Acquire`; `snapshot` only reads. Waiters are threads, so
two waiters are never equal. In the code two records of one user with the same clock stamp
compare equal, and `values.remove` (`scheduler.py:105`) takes the first; the model assumes that stamps differ. While modelling it we noticed that the passes after a timeout
and after a wake-up, and the notification inside `_schedule_locked`, are never what a waiter
depends on.
**`StreamAdmission`** is what it promises, without queues, lock or condition: requests are
pending, admitted if a stream is free and the share allows it, given up or ended.
**`FairShare`** adds a history (`passed`: who was served while whom waits) for the order.

**`TokenStore`** has the commands (`Read` the table, decide with `Wanted`, `Replace` or
`Abort`), an editor (`EditByHand`, external) that makes the file invalid or valid, the start
of the gateway (`LoadAtStart`, then `SignAtStart`, which takes the signature of whatever file
is there by then) and `authenticate` in each handler: `Begin` takes the signature,
`UseTable` or `Reload` under the lock, `LeaveSignature` and `FailClosed` on an unreadable file.
A token is a number; the comparison of secrets and the form of names are data.

**`Catalog`** gives every write of a file a fresh stamp, which stands for its signature.
`replace_partition` is `Start`, `CheckVersion`, `WriteShard`, `WritePointer`, `WriteIndex`, and
may die between any two; the migration likewise. A handler refreshes the index and loads
the pointer and the version file of each partition by one protocol, written once for both
levels: `Stat`, lookup under the lock (`Hit`, `Miss`), `Open` without it, `Store` under it.

**`PinnedFiles`** follows one daily file whose content is numbered by generation, in one of
two stores. `DerivedStore`: a scan is `Stat`, `Lookup`, `InspectFooter`, `InspectSize`,
`StoreInfo`, `Register`, each a separate look at a file that `Replace` (external: an atomic
replacement by a producer) may change in between. `PointsStore`: `Stat`, `ReadReceipt`,
`Recheck`, `Register`, beside `ReplaceReceipt`; of the file and its receipt either may be new
first. A transfer is `Find` (with one rescan), `Select`, `Materialize`, `CheckSize`, the
wait for a stream, `Send`. `Restart` (external) empties the memory of the gateway, not what
clients hold (`issued`). Signatures are assumed unique per generation.

**`CacheFill`** is a request in cache mode: `Plan`, `StartFill` (the fill lock, and the
comparison with the cache under it), `Download`, `Move` per object, `Commit`, `Select`, `Finish`,
with `Fail` and `Crash` anywhere. `plan()` reads the database in several statements and is one
step here, under the fill lock of its process. The pool, the memory gate and the retries of
a download are left out.

**`GatewayClient`** has the pool, `_response` (with its own single repetition), the body, and
`NetworkError`, where the five kinds of requests differ: `manifest` does not retry,
`load_metadata` and `_fetch_plans` retry through the pool, the producer of
`iter_remote_batches` and `fetch_cache_objects` retry on the connection that they hold, after closing it;
the last one publishes each bucket as its last object arrives (`BucketEnds`) and begins again at the
first bucket that is not published (`Kept`). The state of
`http.client` is external: closed, idle, or sent, and it begins no request in the last.
Objects of a request come in one response; their grouping is left out.

**`DirectStream`** is `iter_remote_batches` with its producer thread. A producer goes through
`Check`, `Send`, `AnswerBegins`, `Receive`, `Put` for each object and `EndOfBody`; what goes wrong
(`NoAnswer`, `Refused`, `BreaksOff`, `IsCutOff`, `FindsItBusy`) ends in `AfterError`, the handler of
`BaseException`: the end, another request for what is missing, or the exception. The generator
takes from the queue (`GetObject`, `GetEnd`), is suspended at each yield (`Resume`,
`CloseEarly`) and ends in its `finally` clause: `Stop`, `CloseConnection`, then `Join` or, after 5
seconds, `JoinTimesOut`; both give the connection to the next stream. `link` follows the
`HTTPConnection` of each connection, since an old producer may still use it: a request sent while
another body is read fails (`FindsItBusy`) and leaves the link `crossed`, unable to send once the body has ended.
**`ArrowStream`** adds who consumes: the program itself, or the writer thread of
`_arrow_ipc_pipe` (`WriteBatch`, `BrokenPipe`, `WriteEndMarker`, `CloseWithoutMarker`, `NoteError`) and
the reader of its pipe (`ReadChunk`, `ReadEnd`, `ReaderStops`).

**`ReadAdmission`** gives every request a script of what it takes and in which order (`Direct`,
`Selective`, `ReadCache`, `Fill`, from `preflight`, `batches` and `iter_selective_batches`): pool
connections, the fill lock, a slot, its share of the memory. `GetSlot` and `TakeMemory` may time out,
`Sleep` is the condition of the memory gate, `Fail` may happen wherever something is held, and `Unwind` gives
back, innermost first. `Rejected` is a request whose claim is refused before it takes anything.

**`RangePlan`** has the pure part of selective reads as operators: `PlanObject` (pruning by
statistics, the column chunks, coalescing, ranges or the whole file), `SplitPointsPlan`, the
validation of ranges by the gateway, the sparse view of what has arrived (`CanRead`) and the
exact filter (`RowsOf`). **`FooterCaches`** has the two LRU caches with their byte counts.
**`SelectiveRead`** runs a request through them window by window: look up footers, ask the gateway for
the missing ones, plan, bundle, fetch, decode. `OtherLooks`, `OtherStores`, `OtherAsks` and
`OtherReads` are the other requests at the same caches, between any two steps.

The `MC` modules give names to the model values of the runs, values to structured constants,
and the symmetry sets.

## 3. The runs

| run | asks | instance |
|---|---|---|
| `scheduler` | bookkeeping, `NoEligibleWaiter`, `NoLostWakeup`, `WorkConserving`, the order (`ServedOncePerTurn`), liveness (`WaiterIsServed`, `LeaseReachesHolder`, `AcquireEnds`), and that the scheduler implements `StreamAdmission` | 2 streams (the default), 3 users with 2, 1 and 1 threads, at most 2 waiters of a user |
| `token_reload` | `StaleOnlySinceStart` | 2 users, 3 handlers, 1 command at a time, 4 versions of the file, 2 issued tokens |
| `token_start` | fails: `AnsweredFromCurrentFile` | 2 users, 2 handlers, 3 versions of the file |
| `catalog` | `AnswerIsCurrent`, `NothingMissing`, `OneContentPerVersion`, `MigrationChangesNothing` | two instances: 1 partition, 2 versions, a second content for one, 2 handlers, 4 writes; 2 partitions migrated from the old format and then published to, 1 handler at a time, 9 writes; caches of one entry |
| `cache_fill` | `BucketIsWhole`, `ServesItsManifest`, `DeletedFilesAreFetched`, `FillsAreNeeded` | a bucket of 2 objects, 3 threads in 2 processes, 2 versions, 1 lost file |
| `pinned_plans` | `AdmittedPlansAreWhole`, `CurrentPlanIsServed` | both stores, 3 generations, the second as large as the first, the third larger; 2 handlers, capacity 2, 1 restart |
| `pinned_queue` | fails: `PinnedVersion` | both stores, 2 generations, 1 handler |
| `client_pool` | `EveryConnectionOnce`, `EachObjectOnce`, `RequestsEnd` | 2 threads, 2 connections, all five kinds, 3 objects in buckets that end at 1 and 3, 1 retry |
| `client_retry` | fails: `RetriesUntilSpent` | 1 thread, 1 connection, range requests for 2 objects, 2 retries |
| `direct_stream` | `ObjectsInOrder`, `SuccessIsWhole`, `TroubleOnlyFromLateProducers`, `StreamsEnd` | a plain and a piped stream that share 1 connection, 2 objects in requests of at most 2, a queue and a pipe of 1, 1 retry |
| `read_admission` | `NothingLeaks`, `NobodySleepsBesideEnough`, `RequestsEnd` | 3 threads, 2 slots, 2 units of memory, 1 connection; a direct, a selective, a cached and a filling request, of 1, 2, 1 and 3 units |
| `selective_read` | `StrategyChangesNothing`, `DecoderFindsItsBytes`, `RequestsAreAcceptable`, `FootersAccounted` | 3 files, 2 listings, 288 requests with 2 sets of options, windows of 2 objects, at most 3 ranges, caches of 4 and 2 bytes |

Type invariants are checked by `token_reload`, `catalog`, `pinned_plans` and `direct_stream`; that of
the scheduler is proved. `scheduler` checks `StreamAdmission` as a property, with liveness, in
the same instance. Deadlock is checked everywhere but in the two token runs, where
the bounds on replacements and tokens end the behaviours, and in `direct_stream`, where
finished streams stop.

Why the bounds are enough. The scheduler's rule distinguishes no participant, one and more;
three users make a rotation with something in the middle, and a user with two threads
queues behind itself and borrows. The queue limits are not reached in the runs (they only
forbid `Acquire`, and the theorems cover every limit). In `Catalog` a cache of one entry makes
every eviction happen; a stale entry needs one write between two looks of one handler, a
dead publisher two more, and the migration of two partitions five of its nine writes. The
constraint `Small` of `MCCatalog` tells its two instances apart by the format they begin in.
`PinnedFiles` needs one replacement to mix two files and a second to overtake a scan; its `Capacity`
holds what two handlers have in flight: with less, `CurrentPlanIsServed` fails. The code's
capacity is 8192 (4096 for points), which the entries of all files share; the model has one file. In `CacheFill` a bucket of two objects can be half moved, and of three
threads two share a fill lock that the third does not know. In `GatewayClient` three objects are
the least that allow progress before an error, which restores the budget, both in a first bucket and
within a second one that has to begin again. In `DirectStream` a producer blocks on a queue of one
with the second object, a request of two objects can break off between them, and one
connection is what a late producer and its successor meet on; the constraint `PlainFirst` lets
the plain stream begin first, as a stream that waits for the connection does nothing. In
`ReadAdmission` the largest request needs more than the limit and gets all of it (`Weight`), two slots let one request hold memory
that another waits for, and one connection makes every wait for the pool happen. In
`SelectiveRead` the three files have holes between columns, row groups without statistics and
columns out of order, the gap is 0 or 1, and the client's cache holds some but never all of the footers.

What fails, and why it is a finding:

* `token_start`: `main` reads the token file, and `GatewayState` signs what is there later; a
  removal in between is not seen until the file changes again. `StaleOnlySinceStart` shows it is
  the only stale answer.
* `pinned_queue`: the signature is compared before the wait for a stream and the path opened
  after it; a file replaced meanwhile is sent under the header of the old one.
  `AdmittedPlansAreWhole` shows that everything before the wait is sound.
* `client_retry`: after a refused connection or a timeout `_response` does not close, and the
  retry meets `CannotSendRequest` on the same connection, which is not retried; so does every
  later request that gets the connection from the pool. Only direct batches and cache
  downloads close before they retry.

Limits that the properties name instead of hiding:

* Two processes over one cache directory are not ordered by the fill lock, so a request may serve a
  version that another process has just published (`Foreign` in `ServesItsManifest`).
* Two publishers of one version at the same time, or two administration commands, overwrite
  each other, since neither `replace_partition` nor the scripts take a lock. `catalog` has one
  publisher at a time, as `tools/build_test_dataset.py` ensures with a lock of its own, and
  `token_reload` one command.
* `WorkConserving` is a property of the default of two streams: `_eligible_locked` never lends a second
  stream to one of two participants, so with three streams the third can be idle while both queue.
* A producer that outlives the 5 seconds of its join can disturb the stream that gets its
  connection next: `TroubleOnlyFromLateProducers` says that nothing else can, and
  `ObjectsInOrder` and `StreamsEnd` hold all the same.
* A thread that interleaves more direct streams than the pool has connections waits for itself. In the
  models a thread makes one request at a time.
* One row group of a daily file that needs more ranges than `MAX_OBJECT_RANGES` is refused by the
  gateway (`RequestsAreAcceptable`).

## 4. Fairness

* `LockFairness` (scheduler): a thread that holds the lock goes on (weak fairness), and a
  woken thread gets the lock at last (strong fairness: it competes with others for a lock that
  is free again and again, and Python's locks starve nobody for ever).
* `StreamsEnd`: a stream is released; the handler writes to a socket with a timeout of 60 s
  (`gateway.py:254`) and releases in a `finally`. Strong, because the lock must be free.
* `TimePasses`: deadlines come. `WaiterIsServed` assumes only the first two, `AcquireEnds` only the first and the last,
  `LeaseReachesHolder` only the first.
* `GatewayClient!FairSpec`: every wait for the network ends, by an answer, an error or the socket
  timeout of 300 s (`client.py:112`), and a thread blocked in `queue.get` is not passed for ever
  (waiters of a condition are woken in their order). The consumer of a stream goes on reading.
* `ArrowStream!FairSpec`: weak fairness of each producer thread, of each consumer (the program or the writer
  of a pipe) and of each reader of a pipe: the network answers, breaks off or times out, and consumers go on or
  close what they read. A `Put` that finds no room needs no fairness of its own, since it waits for the
  consumer or finds the event set. Of two streams that want one connection the second
  gets it when the first has closed.
* `ReadAdmission!FairSpec`: strong fairness of each request (`Runs`: connections, lock and
  slots are given in turn and not withheld for ever from one who waits) and weak fairness of `Expire`, the 300 s
  of the gate. Suspended generators are resumed or closed.

The other modules state no liveness: their clients may stop at any time.

## 5. The proofs

TLAPS proves the following for every value of the constants, from the assumptions named in
the modules (`ThreadsAssumption` and its kind: finite sets of threads, limits that are natural
numbers).

* `SchedulerProofs`: `TypeCorrect`, `AccountingCorrect`, `QueuesCorrect`, `RotationCorrect`,
  `NobodyEligibleWaits`, `WakeupsReachWaiters`. Type correctness needs that the scan stays within the rotation
  (`TypeInv`), since `Head(rotation)` must exist. The counters need the queues and the rotation to
  be exact, for a grant takes the head of a queue that must be a thread not yet served.
  `NobodyEligibleWaits` needs a stronger invariant over a pass in progress: the users already
  skipped in this scan are not eligible, and still will not be after the rest is rotated.
  Also there: every step of the scheduler is a step of `StreamAdmission` or leaves its
  variables alone (`Refinement`), and a second stream goes to a sole participant only
  (`SecondStreamOnlyAlone`). `TwoStreamsNeverIdle` (`WorkConserving`) assumes `MaxStreams <= 2`, the
  default being 2: with one stream out, its user is the only one that the rule does not serve, so whoever
  else waited would be eligible.
  With `FairShare`: a user that was served stands behind everyone it passed
  (`PassedUsersStandBehind`), whence nobody is passed twice (`PassedAtMostOnce`).
* `TokenProofs`: `TokenTypesCorrect`, and `ReloadsAreCurrent` (`StaleOnlySinceStart`): a table is always at least as new as
  the signature filed with it, except for the table of the start under the signature of the start.
* `CatalogProofs`: `CatalogTypes`, `AnswersAreCurrent` (`AnswerIsCurrent`), `NoRequestFails`
  (`NothingMissing`) and `MigrationIsInvisible` (`MigrationChangesNothing`). Stamps are given in
  order, and a cache holds a pointer under the stamp of the file that it was read from (`CachedPointers`),
  so a hit under the stamp that a request has seen is at least as new as the request (`Fresh`). The invariant has a part about the files, the writers, the caches and each
  request, at its step; a pointer, cached or not, names a version that exists. Files come and grow
  and none goes (`Grown`), hence what is true of a request stays true whatever others
  write; in format v1 nothing is written but by the migration, and only what it copies (`Untouched`).
  `VersionsKeepTheirContent` (`OneContentPerVersion`) assumes `OnePublisher`, which the limits above
  explain: a publisher looks whether the version is there, and writes it later. Its invariant
  `Contented` says that no publisher is about to overwrite, and that all that caches, requests and
  answers have of a version is what its file holds.
* `CacheProofs`: `BucketsAreWhole` and `WholeBucketsAreServed`. `BucketIsWhole` is not inductive: a commit lists
  what its thread has moved, so the invariant says that these files are in place, or were
  deleted, as long as it moves. `ManifestsAreServed` (`ServesItsManifest`) and `NoFillInVain`
  (`FillsAreNeeded`) follow from `FillInv`: of the threads of a process only the holder of its fill
  lock changes what is published, so what it has found under the lock, and what it has published
  itself, is still there when it goes on, unless another process came between. `DeletedAreFetched`
  (`DeletedFilesAreFetched`) adds that what it found or moved keeps its files, unless one is deleted
  while it fills (`robbed`, a history field). `ServesWholeBuckets` is proved and has no run.
* `PinnedProofs`: `PinnedTypes`, and `PlansAreWhole` (`AdmittedPlansAreWhole`). The file only moves forward, and a scan takes
  the signature first, so that whatever an entry joins is in order of age: signature, rows, bytes,
  the file in place. An entry whose signature is that of the file is therefore of one file.
  The invariant says so of the tables, of what clients hold and of each handler's record at its step.
  `CurrentPlansAreServed` (`CurrentPlanIsServed`) assumes that the table has room for one entry
  of each handler (`RoomForAll`). Once the entry of the file in place is registered, only handlers that
  began to scan an older file can push it back, each of them by one place and once, and no new ones
  begin: the places behind it and those handlers together stay fewer than all handlers (`Retained`),
  so it is not pushed out before a newer file makes it void. And what a transfer finds when it scans again is
  at least as new as what it wants (`Chases`).
* `StreamProofs`: `StreamsInOrder` (`ObjectsInOrder`) and `MarkedStreamsAreWhole`
  (`SuccessIsWhole`). As long as a consumer reads, what it has and what is in its queue are
  exactly what its producer has handed over, however often the request was repeated, and the
  end follows the last object or an error; once it has stopped nothing is claimed of the queue.
  Nothing of the connection is needed for that: no other stream can break the order.
  `StreamTypesCorrect` (`TypeOK`) and `TroubleIsForeign` (`TroubleOnlyFromLateProducers`) need a second
  invariant, `LinkInv`: a connection is in the pool or with one stream; as long as no producer was late, the
  producer of a closed stream has ended, and a request that is under way on a connection is that
  of the stream that has it. So no running stream finds its connection busy or is cut off.
* `ClientProofs`: `ConnectionsAreKept` (`EveryConnectionOnce`) and `ObjectsArriveOnce`
  (`EachObjectOnce`). A thread has a connection exactly while it is between taking and giving back; the
  queue and the connections of the threads together are all of them, each once. While a request is in
  progress, its first object and the number it has brought point just behind what has been received,
  which is why what it keeps after an error (whole buckets in a cache download, everything otherwise)
  is continued without a gap. What state a connection is in is not used.
* `AdmissionProofs`: `ReadsLeakNothing` (`NothingLeaks`) and `SleepersNeedMore`
  (`NobodySleepsBesideEnough`), for any requests whose scripts are balanced (`PlansAssumption`: a script gets what it does
  not hold, puts what it holds and ends with nothing). The invariant says that a running request
  holds what its script has got and not put before its step (`HeldBefore`), and that one that
  unwinds still holds something; the memory that requests hold is counted as a set of units
  (`Units`), so that the theorems about finite sets apply. A sleeper that was not woken needs more
  than there is, because memory only grows where all are notified. `SomebodyGoesOn`
  (`NobodyIsStuck`) is the absence of a circle: if scripts get what they hold in one order, the lock, a slot,
  memory, a connection (`InOrder`), then whoever waits for something waits for one that holds it and
  waits, if at all, for something later; so somebody can go on, without any time-out. `ScriptsFit`
  shows that the four scripts of `DataService` are balanced and in order, composing what
  their parts make of what is held (`Leads`), and `ServiceGoesOn` joins the two. It is a statement about
  the requests: a consumer that never goes on keeps what its generator holds, and a thread that
  interleaves more direct streams than there are connections waits for itself.

`PassedStandBehind`, `SharedMeansOne` and `TypeOK` of the scheduler and `NobodyIsStuck` of the admission
of reads are proved only, not run. Only model-checked:

* liveness, under fairness, which is out of the prover's reach;
* `SelectiveRead` with `RangePlan` and `FooterCaches`: their operators are folds over sequences, compared
  with reference definitions on bounded inputs.

## 6. Not modelled

* SDK, CLI and local HTTP API translate calls and keep no state that interacts; requests and
  calendars (`model.py`) are parsing and validation, their results are constants of the models. The
  installation scripts, benchmarks and release tools (`tools/build_test_dataset.py`, the longest of them) run once and alone.
* `publish.py`: one publisher at a time under a lock file renames an edition and replaces
  `table.json`; who reads it is outside of the gateway.
* `FooterStore`, the persistent store of footers behind the gateway's cache, is keyed by the
  identity of the file, so a miss is all that it can cause; it prunes every 128 puts only, with a count that
  begins anew at every start. Alignment to a declared schema is data.
* `parse_http_range` and whole-file transfers: a check of one header, and the same checks as a range
  transfer. The framing of bundles, JSON and the routing of the handlers are formatting.

What is worth doing next: compose `PinnedFiles` with `StreamAdmission`, so that the wait for a stream is the
scheduler's; state the plans of `RangePlan` without folds, so that they can be proved about; model `publish.py`.
