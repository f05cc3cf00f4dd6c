# TLA+ models of the Dragonfly2 client daemon's storage and file-task protocol

This directory holds TLA+ models of two parts of the Dragonfly2 peer daemon:

- the **storage manager** with its two-pass garbage collector and the reload after a restart (`src/unnamed/part_004`, package `storage`);
- the **file-task progress protocol** (`src/client/daemon/peer/peertask_file.go`), with the abstract `DownloadStream` it implements.

Each module has TLC configurations that check it. `PROJECT.json` lists the following, in machine-readable form:

- components, runs and mutants;
- the source lines each definition translates;
- the findings and the hazards.

## 1. The system

The spec (`spec.md`) names seven components. Only some of them have code in this source tree.

| Spec component | Code here | What it does |
|---|---|---|
| C1 Peer-task manager | – | Starts file/stream tasks and reuses completed stores. |
| C2 Peer-task conductor | – | Runs one download, publishes pieces, ends in Done or Fail. |
| C3 Piece manager | test only | Downloads pieces from peers or from the source. |
| C4 Piece broker | – | Fans piece events out to subscribers. Close sends a `finished` sentinel and shuts subscriber channels (spec §4.4). |
| C5 Storage manager | `src/unnamed/part_004` | Handles the per-(TaskID, PeerID) stores, the `tasks` map, the TaskID index, GC and reload. |
| C6 Scheduler client | `src/unnamed/part_003` (proto only) | Message definitions only. |
| File task | `peertask_file.go` | Turns conductor events into the caller's progress stream and stores the output. |

Of the generated RPC code (`dfdaemon.pb.go`) only the `DownResult` message matters here: the daemon's `Download` handler turns each file-task progress into a `DownResult{CompletedLength, Done}` streamed to dfget. The rest of that file is protobuf reflection code. Gomock mocks and the deployment/CI configuration hold no behaviour to check.

### Storage manager (C5): state and operations

**State:**

- `s.tasks`, a `sync.Map` from key to `*localTaskStore`;
- `s.indexTask2PeerTask`, from TaskID to a slice of stores, guarded by `indexRWMutex`;
- `s.markedReclaimTasks`, the marks of the last GC pass;
- the manager mutex taken by `RegisterTask`;
- on disk, `<dataRoot>/<TaskID>/<PeerID>/{metadata,data}`.

**Operations:**

- `RegisterTask` uses double-checked locking: `LoadTask`, then `Lock`, then `LoadTask` again, then `CreateTask`.
- `CreateTask` makes the directory, opens the files with `O_CREATE`, calls `tasks.Store`, then appends to the index.
- `WritePiece`, `ReadPiece`, `Store`, `GetPieces` and `UpdateTask` load a store by key and delegate to it.
- `FindCompletedTask` is the reuse fast path. It walks the index, touches each store and skips invalid, marked and unfinished ones.
- `TryGC` runs on a ticker and has four stages:
  1. Range over the tasks, marking expired stores.
  2. Check the byte quota and the disk-usage percentage.
  3. Mark the least recently accessed stores until the excess is covered.
  4. Reclaim the previous pass's marks (`Delete`, `cleanIndex`, `Reclaim`) and keep this pass's marks.
- `ReloadPersistentTask` runs at start-up. It loads every peer directory whose metadata parses and removes the others.
- `CleanUp`/`forceGC` runs at shutdown. It ranges over the map and, for each store, runs `Delete`, `cleanIndex`, `MarkReclaim` and `Reclaim`, logging Reclaim errors. It takes no lock that `TryGC` or the writers also take.

**Concurrency.** These actors run at once:

- peer-task goroutines, which register, write and complete;
- reuse readers, which run `FindCompletedTask` and then `Store`;
- the GC goroutine;
- a crash and restart at any point.

### File task: state and operations

`syncProgress` is one goroutine. It selects over:

- the conductor's `successCh` and `failCh`;
- `f.ctx.Done()`;
- the broker subscription `pieceCh`.

For each piece it sends a "downloading" progress on the **unbuffered** `progressCh`. On success it runs `storeToOutput` (`Store`, then a success or a fail progress). On failure it sends a fail progress.

After a final progress, the goroutine waits until either:

- `progressStopCh` closes (the caller's `DoneCallback`), or
- the context ends.

## 2. Modules

### `StorageGC.tla` (instantiated by `MC_StorageGC.tla`)

**Handles.** A store object is a handle `<<key, gen>>`. `gen` counts the objects created for a key, so a deleted object and its successor are told apart.

**Variables:**

| Variable | Models |
|---|---|
| `tasks` | key ↦ gen; `s.tasks` |
| `index` | TaskID ↦ sequence of handles; the index |
| `obj` | in-memory `done`, `invalid`, `reclaimMarked`, `lastAccess` |
| `disk` | per key: metadata absent, empty or ok; data file present; persisted Done and invalid |
| `markedReclaimTasks` | `s.markedReclaimTasks` |
| `lock` | the manager mutex |
| `wpc`, `rpc` | worker and reader program counters |
| `gc` | the locals of a running `TryGC` |

**Actions, following the code step by step:**

- `RegisterLoad`, `RegisterRecheck`, `CreateTaskStore`, `CreateTaskIndex`: `RegisterTask`/`CreateTask`, split where another goroutine can observe the intermediate state.
- `WritePiece` and `CompleteTask`: `storageManager.WritePiece` and `ValidateDigest`. Each loads the store by key and fails with `ErrTaskNotFound` when the map no longer has it.
- `FindCompletedTask` and `ReuseStore`: the reuse path.
- The GC steps:
  - `GCStart` and one `GCScanTask` per key of the first Range;
  - `GCQuota`: the second Range, the stable sort and the marking loop as one step, with every tie order of the sort enumerated;
  - `GCReclaimNext` (Delete), `GCCleanIndex`, `GCReclaimData`, `GCReclaimMeta` (the two halves of `Reclaim`), and `GCFinish`.
- `Restart`: memory is lost and `ReloadPersistentTask` runs. Peer directories are visited in `os.ReadDir` order.
- `Tick`: the GC ticker. One tick is one `gcInterval`.
- `GCReclaimFail`: `Reclaim` returns an error in `TryGC` (part_004:679). The key is already out of the map and the index, the files stay, and the loop continues. It is enabled only when the constant `ReclaimMayFail` is TRUE.
- `CleanUpStart` and the `ForceGC*` steps: `CleanUp`/`forceGC`, one step per call of its Range callback. `cu` holds the callback's locals and the keys the Range still has to visit. `ForceGCReclaimFail` is a `Reclaim` error there.
- `CreateTaskFail`: one of `CreateTask`'s error returns (part_004:326-383). `MkdirAll` or the metadata `OpenFile` fails, leaving at most the directory. Or a later step fails (the data `OpenFile`, the `Stat` of the destination directory, the link) after the metadata file was created. Nothing is removed, and `RegisterTask`'s deferred unlock runs. It is enabled only when `CreateMayFail` is TRUE.
- Once `CleanUp` has begun no peer task registers (the daemon is shutting down). `MaxCleanUps` bounds how often it runs.
- **When a key is registered.** `RegisterTask` has no guard on time. A PeerID names one peer task, whose goroutines register its store as it starts. With `LateRegister = FALSE`, registration happens at time 0. With `LateRegister = TRUE`, a key may be registered at any time, also after the collector dropped its earlier store (spec §4.5 allows `RegisterTask` on an absent key). That case is finding 8.
- `Tick` waits for a `RegisterTask` call in progress to end. This is a modelling assumption: the call does only a few file operations under the lock.

**Refinement.** `StoreLifecycle.tla` is the abstract promise of spec §4.6, with no files, locks or clock:

- a store is added under a key that has none;
- a live store may be marked;
- a finished pass hands its marks to the next one;
- a store is removed only if it is marked and its mark was handed over, or by `CleanUp` once it has begun;
- a restart keeps only what reload brings back, unmarked.

`StorageGC` maps to it with `INSTANCE StoreLifecycle WITH`:

- `live` is `DOMAIN tasks`;
- `marked` is the keys whose current store is `reclaimMarked`;
- `handed` is `s.markedReclaimTasks` between passes, and the reclaim queue still to be processed during the reclaim loop;
- `closing` is "CleanUp has begun".

`LifecycleSpec == Lifecycle!Spec` is checked as a temporal property.

**Modelled from the spec**, because the code is not in this tree:

- `localTaskStore.touch`, `CanReclaim` and `Reclaim`;
- the Done/invalid outcome of a peer task.

### `FileTask.tla`

The model has a set `FileTasks` of file tasks for one TaskID. All of them attach to one shared conductor (spec §4.1 step 3: "attach as an additional consumer"). `newFileTask` has three actions:

- `NewFileTask(f)`: `getPeerTaskConductor` returns the running conductor.
- `NewFileTaskErr(f)`: `getPeerTaskConductor` fails, and the handler ends the RPC with the error.
- `Subscribe(f)`: `broker.Subscribe()` and `Start`.

`Subscribe(f)` is a separate step (peertask_file.go:87 vs. :102) because the conductor can finish and close its broker in between. Such a late subscriber's queue holds only what is published after it subscribed, which may be nothing. Its channel is not among those Close shut (spec §4.4), so its loop must end through `successCh` or `failCh`.

All per-task state is a function over `FileTasks`.

**Variables:**

- `ft`: the `syncProgress` program counter, with the same branches as the code;
- `pg`: the message being sent;
- `stored`: the `Store` result;
- `ctxDone` and `stopClosed`;
- the conductor's `cstate`/`outcome`/`completed`;
- each subscriber's queue `pieceQ[f]`;
- `chClosed[f]`, set for the subscribers of the moment when the broker's Close shuts their channels;
- the caller's state, the `DownResult` stream dfget has received (`results`) and whether the RPC ended with an error (`rpcErr`).

The unbuffered send is a rendezvous: the `Deliver` action moves the message to the caller in one step.

**Modelled from spec §4.2, §4.4 and §6:**

- the conductor: publishes pieces; finishes; closes the broker before signalling; success only when every piece is done;
- the broker;
- the caller, the daemon's `Download` handler: reads progress, forwards each successful one to dfget as `ToDownResult(p)` (`results`), ends the RPC with an error on a failed one (`rpcErr`), calls `DoneCallback` on the final progress, or cancels.

**Refinement.** `DownloadStream.tla` states what each dfget caller is promised by its `Download` stream, with no goroutines or channels:

- the task's completed length only grows;
- the task settles once, and to success only with every piece;
- the reported lengths never go backwards and never run ahead of the task;
- `Done` comes once, with the whole length, and only after success;
- a stream ends with `Done`, with an error once the task has settled, or when the caller leaves;
- nothing is reported after the end.

`FileTask` maps to it with:

- `length <- completed`, `result <- outcome`, `stream <- results`;
- `ended[f]` is "the handler no longer reads".

`DownloadStreamSpec == Stream!Spec` is checked as a temporal property.

**Left out, because no state changes:**

- the empty `ctx.Done` case of the outer select. It is a busy loop, a stuttering step of the model. Weak fairness on `syncProgress` is not satisfied by stuttering. Go's `select` picks among ready cases at random, so the spin never starves a ready piece or signal. `SyncProgressReturns` therefore shows that the spin always ends: a piece or the conductor's signal always comes;
- the `progressStopCh` case of the piece send, which cannot be ready before a final progress.

## 3. Runs

| Run (cfg) | Expect | Checks | Shows |
|---|---|---|---|
| `StorageGC.cfg` | pass | `FilesOutliveIndex`, `NoStoreReplaced`, `LifecycleSpec` | Registration at start, writes, reuse and GC interleave safely. Double-checked locking keeps one store per key. Every key in the map and every index entry has its files, including an entry the map has just dropped: `cleanIndex` runs before `Reclaim`. The manager implements `StoreLifecycle`. |
| `StorageGC_cleanup.cfg` | pass | `CleanUpEmpties` | After `CleanUp` returns, the map, the index and the disk eventually become empty, even with TryGC and writers racing it. |
| `StorageGC_cleanup_race.cfg` | violation | `CleanUpLeavesNoFiles` | `CleanUp` can return with files still on disk (finding 5). |
| `StorageGC_faults.cfg` | pass | `FilesOutliveIndex`, `LifecycleSpec` | With `Reclaim` failing in `TryGC` and `forceGC`, and `CreateTask` failing part way, no store in the map or entry in the index loses its files, `forceGC`'s `cleanIndex` included, and the lifecycle still holds. |
| `StorageGC_leak.cfg` | violation | `NoLeakedFiles` | A failed `CreateTask` (finding 7) or a failed `Reclaim` (finding 6) leaks files for as long as the daemon runs. TLC reports the shorter `CreateTask` trace. With `CreateMayFail = FALSE` it reports the `Reclaim` one. |
| `StorageGC_recreate.cfg` | violation | `FilesOutliveIndex` | A key registered again between TryGC's `Delete` and `Reclaim` loses the new store's files (finding 8). |
| `StorageGC_live.cfg` | pass | `TypeOK`, `MarkedEventuallyReclaimed` | With a restart and registrations at any time, marks survive the hand-over between passes and every marked store is removed. Reload after a crash at any point rebuilds a well-formed map and index. |
| `StorageGC_grace.cfg` | violation | `GraceWindowHonoured` | A store read after being marked is still deleted (finding 1). |
| `StorageGC_usage.cfg` | violation | `UsageReclaimBounded` | Disk-usage GC marks every candidate (finding 2). |
| `StorageGC_crash.cfg` | violation | `FilesOutliveIndex` | A crash mid-`Reclaim` then reload indexes a store with no data (finding 3). |
| `FileTask.cfg` | pass | `TypeOK`, `SuccessMeansStored`, `CallerAnswered`, `SyncProgressReturns`, `DownloadStreamSpec` | Two file tasks share one conductor. Each dfget sees a `Done` DownResult only after its own `Store` succeeded, carrying the whole length, with no RPC error. A reading caller always gets a final progress, whatever the other caller does. Every goroutine returns, also after a spin on a done context or a subscription made after the broker closed. The streams implement `DownloadStream`. |
| `FileTask_nil.cfg` | violation | `NoNilPiece` | Once the broker closes the channel, `syncProgress` can read a nil piece (finding 4). |

Every property of a passing run has a mutant in `PROJECT.json`: a plausible bug in the mapped code that TLC shows breaks the property. Examples:

- dropping the locked re-check in `RegisterTask`;
- dropping `tasks.Delete` from `forceGC`, which breaks `CleanUpEmpties`;
- dropping `cleanIndex` from `TryGC` (`GCCleanIndex_Skip`) or from `forceGC` (`ForceGCCleanIndex_Skip`), which breaks `FilesOutliveIndex`;
- appending reloaded stores to the index before parsing their metadata, which breaks `TypeOK`;
- forgetting the marks at the end of a pass;
- returning without a fail progress on a `Store` error;
- waiting for `progressStopCh` without the `ctx.Done` case;
- handing the current pass's marks to the reclaim loop at once (`GCQuota_ReclaimNow`), which breaks `LifecycleSpec`;
- `sendFailProgress` building its progress with `Success: true` (`LoopFail_Success`), which breaks `DownloadStreamSpec`.

### Findings

1. **Grace window (spec divergence, part_004:667).** Marks are reclaimed at the next pass without re-checking `CanReclaim`. The grace window of spec §4.6 step 4 does not exist.
2. **Disk-usage bytes ×100 (part_004:734).** `(UsedPercent - threshold) * Total` is missing `/100`. In the trace, 6 of 10 bytes are used: 3 other bytes plus stores of 2 and 1 bytes. The threshold is 50%, so the excess is 1 byte, but `bs` is (60 - 50) * 10 = 100, and both stores are marked where the 1-byte store covers it.
3. **Reload trusts metadata (part_004:537).**
   - `Reclaim` deletes the data file, then the metadata file.
   - Reload never checks that the data file exists.
4. **Nil piece (peertask_file.go:130).** The receive from `pieceCh` ignores `ok`. Spec §4.4 says Close shuts the subscriber channels.
5. **CleanUp leaves files (spec divergence, part_004:705).** `forceGC` ranges only over keys still in `s.tasks`. A `TryGC` pass that has deleted a key and not yet reclaimed it is invisible to it, so `CleanUp` returns with that store's files on disk. Spec §8 property 7 says that after `CleanUp` the data root contains no files. `CleanUpEmpties` holds: the running pass removes them later, but not before `CleanUp` returns.
6. **Reclaim error leaks files (part_004:680).** A failed `Reclaim` in `TryGC` leaves the key in `markedTasks`. The next pass skips it because `s.tasks.Load` no longer finds it, so the files stay until a restart reloads the store. The code says `FIXME: retry later or push to queue`.
7. **CreateTask error leaks files (part_004:344).** `CreateTask` creates the peer directory and the metadata file, and a later step can then fail: the data `OpenFile`, the `Stat` of the destination directory, or the link. It returns the error without removing what it created. The key never entered `s.tasks`, so no collector pass sees it. The files stay until a restart's reload removes them, or until the same key is registered again. Under the advance strategy, the `.dfget.cache` file next to the destination also stays. The model does not track that file.
8. **Reclaim deletes a re-created store's files (part_004:679).** `TryGC` deletes the key from `s.tasks` (677) and cleans the index (678). Only then does `Reclaim` (679) remove the old store's files, by their path. If `RegisterTask` runs for the key in between, it finds no store. It creates a new one at the same path with `O_CREATE`, and `Reclaim` then deletes the new store's data and metadata while the store is in the map and a writer uses it. A PeerID normally names one peer task, so this needs that peer task to register again late. The `recreate` run shows it with `LateRegister = TRUE`.

### Bounds and why they suffice

**StorageGC:**

- One TaskID and two peers, so a task has two stores and `cleanIndex` must keep the other peer's entry.
- Three workers, two of which race to register the same key, plus one reuse reader.
- ContentLengths 2 and 1, with quota threshold 2, so the quota loop has to choose between stores.
- `TaskExpireTime = GCInterval = 1`, and the clock runs to `MaxTime = 2`. That is enough for a store to expire, be marked in one pass and be reclaimed in the next. After `MaxTime` the passes continue without the clock.
- `MaxGen = 2` allows a re-creation after a restart, and after a reclaim when `LateRegister` is TRUE (`_live`, `_recreate`).
- `MaxRestarts` is 0 or 1.
- The CleanUp and fault runs (`_cleanup`, `_cleanup_race`, `_faults`, `_leak`) use `TaskExpireTime = 0` and `MaxTime = 1`: a store expires as soon as it exists, so the first pass marks it and the second reclaims it. They also use two workers on different keys, with at most one reader, to stay within a few minutes. `MaxCleanUps = 1`, because `CleanUp` runs once at shutdown. `_cleanup_race` keeps three workers and a reader, which the race needs.
- Registration happens at time 0 (`LateRegister = FALSE`), as a peer task registers its store when it starts. The exceptions are `_live` and `_recreate`, which register at any time.

**FileTask:**

- Two pieces, enough to interleave piece progress with the finish.
- Two file tasks: one can attach late, miss pieces, cancel, or fail its `Store` while the other goes on.
- No symmetry set is used, because the run checks liveness.


### Fairness

- **StorageGC:**
  - weak fairness on the GC steps and on the clock, because the ticker keeps firing;
  - weak fairness on an in-progress `RegisterTask`, because it blocks only on a mutex every holder releases;
  - weak fairness on the steps of a running `forceGC`, a goroutine that never blocks;
  - no fairness for clients, which may stop.
- **FileTask:**
  - weak fairness on the conductor, which reaches Done or Fail (scheduler timeouts bound it);
  - weak fairness on each file task's `syncProgress`, a runnable goroutine;
  - weak fairness on `Subscribe`, the rest of `newFileTask`, which never blocks;
  - weak fairness on `DoneCallback`;
  - no fairness on cancellation or on a file task's creation.

## 4. Not modelled

- *Why* `Reclaim` fails is not modelled: its failure modes live in `localTaskStore`, which is not in this source. The model lets any call fail after the key has left the map, which is where the code's error handling begins.
- The `Download` handler's own code (including `Timeout` from `DownRequest`) is not in this source. The caller in `FileTask` follows spec §7 and is marked as modelled from the spec.
- `ReadPiece`, `ReadAllPieces`, `GetPieces` and `UpdateTask` only load a store through `LoadTask` and delegate to `localTaskStore`, which is not in this source. Their not-found path is the `ErrTaskNotFound` that `ReuseStore` models.
- `FileTask` is not composed with `StorageGC`. `storeToOutput`'s `Store` result is a free choice, which covers `ErrTaskNotFound` after GC reclaimed the store. The state spaces of the two models would multiply.
- The prefetch goroutine `newFileTask` starts for ranged requests (peertask_file.go:92-95) runs a separate peer task. Its code is not in this source.
- The fields of `DownRequest` (pb.go 41-176) only reach code that is not in this source:
  - the `Download` handler turns `Timeout` into the context deadline, which `Cancel` covers as a free choice;
  - `Limit` and `DisableBackSource` are read by the conductor and the piece manager.

  The rest of `dfdaemon.pb.go` is protobuf reflection and descriptor tables.
- A file task that returns on `ctx.Done` never unsubscribes, so the broker keeps queueing pieces for it until Close. By spec §4.4 that queue is unbounded and never blocks the publisher. The cost is memory bounded by the piece count, which no property of the protocol tells apart. It is listed as a hazard with a note.
- The scheduler protocol, the piece manager, generated code, mocks and configuration are not modelled: they are definitions or tests without behaviour here.
