------------------------------ MODULE StorageGC ------------------------------
(***************************************************************************)
(* The client daemon's storage manager (src/unnamed/part_004, package      *)
(* storage): the per-(TaskID, PeerID) task stores, the in-memory `tasks`   *)
(* map and `indexTask2PeerTask` index, the two-pass garbage collector      *)
(* TryGC, and the reload of persisted stores when the daemon restarts,     *)
(* together with the goroutines that use the manager concurrently with the *)
(* collector: peer-task workers that register, write and complete a store, *)
(* and readers that take the reuse fast path through FindCompletedTask.    *)
(*                                                                         *)
(* A store object (a *localTaskStore) is a handle <<key, gen>>: the key is *)
(* its (TaskID, PeerID), gen counts the objects ever created for that key, *)
(* so an object deleted from the map and a later object for the same key  *)
(* are told apart.  The files of a key live at one path (dataDir), shared  *)
(* by every object of that key.                                            *)
(***************************************************************************)
EXTENDS Integers, Sequences, SequencesExt, FiniteSets

CONSTANTS
    TaskIDs,                \* task ids
    PeerIDs,                \* peer ids
    PeerOrder,              \* PeerIDs in the order os.ReadDir lists them
    Workers,                \* goroutines of peer tasks that use a store
    WorkerKey,              \* the (TaskID, PeerID) each worker registers
    Readers,                \* goroutines taking the reuse fast path
    ContentLength,          \* ContentLength of each key's request
    TaskExpireTime,         \* storeOption.TaskExpireTime, in ticks
    GCInterval,             \* s.gcInterval, in ticks
    DiskGCThreshold,        \* storeOption.DiskGCThreshold, in bytes
    DiskGCThresholdPercent, \* storeOption.DiskGCThresholdPercent, 0..100
    DiskTotal,              \* usage.Total of the data path's file system
    OtherUsage,             \* bytes used on that file system by others
    MaxTime,                \* bound on the clock
    MaxGen,                 \* bound on objects created per key
    MaxRestarts,            \* bound on daemon restarts
    MaxCleanUps,            \* bound on CleanUp calls
    ReclaimMayFail,         \* whether localTaskStore.Reclaim may return an error
    CreateMayFail,          \* whether CreateTask's file operations may fail
    LateRegister            \* whether a key may be registered after time 0

Keys == TaskIDs \X PeerIDs
Handles == Keys \X (1..MaxGen)
NoHandle == <<<<"none", "none">>, 0>>

\* The persisted part of a store: its metadata file (absent, created empty
\* by CreateTask, or holding JSON), its data file, and the Done and invalid
\* flags recorded in the metadata.
DiskRec == [meta : {"none", "empty", "ok"}, data : BOOLEAN,
            done : BOOLEAN, invalid : BOOLEAN]
NoDir == [meta |-> "none", data |-> FALSE, done |-> FALSE, invalid |-> FALSE]

\* The in-memory fields of a *localTaskStore the manager reads.
StoreRec == [done : BOOLEAN, invalid : BOOLEAN, reclaimMarked : BOOLEAN,
             lastAccess : 0..MaxTime]

VARIABLES
    now,                \* the clock
    tasks,              \* s.tasks: key -> gen of the object stored for it
    index,              \* s.indexTask2PeerTask: TaskID -> Seq of handles
    obj,                \* every object created: handle -> StoreRec
    gen,                \* objects created so far per key
    disk,               \* the files under dataRoot/<TaskID>/<PeerID>
    markedReclaimTasks, \* s.markedReclaimTasks: keys marked by the last pass
    lock,               \* holder of the storageManager mutex
    wpc, whandle,       \* workers: program counter, store handed out
    rpc, rhandle,       \* readers: program counter, store found for reuse
    gc,                 \* the TryGC goroutine's locals, and whether its ticker is due
    restarts,
    cu,                 \* the CleanUp (forceGC) call's locals
    touchedAfterMark    \* history: objects accessed while reclaim-marked

vars == <<now, tasks, index, obj, gen, disk, markedReclaimTasks, lock, wpc,
          whandle, rpc, rhandle, gc, restarts, cu, touchedAfterMark>>

Live == {<<k, tasks[k]>> : k \in DOMAIN tasks}

Len_(h) == ContentLength[h[1]]

SumLen(s) == FoldLeft(LAMBDA acc, h : acc + Len_(h), 0, s)

\* localTaskStore.touch: lastAccess := now.  The history variable records
\* an access to an object that is already marked for reclaim.
Touch(hs) ==
    /\ obj' = [h \in DOMAIN obj |->
                 IF h \in hs THEN [obj[h] EXCEPT !.lastAccess = now]
                 ELSE obj[h]]
    /\ touchedAfterMark' = touchedAfterMark
                             \cup {h \in hs : obj[h].reclaimMarked}

\* localTaskStore.CanReclaim: last access plus expire time is before now.
CanReclaim(h) == obj[h].lastAccess + TaskExpireTime < now

TasksWithout(k) == [x \in DOMAIN tasks \ {k} |-> tasks[x]]

\* s.cleanIndex(taskID, peerID): drop every index entry of that peer.
CleanIndex(k) ==
    [index EXCEPT ![k[1]] = SelectSeq(@, LAMBDA h : h[1][2] # k[2])]

CUIdle == [pc |-> "idle", n |-> 0, toVisit |-> {}, visited |-> {}, cur |-> NoHandle]

Init ==
    /\ now = 0
    /\ tasks = [k \in {} |-> 1]
    /\ index = [t \in TaskIDs |-> <<>>]
    /\ obj = [h \in {} |-> [done |-> FALSE]]
    /\ gen = [k \in Keys |-> 0]
    /\ disk = [k \in Keys |-> NoDir]
    /\ markedReclaimTasks = <<>>
    /\ lock = "none"
    /\ wpc = [w \in Workers |-> "start"]
    /\ whandle = [w \in Workers |-> NoHandle]
    /\ rpc = [r \in Readers |-> "idle"]
    /\ rhandle = [r \in Readers |-> NoHandle]
    /\ gc = [pc |-> "idle", due |-> TRUE, toVisit |-> {}, visited |-> {}, marked |-> <<>>,
             notMarked |-> 0, used |-> 0, pending |-> <<>>, cur |-> NoHandle]
    /\ restarts = 0
    /\ cu = CUIdle
    /\ touchedAfterMark = {}

-----------------------------------------------------------------------------
(* RegisterTask: LoadTask, then under s.Lock LoadTask again, and only if   *)
(* the key is still absent CreateTask.                                     *)

gcVars == <<gc, markedReclaimTasks, cu>>
rVars == <<rpc, rhandle>>

\* The unlocked LoadTask: return the stored object if there is one.
\* RegisterTask itself has no guard.  The environment: a PeerID names one
\* peer task, whose goroutines register its store as it starts, which is
\* time 0 of the model -- unless LateRegister lets a key be registered at
\* any time, also after the collector dropped an earlier store of it (spec
\* 4.5 allows RegisterTask on an absent key).  The daemon starts no peer
\* task once CleanUp has begun (spec 8.7 presumes it).
RegisterLoad(w) ==
    LET k == WorkerKey[w] IN
    /\ wpc[w] = "start"
    /\ LateRegister \/ now = 0
    /\ cu.pc = "idle"
    /\ IF k \in DOMAIN tasks
         THEN /\ wpc' = [wpc EXCEPT ![w] = "run"]
              /\ whandle' = [whandle EXCEPT ![w] = <<k, tasks[k]>>]
         ELSE /\ wpc' = [wpc EXCEPT ![w] = "lock"]
              /\ UNCHANGED whandle
    /\ UNCHANGED <<now, tasks, index, obj, gen, disk, lock, restarts,
                   touchedAfterMark>>
    /\ UNCHANGED <<gcVars, rVars>>

\* Mutant: CreateTask without the second LoadTask under the lock.
RegisterRecheck_NoRecheck(w) ==
    /\ wpc[w] = "lock"
    /\ lock = "none"
    /\ wpc' = [wpc EXCEPT ![w] = "create"]
    /\ lock' = w
    /\ UNCHANGED <<now, tasks, index, obj, gen, disk, restarts,
                   touchedAfterMark, whandle>>
    /\ UNCHANGED <<gcVars, rVars>>

\* s.Lock(), then the second LoadTask; a hit unlocks and returns it.
RegisterRecheck(w) ==
    LET k == WorkerKey[w] IN
    /\ wpc[w] = "lock"
    /\ lock = "none"
    /\ IF k \in DOMAIN tasks
         THEN /\ wpc' = [wpc EXCEPT ![w] = "run"]
              /\ whandle' = [whandle EXCEPT ![w] = <<k, tasks[k]>>]
              /\ UNCHANGED lock
         ELSE /\ wpc' = [wpc EXCEPT ![w] = "create"]
              /\ lock' = w
              /\ UNCHANGED whandle
    /\ UNCHANGED <<now, tasks, index, obj, gen, disk, restarts,
                   touchedAfterMark>>
    /\ UNCHANGED <<gcVars, rVars>>

\* CreateTask up to s.tasks.Store: make the directory, touch, open (create)
\* the metadata file and the data file -- O_CREATE keeps whatever is
\* already there -- and store the new object under the key.
CreateTaskStore(w) ==
    LET k == WorkerKey[w]
        g == gen[k] + 1 IN
    /\ wpc[w] = "create"
    /\ g <= MaxGen
    /\ disk' = [disk EXCEPT ![k].meta = IF @ = "none" THEN "empty" ELSE @,
                            ![k].data = TRUE]
    /\ gen' = [gen EXCEPT ![k] = g]
    /\ obj' = obj @@ (<<k, g>> :> [done |-> FALSE, invalid |-> FALSE,
                                   reclaimMarked |-> FALSE, lastAccess |-> now])
    /\ tasks' = (k :> g) @@ tasks
    /\ wpc' = [wpc EXCEPT ![w] = "index"]
    /\ whandle' = [whandle EXCEPT ![w] = <<k, g>>]
    /\ UNCHANGED <<now, index, lock, restarts, touchedAfterMark>>
    /\ UNCHANGED <<gcVars, rVars>>

\* CreateTask returns an error: MkdirAll or the metadata OpenFile fails
\* with nothing on disk but the directory, or the data OpenFile, the
\* Stat of the destination directory or the link fails after the
\* metadata file was created.  Nothing it created is removed; the
\* object is dropped before s.tasks.Store, and RegisterTask's deferred
\* s.Unlock() runs.
CreateTaskFail(w) ==
    LET k == WorkerKey[w] IN
    /\ CreateMayFail
    /\ wpc[w] = "create"
    /\ \E metaCreated \in BOOLEAN :
         disk' = IF metaCreated
                   THEN [disk EXCEPT ![k].meta = IF @ = "none" THEN "empty" ELSE @]
                   ELSE disk
    /\ lock' = "none"
    /\ wpc' = [wpc EXCEPT ![w] = "failed"]
    /\ UNCHANGED <<now, tasks, index, obj, gen, whandle, restarts,
                   touchedAfterMark>>
    /\ UNCHANGED <<gcVars, rVars>>

\* The rest of CreateTask: append to the TaskID index; RegisterTask's
\* deferred s.Unlock().
CreateTaskIndex(w) ==
    LET k == WorkerKey[w] IN
    /\ wpc[w] = "index"
    /\ index' = [index EXCEPT ![k[1]] = Append(@, whandle[w])]
    /\ lock' = "none"
    /\ wpc' = [wpc EXCEPT ![w] = "run"]
    /\ UNCHANGED <<now, tasks, obj, gen, disk, whandle, restarts,
                   touchedAfterMark>>
    /\ UNCHANGED <<gcVars, rVars>>

\* storageManager.WritePiece: LoadTask by key, ErrTaskNotFound if the map
\* has no store for it, else the loaded store's WritePiece: touch, write
\* the data file, persist the metadata; it fails once the data file has
\* been removed.
WritePiece(w) ==
    LET k == whandle[w][1]
        h == <<k, tasks[k]>> IN
    /\ wpc[w] = "run"
    /\ IF k \in DOMAIN tasks /\ disk[k].data
         THEN /\ Touch({h})
              /\ disk' = [disk EXCEPT ![k] = [meta |-> "ok", data |-> TRUE,
                            done |-> obj[h].done, invalid |-> obj[h].invalid]]
              /\ UNCHANGED wpc
         ELSE /\ wpc' = [wpc EXCEPT ![w] = "failed"]
              /\ UNCHANGED <<obj, disk, touchedAfterMark>>
    /\ UNCHANGED <<now, tasks, index, gen, lock, whandle, restarts>>
    /\ UNCHANGED <<gcVars, rVars>>

\* The peer task finishes: storageManager.ValidateDigest loads the store by
\* key (ErrTaskNotFound if it is gone); the store is marked Done and the
\* digest check may mark it invalid; the metadata is saved.
CompleteTask(w) ==
    LET k == whandle[w][1]
        h == <<k, tasks[k]>> IN
    /\ wpc[w] = "run"
    /\ \E bad \in BOOLEAN :
         IF k \in DOMAIN tasks /\ disk[k].data
           THEN /\ obj' = [obj EXCEPT ![h] = [@ EXCEPT !.done = TRUE,
                                       !.invalid = bad, !.lastAccess = now]]
                /\ touchedAfterMark' = touchedAfterMark
                      \cup (IF obj[h].reclaimMarked THEN {h} ELSE {})
                /\ disk' = [disk EXCEPT ![k] = [meta |-> "ok", data |-> TRUE,
                                       done |-> TRUE, invalid |-> bad]]
                /\ wpc' = [wpc EXCEPT ![w] = "done"]
           ELSE /\ wpc' = [wpc EXCEPT ![w] = "failed"]
                /\ UNCHANGED <<obj, disk, touchedAfterMark>>
    /\ UNCHANGED <<now, tasks, index, gen, lock, whandle, restarts>>
    /\ UNCHANGED gcVars
    /\ UNCHANGED rVars

-----------------------------------------------------------------------------
(* The reuse fast path.                                                    *)

\* FindCompletedTask under the index read lock: walk the TaskID's entries,
\* skip invalid ones, touch the rest, skip marked and unfinished ones, and
\* return the first that is left.
Reusable(h) == ~obj[h].invalid /\ ~obj[h].reclaimMarked /\ obj[h].done

FindCompletedTask(r) ==
    /\ rpc[r] = "idle"
    /\ \E t \in TaskIDs :
         LET es == index[t]
             i == SelectInSeq(es, Reusable)
             seen == IF i = 0 THEN es ELSE SubSeq(es, 1, i)
         IN /\ Touch({seen[j] : j \in {j \in DOMAIN seen : ~obj[seen[j]].invalid}})
            /\ IF i = 0
                 THEN UNCHANGED <<rpc, rhandle>>
                 ELSE /\ rpc' = [rpc EXCEPT ![r] = "hold"]
                      /\ rhandle' = [rhandle EXCEPT ![r] = es[i]]
    /\ UNCHANGED <<now, tasks, index, gen, disk, lock, wpc, whandle,
                   restarts>>
    /\ UNCHANGED gcVars

\* The caller stores the reused task to its output: Store loads the store
\* by key and copies its data file; ErrTaskNotFound, or a failed copy,
\* sends the caller to a normal download.
ReuseStore(r) ==
    LET k == rhandle[r][1] IN
    /\ rpc[r] = "hold"
    /\ rpc' = [rpc EXCEPT ![r] = "idle"]
    /\ rhandle' = [rhandle EXCEPT ![r] = NoHandle]
    /\ IF k \in DOMAIN tasks
         THEN Touch({<<k, tasks[k]>>})
         ELSE UNCHANGED <<obj, touchedAfterMark>>
    /\ UNCHANGED <<now, tasks, index, gen, disk, lock, wpc, whandle, restarts>>
    /\ UNCHANGED gcVars

-----------------------------------------------------------------------------
(* TryGC.  A pass walks s.tasks (sync.Map.Range: every key present for    *)
(* the whole walk is visited, keys added meanwhile may be), marks the      *)
(* reclaimable stores, then under disk pressure marks the oldest idle      *)
(* stores, then reclaims the stores the PREVIOUS pass marked, and keeps    *)
(* this pass's marks for the next one.                                     *)

wVars == <<wpc, whandle, lock>>

\* The GC ticker fires once per gcInterval (one tick); past the clock's
\* bound the passes go on without the clock.
GCStart ==
    /\ gc.pc = "idle"
    /\ gc.due \/ now = MaxTime
    /\ gc' = [gc EXCEPT !.pc = "scan", !.due = FALSE, !.toVisit = DOMAIN tasks,
                        !.visited = {}, !.marked = <<>>, !.notMarked = 0]
    /\ UNCHANGED <<now, tasks, index, obj, gen, disk, markedReclaimTasks,
                   restarts, touchedAfterMark>>
    /\ UNCHANGED <<wVars, rVars, cu>>

\* One key of the first Range: MarkReclaim it if CanReclaim, else count
\* its ContentLength in totalNotMarkedSize.
GCScanTask ==
    /\ gc.pc = "scan"
    /\ \E k \in DOMAIN tasks \ gc.visited :
         LET h == <<k, tasks[k]>> IN
         IF CanReclaim(h)
           THEN /\ obj' = [obj EXCEPT ![h].reclaimMarked = TRUE]
                /\ gc' = [gc EXCEPT !.visited = @ \cup {k},
                                    !.marked = Append(@, k)]
           ELSE /\ gc' = [gc EXCEPT !.visited = @ \cup {k},
                                    !.notMarked = @ + ContentLength[k]]
                /\ UNCHANGED obj
    /\ UNCHANGED <<now, tasks, index, gen, disk, markedReclaimTasks,
                   restarts, touchedAfterMark>>
    /\ UNCHANGED <<wVars, rVars, cu>>

\* diskUsageExceed for `used` bytes in use: UsedPercent is 100*used/Total,
\* and the bytes to reclaim are (UsedPercent - threshold) * Total.
UsageExceed(used) ==
    /\ DiskGCThresholdPercent > 0
    /\ ~(used * 100 < DiskGCThresholdPercent * DiskTotal)

UsageBytesExceed(used) ==
    IF UsageExceed(used)
      THEN used * 100 - DiskGCThresholdPercent * DiskTotal
      ELSE 0

DiskUsed(other) ==
    other + MapThenSumSet(LAMBDA k : ContentLength[k], {k \in Keys : disk[k].data})

\* The second Range: stores not yet marked, except unfinished ones that
\* were accessed within the last gcInterval.
QuotaCandidates ==
    {h \in Live : /\ ~obj[h].reclaimMarked
                  /\ ~(~obj[h].done /\ now - obj[h].lastAccess < GCInterval)}

\* sort.SliceStable by lastAccess of a Range order (which is random).
SortedByAccess(S) ==
    {s \in SetToSeqs(S) :
        \A i, j \in DOMAIN s : i < j => obj[s[i]].lastAccess <= obj[s[j]].lastAccess}

\* The marking loop marks a store, subtracts its length, and stops once
\* bytesExceed <= 0: it marks the shortest prefix that covers the excess.
MarkedPrefix(s, bytes) ==
    LET i == SelectInSeq([j \in DOMAIN s |-> j],
                         LAMBDA j : bytes - SumLen(SubSeq(s, 1, j)) <= 0)
    IN IF i = 0 THEN s ELSE SubSeq(s, 1, i)

\* Mutant: the stores the quota loop marks are reclaimed in the same pass.
GCQuota_ReclaimNow ==
    /\ gc.pc = "scan"
    /\ (gc.toVisit \cap DOMAIN tasks) \subseteq gc.visited
    /\ \E other \in OtherUsage, order \in SortedByAccess(QuotaCandidates) :
         LET used == DiskUsed(other)
             quotaBytesExceed == gc.notMarked - DiskGCThreshold
             quotaExceed == DiskGCThreshold > 0 /\ quotaBytesExceed > 0
             bytesExceed == IF quotaBytesExceed > UsageBytesExceed(used)
                              THEN quotaBytesExceed ELSE UsageBytesExceed(used)
             chosen == IF quotaExceed \/ UsageExceed(used)
                         THEN MarkedPrefix(order, bytesExceed) ELSE <<>>
         IN /\ obj' = [h \in DOMAIN obj |->
                         IF h \in ToSet(chosen)
                           THEN [obj[h] EXCEPT !.reclaimMarked = TRUE]
                           ELSE obj[h]]
            /\ gc' = [gc EXCEPT !.pc = "reclaim", !.used = used,
                        !.marked = @ \o [j \in DOMAIN chosen |-> chosen[j][1]],
                        !.pending = markedReclaimTasks \o
                          [j \in DOMAIN chosen |-> chosen[j][1]]]
    /\ UNCHANGED <<now, tasks, index, gen, disk, markedReclaimTasks,
                   restarts, touchedAfterMark>>
    /\ UNCHANGED <<wVars, rVars, cu>>

\* End of the first Range (every key present throughout it visited), the
\* quota and disk-usage check and the oldest-first marking, then on to
\* the reclaim of the previous pass's marks.
GCQuota ==
    /\ gc.pc = "scan"
    /\ (gc.toVisit \cap DOMAIN tasks) \subseteq gc.visited
    /\ \E other \in OtherUsage, order \in SortedByAccess(QuotaCandidates) :
         LET used == DiskUsed(other)
             quotaBytesExceed == gc.notMarked - DiskGCThreshold
             quotaExceed == DiskGCThreshold > 0 /\ quotaBytesExceed > 0
             bytesExceed == IF quotaBytesExceed > UsageBytesExceed(used)
                              THEN quotaBytesExceed ELSE UsageBytesExceed(used)
             chosen == IF quotaExceed \/ UsageExceed(used)
                         THEN MarkedPrefix(order, bytesExceed) ELSE <<>>
         IN /\ obj' = [h \in DOMAIN obj |->
                         IF h \in ToSet(chosen)
                           THEN [obj[h] EXCEPT !.reclaimMarked = TRUE]
                           ELSE obj[h]]
            /\ gc' = [gc EXCEPT !.pc = "reclaim", !.used = used,
                        !.marked = @ \o [j \in DOMAIN chosen |-> chosen[j][1]],
                        !.pending = markedReclaimTasks]
    /\ UNCHANGED <<now, tasks, index, gen, disk, markedReclaimTasks,
                   restarts, touchedAfterMark>>
    /\ UNCHANGED <<wVars, rVars, cu>>

\* Next key of the previous pass's marks: skip it if no longer stored,
\* else s.tasks.Delete(key).
GCReclaimNext ==
    LET k == Head(gc.pending) IN
    /\ gc.pc = "reclaim"
    /\ gc.pending # <<>>
    /\ IF k \in DOMAIN tasks
         THEN /\ gc' = [gc EXCEPT !.pc = "clean", !.cur = <<k, tasks[k]>>]
              /\ tasks' = TasksWithout(k)
         ELSE /\ gc' = [gc EXCEPT !.pending = Tail(@)]
              /\ UNCHANGED tasks
    /\ UNCHANGED <<now, index, obj, gen, disk, markedReclaimTasks,
                   restarts, touchedAfterMark>>
    /\ UNCHANGED <<wVars, rVars, cu>>

\* Mutant: the reclaim loop without s.cleanIndex.
GCCleanIndex_Skip ==
    /\ gc.pc = "clean"
    /\ gc' = [gc EXCEPT !.pc = "data"]
    /\ UNCHANGED <<now, tasks, index, obj, gen, disk, markedReclaimTasks,
                   restarts, touchedAfterMark>>
    /\ UNCHANGED <<wVars, rVars, cu>>

\* s.cleanIndex(task.TaskID, task.PeerID) under the index write lock.
GCCleanIndex ==
    /\ gc.pc = "clean"
    /\ index' = CleanIndex(gc.cur[1])
    /\ gc' = [gc EXCEPT !.pc = "data"]
    /\ UNCHANGED <<now, tasks, obj, gen, disk, markedReclaimTasks,
                   restarts, touchedAfterMark>>
    /\ UNCHANGED <<wVars, rVars, cu>>

\* task.Reclaim(), first half: remove the data file.
GCReclaimData ==
    /\ gc.pc = "data"
    /\ disk' = [disk EXCEPT ![gc.cur[1]].data = FALSE]
    /\ gc' = [gc EXCEPT !.pc = "meta"]
    /\ UNCHANGED <<now, tasks, index, obj, gen, markedReclaimTasks,
                   restarts, touchedAfterMark>>
    /\ UNCHANGED <<wVars, rVars, cu>>

\* task.Reclaim() returns an error before removing anything: the loop
\* continues, the key stays in markedTasks, its files stay on disk.
GCReclaimFail ==
    /\ ReclaimMayFail
    /\ gc.pc = "data"
    /\ gc' = [gc EXCEPT !.pc = "reclaim", !.pending = Tail(@), !.cur = NoHandle]
    /\ UNCHANGED <<now, tasks, index, obj, gen, disk, markedReclaimTasks,
                   restarts, touchedAfterMark>>
    /\ UNCHANGED <<wVars, rVars, cu>>

\* task.Reclaim(), second half: remove the metadata and the directory;
\* then drop the key from this pass's marks.
GCReclaimMeta ==
    /\ gc.pc = "meta"
    /\ disk' = [disk EXCEPT ![gc.cur[1]] = NoDir]
    /\ gc' = [gc EXCEPT !.pc = "reclaim", !.pending = Tail(@),
                        !.marked = RemoveFirst(@, gc.cur[1]), !.cur = NoHandle]
    /\ UNCHANGED <<now, tasks, index, obj, gen, markedReclaimTasks,
                   restarts, touchedAfterMark>>
    /\ UNCHANGED <<wVars, rVars, cu>>

\* Mutant: the pass forgets its marks instead of keeping them.
GCFinish_DropMarks ==
    /\ gc.pc = "reclaim"
    /\ gc.pending = <<>>
    /\ markedReclaimTasks' = <<>>
    /\ gc' = [gc EXCEPT !.pc = "idle", !.toVisit = {}, !.visited = {},
                        !.marked = <<>>, !.notMarked = 0]
    /\ UNCHANGED <<now, tasks, index, obj, gen, disk, restarts,
                   touchedAfterMark>>
    /\ UNCHANGED <<wVars, rVars, cu>>

\* s.markedReclaimTasks = markedTasks.
GCFinish ==
    /\ gc.pc = "reclaim"
    /\ gc.pending = <<>>
    /\ markedReclaimTasks' = gc.marked
    /\ gc' = [gc EXCEPT !.pc = "idle", !.toVisit = {}, !.visited = {},
                        !.marked = <<>>, !.notMarked = 0]
    /\ UNCHANGED <<now, tasks, index, obj, gen, disk, restarts,
                   touchedAfterMark>>
    /\ UNCHANGED <<wVars, rVars, cu>>

GCStep == GCStart \/ GCScanTask \/ GCQuota \/ GCReclaimNext \/ GCCleanIndex
          \/ GCReclaimData \/ GCReclaimFail \/ GCReclaimMeta \/ GCFinish

-----------------------------------------------------------------------------
(* CleanUp: forceGC Ranges over s.tasks and, per key, Deletes it, cleans   *)
(* the index, marks and Reclaims the store, logging a Reclaim error.  It   *)
(* shares no lock with TryGC.  The daemon calls it at shutdown, once its   *)
(* peer tasks are registered and no new one starts.                        *)

cuOthers == <<now, gen, markedReclaimTasks, restarts, touchedAfterMark,
              gc, wVars, rVars>>

CleanUpStart ==
    /\ cu.pc = "idle"
    /\ cu.n < MaxCleanUps
    /\ \A w \in Workers : wpc[w] \notin {"lock", "create", "index"}
    /\ cu' = [cu EXCEPT !.pc = "range", !.n = @ + 1, !.toVisit = DOMAIN tasks,
                        !.visited = {}]
    /\ UNCHANGED <<tasks, index, obj, disk, cuOthers>>

\* Mutant: the Range callback without s.tasks.Delete(meta).
ForceGCNext_NoDelete ==
    /\ cu.pc = "range"
    /\ \E k \in DOMAIN tasks \ cu.visited :
         cu' = [cu EXCEPT !.pc = "clean", !.visited = @ \cup {k},
                          !.cur = <<k, tasks[k]>>]
    /\ UNCHANGED <<tasks, index, obj, disk, cuOthers>>

\* The next key of the Range: s.tasks.Delete(meta).
ForceGCNext ==
    /\ cu.pc = "range"
    /\ \E k \in DOMAIN tasks \ cu.visited :
         /\ tasks' = TasksWithout(k)
         /\ cu' = [cu EXCEPT !.pc = "clean", !.visited = @ \cup {k},
                             !.cur = <<k, tasks[k]>>]
    /\ UNCHANGED <<index, obj, disk, cuOthers>>

\* Mutant: the Range callback without s.cleanIndex.
ForceGCCleanIndex_Skip ==
    /\ cu.pc = "clean"
    /\ cu' = [cu EXCEPT !.pc = "data"]
    /\ UNCHANGED <<tasks, index, obj, disk, cuOthers>>

\* s.cleanIndex(meta.TaskID, meta.PeerID).
ForceGCCleanIndex ==
    /\ cu.pc = "clean"
    /\ index' = CleanIndex(cu.cur[1])
    /\ cu' = [cu EXCEPT !.pc = "data"]
    /\ UNCHANGED <<tasks, obj, disk, cuOthers>>

\* MarkReclaim, then Reclaim's first half: remove the data file.
ForceGCReclaimData ==
    /\ cu.pc = "data"
    /\ obj' = [obj EXCEPT ![cu.cur].reclaimMarked = TRUE]
    /\ disk' = [disk EXCEPT ![cu.cur[1]].data = FALSE]
    /\ cu' = [cu EXCEPT !.pc = "meta"]
    /\ UNCHANGED <<tasks, index, cuOthers>>

\* MarkReclaim, then a Reclaim error, logged; the Range goes on.
ForceGCReclaimFail ==
    /\ ReclaimMayFail
    /\ cu.pc = "data"
    /\ obj' = [obj EXCEPT ![cu.cur].reclaimMarked = TRUE]
    /\ cu' = [cu EXCEPT !.pc = "range", !.cur = NoHandle]
    /\ UNCHANGED <<tasks, index, disk, cuOthers>>

ForceGCReclaimMeta ==
    /\ cu.pc = "meta"
    /\ disk' = [disk EXCEPT ![cu.cur[1]] = NoDir]
    /\ cu' = [cu EXCEPT !.pc = "range", !.cur = NoHandle]
    /\ UNCHANGED <<tasks, index, obj, cuOthers>>

\* The Range ends once every key present throughout it was visited.
ForceGCEnd ==
    /\ cu.pc = "range"
    /\ (cu.toVisit \cap DOMAIN tasks) \subseteq cu.visited
    /\ cu' = [cu EXCEPT !.pc = "done"]
    /\ UNCHANGED <<tasks, index, obj, disk, cuOthers>>

ForceGCStep ==
    \/ ForceGCNext \/ ForceGCCleanIndex \/ ForceGCReclaimData
    \/ ForceGCReclaimFail \/ ForceGCReclaimMeta \/ ForceGCEnd

-----------------------------------------------------------------------------
(* A daemon crash and restart: memory is lost, NewStorageManager runs      *)
(* ReloadPersistentTask over what is on disk.                              *)

\* A peer directory loads when its metadata file parses; one that fails to
\* open or parse is removed with its data.
Loadable(k) == disk[k].meta = "ok"
HasDir(k) == disk[k] # NoDir

\* Mutant: the index is updated for every peer directory, before the
\* metadata is opened and parsed.
ReloadIndexEntries_BeforeParse(t, loaded) ==
    LET ps == SelectSeq(PeerOrder, LAMBDA p : HasDir(<<t, p>>)) IN
    [j \in DOMAIN ps |-> <<<<t, ps[j]>>, gen[<<t, ps[j]>>] + 1>>]

\* The index entries the reload appends for task t: the loaded peer
\* directories in the order os.ReadDir lists them.
ReloadIndexEntries(t, loaded) ==
    LET ps == SelectSeq(PeerOrder, LAMBDA p : <<t, p>> \in loaded) IN
    [j \in DOMAIN ps |-> <<<<t, ps[j]>>, gen[<<t, ps[j]>>] + 1>>]

Restart ==
    LET loaded == {k \in Keys : HasDir(k) /\ Loadable(k)}
        h(k) == <<k, gen[k] + 1>>
    IN
    /\ restarts < MaxRestarts
    /\ \A k \in loaded : gen[k] < MaxGen
    /\ restarts' = restarts + 1
    /\ gen' = [k \in Keys |-> IF k \in loaded THEN gen[k] + 1 ELSE gen[k]]
    /\ obj' = obj @@ [x \in {h(k) : k \in loaded} |->
                        [done |-> disk[x[1]].done, invalid |-> disk[x[1]].invalid,
                         reclaimMarked |-> FALSE, lastAccess |-> now]]
    /\ tasks' = [k \in loaded |-> gen[k] + 1]
    /\ index' = [t \in TaskIDs |-> ReloadIndexEntries(t, loaded)]
    /\ disk' = [k \in Keys |-> IF HasDir(k) /\ ~Loadable(k) THEN NoDir ELSE disk[k]]
    /\ markedReclaimTasks' = <<>>
    /\ lock' = "none"
    /\ wpc' = [w \in Workers |-> IF wpc[w] \in {"done", "failed"} THEN wpc[w] ELSE "dead"]
    /\ UNCHANGED whandle
    /\ rpc' = [r \in Readers |-> "idle"]
    /\ rhandle' = [r \in Readers |-> NoHandle]
    /\ gc' = [pc |-> "idle", due |-> TRUE, toVisit |-> {}, visited |-> {}, marked |-> <<>>,
              notMarked |-> 0, used |-> 0, pending |-> <<>>, cur |-> NoHandle]
    /\ cu' = [CUIdle EXCEPT !.n = cu.n]
    /\ UNCHANGED <<now, touchedAfterMark>>

\* A RegisterTask call does not span a tick (a gcInterval): a modelling
\* assumption, as the call does no I/O but two mkdir/open calls.
Tick ==
    /\ now < MaxTime
    /\ \A w \in Workers : wpc[w] \notin {"lock", "create", "index"}
    /\ now' = now + 1
    /\ gc' = [gc EXCEPT !.due = TRUE]
    /\ UNCHANGED <<tasks, index, obj, gen, disk, markedReclaimTasks, restarts,
                   touchedAfterMark>>
    /\ UNCHANGED <<markedReclaimTasks, wVars, rVars, cu>>

WorkerStep(w) ==
    \/ RegisterLoad(w) \/ RegisterRecheck(w) \/ CreateTaskStore(w)
    \/ CreateTaskFail(w) \/ CreateTaskIndex(w) \/ WritePiece(w) \/ CompleteTask(w)

ReaderStep(r) == FindCompletedTask(r) \/ ReuseStore(r)

Next ==
    \/ \E w \in Workers : WorkerStep(w)
    \/ \E r \in Readers : ReaderStep(r)
    \/ GCStep
    \/ CleanUpStart \/ ForceGCStep
    \/ Restart
    \/ Tick

\* A RegisterTask call in progress runs to its end (it blocks only on the
\* mutex, which every holder releases).
Registering(w) ==
    RegisterRecheck(w) \/ CreateTaskStore(w) \/ CreateTaskFail(w) \/ CreateTaskIndex(w)

\* The GC goroutine runs TryGC on its ticker for as long as the daemon
\* runs, and the clock advances; clients may otherwise stop at any point.
Spec == /\ Init /\ [][Next]_vars
        /\ WF_vars(GCStep) /\ WF_vars(Tick) /\ WF_vars(ForceGCStep)
        /\ \A w \in Workers : WF_vars(Registering(w))

-----------------------------------------------------------------------------
(* Properties.                                                             *)

TypeOK ==
    /\ now \in 0..MaxTime
    /\ DOMAIN tasks \subseteq Keys /\ \A k \in DOMAIN tasks : tasks[k] \in 1..gen[k]
    /\ index \in [TaskIDs -> Seq(Handles)]
    /\ DOMAIN obj \subseteq Handles /\ \A h \in DOMAIN obj : obj[h] \in StoreRec
    /\ \A t \in TaskIDs : \A j \in DOMAIN index[t] : index[t][j] \in DOMAIN obj
    /\ gen \in [Keys -> 0..MaxGen]
    /\ disk \in [Keys -> DiskRec]
    /\ markedReclaimTasks \in Seq(Keys)
    /\ lock \in Workers \cup {"none"}
    /\ wpc \in [Workers -> {"start", "lock", "create", "index", "run", "done",
                            "failed", "dead"}]
    /\ rpc \in [Readers -> {"idle", "hold"}]
    /\ gc.pc \in {"idle", "scan", "reclaim", "clean", "data", "meta"}

\* RegisterTask's double-checked locking: two goroutines registering the
\* same (TaskID, PeerID) share one store.  A store in s.tasks is never
\* replaced by another object for the same key while the daemon runs, so
\* no writer is left holding an object the manager no longer knows.
NoStoreReplaced ==
    [][restarts' = restarts =>
         \A k \in DOMAIN tasks \cap DOMAIN tasks' : tasks'[k] = tasks[k]]_vars

\* TryGC and forceGC remove a store's key from s.tasks and its entry from
\* the TaskID index (cleanIndex) before Reclaim deletes its files, and
\* reload indexes only what it parsed: every store LoadTask can return
\* (to WritePiece, Store, GetPieces) and every entry FindCompletedTask can
\* walk, including one whose key the map has just dropped, has its
\* metadata and data files on disk.
FilesOutliveIndex ==
    /\ \A k \in DOMAIN tasks : disk[k].data /\ disk[k].meta # "none"
    /\ \A t \in TaskIDs : \A j \in DOMAIN index[t] :
         LET k == index[t][j][1] IN disk[k].data /\ disk[k].meta # "none"

\* A store TryGC marks for reclaim is eventually removed from s.tasks:
\* the marks of one pass are handed to the next pass through
\* s.markedReclaimTasks and reclaimed there.
MarkedEventuallyReclaimed ==
    \A k \in Keys, g \in 1..MaxGen :
        (<<k, g>> \in Live /\ obj[<<k, g>>].reclaimMarked)
            ~> (<<k, g>> \notin Live)

\* Section 4.6 step 4: marks are kept for the next pass "giving an
\* actively-being-read store a grace window to be re-touched before
\* deletion" -- a store accessed after it was marked is not deleted.
GraceWindowHonoured == gc.cur \notin touchedAfterMark

\* Disk-usage GC reclaims what the usage exceeds the threshold by: the
\* stores the quota loop marks, less the last one, are fewer bytes than
\* max(totalNotMarkedSize - DiskGCThreshold,
\*     used - DiskGCThresholdPercent% of the disk).
UsageReclaimBounded ==
    [][gc.pc = "scan" /\ gc'.pc = "reclaim" =>
         LET new == {h \in DOMAIN obj : ~obj[h].reclaimMarked /\ obj'[h].reclaimMarked}
             need == Max({gc.notMarked - DiskGCThreshold,
                          (gc'.used * 100 - DiskGCThresholdPercent * DiskTotal) \div 100,
                          0})
         IN \A h \in new : MapThenSumSet(Len_, new \ {h}) <= need]_vars

-----------------------------------------------------------------------------
(* CleanUp and Reclaim errors.                                             *)

\* Spec section 8, property 7: after CleanUp the data root holds no files.
\* forceGC returns while a concurrent TryGC may still be between
\* s.tasks.Delete and the end of Reclaim for a key its Range skipped.
CleanUpLeavesNoFiles == cu.pc = "done" => \A k \in Keys : disk[k] = NoDir

\* Once forceGC has returned, the manager eventually holds no store, no
\* index entry and no file: every key is Deleted, unindexed and reclaimed
\* by forceGC or by the TryGC pass that had already taken it.
CleanUpEmpties ==
    (cu.pc = "done") ~>
        /\ DOMAIN tasks = {}
        /\ \A t \in TaskIDs : index[t] = <<>>
        /\ \A k \in Keys : disk[k] = NoDir

\* A peer directory on disk whose key is not in s.tasks is eventually
\* deleted while the daemon runs (or the key is registered again): when
\* TryGC's Reclaim fails the key stays in markedTasks for the next pass,
\* and a failed CreateTask leaves nothing behind for long.
NoLeakedFiles ==
    \A k \in Keys :
        (k \notin DOMAIN tasks /\ HasDir(k)) ~> (~HasDir(k) \/ k \in DOMAIN tasks)

-----------------------------------------------------------------------------
(* The manager implements the store lifecycle of StoreLifecycle.          *)

MarkedKeys == {k \in DOMAIN tasks : obj[<<k, tasks[k]>>].reclaimMarked}

\* The marks handed over by the last finished pass that the running pass
\* has not yet taken: its reclaim loop works through gc.pending.
HandedOver ==
    CASE gc.pc = "reclaim"                   -> ToSet(gc.pending)
      [] gc.pc \in {"clean", "data", "meta"} -> ToSet(Tail(gc.pending))
      [] OTHER                               -> ToSet(markedReclaimTasks)

Lifecycle == INSTANCE StoreLifecycle
                 WITH live <- DOMAIN tasks, marked <- MarkedKeys,
                      handed <- HandedOver, closing <- cu.pc # "idle"

\* Every step of the manager, the collector, CleanUp and reload is a step
\* of the store lifecycle: a store leaves s.tasks only when it is marked
\* and its mark was handed over by an earlier finished pass, or by
\* CleanUp.
LifecycleSpec == Lifecycle!Spec

=============================================================================
