\* Is the data root empty when forceGC returns?
SPECIFICATION Spec
CONSTANTS
    t1 = t1  p1 = p1  p2 = p2  w1 = w1  w2 = w2  w3 = w3  r1 = r1
    TaskIDs = {t1}
    PeerIDs = {p1, p2}
    PeerOrder <- MC_PeerOrder
    Workers = {w1, w2, w3}
    WorkerKey <- MC_WorkerKey
    Readers = {r1}
    ContentLength <- MC_ContentLength
    TaskExpireTime = 0
    GCInterval = 1
    DiskGCThreshold = 2
    DiskGCThresholdPercent = 0
    DiskTotal = 10
    OtherUsage = {0}
    MaxTime = 1
    MaxGen = 2
    MaxRestarts = 0
    MaxCleanUps = 1
    ReclaimMayFail = FALSE
    CreateMayFail = FALSE
    LateRegister = FALSE
INVARIANT CleanUpLeavesNoFiles
