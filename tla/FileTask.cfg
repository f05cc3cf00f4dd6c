\* The progress protocol of two file tasks attached to one conductor of a
\* two-piece download.
CONSTANTS
    NumPieces = 2
    FileTasks = {f1, f2}
SPECIFICATION Spec
\* A file task ends: its goroutines return and nothing is left to do.
CHECK_DEADLOCK FALSE
INVARIANT TypeOK SuccessMeansStored
PROPERTY CallerAnswered SyncProgressReturns DownloadStreamSpec
