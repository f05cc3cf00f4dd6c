\* The broker's Close shuts the subscriber channel while syncProgress may
\* still select on it.
CONSTANTS
    NumPieces = 2
    FileTasks = {f1, f2}
SPECIFICATION Spec
CHECK_DEADLOCK FALSE
INVARIANT NoNilPiece
