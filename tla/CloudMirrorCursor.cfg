INIT MirrorInit
NEXT MirrorNext
CONSTANTS
    RowIds = {1, 2}
    BatchSize = 1
    Settle = 1
    Reconcile = TRUE
    MaxSyncTime = 4
    MaxSyncFaults = 1
INVARIANT NothingMissedEver
CHECK_DEADLOCK FALSE
