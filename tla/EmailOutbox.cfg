SPECIFICATION FairSpec
CONSTANTS
    Rows = {1, 2}
    BatchSize = 2
    MaxAttempts = 2
    ReclaimAge = 1
    MaxCrashes = 2
INVARIANTS
    LogOnce
PROPERTIES
    EveryRowSettles
