SPECIFICATION Spec
CONSTANTS
    r1 = r1
    w1 = w1
    w2 = w2
    Runs = {r1}
    Workers = {w1, w2}
    Attempts = 1
    RunTimeout = 1
    CompleteBudget = 1
    StrandedRunAge = 3
    AbandonedPending = 1
INVARIANTS
    OneClaimant
    AckedResultStored
    RowConsistent
    ReaperSparesLiveRuns
PROPERTY LifecycleSteps
