SPECIFICATION FairSpec
CONSTANTS
    r1 = r1
    w1 = w1
    Runs = {r1}
    Workers = {w1}
    Attempts = 2
    RunTimeout = 1
    CompleteBudget = 1
    StrandedRunAge = 3
    AbandonedPending = 2
PROPERTY ImplementsLifecycle
