SPECIFICATION FairSpec
CONSTANTS
    N = 3
    Busy = Busy
    Quiet = Quiet
    Third = Third
    NoOrg = NoOrg
    Runs <- RunIds
    Orgs = {Busy, Quiet}
    Org <- OrgOf
    MaxConcurrent = 2
    MaxPerOrg = 1
    ListLimit = 1
    Polling = TRUE
    MaxStops = 1
INVARIANTS
    SlotBounds
    PerOrgExact
PROPERTIES
    OneAttemptPerDrain
    EveryRunTaken
CHECK_DEADLOCK FALSE
