INIT PlatformInit
NEXT PlatformNext
CONSTANTS
    o1 = o1
    v1 = v1
    v2 = v2
    Orgs = {o1}
    Viewers = {v1, v2}
    Watches <- Members
    Cap = 2
    MaxMonth = 1
    MaxServed = 2
    MaxRestarts = 1
    b1 = b1
    Beats = {b1}
    Reports = {"offline", "streaming", "failed"}
    s1 = s1
    s2 = s2
    s3 = s3
    Streams = {s1, s2, s3}
    StreamAdmins = {s1, s2}
    StreamCap = 2
    QueueDepth = 2
    MaxEvents = 3
    c1 = c1
    c2 = c2
    Cameras = {c1, c2}
    Numbers = {8, 9, 10}
    Sizes = {1, 2, 4}
    MaxPush = 2
    MaxPerCamera = 2
    MaxTotal = 4
    LowWater = 3
    MaxPlaylists = 1
    CleanupInterval = 2
    MaxCacheClock = 4
    e1 = e1
    e2 = e2
    Events = {e1, e2}
    Cooldown = 2
    Fallback = 1
    Stamps = {2, 9}
    MaxClock = 4
    w1 = w1
    w2 = w2
    CamerasOf <- NodeCameras
    CapOf <- PlanCaps
    Workers = {w1, w2}
    MaxRegistrations = 2
    MaxBilling = 2
    Writers = {w1, w2}
    DayMinutes = 4
    MaxEdits = 3
    p1 = p1
    p2 = p2
    Pulses = {p1, p2}
    Reemit = 2
    MaxAlertTime = 3
    GraceHours = 2
    CheckEvery = 1
    MaxLicenceTime = 6
    MaxLostWrites = 1
    MaxStops = 1
    RowIds = {1, 2}
    BatchSize = 1
    Settle = 1
    Reconcile = TRUE
    MaxSyncTime = 3
    MaxSyncFaults = 1
    MirrorRows <- Mirrored
    MaxRestores = 1
    MaxIterations = 3
    MaxCalls = 2
    CompleteAttempts = 2
    Pollers = {p1, p2}
    ReadyTTL = 1
    ProbeTime = 1
    StaleAfter = 1
    StartGrace = 2
    WorkEvery = 1
    MaxDown = 1
INVARIANTS
    RefusedOnlyAtCap
    EverySecondOnce
    LastWordTrue
    NoSilentGap
    ClosedWindowDigested
    CapHolds
    GraceBounded
    
    OwnEndingReports
    OutageSurfaces
CHECK_DEADLOCK FALSE
