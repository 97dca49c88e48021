INIT TenancyInit
NEXT TenancyNext
CONSTANTS
    f1 = f1
    f2 = f2
    a1 = a1
    r1 = r1
    r2 = r2
    w1 = w1
    w2 = w2
    None = None
    Facts = {f1, f2}
    Maps = {"nodes"}
    Map <- OneMap
    Answers = {a1}
    Readers = {r1, r2}
    Writers = {w1}
    MaxEntries = 1
    MaxCommits = 1
    c1 = c1
    c2 = c2
    Window <- RouteWindows
    Limit = 1
    SweepHorizon = 3
    SweepEvery = 1
    SweepAbove = 1
    TrustProxy = FALSE
    Callers = {c1, c2}
    MaxNow = 4
    MaxAsked = 4
    p1 = p1
    p2 = p2
    People = {p1, p2}
    Reachable = {p1}
    Lookups = {c1}
    CacheTTL = 1
    DirectoryTimeout = 1
    MaxTime = 4
    MaxChanges = 1
    Tabs = {c1, c2}
    ReaderIsAdmin = FALSE
    ListHours = 1
    LastHour = 2
    MaxRows = 1
    Jobs = {c1, c2}
    DailyCap = 1
    MaxFiled = 2
    MaxJobs = 2
    Clients = {c1}
    MinuteLimit = 1
    DailyLimit = 1
    MinuteSpan = 1
    DaySpan = 2
    PruneEvery = 2
    Customs <- CustomScopes
    MaxTools = 2
    MaxMcpNow = 2
    u1 = u1
    u2 = u2
    u3 = u3
    o1 = o1
    Users = {u1, u2, u3}
    OrgIds = {o1}
    MaxMoves = 2
    TableOrder <- Statements
    NodeStamped = {"motion"}
    FreeDays = 0
    PaidDays = 1
    OutboxDays = 0
    MarkerDays = 1
    RetryDays = 0
    Deliveries = {r1}
    MaxLogRows = 1
    MaxDay = 2
    i1 = i1
    i2 = i2
    Parents = {i1, i2}
    MaxExportEdits = 3
    k1 = k1
    k2 = k2
    Kids = {k1, k2}
    Sessions = {c1}
    RefreshAfter = 3
    MinForced = 2
    FetchTimeout = 1
    WarmAttempts = 2
    MaxKeyTime = 5
    Secrets = {"", "s1", "s2"}
    TokenTTL = 1
    JwtLeeway = 1
    MaxLocalTime = 4
    Features <- FeatureLists
    Permissions <- PermissionLists
    KeyIds = {1, 2}
    Desks = {w1}
    Programs = {r1}
INVARIANTS
    CacheFresh
    AnswersLegit
    
    InvalidationHolds
    ResolutionMatchesStatus
    RevokedStaysOut
    NothingLeftBehind
    RefusalHasACause
    KeysActForTheirOrg
CHECK_DEADLOCK FALSE
