SPECIFICATION FairSpec
CONSTANTS
    o1 = o1
    c1 = c1
    d1 = d1
    d2 = d2
    d3 = d3
    Free = Free
    Pro = Pro
    ProPlus = ProPlus
    NoOne = NoOne
    Orgs = {o1}
    Cameras = {c1}
    Dispatchers = {d1, d2}
    Plans = {Free, Pro}
    PlanCap <- Caps
    GlobalCap = 0
    Cooldown = 1
    MaxTime = 1
INVARIANTS
    WithinCap
PROPERTIES
    OffMeansOff
    CallsEnd
