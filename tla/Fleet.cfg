SPECIFICATION FleetSpec
CONSTANTS
    n1 = n1
    c1 = c1
    c2 = c2
    NoNode = NoNode
    Nodes = {n1}
    Commands = {c1, c2}
    QueueCap = 1
    MaxSockets = 2
    t1 = t1
    t2 = t2
    Free = "free"
    Paid = {"pro"}
    Hooks = {t1}
    Passes = {t2}
    MaxSent = 2
    MaxFaults = 1
    i1 = i1
    i2 = i2
    i3 = i3
    a1 = a1
    a2 = a2
    d1 = d1
    Ids = {i1, i2, i3}
    Foreign = {i3}
    MaxNodes = 1
    Attempts = 2
    Clients = {a1, a2}
    DeviceCameras = {d1}
    MaxKeys = 3
    Caps = {1, 2}
    Refused = {9}
    Askers = {a1, a2}
    Reporters = {"r1", "r2"}
    MaxSettings = 3
INVARIANTS
    PendingOnLiveSocket
    LiveSocketRegistered
    NoOrphanCamera
PROPERTIES
    CommandsEnd
    ReplacedSocketEnds
    PlanConverges
CHECK_DEADLOCK FALSE
