CONSTANTS
    Reqs = {q1, q2}
    Pools = {p1, p2}
    Clients = {c1, c2}
    MaxActive = 2
    MaxIdle = 1
    Null = Null
    Names = {a}
    MaxDepth = 2
    Faults = {"connect", "login", "refuse", "data", "drop"}
SPECIFICATION Spec
SYMMETRY Symmetry
INVARIANTS
    TypeOK
    NoClientShared
    LimitUnlessTwoPools
    IdleLinksReady
PROPERTIES
    PoolPromise
    CallsMeanWhatTheySay
CHECK_DEADLOCK FALSE
