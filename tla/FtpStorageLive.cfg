CONSTANTS
    Reqs = {q1, q2}
    Pools = {p1, p2}
    Clients = {c1, c2}
    MaxActive = 1
    MaxIdle = 1
    Null = Null
    Names = {a}
    MaxDepth = 1
    Faults = {"connect", "data", "drop"}
SPECIFICATION FairSpec
INVARIANTS
    LimitUnlessTwoPools
PROPERTIES
    RequestsEndUnlessTwoPools
CHECK_DEADLOCK FALSE
