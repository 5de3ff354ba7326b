CONSTANTS
    Reqs = {q1, q2}
    Pools = {p1, p2}
    Clients = {c1, c2}
    MaxActive = 1
    MaxIdle = 1
    Null = Null
    Names = {a}
    MaxDepth = 2
    Faults = {"data"}
SPECIFICATION Spec
SYMMETRY Symmetry
PROPERTIES
    StoredWhereItSays
CHECK_DEADLOCK FALSE
