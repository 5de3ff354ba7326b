CONSTANTS
    UsrIDs = {u1, u2, u3}
    Cods = {c1, c2}
    Nams = {n1, n2}
    Pwds = {p0, p1, pb}
    InitPwd = p0
    BlankPwd = pb
    Sessions = {s1}
    Reqs = {q1, q2, q3}
    Null = Null
SPECIFICATION LoggedInSpec
SYMMETRY Symmetry
PROPERTIES
    OwnPwdOnly
CHECK_DEADLOCK FALSE
