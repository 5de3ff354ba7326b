CONSTANTS
    UsrIDs = {u1, u2, u3}
    Cods = {c1, c2}
    Nams = {n1, n2}
    Pwds = {p0, p1, pb}
    InitPwd = p0
    BlankPwd = pb
    Sessions = {s1}
    Reqs = {q1, q2}
    Null = Null
SPECIFICATION MCSpec
INVARIANTS
    NewPwdNotBlank
CHECK_DEADLOCK FALSE
