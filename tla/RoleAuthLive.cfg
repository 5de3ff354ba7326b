CONSTANTS
    UsrIDs = {u1, u2, u3}
    FuncIDs = {f1, f2}
    RoleIDs = {super, r1, r2}
    RoleNams = {n0, n1}
    Reqs = {q1, q2}
    SUPERROLE = super
    Unborn = Unborn
    Deleted = Deleted
    Seed = Seed
    r1 = r1
    n0 = n0
    n1 = n1
SPECIFICATION MCFairSpec
PROPERTIES
    AloneKeepsContract
    TransactionsEnd
CHECK_DEADLOCK FALSE
