CONSTANTS
    UsrIDs = {u1}
    FuncIDs = {f1}
    RoleIDs = {super, r1, r2}
    RoleNams = {n0, n1}
    Reqs = {q1, q2}
    SUPERROLE = super
    Unborn = Unborn
    Deleted = Deleted
    Seed = Seed
    r1 = r1
    n0 = n0
    n1 = n1
SPECIFICATION MCSpec
SYMMETRY Symmetry
INVARIANTS
    DeletedRoleLeavesNothing
CHECK_DEADLOCK FALSE
