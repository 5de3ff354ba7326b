CONSTANTS
    UsrIDs = {u1, u2}
    FuncIDs = {f1}
    RoleIDs = {super, r1, r2}
    RoleNams = {n0, n1}
    Reqs = {q1, q2, q3}
    SUPERROLE = super
    Unborn = Unborn
    Deleted = Deleted
    Seed = Seed
    r1 = r1
    n0 = n0
    n1 = n1
SPECIFICATION MCSpec
SYMMETRY Symmetry
INVARIANTS
    TypeOK
    OrphanOnlyFromOverlap
    TwinsOnlyFromOverlap
PROPERTIES
    AloneKeepsContract
CHECK_DEADLOCK FALSE
