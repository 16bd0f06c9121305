SPECIFICATION Spec
CONSTANTS
    None = None
    Users = {u1, u2}
    Requests = {r1, r2}
    Rows = {x1, x2}
    Ops <- AllOps
SYMMETRY MCSymmetry
INVARIANTS TypeOK OwnerIsAdmin NoOrphanRows PrivateByInvitation
PROPERTIES GrantReachesLoadedRow Implements
CHECK_DEADLOCK FALSE
