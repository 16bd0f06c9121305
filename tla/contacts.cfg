SPECIFICATION Spec
CONSTANTS
    None = None
    Users = {u1, u2}
    Requests = {r1, r2}
    Asks = {i1, i2}
    Rows = {x1, x2}
    Ops <- AllOps
SYMMETRY MCSymmetry
INVARIANTS TypeOK MutualConsent MessageBetweenFriends ChatBetweenFriends
PROPERTY Implements
CHECK_DEADLOCK FALSE
