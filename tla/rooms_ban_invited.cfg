SPECIFICATION Spec
CONSTANTS
    None = None
    Rows = {x1, x2}
    Users = {u1, u2}
    Requests = {r1}
    Ops <- InviteOps
SYMMETRY MCSymmetry
PROPERTY BannedCannotRejoin
