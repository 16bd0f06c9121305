SPECIFICATION Spec
CONSTANTS
    None = None
    Browsers = {b1, b2}
    Requests = {q1, q2}
    Sessions = {s1, s2}
    AccessLife = 0
    RefreshLife = 1
    MaxClock = 2
    MaxLosses = 1
SYMMETRY MCSymmetry
INVARIANTS TypeOK EndedStaysEnded StoredWasCommitted RevocationTakesHold
CHECK_DEADLOCK FALSE
