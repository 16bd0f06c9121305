SPECIFICATION Spec
CONSTANTS
    Requests <- SomeRequests
    Limit = 2
    Window = 2
    MaxResets = 1
INVARIANT RefusedOnlyAboveLimit
CHECK_DEADLOCK FALSE
