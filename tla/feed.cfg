SPECIFICATION Spec
CONSTANTS
    m1 = m1
    m2 = m2
    Messages <- One
    Own <- One
    Edited <- One
    Deleted <- One
    Visits <- OneVisit
    MaxCloses = 0
    MaxListenerCrashes = 0
    MaxInbox = 1
INVARIANTS TypeOK NoDuplicateInView ShownIsCommitted
PROPERTY DeletionIsFinal
CHECK_DEADLOCK FALSE
