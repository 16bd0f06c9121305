SPECIFICATION FairSpec
CONSTANTS
    r1 = r1
    r2 = r2
    w1 = w1
    None = None
    Readers <- TwoReaders
    Writers <- OneWriter
    Keys <- AllKeys
    Ops <- AllOps
    Private = TRUE
    Life = 2
    MaxWrites = 2
INVARIANTS TypeOK StaleOnlyByOverlap MembersOnly
PROPERTY StaleEntriesGo
CHECK_DEADLOCK FALSE
