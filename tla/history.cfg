SPECIFICATION FairHistory
CONSTANTS
    r1 = r1
    r2 = r2
    r3 = r3
    Nothing = Nothing
    Messages <- ThreeMessages
    Requests <- ThreeRequests
    PageSize = 1
    MaxTime = 2
INVARIANTS HistoryTypeOK NothingSkipped PagesInOrder
PROPERTY ScrollReachesStart
CHECK_DEADLOCK FALSE
