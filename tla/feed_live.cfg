SPECIFICATION FairSpec
CONSTANTS
    m1 = m1
    m2 = m2
    Messages <- One
    Own <- One
    Edited <- Nobody
    Deleted <- Nobody
    Visits <- TwoVisits
    MaxCloses = 1
    MaxListenerCrashes = 1
    MaxInbox = 2
PROPERTY LiveDelivery
CHECK_DEADLOCK FALSE
