SPECIFICATION FairSpec
CONSTANTS
    s1 = s1
    s2 = s2
    p1 = p1
    p2 = p2
    None = None
    Sockets <- TwoSockets
    Procs <- TwoProcs
    MaxFaults = 1
INVARIANTS TypeOK LastStatusStands 
PROPERTY GoneGoesOffline
CHECK_DEADLOCK FALSE
