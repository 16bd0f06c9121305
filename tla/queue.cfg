SPECIFICATION FairSpec
CONSTANTS
    None = None
    Tasks = {t1, t2}
    Workers = {w1, w2}
    Slots = {s1, s2, s3, s4, s5}
    MaxRetries = 1
    MaxCrashes = 1
INVARIANTS TypeOK NoTaskLost
PROPERTIES Implements EveryTaskSettles
CHECK_DEADLOCK FALSE
