SPECIFICATION Spec
CONSTANTS
    image = image
    text = text
    u1 = u1
    u2 = u2
    None = None
    Files <- TwoFiles
    Images <- OneImage
    Users <- TwoUsers
    MaxRetries = 2
    MaxFaults = 2
INVARIANTS TypeOK RowHasFile ServedToMembers DoneMeansThumb
CHECK_DEADLOCK FALSE
