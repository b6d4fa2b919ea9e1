CONSTANTS
    ks1 = ks1
    id1 = id1
    id2 = id2
    k1 = k1
    k2 = k2
    r1 = r1
    r2 = r2
    v1 = v1
    NotFound = NotFound
    NoId = NoId
    NoVal = NoVal
    None = None
    Keyspaces <- MCKeyspaces
    KeyspaceIds <- MCOneId
    Keys <- MCKeys
    Ranges <- MCRanges
    Values <- MCValues
    MaxLeaderSeq = 1
    MaxEpoch = 2
    MaxOps = 3
    MaxMoves = 0
    LeaseSpan = 1

SPECIFICATION Spec
CHECK_DEADLOCK FALSE
PROPERTIES
    CommitTerminates
