CONSTANTS
    ks1 = ks1
    id1 = id1
    id2 = id2
    k1 = k1
    k2 = k2
    r1 = r1
    r2 = r2
    v1 = v1
    NotFound = NotFound
    NoId = NoId
    NoVal = NoVal
    None = None
    Keyspaces <- MCKeyspaces
    KeyspaceIds <- MCOneId
    Keys <- MCKeys
    Ranges <- MCRanges
    Values <- MCValues
    MaxLeaderSeq = 2
    MaxEpoch = 2
    MaxOps = 3
    MaxMoves = 1
    LeaseSpan = 1

SPECIFICATION Spec
SYMMETRY MCSymmetry
CHECK_DEADLOCK FALSE
INVARIANTS
    ReadYourWrites
