CONSTANTS
    Keys <- MCKeys
    Values <- MCValues
    TTLs <- MCTTLs
    NoValue = NoValue
    EmptyKey = EmptyKey
    MaxSize = 2
    MaxTime = 3

SPECIFICATION FairSpec

INVARIANT SizeBound
PROPERTY ExpiredPurged
