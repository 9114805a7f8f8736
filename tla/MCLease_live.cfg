CONSTANTS
    UIDs <- RivalUIDs
    Names <- MCNames
    KindOf <- RivalKindOf
    NameOf <- RivalNameOf
    b1 = b1
    b1new = b1new
    NoUID = NoUID
    NoName = NoName
    CachedObjects = {}
    CachedLeases = {}
    MaxRev = 4
    MaxFaults = 0
    MaxForced = 0
SPECIFICATION FairSpec
INVARIANTS OperationsExclude CleansOwnMaintenance
PROPERTIES RunsEndAndRelease
CHECK_DEADLOCK FALSE
