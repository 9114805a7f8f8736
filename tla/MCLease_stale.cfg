CONSTANTS
    UIDs <- RecreatedUIDs
    Names <- MCNames
    KindOf <- RecreatedKindOf
    NameOf <- RecreatedNameOf
    b1 = b1
    b1new = b1new
    NoUID = NoUID
    NoName = NoName
    CachedObjects = {"Backup"}
    CachedLeases = {"Backup"}
    MaxRev = 4
    MaxFaults = 0
    MaxForced = 0
SPECIFICATION Spec
INVARIANTS OperationsExclude
CHECK_DEADLOCK FALSE
