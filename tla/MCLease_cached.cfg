CONSTANTS
    UIDs <- RecreatedUIDs
    Names <- MCNames
    KindOf <- RecreatedKindOf
    NameOf <- RecreatedNameOf
    b1 = b1
    b1new = b1new
    NoUID = NoUID
    NoName = NoName
    CachedObjects = {"Backup"}
    CachedLeases = {"Backup"}
    MaxRev = 4
    MaxFaults = 1
    MaxForced = 1
SPECIFICATION Spec
INVARIANTS TypeOK ActiveRunOwnsLease LeaseInvariant
PROPERTIES LeaseImplementsOperationLease KindsTakeTurns
SYMMETRY RecreatedSymmetry
CHECK_DEADLOCK FALSE
