CONSTANTS
    UIDs <- PairUIDs
    Names <- MCNames
    KindOf <- PairKindOf
    NameOf <- PairNameOf
    b1 = b1
    b1new = b1new
    NoUID = NoUID
    NoName = NoName
    CachedObjects = {"Backup"}
    CachedLeases = {"Backup"}
    MaxRev = 4
    MaxFaults = 0
    MaxForced = 0
SPECIFICATION FairSpec
PROPERTIES BackupsReleaseLease
CHECK_DEADLOCK FALSE
