CONSTANTS
    TicksPerDay = 2
    Used <- Deleting
    BackupTick = 0
    CollectTicks = {0, 1}
    MaxDay = 740
    MaxMissed = 1
SPECIFICATION Spec
INVARIANTS TypeOK HistoryReachesBack SavedBound
PROPERTIES RecentKept LatestKept OldestKept
CHECK_DEADLOCK FALSE
