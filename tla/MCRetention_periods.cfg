CONSTANTS
    TicksPerDay = 2
    Used <- ByIntervals
    BackupTick = 0
    CollectTicks = {0, 1}
    MaxDay = 370
    MaxMissed = 0
SPECIFICATION Spec
INVARIANTS OnePerPeriod
CHECK_DEADLOCK FALSE
