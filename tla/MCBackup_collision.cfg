CONSTANTS
    Backups = {"b1", "b2"}
    MaxFaults = 0
    MaxOutside = 0
    MaxUser = 2
    Restoring = FALSE
SPECIFICATION Spec
INVARIANTS NoCollisionWithOrphan
CHECK_DEADLOCK FALSE
