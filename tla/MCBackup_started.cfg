CONSTANTS
    Backups = {"b1"}
    MaxFaults = 1
    MaxOutside = 0
    MaxUser = 1
    Restoring = FALSE
SPECIFICATION Spec
INVARIANTS NeverStartedHasNoProviderBackup
CHECK_DEADLOCK FALSE
