CONSTANTS
    Backups = {"b1"}
    MaxFaults = 1
    MaxOutside = 1
    MaxUser = 2
    Restoring = FALSE
SPECIFICATION FairSpec
INVARIANTS MaintenanceHasOwner
PROPERTIES OutcomeIsFinal CanceledStays BackupsEnd DeletionsEnd CanceledProviderBackupsGo OrphansGo
CHECK_DEADLOCK FALSE
