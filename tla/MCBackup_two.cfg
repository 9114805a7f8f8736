CONSTANTS
    Backups = {"b1", "b2"}
    MaxFaults = 1
    MaxOutside = 0
    MaxUser = 2
    Restoring = TRUE
SPECIFICATION Spec
INVARIANTS TypeOK RunsUnderMaintenance RestoreKeepsMaintenance MaintenanceHasOwner CanceledNeverSucceeds
PROPERTIES OutcomeIsFinal KeepsProtocol
CHECK_DEADLOCK FALSE
