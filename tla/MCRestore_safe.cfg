CONSTANTS
    Restores = {"r1", "r2"}
    Workloads = {"w1", "w2"}
    Replicas <- MCReplicas
    MaxFaults = 1
    MaxOutside = 1
    MaxUser = 3
SPECIFICATION Spec
INVARIANTS TypeOK OneVeleroRestore NothingRemovedUnderVelero CountsKept RestoresUnderMaintenance ScaledDownUnderVelero
PROPERTIES PreparedOnce SuccessIsComplete KeepsProtocol
CHECK_DEADLOCK FALSE
