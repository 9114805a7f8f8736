CONSTANTS
    Restores = {"r1"}
    Workloads = {"w1", "w2"}
    Replicas <- MCReplicas
    MaxFaults = 1
    MaxOutside = 1
    MaxUser = 3
SPECIFICATION FairSpec
PROPERTIES RestoresEnd DeletionsEnd LeaseReturned
CHECK_DEADLOCK FALSE
