------------------------ MODULE BackupControllerProofs ------------------------
(***************************************************************************)
(* Proofs about BackupController for any set of backups and any number of  *)
(* faults, of requests and of steps of others: its types.  The safety      *)
(* properties are in BackupSafetyProofs.                                   *)
(***************************************************************************)
EXTENDS BackupController, TLAPS

-------------------------------------------------------------------------------
(* Passes and their stages. *)

\* The stages of each operation, by position.
LEMMA StageTable ==
    /\ StagesFor("create")[1] = "VeleroStatusSynced"
    /\ StagesFor("create")[2] = "ConditionsInitialized"
    /\ StagesFor("create")[3] = "Setup"
    /\ StagesFor("create")[4] = "TimeWindow"
    /\ StagesFor("create")[5] = "Prepared"
    /\ StagesFor("create")[6] = "Lease"
    /\ StagesFor("create")[7] = "MaintenanceActivated"
    /\ StagesFor("create")[8] = "ProviderCreated"
    /\ StagesFor("create")[9] = "ProviderCompleted"
    /\ StagesFor("create")[10] = "MaintenanceDeactivated"
    /\ StagesFor("create")[11] = "LeaseReleased"
    /\ StagesFor("create")[12] = "RunCompleted"
    /\ StagesFor("finalize")[1] = "MaintenanceDeactivated"
    /\ StagesFor("finalize")[2] = "LeaseReleased"
    /\ StagesFor("finalize")[3] = "RunCompleted"
    /\ StagesFor("delete")[1] = "MaintenanceDeactivated"
    /\ StagesFor("delete")[2] = "LeaseReleased"
    /\ StagesFor("delete")[3] = "ProviderDeleted"
    /\ StagesFor("ignore")[1] = "OrphanDeleted"
    /\ StagesFor("ignore")[2] = "CanceledProviderDeleted"
BY DEF StagesFor, CreateStages, FinalizeStages, CleanupStages

\* The number of stages of each operation.
LEMMA StageCounts ==
    /\ Len(StagesFor("create")) = 12
    /\ Len(StagesFor("finalize")) = 3
    /\ Len(StagesFor("delete")) = 3
    /\ Len(StagesFor("ignore")) = 2
BY DEF StagesFor, CreateStages, FinalizeStages, CleanupStages

\* What a pass that is not idle is.
Passes == [backup : Backups, mem : Resource, operation : Operations, step : 1 .. 12]

PassType ==
    /\ pass \in {NoPass} \cup Passes
    /\ Idle \/ pass.step <= Last
    /\ queue \subseteq Backups

\* A pass that is not idle has a backup, a copy of it, an operation and a stage.
LEMMA PassFields ==
    ASSUME TypeOK, ~Idle
    PROVE  /\ pass \in Passes
           /\ Current \in Backups /\ Mem \in Resource
           /\ pass.operation \in Operations /\ pass.step \in 1 .. Last
           /\ pass.operation = "create" => Last = 12
           /\ pass.operation \in {"finalize", "delete"} => Last = 3
           /\ pass.operation = "ignore" => Last = 2
<1>1. pass \in Passes /\ pass.step <= Last
    BY DEF TypeOK, Idle, Passes
<1>2. /\ pass.operation = "create" => Last = 12
      /\ pass.operation \in {"finalize", "delete"} => Last = 3
      /\ pass.operation = "ignore" => Last = 2
    BY StageCounts DEF Last
<1>3. pass.step \in 1 .. Last
    BY <1>1, <1>2 DEF Passes, Operations
<1> QED
    BY <1>1, <1>2, <1>3 DEF Passes, Current, Mem

\* Which stage a pass is at, by operation and position.
LEMMA StageAt ==
    ASSUME TypeOK, ~Idle
    PROVE  /\ pass.operation = "create" =>
                 \/ pass.step = 1 /\ At("VeleroStatusSynced")
                 \/ pass.step = 2 /\ At("ConditionsInitialized")
                 \/ pass.step = 3 /\ At("Setup")
                 \/ pass.step = 4 /\ At("TimeWindow")
                 \/ pass.step = 5 /\ At("Prepared")
                 \/ pass.step = 6 /\ At("Lease")
                 \/ pass.step = 7 /\ At("MaintenanceActivated")
                 \/ pass.step = 8 /\ At("ProviderCreated")
                 \/ pass.step = 9 /\ At("ProviderCompleted")
                 \/ pass.step = 10 /\ At("MaintenanceDeactivated")
                 \/ pass.step = 11 /\ At("LeaseReleased")
                 \/ pass.step = 12 /\ At("RunCompleted")
           /\ pass.operation = "finalize" =>
                 \/ pass.step = 1 /\ At("MaintenanceDeactivated")
                 \/ pass.step = 2 /\ At("LeaseReleased")
                 \/ pass.step = 3 /\ At("RunCompleted")
           /\ pass.operation = "delete" =>
                 \/ pass.step = 1 /\ At("MaintenanceDeactivated")
                 \/ pass.step = 2 /\ At("LeaseReleased")
                 \/ pass.step = 3 /\ At("ProviderDeleted")
           /\ pass.operation = "ignore" =>
                 \/ pass.step = 1 /\ At("OrphanDeleted")
                 \/ pass.step = 2 /\ At("CanceledProviderDeleted")
<1>1. pass.step \in 1 .. 12 /\ pass.step <= Last /\ pass.operation \in Operations
    BY PassFields DEF Operations
<1>2. CASE pass.operation = "create"
    BY <1>1, <1>2, StageTable DEF At
<1>3. CASE pass.operation = "finalize"
    BY <1>1, <1>3, StageTable, PassFields DEF At
<1>4. CASE pass.operation = "delete"
    BY <1>1, <1>4, StageTable, PassFields DEF At
<1>5. CASE pass.operation = "ignore"
    BY <1>1, <1>5, StageTable, PassFields DEF At
<1> QED
    BY <1>1, <1>2, <1>3, <1>4, <1>5 DEF Operations

\* The four ends of a stage keep the type of the pass: going on with the next ...
LEMMA ContinueType ==
    ASSUME TypeOK, ~Idle, NEW m \in Resource, Continue(m)
    PROVE  PassType'
<1>1. CASE pass.step = Last
    BY <1>1 DEF Continue, PassType, TypeOK, Idle
<1>2. CASE pass.step # Last
  <2>1. pass' = [pass EXCEPT !.step = @ + 1, !.mem = m] /\ queue' = queue
      BY <1>2 DEF Continue
  <2>2. Last \in {2, 3, 12}
      BY PassFields DEF Operations
  <2>3. pass.step + 1 \in 1 .. 12 /\ pass.step + 1 <= Last
      BY <1>2, <2>2, PassFields
  <2>4. Last' = Last
      BY <2>1, PassFields DEF Last, Passes
  <2> QED
      BY <2>1, <2>3, <2>4, PassFields DEF PassType, TypeOK, Passes
<1> QED
    BY <1>1, <1>2

\* ... or ending the pass, with or without another visit.
LEMMA EndType ==
    ASSUME TypeOK, ~Idle, RetryLater \/ Abort
    PROVE  PassType'
BY PassFields DEF RetryLater, Abort, PassType, TypeOK, Idle

-------------------------------------------------------------------------------
(* Type correctness. *)

\* Writing the status of the backup of a pass keeps the types.
LEMMA PatchType ==
    ASSUME TypeOK, ~Idle, NEW s \in Status, PatchStatus(s)
    PROVE  /\ cr' \in [Backups -> Resource \cup {NoBackup}]
           /\ expired' = expired
           /\ Patched(s) \in Resource
<1>1. cr[Current] \in Resource
    BY PassFields DEF PatchStatus, Present, TypeOK
<1>2. Patched(s) \in Resource
    BY <1>1 DEF Patched, Resource
<1> QED
    BY <1>2 DEF PatchStatus, TypeOK

\* The statuses the stages write.
LEMMA StatusTypes ==
    ASSUME NEW s \in Status
    PROVE  /\ Initialized(s) \in Status
           /\ \A v \in {"True", "False"} : [s EXCEPT !.canceled = v] \in Status
           /\ \A v \in Milestones : /\ [s EXCEPT !.provider = v] \in Status
                                    /\ [s EXCEPT !.succeeded = v] \in Status
           /\ [s EXCEPT !.succeeded = "Unknown", !.started = TRUE] \in Status
           /\ \A v \in Milestones, t \in BOOLEAN :
                 [s EXCEPT !.provider = v, !.succeeded = v, !.started = t \/ @] \in Status
           /\ Outcome(s) \in {"True", "False"}
           /\ \A phase : SyncOutcome(phase) \in {"True", "False", "Unknown"}
BY DEF Status, Initialized, Milestones, Outcome, Resolved, SyncOutcome

\* What a stage knows about its pass.
LEMMA AtStage ==
    ASSUME TypeOK, NEW s, At(s)
    PROVE  ~Idle /\ Current \in Backups /\ Mem \in Resource /\ Mem.status \in Status
BY PassFields DEF At, Resource

\* Storing a resource keeps the types ...
LEMMA StoreType ==
    ASSUME TypeOK, NEW b \in Backups, NEW x \in Resource \cup {NoBackup}
    PROVE  [cr EXCEPT ![b] = x] \in [Backups -> Resource \cup {NoBackup}]
BY DEF TypeOK

\* ... and so does deleting one.
LEMMA DeletedType ==
    ASSUME TypeOK, NEW b \in Backups
    PROVE  /\ Deleted(b) \in Resource \cup {NoBackup}
           /\ [cr EXCEPT ![b] = Deleted(b)] \in [Backups -> Resource \cup {NoBackup}]
<1>1. Deleted(b) \in Resource \cup {NoBackup}
    BY DEF Deleted, Present, TypeOK, Resource
<1> QED
    BY <1>1 DEF TypeOK

\* A failed call keeps the types.
LEMMA FaultType ==
    ASSUME TypeOK, faults < MaxFaults, faults' = faults + 1
    PROVE  faults' \in 0 .. MaxFaults
BY BackupAssumption DEF TypeOK, BackupAssumption

\* The initial state has the types.
LEMMA TypeInit == Init => TypeOK
<1>1. Init => faults \in 0 .. MaxFaults /\ outside \in 0 .. MaxOutside /\ asked \in 0 .. MaxUser
    BY BackupAssumption DEF Init, BackupAssumption
<1>2. Init => /\ cr \in [Backups -> Resource \cup {NoBackup}]
              /\ velero \in [Backups -> Phases]
              /\ dbr \in [Backups -> Requests]
    BY DEF Init, Phases, Requests
<1> QED
    BY <1>1, <1>2 DEF Init, TypeOK, Idle

\* The stages up to the one that takes the lease.
LEMMA TypePreparing ==
    ASSUME TypeOK,
           \/ EnsureVeleroStatusSynced \/ EnsureConditionsInitialized \/ EnsureBackupSetup
           \/ EnsureBackupIsCanceledAfterTimeWindowExpired \/ EnsureBackupIsPrepared
           \/ EnsureActiveBackupLease
    PROVE  TypeOK'
<1> USE DEF objectVars, veleroVars, sharedVars, syncVars, boundVars
<1>1. CASE EnsureVeleroStatusSynced
  <2>1. ~Idle /\ Mem \in Resource /\ Mem.status \in Status
      BY <1>1, AtStage DEF EnsureVeleroStatusSynced
  <2>2. PassType'
      BY <1>1, <2>1, ContinueType, EndType DEF EnsureVeleroStatusSynced
  <2>3. cr' \in [Backups -> Resource \cup {NoBackup}] /\ expired' = expired
      BY <1>1, <2>1, StatusTypes, PatchType DEF EnsureVeleroStatusSynced, TypeOK, Milestones
  <2> QED
      BY <1>1, <2>2, <2>3 DEF EnsureVeleroStatusSynced, TypeOK, PassType, Passes
<1>2. CASE EnsureConditionsInitialized
  <2>1. ~Idle /\ Mem \in Resource /\ Initialized(Mem.status) \in Status
      BY <1>2, AtStage, StatusTypes DEF EnsureConditionsInitialized
  <2>2. PassType'
      BY <1>2, <2>1, ContinueType, PatchType DEF EnsureConditionsInitialized
  <2>3. cr' \in [Backups -> Resource \cup {NoBackup}] /\ expired' = expired
      BY <1>2, <2>1, PatchType DEF EnsureConditionsInitialized, TypeOK
  <2> QED
      BY <1>2, <2>2, <2>3 DEF EnsureConditionsInitialized, TypeOK, PassType, Passes
<1>3. CASE EnsureBackupSetup
  <2>1. /\ ~Idle /\ Current \in Backups /\ Mem \in Resource
        /\ [Mem EXCEPT !.finalizer = TRUE] \in Resource
      BY <1>3, AtStage DEF EnsureBackupSetup, Resource
  <2>2. PassType'
      BY <1>3, <2>1, ContinueType, EndType DEF EnsureBackupSetup
  <2>3. cr' \in [Backups -> Resource \cup {NoBackup}] /\ expired' = expired
    <3>1. \/ UNCHANGED cr
          \/ cr' = [cr EXCEPT ![Current] = [Mem EXCEPT !.finalizer = TRUE]]
        BY <1>3 DEF EnsureBackupSetup
    <3>2. expired' = expired
        BY <1>3 DEF EnsureBackupSetup
    <3>3. [cr EXCEPT ![Current] = [Mem EXCEPT !.finalizer = TRUE]]
             \in [Backups -> Resource \cup {NoBackup}]
        BY <2>1, StoreType
    <3>4. CASE UNCHANGED cr
        BY <3>2, <3>4 DEF TypeOK
    <3>5. CASE cr' = [cr EXCEPT ![Current] = [Mem EXCEPT !.finalizer = TRUE]]
        BY <3>2, <3>3, <3>5
    <3> QED
        BY <3>1, <3>4, <3>5
  <2> QED
      BY <1>3, <2>2, <2>3 DEF EnsureBackupSetup, TypeOK, PassType, Passes
<1>4. CASE EnsureBackupIsCanceledAfterTimeWindowExpired
  <2>1. ~Idle /\ WithCanceled("True") \in Status /\ WithCanceled("False") \in Status
      BY <1>4, AtStage, StatusTypes
         DEF EnsureBackupIsCanceledAfterTimeWindowExpired, WithCanceled
  <2>2. PassType'
      BY <1>4, <2>1, ContinueType, EndType, PatchType
         DEF EnsureBackupIsCanceledAfterTimeWindowExpired
  <2>3. cr' \in [Backups -> Resource \cup {NoBackup}] /\ expired' = expired
      BY <1>4, <2>1, PatchType DEF EnsureBackupIsCanceledAfterTimeWindowExpired
  <2> QED
      BY <1>4, <2>2, <2>3
         DEF EnsureBackupIsCanceledAfterTimeWindowExpired, TypeOK, PassType, Passes
<1>5. CASE EnsureBackupIsPrepared
  <2>1. ~Idle /\ Mem \in Resource /\ (Present(Current) => cr[Current] \in Resource)
      BY <1>5, AtStage DEF EnsureBackupIsPrepared, Present, TypeOK
  <2>2. PassType'
      BY <1>5, <2>1, ContinueType, EndType DEF EnsureBackupIsPrepared
  <2> QED
      BY <1>5, <2>2 DEF EnsureBackupIsPrepared, TypeOK, PassType, Passes
<1>6. CASE EnsureActiveBackupLease
  <2>1. ~Idle /\ Mem \in Resource /\ Current \in Backups
      BY <1>6, AtStage DEF EnsureActiveBackupLease
  <2>2. PassType'
      BY <1>6, <2>1, ContinueType, EndType DEF EnsureActiveBackupLease
  <2> QED
      BY <1>6, <2>1, <2>2 DEF EnsureActiveBackupLease, TypeOK, PassType, Passes
<1> QED
    BY <1>1, <1>2, <1>3, <1>4, <1>5, <1>6

\* The stages that write the backup of the provider.
LEMMA TypeRunning ==
    ASSUME TypeOK,
           EnsureMaintenanceActivated \/ EnsureProviderBackupCreated \/
           EnsureProviderBackupCompleted
    PROVE  TypeOK'
<1> USE DEF objectVars, veleroVars, sharedVars, syncVars, boundVars
<1>1. CASE EnsureMaintenanceActivated
  <2>1. ~Idle /\ Mem \in Resource /\ [Mem.status EXCEPT !.succeeded = "Unknown"] \in Status
      BY <1>1, AtStage, StatusTypes DEF EnsureMaintenanceActivated, Milestones
  <2>2. PassType'
      BY <1>1, <2>1, ContinueType, EndType DEF EnsureMaintenanceActivated, CallFails
  <2>3. cr' \in [Backups -> Resource \cup {NoBackup}] /\ expired' = expired
      BY <1>1, <2>1, PatchType DEF EnsureMaintenanceActivated, TypeOK
  <2>4. faults' \in 0 .. MaxFaults
      BY <1>1, FaultType DEF EnsureMaintenanceActivated, CallFails, TypeOK
  <2> QED
      BY <1>1, <2>2, <2>3, <2>4 DEF EnsureMaintenanceActivated, TypeOK, PassType, Passes
<1>2. CASE EnsureProviderBackupCreated
  <2>1. /\ ~Idle /\ Current \in Backups /\ Mem \in Resource
        /\ [Mem.status EXCEPT !.succeeded = "Unknown", !.started = TRUE] \in Status
      BY <1>2, AtStage, StatusTypes DEF EnsureProviderBackupCreated
  <2>2. PassType'
      BY <1>2, <2>1, ContinueType, EndType DEF EnsureProviderBackupCreated, CallFails
  <2>3. cr' \in [Backups -> Resource \cup {NoBackup}] /\ expired' = expired
      BY <1>2, <2>1, PatchType DEF EnsureProviderBackupCreated, TypeOK
  <2>4. faults' \in 0 .. MaxFaults
      BY <1>2, FaultType DEF EnsureProviderBackupCreated, CallFails, TypeOK
  <2>5. velero' \in [Backups -> Phases] /\ syncQueue' \subseteq Backups
      BY <1>2, <2>1 DEF EnsureProviderBackupCreated, TypeOK, Phases, Notified
  <2> QED
      BY <1>2, <2>2, <2>3, <2>4, <2>5 DEF EnsureProviderBackupCreated, TypeOK, PassType, Passes
<1>3. CASE EnsureProviderBackupCompleted
  <2>1. /\ ~Idle /\ Mem \in Resource
        /\ WithProvider("Unknown") \in Status
        /\ \A phase : WithProvider(SyncOutcome(phase)) \in Status
      BY <1>3, AtStage, StatusTypes DEF EnsureProviderBackupCompleted, WithProvider, Milestones
  <2>2. PassType'
      BY <1>3, <2>1, ContinueType, EndType, PatchType DEF EnsureProviderBackupCompleted
  <2>3. cr' \in [Backups -> Resource \cup {NoBackup}] /\ expired' = expired
      BY <1>3, <2>1, PatchType DEF EnsureProviderBackupCompleted, TypeOK
  <2> QED
      BY <1>3, <2>2, <2>3 DEF EnsureProviderBackupCompleted, TypeOK, PassType, Passes
<1> QED
    BY <1>1, <1>2, <1>3

\* The stages that end a run or visit a finished one.
LEMMA TypeEnding ==
    ASSUME TypeOK,
           \/ EnsureMaintenanceDeactivated \/ EnsureBackupLeaseReleased
           \/ EnsureBackupRunCompleted \/ EnsureOrphanedBackupDeleted
           \/ EnsureCanceledProviderBackupDeleted \/ EnsureProviderBackupDeleted
    PROVE  TypeOK'
<1> USE DEF objectVars, veleroVars, sharedVars, syncVars, boundVars
<1>0. ASSUME NEW phase, NEW request \in Requests, phase \in Phases \ {"none"}
      PROVE  RequestAfter(phase, request) \in Requests
    BY <1>0 DEF RequestAfter, Requests
<1>1. CASE EnsureMaintenanceDeactivated
  <2>1. PassType'
      BY <1>1, AtStage, ContinueType, EndType DEF EnsureMaintenanceDeactivated
  <2> QED
      BY <1>1, <2>1 DEF EnsureMaintenanceDeactivated, TypeOK, PassType, Passes
<1>2. CASE EnsureBackupLeaseReleased
  <2>1. PassType'
      BY <1>2, AtStage, ContinueType, EndType DEF EnsureBackupLeaseReleased
  <2> QED
      BY <1>2, <2>1 DEF EnsureBackupLeaseReleased, TypeOK, PassType, Passes
<1>3. CASE EnsureBackupRunCompleted
  <2>1. ~Idle /\ [Mem.status EXCEPT !.succeeded = Outcome(Mem.status)] \in Status
      BY <1>3, AtStage, StatusTypes DEF EnsureBackupRunCompleted, Milestones
  <2>2. PassType'
      BY <1>3, <2>1, EndType DEF EnsureBackupRunCompleted
  <2>3. cr' \in [Backups -> Resource \cup {NoBackup}] /\ expired' = expired
      BY <1>3, <2>1, PatchType DEF EnsureBackupRunCompleted, TypeOK
  <2> QED
      BY <1>3, <2>2, <2>3 DEF EnsureBackupRunCompleted, TypeOK, PassType, Passes
<1>4. CASE EnsureOrphanedBackupDeleted
  <2>1. PassType' /\ Current \in Backups
      BY <1>4, AtStage, ContinueType, EndType DEF EnsureOrphanedBackupDeleted
  <2>2. cr' \in [Backups -> Resource \cup {NoBackup}] /\ expired' = expired
      BY <1>4, <2>1, DeletedType DEF EnsureOrphanedBackupDeleted, TypeOK
  <2> QED
      BY <1>4, <2>1, <2>2 DEF EnsureOrphanedBackupDeleted, TypeOK, PassType, Passes
<1>5. CASE EnsureCanceledProviderBackupDeleted
  <2>1. PassType' /\ Current \in Backups
      BY <1>5, AtStage, ContinueType, EndType
         DEF EnsureCanceledProviderBackupDeleted, DeleteProviderBackup
  <2>2. dbr' \in [Backups -> Requests]
      BY <1>0, <1>5, <2>1
         DEF EnsureCanceledProviderBackupDeleted, DeleteProviderBackup, TypeOK
  <2> QED
      BY <1>5, <2>1, <2>2 DEF EnsureCanceledProviderBackupDeleted, TypeOK, PassType, Passes
<1>6. CASE EnsureProviderBackupDeleted
  <2>1. PassType' /\ Current \in Backups
      BY <1>6, AtStage, EndType DEF EnsureProviderBackupDeleted, DeleteProviderBackup
  <2>2. dbr' \in [Backups -> Requests]
      BY <1>0, <1>6, <2>1 DEF EnsureProviderBackupDeleted, DeleteProviderBackup, TypeOK
  <2>3. cr' \in [Backups -> Resource \cup {NoBackup}] /\ expired' \subseteq Backups
      BY <1>6, <2>1 DEF EnsureProviderBackupDeleted, TypeOK
  <2> QED
      BY <1>6, <2>1, <2>2, <2>3 DEF EnsureProviderBackupDeleted, TypeOK, PassType, Passes
<1> QED
    BY <1>1, <1>2, <1>3, <1>4, <1>5, <1>6

\* Passes that begin or fail, crashes and restarts.
LEMMA TypePass ==
    ASSUME TypeOK,
           \/ \E b \in Backups : Reconcile(b)
           \/ BackupVanished \/ PassFails \/ Crash \/ Recover
    PROVE  TypeOK'
<1> USE DEF objectVars, veleroVars, sharedVars, syncVars, workerVars, boundVars
<1>1. ASSUME NEW b \in Backups, Reconcile(b)
      PROVE  TypeOK'
  <2>1. CASE Present(b)
    <3>1. cr[b] \in Resource /\ RequiredOperation(cr[b]) \in Operations
        BY <2>1 DEF TypeOK, Present, RequiredOperation, Operations
    <3>2. pass' \in Passes /\ pass'.step = 1 /\ pass'.operation \in Operations
        BY <1>1, <2>1, <3>1 DEF Reconcile, Passes
    <3>3. Last' \in {2, 3, 12}
        BY <3>2, StageCounts DEF Last, Operations
    <3> QED
        BY <1>1, <3>2, <3>3 DEF Reconcile, TypeOK, Passes
  <2>2. CASE ~Present(b)
      BY <1>1, <2>2 DEF Reconcile, TypeOK, Idle
  <2> QED
      BY <2>1, <2>2
<1>2. CASE BackupVanished
    BY <1>2, EndType DEF BackupVanished, TypeOK, PassType, Passes
<1>3. CASE PassFails
  <2>1. PassType' /\ faults' \in 0 .. MaxFaults
      BY <1>3, EndType, FaultType DEF PassFails, CallFails
  <2> QED
      BY <1>3, <2>1 DEF PassFails, TypeOK, PassType, Passes
<1>4. CASE Crash
    BY <1>4, FaultType DEF Crash, TypeOK, Idle
<1>5. CASE Recover
    BY <1>5 DEF Recover, TypeOK, Idle, Last
<1> QED
    BY <1>1, <1>2, <1>3, <1>4, <1>5

\* The mirroring controller.
LEMMA TypeSync ==
    ASSUME TypeOK,
           (\E b \in Backups : SyncReads(b)) \/ SyncStep \/ SyncFails
    PROVE  TypeOK'
<1> USE DEF objectVars, veleroVars, sharedVars, workerVars, boundVars
<1>0. /\ sync.at # "idle" => sync.backup \in Backups
      /\ UNCHANGED pass => UNCHANGED Last
    BY DEF TypeOK, NoSync, Last
<1>1. ASSUME NEW b \in Backups, SyncReads(b)
      PROVE  TypeOK'
    BY <1>0, <1>1 DEF SyncReads, TypeOK, Idle
<1>2. CASE SyncEnsuresBackup
  <2>1. SyncedBackup \in Resource
      BY DEF SyncedBackup, EmptyStatus, Resource, Status, Milestones
  <2>2. cr' \in [Backups -> Resource \cup {NoBackup}] /\ queue' \subseteq Backups
      BY <1>0, <1>2, <2>1 DEF SyncEnsuresBackup, TypeOK
  <2> QED
      BY <1>0, <1>2, <2>2 DEF SyncEnsuresBackup, TypeOK, Idle
<1>3. CASE SyncRequestsDeletion
  <2>1. dbr' \in [Backups -> Requests]
      BY <1>0, <1>3 DEF SyncRequestsDeletion, TypeOK, Requests
  <2>2. sync' \in {NoSync} \cup [backup : Backups, at : {"exists", "missing", "delete"},
                                canceled : BOOLEAN]
    <3>1. sync \in [backup : Backups, at : {"exists", "missing", "delete"}, canceled : BOOLEAN]
        BY <1>3 DEF SyncRequestsDeletion, TypeOK, NoSync
    <3> QED
        BY <1>3, <3>1 DEF SyncRequestsDeletion
  <2> QED
      BY <1>0, <1>3, <2>1, <2>2 DEF SyncRequestsDeletion, TypeOK, Idle
<1>4. CASE SyncDeletesBackup
  <2>1. /\ cr' \in [Backups -> Resource \cup {NoBackup}]
        /\ expired' \subseteq Backups /\ queue' \subseteq Backups
      BY <1>0, <1>4, DeletedType DEF SyncDeletesBackup, TypeOK
  <2> QED
      BY <1>0, <1>4, <2>1 DEF SyncDeletesBackup, TypeOK, Idle
<1>5. CASE SyncFails
    BY <1>0, <1>5, FaultType DEF SyncFails, TypeOK, Idle
<1> QED
    BY <1>1, <1>2, <1>3, <1>4, <1>5 DEF SyncStep

\* Velero, and what others do to its backups.
LEMMA TypeVelero ==
    ASSUME TypeOK, NEW b \in Backups,
           Velero(b) \/ OutsideRemoves(b) \/ OutsideCreates(b) \/ OutsideRequestsDeletion(b)
    PROVE  TypeOK'
<1> USE DEF objectVars, veleroVars, sharedVars, workerVars, syncVars, boundVars
<1>0. UNCHANGED pass => UNCHANGED Last
    BY DEF Last
<1>1. ASSUME NEW from, NEW to \in Phases, VeleroMoves(b, from, to)
      PROVE  velero' \in [Backups -> Phases] /\ syncQueue' \subseteq Backups
    BY <1>1 DEF VeleroMoves, Notified, TypeOK
<1>2. CASE VeleroPicksUp(b)
    BY <1>0, <1>1, <1>2 DEF VeleroPicksUp, TypeOK, Idle, Phases
<1>3. CASE VeleroFinishes(b)
    BY <1>0, <1>1, <1>3 DEF VeleroFinishes, TypeOK, Idle, Phases
<1>4. CASE VeleroRefusesDeletion(b)
    BY <1>0, <1>4 DEF VeleroRefusesDeletion, TypeOK, Idle, Requests
<1>5. CASE VeleroStartsDeletion(b)
    BY <1>0, <1>1, <1>5 DEF VeleroStartsDeletion, TypeOK, Idle, Phases
<1>6. CASE VeleroEndsDeletion(b)
    BY <1>0, <1>1, <1>6 DEF VeleroEndsDeletion, TypeOK, Idle, Phases, Requests
<1>7. CASE VeleroFailsDeletion(b)
    BY <1>0, <1>7, FaultType DEF VeleroFailsDeletion, TypeOK, Idle, Requests
<1>8. CASE OutsideRemoves(b)
    BY <1>0, <1>1, <1>8, BackupAssumption
       DEF OutsideRemoves, TypeOK, Idle, Phases, BackupAssumption
<1>9. CASE OutsideCreates(b)
    BY <1>0, <1>1, <1>9, BackupAssumption
       DEF OutsideCreates, TypeOK, Idle, Phases, BackupAssumption
<1>10. CASE OutsideRequestsDeletion(b)
    BY <1>0, <1>10, BackupAssumption
       DEF OutsideRequestsDeletion, TypeOK, Idle, Requests, BackupAssumption
<1> QED
    BY <1>2, <1>3, <1>4, <1>5, <1>6, <1>7, <1>8, <1>9, <1>10 DEF Velero

\* Users, time windows and the restore.
LEMMA TypeUser ==
    ASSUME TypeOK,
           \/ \E b \in Backups : UserCreates(b) \/ UserDeletes(b) \/ TimeWindowExpires(b)
           \/ Restore
    PROVE  TypeOK'
<1> USE DEF objectVars, veleroVars, sharedVars, workerVars, syncVars, boundVars
<1>0. UNCHANGED pass => UNCHANGED Last
    BY DEF Last
<1>1. ASSUME NEW b \in Backups, UserCreates(b)
      PROVE  TypeOK'
  <2>1. LocalBackup \in Resource
      BY DEF LocalBackup, EmptyStatus, Resource, Status, Milestones
  <2>2. asked' \in 0 .. MaxUser
      BY <1>1, BackupAssumption DEF UserCreates, TypeOK, BackupAssumption
  <2> QED
      BY <1>0, <1>1, <2>1, <2>2 DEF UserCreates, TypeOK, Idle
<1>2. ASSUME NEW b \in Backups, UserDeletes(b)
      PROVE  TypeOK'
  <2>1. asked' \in 0 .. MaxUser
      BY <1>2, BackupAssumption DEF UserDeletes, TypeOK, BackupAssumption
  <2>2. cr' \in [Backups -> Resource \cup {NoBackup}]
      BY <1>2, DeletedType DEF UserDeletes
  <2> QED
      BY <1>0, <1>2, <2>1, <2>2 DEF UserDeletes, TypeOK, Idle
<1>3. ASSUME NEW b \in Backups, TimeWindowExpires(b)
      PROVE  TypeOK'
    BY <1>0, <1>3 DEF TimeWindowExpires, TypeOK, Idle
<1>4. CASE Restore
    BY <1>0, <1>4
       DEF Restore, RestoreAcquires, RestoreActivates, RestoreDeactivates, RestoreReleases,
           RestoreMoves, TypeOK, Idle
<1> QED
    BY <1>1, <1>2, <1>3, <1>4

\* Every step keeps the types.
LEMMA TypeNext ==
    ASSUME TypeOK, [Next]_vars
    PROVE  TypeOK'
<1>1. CASE UNCHANGED vars
    BY <1>1 DEF vars, objectVars, veleroVars, sharedVars, workerVars, syncVars, boundVars,
                TypeOK, Idle, Last
<1>2. CASE Next
    BY <1>2, TypePreparing, TypeRunning, TypeEnding, TypePass, TypeSync, TypeVelero, TypeUser
       DEF Next, Stage
<1> QED
    BY <1>1, <1>2

\* Every variable keeps its type, for any backups, faults, requests and any
\* interleaving of the controllers, Velero, users, restores and crashes.
THEOREM TypeCorrect == Spec => []TypeOK
<1>1. TypeOK /\ [Next]_vars => TypeOK'
    BY TypeNext
<1> QED
    BY <1>1, TypeInit, PTL DEF Spec

===============================================================================
