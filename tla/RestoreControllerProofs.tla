------------------------ MODULE RestoreControllerProofs ------------------------
(***************************************************************************)
(* Proofs about RestoreController for any set of restores, any workloads   *)
(* and replica counts, and any number of faults.                           *)
(***************************************************************************)
EXTENDS RestoreController, FiniteSetTheorems, TLAPS

-------------------------------------------------------------------------------
(* Facts about passes and their stages. *)

\* The number of stages of every operation.
LEMMA Lasts ==
    ASSUME ~Idle, pass.operation \in Operations
    PROVE  /\ pass.operation = "create" => Last = 15
           /\ pass.operation = "delete" => Last = 4
           /\ pass.operation = "ignore" => Last = 1
BY DEF Last, StagesFor, CreateStages, DeleteStages, IgnoreStages, Operations

\* A pass that is not idle has a restore, an operation and a step of it.
LEMMA PassFields ==
    ASSUME TypeOK, ~Idle
    PROVE  /\ Current \in Restores
           /\ pass \in [restore : Restores, operation : Operations, step : 1 .. 15,
                        waiting : BOOLEAN]
           /\ pass.step <= Last
BY DEF TypeOK, Idle, Current

\* What the four ends of a stage do to the pass and to the queue.
PassType ==
    /\ pass \in {NoPass} \cup [restore : Restores, operation : Operations, step : 1 .. 15,
                               waiting : BOOLEAN]
    /\ Idle \/ pass.step <= Last
    /\ queue \subseteq Restores

\* Going on with the next stage keeps the type of the pass ...
LEMMA ContinueType ==
    ASSUME TypeOK, ~Idle, Continue
    PROVE  PassType'
<1>1. CASE pass.step = Last
    BY <1>1 DEF Continue, PassType, TypeOK, Idle
<1>2. CASE pass.step # Last
  <2>1. pass' = [pass EXCEPT !.step = @ + 1] /\ queue' = queue
      BY <1>2 DEF Continue
  <2>2. Last \in {1, 4, 15}
      BY PassFields, Lasts DEF Operations
  <2>3. pass.step + 1 \in 1 .. 15 /\ pass.step + 1 <= Last
      BY <1>2, <2>2, PassFields
  <2>4. Last' = Last
      BY <2>1, PassFields DEF Last
  <2> QED
      BY <2>1, <2>3, <2>4, PassFields DEF PassType, TypeOK
<1> QED
    BY <1>1, <1>2

\* ... and so does ending it.
LEMMA RequeueType ==
    ASSUME TypeOK, ~Idle, Requeue
    PROVE  PassType'
BY PassFields DEF Requeue, PassType, TypeOK, Idle

\* Writing a resource keeps the types.
LEMMA WriteType ==
    ASSUME TypeOK, ~Idle, NEW x \in Resource, Write(x)
    PROVE  /\ cr' \in [Restores -> Resource \cup {NoRestore}]
           /\ PassType'
<1>1. PassType'
    BY RequeueType DEF Write
<1>2. [x EXCEPT !.announced = x.deleting] \in Resource
    BY DEF Resource
<1> QED
    BY <1>1, <1>2, PassFields DEF Write, Stored, TypeOK

\* The resource of a pass at one of its stages.
LEMMA MemType ==
    ASSUME TypeOK, ~Idle, Present(Current)
    PROVE  Mem \in Resource
BY PassFields DEF TypeOK, Present, Mem

-------------------------------------------------------------------------------
(* Type correctness. *)

\* What a stage knows about its pass.
LEMMA AtStage ==
    ASSUME TypeOK, NEW s, At(s)
    PROVE  ~Idle /\ Current \in Restores /\ Mem \in Resource /\ Present(Current)
BY PassFields, MemType DEF At

\* The scale manager keeps workloads workloads.
LEMMA WorkloadType ==
    ASSUME TypeOK, NEW ws \in SUBSET Workloads
    PROVE  /\ ScaledDown(ws) \in [Workloads -> Workload]
           /\ ScaledUp(ws) \in [Workloads -> Workload]
           /\ Finalized(ws) \in [Workloads -> Workload]
<1>1. workloads \in [Workloads -> Workload]
    BY DEF TypeOK
<1>2. ASSUME NEW wl \in Workload, NEW n \in Nat
      PROVE  SetReplicas(wl, n) \in Workload /\ SetReplicas(wl, n).stored = wl.stored
    BY DEF SetReplicas, Workload
<1>3. ASSUME NEW w \in Workloads
      PROVE  /\ ScaledDown(ws)[w] \in Workload
             /\ ScaledUp(ws)[w] \in Workload
             /\ Finalized(ws)[w] \in Workload
  <2>1. workloads[w] \in Workload
      BY <1>1
  <2>2. [SetReplicas(workloads[w], 0) EXCEPT !.stored = workloads[w].replicas] \in Workload
      BY <2>1, <1>2 DEF Workload
  <2>3. workloads[w].stored # NoCount => SetReplicas(workloads[w], workloads[w].stored) \in Workload
      BY <2>1, <1>2 DEF Workload
  <2>4. [workloads[w] EXCEPT !.stored = NoCount] \in Workload
      BY <2>1 DEF Workload
  <2> QED
      BY <2>1, <2>2, <2>3, <2>4 DEF ScaledDown, ScaledUp, Finalized
<1> QED
    BY <1>3 DEF ScaledDown, ScaledUp, Finalized

\* The initial state has the types.
LEMMA TypeInit == Init => TypeOK
<1>1. Init => workloads \in [Workloads -> Workload]
    BY RestoreAssumption DEF Init, Workload, NoCount, RestoreAssumption
<1>2. Init => faults \in 0 .. MaxFaults /\ outside \in 0 .. MaxOutside /\ asked \in 0 .. MaxUser
    BY RestoreAssumption DEF Init, RestoreAssumption
<1> QED
    BY <1>1, <1>2 DEF Init, TypeOK, Idle, Contents

\* The stages before the Velero restore is created.
LEMMA TypePreparing ==
    ASSUME TypeOK,
           \/ EnsureConditionsInitialized \/ EnsureMetadata \/ EnsureProviderChildState
           \/ EnsureActiveRestoreLease \/ EnsureProviderReady \/ EnsureSourceBackupUsable
           \/ EnsureMaintenanceModeActivated \/ EnsurePreparation \/ CleanupEnds
    PROVE  TypeOK'
<1> USE DEF providerVars, ecoVars, sharedVars, boundVars
<1>0. ASSUME ~Idle, Mem \in Resource
      PROVE  /\ [Mem EXCEPT !.finalizer = TRUE] \in Resource
             /\ [Mem EXCEPT !.prepared = TRUE] \in Resource
             /\ \A o \in Outcomes : [Mem EXCEPT !.succeeded = o] \in Resource
    BY <1>0 DEF Resource
<1>1. CASE EnsureConditionsInitialized
    BY <1>0, <1>1, AtStage, ContinueType, WriteType
       DEF EnsureConditionsInitialized, TypeOK, PassType, Outcomes
<1>2. CASE EnsureMetadata
    BY <1>0, <1>2, AtStage, ContinueType, WriteType DEF EnsureMetadata, TypeOK, PassType
<1>3. CASE EnsureProviderChildState
    BY <1>0, <1>3, AtStage, ContinueType, WriteType
       DEF EnsureProviderChildState, EndsWith, TypeOK, PassType, Outcomes
<1>4. CASE EnsureActiveRestoreLease
    BY <1>0, <1>4, AtStage, ContinueType, RequeueType, WriteType
       DEF EnsureActiveRestoreLease, EndsWith, TypeOK, PassType, Outcomes
<1>5. CASE EnsureProviderReady
    BY <1>5, AtStage, ContinueType, RequeueType DEF EnsureProviderReady, TypeOK, PassType
<1>6. CASE EnsureSourceBackupUsable
    BY <1>0, <1>6, AtStage, ContinueType, WriteType
       DEF EnsureSourceBackupUsable, EndsWith, TypeOK, PassType, Outcomes
<1>7. CASE EnsureMaintenanceModeActivated
  <2>1. faults' \in 0 .. MaxFaults
      BY <1>7, RestoreAssumption
         DEF EnsureMaintenanceModeActivated, Fault, TypeOK, RestoreAssumption
  <2> QED
      BY <1>7, <2>1, AtStage, ContinueType DEF EnsureMaintenanceModeActivated, TypeOK, PassType
<1>8. CASE EnsurePreparation
  <2>1. /\ ~Idle /\ Current \in Restores
        /\ \A ws \in SUBSET Workloads : ScaledDown(ws) \in [Workloads -> Workload]
      BY <1>8, AtStage, WorkloadType DEF EnsurePreparation
  <2>2. workloads' \in [Workloads -> Workload] /\ data' \in Contents /\ faults' \in 0 .. MaxFaults
      BY <1>8, <2>1, RestoreAssumption
         DEF EnsurePreparation, CallFails, Fault, TypeOK, Contents, RestoreAssumption
  <2>3. CASE Continue \/ Requeue
      BY <1>8, <2>1, <2>2, <2>3, ContinueType, RequeueType DEF EnsurePreparation, TypeOK, PassType
  <2>4. CASE pass' = [pass EXCEPT !.waiting = TRUE] /\ queue' = queue
    <3>1. /\ pass' \in [restore : Restores, operation : Operations, step : 1 .. 15,
                        waiting : BOOLEAN]
          /\ pass'.step <= Last'
        BY <2>1, <2>4, PassFields DEF Last
    <3> QED
        BY <1>8, <2>2, <2>4, <3>1 DEF EnsurePreparation, TypeOK
  <2> QED
      BY <1>8, <2>3, <2>4 DEF EnsurePreparation, CallFails
<1>9. CASE CleanupEnds
  <2>1. ~Idle /\ Present(Current)
      BY <1>9 DEF CleanupEnds, Idle, NoPass
  <2> QED
      BY <1>0, <1>9, <2>1, MemType, WriteType DEF CleanupEnds, TypeOK, PassType
<1> QED
    BY <1>1, <1>2, <1>3, <1>4, <1>5, <1>6, <1>7, <1>8, <1>9

\* The stages from the creation of the Velero restore to the end.
LEMMA TypeRestoring ==
    ASSUME TypeOK,
           \/ EnsureProviderRestore \/ EnsureProviderCompletion \/ EnsureScaleUpInitiated
           \/ EnsureWorkloadsReady \/ EnsureScaleUpFinalized
           \/ EnsureMaintenanceModeDeactivated \/ EnsureRestoreCompleted
    PROVE  TypeOK'
<1> USE DEF providerVars, ecoVars, sharedVars, boundVars
<1>0. ASSUME ~Idle, Mem \in Resource
      PROVE  /\ [Mem EXCEPT !.provider = TRUE] \in Resource
             /\ \A x \in Recoveries : [Mem EXCEPT !.recovered = x] \in Resource
             /\ \A o \in Outcomes : [Mem EXCEPT !.succeeded = o] \in Resource
             /\ Stored([Mem EXCEPT !.recovered = "Failed"]) \in [Restores -> Resource \cup {NoRestore}]
    BY <1>0, PassFields DEF Resource, Stored, Recoveries, TypeOK
<1>1. CASE EnsureProviderRestore
  <2>1. ~Idle /\ Current \in Restores /\ Mem \in Resource
      BY <1>1, AtStage DEF EnsureProviderRestore
  <2>2. NewChild(TRUE, "new") \in Child /\ NewChild(FALSE, "completed") \in Child
      BY DEF NewChild, Child
  <2>3. velero' \in [Restores -> Child \cup {NoChild}] /\ foreign' \subseteq Restores
      BY <1>1, <2>1, <2>2 DEF EnsureProviderRestore, TypeOK
  <2>4. outside' = outside \/ Interference
      BY <1>1 DEF EnsureProviderRestore
  <2>5. outside' \in 0 .. MaxOutside
      BY <2>4, RestoreAssumption DEF Interference, TypeOK, RestoreAssumption
  <2> QED
      BY <1>0, <1>1, <2>1, <2>3, <2>5, ContinueType, RequeueType, WriteType
         DEF EnsureProviderRestore, EndsWith, TypeOK, PassType, Outcomes
<1>2. CASE EnsureProviderCompletion
  <2>1. ~Idle /\ Current \in Restores /\ Mem \in Resource
      BY <1>2, AtStage DEF EnsureProviderCompletion
  <2>2. faults' \in 0 .. MaxFaults
      BY <1>2, RestoreAssumption
         DEF EnsureProviderCompletion, CallFails, Fault, TypeOK, RestoreAssumption
  <2> QED
      BY <1>0, <1>2, <2>1, <2>2, ContinueType, RequeueType, WriteType
         DEF EnsureProviderCompletion, EndsWith, CallFails, TypeOK, PassType, Outcomes
<1>3. CASE EnsureScaleUpInitiated
  <2>1. ~Idle /\ Current \in Restores /\ Mem \in Resource
      BY <1>3, AtStage DEF EnsureScaleUpInitiated
  <2>2. faults' \in 0 .. MaxFaults
      BY <1>3, RestoreAssumption
         DEF EnsureScaleUpInitiated, RecoveryStage, CallFails, Fault, TypeOK, RestoreAssumption
  <2>3. workloads' \in [Workloads -> Workload]
      BY <1>3, WorkloadType DEF EnsureScaleUpInitiated, RecoveryStage
  <2> QED
      BY <1>0, <1>3, <2>1, <2>2, <2>3, ContinueType, RequeueType, WriteType
         DEF EnsureScaleUpInitiated, RecoveryStage, CallFails, TypeOK, PassType, Recoveries, Resource
<1>4. CASE EnsureWorkloadsReady
    BY <1>0, <1>4, AtStage, ContinueType, RequeueType, WriteType
       DEF EnsureWorkloadsReady, TypeOK, PassType, Recoveries
<1>5. CASE EnsureScaleUpFinalized
  <2>1. ~Idle /\ Current \in Restores /\ Mem \in Resource
      BY <1>5, AtStage DEF EnsureScaleUpFinalized
  <2>2. faults' \in 0 .. MaxFaults
      BY <1>5, RestoreAssumption
         DEF EnsureScaleUpFinalized, RecoveryStage, CallFails, Fault, TypeOK, RestoreAssumption
  <2>3. workloads' \in [Workloads -> Workload]
      BY <1>5, WorkloadType DEF EnsureScaleUpFinalized, RecoveryStage
  <2> QED
      BY <1>0, <1>5, <2>1, <2>2, <2>3, ContinueType, RequeueType, WriteType
         DEF EnsureScaleUpFinalized, RecoveryStage, CallFails, TypeOK, PassType, Recoveries, Resource
<1>6. CASE EnsureMaintenanceModeDeactivated
  <2>1. ~Idle /\ Current \in Restores /\ Mem \in Resource
      BY <1>6, AtStage DEF EnsureMaintenanceModeDeactivated
  <2>2. faults' \in 0 .. MaxFaults
      BY <1>6, RestoreAssumption
         DEF EnsureMaintenanceModeDeactivated, CallFails, Fault, TypeOK, RestoreAssumption
  <2> QED
      BY <1>0, <1>6, <2>1, <2>2, ContinueType, RequeueType, WriteType
         DEF EnsureMaintenanceModeDeactivated, CallFails, TypeOK, PassType, Recoveries
<1>7. CASE EnsureRestoreCompleted
    BY <1>0, <1>7, AtStage, RequeueType, WriteType
       DEF EnsureRestoreCompleted, EndsWith, TypeOK, PassType, Outcomes
<1> QED
    BY <1>1, <1>2, <1>3, <1>4, <1>5, <1>6, <1>7

\* A deletion makes a Velero restore one that is going or none.
LEMMA DeletedChildType ==
    ASSUME NEW child \in Child
    PROVE  DeletedChild(child) \subseteq Child \cup {NoChild}
BY DEF DeletedChild, Child

\* The stages of the delete and ignore operations, and the ends of a pass.
LEMMA TypeDeleting ==
    ASSUME TypeOK,
           \/ EnsureProviderRestoreDeleted \/ EnsureDeletingStatus \/ EnsureRestoreLeaseReleased
           \/ EnsureDeletionFinalized \/ RestoreVanished \/ PassFails
    PROVE  TypeOK'
<1> USE DEF providerVars, ecoVars, sharedVars, boundVars
<1>1. CASE EnsureProviderRestoreDeleted
  <2>1. ~Idle /\ Current \in Restores
      BY <1>1, AtStage DEF EnsureProviderRestoreDeleted
  <2>2. velero' \in [Restores -> Child \cup {NoChild}]
      BY <1>1, <2>1, DeletedChildType DEF EnsureProviderRestoreDeleted, Owns, TypeOK
  <2> QED
      BY <1>1, <2>1, <2>2, ContinueType, RequeueType
         DEF EnsureProviderRestoreDeleted, TypeOK, PassType
<1>2. CASE EnsureDeletingStatus
  <2>1. ~Idle /\ Mem \in Resource
      BY <1>2, AtStage DEF EnsureDeletingStatus
  <2> QED
      BY <1>2, <2>1, ContinueType, WriteType DEF EnsureDeletingStatus, TypeOK, PassType
<1>3. CASE EnsureRestoreLeaseReleased
    BY <1>3, AtStage, ContinueType DEF EnsureRestoreLeaseReleased, TypeOK, PassType
<1>4. CASE EnsureDeletionFinalized
    BY <1>4, AtStage DEF EnsureDeletionFinalized, Abort, TypeOK, Idle
<1>5. CASE RestoreVanished
    BY <1>5, RequeueType DEF RestoreVanished, TypeOK, PassType
<1>6. CASE PassFails
  <2>1. faults' \in 0 .. MaxFaults
      BY <1>6, RestoreAssumption DEF PassFails, CallFails, Fault, TypeOK, RestoreAssumption
  <2> QED
      BY <1>6, <2>1, RequeueType DEF PassFails, CallFails, TypeOK, PassType
<1> QED
    BY <1>1, <1>2, <1>3, <1>4, <1>5, <1>6

\* Velero, Kubernetes, the provider, users and the backup.
LEMMA TypeEnvironment ==
    ASSUME TypeOK,
           \/ \E r \in Restores : Velero(r)
           \/ Kubernetes \/ ProviderBecomesReady \/ Others \/ Backup
    PROVE  TypeOK'
<1> USE DEF providerVars, ecoVars, sharedVars, workerVars, boundVars
<1>1. /\ velero \in [Restores -> Child \cup {NoChild}]
      /\ \A r \in Restores : velero[r] # NoChild => velero[r] \in Child
    BY DEF TypeOK
<1>7. \A w \in Workloads, b \in BOOLEAN :
          [workloads EXCEPT ![w].ready = b] \in [Workloads -> Workload]
  <2>1. ASSUME NEW w \in Workloads, NEW b \in BOOLEAN
        PROVE  [workloads[w] EXCEPT !.ready = b] \in Workload
      BY DEF TypeOK, Workload
  <2> QED
      BY <2>1 DEF TypeOK
<1>2. CASE \E r \in Restores : Velero(r)
  <2>1. PICK r \in Restores : Velero(r)
      BY <1>2
  <2>2. /\ velero' \in [Restores -> Child \cup {NoChild}]
        /\ data' \in Contents
      BY <1>1, <2>1
         DEF Velero, VeleroStarts, VeleroCompletes, VeleroFails, VeleroEndsDeletion, Owns, Child,
             Contents, TypeOK
  <2> QED
      BY <2>1, <2>2
         DEF Velero, VeleroStarts, VeleroCompletes, VeleroFails, VeleroEndsDeletion, TypeOK, Idle,
             Last
<1>3. CASE Kubernetes \/ ProviderBecomesReady
  <2>1. CASE ResourcesGone
      BY <2>1 DEF ResourcesGone, Contents, TypeOK, Idle, Last
  <2>2. CASE \E w \in Workloads : WorkloadConverges(w)
    <3>1. workloads' \in [Workloads -> Workload]
        BY <2>2, <1>7 DEF WorkloadConverges
    <3> QED
        BY <2>2, <3>1 DEF WorkloadConverges, TypeOK, Idle, Last
  <2> QED
      BY <1>3, <2>1, <2>2
         DEF Kubernetes, ProviderBecomesReady, TypeOK, Idle, Last
<1>4. CASE /\ Outside
           /\ \/ ProviderBecomesUnready
              \/ \E w \in Workloads : WorkloadRegresses(w)
              \/ \E r \in Restores :
                    SourceLost(r) \/ VeleroRestoreDeleted(r) \/ VeleroRestoreCreated(r)
  <2>1. outside' \in 0 .. MaxOutside
      BY <1>4, RestoreAssumption DEF Outside, Interference, TypeOK, RestoreAssumption
  <2>2. workloads' \in [Workloads -> Workload]
      BY <1>4, <1>7
         DEF ProviderBecomesUnready, WorkloadRegresses, SourceLost, VeleroRestoreDeleted,
             VeleroRestoreCreated, TypeOK
  <2>3. velero' \in [Restores -> Child \cup {NoChild}]
    <3>1. CASE \E r \in Restores : VeleroRestoreDeleted(r)
        BY <1>1, <3>1, DeletedChildType DEF VeleroRestoreDeleted
    <3>2. CASE \E r \in Restores : VeleroRestoreCreated(r)
      <4>1. NewChild(FALSE, "completed") \in Child /\ NewChild(FALSE, "failed") \in Child
          BY DEF NewChild, Child
      <4> QED
          BY <1>1, <3>2, <4>1 DEF VeleroRestoreCreated
    <3> QED
        BY <1>1, <1>4, <3>1, <3>2 DEF ProviderBecomesUnready, WorkloadRegresses, SourceLost
  <2>4. /\ foreign' \subseteq Restores /\ usable' \subseteq Restores /\ providerReady' \in BOOLEAN
        /\ data' \in Contents
      BY <1>4
         DEF ProviderBecomesUnready, WorkloadRegresses, SourceLost, VeleroRestoreDeleted,
             VeleroRestoreCreated, TypeOK
  <2> QED
      BY <1>4, <2>1, <2>2, <2>3, <2>4 DEF Outside, TypeOK, Idle, Last
<1>5. CASE Asked /\ ((\E r \in Restores : UserCreates(r) \/ UserDeletes(r)) \/ BackupTakes)
  <2>1. asked' \in 0 .. MaxUser
      BY <1>5, RestoreAssumption DEF Asked, TypeOK, RestoreAssumption
  <2>2. /\ cr' \in [Restores -> Resource \cup {NoRestore}]
        /\ queue' \subseteq Restores
        /\ lease' \in Restores \cup {"free", "backup"}
    <3>1. NewRestore \in Resource
        BY DEF NewRestore, Resource, Recoveries, Outcomes
    <3>2. \A r \in Restores : Present(r) => [cr[r] EXCEPT !.deleting = TRUE] \in Resource
        BY DEF Present, TypeOK, Resource
    <3> QED
        BY <1>5, <3>1, <3>2 DEF UserCreates, UserDeletes, BackupTakes, TypeOK
  <2> QED
      BY <1>5, <2>1, <2>2 DEF Asked, TypeOK, Idle, Last
<1>6. CASE BackupGivesBack \/ \E on \in BOOLEAN : BackupSwitches(on)
    BY <1>6 DEF BackupGivesBack, BackupSwitches, TypeOK, Idle, Last
<1> QED
  <2>1. Others => (\E r \in Restores : UserCreates(r) \/ UserDeletes(r))
                  \/ ProviderBecomesUnready \/ (\E w \in Workloads : WorkloadRegresses(w))
                  \/ \E r \in Restores :
                        SourceLost(r) \/ VeleroRestoreDeleted(r) \/ VeleroRestoreCreated(r)
      BY DEF Others
  <2> QED
      BY <1>2, <1>3, <1>4, <1>5, <1>6, <2>1
         DEF Backup, UserCreates, UserDeletes, BackupTakes, ProviderBecomesUnready,
             WorkloadRegresses, SourceLost, VeleroRestoreDeleted, VeleroRestoreCreated

\* Every step keeps the types.
LEMMA TypeNext == TypeOK /\ [Next]_vars => TypeOK'
<1> SUFFICES ASSUME TypeOK, [Next]_vars
             PROVE  TypeOK'
    OBVIOUS
<1> USE DEF providerVars, ecoVars, sharedVars, workerVars, boundVars
<1>1. CASE \E r \in Restores : Reconcile(r)
  <2>1. PICK r \in Restores : Reconcile(r)
      BY <1>1
  <2>2. PassType'
    <3>1. CASE ~Present(r)
        BY <2>1, <3>1 DEF Reconcile, PassType, TypeOK, Idle
    <3>2. CASE Present(r)
      <4>1. RequiredOperation(r) \in Operations
          BY <3>2 DEF RequiredOperation, Operations
      <4>2. pass' = [restore |-> r, operation |-> RequiredOperation(r), step |-> 1,
                     waiting |-> FALSE]
          BY <2>1, <3>2 DEF Reconcile
      <4>3. Last' >= 1
          BY <4>1, <4>2
             DEF Last, StagesFor, CreateStages, DeleteStages, IgnoreStages, Operations
      <4> QED
          BY <2>1, <4>1, <4>2, <4>3 DEF Reconcile, PassType, TypeOK
    <3> QED
        BY <3>1, <3>2
  <2> QED
      BY <2>1, <2>2 DEF Reconcile, PassType, TypeOK
<1>2. CASE Stage \/ PassFails
    BY <1>2, TypePreparing, TypeRestoring, TypeDeleting DEF Stage
<1>3. CASE \/ \E r \in Restores : Velero(r)
           \/ Kubernetes \/ ProviderBecomesReady \/ Others \/ Backup
    BY <1>3, TypeEnvironment
<1>4. CASE Crash
  <2>1. faults' \in 0 .. MaxFaults
      BY <1>4, RestoreAssumption DEF Crash, Fault, TypeOK, RestoreAssumption
  <2> QED
      BY <1>4, <2>1 DEF Crash, TypeOK, Idle
<1>5. CASE Recover
    BY <1>5 DEF Recover, TypeOK, Idle, Last
<1>6. CASE UNCHANGED vars
    BY <1>6 DEF vars, TypeOK, Idle, Last
<1> QED
    BY <1>1, <1>2, <1>3, <1>4, <1>5, <1>6 DEF Next

\* Every variable has its type, whatever the number of restores, workloads,
\* faults and requests.
THEOREM TypeCorrect == Spec => []TypeOK
BY TypeInit, TypeNext, PTL DEF Spec

-------------------------------------------------------------------------------
(* What the steps do to the pass and to the shared state. *)

\* The stage the controller has reached in a pass of the create operation; 0
\* when it has no such pass.
CreateStep == IF ~Idle /\ pass.operation = "create" THEN pass.step ELSE 0

\* The stages of a pass by their step.
LEMMA StepOf ==
    ASSUME TypeOK
    PROVE  /\ At("ConditionsInitialized") => CreateStep = 1
           /\ At("Metadata") => CreateStep = 2
           /\ At("ProviderChildState") => CreateStep = 3
           /\ At("ActiveRestoreLease") => CreateStep = 4
           /\ At("ProviderReady") => CreateStep = 5
           /\ At("SourceBackupUsable") => CreateStep = 6
           /\ At("MaintenanceModeActivated") => CreateStep = 7
           /\ At("Preparation") => CreateStep = 8
           /\ At("ProviderRestore") => CreateStep = 9
           /\ At("ProviderCompletion") => CreateStep = 10
           /\ At("ScaleUpInitiated") => CreateStep = 11
           /\ At("WorkloadsReady") => CreateStep = 12
           /\ At("ScaleUpFinalized") => CreateStep = 13
           /\ At("MaintenanceModeDeactivated") => CreateStep = 14
           /\ At("RestoreCompleted") => CreateStep = 15
           /\ At("ProviderRestoreDeleted") => pass.operation = "delete" /\ pass.step = 1
           /\ At("DeletingStatus") => pass.operation = "delete" /\ pass.step = 2
           /\ At("RestoreLeaseReleased") =>
                 \/ pass.operation = "delete" /\ pass.step = 3
                 \/ pass.operation = "ignore" /\ pass.step = 1
           /\ At("DeletionFinalized") => pass.operation = "delete" /\ pass.step = 4
<1>1. CASE ~Idle /\ pass.operation = "create"
    BY <1>1, PassFields DEF At, CreateStep, StagesFor, CreateStages
<1>2. CASE ~Idle /\ pass.operation = "delete"
    BY <1>2, PassFields, Lasts DEF At, StagesFor, DeleteStages, Operations
<1>3. CASE ~Idle /\ pass.operation = "ignore"
    BY <1>3, PassFields, Lasts DEF At, StagesFor, IgnoreStages, Operations
<1> QED
    BY <1>1, <1>2, <1>3, PassFields DEF At, Operations

\* The same for the actions.
LEMMA ActionStepOf ==
    ASSUME TypeOK
    PROVE  /\ EnsureConditionsInitialized => CreateStep = 1
           /\ EnsureMetadata => CreateStep = 2
           /\ EnsureProviderChildState => CreateStep = 3
           /\ EnsureActiveRestoreLease => CreateStep = 4
           /\ EnsureProviderReady => CreateStep = 5
           /\ EnsureSourceBackupUsable => CreateStep = 6
           /\ EnsureMaintenanceModeActivated => CreateStep = 7
           /\ EnsurePreparation => CreateStep = 8
           /\ EnsureProviderRestore => CreateStep = 9
           /\ EnsureProviderCompletion => CreateStep = 10
           /\ EnsureScaleUpInitiated => CreateStep = 11
           /\ EnsureWorkloadsReady => CreateStep = 12
           /\ EnsureScaleUpFinalized => CreateStep = 13
           /\ EnsureMaintenanceModeDeactivated => CreateStep = 14
           /\ EnsureRestoreCompleted => CreateStep = 15
           /\ EnsureProviderRestoreDeleted => pass.operation = "delete" /\ pass.step = 1
           /\ EnsureDeletingStatus => pass.operation = "delete" /\ pass.step = 2
           /\ EnsureRestoreLeaseReleased =>
                 \/ pass.operation = "delete" /\ pass.step = 3
                 \/ pass.operation = "ignore" /\ pass.step = 1
           /\ EnsureDeletionFinalized => pass.operation = "delete" /\ pass.step = 4
<1>1. EnsureConditionsInitialized => At("ConditionsInitialized")
    BY DEF EnsureConditionsInitialized
<1>2. EnsureMetadata => At("Metadata")
    BY DEF EnsureMetadata
<1>3. EnsureProviderChildState => At("ProviderChildState")
    BY DEF EnsureProviderChildState
<1>4. EnsureActiveRestoreLease => At("ActiveRestoreLease")
    BY DEF EnsureActiveRestoreLease
<1>5. EnsureProviderReady => At("ProviderReady")
    BY DEF EnsureProviderReady
<1>6. EnsureSourceBackupUsable => At("SourceBackupUsable")
    BY DEF EnsureSourceBackupUsable
<1>7. EnsureMaintenanceModeActivated => At("MaintenanceModeActivated")
    BY DEF EnsureMaintenanceModeActivated
<1>8. EnsurePreparation => At("Preparation")
    BY DEF EnsurePreparation
<1>9. EnsureProviderRestore => At("ProviderRestore")
    BY DEF EnsureProviderRestore
<1>10. EnsureProviderCompletion => At("ProviderCompletion")
    BY DEF EnsureProviderCompletion
<1>11. EnsureScaleUpInitiated => At("ScaleUpInitiated")
    BY DEF EnsureScaleUpInitiated
<1>12. EnsureWorkloadsReady => At("WorkloadsReady")
    BY DEF EnsureWorkloadsReady
<1>13. EnsureScaleUpFinalized => At("ScaleUpFinalized")
    BY DEF EnsureScaleUpFinalized
<1>14. EnsureMaintenanceModeDeactivated => At("MaintenanceModeDeactivated")
    BY DEF EnsureMaintenanceModeDeactivated
<1>15. EnsureRestoreCompleted => At("RestoreCompleted")
    BY DEF EnsureRestoreCompleted
<1>16. EnsureProviderRestoreDeleted => At("ProviderRestoreDeleted")
    BY DEF EnsureProviderRestoreDeleted
<1>17. EnsureDeletingStatus => At("DeletingStatus")
    BY DEF EnsureDeletingStatus
<1>18. EnsureRestoreLeaseReleased => At("RestoreLeaseReleased")
    BY DEF EnsureRestoreLeaseReleased
<1>19. EnsureDeletionFinalized => At("DeletionFinalized")
    BY DEF EnsureDeletionFinalized
<1> QED
    BY StepOf, <1>1, <1>2, <1>3, <1>4, <1>5, <1>6, <1>7, <1>8, <1>9, <1>10,
       <1>11, <1>12, <1>13, <1>14, <1>15, <1>16, <1>17, <1>18, <1>19

\* A stage ends its pass, takes it to the next stage, or leaves it waiting for
\* the cleanup.
Ended    == Idle' /\ pass'.waiting = FALSE
Advanced == /\ ~Idle' /\ pass'.restore = pass.restore
            /\ pass'.operation = pass.operation /\ pass'.step = pass.step + 1
            /\ pass'.waiting = pass.waiting
Waits    == /\ ~Idle' /\ pass'.restore = pass.restore
            /\ pass'.operation = pass.operation /\ pass'.step = pass.step
            /\ pass'.waiting = TRUE

\* Each way to end a stage ends the pass or advances it by one step.
LEMMA Moves ==
    ASSUME TypeOK, ~Idle
    PROVE  /\ Continue => Ended \/ Advanced
           /\ Requeue => Ended
           /\ Abort => Ended
           /\ \A x : Write(x) => Ended
           /\ pass' = [pass EXCEPT !.waiting = TRUE] => Waits
BY PassFields
   DEF Continue, Requeue, Abort, Write, Ended, Advanced, Waits, Idle, NoPass, Operations

\* What the stages do to the pass, and which of them touch what is shared.
LEMMA StageMoves ==
    ASSUME TypeOK, Stage \/ PassFails
    PROVE  /\ ~Idle
           /\ Ended \/ Advanced \/ (EnsurePreparation /\ Waits)
           /\ Ended \/ (Present(Current) /\ ~pass.waiting)
           /\ UNCHANGED lease \/ EnsureActiveRestoreLease \/ EnsureRestoreLeaseReleased
           /\ \/ UNCHANGED maintenance
              \/ EnsureMaintenanceModeActivated \/ EnsureProviderCompletion
              \/ EnsureMaintenanceModeDeactivated
           /\ \/ UNCHANGED workloads
              \/ EnsurePreparation \/ EnsureScaleUpInitiated \/ EnsureScaleUpFinalized
           /\ UNCHANGED data \/ EnsurePreparation
           /\ UNCHANGED velero \/ EnsureProviderRestore \/ EnsureProviderRestoreDeleted
           /\ UNCHANGED <<usable, providerReady>>
           /\ \A r \in Restores : r # Current => cr'[r] = cr[r] /\ velero'[r] = velero[r]
<1> USE DEF providerVars, ecoVars, sharedVars, boundVars
<1> DEFINE Others1 == \A r \in Restores : r # Current => cr'[r] = cr[r]
           Others2 == \A r \in Restores : r # Current => velero'[r] = velero[r]
<1>0. /\ \A x : Write(x) => Others1
      /\ ~Idle => Current \in Restores
      /\ cr \in [Restores -> Resource \cup {NoRestore}]
      /\ velero \in [Restores -> Child \cup {NoChild}]
    BY PassFields DEF Write, Stored, TypeOK
<1>1. CASE EnsureConditionsInitialized \/ EnsureMetadata \/ EnsureProviderChildState
    BY <1>0, <1>1, Moves
       DEF At, EnsureConditionsInitialized, EnsureMetadata, EnsureProviderChildState, EndsWith
<1>2. CASE EnsureActiveRestoreLease \/ EnsureProviderReady \/ EnsureSourceBackupUsable
    BY <1>0, <1>2, Moves
       DEF At, EnsureActiveRestoreLease, EnsureProviderReady, EnsureSourceBackupUsable, EndsWith
<1>3. CASE EnsureMaintenanceModeActivated \/ EnsurePreparation
    BY <1>3, Moves DEF At, EnsureMaintenanceModeActivated, EnsurePreparation, CallFails
<1>4. CASE CleanupEnds
    BY <1>0, <1>4, Moves DEF CleanupEnds, Idle, NoPass
<1>5. CASE EnsureProviderRestore \/ EnsureProviderCompletion
    BY <1>0, <1>5, Moves
       DEF At, EnsureProviderRestore, EnsureProviderCompletion, EndsWith, CallFails
<1>6. CASE EnsureScaleUpInitiated \/ EnsureScaleUpFinalized
    BY <1>0, <1>6, Moves
       DEF At, EnsureScaleUpInitiated, EnsureScaleUpFinalized, RecoveryStage, CallFails, Stored
<1>7. CASE EnsureWorkloadsReady
    BY <1>0, <1>7, Moves DEF At, EnsureWorkloadsReady
<1>8. CASE EnsureMaintenanceModeDeactivated \/ EnsureRestoreCompleted
    BY <1>0, <1>8, Moves
       DEF At, EnsureMaintenanceModeDeactivated, EnsureRestoreCompleted, EndsWith, CallFails
<1>9. CASE EnsureProviderRestoreDeleted \/ EnsureDeletingStatus
    BY <1>0, <1>9, Moves DEF At, EnsureProviderRestoreDeleted, EnsureDeletingStatus
<1>10. CASE EnsureRestoreLeaseReleased \/ EnsureDeletionFinalized
    BY <1>0, <1>10, Moves DEF At, EnsureRestoreLeaseReleased, EnsureDeletionFinalized
<1>11. CASE RestoreVanished \/ PassFails
    BY <1>11, Moves DEF RestoreVanished, PassFails, CallFails
<1> QED
    BY <1>1, <1>2, <1>3, <1>4, <1>5, <1>6, <1>7, <1>8, <1>9, <1>10, <1>11 DEF Stage

\* What a pass knows when it goes on with the next stage.
LEMMA Advances ==
    ASSUME TypeOK, Stage \/ PassFails, Advanced
    PROVE  /\ UNCHANGED cr
           /\ CreateStep = 2 => Mem.finalizer
           /\ CreateStep = 4 => lease = Current /\ UNCHANGED lease
           /\ CreateStep = 7 => \/ Mem.recovered = "MaintenanceModeDeactivated"
                                \/ maintenance' = TRUE \/ unnoticed' = TRUE
           /\ CreateStep = 8 => AlreadyPrepared(Current) /\ UNCHANGED workloads
           /\ CreateStep = 10 => Mem.provider
           /\ CreateStep = 12 => AreWorkloadsReady /\ UNCHANGED workloads
           /\ CreateStep = 13 => workloads' = Finalized(Workloads)
           /\ CreateStep = 14 => maintenance' = FALSE
           /\ CreateStep = 0 /\ pass.operation = "delete" /\ pass.step = 1
                 => ~Owns(Current) /\ UNCHANGED velero
<1>0. ~Idle
    BY StageMoves
<1>1. ~Requeue /\ ~Abort /\ (\A x : ~Write(x)) /\ ~CallFails
    BY <1>0, Moves DEF Ended, Advanced, CallFails
<1>2. CreateStep = 0 => pass.operation # "create"
    BY <1>0, PassFields DEF CreateStep
<1>3. CASE EnsureConditionsInitialized \/ EnsureMetadata \/ EnsureProviderChildState
    BY <1>1, <1>2, <1>3, ActionStepOf
       DEF EnsureConditionsInitialized, EnsureMetadata, EnsureProviderChildState, EndsWith
<1>4. CASE EnsureActiveRestoreLease \/ EnsureProviderReady \/ EnsureSourceBackupUsable
    BY <1>1, <1>4, ActionStepOf
       DEF EnsureActiveRestoreLease, EnsureProviderReady, EnsureSourceBackupUsable, EndsWith
<1>5. CASE EnsureMaintenanceModeActivated
  <2>1. \/ Mem.recovered = "MaintenanceModeDeactivated"
        \/ maintenance' = TRUE \/ unnoticed' = TRUE
      BY <1>5 DEF EnsureMaintenanceModeActivated
  <2>2. UNCHANGED cr
      BY <1>5 DEF EnsureMaintenanceModeActivated
  <2> QED
      BY <1>5, <2>1, <2>2, ActionStepOf
<1>6. CASE EnsurePreparation
  <2>1. pass' # [pass EXCEPT !.waiting = TRUE]
      BY PassFields, <1>0 DEF Advanced
  <2> QED
      BY <1>1, <1>6, <2>1, ActionStepOf DEF EnsurePreparation, ecoVars
<1>7. CASE EnsureProviderRestore
  <2>1. UNCHANGED cr
      BY <1>1, <1>7 DEF EnsureProviderRestore, EndsWith, NewChild
  <2> QED
      BY <1>7, <2>1, ActionStepOf
<1>14. CASE EnsureProviderCompletion
  <2>1. UNCHANGED cr /\ Mem.provider
      BY <1>1, <1>14 DEF EnsureProviderCompletion, EndsWith
  <2> QED
      BY <1>14, <2>1, ActionStepOf
<1>8. CASE EnsureScaleUpInitiated \/ EnsureScaleUpFinalized
    BY <1>1, <1>8, ActionStepOf
       DEF EnsureScaleUpInitiated, EnsureScaleUpFinalized, RecoveryStage
<1>9. CASE EnsureWorkloadsReady
    BY <1>1, <1>9, ActionStepOf DEF EnsureWorkloadsReady, ecoVars
<1>10. CASE EnsureMaintenanceModeDeactivated
  <2>1. UNCHANGED cr /\ maintenance' = FALSE
      BY <1>1, <1>10 DEF EnsureMaintenanceModeDeactivated
  <2> QED
      BY <1>10, <2>1, ActionStepOf
<1>15. CASE EnsureRestoreCompleted
    BY <1>1, <1>15, ActionStepOf DEF EnsureRestoreCompleted, EndsWith
<1>11. CASE EnsureProviderRestoreDeleted
    BY <1>1, <1>11, StepOf DEF EnsureProviderRestoreDeleted, CreateStep
<1>12. CASE EnsureDeletingStatus \/ EnsureRestoreLeaseReleased \/ EnsureDeletionFinalized
    BY <1>1, <1>12, ActionStepOf
       DEF EnsureDeletingStatus, EnsureRestoreLeaseReleased, EnsureDeletionFinalized, CreateStep
<1>13. ~CleanupEnds /\ ~RestoreVanished /\ ~PassFails
    BY <1>1 DEF CleanupEnds, RestoreVanished, PassFails
<1> QED
    BY <1>3, <1>4, <1>5, <1>6, <1>7, <1>8, <1>9, <1>10, <1>11, <1>12, <1>13,
       <1>14, <1>15 DEF Stage

-------------------------------------------------------------------------------
(* The lease and the maintenance mode. *)

\* From the stage after ensureActiveRestoreLease on, a pass has the lease.
PassHoldsLease == CreateStep > 4 => lease = Current

\* What others do leaves the pass and a lease of a restore alone.
LEMMA OthersMove ==
    ASSUME TypeOK,
           \/ \E r \in Restores : Velero(r)
           \/ Kubernetes \/ ProviderBecomesReady \/ Others \/ Backup \/ Recover
    PROVE  /\ UNCHANGED pass
           /\ UNCHANGED lease \/ (lease = "free" /\ lease' = "backup")
                              \/ (lease = "backup" /\ lease' = "free")
           /\ UNCHANGED maintenance \/ lease = "backup"
BY DEF Velero, VeleroStarts, VeleroCompletes, VeleroFails, VeleroEndsDeletion, Kubernetes,
       ResourcesGone, WorkloadConverges, ProviderBecomesReady, Others, Outside, Asked,
       ProviderBecomesUnready, WorkloadRegresses, SourceLost, VeleroRestoreDeleted,
       VeleroRestoreCreated, UserCreates, UserDeletes, Backup, BackupTakes, BackupGivesBack,
       BackupSwitches, Recover, sharedVars, workerVars

\* Every step keeps PassHoldsLease.
LEMMA LeaseNext == TypeOK /\ PassHoldsLease /\ [Next]_vars => PassHoldsLease'
<1> SUFFICES ASSUME TypeOK, PassHoldsLease, [Next]_vars
             PROVE  PassHoldsLease'
    OBVIOUS
<1>0. "free" \notin Restores /\ "backup" \notin Restores
    BY RestoreAssumption DEF RestoreAssumption
<1>1. CASE Stage \/ PassFails
  <2>1. CASE Ended
      BY <2>1 DEF PassHoldsLease, CreateStep, Ended
  <2>2. CASE EnsurePreparation /\ Waits
      BY <1>1, <2>2, StageMoves
         DEF PassHoldsLease, CreateStep, Waits, EnsurePreparation, sharedVars, Current
  <2>3. CASE Advanced
    <3>1. CreateStep' > 4 => CreateStep >= 4
        BY <1>1, <2>3, PassFields, StageMoves DEF CreateStep, Advanced
    <3>2. CreateStep = 4 => lease' = Current
        BY <1>1, <2>3, Advances
    <3>3. CreateStep > 4 => UNCHANGED lease
        BY <1>1, StageMoves, ActionStepOf DEF CreateStep
    <3>4. CreateStep \in Nat
        BY PassFields DEF CreateStep
    <3> QED
        BY <2>3, <3>1, <3>2, <3>3, <3>4 DEF PassHoldsLease, Advanced, Current
  <2> QED
      BY <1>1, <2>1, <2>2, <2>3, StageMoves
<1>2. CASE \E r \in Restores : Reconcile(r)
    BY <1>2 DEF Reconcile, PassHoldsLease, CreateStep, Idle, NoPass
<1>3. CASE \/ \E r \in Restores : Velero(r)
           \/ Kubernetes \/ ProviderBecomesReady \/ Others \/ Backup \/ Recover
    BY <1>0, <1>3, OthersMove, PassFields DEF PassHoldsLease, CreateStep, Idle, Current
<1>4. CASE Crash
    BY <1>4 DEF Crash, PassHoldsLease, CreateStep, Idle
<1>5. CASE UNCHANGED vars
    BY <1>5 DEF vars, sharedVars, workerVars, PassHoldsLease, CreateStep, Idle, Current
<1> QED
    BY <1>1, <1>2, <1>3, <1>4, <1>5 DEF Next

\* From ensureActiveRestoreLease to its end, a pass of the create operation has
\* the lease: nothing else takes it while the worker is in the pass.
THEOREM LeaseIsHeld == Spec => []PassHoldsLease
<1>1. Init => PassHoldsLease
    BY DEF Init, PassHoldsLease, CreateStep, Idle
<1> QED
    BY <1>1, TypeCorrect, LeaseNext, PTL DEF Spec

\* A step of the restore controller and of its environment is one of the
\* protocol: the maintenance mode is switched under the lease only.
LEMMA ProtocolNext == TypeOK /\ PassHoldsLease /\ [Next]_vars => [Protocol!Next]_(Protocol!vars)
<1> SUFFICES ASSUME TypeOK, PassHoldsLease, [Next]_vars
             PROVE  [Protocol!Next]_(Protocol!vars)
    OBVIOUS
<1> DEFINE holder == IF lease \in Restores THEN "restore" ELSE lease
<1>0. /\ "free" \notin Restores /\ "backup" \notin Restores /\ "restore" \notin Restores
      /\ maintenance \in BOOLEAN /\ maintenance' \in BOOLEAN
    BY TypeNext, RestoreAssumption DEF RestoreAssumption, TypeOK
<1>1. ASSUME UNCHANGED lease, UNCHANGED maintenance \/ lease \in Restores \cup {"backup"}
      PROVE  [Protocol!Next]_(Protocol!vars)
  <2>1. holder' = holder
      BY <1>1
  <2>2. lease \in Restores \cup {"backup"} => holder \in {"backup", "restore"}
      BY <1>0
  <2> QED
      BY <1>0, <1>1, <2>1, <2>2 DEF Protocol!Next, Protocol!Switch, Protocol!vars
<1>2. ASSUME UNCHANGED maintenance,
             \/ lease = "free" /\ lease' \in Restores \cup {"backup"}
             \/ lease \in Restores \cup {"backup"} /\ lease' = "free"
             \/ lease \in Restores /\ lease' \in Restores
      PROVE  [Protocol!Next]_(Protocol!vars)
  <2>1. CASE lease = "free" /\ lease' \in Restores \cup {"backup"}
      BY <1>0, <1>2, <2>1 DEF Protocol!Next, Protocol!Take
  <2>2. CASE lease \in Restores \cup {"backup"} /\ lease' = "free"
      BY <1>0, <1>2, <2>2 DEF Protocol!Next, Protocol!GiveBack
  <2>3. CASE lease \in Restores /\ lease' \in Restores
      BY <1>2, <2>3 DEF Protocol!vars
  <2> QED
      BY <1>2, <2>1, <2>2, <2>3
<1>3. CASE Stage \/ PassFails
  <2>1. CASE EnsureActiveRestoreLease
    <3>1. Current \in Restores
        BY <1>3, PassFields, StageMoves
    <3>2. UNCHANGED maintenance /\ (UNCHANGED lease \/ (lease' = Current /\ (lease = "free" \/ HolderOver)))
        BY <2>1 DEF EnsureActiveRestoreLease
    <3> QED
        BY <1>1, <1>2, <3>1, <3>2 DEF HolderOver
  <2>2. CASE EnsureRestoreLeaseReleased
    <3>1. Current \in Restores
        BY <1>3, PassFields, StageMoves
    <3>2. UNCHANGED maintenance /\ (UNCHANGED lease \/ (lease = Current /\ lease' = "free"))
        BY <2>2 DEF EnsureRestoreLeaseReleased
    <3> QED
        BY <1>1, <1>2, <3>1, <3>2
  <2>3. CASE \/ EnsureMaintenanceModeActivated \/ EnsureProviderCompletion
             \/ EnsureMaintenanceModeDeactivated
    <3>1. CreateStep > 4 /\ UNCHANGED lease
        BY <1>3, <2>3, ActionStepOf, StageMoves DEF CreateStep
    <3>2. lease \in Restores
        BY <1>3, <3>1, PassFields, StageMoves DEF PassHoldsLease
    <3> QED
        BY <1>1, <3>1, <3>2
  <2> QED
      BY <1>1, <1>3, <2>1, <2>2, <2>3, StageMoves
<1>4. CASE \/ \E r \in Restores : Velero(r)
           \/ Kubernetes \/ ProviderBecomesReady \/ Others \/ Backup \/ Recover
  <2>1. UNCHANGED lease \/ UNCHANGED maintenance
      BY <1>4
         DEF Velero, VeleroStarts, VeleroCompletes, VeleroFails, VeleroEndsDeletion, Kubernetes,
             ResourcesGone, WorkloadConverges, ProviderBecomesReady, Others, Outside, Asked,
             ProviderBecomesUnready, WorkloadRegresses, SourceLost, VeleroRestoreDeleted,
             VeleroRestoreCreated, UserCreates, UserDeletes, Backup, BackupTakes,
             BackupGivesBack, BackupSwitches, Recover, sharedVars
  <2> QED
      BY <1>1, <1>2, <1>4, <2>1, OthersMove
<1>5. CASE Crash \/ (\E r \in Restores : Reconcile(r)) \/ UNCHANGED vars
    BY <1>1, <1>5 DEF Crash, Reconcile, vars, sharedVars
<1> QED
    BY <1>3, <1>4, <1>5 DEF Next

\* The restore controller keeps to MaintenanceProtocol, for any number of
\* restores and faults: what BackupController assumes about a competing restore
\* is what a restore does.
THEOREM RestoreKeepsProtocol == Spec => KeepsProtocol
<1>1. Init => Protocol!Init
    BY RestoreAssumption DEF Init, Protocol!Init, RestoreAssumption
<1> QED
    BY <1>1, TypeCorrect, LeaseIsHeld, ProtocolNext, PTL DEF Spec, KeepsProtocol, Protocol!Spec

-------------------------------------------------------------------------------
(* The replica counts. *)

\* CountsKept, and what the recovery knows of the workloads after it observed
\* their readiness and after it removed the labels.
CountsInv ==
    /\ CountsKept
    /\ CreateStep > 12 =>
          \A w \in Workloads : workloads[w].stored \in {NoCount, workloads[w].replicas}
    /\ CreateStep > 13 => \A w \in Workloads : workloads[w].stored = NoCount

\* What the scale manager does to the counts of one workload.
LEMMA CountsAfter ==
    ASSUME TypeOK, NEW ws \in SUBSET Workloads, NEW w \in Workloads
    PROVE  /\ ScaledDown(ws)[w].stored = IF w \in ws /\ workloads[w].stored = NoCount
                                         THEN workloads[w].replicas ELSE workloads[w].stored
           /\ ScaledDown(ws)[w].replicas = IF w \in ws /\ workloads[w].stored = NoCount
                                           THEN 0 ELSE workloads[w].replicas
           /\ ScaledUp(ws)[w].stored = workloads[w].stored
           /\ ScaledUp(ws)[w].replicas = IF w \in ws /\ workloads[w].stored # NoCount
                                         THEN workloads[w].stored ELSE workloads[w].replicas
           /\ Finalized(ws)[w].replicas = workloads[w].replicas
           /\ Finalized(ws)[w].stored = IF w \in ws THEN NoCount ELSE workloads[w].stored
<1>1. workloads[w] \in Workload
    BY DEF TypeOK
<1> QED
    BY <1>1 DEF ScaledDown, ScaledUp, Finalized, SetReplicas, Workload, NoCount

\* The counts survive every stage.
LEMMA CountsStage ==
    ASSUME TypeOK, CountsInv, Stage \/ PassFails
    PROVE  CountsKept'
<1>0. \A w \in Workloads : Replicas[w] \in Nat /\ Replicas[w] # NoCount
    BY RestoreAssumption DEF RestoreAssumption, NoCount
<1>1. CASE UNCHANGED workloads
    BY <1>1 DEF CountsInv, CountsKept
<1>2. CASE EnsurePreparation
  <2>1. UNCHANGED workloads \/ \E ws \in SUBSET Workloads : workloads' = ScaledDown(ws)
      BY <1>2 DEF EnsurePreparation, ecoVars
  <2> QED
      BY <1>0, <1>1, <2>1, CountsAfter DEF CountsInv, CountsKept
<1>3. CASE EnsureScaleUpInitiated
  <2>1. \E ws \in SUBSET Workloads : workloads' = ScaledUp(ws)
      BY <1>3 DEF EnsureScaleUpInitiated, RecoveryStage
  <2> QED
      BY <1>0, <2>1, CountsAfter DEF CountsInv, CountsKept
<1>4. CASE EnsureScaleUpFinalized
  <2>1. \E ws \in SUBSET Workloads : workloads' = Finalized(ws)
      BY <1>4 DEF EnsureScaleUpFinalized, RecoveryStage
  <2>2. \A w \in Workloads : workloads[w].stored \in {NoCount, workloads[w].replicas}
      BY <1>4, ActionStepOf DEF CountsInv
  <2> QED
      BY <1>0, <2>1, <2>2, CountsAfter DEF CountsInv, CountsKept
<1> QED
    BY <1>1, <1>2, <1>3, <1>4, StageMoves

\* What is not the worker's leaves the counts alone.
LEMMA OthersKeepCounts ==
    ASSUME TypeOK,
           \/ \E r \in Restores : Velero(r)
           \/ Kubernetes \/ ProviderBecomesReady \/ Others \/ Backup \/ Recover
    PROVE  \A w \in Workloads : /\ workloads'[w].replicas = workloads[w].replicas
                                /\ workloads'[w].stored = workloads[w].stored
<1>1. UNCHANGED workloads \/ \E v \in Workloads : WorkloadConverges(v) \/ WorkloadRegresses(v)
    BY DEF Velero, VeleroStarts, VeleroCompletes, VeleroFails, VeleroEndsDeletion, Kubernetes,
           ResourcesGone, ProviderBecomesReady, Others, Asked, ProviderBecomesUnready,
           SourceLost, VeleroRestoreDeleted, VeleroRestoreCreated, UserCreates, UserDeletes,
           Backup, BackupTakes, BackupGivesBack, BackupSwitches, Recover, ecoVars
<1>2. ASSUME NEW v \in Workloads, NEW b \in BOOLEAN,
             workloads' = [workloads EXCEPT ![v].ready = b]
      PROVE  \A w \in Workloads : /\ workloads'[w].replicas = workloads[w].replicas
                                  /\ workloads'[w].stored = workloads[w].stored
    BY <1>2 DEF TypeOK, Workload
<1> QED
    BY <1>1, <1>2 DEF WorkloadConverges, WorkloadRegresses

\* Every step keeps CountsInv.
LEMMA CountsNext == TypeOK /\ CountsInv /\ [Next]_vars => CountsInv'
<1> SUFFICES ASSUME TypeOK, CountsInv, [Next]_vars
             PROVE  CountsInv'
    OBVIOUS
<1>1. CASE Stage \/ PassFails
  <2>1. CountsKept'
      BY <1>1, CountsStage
  <2>2. CASE Ended
      BY <2>1, <2>2 DEF CountsInv, CreateStep, Ended
  <2>3. CASE EnsurePreparation /\ Waits
    <3>1. CreateStep' = 8
        BY <1>1, <2>3, ActionStepOf, StageMoves DEF CreateStep, Waits
    <3> QED
        BY <2>1, <3>1 DEF CountsInv
  <2>4. CASE Advanced
    <3>1. CreateStep \in Nat /\ CreateStep' \in {0, CreateStep + 1}
        BY <1>1, <2>4, PassFields, StageMoves DEF CreateStep, Advanced
    <3>2. CASE CreateStep < 12
        BY <2>1, <3>1, <3>2 DEF CountsInv
    <3>3. CASE CreateStep = 12
        BY <1>1, <2>1, <2>4, <3>1, <3>3, Advances DEF CountsInv, AreWorkloadsReady
    <3>4. CASE CreateStep = 13
      <4>1. \A w \in Workloads : workloads'[w].stored = NoCount
          BY <1>1, <2>4, <3>4, Advances, CountsAfter
      <4> QED
          BY <2>1, <4>1 DEF CountsInv
    <3>5. CASE CreateStep > 13
      <4>1. UNCHANGED workloads
          BY <1>1, <3>5, ActionStepOf, StageMoves
      <4> QED
          BY <2>1, <3>5, <4>1 DEF CountsInv
    <3> QED
        BY <3>1, <3>2, <3>3, <3>4, <3>5
  <2> QED
      BY <1>1, <2>2, <2>3, <2>4, StageMoves
<1>2. CASE \E r \in Restores : Reconcile(r)
  <2>1. CreateStep' \in {0, 1} /\ UNCHANGED workloads
      BY <1>2 DEF Reconcile, CreateStep, Idle, ecoVars
  <2> QED
      BY <2>1 DEF CountsInv, CountsKept
<1>3. CASE \/ \E r \in Restores : Velero(r)
           \/ Kubernetes \/ ProviderBecomesReady \/ Others \/ Backup \/ Recover
  <2>1. CreateStep' = CreateStep
      BY <1>3, OthersMove DEF CreateStep, Idle
  <2> QED
      BY <1>3, <2>1, OthersKeepCounts DEF CountsInv, CountsKept
<1>4. CASE Crash
    BY <1>4 DEF Crash, CountsInv, CountsKept, CreateStep, Idle, ecoVars
<1>5. CASE UNCHANGED vars
    BY <1>5 DEF vars, workerVars, ecoVars, CountsInv, CountsKept, CreateStep, Idle
<1> QED
    BY <1>1, <1>2, <1>3, <1>4, <1>5 DEF Next

\* CountsInv holds in every state.
LEMMA CountsInvariant == Spec => []CountsInv
<1>1. Init => CountsInv
    BY DEF Init, CountsInv, CountsKept, CreateStep, Idle
<1> QED
    BY <1>1, TypeCorrect, CountsNext, PTL DEF Spec

\* The replica count users have set is in the spec or in the label of every
\* workload, for any number of workloads, restores and failed calls.
THEOREM ReplicaCountsKept == Spec => []CountsKept
<1>1. CountsInv => CountsKept
    BY DEF CountsInv
<1> QED
    BY <1>1, CountsInvariant, PTL

===============================================================================
