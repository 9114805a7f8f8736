--------------------------- MODULE RestoreSafetyProofs ---------------------------
(***************************************************************************)
(* RestoreController, continued: at most one Velero restore at a time, and *)
(* what the ecosystem looks like while it runs and after it, for any       *)
(* number of restores, workloads and faults.                               *)
(***************************************************************************)
EXTENDS RestoreControllerProofs

\* What a pass knows of its restore.
PassInv ==
    /\ CreateStep > 2 => Present(Current) /\ Mem.finalizer
    /\ CreateStep > 0 /\ Present(Current) => ~Terminal(Current)
    /\ CreateStep > 8 => Mem.prepared
    /\ CreateStep > 10 => Mem.provider
    /\ CreateStep > 0 /\ Present(Current) /\ Mem.prepared => lease = Current
    /\ pass.waiting => ~Idle /\ CreateStep = 8
    /\ ~Idle /\ pass.operation = "delete" /\ pass.step > 1 => ~Owns(Current)
    /\ ~Idle /\ pass.operation = "delete" => Present(Current) /\ Mem.deleting
    /\ ~Idle /\ pass.operation = "ignore" =>
          ~Restoring(Current) /\ (Present(Current) => Terminal(Current) \/ ~Mem.prepared)

\* How the progress of a restore fits its Velero restore and the lease.
RestoreOK(r) ==
    /\ Owns(r) => Present(r) /\ cr[r].prepared
    /\ Present(r) /\ cr[r].prepared => cr[r].finalizer
    /\ Present(r) /\ cr[r].provider => cr[r].prepared
    /\ Present(r) /\ cr[r].recovered # "Pending" => cr[r].provider
    /\ Restoring(r) => lease = r /\ ~Terminal(r) /\ ~cr[r].provider
    /\ Present(r) /\ cr[r].prepared /\ ~Terminal(r) /\ lease # r => cr[r].deleting
    /\ velero[r] # NoChild /\ ~Owns(r) => r \in foreign

RestoreInv == \A r \in Restores : RestoreOK(r)

-------------------------------------------------------------------------------
(* The stages keep PassInv and RestoreInv. *)

\* A stage only adds to the foreign names.
LEMMA ForeignGrows ==
    ASSUME Stage \/ PassFails, NEW r \in foreign
    PROVE  r \in foreign'
<1>1. UNCHANGED foreign \/ EnsureProviderRestore
    BY DEF Stage, PassFails, EnsureConditionsInitialized, EnsureMetadata,
           EnsureProviderChildState, EnsureActiveRestoreLease, EnsureProviderReady,
           EnsureSourceBackupUsable, EnsureMaintenanceModeActivated, EnsurePreparation,
           CleanupEnds, EnsureProviderCompletion, EnsureScaleUpInitiated, EnsureWorkloadsReady,
           EnsureScaleUpFinalized, RecoveryStage, EnsureMaintenanceModeDeactivated,
           EnsureRestoreCompleted, EnsureProviderRestoreDeleted, EnsureDeletingStatus,
           EnsureRestoreLeaseReleased, EnsureDeletionFinalized, RestoreVanished, providerVars
<1> QED
    BY <1>1 DEF EnsureProviderRestore

\* The restores a stage does not work on.
LEMMA OtherRestores ==
    ASSUME TypeOK, PassInv, RestoreInv, Stage \/ PassFails, NEW r \in Restores, r # Current
    PROVE  RestoreOK(r)'
<1>1. cr'[r] = cr[r] /\ velero'[r] = velero[r] /\ RestoreOK(r)
    BY StageMoves DEF RestoreInv
<1>2. r \in foreign => r \in foreign'
    BY ForeignGrows
<1>3. UNCHANGED lease \/ (lease # r /\ lease' # r)
                      \/ (lease = r /\ HolderOver /\ lease' = Current)
  <2>1. EnsureActiveRestoreLease => UNCHANGED lease \/ (lease' = Current /\ (lease = "free" \/ HolderOver))
      BY DEF EnsureActiveRestoreLease
  <2>2. EnsureRestoreLeaseReleased => UNCHANGED lease \/ (lease = Current /\ lease' = "free")
      BY DEF EnsureRestoreLeaseReleased
  <2> QED
      BY <2>1, <2>2, StageMoves, RestoreAssumption DEF RestoreAssumption
<1> QED
    BY <1>1, <1>2, <1>3
       DEF RestoreOK, Owns, Restoring, Phase, Present, Terminal, HolderOver

\* What a stage writes to its restore.
Becomes(finalizer, prepared, provider, recovered, succeeded) ==
    /\ cr'[Current] # NoRestore
    /\ cr'[Current].finalizer = finalizer
    /\ cr'[Current].deleting = Mem.deleting
    /\ cr'[Current].prepared = prepared
    /\ cr'[Current].provider = provider
    /\ cr'[Current].recovered = recovered
    /\ cr'[Current].succeeded = succeeded

\* Each write of a stage changes one field and the deprecated status, and nothing
\* of the deletion.
LEMMA Written ==
    ASSUME TypeOK, ~Idle, Mem \in Resource
    PROVE  /\ Write([Mem EXCEPT !.finalizer = TRUE]) =>
                 Becomes(TRUE, Mem.prepared, Mem.provider, Mem.recovered, Mem.succeeded)
           /\ Write(Mem) =>
                 Becomes(Mem.finalizer, Mem.prepared, Mem.provider, Mem.recovered, Mem.succeeded)
           /\ Write([Mem EXCEPT !.prepared = TRUE]) =>
                 Becomes(Mem.finalizer, TRUE, Mem.provider, Mem.recovered, Mem.succeeded)
           /\ Write([Mem EXCEPT !.provider = TRUE]) =>
                 Becomes(Mem.finalizer, Mem.prepared, TRUE, Mem.recovered, Mem.succeeded)
           /\ \A v : cr' = Stored([Mem EXCEPT !.recovered = v]) =>
                 Becomes(Mem.finalizer, Mem.prepared, Mem.provider, v, Mem.succeeded)
           /\ \A v : Write([Mem EXCEPT !.succeeded = v]) =>
                 Becomes(Mem.finalizer, Mem.prepared, Mem.provider, Mem.recovered, v)
<1>1. Current \in Restores /\ cr \in [Restores -> Resource \cup {NoRestore}]
    BY PassFields DEF TypeOK
<1>2. ASSUME Write([Mem EXCEPT !.finalizer = TRUE])
      PROVE  Becomes(TRUE, Mem.prepared, Mem.provider, Mem.recovered, Mem.succeeded)
  <2>1. cr' = Stored([Mem EXCEPT !.finalizer = TRUE])
      BY <1>2 DEF Write
  <2>2. cr'[Current] = [[Mem EXCEPT !.finalizer = TRUE] EXCEPT !.announced = [Mem EXCEPT !.finalizer = TRUE].deleting]
      BY <2>1, <1>1 DEF Stored
  <2> QED
      BY <2>2 DEF Becomes, Resource, NoRestore
<1>3. ASSUME Write(Mem)
      PROVE  Becomes(Mem.finalizer, Mem.prepared, Mem.provider, Mem.recovered, Mem.succeeded)
  <2>1. cr' = Stored(Mem)
      BY <1>3 DEF Write
  <2>2. cr'[Current] = [Mem EXCEPT !.announced = Mem.deleting]
      BY <2>1, <1>1 DEF Stored
  <2> QED
      BY <2>2 DEF Becomes, Resource, NoRestore
<1>4. ASSUME Write([Mem EXCEPT !.prepared = TRUE])
      PROVE  Becomes(Mem.finalizer, TRUE, Mem.provider, Mem.recovered, Mem.succeeded)
  <2>1. cr' = Stored([Mem EXCEPT !.prepared = TRUE])
      BY <1>4 DEF Write
  <2>2. cr'[Current] = [[Mem EXCEPT !.prepared = TRUE] EXCEPT !.announced = [Mem EXCEPT !.prepared = TRUE].deleting]
      BY <2>1, <1>1 DEF Stored
  <2> QED
      BY <2>2 DEF Becomes, Resource, NoRestore
<1>5. ASSUME Write([Mem EXCEPT !.provider = TRUE])
      PROVE  Becomes(Mem.finalizer, Mem.prepared, TRUE, Mem.recovered, Mem.succeeded)
  <2>1. cr' = Stored([Mem EXCEPT !.provider = TRUE])
      BY <1>5 DEF Write
  <2>2. cr'[Current] = [[Mem EXCEPT !.provider = TRUE] EXCEPT !.announced = [Mem EXCEPT !.provider = TRUE].deleting]
      BY <2>1, <1>1 DEF Stored
  <2> QED
      BY <2>2 DEF Becomes, Resource, NoRestore
<1>6. ASSUME NEW v, cr' = Stored([Mem EXCEPT !.recovered = v])
      PROVE  Becomes(Mem.finalizer, Mem.prepared, Mem.provider, v, Mem.succeeded)
  <2>1. cr' = Stored([Mem EXCEPT !.recovered = v])
      BY <1>6 DEF Write
  <2>2. cr'[Current] = [[Mem EXCEPT !.recovered = v] EXCEPT !.announced = [Mem EXCEPT !.recovered = v].deleting]
      BY <2>1, <1>1 DEF Stored
  <2> QED
      BY <2>2 DEF Becomes, Resource, NoRestore
<1>7. ASSUME NEW v, Write([Mem EXCEPT !.succeeded = v])
      PROVE  Becomes(Mem.finalizer, Mem.prepared, Mem.provider, Mem.recovered, v)
  <2>1. cr' = Stored([Mem EXCEPT !.succeeded = v])
      BY <1>7 DEF Write
  <2>2. cr'[Current] = [[Mem EXCEPT !.succeeded = v] EXCEPT !.announced = [Mem EXCEPT !.succeeded = v].deleting]
      BY <2>1, <1>1 DEF Stored
  <2> QED
      BY <2>2 DEF Becomes, Resource, NoRestore
<1> QED
    BY <1>2, <1>3, <1>4, <1>5, <1>6, <1>7

\* The restore a stage works on, before its Velero restore is created.
LEMMA CurrentPreparing ==
    ASSUME TypeOK, PassHoldsLease, PassInv, RestoreInv, NEW r \in Restores, r = Current,
           \/ EnsureConditionsInitialized \/ EnsureMetadata \/ EnsureProviderChildState
           \/ EnsureActiveRestoreLease \/ EnsureProviderReady \/ EnsureSourceBackupUsable
           \/ EnsureMaintenanceModeActivated \/ EnsurePreparation \/ CleanupEnds
    PROVE  RestoreOK(r)'
<1> USE DEF providerVars, sharedVars
<1>0. ~Idle /\ Present(r) /\ cr[r] = Mem /\ Mem \in Resource /\ RestoreOK(r)
    BY AtStage, MemType, PassFields
       DEF EnsureConditionsInitialized, EnsureMetadata, EnsureProviderChildState,
           EnsureActiveRestoreLease, EnsureProviderReady, EnsureSourceBackupUsable,
           EnsureMaintenanceModeActivated, EnsurePreparation, CleanupEnds, PassInv, RestoreInv,
           Mem
<1>1. CASE EnsureConditionsInitialized
    BY <1>0, <1>1, Written
       DEF EnsureConditionsInitialized, Becomes, RestoreOK, Owns, Restoring, Phase, Present,
           Terminal
<1>2. CASE EnsureMetadata
    BY <1>0, <1>2, Written
       DEF EnsureMetadata, Becomes, RestoreOK, Owns, Restoring, Phase, Present, Terminal
<1>3. CASE EnsureProviderChildState
    BY <1>0, <1>3, Written
       DEF EnsureProviderChildState, EndsWith, Becomes, RestoreOK, Owns, Restoring, Phase,
           Present, Terminal
<1>4. CASE EnsureActiveRestoreLease
  <2>1. Mem.prepared => lease = r
      BY <1>0, <1>4, ActionStepOf DEF PassInv
  <2> QED
      BY <1>0, <1>4, <2>1, Written
         DEF EnsureActiveRestoreLease, EndsWith, Becomes, RestoreOK, Owns, Restoring, Phase,
             Present, Terminal
<1>5. CASE EnsureProviderReady
    BY <1>0, <1>5
       DEF EnsureProviderReady, RestoreOK, Owns, Restoring, Phase, Present, Terminal
<1>6. CASE EnsureSourceBackupUsable
    BY <1>0, <1>6, Written
       DEF EnsureSourceBackupUsable, AlreadyPrepared, EndsWith, Becomes, RestoreOK, Owns,
           Restoring, Phase, Present, Terminal
<1>7. CASE EnsureMaintenanceModeActivated
    BY <1>0, <1>7
       DEF EnsureMaintenanceModeActivated, RestoreOK, Owns, Restoring, Phase, Present, Terminal
<1>8. CASE EnsurePreparation
    BY <1>0, <1>8 DEF EnsurePreparation, RestoreOK, Owns, Restoring, Phase, Present, Terminal
<1>9. CASE CleanupEnds
  <2>1. lease = r /\ Mem.finalizer
      BY <1>9 DEF CleanupEnds, PassInv, PassHoldsLease
  <2> QED
      BY <1>0, <1>9, <2>1, Written
         DEF CleanupEnds, Becomes, RestoreOK, Owns, Restoring, Phase, Present, Terminal
<1> QED
    BY <1>1, <1>2, <1>3, <1>4, <1>5, <1>6, <1>7, <1>8, <1>9

\* The same from the creation of the Velero restore on.
LEMMA CurrentRestoring ==
    ASSUME TypeOK, PassHoldsLease, PassInv, RestoreInv, NEW r \in Restores, r = Current,
           \/ EnsureProviderRestore \/ EnsureProviderCompletion \/ EnsureScaleUpInitiated
           \/ EnsureWorkloadsReady \/ EnsureScaleUpFinalized
           \/ EnsureMaintenanceModeDeactivated \/ EnsureRestoreCompleted
    PROVE  RestoreOK(r)'
<1> USE DEF providerVars, sharedVars
<1>0. ~Idle /\ Present(r) /\ cr[r] = Mem /\ Mem \in Resource /\ RestoreOK(r)
    BY AtStage
       DEF EnsureProviderRestore, EnsureProviderCompletion, EnsureScaleUpInitiated,
           EnsureWorkloadsReady, EnsureScaleUpFinalized, EnsureMaintenanceModeDeactivated,
           EnsureRestoreCompleted, RestoreInv, Mem
<1>1. /\ CreateStep > 8 /\ lease = r /\ ~Terminal(r) /\ Mem.prepared
      /\ CreateStep > 10 => Mem.provider
    BY <1>0, ActionStepOf DEF PassInv, PassHoldsLease
<1>2. CASE EnsureProviderRestore
  <2>1. velero \in [Restores -> Child \cup {NoChild}]
      BY DEF TypeOK
  <2>2. NewChild(TRUE, "new").owned = TRUE /\ NewChild(FALSE, "completed").owned = FALSE
      BY DEF NewChild
  <2> QED
      BY <1>0, <1>1, <1>2, <2>1, <2>2, Written
         DEF EnsureProviderRestore, EndsWith, Becomes, RestoreOK, Owns, Restoring, Phase, Present,
             Terminal
<1>3. CASE EnsureProviderCompletion
    BY <1>0, <1>1, <1>3, Written
       DEF EnsureProviderCompletion, EndsWith, Becomes, RestoreOK, Owns, Restoring, Phase,
           Present, Terminal
<1>4. CASE \/ EnsureScaleUpInitiated \/ EnsureWorkloadsReady \/ EnsureScaleUpFinalized
           \/ EnsureMaintenanceModeDeactivated
  <2>1. UNCHANGED cr \/ \E v : Becomes(Mem.finalizer, Mem.prepared, Mem.provider, v, Mem.succeeded)
    <3>1. CASE EnsureScaleUpInitiated \/ EnsureScaleUpFinalized
        BY <1>0, <3>1, Written DEF EnsureScaleUpInitiated, EnsureScaleUpFinalized, RecoveryStage, Write
    <3>2. CASE EnsureWorkloadsReady
        BY <1>0, <3>2, Written DEF EnsureWorkloadsReady, Write
    <3>3. CASE EnsureMaintenanceModeDeactivated
        BY <1>0, <3>3, Written DEF EnsureMaintenanceModeDeactivated, Write
    <3> QED
        BY <1>4, <3>1, <3>2, <3>3
  <2>2. CreateStep > 10
      BY <1>4, ActionStepOf
  <2>3. UNCHANGED <<velero, foreign, lease>>
      BY <1>4
         DEF EnsureScaleUpInitiated, EnsureWorkloadsReady, EnsureScaleUpFinalized, RecoveryStage,
             EnsureMaintenanceModeDeactivated
  <2> QED
      BY <1>0, <1>1, <2>1, <2>2, <2>3
         DEF Becomes, RestoreOK, Owns, Restoring, Phase, Present, Terminal
<1>5. CASE EnsureRestoreCompleted
    BY <1>0, <1>1, <1>5, ActionStepOf, Written
       DEF EnsureRestoreCompleted, EndsWith, Becomes, RestoreOK, Owns, Restoring, Phase, Present,
           Terminal
<1> QED
    BY <1>2, <1>3, <1>4, <1>5

\* The same in the other operations.
LEMMA CurrentDeleting ==
    ASSUME TypeOK, PassInv, RestoreInv, NEW r \in Restores, r = Current,
           \/ EnsureProviderRestoreDeleted \/ EnsureDeletingStatus \/ EnsureRestoreLeaseReleased
           \/ EnsureDeletionFinalized \/ RestoreVanished \/ PassFails
    PROVE  RestoreOK(r)'
<1> USE DEF providerVars, sharedVars
<1>0. RestoreOK(r) /\ cr[r] = Mem
    BY DEF RestoreInv, Mem
<1>1. CASE EnsureProviderRestoreDeleted
  <2>1. velero \in [Restores -> Child \cup {NoChild}]
      BY DEF TypeOK
  <2>2. \/ velero'[r] = velero[r] \/ velero'[r] = NoChild
        \/ /\ velero'[r].owned = velero[r].owned /\ velero'[r].phase = velero[r].phase
           /\ Owns(r)
      BY <1>1, <2>1 DEF EnsureProviderRestoreDeleted, DeletedChild, Owns, Child
  <2> QED
      BY <1>0, <1>1, <2>2
         DEF EnsureProviderRestoreDeleted, RestoreOK, Owns, Restoring, Phase, Present, Terminal
<1>2. CASE EnsureDeletingStatus
  <2>1. ~Idle /\ Mem \in Resource /\ Present(r)
      BY <1>2, AtStage DEF EnsureDeletingStatus
  <2> QED
      BY <1>0, <1>2, <2>1, Written
         DEF EnsureDeletingStatus, Becomes, RestoreOK, Owns, Restoring, Phase, Present, Terminal
<1>3. CASE EnsureRestoreLeaseReleased
  <2>1. ~Restoring(r) /\ (Present(r) => Mem.deleting \/ Terminal(r) \/ ~Mem.prepared)
      BY <1>3, ActionStepOf, AtStage DEF EnsureRestoreLeaseReleased, PassInv, Restoring
  <2> QED
      BY <1>0, <1>3, <2>1
         DEF EnsureRestoreLeaseReleased, RestoreOK, Owns, Restoring, Phase, Present, Terminal
<1>4. CASE EnsureDeletionFinalized
  <2>1. ~Owns(r) /\ cr'[r] = NoRestore
      BY <1>4, ActionStepOf, AtStage DEF EnsureDeletionFinalized, PassInv, TypeOK
  <2> QED
      BY <1>0, <1>4, <2>1
         DEF EnsureDeletionFinalized, RestoreOK, Owns, Restoring, Phase, Present, Terminal
<1>5. CASE RestoreVanished \/ PassFails
    BY <1>0, <1>5
       DEF RestoreVanished, PassFails, RestoreOK, Owns, Restoring, Phase, Present, Terminal
<1> QED
    BY <1>1, <1>2, <1>3, <1>4, <1>5

\* A stage keeps RestoreInv.
LEMMA RestoreStage ==
    ASSUME TypeOK, PassHoldsLease, PassInv, RestoreInv, Stage \/ PassFails
    PROVE  RestoreInv'
BY OtherRestores, CurrentPreparing, CurrentRestoring, CurrentDeleting DEF Stage, RestoreInv

\* A stage that goes on, waits or ends keeps PassInv.
LEMMA PassStage ==
    ASSUME TypeOK, PassHoldsLease, PassInv, RestoreInv, Stage \/ PassFails
    PROVE  PassInv'
<1>0. ~Idle /\ pass.operation \in Operations /\ pass.step \in 1 .. 15 /\ CreateStep \in Nat
    BY StageMoves, PassFields DEF CreateStep
<1>1. CASE Ended
    BY <1>1 DEF PassInv, CreateStep, Ended
<1>2. CASE EnsurePreparation /\ Waits
  <2>1. UNCHANGED <<cr, velero, lease>>
      BY <1>2 DEF EnsurePreparation, sharedVars
  <2> QED
      BY <1>0, <1>2, <2>1, ActionStepOf
         DEF PassInv, CreateStep, Waits, Current, Mem, Present, Terminal, Owns, Restoring, Phase
<1>3. CASE Advanced
  <2>1. /\ UNCHANGED cr /\ Current' = Current
        /\ Mem' = Mem
      BY <1>3, Advances DEF Advanced, Current, Mem
  <2>2. CASE pass.operation = "create"
    <3>1. CreateStep = pass.step /\ CreateStep' = CreateStep + 1 /\ pass'.operation = "create"
        BY <1>0, <1>3, <2>2 DEF CreateStep, Advanced
    <3>2. CreateStep = 4 \/ UNCHANGED lease
        BY <1>0, <2>2, StageMoves, ActionStepOf
    <3>3. /\ CreateStep = 2 => Mem.finalizer
          /\ CreateStep = 4 => UNCHANGED lease
          /\ CreateStep = 10 => Mem.provider
        BY <1>3, Advances
    <3>4. CreateStep = 8 => Mem.prepared
        BY <1>0, <1>3, PassFields, Advances DEF AlreadyPrepared, RestoreInv, RestoreOK, Mem
    <3>5. Present(Current) /\ ~pass.waiting /\ pass'.waiting = pass.waiting
        BY <1>3, StageMoves DEF Advanced, Ended
    <3> QED
        BY <1>0, <2>1, <2>2, <3>1, <3>2, <3>3, <3>4, <3>5 DEF PassInv, Present, Terminal
  <2>3. CASE pass.operation # "create"
    <3>1. CreateStep = 0 /\ CreateStep' = 0 /\ pass'.operation = pass.operation /\ ~Idle'
        BY <1>3, <2>3 DEF CreateStep, Advanced
    <3>2. \/ UNCHANGED velero
          \/ pass.operation = "delete" /\ pass.step = 1
        BY <2>3, <3>1, StageMoves, ActionStepOf
    <3>3. CreateStep = 0 /\ pass.operation = "delete" /\ pass.step = 1
             => ~Owns(Current) /\ UNCHANGED velero
        BY <1>3, Advances
    <3>4. pass'.waiting = pass.waiting
        BY <1>3 DEF Advanced
    <3>5. UNCHANGED velero
        BY <3>1, <3>2, <3>3
    <3> QED
        BY <1>0, <1>3, <2>1, <2>3, <3>1, <3>3, <3>4, <3>5
           DEF PassInv, Advanced, Present, Terminal, Owns, Restoring, Phase
  <2> QED
      BY <2>2, <2>3
<1> QED
    BY <1>1, <1>2, <1>3, StageMoves

-------------------------------------------------------------------------------
(* What others do keeps PassInv and RestoreInv. *)

\* What users do to a restore.
Asks(r) ==
    \/ cr'[r] = cr[r]
    \/ ~Present(r) /\ cr'[r] = NewRestore
    \/ Present(r) /\ cr[r].finalizer /\ cr'[r] = [cr[r] EXCEPT !.deleting = TRUE]
    \/ Present(r) /\ ~cr[r].finalizer /\ ~cr[r].deleting /\ cr'[r] = NoRestore

\* Others create and delete restores and change nothing else of them.
LEMMA OthersAsk ==
    ASSUME TypeOK, NEW r \in Restores,
           \/ \E x \in Restores : Velero(x)
           \/ Kubernetes \/ ProviderBecomesReady \/ Others \/ Backup \/ Recover
    PROVE  Asks(r)
<1>1. CASE \E x \in Restores : UserCreates(x) \/ UserDeletes(x)
    BY <1>1 DEF UserCreates, UserDeletes, Asks, TypeOK
<1>2. UNCHANGED cr \/ \E x \in Restores : UserCreates(x) \/ UserDeletes(x)
    BY DEF Velero, VeleroStarts, VeleroCompletes, VeleroFails, VeleroEndsDeletion, Kubernetes,
           ResourcesGone, WorkloadConverges, ProviderBecomesReady, Others, Outside,
           ProviderBecomesUnready, WorkloadRegresses, SourceLost, VeleroRestoreDeleted,
           VeleroRestoreCreated, Backup, BackupTakes, BackupGivesBack, BackupSwitches, Recover
<1> QED
    BY <1>1, <1>2 DEF Asks

\* What Velero and others do to a Velero restore: one of the operator starts,
\* ends or goes, and others are counted among the foreign.
Runs(r) ==
    \/ velero'[r] = velero[r]
    \/ velero'[r] = NoChild
    \/ /\ velero[r] # NoChild /\ velero'[r] # NoChild
       /\ velero'[r].owned = velero[r].owned
       /\ \/ velero'[r].phase = velero[r].phase
          \/ velero[r].phase = "new" /\ velero'[r].phase = "running"
          \/ velero'[r].phase = "failed"
          \/ velero[r].phase = "running" /\ velero'[r].phase = "completed" /\ data' = "live"
    \/ /\ velero[r] = NoChild /\ velero'[r].owned = FALSE /\ r \in foreign'

\* What Velero, Kubernetes and users do to the Velero restore of one name.
LEMMA OthersRun ==
    ASSUME TypeOK, NEW r \in Restores,
           \/ \E x \in Restores : Velero(x)
           \/ Kubernetes \/ ProviderBecomesReady \/ Others \/ Backup \/ Recover
    PROVE  Runs(r) /\ (r \in foreign => r \in foreign')
<1>0. velero \in [Restores -> Child \cup {NoChild}]
    BY DEF TypeOK
<1>1. CASE \E x \in Restores : Velero(x)
    BY <1>0, <1>1
       DEF Velero, VeleroStarts, VeleroCompletes, VeleroFails, VeleroEndsDeletion, providerVars,
           Runs, Owns, Child
<1>2. CASE \E x \in Restores : VeleroRestoreDeleted(x)
    BY <1>0, <1>2 DEF VeleroRestoreDeleted, DeletedChild, providerVars, Runs, Child
<1>3. CASE \E x \in Restores : VeleroRestoreCreated(x)
  <2>1. PICK x \in Restores, p \in {"completed", "failed"} :
            /\ velero[x] = NoChild
            /\ velero' = [velero EXCEPT ![x] = NewChild(FALSE, p)]
            /\ foreign' = foreign \cup {x}
      BY <1>3 DEF VeleroRestoreCreated
  <2>2. NewChild(FALSE, p).owned = FALSE
      BY DEF NewChild
  <2>3. CASE x = r
      BY <1>0, <2>1, <2>2, <2>3 DEF Runs
  <2>4. CASE x # r
      BY <1>0, <2>1, <2>4 DEF Runs
  <2> QED
      BY <2>3, <2>4
<1>4. \/ UNCHANGED <<velero, foreign>>
      \/ \E x \in Restores : Velero(x) \/ VeleroRestoreDeleted(x) \/ VeleroRestoreCreated(x)
    BY DEF Kubernetes, ResourcesGone, WorkloadConverges, ProviderBecomesReady, Others, Asked,
           ProviderBecomesUnready, WorkloadRegresses, SourceLost, UserCreates, UserDeletes,
           Backup, BackupTakes, BackupGivesBack, BackupSwitches, Recover, providerVars
<1> QED
    BY <1>1, <1>2, <1>3, <1>4 DEF Runs

\* What a restore and its Velero restore keep under what others do.
Kept(r) ==
    /\ Present(r) /\ (cr[r].finalizer \/ cr[r].deleting) => Present(r)'
    /\ Present(r)' =>
          \/ /\ Present(r)
             /\ cr'[r].finalizer = cr[r].finalizer /\ cr'[r].prepared = cr[r].prepared
             /\ cr'[r].provider = cr[r].provider /\ cr'[r].recovered = cr[r].recovered
             /\ cr'[r].succeeded = cr[r].succeeded
             /\ cr[r].deleting => cr'[r].deleting
          \/ /\ ~Present(r)
             /\ ~cr'[r].prepared /\ ~cr'[r].provider
             /\ cr'[r].recovered = "Pending" /\ cr'[r].succeeded = "Absent"
    /\ Owns(r)' => Owns(r)
    /\ Restoring(r)' => Restoring(r)
    /\ velero'[r] # NoChild /\ ~Owns(r)' => (velero[r] # NoChild /\ ~Owns(r)) \/ r \in foreign'
    /\ r \in foreign => r \in foreign'
    /\ lease = r <=> lease' = r

\* What others do keeps what is known of one restore.
LEMMA OthersKeep ==
    ASSUME TypeOK, NEW r \in Restores,
           \/ \E x \in Restores : Velero(x)
           \/ Kubernetes \/ ProviderBecomesReady \/ Others \/ Backup \/ Recover
    PROVE  Kept(r)
<1>0. "free" \notin Restores /\ "backup" \notin Restores
    BY RestoreAssumption DEF RestoreAssumption
<1>1. lease = r <=> lease' = r
    BY <1>0, OthersMove
<1>2. Present(r) => cr[r] \in Resource
    BY DEF Present, TypeOK
<1>3. Asks(r) /\ Runs(r) /\ (r \in foreign => r \in foreign')
    BY OthersAsk, OthersRun
<1>4. /\ Owns(r)' => Owns(r)
      /\ Restoring(r)' => Restoring(r)
      /\ velero'[r] # NoChild /\ ~Owns(r)' => (velero[r] # NoChild /\ ~Owns(r)) \/ r \in foreign'
    BY <1>3 DEF Runs, Owns, Restoring, Phase
<1>5. CASE cr'[r] = cr[r]
    BY <1>1, <1>3, <1>4, <1>5 DEF Kept, Present
<1>6. CASE ~Present(r) /\ cr'[r] = NewRestore
  <2>1. /\ ~NewRestore.prepared /\ ~NewRestore.provider
        /\ NewRestore.recovered = "Pending" /\ NewRestore.succeeded = "Absent"
      BY DEF NewRestore
  <2> QED
      BY <1>1, <1>3, <1>4, <1>6, <2>1 DEF Kept, Present
<1>7. CASE Present(r) /\ cr[r].finalizer /\ cr'[r] = [cr[r] EXCEPT !.deleting = TRUE]
  <2>1. cr'[r] \in Resource /\ cr'[r] # NoRestore
      BY <1>2, <1>7 DEF Resource, NoRestore
  <2> QED
      BY <1>1, <1>2, <1>3, <1>4, <1>7, <2>1 DEF Kept, Present, Resource
<1>8. CASE Present(r) /\ ~cr[r].finalizer /\ ~cr[r].deleting /\ cr'[r] = NoRestore
    BY <1>1, <1>3, <1>4, <1>8 DEF Kept, Present
<1> QED
    BY <1>3, <1>5, <1>6, <1>7, <1>8 DEF Asks

\* What others do keeps RestoreInv.
LEMMA OthersKeepRestores ==
    ASSUME TypeOK, PassInv, RestoreInv,
           \/ \E x \in Restores : Velero(x)
           \/ Kubernetes \/ ProviderBecomesReady \/ Others \/ Backup \/ Recover
    PROVE  RestoreInv' /\ PassInv'
<1>1. ASSUME NEW r \in Restores
      PROVE  RestoreOK(r)'
    BY <1>1, OthersKeep DEF Kept, RestoreInv, RestoreOK, Owns, Restoring, Phase, Terminal
<1>2. ASSUME Idle
      PROVE  PassInv'
  <2>1. UNCHANGED pass
      BY OthersMove
  <2>2. CreateStep' = 0 /\ Idle' /\ ~pass'.waiting
      BY <1>2, <2>1 DEF Idle, NoPass, CreateStep
  <2> QED
      BY <2>2 DEF PassInv
<1>3. ASSUME ~Idle
      PROVE  PassInv'
  <2>1. PICK c \in Restores : c = pass.restore
      BY <1>3, PassFields DEF Current
  <2>2. UNCHANGED pass /\ Kept(c)
      BY OthersKeep, OthersMove
  <2>3. /\ Idle' <=> Idle
        /\ CreateStep' = CreateStep /\ CreateStep \in Nat
      BY <2>2, PassFields DEF Idle, CreateStep
  <2> QED
      BY <1>3, <2>1, <2>2, <2>3
         DEF Kept, PassInv, Current, Mem, Owns, Restoring, Phase, Terminal, Present
<1> QED
    BY <1>1, <1>2, <1>3 DEF RestoreInv

\* Every step keeps PassInv and RestoreInv.
LEMMA RestoreNext ==
    TypeOK /\ PassHoldsLease /\ PassInv /\ RestoreInv /\ [Next]_vars => PassInv' /\ RestoreInv'
<1> SUFFICES ASSUME TypeOK, PassHoldsLease, PassInv, RestoreInv, [Next]_vars
             PROVE  PassInv' /\ RestoreInv'
    OBVIOUS
<1>1. CASE Stage \/ PassFails
    BY <1>1, PassStage, RestoreStage
<1>2. CASE \/ \E r \in Restores : Velero(r)
           \/ Kubernetes \/ ProviderBecomesReady \/ Others \/ Backup \/ Recover
    BY <1>2, OthersKeepRestores
<1>3. ASSUME UNCHANGED <<cr, velero, foreign, lease>>
      PROVE  RestoreInv'
    BY <1>3 DEF RestoreInv, RestoreOK, Owns, Restoring, Phase, Present, Terminal
<1>4. CASE \E r \in Restores : Reconcile(r)
  <2>1. PICK r \in Restores : Reconcile(r)
      BY <1>4
  <2>2. UNCHANGED <<cr, velero, foreign, lease>> /\ RestoreOK(r)
      BY <2>1 DEF Reconcile, providerVars, sharedVars, RestoreInv
  <2>3. CASE ~Present(r)
      BY <1>3, <2>1, <2>2, <2>3 DEF Reconcile, NoPass, Idle, PassInv, CreateStep
  <2>4. CASE Present(r)
    <3>1. pass' = [restore |-> r, operation |-> RequiredOperation(r), step |-> 1,
                   waiting |-> FALSE]
        BY <2>1, <2>4 DEF Reconcile
    <3>2. /\ RequiredOperation(r) = "create" => ~Terminal(r) /\ ~cr[r].deleting
          /\ RequiredOperation(r) = "delete" => cr[r].deleting
          /\ RequiredOperation(r) = "ignore" => Terminal(r)
        BY DEF RequiredOperation
    <3>3. PassInv'
        BY <2>2, <2>4, <3>1, <3>2
           DEF PassInv, CreateStep, RestoreOK, Current, Mem, Owns, Restoring, Phase, Present,
               Terminal
    <3> QED
        BY <1>3, <2>2, <3>3
  <2> QED
      BY <2>3, <2>4
<1>5. CASE Crash
  <2>1. UNCHANGED <<cr, velero, foreign, lease>> /\ pass' = NoPass
      BY <1>5 DEF Crash, providerVars, sharedVars
  <2> QED
      BY <1>3, <2>1 DEF NoPass, Idle, PassInv, CreateStep
<1>6. CASE UNCHANGED vars
  <2>1. UNCHANGED <<cr, velero, foreign, lease, pass>>
      BY <1>6 DEF vars, providerVars, sharedVars, workerVars
  <2> QED
      BY <1>3, <2>1
         DEF PassInv, CreateStep, Idle, Current, Mem, Owns, Restoring, Phase, Present, Terminal
<1> QED
    BY <1>1, <1>2, <1>4, <1>5, <1>6 DEF Next

\* PassInv and RestoreInv hold in every state.
LEMMA RestoreInvariants == Spec => [](PassInv /\ RestoreInv)
<1>1. Init => PassInv /\ RestoreInv
    BY DEF Init, NoPass, PassInv, CreateStep, Idle, RestoreInv, RestoreOK, Owns, Restoring,
           Phase, Present, Terminal
<1> QED
    BY <1>1, TypeCorrect, LeaseIsHeld, RestoreNext, PTL DEF Spec

-------------------------------------------------------------------------------

\* Velero restores for at most one Restore resource at a time: the one that has
\* the lease, which is released only after its Velero restore has gone.
THEOREM OneVeleroRestoreHolds == Spec => []OneVeleroRestore
<1>1. RestoreInv => OneVeleroRestore
  <2> SUFFICES ASSUME RestoreInv
               PROVE  Cardinality({r \in Restores : Restoring(r)}) <= 1
      BY DEF OneVeleroRestore
  <2> DEFINE S == {r \in Restores : Restoring(r)}
  <2>1. S \subseteq {lease}
      BY DEF RestoreInv, RestoreOK
  <2>2. IsFiniteSet({lease}) /\ Cardinality({lease}) = 1
      BY FS_Singleton
  <2>3. Cardinality(S) <= Cardinality({lease})
      BY <2>1, <2>2, FS_Subset
  <2> QED
      BY <2>2, <2>3
<1> QED
    BY <1>1, RestoreInvariants, PTL

-------------------------------------------------------------------------------
(* The ecosystem while a restore is in progress. *)

\* A labelled workload is scaled down or back, and during the cleanup all are
\* labelled.
ScaledInv ==
    /\ \A w \in Workloads :
          workloads[w].stored # NoCount => workloads[w].replicas \in {0, workloads[w].stored}
    /\ pass.waiting => \A w \in Workloads : workloads[w].stored # NoCount

\* What a pass knows of the maintenance mode.
NoticeInv ==
    /\ CreateStep > 7 /\ CreateStep < 11 /\ ~Mem.provider /\ unnoticed = FALSE => maintenance = TRUE
    /\ CreateStep > 14 => maintenance = FALSE

\* What a prepared restore that has the lease knows.
HolderOK(r) ==
    lease = r /\ Present(r) /\ cr[r].prepared /\ ~Terminal(r) =>
        /\ data \notin {"going", "part"}
        /\ ~cr[r].provider => \A w \in Workloads : workloads[w].stored # NoCount
        /\ cr[r].provider \/ (Owns(r) /\ Phase(r) = "completed")
              => data = "live" \/ r \in foreign
        /\ Restoring(r) /\ unnoticed = FALSE => maintenance = TRUE

HolderInv == \A r \in Restores : HolderOK(r)

\* Everything known so far.
Known == TypeOK /\ PassHoldsLease /\ CountsInv /\ PassInv /\ RestoreInv

\* A stage keeps ScaledInv.
LEMMA ScaledStage ==
    ASSUME Known, ScaledInv, Stage \/ PassFails
    PROVE  ScaledInv'
<1> USE DEF Known
<1>0. \A w \in Workloads : workloads[w].replicas # NoCount
    BY DEF TypeOK, Workload, NoCount
<1>1. pass'.waiting => \A w \in Workloads : workloads'[w].stored # NoCount
  <2>1. CASE Ended
      BY <2>1 DEF Ended
  <2>2. CASE Advanced
      BY <2>2, StageMoves DEF Advanced, Ended
  <2>3. CASE EnsurePreparation /\ Waits
    <3>1. ~Ended /\ ~Advanced
        BY <2>3, PassFields, StageMoves DEF Waits, Ended, Advanced
    <3>2. ~Continue /\ ~Requeue
        BY <3>1, Moves, StageMoves
    <3>3. workloads' = ScaledDown(Workloads)
        BY <2>3, <3>2 DEF EnsurePreparation, CallFails
    <3> QED
        BY <1>0, <3>3, CountsAfter
  <2> QED
      BY <2>1, <2>2, <2>3, StageMoves
<1>2. \A w \in Workloads :
          workloads'[w].stored # NoCount => workloads'[w].replicas \in {0, workloads'[w].stored}
  <2>1. \/ UNCHANGED workloads
        \/ \E ws \in SUBSET Workloads :
              workloads' \in {ScaledDown(ws), ScaledUp(ws), Finalized(ws)}
      BY StageMoves
         DEF EnsurePreparation, EnsureScaleUpInitiated, EnsureScaleUpFinalized, RecoveryStage,
             ecoVars
  <2> QED
      BY <2>1, CountsAfter DEF ScaledInv
<1> QED
    BY <1>1, <1>2 DEF ScaledInv

\* Only a failed activation of the maintenance mode is unnoticed.
LEMMA UnnoticedMoves ==
    ASSUME TypeOK, Stage \/ PassFails
    PROVE  UNCHANGED unnoticed \/ CreateStep = 7
<1>1. UNCHANGED unnoticed \/ EnsureMaintenanceModeActivated
    BY DEF Stage, PassFails, EnsureConditionsInitialized, EnsureMetadata,
           EnsureProviderChildState, EnsureActiveRestoreLease, EnsureProviderReady,
           EnsureSourceBackupUsable, EnsurePreparation, CleanupEnds, EnsureProviderRestore,
           EnsureProviderCompletion, EnsureScaleUpInitiated, EnsureWorkloadsReady,
           EnsureScaleUpFinalized, RecoveryStage, EnsureMaintenanceModeDeactivated,
           EnsureRestoreCompleted, EnsureProviderRestoreDeleted, EnsureDeletingStatus,
           EnsureRestoreLeaseReleased, EnsureDeletionFinalized, RestoreVanished, sharedVars
<1> QED
    BY <1>1, ActionStepOf

\* A stage keeps NoticeInv.
LEMMA NoticeStage ==
    ASSUME Known, NoticeInv, Stage \/ PassFails
    PROVE  NoticeInv'
<1> USE DEF Known
<1>0. ~Idle /\ CreateStep \in Nat
    BY StageMoves, PassFields DEF CreateStep
<1>1. CASE Ended
    BY <1>1 DEF NoticeInv, CreateStep, Ended
<1>2. UNCHANGED unnoticed \/ CreateStep = 7
    BY UnnoticedMoves
<1>3. CASE EnsurePreparation /\ Waits
  <2>1. UNCHANGED <<cr, maintenance, unnoticed>>
      BY <1>3 DEF EnsurePreparation, sharedVars
  <2>2. CreateStep = 8 /\ CreateStep' = 8 /\ Mem' = Mem
      BY <1>0, <1>3, <2>1, ActionStepOf DEF CreateStep, Waits, Mem, Current
  <2> QED
      BY <2>1, <2>2 DEF NoticeInv
<1>4. CASE Advanced
  <2>1. UNCHANGED cr /\ Mem' = Mem
      BY <1>4, Advances DEF Advanced, Mem, Current
  <2>2. CASE pass.operation # "create"
      BY <1>4, <2>2 DEF NoticeInv, CreateStep, Advanced
  <2>3. CASE pass.operation = "create"
    <3>1. CreateStep' = CreateStep + 1
        BY <1>0, <1>4, <2>3, PassFields DEF CreateStep, Advanced
    <3>2. CASE CreateStep = 7
      <4>1. Mem.recovered = "MaintenanceModeDeactivated" => Mem.provider
          BY <1>0, <3>2, PassFields DEF PassInv, RestoreInv, RestoreOK, Mem
      <4>2. Mem.provider \/ maintenance' = TRUE \/ unnoticed' = TRUE
          BY <1>4, <3>2, <4>1, Advances
      <4> QED
          BY <2>1, <3>1, <3>2, <4>2 DEF NoticeInv
    <3>3. CASE CreateStep < 7 \/ (CreateStep > 9 /\ CreateStep < 14)
        BY <1>0, <3>1, <3>3 DEF NoticeInv
    <3>4. CASE CreateStep = 14
      <4>1. maintenance' = FALSE
          BY <1>4, <3>4, Advances
      <4> QED
          BY <3>1, <3>4, <4>1 DEF NoticeInv
    <3>5. CASE CreateStep = 8 \/ CreateStep = 9 \/ CreateStep > 14
      <4>1. UNCHANGED maintenance
          BY <3>5, <1>0, StageMoves, ActionStepOf
      <4>2. unnoticed' = unnoticed
          BY <1>0, <1>2, <3>5
      <4> QED
          BY <1>0, <2>1, <3>1, <3>5, <4>1, <4>2 DEF NoticeInv
    <3> QED
        BY <1>0, <3>2, <3>3, <3>4, <3>5
  <2> QED
      BY <2>2, <2>3
<1> QED
    BY <1>1, <1>3, <1>4, StageMoves

\* A stage keeps what is known of a restore it does not work on.
LEMMA HolderOthers ==
    ASSUME Known, HolderInv, Stage \/ PassFails, NEW r \in Restores, r # Current
    PROVE  HolderOK(r)'
<1> USE DEF Known
<1>1. cr'[r] = cr[r] /\ velero'[r] = velero[r] /\ HolderOK(r)
    BY StageMoves DEF HolderInv
<1>2. r \in foreign => r \in foreign'
    BY ForeignGrows
<1>3. SUFFICES ASSUME lease' = r
               PROVE  HolderOK(r)'
    BY DEF HolderOK
<1>4. lease = r
  <2>1. EnsureActiveRestoreLease => UNCHANGED lease \/ lease' = Current
      BY DEF EnsureActiveRestoreLease
  <2>2. EnsureRestoreLeaseReleased => UNCHANGED lease \/ lease' = "free"
      BY DEF EnsureRestoreLeaseReleased
  <2> QED
      BY <1>3, <2>1, <2>2, StageMoves, RestoreAssumption DEF RestoreAssumption
<1>5. ~(CreateStep > 4) /\ CreateStep \in Nat
    BY <1>4, StageMoves, PassFields DEF PassHoldsLease, CreateStep
<1>6. UNCHANGED <<data, workloads, maintenance, unnoticed>>
    BY <1>5, StageMoves, ActionStepOf, UnnoticedMoves
<1> QED
    BY <1>1, <1>2, <1>3, <1>4, <1>6
       DEF HolderOK, Owns, Restoring, Phase, Present, Terminal

\* The same for the restore it works on, before there is a Velero restore.
LEMMA HolderPreparing ==
    ASSUME Known, ScaledInv, HolderInv, NEW r \in Restores, r = Current,
           \/ EnsureConditionsInitialized \/ EnsureMetadata \/ EnsureProviderChildState
           \/ EnsureActiveRestoreLease \/ EnsureProviderReady \/ EnsureSourceBackupUsable
           \/ EnsureMaintenanceModeActivated \/ EnsurePreparation \/ CleanupEnds
    PROVE  HolderOK(r)'
<1> USE DEF Known, providerVars, ecoVars, sharedVars
<1>0. /\ ~Idle /\ Present(r) /\ cr[r] = Mem /\ Mem \in Resource /\ RestoreOK(r) /\ HolderOK(r)
      /\ ~Terminal(r)
  <2>1. ~Idle /\ Present(r)
      BY AtStage
         DEF EnsureConditionsInitialized, EnsureMetadata, EnsureProviderChildState,
             EnsureActiveRestoreLease, EnsureProviderReady, EnsureSourceBackupUsable,
             EnsureMaintenanceModeActivated, EnsurePreparation, CleanupEnds, PassInv
  <2>2. CreateStep > 0
      BY ActionStepOf DEF CleanupEnds, PassInv
  <2> QED
      BY <2>1, <2>2, MemType DEF PassInv, RestoreInv, HolderInv, Mem
<1>1. CASE EnsureConditionsInitialized
    BY <1>0, <1>1, Written
       DEF EnsureConditionsInitialized, Becomes, HolderOK, Owns, Restoring, Phase, Present,
           Terminal
<1>2. CASE EnsureMetadata
    BY <1>0, <1>2, Written
       DEF EnsureMetadata, Becomes, HolderOK, Owns, Restoring, Phase, Present, Terminal
<1>3. CASE EnsureProviderChildState
    BY <1>0, <1>3, Written
       DEF EnsureProviderChildState, EndsWith, Becomes, HolderOK, Owns, Restoring, Phase,
           Present, Terminal
<1>4. CASE EnsureActiveRestoreLease
  <2>1. Mem.prepared => lease = r
      BY <1>0, <1>4, ActionStepOf DEF PassInv
  <2> QED
      BY <1>0, <1>4, <2>1, Written
         DEF EnsureActiveRestoreLease, EndsWith, Becomes, HolderOK, Owns, Restoring, Phase,
             Present, Terminal
<1>5. CASE EnsureProviderReady
    BY <1>0, <1>5
       DEF EnsureProviderReady, HolderOK, Owns, Restoring, Phase, Present, Terminal
<1>6. CASE EnsureSourceBackupUsable
    BY <1>0, <1>6, Written
       DEF EnsureSourceBackupUsable, EndsWith, Becomes, HolderOK, Owns, Restoring, Phase,
           Present, Terminal
<1>7. CASE EnsureMaintenanceModeActivated
  <2>1. (UNCHANGED <<maintenance, unnoticed>>) \/ maintenance' = TRUE \/ unnoticed' = TRUE
      BY <1>7 DEF EnsureMaintenanceModeActivated
  <2>2. UNCHANGED <<cr, velero, foreign, data, workloads, lease>>
      BY <1>7 DEF EnsureMaintenanceModeActivated
  <2> QED
      BY <1>0, <2>1, <2>2 DEF HolderOK, Owns, Restoring, Phase, Present, Terminal
<1>8. CASE EnsurePreparation
  <2>1. UNCHANGED <<cr, velero, foreign, maintenance, unnoticed, lease>>
      BY <1>8 DEF EnsurePreparation
  <2>2. AlreadyPrepared(r) => UNCHANGED <<data, workloads>>
      BY <1>8 DEF EnsurePreparation
  <2> QED
      BY <1>0, <2>1, <2>2
         DEF AlreadyPrepared, HolderOK, Owns, Restoring, Phase, Present, Terminal
<1>9. CASE CleanupEnds
  <2>1. lease = r /\ data = "gone" /\ \A w \in Workloads : workloads[w].stored # NoCount
      BY <1>9 DEF CleanupEnds, PassInv, PassHoldsLease, ScaledInv
  <2> QED
      BY <1>0, <1>9, <2>1, Written
         DEF CleanupEnds, Becomes, RestoreOK, HolderOK, Owns, Restoring, Phase, Present, Terminal
<1> QED
    BY <1>1, <1>2, <1>3, <1>4, <1>5, <1>6, <1>7, <1>8, <1>9

\* The same from the creation of the Velero restore on.
LEMMA HolderRestoring ==
    ASSUME Known, NoticeInv, HolderInv, NEW r \in Restores, r = Current,
           \/ EnsureProviderRestore \/ EnsureProviderCompletion \/ EnsureScaleUpInitiated
           \/ EnsureWorkloadsReady \/ EnsureScaleUpFinalized
           \/ EnsureMaintenanceModeDeactivated \/ EnsureRestoreCompleted
    PROVE  HolderOK(r)'
<1> USE DEF Known, providerVars, ecoVars, sharedVars
<1>0. /\ ~Idle /\ Present(r) /\ cr[r] = Mem /\ Mem \in Resource /\ RestoreOK(r) /\ HolderOK(r)
      /\ velero \in [Restores -> Child \cup {NoChild}]
    BY AtStage
       DEF EnsureProviderRestore, EnsureProviderCompletion, EnsureScaleUpInitiated,
           EnsureWorkloadsReady, EnsureScaleUpFinalized, EnsureMaintenanceModeDeactivated,
           EnsureRestoreCompleted, RestoreInv, HolderInv, Mem, TypeOK
<1>1. /\ CreateStep > 8 /\ lease = r /\ ~Terminal(r) /\ Mem.prepared
      /\ CreateStep > 10 => Mem.provider
    BY <1>0, ActionStepOf DEF PassInv, PassHoldsLease
<1>2. CASE EnsureProviderRestore
  <2>1. NewChild(TRUE, "new").phase = "new" /\ NewChild(FALSE, "completed").owned = FALSE
      BY DEF NewChild
  <2>2. ~Mem.provider /\ unnoticed = FALSE => maintenance = TRUE
      BY <1>2, ActionStepOf DEF NoticeInv
  <2> QED
      BY <1>0, <1>1, <1>2, <2>1, <2>2, Written
         DEF EnsureProviderRestore, EndsWith, Becomes, HolderOK, Owns, Restoring, Phase, Present,
             Terminal
<1>3. CASE EnsureProviderCompletion
  <2>1. UNCHANGED <<velero, foreign, data, workloads, unnoticed, lease>>
      BY <1>3 DEF EnsureProviderCompletion
  <2>2. CASE UNCHANGED <<cr, maintenance>>
      BY <1>0, <2>1, <2>2 DEF HolderOK, Owns, Restoring, Phase, Present, Terminal
  <2>3. CASE Phase(r) = "completed" /\ Write([Mem EXCEPT !.provider = TRUE])
      BY <1>0, <1>1, <2>1, <2>3, Written
         DEF Becomes, RestoreOK, HolderOK, Owns, Restoring, Phase, Present, Terminal
  <2>4. CASE EndsWith("False")
      BY <1>0, <2>4, Written DEF EndsWith, Becomes, HolderOK, Terminal
  <2>5. CASE Phase(r) = "failed" /\ UNCHANGED cr
      BY <1>0, <2>1, <2>5 DEF HolderOK, Owns, Restoring, Phase, Present, Terminal
  <2> QED
      BY <1>3, <2>2, <2>3, <2>4, <2>5 DEF EnsureProviderCompletion
<1>4. CASE \/ EnsureScaleUpInitiated \/ EnsureWorkloadsReady \/ EnsureScaleUpFinalized
           \/ EnsureMaintenanceModeDeactivated
  <2>1. UNCHANGED cr \/ \E v : Becomes(Mem.finalizer, Mem.prepared, Mem.provider, v, Mem.succeeded)
    <3>1. CASE EnsureScaleUpInitiated \/ EnsureScaleUpFinalized
        BY <1>0, <3>1, Written DEF EnsureScaleUpInitiated, EnsureScaleUpFinalized, RecoveryStage, Write
    <3>2. CASE EnsureWorkloadsReady
        BY <1>0, <3>2, Written DEF EnsureWorkloadsReady, Write
    <3>3. CASE EnsureMaintenanceModeDeactivated
        BY <1>0, <3>3, Written DEF EnsureMaintenanceModeDeactivated, Write
    <3> QED
        BY <1>4, <3>1, <3>2, <3>3
  <2>2. CreateStep > 10
      BY <1>4, ActionStepOf
  <2>3. UNCHANGED <<velero, foreign, lease, data>>
      BY <1>4
         DEF EnsureScaleUpInitiated, EnsureWorkloadsReady, EnsureScaleUpFinalized, RecoveryStage,
             EnsureMaintenanceModeDeactivated
  <2> QED
      BY <1>0, <1>1, <2>1, <2>2, <2>3
         DEF Becomes, RestoreOK, HolderOK, Owns, Restoring, Phase, Present, Terminal
<1>5. CASE EnsureRestoreCompleted
    BY <1>0, <1>1, <1>5, ActionStepOf, Written
       DEF EnsureRestoreCompleted, EndsWith, Becomes, HolderOK, Owns, Restoring, Phase, Present,
           Terminal
<1> QED
    BY <1>2, <1>3, <1>4, <1>5

\* The same in the other operations.
LEMMA HolderDeleting ==
    ASSUME Known, HolderInv, NEW r \in Restores, r = Current,
           \/ EnsureProviderRestoreDeleted \/ EnsureDeletingStatus \/ EnsureRestoreLeaseReleased
           \/ EnsureDeletionFinalized \/ RestoreVanished \/ PassFails
    PROVE  HolderOK(r)'
<1> USE DEF Known, providerVars, ecoVars, sharedVars
<1>0. HolderOK(r) /\ cr[r] = Mem
    BY DEF HolderInv, Mem
<1>1. CASE EnsureProviderRestoreDeleted
  <2>1. velero \in [Restores -> Child \cup {NoChild}]
      BY DEF TypeOK
  <2>2. \/ velero'[r] = velero[r] \/ velero'[r] = NoChild
        \/ /\ velero'[r].owned = velero[r].owned /\ velero'[r].phase = velero[r].phase
           /\ velero'[r] # NoChild /\ Owns(r)
      BY <1>1, <2>1 DEF EnsureProviderRestoreDeleted, DeletedChild, Owns, Child, NoChild
  <2> QED
      BY <1>0, <1>1, <2>2
         DEF EnsureProviderRestoreDeleted, HolderOK, Owns, Restoring, Phase, Present, Terminal
<1>2. CASE EnsureDeletingStatus
  <2>1. ~Idle /\ Mem \in Resource /\ Present(r)
      BY <1>2, AtStage DEF EnsureDeletingStatus
  <2> QED
      BY <1>0, <1>2, <2>1, Written
         DEF EnsureDeletingStatus, Becomes, HolderOK, Owns, Restoring, Phase, Present, Terminal
<1>3. CASE EnsureRestoreLeaseReleased
    BY <1>3, RestoreAssumption DEF RestoreAssumption, EnsureRestoreLeaseReleased, HolderOK
<1>4. CASE EnsureDeletionFinalized
  <2>1. cr'[r] = NoRestore
      BY <1>4, AtStage DEF EnsureDeletionFinalized, TypeOK
  <2> QED
      BY <2>1 DEF HolderOK, Present
<1>5. CASE RestoreVanished \/ PassFails
    BY <1>0, <1>5
       DEF RestoreVanished, PassFails, HolderOK, Owns, Restoring, Phase, Present, Terminal
<1> QED
    BY <1>1, <1>2, <1>3, <1>4, <1>5

\* A stage keeps HolderInv.
LEMMA HolderStage ==
    ASSUME Known, ScaledInv, NoticeInv, HolderInv, Stage \/ PassFails
    PROVE  HolderInv'
BY HolderOthers, HolderPreparing, HolderRestoring, HolderDeleting DEF Stage, HolderInv

-------------------------------------------------------------------------------
(* What others do keeps the ecosystem invariants. *)

\* What others do to the removed and restored data, and to the notice.
LEMMA OthersData ==
    ASSUME TypeOK,
           \/ \E x \in Restores : Velero(x)
           \/ Kubernetes \/ ProviderBecomesReady \/ Others \/ Backup \/ Recover
    PROVE  /\ UNCHANGED unnoticed
           /\ \/ UNCHANGED data
              \/ data' = "live"
              \/ data \in {"going", "part"} /\ data' \in {"gone", "mixed"}
              \/ \E x \in Restores : Restoring(x) /\ ~(velero'[x].phase = "completed")
                                    /\ data' = "mixed"
<1>1. CASE \E x \in Restores : VeleroStarts(x)
  <2>1. PICK x \in Restores : VeleroStarts(x)
      BY <1>1
  <2>2. velero'[x].phase = "running" /\ data' = "mixed" /\ Restoring(x)
      BY <2>1 DEF VeleroStarts, TypeOK, Owns, Child, Restoring, Phase
  <2> QED
      BY <2>1, <2>2 DEF VeleroStarts, sharedVars
<1>2. UNCHANGED unnoticed
    BY DEF Velero, VeleroStarts, VeleroCompletes, VeleroFails, VeleroEndsDeletion, Kubernetes,
           ResourcesGone, WorkloadConverges, ProviderBecomesReady, Others, Outside, Asked,
           ProviderBecomesUnready, WorkloadRegresses, SourceLost, VeleroRestoreDeleted,
           VeleroRestoreCreated, UserCreates, UserDeletes, Backup, BackupTakes, BackupGivesBack,
           BackupSwitches, Recover, sharedVars
<1>3. \/ UNCHANGED data \/ ResourcesGone
      \/ \E x \in Restores : VeleroStarts(x) \/ VeleroCompletes(x)
    BY DEF Velero, VeleroFails, VeleroEndsDeletion, Kubernetes, WorkloadConverges,
           ProviderBecomesReady, Others, Asked, ProviderBecomesUnready, WorkloadRegresses,
           SourceLost, VeleroRestoreDeleted, VeleroRestoreCreated, UserCreates, UserDeletes,
           Backup, BackupTakes, BackupGivesBack, BackupSwitches, Recover, ecoVars
<1> QED
    BY <1>1, <1>2, <1>3 DEF ResourcesGone, VeleroCompletes

\* The notice of a restore that has the lease is its own.
LEMMA OthersKeepHolder ==
    ASSUME Known, HolderInv, NEW r \in Restores,
           \/ \E x \in Restores : Velero(x)
           \/ Kubernetes \/ ProviderBecomesReady \/ Others \/ Backup \/ Recover
    PROVE  HolderOK(r)'
<1> USE DEF Known
<1>1. SUFFICES ASSUME lease' = r, Present(r)', cr'[r].prepared, ~Terminal(r)'
               PROVE  HolderOK(r)'
    BY DEF HolderOK
<1>2. Kept(r) /\ Runs(r)
    BY OthersKeep, OthersRun
<1>3. /\ lease = r /\ Present(r) /\ cr[r].prepared /\ ~Terminal(r)
      /\ cr'[r].provider = cr[r].provider /\ HolderOK(r)
    BY <1>1, <1>2 DEF Kept, Terminal, HolderInv
<1>4. UNCHANGED maintenance /\ UNCHANGED unnoticed
    BY <1>3, OthersMove, OthersData, RestoreAssumption DEF RestoreAssumption
<1>5. \A x \in Restores : Restoring(x) => x = r /\ ~cr[r].provider
    BY <1>3 DEF RestoreInv, RestoreOK
<1>6. \/ UNCHANGED data \/ data' = "live"
      \/ data' = "mixed" /\ ~cr[r].provider /\ ~(velero'[r].phase = "completed")
    BY <1>3, <1>5, OthersData DEF HolderOK
<1>7. data' \notin {"going", "part"}
    BY <1>3, <1>6 DEF HolderOK
<1>8. ~cr'[r].provider => \A w \in Workloads : workloads'[w].stored # NoCount
    BY <1>3, OthersKeepCounts DEF HolderOK
<1>9. cr'[r].provider \/ (Owns(r)' /\ Phase(r)' = "completed") => data' = "live" \/ r \in foreign'
  <2>1. CASE data' = "live"
      BY <2>1
  <2>2. CASE UNCHANGED data /\ data # "live"
      BY <1>2, <1>3, <2>2 DEF HolderOK, Kept, Runs, Owns, Phase
  <2>3. CASE data' = "mixed" /\ ~cr[r].provider /\ ~(velero'[r].phase = "completed")
      BY <1>3, <2>3 DEF Owns, Phase
  <2> QED
      BY <1>6, <2>1, <2>2, <2>3
<1>10. Restoring(r)' /\ unnoticed' = FALSE => maintenance' = TRUE
    BY <1>2, <1>3, <1>4 DEF HolderOK, Kept
<1> QED
    BY <1>7, <1>8, <1>9, <1>10 DEF HolderOK

\* What others do keeps ScaledInv, NoticeInv and HolderInv.
LEMMA OthersKeepEcosystem ==
    ASSUME Known, ScaledInv, NoticeInv, HolderInv,
           \/ \E x \in Restores : Velero(x)
           \/ Kubernetes \/ ProviderBecomesReady \/ Others \/ Backup \/ Recover
    PROVE  ScaledInv' /\ NoticeInv' /\ HolderInv'
<1> USE DEF Known
<1>1. UNCHANGED pass /\ UNCHANGED unnoticed
    BY OthersMove, OthersData
<1>2. CreateStep' = CreateStep /\ CreateStep \in Nat
    BY <1>1, PassFields DEF CreateStep, Idle
<1>3. ScaledInv'
    BY <1>1, OthersKeepCounts DEF ScaledInv
<1>4. NoticeInv'
  <2>1. CASE CreateStep > 7
    <3>1. ~Idle /\ lease = Current /\ Present(Current) /\ Mem.finalizer
        BY <1>2, <2>1 DEF PassInv, PassHoldsLease, CreateStep
    <3>2. PICK c \in Restores : c = pass.restore
        BY <3>1, PassFields DEF Current
    <3>3. UNCHANGED maintenance
        BY <3>1, <3>2, OthersMove, RestoreAssumption DEF RestoreAssumption, Current
    <3>4. Kept(c)
        BY OthersKeep
    <3>5. cr'[c].provider = cr[c].provider
        BY <3>1, <3>2, <3>4 DEF Kept, Current, Mem
    <3> QED
        BY <1>1, <1>2, <3>2, <3>3, <3>5 DEF NoticeInv, Mem, Current
  <2>2. CASE ~(CreateStep > 7)
    <3>1. ~(CreateStep' > 7) /\ ~(CreateStep' > 14)
        BY <1>2, <2>2
    <3> QED
        BY <3>1 DEF NoticeInv
  <2> QED
      BY <2>1, <2>2
<1> QED
    BY <1>3, <1>4, OthersKeepHolder DEF HolderInv

\* Every step keeps the ecosystem invariants.
LEMMA EcosystemNext ==
    Known /\ ScaledInv /\ NoticeInv /\ HolderInv /\ [Next]_vars
        => ScaledInv' /\ NoticeInv' /\ HolderInv'
<1> SUFFICES ASSUME Known, ScaledInv, NoticeInv, HolderInv, [Next]_vars
             PROVE  ScaledInv' /\ NoticeInv' /\ HolderInv'
    OBVIOUS
<1> USE DEF providerVars, ecoVars, sharedVars, workerVars
<1>1. CASE Stage \/ PassFails
    BY <1>1, ScaledStage, NoticeStage, HolderStage
<1>2. CASE \/ \E r \in Restores : Velero(r)
           \/ Kubernetes \/ ProviderBecomesReady \/ Others \/ Backup \/ Recover
    BY <1>2, OthersKeepEcosystem
<1>3. ASSUME UNCHANGED <<cr, velero, foreign, lease, data, workloads, maintenance, unnoticed>>
      PROVE  HolderInv'
    BY <1>3 DEF HolderInv, HolderOK, Owns, Restoring, Phase, Present, Terminal
<1>4. CASE Crash \/ \E r \in Restores : Reconcile(r)
  <2>1. /\ UNCHANGED <<cr, velero, foreign, lease, data, workloads, maintenance, unnoticed>>
        /\ pass'.waiting = FALSE /\ ~(CreateStep' > 1)
      BY <1>4 DEF Crash, Reconcile, NoPass, CreateStep, Idle
  <2>2. CreateStep' \in Nat
      BY <1>4 DEF Crash, Reconcile, NoPass, CreateStep, Idle
  <2> QED
      BY <1>3, <2>1, <2>2 DEF ScaledInv, NoticeInv
<1>5. CASE UNCHANGED vars
  <2>1. UNCHANGED <<cr, velero, foreign, lease, data, workloads, maintenance, unnoticed, pass>>
      BY <1>5 DEF vars
  <2> QED
      BY <1>3, <2>1 DEF ScaledInv, NoticeInv, CreateStep, Idle, Mem, Current
<1> QED
    BY <1>1, <1>2, <1>4, <1>5 DEF Next

Invariants == Known /\ ScaledInv /\ NoticeInv /\ HolderInv

\* Everything together is an invariant.
LEMMA AllInvariants == Spec => []Invariants
<1>1. Init => ScaledInv /\ NoticeInv /\ HolderInv
    BY DEF Init, NoPass, ScaledInv, NoticeInv, HolderInv, HolderOK, CreateStep, Idle, Present,
           NoCount
<1>2. Invariants <=> TypeOK /\ PassHoldsLease /\ CountsInv /\ PassInv /\ RestoreInv
                      /\ ScaledInv /\ NoticeInv /\ HolderInv
    BY DEF Invariants, Known
<1>3. TypeOK /\ PassHoldsLease /\ CountsInv /\ PassInv /\ RestoreInv
         /\ ScaledInv /\ NoticeInv /\ HolderInv /\ [Next]_vars
            => ScaledInv' /\ NoticeInv' /\ HolderInv'
    BY EcosystemNext DEF Known
<1> QED
    BY <1>1, <1>2, <1>3, TypeCorrect, LeaseIsHeld, CountsInvariant, RestoreInvariants, PTL
       DEF Spec

-------------------------------------------------------------------------------

\* A restore Velero works on has the lease and is prepared.
LEMMA RestoringHolds ==
    ASSUME Invariants, NEW r \in Restores, Restoring(r)
    PROVE  /\ lease = r /\ Present(r) /\ cr[r].prepared /\ ~Terminal(r) /\ ~cr[r].provider
           /\ HolderOK(r)
BY DEF Invariants, Known, RestoreInv, RestoreOK, HolderInv, Restoring

\* Nothing is being removed while Velero restores: a cleanup that timed out,
\* failed halfway or was cut off by a crash is never followed by a Velero restore.
THEOREM NothingRemovedUnderVeleroHolds == Spec => []NothingRemovedUnderVelero
<1>1. Invariants => NothingRemovedUnderVelero
    BY RestoringHolds DEF NothingRemovedUnderVelero, HolderOK
<1> QED
    BY <1>1, AllInvariants, PTL

\* No unlabelled workload runs while Velero restores.
THEOREM ScaledDownUnderVeleroHolds == Spec => []ScaledDownUnderVelero
<1>1. Invariants => ScaledDownUnderVelero
    BY RestoringHolds DEF ScaledDownUnderVelero, HolderOK, Invariants, ScaledInv
<1> QED
    BY <1>1, AllInvariants, PTL

\* The notice is up while Velero restores, unless its activation has failed.
THEOREM RestoresUnderMaintenanceHolds == Spec => []RestoresUnderMaintenance
<1>1. Invariants => RestoresUnderMaintenance
  <2> SUFFICES ASSUME Invariants, NEW r \in Restores, Restoring(r), ~unnoticed
               PROVE  maintenance
      BY DEF RestoresUnderMaintenance
  <2>1. unnoticed = FALSE
      BY DEF Invariants, Known, TypeOK
  <2> QED
      BY <2>1, RestoringHolds DEF HolderOK
<1> QED
    BY <1>1, AllInvariants, PTL

\* A preparation starts only for the restore that has the lease, and only when
\* neither its Velero restore exists nor its success is recorded; every other
\* restore that has come that far is being deleted.
THEOREM PreparedOnceHolds == Spec => PreparedOnce
<1> DEFINE Goes == data' \in {"going", "part"} /\ data' # data =>
                      \A r \in Restores :
                          Present(r) /\ ~cr[r].deleting /\ ~Terminal(r)
                              => ~cr[r].provider /\ ~Owns(r)
<1>1. ASSUME Invariants, [Next]_vars
      PROVE  Goes
  <2> SUFFICES ASSUME data' \in {"going", "part"}, data' # data, NEW r \in Restores,
                      Present(r), ~cr[r].deleting, ~Terminal(r)
               PROVE  ~cr[r].provider /\ ~Owns(r)
      OBVIOUS
  <2> USE <1>1 DEF Invariants, Known
  <2>1. EnsurePreparation
    <3>1. CASE Stage \/ PassFails
        BY <3>1, StageMoves
    <3>2. CASE \/ \E x \in Restores : Velero(x)
               \/ Kubernetes \/ ProviderBecomesReady \/ Others \/ Backup \/ Recover
        BY <3>2, OthersData
    <3>3. CASE Crash \/ (\E x \in Restores : Reconcile(x)) \/ UNCHANGED vars
        BY <3>3 DEF Crash, Reconcile, vars, ecoVars
    <3> QED
        BY <3>1, <3>2, <3>3 DEF Next
  <2>2. ~AlreadyPrepared(Current) /\ lease = Current /\ ~Idle
    <3>1. ~Idle /\ lease = Current
        BY <2>1, ActionStepOf, AtStage DEF EnsurePreparation, PassHoldsLease
    <3>2. AlreadyPrepared(Current) => UNCHANGED data
        BY <2>1 DEF EnsurePreparation, ecoVars
    <3> QED
        BY <3>1, <3>2
  <2>3. ~cr[r].prepared
      BY <2>2 DEF AlreadyPrepared, RestoreInv, RestoreOK
  <2> QED
      BY <2>3 DEF RestoreInv, RestoreOK
<1>2. Invariants /\ [Next]_vars => [Goes]_vars
    BY <1>1
<1> QED
    BY <1>2, AllInvariants, PTL DEF Spec, PreparedOnce

\* Only the last stage records the success of a restore.
LEMMA Succeeds ==
    ASSUME Invariants, [Next]_vars, NEW r \in Restores, Present(r),
           cr[r].succeeded # "True", cr'[r] # NoRestore, cr'[r].succeeded = "True"
    PROVE  EnsureRestoreCompleted /\ r = Current
<1> USE DEF Invariants, Known
<1>1. CASE Stage \/ PassFails
  <2>1. r = Current /\ ~Idle /\ cr[r] = Mem /\ Mem \in Resource
      BY <1>1, StageMoves, MemType DEF Mem
  <2>2. ~UNCHANGED cr
      OBVIOUS
  <2>3. /\ \A v : Write([Mem EXCEPT !.succeeded = v]) => v = "True"
        /\ ~Write([Mem EXCEPT !.finalizer = TRUE]) /\ ~Write(Mem)
        /\ ~Write([Mem EXCEPT !.prepared = TRUE]) /\ ~Write([Mem EXCEPT !.provider = TRUE])
        /\ \A v : cr' # Stored([Mem EXCEPT !.recovered = v])
      BY <2>1, Written DEF Becomes
  <2>4. ~EnsureConditionsInitialized /\ ~EnsureMetadata /\ ~EnsureProviderChildState
      BY <2>2, <2>3
         DEF EnsureConditionsInitialized, EnsureMetadata, EnsureProviderChildState, EndsWith
  <2>5. ~EnsureActiveRestoreLease /\ ~EnsureProviderReady /\ ~EnsureSourceBackupUsable
      BY <2>2, <2>3
         DEF EnsureActiveRestoreLease, EnsureProviderReady, EnsureSourceBackupUsable, EndsWith,
             sharedVars
  <2>6. ~EnsureMaintenanceModeActivated /\ ~EnsurePreparation /\ ~CleanupEnds
      BY <2>2, <2>3 DEF EnsureMaintenanceModeActivated, EnsurePreparation, CleanupEnds
  <2>7. ~EnsureProviderRestore /\ ~EnsureProviderCompletion
      BY <2>2, <2>3 DEF EnsureProviderRestore, EnsureProviderCompletion, EndsWith
  <2>8. ~EnsureScaleUpInitiated /\ ~EnsureScaleUpFinalized
      BY <2>2, <2>3 DEF EnsureScaleUpInitiated, EnsureScaleUpFinalized, RecoveryStage, Write
  <2>9. ~EnsureWorkloadsReady /\ ~EnsureMaintenanceModeDeactivated
      BY <2>2, <2>3 DEF EnsureWorkloadsReady, EnsureMaintenanceModeDeactivated, Write
  <2>10. ~EnsureProviderRestoreDeleted /\ ~EnsureDeletingStatus /\ ~EnsureRestoreLeaseReleased
      BY <2>2, <2>3
         DEF EnsureProviderRestoreDeleted, EnsureDeletingStatus, EnsureRestoreLeaseReleased
  <2>11. ~EnsureDeletionFinalized /\ ~RestoreVanished /\ ~PassFails
      BY <2>1, <2>2 DEF EnsureDeletionFinalized, RestoreVanished, PassFails, TypeOK
  <2> QED
      BY <1>1, <2>1, <2>4, <2>5, <2>6, <2>7, <2>8, <2>9, <2>10, <2>11 DEF Stage
<1>2. CASE \/ \E x \in Restores : Velero(x)
           \/ Kubernetes \/ ProviderBecomesReady \/ Others \/ Backup \/ Recover
    BY <1>2, OthersKeep DEF Kept, Present
<1>3. CASE Crash \/ (\E x \in Restores : Reconcile(x)) \/ UNCHANGED vars
    BY <1>3 DEF Crash, Reconcile, vars
<1> QED
    BY <1>1, <1>2, <1>3 DEF Next

\* A restore that succeeds leaves a complete ecosystem: the last stage comes after
\* the one that removed the labels and the one that switched the notice off, and
\* nothing has undone either since.
THEOREM SuccessIsCompleteHolds == Spec => SuccessIsComplete
<1> DEFINE Complete ==
        \A r \in Restores :
          Present(r) /\ cr[r].succeeded # "True" /\ cr'[r] # NoRestore /\ cr'[r].succeeded = "True"
              => /\ data' = "live" \/ r \in foreign
                 /\ \A w \in Workloads : workloads'[w].stored = NoCount
                                         /\ workloads'[w].replicas = Replicas[w]
                 /\ ~maintenance'
<1>1. ASSUME Invariants, [Next]_vars
      PROVE  Complete
  <2> SUFFICES ASSUME NEW r \in Restores, Present(r), cr[r].succeeded # "True",
                      cr'[r] # NoRestore, cr'[r].succeeded = "True"
               PROVE  /\ data' = "live" \/ r \in foreign
                      /\ \A w \in Workloads : workloads'[w].stored = NoCount
                                              /\ workloads'[w].replicas = Replicas[w]
                      /\ ~maintenance'
      OBVIOUS
  <2> USE <1>1 DEF Invariants, Known
  <2>1. EnsureRestoreCompleted /\ r = Current /\ CreateStep = 15
      BY Succeeds, ActionStepOf
  <2>2. UNCHANGED <<data, workloads, maintenance>>
      BY <2>1 DEF EnsureRestoreCompleted, ecoVars, sharedVars
  <2>3. /\ lease = r /\ Present(r) /\ cr[r].prepared /\ ~Terminal(r) /\ cr[r].provider
        /\ HolderOK(r)
      BY <2>1 DEF PassInv, PassHoldsLease, HolderInv, Mem
  <2>4. data = "live" \/ r \in foreign
      BY <2>3 DEF HolderOK
  <2>5. \A w \in Workloads : workloads[w].stored = NoCount /\ workloads[w].replicas = Replicas[w]
    <3>1. \A w \in Workloads : workloads[w].stored = NoCount
        BY <2>1 DEF CountsInv
    <3>2. \A w \in Workloads : Replicas[w] # NoCount
        BY RestoreAssumption DEF RestoreAssumption, NoCount
    <3> QED
        BY <3>1, <3>2 DEF CountsInv, CountsKept
  <2>6. maintenance = FALSE
      BY <2>1 DEF NoticeInv
  <2> QED
      BY <2>2, <2>4, <2>5, <2>6
<1>2. Invariants /\ [Next]_vars => [Complete]_vars
    BY <1>1
<1> QED
    BY <1>2, AllInvariants, PTL DEF Spec, SuccessIsComplete

===============================================================================
