--------------------------- MODULE RestoreController ---------------------------
(***************************************************************************)
(* The restore workflow: the stages of the Restore controller              *)
(* (internal/controller/restore/restoreReconciler.go and reconcile_*.go),  *)
(* the scale manager (scale.go), the cleanup (internal/cleanup) and the    *)
(* Velero restores the controller creates, observes and deletes            *)
(* (internal/provider/velero).                                             *)
(*                                                                         *)
(* One action is one stage of a pass; users, Velero, Kubernetes, a backup  *)
(* and a crash of the operator interleave between the stages.  The cleanup *)
(* waits inside its stage, so it has an action for its start and others    *)
(* for its end.  A stage with several writes has outcomes in which only    *)
(* some of them happened.                                                  *)
(*                                                                         *)
(* One worker reads resources live and is the only writer of their status, *)
(* so a pass needs no copy of its restore.  A pass that wrote anything is  *)
(* followed by another one: every write is an event, and no predicate      *)
(* drops events.  The migration of restores from before conditions is left *)
(* out.  The lease is taken and given back in one step (LeaseManager has   *)
(* the protocol), and a competing backup is its lease and its maintenance  *)
(* mode.                                                                   *)
(***************************************************************************)
EXTENDS Integers, Sequences, FiniteSets

CONSTANTS
    Restores,     \* the names of Restore resources
    Workloads,    \* the workloads with the label restore-scaledown-scope
    Replicas,     \* [Workloads -> Nat]: the replica counts users have set
    MaxFaults,    \* bound on failed calls, timeouts and crashes
    MaxOutside,   \* bound on what others do to Velero, its restores and pods
    MaxUser       \* bound on restores created or deleted and on backups

ASSUME RestoreAssumption ==
    /\ {"free", "backup", "restore"} \cap Restores = {}
    /\ Replicas \in [Workloads -> Nat]
    /\ MaxFaults \in Nat
    /\ MaxOutside \in Nat
    /\ MaxUser \in Nat

VARIABLES
    cr,             \* [Restores -> Resource or NoRestore]: the Restore resources
    velero,         \* [Restores -> Child or NoChild]: the Velero restore of the same name
    foreign,        \* the names somebody else has used for a Velero restore
    usable,         \* the restores whose Velero backup can be restored
    providerReady,  \* Velero and its storage location are available
    data,           \* the dogus and resources a restore removes and Velero restores
    workloads,      \* [Workloads -> Workload]
    maintenance,    \* the maintenance mode
    unnoticed,      \* an activation of the maintenance mode has failed
    lease,          \* the holder of the operation lease
    queue,          \* the restores the controller still has to visit
    pass,           \* the pass of the controller
    up,             \* the operator runs
    faults, outside, asked  \* how much of each bound is used up

providerVars == <<foreign, usable, providerReady>>
ecoVars      == <<data, workloads>>
sharedVars   == <<maintenance, unnoticed, lease>>
workerVars   == <<queue, pass>>
boundVars    == <<faults, outside, asked>>
vars == <<cr, velero, providerVars, ecoVars, sharedVars, workerVars, up, boundVars>>

-------------------------------------------------------------------------------
(* Resources. *)

\* Succeeded: absent, unknown, unknown because another operation has the lease,
\* or final.
Outcomes == {"Absent", "Unknown", "Waiting", "True", "False"}

\* The reasons of WorkloadsRecovered the stages tell apart.
Recoveries == {"Pending", "ScaleUpInitiated", "WaitingForWorkloads", "WorkloadsReady",
               "ScaleUpFinalized", "MaintenanceModeDeactivated", "Failed"}

\* prepared, provider: Prepared and ProviderSucceeded are True; announced: the
\* deprecated status says deleting.  No stage reads the first three of a restore
\* that has ended, so its end leaves them as they are.
Resource == [finalizer : BOOLEAN, deleting : BOOLEAN, announced : BOOLEAN, prepared : BOOLEAN,
             provider : BOOLEAN, recovered : Recoveries, succeeded : Outcomes]

NoRestore == [none |-> TRUE]

NewRestore == [finalizer |-> FALSE, deleting |-> FALSE, announced |-> FALSE, prepared |-> FALSE,
               provider |-> FALSE, recovered |-> "Pending", succeeded |-> "Absent"]

\* A Velero restore: "new" is one Velero has not started.
Child   == [owned : BOOLEAN, phase : {"new", "running", "completed", "failed"}, deleting : BOOLEAN]
NoChild == [none |-> TRUE]

NewChild(owned, phase) == [owned |-> owned, phase |-> phase, deleting |-> FALSE]

\* "live": complete; "going": the deletion of everything is requested; "part":
\* of some of it; "gone": removed; "mixed": neither complete nor removed.
Contents == {"live", "going", "part", "gone", "mixed"}

\* stored: the label restore-scaledown-replicas; ready: the pods agree with
\* spec.replicas.
NoCount  == -1
Workload == [replicas : Nat, stored : Nat \cup {NoCount}, ready : BOOLEAN]

Operations == {"create", "ignore", "delete"}

Present(r)  == cr[r] # NoRestore
Terminal(r) == cr[r].succeeded \in {"True", "False"}
Owns(r)     == velero[r] # NoChild /\ velero[r].owned
Phase(r)    == IF velero[r] = NoChild THEN "none" ELSE velero[r].phase

RequiredOperation(r) ==
    CASE cr[r].deleting                      -> "delete"
      [] ~cr[r].deleting /\ Terminal(r)      -> "ignore"
      [] ~cr[r].deleting /\ ~Terminal(r)     -> "create"

\* Mutant: the maintenance mode is switched on last.
CreateStagesSwapped ==
    <<"ConditionsInitialized", "Metadata", "ProviderChildState", "ActiveRestoreLease",
      "ProviderReady", "SourceBackupUsable", "Preparation", "ProviderRestore",
      "ProviderCompletion", "MaintenanceModeActivated", "ScaleUpInitiated", "WorkloadsReady",
      "ScaleUpFinalized", "MaintenanceModeDeactivated", "RestoreCompleted">>

CreateStages == <<"ConditionsInitialized", "Metadata", "ProviderChildState", "ActiveRestoreLease",
                  "ProviderReady", "SourceBackupUsable", "MaintenanceModeActivated",
                  "Preparation", "ProviderRestore", "ProviderCompletion", "ScaleUpInitiated",
                  "WorkloadsReady", "ScaleUpFinalized", "MaintenanceModeDeactivated",
                  "RestoreCompleted">>
\* Mutant: the lease is released before the Velero restore is gone.
DeleteStagesSwapped ==
    <<"RestoreLeaseReleased", "ProviderRestoreDeleted", "DeletingStatus", "DeletionFinalized">>

DeleteStages == <<"ProviderRestoreDeleted", "DeletingStatus", "RestoreLeaseReleased",
                  "DeletionFinalized">>
IgnoreStages == <<"RestoreLeaseReleased">>

StagesFor(operation) ==
    CASE operation = "create" -> CreateStages
      [] operation = "delete" -> DeleteStages
      [] operation = "ignore" -> IgnoreStages

\* waiting: the pass waits in the cleanup of ensurePreparation.
NoPass == [restore |-> "none", operation |-> "none", step |-> 1, waiting |-> FALSE]

Init ==
    /\ cr = [r \in Restores |-> NoRestore]
    /\ velero = [r \in Restores |-> NoChild]
    /\ foreign = {}
    /\ usable = Restores
    /\ providerReady = TRUE
    /\ data = "live"
    /\ workloads = [w \in Workloads |->
                       [replicas |-> Replicas[w], stored |-> NoCount, ready |-> TRUE]]
    /\ maintenance = FALSE
    /\ unnoticed = FALSE
    /\ lease = "free"
    /\ queue = {}
    /\ pass = NoPass
    /\ up = TRUE
    /\ faults = 0
    /\ outside = 0
    /\ asked = 0

-------------------------------------------------------------------------------
(* How a stage ends. *)

Idle    == pass = NoPass
Current == pass.restore
Mem     == cr[Current]

At(stage) ==
    /\ ~Idle /\ ~pass.waiting
    /\ StagesFor(pass.operation)[pass.step] = stage
    /\ Present(Current)

Last == Len(StagesFor(pass.operation))

\* Go on with the next stage; the pass ends after the last one.
Continue ==
    /\ pass' = IF pass.step = Last THEN NoPass ELSE [pass EXCEPT !.step = @ + 1]
    /\ UNCHANGED queue

\* End the pass; an error, a delay or the event of a write brings the next one.
Requeue ==
    /\ pass' = NoPass
    /\ queue' = queue \cup {Current}

Abort ==
    /\ pass' = NoPass
    /\ UNCHANGED queue

\* applyConditions: every write brings the deprecated status up to date as well.
Stored(resource) == [cr EXCEPT ![Current] = [resource EXCEPT !.announced = resource.deleting]]

\* setConditions: writes the status and ends the pass.
Write(resource) ==
    /\ cr' = Stored(resource)
    /\ Requeue

Fault == faults < MaxFaults /\ faults' = faults + 1

Interference == outside < MaxOutside /\ outside' = outside + 1

\* A call fails: the pass ends with an error.
CallFails == Fault /\ Requeue

-------------------------------------------------------------------------------
(* The scale manager.  Each operation visits the workloads in some order and *)
(* stops at the first failed write, so it has taken effect on a subset.      *)

SetReplicas(wl, n) ==
    [wl EXCEPT !.replicas = n, !.ready = @ /\ wl.replicas = n]

\* Mutant: the stored count is written again by every scale down.
ScaledDownAgain(ws) ==
    [w \in Workloads |->
        IF w \in ws THEN [SetReplicas(workloads[w], 0) EXCEPT !.stored = workloads[w].replicas]
        ELSE workloads[w]]

\* A workload that carries the label already is left alone.
ScaledDown(ws) ==
    [w \in Workloads |->
        IF w \in ws /\ workloads[w].stored = NoCount
        THEN [SetReplicas(workloads[w], 0) EXCEPT !.stored = workloads[w].replicas]
        ELSE workloads[w]]

\* Mutant: a workload without the label is scaled up as well.
ScaledUpUnlabelled(ws) ==
    [w \in Workloads |->
        IF w \in ws THEN SetReplicas(workloads[w], workloads[w].stored) ELSE workloads[w]]

\* The stored count comes back, the label stays.
ScaledUp(ws) ==
    [w \in Workloads |->
        IF w \in ws /\ workloads[w].stored # NoCount
        THEN SetReplicas(workloads[w], workloads[w].stored)
        ELSE workloads[w]]

Finalized(ws) ==
    [w \in Workloads |->
        IF w \in ws THEN [workloads[w] EXCEPT !.stored = NoCount] ELSE workloads[w]]

AreWorkloadsReady ==
    \A w \in Workloads :
        /\ workloads[w].ready
        /\ workloads[w].stored \in {NoCount, workloads[w].replicas}

-------------------------------------------------------------------------------
(* The stages of the create operation. *)

Reconcile(r) ==
    /\ up /\ Idle /\ r \in queue
    /\ queue' = queue \ {r}
    /\ pass' = IF Present(r)
                  THEN [restore |-> r, operation |-> RequiredOperation(r), step |-> 1,
                        waiting |-> FALSE]
                  ELSE NoPass
    /\ UNCHANGED <<cr, velero, providerVars, ecoVars, sharedVars, up, boundVars>>

EnsureConditionsInitialized ==
    /\ At("ConditionsInitialized")
    /\ IF Mem.succeeded = "Absent"
          THEN Write([Mem EXCEPT !.succeeded = "Unknown"])
          ELSE Continue /\ UNCHANGED cr
    /\ UNCHANGED <<velero, providerVars, ecoVars, sharedVars, up, boundVars>>

EnsureMetadata ==
    /\ At("Metadata")
    /\ IF Mem.finalizer
          THEN Continue /\ UNCHANGED cr
          ELSE Write([Mem EXCEPT !.finalizer = TRUE])
    /\ UNCHANGED <<velero, providerVars, ecoVars, sharedVars, up, boundVars>>

EndsWith(outcome) == Write([Mem EXCEPT !.succeeded = outcome])

\* A Velero restore of somebody else is a terminal conflict.
EnsureProviderChildState ==
    /\ At("ProviderChildState")
    /\ IF velero[Current] # NoChild /\ ~Owns(Current)
          THEN EndsWith("False")
          ELSE Continue /\ UNCHANGED cr
    /\ UNCHANGED <<velero, providerVars, ecoVars, sharedVars, up, boundVars>>

\* isAlreadyPrepared: preparation is done when it was recorded, or when it must
\* have happened because there is a Velero restore.
AlreadyPrepared(r) == cr[r].prepared \/ Owns(r)

\* Mutant: a holder that is no Restore counts as one that is gone.
HolderUnresolved == lease # "free" /\ (lease \in Restores => ~Present(lease) \/ Terminal(lease))

\* Held: go on (a recorded wait is taken back first).  Free, or left by a restore
\* that is gone or terminal: take it and look again.  Otherwise wait.
HolderOver == lease \in Restores /\ (~Present(lease) \/ Terminal(lease))

EnsureActiveRestoreLease ==
    /\ At("ActiveRestoreLease")
    /\ \/ /\ lease = Current /\ Mem.succeeded # "Waiting"
          /\ Continue
          /\ UNCHANGED <<cr, lease>>
       \/ /\ lease = Current /\ Mem.succeeded = "Waiting"
          /\ EndsWith("Unknown")
          /\ UNCHANGED lease
       \/ /\ lease # Current /\ (lease = "free" \/ HolderOver)
          /\ lease' = Current
          /\ Requeue
          /\ UNCHANGED cr
       \/ /\ lease # Current /\ lease # "free" /\ ~HolderOver
          /\ EndsWith("Waiting")
          /\ UNCHANGED lease
    /\ UNCHANGED <<velero, providerVars, ecoVars, maintenance, unnoticed, up, boundVars>>

\* Mutant: an unready provider ends the pass for good.
ProviderReadyStops ==
    /\ At("ProviderReady")
    /\ IF AlreadyPrepared(Current) \/ providerReady THEN Continue ELSE Abort
    /\ UNCHANGED <<cr, velero, providerVars, ecoVars, sharedVars, up, boundVars>>

EnsureProviderReady ==
    /\ At("ProviderReady")
    /\ IF AlreadyPrepared(Current) \/ providerReady THEN Continue ELSE Requeue
    /\ UNCHANGED <<cr, velero, providerVars, ecoVars, sharedVars, up, boundVars>>

EnsureSourceBackupUsable ==
    /\ At("SourceBackupUsable")
    /\ IF AlreadyPrepared(Current) \/ Current \in usable
          THEN Continue /\ UNCHANGED cr
          ELSE EndsWith("False")
    /\ UNCHANGED <<velero, providerVars, ecoVars, sharedVars, up, boundVars>>

\* Best effort: a restore goes on when the activation fails.
EnsureMaintenanceModeActivated ==
    /\ At("MaintenanceModeActivated")
    /\ Continue
    /\ \/ /\ Mem.recovered = "MaintenanceModeDeactivated"
          /\ UNCHANGED <<maintenance, unnoticed, faults>>
       \/ /\ Mem.recovered # "MaintenanceModeDeactivated"
          /\ maintenance' = TRUE
          /\ UNCHANGED <<unnoticed, faults>>
       \/ /\ Mem.recovered # "MaintenanceModeDeactivated"
          /\ Fault
          /\ unnoticed' = TRUE
          /\ UNCHANGED maintenance
    /\ UNCHANGED <<cr, velero, providerVars, ecoVars, lease, up, outside, asked>>

\* Mutant: workloads that could not be scaled down are passed over.
PreparationPassesOver ==
    /\ At("Preparation")
    /\ \/ /\ AlreadyPrepared(Current)
          /\ Continue
          /\ UNCHANGED ecoVars
       \/ /\ ~AlreadyPrepared(Current)
          /\ \E ws \in SUBSET Workloads : workloads' = ScaledDown(ws)
          /\ data' = IF data = "gone" THEN "gone" ELSE "going"
          /\ pass' = [pass EXCEPT !.waiting = TRUE]
          /\ UNCHANGED queue
    /\ UNCHANGED <<cr, velero, providerVars, sharedVars, up, boundVars>>

\* ensurePreparation: scale down, request every deletion, then wait.
EnsurePreparation ==
    /\ At("Preparation")
    /\ \/ /\ AlreadyPrepared(Current)
          /\ Continue
          /\ UNCHANGED <<ecoVars, faults>>
       \/ /\ ~AlreadyPrepared(Current)
          /\ workloads' = ScaledDown(Workloads)
          /\ data' = IF data = "gone" THEN "gone" ELSE "going"
          /\ pass' = [pass EXCEPT !.waiting = TRUE]
          /\ UNCHANGED <<queue, faults>>
       \/ /\ ~AlreadyPrepared(Current)
          /\ CallFails
          /\ \/ /\ \E ws \in SUBSET Workloads : workloads' = ScaledDown(ws)
                /\ UNCHANGED data
             \/ /\ workloads' = ScaledDown(Workloads)
                /\ data' = IF data \in {"live", "mixed"} THEN "part" ELSE data
    /\ UNCHANGED <<cr, velero, providerVars, sharedVars, up, outside, asked>>

\* Mutant: a cleanup that timed out counts as one that ended.
CleanupEndsEarly ==
    /\ pass.waiting
    /\ Write([Mem EXCEPT !.prepared = TRUE])
    /\ UNCHANGED <<velero, providerVars, ecoVars, sharedVars, up, boundVars>>

\* Mutant: the end of the cleanup is not recorded.
CleanupEndsUnrecorded ==
    /\ pass.waiting /\ data = "gone"
    /\ pass' = [pass EXCEPT !.step = @ + 1, !.waiting = FALSE]
    /\ UNCHANGED <<cr, velero, providerVars, ecoVars, sharedVars, queue, up, boundVars>>

\* Every deleted object is gone; the preparation is recorded.
CleanupEnds ==
    /\ pass.waiting /\ Present(Current)
    /\ data = "gone"
    /\ Write([Mem EXCEPT !.prepared = TRUE])
    /\ UNCHANGED <<velero, providerVars, ecoVars, sharedVars, up, boundVars>>

\* ensureProviderRestore: create the Velero restore unless one exists.  Somebody
\* else's may appear before the creation, which is a conflict.
EnsureProviderRestore ==
    /\ At("ProviderRestore")
    /\ \/ /\ Mem.provider \/ velero[Current] # NoChild
          /\ Continue
          /\ UNCHANGED <<cr, velero, foreign, outside>>
       \/ /\ ~Mem.provider /\ velero[Current] = NoChild
          /\ velero' = [velero EXCEPT ![Current] = NewChild(TRUE, "new")]
          /\ Requeue
          /\ UNCHANGED <<cr, foreign, outside>>
       \/ /\ ~Mem.provider /\ velero[Current] = NoChild
          /\ Interference
          /\ velero' = [velero EXCEPT ![Current] = NewChild(FALSE, "completed")]
          /\ foreign' = foreign \cup {Current}
          /\ EndsWith("False")
    /\ UNCHANGED <<usable, providerReady, ecoVars, sharedVars, up, faults, asked>>

\* ensureProviderCompletion, failOnProviderRestore: the phase decides.  A failure
\* tries to switch the maintenance mode off and ends the restore whether or not
\* that worked; the status write may fail as well.
EnsureProviderCompletion ==
    /\ At("ProviderCompletion")
    /\ \/ /\ Mem.provider
          /\ Continue
          /\ UNCHANGED <<cr, maintenance, faults>>
       \/ /\ ~Mem.provider
          /\ Phase(Current) \in {"none", "new", "running"}
          /\ Requeue
          /\ UNCHANGED <<cr, maintenance, faults>>
       \/ /\ ~Mem.provider /\ Phase(Current) = "completed"
          /\ Write([Mem EXCEPT !.provider = TRUE])
          /\ UNCHANGED <<maintenance, faults>>
       \/ /\ ~Mem.provider /\ Phase(Current) = "failed"
          /\ \/ maintenance' = FALSE /\ EndsWith("False") /\ UNCHANGED faults
             \/ maintenance' = FALSE /\ CallFails /\ UNCHANGED cr
             \/ /\ Fault
                /\ EndsWith("False")
                /\ UNCHANGED maintenance
    /\ UNCHANGED <<velero, providerVars, ecoVars, unnoticed, lease, up, outside, asked>>

\* A stage of the recovery that writes to workloads: all of them, and the reason
\* is recorded unless it or a later one is there; or some of them, and the
\* failure is recorded if that call does not fail as well.
RecoveryStage(effect(_), reason, done) ==
    /\ \/ /\ workloads' = effect(Workloads)
          /\ IF Mem.recovered \in done
                THEN Continue /\ UNCHANGED cr
                ELSE Write([Mem EXCEPT !.recovered = reason])
          /\ UNCHANGED faults
       \/ /\ \E ws \in SUBSET Workloads : workloads' = effect(ws)
          /\ CallFails
          /\ cr' \in {cr, Stored([Mem EXCEPT !.recovered = "Failed"])}
    /\ UNCHANGED <<velero, providerVars, data, sharedVars, up, outside, asked>>

EnsureScaleUpInitiated ==
    /\ At("ScaleUpInitiated")
    /\ RecoveryStage(ScaledUp, "ScaleUpInitiated", Recoveries \ {"Pending", "Failed"})

\* The reasons that say the workloads were seen ready.
Settled == {"WorkloadsReady", "ScaleUpFinalized", "MaintenanceModeDeactivated"}

\* Readiness is observed again in every pass: a workload that regressed sends the
\* recovery back.
EnsureWorkloadsReady ==
    /\ At("WorkloadsReady")
    /\ \/ /\ ~AreWorkloadsReady /\ Mem.recovered = "WaitingForWorkloads"
          /\ Requeue
          /\ UNCHANGED cr
       \/ /\ ~AreWorkloadsReady /\ Mem.recovered # "WaitingForWorkloads"
          /\ Write([Mem EXCEPT !.recovered = "WaitingForWorkloads"])
       \/ /\ AreWorkloadsReady /\ Mem.recovered \notin Settled
          /\ Write([Mem EXCEPT !.recovered = "WorkloadsReady"])
       \/ /\ AreWorkloadsReady /\ Mem.recovered \in Settled
          /\ Continue
          /\ UNCHANGED cr
    /\ UNCHANGED <<velero, providerVars, ecoVars, sharedVars, up, boundVars>>

\* Mutant: the error of a label that could not be removed is dropped.
ScaleUpFinalizedBlindly ==
    /\ At("ScaleUpFinalized")
    /\ \E ws \in SUBSET Workloads : workloads' = Finalized(ws)
    /\ IF Mem.recovered \in {"ScaleUpFinalized", "MaintenanceModeDeactivated"}
          THEN Continue /\ UNCHANGED cr
          ELSE Write([Mem EXCEPT !.recovered = "ScaleUpFinalized"])
    /\ UNCHANGED <<velero, providerVars, data, sharedVars, up, boundVars>>

EnsureScaleUpFinalized ==
    /\ At("ScaleUpFinalized")
    /\ RecoveryStage(Finalized, "ScaleUpFinalized",
                     {"ScaleUpFinalized", "MaintenanceModeDeactivated"})

\* The switch comes before the condition is looked at; the write may fail.
EnsureMaintenanceModeDeactivated ==
    /\ At("MaintenanceModeDeactivated")
    /\ maintenance' = FALSE
    /\ \/ /\ Mem.recovered = "MaintenanceModeDeactivated"
          /\ Continue
          /\ UNCHANGED <<cr, faults>>
       \/ /\ Mem.recovered # "MaintenanceModeDeactivated"
          /\ Write([Mem EXCEPT !.recovered = "MaintenanceModeDeactivated"])
          /\ UNCHANGED faults
       \/ /\ Mem.recovered # "MaintenanceModeDeactivated"
          /\ CallFails
          /\ UNCHANGED cr
    /\ UNCHANGED <<velero, providerVars, ecoVars, unnoticed, lease, up, outside, asked>>

EnsureRestoreCompleted ==
    /\ At("RestoreCompleted")
    /\ IF Mem.recovered = "MaintenanceModeDeactivated"
          THEN EndsWith("True")
          ELSE Requeue /\ UNCHANGED cr
    /\ UNCHANGED <<velero, providerVars, ecoVars, sharedVars, up, boundVars>>

-------------------------------------------------------------------------------
(* The stages of the delete and ignore operations. *)

\* What a deletion makes of a Velero restore: its finalizer keeps one that Velero
\* has seen.
DeletedChild(child) ==
    {[child EXCEPT !.deleting = TRUE]} \cup (IF child.phase = "new" THEN {NoChild} ELSE {})

\* Mutant: anybody's Velero restore is waited for.
ProviderRestoreAwaited ==
    /\ At("ProviderRestoreDeleted")
    /\ \/ /\ velero[Current] = NoChild
          /\ Continue
          /\ UNCHANGED velero
       \/ /\ velero[Current] # NoChild
          /\ \E child \in {velero[Current]} \cup
                    (IF Owns(Current) THEN DeletedChild(velero[Current]) ELSE {}) :
                velero' = [velero EXCEPT ![Current] = child]
          /\ Requeue
    /\ UNCHANGED <<cr, providerVars, ecoVars, sharedVars, up, boundVars>>

\* Its own Velero restore is deleted and waited for, anybody else's is left alone.
EnsureProviderRestoreDeleted ==
    /\ At("ProviderRestoreDeleted")
    /\ \/ /\ ~Owns(Current)
          /\ Continue
          /\ UNCHANGED velero
       \/ /\ Owns(Current) /\ velero[Current].deleting
          /\ Requeue
          /\ UNCHANGED velero
       \/ /\ Owns(Current) /\ ~velero[Current].deleting
          /\ \E child \in DeletedChild(velero[Current]) :
                velero' = [velero EXCEPT ![Current] = child]
          /\ Requeue
    /\ UNCHANGED <<cr, providerVars, ecoVars, sharedVars, up, boundVars>>

EnsureDeletingStatus ==
    /\ At("DeletingStatus")
    /\ IF Mem.announced
          THEN Continue /\ UNCHANGED cr
          ELSE Write(Mem)
    /\ UNCHANGED <<velero, providerVars, ecoVars, sharedVars, up, boundVars>>

\* Mutant: the lease is kept when the restore has failed.
LeaseReleasedOnSuccess ==
    /\ At("RestoreLeaseReleased")
    /\ lease' = IF lease = Current /\ Mem.succeeded # "False" THEN "free" ELSE lease
    /\ Continue
    /\ UNCHANGED <<cr, velero, providerVars, ecoVars, maintenance, unnoticed, up, boundVars>>

EnsureRestoreLeaseReleased ==
    /\ At("RestoreLeaseReleased")
    /\ lease' = IF lease = Current THEN "free" ELSE lease
    /\ Continue
    /\ UNCHANGED <<cr, velero, providerVars, ecoVars, maintenance, unnoticed, up, boundVars>>

\* Removing the finalizer lets Kubernetes remove the restore.
EnsureDeletionFinalized ==
    /\ At("DeletionFinalized")
    /\ cr' = [cr EXCEPT ![Current] = NoRestore]
    /\ Abort
    /\ UNCHANGED <<velero, providerVars, ecoVars, sharedVars, up, boundVars>>

\* The restore was deleted before it got its finalizer: the next write fails.
RestoreVanished ==
    /\ ~Idle /\ ~Present(Current)
    /\ Requeue
    /\ UNCHANGED <<cr, velero, providerVars, ecoVars, sharedVars, up, boundVars>>

Stage ==
    \/ EnsureConditionsInitialized
    \/ EnsureMetadata
    \/ EnsureProviderChildState
    \/ EnsureActiveRestoreLease
    \/ EnsureProviderReady
    \/ EnsureSourceBackupUsable
    \/ EnsureMaintenanceModeActivated
    \/ EnsurePreparation
    \/ CleanupEnds
    \/ EnsureProviderRestore
    \/ EnsureProviderCompletion
    \/ EnsureScaleUpInitiated
    \/ EnsureWorkloadsReady
    \/ EnsureScaleUpFinalized
    \/ EnsureMaintenanceModeDeactivated
    \/ EnsureRestoreCompleted
    \/ EnsureProviderRestoreDeleted
    \/ EnsureDeletingStatus
    \/ EnsureRestoreLeaseReleased
    \/ EnsureDeletionFinalized
    \/ RestoreVanished

\* The first call of a stage fails, or the cleanup times out.
PassFails ==
    /\ ~Idle
    /\ CallFails
    /\ UNCHANGED <<cr, velero, providerVars, ecoVars, sharedVars, up, outside, asked>>

-------------------------------------------------------------------------------
(* Velero and Kubernetes. *)

VeleroStarts(r) ==
    /\ Owns(r) /\ velero[r].phase = "new" /\ ~velero[r].deleting /\ r \in usable
    /\ velero' = [velero EXCEPT ![r].phase = "running"]
    /\ data' = "mixed"
    /\ UNCHANGED <<cr, providerVars, workloads, sharedVars, workerVars, up, boundVars>>

VeleroCompletes(r) ==
    /\ Owns(r) /\ velero[r].phase = "running"
    /\ velero' = [velero EXCEPT ![r].phase = "completed"]
    /\ data' = "live"
    /\ UNCHANGED <<cr, providerVars, workloads, sharedVars, workerVars, up, boundVars>>

\* Validation fails, or parts of the restore do.
VeleroFails(r) ==
    /\ Owns(r) /\ velero[r].phase \in {"new", "running"}
    /\ velero' = [velero EXCEPT ![r].phase = "failed"]
    /\ UNCHANGED <<cr, providerVars, ecoVars, sharedVars, workerVars, up, boundVars>>

\* Velero's finalizer goes once it works on the restore no more.
VeleroEndsDeletion(r) ==
    /\ velero[r] # NoChild /\ velero[r].deleting
    /\ velero' = [velero EXCEPT ![r] = NoChild]
    /\ UNCHANGED <<cr, providerVars, ecoVars, sharedVars, workerVars, up, boundVars>>

\* The finalizers of deleted dogus and resources end.
ResourcesGone ==
    /\ data \in {"going", "part"}
    /\ data' = IF data = "going" THEN "gone" ELSE "mixed"
    /\ UNCHANGED <<cr, velero, providerVars, workloads, sharedVars, workerVars, up, boundVars>>

WorkloadConverges(w) ==
    /\ ~workloads[w].ready
    /\ workloads' = [workloads EXCEPT ![w].ready = TRUE]
    /\ UNCHANGED <<cr, velero, providerVars, data, sharedVars, workerVars, up, boundVars>>

ProviderBecomesReady ==
    /\ ~providerReady
    /\ providerReady' = TRUE
    /\ UNCHANGED <<cr, velero, foreign, usable, ecoVars, sharedVars, workerVars, up, boundVars>>

-------------------------------------------------------------------------------
(* What others do. *)

Outside ==
    /\ Interference
    /\ UNCHANGED <<cr, sharedVars, workerVars, up, faults, asked>>

WorkloadRegresses(w) ==
    /\ Outside
    /\ workloads[w].ready /\ workloads[w].replicas > 0
    /\ workloads' = [workloads EXCEPT ![w].ready = FALSE]
    /\ UNCHANGED <<velero, providerVars, data>>

ProviderBecomesUnready ==
    /\ Outside
    /\ providerReady /\ providerReady' = FALSE
    /\ UNCHANGED <<velero, foreign, usable, ecoVars>>

\* The Velero backup a restore refers to is deleted.
SourceLost(r) ==
    /\ Outside
    /\ r \in usable /\ usable' = usable \ {r}
    /\ UNCHANGED <<velero, foreign, providerReady, ecoVars>>

\* Somebody deletes a Velero restore (Velero does, with its backup) ...
VeleroRestoreDeleted(r) ==
    /\ Outside
    /\ velero[r] # NoChild /\ ~velero[r].deleting
    /\ \E child \in DeletedChild(velero[r]) : velero' = [velero EXCEPT ![r] = child]
    /\ UNCHANGED <<providerVars, ecoVars>>

\* ... or creates one, which ends at some time.
VeleroRestoreCreated(r) ==
    /\ Outside
    /\ velero[r] = NoChild
    /\ \E phase \in {"completed", "failed"} :
          velero' = [velero EXCEPT ![r] = NewChild(FALSE, phase)]
    /\ foreign' = foreign \cup {r}
    /\ UNCHANGED <<usable, providerReady, ecoVars>>

Asked ==
    /\ asked < MaxUser /\ asked' = asked + 1
    /\ UNCHANGED <<velero, providerVars, ecoVars, maintenance, unnoticed, pass, up, faults, outside>>

UserCreates(r) ==
    /\ Asked
    /\ ~Present(r)
    /\ cr' = [cr EXCEPT ![r] = NewRestore]
    /\ queue' = IF up THEN queue \cup {r} ELSE queue
    /\ UNCHANGED lease

\* The finalizer keeps the restore until the controller has cleaned up.
UserDeletes(r) ==
    /\ Asked
    /\ Present(r) /\ ~cr[r].deleting
    /\ cr' = [cr EXCEPT ![r] = IF @.finalizer THEN [@ EXCEPT !.deleting = TRUE] ELSE NoRestore]
    /\ queue' = IF up THEN queue \cup {r} ELSE queue
    /\ UNCHANGED lease

\* A backup does what MaintenanceProtocol allows it.
BackupTakes ==
    /\ Asked
    /\ lease = "free" /\ lease' = "backup"
    /\ UNCHANGED <<cr, queue>>

BackupSwitches(on) ==
    /\ lease = "backup" /\ maintenance # on
    /\ maintenance' = on
    /\ UNCHANGED <<cr, velero, providerVars, ecoVars, unnoticed, lease, workerVars, up, boundVars>>

BackupGivesBack ==
    /\ lease = "backup" /\ lease' = "free"
    /\ UNCHANGED <<cr, velero, providerVars, ecoVars, maintenance, unnoticed, workerVars, up,
                   boundVars>>

\* The operator stops; what it had queued and the deletions it waited for are lost.
Crash ==
    /\ up /\ Fault
    /\ up' = FALSE
    /\ queue' = {} /\ pass' = NoPass
    /\ UNCHANGED <<cr, velero, providerVars, ecoVars, sharedVars, outside, asked>>

\* A started operator lists and visits every restore.
Recover ==
    /\ ~up
    /\ up' = TRUE
    /\ queue' = {r \in Restores : Present(r)}
    /\ UNCHANGED <<cr, velero, providerVars, ecoVars, sharedVars, pass, boundVars>>

-------------------------------------------------------------------------------

Velero(r) ==
    VeleroStarts(r) \/ VeleroCompletes(r) \/ VeleroFails(r) \/ VeleroEndsDeletion(r)

Kubernetes == ResourcesGone \/ \E w \in Workloads : WorkloadConverges(w)

Others ==
    \/ ProviderBecomesUnready
    \/ \E w \in Workloads : WorkloadRegresses(w)
    \/ \E r \in Restores :
          \/ SourceLost(r) \/ VeleroRestoreDeleted(r) \/ VeleroRestoreCreated(r)
          \/ UserCreates(r) \/ UserDeletes(r)

Backup == BackupTakes \/ BackupGivesBack \/ \E on \in BOOLEAN : BackupSwitches(on)

Next ==
    \/ \E r \in Restores : Reconcile(r) \/ Velero(r)
    \/ Stage \/ PassFails
    \/ Kubernetes \/ ProviderBecomesReady
    \/ Others
    \/ Backup
    \/ Crash \/ Recover

Spec == Init /\ [][Next]_vars

(***************************************************************************)
(* Fairness.  The work queue hands out every restore, a started pass goes  *)
(* on, Velero ends every restore it was given and every deletion, the      *)
(* finalizers of removed resources and the pods of scaled workloads end,   *)
(* the provider becomes ready again, a backup gives the lease back, and    *)
(* the operator is started again.  Nothing is assumed about users.         *)
(***************************************************************************)
Fairness ==
    /\ \A r \in Restores :
          /\ SF_vars(Reconcile(r))
          /\ WF_vars(VeleroStarts(r) \/ VeleroCompletes(r) \/ VeleroFails(r))
          /\ WF_vars(VeleroEndsDeletion(r))
    /\ WF_vars(Stage)
    /\ WF_vars(ResourcesGone)
    /\ \A w \in Workloads : WF_vars(WorkloadConverges(w))
    /\ WF_vars(ProviderBecomesReady)
    /\ WF_vars(BackupGivesBack)
    /\ WF_vars(Recover)

FairSpec == Spec /\ Fairness

-------------------------------------------------------------------------------
(* Properties. *)

\* Every variable has its type.
TypeOK ==
    /\ cr \in [Restores -> Resource \cup {NoRestore}]
    /\ velero \in [Restores -> Child \cup {NoChild}]
    /\ foreign \subseteq Restores
    /\ usable \subseteq Restores
    /\ providerReady \in BOOLEAN
    /\ data \in Contents
    /\ workloads \in [Workloads -> Workload]
    /\ maintenance \in BOOLEAN
    /\ unnoticed \in BOOLEAN
    /\ lease \in Restores \cup {"free", "backup"}
    /\ queue \subseteq Restores
    /\ pass \in {NoPass} \cup [restore : Restores, operation : Operations, step : 1 .. 15,
                              waiting : BOOLEAN]
    /\ Idle \/ pass.step <= Last
    /\ up \in BOOLEAN
    /\ faults \in 0 .. MaxFaults
    /\ outside \in 0 .. MaxOutside
    /\ asked \in 0 .. MaxUser

Restoring(r) == Owns(r) /\ Phase(r) \in {"new", "running"}

\* Velero never restores for two Restore resources at a time, also when one of
\* them is deleted halfway (ensureProviderRestoreDeleted waits before the lease
\* is released).
OneVeleroRestore == Cardinality({r \in Restores : Restoring(r)}) <= 1

\* Nothing the preparation removes is still going while a Velero restore of the
\* operator waits or runs: after a cleanup that timed out, failed halfway or was
\* cut off by a crash the restore does not start (Cleanup, ensurePreparation).
NothingRemovedUnderVelero == (\E r \in Restores : Restoring(r)) => data \notin {"going", "part"}

\* The replica count users have set is never lost: it is in the spec or in the
\* label of every workload, however often scale down, scale up and finalization
\* fail, are repeated or are left behind (scaleDownWorkload, scaleUpWorkload).
CountsKept ==
    \A w \in Workloads :
        \/ workloads[w].stored = Replicas[w]
        \/ workloads[w].stored = NoCount /\ workloads[w].replicas = Replicas[w]

\* While Velero restores, users see the maintenance notice, unless its best-effort
\* activation has failed (ensureMaintenanceModeActivated): no backup, no other
\* restore and no deletion of this one takes it away.
RestoresUnderMaintenance == (\E r \in Restores : Restoring(r)) /\ ~unnoticed => maintenance

\* While Velero restores, no workload in scope runs on the volumes it writes,
\* except one an earlier restore had scaled up again and never finalized: its
\* label makes the next scale down pass it by (scaleDownWorkload,
\* ensurePreparation).
ScaledDownUnderVelero ==
    (\E r \in Restores : Restoring(r)) =>
        \A w \in Workloads : workloads[w].replicas \in {0, workloads[w].stored}

\* What Velero has restored is not removed again: no preparation starts once the
\* Velero restore of a restore in progress exists or has succeeded, also when it
\* has disappeared since (isAlreadyPrepared, ensureProviderChildState).
PreparedOnce ==
    [][data' \in {"going", "part"} /\ data' # data =>
          \A r \in Restores :
              Present(r) /\ ~cr[r].deleting /\ ~Terminal(r) => ~cr[r].provider /\ ~Owns(r)]_vars

\* A restore that succeeds leaves a complete ecosystem: the data is back (unless
\* somebody else's Velero restore took its name), every workload has its count
\* and no label, and the maintenance notice is gone (ensureRestoreCompleted).
SuccessIsComplete ==
    [][\A r \in Restores :
          Present(r) /\ cr[r].succeeded # "True" /\ cr'[r] # NoRestore /\ cr'[r].succeeded = "True"
              => /\ data' = "live" \/ r \in foreign
                 /\ \A w \in Workloads : workloads'[w].stored = NoCount
                                         /\ workloads'[w].replicas = Replicas[w]
                 /\ ~maintenance']_vars

\* The restore controller and the backups keep to MaintenanceProtocol.
Protocol == INSTANCE MaintenanceProtocol
               WITH Operations <- {"backup", "restore"},
                    holder <- IF lease \in Restores THEN "restore" ELSE lease

KeepsProtocol == Protocol!Spec

\* Every restore ends or is deleted: no wait for the lease, the provider, the
\* cleanup, Velero or the workloads lasts for ever.
RestoresEnd ==
    \A r \in Restores : Present(r) ~> (~Present(r) \/ Terminal(r) \/ cr[r].deleting)

\* A deleted restore goes away, whatever its Velero restore is doing.
DeletionsEnd == \A r \in Restores : (Present(r) /\ cr[r].deleting) ~> ~Present(r)

\* A restore that has ended gives the lease back, or another one has taken it.
LeaseReturned == \A r \in Restores : (Present(r) /\ Terminal(r)) ~> (lease # r)

===============================================================================
