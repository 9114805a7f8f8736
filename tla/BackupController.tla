--------------------------- MODULE BackupController ---------------------------
(***************************************************************************)
(* The backup workflow: the Backup controller and its stages               *)
(* (internal/controller/backup/controller.go, reconciler.go,               *)
(* backupLease.go), the controller that mirrors Velero backups into Backup *)
(* resources (velero_backup_controller.go, velero_backup_reconciler.go),   *)
(* and what they act on: Velero, the maintenance mode, the operation lease *)
(* and a restore that competes for both.                                   *)
(*                                                                         *)
(* One action is one stage of a pass, so users, Velero, the mirroring      *)
(* controller, a restore and a crash of the operator interleave between    *)
(* the stages.  A stage that writes twice has an outcome in which only the *)
(* first write happened.  A pass works on its own copy of the resource     *)
(* (pass.mem), which a status patch refreshes from the answer.             *)
(*                                                                         *)
(* Abstractions: the conditions Prepared and Deleting, reasons, messages,  *)
(* events, labels and annotations are reports no stage reads; the lease is *)
(* acquired and released in one step (LeaseManager has the protocol) and   *)
(* resources are read without cache delay; a Velero backup with a deletion *)
(* timestamp counts as gone; the restore is its lease and its maintenance  *)
(* mode.                                                                   *)
(***************************************************************************)
EXTENDS Naturals, Sequences

CONSTANTS
    Backups,      \* the names of Backup resources
    MaxFaults,    \* bound on failed calls and crashes of the operator
    MaxOutside,   \* bound on what others do to Velero backups
    MaxUser,      \* bound on Backup resources created or deleted by users
    Restoring     \* whether a restore competes with the backups

ASSUME BackupAssumption ==
    /\ {"free", "restore"} \cap Backups = {}
    /\ MaxFaults \in Nat
    /\ MaxOutside \in Nat
    /\ MaxUser \in Nat
    /\ Restoring \in BOOLEAN

VARIABLES
    cr,           \* [Backups -> Resource or NoBackup]: the Backup resources
    expired,      \* the backups whose time window has expired
    velero,       \* [Backups -> Phases]: the Velero backup of the same name
    dbr,          \* [Backups -> Requests]: its DeleteBackupRequest
    maintenance,  \* the maintenance mode
    lease,        \* the holder of the operation lease
    restore,      \* where the competing restore is
    queue,        \* the backups the Backup controller still has to visit
    pass,         \* the pass of the Backup controller
    syncQueue,    \* the Velero backups the mirroring controller has to visit
    sync,         \* the pass of the mirroring controller
    up,           \* the operator runs
    faults, outside, asked  \* how much of each bound is used up

objectVars == <<cr, expired>>
veleroVars == <<velero, dbr>>
sharedVars == <<maintenance, lease, restore>>
workerVars == <<queue, pass>>
syncVars   == <<syncQueue, sync>>
boundVars  == <<faults, outside, asked>>
vars == <<objectVars, veleroVars, sharedVars, workerVars, syncVars, up, boundVars>>

-------------------------------------------------------------------------------
(* Resources. *)

Milestones == {"Absent", "Unknown", "True", "False"}

Status == [started : BOOLEAN, provider : Milestones, succeeded : Milestones,
           canceled : {"Absent", "True", "False"}]

Resource == [synced : BOOLEAN, finalizer : BOOLEAN, deleting : BOOLEAN, status : Status]

NoBackup == [none |-> TRUE]

EmptyStatus == [started |-> FALSE, provider |-> "Absent", succeeded |-> "Absent",
                canceled |-> "Absent"]

\* A Backup somebody creates, and the one the mirroring controller creates.
LocalBackup  == [synced |-> FALSE, finalizer |-> FALSE, deleting |-> FALSE, status |-> EmptyStatus]
SyncedBackup == [synced |-> TRUE, finalizer |-> TRUE, deleting |-> FALSE, status |-> EmptyStatus]

\* "untouched": Velero has not written a status; "running": one of the phases
\* in veleroBackupIsRunningPhases; "failed": one of veleroBackupFailedPhases.
Phases   == {"none", "untouched", "running", "completed", "failed", "deleting"}
Requests == {"none", "pending", "processed"}

Resolved(condition) == condition \in {"True", "False"}
Terminal(r)         == Resolved(r.status.succeeded)

IsPostProcessing(r) == Resolved(r.status.provider) \/ r.status.canceled = "True"

-------------------------------------------------------------------------------
(* Operations and their stages. *)

\* Mutant: a terminal backup falls through to the create workflow.
RequiredOperationForgetsIgnore(r) ==
    CASE r.deleting                                             -> "delete"
      [] ~r.deleting /\ ~Terminal(r) /\ IsPostProcessing(r)     -> "finalize"
      [] OTHER                                                  -> "create"

RequiredOperation(r) ==
    CASE r.deleting                                             -> "delete"
      [] ~r.deleting /\ Terminal(r)                             -> "ignore"
      [] ~r.deleting /\ ~Terminal(r) /\ IsPostProcessing(r)     -> "finalize"
      [] OTHER                                                  -> "create"

\* Mutant: the lease is released before the maintenance mode is switched off.
CleanupStagesSwapped == <<"LeaseReleased", "MaintenanceDeactivated">>

CleanupStages  == <<"MaintenanceDeactivated", "LeaseReleased">>
FinalizeStages == CleanupStages \o <<"RunCompleted">>
\* Mutant: the Velero backup is created before the maintenance mode is on.
CreateStagesSwapped ==
    <<"VeleroStatusSynced", "ConditionsInitialized", "Setup", "TimeWindow", "Prepared", "Lease",
      "ProviderCreated", "MaintenanceActivated", "ProviderCompleted">>

CreateStages   == <<"VeleroStatusSynced", "ConditionsInitialized", "Setup", "TimeWindow",
                    "Prepared", "Lease", "MaintenanceActivated", "ProviderCreated",
                    "ProviderCompleted">>

StagesFor(operation) ==
    CASE operation = "delete"   -> CleanupStages \o <<"ProviderDeleted">>
      [] operation = "ignore"   -> <<"OrphanDeleted", "CanceledProviderDeleted">>
      [] operation = "finalize" -> FinalizeStages
      [] operation = "create"   -> CreateStages \o FinalizeStages

Operations == {"delete", "ignore", "finalize", "create"}

\* The pass of the Backup controller: its backup, its copy of the resource, its
\* operation and the stage of it that is next.
NoPass == [backup |-> "none", mem |-> NoBackup, operation |-> "none", step |-> 1]
NoSync == [backup |-> "none", at |-> "idle", canceled |-> FALSE]

Init ==
    /\ cr = [b \in Backups |-> NoBackup]
    /\ expired = {}
    /\ velero = [b \in Backups |-> "none"]
    /\ dbr = [b \in Backups |-> "none"]
    /\ maintenance = FALSE
    /\ lease = "free"
    /\ restore = "idle"
    /\ queue = {}
    /\ pass = NoPass
    /\ syncQueue = {}
    /\ sync = NoSync
    /\ up = TRUE
    /\ faults = 0
    /\ outside = 0
    /\ asked = 0

Idle         == pass = NoPass
At(stage)    == ~Idle /\ StagesFor(pass.operation)[pass.step] = stage
Last         == Len(StagesFor(pass.operation))
Current      == pass.backup
Mem          == pass.mem
Present(b)   == cr[b] # NoBackup

\* How a stage ends: go on with the next one, end the pass and requeue (Retry,
\* or Abort with an error), end the pass for good (Abort without an error).
Continue(mem) ==
    /\ pass' = IF pass.step = Last THEN NoPass
               ELSE [pass EXCEPT !.step = @ + 1, !.mem = mem]
    /\ UNCHANGED queue

RetryLater ==
    /\ pass' = NoPass
    /\ queue' = queue \cup {Current}

Abort ==
    /\ pass' = NoPass
    /\ UNCHANGED queue

\* patchStatus: the stored status becomes the one in memory.
Patched(status) == [cr[Current] EXCEPT !.status = status]

PatchStatus(status) ==
    /\ Present(Current)
    /\ cr' = [cr EXCEPT ![Current] = Patched(status)]
    /\ UNCHANGED expired

\* A call fails although earlier calls of the stage took effect.
CallFails ==
    /\ faults < MaxFaults
    /\ faults' = faults + 1
    /\ RetryLater

\* client.Delete: the finalizer keeps the resource and the change is an event.
Deleted(b) ==
    IF Present(b) /\ cr[b].finalizer THEN [cr[b] EXCEPT !.deleting = TRUE] ELSE NoBackup

Notified(backups) == IF up THEN syncQueue \cup backups ELSE syncQueue

-------------------------------------------------------------------------------
(* The stages of the Backup controller. *)

\* Reconcile: read the resource, choose the operation.
Reconcile(b) ==
    /\ up /\ Idle /\ b \in queue
    /\ queue' = queue \ {b}
    /\ pass' = IF Present(b)
                  THEN [backup |-> b, mem |-> cr[b],
                        operation |-> RequiredOperation(cr[b]), step |-> 1]
                  ELSE NoPass
    /\ UNCHANGED <<objectVars, veleroVars, sharedVars, syncVars, up, boundVars>>

\* A mirrored backup takes its result from Velero and goes through no other
\* stage.  A Velero backup that is new, has failed or is deleted may never have
\* got a start timestamp.
SyncOutcome(phase) ==
    CASE phase = "completed" -> "True"
      [] phase = "failed"    -> "False"
      [] OTHER               -> "Unknown"

EnsureVeleroStatusSynced ==
    LET phase   == velero[Current]
        outcome == SyncOutcome(phase)
    IN  /\ At("VeleroStatusSynced")
        /\ \/ /\ ~Mem.synced
              /\ Continue(Mem)
              /\ UNCHANGED objectVars
           \/ /\ Mem.synced /\ phase = "none"
              /\ RetryLater
              /\ UNCHANGED objectVars
           \/ /\ Mem.synced /\ phase # "none"
              /\ \E started \in BOOLEAN :
                    /\ phase = "completed" => started
                    /\ PatchStatus([Mem.status EXCEPT !.provider = outcome, !.succeeded = outcome,
                                                      !.started = started \/ @])
              /\ IF Resolved(outcome) THEN Abort ELSE RetryLater
        /\ UNCHANGED <<veleroVars, sharedVars, syncVars, up, boundVars>>

\* Mutant: Canceled starts as Unknown like the other conditions.
InitializedUnknown(status) ==
    [status EXCEPT !.provider  = IF @ = "Absent" THEN "Unknown" ELSE @,
                   !.succeeded = IF @ = "Absent" THEN "Unknown" ELSE @,
                   !.canceled  = IF @ = "Absent" THEN "Unknown" ELSE @]

\* Only conditions that are absent are written.
Initialized(status) ==
    [status EXCEPT !.provider  = IF @ = "Absent" THEN "Unknown" ELSE @,
                   !.succeeded = IF @ = "Absent" THEN "Unknown" ELSE @,
                   !.canceled  = IF @ = "Absent" THEN "False" ELSE @]

EnsureConditionsInitialized ==
    /\ At("ConditionsInitialized")
    /\ \/ /\ Initialized(Mem.status) = Mem.status
          /\ Continue(Mem)
          /\ UNCHANGED objectVars
       \/ /\ Initialized(Mem.status) # Mem.status
          /\ PatchStatus(Initialized(Mem.status))
          /\ Continue(Patched(Initialized(Mem.status)))
    /\ UNCHANGED <<veleroVars, sharedVars, syncVars, up, boundVars>>

\* The metadata update carries the resource version: a concurrent deletion is a
\* conflict.
EnsureBackupSetup ==
    LET updated == [Mem EXCEPT !.finalizer = TRUE]
    IN  /\ At("Setup")
        /\ Present(Current)
        /\ \/ /\ Mem.finalizer
              /\ Continue(Mem)
              /\ UNCHANGED cr
           \/ /\ ~Mem.finalizer /\ cr[Current] = Mem
              /\ cr' = [cr EXCEPT ![Current] = updated]
              /\ Continue(updated)
           \/ /\ ~Mem.finalizer /\ cr[Current] # Mem
              /\ RetryLater
              /\ UNCHANGED cr
        /\ UNCHANGED <<expired, veleroVars, sharedVars, syncVars, up, boundVars>>

\* Mutant: only a run that has started is abandoned.
AbandonedIfStarted(b) ==
    Mem.status.started /\ velero[b] \in {"none", "untouched", "running"}

\* When the time window has expired a run is abandoned unless its provider
\* backup has already ended.
Abandoned(b) ==
    \/ ~Mem.status.started
    \/ velero[b] \in {"none", "untouched", "running"}

WithCanceled(value) == [Mem.status EXCEPT !.canceled = value]

\* Mutant: an abandoned run goes on with the next stage.
TimeWindowGoesOn ==
    /\ At("TimeWindow")
    /\ LET canceled == IF Current \in expired /\ Abandoned(Current) THEN "True" ELSE "False"
       IN  PatchStatus(WithCanceled(canceled)) /\ Continue(Patched(WithCanceled(canceled)))
    /\ UNCHANGED <<veleroVars, sharedVars, syncVars, up, boundVars>>

EnsureBackupIsCanceledAfterTimeWindowExpired ==
    /\ At("TimeWindow")
    /\ \/ /\ Current \in expired /\ Abandoned(Current)
          /\ PatchStatus(WithCanceled("True"))
          /\ RetryLater
       \/ /\ ~(Current \in expired /\ Abandoned(Current))
          /\ PatchStatus(WithCanceled("False"))
          /\ Continue(Patched(WithCanceled("False")))
    /\ UNCHANGED <<veleroVars, sharedVars, syncVars, up, boundVars>>

\* The provider may or may not be ready; a run that has not started also waits
\* for the Velero backups of other runs that are in a running phase.
OtherRunInProgress(b) == \E other \in Backups \ {b} : velero[other] = "running"

EnsureBackupIsPrepared ==
    /\ At("Prepared")
    /\ \/ /\ velero[Current] # "none"
          /\ Continue(Mem)
       \/ /\ velero[Current] = "none"
          /\ ~Mem.status.started => ~OtherRunInProgress(Current)
          /\ Present(Current)
          /\ Continue(cr[Current])
       \/ /\ velero[Current] = "none"
          /\ RetryLater
    /\ UNCHANGED <<objectVars, veleroVars, sharedVars, syncVars, up, boundVars>>

\* A lease held by this backup lets the run go on; a free one, or one whose
\* Backup is gone or terminal, is taken and observed again.
HolderOver == lease \in Backups /\ (~Present(lease) \/ Terminal(cr[lease]))

EnsureActiveBackupLease ==
    /\ At("Lease")
    /\ \/ /\ lease = Current
          /\ Continue(Mem)
          /\ UNCHANGED lease
       \/ /\ lease # Current
          /\ lease' = IF lease = "free" \/ HolderOver THEN Current ELSE lease
          /\ RetryLater
    /\ UNCHANGED <<objectVars, veleroVars, maintenance, restore, syncVars, up, boundVars>>

EnsureMaintenanceActivated ==
    /\ At("MaintenanceActivated")
    /\ \/ /\ maintenance
          /\ Continue(Mem)
          /\ UNCHANGED <<objectVars, maintenance, faults>>
       \/ /\ ~maintenance
          /\ maintenance' = TRUE
          /\ \/ /\ PatchStatus([Mem.status EXCEPT !.succeeded = "Unknown"])
                /\ RetryLater
                /\ UNCHANGED faults
             \/ /\ CallFails
                /\ UNCHANGED objectVars
    /\ UNCHANGED <<veleroVars, lease, restore, syncVars, up, outside, asked>>

\* Create the Velero backup, then record the start; the second write may fail.
EnsureProviderBackupCreated ==
    /\ At("ProviderCreated")
    /\ \/ /\ velero[Current] # "none"
          /\ Continue(Mem)
          /\ UNCHANGED <<objectVars, velero, syncQueue, faults>>
       \/ /\ velero[Current] = "none"
          /\ velero' = [velero EXCEPT ![Current] = "untouched"]
          /\ syncQueue' = Notified({Current})
          /\ \/ /\ PatchStatus([Mem.status EXCEPT !.succeeded = "Unknown", !.started = TRUE])
                /\ RetryLater
                /\ UNCHANGED faults
             \/ /\ CallFails
                /\ UNCHANGED objectVars
    /\ UNCHANGED <<dbr, sharedVars, sync, up, outside, asked>>

WithProvider(value) == [Mem.status EXCEPT !.provider = value]

EnsureProviderBackupCompleted ==
    /\ At("ProviderCompleted")
    /\ \/ /\ velero[Current] = "running"
          /\ PatchStatus(WithProvider("Unknown"))
          /\ RetryLater
       \/ \E phase \in {"completed", "failed"} :
              /\ velero[Current] = phase
              /\ PatchStatus(WithProvider(SyncOutcome(phase)))
              /\ Continue(Patched(WithProvider(SyncOutcome(phase))))
       \/ /\ velero[Current] \in {"none", "untouched", "deleting"}
          /\ RetryLater
          /\ UNCHANGED objectVars
    /\ UNCHANGED <<veleroVars, sharedVars, syncVars, up, boundVars>>

\* Mutant: the maintenance mode is switched off whoever holds the lease.
MaintenanceDeactivatedByAnyone ==
    /\ At("MaintenanceDeactivated")
    /\ IsPostProcessing(Mem) \/ Mem.deleting
    /\ maintenance' = FALSE
    /\ Continue(Mem)
    /\ UNCHANGED <<objectVars, veleroVars, lease, restore, syncVars, up, boundVars>>

\* Only the holder of the lease switches the maintenance mode off.
EnsureMaintenanceDeactivated ==
    /\ At("MaintenanceDeactivated")
    /\ \/ /\ ~IsPostProcessing(Mem) /\ ~Mem.deleting
          /\ RetryLater
          /\ UNCHANGED maintenance
       \/ /\ IsPostProcessing(Mem) \/ Mem.deleting
          /\ maintenance' = IF lease = Current THEN FALSE ELSE maintenance
          /\ Continue(Mem)
    /\ UNCHANGED <<objectVars, veleroVars, lease, restore, syncVars, up, boundVars>>

EnsureBackupLeaseReleased ==
    /\ At("LeaseReleased")
    /\ \/ /\ ~IsPostProcessing(Mem) /\ ~Mem.deleting
          /\ RetryLater
          /\ UNCHANGED lease
       \/ /\ IsPostProcessing(Mem) \/ Mem.deleting
          /\ lease' = IF lease = Current THEN "free" ELSE lease
          /\ Continue(Mem)
    /\ UNCHANGED <<objectVars, veleroVars, maintenance, restore, syncVars, up, boundVars>>

\* The provider result is the outcome whenever there is one; a run without a
\* result was canceled.
Outcome(status) == IF Resolved(status.provider) THEN status.provider ELSE "False"

\* Mutant: a canceled run is not visited again.
RunCompletedStops ==
    /\ At("RunCompleted")
    /\ IsPostProcessing(Mem)
    /\ PatchStatus([Mem.status EXCEPT !.succeeded = Outcome(Mem.status)])
    /\ Abort
    /\ UNCHANGED <<veleroVars, sharedVars, syncVars, up, boundVars>>

EnsureBackupRunCompleted ==
    /\ At("RunCompleted")
    /\ \/ /\ ~IsPostProcessing(Mem)
          /\ RetryLater
          /\ UNCHANGED objectVars
       \/ /\ IsPostProcessing(Mem)
          /\ PatchStatus([Mem.status EXCEPT !.succeeded = Outcome(Mem.status)])
          /\ IF Mem.status.canceled = "True" THEN RetryLater ELSE Abort
    /\ UNCHANGED <<veleroVars, sharedVars, syncVars, up, boundVars>>

\* Mutant: a canceled run counts as an orphan once its Velero backup is gone.
OrphanDeletedAlthoughCanceled ==
    /\ At("OrphanDeleted")
    /\ \/ /\ ~Mem.status.started \/ velero[Current] # "none"
          /\ Continue(Mem)
          /\ UNCHANGED objectVars
       \/ /\ Mem.status.started /\ velero[Current] = "none"
          /\ cr' = [cr EXCEPT ![Current] = Deleted(Current)]
          /\ RetryLater
          /\ UNCHANGED expired
    /\ UNCHANGED <<veleroVars, sharedVars, syncVars, up, boundVars>>

\* A terminal backup whose provider backup has disappeared is deleted.
EnsureOrphanedBackupDeleted ==
    /\ At("OrphanDeleted")
    /\ \/ /\ ~Mem.status.started \/ Mem.status.canceled = "True" \/ velero[Current] # "none"
          /\ Continue(Mem)
          /\ UNCHANGED objectVars
       \/ /\ Mem.status.started /\ Mem.status.canceled # "True" /\ velero[Current] = "none"
          /\ cr' = [cr EXCEPT ![Current] = Deleted(Current)]
          /\ RetryLater
          /\ UNCHANGED expired
    /\ UNCHANGED <<veleroVars, sharedVars, syncVars, up, boundVars>>

\* Mutant: a processed request is waited for.
RequestAfterKeepsProcessed(phase, request) ==
    CASE phase = "running"                           -> "none"
      [] phase # "running" /\ request = "none"       -> "pending"
      [] OTHER                                       -> request

\* deleteProviderBackup: a running backup is waited for without a request; a
\* request Velero processed in vain is dropped, to be created again.
RequestAfter(phase, request) ==
    CASE phase = "running"                           -> "none"
      [] phase # "running" /\ request = "none"       -> "pending"
      [] phase # "running" /\ request = "pending"    -> "pending"
      [] phase # "running" /\ request = "processed"  -> "none"

DeleteProviderBackup ==
    /\ velero[Current] # "none"
    /\ dbr' = [dbr EXCEPT ![Current] = RequestAfter(velero[Current], @)]
    /\ RetryLater

EnsureCanceledProviderBackupDeleted ==
    /\ At("CanceledProviderDeleted")
    /\ \/ /\ Mem.status.canceled # "True" \/ ~Mem.status.started \/ velero[Current] = "none"
          /\ Continue(Mem)
          /\ UNCHANGED dbr
       \/ /\ Mem.status.canceled = "True" /\ Mem.status.started
          /\ DeleteProviderBackup
    /\ UNCHANGED <<objectVars, velero, sharedVars, syncVars, up, boundVars>>

\* Without a Velero backup the finalizer goes, and the resource with it.
EnsureProviderBackupDeleted ==
    /\ At("ProviderDeleted")
    /\ \/ /\ velero[Current] = "none" /\ cr[Current] = Mem
          /\ cr' = [cr EXCEPT ![Current] = NoBackup]
          /\ expired' = expired \ {Current}
          /\ Abort
          /\ UNCHANGED dbr
       \/ /\ velero[Current] = "none" /\ cr[Current] # Mem
          /\ RetryLater
          /\ UNCHANGED <<objectVars, dbr>>
       \/ /\ DeleteProviderBackup
          /\ UNCHANGED objectVars
    /\ UNCHANGED <<velero, sharedVars, syncVars, up, boundVars>>

\* The resource was deleted before its finalizer was set: the next write fails.
BackupVanished ==
    /\ ~Idle /\ ~Present(Current)
    /\ RetryLater
    /\ UNCHANGED <<objectVars, veleroVars, sharedVars, syncVars, up, boundVars>>

\* The first call of a stage fails.
PassFails ==
    /\ ~Idle
    /\ CallFails
    /\ UNCHANGED <<objectVars, veleroVars, sharedVars, syncVars, up, outside, asked>>

Stage ==
    \/ EnsureVeleroStatusSynced
    \/ EnsureConditionsInitialized
    \/ EnsureBackupSetup
    \/ EnsureBackupIsCanceledAfterTimeWindowExpired
    \/ EnsureBackupIsPrepared
    \/ EnsureActiveBackupLease
    \/ EnsureMaintenanceActivated
    \/ EnsureProviderBackupCreated
    \/ EnsureProviderBackupCompleted
    \/ EnsureMaintenanceDeactivated
    \/ EnsureBackupLeaseReleased
    \/ EnsureBackupRunCompleted
    \/ EnsureOrphanedBackupDeleted
    \/ EnsureCanceledProviderBackupDeleted
    \/ EnsureProviderBackupDeleted
    \/ BackupVanished

-------------------------------------------------------------------------------
(* The mirroring controller. *)

\* Reconcile: does the Velero backup exist?
SyncReads(b) ==
    /\ up /\ sync.at = "idle" /\ b \in syncQueue
    /\ syncQueue' = syncQueue \ {b}
    /\ sync' = [backup |-> b, at |-> IF velero[b] = "none" THEN "missing" ELSE "exists",
                canceled |-> FALSE]
    /\ UNCHANGED <<objectVars, veleroVars, sharedVars, workerVars, up, boundVars>>

\* ensureBackupExists: a Velero backup without a Backup gets one.
SyncEnsuresBackup ==
    LET b == sync.backup
    IN  /\ sync.at = "exists"
        /\ IF Present(b)
              THEN UNCHANGED <<cr, queue>>
              ELSE cr' = [cr EXCEPT ![b] = SyncedBackup] /\ queue' = queue \cup {b}
        /\ sync' = NoSync
        /\ UNCHANGED <<expired, veleroVars, sharedVars, pass, syncQueue, up, boundVars>>

\* deleteBackupIfExists: read the Backup and ensure a delete request ...
SyncRequestsDeletion ==
    LET b == sync.backup
    IN  /\ sync.at = "missing"
        /\ IF Present(b)
              THEN /\ dbr' = [dbr EXCEPT ![b] = IF @ = "none" THEN "pending" ELSE @]
                   /\ sync' = [sync EXCEPT !.at = "delete",
                                           !.canceled = cr[b].status.canceled = "True"]
              ELSE sync' = NoSync /\ UNCHANGED dbr
        /\ UNCHANGED <<objectVars, velero, sharedVars, workerVars, syncQueue, up, boundVars>>

\* Mutant: the Backup stays, only Velero's part is cleaned up.
SyncDeletesNothing ==
    /\ sync.at = "delete"
    /\ sync' = NoSync
    /\ UNCHANGED <<objectVars, veleroVars, sharedVars, workerVars, syncQueue, up, boundVars>>

\* ... then delete the Backup unless the copy read before was canceled.
SyncDeletesBackup ==
    LET b == sync.backup
    IN  /\ sync.at = "delete"
        /\ IF sync.canceled
              THEN UNCHANGED <<objectVars, queue>>
              ELSE /\ cr' = [cr EXCEPT ![b] = Deleted(b)]
                   /\ expired' = IF cr'[b] = NoBackup THEN expired \ {b} ELSE expired
                   /\ queue' = IF Present(b) THEN queue \cup {b} ELSE queue
        /\ sync' = NoSync
        /\ UNCHANGED <<veleroVars, sharedVars, pass, syncQueue, up, boundVars>>

SyncFails ==
    /\ sync.at # "idle"
    /\ faults < MaxFaults
    /\ faults' = faults + 1
    /\ syncQueue' = syncQueue \cup {sync.backup}
    /\ sync' = NoSync
    /\ UNCHANGED <<objectVars, veleroVars, sharedVars, workerVars, up, outside, asked>>

SyncStep == SyncEnsuresBackup \/ SyncRequestsDeletion \/ SyncDeletesBackup

-------------------------------------------------------------------------------
(* Velero, users, time, the competing restore, crashes. *)

VeleroMoves(b, from, to) ==
    /\ velero[b] \in from
    /\ velero' = [velero EXCEPT ![b] = to]
    /\ syncQueue' = Notified({b})

VeleroPicksUp(b) ==
    /\ VeleroMoves(b, {"untouched"}, "running")
    /\ UNCHANGED <<objectVars, dbr, sharedVars, workerVars, sync, up, boundVars>>

VeleroFinishes(b) ==
    /\ \/ VeleroMoves(b, {"running"}, "completed")
       \/ VeleroMoves(b, {"untouched", "running"}, "failed")
    /\ UNCHANGED <<objectVars, dbr, sharedVars, workerVars, sync, up, boundVars>>

\* A request for a missing or a running backup is processed without effect.
VeleroRefusesDeletion(b) ==
    /\ dbr[b] = "pending"
    /\ velero[b] \in {"none", "running"}
    /\ dbr' = [dbr EXCEPT ![b] = "processed"]
    /\ UNCHANGED <<objectVars, velero, sharedVars, workerVars, syncVars, up, boundVars>>

VeleroStartsDeletion(b) ==
    /\ dbr[b] = "pending"
    /\ VeleroMoves(b, {"untouched", "completed", "failed"}, "deleting")
    /\ UNCHANGED <<objectVars, dbr, sharedVars, workerVars, sync, up, boundVars>>

\* A deletion removes the backup and its request, or leaves both with errors.
VeleroEndsDeletion(b) ==
    /\ dbr[b] = "pending" /\ velero[b] = "deleting"
    /\ VeleroMoves(b, {"deleting"}, "none")
    /\ dbr' = [dbr EXCEPT ![b] = "none"]
    /\ UNCHANGED <<objectVars, sharedVars, workerVars, sync, up, boundVars>>

VeleroFailsDeletion(b) ==
    /\ faults < MaxFaults
    /\ faults' = faults + 1
    /\ dbr[b] = "pending" /\ velero[b] = "deleting"
    /\ dbr' = [dbr EXCEPT ![b] = "processed"]
    /\ UNCHANGED <<objectVars, velero, sharedVars, workerVars, syncVars, up, outside, asked>>

\* Somebody else removes a Velero backup, or one appears (Velero finds it in the
\* storage location, or a user runs it).
OutsideRemoves(b) ==
    /\ outside < MaxOutside
    /\ outside' = outside + 1
    /\ VeleroMoves(b, Phases \ {"none"}, "none")
    /\ UNCHANGED <<objectVars, dbr, sharedVars, workerVars, sync, up, faults, asked>>

OutsideCreates(b) ==
    /\ outside < MaxOutside
    /\ outside' = outside + 1
    /\ \E phase \in {"running", "completed"} : VeleroMoves(b, {"none"}, phase)
    /\ UNCHANGED <<objectVars, dbr, sharedVars, workerVars, sync, up, faults, asked>>

\* Somebody else asks Velero to delete a backup, or its retention time is over.
OutsideRequestsDeletion(b) ==
    /\ outside < MaxOutside
    /\ outside' = outside + 1
    /\ velero[b] # "none" /\ dbr[b] = "none"
    /\ dbr' = [dbr EXCEPT ![b] = "pending"]
    /\ UNCHANGED <<objectVars, velero, sharedVars, workerVars, syncVars, up, faults, asked>>

UserCreates(b) ==
    /\ asked < MaxUser /\ asked' = asked + 1
    /\ ~Present(b)
    /\ cr' = [cr EXCEPT ![b] = LocalBackup]
    /\ queue' = IF up THEN queue \cup {b} ELSE queue
    /\ UNCHANGED <<expired, veleroVars, sharedVars, pass, syncVars, up, faults, outside>>

UserDeletes(b) ==
    /\ asked < MaxUser /\ asked' = asked + 1
    /\ Present(b) /\ ~cr[b].deleting
    /\ cr' = [cr EXCEPT ![b] = Deleted(b)]
    /\ expired' = IF cr'[b] = NoBackup THEN expired \ {b} ELSE expired
    /\ queue' = IF up THEN queue \cup {b} ELSE queue
    /\ UNCHANGED <<veleroVars, sharedVars, pass, syncVars, up, faults, outside>>

TimeWindowExpires(b) ==
    /\ Present(b) /\ b \notin expired
    /\ expired' = expired \cup {b}
    /\ UNCHANGED <<cr, veleroVars, sharedVars, workerVars, syncVars, up, boundVars>>

RestoreMoves(from, to) ==
    /\ up
    /\ restore \in from
    /\ restore' = to
    /\ UNCHANGED <<objectVars, veleroVars, workerVars, syncVars, up, boundVars>>

\* A restore does what MaintenanceProtocol allows it: a repeated pass may switch
\* the maintenance mode again, and a restore that is deleted halfway leaves it on.
RestoreAcquires ==
    /\ Restoring
    /\ lease = "free" /\ lease' = "restore"
    /\ RestoreMoves({"idle", "left"}, "holds") /\ UNCHANGED maintenance
RestoreActivates ==
    /\ maintenance' = TRUE
    /\ RestoreMoves({"holds", "closing"}, "active") /\ UNCHANGED lease
RestoreDeactivates ==
    /\ maintenance' = FALSE
    /\ RestoreMoves({"holds", "active"}, "closing") /\ UNCHANGED lease
RestoreReleases ==
    /\ lease' = "free"
    /\ RestoreMoves({"holds", "active", "closing"}, IF maintenance THEN "left" ELSE "idle")
    /\ UNCHANGED maintenance

\* The operator stops; what it had queued and read is lost.
Crash ==
    /\ up /\ faults < MaxFaults
    /\ faults' = faults + 1
    /\ up' = FALSE
    /\ queue' = {} /\ pass' = NoPass /\ syncQueue' = {} /\ sync' = NoSync
    /\ UNCHANGED <<objectVars, veleroVars, sharedVars, outside, asked>>

\* A started operator lists and visits everything that exists.
Recover ==
    /\ ~up
    /\ up' = TRUE
    /\ queue' = {b \in Backups : Present(b)}
    /\ syncQueue' = {b \in Backups : velero[b] # "none"}
    /\ UNCHANGED <<objectVars, veleroVars, sharedVars, pass, sync, boundVars>>

-------------------------------------------------------------------------------

Velero(b) ==
    \/ VeleroPicksUp(b)
    \/ VeleroFinishes(b)
    \/ VeleroRefusesDeletion(b)
    \/ VeleroStartsDeletion(b)
    \/ VeleroEndsDeletion(b)
    \/ VeleroFailsDeletion(b)

Restore == RestoreAcquires \/ RestoreActivates \/ RestoreDeactivates \/ RestoreReleases

Next ==
    \/ \E b \in Backups : Reconcile(b) \/ SyncReads(b) \/ Velero(b)
    \/ \E b \in Backups : OutsideRemoves(b) \/ OutsideCreates(b) \/ OutsideRequestsDeletion(b)
    \/ \E b \in Backups : UserCreates(b) \/ UserDeletes(b) \/ TimeWindowExpires(b)
    \/ Stage \/ PassFails
    \/ SyncStep \/ SyncFails
    \/ Restore
    \/ Crash \/ Recover

Spec == Init /\ [][Next]_vars

(***************************************************************************)
(* Fairness.  The work queues hand out every queued request, a started     *)
(* pass goes on, the time window of every backup ends, Velero ends what it *)
(* has started and deletes in the end, a restore ends, and the operator is *)
(* started again.  Nothing is assumed about Velero picking a backup up,    *)
(* about the provider being ready, or about users.                         *)
(***************************************************************************)
Fairness ==
    /\ \A b \in Backups :
          /\ SF_vars(Reconcile(b))
          /\ SF_vars(SyncReads(b))
          /\ WF_vars(TimeWindowExpires(b))
          /\ WF_vars(VeleroFinishes(b) /\ velero[b] = "running")
          /\ WF_vars(VeleroRefusesDeletion(b) \/ VeleroStartsDeletion(b))
          /\ SF_vars(VeleroEndsDeletion(b))
    /\ WF_vars(Stage)
    /\ WF_vars(SyncStep)
    /\ WF_vars(RestoreReleases)
    /\ WF_vars(Recover)

FairSpec == Spec /\ Fairness

-------------------------------------------------------------------------------
(* Properties. *)

\* Every variable has its type.
TypeOK ==
    /\ cr \in [Backups -> Resource \cup {NoBackup}]
    /\ expired \subseteq Backups
    /\ velero \in [Backups -> Phases]
    /\ dbr \in [Backups -> Requests]
    /\ maintenance \in BOOLEAN
    /\ lease \in Backups \cup {"free", "restore"}
    /\ restore \in {"idle", "holds", "active", "closing", "left"}
    /\ queue \subseteq Backups
    /\ pass \in {NoPass} \cup [backup : Backups, mem : Resource, operation : Operations,
                               step : 1 .. 12]
    /\ Idle \/ pass.step <= Last
    /\ syncQueue \subseteq Backups
    /\ sync \in {NoSync} \cup [backup : Backups, at : {"exists", "missing", "delete"},
                              canceled : BOOLEAN]
    /\ up \in BOOLEAN
    /\ faults \in 0 .. MaxFaults
    /\ outside \in 0 .. MaxOutside
    /\ asked \in 0 .. MaxUser

\* A run in progress: started by its Backup, neither resolved, abandoned nor
\* marked for deletion.
InProgress(b) ==
    /\ Present(b)
    /\ ~cr[b].synced /\ ~cr[b].deleting /\ cr[b].status.started
    /\ ~IsPostProcessing(cr[b])

\* A run in progress has the maintenance mode and the lease from the moment its
\* start is recorded, so in particular as long as Velero writes its backup: no
\* other backup's clean-up, no restore and no restart of the operator takes
\* either away (ensureMaintenanceDeactivated, ensureBackupLeaseReleased,
\* ensureActiveBackupLease).
RunsUnderMaintenance ==
    \A b \in Backups : InProgress(b) => maintenance /\ lease = b

\* A restore in its critical section keeps the maintenance mode, whatever the
\* backups that finish, expire or are deleted at the same time do.
RestoreKeepsMaintenance == restore = "active" => maintenance

\* The maintenance mode always has an owner that will switch it off: unless a
\* restore was deleted and left it on, it is on only while somebody holds the
\* lease, and the holder is never a local backup
\* that is gone or already terminal (cleanupStages run before Succeeded is
\* written and before the finalizer goes).
MaintenanceHasOwner ==
    /\ maintenance => lease # "free" \/ restore = "left"
    /\ lease \in Backups => Present(lease) /\ (cr[lease].synced \/ ~Terminal(cr[lease]))

\* Backups and restores keep to MaintenanceProtocol, also after crashes and
\* take-overs: no backup switches the maintenance mode or passes the lease on
\* without holding it (ensureMaintenanceActivated, ensureMaintenanceDeactivated).
Protocol == INSTANCE MaintenanceProtocol
               WITH Operations <- {"backup", "restore"},
                    holder <- IF lease \in Backups THEN "backup" ELSE lease

KeepsProtocol == Protocol!Spec

\* A run abandoned by its time window never becomes a successful backup, even if
\* Velero completes it later: it may be inconsistent.
CanceledNeverSucceeds ==
    \A b \in Backups :
        Present(b) /\ cr[b].status.canceled = "True" => cr[b].status.succeeded # "True"

\* The result of a backup is final: once Succeeded is True or False it stays so
\* as long as the resource exists (requiredOperation, operationIgnore).
OutcomeIsFinal ==
    [][\A b \in Backups :
          Present(b) /\ Terminal(cr[b]) /\ cr'[b] # NoBackup
              => cr'[b].status.succeeded = cr[b].status.succeeded]_vars

\* A canceled backup stays for the failure history although its Velero backup is
\* always deleted (comment in deleteBackupIfExists, and
\* ensureOrphanedBackupDeleted): neither controller deletes it, only a user does.
\* The exception is the copy the mirroring read before the backup was canceled and
\* acts on afterwards.
Stale(b) == sync.at = "delete" /\ sync.backup = b /\ ~sync.canceled

CanceledStays ==
    [][\A b \in Backups :
          (/\ Present(b) /\ cr[b].status.canceled = "True" /\ ~cr[b].deleting
           /\ cr'[b] = NoBackup \/ cr'[b].deleting)
              => asked' # asked \/ (Stale(b) /\ sync' # sync)]_vars

\* Every local backup gets a result or is deleted, also after failed calls and
\* crashes: the time window ends every wait for the provider, the lease and the
\* maintenance mode.  The exception is a Velero backup that somebody else makes
\* Velero delete during the run: its phase is an error in
\* ensureProviderBackupCompleted for as long as it exists.
Pending(b) == Present(b) /\ ~cr[b].synced /\ ~Terminal(cr[b])

BackupsEnd == \A b \in Backups : Pending(b) ~> (~Pending(b) \/ velero[b] = "deleting")

\* A deleted backup goes away, and so does its lease.
DeletionsEnd ==
    \A b \in Backups : (Present(b) /\ cr[b].deleting) ~> (~Present(b) /\ lease # b)

\* The Velero backup a run leaves behind when its time window ends it is deleted,
\* although Velero still writes it at that time and deletes nothing it writes
\* (ensureCanceledProviderBackupDeleted).
CanceledProviderBackupsGo ==
    \A b \in Backups :
        (Pending(b) /\ cr[b].status.canceled = "True" /\ cr[b].status.started)
            ~> (~Present(b) \/ velero[b] = "none")

\* A finished backup whose Velero backup has disappeared does not stay once one of
\* the controllers has it in its queue (ensureOrphanedBackupDeleted,
\* deleteBackupIfExists): after a restart, or because the disappearance was an
\* event.
OrphansGo ==
    \A b \in Backups :
        (/\ Present(b) /\ Terminal(cr[b]) /\ cr[b].status.started
         /\ cr[b].status.canceled # "True" /\ velero[b] = "none"
         /\ b \in queue \cup syncQueue)
            ~> (~Present(b) \/ velero[b] # "none")

(***************************************************************************)
(* What comments and documents say and the code does not keep.             *)
(***************************************************************************)

\* A finished run without a start timestamp left no Velero backup behind
\* (comment in ensureOrphanedBackupDeleted, "A backup that never started never
\* had a provider backup").
NeverStartedHasNoProviderBackup ==
    \A b \in Backups :
        Present(b) /\ ~cr[b].synced /\ Terminal(cr[b]) /\ ~cr[b].status.started
            => velero[b] = "none"

\* Velero never writes the backup of a run in progress and the one an abandoned
\* run left behind at the same time (docs/development/backup_process_en.md, "This
\* prevents a new backup from colliding with the orphan of a canceled run").
NoCollisionWithOrphan ==
    \A b, other \in Backups :
        ~(/\ InProgress(b) /\ velero[b] = "running"
          /\ Present(other) /\ cr[other].status.canceled = "True"
          /\ velero[other] = "running")
===============================================================================
