# TLA+ specification of the k8s-backup-operator

The operator backs up and restores a Cloudogu EcoSystem: it turns `Backup`, `Restore`
and `BackupSchedule` resources into Velero backups, Velero restores and CronJobs,
switches the maintenance mode, and removes old backups. This directory models the parts
whose correctness depends on interleavings, failures and long sequences of steps, checks
them with TLC on small instances, and proves the safety of the lease protocol, of the backup
workflow, of the restore workflow and of the garbage collection with TLAPS for every
instance.

Run from this directory: `tlc -workers 2 -config MCLease_cached.cfg MCLease`,
`tlapm RestoreSafetyProofs.tla`. `PROJECT.json` lists the runs, which lines of the source
each definition translates, the mutants that show that each property can fail, the
findings, the hazards and the theorems.

## 1. Inventory

| Component | State | Operations | Interacts with |
|---|---|---|---|
| Lease manager (`internal/leases`) | one Kubernetes `Lease` per namespace: holder UID, name, kind | `Acquire`, `Holds`, `Release` | both controllers; resolvers look the holder up |
| Backup controller (`internal/controller/backup`) | status of each `Backup` (StartTimestamp and conditions), finalizer | four operations (delete, ignore, finalize, create), 15 stages | lease, maintenance mode, Velero backups and DeleteBackupRequests |
| Velero backup controller (same package) | none of its own | mirror a Velero backup into a `Backup`; delete the `Backup` of one that disappeared | the Backup controller, through resources |
| Restore controller (`internal/controller/restore`) | conditions of each `Restore`, finalizer | three operations, 20 stages | lease, maintenance mode, Velero restores, cleanup, workloads |
| Scale manager (`restore/scale.go`) | replica labels on workloads | scale down, scale up, readiness, finalize | restore controller |
| Cleanup (`internal/cleanup`) | none | delete dogus and selected resources, wait | restore controller |
| Schedule controller (`internal/controller/schedule`) | conditions of each `BackupSchedule` | ensure or delete a CronJob | scheduled backup |
| Scheduled backup (`internal/scheduledbackup`) | none | create a `Backup` | own process |
| Garbage collection (`internal/garbagecollection`) | none | list, filter, delete backups | own process, retention |
| Retention (`internal/retention`) | none | four strategies, interval calendar | garbage collection |
| Provider (`internal/provider/velero`) | none | readiness, source check, requests, child restores | both controllers |

Both custom-resource controllers run one worker each in one process. A worker takes one
resource through one *pass*: it reads the resource, derives the operation from it, and
runs the stages of that operation until one of them says Retry (the resource is queued
again), Abort (the pass ends) or fails (queued again). All progress is stored in the
resource and in the cluster: a crash between two stages loses the pass, nothing else.

What is hard here:

* the Backup controller reads through an informer cache, the Restore controller live
  (`cmd/main.go`), and both act on one Lease and one maintenance mode;
* stages that write twice (create, then patch the status) may stop in between;
* the time window of a backup ends a run while Velero, which cannot be stopped, goes on;
* Velero refuses to delete what it writes, so deletions are requested again and again;
* the preparation of a restore is destructive, takes up to half an hour inside one stage, and
  must run once: before Velero restores, never after it;
* a restore may be deleted, or the operator stopped, at any of its stages, and leaves labels,
  scaled down workloads or the maintenance mode for the next one;
* users and Velero create, delete and delete-by-expiry behind the operator's back, and the
  mirroring controller reacts to it concurrently with the Backup controller;
* the interval strategy looks at one day, its effect shows after a year.

What makes each part correct: the lease has one owner and no run loses it before its end;
a run is written by Velero only under its own lease and the maintenance mode; nobody
switches off another operation's maintenance mode and nobody leaves it on; a result is
final and an abandoned run never counts as a backup; Velero restores once, alone and on a
prepared namespace, and a restore that succeeds leaves data, workloads and maintenance mode
as they were; runs, deletions and clean-ups end;
a collection keeps what the strategy promises.

## 2. Modules

| Module | Models |
|---|---|
| `Leases` | the Lease as data: `Claim`, `IsHolder`, the decisions of `Acquire` and `inspect` |
| `LeaseManager` | one worker per kind, every API call of `Acquire` and `Release` a step; caches, users, failures, restarts |
| `OperationLease` | abstract specification: what the lease promises |
| `LeaseManagerProofs` | theorems about `LeaseManager` |
| `MaintenanceProtocol` | abstract specification: what backups and restores promise each other about the maintenance mode |
| `BackupController` | the Backup controller, the mirroring controller, Velero, maintenance mode, a competing restore, crashes |
| `BackupControllerProofs` | the pass of `BackupController` and its types |
| `BackupSafetyProofs` | its safety properties and its side of `MaintenanceProtocol` |
| `RestoreController` | the Restore controller, the scale manager, the cleanup, Velero restores, maintenance mode, a competing backup, crashes |
| `RestoreControllerProofs` | types, lease, protocol and replica counts of `RestoreController` |
| `RestoreSafetyProofs` | the other safety properties of `RestoreController` |
| `Retention` | the retention strategies as operators on sets of backups |
| `GarbageCollection` | the daily backup and the collections of a deployment over the days |
| `RetentionProofs` | time, the strategies, and what a collection may remove |
| `RetentionBoundProofs` | how much a collection leaves behind |
| `RetentionHistoryProofs` | which backups survive the years, and how far the history reaches back |
| `MCLease`, `MCBackup`, `MCRestore`, `MCRetention` | instances for TLC |

### LeaseManager

`stage[u]` is the life of a custom resource as the lease sees it: `create` is a run with work to
do, `finalize` a backup whose post-processing is left, `terminal` a run with a final `Succeeded`
condition, the deleting stages the same with a deletion timestamp. `lease` is the stored object
with its resource version; `seen` and `seenLease` are the caches, which are earlier states of
the store and only move forward. A pass goes `acquire` → (`insert` | `resolve` → `takeover` |
`working`) or `release` → `delete` → `close`, exactly the calls of `Manager.Acquire` and
`Manager.Release`. A backup comes to its release through `ensureMaintenanceModeDeactivated`:
`holds` is `Manager.Holds`, and a backup it lets through switches the maintenance mode off in a
call of its own (`clean`). The other stages of the workflows between acquire and release are
`working`. `CachedObjects` and `CachedLeases` say which kinds read from a cache: `{"Backup"}`
for both is the wiring of `cmd/main.go`.

`OperationLease` knows an owner and the stages only. The mapping takes the stored holder for
the owner; a malformed Lease is `Unreadable`.

### BackupController

One action is one stage; `pass` is the operation a pass has chosen (`Operations`), the step in
its list of stages (`StagesFor`) and the backup. `pass.mem` is its copy of the resource: a stage
decides on it, a status patch refreshes it, and other actors change the stored resource
meanwhile; the patch of a resource that is gone fails. A
stage that writes twice has an outcome in which only the first write happened (`CallFails`);
`PassFails` is a stage whose first call fails. `RetryLater` covers Retry and an error, since
both queue the resource again. The condition values stages read are modelled; reasons,
messages, the `Prepared` and `Deleting` conditions, labels and events are reports. The
phases of a Velero backup are grouped the way the code groups them
(`veleroBackupIsRunningPhases`, `veleroBackupFailedPhases`, empty, Completed, Deleting). The
lease stages are one step each, because `LeaseManager` has their calls, and resources are
read fresh; the combination with caches is listed below.

Velero is external and modelled from the way the code treats it: it may never pick a backup
up, it completes or fails what it runs, it processes a request for a running or missing
backup without effect, and a deletion may end with errors.

### RestoreController

One action is one stage, in the order of `CreateStages`, `DeleteStages` and `IgnoreStages`.
The controller reads live and is the only writer of a restore's status, so a pass keeps only
its restore, operation and step. `cr[r]` holds the conditions stages read: whether
`Prepared` and `ProviderSucceeded` are True, the reason of `WorkloadsRecovered`, and
`Succeeded`; `announced` is the deprecated status, which every status write brings up to date
(`Stored`). A write ends the pass, and its event brings the next one (`Write`).

* The cleanup is two actions, because it waits inside its stage: `EnsurePreparation` scales
  down and requests the deletions (all of them, or a part when a call fails), `CleanupEnds`
  is the end of the last one. `PassFails` between them is the timeout or a failed call,
  `Crash` the loss of the wait. `data` says what has become of the removed objects.
* The scale manager acts on `workloads`: replica count, label, readiness. A call that fails
  has taken effect on any subset of them (`RecoveryStage`, `EnsurePreparation`).
* A Velero restore is `velero[r]`: owner, phase group (`ObserveRestorePhase`), deletion. Others
  may create one of the same name, delete it, or delete the source backup at any time.
* `unnoticed` and `foreign` are history: an activation of the maintenance mode has failed
  (the code goes on without it), and somebody else has used a name. Properties except these
  cases by name.

### How the two controllers fit together

Backups and restores meet in the lease and in the maintenance mode. Both controllers in one
model are beyond TLC, so they are composed by what they promise: `MaintenanceProtocol` says that
a kind of operation takes the lease only when it is free and touches the maintenance mode only
while it has it. Each controller is checked with the other one replaced by the steps of that
protocol, and each is shown to keep to it (`KeepsProtocol`, a refinement in both modules). What
one assumes is what the other guarantees, and a step breaks the protocol only if one of the two
takes it. Both halves are proved (`BackupKeepsProtocol`, `RestoreKeepsProtocol`). The lease is
read fresh in both; that a cached Lease breaks the exclusion for a backup whose run is over is
what `lease_stale` shows, and that case is outside this composition. That one step may stand for
the calls of `Acquire` and `Release` in both modules is `KindsTakeTurns`: with the calls
interleaved, under every wiring of the caches and whatever is left behind, the stored Lease
follows the turns of `MaintenanceProtocol` (`LeaseTakesTurns`).

### Retention and GarbageCollection

Time counts in ticks. `BackupTick` is the tick of the day at which the CronJob of the
`BackupSchedule` (`cronjob_manager.go`) creates a backup, `CollectTicks` are the ticks at which
the CronJob of the chart starts a collection (every hour by default, `retention.garbageCollectionCron`);
which ticks, and how many of them, is a parameter. The runs have two ticks a day with a
collection at each, so one of them shares its tick with the backup and the two jobs interleave in
every order. A backup is in the model once its run has completed (only those are collected),
with the start timestamp its status has, or the zero timestamp when that write was lost. Each
deletion is a step, so a collection may fail or be lost half-way, and a backup may complete
between its list and its deletions. A collection ends before the next tick: two collections at
once are not modelled.

## 3. Runs

| Run | Shows | Bounds |
|---|---|---|
| `lease_cached` | with the real wiring a run with work left keeps its lease (`ActiveRunOwnsLease`), the inductive invariant holds, the manager implements `OperationLease`, and the lease goes from kind to kind only when it is free (`KindsTakeTurns`) | a Backup, a recreated Backup of the same name, a Restore, the two Backups symmetric since nothing but their UID differs; three claims; one failed call or restart; one forced removal |
| `lease_live` | workers that read the Lease live exclude each other and switch off no maintenance mode but their own (`CleansOwnMaintenance`); all runs end and give the lease back | two Backups and a Restore, three claims |
| `lease_stale` (violation) | with the real wiring a backup that is already over works beside a restore | as `lease_cached`, without faults |
| `lease_release` (violation) | with the real wiring a deleted backup can leave its Lease behind | one Backup, one Restore |
| `backup_two` | the clean-up of one run never takes what another run or the restore has; backups keep to `MaintenanceProtocol` | two Backups, two user actions, one fault, a restore that may be left halfway |
| `backup_live` | maintenance mode and result stay consistent, a canceled backup stays (`CanceledStays`), runs, deletions and clean-ups end | one Backup, two user actions (the mirroring creates it again), one outside action on Velero, one fault |
| `backup_started` (violation) | a lost status write leaves a Velero backup behind that nobody deletes | one Backup, one fault |
| `backup_collision` (violation) | an orphan Velero has not touched yet does not hold the next run off | two Backups |
| `restore_safe` | Velero restores once, alone, under the maintenance mode and on a prepared namespace; success leaves it complete; replica counts survive; restores keep to `MaintenanceProtocol` | two Restores, two workloads (one replica, none), three user or backup actions, one outside action, one fault |
| `restore_live` | restores and deletions end, the lease comes back | one Restore name, otherwise as `restore_safe` |
| `retention_year` | what is kept is bounded, recent and latest backups stay, of the last year the oldest one stays (`OldestKept`), the history reaches back | two years, one backup and two collections a day, every deleting strategy, one thing goes wrong on any day |
| `retention_periods` (violation) | the long periods of the interval strategy are empty after the first year | 370 days, one backup and two collections a day, nothing goes wrong |

Why the bounds are enough to be interesting: resource versions (`MaxRev`) allow each
resource of a lease run to claim the Lease once, on top of a malformed one; a fault may strike at
every step; a deleted Backup comes back by the mirroring, a Restore with the third user action, which
may also make the second restore or the backup that meets what the first one left; a workload with
replicas and one without are the two cases of the scale manager; two years are more than twice the
longest interval, so every interval fills, empties and fills again. Runs stop when the
bounds are used up, so deadlock is not checked: a namespace without work is a legal end.

### Fairness

* Work queues hand every queued resource to the worker again (`Reconcile`, `SyncReads`);
  strong fairness, because the resources of a kind share one worker.
* A started pass goes on (`Stage`, `SyncStep`, `PassAdvances`), a stopped operator is started
  again (`Recover`: a Deployment), informers deliver.
* The clock moves: every time window expires. Velero ends what it runs, processes requests
  and does not fail a deletion for ever. A restore ends.
* Restores: Velero starts and ends every restore it is given and every deletion, deleted
  dogus and resources go, pods of scaled workloads become ready, the provider becomes ready
  again, a backup gives the lease back. A restore has no time window: without one of these it
  waits for ever, by design. Faults and outside actions are bounded, so retries end.
* An administrator removes a malformed Lease, as the condition asks for; only
  `lease_live` and `lease_release` use that.
* Nothing is assumed about Velero picking a *backup* up, about the provider becoming ready
  for a backup (its time window ends the wait), or about users.

`BackupsEnd` has one exception, visible in its statement: a Velero backup somebody else makes
Velero delete during the run. Its phase is an error for `ensureProviderBackupCompleted`, and
the run holds the lease and the maintenance mode until Velero has removed it. `OrphansGo`
speaks about finished backups one of the controllers has queued: a Velero backup that
disappears while the operator is down, before its run is terminal, causes no event after
the restart, and the finished backup stays until the next one.

## 4. Disagreements with comments and documents

The same cached read stands behind `Holds`: with the configuration of `lease_stale`, TLC also
finds a finished backup that passes `Holds` on an old Lease and then calls `Deactivate` while a
restore has the lease. `CleansOwnMaintenance` is therefore checked, and proved, for live reads.

Each violation run states a sentence of the repository and shows a behaviour of the code
against it; `PROJECT.json` quotes the sentences. In short: the shared lease excludes
operations only if both read it live; a release through the cache may miss the Lease; a
lost status write makes a started backup look like one that never started; an untouched
Velero backup does not count as running; and the interval strategy keeps *at most*
one backup per long period. Also seen, without a run: the comment on the interval strategy in
`internal/retention/strategy.go` speaks of at most 11 backups; 12 are reachable, since days
0 to 7 are eight (`SavedBound`).

The comment in `velero_backup_reconciler.go` (`deleteBackupIfExists`) keeps a canceled backup for
the failure history. `CanceledStays` says this of the restart, of the events of Velero and of the
mirroring, with one exception TLC shows to be needed: the mirroring decides on a copy it has read
before, so a backup that is canceled between its read and its Delete call goes nevertheless.

What the restore workflow leaves open, seen while modelling it and visible in its properties:

* A restore deleted during its recovery leaves the replica labels. The scale down of the next
  restore skips labelled workloads (`scale.go:471`), which may run again by now, so Velero
  restores under them although `docs/development/restore_process_en.md` says of `Prepared`
  "Workloads were scaled down". `ScaledDownUnderVelero` excepts exactly these workloads.
* `ensureProviderCompletion` does not look at the owner of the Velero restore. One that
  somebody else creates in the moment between `ensureProviderChildState` and it is taken
  for the restore's own; `SuccessIsComplete` excepts names others have used.
* A preparation that failed halfway may be followed by the loss of the source backup or of
  the name. The restore then ends with the message that it was not started, with
  resources removed, workloads down and the maintenance mode on.
* The activation of the maintenance mode is best effort: after a failed one a restore runs without
  the notice (`unnoticed`).

## 5. Proofs

### The lease

`LeaseManagerProofs` proves, for every set of resources, names and kinds, every choice of
cached kinds and every bound:

* `TypeCorrect`: `Spec => []TypeOK`;
* `InvariantHolds`: `Spec => []LeaseInvariant`;
* `ActiveRunSafe`: `Spec => []ActiveRunOwnsLease`;
* `Refinement`: `Spec => LeaseImplementsOperationLease`;
* `ActiveRunsExclude`: a backup and a restore that both have work left never execute their
  protected stages at once, under every wiring of the caches;
* `LiveReadsExclude`: `CachedLeases = {} => (Spec => []OperationsExclude)`;
* `LiveReadsClean`: `CachedLeases = {} => (Spec => []CleansOwnMaintenance)`;
* `LeaseTakesTurns`: `Spec => KindsTakeTurns`, under every wiring.

`ActiveRunsExclude` and `LiveReadsExclude` bound what `lease_stale` shows: the exclusion is lost
only for a run that is over or being deleted, and only when its Lease comes from a cache.
`LiveReadsExclude` needs no hypothesis about cached custom resources, forced removals or faults:
its invariant (`WorkersHold`: who works is still the holder the Lease names) is kept because a
Lease of the other kind is waited for, never taken over, and the own kind's worker is busy
(`OthersKeepHolder`). `LiveReadsClean` follows from the same invariant, which also speaks of the
step between `Holds` and `Deactivate`.

Assumptions: `HolderAssumption` (`Leases`: kinds and names of resources are real ones) and
`ManagerAssumption`; TLC evaluates both in every lease run.

`ActiveRunOwnsLease` is not inductive: it says nothing of what a worker that is between
two calls remembers. `LeaseInvariant` adds it:

* `RecordOK`: every copy of the Lease in a cache or a pass was in the store once, and equal
  resource versions mean equal leases. So the precondition of an update or deletion means
  that the Lease is still the one the worker decided on.
* `CacheOK`: a cached resource is never ahead of the store. So a holder that looks finished is
  finished, and takeover is safe even with an old cache.
* `PassOK`: what each step of a pass knows, for example that the holder in `takeover` is over.
* `HeldOK`: a cached Lease of a run that still has work to do is that run's Lease in the store.
  This is why reading the Lease from a cache is harmless for a run with work left, and
  only for such a run.

The step proof first shows that resources move forward (`NextForward`), how the Lease moves
(`NextMovesLease`) and that caches and passes only copy (`NextMovesCopies`); `RecordsKept`,
`HeldKept`, `OthersKept` and `WorkerKept` then keep each part. The refinement uses
`NextMovesLease` and the forward movement.

### The restore workflow

`RestoreControllerProofs` and `RestoreSafetyProofs` prove every safety property `restore_safe`
checks, for any number of restores and workloads, any replica counts and any number of faults,
outside actions and requests:

| Theorem | States |
|---|---|
| `TypeCorrect` | `Spec => []TypeOK` |
| `LeaseIsHeld` | `Spec => []PassHoldsLease`: behind `ensureActiveRestoreLease` a pass has the lease |
| `RestoreKeepsProtocol` | `Spec => KeepsProtocol` |
| `ReplicaCountsKept` | `Spec => []CountsKept` |
| `OneVeleroRestoreHolds` | `Spec => []OneVeleroRestore` |
| `NothingRemovedUnderVeleroHolds` | `Spec => []NothingRemovedUnderVelero` |
| `ScaledDownUnderVeleroHolds` | `Spec => []ScaledDownUnderVelero` |
| `RestoresUnderMaintenanceHolds` | `Spec => []RestoresUnderMaintenance` |
| `PreparedOnceHolds` | `Spec => PreparedOnce` |
| `SuccessIsCompleteHolds` | `Spec => SuccessIsComplete` |

The only assumption is `RestoreAssumption`, evaluated by TLC in both restore runs. None of the
properties is inductive. The invariant behind them has these parts:

* `PassHoldsLease`: the worker is the only one to take the lease of a restore away, so what
  `ensureActiveRestoreLease` saw stays true for the rest of the pass.
* `CountsInv`: `CountsKept`, and that behind the readiness check no label disagrees with the spec
  and behind the finalization no label is left. Without it a removed label could lose a count.
* `PassInv`, `RestoreInv` (over `RestoreOK(r)`): what a pass behind each stage knows about its
  restore, and that a Velero restore of the operator that waits or runs belongs to a prepared,
  unfinished restore which has the lease. `OneVeleroRestore` follows, since the lease is
  one.
* `ScaledInv`: a labelled workload is down or at its stored count, and every workload is labelled
  while the worker waits for the cleanup. `NoticeInv`: between its activation and the success of Velero
  the maintenance mode is on unless an activation failed, and behind its deactivation it is off.
* `HolderInv` (over `HolderOK(r)`): a prepared, unfinished restore with the lease has nothing going,
  has its workloads labelled until Velero has succeeded, and its data complete from then on.
  This covers the crash between the creation of the Velero restore and the first status write.

The step proofs have a lemma per group of stages (before, from and after the creation of
the Velero restore, deletion), one for what everybody else does (`OthersKeep`), and join them in
`RestoreNext` and `EcosystemNext`. `PreparedOnce` and `SuccessIsComplete` are proved step by
step under the invariant.

### The backup workflow

`BackupControllerProofs` and `BackupSafetyProofs` prove every safety property of the backup runs,
for any number of backups, with and without a competing restore, and any number of user
actions, faults and outside actions:

| Theorem | States |
|---|---|
| `TypeCorrect` | `Spec => []TypeOK` |
| `InvariantHolds` | `Spec => []IInv` |
| `RunsUnderMaintenanceHolds` | `Spec => []RunsUnderMaintenance` |
| `RestoreKeepsMaintenanceHolds` | `Spec => []RestoreKeepsMaintenance` |
| `MaintenanceHasOwnerHolds` | `Spec => []MaintenanceHasOwner` |
| `CanceledNeverSucceedsHolds` | `Spec => []CanceledNeverSucceeds` |
| `OutcomeIsFinalHolds` | `Spec => OutcomeIsFinal` |
| `CanceledStaysHolds` | `Spec => CanceledStays` |
| `BackupKeepsProtocol` | `Spec => KeepsProtocol` |

The only assumption is `BackupAssumption`, evaluated by TLC in every backup run. The properties
are not inductive because a stage acts on the pass's copy of the resource, which users, the
mirroring and a lost write may have left behind. `IInv` adds:

* `ResourcesOK` and `LeaseOK`: which conditions of a stored backup occur together, and whom the
  lease may name: a holder exists and has not ended, and the maintenance mode is on without a
  holder only after a deleted restore.
* `PassOK`: what a pass knows. Behind the finalizer stage its resource cannot be replaced and the
  copy has the stored status (`SameRun`); before it the stored resource may be gone or another
  one, but an untouched one. `StageSound` says what the
  stages of the operation that lie behind have established, `HoldsSound` that a pass between
  the lease stage and the release has the lease, so that switching the maintenance mode off cannot
  hit anybody else.
* `RunsUnderMaintenance` itself. It speaks of every run whose start is recorded, not only of
  those Velero writes: the weaker statement is not inductive, since Velero may begin at any
  moment between two stages.

`ContinueType`, `EndType`, `PatchType` and their counterparts state once what the three endings of a
stage do to the state; the step proof has a lemma per group of stages and one for the
mirroring, Velero, users and the restore.

### Retention and garbage collection

`RetentionProofs`, `RetentionBoundProofs` and `RetentionHistoryProofs` hold for every length of
a day, every schedule of the two jobs, with one or several collections a day, and any number of
days (`DayAssumption`, `ScheduleAssumption`):

| Theorem | States |
|---|---|
| `TypeCorrect` | `Spec => []TypeOK` |
| `RecentKeptHolds` | `Spec => RecentKept` |
| `OnlyOutageRemovesLatest` | a removal leaves a newer backup whenever there is one of the last seven days, and under `removeAllButKeepLatest` always, however much goes wrong |
| `LatestKeptHolds` | `MaxMissed <= 6 => (Spec => LatestKept)` |
| `SavedBoundHolds` | `Spec => []SavedBound` |
| `OldestKeptHolds` | `Spec => OldestKept`, whatever goes wrong and however often |
| `UndisturbedHistory` | as long as nothing went wrong, the store is the backups of the last week and of every 23rd, 69th, 138th and 276th day, one such distance per interval |
| `HistoryReachesBackHolds` | `MaxMissed <= 1 => (Spec => []HistoryReachesBack)` |

* `RecentKept` compares times, the interval strategy compares days: `EightDaysBack` is the step
  between them, `RemovesOld` carries it to all strategies, and `TodoOld` to a collection that
  deletes one backup at a time (the clock read for the list is the clock at the deletions).
* `LatestKept` needs that the schedule does not pause. `Fresh` measures this: the latest start is
  at most one day more than the number of mishaps ago, and when it is exactly that
  the backup of this tick is due. Six mishaps leave it within seven days. The
  bound is tight: TLC finds a lost last backup with `MaxMissed = 7`, while `retention_year`, with
  its one mishap, says nothing of it.
  `OnlyOutageRemovesLatest` needs no bound.
* `SavedBound` is a statement about the store, while a collection filters a list it read before.
  `Filtered` says what a strategy promises of what it leaves (`LeavesFiltered`) and survives
  further deletions (`FilteredSubset`); the backup of the collection's own tick is counted
  apart (`Today`). The counting uses one backup a day (`OneADay`) and one per long interval
  (`IntervalBound`).

* `OldestKept` is a statement about single deletions of a list that was made before.
  `OlderStays` says of the list that no backup of the last year is on it without an older one
  of the last year that is not; `DaysLeft` says in days what the interval strategy leaves.
* How far the history reaches depends on where in their intervals the survivors of hundreds of
  collections are. Nothing about today's store tells it; what does is which days each interval has
  *chosen* since the deployment began: a day that arrives in an interval stays exactly when no
  older one is left in it. Undisturbed, the intervals choose the multiples of 23, 69,
  138 and 276 (`Survives`, `HistoryOK`), since each length falls a little short of the next such
  distance. A second collection of the same day chooses nothing new (`SameCollection`). The last two intervals are then empty at times, on day 361 both, which is what
  `retention_periods` shows.
* A mishap shifts the days that are chosen from then on, in a way that depends on its day and kind.
  `OneMishapOK` therefore does not name them: there are sets `M1` to `M5`, each chosen from the
  one before it (`Chosen`: far enough apart, and nobody left out without a chosen day shortly before),
  of which each interval holds those in its range (`Held`), and `M1` lacks at most one day (`Dense`).
  A mishap may leave one arrival too many in one interval until the next collection. From
  this the chosen days of the quarter are 59 to 72 days apart and those of the half-year 118 to
  144 (`NextQuarter`, `NextHalf`), so that when the oldest backup leaves the year, one of 60 to 360
  days ago is there (`FarEnd`). `Reach` carries this from day to day. The bound on
  `MaxMissed` is tight: without the first two backups none is 60 days old on day 61.

### Only model-checked

* All liveness: the prover has no rules for fairness and ENABLED.

## 6. Not modelled

* Two operator processes at once (leader election is off by default).
* Informer caches in `BackupController`. Effects of the cache on the lease are in
  `LeaseManager`; the Restore controller reads live.
* The migration of restores and conditions from older operators, replica labels that are no
  number, users who rescale a workload while its label is there.
* A Velero restore of the operator whose `spec.backupName` somebody changes (`restore.go:110`).
* Two collections at once: the CronJob sets no `concurrencyPolicy`, so a collection that lasts
  longer than the time to the next one would overlap with it.
* The select of `Cleanup` when the deadline passes between the last delete request and the wait:
  both channels may then be ready, and Go may choose success.
* In `BackupController` `CheckReady` is a free choice; in `RestoreController` it changes by
  itself. Configuration, metrics, logging and events have no state a stage reads.
* The schedule controller: one writer, one CronJob per schedule, every pass converges from any
  state, and nothing competes with it.

## 7. Plan

Done: lease protocol with abstraction and proofs; backup workflow with mirroring and restore
workflow with scale manager and cleanup, both with proofs of their safety; the composition of
both over `MaintenanceProtocol`, proved from both sides; retention and garbage collection, with
proofs of their safety. Every invariant and every action property of the passing runs, and every
refinement, is proved.

1. Cached reads in `BackupController`: the copy a pass starts from may be older than the stored
   resource; `IInv` then needs what `CacheOK` is for the lease.
2. `Schedule` (`BackupSchedule` to CronJob) with the scheduled `Backup` of `GarbageCollection`.
