----------------------------- MODULE LeaseManager -----------------------------
(***************************************************************************)
(* The lease manager (internal/leases/manager.go) as the Backup and the    *)
(* Restore controller use it at the same time.  Each controller runs one   *)
(* worker; a worker takes one custom resource through one pass.  Every     *)
(* call to the API server is a step of its own, so the read of a lease,    *)
(* the look-up of its holder and the conditional write interleave with the *)
(* other controller, with users and with a crash of the operator.          *)
(*                                                                         *)
(* The Backup controller reads through the manager's informer cache        *)
(* (cmd/main.go configureBackupReconcilers), the Restore controller reads  *)
(* live (cmd/main.go configureReconcilers).  A cache is an earlier state   *)
(* of the store that only moves forward.                                   *)
(*                                                                         *)
(* Abstractions: the stages of a workflow other than the lease stages are  *)
(* one "working" step; status writes never move a run backwards; each kind *)
(* has one worker (one operator instance, MaxConcurrentReconciles 1).      *)
(***************************************************************************)
EXTENDS Leases

CONSTANTS
    CachedObjects,  \* kinds whose worker reads custom resources from a cache
    CachedLeases,   \* kinds whose worker reads the Lease from a cache
    MaxRev,         \* bound on the resource versions of the Lease
    MaxFaults,      \* bound on failed calls and crashes
    MaxForced       \* bound on forced removals of custom resources

ASSUME ManagerAssumption ==
    /\ CachedObjects \subseteq Kinds
    /\ CachedLeases \subseteq Kinds
    /\ MaxRev \in Nat
    /\ MaxFaults \in Nat
    /\ MaxForced \in Nat

VARIABLES
    stage,      \* [UIDs -> Stages]: the life of every custom resource
    lease,      \* the Lease object in the store
    rev,        \* the last resource version given to the Lease
    seen,       \* [Kinds -> [UIDs -> Stages]]: cached custom resources
    seenLease,  \* [Kinds -> Lease]: cached Lease
    pc,         \* [Kinds -> Steps]: where each worker is
    op,         \* [Kinds -> Operations]: what its pass has to do
    me,         \* [Kinds -> UIDs]: the custom resource of its pass, if any
    snap,       \* [Kinds -> Lease]: the Lease version its pass read
    faults,     \* failed calls and crashes so far
    forced      \* forced removals so far

storeVars  == <<stage, lease, rev>>
cacheVars  == <<seen, seenLease>>
workerVars == <<pc, op, me, snap>>
boundVars  == <<faults, forced>>
vars       == <<storeVars, cacheVars, workerVars, boundVars>>

Stages == {"unborn", "create", "finalize", "terminal",
           "deletingRun", "deletingDone", "gone"}

Living      == Stages \ {"unborn", "gone"}
Terminal    == {"terminal", "deletingDone"}
Operations  == {"create", "finalize", "ignore", "delete"}
Steps       == {"idle", "acquire", "insert", "resolve", "takeover", "working",
                "holds", "clean", "release", "delete", "close"}

\* Leases an earlier operator version or an external writer may have left.
ForeignLeases == [rv : {1}, uid : {NoUID}, name : {NoName}, kind : Kinds \cup {NoKind}]

Init ==
    /\ stage = [u \in UIDs |-> "unborn"]
    /\ lease \in {NoLease} \cup ForeignLeases
    /\ rev = 1
    /\ seen = [k \in Kinds |-> stage]
    /\ seenLease = [k \in Kinds |-> IF k \in CachedLeases THEN lease ELSE NoLease]
    /\ pc = [k \in Kinds |-> "idle"]
    /\ op = [k \in Kinds |-> "ignore"]
    /\ me = [k \in Kinds |-> NoUID]
    /\ snap = [k \in Kinds |-> NoLease]
    /\ faults = 0
    /\ forced = 0

-------------------------------------------------------------------------------
(* What a worker reads. *)

Objects(k)   == IF k \in CachedObjects THEN seen[k] ELSE stage
LeaseRead(k) == IF k \in CachedLeases THEN seenLease[k] ELSE lease

\* The operation a pass chooses from the object it read (requiredOperation).
RequiredOperation(k, s) ==
    CASE s \in {"deletingRun", "deletingDone"} -> "delete"
      [] s = "terminal"                        -> "ignore"
      [] s = "finalize"                        -> "finalize"
      [] OTHER                                 -> "create"

(***************************************************************************)
(* resolve: the lease l still has an active holder when the object of that *)
(* kind and name exists, is not terminal and has the UID of the lease.     *)
(***************************************************************************)
ActiveHolder(objects, l) ==
    \E v \in UIDs :
        /\ KindOf[v] = l.kind /\ NameOf[v] = l.name
        /\ objects[v] \in Living
        /\ objects[v] \notin Terminal
        /\ v = l.uid

\* The stage of a run once its final Succeeded condition is written.
Completed(s) ==
    CASE s \in {"create", "finalize"} -> "terminal"
      [] s = "deletingRun"            -> "deletingDone"
      [] OTHER                        -> s

Goto(k, step) == pc' = [pc EXCEPT ![k] = step]

\* Where the clean-up of a run begins: a backup asks whether the maintenance mode
\* is its own before it releases, a restore only releases.
Cleanup(k) == IF k = "Backup" THEN "holds" ELSE "release"

\* Mutant: the worker forgets its resource but not where it was.
EndPassStays(k) ==
    /\ UNCHANGED pc
    /\ op' = [op EXCEPT ![k] = "ignore"]
    /\ me' = [me EXCEPT ![k] = NoUID]
    /\ snap' = [snap EXCEPT ![k] = NoLease]

EndPass(k) ==
    /\ Goto(k, "idle")
    /\ op' = [op EXCEPT ![k] = "ignore"]
    /\ me' = [me EXCEPT ![k] = NoUID]
    /\ snap' = [snap EXCEPT ![k] = NoLease]

-------------------------------------------------------------------------------
(* Users, the API server and the caches. *)

\* Somebody creates a custom resource; its name is free.
CreateObject(u) ==
    /\ stage[u] = "unborn"
    /\ \A v \in UIDs : KindOf[v] = KindOf[u] /\ NameOf[v] = NameOf[u]
                          => stage[v] \notin Living
    /\ stage' = [stage EXCEPT ![u] = "create"]
    /\ UNCHANGED <<lease, rev, cacheVars, workerVars, boundVars>>

\* The finalizer keeps a deleted resource until its controller is done.
RequestDeletion(u) ==
    /\ stage[u] \in {"create", "finalize", "terminal"}
    /\ stage' = [stage EXCEPT ![u] = IF @ = "terminal" THEN "deletingDone"
                                                       ELSE "deletingRun"]
    /\ UNCHANGED <<lease, rev, cacheVars, workerVars, boundVars>>

\* Somebody strips the finalizer: the resource is gone without its controller.
ForceRemove(u) ==
    /\ forced < MaxForced
    /\ stage[u] \in Living
    /\ stage' = [stage EXCEPT ![u] = "gone"]
    /\ forced' = forced + 1
    /\ UNCHANGED <<lease, rev, cacheVars, workerVars, faults>>

\* An administrator deletes the malformed lease, as the condition asks for.
RemoveMalformedLease ==
    /\ Exists(lease) /\ Malformed(lease)
    /\ lease' = NoLease
    /\ UNCHANGED <<stage, rev, cacheVars, workerVars, boundVars>>

\* The informer of a kind catches up with the objects of that kind.
Listed(k) == [u \in UIDs |-> IF KindOf[u] = k THEN stage[u] ELSE seen[k][u]]

SyncObjects(k) ==
    /\ k \in CachedObjects
    /\ seen' = [seen EXCEPT ![k] = Listed(k)]
    /\ UNCHANGED <<storeVars, seenLease, workerVars, boundVars>>

SyncLease(k) ==
    /\ k \in CachedLeases
    /\ seenLease' = [seenLease EXCEPT ![k] = lease]
    /\ UNCHANGED <<storeVars, seen, workerVars, boundVars>>

-------------------------------------------------------------------------------
(* One pass of a worker. *)

\* Reconcile reads the resource and chooses the operation; the Backup
\* controller has no lease stage for a terminal backup.
Reconcile(k, u) ==
    LET operation == RequiredOperation(k, Objects(k)[u])
    IN  /\ pc[k] = "idle"
        /\ KindOf[u] = k
        /\ Objects(k)[u] \in Living
        /\ operation = "ignore" => k = "Restore"
        /\ op' = [op EXCEPT ![k] = operation]
        /\ me' = [me EXCEPT ![k] = u]
        /\ Goto(k, IF operation = "create" THEN "acquire" ELSE Cleanup(k))
        /\ UNCHANGED <<storeVars, cacheVars, snap, boundVars>>

\* The stages before the lease end the run: the time window of a backup has
\* expired, or the restore finds a provider restore it may not adopt.
EndBeforeLease(k) ==
    /\ pc[k] = "acquire"
    /\ stage[me[k]] \in Living
    /\ stage' = [stage EXCEPT ![me[k]] =
                   IF k = "Restore" THEN Completed(@)
                                    ELSE IF @ = "create" THEN "finalize" ELSE @]
    /\ EndPass(k)
    /\ UNCHANGED <<lease, rev, cacheVars, boundVars>>

\* Acquire: Get the lease and decide.
AcquireGet(k) ==
    LET l        == LeaseRead(k)
        decision == AcquireDecision(l, me[k])
    IN  /\ pc[k] = "acquire"
        /\ \/ /\ decision \in {"waiting", "invalid"}
              /\ EndPass(k)
           \/ /\ decision = "create"
              /\ Goto(k, "insert")
              /\ UNCHANGED <<op, me, snap>>
           \/ /\ decision = "held"
              /\ Goto(k, "working")
              /\ UNCHANGED <<op, me, snap>>
           \/ /\ decision = "resolve"
              /\ Goto(k, "resolve")
              /\ snap' = [snap EXCEPT ![k] = l]
              /\ UNCHANGED <<op, me>>
        /\ UNCHANGED <<storeVars, cacheVars, boundVars>>

\* Mutant: AlreadyExists counts as acquired.
AcquireInsertIgnoresConflict(k) ==
    /\ pc[k] = "insert"
    /\ \/ /\ ~Exists(lease) /\ rev < MaxRev
          /\ rev' = rev + 1
          /\ lease' = Claim(me[k], rev + 1)
       \/ /\ Exists(lease)
          /\ UNCHANGED <<rev, lease>>
    /\ Goto(k, "working")
    /\ UNCHANGED <<stage, op, me, snap, cacheVars, boundVars>>

\* Acquire: Create a missing lease; AlreadyExists is a conflict.  Acquired and
\* Conflict both end the pass: the lease must be observed again.
AcquireInsert(k) ==
    /\ pc[k] = "insert"
    /\ \/ /\ ~Exists(lease) /\ rev < MaxRev
          /\ rev' = rev + 1
          /\ lease' = Claim(me[k], rev + 1)
       \/ /\ Exists(lease)
          /\ UNCHANGED <<rev, lease>>
    /\ EndPass(k)
    /\ UNCHANGED <<stage, cacheVars, boundVars>>

\* Acquire: look up the holder; an active one is waited for.
AcquireResolve(k) ==
    /\ pc[k] = "resolve"
    /\ IF ActiveHolder(Objects(k), snap[k])
          THEN EndPass(k)
          ELSE Goto(k, "takeover") /\ UNCHANGED <<op, me, snap>>
    /\ UNCHANGED <<storeVars, cacheVars, boundVars>>

\* Mutant: the update carries no resource version.
AcquireTakeOverBlindly(k) ==
    /\ pc[k] = "takeover"
    /\ Exists(lease) /\ rev < MaxRev
    /\ rev' = rev + 1
    /\ lease' = Claim(me[k], rev + 1)
    /\ EndPass(k)
    /\ UNCHANGED <<stage, cacheVars, boundVars>>

\* Acquire: Update the stale lease under its resource version; a concurrent
\* write, or a concurrent deletion, is a conflict or an error.
AcquireTakeOver(k) ==
    /\ pc[k] = "takeover"
    /\ \/ /\ lease.rv = snap[k].rv /\ rev < MaxRev
          /\ rev' = rev + 1
          /\ lease' = Claim(me[k], rev + 1)
       \/ /\ lease.rv # snap[k].rv
          /\ UNCHANGED <<rev, lease>>
    /\ EndPass(k)
    /\ UNCHANGED <<stage, cacheVars, boundVars>>

\* The run holds the lease but has to wait: the pass ends.
WorkWaits(k) ==
    /\ pc[k] = "working"
    /\ EndPass(k)
    /\ UNCHANGED <<storeVars, cacheVars, boundVars>>

\* The work ends.  A backup goes on to its post-processing in the same pass; a
\* restore writes its final condition and releases in a later pass.
WorkEnds(k) ==
    /\ pc[k] = "working"
    /\ stage[me[k]] \in Living
    /\ \/ /\ k = "Backup"
          /\ stage' = [stage EXCEPT ![me[k]] = IF @ = "create" THEN "finalize" ELSE @]
          /\ Goto(k, Cleanup(k))
          /\ op' = [op EXCEPT ![k] = "finalize"]
          /\ UNCHANGED <<me, snap>>
       \/ /\ k = "Restore"
          /\ stage' = [stage EXCEPT ![me[k]] = Completed(@)]
          /\ EndPass(k)
    /\ UNCHANGED <<lease, rev, cacheVars, boundVars>>

\* Mutant: any Lease counts as the backup's own.
HoldsAnyLease(k) ==
    LET l == LeaseRead(k)
    IN  /\ pc[k] = "holds"
        /\ Goto(k, IF Exists(l) THEN "clean" ELSE "release")
        /\ UNCHANGED <<storeVars, cacheVars, op, me, snap, boundVars>>

\* Holds: only the holder of the Lease that was read goes on to switch the
\* maintenance mode off ...
Holds(k) ==
    LET l == LeaseRead(k)
    IN  /\ pc[k] = "holds"
        /\ Goto(k, IF Exists(l) /\ IsHolder(l, me[k]) THEN "clean" ELSE "release")
        /\ UNCHANGED <<storeVars, cacheVars, op, me, snap, boundVars>>

\* ... which is a call of its own, on a switch that knows no owner.
DeactivateMaintenance(k) ==
    /\ pc[k] = "clean"
    /\ Goto(k, "release")
    /\ UNCHANGED <<storeVars, cacheVars, op, me, snap, boundVars>>

\* Mutant: Release does not ask who holds the lease.
ReleaseGetAnyHolder(k) ==
    LET l == LeaseRead(k)
    IN  /\ pc[k] = "release"
        /\ IF Exists(l)
              THEN Goto(k, "delete") /\ snap' = [snap EXCEPT ![k] = l]
              ELSE Goto(k, "close") /\ UNCHANGED snap
        /\ UNCHANGED <<storeVars, cacheVars, op, me, boundVars>>

\* Release: Get the lease; without the lease there is nothing to release.
ReleaseGet(k) ==
    LET l == LeaseRead(k)
    IN  /\ pc[k] = "release"
        /\ IF Exists(l) /\ IsHolder(l, me[k])
              THEN Goto(k, "delete") /\ snap' = [snap EXCEPT ![k] = l]
              ELSE Goto(k, "close") /\ UNCHANGED snap
        /\ UNCHANGED <<storeVars, cacheVars, op, me, boundVars>>

\* Mutants: Delete without preconditions; Delete left out.
ReleaseDeleteBlindly(k) ==
    /\ pc[k] = "delete"
    /\ lease' = NoLease
    /\ Goto(k, "close")
    /\ UNCHANGED <<stage, rev, op, me, snap, cacheVars, boundVars>>

ReleaseDeleteForgotten(k) ==
    /\ pc[k] = "delete"
    /\ Goto(k, "close")
    /\ UNCHANGED <<storeVars, op, me, snap, cacheVars, boundVars>>

\* Release: Delete under the preconditions; a missing lease counts as released,
\* a changed one is an error that ends the pass.
ReleaseDelete(k) ==
    /\ pc[k] = "delete"
    /\ \/ /\ Exists(lease) /\ lease.rv = snap[k].rv
          /\ lease' = NoLease
          /\ Goto(k, "close")
          /\ UNCHANGED <<op, me, snap>>
       \/ /\ ~Exists(lease)
          /\ Goto(k, "close")
          /\ UNCHANGED <<lease, op, me, snap>>
       \/ /\ Exists(lease) /\ lease.rv # snap[k].rv
          /\ EndPass(k)
          /\ UNCHANGED lease
    /\ UNCHANGED <<stage, rev, cacheVars, boundVars>>

\* The stage after the release: the final condition of a backup, nothing for a
\* terminal restore, the removal of the finalizer for a deleted resource.
Close(k) ==
    /\ pc[k] = "close"
    /\ \/ /\ op[k] = "finalize"
          /\ stage' = [stage EXCEPT ![me[k]] = Completed(@)]
       \/ /\ op[k] = "ignore"
          /\ UNCHANGED stage
       \/ /\ op[k] = "delete"
          /\ stage' = [stage EXCEPT ![me[k]] = "gone"]
    /\ EndPass(k)
    /\ UNCHANGED <<lease, rev, cacheVars, boundVars>>

\* The provider is still deleting: a backup being deleted waits for it.
CloseWaits(k) ==
    /\ pc[k] = "close"
    /\ op[k] = "delete"
    /\ EndPass(k)
    /\ UNCHANGED <<storeVars, cacheVars, boundVars>>

\* A call fails with an error: the pass ends and is queued again.
PassFails(k) ==
    /\ pc[k] # "idle"
    /\ faults < MaxFaults
    /\ faults' = faults + 1
    /\ EndPass(k)
    /\ UNCHANGED <<storeVars, cacheVars, forced>>

\* The operator process restarts: passes are lost, the caches list the store.
Restart ==
    /\ faults < MaxFaults
    /\ faults' = faults + 1
    /\ pc' = [k \in Kinds |-> "idle"]
    /\ op' = [k \in Kinds |-> "ignore"]
    /\ snap' = [k \in Kinds |-> NoLease]
    /\ seen' = [k \in Kinds |-> IF k \in CachedObjects THEN Listed(k) ELSE seen[k]]
    /\ seenLease' = [k \in Kinds |-> IF k \in CachedLeases THEN lease ELSE seenLease[k]]
    /\ me' = [k \in Kinds |-> NoUID]
    /\ UNCHANGED <<storeVars, forced>>

-------------------------------------------------------------------------------

Acquire(k) == AcquireGet(k) \/ AcquireInsert(k) \/ AcquireResolve(k) \/ AcquireTakeOver(k)
Release(k) == ReleaseGet(k) \/ ReleaseDelete(k)

Environment ==
    \/ \E u \in UIDs : CreateObject(u) \/ RequestDeletion(u) \/ ForceRemove(u)
    \/ RemoveMalformedLease
    \/ \E k \in Kinds : SyncObjects(k) \/ SyncLease(k)

Worker(k) ==
    \/ \E u \in UIDs : Reconcile(k, u)
    \/ EndBeforeLease(k)
    \/ Acquire(k)
    \/ WorkWaits(k)
    \/ WorkEnds(k)
    \/ Holds(k) \/ DeactivateMaintenance(k)
    \/ Release(k)
    \/ Close(k)
    \/ CloseWaits(k)
    \/ PassFails(k)

Next == Environment \/ Restart \/ \E k \in Kinds : Worker(k)

Spec == Init /\ [][Next]_vars

(***************************************************************************)
(* Fairness.  The work queues of controller-runtime hand every queued      *)
(* resource to the worker again (Reconcile per resource, strong because    *)
(* the resources of a kind share the worker); a started pass goes on; a    *)
(* run eventually ends (a backup at the latest when its time window        *)
(* expires, a restore when the provider restore ends) and so does the      *)
(* deletion of a provider backup; informers deliver.                       *)
(***************************************************************************)
PassAdvances(k) ==
    \/ Acquire(k) \/ WorkWaits(k) \/ WorkEnds(k)
    \/ Holds(k) \/ DeactivateMaintenance(k) \/ Release(k)
    \/ Close(k) \/ CloseWaits(k)

Fairness ==
    /\ \A u \in UIDs : SF_vars(Reconcile(KindOf[u], u))
    /\ \A k \in Kinds :
          WF_vars(PassAdvances(k)) /\ SF_vars(WorkEnds(k)) /\ SF_vars(Close(k))
    /\ \A k \in CachedObjects : WF_vars(SyncObjects(k))
    /\ \A k \in CachedLeases : WF_vars(SyncLease(k))

FairSpec == Spec /\ Fairness /\ WF_vars(RemoveMalformedLease)

-------------------------------------------------------------------------------
(* Properties. *)

\* Every variable has its type, and a pass that has started works for a resource.
TypeOK ==
    /\ stage \in [UIDs -> Stages]
    /\ lease \in Lease
    /\ rev \in Nat
    /\ seen \in [Kinds -> [UIDs -> Stages]]
    /\ seenLease \in [Kinds -> Lease]
    /\ pc \in [Kinds -> Steps]
    /\ op \in [Kinds -> Operations]
    /\ me \in [Kinds -> UIDs \cup {NoUID}]
    /\ \A k \in Kinds : pc[k] # "idle" => me[k] \in UIDs
    /\ snap \in [Kinds -> Lease]
    /\ faults \in Nat
    /\ forced \in Nat

\* The lease protects a run until its end: while a worker executes the stages
\* behind ensureActiveBackupLease or ensureActiveRestoreLease for a run that has
\* work left, the Lease in the store names that run, however old the Lease and
\* the holder the worker read from its cache are.
ActiveRunOwnsLease ==
    \A k \in Kinds :
        pc[k] = "working" /\ stage[me[k]] = "create" => IsHolder(lease, me[k])

\* The lease implements OperationLease: one owner; a takeover only from a run
\* that is over; a release never of a run that has work left.
Owner == IF ~Exists(lease) THEN NoUID
         ELSE IF Malformed(lease) THEN NoName ELSE lease.uid

Abstract == INSTANCE OperationLease WITH owner <- Owner, Unreadable <- NoName

LeaseImplementsOperationLease == Abstract!Spec

\* The Lease passes from one kind of operation to the other only when it is free:
\* the one step in which BackupController and RestoreController take and return it
\* (MaintenanceProtocol) stands for the calls here; the switch is theirs.
HolderKind == IF Exists(lease) /\ ~Malformed(lease) THEN lease.kind ELSE "free"

Turns == INSTANCE MaintenanceProtocol
            WITH Operations <- Kinds, holder <- HolderKind, maintenance <- FALSE

KindsTakeTurns == Turns!Spec

(***************************************************************************)
(* Why ActiveRunOwnsLease holds: an inductive invariant.                   *)
(***************************************************************************)

Started == {"finalize", "terminal", "deletingRun", "deletingDone", "gone"}
Over    == Terminal \cup {"gone"}

\* An object named by a lease or a pass exists, also in the cache of its kind.
Born(u) ==
    /\ stage[u] # "unborn"
    /\ KindOf[u] \in CachedObjects => seen[KindOf[u]][u] # "unborn"

\* Every version of the Lease anybody remembers was in the store once: equal
\* resource versions mean equal leases, and the identity triple is consistent.
RecordOK(l) ==
    /\ l.rv = 0 => l = NoLease
    /\ l.rv <= rev
    /\ l.rv = lease.rv => l = lease
    /\ l.uid \in UIDs => l.name = NameOf[l.uid] /\ l.kind = KindOf[l.uid] /\ Born(l.uid)

\* A cached resource is never ahead of the store.
CacheOK ==
    \A k \in Kinds, u \in UIDs :
        /\ seen[k][u] # "unborn" => stage[u] # "unborn"
        /\ seen[k][u] \in Started => stage[u] \in Started
        /\ seen[k][u] \in Over => stage[u] \in Over

\* What a pass knows at each of its steps.
PassOK(k) ==
    /\ pc[k] # "idle" => KindOf[me[k]] = k /\ Born(me[k])
    /\ pc[k] \in {"holds", "clean", "release", "delete", "close"} => stage[me[k]] \in Started
    /\ pc[k] \in {"resolve", "takeover"} =>
          Exists(snap[k]) /\ snap[k].uid \in UIDs /\ snap[k].kind = k
    /\ pc[k] = "takeover" => stage[snap[k].uid] \in Over
    /\ pc[k] = "delete" => Exists(snap[k]) /\ IsHolder(snap[k], me[k])

\* A lease remembered for a run with work left is still that run's lease.
HeldOK(k) ==
    \A u \in UIDs :
        IsHolder(seenLease[k], u) /\ stage[u] = "create" => IsHolder(lease, u)

\* The argument behind ActiveRunOwnsLease and the refinement: what Acquire,
\* resolve and Release remember between their calls stays true until they write.
LeaseInvariant ==
    /\ RecordOK(lease)
    /\ \A k \in Kinds : RecordOK(seenLease[k]) /\ RecordOK(snap[k])
    /\ CacheOK
    /\ \A k \in Kinds : PassOK(k) /\ HeldOK(k)
    /\ ActiveRunOwnsLease

(***************************************************************************)
(* Liveness and exclusion, which the lease gives to workers that read it   *)
(* live (CachedLeases = {}), as the Restore controller does.               *)
(***************************************************************************)

\* A backup and a restore never execute their protected stages at the same time
\* (docs/development/parallel_access_en.md, "only one of the two operations can
\* execute its critical section at a time").
OperationsExclude ==
    ~(pc["Backup"] = "working" /\ pc["Restore"] = "working")

\* The clean-up of a backup never switches off the maintenance mode of another
\* operation: who goes on behind Holds still owns the lease when it calls
\* Deactivate (internal/controller/backup/reconciler.go, "The maintenance mode is
\* owned by the lease holder").
CleansOwnMaintenance ==
    pc["Backup"] = "clean" => lease.uid \in {me["Backup"], NoUID}

\* A backup that got the lease gives it back (parallel_access_en.md, "Backups
\* release their own lease as soon as they succeed, fail, are canceled, or are
\* marked for deletion").
BackupsReleaseLease ==
    \A u \in UIDs : KindOf[u] = "Backup" =>
        (IsHolder(lease, u) ~> ~IsHolder(lease, u))

\* Every run ends and gives the lease back: contention starves neither kind, and
\* nothing waits for ever behind a run that is over (Acquire, Release).
RunsEndAndRelease ==
    \A u \in UIDs :
        (stage[u] = "create" \/ IsHolder(lease, u))
            ~> (stage[u] # "create" /\ ~IsHolder(lease, u))
===============================================================================
