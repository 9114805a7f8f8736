-------------------------- MODULE BackupSafetyProofs --------------------------
(***************************************************************************)
(* The safety of the backup workflow: proofs that BackupController keeps   *)
(* its invariants and action properties and implements                     *)
(* MaintenanceProtocol, for any set of backups and any number of faults,   *)
(* of requests and of steps of others.                                     *)
(*                                                                         *)
(* All of them follow from one inductive invariant, IInv.  Its core is     *)
(* what a pass may rely on between two stages although everybody else      *)
(* moves: once the finalizer is set, the resource cannot be replaced and   *)
(* its status is the one the pass has in memory.                           *)
(***************************************************************************)
EXTENDS BackupControllerProofs

-------------------------------------------------------------------------------
(* The inductive invariant. *)

\* The status of a resource no run has touched: its conditions are at most
\* initialized.
Fresh(status) ==
    /\ ~status.started
    /\ ~Resolved(status.provider) /\ ~Resolved(status.succeeded)
    /\ status.canceled # "True"

\* What holds of every resource: a deletion waits, a mirrored backup waits and a
\* run proceeds only behind the finalizer, a result needs a reason, and an
\* abandoned run never gets a good one.
ResourceOK(r) ==
    /\ r.deleting \/ r.synced \/ ~Fresh(r.status) => r.finalizer
    /\ Terminal(r) => IsPostProcessing(r)
    /\ r.status.canceled = "True" => r.status.provider # "True" /\ r.status.succeeded # "True"

ResourcesOK == \A b \in Backups : Present(b) => ResourceOK(cr[b])

\* The lease, the maintenance mode and the restore; the holder of the lease
\* cannot vanish.
LeaseOK ==
    /\ restore \in {"holds", "active", "closing"} <=> lease = "restore"
    /\ restore = "active" => maintenance
    /\ maintenance => lease # "free" \/ restore = "left"
    /\ lease \in Backups => /\ Present(lease) /\ cr[lease].finalizer
                            /\ cr[lease].synced \/ ~Terminal(cr[lease])

\* The copy m of a pass against the stored resource r: behind the finalizer they
\* are the same run; before it r may be gone or another resource, but an untouched one.
SameRun(m, r) ==
    /\ m.finalizer => /\ r # NoBackup
                      /\ r.finalizer /\ r.synced = m.synced /\ r.status = m.status
                      /\ m.deleting => r.deleting
    /\ ~m.finalizer /\ r # NoBackup => Fresh(r.status)

\* What the copy m of a pass says at a stage.
StageSound(m, operation, step) ==
    /\ ResourceOK(m)
    /\ ~m.finalizer => operation = "create" /\ step <= 3
    /\ operation = "delete" => m.deleting
    /\ operation = "ignore" => Terminal(m)
    /\ operation = "finalize" => ~Terminal(m) /\ IsPostProcessing(m)
    /\ operation = "create" => /\ ~Terminal(m) /\ m.status.canceled # "True"
                               /\ step <= 9 => ~Resolved(m.status.provider)
                               /\ step >= 10 => Resolved(m.status.provider)

\* A pass before the release of the lease, and before its last clean-up stage.
AtRelease == \/ pass.operation = "create" /\ pass.step = 11
             \/ pass.operation \in {"finalize", "delete"} /\ pass.step = 2
AtEnd     == \/ pass.operation = "create" /\ pass.step = 12
             \/ pass.operation \in {"finalize", "delete"} /\ pass.step = 3

\* What a pass holds at a stage.
HoldsSound ==
    /\ pass.operation = "create" /\ pass.step \in 7 .. 10 => lease = Current
    /\ pass.operation = "create" /\ pass.step \in 8 .. 10 => maintenance
    /\ AtRelease /\ lease = Current => ~maintenance
    /\ AtEnd => lease # Current

PassOK ==
    ~Idle => /\ SameRun(Mem, cr[Current])
             /\ StageSound(Mem, pass.operation, pass.step)
             /\ HoldsSound

IInv ==
    /\ TypeOK
    /\ ResourcesOK
    /\ LeaseOK
    /\ RunsUnderMaintenance
    /\ PassOK

-------------------------------------------------------------------------------
(* Facts about passes. *)

\* Which position a stage is at.
LEMMA Position ==
    ASSUME TypeOK, ~Idle
    PROVE  /\ At("VeleroStatusSynced") => pass.operation = "create" /\ pass.step = 1
           /\ At("ConditionsInitialized") => pass.operation = "create" /\ pass.step = 2
           /\ At("Setup") => pass.operation = "create" /\ pass.step = 3
           /\ At("TimeWindow") => pass.operation = "create" /\ pass.step = 4
           /\ At("Prepared") => pass.operation = "create" /\ pass.step = 5
           /\ At("Lease") => pass.operation = "create" /\ pass.step = 6
           /\ At("MaintenanceActivated") => pass.operation = "create" /\ pass.step = 7
           /\ At("ProviderCreated") => pass.operation = "create" /\ pass.step = 8
           /\ At("ProviderCompleted") => pass.operation = "create" /\ pass.step = 9
           /\ At("MaintenanceDeactivated") =>
                 \/ pass.operation = "create" /\ pass.step = 10
                 \/ pass.operation \in {"finalize", "delete"} /\ pass.step = 1
           /\ At("LeaseReleased") =>
                 \/ pass.operation = "create" /\ pass.step = 11
                 \/ pass.operation \in {"finalize", "delete"} /\ pass.step = 2
           /\ At("RunCompleted") =>
                 \/ pass.operation = "create" /\ pass.step = 12
                 \/ pass.operation = "finalize" /\ pass.step = 3
           /\ At("ProviderDeleted") => pass.operation = "delete" /\ pass.step = 3
           /\ At("OrphanDeleted") => pass.operation = "ignore" /\ pass.step = 1
           /\ At("CanceledProviderDeleted") => pass.operation = "ignore" /\ pass.step = 2
BY StageAt, PassFields DEF At, Operations

\* Going on: the pass is over or at the next position.
LEMMA NextPosition ==
    ASSUME TypeOK, ~Idle, NEW m \in Resource, Continue(m)
    PROVE  \/ Idle'
           \/ /\ pass.step # Last
              /\ Current' = Current /\ Mem' = m
              /\ pass'.operation = pass.operation /\ pass'.step = pass.step + 1
BY PassFields DEF Continue, Idle, Current, Mem, Passes

\* Writing the status of a resource leaves the rest of it alone.
LEMMA PatchedFields ==
    ASSUME TypeOK, ~Idle, NEW s \in Status, PatchStatus(s)
    PROVE  /\ Current \in Backups /\ cr[Current] \in Resource
           /\ Patched(s) \in Resource /\ Patched(s) # NoBackup
           /\ Patched(s).synced = cr[Current].synced
           /\ Patched(s).finalizer = cr[Current].finalizer
           /\ Patched(s).deleting = cr[Current].deleting
           /\ Patched(s).status = s
           /\ cr'[Current] = Patched(s)
           /\ \A b \in Backups \ {Current} : cr'[b] = cr[b]
<1>1. Current \in Backups /\ cr[Current] \in Resource
    BY PassFields DEF PatchStatus, Present, TypeOK
<1>2. Patched(s) \in Resource /\ Patched(s).status = s
    BY <1>1 DEF Patched, Resource
<1>3. /\ Patched(s).synced = cr[Current].synced
      /\ Patched(s).finalizer = cr[Current].finalizer
      /\ Patched(s).deleting = cr[Current].deleting
    BY <1>1 DEF Patched, Resource
<1>4. Patched(s) # NoBackup
    BY <1>2 DEF Resource, NoBackup
<1>5. cr'[Current] = Patched(s) /\ \A b \in Backups \ {Current} : cr'[b] = cr[b]
    BY <1>1 DEF PatchStatus, TypeOK
<1> QED
    BY <1>1, <1>2, <1>3, <1>4, <1>5

\* A pass that ends leaves nothing to hold.
LEMMA EndKept ==
    ASSUME ~Idle, RetryLater \/ Abort
    PROVE  PassOK'
BY DEF RetryLater, Abort, PassOK, Idle

\* Steps that touch neither resources nor the shared state.
LEMMA StateKept ==
    ASSUME IInv, UNCHANGED <<cr, maintenance, lease, restore>>
    PROVE  ResourcesOK' /\ LeaseOK' /\ RunsUnderMaintenance'
BY DEF IInv, ResourcesOK, LeaseOK, RunsUnderMaintenance, Present, InProgress

\* A status that fits the resource it is written to: a local result comes after
\* the lease, and a run in progress has the lease and the maintenance mode.
Fits(s) ==
    /\ ResourceOK(Patched(s))
    /\ Terminal(Patched(s)) => cr[Current].synced \/ lease # Current
    /\ \/ cr[Current].synced \/ cr[Current].deleting
       \/ ~s.started \/ IsPostProcessing(Patched(s))
       \/ maintenance' /\ lease = Current

\* Writing a status that fits.
LEMMA PatchKept ==
    ASSUME IInv, ~Idle, NEW s \in Status, PatchStatus(s), Fits(s), UNCHANGED <<lease, restore>>,
           maintenance' = maintenance \/ (maintenance' = TRUE /\ lease = Current)
    PROVE  ResourcesOK' /\ LeaseOK' /\ RunsUnderMaintenance'
<1> USE PatchedFields DEF Fits
<1>0. TypeOK
    BY DEF IInv
<1>1. ResourcesOK'
    BY <1>0 DEF IInv, ResourcesOK, Present
<1>2. LeaseOK'
  <2>1. Current \notin {"free", "restore"}
      BY <1>0, BackupAssumption DEF BackupAssumption
  <2>2. /\ restore' \in {"holds", "active", "closing"} <=> lease' = "restore"
        /\ restore' = "active" => maintenance'
        /\ maintenance' => lease' # "free" \/ restore' = "left"
      BY <2>1 DEF IInv, LeaseOK
  <2>3. ASSUME lease' \in Backups
        PROVE  /\ Present(lease)' /\ cr'[lease'].finalizer
               /\ cr'[lease'].synced \/ ~Terminal(cr'[lease'])
    <3>1. lease = lease' /\ Present(lease) /\ cr[lease].finalizer
          /\ (cr[lease].synced \/ ~Terminal(cr[lease]))
        BY <2>3 DEF IInv, LeaseOK
    <3>2. CASE lease = Current
        BY <1>0, <3>1, <3>2 DEF Present
    <3>3. CASE lease # Current
        BY <1>0, <2>3, <3>1, <3>3 DEF Present
    <3> QED
        BY <3>2, <3>3
  <2> QED
      BY <2>2, <2>3 DEF LeaseOK
<1>3. RunsUnderMaintenance'
  <2> SUFFICES ASSUME NEW b \in Backups, InProgress(b)'
               PROVE  maintenance' /\ lease' = b
      BY DEF RunsUnderMaintenance
  <2>1. CASE b = Current
      BY <1>0, <2>1 DEF InProgress
  <2>2. CASE b # Current
    <3>1. InProgress(b)
        BY <1>0, <2>2 DEF InProgress, Present
    <3> QED
        BY <1>0, <2>2, <3>1 DEF IInv, RunsUnderMaintenance
  <2> QED
      BY <2>1, <2>2
<1> QED
    BY <1>1, <1>2, <1>3

\* Going on with the copy m, when m and what is held fit the next position.
LEMMA ContinueKept ==
    ASSUME IInv, ~Idle, NEW m \in Resource, Continue(m),
           SameRun(m, cr'[Current]),
           StageSound(m, pass.operation, pass.step + 1),
           pass.operation = "create" /\ pass.step \in 6 .. 9 => lease' = Current,
           pass.operation = "create" /\ pass.step \in 7 .. 9 => maintenance',
           At("MaintenanceDeactivated") /\ lease' = Current => ~maintenance',
           At("LeaseReleased") => lease' # Current
    PROVE  PassOK'
<1>0. TypeOK
    BY DEF IInv
<1>1. CASE Idle'
    BY <1>1 DEF PassOK
<1>2. CASE ~Idle'
  <2>1. /\ pass.step # Last
        /\ Current' = Current /\ Mem' = m
        /\ pass'.operation = pass.operation /\ pass'.step = pass.step + 1
      BY <1>0, <1>2, NextPosition
  <2>2. pass.step \in Nat
      BY <1>0, PassFields DEF Passes
  <2>3. /\ AtRelease' => At("MaintenanceDeactivated")
        /\ AtEnd' => At("LeaseReleased")
    <3>1. AtRelease' => \/ pass.operation = "create" /\ pass.step = 10
                        \/ pass.operation \in {"finalize", "delete"} /\ pass.step = 1
        BY <2>1, <2>2 DEF AtRelease
    <3>2. AtEnd' => \/ pass.operation = "create" /\ pass.step = 11
                    \/ pass.operation \in {"finalize", "delete"} /\ pass.step = 2
        BY <2>1, <2>2 DEF AtEnd
    <3> QED
        BY <1>0, <3>1, <3>2, StageAt
  <2>4. HoldsSound'
      BY <2>1, <2>2, <2>3 DEF HoldsSound
  <2> QED
      BY <2>1, <2>4 DEF PassOK
<1> QED
    BY <1>1, <1>2

\* Going on with nothing changed.
LEMMA ContinueSame ==
    ASSUME IInv, ~Idle, Continue(Mem), UNCHANGED <<cr, maintenance, lease>>,
           \/ pass.operation = "create" /\ pass.step \in {1, 2, 4, 5, 7, 8}
           \/ pass.operation = "create" /\ pass.step = 3 /\ Mem.finalizer
           \/ pass.operation = "create" /\ pass.step = 6 /\ lease = Current
           \/ pass.operation = "ignore",
           pass.operation = "create" /\ pass.step = 7 => maintenance
    PROVE  PassOK'
<1>1. /\ TypeOK /\ Mem \in Resource /\ pass.step \in Nat /\ SameRun(Mem, cr[Current])
      /\ StageSound(Mem, pass.operation, pass.step) /\ HoldsSound
    BY PassFields DEF IInv, PassOK, Passes
<1>2. StageSound(Mem, pass.operation, pass.step + 1)
    BY <1>1 DEF StageSound
<1>3. ~At("MaintenanceDeactivated") /\ ~At("LeaseReleased")
    BY <1>1, Position
<1>4. /\ pass.operation = "create" /\ pass.step \in 6 .. 9 => lease' = Current
      /\ pass.operation = "create" /\ pass.step \in 7 .. 9 => maintenance'
    BY <1>1 DEF HoldsSound
<1> QED
    BY <1>1, <1>2, <1>3, <1>4, ContinueKept

\* Behind the finalizer the stored resource is the run of the pass.
LEMMA Behind ==
    ASSUME IInv, ~Idle, pass.operation # "create" \/ pass.step > 3 \/ Mem.finalizer
    PROVE  /\ TypeOK /\ Current \in Backups /\ Mem \in Resource /\ Mem.status \in Status
           /\ Mem.finalizer /\ ResourceOK(Mem)
           /\ Present(Current) /\ cr[Current] \in Resource /\ ResourceOK(cr[Current])
           /\ cr[Current].finalizer /\ cr[Current].synced = Mem.synced
           /\ cr[Current].status = Mem.status
           /\ Mem.deleting => cr[Current].deleting
           /\ Terminal(cr[Current]) <=> Terminal(Mem)
           /\ IsPostProcessing(cr[Current]) <=> IsPostProcessing(Mem)
<1>1. /\ TypeOK /\ Current \in Backups /\ Mem \in Resource /\ Mem.status \in Status
      /\ pass.step \in Nat
    BY PassFields DEF IInv, Passes, Resource
<1>2. Mem.finalizer /\ ResourceOK(Mem) /\ SameRun(Mem, cr[Current])
    BY <1>1 DEF IInv, PassOK, StageSound, Resource
<1>3. /\ Present(Current) /\ cr[Current].finalizer /\ cr[Current].synced = Mem.synced
      /\ cr[Current].status = Mem.status
      /\ Mem.deleting => cr[Current].deleting
    BY <1>2 DEF SameRun, Present
<1>4. cr[Current] \in Resource /\ ResourceOK(cr[Current])
    BY <1>1, <1>3 DEF IInv, TypeOK, ResourcesOK, Present
<1> QED
    BY <1>1, <1>2, <1>3, <1>4 DEF Terminal, IsPostProcessing

-------------------------------------------------------------------------------
(* The stages of a pass. *)

\* The stages before the finalizer is certain.
LEMMA SoundBeginning ==
    ASSUME IInv,
           EnsureVeleroStatusSynced \/ EnsureConditionsInitialized \/ EnsureBackupSetup
    PROVE  ResourcesOK' /\ LeaseOK' /\ RunsUnderMaintenance' /\ PassOK'
<1> USE DEF objectVars, veleroVars, sharedVars, syncVars, boundVars
<1>0. TypeOK
    BY DEF IInv
<1>1. CASE EnsureVeleroStatusSynced
  <2>1. /\ ~Idle /\ pass.operation = "create" /\ pass.step = 1
        /\ UNCHANGED <<maintenance, lease, restore>>
      BY <1>0, <1>1, AtStage, Position DEF EnsureVeleroStatusSynced
  <2>2. CASE Continue(Mem) /\ UNCHANGED objectVars
      BY <2>1, <2>2, ContinueSame, StateKept
  <2>3. CASE RetryLater /\ UNCHANGED objectVars
      BY <2>1, <2>3, EndKept, StateKept
  <2>4. CASE Mem.synced /\ (RetryLater \/ Abort)
             /\ \E started \in BOOLEAN :
                   PatchStatus([Mem.status EXCEPT !.provider = SyncOutcome(velero[Current]),
                                                  !.succeeded = SyncOutcome(velero[Current]),
                                                  !.started = started \/ @])
    <3>1. PICK t \in BOOLEAN :
             PatchStatus([Mem.status EXCEPT !.provider = SyncOutcome(velero[Current]),
                                            !.succeeded = SyncOutcome(velero[Current]),
                                            !.started = t \/ @])
        BY <2>4
    <3> DEFINE s == [Mem.status EXCEPT !.provider = SyncOutcome(velero[Current]),
                                       !.succeeded = SyncOutcome(velero[Current]),
                                       !.started = t \/ @]
    <3>2. Mem.finalizer /\ Mem.status.canceled # "True"
        BY <2>1, <2>4 DEF IInv, PassOK, StageSound, ResourceOK
    <3>3. /\ Mem.status \in Status /\ cr[Current].finalizer /\ cr[Current].synced
        BY <2>1, <2>4, <3>2, Behind
    <3>4. s \in Status
        BY <3>3, StatusTypes DEF Milestones
    <3>5. /\ s.succeeded = s.provider /\ s.canceled = Mem.status.canceled
        BY <3>3 DEF Status
    <3>6. ResourceOK(Patched(s))
      <4> HIDE DEF s
      <4> QED
        BY <1>0, <2>1, <3>1, <3>2, <3>3, <3>4, <3>5, PatchedFields
           DEF ResourceOK, Terminal, IsPostProcessing, s
    <3> HIDE DEF s
    <3>7. PatchStatus(s)
        BY <3>1 DEF s
    <3>8. Fits(s)
        BY <3>3, <3>6 DEF Fits
    <3>9. ResourcesOK' /\ LeaseOK' /\ RunsUnderMaintenance'
        BY <2>1, <3>4, <3>7, <3>8, PatchKept
    <3> QED
        BY <2>1, <2>4, <3>9, EndKept
  <2> QED
      BY <1>1, <2>2, <2>3, <2>4 DEF EnsureVeleroStatusSynced
<1>2. CASE EnsureConditionsInitialized
  <2> DEFINE s == Initialized(Mem.status)
  <2>1. /\ ~Idle /\ pass.operation = "create" /\ pass.step = 2
        /\ UNCHANGED <<maintenance, lease, restore>>
        /\ Mem \in Resource /\ Mem.status \in Status /\ s \in Status
      BY <1>0, <1>2, AtStage, Position, StatusTypes DEF EnsureConditionsInitialized
  <2>2. CASE Continue(Mem) /\ UNCHANGED objectVars
      BY <2>1, <2>2, ContinueSame, StateKept
  <2>3. CASE PatchStatus(s) /\ Continue(Patched(s))
    <3>1. /\ ~Terminal(Mem) /\ Mem.status.canceled # "True" /\ ~Resolved(Mem.status.provider)
          /\ ResourceOK(Mem) /\ SameRun(Mem, cr[Current])
        BY <2>1 DEF IInv, PassOK, StageSound
    <3>2. /\ s.started = Mem.status.started
          /\ ~Resolved(s.succeeded) /\ ~Resolved(s.provider) /\ s.canceled # "True"
        BY <2>1, <3>1 DEF Initialized, Status, Resolved, Terminal
    <3> HIDE DEF s
    <3>3. Present(Current) /\ ResourceOK(cr[Current])
        BY <1>0, <2>1, <2>3, PassFields DEF PatchStatus, IInv, ResourcesOK
    <3>4. ~Mem.finalizer => Fresh(s)
        BY <3>1, <3>2 DEF ResourceOK, Fresh
    <3>5. ~cr[Current].finalizer => Fresh(s)
        BY <3>1, <3>3, <3>4 DEF SameRun
    <3>6. ResourceOK(Patched(s)) /\ ~Terminal(Patched(s))
        BY <1>0, <2>1, <2>3, <3>2, <3>3, <3>5, PatchedFields DEF ResourceOK, Terminal
    <3>7. Fits(s)
      <4> SUFFICES ASSUME ~cr[Current].synced, ~cr[Current].deleting, s.started
                   PROVE  maintenance /\ lease = Current
          BY <2>1, <3>6 DEF Fits
      <4>1. Mem.finalizer
          BY <3>4 DEF Fresh
      <4>2. cr[Current].status = Mem.status /\ Current \in Backups
          BY <2>1, <4>1, Behind
      <4>3. InProgress(Current)
          BY <3>1, <3>2, <3>3, <4>2 DEF InProgress, IsPostProcessing
      <4> QED
          BY <4>2, <4>3 DEF IInv, RunsUnderMaintenance
    <3>8. /\ SameRun(Patched(s), cr'[Current])
          /\ StageSound(Patched(s), pass.operation, pass.step + 1)
          /\ Patched(s) \in Resource
        BY <1>0, <2>1, <2>3, <3>2, <3>5, <3>6, PatchedFields DEF SameRun, StageSound
    <3>9. PassOK'
        BY <1>0, <2>1, <2>3, <3>8, Position, ContinueKept
    <3>10. ResourcesOK' /\ LeaseOK' /\ RunsUnderMaintenance'
        BY <2>1, <2>3, <3>7, PatchKept DEF s
    <3> QED
        BY <3>9, <3>10
  <2> QED
      BY <1>2, <2>2, <2>3 DEF EnsureConditionsInitialized
<1>3. CASE EnsureBackupSetup
  <2>1. /\ ~Idle /\ pass.operation = "create" /\ pass.step = 3
        /\ UNCHANGED <<maintenance, lease, restore>>
        /\ Current \in Backups /\ Mem \in Resource /\ Present(Current)
      BY <1>0, <1>3, AtStage, Position DEF EnsureBackupSetup
  <2>2. CASE Mem.finalizer /\ Continue(Mem) /\ UNCHANGED cr
      BY <2>1, <2>2, ContinueSame, StateKept
  <2>3. CASE RetryLater /\ UNCHANGED cr
      BY <2>1, <2>3, EndKept, StateKept
  <2>4. CASE /\ ~Mem.finalizer /\ cr[Current] = Mem
             /\ cr' = [cr EXCEPT ![Current] = [Mem EXCEPT !.finalizer = TRUE]]
             /\ Continue([Mem EXCEPT !.finalizer = TRUE])
    <3> DEFINE m == [Mem EXCEPT !.finalizer = TRUE]
    <3>1. /\ m \in Resource /\ m # NoBackup /\ m.finalizer /\ m.synced = Mem.synced
          /\ m.deleting = Mem.deleting /\ m.status = Mem.status
        BY <2>1 DEF Resource, NoBackup
    <3>2. cr'[Current] = m /\ \A b \in Backups \ {Current} : cr'[b] = cr[b]
        BY <1>0, <2>1, <2>4 DEF TypeOK
    <3>3. /\ ResourceOK(Mem) /\ StageSound(Mem, "create", 3) /\ Fresh(Mem.status)
        BY <2>1, <2>4 DEF IInv, PassOK, StageSound, ResourceOK
    <3> HIDE DEF m
    <3>4. ResourceOK(m) /\ StageSound(m, "create", 4)
        BY <3>1, <3>3 DEF ResourceOK, StageSound, Terminal, IsPostProcessing
    <3>5. SameRun(m, cr'[Current])
        BY <3>1, <3>2 DEF SameRun
    <3>6. PassOK'
      <4>1. ~At("MaintenanceDeactivated") /\ ~At("LeaseReleased")
          BY <1>0, <2>1, Position
      <4>2. Continue(m)
          BY <2>4 DEF m
      <4>3. StageSound(m, pass.operation, pass.step + 1)
          BY <2>1, <3>4
      <4> QED
          BY <2>1, <3>1, <3>5, <4>1, <4>2, <4>3, ContinueKept
    <3>7. ResourcesOK'
        BY <3>2, <3>4 DEF IInv, ResourcesOK, Present
    <3>8. LeaseOK'
      <4>1. lease \in Backups => lease # Current
          BY <2>4 DEF IInv, LeaseOK
      <4> QED
          BY <2>1, <3>2, <4>1 DEF IInv, LeaseOK, Present
    <3>9. RunsUnderMaintenance'
      <4> SUFFICES ASSUME NEW b \in Backups, InProgress(b)'
                   PROVE  maintenance' /\ lease' = b
          BY DEF RunsUnderMaintenance
      <4>1. b # Current
          BY <3>1, <3>2, <3>3 DEF InProgress, Fresh
      <4>2. InProgress(b)
          BY <3>2, <4>1 DEF InProgress, Present
      <4> QED
          BY <2>1, <4>2 DEF IInv, RunsUnderMaintenance
    <3> QED
        BY <3>6, <3>7, <3>8, <3>9
  <2> QED
      BY <1>3, <2>2, <2>3, <2>4 DEF EnsureBackupSetup
<1> QED
    BY <1>1, <1>2, <1>3

\* The time window, the provider and the lease.
LEMMA SoundPreparing ==
    ASSUME IInv,
           \/ EnsureBackupIsCanceledAfterTimeWindowExpired
           \/ EnsureBackupIsPrepared \/ EnsureActiveBackupLease
    PROVE  ResourcesOK' /\ LeaseOK' /\ RunsUnderMaintenance' /\ PassOK'
<1> USE DEF objectVars, veleroVars, sharedVars, syncVars, boundVars
<1>0. TypeOK
    BY DEF IInv
<1>1. CASE EnsureBackupIsCanceledAfterTimeWindowExpired
  <2>1. /\ ~Idle /\ pass.operation = "create" /\ pass.step = 4
        /\ UNCHANGED <<maintenance, lease, restore>>
      BY <1>0, <1>1, AtStage, Position DEF EnsureBackupIsCanceledAfterTimeWindowExpired
  <2>2. /\ Mem.status \in Status /\ ~Terminal(Mem) /\ ~Resolved(Mem.status.provider)
        /\ cr[Current].finalizer /\ cr[Current].status = Mem.status
        /\ Present(Current) /\ Current \in Backups /\ ~Terminal(cr[Current])
        /\ ~IsPostProcessing(cr[Current])
      BY <2>1, Behind DEF IInv, PassOK, StageSound, IsPostProcessing
  <2>3. ASSUME NEW value \in {"True", "False"}, PatchStatus(WithCanceled(value))
        PROVE  /\ WithCanceled(value) \in Status
               /\ WithCanceled(value).canceled = value
               /\ ResourceOK(Patched(WithCanceled(value)))
               /\ ~Terminal(Patched(WithCanceled(value)))
               /\ ResourcesOK' /\ LeaseOK' /\ RunsUnderMaintenance'
    <3> DEFINE s == WithCanceled(value)
    <3>1. /\ s \in Status /\ s.canceled = value /\ s.started = Mem.status.started
          /\ s.provider = Mem.status.provider /\ s.succeeded = Mem.status.succeeded
        BY <2>2 DEF WithCanceled, Status
    <3>2. PatchStatus(s)
        BY <2>3
    <3> HIDE DEF s
    <3>3. ResourceOK(Patched(s)) /\ ~Terminal(Patched(s))
        BY <1>0, <2>1, <2>2, <3>1, <3>2, PatchedFields
           DEF ResourceOK, Terminal, IsPostProcessing, Resolved
    <3>4. Fits(s)
      <4> SUFFICES ASSUME ~cr[Current].synced, ~cr[Current].deleting, s.started
                   PROVE  maintenance /\ lease = Current
          BY <2>1, <3>3 DEF Fits
      <4>1. InProgress(Current)
          BY <2>2, <3>1 DEF InProgress
      <4> QED
          BY <2>2, <4>1 DEF IInv, RunsUnderMaintenance
    <3>5. ResourcesOK' /\ LeaseOK' /\ RunsUnderMaintenance'
        BY <2>1, <3>1, <3>2, <3>4, PatchKept
    <3> QED
        BY <3>1, <3>3, <3>5 DEF s
  <2>4. CASE PatchStatus(WithCanceled("True")) /\ RetryLater
      BY <2>1, <2>3, <2>4, EndKept
  <2>5. CASE PatchStatus(WithCanceled("False")) /\ Continue(Patched(WithCanceled("False")))
    <3> DEFINE s == WithCanceled("False")
    <3>1. /\ s \in Status /\ s.canceled = "False" /\ s.provider = Mem.status.provider
          /\ ResourceOK(Patched(s)) /\ ~Terminal(Patched(s)) /\ PatchStatus(s)
        BY <2>2, <2>3, <2>5 DEF WithCanceled, Status
    <3>2. Continue(Patched(s))
        BY <2>5
    <3> HIDE DEF s
    <3>3. /\ SameRun(Patched(s), cr'[Current])
          /\ StageSound(Patched(s), pass.operation, pass.step + 1)
          /\ Patched(s) \in Resource
      <4>1. /\ Patched(s) \in Resource /\ Patched(s) # NoBackup
            /\ Patched(s).finalizer /\ Patched(s).status = s /\ cr'[Current] = Patched(s)
          BY <1>0, <2>1, <2>2, <3>1, PatchedFields
      <4>2. ~Resolved(s.provider)
          BY <2>2, <3>1
      <4> QED
          BY <2>1, <3>1, <4>1, <4>2 DEF SameRun, StageSound
    <3>4. PassOK'
        BY <1>0, <2>1, <3>2, <3>3, Position, ContinueKept
    <3> QED
        BY <2>3, <2>5, <3>4
  <2> QED
      BY <1>1, <2>4, <2>5 DEF EnsureBackupIsCanceledAfterTimeWindowExpired
<1>2. CASE EnsureBackupIsPrepared
  <2>1. /\ ~Idle /\ pass.operation = "create" /\ pass.step = 5
        /\ UNCHANGED <<cr, maintenance, lease, restore>>
      BY <1>0, <1>2, AtStage, Position DEF EnsureBackupIsPrepared
  <2>2. ResourcesOK' /\ LeaseOK' /\ RunsUnderMaintenance'
      BY <2>1, StateKept
  <2>3. CASE Continue(Mem)
      BY <2>1, <2>2, <2>3, ContinueSame
  <2>4. CASE RetryLater
      BY <2>1, <2>2, <2>4, EndKept
  <2>5. CASE Continue(cr[Current])
    <3>1. /\ StageSound(Mem, pass.operation, pass.step)
          /\ cr[Current] \in Resource /\ ResourceOK(cr[Current]) /\ cr[Current].finalizer
          /\ cr[Current].status = Mem.status /\ Present(Current)
          /\ ~Terminal(cr[Current])
        BY <2>1, Behind DEF IInv, PassOK, StageSound
    <3>2. SameRun(cr[Current], cr[Current]) /\ StageSound(cr[Current], "create", 6)
        BY <2>1, <3>1 DEF SameRun, StageSound, Present
    <3>3. PassOK'
        BY <1>0, <2>1, <2>5, <3>1, <3>2, Position, ContinueKept
    <3> QED
        BY <2>2, <3>3
  <2> QED
      BY <1>2, <2>3, <2>4, <2>5 DEF EnsureBackupIsPrepared
<1>3. CASE EnsureActiveBackupLease
  <2>1. /\ ~Idle /\ pass.operation = "create" /\ pass.step = 6
        /\ UNCHANGED <<cr, maintenance, restore>>
      BY <1>0, <1>3, AtStage, Position DEF EnsureActiveBackupLease
  <2>2. CASE lease = Current /\ Continue(Mem) /\ UNCHANGED lease
      BY <2>1, <2>2, ContinueSame, StateKept
  <2>3. CASE RetryLater /\ UNCHANGED lease
      BY <2>1, <2>3, EndKept, StateKept
  <2>4. CASE RetryLater /\ lease' = Current /\ (lease = "free" \/ HolderOver)
    <3>1. /\ Current \in Backups /\ Present(Current) /\ cr[Current].finalizer
          /\ ~Terminal(cr[Current])
        BY <2>1, Behind DEF IInv, PassOK, StageSound
    <3>2. {"free", "restore"} \cap Backups = {}
        BY BackupAssumption DEF BackupAssumption
    <3>3. LeaseOK'
        BY <2>1, <2>4, <3>1, <3>2 DEF IInv, LeaseOK, HolderOver, Present
    <3>4. \A b \in Backups : ~InProgress(b)
      <4> SUFFICES ASSUME NEW b \in Backups, InProgress(b)
                   PROVE  FALSE
          OBVIOUS
      <4>1. lease = b
          BY DEF IInv, RunsUnderMaintenance
      <4>2. ~Terminal(cr[b])
          BY DEF InProgress, IInv, ResourcesOK, ResourceOK
      <4> QED
          BY <2>4, <3>2, <4>1, <4>2 DEF HolderOver, InProgress
    <3>5. ResourcesOK' /\ RunsUnderMaintenance'
        BY <2>1, <3>4 DEF IInv, ResourcesOK, RunsUnderMaintenance, Present, InProgress
    <3> QED
        BY <2>1, <2>4, <3>3, <3>5, EndKept
  <2> QED
      BY <1>3, <2>2, <2>3, <2>4 DEF EnsureActiveBackupLease
<1> QED
    BY <1>1, <1>2, <1>3

\* The maintenance mode and the backup of the provider.
LEMMA SoundRunning ==
    ASSUME IInv,
           EnsureMaintenanceActivated \/ EnsureProviderBackupCreated \/
           EnsureProviderBackupCompleted
    PROVE  ResourcesOK' /\ LeaseOK' /\ RunsUnderMaintenance' /\ PassOK'
<1> USE DEF objectVars, veleroVars, sharedVars, syncVars, boundVars
<1>0. TypeOK /\ {"free", "restore"} \cap Backups = {}
    BY BackupAssumption DEF IInv, BackupAssumption
<1>1. ASSUME ~Idle, pass.operation = "create", pass.step \in 7 .. 9
      PROVE  /\ Current \in Backups /\ lease = Current
             /\ pass.step >= 8 => maintenance
             /\ Mem.status \in Status /\ ~Resolved(Mem.status.succeeded)
             /\ Mem.status.canceled # "True" /\ ~Resolved(Mem.status.provider)
             /\ Present(Current) /\ cr[Current].finalizer /\ cr[Current].status = Mem.status
    BY <1>1, Behind DEF IInv, PassOK, StageSound, HoldsSound, Terminal
<1>2. ASSUME ~Idle, NEW s \in Status, PatchStatus(s), cr[Current].finalizer,
             ~Resolved(s.succeeded), s.canceled # "True"
      PROVE  ResourceOK(Patched(s)) /\ ~Terminal(Patched(s))
    BY <1>0, <1>2, PatchedFields DEF ResourceOK, Terminal
<1>3. CASE EnsureMaintenanceActivated
  <2> DEFINE s == [Mem.status EXCEPT !.succeeded = "Unknown"]
  <2>1. ~Idle /\ pass.operation = "create" /\ pass.step = 7 /\ UNCHANGED <<lease, restore>>
      BY <1>0, <1>3, AtStage, Position DEF EnsureMaintenanceActivated
  <2>2. CASE maintenance /\ Continue(Mem) /\ UNCHANGED <<cr, maintenance>>
      BY <2>1, <2>2, ContinueSame, StateKept
  <2>3. CASE maintenance' = TRUE /\ PatchStatus(s) /\ RetryLater
    <3>1. s \in Status /\ ~Resolved(s.succeeded) /\ s.canceled # "True"
        BY <1>1, <2>1 DEF Status, Milestones, Resolved
    <3>2. PatchStatus(s)
        BY <2>3
    <3> HIDE DEF s
    <3>3. Fits(s)
        BY <1>1, <1>2, <2>1, <2>3, <3>1, <3>2 DEF Fits
    <3>4. ResourcesOK' /\ LeaseOK' /\ RunsUnderMaintenance'
        BY <1>1, <2>1, <2>3, <3>1, <3>2, <3>3, PatchKept
    <3> QED
        BY <2>1, <2>3, <3>4, EndKept
  <2>4. CASE maintenance' = TRUE /\ RetryLater /\ UNCHANGED cr
    <3>1. ResourcesOK' /\ RunsUnderMaintenance'
        BY <2>1, <2>4 DEF IInv, ResourcesOK, RunsUnderMaintenance, Present, InProgress
    <3>2. LeaseOK'
        BY <1>0, <1>1, <2>1, <2>4 DEF IInv, LeaseOK, Present
    <3> QED
        BY <2>1, <2>4, <3>1, <3>2, EndKept
  <2> QED
      BY <1>3, <2>2, <2>3, <2>4 DEF EnsureMaintenanceActivated, CallFails
<1>4. CASE EnsureProviderBackupCreated
  <2> DEFINE s == [Mem.status EXCEPT !.succeeded = "Unknown", !.started = TRUE]
  <2>1. /\ ~Idle /\ pass.operation = "create" /\ pass.step = 8
        /\ UNCHANGED <<maintenance, lease, restore>>
      BY <1>0, <1>4, AtStage, Position DEF EnsureProviderBackupCreated
  <2>2. CASE Continue(Mem) /\ UNCHANGED cr
      BY <2>1, <2>2, ContinueSame, StateKept
  <2>3. CASE PatchStatus(s) /\ RetryLater
    <3>1. s \in Status /\ ~Resolved(s.succeeded) /\ s.canceled # "True"
      <4>1. Mem.status \in Status /\ Mem.status.canceled # "True"
          BY <1>1, <2>1
      <4>2. s \in Status
          BY <4>1, StatusTypes
      <4>3. s.succeeded = "Unknown" /\ s.canceled = Mem.status.canceled
          BY <4>1 DEF Status
      <4> QED
          BY <4>1, <4>2, <4>3 DEF Resolved
    <3>2. PatchStatus(s)
        BY <2>3
    <3> HIDE DEF s
    <3>3. Fits(s)
        BY <1>1, <1>2, <2>1, <3>1, <3>2 DEF Fits
    <3>4. ResourcesOK' /\ LeaseOK' /\ RunsUnderMaintenance'
        BY <2>1, <3>1, <3>2, <3>3, PatchKept
    <3> QED
        BY <2>1, <2>3, <3>4, EndKept
  <2>4. CASE RetryLater /\ UNCHANGED cr
      BY <2>1, <2>4, EndKept, StateKept
  <2> QED
      BY <1>4, <2>2, <2>3, <2>4 DEF EnsureProviderBackupCreated, CallFails
<1>5. CASE EnsureProviderBackupCompleted
  <2>1. /\ ~Idle /\ pass.operation = "create" /\ pass.step = 9
        /\ UNCHANGED <<maintenance, lease, restore>>
      BY <1>0, <1>5, AtStage, Position DEF EnsureProviderBackupCompleted
  <2>2. CASE RetryLater /\ UNCHANGED cr
      BY <2>1, <2>2, EndKept, StateKept
  <2>3. ASSUME NEW v \in {"True", "False", "Unknown"}, PatchStatus(WithProvider(v))
        PROVE  /\ ResourcesOK' /\ LeaseOK' /\ RunsUnderMaintenance'
               /\ v # "Unknown" /\ Continue(Patched(WithProvider(v))) => PassOK'
    <3> DEFINE s == WithProvider(v)
    <3>1. /\ s \in Status /\ ~Resolved(s.succeeded) /\ s.canceled # "True"
          /\ s.provider = v
        BY <1>1, <2>1 DEF WithProvider, Status, Milestones
    <3>2. PatchStatus(s)
        BY <2>3
    <3> HIDE DEF s
    <3>3. Fits(s) /\ ResourceOK(Patched(s)) /\ ~Terminal(Patched(s))
        BY <1>1, <1>2, <2>1, <3>1, <3>2 DEF Fits
    <3>4. ResourcesOK' /\ LeaseOK' /\ RunsUnderMaintenance'
        BY <2>1, <3>1, <3>2, <3>3, PatchKept
    <3>5. ASSUME v # "Unknown", Continue(Patched(s))
          PROVE  PassOK'
      <4>1. /\ Patched(s) \in Resource /\ Patched(s) # NoBackup
            /\ Patched(s).finalizer /\ Patched(s).status = s /\ cr'[Current] = Patched(s)
          BY <1>0, <1>1, <2>1, <3>1, <3>2, PatchedFields
      <4>2. Resolved(s.provider)
          BY <3>1, <3>5 DEF Resolved
      <4>3. /\ SameRun(Patched(s), cr'[Current])
            /\ StageSound(Patched(s), pass.operation, pass.step + 1)
          BY <2>1, <3>1, <3>3, <4>1, <4>2 DEF SameRun, StageSound
      <4> QED
          BY <1>0, <1>1, <2>1, <3>5, <4>1, <4>3, Position, ContinueKept
    <3> QED
        BY <3>4, <3>5 DEF s
  <2>4. CASE PatchStatus(WithProvider("Unknown")) /\ RetryLater
      BY <2>1, <2>3, <2>4, EndKept
  <2>5. ASSUME NEW phase \in {"completed", "failed"},
               PatchStatus(WithProvider(SyncOutcome(phase))),
               Continue(Patched(WithProvider(SyncOutcome(phase))))
        PROVE  ResourcesOK' /\ LeaseOK' /\ RunsUnderMaintenance' /\ PassOK'
    <3>1. SyncOutcome(phase) \in {"True", "False"} /\ SyncOutcome(phase) # "Unknown"
        BY DEF SyncOutcome
    <3> QED
        BY <2>3, <2>5, <3>1
  <2> QED
      BY <1>5, <2>2, <2>4, <2>5 DEF EnsureProviderBackupCompleted
<1> QED
    BY <1>3, <1>4, <1>5

\* The clean-up: what a run or a deletion held is given back.
LEMMA SoundCleanup ==
    ASSUME IInv,
           EnsureMaintenanceDeactivated \/ EnsureBackupLeaseReleased
    PROVE  ResourcesOK' /\ LeaseOK' /\ RunsUnderMaintenance' /\ PassOK'
<1> USE DEF objectVars, veleroVars, sharedVars, syncVars, boundVars
<1>0. TypeOK /\ {"free", "restore"} \cap Backups = {}
    BY BackupAssumption DEF IInv, BackupAssumption
<1>1. /\ ~Idle /\ UNCHANGED <<cr, restore>>
      /\ \/ pass.operation = "create" /\ pass.step \in {10, 11}
         \/ pass.operation \in {"finalize", "delete"} /\ pass.step \in {1, 2}
    BY <1>0, AtStage, Position DEF EnsureMaintenanceDeactivated, EnsureBackupLeaseReleased
<1>2. /\ Current \in Backups /\ Mem \in Resource /\ SameRun(Mem, cr[Current])
      /\ StageSound(Mem, pass.operation, pass.step) /\ HoldsSound
      /\ Mem.finalizer
      /\ Mem.deleting => cr[Current].deleting
      /\ IsPostProcessing(Mem) => IsPostProcessing(cr[Current])
    BY <1>1, Behind DEF IInv, PassOK
<1>3. StageSound(Mem, pass.operation, pass.step + 1)
    BY <1>1, <1>2 DEF StageSound
<1>4. ASSUME IsPostProcessing(Mem) \/ Mem.deleting, lease = Current, NEW b \in Backups
      PROVE  ~InProgress(b)
    BY <1>2, <1>4 DEF IInv, RunsUnderMaintenance, InProgress
<1>5. ResourcesOK'
    BY <1>1 DEF IInv, ResourcesOK, Present
<1>6. CASE RetryLater /\ UNCHANGED <<maintenance, lease>>
    BY <1>1, <1>6, EndKept, StateKept
<1>7. CASE /\ At("MaintenanceDeactivated")
           /\ IsPostProcessing(Mem) \/ Mem.deleting
           /\ maintenance' = IF lease = Current THEN FALSE ELSE maintenance
           /\ Continue(Mem) /\ UNCHANGED lease
  <2>1. RunsUnderMaintenance'
      BY <1>1, <1>4, <1>7 DEF IInv, RunsUnderMaintenance, InProgress, Present
  <2>2. LeaseOK'
      BY <1>0, <1>1, <1>2, <1>7 DEF IInv, LeaseOK, Present
  <2>3. PassOK'
    <3>1. pass.operation = "create" => pass.step = 10
        BY <1>0, <1>1, <1>7, Position
    <3> QED
        BY <1>0, <1>1, <1>2, <1>3, <1>7, <3>1, Position, ContinueKept
  <2> QED
      BY <1>5, <2>1, <2>2, <2>3
<1>8. CASE /\ At("LeaseReleased")
           /\ IsPostProcessing(Mem) \/ Mem.deleting
           /\ lease' = IF lease = Current THEN "free" ELSE lease
           /\ Continue(Mem) /\ UNCHANGED maintenance
  <2>1. AtRelease /\ ~At("MaintenanceDeactivated") /\ (pass.operation = "create" => pass.step = 11)
      BY <1>0, <1>1, <1>8, Position DEF AtRelease
  <2>2. RunsUnderMaintenance'
      BY <1>1, <1>4, <1>8 DEF IInv, RunsUnderMaintenance, InProgress, Present
  <2>3. LeaseOK'
      BY <1>0, <1>1, <1>2, <1>8, <2>1 DEF IInv, LeaseOK, Present, HoldsSound
  <2>4. PassOK'
      BY <1>0, <1>1, <1>2, <1>3, <1>8, <2>1, ContinueKept
  <2> QED
      BY <1>5, <2>2, <2>3, <2>4
<1> QED
    BY <1>6, <1>7, <1>8 DEF EnsureMaintenanceDeactivated, EnsureBackupLeaseReleased

-------------------------------------------------------------------------------
(* What others do to the resources. *)

\* What anybody but the writer of the status does to a resource: mark it, or
\* remove or replace it while it has no finalizer.
Touched(b) ==
    \/ cr'[b] = cr[b]
    \/ /\ Present(b) /\ cr[b].finalizer
       /\ cr'[b] = [cr[b] EXCEPT !.deleting = TRUE]
    \/ /\ ~Present(b) \/ ~cr[b].finalizer
       /\ cr'[b] \in {NoBackup, LocalBackup, SyncedBackup}

\* Deleting a resource is one of them.
LEMMA DeletedTouches ==
    ASSUME TypeOK, NEW b \in Backups, cr' = [cr EXCEPT ![b] = Deleted(b)]
    PROVE  \A c \in Backups : Touched(c)
<1>1. cr'[b] = Deleted(b) /\ \A c \in Backups \ {b} : cr'[c] = cr[c]
    BY DEF TypeOK
<1>2. Touched(b)
    BY <1>1 DEF Touched, Deleted
<1> QED
    BY <1>1, <1>2 DEF Touched

\* The resource left by such a step.
LEMMA TouchedFields ==
    ASSUME IInv, NEW b \in Backups, Touched(b), cr'[b] # NoBackup
    PROVE  /\ ResourceOK(cr'[b])
           /\ \/ /\ Present(b) /\ cr'[b].status = cr[b].status
                 /\ cr'[b].finalizer = cr[b].finalizer /\ cr'[b].synced = cr[b].synced
                 /\ cr[b].deleting => cr'[b].deleting
              \/ /\ ~Present(b) \/ ~cr[b].finalizer
                 /\ Fresh(cr'[b].status)
<1>1. CASE cr'[b] = cr[b]
    BY <1>1 DEF IInv, ResourcesOK, Present
<1>2. CASE /\ Present(b) /\ cr[b].finalizer
           /\ cr'[b] = [cr[b] EXCEPT !.deleting = TRUE]
  <2>1. cr[b] \in Resource /\ ResourceOK(cr[b])
      BY <1>2 DEF IInv, TypeOK, ResourcesOK, Present
  <2>2. /\ cr'[b].status = cr[b].status /\ cr'[b].finalizer = cr[b].finalizer
        /\ cr'[b].synced = cr[b].synced /\ cr'[b].deleting
      BY <1>2, <2>1 DEF Resource
  <2>3. ResourceOK(cr'[b])
      BY <1>2, <2>1, <2>2 DEF ResourceOK, Terminal, IsPostProcessing
  <2> QED
      BY <1>2, <2>2, <2>3
<1>3. CASE /\ ~Present(b) \/ ~cr[b].finalizer
           /\ cr'[b] \in {NoBackup, LocalBackup, SyncedBackup}
  <2>1. /\ cr'[b].status = EmptyStatus
        /\ cr'[b].finalizer \/ (~cr'[b].synced /\ ~cr'[b].deleting)
      BY <1>3 DEF LocalBackup, SyncedBackup
  <2>2. ResourceOK(cr'[b]) /\ Fresh(cr'[b].status)
      BY <2>1 DEF EmptyStatus, ResourceOK, Fresh, Resolved, Terminal, IsPostProcessing
  <2> QED
      BY <1>3, <2>2
<1> QED
    BY <1>1, <1>2, <1>3 DEF Touched

\* Such steps keep the invariant, and they keep the pass what it may rely on.
LEMMA TouchedKept ==
    ASSUME IInv, \A b \in Backups : Touched(b), UNCHANGED <<maintenance, lease, restore>>
    PROVE  /\ ResourcesOK' /\ LeaseOK' /\ RunsUnderMaintenance'
           /\ UNCHANGED pass => PassOK'
<1>1. ResourcesOK'
    BY TouchedFields DEF ResourcesOK, Present
<1>2. LeaseOK'
  <2>1. ASSUME lease \in Backups
        PROVE  /\ cr'[lease] # NoBackup /\ cr'[lease].finalizer
               /\ cr'[lease].synced \/ ~Terminal(cr'[lease])
    <3>1. Present(lease) /\ cr[lease].finalizer /\ (cr[lease].synced \/ ~Terminal(cr[lease]))
        BY <2>1 DEF IInv, LeaseOK
    <3>2. cr[lease] \in Resource
        BY <2>1, <3>1 DEF IInv, TypeOK, Present
    <3>3. \/ cr'[lease] = cr[lease]
          \/ cr'[lease] = [cr[lease] EXCEPT !.deleting = TRUE]
        BY <2>1, <3>1 DEF Touched
    <3>4. cr'[lease] \in Resource
        BY <3>2, <3>3 DEF Resource
    <3>5. /\ cr'[lease] # NoBackup /\ cr'[lease].finalizer
          /\ cr'[lease].synced = cr[lease].synced /\ cr'[lease].status = cr[lease].status
        BY <3>1, <3>2, <3>3, <3>4 DEF Resource, NoBackup
    <3> QED
        BY <3>1, <3>5 DEF Terminal
  <2> QED
      BY <2>1 DEF IInv, LeaseOK, Present
<1>3. RunsUnderMaintenance'
  <2> SUFFICES ASSUME NEW b \in Backups, InProgress(b)'
               PROVE  maintenance' /\ lease' = b
      BY DEF RunsUnderMaintenance
  <2>1. cr'[b] # NoBackup /\ ~cr'[b].synced /\ ~cr'[b].deleting /\ cr'[b].status.started
        /\ ~IsPostProcessing(cr'[b])
      BY DEF InProgress, Present
  <2>2. /\ Present(b) /\ cr'[b].status = cr[b].status /\ cr'[b].synced = cr[b].synced
        /\ cr[b].deleting => cr'[b].deleting
      BY <2>1, TouchedFields DEF Fresh
  <2>3. InProgress(b)
      BY <2>1, <2>2 DEF InProgress, IsPostProcessing
  <2> QED
      BY <2>3 DEF IInv, RunsUnderMaintenance
<1>4. ASSUME UNCHANGED pass, ~Idle
      PROVE  SameRun(Mem, cr'[Current])
  <2>1. Current \in Backups /\ SameRun(Mem, cr[Current])
      BY <1>4, PassFields DEF IInv, PassOK
  <2>2. CASE Mem.finalizer
    <3>1. /\ Present(Current) /\ cr[Current].finalizer /\ cr[Current] \in Resource
        BY <1>4, <2>2, Behind
    <3>2. \/ cr'[Current] = cr[Current]
          \/ cr'[Current] = [cr[Current] EXCEPT !.deleting = TRUE]
        BY <2>1, <3>1 DEF Touched
    <3>3. cr'[Current] \in Resource
        BY <3>1, <3>2 DEF Resource
    <3>4. /\ cr'[Current] # NoBackup /\ cr'[Current].finalizer
          /\ cr'[Current].synced = cr[Current].synced
          /\ cr'[Current].status = cr[Current].status
          /\ cr[Current].deleting => cr'[Current].deleting
        BY <3>1, <3>2, <3>3 DEF Resource, NoBackup
    <3> QED
        BY <2>1, <2>2, <3>4 DEF SameRun
  <2>3. CASE ~Mem.finalizer
      BY <2>1, <2>3, TouchedFields DEF SameRun, Present
  <2> QED
      BY <2>2, <2>3
<1>5. UNCHANGED pass => PassOK'
  <2> SUFFICES ASSUME UNCHANGED pass, ~Idle
               PROVE  SameRun(Mem, cr'[Current]) /\ StageSound(Mem, pass.operation, pass.step)
                      /\ HoldsSound'
      BY DEF PassOK, Idle, Mem, Current
  <2>1. HoldsSound'
      BY DEF IInv, PassOK, HoldsSound, AtRelease, AtEnd, Current
  <2> QED
      BY <1>4, <2>1 DEF IInv, PassOK
<1> QED
    BY <1>1, <1>2, <1>3, <1>5

-------------------------------------------------------------------------------
(* The last stages, and how passes begin and end. *)

\* The result of a run and the visits of a finished one.
LEMMA SoundEnding ==
    ASSUME IInv,
           \/ EnsureBackupRunCompleted \/ EnsureOrphanedBackupDeleted
           \/ EnsureCanceledProviderBackupDeleted \/ EnsureProviderBackupDeleted
    PROVE  ResourcesOK' /\ LeaseOK' /\ RunsUnderMaintenance' /\ PassOK'
<1> USE DEF objectVars, veleroVars, sharedVars, syncVars, boundVars
<1>0. TypeOK
    BY DEF IInv
<1>1. CASE EnsureBackupRunCompleted
  <2> DEFINE s == [Mem.status EXCEPT !.succeeded = Outcome(Mem.status)]
  <2>1. /\ ~Idle /\ UNCHANGED <<maintenance, lease, restore>> /\ lease # Current
        /\ \/ pass.operation = "create" /\ pass.step = 12
           \/ pass.operation = "finalize" /\ pass.step = 3
      BY <1>0, <1>1, AtStage, Position
         DEF EnsureBackupRunCompleted, IInv, PassOK, HoldsSound, AtEnd
  <2>2. CASE RetryLater /\ UNCHANGED cr
      BY <2>1, <2>2, EndKept, StateKept
  <2>3. CASE IsPostProcessing(Mem) /\ PatchStatus(s) /\ (RetryLater \/ Abort)
    <3>1. /\ Mem.status \in Status /\ cr[Current].finalizer
          /\ Mem.status.canceled = "True" => Mem.status.provider # "True"
        BY <2>1, Behind DEF ResourceOK
    <3>2. s \in Status
        BY <3>1, StatusTypes DEF Milestones
    <3>3. /\ s.provider = Mem.status.provider /\ s.canceled = Mem.status.canceled
          /\ s.succeeded = Outcome(Mem.status)
        BY <3>1 DEF Status
    <3>4. PatchStatus(s)
        BY <2>3
    <3> HIDE DEF s
    <3>5. IsPostProcessing(Patched(s)) /\ ResourceOK(Patched(s))
        BY <1>0, <2>1, <2>3, <3>1, <3>2, <3>3, <3>4, PatchedFields
           DEF ResourceOK, IsPostProcessing, Outcome
    <3>6. Fits(s)
        BY <2>1, <3>5 DEF Fits
    <3>7. ResourcesOK' /\ LeaseOK' /\ RunsUnderMaintenance'
        BY <2>1, <3>2, <3>4, <3>6, PatchKept
    <3> QED
        BY <2>1, <2>3, <3>7, EndKept
  <2> QED
      BY <1>1, <2>2, <2>3 DEF EnsureBackupRunCompleted
<1>2. CASE EnsureOrphanedBackupDeleted
  <2>1. /\ ~Idle /\ Current \in Backups /\ pass.operation = "ignore"
        /\ UNCHANGED <<maintenance, lease, restore>>
      BY <1>0, <1>2, AtStage, Position DEF EnsureOrphanedBackupDeleted
  <2>2. CASE Continue(Mem) /\ UNCHANGED objectVars
      BY <2>1, <2>2, ContinueSame, StateKept
  <2>3. CASE cr' = [cr EXCEPT ![Current] = Deleted(Current)] /\ RetryLater
      BY <1>0, <2>1, <2>3, DeletedTouches, TouchedKept, EndKept
  <2> QED
      BY <1>2, <2>2, <2>3 DEF EnsureOrphanedBackupDeleted
<1>3. CASE EnsureCanceledProviderBackupDeleted
  <2>1. /\ ~Idle /\ pass.operation = "ignore"
        /\ UNCHANGED <<cr, maintenance, lease, restore>>
      BY <1>0, <1>3, AtStage, Position DEF EnsureCanceledProviderBackupDeleted
  <2>2. Continue(Mem) \/ RetryLater
      BY <1>3 DEF EnsureCanceledProviderBackupDeleted, DeleteProviderBackup
  <2> QED
      BY <2>1, <2>2, ContinueSame, EndKept, StateKept
<1>4. CASE EnsureProviderBackupDeleted
  <2>1. /\ ~Idle /\ Current \in Backups /\ pass.operation = "delete" /\ pass.step = 3
        /\ UNCHANGED <<maintenance, lease, restore>> /\ lease # Current
      BY <1>0, <1>4, AtStage, Position
         DEF EnsureProviderBackupDeleted, IInv, PassOK, HoldsSound, AtEnd
  <2>2. CASE (RetryLater \/ Abort) /\ UNCHANGED cr
      BY <2>1, <2>2, EndKept, StateKept
  <2>3. CASE cr' = [cr EXCEPT ![Current] = NoBackup] /\ Abort
    <3>1. cr'[Current] = NoBackup /\ \A b \in Backups \ {Current} : cr'[b] = cr[b]
        BY <1>0, <2>1, <2>3 DEF TypeOK
    <3>2. ResourcesOK'
        BY <3>1 DEF IInv, ResourcesOK, Present
    <3>3. LeaseOK'
        BY <2>1, <3>1 DEF IInv, LeaseOK, Present
    <3>4. RunsUnderMaintenance'
        BY <2>1, <3>1 DEF IInv, RunsUnderMaintenance, InProgress, Present
    <3> QED
        BY <2>1, <2>3, <3>2, <3>3, <3>4, EndKept
  <2> QED
      BY <1>4, <2>2, <2>3 DEF EnsureProviderBackupDeleted, DeleteProviderBackup
<1> QED
    BY <1>1, <1>2, <1>3, <1>4

\* A pass begins with a copy of the resource and the operation it requires.
LEMMA SoundReconcile ==
    ASSUME IInv, NEW b \in Backups, Reconcile(b)
    PROVE  ResourcesOK' /\ LeaseOK' /\ RunsUnderMaintenance' /\ PassOK'
<1>1. UNCHANGED <<cr, maintenance, lease, restore>>
    BY DEF Reconcile, objectVars, sharedVars
<1>2. CASE ~Present(b)
    BY <1>1, <1>2, StateKept DEF Reconcile, PassOK, Idle
<1>3. CASE Present(b)
  <2>1. pass' = [backup |-> b, mem |-> cr[b],
                 operation |-> RequiredOperation(cr[b]), step |-> 1]
      BY <1>3 DEF Reconcile
  <2>2. cr[b] # NoBackup /\ ResourceOK(cr[b])
      BY <1>3 DEF Present, IInv, ResourcesOK
  <2>3. SameRun(cr[b], cr[b])
      BY <2>2 DEF SameRun, ResourceOK
  <2>4. StageSound(cr[b], RequiredOperation(cr[b]), 1)
    <3> DEFINE r == cr[b]
    <3>1. ResourceOK(r) /\ r.deleting \in BOOLEAN /\ r.finalizer \in BOOLEAN
        BY <1>3, <2>2 DEF IInv, TypeOK, Present, Resource
    <3> HIDE DEF r
    <3>2. ~r.finalizer => ~r.deleting /\ ~Terminal(r) /\ ~IsPostProcessing(r)
        BY <3>1 DEF ResourceOK, Fresh, Terminal, IsPostProcessing
    <3>3. CASE r.deleting
      <4>1. RequiredOperation(r) = "delete"
          BY <3>1, <3>3 DEF RequiredOperation
      <4> QED
          BY <3>1, <3>2, <3>3, <4>1 DEF StageSound, r
    <3>4. CASE ~r.deleting /\ Terminal(r)
      <4>1. RequiredOperation(r) = "ignore"
          BY <3>1, <3>4 DEF RequiredOperation
      <4> QED
          BY <3>1, <3>2, <3>4, <4>1 DEF StageSound, r
    <3>5. CASE ~r.deleting /\ ~Terminal(r) /\ IsPostProcessing(r)
      <4>1. RequiredOperation(r) = "finalize"
          BY <3>1, <3>5 DEF RequiredOperation
      <4> QED
          BY <3>1, <3>2, <3>5, <4>1 DEF StageSound, r
    <3>6. CASE ~r.deleting /\ ~Terminal(r) /\ ~IsPostProcessing(r)
      <4>1. RequiredOperation(r) = "create"
          BY <3>1, <3>6 DEF RequiredOperation
      <4> QED
          BY <3>1, <3>6, <4>1 DEF StageSound, IsPostProcessing, r
    <3> QED
        BY <3>1, <3>3, <3>4, <3>5, <3>6
  <2>5. HoldsSound'
      BY <2>1 DEF HoldsSound, AtRelease, AtEnd
  <2>6. PassOK'
      BY <1>1, <2>1, <2>3, <2>4, <2>5 DEF PassOK, Mem, Current
  <2> QED
      BY <1>1, <2>6, StateKept
<1> QED
    BY <1>2, <1>3

\* Passes that break off, crashes, restarts, Velero, time and what others do to
\* Velero's backups leave resources and shared state alone.
LEMMA SoundQuiet ==
    ASSUME IInv,
           \/ BackupVanished \/ PassFails \/ Crash \/ Recover
           \/ SyncRequestsDeletion \/ SyncFails
           \/ \E b \in Backups :
                 \/ SyncReads(b) \/ Velero(b) \/ TimeWindowExpires(b)
                 \/ OutsideRemoves(b) \/ OutsideCreates(b) \/ OutsideRequestsDeletion(b)
    PROVE  ResourcesOK' /\ LeaseOK' /\ RunsUnderMaintenance' /\ PassOK'
<1> USE DEF objectVars, veleroVars, sharedVars, workerVars, syncVars, boundVars
<1>1. UNCHANGED <<cr, maintenance, lease, restore>> /\ (pass' = NoPass \/ UNCHANGED pass)
  <2>1. CASE BackupVanished \/ PassFails \/ Crash \/ Recover
      BY <2>1 DEF BackupVanished, PassFails, CallFails, RetryLater, Crash, Recover
  <2>2. CASE \/ SyncRequestsDeletion \/ SyncFails
             \/ \E b \in Backups : SyncReads(b) \/ TimeWindowExpires(b)
      BY <2>2 DEF SyncRequestsDeletion, SyncFails, SyncReads, TimeWindowExpires
  <2>3. CASE \E b \in Backups :
                OutsideRemoves(b) \/ OutsideCreates(b) \/ OutsideRequestsDeletion(b)
      BY <2>3 DEF OutsideRemoves, OutsideCreates, OutsideRequestsDeletion
  <2>4. CASE \E b \in Backups : Velero(b)
      BY <2>4 DEF Velero, VeleroPicksUp, VeleroFinishes, VeleroRefusesDeletion,
                  VeleroStartsDeletion, VeleroEndsDeletion, VeleroFailsDeletion
  <2> QED
      BY <2>1, <2>2, <2>3, <2>4
<1>2. \A b \in Backups : Touched(b)
    BY <1>1 DEF Touched
<1>3. pass' = NoPass => PassOK'
    BY DEF PassOK, Idle
<1> QED
    BY <1>1, <1>2, <1>3, TouchedKept

\* Users and the mirroring controller create and delete resources.
LEMMA SoundObjects ==
    ASSUME IInv,
           \/ SyncEnsuresBackup \/ SyncDeletesBackup
           \/ \E b \in Backups : UserCreates(b) \/ UserDeletes(b)
    PROVE  ResourcesOK' /\ LeaseOK' /\ RunsUnderMaintenance' /\ PassOK'
<1> USE DEF objectVars, veleroVars, sharedVars, workerVars, syncVars, boundVars
<1>0. TypeOK /\ (sync.at # "idle" => sync.backup \in Backups)
    BY DEF IInv, TypeOK, NoSync
<1>1. ASSUME NEW b \in Backups, ~Present(b), NEW x \in {LocalBackup, SyncedBackup},
             cr' = [cr EXCEPT ![b] = x]
      PROVE  \A c \in Backups : Touched(c)
    BY <1>0, <1>1 DEF Touched, TypeOK
<1>2. CASE SyncEnsuresBackup
  <2>1. UNCHANGED <<pass, maintenance, lease, restore>> /\ sync.backup \in Backups
      BY <1>0, <1>2 DEF SyncEnsuresBackup
  <2>2. \A c \in Backups : Touched(c)
    <3>1. CASE Present(sync.backup)
        BY <1>2, <3>1 DEF SyncEnsuresBackup, Touched
    <3>2. CASE ~Present(sync.backup)
        BY <1>1, <1>2, <2>1, <3>2 DEF SyncEnsuresBackup
    <3> QED
        BY <3>1, <3>2
  <2> QED
      BY <2>1, <2>2, TouchedKept
<1>3. CASE SyncDeletesBackup
  <2>1. UNCHANGED <<pass, maintenance, lease, restore>> /\ sync.backup \in Backups
      BY <1>0, <1>3 DEF SyncDeletesBackup
  <2>2. \A c \in Backups : Touched(c)
      BY <1>0, <1>3, <2>1, DeletedTouches DEF SyncDeletesBackup, Touched
  <2> QED
      BY <2>1, <2>2, TouchedKept
<1>4. ASSUME NEW b \in Backups, UserCreates(b)
      PROVE  ResourcesOK' /\ LeaseOK' /\ RunsUnderMaintenance' /\ PassOK'
  <2>1. UNCHANGED <<pass, maintenance, lease, restore>> /\ \A c \in Backups : Touched(c)
      BY <1>1, <1>4 DEF UserCreates
  <2> QED
      BY <2>1, TouchedKept
<1>5. ASSUME NEW b \in Backups, UserDeletes(b)
      PROVE  ResourcesOK' /\ LeaseOK' /\ RunsUnderMaintenance' /\ PassOK'
  <2>1. UNCHANGED <<pass, maintenance, lease, restore>> /\ \A c \in Backups : Touched(c)
      BY <1>0, <1>5, DeletedTouches DEF UserDeletes
  <2> QED
      BY <2>1, TouchedKept
<1> QED
    BY <1>2, <1>3, <1>4, <1>5

\* A restore acquires, switches and releases what it holds.
LEMMA SoundRestore ==
    ASSUME IInv, Restore
    PROVE  ResourcesOK' /\ LeaseOK' /\ RunsUnderMaintenance' /\ PassOK'
<1>0. TypeOK /\ {"free", "restore"} \cap Backups = {}
    BY BackupAssumption DEF IInv, BackupAssumption
<1>1. UNCHANGED <<cr, pass>>
    BY DEF Restore, RestoreAcquires, RestoreActivates, RestoreDeactivates, RestoreReleases,
           RestoreMoves, objectVars, workerVars
<1>2. lease \notin Backups /\ lease' \notin Backups
    BY <1>0 DEF IInv, LeaseOK, Restore, RestoreAcquires, RestoreActivates, RestoreDeactivates,
                RestoreReleases, RestoreMoves
<1>3. ResourcesOK'
    BY <1>1 DEF IInv, ResourcesOK, Present
<1>4. LeaseOK'
    BY <1>0, <1>2 DEF IInv, LeaseOK, Restore, RestoreAcquires, RestoreActivates,
                      RestoreDeactivates, RestoreReleases, RestoreMoves
<1>5. RunsUnderMaintenance'
    BY <1>1, <1>2 DEF IInv, RunsUnderMaintenance, InProgress, Present
<1>6. PassOK'
  <2> SUFFICES ASSUME ~Idle
               PROVE  PassOK'
      BY <1>1 DEF PassOK, Idle
  <2>1. Current \in Backups /\ HoldsSound /\ lease # Current /\ lease' # Current
      BY <1>0, <1>2, PassFields DEF IInv, PassOK
  <2>2. HoldsSound'
      BY <1>1, <2>1 DEF HoldsSound, AtRelease, AtEnd, Current
  <2> QED
      BY <1>1, <2>2 DEF IInv, PassOK, Mem, Current, Idle
<1> QED
    BY <1>3, <1>4, <1>5, <1>6

-------------------------------------------------------------------------------
(* The invariant. *)

\* The initial state satisfies the invariant ...
LEMMA InvariantInit == Init => IInv
<1>1. Init => \A b \in Backups : ~Present(b)
    BY DEF Init, Present
<1> QED
    BY <1>1, TypeInit, BackupAssumption
       DEF Init, IInv, ResourcesOK, LeaseOK, RunsUnderMaintenance, InProgress, PassOK, Idle,
           BackupAssumption

\* ... and every step keeps it.
LEMMA InvariantNext == IInv /\ [Next]_vars => IInv'
<1> SUFFICES ASSUME IInv, [Next]_vars
             PROVE  IInv'
    OBVIOUS
<1>1. CASE UNCHANGED vars
  <2>1. UNCHANGED <<cr, maintenance, lease, restore, pass>> /\ TypeOK'
      BY <1>1, TypeNext DEF IInv, vars, objectVars, sharedVars, workerVars
  <2>2. \A b \in Backups : Touched(b)
      BY <2>1 DEF Touched
  <2> QED
      BY <2>1, <2>2, TouchedKept DEF IInv
<1>2. CASE Next
  <2>1. TypeOK'
      BY TypeNext DEF IInv
  <2>2. ResourcesOK' /\ LeaseOK' /\ RunsUnderMaintenance' /\ PassOK'
      BY <1>2, SoundBeginning, SoundPreparing, SoundRunning, SoundCleanup, SoundEnding,
         SoundReconcile, SoundQuiet, SoundObjects, SoundRestore
         DEF Next, Stage, SyncStep
  <2> QED
      BY <2>1, <2>2 DEF IInv
<1> QED
    BY <1>1, <1>2

\* The invariant holds in every reachable state.
THEOREM InvariantHolds == Spec => []IInv
BY InvariantInit, InvariantNext, PTL DEF Spec

-------------------------------------------------------------------------------
(* The safety properties. *)

\* A run in progress has the maintenance mode and the lease.
THEOREM RunsUnderMaintenanceHolds == Spec => []RunsUnderMaintenance
<1>1. IInv => RunsUnderMaintenance
    BY DEF IInv
<1> QED
    BY <1>1, InvariantHolds, PTL

\* No backup switches the maintenance mode off under an active restore.
THEOREM RestoreKeepsMaintenanceHolds == Spec => []RestoreKeepsMaintenance
<1>1. IInv => RestoreKeepsMaintenance
    BY DEF IInv, LeaseOK, RestoreKeepsMaintenance
<1> QED
    BY <1>1, InvariantHolds, PTL

\* The maintenance mode always has an owner that will switch it off.
THEOREM MaintenanceHasOwnerHolds == Spec => []MaintenanceHasOwner
<1>1. IInv => MaintenanceHasOwner
    BY DEF IInv, LeaseOK, MaintenanceHasOwner
<1> QED
    BY <1>1, InvariantHolds, PTL

\* A run abandoned by its time window never becomes a successful backup.
THEOREM CanceledNeverSucceedsHolds == Spec => []CanceledNeverSucceeds
<1>1. IInv => CanceledNeverSucceeds
    BY DEF IInv, ResourcesOK, ResourceOK, CanceledNeverSucceeds
<1> QED
    BY <1>1, InvariantHolds, PTL

-------------------------------------------------------------------------------
(* Results are final. *)

\* A stage other than the deletion of an orphan changes at most the resource of
\* its pass, and if that has a result, it is only removed.
LEMMA StageWrites ==
    ASSUME IInv, Stage
    PROVE  \/ \A b \in Backups : Touched(b)
           \/ /\ ~Idle /\ Current \in Backups
              /\ \A b \in Backups \ {Current} : cr'[b] = cr[b]
              /\ \/ pass.operation \in {"create", "finalize"}
                 \/ cr'[Current] = NoBackup
<1> USE DEF objectVars
<1>0. TypeOK
    BY DEF IInv
<1>1. ASSUME NEW s, PatchStatus(s), NEW stage, At(stage)
      PROVE  /\ ~Idle /\ Current \in Backups
             /\ \A b \in Backups \ {Current} : cr'[b] = cr[b]
    BY <1>0, <1>1, AtStage DEF PatchStatus, TypeOK
<1>2. UNCHANGED cr => \A b \in Backups : Touched(b)
    BY DEF Touched
<1>3. CASE EnsureVeleroStatusSynced \/ EnsureConditionsInitialized
    BY <1>0, <1>1, <1>2, <1>3, AtStage, Position
       DEF EnsureVeleroStatusSynced, EnsureConditionsInitialized
<1>4. CASE EnsureBackupSetup
    BY <1>0, <1>2, <1>4, AtStage, Position DEF EnsureBackupSetup, TypeOK
<1>5. CASE EnsureBackupIsCanceledAfterTimeWindowExpired
    BY <1>0, <1>1, <1>2, <1>5, AtStage, Position
       DEF EnsureBackupIsCanceledAfterTimeWindowExpired
<1>6. CASE EnsureMaintenanceActivated \/ EnsureProviderBackupCreated
    BY <1>0, <1>1, <1>2, <1>6, AtStage, Position
       DEF EnsureMaintenanceActivated, EnsureProviderBackupCreated
<1>7. CASE EnsureProviderBackupCompleted \/ EnsureBackupRunCompleted
    BY <1>0, <1>1, <1>2, <1>7, AtStage, Position
       DEF EnsureProviderBackupCompleted, EnsureBackupRunCompleted
<1>8. CASE EnsureOrphanedBackupDeleted
  <2>1. Current \in Backups
      BY <1>0, <1>8, AtStage DEF EnsureOrphanedBackupDeleted
  <2> QED
      BY <1>0, <1>2, <1>8, <2>1, DeletedTouches DEF EnsureOrphanedBackupDeleted
<1>9. CASE EnsureProviderBackupDeleted
    BY <1>0, <1>2, <1>9, AtStage DEF EnsureProviderBackupDeleted, TypeOK
<1>10. CASE \/ EnsureBackupIsPrepared \/ EnsureActiveBackupLease
            \/ EnsureMaintenanceDeactivated \/ EnsureBackupLeaseReleased
            \/ EnsureCanceledProviderBackupDeleted \/ BackupVanished
    BY <1>2, <1>10
       DEF EnsureBackupIsPrepared, EnsureActiveBackupLease, EnsureMaintenanceDeactivated,
           EnsureBackupLeaseReleased, EnsureCanceledProviderBackupDeleted, BackupVanished
<1> QED
    BY <1>3, <1>4, <1>5, <1>6, <1>7, <1>8, <1>9, <1>10 DEF Stage

\* All other steps touch resources from outside.
LEMMA OthersTouch ==
    ASSUME IInv, Next, ~Stage
    PROVE  \A b \in Backups : Touched(b)
<1> USE DEF objectVars
<1>0. TypeOK /\ (sync.at # "idle" => sync.backup \in Backups)
    BY DEF IInv, TypeOK, NoSync
<1>1. UNCHANGED cr => \A b \in Backups : Touched(b)
    BY DEF Touched
<1>2. ASSUME NEW b \in Backups, ~Present(b), NEW x \in {LocalBackup, SyncedBackup},
             cr' = [cr EXCEPT ![b] = x]
      PROVE  \A c \in Backups : Touched(c)
    BY <1>0, <1>2 DEF Touched, TypeOK
<1>3. CASE SyncStep
    BY <1>0, <1>1, <1>2, <1>3, DeletedTouches
       DEF SyncStep, SyncEnsuresBackup, SyncRequestsDeletion, SyncDeletesBackup
<1>4. ASSUME NEW b \in Backups, UserCreates(b) \/ UserDeletes(b)
      PROVE  \A c \in Backups : Touched(c)
    BY <1>0, <1>2, <1>4, DeletedTouches DEF UserCreates, UserDeletes
<1>5. CASE PassFails \/ SyncFails \/ Restore \/ Crash \/ Recover
    BY <1>1, <1>5
       DEF PassFails, SyncFails, Crash, Recover, Restore, RestoreAcquires, RestoreActivates,
           RestoreDeactivates, RestoreReleases, RestoreMoves
<1>6. ASSUME NEW b \in Backups,
             \/ Reconcile(b) \/ SyncReads(b) \/ Velero(b) \/ TimeWindowExpires(b)
             \/ OutsideRemoves(b) \/ OutsideCreates(b) \/ OutsideRequestsDeletion(b)
      PROVE  UNCHANGED cr
    BY <1>6
       DEF Reconcile, SyncReads, TimeWindowExpires, OutsideRemoves, OutsideCreates,
           OutsideRequestsDeletion, Velero, VeleroPicksUp, VeleroFinishes,
           VeleroRefusesDeletion, VeleroStartsDeletion, VeleroEndsDeletion, VeleroFailsDeletion
<1> QED
    BY <1>1, <1>3, <1>4, <1>5, <1>6 DEF Next

\* A result, once written, stays as long as the resource exists.
THEOREM OutcomeIsFinalHolds == Spec => OutcomeIsFinal
<1>1. ASSUME IInv, Next, NEW b \in Backups,
             Present(b), Terminal(cr[b]), cr'[b] # NoBackup
      PROVE  cr'[b].status.succeeded = cr[b].status.succeeded
  <2>1. ResourceOK(cr[b]) /\ ~Fresh(cr[b].status) /\ cr[b].finalizer
      BY <1>1 DEF IInv, ResourcesOK, ResourceOK, Fresh, Terminal
  <2>2. CASE Touched(b)
    <3>1. cr'[b].status = cr[b].status
        BY <1>1, <2>1, <2>2, TouchedFields
    <3> QED
        BY <3>1
  <2>3. CASE /\ ~Idle /\ Current = b
             /\ pass.operation \in {"create", "finalize"}
    <3>1. SameRun(Mem, cr[b]) /\ ~Terminal(Mem)
        BY <1>1, <2>3 DEF IInv, PassOK, StageSound
    <3> QED
        BY <1>1, <2>1, <3>1 DEF SameRun, Terminal, Present
  <2> QED
      BY <1>1, <2>2, <2>3, StageWrites, OthersTouch
<1>2. ASSUME IInv, [Next]_vars
      PROVE  [\A b \in Backups :
                Present(b) /\ Terminal(cr[b]) /\ cr'[b] # NoBackup
                    => cr'[b].status.succeeded = cr[b].status.succeeded]_vars
    BY <1>1, <1>2
<1> QED
    BY <1>2, InvariantHolds, PTL DEF Spec, OutcomeIsFinal

-------------------------------------------------------------------------------
(* Canceled backups stay. *)

\* A resource that is not deleted by a step.
Stays(b) == cr'[b] # NoBackup /\ ~cr'[b].deleting

\* No stage deletes a canceled backup: the deletion of orphans trusts a copy with
\* the status of the stored resource, the finalizer goes behind a deletion only,
\* and all other stages leave the deletion mark alone.
LEMMA StageKeepsCanceled ==
    ASSUME IInv, Stage, NEW b \in Backups,
           Present(b), cr[b].status.canceled = "True", ~cr[b].deleting
    PROVE  Stays(b)
<1> USE DEF objectVars
<1>0. TypeOK /\ cr[b] \in Resource
    BY DEF IInv, TypeOK, Present
<1>1. cr'[b] = cr[b] => Stays(b)
    BY DEF Stays, Present
<1>2. UNCHANGED cr => Stays(b)
    BY <1>1
<1>3. ASSUME NEW s, PatchStatus(s), NEW stage, At(stage)
      PROVE  Stays(b)
  <2>1. Current \in Backups
      BY <1>0, <1>3, AtStage
  <2>2. CASE b # Current
      BY <1>0, <1>1, <1>3, <2>1, <2>2 DEF PatchStatus, TypeOK
  <2>3. CASE b = Current
    <3>1. cr'[b] = [cr[b] EXCEPT !.status = s]
        BY <1>0, <1>3, <2>1, <2>3 DEF PatchStatus, Patched, TypeOK
    <3>2. cr'[b].synced = cr[b].synced /\ ~cr'[b].deleting
        BY <1>0, <3>1 DEF Resource
    <3>3. "synced" \in DOMAIN cr'[b] /\ "synced" \notin DOMAIN NoBackup
        BY <1>0, <3>1 DEF Resource, NoBackup
    <3> QED
        BY <3>2, <3>3 DEF Stays
  <2> QED
      BY <2>2, <2>3
<1>4. CASE EnsureVeleroStatusSynced \/ EnsureConditionsInitialized
    BY <1>2, <1>3, <1>4 DEF EnsureVeleroStatusSynced, EnsureConditionsInitialized
<1>5. CASE EnsureBackupSetup
  <2>1. /\ ~Idle /\ Current \in Backups /\ Mem \in Resource
      BY <1>0, <1>5, AtStage DEF EnsureBackupSetup
  <2>2. CASE UNCHANGED cr
      BY <1>2, <2>2
  <2>3. CASE /\ cr[Current] = Mem
             /\ cr' = [cr EXCEPT ![Current] = [Mem EXCEPT !.finalizer = TRUE]]
    <3>1. CASE b # Current
        BY <1>0, <1>1, <2>1, <2>3, <3>1 DEF TypeOK
    <3>2. CASE b = Current
      <4>1. cr'[b] = [cr[b] EXCEPT !.finalizer = TRUE]
          BY <1>0, <2>1, <2>3, <3>2 DEF TypeOK
      <4>2. ~cr'[b].deleting
          BY <1>0, <4>1 DEF Resource
      <4>3. "synced" \in DOMAIN cr'[b] /\ "synced" \notin DOMAIN NoBackup
          BY <1>0, <4>1 DEF Resource, NoBackup
      <4> QED
          BY <4>2, <4>3 DEF Stays
    <3> QED
        BY <3>1, <3>2
  <2> QED
      BY <1>5, <2>2, <2>3 DEF EnsureBackupSetup
<1>6. CASE EnsureBackupIsCanceledAfterTimeWindowExpired
    BY <1>3, <1>6 DEF EnsureBackupIsCanceledAfterTimeWindowExpired
<1>7. CASE EnsureMaintenanceActivated \/ EnsureProviderBackupCreated
    BY <1>2, <1>3, <1>7 DEF EnsureMaintenanceActivated, EnsureProviderBackupCreated
<1>8. CASE EnsureProviderBackupCompleted \/ EnsureBackupRunCompleted
    BY <1>2, <1>3, <1>8 DEF EnsureProviderBackupCompleted, EnsureBackupRunCompleted
<1>9. CASE EnsureOrphanedBackupDeleted
  <2>1. ~Idle /\ Current \in Backups /\ pass.operation = "ignore"
      BY <1>0, <1>9, AtStage, Position DEF EnsureOrphanedBackupDeleted
  <2>2. cr[Current].status = Mem.status
      BY <2>1, Behind
  <2>3. Mem.status.canceled = "True" => UNCHANGED cr
      BY <1>9 DEF EnsureOrphanedBackupDeleted
  <2>4. b # Current => cr'[b] = cr[b]
      BY <1>0, <1>9, <2>1 DEF EnsureOrphanedBackupDeleted, TypeOK
  <2> QED
      BY <1>1, <1>2, <2>2, <2>3, <2>4
<1>10. CASE EnsureProviderBackupDeleted
  <2>1. /\ ~Idle /\ Current \in Backups
        /\ pass.operation = "delete" /\ pass.step = 3
      BY <1>0, <1>10, AtStage, Position DEF EnsureProviderBackupDeleted
  <2>2. cr[Current].deleting
      BY <2>1, Behind DEF IInv, PassOK, StageSound
  <2>3. cr'[b] = cr[b]
      BY <1>0, <1>10, <2>1, <2>2 DEF EnsureProviderBackupDeleted, TypeOK
  <2> QED
      BY <1>1, <2>3
<1>11. CASE \/ EnsureBackupIsPrepared \/ EnsureActiveBackupLease
            \/ EnsureMaintenanceDeactivated \/ EnsureBackupLeaseReleased
            \/ EnsureCanceledProviderBackupDeleted \/ BackupVanished
    BY <1>2, <1>11
       DEF EnsureBackupIsPrepared, EnsureActiveBackupLease, EnsureMaintenanceDeactivated,
           EnsureBackupLeaseReleased, EnsureCanceledProviderBackupDeleted, BackupVanished
<1> QED
    BY <1>4, <1>5, <1>6, <1>7, <1>8, <1>9, <1>10, <1>11 DEF Stage

\* Others delete it only where the property allows it.
LEMMA OthersKeepCanceled ==
    ASSUME IInv, Next, ~Stage, NEW b \in Backups,
           Present(b), cr[b].status.canceled = "True", ~cr[b].deleting
    PROVE  Stays(b) \/ asked' # asked \/ (Stale(b) /\ sync' # sync)
<1> USE DEF objectVars
<1>0. TypeOK /\ (sync.at # "idle" => sync.backup \in Backups)
    BY DEF IInv, TypeOK, NoSync
<1>1. cr'[b] = cr[b] => Stays(b)
    BY DEF Stays, Present
<1>2. CASE SyncDeletesBackup
  <2>1. sync.at = "delete" /\ sync' = NoSync /\ sync' # sync
      BY <1>2 DEF SyncDeletesBackup, NoSync
  <2>2. sync.canceled \/ sync.backup # b => cr'[b] = cr[b]
      BY <1>0, <1>2, <2>1 DEF SyncDeletesBackup, TypeOK
  <2> QED
      BY <1>1, <2>1, <2>2 DEF Stale
<1>3. CASE SyncEnsuresBackup \/ SyncRequestsDeletion
    BY <1>0, <1>1, <1>3 DEF SyncEnsuresBackup, SyncRequestsDeletion, TypeOK
<1>4. ASSUME NEW c \in Backups, UserCreates(c) \/ UserDeletes(c)
      PROVE  asked' # asked
    BY <1>0, <1>4 DEF UserCreates, UserDeletes, TypeOK
<1>5. CASE PassFails \/ SyncFails \/ Restore \/ Crash \/ Recover
    BY <1>1, <1>5
       DEF PassFails, SyncFails, Crash, Recover, Restore, RestoreAcquires, RestoreActivates,
           RestoreDeactivates, RestoreReleases, RestoreMoves
<1>6. ASSUME NEW c \in Backups,
             \/ Reconcile(c) \/ SyncReads(c) \/ Velero(c) \/ TimeWindowExpires(c)
             \/ OutsideRemoves(c) \/ OutsideCreates(c) \/ OutsideRequestsDeletion(c)
      PROVE  UNCHANGED cr
    BY <1>6
       DEF Reconcile, SyncReads, TimeWindowExpires, OutsideRemoves, OutsideCreates,
           OutsideRequestsDeletion, Velero, VeleroPicksUp, VeleroFinishes,
           VeleroRefusesDeletion, VeleroStartsDeletion, VeleroEndsDeletion, VeleroFailsDeletion
<1> QED
    BY <1>1, <1>2, <1>3, <1>4, <1>5, <1>6 DEF Next, SyncStep

\* Neither controller deletes a canceled backup, but for the mirroring with a copy
\* read before the cancellation.
THEOREM CanceledStaysHolds == Spec => CanceledStays
<1> DEFINE Kept(b) ==
        (/\ Present(b) /\ cr[b].status.canceled = "True" /\ ~cr[b].deleting
         /\ cr'[b] = NoBackup \/ cr'[b].deleting)
            => asked' # asked \/ (Stale(b) /\ sync' # sync)
<1>1. ASSUME IInv, Next, NEW b \in Backups
      PROVE  Kept(b)
    BY <1>1, StageKeepsCanceled, OthersKeepCanceled DEF Stays
<1>2. ASSUME IInv, [Next]_vars
      PROVE  [\A b \in Backups : Kept(b)]_vars
    BY <1>1, <1>2
<1> QED
    BY <1>2, InvariantHolds, PTL DEF Spec, CanceledStays

-------------------------------------------------------------------------------
(* The protocol between backups and restores. *)

\* A step that leaves the lease and the maintenance mode alone is none of the
\* protocol; the others are one of its steps by the one who holds the lease.
LEMMA ProtocolNext ==
    ASSUME IInv, [Next]_vars
    PROVE  [Protocol!Next]_(Protocol!vars)
<1> DEFINE holder == IF lease \in Backups THEN "backup" ELSE lease
<1>0. TypeOK /\ {"free", "restore"} \cap Backups = {}
    BY BackupAssumption DEF IInv, BackupAssumption
<1>1. CASE UNCHANGED <<maintenance, lease>>
    BY <1>1 DEF Protocol!vars
<1>2. CASE EnsureActiveBackupLease
  <2>1. Current \in Backups /\ UNCHANGED maintenance
      BY <1>0, <1>2, AtStage DEF EnsureActiveBackupLease
  <2>2. CASE lease = "free" /\ lease' = Current
    <3>1. holder = "free" /\ holder' = "backup"
        BY <1>0, <2>1, <2>2
    <3> QED
        BY <2>1, <3>1 DEF Protocol!Next, Protocol!Take
  <2>3. CASE lease \in Backups /\ lease' = Current
    <3>1. holder' = holder
        BY <2>1, <2>3
    <3> QED
        BY <2>1, <3>1 DEF Protocol!vars
  <2> QED
      BY <1>1, <1>2, <2>1, <2>2, <2>3 DEF EnsureActiveBackupLease, HolderOver
<1>3. CASE EnsureMaintenanceActivated
  <2>1. /\ ~Idle /\ pass.operation = "create" /\ pass.step = 7
        /\ Current \in Backups /\ UNCHANGED lease /\ maintenance' \in BOOLEAN
      BY <1>0, <1>3, AtStage, Position DEF EnsureMaintenanceActivated, TypeOK
  <2>2. lease = Current
      BY <2>1 DEF IInv, PassOK, HoldsSound
  <2>3. holder = "backup" /\ holder' = holder
      BY <2>1, <2>2
  <2> QED
      BY <2>1, <2>3 DEF Protocol!Next, Protocol!Switch
<1>4. CASE EnsureMaintenanceDeactivated
  <2>1. Current \in Backups /\ UNCHANGED lease /\ maintenance' \in BOOLEAN
      BY <1>0, <1>4, AtStage DEF EnsureMaintenanceDeactivated, TypeOK
  <2>2. CASE lease = Current
    <3>1. holder = "backup" /\ holder' = holder
        BY <2>1, <2>2
    <3> QED
        BY <2>1, <3>1 DEF Protocol!Next, Protocol!Switch
  <2>3. CASE lease # Current
      BY <1>1, <1>4, <2>1, <2>3 DEF EnsureMaintenanceDeactivated
  <2> QED
      BY <2>2, <2>3
<1>5. CASE EnsureBackupLeaseReleased
  <2>1. Current \in Backups /\ UNCHANGED maintenance
      BY <1>0, <1>5, AtStage DEF EnsureBackupLeaseReleased
  <2>2. CASE lease = Current /\ lease' = "free"
    <3>1. holder = "backup" /\ holder' = "free"
        BY <1>0, <2>1, <2>2
    <3> QED
        BY <2>1, <3>1 DEF Protocol!Next, Protocol!GiveBack
  <2> QED
      BY <1>1, <1>5, <2>1, <2>2 DEF EnsureBackupLeaseReleased
<1>6. CASE Restore
  <2>1. CASE RestoreAcquires
    <3>1. holder = "free" /\ holder' = "restore" /\ UNCHANGED maintenance
        BY <1>0, <2>1 DEF RestoreAcquires
    <3> QED
        BY <3>1 DEF Protocol!Next, Protocol!Take
  <2>2. CASE RestoreActivates \/ RestoreDeactivates
    <3>1. lease = "restore" /\ UNCHANGED lease /\ maintenance' \in BOOLEAN
        BY <2>2 DEF RestoreActivates, RestoreDeactivates, RestoreMoves, IInv, LeaseOK
    <3>2. holder = "restore" /\ holder' = holder
        BY <1>0, <3>1
    <3> QED
        BY <3>1, <3>2 DEF Protocol!Next, Protocol!Switch
  <2>3. CASE RestoreReleases
    <3>1. lease = "restore" /\ lease' = "free" /\ UNCHANGED maintenance
        BY <2>3 DEF RestoreReleases, RestoreMoves, IInv, LeaseOK
    <3>2. holder = "restore" /\ holder' = "free"
        BY <1>0, <3>1
    <3> QED
        BY <3>1, <3>2 DEF Protocol!Next, Protocol!GiveBack
  <2> QED
      BY <1>6, <2>1, <2>2, <2>3 DEF Restore
<1>7. CASE \/ UNCHANGED vars
           \/ Stage /\ ~(\/ EnsureActiveBackupLease \/ EnsureMaintenanceActivated
                        \/ EnsureMaintenanceDeactivated \/ EnsureBackupLeaseReleased)
           \/ PassFails \/ SyncStep \/ SyncFails \/ Crash \/ Recover
  <2>1. UNCHANGED <<maintenance, lease>>
      BY <1>7
         DEF vars, sharedVars, Stage, EnsureVeleroStatusSynced, EnsureConditionsInitialized,
             EnsureBackupSetup, EnsureBackupIsCanceledAfterTimeWindowExpired,
             EnsureBackupIsPrepared, EnsureProviderBackupCreated, EnsureProviderBackupCompleted,
             EnsureBackupRunCompleted, EnsureOrphanedBackupDeleted,
             EnsureCanceledProviderBackupDeleted, EnsureProviderBackupDeleted, BackupVanished,
             PassFails, SyncStep, SyncEnsuresBackup, SyncRequestsDeletion, SyncDeletesBackup,
             SyncFails, Crash, Recover
  <2> QED
      BY <1>1, <2>1
<1>8. ASSUME NEW b \in Backups,
             \/ Reconcile(b) \/ SyncReads(b) \/ Velero(b) \/ OutsideRemoves(b)
             \/ OutsideCreates(b) \/ OutsideRequestsDeletion(b)
             \/ UserCreates(b) \/ UserDeletes(b) \/ TimeWindowExpires(b)
      PROVE  UNCHANGED <<maintenance, lease>>
    BY <1>8
       DEF sharedVars, Reconcile, SyncReads, TimeWindowExpires, OutsideRemoves, OutsideCreates,
           OutsideRequestsDeletion, UserCreates, UserDeletes, Velero, VeleroPicksUp,
           VeleroFinishes, VeleroRefusesDeletion, VeleroStartsDeletion, VeleroEndsDeletion,
           VeleroFailsDeletion
<1> QED
    BY <1>1, <1>2, <1>3, <1>4, <1>5, <1>6, <1>7, <1>8 DEF Next

\* Backups keep to MaintenanceProtocol: no backup switches the maintenance mode
\* or passes the lease on without holding it.
THEOREM BackupKeepsProtocol == Spec => KeepsProtocol
<1>1. Init => Protocol!Init
    BY BackupAssumption DEF Init, Protocol!Init, BackupAssumption
<1>2. IInv /\ [Next]_vars => [Protocol!Next]_(Protocol!vars)
    BY ProtocolNext
<1> QED
    BY <1>1, <1>2, InvariantHolds, PTL DEF Spec, KeepsProtocol, Protocol!Spec

===============================================================================
