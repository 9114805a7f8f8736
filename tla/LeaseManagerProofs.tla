-------------------------- MODULE LeaseManagerProofs --------------------------
(***************************************************************************)
(* Proofs about LeaseManager for any set of resources, any number of       *)
(* faults, and any choice of the kinds that read through a cache.          *)
(***************************************************************************)
EXTENDS LeaseManager, TLAPS

-------------------------------------------------------------------------------
(* Facts about the operators. *)

\* A missing lease and every claim written by NewLease or Claim are leases.
LEMMA LeaseValues ==
    /\ NoLease \in Lease
    /\ \A u \in UIDs, n \in Nat : Claim(u, n) \in Lease
BY HolderAssumption DEF NoLease, Claim, Lease, NoKind

\* The identity Claim writes is complete: a claimed lease is never malformed.
LEMMA Identity ==
    \A u \in UIDs : NameOf[u] # NoName /\ KindOf[u] # NoKind /\ u # NoUID
BY HolderAssumption DEF Kinds, NoKind

\* EndPass keeps the worker variables well typed (one worker becomes idle).
LEMMA EndPassType ==
    ASSUME TypeOK, NEW k \in Kinds, EndPass(k)
    PROVE  /\ pc' \in [Kinds -> Steps]
           /\ op' \in [Kinds -> Operations]
           /\ me' \in [Kinds -> UIDs \cup {NoUID}]
           /\ snap' \in [Kinds -> Lease]
           /\ \A j \in Kinds : pc'[j] # "idle" => me'[j] \in UIDs
BY LeaseValues DEF TypeOK, EndPass, Goto, Steps, Operations

-------------------------------------------------------------------------------
(* Type correctness. *)

\* The initial state is well typed, whatever malformed lease it starts with.
LEMMA TypeInit == Init => TypeOK
<1> SUFFICES ASSUME Init PROVE TypeOK
    OBVIOUS
<1>1. lease \in Lease
    BY LeaseValues DEF Init, ForeignLeases, Lease
<1>2. stage \in [UIDs -> Stages] /\ seen \in [Kinds -> [UIDs -> Stages]]
    BY DEF Init, Stages
<1>3. seenLease \in [Kinds -> Lease] /\ snap \in [Kinds -> Lease]
    BY <1>1, LeaseValues DEF Init
<1> QED
    BY <1>1, <1>2, <1>3 DEF Init, TypeOK, Steps, Operations

\* Steps of users, of the API server and of the caches.
LEMMA TypeEnvironment == TypeOK /\ Environment => TypeOK'
<1> SUFFICES ASSUME TypeOK, Environment PROVE TypeOK'
    OBVIOUS
<1>1. ASSUME NEW u \in UIDs, CreateObject(u) PROVE TypeOK'
    BY <1>1 DEF TypeOK, CreateObject, Stages, cacheVars, workerVars, boundVars
<1>2. ASSUME NEW u \in UIDs, RequestDeletion(u) PROVE TypeOK'
    BY <1>2 DEF TypeOK, RequestDeletion, Stages, cacheVars, workerVars, boundVars
<1>3. ASSUME NEW u \in UIDs, ForceRemove(u) PROVE TypeOK'
    BY <1>3 DEF TypeOK, ForceRemove, Stages, cacheVars, workerVars
<1>4. CASE RemoveMalformedLease
    BY <1>4, LeaseValues DEF TypeOK, RemoveMalformedLease, cacheVars, workerVars, boundVars
<1>5. ASSUME NEW k \in Kinds, SyncObjects(k) PROVE TypeOK'
    BY <1>5 DEF TypeOK, SyncObjects, Listed, storeVars, workerVars, boundVars
<1>6. ASSUME NEW k \in Kinds, SyncLease(k) PROVE TypeOK'
    BY <1>6 DEF TypeOK, SyncLease, storeVars, workerVars, boundVars
<1> QED
    BY <1>1, <1>2, <1>3, <1>4, <1>5, <1>6 DEF Environment

\* Steps of a pass.
LEMMA TypeWorker == ASSUME TypeOK, NEW k \in Kinds, Worker(k) PROVE TypeOK'
<1> USE DEF Goto, storeVars, cacheVars, boundVars
<1>1. ASSUME NEW u \in UIDs, Reconcile(k, u) PROVE TypeOK'
    BY <1>1 DEF TypeOK, Reconcile, RequiredOperation, Cleanup, Operations, Steps
<1>2. CASE EndBeforeLease(k)
  <2>1. stage' \in [UIDs -> Stages]
    BY <1>2 DEF EndBeforeLease, TypeOK, Completed, Stages
  <2> QED
    BY <1>2, <2>1, EndPassType DEF EndBeforeLease, TypeOK
<1>3. CASE AcquireGet(k)
  <2>1. LeaseRead(k) \in Lease
    BY DEF TypeOK, LeaseRead
  <2>2. CASE EndPass(k)
    BY <1>3, <2>2, EndPassType DEF AcquireGet, TypeOK
  <2>3. CASE ~EndPass(k)
    BY <1>3, <2>1, <2>3 DEF AcquireGet, TypeOK, Steps
  <2> QED
    BY <2>2, <2>3
<1>4. CASE AcquireInsert(k) \/ AcquireTakeOver(k)
  <2>1. lease' \in Lease /\ rev' \in Nat
    BY <1>4, LeaseValues DEF AcquireInsert, AcquireTakeOver, TypeOK
  <2>2. EndPass(k) /\ UNCHANGED <<stage, cacheVars, boundVars>>
    BY <1>4 DEF AcquireInsert, AcquireTakeOver
  <2> QED
    BY <2>1, <2>2, EndPassType DEF TypeOK
<1>5. CASE AcquireResolve(k)
  <2>1. CASE EndPass(k)
    BY <1>5, <2>1, EndPassType DEF AcquireResolve, TypeOK
  <2>2. CASE ~EndPass(k)
    BY <1>5, <2>2 DEF AcquireResolve, TypeOK, Steps
  <2> QED
    BY <2>1, <2>2
<1>6. CASE WorkWaits(k) \/ CloseWaits(k) \/ PassFails(k)
  <2>1. EndPass(k) /\ UNCHANGED <<storeVars, cacheVars, forced>> /\ faults' \in Nat
    BY <1>6 DEF WorkWaits, CloseWaits, PassFails, TypeOK
  <2> QED
    BY <2>1, EndPassType DEF TypeOK
<1>7. CASE WorkEnds(k)
  <2>1. stage' \in [UIDs -> Stages]
    BY <1>7 DEF WorkEnds, TypeOK, Completed, Stages
  <2>2. CASE EndPass(k)
    BY <1>7, <2>1, <2>2, EndPassType DEF WorkEnds, TypeOK
  <2>3. CASE ~EndPass(k)
    BY <1>7, <2>1, <2>3 DEF WorkEnds, TypeOK, Cleanup, Steps, Operations
  <2> QED
    BY <2>2, <2>3
<1>8. CASE Holds(k) \/ DeactivateMaintenance(k) \/ ReleaseGet(k)
    BY <1>8 DEF Holds, DeactivateMaintenance, ReleaseGet, LeaseRead, TypeOK, Steps
<1>9. CASE ReleaseDelete(k)
  <2>1. lease' \in Lease
    BY <1>9, LeaseValues DEF ReleaseDelete, TypeOK
  <2>2. CASE EndPass(k)
    BY <1>9, <2>1, <2>2, EndPassType DEF ReleaseDelete, TypeOK
  <2>3. CASE ~EndPass(k)
    BY <1>9, <2>1, <2>3 DEF ReleaseDelete, TypeOK, Steps
  <2> QED
    BY <2>2, <2>3
<1>10. CASE Close(k)
  <2>1. stage' \in [UIDs -> Stages]
    BY <1>10 DEF Close, TypeOK, Completed, Stages
  <2> QED
    BY <1>10, <2>1, EndPassType DEF Close, TypeOK
<1> QED
    BY <1>1, <1>2, <1>3, <1>4, <1>5, <1>6, <1>7, <1>8, <1>9, <1>10
       DEF Worker, Acquire, Release

\* A restart of the operator keeps the types: caches are filled from the store.
LEMMA TypeRestart == TypeOK /\ Restart => TypeOK'
BY LeaseValues DEF TypeOK, Restart, Listed, storeVars, Steps, Operations

\* Type correctness of the lease manager: every variable keeps its type and a
\* started pass always works for a resource.
THEOREM TypeCorrect == Spec => []TypeOK
<1>1. TypeOK /\ [Next]_vars => TypeOK'
  <2> SUFFICES ASSUME TypeOK, [Next]_vars PROVE TypeOK'
    OBVIOUS
  <2>1. CASE UNCHANGED vars
    BY <2>1 DEF TypeOK, vars, storeVars, cacheVars, workerVars, boundVars
  <2> QED
    BY <2>1, TypeEnvironment, TypeWorker, TypeRestart DEF Next
<1> QED
    BY <1>1, TypeInit, PTL DEF Spec

-------------------------------------------------------------------------------
(* The inductive invariant. *)

\* The life of a resource as the lease sees it: a run that has left "create"
\* does not return to it, and a run that is over stays over.
Forward ==
    /\ \A u \in UIDs : stage[u] # "unborn" => stage'[u] # "unborn"
    /\ \A u \in UIDs : stage[u] \in Started => stage'[u] \in Started
    /\ \A u \in UIDs : stage[u] \in Over => stage'[u] \in Over
    /\ \A u \in UIDs : stage'[u] = "create" => stage[u] \in {"unborn", "create"}

\* Caches only learn about resources: a resource in a cache stays known.
CachesForward ==
    \A k \in Kinds, u \in UIDs : seen[k][u] # "unborn" => seen'[k][u] # "unborn"

\* The Lease is left alone, or removed when it names no run with work left, or
\* claimed for an existing run when its holder, if it has one, is over and of the
\* same kind.
LeaseMoves ==
    \/ UNCHANGED <<lease, rev>>
    \/ /\ lease' = NoLease /\ rev' = rev
       /\ \A u \in UIDs : lease.uid = u => stage[u] \in Started
    \/ \E u \in UIDs :
          /\ lease' = Claim(u, rev + 1) /\ rev' = rev + 1 /\ Born(u)
          /\ lease = NoLease \/ (~Malformed(lease) /\ lease.kind = KindOf[u])
          /\ \A v \in UIDs : lease.uid = v => stage[v] \in Over

\* Remembered versions of the Lease are copied from the store or from the cache.
CopiesMove ==
    \A k \in Kinds :
        /\ \/ seenLease'[k] = seenLease[k]
           \/ seenLease'[k] = lease /\ UNCHANGED <<lease, rev>>
        /\ \/ snap'[k] \in {snap[k], NoLease}
           \/ snap'[k] \in {lease, seenLease[k]} /\ UNCHANGED <<lease, rev>>

\* Every action moves resources and caches forward.
LEMMA NextForward ==
    ASSUME TypeOK, LeaseInvariant, Next
    PROVE  Forward /\ CachesForward /\ CacheOK'
<1> USE DEF TypeOK, Forward, CachesForward, CacheOK, LeaseInvariant,
            storeVars, cacheVars, Started, Over, Terminal, Stages
<1>1. CASE UNCHANGED <<stage, seen>>
    BY <1>1
<1>2. ASSUME NEW u \in UIDs, CreateObject(u) \/ RequestDeletion(u) \/ ForceRemove(u)
      PROVE  Forward /\ CachesForward /\ CacheOK'
    BY <1>2 DEF CreateObject, RequestDeletion, ForceRemove, Living
<1>3. ASSUME NEW k \in Kinds, SyncObjects(k) PROVE Forward /\ CachesForward /\ CacheOK'
    BY <1>3 DEF SyncObjects, Listed
<1>4. CASE Restart
    BY <1>4 DEF Restart, Listed
<1>5. ASSUME NEW k \in Kinds, EndBeforeLease(k) \/ WorkEnds(k) \/ Close(k)
      PROVE  Forward /\ CachesForward /\ CacheOK'
  <2>1. me[k] \in UIDs /\ stage[me[k]] # "unborn" /\ UNCHANGED seen
    BY <1>5 DEF EndBeforeLease, WorkEnds, Close, PassOK, Born
  <2>2. Forward
    BY <1>5, <2>1 DEF EndBeforeLease, WorkEnds, Close, Completed, PassOK
  <2> QED
    BY <2>1, <2>2
<1> QED
    BY <1>1, <1>2, <1>3, <1>4, <1>5
       DEF Next, Environment, Worker, Acquire, Release, RemoveMalformedLease, SyncLease,
           Reconcile, AcquireGet, AcquireInsert, AcquireResolve, AcquireTakeOver,
           WorkWaits, Holds, DeactivateMaintenance, ReleaseGet, ReleaseDelete, CloseWaits,
           PassFails

\* A remembered version that is not malformed and not held by u, and of the kind
\* of u, names its holder completely: resolve looks up the right resource.
LEMMA ResolvedHolder ==
    ASSUME NEW l \in Lease, NEW u \in UIDs, AcquireDecision(l, u) = "resolve"
    PROVE  Exists(l) /\ l.uid \in UIDs /\ l.kind = KindOf[u]
BY HolderAssumption DEF AcquireDecision, Exists, IsHolder, Malformed, Lease, Kinds, NoKind

\* Every action treats the Lease as OperationLease asks for.
LEMMA NextMovesLease ==
    ASSUME TypeOK, LeaseInvariant, Next
    PROVE  LeaseMoves
<1>1. CASE UNCHANGED <<lease, rev>>
    BY <1>1 DEF LeaseMoves
<1>2. CASE RemoveMalformedLease
  <2>1. RecordOK(lease) /\ Malformed(lease)
    BY <1>2 DEF RemoveMalformedLease, LeaseInvariant
  <2>2. lease.uid \notin UIDs
    BY <2>1, Identity DEF RecordOK, Malformed
  <2> QED
    BY <1>2, <2>2 DEF RemoveMalformedLease, LeaseMoves
<1>3. ASSUME NEW k \in Kinds, AcquireInsert(k), ~UNCHANGED <<lease, rev>> PROVE LeaseMoves
  <2>1. lease = NoLease
    BY <1>3 DEF AcquireInsert, Exists, LeaseInvariant, RecordOK
  <2>2. me[k] \in UIDs /\ Born(me[k])
    BY <1>3 DEF AcquireInsert, TypeOK, LeaseInvariant, PassOK
  <2> QED
    BY <1>3, <2>1, <2>2, HolderAssumption DEF AcquireInsert, LeaseMoves, NoLease
<1>4. ASSUME NEW k \in Kinds, AcquireTakeOver(k), ~UNCHANGED <<lease, rev>> PROVE LeaseMoves
  <2>1. lease = snap[k]
    BY <1>4 DEF AcquireTakeOver, LeaseInvariant, RecordOK
  <2>2. /\ me[k] \in UIDs /\ Born(me[k])
        /\ snap[k].uid \in UIDs /\ stage[snap[k].uid] \in Over
        /\ snap[k].kind = KindOf[me[k]]
    BY <1>4 DEF AcquireTakeOver, TypeOK, LeaseInvariant, PassOK
  <2>3. ~Malformed(lease)
    BY <2>1, <2>2, Identity DEF LeaseInvariant, RecordOK, Malformed
  <2> QED
    BY <1>4, <2>1, <2>2, <2>3 DEF AcquireTakeOver, LeaseMoves
<1>5. ASSUME NEW k \in Kinds, ReleaseDelete(k), ~UNCHANGED <<lease, rev>> PROVE LeaseMoves
  <2>1. lease.rv = snap[k].rv /\ lease' = NoLease /\ rev' = rev /\ pc[k] = "delete"
    BY <1>5 DEF ReleaseDelete
  <2>2. lease.uid = me[k] /\ stage[me[k]] \in Started
    BY <2>1 DEF LeaseInvariant, RecordOK, PassOK, IsHolder
  <2> QED
    BY <2>1, <2>2 DEF LeaseMoves
<1> QED
    BY <1>1, <1>2, <1>3, <1>4, <1>5
       DEF Next, Environment, Worker, Acquire, Release, storeVars, CreateObject,
           RequestDeletion, ForceRemove, SyncObjects, SyncLease, Restart, Reconcile,
           EndBeforeLease, AcquireGet, AcquireResolve, WorkWaits, WorkEnds, Holds,
           DeactivateMaintenance, ReleaseGet, Close, CloseWaits, PassFails

\* What workers and caches remember of the Lease are copies.
LEMMA NextMovesCopies ==
    ASSUME TypeOK, Next
    PROVE  CopiesMove
<1> USE DEF TypeOK, CopiesMove
<1>1. CASE UNCHANGED <<snap, seenLease>>
    BY <1>1
<1>2. ASSUME NEW k \in Kinds, EndPass(k), UNCHANGED seenLease PROVE CopiesMove
    BY <1>2 DEF EndPass
<1>3. ASSUME NEW k \in Kinds, SyncLease(k) PROVE CopiesMove
    BY <1>3 DEF SyncLease, storeVars, workerVars
<1>4. CASE Restart
    BY <1>4 DEF Restart, storeVars
<1>5. ASSUME NEW k \in Kinds, AcquireGet(k) \/ ReleaseGet(k), ~EndPass(k) PROVE CopiesMove
    BY <1>5 DEF AcquireGet, ReleaseGet, LeaseRead, storeVars, cacheVars
<1> QED
    BY <1>1, <1>2, <1>3, <1>4, <1>5
       DEF Next, Environment, Worker, Acquire, Release, cacheVars, workerVars, CreateObject,
           RequestDeletion, ForceRemove, RemoveMalformedLease, SyncObjects, Reconcile,
           EndBeforeLease, AcquireGet, AcquireInsert, AcquireResolve, AcquireTakeOver,
           WorkWaits, WorkEnds, Holds, DeactivateMaintenance, ReleaseGet, ReleaseDelete, Close,
           CloseWaits, PassFails

\* Remembered versions of the Lease stay versions that were in the store.
LEMMA RecordsKept ==
    ASSUME TypeOK, TypeOK', LeaseInvariant, Forward, CachesForward, LeaseMoves, CopiesMove
    PROVE  RecordOK(lease)' /\ \A k \in Kinds : RecordOK(seenLease[k])' /\ RecordOK(snap[k])'
<1> DEFINE BornNext(u) ==
        /\ stage'[u] # "unborn"
        /\ KindOf[u] \in CachedObjects => seen'[KindOf[u]][u] # "unborn"
<1> DEFINE Copied(l) ==
        /\ l.rv = 0 => l = NoLease
        /\ l.rv <= rev
        /\ l.rv = lease.rv => l = lease
        /\ l.uid \in UIDs => l.name = NameOf[l.uid] /\ l.kind = KindOf[l.uid]
        /\ l.uid \in UIDs => BornNext(l.uid)
<1>1. \A u \in UIDs : Born(u) => BornNext(u)
    BY HolderAssumption DEF Born, Forward, CachesForward
<1>2. Copied(lease) /\ Copied(NoLease)
    BY <1>1, HolderAssumption DEF LeaseInvariant, RecordOK, NoLease, TypeOK
<1>3. \A k \in Kinds : Copied(seenLease[k]) /\ Copied(snap[k])
    BY <1>1 DEF LeaseInvariant, RecordOK
<1> DEFINE RecordNext(l) ==
        /\ l.rv = 0 => l = NoLease
        /\ l.rv <= rev'
        /\ l.rv = lease'.rv => l = lease'
        /\ l.uid \in UIDs => l.name = NameOf[l.uid] /\ l.kind = KindOf[l.uid]
        /\ l.uid \in UIDs => BornNext(l.uid)
<1>4. \A l \in Lease : Copied(l) => RecordNext(l)
  <2>1. CASE UNCHANGED <<lease, rev>> \/ (lease' = NoLease /\ rev' = rev)
    BY <2>1 DEF NoLease
  <2>2. ASSUME NEW u \in UIDs, lease' = Claim(u, rev + 1), rev' = rev + 1, Born(u)
        PROVE  \A l \in Lease : Copied(l) => RecordNext(l)
    <3>1. lease'.rv = rev + 1
      BY <2>2 DEF Claim
    <3>2. \A l \in Lease : Copied(l) => l.rv <= rev' /\ l.rv # lease'.rv
      BY <2>2, <3>1 DEF TypeOK, Lease
    <3> QED
      BY <3>2
  <2> QED
    BY <2>1, <2>2 DEF LeaseMoves
<1>5. RecordNext(lease')
  <2>1. CASE UNCHANGED <<lease, rev>> \/ (lease' = NoLease /\ rev' = rev)
    BY <1>2, <1>4, <2>1, LeaseValues DEF TypeOK
  <2>2. ASSUME NEW u \in UIDs, lease' = Claim(u, rev + 1), rev' = rev + 1, Born(u)
        PROVE  RecordNext(lease')
    BY <1>1, <2>2 DEF Claim, TypeOK
  <2> QED
    BY <2>1, <2>2 DEF LeaseMoves
<1>6. \A k \in Kinds : RecordNext(seenLease'[k]) /\ RecordNext(snap'[k])
    <2>1. \A k \in Kinds : /\ Copied(seenLease'[k]) /\ seenLease'[k] \in Lease
                          /\ Copied(snap'[k]) /\ snap'[k] \in Lease
      <3> HIDE DEF Copied
      <3> QED BY <1>2, <1>3 DEF CopiesMove, TypeOK
    <2> QED
      <3> HIDE DEF Copied, RecordNext
      <3> QED BY <1>4, <2>1
<1> QED
    BY <1>5, <1>6 DEF RecordOK, Born

\* A cached lease of a run with work left stays the lease of that run.
LEMMA HeldKept ==
    ASSUME TypeOK, LeaseInvariant, Forward, LeaseMoves, CopiesMove
    PROVE  \A k \in Kinds : HeldOK(k)'
<1> SUFFICES ASSUME NEW k \in Kinds, NEW u \in UIDs,
                    IsHolder(seenLease'[k], u), stage'[u] = "create"
             PROVE  IsHolder(lease', u)
    BY DEF HeldOK, IsHolder
<1>1. CASE seenLease'[k] = lease /\ UNCHANGED <<lease, rev>>
    BY <1>1
<1>2. CASE seenLease'[k] = seenLease[k]
  <2>1. stage[u] = "create"
    BY <1>2 DEF Forward, LeaseInvariant, RecordOK, Born, IsHolder
  <2>2. IsHolder(lease, u)
    BY <1>2, <2>1 DEF LeaseInvariant, HeldOK
  <2> QED
    BY <2>1, <2>2 DEF LeaseMoves, IsHolder, Started, Over, Terminal
<1> QED
    BY <1>1, <1>2 DEF CopiesMove

\* ActiveRunOwnsLease for one worker.
ActiveOK(k) ==
    pc[k] = "working" /\ stage[me[k]] = "create" => IsHolder(lease, me[k])

\* A worker that does not step, or ends its pass, keeps what it knows.
LEMMA OthersKept ==
    ASSUME TypeOK, LeaseInvariant, Forward, CachesForward, LeaseMoves, NEW j \in Kinds,
           \/ pc'[j] = "idle"
           \/ pc'[j] = pc[j] /\ me'[j] = me[j] /\ snap'[j] = snap[j]
    PROVE  PassOK(j)' /\ ActiveOK(j)'
<1>1. CASE pc'[j] = "idle"
    BY <1>1 DEF PassOK, ActiveOK
<1>2. CASE pc[j] # "idle" /\ pc'[j] = pc[j] /\ me'[j] = me[j] /\ snap'[j] = snap[j]
  <2>1. PassOK(j) /\ ActiveOK(j) /\ me[j] \in UIDs
    BY <1>2 DEF LeaseInvariant, ActiveRunOwnsLease, ActiveOK, TypeOK
  <2>2. PassOK(j)'
    BY <1>2, <2>1, HolderAssumption
       DEF PassOK, Born, Forward, CachesForward, Exists, IsHolder
  <2>3. ActiveOK(j)'
    <3> SUFFICES ASSUME pc[j] = "working", stage'[me[j]] = "create"
                 PROVE  IsHolder(lease', me[j])
        BY <1>2 DEF ActiveOK, IsHolder
    <3>1. stage[me[j]] = "create"
        BY <1>2, <2>1 DEF Forward, PassOK, Born
    <3>2. lease.uid = me[j] /\ IsHolder(lease, me[j])
        BY <2>1, <3>1 DEF ActiveOK, IsHolder
    <3> QED
        BY <2>1, <3>1, <3>2 DEF LeaseMoves, IsHolder, Started, Over, Terminal
  <2> QED
    BY <2>2, <2>3
<1> QED
    BY <1>1, <1>2

\* A worker that goes on with its pass learns only what is true.
LEMMA WorkerKept ==
    ASSUME TypeOK, TypeOK', LeaseInvariant, Forward, CachesForward,
           NEW k \in Kinds, Worker(k), pc'[k] # "idle"
    PROVE  PassOK(k)' /\ ActiveOK(k)'
<1> USE DEF TypeOK, Goto, storeVars, cacheVars
<1>0. ~EndPass(k)
    BY DEF EndPass
<1>1. ASSUME NEW u \in UIDs, Reconcile(k, u) PROVE PassOK(k)' /\ ActiveOK(k)'
  <2>1. Born(u)
    BY <1>1 DEF Reconcile, Objects, Living, Stages, Born, LeaseInvariant, CacheOK
  <2>2. pc'[k] \in {"acquire", "holds", "release"}
    BY <1>1 DEF Reconcile, Cleanup
  <2>3. pc'[k] # "acquire" => stage[u] \in Started
    BY <1>1 DEF Reconcile, Objects, RequiredOperation, Living, Stages, Started,
                LeaseInvariant, CacheOK
  <2> QED
    BY <1>1, <2>1, <2>2, <2>3 DEF Reconcile, PassOK, ActiveOK, Born
<1>2. CASE AcquireGet(k)
  <2> DEFINE l == LeaseRead(k)
  <2>1. PassOK(k) /\ me[k] \in UIDs /\ l \in Lease
    BY <1>2 DEF AcquireGet, LeaseInvariant, LeaseRead
  <2>2. CASE AcquireDecision(l, me[k]) = "create"
    BY <1>2, <1>0, <2>1, <2>2 DEF AcquireGet, PassOK, ActiveOK, Born
  <2>3. CASE AcquireDecision(l, me[k]) = "held"
    <3>1. IsHolder(l, me[k])
      BY <2>3 DEF AcquireDecision
    <3>2. stage[me[k]] = "create" => IsHolder(lease, me[k])
      BY <2>1, <3>1 DEF LeaseInvariant, HeldOK, LeaseRead
    <3> QED
      BY <1>2, <1>0, <2>1, <2>3, <3>2 DEF AcquireGet, PassOK, ActiveOK, Born, IsHolder
  <2>4. CASE AcquireDecision(l, me[k]) = "resolve"
    <3>1. Exists(l) /\ l.uid \in UIDs /\ l.kind = k
      BY <2>1, <2>4, <1>2, ResolvedHolder DEF PassOK, AcquireGet
    <3>2. snap'[k] = l /\ pc'[k] = "resolve"
      BY <1>2, <1>0, <2>4 DEF AcquireGet
    <3> QED
      BY <1>2, <1>0, <2>1, <2>4, <3>1, <3>2 DEF AcquireGet, PassOK, ActiveOK, Born, Exists
  <2> QED
    BY <1>2, <1>0, <2>2, <2>3, <2>4 DEF AcquireGet
<1>3. CASE AcquireResolve(k)
  <2>1. /\ PassOK(k) /\ me[k] \in UIDs /\ pc[k] = "resolve"
        /\ ~ActiveHolder(Objects(k), snap[k])
        /\ pc'[k] = "takeover" /\ UNCHANGED <<stage, seen, me, snap>>
    BY <1>3, <1>0 DEF AcquireResolve, LeaseInvariant
  <2> DEFINE w == snap[k].uid
  <2>2. /\ w \in UIDs /\ snap[k].kind = k /\ Exists(snap[k])
        /\ KindOf[w] = k /\ NameOf[w] = snap[k].name /\ Born(w)
    BY <2>1 DEF PassOK, LeaseInvariant, RecordOK
  <2>3. Objects(k)[w] \notin Living \/ Objects(k)[w] \in Terminal
    BY <2>1, <2>2 DEF ActiveHolder
  <2>4. Objects(k)[w] \in Over
    BY <2>2, <2>3 DEF Objects, Born, Living, Stages, Over
  <2>5. stage[w] \in Over
    BY <2>2, <2>4 DEF Objects, LeaseInvariant, CacheOK
  <2> QED
    BY <2>1, <2>2, <2>5 DEF PassOK, ActiveOK, Born, Exists
<1>4. CASE WorkEnds(k)
  <2>1. pc[k] = "working" /\ pc'[k] = "holds" /\ UNCHANGED <<seen, me, snap>>
    BY <1>4, <1>0 DEF WorkEnds, Cleanup
  <2>2. stage'[me[k]] \in Started
    BY <1>4, <1>0 DEF WorkEnds, Living, Stages, Started
  <2> QED
    BY <2>1, <2>2 DEF PassOK, ActiveOK, Born, Started, LeaseInvariant
<1>5. CASE Holds(k) \/ DeactivateMaintenance(k) \/ ReleaseGet(k)
    BY <1>5 DEF Holds, DeactivateMaintenance, ReleaseGet, LeaseRead, PassOK, ActiveOK, Born,
                Exists, IsHolder, LeaseInvariant
<1>6. CASE ReleaseDelete(k)
    BY <1>6, <1>0 DEF ReleaseDelete, PassOK, ActiveOK, Born, LeaseInvariant
<1> QED
    BY <1>0, <1>1, <1>2, <1>3, <1>4, <1>5, <1>6
       DEF Worker, Acquire, Release, EndBeforeLease, AcquireInsert, AcquireTakeOver,
           WorkWaits, Close, CloseWaits, PassFails

\* The invariant holds before any pass or claim.
LEMMA InvariantInit == Init => LeaseInvariant
<1> SUFFICES ASSUME Init PROVE LeaseInvariant
    OBVIOUS
<1>1. \A l \in {NoLease} \cup ForeignLeases :
         l.uid \notin UIDs /\ l.rv <= rev /\ (l.rv = 0 => l = NoLease)
    BY HolderAssumption DEF Init, NoLease, ForeignLeases
<1>2. RecordOK(lease) /\ RecordOK(NoLease) /\ \A k \in Kinds : seenLease[k] \in {lease, NoLease}
    BY <1>1 DEF Init, RecordOK, NoLease, ForeignLeases
<1>3. \A k \in Kinds : RecordOK(seenLease[k]) /\ RecordOK(snap[k])
    BY <1>2 DEF Init
<1>4. CacheOK
    BY DEF Init, CacheOK, Started, Over, Terminal
<1>5. \A k \in Kinds : PassOK(k) /\ HeldOK(k)
    BY <1>1, <1>2 DEF Init, PassOK, HeldOK, IsHolder
<1> QED
    BY <1>2, <1>3, <1>4, <1>5 DEF Init, LeaseInvariant, ActiveRunOwnsLease

\* The invariant is inductive: every step of a worker, a cache or a user keeps it.
LEMMA InvariantStep == TypeOK /\ TypeOK' /\ LeaseInvariant /\ [Next]_vars => LeaseInvariant'
<1> SUFFICES ASSUME TypeOK, TypeOK', LeaseInvariant, [Next]_vars PROVE LeaseInvariant'
    OBVIOUS
<1>1. CASE UNCHANGED vars
    BY <1>1 DEF vars, storeVars, cacheVars, workerVars, boundVars, LeaseInvariant, RecordOK,
                Born, CacheOK, PassOK, HeldOK, ActiveRunOwnsLease, Exists, IsHolder
<1>2. CASE Next
  <2>1. Forward /\ CachesForward /\ CacheOK' /\ LeaseMoves /\ CopiesMove
    BY <1>2, NextForward, NextMovesLease, NextMovesCopies
  <2>2. RecordOK(lease)' /\ \A k \in Kinds : RecordOK(seenLease[k])' /\ RecordOK(snap[k])'
    BY <2>1, RecordsKept
  <2>3. \A k \in Kinds : HeldOK(k)'
    BY <2>1, HeldKept
  <2>4. \A k \in Kinds : PassOK(k)' /\ ActiveOK(k)'
    <3>1. CASE \A j \in Kinds : \/ pc'[j] = "idle"
                               \/ (pc'[j] = pc[j] /\ me'[j] = me[j] /\ snap'[j] = snap[j])
        BY <2>1, <3>1, OthersKept
    <3>2. ASSUME NEW k \in Kinds, Worker(k) PROVE \A j \in Kinds : PassOK(j)' /\ ActiveOK(j)'
      <4>1. \A j \in Kinds \ {k} : pc'[j] = pc[j] /\ me'[j] = me[j] /\ snap'[j] = snap[j]
        BY <3>2 DEF TypeOK, Worker, Acquire, Release, Goto, EndPass, Reconcile, EndBeforeLease,
             AcquireGet, AcquireInsert, AcquireResolve, AcquireTakeOver, WorkWaits, WorkEnds, Holds,
             DeactivateMaintenance, ReleaseGet, ReleaseDelete, Close, CloseWaits, PassFails
      <4>2. \A j \in Kinds \ {k} : PassOK(j)' /\ ActiveOK(j)'
        BY <2>1, <4>1, OthersKept
      <4>3. PassOK(k)' /\ ActiveOK(k)'
        BY <2>1, <3>2, OthersKept, WorkerKept
      <4> QED
        BY <4>2, <4>3
    <3>3. CASE Environment
      <4>1. UNCHANGED workerVars
        BY <3>3 DEF Environment, CreateObject, RequestDeletion, ForceRemove,
                    RemoveMalformedLease, SyncObjects, SyncLease
      <4> QED
        BY <4>1, <3>1 DEF workerVars
    <3>4. CASE Restart
      <4>1. \A j \in Kinds : pc'[j] = "idle"
        BY <3>4 DEF Restart
      <4> QED
        BY <4>1, <2>1, OthersKept
    <3> QED
      BY <1>2, <3>2, <3>3, <3>4 DEF Next
  <2> QED
    BY <2>1, <2>2, <2>3, <2>4 DEF LeaseInvariant, ActiveRunOwnsLease, ActiveOK
<1> QED
    BY <1>1, <1>2

\* The inductive invariant of the lease protocol holds in every behaviour.
THEOREM InvariantHolds == Spec => []LeaseInvariant
<1>1. Init => TypeOK /\ LeaseInvariant
    BY TypeInit, InvariantInit
<1> QED
    BY <1>1, TypeCorrect, InvariantInit, InvariantStep, PTL DEF Spec

\* A worker executes the protected stages of a run with work left only while the
\* Lease in the store names that run, whatever its caches show (Acquire, Release).
THEOREM ActiveRunSafe == Spec => []ActiveRunOwnsLease
<1>1. LeaseInvariant => ActiveRunOwnsLease
    BY DEF LeaseInvariant
<1> QED
    BY <1>1, InvariantHolds, PTL

-------------------------------------------------------------------------------
(* Exclusion. *)

\* A worker that executes the protected stages of a run with work left.
ActiveRun(k) == pc[k] = "working" /\ stage[me[k]] = "create"

\* Whatever the caches show, a backup and a restore with work left never execute their
\* protected stages at once: only a run that is over or being deleted can lose the
\* exclusion that docs/development/parallel_access_en.md promises (Acquire).
THEOREM ActiveRunsExclude == Spec => []~(ActiveRun("Backup") /\ ActiveRun("Restore"))
<1>1. LeaseInvariant => ~(ActiveRun("Backup") /\ ActiveRun("Restore"))
  <2> SUFFICES ASSUME LeaseInvariant, ActiveRun("Backup"), ActiveRun("Restore") PROVE FALSE
    OBVIOUS
  <2>1. IsHolder(lease, me["Backup"]) /\ IsHolder(lease, me["Restore"])
    BY DEF LeaseInvariant, ActiveRunOwnsLease, ActiveRun, Kinds
  <2>2. KindOf[me["Backup"]] = "Backup" /\ KindOf[me["Restore"]] = "Restore"
    BY DEF LeaseInvariant, PassOK, ActiveRun, Kinds
  <2> QED
    BY <2>1, <2>2 DEF IsHolder
<1> QED
    BY <1>1, InvariantHolds, PTL

\* The steps of a pass that only the holder of the lease may be in: behind
\* ensureActiveBackupLease or ensureActiveRestoreLease, and behind Holds.
HolderSteps == {"working", "clean"}

\* Whatever its pass found, a worker in one of them still is the holder that the
\* Lease names.
WorkersHold == \A k \in Kinds : pc[k] \in HolderSteps => IsHolder(lease, me[k])

\* Only the worker of the kind that the Lease names writes it: a holder of the
\* other kind is waited for, and a release asks for its own identity.
LEMMA OthersKeepHolder ==
    ASSUME TypeOK, LeaseInvariant, Next, NEW k \in Kinds, pc[k] \in HolderSteps,
           pc'[k] \in HolderSteps, IsHolder(lease, me[k])
    PROVE  lease' = lease
<1> USE DEF HolderSteps
<1>1. me[k] \in UIDs /\ KindOf[me[k]] = k /\ lease.uid = me[k] /\ lease.kind = k
    BY DEF TypeOK, LeaseInvariant, PassOK, IsHolder
<1>2. Exists(lease)
    BY <1>1, Identity DEF LeaseInvariant, RecordOK, Exists, NoLease
<1>3. CASE RemoveMalformedLease
  <2>1. ~Malformed(lease)
    BY <1>1, Identity DEF LeaseInvariant, RecordOK, Malformed
  <2> QED
    BY <1>3, <2>1 DEF RemoveMalformedLease
<1>4. ASSUME NEW j \in Kinds, AcquireInsert(j) PROVE lease' = lease
    BY <1>2, <1>4 DEF AcquireInsert
<1>5. ASSUME NEW j \in Kinds, AcquireTakeOver(j) PROVE lease' = lease
  <2>1. pc[j] = "takeover" /\ snap[j].kind = j
    BY <1>5 DEF AcquireTakeOver, LeaseInvariant, PassOK
  <2>2. snap[j].rv = lease.rv => snap[j] = lease
    BY DEF LeaseInvariant, RecordOK
  <2>3. j # k
    BY <2>1
  <2> QED
    BY <1>1, <1>5, <2>1, <2>2, <2>3 DEF AcquireTakeOver
<1>6. ASSUME NEW j \in Kinds, ReleaseDelete(j) PROVE lease' = lease
  <2>1. pc[j] = "delete" /\ IsHolder(snap[j], me[j]) /\ KindOf[me[j]] = j
    BY <1>6 DEF ReleaseDelete, LeaseInvariant, PassOK
  <2>2. snap[j].rv = lease.rv => snap[j] = lease
    BY DEF LeaseInvariant, RecordOK
  <2>3. j # k
    BY <2>1
  <2> QED
    BY <1>1, <1>2, <1>6, <2>1, <2>2, <2>3 DEF ReleaseDelete, IsHolder
<1> QED
    BY <1>3, <1>4, <1>5, <1>6
       DEF Next, Environment, Worker, Acquire, Release, storeVars, CreateObject,
           RequestDeletion, ForceRemove, SyncObjects, SyncLease, Restart, Reconcile,
           EndBeforeLease, AcquireGet, AcquireResolve, WorkWaits, WorkEnds, Holds,
           DeactivateMaintenance, ReleaseGet, Close, CloseWaits, PassFails

\* A worker that reads the Lease live comes to these steps only as its holder.
LEMMA StartsAsHolder ==
    ASSUME CachedLeases = {}, TypeOK, Next, NEW k \in Kinds,
           pc[k] \notin HolderSteps, pc'[k] \in HolderSteps
    PROVE  IsHolder(lease', me'[k])
<1>1. /\ \/ AcquireGet(k) /\ AcquireDecision(lease, me[k]) = "held"
         \/ Holds(k) /\ IsHolder(lease, me[k])
      /\ UNCHANGED <<lease, me>>
    BY DEF HolderSteps, TypeOK, Next, Environment, Worker, Acquire, Release, workerVars,
           storeVars, Goto, EndPass, CreateObject, RequestDeletion, ForceRemove,
           RemoveMalformedLease, SyncObjects, SyncLease, Restart, Reconcile, EndBeforeLease,
           AcquireGet, AcquireInsert, AcquireResolve, AcquireTakeOver, WorkWaits, WorkEnds,
           Cleanup, Holds, DeactivateMaintenance, ReleaseGet, ReleaseDelete, Close,
           CloseWaits, PassFails, LeaseRead
<1>2. IsHolder(lease, me[k])
    BY <1>1 DEF AcquireDecision
<1> QED
    BY <1>1, <1>2 DEF IsHolder

\* WorkersHold is kept by every step.
LEMMA HoldersKept ==
    ASSUME CachedLeases = {}, TypeOK, LeaseInvariant, WorkersHold, [Next]_vars
    PROVE  WorkersHold'
<1> SUFFICES ASSUME NEW k \in Kinds, pc'[k] \in HolderSteps
             PROVE  IsHolder(lease', me'[k])
    BY DEF WorkersHold, IsHolder
<1>1. CASE UNCHANGED vars
    BY <1>1 DEF vars, storeVars, workerVars, WorkersHold, IsHolder
<1>2. CASE Next /\ pc[k] \notin HolderSteps
    BY <1>2, StartsAsHolder
<1>3. CASE Next /\ pc[k] \in HolderSteps
  <2>1. IsHolder(lease, me[k])
    BY <1>3 DEF WorkersHold
  <2>2. lease' = lease
    BY <1>3, <2>1, OthersKeepHolder
  <2>3. me'[k] = me[k]
    BY <1>3 DEF HolderSteps, TypeOK, Next, Environment, Worker, Acquire, Release, workerVars,
           Goto, EndPass, CreateObject, RequestDeletion, ForceRemove, RemoveMalformedLease,
           SyncObjects, SyncLease, Restart, Reconcile, EndBeforeLease, AcquireGet,
           AcquireInsert, AcquireResolve, AcquireTakeOver, WorkWaits, WorkEnds, Cleanup, Holds,
           DeactivateMaintenance, ReleaseGet, ReleaseDelete, Close, CloseWaits, PassFails
  <2> QED
    BY <2>1, <2>2, <2>3 DEF IsHolder
<1> QED
    BY <1>1, <1>2, <1>3

\* With live reads WorkersHold is an invariant of the specification.
LEMMA LiveReadsHold == CachedLeases = {} => (Spec => []WorkersHold)
<1> SUFFICES ASSUME CachedLeases = {} PROVE Spec => []WorkersHold
    OBVIOUS
<1>1. Init => WorkersHold
    BY DEF Init, WorkersHold, HolderSteps
<1>2. TypeOK /\ LeaseInvariant /\ WorkersHold /\ [Next]_vars => WorkersHold'
    BY HoldersKept
<1> QED
    BY <1>1, <1>2, TypeCorrect, InvariantHolds, PTL DEF Spec

\* When both controllers read the Lease live, a backup and a restore never execute
\* their protected stages at once, whatever they read of the custom resources,
\* whatever is removed by force and whichever calls fail (Acquire, Release).
THEOREM LiveReadsExclude == CachedLeases = {} => (Spec => []OperationsExclude)
<1> SUFFICES ASSUME CachedLeases = {} PROVE Spec => []OperationsExclude
    OBVIOUS
<1>1. LeaseInvariant /\ WorkersHold => OperationsExclude
  <2> SUFFICES ASSUME LeaseInvariant, WorkersHold, pc["Backup"] = "working",
                      pc["Restore"] = "working"
               PROVE  FALSE
    BY DEF OperationsExclude
  <2>1. IsHolder(lease, me["Backup"]) /\ IsHolder(lease, me["Restore"])
    BY DEF WorkersHold, HolderSteps, Kinds
  <2>2. KindOf[me["Backup"]] = "Backup" /\ KindOf[me["Restore"]] = "Restore"
    BY DEF LeaseInvariant, PassOK, Kinds
  <2> QED
    BY <2>1, <2>2 DEF IsHolder
<1> QED
    BY <1>1, LiveReadsHold, InvariantHolds, PTL

\* When the Backup controller reads the Lease live, a backup that passed Holds still
\* owns the lease when it calls Deactivate: nobody can take the lease in between, and
\* the clean-up touches no other operation's maintenance mode.
THEOREM LiveReadsClean == CachedLeases = {} => (Spec => []CleansOwnMaintenance)
<1> SUFFICES ASSUME CachedLeases = {} PROVE Spec => []CleansOwnMaintenance
    OBVIOUS
<1>1. WorkersHold => CleansOwnMaintenance
    BY DEF WorkersHold, HolderSteps, Kinds, CleansOwnMaintenance, IsHolder
<1> QED
    BY <1>1, LiveReadsHold, PTL

-------------------------------------------------------------------------------
(* The refinement. *)

\* The initial lease maps to a free or an unreadable OperationLease.
LEMMA AbstractInit == Init => Abstract!Init
BY HolderAssumption
   DEF Init, Abstract!Init, Owner, Exists, Malformed, NoLease, ForeignLeases

\* Every step of the lease manager is a step of OperationLease or a stutter.
LEMMA AbstractStep ==
    TypeOK /\ TypeOK' /\ LeaseInvariant /\ [Next]_vars => [Abstract!Next]_(Abstract!vars)
<1> SUFFICES ASSUME TypeOK, TypeOK', LeaseInvariant, [Next]_vars
             PROVE  [Abstract!Next]_(Abstract!vars)
    OBVIOUS
<1>1. CASE UNCHANGED vars
    BY <1>1 DEF vars, storeVars, Abstract!vars, Owner, Exists, Malformed
<1>2. CASE Next
  <2>1. Forward /\ LeaseMoves
    BY <1>2, NextForward, NextMovesLease
  <2>2. CASE UNCHANGED <<lease, rev>>
    <3>1. Owner' = Owner
      BY <2>2 DEF Owner, Exists, Malformed
    <3>2. Abstract!Live
      BY <2>1, <3>1 DEF Forward, Abstract!Live, Abstract!Stages, Abstract!Over, TypeOK,
                        Stages, Started, Over, Terminal
    <3> QED
      BY <3>2 DEF Abstract!Next
  <2>3. CASE ~UNCHANGED <<lease, rev>>
    <3>1. UNCHANGED stage
      BY <1>2, <2>3
         DEF Next, Environment, Worker, Acquire, Release, storeVars, CreateObject,
             RequestDeletion, ForceRemove, RemoveMalformedLease, SyncObjects, SyncLease,
             Restart, Reconcile, EndBeforeLease, AcquireGet, AcquireInsert, AcquireResolve,
             AcquireTakeOver, WorkWaits, WorkEnds, Holds, DeactivateMaintenance, ReleaseGet,
             ReleaseDelete, Close, CloseWaits, PassFails
    <3>2. \A u \in UIDs : Owner = u => lease.uid = u
      BY HolderAssumption DEF Owner
    <3>3. CASE lease' = NoLease
      <4>1. Owner' = NoUID
        BY <3>3 DEF Owner, Exists, NoLease
      <4>2. Owner \in UIDs => stage[Owner] \notin Abstract!Running
        BY <2>1, <2>3, <3>2, <3>3, HolderAssumption
           DEF LeaseMoves, Started, Over, Terminal, Abstract!Running
      <4> QED
        BY <3>1, <4>1, <4>2 DEF Abstract!GiveBack, Abstract!Next
    <3>4. ASSUME NEW u \in UIDs, lease' = Claim(u, rev + 1),
                 lease = NoLease \/ ~Malformed(lease),
                 \A v \in UIDs : lease.uid = v => stage[v] \in Over
          PROVE  [Abstract!Next]_(Abstract!vars)
      <4>1. Owner' = u
        <5>1. /\ lease'.rv = rev + 1 /\ lease'.uid = u
              /\ lease'.name = NameOf[u] /\ lease'.kind = KindOf[u]
          BY <3>4 DEF Claim
        <5>2. rev + 1 # 0
          BY DEF TypeOK
        <5> QED
          BY <5>1, <5>2, Identity DEF Owner, Exists, Malformed
      <4>2. Owner = NoUID \/ (Owner \in UIDs /\ stage[Owner] \in Abstract!Over)
        <5>1. CASE ~Exists(lease)
          BY <5>1 DEF Owner
        <5>2. CASE Exists(lease)
          <6>1. ~Malformed(lease)
            BY <3>4, <5>2 DEF Exists, NoLease
          <6>2. Owner = lease.uid /\ Owner \in UIDs
            BY <5>2, <6>1 DEF Owner, Malformed, TypeOK, Lease
          <6> QED
            BY <3>4, <6>2 DEF Over, Terminal, Abstract!Over
        <5> QED
          BY <5>1, <5>2
      <4> QED
        BY <3>1, <4>1, <4>2 DEF Abstract!Take, Abstract!Next
    <3> QED
      BY <2>1, <2>3, <3>3, <3>4 DEF LeaseMoves
  <2> QED
    BY <2>2, <2>3
<1> QED
    BY <1>1, <1>2

\* The lease manager implements OperationLease: one owner, a takeover only from a
\* run that is over, and no release of a run that has work left.
THEOREM Refinement == Spec => LeaseImplementsOperationLease
BY AbstractInit, AbstractStep, TypeCorrect, InvariantHolds, PTL
   DEF Spec, LeaseImplementsOperationLease, Abstract!Spec

-------------------------------------------------------------------------------
(* The lease as the two controllers' modules see it. *)

\* The kind that owns the lease changes by a step of MaintenanceProtocol.
LEMMA TurnsStep ==
    TypeOK /\ TypeOK' /\ LeaseInvariant /\ [Next]_vars => [Turns!Next]_(Turns!vars)
<1> SUFFICES ASSUME TypeOK, TypeOK', LeaseInvariant, [Next]_vars
             PROVE  [Turns!Next]_(Turns!vars)
    OBVIOUS
<1> USE DEF Turns!vars
<1>1. CASE UNCHANGED <<lease, rev>>
    BY <1>1 DEF HolderKind, Exists, Malformed
<1>2. CASE lease' = NoLease
  <2>1. HolderKind' = "free"
    BY <1>2 DEF HolderKind, Exists, NoLease
  <2>2. HolderKind \in Kinds \cup {"free"}
    BY DEF HolderKind, Malformed, TypeOK, Lease
  <2> QED
    BY <2>1, <2>2 DEF Turns!GiveBack, Turns!Next
<1>3. ASSUME NEW u \in UIDs, lease' = Claim(u, rev + 1),
             lease = NoLease \/ (~Malformed(lease) /\ lease.kind = KindOf[u])
      PROVE  [Turns!Next]_(Turns!vars)
  <2>1. HolderKind' = KindOf[u] /\ KindOf[u] \in Kinds
    <3>1. /\ lease'.rv = rev + 1 /\ lease'.uid = u
          /\ lease'.name = NameOf[u] /\ lease'.kind = KindOf[u]
      BY <1>3 DEF Claim
    <3>2. rev + 1 # 0
      BY DEF TypeOK
    <3> QED
      BY <3>1, <3>2, Identity, HolderAssumption DEF HolderKind, Exists, Malformed
  <2>2. HolderKind \in {"free", KindOf[u]}
    BY <1>3 DEF HolderKind, Exists, NoLease
  <2> QED
    BY <2>1, <2>2 DEF Turns!Take, Turns!Next
<1>4. CASE UNCHANGED vars
    BY <1>1, <1>4 DEF vars, storeVars
<1>5. CASE Next
  <2>1. LeaseMoves
    BY <1>5, NextMovesLease
  <2> QED
    BY <2>1, <1>1, <1>2, <1>3 DEF LeaseMoves
<1> QED
    BY <1>4, <1>5

\* Acquire and Release, call by call, with stale caches, crashes and foreign leases,
\* hand the Lease from one kind to the other only through "free": this is what
\* BackupController and RestoreController take for granted when they get and return
\* it in one step.
THEOREM LeaseTakesTurns == Spec => KindsTakeTurns
<1>1. Init => Turns!Init
    BY HolderAssumption
       DEF Init, Turns!Init, HolderKind, Exists, Malformed, NoLease, ForeignLeases
<1> QED
    BY <1>1, TurnsStep, TypeCorrect, InvariantHolds, PTL
       DEF Spec, KindsTakeTurns, Turns!Spec
===============================================================================
