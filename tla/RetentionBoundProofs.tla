------------------------- MODULE RetentionBoundProofs -------------------------
(***************************************************************************)
(* How much a garbage collection leaves behind: SavedBound, for any length *)
(* of a day and any schedule of the backup and the collections.            *)
(***************************************************************************)
EXTENDS RetentionProofs, FiniteSetTheorems

-------------------------------------------------------------------------------
(* The invariant. *)

\* The backup the schedule takes at tick t.
Planned(t) == [name |-> t, start |-> t]

\* The backup of this tick, when the schedule has one.
Today == {b \in {Planned(now)} : now % TicksPerDay = BackupTick}

\* What the strategy promises of the backups X it leaves.
Filtered(X) ==
    /\ Intervals =>
          /\ \A b \in X : \E interval \in Calendar : InInterval(interval, b.start, now)
          /\ \A interval \in Calendar : interval.mode # "ALL" =>
                \A b, c \in Within(interval, X, now) : b = c
    /\ strategy = "keepLastSevenDays" => \A b \in X : b.start >= now - 7 * TicksPerDay
    /\ strategy = "removeAllButKeepLatest" => \A b, c \in X : b = c

\* Without a mishap every start is recorded, and after the collection of a tick
\* nothing stays that the strategy does not keep.
NoStartLost  == missed = 0 => store \subseteq Recorded
CollectionOK ==
    missed = 0 /\ now % TicksPerDay \in CollectTicks /\ "collect" \notin due =>
        Filtered(store \ (todo \cup Today))

\* What a strategy leaves is filtered (FilterForRemoval).
LEMMA LeavesFiltered ==
    ASSUME TypeOK, RecordedOK, store \subseteq Recorded
    PROVE  Filtered(store \ FilterForRemoval(strategy, store, now))
<1> DEFINE X == store \ FilterForRemoval(strategy, store, now)
<1>1. \A b, c \in store : b.start = c.start => b = c
    BY DEF RecordedOK
<1>2. \A b \in store : b.start \in Int /\ b.name = b.start
    BY StartTypes DEF RecordedOK
<1>3. ASSUME strategy = "removeAllButKeepLatest", NEW b \in X, NEW c \in X PROVE b = c
  <2>1. b \in LatestOf(store) /\ c \in LatestOf(store)
    BY <1>3 DEF FilterForRemoval
  <2> QED
    BY <1>1, <1>2, <2>1 DEF LatestOf
<1>4. ASSUME strategy = "keepLastSevenDays", NEW b \in X
      PROVE  b.start >= now - 7 * TicksPerDay
  <2>1. ~(b.start < now - 7 * TicksPerDay)
    BY <1>4 DEF FilterForRemoval
  <2> QED
    BY <1>2, <2>1, DayAssumption DEF TypeOK
<1>5. ASSUME Intervals, NEW b \in X
      PROVE  \E interval \in Calendar : InInterval(interval, b.start, now)
    BY <1>5 DEF Intervals, FilterForRemoval, RemovedByIntervals
<1>6. ASSUME Intervals, NEW interval \in Calendar, interval.mode # "ALL",
             NEW b \in Within(interval, X, now), NEW c \in Within(interval, X, now)
      PROVE  b = c
  <2> DEFINE W == Within(interval, store, now)
  <2>1. b \in W /\ c \in W /\ b \in X /\ c \in X
    BY <1>6 DEF Within
  <2>2. b \notin RemovedByMode(interval.mode, W) /\ c \notin RemovedByMode(interval.mode, W)
    BY <1>6, <2>1 DEF Intervals, FilterForRemoval, RemovedByIntervals
  <2>3. b \in OldestOf(W) /\ c \in OldestOf(W)
    BY <1>6, <2>1, <2>2 DEF RemovedByMode
  <2> QED
    BY <1>1, <1>2, <2>1, <2>3 DEF OldestOf
<1> QED
    BY <1>3, <1>4, <1>5, <1>6 DEF Filtered

\* Fewer backups are still filtered.
LEMMA FilteredSubset ==
    ASSUME NEW X, NEW Y \in SUBSET X, Filtered(X)
    PROVE  Filtered(Y)
BY DEF Filtered, Within

\* NoStartLost is kept: a lost write of a start is a mishap.
LEMMA StartsKept == TypeOK /\ NoStartLost /\ [Next]_vars => NoStartLost'
<1> SUFFICES ASSUME TypeOK, NoStartLost, [Next]_vars, missed' = 0
             PROVE  store' \subseteq Recorded'
    BY DEF NoStartLost
<1>1. missed = 0 /\ missed' = missed
    BY ScheduleAssumption
       DEF TypeOK, Next, vars, Misses, Tick, ScheduleBackup, BackupLosesStart, JobMissed,
           CollectGarbage, DeleteBackup, DeleteFails, CollectionLost
<1>2. CASE store' \subseteq store
    BY <1>1, <1>2 DEF NoStartLost, Recorded
<1>3. CASE ScheduleBackup
  <2>1. store' = store \cup {Planned(now)} /\ Planned(now).start = now
    BY <1>3 DEF ScheduleBackup, Planned
  <2>2. now # LongAgo
    BY StartTypes DEF TypeOK
  <2> QED
    BY <1>1, <2>1, <2>2 DEF NoStartLost, Recorded
<1> QED
    BY <1>1, <1>2, <1>3, ScheduleAssumption
       DEF TypeOK, Next, vars, Misses, Tick, BackupLosesStart, JobMissed, CollectGarbage,
           DeleteBackup, DeleteFails, CollectionLost

\* CollectionOK is kept: a backup taken after the collection of its tick is the one of
\* today, and the deletions only finish what the collection began.
LEMMA CollectionKept ==
    ASSUME TypeOK, DueOK, RecordedOK, NoStartLost, CollectionOK, [Next]_vars
    PROVE  CollectionOK'
<1> SUFFICES ASSUME missed' = 0, now' % TicksPerDay \in CollectTicks, "collect" \notin due'
             PROVE  Filtered(store \ (todo \cup Today))'
    BY DEF CollectionOK
<1>1. /\ missed = 0 /\ missed' = missed
      /\ UNCHANGED vars \/ Tick \/ ScheduleBackup \/ CollectGarbage \/ DeleteBackup
    BY ScheduleAssumption
       DEF TypeOK, Next, vars, Misses, BackupLosesStart, JobMissed, DeleteFails,
           CollectionLost, Tick, ScheduleBackup, CollectGarbage, DeleteBackup
<1>2. ~Tick
    BY DEF Tick, JobsAt
<1>3. UNCHANGED <<strategy, now>> /\ Today' = Today
    BY <1>1, <1>2 DEF vars, ScheduleBackup, CollectGarbage, DeleteBackup, Today
<1>4. \A X : Filtered(X)' <=> Filtered(X)
    BY <1>3 DEF Filtered, Intervals
<1>5. CASE CollectGarbage
  <2>1. Filtered(store \ todo')
    BY <1>1, <1>5, LeavesFiltered DEF NoStartLost, CollectGarbage
  <2>2. store' \ (todo' \cup Today') \in SUBSET (store \ todo')
    BY <1>5 DEF CollectGarbage
  <2> QED
    BY <2>1, <2>2, <1>4, FilteredSubset
<1>6. ASSUME UNCHANGED vars \/ ScheduleBackup \/ DeleteBackup
      PROVE  Filtered(store \ (todo \cup Today))'
  <2>1. "collect" \notin due
    BY <1>6 DEF vars, ScheduleBackup, DeleteBackup
  <2>2. Filtered(store \ (todo \cup Today))
    BY <1>1, <1>3, <2>1 DEF CollectionOK
  <2>3. CASE UNCHANGED vars \/ DeleteBackup
    <3>1. store' \ (todo' \cup Today') \in SUBSET (store \ (todo \cup Today))
      BY <1>3, <2>3 DEF vars, DeleteBackup
    <3> QED
      BY <2>2, <3>1, <1>4, FilteredSubset
  <2>4. CASE ScheduleBackup
    <3>1. now % TicksPerDay = BackupTick
      BY <2>4 DEF ScheduleBackup, DueOK, JobsAt
    <3>2. Planned(now) \in Today
      BY <1>3, <3>1 DEF Today
    <3>3. store' \ (todo' \cup Today') \in SUBSET (store \ (todo \cup Today))
      BY <1>3, <2>4, <3>2 DEF ScheduleBackup, Planned
    <3> QED
      BY <2>2, <3>3, <1>4, FilteredSubset
  <2> QED
    BY <1>6, <2>3, <2>4
<1> QED
    BY <1>1, <1>2, <1>5, <1>6

-------------------------------------------------------------------------------
(* Counting backups. *)

\* A set without two different elements has at most one.
LEMMA AtMostOne ==
    ASSUME NEW X, \A b, c \in X : b = c
    PROVE  IsFiniteSet(X) /\ Cardinality(X) \in Nat /\ Cardinality(X) <= 1
<1>1. CASE X = {}
    BY <1>1, FS_EmptySet
<1>2. CASE X # {}
  <2>1. PICK x \in X : X = {x}
    BY <1>2
  <2>2. IsFiniteSet({x}) /\ Cardinality({x}) = 1
    BY FS_Singleton, Zenon
  <2>3. Cardinality(X) = 1
    BY <2>1, <2>2
  <2> QED
    BY <2>1, <2>2, <2>3
<1> QED
    BY <1>1, <1>2

\* A union has at most as many elements as its parts together.
LEMMA UnionBound ==
    ASSUME NEW X, NEW Y, IsFiniteSet(X), IsFiniteSet(Y), NEW m \in Nat, NEW n \in Nat,
           Cardinality(X) <= m, Cardinality(Y) <= n
    PROVE  IsFiniteSet(X \cup Y) /\ Cardinality(X \cup Y) <= m + n
<1>1. X \cap Y \in SUBSET X
    OBVIOUS
<1>2. IsFiniteSet(X \cap Y)
    BY <1>1, FS_Subset
<1>3. /\ IsFiniteSet(X \cup Y)
      /\ Cardinality(X \cup Y) = Cardinality(X) + Cardinality(Y) - Cardinality(X \cap Y)
    BY FS_Union
<1>4. /\ Cardinality(X) \in Nat /\ Cardinality(Y) \in Nat /\ Cardinality(X \cap Y) \in Nat
    BY <1>2, FS_CardinalityType
<1> QED
    BY <1>3, <1>4

\* A tick is its day and its tick of the day.
LEMMA DayAndTick ==
    ASSUME NEW t \in Int
    PROVE  t = Day(t) * TicksPerDay + (t % TicksPerDay)
BY DayAssumption DEF Day

\* The schedule takes one backup a day: backups of at most n days are at most n.
LEMMA OneADay ==
    ASSUME TypeOK, RecordedOK, NEW X \in SUBSET Recorded, NEW a \in Int, NEW n \in Nat,
           \A b \in X : Day(b.start) \in a .. a + n - 1
    PROVE  IsFiniteSet(X) /\ Cardinality(X) <= n
<1> DEFINE f == [b \in X |-> Day(b.start)]
           S == a .. a + n - 1
<1>1. IsFiniteSet(S) /\ Cardinality(S) = n
  <2>1. a + n - 1 \in Int
    OBVIOUS
  <2> QED
    BY <2>1, FS_Interval
<1>2. \A b, c \in X : f[b] = f[c] => b = c
  <2> SUFFICES ASSUME NEW b \in X, NEW c \in X, Day(b.start) = Day(c.start) PROVE b = c
    OBVIOUS
  <2>1. /\ b.start \in Int /\ b.start % TicksPerDay = BackupTick
        /\ c.start \in Int /\ c.start % TicksPerDay = BackupTick
    BY StartTypes DEF RecordedOK
  <2>2. b.start = c.start
    BY <2>1, DayAndTick
  <2> QED
    BY <2>2 DEF RecordedOK
<1>3. f \in Injection(X, S)
  <2>1. f \in [X -> S]
    OBVIOUS
  <2> HIDE DEF f, S
  <2> QED
    BY <1>2, <2>1 DEF Injection, IsInjective
<1> HIDE DEF f, S
<1> QED
    BY <1>1, <1>3, FS_Injection

\* The backups of the last seven times a day: one a day, and one more when the
\* collection runs at the tick of the schedule.
LEMMA SevenDays ==
    ASSUME TypeOK, RecordedOK, now % TicksPerDay \in CollectTicks, NEW X \in SUBSET Recorded,
           \A b \in X : b.start >= now - 7 * TicksPerDay
    PROVE  IsFiniteSet(X) /\ Cardinality(X) <= 7 + AtOnce
<1> DEFINE tick == now % TicksPerDay
           first == IF BackupTick >= tick THEN Day(now) - 7 ELSE Day(now) - 6
<1>0. tick \in 0 .. TicksPerDay - 1
    BY ScheduleAssumption
<1>1. first \in Int /\ Day(now) \in Int /\ 7 + AtOnce \in Nat
    BY DayBounds DEF TypeOK, AtOnce
<1>2. ASSUME NEW b \in X PROVE Day(b.start) \in first .. first + (7 + AtOnce) - 1
  <2> DEFINE d == Day(b.start)
             k == Day(now) - d
  <2>1. /\ b.start \in Int /\ b.start <= now /\ b.start >= now - 7 * TicksPerDay
        /\ now \in Int /\ d \in Int /\ k \in Int
    BY <1>2, StartTypes, DayBounds DEF TypeOK
  <2>2. b.start = d * TicksPerDay + BackupTick
    BY <1>2, <2>1, DayAndTick DEF RecordedOK
  <2>3. now = Day(now) * TicksPerDay + tick
    BY <1>0, <2>1, DayAndTick
  <2>4. k * TicksPerDay = Day(now) * TicksPerDay - d * TicksPerDay
    BY <2>1, <1>1, DayAssumption
  <2>5. /\ k * TicksPerDay + tick - BackupTick >= 0
        /\ k * TicksPerDay + tick - BackupTick <= 7 * TicksPerDay
    BY <1>0, <1>1, <2>1, <2>2, <2>3, <2>4, DayAssumption, ScheduleAssumption
  <2> HIDE DEF d, k, tick
  <2>6. k * TicksPerDay \in Int
    BY <2>1, DayAssumption
  <2>7. k >= 0
    <3>1. CASE k <= -1
      <4>1. k * TicksPerDay <= (-1) * TicksPerDay
        BY <2>1, <3>1, DaysMonotonic
      <4> QED
        BY <1>0, <2>5, <2>6, <4>1, DayAssumption, ScheduleAssumption
    <3> QED
      BY <2>1, <3>1
  <2>8. k <= 7
    <3>1. CASE k >= 8
      <4>1. 8 * TicksPerDay <= k * TicksPerDay
        BY <2>1, <3>1, DaysMonotonic
      <4> QED
        BY <1>0, <2>5, <2>6, <4>1, DayAssumption, ScheduleAssumption
    <3> QED
      BY <2>1, <3>1
  <2>9. BackupTick < tick => k <= 6
    BY <1>0, <2>1, <2>5, <2>8, DayAssumption, ScheduleAssumption
  <2>10. BackupTick > tick => k >= 1
    BY <1>0, <2>1, <2>5, <2>7, DayAssumption, ScheduleAssumption
  <2> QED
    BY <1>1, <2>1, <2>7, <2>8, <2>9, <2>10, ScheduleAssumption, DayAssumption DEF AtOnce, k, d, tick
<1> HIDE DEF first
<1> QED
    BY <1>1, <1>2, OneADay

-------------------------------------------------------------------------------
(* The bound. *)

\* The backup of today is one, when it is not filtered.
LEMMA TodayBound ==
    /\ IsFiniteSet(Today) /\ Cardinality(Today) <= AtOnce /\ AtOnce \in Nat
    /\ \A b \in Today : b = Planned(now)
<1>1. CASE now % TicksPerDay = BackupTick
  <2>1. Today = {Planned(now)} /\ AtOnce = 1
    BY <1>1 DEF Today, AtOnce
  <2>2. IsFiniteSet({Planned(now)}) /\ Cardinality({Planned(now)}) = 1
    BY FS_Singleton, Zenon
  <2> QED
    BY <2>1, <2>2
<1>2. CASE now % TicksPerDay # BackupTick
  <2>1. Today = {} /\ AtOnce = 0
    BY <1>2 DEF Today, AtOnce
  <2> QED
    BY <2>1, FS_EmptySet
<1> QED
    BY <1>1, <1>2

\* The interval strategy leaves the backups of the first interval, with the one of
\* today at most eight, and at most one in each of the other four.
LEMMA IntervalBound ==
    ASSUME TypeOK, RecordedOK, store \subseteq Recorded, Intervals,
           Filtered(store \ Today)
    PROVE  Cardinality(store) <= 12
<1> DEFINE X == store \ Today
           week    == [start |-> 0,   end |-> 7,   mode |-> "ALL"]
           month   == [start |-> 8,   end |-> 30,  mode |-> "OLDEST"]
           quarter == [start |-> 31,  end |-> 90,  mode |-> "OLDEST"]
           half    == [start |-> 91,  end |-> 180, mode |-> "OLDEST"]
           year    == [start |-> 181, end |-> 360, mode |-> "OLDEST"]
           Week    == {b \in store : Day(b.start) \in Day(now) - 7 .. Day(now)}
<1>1. /\ Calendar = {week, month, quarter, half, year}
      /\ "OLDEST" # "ALL"
    BY DEF Calendar
<1>2. IsFiniteSet(Week) /\ Cardinality(Week) <= 8
  <2>1. Day(now) - 7 \in Int /\ (Day(now) - 7) + 8 - 1 = Day(now)
    BY DayBounds DEF TypeOK
  <2> QED
    BY <2>1, OneADay
<1>3. ASSUME NEW interval \in {month, quarter, half, year}
      PROVE  IsFiniteSet(Within(interval, X, now)) /\ Cardinality(Within(interval, X, now)) <= 1
  <2>1. interval \in Calendar /\ interval.mode # "ALL"
    BY <1>1
  <2>2. \A b, c \in Within(interval, X, now) : b = c
    BY <2>1 DEF Filtered
  <2> QED
    BY <2>2, AtMostOne
<1>4. ASSUME NEW b \in store
      PROVE  b \in Week \/ \E interval \in {month, quarter, half, year} :
                              b \in Within(interval, X, now)
  <2>1. CASE b \in Today
    <3>1. b.start = now
      BY <2>1, TodayBound DEF Planned
    <3>2. Day(now) \in Int
      BY DayBounds DEF TypeOK
    <3> QED
      BY <3>1, <3>2
  <2>2. CASE b \in X
    <3>1. PICK interval \in Calendar : InInterval(interval, b.start, now)
      BY <2>2 DEF Filtered
    <3>2. CASE interval = week
      <4>1. Day(now) \in Int /\ Day(b.start) \in Int
        BY StartTypes, DayBounds DEF TypeOK
      <4>2. Day(now) - 7 <= Day(b.start) /\ Day(b.start) <= Day(now) - 0
        BY <3>1, <3>2 DEF InInterval
      <4> QED
        BY <4>1, <4>2
    <3>3. CASE interval # week
      <4>1. b \in Within(interval, X, now) /\ interval \in {month, quarter, half, year}
        BY <2>2, <3>1, <3>3, <1>1 DEF Within
      <4> HIDE DEF X, week, month, quarter, half, year, Week
      <4> QED
        BY <4>1
    <3> QED
      BY <3>2, <3>3
  <2> QED
    BY <2>1, <2>2
<1> HIDE DEF X, week, month, quarter, half, year, Week
<1> DEFINE U1 == Week \cup Within(month, X, now)
           U2 == U1 \cup Within(quarter, X, now)
           U3 == U2 \cup Within(half, X, now)
           U4 == U3 \cup Within(year, X, now)
<1>5. IsFiniteSet(U1) /\ Cardinality(U1) <= 9
  <2>1. Cardinality(Week \cup Within(month, X, now)) <= 8 + 1 /\ IsFiniteSet(U1)
    BY <1>3, <1>2, UnionBound
  <2> QED
    BY <2>1
<1> HIDE DEF U1
<1>6. IsFiniteSet(U2) /\ Cardinality(U2) <= 10
  <2>1. Cardinality(U1 \cup Within(quarter, X, now)) <= 9 + 1 /\ IsFiniteSet(U2)
    BY <1>3, <1>5, UnionBound
  <2> QED
    BY <2>1
<1> HIDE DEF U2
<1>7. IsFiniteSet(U3) /\ Cardinality(U3) <= 11
  <2>1. Cardinality(U2 \cup Within(half, X, now)) <= 10 + 1 /\ IsFiniteSet(U3)
    BY <1>3, <1>6, UnionBound
  <2> QED
    BY <2>1
<1> HIDE DEF U3
<1>8. IsFiniteSet(U4) /\ Cardinality(U4) <= 12
  <2>1. Cardinality(U3 \cup Within(year, X, now)) <= 11 + 1 /\ IsFiniteSet(U4)
    BY <1>3, <1>7, UnionBound
  <2> QED
    BY <2>1
<1>9. store \in SUBSET U4
  <2> SUFFICES ASSUME NEW b \in store PROVE b \in U4
    OBVIOUS
  <2> QED
    BY <1>4 DEF U1, U2, U3
<1> HIDE DEF U4
<1>10. IsFiniteSet(store) /\ Cardinality(store) <= Cardinality(U4)
    BY <1>8, <1>9, FS_Subset
<1>11. Cardinality(store) \in Nat /\ Cardinality(U4) \in Nat
    BY <1>8, <1>10, FS_CardinalityType
<1> QED
    BY <1>8, <1>10, <1>11

\* As long as nothing went wrong, what a collection leaves behind is bounded for every
\* schedule, with one more backup when both jobs run at this tick
\* (FilterForRemoval).
THEOREM SavedBoundHolds == Spec => []SavedBound
<1> DEFINE Inv == DueOK /\ RecordedOK /\ NoStartLost /\ CollectionOK
<1>1. Init => Inv
  <2> SUFFICES ASSUME Init PROVE Inv
    OBVIOUS
  <2>1. DueOK /\ RecordedOK
    BY SafetyInit
  <2>2. NoStartLost
    BY DEF Init, NoStartLost
  <2>3. CollectionOK
    BY DEF Init, CollectionOK, JobsAt
  <2> QED
    BY <2>1, <2>2, <2>3
<1>2. TypeOK /\ TypeOK' /\ Inv /\ [Next]_vars => Inv'
    BY RecordedKept, StartsKept, CollectionKept
<1>3. TypeOK /\ Inv => SavedBound
  <2> SUFFICES ASSUME TypeOK, Inv, Collected, missed = 0, strategy # "keepAll"
               PROVE  Cardinality(store) <= Kept
    BY DEF SavedBound
  <2>1. store \subseteq Recorded /\ now % TicksPerDay \in CollectTicks /\ Filtered(store \ Today)
    BY DEF NoStartLost, CollectionOK, Collected
  <2>2. CASE Intervals
    <3>1. Cardinality(store) <= 12
      BY <2>1, <2>2, IntervalBound
    <3>2. Kept = 12
      BY <2>2 DEF Kept, Intervals
    <3> QED
      BY <3>1, <3>2
  <2>3. CASE strategy = "keepLastSevenDays"
    <3>1. \A b \in store : b.start >= now - 7 * TicksPerDay
      <4> TAKE b \in store
      <4>1. CASE b \in Today
        BY <4>1, TodayBound, DayAssumption DEF Planned, TypeOK
      <4>2. CASE b \notin Today
        BY <2>1, <2>3, <4>2 DEF Filtered
      <4> QED
        BY <4>1, <4>2
    <3>2. Cardinality(store) <= 7 + AtOnce
      BY <2>1, <3>1, SevenDays
    <3>3. Kept = 7 + AtOnce
      BY <2>3 DEF Kept, Intervals
    <3> QED
      BY <3>2, <3>3
  <2>4. CASE strategy = "removeAllButKeepLatest"
    <3> DEFINE X == store \ Today
    <3>1. \A b, c \in X : b = c
      BY <2>1, <2>4 DEF Filtered
    <3>2. IsFiniteSet(X) /\ Cardinality(X) <= 1
      <4> HIDE DEF X
      <4> QED BY <3>1, AtMostOne
    <3>3. IsFiniteSet(X \cup Today) /\ Cardinality(X \cup Today) <= 1 + AtOnce
      <4> HIDE DEF X
      <4> QED BY <3>2, TodayBound, UnionBound
    <3>4. store \in SUBSET (X \cup Today)
      OBVIOUS
    <3>5. IsFiniteSet(store) /\ Cardinality(store) <= Cardinality(X \cup Today)
      <4> HIDE DEF X
      <4> QED BY <3>3, <3>4, FS_Subset
    <3>6. Cardinality(store) \in Nat /\ Cardinality(X \cup Today) \in Nat
      <4> HIDE DEF X
      <4> QED BY <3>3, <3>5, FS_CardinalityType
    <3>7. Kept = 1 + AtOnce
      BY <2>4 DEF Kept, Intervals
    <3> HIDE DEF X
    <3> QED
      BY <3>3, <3>5, <3>6, <3>7, TodayBound
  <2> QED
    BY <2>2, <2>3, <2>4, ScheduleAssumption DEF TypeOK, Strategies, Intervals
<1> QED
  <2> HIDE DEF Inv
  <2> QED
    BY <1>1, <1>2, <1>3, TypeCorrect, PTL DEF Spec
===============================================================================
