---------------------------- MODULE RetentionProofs ----------------------------
(***************************************************************************)
(* Proofs about GarbageCollection and the strategies of Retention for any  *)
(* length of a day, any schedule and any number of days.                   *)
(***************************************************************************)
EXTENDS GarbageCollection, WellFoundedInduction, TLAPS

-------------------------------------------------------------------------------
(* Time. *)

\* A tick lies in its day.
LEMMA DayBounds ==
    ASSUME NEW t \in Int
    PROVE  /\ Day(t) \in Int
           /\ Day(t) * TicksPerDay <= t
           /\ t < Day(t) * TicksPerDay + TicksPerDay
BY DayAssumption DEF Day

\* Products with the length of a day are monotonic.
LEMMA DaysMonotonic ==
    ASSUME NEW a \in Int, NEW b \in Int, a <= b
    PROVE  a * TicksPerDay <= b * TicksPerDay
BY DayAssumption

\* A later tick is not on an earlier day.
LEMMA DayMonotonic ==
    ASSUME NEW a \in Int, NEW b \in Int, a <= b
    PROVE  Day(a) <= Day(b)
<1> SUFFICES ASSUME Day(b) + 1 <= Day(a) PROVE FALSE
    BY DayBounds
<1>1. (Day(b) + 1) * TicksPerDay <= Day(a) * TicksPerDay
    BY DayBounds, DaysMonotonic
<1>2. (Day(b) + 1) * TicksPerDay = Day(b) * TicksPerDay + TicksPerDay
    BY DayBounds, DayAssumption
<1> QED
    BY <1>1, <1>2, DayBounds, DayAssumption

\* What lies eight days back by the calendar is older than seven times a day.
LEMMA EightDaysBack ==
    ASSUME NEW s \in Int, NEW t \in Int, Day(s) <= Day(t) - 8
    PROVE  s < t - 7 * TicksPerDay
<1>1. (Day(s) + 8) * TicksPerDay <= Day(t) * TicksPerDay
    BY DayBounds, DaysMonotonic
<1>2. (Day(s) + 8) * TicksPerDay = Day(s) * TicksPerDay + 8 * TicksPerDay
    BY DayBounds, DayAssumption
<1> QED
    BY <1>1, <1>2, DayBounds, DayAssumption

\* A whole number of days later it is the same tick of the day.
LEMMA SameTickOfDay ==
    ASSUME NEW s \in Int, NEW n \in Nat
    PROVE  (s + n * TicksPerDay) % TicksPerDay = s % TicksPerDay
<1> DEFINE q == s \div TicksPerDay
           r == s % TicksPerDay
           u == s + n * TicksPerDay
           p == u \div TicksPerDay
           v == u % TicksPerDay
<1>1. /\ q \in Int /\ r \in 0 .. TicksPerDay - 1 /\ s = q * TicksPerDay + r
      /\ p \in Int /\ v \in 0 .. TicksPerDay - 1 /\ u = p * TicksPerDay + v
    BY DayAssumption
<1>2. u = (q + n) * TicksPerDay + r
    BY <1>1, DayAssumption
<1> HIDE DEF q, r, p, v
<1>3. (p - (q + n)) * TicksPerDay = r - v
    BY <1>1, <1>2, DayAssumption
<1>4. p - (q + n) = 0
  <2>1. CASE p - (q + n) >= 1
    <3>1. 1 * TicksPerDay <= (p - (q + n)) * TicksPerDay
      BY <2>1, <1>1, DaysMonotonic
    <3> QED BY <3>1, <1>1, <1>3, DayAssumption
  <2>2. CASE p - (q + n) <= -1
    <3>1. (p - (q + n)) * TicksPerDay <= (-1) * TicksPerDay
      BY <2>2, <1>1, DaysMonotonic
    <3> QED BY <3>1, <1>1, <1>3, DayAssumption
  <2> QED
    BY <1>1, <2>1, <2>2
<1>5. r = v
    BY <1>1, <1>3, <1>4, DayAssumption
<1> QED
    BY <1>5 DEF r, v, u

-------------------------------------------------------------------------------
(* The strategies. *)

\* A strategy removes only backups it was given (FilterForRemoval).
LEMMA RemovesListed ==
    ASSUME NEW s \in Strategies, NEW backups, NEW t
    PROVE  FilterForRemoval(s, backups, t) \subseteq backups
BY DEF Strategies, FilterForRemoval, RemovedByIntervals, RemovedByMode, Within

\* No interval that keeps only its oldest backup reaches into the last seven days.
LEMMA OldestIntervals ==
    \A interval \in Calendar :
        /\ interval.start \in Int /\ interval.end \in Int
        /\ interval.mode # "ALL" => interval.start >= 8
BY DEF Calendar

\* No strategy but removeAllButKeepLatest removes a backup of the last seven days.
LEMMA RemovesOld ==
    ASSUME NEW s \in Strategies, s # "removeAllButKeepLatest", NEW t \in Int, NEW backups,
           NEW b \in FilterForRemoval(s, backups, t), b.start \in Int, b.start <= t
    PROVE  b.start < t - 7 * TicksPerDay
<1>1. CASE s = "keepAll"
    BY <1>1 DEF FilterForRemoval
<1>2. CASE s = "keepLastSevenDays"
    BY <1>2 DEF FilterForRemoval
<1>3. CASE s = "keep7Days1Month1Quarter1Year"
  <2>1. b \in RemovedByIntervals(backups, t)
    BY <1>3 DEF FilterForRemoval
  <2>2. CASE \A interval \in Calendar : ~InInterval(interval, b.start, t)
    <3> DEFINE week == [start |-> 0, end |-> 7, mode |-> "ALL"]
    <3>1. ~InInterval(week, b.start, t)
      BY <2>2 DEF Calendar
    <3>2. Day(b.start) <= Day(t) /\ Day(b.start) \in Int /\ Day(t) \in Int
      BY DayMonotonic, DayBounds
    <3>3. Day(b.start) <= Day(t) - 8
      BY <3>1, <3>2 DEF InInterval
    <3> QED
      BY <3>3, EightDaysBack
  <2>3. ASSUME NEW interval \in Calendar,
               b \in RemovedByMode(interval.mode, Within(interval, backups, t))
        PROVE  b.start < t - 7 * TicksPerDay
    <3>1. interval.mode # "ALL" /\ InInterval(interval, b.start, t)
      BY <2>3 DEF RemovedByMode, Within
    <3>2. Day(b.start) <= Day(t) - 8
      BY <3>1, OldestIntervals, DayBounds DEF InInterval
    <3> QED
      BY <3>2, EightDaysBack
  <2> QED
    BY <2>1, <2>2, <2>3 DEF RemovedByIntervals
<1> QED
    BY <1>1, <1>2, <1>3 DEF Strategies

-------------------------------------------------------------------------------
(* Type correctness. *)

\* Before the first tick of a deployment there is no backup.
LEMMA TypeInit == Init => TypeOK
BY ScheduleAssumption DEF Init, TypeOK, JobsAt

\* Every job and every call keeps the types.
LEMMA TypeStep == TypeOK /\ [Next]_vars => TypeOK'
<1> SUFFICES ASSUME TypeOK, [Next]_vars PROVE TypeOK'
    OBVIOUS
<1> USE DEF TypeOK
<1>1. CASE UNCHANGED vars
    BY <1>1 DEF vars
<1>2. CASE Tick
    BY <1>2 DEF Tick, JobsAt
<1>3. CASE ScheduleBackup
    BY <1>3 DEF ScheduleBackup
<1>4. CASE BackupLosesStart
    BY <1>4, ScheduleAssumption DEF BackupLosesStart, Misses
<1>5. CASE JobMissed
    BY <1>5, ScheduleAssumption DEF JobMissed, Misses
<1>6. CASE CollectGarbage
  <2>1. todo' \subseteq store
    BY <1>6, RemovesListed, ScheduleAssumption DEF CollectGarbage
  <2> QED
    BY <1>6, <2>1 DEF CollectGarbage
<1>7. CASE DeleteBackup
    BY <1>7 DEF DeleteBackup
<1>8. CASE DeleteFails
    BY <1>8, ScheduleAssumption DEF DeleteFails, Misses
<1>9. CASE CollectionLost
    BY <1>9, ScheduleAssumption DEF CollectionLost, Misses
<1> QED
    BY <1>1, <1>2, <1>3, <1>4, <1>5, <1>6, <1>7, <1>8, <1>9 DEF Next

\* Every reachable state has its type: what a collection still has to delete is in
\* the store, and no recorded start lies in the future (CollectGarbage).
THEOREM TypeCorrect == Spec => []TypeOK
BY TypeInit, TypeStep, PTL DEF Spec

-------------------------------------------------------------------------------
(* What a collection leaves behind. *)

\* A nonempty set of natural numbers below a bound has a greatest element.
LEMMA GreatestBelow ==
    ASSUME NEW n \in Nat, NEW S, S \subseteq 0 .. n, S # {}
    PROVE  \E x \in S : \A y \in S : y <= x
<1> DEFINE R == OpToRel(<, Nat)
           D == {n - x : x \in S}
<1>1. D \in SUBSET Nat /\ D # {}
  <2>1. \A x \in S : n - x \in Nat
    OBVIOUS
  <2>2. PICK x \in S : TRUE
    OBVIOUS
  <2>3. n - x \in D
    OBVIOUS
  <2> QED
    BY <2>1, <2>3
<1>2. PICK d \in D : \A e \in D : ~(<<e, d>> \in R)
  <2> HIDE DEF R, D
  <2> SUFFICES IsWellFoundedOn(R, Nat)
    BY <1>1, WFMin
  <2> QED
    BY NatLessThanWellFounded DEF R
<1>3. PICK x \in S : d = n - x
    BY <1>2
<1>4. \A y \in S : n - x <= n - y
  <2>1. ASSUME NEW a \in Nat, NEW c \in Nat, a < c PROVE <<a, c>> \in R
    BY <2>1, Zenon DEF OpToRel
  <2>2. \A y \in S : n - y \in D
    OBVIOUS
  <2> HIDE DEF R, D
  <2> TAKE y \in S
  <2>3. d \in Nat /\ n - y \in Nat
    BY <1>1, <2>2
  <2>4. ~(n - y < d)
    BY <1>2, <2>1, <2>2, <2>3
  <2> QED
    BY <1>3, <2>3, <2>4
<1>5. \A y \in S : y <= x
    BY <1>4
<1> QED
    BY <1>5

\* A recorded start is the time in the name and lies on the tick of the schedule.
RecordedOK ==
    \A b \in Recorded :
        /\ b = [name |-> b.start, start |-> b.start]
        /\ b.start % TicksPerDay = BackupTick

\* A job is due only at its tick of the day.
DueOK == due \subseteq JobsAt(now)

\* What is left to delete is older than seven times a day.
TodoOld ==
    strategy # "removeAllButKeepLatest" =>
        \A b \in todo \cap Recorded : b.start < now - 7 * TicksPerDay

\* The latest recorded start, or the one before the deployment began, is at most
\* one day more than the number of mishaps ago: the schedule never pauses.
Fresh(s) ==
    /\ now <= s + (missed + 1) * TicksPerDay
    /\ now = s + (missed + 1) * TicksPerDay => "backup" \in due

Starts == {BackupTick - TicksPerDay} \cup {b.start : b \in Recorded}

ScheduleKept == strategy # "removeAllButKeepLatest" => \E s \in Starts : Fresh(s)

\* removeAllButKeepLatest leaves something newer than each backup it still deletes.
Replaced ==
    strategy = "removeAllButKeepLatest" =>
        \A b \in todo \cap Recorded : \E n \in store \ todo : n.start > b.start

\* Recorded starts are times of the past, others lie before all of them.
LEMMA StartTypes ==
    ASSUME TypeOK
    PROVE  /\ LongAgo \in Int /\ LongAgo < 0
           /\ \A b \in Recorded : b \in store /\ b.start \in 0 .. now
           /\ \A b \in store \ Recorded : b.start = LongAgo
           /\ \A b \in store : b.start \in Int /\ b.start <= now
<1>1. LongAgo \in Int /\ LongAgo < 0
    BY DayAssumption DEF LongAgo
<1> QED
    BY <1>1 DEF TypeOK, Recorded

\* LatestOf has a newer backup for every recorded one it does not contain.
LEMMA LatestReplaces ==
    ASSUME TypeOK, RecordedOK, NEW b \in Recorded, b \notin LatestOf(store)
    PROVE  \E n \in LatestOf(store) : n.start > b.start
<1> DEFINE S == {x.start : x \in Recorded}
<1>1. S \subseteq 0 .. now /\ S # {}
    BY StartTypes
<1>2. PICK m \in S : \A y \in S : y <= m
  <2> HIDE DEF S
  <2> QED BY <1>1, GreatestBelow DEF TypeOK
<1>3. PICK n \in Recorded : n.start = m
    OBVIOUS
<1>4. \A x \in Recorded : x.start <= n.start
    BY <1>2, <1>3
<1>5. \A x \in Recorded \ {n} : x.start < n.start
  <2> TAKE x \in Recorded \ {n}
  <2>1. x.start # n.start
    BY DEF RecordedOK
  <2> QED
    BY <1>4, <2>1, StartTypes
<1>6. \A x \in store \ {n} : x.start < n.start
    BY <1>5, StartTypes
<1>7. n \in LatestOf(store)
    BY <1>6, StartTypes DEF LatestOf
<1> QED
    BY <1>6, <1>7, StartTypes

\* The tick of the schedule is its own tick of the day, also before the first day.
LEMMA ScheduleTick ==
    /\ BackupTick % TicksPerDay = BackupTick
    /\ (BackupTick - TicksPerDay) % TicksPerDay = BackupTick
<1>1. BackupTick % TicksPerDay = BackupTick
    BY DayAssumption, ScheduleAssumption
<1>2. BackupTick - TicksPerDay \in Int /\ (BackupTick - TicksPerDay) + 1 * TicksPerDay = BackupTick
    BY DayAssumption, ScheduleAssumption
<1> QED
    BY <1>1, <1>2, SameTickOfDay

\* DueOK and RecordedOK are kept: the store only gains backups of this tick.
LEMMA RecordedKept ==
    ASSUME TypeOK, TypeOK', DueOK, RecordedOK, [Next]_vars
    PROVE  DueOK' /\ RecordedOK'
<1>0. DueOK'
    BY DEF DueOK, JobsAt, Next, vars, Tick, ScheduleBackup, BackupLosesStart, JobMissed,
           CollectGarbage, DeleteBackup, DeleteFails, CollectionLost
<1> SUFFICES RecordedOK'
    BY <1>0
<1>1. CASE store' \subseteq store
    BY <1>1 DEF RecordedOK, Recorded
<1>2. CASE BackupLosesStart
  <2> DEFINE new == [name |-> now, start |-> LongAgo]
  <2>1. store' = store \cup {new}
    BY <1>2 DEF BackupLosesStart
  <2>2. new.start = LongAgo
    OBVIOUS
  <2> HIDE DEF new
  <2> QED
    BY <2>1, <2>2 DEF RecordedOK, Recorded
<1>3. CASE ScheduleBackup
  <2> DEFINE new == [name |-> now, start |-> now]
  <2>1. store' = store \cup {new}
    BY <1>3 DEF ScheduleBackup
  <2>2. new.start = now /\ new = [name |-> new.start, start |-> new.start]
    OBVIOUS
  <2>3. now % TicksPerDay = BackupTick
    BY <1>3 DEF ScheduleBackup, DueOK, JobsAt
  <2> HIDE DEF new
  <2> QED
    BY <2>1, <2>2, <2>3 DEF RecordedOK, Recorded
<1> QED
    BY <1>1, <1>2, <1>3
       DEF Next, vars, Tick, JobMissed, CollectGarbage, DeleteBackup, DeleteFails, CollectionLost

\* A mishap or a new backup puts the schedule a day ahead of the clock.
LEMMA FreshAfterMishap ==
    ASSUME TypeOK, TypeOK', NEW s \in Int, Fresh(s), missed' = missed + 1, now' = now
    PROVE  Fresh(s)'
<1>1. (missed' + 1) * TicksPerDay = (missed + 1) * TicksPerDay + TicksPerDay
    BY DayAssumption, ScheduleAssumption DEF TypeOK
<1>2. (missed + 1) * TicksPerDay \in Int
    BY DayAssumption, ScheduleAssumption DEF TypeOK
<1>3. now' < s + (missed' + 1) * TicksPerDay
    BY <1>1, <1>2, DayAssumption DEF Fresh, TypeOK
<1> QED
    BY <1>1, <1>2, <1>3, DayAssumption DEF Fresh, TypeOK

LEMMA FreshAfterBackup ==
    ASSUME TypeOK, now' = now, missed' = missed
    PROVE  Fresh(now)'
<1>1. 1 * TicksPerDay <= (missed + 1) * TicksPerDay
    BY DaysMonotonic, ScheduleAssumption DEF TypeOK
<1>2. (missed + 1) * TicksPerDay \in Int
    BY DayAssumption, ScheduleAssumption DEF TypeOK
<1>3. now' < now + (missed' + 1) * TicksPerDay
    BY <1>1, <1>2, DayAssumption DEF TypeOK
<1> QED
    BY <1>2, <1>3, DayAssumption DEF Fresh, TypeOK

\* When the clock reaches the next tick of the schedule a backup is due.
LEMMA FreshAfterTick ==
    ASSUME TypeOK, NEW s \in Int, s % TicksPerDay = BackupTick, Fresh(s), Tick
    PROVE  Fresh(s)'
<1>1. (missed + 1) * TicksPerDay \in Int /\ missed + 1 \in Nat
    BY DayAssumption, ScheduleAssumption DEF TypeOK
<1>2. now < s + (missed + 1) * TicksPerDay
    BY <1>1 DEF Fresh, Tick, TypeOK
<1>3. now' <= s + (missed + 1) * TicksPerDay
    BY <1>1, <1>2 DEF Tick, TypeOK
<1>4. ASSUME now' = s + (missed + 1) * TicksPerDay PROVE "backup" \in due'
  <2>1. (now + 1) % TicksPerDay = BackupTick
    BY <1>1, <1>4, SameTickOfDay DEF Tick
  <2> QED
    BY <2>1 DEF Tick, JobsAt
<1> QED
    BY <1>3, <1>4 DEF Fresh, Tick

\* TodoOld is kept: a collection reads the clock and the list in one pass, and the
\* clock goes on when it has finished.
LEMMA TodoKept == TypeOK /\ TodoOld /\ [Next]_vars => TodoOld'
<1> SUFFICES ASSUME TypeOK, TodoOld, [Next]_vars PROVE TodoOld'
    OBVIOUS
<1>1. CASE CollectGarbage
  <2> SUFFICES ASSUME strategy # "removeAllButKeepLatest", NEW b \in todo', b \in Recorded
               PROVE  b.start < now - 7 * TicksPerDay
    BY <1>1 DEF CollectGarbage, TodoOld, Recorded
  <2>1. b \in FilterForRemoval(strategy, store, now)
    BY <1>1 DEF CollectGarbage
  <2> QED
    BY <2>1, RemovesOld, StartTypes, ScheduleAssumption DEF TypeOK
<1>2. CASE Tick
    BY <1>2 DEF Tick, TodoOld
<1>3. CASE UNCHANGED <<strategy, now>> /\ todo' \subseteq todo
    BY <1>3 DEF TodoOld, Recorded, TypeOK
<1> QED
    BY <1>1, <1>2, <1>3
       DEF Next, vars, ScheduleBackup, BackupLosesStart, JobMissed, DeleteBackup, DeleteFails,
           CollectionLost

\* The starts of the schedule lie on its tick.
LEMMA StartsOnTick ==
    ASSUME TypeOK, RecordedOK
    PROVE  \A s \in Starts : s \in Int /\ s % TicksPerDay = BackupTick
<1>1. BackupTick - TicksPerDay \in Int
    BY DayAssumption, ScheduleAssumption
<1>2. \A b \in Recorded : b.start \in Int /\ b.start % TicksPerDay = BackupTick
    BY StartTypes DEF RecordedOK
<1> QED
    BY <1>1, <1>2, ScheduleTick DEF Starts

\* With at most six mishaps a fresh start is one of the last seven days.
LEMMA FreshIsRecent ==
    ASSUME MaxMissed <= 6, TypeOK, NEW s \in Int, Fresh(s)
    PROVE  s >= now - 7 * TicksPerDay
<1>1. (missed + 1) * TicksPerDay <= 7 * TicksPerDay
    BY DaysMonotonic, ScheduleAssumption DEF TypeOK
<1>2. (missed + 1) * TicksPerDay \in Int /\ 7 * TicksPerDay \in Int
    BY DayAssumption, ScheduleAssumption DEF TypeOK
<1> QED
    BY <1>1, <1>2 DEF Fresh, TypeOK

\* ScheduleKept is kept: what is deleted is not the latest.
LEMMA SchedulePersists ==
    ASSUME MaxMissed <= 6, TypeOK, TypeOK', DueOK, RecordedOK, TodoOld, ScheduleKept,
           [Next]_vars
    PROVE  ScheduleKept'
<1>0. strategy' = strategy
    BY DEF Next, vars, Tick, ScheduleBackup, BackupLosesStart, JobMissed, CollectGarbage,
           DeleteBackup, DeleteFails, CollectionLost
<1> SUFFICES ASSUME strategy # "removeAllButKeepLatest"
             PROVE  \E s \in Starts' : Fresh(s)'
    BY <1>0 DEF ScheduleKept, Fresh
<1>1. PICK s \in Starts : Fresh(s)
    BY DEF ScheduleKept
<1>2. s \in Int /\ s % TicksPerDay = BackupTick
    BY <1>1, StartsOnTick
<1>3. store \subseteq store' => s \in Starts'
    BY <1>1 DEF Starts, Recorded
<1>4. CASE UNCHANGED <<now, missed, store>> /\ ("backup" \in due => "backup" \in due')
    BY <1>1, <1>3, <1>4 DEF Fresh
<1>5. CASE now' = now /\ missed' = missed + 1 /\ store \subseteq store'
    BY <1>1, <1>2, <1>3, <1>5, FreshAfterMishap
<1>6. CASE Tick
  <2>1. store' = store
    BY <1>6 DEF Tick
  <2> QED
    BY <1>1, <1>2, <1>3, <1>6, <2>1, FreshAfterTick
<1>7. CASE ScheduleBackup
  <2> DEFINE new == [name |-> now, start |-> now]
  <2>1. now' = now /\ missed' = missed /\ new \in store'
    BY <1>7 DEF ScheduleBackup
  <2>2. new.start = now /\ now # LongAgo
    BY StartTypes DEF TypeOK
  <2>3. now \in Starts'
    <3> HIDE DEF new
    <3> QED BY <2>1, <2>2 DEF Starts, Recorded
  <2> QED
    BY <2>1, <2>3, FreshAfterBackup
<1>8. CASE DeleteBackup
  <2>1. PICK x \in todo : store' = store \ {x} /\ UNCHANGED <<now, missed, due>>
    BY <1>8 DEF DeleteBackup
  <2>2. ASSUME x \in Recorded PROVE x.start # s
    <3>1. x.start < now - 7 * TicksPerDay
      BY <2>1, <2>2 DEF TodoOld
    <3>2. s >= now - 7 * TicksPerDay
      BY <1>1, <1>2, FreshIsRecent
    <3> QED
      BY <1>2, <3>1, <3>2, DayAssumption DEF TypeOK
  <2>3. s \in Starts'
    BY <1>1, <2>1, <2>2 DEF Starts, Recorded
  <2> QED
    BY <1>1, <2>1, <2>3 DEF Fresh
<1> QED
    BY <1>4, <1>5, <1>6, <1>7, <1>8
       DEF Next, vars, Misses, BackupLosesStart, JobMissed, CollectGarbage, DeleteFails,
           CollectionLost

\* Replaced is kept: the latest backup is not listed, and later ones are newer.
LEMMA ReplacedKept ==
    ASSUME TypeOK, RecordedOK, Replaced, [Next]_vars
    PROVE  Replaced'
<1>0. strategy' = strategy
    BY DEF Next, vars, Tick, ScheduleBackup, BackupLosesStart, JobMissed, CollectGarbage,
           DeleteBackup, DeleteFails, CollectionLost
<1>1. CASE UNCHANGED <<todo, store>>
    BY <1>0, <1>1 DEF Replaced, Recorded
<1>2. ASSUME NEW x, UNCHANGED todo, store' = store \cup {x}
      PROVE  Replaced'
    BY <1>0, <1>2 DEF Replaced, Recorded, TypeOK
<1>3. ASSUME NEW x \in todo, todo' = todo \ {x}, store' \in {store, store \ {x}}
      PROVE  Replaced'
    BY <1>0, <1>3 DEF Replaced, Recorded
<1>4. CASE CollectionLost
    BY <1>4 DEF CollectionLost, Replaced
<1>5. CASE CollectGarbage
  <2> SUFFICES ASSUME strategy = "removeAllButKeepLatest", NEW b \in todo', b \in Recorded
               PROVE  \E n \in store \ todo' : n.start > b.start
    BY <1>5 DEF CollectGarbage, Replaced, Recorded
  <2>1. todo' = store \ LatestOf(store)
    BY <1>5 DEF CollectGarbage, FilterForRemoval
  <2>2. PICK n \in LatestOf(store) : n.start > b.start
    BY <2>1, LatestReplaces
  <2> QED
    BY <2>1, <2>2 DEF LatestOf
<1> QED
    BY <1>1, <1>2, <1>3, <1>4, <1>5
       DEF Next, vars, Tick, ScheduleBackup, BackupLosesStart, JobMissed, DeleteBackup,
           DeleteFails

-------------------------------------------------------------------------------
(* Theorems about the collection. *)

\* A deployment begins without backups and on schedule.
LEMMA SafetyInit == Init => DueOK /\ RecordedOK /\ TodoOld /\ ScheduleKept /\ Replaced
<1> SUFFICES ASSUME Init PROVE DueOK /\ RecordedOK /\ TodoOld /\ ScheduleKept /\ Replaced
    OBVIOUS
<1>1. DueOK /\ RecordedOK /\ TodoOld /\ Replaced
    BY DEF Init, DueOK, RecordedOK, Recorded, TodoOld, Replaced
<1>2. Fresh(BackupTick - TicksPerDay)
  <2>1. 0 = BackupTick => 0 % TicksPerDay = BackupTick
    BY ScheduleTick
  <2> QED
    BY <2>1, DayAssumption, ScheduleAssumption DEF Init, Fresh, JobsAt
<1> QED
    BY <1>1, <1>2 DEF ScheduleKept, Starts

\* The removal of a backup is a Delete of the collection.
LEMMA RemovedIsListed ==
    ASSUME [Next]_vars, NEW b \in store, b \notin store'
    PROVE  b \in todo /\ UNCHANGED <<strategy, now>> /\ store \ todo \subseteq store'
BY DEF Next, vars, Tick, ScheduleBackup, BackupLosesStart, JobMissed, CollectGarbage,
       DeleteBackup, DeleteFails, CollectionLost

\* Whatever fails and whenever the jobs run, only removeAllButKeepLatest removes a
\* backup with a recorded start of the last seven times a day (FilterForRemoval).
THEOREM RecentKeptHolds == Spec => RecentKept
<1>1. Init => TodoOld
    BY SafetyInit
<1>2. TodoOld /\ [Next]_vars =>
        [\A b \in Recorded \ store' :
            strategy # "removeAllButKeepLatest" => b.start < now - 7 * TicksPerDay]_vars
  <2> SUFFICES ASSUME TodoOld, [Next]_vars, NEW b \in Recorded \ store',
                      strategy # "removeAllButKeepLatest"
               PROVE  b.start < now - 7 * TicksPerDay
    OBVIOUS
  <2>1. b \in todo
    BY RemovedIsListed DEF Recorded
  <2> QED
    BY <2>1 DEF TodoOld
<1> QED
    BY <1>1, <1>2, TypeCorrect, TodoKept, PTL DEF Spec, RecentKept

\* The invariants that hold whatever goes wrong.
CollectionInv == DueOK /\ RecordedOK /\ TodoOld /\ Replaced

LEMMA CollectionInvHolds == Spec => []CollectionInv
<1>1. Init => CollectionInv
    BY SafetyInit DEF CollectionInv
<1>2. TypeOK /\ TypeOK' /\ CollectionInv /\ [Next]_vars => CollectionInv'
    BY RecordedKept, TodoKept, ReplacedKept DEF CollectionInv
<1> QED
    BY <1>1, <1>2, TypeCorrect, PTL DEF Spec

\* No removal without a newer backup, while one of the last seven days is there.
NewerStays   == \A b \in Recorded \ store' : \E other \in store' : other.start > b.start
RecentBackup == \E n \in Recorded : n.start >= now - 7 * TicksPerDay

LEMMA RemovalReplaced ==
    ASSUME TypeOK, CollectionInv, [Next]_vars,
           strategy = "removeAllButKeepLatest" \/ RecentBackup
    PROVE  NewerStays
<1> SUFFICES ASSUME NEW b \in Recorded \ store'
             PROVE  \E other \in store' : other.start > b.start
    BY DEF NewerStays
<1>1. b \in todo \cap Recorded /\ store \ todo \subseteq store'
    BY RemovedIsListed DEF Recorded
<1>2. CASE strategy = "removeAllButKeepLatest"
    BY <1>1, <1>2 DEF CollectionInv, Replaced
<1>3. CASE strategy # "removeAllButKeepLatest"
  <2>1. PICK n \in Recorded : n.start >= now - 7 * TicksPerDay
    BY <1>3 DEF RecentBackup
  <2>2. \A x \in todo \cap Recorded : x.start < now - 7 * TicksPerDay
    BY <1>3 DEF CollectionInv, TodoOld
  <2>3. n.start \in Int /\ b.start \in Int /\ now - 7 * TicksPerDay \in Int
    BY StartTypes, DayAssumption DEF TypeOK
  <2>4. n \in store /\ n \notin todo
    BY <2>1, <2>2, <2>3 DEF Recorded
  <2>5. n.start > b.start
    BY <1>1, <2>1, <2>2, <2>3
  <2> QED
    BY <1>1, <2>4, <2>5
<1> QED
    BY <1>2, <1>3

\* However much goes wrong, a collection removes the latest recorded backup only when
\* none was taken for seven days, and under removeAllButKeepLatest never
\* (removeAllButKeepLatestStrategy.go, keepLastSevenDaysStrategy.go, timeInterval.go).
THEOREM OnlyOutageRemovesLatest ==
    Spec => [][strategy = "removeAllButKeepLatest" \/ RecentBackup => NewerStays]_vars
<1>1. TypeOK /\ CollectionInv /\ [Next]_vars =>
        [strategy = "removeAllButKeepLatest" \/ RecentBackup => NewerStays]_vars
    BY RemovalReplaced
<1> QED
    BY <1>1, TypeCorrect, CollectionInvHolds, PTL DEF Spec

\* With at most six mishaps (a job that does not run, a start that is not recorded, a
\* Delete that fails) the schedule never pauses for seven days: a collection never
\* removes the last backup.  The seventh mishap may leave a deployment without any.
THEOREM LatestKeptHolds == MaxMissed <= 6 => (Spec => LatestKept)
<1> SUFFICES ASSUME MaxMissed <= 6 PROVE Spec => LatestKept
    OBVIOUS
<1>1. Init => ScheduleKept
    BY SafetyInit
<1>2. TypeOK /\ TypeOK' /\ CollectionInv /\ ScheduleKept /\ [Next]_vars => ScheduleKept'
    BY SchedulePersists DEF CollectionInv
<1>3. TypeOK /\ CollectionInv /\ ScheduleKept /\ [Next]_vars => [NewerStays]_vars
  <2> SUFFICES ASSUME TypeOK, CollectionInv, ScheduleKept, [Next]_vars,
                      strategy # "removeAllButKeepLatest", NEW b \in Recorded \ store'
               PROVE  RecentBackup
    BY RemovalReplaced DEF NewerStays
  <2>1. PICK s \in Starts : Fresh(s)
    BY DEF ScheduleKept
  <2>2. s \in Int /\ s >= now - 7 * TicksPerDay
    BY <2>1, StartsOnTick, FreshIsRecent DEF CollectionInv
  <2>3. b \in todo
    BY RemovedIsListed DEF Recorded
  <2>4. 0 <= b.start /\ b.start \in Int /\ b.start < now - 7 * TicksPerDay
    BY <2>3, StartTypes DEF CollectionInv, TodoOld
  <2>5. s # BackupTick - TicksPerDay
    BY <2>2, <2>4, DayAssumption, ScheduleAssumption DEF TypeOK
  <2> QED
    BY <2>1, <2>2, <2>5 DEF Starts, RecentBackup
<1> QED
    BY <1>1, <1>2, <1>3, TypeCorrect, CollectionInvHolds, PTL DEF Spec, LatestKept, NewerStays
===============================================================================
