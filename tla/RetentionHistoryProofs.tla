------------------------ MODULE RetentionHistoryProofs ------------------------
(***************************************************************************)
(* How far the history of the interval strategy reaches back, for any      *)
(* length of a day and any schedule of the two jobs: OldestKept whatever   *)
(* goes wrong, which backups there are, day by day, as long as nothing     *)
(* does, and HistoryReachesBack when at most one thing does.               *)
(***************************************************************************)
EXTENDS RetentionBoundProofs

-------------------------------------------------------------------------------
(* The intervals. *)

\* The intervals do not overlap, and end within a year.
LEMMA IntervalsDisjoint ==
    ASSUME NEW s \in Int, NEW t \in Int, NEW i \in Calendar, NEW j \in Calendar,
           InInterval(i, s, t), InInterval(j, s, t)
    PROVE  i = j /\ Day(t) - Day(s) \in 0 .. 360
BY DayBounds DEF Calendar, InInterval

\* Every age up to a year lies in an interval.
LEMMA IntervalsCover ==
    ASSUME NEW s \in Int, NEW t \in Int, Day(t) - Day(s) \in 0 .. 360
    PROVE  \E i \in Calendar : InInterval(i, s, t)
<1> DEFINE age == Day(t) - Day(s)
           week    == [start |-> 0,   end |-> 7,   mode |-> "ALL"]
           month   == [start |-> 8,   end |-> 30,  mode |-> "OLDEST"]
           quarter == [start |-> 31,  end |-> 90,  mode |-> "OLDEST"]
           half    == [start |-> 91,  end |-> 180, mode |-> "OLDEST"]
           year    == [start |-> 181, end |-> 360, mode |-> "OLDEST"]
<1>1. Day(s) \in Int /\ Day(t) \in Int
    BY DayBounds
<1>2. /\ age \in 0 .. 7     => InInterval(week, s, t)
      /\ age \in 8 .. 30    => InInterval(month, s, t)
      /\ age \in 31 .. 90   => InInterval(quarter, s, t)
      /\ age \in 91 .. 180  => InInterval(half, s, t)
      /\ age \in 181 .. 360 => InInterval(year, s, t)
    BY <1>1 DEF InInterval
<1>3. Calendar = {week, month, quarter, half, year}
    BY DEF Calendar
<1> HIDE DEF week, month, quarter, half, year
<1> QED
    BY <1>1, <1>2, <1>3

\* A collection leaves the backups of the first interval and the oldest one of each
\* other interval (RemovedByIntervals).
LEMMA WhatStays ==
    ASSUME TypeOK, Intervals, NEW b \in store
    PROVE  b \notin FilterForRemoval(strategy, store, now) <=>
             \E i \in Calendar : /\ InInterval(i, b.start, now)
                                 /\ i.mode = "ALL" \/ b \in OldestOf(Within(i, store, now))
<1> DEFINE Stays(i) == /\ InInterval(i, b.start, now)
                       /\ i.mode = "ALL" \/ b \in OldestOf(Within(i, store, now))
<1>1. b.start \in Int /\ now \in Int
    BY StartTypes DEF TypeOK
<1>2. FilterForRemoval(strategy, store, now) = RemovedByIntervals(store, now)
    BY DEF Intervals, FilterForRemoval
<1>3. ASSUME NEW i \in Calendar, Stays(i), b \in RemovedByIntervals(store, now) PROVE FALSE
  <2>1. PICK j \in Calendar : b \in RemovedByMode(j.mode, Within(j, store, now))
    BY <1>3 DEF RemovedByIntervals
  <2>2. j.mode # "ALL" /\ InInterval(j, b.start, now) /\ b \notin OldestOf(Within(j, store, now))
    BY <2>1 DEF RemovedByMode, Within
  <2>3. j = i
    BY <1>1, <1>3, <2>2, IntervalsDisjoint
  <2> QED
    BY <1>3, <2>2, <2>3
<1>4. ASSUME b \notin RemovedByIntervals(store, now) PROVE \E i \in Calendar : Stays(i)
  <2>1. PICK i \in Calendar : InInterval(i, b.start, now)
    BY <1>4 DEF RemovedByIntervals
  <2>2. b \notin RemovedByMode(i.mode, Within(i, store, now)) /\ b \in Within(i, store, now)
    BY <1>4, <2>1 DEF RemovedByIntervals, Within
  <2> QED
    BY <2>1, <2>2 DEF RemovedByMode
<1> QED
    BY <1>2, <1>3, <1>4

-------------------------------------------------------------------------------
(* The far end of the history. *)

\* A nonempty set of natural numbers up to a bound has a smallest element.
LEMMA SmallestBelow ==
    ASSUME NEW n \in Nat, NEW S, S \subseteq 0 .. n, S # {}
    PROVE  \E x \in S : \A y \in S : x <= y
<1> DEFINE D == {n - x : x \in S}
<1>1. D \subseteq 0 .. n /\ D # {}
  <2>1. PICK x \in S : TRUE
    OBVIOUS
  <2>2. n - x \in D
    OBVIOUS
  <2> QED
    BY <2>2
<1>2. PICK d \in D : \A e \in D : e <= d
  <2> HIDE DEF D
  <2> QED
    BY <1>1, GreatestBelow
<1>3. PICK x \in S : d = n - x
    OBVIOUS
<1>4. \A y \in S : n - y <= n - x
    BY <1>2, <1>3
<1> QED
    BY <1>4

\* An interval holds only recorded backups: a lost start lies before all of them.
LEMMA IntervalsHoldRecorded ==
    ASSUME TypeOK, NEW i \in Calendar, NEW b \in Within(i, store, now)
    PROVE  b \in Recorded /\ b.start \in 0 .. now /\ Age(b) \in 0 .. 360
<1>1. b \in store /\ InInterval(i, b.start, now) /\ b.start \in Int /\ now \in Int
    BY StartTypes DEF Within, TypeOK
<1>2. Day(now) - Day(b.start) \in 0 .. 360
    BY <1>1, IntervalsDisjoint
<1>3. b.start # LongAgo
  <2> SUFFICES ASSUME b.start = LongAgo PROVE FALSE
    OBVIOUS
  <2>1. Day(LongAgo) \in Int /\ Day(LongAgo) * TicksPerDay <= -1000 * TicksPerDay
    BY <1>1, DayBounds DEF LongAgo
  <2>2. Day(now) >= 0
    <3>1. Day(0) <= Day(now) /\ Day(0) = 0
      BY DayMonotonic, DayAssumption DEF TypeOK, Day
    <3> QED
      BY <3>1, DayBounds DEF TypeOK
  <2>3. Day(LongAgo) >= -360
    BY <1>1, <1>2, <2>1, <2>2, DayBounds
  <2>4. (-360) * TicksPerDay <= Day(LongAgo) * TicksPerDay
    BY <2>1, <2>3, DaysMonotonic
  <2> QED
    BY <2>1, <2>4, DayAssumption
<1> QED
    BY <1>1, <1>2, <1>3, StartTypes DEF Recorded, Age

\* OldestOf has an older backup for every one of an interval it does not contain.
LEMMA OldestReplaces ==
    ASSUME TypeOK, RecordedOK, NEW i \in Calendar, NEW b \in Within(i, store, now),
           b \notin OldestOf(Within(i, store, now))
    PROVE  \E o \in OldestOf(Within(i, store, now)) : o.start < b.start
<1> DEFINE W == Within(i, store, now)
           S == {x.start : x \in W}
<1>1. \A x \in W : x \in Recorded /\ x.start \in 0 .. now
    BY IntervalsHoldRecorded
<1>2. PICK m \in S : \A y \in S : m <= y
  <2>1. S \subseteq 0 .. now /\ S # {}
    BY <1>1
  <2> HIDE DEF S
  <2> QED
    BY <2>1, SmallestBelow DEF TypeOK
<1>3. PICK o \in W : o.start = m
    OBVIOUS
<1>4. \A x \in W \ {o} : o.start < x.start
  <2> TAKE x \in W \ {o}
  <2>1. x.start # o.start
    BY <1>1 DEF RecordedOK
  <2>2. o.start <= x.start
    BY <1>2, <1>3
  <2> HIDE DEF W
  <2> QED
    BY <1>1, <2>1, <2>2
<1>5. o \in OldestOf(W)
    BY <1>4 DEF OldestOf
<1>6. b \in W \ {o}
    BY <1>5
<1> QED
    BY <1>4, <1>5, <1>6

\* What is listed for deletion and less than a year old has an older one that stays.
OlderStays ==
    Intervals =>
        \A b \in todo \cap Recorded : Age(b) <= 360 =>
            \E o \in Recorded \ todo : o.start < b.start /\ Age(o) <= 360

\* OlderStays is kept: the oldest backup of an interval is in no other interval.
LEMMA OlderStaysKept ==
    ASSUME TypeOK, RecordedOK, OlderStays, [Next]_vars
    PROVE  OlderStays'
<1>0. strategy' = strategy
    BY DEF Next, vars, Tick, ScheduleBackup, BackupLosesStart, JobMissed, CollectGarbage,
           DeleteBackup, DeleteFails, CollectionLost
<1>1. CASE CollectGarbage
  <2> SUFFICES ASSUME Intervals, NEW b \in todo', b \in Recorded, Age(b) <= 360
               PROVE  \E o \in Recorded \ todo' : o.start < b.start /\ Age(o) <= 360
    BY <1>1 DEF CollectGarbage, OlderStays, Recorded, Age, Intervals
  <2>1. todo' = FilterForRemoval(strategy, store, now)
    BY <1>1 DEF CollectGarbage
  <2>2. b \in store /\ b.start \in Int /\ b.start <= now /\ now \in Int
    BY StartTypes DEF TypeOK
  <2>3. Day(now) - Day(b.start) \in 0 .. 360
    <3>1. Day(b.start) <= Day(now)
      BY <2>2, DayMonotonic
    <3>2. Day(b.start) \in Int /\ Day(now) \in Int
      BY <2>2, DayBounds
    <3> QED
      BY <3>1, <3>2 DEF Age
  <2>4. PICK i \in Calendar : InInterval(i, b.start, now)
    BY <2>2, <2>3, IntervalsCover
  <2>5. b \in Within(i, store, now) /\ b \notin OldestOf(Within(i, store, now))
    BY <2>1, <2>2, <2>4, WhatStays DEF Within
  <2>6. PICK o \in OldestOf(Within(i, store, now)) : o.start < b.start
    BY <2>5, OldestReplaces
  <2>7. o \in Within(i, store, now)
    BY DEF OldestOf
  <2>8. o \in store /\ InInterval(i, o.start, now)
    BY <2>7 DEF Within
  <2>9. o \notin todo'
    BY <2>1, <2>6, <2>8, WhatStays
  <2>10. o \in Recorded /\ Age(o) <= 360
    BY <2>7, IntervalsHoldRecorded
  <2> QED
    BY <2>6, <2>9, <2>10
<1>2. CASE UNCHANGED <<now, store>> /\ todo' \subseteq todo
    BY <1>0, <1>2 DEF OlderStays, Recorded, Age, Intervals
<1>3. ASSUME NEW x, UNCHANGED <<now, todo>>, store' = store \cup {x}
      PROVE  OlderStays'
    BY <1>0, <1>3 DEF OlderStays, Recorded, Age, Intervals, TypeOK
<1>4. CASE DeleteBackup
    BY <1>0, <1>4 DEF DeleteBackup, OlderStays, Recorded, Age, Intervals
<1>5. CASE Tick
    BY <1>5 DEF Tick, OlderStays
<1> QED
    BY <1>1, <1>2, <1>3, <1>4, <1>5
       DEF Next, vars, ScheduleBackup, BackupLosesStart, JobMissed, DeleteFails, CollectionLost

\* Whatever goes wrong, under every schedule the interval strategy removes a backup of
\* the last year only while an older one of the last year stays: the far end of the
\* history is lost at the end of the last interval and nowhere else.
THEOREM OldestKeptHolds == Spec => OldestKept
<1>1. Init => OlderStays
    BY DEF Init, OlderStays
<1>2. /\ TypeOK /\ RecordedOK /\ OlderStays /\ [Next]_vars => OlderStays'
      /\ TypeOK /\ TypeOK' /\ DueOK /\ RecordedOK /\ [Next]_vars => DueOK' /\ RecordedOK'
    BY OlderStaysKept, RecordedKept
<1>3. Init => DueOK /\ RecordedOK
    BY SafetyInit
<1>4. TypeOK /\ OlderStays /\ [Next]_vars =>
        [\A b \in Recorded \ store' :
            Intervals /\ Age(b) <= 360 =>
              \E other \in Recorded \cap store' :
                  other.start < b.start /\ Age(other) <= 360]_vars
  <2> SUFFICES ASSUME TypeOK, OlderStays, [Next]_vars, NEW b \in Recorded \ store',
                      Intervals, Age(b) <= 360
               PROVE  \E other \in Recorded \cap store' :
                          other.start < b.start /\ Age(other) <= 360
    OBVIOUS
  <2>1. b \in todo /\ store \ todo \subseteq store'
    BY DEF Recorded, Next, vars, Tick, ScheduleBackup, BackupLosesStart, JobMissed,
           CollectGarbage, DeleteBackup, DeleteFails, CollectionLost
  <2>2. PICK o \in Recorded \ todo : o.start < b.start /\ Age(o) <= 360
    BY <2>1 DEF OlderStays
  <2> QED
    BY <2>1, <2>2 DEF Recorded
<1> QED
    BY <1>1, <1>2, <1>3, <1>4, TypeCorrect, PTL DEF Spec, OldestKept

-------------------------------------------------------------------------------
(* Which backups survive an undisturbed year. *)

\* The days of X in an interval on day d, the oldest of them, and what a collection of
\* day d leaves of X.
Inside(X, d, lo, hi)    == {n \in X : d - n \in lo .. hi}
First(X, n)             == \A m \in X \ {n} : n < m
Oldest(X, d, lo, hi, n) == n \in Inside(X, d, lo, hi) /\ First(Inside(X, d, lo, hi), n)

Left(X, d, n) ==
    \/ d - n <= 7
    \/ Oldest(X, d, 8, 30, n) \/ Oldest(X, d, 31, 90, n)
    \/ Oldest(X, d, 91, 180, n) \/ Oldest(X, d, 181, 360, n)

Multiple(p, n) == \E k \in Nat : n = p * k
Multiples(p)   == {n \in Nat : Multiple(p, n)}

\* The collection of day d leaves the backups of the last week, and of the older
\* ones those of every 23rd, 69th, 138th and 276th day: an arrival in an interval
\* stays when the one before it has left, the second interval is 23 days long, and
\* of each later one the length is a little short of the next such distance.
Survives(d, n) ==
    \/ d - n <= 7
    \/ d - n \in 8 .. 30    /\ Multiple(23, n)
    \/ d - n \in 31 .. 90   /\ Multiple(69, n)
    \/ d - n \in 91 .. 180  /\ Multiple(138, n)
    \/ d - n \in 181 .. 360 /\ Multiple(276, n)

\* The distances divide each other.
LEMMA Distances ==
    /\ Multiples(276) \subseteq Multiples(138) /\ Multiples(138) \subseteq Multiples(69)
    /\ Multiples(69) \subseteq Multiples(23) /\ Multiples(23) \subseteq Nat
    /\ 0 \in Multiples(276)
<1> USE DEF Multiples, Multiple
<1>1. Multiples(276) \subseteq Multiples(138)
  <2> SUFFICES ASSUME NEW n \in Multiples(276) PROVE n \in Multiples(138)
    BY Zenon
  <2>1. PICK k \in Nat : n = 276 * k
    OBVIOUS
  <2>2. n = 138 * (2 * k) /\ 2 * k \in Nat
    BY <2>1
  <2> QED
    BY <2>2
<1>2. Multiples(138) \subseteq Multiples(69)
  <2> SUFFICES ASSUME NEW n \in Multiples(138) PROVE n \in Multiples(69)
    BY Zenon
  <2>1. PICK k \in Nat : n = 138 * k
    OBVIOUS
  <2>2. n = 69 * (2 * k) /\ 2 * k \in Nat
    BY <2>1
  <2> QED
    BY <2>2
<1>3. Multiples(69) \subseteq Multiples(23)
  <2> SUFFICES ASSUME NEW n \in Multiples(69) PROVE n \in Multiples(23)
    BY Zenon
  <2>1. PICK k \in Nat : n = 69 * k
    OBVIOUS
  <2>2. n = 23 * (3 * k) /\ 3 * k \in Nat
    BY <2>1
  <2> QED
    BY <2>2
<1>4. 0 = 276 * 0
    OBVIOUS
<1> QED
    BY <1>1, <1>2, <1>3, <1>4

\* Two multiples are at least the distance apart.
LEMMA Apart ==
    /\ \A m, k \in Multiples(23) : k < m => m - k > 22
    /\ \A m, k \in Multiples(69) : k < m => m - k > 59
    /\ \A m, k \in Multiples(138) : k < m => m - k > 89
    /\ \A m, k \in Multiples(276) : k < m => m - k > 179
<1> USE DEF Multiples, Multiple
<1>1. \A m, k \in Multiples(23) : k < m => m - k > 22
    OBVIOUS
<1>2. \A m, k \in Multiples(69) : k < m => m - k > 59
    OBVIOUS
<1>3. \A m, k \in Multiples(138) : k < m => m - k > 89
    OBVIOUS
<1>4. \A m, k \in Multiples(276) : k < m => m - k > 179
    OBVIOUS
<1> QED
    BY <1>1, <1>2, <1>3, <1>4

\* An arrival that is no multiple has one before it in the same interval.
LEMMA Before ==
    /\ \A m \in Nat \ Multiples(23) :
          \E k \in Multiples(23) : k < m /\ m - k <= 22
    /\ \A m \in Multiples(23) \ Multiples(69) :
          \E k \in Multiples(69) : k < m /\ m - k <= 59
    /\ \A m \in Multiples(69) \ Multiples(138) :
          \E k \in Multiples(138) : k < m /\ m - k <= 89
    /\ \A m \in Multiples(138) \ Multiples(276) :
          \E k \in Multiples(276) : k < m /\ m - k <= 179
<1> USE DEF Multiples, Multiple
<1>1. ASSUME NEW m \in Nat, m \notin Multiples(23)
      PROVE  \E k \in Multiples(23) : k < m /\ m - k <= 22
  <2>1. PICK q \in Nat : 23 * q <= m /\ m <= 23 * q + 22
    <3>1. m \div 23 \in Nat /\ 23 * (m \div 23) <= m /\ m <= 23 * (m \div 23) + 22
      OBVIOUS
    <3> QED
      BY <3>1
  <2> DEFINE k == 23 * q
  <2>2. k \in Multiples(23) /\ k # m
    BY <1>1
  <2>3. k < m /\ m - k <= 22
    BY <2>1, <2>2
  <2> HIDE DEF k
  <2> QED
    BY <2>2, <2>3
<1>2. ASSUME NEW m \in Multiples(23), m \notin Multiples(69)
      PROVE  \E k \in Multiples(69) : k < m /\ m - k <= 59
  <2>1. PICK j \in Nat : m = 23 * j
    OBVIOUS
  <2>2. PICK q \in Nat : 3 * q <= j /\ j <= 3 * q + 2
    <3>1. j \div 3 \in Nat /\ 3 * (j \div 3) <= j /\ j <= 3 * (j \div 3) + 2
      OBVIOUS
    <3> QED
      BY <3>1
  <2> DEFINE k == 69 * q
  <2>3. k \in Multiples(69) /\ k # m
    BY <1>2
  <2>4. k < m /\ m - k <= 59
    BY <2>1, <2>2, <2>3
  <2> HIDE DEF k
  <2> QED
    BY <2>3, <2>4
<1>3. ASSUME NEW m \in Multiples(69), m \notin Multiples(138)
      PROVE  \E k \in Multiples(138) : k < m /\ m - k <= 89
  <2>1. PICK j \in Nat : m = 69 * j
    OBVIOUS
  <2>2. PICK q \in Nat : 2 * q <= j /\ j <= 2 * q + 1
    <3>1. j \div 2 \in Nat /\ 2 * (j \div 2) <= j /\ j <= 2 * (j \div 2) + 1
      OBVIOUS
    <3> QED
      BY <3>1
  <2> DEFINE k == 138 * q
  <2>3. k \in Multiples(138) /\ k # m
    BY <1>3
  <2>4. k < m /\ m - k <= 89
    BY <2>1, <2>2, <2>3
  <2> HIDE DEF k
  <2> QED
    BY <2>3, <2>4
<1>4. ASSUME NEW m \in Multiples(138), m \notin Multiples(276)
      PROVE  \E k \in Multiples(276) : k < m /\ m - k <= 179
  <2>1. PICK j \in Nat : m = 138 * j
    OBVIOUS
  <2>2. PICK q \in Nat : 2 * q <= j /\ j <= 2 * q + 1
    <3>1. j \div 2 \in Nat /\ 2 * (j \div 2) <= j /\ j <= 2 * (j \div 2) + 1
      OBVIOUS
    <3> QED
      BY <3>1
  <2> DEFINE k == 276 * q
  <2>3. k \in Multiples(276) /\ k # m
    BY <1>4
  <2>4. k < m /\ m - k <= 179
    BY <2>1, <2>2, <2>3
  <2> HIDE DEF k
  <2> QED
    BY <2>3, <2>4
<1> QED
    BY <1>1, <1>2, <1>3, <1>4

\* One interval, from lo to hi days, on day d: X are the days whose backups are there,
\* A those that arrive, M those that stay.
LEMMA OneStays ==
    ASSUME NEW d \in Int, NEW lo \in Nat, NEW hi \in Nat,
           NEW X \in SUBSET Nat, NEW A \in SUBSET Nat, NEW M \in SUBSET A,
           \A m \in Nat : d - m = lo => (m \in X <=> m \in A),
           \A m \in Nat : d - m \in lo + 1 .. hi => (m \in X <=> m \in M),
           \A m, k \in M : k < m => m - k > hi - lo,
           \A m \in A \ M : \E k \in M : k < m /\ m - k <= hi - lo,
           NEW n \in Nat, d - n \in lo .. hi
    PROVE  n \in M <=> n \in X /\ \A m \in X \ {n} : d - m \in lo .. hi => n < m
<1>1. ASSUME n \in M, NEW m \in X \ {n}, d - m \in lo .. hi, m < n PROVE FALSE
  <2>1. m \in M
    BY <1>1
  <2> QED
    BY <1>1, <2>1
<1>2. n \in M => n \in X
    OBVIOUS
<1>3. ASSUME n \in X, n \notin M PROVE \E m \in X \ {n} : d - m \in lo .. hi /\ m < n
  <2>1. n \in A
    BY <1>3
  <2>2. PICK k \in M : k < n /\ n - k <= hi - lo
    BY <1>3, <2>1
  <2>3. d - k \in lo + 1 .. hi
    BY <1>3, <2>2
  <2>4. k \in X \ {n} /\ d - k \in lo .. hi
    BY <2>2, <2>3
  <2> QED
    BY <2>2, <2>4
<1> QED
    BY <1>1, <1>2, <1>3

\* From the collection of one day to that of the next: the days X whose backups are
\* there become those that survive it.
LEMMA NextCollection ==
    ASSUME NEW d \in Int, NEW last \in {d - 1, d}, NEW n \in 0 .. last,
           NEW X \in SUBSET (0 .. last), \A m \in 0 .. last : m \in X <=> Survives(d - 1, m)
    PROVE  Survives(d, n) <=> n \in X /\ Left(X, d, n)
<1> DEFINE One(lo, hi) == n \in X /\ \A m \in X \ {n} : d - m \in lo .. hi => n < m
<1>0. X \in SUBSET Nat
    OBVIOUS
<1>1. \A m \in Nat : d - m >= 8 => m \in 0 .. last
    OBVIOUS
<1>2. CASE d - n <= 7
    BY <1>2 DEF Survives, Left
<1>3. ASSUME d - n \in 8 .. 30 PROVE Survives(d, n) <=> One(8, 30)
  <2>1. \A m \in Nat : d - m = 8 => (m \in X <=> m \in Nat)
    BY <1>1 DEF Survives
  <2>2. \A m \in Nat : d - m \in 9 .. 30 => (m \in X <=> m \in Multiples(23))
    BY <1>1 DEF Survives, Multiples
  <2>3. n \in Multiples(23) <=> One(8, 30)
    <3> HIDE DEF One
    <3>1. \A m \in Nat : d - m \in 8 + 1 .. 30 => (m \in X <=> m \in Multiples(23))
      BY <2>2
    <3>2. \A m, k \in Multiples(23) : k < m => m - k > 30 - 8
      BY Apart
    <3>3. \A m \in Nat \ Multiples(23) : \E k \in Multiples(23) : k < m /\ m - k <= 30 - 8
      BY Before
    <3> QED
      BY <1>0, <1>3, <2>1, <3>1, <3>2, <3>3, OneStays, Distances DEF One
  <2> QED
    BY <1>3, <2>3 DEF Survives, Multiples
<1>4. ASSUME d - n \in 31 .. 90 PROVE Survives(d, n) <=> One(31, 90)
  <2>1. \A m \in Nat : d - m = 31 => (m \in X <=> m \in Multiples(23))
    BY <1>1 DEF Survives, Multiples
  <2>2. \A m \in Nat : d - m \in 32 .. 90 => (m \in X <=> m \in Multiples(69))
    BY <1>1 DEF Survives, Multiples
  <2>3. n \in Multiples(69) <=> One(31, 90)
    <3> HIDE DEF One
    <3>1. \A m \in Nat : d - m \in 31 + 1 .. 90 => (m \in X <=> m \in Multiples(69))
      BY <2>2
    <3>2. \A m, k \in Multiples(69) : k < m => m - k > 90 - 31
      BY Apart
    <3>3. \A m \in Multiples(23) \ Multiples(69) :
             \E k \in Multiples(69) : k < m /\ m - k <= 90 - 31
      BY Before
    <3> QED
      BY <1>0, <1>4, <2>1, <3>1, <3>2, <3>3, OneStays, Distances DEF One
  <2> QED
    BY <1>4, <2>3 DEF Survives, Multiples
<1>5. ASSUME d - n \in 91 .. 180 PROVE Survives(d, n) <=> One(91, 180)
  <2>1. \A m \in Nat : d - m = 91 => (m \in X <=> m \in Multiples(69))
    BY <1>1 DEF Survives, Multiples
  <2>2. \A m \in Nat : d - m \in 92 .. 180 => (m \in X <=> m \in Multiples(138))
    BY <1>1 DEF Survives, Multiples
  <2>3. n \in Multiples(138) <=> One(91, 180)
    <3> HIDE DEF One
    <3>1. \A m \in Nat : d - m \in 91 + 1 .. 180 => (m \in X <=> m \in Multiples(138))
      BY <2>2
    <3>2. \A m, k \in Multiples(138) : k < m => m - k > 180 - 91
      BY Apart
    <3>3. \A m \in Multiples(69) \ Multiples(138) :
             \E k \in Multiples(138) : k < m /\ m - k <= 180 - 91
      BY Before
    <3> QED
      BY <1>0, <1>5, <2>1, <3>1, <3>2, <3>3, OneStays, Distances DEF One
  <2> QED
    BY <1>5, <2>3 DEF Survives, Multiples
<1>6. ASSUME d - n \in 181 .. 360 PROVE Survives(d, n) <=> One(181, 360)
  <2>1. \A m \in Nat : d - m = 181 => (m \in X <=> m \in Multiples(138))
    BY <1>1 DEF Survives, Multiples
  <2>2. \A m \in Nat : d - m \in 182 .. 360 => (m \in X <=> m \in Multiples(276))
    BY <1>1 DEF Survives, Multiples
  <2>3. n \in Multiples(276) <=> One(181, 360)
    <3> HIDE DEF One
    <3>1. \A m \in Nat : d - m \in 181 + 1 .. 360 => (m \in X <=> m \in Multiples(276))
      BY <2>2
    <3>2. \A m, k \in Multiples(276) : k < m => m - k > 360 - 181
      BY Apart
    <3>3. \A m \in Multiples(138) \ Multiples(276) :
             \E k \in Multiples(276) : k < m /\ m - k <= 360 - 181
      BY Before
    <3> QED
      BY <1>0, <1>6, <2>1, <3>1, <3>2, <3>3, OneStays, Distances DEF One
  <2> QED
    BY <1>6, <2>3 DEF Survives, Multiples
<1>7. \A lo, hi \in Int : Oldest(X, d, lo, hi, n) <=> d - n \in lo .. hi /\ One(lo, hi)
    BY <1>0 DEF Oldest, Inside, First
<1> HIDE DEF One
<1>8. /\ d - n \in 8 .. 30    => (Survives(d, n) <=> One(8, 30))
      /\ d - n \in 31 .. 90   => (Survives(d, n) <=> One(31, 90))
      /\ d - n \in 91 .. 180  => (Survives(d, n) <=> One(91, 180))
      /\ d - n \in 181 .. 360 => (Survives(d, n) <=> One(181, 360))
    BY <1>3, <1>4, <1>5, <1>6
<1>9. /\ Oldest(X, d, 8, 30, n) <=> d - n \in 8 .. 30 /\ One(8, 30)
      /\ Oldest(X, d, 31, 90, n) <=> d - n \in 31 .. 90 /\ One(31, 90)
      /\ Oldest(X, d, 91, 180, n) <=> d - n \in 91 .. 180 /\ One(91, 180)
      /\ Oldest(X, d, 181, 360, n) <=> d - n \in 181 .. 360 /\ One(181, 360)
      /\ \A lo, hi \in Int : One(lo, hi) => n \in X
    BY <1>7 DEF One
<1>10. CASE d - n > 7
  <2>1. Left(X, d, n) <=> \/ d - n \in 8 .. 30 /\ One(8, 30)
                          \/ d - n \in 31 .. 90 /\ One(31, 90)
                          \/ d - n \in 91 .. 180 /\ One(91, 180)
                          \/ d - n \in 181 .. 360 /\ One(181, 360)
    BY <1>9, <1>10 DEF Left
  <2>2. d - n > 360 => ~Survives(d, n)
    BY DEF Survives
  <2> QED
    BY <1>8, <1>9, <1>10, <2>1, <2>2
<1> QED
    BY <1>2, <1>10

\* A second collection of the same day removes nothing: two multiples of a distance are
\* never in the same interval.
LEMMA SameCollection ==
    ASSUME NEW d \in Int, NEW X \in SUBSET Nat, \A m \in X : Survives(d, m), NEW n \in X
    PROVE  Left(X, d, n)
<1>1. ASSUME NEW p \in Nat, NEW lo \in Nat, NEW hi \in Nat, d - n \in lo .. hi,
             \A m \in X : d - m \in lo .. hi => m \in Multiples(p),
             \A m, k \in Multiples(p) : k < m => m - k > hi - lo
      PROVE  Oldest(X, d, lo, hi, n)
  <2>1. n \in Inside(X, d, lo, hi)
    BY <1>1 DEF Inside
  <2>2. ASSUME NEW m \in X, d - m \in lo .. hi, m # n PROVE FALSE
    <3>1. m \in Multiples(p) /\ n \in Multiples(p) /\ m \in Nat /\ n \in Nat
      BY <1>1, <2>2
    <3>2. CASE m < n
      BY <1>1, <2>2, <3>1, <3>2
    <3>3. CASE n < m
      BY <1>1, <2>2, <3>1, <3>3
    <3> QED
      BY <2>2, <3>1, <3>2, <3>3
  <2> QED
    BY <2>1, <2>2 DEF Oldest, First, Inside
<1>2. /\ \A m \in X : d - m \in 8 .. 30 => m \in Multiples(23)
      /\ \A m \in X : d - m \in 31 .. 90 => m \in Multiples(69)
      /\ \A m \in X : d - m \in 91 .. 180 => m \in Multiples(138)
      /\ \A m \in X : d - m \in 181 .. 360 => m \in Multiples(276)
    BY DEF Survives, Multiples
<1>3. CASE d - n <= 7
    BY <1>3 DEF Left
<1>4. CASE d - n \in 8 .. 30
  <2>1. \A m, k \in Multiples(23) : k < m => m - k > 30 - 8
    BY Apart
  <2> QED
    BY <1>1, <1>2, <1>4, <2>1 DEF Left
<1>5. CASE d - n \in 31 .. 90
  <2>1. \A m, k \in Multiples(69) : k < m => m - k > 90 - 31
    BY Apart
  <2>2. \A m \in X : d - m \in 31 .. 90 => m \in Multiples(69)
    BY <1>2
  <2>3. Oldest(X, d, 31, 90, n)
    BY <1>1, <1>5, <2>1, <2>2
  <2> QED
    BY <1>5, <2>3 DEF Left
<1>6. CASE d - n \in 91 .. 180
  <2>1. \A m, k \in Multiples(138) : k < m => m - k > 180 - 91
    BY Apart
  <2>2. \A m \in X : d - m \in 91 .. 180 => m \in Multiples(138)
    BY <1>2
  <2>3. Oldest(X, d, 91, 180, n)
    BY <1>1, <1>6, <2>1, <2>2
  <2> QED
    BY <1>6, <2>3 DEF Left
<1>7. CASE d - n \in 181 .. 360
  <2>1. \A m, k \in Multiples(276) : k < m => m - k > 360 - 181
    BY Apart
  <2>2. \A m \in X : d - m \in 181 .. 360 => m \in Multiples(276)
    BY <1>2
  <2>3. Oldest(X, d, 181, 360, n)
    BY <1>1, <1>7, <2>1, <2>2
  <2> QED
    BY <1>7, <2>3 DEF Left
<1> QED
    BY <1>3, <1>4, <1>5, <1>6, <1>7 DEF Survives

-------------------------------------------------------------------------------
(* The undisturbed deployment. *)

\* The backup of day n.
OfDay(n) == Planned(n * TicksPerDay + BackupTick)

\* The last day whose job has run, when no run is missed.
LastDone(job, tick) ==
    IF now % TicksPerDay > tick \/ (now % TicksPerDay = tick /\ job \notin due)
    THEN Day(now) ELSE Day(now) - 1

Taken  == LastDone("backup", BackupTick)

\* The last day with a collection.
FirstCollect == CHOOSE c \in CollectTicks : \A o \in CollectTicks : c <= o

Listed == LastDone("collect", FirstCollect)

\* There is a first collection of the day.
LEMMA FirstTick ==
    /\ FirstCollect \in CollectTicks /\ FirstCollect \in 0 .. TicksPerDay - 1
    /\ \A o \in CollectTicks : FirstCollect <= o
<1>1. /\ CollectTicks \subseteq 0 .. TicksPerDay - 1 /\ CollectTicks # {}
      /\ TicksPerDay - 1 \in Nat
    BY ScheduleAssumption, DayAssumption
<1>2. \E c \in CollectTicks : \A o \in CollectTicks : c <= o
    BY <1>1, SmallestBelow
<1> QED
    BY <1>1, <1>2 DEF FirstCollect

\* The clock stands still, and no collection starts, while deletions are pending.
ListOK == "collect" \in due => todo = {}

\* What is not listed for deletion, as long as nothing went wrong.
HistoryOK ==
    Intervals /\ missed = 0 =>
        /\ \A b \in store : Day(b.start) <= Taken
        /\ \A n \in 0 .. Taken : OfDay(n) \in store \ todo <=> Survives(Listed, n)

\* A tick is determined by its day and its tick of the day.
LEMMA DayOf ==
    ASSUME NEW n \in Int, NEW r \in 0 .. TicksPerDay - 1
    PROVE  Day(n * TicksPerDay + r) = n
<1> DEFINE t == n * TicksPerDay + r
           d == Day(t)
<1>1. n * TicksPerDay \in Int /\ t \in Int
    BY DayAssumption
<1>2. d \in Int /\ d * TicksPerDay <= t /\ t < d * TicksPerDay + TicksPerDay
    BY <1>1, DayBounds
<1>3. d * TicksPerDay \in Int
    BY <1>2, DayAssumption
<1> HIDE DEF d
<1>4. ASSUME d <= n - 1 PROVE FALSE
  <2>1. (d + 1) * TicksPerDay <= n * TicksPerDay
    BY <1>2, <1>4, DaysMonotonic
  <2>2. (d + 1) * TicksPerDay = d * TicksPerDay + TicksPerDay
    BY <1>2, DayAssumption
  <2> QED
    BY <1>1, <1>2, <1>3, <2>1, <2>2, DayAssumption
<1>5. ASSUME d >= n + 1 PROVE FALSE
  <2>1. (n + 1) * TicksPerDay <= d * TicksPerDay
    BY <1>2, <1>5, DaysMonotonic
  <2>2. (n + 1) * TicksPerDay = n * TicksPerDay + TicksPerDay
    BY DayAssumption
  <2> QED
    BY <1>1, <1>2, <1>3, <2>1, <2>2, DayAssumption
<1>6. d = n
    BY <1>2, <1>4, <1>5
<1> QED
    BY <1>6 DEF d, t

\* The backups of the days: one a day, in their order.
LEMMA OfDays ==
    ASSUME NEW n \in Int
    PROVE  /\ OfDay(n).start \in Int /\ Day(OfDay(n).start) = n
           /\ OfDay(n).start % TicksPerDay = BackupTick
           /\ \A m \in Int : m < n => OfDay(m).start < OfDay(n).start
           /\ \A m \in Int : OfDay(m) = OfDay(n) => m = n
<1>1. ASSUME NEW m \in Int
      PROVE  /\ OfDay(m).start = m * TicksPerDay + BackupTick
             /\ OfDay(m).start \in Int /\ Day(OfDay(m).start) = m
  <2>1. OfDay(m).start = m * TicksPerDay + BackupTick
    BY DEF OfDay, Planned
  <2>2. m * TicksPerDay + BackupTick \in Int
    BY DayAssumption, ScheduleAssumption
  <2>3. Day(m * TicksPerDay + BackupTick) = m
    BY DayOf, ScheduleAssumption
  <2> QED
    BY <2>1, <2>2, <2>3
<1>2. OfDay(n).start % TicksPerDay = BackupTick
  <2> DEFINE t == OfDay(n).start
             p == n * TicksPerDay
             r == t % TicksPerDay
  <2>1. t \in Int /\ Day(t) = n /\ t = p + BackupTick
    BY <1>1
  <2>2. t = p + r
    <3> HIDE DEF t
    <3> QED
      BY <2>1, DayAndTick
  <2>3. p \in Int /\ r \in Int
    <3> HIDE DEF t
    <3> QED
      BY <2>1, DayAssumption
  <2>4. r = BackupTick
    <3> HIDE DEF t, p, r
    <3> QED
      BY <2>1, <2>2, <2>3, ScheduleAssumption
  <2> QED
    BY <2>4
<1>3. ASSUME NEW m \in Int, m < n PROVE OfDay(m).start < OfDay(n).start
  <2>1. ~(OfDay(n).start <= OfDay(m).start)
    BY <1>1, <1>3, DayMonotonic
  <2> QED
    BY <1>1, <2>1
<1> QED
    BY <1>1, <1>2, <1>3

\* A recorded backup is one of a day.
LEMMA RecordedDays ==
    ASSUME TypeOK, RecordedOK, NEW b \in Recorded
    PROVE  Day(b.start) \in Nat /\ b = OfDay(Day(b.start))
<1>1. b.start \in 0 .. now /\ b = Planned(b.start) /\ b.start % TicksPerDay = BackupTick
    BY StartTypes DEF RecordedOK, Planned
<1>2. Day(b.start) \in Nat
  <2>1. Day(0) = 0 /\ Day(0) <= Day(b.start)
    BY <1>1, DayMonotonic, DayAssumption DEF Day, TypeOK
  <2> QED
    BY <1>1, <2>1, DayBounds
<1>3. b.start = Day(b.start) * TicksPerDay + BackupTick
    BY <1>1, DayAndTick
<1> QED
    BY <1>1, <1>2, <1>3 DEF OfDay

\* Without a mishap the store holds nothing but backups of days.
LEMMA StoredDays ==
    ASSUME TypeOK, RecordedOK, NoStartLost, missed = 0, NEW b \in store
    PROVE  Day(b.start) \in Nat /\ b = OfDay(Day(b.start))
BY RecordedDays DEF NoStartLost

\* The days whose backups are there.
StoreDays == {n \in Nat : OfDay(n) \in store}

\* The strategy in terms of days: what it does not remove is what is left of the days.
LEMMA DaysLeft ==
    ASSUME TypeOK, RecordedOK, Intervals, NEW n \in StoreDays, n <= Day(now)
    PROVE  OfDay(n) \notin FilterForRemoval(strategy, store, now) <=>
              Left(StoreDays, Day(now), n)
<1> DEFINE d == Day(now)
           b == OfDay(n)
           X == StoreDays
           Earliest(lo, hi) == First(Inside(X, d, lo, hi), n)
<1>0. n \in Nat /\ b \in store /\ d \in Int
    BY DayBounds DEF StoreDays, TypeOK
<1>1. ASSUME NEW i \in Calendar, NEW m \in Nat
      PROVE  /\ InInterval(i, OfDay(m).start, now) <=> d - m \in i.start .. i.end
             /\ i.start \in Nat /\ i.end \in Nat
  <2>1. i.start \in Nat /\ i.end \in Nat /\ Day(OfDay(m).start) = m
    BY OfDays DEF Calendar
  <2> QED
    BY <1>0, <2>1 DEF InInterval
<1>2. ASSUME NEW i \in Calendar, d - n \in i.start .. i.end
      PROVE  b \in OldestOf(Within(i, store, now)) <=> Earliest(i.start, i.end)
  <2> DEFINE W == Within(i, store, now)
             I == Inside(X, d, i.start, i.end)
  <2>1. b \in W
    BY <1>0, <1>1, <1>2 DEF Within
  <2>2. \A m \in Nat : m \in I <=> OfDay(m) \in W
    BY <1>1 DEF Inside, Within, StoreDays
  <2>3. \A x \in W : Day(x.start) \in Nat /\ x = OfDay(Day(x.start))
    BY IntervalsHoldRecorded, RecordedDays
  <2>4. I \subseteq Nat
    BY DEF Inside, StoreDays
  <2> HIDE DEF W, I
  <2>5. ASSUME b \in OldestOf(W), NEW m \in I \ {n} PROVE n < m
    <3>1. OfDay(m) \in W /\ OfDay(m) # b /\ m \in Nat
      BY <1>0, <2>2, <2>4, OfDays
    <3>2. b.start <= OfDay(m).start
      BY <1>0, <2>5, <3>1, OfDays DEF OldestOf
    <3> QED
      BY <1>0, <3>1, <3>2, OfDays
  <2>6. ASSUME Earliest(i.start, i.end), NEW x \in W \ {b} PROVE b.start < x.start
    <3> DEFINE m == Day(x.start)
    <3>1. m \in Nat /\ x = OfDay(m)
      BY <2>3
    <3> HIDE DEF m
    <3>2. m \in I \ {n}
      BY <2>2, <2>6, <3>1
    <3>3. n < m
      BY <2>6, <3>2 DEF First, I
    <3> QED
      BY <1>0, <3>1, <3>3, OfDays
  <2>7. b \in OldestOf(W) <=> \A m \in I \ {n} : n < m
    BY <2>1, <2>5, <2>6 DEF OldestOf, First, I
  <2> QED
    BY <2>7 DEF First, I, W
<1> DEFINE Stays(i) == /\ d - n \in i.start .. i.end
                       /\ i.mode = "ALL" \/ Earliest(i.start, i.end)
<1>3. b \notin FilterForRemoval(strategy, store, now) <=> \E i \in Calendar : Stays(i)
  <2>1. \A i \in Calendar : InInterval(i, b.start, now) <=> d - n \in i.start .. i.end
    BY <1>0, <1>1
  <2> HIDE DEF b, d, Earliest
  <2> QED
    BY <1>0, <1>2, <2>1, WhatStays DEF b
<1>4. (\E i \in Calendar : Stays(i)) <=>
        \/ d - n \in 0 .. 7
        \/ d - n \in 8 .. 30    /\ Earliest(8, 30)
        \/ d - n \in 31 .. 90   /\ Earliest(31, 90)
        \/ d - n \in 91 .. 180  /\ Earliest(91, 180)
        \/ d - n \in 181 .. 360 /\ Earliest(181, 360)
  <2> HIDE DEF Earliest, d
  <2> DEFINE week == [start |-> 0, end |-> 7, mode |-> "ALL"]
             month == [start |-> 8, end |-> 30, mode |-> "OLDEST"]
             quarter == [start |-> 31, end |-> 90, mode |-> "OLDEST"]
             half == [start |-> 91, end |-> 180, mode |-> "OLDEST"]
             year == [start |-> 181, end |-> 360, mode |-> "OLDEST"]
  <2>1. Calendar = {week, month, quarter, half, year}
    BY DEF Calendar
  <2>2. /\ Stays(week) <=> d - n \in 0 .. 7
        /\ Stays(month) <=> d - n \in 8 .. 30 /\ Earliest(8, 30)
        /\ Stays(quarter) <=> d - n \in 31 .. 90 /\ Earliest(31, 90)
        /\ Stays(half) <=> d - n \in 91 .. 180 /\ Earliest(91, 180)
        /\ Stays(year) <=> d - n \in 181 .. 360 /\ Earliest(181, 360)
    OBVIOUS
  <2> HIDE DEF Stays, week, month, quarter, half, year
  <2>3. (\E i \in Calendar : Stays(i)) <=>
           \/ Stays(week)
           \/ Stays(month)
           \/ Stays(quarter)
           \/ Stays(half)
           \/ Stays(year)
    BY <2>1, Zenon
  <2> QED
    BY <2>2, <2>3, Zenon
<1>5. \A lo, hi : Oldest(X, d, lo, hi, n) <=> d - n \in lo .. hi /\ Earliest(lo, hi)
    BY DEF Oldest, Inside
<1>6. d - n <= 7 <=> d - n \in 0 .. 7
    BY <1>0
<1> HIDE DEF b, d, X, Earliest, Stays
<1>7. Left(X, d, n) <=> \/ d - n \in 0 .. 7
                        \/ d - n \in 8 .. 30    /\ Earliest(8, 30)
                        \/ d - n \in 31 .. 90   /\ Earliest(31, 90)
                        \/ d - n \in 91 .. 180  /\ Earliest(91, 180)
                        \/ d - n \in 181 .. 360 /\ Earliest(181, 360)
    BY <1>5, <1>6 DEF Left
<1> QED
    BY <1>3, <1>4, <1>7 DEF b, d, X

\* The clock is at the tick of a job.
LEMMA AtTick ==
    ASSUME TypeOK, DueOK
    PROVE  /\ "backup" \in due => now % TicksPerDay = BackupTick
           /\ "collect" \in due => now % TicksPerDay \in CollectTicks
           /\ now % TicksPerDay = BackupTick => Planned(now) = OfDay(Day(now))
           /\ now \in Int /\ Day(now) \in Nat
<1>1. now % TicksPerDay = BackupTick => now = Day(now) * TicksPerDay + BackupTick
    BY DayAndTick DEF TypeOK
<1>2. Day(now) \in Nat
  <2>1. Day(0) = 0 /\ Day(0) <= Day(now)
    BY DayMonotonic, DayAssumption DEF Day, TypeOK
  <2> QED
    BY <2>1, DayBounds DEF TypeOK
<1> QED
    BY <1>1, <1>2 DEF DueOK, JobsAt, OfDay, TypeOK

\* No collection comes before the first one of its day.
LEMMA NotBeforeFirst ==
    ASSUME now % TicksPerDay \in CollectTicks
    PROVE  now % TicksPerDay > FirstCollect \/ now % TicksPerDay = FirstCollect
<1> DEFINE tick == now % TicksPerDay
<1> HIDE DEF tick
<1>1. tick \in CollectTicks => FirstCollect <= tick /\ tick \in Int /\ FirstCollect \in Int
    BY FirstTick, ScheduleAssumption, DayAssumption
<1>2. tick \in CollectTicks => tick > FirstCollect \/ tick = FirstCollect
    BY <1>1
<1> QED
    BY <1>2 DEF tick

\* When all jobs of a tick have run, the next tick has none of them done.
LEMMA LastDoneAfterTick ==
    ASSUME TypeOK, Tick
    PROVE  Taken' = Taken /\ Listed' = Listed
<1> DEFINE r == now % TicksPerDay
           s == (now + 1) % TicksPerDay
           d == Day(now)
           e == Day(now + 1)
<1>1. /\ now \in Int /\ now + 1 \in Int
      /\ d \in Int /\ e \in Int
      /\ r \in 0 .. TicksPerDay - 1 /\ s \in 0 .. TicksPerDay - 1
    BY DayBounds, DayAssumption DEF TypeOK
<1>2. now = d * TicksPerDay + r /\ now + 1 = e * TicksPerDay + s
    BY <1>1, DayAndTick
<1>3. \/ r < TicksPerDay - 1 /\ e = d /\ s = r + 1
      \/ r = TicksPerDay - 1 /\ e = d + 1 /\ s = 0
  <2>1. CASE r < TicksPerDay - 1
    <3>1. now + 1 = d * TicksPerDay + (r + 1) /\ r + 1 \in 0 .. TicksPerDay - 1
      <4>1. d * TicksPerDay \in Int
        BY <1>1, DayAssumption
      <4> HIDE DEF d, r
      <4> QED
        BY <1>1, <1>2, <2>1, <4>1, DayAssumption
    <3>2. e = d
      <4> HIDE DEF d, r
      <4> QED
        BY <1>1, <3>1, DayOf
    <3>3. d * TicksPerDay \in Int
      BY <1>1, DayAssumption
    <3> HIDE DEF d, r, e, s
    <3> QED
      BY <1>1, <1>2, <2>1, <3>1, <3>2, <3>3
  <2>2. CASE r = TicksPerDay - 1
    <3>1. d * TicksPerDay \in Int /\ (d + 1) * TicksPerDay = d * TicksPerDay + TicksPerDay
      <4> HIDE DEF d
      <4> QED
        BY <1>1, DayAssumption
    <3>2. now + 1 = (d + 1) * TicksPerDay + 0
      <4> HIDE DEF d, r
      <4> QED
        BY <1>1, <1>2, <2>2, <3>1, DayAssumption
    <3>3. e = d + 1
      <4>1. d + 1 \in Int /\ 0 \in 0 .. TicksPerDay - 1
        BY <1>1, DayAssumption
      <4> HIDE DEF d
      <4> QED
        BY <3>2, <4>1, DayOf
    <3> HIDE DEF d, r, e, s
    <3> QED
      BY <1>1, <1>2, <2>2, <3>1, <3>2, <3>3, DayAssumption
  <2>3. r < TicksPerDay - 1 \/ r = TicksPerDay - 1
    <3> HIDE DEF r
    <3> QED
      BY <1>1, DayAssumption
  <2> HIDE DEF r, s, d, e
  <2> QED
    BY <2>1, <2>2, <2>3
<1>4. due = {} /\ now' = now + 1
      /\ \A job : job \notin due' <=> job \notin JobsAt(now + 1)
    BY DEF Tick
<1>5. /\ "backup" \in due' <=> s = BackupTick
      /\ "collect" \in due' <=> s \in CollectTicks
    BY <1>4 DEF JobsAt
<1>6. /\ Taken = IF r >= BackupTick THEN d ELSE d - 1
      /\ Listed = IF r >= FirstCollect THEN d ELSE d - 1
      /\ Taken' = IF s > BackupTick THEN e ELSE e - 1
      /\ Listed' = IF s > FirstCollect THEN e ELSE e - 1
  <2>1. /\ Taken = IF r >= BackupTick THEN d ELSE d - 1
        /\ Listed = IF r >= FirstCollect THEN d ELSE d - 1
    BY <1>1, <1>4, FirstTick, ScheduleAssumption DEF Taken, Listed, LastDone
  <2>2. /\ Taken' = IF s > BackupTick THEN e ELSE e - 1
        /\ Listed' = IF s > FirstCollect THEN e ELSE e - 1
    BY <1>1, <1>4, <1>5, FirstTick, ScheduleAssumption DEF Taken, Listed, LastDone
  <2> QED
    BY <2>1, <2>2
<1> HIDE DEF r, s, d, e
<1> QED
    BY <1>1, <1>3, <1>6, FirstTick, ScheduleAssumption, DayAssumption

\* A collection leaves what survives its day.
LEMMA CollectionOfDay ==
    ASSUME TypeOK, RecordedOK, NoStartLost, missed = 0, Intervals,
           Taken \in {Day(now) - 1, Day(now)}, Day(now) \in Nat,
           \A b \in store : Day(b.start) <= Taken,
           NEW since \in {Day(now) - 1, Day(now)},
           \A n \in 0 .. Taken : OfDay(n) \in store <=> Survives(since, n),
           NEW n \in 0 .. Taken
    PROVE  OfDay(n) \in store \ FilterForRemoval(strategy, store, now) <=> Survives(Day(now), n)
<1> DEFINE d == Day(now)
           X == StoreDays
<1>1. /\ d \in Int /\ Taken \in {d - 1, d} /\ X \in SUBSET (0 .. Taken)
      /\ \A m \in 0 .. Taken : m \in X <=> Survives(since, m)
  <2>1. \A m \in X : m \in 0 .. Taken
    BY OfDays DEF StoreDays
  <2> QED
    BY <2>1 DEF StoreDays
<1>2. Survives(d, n) <=> n \in X /\ Left(X, d, n)
  <2> HIDE DEF d, X
  <2>1. ASSUME NEW D \in Int, NEW last \in {D - 1, D}, n \in 0 .. last,
               NEW Y \in SUBSET (0 .. last), \A m \in 0 .. last : m \in Y <=> Survives(D - 1, m)
        PROVE  Survives(D, n) <=> n \in Y /\ Left(Y, D, n)
    BY <2>1, NextCollection
  <2>2. CASE since = d - 1
    BY <1>1, <2>1, <2>2
  <2>3. CASE since = d
    BY <1>1, <2>3, SameCollection
  <2> QED
    BY <2>2, <2>3 DEF d
<1>3. OfDay(n) \in store <=> n \in X
    BY DEF StoreDays
<1>4. n \in X => (OfDay(n) \notin FilterForRemoval(strategy, store, now) <=> Left(X, d, n))
    BY <1>1, DaysLeft
<1> QED
    BY <1>2, <1>3, <1>4

\* HistoryOK is kept: only the collection of a day changes what survives, and a backup
\* of today or of yesterday survives whether the collection comes before or after it.
LEMMA HistoryKept ==
    ASSUME TypeOK, DueOK, RecordedOK, NoStartLost, ListOK, HistoryOK, [Next]_vars
    PROVE  ListOK' /\ HistoryOK'
<1>1. ListOK'
    BY DEF ListOK, Next, vars, Tick, ScheduleBackup, BackupLosesStart, JobMissed,
           CollectGarbage, DeleteBackup, DeleteFails, CollectionLost
<1> SUFFICES ASSUME Intervals', missed' = 0
             PROVE  /\ \A b \in store' : Day(b.start) <= Taken'
                    /\ \A n \in 0 .. Taken' :
                          OfDay(n) \in store' \ todo' <=> Survives(Listed', n)
    BY <1>1 DEF HistoryOK, OfDay
<1>2. /\ Intervals /\ missed = 0
      /\ UNCHANGED vars \/ Tick \/ ScheduleBackup \/ CollectGarbage \/ DeleteBackup
    BY ScheduleAssumption
       DEF TypeOK, Intervals, Next, vars, Misses, BackupLosesStart, JobMissed, DeleteFails,
           CollectionLost, Tick, ScheduleBackup, CollectGarbage, DeleteBackup
<1>3. /\ \A b \in store : Day(b.start) <= Taken
      /\ \A n \in 0 .. Taken : OfDay(n) \in store \ todo <=> Survives(Listed, n)
    BY <1>2 DEF HistoryOK
<1>4. /\ now \in Int /\ Day(now) \in Nat
      /\ Taken \in {Day(now) - 1, Day(now)} /\ Listed \in {Day(now) - 1, Day(now)}
    BY AtTick, FirstTick DEF Taken, Listed, LastDone
<1>5. CASE UNCHANGED vars
    BY <1>3, <1>5 DEF vars, Taken, Listed, LastDone
<1>6. CASE Tick
  <2>1. Taken' = Taken /\ Listed' = Listed /\ UNCHANGED <<store, todo>>
    BY <1>6, LastDoneAfterTick DEF Tick
  <2> QED
    BY <1>3, <2>1
<1>7. CASE DeleteBackup
  <2>1. /\ Taken' = Taken /\ Listed' = Listed
        /\ store' \subseteq store /\ store' \ todo' = store \ todo
    BY <1>7 DEF DeleteBackup, Taken, Listed, LastDone
  <2> QED
    BY <1>3, <2>1
<1>8. CASE ScheduleBackup
  <2> DEFINE d == Day(now)
  <2>1. /\ store' = store \cup {Planned(now)} /\ UNCHANGED <<now, todo>>
        /\ "backup" \in due /\ "backup" \notin due'
        /\ "collect" \in due' <=> "collect" \in due
    BY <1>8 DEF ScheduleBackup, Planned
  <2>2. now % TicksPerDay = BackupTick /\ Planned(now) = OfDay(d)
    BY <2>1, AtTick
  <2>3. Taken = d - 1 /\ Taken' = d /\ Listed' = Listed
    BY <2>1, <2>2, ScheduleAssumption DEF Taken, Listed, LastDone
  <2>4. store' = store \cup {OfDay(d)} /\ todo' = todo
    BY <2>1, <2>2
  <2>5. OfDay(d) \notin store
    <3>1. Day(OfDay(d).start) = d
      BY <1>4, OfDays
    <3> QED
      BY <1>3, <1>4, <2>3, <3>1
  <2>6. OfDay(d) \notin todo
    BY <2>5 DEF TypeOK
  <2>7. Survives(Listed, d)
    BY <1>4 DEF Survives
  <2>8. \A n \in Int : n # d => OfDay(n) # OfDay(d)
    BY <1>4, OfDays
  <2>9. Day(OfDay(d).start) = d
    BY <1>4, OfDays
  <2> HIDE DEF d
  <2>10. ASSUME NEW x \in store' PROVE Day(x.start) <= d
    <3>1. CASE x \in store
      <4>1. Day(x.start) <= d - 1 /\ Day(x.start) \in Int
        BY <1>3, <2>3, <3>1, StartTypes, DayBounds
      <4> QED
        BY <1>4, <4>1 DEF d
    <3> QED
      BY <1>4, <2>4, <2>9, <3>1 DEF d
  <2>11. ASSUME NEW n \in 0 .. d
         PROVE  OfDay(n) \in store' \ todo' <=> Survives(Listed, n)
    <3>1. CASE n = d
      BY <2>4, <2>6, <2>7, <3>1
    <3>2. CASE n # d
      <4>1. n \in 0 .. Taken
        BY <1>4, <2>3, <3>2 DEF d
      <4>2. OfDay(n) # OfDay(d)
        BY <2>8, <3>2
      <4> QED
        BY <1>3, <2>4, <4>1, <4>2
    <3> QED
      BY <3>1, <3>2
  <2> QED
    BY <2>3, <2>10, <2>11
<1>9. CASE CollectGarbage
  <2>1. /\ "collect" \in due /\ "collect" \notin due'
        /\ "backup" \in due' <=> "backup" \in due
        /\ UNCHANGED <<now, store>> /\ todo' = FilterForRemoval(strategy, store, now)
    BY <1>9 DEF CollectGarbage
  <2>2. /\ now % TicksPerDay > FirstCollect \/ now % TicksPerDay = FirstCollect
        /\ todo = {}
    BY <2>1, AtTick, NotBeforeFirst DEF ListOK
  <2>3. Listed' = Day(now) /\ Taken' = Taken
    BY <1>4, <2>1, <2>2 DEF Taken, Listed, LastDone
  <2>4. \A n \in 0 .. Taken : OfDay(n) \in store <=> Survives(Listed, n)
    BY <1>3, <2>2
  <2>5. \A n \in 0 .. Taken : OfDay(n) \in store \ todo' <=> Survives(Day(now), n)
    BY <1>2, <1>3, <1>4, <2>1, <2>4, CollectionOfDay
  <2> QED
    BY <1>3, <2>1, <2>3, <2>5
<1> QED
    BY <1>2, <1>5, <1>6, <1>7, <1>8, <1>9

-------------------------------------------------------------------------------
(* One mishap.  The days of the backups are taken apart by interval: M1 are the *)
(* days with a recorded backup, and each interval after the first one chooses   *)
(* its days among those of the interval before it.                              *)

\* M is chosen among the days A up to day last: two of its days are more than gap days
\* apart (a mishap takes one day off), and each day of A that is left out has one of M
\* at most gap days before it.
Chosen(A, M, last, gap, mishaps) ==
    /\ M \subseteq A
    /\ \A n \in M : n <= last
    /\ \A m, n \in M : m < n => n - m > gap - mishaps
    /\ \A n \in A \ M : n <= last => \E m \in M : m < n /\ n - m <= gap

\* On day d the interval from lo to hi days holds, of the days X that are there, those of
\* M, of which there is at most one; a mishap may have left it a day of A that arrives.
Held(X, d, lo, hi, mishaps, A, M) ==
    /\ \A n \in M : d - n \in lo .. hi => n \in X
    /\ \A n \in X : d - n \in lo .. hi => n \in M \/ (mishaps = 1 /\ n = d - lo /\ n \in A)
    /\ \A m, n \in M : d - m \in lo .. hi /\ d - n \in lo .. hi => m = n

Level(X, d, lo, hi, mishaps, A, M) ==
    /\ Chosen(A, M, d - lo, hi - lo, mishaps)
    /\ Held(X, d, lo, hi, mishaps, A, M)

\* A collection of day d keeps the oldest day of an interval: its days are then chosen
\* again, and hold, and only an arrival is removed unless something went wrong.  The last
\* collection was one of the day before or of the same day (since).
LevelCollection(d, since, lo, hi, mishaps, A, B, M, X, S, N) ==
    /\ d \in Int /\ since \in {d - 1, d}
    /\ lo \in Nat /\ hi \in Nat /\ lo < hi /\ mishaps \in {0, 1}
    /\ A \in SUBSET Nat /\ B \in SUBSET Nat /\ M \in SUBSET Nat
    /\ X \in SUBSET Nat /\ S \in SUBSET X /\ N \in SUBSET Nat
    /\ Level(X, since, lo, hi, mishaps, A, M)
    /\ A \subseteq B /\ \A n \in B : n <= d - lo => n \in A
    /\ since # d => \A n \in Nat : d - n = lo => (n \in X <=> n \in A)
    /\ \A n \in Inside(X, d, lo, hi) : n \in S <=> First(Inside(X, d, lo, hi), n)
    /\ N = M \cup Inside(S, d, lo, hi)

LEMMA LevelCollectedFirst ==
    ASSUME NEW d, NEW lo, NEW hi, NEW mishaps, NEW A, NEW B, NEW M, NEW X, NEW S, NEW N,
           LevelCollection(d, d - 1, lo, hi, mishaps, A, B, M, X, S, N)
    PROVE  /\ Level(S, d, lo, hi, mishaps, B, N)
           /\ \A n \in N \ M : n >= d - lo - 1
           /\ mishaps = 0 => \A n \in Inside(X, d, lo, hi) \ S : n = d - lo /\ n \in B
<1> DEFINE I == Inside(X, d, lo, hi)
           z == d - lo
<1> USE DEF LevelCollection
<1>types. /\ d \in Int /\ lo \in Nat /\ hi \in Nat /\ lo < hi /\ mishaps \in {0, 1}
          /\ A \in SUBSET Nat /\ B \in SUBSET Nat /\ M \in SUBSET Nat
          /\ X \in SUBSET Nat /\ S \in SUBSET X /\ N \in SUBSET Nat
          /\ A \subseteq B /\ \A n \in B : n <= d - lo => n \in A
          /\ \A n \in Nat : d - n = lo => (n \in X <=> n \in A)
    OBVIOUS
<1>0. /\ M \subseteq A /\ \A n \in M : n <= z - 1
      /\ \A m, n \in M : m < n => n - m > hi - lo - mishaps
      /\ \A n \in A \ M : n <= z - 1 => \E m \in M : m < n /\ n - m <= hi - lo
      /\ \A n \in M : d - n \in lo + 1 .. hi => n \in X
      /\ \A n \in X : d - n \in lo + 1 .. hi =>
            n \in M \/ (mishaps = 1 /\ n = z - 1 /\ n \in A)
    BY <1>types DEF Level, Chosen, Held
<1>1. \A n : n \in I <=> n \in X /\ d - n \in lo .. hi
    BY DEF Inside
<1>2. \A n \in I : n \in S <=> \A m \in I \ {n} : n < m
    BY DEF First
<1>3. \A n : n \in N <=> n \in M \/ (n \in S /\ n \in I)
    BY DEF Inside
<1> HIDE DEF I, LevelCollection
<1> USE <1>types
<1>4. ASSUME NEW n \in I
      PROVE  /\ n \in Nat /\ n \in X /\ d - n \in lo .. hi /\ n <= z
             /\ n \in M \/ n = z \/ (n = z - 1 /\ mishaps = 1 /\ n \in A)
  <2>1. n \in X /\ n \in Nat /\ d - n \in lo .. hi
    BY <1>1, <1>4
  <2>2. CASE d - n = lo
    BY <2>1, <2>2
  <2>3. CASE d - n \in lo + 1 .. hi
    BY <1>0, <2>1, <2>3
  <2> QED
    BY <2>1, <2>2, <2>3
<1>5. ASSUME NEW n \in M, d - n \in lo .. hi PROVE n \in I /\ n \in S
  <2>1. n \in I /\ n <= z - 1
    BY <1>0, <1>1, <1>5
  <2>2. ASSUME NEW m \in I \ {n}, m <= n PROVE FALSE
    <3>1. m \in Nat /\ m < n /\ d - m \in lo .. hi /\ d - n \in lo + 1 .. hi
      BY <1>4, <1>5, <2>1, <2>2
    <3>2. m \in M
      BY <1>4, <2>1, <2>2, <3>1
    <3>3. n - m > hi - lo - mishaps
      BY <1>0, <1>5, <3>1, <3>2
    <3> QED
      BY <3>1, <3>3
  <2>3. \A m \in I \ {n} : n < m
    BY <1>4, <2>1, <2>2
  <2> QED
    BY <1>2, <2>1, <2>3
<1>6. ASSUME NEW m \in N, NEW n \in N, m < n PROVE n - m > hi - lo - mishaps
  <2>1. CASE n \in M
    BY <1>0, <1>1, <1>3, <1>4, <1>6, <2>1
  <2>2. CASE n \notin M
    <3>1. n \in S /\ n \in I /\ n \in {z - 1, z} /\ (n = z - 1 => mishaps = 1)
      BY <1>0, <1>1, <1>3, <1>4, <2>2
    <3>2. m \notin I
      BY <1>1, <1>2, <1>6, <3>1
    <3>3. m \in M /\ d - m > hi
      BY <1>0, <1>3, <1>5, <1>6, <3>1, <3>2
    <3> QED
      BY <3>1, <3>3
  <2> QED
    BY <2>1, <2>2
<1>7. ASSUME NEW n \in B \ N, n <= z PROVE \E m \in N : m < n /\ n - m <= hi - lo
  <2>1. n \in A /\ n \notin M
    BY <1>3, <1>7
  <2>2. CASE n <= z - 1
    BY <1>0, <1>3, <2>1, <2>2
  <2>3. CASE n = z
    <3>1. n \in I
      BY <1>1, <2>1, <2>3
    <3>2. PICK m \in I : m < n
      <4>1. n \notin S
        BY <1>3, <1>7, <3>1
      <4>2. PICK m \in I \ {n} : ~(n < m)
        BY <1>2, <3>1, <4>1
      <4>3. m < n
        BY <1>4, <3>1, <4>2
      <4> QED
        BY <4>2, <4>3
    <3>3. n - m <= hi - lo
      BY <1>4, <2>3, <3>2
    <3>4. CASE m \in M
      BY <1>3, <3>2, <3>3, <3>4
    <3>5. CASE m \notin M
      <4>1. mishaps = 1 /\ m = z - 1 /\ m \in A
        BY <1>4, <2>3, <3>2, <3>5
      <4>2. PICK f \in M : f < m /\ m - f <= hi - lo
        BY <1>0, <3>5, <4>1
      <4>3. CASE d - f <= hi
        BY <1>3, <2>3, <4>1, <4>2, <4>3
      <4>4. CASE d - f > hi
        <5>1. ASSUME NEW x \in I \ {m} PROVE m < x
          <6>1. x \in Nat /\ d - x \in lo .. hi
            BY <1>1
          <6>2. CASE x \in M
            <7>1. f < x
              BY <4>4, <6>1
            <7>2. x - f > hi - lo - 1
              BY <1>0, <4>1, <6>2, <7>1
            <7> QED
              BY <4>2, <6>1, <7>2
          <6>3. CASE x = z
            BY <4>1, <6>3
          <6> QED
            BY <1>4, <4>1, <5>1, <6>2, <6>3
        <5>2. m \in N
          BY <1>2, <1>3, <3>2, <5>1
        <5> QED
          BY <3>2, <3>3, <5>2
      <4> QED
        BY <4>2, <4>3, <4>4
    <3> QED
      BY <3>4, <3>5
  <2> QED
    BY <1>7, <2>2, <2>3
<1>8. Chosen(B, N, d - lo, hi - lo, mishaps)
  <2>1. ASSUME NEW n \in N PROVE n \in B /\ n <= z
    <3>1. CASE n \in M
      BY <1>0, <3>1
    <3>2. CASE n \notin M
      <4>1. n \in I /\ n \in Nat /\ (n = z \/ n \in A) /\ n <= z
        BY <1>3, <1>4, <2>1, <3>2
      <4>2. n \in M \/ (n \in Nat /\ n \in X /\ d - n = lo) \/ n \in A
        BY <1>4, <4>1
      <4>3. n \in A
        BY <1>0, <4>2, <1>types, Zenon
      <4> QED
        BY <4>1, <4>3
    <3> QED
      BY <3>1, <3>2
  <2>2. \A m, n \in N : m < n => n - m > hi - lo - mishaps
    BY <1>6
  <2>3. \A n \in B \ N : n <= z => \E m \in N : m < n /\ n - m <= hi - lo
    BY <1>7
  <2> QED
    BY <2>1, <2>2, <2>3, Zenon DEF Chosen
<1>9. Held(S, d, lo, hi, mishaps, B, N)
  <2>1. \A n \in N : d - n \in lo .. hi => n \in S
    BY <1>3, <1>5
  <2>2. \A n \in S : d - n \in lo .. hi => n \in N
    BY <1>1, <1>3
  <2>3. ASSUME NEW m \in N, NEW n \in N, d - m \in lo .. hi, d - n \in lo .. hi PROVE m = n
    <3>1. m \in S /\ m \in I /\ n \in S /\ n \in I /\ m \in Nat /\ n \in Nat
      BY <1>3, <1>5, <2>3
    <3>2. (m # n => m < n) /\ (m # n => n < m)
      BY <1>2, <3>1
    <3> QED
      BY <3>1, <3>2
  <2> QED
    BY <2>1, <2>2, <2>3 DEF Held
<1>10. \A n \in N \ M : n >= d - lo - 1
  BY <1>1, <1>3, <1>4
<1>11. ASSUME mishaps = 0, NEW n \in I \ S PROVE n = d - lo /\ n \in B
  <2>1. n \notin M
    BY <1>4, <1>5, <1>11
  <2>2. n = d - lo /\ n \in X /\ n \in Nat /\ d - n = lo
    BY <1>4, <1>11, <2>1
  <2>3. n \in A
    BY <2>2, <1>types, Zenon
  <2> QED
    BY <2>2, <2>3
<1>12. Level(S, d, lo, hi, mishaps, B, N)
  BY <1>8, <1>9 DEF Level
<1>13. mishaps = 0 => \A n \in I \ S : n = z /\ n \in B
  BY <1>11
<1> QED
  BY <1>10, <1>12, <1>13, Zenon DEF I

\* A later collection of the same day removes at most an arrival that a mishap has left.
LEMMA LevelCollectedAgain ==
    ASSUME NEW d, NEW lo, NEW hi, NEW mishaps, NEW A, NEW B, NEW M, NEW X, NEW S, NEW N,
           LevelCollection(d, d, lo, hi, mishaps, A, B, M, X, S, N)
    PROVE  /\ Level(S, d, lo, hi, mishaps, B, N)
           /\ \A n \in N \ M : n >= d - lo - 1
           /\ mishaps = 0 => \A n \in Inside(X, d, lo, hi) \ S : n = d - lo /\ n \in B
<1> DEFINE I == Inside(X, d, lo, hi)
           z == d - lo
<1> USE DEF LevelCollection
<1>types. /\ d \in Int /\ lo \in Nat /\ hi \in Nat /\ lo < hi /\ mishaps \in {0, 1}
          /\ A \in SUBSET Nat /\ B \in SUBSET Nat /\ M \in SUBSET Nat
          /\ X \in SUBSET Nat /\ S \in SUBSET X /\ N \in SUBSET Nat
          /\ A \subseteq B /\ \A n \in B : n <= d - lo => n \in A
    OBVIOUS
<1>0. /\ M \subseteq A /\ \A n \in M : n <= z
      /\ \A m, n \in M : m < n => n - m > hi - lo - mishaps
      /\ \A n \in A \ M : n <= z => \E m \in M : m < n /\ n - m <= hi - lo
      /\ \A n \in M : d - n \in lo .. hi => n \in X
      /\ \A n \in X : d - n \in lo .. hi => n \in M \/ (mishaps = 1 /\ n = z /\ n \in A)
      /\ \A m, n \in M : d - m \in lo .. hi /\ d - n \in lo .. hi => m = n
    BY <1>types DEF Level, Chosen, Held
<1>1. \A n : n \in I <=> n \in X /\ d - n \in lo .. hi
    BY DEF Inside
<1>2. \A n \in I : n \in S <=> \A m \in I \ {n} : n < m
    BY DEF First
<1>3. \A n : n \in N <=> n \in M \/ (n \in S /\ n \in I)
    BY DEF Inside
<1> HIDE DEF I, LevelCollection
<1> USE <1>types
<1>4. ASSUME NEW n \in I, n \notin M
      PROVE  n = z /\ mishaps = 1 /\ n \in A /\ n \in Nat
    BY <1>0, <1>1, <1>4
\* A chosen day stays, and then no arrival does.
<1>5. ASSUME NEW n \in M, d - n \in lo .. hi PROVE n \in S /\ n \in I
  <2>1. n \in I /\ n <= z
    BY <1>0, <1>1, <1>5
  <2>2. ASSUME NEW m \in I \ {n} PROVE n < m
    <3>1. m \notin M
      BY <1>0, <1>1, <1>5, <2>2
    <3> QED
      BY <1>4, <2>1, <2>2, <3>1
  <2> QED
    BY <1>2, <2>1, <2>2
<1>6. ASSUME NEW m \in S, NEW n \in S, m \in I, n \in I PROVE m = n
  <2>1. (m # n => m < n) /\ (m # n => n < m) /\ m \in Nat /\ n \in Nat
    BY <1>2, <1>6
  <2> QED
    BY <2>1
<1>7. ASSUME NEW m \in N, NEW n \in N, m < n PROVE n - m > hi - lo - mishaps
  <2>1. CASE m \in M /\ n \in M
    BY <1>0, <1>7, <2>1
  <2>2. CASE n \notin M
    <3>1. n \in S /\ n \in I /\ n = z
      BY <1>3, <1>4, <2>2
    <3>2. ~(d - m \in lo .. hi)
      <4> SUFFICES ASSUME d - m \in lo .. hi PROVE FALSE
        OBVIOUS
      <4>1. m \in S /\ m \in I
        BY <1>3, <1>5
      <4> QED
        BY <1>6, <1>7, <3>1, <4>1
    <3> QED
      BY <1>7, <3>1, <3>2
  <2>3. CASE m \notin M
    <3>1. m = z
      BY <1>3, <1>4, <2>3
    <3>2. n <= z
      BY <1>0, <1>3, <1>4
    <3> QED
      BY <1>7, <3>1, <3>2
  <2> QED
    BY <2>1, <2>2, <2>3
<1>8. Chosen(B, N, d - lo, hi - lo, mishaps)
  <2>1. ASSUME NEW n \in N PROVE n \in B /\ n <= z
    BY <1>0, <1>3, <1>4
  <2>2. \A m, n \in N : m < n => n - m > hi - lo - mishaps
    BY <1>7
  <2>3. \A n \in B \ N : n <= z => \E m \in N : m < n /\ n - m <= hi - lo
    BY <1>0, <1>3
  <2> QED
    BY <2>1, <2>2, <2>3, Zenon DEF Chosen
<1>9. Held(S, d, lo, hi, mishaps, B, N)
  <2>1. \A n \in N : d - n \in lo .. hi => n \in S /\ n \in I
    BY <1>3, <1>5
  <2>2. \A n \in S : d - n \in lo .. hi => n \in N
    BY <1>1, <1>3
  <2>3. \A m, n \in N : d - m \in lo .. hi /\ d - n \in lo .. hi => m = n
    BY <1>6, <2>1
  <2> QED
    BY <2>1, <2>2, <2>3 DEF Held
<1>10. \A n \in N \ M : n >= d - lo - 1
    BY <1>3, <1>4
<1>11. mishaps = 0 => \A n \in I \ S : n = z /\ n \in B
  <2> SUFFICES ASSUME mishaps = 0, NEW n \in I, n \notin S PROVE FALSE
    OBVIOUS
  <2>1. n \notin M
    BY <1>1, <1>5
  <2>2. mishaps = 1
    BY <1>4, <2>1
  <2> QED
    BY <2>2
<1>12. Level(S, d, lo, hi, mishaps, B, N)
    BY <1>8, <1>9 DEF Level
<1> QED
    BY <1>10, <1>11, <1>12, Zenon DEF I

LEMMA LevelCollected ==
    ASSUME NEW d, NEW since, NEW lo, NEW hi, NEW mishaps,
           NEW A, NEW B, NEW M, NEW X, NEW S, NEW N,
           LevelCollection(d, since, lo, hi, mishaps, A, B, M, X, S, N)
    PROVE  /\ Level(S, d, lo, hi, mishaps, B, N)
           /\ \A n \in N \ M : n >= d - lo - 1
           /\ mishaps = 0 => \A n \in Inside(X, d, lo, hi) \ S : n = d - lo /\ n \in B
<1>1. CASE since = d - 1
    BY <1>1, LevelCollectedFirst
<1>2. CASE since = d
    BY <1>2, LevelCollectedAgain
<1> QED
    BY <1>1, <1>2 DEF LevelCollection

\* A mishap adds only arrivals, and days that are too old for the interval.
LevelGain(d, lo, hi, old, new, A, M, X, Y) ==
    /\ d \in Int /\ lo \in Nat /\ hi \in Nat
    /\ old \in {0, 1} /\ new \in {0, 1} /\ old <= new
    /\ A \in SUBSET Nat /\ M \in SUBSET Nat /\ X \in SUBSET Nat /\ Y \in SUBSET Nat
    /\ X \subseteq Y
    /\ Level(X, d, lo, hi, old, A, M)
    /\ \A n \in Inside(Y, d, lo, hi) \ X : new = 1 /\ n = d - lo /\ n \in A

LEMMA LevelGains ==
    ASSUME NEW d, NEW lo, NEW hi, NEW old, NEW new, NEW A, NEW M, NEW X, NEW Y,
           LevelGain(d, lo, hi, old, new, A, M, X, Y)
    PROVE  Level(Y, d, lo, hi, new, A, M)
<1>1. Chosen(A, M, d - lo, hi - lo, new)
  <2>1. \A m, n \in M : m < n => n - m > hi - lo - new
    BY DEF LevelGain, Level, Chosen
  <2> QED
    BY <2>1 DEF LevelGain, Level, Chosen
<1>2. Held(Y, d, lo, hi, new, A, M)
    BY DEF LevelGain, Level, Held, Inside
<1> QED
    BY <1>1, <1>2 DEF Level

\* The days X that are there on day d, in terms of the days the intervals have chosen.
History(X, d, mishaps, M1, M2, M3, M4, M5) ==
    /\ X \subseteq M1
    /\ \A n \in M1 : d - n <= 7 => n \in X
    /\ Level(X, d, 8, 30, mishaps, M1, M2)
    /\ Level(X, d, 31, 90, mishaps, M2, M3)
    /\ Level(X, d, 91, 180, mishaps, M3, M4)
    /\ Level(X, d, 181, 360, mishaps, M4, M5)

\* What an undisturbed collection of day d removes: arrivals and what is past a year.
Arrived(d, n, M1, M2, M3, M4) ==
    \/ d - n = 8 /\ n \in M1
    \/ d - n = 31 /\ n \in M2
    \/ d - n = 91 /\ n \in M3
    \/ d - n = 181 /\ n \in M4
    \/ d - n > 360

\* A collection of day d finds the days X and leaves S.
DayCollected(d, since, mishaps, X, S, M1, M2, M3, M4, M5) ==
    /\ d \in Int /\ since \in {d - 1, d}
    /\ mishaps \in {0, 1} /\ X \in SUBSET Nat /\ S \in SUBSET X
    /\ M1 \in SUBSET Nat /\ M2 \in SUBSET Nat /\ M3 \in SUBSET Nat
    /\ M4 \in SUBSET Nat /\ M5 \in SUBSET Nat
    /\ History(X, since, mishaps, M1, M2, M3, M4, M5)
    /\ \A n \in X : n \in S <=> Left(X, d, n)

LEMMA HistoryCollected ==
    ASSUME NEW d, NEW since, NEW mishaps, NEW X, NEW S,
           NEW M1, NEW M2, NEW M3, NEW M4, NEW M5,
           DayCollected(d, since, mishaps, X, S, M1, M2, M3, M4, M5)
    PROVE  \E N2, N3, N4, N5 \in SUBSET Nat :
              /\ History(S, d, mishaps, M1, N2, N3, N4, N5)
              /\ M5 \subseteq N5
              /\ mishaps = 0 => \A n \in X \ S : Arrived(d, n, M1, N2, N3, N4)
<1> DEFINE N2 == M2 \cup Inside(S, d, 8, 30)
           N3 == M3 \cup Inside(S, d, 31, 90)
           N4 == M4 \cup Inside(S, d, 91, 180)
           N5 == M5 \cup Inside(S, d, 181, 360)
<1>0. /\ d \in Int /\ since \in {d - 1, d}
      /\ mishaps \in {0, 1} /\ X \in SUBSET Nat /\ S \in SUBSET X
      /\ M1 \in SUBSET Nat /\ M2 \in SUBSET Nat /\ M3 \in SUBSET Nat
      /\ M4 \in SUBSET Nat /\ M5 \in SUBSET Nat
      /\ History(X, since, mishaps, M1, M2, M3, M4, M5)
      /\ \A n \in X : n \in S <=> Left(X, d, n)
    BY DEF DayCollected
<1> USE <1>0
<1>1. /\ N2 \in SUBSET Nat /\ N3 \in SUBSET Nat /\ N4 \in SUBSET Nat /\ N5 \in SUBSET Nat
      /\ M2 \subseteq N2 /\ M3 \subseteq N3 /\ M4 \subseteq N4 /\ M5 \subseteq N5
    BY DEF Inside
<1>2. /\ \A n \in Inside(X, d, 8, 30) : n \in S <=> First(Inside(X, d, 8, 30), n)
      /\ \A n \in Inside(X, d, 31, 90) : n \in S <=> First(Inside(X, d, 31, 90), n)
      /\ \A n \in Inside(X, d, 91, 180) : n \in S <=> First(Inside(X, d, 91, 180), n)
      /\ \A n \in Inside(X, d, 181, 360) : n \in S <=> First(Inside(X, d, 181, 360), n)
  <2>1. ASSUME NEW n, n \in X, n \in Nat
        PROVE  /\ d - n \in 8 .. 30 => (n \in S <=> First(Inside(X, d, 8, 30), n))
               /\ d - n \in 31 .. 90 => (n \in S <=> First(Inside(X, d, 31, 90), n))
               /\ d - n \in 91 .. 180 => (n \in S <=> First(Inside(X, d, 91, 180), n))
               /\ d - n \in 181 .. 360 => (n \in S <=> First(Inside(X, d, 181, 360), n))
    <3>1. n \in S <=> Left(X, d, n)
      BY <2>1
    <3>2. \A lo, hi : n \in Inside(X, d, lo, hi) <=> d - n \in lo .. hi
      BY <2>1 DEF Inside
    <3> QED
      BY <2>1, <3>1, <3>2 DEF Left, Oldest
  <2> QED
    BY <2>1 DEF Inside
<1>3. /\ Level(X, since, 8, 30, mishaps, M1, M2)
      /\ Level(X, since, 31, 90, mishaps, M2, M3)
      /\ Level(X, since, 91, 180, mishaps, M3, M4)
      /\ Level(X, since, 181, 360, mishaps, M4, M5)
      /\ X \subseteq M1 /\ \A n \in M1 : since - n <= 7 => n \in X
    BY DEF History
<1>4. since # d =>
        /\ \A n \in Nat : d - n = 8 => (n \in X <=> n \in M1)
        /\ \A n \in Nat : d - n = 31 => (n \in X <=> n \in M2)
        /\ \A n \in Nat : d - n = 91 => (n \in X <=> n \in M3)
        /\ \A n \in Nat : d - n = 181 => (n \in X <=> n \in M4)
    BY <1>3 DEF Level, Held
<1> HIDE DEF N2, N3, N4, N5
<1>5. /\ Level(S, d, 8, 30, mishaps, M1, N2)
      /\ \A n \in N2 \ M2 : n >= d - 9
      /\ mishaps = 0 => \A n \in Inside(X, d, 8, 30) \ S : n = d - 8 /\ n \in M1
  <2>0. LevelCollection(d, since, 8, 30, mishaps, M1, M1, M2, X, S, N2)
    BY <1>1, <1>2, <1>3, <1>4 DEF LevelCollection, N2
  <2>1. /\ Level(S, d, 8, 30, mishaps, M1, N2)
        /\ \A n \in N2 \ M2 : n >= d - 8 - 1
        /\ mishaps = 0 => \A n \in Inside(X, d, 8, 30) \ S : n = d - 8 /\ n \in M1
    BY <2>0, LevelCollected
  <2> QED
    BY <2>1
<1>6. /\ Level(S, d, 31, 90, mishaps, N2, N3)
      /\ \A n \in N3 \ M3 : n >= d - 32
      /\ mishaps = 0 => \A n \in Inside(X, d, 31, 90) \ S : n = d - 31 /\ n \in N2
  <2>1. \A n \in N2 : n <= d - 31 => n \in M2
    BY <1>1, <1>5
  <2>0. LevelCollection(d, since, 31, 90, mishaps, M2, N2, M3, X, S, N3)
    BY <1>1, <1>2, <1>3, <1>4, <2>1 DEF LevelCollection, N3
  <2>2. /\ Level(S, d, 31, 90, mishaps, N2, N3)
        /\ \A n \in N3 \ M3 : n >= d - 31 - 1
        /\ mishaps = 0 => \A n \in Inside(X, d, 31, 90) \ S : n = d - 31 /\ n \in N2
    BY <2>0, LevelCollected
  <2> QED
    BY <2>2
<1>7. /\ Level(S, d, 91, 180, mishaps, N3, N4)
      /\ \A n \in N4 \ M4 : n >= d - 92
      /\ mishaps = 0 => \A n \in Inside(X, d, 91, 180) \ S : n = d - 91 /\ n \in N3
  <2>1. \A n \in N3 : n <= d - 91 => n \in M3
    BY <1>1, <1>6
  <2>0. LevelCollection(d, since, 91, 180, mishaps, M3, N3, M4, X, S, N4)
    BY <1>1, <1>2, <1>3, <1>4, <2>1 DEF LevelCollection, N4
  <2>2. /\ Level(S, d, 91, 180, mishaps, N3, N4)
        /\ \A n \in N4 \ M4 : n >= d - 91 - 1
        /\ mishaps = 0 => \A n \in Inside(X, d, 91, 180) \ S : n = d - 91 /\ n \in N3
    BY <2>0, LevelCollected
  <2> QED
    BY <2>2
<1>8. /\ Level(S, d, 181, 360, mishaps, N4, N5)
      /\ mishaps = 0 => \A n \in Inside(X, d, 181, 360) \ S : n = d - 181 /\ n \in N4
  <2>1. \A n \in N4 : n <= d - 181 => n \in M4
    BY <1>1, <1>7
  <2>2. LevelCollection(d, since, 181, 360, mishaps, M4, N4, M5, X, S, N5)
    BY <1>1, <1>2, <1>3, <1>4, <2>1 DEF LevelCollection, N5
  <2> QED
    BY <2>2, LevelCollected
<1>9. History(S, d, mishaps, M1, N2, N3, N4, N5)
  <2>1. S \subseteq M1
    BY <1>3
  <2>2. \A n \in M1 : d - n <= 7 => n \in S
    BY <1>3 DEF Left
  <2> QED
    BY <1>5, <1>6, <1>7, <1>8, <2>1, <2>2 DEF History
<1>10. ASSUME mishaps = 0, NEW n \in X \ S PROVE Arrived(d, n, M1, N2, N3, N4)
  <2>1. d - n > 7
    BY DEF Left
  <2>2. \/ n \in Inside(X, d, 8, 30) \/ n \in Inside(X, d, 31, 90)
        \/ n \in Inside(X, d, 91, 180) \/ n \in Inside(X, d, 181, 360) \/ d - n > 360
    BY <2>1 DEF Inside
  <2> QED
    BY <1>5, <1>6, <1>7, <1>8, <1>10, <2>2 DEF Arrived
<1> QED
    BY <1>1, <1>9, <1>10

\* A mishap in the deletions of day d leaves only what the collection would have removed.
LEMMA HistoryGains ==
    ASSUME NEW d \in Int, NEW X \in SUBSET Nat, NEW Y \in SUBSET Nat, X \subseteq Y,
           NEW M1 \in SUBSET Nat, NEW M2 \in SUBSET Nat, NEW M3 \in SUBSET Nat,
           NEW M4 \in SUBSET Nat, NEW M5 \in SUBSET Nat,
           NEW old \in {0, 1}, NEW new \in {0, 1}, old <= new, Y \subseteq M1,
           History(X, d, old, M1, M2, M3, M4, M5),
           \A n \in Y \ X : new = 1 /\ Arrived(d, n, M1, M2, M3, M4)
    PROVE  History(Y, d, new, M1, M2, M3, M4, M5)
<1>1. /\ Level(X, d, 8, 30, old, M1, M2) /\ Level(X, d, 31, 90, old, M2, M3)
      /\ Level(X, d, 91, 180, old, M3, M4) /\ Level(X, d, 181, 360, old, M4, M5)
    BY DEF History
<1>2. Level(Y, d, 8, 30, new, M1, M2)
  <2>1. \A n \in Inside(Y, d, 8, 30) \ X : new = 1 /\ n = d - 8 /\ n \in M1
    BY DEF Inside, Arrived
  <2>2. LevelGain(d, 8, 30, old, new, M1, M2, X, Y)
    BY <1>1, <2>1 DEF LevelGain
  <2> QED
    BY <2>2, LevelGains
<1>3. Level(Y, d, 31, 90, new, M2, M3)
  <2>1. \A n \in Inside(Y, d, 31, 90) \ X : new = 1 /\ n = d - 31 /\ n \in M2
    BY DEF Inside, Arrived
  <2>2. LevelGain(d, 31, 90, old, new, M2, M3, X, Y)
    BY <1>1, <2>1 DEF LevelGain
  <2> QED
    BY <2>2, LevelGains
<1>4. Level(Y, d, 91, 180, new, M3, M4)
  <2>1. \A n \in Inside(Y, d, 91, 180) \ X : new = 1 /\ n = d - 91 /\ n \in M3
    BY DEF Inside, Arrived
  <2>2. LevelGain(d, 91, 180, old, new, M3, M4, X, Y)
    BY <1>1, <2>1 DEF LevelGain
  <2> QED
    BY <2>2, LevelGains
<1>5. Level(Y, d, 181, 360, new, M4, M5)
  <2>1. \A n \in Inside(Y, d, 181, 360) \ X : new = 1 /\ n = d - 181 /\ n \in M4
    BY DEF Inside, Arrived
  <2>2. LevelGain(d, 181, 360, old, new, M4, M5, X, Y)
    BY <1>1, <2>1 DEF LevelGain
  <2> QED
    BY <2>2, LevelGains
<1> QED
    BY <1>2, <1>3, <1>4, <1>5 DEF History

-------------------------------------------------------------------------------
(* After one mishap the oldest backup is still followed early enough. *)

\* No day up to last is without a recorded backup, but one when something went wrong.
Dense(M1, last, mishaps) ==
    /\ M1 \subseteq 0 .. last
    /\ \A m, n \in (0 .. last) \ M1 : mishaps = 1 /\ m = n

\* A day of A that is far enough from a chosen one is preceded by another one.
ChosenOf(A, M, last, gap, mishaps) ==
    /\ A \in SUBSET Nat /\ M \in SUBSET Nat /\ last \in Int /\ gap \in Nat
    /\ mishaps \in {0, 1}
    /\ Chosen(A, M, last, gap, mishaps)

LEMMA NextChosen ==
    ASSUME NEW A, NEW M, NEW last, NEW gap, NEW mishaps, ChosenOf(A, M, last, gap, mishaps)
    PROVE  \A f \in M, b \in A : b - f > gap /\ b <= last =>
              \E s \in M : s - f > gap - mishaps /\ s <= b
<1> SUFFICES ASSUME NEW f \in M, NEW b \in A, b - f > gap, b <= last
             PROVE  \E s \in M : s - f > gap - mishaps /\ s <= b
    OBVIOUS
<1>0. /\ A \in SUBSET Nat /\ M \in SUBSET Nat /\ last \in Int /\ gap \in Nat
      /\ mishaps \in {0, 1} /\ Chosen(A, M, last, gap, mishaps)
    BY DEF ChosenOf
<1>1. CASE b \in M
    BY <1>0, <1>1
<1>2. CASE b \notin M
  <2>1. PICK m \in M : m < b /\ b - m <= gap
    BY <1>0, <1>2 DEF Chosen
  <2>2. f < m
    BY <1>0, <2>1
  <2>3. m - f > gap - mishaps
    BY <1>0, <2>2 DEF Chosen
  <2> QED
    BY <1>0, <2>1, <2>3
<1> QED
    BY <1>1, <1>2

\* The days chosen up to day d, when the days up to last hold a backup.
ChosenDays(d, last, mishaps, M1, M2, M3, M4, M5) ==
    /\ d \in Int /\ last \in Int /\ last >= d - 1 /\ mishaps \in {0, 1}
    /\ M1 \in SUBSET Nat /\ M2 \in SUBSET Nat /\ M3 \in SUBSET Nat
    /\ M4 \in SUBSET Nat /\ M5 \in SUBSET Nat
    /\ Dense(M1, last, mishaps)
    /\ Chosen(M1, M2, d - 8, 22, mishaps)
    /\ Chosen(M2, M3, d - 31, 59, mishaps)
    /\ Chosen(M3, M4, d - 91, 89, mishaps)
    /\ Chosen(M4, M5, d - 181, 179, mishaps)

\* The distances of the days chosen by the second, third and fourth interval.
LEMMA NextMonth ==
    ASSUME NEW d, NEW last, NEW mishaps, NEW M1, NEW M2, NEW M3, NEW M4, NEW M5,
           ChosenDays(d, last, mishaps, M1, M2, M3, M4, M5)
    PROVE  \A f \in M2 : f + 24 <= d - 8 => \E s \in M2 : s - f \in 22 .. 24
<1> SUFFICES ASSUME NEW f \in M2, f + 24 <= d - 8 PROVE \E s \in M2 : s - f \in 22 .. 24
    OBVIOUS
<1>1. /\ d \in Int /\ last \in Int /\ last >= d - 1 /\ mishaps \in {0, 1}
      /\ M1 \in SUBSET Nat /\ M2 \in SUBSET Nat
      /\ Dense(M1, last, mishaps) /\ Chosen(M1, M2, d - 8, 22, mishaps)
    BY DEF ChosenDays
<1>2. PICK b \in M1 : b \in {f + 23, f + 24}
  <2>1. f + 23 \in 0 .. last /\ f + 24 \in 0 .. last
    BY <1>1
  <2>2. ~(f + 23 \notin M1 /\ f + 24 \notin M1)
    BY <1>1, <2>1 DEF Dense
  <2> QED
    BY <2>2
<1>3. b - f > 22 /\ b <= d - 8
    BY <1>1, <1>2
<1>4. \A x \in M2, y \in M1 : y - x > 22 /\ y <= d - 8 =>
         \E s \in M2 : s - x > 22 - mishaps /\ s <= y
  <2>1. ChosenOf(M1, M2, d - 8, 22, mishaps)
    BY <1>1 DEF ChosenOf
  <2> QED
    BY <2>1, NextChosen
<1>5. PICK s \in M2 : s - f > 22 - mishaps /\ s <= b
    BY <1>3, <1>4
<1> QED
    BY <1>1, <1>2, <1>5

LEMMA NextQuarter ==
    ASSUME NEW d, NEW last, NEW mishaps, NEW M1, NEW M2, NEW M3, NEW M4, NEW M5,
           ChosenDays(d, last, mishaps, M1, M2, M3, M4, M5)
    PROVE  \A f \in M3 : f + 72 <= d - 31 => \E s \in M3 : s - f \in 59 .. 72
<1> SUFFICES ASSUME NEW f \in M3, f + 72 <= d - 31 PROVE \E s \in M3 : s - f \in 59 .. 72
    OBVIOUS
<1>1. /\ d \in Int /\ mishaps \in {0, 1}
      /\ M2 \in SUBSET Nat /\ M3 \in SUBSET Nat
      /\ Chosen(M2, M3, d - 31, 59, mishaps)
    BY DEF ChosenDays
<1>2. f \in M2
    BY <1>1 DEF Chosen
<1>3. \A x \in M2 : x + 24 <= d - 8 => \E s \in M2 : s - x \in 22 .. 24
    BY NextMonth
<1>4. PICK b1 \in M2 : b1 - f \in 22 .. 24
    BY <1>1, <1>2, <1>3
<1>5. PICK b2 \in M2 : b2 - b1 \in 22 .. 24
    BY <1>1, <1>3, <1>4
<1>6. PICK b3 \in M2 : b3 - b2 \in 22 .. 24
    BY <1>1, <1>3, <1>4, <1>5
<1>7. b3 - f > 59 /\ b3 - f <= 72 /\ b3 <= d - 31
    BY <1>1, <1>4, <1>5, <1>6
<1>8. \A x \in M3, y \in M2 : y - x > 59 /\ y <= d - 31 =>
         \E s \in M3 : s - x > 59 - mishaps /\ s <= y
  <2>1. ChosenOf(M2, M3, d - 31, 59, mishaps)
    BY <1>1 DEF ChosenOf
  <2> QED
    BY <2>1, NextChosen
<1>9. PICK s \in M3 : s - f > 59 - mishaps /\ s <= b3
    BY <1>7, <1>8
<1> QED
    BY <1>1, <1>7, <1>9

LEMMA NextHalf ==
    ASSUME NEW d, NEW last, NEW mishaps, NEW M1, NEW M2, NEW M3, NEW M4, NEW M5,
           ChosenDays(d, last, mishaps, M1, M2, M3, M4, M5)
    PROVE  \A f \in M4 : f + 144 <= d - 91 => \E s \in M4 : s - f \in 118 .. 144
<1> SUFFICES ASSUME NEW f \in M4, f + 144 <= d - 91 PROVE \E s \in M4 : s - f \in 118 .. 144
    OBVIOUS
<1>1. /\ d \in Int /\ mishaps \in {0, 1}
      /\ M3 \in SUBSET Nat /\ M4 \in SUBSET Nat
      /\ Chosen(M3, M4, d - 91, 89, mishaps)
      /\ \A m, n \in M3 : m < n => n - m > 59 - mishaps
    BY DEF ChosenDays, Chosen
<1>2. f \in M3
    BY <1>1 DEF Chosen
<1>3. \A x \in M3 : x + 72 <= d - 31 => \E s \in M3 : s - x \in 59 .. 72
    BY NextQuarter
<1>4. PICK b1 \in M3 : b1 - f \in 59 .. 72
    BY <1>1, <1>2, <1>3
<1>5. PICK b2 \in M3 : b2 - b1 \in 59 .. 72
    BY <1>1, <1>3, <1>4
<1>6. b2 - f > 89 /\ b2 - f <= 144 /\ b2 <= d - 91
    BY <1>1, <1>4, <1>5
<1>7. \A x \in M4, y \in M3 : y - x > 89 /\ y <= d - 91 =>
         \E s \in M4 : s - x > 89 - mishaps /\ s <= y
  <2>1. ChosenOf(M3, M4, d - 91, 89, mishaps)
    BY <1>1 DEF ChosenOf
  <2> QED
    BY <2>1, NextChosen
<1>8. PICK s \in M4 : s - f > 89 - mishaps /\ s <= b2
    BY <1>6, <1>7
<1>9. s \in M3 /\ b1 < s
    BY <1>1, <1>4, <1>8 DEF Chosen
<1>10. s - b1 > 59 - mishaps
    BY <1>1, <1>9
<1> QED
    BY <1>1, <1>4, <1>6, <1>8, <1>10

\* When the oldest day leaves the last interval, one of 60 to 360 days ago is there.
ChosenHistory(S, d, last, mishaps, M1, M2, M3, M4, M5) ==
    /\ ChosenDays(d, last, mishaps, M1, M2, M3, M4, M5)
    /\ History(S, d, mishaps, M1, M2, M3, M4, M5)

Followed(S, d, M5) == \A w \in M5 : d - w = 361 => \E n \in S : d - n \in 60 .. 360

LEMMA FarEnd ==
    ASSUME NEW d, NEW last, NEW mishaps, NEW S,
           NEW M1, NEW M2, NEW M3, NEW M4, NEW M5,
           ChosenHistory(S, d, last, mishaps, M1, M2, M3, M4, M5)
    PROVE  Followed(S, d, M5)
<1> SUFFICES ASSUME NEW w \in M5, d - w = 361 PROVE \E n \in S : d - n \in 60 .. 360
    BY DEF Followed
<1>1. /\ d \in Int /\ mishaps \in {0, 1}
      /\ M3 \in SUBSET Nat /\ M4 \in SUBSET Nat /\ M5 \in SUBSET Nat
      /\ Chosen(M3, M4, d - 91, 89, mishaps) /\ Chosen(M4, M5, d - 181, 179, mishaps)
    BY DEF ChosenHistory, ChosenDays
<1>2. /\ \A n \in M3 : d - n \in 31 .. 90 => n \in S
      /\ \A n \in M4 : d - n \in 91 .. 180 => n \in S
      /\ \A n \in M5 : d - n \in 181 .. 360 => n \in S
    BY DEF ChosenHistory, History, Level, Held
<1>3. w \in M4 /\ M5 \subseteq M4 /\ M4 \subseteq M3
    BY <1>1 DEF Chosen
<1>0. /\ \A x \in M3 : x + 72 <= d - 31 => \E s \in M3 : s - x \in 59 .. 72
      /\ \A x \in M4 : x + 144 <= d - 91 => \E s \in M4 : s - x \in 118 .. 144
    BY NextQuarter, NextHalf DEF ChosenHistory
<1>4. PICK c \in M4 : c - w \in 118 .. 144
    BY <1>1, <1>3, <1>0
<1>5. PICK b \in M3 : b - c \in 59 .. 72
    BY <1>1, <1>3, <1>4, <1>0
<1>6. PICK e \in M3 : e - b \in 59 .. 72
    BY <1>1, <1>4, <1>5, <1>0
<1>7. d - e \in 73 .. 125
    BY <1>1, <1>4, <1>5, <1>6
<1>8. ASSUME d - e > 90, e \notin M4 PROVE \E n \in S : d - n \in 60 .. 360
  <2>1. PICK g \in M4 : g < e /\ e - g <= 89
    BY <1>1, <1>8 DEF Chosen
  <2>2. d - g \in 92 .. 214
    BY <1>1, <1>7, <1>8, <2>1
  <2>3. CASE d - g <= 180
    BY <1>1, <1>2, <2>2, <2>3
  <2>4. CASE d - g > 180 /\ g \in M5
    BY <1>1, <1>2, <2>2, <2>4
  <2>5. CASE d - g > 180 /\ g \notin M5
    <3>1. PICK h \in M5 : h < g /\ g - h <= 179
      BY <1>1, <2>5 DEF Chosen
    <3>2. CASE d - h <= 360
      BY <1>1, <1>2, <2>5, <3>1, <3>2
    <3>3. CASE d - h > 360
      <4>1. h <= w /\ w - h <= 32
        BY <1>1, <2>2, <3>1, <3>3
      <4>2. ~(h < w)
        BY <1>1, <4>1 DEF Chosen
      <4>3. g - w <= 179 /\ g - w >= 147
        BY <1>1, <2>2, <3>1, <4>1, <4>2
      <4>4. c < g
        BY <1>1, <1>4, <4>3
      <4>5. g - c > 89 - mishaps
        BY <1>1, <4>4 DEF Chosen
      <4> QED
        BY <1>1, <1>4, <4>3, <4>5
    <3> QED
      BY <1>1, <2>5, <3>1, <3>2, <3>3
  <2> QED
    BY <1>1, <2>2, <2>3, <2>4, <2>5
<1> QED
    BY <1>1, <1>2, <1>7, <1>8

\* The history reaches back from the second day on.
Reach(X, d, last) ==
    last >= 1 => \E n \in X : d - n <= 360 /\ (n <= 1 \/ d - n >= 60)

\* A collection removes a day of the last year only when an older one stays.
LEMMA OlderLeft ==
    ASSUME NEW d \in Int, NEW X \in SUBSET Nat, NEW w \in X, d - w <= 360
    PROVE  \E n \in X : n <= w /\ d - n <= 360 /\ Left(X, d, n)
<1>1. ASSUME NEW lo \in Nat, NEW hi \in Nat, d - w \in lo .. hi
      PROVE  \E n \in X : n <= w /\ d - n <= hi /\ Oldest(X, d, lo, hi, n)
  <2> DEFINE I == Inside(X, d, lo, hi)
  <2>1. w \in I
    BY <1>1 DEF Inside
  <2>2. \A n \in I : n \in X /\ n \in Nat /\ d - n \in lo .. hi
    BY DEF Inside
  <2>3. PICK n \in I : \A m \in I : n <= m
    <3> DEFINE J == {m \in I : m <= w}
    <3>1. J \subseteq 0 .. w /\ J # {}
      <4>1. w \in J
        BY <2>1, <2>2
      <4> HIDE DEF I
      <4> QED
        BY <2>2, <4>1
    <3> HIDE DEF I, J
    <3>2. PICK n \in J : \A m \in J : n <= m
      BY <3>1, SmallestBelow
    <3> QED
      BY <2>1, <2>2, <3>2 DEF J
  <2> HIDE DEF I
  <2>4. \A m \in I \ {n} : n < m
    BY <2>2, <2>3
  <2> QED
    BY <2>1, <2>2, <2>3, <2>4 DEF Oldest, First, I
<1>2. CASE d - w <= 7
    BY <1>2 DEF Left
<1>3. CASE d - w \in 8 .. 30
    BY <1>1, <1>3 DEF Left
<1>4. CASE d - w \in 31 .. 90
    BY <1>1, <1>4 DEF Left
<1>5. CASE d - w \in 91 .. 180
    BY <1>1, <1>5 DEF Left
<1>6. CASE d - w \in 181 .. 360
    BY <1>1, <1>6 DEF Left
<1> QED
    BY <1>2, <1>3, <1>4, <1>5, <1>6

LEMMA ReachCollected ==
    ASSUME NEW d, NEW since \in {d - 1, d}, NEW last, NEW mishaps,
           NEW X \in SUBSET Nat, NEW S \in SUBSET X,
           NEW M1, NEW M2, NEW M3, NEW M4, NEW M5, NEW N2, NEW N3, NEW N4, NEW N5,
           ChosenDays(d, last, mishaps, M1, N2, N3, N4, N5), M5 \subseteq N5,
           History(X, since, mishaps, M1, M2, M3, M4, M5),
           History(S, d, mishaps, M1, N2, N3, N4, N5),
           \A n \in X : n \in S <=> Left(X, d, n),
           Reach(X, since, last)
    PROVE  Reach(S, d, last)
<1>0. d \in Int /\ last \in Int /\ S \in SUBSET Nat /\ N5 \in SUBSET Nat
    BY DEF ChosenDays
<1> SUFFICES ASSUME last >= 1 PROVE \E n \in S : d - n <= 360 /\ (n <= 1 \/ d - n >= 60)
    BY DEF Reach
<1>1. PICK w \in X : since - w <= 360 /\ (w <= 1 \/ since - w >= 60)
    BY DEF Reach
<1>2. CASE d - w <= 360
  <2>1. PICK n \in X : n <= w /\ d - n <= 360 /\ Left(X, d, n)
    BY <1>0, <1>2, OlderLeft
  <2>2. n \in S
    BY <2>1
  <2> QED
    BY <1>0, <1>1, <2>1, <2>2
<1>3. CASE d - w = 361
  <2>1. w \in M5
    BY <1>0, <1>1, <1>3 DEF History, Level, Held
  <2>2. w \in N5
    BY <2>1
  <2>3. Followed(S, d, N5)
    <3>1. ChosenHistory(S, d, last, mishaps, M1, N2, N3, N4, N5)
      BY DEF ChosenHistory
    <3> QED
      BY <3>1, FarEnd
  <2>4. PICK n \in S : d - n \in 60 .. 360
    BY <1>3, <2>2, <2>3 DEF Followed
  <2> QED
    BY <1>0, <2>4
<1> QED
    BY <1>0, <1>1, <1>2, <1>3

\* A day passes, with a recorded backup or, when something goes wrong, without.
DayPasses(last, d, old, new, X, Y, M1, N1, M2, M3, M4, M5) ==
    /\ last \in Int /\ last >= -1 /\ d \in {last, last + 1}
    /\ old \in {0, 1} /\ new \in {0, 1}
    /\ X \in SUBSET Nat /\ Y \in SUBSET Nat
    /\ M1 \in SUBSET Nat /\ N1 \in SUBSET Nat /\ M2 \in SUBSET Nat
    /\ M3 \in SUBSET Nat /\ M4 \in SUBSET Nat /\ M5 \in SUBSET Nat
    /\ Dense(M1, last, old) /\ History(X, d, old, M1, M2, M3, M4, M5) /\ Reach(X, d, last)
    /\ \/ new = old /\ Y = X \cup {last + 1} /\ N1 = M1 \cup {last + 1}
       \/ old = 0 /\ new = 1 /\ Y = X /\ N1 = M1

LEMMA DayTaken ==
    ASSUME NEW last, NEW d, NEW old, NEW new, NEW X, NEW Y,
           NEW M1, NEW N1, NEW M2, NEW M3, NEW M4, NEW M5,
           DayPasses(last, d, old, new, X, Y, M1, N1, M2, M3, M4, M5)
    PROVE  /\ Dense(N1, last + 1, new)
           /\ History(Y, d, new, N1, M2, M3, M4, M5)
           /\ Reach(Y, d, last + 1)
<1>0. /\ last \in Int /\ last >= -1 /\ d \in {last, last + 1}
      /\ old \in {0, 1} /\ new \in {0, 1}
      /\ X \in SUBSET Nat /\ Y \in SUBSET Nat
      /\ M1 \in SUBSET Nat /\ N1 \in SUBSET Nat /\ M2 \in SUBSET Nat
      /\ M3 \in SUBSET Nat /\ M4 \in SUBSET Nat /\ M5 \in SUBSET Nat
      /\ Dense(M1, last, old) /\ History(X, d, old, M1, M2, M3, M4, M5) /\ Reach(X, d, last)
      /\ \/ new = old /\ Y = X \cup {last + 1} /\ N1 = M1 \cup {last + 1}
         \/ old = 0 /\ new = 1 /\ Y = X /\ N1 = M1
    BY DEF DayPasses
<1> USE <1>0
<1>1. Dense(N1, last + 1, new)
    BY DEF Dense
<1>2. History(Y, d, new, N1, M2, M3, M4, M5)
  <2>1. Y \subseteq N1 /\ \A n \in N1 : d - n <= 7 => n \in Y
    BY DEF History
  <2>2. \A n \in Y : d - n >= 8 => n \in X
    OBVIOUS
  <2>3. \A n \in N1 : n <= d - 8 => n \in M1
    OBVIOUS
  <2>4. X \subseteq Y /\ M1 \subseteq N1 /\ old <= new
    OBVIOUS
  <2>5. Level(Y, d, 8, 30, new, N1, M2)
    <3>1. Chosen(N1, M2, d - 8, 30 - 8, new)
      <4>1. Chosen(M1, M2, d - 8, 30 - 8, old)
        BY DEF History, Level
      <4>2. \A m, n \in M2 : m < n => n - m > 30 - 8 - new
        BY <2>4, <4>1 DEF Chosen
      <4> QED
        BY <2>3, <2>4, <4>1, <4>2 DEF Chosen
    <3>2. Held(Y, d, 8, 30, new, N1, M2)
      BY <2>2, <2>4 DEF History, Level, Held
    <3> QED
      BY <3>1, <3>2 DEF Level
  <2>6. Level(Y, d, 31, 90, new, M2, M3)
    <3>1. LevelGain(d, 31, 90, old, new, M2, M3, X, Y)
      BY <2>2, <2>4 DEF LevelGain, History, Inside
    <3> QED
      BY <3>1, LevelGains
  <2>7. Level(Y, d, 91, 180, new, M3, M4)
    <3>1. LevelGain(d, 91, 180, old, new, M3, M4, X, Y)
      BY <2>2, <2>4 DEF LevelGain, History, Inside
    <3> QED
      BY <3>1, LevelGains
  <2>8. Level(Y, d, 181, 360, new, M4, M5)
    <3>1. LevelGain(d, 181, 360, old, new, M4, M5, X, Y)
      BY <2>2, <2>4 DEF LevelGain, History, Inside
    <3> QED
      BY <3>1, LevelGains
  <2> QED
    BY <2>1, <2>5, <2>6, <2>7, <2>8 DEF History
<1>3. Reach(Y, d, last + 1)
  <2>1. CASE last >= 1
    BY <2>1 DEF Reach
  <2>2. CASE last = 0
    <3>1. 0 \in 0 .. last + 1 /\ 1 \in 0 .. last + 1
      BY <2>2
    <3>2. PICK n \in N1 : n <= 1
      BY <1>1, <3>1 DEF Dense
    <3>3. d - n <= 7
      BY <2>2, <3>2
    <3>4. n \in Y
      BY <1>2, <3>3 DEF History
    <3> QED
      BY <3>2, <3>3, <3>4 DEF Reach
  <2>3. CASE last = -1
    BY <2>3 DEF Reach
  <2> QED
    BY <2>1, <2>2, <2>3
<1> QED
    BY <1>1, <1>2, <1>3

-------------------------------------------------------------------------------
(* The deployment after one mishap. *)

\* The days whose backups are there and not listed for deletion.
Present == {n \in Nat : OfDay(n) \in store \ todo}

\* What holds of the history as long as at most one thing went wrong.
MishapHistory(M1, M2, M3, M4, M5) ==
    /\ Dense(M1, Taken, missed)
    /\ History(Present, Listed, missed, M1, M2, M3, M4, M5)
    /\ Reach(Present, Listed, Taken)
    /\ \A n \in Nat : OfDay(n) \in todo =>
          n \in M1 /\ (missed = 0 => Arrived(Listed, n, M1, M2, M3, M4))

OneMishapOK ==
    Intervals /\ missed <= 1 =>
        \E M1, M2, M3, M4, M5 \in SUBSET Nat : MishapHistory(M1, M2, M3, M4, M5)

\* The backup of a day has a recorded start.
LEMMA DaysNotLongAgo ==
    ASSUME NEW n \in Nat
    PROVE  OfDay(n).start # LongAgo
<1>1. 0 * TicksPerDay <= n * TicksPerDay
    BY DaysMonotonic
<1>2. OfDay(n).start = n * TicksPerDay + BackupTick
    BY DEF OfDay, Planned
<1>3. LongAgo \in Int /\ LongAgo < 0
    BY DayAssumption DEF LongAgo
<1> QED
    BY <1>1, <1>2, <1>3, DayAssumption, ScheduleAssumption

\* ListOK is kept.
LEMMA ListKept == ListOK /\ [Next]_vars => ListOK'
BY DEF ListOK, Next, vars, Tick, ScheduleBackup, BackupLosesStart, JobMissed, CollectGarbage,
       DeleteBackup, DeleteFails, CollectionLost

\* OneMishapOK is kept.  The day of a backup, taken or missed, extends the days that the
\* second interval chooses from.
LEMMA MishapOfBackup ==
    ASSUME TypeOK, TypeOK', DueOK, Intervals', missed' <= 1, OneMishapOK,
           ScheduleBackup \/ BackupLosesStart \/ (JobMissed /\ due \ due' = {"backup"})
    PROVE  \E M1, M2, M3, M4, M5 \in SUBSET Nat : MishapHistory(M1, M2, M3, M4, M5)'
<1> DEFINE d == Day(now)
<1>0. Intervals /\ missed <= 1
    BY ScheduleAssumption DEF TypeOK, Intervals, ScheduleBackup, BackupLosesStart, JobMissed,
                              Misses
<1>1. /\ "backup" \in due /\ "backup" \notin due'
      /\ "collect" \in due' <=> "collect" \in due
      /\ now' = now /\ todo' = todo
      /\ \/ missed' = missed /\ store' = store \cup {Planned(now)}
         \/ /\ missed = 0 /\ missed' = 1
            /\ store \subseteq store'
            /\ store' \subseteq store \cup {[name |-> now, start |-> LongAgo]}
    BY ScheduleAssumption DEF TypeOK, Intervals, ScheduleBackup, BackupLosesStart, JobMissed,
                              Misses, Planned
<1>2. missed \in {0, 1} /\ missed' \in {0, 1}
    BY <1>0, ScheduleAssumption DEF TypeOK
<1>3. PICK M1, M2, M3, M4, M5 \in SUBSET Nat : MishapHistory(M1, M2, M3, M4, M5)
    BY <1>0, Zenon DEF OneMishapOK
<1>4. /\ now % TicksPerDay = BackupTick /\ Planned(now) = OfDay(d)
      /\ now \in Int /\ d \in Nat
    BY <1>1, AtTick
<1>5. /\ Taken = d - 1 /\ Taken' = d /\ Listed' = Listed /\ Listed \in {d - 1, d}
    BY <1>1, <1>4, ScheduleAssumption DEF Taken, Listed, LastDone
<1>6. Present \in SUBSET Nat /\ Present' \in SUBSET Nat
    BY DEF Present
<1>7. /\ Dense(M1, Taken, missed)
      /\ History(Present, Listed, missed, M1, M2, M3, M4, M5)
      /\ Reach(Present, Listed, Taken)
      /\ \A n \in Nat : OfDay(n) \in todo =>
            n \in M1 /\ (missed = 0 => Arrived(Listed, n, M1, M2, M3, M4))
    BY <1>3 DEF MishapHistory
<1>8. d \notin Present /\ d \notin M1
    BY <1>4, <1>5, <1>7 DEF Dense, History
<1>9. \A n \in Nat : OfDay(n) # [name |-> now, start |-> LongAgo]
    BY DaysNotLongAgo
<1>10. PICK N1 \in SUBSET Nat :
         \/ missed' = missed /\ Present' = Present \cup {d} /\ N1 = M1 \cup {d}
         \/ missed = 0 /\ missed' = 1 /\ Present' = Present /\ N1 = M1
  <2>1. CASE missed' = missed /\ store' = store \cup {Planned(now)}
    <3>1. \A n \in Nat : OfDay(n) = OfDay(d) <=> n = d
      BY <1>4, OfDays
    <3>2. OfDay(d) \notin todo
      BY <1>4, <1>7, <1>8
    <3>3. \A n \in Nat : n \in Present' <=> n \in Present \/ n = d
      BY <1>1, <1>4, <2>1, <3>1, <3>2 DEF Present
    <3>4. Present' = Present \cup {d}
      BY <1>4, <1>6, <3>3
    <3>5. M1 \cup {d} \in SUBSET Nat
      BY <1>4
    <3> QED
      BY <2>1, <3>4, <3>5
  <2>2. CASE /\ missed = 0 /\ missed' = 1 /\ store \subseteq store'
             /\ store' \subseteq store \cup {[name |-> now, start |-> LongAgo]}
    <3>1. \A n \in Nat : n \in Present' <=> n \in Present
      BY <1>1, <1>9, <2>2 DEF Present
    <3>2. Present' = Present
      BY <1>6, <3>1
    <3> QED
      BY <2>2, <3>2
  <2> QED
    BY <1>1, <2>1, <2>2
<1>11. /\ Dense(N1, Taken', missed')
       /\ History(Present', Listed', missed', N1, M2, M3, M4, M5)
       /\ Reach(Present', Listed', Taken')
  <2> DEFINE t == Taken
             l == Listed
             X == Present
             Y == Present'
             old == missed
             new == missed'
  <2>1. /\ t \in Int /\ t >= -1 /\ l \in {t, t + 1} /\ old \in {0, 1} /\ new \in {0, 1}
        /\ X \in SUBSET Nat /\ Y \in SUBSET Nat
        /\ Dense(M1, t, old) /\ History(X, l, old, M1, M2, M3, M4, M5) /\ Reach(X, l, t)
        /\ \/ new = old /\ Y = X \cup {t + 1} /\ N1 = M1 \cup {t + 1}
           \/ old = 0 /\ new = 1 /\ Y = X /\ N1 = M1
    BY <1>2, <1>4, <1>5, <1>6, <1>7, <1>10
  <2>2. Taken' = t + 1 /\ Listed' = l
    BY <1>4, <1>5
  <2> HIDE DEF t, l, X, Y, old, new
  <2>0. DayPasses(t, l, old, new, X, Y, M1, N1, M2, M3, M4, M5)
    BY <2>1 DEF DayPasses
  <2>3. /\ Dense(N1, t + 1, new) /\ History(Y, l, new, N1, M2, M3, M4, M5)
        /\ Reach(Y, l, t + 1)
    BY <2>0, DayTaken
  <2> QED
    BY <2>2, <2>3 DEF Y, new
<1>12. \A n \in Nat : OfDay(n) \in todo' =>
          n \in N1 /\ (missed' = 0 => Arrived(Listed', n, N1, M2, M3, M4))
    BY <1>1, <1>5, <1>7, <1>10 DEF Arrived
<1> QED
    BY <1>11, <1>12 DEF MishapHistory, OfDay

\* A collection, run or missed: what it leaves, or would have left, is chosen again.
LEMMA MishapOfCollection ==
    ASSUME TypeOK, TypeOK', DueOK, RecordedOK, ListOK, Intervals', missed' <= 1, OneMishapOK,
           CollectGarbage \/ (JobMissed /\ due \ due' = {"collect"})
    PROVE  \E M1, M2, M3, M4, M5 \in SUBSET Nat : MishapHistory(M1, M2, M3, M4, M5)'
<1> DEFINE d == Day(now)
           S == {n \in Present : Left(Present, d, n)}
<1>0. Intervals /\ missed <= 1
    BY ScheduleAssumption DEF TypeOK, Intervals, CollectGarbage, JobMissed, Misses
<1>1. /\ "collect" \in due /\ "collect" \notin due'
      /\ "backup" \in due' <=> "backup" \in due
      /\ now' = now /\ store' = store
      /\ \/ missed' = missed /\ todo' = FilterForRemoval(strategy, store, now)
         \/ missed = 0 /\ missed' = 1 /\ todo' = todo
    BY ScheduleAssumption DEF TypeOK, CollectGarbage, JobMissed, Misses
<1>2. missed \in {0, 1} /\ missed' \in {0, 1}
    BY <1>0, ScheduleAssumption DEF TypeOK
<1>3. PICK M1, M2, M3, M4, M5 \in SUBSET Nat : MishapHistory(M1, M2, M3, M4, M5)
    BY <1>0, Zenon DEF OneMishapOK
<1>4. /\ now % TicksPerDay > FirstCollect \/ now % TicksPerDay = FirstCollect
      /\ todo = {} /\ now \in Int /\ d \in Nat
    BY <1>1, AtTick, NotBeforeFirst DEF ListOK
<1>5. /\ Listed \in {d - 1, d} /\ Listed' = d
      /\ Taken' = Taken /\ Taken \in {d - 1, d}
    BY <1>1, <1>4 DEF Taken, Listed, LastDone
<1>6. Present = StoreDays /\ Present \in SUBSET Nat /\ S \in SUBSET Present
    BY <1>4 DEF Present, StoreDays
<1>7. /\ Dense(M1, Taken, missed)
      /\ History(Present, Listed, missed, M1, M2, M3, M4, M5)
      /\ Reach(Present, Listed, Taken)
    BY <1>3 DEF MishapHistory
<1>8. \A n \in Present : n \in M1 /\ n <= d
    BY <1>4, <1>5, <1>7 DEF History, Dense
<1>9. \A n \in Present : n \in S <=> Left(Present, d, n)
    OBVIOUS
<1> HIDE DEF S, d
<1>10. PICK N2, N3, N4, N5 \in SUBSET Nat :
          /\ History(S, d, missed, M1, N2, N3, N4, N5)
          /\ M5 \subseteq N5
          /\ missed = 0 => \A n \in Present \ S : Arrived(d, n, M1, N2, N3, N4)
  <2>1. DayCollected(d, Listed, missed, Present, S, M1, M2, M3, M4, M5)
    BY <1>2, <1>4, <1>5, <1>6, <1>7, <1>9 DEF DayCollected
  <2> QED
    BY <2>1, HistoryCollected
<1>11. ChosenDays(d, Taken, missed, M1, N2, N3, N4, N5)
  <2>1. Taken \in Int /\ Taken >= d - 1
    BY <1>4, <1>5
  <2> QED
    BY <1>2, <1>4, <1>7, <1>10, <2>1 DEF ChosenDays, History, Level
<1>12. Reach(S, d, Taken)
    BY <1>5, <1>6, <1>7, <1>9, <1>10, <1>11, ReachCollected
<1>13. CASE missed' = missed /\ todo' = FilterForRemoval(strategy, store, now)
  <2>1. \A n \in Present : OfDay(n) \notin todo' <=> n \in S
    BY <1>0, <1>6, <1>8, <1>9, <1>13, DaysLeft DEF d
  <2>2. \A n \in Nat : n \in Present' <=> n \in S
    BY <1>1, <1>6, <2>1 DEF Present, StoreDays
  <2>3. Present' = S
    BY <1>6, <2>2 DEF Present
  <2>4. \A n \in Nat : OfDay(n) \in todo' => n \in Present \ S
    BY <1>1, <1>6, <2>1 DEF TypeOK, StoreDays
  <2>5. \A n \in Nat : OfDay(n) \in todo' =>
           n \in M1 /\ (missed' = 0 => Arrived(Listed', n, M1, N2, N3, N4))
    BY <1>5, <1>8, <1>10, <1>13, <2>4
  <2> QED
    BY <1>5, <1>7, <1>10, <1>12, <1>13, <2>3, <2>5 DEF MishapHistory, OfDay
<1>14. CASE missed = 0 /\ missed' = 1 /\ todo' = todo
  <2>1. Present' = Present
    BY <1>1, <1>14 DEF Present, OfDay
  <2>2. History(Present, d, 1, M1, N2, N3, N4, N5)
    BY <1>4, <1>6, <1>8, <1>10, <1>14, HistoryGains
  <2>3. Dense(M1, Taken, 1)
    BY <1>7, <1>14 DEF Dense
  <2>4. Reach(Present, d, Taken)
    BY <1>6, <1>12 DEF Reach
  <2> QED
    BY <1>4, <1>5, <1>14, <2>1, <2>2, <2>3, <2>4 DEF MishapHistory, OfDay
<1> QED
    BY <1>1, <1>13, <1>14

\* A deletion that fails, or all that are left, leave only what the collection removes.
LEMMA MishapOfDeletion ==
    ASSUME TypeOK, TypeOK', DueOK, Intervals', missed' <= 1, OneMishapOK,
           DeleteFails \/ CollectionLost
    PROVE  \E M1, M2, M3, M4, M5 \in SUBSET Nat : MishapHistory(M1, M2, M3, M4, M5)'
<1> DEFINE d == Listed
<1>0. Intervals /\ missed = 0 /\ missed' = 1
    BY ScheduleAssumption DEF TypeOK, Intervals, DeleteFails, CollectionLost, Misses
<1>1. now' = now /\ due' = due /\ store' = store /\ todo' \subseteq todo
    BY DEF DeleteFails, CollectionLost
<1>2. PICK M1, M2, M3, M4, M5 \in SUBSET Nat : MishapHistory(M1, M2, M3, M4, M5)
  <2>1. missed <= 1
    BY <1>0
  <2> QED
    BY <1>0, <2>1, Zenon DEF OneMishapOK
<1>3. Taken' = Taken /\ Listed' = d /\ d \in Int
    BY <1>1, AtTick DEF Taken, Listed, LastDone
<1>4. /\ Dense(M1, Taken, 0) /\ History(Present, d, 0, M1, M2, M3, M4, M5)
      /\ Reach(Present, d, Taken)
      /\ \A n \in Nat : OfDay(n) \in todo => n \in M1 /\ Arrived(d, n, M1, M2, M3, M4)
    BY <1>0, <1>2 DEF MishapHistory
<1>5. Present \in SUBSET Nat /\ Present' \in SUBSET Nat /\ Present \subseteq Present'
    BY <1>1 DEF Present, OfDay
<1>6. \A n \in Present' \ Present : n \in Nat /\ OfDay(n) \in todo
    BY <1>1 DEF Present, OfDay
<1> HIDE DEF d
<1>7. \A n \in Present' \ Present : n \in M1 /\ Arrived(d, n, M1, M2, M3, M4)
    BY <1>4, <1>6
<1>8. Present' \subseteq M1
    BY <1>4, <1>5, <1>7 DEF History
<1>9. History(Present', d, 1, M1, M2, M3, M4, M5)
  <2> DEFINE X == Present
             Y == Present'
  <2>1. /\ d \in Int /\ X \in SUBSET Nat /\ Y \in SUBSET Nat /\ X \subseteq Y /\ Y \subseteq M1
        /\ History(X, d, 0, M1, M2, M3, M4, M5)
        /\ \A n \in Y \ X : Arrived(d, n, M1, M2, M3, M4)
    BY <1>3, <1>4, <1>5, <1>7, <1>8
  <2> HIDE DEF X, Y
  <2>2. History(Y, d, 1, M1, M2, M3, M4, M5)
    BY <2>1, HistoryGains
  <2> QED
    BY <2>2 DEF Y
<1>10. Dense(M1, Taken, 1) /\ Reach(Present', d, Taken)
    BY <1>4, <1>5 DEF Dense, Reach
<1>11. \A n \in Nat : OfDay(n) \in todo' => n \in M1
    BY <1>1, <1>4
<1> QED
    BY <1>0, <1>3, <1>9, <1>10, <1>11 DEF MishapHistory, OfDay

LEMMA OneMishapKept ==
    ASSUME TypeOK, TypeOK', DueOK, RecordedOK, ListOK, OneMishapOK, [Next]_vars
    PROVE  OneMishapOK'
<1> SUFFICES ASSUME Intervals', missed' <= 1
             PROVE  \E M1, M2, M3, M4, M5 \in SUBSET Nat : MishapHistory(M1, M2, M3, M4, M5)'
    BY DEF OneMishapOK
<1>1. CASE UNCHANGED vars \/ Tick \/ DeleteBackup
  <2>1. /\ Intervals /\ missed' = missed
        /\ todo' \subseteq todo /\ store' \ todo' = store \ todo
    BY <1>1 DEF vars, Tick, DeleteBackup, Intervals
  <2>2. missed <= 1
    BY <2>1
  <2>3. Taken' = Taken /\ Listed' = Listed
    BY <1>1, LastDoneAfterTick DEF vars, DeleteBackup, Taken, Listed, LastDone
  <2>4. PICK M1, M2, M3, M4, M5 \in SUBSET Nat : MishapHistory(M1, M2, M3, M4, M5)
    BY <2>1, <2>2, Zenon DEF OneMishapOK
  <2>5. Present' = Present
    BY <2>1 DEF Present, OfDay
  <2> QED
    BY <2>1, <2>3, <2>4, <2>5 DEF MishapHistory, OfDay
<1>2. CASE ScheduleBackup \/ BackupLosesStart
    BY <1>2, MishapOfBackup
<1>3. CASE CollectGarbage
    BY <1>3, MishapOfCollection
<1>4. CASE DeleteFails \/ CollectionLost
    BY <1>4, MishapOfDeletion
<1>5. CASE JobMissed
  <2>1. PICK job \in due : due' = due \ {job}
    BY <1>5 DEF JobMissed
  <2>2. due \ due' = {job} /\ job \in {"backup", "collect"}
    BY <2>1 DEF TypeOK
  <2>3. CASE job = "backup"
    BY <1>5, <2>2, <2>3, MishapOfBackup
  <2>4. CASE job = "collect"
    BY <1>5, <2>2, <2>4, MishapOfCollection
  <2> QED
    BY <2>2, <2>3, <2>4
<1> QED
    BY <1>1, <1>2, <1>3, <1>4, <1>5 DEF Next

-------------------------------------------------------------------------------
(* The theorems. *)

\* What the proof about the undisturbed deployment needs.
HistoryInv == DueOK /\ RecordedOK /\ NoStartLost /\ ListOK /\ HistoryOK

LEMMA HistoryInvariant == Spec => [](TypeOK /\ HistoryInv)
<1>1. Init => TypeOK /\ HistoryInv
  <2> SUFFICES ASSUME Init PROVE TypeOK /\ HistoryInv
    OBVIOUS
  <2>1. TypeOK
    BY TypeInit
  <2>2. DueOK /\ RecordedOK /\ NoStartLost /\ ListOK
    BY SafetyInit DEF Init, NoStartLost, ListOK
  <2>3. now = 0 /\ Day(0) = 0 /\ 0 % TicksPerDay = 0
    BY DayAssumption DEF Init, Day
  <2>4. Taken = -1
    BY <2>3, ScheduleAssumption DEF Init, JobsAt, Taken, LastDone
  <2>5. store = {} /\ 0 .. Taken = {}
    BY <2>4 DEF Init
  <2>6. HistoryOK
    BY <2>5 DEF HistoryOK
  <2> QED
    BY <2>1, <2>2, <2>6 DEF HistoryInv
<1>2. TypeOK /\ HistoryInv /\ [Next]_vars => (TypeOK /\ HistoryInv)'
  <2> SUFFICES ASSUME TypeOK, HistoryInv, [Next]_vars PROVE (TypeOK /\ HistoryInv)'
    OBVIOUS
  <2> QED
    BY TypeStep, RecordedKept, StartsKept, HistoryKept DEF HistoryInv
<1> QED
    BY <1>1, <1>2, PTL DEF Spec

\* As long as nothing went wrong, the backups that a collection of day d leaves, and
\* the one taken since, are those of the last week and of every 23rd, 69th, 138th and
\* 276th day: the history is the same whatever the length of the day and the schedule
\* of the two jobs (FilterForRemoval, RemovedByMode).
THEOREM UndisturbedHistory ==
    Spec => [](Intervals /\ missed = 0 /\ Collected =>
                  store = {OfDay(n) : n \in {m \in 0 .. Taken : Survives(Day(now), m)}})
<1> DEFINE Days == {m \in 0 .. Taken : Survives(Day(now), m)}
           Exact == Intervals /\ missed = 0 /\ Collected => store = {OfDay(n) : n \in Days}
<1>1. TypeOK /\ HistoryInv => Exact
  <2> SUFFICES ASSUME TypeOK, HistoryInv, Intervals, missed = 0, Collected
               PROVE  store = {OfDay(n) : n \in Days}
    OBVIOUS
  <2>1. todo = {} /\ Listed = Day(now)
    BY NotBeforeFirst DEF Collected, Listed, LastDone
  <2>2. /\ \A b \in store : Day(b.start) <= Taken
        /\ \A n \in 0 .. Taken : OfDay(n) \in store <=> Survives(Day(now), n)
    BY <2>1 DEF HistoryInv, HistoryOK
  <2>3. \A b \in store : Day(b.start) \in Nat /\ b = OfDay(Day(b.start))
    BY StoredDays DEF HistoryInv
  <2>4. Taken \in Int
    BY AtTick DEF HistoryInv, Taken, LastDone
  <2>5. ASSUME NEW b \in store PROVE b \in {OfDay(n) : n \in Days}
    <3>1. Day(b.start) \in 0 .. Taken
      BY <2>2, <2>3, <2>4
    <3>2. Day(b.start) \in Days /\ b = OfDay(Day(b.start))
      BY <2>2, <2>3, <3>1
    <3> QED
      BY <3>2
  <2>6. \A n \in Days : OfDay(n) \in store
    BY <2>2
  <2> HIDE DEF Days
  <2> QED
    BY <2>5, <2>6
<1> QED
  BY <1>1, HistoryInvariant, PTL

\* OneMishapOK is an invariant.
MishapInv == DueOK /\ RecordedOK /\ ListOK /\ OneMishapOK

LEMMA MishapInvariant == Spec => [](TypeOK /\ MishapInv)
<1>1. Init => TypeOK /\ MishapInv
  <2> SUFFICES ASSUME Init PROVE TypeOK /\ MishapInv
    OBVIOUS
  <2>1. DueOK /\ RecordedOK /\ ListOK /\ TypeOK
    BY SafetyInit, TypeInit DEF Init, ListOK
  <2>2. now = 0 /\ Day(0) = 0 /\ 0 % TicksPerDay = 0
    BY DayAssumption DEF Init, Day
  <2>3. Taken = -1 /\ Listed = -1
    BY <2>2, FirstTick, ScheduleAssumption DEF Init, JobsAt, Taken, Listed, LastDone
  <2>4. Present = {} /\ todo = {} /\ missed = 0
    BY DEF Init, Present
  <2>5. Dense({}, -1, 0) /\ Reach({}, -1, -1)
    BY DEF Dense, Reach
  <2>6. History({}, -1, 0, {}, {}, {}, {}, {})
    BY DEF History, Level, Chosen, Held
  <2>7. MishapHistory({}, {}, {}, {}, {})
    BY <2>3, <2>4, <2>5, <2>6 DEF MishapHistory
  <2>8. {} \in SUBSET Nat
    OBVIOUS
  <2>9. OneMishapOK
    BY <2>7, <2>8, Zenon DEF OneMishapOK
  <2> QED
    BY <2>1, <2>9 DEF MishapInv
<1>2. TypeOK /\ MishapInv /\ [Next]_vars => (TypeOK /\ MishapInv)'
  <2> SUFFICES ASSUME TypeOK, MishapInv, [Next]_vars PROVE (TypeOK /\ MishapInv)'
    OBVIOUS
  <2>1. TypeOK'
    BY TypeStep
  <2> QED
    BY <2>1, RecordedKept, ListKept, OneMishapKept DEF MishapInv
<1> QED
    BY <1>1, <1>2, PTL DEF Spec

\* HistoryReachesBack for every length of the day, every schedule of the two jobs and
\* any number of days, when at most one thing goes wrong, whatever it is and whenever: a
\* backup that is missed or loses its start, a collection that is missed or lost, or one
\* of its deletions that fails (FilterForRemoval, RemovedByMode).
THEOREM HistoryReachesBackHolds == MaxMissed <= 1 => (Spec => []HistoryReachesBack)
<1> SUFFICES ASSUME MaxMissed <= 1 PROVE Spec => []HistoryReachesBack
    OBVIOUS
<1>1. TypeOK /\ MishapInv => HistoryReachesBack
  <2> SUFFICES ASSUME TypeOK, MishapInv, Intervals, Collected, Day(now) > 60
               PROVE  \E b \in Recorded : Age(b) >= 60
    BY DEF HistoryReachesBack
  <2> DEFINE d == Day(now)
  <2>1. missed <= 1
    BY ScheduleAssumption DEF TypeOK
  <2>2. PICK M1, M2, M3, M4, M5 \in SUBSET Nat : MishapHistory(M1, M2, M3, M4, M5)
    BY <2>1, Zenon DEF MishapInv, OneMishapOK
  <2>3. Listed = d /\ d \in Nat /\ Taken \in {d - 1, d}
    BY AtTick, NotBeforeFirst DEF MishapInv, Collected, Listed, Taken, LastDone
  <2>4. PICK n \in Present : d - n <= 360 /\ (n <= 1 \/ d - n >= 60)
    BY <2>2, <2>3 DEF MishapHistory, Reach
  <2>5. n \in Nat /\ OfDay(n) \in store
    BY DEF Present
  <2>6. OfDay(n).start # LongAgo
    BY <2>5, DaysNotLongAgo
  <2>7. OfDay(n) \in Recorded /\ Age(OfDay(n)) = d - n
    BY <2>5, <2>6, OfDays DEF Recorded, Age
  <2> QED
    BY <2>3, <2>4, <2>5, <2>7
<1> QED
    BY <1>1, MishapInvariant, PTL
===============================================================================
