--------------------------- MODULE GarbageCollection ---------------------------
(***************************************************************************)
(* Scheduled backups (internal/scheduledbackup) and the garbage collection *)
(* (internal/garbagecollection), two CronJobs of their own, over the days  *)
(* of a deployment: once a day a backup is taken, and at certain times of  *)
(* the day (every hour by default) the garbage collection lists the        *)
(* completed backups and deletes what the retention strategy (Retention)   *)
(* names, one Delete call after the other.                                 *)
(*                                                                         *)
(* Abstractions: a backup is here when its run has completed; backups that *)
(* failed or were canceled are never collected and left out; the Backup    *)
(* controller's work for a deleted resource (BackupController) is part of  *)
(* the Delete.                                                             *)
(***************************************************************************)
EXTENDS Retention, FiniteSets

CONSTANTS
    Used,         \* the strategies a deployment may be configured with
    BackupTick,   \* the tick of the day at which the backup is scheduled
    CollectTicks, \* the ticks of the day at which a collection is scheduled
    MaxDay,       \* bound on the days
    MaxMissed     \* bound on what goes wrong: a job or a call

ASSUME ScheduleAssumption ==
    /\ Used \subseteq Strategies
    /\ BackupTick \in 0 .. TicksPerDay - 1
    /\ CollectTicks \in (SUBSET (0 .. TicksPerDay - 1)) \ {{}}
    /\ MaxDay \in Nat
    /\ MaxMissed \in Nat

VARIABLES
    strategy,  \* the configured strategy
    now,       \* the clock
    due,       \* the jobs that still have to run at this tick
    store,     \* the completed backups
    todo,      \* what the collection still has to delete
    missed     \* how much went wrong

vars == <<strategy, now, due, store, todo, missed>>

\* The jobs at tick t: what the CronJobs of the chart and of the schedule start.
JobsAt(t) ==
    {job \in {"backup", "collect"} :
        t % TicksPerDay \in IF job = "backup" THEN {BackupTick} ELSE CollectTicks}

Init ==
    /\ strategy \in Used
    /\ now = 0
    /\ due = JobsAt(0)
    /\ store = {}
    /\ todo = {}
    /\ missed = 0

Tick ==
    /\ due = {} /\ todo = {}
    /\ Day(now + 1) <= MaxDay
    /\ now' = now + 1
    /\ due' = JobsAt(now + 1)
    /\ UNCHANGED <<strategy, store, todo, missed>>

Misses == missed < MaxMissed /\ missed' = missed + 1

\* Mutant: the start is recorded one tick late.
ScheduleBackupLate ==
    /\ "backup" \in due
    /\ due' = due \ {"backup"}
    /\ store' = store \cup {[name |-> now, start |-> now + 1]}
    /\ UNCHANGED <<strategy, now, todo, missed>>

\* ScheduleBackup: the name carries the time; the run completes.
ScheduleBackup ==
    /\ "backup" \in due
    /\ due' = due \ {"backup"}
    /\ store' = store \cup {[name |-> now, start |-> now]}
    /\ UNCHANGED <<strategy, now, todo, missed>>

\* The run completes although the write of its start timestamp was lost
\* (BackupController, ensureProviderBackupCreated).
BackupLosesStart ==
    /\ "backup" \in due
    /\ due' = due \ {"backup"}
    /\ store' = store \cup {[name |-> now, start |-> LongAgo]}
    /\ Misses
    /\ UNCHANGED <<strategy, now, todo>>

\* A job does not run, or fails before it changes anything.
JobMissed ==
    /\ \E job \in due : due' = due \ {job}
    /\ Misses
    /\ UNCHANGED <<strategy, now, store, todo>>

\* CollectGarbage: list, filter ...
CollectGarbage ==
    /\ "collect" \in due
    /\ due' = due \ {"collect"}
    /\ todo' = FilterForRemoval(strategy, store, now)
    /\ UNCHANGED <<strategy, now, store, missed>>

\* ... and delete one by one; an error does not stop the others.
DeleteBackup ==
    /\ \E b \in todo : todo' = todo \ {b} /\ store' = store \ {b}
    /\ UNCHANGED <<strategy, now, due, missed>>

DeleteFails ==
    /\ \E b \in todo : todo' = todo \ {b}
    /\ Misses
    /\ UNCHANGED <<strategy, now, due, store>>

\* The pod of the collection is lost in the middle of its deletions.
CollectionLost ==
    /\ todo # {}
    /\ todo' = {}
    /\ Misses
    /\ UNCHANGED <<strategy, now, due, store>>

Next ==
    \/ Tick
    \/ ScheduleBackup \/ BackupLosesStart \/ JobMissed
    \/ CollectGarbage \/ DeleteBackup \/ DeleteFails \/ CollectionLost

Spec == Init /\ [][Next]_vars

-------------------------------------------------------------------------------
(* Properties. *)

\* Every variable has its type; a recorded start is not in the future.
TypeOK ==
    /\ strategy \in Used
    /\ now \in Nat
    /\ due \subseteq {"backup", "collect"}
    /\ \A b \in store \cup todo : b.name \in 0 .. now /\ b.start \in {LongAgo} \cup 0 .. now
    /\ todo \subseteq store
    /\ missed \in 0 .. MaxMissed

Intervals == strategy = "keep7Days1Month1Quarter1Year"
Collected == due = {} /\ todo = {} /\ now % TicksPerDay \in CollectTicks
Recorded  == {b \in store : b.start # LongAgo}
Age(b)    == Day(now) - Day(b.start)

\* No strategy but removeAllButKeepLatest removes a backup with a recorded start
\* of the last seven days, wherever in the day the backup and the collection run
\* (isTimestampInInterval compares days, keepLastSevenDaysStrategy times).
RecentKept ==
    [][\A b \in Recorded \ store' :
          strategy # "removeAllButKeepLatest" => b.start < now - 7 * TicksPerDay]_vars

\* A collection removes a backup with a recorded start only when a newer one
\* stays, also when a backup was taken, or the collection failed, since the list
\* was read: no deployment that still takes backups loses its last one.
LatestKept ==
    [][\A b \in Recorded \ store' : \E other \in store' : other.start > b.start]_vars

\* Under the interval strategy a collection removes a backup of the last year only
\* when an older one of the last year stays, also when an earlier collection, one of
\* its calls or a backup has failed: the history loses its far end only to the last
\* day of the last interval (RemovedByMode).
OldestKept ==
    [][\A b \in Recorded \ store' :
          Intervals /\ Age(b) <= 360 =>
              \E other \in Recorded \cap store' : other.start < b.start /\ Age(other) <= 360]_vars

\* Under the interval strategy the history reaches back two months from the
\* third month on, although every backup but the oldest of its interval is
\* removed day after day, the oldest of all is removed after a year, and a job or
\* a call has gone wrong.
HistoryReachesBack ==
    Intervals /\ Collected /\ Day(now) > 60 => \E b \in Recorded : Age(b) >= 60

\* What a collection leaves behind, as long as nothing went wrong, is bounded: the
\* eight days of the first interval and one backup for each other interval; the
\* last seven days; the latest backup (FilterForRemoval).  Where both jobs run at the
\* same tick the backup of the day may come before, during or after the collection.
AtOnce == IF now % TicksPerDay = BackupTick THEN 1 ELSE 0

Kept ==
    CASE Intervals                           -> 8 + 4
      [] strategy = "keepLastSevenDays"      -> 7 + AtOnce
      [] strategy = "removeAllButKeepLatest" -> 1 + AtOnce

SavedBound ==
    Collected /\ missed = 0 /\ strategy # "keepAll" => Cardinality(store) <= Kept

\* In a deployment older than the calendar every period holds a backup
\* (internal/retention/strategy.go, "| 1 | 91 - 180 days |", "| 1 | 181 - 360
\* days |").
OnePerPeriod ==
    Intervals /\ Collected /\ Day(now) > 360 =>
        \A interval \in Calendar : Within(interval, store, now) # {}
===============================================================================
