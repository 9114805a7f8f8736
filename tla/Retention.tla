------------------------------- MODULE Retention -------------------------------
(***************************************************************************)
(* The retention strategies (internal/retention): which of the completed   *)
(* backups a garbage collection removes.  A backup is a record with its    *)
(* status.startTimestamp and a name; names order backups the way the API   *)
(* server lists them.  Time counts in ticks, TicksPerDay to a day.         *)
(*                                                                         *)
(* Abstraction: a strategy reads the clock once, the interval strategy in  *)
(* the code once per backup.                                               *)
(***************************************************************************)
EXTENDS Integers

CONSTANT TicksPerDay

ASSUME DayAssumption == TicksPerDay \in Nat \ {0}

\* The zero timestamp of a backup whose start was never recorded.
LongAgo == -1000 * TicksPerDay

Day(t) == t \div TicksPerDay

Strategies == {"keepAll", "removeAllButKeepLatest", "keepLastSevenDays",
               "keep7Days1Month1Quarter1Year"}

\* Mutants: the second interval keeps everything; the oldest is the newest.
CalendarKeepsMonth ==
    {[start |-> 0,   end |-> 7,   mode |-> "ALL"],
     [start |-> 8,   end |-> 30,  mode |-> "ALL"],
     [start |-> 31,  end |-> 90,  mode |-> "OLDEST"],
     [start |-> 91,  end |-> 180, mode |-> "OLDEST"],
     [start |-> 181, end |-> 360, mode |-> "OLDEST"]}

NewestOf(backups) ==
    {b \in backups : \A other \in backups \ {b} : b.start > other.start}

\* The intervals, in days before today.
Calendar ==
    {[start |-> 0,   end |-> 7,   mode |-> "ALL"],
     [start |-> 8,   end |-> 30,  mode |-> "OLDEST"],
     [start |-> 31,  end |-> 90,  mode |-> "OLDEST"],
     [start |-> 91,  end |-> 180, mode |-> "OLDEST"],
     [start |-> 181, end |-> 360, mode |-> "OLDEST"]}

\* Mutant: an interval does not contain its first day.
InIntervalOpen(interval, start, now) ==
    /\ Day(now) - interval.end <= Day(start)
    /\ Day(start) < Day(now) - interval.start

\* isTimestampInInterval: days are compared, both borders belong to the interval.
InInterval(interval, start, now) ==
    /\ Day(now) - interval.end <= Day(start)
    /\ Day(start) <= Day(now) - interval.start

\* The first of the oldest backups in list order.
OldestOf(backups) ==
    {b \in backups : \A other \in backups \ {b} :
        b.start < other.start \/ (b.start = other.start /\ b.name < other.name)}

LatestOf(backups) ==
    {b \in backups : \A other \in backups \ {b} :
        b.start > other.start \/ (b.start = other.start /\ b.name < other.name)}

\* A backup in no interval is removed; an interval keeps all of its backups or
\* its oldest one.
Within(interval, backups, now) == {b \in backups : InInterval(interval, b.start, now)}

RemovedByMode(mode, backups) == IF mode = "ALL" THEN {} ELSE backups \ OldestOf(backups)

RemovedByIntervals(backups, now) ==
    {b \in backups : \A interval \in Calendar : ~InInterval(interval, b.start, now)}
        \cup UNION {RemovedByMode(interval.mode, Within(interval, backups, now)) :
                        interval \in Calendar}

FilterForRemoval(strategy, backups, now) ==
    CASE strategy = "keepAll"                      -> {}
      [] strategy = "removeAllButKeepLatest"       -> backups \ LatestOf(backups)
      [] strategy = "keepLastSevenDays"            ->
            {b \in backups : b.start < now - 7 * TicksPerDay}
      [] strategy = "keep7Days1Month1Quarter1Year" -> RemovedByIntervals(backups, now)
===============================================================================
