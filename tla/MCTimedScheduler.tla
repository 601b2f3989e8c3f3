-------------------------- MODULE MCTimedScheduler --------------------------
(* Instances of TimedScheduler.  Periods and the longest run are chosen so *)
(* that the main thread can be hopelessly overloaded.                      *)
EXTENDS TimedScheduler

Three    == {0, 1, 2}
Periods  == <<2, 3, 3>>
PeriodOf == [i \in Three |-> Periods[i + 1]]
\* As the server sets it up: a bursting tick, and skipping schedules, one of
\* them with a phase; and a plugin's Delay schedule.
PhaseOf    == [i \in Three |-> IF i = 1 THEN 1 ELSE 0]
BehaviorOf == [i \in Three |-> CASE i = 0 -> "Burst" [] i = 1 -> "Skip" [] i = 2 -> "Delay"]
CatchUpOf  == [i \in Three |-> 3]
=============================================================================
