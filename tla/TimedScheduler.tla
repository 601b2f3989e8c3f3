--------------------------- MODULE TimedScheduler ---------------------------
(***************************************************************************)
(* The timed scheduler and the main loop that drives it.                   *)
(*                                                                         *)
(* Each schedule has a period, a phase and a behaviour for missed ticks; a *)
(* heap yields the schedule due first.  The inner loop runs schedules that *)
(* are due, at most MAX_GLOBAL_CATCH_UP in a row; the outer loop looks at  *)
(* the shutdown flag, and parks when nothing was due.                      *)
(*                                                                         *)
(* Every instant is kept relative to the present, so that a clock that     *)
(* never stops leaves finitely many states.  Time passes while a schedule  *)
(* runs, while the thread is parked and while the server starts; what the  *)
(* loop does in between takes no time.  A run that takes longer than all   *)
(* periods together is among the cases: the server may be overloaded for   *)
(* ever.                                                                   *)
(***************************************************************************)
EXTENDS Integers

CONSTANTS
    Schedules,              \* indices into Scheduler::schedules
    Nobody,                 \* "no schedule is running"
    Period, Phase,          \* of each schedule
    Behavior,               \* of each schedule
    max_catch_up,           \* of each schedule, used by Burst
    MAX_GLOBAL_CATCH_UP,
    MaxRun,                 \* bound: the longest run of a schedule
    MaxSleep                \* bound: how late a parked thread may wake

ASSUME SchedulesAssumption ==
    /\ Schedules \subseteq Nat /\ Nobody \notin Schedules
    /\ Period \in [Schedules -> Nat \ {0}] /\ Phase \in [Schedules -> Nat]
    /\ Behavior \in [Schedules -> {"Burst", "Skip", "Delay"}]
    /\ max_catch_up \in [Schedules -> Nat \ {0}]    \* with_max_catch_up: n.max(1)
    /\ MAX_GLOBAL_CATCH_UP \in Nat \ {0}
    /\ MaxRun \in Nat /\ MaxSleep \in Nat

VARIABLES
    due,            \* next_due of each schedule, minus the present
    burst_count,
    running,        \* the popped schedule, or Nobody
    ran_count,      \* schedules run in this inner loop
    loop,           \* where the main thread is
    shut_down,      \* ServerState::shut_down
    owed,           \* ghost: runs the clock entitles a schedule to
    next,           \* ghost: when the clock grants the next one, minus the present
    served,         \* ghost: the deadline popped last, minus the present
    after           \* ghost: runs started since shut_down was set

clocks == <<due, burst_count>>
ghosts == <<owed, next, served, after>>
vars   == <<clocks, running, ran_count, loop, shut_down, ghosts>>

Init ==
    /\ due = [i \in Schedules |-> Phase[i]]
    /\ burst_count = [i \in Schedules |-> 0]
    /\ running = Nobody /\ ran_count = 0
    /\ loop = "starting" /\ shut_down = FALSE
    /\ owed = [i \in Schedules |-> IF Phase[i] = 0 THEN 1 ELSE 0]
    /\ next = [i \in Schedules |-> IF Phase[i] = 0 THEN Period[i] ELSE Phase[i]]
    /\ served = 0 /\ after = 0

-----------------------------------------------------------------------------
(* The entitlement.  The clock grants schedule i one run at its phase and  *)
(* one every period from then on; a schedule can save up Depth(i) of them. *)

Depth(i) == IF Behavior[i] = "Burst" THEN max_catch_up[i] ELSE 1

Least(a, b) == IF a < b THEN a ELSE b

\* d units of time pass for every schedule outside R, whose clock starts anew.
Grant(d, R) ==
    \E k \in [Schedules -> 0..d] :
       /\ \A i \in Schedules \ R :
             /\ next[i] - d + k[i] * Period[i] > 0
             /\ k[i] > 0 => next[i] - d + k[i] * Period[i] <= Period[i]
       /\ next' = [i \in Schedules |-> IF i \in R THEN Period[i]
                                       ELSE next[i] - d + k[i] * Period[i]]
       /\ owed' = [i \in Schedules |-> IF i \in R THEN 0
                                       ELSE Least(Depth(i), owed[i] + k[i])]

-----------------------------------------------------------------------------
(* TimedSchedule::reschedule_after_run                                     *)

\* `while next_due <= now { next_due += period }`
AfterNow(x, p) == {y \in 1..p : \E n \in 0..(p - x) : y = x + n * p}

\* Mutant: the cap lets one more late run through.
RescheduleOneMore(i, x) ==
    LET on   == x + Period[i]
        late == on <= 0
    IN IF Behavior[i] = "Delay" THEN {<<Period[i], 0>>}
       ELSE IF Behavior[i] = "Burst" /\ ~late THEN {<<on, 0>>}
       ELSE IF Behavior[i] = "Burst" /\ burst_count[i] < max_catch_up[i]
       THEN {<<on, burst_count[i] + 1>>}
       ELSE {<<y, 0>> : y \in AfterNow(on, Period[i])}

\* Mutant: Skip counts the period from the end of the run.
RescheduleFromNow(i, x) ==
    LET on   == x + Period[i]
        late == on <= 0
    IN IF Behavior[i] = "Delay" THEN {<<Period[i], 0>>}
       ELSE IF Behavior[i] = "Burst" /\ ~late THEN {<<on, 0>>}
       ELSE IF Behavior[i] = "Burst" /\ burst_count[i] + 1 < max_catch_up[i]
       THEN {<<on, burst_count[i] + 1>>}
       ELSE {<<Period[i], 0>>}

\* The deadline and burst_count of i, whose run ends x after its deadline
\* (x is negative or zero, like every deadline that has passed).
Reschedule(i, x) ==
    LET on   == x + Period[i]
        late == on <= 0
    IN IF Behavior[i] = "Delay" THEN {<<Period[i], 0>>}
       ELSE IF Behavior[i] = "Burst" /\ ~late THEN {<<on, 0>>}
       ELSE IF Behavior[i] = "Burst" /\ burst_count[i] + 1 < max_catch_up[i]
       THEN {<<on, burst_count[i] + 1>>}
       ELSE {<<y, 0>> : y \in AfterNow(on, Period[i])}

-----------------------------------------------------------------------------
(* The main loop.                                                          *)

\* From building the scheduler to entering the loop.
Ready ==
    /\ loop = "starting" /\ loop' = "outer"
    /\ \E d \in 0..MaxRun :
          /\ due' = [i \in Schedules |-> due[i] - d]
          /\ served' = served - d
          /\ Grant(d, {})
    /\ UNCHANGED <<burst_count, running, ran_count, shut_down, after>>

\* `while !shut_down`
Outer ==
    /\ loop = "outer"
    /\ loop' = IF shut_down THEN "stopped" ELSE "inner"
    /\ ran_count' = 0
    /\ UNCHANGED <<clocks, running, shut_down, ghosts>>

\* The heap order: the earlier deadline first, then the lower index.
First(i) == \A j \in Schedules \ {i} : due[i] < due[j] \/ (due[i] = due[j] /\ i < j)

\* Mutant: Rust's max-heap without the reversed comparison.
RunLatest(i) ==
    /\ loop = "inner" /\ running = Nobody
    /\ ran_count < MAX_GLOBAL_CATCH_UP
    /\ due[i] <= 0
    /\ \A j \in Schedules \ {i} : due[j] <= 0 => due[j] < due[i] \/ (due[i] = due[j] /\ i < j)
    /\ running' = i
    /\ served' = due[i]
    /\ owed' = [owed EXCEPT ![i] = @ - 1]
    /\ after' = IF shut_down THEN Least(after + 1, MAX_GLOBAL_CATCH_UP + 1)
                             ELSE after
    /\ UNCHANGED <<clocks, ran_count, loop, shut_down, next>>

\* Mutant: no limit on the runs of one inner loop.
RunUnlimited(i) ==
    /\ loop = "inner" /\ running = Nobody
    /\ due[i] <= 0 /\ First(i)
    /\ running' = i
    /\ served' = due[i]
    /\ owed' = [owed EXCEPT ![i] = @ - 1]
    /\ after' = IF shut_down THEN Least(after + 1, MAX_GLOBAL_CATCH_UP + 1)
                             ELSE after
    /\ UNCHANGED <<clocks, ran_count, loop, shut_down, next>>

\* Pop the schedule that is due first and start it.
Run(i) ==
    /\ loop = "inner" /\ running = Nobody
    /\ ran_count < MAX_GLOBAL_CATCH_UP
    /\ due[i] <= 0 /\ First(i)
    /\ running' = i
    /\ served' = due[i]
    /\ owed' = [owed EXCEPT ![i] = @ - 1]
    /\ after' = IF shut_down THEN Least(after + 1, MAX_GLOBAL_CATCH_UP + 1)
                             ELSE after
    /\ UNCHANGED <<clocks, ran_count, loop, shut_down, next>>

\* Mutant: the missed deadlines of the other schedules are skipped as well.
AfterRunSkipsOthers(i) ==
    /\ running = i
    /\ running' = Nobody /\ ran_count' = ran_count + 1
    /\ \E d \in 0..MaxRun :
          /\ \E r \in Reschedule(i, due[i] - d) :
                /\ due' = [j \in Schedules |->
                             IF j = i THEN r[1]
                             ELSE IF Behavior[j] = "Skip" /\ due[j] - d <= 0
                             THEN CHOOSE y \in AfterNow(due[j] - d, Period[j]) : TRUE
                             ELSE due[j] - d]
                /\ burst_count' = [burst_count EXCEPT ![i] = r[2]]
          /\ served' = served - d
          /\ Grant(d, {j \in {i} : Behavior[j] = "Delay"})
    /\ UNCHANGED <<loop, shut_down, after>>

\* The run ends: after_run reschedules it and pushes it back.
AfterRun(i) ==
    /\ running = i
    /\ running' = Nobody /\ ran_count' = ran_count + 1
    /\ \E d \in 0..MaxRun :
          /\ \E r \in Reschedule(i, due[i] - d) :
                /\ due' = [j \in Schedules |-> IF j = i THEN r[1] ELSE due[j] - d]
                /\ burst_count' = [burst_count EXCEPT ![i] = r[2]]
          /\ served' = served - d
          /\ Grant(d, {j \in {i} : Behavior[j] = "Delay"})
    /\ UNCHANGED <<loop, shut_down, after>>

\* Mutant: having run something, the loop goes on without a look at the flag.
BreakGoesOn ==
    /\ loop = "inner" /\ running = Nobody
    /\ ran_count >= MAX_GLOBAL_CATCH_UP \/ \A i \in Schedules : due[i] > 0
    /\ loop' = IF ran_count = 0 THEN "park" ELSE "inner"
    /\ ran_count' = 0
    /\ UNCHANGED <<clocks, running, shut_down, ghosts>>

\* Nothing is due, or the limit is reached: leave the inner loop.
Break ==
    /\ loop = "inner" /\ running = Nobody
    /\ ran_count >= MAX_GLOBAL_CATCH_UP \/ \A i \in Schedules : due[i] > 0
    /\ loop' = IF ran_count = 0 THEN "park" ELSE "outer"
    /\ UNCHANGED <<clocks, running, ran_count, shut_down, ghosts>>

\* park_until_next_due: sleep to the next deadline, or wake early or late.
Park ==
    /\ loop = "park" /\ loop' = "outer"
    /\ \E i \in Schedules : \E d \in 1..(due[i] + MaxSleep) :
          /\ \A j \in Schedules : due[i] <= due[j]
          /\ due' = [j \in Schedules |-> due[j] - d]
          /\ served' = served - d
          /\ Grant(d, {})
    /\ UNCHANGED <<burst_count, running, ran_count, shut_down, after>>

\* The ctrl-c handler, or a dying acceptor thread.
ShutDown ==
    /\ ~shut_down /\ shut_down' = TRUE
    /\ UNCHANGED <<clocks, running, ran_count, loop, ghosts>>

MainLoop ==
    \/ Ready \/ Outer \/ Break \/ Park
    \/ \E i \in Schedules : Run(i) \/ AfterRun(i)

Next == MainLoop \/ ShutDown

\* Every run ends and a parked thread wakes up; a shutdown may never come.
Spec == Init /\ [][Next]_vars /\ WF_vars(MainLoop)

-----------------------------------------------------------------------------
TypeOK ==
    /\ due \in [Schedules -> Int]
    /\ burst_count \in [Schedules -> Nat]
    /\ \A i \in Schedules : burst_count[i] < Depth(i)
    /\ running \in Schedules \cup {Nobody}
    /\ ran_count \in 0..MAX_GLOBAL_CATCH_UP
    /\ loop \in {"starting", "outer", "inner", "park", "stopped"}
    /\ shut_down \in BOOLEAN
    /\ owed \in [Schedules -> Int]
    /\ \A i \in Schedules : owed[i] <= Depth(i)
    /\ next \in [Schedules -> Nat \ {0}]
    /\ served \in Int /\ after \in Nat

(* No schedule runs ahead of the clock: with Skip at most once per period,  *)
(* with Burst at most once per period plus max_catch_up missed ones, with   *)
(* Delay not before a period after its last run, however long runs take     *)
(* and in whatever order schedules come due.                                *)
NeverAhead == \A i \in Schedules : owed[i] >= 0

(* Overruns and catching up never shift a schedule against the others:      *)
(* every deadline stays a whole number of periods from the clock's.         *)
KeepsPhase ==
    \A i \in Schedules :
       \E n \in 0..(next[i] - due[i]) : due[i] + n * Period[i] = next[i]

(* Deadlines are served in order, so that a schedule catching up never      *)
(* pushes back one that was due before.                                     *)
DeadlinesInOrder ==
    [][\A i \in Schedules : running = Nobody /\ running' = i => served' >= served]_vars

(* Once a shutdown is requested at most one inner loop's worth of runs is   *)
(* started, under overload too.                                             *)
ShutdownNoticed == after <= MAX_GLOBAL_CATCH_UP

(* ... and the loop ends.                                                   *)
ShutdownStops == shut_down ~> loop = "stopped"

(* No schedule starves, however overloaded the server is.                   *)
EveryScheduleRuns == \A i \in Schedules : []<>(running = i \/ shut_down)
=============================================================================
