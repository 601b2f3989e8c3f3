--------------------------- MODULE GameLoopProofs ---------------------------
(***************************************************************************)
(* The schedules never run ahead of the clock, keep their phase and are    *)
(* served in deadline order, and a shutdown is noticed in time: for any    *)
(* number of schedules, any periods and behaviours, and runs of any        *)
(* length.                                                                 *)
(*                                                                         *)
(* The inductive invariant counts, for each schedule, the n deadlines that *)
(* have passed: they lie on the clock's grid (OnGrid), and the schedule is *)
(* owed a run for each of them that it can still make up (Paid).           *)
(*                                                                         *)
(* What the server's threads do to the scheduler's variables is a step of  *)
(* the scheduler or leaves them alone, so that all this holds in the       *)
(* server.  What it takes to stop without a panic is that the acceptor,    *)
(* undisturbed, is waiting in select! until the signal reaches it.         *)
(***************************************************************************)
EXTENDS GameLoop, TLAPS

Busy(i) == IF running = i THEN 1 ELSE 0

OnGrid(i, n) ==
    /\ due[i] + n * Period[i] = next[i]
    /\ n > 0 => next[i] <= Period[i]

Paid(i, n) == owed[i] + Busy(i) >= Least(n, Depth(i) - burst_count[i])

InStep == \A i \in Schedules : \E n \in Nat : OnGrid(i, n) /\ Paid(i, n)

RunsWhenDue == /\ running # Nobody => loop = "inner" /\ ran_count < MAX_GLOBAL_CATCH_UP
               /\ \A i \in Schedules : running = i => due[i] <= 0

InOrder == \A i \in Schedules : due[i] >= served

Noticed ==
    /\ ~shut_down => after = 0
    /\ after <= MAX_GLOBAL_CATCH_UP
    /\ loop = "inner" => IF running = Nobody THEN after <= ran_count
                         ELSE after <= ran_count + 1

Ind == TypeOK /\ InStep /\ RunsWhenDue /\ InOrder /\ Noticed

-----------------------------------------------------------------------------
(* Arithmetic of deadlines: P is a period, n the number of deadlines passed *)
(* and k the number of grid points that time d goes by.                     *)

(* Two points of one grid in the same period are one point.                 *)
LEMMA SamePoint ==
  ASSUME NEW P \in Nat \ {0}, NEW a \in Int, NEW m \in Int, NEW n \in Int,
         a + m * P \in 1..P, a + n * P \in 1..P
  PROVE  a + m * P = a + n * P
  <1>1. CASE m = n
    BY <1>1
  <1>2. CASE m >= n + 1
    <2>1. (m - n) * P >= P
      BY <1>2
    <2>2. m * P = n * P + (m - n) * P
      OBVIOUS
    <2> QED
      BY <2>1, <2>2
  <1>3. CASE n >= m + 1
    <2>1. (n - m) * P >= P
      BY <1>3
    <2>2. n * P = m * P + (n - m) * P
      OBVIOUS
    <2> QED
      BY <2>1, <2>2
  <1> QED
    BY <1>1, <1>2, <1>3

(* The grid moves with the clock.                                           *)
LEMMA GridMoves ==
  ASSUME NEW P \in Nat \ {0}, NEW x \in Int, NEW y \in Int, NEW n \in Int,
         NEW k \in Int, NEW d \in Int, x + n * P = y
  PROVE  x - d + (n + k) * P = y - d + k * P
  OBVIOUS

(* A deadline that has passed counts, one to come does not.                 *)
LEMMA PassedCounts ==
  ASSUME NEW P \in Nat \ {0}, NEW x \in Int, NEW y \in Nat \ {0}, NEW n \in Nat,
         x + n * P = y, n > 0 => y <= P
  PROVE  x <= 0 <=> n > 0
  <1>1. CASE n = 0
    BY <1>1
  <1>2. CASE n > 0
    <2>1. n * P >= P
      BY <1>2
    <2> QED
      BY <1>2, <2>1
  <1> QED
    BY <1>1, <1>2

-----------------------------------------------------------------------------
LEMMA Constants ==
  ASSUME NEW i \in Schedules
  PROVE  Period[i] \in Nat \ {0} /\ Depth(i) \in Nat \ {0} /\ Phase[i] \in Nat
  BY SchedulesAssumption DEF Depth

LEMMA LeastOf ==
  ASSUME NEW a \in Int, NEW b \in Int
  PROVE  /\ Least(a, b) \in {a, b}
         /\ Least(a, b) <= a /\ Least(a, b) <= b
  BY DEF Least

(* A schedule whose deadline is left alone stays in step while time passes. *)
LEMMA WaitingStaysInStep ==
  ASSUME TypeOK, NEW i \in Schedules, NEW n \in Nat, OnGrid(i, n), Paid(i, n),
         NEW d \in Nat, NEW k \in Nat,
         due'[i] = due[i] - d,
         next'[i] = next[i] - d + k * Period[i],
         k > 0 => next'[i] <= Period[i],
         owed'[i] = Least(Depth(i), owed[i] + k),
         burst_count'[i] = burst_count[i],
         running' = i <=> running = i
  PROVE  \E m \in Nat : OnGrid(i, m)' /\ Paid(i, m)'
  <1> DEFINE P == Period[i]
  <1>1. P \in Nat \ {0} /\ Depth(i) \in Nat \ {0}
    BY Constants
  <1>2. due[i] \in Int /\ next[i] \in Nat \ {0} /\ owed[i] \in Int /\ burst_count[i] \in Nat
    BY DEF TypeOK
  <1>3. (n + k) \in Nat
    OBVIOUS
  <1>4. OnGrid(i, n + k)'
    <2>1. due[i] + n * P = next[i] /\ (n > 0 => next[i] <= P)
      BY DEF OnGrid
    <2>2. due[i] - d + (n + k) * P = next[i] - d + k * P
      BY <1>1, <1>2, <2>1, GridMoves
    <2>3. CASE k > 0
      BY <2>2, <2>3 DEF OnGrid
    <2>4. CASE k = 0
      <3>1. k * P = 0
        BY <1>1, <2>4
      <3>2. n + k > 0 => next'[i] <= P
        BY <1>1, <1>2, <2>1, <2>4, <3>1
      <3> QED
        BY <2>2, <3>2 DEF OnGrid
    <2> QED
      BY <2>3, <2>4
  <1>5. Paid(i, n + k)'
    <2>1. Busy(i) \in {0, 1} /\ Busy(i)' = Busy(i)
      BY DEF Busy
    <2>2. owed[i] + Busy(i) >= Least(n, Depth(i) - burst_count[i])
      BY DEF Paid
    <2>3. Least(Depth(i), owed[i] + k) + Busy(i)
             >= Least(n + k, Depth(i) - burst_count[i])
      BY <1>1, <1>2, <2>1, <2>2 DEF Least
    <2>4. (Depth(i) - burst_count[i])' = Depth(i) - burst_count[i]
      BY DEF Depth
    <2> QED
      BY <2>1, <2>3, <2>4 DEF Paid, Depth
  <1> QED
    BY <1>3, <1>4, <1>5

(* The schedule whose run ends is in step with its new deadline.            *)
LEMMA RunEndsInStep ==
  ASSUME TypeOK, NEW i \in Schedules, Behavior[i] # "Delay",
         NEW n \in Nat, OnGrid(i, n), Paid(i, n),
         running = i, running' = Nobody, due[i] <= 0,
         NEW d \in Nat, NEW k \in Nat,
         NEW r \in Reschedule(i, due[i] - d),
         due'[i] = r[1], burst_count'[i] = r[2],
         next'[i] = next[i] - d + k * Period[i],
         next'[i] > 0,
         k > 0 => next'[i] <= Period[i],
         owed'[i] = Least(Depth(i), owed[i] + k)
  PROVE  \E m \in Nat : OnGrid(i, m)' /\ Paid(i, m)'
  <1> DEFINE P    == Period[i]
             on   == due[i] - d + P
             left == n - 1 + k
  <1>1. P \in Nat \ {0} /\ Depth(i) \in Nat \ {0}
    BY Constants
  <1>2. /\ due[i] \in Int /\ next[i] \in Nat \ {0} /\ owed[i] \in Int
        /\ burst_count[i] \in Nat /\ burst_count[i] < Depth(i)
    BY DEF TypeOK
  <1>3. due[i] + n * P = next[i] /\ (n > 0 => next[i] <= P)
    BY DEF OnGrid
  <1>4. n > 0
    BY <1>1, <1>2, <1>3, PassedCounts
  <1>5. left \in Nat
    BY <1>4
  <1>6. Busy(i) = 1 /\ Busy(i)' = 0
    BY SchedulesAssumption DEF Busy
  <1>7. on + left * P = next[i] - d + k * P
    <2>1. due[i] - d + (n + k) * P = next[i] - d + k * P
      BY <1>1, <1>2, <1>3, GridMoves
    <2>2. left * P = (n + k) * P - P
      BY <1>1
    <2> QED
      BY <1>1, <1>2, <2>1, <2>2
  <1>8. next'[i] \in 1..P
    <2>1. next'[i] \in Int
      BY <1>1, <1>2
    <2>2. CASE k > 0
      BY <2>1, <2>2
    <2>3. CASE k = 0
      BY <1>1, <1>2, <1>3, <1>4, <2>1, <2>3
    <2> QED
      BY <2>2, <2>3
  <1>9. on \in Int /\ on <= P
    BY <1>1, <1>2
  <1>10. on > 0 => left = 0 /\ on = next'[i]
    <2> SUFFICES ASSUME on > 0 PROVE left = 0 /\ on = next'[i]
      OBVIOUS
    <2>1. on + 0 * P \in 1..P /\ on + left * P \in 1..P
      BY <1>1, <1>7, <1>8, <1>9
    <2>2. on + 0 * P = on + left * P
      BY <1>1, <1>5, <1>9, <2>1, SamePoint
    <2>3. left * P = 0
      BY <1>1, <1>5, <1>9, <2>2
    <2>4. left > 0 => left * P >= P
      BY <1>1, <1>5
    <2> QED
      BY <1>1, <1>5, <1>7, <1>9, <2>3, <2>4
  <1>11. owed[i] + 1 >= Least(n, Depth(i) - burst_count[i])
    BY <1>6 DEF Paid
  <1>12. owed'[i] \in Nat
    BY <1>1, <1>2, <1>4, <1>11 DEF Least
  <1>16. ASSUME NEW m \in Nat, owed'[i] >= Least(m, Depth(i) - burst_count'[i])
         PROVE  Paid(i, m)'
    <2>1. Depth(i)' = Depth(i)
      BY DEF Depth
    <2>2. owed'[i] + 0 >= Least(m, Depth(i) - burst_count'[i])
      BY <1>12, <1>16
    <2> QED
      BY <1>6, <2>1, <2>2 DEF Paid
  <1>13. CASE due'[i] = on /\ burst_count'[i] = 0 /\ on > 0
    <2>1. OnGrid(i, 0)'
      BY <1>1, <1>8, <1>9, <1>10, <1>13 DEF OnGrid
    <2>2. Paid(i, 0)'
      BY <1>1, <1>12, <1>13, <1>16 DEF Least
    <2> QED
      BY <2>1, <2>2
  <1>14. CASE due'[i] = on /\ burst_count'[i] = burst_count[i] + 1 /\ burst_count[i] + 1 < Depth(i)
    <2>1. OnGrid(i, left)'
      BY <1>7, <1>8, <1>14 DEF OnGrid
    <2>2. Least(Depth(i), owed[i] + k) >= Least(left, Depth(i) - (burst_count[i] + 1))
      BY <1>1, <1>2, <1>4, <1>11 DEF Least
    <2>3. Paid(i, left)'
      BY <1>5, <1>14, <1>16, <2>2
    <2> QED
      BY <1>5, <2>1, <2>3
  <1>15. CASE due'[i] \in AfterNow(on, P) /\ burst_count'[i] = 0
    <2>1. PICK m \in 0..(P - on) : due'[i] = on + m * P /\ due'[i] \in 1..P
      BY <1>15 DEF AfterNow
    <2>2. due'[i] = next'[i]
      <3>1. on + m * P \in 1..P /\ on + left * P \in 1..P
        BY <1>7, <1>8, <2>1
      <3>2. m \in Int
        BY <1>1, <1>9
      <3>3. on + m * P = on + left * P
        BY <1>1, <1>5, <1>9, <3>1, <3>2, SamePoint
      <3> QED
        BY <1>7, <2>1, <3>3
    <2>3. OnGrid(i, 0)'
      BY <1>1, <1>8, <2>2 DEF OnGrid
    <2>4. Paid(i, 0)'
      BY <1>1, <1>12, <1>15, <1>16 DEF Least
    <2> QED
      BY <2>3, <2>4
  <1> QED
    <2>1. CASE Behavior[i] = "Burst"
      <3>1. Depth(i) = max_catch_up[i]
        BY <2>1 DEF Depth
      <3>2. \/ r = <<on, 0>> /\ on > 0
            \/ r = <<on, burst_count[i] + 1>> /\ burst_count[i] + 1 < max_catch_up[i]
            \/ \E y \in AfterNow(on, P) : r = <<y, 0>>
        BY <1>9, <2>1 DEF Reschedule
      <3> QED
        BY <1>13, <1>14, <1>15, <3>1, <3>2
    <2>2. CASE Behavior[i] # "Burst"
      <3>1. \E y \in AfterNow(on, P) : r = <<y, 0>>
        BY <2>2 DEF Reschedule
      <3> QED
        BY <1>15, <3>1
    <2> QED
      BY <2>1, <2>2

-----------------------------------------------------------------------------
(* What the clock grants when d units of time pass.                         *)
LEMMA GrantGives ==
  ASSUME TypeOK, NEW d \in Nat, NEW R \in SUBSET Schedules, Grant(d, R)
  PROVE  /\ next' \in [Schedules -> Nat \ {0}]
         /\ owed' \in [Schedules -> Int]
         /\ \A i \in Schedules : owed'[i] <= Depth(i)
         /\ \A i \in R : next'[i] = Period[i] /\ owed'[i] = 0
         /\ \A i \in Schedules \ R : \E k \in Nat :
               /\ next'[i] = next[i] - d + k * Period[i] /\ next'[i] > 0
               /\ k > 0 => next'[i] <= Period[i]
               /\ owed'[i] = Least(Depth(i), owed[i] + k)
  <1>1. PICK k \in [Schedules -> 0..d] :
          /\ \A i \in Schedules \ R :
                /\ next[i] - d + k[i] * Period[i] > 0
                /\ k[i] > 0 => next[i] - d + k[i] * Period[i] <= Period[i]
          /\ next' = [i \in Schedules |-> IF i \in R THEN Period[i]
                                          ELSE next[i] - d + k[i] * Period[i]]
          /\ owed' = [i \in Schedules |-> IF i \in R THEN 0
                                          ELSE Least(Depth(i), owed[i] + k[i])]
    BY DEF Grant
  <1>2. ASSUME NEW i \in Schedules \ R
        PROVE  /\ k[i] \in Nat
               /\ next'[i] = next[i] - d + k[i] * Period[i] /\ next'[i] > 0
               /\ k[i] > 0 => next'[i] <= Period[i]
               /\ owed'[i] = Least(Depth(i), owed[i] + k[i])
    BY <1>1
  <1>3. ASSUME NEW i \in Schedules
        PROVE  /\ Period[i] \in Nat \ {0} /\ Depth(i) \in Nat \ {0}
               /\ next[i] \in Nat \ {0} /\ owed[i] \in Int /\ k[i] \in Nat
    BY Constants DEF TypeOK
  <1>4. ASSUME NEW i \in R PROVE next'[i] = Period[i] /\ owed'[i] = 0
    BY <1>1
  <1>5. ASSUME NEW i \in Schedules
        PROVE  next'[i] \in Nat \ {0} /\ owed'[i] \in Int /\ owed'[i] <= Depth(i)
    <2>1. CASE i \in R
      BY <1>3, <1>4, <2>1
    <2>2. CASE i \notin R
      <3>1. next'[i] \in Int
        BY <1>2, <1>3, <2>2
      <3>2. owed[i] + k[i] \in Int
        BY <1>3
      <3> QED
        BY <1>2, <1>3, <2>2, <3>1, <3>2, LeastOf
    <2> QED
      BY <2>1, <2>2
  <1>6. next' \in [Schedules -> Nat \ {0}] /\ owed' \in [Schedules -> Int]
    BY <1>1, <1>5
  <1> QED
    BY <1>2, <1>4, <1>5, <1>6

(* Time passes and no deadline changes: every schedule stays in step.       *)
LEMMA TimePasses ==
  ASSUME Ind, NEW d \in Nat, Grant(d, {}), running' = running,
         due' = [i \in Schedules |-> due[i] - d], served' = served - d,
         burst_count' = burst_count
  PROVE  InStep' /\ InOrder'
  <1>1. TypeOK /\ InStep /\ InOrder
    BY DEF Ind
  <1>2. InStep'
    <2> SUFFICES ASSUME NEW i \in Schedules
                 PROVE  \E m \in Nat : OnGrid(i, m)' /\ Paid(i, m)'
      BY DEF InStep
    <2>1. PICK n \in Nat : OnGrid(i, n) /\ Paid(i, n)
      BY <1>1 DEF InStep
    <2>2. PICK k \in Nat : /\ next'[i] = next[i] - d + k * Period[i]
                           /\ k > 0 => next'[i] <= Period[i]
                           /\ owed'[i] = Least(Depth(i), owed[i] + k)
      BY <1>1, GrantGives
    <2> QED
      BY <1>1, <2>1, <2>2, WaitingStaysInStep
  <1>3. InOrder'
    BY <1>1 DEF InOrder, TypeOK
  <1> QED
    BY <1>2, <1>3

LEMMA InitInd == Init => Ind
  <1> SUFFICES ASSUME Init PROVE Ind
    OBVIOUS
  <1>1. TypeOK
    <2>1. ASSUME NEW i \in Schedules
          PROVE  /\ next[i] \in Nat \ {0} /\ owed[i] \in Int /\ owed[i] <= Depth(i)
                 /\ burst_count[i] < Depth(i)
      BY Constants DEF Init
    <2>2. due \in [Schedules -> Int] /\ next \in [Schedules -> Nat \ {0}]
      BY <2>1, Constants DEF Init
    <2>3. owed \in [Schedules -> Int] /\ burst_count \in [Schedules -> Nat]
      BY DEF Init
    <2>4. 0 \in 0..MAX_GLOBAL_CATCH_UP
      BY SchedulesAssumption
    <2>5. /\ running = Nobody /\ ran_count = 0 /\ loop = "starting"
          /\ shut_down = FALSE /\ served = 0 /\ after = 0
      BY DEF Init
    <2>6. \A i \in Schedules : burst_count[i] < Depth(i) /\ owed[i] <= Depth(i)
      BY <2>1
    <2>7. 0 \in Int /\ 0 \in Nat /\ FALSE \in BOOLEAN
      OBVIOUS
    <2> QED
      BY <2>2, <2>3, <2>4, <2>5, <2>6, <2>7, Zenon DEF TypeOK
  <1>2. InStep
    <2> SUFFICES ASSUME NEW i \in Schedules
                 PROVE  \E n \in Nat : OnGrid(i, n) /\ Paid(i, n)
      BY DEF InStep
    <2>1. Busy(i) = 0 /\ burst_count[i] = 0 /\ due[i] = Phase[i]
      BY SchedulesAssumption DEF Init, Busy
    <2>2. CASE Phase[i] = 0
      <3>1. next[i] = Period[i] /\ owed[i] = 1
        BY <2>2 DEF Init
      <3>2. OnGrid(i, 1)
        BY <2>1, <2>2, <3>1, Constants DEF OnGrid
      <3>3. Paid(i, 1)
        BY <2>1, <3>1, Constants, LeastOf DEF Paid
      <3> QED
        BY <3>2, <3>3
    <2>3. CASE Phase[i] # 0
      <3>1. next[i] = Phase[i] /\ owed[i] = 0
        BY <2>3 DEF Init
      <3>2. OnGrid(i, 0)
        BY <2>1, <3>1, Constants DEF OnGrid
      <3>3. Paid(i, 0)
        BY <2>1, <3>1, Constants, LeastOf DEF Paid
      <3> QED
        BY <3>2, <3>3
    <2> QED
      BY <2>2, <2>3
  <1>3. RunsWhenDue /\ InOrder /\ Noticed
    BY Constants, SchedulesAssumption DEF Init, RunsWhenDue, InOrder, Noticed
  <1> QED
    BY <1>1, <1>2, <1>3 DEF Ind

LEMMA StepInd ==
  ASSUME Ind, [Next]_vars
  PROVE  Ind'
  <1>1. TypeOK /\ InStep /\ RunsWhenDue /\ InOrder /\ Noticed
    BY DEF Ind
  <1> USE SchedulesAssumption
  <1>2. ASSUME Ready PROVE Ind'
    <2>1. PICK d \in 0..MaxRun : /\ due' = [i \in Schedules |-> due[i] - d]
                                 /\ served' = served - d
                                 /\ Grant(d, {})
      BY <1>2 DEF Ready
    <2>2. UNCHANGED <<burst_count, running, ran_count, shut_down, after>> /\ loop' = "outer"
      BY <1>2 DEF Ready
    <2>3. InStep' /\ InOrder'
      BY <2>1, <2>2, TimePasses
    <2>4. TypeOK'
      BY <1>1, <2>1, <2>2, GrantGives DEF TypeOK, Depth
    <2>5. running = Nobody
      BY <1>1, <1>2 DEF RunsWhenDue, Ready
    <2> QED
      BY <1>1, <2>2, <2>3, <2>4, <2>5 DEF Ind, RunsWhenDue, Noticed
  <1>3. ASSUME Park PROVE Ind'
    <2>1. PICK d \in Nat : /\ due' = [i \in Schedules |-> due[i] - d]
                           /\ served' = served - d
                           /\ Grant(d, {})
      <3> PICK i \in Schedules : \E d \in 1..(due[i] + MaxSleep) :
                    /\ due' = [j \in Schedules |-> due[j] - d]
                    /\ served' = served - d
                    /\ Grant(d, {})
        BY <1>3 DEF Park
      <3>1. PICK d \in 1..(due[i] + MaxSleep) :
                    /\ due' = [j \in Schedules |-> due[j] - d]
                    /\ served' = served - d
                    /\ Grant(d, {})
        OBVIOUS
      <3>2. d \in Nat
        BY <1>1, <3>1 DEF TypeOK
      <3> QED
        BY <3>1, <3>2
    <2>2. UNCHANGED <<burst_count, running, ran_count, shut_down, after>> /\ loop' = "outer"
      BY <1>3 DEF Park
    <2>3. InStep' /\ InOrder'
      BY <2>1, <2>2, TimePasses
    <2>4. TypeOK'
      BY <1>1, <2>1, <2>2, GrantGives DEF TypeOK, Depth
    <2>5. running = Nobody
      BY <1>1, <1>3 DEF RunsWhenDue, Park
    <2> QED
      BY <1>1, <2>2, <2>3, <2>4, <2>5 DEF Ind, RunsWhenDue, Noticed
  <1>4. ASSUME Outer \/ Break \/ ShutDown \/ UNCHANGED vars PROVE Ind'
    <2>1. UNCHANGED <<due, burst_count, running, owed, next, served, after>>
      BY <1>4 DEF Outer, Break, ShutDown, vars, clocks, ghosts
    <2>2. InStep' /\ InOrder'
      BY <1>1, <2>1 DEF InStep, InOrder, OnGrid, Paid, Busy, Depth
    <2>3. TypeOK'
      <3>1. /\ ran_count' \in {ran_count, 0}
            /\ loop' \in {loop, "outer", "inner", "park", "stopped"}
            /\ shut_down' \in {shut_down, TRUE}
        BY <1>4 DEF Outer, Break, ShutDown, vars
      <3>2. ran_count' \in 0..MAX_GLOBAL_CATCH_UP
        BY <1>1, <3>1 DEF TypeOK
      <3> QED
        BY <1>1, <2>1, <3>1, <3>2 DEF TypeOK, Depth
    <2>4. RunsWhenDue'
      BY <1>1, <1>4, <2>1 DEF RunsWhenDue, Outer, Break, ShutDown, vars
    <2>5. Noticed'
      BY <1>1, <1>4, <2>1 DEF TypeOK, Noticed, RunsWhenDue, Outer, Break, ShutDown, vars
    <2> QED
      BY <2>2, <2>3, <2>4, <2>5 DEF Ind
  <1>5. ASSUME NEW i \in Schedules, Run(i) PROVE Ind'
    <2>1. /\ running = Nobody /\ running' = i /\ due[i] <= 0 /\ First(i)
          /\ loop = "inner" /\ ran_count < MAX_GLOBAL_CATCH_UP
          /\ served' = due[i] /\ owed' = [owed EXCEPT ![i] = @ - 1]
          /\ after' = IF shut_down THEN Least(after + 1, MAX_GLOBAL_CATCH_UP + 1)
                      ELSE after
          /\ UNCHANGED <<due, burst_count, ran_count, loop, shut_down, next>>
      BY <1>5 DEF Run, clocks
    <2>2. after' \in Nat
      BY <1>1, <2>1 DEF TypeOK, Least
    <2>3. TypeOK'
      <3>1. ASSUME NEW j \in Schedules PROVE owed'[j] <= Depth(j) /\ owed'[j] <= owed[j]
        BY <1>1, <2>1, Constants DEF TypeOK
      <3>2. \A j \in Schedules : owed'[j] <= Depth(j)'
        BY <3>1 DEF Depth
      <3>3. owed' \in [Schedules -> Int] /\ served' \in Int
        BY <1>1, <2>1 DEF TypeOK
      <3> QED
        BY <1>1, <2>1, <2>2, <3>2, <3>3 DEF TypeOK, Depth
    <2>4. InStep'
      <3> SUFFICES ASSUME NEW j \in Schedules
                   PROVE  \E n \in Nat : OnGrid(j, n)' /\ Paid(j, n)'
        BY DEF InStep
      <3>1. PICK n \in Nat : OnGrid(j, n) /\ Paid(j, n)
        BY <1>1 DEF InStep
      <3>2. OnGrid(j, n)'
        BY <2>1, <3>1 DEF OnGrid
      <3>3. owed'[j] + Busy(j)' = owed[j] + Busy(j)
        BY <1>1, <2>1 DEF Busy, TypeOK
      <3>4. Paid(j, n)'
        BY <2>1, <3>1, <3>3 DEF Paid, Depth
      <3> QED
        BY <3>2, <3>4
    <2>5. InOrder'
      BY <1>1, <2>1 DEF InOrder, First, TypeOK
    <2>6. RunsWhenDue'
      BY <2>1 DEF RunsWhenDue
    <2>7. Noticed'
      BY <1>1, <2>1 DEF Noticed, TypeOK, Least
    <2> QED
      BY <2>3, <2>4, <2>5, <2>6, <2>7 DEF Ind
  <1>6. ASSUME NEW i \in Schedules, AfterRun(i) PROVE Ind'
    <2>1. /\ running = i /\ running' = Nobody /\ ran_count' = ran_count + 1
          /\ UNCHANGED <<loop, shut_down, after>>
      BY <1>6 DEF AfterRun
    <2> DEFINE R == {j \in {i} : Behavior[j] = "Delay"}
    <2> PICK d \in 0..MaxRun :
             /\ \E r \in Reschedule(i, due[i] - d) :
                   /\ due' = [j \in Schedules |-> IF j = i THEN r[1] ELSE due[j] - d]
                   /\ burst_count' = [burst_count EXCEPT ![i] = r[2]]
             /\ served' = served - d
             /\ Grant(d, R)
      BY <1>6 DEF AfterRun
    <2>2. PICK r \in Reschedule(i, due[i] - d) :
             /\ due' = [j \in Schedules |-> IF j = i THEN r[1] ELSE due[j] - d]
             /\ burst_count' = [burst_count EXCEPT ![i] = r[2]]
             /\ served' = served - d
             /\ Grant(d, R)
      OBVIOUS
    <2>3. loop = "inner" /\ ran_count < MAX_GLOBAL_CATCH_UP /\ due[i] <= 0
      BY <1>1, <2>1 DEF RunsWhenDue
    <2>4. /\ r[1] \in Int /\ r[1] >= due[i] - d
          /\ r[2] \in Nat /\ r[2] < Depth(i)
      <3>1. due[i] \in Int /\ burst_count[i] \in Nat /\ Period[i] \in Nat \ {0}
            /\ Depth(i) \in Nat \ {0}
        BY <1>1, Constants DEF TypeOK
      <3>2. CASE r = <<Period[i], 0>>
        BY <2>3, <3>1, <3>2
      <3>3. CASE r = <<due[i] - d + Period[i], 0>>
        BY <3>1, <3>3
      <3>4. CASE /\ Behavior[i] = "Burst"
                 /\ burst_count[i] + 1 < max_catch_up[i]
                 /\ r = <<due[i] - d + Period[i], burst_count[i] + 1>>
        BY <3>1, <3>4 DEF Depth
      <3>5. CASE \E y \in AfterNow(due[i] - d + Period[i], Period[i]) : r = <<y, 0>>
        <4>1. PICK y \in 1..Period[i] : r = <<y, 0>>
          BY <3>5 DEF AfterNow
        <4> QED
          BY <2>3, <3>1, <4>1
      <3> QED
        BY <2>2, <3>2, <3>3, <3>4, <3>5 DEF Reschedule
    <2>5. due'[i] = r[1] /\ burst_count'[i] = r[2]
      BY <1>1, <2>2 DEF TypeOK
    <2>6. R \in SUBSET Schedules /\ (Behavior[i] # "Delay" => i \notin R)
          /\ \A j \in Schedules \ {i} : j \notin R
      OBVIOUS
    <2>7. /\ next' \in [Schedules -> Nat \ {0}]
          /\ owed' \in [Schedules -> Int]
          /\ \A j \in Schedules : owed'[j] <= Depth(j)
          /\ \A j \in R : next'[j] = Period[j] /\ owed'[j] = 0
          /\ \A j \in Schedules \ R : \E k \in Nat :
               /\ next'[j] = next[j] - d + k * Period[j] /\ next'[j] > 0
               /\ k > 0 => next'[j] <= Period[j]
               /\ owed'[j] = Least(Depth(j), owed[j] + k)
      BY <1>1, <2>2, <2>6, GrantGives
    <2>8. TypeOK'
      <3>1. due' \in [Schedules -> Int]
        BY <1>1, <2>2, <2>4 DEF TypeOK
      <3>2. burst_count' \in [Schedules -> Nat] /\ \A j \in Schedules : burst_count'[j] < Depth(j)'
        BY <1>1, <2>2, <2>4 DEF TypeOK, Depth
      <3>3. \A j \in Schedules : owed'[j] <= Depth(j)'
        BY <2>7 DEF Depth
      <3>4. ran_count' \in 0..MAX_GLOBAL_CATCH_UP /\ served' \in Int
        BY <1>1, <2>1, <2>2, <2>3 DEF TypeOK
      <3> QED
        BY <1>1, <2>1, <2>7, <3>1, <3>2, <3>3, <3>4 DEF TypeOK
    <2>9. InStep'
      <3> SUFFICES ASSUME NEW j \in Schedules
                   PROVE  \E n \in Nat : OnGrid(j, n)' /\ Paid(j, n)'
        BY DEF InStep
      <3>1. PICK n \in Nat : OnGrid(j, n) /\ Paid(j, n)
        BY <1>1 DEF InStep
      <3>2. CASE j # i
        <4>1. PICK k \in Nat : /\ next'[j] = next[j] - d + k * Period[j]
                               /\ k > 0 => next'[j] <= Period[j]
                               /\ owed'[j] = Least(Depth(j), owed[j] + k)
          BY <2>6, <2>7, <3>2
        <4>2. due'[j] = due[j] - d /\ burst_count'[j] = burst_count[j]
          BY <1>1, <2>2, <3>2 DEF TypeOK
        <4>3. running' = j <=> running = j
          BY <2>1, <3>2
        <4> QED
          BY <1>1, <3>1, <4>1, <4>2, <4>3, WaitingStaysInStep
      <3>3. CASE j = i /\ Behavior[i] # "Delay"
        <4>1. PICK k \in Nat :
                 /\ next'[i] = next[i] - d + k * Period[i] /\ next'[i] > 0
                 /\ k > 0 => next'[i] <= Period[i]
                 /\ owed'[i] = Least(Depth(i), owed[i] + k)
          BY <2>6, <2>7, <3>3
        <4>2. OnGrid(i, n) /\ Paid(i, n) /\ d \in Nat
          BY <3>1, <3>3
        <4> QED
          BY <1>1, <2>1, <2>2, <2>3, <2>5, <3>3, <4>1, <4>2, RunEndsInStep
      <3>4. CASE j = i /\ Behavior[i] = "Delay"
        <4>1. r = <<Period[i], 0>>
          BY <2>2, <3>4 DEF Reschedule
        <4>2. next'[i] = Period[i] /\ owed'[i] = 0
          BY <2>7, <3>4
        <4>3. Busy(i)' = 0 /\ Depth(i)' = Depth(i)
          BY <2>1 DEF Busy, Depth
        <4>4. OnGrid(i, 0)'
          BY <2>5, <4>1, <4>2, Constants DEF OnGrid
        <4>5. 0 + 0 >= Least(0, Depth(i) - 0)
          BY Constants, LeastOf
        <4>6. Paid(i, 0)'
          BY <2>5, <4>1, <4>2, <4>3, <4>5 DEF Paid
        <4> QED
          BY <3>4, <4>4, <4>6
      <3> QED
        BY <3>2, <3>3, <3>4
    <2>10. InOrder'
      BY <1>1, <2>2, <2>4 DEF InOrder, TypeOK
    <2>11. RunsWhenDue' /\ Noticed'
      BY <1>1, <2>1, <2>3 DEF RunsWhenDue, Noticed, TypeOK
    <2> QED
      BY <2>8, <2>9, <2>10, <2>11 DEF Ind
  <1> QED
    BY <1>2, <1>3, <1>4, <1>5, <1>6 DEF Next, MainLoop

-----------------------------------------------------------------------------
LEMMA AlwaysInd == Spec => []Ind
  BY InitInd, StepInd, PTL DEF Spec

LEMMA NeverAheadInv == Ind => NeverAhead
  <1> SUFFICES ASSUME Ind, NEW i \in Schedules PROVE owed[i] >= 0
    BY DEF NeverAhead
  <1>1. TypeOK /\ RunsWhenDue
    BY DEF Ind
  <1>2. PICK n \in Nat : OnGrid(i, n) /\ Paid(i, n)
    BY DEF Ind, InStep
  <1>3. /\ owed[i] \in Int /\ burst_count[i] \in Nat /\ burst_count[i] < Depth(i)
        /\ due[i] \in Int /\ next[i] \in Nat \ {0}
    BY <1>1 DEF TypeOK
  <1>4. running = i => n > 0
    BY <1>1, <1>2, <1>3, Constants, PassedCounts DEF OnGrid, RunsWhenDue
  <1>5. owed[i] + Busy(i) >= Least(n, Depth(i) - burst_count[i])
    BY <1>2 DEF Paid
  <1> QED
    BY <1>3, <1>4, <1>5, Constants DEF Busy, Least

LEMMA KeepsPhaseInv == Ind => KeepsPhase
  <1> SUFFICES ASSUME Ind, NEW i \in Schedules
               PROVE  \E n \in 0..(next[i] - due[i]) : due[i] + n * Period[i] = next[i]
    BY DEF KeepsPhase
  <1>1. PICK n \in Nat : due[i] + n * Period[i] = next[i]
    BY DEF Ind, InStep, OnGrid
  <1>2. due[i] \in Int /\ next[i] \in Int
    BY DEF Ind, TypeOK
  <1>3. n * Period[i] >= n
    BY Constants
  <1> QED
    BY <1>1, <1>2, <1>3, Constants

LEMMA ShutdownNoticedInv == Ind => ShutdownNoticed
  BY DEF Ind, Noticed, ShutdownNoticed

(* Type correctness, for any schedules; no burst exceeds max_catch_up.      *)
THEOREM SchedulerTypeCorrect == Spec => []TypeOK
  BY AlwaysInd, PTL DEF Ind

(* No schedule runs ahead of the clock, for any periods, behaviours and     *)
(* lengths of runs: with Skip at most one run per period, with Burst at     *)
(* most max_catch_up more, with Delay a period between two runs.            *)
THEOREM SchedulesNeverAhead == Spec => []NeverAhead
  BY NeverAheadInv, AlwaysInd, PTL

(* Every deadline stays on its schedule's grid: overruns never shift one    *)
(* schedule against another.                                                *)
THEOREM SchedulesKeepPhase == Spec => []KeepsPhase
  BY KeepsPhaseInv, AlwaysInd, PTL

(* At most MAX_GLOBAL_CATCH_UP runs are started after a shutdown request.   *)
THEOREM ShutdownIsNoticed == Spec => []ShutdownNoticed
  BY ShutdownNoticedInv, AlwaysInd, PTL

(* Deadlines are served in order, whatever is catching up.                  *)
THEOREM DeadlinesServedInOrder == Spec => DeadlinesInOrder
  <1>1. ASSUME Ind, [Next]_vars
        PROVE  [\A i \in Schedules : running = Nobody /\ running' = i => served' >= served]_vars
    <2> SUFFICES ASSUME NEW i \in Schedules, Next, running = Nobody, running' = i
                 PROVE  served' >= served
      BY <1>1
    <2> i # Nobody
      BY SchedulesAssumption
    <2>1. Run(i)
      BY DEF Next, MainLoop, Ready, Outer, Break, Park, ShutDown, Run, AfterRun, clocks, ghosts
    <2> QED
      BY <1>1, <2>1 DEF Run, Ind, InOrder
  <1> QED
    BY <1>1, AlwaysInd, PTL DEF Spec, DeadlinesInOrder

-----------------------------------------------------------------------------
(* The server around the scheduler.                                        *)

Types ==
    /\ main \in {"loop", "signal", "wait", "returned", "panicked"}
    /\ acceptor \in {"binding", "check", "select", "leaving", "ended"}
    /\ signal \in BOOLEAN /\ response \in 0..1 /\ failed \in BOOLEAN /\ raced \in BOOLEAN
    /\ shut_down \in BOOLEAN

\* The main thread leaves its loop because of a shutdown.
LeftOnRequest ==
    /\ main # "loop" => loop = "stopped"
    /\ loop = "stopped" => shut_down

\* The acceptor answers once, when it leaves, and leaves only so, or failing.
Answers ==
    /\ response = 1 => acceptor = "ended"
    /\ acceptor = "ended" => failed \/ response = 1 \/ main = "returned"

\* The signal is sent after the loop.
Signalled == signal => main \notin {"loop", "signal"}

\* Undisturbed, the acceptor waits for the signal.
Undisturbed ==
    shut_down /\ ~failed /\ ~raced /\ acceptor # "select"
       => main \notin {"loop", "signal"}

Stopping == Types /\ LeftOnRequest /\ Answers /\ Signalled /\ Undisturbed /\ CleanStop

-----------------------------------------------------------------------------
(* The server runs the scheduler that TimedScheduler describes: building,   *)
(* stopping and failing around it never touch its clocks.                   *)
THEOREM ServerRunsTheScheduler ==
  ServerSpec => Init /\ [][Next]_vars
  <1>1. ServerInit => Init
    BY DEF ServerInit
  <1>2. [ServerNext]_server => [Next]_vars
    BY DEF ServerNext, Main, RunLoop, ShutdownSystems, SendSignal, Receive, RequestShutDown, Acceptor,
           Bind, Check, TakeSignal, Leave, Accept, Panic, server, scheduler, stopping,
           Next, ShutDown, vars, clocks,
           ghosts
  <1> QED
    BY <1>1, <1>2, PTL DEF ServerSpec

LEMMA ServerAlwaysInd == ServerSpec => []Ind
  BY InitInd, StepInd, ServerRunsTheScheduler, PTL

(* What is proved of the scheduler by itself holds in the server, while     *)
(* connections come in, threads fail and the shutdown is under way.         *)
THEOREM ServerKeepsItsSchedules ==
  ServerSpec => [](TypeOK /\ NeverAhead /\ KeepsPhase /\ ShutdownNoticed)
  <1>1. Ind => TypeOK /\ NeverAhead /\ KeepsPhase /\ ShutdownNoticed
    BY NeverAheadInv, KeepsPhaseInv, ShutdownNoticedInv DEF Ind
  <1> QED
    BY <1>1, ServerAlwaysInd, PTL

-----------------------------------------------------------------------------
LEMMA ServerInitStopping == ServerInit => Stopping
  <1> SUFFICES ASSUME ServerInit PROVE Stopping
    OBVIOUS
  <1>1. /\ loop = "starting" /\ main = "loop" /\ acceptor = "binding" /\ response = 0
        /\ shut_down = FALSE /\ signal = FALSE /\ failed = FALSE /\ raced = FALSE
    BY DEF ServerInit, Init
  <1>2. Types
    <2>1. response \in 0..1
      BY <1>1
    <2> QED
      BY <1>1, <2>1, Zenon DEF Types
  <1>3. LeftOnRequest /\ Answers /\ CleanStop
    BY <1>1 DEF LeftOnRequest, Answers, CleanStop
  <1>4. Signalled /\ Undisturbed
    BY <1>1, Zenon DEF Signalled, Undisturbed
  <1> QED
    BY <1>2, <1>3, <1>4 DEF Stopping

\* The scheduler's own steps: its loop ends only on a request, and the flag
\* that carries the request is set elsewhere.
LEMMA LoopSteps ==
  ASSUME MainLoop
  PROVE  /\ shut_down' = shut_down
         /\ loop' = "stopped" => shut_down \/ loop = "stopped"
  <1>1. CASE Ready
    BY <1>1 DEF Ready
  <1>2. CASE Outer
    BY <1>2 DEF Outer
  <1>3. CASE Break
    BY <1>3 DEF Break
  <1>4. CASE Park
    BY <1>4 DEF Park
  <1>5. ASSUME NEW i \in Schedules, Run(i) \/ AfterRun(i)
        PROVE  shut_down' = shut_down /\ loop' = loop
    BY <1>5 DEF Run, AfterRun
  <1> QED
    BY <1>1, <1>2, <1>3, <1>4, <1>5 DEF MainLoop

LEMMA ServerStepStopping == Stopping /\ [ServerNext]_server => Stopping'
  <1> SUFFICES ASSUME Stopping, [ServerNext]_server PROVE Stopping'
    OBVIOUS
  <1> USE DEF Stopping, Types, LeftOnRequest, Answers, Signalled, Undisturbed, CleanStop
  <1>1. CASE RunLoop
    BY <1>1, LoopSteps DEF RunLoop, stopping
  <1>2. CASE ShutdownSystems
    BY <1>2 DEF ShutdownSystems, scheduler
  <1>3. CASE SendSignal
    BY <1>3 DEF SendSignal, Receiving, scheduler
  <1>4. CASE Receive
    BY <1>4 DEF Receive, Responding, scheduler
  <1>5. CASE RequestShutDown
    <2>1. /\ main' = main /\ acceptor' = acceptor /\ signal' = signal
          /\ response' = response /\ failed' = failed /\ loop' = loop
          /\ main = "loop" /\ shut_down' = TRUE
      BY <1>5 DEF RequestShutDown, ShutDown
    <2>2. raced' \in BOOLEAN /\ (acceptor # "select" => raced')
      BY <1>5 DEF RequestShutDown
    <2> QED
      BY <2>1, <2>2
  <1>6. CASE Bind
    <2>1. /\ main' = main /\ signal' = signal /\ response' = response
          /\ shut_down' = shut_down /\ raced' = raced /\ loop' = loop
          /\ acceptor = "binding" /\ main \notin {"returned", "panicked"}
      BY <1>6 DEF Bind, Up, scheduler
    <2>2. \/ acceptor' = "check" /\ failed' = failed
          \/ acceptor' = "ended" /\ failed' = TRUE
      BY <1>6 DEF Bind
    <2> QED
      BY <2>1, <2>2
  <1>7. CASE Check
    BY <1>7 DEF Check, Up, scheduler
  <1>8. CASE TakeSignal
    BY <1>8 DEF TakeSignal, Up, scheduler
  <1>9. CASE Leave
    BY <1>9 DEF Leave, Up, scheduler
  <1>10. CASE Accept
    BY <1>10 DEF Accept, Up, scheduler
  <1>11. CASE Panic
    BY <1>11 DEF Panic, Receiving, Up, scheduler
  <1>12. CASE UNCHANGED server
    BY <1>12 DEF server, scheduler, stopping
  <1> QED
    BY <1>1, <1>2, <1>3, <1>4, <1>5, <1>6, <1>7, <1>8, <1>9, <1>10, <1>11, <1>12
       DEF ServerNext, Main, Acceptor

LEMMA AlwaysStopping == ServerSpec => []Stopping
  BY ServerInitStopping, ServerStepStopping, PTL DEF ServerSpec

(* Type correctness of the server; at most one answer is ever in the        *)
(* channel.                                                                 *)
THEOREM ServerTypeCorrect == ServerSpec => []ServerTypeOK
  <1>1. TypeOK /\ Stopping => ServerTypeOK
    BY DEF Stopping, Types, ServerTypeOK
  <1> QED
    BY <1>1, ServerKeepsItsSchedules, AlwaysStopping, PTL

(* For any schedules and however overloaded the server is: a shutdown       *)
(* requested while the acceptor waits for connections, and not disturbed by *)
(* one after that, ends the process without a panic.                        *)
THEOREM ServerStopsCleanly == ServerSpec => []CleanStop
  BY AlwaysStopping, PTL DEF Stopping
=============================================================================
