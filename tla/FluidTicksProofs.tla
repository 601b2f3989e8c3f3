-------------------------- MODULE FluidTicksProofs --------------------------
(***************************************************************************)
(* What is proved about FluidTicks and the kernels: types; that a source   *)
(* stays (SourcesKept) or is overtaken; that no fluid hangs (NothingHangs) *)
(* and no flow without a source stays behind (NoOrphans).                  *)
(*                                                                         *)
(* The last two rest on HangInv.  Its heart is Attended: a cell that needs *)
(* a tick is in the queue, next to a change that will be made, next to an  *)
(* unread break, listed by the settling thread, or a spring of a chunk     *)
(* that is still to be settled.  A change is reduced away or refused only  *)
(* where a stronger one waits (Effective), save for cells the settling     *)
(* thread has written to (Passed, Calm) in a chunk walled off (Walled).    *)
(***************************************************************************)
EXTENDS FluidTicks, FiniteSetTheorems, WellFoundedInduction, TLAPS

Points == Int \X Int \X Int

Around(p) == {p} \cup fluid_neighbours(p)

(* What a change is that is computed for cell p in the world V.            *)
Effect(V, p, c) ==
    /\ p \in DOMAIN V /\ is_fluid(V[p])
    /\ c.pos \in {p, below(p)} \cup Beside(p)
    /\ c \in [pos : DOMAIN V, new_block : Block, reschedule : BOOLEAN, fizz : BOOLEAN]
    /\ c.fizz <=> is_solid_obstacle(c.new_block)
    /\ is_fluid(c.new_block) => c.reschedule
    /\ ~is_solid_obstacle(V[c.pos]) /\ V[c.pos] # c.new_block
    /\ is_source(V[c.pos]) => c.fizz

(* It leaves p alone, and is stronger than what is there.                  *)
Stronger(b, c) ==
    c.fizz \/ (is_fluid(c.new_block) /\ (b = Air \/ (b.kind = c.new_block.kind
                                                       /\ c.new_block.level < b.level)))

-----------------------------------------------------------------------------
(* Least and last elements.                                                *)

LEMMA LeastNatural ==
  ASSUME NEW F \in SUBSET Nat, F # {}
  PROVE  \E i \in F : \A j \in F : i <= j
  <1> DEFINE upto == {1..i : i \in F}
  <1>1. \A i \in F : 1..i \in FiniteSubsetsOf(Nat)
    BY FS_Interval DEF FiniteSubsetsOf
  <1>2. PICK i \in F : \A j \in F : <<1..j, 1..i>> \notin StrictSubsetOrdering(Nat)
    <2>1. upto \subseteq FiniteSubsetsOf(Nat) /\ upto # {}
      BY <1>1
    <2>2. \E U \in upto : \A V \in upto : <<V, U>> \notin StrictSubsetOrdering(Nat)
      BY <2>1, FS_StrictSubsetOrderingWellFounded, WFMin
    <2> QED
      BY <2>2
  <1>3. \A j \in F : ~(j < i)
    <2> SUFFICES ASSUME NEW j \in F, j < i PROVE FALSE
      OBVIOUS
    <2>1. 1..j \in SUBSET Nat /\ 1..i \in SUBSET Nat /\ 1..j \subseteq 1..i
      OBVIOUS
    <2>2. i \in 1..i /\ i \notin 1..j
      OBVIOUS
    <2> QED
      BY <2>1, <2>2, <1>2 DEF StrictSubsetOrdering
  <1> QED
    BY <1>3

LEMMA LeastIsMin ==
  ASSUME NEW F \in SUBSET Nat, F # {}
  PROVE  Min(F) \in F /\ \A j \in F : Min(F) <= j
  <1>1. \E i \in F : \A j \in F : i =< j
    BY LeastNatural
  <1> QED
    BY <1>1, Zenon DEF Min

(* A finite set that is not empty has a last element in any total preorder. *)
Orders(R, S) ==
    /\ \A p, q \in S : <<p, q>> \in R \/ <<q, p>> \in R
    /\ \A p, q, r \in S : <<p, q>> \in R /\ <<q, r>> \in R => <<p, r>> \in R

LastIn(R, S, m) == m \in S /\ \A q \in S : <<q, m>> \in R

LEMMA LastElement ==
  ASSUME NEW S, IsFiniteSet(S), NEW R, Orders(R, S), S # {}
  PROVE  \E m \in S : LastIn(R, S, m)
  <1> DEFINE Without == {T \in SUBSET S : T # {} /\ \A m \in T : ~LastIn(R, T, m)}
  <1>1. Without = {}
    <2> SUFFICES ASSUME Without # {} PROVE FALSE
      OBVIOUS
    <2>1. Without \subseteq FiniteSubsetsOf(S)
      BY FS_Subset DEF FiniteSubsetsOf
    <2>2. PICK T \in Without : \A U \in Without : <<U, T>> \notin StrictSubsetOrdering(S)
      <3> HIDE DEF Without
      <3> QED
        BY <2>1, FS_StrictSubsetOrderingWellFounded, WFMin
    <2>3. PICK x \in T : TRUE
      OBVIOUS
    <2>4. T \ {x} \in SUBSET S /\ <<T \ {x}, T>> \in StrictSubsetOrdering(S)
      BY <2>3 DEF StrictSubsetOrdering
    <2>5. T \ {x} = {} \/ \E m \in T \ {x} : LastIn(R, T \ {x}, m)
      BY <2>2, <2>4
    <2>6. T \subseteq S /\ \A m \in T : ~LastIn(R, T, m)
      BY <2>2
    <2>7. CASE T \ {x} = {}
      <3>1. T = {x}
        BY <2>3, <2>7
      <3> QED
        BY <2>3, <2>6, <3>1 DEF LastIn, Orders
    <2>8. CASE T \ {x} # {}
      <3>1. PICK m \in T \ {x} : LastIn(R, T \ {x}, m)
        BY <2>5, <2>8
      <3>2. CASE <<x, m>> \in R
        BY <2>6, <3>1, <3>2 DEF LastIn
      <3>3. CASE <<x, m>> \notin R
        <4>1. <<m, x>> \in R /\ <<x, x>> \in R
          BY <2>3, <2>6, <3>1, <3>3 DEF Orders
        <4>2. \A q \in T : <<q, x>> \in R
          BY <2>3, <2>6, <3>1, <4>1 DEF Orders, LastIn
        <4> QED
          BY <2>3, <2>6, <4>2 DEF LastIn
      <3> QED
        BY <3>2, <3>3
    <2> QED
      BY <2>7, <2>8
  <1> QED
    BY <1>1

-----------------------------------------------------------------------------
(* Cells and blocks.                                                       *)

LEMMA Geometry ==
  ASSUME NEW p \in Points
  PROVE  /\ Around(p) \subseteq Points
         /\ p \notin fluid_neighbours(p)
         /\ \A q \in Points : q \in fluid_neighbours(p) <=> p \in fluid_neighbours(q)
  BY DEF Points, Around, fluid_neighbours, above, below, Beside, Offset

LEMMA BlockKinds ==
  ASSUME NEW b \in Block
  PROVE  /\ is_fluid(b) \/ is_solid_obstacle(b) \/ b = Air
         /\ b.level \in 0..MAX_FLUID_LEVEL
         /\ ~(is_fluid(b) /\ is_solid_obstacle(b))
         /\ b = Air <=> (~is_fluid(b) /\ ~is_solid_obstacle(b))
         /\ is_source(b) => is_fluid(b)
         /\ b.level \in Nat
         /\ \A d \in Block : d.kind = b.kind /\ d.level = b.level => d = b
  BY DEF Block, is_fluid, is_solid_obstacle, is_source, Air, Fluids, Rocks, MAX_FLUID_LEVEL

LEMMA Made ==
  /\ Air \in Block /\ ~is_fluid(Air) /\ ~is_solid_obstacle(Air) /\ ~is_source(Air)
  /\ \A k \in Rocks : Rock(k) \in Block /\ is_solid_obstacle(Rock(k)) /\ ~is_fluid(Rock(k))
                        /\ Rock(k).kind = k /\ Rock(k).level = 0
  /\ \A k \in Fluids, l \in 0..MAX_FLUID_LEVEL :
        /\ fluid_block(k, l) \in Block /\ is_fluid(fluid_block(k, l))
        /\ ~is_solid_obstacle(fluid_block(k, l))
        /\ fluid_block(k, l).kind = k /\ fluid_block(k, l).level = l
  BY DEF Block, is_fluid, is_solid_obstacle, is_source, Air, Rock, fluid_block, Fluids, Rocks,
         MAX_FLUID_LEVEL

(* What is no rock is seen.                                                *)
LEMMA Seen ==
  ASSUME NEW V, NEW p, ~is_solid_obstacle(block_at(V, p))
  PROVE  p \in DOMAIN V /\ block_at(V, p) = V[p]
  BY Made DEF block_at, Rocks

LEMMA RulesAre ==
  ASSUME NEW k \in Fluids
  PROVE  /\ Rules(k).level_step \in 1..2 /\ Rules(k).max_spread_level = 7
         /\ FallingLevel(k) \in 1..2 /\ k \notin Rocks /\ k # "air"
  BY DEF Rules, FallingLevel, Fluids, Rocks

-----------------------------------------------------------------------------
(* The kernels.                                                            *)

LEMMA EntitledLevels ==
  ASSUME NEW V, V \in [DOMAIN V -> Block], NEW p, NEW k \in Fluids, NEW alg
  PROVE  Entitled(alg, V, p, k) \in SUBSET (0..7)
  <1>1. Feeds(V, p, k) \in SUBSET (0..7)
    BY RulesAre DEF Feeds
  <1> QED
    BY <1>1 DEF Entitled

LEMMA RelevelsAre ==
  ASSUME NEW V, V \in [DOMAIN V -> Block], NEW p \in DOMAIN V, is_fluid(V[p]),
         NEW alg, NEW c \in Relevels(alg, V, p)
  PROVE  Effect(V, p, c) /\ c.pos = p
  <1> DEFINE b == V[p]
             fed == Entitled(alg, V, p, b.kind)
  <1>1. b \in Block /\ b.kind \in Fluids /\ ~is_source(b)
    BY DEF is_fluid, Relevels
  <1>2. fed \in SUBSET (0..7)
    BY <1>1, EntitledLevels
  <1>3. CASE fed = {}
    <2>1. c = flow(p, Air, FALSE)
      BY <1>1, <1>3 DEF Relevels
    <2> QED
      BY <1>1, <2>1, Made, BlockKinds DEF Effect, flow, Change
  <1>4. CASE fed # {}
    <2> DEFINE l == Min(fed)
    <2>1. l \in 0..7
      <3> HIDE DEF fed
      <3> QED
        BY <1>2, <1>4, LeastIsMin
    <2>2. c = flow(p, fluid_block(b.kind, l), TRUE) /\ l # b.level
      BY <1>1, <1>4 DEF Relevels
    <2> HIDE DEF l
    <2>3. fluid_block(b.kind, l) \in Block /\ is_fluid(fluid_block(b.kind, l))
          /\ ~is_solid_obstacle(fluid_block(b.kind, l)) /\ fluid_block(b.kind, l) # b
      BY <1>1, <2>1, <2>2, Made DEF MAX_FLUID_LEVEL
    <2> HIDE DEF fed
    <2> QED
      BY <1>1, <2>2, <2>3, BlockKinds DEF Effect, flow, Change
  <1> QED
    BY <1>3, <1>4

LEMMA ImprovesAre ==
  ASSUME NEW V, V \in [DOMAIN V -> Block], NEW p \in DOMAIN V, is_fluid(V[p]),
         NEW S \in SUBSET ({below(p)} \cup Beside(p)), NEW l \in 0..7,
         NEW c \in Improve(V, V[p].kind, S, l)
  PROVE  Effect(V, p, c) /\ Stronger(V[c.pos], c) /\ ~c.fizz
  <1> DEFINE k == V[p].kind
  <1>1. PICK n \in S : can_spread_into(V, k, n, l) /\ c = flow(n, fluid_block(k, l), TRUE)
    BY DEF Improve
  <1>2. k \in Fluids /\ l \in 0..MAX_FLUID_LEVEL
    BY DEF is_fluid, MAX_FLUID_LEVEL
  <1>3. block_at(V, n) = Air \/ (block_at(V, n).kind = k /\ l < block_at(V, n).level)
    BY <1>1 DEF can_spread_into
  <1>4. ~is_solid_obstacle(block_at(V, n))
    BY <1>2, <1>3, Made, RulesAre DEF is_solid_obstacle
  <1>5. n \in DOMAIN V /\ block_at(V, n) = V[n]
    BY <1>4, Seen
  <1>6. /\ fluid_block(k, l) \in Block /\ is_fluid(fluid_block(k, l))
        /\ ~is_solid_obstacle(fluid_block(k, l))
        /\ fluid_block(k, l).kind = k /\ fluid_block(k, l).level = l
    BY <1>2, Made
  <1>7. c.pos = n /\ c.new_block = fluid_block(k, l) /\ c.fizz = FALSE /\ c.reschedule = TRUE
        /\ c \in [pos : DOMAIN V, new_block : Block, reschedule : BOOLEAN, fizz : BOOLEAN]
    BY <1>1, <1>5, <1>6 DEF flow, Change
  <1> HIDE DEF k
  <1>8. V[n] # fluid_block(k, l) /\ ~is_source(V[n])
    BY <1>3, <1>5, <1>6, <1>2, Made DEF is_source
  <1>9. Stronger(V[n], c)
    BY <1>3, <1>5, <1>6, <1>7 DEF Stronger
  <1> QED
    BY <1>1, <1>4, <1>5, <1>6, <1>7, <1>8, <1>9 DEF Effect

LEMMA DirectionsAre ==
  ASSUME NEW alg, NEW V, NEW p, NEW k
  PROVE  Directions(alg, V, p, k) \subseteq Beside(p)
  BY Zenon DEF Directions

LEMMA MovesAre ==
  ASSUME NEW V, V \in [DOMAIN V -> Block], NEW p \in DOMAIN V, is_fluid(V[p]),
         NEW alg, NEW c \in Moves(alg, V, p)
  PROVE  Effect(V, p, c) /\ Stronger(V[c.pos], c) /\ ~c.fizz
  <1> DEFINE k == V[p].kind
             next == V[p].level + Rules(k).level_step
  <1>1. k \in Fluids /\ V[p].level \in Nat
    BY BlockKinds DEF is_fluid
  <1>2. CASE can_flow_down_into(V, k, p)
    <2>1. c \in Improve(V, k, {below(p)}, FallingLevel(k))
      BY <1>2 DEF Moves
    <2>2. FallingLevel(k) \in 0..7
      BY <1>1, RulesAre
    <2> QED
      BY <2>1, <2>2, ImprovesAre
  <1>3. CASE ~can_flow_down_into(V, k, p)
    <2>1. ~(next > Rules(k).max_spread_level) /\ c \in Improve(V, k, Directions(alg, V, p, k), next)
      BY <1>3 DEF Moves
    <2>2. next \in 0..7
      BY <1>1, <2>1, RulesAre
    <2>3. Directions(alg, V, p, k) \in SUBSET ({below(p)} \cup Beside(p))
      BY DirectionsAre
    <2> QED
      BY <2>1, <2>2, <2>3, ImprovesAre
  <1> QED
    BY <1>2, <1>3

LEMMA ReactionsAre ==
  ASSUME NEW V, V \in [DOMAIN V -> Block], NEW p \in DOMAIN V, is_fluid(V[p]),
         NEW c \in Reactions(V, p)
  PROVE  Effect(V, p, c) /\ c.fizz
  <1>1. would_react(V, p) /\ V[p] \in Block /\ ~is_solid_obstacle(V[p])
    BY BlockKinds DEF Reactions
  <1>2. CASE lava_harden_check(V, p)
    <2>1. PICK k \in Rocks : c = reaction(p, Rock(k))
      BY <1>1, <1>2 DEF Reactions, Rocks
    <2> QED
      BY <1>1, <2>1, Made DEF Effect, reaction, Change
  <1>3. CASE ~lava_harden_check(V, p)
    <2>1. c = reaction(below(p), Rock("stone")) /\ "stone" \in Rocks
      BY <1>1, <1>3 DEF Reactions, Rocks
    <2>2. block_at(V, below(p)).kind = "water"
      BY <1>1, <1>3 DEF would_react
    <2>3. ~is_solid_obstacle(block_at(V, below(p)))
      BY <2>2 DEF is_solid_obstacle, Rocks
    <2>4. below(p) \in DOMAIN V /\ ~is_solid_obstacle(V[below(p)])
      BY <2>3, Seen
    <2> QED
      BY <1>1, <2>1, <2>4, Made DEF Effect, reaction, Change
  <1> QED
    BY <1>2, <1>3

(* What a fluid tick computes.                                             *)
LEMMA TickChanges ==
  ASSUME NEW V, V \in [DOMAIN V -> Block], NEW p, NEW alg, NEW c \in compute_tick(alg, V, p)
  PROVE  Effect(V, p, c) /\ (c.pos = p \/ Stronger(V[c.pos], c))
  <1>1. is_fluid(block_at(V, p))
    BY DEF compute_tick
  <1>2. p \in DOMAIN V /\ is_fluid(V[p])
    <2>1. ~is_solid_obstacle(block_at(V, p))
      BY <1>1 DEF is_fluid, is_solid_obstacle, Fluids, Rocks
    <2> QED
      BY <1>1, <2>1, Seen
  <1>3. c \in Reactions(V, p) \/ c \in Relevels(alg, V, p) \/ c \in Moves(alg, V, p)
    BY <1>1 DEF compute_tick
  <1> QED
    BY <1>2, <1>3, ReactionsAre, RelevelsAre, MovesAre DEF Stronger

-----------------------------------------------------------------------------
(* Scan order.                                                             *)

LEMMA ScanOrder ==
  /\ \A p, q \in Points : p = q \/ Before(p, q) \/ Before(q, p)
  /\ \A p \in Points : ~Before(p, p)
  /\ \A p, q, r \in Points : Before(p, q) /\ Before(q, r) => Before(p, r)
  BY DEF Points, Before

Enumeration(S, s) ==
    /\ s \in [1..Cardinality(S) -> S]
    /\ \A i, j \in DOMAIN s : i < j => Before(s[i], s[j])

LEMMA EnumerationsExist ==
  ASSUME NEW S \in SUBSET Points, IsFiniteSet(S)
  PROVE  \E s : Enumeration(S, s)
  <1> DEFINE Without == {T \in SUBSET S : ~\E s : Enumeration(T, s)}
  <1>1. Without = {}
    <2> SUFFICES ASSUME Without # {} PROVE FALSE
      OBVIOUS
    <2>1. Without \subseteq FiniteSubsetsOf(S)
      BY FS_Subset DEF FiniteSubsetsOf
    <2>2. PICK T \in Without : \A U \in Without : <<U, T>> \notin StrictSubsetOrdering(S)
      <3> HIDE DEF Without
      <3> QED
        BY <2>1, FS_StrictSubsetOrderingWellFounded, WFMin
    <2>3. T \in SUBSET S /\ IsFiniteSet(T)
      BY <2>1, <2>2 DEF FiniteSubsetsOf
    <2>4. CASE T = {}
      <3>1. Enumeration(T, [i \in 1..0 |-> 0])
        BY <2>4, FS_EmptySet DEF Enumeration
      <3> QED
        BY <2>2, <3>1
    <2>5. CASE T # {}
      <3> DEFINE R == {x \in T \X T : x[1] = x[2] \/ Before(x[1], x[2])}
      <3>1. Orders(R, T)
        <4>1. \A p, q \in T : <<p, q>> \in R <=> p = q \/ Before(p, q)
          OBVIOUS
        <4> HIDE DEF R
        <4>2. T \subseteq Points
          BY <2>3
        <4> QED
          BY <4>1, <4>2, ScanOrder DEF Orders
      <3>2. PICK m \in T : LastIn(R, T, m)
        <4> HIDE DEF R
        <4> QED
          BY <2>3, <2>5, <3>1, LastElement
      <3>3. \A q \in T \ {m} : Before(q, m)
        BY <3>2 DEF LastIn
      <3>4. T \ {m} \in SUBSET S /\ <<T \ {m}, T>> \in StrictSubsetOrdering(S)
        BY <2>3, <3>2 DEF StrictSubsetOrdering
      <3>5. PICK s : Enumeration(T \ {m}, s)
        BY <2>2, <3>4
      <3>6. PICK n \in Nat : Cardinality(T \ {m}) = n /\ Cardinality(T) = n + 1
        <4>1. IsFiniteSet(T \ {m}) /\ Cardinality(T \ {m}) = Cardinality(T) - 1
          BY <2>3, <3>2, FS_RemoveElement
        <4>2. Cardinality(T \ {m}) \in Nat /\ Cardinality(T) \in Nat
          BY <2>3, <4>1, FS_CardinalityType
        <4>3. Cardinality(T) = Cardinality(T \ {m}) + 1
          BY <4>1, <4>2
        <4> QED
          BY <4>2, <4>3
      <3> DEFINE t == [i \in 1..(n + 1) |-> IF i = n + 1 THEN m ELSE s[i]]
      <3>7. s \in [1..n -> T \ {m}] /\ \A i, j \in 1..n : i < j => Before(s[i], s[j])
        BY <3>5, <3>6 DEF Enumeration
      <3>8. t \in [1..(n + 1) -> T]
        BY <3>2, <3>7
      <3>9. ASSUME NEW i \in 1..(n + 1), NEW j \in 1..(n + 1), i < j
            PROVE  Before(t[i], t[j])
        BY <3>3, <3>7, <3>9
      <3>10. Enumeration(T, t)
        BY <3>6, <3>8, <3>9 DEF Enumeration
      <3> QED
        BY <2>2, <3>10
    <2> QED
      BY <2>4, <2>5
  <1> QED
    BY <1>1

(* The scan lists the cells, all of them.                                  *)
LEMMA ScannedLists ==
  ASSUME NEW S \in SUBSET Points, IsFiniteSet(S)
  PROVE  /\ Scanned(S) \in Seq(S) /\ (S # {} => Scanned(S) # <<>>)
         /\ \A p \in S : \E i \in DOMAIN Scanned(S) : Scanned(S)[i] = p
  <1> DEFINE n == Cardinality(S)
             s == Scanned(S)
  <1>1. n \in Nat /\ (n = 0 <=> S = {}) /\ IsFiniteSet(1..n) /\ Cardinality(1..n) = n
    <2>1. n \in Nat /\ (n = 0 <=> S = {})
      BY FS_EmptySet, FS_CardinalityType
    <2> QED
      BY <2>1, FS_Interval
  <1>2. s \in [1..n -> S] /\ \A i, j \in DOMAIN s : i < j => Before(s[i], s[j])
    <2>1. \E e \in [1..n -> S] : \A i, j \in DOMAIN e : i < j => Before(e[i], e[j])
      BY EnumerationsExist DEF Enumeration
    <2> QED
      BY <2>1, Zenon DEF Scanned
  <1> HIDE DEF s
  <1>3. \A i, j \in 1..n : s[i] = s[j] => i = j
    BY <1>1, <1>2, ScanOrder
  <1>4. s \in Injection(1..n, S)
    BY <1>2, <1>3 DEF Injection, IsInjective
  <1>5. s \in Surjection(1..n, S)
    <2> HIDE DEF n
    <2> QED
      BY <1>1, <1>4, FS_Injection DEF n
  <1>6. \A p \in S : \E i \in DOMAIN s : s[i] = p
    BY <1>2, <1>5 DEF Surjection
  <1>7. s \in Seq(S) /\ (S # {} => s # <<>>)
    <2> HIDE DEF n
    <2> QED
      BY <1>1, <1>2
  <1> QED
    BY <1>6, <1>7 DEF s

-----------------------------------------------------------------------------
(* Changes to the cells P that wait to be applied.                         *)

Sound(P, c) ==
    /\ c \in [pos : P, new_block : Block, reschedule : BOOLEAN, fizz : BOOLEAN]
    /\ c.fizz <=> is_solid_obstacle(c.new_block)
    /\ is_fluid(c.new_block) => c.reschedule

Same(c, d) == c.pos = d.pos /\ c.new_block = d.new_block /\ c.fizz = d.fizz

MaxPriority == 100 + RawId["obsidian"]

LEMMA Priorities ==
  ASSUME NEW P, NEW c, Sound(P, c)
  PROVE  /\ MaxPriority \in Nat /\ change_priority(c) \in 0..MaxPriority
         /\ \A d : Sound(P, d) /\ d.pos = c.pos /\ change_priority(d) = change_priority(c)
               => Same(c, d)
         /\ is_solid_obstacle(c.new_block) => change_priority(c) > 100
         /\ is_fluid(c.new_block) =>
               /\ c.new_block.level \in 0..15
               /\ change_priority(c) = 40 - 2 * c.new_block.level
                                          + (IF c.new_block.kind = "lava" THEN 1 ELSE 0)
         /\ c.new_block = Air => change_priority(c) = 0
  <1> DEFINE pri(b) == IF is_solid_obstacle(b) THEN 100 + RawId[b.kind]
                       ELSE IF is_fluid(b) THEN 40 - 2 * b.level + (IF b.kind = "lava" THEN 1 ELSE 0)
                       ELSE 0
  <1>1. ASSUME NEW d, Sound(P, d) PROVE change_priority(d) = pri(d.new_block) /\ d.new_block \in Block
    BY <1>1 DEF change_priority, Sound
  <1>2. ASSUME NEW b \in Block, is_solid_obstacle(b)
        PROVE  /\ pri(b) \in 101..2500 /\ b.level = 0
               /\ (b.kind = "stone" /\ pri(b) = 101) \/ (b.kind = "cobblestone" /\ pri(b) = 114)
                    \/ (b.kind = "obsidian" /\ pri(b) = 2500)
    BY <1>2 DEF is_solid_obstacle, Rocks, RawId, Block, Fluids
  <1>3. ASSUME NEW b \in Block, is_fluid(b)
        PROVE  /\ b.level \in 0..15 /\ b.kind \in {"water", "lava"}
               /\ pri(b) = 40 - 2 * b.level + (IF b.kind = "lava" THEN 1 ELSE 0)
               /\ pri(b) \in 1..100
    <2>1. b.level \in 0..15 /\ b.kind \in {"water", "lava"} /\ ~is_solid_obstacle(b)
      BY <1>3, BlockKinds DEF is_fluid, Fluids, MAX_FLUID_LEVEL
    <2>2. pri(b) = 40 - 2 * b.level + (IF b.kind = "lava" THEN 1 ELSE 0)
      BY <1>3, <2>1
    <2> QED
      BY <2>1, <2>2
  <1>4. pri(Air) = 0
    BY Made
  <1>5. ASSUME NEW b \in Block, NEW d \in Block, pri(b) = pri(d)
        PROVE  b = d
    <2> HIDE DEF pri
    <2>1. CASE is_solid_obstacle(b)
      <3>1. is_solid_obstacle(d)
        BY <1>2, <1>3, <1>4, <1>5, <2>1, BlockKinds
      <3> QED
        BY <1>2, <1>5, <2>1, <3>1, BlockKinds
    <2>2. CASE is_fluid(b)
      <3>1. is_fluid(d)
        BY <1>2, <1>3, <1>4, <1>5, <2>2, BlockKinds
      <3>2. b.kind = d.kind /\ b.level = d.level
        BY <1>3, <1>5, <2>2, <3>1
      <3> QED
        BY <3>2, BlockKinds
    <2>3. CASE b = Air
      <3>1. d = Air
        BY <1>2, <1>3, <1>4, <1>5, <2>3, BlockKinds
      <3> QED
        BY <2>3, <3>1
    <2> QED
      BY <2>1, <2>2, <2>3, BlockKinds
  <1> HIDE DEF pri
  <1>6. c.new_block \in Block /\ change_priority(c) = pri(c.new_block)
    BY <1>1
  <1>7. MaxPriority \in Nat /\ change_priority(c) \in 0..MaxPriority
    <2>1. MaxPriority = 2500
      BY DEF MaxPriority, RawId
    <2> QED
      BY <1>2, <1>3, <1>4, <1>6, <2>1, BlockKinds
  <1>8. ASSUME NEW d, Sound(P, d), d.pos = c.pos, change_priority(d) = change_priority(c)
        PROVE  Same(c, d)
    <2>1. d.new_block = c.new_block
      BY <1>1, <1>5, <1>6, <1>8
    <2>2. d.fizz = c.fizz
      BY <1>8, <2>1 DEF Sound
    <2> QED
      BY <1>8, <2>1, <2>2 DEF Same
  <1> QED
    BY <1>2, <1>3, <1>4, <1>6, <1>7, <1>8

LEMMA GreatestNatural ==
  ASSUME NEW n \in Nat, NEW F \in SUBSET (0..n), F # {}
  PROVE  \E i \in F : \A j \in F : j <= i
  <1> DEFINE G == {n - i : i \in F}
  <1>1. G \in SUBSET Nat /\ G # {}
    <2>1. \A i \in 0..n : n - i \in Nat
      OBVIOUS
    <2>2. \A i \in F : i \in 0..n
      OBVIOUS
    <2> QED
      BY <2>1, <2>2, Zenon
  <1>2. PICK g \in G : \A h \in G : g <= h
    <2> HIDE DEF G
    <2> QED
      BY <1>1, LeastNatural
  <1>3. PICK i \in F : g = n - i
    OBVIOUS
  <1>4. ASSUME NEW j \in F PROVE j <= i
    <2>1. g <= n - j
      BY <1>2
    <2> QED
      BY <1>3, <2>1
  <1> QED
    BY <1>3, <1>4, Zenon

(* reduce_changes keeps one change for each cell, the strongest.           *)
LEMMA Reduced ==
  ASSUME NEW P, NEW C, \A c \in C : Sound(P, c)
  PROVE  /\ \A c \in reduce_changes(C) :
               /\ Sound(P, c) /\ \E d \in C : Same(c, d)
               /\ \A d \in C : d.pos = c.pos => change_priority(d) <= change_priority(c)
               /\ c.reschedule <=> \E d \in C : d.pos = c.pos /\ d.reschedule
         /\ \A d \in C : \E c \in reduce_changes(C) : c.pos = d.pos
         /\ \A c, d \in reduce_changes(C) : c.pos = d.pos => c = d
  <1> DEFINE Best == {c \in C : \A d \in C : d.pos = c.pos => change_priority(d) <= change_priority(c)}
             again(c) == \E d \in C : d.pos = c.pos /\ d.reschedule
             merged(c) == [c EXCEPT !.reschedule = again(c)]
  <1>1. reduce_changes(C) = {merged(c) : c \in Best}
    BY DEF reduce_changes
  <1>2. ASSUME NEW c \in C
        PROVE  /\ Sound(P, merged(c)) /\ Same(merged(c), c)
               /\ merged(c).reschedule = again(c)
               /\ change_priority(merged(c)) = change_priority(c)
    <2>1. Sound(P, c)
      OBVIOUS
    <2>2. again(c) \in BOOLEAN /\ (c.reschedule => again(c))
      OBVIOUS
    <2> HIDE DEF again
    <2>3. merged(c) \in [pos : P, new_block : Block, reschedule : BOOLEAN, fizz : BOOLEAN]
          /\ merged(c).reschedule = again(c) /\ Same(merged(c), c)
      BY <2>1, <2>2 DEF Sound, Same
    <2> HIDE DEF merged
    <2>4. Sound(P, merged(c))
      BY <2>1, <2>2, <2>3 DEF Sound, Same
    <2>5. change_priority(merged(c)) = change_priority(c)
      BY <2>3 DEF Same, change_priority
    <2> QED
      BY <2>3, <2>4, <2>5
  <1>3. ASSUME NEW c \in reduce_changes(C)
        PROVE  /\ Sound(P, c) /\ \E d \in C : Same(c, d)
               /\ \A d \in C : d.pos = c.pos => change_priority(d) <= change_priority(c)
               /\ c.reschedule <=> again(c)
    <2>1. PICK b \in Best : c = merged(b)
      BY <1>1
    <2>2. \A q : q.pos = b.pos => (again(q) <=> again(b))
      OBVIOUS
    <2> HIDE DEF merged, again
    <2>3. b \in C /\ \A d \in C : d.pos = b.pos => change_priority(d) <= change_priority(b)
      BY <2>1
    <2> QED
      BY <1>2, <2>1, <2>2, <2>3 DEF Same
  <1>4. ASSUME NEW d \in C PROVE \E c \in reduce_changes(C) : c.pos = d.pos
    <2> DEFINE F == {change_priority(c) : c \in {e \in C : e.pos = d.pos}}
    <2>1. F \in SUBSET (0..MaxPriority) /\ F # {} /\ MaxPriority \in Nat
      BY Priorities
    <2>2. PICK i \in F : \A j \in F : j <= i
      <3> HIDE DEF F
      <3> QED
        BY <2>1, GreatestNatural
    <2>3. PICK c \in C : c.pos = d.pos /\ change_priority(c) = i
      OBVIOUS
    <2>4. c \in Best
      BY <2>2, <2>3
    <2>5. merged(c) \in reduce_changes(C)
      BY <1>1, <2>4
    <2> HIDE DEF merged
    <2> QED
      BY <1>2, <2>3, <2>5 DEF Same
  <1>5. ASSUME NEW c \in reduce_changes(C), NEW d \in reduce_changes(C), c.pos = d.pos
        PROVE  c = d
    <2>1. PICK a \in Best : c = merged(a)
      BY <1>1
    <2>2. PICK b \in Best : d = merged(b)
      BY <1>1
    <2> HIDE DEF merged, again
    <2>3. a.pos = b.pos /\ a \in C /\ b \in C
      BY <1>2, <1>5, <2>1, <2>2 DEF Same
    <2>4. change_priority(a) <= change_priority(b) /\ change_priority(b) <= change_priority(a)
      BY <2>3
    <2>5. Same(a, b)
      <3>1. Sound(P, a) /\ Sound(P, b)
        BY <2>3
      <3>2. change_priority(a) \in 0..MaxPriority /\ change_priority(b) \in 0..MaxPriority
        BY <3>1, Priorities
      <3>3. change_priority(a) = change_priority(b)
        BY <2>4, <3>1, <3>2, Priorities
      <3> QED
        BY <2>3, <3>1, <3>3, Priorities
    <2>6. again(a) = again(b)
      BY <2>3 DEF again
    <2>7. Same(c, d) /\ c.reschedule = d.reschedule
      BY <1>2, <2>1, <2>2, <2>3, <2>5, <2>6 DEF Same
    <2>8. /\ c \in [pos : P, new_block : Block, reschedule : BOOLEAN, fizz : BOOLEAN]
          /\ d \in [pos : P, new_block : Block, reschedule : BOOLEAN, fizz : BOOLEAN]
      BY <1>2, <2>1, <2>2, <2>3 DEF Sound
    <2> QED
      BY <2>7, <2>8 DEF Same
  <1> QED
    BY <1>3, <1>4, <1>5

(* What the comment of reduce_changes promises (mod.rs:402): a batch comes  *)
(* out the same in whatever order and parts its ticks are evaluated.  P is  *)
(* the set of cells, A and B two parts of the batch.                        *)
THEOREM BatchesReduceAlike ==
  ASSUME NEW P, NEW A, NEW B, \A c \in A \cup B : Sound(P, c)
  PROVE  reduce_changes(reduce_changes(A) \cup B) = reduce_changes(A \cup B)
  <1> DEFINE R == reduce_changes(A)
             D == R \cup B
             E == A \cup B
             Q == reduce_changes(D)
             S == reduce_changes(E)
  <1>1. /\ \A c \in R :
              /\ Sound(P, c) /\ \E d \in A : Same(c, d)
              /\ \A d \in A : d.pos = c.pos => change_priority(d) <= change_priority(c)
              /\ c.reschedule <=> \E d \in A : d.pos = c.pos /\ d.reschedule
        /\ \A d \in A : \E c \in R : c.pos = d.pos
    BY Reduced
  <1>2. \A c \in D : Sound(P, c)
    BY <1>1
  <1>3. \A c \in E : Sound(P, c)
    OBVIOUS
  <1> HIDE DEF R
  <1>4. (\A c \in D : c \in R \/ c \in B) /\ (\A c \in E : c \in A \/ c \in B)
        /\ (\A c \in R : c \in D) /\ (\A c \in B : c \in D /\ c \in E) /\ (\A c \in A : c \in E)
    OBVIOUS
  <1> HIDE DEF D, E
  <1>5. /\ \A c \in Q :
              /\ Sound(P, c) /\ \E d \in D : Same(c, d)
              /\ \A d \in D : d.pos = c.pos => change_priority(d) <= change_priority(c)
              /\ c.reschedule <=> \E d \in D : d.pos = c.pos /\ d.reschedule
        /\ \A d \in D : \E c \in Q : c.pos = d.pos
        /\ \A c, d \in Q : c.pos = d.pos => c = d
    BY <1>2, Reduced
  <1>6. /\ \A c \in S :
              /\ Sound(P, c) /\ \E d \in E : Same(c, d)
              /\ \A d \in E : d.pos = c.pos => change_priority(d) <= change_priority(c)
              /\ c.reschedule <=> \E d \in E : d.pos = c.pos /\ d.reschedule
        /\ \A d \in E : \E c \in S : c.pos = d.pos
        /\ \A c, d \in S : c.pos = d.pos => c = d
    BY <1>3, Reduced
  <1> HIDE DEF Q, S
  <1>7. \A c, d : Same(c, d) => c.pos = d.pos /\ change_priority(c) = change_priority(d)
    BY DEF Same, change_priority
  <1>8. \A c : Sound(P, c) => change_priority(c) \in Nat
    BY Priorities
  <1>9. ASSUME NEW c \in Q, NEW e \in S, c.pos = e.pos
        PROVE  c = e
    <2>1. change_priority(e) <= change_priority(c)
      <3>1. PICK x \in E : Same(e, x)
        BY <1>6
      <3>2. CASE x \in B
        BY <1>4, <1>5, <1>7, <1>9, <3>1, <3>2
      <3>3. CASE x \in A
        <4>1. PICK r \in R : r.pos = x.pos
          BY <1>1, <3>3
        <4>2. change_priority(x) <= change_priority(r) /\ change_priority(r) <= change_priority(c)
          BY <1>1, <1>4, <1>5, <1>7, <1>9, <3>1, <3>3, <4>1
        <4>3. change_priority(x) \in Nat /\ change_priority(r) \in Nat /\ change_priority(c) \in Nat
          BY <1>1, <1>3, <1>5, <1>8, <3>1
        <4> QED
          BY <1>7, <3>1, <4>2, <4>3
      <3> QED
        BY <1>4, <3>2, <3>3
    <2>2. change_priority(c) <= change_priority(e)
      <3>1. PICK d \in D : Same(c, d)
        BY <1>5
      <3>2. CASE d \in B
        BY <1>4, <1>6, <1>7, <1>9, <3>1, <3>2
      <3>3. CASE d \in R
        <4>1. PICK a \in A : Same(d, a)
          BY <1>1, <3>3
        <4> QED
          BY <1>4, <1>6, <1>7, <1>9, <3>1, <4>1
      <3> QED
        BY <1>4, <3>2, <3>3
    <2>3. Sound(P, c) /\ Sound(P, e)
      BY <1>5, <1>6
    <2>4. change_priority(c) = change_priority(e)
      BY <1>8, <2>1, <2>2, <2>3
    <2>5. Same(e, c)
      BY <1>9, <2>3, <2>4, Priorities
    <2>6. c.reschedule <=> e.reschedule
      <3>1. ASSUME NEW d \in D, d.pos = c.pos, d.reschedule
            PROVE  \E x \in E : x.pos = e.pos /\ x.reschedule
        BY <1>1, <1>4, <1>9, <3>1
      <3>2. ASSUME NEW x \in E, x.pos = e.pos, x.reschedule
            PROVE  \E d \in D : d.pos = c.pos /\ d.reschedule
        <4>1. CASE x \in B
          BY <1>4, <1>9, <3>2, <4>1
        <4>2. CASE x \in A
          <5>1. PICK r \in R : r.pos = x.pos
            BY <1>1, <4>2
          <5>2. r.reschedule
            BY <1>1, <3>2, <4>2, <5>1
          <5> QED
            BY <1>4, <1>9, <3>2, <5>1, <5>2
        <4> QED
          BY <1>4, <4>1, <4>2
      <3> QED
        BY <1>5, <1>6, <3>1, <3>2
    <2> QED
      BY <2>3, <2>5, <2>6 DEF Sound, Same
  <1>10. \A c \in Q : \E e \in S : c.pos = e.pos
    <2> SUFFICES ASSUME NEW c \in Q PROVE \E x \in E : x.pos = c.pos
      BY <1>6
    <2>1. PICK d \in D : d.pos = c.pos
      BY <1>5, <1>7
    <2> QED
      BY <1>1, <1>4, <1>7, <2>1
  <1>11. \A e \in S : \E c \in Q : c.pos = e.pos
    <2> SUFFICES ASSUME NEW e \in S PROVE \E d \in D : d.pos = e.pos
      BY <1>5
    <2>1. PICK x \in E : x.pos = e.pos
      BY <1>6, <1>7
    <2> QED
      BY <1>1, <1>4, <2>1
  <1>12. Q = S
    BY <1>9, <1>10, <1>11
  <1> QED
    BY <1>12 DEF Q, S, D, E, R

-----------------------------------------------------------------------------
(* Views of the world.                                                     *)

SoundChanges == \A c \in changes : Sound(Cells, c)

Typed == TypeOK /\ SoundChanges

(* V shows cells of the world.                                             *)
Shows(V) == V \in [DOMAIN V -> Block] /\ DOMAIN V \subseteq Cells

LEMMA CellsAre == Cells \subseteq Points /\ \A p \in Cells : chunk(p) \in Chunks
  BY FluidAssumption DEF Points, Chunks

LEMMA Views ==
  ASSUME NEW b \in [Cells -> Block], NEW S
  PROVE  /\ DOMAIN Visible(b, S) = {q \in Cells : chunk(q) \in S}
         /\ Shows(Visible(b, S))
         /\ \A p \in DOMAIN Visible(b, S) : Visible(b, S)[p] = b[p]
  BY DEF Visible, Shows

LEMMA SeedsAre ==
  ASSUME NEW V, Shows(V), NEW S
  PROVE  /\ Seeds(V, S) \subseteq [pos : Cells, wait : Nat]
         /\ \A p \in S : is_fluid(block_at(V, p)) => \E t \in Seeds(V, S) : t.pos = p
  <1>1. ASSUME NEW p, is_fluid(block_at(V, p))
        PROVE  p \in Cells /\ V[p].kind \in Fluids
    <2>1. ~is_solid_obstacle(block_at(V, p))
      BY <1>1 DEF is_fluid, is_solid_obstacle, Fluids, Rocks
    <2>2. p \in DOMAIN V /\ is_fluid(V[p])
      BY <1>1, <2>1, Seen
    <2> QED
      BY <2>2 DEF Shows, is_fluid
  <1>2. REACTION_DELAY \in Nat /\ \A k \in Fluids : tick_delay[k] \in Nat
    BY FluidAssumption DEF REACTION_DELAY
  <1>3. Seeds(V, S) \subseteq [pos : Cells, wait : Nat]
    BY <1>1, <1>2 DEF Seeds
  <1>4. ASSUME NEW p \in S, is_fluid(block_at(V, p)) PROVE \E t \in Seeds(V, S) : t.pos = p
    <2> DEFINE t == [pos |-> p, wait |-> IF would_react(V, p) THEN REACTION_DELAY
                                         ELSE tick_delay[V[p].kind]]
    <2>1. t \in Seeds(V, S)
      BY <1>4, Zenon DEF Seeds
    <2>2. t.pos = p
      OBVIOUS
    <2> QED
      BY <2>1, <2>2, Zenon
  <1> QED
    BY <1>3, <1>4

LEMMA TickSound ==
  ASSUME NEW V, Shows(V), NEW p, NEW alg, NEW c \in compute_tick(alg, V, p)
  PROVE  Sound(Cells, c)
  <1>1. Effect(V, p, c)
    BY TickChanges DEF Shows
  <1> QED
    BY <1>1 DEF Effect, Sound, Shows

LEMMA TickOnce ==
  ASSUME NEW V, NEW p, NEW alg,
         NEW c \in compute_tick(alg, V, p), NEW d \in compute_tick(alg, V, p), c.pos = d.pos
  PROVE  c = d
  <1>1. CASE c \in Reactions(V, p) /\ d \in Reactions(V, p)
    BY <1>1 DEF Reactions
  <1>2. CASE c \in Relevels(alg, V, p) /\ d \in Relevels(alg, V, p)
    <2> DEFINE fed == Entitled(alg, V, p, V[p].kind)
               F == flow(p, fluid_block(V[p].kind, Min(fed)), TRUE)
    <2>1. (c = flow(p, Air, FALSE) /\ d = flow(p, Air, FALSE)) \/ (c = F /\ d = F)
      BY <1>2 DEF Relevels
    <2> HIDE DEF F
    <2> QED
      BY <2>1
  <1>3. CASE c \in Moves(alg, V, p) /\ d \in Moves(alg, V, p)
    <2>1. ASSUME NEW k, NEW S, NEW l, c \in Improve(V, k, S, l), d \in Improve(V, k, S, l)
          PROVE  c = d
      <3>1. PICK m \in S : c = flow(m, fluid_block(k, l), TRUE)
        BY <2>1 DEF Improve
      <3>2. PICK n \in S : d = flow(n, fluid_block(k, l), TRUE)
        BY <2>1 DEF Improve
      <3>3. c.pos = m /\ d.pos = n
        BY <3>1, <3>2 DEF flow, Change
      <3> QED
        BY <3>1, <3>2, <3>3
    <2> QED
      BY <1>3, <2>1 DEF Moves
  <1> QED
    BY <1>1, <1>2, <1>3 DEF compute_tick

LEMMA TickFinite ==
  ASSUME NEW V, Shows(V), NEW p, NEW alg
  PROVE  IsFiniteSet(compute_tick(alg, V, p))
  <1> DEFINE C == compute_tick(alg, V, p)
             P == {p, below(p)} \cup Beside(p)
             at == [c \in C |-> c.pos]
  <1>1. IsFiniteSet(P)
    <2>1. \A a, b, c, d, e, f : IsFiniteSet({a, b, c, d, e, f})
      <3> TAKE a, b, c, d, e, f
      <3>1. IsFiniteSet({a})
        BY FS_Singleton
      <3>2. IsFiniteSet({a} \cup {b})
        BY <3>1, FS_AddElement
      <3>3. IsFiniteSet({a} \cup {b} \cup {c})
        BY <3>2, FS_AddElement
      <3>4. IsFiniteSet({a} \cup {b} \cup {c} \cup {d})
        BY <3>3, FS_AddElement
      <3>5. IsFiniteSet({a} \cup {b} \cup {c} \cup {d} \cup {e})
        BY <3>4, FS_AddElement
      <3>6. IsFiniteSet({a} \cup {b} \cup {c} \cup {d} \cup {e} \cup {f})
        BY <3>5, FS_AddElement
      <3>7. {a, b, c, d, e, f} = {a} \cup {b} \cup {c} \cup {d} \cup {e} \cup {f}
        OBVIOUS
      <3> QED
        BY <3>6, <3>7
    <2>2. P = {p, below(p), Offset(p, 1, 0, 0), Offset(p, -1, 0, 0), Offset(p, 0, 0, 1), Offset(p, 0, 0, -1)}
      BY DEF Beside
    <2> HIDE DEF P
    <2> QED
      BY <2>1, <2>2
  <1>2. \A c \in C : c.pos \in P
    BY TickChanges DEF Effect, Shows
  <1>3. \A c, d \in C : c.pos = d.pos => c = d
    BY TickOnce
  <1> HIDE DEF C, P
  <1>4. at \in Injection(C, P)
    BY <1>2, <1>3 DEF Injection, IsInjective
  <1> HIDE DEF at
  <1>5. IsFiniteSet(C)
    BY <1>1, <1>4, FS_Injection
  <1> QED
    BY <1>5 DEF C

-----------------------------------------------------------------------------
(* The queue of a settling chunk.                                          *)

Lists(s, q) == \E i \in DOMAIN s : s[i] = q

Join(s, t) == s \o t

LEMMA Joined ==
  ASSUME NEW S, NEW s \in Seq(S), NEW t \in Seq(S)
  PROVE  /\ Join(s, t) \in Seq(S)
         /\ \A q : Lists(Join(s, t), q) <=> Lists(s, q) \/ Lists(t, q)
  <1>1. s \o t \in Seq(S) /\ Len(s \o t) = Len(s) + Len(t) /\ Len(s) \in Nat /\ Len(t) \in Nat
        /\ DOMAIN s = 1..Len(s) /\ DOMAIN t = 1..Len(t) /\ DOMAIN (s \o t) = 1..(Len(s) + Len(t))
    OBVIOUS
  <1>2. \A i \in 1..Len(s) : (s \o t)[i] = s[i]
    OBVIOUS
  <1>3. \A i \in 1..Len(t) : (s \o t)[Len(s) + i] = t[i]
    OBVIOUS
  <1>4. ASSUME NEW q, Lists(s \o t, q) PROVE Lists(s, q) \/ Lists(t, q)
    <2>1. PICK i \in 1..(Len(s) + Len(t)) : (s \o t)[i] = q
      BY <1>1, <1>4 DEF Lists
    <2>2. CASE i \in 1..Len(s)
      BY <1>1, <1>2, <2>1, <2>2 DEF Lists
    <2>3. CASE i \notin 1..Len(s)
      <3>1. i - Len(s) \in 1..Len(t) /\ Len(s) + (i - Len(s)) = i
        BY <1>1, <2>3
      <3> QED
        BY <1>1, <1>3, <2>1, <3>1 DEF Lists
    <2> QED
      BY <2>2, <2>3
  <1>5. ASSUME NEW q, Lists(s, q) PROVE Lists(s \o t, q)
    <2>1. PICK i \in 1..Len(s) : s[i] = q
      BY <1>1, <1>5 DEF Lists
    <2>2. i \in DOMAIN (s \o t) /\ (s \o t)[i] = q
      BY <1>1, <1>2, <2>1
    <2> QED
      BY <2>2 DEF Lists
  <1>6. ASSUME NEW q, Lists(t, q) PROVE Lists(s \o t, q)
    <2>1. PICK i \in 1..Len(t) : t[i] = q
      BY <1>1, <1>6 DEF Lists
    <2>2. Len(s) + i \in DOMAIN (s \o t) /\ (s \o t)[Len(s) + i] = q
      BY <1>1, <1>3, <2>1
    <2> QED
      BY <2>2 DEF Lists
  <1> QED
    BY <1>1, <1>4, <1>5, <1>6 DEF Join

LEMMA JoinedThree ==
  ASSUME NEW S, NEW s \in Seq(S), NEW t \in Seq(S), NEW u \in Seq(S)
  PROVE  /\ Join(Join(s, t), u) \in Seq(S)
         /\ \A q : Lists(Join(Join(s, t), u), q) <=> Lists(s, q) \/ Lists(t, q) \/ Lists(u, q)
  <1>1. Join(s, t) \in Seq(S) /\ \A q : Lists(Join(s, t), q) <=> Lists(s, q) \/ Lists(t, q)
    BY Joined
  <1> QED
    BY <1>1, Joined

LEMMA OnlyAre ==
  ASSUME NEW q, NEW S, NEW T, S \subseteq T
  PROVE  /\ Only(q, S) \in Seq(T)
         /\ \A r : Lists(Only(q, S), r) <=> (q \in S /\ r = q)
  <1>1. CASE q \in S
    <2>1. Only(q, S) = <<q>> /\ q \in T
      BY <1>1 DEF Only
    <2> QED
      BY <1>1, <2>1 DEF Lists
  <1>2. CASE q \notin S
    <2>1. Only(q, S) = << >>
      BY <1>2 DEF Only
    <2> QED
      BY <1>2, <2>1 DEF Lists
  <1> QED
    BY <1>1, <1>2

(* A change has its own cell queued, if it is to go on, and its neighbours. *)
LEMMA RequeuedAre ==
  ASSUME NEW c, NEW S \in SUBSET Cells, c.pos \in Cells
  PROVE  /\ Requeued(c, S) \in Seq(Cells)
         /\ \A r \in S \cap fluid_neighbours(c.pos) : Lists(Requeued(c, S), r)
         /\ c.reschedule => Lists(Requeued(c, S), c.pos)
  <1> DEFINE own == {d.pos : d \in {e \in {c} : e.reschedule}}
             p == c.pos
  <1>1. own \subseteq Cells /\ (c.reschedule => p \in own)
    OBVIOUS
  <1>2. /\ Only(p, own) \in Seq(Cells)
        /\ \A r : Lists(Only(p, own), r) <=> (p \in own /\ r = p)
    BY <1>1, OnlyAre
  <1>3. \A q : /\ Only(q, S) \in Seq(Cells)
               /\ \A r : Lists(Only(q, S), r) <=> (q \in S /\ r = q)
    BY OnlyAre
  <1> DEFINE a == Only(above(p), S)
             b == Only(below(p), S)
             e1 == Only(Offset(p, 1, 0, 0), S)
             e2 == Only(Offset(p, -1, 0, 0), S)
             e3 == Only(Offset(p, 0, 0, 1), S)
             e4 == Only(Offset(p, 0, 0, -1), S)
             o == Only(p, own)
             oab == Join(Join(o, a), b)
             sides == Join(Join(Join(e1, e2), e3), e4)
  <1>4. Requeued(c, S) = Join(oab, sides)
    BY DEF Requeued, Sides, Join
  <1>5. /\ o \in Seq(Cells) /\ a \in Seq(Cells) /\ b \in Seq(Cells) /\ e1 \in Seq(Cells)
        /\ e2 \in Seq(Cells) /\ e3 \in Seq(Cells) /\ e4 \in Seq(Cells)
        /\ \A r \in S \cap fluid_neighbours(p) :
              Lists(a, r) \/ Lists(b, r) \/ Lists(e1, r) \/ Lists(e2, r) \/ Lists(e3, r) \/ Lists(e4, r)
        /\ c.reschedule => Lists(o, p)
    BY <1>1, <1>2, <1>3 DEF fluid_neighbours, Beside
  <1> HIDE DEF o, a, b, e1, e2, e3, e4
  <1>6. oab \in Seq(Cells) /\ \A r : Lists(oab, r) <=> Lists(o, r) \/ Lists(a, r) \/ Lists(b, r)
    BY <1>5, JoinedThree
  <1>7. /\ sides \in Seq(Cells)
        /\ \A r : Lists(sides, r) <=> Lists(e1, r) \/ Lists(e2, r) \/ Lists(e3, r) \/ Lists(e4, r)
    <2>1. /\ Join(Join(e1, e2), e3) \in Seq(Cells)
          /\ \A r : Lists(Join(Join(e1, e2), e3), r) <=> Lists(e1, r) \/ Lists(e2, r) \/ Lists(e3, r)
      BY <1>5, JoinedThree
    <2> QED
      BY <1>5, <2>1, Joined
  <1> HIDE DEF oab, sides
  <1>8. /\ Requeued(c, S) \in Seq(Cells)
        /\ \A r : Lists(Requeued(c, S), r) <=> Lists(oab, r) \/ Lists(sides, r)
    BY <1>4, <1>6, <1>7, Joined
  <1> QED
    BY <1>5, <1>6, <1>7, <1>8

(* What is queued after the changes C that were computed for p.            *)
LEMMA QueuedAfterAre ==
  ASSUME NEW C, NEW p, NEW S \in SUBSET Cells, \A c \in C : c.pos \in Cells
  PROVE  /\ QueuedAfter(C, p, S) \in Seq(Cells)
         /\ \A q \in {p, below(p)} \cup Beside(p) : (\E c \in C : c.pos = q) =>
               /\ At(C, q) \in C /\ At(C, q).pos = q
               /\ \A r \in S \cap fluid_neighbours(q) : Lists(QueuedAfter(C, p, S), r)
               /\ At(C, q).reschedule => Lists(QueuedAfter(C, p, S), q)
  <1>1. ASSUME NEW q
        PROVE  /\ QueuedAt(C, q, S) \in Seq(Cells)
               /\ (\E c \in C : c.pos = q) =>
                     /\ At(C, q) \in C /\ At(C, q).pos = q
                     /\ \A r \in S \cap fluid_neighbours(q) : Lists(QueuedAt(C, q, S), r)
                     /\ At(C, q).reschedule => Lists(QueuedAt(C, q, S), q)
    <2>1. CASE \E c \in C : c.pos = q
      <3>1. At(C, q) \in C /\ At(C, q).pos = q
        BY <2>1, Zenon DEF At
      <3>2. QueuedAt(C, q, S) = Requeued(At(C, q), S)
        BY <2>1 DEF QueuedAt
      <3> QED
        BY <3>1, <3>2, RequeuedAre
    <2>2. CASE ~\E c \in C : c.pos = q
      <3>1. QueuedAt(C, q, S) = << >>
        BY <2>2, Zenon DEF QueuedAt
      <3> QED
        BY <2>2, <3>1
    <2> QED
      BY <2>1, <2>2
  <1> DEFINE a == QueuedAt(C, p, S)
             b == QueuedAt(C, below(p), S)
             e1 == QueuedAt(C, Offset(p, 1, 0, 0), S)
             e2 == QueuedAt(C, Offset(p, -1, 0, 0), S)
             e3 == QueuedAt(C, Offset(p, 0, 0, 1), S)
             e4 == QueuedAt(C, Offset(p, 0, 0, -1), S)
             s == QueuedAfter(C, p, S)
             abe == Join(Join(a, b), e1)
  <1>2. s = Join(Join(Join(abe, e2), e3), e4)
    BY DEF QueuedAfter, Join
  <1>3. /\ a \in Seq(Cells) /\ b \in Seq(Cells) /\ e1 \in Seq(Cells)
        /\ e2 \in Seq(Cells) /\ e3 \in Seq(Cells) /\ e4 \in Seq(Cells)
    BY <1>1
  <1>4. s \in Seq(Cells) /\ \A r : Lists(s, r) <=> Lists(a, r) \/ Lists(b, r) \/ Lists(e1, r)
                                       \/ Lists(e2, r) \/ Lists(e3, r) \/ Lists(e4, r)
    <2> HIDE DEF a, b, e1, e2, e3, e4, s
    <2>1. abe \in Seq(Cells) /\ \A r : Lists(abe, r) <=> Lists(a, r) \/ Lists(b, r) \/ Lists(e1, r)
      BY <1>3, JoinedThree
    <2> HIDE DEF abe
    <2>2. /\ Join(Join(abe, e2), e3) \in Seq(Cells)
          /\ \A r : Lists(Join(Join(abe, e2), e3), r) <=> Lists(abe, r) \/ Lists(e2, r) \/ Lists(e3, r)
      BY <1>3, <2>1, JoinedThree
    <2>3. /\ s \in Seq(Cells)
          /\ \A r : Lists(s, r) <=> Lists(Join(Join(abe, e2), e3), r) \/ Lists(e4, r)
      BY <1>2, <1>3, <2>2, Joined
    <2> QED
      BY <2>1, <2>2, <2>3
  <1>5. ASSUME NEW q \in {p, below(p)} \cup Beside(p), NEW r, Lists(QueuedAt(C, q, S), r)
        PROVE  Lists(s, r)
    <2>1. q \in {p, below(p), Offset(p, 1, 0, 0), Offset(p, -1, 0, 0), Offset(p, 0, 0, 1),
                 Offset(p, 0, 0, -1)}
      BY DEF Beside
    <2> HIDE DEF s
    <2> QED
      BY <1>4, <1>5, <2>1
  <1> HIDE DEF s
  <1>6. ASSUME NEW q \in {p, below(p)} \cup Beside(p), \E c \in C : c.pos = q
        PROVE  /\ At(C, q) \in C /\ At(C, q).pos = q
               /\ \A r \in S \cap fluid_neighbours(q) : Lists(s, r)
               /\ At(C, q).reschedule => Lists(s, q)
    BY <1>1, <1>5, <1>6
  <1> QED
    BY <1>4, <1>6 DEF s

-----------------------------------------------------------------------------
(* Types.                                                                  *)

LEMMA ViewShows ==
  ASSUME Typed
  PROVE  /\ Shows(View) /\ Shows(LocalView)
         /\ \A S : Shows(Visible(block, S))
         /\ block' \in [Cells -> Block] => \A S : Shows(Visible(block', S))
  BY Views DEF Typed, TypeOK, View, LocalView

LEMMA SeamIn ==
  ASSUME NEW c
  PROVE  Seam(c) \subseteq Cells
  BY DEF Seam

(* SettleStep makes every change the kernel computes.                      *)
LEMMA SettleMakesAll ==
  ASSUME NEW V, Shows(V), NEW p
  PROVE  SettleChanges(V, p) = compute_tick(algorithm, V, p)
  <1>1. \A c \in compute_tick(algorithm, V, p) : Effect(V, p, c)
    BY TickChanges DEF Shows
  <1>2. \A c \in compute_tick(algorithm, V, p) :
           /\ c.pos \in DOMAIN V /\ V[c.pos] # c.new_block
           /\ is_fluid(c.new_block) => ~is_solid_obstacle(V[c.pos])
    BY <1>1 DEF Effect
  <1> QED
    BY <1>2, Zenon DEF SettleChanges

LEMMA TypedEdit ==
  ASSUME Typed, NEW p \in Cells, NEW b \in Block, Edit(p, b)
  PROVE  /\ block' \in [Cells -> Block] /\ algorithm' \in Algorithms
         /\ cached' \subseteq Chunks /\ status' \in [Chunks -> {"new", "streamed", "settled"}]
         /\ due' \subseteq Cells /\ ran' \in BOOLEAN
         /\ settling' \in [chunk : Chunks, queue : Seq(Cells), applied : Nat]
         /\ edits' \in 0..MaxEdits /\ overtaken' \subseteq Cells
         /\ changes' = changes
  BY FluidAssumption, CellsAre DEF Typed, TypeOK, Edit

LEMMA TypedPlayers ==
  ASSUME Typed, Players
  PROVE  Typed'
  <1>1. ASSUME NEW p \in Cells PROVE LoadedBy(p) \subseteq Cells
    BY SeamIn DEF LoadedBy
  <1>2. ASSUME NEW p \in Cells, Break(p) PROVE Typed'
    <2>1. Air \in Block /\ Edit(p, Air)
      BY <1>2, Made DEF Break
    <2> QED
      BY <1>1, <1>2, <2>1, TypedEdit DEF Break, Typed, TypeOK, SoundChanges
  <1>3. ASSUME NEW p \in Cells, NEW b \in Placeable, Place(p, b) PROVE Typed'
    <2>1. b \in Block /\ Edit(p, b)
      BY <1>3, FluidAssumption DEF Place
    <2>2. block' \in [Cells -> Block]
      BY <2>1, TypedEdit
    <2>3. pending' \subseteq [pos : Cells, wait : Nat]
      <3>1. ASSUME NEW S PROVE Seeds(Visible(block', cached'), S) \subseteq [pos : Cells, wait : Nat]
        BY <2>2, Views, SeedsAre
      <3> QED
        BY <1>3, <3>1 DEF Place, Typed, TypeOK
    <2>4. broken' = broken /\ stale' \subseteq Cells
      BY <1>1, <1>3 DEF Place, Typed, TypeOK
    <2> QED
      BY <2>1, <2>3, <2>4, TypedEdit DEF Typed, TypeOK, SoundChanges
  <1> QED
    BY <1>2, <1>3 DEF Players

LEMMA TypedTick ==
  ASSUME Typed, Tick
  PROVE  Typed'
  <1>1. ASSUME Advance PROVE Typed'
    <2>1. pending' \subseteq [pos : Cells, wait : Nat]
      <3>1. ASSUME NEW t \in [pos : Cells, wait : Nat]
            PROVE  [t EXCEPT !.wait = IF @ = 0 THEN 0 ELSE @ - 1] \in [pos : Cells, wait : Nat]
        OBVIOUS
      <3>2. \A t \in pending : t \in [pos : Cells, wait : Nat]
        BY DEF Typed, TypeOK
      <3> QED
        BY <1>1, <3>1, <3>2 DEF Advance
    <2> QED
      BY <1>1, <2>1 DEF Advance, Typed, TypeOK, SoundChanges, world, ghosts
  <1>2. ASSUME Drain PROVE Typed'
    <2>1. PICK S \in Drained : /\ due' = {t.pos : t \in S} /\ pending' = pending \ S
                               /\ stale' = stale \ due'
      BY <1>2 DEF Drain
    <2>2. S \subseteq pending
      BY <2>1 DEF Drained, Due
    <2>3. due' \subseteq Cells /\ pending' \subseteq [pos : Cells, wait : Nat]
      <3>1. \A t \in pending : t \in [pos : Cells, wait : Nat]
        BY DEF Typed, TypeOK
      <3>2. \A t \in S : t.pos \in Cells
        BY <2>2, <3>1
      <3> QED
        BY <2>1, <3>1, <3>2
    <2> QED
      BY <1>2, <2>1, <2>3 DEF Drain, Typed, TypeOK, SoundChanges, world
  <1>3. ASSUME NEW p \in due, Evaluate(p) PROVE Typed'
    <2> DEFINE C == changes \cup compute_tick(algorithm, View, p)
    <2>1. changes' = reduce_changes(C)
      BY <1>3 DEF Evaluate
    <2>2. \A c \in C : Sound(Cells, c)
      BY ViewShows, TickSound DEF Typed, SoundChanges
    <2> HIDE DEF C
    <2>3. \A c \in changes' : Sound(Cells, c)
      BY <2>1, <2>2, Reduced
    <2>4. changes' \subseteq [pos : Cells, new_block : Block, reschedule : BOOLEAN, fizz : BOOLEAN]
      BY <2>3 DEF Sound
    <2>5. stale' \subseteq Cells /\ due' \subseteq Cells
      BY <1>3 DEF Evaluate, Typed, TypeOK
    <2> QED
      BY <1>3, <2>3, <2>4, <2>5 DEF Evaluate, Typed, TypeOK, SoundChanges, world
  <1>4. ASSUME NEW c \in changes, Apply(c) PROVE Typed'
    <2>1. Sound(Cells, c)
      BY DEF Typed, SoundChanges
    <2>2. c.pos \in Cells /\ c.new_block \in Block
      BY <2>1 DEF Sound
    <2>3. block' \in [Cells -> Block]
      BY <1>4, <2>2 DEF Apply, Typed, TypeOK
    <2>4. pending' \subseteq [pos : Cells, wait : Nat]
      <3>1. \A S : Seeds(Visible(block', cached), S) \subseteq [pos : Cells, wait : Nat]
        BY <2>3, Views, SeedsAre
      <3>2. \A d \in {e \in {c} : e.reschedule} :
               [pos |-> d.pos, wait |-> RetickDelay(d.new_block)] \in [pos : Cells, wait : Nat]
        <4>1. RetickDelay(c.new_block) \in Nat
          BY <2>2, FluidAssumption DEF RetickDelay, is_fluid, Fluids
        <4> QED
          BY <2>2, <4>1
      <3>3. pending \subseteq [pos : Cells, wait : Nat]
        BY DEF Typed, TypeOK
      <3>4. CASE Refused(c)
        BY <1>4, <3>3, <3>4 DEF Apply
      <3>5. CASE ~Refused(c)
        <4>1. pending' = pending \cup Seeds(Visible(block', cached), fluid_neighbours(c.pos)) \cup
                    {[pos |-> d.pos, wait |-> RetickDelay(d.new_block)] :
                        d \in {e \in {c} : e.reschedule}}
          BY <1>4, <3>5 DEF Apply
        <4> QED
          BY <3>1, <3>2, <3>3, <4>1
      <3> QED
        BY <3>4, <3>5
    <2> QED
      BY <1>4, <2>3, <2>4 DEF Apply, Typed, TypeOK, SoundChanges
  <1> QED
    BY <1>1, <1>2, <1>3, <1>4 DEF Tick

LEMMA IdleTyped == Idle \in [chunk : Chunks, queue : Seq(Cells), applied : Nat]
  <1>1. Chunks # {}
    BY FluidAssumption DEF Chunks
  <1>2. (CHOOSE c \in Chunks : TRUE) \in Chunks
    BY <1>1, Zenon
  <1>3. << >> \in Seq(Cells)
    OBVIOUS
  <1> QED
    BY <1>2, <1>3 DEF Idle

(* One step of a settling chunk: the changes it makes, its queue thereafter. *)
Done == SettleChanges(LocalView, Head(settling.queue))
Rest == Tail(settling.queue) \o QueuedAfter(Done, Head(settling.queue), DOMAIN LocalView)

LEMMA SettleStepDoes ==
  ASSUME SettleStep
  PROVE  Settled(Done, Rest)
  <1>1. PICK V \in {LocalView}, p \in {Head(settling.queue)} : \E C \in {SettleChanges(V, p)} :
           \E queue \in {Tail(settling.queue) \o QueuedAfter(C, p, DOMAIN V)} : Settled(C, queue)
    BY Zenon DEF SettleStep
  <1>2. V = LocalView /\ p = Head(settling.queue)
    BY <1>1
  <1>3. PICK C \in {SettleChanges(V, p)} :
           \E queue \in {Tail(settling.queue) \o QueuedAfter(C, p, DOMAIN V)} : Settled(C, queue)
    BY <1>1, Zenon
  <1>4. C = Done
    BY <1>2, <1>3, Zenon DEF Done
  <1>5. PICK queue \in {Tail(settling.queue) \o QueuedAfter(C, p, DOMAIN V)} : Settled(C, queue)
    BY <1>3, Zenon
  <1>6. queue = Rest
    BY <1>2, <1>4, <1>5, Zenon DEF Rest
  <1> QED
    BY <1>4, <1>5, <1>6, Zenon

LEMMA TypedSettle ==
  ASSUME Typed, Settle
  PROVE  Typed'
  <1>1. ASSUME SettleStop PROVE Typed'
    <2>1. CellsOf(settling.chunk) \subseteq Cells
      BY DEF CellsOf
    <2> QED
      BY <1>1, <2>1, IdleTyped DEF SettleStop, Typed, TypeOK, SoundChanges, world
  <1>2. ASSUME SettleStep PROVE Typed'
    <2>1. /\ \A c \in Done : Sound(Cells, c) /\ c.pos \in Cells /\ c.new_block \in Block
          /\ IsFiniteSet(Done)
      BY ViewShows, SettleMakesAll, TickSound, TickFinite DEF Sound, Done
    <2>2. Rest \in Seq(Cells)
      <3>1. DOMAIN LocalView \in SUBSET Cells
        BY ViewShows DEF Shows
      <3>2. QueuedAfter(Done, Head(settling.queue), DOMAIN LocalView) \in Seq(Cells)
        BY <2>1, <3>1, QueuedAfterAre
      <3>3. Tail(settling.queue) \in Seq(Cells)
        BY <1>2 DEF SettleStep, Typed, TypeOK
      <3> QED
        BY <3>2, <3>3 DEF Rest
    <2>3. block' \in [Cells -> Block]
      <3>1. ASSUME NEW q, \E c \in Done : c.pos = q PROVE At(Done, q) \in Done
        BY <3>1, Zenon DEF At
      <3> QED
        BY <1>2, <2>1, <3>1, SettleStepDoes DEF Settled, Typed, TypeOK
    <2>4. settling' \in [chunk : Chunks, queue : Seq(Cells), applied : Nat]
      <3>1. Cardinality(Done) \in Nat
        BY <2>1, FS_CardinalityType
      <3>2. settling \in [chunk : Chunks, queue : Seq(Cells), applied : Nat]
        BY DEF Typed, TypeOK
      <3> DEFINE s == [chunk |-> settling.chunk, queue |-> Rest,
                       applied |-> settling.applied + Cardinality(Done)]
      <3>3. s \in [chunk : Chunks, queue : Seq(Cells), applied : Nat]
        BY <2>2, <3>1, <3>2
      <3>4. settling' = Idle \/ settling' = s
        BY <1>2, SettleStepDoes DEF Settled
      <3> QED
        BY <3>3, <3>4, IdleTyped
    <2>5. overtaken' \subseteq Cells
      BY <1>2, <2>1, SettleStepDoes DEF Settled, Typed, TypeOK
    <2> QED
      BY <1>2, <2>3, <2>4, <2>5 DEF SettleStep, Typed, TypeOK, SoundChanges
  <1> QED
    BY <1>1, <1>2 DEF Settle

LEMMA FrontierIn ==
  ASSUME NEW c
  PROVE  Frontier(c) \subseteq Cells /\ Frontier(c) \in SUBSET Points /\ IsFiniteSet(Frontier(c))
  <1>1. Frontier(c) \in SUBSET Cells
    BY DEF Frontier, CellsOf
  <1>2. IsFiniteSet(Frontier(c))
    BY <1>1, FluidAssumption, FS_Subset
  <1> QED
    BY <1>1, <1>2, CellsAre

LEMMA TypedChunks ==
  ASSUME Typed, NEW c \in Chunks, SettleLoaded(c) \/ Stream(c) \/ Unload(c)
  PROVE  Typed'
  <1>1. Seam(c) \subseteq Cells
    BY SeamIn
  <1>2. ASSUME SettleLoaded(c) PROVE Typed'
    <2>1. Seeds(Visible(block, cached'), Frontier(c)) \subseteq [pos : Cells, wait : Nat]
      BY ViewShows, SeedsAre
    <2>2. pending' \subseteq [pos : Cells, wait : Nat]
      BY <1>2, <2>1 DEF SettleLoaded, Typed, TypeOK
    <2>3. status' \in [Chunks -> {"new", "streamed", "settled"}] /\ stale' \subseteq Cells
      BY <1>1, <1>2 DEF SettleLoaded, Typed, TypeOK
    <2> QED
      BY <1>2, <2>2, <2>3 DEF SettleLoaded, Typed, TypeOK, SoundChanges, world
  <1>3. ASSUME Stream(c) PROVE Typed'
    <2>1. status' \in [Chunks -> {"new", "streamed", "settled"}]
      BY <1>3 DEF Stream, Typed, TypeOK
    <2>2. Scanned(Frontier(c)) \in Seq(Cells)
      <3> DEFINE F == Frontier(c)
      <3>1. F \in SUBSET Points /\ IsFiniteSet(F) /\ F \subseteq Cells
        BY FrontierIn
      <3> HIDE DEF F
      <3>2. Scanned(F) \in Seq(F)
        BY <3>1, ScannedLists
      <3>3. Scanned(F) \in Seq(Cells)
        BY <3>1, <3>2
      <3> QED
        BY <3>3 DEF F
    <2>3. settling' \in [chunk : Chunks, queue : Seq(Cells), applied : Nat]
      BY <1>3, <2>2, IdleTyped DEF Stream
    <2>4. stale' \subseteq Cells /\ cached' \subseteq Chunks
      BY <1>1, <1>3 DEF Stream, Typed, TypeOK
    <2> QED
      BY <1>3, <2>1, <2>3, <2>4 DEF Stream, Typed, TypeOK, SoundChanges, world
  <1>4. ASSUME Unload(c) PROVE Typed'
    BY <1>1, <1>4 DEF Unload, Typed, TypeOK, SoundChanges, world
  <1> QED
    BY <1>2, <1>3, <1>4

LEMMA TypedInit ==
  ASSUME Init
  PROVE  Typed
  <1>1. Natural \subseteq Block
    BY Made DEF Natural, Fluids, MAX_FLUID_LEVEL
  <1>2. block \in [Cells -> Block]
    BY <1>1, FluidAssumption DEF Init
  <1>3. status \in [Chunks -> {"new", "streamed", "settled"}] /\ edits \in 0..MaxEdits
    BY FluidAssumption DEF Init
  <1> QED
    BY <1>2, <1>3, IdleTyped DEF Init, Typed, TypeOK, SoundChanges

LEMMA TypedNext ==
  ASSUME Typed, [Next]_vars
  PROVE  Typed'
  <1>1. ASSUME NEW p \in Cells, SeedBreak(p) PROVE Typed'
    <2>1. pending' \subseteq [pos : Cells, wait : Nat]
      BY <1>1, ViewShows, SeedsAre DEF SeedBreak, Typed, TypeOK
    <2> QED
      BY <1>1, <2>1 DEF SeedBreak, Typed, TypeOK, SoundChanges, world
  <1>2. CASE UNCHANGED vars
    BY <1>2 DEF vars, world, ghosts, Typed, TypeOK, SoundChanges
  <1> QED
    BY <1>1, <1>2, TypedTick, TypedSettle, TypedPlayers, TypedChunks DEF Next

(* The fluid system keeps its types.                                       *)
THEOREM FluidTypeCorrect == Spec => []TypeOK
  <1>1. Init => Typed
    BY TypedInit
  <1>2. Typed /\ [Next]_vars => Typed'
    BY TypedNext
  <1>3. Typed => TypeOK
    BY DEF Typed
  <1> QED
    BY <1>1, <1>2, <1>3, PTL DEF Spec

-----------------------------------------------------------------------------
(* Sources.                                                                *)

(* One change waits for a cell at most, and one that was not overtaken      *)
(* turns a source to nothing but rock.                                     *)
OnePerCell == \A c, d \in changes : c.pos = d.pos => c = d
Spares == \A c \in changes : c.pos \in overtaken \/ ~is_source(block[c.pos]) \/ c.fizz

KeepInv == Typed /\ OnePerCell /\ Spares

(* The steps of the tick thread that it takes with no change waiting.      *)
Alone == Between /\ changes' = {} /\ overtaken' = overtaken /\ settling' = settling

StepsAlone ==
    \/ Advance \/ Drain \/ Players
    \/ \E p \in Cells : SeedBreak(p)
    \/ \E c \in Chunks : SettleLoaded(c) \/ Unload(c)

LEMMA StepsAloneAre ==
  ASSUME StepsAlone
  PROVE  Alone
  <1>1. ASSUME NEW p \in Cells, NEW b, Edit(p, b) PROVE Alone
    BY <1>1 DEF Edit, Alone, Between
  <1>2. Players => Alone
    BY <1>1 DEF Players, Break, Place
  <1>3. Advance \/ Drain => Alone
    BY DEF Advance, Drain, Alone, Between, ghosts
  <1>4. \A p \in Cells : SeedBreak(p) => Alone
    BY DEF SeedBreak, Alone, Between
  <1>5. \A c \in Chunks : SettleLoaded(c) \/ Unload(c) => Alone
    BY DEF SettleLoaded, Unload, Alone, Between
  <1> QED
    BY <1>2, <1>3, <1>4, <1>5 DEF StepsAlone

LEMMA Steps ==
  ASSUME Next
  PROVE  \/ StepsAlone \/ SettleStop \/ SettleStep
         \/ \E p \in due : Evaluate(p)
         \/ \E c \in changes : Apply(c)
         \/ \E c \in Chunks : Stream(c)
  BY DEF Next, Tick, Settle, StepsAlone

(* Of the changes that wait after p is evaluated, those that are new.      *)
LEMMA Evaluated ==
  ASSUME Typed, NEW p \in due, Evaluate(p)
  PROVE  /\ \A c \in changes' : \/ \E d \in changes : Same(c, d)
                                \/ \E d \in compute_tick(algorithm, View, p) : Same(c, d)
         /\ \A c \in changes' : \A d \in changes \cup compute_tick(algorithm, View, p) :
               d.pos = c.pos => change_priority(d) <= change_priority(c)
         /\ \A d \in changes \cup compute_tick(algorithm, View, p) :
               \E c \in changes' : c.pos = d.pos
         /\ \A c, d \in changes' : c.pos = d.pos => c = d
  <1> DEFINE C == changes \cup compute_tick(algorithm, View, p)
  <1>1. changes' = reduce_changes(C)
    BY DEF Evaluate
  <1>2. \A c \in C : Sound(Cells, c)
    BY ViewShows, TickSound DEF Typed, SoundChanges
  <1>3. \A c \in C : c \in changes \/ c \in compute_tick(algorithm, View, p)
    OBVIOUS
  <1>4. /\ \A c \in changes' : \E d \in C : Same(c, d)
        /\ \A c \in changes' : \A d \in C : d.pos = c.pos => change_priority(d) <= change_priority(c)
        /\ \A d \in C : \E c \in changes' : c.pos = d.pos
        /\ \A c, d \in changes' : c.pos = d.pos => c = d
    <2> HIDE DEF C
    <2> QED
      BY <1>1, <1>2, Reduced
  <1> QED
    BY <1>3, <1>4

LEMMA ViewIs ==
  ASSUME Typed, NEW S, NEW p \in DOMAIN Visible(block, S)
  PROVE  p \in Cells /\ chunk(p) \in S /\ Visible(block, S)[p] = block[p]
  <1>1. block \in [Cells -> Block]
    BY DEF Typed, TypeOK
  <1>2. p \in {q \in Cells : chunk(q) \in S} /\ Visible(block, S)[p] = block[p]
    BY <1>1, Views
  <1> QED
    BY <1>2

LEMMA ViewEffects ==
  ASSUME Typed, NEW S, NEW p, NEW c \in compute_tick(algorithm, Visible(block, S), p)
  PROVE  /\ Effect(Visible(block, S), p, c)
         /\ p \in Cells /\ chunk(p) \in S
         /\ c.pos \in Cells /\ chunk(c.pos) \in S
         /\ block[c.pos] # c.new_block /\ ~is_solid_obstacle(block[c.pos])
         /\ is_source(block[c.pos]) => c.fizz
  <1> DEFINE V == Visible(block, S)
  <1>1. Shows(V)
    BY ViewShows
  <1> HIDE DEF V
  <1>2. Effect(V, p, c)
    BY <1>1, TickChanges DEF Shows, V
  <1>3. c.pos \in DOMAIN V /\ p \in DOMAIN V
    BY <1>2 DEF Effect
  <1>4. V[c.pos] = block[c.pos] /\ p \in Cells /\ chunk(p) \in S /\ c.pos \in Cells /\ chunk(c.pos) \in S
    BY <1>3, ViewIs DEF V
  <1>5. Effect(V, p, c) => /\ ~is_solid_obstacle(V[c.pos]) /\ V[c.pos] # c.new_block
                           /\ is_source(V[c.pos]) => c.fizz
    BY DEF Effect
  <1> QED
    BY <1>2, <1>4, <1>5 DEF V

(* The changes a settling chunk makes are the kernel's.                    *)
LEMMA DoneAre ==
  ASSUME Typed, NEW c \in Done
  PROVE  /\ c \in compute_tick(algorithm, LocalView, Head(settling.queue))
         /\ c.pos \in Cells /\ chunk(c.pos) = settling.chunk /\ Sound(Cells, c)
         /\ is_source(block[c.pos]) => c.fizz
  <1>1. c \in compute_tick(algorithm, LocalView, Head(settling.queue))
    BY ViewShows, SettleMakesAll DEF Done
  <1>2. Sound(Cells, c)
    BY <1>1, ViewShows, TickSound
  <1> QED
    BY <1>1, <1>2, ViewEffects DEF LocalView

LEMMA AtAre ==
  ASSUME NEW C, NEW q, \E c \in C : c.pos = q
  PROVE  At(C, q) \in C /\ At(C, q).pos = q
  BY Zenon DEF At

LEMMA KeepNext ==
  ASSUME KeepInv, [Next]_vars
  PROVE  KeepInv'
  <1>1. Typed'
    BY TypedNext DEF KeepInv
  <1>2. CASE UNCHANGED vars
    BY <1>1, <1>2 DEF KeepInv, OnePerCell, Spares, vars, world, ghosts
  <1>3. CASE StepsAlone
    BY <1>1, <1>3, StepsAloneAre DEF KeepInv, OnePerCell, Spares, Alone
  <1>4. CASE SettleStop
    BY <1>1, <1>4 DEF KeepInv, OnePerCell, Spares, SettleStop, world
  <1>5. CASE \E c \in Chunks : Stream(c)
    BY <1>1, <1>5 DEF KeepInv, OnePerCell, Spares, Stream, world
  <1>6. ASSUME NEW p \in due, Evaluate(p) PROVE KeepInv'
    <2>1. Typed /\ block' = block /\ overtaken' = overtaken
      BY <1>6 DEF KeepInv, Evaluate, world
    <2>2. OnePerCell'
      BY <1>6, <2>1, Evaluated DEF OnePerCell
    <2>3. ASSUME NEW c \in changes'
          PROVE  c.pos \in overtaken \/ ~is_source(block[c.pos]) \/ c.fizz
      <3>1. CASE \E d \in changes : Same(c, d)
        BY <3>1 DEF KeepInv, Spares, Same
      <3>2. CASE \E d \in compute_tick(algorithm, View, p) : Same(c, d)
        BY <2>1, <3>2, ViewEffects DEF View, Same
      <3> QED
        BY <1>6, <2>1, <3>1, <3>2, Evaluated
    <2> QED
      BY <1>1, <2>1, <2>2, <2>3 DEF KeepInv, Spares
  <1>7. ASSUME NEW c \in changes, Apply(c) PROVE KeepInv'
    <2>1. OnePerCell'
      BY <1>7 DEF Apply, KeepInv, OnePerCell
    <2>2. ASSUME NEW d \in changes'
          PROVE  d.pos \in overtaken' \/ ~is_source(block'[d.pos]) \/ d.fizz
      <3>1. d \in changes /\ d.pos # c.pos
        BY <1>7 DEF Apply, KeepInv, OnePerCell
      <3>2. d.pos \in Cells /\ block \in [Cells -> Block]
        BY <3>1 DEF KeepInv, Typed, TypeOK
      <3>3. block'[d.pos] = block[d.pos] /\ (d.pos \in overtaken => d.pos \in overtaken')
        BY <1>7, <3>1, <3>2 DEF Apply
      <3> QED
        BY <3>1, <3>3 DEF KeepInv, Spares
    <2> QED
      BY <1>1, <2>1, <2>2 DEF KeepInv, Spares
  <1>8. ASSUME SettleStep PROVE KeepInv'
    <2>1. changes' = changes /\ Settled(Done, Rest)
      BY <1>8, SettleStepDoes DEF SettleStep
    <2>2. ASSUME NEW d \in changes
          PROVE  d.pos \in overtaken' \/ ~is_source(block'[d.pos]) \/ d.fizz
      <3>1. d.pos \in Cells
        BY DEF KeepInv, Typed, TypeOK
      <3>2. CASE \E c \in Done : c.pos = d.pos
        BY <2>1, <3>2 DEF Settled
      <3>3. CASE ~\E c \in Done : c.pos = d.pos
        BY <2>1, <3>1, <3>3 DEF Settled, KeepInv, Spares
      <3> QED
        BY <3>2, <3>3
    <2> QED
      BY <1>1, <2>1, <2>2 DEF KeepInv, OnePerCell, Spares
  <1> QED
    BY <1>2, <1>3, <1>4, <1>5, <1>6, <1>7, <1>8, Steps

KeptInStep ==
    \A p \in Cells \ overtaken :
       is_source(block[p]) /\ edits' = edits
          => block'[p] = block[p] \/ is_solid_obstacle(block'[p])

LEMMA StepKeeps ==
  ASSUME KeepInv, [Next]_vars
  PROVE  KeptInStep
  <1> SUFFICES ASSUME NEW p \in Cells, p \notin overtaken, is_source(block[p]), edits' = edits,
                      block'[p] # block[p]
               PROVE  is_solid_obstacle(block'[p])
    BY DEF KeptInStep
  <1>1. edits \in Nat /\ block \in [Cells -> Block] /\ block' # block
    BY FluidAssumption DEF KeepInv, Typed, TypeOK
  <1>2. Next
    BY <1>1 DEF vars, world
  <1>3. ~Players
    <2>1. \A q \in Cells : \A b : ~Edit(q, b)
      BY <1>1 DEF Edit
    <2> QED
      BY <2>1 DEF Players, Break, Place
  <1>4. ASSUME SettleStep PROVE is_solid_obstacle(block'[p])
    <2>1. Settled(Done, Rest)
      BY <1>4, SettleStepDoes
    <2>2. \E c \in Done : c.pos = p
      BY <2>1 DEF Settled
    <2>3. block'[p] = At(Done, p).new_block
      BY <2>1, <2>2 DEF Settled
    <2>4. At(Done, p) \in Done /\ At(Done, p).pos = p
      BY <2>2, AtAre
    <2> QED
      BY <2>3, <2>4, DoneAre DEF KeepInv, Sound
  <1>5. ASSUME NEW c \in changes, Apply(c) PROVE is_solid_obstacle(block'[p])
    <2>1. block' = [block EXCEPT ![c.pos] = c.new_block]
      BY <1>1, <1>5 DEF Apply
    <2>2. c.pos = p /\ block'[p] = c.new_block
      BY <1>1, <2>1
    <2>3. c.fizz /\ Sound(Cells, c)
      BY <2>2 DEF KeepInv, Spares, Typed, SoundChanges
    <2> QED
      BY <2>2, <2>3 DEF Sound
  <1>6. ~Advance /\ ~Drain /\ ~SettleStop /\ \A q \in due : ~Evaluate(q)
    BY <1>1 DEF Advance, Drain, SettleStop, Evaluate, world
  <1>7. \A q \in Cells : ~SeedBreak(q)
    BY <1>1 DEF SeedBreak, world
  <1>8. \A c \in Chunks : ~SettleLoaded(c) /\ ~Stream(c) /\ ~Unload(c)
    BY <1>1 DEF SettleLoaded, Stream, Unload, world
  <1> QED
    BY <1>2, <1>3, <1>4, <1>5, <1>6, <1>7, <1>8 DEF Next, Tick, Settle

(* A source stays until a player removes it or it turns to rock, unless a   *)
(* pool thread formed it under a change computed before.                   *)
THEOREM SourcesStay == Spec => SourcesKept
  <1>1. Init => KeepInv
    BY TypedInit DEF KeepInv, OnePerCell, Spares, Init
  <1>2. KeepInv /\ [Next]_vars => KeepInv'
    BY KeepNext
  <1>3. KeepInv /\ [Next]_vars => [KeptInStep]_vars
    BY StepKeeps
  <1>4. Spec => [][KeptInStep]_vars
    BY <1>1, <1>2, <1>3, PTL DEF Spec
  <1> QED
    BY <1>4, Zenon DEF SourcesKept, KeptInStep

-----------------------------------------------------------------------------
(* A tick at p wants something because of p and its six neighbours.        *)

Alike(V, W, p) == \A q \in Around(p) : block_at(V, q) = block_at(W, q)

LEMMA AroundIs ==
  ASSUME NEW p
  PROVE  /\ p \in Around(p) /\ above(p) \in Around(p) /\ below(p) \in Around(p)
         /\ Beside(p) \subseteq Around(p)
         /\ fluid_neighbours(p) \subseteq Around(p)
  BY DEF Around, fluid_neighbours

LEMMA ReactionsLocal ==
  ASSUME NEW V, NEW W, NEW p, Alike(V, W, p), V[p] = W[p]
  PROVE  /\ would_react(V, p) <=> would_react(W, p)
         /\ Reactions(V, p) = Reactions(W, p)
  <1>1. \A n \in Around(p) : block_at(V, n).kind = block_at(W, n).kind
    BY DEF Alike
  <1>2. lava_harden_check(V, p) <=> lava_harden_check(W, p)
    BY <1>1, AroundIs DEF lava_harden_check
  <1>3. would_react(V, p) <=> would_react(W, p)
    BY <1>1, <1>2, AroundIs DEF would_react
  <1> QED
    BY <1>2, <1>3, Zenon DEF Reactions

LEMMA RelevelsLocal ==
  ASSUME NEW V, NEW W, NEW p, Alike(V, W, p), V[p] = W[p], NEW alg
  PROVE  Relevels(alg, V, p) = Relevels(alg, W, p)
  <1> DEFINE k == V[p].kind
             same(U) == {m \in Beside(p) : block_at(U, m).kind = k}
             given(U) == {block_at(U, n).level + Rules(k).level_step : n \in same(U)}
  <1>1. \A n \in Around(p) : block_at(V, n) = block_at(W, n)
    BY DEF Alike
  <1>2. Feeds(V, p, k) = Feeds(W, p, k)
    <2>1. same(V) = same(W) /\ \A n \in same(V) : block_at(V, n).level = block_at(W, n).level
      BY <1>1, AroundIs
    <2>2. given(V) = given(W)
      <3> HIDE DEF same
      <3> QED
        BY <2>1
    <2>3. \A U : Feeds(U, p, k) = IF block_at(U, above(p)).kind = k THEN {FallingLevel(k)}
                                  ELSE given(U) \cap 0..Rules(k).max_spread_level
      BY DEF Feeds
    <2>4. block_at(V, above(p)) = block_at(W, above(p))
      BY <1>1, AroundIs
    <2> HIDE DEF given, k
    <2> QED
      BY <2>2, <2>3, <2>4, Zenon
  <1>3. forms_source(V, p, k) <=> forms_source(W, p, k)
    <2>1. \A m \in Beside(p) : block_at(V, m) = block_at(W, m)
      BY <1>1, AroundIs
    <2>2. block_at(V, below(p)) = block_at(W, below(p))
      BY <1>1, AroundIs
    <2>3. (\E m, n \in Beside(p) : m # n /\ {block_at(V, m), block_at(V, n)} = {fluid_block(k, 0)})
            <=> (\E m, n \in Beside(p) : m # n /\ {block_at(W, m), block_at(W, n)} = {fluid_block(k, 0)})
      <3> HIDE DEF k
      <3> QED
        BY <2>1
    <2> HIDE DEF k
    <2> QED
      BY <2>2, <2>3, Zenon DEF forms_source
  <1>4. Entitled(alg, V, p, k) = Entitled(alg, W, p, k)
    <2> HIDE DEF k
    <2> QED
      BY <1>2, <1>3, Zenon DEF Entitled
  <1>5. \A U : U[p] = V[p] => Relevels(alg, U, p) =
           IF is_source(V[p]) THEN {}
           ELSE IF Entitled(alg, U, p, k) = {} THEN {flow(p, Air, FALSE)}
           ELSE {flow(q, fluid_block(k, Min(Entitled(alg, U, p, k))), TRUE) :
                    q \in {r \in {p} : Min(Entitled(alg, U, p, k)) # V[p].level}}
    BY Zenon DEF Relevels
  <1> HIDE DEF k
  <1> QED
    BY <1>4, <1>5, Zenon

LEMMA ImproveLocal ==
  ASSUME NEW V, NEW W, NEW p, Alike(V, W, p), NEW k, NEW l, NEW S, S \subseteq Around(p)
  PROVE  Improve(V, k, S, l) = Improve(W, k, S, l)
  <1>1. \A m \in S : can_spread_into(V, k, m, l) <=> can_spread_into(W, k, m, l)
    BY DEF Alike, can_spread_into
  <1>2. {m \in S : can_spread_into(V, k, m, l)} = {m \in S : can_spread_into(W, k, m, l)}
    BY <1>1
  <1> QED
    BY <1>2, Zenon DEF Improve

LEMMA MovesLocal ==
  ASSUME NEW V, NEW W, NEW p \in Points, Alike(V, W, p), V[p] = W[p], NEW alg
  PROVE  \/ Moves(alg, V, p) = Moves(alg, W, p)
         \/ /\ alg = "vanilla"
            /\ \A c \in Moves(alg, V, p) \cup Moves(alg, W, p) : c.pos \notin {p, below(p)}
  <1> DEFINE k == V[p].kind
             next == V[p].level + Rules(k).level_step
             down(U) == can_flow_down_into(U, k, p)
             level == FallingLevel(k)
             far == next > Rules(k).max_spread_level
  <1>1. down(V) <=> down(W)
    BY AroundIs DEF can_flow_down_into, Alike
  <1>2. \A U : U[p] = V[p] => Moves(alg, U, p) =
           IF down(U) THEN Improve(U, k, {below(p)}, level)
           ELSE IF far THEN {}
           ELSE Improve(U, k, Directions(alg, U, p, k), next)
    BY Zenon DEF Moves
  <1> HIDE DEF down, next, far, level, k
  <1>3. CASE down(V)
    <2>1. Improve(V, k, {below(p)}, level) = Improve(W, k, {below(p)}, level)
      BY ImproveLocal, AroundIs
    <2> QED
      BY <1>1, <1>2, <1>3, <2>1
  <1>4. CASE ~down(V) /\ far
    BY <1>1, <1>2, <1>4
  <1>5. CASE ~down(V) /\ ~far /\ alg = "vanilla"
    <2>1. ASSUME NEW U, NEW c \in Improve(U, k, Directions(alg, U, p, k), next)
          PROVE  c.pos \in Beside(p)
      <3>1. PICK n \in Directions(alg, U, p, k) : c = flow(n, fluid_block(k, next), TRUE)
        BY <2>1, Zenon DEF Improve
      <3> QED
        BY <3>1, DirectionsAre DEF flow, Change
    <2>2. p \notin Beside(p) /\ below(p) \notin Beside(p)
      BY DEF Points, Beside, below, Offset
    <2>3. Moves(alg, V, p) = Improve(V, k, Directions(alg, V, p, k), next)
          /\ Moves(alg, W, p) = Improve(W, k, Directions(alg, W, p, k), next)
      BY <1>1, <1>2, <1>5
    <2> QED
      BY <1>5, <2>1, <2>2, <2>3
  <1>6. CASE ~down(V) /\ ~far /\ alg # "vanilla"
    <2>1. \A U : Directions(alg, U, p, k) = {n \in Beside(p) : is_replaceable_by(k, block_at(U, n))}
      BY <1>6, Zenon DEF Directions
    <2>2. \A n \in Beside(p) : block_at(V, n) = block_at(W, n)
      BY AroundIs DEF Alike
    <2>3. Directions(alg, V, p, k) = Directions(alg, W, p, k)
      BY <2>1, <2>2
    <2>4. Directions(alg, V, p, k) \subseteq Around(p)
      BY DirectionsAre, AroundIs
    <2>5. Improve(V, k, Directions(alg, V, p, k), next) = Improve(W, k, Directions(alg, W, p, k), next)
      BY <2>3, <2>4, ImproveLocal
    <2> QED
      BY <1>1, <1>2, <1>6, <2>5
  <1> QED
    BY <1>3, <1>4, <1>5, <1>6

LEMMA WantsLocal ==
  ASSUME NEW V, NEW W, NEW p \in Points, Alike(V, W, p), NEW alg
  PROVE  WantsIn(alg, V, p) = WantsIn(alg, W, p)
  <1>1. block_at(V, p) = block_at(W, p)
    BY AroundIs DEF Alike
  <1>2. CASE ~is_fluid(block_at(V, p))
    BY <1>1, <1>2 DEF WantsIn, compute_tick
  <1>3. CASE is_fluid(block_at(V, p))
    <2>1. ~is_solid_obstacle(block_at(V, p))
      BY <1>3 DEF is_fluid, is_solid_obstacle, Fluids, Rocks
    <2>2. V[p] = W[p]
      BY <1>1, <2>1, Seen
    <2>3. would_react(V, p) <=> would_react(W, p)
      BY <2>2, ReactionsLocal
    <2>4. Reactions(V, p) = Reactions(W, p) /\ Relevels(alg, V, p) = Relevels(alg, W, p)
      BY <2>2, ReactionsLocal, RelevelsLocal
    <2>5. CASE would_react(V, p) \/ Relevels(alg, V, p) # {}
      <3>1. compute_tick(alg, V, p) = compute_tick(alg, W, p)
        BY <1>1, <1>3, <2>3, <2>4, <2>5, Zenon DEF compute_tick
      <3> QED
        BY <3>1, Zenon DEF WantsIn
    <2>6. CASE ~would_react(V, p) /\ Relevels(alg, V, p) = {}
      <3>1. compute_tick(alg, V, p) = Moves(alg, V, p) /\ compute_tick(alg, W, p) = Moves(alg, W, p)
        BY <1>1, <1>3, <2>3, <2>4, <2>6, Zenon DEF compute_tick
      <3>2. CASE Moves(alg, V, p) = Moves(alg, W, p)
        BY <3>1, <3>2, Zenon DEF WantsIn
      <3>3. CASE /\ alg = "vanilla"
                 /\ \A c \in Moves(alg, V, p) \cup Moves(alg, W, p) : c.pos \notin {p, below(p)}
        BY <3>1, <3>3 DEF WantsIn
      <3> QED
        BY <2>2, <3>2, <3>3, MovesLocal
    <2> QED
      BY <2>5, <2>6
  <1> QED
    BY <1>2, <1>3

-----------------------------------------------------------------------------
(* What can be seen from p when the chunks K are cached: all of them, or    *)
(* when p's is not, p's.                                                   *)

Sees(K, p) == IF chunk(p) \in K THEN K ELSE {chunk(p)}

NeedsIn(alg, b, K, p) == WantsIn(alg, Visible(b, Sees(K, p)), p) # {}
Needs(p) == NeedsIn(algorithm, block, cached, p)

SeamOf(K, c) == {p \in Cells : \E q \in Cells \cap fluid_neighbours(p) :
                    /\ chunk(p) # chunk(q) /\ c \in {chunk(p), chunk(q)}
                    /\ {chunk(p), chunk(q)} \subseteq K \cup {c}}

LEMMA SeamIs == \A c : Seam(c) = SeamOf(cached, c)
  BY Zenon DEF Seam, SeamOf

LEMMA AroundCells ==
  ASSUME NEW p \in Cells
  PROVE  /\ p \in Points /\ p \in Around(p)
         /\ \A q \in Cells : q \in Around(p) <=> q = p \/ q \in fluid_neighbours(p)
         /\ \A q \in Cells : q \in fluid_neighbours(p) <=> p \in fluid_neighbours(q)
         /\ p \notin fluid_neighbours(p)
         /\ \A q \in Cells : q \in Around(p) <=> p \in Around(q)
  <1>1. p \in Points /\ \A q \in Cells : q \in Points
    BY CellsAre
  <1>2. \A q \in Cells : q \in fluid_neighbours(p) <=> p \in fluid_neighbours(q)
    BY <1>1, Geometry
  <1> QED
    BY <1>1, <1>2, Geometry DEF Around

(* What is needed at p depends on what is seen around it.                  *)
LEMMA NeedsLocal ==
  ASSUME NEW a \in [Cells -> Block], NEW b \in [Cells -> Block], NEW J, NEW K, NEW p \in Cells, NEW alg,
         \A q \in Cells : q \in fluid_neighbours(p) => (chunk(q) \in Sees(J, p) <=> chunk(q) \in Sees(K, p)),
         \A q \in Cells : q \in Around(p) /\ chunk(q) \in Sees(J, p) => a[q] = b[q]
  PROVE  NeedsIn(alg, a, J, p) <=> NeedsIn(alg, b, K, p)
  <1> DEFINE V == Visible(a, Sees(J, p))
             W == Visible(b, Sees(K, p))
  <1>1. chunk(p) \in Sees(J, p) /\ chunk(p) \in Sees(K, p)
    BY DEF Sees
  <1>2. \A q \in Cells : q \in Around(p) => (chunk(q) \in Sees(J, p) <=> chunk(q) \in Sees(K, p))
    BY <1>1, AroundCells
  <1>3. /\ DOMAIN V = {q \in Cells : chunk(q) \in Sees(J, p)} /\ \A q \in DOMAIN V : V[q] = a[q]
        /\ DOMAIN W = {q \in Cells : chunk(q) \in Sees(K, p)} /\ \A q \in DOMAIN W : W[q] = b[q]
    BY Views
  <1> HIDE DEF V, W
  <1>4. Alike(V, W, p)
    <2> SUFFICES ASSUME NEW q \in Around(p) PROVE block_at(V, q) = block_at(W, q)
      BY DEF Alike
    <2>1. CASE q \in Cells /\ chunk(q) \in Sees(J, p)
      BY <1>2, <1>3, <2>1 DEF block_at
    <2>2. CASE ~(q \in Cells /\ chunk(q) \in Sees(J, p))
      <3>1. q \notin DOMAIN V /\ q \notin DOMAIN W
        BY <1>2, <1>3, <2>2
      <3> QED
        BY <3>1 DEF block_at
    <2> QED
      BY <2>1, <2>2
  <1>5. WantsIn(alg, V, p) = WantsIn(alg, W, p)
    BY <1>4, AroundCells, WantsLocal
  <1> QED
    BY <1>5 DEF NeedsIn, V, W

(* Away from its seam nothing changes when a chunk is loaded or unloaded.  *)
LEMMA SightKept ==
  ASSUME NEW J, NEW K, NEW c, K = J \cup {c} \/ K = J \ {c},
         NEW p \in Cells, p \notin SeamOf(J, c) \/ K = J,
         NEW q \in Cells, q \in fluid_neighbours(p)
  PROVE  chunk(q) \in Sees(J, p) <=> chunk(q) \in Sees(K, p)
  <1>1. CASE chunk(q) = chunk(p)
    BY <1>1 DEF Sees
  <1>2. CASE chunk(q) # chunk(p)
    <2>1. \A L : chunk(q) \in Sees(L, p) <=> chunk(p) \in L /\ chunk(q) \in L
      BY <1>2 DEF Sees
    <2>2. p \notin SeamOf(J, c) => ~(c \in {chunk(p), chunk(q)} /\ {chunk(p), chunk(q)} \subseteq J \cup {c})
      BY <1>2 DEF SeamOf
    <2> QED
      BY <2>1, <2>2
  <1> QED
    BY <1>1, <1>2

(* What is needed is done by a fluid that is seen.                         *)
LEMMA NeedsFluid ==
  ASSUME NEW b \in [Cells -> Block], NEW K, NEW p \in Cells, NEW alg, NeedsIn(alg, b, K, p)
  PROVE  /\ is_fluid(b[p])
         /\ \E c \in compute_tick(alg, Visible(b, Sees(K, p)), p) :
               alg = "simplified" \/ c.pos \in {p, below(p)}
  <1> DEFINE V == Visible(b, Sees(K, p))
  <1>1. PICK c \in compute_tick(alg, V, p) : alg = "simplified" \/ c.pos \in {p, below(p)}
    BY DEF NeedsIn, WantsIn
  <1>2. Shows(V) /\ \A q \in DOMAIN V : V[q] = b[q]
    BY Views
  <1> HIDE DEF V
  <1>3. p \in DOMAIN V /\ is_fluid(V[p])
    BY <1>2, TickChanges DEF Effect, Shows
  <1> QED
    BY <1>1, <1>2, <1>3 DEF V

-----------------------------------------------------------------------------
(* No fluid hangs.                                                         *)

RefusedIn(b, K, c) ==
    \/ chunk(c.pos) \notin K
    \/ b[c.pos] = c.new_block
    \/ is_fluid(c.new_block) /\ is_solid_obstacle(b[c.pos])

Woken(p) ==
    \/ \E t \in pending : t.pos = p
    \/ p \in due
    \/ chunk(p) \in cached /\ \E c \in changes : c.pos \in Around(p) /\ ~RefusedIn(block, cached, c)
    \/ broken \cap fluid_neighbours(p) # {}

Queued(p) == settling.chunk = chunk(p) /\ Lists(settling.queue, p)

(* Generated, and still to be settled for the first time.                  *)
Opens(b, p) == borders_open(Visible(b, {chunk(p)}), p)
FreshIn(st, b, p) == st[chunk(p)] = "new" /\ is_source(b[p]) /\ Opens(b, p)
Fresh(p) == FreshIn(status, block, p)

(* Wherever a tick would change something somebody looks in the end.       *)
Attended == \A p \in Cells \ stale : Needs(p) => Woken(p) \/ Queued(p) \/ Fresh(p)

(* A chunk that is settled is cached, and its seams are stale.             *)
Walled == settling.queue # <<>> =>
    settling.chunk \in cached /\ SeamOf(cached, settling.chunk) \subseteq stale

(* So is a chunk with a cell that was overtaken.                           *)
Passed == \A p \in overtaken : /\ \E c \in changes : c.pos = p
                               /\ chunk(p) \in cached /\ SeamOf(cached, chunk(p)) \subseteq stale

(* While ticks are evaluated, cells that were overtaken need nothing but    *)
(* what the pool thread will still do ...                                  *)
Calm == due # {} => \A p \in overtaken \ stale : Needs(p) => Queued(p)

(* ... and the other changes still change something.                       *)
Effective == due # {} => \A c \in changes : c.pos \in overtaken \/ block[c.pos] # c.new_block

HangInv == KeepInv /\ Attended /\ Walled /\ Passed /\ Calm /\ Effective

LEMMA RefusedIs ==
  ASSUME Typed, NEW c, c.pos \in Cells
  PROVE  Refused(c) <=> RefusedIn(block, cached, c)
  <1> DEFINE V == Visible(block, cached)
  <1>1. /\ DOMAIN V = {q \in Cells : chunk(q) \in cached}
        /\ \A q \in DOMAIN V : V[q] = block[q]
    BY Views DEF Typed, TypeOK
  <1> HIDE DEF V
  <1>2. chunk(c.pos) \in cached => block_at(V, c.pos) = block[c.pos]
    BY <1>1 DEF block_at
  <1> QED
    BY <1>2 DEF Refused, RefusedIn, View, V

LEMMA NothingListed == \A p : ~Lists(<<>>, p)
  BY DEF Lists

(* A fluid in a cached chunk is woken when its cell is seeded.             *)
LEMMA SeedsWake ==
  ASSUME NEW b \in [Cells -> Block], NEW K, NEW p \in Cells, NEW S, p \in S,
         chunk(p) \in K, is_fluid(b[p])
  PROVE  \E t \in Seeds(Visible(b, K), S) : t.pos = p
  <1>1. p \in DOMAIN Visible(b, K) /\ Visible(b, K)[p] = b[p] /\ Shows(Visible(b, K))
    BY Views
  <1>2. is_fluid(block_at(Visible(b, K), p))
    BY <1>1 DEF block_at
  <1> QED
    BY <1>1, <1>2, SeedsAre

LEMMA FreshLocal ==
  ASSUME NEW a \in [Cells -> Block], NEW b \in [Cells -> Block], NEW st, NEW p \in Cells,
         \A q \in Cells : q \in Around(p) /\ chunk(q) = chunk(p) => a[q] = b[q],
         FreshIn(st, a, p)
  PROVE  FreshIn(st, b, p)
  <1> DEFINE V == Visible(a, {chunk(p)})
             W == Visible(b, {chunk(p)})
  <1>1. /\ DOMAIN V = {q \in Cells : chunk(q) \in {chunk(p)}} /\ \A q \in DOMAIN V : V[q] = a[q]
        /\ DOMAIN W = {q \in Cells : chunk(q) \in {chunk(p)}} /\ \A q \in DOMAIN W : W[q] = b[q]
    BY Views
  <1>2. a[p] = b[p]
    BY AroundCells
  <1> HIDE DEF V, W
  <1>3. \A q \in Around(p) : block_at(V, q) = block_at(W, q)
    BY <1>1 DEF block_at
  <1>4. borders_open(V, p) <=> borders_open(W, p)
    BY <1>3, AroundIs DEF borders_open
  <1> QED
    BY <1>2, <1>4 DEF FreshIn, Opens, V, W

LEMMA FreshInFrontier ==
  ASSUME Typed, NEW p \in Cells, FreshIn(status, block, p)
  PROVE  p \in Frontier(chunk(p))
  BY DEF FreshIn, Opens, Frontier, CellsOf, is_source

(* With no change waiting, who attends to a fluid.                         *)
LEMMA AttendedAlone ==
  ASSUME HangInv, Between, NEW p \in Cells \ stale, Needs(p)
  PROVE  (\E t \in pending : t.pos = p) \/ broken \cap fluid_neighbours(p) # {} \/ Fresh(p)
  BY NothingListed DEF HangInv, Attended, Woken, Queued, Between

LEMMA AloneKeeps ==
  ASSUME HangInv, Alone
  PROVE  (Walled /\ Passed /\ Calm /\ Effective)'
  <1>1. overtaken = {} /\ overtaken' = {} /\ changes' = {} /\ settling'.queue = <<>>
    BY DEF HangInv, Passed, Alone, Between
  <1> QED
    BY <1>1 DEF Walled, Passed, Calm, Effective

(* Where no block and no view changes, who attended still does.            *)
LEMMA NeedsCached ==
  ASSUME Typed, NEW J, NEW K, NEW c, K = J \cup {c} \/ K = J \ {c},
         NEW p \in Cells, p \notin SeamOf(J, c) \/ K = J,
         NEW alg, NeedsIn(alg, block, K, p)
  PROVE  NeedsIn(alg, block, J, p)
  <1>1. \A q \in Cells : q \in fluid_neighbours(p) => (chunk(q) \in Sees(J, p) <=> chunk(q) \in Sees(K, p))
    BY SightKept
  <1>2. block \in [Cells -> Block]
    BY DEF Typed, TypeOK
  <1> QED
    BY <1>1, <1>2, NeedsLocal

LEMMA SeedBreakAttends ==
  ASSUME HangInv, NEW p0 \in Cells, SeedBreak(p0)
  PROVE  Attended'
  <1> SUFFICES ASSUME NEW p \in Cells, p \notin stale', Needs(p)' PROVE Woken(p)' \/ Fresh(p)'
    BY DEF Attended
  <1>1. Typed /\ Between /\ block' = block /\ cached' = cached /\ status' = status /\ algorithm' = algorithm
        /\ pending' = pending \cup Seeds(View, {p0} \cup fluid_neighbours(p0))
        /\ broken' = broken \ {p0} /\ block \in [Cells -> Block]
        /\ stale' = stale \cup {q \in Cells \cap fluid_neighbours(p0) : chunk(q) \notin cached}
    BY DEF HangInv, KeepInv, Typed, TypeOK, SeedBreak, world
  <1>2. Needs(p) /\ p \notin stale /\ is_fluid(block[p])
    BY <1>1, NeedsFluid DEF Needs
  <1>3. CASE Fresh(p)
    BY <1>1, <1>3 DEF Fresh
  <1>4. CASE \E t \in pending : t.pos = p
    BY <1>1, <1>4 DEF Woken
  <1>5. CASE broken \cap fluid_neighbours(p) # {}
    <2>1. CASE p0 \in fluid_neighbours(p)
      <3>1. p \in fluid_neighbours(p0) /\ chunk(p) \in cached
        BY <1>1, <2>1, AroundCells
      <3>2. \E t \in Seeds(View, {p0} \cup fluid_neighbours(p0)) : t.pos = p
        BY <1>1, <1>2, <3>1, SeedsWake DEF View
      <3> QED
        BY <1>1, <3>2 DEF Woken
    <2>2. CASE p0 \notin fluid_neighbours(p)
      BY <1>1, <1>5, <2>2 DEF Woken
    <2> QED
      BY <2>1, <2>2
  <1> QED
    BY <1>1, <1>2, <1>3, <1>4, <1>5, AttendedAlone

(* What an edit at p0 does to a cell that does not see it.                 *)
LEMMA EditElsewhere ==
  ASSUME HangInv, NEW p0 \in Cells, NEW b \in Block, Edit(p0, b),
         NEW p \in Cells, p \notin LoadedBy(p0),
         p0 \notin Around(p) \/ chunk(p) \notin cached',
         Needs(p)'
  PROVE  Needs(p) /\ (Fresh(p) => Fresh(p)')
  <1>1. Typed /\ block \in [Cells -> Block] /\ block' \in [Cells -> Block] /\ algorithm' = algorithm
        /\ block' = [block EXCEPT ![p0] = b] /\ cached' = cached \cup {chunk(p0)} /\ status' = status
    BY DEF HangInv, KeepInv, Typed, TypeOK, Edit
  <1>2. \A q \in Cells : q # p0 => block[q] = block'[q]
    BY <1>1
  <1>3. p \notin SeamOf(cached, chunk(p0)) \/ cached' = cached
    BY <1>1, SeamIs DEF LoadedBy
  <1>4. \A q \in Cells : q \in fluid_neighbours(p)
                         => (chunk(q) \in Sees(cached, p) <=> chunk(q) \in Sees(cached', p))
    BY <1>1, <1>3, SightKept
  <1>5. \A q \in Cells : q \in Around(p) /\ chunk(q) \in Sees(cached, p) => block[q] = block'[q]
    <2>1. CASE p0 \notin Around(p)
      BY <1>2, <2>1
    <2>2. CASE chunk(p) \notin cached'
      BY <1>1, <1>2, <2>2 DEF Sees
    <2> QED
      BY <2>1, <2>2
  <1>6. Needs(p)
    BY <1>1, <1>4, <1>5, NeedsLocal DEF Needs
  <1>7. \A q \in Cells : q \in Around(p) /\ chunk(q) = chunk(p) => block[q] = block'[q]
    <2>1. chunk(p) \in Sees(cached, p)
      BY DEF Sees
    <2> QED
      BY <1>5, <2>1
  <1>8. Fresh(p) => Fresh(p)'
    BY <1>1, <1>7, FreshLocal DEF Fresh
  <1> QED
    BY <1>6, <1>8

LEMMA PlayersAttend ==
  ASSUME HangInv, Players
  PROVE  Attended'
  <1>1. PICK p0 \in Cells : Break(p0) \/ \E b \in Placeable : Place(p0, b)
    BY DEF Players
  <1>2. PICK b \in Block : Edit(p0, b) /\ ((Break(p0) /\ b = Air) \/ Place(p0, b))
    BY <1>1, Made, FluidAssumption DEF Break, Place
  <1>3. Between /\ block' \in [Cells -> Block] /\ pending \subseteq pending' /\ broken \subseteq broken'
        /\ stale \cup LoadedBy(p0) \subseteq stale'
        /\ block' = [block EXCEPT ![p0] = b] /\ block \in [Cells -> Block]
    BY <1>2 DEF HangInv, KeepInv, Typed, TypeOK, Edit, Break, Place
  <1> SUFFICES ASSUME NEW p \in Cells, p \notin stale', Needs(p)' PROVE Woken(p)' \/ Fresh(p)'
    BY DEF Attended
  <1>4. p \notin stale /\ p \notin LoadedBy(p0) /\ is_fluid(block'[p])
    BY <1>3, NeedsFluid DEF Needs
  <1>5. CASE p0 \notin Around(p) \/ chunk(p) \notin cached'
    <2>1. Needs(p) /\ (Fresh(p) => Fresh(p)')
      BY <1>2, <1>4, <1>5, EditElsewhere
    <2>2. (\E t \in pending : t.pos = p) \/ broken \cap fluid_neighbours(p) # {} \/ Fresh(p)
      BY <1>3, <1>4, <2>1, AttendedAlone
    <2> QED
      BY <1>3, <2>1, <2>2 DEF Woken
  <1>6. CASE p0 \in Around(p) /\ chunk(p) \in cached'
    <2>1. p \in {p0} \cup fluid_neighbours(p0)
      BY <1>6, AroundCells
    <2>2. CASE Break(p0) /\ b = Air
      <3>1. p # p0
        BY <1>3, <1>4, <2>2, Made
      <3>2. p0 \in fluid_neighbours(p) /\ p0 \in broken'
        BY <1>6, <2>2, <3>1, AroundCells DEF Break
      <3> QED
        BY <3>2 DEF Woken
    <2>3. CASE Place(p0, b)
      <3>1. pending' = pending \cup Seeds(Visible(block', cached'), {p0} \cup fluid_neighbours(p0))
            \/ ({p0} \cup fluid_neighbours(p0)) \cap Cells \subseteq stale'
        BY <2>3 DEF Place
      <3>2. \E t \in Seeds(Visible(block', cached'), {p0} \cup fluid_neighbours(p0)) : t.pos = p
        <4> DEFINE S == {p0} \cup fluid_neighbours(p0)
        <4>1. p \in S
          BY <2>1
        <4> HIDE DEF S
        <4>2. \E t \in Seeds(Visible(block', cached'), S) : t.pos = p
          <5>1. block' \in [Cells -> Block] /\ chunk(p) \in cached' /\ is_fluid(block'[p])
            BY <1>3, <1>4, <1>6
          <5> QED
            BY <4>1, <5>1, SeedsWake
        <4> QED
          BY <4>2 DEF S
      <3> QED
        BY <2>1, <3>1, <3>2 DEF Woken
    <2> QED
      BY <1>2, <2>2, <2>3
  <1> QED
    BY <1>5, <1>6

LEMMA ChunksAttend ==
  ASSUME HangInv, NEW c \in Chunks, SettleLoaded(c) \/ Unload(c)
  PROVE  Attended'
  <1> SUFFICES ASSUME NEW p \in Cells, p \notin stale', Needs(p)' PROVE Woken(p)' \/ Fresh(p)'
    BY DEF Attended
  <1>1. Typed /\ Between /\ block' = block /\ algorithm' = algorithm /\ pending \subseteq pending'
        /\ broken' = broken /\ stale \subseteq stale'
    BY DEF HangInv, KeepInv, SettleLoaded, Unload, world
  <1>2. cached' = cached \cup {c} \/ cached' = cached \ {c}
    BY DEF SettleLoaded, Unload
  <1>3. p \notin SeamOf(cached, c) \/ cached' = cached
    BY SeamIs DEF SettleLoaded, Unload
  <1>4. NeedsIn(algorithm, block, cached', p)
    BY <1>1 DEF Needs
  <1>5. Needs(p) /\ p \notin stale
    BY <1>1, <1>2, <1>3, <1>4, NeedsCached DEF Needs
  <1>6. status'[chunk(p)] = status[chunk(p)] \/ status[chunk(p)] # "new"
    BY CellsAre DEF SettleLoaded, Unload, HangInv, KeepInv, Typed, TypeOK
  <1>7. Fresh(p) => Fresh(p)'
    BY <1>1, <1>6 DEF Fresh, FreshIn
  <1> QED
    BY <1>1, <1>5, <1>7, AttendedAlone DEF Woken

LEMMA ClockAttends ==
  ASSUME HangInv, Advance \/ Drain
  PROVE  Attended'
  <1> SUFFICES ASSUME NEW p \in Cells, p \notin stale', Needs(p)' PROVE Woken(p)' \/ Fresh(p)'
    BY DEF Attended
  <1>1. Between /\ block' = block /\ algorithm' = algorithm /\ cached' = cached /\ status' = status
        /\ broken' = broken
    BY DEF Advance, Drain, world
  <1>2. Needs(p) /\ (Fresh(p) => Fresh(p)')
    BY <1>1 DEF Needs, Fresh
  <1>3. CASE p \in due'
    BY <1>3 DEF Woken
  <1>4. CASE p \notin due'
    <2>1. p \notin stale
      BY <1>4 DEF Advance, Drain, ghosts
    <2>2. (\E t \in pending : t.pos = p) => \E t \in pending' : t.pos = p
      <3>1. ASSUME Advance, NEW t \in pending, t.pos = p PROVE \E u \in pending' : u.pos = p
        <4>1. t \in [pos : Cells, wait : Nat]
          BY DEF HangInv, KeepInv, Typed, TypeOK
        <4> DEFINE u == [t EXCEPT !.wait = IF @ = 0 THEN 0 ELSE @ - 1]
        <4>2. u \in pending'
          BY <3>1 DEF Advance
        <4>3. u.pos = p
          BY <3>1, <4>1
        <4> HIDE DEF u
        <4> QED
          BY <4>2, <4>3
      <3>2. ASSUME Drain, NEW t \in pending, t.pos = p PROVE t \in pending'
        BY <1>4, <3>2 DEF Drain
      <3> QED
        BY <3>1, <3>2
    <2> QED
      BY <1>1, <1>2, <2>1, <2>2, AttendedAlone DEF Woken
  <1> QED
    BY <1>3, <1>4

(* What has been left out of account.                                      *)
Watch == Attended /\ Walled /\ Passed /\ Calm /\ Effective

LEMMA SeamGrows ==
  ASSUME NEW K, NEW c, NEW x \in K
  PROVE  SeamOf(K \cup {c}, x) \subseteq SeamOf(K, x) \cup SeamOf(K, c)
  <1> SUFFICES ASSUME NEW p \in SeamOf(K \cup {c}, x) PROVE p \in SeamOf(K, x) \cup SeamOf(K, c)
    OBVIOUS
  <1>1. PICK q \in Cells \cap fluid_neighbours(p) :
           /\ chunk(p) # chunk(q) /\ x \in {chunk(p), chunk(q)}
           /\ {chunk(p), chunk(q)} \subseteq K \cup {c}
    BY DEF SeamOf
  <1>2. p \in Cells
    BY DEF SeamOf
  <1> QED
    BY <1>1, <1>2 DEF SeamOf

LEMMA StreamWatches ==
  ASSUME HangInv, NEW c \in Chunks, Stream(c)
  PROVE  Watch'
  <1>1. Typed /\ Typed' /\ block' = block /\ algorithm' = algorithm /\ pending' = pending /\ due' = due
        /\ changes' = changes /\ broken' = broken /\ overtaken' = overtaken /\ stale \subseteq stale'
        /\ cached' = cached \cup {c} /\ settling.queue = <<>>
    BY TypedChunks DEF HangInv, KeepInv, Stream, world
  <1>2. ASSUME NEW p \in Cells, p \notin stale', Needs(p)' PROVE Needs(p) /\ p \notin stale
    <2>1. p \notin SeamOf(cached, c) \/ cached' = cached
      BY <1>1, <1>2, SeamIs DEF Stream
    <2>2. NeedsIn(algorithm, block, cached', p)
      BY <1>1, <1>2 DEF Needs
    <2> QED
      BY <1>1, <1>2, <2>1, <2>2, NeedsCached DEF Needs
  <1>3. \A p : ~Queued(p)
    BY <1>1, NothingListed DEF Queued
  <1>4. Attended'
    <2> SUFFICES ASSUME NEW p \in Cells, p \notin stale', Needs(p)'
                 PROVE  Woken(p)' \/ Queued(p)' \/ Fresh(p)'
      BY DEF Attended
    <2>1. Woken(p) \/ Fresh(p)
      BY <1>2, <1>3 DEF HangInv, Attended
    <2>2. Woken(p) => Woken(p)'
      BY <1>1 DEF Woken, RefusedIn
    <2>3. CASE Fresh(p) /\ chunk(p) = c
      <3> DEFINE F == Frontier(c)
      <3>1. p \in F /\ F \in SUBSET Points /\ IsFiniteSet(F)
        BY <1>1, <2>3, FreshInFrontier, FrontierIn DEF Fresh
      <3>2. F # {}
        BY <3>1
      <3>3. settling' = [chunk |-> c, queue |-> Scanned(F), applied |-> 0]
        BY <3>2, Zenon DEF Stream
      <3> HIDE DEF F
      <3>4. Lists(Scanned(F), p)
        BY <3>1, ScannedLists DEF Lists
      <3>5. settling'.chunk = c /\ settling'.queue = Scanned(F)
        BY <3>3
      <3> QED
        BY <2>3, <3>4, <3>5 DEF Queued
    <2>4. CASE Fresh(p) /\ chunk(p) # c
      <3>1. status'[chunk(p)] = status[chunk(p)]
        BY <1>1, <2>4, CellsAre DEF Stream, Typed, TypeOK
      <3> QED
        BY <1>1, <2>4, <3>1 DEF Fresh, FreshIn
    <2> QED
      BY <2>1, <2>2, <2>3, <2>4
  <1>5. Walled'
    <2>1. CASE Frontier(c) = {}
      <3>1. settling'.queue = <<>>
        BY <2>1 DEF Stream, Idle
      <3> QED
        BY <3>1 DEF Walled
    <2>2. CASE Frontier(c) # {}
      <3>1. settling'.chunk = c /\ Seam(c) \subseteq stale' /\ c \in cached'
        BY <1>1, <2>2 DEF Stream
      <3>2. SeamOf(cached', c) = SeamOf(cached, c)
        <4>1. cached \cup {c} \cup {c} = cached \cup {c}
          OBVIOUS
        <4> QED
          BY <1>1, <4>1, Zenon DEF SeamOf
      <3> QED
        BY <3>1, <3>2, SeamIs DEF Walled
    <2> QED
      BY <2>1, <2>2
  <1>6. Passed'
    <2> SUFFICES ASSUME NEW p \in overtaken
                 PROVE  chunk(p) \in cached' /\ SeamOf(cached', chunk(p)) \subseteq stale'
      BY <1>1 DEF HangInv, Passed
    <2>1. chunk(p) \in cached /\ SeamOf(cached, chunk(p)) \subseteq stale
      BY DEF HangInv, Passed
    <2>2. CASE c \in cached
      <3>1. cached' = cached
        BY <1>1, <2>2
      <3> QED
        BY <1>1, <2>1, <3>1
    <2>3. CASE c \notin cached
      <3>1. SeamOf(cached, c) \subseteq stale'
        BY <2>3, SeamIs DEF Stream
      <3>2. SeamOf(cached', chunk(p)) \subseteq SeamOf(cached, chunk(p)) \cup SeamOf(cached, c)
        BY <1>1, <2>1, SeamGrows
      <3> QED
        BY <1>1, <2>1, <3>1, <3>2
    <2> QED
      BY <2>2, <2>3
  <1>7. Calm'
    <2> SUFFICES ASSUME due' # {}, NEW p \in overtaken, p \notin stale', Needs(p)' PROVE FALSE
      BY <1>1 DEF Calm
    <2>1. p \in Cells
      BY <1>1 DEF Typed, TypeOK
    <2> QED
      BY <1>1, <1>2, <1>3, <2>1 DEF HangInv, Calm
  <1>8. Effective'
    BY <1>1 DEF HangInv, Effective
  <1> QED
    BY <1>4, <1>5, <1>6, <1>7, <1>8 DEF Watch
LEMMA StopWatches ==
  ASSUME HangInv, SettleStop
  PROVE  Watch'
  <1>1. Typed /\ block' = block /\ algorithm' = algorithm /\ pending' = pending /\ due' = due
        /\ changes' = changes /\ broken' = broken /\ overtaken' = overtaken
        /\ cached' = cached /\ status' = status
        /\ settling'.queue = <<>> /\ stale' = stale \cup CellsOf(settling.chunk)
    BY DEF HangInv, KeepInv, SettleStop, world, Idle
  <1>2. \A p \in Cells : Queued(p) => p \in stale'
    BY <1>1 DEF Queued, CellsOf
  <1>3. \A p : /\ Needs(p)' <=> Needs(p)
               /\ Woken(p)' <=> Woken(p)
               /\ Fresh(p)' <=> Fresh(p)
    BY <1>1 DEF Needs, Woken, Fresh
  <1>4. Attended'
    BY <1>1, <1>2, <1>3 DEF HangInv, Attended
  <1>5. Walled' /\ Effective'
    BY <1>1 DEF HangInv, Walled, Effective
  <1>6. Passed'
    BY <1>1 DEF HangInv, Passed
  <1>7. Calm'
    <2>1. overtaken \subseteq Cells
      BY <1>1 DEF Typed, TypeOK
    <2> QED
      BY <1>1, <1>2, <1>3, <2>1 DEF HangInv, Calm
  <1> QED
    BY <1>4, <1>5, <1>6, <1>7 DEF Watch

(* A change that is made wakes what it touches.                            *)
LEMMA ApplyMakes ==
  ASSUME HangInv, NEW c \in changes, Apply(c), ~RefusedIn(block, cached, c),
         NEW p \in Cells, Needs(p)', p \notin stale
  PROVE  Woken(p)' \/ Fresh(p)'
  <1>1. Typed /\ Typed' /\ due = {} /\ changes' = changes \ {c} /\ settling.queue = <<>>
        /\ algorithm' = algorithm /\ cached' = cached /\ status' = status /\ broken' = broken
    BY TypedTick DEF HangInv, KeepInv, Apply, Tick
  <1>2. c.pos \in Cells /\ c.new_block \in Block /\ Sound(Cells, c)
        /\ block \in [Cells -> Block] /\ block' \in [Cells -> Block]
    BY <1>1 DEF Typed, TypeOK, SoundChanges
  <1>3. ~Refused(c) /\ chunk(c.pos) \in cached
    BY <1>1, <1>2, RefusedIs DEF RefusedIn
  <1>4. /\ block' = [block EXCEPT ![c.pos] = c.new_block]
        /\ pending' = pending \cup Seeds(Visible(block', cached'), fluid_neighbours(c.pos)) \cup
                    {[pos |-> d.pos, wait |-> RetickDelay(d.new_block)] :
                        d \in {e \in {c} : e.reschedule}}
    BY <1>3 DEF Apply
  <1>5. is_fluid(block'[p])
    BY <1>2, NeedsFluid DEF Needs
  <1>6. CASE p = c.pos
    <2>1. c.reschedule
      BY <1>2, <1>4, <1>5, <1>6 DEF Sound
    <2> DEFINE t == [pos |-> c.pos, wait |-> RetickDelay(c.new_block)]
    <2>2. t \in {[pos |-> d.pos, wait |-> RetickDelay(d.new_block)] : d \in {e \in {c} : e.reschedule}}
      BY <2>1
    <2>3. t.pos = p
      BY <1>6
    <2> HIDE DEF t
    <2> QED
      BY <1>4, <2>2, <2>3 DEF Woken
  <1>7. CASE p \in fluid_neighbours(c.pos) /\ chunk(p) \in cached
    <2> DEFINE S == fluid_neighbours(c.pos)
               N == Seeds(Visible(block', cached'), S)
    <2>1. p \in S /\ chunk(p) \in cached'
      BY <1>1, <1>7
    <2> HIDE DEF S
    <2>2. \E t \in N : t.pos = p
      BY <1>2, <1>5, <2>1, SeedsWake
    <2>3. N \subseteq pending'
      BY <1>4 DEF S
    <2> HIDE DEF N
    <2> QED
      BY <2>2, <2>3 DEF Woken
  <1>8. CASE p # c.pos /\ (p \notin fluid_neighbours(c.pos) \/ chunk(p) \notin cached)
    <2>1. c.pos \in Around(p) => chunk(p) \notin cached
      BY <1>2, <1>8, AroundCells
    <2>2. \A q \in Cells : q # c.pos => block'[q] = block[q]
      BY <1>2, <1>4
    <2>3. \A q \in Cells : q \in Around(p) /\ chunk(q) \in Sees(cached', p) => block'[q] = block[q]
      BY <1>1, <1>3, <2>1, <2>2 DEF Sees
    <2>4. Needs(p)
      BY <1>1, <1>2, <2>3, NeedsLocal DEF Needs
    <2>5. Fresh(p) => Fresh(p)'
      <3>1. \A q \in Cells : q \in Around(p) /\ chunk(q) = chunk(p) => block[q] = block'[q]
        BY <1>3, <2>1, <2>2
      <3> QED
        BY <1>1, <1>2, <3>1, FreshLocal DEF Fresh
    <2>6. ~Queued(p)
      BY <1>1, NothingListed DEF Queued
    <2>7. ASSUME NEW d \in changes, chunk(p) \in cached, d.pos \in Around(p), ~RefusedIn(block, cached, d)
          PROVE  d \in changes' /\ ~RefusedIn(block', cached', d)
      <3>1. d # c /\ d.pos # c.pos /\ d.pos \in Cells
        BY <1>1, <2>1, <2>7 DEF HangInv, KeepInv, OnePerCell, Typed, TypeOK
      <3> QED
        BY <1>1, <2>2, <2>7, <3>1 DEF RefusedIn
    <2>8. Woken(p) => Woken(p)'
      <3>1. pending \subseteq pending'
        BY <1>4
      <3> QED
        BY <1>1, <2>7, <3>1 DEF Woken
    <2> QED
      BY <2>4, <2>5, <2>6, <2>8 DEF HangInv, Attended
  <1> QED
    BY <1>6, <1>7, <1>8

LEMMA ApplyWatches ==
  ASSUME HangInv, NEW c \in changes, Apply(c)
  PROVE  Watch'
  <1>1. Typed /\ due' = {} /\ changes' = changes \ {c} /\ settling.queue = <<>> /\ settling' = settling
        /\ algorithm' = algorithm /\ cached' = cached /\ status' = status /\ broken' = broken
        /\ stale' = stale /\ overtaken' = overtaken \ {c.pos}
    BY DEF HangInv, KeepInv, Apply
  <1>2. Calm' /\ Effective' /\ Walled'
    BY <1>1 DEF Calm, Effective, Walled
  <1>3. Passed'
    BY <1>1 DEF HangInv, Passed
  <1>4. CASE RefusedIn(block, cached, c)
    <2>1. block' = block /\ pending' = pending
      <3>1. c.pos \in Cells
        BY <1>1 DEF Typed, TypeOK
      <3> QED
        BY <1>1, <1>4, <3>1, RefusedIs DEF Apply
    <2>2. \A p : Woken(p) => Woken(p)'
      BY <1>1, <1>4, <2>1 DEF Woken, Apply
    <2>3. \A p : (Needs(p)' => Needs(p)) /\ (Fresh(p) => Fresh(p)') /\ (Queued(p) => Queued(p)')
      BY <1>1, <2>1 DEF Needs, Fresh, Queued
    <2> QED
      BY <1>1, <1>2, <1>3, <2>2, <2>3 DEF Watch, HangInv, Attended
  <1>5. CASE ~RefusedIn(block, cached, c)
    <2>1. Attended'
      BY <1>1, <1>5, ApplyMakes DEF Attended
    <2> QED
      BY <1>2, <1>3, <2>1 DEF Watch
  <1> QED
    BY <1>4, <1>5

(* Once p is evaluated, its changes or stronger ones wait.                  *)
LEMMA EvaluatedAttends ==
  ASSUME HangInv, NEW p \in due, Evaluate(p), p \notin stale', Needs(p)
  PROVE  Woken(p)'
  <1>1. Typed /\ Typed' /\ block' = block /\ cached' = cached /\ settling.queue = <<>> /\ p \in Cells
        /\ block \in [Cells -> Block] /\ due # {} /\ p \notin stale /\ chunk(p) \in cached
    BY TypedTick DEF HangInv, KeepInv, Typed, TypeOK, Evaluate, Tick, world
  <1>2. PICK w \in compute_tick(algorithm, Visible(block, Sees(cached, p)), p) : TRUE
    BY <1>1, NeedsFluid DEF Needs
  <1>3. w \in compute_tick(algorithm, View, p)
    BY <1>1, <1>2 DEF Sees, View
  <1>4. /\ Effect(View, p, w) /\ (w.pos = p \/ Stronger(View[w.pos], w))
        /\ Sound(Cells, w)
    BY <1>1, <1>3, ViewShows, TickChanges, TickSound DEF Shows
  <1>5. /\ w.pos \in Cells /\ chunk(w.pos) \in cached /\ View[w.pos] = block[w.pos]
        /\ ~is_solid_obstacle(block[w.pos]) /\ w.pos \in Around(p)
    <2>1. w.pos \in DOMAIN View /\ w.pos \in Around(p)
      BY <1>4, AroundIs DEF Effect
    <2> QED
      BY <1>1, <1>3, <2>1, ViewEffects, ViewIs DEF View
  <1>6. PICK c \in changes' : c.pos = w.pos
    BY <1>1, <1>3, Evaluated
  <1>7. change_priority(w) <= change_priority(c) /\ Sound(Cells, c)
    BY <1>1, <1>3, <1>6, Evaluated DEF Typed, SoundChanges
  <1>8. c.new_block # block[c.pos]
    <2> SUFFICES ASSUME c.new_block = block[w.pos] PROVE FALSE
      BY <1>6
    <2>1. CASE \E e \in compute_tick(algorithm, View, p) : Same(c, e)
      BY <1>1, <1>6, <2>1, ViewEffects DEF Same, View
    <2>2. CASE \E d \in changes : Same(c, d)
      <3>1. w.pos \in overtaken
        BY <1>1, <1>6, <2>2 DEF Same, HangInv, Effective
      <3>2. CASE w.pos = p
        BY <1>1, <3>1, <3>2, NothingListed DEF HangInv, Calm, Queued
      <3>3. CASE w.pos # p
        <4>1. Stronger(c.new_block, w)
          BY <1>4, <1>5, <3>3
        <4>2. /\ change_priority(w) \in Nat /\ change_priority(c) \in Nat
              /\ is_fluid(c.new_block) \/ c.new_block = Air
              /\ w.new_block \in Block
          BY <1>4, <1>5, <1>7, Priorities, BlockKinds DEF Sound
        <4>3. ~(change_priority(w) > change_priority(c))
          BY <1>7, <4>2
        <4>4. change_priority(c) <= 41
          BY <1>7, <4>2, Priorities
        <4>5. CASE w.fizz
          <5>1. change_priority(w) > 100
            BY <1>4, <4>5, Priorities DEF Sound
          <5> QED
            BY <4>2, <4>3, <4>4, <5>1
        <4>6. CASE is_fluid(w.new_block) /\ c.new_block = Air
          <5>1. change_priority(c) = 0 /\ change_priority(w) > 0
            BY <1>4, <1>7, <4>6, Priorities
          <5> QED
            BY <4>3, <5>1
        <4>7. CASE /\ is_fluid(w.new_block) /\ c.new_block.kind = w.new_block.kind
                   /\ w.new_block.level < c.new_block.level
          <5>1. is_fluid(c.new_block)
            BY <4>7 DEF is_fluid
          <5>2. /\ w.new_block.level \in 0..15 /\ c.new_block.level \in 0..15
                /\ change_priority(w) = 40 - 2 * w.new_block.level
                                          + (IF w.new_block.kind = "lava" THEN 1 ELSE 0)
                /\ change_priority(c) = 40 - 2 * c.new_block.level
                                          + (IF w.new_block.kind = "lava" THEN 1 ELSE 0)
            BY <1>4, <1>7, <4>7, <5>1, Priorities
          <5> QED
            BY <4>3, <4>7, <5>2
        <4> QED
          BY <4>1, <4>5, <4>6, <4>7 DEF Stronger
      <3> QED
        BY <3>2, <3>3
    <2> QED
      BY <1>1, <1>6, <2>1, <2>2, Evaluated
  <1> QED
    BY <1>1, <1>5, <1>6, <1>8 DEF Woken, RefusedIn

LEMMA EvaluateWatches ==
  ASSUME HangInv, NEW p0 \in due, Evaluate(p0)
  PROVE  Watch'
  <1>1. Typed /\ Typed' /\ block' = block /\ cached' = cached /\ settling.queue = <<>> /\ p0 \in Cells
        /\ algorithm' = algorithm /\ status' = status /\ broken' = broken /\ pending' = pending
        /\ settling' = settling /\ overtaken' = overtaken /\ stale \subseteq stale'
        /\ due' = due \ {p0} /\ due # {}
    BY TypedTick DEF HangInv, KeepInv, Typed, TypeOK, Evaluate, Tick, world
  <1>2. \A p : /\ Needs(p)' <=> Needs(p)
               /\ Fresh(p)' <=> Fresh(p)
               /\ Queued(p)' <=> Queued(p)
    BY <1>1 DEF Needs, Fresh, Queued
  <1>3. ASSUME NEW d \in changes, ~RefusedIn(block, cached, d)
        PROVE  \E c \in changes' : c.pos = d.pos /\ ~RefusedIn(block, cached, c)
    <2>1. PICK c \in changes' : c.pos = d.pos
      BY <1>1, Evaluated
    <2>2. CASE \E e \in changes : Same(c, e)
      BY <1>3, <2>1, <2>2 DEF Same, HangInv, KeepInv, OnePerCell, RefusedIn
    <2>3. CASE \E e \in compute_tick(algorithm, View, p0) : Same(c, e)
      BY <1>1, <2>1, <2>3, ViewEffects DEF View, Same, RefusedIn
    <2> QED
      BY <1>1, <2>1, <2>2, <2>3, Evaluated
  <1>4. Attended'
    <2> SUFFICES ASSUME NEW p \in Cells, p \notin stale', Needs(p)
                 PROVE  Woken(p)' \/ Fresh(p)
      BY <1>2 DEF Attended
    <2>1. CASE p = p0
      BY <2>1, EvaluatedAttends
    <2>2. CASE p # p0
      <3>1. Woken(p) \/ Fresh(p)
        BY <1>1, NothingListed DEF HangInv, Attended, Queued
      <3>2. Woken(p) => Woken(p)'
        BY <1>1, <1>3, <2>2 DEF Woken
      <3> QED
        BY <3>1, <3>2
    <2> QED
      BY <2>1, <2>2
  <1>5. Calm'
    BY <1>1, <1>2 DEF HangInv, Calm
  <1>6. Effective'
    <2>1. ASSUME NEW c \in changes' PROVE c.pos \in overtaken \/ block[c.pos] # c.new_block
      <3>1. CASE \E d \in changes : Same(c, d)
        BY <1>1, <3>1 DEF Same, HangInv, Effective
      <3>2. CASE \E d \in compute_tick(algorithm, View, p0) : Same(c, d)
        BY <1>1, <3>2, ViewEffects DEF View, Same
      <3> QED
        BY <1>1, <3>1, <3>2, Evaluated
    <2> QED
      BY <1>1, <2>1 DEF Effective
  <1>7. Passed'
    <2>1. \A d \in changes : \E c \in changes' : c.pos = d.pos
      BY <1>1, Evaluated
    <2> QED
      BY <1>1, <2>1 DEF HangInv, Passed
  <1>8. Walled'
    BY <1>1 DEF Walled
  <1> QED
    BY <1>4, <1>5, <1>6, <1>7, <1>8 DEF Watch

(* A cell that is not stale sees nothing of other chunks from within the   *)
(* chunk that is settled, and nothing of that chunk from without.          *)
LEMMA WalledIn ==
  ASSUME Walled, settling.queue # <<>>, NEW p \in Cells, p \notin stale,
         NEW q \in Cells, q \in Around(p), chunk(q) \in Sees(cached, p)
  PROVE  chunk(q) = settling.chunk <=> chunk(p) = settling.chunk
  <1> SUFFICES ASSUME chunk(q) # chunk(p), settling.chunk \in {chunk(p), chunk(q)} PROVE FALSE
    OBVIOUS
  <1>1. {chunk(p), chunk(q)} \subseteq cached
    BY DEF Sees
  <1>2. q \in fluid_neighbours(p)
    BY AroundCells
  <1>3. p \in SeamOf(cached, settling.chunk)
    BY <1>1, <1>2 DEF SeamOf
  <1> QED
    BY <1>3 DEF Walled

(* What the queue holds after a step.                                      *)
LEMMA RestLists ==
  ASSUME Typed, SettleStep
  PROVE  /\ Rest \in Seq(Cells)
         /\ \A p : Lists(settling.queue, p) => p = Head(settling.queue) \/ Lists(Rest, p)
         /\ \A c \in Done : \A p \in Cells : chunk(p) = settling.chunk /\ p \in fluid_neighbours(c.pos)
               => Lists(Rest, p)
         /\ \A c \in Done : At(Done, c.pos).reschedule => Lists(Rest, c.pos)
         /\ \A p : Lists(Rest, p) =>
               settling'.queue = Rest /\ settling'.chunk = settling.chunk
  <1> DEFINE h == Head(settling.queue)
             after == QueuedAfter(Done, h, DOMAIN LocalView)
             tail == Tail(settling.queue)
  <1>1. settling.queue \in Seq(Cells) /\ settling.queue # <<>>
    BY DEF Typed, TypeOK, SettleStep
  <1>2. tail \in Seq(Cells) /\ \A p : Lists(settling.queue, p) => p = h \/ Lists(tail, p)
    <2>1. tail \in Seq(Cells) /\ Len(settling.queue) \in Nat \ {0}
          /\ DOMAIN settling.queue = 1..Len(settling.queue) /\ DOMAIN tail = 1..(Len(settling.queue) - 1)
          /\ \A i \in 1..(Len(settling.queue) - 1) : tail[i] = settling.queue[i + 1]
      BY <1>1
    <2>2. ASSUME NEW p, Lists(settling.queue, p), p # h PROVE Lists(tail, p)
      <3>1. PICK i \in 1..Len(settling.queue) : settling.queue[i] = p
        BY <2>1, <2>2 DEF Lists
      <3>2. i # 1
        BY <1>1, <2>2, <3>1
      <3>3. i - 1 \in 1..(Len(settling.queue) - 1) /\ (i - 1) + 1 = i
        BY <2>1, <3>1, <3>2
      <3>4. tail[i - 1] = p
        BY <2>1, <3>1, <3>3
      <3> HIDE DEF tail
      <3> QED
        BY <2>1, <3>3, <3>4 DEF Lists
    <2> QED
      BY <2>1, <2>2
  <1>3. DOMAIN LocalView = {q \in Cells : chunk(q) \in {settling.chunk}}
    BY Views DEF Typed, TypeOK, LocalView
  <1>4. \A c \in Done : c.pos \in Cells /\ c.pos \in {h, below(h)} \cup Beside(h)
    <2>1. ASSUME NEW c \in Done PROVE c.pos \in Cells /\ c.pos \in {h, below(h)} \cup Beside(h)
      <3>1. c \in compute_tick(algorithm, LocalView, h) /\ c.pos \in Cells
        BY DoneAre
      <3>2. Effect(LocalView, h, c)
        BY <3>1, ViewShows, TickChanges DEF Shows
      <3> QED
        BY <3>1, <3>2 DEF Effect
    <2> QED
      BY <2>1
  <1>5. /\ after \in Seq(Cells)
        /\ \A q \in {h, below(h)} \cup Beside(h) : (\E c \in Done : c.pos = q) =>
              /\ \A r \in DOMAIN LocalView \cap fluid_neighbours(q) : Lists(after, r)
              /\ At(Done, q).reschedule => Lists(after, q)
    <2> DEFINE S == DOMAIN LocalView
               D == Done
    <2>1. S \in SUBSET Cells
      BY <1>3
    <2>2. \A c \in D : c.pos \in Cells
      BY <1>4
    <2> HIDE DEF S, D, h
    <2>3. /\ QueuedAfter(D, h, S) \in Seq(Cells)
          /\ \A q \in {h, below(h)} \cup Beside(h) : (\E c \in D : c.pos = q) =>
              /\ \A r \in S \cap fluid_neighbours(q) : Lists(QueuedAfter(D, h, S), r)
              /\ At(D, q).reschedule => Lists(QueuedAfter(D, h, S), q)
      BY <2>1, <2>2, QueuedAfterAre
    <2> QED
      BY <2>3, Zenon DEF S, D
  <1>6. Rest = Join(tail, after)
    BY DEF Rest, Join
  <1> HIDE DEF after, tail, h
  <1>7. Rest \in Seq(Cells) /\ \A q : Lists(Rest, q) <=> Lists(tail, q) \/ Lists(after, q)
    BY <1>2, <1>5, <1>6, Joined
  <1>8. ASSUME NEW c \in Done
        PROVE  /\ \A p \in Cells : chunk(p) = settling.chunk /\ p \in fluid_neighbours(c.pos) => Lists(Rest, p)
               /\ At(Done, c.pos).reschedule => Lists(Rest, c.pos)
    BY <1>3, <1>4, <1>5, <1>7
  <1>9. ASSUME NEW p, Lists(Rest, p) PROVE settling'.queue = Rest /\ settling'.chunk = settling.chunk
    <2>1. Rest # <<>>
      BY <1>9, NothingListed
    <2>2. settling' = [chunk |-> settling.chunk, queue |-> Rest,
                       applied |-> settling.applied + Cardinality(Done)]
      BY <2>1, SettleStepDoes DEF Settled
    <2> QED
      BY <2>2
  <1> QED
    BY <1>2, <1>7, <1>8, <1>9 DEF h

(* What a step of the settling thread leaves as it was.                    *)
LEMMA SettleKeeps ==
  ASSUME HangInv, SettleStep, NEW p \in Cells, p \notin stale, Needs(p)'
  PROVE  \/ Queued(p)'
         \/ /\ Needs(p) /\ \A c \in Done : c.pos # p
            /\ (Queued(p) => Queued(p)') /\ (Woken(p) => Woken(p)') /\ (Fresh(p) => Fresh(p)')
  <1>1. Typed /\ Typed' /\ algorithm' = algorithm /\ cached' = cached /\ status' = status
        /\ pending' = pending /\ broken' = broken /\ due' = due /\ changes' = changes
        /\ settling.queue # <<>> /\ Settled(Done, Rest)
        /\ block \in [Cells -> Block] /\ block' \in [Cells -> Block]
    BY TypedSettle, SettleStepDoes DEF HangInv, KeepInv, Typed, TypeOK, SettleStep, Settle
  <1>2. \A q \in Cells : (\A c \in Done : c.pos # q) => block'[q] = block[q]
    BY <1>1 DEF Settled
  <1>3. \A q \in Cells : q \in Around(p) /\ chunk(q) \in Sees(cached, p)
                         => (chunk(q) = settling.chunk <=> chunk(p) = settling.chunk)
    BY <1>1, WalledIn DEF HangInv
  <1>4. ASSUME \A c \in Done : c.pos \in Around(p) => chunk(p) # settling.chunk
        PROVE  /\ Needs(p) /\ \A c \in Done : c.pos # p
               /\ (Woken(p) => Woken(p)') /\ (Fresh(p) => Fresh(p)')
    <2>1. \A q \in Cells : q \in Around(p) /\ chunk(q) \in Sees(cached, p) => block[q] = block'[q]
      BY <1>1, <1>2, <1>3, <1>4, DoneAre
    <2>2. Needs(p)
      BY <1>1, <2>1, NeedsLocal DEF Needs
    <2>3. Fresh(p) => Fresh(p)'
      <3>1. \A q \in Cells : q \in Around(p) /\ chunk(q) = chunk(p) => block[q] = block'[q]
        BY <2>1 DEF Sees
      <3> QED
        BY <1>1, <3>1, FreshLocal DEF Fresh
    <2>4. \A c \in Done : c.pos # p
      BY <1>1, <1>4, AroundCells, DoneAre
    <2>5. Woken(p) => Woken(p)'
      <3>1. ASSUME NEW d \in changes, chunk(p) \in cached, d.pos \in Around(p),
                   ~RefusedIn(block, cached, d)
            PROVE  ~RefusedIn(block', cached, d)
        <4>1. d.pos \in Cells /\ chunk(d.pos) \in Sees(cached, p)
          BY <1>1, <3>1 DEF Typed, TypeOK, RefusedIn, Sees
        <4>2. block[d.pos] = block'[d.pos]
          BY <2>1, <3>1, <4>1
        <4> QED
          BY <3>1, <4>2 DEF RefusedIn
      <3> QED
        BY <1>1, <3>1 DEF Woken
    <2> QED
      BY <2>2, <2>3, <2>4, <2>5
  <1>5. CASE chunk(p) # settling.chunk
    BY <1>4, <1>5 DEF Queued
  <1>6. ASSUME chunk(p) = settling.chunk, NEW c \in Done, c.pos \in Around(p)
        PROVE  Queued(p)'
    <2>1. c.pos \in Cells /\ c.pos \in {q \in Cells : TRUE}
      BY <1>1, DoneAre
    <2>2. CASE c.pos = p
      <3>1. At(Done, p) \in Done /\ At(Done, p).pos = p
        BY <2>2, AtAre
      <3>2. block'[p] = At(Done, p).new_block
        BY <1>1, <2>2 DEF Settled
      <3>3. is_fluid(block'[p])
        BY <1>1, NeedsFluid DEF Needs
      <3>4. At(Done, p).reschedule
        BY <1>1, <3>1, <3>2, <3>3, DoneAre DEF Sound
      <3>5. Lists(Rest, p)
        BY <1>1, <2>2, <3>4, RestLists
      <3> QED
        BY <1>1, <1>6, <3>5, RestLists DEF Queued
    <2>3. CASE c.pos # p
      <3>1. p \in fluid_neighbours(c.pos)
        BY <1>6, <2>1, <2>3, AroundCells
      <3>2. Lists(Rest, p)
        BY <1>1, <1>6, <3>1, RestLists
      <3> QED
        BY <1>1, <1>6, <3>2, RestLists DEF Queued
    <2> QED
      BY <2>2, <2>3
  <1>7. ASSUME chunk(p) = settling.chunk, \A c \in Done : c.pos \notin Around(p), Queued(p)
        PROVE  Queued(p)'
    <2>1. Needs(p)
      BY <1>4, <1>7
    <2>2. p # Head(settling.queue)
      <3> SUFFICES ASSUME p = Head(settling.queue) PROVE FALSE
        OBVIOUS
      <3>1. \A q \in Cells : q \in fluid_neighbours(p) =>
                                (chunk(q) \in Sees(cached, p) <=> chunk(q) \in Sees({}, p))
        BY <1>3, <1>7, AroundIs DEF Sees
      <3>2. NeedsIn(algorithm, block, {}, p)
        BY <1>1, <2>1, <3>1, NeedsLocal DEF Needs
      <3>3. PICK c \in compute_tick(algorithm, Visible(block, Sees({}, p)), p) : TRUE
        BY <1>1, <3>2, NeedsFluid
      <3>4. c \in compute_tick(algorithm, LocalView, p)
        BY <1>7, <3>3 DEF Sees, LocalView
      <3>5. c \in Done
        BY <1>1, <3>4, ViewShows, SettleMakesAll DEF Done
      <3>6. Effect(LocalView, p, c)
        BY <1>1, <3>4, ViewShows, TickChanges DEF Shows
      <3>7. c.pos \in Around(p)
        BY <3>6, AroundIs DEF Effect
      <3> QED
        BY <1>7, <3>5, <3>7
    <2>3. Lists(Rest, p)
      BY <1>1, <1>7, <2>2, RestLists DEF Queued
    <2> QED
      BY <1>1, <1>7, <2>3, RestLists DEF Queued
  <1> QED
    BY <1>4, <1>5, <1>6, <1>7

LEMMA SettleWatches ==
  ASSUME HangInv, SettleStep
  PROVE  Watch'
  <1>1. Typed /\ Typed' /\ cached' = cached /\ due' = due /\ changes' = changes /\ stale' = stale
        /\ settling.queue # <<>> /\ Settled(Done, Rest)
    BY TypedSettle, SettleStepDoes DEF HangInv, KeepInv, SettleStep, Settle
  <1>2. overtaken' = overtaken \cup ({c.pos : c \in Done} \cap {c.pos : c \in changes})
    BY <1>1 DEF Settled
  <1>3. Attended'
    <2> SUFFICES ASSUME NEW p \in Cells, p \notin stale, Needs(p)'
                 PROVE  Woken(p)' \/ Queued(p)' \/ Fresh(p)'
      BY <1>1 DEF Attended
    <2> QED
      BY SettleKeeps DEF HangInv, Attended
  <1>4. Calm'
    <2> SUFFICES ASSUME due # {}, NEW p \in overtaken', p \notin stale, Needs(p)'
                 PROVE  Queued(p)'
      BY <1>1 DEF Calm
    <2>1. p \in Cells
      BY <1>1 DEF Typed, TypeOK
    <2> QED
      BY <1>2, <2>1, SettleKeeps DEF HangInv, Calm
  <1>5. Effective'
    <2> SUFFICES ASSUME due # {}, NEW c \in changes, c.pos \notin overtaken'
                 PROVE  block'[c.pos] # c.new_block
      BY <1>1 DEF Effective
    <2>1. c.pos \in Cells
      BY <1>1 DEF Typed, TypeOK
    <2>2. block'[c.pos] = block[c.pos]
      BY <1>1, <1>2, <2>1 DEF Settled
    <2> QED
      BY <1>2, <2>2 DEF HangInv, Effective
  <1>6. Walled'
    BY <1>1 DEF HangInv, Walled, Settled, Idle
  <1>7. Passed'
    <2> SUFFICES ASSUME NEW p \in overtaken'
                 PROVE  /\ \E c \in changes : c.pos = p
                        /\ chunk(p) \in cached /\ SeamOf(cached, chunk(p)) \subseteq stale
      BY <1>1 DEF Passed
    <2>1. CASE p \in overtaken
      BY <2>1 DEF HangInv, Passed
    <2>2. CASE p \notin overtaken
      <3>1. (\E c \in Done : c.pos = p) /\ \E c \in changes : c.pos = p
        BY <1>2, <2>2
      <3>2. chunk(p) = settling.chunk
        BY <1>1, <3>1, DoneAre
      <3> QED
        BY <1>1, <3>1, <3>2 DEF HangInv, Walled
    <2> QED
      BY <2>1, <2>2
  <1> QED
    BY <1>3, <1>4, <1>5, <1>6, <1>7 DEF Watch

LEMMA HangNext ==
  ASSUME HangInv, [Next]_vars
  PROVE  HangInv'
  <1>1. KeepInv'
    BY KeepNext DEF HangInv
  <1>2. CASE UNCHANGED vars
    <2>1. Watch'
      BY <1>2 DEF HangInv, Watch, Attended, Walled, Passed, Calm, Effective, Needs, Woken, Queued, Fresh,
                  vars, world, ghosts
    <2> QED
      BY <1>1, <2>1 DEF HangInv, Watch
  <1>3. ASSUME StepsAlone PROVE Watch'
    <2>1. (Walled /\ Passed /\ Calm /\ Effective)'
      BY <1>3, StepsAloneAre, AloneKeeps
    <2>2. Attended'
      BY <1>3, ClockAttends, PlayersAttend, SeedBreakAttends, ChunksAttend DEF StepsAlone
    <2> QED
      BY <2>1, <2>2 DEF Watch
  <1> QED
    BY <1>1, <1>2, <1>3, Steps, StopWatches, SettleWatches, EvaluateWatches, ApplyWatches,
       StreamWatches DEF HangInv, Watch

(* Only open springs of the terrain need anything.                         *)
LEMMA HangInit ==
  ASSUME Init
  PROVE  HangInv
  <1>1. Typed /\ block \in [Cells -> Natural] /\ block \in [Cells -> Block]
        /\ cached = {} /\ status = [c \in Chunks |-> "new"]
    BY TypedInit, FluidAssumption DEF Init, Typed, TypeOK
  <1>2. \A b \in Natural : is_fluid(b) => b = fluid_block("water", 0) /\ is_source(b) /\ b.level = 0
    BY Made DEF Natural, is_source, Fluids, MAX_FLUID_LEVEL
  <1>3. ASSUME NEW p \in Cells, Needs(p) PROVE Fresh(p)
    <2> DEFINE V == Visible(block, {chunk(p)})
    <2>1. PICK w \in compute_tick(algorithm, V, p) : TRUE
      BY <1>1, <1>3, NeedsFluid DEF Needs, Sees
    <2>2. is_fluid(block[p]) /\ is_source(block[p]) /\ block[p] = fluid_block("water", 0)
      BY <1>1, <1>2, <1>3, NeedsFluid DEF Needs
    <2>3. /\ V \in [DOMAIN V -> Block] /\ \A q \in DOMAIN V : q \in Cells /\ V[q] = block[q]
      BY <1>1, Views DEF Shows
    <2> HIDE DEF V
    <2>4. Effect(V, p, w)
      BY <2>1, <2>3, TickChanges
    <2>5. p \in DOMAIN V /\ V[p] = block[p] /\ block_at(V, p) = V[p]
      BY <2>3, <2>4 DEF Effect, block_at
    <2>6. ~would_react(V, p)
      BY <2>2, <2>5, Made DEF would_react, Fluids, MAX_FLUID_LEVEL
    <2>7. Relevels(algorithm, V, p) = {}
      BY <2>2, <2>5 DEF Relevels
    <2>8. w \in Moves(algorithm, V, p)
      BY <2>1, <2>6, <2>7 DEF compute_tick
    <2>9. Stronger(V[w.pos], w) /\ ~w.fizz
      BY <2>2, <2>3, <2>5, <2>8, MovesAre
    <2>10. w.pos \in DOMAIN V /\ V[w.pos] \in Natural /\ w.new_block \in Block
           /\ w.pos \in {p, below(p)} \cup Beside(p)
      BY <1>1, <2>3, <2>4 DEF Effect
    <2>11. V[w.pos] = Air
      <3> SUFFICES ASSUME is_fluid(w.new_block), V[w.pos].kind = w.new_block.kind,
                          w.new_block.level < V[w.pos].level
                   PROVE  FALSE
        BY <2>9 DEF Stronger
      <3>1. is_fluid(V[w.pos])
        BY DEF is_fluid
      <3>2. V[w.pos].level = 0 /\ w.new_block.level \in Nat
        BY <1>2, <2>10, <3>1, BlockKinds
      <3> QED
        BY <3>2
    <2>12. w.pos # p
      BY <2>2, <2>5, <2>11, Made
    <2>13. borders_open(V, p)
      BY <2>10, <2>11, <2>12 DEF borders_open, block_at
    <2>14. status[chunk(p)] = "new"
      BY <1>1, CellsAre
    <2> QED
      BY <2>2, <2>13, <2>14 DEF Fresh, FreshIn, Opens, V
  <1>4. KeepInv
    BY <1>1 DEF KeepInv, OnePerCell, Spares, Init
  <1>5. Attended
    BY <1>3 DEF Attended
  <1>6. Walled /\ Passed /\ Calm /\ Effective
    BY DEF Walled, Passed, Calm, Effective, Init, Idle
  <1> QED
    BY <1>4, <1>5, <1>6 DEF HangInv

(* Whatever would change at its next tick has one on the way.              *)
THEOREM FluidsNeverHang == Spec => []NothingHangs
  <1>1. Init => HangInv
    BY HangInit
  <1>2. HangInv /\ [Next]_vars => HangInv'
    BY HangNext
  <1>3. HangInv => NothingHangs
    <2> SUFFICES ASSUME HangInv, NEW p \in Cells, p \notin stale, Live(p), Wants(p) # {}
                 PROVE  Awaited(p)
      BY DEF NothingHangs
    <2>1. Needs(p)
      BY DEF Needs, NeedsIn, Sees, Live, Wants, View
    <2>2. ~Fresh(p)
      BY DEF Live, Fresh, FreshIn
    <2>3. Woken(p) \/ Queued(p)
      BY <2>1, <2>2 DEF HangInv, Attended
    <2>4. Woken(p) => Awaited(p)
      BY DEF Woken, Awaited, Around
    <2>5. Queued(p) => Awaited(p)
      BY NothingListed DEF Queued, Awaited
    <2> QED
      BY <2>3, <2>4, <2>5
  <1> QED
    BY <1>1, <1>2, <1>3, PTL DEF Spec

(* In a puddle the highest cell, and there the one with the most fluid, is *)
(* not entitled to its level.                                              *)
LEMMA PuddlesNeed ==
  ASSUME block \in [Cells -> Block], NEW S \in SUBSET Cells, S # {}, NEW K, NEW alg,
         \A p \in S : is_fluid(block[p]) /\ ~is_source(block[p]) /\ Feeders(p) \subseteq S
  PROVE  \E p \in S : NeedsIn(alg, block, K, p)
  <1> DEFINE R == {e \in S \X S :
                     \/ e[1][2] < e[2][2]
                     \/ (e[1][2] = e[2][2] /\ block[e[1]].level >= block[e[2]].level)}
  <1>1. \A p \in S : p \in Points /\ p[2] \in Int /\ block[p] \in Block /\ block[p].level \in Nat
    BY CellsAre, BlockKinds DEF Points
  <1>2. \A p, q \in S : <<p, q>> \in R <=>
           p[2] < q[2] \/ (p[2] = q[2] /\ block[p].level >= block[q].level)
    OBVIOUS
  <1> HIDE DEF R
  <1>3. Orders(R, S)
    BY <1>1, <1>2 DEF Orders
  <1>4. IsFiniteSet(S)
    BY FluidAssumption, FS_Subset
  <1>5. PICK m \in S : LastIn(R, S, m)
    BY <1>3, <1>4, LastElement
  <1>6. \A q \in S : q[2] < m[2] \/ (q[2] = m[2] /\ block[q].level >= block[m].level)
    BY <1>2, <1>5 DEF LastIn
  <1> DEFINE V == Visible(block, Sees(K, m))
             k == block[m].kind
             l == block[m].level
             fed == Entitled(alg, V, m, k)
  <1>7. /\ V \in [DOMAIN V -> Block] /\ \A q \in DOMAIN V : q \in Cells /\ V[q] = block[q]
        /\ m \in DOMAIN V /\ V[m] = block[m] /\ block_at(V, m) = block[m]
    BY Views DEF Shows, Sees, block_at
  <1>8. k \in Fluids /\ is_fluid(block[m]) /\ ~is_source(block[m]) /\ l \in Nat
    BY <1>1 DEF is_fluid
  <1> HIDE DEF V
  <1>9. ASSUME NEW n \in Beside(m) \cup {above(m)}, block_at(V, n).kind = k
        PROVE  n \in S /\ block_at(V, n) = block[n]
    <2>1. ~is_solid_obstacle(block_at(V, n))
      BY <1>8, <1>9, RulesAre DEF is_solid_obstacle
    <2>2. n \in Cells /\ block_at(V, n) = block[n]
      BY <1>7, <2>1, Seen
    <2>3. n \in Feeders(m)
      BY <1>9, <2>2 DEF Feeders
    <2> QED
      BY <2>2, <2>3
  <1>10. block_at(V, above(m)).kind # k
    <2> SUFFICES ASSUME block_at(V, above(m)).kind = k PROVE FALSE
      OBVIOUS
    <2>1. above(m) \in S
      BY <1>9
    <2>2. above(m)[2] = m[2] + 1
      BY DEF above, Offset
    <2> QED
      BY <1>1, <1>6, <2>1, <2>2
  <1>11. Feeds(V, m, k) = {block_at(V, n).level + Rules(k).level_step :
                              n \in {i \in Beside(m) : block_at(V, i).kind = k}}
                          \cap 0..Rules(k).max_spread_level
    BY <1>10, Zenon DEF Feeds
  <1>12. \A f \in Feeds(V, m, k) : f > l
    <2>1. ASSUME NEW n \in Beside(m), block_at(V, n).kind = k
          PROVE  block_at(V, n).level \in Nat /\ block_at(V, n).level >= l
      <3>1. n \in S /\ block_at(V, n) = block[n]
        BY <1>9, <2>1
      <3>2. n[2] = m[2]
        BY <1>1 DEF Beside, Offset
      <3> QED
        BY <1>1, <1>6, <3>1, <3>2
    <2>2. Rules(k).level_step \in 1..2
      BY <1>8, RulesAre
    <2> HIDE DEF k, l
    <2> QED
      BY <1>8, <1>11, <2>1, <2>2
  <1>13. fed = Feeds(V, m, k)
    <2>1. ~forms_source(V, m, k)
      <3> SUFFICES ASSUME NEW n \in Beside(m), block_at(V, n) = fluid_block(k, 0) PROVE FALSE
        BY DEF forms_source
      <3>1. fluid_block(k, 0).kind = k /\ is_source(fluid_block(k, 0))
        BY <1>8 DEF fluid_block, is_source, is_fluid
      <3>2. n \in S /\ block_at(V, n) = block[n]
        BY <1>9, <3>1
      <3> QED
        BY <3>1, <3>2
    <2> QED
      BY <2>1, Zenon DEF Entitled
  <1>14. fed # {} => Min(fed) # l
    <2>1. fed \in SUBSET (0..7)
      BY <1>7, <1>8, EntitledLevels
    <2> HIDE DEF fed, l
    <2>2. fed # {} => Min(fed) \in fed
      BY <2>1, LeastIsMin
    <2>3. \A f \in fed : f > l
      BY <1>12, <1>13
    <2> QED
      BY <1>8, <2>1, <2>2, <2>3
  <1>15. Relevels(alg, V, m) # {}
    <2>1. CASE fed = {}
      BY <1>7, <1>8, <2>1 DEF Relevels
    <2>2. CASE fed # {}
      <3>1. m \in {r \in {m} : Min(fed) # l}
        BY <1>14, <2>2
      <3>2. Relevels(alg, V, m) = {flow(q, fluid_block(k, Min(fed)), TRUE) :
                                      q \in {r \in {m} : Min(fed) # l}}
        BY <1>7, <1>8, <2>2, Zenon DEF Relevels
      <3> HIDE DEF fed, k, l
      <3> QED
        BY <3>1, <3>2
    <2> QED
      BY <2>1, <2>2
  <1>16. PICK c \in compute_tick(alg, V, m) : c.pos \in {m, below(m)}
    <2>1. CASE would_react(V, m)
      <3>1. compute_tick(alg, V, m) = Reactions(V, m)
        BY <1>7, <1>8, <2>1 DEF compute_tick
      <3>2. PICK q \in {m, below(m)} : \E r : Reactions(V, m) = {reaction(q, r)}
        BY <2>1, Zenon DEF Reactions
      <3>3. \A r : reaction(q, r).pos = q
        BY DEF reaction, Change
      <3> QED
        BY <3>1, <3>2, <3>3
    <2>2. CASE ~would_react(V, m)
      <3>1. compute_tick(alg, V, m) = Relevels(alg, V, m)
        BY <1>7, <1>8, <1>15, <2>2 DEF compute_tick
      <3>2. \A c \in Relevels(alg, V, m) : c.pos = m
        BY <1>7, <1>8, RelevelsAre
      <3> QED
        BY <1>15, <3>1, <3>2
    <2> QED
      BY <2>1, <2>2
  <1>17. NeedsIn(alg, block, K, m)
    BY <1>16 DEF NeedsIn, WantsIn, V
  <1> QED
    BY <1>17

(* Once the world is quiet, no flow that lost its source is left.          *)
THEOREM NoPuddlesStay == Spec => []NoOrphans
  <1>1. Init => HangInv
    BY HangInit
  <1>2. HangInv /\ [Next]_vars => HangInv'
    BY HangNext
  <1>3. HangInv => NoOrphans
    <2> SUFFICES ASSUME HangInv, Quiet, NEW S \in SUBSET Cells, Puddle(S), S # {} PROVE FALSE
      BY DEF NoOrphans
    <2>1. block \in [Cells -> Block]
      BY DEF HangInv, KeepInv, Typed, TypeOK
    <2>2. PICK p \in S : Needs(p)
      BY <2>1, PuddlesNeed DEF Puddle, Needs
    <2>3. Fresh(p)
      BY <2>2, AttendedAlone DEF Quiet, Puddle
    <2> QED
      BY <2>3 DEF Fresh, FreshIn, Puddle
  <1> QED
    BY <1>1, <1>2, <1>3, PTL DEF Spec
=============================================================================
