----------------------------- MODULE FluidKernel -----------------------------
(***************************************************************************)
(* What one fluid block does on its tick: the two spreading kernels, which *)
(* only read the world, through a view that maps the cells they can see to *)
(* blocks.  A cell outside the view reads back as stone.                   *)
(***************************************************************************)
EXTENDS Integers, FiniteSetsExt

Fluids == {"water", "lava"}
Rocks  == {"stone", "obsidian", "cobblestone"}
MAX_FLUID_LEVEL == 15

Block == [kind : Fluids, level : 0..MAX_FLUID_LEVEL]
           \cup [kind : Rocks \cup {"air"}, level : {0}]

fluid_block(k, l) == [kind |-> k, level |-> l]
Air     == [kind |-> "air", level |-> 0]
Rock(k) == [kind |-> k, level |-> 0]

is_fluid(b)          == b.kind \in Fluids
is_solid_obstacle(b) == b.kind \in Rocks
is_source(b)         == is_fluid(b) /\ b.level = 0

\* What the generator puts into the world: its only fluid are water sources.
Natural == {Air, fluid_block("water", 0)} \cup {Rock(k) : k \in Rocks}

\* FluidRules::for_kind in the overworld; tick_delay is the caller's business.
Rules(k) ==
    IF k = "water"
    THEN [level_step |-> 1, max_spread_level |-> 7, slope_find_distance |-> 4,
          can_form_source |-> TRUE]
    ELSE [level_step |-> 2, max_spread_level |-> 7, slope_find_distance |-> 2,
          can_form_source |-> FALSE]

-----------------------------------------------------------------------------
(* Cells are <<x, y, z>>.                                                  *)

Offset(p, dx, dy, dz) == <<p[1] + dx, p[2] + dy, p[3] + dz>>
above(p) == Offset(p, 0, 1, 0)
below(p) == Offset(p, 0, -1, 0)
Beside(p) == {Offset(p, 1, 0, 0), Offset(p, -1, 0, 0),
              Offset(p, 0, 0, 1), Offset(p, 0, 0, -1)}
fluid_neighbours(p) == Beside(p) \cup {above(p), below(p)}

\* The barrier: whatever the view does not show is a solid wall.
block_at(V, p) == IF p \in DOMAIN V THEN V[p] ELSE Rock("stone")

-----------------------------------------------------------------------------
(* Changes.                                                                *)

Change(p, b, again, fizz) ==
    [pos |-> p, new_block |-> b, reschedule |-> again, fizz |-> fizz]
flow(p, b, again) == Change(p, b, again, FALSE)
reaction(p, b)    == Change(p, b, FALSE, TRUE)

\* Raw state ids of the rocks.
RawId == [stone |-> 1, cobblestone |-> 14, obsidian |-> 2400]

\* change_priority: solidified (by id), then fluid (the stronger, then by id:
\* lava's follow water's), then air.
change_priority(c) ==
    IF c.fizz THEN 100 + RawId[c.new_block.kind]
    ELSE IF is_fluid(c.new_block)
    THEN 40 - 2 * c.new_block.level + (IF c.new_block.kind = "lava" THEN 1 ELSE 0)
    ELSE 0

\* reduce_changes: one change for each cell.
reduce_changes(C) ==
    {[c EXCEPT !.reschedule = \E d \in C : d.pos = c.pos /\ d.reschedule] :
        c \in {c \in C : \A d \in C :
                  d.pos = c.pos => change_priority(d) <= change_priority(c)}}

-----------------------------------------------------------------------------
(* Lava and water.                                                         *)

lava_harden_check(V, p) ==
    \E n \in Beside(p) \cup {above(p)} : block_at(V, n).kind = "water"

would_react(V, p) ==
    /\ block_at(V, p).kind = "lava"
    /\ lava_harden_check(V, p) \/ block_at(V, below(p)).kind = "water"

Reactions(V, p) ==
    IF ~would_react(V, p) THEN {}
    ELSE IF lava_harden_check(V, p)
    THEN {reaction(p, Rock(IF is_source(V[p]) THEN "obsidian" ELSE "cobblestone"))}
    ELSE {reaction(below(p), Rock("stone"))}

-----------------------------------------------------------------------------
(* The level a flowing block is entitled to.                               *)

is_replaceable_by(k, b) == b = Air \/ b.kind = k

FallingLevel(k) ==
    IF Rules(k).level_step < Rules(k).max_spread_level
    THEN Rules(k).level_step ELSE Rules(k).max_spread_level

\* supported_level: the levels p's feeders can give it.
Feeds(V, p, k) ==
    IF block_at(V, above(p)).kind = k THEN {FallingLevel(k)}
    ELSE {block_at(V, n).level + Rules(k).level_step :
             n \in {m \in Beside(p) : block_at(V, m).kind = k}}
         \cap 0..Rules(k).max_spread_level

forms_source(V, p, k) ==
    /\ Rules(k).can_form_source
    /\ \E m, n \in Beside(p) : m # n /\ {block_at(V, m), block_at(V, n)} = {fluid_block(k, 0)}
    /\ \/ block_at(V, below(p)) = fluid_block(k, 0)
       \/ is_solid_obstacle(block_at(V, below(p)))

\* new_liquid_level, in the vanilla kernel; supported_level in the other.
Entitled(alg, V, p, k) ==
    IF alg = "vanilla" /\ forms_source(V, p, k) THEN {0} ELSE Feeds(V, p, k)

\* Mutant: a block nothing feeds keeps its level.
RelevelsFed(alg, V, p) ==
    LET fed == Entitled(alg, V, p, V[p].kind)
    IN {flow(q, fluid_block(V[q].kind, Min(fed)), TRUE) :
           q \in {r \in {p} : ~is_source(V[p]) /\ fed # {} /\ Min(fed) # V[p].level}}

\* A flowing block dries up or takes its new level; a source never does.
Relevels(alg, V, p) ==
    LET b   == V[p]
        fed == Entitled(alg, V, p, b.kind)
    IN IF is_source(b) THEN {}
       ELSE IF fed = {} THEN {flow(p, Air, FALSE)}
       ELSE {flow(q, fluid_block(b.kind, Min(fed)), TRUE) :
                q \in {r \in {p} : Min(fed) # b.level}}

-----------------------------------------------------------------------------
(* Where it goes.                                                          *)

\* Mutant: flow overwrites the same fluid, whatever its level.
can_spread_anywhere(V, k, n, l) == is_replaceable_by(k, block_at(V, n))

\* Flow at level l improves cell n.
can_spread_into(V, k, n, l) ==
    LET b == block_at(V, n) IN b = Air \/ (b.kind = k /\ l < b.level)

Improve(V, k, S, l) ==
    {flow(n, fluid_block(k, l), TRUE) : n \in {m \in S : can_spread_into(V, k, m, l)}}

can_flow_down_into(V, k, p) == is_replaceable_by(k, block_at(V, below(p)))

NO_HOLE == 255

\* slope_distance: breadth first from `from`, never back through `origin`, to
\* the nearest cell the fluid can fall from, at most slope_find_distance away.
slope_distance(V, k, origin, from) ==
    LET limit == Rules(k).slope_find_distance
        Within[n \in 1..limit] ==
            IF n = 1 THEN {from}
            ELSE Within[n - 1] \cup
                 {c \in UNION {Beside(d) : d \in Within[n - 1]} :
                     c # origin /\ is_replaceable_by(k, block_at(V, c))}
        hits == {n \in 1..limit : \E c \in Within[n] : can_flow_down_into(V, k, c)}
    IN IF hits = {} THEN NO_HOLE ELSE Min(hits)

\* The directions fluid from p spreads in: all, or those nearest to a hole.
Directions(alg, V, p, k) ==
    LET open == {n \in Beside(p) : is_replaceable_by(k, block_at(V, n))}
        dist == [n \in open |-> IF can_flow_down_into(V, k, n) THEN 0
                                ELSE slope_distance(V, k, p, n)]
    IN IF alg = "vanilla"
       THEN {n \in open : \A m \in open : dist[n] <= dist[m]}
       ELSE open

Moves(alg, V, p) ==
    LET b    == V[p]
        next == b.level + Rules(b.kind).level_step
    IN IF can_flow_down_into(V, b.kind, p)
       THEN Improve(V, b.kind, {below(p)}, FallingLevel(b.kind))
       ELSE IF next > Rules(b.kind).max_spread_level THEN {}
       ELSE Improve(V, b.kind, Directions(alg, V, p, b.kind), next)

\* compute_fluid_tick and compute_fluid_tick_vanilla.
compute_tick(alg, V, p) ==
    IF ~is_fluid(block_at(V, p)) THEN {}
    ELSE IF would_react(V, p) THEN Reactions(V, p)
    ELSE IF Relevels(alg, V, p) # {} THEN Relevels(alg, V, p)
    ELSE Moves(alg, V, p)
=============================================================================
