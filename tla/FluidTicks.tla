----------------------------- MODULE FluidTicks -----------------------------
(***************************************************************************)
(* How fluids move through the world: block edits and newly loaded chunks  *)
(* seed fluid ticks; each game tick drains the due ones, evaluates them    *)
(* (FluidKernel), then applies the changes one by one and wakes the fluids *)
(* next to each.  Beside that, on a pool thread, a chunk that is being     *)
(* streamed to a player has its fluids settled in isolation.               *)
(*                                                                         *)
(* Ticks are kept relative to the present: `wait` is target_tick minus the *)
(* current tick, and overdue ticks of one cell count as one.  The settling *)
(* thread holds the chunk's guard, so that everything that could look at   *)
(* the chunk waits for it.                                                 *)
(***************************************************************************)
EXTENDS FluidKernel, FiniteSets, Sequences

CONSTANTS
    Cells,              \* the cells of the world, surrounded by rock
    ChunkEdge,          \* edge of a chunk in cells (16)
    Terrains,           \* what the generator may have put into Cells
    Algorithms,         \* config fluids.algorithm
    tick_delay,         \* of each fluid
    max_ticks_per_tick, \* config fluids.max_ticks_per_tick; 0: unbounded
    max_settle_changes, \* config fluids.max_settle_changes; 0: unbounded
    Placeable,          \* blocks the players place
    MaxEdits            \* bound: block edits by players

ASSUME FluidAssumption ==
    /\ Cells \subseteq Int \X Int \X Int /\ IsFiniteSet(Cells) /\ Cells # {}
    /\ ChunkEdge \in Nat \ {0}
    /\ Terrains \subseteq [Cells -> Natural]
    /\ Algorithms \subseteq {"simplified", "vanilla"}
    /\ tick_delay \in [Fluids -> Nat \ {0}]
    /\ max_ticks_per_tick \in Nat /\ max_settle_changes \in Nat
    /\ Placeable \subseteq Block /\ MaxEdits \in Nat

REACTION_DELAY == 1

chunk(p) == <<p[1] \div ChunkEdge, p[3] \div ChunkEdge>>
Chunks   == {chunk(p) : p \in Cells}
CellsOf(c) == {p \in Cells : chunk(p) = c}
VARIABLES
    block,      \* the blocks, cached or stored
    algorithm,  \* the configured kernel
    cached,     \* chunks in the chunk cache
    status,     \* of each chunk: not streamed to anybody yet, streamed, or
                \* settled (FluidSettleTracker.settled)
    pending,    \* BlockTickScheduler: ticks, as [pos, wait]
    broken,     \* unread BlockBrokenEvents
    ran,        \* process_fluid_ticks has run in this game tick
    due,        \* cells of drained ticks still to be evaluated
    changes,    \* reduced changes still to be applied
    settling,   \* the chunk a pool thread settles, its queue, changes applied
    edits,      \* edits made by players
    stale,      \* ghost: cells whose surroundings changed without waking them
    overtaken   \* ghost: cells a pool thread wrote to after the change that is
                \* still to be applied to them was computed

world == <<block, algorithm, edits>>
ghosts == <<stale, overtaken>>
vars  == <<world, cached, status, pending, broken, ran, due, changes, settling, ghosts>>

Visible(blocks, S) == [p \in {q \in Cells : chunk(q) \in S} |-> blocks[p]]
View      == Visible(block, cached)             \* WorldBlockView
LocalView == Visible(block, {settling.chunk})   \* ChunkLocalView

\* The cells along c's borders with other cached chunks, on both sides.
Seam(c) == {p \in Cells : \E q \in Cells \cap fluid_neighbours(p) :
               /\ chunk(p) # chunk(q) /\ c \in {chunk(p), chunk(q)}
               /\ {chunk(p), chunk(q)} \subseteq cached \cup {c}}

Idle == [chunk |-> CHOOSE c \in Chunks : TRUE, queue |-> <<>>, applied |-> 0]

Init ==
    /\ block \in Terrains /\ algorithm \in Algorithms
    /\ cached = {} /\ status = [c \in Chunks |-> "new"]
    /\ pending = {} /\ broken = {} /\ ran = FALSE
    /\ due = {} /\ changes = {} /\ settling = Idle
    /\ edits = 0 /\ stale = {} /\ overtaken = {}

\* Between two systems of the tick thread, with no chunk locked.
Between == due = {} /\ changes = {} /\ settling.queue = <<>>

-----------------------------------------------------------------------------
(* Seeding.                                                                *)

\* seed_fluid_tick of the cells S, in the world V.
Seeds(V, S) ==
    {[pos |-> p, wait |-> IF would_react(V, p) THEN REACTION_DELAY
                          ELSE tick_delay[V[p].kind]] :
        p \in {q \in S : is_fluid(block_at(V, q))}}

\* seed_on_block_break
SeedBreak(p) ==
    /\ Between /\ p \in broken
    /\ broken' = broken \ {p}
    /\ pending' = pending \cup Seeds(View, {p} \cup fluid_neighbours(p))
    /\ stale' = stale \cup {q \in Cells \cap fluid_neighbours(p) : chunk(q) \notin cached}
    /\ UNCHANGED <<world, cached, status, ran, due, changes, settling, overtaken>>

\* A player writes b at p; the chunk is loaded if need be.
Edit(p, b) ==
    /\ Between /\ edits < MaxEdits /\ block[p] # b
    /\ block' = [block EXCEPT ![p] = b] /\ edits' = edits + 1
    /\ cached' = cached \cup {chunk(p)}
    /\ UNCHANGED <<algorithm, status, ran, due, changes, settling, overtaken>>

LoadedBy(p) == IF chunk(p) \in cached THEN {} ELSE Seam(chunk(p))

\* A player digs out a block.
Break(p) ==
    /\ Edit(p, Air)
    /\ broken' = broken \cup {p} /\ stale' = stale \cup LoadedBy(p)
    /\ UNCHANGED pending

\* A player places b: place_block::handle seeds the block and its neighbours,
\* unless acknowledging the placement fails.
Place(p, b) ==
    /\ Edit(p, b)
    /\ LET S == {p} \cup fluid_neighbours(p) IN
       \/ /\ \E V \in {Visible(block', cached')} : pending' = pending \cup Seeds(V, S)
          /\ stale' = stale \cup LoadedBy(p)
       \/ /\ stale' = stale \cup LoadedBy(p) \cup (S \cap Cells)
          /\ UNCHANGED pending
    /\ UNCHANGED broken

\* borders_open: within the chunk, and never upwards.
borders_open(V, p) == \E n \in Beside(p) \cup {below(p)} : block_at(V, n) = Air

\* fluid_frontier_cells
Frontier(c) ==
    {p \in CellsOf(c) : is_fluid(block[p]) /\ borders_open(Visible(block, {c}), p)}

\* settle_loaded_fluids reaches a chunk some player has loaded.
SettleLoaded(c) ==
    /\ Between /\ status[c] = "streamed"
    /\ status' = [status EXCEPT ![c] = "settled"]
    /\ cached' = cached \cup {c}
    /\ \E V \in {Visible(block, cached')} : pending' = pending \cup Seeds(V, Frontier(c))
    /\ stale' = stale \cup (IF c \in cached THEN {} ELSE Seam(c))
    /\ UNCHANGED <<world, broken, ran, due, changes, settling, overtaken>>

-----------------------------------------------------------------------------
(* The game tick.                                                          *)

\* TickCounter advances.
Advance ==
    /\ Between /\ ran
    /\ ran' = FALSE
    /\ pending' = {[t EXCEPT !.wait = IF @ = 0 THEN 0 ELSE @ - 1] : t \in pending}
    /\ UNCHANGED <<world, cached, status, broken, due, changes, settling, ghosts>>

Due == {t \in pending : t.wait = 0}

\* drain_due_capped: chunk by chunk in map order, up to the budget, so that at
\* most one chunk is drained in part.
Drained ==
    IF max_ticks_per_tick = 0 \/ Cardinality(Due) <= max_ticks_per_tick THEN {Due}
    ELSE {S \in SUBSET Due :
            /\ Cardinality(S) = max_ticks_per_tick
            /\ \A t, u \in S : \A v, w \in Due \ S :
                  chunk(t.pos) = chunk(v.pos) /\ chunk(u.pos) = chunk(w.pos)
                     => chunk(t.pos) = chunk(u.pos)}

\* Mutant: the ticks over the budget are dropped.
DrainAll ==
    /\ Between /\ ~ran /\ ran' = TRUE
    /\ \E S \in Drained :
          /\ due' = {t.pos : t \in S} /\ pending' = pending \ Due
          /\ stale' = stale \ due'
    /\ UNCHANGED <<world, cached, status, broken, changes, settling, overtaken>>

\* Mutant: what is drained stays queued.
DrainKeeps ==
    /\ Between /\ ~ran /\ ran' = TRUE
    /\ \E S \in Drained : due' = {t.pos : t \in S} /\ stale' = stale \ due'
    /\ UNCHANGED <<world, cached, status, pending, broken, changes, settling, overtaken>>

\* process_fluid_ticks: drain what is due.
Drain ==
    /\ Between /\ ~ran /\ ran' = TRUE
    /\ \E S \in Drained :
          /\ due' = {t.pos : t \in S} /\ pending' = pending \ S
          /\ stale' = stale \ due'
    /\ UNCHANGED <<world, cached, status, broken, changes, settling, overtaken>>

\* evaluate_batch, one tick.  Pool threads may write in between.
Evaluate(p) ==
    /\ p \in due /\ settling.queue = <<>>
    /\ due' = due \ {p}
    /\ \E V \in {View} :
          changes' = reduce_changes(changes \cup compute_tick(algorithm, V, p))
    /\ stale' = stale \cup {q \in {p} : chunk(q) \notin cached}
    /\ UNCHANGED <<world, cached, status, pending, broken, ran, settling, overtaken>>

\* apply_change refuses what changes nothing, and fluid over solid ground.
Refused(c) ==
    LET current == block_at(View, c.pos)
    IN \/ chunk(c.pos) \notin cached
       \/ current = c.new_block
       \/ is_fluid(c.new_block) /\ is_solid_obstacle(current)

\* What turned to rock while it was to flow on is ticked again at water's pace.
RetickDelay(b) == tick_delay[IF is_fluid(b) THEN b.kind ELSE "water"]

\* apply_changes, one change: write it, tick it again, wake its neighbours.
Apply(c) ==
    /\ due = {} /\ settling.queue = <<>> /\ c \in changes
    /\ changes' = changes \ {c} /\ overtaken' = overtaken \ {c.pos}
    /\ IF Refused(c) THEN UNCHANGED <<block, pending>>
       ELSE /\ block' = [block EXCEPT ![c.pos] = c.new_block]
            /\ \E V \in {Visible(block', cached)} :
                  pending' = pending \cup Seeds(V, fluid_neighbours(c.pos)) \cup
                    {[pos |-> d.pos, wait |-> RetickDelay(d.new_block)] :
                        d \in {e \in {c} : e.reschedule}}
    /\ UNCHANGED <<algorithm, edits, cached, status, broken, ran, due, settling, stale>>

-----------------------------------------------------------------------------
(* A chunk is streamed to a player (on a pool thread), or unloaded.        *)

\* Scan order of fluid_frontier_cells.
Before(p, q) == \/ p[2] < q[2]
                \/ p[2] = q[2] /\ p[1] < q[1]
                \/ p[2] = q[2] /\ p[1] = q[1] /\ p[3] < q[3]

Scanned(S) ==
    CHOOSE s \in [1..Cardinality(S) -> S] :
        \A i, j \in DOMAIN s : i < j => Before(s[i], s[j])

\* The job loads the chunk and starts settle_chunk.
Stream(c) ==
    /\ settling.queue = <<>>
    /\ cached' = cached \cup {c}
    /\ status' = [status EXCEPT ![c] = IF @ = "new" THEN "streamed" ELSE @]
    /\ settling' = IF Frontier(c) = {} THEN Idle
                   ELSE [chunk |-> c, queue |-> Scanned(Frontier(c)), applied |-> 0]
    /\ stale' = stale \cup (IF c \notin cached \/ Frontier(c) # {} THEN Seam(c) ELSE {})
    /\ UNCHANGED <<world, pending, broken, ran, due, changes, overtaken>>

Only(q, S) == IF q \in S THEN <<q>> ELSE <<>>

Sides(p, S) == Only(Offset(p, 1, 0, 0), S) \o Only(Offset(p, -1, 0, 0), S) \o
               Only(Offset(p, 0, 0, 1), S) \o Only(Offset(p, 0, 0, -1), S)

\* What settle_chunk queues after change c: itself, then its neighbours.
Requeued(c, S) ==
    Only(c.pos, {d.pos : d \in {e \in {c} : e.reschedule}}) \o
    Only(above(c.pos), S) \o Only(below(c.pos), S) \o Sides(c.pos, S)

\* The change to q in C, if there is one.
At(C, q) == CHOOSE c \in C : c.pos = q
QueuedAt(C, q, S) == IF \E c \in C : c.pos = q THEN Requeued(At(C, q), S) ELSE <<>>

\* After the changes for cell p, in the order in which the kernels list them.
QueuedAfter(C, p, S) ==
    QueuedAt(C, p, S) \o QueuedAt(C, below(p), S) \o
    QueuedAt(C, Offset(p, 1, 0, 0), S) \o QueuedAt(C, Offset(p, -1, 0, 0), S) \o
    QueuedAt(C, Offset(p, 0, 0, 1), S) \o QueuedAt(C, Offset(p, 0, 0, -1), S)

\* The changes settle_chunk makes for cell p.
SettleChanges(V, p) ==
    {c \in compute_tick(algorithm, V, p) :
        /\ c.pos \in DOMAIN V /\ V[c.pos] # c.new_block
        /\ is_fluid(c.new_block) => ~is_solid_obstacle(V[c.pos])}

CapReached == max_settle_changes # 0 /\ settling.applied >= max_settle_changes

\* settle_chunk: the change budget is spent.
SettleStop ==
    /\ settling.queue # <<>> /\ CapReached
    /\ settling' = Idle
    /\ stale' = stale \cup CellsOf(settling.chunk)
    /\ UNCHANGED <<world, cached, status, pending, broken, ran, due, changes, overtaken>>

\* The changes C are made to the chunk, and the queue is what is left to do.
Settled(C, queue) ==
    /\ block' = [q \in Cells |-> IF \E c \in C : c.pos = q THEN At(C, q).new_block
                                ELSE block[q]]
    /\ settling' = IF queue = <<>> THEN Idle
                   ELSE [chunk |-> settling.chunk, queue |-> queue,
                         applied |-> settling.applied + Cardinality(C)]
    /\ overtaken' = overtaken \cup ({c.pos : c \in C} \cap {c.pos : c \in changes})

\* settle_chunk, one cell of its queue.
SettleStep ==
    /\ settling.queue # <<>> /\ ~CapReached
    /\ \E V \in {LocalView}, p \in {Head(settling.queue)} : \E C \in {SettleChanges(V, p)} :
          \E queue \in {Tail(settling.queue) \o QueuedAfter(C, p, DOMAIN V)} : Settled(C, queue)
    /\ UNCHANGED <<algorithm, edits, cached, status, pending, broken, ran, due, changes, stale>>

\* chunk_unloader drops the chunk from the cache (see ChunkStore).
Unload(c) ==
    /\ Between /\ c \in cached
    /\ cached' = cached \ {c}
    /\ stale' = stale \cup Seam(c)
    /\ UNCHANGED <<world, status, pending, broken, ran, due, changes, settling, overtaken>>

-----------------------------------------------------------------------------
Tick == Advance \/ Drain \/ (\E p \in due : Evaluate(p)) \/ (\E c \in changes : Apply(c))

Settle == SettleStop \/ SettleStep

Players == \E p \in Cells : Break(p) \/ \E b \in Placeable : Place(p, b)

Next ==
    \/ Tick \/ Settle \/ Players
    \/ \E p \in Cells : SeedBreak(p)
    \/ \E c \in Chunks : SettleLoaded(c) \/ Stream(c) \/ Unload(c)

\* The server ticks, the systems run in every tick, and pool jobs end.
Spec == /\ Init /\ [][Next]_vars
        /\ WF_vars(Tick) /\ WF_vars(Settle)
        /\ WF_vars(\E p \in Cells : SeedBreak(p))

-----------------------------------------------------------------------------
TypeOK ==
    /\ block \in [Cells -> Block] /\ algorithm \in Algorithms
    /\ cached \subseteq Chunks
    /\ status \in [Chunks -> {"new", "streamed", "settled"}]
    /\ pending \subseteq [pos : Cells, wait : Nat]
    /\ broken \cup due \subseteq Cells /\ ran \in BOOLEAN
    /\ changes \subseteq [pos : Cells, new_block : Block, reschedule : BOOLEAN, fizz : BOOLEAN]
    /\ settling \in [chunk : Chunks, queue : Seq(Cells), applied : Nat]
    /\ edits \in 0..MaxEdits /\ stale \cup overtaken \subseteq Cells

\* What a tick at p would do because of p and its six neighbours.  (Where the
\* vanilla kernel spreads to hinges on cells further away.)
WantsIn(alg, V, p) ==
    {c \in compute_tick(alg, V, p) : alg = "simplified" \/ c.pos \in {p, below(p)}}

Wants(p) == WantsIn(algorithm, View, p)

\* Something is on its way to p.
Awaited(p) ==
    \/ \E t \in pending : t.pos = p
    \/ p \in due
    \/ \E c \in changes : c.pos \in {p} \cup fluid_neighbours(p)
    \/ broken \cap ({p} \cup fluid_neighbours(p)) # {}
    \/ settling.queue # <<>> /\ settling.chunk = chunk(p)

Live(p) == chunk(p) \in cached /\ status[chunk(p)] = "settled"

(* Fluid never hangs: wherever a tick would change something, one is on its *)
(* way, whatever was edited, drained in part, reduced away or refused --    *)
(* save for cells named stale.                                              *)
NothingHangs == \A p \in Cells \ stale : Live(p) /\ Wants(p) # {} => Awaited(p)

\* The cells p's level may come from.
Feeders(p) ==
    {q \in Cells \cap (Beside(p) \cup {above(p)}) : block[q].kind = block[p].kind}

\* Flowing blocks, none of them stale, that get their fluid from each other
\* only.
Puddle(S) ==
    \A p \in S : /\ is_fluid(block[p]) /\ ~is_source(block[p])
                 /\ p \notin stale /\ Feeders(p) \subseteq S

Quiet == Between /\ pending = {} /\ broken = {}

(* Where the source was taken away the flow drains off completely: no       *)
(* puddles that feed each other stay behind.                                *)
NoOrphans == Quiet => \A S \in SUBSET Cells : Puddle(S) => S = {}

(* A source stays until a player removes it or it turns to rock: neither    *)
(* falling nor spreading fluid weakens it.  Only a change that was computed *)
(* before a pool thread formed the source there may still wash over it.     *)
SourcesKept ==
    [][\A p \in Cells \ overtaken :
          is_source(block[p]) /\ edits' = edits
             => block'[p] = block[p] \/ is_solid_obstacle(block'[p])]_vars

(* Fluids come to rest: once no chunk is streamed, settled or unloaded any  *)
(* more, the ticks run out, whatever the order and the budget they run in.  *)
Undisturbed == <>[][FALSE]_cached /\ <>[](settling = Idle)
ComesToRest == Undisturbed => <>[]Quiet
=============================================================================
