# Verification of the FerrumC server

TLA+ models of FerrumC's own core logic, model-checked with TLC and, in part, proved with TLAPS.
Paths are relative to the repository (`src/` is its root in `PROJECT.json`, so that
`src/src/lib/world/...` there is `src/lib/world/...` in the repository).

## 1. The system

FerrumC is a Minecraft server. One **main thread** runs a scheduler of timed schedules; the *tick*
schedule runs the ECS systems one after the other. Beside it run a **thread pool** (chunk jobs,
batches), the **acceptor thread** with an async runtime (one task per connection, one per writer),
and the **ctrl-c handler's thread**. They share `GlobalState`: the world (a DashMap of chunks over an
LMDB table), the player list, the pool, `shut_down`. Network tasks hand packets and new connections
to the tick thread through channels; pool jobs hand encoded chunks back through a queue.

| Component | State it keeps | Operations | What makes it correct |
|---|---|---|---|
| World store (`lib/world/src/db_functions.rs`, `lib/storage/src/lmdb.rs`, `lib/utils/src/world`, `chunk_unloader.rs`, `world_sync.rs`) | chunk cache with dirty flags, table, what LMDB has not flushed | load or generate, look up, edit, sync, unload, stop, restart | no edit is lost; clean means stored; a finished sync survives a power loss; the whole is one map with a save |
| Chunk streaming (`chunk_calculator.rs`, `chunk_sending.rs`, `chunk_receiver.rs`) | per player: queue, pending, loaded, unloading; results in flight | recalculate, submit jobs, drain results, send batches and unloads | nothing in view is forgotten; no double work; both sides agree on what is loaded; the view fills |
| Thread pool (`lib/utils/threadpool`) | queued jobs | oneshot, batch, wait | jobs end or unwind; wait returns |
| Timed scheduler (`lib/scheduler`) | heap of deadlines, bursts | run the due schedules, catch up, park | rates, phase, order, no starvation, shutdown noticed |
| Start, game loop, shutdown (`main.rs`, `game_loop.rs`, `shutdown_systems`) | `shut_down`, signal and response channels | loop, accept, signal, answer | main and acceptor never wait for each other for ever; a stop does not panic |
| Fluids (`lib/world/src/fluid`, `lib/world/src/scheduler`, `systems/fluids`) | blocks, queue of ticks, settled chunks | seed, drain under a budget, evaluate, apply, settle | fluid never hangs, drains off, eats neither terrain nor sources, comes to rest |
| Connections (`lib/net/src/connection.rs`, `conn_init`, `player_list.rs`, `new_connections.rs`, `connection_killer.rs`, `keep_alive_system.rs`, `emit_player_joined.rs`, `player_spawn.rs`, `player_despawn.rs`, `world_sync.rs`) | entity of a connection, player list and disconnection queue, channels, saved player data, who is shown to whom | accept, log in, join, keep alive, kick, save who is online, disconnect and save | nobody falls between list and queue; one leave per join; a player who comes back finds what was done; a broken connection is torn down |
| Chunk sections (`lib/world/src/chunk`) | uniform, paletted or direct storage | read, write, change representation, send | counts and widths are exact; a write changes one cell; clients decode what the server reads |
| Digging and placing (`digging_system.rs`, `player_action.rs`, `place_block.rs`) | the dig in progress, messages and deferred commands, what clients were told | start, cancel, finish, place | every packet is answered once; clients agree with the world; no break without its dig |
| Places and encodings (`pos.rs`, `create_key`, `pack_value`; `var_int.rs`, `network_position.rs`, `compression.rs`) | none | position to chunk, section, cell, bits; numbers and frames to bytes | what is encoded decodes to itself; different things have different places |
| Inventories, commands, packet contents, world generation, import, configuration, reporting, generated data | see `PROJECT.json` | | not modelled, see section 7 |

The hard behaviours: the cache is shared by the tick thread, the pool and the ctrl-c thread, and
only single DashMap calls are atomic; chunk jobs take many ticks and finish in any order while the
player moves; settling of fluids writes into chunks from pool threads; the clock may run ahead of
the loop for ever; LMDB is opened with `NO_SYNC`; a stop runs two threads that both watch one flag.
A connection is watched by three threads, any of which may end it; the systems of a tick run one at a
time (the executor is single-threaded, `game_loop.rs:253`) but in an order that is largely the
scheduler's choice, with commands that take effect between them.
`PROJECT.json` lists each hazard at its line, with the property that would catch it or the reason why
none does yet.

## 2. Modules

| Module | Models | Checked by |
|---|---|---|
| `WorldStore` | abstract: a map from chunks to edits, with a save and stops | (as a property) |
| `ChunkStore`, `MCChunkStore` | cache, table, loads, sync, unloading, stops; the mapping to `WorldStore` | `store_*` |
| `ChunkStoreProofs` | proofs about `ChunkStore` | tlapm |
| `ChunkStreaming`, `MCChunkStreaming` | one player's chunks: calculator, sender, jobs, client | `stream_*` |
| `TimedScheduler`, `MCTimedScheduler` | scheduler and main loop | `sched_rates` |
| `GameLoop`, `MCGameLoop` | extends `TimedScheduler` with the acceptor and the two channels | `loop_stop` |
| `GameLoopProofs` | proofs about `TimedScheduler` and `GameLoop` | tlapm |
| `FluidKernel` | what one fluid block does on its tick, both algorithms | through `FluidTicks` |
| `FluidTicks`, `MCFluidTicks` | seeding, queue, batches, settling on pool threads | `fluid_rest` |
| `FluidTicksProofs` | proofs about `FluidKernel` and `FluidTicks` | tlapm |
| `PlayerSessions` | abstract: sessions that start from a record and write all that was done at the end, and part of it before | (as a property) |
| `Connections`, `MCConnections` | network task, writer task and tick thread, from login to despawn; the mapping to `PlayerSessions` | `conn_life` |
| `ConnectionsProofs` | proofs about `Connections`, the refinement among them | tlapm |
| `ChunkSections` | one section in its three representations, its palette, its client | `section_*` |
| `ChunkSectionsProofs` | proofs about `ChunkSections` | tlapm |
| `ChunkStreamingProofs` | proofs about `ChunkStreaming` | tlapm |
| `Digging`, `MCDigging` | digs, placements, their messages, deferred commands, broadcasts and answers | `dig_place` |
| `DiggingProofs` | proofs about `Digging` | tlapm |
| `Layouts` | places of blocks, keys of rows, bits of packed indices | through `EncodingProofs` |
| `Wire` | positions, VarInts and frames as bytes | through `EncodingProofs` |
| `EncodingProofs` | proofs about `Layouts` and `Wire` | tlapm |

The actions carry the names of the functions they model; the `map` of `PROJECT.json` gives the lines
of each definition.

**ChunkStore.** A chunk's content is the set of edits it has absorbed, which is all it takes to see
an old copy replace a new one. A step is one DashMap call, or what the code does under one guard, or
one LMDB transaction; `pc`, `at`, `buf`, `todo`, `batch` and `snap` are the local variables a thread
carries from one to the next. A chunk comes in by `LoadBegin`, `ChunkExists`, then `InsertGenerated`
or the lookups, `ReadRow`, `CacheInsert`, `Fetch` (the `expect` that can fail is `FetchPanics`).
`World::sync` is `Serialise` for each chunk the iterator meets, `BatchUpsert`, `MarkClean` for each,
`Flush`. `chunk_unloader` is `GcBegin` … `GcEnd` with players and `GcAllBegin` … `GcClear` without.
`recent` holds the table states a power loss may fall back to since the last flush. `applied`,
`promised` and `raced` are ghosts. `raced` collects the chunks on which two threads overlapped in
one of four ways: an edit inside another thread's load, sync or clear; a row written under another's
load; an insert while another holds the evicted copy; an eviction under another's sync scan. These
overlaps can lose an edit in the code. The properties say what holds on every other chunk, and
section 5 proves that without pool workers and ctrl-c there are no overlaps at all.

**ChunkStreaming.** One player; x and z are treated alike in the code, so the world is one row of
chunks. `Calc`, `Submit` and `Drain` are the systems of a tick in their order; between them packets
move or teleport the player, jobs end with a packet or without, and the connection may break.
Positions count half blocks, so that the cast towards zero in the movement handlers differs from
the floor as it does for floats.

**TimedScheduler.** Deadlines are relative to the present. `owed` and `next` are ghosts: the runs the
clock has granted a schedule and the instant of the next grant. Runs take any time up to `MaxRun`,
longer than all periods together: permanent overload is one of the cases.

**GameLoop.** Takes over the state and the steps of `TimedScheduler`, and adds the acceptor's bind, check,
`select!` branches, answer, errors and panics, and the main thread's `expect`s.

**FluidTicks.** Cells hold air, rock or fluid with its level; the world view (`View`) shows cached
chunks only and everything else as stone, the settling view one chunk. Ticks are kept as `[pos,
wait]`, deduplicated as the queue does; `Drained` is any choice the budget can leave, as the chunks
come in map order. Evaluation is one step per tick, and a pool thread may settle a chunk between two
of them; application is one step per change. `stale` is a ghost: cells whose surroundings the code
lets change without waking them (a border where a chunk was loaded, unloaded or settled, a settling
that ran out of budget, a placement whose acknowledgement failed, a break beside or a tick in an
unloaded chunk). `NothingHangs` is claimed for all other cells; the stale ones are hazards of the
code and are listed as such. `overtaken` is another: cells a pool thread has written to since the change
that still waits for them was computed. A terrain holds what the generator makes (`Natural`): its only
fluid is water at level 0 (`world_gen/src/lib.rs:288-299`), so worlds that were imported, or saved by an
earlier run of the server with flows in them, are not among the initial states. A change that is to be
ticked again is ticked at the delay of what it has become, which is water's when lava has turned to rock
(`RetickDelay`, `mod.rs:594-601`), and of two equal fizzes for one cell the one with the greater block id
wins (`RawId`).

**Connections.** A connection and its entity share a name, and a player's data is the number of things
the player has done: that is what it takes to see a save that is lost or too old. `task` is the network
task's place in `handle_connection`, `running` the flag it shares with its writer task and the
`StreamWriter`. Whoever notices the end of a connection calls `PlayerList::disconnect` (`Disconnect`),
which acts for the first of them only. The tick is its systems in order, one message or queue entry a
step; spawns and despawns are commands, applied by `ApplyDeferred` and at the end of the tick. The
order is that of registration (`Systems`); only accept, apply and emit are chained in the code, which
is listed as a hazard. Between ticks the `world_sync` schedule saves everybody who is online
(`sync_world`, then `SyncGoesOn` for each further player, so that a client may log in between two
saves); that it runs every 15 seconds is left out, it may run between any two ticks and not after the
stop was requested. (The chunks it saves before are `ChunkStore`'s.) `shared` is a ghost: players who logged in again before their last
connection was torn down. Nothing in the code prevents that, and the two entities then overwrite each
other's data; `NothingRolledBack` and `OnlineIsVisible` are claimed for all other players.

**ChunkSections.** The section is a record of its representation, with the parts that are not in use
empty. `replace_block` is the palette's half of a write, in the code's order (the old block is removed
before the new one is added, so that a freed entry is reused at once). The cells are five and
`CHUNK_SECTION_LENGTH` is their number, since the only arithmetic on the length is its comparison with
a count; widths end at `MaxWidth` instead of 8 bits.

**Digging.** The handler of the packet, the three listeners and the placement handler, each a system of
the tick; the listeners' inserts and removals of `PlayerDigging` are deferred to the end of the tick,
where of each player's the last one stands: `commands` holds that one. `Tell(S, ...)` is a broadcast that reached the clients
in `S` before a send failed (a send fails only when the writer task ends between the look at its flag
and the send; on a connection known to be over, `send_packet` returns `Ok` and drops the packet).
Ghosts say what the code knowingly leaves without an answer (`silent`), what a client was not told
(`missed`), which acknowledgement came before its update (`misled`), how long a block has been dug
(`began`), and which changes no fluid has heard of (`unheard`).

**Layouts and Wire** have no state. They are the arithmetic the other modules take for granted:
`ChunkStore` takes chunks for distinct keys, `ChunkSections` takes cells and indices for what they
stand for. `&`, `|` and shifts are written as division, remainder and sum (or as sets of bits, where a
mask clears some and keeps others). These modules hold numbers beyond TLC's 32 bits, so that TLC cannot
evaluate them; the proofs cover every value.

## 3. Runs

| Run | Instance | Shows | Distinct states |
|---|---|---|---|
| `store_seq` | 2 chunks, 1 edit, tick thread only | `ChunkStore` implements `WorldStore`, across crashes and power losses | 46,423 |
| `store_conc` | 1 chunk, 1 edit, 2 workers (symmetric), ctrl-c thread | no lost edit, clean means stored, rows before cache, promises survive, the tick thread's `expect` holds | 1.07 million |
| `store_exit` | 1 chunk, ctrl-c thread | violation: a graceful stop does not save the world | |
| `stream_view` | positions ahead of the origin, one-block chunks, radius 1, one chunk per tick | queue, jobs, agreement with the client, the view fills | 1.27 million |
| `stream_crossing` | positions across the origin | violation: a crossing without `ChunkCalc` | |
| `sched_rates` | Burst (period 2), Skip (3, phase 1), Delay (3); catch-up 3, global limit 3 | rates, phase, order, shutdown, no starvation | 148,154 |
| `loop_stop` | two schedules, catch-up 2 | a requested stop ends the process; without failure or race it ends cleanly | 21,439 |
| `fluid_rest` | L-shaped slice of 5 cells over two chunks, two springs, both algorithms, budget 1 tick, settle budget 2, 1 edit (stone, water, lava, air) | nothing hangs, no orphans, sources kept, comes to rest | 407,490 |
| `conn_life` | 2 connections of 1 or 2 players, one of which does one thing | nobody stranded, announced once, data survives, visibility, no ghosts, tear-down, saves of online players, `Connections` implements `PlayerSessions` | 366,482 |
| `section_map` | 5 cells, 5 blocks, indices of 1 or 2 bits | counts, widths, shortcuts, client, one cell per write | 21,353 |
| `section_shrink` | same | violation: a section turns uniform one cell too early | |
| `dig_place` | a survival and a creative player, 2 cells, 2 terrains, 3 packets, 3 orders of the systems | one answer per packet, clients agree, fluids hear, digs survive, no break for free | 3.94 million |

### Bounds, and why they are enough

* *Chunks and edits.* Chunks interact only in the sync's batch and in the unloader's scans: two of
  them exercise both (`store_seq`). Losing an edit needs one edit; two are needed only to tell a
  serialised chunk from a changed one. Two workers are the least that race with each other, and the
  ctrl-c thread is one in the code.
* *Streaming.* With radius 1 and one chunk per tick, views overlap, leave a chunk and come back while
  its job is out. `MaxLost` bounds chunks whose job reported no packet at one time.
* *Scheduler.* One schedule for each behaviour, periods that do and do not coincide, runs longer than
  the longest period. `MaxRun` and `MaxSleep` bound one run and one oversleep, never their number.
* *Fluids.* Three cells in a row are enough for a flow with a feeder, itself and what it feeds; the one
  below lets fluid fall, and the second spring lies beside the first cell of the row too, so that a
  settling pool thread forms a source there, under a change that waits. Two chunks make a border; a
  budget of one makes every batch a partial one; a settle budget of two is reached. `MaxEdits` bounds
  the edits; it also keeps the state space finite. `tick_delay` is scaled down from 5 and 30 to 2 and 3,
  its order kept. The proofs have no bound.
* *Connections.* Connections meet only in the lists and in each other's view: two of them, of one player
  (back after or during the tear-down) or of two. With `MaxDone` at one, one of the players does one
  thing, in any connection of its: a save that misses it has lost it. The proofs have no bound.
* *Sections.* Two-bit indices hold four entries; five blocks outgrow them into the direct form, and five
  cells hold them all and still shrink to a uniform section. Palettes that are built for more blocks
  than they hold (`HasSpaceFor`) bring reuse of free entries from the first write.
* *Digging.* Three packets are a dig with a placement or another dig inside, or a start, a cancel
  and a finish. The orders are that of registration, its reverse, and one in which listeners and
  handlers alternate. Dirt takes one unit of time, bedrock cannot be broken. `MaxAge` is one: how long a
  block has been dug is told apart up to the longest time that any block takes.

### Fairness

Safety runs need none. `stream_view` assumes that the tick thread runs its systems (WF on each) and
that jobs end (WF on each chunk's job; a job that unwinds ends too, without a report). `sched_rates`
assumes that runs end and a parked thread wakes (WF on the main loop). `loop_stop` adds WF on the
acceptor and SF on the signal branch: `tokio::select!` polls its branches in random order, so that
connections cannot shut the signal out for ever. `fluid_rest` assumes that the server ticks, that
break events are read and that a settling job goes on. `conn_life`
assumes that the tick thread runs its systems and goes on with a save it has begun, that the tick and
the keep-alive schedule get their turn again and again (SF on `Tick` and on `ReapStopped`, since saves
may come in between any number of times; it is what `EveryScheduleRuns` says of a schedule), and that a network
task which has its entity, or whose entity is gone, is polled. Moves, teleports, edits, connections,
failures and shutdowns are never fair: they may not come.

`CHECK_DEADLOCK` is off only where the program stops for good (scheduler, game loop, connections).

## 4. Findings

Disagreements that a run shows:

1. `game_loop.rs:219` says the shutdown systems save the world; they only send packets, to players who
   are not saved either, and the ctrl-c handler's sync is not waited for (`store_exit`).
2. `chunk_calculator.rs:32-33` says `ChunkCalc` fires on every crossing; at negative coordinates the
   movement handlers compute another chunk and it does not (`stream_crossing`).
3. `section/mod.rs:319-320` says that every cell always reads back exactly what was written;
   `palette.rs:83` adds one to a count that already includes the new use, so a section turns uniform
   when one cell still holds another block (`section_shrink`).

Disagreements met while modelling, without a run of their own:

* `db_functions.rs:150-152` says no chunk can be re-dirtied inside a sync; the ctrl-c thread and the
  settling jobs do it, and the change is lost on unload. (`CleanMeansStored` and `NoLostEdit` are
  claimed outside such overlaps.)
* `db_functions.rs:49,73` assert that a chunk was just inserted; the unloader may remove it in
  between. The job then panics and its chunk stays pending. (`TickFindsItsChunk` is the part that holds.)
* `game_loop.rs:225` asserts that the signal is taken; an acceptor that sees the flag first is gone.
  (`CleanStop` says when it is not.)
* `systems/fluids/mod.rs:333-336` says a fluid change can never destroy terrain; `apply_change`
  refuses only fluid over rock, and a block that dries up is written as air over whatever has become
  of it since it was evaluated. A change that was computed before a pool thread settled the chunk may
  likewise wash over a source that thread has formed there. (`SourcesKept` is the part that holds: it
  excepts the cells that were overtaken. The exception was found when the property was to be proved.)
* `chunk/mod.rs:123-124` says `get_block` returns void air below a chunk; its division rounds towards
  zero, so the fifteen layers below read the block sixteen layers higher (theorem `BelowReadsAbove`).
  `set_block` asserts `section <= len` where `<` is meant (line 164); the index panics all the same.
* `VarInt::len` (`var_int.rs:87-95`) gives one byte to -1, for which `write` writes five; its callers
  pass lengths and packet ids, which are not negative (theorem `FramesStayApart`).

Also met, and listed as hazards: ticks at the border of an unloaded chunk are consumed and nothing
resumes the flow when the chunk comes; settling again on every streaming dries up border water fed from
the next chunk; the load-time pass does not finish what a settling over budget left; a failed
acknowledgement of a placement skips its fluid ticks; a player who logs in again during the tear-down
gets two entities.

## 5. Proofs

Every theorem holds for all values of the constants. Each component's invariant was first checked with
TLC on the instances above.

**ChunkStoreProofs**, from `ThreadsAssumption` (the tick thread, the workers and the ctrl-c threads are
different threads, and `NoChunk` is no chunk).

* `StoreTypeCorrect`, with `Typed == TypeOK /\ Shape` (who can be where, and on what).
* `StoreHasRows`, `TickLoadsDoNotPanic`: from `Rows`: whatever is resident or about to be inserted has
  a row, and rows never go away.
* `StoreLosesNoEdit`, `StoreCleanIsStored`: `NoLostEdit` is not inductive, since it says nothing of the
  copies the threads carry. `Ind == Typed /\ Rows /\ Coherence` adds, for every chunk outside `raced`,
  that a copy read for a load is the row; that a sync's snapshot is what is in memory; that a chunk
  already written by an unload-all pass equals its row; that a resident clean chunk equals its row.
  Each step either keeps these or puts the chunk into `raced`; the four kinds of overlap are exactly
  the steps that would break a part.
* `StoreKeepsPromises`: `Promises` adds that the table is one of the `recent` states; that a promise is
  in the row, and in every recent row; and that a syncing thread finds its goal in the table or is
  about to write it (`Covers`). `TableMoves` lists the ways a row can change; a flush is the only step
  that makes a promise, and it makes only those that are in the table.
* `SequentialNeverRaces`, `SequentialStoreIsExact`: without workers and ctrl-c threads `raced` stays
  empty, and the next reader of any chunk sees exactly the edits made.
* `SequentialStoreIsAMap`: then `ChunkStore` implements `WorldStore`, step by step: an edit is an edit, a
  flush a save, a power loss a fall back to some state between the last save and the present, and all
  else a stutter. `Alone` adds to `Promises` that rows only grow from one recent table to the next, so
  that a fall back invents nothing, and that while a sync scans nothing is edited, so that it saves
  the whole world.

**GameLoopProofs**, from `SchedulesAssumption` (positive periods and limits, as the constructors
enforce). For the scheduler: `Ind == TypeOK /\ InStep /\ RunsWhenDue /\ InOrder /\ Noticed`. `InStep` is
the strengthening: a schedule's deadline lies on the clock's grid, `n` periods before the clock's next
grant, and it still owns at least as many grants as deadlines it has passed, up to its depth less the
current burst. It gives `SchedulesNeverAhead` and `SchedulesKeepPhase`; the others follow from their
own parts (`ShutdownIsNoticed`, `DeadlinesServedInOrder`, `SchedulerTypeCorrect`).
For the server: `ServerRunsTheScheduler`: what a step of the server does to the scheduler's variables
is a step of `TimedScheduler` or a stutter; `ServerKeepsItsSchedules`: hence all of the above hold in the
server. `ServerStopsCleanly`: `CleanStop` needs the states of both sides of the two channels (`Answers`,
`Signalled`), that the main loop is left only on request (`LeftOnRequest`), and that
an undisturbed acceptor waits in `select!` until the signal is sent (`Undisturbed`).

**ConnectionsProofs**, from `BoundsAssumption`. `Ind == TypeOK /\ Joining /\ Listed /\ InPhase`: who
waits to be accepted has logged in and has no entity, and waits once; an entity that is present is on
the list or in the queue and not in both; and what states an entity can be in at each system of the
tick, alive and between ticks if `sync_world` has still to save it. It gives `NobodyIsStranded` and `EverybodyIsAnnounced` (the killer's branch for half-players is
never taken). `NothingIsRolledBack` adds `Kept`: of a player who never overlapped at most one
connection is between login and tear-down, and its data, what its client was told, and the table
agree with what was done. `ConnectionsAreSessions` is the refinement: initial states map to initial
states of `PlayerSessions`, accepting maps to `Join`, the killer to `Leave`, `Play` to `Play`, each player
`sync_world` saves to `Save`, and all else to a stutter. `OnlinePlayersAreVisible` and `NobodyHaunts` follow what a join or leave message still
has to do: `Messages` says at which systems of the tick one can be in flight and for whom, `OwnTab` that a
client knows itself and nobody else before it exists, `Shown` that everybody a live client lists is alive
or has a leave on the way.

**ChunkSectionsProofs**, from `SectionAssumption` (finitely many cells, more than two).
`Ind == TypeOK /\ CountsExact /\ DirectCounts`. The counts are cardinalities of the sets of cells that
use an entry, and each write moves one cell from one set to another; the lemmas say so for
`remove_block` and each branch of `add_block`. It gives `PalettesCountRight`, `ClientsDecodeSections`
and `WritesAreLocal` (no cell but the written one changes, or the section became uniform over one other
cell, which is finding 3). `ShortcutsAgreeAlways` sums over the palette: the
uses of any set of entries add up to the number of cells that hold one of them (`SumIs`, `UsesAddUp`),
since among the sets for which they do not there would be a least one.

**ChunkStreamingProofs**, from `PositionsAssumption`. `Ind == TypeOK /\ QueuedOnce /\ OneJobPerChunk /\
JobsArePending /\ Unloads /\ ClientHoldsLoaded`. `LoadedChunksAreInView` and `MissingChunksAreQueued`
assume `CastsRoundDown`, which is true of positions that are not negative and false of others (finding
2): with it, every crossing is noticed, and `ViewInd` is inductive.

**EncodingProofs** (no assumption). `BlocksFindTheirPlace`, `PlacesAreBlocks`: blocks are pairs of a chunk
and a place in it. `KeysAreDistinct`: rows of different chunks, or dimensions whose hashes differ in
their low 32 bits, have different keys. (`ChunkPos::new` admits coordinates up to 2^22; `pack` keeps 22
bits, so the theorem is about the chunks of 26-bit blocks.) `ChunksReadBack`: inside its height a
chunk reads back what is written, and the write changes no other section and in its own one at most one
other block, where all but two held the new block before; `section_set_block` takes this
from `WritesOneCell`, which `WritesAreLocal` proves of the palettes (finding 3).
`BelowReadsAbove`: below its height a chunk reads blocks of its lowest section. `IndicesAreSeparate`: packing an index changes
its own bits only. `ResizeCopies`: one round of `resize`'s loop, and of the same loop in
`network.rs:60-67`; that all 4096 rounds copy everything is an induction over the rounds.
`PositionsReadBack`; `VarIntsReadBack`: whatever bytes follow, the
reader takes what the writer wrote and finds the same number, negative ones included;
`FramesStayApart`: the reader takes the bytes of one packet. The writer's loop is written as its at
most five rounds.

**DiggingProofs**, from `DiggingAssumption` (finitely many players; air breaks at once and no block takes
longer than `MaxAge`; a tick runs each system once, in any order). `DiggingTypeCorrect`.
`PacketsAreAnsweredOnce`: `Accounted` counts each packet at its stage (waiting for the handler, a message,
a broadcast under way, acknowledged, or silently dropped) and finds it at exactly one.
`ClientsAgreeWithWorld` and `FluidsHearOfChanges` are inductive as they are, given the types.
`DigsSurvive`: `AsPlanned` says what each player's component will be when the commands of the tick apply,
unless commands of two systems compete. `NobodyBreaksForFree`: `Earned` says of each dig, deferred or in
place, that its block has been dug for as long as the dig is old and takes the time the dig was given
(`Honest`), or that the dig is over and its removal is on the way.

**FluidTicksProofs**, from `FluidAssumption` (finitely many cells, natural terrains, delays of at least a
tick).

* `FluidTypeCorrect`. `TickChanges` is the lemma about the kernels that all else rests on: what a fluid
  computes changes its own cell or a neighbour below or beside it, changes something, spares rock, turns a
  source to rock only, and is ticked again if it is fluid. `Reduced`: of several changes for a cell the
  one of the highest priority waits, alone.
* `SourcesStay`: `OnePerCell` and `Spares` (a waiting change that was not overtaken turns a source to
  nothing but rock).
* `FluidsNeverHang`: `HangInv` is the invariant, and `Attended` its heart: a cell that needs a tick has one
  queued or due, or stands next to a change that will be made, or to a break nobody has read, or is in
  the settling thread's queue, or is an open spring of a chunk never settled. It speaks of unloaded chunks
  as well, by what a settling thread would see there, since they are loaded later. That a change waits is
  not enough, it must not be refused: `Effective` says that while ticks are evaluated no waiting change
  is for nothing, unless its cell was overtaken, `Calm` that an overtaken cell needs nothing the settling
  thread does not still do, and `Passed` and `Walled` that it lies in a chunk whose seams are stale. Where a
  new change meets an old one for the same cell, `change_priority` decides: the new one is stronger than
  what is there, so it would win over an old one that changes nothing. `WantsLocal` is the lemma that
  what a cell wants because of itself and its neighbours does not hinge on cells further away, in
  the vanilla kernel only up to where it spreads sideways, which is why `Wants` leaves that out.
* `NoPuddlesStay`, from the same invariant: in a puddle take the highest cells and among these the lowest
  level (`LastElement`, for finite sets). No feeder entitles that cell to its level, so it needs a
  tick; when the world is quiet nobody attends to it but a fresh spring, and it is none.
* `BatchesReduceAlike`: reducing a batch in parts gives what reducing it at once gives, the order-independence
  the comment of `reduce_changes` promises. It is also why the model may evaluate the due ticks one by
  one, where `evaluate_parallel` and the sequential path evaluate them all and reduce once.

Sums over a palette, and last elements of finite sets, are inductions the provers can follow, since a
least counterexample exists (`WFMin` over subsets, from the library). What a recursive function
computes on every input (the breadth-first search of `slope_distance`, all rounds of `resize`) is
beyond them.

Only model-checked: that `ChunkStore` implements `WorldStore` beside other threads is not claimed
(`store_seq` runs it alone, as the theorem does); every liveness property (`ComesToRest`,
`EveryScheduleRuns` and the like), since `ENABLED` and fairness are out of reach. Every invariant and action
property of a passing run has its theorem. Type invariants are proved and not run on their own.

## 6. Plan

Done, in this order: world store, its proofs, streaming, scheduler, its proofs, game loop, fluids;
connections and sessions, sections, digging; proofs for connections, sections, streaming, the game loop
and the promises of the store; places and encodings with their proofs; proofs for digging and fluids,
visibility, shortcuts, and the store as a map. Ahead, in this order:

1. `ChunkStore`: which steps of a store shared by several threads still implement `WorldStore`, chunk by
   chunk, outside `raced`.
2. `FluidTicks`: that `stale` is no larger than it has to be: an action property that names the steps
   which may enlarge it.
3. Contents of streamed chunks: an edit between encoding and sending (`chunk_sending.rs:131`).
4. Inventories: what a client believes while its clicks and the server's updates cross.

## 7. Not modelled, and why

Inventories change in packet handlers of one thread, one at a time; what is hard about them is what
clients believe while packets cross (a click is not echoed, an item found for crafting may be the grid's
own or the output slot's), which is in the plan. Physics and terrain generation are floating-point
arithmetic; commands, text, import and NBT parse and print; configuration is read once; plugins,
dashboard, performance and LAN pinger report about the server; registries and macros are generated,
and make up most of the repository's lines. Of the modelled components: `delete_chunk`,
`load_chunk_batch` and `pre_cache` of the world store have no caller; the receiver's `dirty` deque is
never filled; the plugin schedule registry is drained once before the loop; the fluids' debug freeze and
step, the Nether's rules and the broadcasts are left out; the packets of a login are one step, and the
keep-alive timers a kick at any time; a failed write of player data is left out; which block an
item places, collisions and build limits decide only that a placement is refused or not; light, biomes
and height maps of a chunk; the fields of packets. Encryption, zlib, LMDB, DashMap, Bevy and the async
runtime are libraries, modelled by what the code relies on. One such reliance is untested here: an
insert of `PlayerDigging` for an entity despawned in the same tick is left to Bevy's error handler.

## 8. Running

    tlc -workers 2 -config store_conc.cfg MCChunkStore.tla     # likewise for the other configurations
    tlapm ChunkStoreProofs.tla                                 # likewise for the other *Proofs modules

`PROJECT.json` gives the module and configuration of each run, and for each property a mutant: a
plausible mistake in the code, kept beside the definition it replaces, under which the property fails.
