--------------------------- MODULE ChunkStreaming ---------------------------
(***************************************************************************)
(* How one player's client is kept supplied with chunks.                   *)
(*                                                                         *)
(* Every tick runs chunk_calculator and then chunk_sending (chained, on    *)
(* the tick thread); packet handlers move the player anywhere in between;  *)
(* the thread pool runs the jobs at its own pace.  The state is the        *)
(* player's ChunkReceiver, the jobs on their way, and what the client      *)
(* holds.  The world is one row of chunks: x and z are treated alike, and  *)
(* both systems measure with the larger of the two (Chebyshev).            *)
(***************************************************************************)
EXTENDS Integers, FiniteSets, Sequences, SequencesExt

CONSTANTS
    Positions,          \* where the player can stand, in half blocks
    ChunkBlocks,        \* edge of a chunk in blocks (16)
    ServerDistance,     \* config chunk_render_distance
    ClientDistance,     \* client_info.view_distance, fixed at login
    ChunksPerTick,      \* config performance.chunks_per_tick
    ChunksPerTickMin,   \* config performance.chunks_per_tick_min
    MaxLost             \* bound: chunks without a packet at any one time

ASSUME PositionsAssumption ==
    /\ Positions \subseteq Int /\ Positions # {}
    /\ ChunkBlocks \in Nat \ {0}
    /\ ServerDistance \in Nat /\ ClientDistance \in 0..255
    /\ ChunksPerTick \in Int /\ ChunksPerTickMin \in Nat
    /\ MaxLost \in Nat

\* effective_view_radius
Radius ==
    IF ClientDistance <= 1 THEN ServerDistance
    ELSE IF ServerDistance < ClientDistance THEN ServerDistance
    ELSE ClientDistance

\* The chunk of a position, as ChunkPos::from and chunk_sending compute it ...
FloorChunk(p) == p \div (2 * ChunkBlocks)

\* ... and as the movement handlers and login do: `pos.x as i32 >> 4`, a cast
\* that rounds towards zero and a shift that rounds down.
CastChunk(p) == (IF p < 0 THEN -((-p) \div 2) ELSE p \div 2) \div ChunkBlocks

Dist(a, b) == IF a < b THEN b - a ELSE a - b
Around(c)  == (c - Radius)..(c + Radius)
View(p)    == Around(FloorChunk(p))
AllChunks  == UNION {View(p) \cup Around(CastChunk(p)) : p \in Positions}

VARIABLES
    pos,        \* the player's Position
    waiting,    \* TeleportTracker.waiting_for_confirm
    asked,      \* a ChunkCalc message for the player is unread
    pc,         \* the next system step of the tick
    loading, loaded, unloading, pending,    \* ChunkReceiver
    running,    \* jobs submitted for a chunk and not ended
    done,       \* encoded packets of a chunk waiting in `results`
    failed,     \* None results of a chunk waiting in `results`
    alive,      \* the connection carries packets
    client,     \* chunks the client holds
    login,      \* ghost: chunks login sent, which ChunkReceiver does not know
    lost        \* ghost: chunks whose last job reported no packet

receiver == <<loading, loaded, unloading, pending>>
pool     == <<running, done, failed>>
ghosts   == <<login, lost>>
vars     == <<pos, waiting, asked, pc, receiver, pool, alive, client, ghosts>>

NoJobs == [c \in AllChunks |-> 0]

\* A player joins: login has sent the chunks around the spawn position.
Init ==
    /\ pos \in Positions /\ waiting = FALSE /\ asked = FALSE
    /\ pc = "calc"
    /\ loading = <<>> /\ loaded = {} /\ unloading = {} /\ pending = {}
    /\ running = NoJobs /\ done = NoJobs /\ failed = NoJobs
    /\ alive = TRUE
    /\ login = Around(CastChunk(pos)) /\ client = login
    /\ lost = {}

-----------------------------------------------------------------------------
(* The player.                                                             *)

\* A movement packet, ignored until an outstanding teleport is confirmed.
Move(p) ==
    /\ ~waiting /\ p # pos
    /\ pos' = p
    /\ asked' = (asked \/ CastChunk(p) # CastChunk(pos))
    /\ UNCHANGED <<waiting, pc, receiver, pool, alive, client, ghosts>>

\* teleport_player: the position changes at once, the client confirms later.
Teleport(p) ==
    /\ pos' = p /\ waiting' = TRUE /\ asked' = TRUE
    /\ UNCHANGED <<pc, receiver, pool, alive, client, ghosts>>

ConfirmTeleport ==
    /\ waiting
    /\ waiting' = FALSE
    /\ UNCHANGED <<pos, asked, pc, receiver, pool, alive, client, ghosts>>

ConnectionLost ==
    /\ alive
    /\ alive' = FALSE
    /\ UNCHANGED <<pos, waiting, asked, pc, receiver, pool, client, ghosts>>

-----------------------------------------------------------------------------
(* chunk_calculator::handle                                                *)

\* Nearest first; equally near chunks keep the order of the scan.
Nearer(a, b) ==
    LET centre == FloorChunk(pos)
    IN  \/ Dist(a, centre) < Dist(b, centre)
        \/ Dist(a, centre) = Dist(b, centre) /\ a < b

Nearest(S) ==
    [i \in 1..Cardinality(S) |-> CHOOSE c \in S : Cardinality({d \in S : Nearer(d, c)}) = i - 1]

\* Mutant: the scan does not skip the chunks in flight.
CalcForgetsPending ==
    /\ pc = "calc" /\ pc' = "submit"
    /\ IF asked
       THEN LET wanted == View(pos) \ (loaded \cup Range(loading))
                far    == loaded \ View(pos)
            IN /\ loading' = loading \o Nearest(wanted)
               /\ loaded' = loaded \ far
               /\ unloading' = unloading \cup far
               /\ lost' = lost \ wanted
       ELSE UNCHANGED <<loading, loaded, unloading, lost>>
    /\ asked' = FALSE
    /\ UNCHANGED <<pos, waiting, pending, pool, alive, client, login>>

Calc ==
    /\ pc = "calc" /\ pc' = "submit"
    /\ IF asked
       THEN LET wanted == View(pos) \ (loaded \cup Range(loading) \cup pending)
                far    == loaded \ View(pos)
            IN /\ loading' = loading \o Nearest(wanted)
               /\ loaded' = loaded \ far
               /\ unloading' = unloading \cup far
               /\ lost' = lost \ wanted
       ELSE UNCHANGED <<loading, loaded, unloading, lost>>
    /\ asked' = FALSE
    /\ UNCHANGED <<pos, waiting, pending, pool, alive, client, login>>

-----------------------------------------------------------------------------
(* chunk_sending::handle                                                   *)

\* chunk_per_tick: adaptive, everything, or a fixed number (a negative one
\* is cast to a huge one).
Budget ==
    IF ChunksPerTick = 0
    THEN IF Len(loading) \div 3 > ChunksPerTickMin THEN Len(loading) \div 3
         ELSE ChunksPerTickMin
    ELSE IF ChunksPerTick < 0 THEN Len(loading)
    ELSE ChunksPerTick

\* The chunks that popping the first n of `loading` submits.
Submits(n) ==
    {c \in {loading[i] : i \in 1..n} : c \notin pending /\ c \notin loaded}

\* Mutant: the submitted chunks are not remembered as pending.
SubmitForgotten ==
    /\ pc = "submit" /\ pc' = "drain"
    /\ \E n \in 0..Len(loading) :
          /\ \A m \in 0..(n - 1) : Cardinality(Submits(m)) < Budget
          /\ n = Len(loading) \/ Cardinality(Submits(n)) = Budget
          /\ loading' = SubSeq(loading, n + 1, Len(loading))
          /\ running' = [c \in AllChunks |-> IF c \in Submits(n)
                                             THEN running[c] + 1
                                             ELSE running[c]]
    /\ UNCHANGED <<pos, waiting, asked, loaded, pending, unloading, done, failed,
                   alive, client, ghosts>>

\* Mutant: the budget is looked at only after popping one more.
SubmitPopsFirst ==
    /\ pc = "submit" /\ pc' = "drain"
    /\ \E n \in 0..Len(loading) :
          /\ \A m \in 0..(n - 1) : Cardinality(Submits(m)) < Budget
          /\ n = Len(loading) \/ Cardinality(Submits(n)) = Budget
          /\ loading' = SubSeq(loading, n + 2, Len(loading))
          /\ pending' = pending \cup Submits(n)
          /\ running' = [c \in AllChunks |-> IF c \in Submits(n)
                                             THEN running[c] + 1
                                             ELSE running[c]]
    /\ UNCHANGED <<pos, waiting, asked, loaded, unloading, done, failed,
                   alive, client, ghosts>>

\* Phase 1: pop until the budget is spent, skipping what is in flight or sent.
Submit ==
    /\ pc = "submit" /\ pc' = "drain"
    /\ \E n \in 0..Len(loading) :
          /\ \A m \in 0..(n - 1) : Cardinality(Submits(m)) < Budget
          /\ n = Len(loading) \/ Cardinality(Submits(n)) = Budget
          /\ loading' = SubSeq(loading, n + 1, Len(loading))
          /\ pending' = pending \cup Submits(n)
          /\ running' = [c \in AllChunks |-> IF c \in Submits(n)
                                             THEN running[c] + 1
                                             ELSE running[c]]
    /\ UNCHANGED <<pos, waiting, asked, loaded, unloading, done, failed,
                   alive, client, ghosts>>

\* A job ends: it pushes the encoded packet ...
JobSends(c) ==
    /\ running[c] > 0
    /\ running' = [running EXCEPT ![c] = @ - 1]
    /\ done' = [done EXCEPT ![c] = @ + 1]
    /\ UNCHANGED <<pos, waiting, asked, pc, receiver, failed, alive, client,
                   ghosts>>

\* ... or None: the chunk could not be loaded, vanished from the cache, or
\* could not be encoded ...
JobFails(c) ==
    /\ running[c] > 0
    /\ running' = [running EXCEPT ![c] = @ - 1]
    /\ failed' = [failed EXCEPT ![c] = @ + 1]
    /\ lost' = lost \cup {c} /\ Cardinality(lost') <= MaxLost
    /\ UNCHANGED <<pos, waiting, asked, pc, receiver, done, alive, client,
                   login>>

\* ... or it unwinds (the expect of World::load_chunk) and pushes nothing.
JobPanics(c) ==
    /\ running[c] > 0
    /\ running' = [running EXCEPT ![c] = @ - 1]
    /\ lost' = lost \cup {c} /\ Cardinality(lost') <= MaxLost
    /\ UNCHANGED <<pos, waiting, asked, pc, receiver, done, failed, alive,
                   client, login>>

Arrived  == {c \in AllChunks : done[c] > 0}
Reported == {c \in AllChunks : done[c] + failed[c] > 0}

\* What the client gets in phases 2 and 3: the batch, then the unloads.  On a
\* closed connection the packets vanish, or the first send fails and ends the
\* player's turn before the unloads.
Deliver(batch) ==
    IF alive
    THEN client' = (client \cup batch) \ unloading /\ unloading' = {}
    ELSE UNCHANGED client /\ unloading' \in {unloading, {}}

\* Mutant: a chunk counts as loaded before the distance filter.
DrainLoadsFirst ==
    /\ pc = "drain" /\ pc' = "calc"
    /\ done' = NoJobs /\ failed' = NoJobs
    /\ pending' = pending \ Reported
    /\ loaded' = loaded \cup Arrived
    /\ Deliver(Arrived \cap View(pos))
    /\ UNCHANGED <<pos, waiting, asked, loading, running, alive, login, lost>>

\* Mutant: no distance filter.
DrainUnfiltered ==
    /\ pc = "drain" /\ pc' = "calc"
    /\ done' = NoJobs /\ failed' = NoJobs
    /\ pending' = pending \ Reported
    /\ loaded' = loaded \cup Arrived
    /\ Deliver(Arrived)
    /\ UNCHANGED <<pos, waiting, asked, loading, running, alive, login, lost>>

\* Mutant: pending is cleared only for the chunks that are sent.
DrainKeepsPending ==
    /\ pc = "drain" /\ pc' = "calc"
    /\ done' = NoJobs /\ failed' = NoJobs
    /\ pending' = pending \ (Arrived \cap View(pos))
    /\ loaded' = loaded \cup (Arrived \cap View(pos))
    /\ Deliver(Arrived \cap View(pos))
    /\ UNCHANGED <<pos, waiting, asked, loading, running, alive, login, lost>>

\* Phases 2 and 3: take every result, drop what is out of view by now, send
\* the rest as one batch and then the unloads.
Drain ==
    /\ pc = "drain" /\ pc' = "calc"
    /\ done' = NoJobs /\ failed' = NoJobs
    /\ pending' = pending \ Reported
    /\ loaded' = loaded \cup (Arrived \cap View(pos))
    /\ Deliver(Arrived \cap View(pos))
    /\ UNCHANGED <<pos, waiting, asked, loading, running, alive, login, lost>>

-----------------------------------------------------------------------------
\* The player's packets are handled between systems, never inside one.
Player ==
    /\ pc # "drain"
    /\ \/ \E p \in Positions : Move(p) \/ Teleport(p)
       \/ ConfirmTeleport

Job(c) == JobSends(c) \/ JobFails(c) \/ JobPanics(c)

Next ==
    \/ Player \/ ConnectionLost
    \/ Calc \/ Submit \/ Drain
    \/ \E c \in AllChunks : Job(c)

\* The tick thread keeps ticking and every job ends.
Fairness ==
    /\ WF_vars(Calc) /\ WF_vars(Submit) /\ WF_vars(Drain)
    /\ \A c \in AllChunks : WF_vars(Job(c))

Spec == Init /\ [][Next]_vars /\ Fairness

-----------------------------------------------------------------------------
TypeOK ==
    /\ pos \in Positions /\ waiting \in BOOLEAN /\ asked \in BOOLEAN
    /\ pc \in {"calc", "submit", "drain"}
    /\ loading \in Seq(AllChunks)
    /\ loaded \subseteq AllChunks /\ unloading \subseteq AllChunks
    /\ pending \subseteq AllChunks
    /\ running \in [AllChunks -> Nat] /\ done \in [AllChunks -> Nat]
    /\ failed \in [AllChunks -> Nat]
    /\ alive \in BOOLEAN /\ client \subseteq AllChunks
    /\ login \subseteq AllChunks
    /\ lost \subseteq AllChunks

(* A chunk is queued, in flight or loaded, never two of these, and queued   *)
(* once: otherwise the stale copies crowd out new chunks under the budget.  *)
QueuedOnce ==
    /\ IsInjective(loading)
    /\ Range(loading) \cap (pending \cup loaded) = {}
    /\ pending \cap loaded = {}

(* However the player wanders while jobs are out, the pool never works      *)
(* twice at a time on a chunk for the same player.                          *)
OneJobPerChunk == \A c \in AllChunks : running[c] + done[c] + failed[c] <= 1

(* What the server believes loaded is what the client holds: a chunk is     *)
(* never unloaded on one side only, and none is streamed and then forgotten.*)
ClientHoldsLoaded ==
    alive => /\ loaded \cup unloading \subseteq client
             /\ client \subseteq loaded \cup unloading \cup login

(* No chunk outside the view stays loaded unless a recalculation is due:    *)
(* movement, late results and teleports all lead to one.                    *)
LoadedInView == ~asked => loaded \subseteq View(pos)

(* A chunk in view that the client lacks is queued or in flight, unless a   *)
(* recalculation is due or its last job reported no packet: nothing that    *)
(* was popped, filtered out or unloaded is forgotten.                       *)
MissingIsQueued ==
    alive /\ ~asked => View(pos) \ (client \cup lost)
                           \subseteq Range(loading) \cup pending

(* Once the player stands still, the client gets every chunk in view, save  *)
(* those whose job reported no packet, whatever moves came before.          *)
Filled == alive => View(pos) \ lost \subseteq client
StandsStill == <>[][pos' = pos /\ ~asked']_<<pos, asked>>
ViewFilled == StandsStill => <>[]Filled

-----------------------------------------------------------------------------
(* chunk_calculator.rs: "`ChunkCalc` fires on every chunk-boundary          *)
(* crossing", so that the view is recomputed around the chunk the player is *)
(* in.                                                                      *)
CrossingIsNoticed == [][FloorChunk(pos') # FloorChunk(pos) => asked']_vars
=============================================================================
