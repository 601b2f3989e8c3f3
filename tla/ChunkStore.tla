----------------------------- MODULE ChunkStore -----------------------------
(***************************************************************************)
(* The world store: the in-memory chunk cache (a DashMap), the LMDB table  *)
(* behind it, and the threads that move chunks between the two.            *)
(*                                                                         *)
(*   Tick     the game-loop thread: block edits, fluid edits, world_sync,  *)
(*            chunk_gc.                                                    *)
(*   Workers  thread-pool jobs that load or generate a chunk for a player. *)
(*   Signals  the ctrl-c handler thread, which also calls World::sync.     *)
(*                                                                         *)
(* A chunk's content is abstracted to the set of edits it has absorbed, so *)
(* that replacing a chunk by an older copy shows as a missing edit.  One   *)
(* DashMap call is one step (it holds the shard lock); whatever the code   *)
(* does under a guard is part of the step that took the guard; everything  *)
(* between two calls may interleave with the other threads.                *)
(***************************************************************************)
EXTENDS FiniteSets

CONSTANTS
    Chunks,     \* the (ChunkPos, dimension) keys
    Edits,      \* identities of edits; each is made at most once per chunk
    Workers,    \* thread-pool workers
    Signals,    \* the ctrl-c handler thread, or nothing
    Tick,       \* the game-loop thread
    NoChunk     \* "working on no chunk"

ASSUME ThreadsAssumption ==
    /\ Tick \notin Workers \cup Signals
    /\ Workers \cap Signals = {}
    /\ NoChunk \notin Chunks

Loaders == Workers \cup {Tick}
Syncers == Signals \cup {Tick}
Threads == Workers \cup Signals \cup {Tick}
Content == SUBSET Edits
Blank   == [c \in Chunks |-> {}]

VARIABLES
    cache,      \* keys resident in the DashMap
    mem,        \* content of each resident chunk ({} when not resident)
    dirty,      \* resident chunks with a section whose dirty flag is set
    stored,     \* keys with a row in the "chunks" table
    row,        \* content of each row ({} when there is none)
    rowDirty,   \* rows encoded with a dirty flag set (World::sync writes such)
    recent,     \* table states an OS failure may fall back to
    pc,         \* what each thread does next
    at,         \* the chunk a thread works on
    buf,        \* a chunk a thread holds outside the cache
    bufDirty,   \* its dirty flag
    todo,       \* keys a scan has still to visit
    batch,      \* keys serialised by a sync and not yet marked clean
    snap,       \* what the sync serialised for them
    goal,       \* ghost: the world as a sync found it when it started
    shut_down,  \* ServerState::shut_down
    up,         \* the process runs
    applied,    \* ghost: edits the players saw happen
    raced,      \* ghost: chunks on which two threads overlapped (see below)
    promised    \* ghost: edits a finished sync covers

disk    == <<stored, row, rowDirty, recent>>
memory  == <<cache, mem, dirty>>
threads == <<pc, at, buf, bufDirty, todo, batch, snap, goal>>
ghosts  == <<applied, raced, promised>>
vars    == <<disk, memory, threads, ghosts, shut_down, up>>

Table == [stored : SUBSET Chunks, row : [Chunks -> Content],
          rowDirty : SUBSET Chunks]

Labels == {"idle", "exists", "generate", "lookup", "read", "insert", "fetch",
           "settle", "scan", "clean", "flush", "gc", "writeback", "gcall",
           "clear", "dead"}

-----------------------------------------------------------------------------
(* What a thread relies on between two of its steps.                       *)

\* A load or generate that found the chunk absent and has not inserted yet.
LoadView(t, c)  == at[t] = c /\ pc[t] \in {"generate", "read", "insert"}
\* A sync that serialised the chunk and has not cleared its flag yet.
SyncView(t, c)  == c \in batch[t]
\* An unload-all pass that wrote the chunk back and has not dropped it yet.
ClearView(t, c) == \/ pc[t] = "gcall" /\ c \notin todo[t]
                   \/ pc[t] = "clear" /\ c \in todo[t]
\* An unload that took the chunk out of the cache and has not written it yet.
EvictView(t, c) == pc[t] = "writeback" /\ at[t] = c

\* The overlaps that can lose an edit.  An edit inside another thread's view:
EditRace(t, c) ==
    {x \in {c} : \E u \in Threads \ {t} :
                    LoadView(u, x) \/ SyncView(u, x) \/ ClearView(u, x)}
\* a row that changes under another thread's load:
WriteRace(t, S, v) ==
    {c \in S : v[c] # row[c] /\ \E u \in Threads \ {t} : LoadView(u, c)}
\* a chunk inserted while another thread still holds the evicted copy:
InsertRace(t, c) == {x \in {c} : \E u \in Threads \ {t} : EvictView(u, x)}
\* a chunk taken out of the cache under another thread's sync:
EvictRace(t, c) ==
    {x \in {c} : \E u \in Threads \ {t} : pc[u] = "scan" /\ x \in todo[u]}

-----------------------------------------------------------------------------
TableNow == [stored |-> stored, row |-> row, rowDirty |-> rowDirty]

Init ==
    /\ cache = {} /\ mem = Blank /\ dirty = {}
    /\ stored = {} /\ row = Blank /\ rowDirty = {}
    /\ recent = {TableNow}
    /\ pc = [t \in Threads |-> "idle"]
    /\ at = [t \in Threads |-> NoChunk]
    /\ buf = [t \in Threads |-> {}]
    /\ bufDirty = [t \in Threads |-> FALSE]
    /\ todo = [t \in Threads |-> {}]
    /\ batch = [t \in Threads |-> {}]
    /\ snap = [t \in Threads |-> Blank]
    /\ goal = [t \in Threads |-> Blank]
    /\ shut_down = FALSE /\ up = TRUE
    /\ applied = Blank /\ raced = {} /\ promised = Blank

Goto(t, l) == pc' = [pc EXCEPT ![t] = l]

\* One committed LMDB write transaction by t: the rows S become v, encoded with
\* their dirty flags (d) or without.  NO_SYNC: an OS failure may drop it again.
Commit(t, S, v, d) ==
    /\ stored' = stored \cup S
    /\ row' = [c \in Chunks |-> IF c \in S THEN v[c] ELSE row[c]]
    /\ rowDirty' = IF d THEN rowDirty \cup S ELSE rowDirty \ S
    /\ recent' = recent \cup {[stored |-> stored', row |-> row',
                               rowDirty |-> rowDirty']}
    /\ raced' = raced \cup WriteRace(t, S, v)

\* Mutant: the edit forgets the section's dirty flag.
SetBlockNoFlag(t, c, e) ==
    /\ mem' = [mem EXCEPT ![c] = @ \cup {e}]
    /\ dirty' = dirty
    /\ applied' = [applied EXCEPT ![c] = @ \cup {e}]
    /\ raced' = raced \cup EditRace(t, c)

\* Chunk::set_block under the guard of the resident chunk c.
SetBlock(t, c, e) ==
    /\ mem' = [mem EXCEPT ![c] = @ \cup {e}]
    /\ dirty' = dirty \cup {c}
    /\ applied' = [applied EXCEPT ![c] = @ \cup {e}]
    /\ raced' = raced \cup EditRace(t, c)

\* What a thread does with the guard it got: look, or change a block.
UseGuard(t, c) ==
    \/ UNCHANGED <<mem, dirty, applied, raced>>
    \/ \E e \in Edits \ applied[c] : SetBlock(t, c, e)

-----------------------------------------------------------------------------
(* load_or_generate_chunk / load_or_generate_mut                           *)

LoadBegin(t, c) ==
    /\ up /\ pc[t] = "idle"
    /\ Goto(t, "exists")
    /\ at' = [at EXCEPT ![t] = c]
    /\ UNCHANGED <<disk, memory, buf, bufDirty, todo, batch, snap, goal,
                   ghosts, shut_down, up>>

\* World::chunk_exists: cache first, then the table.
ChunkExists(t) ==
    /\ pc[t] = "exists"
    /\ Goto(t, IF at[t] \in cache \cup stored THEN "lookup" ELSE "generate")
    /\ UNCHANGED <<disk, memory, at, buf, bufDirty, todo, batch, snap, goal,
                   ghosts, shut_down, up>>

\* Mutant: the generated chunk is cached, and left to the next sync to store.
InsertGeneratedInCache(t) ==
    /\ pc[t] = "generate"
    /\ cache' = cache \cup {at[t]} /\ dirty' = dirty \cup {at[t]}
    /\ Goto(t, "lookup")
    /\ UNCHANGED <<disk, mem, raced, at, buf, bufDirty, todo, batch, snap, goal,
                   applied, promised, shut_down, up>>

\* World::insert_chunk of the freshly generated chunk, dirty flags cleared.
InsertGenerated(t) ==
    /\ pc[t] = "generate"
    /\ Commit(t, {at[t]}, Blank, FALSE)
    /\ Goto(t, "lookup")
    /\ UNCHANGED <<memory, at, buf, bufDirty, todo, batch, snap, goal,
                   applied, promised, shut_down, up>>

\* What follows the guard: a worker goes on to settle the chunk, the tick
\* thread is done with it.
Finish(t) ==
    IF t \in Workers
    THEN Goto(t, "settle") /\ UNCHANGED at
    ELSE Goto(t, "idle") /\ at' = [at EXCEPT ![t] = NoChunk]

\* World::load_chunk(_mut): the first get hits ...
LookupHit(t) ==
    /\ pc[t] = "lookup" /\ at[t] \in cache
    /\ UseGuard(t, at[t])
    /\ Finish(t)
    /\ UNCHANGED <<disk, cache, buf, bufDirty, todo, batch, snap, goal,
                   promised, shut_down, up>>

\* ... or misses.
LookupMiss(t) ==
    /\ pc[t] = "lookup" /\ at[t] \notin cache
    /\ Goto(t, "read")
    /\ UNCHANGED <<disk, memory, at, buf, bufDirty, todo, batch, snap, goal,
                   ghosts, shut_down, up>>

\* load_chunk_internal: the row, decoded; the dirty flags come with it.
ReadRow(t) ==
    /\ pc[t] = "read" /\ at[t] \in stored
    /\ buf' = [buf EXCEPT ![t] = row[at[t]]]
    /\ bufDirty' = [bufDirty EXCEPT ![t] = at[t] \in rowDirty]
    /\ Goto(t, "insert")
    /\ UNCHANGED <<disk, memory, at, todo, batch, snap, goal, ghosts,
                   shut_down, up>>

\* Generation, the write or the read fails: the caller gets the error.
LoadFails(t) ==
    /\ pc[t] \in {"generate", "read"}
    /\ Goto(t, "idle")
    /\ at' = [at EXCEPT ![t] = NoChunk]
    /\ UNCHANGED <<disk, memory, buf, bufDirty, todo, batch, snap, goal,
                   ghosts, shut_down, up>>

\* cache.insert, which replaces a copy another thread put there meanwhile.
CacheInsert(t) ==
    /\ pc[t] = "insert"
    /\ cache' = cache \cup {at[t]}
    /\ mem' = [mem EXCEPT ![at[t]] = buf[t]]
    /\ dirty' = IF bufDirty[t] THEN dirty \cup {at[t]} ELSE dirty \ {at[t]}
    /\ raced' = raced \cup InsertRace(t, at[t])
    /\ Goto(t, "fetch")
    /\ buf' = [buf EXCEPT ![t] = {}]
    /\ bufDirty' = [bufDirty EXCEPT ![t] = FALSE]
    /\ UNCHANGED <<disk, at, todo, batch, snap, goal, applied, promised,
                   shut_down, up>>

\* The second get: .expect("Chunk was just inserted into the cache").
Fetch(t) ==
    /\ pc[t] = "fetch" /\ at[t] \in cache
    /\ UseGuard(t, at[t])
    /\ Finish(t)
    /\ UNCHANGED <<disk, cache, buf, bufDirty, todo, batch, snap, goal,
                   promised, shut_down, up>>

\* The expect fails: the job unwinds and the pool goes on with the next one.
FetchPanics(t) ==
    /\ pc[t] = "fetch" /\ at[t] \notin cache
    /\ Goto(t, "idle")
    /\ at' = [at EXCEPT ![t] = NoChunk]
    /\ UNCHANGED <<disk, memory, buf, bufDirty, todo, batch, snap, goal,
                   ghosts, shut_down, up>>

\* Mutant: the job drops the (clean) chunk from the cache when it is encoded.
SettleAndDrop(t) ==
    /\ pc[t] = "settle"
    /\ cache' = cache \ ({at[t]} \ dirty)
    /\ mem' = [mem EXCEPT ![at[t]] = IF at[t] \in dirty THEN @ ELSE {}]
    /\ Goto(t, "idle")
    /\ at' = [at EXCEPT ![t] = NoChunk]
    /\ UNCHANGED <<disk, dirty, applied, raced, buf, bufDirty, todo, batch, snap,
                   goal, promised, shut_down, up>>

\* chunk_sending's job: settle the fluids of the chunk if it is still cached.
Settle(t) ==
    /\ pc[t] = "settle"
    /\ \/ at[t] \in cache /\ UseGuard(t, at[t])
       \/ at[t] \notin cache /\ UNCHANGED <<mem, dirty, applied, raced>>
    /\ Goto(t, "idle")
    /\ at' = [at EXCEPT ![t] = NoChunk]
    /\ UNCHANGED <<disk, cache, buf, bufDirty, todo, batch, snap, goal,
                   promised, shut_down, up>>

\* A fluid tick: World::cached_chunk_mut, never loading.
EditCached(c, e) ==
    /\ up /\ pc[Tick] = "idle" /\ c \in cache
    /\ SetBlock(Tick, c, e)
    /\ UNCHANGED <<disk, cache, threads, promised, shut_down, up>>

-----------------------------------------------------------------------------
(* World::sync, called by sync_world on the tick thread and by the ctrl-c  *)
(* handler on its own.                                                     *)

StartScan(t) ==
    /\ Goto(t, "scan")
    /\ todo' = [todo EXCEPT ![t] = Chunks]
    /\ goal' = [goal EXCEPT ![t] =
                    [c \in Chunks |-> IF c \in cache THEN mem[c] ELSE row[c]]]
    /\ UNCHANGED <<disk, memory, at, buf, bufDirty, batch, snap, ghosts, up>>

\* sync_world returns early once shut_down is set.
SyncWorld ==
    /\ up /\ pc[Tick] = "idle" /\ ~shut_down
    /\ StartScan(Tick)
    /\ UNCHANGED shut_down

CtrlC(t) ==
    /\ up /\ pc[t] = "idle"
    /\ shut_down' = TRUE
    /\ StartScan(t)

\* Mutant: the flag is cleared when the chunk is serialised, not once written.
SerialiseAndClean(t, c) ==
    /\ pc[t] = "scan" /\ c \in todo[t]
    /\ todo' = [todo EXCEPT ![t] = @ \ {c}]
    /\ dirty' = dirty \ {c}
    /\ IF c \in cache /\ c \in dirty
       THEN /\ batch' = [batch EXCEPT ![t] = @ \cup {c}]
            /\ snap' = [snap EXCEPT ![t][c] = mem[c]]
       ELSE UNCHANGED <<batch, snap>>
    /\ UNCHANGED <<disk, cache, mem, pc, at, buf, bufDirty, goal, ghosts,
                   shut_down, up>>

\* The iterator reaches c: a dirty chunk is serialised into the batch.
Serialise(t, c) ==
    /\ pc[t] = "scan" /\ c \in todo[t]
    /\ todo' = [todo EXCEPT ![t] = @ \ {c}]
    /\ IF c \in cache /\ c \in dirty
       THEN /\ batch' = [batch EXCEPT ![t] = @ \cup {c}]
            /\ snap' = [snap EXCEPT ![t][c] = mem[c]]
       ELSE UNCHANGED <<batch, snap>>
    /\ UNCHANGED <<disk, memory, pc, at, buf, bufDirty, goal, ghosts,
                   shut_down, up>>

\* batch_upsert: one transaction for the whole batch, skipped when empty.
BatchUpsert(t) ==
    /\ pc[t] = "scan" /\ todo[t] = {}
    /\ IF batch[t] = {}
       THEN UNCHANGED <<disk, raced>>
       ELSE Commit(t, batch[t], snap[t], TRUE)
    /\ Goto(t, "clean")
    /\ UNCHANGED <<memory, at, buf, bufDirty, todo, batch, snap, goal,
                   applied, promised, shut_down, up>>

\* The transaction fails: the handler's expect ends its thread.  (On the tick
\* thread the same expect ends the process: see Crash.)
SyncFails(t) ==
    /\ pc[t] = "scan" /\ todo[t] = {}
    /\ Goto(t, "dead")
    /\ batch' = [batch EXCEPT ![t] = {}]
    /\ snap' = [snap EXCEPT ![t] = Blank]
    /\ goal' = [goal EXCEPT ![t] = Blank]
    /\ UNCHANGED <<disk, memory, at, buf, bufDirty, todo, ghosts, shut_down,
                   up>>

\* Clear the dirty flags of a written chunk, if it is still cached.
MarkClean(t, c) ==
    /\ pc[t] = "clean" /\ c \in batch[t]
    /\ dirty' = dirty \ {c}
    /\ batch' = [batch EXCEPT ![t] = @ \ {c}]
    /\ snap' = [snap EXCEPT ![t][c] = {}]
    /\ UNCHANGED <<disk, cache, mem, pc, at, buf, bufDirty, todo, goal,
                   ghosts, shut_down, up>>

\* Mutant: the sync ends without force_sync.
FlushNothing(t) ==
    /\ pc[t] = "clean" /\ batch[t] = {}
    /\ promised' = [c \in Chunks |-> promised[c] \cup goal[t][c]]
    /\ goal' = [goal EXCEPT ![t] = Blank]
    /\ Goto(t, "idle")
    /\ UNCHANGED <<disk, memory, at, buf, bufDirty, todo,
                   batch, snap, applied, raced, shut_down, up>>

\* sync_internal: force_sync makes everything committed so far durable.
Flush(t) ==
    /\ pc[t] = "clean" /\ batch[t] = {}
    /\ recent' = {TableNow}
    /\ promised' = [c \in Chunks |-> promised[c] \cup goal[t][c]]
    /\ goal' = [goal EXCEPT ![t] = Blank]
    /\ Goto(t, "idle")
    /\ UNCHANGED <<stored, row, rowDirty, memory, at, buf, bufDirty, todo,
                   batch, snap, applied, raced, shut_down, up>>

-----------------------------------------------------------------------------
(* chunk_unloader::handle                                                  *)

\* Players are connected: unload the resident chunks none of them has loaded.
GcBegin(S) ==
    /\ up /\ pc[Tick] = "idle" /\ S \subseteq cache
    /\ Goto(Tick, "gc")
    /\ todo' = [todo EXCEPT ![Tick] = S]
    /\ UNCHANGED <<disk, memory, at, buf, bufDirty, batch, snap, goal, ghosts,
                   shut_down, up>>

\* cache.remove; a dirty chunk is kept to be written back.
GcRemove(c) ==
    /\ pc[Tick] = "gc" /\ c \in todo[Tick]
    /\ todo' = [todo EXCEPT ![Tick] = @ \ {c}]
    /\ cache' = cache \ {c}
    /\ mem' = [mem EXCEPT ![c] = {}]
    /\ dirty' = dirty \ {c}
    /\ IF c \in dirty
       THEN /\ buf' = [buf EXCEPT ![Tick] = mem[c]]
            /\ at' = [at EXCEPT ![Tick] = c]
            /\ Goto(Tick, "writeback")
            /\ raced' = raced \cup EvictRace(Tick, c)
       ELSE UNCHANGED <<buf, at, pc, raced>>
    /\ UNCHANGED <<disk, bufDirty, batch, snap, goal, applied, promised,
                   shut_down, up>>

\* insert_chunk of the removed chunk.
GcWriteBack ==
    /\ pc[Tick] = "writeback"
    /\ Commit(Tick, {at[Tick]}, [c \in Chunks |-> buf[Tick]], FALSE)
    /\ Goto(Tick, "gc")
    /\ at' = [at EXCEPT ![Tick] = NoChunk]
    /\ buf' = [buf EXCEPT ![Tick] = {}]
    /\ UNCHANGED <<memory, bufDirty, todo, batch, snap, goal, applied,
                   promised, shut_down, up>>

GcEnd ==
    /\ pc[Tick] \in {"gc", "clear"} /\ todo[Tick] = {}
    /\ Goto(Tick, "idle")
    /\ UNCHANGED <<disk, memory, at, buf, bufDirty, todo, batch, snap, goal,
                   ghosts, shut_down, up>>

\* No players: write every dirty chunk back under its guard, then clear().
GcAllBegin ==
    /\ up /\ pc[Tick] = "idle"
    /\ Goto(Tick, "gcall")
    /\ todo' = [todo EXCEPT ![Tick] = Chunks]
    /\ UNCHANGED <<disk, memory, at, buf, bufDirty, batch, snap, goal, ghosts,
                   shut_down, up>>

\* Mutant: the unload-all pass counts the chunk and writes nothing.
GcAllSkip(c) ==
    /\ pc[Tick] = "gcall" /\ c \in todo[Tick]
    /\ todo' = [todo EXCEPT ![Tick] = @ \ {c}]
    /\ UNCHANGED <<disk, memory, pc, at, buf, bufDirty, batch, snap, goal,
                   ghosts, shut_down, up>>

GcAllVisit(c) ==
    /\ pc[Tick] = "gcall" /\ c \in todo[Tick]
    /\ todo' = [todo EXCEPT ![Tick] = @ \ {c}]
    /\ IF c \in cache /\ c \in dirty
       THEN Commit(Tick, {c}, mem, FALSE)
       ELSE UNCHANGED <<disk, raced>>
    /\ UNCHANGED <<memory, pc, at, buf, bufDirty, batch, snap, goal, applied,
                   promised, shut_down, up>>

GcClearBegin ==
    /\ pc[Tick] = "gcall" /\ todo[Tick] = {}
    /\ Goto(Tick, "clear")
    /\ todo' = [todo EXCEPT ![Tick] = Chunks]
    /\ UNCHANGED <<disk, memory, at, buf, bufDirty, batch, snap, goal, ghosts,
                   shut_down, up>>

\* DashMap::clear goes shard by shard.
GcClear(c) ==
    /\ pc[Tick] = "clear" /\ c \in todo[Tick]
    /\ todo' = [todo EXCEPT ![Tick] = @ \ {c}]
    /\ cache' = cache \ {c}
    /\ mem' = [mem EXCEPT ![c] = {}]
    /\ dirty' = dirty \ {c}
    /\ UNCHANGED <<disk, pc, at, buf, bufDirty, batch, snap, goal, ghosts,
                   shut_down, up>>

-----------------------------------------------------------------------------
(* Ends of the process.                                                    *)

LoseMemory ==
    /\ cache' = {} /\ mem' = Blank /\ dirty' = {}
    /\ pc' = [t \in Threads |-> "idle"]
    /\ at' = [t \in Threads |-> NoChunk]
    /\ buf' = [t \in Threads |-> {}]
    /\ bufDirty' = [t \in Threads |-> FALSE]
    /\ todo' = [t \in Threads |-> {}]
    /\ batch' = [t \in Threads |-> {}]
    /\ snap' = [t \in Threads |-> Blank]
    /\ goal' = [t \in Threads |-> Blank]

\* The ghosts start over from the table: what an overlap lost is written off.
Recover ==
    /\ applied' = row' /\ raced' = {}
    /\ promised' = [c \in Chunks |->
                       IF c \in raced
                       THEN {e \in promised[c] : \A s \in recent' : e \in s.row[c]}
                       ELSE promised[c]]

\* The process dies; the table stays as it is.
Crash ==
    /\ up /\ up' = FALSE
    /\ LoseMemory
    /\ shut_down' = FALSE
    /\ UNCHANGED disk
    /\ Recover

\* The machine dies: the table falls back to a state since the last flush.
PowerLoss ==
    /\ up /\ up' = FALSE
    /\ LoseMemory
    /\ shut_down' = FALSE
    /\ \E s \in recent :
          /\ stored' = s.stored /\ row' = s.row /\ rowDirty' = s.rowDirty
          /\ recent' = {s}
    /\ Recover

\* The game loop sees shut_down between two schedules, disconnects the players
\* and returns from main, whatever the other threads are doing.
Exit ==
    /\ up /\ shut_down /\ pc[Tick] = "idle"
    /\ LoseMemory
    /\ up' = FALSE
    /\ UNCHANGED <<disk, shut_down, ghosts>>

Start ==
    /\ ~up
    /\ up' = TRUE /\ shut_down' = FALSE
    /\ UNCHANGED <<disk, memory, threads>>
    /\ Recover

-----------------------------------------------------------------------------
Load(t) ==
    \/ \E c \in Chunks : LoadBegin(t, c)
    \/ ChunkExists(t) \/ InsertGenerated(t)
    \/ LookupHit(t) \/ LookupMiss(t)
    \/ ReadRow(t) \/ LoadFails(t) \/ CacheInsert(t)
    \/ Fetch(t) \/ FetchPanics(t)
    \/ Settle(t)

Sync(t) ==
    \/ \E c \in Chunks : Serialise(t, c) \/ MarkClean(t, c)
    \/ BatchUpsert(t) \/ Flush(t)

Gc ==
    \/ \E S \in SUBSET Chunks : GcBegin(S)
    \/ \E c \in Chunks : GcRemove(c) \/ GcAllVisit(c) \/ GcClear(c)
    \/ GcWriteBack \/ GcEnd \/ GcAllBegin \/ GcClearBegin

Next ==
    \/ \E t \in Loaders : Load(t)
    \/ \E c \in Chunks, e \in Edits : e \notin applied[c] /\ EditCached(c, e)
    \/ SyncWorld
    \/ \E t \in Signals : CtrlC(t) \/ SyncFails(t)
    \/ \E t \in Syncers : Sync(t)
    \/ Gc
    \/ Crash \/ PowerLoss \/ Exit \/ Start

Spec == Init /\ [][Next]_vars

-----------------------------------------------------------------------------
TypeOK ==
    /\ cache \in SUBSET Chunks /\ dirty \in SUBSET cache
    /\ mem \in [Chunks -> Content]
    /\ stored \in SUBSET Chunks /\ rowDirty \in SUBSET Chunks
    /\ row \in [Chunks -> Content]
    /\ recent \in SUBSET Table
    /\ pc \in [Threads -> Labels]
    /\ at \in [Threads -> Chunks \cup {NoChunk}]
    /\ buf \in [Threads -> Content] /\ bufDirty \in [Threads -> BOOLEAN]
    /\ todo \in [Threads -> SUBSET Chunks]
    /\ batch \in [Threads -> SUBSET Chunks]
    /\ snap \in [Threads -> [Chunks -> Content]]
    /\ goal \in [Threads -> [Chunks -> Content]]
    /\ shut_down \in BOOLEAN /\ up \in BOOLEAN
    /\ applied \in [Chunks -> Content] /\ raced \in SUBSET Chunks
    /\ promised \in [Chunks -> Content]

\* The copy of a chunk that the next reader will end up with.
Where(c) ==
    IF c \in cache THEN mem[c]
    ELSE IF EvictView(Tick, c) THEN buf[Tick]
    ELSE row[c]

(* With the tick thread alone at work, the cache, the table, the dirty      *)
(* flags, unloading and the periodic sync together behave like one map with *)
(* a save operation, across process crashes and power losses.               *)
Store == INSTANCE WorldStore WITH world <- [c \in Chunks |-> Where(c)], saved <- promised

ImplementsWorldStore == Store!Spec

(* A resident chunk always has a row, so that dropping a clean chunk from   *)
(* the cache, whoever loaded or generated it, never makes it unreadable.    *)
StoredBeforeCached == cache \subseteq stored

(* No edit is lost: on every chunk where no two threads overlapped, the     *)
(* copy that will be read next has exactly the edits that were made, in     *)
(* whatever order loads, generation, settling, unloading and syncs ran.     *)
NoLostEdit == up => \A c \in Chunks \ raced : Where(c) = applied[c]

(* A cleared dirty flag means the table has the chunk: unloading drops      *)
(* clean chunks without writing them.                                       *)
CleanMeansStored ==
    \A c \in (cache \ dirty) \ raced : mem[c] = row[c]

(* What a finished sync promised is in every table state a power loss can   *)
(* fall back to.                                                            *)
PromisedSurvives ==
    \A c \in Chunks \ raced : \A s \in recent : promised[c] \subseteq s.row[c]

(* Only the tick thread unloads, so its own loads always find the chunk     *)
(* they inserted: the expect in load_chunk_mut cannot stop the game loop.   *)
TickFindsItsChunk == pc[Tick] = "fetch" => at[Tick] \in cache

-----------------------------------------------------------------------------
(* What comments and assertions of the code say of the store.              *)

(* game_loop.rs: "Run shutdown systems (save world, ...)": when the server  *)
(* has stopped gracefully, every edit is in the table.                      *)
ExitSavesWorld ==
    ~up /\ shut_down => \A c \in Chunks \ raced : applied[c] \subseteq row[c]
=============================================================================
