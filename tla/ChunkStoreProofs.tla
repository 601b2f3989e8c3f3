-------------------------- MODULE ChunkStoreProofs --------------------------
(***************************************************************************)
(* Proofs about ChunkStore, for any number of chunks, edits, workers and   *)
(* signal handlers.                                                        *)
(***************************************************************************)
EXTENDS ChunkStore, TLAPS

\* A thread that works on a chunk has one; only the tick thread unloads; a
\* sync's batch is empty outside the sync; a stopped process does nothing.
Shape ==
    /\ \A t \in Threads :
          /\ pc[t] \in {"exists", "generate", "lookup", "read", "insert",
                        "fetch", "settle", "writeback"} => at[t] \in Chunks
          /\ pc[t] \in {"gc", "writeback", "gcall", "clear"} => t = Tick
          /\ pc[t] \notin {"scan", "clean"} => batch[t] = {}
    /\ ~up => cache = {} /\ \A t \in Threads : pc[t] = "idle"

Typed == TypeOK /\ Shape

LEMMA ThreadKinds ==
    /\ Tick \in Threads /\ Tick \in Loaders /\ Tick \in Syncers
    /\ Loaders \subseteq Threads /\ Syncers \subseteq Threads
    /\ Workers \subseteq Threads /\ Signals \subseteq Threads
    /\ NoChunk \notin Chunks
  BY ThreadsAssumption DEF Threads, Loaders, Syncers

LEMMA TableNowTyped ==
  ASSUME stored \in SUBSET Chunks, row \in [Chunks -> Content],
         rowDirty \in SUBSET Chunks
  PROVE  TableNow \in Table
  BY DEF Table, TableNow

LEMMA TypedInit == Init => Typed
  <1> SUFFICES ASSUME Init PROVE Typed
    OBVIOUS
  <1>1. Blank \in [Chunks -> Content]
    BY DEF Blank, Content
  <1>2. recent \in SUBSET Table
    BY <1>1, TableNowTyped DEF Init
  <1>3. TypeOK
    BY <1>1, <1>2 DEF Init, TypeOK, Labels, Content
  <1> QED
    BY <1>3, ThreadKinds DEF Init, Typed, Shape

LEMMA UseGuardTyped ==
  ASSUME TypeOK, NEW t \in Threads, NEW c \in cache, UseGuard(t, c)
  PROVE  /\ mem' \in [Chunks -> Content] /\ dirty' \in SUBSET cache
         /\ applied' \in [Chunks -> Content] /\ raced' \in SUBSET Chunks
  <1>1. c \in Chunks
    BY DEF TypeOK
  <1>2. CASE UNCHANGED <<mem, dirty, applied, raced>>
    BY <1>2 DEF TypeOK
  <1>3. ASSUME NEW e \in Edits, SetBlock(t, c, e)
        PROVE  /\ mem' \in [Chunks -> Content] /\ dirty' \in SUBSET cache
               /\ applied' \in [Chunks -> Content]
               /\ raced' \in SUBSET Chunks
    <2>1. EditRace(t, c) \subseteq Chunks
      BY <1>1 DEF EditRace
    <2>2. raced' \in SUBSET Chunks /\ dirty' \in SUBSET cache
      BY <1>3, <2>1 DEF SetBlock, TypeOK
    <2>3. mem' \in [Chunks -> Content] /\ applied' \in [Chunks -> Content]
      BY <1>3, <1>1 DEF SetBlock, TypeOK, Content
    <2> QED
      BY <2>2, <2>3
  <1> QED
    BY <1>2, <1>3 DEF UseGuard

LEMMA CommitTyped ==
  ASSUME TypeOK, NEW t \in Threads, NEW S \in SUBSET Chunks,
         NEW v \in [Chunks -> Content], NEW d \in BOOLEAN, Commit(t, S, v, d)
  PROVE  /\ stored' \in SUBSET Chunks /\ rowDirty' \in SUBSET Chunks
         /\ row' \in [Chunks -> Content] /\ recent' \in SUBSET Table
         /\ raced' \in SUBSET Chunks
  <1>1. stored' \in SUBSET Chunks /\ rowDirty' \in SUBSET Chunks
    BY DEF TypeOK, Commit
  <1>2. row' \in [Chunks -> Content]
    BY DEF TypeOK, Commit
  <1>3. WriteRace(t, S, v) \subseteq Chunks
    BY DEF WriteRace
  <1>4. raced' \in SUBSET Chunks
    BY <1>3 DEF TypeOK, Commit
  <1> QED
    <2> DEFINE new == [stored |-> stored', row |-> row',
                       rowDirty |-> rowDirty']
    <2>1. new \in Table
      BY <1>1, <1>2 DEF Table
    <2>2. recent' = recent \cup {new}
      BY DEF Commit
    <2> QED
      BY <1>1, <1>2, <1>4, <2>1, <2>2 DEF TypeOK

LEMMA TypedLoad ==
  ASSUME Typed, NEW t \in Loaders, Load(t)
  PROVE  Typed'
  <1> t \in Threads
    BY ThreadKinds
  <1> USE DEF Typed, TypeOK, Shape, Content, Blank, Labels, Goto, disk, memory,
      ghosts
  <1>1. ASSUME NEW c \in Chunks, LoadBegin(t, c) PROVE Typed'
    BY <1>1 DEF LoadBegin
  <1>2. CASE ChunkExists(t)
    BY <1>2 DEF ChunkExists
  <1>3. CASE InsertGenerated(t)
    BY <1>3, CommitTyped DEF InsertGenerated
  <1>4. CASE LookupHit(t)
    <2>1. UseGuard(t, at[t]) /\ at[t] \in cache
      BY <1>4 DEF LookupHit
    <2>2. /\ mem' \in [Chunks -> Content] /\ dirty' \in SUBSET cache
          /\ applied' \in [Chunks -> Content] /\ raced' \in SUBSET Chunks
      BY <2>1, UseGuardTyped
    <2>3. CASE t \in Workers
      BY <1>4, <2>2, <2>3 DEF LookupHit, Finish
    <2>4. CASE t \notin Workers
      <3>1. /\ pc' = [pc EXCEPT ![t] = "idle"]
            /\ at' = [at EXCEPT ![t] = NoChunk]
        BY <1>4, <2>4 DEF LookupHit, Finish
      <3>2. TypeOK'
        BY <1>4, <2>2, <3>1 DEF LookupHit
      <3>3. Shape'
        BY <1>4, <2>2, <3>1 DEF LookupHit
      <3> QED
        BY <3>2, <3>3
    <2> QED
      BY <2>3, <2>4
  <1>5. CASE LookupMiss(t)
    BY <1>5 DEF LookupMiss
  <1>6. CASE ReadRow(t)
    BY <1>6 DEF ReadRow
  <1>7. CASE LoadFails(t)
    BY <1>7 DEF LoadFails
  <1>8. CASE CacheInsert(t)
    BY <1>8 DEF CacheInsert, InsertRace
  <1>9. CASE Fetch(t)
    <2>1. UseGuard(t, at[t]) /\ at[t] \in cache
      BY <1>9 DEF Fetch
    <2>2. /\ mem' \in [Chunks -> Content] /\ dirty' \in SUBSET cache
          /\ applied' \in [Chunks -> Content] /\ raced' \in SUBSET Chunks
      BY <2>1, UseGuardTyped
    <2>3. CASE t \in Workers
      BY <1>9, <2>2, <2>3 DEF Fetch, Finish
    <2>4. CASE t \notin Workers
      <3>1. /\ pc' = [pc EXCEPT ![t] = "idle"]
            /\ at' = [at EXCEPT ![t] = NoChunk]
        BY <1>9, <2>4 DEF Fetch, Finish
      <3>2. TypeOK'
        BY <1>9, <2>2, <3>1 DEF Fetch
      <3>3. Shape'
        BY <1>9, <2>2, <3>1 DEF Fetch
      <3> QED
        BY <3>2, <3>3
    <2> QED
      BY <2>3, <2>4
  <1>10. CASE FetchPanics(t)
    BY <1>10 DEF FetchPanics
  <1>11. CASE Settle(t)
    BY <1>11, UseGuardTyped DEF Settle
  <1> QED
    BY <1>1, <1>2, <1>3, <1>4, <1>5, <1>6, <1>7, <1>8, <1>9, <1>10, <1>11
       DEF Load

LEMMA TypedSync ==
  ASSUME Typed,
         \/ SyncWorld
         \/ \E t \in Signals : CtrlC(t) \/ SyncFails(t)
         \/ \E t \in Syncers : Sync(t)
  PROVE  Typed'
  <1> USE ThreadKinds DEF Typed, TypeOK, Shape, Content, Blank, Labels, Goto,
      disk, memory, ghosts
  <1>1. CASE SyncWorld
    BY <1>1 DEF SyncWorld, StartScan
  <1>2. ASSUME NEW t \in Signals, CtrlC(t) PROVE Typed'
    BY <1>2 DEF CtrlC, StartScan
  <1>3. ASSUME NEW t \in Signals, SyncFails(t) PROVE Typed'
    BY <1>3 DEF SyncFails
  <1>4. ASSUME NEW t \in Syncers, NEW c \in Chunks, Serialise(t, c)
        PROVE  Typed'
    <2>1. CASE c \in cache /\ c \in dirty
      <3>1. /\ batch' = [batch EXCEPT ![t] = @ \cup {c}]
            /\ snap' = [snap EXCEPT ![t] = [snap[t] EXCEPT ![c] = mem[c]]]
        BY <1>4, <2>1 DEF Serialise
      <3>2. snap' \in [Threads -> [Chunks -> Content]]
        BY <3>1
      <3>3. batch' \in [Threads -> SUBSET Chunks]
        BY <3>1
      <3>4. TypeOK'
        BY <1>4, <3>2, <3>3 DEF Serialise
      <3>5. Shape'
        BY <1>4, <3>1 DEF Serialise
      <3> QED
        BY <3>4, <3>5
    <2>2. CASE ~(c \in cache /\ c \in dirty)
      BY <1>4, <2>2 DEF Serialise
    <2> QED
      BY <2>1, <2>2
  <1>5. ASSUME NEW t \in Syncers, NEW c \in Chunks, MarkClean(t, c)
        PROVE  Typed'
    BY <1>5 DEF MarkClean
  <1>6. ASSUME NEW t \in Syncers, BatchUpsert(t) PROVE Typed'
    BY <1>6, CommitTyped DEF BatchUpsert
  <1>7. ASSUME NEW t \in Syncers, Flush(t) PROVE Typed'
    BY <1>7 DEF Flush, Table, TableNow
  <1> QED
    BY <1>1, <1>2, <1>3, <1>4, <1>5, <1>6, <1>7 DEF Sync

LEMMA TypedGc ==
  ASSUME Typed, Gc PROVE Typed'
  <1> USE ThreadKinds DEF Typed, TypeOK, Shape, Content, Blank, Labels, Goto,
      disk, memory, ghosts
  <1>1. ASSUME NEW S \in SUBSET Chunks, GcBegin(S) PROVE Typed'
    BY <1>1 DEF GcBegin
  <1>2. ASSUME NEW c \in Chunks, GcRemove(c) PROVE Typed'
    <2>1. EvictRace(Tick, c) \subseteq Chunks
      BY DEF EvictRace
    <2>2. CASE c \in dirty
      <3>3. /\ buf' = [buf EXCEPT ![Tick] = mem[c]]
            /\ at' = [at EXCEPT ![Tick] = c]
            /\ pc' = [pc EXCEPT ![Tick] = "writeback"]
            /\ raced' = raced \cup EvictRace(Tick, c)
        BY <1>2, <2>2 DEF GcRemove
      <3>4. /\ buf' \in [Threads -> Content]
            /\ at' \in [Threads -> Chunks \cup {NoChunk}]
            /\ pc' \in [Threads -> Labels]
        BY <3>3
      <3>5. raced' \in SUBSET Chunks
        BY <2>1, <3>3
      <3>6. /\ cache' \in SUBSET Chunks /\ dirty' \in SUBSET cache'
            /\ mem' \in [Chunks -> Content]
            /\ todo' \in [Threads -> SUBSET Chunks]
        BY <1>2 DEF GcRemove
      <3>1. TypeOK'
        BY <1>2, <3>4, <3>5, <3>6 DEF GcRemove
      <3>2. Shape'
        BY <1>2, <2>2 DEF GcRemove
      <3> QED
        BY <3>1, <3>2
    <2>3. CASE c \notin dirty
      BY <1>2, <2>3 DEF GcRemove
    <2> QED
      BY <2>2, <2>3
  <1>3. ASSUME NEW c \in Chunks, GcAllVisit(c) PROVE Typed'
    BY <1>3, CommitTyped DEF GcAllVisit
  <1>4. ASSUME NEW c \in Chunks, GcClear(c) PROVE Typed'
    BY <1>4 DEF GcClear
  <1>5. CASE GcWriteBack
    BY <1>5, CommitTyped DEF GcWriteBack
  <1>6. CASE GcEnd
    BY <1>6 DEF GcEnd
  <1>7. CASE GcAllBegin
    BY <1>7 DEF GcAllBegin
  <1>8. CASE GcClearBegin
    BY <1>8 DEF GcClearBegin
  <1> QED
    BY <1>1, <1>2, <1>3, <1>4, <1>5, <1>6, <1>7, <1>8 DEF Gc

LEMMA RecoverTyped ==
  ASSUME TypeOK, row' \in [Chunks -> Content], Recover
  PROVE  /\ applied' \in [Chunks -> Content] /\ raced' \in SUBSET Chunks
         /\ promised' \in [Chunks -> Content]
  BY DEF TypeOK, Recover, Content

LEMMA TypedEnds ==
  ASSUME Typed, Crash \/ PowerLoss \/ Exit \/ Start
  PROVE  Typed'
  <1> USE ThreadKinds DEF Typed, TypeOK, Shape, Content, Blank, Labels,
      disk, memory, threads, ghosts, LoseMemory
  <1>1. CASE Crash
    BY <1>1, RecoverTyped DEF Crash
  <1>2. CASE PowerLoss
    <2>1. PICK s \in recent : /\ stored' = s.stored /\ row' = s.row
                              /\ rowDirty' = s.rowDirty /\ recent' = {s}
      BY <1>2 DEF PowerLoss
    <2>2. s \in Table
      OBVIOUS
    <2>3. /\ stored' \in SUBSET Chunks /\ row' \in [Chunks -> Content]
          /\ rowDirty' \in SUBSET Chunks /\ recent' \in SUBSET Table
      BY <2>1, <2>2 DEF Table
    <2> QED
      BY <1>2, <2>3, RecoverTyped DEF PowerLoss
  <1>3. CASE Exit
    BY <1>3 DEF Exit
  <1>4. CASE Start
    BY <1>4, RecoverTyped DEF Start
  <1> QED
    BY <1>1, <1>2, <1>3, <1>4

LEMMA TypedStep == Typed /\ [Next]_vars => Typed'
  <1> SUFFICES ASSUME Typed, [Next]_vars PROVE Typed'
    OBVIOUS
  <1>1. CASE \E t \in Loaders : Load(t)
    BY <1>1, TypedLoad
  <1>2. ASSUME NEW c \in Chunks, NEW e \in Edits, EditCached(c, e)
        PROVE  Typed'
    BY <1>2, ThreadKinds DEF EditCached, SetBlock, EditRace, Typed, TypeOK,
       Shape, Content, disk, threads
  <1>3. CASE UNCHANGED vars
    BY <1>3 DEF vars, disk, memory, threads, ghosts, Typed, TypeOK, Shape,
       Table
  <1> QED
    BY <1>1, <1>2, <1>3, TypedSync, TypedGc, TypedEnds DEF Next

(* Every variable keeps its type whatever the number of threads and chunks; *)
(* with it, only the tick thread is ever inside chunk_unloader, and no sync *)
(* batch outlives its sync.                                                 *)
THEOREM StoreTypeCorrect == Spec => []TypeOK
  <1>1. Spec => []Typed
    BY TypedInit, TypedStep, PTL DEF Spec
  <1> QED
    BY <1>1, PTL DEF Typed

-----------------------------------------------------------------------------
(* A chunk that is resident or about to be has a row; a missing row is      *)
(* blank, now and in every state a power loss may restore.                  *)
Rows ==
    /\ cache \subseteq stored
    /\ \A t \in Threads : pc[t] = "insert" => at[t] \in stored
    /\ \A c \in Chunks \ stored : row[c] = {}
    /\ \A s \in recent : \A c \in Chunks \ s.stored : s.row[c] = {}

\* Agreement of the copies of one chunk on which no two threads overlapped:
\* the copy to be read next has every edit, a copy being unloaded is no longer
\* resident, ...
NextCopy(c) ==
    /\ Where(c) = applied[c]
    /\ EvictView(Tick, c) => c \notin cache
\* ... the table is up to date whenever some thread acts as if it were, ...
TableAgrees(c) ==
    c \in cache /\ (\/ c \notin dirty
                    \/ \E t \in Threads : LoadView(t, c)
                    \/ ClearView(Tick, c))
    => row[c] = applied[c]
\* ... what a sync serialised, and then wrote, is still current, ...
BatchAgrees(c) ==
    \A t \in Threads : c \in batch[t] =>
        /\ snap[t][c] = applied[c]
        /\ pc[t] = "clean" => row[c] = applied[c]
\* ... and so is the row a loader read, or found missing.
LoaderAgrees(c) ==
    \A t \in Threads : at[t] = c =>
        /\ pc[t] = "insert" => buf[t] = row[c]
        /\ pc[t] = "generate" => row[c] = {}

Agreement(c) ==
    NextCopy(c) /\ TableAgrees(c) /\ BatchAgrees(c) /\ LoaderAgrees(c)

Coherence == up => \A c \in Chunks \ raced : Agreement(c)

Ind == Typed /\ Rows /\ Coherence

LEMMA RowsStep == Typed /\ Rows /\ [Next]_vars => Rows'
  <1> SUFFICES ASSUME Typed, Rows, [Next]_vars PROVE Rows'
    OBVIOUS
  <1> USE ThreadKinds DEF Typed, TypeOK, Rows, Goto, Content, disk, memory,
      threads, ghosts
  <1>1. ASSUME NEW t \in Loaders, NEW c \in Chunks, LoadBegin(t, c)
        PROVE  Rows'
    BY <1>1 DEF LoadBegin
  <1>2. ASSUME NEW t \in Loaders, ChunkExists(t) PROVE Rows'
    BY <1>2 DEF ChunkExists
  <1>3. ASSUME NEW t \in Threads, NEW S \in SUBSET Chunks,
               NEW v \in [Chunks -> Content], NEW d \in BOOLEAN,
               Commit(t, S, v, d),
               UNCHANGED cache,
               \A u \in Threads : pc'[u] = "insert" =>
                                     pc[u] = "insert" /\ at'[u] = at[u]
        PROVE  Rows'
    <2>1. \A c \in Chunks \ stored' : row'[c] = {}
      BY <1>3 DEF Commit
    <2>2. \A s \in recent' : \A c \in Chunks \ s.stored : s.row[c] = {}
      BY <1>3, <2>1 DEF Commit
    <2> QED
      BY <1>3, <2>1, <2>2 DEF Commit
  <1>4. ASSUME NEW t \in Loaders, InsertGenerated(t) PROVE Rows'
    <2>1. Blank \in [Chunks -> Content] /\ at[t] \in Chunks
      BY <1>4 DEF InsertGenerated, Shape, Blank
    <2> QED
      <3>1. Commit(t, {at[t]}, Blank, FALSE) /\ {at[t]} \in SUBSET Chunks
        BY <1>4, <2>1 DEF InsertGenerated
      <3>2. /\ UNCHANGED cache
            /\ \A u \in Threads : pc'[u] = "insert" =>
                                     pc[u] = "insert" /\ at'[u] = at[u]
        BY <1>4 DEF InsertGenerated
      <3> QED
        BY <1>3, <2>1, <3>1, <3>2
  <1>5. ASSUME NEW t \in Loaders, LookupHit(t) PROVE Rows'
    BY <1>5 DEF LookupHit, Finish
  <1>6. ASSUME NEW t \in Loaders, LookupMiss(t) PROVE Rows'
    BY <1>6 DEF LookupMiss
  <1>7. ASSUME NEW t \in Loaders, ReadRow(t) PROVE Rows'
    BY <1>7 DEF ReadRow
  <1>8. ASSUME NEW t \in Loaders, LoadFails(t) PROVE Rows'
    BY <1>8 DEF LoadFails
  <1>9. ASSUME NEW t \in Loaders, CacheInsert(t) PROVE Rows'
    BY <1>9 DEF CacheInsert
  <1>10. ASSUME NEW t \in Loaders, Fetch(t) PROVE Rows'
    BY <1>10 DEF Fetch, Finish
  <1>11. ASSUME NEW t \in Loaders, FetchPanics(t) PROVE Rows'
    BY <1>11 DEF FetchPanics
  <1>12. ASSUME NEW t \in Loaders, Settle(t) PROVE Rows'
    BY <1>12 DEF Settle
  <1>13. ASSUME NEW c \in Chunks, NEW e \in Edits, EditCached(c, e)
         PROVE  Rows'
    BY <1>13 DEF EditCached
  <1>14. CASE SyncWorld
    BY <1>14 DEF SyncWorld, StartScan
  <1>15. ASSUME NEW t \in Signals, CtrlC(t) PROVE Rows'
    BY <1>15 DEF CtrlC, StartScan
  <1>16. ASSUME NEW t \in Signals, SyncFails(t) PROVE Rows'
    BY <1>16 DEF SyncFails
  <1>17. ASSUME NEW t \in Syncers, NEW c \in Chunks,
                Serialise(t, c) \/ MarkClean(t, c)
         PROVE  Rows'
    BY <1>17 DEF Serialise, MarkClean
  <1>18. ASSUME NEW t \in Syncers, BatchUpsert(t) PROVE Rows'
    <2>1. CASE batch[t] = {}
      BY <1>18, <2>1 DEF BatchUpsert
    <2>2. CASE batch[t] # {}
      BY <1>3, <1>18, <2>2 DEF BatchUpsert
    <2> QED
      BY <2>1, <2>2
  <1>19. ASSUME NEW t \in Syncers, Flush(t) PROVE Rows'
    BY <1>19 DEF Flush, TableNow
  <1>20. ASSUME NEW S \in SUBSET Chunks, GcBegin(S) PROVE Rows'
    BY <1>20 DEF GcBegin
  <1>21. ASSUME NEW c \in Chunks, GcRemove(c) PROVE Rows'
    BY <1>21 DEF GcRemove
  <1>22. ASSUME NEW c \in Chunks, GcAllVisit(c) PROVE Rows'
    <2>1. CASE c \in cache /\ c \in dirty
      BY <1>3, <1>22, <2>1 DEF GcAllVisit
    <2>2. CASE ~(c \in cache /\ c \in dirty)
      BY <1>22, <2>2 DEF GcAllVisit
    <2> QED
      BY <2>1, <2>2
  <1>23. ASSUME NEW c \in Chunks, GcClear(c) PROVE Rows'
    BY <1>23 DEF GcClear
  <1>24. CASE GcWriteBack
    <2>1. at[Tick] \in Chunks
      BY <1>24 DEF GcWriteBack, Shape
    <2> QED
      <3> DEFINE v == [c \in Chunks |-> buf[Tick]]
      <3>1. v \in [Chunks -> Content] /\ {at[Tick]} \in SUBSET Chunks
        BY <2>1
      <3>2. Commit(Tick, {at[Tick]}, v, FALSE)
        BY <1>24 DEF GcWriteBack
      <3>3. /\ UNCHANGED cache
            /\ \A u \in Threads : pc'[u] = "insert" =>
                                     pc[u] = "insert" /\ at'[u] = at[u]
        BY <1>24 DEF GcWriteBack
      <3> HIDE DEF v
      <3> QED
        BY <1>3, <3>1, <3>2, <3>3
  <1>25. CASE GcEnd \/ GcAllBegin \/ GcClearBegin
    BY <1>25 DEF GcEnd, GcAllBegin, GcClearBegin
  <1>26. CASE Crash \/ Exit
    BY <1>26 DEF Crash, Exit, LoseMemory
  <1>27. CASE PowerLoss
    BY <1>27 DEF PowerLoss, LoseMemory
  <1>28. CASE Start
    BY <1>28 DEF Start
  <1>29. CASE UNCHANGED vars
    BY <1>29 DEF vars
  <1> QED
    BY <1>1, <1>2, <1>4, <1>5, <1>6, <1>7, <1>8, <1>9, <1>10, <1>11, <1>12,
       <1>13, <1>14, <1>15, <1>16, <1>17, <1>18, <1>19, <1>20, <1>21, <1>22,
       <1>23, <1>24, <1>25, <1>26, <1>27, <1>28, <1>29
       DEF Next, Load, Sync, Gc

-----------------------------------------------------------------------------
(* Coherence is inductive, one lemma per group of actions.                  *)

\* An edit that keeps its chunk unmarked: nobody else relied on it.
LEMMA EditStep ==
  ASSUME Typed, NEW t \in Threads, NEW x \in Chunks, NEW e \in Edits,
         SetBlock(t, x, e), NEW c \in Chunks \ raced'
  PROVE  /\ c \notin raced
         /\ c # x => mem'[c] = mem[c] /\ applied'[c] = applied[c]
                     /\ (c \in dirty' <=> c \in dirty)
         /\ c = x => /\ mem'[c] = mem[c] \cup {e} /\ c \in dirty'
                     /\ applied'[c] = applied[c] \cup {e}
                     /\ \A u \in Threads \ {t} :
                          ~LoadView(u, c) /\ ~SyncView(u, c) /\ ~ClearView(u, c)
  BY DEF SetBlock, EditRace, Typed, TypeOK

\* The end of a load: t looks at its chunk or edits it, and drops its guard.
LEMMA CoherentUse ==
  ASSUME Typed, Coherence, up,
         NEW t \in Threads, NEW x \in Chunks \cap cache,
         UseGuard(t, x), pc[t] \in {"idle", "lookup", "fetch", "settle"},
         pc' \in {pc, [pc EXCEPT ![t] = "idle"], [pc EXCEPT ![t] = "settle"]},
         at' \in {at, [at EXCEPT ![t] = NoChunk]},
         UNCHANGED <<cache, row, buf, todo, batch, snap, up>>
  PROVE  Coherence'
  <1> SUFFICES ASSUME NEW c \in Chunks \ raced' PROVE Agreement(c)'
    BY DEF Coherence
  <1> USE ThreadKinds DEF Typed, TypeOK
  <1>0. \A u \in Threads : u # t => pc'[u] = pc[u] /\ at'[u] = at[u]
    OBVIOUS
  <1>00. pc'[t] \in {"idle", "lookup", "fetch", "settle"}
    OBVIOUS
  <1>1. c \notin raced /\ Agreement(c)
    BY EditStep DEF UseGuard, Coherence
  <1>2. CASE UNCHANGED <<mem, dirty, applied, raced>>
    <2>1. NextCopy(c)'
      BY <1>0, <1>00, <1>1, <1>2 DEF Agreement, NextCopy, Where, EvictView
    <2>2. TableAgrees(c)'
      BY <1>0, <1>00, <1>1, <1>2 DEF Agreement, TableAgrees, LoadView, ClearView
    <2>3. BatchAgrees(c)'
      BY <1>0, <1>00, <1>1, <1>2 DEF Agreement, BatchAgrees
    <2>4. LoaderAgrees(c)'
      BY <1>0, <1>00, <1>1, <1>2 DEF Agreement, LoaderAgrees
    <2> QED
      BY <2>1, <2>2, <2>3, <2>4 DEF Agreement
  <1>3. ASSUME NEW e \in Edits, SetBlock(t, x, e) PROVE Agreement(c)'
    <2>0. /\ c # x => mem'[c] = mem[c] /\ applied'[c] = applied[c]
                      /\ (c \in dirty' <=> c \in dirty)
          /\ c = x => /\ mem'[c] = mem[c] \cup {e} /\ c \in dirty'
                      /\ applied'[c] = applied[c] \cup {e}
                      /\ \A u \in Threads \ {t} :
                          ~LoadView(u, c) /\ ~SyncView(u, c) /\ ~ClearView(u, c)
      BY <1>3, EditStep
    <2>1. NextCopy(c)'
      BY <1>0, <1>00, <1>1, <2>0 DEF Agreement, NextCopy, Where, EvictView
    <2>2. TableAgrees(c)'
      <3>1. CASE c = x
        BY <1>0, <1>00, <2>0, <3>1 DEF TableAgrees, LoadView, ClearView
      <3>2. CASE c # x
        BY <1>0, <1>00, <1>1, <2>0, <3>2
           DEF Agreement, TableAgrees, LoadView, ClearView
      <3> QED
        BY <3>1, <3>2
    <2>3. BatchAgrees(c)'
      BY <1>0, <1>00, <1>1, <2>0
         DEF Agreement, BatchAgrees, SyncView, Shape
    <2>4. LoaderAgrees(c)'
      BY <1>0, <1>00, <1>1 DEF Agreement, LoaderAgrees
    <2> QED
      BY <2>1, <2>2, <2>3, <2>4 DEF Agreement
  <1> QED
    BY <1>2, <1>3 DEF UseGuard

\* A step of a load that changes nothing but t's own position.
QuietLoad(t) ==
    /\ UNCHANGED <<cache, mem, dirty, row, applied, raced, batch, snap, buf,
                   todo, up>>
    /\ \A u \in Threads \ {t} : pc'[u] = pc[u] /\ at'[u] = at[u]
    /\ pc[t] \notin {"scan", "clean", "gc", "writeback", "gcall", "clear"}
    /\ \/ pc'[t] \in {"idle", "exists", "lookup", "settle"}
       \/ pc'[t] = "generate" /\ at'[t] \notin cache \cup stored
       \/ pc'[t] = "read" /\ at'[t] \notin cache

LEMMA CoherentQuiet ==
  ASSUME Typed, Rows, Coherence, NEW t \in Threads, QuietLoad(t)
  PROVE  Coherence'
  <1> USE ThreadKinds DEF QuietLoad
  <1> SUFFICES ASSUME up, NEW c \in Chunks \ raced PROVE Agreement(c)'
    BY DEF Coherence
  <1>1. Agreement(c)
    BY DEF Coherence
  <1>2. NextCopy(c)'
    BY <1>1 DEF Agreement, NextCopy, Where, EvictView
  <1>3. TableAgrees(c)'
    BY <1>1 DEF Agreement, TableAgrees, LoadView, ClearView
  <1>4. BatchAgrees(c)'
    BY <1>1 DEF Agreement, BatchAgrees
  <1>5. LoaderAgrees(c)'
    BY <1>1 DEF Agreement, LoaderAgrees, Rows
  <1> QED
    BY <1>2, <1>3, <1>4, <1>5 DEF Agreement

LEMMA CoherentLoad ==
  ASSUME Typed, Rows, Coherence, NEW t \in Loaders, Load(t)
  PROVE  Coherence'
  <1> USE ThreadKinds DEF Typed, TypeOK, Goto
  <1> t \in Threads
    OBVIOUS
  <1>up. up /\ UNCHANGED up
    BY DEF Load, Shape, LoadBegin, ChunkExists, InsertGenerated, LookupHit,
       LookupMiss, ReadRow, LoadFails, CacheInsert, Fetch, FetchPanics, Settle
  <1>1. QuietLoad(t) => Coherence'
    BY CoherentQuiet
  <1>2. ASSUME NEW c \in Chunks, LoadBegin(t, c) PROVE Coherence'
    BY <1>1, <1>2 DEF QuietLoad, LoadBegin, disk, memory, ghosts
  <1>3. CASE ChunkExists(t)
    <2>1. CASE at[t] \in cache \cup stored
      BY <1>1, <1>3, <2>1 DEF QuietLoad, ChunkExists, disk, memory, ghosts
    <2>2. CASE at[t] \notin cache \cup stored
      BY <1>1, <1>3, <2>2 DEF QuietLoad, ChunkExists, disk, memory, ghosts
    <2> QED
      BY <2>1, <2>2
  <1>4. CASE LookupMiss(t)
    BY <1>1, <1>4 DEF QuietLoad, LookupMiss, disk, memory, ghosts
  <1>5. CASE LoadFails(t)
    BY <1>1, <1>5 DEF QuietLoad, LoadFails, disk, memory, ghosts
  <1>6. CASE FetchPanics(t)
    BY <1>1, <1>6 DEF QuietLoad, FetchPanics, disk, memory, ghosts
  <1>7. CASE LookupHit(t)
    BY <1>up, <1>7, CoherentUse DEF LookupHit, Finish, disk
  <1>8. CASE Fetch(t)
    BY <1>up, <1>8, CoherentUse DEF Fetch, Finish, disk
  <1>9. CASE Settle(t)
    <2>1. CASE at[t] \in cache
      BY <1>up, <1>9, <2>1, CoherentUse DEF Settle, disk
    <2>2. CASE at[t] \notin cache
      BY <1>1, <1>9, <2>2 DEF QuietLoad, Settle, disk
    <2> QED
      BY <2>1, <2>2
  <1>10. CASE ReadRow(t)
    <2> SUFFICES ASSUME NEW c \in Chunks \ raced PROVE Agreement(c)'
      BY <1>10 DEF Coherence, ReadRow, ghosts
    <2> USE DEF ReadRow, disk, memory, ghosts
    <2>1. Agreement(c)
      BY <1>up DEF Coherence
    <2>2. NextCopy(c)'
      BY <1>10, <2>1, ThreadsAssumption
         DEF Agreement, NextCopy, Where, EvictView
    <2>3. TableAgrees(c)'
      BY <1>10, <2>1 DEF Agreement, TableAgrees, LoadView, ClearView
    <2>4. BatchAgrees(c)'
      BY <1>10, <2>1 DEF Agreement, BatchAgrees
    <2>5. LoaderAgrees(c)'
      BY <1>10, <2>1 DEF Agreement, LoaderAgrees
    <2> QED
      BY <2>2, <2>3, <2>4, <2>5 DEF Agreement
  <1>11. CASE InsertGenerated(t)
    <2> SUFFICES ASSUME NEW c \in Chunks \ raced' PROVE Agreement(c)'
      BY DEF Coherence
    <2> USE DEF InsertGenerated, memory
    <2>0. /\ at[t] \in Chunks /\ Blank \in [Chunks -> Content]
          /\ Commit(t, {at[t]}, Blank, FALSE)
      BY <1>11 DEF Shape, Blank, Content
    <2>1. c \notin raced
      BY <2>0 DEF Commit
    <2>2. Agreement(c)
      BY <1>up, <2>1 DEF Coherence
    <2>3. row'[c] = row[c]
      BY <1>11, <2>0, <2>2 DEF Commit, Agreement, LoaderAgrees, Blank
    <2>4. NextCopy(c)'
      BY <1>11, <2>2, <2>3 DEF Agreement, NextCopy, Where, EvictView
    <2>5. TableAgrees(c)'
      BY <1>11, <2>2, <2>3 DEF Agreement, TableAgrees, LoadView, ClearView
    <2>6. BatchAgrees(c)'
      BY <1>11, <2>2, <2>3 DEF Agreement, BatchAgrees
    <2>7. LoaderAgrees(c)'
      BY <1>11, <2>2, <2>3 DEF Agreement, LoaderAgrees
    <2> QED
      BY <2>4, <2>5, <2>6, <2>7 DEF Agreement
  <1>12. CASE CacheInsert(t)
    <2> SUFFICES ASSUME NEW c \in Chunks \ raced' PROVE Agreement(c)'
      BY DEF Coherence
    <2> USE DEF CacheInsert, disk
    <2>0. at[t] \in Chunks
      BY <1>12 DEF Shape
    <2>1. c \notin raced
      BY <1>12
    <2>2. Agreement(c)
      BY <1>up, <2>1 DEF Coherence
    <2>3. ASSUME c = at[t]
          PROVE  row[c] = applied[c] /\ buf[t] = row[c] /\ ~EvictView(Tick, c)
      <3>1. ~EvictView(Tick, c)
        BY <1>12, <2>3 DEF InsertRace, EvictView
      <3>2. buf[t] = row[c] /\ LoadView(t, c)
        BY <1>12, <2>2, <2>3 DEF Agreement, LoaderAgrees, LoadView
      <3>3. CASE c \in cache
        BY <2>2, <3>1, <3>2, <3>3 DEF Agreement, TableAgrees
      <3>4. CASE c \notin cache
        BY <2>2, <3>1, <3>2, <3>4 DEF Agreement, NextCopy, Where
      <3> QED
        BY <3>1, <3>2, <3>3, <3>4
    <2>4. /\ c = at[t] => mem'[c] = applied[c]
          /\ c # at[t] => mem'[c] = mem[c] /\ (c \in cache' <=> c \in cache)
                          /\ (c \in dirty' <=> c \in dirty)
          /\ applied'[c] = applied[c] /\ row'[c] = row[c]
      BY <1>12, <2>0, <2>3
    <2>41. EvictView(Tick, c)' <=> EvictView(Tick, c)
      BY <1>12 DEF EvictView
    <2>42. ClearView(Tick, c)' <=> ClearView(Tick, c)
      BY <1>12 DEF ClearView
    <2>43. \A u \in Threads : LoadView(u, c)' => LoadView(u, c)
      BY <1>12 DEF LoadView
    <2>5. NextCopy(c)'
      <3>1. CASE c = at[t]
        BY <1>12, <2>3, <2>4, <2>41, <3>1 DEF NextCopy, Where
      <3>2. CASE c # at[t]
        <4>1. CASE EvictView(Tick, c)
          BY <1>12, <2>2, <2>4, <2>41, <3>2, <4>1
             DEF Agreement, NextCopy, Where, EvictView
        <4>2. CASE ~EvictView(Tick, c)
          BY <1>12, <2>2, <2>4, <2>41, <3>2, <4>2
             DEF Agreement, NextCopy, Where
        <4> QED
          BY <4>1, <4>2
      <3> QED
        BY <3>1, <3>2
    <2>6. TableAgrees(c)'
      BY <2>2, <2>3, <2>4, <2>42, <2>43 DEF Agreement, TableAgrees
    <2>7. BatchAgrees(c)'
      BY <1>12, <2>2, <2>4 DEF Agreement, BatchAgrees
    <2>8. LoaderAgrees(c)'
      BY <1>12, <2>2, <2>4 DEF Agreement, LoaderAgrees
    <2> QED
      BY <2>5, <2>6, <2>7, <2>8 DEF Agreement
  <1> QED
    BY <1>2, <1>3, <1>4, <1>5, <1>6, <1>7, <1>8, <1>9, <1>10, <1>11, <1>12
       DEF Load

LEMMA CoherentSync ==
  ASSUME Typed, Coherence,
         \/ SyncWorld
         \/ \E t \in Signals : CtrlC(t) \/ SyncFails(t)
         \/ \E t \in Syncers : Sync(t)
  PROVE  Coherence'
  <1> USE ThreadKinds DEF Typed, TypeOK, Goto
  <1>1. ASSUME NEW t \in Threads,
               /\ UNCHANGED <<cache, mem, dirty, row, applied, raced, buf, at,
                              up>>
               /\ \A u \in Threads \ {t} : pc'[u] = pc[u] /\ todo'[u] = todo[u]
               /\ pc[t] \in {"idle", "scan", "clean"}
               /\ pc'[t] \in {"idle", "scan", "clean", "dead"}
               /\ \A u \in Threads : batch'[u] \subseteq batch[u]
               /\ \A u \in Threads : \A c \in batch'[u] :
                     snap'[u][c] = snap[u][c]
               /\ pc'[t] = "clean" => pc[t] = "clean" \/ batch'[t] = {}
        PROVE  Coherence'
    <2> SUFFICES ASSUME up, NEW c \in Chunks \ raced PROVE Agreement(c)'
      BY <1>1 DEF Coherence
    <2>1. Agreement(c)
      BY DEF Coherence
    <2>2. NextCopy(c)'
      BY <1>1, <2>1 DEF Agreement, NextCopy, Where, EvictView
    <2>3. TableAgrees(c)'
      <3>1. ClearView(Tick, c)' <=> ClearView(Tick, c)
        BY <1>1 DEF ClearView
      <3>2. \A u \in Threads : LoadView(u, c)' => LoadView(u, c)
        BY <1>1 DEF LoadView
      <3> QED
        BY <1>1, <2>1, <3>1, <3>2 DEF Agreement, TableAgrees
    <2>4. BatchAgrees(c)'
      BY <1>1, <2>1 DEF Agreement, BatchAgrees
    <2>5. LoaderAgrees(c)'
      BY <1>1, <2>1 DEF Agreement, LoaderAgrees
    <2> QED
      BY <2>2, <2>3, <2>4, <2>5 DEF Agreement
  <1>2. CASE SyncWorld
    BY <1>1, <1>2 DEF SyncWorld, StartScan, disk, memory, ghosts
  <1>3. ASSUME NEW t \in Signals, CtrlC(t) PROVE Coherence'
    BY <1>1, <1>3 DEF CtrlC, StartScan, disk, memory, ghosts
  <1>4. ASSUME NEW t \in Signals, SyncFails(t) PROVE Coherence'
    BY <1>1, <1>4 DEF SyncFails, disk, memory, ghosts
  <1>5. ASSUME NEW t \in Syncers, Flush(t) PROVE Coherence'
    BY <1>1, <1>5 DEF Flush, memory
  <1>6. ASSUME NEW t \in Syncers, NEW x \in Chunks, Serialise(t, x)
        PROVE  Coherence'
    <2> SUFFICES ASSUME up, NEW c \in Chunks \ raced PROVE Agreement(c)'
      BY <1>6 DEF Coherence, Serialise, ghosts
    <2> USE DEF Serialise, disk, memory, ghosts
    <2>1. Agreement(c)
      BY DEF Coherence
    <2>2. NextCopy(c)'
      BY <1>6, <2>1 DEF Agreement, NextCopy, Where, EvictView
    <2>3. TableAgrees(c)'
      <3>1. ClearView(Tick, c)' <=> ClearView(Tick, c)
        BY <1>6 DEF ClearView
      <3> QED
        BY <1>6, <2>1, <3>1 DEF Agreement, TableAgrees, LoadView
    <2>4. BatchAgrees(c)'
      <3>1. CASE x \in cache /\ x \in dirty
        <4>1. /\ batch' = [batch EXCEPT ![t] = @ \cup {x}]
              /\ snap' = [snap EXCEPT ![t] = [snap[t] EXCEPT ![x] = mem[x]]]
          BY <1>6, <3>1
        <4>2. x = c => mem[c] = applied[c]
          BY <2>1, <3>1 DEF Agreement, NextCopy, Where
        <4> QED
          BY <1>6, <2>1, <4>1, <4>2 DEF Agreement, BatchAgrees
      <3>2. CASE ~(x \in cache /\ x \in dirty)
        BY <1>6, <2>1, <3>2 DEF Agreement, BatchAgrees
      <3> QED
        BY <3>1, <3>2
    <2>5. LoaderAgrees(c)'
      BY <1>6, <2>1 DEF Agreement, LoaderAgrees
    <2> QED
      BY <2>2, <2>3, <2>4, <2>5 DEF Agreement
  <1>7. ASSUME NEW t \in Syncers, NEW x \in Chunks, MarkClean(t, x)
        PROVE  Coherence'
    <2> SUFFICES ASSUME up, NEW c \in Chunks \ raced PROVE Agreement(c)'
      BY <1>7 DEF Coherence, MarkClean, ghosts
    <2> USE DEF MarkClean, disk, ghosts
    <2>1. Agreement(c)
      BY DEF Coherence
    <2>2. NextCopy(c)'
      BY <1>7, <2>1 DEF Agreement, NextCopy, Where, EvictView
    <2>3. TableAgrees(c)'
      <3>1. CASE c = x
        BY <1>7, <2>1, <3>1 DEF Agreement, BatchAgrees, TableAgrees
      <3>2. CASE c # x
        BY <1>7, <2>1, <3>2 DEF Agreement, TableAgrees, LoadView, ClearView
      <3> QED
        BY <3>1, <3>2
    <2>4. BatchAgrees(c)'
      BY <1>7, <2>1 DEF Agreement, BatchAgrees
    <2>5. LoaderAgrees(c)'
      BY <1>7, <2>1 DEF Agreement, LoaderAgrees
    <2> QED
      BY <2>2, <2>3, <2>4, <2>5 DEF Agreement
  <1>8. ASSUME NEW t \in Syncers, BatchUpsert(t) PROVE Coherence'
    <2>1. CASE batch[t] = {}
      BY <1>1, <1>8, <2>1 DEF BatchUpsert, disk, memory
    <2>2. CASE batch[t] # {}
      <3> SUFFICES ASSUME up, NEW c \in Chunks \ raced' PROVE Agreement(c)'
        BY <1>8 DEF Coherence, BatchUpsert
      <3> USE DEF BatchUpsert, memory
      <3>0. Commit(t, batch[t], snap[t], TRUE)
        BY <1>8, <2>2
      <3>1. c \notin raced
        BY <3>0 DEF Commit
      <3>2. Agreement(c)
        BY <3>1 DEF Coherence
      <3>3. c \in batch[t] => snap[t][c] = applied[c]
        BY <3>2 DEF Agreement, BatchAgrees
      <3>4. /\ row'[c] = IF c \in batch[t] THEN applied[c] ELSE row[c]
            /\ \A u \in Threads \ {t} : LoadView(u, c) => row'[c] = row[c]
        <4>1. /\ row'[c] = IF c \in batch[t] THEN snap[t][c] ELSE row[c]
              /\ \A u \in Threads \ {t} : LoadView(u, c) => row'[c] = row[c]
          BY <3>0 DEF Commit, WriteRace
        <4> QED
          BY <3>3, <4>1
      <3>5. NextCopy(c)'
        BY <1>8, <3>2, <3>4 DEF Agreement, NextCopy, Where, EvictView
      <3>6. TableAgrees(c)'
        BY <1>8, <3>2, <3>4 DEF Agreement, TableAgrees, LoadView, ClearView
      <3>7. BatchAgrees(c)'
        BY <1>8, <3>2, <3>4 DEF Agreement, BatchAgrees
      <3>8. LoaderAgrees(c)'
        BY <1>8, <3>2, <3>4 DEF Agreement, LoaderAgrees, LoadView
      <3> QED
        BY <3>5, <3>6, <3>7, <3>8 DEF Agreement
    <2> QED
      BY <2>1, <2>2
  <1> QED
    BY <1>2, <1>3, <1>4, <1>5, <1>6, <1>7, <1>8 DEF Sync

LEMMA CoherentGc ==
  ASSUME Typed, Rows, Coherence, Gc
  PROVE  Coherence'
  <1> USE ThreadKinds DEF Typed, TypeOK, Goto
  <1>up. UNCHANGED up
    BY DEF Gc, GcBegin, GcRemove, GcAllVisit, GcClear, GcWriteBack, GcEnd,
       GcAllBegin, GcClearBegin
  \* Steps between two passes: the views of the other threads are untouched,
  \* and the unload-all pass relies on no chunk it did not rely on before.
  <1>1. ASSUME /\ UNCHANGED <<cache, mem, dirty, row, applied, raced, batch,
                              snap, buf, at>>
               /\ \A u \in Threads \ {Tick} : pc'[u] = pc[u]
               /\ pc'[Tick] \notin {"insert", "generate", "read", "writeback",
                                    "clean"}
               /\ pc[Tick] # "writeback"
               /\ \A c \in Chunks : ClearView(Tick, c)' => ClearView(Tick, c)
        PROVE  Coherence'
    <2> SUFFICES ASSUME up, NEW c \in Chunks \ raced PROVE Agreement(c)'
      BY <1>1, <1>up DEF Coherence
    <2>1. Agreement(c)
      BY DEF Coherence
    <2>2. NextCopy(c)'
      BY <1>1, <2>1 DEF Agreement, NextCopy, Where, EvictView
    <2>3. TableAgrees(c)'
      <3>1. \A u \in Threads : LoadView(u, c)' => LoadView(u, c)
        BY <1>1 DEF LoadView
      <3> QED
        BY <1>1, <2>1, <3>1 DEF Agreement, TableAgrees
    <2>4. BatchAgrees(c)'
      BY <1>1, <2>1 DEF Agreement, BatchAgrees
    <2>5. LoaderAgrees(c)'
      BY <1>1, <2>1 DEF Agreement, LoaderAgrees
    <2> QED
      BY <2>2, <2>3, <2>4, <2>5 DEF Agreement
  <1>2. ASSUME NEW S \in SUBSET Chunks, GcBegin(S) PROVE Coherence'
    BY <1>1, <1>2 DEF GcBegin, ClearView, disk, memory, ghosts
  <1>3. CASE GcEnd
    BY <1>1, <1>3 DEF GcEnd, ClearView, disk, memory, ghosts
  <1>4. CASE GcAllBegin
    BY <1>1, <1>4 DEF GcAllBegin, ClearView, disk, memory, ghosts
  <1>5. CASE GcClearBegin
    BY <1>1, <1>5 DEF GcClearBegin, ClearView, disk, memory, ghosts
  <1>6. ASSUME NEW x \in Chunks, GcRemove(x) PROVE Coherence'
    <2> SUFFICES ASSUME up, NEW c \in Chunks \ raced' PROVE Agreement(c)'
      BY <1>up DEF Coherence
    <2> USE DEF GcRemove, disk
    <2>1. c \notin raced
      BY <1>6
    <2>2. Agreement(c)
      BY <2>1 DEF Coherence
    <2>3. NextCopy(c)'
      <3>1. CASE c = x /\ x \in dirty
        BY <1>6, <2>2, <3>1 DEF Agreement, NextCopy, Where, EvictView
      <3>2. CASE c = x /\ x \notin dirty
        BY <1>6, <2>2, <3>2
           DEF Agreement, NextCopy, TableAgrees, Where, EvictView
      <3>3. CASE c # x
        BY <1>6, <2>2, <3>3 DEF Agreement, NextCopy, Where, EvictView
      <3> QED
        BY <3>1, <3>2, <3>3
    <2>4. TableAgrees(c)'
      BY <1>6, <2>2 DEF Agreement, TableAgrees, LoadView, ClearView
    <2>5. BatchAgrees(c)'
      BY <1>6, <2>2 DEF Agreement, BatchAgrees
    <2>6. LoaderAgrees(c)'
      BY <1>6, <2>2 DEF Agreement, LoaderAgrees
    <2> QED
      BY <2>3, <2>4, <2>5, <2>6 DEF Agreement
  <1>7. ASSUME NEW x \in Chunks, GcClear(x) PROVE Coherence'
    <2> SUFFICES ASSUME up, NEW c \in Chunks \ raced PROVE Agreement(c)'
      BY <1>7, <1>up DEF Coherence, GcClear, ghosts
    <2> USE DEF GcClear, disk, ghosts
    <2>1. Agreement(c)
      BY DEF Coherence
    <2>2. NextCopy(c)'
      <3>1. CASE c = x
        BY <1>7, <2>1, <3>1
           DEF Agreement, NextCopy, TableAgrees, ClearView, Where, EvictView
      <3>2. CASE c # x
        BY <1>7, <2>1, <3>2 DEF Agreement, NextCopy, Where, EvictView
      <3> QED
        BY <3>1, <3>2
    <2>3. TableAgrees(c)'
      BY <1>7, <2>1 DEF Agreement, TableAgrees, LoadView, ClearView
    <2>4. BatchAgrees(c)'
      BY <1>7, <2>1 DEF Agreement, BatchAgrees
    <2>5. LoaderAgrees(c)'
      BY <1>7, <2>1 DEF Agreement, LoaderAgrees
    <2> QED
      BY <2>2, <2>3, <2>4, <2>5 DEF Agreement
  <1>8. CASE GcWriteBack
    <2> SUFFICES ASSUME up, NEW c \in Chunks \ raced' PROVE Agreement(c)'
      BY <1>up DEF Coherence
    <2> USE DEF GcWriteBack, memory
    <2>1. c \notin raced
      BY <1>8 DEF Commit
    <2>2. Agreement(c)
      BY <2>1 DEF Coherence
    <2>3. c = at[Tick] => buf[Tick] = applied[c] /\ c \notin cache
      BY <1>8, <2>2 DEF Agreement, NextCopy, Where, EvictView
    <2>4. /\ row'[c] = IF c = at[Tick] THEN applied[c] ELSE row[c]
          /\ \A u \in Threads \ {Tick} : LoadView(u, c) => row'[c] = row[c]
      BY <1>8, <2>3 DEF Commit, WriteRace
    <2>5. NextCopy(c)'
      BY <1>8, <2>2, <2>3, <2>4 DEF Agreement, NextCopy, Where, EvictView
    <2>6. TableAgrees(c)'
      BY <1>8, <2>2, <2>4 DEF Agreement, TableAgrees, LoadView, ClearView
    <2>7. BatchAgrees(c)'
      BY <1>8, <2>2, <2>4 DEF Agreement, BatchAgrees
    <2>8. LoaderAgrees(c)'
      BY <1>8, <2>2, <2>4 DEF Agreement, LoaderAgrees, LoadView
    <2> QED
      BY <2>5, <2>6, <2>7, <2>8 DEF Agreement
  <1>9. ASSUME NEW x \in Chunks, GcAllVisit(x) PROVE Coherence'
    <2> SUFFICES ASSUME up, NEW c \in Chunks \ raced' PROVE Agreement(c)'
      BY <1>up DEF Coherence
    <2> USE DEF GcAllVisit, memory
    <2>1. c \notin raced
      BY <1>9 DEF Commit
    <2>2. Agreement(c)
      BY <2>1 DEF Coherence
    <2>3. /\ row'[c] = row[c] \/ row'[c] = applied[c]
          /\ c = x /\ c \in cache => row'[c] = applied[c]
          /\ \A u \in Threads \ {Tick} : LoadView(u, c) => row'[c] = row[c]
      <3>1. CASE x \in cache /\ x \in dirty
        <4>1. Commit(Tick, {x}, mem, FALSE)
          BY <1>9, <3>1
        <4>2. c = x => mem[c] = applied[c]
          BY <2>2, <3>1 DEF Agreement, NextCopy, Where
        <4> QED
          BY <4>1, <4>2 DEF Commit, WriteRace
      <3>2. CASE ~(x \in cache /\ x \in dirty)
        <4>1. row' = row
          BY <1>9, <3>2 DEF disk
        <4> QED
          BY <2>2, <3>2, <4>1 DEF Agreement, TableAgrees
      <3> QED
        BY <3>1, <3>2
    <2>4. NextCopy(c)'
      BY <1>9, <2>2, <2>3 DEF Agreement, NextCopy, Where, EvictView
    <2>5. TableAgrees(c)'
      BY <1>9, <2>2, <2>3 DEF Agreement, TableAgrees, LoadView, ClearView
    <2>6. BatchAgrees(c)'
      BY <1>9, <2>2, <2>3 DEF Agreement, BatchAgrees
    <2>7. LoaderAgrees(c)'
      BY <1>9, <2>2, <2>3 DEF Agreement, LoaderAgrees, LoadView
    <2> QED
      BY <2>4, <2>5, <2>6, <2>7 DEF Agreement
  <1> QED
    BY <1>2, <1>3, <1>4, <1>5, <1>6, <1>7, <1>8, <1>9 DEF Gc

LEMMA CoherentEnds ==
  ASSUME Typed, Coherence, Crash \/ PowerLoss \/ Exit \/ Start
  PROVE  Coherence'
  <1> USE ThreadKinds DEF Typed, TypeOK, Shape
  <1>1. ASSUME up', applied' = row', cache' = {},
               \A t \in Threads : pc'[t] = "idle" /\ batch'[t] = {}
        PROVE  Coherence'
    BY <1>1 DEF Coherence, Agreement, NextCopy, TableAgrees, BatchAgrees,
       LoaderAgrees, Where, EvictView
  <1>2. CASE Crash
    BY <1>2 DEF Crash, Coherence
  <1>3. CASE PowerLoss
    BY <1>3 DEF PowerLoss, Coherence
  <1>4. CASE Exit
    BY <1>4 DEF Exit, Coherence
  <1>5. CASE Start
    <2>1. /\ up' /\ applied' = row' /\ cache' = {}
          /\ \A t \in Threads : pc'[t] = "idle" /\ batch'[t] = {}
      BY <1>5 DEF Start, Recover, memory, threads
    <2> QED
      BY <1>1, <2>1
  <1> QED
    BY <1>2, <1>3, <1>4, <1>5

LEMMA IndInit == Init => Ind
  <1> SUFFICES ASSUME Init PROVE Rows /\ Coherence
    BY TypedInit DEF Ind
  <1>1. Rows
    BY ThreadKinds DEF Init, Rows, Blank, TableNow
  <1>2. Coherence
    BY ThreadKinds DEF Init, Coherence, Agreement, NextCopy, TableAgrees,
       BatchAgrees, LoaderAgrees, Where, EvictView, Blank
  <1> QED
    BY <1>1, <1>2

LEMMA IndStep == Ind /\ [Next]_vars => Ind'
  <1> SUFFICES ASSUME Typed, Rows, Coherence, [Next]_vars PROVE Coherence'
    BY TypedStep, RowsStep DEF Ind
  <1>1. CASE \E t \in Loaders : Load(t)
    BY <1>1, CoherentLoad
  <1>2. ASSUME NEW c \in Chunks, NEW e \in Edits, e \notin applied[c],
               EditCached(c, e)
        PROVE  Coherence'
    <2>1. UseGuard(Tick, c)
      BY <1>2 DEF EditCached, UseGuard
    <2> QED
      BY <1>2, <2>1, CoherentUse, ThreadKinds
         DEF EditCached, disk, threads
  <1>3. CASE UNCHANGED vars
    BY <1>3 DEF vars, disk, memory, threads, ghosts, Coherence, Agreement,
       NextCopy, TableAgrees, BatchAgrees, LoaderAgrees, Where, EvictView,
       LoadView, ClearView
  <1> QED
    BY <1>1, <1>2, <1>3, CoherentSync, CoherentGc, CoherentEnds DEF Next

LEMMA IndInvariant == Spec => []Ind
  BY IndInit, IndStep, PTL DEF Spec

(* Whatever the threads, chunks and interleavings: an edit is lost only on  *)
(* a chunk where one of the four named overlaps happened.                   *)
THEOREM StoreLosesNoEdit == Spec => []NoLostEdit
  <1>1. Ind => NoLostEdit
    BY DEF Ind, Coherence, Agreement, NextCopy, NoLostEdit
  <1> QED
    BY <1>1, IndInvariant, PTL

(* Unloading may drop any resident chunk without making it unreadable.      *)
THEOREM StoreHasRows == Spec => []StoredBeforeCached
  <1>1. Ind => StoredBeforeCached
    BY DEF Ind, Rows, StoredBeforeCached
  <1> QED
    BY <1>1, IndInvariant, PTL

(* A clean resident chunk equals its row, so dropping it loses nothing.     *)
THEOREM StoreCleanIsStored == Spec => []CleanMeansStored
  <1>1. Ind => CleanMeansStored
    BY DEF Ind, Typed, TypeOK, Shape, Coherence, Agreement, NextCopy,
       TableAgrees, Where, CleanMeansStored
  <1> QED
    BY <1>1, IndInvariant, PTL

-----------------------------------------------------------------------------
(* What a finished sync promised is durable.  On a chunk where no two       *)
(* threads overlapped every write stores all edits made so far, so rows     *)
(* only grow (TableMoves); a sync in progress either finds its goal in the  *)
(* table already or is about to write it (Covers).                          *)
Kept(c) ==
    /\ row[c] \subseteq applied[c]
    /\ promised[c] \subseteq row[c]
    /\ \A s \in recent : promised[c] \subseteq s.row[c]

Covers(t, c) ==
    /\ pc[t] = "scan" =>
          /\ goal[t][c] \subseteq applied[c]
          /\ c \in todo[t]    => c \in cache    \/ goal[t][c] \subseteq row[c]
          /\ c \notin todo[t] => c \in batch[t] \/ goal[t][c] \subseteq row[c]
    /\ pc[t] = "clean" => goal[t][c] \subseteq row[c]

Durable(c) == Kept(c) /\ \A t \in Threads : Covers(t, c)

Promises == TableNow \in recent /\ \A c \in Chunks \ raced : Durable(c)

TableMoves(c) ==
    /\ row'[c] = row[c] \/ row'[c] = applied'[c]
    /\ applied[c] \subseteq applied'[c]
    /\ promised'[c] = promised[c]
    /\ \A s \in recent' : s \in recent \/ s.row[c] = row'[c]

\* The scan of t goes on as it was, or is over.
SameScan(t) ==
    pc'[t] \in {"scan", "clean"} =>
       pc'[t] = pc[t] /\ todo'[t] = todo[t] /\ batch'[t] = batch[t] /\ goal'[t] = goal[t]

\* c does not leave the cache before a scan has come to it.
StaysForScan(t, c) ==
    pc[t] = "scan" /\ c \in todo[t] /\ c \in cache =>
       c \in cache' \/ goal[t][c] \subseteq row[c]

LEMMA KeptMoves ==
  ASSUME NEW c, Kept(c), TableMoves(c)
  PROVE  Kept(c)' /\ row[c] \subseteq row'[c]
  <1>1. row[c] \subseteq row'[c] /\ row'[c] \subseteq applied'[c]
    BY DEF Kept, TableMoves
  <1>2. ASSUME NEW s \in recent' PROVE promised'[c] \subseteq s.row[c]
    BY <1>1 DEF Kept, TableMoves
  <1> QED
    BY <1>1, <1>2 DEF Kept, TableMoves

LEMMA CoversMoves ==
  ASSUME NEW c, NEW t, Kept(c), Covers(t, c), TableMoves(c), SameScan(t),
         StaysForScan(t, c)
  PROVE  Covers(t, c)'
  <1>1. row[c] \subseteq row'[c] /\ applied[c] \subseteq applied'[c]
    BY KeptMoves DEF TableMoves
  <1> QED
    BY <1>1 DEF Covers, SameScan, StaysForScan

LEMMA DurableMoves ==
  ASSUME NEW c, Durable(c), TableMoves(c), \A t \in Threads : SameScan(t) /\ StaysForScan(t, c)
  PROVE  Durable(c)'
  BY KeptMoves, CoversMoves DEF Durable

LEMMA PromisesInit == Init => Promises
  BY ThreadKinds DEF Init, Promises, Durable, Kept, Covers, Blank, TableNow

\* A transaction that writes the chunks of S with every edit made to them.
LEMMA CommitMoves ==
  ASSUME TypeOK, NEW t, NEW S, NEW v, NEW d, Commit(t, S, v, d), NEW c \in Chunks,
         c \in S => v[c] = applied[c] \/ v[c] = row[c],
         applied' = applied, promised' = promised
  PROVE  TableMoves(c)
  <1>1. row'[c] = row[c] \/ row'[c] = applied[c]
    BY DEF Commit
  <1>2. ASSUME NEW s \in recent' PROVE s \in recent \/ s.row[c] = row'[c]
    BY DEF Commit
  <1> QED
    BY <1>1, <1>2 DEF TableMoves

LEMMA CommitIsRecent ==
  ASSUME NEW t, NEW S, NEW v, NEW d, Commit(t, S, v, d)
  PROVE  TableNow' \in recent' /\ raced \subseteq raced'
  BY DEF Commit, TableNow

LEMMA UseGuardMoves ==
  ASSUME TypeOK, NEW t, NEW x \in Chunks, UseGuard(t, x), UNCHANGED <<disk, promised>>, NEW c \in Chunks
  PROVE  TableMoves(c) /\ raced \subseteq raced'
  <1>1. CASE UNCHANGED <<mem, dirty, applied, raced>>
    BY <1>1 DEF TableMoves, disk
  <1>2. ASSUME NEW e \in Edits, SetBlock(t, x, e)
        PROVE  TableMoves(c) /\ raced \subseteq raced'
    <2>1. applied[c] \subseteq applied'[c]
      BY <1>2 DEF SetBlock, TypeOK
    <2> QED
      BY <1>2, <2>1 DEF SetBlock, TableMoves, disk
  <1> QED
    BY <1>1, <1>2 DEF UseGuard

LEMMA PromisesLoad ==
  ASSUME Ind, Promises, NEW t \in Loaders, Load(t)
  PROVE  Promises'
  <1> USE ThreadKinds DEF Ind, Typed, TypeOK, Goto
  <1>1. t \in Threads
    BY ThreadKinds
  <1>2. \A u \in Threads : SameScan(u)
    BY <1>1 DEF Load, LoadBegin, ChunkExists, InsertGenerated, LookupHit, LookupMiss,
       ReadRow, LoadFails, CacheInsert, Fetch, FetchPanics, Settle, Finish, SameScan
  <1>3. cache \subseteq cache'
    BY DEF Load, LoadBegin, ChunkExists, InsertGenerated, LookupHit, LookupMiss,
       ReadRow, LoadFails, CacheInsert, Fetch, FetchPanics, Settle, memory
  <1>4. /\ TableNow' \in recent' /\ raced \subseteq raced'
        /\ \A c \in Chunks \ raced' : TableMoves(c)
    <2>1. CASE InsertGenerated(t)
      <3>1. Commit(t, {at[t]}, Blank, FALSE) /\ UNCHANGED <<applied, promised>>
        BY <2>1 DEF InsertGenerated
      <3>2. TableNow' \in recent' /\ raced \subseteq raced'
        BY <3>1, CommitIsRecent
      <3>3. ASSUME NEW c \in Chunks \ raced' PROVE TableMoves(c)
        <4>1. up
          BY <1>1, <2>1 DEF InsertGenerated, Shape
        <4>2. c \in {at[t]} => Blank[c] = applied[c] \/ Blank[c] = row[c]
          BY <1>1, <2>1, <3>2, <4>1
             DEF InsertGenerated, Coherence, Agreement, LoaderAgrees, Blank
        <4> QED
          BY <3>1, <4>2, CommitMoves
      <3> QED
        BY <3>2, <3>3
    <2>2. CASE LookupHit(t) \/ Fetch(t) \/ Settle(t)
      <3>1. UNCHANGED <<disk, promised>>
        BY <2>2 DEF LookupHit, Fetch, Settle
      <3>2. UseGuard(t, at[t])
        BY <2>2 DEF LookupHit, Fetch, Settle, UseGuard
      <3>3. at[t] \in Chunks
        BY <1>1, <2>2 DEF LookupHit, Fetch, Settle, Shape
      <3>4. raced \subseteq raced' /\ \A c \in Chunks : TableMoves(c)
        <4>1. raced \subseteq raced'
          BY <3>2 DEF UseGuard, SetBlock
        <4> QED
          BY <3>1, <3>2, <3>3, <4>1, UseGuardMoves
      <3> QED
        BY <3>1, <3>4 DEF Promises, TableNow, disk
    <2>3. CASE ~(InsertGenerated(t) \/ LookupHit(t) \/ Fetch(t) \/ Settle(t))
      <3>1. UNCHANGED <<disk, applied, promised>> /\ raced \subseteq raced'
        BY <2>3 DEF Load, LoadBegin, ChunkExists, LookupMiss, ReadRow, LoadFails,
           CacheInsert, FetchPanics, ghosts
      <3> QED
        BY <3>1 DEF Promises, TableNow, disk, TableMoves
    <2> QED
      BY <2>1, <2>2, <2>3
  <1>5. ASSUME NEW c \in Chunks \ raced' PROVE Durable(c)'
    <2>1. \A u \in Threads : SameScan(u) /\ StaysForScan(u, c)
      BY <1>2, <1>3 DEF StaysForScan
    <2> QED
      BY <1>4, <2>1, DurableMoves DEF Promises
  <1> QED
    BY <1>4, <1>5 DEF Promises

LEMMA PromisesSync ==
  ASSUME Ind, Promises, NEW t \in Threads,
         \/ StartScan(t) /\ up
         \/ SyncFails(t)
         \/ Sync(t)
  PROVE  Promises'
  <1> USE ThreadKinds DEF Ind, Typed, TypeOK, Goto
  <1>up. pc[t] # "idle" => up
    BY DEF Shape
  <1>1. ASSUME StartScan(t), up PROVE Promises'
    <2> USE DEF StartScan, disk, memory, ghosts
    <2>1. ASSUME NEW c \in Chunks \ raced PROVE Durable(c)'
      <3>1. TableMoves(c)
        BY <1>1 DEF TableMoves
      <3>2. Kept(c)'
        BY <3>1, KeptMoves, <2>1 DEF Promises, Durable
      <3>3. ASSUME NEW u \in Threads PROVE Covers(u, c)'
        <4>1. CASE u = t
          <5>1. /\ pc'[t] = "scan" /\ todo'[t] = Chunks
                /\ goal'[t][c] = IF c \in cache THEN mem[c] ELSE row[c]
            BY <1>1
          <5>2. c \in cache => mem[c] = applied[c]
            BY <1>1 DEF Coherence, Agreement, NextCopy, Where
          <5>3. row[c] \subseteq applied[c]
            BY DEF Promises, Durable, Kept
          <5>4. applied' = applied /\ row' = row /\ cache' = cache
            BY <1>1
          <5> QED
            BY <4>1, <5>1, <5>2, <5>3, <5>4 DEF Covers
        <4>2. CASE u # t
          <5>1. SameScan(u) /\ StaysForScan(u, c)
            BY <1>1, <4>2 DEF SameScan, StaysForScan
          <5> QED
            BY <3>1, <5>1, CoversMoves DEF Promises, Durable
        <4> QED
          BY <4>1, <4>2
      <3> QED
        BY <3>2, <3>3 DEF Durable
    <2>2. TableNow' \in recent' /\ raced' = raced
      BY <1>1 DEF Promises, TableNow
    <2> QED
      BY <2>1, <2>2 DEF Promises
  <1>2. CASE SyncFails(t)
    <2>1. TableNow' \in recent' /\ raced' = raced
      BY <1>2 DEF SyncFails, disk, ghosts, Promises, TableNow
    <2>2. ASSUME NEW c \in Chunks \ raced PROVE Durable(c)'
      <3>1. TableMoves(c)
        BY <1>2 DEF SyncFails, disk, ghosts, TableMoves
      <3>2. \A u \in Threads : SameScan(u) /\ StaysForScan(u, c)
        BY <1>2 DEF SyncFails, memory, SameScan, StaysForScan
      <3> QED
        BY <3>1, <3>2, DurableMoves DEF Promises
    <2> QED
      BY <2>1, <2>2 DEF Promises
  <1>3. ASSUME NEW x \in Chunks, Serialise(t, x) PROVE Promises'
    <2> USE DEF Serialise, disk, memory, ghosts
    <2>1. TableNow' \in recent' /\ raced' = raced /\ up
      BY <1>3, <1>up DEF Promises, TableNow
    <2>2. ASSUME NEW c \in Chunks \ raced PROVE Durable(c)'
      <3>1. TableMoves(c)
        BY <1>3 DEF TableMoves
      <3>2. Kept(c)'
        BY <3>1, KeptMoves, <2>2 DEF Promises, Durable
      <3>3. ASSUME NEW u \in Threads PROVE Covers(u, c)'
        <4>1. Covers(u, c)
          BY DEF Promises, Durable
        <4>2. CASE u # t
          BY <1>3, <4>1, <4>2 DEF Covers
        <4>3. CASE u = t /\ c # x
          BY <1>3, <4>1, <4>3 DEF Covers
        <4>4. CASE u = t /\ c = x
          <5>1. CASE c \in cache /\ c \in dirty
            <6>1. /\ c \in batch'[t] /\ pc'[t] = "scan" /\ c \notin todo'[t]
                  /\ goal'[t][c] \subseteq applied'[c]
              BY <1>3, <4>1, <4>4, <5>1 DEF Covers
            <6> QED
              BY <4>4, <6>1 DEF Covers
          <5>2. CASE c \in cache /\ c \notin dirty
            <6>1. row[c] = applied[c]
              BY <2>1, <5>2 DEF Coherence, Agreement, TableAgrees
            <6> QED
              BY <1>3, <4>1, <4>4, <5>2, <6>1 DEF Covers
          <5>3. CASE c \notin cache
            BY <1>3, <4>1, <4>4, <5>3 DEF Covers
          <5> QED
            BY <5>1, <5>2, <5>3
        <4> QED
          BY <4>2, <4>3, <4>4
      <3> QED
        BY <3>2, <3>3 DEF Durable
    <2> QED
      BY <2>1, <2>2 DEF Promises
  <1>4. ASSUME NEW x \in Chunks, MarkClean(t, x) PROVE Promises'
    <2> USE DEF MarkClean, disk, ghosts
    <2>1. TableNow' \in recent' /\ raced' = raced
      BY <1>4 DEF Promises, TableNow
    <2>2. ASSUME NEW c \in Chunks \ raced PROVE Durable(c)'
      <3>1. TableMoves(c)
        BY <1>4 DEF TableMoves
      <3>2. Kept(c)'
        BY <3>1, KeptMoves, <2>2 DEF Promises, Durable
      <3>3. ASSUME NEW u \in Threads PROVE Covers(u, c)'
        <4>1. Covers(u, c)
          BY DEF Promises, Durable
        <4> QED
          BY <1>4, <4>1 DEF Covers
      <3> QED
        BY <3>2, <3>3 DEF Durable
    <2> QED
      BY <2>1, <2>2 DEF Promises
  <1>5. CASE BatchUpsert(t)
    <2> USE DEF BatchUpsert, memory
    <2>1. CASE batch[t] = {}
      <3>1. TableNow' \in recent' /\ raced' = raced
        BY <1>5, <2>1 DEF Promises, TableNow, disk
      <3>2. ASSUME NEW c \in Chunks \ raced PROVE Durable(c)'
        <4>1. TableMoves(c)
          BY <1>5, <2>1 DEF TableMoves, disk
        <4>2. Kept(c)'
          BY <4>1, KeptMoves, <3>2 DEF Promises, Durable
        <4>3. ASSUME NEW u \in Threads PROVE Covers(u, c)'
          <5>1. Covers(u, c)
            BY DEF Promises, Durable
          <5> QED
            BY <1>5, <2>1, <5>1 DEF Covers, disk
        <4> QED
          BY <4>2, <4>3 DEF Durable
      <3> QED
        BY <3>1, <3>2 DEF Promises
    <2>2. CASE batch[t] # {}
      <3>1. Commit(t, batch[t], snap[t], TRUE) /\ up
        BY <1>5, <2>2, <1>up
      <3>2. TableNow' \in recent' /\ raced \subseteq raced'
        BY <3>1, CommitIsRecent
      <3>3. ASSUME NEW c \in Chunks \ raced' PROVE Durable(c)'
        <4>1. c \in batch[t] => snap[t][c] = applied[c]
          BY <3>1, <3>2 DEF Coherence, Agreement, BatchAgrees
        <4>2. TableMoves(c)
          BY <1>5, <3>1, <4>1, CommitMoves
        <4>3. Kept(c)' /\ row[c] \subseteq row'[c]
          BY <3>2, <4>2, KeptMoves DEF Promises, Durable
        <4>4. ASSUME NEW u \in Threads PROVE Covers(u, c)'
          <5>1. Covers(u, c)
            BY <3>2 DEF Promises, Durable
          <5>2. CASE u # t
            BY <1>5, <4>3, <5>1, <5>2 DEF Covers
          <5>3. CASE u = t
            <6>1. c \in batch[t] => row'[c] = applied[c]
              BY <3>1, <4>1 DEF Commit
            <6>2. pc[t] = "scan" /\ todo[t] = {} /\ pc'[t] = "clean" /\ goal' = goal
              BY <1>5
            <6> QED
              BY <4>3, <5>1, <5>3, <6>1, <6>2 DEF Covers
          <5> QED
            BY <5>2, <5>3
        <4> QED
          BY <4>3, <4>4 DEF Durable
      <3> QED
        BY <3>2, <3>3 DEF Promises
    <2> QED
      BY <2>1, <2>2
  <1>6. CASE Flush(t)
    <2> USE DEF Flush, memory
    <2>1. TableNow' \in recent' /\ raced' = raced
      BY <1>6 DEF TableNow
    <2>2. ASSUME NEW c \in Chunks \ raced PROVE Durable(c)'
      <3>1. /\ row' = row /\ applied' = applied /\ recent' = {TableNow}
            /\ promised'[c] = promised[c] \cup goal[t][c]
        BY <1>6
      <3>2. goal[t][c] \subseteq row[c] /\ promised[c] \subseteq row[c] /\ row[c] \subseteq applied[c]
        BY <1>6 DEF Promises, Durable, Covers, Kept
      <3>3. Kept(c)'
        BY <3>1, <3>2 DEF Kept, TableNow
      <3>4. ASSUME NEW u \in Threads PROVE Covers(u, c)'
        <4>1. Covers(u, c)
          BY DEF Promises, Durable
        <4> QED
          BY <1>6, <4>1 DEF Covers
      <3> QED
        BY <3>3, <3>4 DEF Durable
    <2> QED
      BY <2>1, <2>2 DEF Promises
  <1> QED
    BY <1>1, <1>2, <1>3, <1>4, <1>5, <1>6 DEF Sync

LEMMA PromisesGc ==
  ASSUME Ind, Promises, Gc
  PROVE  Promises'
  <1> USE ThreadKinds DEF Ind, Typed, TypeOK, Goto
  <1>1. ASSUME NEW u \in Threads PROVE SameScan(u)
    <2>1. CASE \E S \in SUBSET Chunks : GcBegin(S)
      BY <2>1 DEF GcBegin, SameScan
    <2>2. CASE \E c \in Chunks : GcRemove(c)
      BY <2>2 DEF GcRemove, SameScan
    <2>3. CASE \E c \in Chunks : GcAllVisit(c)
      BY <2>3 DEF GcAllVisit, SameScan
    <2>4. CASE \E c \in Chunks : GcClear(c)
      BY <2>4 DEF GcClear, SameScan
    <2>5. CASE GcWriteBack
      BY <2>5 DEF GcWriteBack, SameScan
    <2>6. CASE GcEnd
      BY <2>6 DEF GcEnd, SameScan
    <2>7. CASE GcAllBegin
      BY <2>7 DEF GcAllBegin, SameScan
    <2>8. CASE GcClearBegin
      BY <2>8 DEF GcClearBegin, SameScan
    <2> QED
      BY <2>1, <2>2, <2>3, <2>4, <2>5, <2>6, <2>7, <2>8 DEF Gc
  <1>2. /\ TableNow' \in recent' /\ raced \subseteq raced'
        /\ \A c \in Chunks \ raced' : TableMoves(c)
    <2>1. CASE GcWriteBack
      <3>1. /\ Commit(Tick, {at[Tick]}, [c \in Chunks |-> buf[Tick]], FALSE)
            /\ UNCHANGED <<applied, promised>> /\ up
        BY <2>1 DEF GcWriteBack, Shape
      <3>2. TableNow' \in recent' /\ raced \subseteq raced'
        BY <3>1, CommitIsRecent
      <3>3. ASSUME NEW c \in Chunks \ raced' PROVE TableMoves(c)
        <4> DEFINE v == [x \in Chunks |-> buf[Tick]]
        <4>1. c \in {at[Tick]} => v[c] = applied[c]
          BY <2>1, <3>1, <3>2 DEF GcWriteBack, Coherence, Agreement, NextCopy, Where, EvictView
        <4>2. Commit(Tick, {at[Tick]}, v, FALSE)
          BY <3>1
        <4> HIDE DEF v
        <4> QED
          BY <3>1, <4>1, <4>2, CommitMoves
      <3> QED
        BY <3>2, <3>3
    <2>2. ASSUME NEW x \in Chunks, GcAllVisit(x), x \in cache /\ x \in dirty
          PROVE  /\ TableNow' \in recent' /\ raced \subseteq raced'
                 /\ \A c \in Chunks \ raced' : TableMoves(c)
      <3>1. Commit(Tick, {x}, mem, FALSE) /\ UNCHANGED <<applied, promised>> /\ up
        BY <2>2 DEF GcAllVisit, Shape
      <3>2. TableNow' \in recent' /\ raced \subseteq raced'
        BY <3>1, CommitIsRecent
      <3>3. ASSUME NEW c \in Chunks \ raced' PROVE TableMoves(c)
        <4>1. c \in {x} => mem[c] = applied[c]
          BY <2>2, <3>1, <3>2 DEF Coherence, Agreement, NextCopy, Where
        <4> QED
          BY <3>1, <4>1, CommitMoves
      <3> QED
        BY <3>2, <3>3
    <2>3. ASSUME UNCHANGED <<disk, applied, promised>>, raced \subseteq raced'
          PROVE  /\ TableNow' \in recent' /\ raced \subseteq raced'
                 /\ \A c \in Chunks \ raced' : TableMoves(c)
      BY <2>3 DEF Promises, TableNow, disk, TableMoves
    <2>4. ASSUME NEW x \in Chunks, GcAllVisit(x), ~(x \in cache /\ x \in dirty)
          PROVE  UNCHANGED <<disk, applied, promised>> /\ raced \subseteq raced'
      BY <2>4 DEF GcAllVisit
    <2>5. ASSUME NEW x \in Chunks, GcRemove(x) \/ GcClear(x)
          PROVE  UNCHANGED <<disk, applied, promised>> /\ raced \subseteq raced'
      BY <2>5 DEF GcRemove, GcClear, ghosts
    <2>6. ASSUME NEW S \in SUBSET Chunks, GcBegin(S)
          PROVE  UNCHANGED <<disk, applied, promised>> /\ raced \subseteq raced'
      BY <2>6 DEF GcBegin, ghosts
    <2>7. ASSUME GcEnd \/ GcAllBegin \/ GcClearBegin
          PROVE  UNCHANGED <<disk, applied, promised>> /\ raced \subseteq raced'
      BY <2>7 DEF GcEnd, GcAllBegin, GcClearBegin, ghosts
    <2> QED
      BY <2>1, <2>2, <2>3, <2>4, <2>5, <2>6, <2>7 DEF Gc
  <1>3. ASSUME NEW c \in Chunks \ raced', NEW u \in Threads PROVE StaysForScan(u, c)
    <2>1. SUFFICES ASSUME pc[u] = "scan", c \in todo[u], c \in cache, c \notin cache'
                   PROVE  goal[u][c] \subseteq row[c]
      BY DEF StaysForScan
    <2>2. up /\ c \notin raced
      BY <1>2, <2>1 DEF Shape
    <2>3. row[c] = applied[c]
      <3>1. CASE GcRemove(c)
        <4>1. c \notin dirty
          BY <2>1, <3>1, <1>2 DEF GcRemove, EvictRace
        <4> QED
          BY <2>1, <2>2, <4>1 DEF Coherence, Agreement, TableAgrees
      <3>2. CASE GcClear(c)
        BY <2>1, <2>2, <3>2 DEF GcClear, ClearView, Coherence, Agreement, TableAgrees
      <3>3. CASE \E x \in Chunks \ {c} : GcRemove(x) \/ GcClear(x)
        BY <2>1, <3>3 DEF GcRemove, GcClear
      <3>4. CASE \E x \in Chunks : GcAllVisit(x)
        BY <2>1, <3>4 DEF GcAllVisit, memory
      <3>5. CASE \E S \in SUBSET Chunks : GcBegin(S)
        BY <2>1, <3>5 DEF GcBegin, memory
      <3>6. CASE GcWriteBack \/ GcEnd \/ GcAllBegin \/ GcClearBegin
        BY <2>1, <3>6 DEF GcWriteBack, GcEnd, GcAllBegin, GcClearBegin, memory
      <3> QED
        BY <3>1, <3>2, <3>3, <3>4, <3>5, <3>6 DEF Gc
    <2> QED
      BY <2>1, <2>2, <2>3 DEF Promises, Durable, Covers
  <1>4. ASSUME NEW c \in Chunks \ raced' PROVE Durable(c)'
    BY <1>1, <1>2, <1>3, <1>4, DurableMoves DEF Promises
  <1> QED
    BY <1>2, <1>4 DEF Promises

LEMMA PromisesEnds ==
  ASSUME Ind, Promises, Crash \/ PowerLoss \/ Exit \/ Start
  PROVE  Promises'
  <1> USE ThreadKinds DEF Ind, Typed, TypeOK
  \* The ghosts start over: what is lost on a raced chunk is written off.
  <1>1. ASSUME Recover, \A t \in Threads : pc'[t] = "idle", TableNow' \in recent',
               \A c \in Chunks \ raced : \A s \in recent' : promised[c] \subseteq s.row[c]
        PROVE  Promises'
    <2>1. ASSUME NEW c \in Chunks PROVE Durable(c)'
      <3>1. applied'[c] = row'[c]
        BY <1>1 DEF Recover
      <3>2. ASSUME NEW s \in recent' PROVE promised'[c] \subseteq s.row[c]
        <4>1. CASE c \in raced
          BY <1>1, <4>1 DEF Recover
        <4>2. CASE c \notin raced
          <5>1. promised'[c] = promised[c]
            BY <1>1, <4>2 DEF Recover
          <5> QED
            BY <1>1, <4>2, <5>1
        <4> QED
          BY <4>1, <4>2
      <3>3. promised'[c] \subseteq row'[c]
        <4>1. TableNow'.row = row'
          BY DEF TableNow
        <4> QED
          BY <1>1, <3>2, <4>1
      <3>4. Kept(c)'
        BY <3>1, <3>2, <3>3 DEF Kept
      <3>5. \A t \in Threads : Covers(t, c)'
        BY <1>1 DEF Covers
      <3> QED
        BY <3>4, <3>5 DEF Durable
    <2> QED
      BY <1>1, <2>1 DEF Promises
  <1>2. CASE Crash
    <2>1. Recover /\ (\A t \in Threads : pc'[t] = "idle") /\ UNCHANGED disk
      BY <1>2 DEF Crash, LoseMemory
    <2> QED
      BY <1>1, <2>1 DEF disk, TableNow, Promises, Durable, Kept
  <1>3. CASE PowerLoss
    <2>1. PICK s \in recent : /\ stored' = s.stored /\ row' = s.row
                              /\ rowDirty' = s.rowDirty /\ recent' = {s}
      BY <1>3 DEF PowerLoss
    <2>2. s = TableNow'
      BY <2>1 DEF TableNow, Table
    <2>3. Recover /\ (\A t \in Threads : pc'[t] = "idle")
      BY <1>3 DEF PowerLoss, LoseMemory
    <2>4. \A c \in Chunks \ raced : promised[c] \subseteq s.row[c]
      BY DEF Promises, Durable, Kept
    <2> QED
      BY <1>1, <2>1, <2>2, <2>3, <2>4
  <1>4. CASE Exit
    <2>1. /\ \A t \in Threads : pc'[t] = "idle"
          /\ UNCHANGED <<stored, row, rowDirty, recent, applied, raced, promised>>
      BY <1>4 DEF Exit, LoseMemory, disk, ghosts
    <2> QED
      BY <2>1 DEF Promises, TableNow, Durable, Kept, Covers
  <1>5. CASE Start
    <2>1. Recover /\ (\A t \in Threads : pc'[t] = "idle") /\ UNCHANGED disk
      BY <1>5 DEF Start, threads, Shape
    <2> QED
      BY <1>1, <2>1 DEF disk, TableNow, Promises, Durable, Kept
  <1> QED
    BY <1>2, <1>3, <1>4, <1>5

LEMMA PromisesStep == Ind /\ Promises /\ [Next]_vars => Promises'
  <1> SUFFICES ASSUME Ind, Promises, [Next]_vars PROVE Promises'
    OBVIOUS
  <1>1. ASSUME NEW c \in Chunks, NEW e \in Edits, EditCached(c, e)
        PROVE  Promises'
    <2> USE ThreadKinds DEF Ind, Typed, TypeOK, EditCached, SetBlock, disk, threads
    <2>1. TableNow' \in recent' /\ raced \subseteq raced'
      BY <1>1 DEF Promises, TableNow
    <2>2. ASSUME NEW x \in Chunks \ raced' PROVE Durable(x)'
      <3>1. TableMoves(x)
        <4>1. applied[x] \subseteq applied'[x]
          BY <1>1
        <4> QED
          BY <1>1, <4>1 DEF TableMoves
      <3>2. \A u \in Threads : SameScan(u) /\ StaysForScan(u, x)
        BY <1>1 DEF SameScan, StaysForScan
      <3> QED
        BY <2>1, <3>1, <3>2, DurableMoves DEF Promises
    <2> QED
      BY <2>1, <2>2 DEF Promises
  <1>2. CASE UNCHANGED vars
    BY <1>2 DEF vars, disk, memory, threads, ghosts, Promises, TableNow, Durable, Kept, Covers
  <1>3. CASE SyncWorld \/ \E t \in Signals : CtrlC(t)
    BY <1>3, PromisesSync, ThreadKinds DEF SyncWorld, CtrlC
  <1>4. CASE (\E t \in Signals : SyncFails(t)) \/ \E t \in Syncers : Sync(t)
    BY <1>4, PromisesSync, ThreadKinds
  <1> QED
    BY <1>1, <1>2, <1>3, <1>4, PromisesLoad, PromisesGc, PromisesEnds DEF Next

(* What a sync has reported written survives a power loss, whatever ran     *)
(* beside the sync: except on a chunk where two threads overlapped.         *)
THEOREM StoreKeepsPromises == Spec => []PromisedSurvives
  <1>1. Ind /\ Promises => PromisedSurvives
    BY DEF Promises, Durable, Kept, PromisedSurvives
  <1> QED
    BY <1>1, IndInvariant, PromisesInit, PromisesStep, PTL DEF Spec

-----------------------------------------------------------------------------
(* The tick thread's own loads find their chunk, since it alone unloads.    *)
THEOREM TickLoadsDoNotPanic == Spec => []TickFindsItsChunk
  <1>1. Init => TickFindsItsChunk
    BY ThreadKinds DEF Init, TickFindsItsChunk
  <1>2. Typed /\ TickFindsItsChunk /\ [Next]_vars => TickFindsItsChunk'
    <2> SUFFICES ASSUME Typed, TickFindsItsChunk, [Next]_vars
                 PROVE  TickFindsItsChunk'
      OBVIOUS
    <2> USE ThreadKinds DEF Typed, TypeOK, TickFindsItsChunk, Goto
    <2>1. ASSUME NEW t \in Loaders, Load(t) PROVE TickFindsItsChunk'
      <3>1. CASE CacheInsert(t)
        BY <3>1 DEF CacheInsert
      <3>2. CASE ~CacheInsert(t)
        <4>1. /\ UNCHANGED cache
              /\ pc'[Tick] = "fetch" => pc[Tick] = "fetch" /\ at'[Tick] = at[Tick]
          BY <2>1, <3>2 DEF Load, LoadBegin, ChunkExists, InsertGenerated,
             LookupHit, LookupMiss, ReadRow, LoadFails, Fetch, FetchPanics,
             Settle, Finish, memory
        <4> QED
          BY <4>1
      <3> QED
        BY <3>1, <3>2
    <2>2. ASSUME NEW c \in Chunks, NEW e \in Edits, EditCached(c, e)
          PROVE  TickFindsItsChunk'
      BY <2>2 DEF EditCached, threads
    <2>3. CASE \/ SyncWorld \/ \E t \in Signals : CtrlC(t) \/ SyncFails(t)
               \/ \E t \in Syncers : Sync(t)
      <3>1. ASSUME NEW t \in Threads,
                   UNCHANGED <<cache, at>>,
                   \/ UNCHANGED pc
                   \/ \E l \in {"scan", "dead", "clean", "idle"} : Goto(t, l)
            PROVE  TickFindsItsChunk'
        BY <3>1
      <3>2. SyncWorld => TickFindsItsChunk'
        BY <3>1 DEF SyncWorld, StartScan, memory
      <3>3. ASSUME NEW t \in Signals, CtrlC(t) \/ SyncFails(t)
            PROVE  TickFindsItsChunk'
        BY <3>1, <3>3 DEF CtrlC, StartScan, SyncFails, memory
      <3>4. ASSUME NEW t \in Syncers, Sync(t)
            PROVE  TickFindsItsChunk'
        BY <3>1, <3>4 DEF Sync, Serialise, MarkClean, BatchUpsert, Flush,
           memory
      <3> QED
        BY <2>3, <3>2, <3>3, <3>4
    <2>4. CASE Gc
      <3>1. pc'[Tick] # "fetch"
        <4>1. ASSUME NEW c \in Chunks, GcRemove(c) \/ GcAllVisit(c) \/ GcClear(c)
              PROVE  pc'[Tick] # "fetch"
          BY <4>1 DEF GcRemove, GcAllVisit, GcClear
        <4>2. ASSUME NEW S \in SUBSET Chunks, GcBegin(S)
              PROVE  pc'[Tick] # "fetch"
          BY <4>2 DEF GcBegin
        <4>3. CASE GcWriteBack \/ GcEnd \/ GcAllBegin \/ GcClearBegin
          BY <4>3 DEF GcWriteBack, GcEnd, GcAllBegin, GcClearBegin
        <4> QED
          BY <2>4, <4>1, <4>2, <4>3 DEF Gc
      <3> QED
        BY <3>1
    <2>5. CASE Crash \/ PowerLoss \/ Exit
      BY <2>5 DEF Crash, PowerLoss, Exit, LoseMemory
    <2>6. CASE Start
      BY <2>6 DEF Start, memory, threads
    <2>7. CASE UNCHANGED vars
      BY <2>7 DEF vars, memory, threads
    <2> QED
      BY <2>1, <2>2, <2>3, <2>4, <2>5, <2>6, <2>7 DEF Next
  <1>3. Spec => []Typed
    BY TypedInit, TypedStep, PTL DEF Spec
  <1> QED
    BY <1>1, <1>2, <1>3, PTL DEF Spec

(* With the tick thread alone there are no overlaps at all, ...             *)
THEOREM SequentialNeverRaces ==
  ASSUME Workers = {}, Signals = {}
  PROVE  Spec => [](raced = {})
  <1> Threads = {Tick}
    BY DEF Threads
  <1>1. Init => raced = {}
    BY DEF Init
  <1>2. raced = {} /\ [Next]_vars => (raced = {})'
    <2> SUFFICES ASSUME raced = {}, [Next]_vars PROVE raced' = {}
      OBVIOUS
    <2>1. /\ \A t \in Threads, c \in Chunks : EditRace(t, c) = {}
          /\ \A t \in Threads, c \in Chunks : InsertRace(t, c) = {}
          /\ \A t \in Threads, c \in Chunks : EvictRace(t, c) = {}
      BY DEF EditRace, InsertRace, EvictRace
    <2>2. \A t \in Threads : \A S, v, d : Commit(t, S, v, d) => raced' = {}
      BY DEF Commit, WriteRace
    <2>3. \A t \in Threads : \A c : UseGuard(t, c) => raced' = {}
      BY DEF UseGuard, SetBlock, EditRace
    <2> USE DEF disk, memory, threads, ghosts
    <2>4. ASSUME NEW t \in Loaders, Load(t) PROVE raced' = {}
      <3> t \in Threads
        BY DEF Loaders
      <3>1. CASE LookupHit(t) \/ Fetch(t) \/ Settle(t)
        BY <2>3, <3>1 DEF LookupHit, Fetch, Settle
      <3>2. CASE InsertGenerated(t)
        BY <3>2 DEF InsertGenerated, Commit, WriteRace
      <3>3. CASE CacheInsert(t)
        BY <3>3 DEF CacheInsert, InsertRace
      <3> QED
        BY <2>4, <3>1, <3>2, <3>3 DEF Load, LoadBegin, ChunkExists,
           LookupMiss, ReadRow, LoadFails, FetchPanics
    <2>5. ASSUME NEW c \in Chunks, NEW e \in Edits, EditCached(c, e)
          PROVE  raced' = {}
      BY <2>5 DEF EditCached, SetBlock, EditRace
    <2>6. CASE SyncWorld \/ \E t \in Syncers : Sync(t)
      <3>1. ASSUME NEW t \in Syncers, BatchUpsert(t) PROVE raced' = {}
        BY <3>1 DEF BatchUpsert, Commit, WriteRace, Syncers
      <3> QED
        BY <2>6, <3>1 DEF SyncWorld, StartScan, Sync, Serialise, MarkClean,
           Flush
    <2>7. CASE Gc
      <3>1. ASSUME NEW c \in Chunks, GcRemove(c) PROVE raced' = {}
        BY <2>1, <3>1 DEF GcRemove
      <3>2. ASSUME NEW c \in Chunks, GcAllVisit(c) PROVE raced' = {}
        BY <3>2 DEF GcAllVisit, Commit, WriteRace
      <3>3. CASE GcWriteBack
        BY <3>3 DEF GcWriteBack, Commit, WriteRace
      <3> QED
        BY <2>7, <3>1, <3>2, <3>3 DEF Gc, GcBegin, GcClear, GcEnd, GcAllBegin,
           GcClearBegin
    <2>8. CASE Crash \/ PowerLoss \/ Exit \/ Start
      BY <2>8 DEF Crash, PowerLoss, Exit, Start, Recover
    <2>9. CASE UNCHANGED vars
      BY <2>9 DEF vars
    <2> QED
      BY <2>4, <2>5, <2>6, <2>7, <2>8, <2>9 DEF Next
  <1> QED
    BY <1>1, <1>2, PTL DEF Spec

(* ... so every chunk always reads back exactly the edits made to it.       *)
THEOREM SequentialStoreIsExact ==
  ASSUME Workers = {}, Signals = {}
  PROVE  Spec => [](up => \A c \in Chunks : Where(c) = applied[c])
  <1>1. NoLostEdit /\ raced = {} => (up => \A c \in Chunks : Where(c) = applied[c])
    BY DEF NoLostEdit
  <1>2. Spec => [](raced = {})
    BY SequentialNeverRaces
  <1> QED
    BY <1>1, <1>2, StoreLosesNoEdit, PTL

-----------------------------------------------------------------------------
(* The refinement of WorldStore.  Without overlaps the map is the edits     *)
(* that were made; rows only grow from one table state to the next, so that *)
(* a fall back undoes edits and invents none; and a sync finds the world as *)
(* it was when it began.                                                    *)

Alone ==
    /\ raced = {} /\ ~shut_down
    /\ ~up => applied = row
    /\ pc[Tick] \in {"scan", "clean"} => goal[Tick] = applied
    /\ \A s \in recent : \A c \in Chunks : s.row[c] \subseteq row[c]

\* What WorldStore sees of the store.
World == [c \in Chunks |-> Where(c)]

\* The effects of a step on the edits that were made and those that are safe.
Edited ==
    \E c \in Chunks, e \in Edits :
        /\ up /\ e \notin applied[c]
        /\ applied' = [applied EXCEPT ![c] = @ \cup {e}]
        /\ UNCHANGED <<promised, up>>

LEMMA WorldIsApplied ==
  ASSUME Ind, Alone
  PROVE  World = applied
  <1> USE ThreadKinds DEF Ind, Typed, TypeOK, Shape
  <1>1. ASSUME NEW c \in Chunks PROVE Where(c) = applied[c]
    <2>1. CASE up
      BY <2>1 DEF Coherence, Agreement, NextCopy, Alone
    <2>2. CASE ~up
      <3>1. applied[c] = row[c] /\ c \notin cache /\ ~EvictView(Tick, c)
        BY <2>2 DEF Alone, EvictView
      <3> QED
        BY <3>1 DEF Where
    <2> QED
      BY <2>1, <2>2
  <1>2. applied = [c \in Chunks |-> applied[c]]
    OBVIOUS
  <1> QED
    BY <1>1, <1>2 DEF World

LEMMA CommitGrows ==
  ASSUME Alone, NEW t, NEW S, NEW v, NEW d, Commit(t, S, v, d),
         \A c \in S : row[c] \subseteq v[c]
  PROVE  \A s \in recent' : \A c \in Chunks : s.row[c] \subseteq row'[c]
  <1>1. \A c \in Chunks : row[c] \subseteq row'[c]
    BY DEF Commit
  <1>2. \A s \in recent' : s \in recent \/ s.row = row'
    BY DEF Commit
  <1> QED
    BY <1>1, <1>2 DEF Alone

LEMMA UseGuardEdits ==
  ASSUME NEW t, NEW c \in Chunks, UseGuard(t, c), up, UNCHANGED <<promised, up>>
  PROVE  Edited \/ UNCHANGED <<applied, promised, up>>
  BY DEF UseGuard, SetBlock, Edited

LEMMA AloneLoad ==
  ASSUME Ind, Alone, raced' = {}, Load(Tick)
  PROVE  Alone' /\ (Edited \/ UNCHANGED <<applied, promised, up>>)
  <1> USE ThreadKinds DEF Ind, Typed, TypeOK, Goto
  <1>1. up /\ up'
    BY DEF Load, Shape, LoadBegin, ChunkExists, InsertGenerated, LookupHit, LookupMiss, ReadRow,
       LoadFails, CacheInsert, Fetch, FetchPanics, Settle
  <1>2. pc'[Tick] \notin {"scan", "clean"} /\ UNCHANGED shut_down
    BY ThreadsAssumption DEF Load, LoadBegin, ChunkExists, InsertGenerated, LookupHit, LookupMiss,
       ReadRow, LoadFails, CacheInsert, Fetch, FetchPanics, Settle, Finish
  <1>3. CASE InsertGenerated(Tick)
    <2>1. at[Tick] \in Chunks /\ row[at[Tick]] = {}
      BY <1>1, <1>3 DEF InsertGenerated, Shape, Coherence, Agreement, LoaderAgrees, Alone
    <2> DEFINE S == {at[Tick]}
    <2>3. \A c \in S : row[c] \subseteq Blank[c]
      BY <2>1
    <2>4. Commit(Tick, S, Blank, FALSE)
      BY <1>3 DEF InsertGenerated
    <2> HIDE DEF S
    <2>2. \A s \in recent' : \A c \in Chunks : s.row[c] \subseteq row'[c]
      BY <2>3, <2>4, CommitGrows
    <2> QED
      BY <1>1, <1>2, <1>3, <2>2 DEF Alone, InsertGenerated
  <1>4. CASE ~InsertGenerated(Tick)
    <2>1. UNCHANGED disk
      BY <1>4 DEF Load, LoadBegin, ChunkExists, LookupHit, LookupMiss,
         ReadRow, LoadFails, CacheInsert, Fetch, FetchPanics, Settle
    <2>2. Alone'
      BY <1>1, <1>2, <2>1 DEF Alone, disk
    <2>3. CASE LookupHit(Tick) \/ Fetch(Tick) \/ Settle(Tick)
      <3>1. at[Tick] \in Chunks
        BY <2>3 DEF Shape, LookupHit, Fetch, Settle
      <3>2. \/ UseGuard(Tick, at[Tick]) /\ UNCHANGED <<promised, up>>
            \/ UNCHANGED <<applied, promised, up>>
        BY <2>3 DEF LookupHit, Fetch, Settle
      <3> QED
        BY <1>1, <2>2, <3>1, <3>2, UseGuardEdits
    <2>4. CASE ~(LookupHit(Tick) \/ Fetch(Tick) \/ Settle(Tick))
      BY <1>4, <2>2, <2>4 DEF Load, LoadBegin, ChunkExists, LookupMiss, ReadRow, LoadFails,
         CacheInsert, FetchPanics, ghosts
    <2> QED
      BY <2>3, <2>4
  <1> QED
    BY <1>3, <1>4

LEMMA AloneSync ==
  ASSUME Ind, Promises, Alone, raced' = {}, SyncWorld \/ Sync(Tick)
  PROVE  /\ Alone' /\ up /\ up'
         /\ UNCHANGED applied
         /\ promised' = promised \/ promised' = applied
  <1> USE ThreadKinds DEF Ind, Typed, TypeOK, Goto
  <1>1. up /\ up' /\ UNCHANGED <<applied, shut_down>>
    BY DEF Shape, SyncWorld, StartScan, Sync, Serialise, MarkClean, BatchUpsert, Flush, ghosts
  <1>2. CASE SyncWorld
    <2>1. \A c \in Chunks : (IF c \in cache THEN mem[c] ELSE row[c]) = applied[c]
      BY <1>1, <1>2 DEF SyncWorld, Coherence, Agreement, NextCopy, Where, EvictView, Alone
    <2>2. goal'[Tick] = [c \in Chunks |-> applied[c]]
      BY <1>2, <2>1 DEF SyncWorld, StartScan
    <2>3. goal'[Tick] = applied
      BY <2>2
    <2> QED
      BY <1>1, <1>2, <2>3 DEF SyncWorld, StartScan, disk, ghosts, Alone
  <1>3. ASSUME NEW c \in Chunks, Serialise(Tick, c) \/ MarkClean(Tick, c)
        PROVE  Alone' /\ UNCHANGED promised
    BY <1>1, <1>3 DEF Serialise, MarkClean, disk, ghosts, Alone
  <1>4. CASE BatchUpsert(Tick)
    <2>1. \A c \in batch[Tick] : row[c] \subseteq snap[Tick][c]
      BY <1>1 DEF Coherence, Agreement, BatchAgrees, Alone, Promises, Durable, Kept
    <2>2. \A s \in recent' : \A c \in Chunks : s.row[c] \subseteq row'[c]
      BY <1>4, <2>1, CommitGrows DEF BatchUpsert, disk, Alone
    <2> QED
      BY <1>1, <1>4, <2>2 DEF BatchUpsert, Alone
  <1>5. CASE Flush(Tick)
    <2>1. \A c \in Chunks : promised[c] \subseteq applied[c]
      BY DEF Promises, Durable, Kept, Alone
    <2>2. goal[Tick] = applied
      BY <1>5 DEF Flush, Alone
    <2>3. \A c \in Chunks : promised[c] \cup goal[Tick][c] = applied[c]
      BY <2>1, <2>2
    <2>4. promised' = [c \in Chunks |-> applied[c]]
      BY <1>5, <2>3 DEF Flush
    <2>5. promised' = applied
      BY <2>4
    <2>6. \A s \in recent' : s.row = row'
      BY <1>5 DEF Flush, TableNow
    <2>7. Alone'
      BY <1>1, <1>5, <2>6 DEF Alone, Flush
    <2> QED
      BY <1>1, <2>5, <2>7
  <1> QED
    BY <1>1, <1>2, <1>3, <1>4, <1>5 DEF Sync, SyncWorld, StartScan, ghosts, BatchUpsert

LEMMA AloneGc ==
  ASSUME Ind, Promises, Alone, raced' = {}, Gc
  PROVE  Alone' /\ UNCHANGED <<applied, promised, up>>
  <1> USE ThreadKinds DEF Ind, Typed, TypeOK, Goto
  <1>1. up /\ UNCHANGED <<applied, promised, up, shut_down>>
    <2>1. pc[Tick] # "idle" \/ up
      BY DEF Gc, GcBegin, GcRemove, GcAllVisit, GcClear, GcWriteBack, GcEnd, GcAllBegin, GcClearBegin
    <2>2. UNCHANGED <<applied, promised, up, shut_down>>
      BY DEF Gc, GcBegin, GcRemove, GcAllVisit, GcClear, GcWriteBack, GcEnd, GcAllBegin,
         GcClearBegin, ghosts
    <2> QED
      BY <2>1, <2>2 DEF Shape
  <1>2. pc'[Tick] \notin {"scan", "clean"}
    <2>1. CASE GcWriteBack \/ GcEnd \/ GcAllBegin \/ GcClearBegin
      BY <2>1 DEF GcWriteBack, GcEnd, GcAllBegin, GcClearBegin
    <2>2. ASSUME NEW S \in SUBSET Chunks, GcBegin(S)
          PROVE  pc'[Tick] \notin {"scan", "clean"}
      BY <2>2 DEF GcBegin
    <2>3. ASSUME NEW c \in Chunks, GcRemove(c) \/ GcAllVisit(c) \/ GcClear(c)
          PROVE  pc'[Tick] \notin {"scan", "clean"}
      BY <2>3 DEF GcRemove, GcAllVisit, GcClear
    <2> QED
      BY <2>1, <2>2, <2>3 DEF Gc
  <1>a. \A c \in Chunks : Where(c) = applied[c] /\ row[c] \subseteq applied[c]
    BY <1>1 DEF Coherence, Agreement, NextCopy, Alone, Promises, Durable, Kept
  <1>3. \/ UNCHANGED disk
        \/ \A s \in recent' : \A c \in Chunks : s.row[c] \subseteq row'[c]
    <2>1. CASE GcWriteBack
      <3>1. at[Tick] \in Chunks /\ at[Tick] \notin cache
        BY <1>1, <2>1 DEF GcWriteBack, Shape, Coherence, Agreement, NextCopy, EvictView, Alone
      <3> DEFINE copy == [c \in Chunks |-> buf[Tick]]
                 S    == {at[Tick]}
      <3>2. row[at[Tick]] \subseteq buf[Tick] /\ copy[at[Tick]] = buf[Tick]
        BY <1>a, <2>1, <3>1 DEF GcWriteBack, Where, EvictView
      <3>3. Commit(Tick, S, copy, FALSE)
        BY <2>1 DEF GcWriteBack
      <3> HIDE DEF copy
      <3>4. \A c \in S : row[c] \subseteq copy[c]
        BY <3>2
      <3> HIDE DEF S
      <3> QED
        BY <3>3, <3>4, CommitGrows
    <2>2. ASSUME NEW c \in Chunks, GcAllVisit(c)
          PROVE  UNCHANGED disk \/ \A s \in recent' : \A d \in Chunks : s.row[d] \subseteq row'[d]
      <3>1. c \in cache => row[c] \subseteq mem[c]
        BY <1>a DEF Where
      <3> DEFINE S == {c}
      <3>2. (Commit(Tick, S, mem, FALSE) /\ c \in cache) \/ UNCHANGED disk
        BY <2>2 DEF GcAllVisit
      <3>3. c \in cache => \A d \in S : row[d] \subseteq mem[d]
        BY <3>1
      <3> HIDE DEF S
      <3> QED
        BY <3>2, <3>3, CommitGrows
    <2> QED
      BY <2>1, <2>2 DEF Gc, GcBegin, GcRemove, GcClear, GcEnd, GcAllBegin, GcClearBegin
  <1> QED
    BY <1>1, <1>2, <1>3 DEF Alone, disk

LEMMA AloneEnds ==
  ASSUME Ind, Promises, Alone, Crash \/ PowerLoss \/ Exit \/ Start
  PROVE  /\ Alone' /\ UNCHANGED promised
         /\ \/ up /\ ~up' /\ \A c \in Chunks : promised[c] \subseteq applied'[c] /\ applied'[c] \subseteq applied[c]
            \/ ~up /\ up' /\ UNCHANGED applied
  <1> USE ThreadKinds DEF Ind, Typed, TypeOK
  <1>1. ~Exit
    BY DEF Exit, Alone
  <1>2. Recover
    BY <1>1 DEF Crash, PowerLoss, Start
  <1>3. applied' = row' /\ raced' = {}
    BY <1>2 DEF Recover
  <1>4. UNCHANGED promised
    <2>1. promised' = [c \in Chunks |-> promised[c]]
      BY <1>2 DEF Recover, Alone
    <2> QED
      BY <2>1
  <1>5. \A c \in Chunks : /\ row[c] \subseteq applied[c] /\ promised[c] \subseteq row[c]
                          /\ \A s \in recent : promised[c] \subseteq s.row[c] /\ s.row[c] \subseteq row[c]
    BY DEF Promises, Durable, Kept, Alone
  <1>6. CASE Crash
    <2>1. up /\ ~up' /\ ~shut_down' /\ UNCHANGED disk /\ pc'[Tick] = "idle"
      BY <1>6 DEF Crash, LoseMemory
    <2> QED
      BY <1>3, <1>4, <1>5, <2>1 DEF Alone, disk
  <1>7. CASE PowerLoss
    <2>1. up /\ ~up' /\ ~shut_down' /\ pc'[Tick] = "idle"
      BY <1>7 DEF PowerLoss, LoseMemory
    <2>2. PICK s \in recent : row' = s.row /\ recent' = {s}
      BY <1>7 DEF PowerLoss
    <2> QED
      BY <1>3, <1>4, <1>5, <2>1, <2>2 DEF Alone
  <1>8. CASE Start
    <2>1. ~up /\ up' /\ ~shut_down' /\ UNCHANGED <<disk, pc>>
      BY <1>8 DEF Start, threads
    <2>2. applied = row /\ pc[Tick] = "idle"
      BY <2>1 DEF Alone, Shape
    <2> QED
      BY <1>3, <1>4, <2>1, <2>2 DEF Alone, disk
  <1> QED
    BY <1>1, <1>6, <1>7, <1>8

LEMMA AloneStep ==
  ASSUME Workers = {}, Signals = {}, Ind, Promises, Alone, [Next]_vars, raced' = {}
  PROVE  /\ Alone'
         /\ \/ Edited
            \/ up /\ up' /\ UNCHANGED applied /\ promised' \in {promised, applied}
            \/ /\ up /\ ~up' /\ UNCHANGED promised
               /\ \A c \in Chunks : promised[c] \subseteq applied'[c] /\ applied'[c] \subseteq applied[c]
            \/ ~up /\ up' /\ UNCHANGED <<applied, promised>>
            \/ UNCHANGED <<applied, promised, up>>
  <1>1. Loaders = {Tick} /\ Syncers = {Tick}
    BY DEF Loaders, Syncers
  <1>2. ASSUME NEW c \in Chunks, NEW e \in Edits, e \notin applied[c], EditCached(c, e)
        PROVE  Alone' /\ Edited
    BY <1>2, ThreadKinds DEF EditCached, SetBlock, Edited, Alone, disk, threads
  <1>3. CASE UNCHANGED vars
    BY <1>3 DEF vars, disk, threads, ghosts, Alone
  <1>4. CASE Load(Tick)
    BY <1>4, AloneLoad
  <1>5. CASE SyncWorld \/ Sync(Tick)
    BY <1>5, AloneSync
  <1>6. CASE Gc
    BY <1>6, AloneGc
  <1>7. CASE Crash \/ PowerLoss \/ Exit \/ Start
    BY <1>7, AloneEnds
  <1> QED
    BY <1>1, <1>2, <1>3, <1>4, <1>5, <1>6, <1>7 DEF Next

LEMMA StoreStep ==
  ASSUME Workers = {}, Signals = {}, Ind, Promises, Alone, [Next]_vars, raced' = {},
         World = applied, World' = applied', TypeOK'
  PROVE  [Store!Next]_<<World, promised, up>>
  <1> USE DEF World
  <1>t. /\ applied \in [Chunks -> Content] /\ applied' \in [Chunks -> Content]
        /\ promised \in [Chunks -> Content]
    BY DEF Ind, Typed, TypeOK
  <1>1. CASE Edited
    <2>1. PICK c \in Chunks, e \in Edits :
             /\ up /\ e \notin applied[c]
             /\ applied' = [applied EXCEPT ![c] = applied[c] \cup {e}]
             /\ UNCHANGED <<promised, up>>
      BY <1>1 DEF Edited
    <2>2. Store!Edit(c, e)
      BY <2>1 DEF Store!Edit
    <2> QED
      BY <2>2 DEF Store!Next
  <1>2. CASE up /\ up' /\ UNCHANGED applied /\ promised' \in {promised, applied}
    <2>1. CASE promised' = promised
      BY <1>2, <2>1
    <2>2. CASE promised' = applied
      <3>1. Store!Save
        BY <1>2, <2>2 DEF Store!Save, Ind, Typed, TypeOK
      <3> QED
        BY <3>1 DEF Store!Next
    <2> QED
      BY <1>2, <2>1, <2>2
  <1>3. CASE /\ up /\ ~up' /\ UNCHANGED promised
             /\ \A c \in Chunks : promised[c] \subseteq applied'[c] /\ applied'[c] \subseteq applied[c]
    <2>1. Store!Stop
      BY <1>t, <1>3 DEF Store!Stop, Content
    <2> QED
      BY <2>1 DEF Store!Next
  <1>4. CASE ~up /\ up' /\ UNCHANGED <<applied, promised>>
    <2>1. Store!Start
      BY <1>4 DEF Store!Start
    <2> QED
      BY <2>1 DEF Store!Next
  <1>5. CASE UNCHANGED <<applied, promised, up>>
    BY <1>5
  <1> QED
    BY <1>1, <1>2, <1>3, <1>4, <1>5, AloneStep

(* With the tick thread alone at work, the whole of the store implements a  *)
(* map with a save: World::load_chunk and its kin, sync and chunk_unloader  *)
(* are invisible, and what a stop undoes is never what a sync has reported  *)
(* written, whenever the process or the machine dies.                       *)
THEOREM SequentialStoreIsAMap ==
  ASSUME Workers = {}, Signals = {}
  PROVE  Spec => ImplementsWorldStore
  <1>1. Init => Alone
    BY ThreadKinds DEF Init, Alone, TableNow
  <1>2. Ind /\ Promises /\ Alone /\ (raced = {})' /\ [Next]_vars => Alone'
    BY AloneStep
  <1>3. Spec => [](raced = {})
    BY SequentialNeverRaces
  <1>4. Spec => []Promises
    BY IndInvariant, PromisesInit, PromisesStep, PTL DEF Spec
  <1>5. Spec => []Alone
    BY <1>1, <1>2, <1>3, <1>4, IndInvariant, PTL DEF Spec
  <1>6. Ind /\ Alone => World = applied
    BY WorldIsApplied
  <1>7. Spec => [](World = applied)
    BY <1>5, <1>6, IndInvariant, PTL
  <1>8. /\ Ind /\ Promises /\ Alone /\ (raced = {})' /\ World = applied /\ (World = applied)' /\ Ind'
        /\ [Next]_vars
        => [Store!Next]_<<World, promised, up>>
    BY StoreStep DEF Ind, Typed
  <1>9. Init => Store!Init
    BY ThreadKinds DEF Init, Store!Init, Where, EvictView, Blank
  <1> QED
    BY <1>3, <1>4, <1>5, <1>7, <1>8, <1>9, IndInvariant, PTL DEF Spec, ImplementsWorldStore, Store!Spec, World
=============================================================================
