------------------------ MODULE ChunkStreamingProofs ------------------------
(***************************************************************************)
(* For any view, any budget and any number of failing jobs: no chunk is    *)
(* queued twice or worked on twice, and what the server believes the       *)
(* client holds is what it holds.  Where the movement handlers compute the *)
(* same chunk as the calculator, the loaded chunks are those in view and   *)
(* no missing chunk is forgotten.                                          *)
(***************************************************************************)
EXTENDS ChunkStreaming, FiniteSetTheorems, SequenceTheorems, TLAPS

(* A chunk with a job or a result is in flight; one that failed is lost.   *)
JobsArePending ==
    \A c \in AllChunks : /\ running[c] + done[c] + failed[c] > 0 => c \in pending
                         /\ failed[c] > 0 => c \in lost

(* While the connection lasts, a chunk that is to be unloaded is nothing   *)
(* else, and the next drain gets rid of it.                                *)
Unloads ==
    alive => /\ unloading \cap (loaded \cup pending \cup Range(loading)) = {}
             /\ pc = "calc" => unloading = {}

Ind == TypeOK /\ QueuedOnce /\ OneJobPerChunk /\ JobsArePending /\ Unloads /\ ClientHoldsLoaded

(* The cast to an integer rounds down, as it does for positions that are   *)
(* not negative.                                                           *)
CastsRoundDown == \A p \in Positions : CastChunk(p) = FloorChunk(p)

UnloadsFar == alive /\ ~asked => unloading \cap View(pos) = {}

-----------------------------------------------------------------------------
(* Sequences.                                                              *)

LEMMA RangeSeq ==
  ASSUME NEW S, NEW s \in Seq(S)
  PROVE  Range(s) = {s[i] : i \in 1..Len(s)} /\ Range(s) \subseteq S
  BY DEF Range

LEMMA ConcatOnce ==
  ASSUME NEW S, NEW s \in Seq(S), NEW t \in Seq(S), IsInjective(s), IsInjective(t),
         Range(s) \cap Range(t) = {}
  PROVE  /\ s \o t \in Seq(S) /\ IsInjective(s \o t)
         /\ Range(s \o t) = Range(s) \cup Range(t)
  <1>1. PICK u : u = s \o t
    OBVIOUS
  <1>2. /\ u \in Seq(S) /\ Len(u) = Len(s) + Len(t) /\ Len(s) \in Nat /\ Len(t) \in Nat
        /\ \A i \in 1..Len(s) : u[i] = s[i]
        /\ \A i \in 1..Len(t) : u[Len(s) + i] = t[i]
    BY <1>1
  <1>0. /\ Range(s) = {s[i] : i \in 1..Len(s)} /\ Range(t) = {t[i] : i \in 1..Len(t)}
        /\ Range(u) = {u[i] : i \in 1..Len(u)}
    BY <1>2, RangeSeq
  <1>3. \A i \in 1..Len(u) : i \in 1..Len(s) \/ \E j \in 1..Len(t) : i = Len(s) + j
    <2> SUFFICES ASSUME NEW i \in 1..Len(u), i \notin 1..Len(s) PROVE \E j \in 1..Len(t) : i = Len(s) + j
      OBVIOUS
    <2>1. i - Len(s) \in 1..Len(t) /\ i = Len(s) + (i - Len(s))
      BY <1>2
    <2> QED
      BY <2>1
  <1>4. Range(u) = Range(s) \cup Range(t)
    <2>1. \A i \in 1..Len(s) : i \in 1..Len(u)
      BY <1>2
    <2>2. \A i \in 1..Len(t) : Len(s) + i \in 1..Len(u)
      BY <1>2
    <2>3. Range(u) \subseteq Range(s) \cup Range(t)
      <3> SUFFICES ASSUME NEW i \in 1..Len(u) PROVE u[i] \in Range(s) \cup Range(t)
        BY <1>0
      <3>1. CASE i \in 1..Len(s)
        BY <1>0, <1>2, <3>1
      <3>2. CASE i \notin 1..Len(s)
        BY <1>0, <1>2, <1>3, <3>2
      <3> QED
        BY <3>1, <3>2
    <2>4. Range(s) \subseteq Range(u)
      BY <1>0, <1>2, <2>1
    <2>5. Range(t) \subseteq Range(u)
      BY <1>0, <1>2, <2>2
    <2> QED
      BY <2>3, <2>4, <2>5
  <1>5. ASSUME NEW i \in 1..Len(u), NEW j \in 1..Len(u), u[i] = u[j] PROVE i = j
    <2>1. \A k \in 1..Len(s), l \in 1..Len(t) : s[k] # t[l]
      BY <1>0
    <2>2. \A k, l \in 1..Len(s) : s[k] = s[l] => k = l
      BY DEF IsInjective
    <2>3. \A k, l \in 1..Len(t) : t[k] = t[l] => k = l
      BY DEF IsInjective
    <2>4. CASE i \in 1..Len(s) /\ j \in 1..Len(s)
      BY <1>2, <1>5, <2>2, <2>4
    <2>5. CASE i \in 1..Len(s) /\ j \notin 1..Len(s)
      BY <1>2, <1>3, <1>5, <2>1, <2>5
    <2>6. CASE i \notin 1..Len(s) /\ j \in 1..Len(s)
      BY <1>2, <1>3, <1>5, <2>1, <2>6
    <2>7. CASE i \notin 1..Len(s) /\ j \notin 1..Len(s)
      <3>1. PICK k \in 1..Len(t), l \in 1..Len(t) : i = Len(s) + k /\ j = Len(s) + l
        BY <1>3, <2>7
      <3> QED
        BY <1>2, <1>5, <2>3, <3>1
    <2> QED
      BY <2>4, <2>5, <2>6, <2>7
  <1>6. DOMAIN u = 1..Len(u)
    BY <1>2
  <1> QED
    BY <1>1, <1>2, <1>4, <1>5, <1>6 DEF IsInjective

(* What is left when the first n elements are popped.                      *)
LEMMA PopIs ==
  ASSUME NEW S, NEW s \in Seq(S), NEW n \in 0..Len(s)
  PROVE  /\ SubSeq(s, n + 1, Len(s)) \in Seq(S)
         /\ Len(SubSeq(s, n + 1, Len(s))) = Len(s) - n
         /\ \A i \in 1..(Len(s) - n) : SubSeq(s, n + 1, Len(s))[i] = s[n + i]
  <1>1. PICK m, l : m = n + 1 /\ l = Len(s)
    OBVIOUS
  <1>2. l \in Nat /\ n \in Nat /\ n <= l /\ m = n + 1 /\ m \in Nat
    BY <1>1
  <1>3. PICK r : r = SubSeq(s, m, l)
    OBVIOUS
  <1>4. \A i \in m..l : s[i] \in S
    BY <1>1, <1>2
  <1>5. /\ r \in Seq(S)
        /\ Len(r) = IF m <= l THEN l - m + 1 ELSE 0
        /\ \A i \in 1..(l - m + 1) : r[i] = s[m + i - 1]
    BY <1>2, <1>3, <1>4, SubSeqProperties
  <1>6. Len(r) = l - n
    BY <1>2, <1>5
  <1>7. ASSUME NEW i \in 1..(l - n) PROVE r[i] = s[n + i]
    <2>1. i \in 1..(l - m + 1) /\ m + i - 1 = n + i
      BY <1>2
    <2> QED
      BY <1>5, <2>1
  <1> QED
    BY <1>1, <1>3, <1>5, <1>6, <1>7

Popped(S, s, n, r, P) ==
    /\ s \in Seq(S) /\ IsInjective(s) /\ n \in Nat /\ n <= Len(s)
    /\ r \in Seq(S) /\ Len(r) = Len(s) - n /\ \A i \in 1..Len(r) : r[i] = s[n + i]
    /\ P = {s[i] : i \in 1..n}

LEMMA PopOnce ==
  ASSUME NEW S, NEW s, NEW n, NEW r, NEW P, Popped(S, s, n, r, P)
  PROVE  /\ IsInjective(r) /\ Range(r) \cap P = {} /\ Range(s) = Range(r) \cup P
  <1> /\ s \in Seq(S) /\ IsInjective(s) /\ n \in Nat /\ n <= Len(s)
      /\ r \in Seq(S) /\ Len(r) = Len(s) - n /\ \A i \in 1..Len(r) : r[i] = s[n + i]
      /\ P = {s[i] : i \in 1..n}
    BY DEF Popped
  <1>1. Len(s) \in Nat /\ DOMAIN r = 1..Len(r) /\ DOMAIN s = 1..Len(s)
    OBVIOUS
  <1>0. Range(r) = {r[i] : i \in 1..Len(r)} /\ Range(s) = {s[i] : i \in 1..Len(s)}
    BY <1>1 DEF Range
  <1>2. \A k, l \in 1..Len(s) : s[k] = s[l] => k = l
    BY <1>1 DEF IsInjective
  <1>3. \A i \in 1..Len(r) : n + i \in 1..Len(s) /\ n + i > n
    BY <1>1
  <1>4. IsInjective(r)
    <2> SUFFICES ASSUME NEW i \in 1..Len(r), NEW j \in 1..Len(r), r[i] = r[j] PROVE i = j
      BY <1>1 DEF IsInjective
    <2>1. n + i = n + j
      BY <1>1, <1>2, <1>3
    <2> QED
      BY <1>1, <2>1
  <1>5. Range(r) \cap P = {}
    <2> SUFFICES ASSUME NEW i \in 1..Len(r), NEW j \in 1..n PROVE r[i] # s[j]
      BY <1>0
    <2>1. j \in 1..Len(s) /\ j # n + i
      BY <1>1, <1>3
    <2> QED
      BY <1>1, <1>2, <1>3, <2>1
  <1>6. Range(s) \subseteq Range(r) \cup P
    <2> SUFFICES ASSUME NEW i \in 1..Len(s), i \notin 1..n PROVE \E j \in 1..Len(r) : s[i] = r[j]
      BY <1>0
    <2>1. i - n \in 1..Len(r) /\ n + (i - n) = i
      BY <1>1
    <2> QED
      BY <1>1, <2>1
  <1>7. Range(r) \subseteq Range(s) /\ P \subseteq Range(s)
    <2>1. \A j \in 1..n : j \in 1..Len(s)
      BY <1>1
    <2> QED
      BY <1>0, <1>1, <1>3, <2>1
  <1> QED
    BY <1>1, <1>4, <1>5, <1>6, <1>7

-----------------------------------------------------------------------------
(* Distances, and the order of the queue.                                  *)

LEMMA ChunksAreIntegers ==
  /\ Radius \in Nat
  /\ \A p \in Positions : FloorChunk(p) \in Int /\ CastChunk(p) \in Int
  /\ AllChunks \subseteq Int
  /\ \A p \in Positions : /\ View(p) \in SUBSET AllChunks /\ IsFiniteSet(View(p))
                          /\ Around(CastChunk(p)) \in SUBSET AllChunks
  <1>1. Radius \in Nat
    BY PositionsAssumption DEF Radius
  <1>2. ASSUME NEW p \in Positions PROVE FloorChunk(p) \in Int /\ CastChunk(p) \in Int
    BY PositionsAssumption DEF FloorChunk, CastChunk
  <1>3. ASSUME NEW p \in Positions
        PROVE /\ View(p) \in SUBSET AllChunks /\ IsFiniteSet(View(p))
              /\ Around(CastChunk(p)) \in SUBSET AllChunks
              /\ View(p) \subseteq Int /\ Around(CastChunk(p)) \subseteq Int
    <2>1. IsFiniteSet(View(p))
      BY <1>1, <1>2, FS_Interval DEF View, Around
    <2>2. View(p) \subseteq Int /\ Around(CastChunk(p)) \subseteq Int
      BY <1>1, <1>2 DEF View, Around
    <2> QED
      BY <2>1, <2>2 DEF AllChunks
  <1>4. AllChunks \subseteq Int
    BY <1>3 DEF AllChunks
  <1> QED
    BY <1>1, <1>2, <1>3, <1>4

LEMMA NearerOrders ==
  ASSUME pos \in Positions
  PROVE  /\ \A a, b \in Int : a # b => Nearer(a, b) \/ Nearer(b, a)
         /\ \A a \in Int : ~Nearer(a, a)
         /\ \A a, b, c \in Int : Nearer(a, b) /\ Nearer(b, c) => Nearer(a, c)
  <1>1. PICK z \in Int : z = FloorChunk(pos)
    BY ChunksAreIntegers
  <1>2. \A a, b \in Int : Dist(a, b) \in Int
    BY DEF Dist
  <1>3. \A a, b \in Int : Nearer(a, b) <=> \/ Dist(a, z) < Dist(b, z)
                                           \/ Dist(a, z) = Dist(b, z) /\ a < b
    BY <1>1 DEF Nearer
  <1>4. ASSUME NEW a \in Int, NEW b \in Int, a # b PROVE Nearer(a, b) \/ Nearer(b, a)
    <2>1. PICK da \in Int, db \in Int : da = Dist(a, z) /\ db = Dist(b, z)
      BY <1>2
    <2> QED
      BY <1>3, <1>4, <2>1
  <1>5. ASSUME NEW a \in Int PROVE ~Nearer(a, a)
    BY <1>2, <1>3
  <1>6. ASSUME NEW a \in Int, NEW b \in Int, NEW c \in Int, Nearer(a, b), Nearer(b, c)
        PROVE  Nearer(a, c)
    <2>1. PICK da \in Int, db \in Int, dc \in Int : da = Dist(a, z) /\ db = Dist(b, z) /\ dc = Dist(c, z)
      BY <1>2
    <2> QED
      BY <1>3, <1>6, <2>1
  <1> QED
    BY <1>4, <1>5, <1>6

(* Every place in the order is taken, by one chunk.                        *)
LEMMA NearestOrders ==
  ASSUME pos \in Positions, NEW S \in SUBSET Int, IsFiniteSet(S)
  PROVE  Nearest(S) \in Seq(S) /\ IsInjective(Nearest(S)) /\ Range(Nearest(S)) = S
  <1>1. PICK n \in Nat : n = Cardinality(S)
    BY FS_CardinalityType
  <1>2. PICK rank : rank = [c \in S |-> Cardinality({d \in S : Nearer(d, c)})]
    OBVIOUS
  <1>3. \A c \in S : IsFiniteSet({d \in S : Nearer(d, c)}) /\ rank[c] \in 0..(n - 1)
    <2> SUFFICES ASSUME NEW c \in S PROVE IsFiniteSet({d \in S : Nearer(d, c)}) /\ rank[c] \in 0..(n - 1)
      OBVIOUS
    <2>1. PICK B : B = {d \in S : Nearer(d, c)}
      OBVIOUS
    <2>2. B \in SUBSET S /\ c \notin B
      BY <2>1, NearerOrders
    <2>3. IsFiniteSet(B) /\ Cardinality(B) \in Nat /\ Cardinality(B) <= n /\ (Cardinality(B) = n => B = S)
      BY <1>1, <2>2, FS_Subset, FS_CardinalityType
    <2>4. Cardinality(B) < n
      BY <2>2, <2>3
    <2> QED
      BY <1>2, <2>1, <2>3, <2>4
  <1>r. \A c \in S : rank[c] \in 0..(n - 1)
    BY <1>3, Zenon
  <1>4. \A a, b \in S : Nearer(a, b) => rank[a] < rank[b]
    <2> SUFFICES ASSUME NEW a \in S, NEW b \in S, Nearer(a, b) PROVE rank[a] < rank[b]
      OBVIOUS
    <2>1. PICK A, B : A = {d \in S : Nearer(d, a)} /\ B = {d \in S : Nearer(d, b)}
      OBVIOUS
    <2>2. A \in SUBSET B /\ a \in B /\ a \notin A
      BY <2>1, NearerOrders
    <2>3. IsFiniteSet(B) /\ Cardinality(A) \in Nat /\ Cardinality(B) \in Nat
      BY <1>2, <1>3, <2>1
    <2>4. Cardinality(A) <= Cardinality(B) /\ (Cardinality(B) = Cardinality(A) => B = A)
      BY <2>2, <2>3, FS_Subset
    <2> QED
      BY <1>2, <2>1, <2>2, <2>3, <2>4
  <1>5. \A a, b \in S : rank[a] = rank[b] => a = b
    <2> SUFFICES ASSUME NEW a \in S, NEW b \in S, a # b PROVE rank[a] # rank[b]
      OBVIOUS
    <2>1. rank[a] \in Int /\ rank[b] \in Int
      BY <1>r
    <2>2. Nearer(a, b) \/ Nearer(b, a)
      BY NearerOrders
    <2> QED
      BY <1>4, <2>1, <2>2
  <1>6. \A i \in 1..n : \E c \in S : rank[c] = i - 1
    <2>1. PICK T : T = 0..(n - 1)
      OBVIOUS
    <2>2. IsFiniteSet(T) /\ Cardinality(T) = n
      BY <2>1, FS_Interval
    <2>3. rank \in Injection(S, T)
      BY <1>2, <1>3, <1>5, <2>1 DEF Injection, IsInjective
    <2>4. rank \in Surjection(S, T)
      BY <1>1, <2>2, <2>3, FS_Injection
    <2> QED
      BY <2>1, <2>4 DEF Surjection
  <1>7. PICK q : q = Nearest(S)
    OBVIOUS
  <1>8. q = [i \in 1..n |-> CHOOSE c \in S : rank[c] = i - 1]
    <2>1. q = [i \in 1..n |-> CHOOSE c \in S : Cardinality({d \in S : Nearer(d, c)}) = i - 1]
      BY <1>1, <1>7 DEF Nearest
    <2>2. \A i \in 1..n : (CHOOSE c \in S : Cardinality({d \in S : Nearer(d, c)}) = i - 1)
                            = (CHOOSE c \in S : rank[c] = i - 1)
      BY <1>2
    <2> QED
      BY <2>1, <2>2
  <1>9. \A i \in 1..n : q[i] \in S /\ rank[q[i]] = i - 1
    BY <1>6, <1>8
  <1>10. q \in Seq(S) /\ DOMAIN q = 1..n
    BY <1>8, <1>9
  <1>11. IsInjective(q)
    <2> SUFFICES ASSUME NEW i \in 1..n, NEW j \in 1..n, q[i] = q[j] PROVE i = j
      BY <1>10 DEF IsInjective
    <2>1. i - 1 = j - 1
      BY <1>9
    <2> QED
      BY <2>1
  <1>12. Range(q) = S
    <2>1. ASSUME NEW c \in S PROVE \E i \in 1..n : q[i] = c
      <3>1. PICK i : i = rank[c] + 1
        OBVIOUS
      <3>2. i \in 1..n /\ i - 1 = rank[c]
        BY <1>r, <3>1
      <3> QED
        BY <1>5, <1>9, <3>2
    <2> QED
      BY <1>9, <1>10, <2>1 DEF Range
  <1> QED
    BY <1>7, <1>10, <1>11, <1>12

-----------------------------------------------------------------------------
(* The invariant, whatever the player does.                                *)

LEMMA InitInd == Init => Ind
  <1> SUFFICES ASSUME Init PROVE Ind
    OBVIOUS
  <1>1. TypeOK
    <2>1. pos \in Positions /\ login \in SUBSET AllChunks /\ client = login
      BY ChunksAreIntegers DEF Init
    <2>2. loading = <<>> /\ running = NoJobs /\ done = NoJobs /\ failed = NoJobs
      BY DEF Init
    <2>3. NoJobs \in [AllChunks -> Nat]
      BY DEF NoJobs
    <2> QED
      <3>1. loading \in Seq(AllChunks)
        BY <2>2
      <3>2. /\ waiting \in BOOLEAN /\ asked \in BOOLEAN /\ alive \in BOOLEAN /\ pc \in {"calc", "submit", "drain"}
            /\ loaded = {} /\ unloading = {} /\ pending = {} /\ lost = {}
        BY DEF Init
      <3> QED
        BY <2>1, <2>2, <2>3, <3>1, <3>2 DEF TypeOK
  <1>2. Range(loading) = {} /\ IsInjective(loading)
    BY DEF Init, Range, IsInjective
  <1> QED
    BY <1>1, <1>2
      DEF Init, NoJobs, Ind, QueuedOnce, OneJobPerChunk, JobsArePending, Unloads, ClientHoldsLoaded

(* What a tick queues, and what it finds too far.                          *)
LEMMA CalcQueues ==
  ASSUME TypeOK, QueuedOnce, Calc, asked,
         NEW W, W = View(pos) \ (loaded \cup Range(loading) \cup pending),
         NEW far, far = loaded \ View(pos)
  PROVE  /\ loading' \in Seq(AllChunks) /\ IsInjective(loading')
         /\ Range(loading') = Range(loading) \cup W
         /\ loaded' = loaded \ far /\ unloading' = unloading \cup far /\ lost' = lost \ W
         /\ W \subseteq AllChunks
  <1>1. PICK q : q = Nearest(W)
    OBVIOUS
  <1>2. loading' = loading \o q /\ loaded' = loaded \ far /\ unloading' = unloading \cup far /\ lost' = lost \ W
    BY <1>1 DEF Calc
  <1>3. pos \in Positions /\ View(pos) \in SUBSET AllChunks /\ IsFiniteSet(View(pos)) /\ AllChunks \subseteq Int
    BY ChunksAreIntegers DEF TypeOK
  <1>4. W \in SUBSET Int /\ IsFiniteSet(W) /\ W \subseteq AllChunks /\ W \in SUBSET View(pos)
    <2>1. W \in SUBSET View(pos)
      OBVIOUS
    <2> QED
      BY <1>3, <2>1, FS_Subset
  <1>5. q \in Seq(W) /\ IsInjective(q) /\ Range(q) = W
    BY <1>1, <1>3, <1>4, NearestOrders
  <1>6. q \in Seq(AllChunks)
    BY <1>4, <1>5
  <1>7. loading \in Seq(AllChunks) /\ IsInjective(loading) /\ Range(loading) \cap Range(q) = {}
    BY <1>5 DEF TypeOK, QueuedOnce
  <1> QED
    BY <1>2, <1>4, <1>5, <1>6, <1>7, ConcatOnce

LEMMA CalcInd == ASSUME Ind, Calc PROVE Ind'
  <1>1. /\ pc = "calc" /\ pc' = "submit" /\ asked' = FALSE
        /\ UNCHANGED <<pos, waiting, pending, running, done, failed, alive, client, login>>
    BY DEF Calc, pool
  <1>2. CASE ~asked
    <2>1. UNCHANGED <<loading, loaded, unloading, lost>>
      BY <1>2 DEF Calc
    <2> QED
      BY <1>1, <2>1 DEF Ind, TypeOK, QueuedOnce, OneJobPerChunk, JobsArePending, Unloads, ClientHoldsLoaded
  <1>3. CASE asked
    <2>1. PICK W, far : /\ W = View(pos) \ (loaded \cup Range(loading) \cup pending)
                        /\ far = loaded \ View(pos)
      OBVIOUS
    <2>2. /\ loading' \in Seq(AllChunks) /\ IsInjective(loading')
          /\ Range(loading') = Range(loading) \cup W
          /\ loaded' = loaded \ far /\ unloading' = unloading \cup far /\ lost' = lost \ W
          /\ W \subseteq AllChunks
      BY <1>3, <2>1, CalcQueues DEF Ind
    <2>3. TypeOK'
      BY <1>1, <2>1, <2>2 DEF Ind, TypeOK
    <2>4. QueuedOnce'
      BY <1>1, <2>1, <2>2 DEF Ind, QueuedOnce
    <2>5. OneJobPerChunk' /\ JobsArePending'
      <3>1. ASSUME NEW c \in AllChunks, c \in lost, c \in pending PROVE c \in lost'
        BY <2>1, <2>2, <3>1
      <3>2. UNCHANGED <<running, done, failed, pending>>
        BY <1>1
      <3>3. \A c \in AllChunks : running[c] \in Nat /\ done[c] \in Nat /\ failed[c] \in Nat
        BY DEF Ind, TypeOK
      <3> QED
        BY <3>1, <3>2, <3>3 DEF Ind, OneJobPerChunk, JobsArePending
    <2>6. Unloads'
      BY <1>1, <2>1, <2>2 DEF Ind, Unloads, QueuedOnce
    <2>7. ClientHoldsLoaded'
      BY <1>1, <2>1, <2>2 DEF Ind, ClientHoldsLoaded
    <2> QED
      BY <2>3, <2>4, <2>5, <2>6, <2>7 DEF Ind
  <1> QED
    BY <1>2, <1>3

(* What a tick submits: what it pops, all of it.                           *)
LEMMA SubmitPops ==
  ASSUME TypeOK, QueuedOnce, Submit
  PROVE  \E P \in SUBSET AllChunks :
           /\ loading' \in Seq(AllChunks) /\ IsInjective(loading')
           /\ Range(loading) = Range(loading') \cup P /\ Range(loading') \cap P = {}
           /\ pending' = pending \cup P
           /\ running' = [c \in AllChunks |-> IF c \in P THEN running[c] + 1 ELSE running[c]]
  <1>1. PICK n \in 0..Len(loading) :
          /\ loading' = SubSeq(loading, n + 1, Len(loading))
          /\ pending' = pending \cup Submits(n)
          /\ running' = [c \in AllChunks |-> IF c \in Submits(n) THEN running[c] + 1 ELSE running[c]]
    BY DEF Submit
  <1>2. loading \in Seq(AllChunks) /\ IsInjective(loading) /\ Range(loading) \cap (pending \cup loaded) = {}
    BY DEF TypeOK, QueuedOnce
  <1>3. PICK P, r : P = {loading[i] : i \in 1..n} /\ r = loading'
    OBVIOUS
  <1>4. /\ r \in Seq(AllChunks) /\ Len(r) = Len(loading) - n
        /\ \A i \in 1..(Len(loading) - n) : r[i] = loading[n + i]
    BY <1>1, <1>2, <1>3, PopIs
  <1>5. n \in Nat /\ n <= Len(loading)
    BY <1>2
  <1>6. IsInjective(r) /\ Range(r) \cap P = {} /\ Range(loading) = Range(r) \cup P
    <2>1. \A i \in 1..Len(r) : r[i] = loading[n + i]
      BY <1>4
    <2> QED
      <3>1. Popped(AllChunks, loading, n, r, P)
        BY <1>2, <1>3, <1>4, <1>5, <2>1 DEF Popped
      <3> QED
        BY <3>1, PopOnce
  <1>7. Submits(n) = P
    BY <1>2, <1>3, <1>6 DEF Submits
  <1>8. P \in SUBSET AllChunks
    BY <1>2, <1>6, RangeSeq
  <1> QED
    BY <1>1, <1>3, <1>4, <1>6, <1>7, <1>8

LEMMA SubmitInd == ASSUME Ind, Submit PROVE Ind'
  <1>1. /\ pc = "submit" /\ pc' = "drain"
        /\ UNCHANGED <<pos, waiting, asked, loaded, unloading, done, failed, alive, client, login, lost>>
    BY DEF Submit, ghosts
  <1>2. PICK P \in SUBSET AllChunks :
           /\ loading' \in Seq(AllChunks) /\ IsInjective(loading')
           /\ Range(loading) = Range(loading') \cup P /\ Range(loading') \cap P = {}
           /\ pending' = pending \cup P
           /\ running' = [c \in AllChunks |-> IF c \in P THEN running[c] + 1 ELSE running[c]]
    BY SubmitPops DEF Ind
  <1>3. TypeOK'
    BY <1>1, <1>2 DEF Ind, TypeOK
  <1>4. QueuedOnce'
    BY <1>1, <1>2 DEF Ind, QueuedOnce
  <1>5. ASSUME NEW c \in AllChunks
        PROVE  /\ running'[c] + done'[c] + failed'[c] <= 1
               /\ running'[c] + done'[c] + failed'[c] > 0 => c \in pending'
               /\ failed'[c] > 0 => c \in lost'
    <2>1. running[c] \in Nat /\ done[c] \in Nat /\ failed[c] \in Nat
      BY DEF Ind, TypeOK
    <2>2. /\ running[c] + done[c] + failed[c] <= 1
          /\ running[c] + done[c] + failed[c] > 0 => c \in pending
          /\ failed[c] > 0 => c \in lost
      BY DEF Ind, OneJobPerChunk, JobsArePending
    <2>3. CASE c \in P
      <3>1. c \notin pending
        BY <1>2, <2>3 DEF Ind, QueuedOnce
      <3> QED
        BY <1>1, <1>2, <2>1, <2>2, <2>3, <3>1
    <2>4. CASE c \notin P
      BY <1>1, <1>2, <2>1, <2>2, <2>4
    <2> QED
      BY <2>3, <2>4
  <1>6. OneJobPerChunk' /\ JobsArePending'
    BY <1>5 DEF OneJobPerChunk, JobsArePending
  <1>7. Unloads' /\ ClientHoldsLoaded'
    BY <1>1, <1>2 DEF Ind, Unloads, ClientHoldsLoaded
  <1> QED
    BY <1>3, <1>4, <1>6, <1>7 DEF Ind

LEMMA DrainInd == ASSUME Ind, Drain PROVE Ind'
  <1>1. /\ pc = "drain" /\ pc' = "calc"
        /\ done' = NoJobs /\ failed' = NoJobs
        /\ pending' = pending \ Reported
        /\ loaded' = loaded \cup (Arrived \cap View(pos))
        /\ Deliver(Arrived \cap View(pos))
        /\ UNCHANGED <<pos, waiting, asked, loading, running, alive, login, lost>>
    BY DEF Drain
  <1>2. Arrived \subseteq Reported /\ Reported \subseteq pending /\ Reported \subseteq AllChunks
        /\ \A c \in Reported : running[c] = 0
    <2>1. \A c \in AllChunks : running[c] \in Nat /\ done[c] \in Nat /\ failed[c] \in Nat
      BY DEF Ind, TypeOK
    <2> QED
      BY <2>1 DEF Ind, OneJobPerChunk, JobsArePending, Arrived, Reported
  <1>3. TypeOK'
    BY <1>1, <1>2 DEF Ind, TypeOK, Deliver, NoJobs
  <1>4. QueuedOnce'
    BY <1>1, <1>2 DEF Ind, QueuedOnce
  <1>5. OneJobPerChunk' /\ JobsArePending'
    <2> SUFFICES ASSUME NEW c \in AllChunks
                 PROVE  /\ running'[c] + done'[c] + failed'[c] <= 1
                        /\ running'[c] + done'[c] + failed'[c] > 0 => c \in pending'
                        /\ failed'[c] > 0 => c \in lost'
      BY DEF OneJobPerChunk, JobsArePending
    <2>1. running[c] \in Nat /\ done[c] \in Nat /\ failed[c] \in Nat
      BY DEF Ind, TypeOK
    <2>2. /\ running[c] + done[c] + failed[c] <= 1
          /\ running[c] + done[c] + failed[c] > 0 => c \in pending
      BY DEF Ind, OneJobPerChunk, JobsArePending
    <2>3. running'[c] = running[c] /\ done'[c] = 0 /\ failed'[c] = 0
      BY <1>1 DEF NoJobs
    <2> QED
      BY <1>1, <1>2, <2>1, <2>2, <2>3
  <1>6. Unloads' /\ ClientHoldsLoaded'
    BY <1>1, <1>2 DEF Ind, QueuedOnce, Unloads, ClientHoldsLoaded, Deliver
  <1> QED
    BY <1>3, <1>4, <1>5, <1>6 DEF Ind

LEMMA JobInd == ASSUME Ind, NEW c \in AllChunks, Job(c) PROVE Ind'
  <1>1. /\ UNCHANGED <<pos, waiting, asked, pc, loading, loaded, unloading, pending, alive, client, login>>
        /\ running[c] > 0 /\ running' = [running EXCEPT ![c] = running[c] - 1]
        /\ done' \in {done, [done EXCEPT ![c] = done[c] + 1]}
        /\ failed' \in {failed, [failed EXCEPT ![c] = failed[c] + 1]}
        /\ done' = done \/ failed' = failed
        /\ lost' = lost \/ lost' = lost \cup {c}
        /\ failed' # failed => lost' = lost \cup {c}
    BY DEF Job, JobSends, JobFails, JobPanics, receiver, ghosts
  <1>2. \A d \in AllChunks : running[d] \in Nat /\ done[d] \in Nat /\ failed[d] \in Nat
    BY DEF Ind, TypeOK
  <1>3. TypeOK'
    <2>1. running \in [AllChunks -> Nat] /\ done \in [AllChunks -> Nat] /\ failed \in [AllChunks -> Nat]
      BY DEF Ind, TypeOK
    <2>2. running[c] - 1 \in Nat /\ done[c] + 1 \in Nat /\ failed[c] + 1 \in Nat
      BY <1>1, <1>2
    <2>3. running' \in [AllChunks -> Nat] /\ done' \in [AllChunks -> Nat] /\ failed' \in [AllChunks -> Nat]
      BY <1>1, <2>1, <2>2
    <2>4. lost' \subseteq AllChunks
      BY <1>1 DEF Ind, TypeOK
    <2> QED
      BY <1>1, <2>3, <2>4 DEF Ind, TypeOK
  <1>4. ASSUME NEW d \in AllChunks
        PROVE  /\ running'[d] + done'[d] + failed'[d] <= 1
               /\ running'[d] + done'[d] + failed'[d] > 0 => d \in pending'
               /\ failed'[d] > 0 => d \in lost'
    <2>1. running[d] \in Nat /\ done[d] \in Nat /\ failed[d] \in Nat
      BY <1>2
    <2>2. /\ running[d] + done[d] + failed[d] <= 1
          /\ running[d] + done[d] + failed[d] > 0 => d \in pending
          /\ failed[d] > 0 => d \in lost
      BY DEF Ind, OneJobPerChunk, JobsArePending
    <2>3. CASE d # c
      <3>1. running'[d] = running[d] /\ done'[d] = done[d] /\ failed'[d] = failed[d]
        BY <1>1, <2>3 DEF Ind, TypeOK
      <3> QED
        BY <1>1, <2>2, <3>1
    <2>4. CASE d = c
      <3>1. running'[c] = running[c] - 1
        BY <1>1 DEF Ind, TypeOK
      <3>2. done'[c] \in {done[c], done[c] + 1} /\ failed'[c] \in {failed[c], failed[c] + 1}
        BY <1>1 DEF Ind, TypeOK
      <3>3. done'[c] = done[c] \/ failed'[c] = failed[c]
        BY <1>1
      <3>4. failed'[c] # failed[c] => c \in lost'
        BY <1>1
      <3> QED
        BY <1>1, <2>1, <2>2, <2>4, <3>1, <3>2, <3>3, <3>4
    <2> QED
      BY <2>3, <2>4
  <1>5. OneJobPerChunk' /\ JobsArePending'
    BY <1>4 DEF OneJobPerChunk, JobsArePending
  <1>6. QueuedOnce' /\ Unloads' /\ ClientHoldsLoaded'
    BY <1>1 DEF Ind, QueuedOnce, Unloads, ClientHoldsLoaded
  <1> QED
    BY <1>3, <1>5, <1>6 DEF Ind

LEMMA PlayerInd == ASSUME Ind, Player \/ ConnectionLost \/ UNCHANGED vars PROVE Ind'
  <1>1. /\ UNCHANGED <<pc, loading, loaded, unloading, pending, running, done, failed, client, login, lost>>
        /\ pos' \in Positions /\ waiting' \in BOOLEAN /\ asked' \in BOOLEAN
        /\ alive' = alive \/ alive' = FALSE
    BY DEF Ind, TypeOK, Player, Move, Teleport, ConfirmTeleport, ConnectionLost, receiver, pool, ghosts, vars
  <1> QED
    <2>1. TypeOK'
      BY <1>1 DEF Ind, TypeOK
    <2>2. QueuedOnce' /\ Unloads' /\ ClientHoldsLoaded'
      BY <1>1 DEF Ind, QueuedOnce, Unloads, ClientHoldsLoaded
    <2>3. OneJobPerChunk' /\ JobsArePending'
      BY <1>1 DEF Ind, OneJobPerChunk, JobsArePending
    <2> QED
      BY <2>1, <2>2, <2>3 DEF Ind

LEMMA NextInd == Ind /\ [Next]_vars => Ind'
  BY CalcInd, SubmitInd, DrainInd, JobInd, PlayerInd DEF Next

LEMMA Invariant == Spec => []Ind
  BY InitInd, NextInd, PTL DEF Spec

-----------------------------------------------------------------------------
(* What is in view.                                                        *)

ViewInd == LoadedInView /\ UnloadsFar /\ MissingIsQueued

LEMMA InitView == CastsRoundDown /\ Init => ViewInd
  <1> SUFFICES ASSUME CastsRoundDown, Init PROVE ViewInd
    OBVIOUS
  <1>1. View(pos) = client /\ loaded = {} /\ unloading = {}
    BY DEF Init, CastsRoundDown, View
  <1> QED
    BY <1>1 DEF ViewInd, LoadedInView, UnloadsFar, MissingIsQueued

LEMMA CalcView == ASSUME Ind, ViewInd, Calc PROVE ViewInd'
  <1>1. UNCHANGED <<pos, pending, alive, client>> /\ View(pos)' = View(pos)
    BY DEF Calc, View
  <1>2. CASE ~asked
    <2>1. UNCHANGED <<loading, loaded, unloading, lost>> /\ asked' = asked
      BY <1>2 DEF Calc, Ind, TypeOK
    <2> QED
      BY <1>1, <1>2, <2>1 DEF ViewInd, LoadedInView, UnloadsFar, MissingIsQueued
  <1>3. CASE asked
    <2>1. PICK W, far : /\ W = View(pos) \ (loaded \cup Range(loading) \cup pending)
                        /\ far = loaded \ View(pos)
      OBVIOUS
    <2>2. /\ Range(loading') = Range(loading) \cup W
          /\ loaded' = loaded \ far /\ unloading' = unloading \cup far /\ lost' = lost \ W
      BY <1>3, <2>1, CalcQueues DEF Ind
    <2>3. LoadedInView'
      BY <1>1, <2>1, <2>2 DEF LoadedInView
    <2>4. alive => unloading = {} /\ loaded \subseteq client
      BY DEF Calc, Ind, Unloads, ClientHoldsLoaded
    <2>5. UnloadsFar'
      BY <1>1, <2>1, <2>2, <2>4 DEF UnloadsFar
    <2>6. MissingIsQueued'
      BY <1>1, <2>1, <2>2, <2>4 DEF MissingIsQueued
    <2> QED
      BY <2>3, <2>5, <2>6 DEF ViewInd
  <1> QED
    BY <1>2, <1>3

LEMMA SubmitView == ASSUME Ind, ViewInd, Submit PROVE ViewInd'
  <1>1. UNCHANGED <<pos, asked, loaded, unloading, alive, client, lost>> /\ View(pos)' = View(pos)
    BY DEF Submit, View, ghosts
  <1>2. Range(loading) \cup pending \subseteq Range(loading') \cup pending'
    BY SubmitPops DEF Ind
  <1> QED
    BY <1>1, <1>2 DEF ViewInd, LoadedInView, UnloadsFar, MissingIsQueued

LEMMA DrainView == ASSUME Ind, ViewInd, Drain PROVE ViewInd'
  <1>1. /\ pending' = pending \ Reported
        /\ loaded' = loaded \cup (Arrived \cap View(pos))
        /\ Deliver(Arrived \cap View(pos))
        /\ UNCHANGED <<pos, asked, loading, alive, lost>> /\ View(pos)' = View(pos)
    BY DEF Drain, View
  <1>2. Reported \subseteq pending /\ Reported \subseteq Arrived \cup lost
    <2>1. \A c \in AllChunks : running[c] \in Nat /\ done[c] \in Nat /\ failed[c] \in Nat
      BY DEF Ind, TypeOK
    <2> QED
      BY <2>1 DEF Ind, JobsArePending, Arrived, Reported
  <1>3. LoadedInView' /\ UnloadsFar'
    BY <1>1 DEF ViewInd, LoadedInView, UnloadsFar, Deliver
  <1>4. MissingIsQueued'
    <2> SUFFICES ASSUME alive, ~asked, NEW c \in View(pos), c \notin client', c \notin lost
                 PROVE  c \in Range(loading) \/ c \in pending'
      BY <1>1 DEF MissingIsQueued
    <2>1. client' = (client \cup (Arrived \cap View(pos))) \ unloading
      BY <1>1 DEF Deliver
    <2>2. c \notin unloading /\ c \notin client /\ c \notin Arrived
      BY <2>1 DEF ViewInd, UnloadsFar
    <2> QED
      BY <1>1, <1>2, <2>2 DEF ViewInd, MissingIsQueued
  <1> QED
    BY <1>3, <1>4 DEF ViewInd

LEMMA OthersView ==
  ASSUME CastsRoundDown, Ind, ViewInd,
         Player \/ ConnectionLost \/ UNCHANGED vars \/ \E c \in AllChunks : Job(c)
  PROVE  ViewInd'
  <1>1. /\ UNCHANGED <<loading, loaded, unloading, pending, client>>
        /\ alive' => alive
        /\ lost \subseteq lost'
    BY DEF Player, Move, Teleport, ConfirmTeleport, ConnectionLost, Job, JobSends, JobFails, JobPanics,
           receiver, pool, ghosts, vars
  <1>2. pos \in Positions
    BY DEF Ind, TypeOK
  <1>3. ~asked' => ~asked /\ View(pos') = View(pos)
    <2>1. CASE \E p \in Positions : Move(p)
      <3>1. PICK p \in Positions : pos' = p /\ asked' = (asked \/ CastChunk(p) # CastChunk(pos))
        BY <2>1 DEF Move
      <3> QED
        BY <1>2, <3>1 DEF CastsRoundDown, View
    <2>2. CASE \E p \in Positions : Teleport(p)
      BY <2>2 DEF Teleport
    <2>3. CASE ConfirmTeleport \/ ConnectionLost \/ UNCHANGED vars \/ \E c \in AllChunks : Job(c)
      BY <2>3 DEF ConfirmTeleport, ConnectionLost, vars, Job, JobSends, JobFails, JobPanics
    <2> QED
      BY <2>1, <2>2, <2>3 DEF Player
  <1>4. View(pos)' = View(pos')
    BY DEF View
  <1> QED
    BY <1>1, <1>3, <1>4 DEF ViewInd, LoadedInView, UnloadsFar, MissingIsQueued

LEMMA NextView == CastsRoundDown /\ Ind /\ ViewInd /\ [Next]_vars => ViewInd'
  BY CalcView, SubmitView, DrainView, OthersView DEF Next

-----------------------------------------------------------------------------
(* The player's ChunkReceiver and the pool have their types.               *)
THEOREM StreamingTypeCorrect == Spec => []TypeOK
  <1>1. Ind => TypeOK
    BY DEF Ind
  <1> QED
    BY <1>1, Invariant, PTL

(* No chunk is queued twice, or queued while it is in flight or loaded.    *)
THEOREM ChunksAreQueuedOnce == Spec => []QueuedOnce
  <1>1. Ind => QueuedOnce
    BY DEF Ind
  <1> QED
    BY <1>1, Invariant, PTL

(* The pool never works twice at a time on a chunk for a player.           *)
THEOREM ChunksHaveOneJob == Spec => []OneJobPerChunk
  <1>1. Ind => OneJobPerChunk
    BY DEF Ind
  <1> QED
    BY <1>1, Invariant, PTL

(* The client holds what the server believes loaded.                       *)
THEOREM ClientsHoldTheirChunks == Spec => []ClientHoldsLoaded
  <1>1. Ind => ClientHoldsLoaded
    BY DEF Ind
  <1> QED
    BY <1>1, Invariant, PTL

LEMMA ViewInvariant == ASSUME CastsRoundDown PROVE Spec => [](Ind /\ ViewInd)
  <1>1. Init => Ind /\ ViewInd
    BY InitInd, InitView
  <1>2. (Ind /\ ViewInd) /\ [Next]_vars => (Ind /\ ViewInd)'
    BY NextInd, NextView
  <1> QED
    BY <1>1, <1>2, PTL DEF Spec

(* Where casts round down, what is loaded is in view, unless a             *)
(* recalculation is due.                                                   *)
THEOREM LoadedChunksAreInView == ASSUME CastsRoundDown PROVE Spec => []LoadedInView
  <1>1. Ind /\ ViewInd => LoadedInView
    BY DEF ViewInd
  <1> QED
    BY <1>1, ViewInvariant, PTL

(* ... and a chunk in view that the client lacks is queued, in flight or   *)
(* lost.                                                                   *)
THEOREM MissingChunksAreQueued == ASSUME CastsRoundDown PROVE Spec => []MissingIsQueued
  <1>1. Ind /\ ViewInd => MissingIsQueued
    BY DEF ViewInd
  <1> QED
    BY <1>1, ViewInvariant, PTL
=============================================================================
