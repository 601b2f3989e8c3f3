------------------------ MODULE ChunkSectionsProofs ------------------------
(***************************************************************************)
(* For sections of any size and any number of block kinds: the palette     *)
(* counts exactly, a client decodes what the server reads, and a write     *)
(* changes one cell, or two when the section becomes uniform.              *)
(*                                                                         *)
(* A write takes the block of one cell out of the palette and puts another *)
(* one in; Exact says that a palette counts the cells of a set D, all      *)
(* cells before and after a write and all but one in between.              *)
(***************************************************************************)
EXTENDS ChunkSections, FiniteSetTheorems, WellFoundedInduction, TLAPS

In(D, g, i) == {d \in D : g[d] = i}

FreeIn(p) == Cardinality({i \in 1..Len(p) : p[i].count = 0})

Exact(p, free, g, D) ==
    /\ p \in Seq(Entry) /\ Len(p) > 0 /\ p[1] = AirEntry
    /\ free = FreeIn(p)
    /\ \A i \in 2..Len(p) : p[i].count = Cardinality(In(D, g, i))
    /\ \A i, j \in 1..Len(p) :
          i # j /\ p[i].count > 0 /\ p[j].count > 0 => p[i].id # p[j].id

(* How many entries are free when entry e replaces entry d.                *)
FreeAfter(free, d, e) == IF d.count = 0 /\ e.count # 0 THEN free - 1
                         ELSE IF d.count # 0 /\ e.count = 0 THEN free + 1
                         ELSE free

(* Entry e counts at place i of p what the cells of E use in h, and the     *)
(* other entries what they counted.                                        *)
Recounted(p, g, D, i, e, h, E) ==
    /\ i \in 2..Len(p) /\ e \in Entry
    /\ e.count = Cardinality(In(E, h, i))
    /\ \A j \in 1..Len(p) : j # i => In(E, h, j) = In(D, g, j)
    /\ e.count > 0 => \A j \in 1..Len(p) : j # i /\ p[j].count > 0 => p[j].id # e.id

Put(p, free, i, e, q, n) == q = [p EXCEPT ![i] = e] /\ n = FreeAfter(free, p[i], e)

(* Entry e is entry i of p with one use more, which is c's.                 *)
OneMore(p, i, e, g, h, R, c) ==
    /\ c \in Cells /\ R = Cells \ {c} /\ i \in 2..Len(p)
    /\ h[c] = i /\ \A d \in R : h[d] = g[d]
    /\ e \in Entry /\ e.count = p[i].count + 1
    /\ \A j \in 1..Len(p) : j # i /\ p[j].count > 0 => p[j].id # e.id

(* r is what remove_block leaves of an exact palette, a what add_block      *)
(* makes of one that counts the cells R, all but c.                        *)
Removed(p, free, g, c, R, r) ==
    /\ g \in [Cells -> Nat] /\ c \in Cells /\ R = Cells \ {c}
    /\ Exact(p, free, g, Cells) /\ \A d \in Cells : g[d] \in 1..Len(p)
    /\ r = remove_block(p, free, g[c])

Inserted(p, free, g, c, R, id, width, a, h) ==
    /\ g \in [Cells -> Nat] /\ c \in Cells /\ R = Cells \ {c}
    /\ Exact(p, free, g, R) /\ \A d \in R : g[d] \in 1..Len(p)
    /\ id \in Ids /\ width = bit_width_for_len(Len(p))
    /\ a = add_block(p, free, id, width) /\ h = [g EXCEPT ![c] = a.at]

Replaced(p, free, g, c, R, id, width, a, h) ==
    /\ g \in [Cells -> Nat] /\ c \in Cells /\ R = Cells \ {c}
    /\ Exact(p, free, g, Cells) /\ \A d \in Cells : g[d] \in 1..Len(p)
    /\ id \in Ids /\ width = bit_width_for_len(Len(p))
    /\ a = replace_block(p, free, g[c], id, width) /\ h = [g EXCEPT ![c] = a.at]

(* What is right about it.                                                 *)
Counted(p, g, R, id, a, h) ==
    /\ Exact(a.palette, a.free, h, Cells)
    /\ a.at \in 1..Len(a.palette) /\ a.palette[a.at].id = id
    /\ Len(a.palette) \in Nat /\ Len(a.palette) \in Len(p)..(Len(p) + 1)
    /\ \A d \in R : a.palette[g[d]].id = p[g[d]].id
    /\ a.width = bit_width_for_len(Len(a.palette))
    /\ a.uniform => Cardinality({d \in R : p[g[d]].id # id}) <= 1

DirectCounts == kind = "direct" => non_air = NonAir(ids)

Ind == TypeOK /\ CountsExact /\ DirectCounts

-----------------------------------------------------------------------------
LEMMA Length == CHUNK_SECTION_LENGTH \in Nat /\ CHUNK_SECTION_LENGTH > 2
  BY SectionAssumption, FS_CardinalityType DEF CHUNK_SECTION_LENGTH

LEMMA SubsetOfCells ==
  ASSUME NEW D \in SUBSET Cells
  PROVE  IsFiniteSet(D) /\ Cardinality(D) \in 0..CHUNK_SECTION_LENGTH
  BY SectionAssumption, FS_Subset, FS_CardinalityType, Length DEF CHUNK_SECTION_LENGTH

LEMMA FewerThanAll ==
  ASSUME NEW c \in Cells, NEW D \in SUBSET (Cells \ {c})
  PROVE  /\ IsFiniteSet(D) /\ Cardinality(D) \in Nat
         /\ Cardinality(D) + 1 \in 1..CHUNK_SECTION_LENGTH
         /\ Cardinality(D \cup {c}) = Cardinality(D) + 1
  <1>1. IsFiniteSet(D) /\ Cardinality(D) \in Nat
    BY SubsetOfCells
  <1>2. Cardinality(D \cup {c}) = Cardinality(D) + 1
    BY <1>1, FS_AddElement
  <1>3. Cardinality(D \cup {c}) \in 0..CHUNK_SECTION_LENGTH
    <2>1. D \cup {c} \in SUBSET Cells
      OBVIOUS
    <2> QED
      BY <2>1, SubsetOfCells
  <1> QED
    BY <1>1, <1>2, <1>3, Length

LEMMA ExceptSeq ==
  ASSUME NEW S, NEW p \in Seq(S), NEW i \in 1..Len(p), NEW e \in S
  PROVE  /\ [p EXCEPT ![i] = e] \in Seq(S) /\ Len([p EXCEPT ![i] = e]) = Len(p)
         /\ [p EXCEPT ![i] = e][i] = e
         /\ \A j \in 1..Len(p) : j # i => [p EXCEPT ![i] = e][j] = p[j]
  OBVIOUS

LEMMA Widths ==
  /\ \A n \in Nat : bit_width_for_len(n) \in {1, 2, 4, 8, 16}
  /\ \A n \in 1..2 : bit_width_for_len(n) = 1
  /\ \A n \in 1..3 : bit_width_for_len(n) \in 1..2
  <1>1. ASSUME NEW n \in Nat PROVE bit_width_for_len(n) \in {1, 2, 4, 8, 16}
    <2>1. CASE n <= 2
      BY <2>1 DEF bit_width_for_len
    <2>2. CASE n \in 3..4 \/ n \in 5..16
      BY <2>2 DEF bit_width_for_len
    <2>3. CASE n \in 17..256
      BY <2>3 DEF bit_width_for_len
    <2>4. CASE n > 256
      BY <2>4 DEF bit_width_for_len
    <2> QED
      BY <2>1, <2>2, <2>3, <2>4
  <1>2. ASSUME NEW n \in 1..2 PROVE bit_width_for_len(n) = 1
    BY DEF bit_width_for_len
  <1>3. bit_width_for_len(3) = 2
    BY DEF bit_width_for_len
  <1> QED
    BY <1>1, <1>2, <1>3

(* The free entries change by one when one entry becomes free or used.     *)
LEMMA FreeEntries ==
  ASSUME NEW p \in Seq(Entry), NEW q \in Seq(Entry), Len(q) = Len(p), NEW i \in 1..Len(p),
         \A j \in 1..Len(p) : j # i => q[j] = p[j]
  PROVE  FreeIn(q) = FreeAfter(FreeIn(p), p[i], q[i])
  <1> DEFINE P == {j \in 1..Len(p) : p[j].count = 0}
             Q == {j \in 1..Len(q) : q[j].count = 0}
  <1>1. IsFiniteSet(P) /\ IsFiniteSet(Q)
    <2>1. IsFiniteSet(1..Len(p))
      BY FS_Interval
    <2> QED
      BY <2>1, FS_Subset
  <1>2. Cardinality(P) \in Nat /\ Cardinality(Q) \in Nat
    BY <1>1, FS_CardinalityType
  <1>f. FreeIn(p) = Cardinality(P) /\ FreeIn(q) = Cardinality(Q)
    BY DEF FreeIn
  <1>3. CASE p[i].count = 0 <=> q[i].count = 0
    <2>1. P = Q
      BY <1>3
    <2> QED
      BY <1>f, <1>3, <2>1 DEF FreeAfter
  <1>4. CASE p[i].count # 0 /\ q[i].count = 0
    <2>1. Q = P \cup {i} /\ i \notin P
      BY <1>4
    <2>2. Cardinality(Q) = Cardinality(P) + 1
      <3> HIDE DEF P, Q
      <3> QED
        BY <1>1, <2>1, FS_AddElement
    <2> QED
      BY <1>f, <1>4, <2>2 DEF FreeAfter
  <1>5. CASE p[i].count = 0 /\ q[i].count # 0
    <2>1. Q = P \ {i} /\ i \in P
      BY <1>5
    <2>2. Cardinality(Q) = Cardinality(P) - 1
      <3> HIDE DEF P, Q
      <3> QED
        BY <1>1, <2>1, FS_RemoveElement
    <2> QED
      BY <1>f, <1>5, <2>2 DEF FreeAfter
  <1> QED
    BY <1>3, <1>4, <1>5

(* A free slot exists if the counter says so.                              *)
LEMMA FreeSlot ==
  ASSUME NEW p \in Seq(Entry), FreeIn(p) # 0
  PROVE  FirstFree(p) \in 1..Len(p) /\ p[FirstFree(p)].count = 0
  <1> DEFINE F == {i \in 1..Len(p) : p[i].count = 0}
  <1>1. F # {}
    BY FS_EmptySet DEF FreeIn
  <1>2. F \subseteq Nat /\ DOMAIN p = 1..Len(p)
    OBVIOUS
  <1> DEFINE upto == {1..i : i \in F}
  <1>3. \A i \in F : 1..i \in FiniteSubsetsOf(Nat)
    BY <1>2, FS_Interval DEF FiniteSubsetsOf
  <1>4. PICK i \in F : \A j \in F : <<1..j, 1..i>> \notin StrictSubsetOrdering(Nat)
    <2>1. upto \subseteq FiniteSubsetsOf(Nat) /\ upto # {}
      BY <1>1, <1>3
    <2>2. \E U \in upto : \A V \in upto : <<V, U>> \notin StrictSubsetOrdering(Nat)
      BY <2>1, FS_StrictSubsetOrderingWellFounded, WFMin
    <2> QED
      BY <2>2
  <1>6. \A j \in F : ~(j < i)
    <2> SUFFICES ASSUME NEW j \in F, j < i PROVE FALSE
      OBVIOUS
    <2>1. 1..j \in SUBSET Nat /\ 1..i \in SUBSET Nat /\ 1..j \subseteq 1..i
      BY <1>2
    <2>2. i \in 1..i /\ i \notin 1..j
      BY <1>2
    <2> QED
      BY <2>1, <2>2, <1>4 DEF StrictSubsetOrdering
  <1>5. i \in DOMAIN p /\ p[i].count = 0 /\ \A j \in DOMAIN p : p[j].count = 0 => i <= j
    BY <1>2, <1>6
  <1> QED
    BY <1>2, <1>5 DEF FirstFree

(* A palette stays exact when the entry that changes counts its cells and  *)
(* its block is nobody else's.                                             *)
LEMMA EntryChanges ==
  ASSUME NEW p, NEW free, NEW g, NEW D, Exact(p, free, g, D),
         NEW h, NEW E, NEW i, NEW e, Recounted(p, g, D, i, e, h, E),
         NEW q, NEW n, Put(p, free, i, e, q, n)
  PROVE  Exact(q, n, h, E)
  <1>q. q = [p EXCEPT ![i] = e] /\ n = FreeAfter(free, p[i], e)
    BY DEF Put
  <1>r. /\ i \in 2..Len(p) /\ e \in Entry
        /\ e.count = Cardinality(In(E, h, i))
        /\ \A j \in 1..Len(p) : j # i => In(E, h, j) = In(D, g, j)
        /\ e.count > 0 => \A j \in 1..Len(p) : j # i /\ p[j].count > 0 => p[j].id # e.id
    BY DEF Recounted
  <1>1. p \in Seq(Entry) /\ Len(p) \in Nat /\ i \in 1..Len(p) /\ i # 1 /\ 1 \in 1..Len(p)
    BY <1>r DEF Exact
  <1>2. /\ q \in Seq(Entry) /\ Len(q) = Len(p) /\ q[i] = e
        /\ \A j \in 1..Len(p) : j # i => q[j] = p[j]
    BY <1>q, <1>1, <1>r, ExceptSeq
  <1>3. Len(q) > 0 /\ q[1] = AirEntry
    BY <1>1, <1>2 DEF Exact
  <1>4. n = FreeIn(q)
    <2>1. free = FreeIn(p)
      BY DEF Exact
    <2> QED
      BY <1>q, <1>1, <1>2, <2>1, FreeEntries
  <1>5. ASSUME NEW j \in 2..Len(q) PROVE q[j].count = Cardinality(In(E, h, j))
    <2>1. CASE j = i
      BY <1>2, <1>r, <2>1
    <2>2. CASE j # i
      <3>1. p[j].count = Cardinality(In(D, g, j))
        BY <1>2 DEF Exact
      <3>2. j \in 1..Len(p)
        BY <1>1, <1>2
      <3>3. q[j] = p[j] /\ In(E, h, j) = In(D, g, j)
        BY <1>2, <1>r, <2>2, <3>2
      <3> QED
        BY <3>1, <3>3
    <2> QED
      BY <2>1, <2>2
  <1>6. ASSUME NEW j \in 1..Len(q), NEW k \in 1..Len(q), j # k, q[j].count > 0, q[k].count > 0
        PROVE  q[j].id # q[k].id
    <2>1. \A l, m \in 1..Len(p) : l # m /\ p[l].count > 0 /\ p[m].count > 0 => p[l].id # p[m].id
      BY DEF Exact
    <2> QED
      BY <1>2, <1>r, <1>6, <2>1
  <1> QED
    BY <1>2, <1>3, <1>4, <1>5, <1>6 DEF Exact

-----------------------------------------------------------------------------
(* A write, in its two halves.                                             *)

(* remove_block: the palette counts the other cells, and these keep their  *)
(* blocks.                                                                 *)
LEMMA RemoveExact ==
  ASSUME NEW p, NEW free, NEW g, NEW c, NEW R, NEW r, Removed(p, free, g, c, R, r)
  PROVE  /\ Exact(r.palette, r.free, g, R)
         /\ Len(r.palette) = Len(p)
         /\ \A d \in R : r.palette[g[d]].id = p[g[d]].id
  <1> /\ g \in [Cells -> Nat] /\ c \in Cells /\ R = Cells \ {c}
      /\ Exact(p, free, g, Cells) /\ \A d \in Cells : g[d] \in 1..Len(p)
      /\ r = remove_block(p, free, g[c])
    BY DEF Removed
  <1>i. PICK i : i = g[c]
    OBVIOUS
  <1>r. r = remove_block(p, free, i)
    BY <1>i
  <1>1. p \in Seq(Entry) /\ Len(p) \in Nat /\ i \in 1..Len(p)
    BY <1>i DEF Exact
  <1>2. \A j \in 1..Len(p) : p[j] \in Entry
    BY <1>1
  <1>3. \A j \in 1..Len(p) : j # i => In(R, g, j) = In(Cells, g, j)
    BY <1>i DEF In
  <1>4. CASE i = 1
    <2>1. r = [palette |-> p, free |-> free]
      BY <1>r, <1>4 DEF remove_block
    <2>2. \A j \in 2..Len(p) : p[j].count = Cardinality(In(R, g, j))
      <3> SUFFICES ASSUME NEW j \in 2..Len(p) PROVE p[j].count = Cardinality(In(R, g, j))
        OBVIOUS
      <3>1. j # i /\ j \in 1..Len(p)
        BY <1>1, <1>4
      <3>2. p[j].count = Cardinality(In(Cells, g, j))
        BY DEF Exact
      <3>3. In(R, g, j) = In(Cells, g, j)
        BY <3>1, <1>3
      <3> QED
        BY <3>2, <3>3
    <2>3. Exact(p, free, g, R)
      BY <2>2 DEF Exact
    <2> QED
      BY <2>1, <2>3
  <1>5. CASE i # 1
    <2>1. i \in 2..Len(p)
      BY <1>1, <1>5
    <2>2. PICK D : D = In(R, g, i)
      OBVIOUS
    <2>3. p[i].count = Cardinality(D) + 1 /\ Cardinality(D) \in Nat /\ IsFiniteSet(D)
      <3>1. D \in SUBSET (Cells \ {c}) /\ In(Cells, g, i) = D \cup {c}
        BY <1>i, <2>2 DEF In
      <3>2. p[i].count = Cardinality(In(Cells, g, i))
        BY <2>1 DEF Exact
      <3> QED
        BY <3>1, <3>2, FewerThanAll
    <2>4. p[i] \in Entry /\ p[i].count \in 0..CHUNK_SECTION_LENGTH /\ p[i].id \in Ids
      BY <1>1, <1>2 DEF Entry
    <2>5. CASE p[i].count = 1
      <3>1. PICK q : q = [p EXCEPT ![i] = Free]
        OBVIOUS
      <3>2. PICK n : n = free + 1
        OBVIOUS
      <3>3. r = [palette |-> q, free |-> n]
        BY <1>r, <1>5, <2>5, <3>1, <3>2 DEF remove_block
      <3>4. Free \in Entry /\ Free.count = 0
        BY Length, SectionAssumption DEF Free, Entry
      <3>5. Cardinality(D) = 0
        BY <2>3, <2>5
      <3>6. D = {}
        BY <2>3, <3>5, FS_EmptySet
      <3>7. Free.count = Cardinality(In(R, g, i)) /\ p[i].count # 0
        BY <2>2, <2>5, <3>4, <3>5
      <3>8. Free.count > 0 => \A j \in 1..Len(p) : j # i /\ p[j].count > 0 => p[j].id # Free.id
        BY <3>4
      <3>9. Recounted(p, g, Cells, i, Free, g, R)
        BY <1>3, <2>1, <3>4, <3>7, <3>8 DEF Recounted
      <3>10. Put(p, free, i, Free, q, n)
        BY <3>1, <3>2, <3>4, <3>7 DEF FreeAfter, Put
      <3>11. Exact(q, n, g, R)
        BY <3>9, <3>10, EntryChanges
      <3>12. /\ Len(q) = Len(p)
             /\ \A j \in 1..Len(p) : j # i => q[j] = p[j]
        BY <1>1, <3>1, <3>4, ExceptSeq
      <3>13. \A d \in R : g[d] # i
        BY <1>i, <2>2, <3>6 DEF In
      <3> QED
        BY <3>3, <3>11, <3>12, <3>13
    <2>6. CASE p[i].count # 1
      <3>1. PICK e : e = [p[i] EXCEPT !.count = p[i].count - 1]
        OBVIOUS
      <3>2. PICK q : q = [p EXCEPT ![i] = e]
        OBVIOUS
      <3>3. r = [palette |-> q, free |-> free]
        BY <1>r, <1>5, <2>6, <3>1, <3>2 DEF remove_block
      <3>4. e \in Entry /\ e.id = p[i].id /\ e.count = Cardinality(D) /\ e.count > 0 /\ p[i].count > 0
        BY <2>3, <2>4, <2>6, <3>1, Length DEF Entry
      <3>5. e.count > 0 => \A j \in 1..Len(p) : j # i /\ p[j].count > 0 => p[j].id # e.id
        BY <1>1, <3>4 DEF Exact
      <3>6. e.count = Cardinality(In(R, g, i)) /\ e.count # 0 /\ p[i].count # 0
        BY <2>2, <2>3, <2>4, <3>4
      <3>7. Recounted(p, g, Cells, i, e, g, R)
        BY <1>3, <2>1, <3>4, <3>5, <3>6 DEF Recounted
      <3>8. Put(p, free, i, e, q, free)
        BY <3>2, <3>6 DEF FreeAfter, Put
      <3>9. Exact(q, free, g, R)
        BY <3>7, <3>8, EntryChanges
      <3>10. /\ Len(q) = Len(p) /\ q[i] = e
             /\ \A j \in 1..Len(p) : j # i => q[j] = p[j]
        BY <1>1, <3>2, <3>4, ExceptSeq
      <3> QED
        BY <3>3, <3>4, <3>9, <3>10
    <2> QED
      BY <2>5, <2>6
  <1> QED
    BY <1>4, <1>5

(* An entry in use is not free, and its block is its own.                  *)
LEMMA InUse ==
  ASSUME NEW p, NEW free, NEW g, NEW R \in SUBSET Cells,
         Exact(p, free, g, R), \A d \in R : g[d] \in 1..Len(p), NEW d \in R
  PROVE  p[g[d]].count > 0
  <1>1. CASE g[d] = 1
    BY <1>1 DEF Exact, AirEntry
  <1>2. CASE g[d] # 1
    <2>1. PICK D : D = In(R, g, g[d])
      OBVIOUS
    <2>2. d \in D /\ D \in SUBSET Cells
      BY <2>1 DEF In
    <2>3. Cardinality(D) \in Nat /\ IsFiniteSet(D)
      BY <2>2, SubsetOfCells
    <2>4. Cardinality(D) # 0
      BY <2>2, <2>3, FS_EmptySet
    <2>5. g[d] \in 2..Len(p)
      BY <1>2 DEF Exact
    <2>6. p[g[d]].count = Cardinality(D)
      BY <2>1, <2>5 DEF Exact
    <2> QED
      BY <2>3, <2>4, <2>6
  <1> QED
    BY <1>1, <1>2

LEMMA AddOne ==
  ASSUME NEW p, NEW free, NEW g, NEW h, NEW c, NEW R, NEW i, NEW e,
         Exact(p, free, g, R), OneMore(p, i, e, g, h, R, c),
         NEW q, NEW n, Put(p, free, i, e, q, n)
  PROVE  Exact(q, n, h, Cells)
  <1>0. /\ c \in Cells /\ R = Cells \ {c} /\ i \in 2..Len(p)
        /\ h[c] = i /\ \A d \in R : h[d] = g[d]
        /\ e \in Entry /\ e.count = p[i].count + 1
        /\ \A j \in 1..Len(p) : j # i /\ p[j].count > 0 => p[j].id # e.id
    BY DEF OneMore
  <1>1. \A j \in 1..Len(p) : j # i => In(Cells, h, j) = In(R, g, j)
    BY <1>0 DEF In
  <1>2. PICK D : D = In(R, g, i)
    OBVIOUS
  <1>3. In(Cells, h, i) = D \cup {c} /\ D \in SUBSET (Cells \ {c})
    BY <1>0, <1>2 DEF In
  <1>4. Cardinality(D) \in Nat /\ Cardinality(D \cup {c}) = Cardinality(D) + 1
    BY <1>0, <1>3, FewerThanAll
  <1>5. p[i].count = Cardinality(D)
    BY <1>0, <1>2 DEF Exact
  <1>6. e.count = Cardinality(In(Cells, h, i))
    BY <1>0, <1>3, <1>4, <1>5
  <1>7. Recounted(p, g, R, i, e, h, Cells)
    BY <1>0, <1>1, <1>6 DEF Recounted
  <1> QED
    BY <1>7, EntryChanges

(* add_block: the palette counts all cells, with the block in the cell.    *)
LEMMA AddExact ==
  ASSUME NEW p, NEW free, NEW g, NEW c, NEW R, NEW id, NEW width, NEW a, NEW h,
         Inserted(p, free, g, c, R, id, width, a, h)
  PROVE  Counted(p, g, R, id, a, h)
  <1> SUFFICES
           /\ Exact(a.palette, a.free, h, Cells)
           /\ a.at \in 1..Len(a.palette) /\ a.palette[a.at].id = id
           /\ Len(a.palette) \in Nat /\ Len(a.palette) \in Len(p)..(Len(p) + 1)
           /\ \A d \in R : a.palette[g[d]].id = p[g[d]].id
           /\ a.width = bit_width_for_len(Len(a.palette))
           /\ a.uniform => Cardinality({d \in R : p[g[d]].id # id}) <= 1
    BY DEF Counted
  <1> /\ g \in [Cells -> Nat] /\ c \in Cells /\ R = Cells \ {c}
      /\ Exact(p, free, g, R) /\ \A d \in R : g[d] \in 1..Len(p)
      /\ id \in Ids /\ width = bit_width_for_len(Len(p))
      /\ a = add_block(p, free, id, width) /\ h = [g EXCEPT ![c] = a.at]
    BY DEF Inserted
  <1>1. p \in Seq(Entry) /\ Len(p) \in Nat /\ 1 \in 1..Len(p) /\ p[1] = AirEntry
    BY DEF Exact
  <1>2. \A j \in 1..Len(p) : p[j] \in Entry /\ p[j].count \in 0..CHUNK_SECTION_LENGTH /\ p[j].id \in Ids
    <2>1. \A j \in 1..Len(p) : p[j] \in Entry
      BY <1>1
    <2> QED
      BY <2>1 DEF Entry
  <1>3. CASE id = AIR
    <2>1. a = [palette |-> p, free |-> free, at |-> 1, width |-> width, uniform |-> FALSE]
      BY <1>3 DEF add_block, Added
    <2>2. \A j \in 2..Len(p) : p[j].count = Cardinality(In(Cells, h, j))
      <3> SUFFICES ASSUME NEW j \in 2..Len(p) PROVE p[j].count = Cardinality(In(Cells, h, j))
        OBVIOUS
      <3>1. p[j].count = Cardinality(In(R, g, j))
        BY DEF Exact
      <3>2. In(Cells, h, j) = In(R, g, j)
        BY <1>1, <2>1 DEF In
      <3> QED
        BY <3>1, <3>2
    <2>3. Exact(p, free, h, Cells)
      BY <2>2 DEF Exact
    <2> QED
      BY <1>1, <1>3, <2>1, <2>3 DEF AirEntry
  <1>4. CASE id # AIR /\ Uses(p, id) # {}
    <2>1. PICK i : i = CHOOSE j \in Uses(p, id) : TRUE
      OBVIOUS
    <2>2. i \in 1..Len(p) /\ p[i].count > 0 /\ p[i].id = id
      BY <1>1, <1>4, <2>1 DEF Uses
    <2>3. i \in 2..Len(p)
      BY <1>1, <1>4, <2>2 DEF AirEntry
    <2>4. PICK e : e = [p[i] EXCEPT !.count = p[i].count + 1]
      OBVIOUS
    <2>5. PICK q : q = [p EXCEPT ![i] = e]
      OBVIOUS
    <2>6. a = [palette |-> q, free |-> free, at |-> i, width |-> width,
               uniform |-> p[i].count + 1 + 1 >= CHUNK_SECTION_LENGTH]
      BY <1>4, <2>1, <2>4, <2>5 DEF add_block, AddUse, Added
    <2>7. PICK D : D = In(R, g, i)
      OBVIOUS
    <2>8. p[i].count = Cardinality(D) /\ D \in SUBSET (Cells \ {c})
      BY <2>3, <2>7 DEF Exact, In
    <2>9. Cardinality(D) \in Nat /\ Cardinality(D) + 1 \in 1..CHUNK_SECTION_LENGTH /\ IsFiniteSet(D)
      BY <2>8, FewerThanAll
    <2>10. e \in Entry /\ e.id = id /\ e.count = p[i].count + 1
      BY <1>1, <1>2, <2>2, <2>4, <2>8, <2>9, Length DEF Entry
    <2>11. Exact(q, free, h, Cells)
      <3>1. Put(p, free, i, e, q, free)
        BY <1>2, <2>2, <2>5, <2>10 DEF FreeAfter, Put
      <3>2. \A j \in 1..Len(p) : j # i /\ p[j].count > 0 => p[j].id # e.id
        BY <2>2, <2>10 DEF Exact
      <3>3. h[c] = i /\ \A d \in R : h[d] = g[d]
        BY <2>6
      <3>4. e \in Entry /\ e.count = p[i].count + 1
        BY <2>10
      <3> QED
        <4>1. OneMore(p, i, e, g, h, R, c)
          BY <2>3, <3>2, <3>3, <3>4 DEF OneMore
        <4> QED
          BY <3>1, <4>1, AddOne
    <2>12. /\ Len(q) = Len(p) /\ q[i] = e
           /\ \A j \in 1..Len(p) : j # i => q[j] = p[j]
      BY <1>1, <2>2, <2>5, <2>10, ExceptSeq
    <2>13. ASSUME p[i].count + 1 + 1 >= CHUNK_SECTION_LENGTH
           PROVE  Cardinality({d \in R : p[g[d]].id # id}) <= 1
      <3>1. PICK O : O = {d \in R : p[g[d]].id # id}
        OBVIOUS
      <3>2. O \in SUBSET (Cells \ {c}) /\ O \cap D = {}
        BY <2>2, <2>7, <3>1 DEF In
      <3>3. IsFiniteSet(O) /\ Cardinality(O) \in Nat
        BY <3>2, FewerThanAll
      <3>4. Cardinality(O \cup D) = Cardinality(O) + Cardinality(D)
        <4>1. Cardinality(O \cup D) = Cardinality(O) + Cardinality(D) - Cardinality(O \cap D)
          BY <2>9, <3>3, FS_Union
        <4>2. Cardinality(O \cap D) = 0
          BY <3>2, FS_EmptySet
        <4> QED
          BY <2>9, <3>3, <4>1, <4>2
      <3>5. Cardinality(O \cup D) + 1 \in 1..CHUNK_SECTION_LENGTH
        <4>1. O \cup D \in SUBSET (Cells \ {c})
          BY <2>8, <3>2
        <4> QED
          BY <4>1, FewerThanAll
      <3>6. Cardinality(O) <= 1
        BY <2>8, <2>9, <2>13, <3>3, <3>4, <3>5, Length
      <3> QED
        BY <3>1, <3>6
    <2>14. /\ a.palette = q /\ a.free = free /\ a.at = i /\ a.width = width
           /\ a.uniform = (p[i].count + 1 + 1 >= CHUNK_SECTION_LENGTH)
      BY <2>6
    <2>15. \A d \in R : a.palette[g[d]].id = p[g[d]].id
      BY <2>2, <2>10, <2>12, <2>14
    <2>16. a.uniform => Cardinality({d \in R : p[g[d]].id # id}) <= 1
      BY <2>13, <2>14
    <2> QED
      BY <1>1, <2>2, <2>10, <2>11, <2>12, <2>14, <2>15, <2>16
  <1>5. ASSUME Uses(p, id) = {}
        PROVE  \A j \in 1..Len(p) : p[j].count > 0 => p[j].id # id
    BY <1>1, <1>5 DEF Uses
  <1>6. CASE id # AIR /\ Uses(p, id) = {} /\ free = 0
    <2>1. PICK e : e = [id |-> id, count |-> 1]
      OBVIOUS
    <2>2. PICK q : q = Append(p, e)
      OBVIOUS
    <2>3. PICK i : i = Len(p) + 1
      OBVIOUS
    <2>4. /\ a.palette = q /\ a.free = 0 /\ a.at = i /\ a.uniform = FALSE
          /\ a.width = IF bit_width_for_len(Len(p)) # bit_width_for_len(Len(p) + 1)
                         THEN bit_width_for_len(Len(p) + 1) ELSE width
      BY <1>6, <2>1, <2>2, <2>3 DEF add_block, Push, Added
    <2>5. e \in Entry /\ e.count = 1 /\ e.id = id
      BY <2>1, Length DEF Entry
    <2>6. /\ q \in Seq(Entry) /\ Len(q) = i /\ q[i] = e /\ i \in Nat /\ i > 1
          /\ \A j \in 1..Len(p) : q[j] = p[j] /\ j # i
          /\ \A j \in 1..Len(q) : j = i \/ j \in 1..Len(p)
      BY <1>1, <2>2, <2>3, <2>5
    <2>7. FreeIn(q) = 0
      <3>1. FreeIn(p) = 0
        BY <1>6 DEF Exact
      <3>2. {j \in 1..Len(q) : q[j].count = 0} = {j \in 1..Len(p) : p[j].count = 0}
        BY <2>3, <2>5, <2>6
      <3> QED
        BY <3>1, <3>2 DEF FreeIn
    <2>8. ASSUME NEW j \in 2..Len(q) PROVE q[j].count = Cardinality(In(Cells, h, j))
      <3>1. CASE j = i
        <4>1. In(Cells, h, i) = {} \cup {c}
          BY <2>3, <2>4, <2>6, <1>1 DEF In
        <4>2. Cardinality({} \cup {c}) = 1
          BY FewerThanAll, FS_EmptySet
        <4> QED
          BY <2>5, <2>6, <3>1, <4>1, <4>2
      <3>2. CASE j # i
        <4>1. j \in 2..Len(p)
          BY <1>1, <2>3, <2>6, <3>2
        <4>2. p[j].count = Cardinality(In(R, g, j))
          BY <4>1 DEF Exact
        <4>3. In(Cells, h, j) = In(R, g, j)
          BY <2>4, <3>2 DEF In
        <4> QED
          BY <1>1, <2>6, <4>1, <4>2, <4>3
      <3> QED
        BY <3>1, <3>2
    <2>9. ASSUME NEW j \in 1..Len(q), NEW k \in 1..Len(q), j # k, q[j].count > 0, q[k].count > 0
          PROVE  q[j].id # q[k].id
      <3>1. \A l, m \in 1..Len(p) : l # m /\ p[l].count > 0 /\ p[m].count > 0 => p[l].id # p[m].id
        BY DEF Exact
      <3>2. CASE j = i
        <4>1. k \in 1..Len(p) /\ q[k] = p[k]
          BY <2>6, <2>9, <3>2
        <4> QED
          BY <1>5, <1>6, <2>5, <2>6, <2>9, <3>2, <4>1
      <3>3. CASE k = i
        <4>1. j \in 1..Len(p) /\ q[j] = p[j]
          BY <2>6, <2>9, <3>3
        <4> QED
          BY <1>5, <1>6, <2>5, <2>6, <2>9, <3>3, <4>1
      <3>4. CASE j # i /\ k # i
        <4>1. j \in 1..Len(p) /\ q[j] = p[j] /\ k \in 1..Len(p) /\ q[k] = p[k]
          BY <2>6, <3>4
        <4> QED
          BY <2>9, <3>1, <4>1
      <3> QED
        BY <3>2, <3>3, <3>4
    <2>10. Exact(q, 0, h, Cells)
      <3>1. Len(q) > 0 /\ q[1] = AirEntry
        BY <1>1, <2>6
      <3> QED
        BY <2>6, <2>7, <2>8, <2>9, <3>1 DEF Exact
    <2>11. \A d \in R : a.palette[g[d]].id = p[g[d]].id
      BY <2>4, <2>6
    <2>12. a.width = bit_width_for_len(Len(a.palette))
      BY <2>3, <2>4, <2>6
    <2>13. a.at \in 1..Len(a.palette) /\ a.palette[a.at].id = id
      BY <2>4, <2>5, <2>6
    <2>14. Len(a.palette) \in Nat /\ Len(a.palette) \in Len(p)..(Len(p) + 1)
      BY <1>1, <2>3, <2>4, <2>6
    <2>15. Exact(a.palette, a.free, h, Cells)
      BY <2>4, <2>10
    <2> QED
      BY <2>4, <2>11, <2>12, <2>13, <2>14, <2>15
  <1>7. CASE id # AIR /\ Uses(p, id) = {} /\ free # 0
    <2>1. PICK e : e = [id |-> id, count |-> 1]
      OBVIOUS
    <2>2. PICK i : i = FirstFree(p)
      OBVIOUS
    <2>3. PICK q : q = [p EXCEPT ![i] = e]
      OBVIOUS
    <2>4. PICK n : n = free - 1
      OBVIOUS
    <2>5. /\ a.palette = q /\ a.free = n /\ a.at = i /\ a.uniform = FALSE /\ a.width = width
      BY <1>7, <2>1, <2>2, <2>3, <2>4 DEF add_block, Reuse, Added
    <2>6. e \in Entry /\ e.count = 1 /\ e.id = id
      BY <2>1, Length DEF Entry
    <2>7. i \in 1..Len(p) /\ p[i].count = 0
      <3>1. FreeIn(p) # 0
        BY <1>7 DEF Exact
      <3> QED
        BY <1>1, <2>2, <3>1, FreeSlot
    <2>8. i \in 2..Len(p)
      BY <1>1, <2>7 DEF AirEntry
    <2>9. /\ Len(q) = Len(p) /\ q[i] = e
          /\ \A j \in 1..Len(p) : j # i => q[j] = p[j]
      BY <1>1, <2>3, <2>6, <2>7, ExceptSeq
    <2>10. OneMore(p, i, e, g, h, R, c)
      <3>1. h[c] = i /\ \A d \in R : h[d] = g[d]
        BY <2>5
      <3>2. \A j \in 1..Len(p) : j # i /\ p[j].count > 0 => p[j].id # e.id
        BY <1>5, <1>7, <2>6
      <3> QED
        BY <2>6, <2>7, <2>8, <3>1, <3>2 DEF OneMore
    <2>11. Put(p, free, i, e, q, n)
      BY <2>3, <2>4, <2>6, <2>7 DEF Put, FreeAfter
    <2>12. Exact(q, n, h, Cells)
      BY <2>10, <2>11, AddOne
    <2>13. \A d \in R : g[d] # i
      <3>1. R \in SUBSET Cells
        OBVIOUS
      <3> QED
        BY <2>7, <3>1, InUse
    <2> QED
      BY <1>1, <2>5, <2>6, <2>7, <2>9, <2>12, <2>13
  <1> QED
    BY <1>3, <1>4, <1>6, <1>7

(* Both halves: what a write makes of the palette.                         *)
LEMMA ReplaceExact ==
  ASSUME NEW p, NEW free, NEW g, NEW c, NEW R, NEW id, NEW width, NEW a, NEW h,
         Replaced(p, free, g, c, R, id, width, a, h)
  PROVE  Counted(p, g, R, id, a, h)
  <1> /\ g \in [Cells -> Nat] /\ c \in Cells /\ R = Cells \ {c}
      /\ Exact(p, free, g, Cells) /\ \A d \in Cells : g[d] \in 1..Len(p)
      /\ id \in Ids /\ width = bit_width_for_len(Len(p))
      /\ a = replace_block(p, free, g[c], id, width) /\ h = [g EXCEPT ![c] = a.at]
    BY DEF Replaced
  <1>1. PICK r : r = remove_block(p, free, g[c])
    OBVIOUS
  <1>2. /\ Exact(r.palette, r.free, g, R)
        /\ Len(r.palette) = Len(p)
        /\ \A d \in R : r.palette[g[d]].id = p[g[d]].id
    <2>1. Removed(p, free, g, c, R, r)
      BY <1>1 DEF Removed
    <2> QED
      BY <2>1, RemoveExact
  <1>3. PICK q, n : q = r.palette /\ n = r.free
    OBVIOUS
  <1>4. a = add_block(q, n, id, width)
    BY <1>1, <1>3 DEF replace_block
  <1>5. Inserted(q, n, g, c, R, id, width, a, h)
    <2>1. Exact(q, n, g, R) /\ (\A d \in R : g[d] \in 1..Len(q)) /\ width = bit_width_for_len(Len(q))
      BY <1>2, <1>3
    <2> QED
      BY <1>4, <2>1 DEF Inserted
  <1>6. Counted(q, g, R, id, a, h)
    BY <1>5, AddExact
  <1>7. Len(q) = Len(p) /\ \A d \in R : q[g[d]].id = p[g[d]].id
    BY <1>2, <1>3
  <1>8. {d \in R : q[g[d]].id # id} = {d \in R : p[g[d]].id # id}
    BY <1>7
  <1> QED
    BY <1>6, <1>7, <1>8 DEF Counted

-----------------------------------------------------------------------------
(* The invariant.                                                          *)

LEMMA PalettesAgree ==
  ASSUME TypeOK, kind = "paletted"
  PROVE  CountsExact <=> /\ Exact(palette, free_count, index, Cells)
                         /\ \A c \in Cells : index[c] \in 1..Len(palette)
                         /\ bit_width = bit_width_for_len(Len(palette))
  <1>1. \A i : Users(i) = In(Cells, index, i)
    BY DEF Users, In
  <1>2. DOMAIN palette = 1..Len(palette) /\ palette \in Seq(Entry)
    BY DEF TypeOK
  <1> QED
    BY <1>1, <1>2 DEF CountsExact, Exact, FreeIn

(* A step to each of the three representations.                            *)
LEMMA ToUniform ==
  ASSUME NEW id \in Ids, SetUniform(id)
  PROVE  Ind' /\ Content' = [c \in Cells |-> id]
  <1>1. TypeOK'
    BY SectionAssumption, Length DEF SetUniform, DropPalette, DropDirect, TypeOK
  <1> QED
    BY <1>1 DEF SetUniform, Ind, CountsExact, DirectCounts, Content

LEMMA ToPaletted ==
  ASSUME NEW a, NEW f \in [Cells -> Nat], SetPaletted(a, f), Exact(a.palette, a.free, f, Cells),
         \A c \in Cells : f[c] \in 1..Len(a.palette), a.width = bit_width_for_len(Len(a.palette)),
         a.width <= MaxWidth
  PROVE  Ind' /\ Content' = [c \in Cells |-> a.palette[f[c]].id]
  <1>1. /\ kind' = "paletted" /\ palette' = a.palette /\ free_count' = a.free
        /\ bit_width' = a.width /\ index' = f /\ block' = AIR
        /\ ids' = [c \in Cells |-> AIR] /\ non_air' = 0
    BY DEF SetPaletted, DropDirect
  <1>2. a.palette \in Seq(Entry) /\ Len(a.palette) \in Nat /\ a.free \in Nat
    <2>1. a.palette \in Seq(Entry) /\ a.free = FreeIn(a.palette)
      BY DEF Exact
    <2>2. Len(a.palette) \in Nat
      BY <2>1
    <2>3. FreeIn(a.palette) \in Nat
      <3>1. IsFiniteSet(1..Len(a.palette))
        BY <2>2, FS_Interval
      <3>2. IsFiniteSet({i \in 1..Len(a.palette) : a.palette[i].count = 0})
        BY <3>1, FS_Subset
      <3> QED
        BY <3>2, FS_CardinalityType DEF FreeIn
    <2> QED
      BY <2>1, <2>2, <2>3
  <1>3. a.width \in 1..MaxWidth
    BY <1>2, Widths, SectionAssumption
  <1>4. TypeOK'
    BY <1>1, <1>2, <1>3, SectionAssumption, Length DEF TypeOK
  <1>5. CountsExact'
    <2>1. \A i : Users(i)' = In(Cells, f, i)
      BY <1>1 DEF Users, In
    <2>2. DOMAIN a.palette = 1..Len(a.palette)
      BY <1>2
    <2> QED
      BY <1>1, <2>1, <2>2 DEF CountsExact, Exact, FreeIn
  <1> QED
    BY <1>1, <1>4, <1>5 DEF Ind, DirectCounts, Content

LEMMA NonAirAfter ==
  ASSUME NEW f \in [Cells -> Ids], NEW c \in Cells, NEW id \in Ids
  PROVE  NonAir([f EXCEPT ![c] = id]) = CASE f[c] = AIR /\ id # AIR -> NonAir(f) + 1
                                          [] f[c] # AIR /\ id = AIR -> NonAir(f) - 1
                                          [] OTHER                  -> NonAir(f)
  <1>1. PICK S : S = {d \in Cells \ {c} : f[d] # AIR}
    OBVIOUS
  <1>2. Cardinality(S) \in Nat /\ Cardinality(S \cup {c}) = Cardinality(S) + 1
    BY <1>1, FewerThanAll
  <1>3. ASSUME NEW g \in [Cells -> Ids], \A d \in Cells \ {c} : g[d] = f[d]
        PROVE  NonAir(g) = IF g[c] = AIR THEN Cardinality(S) ELSE Cardinality(S) + 1
    <2>1. CASE g[c] = AIR
      <3>1. {d \in Cells : g[d] # AIR} = S
        BY <1>1, <1>3, <2>1
      <3> QED
        BY <2>1, <3>1 DEF NonAir
    <2>2. CASE g[c] # AIR
      <3>1. {d \in Cells : g[d] # AIR} = S \cup {c}
        BY <1>1, <1>3, <2>2
      <3> QED
        BY <1>2, <2>2, <3>1 DEF NonAir
    <2> QED
      BY <2>1, <2>2
  <1>4. PICK h : h = [f EXCEPT ![c] = id]
    OBVIOUS
  <1>5. h \in [Cells -> Ids] /\ h[c] = id /\ \A d \in Cells \ {c} : h[d] = f[d]
    BY <1>4
  <1>6. NonAir(f) = IF f[c] = AIR THEN Cardinality(S) ELSE Cardinality(S) + 1
    BY <1>3
  <1>7. NonAir(h) = IF id = AIR THEN Cardinality(S) ELSE Cardinality(S) + 1
    BY <1>3, <1>5
  <1>8. NonAir(h) = CASE f[c] = AIR /\ id # AIR -> NonAir(f) + 1
                      [] f[c] # AIR /\ id = AIR -> NonAir(f) - 1
                      [] OTHER                  -> NonAir(f)
    BY <1>2, <1>6, <1>7
  <1> QED
    BY <1>4, <1>8

LEMMA ToDirect ==
  ASSUME NEW f \in [Cells -> Ids], NEW n, n = NonAir(f), NEW c \in Cells, NEW id \in Ids,
         SetDirect(f, n, c, id)
  PROVE  Ind' /\ Content' = [f EXCEPT ![c] = id]
  <1>1. /\ kind' = "direct" /\ block' = AIR /\ palette' = <<>> /\ free_count' = 0
        /\ bit_width' = 0 /\ index' = [d \in Cells |-> 0] /\ ids' = [f EXCEPT ![c] = id]
    BY DEF SetDirect, DropPalette
  <1>2. ids' \in [Cells -> Ids]
    BY <1>1
  <1>3. non_air' = NonAir(ids')
    <2>1. non_air' = CASE f[c] = AIR /\ id # AIR -> NonAir(f) + 1
                       [] f[c] # AIR /\ id = AIR -> NonAir(f) - 1
                       [] OTHER                  -> NonAir(f)
      BY DEF SetDirect
    <2> QED
      BY <1>1, <2>1, NonAirAfter
  <1>4. non_air' \in 0..CHUNK_SECTION_LENGTH
    <2>1. {d \in Cells : ids'[d] # AIR} \in SUBSET Cells
      OBVIOUS
    <2> QED
      BY <1>3, <2>1, SubsetOfCells DEF NonAir
  <1>5. TypeOK'
    BY <1>1, <1>2, <1>4, SectionAssumption DEF TypeOK
  <1>6. CountsExact' /\ DirectCounts'
    BY <1>1, <1>3 DEF CountsExact, DirectCounts, NonAir
  <1>7. Content' = ids'
    BY <1>1, <1>2 DEF Content
  <1> QED
    BY <1>1, <1>5, <1>6, <1>7 DEF Ind

-----------------------------------------------------------------------------
(* What a write of id to c does to the blocks.                             *)
Written(c, id) ==
    /\ Content'[c] = id
    /\ \/ \A d \in Cells \ {c} : Content'[d] = Content[d]
       \/ kind = "paletted" /\ kind' = "uniform" /\ OneOtherCell(c, id)

LEMMA UniformWritten ==
  ASSUME Ind, NEW c \in Cells, NEW id \in Ids, WriteUniform(c, id)
  PROVE  Ind' /\ Written(c, id)
  <1>1. kind = "uniform" /\ id # block /\ block \in Ids
    BY DEF WriteUniform, Ind, TypeOK
  <1>2. PICK p : p = IF block = AIR THEN <<AirEntry>>
                     ELSE <<AirEntry, [id |-> block, count |-> CHUNK_SECTION_LENGTH]>>
    OBVIOUS
  <1>3. PICK g : g = [d \in Cells |-> Len(p)]
    OBVIOUS
  <1>4. PICK a : a = replace_block(p, 0, Len(p), id, 1)
    OBVIOUS
  <1>5. PICK h : h = [g EXCEPT ![c] = a.at]
    OBVIOUS
  <1>6. SetPaletted(a, h)
    <2>1. h = [d \in Cells |-> IF d = c THEN a.at ELSE Len(p)]
      BY <1>3, <1>5
    <2> QED
      BY <1>2, <1>4, <2>1 DEF WriteUniform
  <1>7. AirEntry \in Entry /\ [id |-> block, count |-> CHUNK_SECTION_LENGTH] \in Entry
    BY <1>1, SectionAssumption, Length DEF AirEntry, Entry
  <1>8. /\ p \in Seq(Entry) /\ Len(p) \in 1..2 /\ p[1] = AirEntry
        /\ Len(p) = 2 => p[2] = [id |-> block, count |-> CHUNK_SECTION_LENGTH] /\ block # AIR
        /\ p[Len(p)].id = block
    BY <1>2, <1>7 DEF AirEntry
  <1>9. g \in [Cells -> Nat] /\ \A d \in Cells : g[d] = Len(p)
    BY <1>3, <1>8
  <1>10. Exact(p, 0, g, Cells)
    <2>1. FreeIn(p) = 0
      <3>1. {i \in 1..Len(p) : p[i].count = 0} = {}
        BY <1>8, Length DEF AirEntry
      <3> QED
        BY <3>1, FS_EmptySet DEF FreeIn
    <2>2. ASSUME NEW i \in 2..Len(p) PROVE p[i].count = Cardinality(In(Cells, g, i))
      <3>1. i = 2 /\ Len(p) = 2
        BY <1>8
      <3>2. In(Cells, g, i) = Cells
        BY <1>9, <3>1 DEF In
      <3> QED
        BY <1>8, <3>1, <3>2 DEF CHUNK_SECTION_LENGTH
    <2>3. ASSUME NEW i \in 1..Len(p), NEW j \in 1..Len(p), i # j PROVE p[i].id # p[j].id
      BY <1>8, <2>3 DEF AirEntry
    <2> QED
      BY <1>8, <2>1, <2>2, <2>3 DEF Exact
  <1>11. PICK R : R = Cells \ {c}
    OBVIOUS
  <1>12. Replaced(p, 0, g, c, R, id, 1, a, h)
    <2>1. 1 = bit_width_for_len(Len(p))
      BY <1>8, Widths
    <2>2. a = replace_block(p, 0, g[c], id, 1)
      BY <1>4, <1>9
    <2>3. \A d \in Cells : g[d] \in 1..Len(p)
      BY <1>8, <1>9
    <2> QED
      BY <1>5, <1>9, <1>10, <1>11, <2>1, <2>2, <2>3 DEF Replaced
  <1>13. Counted(p, g, R, id, a, h)
    BY <1>12, ReplaceExact
  <1>14. /\ Exact(a.palette, a.free, h, Cells)
         /\ a.at \in 1..Len(a.palette) /\ a.palette[a.at].id = id
         /\ Len(a.palette) \in Nat /\ Len(a.palette) \in Len(p)..(Len(p) + 1)
         /\ \A d \in R : a.palette[g[d]].id = p[g[d]].id
         /\ a.width = bit_width_for_len(Len(a.palette))
    BY <1>13 DEF Counted
  <1>15. h \in [Cells -> Nat] /\ \A d \in Cells : h[d] \in 1..Len(a.palette)
    BY <1>5, <1>8, <1>9, <1>14
  <1>16. a.width <= MaxWidth
    <2>1. PICK k, m : k = Len(p) /\ m = Len(a.palette)
      OBVIOUS
    <2>2. bit_width_for_len(m) \in 1..2
      <3>1. k \in 1..2 /\ m \in k..(k + 1)
        BY <1>8, <1>14, <2>1
      <3>2. m \in 1..3
        BY <3>1
      <3> QED
        BY <3>2, Widths
    <2>3. MaxWidth \in Nat /\ MaxWidth >= 2
      BY SectionAssumption
    <2> QED
      BY <1>14, <2>1, <2>2, <2>3
  <1>17. Ind' /\ Content' = [d \in Cells |-> a.palette[h[d]].id]
    BY <1>6, <1>14, <1>15, <1>16, ToPaletted
  <1>18. Content'[c] = id
    BY <1>5, <1>9, <1>14, <1>17
  <1>19. \A d \in Cells \ {c} : Content'[d] = block
    BY <1>5, <1>8, <1>9, <1>11, <1>14, <1>17
  <1>20. \A d \in Cells : Content[d] = block
    BY <1>1 DEF Content
  <1> QED
    BY <1>17, <1>18, <1>19, <1>20 DEF Written

LEMMA PalettedWritten ==
  ASSUME Ind, NEW c \in Cells, NEW id \in Ids, WritePaletted(c, id)
  PROVE  Ind' /\ Written(c, id)
  <1>1. /\ kind = "paletted" /\ index \in [Cells -> Nat] /\ palette \in Seq(Entry)
    BY DEF WritePaletted, Ind, TypeOK
  <1>2. /\ Exact(palette, free_count, index, Cells)
        /\ \A d \in Cells : index[d] \in 1..Len(palette)
        /\ bit_width = bit_width_for_len(Len(palette))
    BY <1>1, PalettesAgree DEF Ind
  <1>3. PICK a : a = replace_block(palette, free_count, index[c], id, bit_width)
    OBVIOUS
  <1>4. PICK R, h : R = Cells \ {c} /\ h = [index EXCEPT ![c] = a.at]
    OBVIOUS
  <1>5. Replaced(palette, free_count, index, c, R, id, bit_width, a, h)
    BY <1>1, <1>2, <1>3, <1>4 DEF Replaced
  <1>6. Counted(palette, index, R, id, a, h)
    BY <1>5, ReplaceExact
  <1>7. /\ Exact(a.palette, a.free, h, Cells)
        /\ a.at \in 1..Len(a.palette) /\ a.palette[a.at].id = id
        /\ Len(a.palette) \in Nat /\ Len(a.palette) \in Len(palette)..(Len(palette) + 1)
        /\ \A d \in R : a.palette[index[d]].id = palette[index[d]].id
        /\ a.width = bit_width_for_len(Len(a.palette))
        /\ a.uniform => Cardinality({d \in R : palette[index[d]].id # id}) <= 1
    BY <1>6 DEF Counted
  <1>8. \A d \in Cells : Content[d] = palette[index[d]].id
    BY <1>1 DEF Content
  <1>9. Keep(c, a) \/ Shrink(id, a) \/ Expand(c, id, a)
    BY <1>3 DEF WritePaletted
  <1>10. CASE Keep(c, a)
    <2>1. SetPaletted(a, h) /\ a.width <= MaxWidth
      BY <1>4, <1>10 DEF Keep
    <2>2. h \in [Cells -> Nat] /\ \A d \in Cells : h[d] \in 1..Len(a.palette)
      BY <1>1, <1>2, <1>4, <1>7
    <2>3. Ind' /\ Content' = [d \in Cells |-> a.palette[h[d]].id]
      BY <1>7, <2>1, <2>2, ToPaletted
    <2>4. Content'[c] = id /\ \A d \in Cells \ {c} : Content'[d] = palette[index[d]].id
      BY <1>1, <1>4, <1>7, <2>3
    <2> QED
      BY <1>8, <2>3, <2>4 DEF Written
  <1>11. CASE Shrink(id, a)
    <2>1. a.uniform /\ SetUniform(id)
      BY <1>11 DEF Shrink
    <2>2. Ind' /\ Content' = [d \in Cells |-> id]
      BY <2>1, ToUniform
    <2>3. {d \in Cells \ {c} : Content[d] # id} = {d \in R : palette[index[d]].id # id}
      BY <1>4, <1>8
    <2>4. OneOtherCell(c, id)
      BY <1>7, <2>1, <2>3 DEF OneOtherCell
    <2> QED
      BY <1>1, <2>1, <2>2, <2>4 DEF Written, SetUniform
  <1>12. CASE Expand(c, id, a)
    <2>1. PICK f : f = [d \in Cells |-> a.palette[index[d]].id]
      OBVIOUS
    <2>2. SetDirect(f, NonAir(f), c, id)
      BY <1>12, <2>1 DEF Expand
    <2>3. f \in [Cells -> Ids]
      <3>1. \A i \in 1..Len(a.palette) : a.palette[i] \in Entry
        BY <1>7 DEF Exact
      <3>2. \A d \in Cells : index[d] \in 1..Len(a.palette)
        BY <1>1, <1>2, <1>7
      <3> QED
        BY <2>1, <3>1, <3>2 DEF Entry
    <2>4. Ind' /\ Content' = [f EXCEPT ![c] = id]
      BY <2>2, <2>3, ToDirect
    <2>5. Content'[c] = id /\ \A d \in Cells \ {c} : Content'[d] = palette[index[d]].id
      BY <1>4, <1>7, <2>1, <2>3, <2>4
    <2> QED
      BY <1>8, <2>4, <2>5 DEF Written
  <1> QED
    BY <1>9, <1>10, <1>11, <1>12

LEMMA SetBlockWritten ==
  ASSUME Ind, NEW c \in Cells, NEW id \in Ids, set_block(c, id)
  PROVE  Ind' /\ Written(c, id)
  <1>1. CASE WriteUniform(c, id)
    BY <1>1, UniformWritten
  <1>2. CASE WritePaletted(c, id)
    BY <1>2, PalettedWritten
  <1>3. CASE Rewrite(c, id)
    <2>1. kind = "uniform" /\ id = block /\ UNCHANGED vars
      BY <1>3 DEF Rewrite
    <2>2. Ind'
      BY <2>1 DEF Ind, TypeOK, CountsExact, DirectCounts, Users, vars, paletted, direct
    <2>3. Content' = [d \in Cells |-> block] /\ Content = [d \in Cells |-> block]
      BY <2>1 DEF Content, vars, paletted, direct
    <2> QED
      BY <2>1, <2>2, <2>3 DEF Written
  <1>4. CASE WriteDirect(c, id)
    <2>1. kind = "direct" /\ ids \in [Cells -> Ids] /\ non_air = NonAir(ids) /\ SetDirect(ids, non_air, c, id)
      BY <1>4 DEF WriteDirect, Ind, TypeOK, DirectCounts
    <2>2. Ind' /\ Content' = [ids EXCEPT ![c] = id]
      BY <2>1, ToDirect
    <2>3. \A d \in Cells : Content[d] = ids[d]
      BY <2>1 DEF Content
    <2>4. Content'[c] = id /\ \A d \in Cells \ {c} : Content'[d] = ids[d]
      BY <2>1, <2>2
    <2> QED
      BY <2>2, <2>3, <2>4 DEF Written
  <1> QED
    BY <1>1, <1>2, <1>3, <1>4 DEF set_block

LEMMA InitInd == Init => Ind
  <1> SUFFICES ASSUME Init PROVE Ind
    OBVIOUS
  <1>1. CASE \E id \in Ids : IsUniform(id)
    BY <1>1, SectionAssumption, Length
      DEF IsUniform, NoPalette, NoDirect, Ind, TypeOK, CountsExact, DirectCounts
  <1>2. CASE \E n \in 2..Cardinality(Ids) : HasSpaceFor(n)
    <2>1. PICK n \in 2..Cardinality(Ids) : HasSpaceFor(n)
      BY <1>2
    <2>2. n \in Nat
      OBVIOUS
    <2>3. block = AIR /\ ids = [c \in Cells |-> AIR] /\ non_air = 0
      BY <2>1 DEF HasSpaceFor, NoDirect
    <2>4. CASE ~(bit_width_for_len(n + 1) <= MaxWidth)
      <3>1. kind = "direct" /\ NoPalette
        BY <2>1, <2>4 DEF HasSpaceFor
      <3>2. {c \in Cells : ids[c] # AIR} = {}
        BY <2>3
      <3>3. NonAir(ids) = 0
        BY <3>2, FS_EmptySet DEF NonAir
      <3> QED
        BY <2>3, <3>1, <3>3, SectionAssumption, Length
          DEF NoPalette, Ind, TypeOK, CountsExact, DirectCounts
    <2>5. CASE bit_width_for_len(n + 1) <= MaxWidth
      <3>1. /\ kind = "paletted" /\ palette = <<AirEntry>> \o [i \in 1..n |-> Free]
            /\ free_count = n /\ bit_width = bit_width_for_len(n + 1)
            /\ index = [c \in Cells |-> 1]
        BY <2>1, <2>5 DEF HasSpaceFor
      <3>2. AirEntry \in Entry /\ Free \in Entry /\ AirEntry.count = 1 /\ Free.count = 0
        BY SectionAssumption, Length DEF AirEntry, Free, Entry
      <3>3. /\ palette \in Seq(Entry) /\ Len(palette) = n + 1 /\ palette[1] = AirEntry
            /\ \A i \in 2..(n + 1) : palette[i] = Free
        <4>1. PICK s : s = [i \in 1..n |-> Free]
          OBVIOUS
        <4>2. s \in Seq(Entry) /\ Len(s) = n /\ \A i \in 1..n : s[i] = Free
          BY <2>2, <3>2, <4>1
        <4> QED
          BY <2>2, <3>1, <3>2, <4>1, <4>2
      <3>4. free_count = Cardinality({i \in DOMAIN palette : palette[i].count = 0})
        <4>1. {i \in DOMAIN palette : palette[i].count = 0} = 2..(n + 1)
          BY <2>2, <3>2, <3>3
        <4>2. Cardinality(2..(n + 1)) = n
          BY <2>2, FS_Interval
        <4> QED
          BY <3>1, <4>1, <4>2
      <3>5. \A i \in 2..(n + 1) : Cardinality(Users(i)) = 0
        <4>1. \A i \in 2..(n + 1) : Users(i) = {}
          BY <2>2, <3>1 DEF Users
        <4> QED
          BY <4>1, FS_EmptySet
      <3>6. CountsExact
        <4>1. DOMAIN palette = 1..(n + 1) /\ 1 \in 1..(n + 1)
          BY <2>2, <3>3
        <4>2. \A i \in 2..Len(palette) : palette[i].count = Cardinality(Users(i))
          BY <3>2, <3>3, <3>5
        <4>3. \A i \in DOMAIN palette : palette[i].count > 0 => i = 1
          BY <2>2, <3>2, <3>3, <4>1
        <4>4. \A c \in Cells : index[c] \in DOMAIN palette
          BY <3>1, <4>1
        <4>5. Len(palette) > 0 /\ palette[1] = AirEntry /\ bit_width = bit_width_for_len(Len(palette))
          BY <2>2, <3>1, <3>3
        <4> QED
          BY <3>4, <4>2, <4>3, <4>4, <4>5 DEF CountsExact
      <3>7. bit_width \in 1..MaxWidth
        BY <2>2, <2>5, <3>1, Widths, SectionAssumption
      <3>8. TypeOK
        BY <2>2, <2>3, <3>1, <3>3, <3>7, SectionAssumption, Length DEF TypeOK
      <3> QED
        BY <3>1, <3>6, <3>8 DEF Ind, DirectCounts
    <2> QED
      BY <2>4, <2>5
  <1> QED
    BY <1>1, <1>2 DEF Init

LEMMA NextInd == Ind /\ [Next]_vars => Ind'
  <1> SUFFICES ASSUME Ind, [Next]_vars PROVE Ind'
    OBVIOUS
  <1>1. CASE \E id \in Ids : fill(id)
    BY <1>1, ToUniform DEF fill
  <1>2. CASE \E id \in Ids, c \in Cells : set_block(c, id)
    BY <1>2, SetBlockWritten
  <1>3. CASE UNCHANGED vars
    BY <1>3 DEF Ind, TypeOK, CountsExact, DirectCounts, NonAir, Users, vars, paletted, direct
  <1> QED
    BY <1>1, <1>2, <1>3 DEF Next

LEMMA Invariant == Spec => []Ind
  BY InitInd, NextInd, PTL DEF Spec

-----------------------------------------------------------------------------
(* Every section has its type: its indices point into its palette, its     *)
(* counts do not exceed its length.                                        *)
THEOREM SectionsTypeCorrect == Spec => []TypeOK
  <1>1. Ind => TypeOK
    BY DEF Ind
  <1> QED
    BY <1>1, Invariant, PTL

(* The palettes count right, whatever writes came before.                  *)
THEOREM PalettesCountRight == Spec => []CountsExact
  <1>1. Ind => CountsExact
    BY DEF Ind
  <1> QED
    BY <1>1, Invariant, PTL

(* A client decodes every section into the blocks the server reads.        *)
THEOREM ClientsDecodeSections == Spec => []ClientDecodes
  <1>1. Ind => ClientDecodes
    <2> SUFFICES ASSUME Ind PROVE ClientDecodes
      OBVIOUS
    <2>1. CASE kind = "uniform"
      BY <2>1 DEF ClientDecodes, Decoded, Content, bits_per_entry
    <2>2. CASE kind = "direct"
      BY <2>2 DEF ClientDecodes, Decoded, Content, bits_per_entry
    <2>3. CASE kind = "paletted"
      <3>1. /\ Exact(palette, free_count, index, Cells)
            /\ \A d \in Cells : index[d] \in 1..Len(palette)
            /\ bit_width = bit_width_for_len(Len(palette))
        BY <2>3, PalettesAgree DEF Ind
      <3>2. bits_per_entry \in 4..8
        <4>1. bit_width \in Nat /\ bit_width <= 8
          BY SectionAssumption DEF Ind, TypeOK
        <4> QED
          BY <2>3, <4>1 DEF bits_per_entry
      <3>3. \A d \in Cells : palette_data[index[d]] = palette[index[d]].id
        <4>1. \A d \in Cells : palette[index[d]].count > 0
          BY <3>1, InUse
        <4>2. palette_data = [i \in 1..Len(palette) |->
                                IF palette[i].count > 0 THEN palette[i].id ELSE AIR]
          BY DEF Ind, TypeOK, palette_data
        <4> QED
          BY <3>1, <4>1, <4>2
      <3> QED
        BY <2>3, <3>2, <3>3 DEF ClientDecodes, Decoded, Content
    <2> QED
      BY <2>1, <2>2, <2>3 DEF Ind, TypeOK
  <1> QED
    BY <1>1, Invariant, PTL

Blocks(p, i) == IF p[i].id = AIR THEN 0 ELSE p[i].count
Total(p, D)  == MapThenSumSet(LAMBDA i : IF p[i].id = AIR THEN 0 ELSE p[i].count, D)

Adds(p, D, g) ==
    /\ g \in [SUBSET D -> Nat] /\ g[{}] = 0
    /\ \A s \in SUBSET D : \A x \in s : g[s] = Blocks(p, x) + g[s \ {x}]

(* A sum over a finite set is any function that grows by each element's    *)
(* share.                                                                  *)
LEMMA SumIs ==
  ASSUME NEW p, NEW D, IsFiniteSet(D), NEW g, Adds(p, D, g)
  PROVE  Total(p, D) = g[D]
  <1> USE DEF Adds
  <1> DEFINE Step(f, s) == IF s = {} THEN 0
                           ELSE LET x == CHOOSE y \in s : TRUE IN Blocks(p, x) + f[s \ {x}]
             iter == CHOOSE f : f = [s \in SUBSET D |-> Step(f, s)]
  <1>1. Total(p, D) = iter[D]
    BY Zenon DEF Total, MapThenSumSet, MapThenFoldSet, Blocks
  <1>2. g = [s \in SUBSET D |-> Step(g, s)]
    <2>1. ASSUME NEW s \in SUBSET D PROVE g[s] = Step(g, s)
      <3>1. CASE s = {}
        BY <3>1
      <3>2. CASE s # {}
        BY <3>2
      <3> QED
        BY <3>1, <3>2
    <2> HIDE DEF Step
    <2> QED
      BY <2>1
  <1>3. iter = [s \in SUBSET D |-> Step(iter, s)]
    <2> HIDE DEF Step
    <2> QED
      BY <1>2, Zenon
  <1> DEFINE Differ == {s \in SUBSET D : iter[s] # g[s]}
  <1>4. Differ = {}
    <2> SUFFICES ASSUME Differ # {} PROVE FALSE
      OBVIOUS
    <2>1. Differ \subseteq FiniteSubsetsOf(D)
      BY FS_Subset DEF FiniteSubsetsOf
    <2>2. PICK s \in Differ : \A t \in Differ : <<t, s>> \notin StrictSubsetOrdering(D)
      <3> HIDE DEF Differ
      <3> QED
        BY <2>1, FS_StrictSubsetOrderingWellFounded, WFMin
    <2>3. s \in SUBSET D /\ iter[s] = Step(iter, s) /\ g[s] = Step(g, s)
      <3> HIDE DEF Step, iter
      <3> QED
        BY <1>2, <1>3
    <2>4. CASE s = {}
      BY <2>2, <2>3, <2>4 DEF Differ
    <2>5. CASE s # {}
      <3> DEFINE x == CHOOSE y \in s : TRUE
      <3>1. x \in s
        BY <2>5
      <3>2. s \ {x} \in SUBSET D /\ <<s \ {x}, s>> \in StrictSubsetOrdering(D)
        <4> HIDE DEF x
        <4> QED
          BY <2>3, <3>1 DEF StrictSubsetOrdering
      <3>3. iter[s \ {x}] = g[s \ {x}]
        BY <2>2, <3>2
      <3>4. iter[s] = Blocks(p, x) + iter[s \ {x}] /\ g[s] = Blocks(p, x) + g[s \ {x}]
        BY <2>3, <2>5, Zenon
      <3> QED
        BY <2>2, <3>3, <3>4
    <2> QED
      BY <2>4, <2>5
  <1> QED
    BY <1>1, <1>4

(* Of the cells whose index is in s, those that hold something.            *)
Held(s) == {c \in Cells : index[c] \in s /\ palette[index[c]].id # AIR}

(* Adding up the uses of the entries counts the cells that hold something. *)
LEMMA UsesAddUp ==
  ASSUME Ind, kind = "paletted"
  PROVE  block_count = NonAir(Content)
  <1> DEFINE D == DOMAIN palette
             g == [s \in SUBSET D |-> Cardinality(Held(s))]
  <1>1. /\ D = 1..Len(palette) /\ IsFiniteSet(D)
        /\ palette[1] = AirEntry /\ palette \in Seq(Entry)
        /\ \A i \in 2..Len(palette) : palette[i].count = Cardinality(Users(i))
        /\ \A c \in Cells : index[c] \in D
    <2>1. D = 1..Len(palette)
      BY DEF Ind, TypeOK
    <2> QED
      BY <2>1, FS_Interval DEF Ind, TypeOK, CountsExact
  <1>2. \A s : IsFiniteSet(Held(s)) /\ Cardinality(Held(s)) \in Nat
    BY SubsetOfCells, Length DEF Held
  <1>3. g \in [SUBSET D -> Nat]
    BY <1>2
  <1>4. g[{}] = 0
    <2>1. Held({}) = {}
      BY DEF Held
    <2> QED
      BY <2>1, FS_EmptySet
  <1>5. ASSUME NEW s \in SUBSET D, NEW x \in s
        PROVE  g[s] = Blocks(palette, x) + g[s \ {x}]
    <2>1. g[s] = Cardinality(Held(s)) /\ g[s \ {x}] = Cardinality(Held(s \ {x}))
      OBVIOUS
    <2>2. CASE palette[x].id = AIR
      <3>1. Held(s) = Held(s \ {x})
        BY <2>2 DEF Held
      <3> QED
        BY <2>1, <2>2, <3>1, <1>2 DEF Blocks
    <2>3. CASE palette[x].id # AIR
      <3>1. Held(s) = Held(s \ {x}) \cup Users(x) /\ Held(s \ {x}) \cap Users(x) = {}
        BY <2>3 DEF Held, Users
      <3>2. IsFiniteSet(Users(x)) /\ Cardinality(Users(x)) \in Nat
        BY SubsetOfCells, Length DEF Users
      <3>3. palette[x].count = Cardinality(Users(x))
        <4>1. x # 1
          BY <1>1, <2>3 DEF AirEntry
        <4> QED
          BY <1>1, <4>1
      <3>4. Cardinality(Held(s)) = Cardinality(Held(s \ {x})) + Cardinality(Users(x))
        <4> DEFINE H == Held(s \ {x})
                   U == Users(x)
        <4>1. IsFiniteSet(H) /\ IsFiniteSet(U) /\ H \cap U = {}
          BY <1>2, <3>1, <3>2
        <4>2. Cardinality(H) \in Nat /\ Cardinality(U) \in Nat /\ Held(s) = H \cup U
          BY <1>2, <3>1, <3>2
        <4> HIDE DEF H, U
        <4>3. Cardinality(H \cup U) = Cardinality(H) + Cardinality(U) - Cardinality(H \cap U)
          BY <4>1, FS_Union
        <4>4. Cardinality(H \cap U) = 0
          BY <4>1, FS_EmptySet
        <4>5. Cardinality(H \cup U) = Cardinality(H) + Cardinality(U)
          BY <4>2, <4>3, <4>4
        <4> QED
          BY <4>2, <4>5 DEF H, U
      <3> QED
        BY <1>2, <2>1, <2>3, <3>2, <3>3, <3>4 DEF Blocks
    <2> QED
      BY <2>2, <2>3
  <1>6. block_count = g[D]
    <2>1. block_count = Total(palette, D)
      BY Zenon DEF block_count, Total
    <2> HIDE DEF g, D
    <2>2. IsFiniteSet(D)
      BY <1>1
    <2>3. Adds(palette, D, g)
      BY <1>3, <1>4, <1>5 DEF Adds
    <2>4. Total(palette, D) = g[D]
      BY <2>2, <2>3, SumIs
    <2> QED
      BY <2>1, <2>4
  <1>7. {c \in Cells : Content[c] # AIR} = Held(D)
    BY <1>1 DEF Content, Held
  <1> QED
    BY <1>6, <1>7 DEF NonAir

(* The readers that take a shortcut agree with those that look at every    *)
(* cell: block_count and contains_any_block_in, in all representations.    *)
THEOREM ShortcutsAgreeAlways == Spec => []ShortcutsAgree
  <1>1. Ind => ShortcutsAgree
    <2> SUFFICES ASSUME Ind PROVE ShortcutsAgree
      OBVIOUS
    <2>1. CASE kind = "uniform"
      <3>1. block_count = NonAir(Content)
        <4>1. CASE block = AIR
          <5>1. {c \in Cells : Content[c] # AIR} = {}
            BY <2>1, <4>1 DEF Content
          <5> QED
            BY <2>1, <4>1, <5>1, FS_EmptySet DEF block_count, NonAir
        <4>2. CASE block # AIR
          <5>1. {c \in Cells : Content[c] # AIR} = Cells
            BY <2>1, <4>2 DEF Content
          <5> QED
            BY <2>1, <4>2, <5>1 DEF block_count, NonAir, CHUNK_SECTION_LENGTH
        <4> QED
          BY <4>1, <4>2
      <3>2. \A c \in Cells : any_block(Content[c])
        BY <2>1 DEF Content, any_block
      <3> QED
        BY <3>1, <3>2 DEF ShortcutsAgree
    <2>2. CASE kind = "direct"
      <3>1. Content = ids
        BY <2>2 DEF Content, Ind, TypeOK
      <3> QED
        BY <2>2, <3>1 DEF ShortcutsAgree, block_count, any_block, Ind, DirectCounts
    <2>3. CASE kind = "paletted"
      <3>1. /\ Exact(palette, free_count, index, Cells)
            /\ \A d \in Cells : index[d] \in 1..Len(palette)
        BY <2>3, PalettesAgree DEF Ind
      <3>2. \A d \in Cells : palette[index[d]].count > 0
        BY <3>1, InUse
      <3>3. \A c \in Cells : any_block(Content[c])
        BY <2>3, <3>1, <3>2 DEF Content, any_block, Ind, TypeOK
      <3> QED
        BY <2>3, <3>3, UsesAddUp DEF ShortcutsAgree
    <2> QED
      BY <2>1, <2>2, <2>3 DEF Ind, TypeOK
  <1> QED
    BY <1>1, Invariant, PTL

(* No write changes a cell it does not name, except the last of the others *)
(* when the section becomes uniform.                                       *)
THEOREM WritesAreLocal == Spec => WritesOneCell
  <1>1. Ind /\ [Next]_vars =>
          [\A c \in Cells, id \in Ids :
             set_block(c, id) =>
               /\ Content'[c] = id
               /\ \/ \A d \in Cells \ {c} : Content'[d] = Content[d]
                  \/ kind = "paletted" /\ kind' = "uniform" /\ OneOtherCell(c, id)]_vars
    BY SetBlockWritten DEF Written
  <1> QED
    BY <1>1, Invariant, PTL DEF Spec, WritesOneCell
=============================================================================
