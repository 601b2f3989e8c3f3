--------------------------- MODULE EncodingProofs --------------------------
(***************************************************************************)
(* What positions, keys and packed indices may be relied on for (Layouts), *)
(* and that what is written to a connection is what is read (Wire).        *)
(***************************************************************************)
EXTENDS Wire, TLAPS

-----------------------------------------------------------------------------
(* Positions and keys.                                                     *)

(* A block is found again from its chunk and its place in it: pos.rs's two *)
(* ways of naming a block agree, west and north of the origin too.         *)
THEOREM BlocksFindTheirPlace ==
  ASSUME NEW b \in BlockPos
  PROVE  /\ chunk(b) \in ChunkPos /\ chunk_block_pos(b) \in ChunkBlockPos
         /\ chunk_block(chunk(b), chunk_block_pos(b)) = b
  BY SMT DEF BlockPos, ChunkPos, ChunkBlockPos, I26, I22, I12, chunk, chunk_block_pos, chunk_block

(* ... and the chunk and the place from the block.                         *)
THEOREM PlacesAreBlocks ==
  ASSUME NEW c \in ChunkPos, NEW p \in ChunkBlockPos
  PROVE  /\ chunk_block(c, p) \in BlockPos
         /\ chunk(chunk_block(c, p)) = c
         /\ chunk_block_pos(chunk_block(c, p)) = p
  <1>1. c.x \in I22 /\ c.z \in I22 /\ p.x \in 0..15 /\ p.z \in 0..15 /\ p.y \in I12
    BY SMT DEF ChunkPos, ChunkBlockPos
  <1>2. 16 * c.x + p.x \in I26 /\ 16 * c.z + p.z \in I26
    BY <1>1, SMT DEF I22, I26
  <1>3. c.x \in Int /\ c.z \in Int
    BY <1>1, SMT DEF I22
  <1>4. (16 * c.x + p.x) \div 16 = c.x /\ (16 * c.z + p.z) \div 16 = c.z
    <2>1. (16 * c.x + p.x) \div 16 = c.x
      BY <1>1, <1>3, SMT
    <2>2. (16 * c.z + p.z) \div 16 = c.z
      BY <1>1, <1>3, SMT
    <2> QED
      BY <2>1, <2>2
  <1>5. (16 * c.x + p.x) % 16 = p.x /\ (16 * c.z + p.z) % 16 = p.z
    BY <1>1, <1>3, SMT
  <1>6. chunk_block(c, p) \in BlockPos
    BY <1>1, <1>2, SMT DEF chunk_block, BlockPos
  <1>7. chunk(chunk_block(c, p)) = c
    BY <1>4, SMT DEF chunk_block, chunk, ChunkPos
  <1>8. chunk_block_pos(chunk_block(c, p)) = p
    BY <1>5, SMT DEF chunk_block, chunk_block_pos, ChunkBlockPos
  <1> QED
    BY <1>6, <1>7, <1>8

LEMMA PackedPosition ==
  ASSUME NEW s \in SectionBlockPos
  PROVE  pack(s) \in Cells /\ unpack(pack(s)) = s
  <1>1. s.x \in 0..15 /\ s.y \in 0..15 /\ s.z \in 0..15
    BY SMT DEF SectionBlockPos
  <1>2. pack(s) = 16 * (16 * s.y + s.z) + s.x
    BY <1>1, SMT DEF pack
  <1>3. pack(s) \div 16 = 16 * s.y + s.z
    BY <1>1, <1>2, SMT
  <1>6. pack(s) % 16 = s.x
    BY <1>1, <1>2, SMT
  <1>4. (pack(s) \div 16) % 16 = s.z
    BY <1>1, <1>3, SMT
  <1>5. pack(s) \div 256 = s.y
    BY <1>1, SMT DEF pack
  <1>7. pack(s) \in Cells
    <2> DEFINE x == s.x
               y == s.y
               z == s.z
    <2>1. /\ x \in Int /\ 0 <= x /\ x <= 15 /\ y \in Int /\ 0 <= y /\ y <= 15
          /\ z \in Int /\ 0 <= z /\ z <= 15
      BY <1>1, SMT
    <2>2. pack(s) = 256 * y + 16 * z + x
      BY DEF pack
    <2> HIDE DEF x, y, z
    <2> QED
      BY <2>1, <2>2, SMT DEF Cells
  <1> QED
    BY <1>4, <1>5, <1>6, <1>7, SMT DEF unpack, SectionBlockPos

LEMMA PackTellsApart ==
  ASSUME NEW c \in ChunkPos, NEW d \in ChunkPos, pack_chunk(c) = pack_chunk(d)
  PROVE  c = d
  <1>1. /\ c.x \in I22 /\ c.z \in I22 /\ c.x \in Int /\ c.z \in Int
        /\ d.x \in I22 /\ d.z \in I22 /\ d.x \in Int /\ d.z \in Int
    BY SMT DEF ChunkPos, I22
  <1>2. c.x % 4194304 = d.x % 4194304 /\ c.z % 4194304 = d.z % 4194304
    <2> DEFINE a == c.x % 4194304
               b == d.x % 4194304
               m == c.z % 4194304
               n == d.z % 4194304
    <2>1. /\ a \in Nat /\ a < 4194304 /\ b \in Nat /\ b < 4194304
          /\ m \in Nat /\ n \in Nat
      BY <1>1, SMT
    <2>2. 4194304 * m + a = 4194304 * n + b
      BY SMT DEF pack_chunk
    <2> HIDE DEF a, b, m, n
    <2>3. a = b /\ m = n
      BY <2>1, <2>2, SMT
    <2> QED
      BY <2>3 DEF a, b, m, n
  <1>3. c.x = d.x /\ c.z = d.z
    BY <1>1, <1>2, SMT DEF I22
  <1> QED
    BY <1>3, SMT DEF ChunkPos

LEMMA ChunkPacks ==
  ASSUME NEW c \in ChunkPos
  PROVE  pack_chunk(c) \in Nat /\ pack_chunk(c) < 17592186044416
  <1>1. c.x \in Int /\ c.z \in Int
    BY SMT DEF ChunkPos, I22
  <1> QED
    BY <1>1, SMT DEF pack_chunk

(* No two chunks share a row, whatever their dimensions, unless the low 32 *)
(* bits of two dimensions' hashes agree.                                   *)
THEOREM KeysAreDistinct ==
  ASSUME NEW g \in Nat, NEW h \in Nat, NEW c \in ChunkPos, NEW d \in ChunkPos,
         create_key(g, c) = create_key(h, d)
  PROVE  c = d /\ g % 4294967296 = h % 4294967296
  <1>1. /\ pack_chunk(c) \in Nat /\ pack_chunk(c) < 17592186044416
        /\ pack_chunk(d) \in Nat /\ pack_chunk(d) < 17592186044416
    BY ChunkPacks, SMT
  <1>2. pack_chunk(c) = pack_chunk(d) /\ g % 4294967296 = h % 4294967296
    BY <1>1, SMT DEF create_key
  <1> QED
    BY <1>2, PackTellsApart

-----------------------------------------------------------------------------
(* The blocks of a chunk.                                                  *)

LEMMA CellsAreDistinct ==
  ASSUME NEW p \in ChunkBlockPos, NEW q \in ChunkBlockPos, Cell(p) = Cell(q)
  PROVE  p.x = q.x /\ p.z = q.z /\ p.y % 16 = q.y % 16
  <1>1. /\ p.x \in 0..15 /\ p.z \in 0..15 /\ p.y \in Int
        /\ q.x \in 0..15 /\ q.z \in 0..15 /\ q.y \in Int
    BY SMT DEF ChunkBlockPos, I12
  <1>2. section_block_pos(p) \in SectionBlockPos /\ section_block_pos(q) \in SectionBlockPos
    BY <1>1, SMT DEF section_block_pos, SectionBlockPos
  <1>3. section_block_pos(p) = section_block_pos(q)
    BY <1>2, PackedPosition DEF Cell
  <1> QED
    BY <1>1, <1>3, SMT DEF section_block_pos

LEMMA CellInSection ==
  ASSUME NEW p \in ChunkBlockPos
  PROVE  Cell(p) \in Cells
  <1>1. p.x \in 0..15 /\ p.z \in 0..15 /\ p.y \in Int
    BY SMT DEF ChunkBlockPos, I12
  <1>2. section_block_pos(p) \in SectionBlockPos
    BY <1>1, SMT DEF section_block_pos, SectionBlockPos
  <1> QED
    BY <1>2, PackedPosition DEF Cell

LEMMA InsideHasSection ==
  ASSUME NEW h \in Heights, NEW p \in ChunkBlockPos, Inside(h, p)
  PROVE  /\ Section(h, p) \in Levels(h)
         /\ Section(h, p) = (p.y - h.min_y) \div 16
  <1>1. /\ p.y \in Int /\ h.min_y \in Int /\ h.height \in Int /\ h.height % 16 = 0
        /\ h.min_y <= p.y /\ p.y < h.min_y + h.height
    BY SMT DEF ChunkBlockPos, I12, Heights, Inside, max_y
  <1>2. Section(h, p) = (p.y - h.min_y) \div 16
    BY <1>1, SMT DEF Section, Sixteenth
  <1> DEFINE n == p.y - h.min_y
  <1>3. n \in Int /\ 0 <= n /\ n < h.height
    BY <1>1, SMT
  <1> HIDE DEF n
  <1>4. n \div 16 \in Int /\ 0 <= n \div 16 /\ n \div 16 < h.height \div 16
    BY <1>1, <1>3, SMT
  <1>5. h.height \div 16 \in Int
    BY <1>1, SMT
  <1>6. n \div 16 \in 0..(h.height \div 16 - 1)
    BY <1>4, <1>5, SMT
  <1> QED
    BY <1>2, <1>6 DEF n, Levels

LEMMA SamePlace ==
  ASSUME NEW h \in Heights, NEW p \in ChunkBlockPos, NEW q \in ChunkBlockPos,
         Inside(h, p), Inside(h, q), Section(h, p) = Section(h, q), Cell(p) = Cell(q)
  PROVE  p = q
  <1>1. p.x = q.x /\ p.z = q.z /\ p.y % 16 = q.y % 16
    BY CellsAreDistinct
  <1>2. (p.y - h.min_y) \div 16 = (q.y - h.min_y) \div 16
    BY InsideHasSection
  <1>3. p.y \in Int /\ q.y \in Int /\ h.min_y \in Int /\ h.min_y % 16 = 0
    BY SMT DEF ChunkBlockPos, I12, Heights
  <1>4. (p.y - h.min_y) % 16 = (q.y - h.min_y) % 16
    BY <1>1, <1>3, SMT
  <1>5. p.y - h.min_y = q.y - h.min_y
    BY <1>2, <1>3, <1>4, SMT
  <1>6. p.y = q.y
    BY <1>3, <1>5, SMT
  <1> QED
    BY <1>1, <1>6, SMT DEF ChunkBlockPos

LEMMA InsideReads ==
  ASSUME NEW h \in Heights, NEW q \in ChunkBlockPos, Inside(h, q), NEW f
  PROVE  get_block(f, h, q) = f[Section(h, q)][Cell(q)]
  <1> DEFINE u == Section(h, q)
             n == h.height \div 16
  <1>1. u \in 0..(n - 1)
    BY InsideHasSection DEF Levels
  <1>2. n \in Int
    BY SMT DEF Heights
  <1> HIDE DEF u, n
  <1>3. ~(u < 0) /\ ~(u >= n)
    BY <1>1, <1>2, SMT
  <1> QED
    BY <1>3 DEF get_block, u, n

(* The cell is written.  If another one changes, then to the same block,   *)
(* which is all the other cells held before and hold afterwards.           *)
WrittenAt(s, c, id, t) ==
    /\ t[c] = id
    /\ \A d \in Cells \ {c} : t[d] # s[d] =>
          /\ t[d] = id /\ id # AIR
          /\ \A a \in Cells \ {c, d} : s[a] = id /\ t[a] = id

LEMMA SectionWrites ==
  ASSUME NEW s, DOMAIN s = Cells, NEW c \in Cells, NEW id, NEW t \in section_set_block(s, c, id)
  PROVE  WrittenAt(s, c, id, t)
  <1>1. CASE t = [s EXCEPT ![c] = id]
    BY <1>1 DEF WrittenAt
  <1>2. ASSUME NEW e \in Cells, id # AIR, \A a \in Cells \ {c, e} : s[a] = id,
               t = [d \in Cells |-> id]
        PROVE  WrittenAt(s, c, id, t)
    <2>1. \A d \in Cells : t[d] = id
      BY <1>2
    <2>2. \A d \in Cells \ {c} : t[d] # s[d] => d = e
      BY <1>2, <2>1
    <2> QED
      BY <1>2, <2>1, <2>2 DEF WrittenAt
  <1> QED
    BY <1>1, <1>2 DEF section_set_block

(* What is written to a position within a chunk's height is read back      *)
(* there, and no other section changes.  In its own section at most one    *)
(* other block changes (palette.rs:83), to the one written, and only when  *)
(* the section becomes uniform: the write is exact in all other cases.     *)
THEOREM ChunksReadBack ==
  ASSUME NEW Blocks, NEW h \in Heights, NEW f \in Sections(h, Blocks), NEW id \in Blocks,
         NEW p \in ChunkBlockPos, Inside(h, p), NEW g \in set_block(f, h, p, id)
  PROVE  /\ get_block(g, h, p) = id
         /\ \A q \in ChunkBlockPos : Inside(h, q) /\ q # p =>
               \/ get_block(g, h, q) = get_block(f, h, q)
               \/ /\ Section(h, q) = Section(h, p) /\ get_block(g, h, q) = id /\ id # AIR
                  /\ \A r \in ChunkBlockPos \ {p, q} :
                        Inside(h, r) /\ Section(h, r) = Section(h, p) =>
                           get_block(f, h, r) = id /\ get_block(g, h, r) = id
  <1> DEFINE u == Section(h, p)
             c == Cell(p)
  <1>1. u \in Levels(h) /\ c \in Cells
    BY InsideHasSection, CellInSection
  <1>2. f \in [Levels(h) -> [Cells -> Blocks]]
    BY DEF Sections
  <1>3. PICK t \in section_set_block(f[u], c, id) : g = [f EXCEPT ![u] = t]
    BY DEF set_block
  <1>4. \A q \in ChunkBlockPos : Inside(h, q) =>
           /\ get_block(g, h, q) = g[Section(h, q)][Cell(q)]
           /\ get_block(f, h, q) = f[Section(h, q)][Cell(q)]
           /\ Section(h, q) \in Levels(h) /\ Cell(q) \in Cells
    BY InsideReads, InsideHasSection, CellInSection
  <1>5. \A q, r \in ChunkBlockPos :
           Inside(h, q) /\ Inside(h, r) /\ Section(h, q) = Section(h, r) /\ Cell(q) = Cell(r) => q = r
    BY SamePlace
  <1>6. DOMAIN f[u] = Cells
    BY <1>1, <1>2
  <1>7. Section(h, p) = u /\ Cell(p) = c
    OBVIOUS
  <1> HIDE DEF u, c
  <1>8. WrittenAt(f[u], c, id, t)
    BY <1>1, <1>3, <1>6, SectionWrites
  <1>9. g[u] = t /\ \A l \in Levels(h) \ {u} : g[l] = f[l]
    BY <1>1, <1>2, <1>3
  <1>10. get_block(g, h, p) = id
    BY <1>4, <1>7, <1>8, <1>9 DEF WrittenAt
  <1>11. ASSUME NEW q \in ChunkBlockPos, Inside(h, q), q # p, get_block(g, h, q) # get_block(f, h, q)
         PROVE  /\ Section(h, q) = u /\ get_block(g, h, q) = id /\ id # AIR
                /\ \A r \in ChunkBlockPos \ {p, q} :
                      Inside(h, r) /\ Section(h, r) = u =>
                         get_block(f, h, r) = id /\ get_block(g, h, r) = id
    <2>1. Section(h, q) = u
      BY <1>4, <1>9, <1>11
    <2>2. Cell(q) \in Cells \ {c} /\ t[Cell(q)] # f[u][Cell(q)]
      BY <1>4, <1>5, <1>7, <1>9, <1>11, <2>1
    <2>3. /\ t[Cell(q)] = id /\ id # AIR
          /\ \A a \in Cells \ {c, Cell(q)} : f[u][a] = id /\ t[a] = id
      BY <1>8, <2>2 DEF WrittenAt
    <2>4. ASSUME NEW r \in ChunkBlockPos \ {p, q}, Inside(h, r), Section(h, r) = u
          PROVE  get_block(f, h, r) = id /\ get_block(g, h, r) = id
      <3>1. Cell(r) \in Cells \ {c, Cell(q)}
        BY <1>4, <1>5, <1>7, <1>11, <2>1, <2>4
      <3> QED
        BY <1>4, <1>9, <2>3, <2>4, <3>1
    <2> QED
      BY <1>4, <1>9, <1>11, <2>1, <2>3, <2>4
  <1> QED
    BY <1>7, <1>10, <1>11

(* The doc of get_block says that below the chunk there is void air.  The  *)
(* division rounds towards zero: in the fifteen layers below the bottom    *)
(* the code reads the block sixteen layers further up.                     *)
THEOREM BelowReadsAbove ==
  ASSUME NEW Blocks, NEW h \in Heights, h.height > 0, NEW f \in Sections(h, Blocks),
         NEW p \in ChunkBlockPos, NEW q \in ChunkBlockPos,
         p.y < h.min_y, p.y > h.min_y - 16, q = [p EXCEPT !.y = @ + 16]
  PROVE  get_block(f, h, p) = get_block(f, h, q)
  <1>1. /\ p.y \in Int /\ p.x \in 0..15 /\ p.z \in 0..15 /\ h.min_y \in Int
        /\ q.y = p.y + 16 /\ q.x = p.x /\ q.z = p.z
    BY SMT DEF ChunkBlockPos, I12, Heights
  <1>2. Section(h, p) = 0
    BY <1>1, SMT DEF Section, Sixteenth
  <1>3. Section(h, q) = 0
    BY <1>1, SMT DEF Section, Sixteenth
  <1>4. q.y % 16 = p.y % 16
    BY <1>1, SMT
  <1>5. Cell(p) = Cell(q)
    BY <1>1, <1>4 DEF Cell, section_block_pos
  <1> QED
    BY <1>2, <1>3, <1>5 DEF get_block

-----------------------------------------------------------------------------
(* Packed indices.                                                         *)

\* An entry lies in one word of the buffer ...
LEMMA EntryInBuffer ==
  ASSUME NEW w \in Widths, NEW i \in Cells
  PROVE  /\ long_index(i, w) \in Longs(w)
         /\ \A k \in entry_mask(w) : bit_idx(i, w) + k \in 0..63
  <1> DEFINE e == 64 \div w
             n == (4096 \div (8 \div w)) \div 8
  <1>1. e * w = 64 /\ n = 64 * w /\ 4096 = e * n /\ e \in Nat /\ e > 0 /\ n \in Nat /\ w \in Nat
    <2>1. CASE w = 1
      <3>1. 8 \div w = 8 /\ e = 64
        BY <2>1, SMT
      <3>2. 4096 \div (8 \div w) = 512
        BY <3>1, SMT
      <3>3. n = 64
        BY <3>2, SMT
      <3> QED
        BY <2>1, <3>1, <3>3, SMT
    <2>2. CASE w = 2
      <3>1. 8 \div w = 4 /\ e = 32
        BY <2>2, SMT
      <3>2. 4096 \div (8 \div w) = 1024
        BY <3>1, SMT
      <3>3. n = 128
        BY <3>2, SMT
      <3> QED
        BY <2>2, <3>1, <3>3, SMT
    <2>3. CASE w = 4
      <3>1. 8 \div w = 2 /\ e = 16
        BY <2>3, SMT
      <3>2. 4096 \div (8 \div w) = 2048
        BY <3>1, SMT
      <3>3. n = 256
        BY <3>2, SMT
      <3> QED
        BY <2>3, <3>1, <3>3, SMT
    <2>4. CASE w = 8
      <3>1. 8 \div w = 1 /\ e = 8
        BY <2>4, SMT
      <3>2. 4096 \div (8 \div w) = 4096
        BY <3>1, SMT
      <3>3. n = 512
        BY <3>2, SMT
      <3> QED
        BY <2>4, <3>1, <3>3, SMT
    <2> QED
      BY <2>1, <2>2, <2>3, <2>4 DEF Widths
  <1> HIDE DEF e, n
  <1>2. i \div e \in 0..(n - 1)
    BY <1>1, SMT DEF Cells
  <1>3. ASSUME NEW k \in entry_mask(w) PROVE (i % e) * w + k \in 0..63
    BY <1>1, SMT DEF Cells, entry_mask
  <1> QED
    BY <1>2, <1>3 DEF e, n, Longs, long_index, bit_idx, entries_per_long

\* ... and no two entries share a bit.
LEMMA EntriesAreApart ==
  ASSUME NEW w \in Widths, NEW i \in Cells, NEW j \in Cells,
         long_index(i, w) = long_index(j, w),
         NEW k \in entry_mask(w), NEW l \in entry_mask(w),
         bit_idx(i, w) + k = bit_idx(j, w) + l
  PROVE  i = j /\ k = l
  <1> USE DEF Cells, long_index, entry_mask, bit_idx, entries_per_long
  <1>1. CASE w = 1
    BY <1>1, SMT
  <1>2. CASE w = 2
    BY <1>2, SMT
  <1>3. CASE w = 4
    BY <1>3, SMT
  <1>4. CASE w = 8
    BY <1>4, SMT
  <1> QED
    BY <1>1, <1>2, <1>3, <1>4 DEF Widths

(* Writing the index of one cell changes the index of no other cell, at    *)
(* every width a palette may have: the shifts and masks of pack_value.     *)
THEOREM IndicesAreSeparate ==
  ASSUME NEW w \in Widths, NEW buffer \in Buffer(w), NEW i \in Cells, NEW j \in Cells,
         NEW value \in SUBSET entry_mask(w)
  PROVE  /\ pack_value(buffer, i, w, value) \in Buffer(w)
         /\ unpack_value(pack_value(buffer, i, w, value), j, w)
               = IF i = j THEN value ELSE unpack_value(buffer, j, w)
  <1> DEFINE B == pack_value(buffer, i, w, value)
             a == long_index(i, w)
             b == long_index(j, w)
             Hole == {bit_idx(i, w) + k : k \in entry_mask(w)}
             New  == {bit_idx(i, w) + k : k \in value}
  <1>1. /\ a \in Longs(w) /\ b \in Longs(w) /\ New \subseteq 0..63
        /\ B = [buffer EXCEPT ![a] = (@ \ Hole) \cup New]
    BY EntryInBuffer DEF pack_value
  <1>2. /\ B \in Buffer(w)
        /\ B[b] = IF b = a THEN (buffer[a] \ Hole) \cup New ELSE buffer[b]
    <2> HIDE DEF B, a, b, Hole, New
    <2> QED
      BY <1>1 DEF Buffer
  <1>3. ASSUME NEW l \in entry_mask(w)
        PROVE  bit_idx(j, w) + l \in B[b]
                 <=> IF i = j THEN l \in value ELSE bit_idx(j, w) + l \in buffer[b]
    <2>1. CASE a # b
      BY <1>2, <2>1
    <2>2. CASE i = j
      <3>1. bit_idx(j, w) + l \in Hole
        BY <2>2
      <3>2. bit_idx(j, w) + l \in New <=> l \in value
        BY <2>2, EntriesAreApart
      <3> QED
        BY <1>2, <2>2, <3>1, <3>2
    <2>3. CASE a = b /\ i # j
      <3>1. bit_idx(j, w) + l \notin Hole /\ bit_idx(j, w) + l \notin New
        BY <2>3, EntriesAreApart
      <3> QED
        BY <1>2, <2>3, <3>1
    <2> QED
      BY <2>1, <2>2, <2>3
  <1> QED
    BY <1>2, <1>3 DEF unpack_value

(* Widening the indices loses none: each round of resize's loop adds one   *)
(* entry to those that are already the same in both buffers.               *)
THEOREM ResizeCopies ==
  ASSUME NEW v \in Widths, NEW w \in Widths, v <= w,
         NEW from \in Buffer(v), NEW to \in Buffer(w),
         NEW i \in Cells, Copied(i, from, v, to, w)
  PROVE  /\ CopyEntry(i, from, v, to, w) \in Buffer(w)
         /\ Copied(i + 1, from, v, CopyEntry(i, from, v, to, w), w)
  <1> DEFINE value == unpack_value(from, i, v)
             B     == CopyEntry(i, from, v, to, w)
  <1>1. value \in SUBSET entry_mask(w)
    BY SMT DEF unpack_value, entry_mask, Widths
  <1>2. B = pack_value(to, i, w, value)
    BY DEF CopyEntry
  <1>3. B \in Buffer(w)
    BY <1>1, <1>2, IndicesAreSeparate
  <1>4. ASSUME NEW j \in 0..i PROVE unpack_value(B, j, w) = unpack_value(from, j, v)
    <2>1. j \in Cells /\ (j = i \/ j \in 0..(i - 1))
      BY SMT DEF Cells
    <2>2. unpack_value(B, j, w) = IF i = j THEN value ELSE unpack_value(to, j, w)
      BY <1>1, <1>2, <2>1, IndicesAreSeparate
    <2> QED
      BY <2>1, <2>2 DEF Copied
  <1>5. Copied(i + 1, from, v, B, w)
    <2>1. ASSUME NEW j \in 0..((i + 1) - 1) PROVE unpack_value(B, j, w) = unpack_value(from, j, v)
      <3>1. j \in 0..i
        BY SMT DEF Cells
      <3> QED
        BY <1>4, <3>1
    <2> HIDE DEF B
    <2> QED
      BY <2>1, Zenon DEF Copied
  <1> QED
    BY <1>3, <1>5


-----------------------------------------------------------------------------
(* Positions.                                                              *)

LEMMA Sign26 ==
  ASSUME NEW n \in I26
  PROVE  /\ n % 67108864 \in Int /\ 0 <= n % 67108864 /\ n % 67108864 < 67108864
         /\ Signed26(n % 67108864) = n
  BY SMT DEF I26, Signed26

LEMMA Sign12 ==
  ASSUME NEW n \in I12
  PROVE  /\ n % 4096 \in Int /\ 0 <= n % 4096 /\ n % 4096 < 4096
         /\ Signed12(n % 4096) = n
  BY SMT DEF I12, Signed12

(* A position within the ranges BlockPos's comment states comes out of its *)
(* 64 bits as it went in, negative coordinates included.                   *)
THEOREM PositionsReadBack ==
  ASSUME NEW b \in BlockPos
  PROVE  from_u64(as_u64(b)) = b
  <1> DEFINE x == b.x % 67108864
             z == b.z % 67108864
             y == b.y % 4096
             v == as_u64(b)
  <1>1. b.x \in I26 /\ b.z \in I26 /\ b.y \in I12 /\ b = [x |-> b.x, y |-> b.y, z |-> b.z]
    BY SMT DEF BlockPos
  <1>2. /\ x \in Int /\ 0 <= x /\ x < 67108864 /\ Signed26(x) = b.x
        /\ z \in Int /\ 0 <= z /\ z < 67108864 /\ Signed26(z) = b.z
        /\ y \in Int /\ 0 <= y /\ y < 4096 /\ Signed12(y) = b.y
    BY <1>1, Sign26, Sign12, SMT
  <1>3. v = 274877906944 * x + 4096 * z + y
    BY SMT DEF as_u64
  <1>4. from_u64(v) = [x |-> Signed26(v \div 274877906944), y |-> Signed12(v % 4096),
                       z |-> Signed26((v \div 4096) % 67108864)]
    BY SMT DEF from_u64
  <1> HIDE DEF x, y, z, v
  <1>5. v \in Int
    BY <1>2, <1>3, SMT
  <1>6. v \div 274877906944 = x /\ v % 4096 = y /\ (v \div 4096) % 67108864 = z
    <2>1. v \div 274877906944 = x
      BY <1>2, <1>3, <1>5, SMT
    <2>2. v % 4096 = y
      BY <1>2, <1>3, <1>5, SMT
    <2>3. v \div 4096 = 67108864 * x + z
      BY <1>2, <1>3, <1>5, SMT
    <2>4. (v \div 4096) % 67108864 = z
      BY <1>2, <2>3, SMT
    <2> QED
      BY <2>1, <2>2, <2>4
  <1>7. from_u64(v) = b
    BY <1>1, <1>2, <1>4, <1>6, SMT
  <1> QED
    BY <1>7, SMT DEF v

-----------------------------------------------------------------------------
(* VarInts.                                                                *)

LEMMA Unsigned ==
  ASSUME NEW v \in I32
  PROVE  Unsigned32(v) \in U32 /\ Signed32(Unsigned32(v)) = v
  BY SMT DEF I32, U32, Signed32, Unsigned32

LEMMA RoundsBound ==
  ASSUME NEW u \in U32
  PROVE  /\ Rounds(u) \in 1..5
         /\ \A k \in 1..5 : k > Rounds(u) => u \div Power(k) = 0
  <1>1. Rounds(u) \in 1..5
    BY SMT DEF Rounds, U32
  <1>2. ASSUME NEW k \in 1..5, k > Rounds(u) PROVE u \div Power(k) = 0
    <2>1. CASE k = 1
      BY <1>2, <2>1, SMT DEF Rounds, U32
    <2>2. CASE k = 2
      BY <1>2, <2>2, SMT DEF Rounds, U32, Power
    <2>3. CASE k = 3
      BY <1>2, <2>3, SMT DEF Rounds, U32, Power
    <2>4. CASE k = 4
      BY <1>2, <2>4, SMT DEF Rounds, U32, Power
    <2>5. CASE k = 5
      BY <1>2, <2>5, SMT DEF Rounds, U32, Power
    <2> QED
      BY <2>1, <2>2, <2>3, <2>4, <2>5, SMT
  <1> QED
    BY <1>1, <1>2

LEMMA GroupBound ==
  ASSUME NEW u \in U32, NEW k \in 1..5
  PROVE  Group(u, k) \in 0..127
  <1>1. u \in Int /\ Power(k) \in Int /\ Power(k) > 0
    BY SMT DEF U32, Power
  <1>2. u \div Power(k) \in Int
    BY <1>1, SMT
  <1> QED
    BY <1>2, SMT DEF Group

\* A number below 2^32 is made of its five groups of seven bits.
LEMMA Groups ==
  ASSUME NEW u \in U32
  PROVE  Group(u, 1) + 128 * Group(u, 2) + 16384 * Group(u, 3)
           + 2097152 * Group(u, 4) + 268435456 * Group(u, 5) = u
  <1> DEFINE a == u \div 128
             b == u \div 16384
             c == u \div 2097152
             d == u \div 268435456
  <1>1. u \in Int /\ 0 <= u /\ u < 4294967296
    BY SMT DEF U32
  <1>2. /\ Group(u, 1) = u % 128 /\ Group(u, 2) = a % 128 /\ Group(u, 3) = b % 128
        /\ Group(u, 4) = c % 128 /\ Group(u, 5) = d % 128
    BY <1>1, SMT DEF Group, Power
  <1>3. u = 128 * a + (u % 128)
    BY <1>1, SMT
  <1>4. a = 128 * b + (a % 128)
    BY <1>1, SMT
  <1>5. b = 128 * c + (b % 128)
    BY <1>1, SMT
  <1>6. c = 128 * d + (c % 128)
    BY <1>1, SMT
  <1>7. d = d % 128
    BY <1>1, SMT
  <1>8. a \in Int /\ b \in Int /\ c \in Int /\ d \in Int
    BY <1>1, SMT
  <1> HIDE DEF a, b, c, d
  <1> QED
    BY <1>1, <1>2, <1>3, <1>4, <1>5, <1>6, <1>7, <1>8, SMT

\* The stream s begins with what is written for v.
Begins(s, v) ==
    /\ 1..written(v) \subseteq DOMAIN s
    /\ \A k \in 1..written(v) : s[k] = write(v)[k]

\* What write sends as its k-th byte, and how a reader takes it.
LEMMA WrittenByte ==
  ASSUME NEW s, NEW v \in I32, Begins(s, v), NEW k \in 1..5, k <= written(v)
  PROVE  /\ s[k] % 128 = Group(Unsigned32(v), k)
         /\ s[k] \in Int /\ (s[k] < 128 <=> k = written(v))
  <1>1. Unsigned32(v) \in U32 /\ written(v) \in 1..5
    BY Unsigned, RoundsBound DEF written
  <1>2. k \in 1..written(v)
    BY <1>1, SMT
  <1>3. s[k] = IF k = written(v) THEN Group(Unsigned32(v), k)
               ELSE Group(Unsigned32(v), k) + 128
    BY <1>2 DEF Begins, write
  <1>4. Group(Unsigned32(v), k) \in 0..127
    BY <1>1, GroupBound
  <1> QED
    BY <1>3, <1>4, SMT

(* A VarInt is read back as it was written, negative numbers included, and *)
(* the reader stops where the writer did, whatever follows.                *)
THEOREM VarIntsReadBack ==
  ASSUME NEW s, NEW v \in I32, Begins(s, v)
  PROVE  \A n \in 1..5, w \in I32 : Reads(s, n, w) <=> n = written(v) /\ w = v
  <1> DEFINE u == Unsigned32(v)
             m == written(v)
             part(k) == IF k <= m THEN (s[k] % 128) * Power(k) ELSE 0
  <1>1. /\ u \in U32 /\ Signed32(u) = v /\ m \in 1..5
        /\ \A k \in 1..5 : k > m => u \div Power(k) = 0
    BY Unsigned, RoundsBound DEF written
  <1>2. ASSUME NEW k \in 1..5 PROVE part(k) = Group(u, k) * Power(k)
    <2>1. CASE k <= m
      BY <2>1, WrittenByte
    <2>2. CASE k > m
      <3>1. u \div Power(k) = 0
        BY <1>1, <2>2
      <3>2. Group(u, k) = 0
        BY <3>1, SMT DEF Group
      <3>3. part(k) = 0 /\ Power(k) \in Int
        BY <1>1, <2>2, SMT DEF Power
      <3> QED
        BY <3>2, <3>3, SMT
    <2> QED
      BY <1>1, <2>1, <2>2, SMT
  <1>3. part(1) + part(2) + part(3) + part(4) + part(5) = u
    <2>1. /\ part(1) = Group(u, 1) * 1 /\ part(2) = Group(u, 2) * 128
          /\ part(3) = Group(u, 3) * 16384 /\ part(4) = Group(u, 4) * 2097152
          /\ part(5) = Group(u, 5) * 268435456
      BY <1>2, SMT DEF Power
    <2>2. /\ Group(u, 1) \in Int /\ Group(u, 2) \in Int /\ Group(u, 3) \in Int
          /\ Group(u, 4) \in Int /\ Group(u, 5) \in Int
      BY <1>1, GroupBound, SMT
    <2>3. Group(u, 1) + 128 * Group(u, 2) + 16384 * Group(u, 3)
            + 2097152 * Group(u, 4) + 268435456 * Group(u, 5) = u
      BY <1>1, Groups
    <2> HIDE DEF part, u
    <2> QED
      BY <2>1, <2>2, <2>3, SMT
  <1>4. Value(s, m) = v
    <2>1. Value(s, m) = Signed32((part(1) + part(2) + part(3) + part(4) + part(5)) % 4294967296)
      BY SMT DEF Value
    <2>2. u % 4294967296 = u
      BY <1>1, SMT DEF U32
    <2> HIDE DEF part, u
    <2> QED
      BY <1>1, <1>3, <2>1, <2>2
  <1>5. /\ m \in DOMAIN s /\ s[m] \in Int /\ s[m] < 128
        /\ \A k \in 1..5 : k < m => s[k] \in Int /\ s[k] >= 128
    <2>1. s[m] \in Int /\ s[m] < 128 /\ m \in DOMAIN s
      BY <1>1, WrittenByte, SMT DEF Begins
    <2>2. ASSUME NEW k \in 1..5, k < m PROVE s[k] \in Int /\ s[k] >= 128
      BY <1>1, <2>2, WrittenByte, SMT
    <2> QED
      BY <2>1, <2>2
  <1> HIDE DEF u, m, part
  <1>6. Reads(s, m, v)
    BY <1>1, <1>4, <1>5, SMT DEF Reads
  <1>7. ASSUME NEW n \in 1..5, NEW w \in I32, Reads(s, n, w) PROVE n = m /\ w = v
    <2>1. ~(n < m)
      BY <1>5, <1>7, SMT DEF Reads
    <2>2. ~(m < n)
      <3>1. m < n => m \in 1..(n - 1)
        BY <1>1, SMT
      <3> QED
        BY <1>5, <1>7, <3>1, SMT DEF Reads
    <2>3. n = m
      BY <1>1, <2>1, <2>2, SMT
    <2> QED
      BY <1>4, <1>7, <2>3 DEF Reads
  <1> QED
    BY <1>6, <1>7 DEF m

(* The length a reader computes from the value is the number of bytes it   *)
(* took, so that the frames of a connection stay apart: for every packet   *)
(* the reader takes as many bytes of data as the writer sent.  (For        *)
(* negative numbers VarInt::len is wrong, but no length is negative.)      *)
THEOREM FramesStayApart ==
  ASSUME NEW n \in Nat, NEW z \in Nat, NEW threshold \in Nat, n < 2147483648
  PROVE  remaining_len(packet_length(n, z, threshold), data_length(n, threshold))
           = sent(n, z, threshold)
  <1> DEFINE d == data_length(n, threshold)
             b == sent(n, z, threshold)
  <1>1. d \in Int /\ 0 <= d /\ d < 2147483648 /\ b \in Int
    BY SMT DEF data_length, sent
  <1>2. packet_length(n, z, threshold) = written(d) + b
    BY DEF packet_length
  <1> HIDE DEF d, b
  <1>3. d % 4294967296 = d
    BY <1>1, SMT
  <1>4. written(d) = VarIntLen(d) /\ written(d) \in Int
    BY <1>1, <1>3, SMT DEF written, Unsigned32, Rounds, VarIntLen
  <1>5. remaining_len(written(d) + b, d) = b
    BY <1>1, <1>4, SMT DEF remaining_len
  <1> QED
    BY <1>2, <1>5 DEF d, b
=============================================================================
