--------------------------- MODULE ChunkSections ---------------------------
(***************************************************************************)
(* One section of a chunk.  It is stored in one of three ways: "uniform",  *)
(* one block everywhere; "paletted", each cell an index into a palette     *)
(* that counts how many cells use each entry; "direct", a block id per     *)
(* cell.  Writes move it from one to the other.                            *)
(*                                                                         *)
(* The palette is a sequence, so that its indices count from 1 here; entry *)
(* 1 is air.  A free entry (None) has count 0.  MaxWidth is the widest     *)
(* index a palette may have (8 bits in the code).                          *)
(***************************************************************************)
EXTENDS Integers, Sequences, FiniteSets, FiniteSetsExt

CONSTANTS Cells, Ids, AIR, MaxWidth

ASSUME SectionAssumption ==
    /\ IsFiniteSet(Cells) /\ Cardinality(Cells) > 2
    /\ AIR \in Ids
    /\ MaxWidth \in {2, 4, 8}

VARIABLES
    kind,           \* which of the three it is
    block,          \* uniform: the block
    palette,        \* paletted: the entries,
    free_count,     \* ... how many of them are free,
    bit_width,      \* ... the width of an index,
    index,          \* ... and the index in each cell
    ids,            \* direct: the block in each cell
    non_air         \* ... and how many of them are not air

paletted == <<palette, free_count, bit_width, index>>
direct   == <<ids, non_air>>
vars     == <<kind, block, paletted, direct>>

CHUNK_SECTION_LENGTH == Cardinality(Cells)

Free     == [id |-> AIR, count |-> 0]
AirEntry == [id |-> AIR, count |-> 1]

\* bit_width_for_len: the next power of two of the bits that tell len entries
\* apart.
bit_width_for_len(len) ==
    CASE len <= 2        -> 1
      [] len \in 3..4    -> 2
      [] len \in 5..16   -> 4
      [] len \in 17..256 -> 8
      [] OTHER           -> 16

-----------------------------------------------------------------------------
(* The palette's operations.  Each result is the palette and its number of *)
(* free entries; add_block's also says where the block is now and what is  *)
(* to be done.                                                             *)

\* Mutant: the block that is overwritten keeps its count.
RemoveNothing(p, free, i) == [palette |-> p, free |-> free]

remove_block(p, free, i) ==
    IF i = 1 THEN [palette |-> p, free |-> free]
    ELSE IF p[i].count = 1
      THEN [palette |-> [p EXCEPT ![i] = Free], free |-> free + 1]
      ELSE [palette |-> [p EXCEPT ![i].count = @ - 1], free |-> free]

Uses(p, id) == {i \in DOMAIN p : p[i].count > 0 /\ p[i].id = id}
FirstFree(p) == CHOOSE i \in DOMAIN p : /\ p[i].count = 0
                                        /\ \A j \in DOMAIN p : p[j].count = 0 => i <= j

Added(p, free, i, width, uniform) ==
    [palette |-> p, free |-> free, at |-> i, width |-> width, uniform |-> uniform]

\* Mutant: the section becomes uniform one block earlier.
AddUseEarly(p, free, id, width) ==
    LET i == CHOOSE j \in Uses(p, id) : TRUE
        n == p[i].count + 1
    IN  Added([p EXCEPT ![i].count = n], free, i, width, n + 2 >= CHUNK_SECTION_LENGTH)

\* add_block for a block that is in the palette: one use more.  The section is
\* to become uniform when one use more again would reach its length.
AddUse(p, free, id, width) ==
    LET i == CHOOSE j \in Uses(p, id) : TRUE
        n == p[i].count + 1
    IN  Added([p EXCEPT ![i].count = n], free, i, width, n + 1 >= CHUNK_SECTION_LENGTH)

\* ... for a new block, with no free entry and with one.
Push(p, id, width) ==
    LET new == bit_width_for_len(Len(p) + 1)
    IN  Added(Append(p, [id |-> id, count |-> 1]), 0, Len(p) + 1,
              IF bit_width_for_len(Len(p)) # new THEN new ELSE width, FALSE)

Reuse(p, free, id, width) ==
    Added([p EXCEPT ![FirstFree(p)] = [id |-> id, count |-> 1]], free - 1,
          FirstFree(p), width, FALSE)

add_block(p, free, id, width) ==
    IF id = AIR THEN Added(p, free, 1, width, FALSE)
    ELSE IF Uses(p, id) # {} THEN AddUse(p, free, id, width)
    ELSE IF free = 0 THEN Push(p, id, width)
    ELSE Reuse(p, free, id, width)

\* The palette's part of PalettedSection::set_block, for the index in the cell.
replace_block(p, free, i, id, width) ==
    LET r == remove_block(p, free, i)
    IN  add_block(r.palette, r.free, id, width)

-----------------------------------------------------------------------------
(* What is stored.  A representation that is not in use is empty.          *)

NoPalette == /\ palette = <<>> /\ free_count = 0 /\ bit_width = 0
             /\ index = [c \in Cells |-> 0]
NoDirect  == ids = [c \in Cells |-> AIR] /\ non_air = 0

IsUniform(id) == kind = "uniform" /\ block = id /\ NoPalette /\ NoDirect

\* with_space_for: nothing but air, stored as so many kinds of block need it.
HasSpaceFor(n) ==
    /\ block = AIR /\ NoDirect
    /\ IF bit_width_for_len(n + 1) <= MaxWidth
         THEN /\ kind = "paletted"
              /\ palette = <<AirEntry>> \o [i \in 1..n |-> Free]
              /\ free_count = n /\ bit_width = bit_width_for_len(n + 1)
              /\ index = [c \in Cells |-> 1]
         ELSE kind = "direct" /\ NoPalette

Init ==
    \/ \E id \in Ids : IsUniform(id)
    \/ \E n \in 2..Cardinality(Ids) : HasSpaceFor(n)

\* get_block
Content ==
    [c \in Cells |-> CASE kind = "uniform"  -> block
                       [] kind = "paletted" -> palette[index[c]].id
                       [] OTHER             -> ids[c]]

NonAir(f) == Cardinality({c \in Cells : f[c] # AIR})

-----------------------------------------------------------------------------
DropPalette == /\ palette' = <<>> /\ free_count' = 0 /\ bit_width' = 0
               /\ index' = [c \in Cells |-> 0]
DropDirect  == ids' = [c \in Cells |-> AIR] /\ non_air' = 0

SetUniform(id) == kind' = "uniform" /\ block' = id /\ DropPalette /\ DropDirect

SetPaletted(a, f) ==
    /\ kind' = "paletted" /\ palette' = a.palette /\ free_count' = a.free
    /\ bit_width' = a.width /\ index' = f
    /\ block' = AIR /\ DropDirect

\* A uniform section that is written another block gets a palette of two
\* entries; what the write to it returns is ignored.
WriteUniform(c, id) ==
    /\ kind = "uniform" /\ id # block
    /\ LET p == IF block = AIR THEN <<AirEntry>>
                ELSE <<AirEntry, [id |-> block, count |-> CHUNK_SECTION_LENGTH]>>
           a == replace_block(p, 0, Len(p), id, 1)
       IN  SetPaletted(a, [d \in Cells |-> IF d = c THEN a.at ELSE Len(p)])

Rewrite(c, id) == kind = "uniform" /\ id = block /\ UNCHANGED vars

\* A write to a palette `a` that stays one, or is to become uniform.
Keep(c, a) ==
    /\ ~a.uniform /\ a.width <= MaxWidth
    /\ SetPaletted(a, [index EXCEPT ![c] = a.at])

Shrink(id, a) == a.uniform /\ SetUniform(id)

\* DirectSection::from and the write to it.
SetDirect(f, n, c, id) ==
    /\ kind' = "direct" /\ block' = AIR /\ DropPalette
    /\ ids' = [f EXCEPT ![c] = id]
    /\ non_air' = CASE f[c] = AIR /\ id # AIR -> n + 1
                    [] f[c] # AIR /\ id = AIR -> n - 1
                    [] OTHER                  -> n

Expand(c, id, a) ==
    /\ ~a.uniform /\ a.width > MaxWidth
    /\ LET f == [d \in Cells |-> a.palette[index[d]].id]
       IN  SetDirect(f, NonAir(f), c, id)

WritePaletted(c, id) ==
    /\ kind = "paletted"
    /\ LET a == replace_block(palette, free_count, index[c], id, bit_width)
       IN  Keep(c, a) \/ Shrink(id, a) \/ Expand(c, id, a)

WriteDirect(c, id) ==
    /\ kind = "direct"
    /\ SetDirect(ids, non_air, c, id)

set_block(c, id) ==
    \/ WriteUniform(c, id) \/ Rewrite(c, id)
    \/ WritePaletted(c, id) \/ WriteDirect(c, id)

fill(id) == SetUniform(id)

Next == \E id \in Ids : fill(id) \/ \E c \in Cells : set_block(c, id)

Spec == Init /\ [][Next]_vars

-----------------------------------------------------------------------------
(* What is sent to the client: one id, or a palette with indices of at     *)
(* least four bits, or an id per cell.                                     *)

\* Mutant: an entry with one use is taken for a free one.
SharedEntries == [i \in DOMAIN palette |-> IF palette[i].count > 1 THEN palette[i].id ELSE AIR]

palette_data == [i \in DOMAIN palette |-> IF palette[i].count > 0 THEN palette[i].id ELSE AIR]

bits_per_entry == CASE kind = "uniform"  -> 0
                    [] kind = "paletted" -> IF bit_width < 4 THEN 4 ELSE bit_width
                    [] OTHER             -> 16

\* What a client makes of it: it takes the width for the kind of palette.
Decoded ==
    [c \in Cells |-> CASE bits_per_entry = 0        -> block
                       [] bits_per_entry \in 4..8   -> palette_data[index[c]]
                       [] OTHER                     -> ids[c]]

\* Mutant: the blocks of a palette are what its first entry leaves.
CountFromAir ==
    CASE kind = "uniform"  -> IF block = AIR THEN 0 ELSE CHUNK_SECTION_LENGTH
      [] kind = "paletted" -> CHUNK_SECTION_LENGTH - palette[1].count
      [] OTHER             -> non_air

block_count ==
    CASE kind = "uniform"  -> IF block = AIR THEN 0 ELSE CHUNK_SECTION_LENGTH
      [] kind = "paletted" ->
           MapThenSumSet(LAMBDA i : IF palette[i].id = AIR THEN 0 ELSE palette[i].count,
                         DOMAIN palette)
      [] OTHER             -> non_air

\* The pre-filter of whole-section scans.
any_block(id) ==
    CASE kind = "uniform"  -> block = id
      [] kind = "paletted" -> \E i \in DOMAIN palette : palette[i].count > 0 /\ palette[i].id = id
      [] OTHER             -> TRUE

-----------------------------------------------------------------------------
Entry == [id : Ids, count : 0..CHUNK_SECTION_LENGTH]

TypeOK ==
    /\ kind \in {"uniform", "paletted", "direct"}
    /\ block \in Ids
    /\ palette \in Seq(Entry)
    /\ free_count \in Nat
    /\ bit_width \in {0} \cup 1..MaxWidth
    /\ index \in [Cells -> 0..Len(palette)]
    /\ ids \in [Cells -> Ids]
    /\ non_air \in 0..CHUNK_SECTION_LENGTH

Users(i) == {c \in Cells : index[c] = i}

(* A palette counts right: every entry but air has as many uses as cells   *)
(* point to it, so that a free entry has none; no block has two entries;   *)
(* the free entries are as many as free_count says; and the indices fit    *)
(* their width, so that writing one never spills into its neighbour.       *)
CountsExact ==
    kind = "paletted" =>
        /\ Len(palette) > 0 /\ palette[1] = AirEntry
        /\ \A i \in 2..Len(palette) : palette[i].count = Cardinality(Users(i))
        /\ \A i, j \in DOMAIN palette :
              i # j /\ palette[i].count > 0 /\ palette[j].count > 0 => palette[i].id # palette[j].id
        /\ free_count = Cardinality({i \in DOMAIN palette : palette[i].count = 0})
        /\ \A c \in Cells : index[c] \in DOMAIN palette
        /\ bit_width = bit_width_for_len(Len(palette))

(* The readers that do not look at every cell agree with those that do:    *)
(* the number of blocks sent to clients and the pre-filter of scans.       *)
ShortcutsAgree ==
    /\ block_count = NonAir(Content)
    /\ \A c \in Cells : any_block(Content[c])

(* The client decodes the section into the blocks the server reads.        *)
ClientDecodes == Decoded = Content

\* All cells but c hold id, or all but c and one other.
OneOtherCell(c, id) == Cardinality({d \in Cells \ {c} : Content[d] # id}) <= 1

(* A write is a write of one cell, whatever representation it finds and    *)
(* leaves: a resize, an expansion and a reused entry change no other cell, *)
(* and a shrink at most one.                                               *)
WritesOneCell ==
    [][\A c \in Cells, id \in Ids :
          set_block(c, id) =>
              /\ Content'[c] = id
              /\ \/ \A d \in Cells \ {c} : Content'[d] = Content[d]
                 \/ kind = "paletted" /\ kind' = "uniform" /\ OneOtherCell(c, id)]_vars

(* Every cell reads back what was written (section/mod.rs:319: "every cell *)
(* always reads back exactly what was written").                           *)
ReadsBack ==
    [][\A c \in Cells, id \in Ids : set_block(c, id) => Content' = [Content EXCEPT ![c] = id]]_vars
=============================================================================
