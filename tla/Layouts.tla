------------------------------ MODULE Layouts ------------------------------
(***************************************************************************)
(* Where a block is kept: its chunk and the key of that chunk's row, its   *)
(* section and the cell in it, and the bits of a packed index for that     *)
(* cell.  Nothing here has state; ChunkStore takes keys for distinct, and  *)
(* ChunkSections takes cells and indices for what they stand for.          *)
(***************************************************************************)
EXTENDS Integers

CONSTANTS AIR, VOID_AIR

\* The ranges of a BlockPos, "(i26, i12, i26)", and of the chunks they lie in.
I26 == {n \in Int : -33554432 <= n /\ n < 33554432}
I22 == {n \in Int : -2097152 <= n /\ n < 2097152}
I12 == {n \in Int : -2048 <= n /\ n < 2048}

BlockPos      == [x : I26, y : I12, z : I26]
ChunkPos      == [x : I22, z : I22]
ChunkBlockPos == [x : 0..15, y : I12, z : 0..15]
\* A position within a section.
SectionBlockPos == [x : 0..15, y : 0..15, z : 0..15]

-----------------------------------------------------------------------------
(* Positions.                                                              *)

chunk(b) == [x |-> b.x \div 16, z |-> b.z \div 16]

chunk_block_pos(b) == [x |-> b.x % 16, y |-> b.y, z |-> b.z % 16]

chunk_block(c, p) == [x |-> 16 * c.x + p.x, y |-> p.y, z |-> 16 * c.z + p.z]

section_block_pos(p) == [x |-> p.x % 16, y |-> p.y % 16, z |-> p.z % 16]

\* 0x0yzx
pack(s) == 256 * s.y + 16 * s.z + s.x

unpack(n) == [x |-> n % 16, y |-> n \div 256, z |-> (n \div 16) % 16]

\* ChunkPos::pack keeps 22 bits of each coordinate.
pack_chunk(c) == 4194304 * (c.z % 4194304) + (c.x % 4194304)

\* The key of a row: the shift leaves 32 bits of the dimension's hash.
create_key(hash, c) ==
    79228162514264337593543950336 * (hash % 4294967296) + pack_chunk(c)

-----------------------------------------------------------------------------
(* A chunk's blocks: sections from the bottom of its height h, a block per *)
(* cell in each.                                                           *)

Heights == {h \in [min_y : I12, height : Nat] :
               h.min_y % 16 = 0 /\ h.height % 16 = 0 /\ h.min_y + h.height <= 2048}

max_y(h)   == h.min_y + h.height
Inside(h, p) == p.y \in h.min_y..(max_y(h) - 1)

Cells    == 0..4095
Levels(h) == 0..(h.height \div 16 - 1)
Sections(h, Blocks) == [Levels(h) -> [Cells -> Blocks]]

\* Division as the processor does it, towards zero.
Sixteenth(n) == IF n >= 0 THEN n \div 16 ELSE -((-n) \div 16)

Section(h, p) == Sixteenth(p.y - h.min_y)
Cell(p)       == pack(section_block_pos(p))

get_block(f, h, p) ==
    CASE Section(h, p) < 0                 -> VOID_AIR
      [] Section(h, p) >= h.height \div 16 -> AIR
      [] OTHER                             -> f[Section(h, p)][Cell(p)]

\* What a section may hold after id is written to cell c.  Where at most one
\* other cell holds something else, a palette takes the section for uniform
\* and that cell is overwritten too (ChunkSections: WritesOneCell).  Whether
\* there is a palette is left out here.
section_set_block(s, c, id) ==
    {[s EXCEPT ![c] = id]} \cup
    {[d \in Cells |-> id] : e \in {d \in Cells : id # AIR /\ \A a \in Cells \ {c, d} : s[a] = id}}

\* The chunks set_block may leave.  Outside the chunk it panics.
set_block(f, h, p, id) ==
    {[f EXCEPT ![Section(h, p)] = s] : s \in section_set_block(f[Section(h, p)], Cell(p), id)}

-----------------------------------------------------------------------------
(* Packed indices: entries of w bits, as many as fit in each 64-bit word.  *)
(* A word, and a value, is the set of its bits that are one.               *)

entries_per_long(w)  == 64 \div w
long_index(i, w)     == i \div entries_per_long(w)
bit_idx(i, w)        == (i % entries_per_long(w)) * w
entry_mask(w)        == 0..(w - 1)

Widths    == {1, 2, 4, 8}
Longs(w)  == 0..((4096 \div (8 \div w)) \div 8 - 1)
Buffer(w) == [Longs(w) -> SUBSET (0..63)]

pack_value(buffer, i, w, value) ==
    [buffer EXCEPT ![long_index(i, w)] =
        (@ \ {bit_idx(i, w) + k : k \in entry_mask(w)})
           \cup {bit_idx(i, w) + k : k \in value}]

unpack_value(buffer, i, w) ==
    {k \in entry_mask(w) : bit_idx(i, w) + k \in buffer[long_index(i, w)]}

\* The first n entries of `from` (v bits wide) are in `to` (w bits wide).
Copied(n, from, v, to, w) ==
    \A i \in 0..(n - 1) : unpack_value(to, i, w) = unpack_value(from, i, v)

\* One round of resize's loop.
CopyEntry(i, from, v, to, w) == pack_value(to, i, w, unpack_value(from, i, v))
=============================================================================
