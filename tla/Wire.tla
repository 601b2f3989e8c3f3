-------------------------------- MODULE Wire --------------------------------
(***************************************************************************)
(* How numbers and packets are laid out on the connection: positions in    *)
(* 64 bits, integers as VarInts, packets in frames.  What is in a packet,  *)
(* and how zlib shortens it, is left out.                                  *)
(***************************************************************************)
EXTENDS Layouts

I32  == {n \in Int : -2147483648 <= n /\ n < 2147483648}
U32  == {n \in Int : 0 <= n /\ n < 4294967296}

-----------------------------------------------------------------------------
(* NetworkPosition: 26 bits of x, 26 of z, 12 of y.                        *)

as_u64(b) ==
    274877906944 * (b.x % 67108864) + 4096 * (b.z % 67108864) + (b.y % 4096)

Signed26(n) == IF n >= 33554432 THEN n - 67108864 ELSE n
Signed12(n) == IF n >= 2048 THEN n - 4096 ELSE n

from_u64(val) ==
    [x |-> Signed26(val \div 274877906944),
     y |-> Signed12(val % 4096),
     z |-> Signed26((val \div 4096) % 67108864)]

-----------------------------------------------------------------------------
(* VarInts: seven bits a byte, the lowest first, the eighth bit on all but *)
(* the last.                                                               *)

Power(k) == CASE k = 1 -> 1
              [] k = 2 -> 128
              [] k = 3 -> 16384
              [] k = 4 -> 2097152
              [] OTHER -> 268435456

Group(u, k) == (u \div Power(k)) % 128

\* VarInt::len, by which readers tell how many bytes a VarInt took.
VarIntLen(v) ==
    IF -128 <= v /\ v < 128 THEN 1
    ELSE IF -16384 <= v /\ v < 16384 THEN 2
    ELSE IF -2097152 <= v /\ v < 2097152 THEN 3
    ELSE IF -268435456 <= v /\ v < 268435456 THEN 4
    ELSE 5

\* The rounds of write's loop, which shifts until seven bits are left.
Rounds(u) == IF u < 128 THEN 1
             ELSE IF u < 16384 THEN 2
             ELSE IF u < 2097152 THEN 3
             ELSE IF u < 268435456 THEN 4
             ELSE 5

Unsigned32(v) == v % 4294967296
written(v)    == Rounds(Unsigned32(v))

write(v) ==
    [k \in 1..written(v) |-> IF k = written(v) THEN Group(Unsigned32(v), k)
                             ELSE Group(Unsigned32(v), k) + 128]

\* The value of n bytes: or-ed together, and cut to 32 bits.
Signed32(n) == IF n >= 2147483648 THEN n - 4294967296 ELSE n

Value(s, n) ==
    LET part(k) == IF k <= n THEN (s[k] % 128) * Power(k) ELSE 0
    IN  Signed32((part(1) + part(2) + part(3) + part(4) + part(5)) % 4294967296)

\* read takes n bytes of s, the last of which says that it is the last.
Reads(s, n, v) ==
    /\ n \in 1..5 /\ n \in DOMAIN s
    /\ \A k \in 1..(n - 1) : s[k] >= 128
    /\ s[n] < 128
    /\ v = Value(s, n)

-----------------------------------------------------------------------------
(* A frame with compression on: the length of what follows, the length of  *)
(* the data before compression (0 when it is sent as it is), the data.     *)

\* compress_packet, for a packet of n bytes which zlib makes z bytes.
data_length(n, threshold)   == IF n >= threshold THEN n ELSE 0
sent(n, z, threshold)       == IF n >= threshold THEN z ELSE n
packet_length(n, z, threshold) ==
    written(data_length(n, threshold)) + sent(n, z, threshold)

\* read_compressed: how many bytes it takes for the data.
remaining_len(length, data) == length - VarIntLen(data)
=============================================================================
