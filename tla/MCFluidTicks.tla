---------------------------- MODULE MCFluidTicks ----------------------------
(* An instance of FluidTicks: an L of four cells over two chunks with one   *)
(* more below it, springs in two of them and rock under the first.          *)
EXTENDS FluidTicks

Slice == {<<0, 1, 0>>, <<1, 1, 0>>, <<2, 1, 0>>, <<0, 1, 1>>, <<1, 0, 0>>}
Delay == [k \in Fluids |-> IF k = "water" THEN 2 ELSE 3]

Water == fluid_block("water", 0)
Lava  == fluid_block("lava", 0)
Stone == Rock("stone")

Terrain(water, stone) ==
    [p \in Slice |-> IF p \in water THEN Water ELSE IF p \in stone THEN Stone ELSE Air]
Springs == {Terrain({<<1, 1, 0>>, <<0, 1, 1>>}, {<<1, 0, 0>>})}
Blocks    == {Stone, Water, Lava}
=============================================================================
