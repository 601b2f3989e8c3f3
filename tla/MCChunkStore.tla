---------------------------- MODULE MCChunkStore ----------------------------
(* Instances of ChunkStore for TLC.                                        *)
EXTENDS ChunkStore, TLC

Symmetry == Permutations(Workers)
=============================================================================
