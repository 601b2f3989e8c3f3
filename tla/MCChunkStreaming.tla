-------------------------- MODULE MCChunkStreaming --------------------------
(* Instances of ChunkStreaming: one-block chunks, radius 1.                *)
EXTENDS ChunkStreaming

\* Block centres of chunks 0 and 1.
Ahead == {1, 3}
\* One half block to either side of the origin, and the next chunk west.
AcrossOrigin == {1, -1, -3}
=============================================================================
