SPECIFICATION Spec
CONSTANTS
    Positions <- Ahead
    ChunkBlocks = 1
    ServerDistance = 1
    ClientDistance = 0
    ChunksPerTick = 1
    ChunksPerTickMin = 0
    MaxLost = 1
INVARIANTS
    QueuedOnce
    OneJobPerChunk
    ClientHoldsLoaded
    LoadedInView
    MissingIsQueued
PROPERTY ViewFilled
