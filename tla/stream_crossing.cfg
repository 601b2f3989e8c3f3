SPECIFICATION Spec
CONSTANTS
    Positions <- AcrossOrigin
    ChunkBlocks = 1
    ServerDistance = 1
    ClientDistance = 0
    ChunksPerTick = 1
    ChunksPerTickMin = 0
    MaxLost = 1

PROPERTY CrossingIsNoticed
