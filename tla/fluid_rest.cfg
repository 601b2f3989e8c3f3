SPECIFICATION Spec
CONSTANTS
    Cells <- Slice
    ChunkEdge = 2
    Terrains <- Springs
    Algorithms = {"simplified", "vanilla"}
    tick_delay <- Delay
    max_ticks_per_tick = 1
    max_settle_changes = 2
    Placeable <- Blocks
    MaxEdits = 1
INVARIANTS
    NothingHangs
    NoOrphans
PROPERTIES
    SourcesKept
    ComesToRest
