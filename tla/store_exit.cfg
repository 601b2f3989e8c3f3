SPECIFICATION Spec
CONSTANTS
    Chunks = {c1}
    Edits = {e1}
    Workers = {}
    Signals = {sig}
    Tick = tick
    NoChunk = none
INVARIANT ExitSavesWorld
