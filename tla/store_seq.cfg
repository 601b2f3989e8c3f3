SPECIFICATION Spec
CONSTANTS
    Chunks = {c1, c2}
    Edits = {e1}
    Workers = {}
    Signals = {}
    Tick = tick
    NoChunk = none
PROPERTY ImplementsWorldStore
