SPECIFICATION Spec
CONSTANTS
    Chunks = {c1}
    Edits = {e1}
    Workers = {w1, w2}
    Signals = {sig}
    Tick = tick
    NoChunk = none
INVARIANTS
    StoredBeforeCached
    NoLostEdit
    CleanMeansStored
    PromisedSurvives
    TickFindsItsChunk
SYMMETRY Symmetry
