CONSTANTS
    Bytes = {x, y}
    NodeIds = {1, 2, 3}
    MaxBytes = 3
    Chunks <- MCChunks
    ReadLens = {0, 1, 2, 4}
    DiscardLens <- MCDiscardLens
    PeekLens = {0, 1, 2}
SPECIFICATION Spec
INVARIANT WellFormed
PROPERTY RefinesStream
