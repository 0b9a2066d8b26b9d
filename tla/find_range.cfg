SPECIFICATION Spec
CONSTANTS
    Sizes = {4}
    Positions <- SmallPositions
    Empty = Empty
    Word = Word
    CHUNK_SIZE = 2
    MaxAsks = 1
    MaxFaults = 0
CHECK_DEADLOCK FALSE
INVARIANTS
    MalformedIsWhole
