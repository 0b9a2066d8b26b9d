SPECIFICATION FairSpec
CONSTANTS
    Sizes = {0, 1, 4}
    Positions <- SmallPositions
    Empty = Empty
    Word = Word
    CHUNK_SIZE = 2
    MaxAsks = 2
    MaxFaults = 2
CHECK_DEADLOCK FALSE
INVARIANTS
    TypeOK
    AnswerIsRequested
    BytesInPlace
    LengthIsKept
PROPERTIES
    FileIsPlayed
