SPECIFICATION Spec
CONSTANTS
    Worker = {w1, w2}
    Upload = {u1}
    None = None
    MAX_ATTEMPTS = 2
    MaxLapses = 0
    MaxRedisFaults = 1
    MaxResends = 1
SYMMETRY Symmetry
CONSTRAINT FaultsApart
INVARIANTS
    TypeOK
    CompletedHasFiles
    UnfinishedIsTracked
    StatusFollowsRow
    LiveStatusIsTracked
PROPERTIES
    LeftAtRest
    ReadyStaysReady
