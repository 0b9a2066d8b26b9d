SPECIFICATION Spec
CONSTANTS
    Video = {v1, v2}
    None = None
    Failed = Failed
    Open = Open
    Resync = Resync
    MaxChanges = 2
    MaxVisits = 2
    MaxDrops = 1
    MaxLost = 1
    MaxFailures = 1
SYMMETRY Symmetry
CONSTRAINT OneFault
CHECK_DEADLOCK FALSE
INVARIANTS
    TypeOK
    EveryChangeIsLoaded
    PageIsCurrent
PROPERTIES
    PageNeverGoesBack
