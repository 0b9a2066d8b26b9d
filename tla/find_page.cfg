SPECIFICATION Spec
CONSTANTS
    Video = {v1, v2}
    None = None
    Failed = Failed
    Open = Open
    Resync = Resync
    MaxChanges = 2
    MaxVisits = 1
    MaxDrops = 0
    MaxLost = 0
    MaxFailures = 0
SYMMETRY Symmetry
CHECK_DEADLOCK FALSE
INVARIANTS
    PageFollows
