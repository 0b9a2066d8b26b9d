SPECIFICATION Spec
CONSTANTS
    Worker = {w1, w2, w3}
    Upload = {u1, u2}
    None = None
    MAX_ATTEMPTS = 1
    MaxLapses = 1
    MaxRedisFaults = 0
    MaxResends = 1
SYMMETRY Symmetry
CONSTRAINTS
    QuietDeletes
    FewEntries
    ThirdSweeps
INVARIANTS
    ExclusiveProcessing
    ReturnedJobsFirst
PROPERTIES
    JobsLeaveByAck
