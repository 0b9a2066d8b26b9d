SPECIFICATION FairSpec
CONSTANTS
    Worker = {w1, w2}
    Upload = {u1}
    None = None
    MAX_ATTEMPTS = 1
    MaxLapses = 0
    MaxRedisFaults = 1
    MaxResends = 0
CONSTRAINT FailuresApart
INVARIANTS
    TypeOK
    BoundedProcessing
    QueueInv
PROPERTIES
    NoJobLost
    AttemptsNeverUndone
    KeepsLedger
    JobsSettleOrStrand
