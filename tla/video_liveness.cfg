SPECIFICATION FairSpec
CONSTANTS
    Worker = {w1, w2}
    Upload = {u1}
    None = None
    MAX_ATTEMPTS = 2
    MaxLapses = 0
    MaxRedisFaults = 0
    MaxResends = 0
CONSTRAINT DeletesApart
PROPERTIES
    AcceptedSettles
    GoneJobsEnd
