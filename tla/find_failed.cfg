SPECIFICATION Spec
CONSTANTS
    Worker = {w1, w2}
    Upload = {u1}
    None = None
    MAX_ATTEMPTS = 1
    MaxLapses = 0
    MaxRedisFaults = 0
    MaxResends = 0
PROPERTIES
    CompletedNeverFails
