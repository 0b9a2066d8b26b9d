SPECIFICATION FairSpec
CONSTANTS
    Instance = {i1, i2}
    Password = {p1, p2}
    None = None
    ATTEMPTS = 2
    MaxChanges = 1
    MaxRestarts = 3
    MaxOutages = 1
CHECK_DEADLOCK FALSE
INVARIANTS
    TypeOK
    CommitsFit
    ServingIsReady
    PasswordIsCurrent
PROPERTIES
    AllServe
    StartsAtomically
