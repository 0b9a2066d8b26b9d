SPECIFICATION FairSpec
CONSTANTS
    Tab = {t1, t2}
    MaxTokens = 2
    MaxRequests = 3
    MaxErrors = 1
CHECK_DEADLOCK FALSE
INVARIANTS
    TypeOK
PROPERTIES
    TokenSurvives
    NobodyWaits
