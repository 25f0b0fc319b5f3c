SPECIFICATION FairSpec
CONSTANTS
    Calls = {c1, c2}
    Kids = {signing, other}
    SigningKid = signing
    NoCall = NoCall
    TTL = 2
    Timeout = 1
    MaxKeys = 2
    MaxTime = 3
CHECK_DEADLOCK FALSE
INVARIANTS KeyRecentlyPublished OutageTolerated KeySurvivesRestart
PROPERTY EveryCallReturns
