SPECIFICATION FairSpec
CONSTANTS
    Tenants = {t1, t2}
    Actions = {"GET_BALANCE", "LOGIN_FAIL"}
    CriticalActions = {"LOGIN_FAIL"}
    WarningActions = {}
    LogsLimit = 1
    Files = {f1}
    UnitsPerDay = 2
    ExpiryDays = 2
    Lifetime = 3
    Polls = {p1, p2}
    HistoryLength = 2
    CooldownTime = 2
    MaxId = 2
    Bounds <- MCBounds
INVARIANTS
    SecureMeansIntact CompromisedExplained BusyFlags SelfTestTruthful
    AlarmExplained ScreenConsistent CooldownKept
PROPERTIES
    NewestUnlessOverlapped EveryOperationEnds EventuallyFresh
