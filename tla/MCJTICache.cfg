\* Client clocks up to Window off, so that proofs with the margin and without
\* it occur and entries also expire under a request's hands and are renewed.
CONSTANTS
    Proofs = {p1}
    Requests = {r1, r2}
    Window = 2
    TTL = 4
    Skew = 2
    MaxDelay = 1
    MaxTime = 6
    MaxLife = 1
SPECIFICATION FairSpec
INVARIANTS
    AcceptedAtMostOnce
PROPERTIES
    EntryKeptUntilExpiry
    ImplementsGuard
    ExpiredEntryRemoved
