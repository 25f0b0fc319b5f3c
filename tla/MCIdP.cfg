\* Two requests that may carry the same code, and in time for it or late.
CONSTANTS
    Codes = {k1}
    Clients = {alice, bob}
    Verifiers = {v1, v2}
    Proofs = {p1, p2}
    Covered = {p1}
    Requests = {r1, r2}
    CodeTTL = 1
    MaxTime = 2
    MaxRestarts = 1
SPECIFICATION FairSpec
INVARIANTS
    DuplicateGetsOneToken
    LateGetsNothing
PROPERTIES
    ImplementsExchange
    ExpiredCodeRemoved
