\* Two requests of one session with the same code and proofs of their own.
CONSTANTS
    Codes = {k1}
    Clients = {alice}
    Verifiers = {v1}
    Proofs = {p1, p2}
    Covered = {p1, p2}
    Requests = {r1, r2}
    CodeTTL = 1
    MaxTime = 0
    MaxRestarts = 1
SPECIFICATION Spec
INVARIANTS
    CodeUsedOnce
