SPECIFICATION FairSpec
CONSTANTS
    Requests = {r1, r2}
    Proofs = {p1}
    Clients = {a, b}
    NoClient = NoClient
    Identities = {a, NoClient}
    Ops <- MCOps
    EnforceZiti = TRUE
    FailOpen = FALSE
    InitialPolicies <- MCPolicies
    MaxRestarts = 1
    MaxUpdates = 1
CHECK_DEADLOCK FALSE
INVARIANTS HolderBound OneEffectPerProof AnswersTruthful
PROPERTIES ImplementsMonitor EveryRequestAnswered
