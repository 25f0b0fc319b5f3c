CONSTANTS
    Requests = {r1, r2, r3}
    Tenants = {t1, t2}
    Conns = {c1, c2}
    NoTenant = NoTenant
    NoConn = NoConn
SPECIFICATION Spec
SYMMETRY Symmetry
CHECK_DEADLOCK FALSE
INVARIANTS
    TenantIsolation
    IdleConnectionClean
    ContextHeld
    BalanceCountsConfirmed
    ChainStaysInTenant
    ChainValidUnlessOverlapped
    OnlyPoolBlocks
PROPERTIES
    ImplementsLedger
