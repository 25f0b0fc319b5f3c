\* Two concurrent requests of one tenant.
CONSTANTS
    Requests = {r1, r2}
    Tenants = {t1}
    Conns = {c1, c2}
    NoTenant = NoTenant
    NoConn = NoConn
SPECIFICATION Spec
CHECK_DEADLOCK FALSE
INVARIANTS
    TenantChainValid
