\* As many requests as connections.
CONSTANTS
    Requests = {r1, r2}
    Tenants = {t1}
    Conns = {c1, c2}
    NoTenant = NoTenant
    NoConn = NoConn
SPECIFICATION FairSpec
CHECK_DEADLOCK FALSE
PROPERTIES
    EveryRequestAnswered
