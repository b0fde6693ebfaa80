\* Two requests over two tenants; connections are lost, come back or are given up.
CONSTANTS
    None = None
    Handlers = {h1, h2}
    Tenants = {t1, t2}
    Conns = {c1, c2}
    MaxDrops = 2

SPECIFICATION FairSpec

INVARIANTS
    TypeOK
    OnePerTenant
    LeaksBounded
    EntriesOwn

PROPERTIES
    CallsReturn
    ClosedLeave

\* The backend is shut down.
CHECK_DEADLOCK FALSE
