\* Delete, with a resolver that does not comply.
CONSTANTS
    None = None
    Main = main
    h1 = h1
    h2 = h2
    Handlers = {h1}
    Tenants = {t1}
    Users = {}
    Limits = {5}
    Ops = {"Create", "Delete"}
    Faults = {"reject"}
    WireCap = 2
    OldCap = 0

SPECIFICATION Spec

INVARIANTS
    DeletedIsDark

\* The only tenant may be used up.
CHECK_DEADLOCK FALSE
