\* UpdateLimits of a suspended tenant.
CONSTANTS
    None = None
    Main = main
    h1 = h1
    h2 = h2
    Handlers = {h1}
    Tenants = {t1}
    Users = {}
    Limits = {5}
    Ops = {"Create", "Update", "Suspend"}
    Faults = {}
    WireCap = 2
    OldCap = 0

SPECIFICATION Spec

INVARIANTS
    SuspendedIsDark
