\* Revoke against UpdateLimits.
CONSTANTS
    None = None
    Main = main
    h1 = h1
    h2 = h2
    Handlers = {h1, h2}
    Tenants = {t1}
    Users = {u1}
    Limits = {5}
    Ops = {"Create", "Update", "Issue", "Revoke"}
    Faults = {}
    WireCap = 2
    OldCap = 0

SPECIFICATION Spec

INVARIANTS
    RevocationKept
