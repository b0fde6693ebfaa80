\* Revoke, again after its push failed.
CONSTANTS
    None = None
    Main = main
    h1 = h1
    h2 = h2
    Handlers = {h1}
    Tenants = {t1}
    Users = {u1}
    Limits = {5}
    Ops = {"Create", "Issue", "Revoke"}
    Faults = {"reject"}
    WireCap = 2
    OldCap = 0

SPECIFICATION Spec

INVARIANTS
    RevokedIsRefused

\* The only tenant may be used up.
CHECK_DEADLOCK FALSE
