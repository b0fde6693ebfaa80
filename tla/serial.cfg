\* One request at a time, crashes and resolvers that come back empty.
CONSTANTS
    None = None
    Main = main
    h1 = h1
    h2 = h2
    Handlers = {h1}
    Tenants = {t1}
    Users = {u1, u2}
    Limits = {0, 5}
    Ops = {"Create", "Update", "Suspend", "Activate", "Delete", "Reconcile",
           "Issue", "Revoke", "JetStream"}
    Faults = {"crash", "cold"}
    WireCap = 2
    OldCap = 2

SPECIFICATION Spec
VIEW WithoutHistory

INVARIANTS
    Agreement
    RevocationHolds
    RevocationKept
    LimitsMatch

PROPERTIES
    FreshPublish
