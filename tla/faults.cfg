\* One request at a time, everything fails.
CONSTANTS
    None = None
    Main = main
    h1 = h1
    h2 = h2
    Handlers = {h1}
    Tenants = {t1}
    Users = {u1}
    Limits = {0}
    Ops = {"Create", "Update", "Suspend", "Activate", "Delete", "Reconcile",
           "Issue", "Revoke", "JetStream"}
    Faults = {"timeout", "reject", "full", "db", "crash", "cold", "degraded"}
    WireCap = 2
    OldCap = 1

SPECIFICATION FairSpec
VIEW WithoutLate

INVARIANTS
    PublishedWasCommitted

PROPERTIES
    RegistrySpec
    DeletedStaysGone
    RequestsEnd
    BootCompletes
    BootHeals
