\* Two requests at a time, late answers, crashes and lost directories.
CONSTANTS
    None = None
    Main = main
    h1 = h1
    h2 = h2
    Handlers = {h1, h2}
    Tenants = {t1}
    Users = {u1}
    Limits = {0}
    Ops = {"Create", "Update", "Suspend", "Activate", "Delete", "Reconcile",
           "Issue", "Revoke", "JetStream"}
    Faults = {"timeout", "crash", "wipe"}
    WireCap = 2
    OldCap = 0

SPECIFICATION Spec
VIEW WithoutAcked
SYMMETRY Symmetry

INVARIANTS
    TypeOK
    PublishedWasCommitted

PROPERTIES
    RegistrySpec
    DeletedStaysGone
