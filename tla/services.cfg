\* A backend that fails and dies anywhere, and its monitor: two NATS servers,
\* one account, and two requests for it.
CONSTANTS
    None = None
    Emails = {e1, e2}
    Faults = {"db", "file", "nats", "crash"}
    Servers = {s1, s2}
    Accounts = {a1}
    Handlers = {h1, h2}
    MaxSamples = 3
    ChanCap = 2

SPECIFICATION FairSpec

INVARIANTS
    TypeOK
    OneInitialAdmin
    BootConnects
    OneRowPerServer
    AnswersAdvance

PROPERTIES
    RowsStay
    OnlyRepliesReorder
    StatsReturn
