\* Three requests meet expired sessions.
CONSTANTS
    None = None
    Requests = {r1, r2, r3}
    MaxTokens = 3
    Logouts = TRUE

SPECIFICATION FairSpec

INVARIANTS
    TypeOK
    ModalServes

PROPERTIES
    RetriesAreNewer
    OnlyLateAnswersBlock
    WaitersProceed

\* The tokens may be used up while nobody is signed in.
CHECK_DEADLOCK FALSE
