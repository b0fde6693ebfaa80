\* Two requests, of which one is answered between a login and its rendering.
CONSTANTS
    None = None
    Requests = {r1, r2}
    MaxTokens = 3
    Logouts = FALSE

SPECIFICATION FairSpec

PROPERTIES
    Answerable

\* The tokens may be used up while nobody is signed in.
CHECK_DEADLOCK FALSE
