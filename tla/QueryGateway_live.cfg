CONSTANTS
    c1 = c1
    Clients <- OneClient
    Execs = {e1, e2, e3}
    None = None

SPECIFICATION FairSpec

INVARIANTS
    TypeOK
    StreamsAreLive
    NobodyIsLeftWaiting

PROPERTIES
    StaysInReach
    LeaversAreCleared

CHECK_DEADLOCK FALSE
