SPECIFICATION Spec
CONSTANTS
    br1 = br1
    N = 3
    Dpdk <- OuterTwo
    BridgeOf <- SameBridge
    MaxRuns = 2
    MaxAdmin = 1
INVARIANTS
    TypeOK
    CaptureArmed
    NothingLeftBehind
    PromiscUndone
PROPERTIES
    LinkStateKept
