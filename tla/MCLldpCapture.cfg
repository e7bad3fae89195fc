SPECIFICATION Spec
CONSTANTS
    e1 = e1
    e2 = e2
    e3 = e3
    InterfaceList <- ThreeInterfaces
    LldpTimeout = 2
    Transmitters <- Chatty
    TxInterval = 1
    QueueCap = 2
INVARIANTS
    TypeOK
    RemainingExact
    ReselectNeverEmpty
    NothingLeftUnread
PROPERTIES
    KeepsContract
    NeighbourHeard
    EndsUnlessChatter
