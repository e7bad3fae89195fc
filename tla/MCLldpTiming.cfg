SPECIFICATION TimedSpec
CONSTANTS
    e1 = e1
    e2 = e2
    InterfaceList <- TwoInterfaces
    LldpTimeout = 2
    Transmitters <- Chatty
    TxInterval = 1
    QueueCap = 2
    MaxWasted = 2
INVARIANTS
    ElapsedBound
