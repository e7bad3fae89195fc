SPECIFICATION Spec
CONSTANTS
    e1 = e1
    e2 = e2
    e3 = e3
    InterfaceList <- TwoInterfaces
    LldpTimeout = 2
    Transmitters <- Silent
    TxInterval = 1
    QueueCap = 1
INVARIANTS
    EveryInterfaceReported
