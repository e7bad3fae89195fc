SPECIFICATION Spec
CONSTANTS
    e1 = e1
    e2 = e2
    e3 = e3
    InterfaceList <- TwoInterfaces
    LldpTimeout = 2
    Transmitters <- Chatty
    TxInterval = 1
    QueueCap = 2
PROPERTIES
    Ends
