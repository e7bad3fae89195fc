SPECIFICATION PacketSpec
CONSTANTS
    Slots <- SomeSlots
    Mdas <- SomeMdas
    Conns <- SomeConns
    Ports <- SomePorts
    CiscoNumbers <- NxosNumbers
    Orders <- SomeOrders
    Cuts <- EveryCut
    Paddings = {0, 3}
INVARIANTS
    NokiaPortRead
    ParsedIsPrefix
    NothingMisread
    CompleteFrameReported
PROPERTIES
    ReadsPort
