SPECIFICATION Spec
CONSTANTS
    Slots <- None
    Mdas <- None
    Conns <- None
    Ports <- None
    CiscoNumbers <- NxosNumbers
INVARIANTS
    CiscoPortRead
