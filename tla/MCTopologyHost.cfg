SPECIFICATION HostSpec
CONSTANTS
    AgentHosts <- Hosts
    ShortName <- Short
    Reported <- SomeAgents
    Nodes = {"c1", "c2", "c3"}
    Interfaces <- Ifaces
    Bridges = {"br1", "br2"}
    Slaves <- Bonds
    Matching = {"slave", "nic"}
    MaxChanges = 1
    Packets <- SomePackets
    Nics = {"nic"}
    VirtualFunctions = {"vf0", "vf1"}
    MaxResizes = 1
INVARIANTS
    OwnMappings
    InterfacesExact
    FileComplete
    BlameJustified
    OwnVfs
