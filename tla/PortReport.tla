----------------------------- MODULE PortReport -----------------------------
(***************************************************************************)
(* generate_json of library/topology.py as regards the port: the switch    *)
(* announces one of its ports, and the module reports the name it reads.   *)
(***************************************************************************)
EXTENDS SwitchPort

CONSTANTS
    Slots, Mdas, Conns, Ports,   \* the numbers ports of Nokia switches have
    CiscoNumbers                 \* the numbers in port names of Cisco and SR Linux

ASSUME PortAssumption ==
    /\ Slots \subseteq Nat /\ Mdas \subseteq Nat
    /\ Conns \subseteq Nat /\ Ports \subseteq Nat

VARIABLES
    announced,     \* the port, and what its switch puts into the Port ID TLV
    neighborport   \* the reported name; "unread" before

vars == <<announced, neighborport>>

Unread == [kind |-> "unread"]

NokiaAnnouncements ==
    {[switch |-> "Nokia", port |-> p, value |-> LayoutB(p)] :
        p \in PortsB(Slots, Mdas, Conns, Ports)}
    \cup {[switch |-> "Nokia", port |-> p, value |-> LayoutC(p)] :
        p \in PortsC(Slots, Mdas, Conns, Ports)}
    \cup {[switch |-> "Nokia", port |-> p, value |-> LayoutD(p, isChannel)] :
        p \in PortsD(Slots, Mdas, Conns, Ports), isChannel \in {0, 1}}

Cisco(numbers) == [kind |-> "name", numbers |-> numbers]

CiscoAnnouncements ==
    {[switch |-> s, port |-> Cisco(n), value |-> n] :
        s \in {"NX-OS", "NCS-55"}, n \in CiscoNumbers}

\* SR Linux announces the name of the interface; it is one of the Nokia switches.
NameAnnouncements ==
    {[switch |-> "SRLinux", port |-> Cisco(n), value |-> n] : n \in CiscoNumbers}

Init ==
    /\ announced \in NokiaAnnouncements \cup CiscoAnnouncements \cup NameAnnouncements
    /\ neighborport = Unread

NokiaReports ==
    /\ neighborport = Unread
    /\ announced.switch = "Nokia"
    /\ neighborport' = ConvertIfindex(announced.value)
    /\ UNCHANGED announced

\* A Port ID that is not locally assigned is reported as it is.
NameReports ==
    /\ neighborport = Unread
    /\ announced.switch = "SRLinux"
    /\ neighborport' = Cisco(announced.value)
    /\ UNCHANGED announced

CiscoReports ==
    /\ neighborport = Unread
    /\ announced.switch \in {"NX-OS", "NCS-55"}
    /\ neighborport' = Cisco(RetrievePortNumber(announced.switch, announced.value))
    /\ UNCHANGED announced

Finished == neighborport # Unread /\ UNCHANGED vars

Next == NokiaReports \/ NameReports \/ CiscoReports \/ Finished

Spec == Init /\ [][Next]_vars

-----------------------------------------------------------------------------
\* The port of a Nokia switch is reported with the very slot, MDA, connector and
\* port the switch packed into its interface index, in each of the documented
\* layouts (topology.py:266-331).
NokiaPortRead ==
    (announced.switch = "Nokia" /\ neighborport # Unread) =>
        neighborport = announced.port

\* The comment at topology.py:363: the number of the port is what is reported.
CiscoPortRead ==
    (announced.switch # "Nokia" /\ neighborport # Unread) =>
        neighborport = announced.port
=============================================================================
