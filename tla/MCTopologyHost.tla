--------------------------- MODULE MCTopologyHost ---------------------------
(* Instances of TopologyHost for TLC: three hosts of which two share their   *)
(* short name, agents that report two things, a bond with a slave, and       *)
(* packets that are complete, lack one thing or have one that is rejected.   *)
EXTENDS TopologyHost

Hosts == {"c1.a", "c1.b", "c2.a"}
Short == [h \in Hosts |-> IF h = "c2.a" THEN "c2" ELSE "c1"]

Ifaces == {"bond", "slave", "nic"}
Bonds == [i \in Ifaces |-> IF i = "bond" THEN {"slave"} ELSE {}]

Nic(h, values) == [host |-> h, mapping |-> "device_mappings", values |-> values]
Ovs(h, values) == [host |-> h, mapping |-> "bridge_mappings", values |-> values]

SomeAgents ==
    {Nic("c1.a", {"nic"}), Nic("c1.b", {"slave"}),
     Ovs("c1.a", {"br1", "br2"}), Ovs("c2.a", {"br2"})}

All == {"name", "ipv4", "port"}
SomePackets ==
    {[desc |-> d, tlvs |-> All, malformed |-> FALSE] :
        d \in {"Nokia", "other", "none", "malformed"}}
    \cup {[desc |-> "NX-OS", tlvs |-> All \ {t}, malformed |-> FALSE] : t \in All}
    \cup {[desc |-> "NCS-55", tlvs |-> All, malformed |-> TRUE]}
=============================================================================
