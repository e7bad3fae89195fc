----------------------------- MODULE Inventory -----------------------------
(***************************************************************************)
(* How the play learns which hosts and interfaces to look at.  A script    *)
(* lists the Neutron agents in two requests and merges them by the short   *)
(* name of their host (get_overcloud_agents.py); servers with an agent     *)
(* become hosts of the play (tc-inventory); on each host OVS is asked for  *)
(* the ports of the mapped bridges (bridgeinfo.py), the slaves of Linux    *)
(* bonds are added (linuxbond.py), and the names are filtered and joined   *)
(* with those of the SR-IOV agent (roles/topology).  Neutron and OVS are   *)
(* external and change between the requests.                               *)
(***************************************************************************)
EXTENDS Naturals, SequencesExt

CONSTANTS
    AgentHosts,          \* host names of Neutron agents
    ShortName,           \* what stands before the first dot of each
    Reported,            \* what agents may report, see Agent below
    Nodes,               \* names of the servers of Nova that have an address
    Interfaces, Bridges,
    Slaves,              \* slaves of each interface, {} unless it is a Linux bond
    Matching,            \* interfaces that interface_regex matches
    MaxChanges           \* how often OVS changes (bound)

\* What an agent reports: the interfaces of its device_mappings or the bridges of
\* its bridge_mappings.
Agent ==
    [host : AgentHosts, mapping : {"device_mappings"}, values : SUBSET Interfaces]
    \cup [host : AgentHosts, mapping : {"bridge_mappings"}, values : SUBSET Bridges]

NoBridge == "none"

\* An interface is the slave of one bond at most.
ASSUME InventoryAssumption ==
    /\ DOMAIN ShortName = AgentHosts
    /\ Reported \subseteq Agent /\ IsFiniteSet(Reported)
    /\ NoBridge \notin Bridges
    /\ Slaves \in [Interfaces -> SUBSET Interfaces]
    /\ \A i, j \in Interfaces : Slaves[i] \cap Slaves[j] # {} => i = j
    /\ Matching \subseteq Interfaces
    /\ MaxChanges \in Nat

VARIABLES
    \* Open vSwitch
    bridges,      \* bridges of the host that is looked at
    port,         \* the bridge each of its interfaces is a port of
    changes,
    \* the play
    step,         \* "nic", "ovs", "merge", "hosts", "bridges", "interfaces", "bonds" or
                  \* "list", what it does next; or how the host ended, "ready" or "failed"
    agents,       \* the list of agents, NIC Switch agents first
    merged,       \* how many of them are in `result'
    result,       \* agents by short name
    host,         \* the host of the play that is looked at
    toList,       \* bridges whose interfaces are still to be listed
    toGet,        \* interfaces of the bridge `current' still to be asked for
    current,
    ovs_topology, \* the bridge of each interface
    interface_list,
    \* history
    always, ever  \* ports that were there throughout the query, and at some time

ovs == <<bridges, port, changes, always, ever>>
play == <<agents, merged, result, host, toList, toGet, current, ovs_topology, interface_list>>
vars == <<ovs, step, play>>

Ports(p) == {<<i, p[i]>> : i \in {j \in Interfaces : p[j] # NoBridge}}

\* One agent of a kind per host.
Consistent(R) ==
    \A a, b \in R : (a.host = b.host /\ a.mapping = b.mapping) => a = b

Init ==
    /\ bridges = {} /\ port = [i \in Interfaces |-> NoBridge]
    /\ changes = 0
    /\ step = "nic"
    /\ agents = <<>> /\ merged = 0 /\ result = <<>> /\ host = "none"
    /\ toList = {} /\ toGet = {} /\ current = NoBridge
    /\ ovs_topology = <<>> /\ interface_list = {}
    /\ always = {} /\ ever = {}

-----------------------------------------------------------------------------
(* Open vSwitch between two requests.                                       *)

OvsIs(b, p) ==
    /\ bridges' = b /\ port' = p
    /\ always' = always \cap Ports(p)
    /\ ever' = ever \cup Ports(p)

\* A bridge or a port is removed, a port is added or moved.
OvsChanges ==
    /\ step \in {"bridges", "interfaces"} /\ changes < MaxChanges
    /\ changes' = changes + 1
    /\ \/ \E b \in bridges :
             OvsIs(bridges \ {b}, [i \in Interfaces |-> IF port[i] = b THEN NoBridge
                                                                     ELSE port[i]])
       \/ \E i \in Interfaces \ UNION Range(Slaves), b \in bridges \cup {NoBridge} :
             OvsIs(bridges, [port EXCEPT ![i] = b])
    /\ UNCHANGED <<step, play>>

-----------------------------------------------------------------------------
(* get_overcloud_agents.py                                                 *)

\* The answers to a request for the agents of a type: Neutron changes between the
\* requests, and lists agents in any order.
Listed(mapping) ==
    UNION {SetToSeqs(R) : R \in {S \in SUBSET {a \in Reported : a.mapping = mapping} :
                                    Consistent(S)}}

ListNic ==
    /\ step = "nic"
    /\ agents' \in Listed("device_mappings")
    /\ step' = "ovs"
    /\ UNCHANGED <<ovs, merged, result, host, toList, toGet, current, ovs_topology,
                   interface_list>>

ListOvs ==
    /\ step = "ovs"
    /\ \E more \in Listed("bridge_mappings") : agents' = agents \o more
    /\ step' = "merge"
    /\ UNCHANGED <<ovs, merged, result, host, toList, toGet, current, ovs_topology,
                   interface_list>>

\* A dict after an item of it was set.
With(dict, key, value) ==
    [k \in DOMAIN dict \cup {key} |-> IF k = key THEN value ELSE dict[k]]

\* Mutant: one dict of configurations serves all agents.
Merge_Shared(dict, a) ==
    LET all == [s \in DOMAIN dict |->
                  [dict[s] EXCEPT !.configurations = With(@, a.mapping, a.values)]]
        confs == With(<<>>, a.mapping, a.values)
    IN  With(all, ShortName[a.host], [host |-> a.host, configurations |-> confs])

Merge(dict, a) ==
    LET hostname == ShortName[a.host]
        confs == With(<<>>, a.mapping, a.values)
    IN  IF hostname \in DOMAIN dict
        THEN [dict EXCEPT ![hostname].configurations = With(@, a.mapping, a.values)]
        ELSE With(dict, hostname, [host |-> a.host, configurations |-> confs])

\* The loop over the agents.
MergeAgents ==
    /\ step = "merge"
    /\ \/ /\ merged < Len(agents)
          /\ merged' = merged + 1
          /\ result' = Merge(result, agents[merged'])
          /\ UNCHANGED step
       \/ /\ merged = Len(agents)
          /\ step' = "hosts"
          /\ UNCHANGED <<merged, result>>
    /\ UNCHANGED <<ovs, agents, host, toList, toGet, current, ovs_topology, interface_list>>

-----------------------------------------------------------------------------
(* The tasks of one host.                                                   *)

Conf(mapping) ==
    LET confs == result[host].configurations
    IN  IF mapping \in DOMAIN confs THEN confs[mapping] ELSE {}

HasOvs == "bridge_mappings" \in DOMAIN result[host].configurations

\* A server becomes a host of the play if it has agents.
PicksHost ==
    /\ step = "hosts" /\ host = "none"
    /\ host' \in Nodes \cap DOMAIN result
    /\ UNCHANGED <<ovs, step, agents, merged, result, toList, toGet, current, ovs_topology,
                   interface_list>>

NoHosts ==
    /\ step = "hosts"
    /\ Nodes \cap DOMAIN result = {}
    /\ step' = "failed"
    /\ UNCHANGED <<ovs, play>>

SkipsOvs ==
    /\ step = "hosts" /\ host # "none" /\ ~HasOvs
    /\ step' = "list"
    /\ UNCHANGED <<ovs, play>>

\* The bridges of the host that are mapped.
Asked(present) == present \cap Conf("bridge_mappings")

\* The module connects and lists the bridges.  The slave of a bond is no port.
ListBr ==
    /\ step = "hosts" /\ host # "none" /\ HasOvs
    /\ bridges' \in SUBSET Bridges
    /\ port' \in [Interfaces -> bridges' \cup {NoBridge}]
    /\ \A i \in Interfaces : port'[i] # NoBridge => i \notin UNION Range(Slaves)
    /\ always' = Ports(port') /\ ever' = Ports(port')
    /\ toList' = Asked(bridges')
    /\ step' = "bridges" /\ changes' = 0
    /\ UNCHANGED <<agents, merged, result, host, toGet, current, ovs_topology, interface_list>>

ListIfaces ==
    /\ step = "bridges"
    /\ \E b \in toList :
          /\ current' = b
          /\ toList' = toList \ {b}
          /\ toGet' = {i \in Interfaces : port[i] = b}
          /\ step' = IF b \in bridges THEN "interfaces" ELSE "failed"
    /\ UNCHANGED <<ovs, agents, merged, result, host, ovs_topology, interface_list>>

\* The row of the interface gives its type; the bridge is the one it was listed for.
GetIface ==
    /\ step = "interfaces"
    /\ \E i \in toGet :
          IF port[i] = NoBridge
          THEN step' = "failed" /\ UNCHANGED <<toGet, ovs_topology>>
          ELSE /\ step' = "interfaces"
               /\ toGet' = toGet \ {i}
               /\ ovs_topology' = With(ovs_topology, i, current)
    /\ UNCHANGED <<ovs, agents, merged, result, host, toList, current, interface_list>>

NextBridge ==
    /\ \/ step = "interfaces" /\ toGet = {}
       \/ step = "bridges" /\ toList = {}
    /\ step' = IF toList = {} THEN "bonds" ELSE "bridges"
    /\ UNCHANGED <<ovs, play>>

\* Mutant: slaves are not looked up.
WithSlaves_None(brinfo) == brinfo

\* linuxbond adds the slaves of every interface it is given.
WithSlaves(brinfo) ==
    LET masters(s) == {i \in DOMAIN brinfo : s \in Slaves[i]}
        slaves == {s \in Interfaces : masters(s) # {}}
    IN  [i \in slaves \cup DOMAIN brinfo |->
            IF i \in slaves THEN brinfo[CHOOSE m \in masters(i) : TRUE] ELSE brinfo[i]]

DetectBonds ==
    /\ step = "bonds"
    /\ ovs_topology' = Restrict(WithSlaves(ovs_topology),
                                DOMAIN WithSlaves(ovs_topology) \cap Matching)
    /\ step' = "list"
    /\ UNCHANGED <<ovs, agents, merged, result, host, toList, toGet, current, interface_list>>

SetInterfaceList ==
    /\ step = "list"
    /\ interface_list' = Conf("device_mappings") \cup DOMAIN ovs_topology
    /\ step' = "ready"
    /\ UNCHANGED <<ovs, agents, merged, result, host, toList, toGet, current, ovs_topology>>

Ended == step \in {"ready", "failed"} /\ UNCHANGED vars

Next ==
    \/ OvsChanges
    \/ ListNic \/ ListOvs \/ MergeAgents
    \/ PicksHost \/ NoHosts \/ SkipsOvs \/ ListBr \/ ListIfaces \/ GetIface \/ NextBridge
    \/ DetectBonds \/ SetInterfaceList \/ Ended

Spec == Init /\ [][Next]_vars

-----------------------------------------------------------------------------
(* What the inventory should guarantee.                                     *)

\* A host of the play is looked at with the mappings its own agents reported, as
\* long as no other host has its short name: merging neither loses a mapping nor
\* gives it to another host (get_overcloud_agents.py:45-60).
OwnMappings ==
    (host # "none" /\ \A a, b \in ToSet(agents) :
                         ShortName[a.host] = ShortName[b.host] => a.host = b.host) =>
        /\ ShortName[result[host].host] = host
        /\ \A a \in ToSet(agents) :
              ShortName[a.host] = host => result[host].configurations[a.mapping] = a.values
        /\ \A m \in DOMAIN result[host].configurations : \E a \in ToSet(agents) :
              ShortName[a.host] = host /\ a.mapping = m

\* The list is exact up to what changed during the query.  An interface that was a
\* port of a mapped bridge all through it, or is a slave of one, and matches the
\* regex, is in the list and carries its bridge; so are the interfaces of the SR-IOV
\* agent, whatever they are called.  Any other was, itself or its bond, a port of
\* the mapped bridge it is listed with at some time of the query
\* (bridgeinfo.py:114-128, linuxbond.py:93-102, roles/topology/tasks/main.yml:94-113).
InterfacesExact ==
    step = "ready" =>
        /\ Conf("device_mappings") \subseteq interface_list
        /\ \A pair \in always : \A i \in ({pair[1]} \cup Slaves[pair[1]]) \cap Matching :
              pair[2] \in Conf("bridge_mappings") =>
                  i \in interface_list /\ ovs_topology[i] = pair[2]
        /\ \A i \in interface_list \ Conf("device_mappings") :
              /\ i \in Matching
              /\ ovs_topology[i] \in Conf("bridge_mappings")
              /\ \E pair \in ever :
                    pair[2] = ovs_topology[i] /\ i \in {pair[1]} \cup Slaves[pair[1]]

\* A query of OVS only fails if OVS changed while it ran; mapped bridges that the
\* host does not have are no reason (bridgeinfo.py:117-126).
FailsOnChange ==
    (step = "failed" /\ host # "none") => changes > 0
=============================================================================
