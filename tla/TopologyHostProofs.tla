------------------------- MODULE TopologyHostProofs -------------------------
(***************************************************************************)
(* Theorems about Inventory and TopologyHost, for any agents, bridges,     *)
(* bonds, packets and virtual functions and however often OVS and sysfs    *)
(* change.                                                                  *)
(***************************************************************************)
EXTENDS TopologyHost, FiniteSetTheorems, TLAPS

-----------------------------------------------------------------------------
(* The invariant: the agents.                                               *)

\* One agent of a kind per host, those with device mappings first.
AgentsInv ==
    /\ agents \in Seq(Reported)
    /\ step = "nic" => agents = <<>>
    /\ step = "ovs" => \A n \in DOMAIN agents : agents[n].mapping = "device_mappings"
    /\ Consistent(ToSet(agents))

\* The agent is one of those merged so far.
Merged(s, mapping, values) ==
    \E n \in 1..merged : /\ ShortName[agents[n].host] = s
                         /\ agents[n].mapping = mapping /\ agents[n].values = values

\* The dict has the mappings of the agents merged so far, and nothing else.
MergeInv ==
    /\ merged \in 0..Len(agents)
    /\ step \in {"nic", "ovs"} => merged = 0 /\ DOMAIN result = {}
    /\ step \notin {"nic", "ovs", "merge"} => merged = Len(agents)
    /\ \A s \in DOMAIN result :
          /\ result[s] = [host |-> result[s].host, configurations |-> result[s].configurations]
          /\ ShortName[result[s].host] = s
          /\ \A m \in DOMAIN result[s].configurations :
                Merged(s, m, result[s].configurations[m])
    /\ result = [s \in DOMAIN result |-> result[s]]
    /\ \A n \in 1..merged :
          /\ ShortName[agents[n].host] \in DOMAIN result
          /\ agents[n].mapping \in DOMAIN result[ShortName[agents[n].host]].configurations

\* The host that is looked at is one of the dict.
PickedInv ==
    /\ step \in {"nic", "ovs", "merge"} => host = "none"
    /\ host # "none" => host \in Nodes \cap DOMAIN result
    /\ step \notin {"nic", "ovs", "merge", "hosts", "failed"} => host # "none"

InventoryInv == AgentsInv /\ MergeInv /\ PickedInv

-----------------------------------------------------------------------------
(* The invariant: the query of OVS.                                         *)

AllSlaves == UNION Range(Slaves)

\* What was a port all the time is one now, and on no other bridge at any time.
PortsInv ==
    /\ bridges \subseteq Bridges /\ port \in [Interfaces -> Bridges \cup {NoBridge}]
    /\ changes \in Nat
    /\ ever \subseteq (Interfaces \ AllSlaves) \X Bridges
    /\ always \subseteq Ports(port) /\ Ports(port) \subseteq ever
    /\ \A p \in always, q \in ever : p[1] = q[1] => p = q

Querying == step \in {"bridges", "interfaces", "bonds"}
Mapped == Conf("bridge_mappings")

\* What is listed was there at some time of the query.
FoundInv ==
    /\ Querying =>
          /\ toList \subseteq Bridges \cap Mapped
          /\ \A i \in DOMAIN ovs_topology :
                ovs_topology[i] \in Mapped /\ <<i, ovs_topology[i]>> \in ever
    /\ step = "interfaces" =>
          current \in Mapped /\ \A i \in toGet : <<i, current>> \in ever
    /\ step \in {"nic", "ovs", "merge", "hosts"} => DOMAIN ovs_topology = {} /\ always = {}

\* What was there all the time is listed or will be.
AwaitedInv ==
    /\ Querying =>
          \A pair \in always : pair[2] \in Mapped =>
              \/ pair[2] \in toList
              \/ step = "interfaces" /\ current = pair[2] /\ pair[1] \in toGet
              \/ pair[1] \in DOMAIN ovs_topology
    /\ step = "bonds" => toList = {}

\* While nothing changes, what is still to be asked for is there.
QuietInv ==
    changes = 0 =>
        /\ step \in {"bridges", "interfaces"} => toList \subseteq bridges
        /\ step = "interfaces" => \A i \in toGet : port[i] # NoBridge

\* After slaves were added and names filtered.
BondsInv ==
    /\ step \in {"list", "ready"} =>
          /\ \A pair \in always : \A i \in ({pair[1]} \cup Slaves[pair[1]]) \cap Matching :
                pair[2] \in Mapped => i \in DOMAIN ovs_topology /\ ovs_topology[i] = pair[2]
          /\ \A i \in DOMAIN ovs_topology :
                /\ i \in Matching /\ ovs_topology[i] \in Mapped
                /\ \E pair \in ever :
                      pair[2] = ovs_topology[i] /\ i \in {pair[1]} \cup Slaves[pair[1]]
    /\ step = "ready" =>
          interface_list = Conf("device_mappings") \cup DOMAIN ovs_topology

QueryInv == PortsInv /\ FoundInv /\ AwaitedInv /\ QuietInv /\ BondsInv /\ FailsOnChange

-----------------------------------------------------------------------------
(* The invariant: the two modules.                                          *)

\* The stages follow each other.
StageInv ==
    /\ stage # "inventory" => step = "ready"
    /\ stage \in {"inventory", "lldp"} => DOMAIN vfinfo = {} /\ DOMAIN listed = {} /\ resizes = 0
    /\ stage \in {"inventory", "lldp", "vfs"} => DOMAIN entries = {} /\ todo = {}
    /\ stage \notin {"failed", "crashed"} => culprit = {}
    /\ DOMAIN vfinfo \subseteq interface_list

\* Of an interface that is being read, every function is listed or was read.
VfsInv ==
    /\ vfs \in [Interfaces -> SUBSET VirtualFunctions] /\ resizes \in Nat
    /\ \A i \in Interfaces \ Nics : vfs[i] = {}
    /\ DOMAIN listed \subseteq DOMAIN vfinfo /\ \A i, j \in DOMAIN listed : i = j
    /\ \A i \in DOMAIN listed \ Nics : listed[i] = {}
    /\ \A i \in DOMAIN vfinfo \ Nics : vfinfo[i] = {}
    /\ resizes = 0 =>
          /\ \A i \in DOMAIN listed : vfs[i] = vfinfo[i] \cup listed[i]
          /\ \A i \in DOMAIN vfinfo \ DOMAIN listed : vfs[i] = vfinfo[i]

\* An entry is made of a heard neighbour that sent all there has to be.
EntriesInv ==
    /\ todo \subseteq interface_list
    /\ stage = "topology" =>
          /\ DOMAIN entries = interface_list \ todo
          /\ DOMAIN vfinfo = interface_list /\ DOMAIN listed = {}
    /\ stage = "reported" => DOMAIN entries = interface_list
    /\ \A i \in DOMAIN entries :
          /\ i \in interface_list
          /\ verdict[i] = "heard" /\ {"name", "ipv4", "port"} \subseteq entries[i].neighbor
          /\ entries[i].bridge = Bridge(i)
          /\ entries[i].vfs = vfinfo[i] /\ i \in DOMAIN vfinfo \ DOMAIN listed

HInv == InventoryInv /\ QueryInv /\ StageInv /\ VfsInv /\ EntriesInv /\ BlameJustified

-----------------------------------------------------------------------------
(* The agents.                                                              *)

\* An answer lists agents of the type that was asked for, one per host.
LEMMA Answer ==
  ASSUME NEW mapping, NEW list \in Listed(mapping)
  PROVE  /\ list \in Seq(Reported)
         /\ \A n \in DOMAIN list : list[n].mapping = mapping
         /\ Consistent(ToSet(list))
<1>1. PICK R \in SUBSET {a \in Reported : a.mapping = mapping} :
         Consistent(R) /\ list \in SetToSeqs(R)
  BY DEF Listed
<1>2. IsFiniteSet(R)
  BY FS_Subset, InventoryAssumption
<1>3. Cardinality(R) \in Nat
  BY <1>2, FS_CardinalityType
<1>4. list \in [1..Cardinality(R) -> R]
  BY <1>1 DEF SetToSeqs
<1>5. list \in Seq(R)
  BY <1>3, <1>4
<1> QED
  BY <1>1, <1>4, <1>5 DEF Consistent, ToSet

\* Steps that leave the agents alone.
LEMMA AgentsKept ==
  ASSUME InventoryInv, UNCHANGED <<agents, merged, result>>, host' = host \/ step = "hosts",
         step' \notin {"nic", "ovs"},
         step \notin {"nic", "ovs", "merge"}, step' \notin {"nic", "ovs", "merge"},
         host' # "none" => host' \in Nodes \cap DOMAIN result,
         step' \notin {"hosts", "failed"} => host' # "none"
  PROVE  InventoryInv'
  BY DEF InventoryInv, AgentsInv, MergeInv, Merged, PickedInv, Consistent, ToSet

LEMMA InitInventory == Init => InventoryInv
<1> SUFFICES ASSUME Init PROVE InventoryInv
  OBVIOUS
<1>1. AgentsInv /\ PickedInv
  BY DEF Init, AgentsInv, PickedInv, Consistent, ToSet
<1>2. MergeInv
  BY DEF Init, MergeInv
<1> QED
  BY <1>1, <1>2 DEF InventoryInv

LEMMA ListNicStep ==
  ASSUME InventoryInv, ListNic
  PROVE  InventoryInv'
<1>1. /\ agents' \in Seq(Reported)
      /\ \A n \in DOMAIN agents' : agents'[n].mapping = "device_mappings"
      /\ Consistent(ToSet(agents'))
  BY Answer DEF ListNic
<1>2. /\ step = "nic" /\ step' = "ovs" /\ UNCHANGED <<merged, result, host>>
  BY DEF ListNic
<1>3. AgentsInv'
  BY <1>1, <1>2 DEF AgentsInv
<1>4. MergeInv'
  <2>1. merged = 0 /\ DOMAIN result = {}
    BY <1>2 DEF InventoryInv, MergeInv
  <2> QED
    BY <1>1, <1>2, <2>1 DEF InventoryInv, MergeInv
<1>5. PickedInv'
  BY <1>2 DEF InventoryInv, PickedInv
<1> QED
  BY <1>3, <1>4, <1>5 DEF InventoryInv

LEMMA ListOvsStep ==
  ASSUME InventoryInv, ListOvs
  PROVE  InventoryInv'
<1>1. PICK more \in Listed("bridge_mappings") : agents' = agents \o more
  BY DEF ListOvs
<1>2. /\ more \in Seq(Reported)
      /\ \A n \in DOMAIN more : more[n].mapping = "bridge_mappings"
      /\ Consistent(ToSet(more))
  BY Answer
<1>3. /\ step = "ovs" /\ step' = "merge" /\ UNCHANGED <<merged, result, host>>
      /\ agents \in Seq(Reported) /\ Consistent(ToSet(agents))
      /\ \A n \in DOMAIN agents : agents[n].mapping = "device_mappings"
  BY DEF ListOvs, InventoryInv, AgentsInv
<1>4. agents' \in Seq(Reported)
  BY <1>1, <1>2, <1>3
<1>5. ToSet(agents') = ToSet(agents) \cup ToSet(more)
  <2>1. /\ DOMAIN agents = 1..Len(agents) /\ DOMAIN more = 1..Len(more)
        /\ Len(agents) \in Nat /\ Len(more) \in Nat
        /\ DOMAIN agents' = 1..Len(agents) + Len(more)
        /\ \A n \in DOMAIN agents : agents'[n] = agents[n]
        /\ \A n \in DOMAIN more : agents'[Len(agents) + n] = more[n]
    BY <1>1, <1>2, <1>3
  <2>2. \A n \in DOMAIN agents' : \/ n \in DOMAIN agents
                                  \/ n - Len(agents) \in DOMAIN more
                                        /\ n = Len(agents) + (n - Len(agents))
    BY <2>1
  <2>3. \A n \in DOMAIN agents : n \in DOMAIN agents'
    BY <2>1
  <2>4. \A n \in DOMAIN more : Len(agents) + n \in DOMAIN agents'
    BY <2>1
  <2>5. ToSet(agents') \subseteq ToSet(agents) \cup ToSet(more)
    BY <2>1, <2>2 DEF ToSet
  <2>6. ToSet(agents) \cup ToSet(more) \subseteq ToSet(agents')
    BY <2>1, <2>3, <2>4 DEF ToSet
  <2> QED
    BY <2>5, <2>6
<1>6. Consistent(ToSet(agents'))
  <2>1. \A a \in ToSet(agents) : a.mapping = "device_mappings"
    BY <1>3 DEF ToSet
  <2>2. \A a \in ToSet(more) : a.mapping = "bridge_mappings"
    BY <1>2 DEF ToSet
  <2> QED
    BY <1>2, <1>3, <1>5, <2>1, <2>2 DEF Consistent
<1>7. AgentsInv'
  BY <1>3, <1>4, <1>6 DEF AgentsInv
<1>8. MergeInv'
  <2>1. merged = 0 /\ DOMAIN result = {}
    BY <1>3 DEF InventoryInv, MergeInv
  <2> QED
    BY <1>4, <1>3, <2>1 DEF InventoryInv, MergeInv
<1>9. PickedInv'
  BY <1>3 DEF InventoryInv, PickedInv
<1> QED
  BY <1>7, <1>8, <1>9 DEF InventoryInv

\* One agent is merged into the dict.
LEMMA MergeStep ==
  ASSUME InventoryInv, step = "merge", merged < Len(agents), merged' = merged + 1,
         result' = Merge(result, agents[merged']), UNCHANGED <<step, agents, host>>
  PROVE  InventoryInv'
<1> DEFINE a == agents[merged + 1]
           short == ShortName[a.host]
           MergedNow(s, m, v) ==
               \E n \in 1..merged + 1 : /\ ShortName[agents[n].host] = s
                                        /\ agents[n].mapping = m /\ agents[n].values = v
<1>1. /\ merged \in Nat /\ Len(agents) \in Nat /\ merged + 1 \in 1..Len(agents)
      /\ agents \in Seq(Reported)
  BY DEF InventoryInv, AgentsInv, MergeInv
<1>2. /\ result = [s \in DOMAIN result |-> result[s]]
      /\ \A s \in DOMAIN result :
            result[s] = [host |-> result[s].host, configurations |-> result[s].configurations]
  BY DEF InventoryInv, MergeInv
<1>3. /\ DOMAIN result' = DOMAIN result \cup {short}
      /\ result' = [s \in DOMAIN result' |-> result'[s]]
      /\ \A s \in DOMAIN result \ {short} : result'[s] = result[s]
      /\ result'[short] = [host |-> result'[short].host,
                           configurations |-> result'[short].configurations]
      /\ ShortName[result'[short].host] = short
      /\ a.mapping \in DOMAIN result'[short].configurations
      /\ result'[short].configurations[a.mapping] = a.values
      /\ \A m \in DOMAIN result'[short].configurations \ {a.mapping} :
            /\ short \in DOMAIN result /\ m \in DOMAIN result[short].configurations
            /\ result'[short].configurations[m] = result[short].configurations[m]
      /\ short \in DOMAIN result =>
            DOMAIN result[short].configurations \subseteq DOMAIN result'[short].configurations
  <2>1. CASE short \in DOMAIN result
    <3> DEFINE old == result[short].configurations
               new == With(old, a.mapping, a.values)
    <3>1. result' = [result EXCEPT ![short].configurations = new]
      BY <2>1 DEF Merge
    <3>2. /\ DOMAIN new = DOMAIN old \cup {a.mapping} /\ new[a.mapping] = a.values
          /\ \A m \in DOMAIN old \ {a.mapping} : new[m] = old[m]
      BY DEF With
    <3> HIDE DEF new
    <3>3. /\ result'[short] = [host |-> result[short].host, configurations |-> new]
          /\ DOMAIN result' = DOMAIN result
          /\ result' = [s \in DOMAIN result' |-> result'[s]]
          /\ \A s \in DOMAIN result \ {short} : result'[s] = result[s]
      BY <1>2, <2>1, <3>1
    <3>4. ShortName[result[short].host] = short
      BY <2>1 DEF InventoryInv, MergeInv
    <3>5. result'[short].configurations = new /\ result'[short].host = result[short].host
      BY <3>3
    <3> HIDE DEF a, short
    <3> QED
      BY <2>1, <3>2, <3>3, <3>4, <3>5
  <2>2. CASE short \notin DOMAIN result
    <3> DEFINE new == With(<<>>, a.mapping, a.values)
               entry == [host |-> a.host, configurations |-> new]
    <3>1. result' = With(result, short, entry)
      BY <2>2 DEF Merge
    <3>2. DOMAIN new = {a.mapping} /\ new[a.mapping] = a.values
      BY DEF With
    <3>3. /\ DOMAIN result' = DOMAIN result \cup {short} /\ result'[short] = entry
          /\ \A s \in DOMAIN result \ {short} : result'[s] = result[s]
          /\ result' = [s \in DOMAIN result' |-> result'[s]]
      BY <3>1 DEF With
    <3> QED
      BY <2>2, <3>2, <3>3
  <2> QED
    BY <2>1, <2>2
<1>4. ASSUME NEW s, NEW m, NEW v, Merged(s, m, v) PROVE MergedNow(s, m, v)
  BY <1>1, <1>4 DEF Merged
<1>5. MergedNow(short, a.mapping, a.values)
  BY <1>1
<1>6. ASSUME NEW s \in DOMAIN result'
      PROVE  /\ result'[s] = [host |-> result'[s].host,
                              configurations |-> result'[s].configurations]
             /\ ShortName[result'[s].host] = s
  BY <1>2, <1>3, <1>6 DEF InventoryInv, MergeInv
<1>7. ASSUME NEW s \in DOMAIN result', NEW m \in DOMAIN result'[s].configurations
      PROVE  MergedNow(s, m, result'[s].configurations[m])
  <2>1. CASE s # short
    <3>1. s \in DOMAIN result /\ result'[s] = result[s]
      BY <1>3, <2>1
    <3>2. Merged(s, m, result[s].configurations[m])
      BY <1>7, <3>1 DEF InventoryInv, MergeInv
    <3> QED
      BY <3>1, <3>2, <1>4
  <2>2. CASE s = short /\ m = a.mapping
    BY <1>3, <1>5, <2>2
  <2>3. CASE s = short /\ m # a.mapping
    <3>1. /\ short \in DOMAIN result /\ m \in DOMAIN result[short].configurations
          /\ result'[short].configurations[m] = result[short].configurations[m]
      BY <1>3, <1>7, <2>3
    <3>2. Merged(short, m, result[short].configurations[m])
      BY <3>1 DEF InventoryInv, MergeInv
    <3> QED
      BY <2>3, <3>1, <3>2, <1>4
  <2> QED
    BY <2>1, <2>2, <2>3
<1>8. ASSUME NEW n \in 1..merged'
      PROVE  /\ ShortName[agents[n].host] \in DOMAIN result'
             /\ agents[n].mapping \in DOMAIN result'[ShortName[agents[n].host]].configurations
  <2>1. CASE n = merged + 1
    BY <1>3, <2>1
  <2>2. CASE n \in 1..merged
    <3>1. /\ ShortName[agents[n].host] \in DOMAIN result
          /\ agents[n].mapping \in DOMAIN result[ShortName[agents[n].host]].configurations
      BY <2>2 DEF InventoryInv, MergeInv
    <3> QED
      BY <1>3, <3>1
  <2> QED
    BY <1>1, <2>1, <2>2
<1>9. MergeInv'
  <2>1. \A s \in DOMAIN result' : \A m \in DOMAIN result'[s].configurations :
            \E n \in 1..merged' : /\ ShortName[agents'[n].host] = s
                                  /\ agents'[n].mapping = m
                                  /\ agents'[n].values = result'[s].configurations[m]
    BY <1>7
  <2> HIDE DEF a, short
  <2> QED
    BY <1>1, <1>3, <1>6, <1>8, <2>1 DEF MergeInv, Merged
<1>10. AgentsInv' /\ PickedInv'
  BY DEF InventoryInv, AgentsInv, PickedInv
<1> QED
  BY <1>9, <1>10 DEF InventoryInv

LEMMA NextInventory == InventoryInv /\ Next => InventoryInv'
<1> SUFFICES ASSUME InventoryInv, Next PROVE InventoryInv'
  OBVIOUS
<1>1. CASE ListNic \/ ListOvs
  BY <1>1, ListNicStep, ListOvsStep
<1>2. CASE MergeAgents
  <2>1. CASE merged < Len(agents)
    BY <1>2, <2>1, MergeStep DEF MergeAgents, InventoryInv, AgentsInv
  <2>2. CASE merged = Len(agents) /\ step' = "hosts" /\ UNCHANGED <<merged, result>>
    BY <1>2, <2>2 DEF MergeAgents, InventoryInv, AgentsInv, MergeInv, Merged, PickedInv,
                      Consistent, ToSet
  <2> QED
    BY <1>2, <2>1, <2>2 DEF MergeAgents
<1>3. CASE OvsChanges
  BY <1>3, AgentsKept DEF OvsChanges, play, InventoryInv, PickedInv
<1>4. CASE PicksHost
  BY <1>4, AgentsKept DEF PicksHost, InventoryInv, PickedInv
<1>5. CASE NoHosts \/ SkipsOvs
  BY <1>5, AgentsKept DEF NoHosts, SkipsOvs, play, InventoryInv, PickedInv
<1>6. CASE ListBr \/ ListIfaces \/ GetIface
  BY <1>6, AgentsKept DEF ListBr, ListIfaces, GetIface, InventoryInv, PickedInv
<1>7. CASE NextBridge \/ DetectBonds \/ SetInterfaceList
  BY <1>7, AgentsKept DEF NextBridge, DetectBonds, SetInterfaceList, play, InventoryInv, PickedInv
<1>8. CASE Ended
  BY <1>8, AgentsKept DEF Ended, vars, play, InventoryInv, PickedInv
<1> QED
  BY <1>1, <1>2, <1>3, <1>4, <1>5, <1>6, <1>7, <1>8 DEF Next

-----------------------------------------------------------------------------
(* The query of OVS.                                                        *)

LEMMA InitQuery == Init => QueryInv
<1> SUFFICES ASSUME Init PROVE QueryInv
  OBVIOUS
<1>1. PortsInv
  BY DEF Init, PortsInv, Ports
<1>2. FoundInv /\ AwaitedInv /\ QuietInv /\ BondsInv /\ FailsOnChange
  BY DEF Init, FoundInv, AwaitedInv, QuietInv, BondsInv, FailsOnChange, Querying
<1> QED
  BY <1>1, <1>2 DEF QueryInv

\* The mappings of the host stay what they are.
LEMMA MappedKept ==
  UNCHANGED <<result, host>> =>
      Mapped' = Mapped /\ Conf("device_mappings")' = Conf("device_mappings")
  BY DEF Mapped, Conf

\* Before the query there is nothing to be kept.
LEMMA EarlyStep ==
  ASSUME InventoryInv, QueryInv, UNCHANGED <<ovs, ovs_topology>>,
         step \in {"nic", "ovs", "merge", "hosts"},
         \/ step' \in {"nic", "ovs", "merge", "hosts"}
         \/ step' = "failed" /\ host' = "none"
  PROVE  QueryInv'
<1>1. PortsInv'
  BY DEF QueryInv, PortsInv, ovs, Ports
<1>2. FoundInv' /\ AwaitedInv' /\ QuietInv' /\ BondsInv' /\ FailsOnChange'
  BY DEF QueryInv, FoundInv, AwaitedInv, QuietInv, BondsInv, FailsOnChange, Querying, ovs
<1> QED
  BY <1>1, <1>2 DEF QueryInv

LEMMA SkipsOvsStep ==
  ASSUME QueryInv, SkipsOvs
  PROVE  QueryInv'
<1>1. /\ step = "hosts" /\ step' = "list" /\ UNCHANGED <<ovs, play>>
      /\ DOMAIN ovs_topology = {} /\ always = {}
  BY DEF SkipsOvs, QueryInv, FoundInv
<1>2. PortsInv'
  BY <1>1 DEF QueryInv, PortsInv, ovs, Ports
<1>3. FoundInv' /\ AwaitedInv' /\ QuietInv' /\ BondsInv' /\ FailsOnChange'
  BY <1>1 DEF FoundInv, AwaitedInv, QuietInv, BondsInv, FailsOnChange, Querying, ovs, play
<1> QED
  BY <1>2, <1>3 DEF QueryInv

\* What is a port by p was so some time, and what still is one was so all the time.
LEMMA PortsChange ==
  ASSUME PortsInv, NEW b \in SUBSET Bridges, NEW p \in [Interfaces -> Bridges \cup {NoBridge}],
         OvsIs(b, p), changes' \in Nat, \A i \in AllSlaves : i \in Interfaces => p[i] = NoBridge
  PROVE  PortsInv' /\ always' \subseteq always /\ ever \subseteq ever'
<1>1. /\ bridges' = b /\ port' = p
      /\ always' = always \cap Ports(p) /\ ever' = ever \cup Ports(p)
  BY DEF OvsIs
<1>2. /\ Ports(p) \subseteq (Interfaces \ AllSlaves) \X Bridges
      /\ \A x, y \in Ports(p) : x[1] = y[1] => x = y
  BY DEF Ports
<1>3. Ports(port)' = Ports(p)
  BY <1>1 DEF Ports
<1>4. \A x \in always', y \in ever' : x[1] = y[1] => x = y
  BY <1>1, <1>2 DEF PortsInv
<1> QED
  BY <1>1, <1>2, <1>3, <1>4 DEF PortsInv

LEMMA OvsStep ==
  ASSUME QueryInv, OvsChanges
  PROVE  QueryInv'
<1>1. /\ step \in {"bridges", "interfaces"} /\ changes' = changes + 1
      /\ UNCHANGED <<step, play>> /\ changes \in Nat
      /\ \A i \in AllSlaves : i \in Interfaces => port[i] = NoBridge
  <2>1. \A i \in Interfaces : port[i] # NoBridge => <<i, port[i]>> \in Ports(port)
    BY DEF Ports
  <2>2. \A i \in Interfaces : port[i] # NoBridge => i \notin AllSlaves
    BY <2>1 DEF QueryInv, PortsInv
  <2> QED
    BY <2>2 DEF OvsChanges, QueryInv, PortsInv
<1>2. PICK b \in SUBSET Bridges, p \in [Interfaces -> Bridges \cup {NoBridge}] :
         OvsIs(b, p) /\ \A i \in AllSlaves : i \in Interfaces => p[i] = NoBridge
  <2>t. bridges \subseteq Bridges /\ port \in [Interfaces -> Bridges \cup {NoBridge}]
    BY DEF QueryInv, PortsInv
  <2>1. ASSUME NEW c \in bridges,
               OvsIs(bridges \ {c}, [i \in Interfaces |-> IF port[i] = c THEN NoBridge
                                                                       ELSE port[i]])
        PROVE  \E b \in SUBSET Bridges, p \in [Interfaces -> Bridges \cup {NoBridge}] :
                  OvsIs(b, p) /\ \A i \in AllSlaves : i \in Interfaces => p[i] = NoBridge
    <3> DEFINE p == [i \in Interfaces |-> IF port[i] = c THEN NoBridge ELSE port[i]]
    <3>1. /\ p \in [Interfaces -> Bridges \cup {NoBridge}]
          /\ \A i \in AllSlaves : i \in Interfaces => p[i] = NoBridge
      BY <1>1, <2>t
    <3>2. OvsIs(bridges \ {c}, p) /\ bridges \ {c} \in SUBSET Bridges
      BY <2>1, <2>t
    <3> HIDE DEF p
    <3> QED
      BY <3>1, <3>2
  <2>2. ASSUME NEW i \in Interfaces \ AllSlaves, NEW c \in bridges \cup {NoBridge},
               OvsIs(bridges, [port EXCEPT ![i] = c])
        PROVE  \E b \in SUBSET Bridges, p \in [Interfaces -> Bridges \cup {NoBridge}] :
                  OvsIs(b, p) /\ \A j \in AllSlaves : j \in Interfaces => p[j] = NoBridge
    <3> DEFINE p == [port EXCEPT ![i] = c]
    <3>1. /\ p \in [Interfaces -> Bridges \cup {NoBridge}]
          /\ \A j \in AllSlaves : j \in Interfaces => p[j] = NoBridge
      BY <1>1, <2>t
    <3>2. OvsIs(bridges, p) /\ bridges \in SUBSET Bridges
      BY <2>2, <2>t
    <3> HIDE DEF p
    <3> QED
      BY <3>1, <3>2
  <2> QED
    BY <2>1, <2>2 DEF OvsChanges, AllSlaves
<1>3. PortsInv' /\ always' \subseteq always /\ ever \subseteq ever'
  BY <1>1, <1>2, PortsChange DEF QueryInv
<1>4. FoundInv'
  BY <1>1, <1>3, MappedKept DEF QueryInv, FoundInv, Querying, play
<1>5. AwaitedInv'
  BY <1>1, <1>3, MappedKept DEF QueryInv, AwaitedInv, Querying, play
<1>6. QuietInv' /\ BondsInv' /\ FailsOnChange'
  BY <1>1 DEF QuietInv, BondsInv, FailsOnChange
<1> QED
  BY <1>3, <1>4, <1>5, <1>6 DEF QueryInv

\* The module connects: every bridge that is asked for is there.
LEMMA ListBrStep ==
  ASSUME QueryInv, ListBr
  PROVE  QueryInv'
<1>1. /\ step = "hosts" /\ step' = "bridges" /\ bridges' \subseteq Bridges /\ changes' = 0
      /\ port' \in [Interfaces -> bridges' \cup {NoBridge}]
      /\ \A i \in Interfaces : port'[i] # NoBridge => i \notin AllSlaves
      /\ always' = Ports(port') /\ ever' = Ports(port')
      /\ toList' = bridges' \cap Mapped
      /\ UNCHANGED <<result, host, toGet, current, ovs_topology>>
      /\ DOMAIN ovs_topology = {}
  BY DEF ListBr, AllSlaves, Asked, Mapped, QueryInv, FoundInv
<1>2. /\ Ports(port') \subseteq (Interfaces \ AllSlaves) \X bridges'
      /\ \A x, y \in Ports(port') : x[1] = y[1] => x = y
  BY <1>1 DEF Ports
<1>3. PortsInv'
  <2>1. port' \in [Interfaces -> Bridges \cup {NoBridge}]
    BY <1>1
  <2>2. Ports(port)' = Ports(port')
    BY DEF Ports
  <2>3. ever' \subseteq (Interfaces \ AllSlaves) \X Bridges
    BY <1>1, <1>2
  <2> QED
    BY <1>1, <1>2, <2>1, <2>2, <2>3 DEF PortsInv
<1>4. FoundInv'
  BY <1>1, MappedKept DEF FoundInv, Querying
<1>5. AwaitedInv'
  <2>1. \A pair \in always' : pair[2] \in bridges'
    BY <1>1, <1>2
  <2> QED
    BY <1>1, <2>1, MappedKept DEF AwaitedInv
<1>6. QuietInv' /\ BondsInv' /\ FailsOnChange'
  BY <1>1 DEF QuietInv, BondsInv, FailsOnChange
<1> QED
  BY <1>3, <1>4, <1>5, <1>6 DEF QueryInv

\* Steps of the query that leave OVS alone.
LEMMA PortsKept ==
  ASSUME PortsInv, UNCHANGED ovs
  PROVE  PortsInv'
  BY DEF PortsInv, ovs, Ports

LEMMA ListIfacesStep ==
  ASSUME QueryInv, ListIfaces
  PROVE  QueryInv'
<1>1. PICK b \in toList :
         /\ step = "bridges" /\ current' = b /\ toList' = toList \ {b}
         /\ toGet' = {i \in Interfaces : port[i] = b}
         /\ step' = IF b \in bridges THEN "interfaces" ELSE "failed"
         /\ UNCHANGED <<ovs, result, host, ovs_topology>>
  BY DEF ListIfaces
<1>2. b \in Mapped /\ b # NoBridge /\ toList' \subseteq Bridges \cap Mapped
  BY <1>1, InventoryAssumption DEF QueryInv, FoundInv, Querying
<1>3. PortsInv'
  BY <1>1, PortsKept DEF QueryInv
<1>4. \A i \in toGet' : <<i, b>> \in ever
  BY <1>1, <1>2 DEF QueryInv, PortsInv, Ports
<1>5. FoundInv'
  BY <1>1, <1>2, <1>4, MappedKept DEF QueryInv, FoundInv, Querying, ovs
<1>6. AwaitedInv'
  <2> SUFFICES ASSUME b \in bridges, NEW pair \in always, pair[2] \in Mapped
               PROVE  \/ pair[2] \in toList'
                      \/ current' = pair[2] /\ pair[1] \in toGet'
                      \/ pair[1] \in DOMAIN ovs_topology
    BY <1>1, MappedKept DEF AwaitedInv, Querying, ovs
  <2>1. pair[2] \in toList \/ pair[1] \in DOMAIN ovs_topology
    BY <1>1 DEF QueryInv, AwaitedInv, Querying
  <2>2. CASE pair[2] = b
    <3>1. pair[1] \in Interfaces /\ port[pair[1]] = b
      BY <2>2 DEF QueryInv, PortsInv, Ports
    <3> QED
      BY <1>1, <2>2, <3>1
  <2> QED
    BY <1>1, <2>1, <2>2
<1>7. QuietInv'
  BY <1>1, <1>2 DEF QueryInv, QuietInv, ovs
<1>8. BondsInv' /\ FailsOnChange'
  BY <1>1 DEF QueryInv, PortsInv, QuietInv, BondsInv, FailsOnChange, ovs
<1> QED
  BY <1>3, <1>5, <1>6, <1>7, <1>8 DEF QueryInv

LEMMA GetIfaceStep ==
  ASSUME QueryInv, GetIface
  PROVE  QueryInv'
<1>1. PICK i \in toGet :
         /\ step = "interfaces" /\ UNCHANGED <<ovs, result, host, toList, current>>
         /\ \/ /\ port[i] = NoBridge /\ step' = "failed"
               /\ UNCHANGED <<toGet, ovs_topology>>
            \/ /\ step' = "interfaces" /\ toGet' = toGet \ {i}
               /\ ovs_topology' = With(ovs_topology, i, current)
  BY DEF GetIface
<1>2. current \in Mapped /\ <<i, current>> \in ever
  BY <1>1 DEF QueryInv, FoundInv
<1>3. PortsInv'
  BY <1>1, PortsKept DEF QueryInv
<1>4. CASE port[i] = NoBridge /\ step' = "failed"
  <2>1. changes > 0
    BY <1>1, <1>4 DEF QueryInv, PortsInv, QuietInv
  <2>2. FoundInv' /\ AwaitedInv' /\ QuietInv' /\ BondsInv' /\ FailsOnChange'
    BY <1>1, <1>4, <2>1 DEF FoundInv, AwaitedInv, QuietInv, BondsInv, FailsOnChange, Querying,
                            ovs
  <2> QED
    BY <1>3, <2>2 DEF QueryInv
<1>5. CASE /\ step' = "interfaces" /\ toGet' = toGet \ {i}
           /\ ovs_topology' = With(ovs_topology, i, current)
  <2>1. /\ DOMAIN ovs_topology' = DOMAIN ovs_topology \cup {i}
        /\ ovs_topology'[i] = current
        /\ \A j \in DOMAIN ovs_topology \ {i} : ovs_topology'[j] = ovs_topology[j]
    BY <1>5 DEF With
  <2>2. FoundInv'
    BY <1>1, <1>2, <1>5, <2>1, MappedKept DEF QueryInv, FoundInv, Querying, ovs
  <2>3. AwaitedInv'
    BY <1>1, <1>5, <2>1, MappedKept DEF QueryInv, AwaitedInv, Querying, ovs
  <2>4. QuietInv' /\ BondsInv' /\ FailsOnChange'
    BY <1>1, <1>5 DEF QueryInv, QuietInv, BondsInv, FailsOnChange, ovs
  <2> QED
    BY <1>3, <2>2, <2>3, <2>4 DEF QueryInv
<1> QED
  BY <1>1, <1>4, <1>5

LEMMA NextBridgeStep ==
  ASSUME QueryInv, NextBridge
  PROVE  QueryInv'
<1>1. /\ \/ step = "interfaces" /\ toGet = {}
         \/ step = "bridges" /\ toList = {}
      /\ step' = IF toList = {} THEN "bonds" ELSE "bridges"
      /\ UNCHANGED <<ovs, result, host, toList, toGet, current, ovs_topology>>
  BY DEF NextBridge, play
<1>2. PortsInv'
  BY <1>1, PortsKept DEF QueryInv
<1>3. FoundInv'
  BY <1>1, MappedKept DEF QueryInv, FoundInv, Querying, ovs
<1>4. AwaitedInv'
  BY <1>1, MappedKept DEF QueryInv, AwaitedInv, Querying, ovs
<1>5. QuietInv' /\ BondsInv' /\ FailsOnChange'
  BY <1>1 DEF QueryInv, QuietInv, BondsInv, FailsOnChange, ovs
<1> QED
  BY <1>2, <1>3, <1>4, <1>5 DEF QueryInv

\* Slaves are added with the bridge of their bond.  No slave is a port, so it takes
\* nobody's place; it has one bond, so it has one bridge.
LEMMA DetectBondsStep ==
  ASSUME QueryInv, DetectBonds
  PROVE  QueryInv'
<1> DEFINE masters(s) == {i \in DOMAIN ovs_topology : s \in Slaves[i]}
           slaves == {s \in Interfaces : masters(s) # {}}
           all == WithSlaves(ovs_topology)
<1>1. /\ step = "bonds" /\ step' = "list"
      /\ UNCHANGED <<ovs, result, host, toList, toGet, current>>
      /\ DOMAIN ovs_topology' = DOMAIN all \cap Matching
      /\ \A i \in DOMAIN all \cap Matching : ovs_topology'[i] = all[i]
  BY DEF DetectBonds, Restrict
<1>2. /\ DOMAIN all = slaves \cup DOMAIN ovs_topology
      /\ \A i \in slaves : all[i] = ovs_topology[CHOOSE m \in masters(i) : TRUE]
      /\ \A i \in DOMAIN ovs_topology \ slaves : all[i] = ovs_topology[i]
  BY DEF WithSlaves
<1>3. /\ \A i \in DOMAIN ovs_topology :
            ovs_topology[i] \in Mapped /\ <<i, ovs_topology[i]>> \in ever
      /\ \A pair \in always : pair[2] \in Mapped => pair[1] \in DOMAIN ovs_topology
      /\ toList = {}
  BY <1>1 DEF QueryInv, FoundInv, AwaitedInv, Querying
<1>4. /\ ever \subseteq (Interfaces \ AllSlaves) \X Bridges
      /\ always \subseteq ever /\ \A p \in always, q \in ever : p[1] = q[1] => p = q
  BY DEF QueryInv, PortsInv
<1>5. DOMAIN ovs_topology \subseteq Interfaces \ AllSlaves
  BY <1>3, <1>4
<1>6. ASSUME NEW s \in slaves
      PROVE  \E m \in DOMAIN ovs_topology : s \in Slaves[m] /\ all[s] = ovs_topology[m]
  <2> DEFINE m == CHOOSE n \in masters(s) : TRUE
  <2>1. m \in masters(s)
    BY <1>6
  <2> QED
    BY <1>2, <1>6, <2>1
<1>7. \A m \in DOMAIN ovs_topology : \A s \in Slaves[m] : s \in AllSlaves /\ s \in slaves
  BY <1>5, InventoryAssumption DEF AllSlaves, Range
<1>8. \A m \in DOMAIN ovs_topology : \A s \in Slaves[m] : all[s] = ovs_topology[m]
  <2> SUFFICES ASSUME NEW m \in DOMAIN ovs_topology, NEW s \in Slaves[m]
               PROVE  all[s] = ovs_topology[m]
    OBVIOUS
  <2>1. PICK n \in DOMAIN ovs_topology : s \in Slaves[n] /\ all[s] = ovs_topology[n]
    BY <1>6, <1>7
  <2>2. m = n
    <3>1. m \in Interfaces /\ n \in Interfaces
      BY <1>5
    <3>2. Slaves[m] \cap Slaves[n] # {}
      BY <2>1
    <3> QED
      BY <3>1, <3>2, InventoryAssumption
  <2> QED
    BY <2>1, <2>2
<1>9. \A i \in DOMAIN ovs_topology : i \notin slaves
  <2>1. \A s \in slaves : s \in AllSlaves
    BY <1>6, <1>7
  <2> QED
    BY <1>5, <2>1
<1> HIDE DEF masters, slaves, all
<1>10. ASSUME NEW pair \in always, pair[2] \in Mapped,
              NEW i \in ({pair[1]} \cup Slaves[pair[1]]) \cap Matching
       PROVE  i \in DOMAIN ovs_topology' /\ ovs_topology'[i] = pair[2]
  <2>1. pair[1] \in DOMAIN ovs_topology
    BY <1>3, <1>10
  <2>2. ovs_topology[pair[1]] = pair[2]
    <3>1. <<pair[1], ovs_topology[pair[1]]>> \in ever
      BY <1>3, <2>1
    <3>2. pair = <<pair[1], ovs_topology[pair[1]]>>
      BY <1>4, <3>1
    <3> QED
      BY <3>2
  <2>3. i \in DOMAIN all /\ all[i] = pair[2]
    <3>1. CASE i = pair[1]
      BY <1>2, <1>9, <2>1, <2>2, <3>1
    <3>2. CASE i \in Slaves[pair[1]]
      BY <1>2, <1>7, <1>8, <2>1, <2>2, <3>2
    <3> QED
      BY <3>1, <3>2
  <2> QED
    BY <1>1, <2>3
<1>11. ASSUME NEW i \in DOMAIN ovs_topology'
       PROVE  /\ i \in Matching /\ ovs_topology'[i] \in Mapped
              /\ \E pair \in ever :
                    pair[2] = ovs_topology'[i] /\ i \in {pair[1]} \cup Slaves[pair[1]]
  <2>1. i \in Matching /\ i \in DOMAIN all /\ ovs_topology'[i] = all[i]
    BY <1>1, <1>11
  <2>2. PICK m \in DOMAIN ovs_topology :
           all[i] = ovs_topology[m] /\ i \in {m} \cup Slaves[m]
    <3>1. CASE i \in slaves
      BY <1>6, <3>1
    <3>2. CASE i \notin slaves
      BY <1>2, <2>1, <3>2
    <3> QED
      BY <3>1, <3>2
  <2>3. ovs_topology[m] \in Mapped /\ <<m, ovs_topology[m]>> \in ever
    BY <1>3
  <2> QED
    BY <2>1, <2>2, <2>3
<1>12. PortsInv'
  BY <1>1, PortsKept DEF QueryInv
<1>13. FoundInv' /\ AwaitedInv' /\ QuietInv' /\ FailsOnChange'
  BY <1>1 DEF FoundInv, AwaitedInv, QuietInv, FailsOnChange, Querying
<1>14. BondsInv'
  <2>1. Mapped' = Mapped /\ always' = always /\ ever' = ever
    BY <1>1, MappedKept DEF ovs
  <2> QED
    BY <1>1, <1>10, <1>11, <2>1 DEF BondsInv
<1> QED
  BY <1>12, <1>13, <1>14 DEF QueryInv

LEMMA SetInterfaceListStep ==
  ASSUME QueryInv, SetInterfaceList
  PROVE  QueryInv'
<1>1. /\ step = "list" /\ step' = "ready"
      /\ UNCHANGED <<ovs, result, host, toList, toGet, current, ovs_topology>>
      /\ interface_list' = Conf("device_mappings") \cup DOMAIN ovs_topology
  BY DEF SetInterfaceList
<1>2. PortsInv'
  BY <1>1, PortsKept DEF QueryInv
<1>3. FoundInv' /\ AwaitedInv' /\ QuietInv' /\ FailsOnChange'
  BY <1>1 DEF FoundInv, AwaitedInv, QuietInv, FailsOnChange, Querying
<1>4. BondsInv'
  BY <1>1, MappedKept DEF QueryInv, BondsInv, ovs
<1> QED
  BY <1>2, <1>3, <1>4 DEF QueryInv

LEMMA QueryStutter == QueryInv /\ UNCHANGED vars => QueryInv'
<1> SUFFICES ASSUME QueryInv, UNCHANGED vars PROVE QueryInv'
  OBVIOUS
<1>1. /\ UNCHANGED <<bridges, port, changes, always, ever, step, result, host, toList, toGet,
                     current, ovs_topology, interface_list>>
      /\ Mapped' = Mapped /\ Conf("device_mappings")' = Conf("device_mappings")
  BY MappedKept DEF vars, ovs, play
<1>2. PortsInv'
  BY <1>1, PortsKept DEF QueryInv, ovs
<1>3. FoundInv' /\ AwaitedInv'
  BY <1>1 DEF QueryInv, FoundInv, AwaitedInv, Querying
<1>4. QuietInv' /\ BondsInv' /\ FailsOnChange'
  BY <1>1 DEF QueryInv, QuietInv, BondsInv, FailsOnChange
<1> QED
  BY <1>2, <1>3, <1>4 DEF QueryInv

LEMMA NextQuery == InventoryInv /\ QueryInv /\ Next => QueryInv'
<1> SUFFICES ASSUME InventoryInv, QueryInv, Next PROVE QueryInv'
  OBVIOUS
<1>1. CASE ListNic \/ ListOvs \/ MergeAgents \/ PicksHost
  BY <1>1, EarlyStep DEF ListNic, ListOvs, MergeAgents, PicksHost
<1>2. CASE NoHosts
  <2>1. host = "none"
    BY <1>2 DEF NoHosts, InventoryInv, PickedInv
  <2> QED
    BY <1>2, <2>1, EarlyStep DEF NoHosts, play
<1>3. CASE OvsChanges \/ SkipsOvs \/ ListBr \/ ListIfaces
  BY <1>3, OvsStep, SkipsOvsStep, ListBrStep, ListIfacesStep
<1>4. CASE GetIface \/ NextBridge \/ DetectBonds \/ SetInterfaceList
  BY <1>4, GetIfaceStep, NextBridgeStep, DetectBondsStep, SetInterfaceListStep
<1>5. CASE Ended
  BY <1>5, QueryStutter DEF Ended
<1> QED
  BY <1>1, <1>2, <1>3, <1>4, <1>5 DEF Next

-----------------------------------------------------------------------------
(* The two modules.                                                         *)

LEMMA InventoryStutter == InventoryInv /\ UNCHANGED vars => InventoryInv'
<1> SUFFICES ASSUME InventoryInv, UNCHANGED vars PROVE InventoryInv'
  OBVIOUS
<1>1. UNCHANGED <<step, agents, merged, result, host>>
  BY DEF vars, play
<1>2. AgentsInv' /\ PickedInv'
  BY <1>1 DEF InventoryInv, AgentsInv, PickedInv, Consistent, ToSet
<1>3. MergeInv'
  BY <1>1 DEF InventoryInv, MergeInv, Merged
<1> QED
  BY <1>2, <1>3 DEF InventoryInv

\* A mapping of the host is one of its agents'.
LEMMA ConfOfAgent ==
  ASSUME InventoryInv, host # "none", NEW m, m \in DOMAIN result[host].configurations
  PROVE  Merged(host, m, result[host].configurations[m])
  BY DEF InventoryInv, PickedInv, MergeInv

\* Device mappings and ports are interfaces.
LEMMA ListOfInterfaces ==
  ASSUME InventoryInv, QueryInv, step = "ready"
  PROVE  interface_list \subseteq Interfaces
<1>1. interface_list = Conf("device_mappings") \cup DOMAIN ovs_topology
  BY DEF QueryInv, BondsInv
<1>2. DOMAIN ovs_topology \subseteq Interfaces
  BY InventoryAssumption DEF QueryInv, BondsInv
<1>3. Conf("device_mappings") \subseteq Interfaces
  <2>1. CASE "device_mappings" \in DOMAIN result[host].configurations
    <3>1. host # "none"
      BY DEF InventoryInv, PickedInv
    <3>2. PICK n \in 1..merged :
             /\ agents[n].mapping = "device_mappings"
             /\ agents[n].values = result[host].configurations["device_mappings"]
      BY <2>1, <3>1, ConfOfAgent DEF Merged
    <3>3. agents[n] \in Reported
      BY DEF InventoryInv, AgentsInv, MergeInv
    <3>4. agents[n].values \subseteq Interfaces
      BY <3>2, <3>3, InventoryAssumption DEF Agent
    <3> QED
      BY <2>1, <3>2, <3>4 DEF Conf
  <2>2. CASE "device_mappings" \notin DOMAIN result[host].configurations
    BY <2>2 DEF Conf
  <2> QED
    BY <2>1, <2>2
<1> QED
  BY <1>1, <1>2, <1>3

LEMMA InitHost == HostInit => HInv
<1> SUFFICES ASSUME HostInit PROVE HInv
  OBVIOUS
<1>1. InventoryInv /\ QueryInv
  BY InitInventory, InitQuery DEF HostInit
<1>2. StageInv /\ EntriesInv
  BY DEF HostInit, StageInv, EntriesInv
<1>3. VfsInv
  BY DEF HostInit, VfsInv
<1>4. BlameJustified
  BY <1>1 DEF HostInit, BlameJustified, QueryInv
<1> QED
  BY <1>1, <1>2, <1>3, <1>4 DEF HInv

LEMMA FindsInterfacesStep ==
  ASSUME HInv, FindsInterfaces
  PROVE  HInv'
<1>1. /\ stage = "inventory" /\ Next
      /\ UNCHANGED <<stage, verdict, open, vfs, resizes, listed, vfinfo, packet, todo,
                     entries, culprit>>
  BY DEF FindsInterfaces, capture, sysfs, report
<1>2. InventoryInv' /\ QueryInv'
  BY <1>1, NextInventory, NextQuery DEF HInv
<1>3. /\ DOMAIN vfinfo = {} /\ DOMAIN listed = {} /\ DOMAIN entries = {}
      /\ todo = {} /\ culprit = {} /\ resizes = 0
  BY <1>1 DEF HInv, StageInv
<1>4. StageInv' /\ EntriesInv'
  BY <1>1, <1>3 DEF StageInv, EntriesInv
<1>5. VfsInv'
  BY <1>1 DEF HInv, VfsInv
<1>6. BlameJustified'
  BY <1>1, <1>2, <1>3 DEF BlameJustified, QueryInv
<1> QED
  BY <1>2, <1>4, <1>5, <1>6 DEF HInv

\* Once the interfaces are known the inventory is done.
LEMMA LaterKept ==
  ASSUME HInv, UNCHANGED vars
  PROVE  /\ InventoryInv' /\ QueryInv' /\ FailsOnChange'
         /\ UNCHANGED <<step, interface_list, ovs_topology>>
         /\ \A i : Bridge(i)' = Bridge(i)
<1>1. InventoryInv' /\ QueryInv'
  BY InventoryStutter, QueryStutter DEF HInv
<1>2. UNCHANGED <<step, interface_list, ovs_topology>>
  BY DEF vars, play
<1> QED
  BY <1>1, <1>2 DEF QueryInv, Bridge

\* The capture begins, or fails before any function is read.
LEMMA CapturesStep ==
  ASSUME HInv, Captures \/ CaptureFails
  PROVE  HInv'
<1>1. /\ step = "ready" /\ stage \in {"inventory", "lldp"}
      /\ stage' \in {"crashed", "failed", "lldp"}
      /\ stage' = "failed" => MayHaveSink
      /\ UNCHANGED <<vars, verdict, open, vfs, resizes, listed, vfinfo, packet, todo,
                     entries, culprit>>
  BY DEF Captures, CaptureFails, Raises, capture, sysfs, report, HInv, StageInv
<1>2. /\ DOMAIN vfinfo = {} /\ DOMAIN listed = {} /\ DOMAIN entries = {}
      /\ todo = {} /\ culprit = {} /\ resizes = 0
  BY <1>1 DEF HInv, StageInv
<1>l. UNCHANGED <<step, interface_list>>
  BY <1>1, LaterKept
<1>3. StageInv' /\ EntriesInv'
  <2>1. StageInv'
    BY <1>1, <1>2, <1>l DEF StageInv
  <2>2. EntriesInv'
    BY <1>1, <1>2 DEF EntriesInv
  <2> QED
    BY <2>1, <2>2
<1>4. VfsInv'
  BY <1>1 DEF HInv, VfsInv
<1>5. BlameJustified'
  BY <1>1, <1>2, LaterKept DEF BlameJustified, MayHaveSink
<1> QED
  BY <1>1, <1>3, <1>4, <1>5, LaterKept DEF HInv

LEMMA LldpStep ==
  ASSUME HInv, Hears \/ CaptureEnds
  PROVE  HInv'
<1>1. /\ stage = "lldp" /\ stage' \in {"lldp", "vfs"}
      /\ UNCHANGED <<vars, resizes, listed, vfinfo, packet, todo, entries, culprit>>
      /\ \/ vfs' = vfs
         \/ /\ vfs' \in [Interfaces -> SUBSET VirtualFunctions]
            /\ \A i \in Interfaces \ Nics : vfs'[i] = {}
  BY DEF Hears, CaptureEnds, capture, sysfs, report
<1>2. /\ DOMAIN vfinfo = {} /\ DOMAIN listed = {} /\ DOMAIN entries = {}
      /\ todo = {} /\ culprit = {} /\ resizes = 0 /\ step = "ready"
  BY <1>1 DEF HInv, StageInv
<1>3. StageInv' /\ EntriesInv'
  BY <1>1, <1>2, LaterKept DEF StageInv, EntriesInv
<1>4. VfsInv'
  BY <1>1, <1>2 DEF HInv, VfsInv
<1>5. BlameJustified'
  BY <1>1, <1>2, LaterKept DEF BlameJustified
<1> QED
  BY <1>1, <1>3, <1>4, <1>5, LaterKept DEF HInv

LEMMA ResizesStep ==
  ASSUME HInv, Resizes
  PROVE  HInv'
<1>1. /\ stage = "vfs" /\ resizes' = resizes + 1
      /\ UNCHANGED <<vars, stage, verdict, open, listed, vfinfo, packet, todo, entries, culprit>>
      /\ \E i \in Nics, some \in SUBSET VirtualFunctions : vfs' = [vfs EXCEPT ![i] = some]
  BY DEF Resizes, capture, report
<1>2. DOMAIN entries = {} /\ todo = {} /\ culprit = {} /\ step = "ready" /\ resizes \in Nat
  BY <1>1 DEF HInv, StageInv, VfsInv
<1>3. StageInv' /\ EntriesInv'
  BY <1>1, <1>2, LaterKept DEF HInv, StageInv, EntriesInv
<1>4. VfsInv'
  <2>1. vfs' \in [Interfaces -> SUBSET VirtualFunctions] /\ \A i \in Interfaces \ Nics : vfs'[i] = {}
    BY <1>1 DEF HInv, VfsInv
  <2>2. resizes' \in Nat /\ resizes' # 0
    BY <1>1, <1>2
  <2> QED
    BY <1>1, <2>1, <2>2 DEF HInv, VfsInv
<1>5. BlameJustified'
  BY <1>1, <1>2, LaterKept DEF BlameJustified
<1> QED
  BY <1>1, <1>3, <1>4, <1>5, LaterKept DEF HInv

\* Steps of the reading of functions that sysfs does not change in.
LEMMA ReadingKept ==
  ASSUME HInv, stage = "vfs", stage' \in {"vfs", "crashed"}, culprit' # {} <=> stage' = "crashed",
         culprit' # {} => resizes > 0, DOMAIN vfinfo' \subseteq interface_list,
         UNCHANGED <<vars, verdict, open, vfs, resizes, packet, todo, entries>>, VfsInv'
  PROVE  HInv'
<1>1. DOMAIN entries = {} /\ todo = {} /\ step = "ready"
  BY DEF HInv, StageInv
<1>2. StageInv' /\ EntriesInv'
  BY <1>1, LaterKept DEF StageInv, EntriesInv
<1>3. BlameJustified'
  <2>1. culprit' # {} => ~(resizes' = 0)
    BY DEF HInv, VfsInv
  <2> QED
    BY <2>1, LaterKept DEF BlameJustified
<1> QED
  BY <1>2, <1>3, LaterKept DEF HInv

LEMMA ListVfsStep ==
  ASSUME HInv, ListVfs
  PROVE  HInv'
<1>1. PICK i \in interface_list \ DOMAIN vfinfo :
         /\ stage = "vfs" /\ listed = <<>>
         /\ listed' = [j \in {i} |-> vfs[i]] /\ vfinfo' = With(vfinfo, i, {})
         /\ UNCHANGED <<vars, stage, verdict, open, vfs, resizes, packet, todo, entries, culprit>>
  BY DEF ListVfs, capture, sysfs, report
<1>2. i \in Interfaces
  BY <1>1, ListOfInterfaces DEF HInv, StageInv
<1>3. /\ DOMAIN vfinfo' = DOMAIN vfinfo \cup {i} /\ vfinfo'[i] = {}
      /\ \A j \in DOMAIN vfinfo \ {i} : vfinfo'[j] = vfinfo[j]
  BY <1>1 DEF With
<1>4. DOMAIN listed' = {i} /\ listed'[i] = vfs[i] /\ DOMAIN listed = {}
  BY <1>1
<1>5. VfsInv'
  BY <1>1, <1>2, <1>3, <1>4 DEF HInv, VfsInv
<1> QED
  BY <1>1, <1>3, <1>5, ReadingKept DEF HInv, StageInv

LEMMA ReadVfStep ==
  ASSUME HInv, ReadVf
  PROVE  HInv'
<1>1. PICK i \in DOMAIN listed : \E v \in listed[i] :
         /\ listed' = [listed EXCEPT ![i] = @ \ {v}]
         /\ vfinfo' = [vfinfo EXCEPT ![i] = IF v \in vfs[i] THEN @ \cup {v} ELSE @]
  BY DEF ReadVf
<1>2. PICK v \in listed[i] :
         /\ listed' = [listed EXCEPT ![i] = @ \ {v}]
         /\ vfinfo' = [vfinfo EXCEPT ![i] = IF v \in vfs[i] THEN @ \cup {v} ELSE @]
  BY <1>1
<1>3. /\ stage = "vfs"
      /\ UNCHANGED <<vars, stage, verdict, open, vfs, resizes, packet, todo, entries, culprit>>
  BY DEF ReadVf, capture, sysfs, report
<1>4. DOMAIN listed \subseteq DOMAIN vfinfo
  BY DEF HInv, VfsInv
<1>5. /\ DOMAIN listed' = DOMAIN listed /\ DOMAIN vfinfo' = DOMAIN vfinfo
      /\ listed'[i] = listed[i] \ {v}
      /\ vfinfo'[i] = IF v \in vfs[i] THEN vfinfo[i] \cup {v} ELSE vfinfo[i]
      /\ \A j \in DOMAIN listed \ {i} : listed'[j] = listed[j]
      /\ \A j \in DOMAIN vfinfo \ {i} : vfinfo'[j] = vfinfo[j]
  BY <1>2, <1>4
<1>6. VfsInv'
  <2>1. i \in Nics
    BY <1>2 DEF HInv, VfsInv
  <2>2. resizes = 0 => vfs[i] = vfinfo'[i] \cup listed'[i]
    BY <1>2, <1>5 DEF HInv, VfsInv
  <2> QED
    BY <1>3, <1>4, <1>5, <2>1, <2>2 DEF HInv, VfsInv
<1> QED
  BY <1>3, <1>5, <1>6, ReadingKept DEF HInv, StageInv

LEMMA VfVanishesStep ==
  ASSUME HInv, VfVanishes
  PROVE  HInv'
<1>1. /\ stage = "vfs" /\ stage' = "crashed" /\ resizes > 0
      /\ culprit' # {}
      /\ UNCHANGED <<vars, verdict, open, vfs, resizes, listed, vfinfo, packet, todo, entries>>
  BY DEF VfVanishes, capture, sysfs
<1>2. VfsInv'
  BY <1>1 DEF HInv, VfsInv
<1> QED
  BY <1>1, <1>2, ReadingKept DEF HInv, StageInv

\* A device that is taken away counts as a change.
LEMMA DeviceVanishesStep ==
  ASSUME HInv, DeviceVanishes
  PROVE  HInv'
<1>1. PICK i \in interface_list \ DOMAIN vfinfo :
         /\ stage = "vfs" /\ stage' = "crashed" /\ resizes' = resizes + 1
         /\ vfs' = [vfs EXCEPT ![i] = {}] /\ culprit' = {i}
         /\ UNCHANGED <<vars, verdict, open, listed, vfinfo, packet, todo, entries>>
  BY DEF DeviceVanishes, capture
<1>2. /\ DOMAIN entries = {} /\ todo = {} /\ step = "ready"
      /\ resizes' \in Nat /\ resizes' # 0 /\ resizes' > 0
  BY <1>1 DEF HInv, StageInv, VfsInv
<1>3. StageInv' /\ EntriesInv'
  BY <1>1, <1>2, LaterKept DEF HInv, StageInv, EntriesInv
<1>4. VfsInv'
  <2>1. /\ vfs' \in [Interfaces -> SUBSET VirtualFunctions]
        /\ \A j \in Interfaces \ Nics : vfs'[j] = {}
    BY <1>1 DEF HInv, VfsInv
  <2> QED
    BY <1>1, <1>2, <2>1 DEF HInv, VfsInv
<1>5. BlameJustified'
  BY <1>1, <1>2, LaterKept DEF BlameJustified
<1> QED
  BY <1>1, <1>3, <1>4, <1>5, LaterKept DEF HInv

LEMMA VfsReadStep ==
  ASSUME HInv, VfsRead
  PROVE  HInv'
<1>1. PICK i \in DOMAIN listed :
         /\ listed[i] = {} /\ stage = "vfs" /\ listed' = <<>>
         /\ UNCHANGED <<vars, stage, verdict, open, vfs, resizes, vfinfo, packet, todo, entries,
                        culprit>>
  BY DEF VfsRead, capture, sysfs, report
<1>2. DOMAIN listed' = {} /\ DOMAIN listed = {i}
  BY <1>1 DEF HInv, VfsInv
<1>3. resizes = 0 => \A j \in DOMAIN vfinfo : vfs[j] = vfinfo[j]
  <2>1. resizes = 0 => vfs[i] = vfinfo[i] \cup listed[i]
    BY DEF HInv, VfsInv
  <2>2. resizes = 0 => vfs[i] = vfinfo[i]
    BY <1>1, <2>1
  <2> QED
    BY <1>2, <2>2 DEF HInv, VfsInv
<1>4. VfsInv'
  BY <1>1, <1>2, <1>3 DEF HInv, VfsInv
<1> QED
  BY <1>1, <1>4, ReadingKept DEF HInv, StageInv

LEMMA HandsOverStep ==
  ASSUME HInv, HandsOver
  PROVE  HInv'
<1>1. /\ stage = "vfs" /\ stage' = "topology" /\ DOMAIN listed = {}
      /\ DOMAIN vfinfo = interface_list /\ todo' = interface_list
      /\ UNCHANGED <<vars, verdict, open, vfs, resizes, listed, vfinfo, packet, entries, culprit>>
  BY DEF HandsOver, capture, sysfs
<1>2. DOMAIN entries = {} /\ culprit = {} /\ step = "ready"
  BY <1>1 DEF HInv, StageInv
<1>3. StageInv' /\ EntriesInv'
  BY <1>1, <1>2, LaterKept DEF HInv, StageInv, EntriesInv
<1>4. VfsInv'
  BY <1>1 DEF HInv, VfsInv
<1>5. BlameJustified'
  BY <1>1, <1>2, LaterKept DEF BlameJustified
<1> QED
  BY <1>1, <1>3, <1>4, <1>5, LaterKept DEF HInv

-----------------------------------------------------------------------------
(* The report.                                                              *)

\* What the loop over the interfaces leaves alone.
LEMMA LoopKept ==
  ASSUME HInv, stage = "topology",
         UNCHANGED <<vars, verdict, open, vfs, resizes, listed, vfinfo>>
  PROVE  /\ VfsInv' /\ step = "ready" /\ culprit = {}
         /\ todo \subseteq interface_list /\ DOMAIN entries = interface_list \ todo
         /\ DOMAIN vfinfo = interface_list /\ DOMAIN listed = {}
  BY DEF HInv, StageInv, VfsInv, EntriesInv

LEMMA ReportsStep ==
  ASSUME HInv, NEW i, Reports(i)
  PROVE  HInv'
<1>1. /\ stage = "topology" /\ i \in todo /\ packet' \in Lldp(i)
      /\ UNCHANGED <<vars, verdict, open, vfs, resizes, listed, vfinfo, stage, culprit>>
      /\ SwitchKnown(packet') /\ Valid(packet') /\ "name" \in packet'.tlvs
      /\ entries' = With(entries, i,
                     [neighbor |-> packet'.tlvs, bridge |-> Bridge(i), vfs |-> vfinfo[i]])
      /\ todo' = todo \ {i}
  BY DEF Reports, LooksAt, capture, sysfs
<1>2. /\ VfsInv' /\ step = "ready" /\ culprit = {}
      /\ todo \subseteq interface_list /\ DOMAIN entries = interface_list \ todo
      /\ DOMAIN vfinfo = interface_list /\ DOMAIN listed = {}
  BY <1>1, LoopKept
<1>3. verdict[i] = "heard"
  BY <1>1 DEF Lldp, SwitchKnown, NoPacket
<1>4. {"name", "ipv4", "port"} \subseteq packet'.tlvs
  BY <1>1 DEF Valid
<1>5. /\ DOMAIN entries' = DOMAIN entries \cup {i}
      /\ entries'[i] = [neighbor |-> packet'.tlvs, bridge |-> Bridge(i), vfs |-> vfinfo[i]]
      /\ \A j \in DOMAIN entries \ {i} : entries'[j] = entries[j]
  BY <1>1 DEF With
<1>6. EntriesInv'
  <2>1. UNCHANGED interface_list /\ \A j : Bridge(j)' = Bridge(j)
    BY <1>1, LaterKept
  <2>2. ASSUME NEW j \in DOMAIN entries'
        PROVE  /\ j \in interface_list
               /\ verdict[j] = "heard" /\ {"name", "ipv4", "port"} \subseteq entries'[j].neighbor
               /\ entries'[j].bridge = Bridge(j)
               /\ entries'[j].vfs = vfinfo[j]
    <3>1. CASE j = i
      BY <1>1, <1>2, <1>3, <1>4, <1>5, <3>1
    <3>2. CASE j \in DOMAIN entries \ {i}
      BY <1>5, <3>2 DEF HInv, EntriesInv
    <3> QED
      BY <1>5, <3>1, <3>2
  <2>3. DOMAIN entries' = interface_list \ todo'
    BY <1>1, <1>2, <1>5
  <2> QED
    BY <1>1, <1>2, <2>1, <2>2, <2>3 DEF EntriesInv
<1>7. StageInv' /\ BlameJustified'
  BY <1>1, <1>2, LaterKept DEF HInv, StageInv, BlameJustified
<1> QED
  BY <1>1, <1>2, <1>6, <1>7, LaterKept DEF HInv

\* The module gives up over an interface.
LEMMA GivesUpStep ==
  ASSUME HInv, NEW i, Fails(i) \/ Crashes(i)
  PROVE  HInv'
<1>1. /\ stage = "topology" /\ i \in todo /\ packet' \in Lldp(i)
      /\ UNCHANGED <<vars, verdict, open, vfs, resizes, listed, vfinfo, todo, entries>>
      /\ culprit' = {i} /\ stage' \in {"failed", "crashed"}
  BY DEF Fails, Crashes, LooksAt, capture, sysfs
<1>2. /\ VfsInv' /\ step = "ready" /\ culprit = {}
      /\ todo \subseteq interface_list /\ DOMAIN entries = interface_list \ todo
      /\ DOMAIN vfinfo = interface_list /\ DOMAIN listed = {}
  BY <1>1, LoopKept
<1>3. StageInv' /\ EntriesInv'
  BY <1>1, <1>2, LaterKept DEF HInv, StageInv, EntriesInv
<1>4. verdict[i] = "heard" =>
         ~(/\ packet'.desc \in {"Nokia", "NX-OS", "NCS-55"}
           /\ packet'.tlvs = {"name", "ipv4", "port"}
           /\ ~packet'.malformed)
  BY DEF Fails, Crashes, HasList, Rejected, SwitchKnown, Valid
<1>5. stage' = "crashed" =>
         \/ verdict[i] = "lost"
         \/ /\ verdict[i] = "heard"
            /\ \/ packet'.desc = "malformed" \/ packet'.malformed
               \/ "name" \notin packet'.tlvs
  <2>1. Fails(i) => stage' = "failed"
    BY DEF Fails
  <2>2. ASSUME Crashes(i), verdict[i] # "lost"
        PROVE  /\ verdict[i] = "heard"
               /\ \/ packet'.desc = "malformed" \/ packet'.malformed
                  \/ "name" \notin packet'.tlvs
    <3>1. /\ packet'.desc # "none"
          /\ \/ packet'.desc = "malformed" \/ packet'.malformed
             \/ "name" \notin packet'.tlvs
      BY <2>2 DEF Crashes, HasList, Rejected, SwitchKnown
    <3> QED
      BY <1>1, <3>1 DEF Lldp, NoPacket
  <2> QED
    BY <2>1, <2>2
<1>6. BlameJustified'
  BY <1>1, <1>4, <1>5, LaterKept DEF BlameJustified
<1> QED
  BY <1>1, <1>2, <1>3, <1>6, LaterKept DEF HInv

LEMMA ExitsStep ==
  ASSUME HInv, Exits
  PROVE  HInv'
<1>1. /\ stage = "topology" /\ todo = {} /\ stage' = "reported"
      /\ UNCHANGED <<vars, verdict, open, vfs, resizes, listed, vfinfo, packet, todo, entries,
                     culprit>>
  BY DEF Exits, capture, sysfs, report
<1>2. /\ VfsInv' /\ step = "ready" /\ culprit = {}
      /\ DOMAIN entries = interface_list \ todo
      /\ DOMAIN vfinfo = interface_list
  BY <1>1, LoopKept
<1>3. StageInv' /\ EntriesInv'
  BY <1>1, <1>2, LaterKept DEF HInv, StageInv, EntriesInv
<1>4. BlameJustified'
  BY <1>1, <1>2, LaterKept DEF BlameJustified
<1> QED
  BY <1>1, <1>2, <1>3, <1>4, LaterKept DEF HInv

LEMMA HostStutter == HInv /\ UNCHANGED hvars => HInv'
<1> SUFFICES ASSUME HInv, UNCHANGED hvars PROVE HInv'
  OBVIOUS
<1>1. UNCHANGED <<vars, stage, verdict, open, vfs, resizes, listed, vfinfo, packet, todo,
                  entries, culprit>>
  BY DEF hvars, capture, sysfs, report
<1>2. StageInv' /\ VfsInv' /\ EntriesInv'
  BY <1>1, LaterKept DEF HInv, StageInv, VfsInv, EntriesInv
<1>3. BlameJustified'
  BY <1>1, LaterKept DEF HInv, BlameJustified, MayHaveSink
<1> QED
  BY <1>1, <1>2, <1>3, LaterKept DEF HInv

LEMMA NextHost == HInv /\ [HostNext]_hvars => HInv'
<1> SUFFICES ASSUME HInv, [HostNext]_hvars PROVE HInv'
  OBVIOUS
<1>1. CASE FindsInterfaces \/ Captures \/ Hears \/ CaptureFails \/ CaptureEnds
  BY <1>1, FindsInterfacesStep, CapturesStep, LldpStep
<1>2. CASE Resizes \/ DeviceVanishes \/ ListVfs \/ ReadVf
  BY <1>2, ResizesStep, DeviceVanishesStep, ListVfsStep, ReadVfStep
<1>3. CASE VfVanishes \/ VfsRead \/ HandsOver
  BY <1>3, VfVanishesStep, VfsReadStep, HandsOverStep
<1>4. CASE \E i \in Interfaces : Reports(i) \/ Fails(i) \/ Crashes(i)
  BY <1>4, ReportsStep, GivesUpStep
<1>5. CASE Exits \/ HostEnded \/ UNCHANGED hvars
  BY <1>5, ExitsStep, HostStutter DEF HostEnded
<1> QED
  BY <1>1, <1>2, <1>3, <1>4, <1>5 DEF HostNext

LEMMA HostInvariant == HostSpec => []HInv
  BY InitHost, NextHost, PTL DEF HostSpec

-----------------------------------------------------------------------------
(* The theorems.                                                            *)

LEMMA MappingsOwn == InventoryInv => OwnMappings
<1> SUFFICES ASSUME InventoryInv, host # "none",
                    \A a, b \in ToSet(agents) :
                        ShortName[a.host] = ShortName[b.host] => a.host = b.host
             PROVE  /\ ShortName[result[host].host] = host
                    /\ \A a \in ToSet(agents) : ShortName[a.host] = host =>
                          result[host].configurations[a.mapping] = a.values
                    /\ \A m \in DOMAIN result[host].configurations : \E a \in ToSet(agents) :
                          ShortName[a.host] = host /\ a.mapping = m
  BY DEF OwnMappings
<1>1. /\ host \in DOMAIN result /\ ShortName[result[host].host] = host
      /\ merged = Len(agents) /\ agents \in Seq(Reported)
  BY DEF InventoryInv, AgentsInv, PickedInv, MergeInv
<1>2. DOMAIN agents = 1..merged /\ \A n \in 1..merged : agents[n] \in ToSet(agents)
  BY <1>1 DEF ToSet
<1>3. ASSUME NEW a \in ToSet(agents), ShortName[a.host] = host
      PROVE  result[host].configurations[a.mapping] = a.values
  <2>1. a.mapping \in DOMAIN result[host].configurations
    <3>1. PICK n \in 1..merged : a = agents[n]
      BY <1>2 DEF ToSet
    <3>2. /\ ShortName[agents[n].host] \in DOMAIN result
          /\ agents[n].mapping \in DOMAIN result[ShortName[agents[n].host]].configurations
      BY DEF InventoryInv, MergeInv
    <3> QED
      BY <1>3, <3>1, <3>2
  <2>2. PICK n \in 1..merged :
           /\ ShortName[agents[n].host] = host /\ agents[n].mapping = a.mapping
           /\ agents[n].values = result[host].configurations[a.mapping]
    BY <2>1, ConfOfAgent DEF Merged
  <2>3. agents[n].host = a.host
    BY <1>2, <1>3, <2>2
  <2>4. agents[n] = a
    BY <1>2, <2>2, <2>3 DEF InventoryInv, AgentsInv, Consistent
  <2> QED
    BY <2>2, <2>4
<1>4. ASSUME NEW m \in DOMAIN result[host].configurations
      PROVE  \E a \in ToSet(agents) : ShortName[a.host] = host /\ a.mapping = m
  <2>1. PICK n \in 1..merged : ShortName[agents[n].host] = host /\ agents[n].mapping = m
    BY ConfOfAgent DEF Merged
  <2> QED
    BY <1>2, <2>1
<1> QED
  BY <1>1, <1>3, <1>4

\* A host of the play is looked at with the mappings its own agents reported, as long
\* as no other host has its short name (get_overcloud_agents.py:45-60).
THEOREM Mappings == HostSpec => []OwnMappings
<1>1. HInv => OwnMappings
  BY MappingsOwn DEF HInv
<1> QED
  BY HostInvariant, <1>1, PTL

LEMMA ListExact == QueryInv => InterfacesExact
<1> SUFFICES ASSUME QueryInv, step = "ready" PROVE InterfacesExact
  BY DEF InterfacesExact
<1>1. /\ interface_list = Conf("device_mappings") \cup DOMAIN ovs_topology
      /\ \A pair \in always : \A i \in ({pair[1]} \cup Slaves[pair[1]]) \cap Matching :
            pair[2] \in Mapped => i \in DOMAIN ovs_topology /\ ovs_topology[i] = pair[2]
      /\ \A i \in DOMAIN ovs_topology :
            /\ i \in Matching /\ ovs_topology[i] \in Mapped
            /\ \E pair \in ever :
                  pair[2] = ovs_topology[i] /\ i \in {pair[1]} \cup Slaves[pair[1]]
  BY DEF QueryInv, BondsInv
<1> QED
  BY <1>1 DEF InterfacesExact, Mapped

\* The interfaces looked at are those of the SR-IOV agent and, but for what changed
\* during the query, the ports of the mapped bridges and their slaves whose names match
\* (bridgeinfo.py:114-128, linuxbond.py:93-102, roles/topology/tasks/main.yml:94-113).
THEOREM ListIsExact == HostSpec => []InterfacesExact
<1>1. HInv => InterfacesExact
  BY ListExact DEF HInv
<1> QED
  BY HostInvariant, <1>1, PTL

LEMMA Complete == HInv => FileComplete
<1> SUFFICES ASSUME HInv, stage = "reported" PROVE FileComplete
  BY DEF FileComplete
<1>1. step = "ready" /\ DOMAIN entries = interface_list
  BY DEF HInv, StageInv, EntriesInv
<1>2. \A i \in interface_list :
         /\ verdict[i] = "heard" /\ {"name", "ipv4", "port"} \subseteq entries[i].neighbor
         /\ entries[i].bridge = Bridge(i)
  BY <1>1 DEF HInv, EntriesInv
<1>3. ASSUME NEW pair \in always, pair[2] \in Conf("bridge_mappings"),
             NEW i \in ({pair[1]} \cup Slaves[pair[1]]) \cap Matching
      PROVE  i \in DOMAIN entries /\ entries[i].bridge = pair[2]
  <2>1. i \in DOMAIN ovs_topology /\ ovs_topology[i] = pair[2]
    BY <1>1, <1>3 DEF HInv, QueryInv, BondsInv, Mapped
  <2>2. i \in interface_list
    BY <1>1, <2>1 DEF HInv, QueryInv, BondsInv
  <2> QED
    BY <1>1, <1>2, <2>1, <2>2 DEF Bridge
<1> QED
  BY <1>1, <1>2, <1>3 DEF FileComplete

\* A host's file has an entry for every interface of the list, each made of a neighbour
\* that was heard, and those of the mapped bridges carry their bridge
\* (bridgeinfo.py:114-128, topology.py:408-421).
THEOREM FileIsComplete == HostSpec => []FileComplete
  BY HostInvariant, Complete, PTL

\* A host is given up only because OVS changed while it was queried, because its capture
\* failed, or over an interface that the report cannot have, whose packet is rejected or
\* incomplete if a neighbour was heard and nothing changed (bridgeinfo.py:117-126,
\* lldp.py:147-172, 281-287, topology.py:229-240, 408-424).
THEOREM Blame == HostSpec => []BlameJustified
<1>1. HInv => BlameJustified
  BY DEF HInv
<1> QED
  BY HostInvariant, <1>1, PTL

\* The entry of an interface has its own virtual functions, all of them unless their
\* number changes while they are read (lldp.py:392-418).
THEOREM Vfs == HostSpec => []OwnVfs
<1>1. HInv => OwnVfs
  <2> SUFFICES ASSUME HInv, NEW i \in DOMAIN entries
               PROVE  /\ i \notin Nics => entries[i].vfs = {}
                      /\ resizes = 0 => entries[i].vfs = vfs[i]
    BY DEF OwnVfs
  <2>1. entries[i].vfs = vfinfo[i] /\ i \in DOMAIN vfinfo \ DOMAIN listed
    BY DEF HInv, EntriesInv
  <2> QED
    BY <2>1 DEF HInv, VfsInv
<1> QED
  BY HostInvariant, <1>1, PTL
=============================================================================
