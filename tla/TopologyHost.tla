---------------------------- MODULE TopologyHost ----------------------------
(***************************************************************************)
(* What becomes of one host: the interfaces found by Inventory are handed  *)
(* to the `lldp' module, which captures, as LldpContract has it, and reads *)
(* the virtual functions of each interface from sysfs; the `topology'      *)
(* module (library/topology.py, main) then makes one entry per interface,  *)
(* and fails the host at the first it cannot make.                         *)
(***************************************************************************)
EXTENDS Inventory

CONSTANTS
    Packets,     \* the packets switches send: see Packet below
    Nics,        \* interfaces with virtual functions
    VirtualFunctions,
    MaxResizes   \* how often an operator sets the number of functions or takes a
                 \* device away (bound)

\* As much of a packet as the module asks for: what its System Description says,
\* which of the TLVs it needs are there, and whether construct rejects one of them
\* (fixed fields that are cut off, a text that is not UTF-8).
Packet == [desc : {"Nokia", "NX-OS", "NCS-55", "other", "none", "malformed"},
           tlvs : SUBSET {"name", "ipv4", "port"},
           malformed : BOOLEAN]

ASSUME HostAssumption ==
    /\ Packets # {} /\ Packets \subseteq Packet
    /\ Nics \subseteq Interfaces
    /\ MaxResizes \in Nat

NoPacket == [desc |-> "none", tlvs |-> {}, malformed |-> FALSE]

VARIABLES
    stage,         \* the module that runs, "inventory", "lldp", "vfs" or "topology"; or
                   \* how the host ended, "reported", "failed" or "crashed"
    verdict, open, \* the capture, see LldpContract
    vfs,           \* the virtual functions of each interface in sysfs
    resizes,
    listed,        \* functions of an interface that listdir returned, still to be read
    vfinfo,        \* functions of each interface that was read
    packet,        \* packet of the interface looked at last
    todo,          \* interfaces of the dict not looked at so far
    entries,       \* list `itf_list': what is reported of each interface
    culprit        \* the interface the module failed at

capture == <<verdict, open>>
sysfs == <<vfs, resizes>>
report == <<packet, todo, entries, culprit>>
hvars == <<vars, stage, capture, sysfs, listed, vfinfo, report>>

Contract == INSTANCE LldpContract

HostInit ==
    /\ Init /\ Contract!Init
    /\ stage = "inventory"
    /\ vfs = [i \in Interfaces |-> {}]
    /\ resizes = 0
    /\ listed = <<>> /\ vfinfo = <<>>
    /\ packet = NoPacket /\ todo = {} /\ entries = <<>> /\ culprit = {}

-----------------------------------------------------------------------------
(* The inventory and the `lldp' module.                                     *)

FindsInterfaces ==
    /\ stage = "inventory" /\ step # "ready"
    /\ Next
    /\ UNCHANGED <<stage, capture, sysfs, listed, vfinfo, report>>

\* Only interfaces on a bridge have a sink to be cleaned; whether theirs is a DPDK
\* bridge is not told apart.
MayHaveSink == interface_list \cap DOMAIN ovs_topology # {}

\* An exception within the `with' statement is raised again, unless a command that
\* cleans a sink fails meanwhile: then the module fails with that.
Raises ==
    stage' \in {"crashed"} \cup (IF MayHaveSink THEN {"failed"} ELSE {})

\* A list without interfaces is a ValueError.  Making or entering the context may
\* raise: no socket, no such device, flags that are refused.
Captures ==
    /\ stage = "inventory" /\ step = "ready"
    /\ \/ interface_list = {} /\ stage' = "crashed"
       \/ interface_list # {} /\ (stage' = "lldp" \/ Raises)
    /\ UNCHANGED <<vars, capture, sysfs, listed, vfinfo, report>>

Hears ==
    /\ stage = "lldp"
    /\ \/ \E i \in interface_list : Contract!Hear(i) \/ Contract!Lose(i)
       \/ Contract!Close
    /\ UNCHANGED <<vars, stage, sysfs, listed, vfinfo, report>>

\* The capture raises, or a command fails that cleans a sink after it.
CaptureFails ==
    /\ stage = "lldp"
    /\ \/ open /\ Raises
       \/ ~open /\ MayHaveSink /\ stage' = "failed"
    /\ UNCHANGED <<vars, capture, sysfs, listed, vfinfo, report>>

\* The capture is over; sysfs is read from now on.
CaptureEnds ==
    /\ stage = "lldp" /\ ~open
    /\ stage' = "vfs"
    /\ vfs' \in {f \in [Interfaces -> SUBSET VirtualFunctions] :
                   \A i \in Interfaces \ Nics : f[i] = {}}
    /\ UNCHANGED <<vars, capture, resizes, listed, vfinfo, report>>

\* The number of functions has to be zero before it can be set to another.
Resizes ==
    /\ stage = "vfs" /\ resizes < MaxResizes
    /\ resizes' = resizes + 1
    /\ \E i \in Nics, some \in SUBSET VirtualFunctions :
          /\ vfs[i] = {} \/ some = {}
          /\ vfs' = [vfs EXCEPT ![i] = some]
    /\ UNCHANGED <<vars, stage, capture, listed, vfinfo, report>>

\* A device is taken away between isdir and listdir.
DeviceVanishes ==
    /\ stage = "vfs" /\ listed = <<>>
    /\ resizes < MaxResizes
    /\ resizes' = resizes + 1
    /\ \E i \in interface_list \ DOMAIN vfinfo :
          vfs' = [vfs EXCEPT ![i] = {}] /\ culprit' = {i}
    /\ stage' = "crashed"
    /\ UNCHANGED <<vars, capture, listed, vfinfo, packet, todo, entries>>

\* get_vf_devices of one interface after the other.
ListVfs ==
    /\ stage = "vfs" /\ listed = <<>>
    /\ \E i \in interface_list \ DOMAIN vfinfo :
          /\ listed' = [j \in {i} |-> vfs[i]]
          /\ vfinfo' = With(vfinfo, i, {})
    /\ UNCHANGED <<vars, stage, capture, sysfs, report>>

\* Mutant: the dictionary of the interface before is filled.
ReadVf_Default ==
    /\ stage = "vfs"
    /\ \E i \in DOMAIN listed : \E v \in listed[i], j \in DOMAIN vfinfo :
          /\ listed' = [listed EXCEPT ![i] = @ \ {v}]
          /\ vfinfo' = [vfinfo EXCEPT ![j] = IF v \in vfs[i] THEN @ \cup {v} ELSE @]
    /\ UNCHANGED <<vars, stage, capture, sysfs, report>>

\* A function that is gone is no link any more and is passed over.
ReadVf ==
    /\ stage = "vfs"
    /\ \E i \in DOMAIN listed : \E v \in listed[i] :
          /\ listed' = [listed EXCEPT ![i] = @ \ {v}]
          /\ vfinfo' = [vfinfo EXCEPT ![i] = IF v \in vfs[i] THEN @ \cup {v} ELSE @]
    /\ UNCHANGED <<vars, stage, capture, sysfs, report>>

\* Unless it goes between islink and readlink.
VfVanishes ==
    /\ stage = "vfs"
    /\ \E i \in DOMAIN listed : \E v \in listed[i] :
          v \notin vfs[i] /\ resizes > 0 /\ culprit' = {i}
    /\ stage' = "crashed"
    /\ UNCHANGED <<vars, capture, sysfs, listed, vfinfo, packet, todo, entries>>

VfsRead ==
    /\ stage = "vfs"
    /\ \E i \in DOMAIN listed : listed[i] = {}
    /\ listed' = <<>>
    /\ UNCHANGED <<vars, stage, capture, sysfs, vfinfo, report>>

\* main of the `lldp' module: every interface of the list gets an entry.
HandsOver ==
    /\ stage = "vfs" /\ listed = <<>>
    /\ DOMAIN vfinfo = interface_list
    /\ stage' = "topology"
    /\ todo' = interface_list
    /\ UNCHANGED <<vars, capture, sysfs, listed, vfinfo, packet, entries, culprit>>

-----------------------------------------------------------------------------
(* main of the `topology' module; the order of the dict is anybody's.      *)

\* The packet of an interface that was heard, or an empty list.
Lldp(i) == IF verdict[i] = "heard" THEN Packets ELSE {NoPacket}

\* An interface that was lost has no list: iterating over null is a TypeError.
HasList(i) == verdict[i] # "lost"

\* Mutant: the pattern for Nokia switches does not match their description.
SwitchKnown_NoNokia(p) == p.desc \in {"NX-OS", "NCS-55"}

\* get_switch recognises the System Description.
SwitchKnown(p) == p.desc \in {"Nokia", "NX-OS", "NCS-55"}

\* Mutant: TLVs that are missing are not an error.
Valid_Lenient(p) == TRUE

\* validate_lldp finds an IPv4 management address and a port.
Valid(p) == {"ipv4", "port"} \subseteq p.tlvs

\* get_switch parses the description, validate_lldp all the others it needs.
Rejected(p) == p.desc = "malformed" \/ (SwitchKnown(p) /\ p.malformed)

LooksAt(i) ==
    /\ stage = "topology"
    /\ i \in todo
    /\ packet' \in Lldp(i)
    /\ UNCHANGED <<vars, capture, sysfs, listed, vfinfo>>

Bridge(i) == IF i \in DOMAIN ovs_topology THEN ovs_topology[i] ELSE NoBridge

Reports(i) ==
    /\ LooksAt(i)
    /\ HasList(i) /\ ~Rejected(packet')
    /\ SwitchKnown(packet') /\ Valid(packet') /\ "name" \in packet'.tlvs
    /\ entries' = With(entries, i,
                        [neighbor |-> packet'.tlvs, bridge |-> Bridge(i), vfs |-> vfinfo[i]])
    /\ todo' = todo \ {i}
    /\ UNCHANGED <<stage, culprit>>

\* A switch not recognised or a TLV not found: the module fails.
Fails(i) ==
    /\ LooksAt(i)
    /\ HasList(i) /\ ~Rejected(packet')
    /\ ~(SwitchKnown(packet') /\ Valid(packet'))
    /\ stage' = "failed"
    /\ culprit' = {i}
    /\ UNCHANGED <<todo, entries>>

\* No list at all, a TLV that is rejected or no system name: an exception that
\* nobody catches.
Crashes(i) ==
    /\ LooksAt(i)
    /\ \/ ~HasList(i)
       \/ Rejected(packet')
       \/ /\ SwitchKnown(packet') /\ Valid(packet')
          /\ "name" \notin packet'.tlvs
    /\ stage' = "crashed"
    /\ culprit' = {i}
    /\ UNCHANGED <<todo, entries>>

Exits ==
    /\ stage = "topology"
    /\ todo = {}
    /\ stage' = "reported"
    /\ UNCHANGED <<vars, capture, sysfs, listed, vfinfo, report>>

HostEnded ==
    /\ stage \in {"reported", "failed", "crashed"}
    /\ UNCHANGED hvars

HostNext ==
    \/ FindsInterfaces \/ Captures \/ Hears \/ CaptureFails \/ CaptureEnds
    \/ Resizes \/ DeviceVanishes \/ ListVfs \/ ReadVf \/ VfVanishes \/ VfsRead \/ HandsOver
    \/ \E i \in Interfaces : Reports(i) \/ Fails(i) \/ Crashes(i)
    \/ Exits \/ HostEnded

HostSpec == HostInit /\ [][HostNext]_hvars

-----------------------------------------------------------------------------
(* What a host's file should guarantee.                                     *)

\* A host's file has an entry for every interface of the list and nothing is made up
\* for one nobody answered on; an interface that was a port of a mapped bridge all
\* through the query, or a slave of one, is in it with that bridge
\* (bridgeinfo.py:114-128, topology.py:408-421).
FileComplete ==
    stage = "reported" =>
        /\ DOMAIN entries = interface_list
        /\ \A i \in interface_list :
              verdict[i] = "heard" /\ {"name", "ipv4", "port"} \subseteq entries[i].neighbor
        /\ \A pair \in always : \A i \in ({pair[1]} \cup Slaves[pair[1]]) \cap Matching :
              pair[2] \in Conf("bridge_mappings") =>
                  i \in DOMAIN entries /\ entries[i].bridge = pair[2]

\* A host is given up only for a reason.  A query of OVS fails because OVS changed
\* meanwhile.  A host that is given up over no interface never got beyond the capture,
\* which could not be entered, raised or could not be cleaned; with a message instead of
\* a traceback only if there may be a sink to clean.  An interface over which a host is
\* given up is one the report cannot have: its neighbour was not heard or sent an
\* unusable packet, or its functions or its device were changed while they were read;
\* and with a traceback only if it was lost or changed, or if its packet has a TLV that
\* is rejected or lacks the system name (bridgeinfo.py:117-126, lldp.py:102-104, 147-172,
\* 281-287, 408-414, topology.py:229-240, 369-386, 408-424).
BlameJustified ==
    /\ FailsOnChange
    /\ stage \in {"failed", "crashed"} /\ culprit = {} =>
          /\ DOMAIN vfinfo = {} /\ DOMAIN entries = {}
          /\ stage = "failed" => MayHaveSink
    /\ \A i \in culprit :
          /\ verdict[i] = "heard" /\ resizes = 0 =>
                ~(/\ packet.desc \in {"Nokia", "NX-OS", "NCS-55"}
                  /\ packet.tlvs = {"name", "ipv4", "port"}
                  /\ ~packet.malformed)
          /\ stage = "crashed" =>
                \/ verdict[i] = "lost" \/ resizes > 0
                \/ /\ verdict[i] = "heard"
                   /\ \/ packet.desc = "malformed" \/ packet.malformed
                      \/ "name" \notin packet.tlvs

\* The entry of an interface has the virtual functions of that interface: all of them
\* unless their number is changed while they are read (lldp.py:392-418).
OwnVfs ==
    \A i \in DOMAIN entries :
        /\ i \notin Nics => entries[i].vfs = {}
        /\ resizes = 0 => entries[i].vfs = vfs[i]
=============================================================================
