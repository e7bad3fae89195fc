----------------------------- MODULE LldpSockets -----------------------------
(***************************************************************************)
(* RawPromiscuousSockets of library/lldp.py: the context manager that puts *)
(* every interface of the list in promiscuous mode for the capture and     *)
(* undoes it afterwards.  A DPDK interface has no kernel device: a sink    *)
(* port and an OpenFlow rule are added to its bridge and the sink is       *)
(* listened on instead.  Ports, rules and interface flags outlive the      *)
(* process, so what one run leaves behind the next run starts with.        *)
(*                                                                         *)
(* Interfaces are their positions in the list.  Of the interface flags     *)
(* only IFF_PROMISC and IFF_UP are told apart.  The capture between        *)
(* __enter__ and __exit__ is LldpCapture's; here it returns or raises.     *)
(***************************************************************************)
EXTENDS Naturals

CONSTANTS
    N,          \* length of the list of interfaces
    Dpdk,       \* positions of the interfaces under a DPDK bridge
    BridgeOf,   \* the bridge of each of those
    MaxRuns,    \* bound: further runs of the module
    MaxAdmin    \* bound: times somebody else sets a link up or down

Interfaces == 1..N

ASSUME SocketsAssumption ==
    /\ N \in Nat \ {0}
    /\ Dpdk \subseteq Interfaces
    /\ DOMAIN BridgeOf = Dpdk
    /\ MaxRuns \in Nat /\ MaxAdmin \in Nat

VARIABLES
    \* the process
    pc,         \* the method that runs
    k,          \* the interface its loop is at
    outcome,    \* how the `with' statement ended
    sock,       \* the socket of each tuple of self.interfaces
    sink,       \* the interfaces whose tuple holds a sink
    ifr,        \* the ifreq of each tuple: blank, named only, or flags read
    savedUp,    \* the interfaces whose ifreq holds IFF_UP
    \* the host
    plugged,    \* kernel devices that exist
    ports,      \* interfaces whose sink port exists on their bridge
    flows,      \* interfaces whose rule exists on their bridge
    promisc,    \* interfaces whose device is in promiscuous mode
    up,         \* interfaces whose device is up
    \* bounds
    runs, admin

process == <<sock, sink, ifr, savedUp>>
host == <<plugged, ports, flows, promisc, up>>
bounds == <<runs, admin>>
vars == <<pc, k, outcome, process, host, bounds>>

TypeOK ==
    /\ pc \in {"init", "enter", "capture", "exit", "over"}
    /\ k \in 1..N + 1
    /\ outcome \in {"none", "returned", "raised", "initFailed", "enterFailed",
                    "aborted", "killed"}
    /\ sock \in [Interfaces -> {"none", "open", "closed"}]
    /\ sink \subseteq Dpdk
    /\ ifr \in [Interfaces -> {"blank", "named", "read"}]
    /\ savedUp \subseteq Interfaces
    /\ plugged \subseteq Interfaces \ Dpdk
    /\ ports \subseteq Dpdk
    /\ flows \subseteq Dpdk
    /\ promisc \subseteq plugged \cup ports
    /\ up \subseteq plugged \cup ports
    /\ runs \in 0..MaxRuns
    /\ admin \in 0..MaxAdmin

Init ==
    /\ pc = "init" /\ k = 1 /\ outcome = "none"
    /\ sock = [p \in Interfaces |-> "none"]
    /\ sink = {}
    /\ ifr = [p \in Interfaces |-> "blank"]
    /\ savedUp = {}
    /\ plugged = Interfaces \ Dpdk
    /\ ports = {} /\ flows = {} /\ promisc = {}
    /\ up \in SUBSET plugged
    /\ runs = 0 /\ admin = 0

\* The device the tuple of p names: `sink or interface_name'.
Present(p) == IF p \in sink THEN p \in ports ELSE p \in plugged

-----------------------------------------------------------------------------
(* __init__: one tuple per interface.                                      *)

\* Mutant: the rule is installed for the first interface of a bridge only.
RuleOf_Shared(p) ==
    IF \E q \in flows : BridgeOf[q] = BridgeOf[p] THEN {} ELSE {p}

\* The rule that copies LLDP frames of p to its sink.
RuleOf(p) == {p}

\* The commands of _prepare_itf_for_lldp stop at the first that fails: add the
\* port, list the ports, add the rule, set the sink up.  The exit of a failing
\* command is swallowed by `finally: return sink': the tuple has no sink.
PrepareSink(p) ==
    \E succeeded \in 0..4 :
        /\ ports' = IF succeeded >= 1 THEN ports \cup {p} ELSE ports
        /\ flows' = IF succeeded >= 3 THEN flows \cup RuleOf(p) ELSE flows
        /\ up' = IF succeeded = 4 THEN up \cup {p} ELSE up
        /\ sink' = IF succeeded = 4 THEN sink \cup {p} ELSE sink
        /\ UNCHANGED <<plugged, promisc>>

NewTuple ==
    /\ pc = "init"
    /\ k <= N
    /\ sock' = [sock EXCEPT ![k] = "open"]
    /\ k' = k + 1
    /\ IF k \in Dpdk THEN PrepareSink(k) ELSE UNCHANGED <<sink, host>>
    /\ UNCHANGED <<pc, outcome, ifr, savedUp, bounds>>

\* No socket can be had: __init__ raises, and nothing is undone.
SocketFails ==
    /\ pc = "init"
    /\ k <= N
    /\ pc' = "over"
    /\ outcome' = "initFailed"
    /\ UNCHANGED <<k, process, host, bounds>>

InitDone ==
    /\ pc = "init"
    /\ k = N + 1
    /\ pc' = "enter"
    /\ k' = 1
    /\ UNCHANGED <<outcome, process, host, bounds>>

-----------------------------------------------------------------------------
(* __enter__                                                               *)

\* Mutant: the flags are overwritten instead of or-ed.
FlagsRead_Overwritten(p) ==
    /\ ifr' = [ifr EXCEPT ![p] = "read"]
    /\ savedUp' = savedUp \ {p}

\* The ifreq is named and filled with the current flags of the device.
FlagsRead(p) ==
    /\ ifr' = [ifr EXCEPT ![p] = "read"]
    /\ savedUp' = IF p \in up THEN savedUp \cup {p} ELSE savedUp \ {p}

\* A socket bound to a device that is down reports an error when drained.
EnterInterface ==
    /\ pc = "enter"
    /\ k <= N
    /\ Present(k)
    /\ k \in up
    /\ FlagsRead(k)
    /\ promisc' = promisc \cup {k}
    /\ k' = k + 1
    /\ UNCHANGED <<pc, outcome, sock, sink, plugged, ports, flows, up, bounds>>

\* Mutant: the exception is raised without calling __exit__.
Fails_NoExit ==
    /\ pc' = "over"
    /\ k' = 1
    /\ outcome' = "enterFailed"
    /\ UNCHANGED <<sock, sink, plugged, ports, flows, up, bounds>>

\* An exception in __enter__: __exit__ is called on all tuples, then re-raised.
Fails ==
    /\ pc' = "exit"
    /\ k' = 1
    /\ outcome' = "enterFailed"
    /\ UNCHANGED <<sock, sink, plugged, ports, flows, up, bounds>>

\* There is no such device, as for a DPDK interface left without a sink.
NoDevice ==
    /\ pc = "enter"
    /\ k <= N
    /\ ~Present(k)
    /\ ifr' = [ifr EXCEPT ![k] = "named"]
    /\ Fails
    /\ UNCHANGED <<savedUp, promisc>>

\* The new flags are refused, or binding, filtering or draining fails after
\* they were set.
EnterFails ==
    /\ pc = "enter"
    /\ k <= N
    /\ Present(k)
    /\ FlagsRead(k)
    /\ promisc' \in {promisc, promisc \cup {k}}
    /\ Fails

Entered ==
    /\ pc = "enter"
    /\ k = N + 1
    /\ pc' = "capture"
    /\ UNCHANGED <<k, outcome, process, host, bounds>>

-----------------------------------------------------------------------------
\* _get_lldp_info returns or raises; either way __exit__ runs.
CaptureEnds ==
    /\ pc = "capture"
    /\ pc' = "exit"
    /\ k' = 1
    /\ outcome' \in {"returned", "raised"}
    /\ UNCHANGED <<process, host, bounds>>

-----------------------------------------------------------------------------
(* __exit__                                                                *)

\* The saved flags without IFF_PROMISC, as regards IFF_UP.
FlagsWritten(p) == IF p \in savedUp THEN up \cup {p} ELSE up \ {p}

\* Mutant: only the port is removed.
RulesDeleted_None(p) == {}

\* Deleting the rules of LLDP frames spares no other interface of the bridge.
RulesDeleted(p) == {q \in flows : BridgeOf[q] = BridgeOf[p]}

\* The flags are written back and the socket is closed.
RestoreDevice ==
    /\ pc = "exit"
    /\ k <= N
    /\ k \notin sink
    /\ ifr[k] # "blank" /\ Present(k)
    /\ promisc' = promisc \ {k}
    /\ up' = FlagsWritten(k)
    /\ sock' = [sock EXCEPT ![k] = "closed"]
    /\ k' = k + 1
    /\ UNCHANGED <<pc, outcome, sink, ifr, savedUp, plugged, ports, flows, bounds>>

\* Mutant: the sink is removed first and the flags are written back after it.
RestoreSink_FlagsLast ==
    /\ pc = "exit"
    /\ k <= N
    /\ k \in sink
    /\ ifr[k] # "blank" /\ Present(k)
    /\ flows' = flows \ RulesDeleted(k)
    /\ ports' = ports \ {k}
    /\ promisc' = promisc \ {k}
    /\ up' = FlagsWritten(k)
    /\ sock' = [sock EXCEPT ![k] = "closed"]
    /\ k' = k + 1
    /\ UNCHANGED <<pc, outcome, sink, ifr, savedUp, plugged, bounds>>

\* A sink is removed as well: its rules, then its port and with it the device.
RestoreSink ==
    /\ pc = "exit"
    /\ k <= N
    /\ k \in sink
    /\ ifr[k] # "blank" /\ Present(k)
    /\ flows' = flows \ RulesDeleted(k)
    /\ ports' = ports \ {k}
    /\ promisc' = promisc \ {k}
    /\ up' = up \ {k}
    /\ sock' = [sock EXCEPT ![k] = "closed"]
    /\ k' = k + 1
    /\ UNCHANGED <<pc, outcome, sink, ifr, savedUp, plugged, bounds>>

\* One of the two commands fails: the module exits from within __exit__, whose
\* handler catches no SystemExit, and the interfaces after k are left as is.
RestoreAborts ==
    /\ pc = "exit"
    /\ k <= N
    /\ k \in sink
    /\ ifr[k] # "blank" /\ Present(k)
    /\ flows' \in {flows, flows \ RulesDeleted(k)}
    /\ promisc' = promisc \ {k}
    /\ up' = FlagsWritten(k)
    /\ sock' = [sock EXCEPT ![k] = "closed"]
    /\ pc' = "over"
    /\ outcome' = "aborted"
    /\ UNCHANGED <<k, sink, ifr, savedUp, plugged, ports, bounds>>

\* The flags cannot be written, for __enter__ never came to this interface or
\* the device is gone: logged, and neither the socket nor the sink is removed.
RestoreSkips ==
    /\ pc = "exit"
    /\ k <= N
    /\ ifr[k] = "blank" \/ ~Present(k)
    /\ k' = k + 1
    /\ UNCHANGED <<pc, outcome, process, host, bounds>>

Exited ==
    /\ pc = "exit"
    /\ k = N + 1
    /\ pc' = "over"
    /\ UNCHANGED <<k, outcome, process, host, bounds>>

-----------------------------------------------------------------------------
(* The world around the process.                                           *)

\* The connection is lost or the task is interrupted.
Killed ==
    /\ pc # "over"
    /\ pc' = "over"
    /\ outcome' = "killed"
    /\ UNCHANGED <<k, process, host, bounds>>

\* The playbook is run again on the same list.
RunsAgain ==
    /\ pc = "over"
    /\ runs < MaxRuns
    /\ runs' = runs + 1
    /\ pc' = "init" /\ k' = 1 /\ outcome' = "none"
    /\ sock' = [p \in Interfaces |-> "none"]
    /\ sink' = {}
    /\ ifr' = [p \in Interfaces |-> "blank"]
    /\ savedUp' = {}
    /\ UNCHANGED <<host, admin>>

\* A device disappears, say a virtual function handed to an instance.
Unplug(p) ==
    /\ p \in plugged
    /\ plugged' = plugged \ {p}
    /\ promisc' = promisc \ {p}
    /\ up' = up \ {p}
    /\ UNCHANGED <<pc, k, outcome, process, ports, flows, bounds>>

\* Somebody else sets a link up or down.
AdminToggles(p) ==
    /\ p \in plugged
    /\ admin < MaxAdmin
    /\ admin' = admin + 1
    /\ up' = IF p \in up THEN up \ {p} ELSE up \cup {p}
    /\ UNCHANGED <<pc, k, outcome, process, plugged, ports, flows, promisc, runs>>

Method ==
    \/ NewTuple \/ SocketFails \/ InitDone
    \/ EnterInterface \/ NoDevice \/ EnterFails \/ Entered
    \/ CaptureEnds
    \/ RestoreDevice \/ RestoreSink \/ RestoreAborts \/ RestoreSkips \/ Exited

Finished == pc = "over" /\ UNCHANGED vars

Next ==
    \/ Method \/ Killed \/ RunsAgain \/ Finished
    \/ \E p \in Interfaces : Unplug(p) \/ AdminToggles(p)

Spec == Init /\ [][Next]_vars

-----------------------------------------------------------------------------
(* What the context manager should guarantee.                               *)

\* During the capture every device that is still there is in promiscuous mode,
\* and every DPDK interface has the sink and the rule that feed its socket
\* (lldp.py:108-112, 114-139).
CaptureArmed ==
    pc = "capture" =>
        /\ \A p \in Interfaces : Present(p) => p \in promisc
        /\ Dpdk \subseteq sink \cap ports \cap flows

\* A `with' statement that was entered and left without a failing command leaves
\* nothing on the host: not what it set up, nor what runs before it left behind
\* when they were killed or failed (lldp.py:156-169, 255-266).
NothingLeftBehind ==
    (pc = "over" /\ outcome \in {"returned", "raised"}) =>
        promisc = {} /\ ports = {} /\ flows = {}

\* However __enter__ fails, no interface it had read the flags of stays in
\* promiscuous mode (lldp.py:147-151).
PromiscUndone ==
    (pc = "over" /\ outcome \in {"returned", "raised", "enterFailed"}) =>
        \A p \in Interfaces : ifr[p] = "read" => p \notin promisc

\* The module takes promiscuous mode away and changes nothing else about a link:
\* as long as nobody else touches the links, writing back the flags read before
\* the capture sets no device up or down, whatever failed before
\* (lldp.py:120-125, 158-161).
LinkStateKept ==
    [][(Method /\ admin = 0) => \A p \in plugged : p \in up <=> p \in up']_vars
=============================================================================
