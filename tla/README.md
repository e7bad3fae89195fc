# Specifications of the Nuage topology collector

TLA+ models of the topology collector, what TLC checks of them on small instances, and what TLAPS
proves of them for all instances. Paths are relative to `src/nuage_topology_collector/`; line numbers in
the modules are those of the files named next to them.

## 1. The system

The collector runs on the OpenStack controller. The playbook `get_topo.yml` visits every compute host,
listens for the LLDP frames of the switches its interfaces are cabled to, and writes one JSON report of
which interface (and which SR-IOV virtual function on it) is connected to which switch port. A script
imports that report into Neutron as *switchport mappings*; another compares a report with the mappings
already there.

```
 generate_topology.py
   get_topo.yml ── tc-inventory ── roles/topology (per host) ──────────────── roles/report
                   Nova, Neutron    rule, OVS Manager, bridgeinfo, linuxbond    files -> one report
                                    lldp module  ──stdout──>  topology module           │
                                    RawPromiscuousSockets       │                       │
                                    _get_lldp_info, VFs         └─> temp_dir/<host>.json┘
 populate_topology.py ── picks the latest report ── topology_import.py ──REST──> Neutron
 compare_topology.py  ── a report against the mappings ─────────────────REST──────┘
                          (both: credentials through Utils.cmds_run)
```

| component | state it keeps | operations | with whom it interacts | what is hard |
|---|---|---|---|---|
| capture loop, `library/lldp.py` | list of interfaces without a packet, ready sockets, result dict | select, select again, read, drop, time out | kernel sockets (frames and errors at any moment), clock | a list edited by position while it is walked; answers thrown away and asked for again; a timeout that restarts |
| sockets and sinks, `library/lldp.py` | tuples (name, socket, ifreq, sink); on the host: promiscuous flag, link state, sink ports, flow rules | `__init__`, `__enter__`, `__exit__` | Open vSwitch, other users of the links, earlier and later runs | failing half-way; being killed; saved flags that are stale |
| TLV parsing and switch ports, `library/lldp.py`, `library/topology.py` | list of TLVs, name, address and port of the entry | cut a frame, recognise the switch, validate TLVs, decode the port | frames of the neighbour, whole or cut | slices that end where the buffer does; TLVs that repeat or lack; bit layouts |
| virtual functions, `library/lldp.py` | dict of an interface's functions | list, test, read | sysfs, whose owner changes the number of functions | an entry that goes between two steps |
| topology module, `library/topology.py` | list of entries, module result | one entry per interface, or fail | entries of the capture | one interface decides about the host |
| inventory, `roles/tc-inventory`, `roles/topology` | agents by short host name, list of hosts, interface list | list agents twice, merge, add hosts, join | Nova, Neutron | two requests, names that collide |
| OVS bridge information, `library/bridgeinfo.py`, `linuxbond.py` | bridge of each interface | list bridges, interfaces, rows; add slaves | a live OVSDB | three kinds of queries of changing tables |
| playbook, `get_topo.yml`, `roles/` | temporary directory, per-host files, firewall rule, OVSDB Manager, report and its name | clean, build the inventory, collect, clear, report | Ansible's linear strategy, other runs | hosts that fail between two tasks; overlapping runs; names of one second |
| generate and populate scripts | the report chosen | check user and files, run, choose | playbook, import | which report is the latest |
| import, `scripts/topology_import.py` | failures per interface, summary; in Neutron: mappings | create, search, update | other importers, operators | three separate requests; lost answers; failing handler |
| comparison, `scripts/compare_topology.py` | map of the new report | pop, print | mappings written by the import | two readings of one report must agree |
| credentials and clients, `helper/utils.py`, `helper/osclient.py` | `os.environ`, the client | source the RC files, read variables, authenticate | the environment the script is started in | what the file leaves out stays as the caller had it |
| `Utils.cmds_run`, `helper/utils.py` | lines read, return code | read a line of each pipe in turn | the command that writes to the pipes | both waiting on each other; output after the end |
| logging, `helper/script_logging.py` | indentation, log file | indent, print progress | | |
| packaging, `setup.py`, `build/` | | | | |

What makes each correct: the *capture* settles every interface exactly once, reads everything that came in
time, and returns; the *sockets* are armed during the capture and leave nothing behind; *parsing* misreads
nothing however a frame is cut, and reads a port under its true name; the *topology module*
reports only what was heard, for all interfaces or none; the *inventory* gives a host its own agents' mappings
and a complete list of interfaces with their bridges; a *playbook run*
ends, and reports its own data of all hosts that came through, under a name no other report takes; the *import*
starts from the latest report, loses no mapping unnoticed, ends, and
importers do not disturb each other; the *comparison* is quiet after an import; a *client* is made from the RC file;
*cmds_run* returns the whole output, notices failures and returns.

## 2. Modules

| module | models | uses |
|---|---|---|
| `LldpContract` | what `get_lldp_info` promises: the abstract specification | |
| `LldpCapture` | the loop of `_get_lldp_info` and `_receive_lldp_packets` (lldp.py:309-389) | `LldpContract` (refinement) |
| `LldpTiming` | the same with history variables that measure it | extends `LldpCapture` |
| `LldpSockets` | `RawPromiscuousSockets` (lldp.py:92-172, 205-266) over several runs | |
| `SwitchPort` | port decoding as pure operators (topology.py:263-331, 350-359) | |
| `PortReport` | `generate_json` as regards the port (topology.py:333-366) | extends `SwitchPort` |
| `LldpPacket` | a frame, cut anywhere, to the entry of an interface (lldp.py:297-324, topology.py:220-256, 333-366) | extends `PortReport`, which it implements |
| `Inventory` | from the agents to the interface list of a host (`get_overcloud_agents.py`, `tc-inventory`, `bridgeinfo.py`, `linuxbond.py`, `roles/topology`) | |
| `TopologyHost` | one host from the inventory to its file (lldp.py:392-442, topology.py:389-431) | extends `Inventory`; the capture by `LldpContract` |
| `TopologyRun` | runs of `get_topo.yml` and its roles | |
| `MappingStore` | what an import is to Neutron: single writes in order; abstract | |
| `TopologyImport` | the choice of the report and its import against Neutron (populate_topology.py, topology_import.py) | `MappingStore` (refinement) |
| `TopologyCompare` | the comparison at any moment of the import (compare_topology.py:19-103) | extends `TopologyImport` |
| `CmdsRun` | `Utils.cmds_run` (utils.py:158-187) | |
| `Credentials` | RC files, environment and client (utils.py:71-156, osclient.py:11-90) | extends `CmdsRun` |
| `LldpCaptureProofs` (with `LldpTiming`), `LldpSocketsProofs`, `LldpPacketProofs` (with `PortReport`), `CmdsRunProofs` (with `Credentials`), `TopologyHostProofs`, `TopologyImportProofs` (with `TopologyCompare`), `TopologyRunProofs` | theorems | the modules they are named after |
| `SequenceLemmas` | lemmas about numbers and about sequences of sequences put one behind the other | |
| `MC*` | instances for TLC | |

Definitions whose comment starts with *Mutant* are not used by any specification. Each is a plausible
mistake in the definition that follows it, kept to show that some property would notice.

### The capture: `LldpCapture`

`remaining` is the Python list `interfaces`, `ready` is what is left of `rlist`, `info` the dict `lldp_info`
(`"unset"` for a missing key). One action per branch: `Select` and `Reselect` are the two selects,
`ReceiveFails`, `Hears` and `HearsNothing` the three outcomes of reading a socket, `AllHeard` and `TimedOut`
the two ways out, both through `Leave` (lldp.py:385-389). `Without` is the deletion by position.
Although the code repeats the second select once per ready socket, only the last answer is used and each
answer contains the previous one, so the repetition is one action whose answer is that of its last select.
`Tick` is the time select blocks; it is possible only while nothing is readable, as select returns otherwise.
The environment puts frames into sockets, breaks sockets, and may do so between any two steps of the loop.
A frame is told apart only by what `_receive_lldp_packets` makes of it: TLVs, or the empty list.

`LldpContract` sees one verdict per interface (pending, heard, lost, silent) and whether the capture is still
open. `LldpCapture` implements it under the mapping `Verdict` (property `KeepsContract`): a verdict once given
stands, and silence is declared for all at once and only for those without another verdict.

### The sockets: `LldpSockets`

Interfaces are positions in the list; those in `Dpdk` need a sink port. `pc` is the method that runs and `k`
its loop index. Everything under *the host* survives the process, so `Killed`, `SocketFails` and
`RestoreAborts` leave it as it is and `RunsAgain` starts from it. `ifr` distinguishes an ifreq that is blank
(`__enter__` never came to it), named (no such device) and read, because the first ioctl of `__exit__` fails
on the first two and skips closing the socket. `savedUp` is the saved IFF_UP, which `FlagsWritten` writes back;
`admin` counts the changes of link state by others.

### Ports: `SwitchPort`, `PortReport`

Shifts and masks are `\div` and `%` by powers of two (`Bits`). `LayoutB`, `LayoutC` and `LayoutD` build the
interface index a switch sends from slot, MDA, connector and port, as the layouts in the comment at
topology.py:267-276 say; `ConvertIfindex` is the code that takes it apart.

### Packets: `LldpPacket`

A frame is a sequence of octets, an octet of mere content being a word of it; a neighbour sends the port's TLV and some of
the optional ones in some order, pads, and as many octets as a cut allows arrive. `ParseTlv` is a recursive function over
positions in the buffer, with the slices and the loop condition of `_parse_tlv`; `GetSwitch`, `Ipv4Of`, `SysName` and
`PortId` are what `get_switch` and `validate_lldp` take from the list, the last of a kind winning. `Parsable` is what the construct
structures demand; a TLV that does not satisfy it is an exception nobody catches (`Crashes`), as is a missing name.
With `PortReport`'s variables left as they are, every step is a step of `PortReport` or a stutter (`ReadsPort`).

### One host: `Inventory`, `TopologyHost`

`step` is what the play does next. `ListNic` and `ListOvs` are the two requests; `MergeAgents` is the loop over the list of agents, whose
body `Merge` puts one agent into `result`, keyed by short host name (`merged` counts them). On the host `ListBr`, `ListIfaces` and `GetIface` are the queries of OVSDB, with
`OvsChanges` between any two of them; `current` is the bridge whose interfaces were listed, which is the one the
code reports even if the port has moved. The history variables `always` and `ever` hold the ports that were there
throughout the query, or at some time.

`TopologyHost` goes on from the interface list. The capture is not modelled a second time: its variables `verdict` and `open` move
by the actions of `LldpContract`, which `LldpCapture` implements. The functions of each interface are then listed, tested
and read one by one, while `Resizes` sets their number as the kernel allows (to zero before anything else). The
context may fail to be entered (`Captures`), and the capture may raise or a command that cleans a sink may fail after it
(`CaptureFails`); the host is then given up over no interface in particular, with a message only if there may be a sink to clean
(`Raises`: a failing command ends the module through `fail_json`, an exception through a traceback). A device that is taken away between
isdir and listdir is an exception as well (`DeviceVanishes`). Then `main` of the
topology module looks at the entries in any order. A missing list is null in JSON and iterating over it raises a TypeError, and a
packet may have a TLV that construct rejects or lack the name (`Crashes`); an empty list or an incomplete packet raises a subclass of
`LLDPBaseException` (`Fails`). `LldpPacket` is where a packet
gets or loses the TLVs that are a set of three here.

### Import and comparison: `TopologyImport`, `MappingStore`, `TopologyCompare`

`changed` is the time of the last change of each report in the output directory; `Populate` takes the report changed last, as
`populate_topology.py` does, and hands its mappings to the import. Neutron is external: one mapping per (host, slot),
an id per mapping. An importer's place is `(at, pc)`; `pc`
is the request it makes next, so anything may happen between two requests. `mapping` and `summary` are the
local list and the global dict of the same purpose, updated in `Proceed`: only a failure puts an interface into the summary.
A failing request raises an exception with or without the attribute `message`; without it the handler itself
fails and the import is aborted. A request may also be carried out and its answer lost.

`MappingStore` sees only how many mappings of its report an importer has settled and the port of each slot. Each mapping is settled by one
write or given up; an importer that never learns that it wrote may write again or stop. `TopologyImport` implements it (`KeepsStore`),
whatever the three requests meet. `TopologyCompare` adds no steps: its operators say what the comparison would
print in any state of Neutron.

### Runs: `TopologyRun`

`phase` is the play, `task` the position in the list of tasks that change state. `BuildInventory` lets any set of hosts be those of the run
(`Inventory` says which). A task runs on every host still
in the play before the next begins (Ansible's linear strategy); a host on which a task fails is out (`Drops`)
and nothing is undone on it. OVSDB refuses a second Manager with the same target. Files remember the run that
wrote them. The name of a report is the time of the run's facts in whole seconds: `Tick` begins a new second, `dated` holds the runs
whose facts are of this one, and `waiting` those whose delay of a second before ssh has not passed.
Runs may follow one another or overlap; the history variable `overlapped` remembers which it was, because
the properties about a run's own data hold only of runs that had the hosts to themselves.

### Commands and credentials: `CmdsRun`, `Credentials`

The command writes lines to two bounded pipes and ends; the script reads a line from each in turn and looks
whether the process has ended. Closing the pipes and becoming visible to `poll` are two steps. `CmdsRun` leaves open what a line of
stdout is; in `Credentials` it has a `Key` and a `Value`, the parts before and after the first `=`. `SourceRcFiles` assigns the lines to
the script's environment one after the other (`assigned` counts them), and `Authenticate` makes a client of it with the defaults of
`get_os_credentials`. Each variable is looked up for itself: the id and the name of a domain are two variables (`Domains`), the newer and the older
name of the project are, and so are the file of certificates and whether to verify (`Trusted`). `given` holds what is passed on to keystone as it
is; which of a domain's id and name counts is keystone's rule (`DomainOf`, external). The environment the script is started in may be
fresh or hold anything an earlier `source` left.

## 3. What the runs show

| run | instance | result |
|---|---|---|
| `capture` | 3 interfaces, 1 transmitting itself, timeout 2 ticks, 2 frames per socket | `TypeOK`, `RemainingExact`, `ReselectNeverEmpty`, `NothingLeftUnread`, `KeepsContract`, `NeighbourHeard`, `EndsUnlessChatter` hold |
| `capture_ends` | 2 interfaces | `Ends` is violated: the host's own frames restart the timeout for ever |
| `capture_reported` | 2 interfaces | `EveryInterfaceReported` is violated: a socket error leaves no entry |
| `timing` | 2 interfaces, at most 2 wasted frames | `ElapsedBound` holds; a bound smaller by one tick does not |
| `sockets` | kernel interface between two DPDK ones, 3 runs, 1 link change | `TypeOK`, `CaptureArmed`, `NothingLeftBehind`, `PromiscUndone` hold; `LinkStateKept` holds as long as nobody else changes links |
| `port` | field values at 0, both ends and between; five orders of optional TLVs; a cut after each octet | `NokiaPortRead`, `ParsedIsPrefix`, `NothingMisread`, `CompleteFrameReported` and the refinement `ReadsPort` hold |
| `port_cisco` | names with one and two digits | `CiscoPortRead` is violated: Ethernet10/1 becomes eth0/1 |
| `host` | agents of 3 host names, 2 of one short name; a bond, its slave and a NIC; 2 bridges; 1 change of OVS, 1 of the virtual functions or a device taken away; a capture that may fail; packets lacking each needed thing, or rejected | `OwnMappings`, `InterfacesExact`, `FileComplete`, `BlameJustified`, `OwnVfs` hold |
| `import` | 2 importers, 2 reports and one imported earlier, 1 touched report, 1 deletion, 1 failed request or lost answer | `ImportAccounted`, `FailuresJustified`, `LastImportWins`, `CompareQuiet`, `NeverOlder`, `KeepsStore`, `EveryImportEnds` hold |
| `playbook` | 2 runs, one after the other or overlapping, 2 hosts, failing tasks | `TypeOK`, `ReportExact`, `SurvivorsClean`, `ReportKept`, `EveryRunEnds` hold |
| `playbook_manager` | 2 runs, 1 host | `ManagerCleared` is violated |
| `cmds_run` | every command of up to 4 lines, three floods, ten RC files; pipes of 8; a fresh and four stale environments: of everything, of the project, of the ids and of the names of domains | `OutputComplete`, `FailureNoticed`, `RcWins`, `ClientOfRc`, `EndsIfItFits` hold |

The four violated properties are what a comment, docstring or task name says; the counterexamples are
discrepancies between those words and the code and are listed in `PROJECT.json` under `findings`.

**Bounds.** Three interfaces are enough for a deletion in front of, at and behind the position read, and for two
ready sockets beside one that is not; two frames per socket let a useless frame precede the neighbour's. Two ticks
tell a timeout that restarts from one that runs out. Two DPDK interfaces on one bridge are needed because deleting
rules spares none of the bridge, and a kernel interface between them because an abort skips what follows. In `sockets`
three runs let the second fail on what the first left and the third recover. In `port` every octet of a frame is a place to cut,
and a frame is short because the content of a TLV that no property looks into is one word.

In `host` two host names that collide and one that does not separate the merge's key from its value; one change of OVS lies between
any two of its queries, and moves, adds or removes a port or removes a bridge; a bond with one slave makes the slave differ from
the port. One change of the functions leads to none and to another number. In `import` the later report lacks a
host and changes a port back, so an older import that comes later would show; two importers suffice for every conflict on a slot,
as a conflict is between two; one deletion and one failure hit each of the three requests in turn. In `playbook` two runs are enough, as
a run meets what one other run left or is doing. Pipes of eight lines hold every command of up to four and all RC files, and are overflowed by the
floods on either side and by the alternating one, which ends all the same. An RC file names a domain, gives its id, or leaves it out, beside callers
that have the one or the other.

**Fairness.** The loop of `LldpCapture` is a process and time passes: weak fairness of `Loop` and of `Tick`; nothing is
assumed of the environment, so no neighbour need ever answer and the host need not ever transmit. In `TopologyImport` each
importer is a process whose requests are answered or fail (`WF` of its `Step`); that a report is generated is not promised, as
without one `populate_topology.py` stops. In `TopologyRun` each
run's controller process goes on (`WF` of its `Step`) and time passes (`WF` of `Tick`); a task that fails or is blocked is an outcome,
not a wait. In `CmdsRun` and `Credentials` both processes are scheduled (`WF` of `Command` and of `Script`); neither is promised room in a
pipe or a line to read. The other modules state safety only. Deadlock is checked everywhere but in `cmds_run`, where script and command
really can wait for each other once a stream exceeds its pipe; `EndsIfItFits` says when they cannot.

## 4. What is proved

All proofs hold for every value of the constants that satisfies the named assumptions of the modules: a list of
interfaces without repetition and not empty, positive timeout, interval and capacity, natural numbers as fields, cuts and paddings, sequences of optional TLVs, commands that are
sequences of lines none of which is empty (`EOF`), RC files and callers with known variables, version numbers that are numbers to Python (`Threes` within `Floats`), finitely many agents that may be reported, bonds that share no slave, a value `NoRun` that is no run. `ImportAssumption`
says of each report what `generate_topology.py` makes of it: hosts have different names, the interfaces of a host are keys of a dict and a virtual function belongs
to one interface, so no (host, slot) occurs twice (`IsReport`); no report is empty. "none" is no port.

* `LldpCaptureProofs!TypeCorrect`, `ListExact`, `RepeatedSelectReports`, `AllRead`: type correctness, `RemainingExact`,
  `ReselectNeverEmpty`, `NothingLeftUnread`. None is inductive alone. `RemainingExact` needs the list to stay without
  repetition, or removing one position would not remove the interface; reading needs every interface in `ready` to
  be in the list and readable; `NothingLeftUnread` needs that the loop leaves only when no listed socket is readable.
  `IInv` is the conjunction of these with `TypeOK`. The lemmas `RemoveAtElements` and `WithoutElements` say what deletion
  by position does to the elements of a list without repetition; `ReadOne` turns that into one fact used by both actions
  that delete. `NextIInv` has a step per action.
* `LldpCaptureProofs!ImplementsContract`: the refinement. Initial states map to initial states, each action maps to
  `Settle`, `Close` or a stutter of the contract; it uses `RemainingExact` to know that an interface still in
  the list has no verdict yet.
* `LldpCaptureProofs!Duration`: `ElapsedBound`. The strengthening gives every interface still in the list and every wasted
  frame one timeout of credit, and charges the ticks of the select under way; a round that reads something returns the
  credit it used.
* `LldpSocketsProofs!TypeCorrect`, `Armed`, `Clean`, `Undone`, `LinksKept`: `TypeOK`, `CaptureArmed`, `NothingLeftBehind`,
  `PromiscUndone`, `LinkStateKept`, for every list of interfaces and any number of runs and failures. The invariant `SInv`
  says what the ifreq of an interface records (`IfreqInv`: flags are read only of a device that is there, and of a DPDK
  interface only through its sink), that a sink in a tuple is one on the host until `__exit__` removes it (`SinkInv`), what
  holds of the interfaces before the loop index of `__enter__` and of `__exit__` (`EnterInv`, `ExitInv`, `CleanInv`), and
  that the saved flags are the current ones while nobody else touches links (`FlagsInv`).
* `LldpPacketProofs!NokiaPorts`: `NokiaPortRead` for every set of slots, MDAs, connectors and ports. One lemma per layout
  and kind of port computes each bit field of the packed index by integer division.
* `LldpPacketProofs!ParsedPrefix`: `ParsedIsPrefix`, whatever optional TLVs there are in whatever order, whatever the padding and wherever the frame
  is cut. `ParseDef` says that the recursion of `ParseTlv` defines a function, which is so because each TLV is behind the one before. `FrameOctets` and the
  flattening lemma say what stands where in a frame, and `Holds` the same of what is left of it in the buffer. From its last place back to its first, the
  padding yields empty TLVs only (`PaddingReads`), and from the last TLV back to the first `StepReads` puts one in front of a list that is read from the TLVs
  behind it (`Reads`). These are inductions over a position, each by the smallest or largest number that fails.
* `LldpPacketProofs!EntryNotMisread`, `WholeFrameReported`, `ImplementsPortReport`: `NothingMisread`, `CompleteFrameReported` and the refinement `ReadsPort`. All
  rest on `PacketIInv`: the list is read from a frame of the announced port, and the switch from the list. A switch is recognised from its whole description only
  (`Recognised`), and this comes behind the port, so the port is whole as well (`PortRead`). `PacketNokiaPorts` concludes that `NokiaPortRead` holds of cut frames, too.
* `CmdsRunProofs!TypeCorrect`, `Noticed`: `TypeOK` and `FailureNoticed` for every set of commands and capacity. `FirstErrInv`
  follows the first line of stderr: unwritten, at the head of the pipe, or the first that was read. `ReadInv` adds that pipes
  close only after the last line, so that reading the end of stderr first means there was no line.
* `CmdsRunProofs!AllOutput`: `OutputComplete`, for every command. `StreamInv` says that the result, the line just read and what is in the
  pipe are together the lines of stdout written so far, each at its `Rank`, and nothing else. `EndInv` says that the end of stdout is read only when all is written
  and the pipe is empty. The lemmas `RankNext` and `RankOrder` say that `Rank` counts and orders the lines of stdout, so it is a bijection between them and the result.
* `CmdsRunProofs!RcFileWins`, `ClientIsOfRc`: `RcWins` and `ClientOfRc`, over `CredentialsSpec`. `EnvInv` says while the lines are assigned that a variable has the value of the last
  line so far that sets it, or the caller's; `LastSetting` carries this from the lines of the result over to the lines of the file. `ClientInv` says that a client is made
  by `NewClient` of the environment, from which `ClientOfRc` follows variable by variable: one that the caller leaves alone is the file's (`VariableOfFile`), so the
  fields made of such variables are, and a domain is the file's if the id keystone prefers is.
* `TopologyImportProofs!TypeCorrect`, `Accounted`: `TypeOK` and `ImportAccounted`, for any number of importers, reports, failures and
  deletions. `ImportAccounted` is not inductive: the failures of an interface are kept in a list that starts anew with the next
  interface and replaces what the summary holds. `ListInv` says that the summary's entry for the interface of the last mapping has nothing
  the list lacks, which with the mappings of an interface standing together means that replacing loses nothing. `PlaceInv` ties `at` to `pc`,
  and `IdInv` says that ids are never used twice, so an update reaches the slot it was searched for or none. The lemma
  `Proceeds` covers every way a mapping is done with, `Accounts` what it does to `ImportAccounted`, and `RequestEnds` puts them together.
* `TopologyImportProofs!Newest`: `NeverOlder`, from `TimeInv`: while no report is touched, its time is that of its generation.
* `TopologyImportProofs!Justified`: `FailuresJustified`. `JustInv` says that, without failed requests, a slot that a create ran into, or the id
  a search found, is still there unless somebody deleted it.

* The reports of `TopologyImport` are flattened to mappings by the recursive function of `FlattenSeq`. `SequenceLemmas!NatMin` replaces induction: what fails for
  a number fails for a first one. With it `Flatten` says where each element of each sequence stands in the flat one, and `TopologyImportProofs!OfReport` that a report's mappings
  are those of its interfaces, of different slots, those of an interface together.
* `TopologyImportProofs!Quiet`: `CompareQuiet`. After undisturbed imports `ImportAccounted` leaves only the store for a mapping (`AllMapped`), as `DoneInv` says that a complete
  import is done with all its mappings and `JustInv` that its summary is empty. `MapOfReport` says that the comparison's map holds nothing that is not a mapping of the import.
* `TopologyImportProofs!Wins`: `LastImportWins`. `SoleInv` says that at most one import is the last, and that unless it is overlapped nobody else is under
  way, so no other import writes to a slot it has settled. The lemma `OneSlotEach` says that it does not do so itself either, as the slots of a report differ.
* `TopologyImportProofs!ImplementsStore`: the refinement `KeepsStore`. Initial states map to initial states, and every step of the import to one write or
  one decision of `MappingStore` or to a stutter. Every way a mapping is done with ends in `Proceed`, so `StoreEnding` treats them together; the rest writes
  and stays at its mapping, or writes nothing.
* `TopologyRunProofs!TypeCorrect`, `Exact`, `Clean`, `Kept`: `TypeOK`, `ReportExact`, `SurvivorsClean`, `ReportKept` for any number of runs and hosts. The argument
  runs along the list of tasks. `AloneInv` says that while a run that is not overlapped is under way no other is. `FilesInv` says which files the temporary directory
  and the report have after each play and task, all of them the run's own. `HostInv` relates the position in the list to the rule and the
  Manager of each host still in the play, wherever earlier runs failed. `ReportKept` rests on time: while the facts of a run are of this second,
  runs after it do not get through the wait for ssh (`SecondInv`), and after a wait no facts are of the second that has begun (`WaitInv`); so no
  other run has its name (`NameInv`, `KeptInv`).
* `TopologyHostProofs!Mappings`: `OwnMappings`, for any agents that Neutron may list, in any order. `MergeInv` says that the dict has exactly the mappings of
  the agents merged so far, each under the short name of its host; `AgentsInv` that there is one agent of a kind per host, which makes them the host's own.
* `TopologyHostProofs!ListIsExact`: `InterfacesExact`, however often OVS changes. `PortsInv` relates what was a port throughout to what is one now and was one at any time.
  `FoundInv` says that whatever is listed was there at some time, and `AwaitedInv` that what was there throughout is listed already, is about to be asked for or is on a
  bridge still to be listed; both survive a change of OVS because `always` only shrinks and `ever` only grows. `BondsInv` carries them over the bonds: a slave
  is no port and has one bond, so it takes nobody's place and gets one bridge.
* `TopologyHostProofs!Blame`: `BlameJustified`. `QuietInv` says that, as long as OVS has not changed, every bridge and port still to be asked for is there. A host
  that ends over no interface ends before functions are read; one that ends over an interface has a reason that the step that blames it meets.
* `TopologyHostProofs!FileIsComplete`, `Vfs`: `FileComplete` and `OwnVfs`, from `EntriesInv` (an entry is made of a heard neighbour, the bridge and the functions of its own
  interface) and `VfsInv` (while nobody changes the number of functions, those listed and those read are all there are). Nothing is used of the capture but that
  it is over.

Model-checked only: liveness (`NeighbourHeard`, `EndsUnlessChatter`, `EveryRunEnds`, `EveryImportEnds`, `EndsIfItFits`), which is out of
the prover's reach.

## 5. What is not modelled

* The BPF filter: a constant program that the kernel runs. The capture assumes that only LLDP frames arrive.
* In the credentials: the version suffix of the URL and regions; they are copied or rewritten, never decided upon.
* In the generate script: the options and objects `run_ansible` hands to Ansible, which are constants.
* In the playbook: looking up the container engine, copying the RC file and registering variables.
* Output of a command or a frame's text that is not UTF-8, an exception nobody catches: for the host it is a rejected TLV (`malformed` in `TopologyHost`); `LldpPacket` and
  `CmdsRun` do not have it.
* The bits of a TLV header (`LldpPacket` gives type and length an octet each), and locally assigned ports that are not numbers, which are reported as `None`.
* Logging: layout and destination of messages, read by nothing else. Packaging.
* In the import all fields of a mapping but its slot and switch port; in the sockets all interface flags but
  IFF_PROMISC and IFF_UP.

### Read in the code, stated by no property

These follow from the code as modelled, but no comment or doc promises the contrary clearly enough to be checked, or
one only does for a case that a property already leaves out.

* Interface flags read before the capture are written back after it (lldp.py:158-161): a link set up or down by
  somebody else in between is reset. `LinkStateKept` is therefore stated for `admin = 0`.
* When `__enter__` fails, `__exit__` reaches interfaces whose ifreq was never filled; its first ioctl fails and the
  socket stays open until the process ends (lldp.py:148-149, 161).
* An interface whose neighbour is silent makes the whole host fail (topology.py:419-431), so an entry without a
  neighbour, as in the sample report (README.md:226-228), does not come out of this code. A host without any
  interface to look at fails as well (lldp.py:101-104).
* A TLV that the construct structures reject, a missing system name and a lost socket end the topology module with a traceback rather than a
  failure message (`Crashes`); an exception in the capture does the same to the `lldp` module, and loses what the other interfaces heard.
* A cleaning command that fails skips the interfaces after it (lldp.py:264, `RestoreAborts`).
* The import writes a mapping for every interface itself besides those of its virtual functions; the comparison's map
  of a report has the virtual functions only (compare_topology.py:36-42), so the others are printed as deleted even
  when nothing has changed (compare_topology.py:52-56). They are in `PortDeleted`.
* A report lacks the hosts that failed (README.md:103 speaks of a full report for all compute nodes).
* Overlapping runs clean each other's temporary files (get_topo.yml:8), and only overlapping runs can give their reports the same name:
  `ReportKept` holds of the others because waiting for ssh takes a second. README.md:103 speaks of a unique file name.
* Two hosts with the same short name share one entry of the inventory, and the later one's mappings replace the earlier one's
  (get_overcloud_agents.py:45-60).
* The RC file is sourced in an empty environment, but its variables are laid over the caller's (utils.py:149-156). A caller's
  OS_PROJECT_NAME therefore wins over an OS_TENANT_NAME of the file (utils.py:109-110), a caller's OS_IDENTITY_API_VERSION over a
  file that does not set one, and a caller's OS_USER_DOMAIN_ID or OS_PROJECT_DOMAIN_ID is passed on beside the file's name of the domain, to which
  keystone prefers it (utils.py:119-131, osclient.py:37-40). `ClientOfRc` says that these are the only ways: what the file leaves out.
* A variable whose value has several lines keeps the first; each of the others becomes a variable of its own, or none.
* A command that fails without a word on stderr passes for a success (utils.py:177), so an RC file that cannot be read silently leaves the
  caller's credentials. `FailureNoticed` is about commands that say something.

## 6. Plan

Built so far, in this order: capture loop and contract with proofs, timing with proofs, sockets with proofs, ports with
proofs, import and comparison, playbook, host composition, commands; then the choice of the report and the abstract store, names of reports and
any inventory in the playbook, packets, inventory and virtual functions, credentials, and the proofs about commands, the import, runs of the playbook,
one host and packets. Next:

1. An abstract specification of a run (each host is either wholly in the report or not at all) implemented by
   `TopologyRun`.
