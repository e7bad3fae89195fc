---------------------------- MODULE TopologyImport ----------------------------
(***************************************************************************)
(* The import of a report into Neutron: populate_topology.py picks the     *)
(* report, topology_import.py makes of it one switchport mapping per       *)
(* virtual function and one per interface, each created, or found and      *)
(* updated when its (host, slot) is already mapped.  The three calls are   *)
(* separate requests, so other importers and operators who delete mappings *)
(* may come in between.                                                    *)
(*                                                                         *)
(* Neutron is external: a store with at most one mapping per (host, slot), *)
(* each under an id of its own.  The switch port of a mapping stands for   *)
(* all its other fields.                                                   *)
(***************************************************************************)
EXTENDS Naturals, Sequences, SequencesExt

CONSTANTS
    Importers,     \* processes importing, one after the other or overlapping
    Reports,       \* the reports that are generated, in this order
    OldReport,     \* the report imported before
    MaxTouches,    \* bound: reports touched by operators
    MaxDeletes,    \* bound: mappings deleted by operators
    MaxFailures,   \* bound: requests that fail
    Exceptions     \* what a failing request raises: "message", "bare"

\* Mutant: the loop over the virtual functions misses the last one.
MappingsOf_OneShort(interface) ==
    [n \in 1..Len(interface.vfs) |->
        [key |-> <<interface.host, interface.name>>,
         slot |-> <<interface.host, IF n < Len(interface.vfs) THEN interface.vfs[n]
                                                            ELSE interface.name>>,
         port |-> interface.port]]

\* Mappings of one interface: its virtual functions, then the interface itself.
MappingsOf(interface) ==
    LET Mapping(slot) == [key  |-> <<interface.host, interface.name>>,
                          slot |-> <<interface.host, slot>>,
                          port |-> interface.port]
    IN  [n \in 1..Len(interface.vfs) + 1 |->
            Mapping(IF n <= Len(interface.vfs) THEN interface.vfs[n]
                                               ELSE interface.name)]

MappingsIn(report) ==
    FlattenSeq([n \in 1..Len(report) |-> MappingsOf(report[n])])

AllWork == [n \in DOMAIN Reports |-> MappingsIn(Reports[n])]
OldWork == MappingsIn(OldReport)

Mappings == ToSet(OldWork) \cup UNION {ToSet(AllWork[n]) : n \in DOMAIN Reports}
Slots == {m.slot : m \in Mappings}
Keys == {m.key : m \in Mappings}
Ports == {m.port : m \in Mappings}

Unmapped == [id |-> 0, port |-> "none"]

\* An interface occurs once in a report, as hosts have different names and the
\* interfaces of a host are the keys of a dict, and a virtual function belongs to one
\* interface, once.
IsReport(report) ==
    /\ report \in Seq(ToSet(report))
    /\ \A i \in DOMAIN report : report[i].vfs \in Seq(ToSet(report[i].vfs))
    /\ \A i, j \in DOMAIN report :
       \A a \in DOMAIN MappingsOf(report[i]), b \in DOMAIN MappingsOf(report[j]) :
          MappingsOf(report[i])[a].slot = MappingsOf(report[j])[b].slot => i = j /\ a = b

ASSUME ImportAssumption ==
    /\ Reports \in Seq(ToSet(Reports))
    /\ \A n \in DOMAIN Reports : IsReport(Reports[n]) /\ Reports[n] # <<>>
    /\ IsReport(OldReport)
    /\ Unmapped.port \notin Ports
    /\ Exceptions \subseteq {"message", "bare"}
    /\ MaxTouches \in Nat /\ MaxDeletes \in Nat /\ MaxFailures \in Nat

VARIABLES
    pc,         \* per importer: the request it makes next
    chosen,     \* per importer: the report it imports; 0 before
    at,         \* per importer: the mapping it is at
    found,      \* per importer: the id its search returned
    mapping,    \* per importer: failed mappings of the interface it is at
    summary,    \* per importer: dict interface_of_compute_with_error
    written,    \* number of reports generated
    changed,    \* when each of them was changed last
    store,      \* Neutron: the mapping of each slot
    nextId,     \* Neutron: the next id
    deleted,    \* slots of mappings deleted so far
    deletes,    \* number of deletions
    touches,    \* number of touched reports
    failures,   \* number of failed requests
    \* history
    last,       \* the importer that started last
    overlapped  \* importers under way at the same time as another

importer == <<pc, chosen, at, found, mapping, summary, last, overlapped>>
reports == <<written, changed, touches>>
neutron == <<store, nextId, deleted, deletes>>
vars == <<importer, reports, neutron, failures>>

Requests == {"create", "search", "update"}
Work(p) == IF chosen[p] = 0 THEN <<>> ELSE AllWork[chosen[p]]

\* Failed mappings by interface.
Summaries == UNION {[keys -> SUBSET Slots] : keys \in SUBSET Keys}

TypeOK ==
    /\ pc \in [Importers -> Requests \cup {"populate", "complete", "aborted", "refused"}]
    /\ chosen \in [Importers -> 0..Len(Reports)]
    /\ at \in [Importers -> Nat \ {0}]
    /\ \A p \in Importers : at[p] <= Len(Work(p)) + 1
    /\ mapping \in [Importers -> SUBSET Slots]
    /\ summary \in [Importers -> Summaries]
    /\ found \in [Importers -> Nat]
    /\ written \in 0..Len(Reports) /\ changed \in [1..written -> Nat]
    /\ store \in [Slots -> [id : Nat, port : Ports \cup {"none"}]]
    /\ nextId \in Nat \ {0}
    /\ deleted \subseteq Slots
    /\ deletes \in 0..MaxDeletes /\ touches \in 0..MaxTouches
    /\ failures \in 0..MaxFailures
    /\ last \subseteq Importers /\ overlapped \subseteq Importers

Init ==
    /\ pc = [p \in Importers |-> "populate"]
    /\ chosen = [p \in Importers |-> 0]
    /\ at = [p \in Importers |-> 1]
    /\ found = [p \in Importers |-> 0]
    /\ mapping = [p \in Importers |-> {}]
    /\ summary = [p \in Importers |-> <<>>]
    /\ written = 0 /\ changed = <<>>
    /\ store = [s \in Slots |->
           IF \E n \in 1..Len(OldWork) : OldWork[n].slot = s
           THEN LET n == CHOOSE n \in 1..Len(OldWork) : OldWork[n].slot = s
                IN  [id |-> n, port |-> OldWork[n].port]
           ELSE Unmapped]
    /\ nextId = Len(OldWork) + 1
    /\ deleted = {} /\ deletes = 0 /\ touches = 0 /\ failures = 0
    /\ last = {} /\ overlapped = {}

Current(p) == Work(p)[at[p]]

-----------------------------------------------------------------------------
(* The reports, written by the playbook and kept by operators.             *)

\* The time: it passes with every change.
Now == written + touches + 1

ReportWritten ==
    /\ written < Len(Reports)
    /\ written' = written + 1
    /\ changed' = [n \in 1..written' |-> IF n = written' THEN Now ELSE changed[n]]
    /\ UNCHANGED <<importer, touches, neutron, failures>>

\* Renaming a report or changing its mode counts as a change.
ReportTouched(n) ==
    /\ touches < MaxTouches
    /\ touches' = touches + 1
    /\ changed' = [changed EXCEPT ![n] = Now]
    /\ UNCHANGED <<importer, written, neutron, failures>>

-----------------------------------------------------------------------------
(* main of populate_topology.py and of topology_import.py.                 *)

Active == {p \in Importers : pc[p] \in Requests}

\* Mutant: the first file of glob is taken, which lists them in any order.
Populate_Any(p) ==
    /\ pc[p] = "populate"
    /\ \E n \in 1..written : chosen' = [chosen EXCEPT ![p] = n]
    /\ pc' = [pc EXCEPT ![p] = "create"]
    /\ last' = {p}
    /\ overlapped' = overlapped \cup (IF Active = {} THEN {} ELSE Active \cup {p})
    /\ UNCHANGED <<at, found, mapping, summary, reports, neutron, failures>>

\* The report whose inode changed last is read.
Populate(p) ==
    /\ pc[p] = "populate"
    /\ \E n \in 1..written :
          /\ \A k \in 1..written : changed[k] <= changed[n]
          /\ chosen' = [chosen EXCEPT ![p] = n]
    /\ pc' = [pc EXCEPT ![p] = "create"]
    /\ last' = {p}
    /\ overlapped' = overlapped \cup (IF Active = {} THEN {} ELSE Active \cup {p})
    /\ UNCHANGED <<at, found, mapping, summary, reports, neutron, failures>>

\* No report, another user, no RC file or no credentials: nothing is requested.
Refused(p) ==
    /\ pc[p] = "populate"
    /\ pc' = [pc EXCEPT ![p] = "refused"]
    /\ UNCHANGED <<chosen, at, found, mapping, summary, last, overlapped,
                   reports, neutron, failures>>

-----------------------------------------------------------------------------
(* The loop of import_interfaces.                                          *)

\* Mutant: it starts anew with every mapping.
ListSoFar_PerMapping(p) == {}

\* The list of failed mappings starts anew with every interface.
ListSoFar(p) ==
    IF at[p] > 1 /\ Work(p)[at[p] - 1].key = Current(p).key
    THEN mapping[p] ELSE {}

\* One mapping is dealt with.  If it failed, the list goes into the summary; the
\* loop goes on with the next mapping, of this interface or of the next.
Proceed(p, newFailures) ==
    LET list == ListSoFar(p) \cup newFailures
    IN  /\ mapping' = [mapping EXCEPT ![p] = list]
        /\ summary' = IF newFailures = {} THEN summary ELSE
               [summary EXCEPT ![p] = [key \in DOMAIN @ \cup {Current(p).key} |->
                                          IF key = Current(p).key THEN list ELSE @[key]]]
        /\ at' = [at EXCEPT ![p] = @ + 1]
        /\ pc' = [pc EXCEPT ![p] =
               IF at[p] = Len(Work(p)) THEN "complete" ELSE "create"]

\* An exception that has no attribute `message' makes the handler itself fail.
Raises(p, exception) ==
    IF exception = "message"
    THEN Proceed(p, {Current(p).slot})
    ELSE /\ pc' = [pc EXCEPT ![p] = "aborted"]
         /\ UNCHANGED <<at, mapping, summary>>

\* A request leaves the choice of the report and its history alone.
Stays == UNCHANGED <<chosen, last, overlapped, reports>>

RequestFails(p) ==
    /\ pc[p] \in Requests
    /\ failures < MaxFailures
    /\ failures' = failures + 1
    /\ \E exception \in Exceptions : Raises(p, exception)
    /\ Stays /\ UNCHANGED <<found, neutron>>

\* Neutron creates the mapping.
Created(p) ==
    /\ pc[p] = "create"
    /\ store[Current(p).slot] = Unmapped
    /\ store' = [store EXCEPT ![Current(p).slot] =
                    [id |-> nextId, port |-> Current(p).port]]
    /\ nextId' = nextId + 1

\* Neutron updates the mapping of the id that was found, wherever it is by now.
Updated(p) ==
    /\ pc[p] = "update"
    /\ \E slot \in Slots :
          /\ store[slot].id = found[p]
          /\ store' = [store EXCEPT ![slot].port = Current(p).port]
    /\ UNCHANGED nextId

\* The request is carried out and its answer is lost.
AnswerLost(p) ==
    /\ failures < MaxFailures
    /\ failures' = failures + 1
    /\ Created(p) \/ Updated(p)
    /\ \E exception \in Exceptions : Raises(p, exception)
    /\ Stays /\ UNCHANGED <<found, deleted, deletes>>

Create(p) ==
    /\ Created(p)
    /\ Proceed(p, {})
    /\ Stays /\ UNCHANGED <<found, deleted, deletes, failures>>

\* Mutant: the mapping is taken to be what it should be.
Conflicts_Satisfied(p) ==
    /\ pc[p] = "create"
    /\ store[Current(p).slot] # Unmapped
    /\ Proceed(p, {})
    /\ Stays /\ UNCHANGED <<found, neutron, failures>>

\* Mutant: creating is tried again until it succeeds.
Conflicts_Again(p) ==
    /\ pc[p] = "create"
    /\ store[Current(p).slot] # Unmapped
    /\ UNCHANGED vars

\* Mutant: an existing mapping is an error.
Conflicts_NoRetry(p) ==
    /\ pc[p] = "create"
    /\ store[Current(p).slot] # Unmapped
    /\ Raises(p, "message")
    /\ Stays /\ UNCHANGED <<found, neutron, failures>>

\* Conflict: the mapping might exist already.
Conflicts(p) ==
    /\ pc[p] = "create"
    /\ store[Current(p).slot] # Unmapped
    /\ pc' = [pc EXCEPT ![p] = "search"]
    /\ Stays /\ UNCHANGED <<at, found, mapping, summary, neutron, failures>>

\* Mutant: the filter leaves out the host.
Search_AnyHost(p) ==
    /\ pc[p] = "search"
    /\ store[Current(p).slot] # Unmapped
    /\ \E slot \in Slots :
          /\ slot[2] = Current(p).slot[2] /\ store[slot] # Unmapped
          /\ found' = [found EXCEPT ![p] = store[slot].id]
    /\ pc' = [pc EXCEPT ![p] = "update"]
    /\ Stays /\ UNCHANGED <<at, mapping, summary, neutron, failures>>

\* The filter is the (host, slot), so at most one mapping is returned.
Search(p) ==
    /\ pc[p] = "search"
    /\ store[Current(p).slot] # Unmapped
    /\ found' = [found EXCEPT ![p] = store[Current(p).slot].id]
    /\ pc' = [pc EXCEPT ![p] = "update"]
    /\ Stays /\ UNCHANGED <<at, mapping, summary, neutron, failures>>

\* The mapping is gone meanwhile: the Conflict is raised again.
SearchFindsNone(p) ==
    /\ pc[p] = "search"
    /\ store[Current(p).slot] = Unmapped
    /\ Raises(p, "message")
    /\ Stays /\ UNCHANGED <<found, neutron, failures>>

Update(p) ==
    /\ Updated(p)
    /\ Proceed(p, {})
    /\ Stays /\ UNCHANGED <<found, deleted, deletes, failures>>

\* The id that was found does not exist any more.
UpdateFindsNone(p) ==
    /\ pc[p] = "update"
    /\ \A slot \in Slots : store[slot].id # found[p]
    /\ Raises(p, "message")
    /\ Stays /\ UNCHANGED <<found, neutron, failures>>

-----------------------------------------------------------------------------
\* An operator deletes a mapping.
Delete(slot) ==
    /\ store[slot] # Unmapped
    /\ deletes < MaxDeletes
    /\ deletes' = deletes + 1
    /\ deleted' = deleted \cup {slot}
    /\ store' = [store EXCEPT ![slot] = Unmapped]
    /\ UNCHANGED <<importer, reports, nextId, failures>>

Ended(p) == pc[p] \in {"complete", "aborted", "refused"}
Finished == (\A p \in Importers : Ended(p)) /\ UNCHANGED vars

Step(p) ==
    \/ Populate(p) \/ Refused(p)
    \/ RequestFails(p) \/ AnswerLost(p)
    \/ Create(p) \/ Conflicts(p)
    \/ Search(p) \/ SearchFindsNone(p)
    \/ Update(p) \/ UpdateFindsNone(p)

Next ==
    \/ ReportWritten \/ \E n \in 1..written : ReportTouched(n)
    \/ \E p \in Importers : Step(p)
    \/ \E slot \in Slots : Delete(slot)
    \/ Finished

\* Each importer is a process, and each of its requests is answered or fails.
Spec == Init /\ [][Next]_vars /\ \A p \in Importers : WF_vars(Step(p))

-----------------------------------------------------------------------------
(* What the import should guarantee.                                        *)

\* The ports that a slot has in the reports being imported.
PortsFor(slot) ==
    {port \in Ports : \E q \in Importers : \E n \in DOMAIN Work(q) :
        Work(q)[n].slot = slot /\ Work(q)[n].port = port}

InSummary(p, m) == m.key \in DOMAIN summary[p] /\ m.slot \in summary[p][m.key]

\* Every mapping an import is done with is in Neutron with the port of a report,
\* unless it is in the summary or somebody deleted it.  No mapping is lost
\* unnoticed, whichever request failed and whoever else imports, nor before an
\* import that its own error handler aborts (topology_import.py:119-135, 141-165).
ImportAccounted ==
    \A p \in Importers : \A n \in 1..at[p] - 1 :
        LET m == Work(p)[n]
        IN  \/ store[m.slot].port \in PortsFor(m.slot)
            \/ InSummary(p, m)
            \/ m.slot \in deleted

\* The summary names a mapping only for a reason: with every request answered,
\* it is one that was deleted meanwhile.  Importers of the same slots never make
\* each other fail (topology_import.py:123-135).
FailuresJustified ==
    failures = 0 =>
        \A p \in Importers : \A key \in DOMAIN summary[p] : summary[p][key] \subseteq deleted

\* The import started last, if it had Neutron to itself, decides what Neutron
\* holds: each mapping it is done with has the port of its report and not the one
\* of an import before it, or is in its summary or deleted
\* (topology_import.py:119-135).
LastImportWins ==
    \A p \in last \ overlapped : \A n \in 1..at[p] - 1 :
        LET m == Work(p)[n]
        IN  \/ store[m.slot].port = m.port
            \/ InSummary(p, m)
            \/ m.slot \in deleted

\* An import never starts from a report older than one imported before, as long
\* as no report is touched after it was generated (populate_topology.py:41-50).
NeverOlder ==
    [][touches = 0 => \A p, q \in Importers :
          chosen'[p] # chosen[p] => chosen[q] <= chosen'[p]]_vars

\* To Neutron an import is a series of single writes, one per mapping in the
\* order of the report, although it makes up to three requests for each and
\* finds by filter what it updates by id (topology_import.py:119-165).
StoreOf == INSTANCE MappingStore WITH
    None <- Unmapped.port,
    work <- [p \in Importers |-> Work(p)],
    settled <- [p \in Importers |-> at[p] - 1],
    port <- [slot \in Slots |-> store[slot].port]

KeepsStore == StoreOf!Spec

\* Every import ends (topology_import.py:141-185).
EveryImportEnds == \A p \in Importers : <>Ended(p)
=============================================================================
