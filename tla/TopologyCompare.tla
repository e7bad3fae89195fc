--------------------------- MODULE TopologyCompare ---------------------------
(***************************************************************************)
(* The comparison of the mappings in Neutron with a report                 *)
(* (scripts/compare_topology.py), composed with the import that writes     *)
(* those mappings: what it prints when it is run at any moment.            *)
(***************************************************************************)
EXTENDS TopologyImport

VfSlots(interface) ==
    {<<interface.host, interface.vfs[n]>> : n \in DOMAIN interface.vfs}

\* generate_new_report_map: the virtual functions of the report and their ports.
\* A virtual function belongs to one interface.
NewReportMap(report) ==
    LET interfaces == ToSet(report)
    IN  [slot \in UNION {VfSlots(i) : i \in interfaces} |->
            (CHOOSE i \in interfaces : slot \in VfSlots(i)).port]

\* create_old_report: the mappings of Neutron.
OldReportSlots == {slot \in Slots : store[slot] # Unmapped}

\* compare_reports pops every old mapping from the new map; what it prints of
\* each, and what is left in the map:
PortDeleted(report) == OldReportSlots \ DOMAIN NewReportMap(report)

PortModified(report) ==
    {slot \in OldReportSlots \cap DOMAIN NewReportMap(report) :
        NewReportMap(report)[slot] # store[slot].port}

\* Without an old report main prints that there is none, and stops.
NewPortAdded(report) ==
    IF OldReportSlots = {} THEN {} ELSE DOMAIN NewReportMap(report) \ OldReportSlots

-----------------------------------------------------------------------------
Undisturbed ==
    /\ \A p \in Importers : pc[p] \in {"complete", "refused"}
    /\ failures = 0 /\ deletes = 0

\* After imports that nothing disturbed, comparing an imported report again shows
\* no new port, and a modified one only where another importer had a different
\* port for it: import and compare agree on the mappings of virtual functions
\* (topology_import.py:90-135, compare_topology.py:35-66).
CompareQuiet ==
    Undisturbed =>
        \A p \in {p \in Importers : chosen[p] # 0} :
            LET report == Reports[chosen[p]]
            IN  /\ NewPortAdded(report) = {}
                /\ \A slot \in PortModified(report) :
                      PortsFor(slot) # {NewReportMap(report)[slot]}
=============================================================================
