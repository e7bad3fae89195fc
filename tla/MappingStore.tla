---------------------------- MODULE MappingStore ----------------------------
(***************************************************************************)
(* What an import is to Neutron: a list of mappings, settled one after the *)
(* other, each by writing the port of its slot or by leaving it alone.     *)
(* Operators remove mappings.                                              *)
(***************************************************************************)
EXTENDS Naturals, Sequences

CONSTANTS Importers, Slots, None

VARIABLES
    work,      \* per importer: the mappings of its report; empty before it starts
    settled,   \* per importer: how many of them it is done with
    port       \* per slot: the switch port

vars == <<work, settled, port>>

Init ==
    /\ work = [p \in Importers |-> <<>>]
    /\ settled = [p \in Importers |-> 0]

Begin(p) ==
    /\ work[p] = <<>>
    /\ \A q \in Importers \ {p} : work'[q] = work[q]
    /\ UNCHANGED <<settled, port>>

Settled(p) == settled' = [settled EXCEPT ![p] = @ + 1]

\* The importer may not come to know that it wrote, and stop.
Put(p) ==
    /\ settled[p] < Len(work[p])
    /\ LET m == work[p][settled[p] + 1]
       IN  port' = [port EXCEPT ![m.slot] = m.port]
    /\ Settled(p) \/ UNCHANGED settled
    /\ UNCHANGED work

GivesUp(p) ==
    /\ settled[p] < Len(work[p])
    /\ Settled(p)
    /\ UNCHANGED <<work, port>>

Remove(slot) ==
    /\ port' = [port EXCEPT ![slot] = None]
    /\ UNCHANGED <<work, settled>>

Next ==
    \/ \E p \in Importers : Begin(p) \/ Put(p) \/ GivesUp(p)
    \/ \E slot \in Slots : Remove(slot)

Spec == Init /\ [][Next]_vars
=============================================================================
