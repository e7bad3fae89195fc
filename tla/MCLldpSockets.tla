---------------------------- MODULE MCLldpSockets ----------------------------
(* Instances of LldpSockets for TLC.                                       *)
EXTENDS LldpSockets

CONSTANT br1

\* One kernel interface between two interfaces of the same DPDK bridge.
OuterTwo == {1, 3}
SameBridge == [p \in OuterTwo |-> br1]

=============================================================================
