-------------------------- MODULE MCTopologyCompare --------------------------
(* Instances of TopologyCompare for TLC.                                   *)
EXTENDS TopologyCompare

CONSTANTS h1, h2, itf, vf0, vf1, vf2, p1, p2, p3, i1, i2

Iface(host, vfs, port) == [host |-> host, name |-> itf, vfs |-> vfs, port |-> port]

\* The report imported before, and two later ones: a virtual function has gone,
\* one has come, and every port has changed; then one is back where it was.
Before == <<Iface(h1, <<vf0, vf1>>, p1), Iface(h2, <<>>, p2)>>
Second == <<Iface(h1, <<vf0, vf2>>, p2), Iface(h2, <<>>, p3)>>
Later == <<Iface(h1, <<vf0>>, p3)>>

TwoReports == <<Second, Later>>
=============================================================================
