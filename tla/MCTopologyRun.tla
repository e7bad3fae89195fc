---------------------------- MODULE MCTopologyRun ----------------------------
(* Instances of TopologyRun for TLC.                                       *)
EXTENDS TopologyRun

CONSTANTS r1, r2, h1, h2

TwoRuns == {r1, r2}

=============================================================================
