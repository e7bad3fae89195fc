---------------------------- MODULE MCPortReport ----------------------------
(* Instances of PortReport for TLC: every field at 0, at its ends and in    *)
(* between, and the boundaries of the two parts of the scheme C port.       *)
EXTENDS PortReport

SomeSlots == {0, 1, 5, 7, 10, 15, 31}
SomeMdas == {0, 1, 2, 3, 9, 15}
SomeConns == {0, 1, 33, 63}
SomePorts == {0, 1, 2, 48, 63, 64, 127, 128, 191, 192, 255}

NxosNumbers == {<<1, 1>>, <<1, 48>>, <<1, 10, 2>>, <<10, 1>>, <<101, 1, 1>>}
None == {}
=============================================================================
