---------------------------- MODULE MCLldpCapture ----------------------------
(***************************************************************************)
(* Instances of LldpCapture for TLC and the properties of the loop that    *)
(* are checked on them.                                                    *)
(***************************************************************************)
EXTENDS LldpCapture

CONSTANTS e1, e2, e3

TwoInterfaces == <<e1, e2>>
ThreeInterfaces == <<e1, e2, e3>>
Chatty == {e1}
Silent == {}

=============================================================================
