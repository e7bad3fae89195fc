---------------------------- MODULE MCLldpTiming ----------------------------
(* Instances of LldpTiming for TLC.                                        *)
EXTENDS LldpTiming

CONSTANTS e1, e2

TwoInterfaces == <<e1, e2>>
Chatty == {e1}

=============================================================================
