---------------------------- MODULE LldpContract ----------------------------
(***************************************************************************)
(* What get_lldp_info promises its caller, the `lldp' module's main: every *)
(* interface gets one verdict, a verdict once given stands, and the        *)
(* interfaces without one when the capture closes are silent, all at once. *)
(***************************************************************************)
CONSTANT Interfaces

VARIABLES
    verdict,   \* per interface: what the capture has found out
    open       \* whether the capture still listens

cvars == <<verdict, open>>

Init ==
    /\ verdict = [i \in Interfaces |-> "pending"]
    /\ open = TRUE

Settle(i, v) ==
    /\ open
    /\ verdict[i] = "pending"
    /\ verdict' = [verdict EXCEPT ![i] = v]
    /\ UNCHANGED open

\* The switch at the other end announced itself.
Hear(i) == Settle(i, "heard")

\* The socket cannot be read any more.
Lose(i) == Settle(i, "lost")

\* Nothing is heard for a whole timeout, or no interface is left.
Close ==
    /\ open
    /\ open' = FALSE
    /\ verdict' = [i \in Interfaces |->
                      IF verdict[i] = "pending" THEN "silent" ELSE verdict[i]]

Next == Close \/ \E i \in Interfaces : Hear(i) \/ Lose(i)

Spec == Init /\ [][Next]_cvars
=============================================================================
