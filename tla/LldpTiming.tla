----------------------------- MODULE LldpTiming -----------------------------
(***************************************************************************)
(* How long the receive loop of library/lldp.py may take.  The parameter   *)
(* lldp_timeout limits one select, not the loop: history variables measure *)
(* the whole of it.                                                        *)
(***************************************************************************)
EXTENDS LldpCapture

CONSTANT MaxWasted   \* bound: frames without TLVs the loop may be made to read

ASSUME MaxWastedAssumption == MaxWasted \in Nat

VARIABLES
    elapsed,   \* ticks since the loop started
    wasted     \* frames read that yielded no TLVs

tvars == <<vars, elapsed, wasted>>

TimedInit == Init /\ elapsed = 0 /\ wasted = 0

TimedTick == Tick /\ elapsed' = elapsed + 1 /\ UNCHANGED wasted

TimedHearsNothing(i) ==
    /\ HearsNothing(i)
    /\ wasted' = wasted + 1
    /\ UNCHANGED elapsed

Untimed ==
    /\ \/ Select \/ Reselect
       \/ NextRound
       \/ AllHeard \/ TimedOut \/ Finished
       \/ \E i \in Interfaces :
             \/ ReceiveFails(i) \/ Hears(i)
             \/ NeighbourSends(i)
             \/ wasted < MaxWasted /\ HostSends(i)
             \/ LinkFails(i)
    /\ UNCHANGED <<elapsed, wasted>>

TimedNext ==
    \/ TimedTick
    \/ \E i \in Interfaces : TimedHearsNothing(i)
    \/ Untimed

TimedSpec == TimedInit /\ [][TimedNext]_tvars

-----------------------------------------------------------------------------
\* The loop lasts at most one timeout per interface plus one per frame without
\* TLVs: every round ends with a shorter list or such a frame (lldp.py:335-383).
ElapsedBound == elapsed <= LldpTimeout * (Len(InterfaceList) + wasted)
=============================================================================
