----------------------------- MODULE LldpCapture -----------------------------
(***************************************************************************)
(* The receive loop of the `lldp' module (library/lldp.py, function        *)
(* _get_lldp_info): one socket per network interface, a select with a      *)
(* timeout, and one frame read from every socket that select reports.      *)
(*                                                                         *)
(* The kernel side is the environment: frames of the neighbour switch,     *)
(* frames the host itself transmits (the sockets see those too), socket    *)
(* errors and the passing of time, all at any moment.  Time is counted in  *)
(* ticks and passes only while select blocks: reading a frame takes none.  *)
(***************************************************************************)
EXTENDS Naturals, Sequences, SequencesExt

CONSTANTS
    InterfaceList,   \* the interfaces to listen on, in the order of the list
    LldpTimeout,     \* parameter lldp_timeout, in ticks
    Transmitters,    \* the interfaces on which the host transmits LLDP itself
    TxInterval,      \* ticks between two frames the host transmits
    QueueCap         \* bound: frames a socket buffers, the kernel drops more

Interfaces == {InterfaceList[n] : n \in 1..Len(InterfaceList)}

\* The role passes the union of two lists, so no name occurs twice; the module
\* refuses an empty list (RawPromiscuousSockets raises ValueError).
ASSUME ListAssumption ==
    /\ InterfaceList \in Seq(Interfaces)
    /\ InterfaceList # <<>>
    /\ \A m, n \in 1..Len(InterfaceList) :
          InterfaceList[m] = InterfaceList[n] => m = n

ASSUME BoundsAssumption ==
    /\ LldpTimeout \in Nat \ {0}
    /\ TxInterval \in Nat \ {0}
    /\ QueueCap \in Nat \ {0}
    /\ Transmitters \subseteq Interfaces

VARIABLES
    pc,          \* where the loop stands
    remaining,   \* list `interfaces': those without a packet so far
    ready,       \* the interfaces of `rlist' still to be read
    info,        \* dict `lldp_info'; "unset" is a missing key
    failed,      \* interfaces given up after a socket error (only logged)
    queue,       \* frames waiting in each socket
    sockErr,     \* sockets with a pending error
    waited,      \* ticks the current select has blocked
    sinceTx      \* ticks since the host last transmitted on an interface

vars == <<pc, remaining, ready, info, failed, queue, sockErr, waited, sinceTx>>

\* What a frame is to _receive_lldp_packets: one that yields TLVs, or one that
\* yields the empty list (outgoing, or too short).
Frames == {"neighbour", "useless"}

TypeOK ==
    /\ pc \in {"select", "reselect", "receive", "done"}
    /\ remaining \in Seq(Interfaces)
    /\ ready \subseteq Interfaces
    /\ info \in [Interfaces -> {"unset", "empty", "tlvs"}]
    /\ failed \subseteq Interfaces
    /\ queue \in [Interfaces -> Seq(Frames)]
    /\ sockErr \subseteq Interfaces
    /\ waited \in 0..LldpTimeout
    /\ sinceTx \in [Interfaces -> 0..TxInterval]

Init ==
    /\ pc = "select"
    /\ remaining = InterfaceList
    /\ ready = {}
    /\ info = [i \in Interfaces |-> "unset"]
    /\ failed = {}
    /\ queue = [i \in Interfaces |-> <<>>]
    /\ sockErr = {}
    /\ waited = 0
    /\ sinceTx = [i \in Interfaces |-> TxInterval]

-----------------------------------------------------------------------------
(* The environment.  A socket no longer in the list is never read again, so *)
(* only those in it matter.                                                 *)

Listening == {remaining[n] : n \in 1..Len(remaining)}

Readable(i) == queue[i] # <<>> \/ i \in sockErr

Arrives(i, frame) ==
    /\ pc # "done"
    /\ i \in Listening
    /\ Len(queue[i]) < QueueCap
    /\ queue' = [queue EXCEPT ![i] = Append(@, frame)]

\* The switch at the other end of the cable announces itself.
NeighbourSends(i) ==
    /\ Arrives(i, "neighbour")
    /\ UNCHANGED <<pc, remaining, ready, info, failed, sockErr, waited, sinceTx>>

\* An LLDP agent of the host transmits on the same interface.
HostSends(i) ==
    /\ i \in Transmitters
    /\ sinceTx[i] = TxInterval
    /\ Arrives(i, "useless")
    /\ sinceTx' = [sinceTx EXCEPT ![i] = 0]
    /\ UNCHANGED <<pc, remaining, ready, info, failed, sockErr, waited>>

\* The interface goes down: the next read of its socket fails.
LinkFails(i) ==
    /\ pc # "done"
    /\ i \in Listening \ sockErr
    /\ sockErr' = sockErr \cup {i}
    /\ UNCHANGED <<pc, remaining, ready, info, failed, queue, waited, sinceTx>>

-----------------------------------------------------------------------------
(* The loop.                                                               *)

\* What select returns: the readable sockets of the list.
Readies == {i \in Listening : Readable(i)}

\* Mutant: the timeout starts again instead of running out.
Tick_Restarts ==
    /\ pc = "select"
    /\ remaining # <<>>
    /\ Readies = {}
    /\ waited < LldpTimeout
    /\ waited' = (waited + 1) % LldpTimeout
    /\ sinceTx' = [i \in Interfaces |->
                      IF sinceTx[i] < TxInterval THEN sinceTx[i] + 1 ELSE TxInterval]
    /\ UNCHANGED <<pc, remaining, ready, info, failed, queue, sockErr>>

\* Mutant: select blocks on when its timeout is over.
Tick_NoLimit ==
    /\ pc = "select"
    /\ remaining # <<>>
    /\ Readies = {}
    /\ waited' = waited + 1
    /\ sinceTx' = [i \in Interfaces |->
                      IF sinceTx[i] < TxInterval THEN sinceTx[i] + 1 ELSE TxInterval]
    /\ UNCHANGED <<pc, remaining, ready, info, failed, queue, sockErr>>

\* Time passes while select blocks.
Tick ==
    /\ pc = "select"
    /\ remaining # <<>>
    /\ Readies = {}
    /\ waited < LldpTimeout
    /\ waited' = waited + 1
    /\ sinceTx' = [i \in Interfaces |->
                      IF sinceTx[i] < TxInterval THEN sinceTx[i] + 1 ELSE TxInterval]
    /\ UNCHANGED <<pc, remaining, ready, info, failed, queue, sockErr>>

\* Mutant: the first `if not rlist' is missing, an empty answer goes on.
Select_NoEmptyCheck ==
    /\ pc = "select"
    /\ Readies # {} \/ waited = LldpTimeout
    /\ pc' = "reselect"
    /\ waited' = 0
    /\ UNCHANGED <<remaining, ready, info, failed, queue, sockErr, sinceTx>>

\* The first select of a round reports at least one socket.
Select ==
    /\ pc = "select"
    /\ Readies # {}
    /\ pc' = "reselect"
    /\ waited' = 0
    /\ UNCHANGED <<remaining, ready, info, failed, queue, sockErr, sinceTx>>

\* The round selects again, once per reported socket; the last answer is used.
Reselect ==
    /\ pc = "reselect"
    /\ Readies # {}
    /\ pc' = "receive"
    /\ ready' = Readies
    /\ UNCHANGED <<remaining, info, failed, queue, sockErr, waited, sinceTx>>

\* Mutant: the position is that in the list the loop started with.
Without_StaleIndex(i) ==
    LET index == CHOOSE n \in 1..Len(InterfaceList) : InterfaceList[n] = i
    IN  IF index <= Len(remaining) THEN RemoveAt(remaining, index) ELSE remaining

\* `del interfaces[index]', index being the position in a copy taken just before.
Without(i) ==
    LET index == CHOOSE n \in 1..Len(remaining) : remaining[n] = i
    IN  RemoveAt(remaining, index)

\* `rlist' is in the order of the list, and deletions keep that order.
NextToRead(i) ==
    /\ pc = "receive"
    /\ i \in ready
    /\ \E n \in 1..Len(remaining) :
          remaining[n] = i /\ \A m \in 1..n - 1 : remaining[m] \notin ready

\* Reading a socket fails: its interface is dropped, lldp_info is not touched.
ReceiveFails(i) ==
    /\ NextToRead(i)
    /\ i \in sockErr
    /\ ready' = ready \ {i}
    /\ sockErr' = sockErr \ {i}
    /\ failed' = failed \cup {i}
    /\ remaining' = Without(i)
    /\ UNCHANGED <<pc, info, queue, waited, sinceTx>>

\* A frame that yields TLVs: the interface is done with.
Hears(i) ==
    /\ NextToRead(i)
    /\ i \notin sockErr
    /\ Head(queue[i]) = "neighbour"
    /\ ready' = ready \ {i}
    /\ queue' = [queue EXCEPT ![i] = Tail(@)]
    /\ info' = [info EXCEPT ![i] = "tlvs"]
    /\ remaining' = Without(i)
    /\ UNCHANGED <<pc, failed, sockErr, waited, sinceTx>>

\* Mutant: the socket is drained after a frame that yields nothing.
HearsNothing_Drains(i) ==
    /\ NextToRead(i)
    /\ i \notin sockErr
    /\ Head(queue[i]) = "useless"
    /\ ready' = ready \ {i}
    /\ queue' = [queue EXCEPT ![i] = <<>>]
    /\ info' = [info EXCEPT ![i] = "empty"]
    /\ UNCHANGED <<pc, remaining, failed, sockErr, waited, sinceTx>>

\* Any other frame: its interface stays in the list.
HearsNothing(i) ==
    /\ NextToRead(i)
    /\ i \notin sockErr
    /\ Head(queue[i]) = "useless"
    /\ ready' = ready \ {i}
    /\ queue' = [queue EXCEPT ![i] = Tail(@)]
    /\ info' = [info EXCEPT ![i] = "empty"]
    /\ UNCHANGED <<pc, remaining, failed, sockErr, waited, sinceTx>>

NextRound ==
    /\ pc = "receive"
    /\ ready = {}
    /\ pc' = "select"
    /\ UNCHANGED <<remaining, ready, info, failed, queue, sockErr, waited, sinceTx>>

\* Mutant: every interface of the parameter gets an empty entry.
Leave_FillsAll ==
    /\ pc' = "done"
    /\ info' = [i \in Interfaces |-> "empty"]
    /\ UNCHANGED <<remaining, ready, failed, queue, sockErr, waited, sinceTx>>

\* Leaving the loop: what is still in the list gets an empty entry.
Leave ==
    /\ pc' = "done"
    /\ info' = [i \in Interfaces |-> IF i \in Listening THEN "empty" ELSE info[i]]
    /\ UNCHANGED <<remaining, ready, failed, queue, sockErr, waited, sinceTx>>

AllHeard ==
    /\ pc = "select"
    /\ remaining = <<>>
    /\ Leave

\* Mutant: a deadline ends the loop whatever has arrived meanwhile.
TimedOut_Deadline ==
    /\ pc \in {"select", "reselect"}
    /\ pc = "select" => waited = LldpTimeout
    /\ remaining # <<>>
    /\ Leave

\* A select that reports nothing ends the loop, in either place.
TimedOut ==
    /\ pc \in {"select", "reselect"}
    /\ pc = "select" => waited = LldpTimeout
    /\ remaining # <<>>
    /\ Readies = {}
    /\ Leave

Finished == pc = "done" /\ UNCHANGED vars

-----------------------------------------------------------------------------
Loop ==
    \/ Select \/ Reselect
    \/ \E i \in Interfaces : ReceiveFails(i) \/ Hears(i) \/ HearsNothing(i)
    \/ NextRound
    \/ AllHeard \/ TimedOut

Environment ==
    \E i \in Interfaces : NeighbourSends(i) \/ HostSends(i) \/ LinkFails(i)

Next == Loop \/ Tick \/ Environment \/ Finished

\* The module is a running process and time passes; nobody promises a frame.
Spec == Init /\ [][Next]_vars /\ WF_vars(Loop) /\ WF_vars(Tick)
-----------------------------------------------------------------------------
(* What the loop should guarantee.                                          *)

\* The list is edited by position while it is walked: it always holds exactly
\* the interfaces that neither delivered TLVs nor failed (lldp.py:361-383).
RemainingExact ==
    pc # "done" => Listening = {i \in Interfaces : info[i] # "tlvs" /\ i \notin failed}

\* The repeated select only widens the answer of the first: its timeout branch
\* (lldp.py:355-359) cannot be taken, so a round costs one timeout at most.
ReselectNeverEmpty == pc = "reselect" => Readies # {}

\* An interface reported as silent has no frame or error left unread: the loop
\* never gives up on data that arrived in time (lldp.py:340-349).
NothingLeftUnread ==
    pc = "done" => \A i \in Listening : queue[i] = <<>> /\ i \notin sockErr

\* The capture as its caller sees it (lldp.py:269-287).
Verdict == [i \in Interfaces |->
    IF i \in failed THEN "lost"
    ELSE IF info[i] = "tlvs" THEN "heard"
    ELSE IF pc = "done" THEN "silent" ELSE "pending"]

Contract == INSTANCE LldpContract WITH verdict <- Verdict, open <- (pc # "done")

\* The loop implements the contract of get_lldp_info: each interface is settled
\* once and for good, and only the unsettled ones are reported silent.
KeepsContract == Contract!Spec

\* The comment at lldp.py:385: interfaces without a packet get empty lists, so
\* every interface has an entry when the loop ends.
EveryInterfaceReported == pc = "done" => \A i \in Interfaces : info[i] # "unset"

\* A neighbour's frame that reached the socket of an interface still listened
\* on is delivered, whatever other frames and interfaces do, unless that socket
\* fails (lldp.py:361-383).
NeighbourHeard ==
    \A i \in Interfaces :
        (i \in Listening /\ "neighbour" \in ToSet(queue[i]))
            ~> (info[i] = "tlvs" \/ i \in failed)

\* The docstring at lldp.py:275-276 and the parameter's description at
\* lldp.py:45-46: after lldp_timeout the loop returns.
Ends == <>(pc = "done")

\* Frames of the host itself are the only thing that keeps the loop from ending:
\* each restarts the timeout (lldp.py:335-349) and none shortens the list.
EndsUnlessChatter ==
    <>(pc = "done") \/ []<><<\E i \in Interfaces : HostSends(i)>>_vars
=============================================================================
