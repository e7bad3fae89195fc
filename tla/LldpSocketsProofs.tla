-------------------------- MODULE LldpSocketsProofs --------------------------
(***************************************************************************)
(* Theorems about LldpSockets, for every list of interfaces and every      *)
(* number of runs: what is armed during the capture, what is undone after  *)
(* it, and that links keep their state.                                    *)
(***************************************************************************)
EXTENDS LldpSockets, TLAPS

\* The ifreq of an interface tells what happened to it: flags were read only of a
\* device that was there, which for a DPDK interface is its sink, and a device
\* that was missing stays missing.
IfreqInv ==
    /\ pc = "init" => ifr = [p \in Interfaces |-> "blank"]
    /\ \A p \in Dpdk : ifr[p] = "read" => p \in sink
    /\ \A p \in Interfaces : ifr[p] = "named" => ~Present(p)

\* A sink in a tuple is a sink on the host until __exit__ removes it.
SinkInv ==
    /\ pc = "init" => \A p \in sink : p < k
    /\ pc \in {"init", "enter", "capture"} => sink \subseteq ports \cap flows

\* What __enter__ has come to is armed.
EnterInv ==
    pc \in {"enter", "capture"} =>
        \A p \in Interfaces : p < k =>
            /\ ifr[p] = "read"
            /\ Present(p) => p \in promisc
            /\ p \in Dpdk => p \in sink

CaptureInv == pc = "capture" => k = N + 1

\* What __exit__ has come to is disarmed, whatever brought it there.
ExitInv ==
    pc = "exit" =>
        /\ outcome \in {"returned", "raised", "enterFailed"}
        /\ \A p \in Interfaces : (p < k /\ ifr[p] = "read") => p \notin promisc

\* After a capture __exit__ meets every sink and removes it.
CleanInv ==
    (pc = "exit" /\ outcome \in {"returned", "raised"}) =>
        /\ \A p \in Interfaces : ifr[p] = "read"
        /\ \A p \in Dpdk : IF p < k THEN p \notin ports /\ p \notin flows ELSE p \in ports

\* The saved flags of a device are its flags, as long as nobody changes them.
FlagsInv ==
    admin = 0 => \A p \in plugged : ifr[p] = "read" => (p \in savedUp <=> p \in up)

\* What the four properties need of one another: __exit__ undoes what is armed,
\* and it can because of what __enter__ has recorded.
SInv ==
    /\ TypeOK
    /\ IfreqInv /\ SinkInv
    /\ EnterInv /\ CaptureInv
    /\ ExitInv /\ CleanInv
    /\ FlagsInv
    /\ CaptureArmed /\ NothingLeftBehind /\ PromiscUndone

LEMMA InitSInv == Init => SInv
BY SocketsAssumption
   DEF Init, SInv, TypeOK, Interfaces, IfreqInv, SinkInv, EnterInv, CaptureInv, ExitInv,
       CleanInv, FlagsInv, CaptureArmed, NothingLeftBehind, PromiscUndone

\* What the four commands for a sink change, however far they come.
LEMMA SinkPrepared ==
    ASSUME NEW p \in Dpdk, PrepareSink(p)
    PROVE  /\ UNCHANGED <<plugged, promisc>>
           /\ ports \subseteq ports' /\ ports' \subseteq ports \cup {p}
           /\ flows \subseteq flows' /\ flows' \subseteq flows \cup {p}
           /\ up' = up \/ (up' = up \cup {p} /\ p \in ports')
           /\ sink' = sink \/ (sink' = sink \cup {p} /\ p \in ports' \cap flows')
<1>1. PICK succeeded \in 0..4 :
          /\ ports' = IF succeeded >= 1 THEN ports \cup {p} ELSE ports
          /\ flows' = IF succeeded >= 3 THEN flows \cup {p} ELSE flows
          /\ up' = IF succeeded = 4 THEN up \cup {p} ELSE up
          /\ sink' = IF succeeded = 4 THEN sink \cup {p} ELSE sink
          /\ UNCHANGED <<plugged, promisc>>
  BY DEF PrepareSink, RuleOf
<1>2. QED BY <1>1, SMT

\* One step per action: types, the records of the process, what is armed, what is
\* undone.
LEMMA NextSInv == SInv /\ [Next]_vars => SInv'
<1> SUFFICES ASSUME SInv, [Next]_vars PROVE SInv'
  OBVIOUS
<1>0. /\ TypeOK
      /\ IfreqInv /\ SinkInv
      /\ EnterInv /\ CaptureInv
      /\ ExitInv /\ CleanInv
      /\ FlagsInv
      /\ CaptureArmed /\ NothingLeftBehind /\ PromiscUndone
  BY DEF SInv
<1>1. CASE NewTuple
  <2>1. TypeOK'
    <3>1. sock' \in [Interfaces -> {"none", "open", "closed"}] /\ k' \in 1..N + 1
      BY <1>0, <1>1, SocketsAssumption, SMT DEF NewTuple, TypeOK, Interfaces
    <3>2. CASE k \in Dpdk
      <4>1. PrepareSink(k) /\ k \in Interfaces
        BY <1>1, <3>2, SocketsAssumption DEF NewTuple
      <4>2. /\ UNCHANGED <<plugged, promisc>>
            /\ ports' \subseteq Dpdk /\ flows' \subseteq Dpdk
        BY <1>0, <3>2, <4>1, SinkPrepared DEF TypeOK
      <4>3. sink' \subseteq Dpdk
        <5>1. sink' = sink \/ sink' = sink \cup {k}
          BY <3>2, <4>1, SinkPrepared
        <5>2. QED BY <1>0, <3>2, <5>1 DEF TypeOK
      <4>4. promisc' \subseteq plugged' \cup ports'
        BY <1>0, <3>2, <4>1, SinkPrepared DEF TypeOK
      <4>5. up' \subseteq plugged' \cup ports'
        <5>1. ports \subseteq ports' /\ (up' = up \/ (up' = up \cup {k} /\ k \in ports'))
          BY <3>2, <4>1, SinkPrepared
        <5>2. up \subseteq plugged' \cup ports'
          BY <1>0, <4>2, <5>1 DEF TypeOK
        <5>3. QED BY <5>1, <5>2
      <4>6. QED BY <1>0, <1>1, <3>1, <4>2, <4>3, <4>4, <4>5, SMT DEF NewTuple, TypeOK, bounds
    <3>3. CASE k \notin Dpdk
      BY <1>0, <1>1, <3>1, <3>3, SMT DEF NewTuple, TypeOK, host, bounds
    <3>4. QED BY <3>2, <3>3
  <2>2. (IfreqInv /\ SinkInv /\ FlagsInv)'
    <3>1. pc = "init" /\ pc' = "init" /\ ifr' = ifr /\ k' = k + 1
      BY <1>1 DEF NewTuple
    <3>2. \A p \in Interfaces : ifr[p] = "blank"
      BY <1>0, <3>1 DEF IfreqInv
    <3>3. IfreqInv'
      BY <1>0, <3>1, <3>2, SocketsAssumption, SMT DEF IfreqInv
    <3>4. SinkInv'
      <4>1. CASE k \in Dpdk
        <5>1. PrepareSink(k)
          BY <1>1, <4>1 DEF NewTuple
        <5>2. sink' \subseteq ports' \cap flows'
          BY <1>0, <3>1, <4>1, <5>1, SinkPrepared DEF SinkInv
        <5>3. sink' \subseteq sink \cup {k}
          BY <4>1, <5>1, SinkPrepared
        <5>4. \A p \in sink' : p < k'
          BY <1>0, <3>1, <4>1, <5>3, SMT DEF SinkInv, TypeOK, Interfaces
        <5>5. QED BY <5>2, <5>4 DEF SinkInv
      <4>2. CASE k \notin Dpdk
        <5>1. sink' = sink /\ ports' = ports /\ flows' = flows
          BY <1>1, <4>2 DEF NewTuple, host
        <5>2. \A p \in sink' : p < k'
          BY <1>0, <3>1, <5>1, SocketsAssumption, SMT DEF SinkInv, TypeOK, Interfaces
        <5>3. QED BY <1>0, <3>1, <5>1, <5>2 DEF SinkInv
      <4>3. QED BY <4>1, <4>2
    <3>5. FlagsInv'
      <4>1. admin' = admin /\ plugged' = plugged /\ plugged \subseteq Interfaces
        BY <1>0, <1>1, SMT DEF NewTuple, PrepareSink, TypeOK, host, bounds
      <4>2. QED BY <3>1, <3>2, <4>1 DEF FlagsInv
    <3>6. QED BY <3>3, <3>4, <3>5
  <2>3. (EnterInv /\ CaptureInv /\ CaptureArmed)'
    BY <1>0, <1>1, SMT DEF NewTuple, EnterInv, CaptureInv,
       CaptureArmed
  <2>4. (ExitInv /\ CleanInv /\ NothingLeftBehind /\ PromiscUndone)'
    BY <1>0, <1>1, SMT DEF NewTuple, ExitInv, CleanInv,
       NothingLeftBehind, PromiscUndone
  <2>5. QED BY <2>1, <2>2, <2>3, <2>4 DEF SInv
<1>2. CASE SocketFails
  <2>1. TypeOK'
    BY <1>0, <1>2, SMT DEF SocketFails, process, host, bounds, TypeOK
  <2>2. (IfreqInv /\ SinkInv /\ FlagsInv)'
    BY <1>0, <1>2, SMT DEF SocketFails, process, host, TypeOK,
       IfreqInv, SinkInv, FlagsInv
  <2>3. (EnterInv /\ CaptureInv /\ CaptureArmed)'
    BY <1>0, <1>2, SMT DEF SocketFails, EnterInv, CaptureInv,
       CaptureArmed
  <2>4. (ExitInv /\ CleanInv /\ NothingLeftBehind /\ PromiscUndone)'
    BY <1>0, <1>2, SMT DEF SocketFails, ExitInv, CleanInv,
       NothingLeftBehind, PromiscUndone
  <2>5. QED BY <2>1, <2>2, <2>3, <2>4 DEF SInv
<1>3. CASE InitDone
  <2>1. TypeOK'
    BY <1>0, <1>3, SMT DEF InitDone, process, host, bounds, TypeOK
  <2>2. (IfreqInv /\ SinkInv /\ FlagsInv)'
    BY <1>0, <1>3, SMT DEF InitDone, process, host, TypeOK, IfreqInv,
       SinkInv, FlagsInv
  <2>3. (EnterInv /\ CaptureInv /\ CaptureArmed)'
    BY <1>0, <1>3, SMT DEF InitDone, Interfaces, EnterInv,
       CaptureInv, CaptureArmed
  <2>4. (ExitInv /\ CleanInv /\ NothingLeftBehind /\ PromiscUndone)'
    BY <1>0, <1>3, SMT DEF InitDone, ExitInv, CleanInv,
       NothingLeftBehind, PromiscUndone
  <2>5. QED BY <2>1, <2>2, <2>3, <2>4 DEF SInv
<1>4. CASE EnterInterface
  <2>1. TypeOK'
    BY <1>0, <1>4, SocketsAssumption, SMT DEF EnterInterface, FlagsRead, bounds, TypeOK
  <2>2. (IfreqInv /\ SinkInv /\ FlagsInv)'
    BY <1>0, <1>4, SMT DEF EnterInterface, FlagsRead, Present,
       bounds, TypeOK, IfreqInv, SinkInv, FlagsInv
  <2>3. (EnterInv /\ CaptureInv /\ CaptureArmed)'
    BY <1>0, <1>4, SMT DEF EnterInterface, FlagsRead, Present,
       TypeOK, EnterInv, CaptureInv, CaptureArmed
  <2>4. (ExitInv /\ CleanInv /\ NothingLeftBehind /\ PromiscUndone)'
    BY <1>0, <1>4, SMT DEF EnterInterface, ExitInv, CleanInv,
       NothingLeftBehind, PromiscUndone
  <2>5. QED BY <2>1, <2>2, <2>3, <2>4 DEF SInv
<1>5. CASE NoDevice
  <2>1. TypeOK'
    BY <1>0, <1>5, SocketsAssumption, SMT DEF NoDevice, Fails, Interfaces, bounds,
       TypeOK
  <2>2. (IfreqInv /\ SinkInv /\ FlagsInv)'
    BY <1>0, <1>5, SMT DEF NoDevice, Fails, Present, bounds,
       IfreqInv, SinkInv, FlagsInv
  <2>3. (EnterInv /\ CaptureInv /\ CaptureArmed)'
    BY <1>0, <1>5, SMT DEF NoDevice, Fails, EnterInv, CaptureInv,
       CaptureArmed
  <2>4. (ExitInv /\ CleanInv /\ NothingLeftBehind /\ PromiscUndone)'
    BY <1>0, <1>5, SMT DEF NoDevice, Fails, Interfaces, ExitInv,
       CleanInv, NothingLeftBehind, PromiscUndone
  <2>5. QED BY <2>1, <2>2, <2>3, <2>4 DEF SInv
<1>6. CASE EnterFails
  <2>1. TypeOK'
    BY <1>0, <1>6, SocketsAssumption, SMT DEF EnterFails, Fails, FlagsRead, Present,
       bounds, TypeOK
  <2>2. (IfreqInv /\ SinkInv /\ FlagsInv)'
    BY <1>0, <1>6, SMT DEF EnterFails, Fails, FlagsRead, Present,
       bounds, TypeOK, IfreqInv, SinkInv, FlagsInv
  <2>3. (EnterInv /\ CaptureInv /\ CaptureArmed)'
    BY <1>0, <1>6, SMT DEF EnterFails, Fails, EnterInv, CaptureInv,
       CaptureArmed
  <2>4. (ExitInv /\ CleanInv /\ NothingLeftBehind /\ PromiscUndone)'
    BY <1>0, <1>6, SMT DEF EnterFails, Fails, Interfaces, ExitInv,
       CleanInv, NothingLeftBehind, PromiscUndone
  <2>5. QED BY <2>1, <2>2, <2>3, <2>4 DEF SInv
<1>7. CASE Entered
  <2>1. TypeOK'
    BY <1>0, <1>7, SMT DEF Entered, process, host, bounds, TypeOK
  <2>2. (IfreqInv /\ SinkInv /\ FlagsInv)'
    BY <1>0, <1>7, SMT DEF Entered, Present, process, host, bounds,
       IfreqInv, SinkInv, FlagsInv
  <2>3. (EnterInv /\ CaptureInv /\ CaptureArmed)'
    BY <1>0, <1>7, SocketsAssumption, SMT DEF Entered, Interfaces, Present, process,
       host, SinkInv, EnterInv, CaptureInv, CaptureArmed
  <2>4. (ExitInv /\ CleanInv /\ NothingLeftBehind /\ PromiscUndone)'
    BY <1>0, <1>7, SMT DEF Entered, ExitInv, CleanInv,
       NothingLeftBehind, PromiscUndone
  <2>5. QED BY <2>1, <2>2, <2>3, <2>4 DEF SInv
<1>8. CASE CaptureEnds
  <2>1. TypeOK'
    BY <1>0, <1>8, SocketsAssumption, SMT DEF CaptureEnds, process, host, bounds, TypeOK
  <2>2. (IfreqInv /\ SinkInv /\ FlagsInv)'
    BY <1>0, <1>8, SMT DEF CaptureEnds, Present, process, host,
       bounds, IfreqInv, SinkInv, FlagsInv
  <2>3. (EnterInv /\ CaptureInv /\ CaptureArmed)'
    BY <1>0, <1>8, SMT DEF CaptureEnds, EnterInv, CaptureInv,
       CaptureArmed
  <2>4. (ExitInv /\ CleanInv /\ NothingLeftBehind /\ PromiscUndone)'
    BY <1>0, <1>8, SocketsAssumption, SMT DEF CaptureEnds, Interfaces, process, host,
       EnterInv, CaptureInv, ExitInv, CleanInv, CaptureArmed, NothingLeftBehind,
       PromiscUndone
  <2>5. QED BY <2>1, <2>2, <2>3, <2>4 DEF SInv
<1>9. CASE RestoreDevice
  <2>1. TypeOK'
    BY <1>0, <1>9, SocketsAssumption, SMT DEF RestoreDevice, FlagsWritten, Present,
       bounds, TypeOK
  <2>2. (IfreqInv /\ SinkInv /\ FlagsInv)'
    BY <1>0, <1>9, SMT DEF RestoreDevice, FlagsWritten, Present,
       bounds, IfreqInv, SinkInv, FlagsInv
  <2>3. (EnterInv /\ CaptureInv /\ CaptureArmed)'
    BY <1>0, <1>9, SMT DEF RestoreDevice, EnterInv, CaptureInv,
       CaptureArmed
  <2>4. (ExitInv /\ CleanInv /\ NothingLeftBehind /\ PromiscUndone)'
    BY <1>0, <1>9, SocketsAssumption, SMT DEF RestoreDevice, Interfaces, TypeOK,
       IfreqInv, ExitInv, CleanInv, NothingLeftBehind, PromiscUndone
  <2>5. QED BY <2>1, <2>2, <2>3, <2>4 DEF SInv
<1>10. CASE RestoreSink
  <2>1. TypeOK'
    <3>1. k \in Interfaces /\ k' \in 1..N + 1
      BY <1>0, <1>10, SocketsAssumption, SMT DEF RestoreSink, TypeOK, Interfaces
    <3>2. flows' \subseteq Dpdk /\ ports' \subseteq Dpdk
      BY <1>0, <1>10 DEF RestoreSink, TypeOK
    <3>3. promisc' \subseteq plugged' \cup ports'
      BY <1>0, <1>10 DEF RestoreSink, TypeOK
    <3>4. up' \subseteq plugged' \cup ports'
      BY <1>0, <1>10 DEF RestoreSink, TypeOK
    <3>5. sock' \in [Interfaces -> {"none", "open", "closed"}]
      BY <1>0, <1>10, <3>1 DEF RestoreSink, TypeOK
    <3>6. QED BY <1>0, <1>10, <3>1, <3>2, <3>3, <3>4, <3>5, SMT DEF RestoreSink, TypeOK, bounds
  <2>2. (IfreqInv /\ SinkInv /\ FlagsInv)'
    BY <1>0, <1>10, SMT DEF RestoreSink, Present, bounds, TypeOK,
       IfreqInv, SinkInv, FlagsInv
  <2>3. (EnterInv /\ CaptureInv /\ CaptureArmed)'
    BY <1>0, <1>10, SMT DEF RestoreSink, EnterInv, CaptureInv,
       CaptureArmed
  <2>4. (ExitInv /\ CleanInv /\ NothingLeftBehind /\ PromiscUndone)'
    BY <1>0, <1>10, SocketsAssumption, SMT DEF RestoreSink, RulesDeleted, TypeOK,
       ExitInv, CleanInv, NothingLeftBehind, PromiscUndone
  <2>5. QED BY <2>1, <2>2, <2>3, <2>4 DEF SInv
<1>11. CASE RestoreAborts
  <2>1. TypeOK'
    BY <1>0, <1>11, SocketsAssumption, SMT DEF RestoreAborts, FlagsWritten, Present,
       bounds, TypeOK
  <2>2. (IfreqInv /\ SinkInv /\ FlagsInv)'
    BY <1>0, <1>11, SMT DEF RestoreAborts, FlagsWritten, Present,
       bounds, IfreqInv, SinkInv, FlagsInv
  <2>3. (EnterInv /\ CaptureInv /\ CaptureArmed)'
    BY <1>0, <1>11, SMT DEF RestoreAborts, EnterInv, CaptureInv,
       CaptureArmed
  <2>4. (ExitInv /\ CleanInv /\ NothingLeftBehind /\ PromiscUndone)'
    BY <1>0, <1>11, SMT DEF RestoreAborts, ExitInv, CleanInv,
       NothingLeftBehind, PromiscUndone
  <2>5. QED BY <2>1, <2>2, <2>3, <2>4 DEF SInv
<1>12. CASE RestoreSkips
  <2>1. TypeOK'
    BY <1>0, <1>12, SocketsAssumption, SMT DEF RestoreSkips, process, host, bounds,
       TypeOK
  <2>2. (IfreqInv /\ SinkInv /\ FlagsInv)'
    BY <1>0, <1>12, SMT DEF RestoreSkips, Present, process, host,
       bounds, IfreqInv, SinkInv, FlagsInv
  <2>3. (EnterInv /\ CaptureInv /\ CaptureArmed)'
    BY <1>0, <1>12, SMT DEF RestoreSkips, EnterInv, CaptureInv,
       CaptureArmed
  <2>4. (ExitInv /\ CleanInv /\ NothingLeftBehind /\ PromiscUndone)'
    BY <1>0, <1>12, SocketsAssumption, SMT DEF RestoreSkips, Interfaces, Present,
       process, host, TypeOK, IfreqInv, ExitInv, CleanInv, NothingLeftBehind,
       PromiscUndone
  <2>5. QED BY <2>1, <2>2, <2>3, <2>4 DEF SInv
<1>13. CASE Exited
  <2>1. TypeOK'
    BY <1>0, <1>13, SMT DEF Exited, process, host, bounds, TypeOK
  <2>2. (IfreqInv /\ SinkInv /\ FlagsInv)'
    BY <1>0, <1>13, SMT DEF Exited, Present, process, host, bounds,
       IfreqInv, SinkInv, FlagsInv
  <2>3. (EnterInv /\ CaptureInv /\ CaptureArmed)'
    BY <1>0, <1>13, SMT DEF Exited, EnterInv, CaptureInv,
       CaptureArmed
  <2>4. (ExitInv /\ CleanInv /\ NothingLeftBehind /\ PromiscUndone)'
    BY <1>0, <1>13, SocketsAssumption, SMT DEF Exited, Interfaces, process, host,
       TypeOK, ExitInv, CleanInv, NothingLeftBehind, PromiscUndone
  <2>5. QED BY <2>1, <2>2, <2>3, <2>4 DEF SInv
<1>14. CASE Killed
  <2>1. TypeOK'
    BY <1>0, <1>14, SMT DEF Killed, process, host, bounds, TypeOK
  <2>2. (IfreqInv /\ SinkInv /\ FlagsInv)'
    BY <1>0, <1>14, SMT DEF Killed, Present, process, host, bounds,
       IfreqInv, SinkInv, FlagsInv
  <2>3. (EnterInv /\ CaptureInv /\ CaptureArmed)'
    BY <1>0, <1>14, SMT DEF Killed, EnterInv, CaptureInv,
       CaptureArmed
  <2>4. (ExitInv /\ CleanInv /\ NothingLeftBehind /\ PromiscUndone)'
    BY <1>0, <1>14, SMT DEF Killed, ExitInv, CleanInv,
       NothingLeftBehind, PromiscUndone
  <2>5. QED BY <2>1, <2>2, <2>3, <2>4 DEF SInv
<1>15. CASE RunsAgain
  <2>1. TypeOK'
    BY <1>0, <1>15, SocketsAssumption, SMT DEF RunsAgain, host, TypeOK
  <2>2. (IfreqInv /\ SinkInv /\ FlagsInv)'
    BY <1>0, <1>15, SocketsAssumption, SMT DEF RunsAgain, host, TypeOK, IfreqInv,
       SinkInv, FlagsInv
  <2>3. (EnterInv /\ CaptureInv /\ CaptureArmed)'
    BY <1>0, <1>15, SMT DEF RunsAgain, EnterInv, CaptureInv,
       CaptureArmed
  <2>4. (ExitInv /\ CleanInv /\ NothingLeftBehind /\ PromiscUndone)'
    BY <1>0, <1>15, SMT DEF RunsAgain, ExitInv, CleanInv,
       NothingLeftBehind, PromiscUndone
  <2>5. QED BY <2>1, <2>2, <2>3, <2>4 DEF SInv
<1>16. ASSUME NEW q \in Interfaces, Unplug(q) PROVE SInv'
  <2>1. TypeOK'
    BY <1>0, <1>16, SMT DEF Unplug, process, bounds, TypeOK
  <2>2. (IfreqInv /\ SinkInv /\ FlagsInv)'
    BY <1>0, <1>16, SMT DEF Unplug, Present, process, bounds,
       IfreqInv, SinkInv, FlagsInv
  <2>3. (EnterInv /\ CaptureInv /\ CaptureArmed)'
    BY <1>0, <1>16, SMT DEF Unplug, Present, process, TypeOK,
       EnterInv, CaptureInv, CaptureArmed
  <2>4. (ExitInv /\ CleanInv /\ NothingLeftBehind /\ PromiscUndone)'
    BY <1>0, <1>16, SMT DEF Unplug, process, ExitInv, CleanInv,
       NothingLeftBehind, PromiscUndone
  <2>5. QED BY <2>1, <2>2, <2>3, <2>4 DEF SInv
<1>17. ASSUME NEW q \in Interfaces, AdminToggles(q) PROVE SInv'
  <2>1. TypeOK'
    BY <1>0, <1>17, SocketsAssumption, SMT DEF AdminToggles, process, TypeOK
  <2>2. (IfreqInv /\ SinkInv /\ FlagsInv)'
    BY <1>0, <1>17, SMT DEF AdminToggles, Present, process, TypeOK,
       IfreqInv, SinkInv, FlagsInv
  <2>3. (EnterInv /\ CaptureInv /\ CaptureArmed)'
    BY <1>0, <1>17, SMT DEF AdminToggles, Present, process, EnterInv,
       CaptureInv, CaptureArmed
  <2>4. (ExitInv /\ CleanInv /\ NothingLeftBehind /\ PromiscUndone)'
    BY <1>0, <1>17, SMT DEF AdminToggles, process, ExitInv, CleanInv,
       NothingLeftBehind, PromiscUndone
  <2>5. QED BY <2>1, <2>2, <2>3, <2>4 DEF SInv
<1>18. CASE Finished \/ UNCHANGED vars
  <2>1. UNCHANGED vars
    BY <1>18 DEF Finished
  <2>2. QED
    BY <1>0, <2>1 DEF SInv, vars, process, host, bounds, TypeOK, IfreqInv, SinkInv, EnterInv,
       CaptureInv, ExitInv, CleanInv, FlagsInv, CaptureArmed, NothingLeftBehind, PromiscUndone,
       Present
<1>19. QED
  BY <1>1, <1>2, <1>3, <1>4, <1>5, <1>6, <1>7, <1>8, <1>9, <1>10, <1>11, <1>12, <1>13,
     <1>14, <1>15, <1>16, <1>17, <1>18 DEF Next, Method

LEMMA Invariance == Spec => []SInv
<1>1. Init => SInv
  BY InitSInv
<1>2. SInv /\ [Next]_vars => SInv'
  BY NextSInv
<1>3. QED BY <1>1, <1>2, PTL DEF Spec

-----------------------------------------------------------------------------
\* The state of process and host has its type after any number of runs.
THEOREM TypeCorrect == Spec => []TypeOK
<1>1. SInv => TypeOK
  BY DEF SInv
<1>2. QED BY <1>1, Invariance, PTL

\* During the capture every device that is there is in promiscuous mode and every
\* DPDK interface has its sink and rule (lldp.py:108-112, 114-139).
THEOREM Armed == Spec => []CaptureArmed
<1>1. SInv => CaptureArmed
  BY DEF SInv
<1>2. QED BY <1>1, Invariance, PTL

\* A `with' statement entered and left without a failing command leaves nothing on
\* the host, of this run or of those before it (lldp.py:156-169, 255-266).
THEOREM Clean == Spec => []NothingLeftBehind
<1>1. SInv => NothingLeftBehind
  BY DEF SInv
<1>2. QED BY <1>1, Invariance, PTL

\* However __enter__ fails, what it put in promiscuous mode is taken out of it
\* (lldp.py:147-151).
THEOREM Undone == Spec => []PromiscUndone
<1>1. SInv => PromiscUndone
  BY DEF SInv
<1>2. QED BY <1>1, Invariance, PTL

-----------------------------------------------------------------------------
\* Flags are written back unchanged, as nobody has changed the link meanwhile.
LEMMA MethodKeepsLinks ==
    ASSUME SInv, Method, admin = 0
    PROVE  \A p \in plugged : p \in up <=> p \in up'
<1> SUFFICES ASSUME NEW p \in plugged PROVE p \in up <=> p \in up'
  OBVIOUS
<1>0. TypeOK /\ IfreqInv /\ FlagsInv
  BY DEF SInv
<1>1. p \in Interfaces /\ p \notin Dpdk /\ p \notin sink
  BY <1>0 DEF TypeOK
<1>2. CASE NewTuple
  BY <1>1, <1>2, SMT DEF NewTuple, PrepareSink, host
<1>3. CASE RestoreDevice \/ RestoreAborts
  <2>1. ifr[k] # "blank" /\ Present(k) /\ k \in Interfaces /\ up' = FlagsWritten(k)
    BY <1>0, <1>3, SMT DEF RestoreDevice, RestoreAborts, TypeOK, Interfaces
  <2>2. ifr[k] = "read"
    BY <1>0, <2>1 DEF TypeOK, IfreqInv
  <2>3. p = k => (p \in savedUp <=> p \in up)
    BY <1>0, <2>2 DEF FlagsInv
  <2>4. QED BY <2>1, <2>3, SMT DEF FlagsWritten
<1>4. CASE RestoreSink
  BY <1>1, <1>4, SMT DEF RestoreSink
<1>5. CASE EnterInterface \/ NoDevice \/ EnterFails
  BY <1>5 DEF EnterInterface, NoDevice, EnterFails, Fails
<1>6. CASE SocketFails \/ InitDone \/ Entered \/ CaptureEnds \/ RestoreSkips \/ Exited
  BY <1>6 DEF SocketFails, InitDone, Entered, CaptureEnds, RestoreSkips, Exited, host
<1>7. QED BY <1>2, <1>3, <1>4, <1>5, <1>6 DEF Method

\* As long as nobody else touches the links, no step of the module sets a device up
\* or down that the host had before (lldp.py:120-125, 158-161).
THEOREM LinksKept == Spec => LinkStateKept
<1>1. SInv /\ [Next]_vars
          => [(Method /\ admin = 0) => \A p \in plugged : p \in up <=> p \in up']_vars
  BY MethodKeepsLinks
<1>2. QED BY <1>1, Invariance, PTL DEF Spec, LinkStateKept
=============================================================================
