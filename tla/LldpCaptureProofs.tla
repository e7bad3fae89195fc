-------------------------- MODULE LldpCaptureProofs --------------------------
(***************************************************************************)
(* Proofs about the receive loop, for every list of interfaces, timeout,   *)
(* rate of transmission and socket buffer.                                 *)
(***************************************************************************)
EXTENDS LldpTiming, SequenceTheorems, TLAPS

Elements(s) == {s[n] : n \in 1..Len(s)}

Distinct(s) == \A m, n \in 1..Len(s) : s[m] = s[n] => m = n

\* Deleting a position of a list without duplicates removes that element, keeps
\* all others, and leaves no duplicates.
LEMMA RemoveAtElements ==
    ASSUME NEW S, NEW s \in Seq(S), Distinct(s), NEW n \in 1..Len(s)
    PROVE  /\ RemoveAt(s, n) \in Seq(S)
           /\ Elements(RemoveAt(s, n)) = Elements(s) \ {s[n]}
           /\ Distinct(RemoveAt(s, n))
           /\ Len(RemoveAt(s, n)) = Len(s) - 1
<1> DEFINE r == RemoveAt(s, n)
<1>1. /\ r \in Seq(S)
      /\ Len(r) = Len(s) - 1
      /\ \A j \in 1..Len(r) : r[j] = IF j < n THEN s[j] ELSE s[j + 1]
  <2> DEFINE before == SubSeq(s, 1, n - 1)
             after == SubSeq(s, n + 1, Len(s))
  <2>1. /\ before \in Seq(S) /\ Len(before) = n - 1
        /\ \A j \in 1..n - 1 : before[j] = s[j]
    BY SubSeqProperties
  <2>2. /\ after \in Seq(S) /\ Len(after) = Len(s) - n
        /\ \A j \in 1..Len(s) - n : after[j] = s[n + j]
    BY SubSeqProperties
  <2>3. r = before \o after
    BY DEF RemoveAt
  <2>4. /\ r \in Seq(S) /\ Len(r) = Len(s) - 1
        /\ \A j \in 1..Len(s) - 1 :
              r[j] = IF j <= n - 1 THEN before[j] ELSE after[j - (n - 1)]
    <3> HIDE DEF before, after, r
    <3>1. /\ r \in Seq(S) /\ Len(r) = Len(before) + Len(after)
          /\ \A j \in 1..Len(before) + Len(after) :
                r[j] = IF j <= Len(before) THEN before[j] ELSE after[j - Len(before)]
      BY <2>1, <2>2, <2>3, ConcatProperties
    <3>2. Len(before) + Len(after) = Len(s) - 1
      BY <2>1, <2>2
    <3>3. QED BY <2>1, <3>1, <3>2
  <2>5. \A j \in 1..Len(s) - 1 : r[j] = IF j < n THEN s[j] ELSE s[j + 1]
    <3> HIDE DEF before, after, r
    <3>1. QED BY <2>1, <2>2, <2>4
  <2>6. QED BY <2>4, <2>5
<1>2. Elements(r) \subseteq Elements(s) \ {s[n]}
  BY <1>1 DEF Elements, Distinct
<1>3. ASSUME NEW j \in 1..Len(s), j # n PROVE s[j] \in Elements(r)
  <2>1. CASE j < n
    BY <1>1, <2>1 DEF Elements
  <2>2. CASE j > n
    <3>1. j - 1 \in 1..Len(r) /\ r[j - 1] = s[j]
      BY <1>1, <2>2
    <3>2. QED BY <3>1 DEF Elements
  <2>3. QED BY <1>3, <2>1, <2>2
<1>4. Elements(s) \ {s[n]} \subseteq Elements(r)
  BY <1>3 DEF Elements
<1>5. Distinct(r)
  BY <1>1 DEF Distinct
<1>6. QED BY <1>1, <1>2, <1>4, <1>5

\* `del interfaces[index]' takes away the interface that was read and no other.
LEMMA WithoutElements ==
    ASSUME remaining \in Seq(Interfaces), Distinct(remaining),
           NEW i \in Elements(remaining)
    PROVE  /\ Without(i) \in Seq(Interfaces)
           /\ Elements(Without(i)) = Elements(remaining) \ {i}
           /\ Distinct(Without(i))
           /\ Len(Without(i)) = Len(remaining) - 1
<1> DEFINE index == CHOOSE n \in 1..Len(remaining) : remaining[n] = i
<1>1. index \in 1..Len(remaining) /\ remaining[index] = i
  BY DEF Elements
<1>2. QED BY <1>1, RemoveAtElements DEF Without

-----------------------------------------------------------------------------
\* What is read has been reported readable, and nothing takes it away before.
ReadyReadable ==
    /\ pc # "receive" => ready = {}
    /\ ready \subseteq Listening
    /\ \A i \in ready : Readable(i)

IInv ==
    /\ TypeOK
    /\ Distinct(remaining)
    /\ RemainingExact
    /\ ReadyReadable
    /\ ReselectNeverEmpty
    /\ NothingLeftUnread

\* The interface to read next is in the list and goes out of it alone.
LEMMA ReadOne ==
    ASSUME IInv, NEW i \in Interfaces, NextToRead(i)
    PROVE  /\ pc = "receive" /\ i \in ready /\ i \in Elements(remaining)
           /\ Readable(i)
           /\ Without(i) \in Seq(Interfaces)
           /\ Elements(Without(i)) = Elements(remaining) \ {i}
           /\ Distinct(Without(i))
           /\ Len(Without(i)) = Len(remaining) - 1
<1>1. pc = "receive" /\ i \in ready /\ i \in Elements(remaining) /\ Readable(i)
  BY DEF IInv, NextToRead, Elements, ReadyReadable
<1>2. QED BY <1>1, WithoutElements DEF IInv, TypeOK

LEMMA InitIInv == Init => IInv
<1> SUFFICES ASSUME Init PROVE IInv
  OBVIOUS
<1>1. TypeOK
  BY ListAssumption, BoundsAssumption DEF Init, TypeOK
<1>2. Distinct(remaining) /\ RemainingExact
  BY ListAssumption DEF Init, Distinct, RemainingExact, Listening, Interfaces
<1>3. ReadyReadable /\ ReselectNeverEmpty /\ NothingLeftUnread
  BY DEF Init, ReadyReadable, ReselectNeverEmpty, NothingLeftUnread
<1>4. QED BY <1>1, <1>2, <1>3 DEF IInv

LEMMA NextIInv == IInv /\ [Next]_vars => IInv'
<1> SUFFICES ASSUME IInv, [Next]_vars PROVE IInv'
  OBVIOUS
<1> USE ListAssumption, BoundsAssumption
<1>1. Listening = Elements(remaining)
  BY DEF Listening, Elements
<1>2. Listening' = Elements(remaining')
  BY DEF Listening, Elements
<1>3. TypeOK /\ Distinct(remaining) /\ RemainingExact /\ ReadyReadable
      /\ ReselectNeverEmpty /\ NothingLeftUnread
  BY DEF IInv
<1>4. ASSUME NEW i \in Interfaces, NEW frame \in Frames, Arrives(i, frame),
             UNCHANGED <<pc, remaining, ready, info, failed, sockErr, waited>>,
             sinceTx' \in [Interfaces -> 0..TxInterval]
      PROVE  IInv'
  <2>1. TypeOK'
    BY <1>3, <1>4 DEF TypeOK, Arrives
  <2>2. \A j \in Interfaces : Readable(j) => Readable(j)'
    <3>1. queue'[i] # <<>> /\ \A j \in Interfaces \ {i} : queue'[j] = queue[j]
      BY <1>3, <1>4 DEF TypeOK, Arrives
    <3>2. QED BY <1>4, <3>1 DEF Readable
  <2>3. UNCHANGED Listening
    BY <1>4 DEF Listening
  <2>4. (Distinct(remaining) /\ RemainingExact)'
    BY <1>3, <1>4, <2>3 DEF RemainingExact, Distinct
  <2>5. (ReadyReadable /\ ReselectNeverEmpty)'
    <3>1. Listening \subseteq Interfaces
      BY <1>3 DEF TypeOK, Listening
    <3>2. ReadyReadable'
      BY <1>3, <1>4, <2>2, <2>3, <3>1 DEF ReadyReadable
    <3>3. Readies \subseteq Readies'
      BY <2>2, <2>3, <3>1 DEF Readies
    <3>4. ReselectNeverEmpty'
      BY <1>3, <1>4, <3>3 DEF ReselectNeverEmpty
    <3>5. QED BY <3>2, <3>4
  <2>6. NothingLeftUnread'
    BY <1>4 DEF NothingLeftUnread, Arrives
  <2>7. QED BY <2>1, <2>4, <2>5, <2>6 DEF IInv
<1>5. ASSUME NEW i \in Interfaces, NeighbourSends(i) PROVE IInv'
  BY <1>3, <1>4, <1>5 DEF NeighbourSends, Frames, TypeOK
<1>6. ASSUME NEW i \in Interfaces, HostSends(i) PROVE IInv'
  <2>1. sinceTx' \in [Interfaces -> 0..TxInterval]
    BY <1>3, <1>6 DEF HostSends, TypeOK
  <2>2. QED BY <1>4, <1>6, <2>1 DEF HostSends, Frames
<1>7. ASSUME NEW i \in Interfaces, LinkFails(i) PROVE IInv'
  <2>1. TypeOK'
    BY <1>3, <1>7 DEF LinkFails, TypeOK
  <2>2. UNCHANGED Listening
    BY <1>7 DEF LinkFails, Listening
  <2>3. (Distinct(remaining) /\ RemainingExact)'
    BY <1>3, <1>7, <2>2 DEF LinkFails, RemainingExact, Distinct
  <2>4. (ReadyReadable /\ ReselectNeverEmpty)'
    BY <1>3, <1>7, <2>2 DEF LinkFails, ReadyReadable, ReselectNeverEmpty, Readies, Readable
  <2>5. NothingLeftUnread'
    BY <1>7 DEF LinkFails, NothingLeftUnread
  <2>6. QED BY <2>1, <2>3, <2>4, <2>5 DEF IInv
<1>8. CASE Tick
  <2>1. TypeOK'
    BY <1>3, <1>8 DEF Tick, TypeOK
  <2>2. UNCHANGED <<Listening, Readies>>
    BY <1>8 DEF Tick, Listening, Readies, Readable
  <2>3. QED BY <1>3, <1>8, <2>1, <2>2 DEF IInv, Tick, RemainingExact, Distinct,
              ReadyReadable, ReselectNeverEmpty, NothingLeftUnread
<1>9. CASE Select
  <2>1. UNCHANGED <<Listening, Readies>>
    BY <1>9 DEF Select, Listening, Readies, Readable
  <2>2. QED BY <1>3, <1>9, <2>1 DEF IInv, Select, TypeOK, RemainingExact, Distinct,
              ReadyReadable, ReselectNeverEmpty, NothingLeftUnread
<1>10. CASE Reselect
  <2>1. UNCHANGED Listening
    BY <1>10 DEF Reselect, Listening
  <2>2. Readies \subseteq Interfaces
    BY <1>3 DEF Readies, Listening, TypeOK
  <2>3. QED BY <1>3, <1>10, <2>1, <2>2 DEF IInv, Reselect, TypeOK, RemainingExact, Distinct,
              ReadyReadable, ReselectNeverEmpty, NothingLeftUnread, Readies, Readable
<1>11. ASSUME NEW i \in Interfaces, NextToRead(i)
       PROVE  /\ pc = "receive" /\ i \in ready /\ i \in Elements(remaining)
              /\ Readable(i)
              /\ Without(i) \in Seq(Interfaces)
              /\ Elements(Without(i)) = Listening \ {i}
              /\ Distinct(Without(i))
  BY <1>1, <1>11, ReadOne
<1>12. ASSUME NEW i \in Interfaces, ReceiveFails(i) PROVE IInv'
  <2>1. NextToRead(i)
    BY <1>12 DEF ReceiveFails
  <2>2. TypeOK'
    BY <1>3, <1>11, <1>12, <2>1 DEF ReceiveFails, TypeOK
  <2>3. Listening' = Listening \ {i}
    BY <1>2, <1>11, <1>12, <2>1 DEF ReceiveFails
  <2>4. RemainingExact'
    BY <1>3, <1>11, <1>12, <2>1, <2>3 DEF ReceiveFails, RemainingExact
  <2>5. ReadyReadable'
    BY <1>3, <1>11, <1>12, <2>1, <2>3 DEF ReceiveFails, ReadyReadable, Readable
  <2>6. QED BY <1>11, <1>12, <2>1, <2>2, <2>4, <2>5
         DEF IInv, ReceiveFails, ReselectNeverEmpty, NothingLeftUnread
<1>13. ASSUME NEW i \in Interfaces, Hears(i) PROVE IInv'
  <2>1. NextToRead(i)
    BY <1>13 DEF Hears
  <2>2. queue[i] # <<>>
    BY <1>11, <1>13, <2>1 DEF Hears, Readable
  <2>3. TypeOK'
    BY <1>3, <1>11, <1>13, <2>1, <2>2 DEF Hears, TypeOK
  <2>4. Listening' = Listening \ {i}
    BY <1>2, <1>11, <1>13, <2>1 DEF Hears
  <2>5. RemainingExact'
    BY <1>3, <1>11, <1>13, <2>1, <2>4 DEF Hears, RemainingExact, TypeOK
  <2>6. ReadyReadable'
    BY <1>3, <1>11, <1>13, <2>1, <2>4 DEF Hears, ReadyReadable, Readable, TypeOK
  <2>7. QED BY <1>11, <1>13, <2>1, <2>3, <2>5, <2>6
         DEF IInv, Hears, ReselectNeverEmpty, NothingLeftUnread
<1>14. ASSUME NEW i \in Interfaces, HearsNothing(i) PROVE IInv'
  <2>1. NextToRead(i)
    BY <1>14 DEF HearsNothing
  <2>2. queue[i] # <<>>
    BY <1>11, <1>14, <2>1 DEF HearsNothing, Readable
  <2>3. TypeOK'
    BY <1>3, <1>11, <1>14, <2>1, <2>2 DEF HearsNothing, TypeOK
  <2>4. UNCHANGED Listening
    BY <1>14 DEF HearsNothing, Listening
  <2>5. i \in Listening
    BY <1>1, <1>11, <2>1
  <2>6. RemainingExact'
    BY <1>3, <1>11, <1>14, <2>1, <2>4, <2>5 DEF HearsNothing, RemainingExact, TypeOK
  <2>7. ReadyReadable'
    BY <1>3, <1>11, <1>14, <2>1, <2>4 DEF HearsNothing, ReadyReadable, Readable, TypeOK
  <2>8. QED BY <1>3, <1>11, <1>14, <2>1, <2>3, <2>6, <2>7
         DEF IInv, HearsNothing, ReselectNeverEmpty, NothingLeftUnread, Distinct
<1>15. CASE NextRound
  <2>1. UNCHANGED Listening
    BY <1>15 DEF NextRound, Listening
  <2>2. QED BY <1>3, <1>15, <2>1 DEF IInv, NextRound, TypeOK, RemainingExact, Distinct,
              ReadyReadable, ReselectNeverEmpty, NothingLeftUnread
<1>16. ASSUME Leave, pc # "receive", \A i \in Listening : ~Readable(i) PROVE IInv'
  <2>1. UNCHANGED Listening
    BY <1>16 DEF Leave, Listening
  <2>2. TypeOK'
    BY <1>3, <1>16 DEF Leave, TypeOK
  <2>3. QED BY <1>3, <1>16, <2>1, <2>2 DEF IInv, Leave, RemainingExact, Distinct,
              ReadyReadable, ReselectNeverEmpty, NothingLeftUnread, Readable
<1>17. CASE AllHeard
  <2>1. Listening = {}
    BY <1>17 DEF AllHeard, Listening
  <2>2. QED BY <1>16, <1>17, <2>1 DEF AllHeard
<1>18. CASE TimedOut
  BY <1>16, <1>18 DEF TimedOut, Readies
<1>19. CASE UNCHANGED vars
  <2>1. UNCHANGED <<Listening, Readies>>
    BY <1>19 DEF vars, Listening, Readies, Readable
  <2>2. QED BY <1>3, <1>19, <2>1 DEF IInv, vars, TypeOK, RemainingExact, Distinct,
              ReadyReadable, ReselectNeverEmpty, NothingLeftUnread, Readable
<1>20. QED
  BY <1>5, <1>6, <1>7, <1>8, <1>9, <1>10, <1>12, <1>13, <1>14, <1>15, <1>17, <1>18, <1>19
     DEF Next, Loop, Environment, Finished

\* In every reachable state the loop's state is well formed, its list exact and
\* its frames accounted for.
THEOREM Invariance == Spec => []IInv
<1>1. QED BY InitIInv, NextIInv, PTL DEF Spec

\* The types of the loop's state (lldp.py:327-389).
THEOREM TypeCorrect == Spec => []TypeOK
<1>1. IInv => TypeOK
  BY DEF IInv
<1>2. QED BY Invariance, <1>1, PTL

\* The list holds exactly the interfaces neither heard nor failed, whatever the
\* order in which sockets become readable and fail (lldp.py:361-383).
THEOREM ListExact == Spec => []RemainingExact
<1>1. IInv => RemainingExact
  BY DEF IInv
<1>2. QED BY Invariance, <1>1, PTL

\* The timeout branch of the repeated select is dead code (lldp.py:355-359).
THEOREM RepeatedSelectReports == Spec => []ReselectNeverEmpty
<1>1. IInv => ReselectNeverEmpty
  BY DEF IInv
<1>2. QED BY Invariance, <1>1, PTL

\* Nothing that arrived in time is left unread (lldp.py:340-349).
THEOREM AllRead == Spec => []NothingLeftUnread
<1>1. IInv => NothingLeftUnread
  BY DEF IInv
<1>2. QED BY Invariance, <1>1, PTL

-----------------------------------------------------------------------------
(* The loop implements LldpContract.                                        *)

LEMMA ContractInit == Init => Contract!Init
  BY DEF Init, Contract!Init, Verdict

\* An action that changes no result and does not end the loop is a stutter.
LEMMA ContractStutter ==
    UNCHANGED <<info, failed, pc>> => UNCHANGED Contract!cvars
  BY DEF Contract!cvars, Verdict

LEMMA ContractNext == IInv /\ [Next]_vars => [Contract!Next]_(Contract!cvars)
<1> SUFFICES ASSUME IInv, [Next]_vars PROVE [Contract!Next]_(Contract!cvars)
  OBVIOUS
<1>1. TypeOK /\ RemainingExact /\ ReadyReadable
  BY DEF IInv
<1>2. ASSUME NEW i \in Interfaces, NextToRead(i)
      PROVE  pc = "receive" /\ Verdict[i] = "pending"
  BY <1>1, <1>2 DEF NextToRead, ReadyReadable, RemainingExact, Verdict
<1>3. ASSUME NEW i \in Interfaces, ReceiveFails(i) PROVE Contract!Lose(i)
  <2>1. pc = "receive" /\ pc' = pc /\ Verdict[i] = "pending"
    BY <1>2, <1>3 DEF ReceiveFails
  <2>2. Verdict' = [Verdict EXCEPT ![i] = "lost"]
    BY <1>3, <2>1 DEF ReceiveFails, Verdict
  <2>3. QED BY <2>1, <2>2 DEF Contract!Lose, Contract!Settle
<1>4. ASSUME NEW i \in Interfaces, Hears(i) PROVE Contract!Hear(i)
  <2>1. pc = "receive" /\ pc' = pc /\ Verdict[i] = "pending"
    BY <1>2, <1>4 DEF Hears
  <2>2. info' = [info EXCEPT ![i] = "tlvs"] /\ UNCHANGED failed
    BY <1>4 DEF Hears
  <2>3. i \notin failed
    BY <2>1 DEF Verdict
  <2>4. Verdict' = [Verdict EXCEPT ![i] = "heard"]
    BY <1>1, <2>1, <2>2, <2>3 DEF Verdict, TypeOK
  <2>5. QED BY <2>1, <2>4 DEF Contract!Hear, Contract!Settle
<1>5. ASSUME NEW i \in Interfaces, HearsNothing(i) PROVE UNCHANGED Contract!cvars
  <2>1. pc = "receive" /\ pc' = pc /\ Verdict[i] = "pending"
    BY <1>2, <1>5 DEF HearsNothing
  <2>2. info' = [info EXCEPT ![i] = "empty"] /\ UNCHANGED failed
    BY <1>5 DEF HearsNothing
  <2>3. Verdict' = Verdict
    BY <1>1, <2>1, <2>2 DEF Verdict, TypeOK
  <2>4. QED BY <2>1, <2>3 DEF Contract!cvars
<1>6. ASSUME Leave, pc # "done" PROVE Contract!Close
  <2>1. \A i \in Interfaces : i \in Listening <=> Verdict[i] = "pending"
    BY <1>1, <1>6 DEF RemainingExact, Verdict
  <2>2. Verdict' = [i \in Interfaces |->
                       IF Verdict[i] = "pending" THEN "silent" ELSE Verdict[i]]
    BY <1>6, <2>1 DEF Leave, Verdict
  <2>3. pc' = "done"
    BY <1>6 DEF Leave
  <2>4. QED BY <1>6, <2>2, <2>3 DEF Contract!Close
<1>7. ASSUME NextRound \/ Select \/ Reselect PROVE UNCHANGED Contract!cvars
  BY <1>7 DEF NextRound, Select, Reselect, Contract!cvars, Verdict
<1>8. ASSUME Tick \/ Finished \/ UNCHANGED vars PROVE UNCHANGED Contract!cvars
  BY <1>8, ContractStutter DEF Tick, Finished, vars
<1>9. ASSUME NEW i \in Interfaces, NeighbourSends(i) \/ HostSends(i) \/ LinkFails(i)
      PROVE  UNCHANGED Contract!cvars
  BY <1>9, ContractStutter DEF NeighbourSends, HostSends, LinkFails
<1>10. ASSUME AllHeard \/ TimedOut PROVE Contract!Close
  BY <1>6, <1>10 DEF AllHeard, TimedOut
<1>11. QED
  BY <1>3, <1>4, <1>5, <1>7, <1>8, <1>9, <1>10
     DEF Next, Loop, Environment, Contract!Next

\* Each interface is settled once and for good, and exactly the unsettled ones
\* are reported silent when the capture closes (lldp.py:269-287, 327-389).
THEOREM ImplementsContract == Spec => KeepsContract
<1>1. Spec => [][Contract!Next]_(Contract!cvars)
  BY Invariance, ContractNext, PTL DEF Spec
<1>2. Spec => Contract!Init
  BY ContractInit, PTL DEF Spec
<1>3. QED BY <1>1, <1>2, PTL DEF KeepsContract, Contract!Spec

-----------------------------------------------------------------------------
(* The duration of the receive loop.                                        *)

\* What entitles the loop to further rounds: an interface that has left the
\* list, or a frame without TLVs.
Credit == (Len(InterfaceList) - Len(remaining)) + wasted

\* A round costs at most one timeout, and has earned a credit when it is over.
TimeInv ==
    /\ elapsed \in Nat /\ wasted \in Nat
    /\ Len(remaining) <= Len(InterfaceList)
    /\ pc \in {"reselect", "receive"} => waited = 0
    /\ pc = "select" /\ remaining = <<>> => waited = 0
    /\ pc = "select" => elapsed <= LldpTimeout * Credit + waited
    /\ pc = "reselect" => elapsed <= LldpTimeout * (Credit + 1)
    /\ pc = "receive" => \/ elapsed <= LldpTimeout * Credit
                         \/ ready # {} /\ elapsed <= LldpTimeout * (Credit + 1)
    /\ ElapsedBound

LEMMA OneMore ==
    ASSUME NEW t \in Nat, NEW n \in Nat
    PROVE  t * (n + 1) = t * n + t
OBVIOUS

LEMMA Monotone ==
    ASSUME NEW t \in Nat, NEW m \in Nat, NEW n \in Nat, m <= n
    PROVE  t * m <= t * n
<1>1. PICK d \in Nat : n = m + d
  <2>1. n - m \in Nat /\ n = m + (n - m)
    OBVIOUS
  <2>2. QED BY <2>1
<1>2. t * n = t * m + t * d /\ t * d \in Nat /\ t * m \in Nat
  BY <1>1
<1>3. QED BY <1>2

\* While an interface is left, one more round is within the bound.
LEMMA Room ==
    ASSUME TypeOK, TimeInv
    PROVE  /\ Credit \in Nat
           /\ LldpTimeout * Credit <= LldpTimeout * (Len(InterfaceList) + wasted)
           /\ remaining # <<>> =>
                LldpTimeout * (Credit + 1) <= LldpTimeout * (Len(InterfaceList) + wasted)
<1>1. LldpTimeout \in Nat /\ Len(InterfaceList) \in Nat /\ Len(remaining) \in Nat
  BY ListAssumption, BoundsAssumption DEF TypeOK
<1>2. Credit \in Nat /\ Credit <= Len(InterfaceList) + wasted
  BY <1>1 DEF TimeInv, Credit
<1>3. remaining # <<>> => Credit + 1 <= Len(InterfaceList) + wasted
  <2>1. remaining # <<>> => Len(remaining) >= 1
    BY DEF TypeOK
  <2>2. QED BY <1>1, <2>1 DEF TimeInv, Credit
<1>4. Credit + 1 \in Nat /\ Len(InterfaceList) + wasted \in Nat
  BY <1>1, <1>2 DEF TimeInv
<1>5. QED BY <1>1, <1>2, <1>3, <1>4, Monotone

LEMMA InitTime == TimedInit => TimeInv
<1> SUFFICES ASSUME TimedInit PROVE TimeInv
  OBVIOUS
<1>1. LldpTimeout \in Nat /\ Len(InterfaceList) \in Nat
  BY ListAssumption, BoundsAssumption
<1>2. elapsed = 0 /\ wasted = 0 /\ pc = "select" /\ remaining = InterfaceList /\ waited = 0
  BY DEF TimedInit, Init
<1>3. LldpTimeout * Credit = 0 /\ LldpTimeout * (Len(InterfaceList) + wasted) \in Nat
  BY <1>1, <1>2 DEF Credit
<1>4. QED BY <1>1, <1>2, <1>3 DEF TimeInv, ElapsedBound

LEMMA TimedStep == TimedNext => [Next]_vars
  BY DEF TimedNext, TimedTick, TimedHearsNothing, Untimed, Next, Loop, Environment

LEMMA NextTime == IInv /\ TimeInv /\ [TimedNext]_tvars => TimeInv'
<1> SUFFICES ASSUME IInv, TimeInv, [TimedNext]_tvars PROVE TimeInv'
  OBVIOUS
<1> DEFINE Cost(n) == LldpTimeout * n
           Bound == LldpTimeout * (Len(InterfaceList) + wasted)
<1>1. TypeOK /\ ReadyReadable /\ ReselectNeverEmpty
  BY DEF IInv
<1>2. LldpTimeout \in Nat /\ Len(InterfaceList) \in Nat /\ Len(remaining) \in Nat
  BY <1>1, ListAssumption, BoundsAssumption DEF TypeOK
<1>3. waited \in Nat /\ waited <= LldpTimeout
  BY <1>1, <1>2 DEF TypeOK
<1>4. /\ Credit \in Nat /\ Cost(Credit) <= Bound
      /\ remaining # <<>> => Cost(Credit + 1) <= Bound
  BY <1>1, Room
<1>5. Cost(Credit + 1) = Cost(Credit) + LldpTimeout /\ Cost(Credit) \in Nat
  BY <1>2, <1>4, OneMore
<1>6. Bound \in Nat
  BY <1>2 DEF TimeInv
<1>7. CASE TimedTick
  <2>1. /\ pc = "select" /\ remaining # <<>> /\ waited < LldpTimeout
        /\ waited' = waited + 1 /\ elapsed' = elapsed + 1
        /\ UNCHANGED <<pc, remaining, ready, wasted>>
    BY <1>7 DEF TimedTick, Tick
  <2>2. UNCHANGED <<Cost(Credit), Bound>>
    BY <2>1 DEF Credit
  <2>3. elapsed' <= Cost(Credit) + waited' /\ elapsed' <= Bound
    <3> HIDE DEF Cost, Bound
    <3>1. elapsed <= Cost(Credit) + waited
      BY <2>1 DEF TimeInv, Cost
    <3>2. QED BY <1>2, <1>3, <1>4, <1>5, <1>6, <2>1, <3>1 DEF TimeInv
  <2>4. QED BY <2>1, <2>2, <2>3 DEF TimeInv, ElapsedBound
<1>8. ASSUME NEW i \in Interfaces, NextToRead(i),
             UNCHANGED <<pc, waited, elapsed>>, wasted' \in Nat,
             Len(remaining') \in Nat, Len(remaining') <= Len(InterfaceList),
             Credit' = Credit + 1,
             Len(InterfaceList) + wasted' >= Len(InterfaceList) + wasted
      PROVE  TimeInv'
  <2>1. pc = "receive"
    BY <1>8 DEF NextToRead
  <2>2. elapsed <= Cost(Credit) \/ elapsed <= Cost(Credit + 1)
    BY <2>1 DEF TimeInv
  <2>3. elapsed <= Cost(Credit + 1)
    <3> HIDE DEF Cost
    <3>1. QED BY <1>2, <1>5, <2>2 DEF TimeInv
  <2>4. elapsed <= Bound
    BY DEF TimeInv, ElapsedBound
  <2>5. Bound <= LldpTimeout * (Len(InterfaceList) + wasted')
    BY <1>2, <1>8, Monotone DEF TimeInv
  <2>6. elapsed <= LldpTimeout * (Len(InterfaceList) + wasted')
    <3>1. LldpTimeout * (Len(InterfaceList) + wasted') \in Nat
      BY <1>2, <1>8
    <3> DEFINE NewBound == LldpTimeout * (Len(InterfaceList) + wasted')
    <3> HIDE DEF Bound, NewBound
    <3>2. elapsed <= NewBound
      BY <1>6, <2>4, <2>5, <3>1 DEF TimeInv, NewBound
    <3>3. QED BY <3>2 DEF NewBound
  <2>7. QED BY <1>8, <2>1, <2>3, <2>6 DEF TimeInv, ElapsedBound
<1>9. ASSUME NEW i \in Interfaces, TimedHearsNothing(i) PROVE TimeInv'
  <2>1. /\ NextToRead(i) /\ UNCHANGED <<pc, waited, elapsed, remaining>>
        /\ wasted' = wasted + 1
    BY <1>9 DEF TimedHearsNothing, HearsNothing
  <2>2. Credit' = Credit + 1
    BY <1>2, <2>1 DEF Credit, TimeInv
  <2>3. QED BY <1>2, <1>8, <2>1, <2>2 DEF TimeInv
<1>10. ASSUME NEW i \in Interfaces, ReceiveFails(i) \/ Hears(i),
              UNCHANGED <<elapsed, wasted>>
       PROVE  TimeInv'
  <2>1. NextToRead(i) /\ UNCHANGED <<pc, waited>> /\ remaining' = Without(i)
    BY <1>10 DEF ReceiveFails, Hears
  <2>2. Len(remaining') = Len(remaining) - 1 /\ Len(remaining) > 0
    BY <1>1, <2>1, ReadOne DEF NextToRead
  <2>3. Credit' = Credit + 1
    BY <1>2, <1>10, <2>2 DEF Credit, TimeInv
  <2>4. QED BY <1>2, <1>8, <1>10, <2>1, <2>2, <2>3 DEF TimeInv
<1>11. CASE Select /\ UNCHANGED <<elapsed, wasted>>
  <2>1. /\ pc = "select" /\ pc' = "reselect" /\ waited' = 0
        /\ UNCHANGED <<remaining, ready>>
    BY <1>11 DEF Select
  <2>2. UNCHANGED <<Cost(Credit + 1), Bound>>
    BY <1>11, <2>1 DEF Credit
  <2>3. elapsed <= Cost(Credit + 1)
    <3>1. elapsed <= Cost(Credit) + waited
      BY <2>1 DEF TimeInv
    <3> HIDE DEF Cost
    <3>2. QED BY <1>2, <1>3, <1>5, <3>1 DEF TimeInv
  <2>4. QED BY <1>11, <2>1, <2>2, <2>3 DEF TimeInv, ElapsedBound
<1>12. CASE Reselect /\ UNCHANGED <<elapsed, wasted>>
  <2>1. /\ pc = "reselect" /\ pc' = "receive" /\ ready' = Readies /\ Readies # {}
        /\ UNCHANGED <<remaining, waited>>
    BY <1>12 DEF Reselect
  <2>2. UNCHANGED <<Cost(Credit + 1), Bound>>
    BY <1>12, <2>1 DEF Credit
  <2>3. QED BY <1>12, <2>1, <2>2 DEF TimeInv, ElapsedBound
<1>13. CASE NextRound /\ UNCHANGED <<elapsed, wasted>>
  <2>1. /\ pc = "receive" /\ pc' = "select" /\ ready = {}
        /\ UNCHANGED <<remaining, waited>>
    BY <1>13 DEF NextRound
  <2>2. UNCHANGED <<Cost(Credit), Bound>>
    BY <1>13, <2>1 DEF Credit
  <2>3. elapsed <= Cost(Credit) /\ waited = 0
    BY <2>1 DEF TimeInv
  <2>4. elapsed <= Cost(Credit) + waited
    <3> HIDE DEF Cost
    <3>1. QED BY <1>5, <2>3 DEF TimeInv
  <2>5. QED BY <1>13, <2>1, <2>2, <2>3, <2>4 DEF TimeInv, ElapsedBound
<1>14. CASE (AllHeard \/ TimedOut) /\ UNCHANGED <<elapsed, wasted>>
  <2>1. pc' = "done" /\ UNCHANGED <<remaining, waited>>
    BY <1>14 DEF AllHeard, TimedOut, Leave
  <2>2. QED BY <1>14, <2>1 DEF TimeInv, ElapsedBound
<1>15. ASSUME UNCHANGED <<pc, remaining, ready, waited, elapsed, wasted>>
       PROVE  TimeInv'
  <2>1. UNCHANGED Credit
    BY <1>15 DEF Credit
  <2>2. QED BY <1>15, <2>1 DEF TimeInv, ElapsedBound
<1>16. ASSUME NEW i \in Interfaces, NeighbourSends(i) \/ HostSends(i) \/ LinkFails(i),
              UNCHANGED <<elapsed, wasted>>
       PROVE  TimeInv'
  BY <1>15, <1>16 DEF NeighbourSends, HostSends, LinkFails
<1>17. CASE Finished /\ UNCHANGED <<elapsed, wasted>>
  BY <1>15, <1>17 DEF Finished, vars
<1>18. CASE UNCHANGED tvars
  BY <1>15, <1>18 DEF tvars, vars
<1>19. QED
  BY <1>7, <1>9, <1>10, <1>11, <1>12, <1>13, <1>14, <1>16, <1>17, <1>18
     DEF TimedNext, Untimed

\* The loop lasts at most one timeout per interface and per frame without TLVs
\* (lldp.py:335-383).
THEOREM Duration == TimedSpec => []ElapsedBound
<1>1. TimedInit => IInv /\ TimeInv
  BY InitIInv, InitTime DEF TimedInit
<1>2. IInv /\ TimeInv /\ [TimedNext]_tvars => IInv' /\ TimeInv'
  <2>1. [TimedNext]_tvars => [Next]_vars
    BY TimedStep DEF tvars, vars
  <2>2. QED BY <2>1, NextIInv, NextTime
<1>3. TimeInv => ElapsedBound
  BY DEF TimeInv
<1>4. QED BY <1>1, <1>2, <1>3, PTL DEF TimedSpec
=============================================================================
