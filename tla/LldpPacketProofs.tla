-------------------------- MODULE LldpPacketProofs --------------------------
(***************************************************************************)
(* Proofs about what is read from a packet.  For every set of slots, MDAs, *)
(* connectors and ports the index of a Nokia port is read back as the      *)
(* port; and for every order of the TLVs, every padding and wherever a     *)
(* frame is cut, the list of TLVs is what was sent, what is reported of    *)
(* the switch is not misread, a whole frame is accepted, and reading a     *)
(* packet implements PortReport.                                           *)
(***************************************************************************)
EXTENDS LldpPacket, SequenceLemmas

-----------------------------------------------------------------------------
(* One lemma per layout and kind of port.                                  *)

LEMMA PlainB ==
    ASSUME NEW s \in 0..31, NEW m \in 0..15, NEW p \in 0..255
    PROVE  ConvertIfindex(LayoutB(Plain(s, m, p))) = Plain(s, m, p)
<1> DEFINE x == 1610612736 + 262144 * s + 16384 * m + 8 * p
<1>1. LayoutB(Plain(s, m, p)) = x
  BY SMT DEF LayoutB, Plain
<1>2. x \in Nat /\ x \div 536870912 = 3
  BY SMT
<1>3. (x \div 8192) % 2 = 0
  BY SMT
<1>4. (x \div 262144) % 32 = s /\ (x \div 16384) % 16 = m /\ (x \div 8) % 256 = p
  BY SMT
<1> HIDE DEF x
<1>5. ConvertIfindex(x) = Plain(s, m, p)
  BY SMT, <1>2, <1>3, <1>4 DEF ConvertIfindex, Scheme, SchemeB, IsConnector, Bits
<1> QED  BY <1>1, <1>5

LEMMA ConnectorB ==
    ASSUME NEW s \in 0..31, NEW m \in 0..15, NEW c \in 0..63, NEW p \in 0..63
    PROVE  ConvertIfindex(LayoutB(Connector(s, m, c, p))) = Connector(s, m, c, p)
<1> DEFINE x == 1610612736 + 262144 * s + 16384 * m + 8192 + 64 * c + p
<1>1. LayoutB(Connector(s, m, c, p)) = x
  BY SMT DEF LayoutB, Connector
<1>2. x \in Nat /\ x \div 536870912 = 3
  BY SMT
<1>3. (x \div 8192) % 2 = 1
  BY SMT
<1>4. (x \div 262144) % 32 = s /\ (x \div 16384) % 16 = m
  BY SMT
<1>5. (x \div 64) % 64 = c /\ (x \div 1) % 64 = p
  BY SMT
<1> HIDE DEF x
<1>6. ConvertIfindex(x) = Connector(s, m, c, p)
  BY SMT, <1>2, <1>3, <1>4, <1>5 DEF ConvertIfindex, Scheme, SchemeB, IsConnector, Bits
<1> QED  BY <1>1, <1>6

\* The port of scheme C is split into its six low and two high bits.
LEMMA PlainC ==
    ASSUME NEW s \in 0..15, NEW m \in 0..3, NEW p \in 0..255
    PROVE  ConvertIfindex(LayoutC(Plain(s, m, p))) = Plain(s, m, p)
<1> DEFINE hi == p \div 64
           lo == p % 64
           x == 33554432 * s + 2097152 * m + 8388608 * hi + 32768 * lo
<1>1. LayoutC(Plain(s, m, p)) = x
  BY SMT DEF LayoutC, Plain
<1>2. hi \in 0..3 /\ lo \in 0..63 /\ lo + 64 * hi = p
  BY SMT
<1> HIDE DEF hi, lo
<1>3. x \in Nat /\ x \div 536870912 = 0
  BY SMT, <1>2
<1>4. (x \div 16384) % 2 = 0
  BY SMT, <1>2
<1>5. x \div 33554432 = s /\ (x \div 2097152) % 4 = m
  BY SMT, <1>2
<1>6. (x \div 32768) % 64 = lo /\ (x \div 8388608) % 4 = hi
  BY SMT, <1>2
<1> HIDE DEF x
<1>7. ConvertIfindex(x) = Plain(s, m, lo + 64 * hi)
  BY SMT, <1>3, <1>4, <1>5, <1>6 DEF ConvertIfindex, Scheme, SchemeC, IsConnector, Bits
<1> QED  BY <1>1, <1>2, <1>7

LEMMA ConnectorC ==
    ASSUME NEW s \in 0..15, NEW m \in 0..3, NEW c \in 0..63, NEW p \in 0..63
    PROVE  ConvertIfindex(LayoutC(Connector(s, m, c, p))) = Connector(s, m, c, p)
<1> DEFINE x == 33554432 * s + 2097152 * m + 32768 * c + 16384 + p
<1>1. LayoutC(Connector(s, m, c, p)) = x
  BY SMT DEF LayoutC, Connector
<1>2. x \in Nat /\ x \div 536870912 = 0
  BY SMT
<1>3. (x \div 16384) % 2 = 1
  <2>1. x = 16384 * (2048 * s + 128 * m + 2 * c + 1) + p
    BY SMT
  <2> HIDE DEF x
  <2>2. x \div 16384 = 2 * (1024 * s + 64 * m + c) + 1
    BY SMT, <2>1
  <2> QED  BY SMT, <2>2
<1>4. x \div 33554432 = s /\ (x \div 2097152) % 4 = m
  BY SMT
<1>5. (x \div 32768) % 64 = c /\ (x \div 1) % 64 = p
  BY SMT
<1> HIDE DEF x
<1>6. ConvertIfindex(x) = Connector(s, m, c, p)
  BY SMT, <1>2, <1>3, <1>4, <1>5 DEF ConvertIfindex, Scheme, SchemeC, IsConnector, Bits
<1> QED  BY <1>1, <1>6

\* A channel's bit lies between the scheme and the slot.
LEMMA PlainD ==
    ASSUME NEW s \in 0..7, NEW m \in 0..15, NEW p \in 0..255, NEW ch \in {0, 1}
    PROVE  ConvertIfindex(LayoutD(Plain(s, m, p), ch)) = Plain(s, m, p)
<1> DEFINE x == 1291845632 + 8388608 * ch + 524288 * s + 32768 * m + p
<1>1. LayoutD(Plain(s, m, p), ch) = x
  BY SMT DEF LayoutD, Plain
<1>2. x \in Nat /\ x \div 536870912 = 2
  BY SMT
<1>3. (x \div 8192) % 2 = 0
  BY SMT
<1>4. (x \div 524288) % 8 = s /\ (x \div 32768) % 16 = m
  BY SMT
<1>5. (x \div 1) % 256 = p
  BY SMT
<1> HIDE DEF x
<1>6. ConvertIfindex(x) = Plain(s, m, p)
  BY SMT, <1>2, <1>3, <1>4, <1>5 DEF ConvertIfindex, Scheme, SchemeD, IsConnector, Bits
<1> QED  BY <1>1, <1>6

LEMMA ConnectorD ==
    ASSUME NEW s \in 0..7, NEW m \in 0..15, NEW c \in 0..63, NEW p \in 0..63,
           NEW ch \in {0, 1}
    PROVE  ConvertIfindex(LayoutD(Connector(s, m, c, p), ch)) = Connector(s, m, c, p)
<1> DEFINE x == 1291845632 + 8388608 * ch + 524288 * s + 32768 * m + 8192 + 64 * c + p
<1>1. LayoutD(Connector(s, m, c, p), ch) = x
  BY SMT DEF LayoutD, Connector
<1>2. x \in Nat /\ x \div 536870912 = 2
  BY SMT
<1>3. (x \div 8192) % 2 = 1
  BY SMT
<1>4. (x \div 524288) % 8 = s /\ (x \div 32768) % 16 = m
  BY SMT
<1>5. (x \div 64) % 64 = c /\ (x \div 1) % 64 = p
  BY SMT
<1> HIDE DEF x
<1>6. ConvertIfindex(x) = Connector(s, m, c, p)
  BY SMT, <1>2, <1>3, <1>4, <1>5 DEF ConvertIfindex, Scheme, SchemeD, IsConnector, Bits
<1> QED  BY <1>1, <1>6

-----------------------------------------------------------------------------
\* Whatever a Nokia switch announces is read back as the port it stands for.
LEMMA NokiaRoundTrip ==
    ASSUME NEW a \in NokiaAnnouncements
    PROVE  ConvertIfindex(a.value) = a.port
<1>1. CASE \E p \in PortsB(Slots, Mdas, Conns, Ports) :
              a = [switch |-> "Nokia", port |-> p, value |-> LayoutB(p)]
  <2>1. PICK p \in PortsB(Slots, Mdas, Conns, Ports) :
            a = [switch |-> "Nokia", port |-> p, value |-> LayoutB(p)]
    BY <1>1
  <2>2. ConvertIfindex(LayoutB(p)) = p
    <3>1. \/ \E s \in Slots \cap 0..31, m \in Mdas \cap 0..15,
                q \in Ports \cap 0..255 : p = Plain(s, m, q)
          \/ \E s \in Slots \cap 0..31, m \in Mdas \cap 0..15,
                c \in Conns \cap 0..63, q \in Ports \cap 0..63 : p = Connector(s, m, c, q)
      BY DEF PortsB
    <3> QED  BY <3>1, PlainB, ConnectorB
  <2> QED  BY <2>1, <2>2
<1>2. CASE \E p \in PortsC(Slots, Mdas, Conns, Ports) :
              a = [switch |-> "Nokia", port |-> p, value |-> LayoutC(p)]
  <2>1. PICK p \in PortsC(Slots, Mdas, Conns, Ports) :
            a = [switch |-> "Nokia", port |-> p, value |-> LayoutC(p)]
    BY <1>2
  <2>2. ConvertIfindex(LayoutC(p)) = p
    <3>1. \/ \E s \in Slots \cap 0..15, m \in Mdas \cap 0..3,
                q \in Ports \cap 0..255 : p = Plain(s, m, q)
          \/ \E s \in Slots \cap 0..15, m \in Mdas \cap 0..3,
                c \in Conns \cap 0..63, q \in Ports \cap 0..63 : p = Connector(s, m, c, q)
      BY DEF PortsC
    <3> QED  BY <3>1, PlainC, ConnectorC
  <2> QED  BY <2>1, <2>2
<1>3. CASE \E p \in PortsD(Slots, Mdas, Conns, Ports), ch \in {0, 1} :
              a = [switch |-> "Nokia", port |-> p, value |-> LayoutD(p, ch)]
  <2>1. PICK p \in PortsD(Slots, Mdas, Conns, Ports), ch \in {0, 1} :
            a = [switch |-> "Nokia", port |-> p, value |-> LayoutD(p, ch)]
    BY <1>3
  <2>2. ConvertIfindex(LayoutD(p, ch)) = p
    <3>1. \/ \E s \in Slots \cap 0..7, m \in Mdas \cap 0..15,
                q \in Ports \cap 0..255 : p = Plain(s, m, q)
          \/ \E s \in Slots \cap 0..7, m \in Mdas \cap 0..15,
                c \in Conns \cap 0..63, q \in Ports \cap 0..63 : p = Connector(s, m, c, q)
      BY DEF PortsD
    <3> QED  BY <3>1, PlainD, ConnectorD
  <2> QED  BY <2>1, <2>2
<1> QED  BY <1>1, <1>2, <1>3 DEF NokiaAnnouncements

\* The switch and its announcement stay what they are, and NokiaPortRead is
\* preserved: the port is reported in a single step.
PortIInv ==
    /\ announced.switch = "Nokia" => announced \in NokiaAnnouncements
    /\ NokiaPortRead

\* Theorem: in every behaviour, for all sets of numbers, the reported port of a
\* Nokia switch is the one it announced (topology.py:266-331).
THEOREM NokiaPorts == Spec => []NokiaPortRead
<1>1. Init => PortIInv
  BY DEF Init, PortIInv, NokiaPortRead, CiscoAnnouncements, NameAnnouncements,
         Unread
<1>2. PortIInv /\ [Next]_vars => PortIInv'
  <2> SUFFICES ASSUME PortIInv, [Next]_vars PROVE PortIInv'
    OBVIOUS
  <2>1. CASE NokiaReports
    BY <2>1, NokiaRoundTrip DEF NokiaReports, PortIInv, NokiaPortRead
  <2>2. CASE CiscoReports
    BY <2>2 DEF CiscoReports, PortIInv, NokiaPortRead
  <2>3. CASE NameReports
    BY <2>3 DEF NameReports, PortIInv, NokiaPortRead
  <2>4. CASE UNCHANGED vars
    BY <2>4 DEF vars, PortIInv, NokiaPortRead
  <2> QED  BY <2>1, <2>2, <2>3, <2>4 DEF Next, Finished
<1>3. PortIInv => NokiaPortRead
  BY DEF PortIInv
<1> QED  BY <1>1, <1>2, <1>3, PTL DEF Spec

-----------------------------------------------------------------------------
(* ParseTlv, whose recursion ends because every TLV is behind the one before. *)

Step(f, buff, p) ==
    IF p + 1 > Len(buff) THEN <<>>
    ELSE LET next == p + 2 + buff[p + 1]
             data == SubSeq(buff, p + 2, Min({next - 1, Len(buff)}))
         IN  <<Tlv(buff[p], data)>>
             \o (IF next \in p + 1..Len(buff) THEN f[next] ELSE <<>>)

IsParse(f, buff) == f = [p \in 1..Len(buff) + 1 |-> Step(f, buff, p)]

\* A step depends on what is parsed from the places behind it only.
LEMMA SameStep ==
  ASSUME NEW buff, NEW p, NEW f, NEW g, \A q \in p + 1..Len(buff) : f[q] = g[q]
  PROVE  Step(f, buff, p) = Step(g, buff, p)
<1> DEFINE next == p + 2 + buff[p + 1]
           rest(h) == IF next \in p + 1..Len(buff) THEN h[next] ELSE <<>>
<1>1. rest(f) = rest(g)
  OBVIOUS
<1> QED
  BY <1>1, Zenon DEF Step

\* The recursion defines a function, known for the last places first.
LEMMA ParseExists ==
  ASSUME NEW buff, Len(buff) \in Nat
  PROVE  \E f : IsParse(f, buff)
<1> DEFINE end == Len(buff) + 1
           Known(f, k) ==
             f = [p \in 1..end |-> IF p + k > end THEN Step(f, buff, p) ELSE <<>>]
<1>1. \A k \in 0..end : \E f : Known(f, k)
  <2> HIDE DEF Known, end
  <2> SUFFICES ASSUME NEW T, T = {k \in 0..end : ~\E f : Known(f, k)}, T # {} PROVE FALSE
    OBVIOUS
  <2> USE DEF Known, end
  <2>1. PICK k \in T : \A j \in T : ~(j < k)
    <3>1. \A k \in T : k \in 0..end
      OBVIOUS
    <3>2. T \subseteq Nat
      BY <3>1
    <3> QED
      BY <3>2, NatMin
  <2>2. k # 0
    <3>1. Known([p \in 1..end |-> <<>>], 0)
      <4>1. \A p \in 1..end : ~(p + 0 > end)
        OBVIOUS
      <4> QED
        BY <4>1
    <3> QED
      BY <3>1
  <2>3. k - 1 \in 0..end /\ k - 1 < k /\ k \in Nat
    BY <2>2
  <2>4. PICK f : Known(f, k - 1)
    BY <2>1, <2>3
  <2> DEFINE g == [p \in 1..end |->
                      IF p + (k - 1) > end THEN f[p]
                      ELSE IF p + k > end THEN Step(f, buff, p) ELSE <<>>]
  <2>5. ASSUME NEW p \in 1..end, p + k > end PROVE g[p] = Step(g, buff, p)
    <3>1. \A q \in p + 1..Len(buff) : q \in 1..end /\ q + (k - 1) > end
      BY <2>3, <2>5
    <3>2. \A q \in p + 1..Len(buff) : g[q] = f[q]
      BY <3>1
    <3>3. g[p] = Step(f, buff, p)
      BY <2>4, <2>5
    <3> HIDE DEF g
    <3> QED
      BY <3>2, <3>3, SameStep
  <2>6. ASSUME NEW p \in 1..end, ~(p + k > end) PROVE g[p] = <<>>
    BY <2>3, <2>6
  <2>7. Known(g, k)
    <3>1. g = [p \in 1..end |-> g[p]]
      OBVIOUS
    <3> HIDE DEF g
    <3>2. \A p \in 1..end : g[p] = IF p + k > end THEN Step(g, buff, p) ELSE <<>>
      BY <2>5, <2>6
    <3> QED
      BY <3>1, <3>2
  <2> QED
    BY <2>1, <2>7
<1>2. end \in 0..end
  OBVIOUS
<1>3. PICK f : Known(f, end)
  BY <1>1, <1>2
<1>4. \A p \in 1..end : p + end > end
  OBVIOUS
<1>5. IsParse(f, buff)
  BY <1>3, <1>4 DEF IsParse
<1> QED
  BY <1>5

\* ParseTlv is what that function gives for the first place.
LEMMA ParseDef ==
  ASSUME NEW buff, Len(buff) \in Nat
  PROVE  \E f : IsParse(f, buff) /\ ParseTlv(buff) = f[1]
<1>1. \E f : IsParse(f, buff)
  BY ParseExists
<1> DEFINE g == CHOOSE f : IsParse(f, buff)
<1>2. IsParse(g, buff)
  BY <1>1
<1>3. ParseTlv(buff) = g[1]
  BY DEF ParseTlv, IsParse, Step
<1> QED
  BY <1>2, <1>3

-----------------------------------------------------------------------------
(* What is parsed from what is left of a frame is what was sent.             *)

Tlvs(S) == [type : S, data : Seq(S)]

\* The i-th TLV of a frame's buffer stands from start[i] + 1 on, as far as it got
\* there, and nothing but zeros behind the last.
Holds(S, buff, tlvs, start) ==
    /\ buff \in Seq(S) /\ tlvs \in Seq(Tlvs(S)) /\ Nat \subseteq S
    /\ start \in [1..Len(tlvs) + 1 -> Nat] /\ start[1] = 0
    /\ \A i \in 1..Len(tlvs) :
          /\ start[i + 1] = start[i] + 2 + Len(tlvs[i].data)
          /\ start[i] + 1 <= Len(buff) => buff[start[i] + 1] = tlvs[i].type
          /\ start[i] + 2 <= Len(buff) => buff[start[i] + 2] = Len(tlvs[i].data)
          /\ \A j \in 1..Len(tlvs[i].data) :
                start[i] + 2 + j <= Len(buff) => buff[start[i] + 2 + j] = tlvs[i].data[j]
    /\ \A p \in 1..Len(buff) : p > start[Len(tlvs) + 1] => buff[p] = 0

\* A list that is read from the TLVs behind the first i: ParsedIsPrefix for i = 0.
Reads(S, list, tlvs, i) ==
    /\ list \in Seq(Tlvs(S))
    /\ \A n \in 1..Len(list) :
          IF i + n > Len(tlvs) THEN list[n] = Tlv(END, <<>>)
          ELSE /\ list[n].type = tlvs[i + n].type
               /\ IsPrefix(list[n].data, tlvs[i + n].data)
               /\ n < Len(list) => list[n] = tlvs[i + n]

\* A TLV in front of a list that is read from the TLVs behind it.
LEMMA ReadsCons ==
  ASSUME NEW S, NEW tlvs \in Seq(Tlvs(S)), NEW i \in 1..Len(tlvs), NEW e \in Tlvs(S),
         e.type = tlvs[i].type, IsPrefix(e.data, tlvs[i].data),
         NEW rest, Reads(S, rest, tlvs, i), rest # <<>> => e = tlvs[i]
  PROVE  Reads(S, <<e>> \o rest, tlvs, i - 1)
<1> DEFINE list == <<e>> \o rest
<1>t. i \in Nat /\ Len(tlvs) \in Nat /\ i - 1 \in Nat /\ i <= Len(tlvs)
  OBVIOUS
<1>0. rest \in Seq(Tlvs(S)) /\ Len(rest) \in Nat /\ (Len(rest) # 0 => rest # <<>>)
  BY DEF Reads
<1>1. /\ list \in Seq(Tlvs(S)) /\ Len(list) = 1 + Len(rest) /\ list[1] = e
      /\ \A n \in 1..Len(rest) : list[1 + n] = rest[n]
  BY <1>0, InFront
<1> HIDE DEF list
<1>2. ASSUME NEW n \in 1..Len(list)
      PROVE  IF (i - 1) + n > Len(tlvs) THEN list[n] = Tlv(END, <<>>)
             ELSE /\ list[n].type = tlvs[(i - 1) + n].type
                  /\ IsPrefix(list[n].data, tlvs[(i - 1) + n].data)
                  /\ n < Len(list) => list[n] = tlvs[(i - 1) + n]
  <2>1. CASE n = 1
    <3>1. (i - 1) + n = i /\ ~(i > Len(tlvs)) /\ (n < Len(list) => Len(rest) # 0)
      BY <1>t, <1>0, <1>1, <2>1
    <3>2. list[n] = e /\ (n < Len(list) => e = tlvs[i])
      BY <1>0, <1>1, <2>1, <3>1
    <3>3. ~((i - 1) + n > Len(tlvs)) /\ tlvs[(i - 1) + n] = tlvs[i]
      BY <3>1
    <3> QED
      BY <3>2, <3>3
  <2>2. CASE n # 1
    <3> DEFINE k == n - 1
    <3>1. /\ k \in 1..Len(rest) /\ 1 + k = n /\ (i - 1) + n = i + k
          /\ (n < Len(list) => k < Len(rest))
      <4> DEFINE l == Len(rest)
      <4>1. /\ i \in Nat /\ l \in Nat /\ n \in 1..1 + l /\ n # 1 /\ Len(list) = 1 + l
        BY <1>t, <1>0, <1>1, <2>2
      <4> HIDE DEF l
      <4>2. k \in 1..l /\ 1 + k = n /\ (i - 1) + n = i + k /\ (n < 1 + l => k < l)
        BY <4>1
      <4> QED
        BY <4>1, <4>2 DEF l
    <3> HIDE DEF k
    <3>2. list[n] = rest[k]
      BY <1>1, <3>1
    <3>3. IF i + k > Len(tlvs) THEN rest[k] = Tlv(END, <<>>)
          ELSE /\ rest[k].type = tlvs[i + k].type
               /\ IsPrefix(rest[k].data, tlvs[i + k].data)
               /\ k < Len(rest) => rest[k] = tlvs[i + k]
      BY <3>1 DEF Reads
    <3> QED
      BY <3>1, <3>2, <3>3
  <2> QED
    BY <2>1, <2>2
<1> QED
  BY <1>1, <1>2 DEF list, Reads

\* One TLV of a frame, and the rest behind it.
LEMMA StepReads ==
  ASSUME NEW S, NEW buff, NEW tlvs, NEW start, Holds(S, buff, tlvs, start),
         NEW i \in 1..Len(tlvs), start[i] <= Len(buff),
         NEW f, start[i + 1] < Len(buff) => Reads(S, f[start[i + 1] + 1], tlvs, i)
  PROVE  Reads(S, Step(f, buff, start[i] + 1), tlvs, i - 1)
<1> DEFINE L == Len(buff)
           p == start[i] + 1
           data == tlvs[i].data
           last == Min({start[i + 1], L})
           d == SubSeq(buff, p + 2, last)
           e == Tlv(buff[p], d)
           rest == IF start[i + 1] < L THEN f[start[i + 1] + 1] ELSE <<>>
<1>t. /\ L \in Nat /\ Len(tlvs) \in Nat /\ i \in Nat /\ buff \in Seq(S)
      /\ tlvs \in Seq(Tlvs(S)) /\ data \in Seq(S) /\ Len(data) \in Nat
      /\ tlvs[i] = Tlv(tlvs[i].type, data) /\ tlvs[i].type \in S
      /\ start[i] \in Nat /\ start[i + 1] \in Nat /\ start[i + 1] = start[i] + 2 + Len(data)
  <2>1. tlvs \in Seq(Tlvs(S)) /\ buff \in Seq(S) /\ start \in [1..Len(tlvs) + 1 -> Nat]
    BY DEF Holds
  <2>2. L \in Nat /\ Len(tlvs) \in Nat /\ i \in Nat
    BY <2>1
  <2>3. i \in 1..Len(tlvs) + 1 /\ i + 1 \in 1..Len(tlvs) + 1
    BY <2>2
  <2>4. tlvs[i] \in Tlvs(S)
    BY <2>1
  <2>5. data \in Seq(S) /\ tlvs[i] = Tlv(tlvs[i].type, data) /\ tlvs[i].type \in S
    BY <2>4 DEF Tlvs, Tlv
  <2>6. start[i + 1] = start[i] + 2 + Len(data)
    BY DEF Holds
  <2> QED
    BY <2>1, <2>2, <2>3, <2>5, <2>6
<1>e. \A n : Reads(S, <<>>, tlvs, n)
  BY DEF Reads
<1>1. CASE p + 1 > L
  <2>1. Step(f, buff, p) = <<>>
    BY <1>1 DEF Step
  <2> QED
    BY <1>e, <2>1
<1>2. CASE ~(p + 1 > L)
  <2>1. /\ p \in 1..L /\ p + 1 = start[i] + 2 /\ start[i] + 1 <= L /\ start[i] + 2 <= L
        /\ p + 2 = start[i] + 3 /\ p + 2 + Len(data) = start[i + 1] + 1
        /\ (start[i + 1] + 1) - 1 = start[i + 1]
        /\ start[i + 1] + 1 \in p + 1..L <=> start[i + 1] < L
    <3> DEFINE a == start[i]
               b == start[i + 1]
               c == Len(data)
               n == L
    <3>1. a \in Nat /\ b \in Nat /\ c \in Nat /\ n \in Nat /\ b = a + 2 + c /\ ~(a + 1 + 1 > n)
      BY <1>t, <1>2
    <3> HIDE DEF a, b, c, n
    <3>2. /\ a + 1 \in 1..n /\ (a + 1) + 1 = a + 2 /\ a + 1 <= n /\ a + 2 <= n
          /\ (a + 1) + 2 = a + 3 /\ (a + 1) + 2 + c = b + 1 /\ (b + 1) - 1 = b
          /\ b + 1 \in (a + 1) + 1..n <=> b < n
      BY <3>1
    <3> QED
      BY <3>2, Zenon DEF a, b, c, n
  <2>2. buff[p] = tlvs[i].type /\ buff[p + 1] = Len(data)
    BY <2>1 DEF Holds
  <2>3. Step(f, buff, p) = <<e>> \o rest
    <3> DEFINE next == p + 2 + buff[p + 1]
    <3>1. next = start[i + 1] + 1
      BY <2>1, <2>2
    <3>2. Step(f, buff, p) =
            <<Tlv(buff[p], SubSeq(buff, p + 2, Min({next - 1, Len(buff)})))>>
            \o (IF next \in p + 1..Len(buff) THEN f[next] ELSE <<>>)
      BY <1>2 DEF Step
    <3> HIDE DEF next, p
    <3> QED
      BY <2>1, <3>1, <3>2
  <2>4. /\ last = IF start[i + 1] <= L THEN start[i + 1] ELSE L
        /\ last \in Nat /\ last <= L /\ last <= start[i + 1]
        /\ last - (start[i] + 2) \in Nat /\ last - (start[i] + 2) <= Len(data)
        /\ (start[i + 1] <= L => last - (start[i] + 2) = Len(data))
    <3>1. last = IF start[i + 1] <= L THEN start[i + 1] ELSE L
      BY <1>t, MinTwo
    <3>2. ASSUME NEW a \in Nat, NEW b \in Nat, NEW c \in Nat, NEW n \in Nat, NEW m,
                 b = a + 2 + c, ~((a + 1) + 1 > n), m = IF b <= n THEN b ELSE n
          PROVE  /\ m \in Nat /\ m <= n /\ m <= b
                 /\ m - (a + 2) \in Nat /\ m - (a + 2) <= c
                 /\ b <= n => m - (a + 2) = c
      BY <3>2
    <3> HIDE DEF last
    <3> QED
      BY <1>t, <1>2, <3>1, <3>2
  <2>5. d \in Seq(S) /\ Len(d) = last - (start[i] + 2)
        /\ \A j \in 1..Len(d) : d[j] = buff[start[i] + 2 + j] /\ start[i] + 2 + j <= L
    <3> DEFINE k == start[i] + 2
    <3>1. k \in Nat /\ k <= last /\ k + 1 = p + 2
      <4>1. ASSUME NEW a \in Nat, NEW m \in Nat, m - (a + 2) \in Nat
            PROVE  a + 2 \in Nat /\ a + 2 <= m /\ (a + 2) + 1 = (a + 1) + 2
        BY <4>1
      <4> HIDE DEF last
      <4> QED
        BY <1>t, <2>4, <4>1
    <3> HIDE DEF last, k, p
    <3>2. /\ SubSeq(buff, k + 1, last) \in Seq(S) /\ Len(SubSeq(buff, k + 1, last)) = last - k
          /\ \A j \in 1..last - k :
                SubSeq(buff, k + 1, last)[j] = buff[k + j] /\ k + j \in 1..last
      <4>1. buff \in Seq(S) /\ last \in Nat /\ last <= Len(buff)
        BY <1>t, <2>4
      <4> QED
        BY <3>1, <4>1, Slice, Zenon
    <3>3. /\ d \in Seq(S) /\ Len(d) = last - k
          /\ \A j \in 1..last - k : d[j] = buff[k + j] /\ k + j \in 1..last
      BY <3>1, <3>2
    <3> HIDE DEF d
    <3>4. \A j \in 1..Len(d) : d[j] = buff[k + j] /\ k + j <= L
      BY <1>t, <2>4, <3>1, <3>3
    <3> QED
      BY <3>3, <3>4 DEF k
  <2>6. \A j \in 1..Len(d) : j \in 1..Len(data) /\ d[j] = data[j]
    <3> SUFFICES ASSUME NEW j \in 1..Len(d) PROVE j \in 1..Len(data) /\ d[j] = data[j]
      OBVIOUS
    <3> HIDE DEF d, last
    <3>1. j \in 1..Len(data)
      BY <1>t, <2>4, <2>5
    <3>2. buff[start[i] + 2 + j] = data[j]
      BY <2>5, <3>1 DEF Holds
    <3> QED
      BY <2>5, <3>1, <3>2
  <2>7. IsPrefix(d, data) /\ (Len(d) = Len(data) => d = data)
    <3> HIDE DEF d, last
    <3>1. Len(d) \in Nat /\ Len(d) <= Len(data)
      BY <2>4, <2>5
    <3>2. ASSUME NEW t \in Seq(S), Len(d) <= Len(t)
          PROVE  /\ SubSeq(t, 1, Len(d)) \in Seq(S) /\ Len(SubSeq(t, 1, Len(d))) = Len(d)
                 /\ \A j \in 1..Len(d) : SubSeq(t, 1, Len(d))[j] = t[j]
      <4>1. /\ SubSeq(t, 0 + 1, Len(d)) \in Seq(S)
            /\ Len(SubSeq(t, 0 + 1, Len(d))) = Len(d) - 0
            /\ \A j \in 1..Len(d) - 0 : SubSeq(t, 0 + 1, Len(d))[j] = t[0 + j]
        BY <3>1, <3>2, Slice
      <4>2. 0 + 1 = 1 /\ Len(d) - 0 = Len(d) /\ \A j \in 1..Len(d) : 0 + j = j
        BY <3>1
      <4> QED
        BY <4>1, <4>2
    <3>3. /\ SubSeq(data, 1, Len(d)) \in Seq(S) /\ Len(SubSeq(data, 1, Len(d))) = Len(d)
          /\ \A j \in 1..Len(d) : SubSeq(data, 1, Len(d))[j] = data[j]
      BY <1>t, <3>1, <3>2
    <3>4. /\ SubSeq(d, 1, Len(d)) \in Seq(S) /\ Len(SubSeq(d, 1, Len(d))) = Len(d)
          /\ \A j \in 1..Len(d) : SubSeq(d, 1, Len(d))[j] = d[j]
      BY <2>5, <3>1, <3>2
    <3>5. SubSeq(d, 1, Len(d)) = SubSeq(data, 1, Len(d))
      BY <2>6, <3>3, <3>4, SeqEqual
    <3>6. Len(d) = Len(data) => d = data
      BY <1>t, <2>5, <2>6, SeqEqual
    <3> QED
      BY <3>1, <3>5, <3>6 DEF IsPrefix
  <2>8. Reads(S, rest, tlvs, i) /\ (rest # <<>> => Len(d) = Len(data))
    <3> HIDE DEF d, last
    <3> QED
      BY <1>t, <1>e, <2>4, <2>5
  <2>9. e \in Tlvs(S) /\ e.type = tlvs[i].type /\ e.data = d /\ (d = data => e = tlvs[i])
    <3> HIDE DEF d, last, p
    <3> QED
      BY <1>t, <2>2, <2>5 DEF Tlv, Tlvs
  <2> HIDE DEF d, last, rest, e, p
  <2>10. Reads(S, <<e>> \o rest, tlvs, i - 1)
    BY <1>t, <2>7, <2>8, <2>9, ReadsCons
  <2> QED
    BY <2>3, <2>10 DEF p
<1> QED
  BY <1>1, <1>2

\* Behind the last TLV of a frame there are only empty ones.
LEMMA PaddingReads ==
  ASSUME NEW S, NEW buff, NEW tlvs, NEW start, Holds(S, buff, tlvs, start),
         NEW f, IsParse(f, buff)
  PROVE  \A p \in 1..Len(buff) + 1 :
            p > start[Len(tlvs) + 1] => Reads(S, f[p], tlvs, Len(tlvs))
<1> DEFINE L == Len(buff)
           N == Len(tlvs)
           Ok(p) == Reads(S, f[p], tlvs, N)
           T == {p \in 1..L + 1 : p > start[N + 1] /\ ~Ok(p)}
<1>t. /\ L \in Nat /\ N \in Nat /\ buff \in Seq(S) /\ Nat \subseteq S /\ start[N + 1] \in Nat
      /\ \A p \in 1..L : p > start[N + 1] => buff[p] = 0
      /\ \A p \in 1..L + 1 : f[p] = Step(f, buff, p)
  <2>1. buff \in Seq(S) /\ tlvs \in Seq(Tlvs(S)) /\ start \in [1..N + 1 -> Nat]
    BY DEF Holds
  <2>2. L \in Nat /\ N \in Nat
    BY <2>1
  <2>3. N + 1 \in 1..N + 1
    BY <2>2
  <2>4. \A p \in 1..L : p > start[N + 1] => buff[p] = 0
    BY DEF Holds
  <2>5. \A p \in 1..L + 1 : f[p] = Step(f, buff, p)
    BY DEF IsParse
  <2>6. Nat \subseteq S
    BY DEF Holds
  <2> QED
    BY <2>1, <2>2, <2>3, <2>4, <2>5, <2>6
<1>e. Reads(S, <<>>, tlvs, N)
  BY DEF Reads
<1>1. SUFFICES ASSUME T # {} PROVE FALSE
  <2> HIDE DEF Ok
  <2> QED
    BY DEF Ok
<1>2. T \subseteq 0..L + 1
  <2> HIDE DEF Ok
  <2> QED
    BY <1>t
<1>3. PICK p \in T : \A q \in T : p >= q
  <2>1. L + 1 \in Nat
    BY <1>t
  <2> HIDE DEF T
  <2> QED
    BY <1>1, <1>2, <2>1, MaxOf
<1>4. p \in 1..L + 1 /\ p \in Nat /\ p > start[N + 1] /\ ~Ok(p)
  OBVIOUS
<1>5. ASSUME NEW q \in 1..L + 1, q > p PROVE Ok(q)
  <2> HIDE DEF Ok
  <2> QED
    BY <1>t, <1>3, <1>4, <1>5
<1> HIDE DEF T
<1>6. CASE p + 1 > L
  <2>1. f[p] = <<>>
    BY <1>t, <1>4, <1>6 DEF Step
  <2> QED
    BY <1>e, <1>4, <2>1
<1>7. CASE ~(p + 1 > L)
  <2>1. p \in 1..L /\ p + 1 \in 1..L /\ p + 1 > start[N + 1] /\ p + 2 \in Nat
    BY <1>t, <1>4, <1>7
  <2>2. buff[p] = 0 /\ buff[p + 1] = 0
    BY <1>t, <1>4, <2>1
  <2> DEFINE rest == IF p + 2 \in p + 1..L THEN f[p + 2] ELSE <<>>
             e == Tlv(END, <<>>)
  <2>3. f[p] = <<e>> \o rest
    <3> DEFINE next == p + 2 + buff[p + 1]
    <3>1. next = p + 2 /\ next - 1 = p + 1 /\ p + 1 \in Nat /\ p + 1 <= L
      BY <1>4, <1>7, <1>t, <2>2
    <3>2. f[p] = <<Tlv(buff[p], SubSeq(buff, p + 2, Min({next - 1, Len(buff)})))>>
                 \o (IF next \in p + 1..Len(buff) THEN f[next] ELSE <<>>)
      BY <1>t, <1>4, <1>7 DEF Step
    <3> HIDE DEF next
    <3>3. Min({next - 1, L}) = p + 1
      BY <1>t, <3>1, MinTwo
    <3>4. SubSeq(buff, p + 2, p + 1) = <<>>
      BY <1>4, SubSeqEmpty
    <3>5. Tlv(buff[p], SubSeq(buff, p + 2, Min({next - 1, Len(buff)}))) = e
      BY <2>2, <3>3, <3>4 DEF END
    <3>6. (IF next \in p + 1..Len(buff) THEN f[next] ELSE <<>>) = rest
      BY <3>1
    <3> HIDE DEF e, rest
    <3> QED
      BY <3>2, <3>5, <3>6
  <2>4. Reads(S, rest, tlvs, N)
    <3>1. p + 2 \in p + 1..L => p + 2 \in 1..L + 1 /\ p + 2 > p
      BY <1>t, <1>4
    <3> QED
      BY <1>e, <1>5, <3>1
  <2> HIDE DEF rest
  <2>5. rest \in Seq(Tlvs(S)) /\ \A n \in 1..Len(rest) : rest[n] = e
    <3>1. rest \in Seq(Tlvs(S))
      BY <2>4 DEF Reads
    <3>2. ASSUME NEW n \in 1..Len(rest) PROVE N + n > N
      BY <1>t, <3>1
    <3> QED
      BY <2>4, <3>1, <3>2 DEF Reads
  <2>6. e \in Tlvs(S)
    BY <1>t DEF Tlvs, Tlv, END
  <2> DEFINE list == <<e>> \o rest
  <2>7. /\ list \in Seq(Tlvs(S)) /\ Len(list) = 1 + Len(rest) /\ list[1] = e
        /\ \A n \in 1..Len(rest) : list[1 + n] = rest[n]
    BY <2>5, <2>6, InFront
  <2> HIDE DEF list, e
  <2>8. ASSUME NEW n \in 1..Len(list) PROVE N + n > N /\ list[n] = e
    <3>0. Len(rest) \in Nat
      BY <2>5
    <3>1. CASE n = 1
      BY <1>t, <2>7, <3>1
    <3>2. CASE n # 1
      <4> DEFINE k == n - 1
      <4>1. k \in 1..Len(rest) /\ 1 + k = n /\ N + n > N
        BY <1>t, <2>7, <3>0, <3>2
      <4> HIDE DEF k
      <4> QED
        BY <2>5, <2>7, <4>1
    <3> QED
      BY <3>1, <3>2
  <2>9. Reads(S, list, tlvs, N)
    BY <2>7, <2>8 DEF Reads, e
  <2> QED
    BY <1>4, <2>3, <2>9 DEF list
<1> QED
  BY <1>6, <1>7

\* From the last TLV back to the first, the list is what was sent.
LEMMA AllReads ==
  ASSUME NEW S, NEW buff, NEW tlvs, NEW start, Holds(S, buff, tlvs, start)
  PROVE  Reads(S, ParseTlv(buff), tlvs, 0)
<1> DEFINE L == Len(buff)
           N == Len(tlvs)
<1>t. L \in Nat /\ N \in Nat /\ \A i \in 1..N + 1 : start[i] \in Nat
  <2>1. buff \in Seq(S) /\ tlvs \in Seq(Tlvs(S)) /\ start \in [1..N + 1 -> Nat]
    BY DEF Holds
  <2> QED
    BY <2>1
<1>1. PICK f : IsParse(f, buff) /\ ParseTlv(buff) = f[1]
  BY <1>t, ParseDef
<1>2. \A p \in 1..L + 1 : f[p] = Step(f, buff, p)
  BY <1>1 DEF IsParse
<1> DEFINE Ok(i) == start[i] <= L => Reads(S, f[start[i] + 1], tlvs, i - 1)
           T == {i \in 1..N + 1 : ~Ok(i)}
<1>3. \A i \in 1..N + 1 : Ok(i)
  <2> SUFFICES ASSUME T # {} PROVE FALSE
    <3> HIDE DEF Ok
    <3> QED
      OBVIOUS
  <2>1. T \subseteq 0..N + 1 /\ N + 1 \in Nat
    <3> HIDE DEF Ok
    <3> QED
      BY <1>t
  <2>2. PICK i \in T : \A k \in T : i >= k
    <3> HIDE DEF T
    <3> QED
      BY <2>1, MaxOf
  <2>3. i \in 1..N + 1 /\ i \in Nat /\ start[i] <= L /\ ~Reads(S, f[start[i] + 1], tlvs, i - 1)
    OBVIOUS
  <2>4. ASSUME NEW k \in 1..N + 1, k > i PROVE Ok(k)
    <3> HIDE DEF Ok
    <3> QED
      BY <1>t, <2>2, <2>3, <2>4
  <2> HIDE DEF T
  <2>5. start[i] \in Nat /\ start[i] + 1 \in 1..L + 1
    BY <1>t, <2>3
  <2>6. CASE i = N + 1
    <3>1. start[i] + 1 > start[N + 1] /\ i - 1 = N
      BY <1>t, <2>5, <2>6
    <3>2. Reads(S, f[start[i] + 1], tlvs, N)
      BY <1>1, <2>5, <3>1, PaddingReads
    <3> QED
      BY <2>3, <3>1, <3>2
  <2>7. CASE i # N + 1
    <3>1. i \in 1..N /\ i + 1 \in 1..N + 1 /\ i + 1 > i /\ (i + 1) - 1 = i
      BY <1>t, <2>3, <2>7
    <3>2. start[i + 1] < L => Reads(S, f[start[i + 1] + 1], tlvs, i)
      <4>1. start[i + 1] < L => start[i + 1] <= L
        BY <1>t, <3>1
      <4> QED
        BY <2>4, <3>1, <4>1
    <3>3. Reads(S, Step(f, buff, start[i] + 1), tlvs, i - 1)
      BY <2>3, <3>1, <3>2, StepReads
    <3> QED
      BY <1>2, <2>3, <2>5, <3>3
  <2> QED
    BY <2>6, <2>7
<1>4. 1 \in 1..N + 1 /\ 1 - 1 = 0 /\ start[1] = 0 /\ 0 <= L /\ 0 + 1 = 1
  BY <1>t DEF Holds
<1>5. Ok(1)
  BY <1>3, <1>4
<1> QED
  BY <1>1, <1>4, <1>5

-----------------------------------------------------------------------------
(* Frames.                                                                  *)

\* The octets of a TLV.
Octets(tlv) == <<tlv.type, Len(tlv.data)>> \o tlv.data

\* The octets of a TLV: type, length and data.
LEMMA OctetsOf ==
  ASSUME NEW S, Nat \subseteq S, NEW tlv \in Tlvs(S)
  PROVE  /\ Octets(tlv) \in Seq(S) /\ Len(Octets(tlv)) = 2 + Len(tlv.data)
         /\ Octets(tlv)[1] = tlv.type /\ Octets(tlv)[2] = Len(tlv.data)
         /\ \A j \in 1..Len(tlv.data) : Octets(tlv)[2 + j] = tlv.data[j]
<1> DEFINE data == tlv.data
           head == <<tlv.type, Len(data)>>
           all == head \o data
<1>1. data \in Seq(S) /\ Len(data) \in Nat /\ tlv.type \in S
  BY DEF Tlvs
<1>2. head \in Seq(S) /\ Len(head) = 2 /\ head[1] = tlv.type /\ head[2] = Len(data)
  BY <1>1
<1> HIDE DEF head, data
<1>3. /\ all \in Seq(S) /\ Len(all) = 2 + Len(data)
      /\ \A i \in 1..2 + Len(data) : all[i] = IF i <= 2 THEN head[i] ELSE data[i - 2]
  <2>1. /\ head \o data \in Seq(S) /\ Len(head \o data) = Len(head) + Len(data)
        /\ \A i \in 1..Len(head) + Len(data) :
              (head \o data)[i] = IF i <= Len(head) THEN head[i] ELSE data[i - Len(head)]
    BY <1>1, <1>2, ConcatProperties
  <2> QED
    BY <1>2, <2>1
<1> HIDE DEF all
<1>4. ASSUME NEW j \in 1..Len(data) PROVE all[2 + j] = data[j]
  <2> DEFINE q == 2 + j
  <2>1. q \in 1..2 + Len(data) /\ ~(q <= 2) /\ q - 2 = j
    BY <1>1
  <2> HIDE DEF q
  <2>2. all[q] = data[j]
    BY <1>3, <2>1
  <2> QED
    BY <2>2 DEF q
<1>5. all[1] = head[1] /\ all[2] = head[2]
  BY <1>1, <1>3
<1> QED
  BY <1>2, <1>3, <1>4, <1>5 DEF all, head, data, Octets

\* What stands where in a frame: the header, the TLVs, the padding.
LEMMA FrameOctets ==
  ASSUME NEW S, Nat \subseteq S, NEW flat \in Seq(S), NEW padding \in Nat
  PROVE  LET frame == [n \in 1..HeaderLength |-> 0] \o flat \o [n \in 1..padding |-> 0]
         IN  /\ frame \in Seq(S)
             /\ Len(frame) = 14 + (Len(flat) + padding)
             /\ \A q \in 1..Len(flat) + padding :
                   frame[14 + q] = IF q <= Len(flat) THEN flat[q] ELSE 0
<1> DEFINE header == [n \in 1..14 |-> 0]
           zeros == [n \in 1..padding |-> 0]
           front == header \o flat
           frame == front \o zeros
<1>1. /\ header \in Seq(S) /\ Len(header) = 14 /\ zeros \in Seq(S) /\ Len(zeros) = padding
      /\ \A n \in 1..padding : zeros[n] = 0
  OBVIOUS
<1>2. Len(flat) \in Nat
  OBVIOUS
<1> HIDE DEF header, zeros
<1>3. /\ front \in Seq(S) /\ Len(front) = 14 + Len(flat)
      /\ \A i \in 1..14 + Len(flat) : front[i] = IF i <= 14 THEN header[i] ELSE flat[i - 14]
  <2>1. /\ header \o flat \in Seq(S) /\ Len(header \o flat) = Len(header) + Len(flat)
        /\ \A i \in 1..Len(header) + Len(flat) :
              (header \o flat)[i] = IF i <= Len(header) THEN header[i]
                                    ELSE flat[i - Len(header)]
    BY <1>1, ConcatProperties
  <2> QED
    BY <1>1, <2>1
<1> HIDE DEF front
<1>4. /\ frame \in Seq(S) /\ Len(frame) = 14 + Len(flat) + padding
      /\ \A i \in 1..14 + Len(flat) + padding :
            frame[i] = IF i <= 14 + Len(flat) THEN front[i] ELSE zeros[i - (14 + Len(flat))]
  <2>1. /\ front \o zeros \in Seq(S) /\ Len(front \o zeros) = Len(front) + Len(zeros)
        /\ \A i \in 1..Len(front) + Len(zeros) :
              (front \o zeros)[i] = IF i <= Len(front) THEN front[i]
                                    ELSE zeros[i - Len(front)]
    BY <1>1, <1>3, ConcatProperties
  <2> QED
    BY <1>1, <1>3, <2>1
<1> HIDE DEF frame
<1>5. ASSUME NEW q \in 1..Len(flat) + padding
      PROVE  frame[14 + q] = IF q <= Len(flat) THEN flat[q] ELSE 0
  <2> DEFINE p == 14 + q
  <2>1. p \in 1..14 + Len(flat) + padding /\ p \in Nat /\ p - 14 = q
    BY <1>2
  <2>2. CASE q <= Len(flat)
    <3>1. p <= 14 + Len(flat) /\ p \in 1..14 + Len(flat) /\ ~(p <= 14)
      BY <1>2, <2>2
    <3> HIDE DEF p
    <3>2. frame[p] = flat[q]
      BY <1>3, <1>4, <2>1, <3>1
    <3> QED
      BY <2>2, <3>2 DEF p
  <2>3. CASE ~(q <= Len(flat))
    <3>1. ~(p <= 14 + Len(flat)) /\ p - (14 + Len(flat)) \in 1..padding
      BY <1>2, <2>3
    <3> HIDE DEF p
    <3>2. frame[p] = 0
      BY <1>1, <1>4, <2>1, <3>1
    <3> QED
      BY <2>3, <3>2 DEF p
  <2> QED
    BY <2>2, <2>3
<1>6. 14 + Len(flat) + padding = 14 + (Len(flat) + padding)
  BY <1>2
<1>7. frame = [n \in 1..HeaderLength |-> 0] \o flat \o [n \in 1..padding |-> 0]
  BY DEF frame, front, header, zeros, HeaderLength
<1> QED
  BY <1>4, <1>5, <1>6, <1>7

\* However many octets of a frame arrive, the list is what was sent.
LEMMA FrameReads ==
  ASSUME NEW S, Nat \subseteq S, NEW tlvs \in Seq(Tlvs(S)), NEW padding \in Nat, NEW n \in Nat
  PROVE  Reads(S, Parse(Received(Frame(tlvs, padding), n)), tlvs, 0)
<1> DEFINE N == Len(tlvs)
           seqs == [k \in 1..N |-> Octets(tlvs[k])]
           flat == FlattenSeq(seqs)
           total == Len(flat) + padding
           frame == Frame(tlvs, padding)
           m == Min({n, Len(frame)})
           pkt == Received(frame, n)
           buff == SubSeq(pkt, 15, m)
<1>t. N \in Nat /\ DOMAIN tlvs = 1..N /\ \A k \in 1..N : tlvs[k] \in Tlvs(S)
  OBVIOUS
<1>1. /\ seqs \in Seq(Seq(S)) /\ Len(seqs) = N
      /\ \A k \in 1..N : seqs[k] = Octets(tlvs[k])
  <2>1. \A k \in 1..N : Octets(tlvs[k]) \in Seq(S)
    BY <1>t, OctetsOf
  <2> QED
    BY <1>t, <2>1
<1>2. flat \in Seq(S) /\ \E start : Places(start, seqs, N, flat)
  <2> HIDE DEF seqs
  <2> QED
    BY <1>1, Flatten
<1>3. PICK start : Places(start, seqs, N, flat)
  BY <1>2
<1>4. frame = [k \in 1..HeaderLength |-> 0] \o flat \o [k \in 1..padding |-> 0]
  BY <1>t DEF Frame, Octets
<1> HIDE DEF seqs, flat, frame
<1>5. /\ frame \in Seq(S) /\ Len(frame) = 14 + total
      /\ \A q \in 1..total : frame[14 + q] = IF q <= Len(flat) THEN flat[q] ELSE 0
  BY <1>2, <1>4, FrameOctets
<1>6. Len(flat) \in Nat /\ total \in Nat /\ Len(frame) \in Nat
  BY <1>2, <1>5
<1>7. m \in Nat /\ m <= Len(frame) /\ m <= 14 + total
  <2>1. m = IF n <= Len(frame) THEN n ELSE Len(frame)
    BY <1>6, MinTwo
  <2> HIDE DEF m
  <2> QED
    BY <1>5, <1>6, <2>1
<1> HIDE DEF m, total
<1>8. pkt \in Seq(S) /\ Len(pkt) = m /\ \A j \in 1..m : pkt[j] = frame[j]
  <2>1. /\ SubSeq(frame, 0 + 1, m) \in Seq(S) /\ Len(SubSeq(frame, 0 + 1, m)) = m - 0
        /\ \A j \in 1..m - 0 : SubSeq(frame, 0 + 1, m)[j] = frame[0 + j]
    BY <1>5, <1>7, Slice
  <2>2. 0 + 1 = 1 /\ m - 0 = m /\ \A j \in 1..m : 0 + j = j
    BY <1>7
  <2>3. pkt = SubSeq(frame, 0 + 1, m)
    BY <2>2 DEF Received, m
  <2> HIDE DEF pkt
  <2> QED
    BY <2>1, <2>2, <2>3
<1> HIDE DEF pkt
<1>9. CASE m < 14
  <2>1. Parse(pkt) = <<>>
    BY <1>8, <1>9 DEF Parse, HeaderLength
  <2> QED
    BY <2>1 DEF Reads, pkt, frame
<1>10. CASE ~(m < 14)
  <2>1. /\ buff \in Seq(S) /\ Len(buff) = m - 14
        /\ \A j \in 1..m - 14 : buff[j] = pkt[14 + j] /\ 14 + j \in 1..m
    <3>1. /\ SubSeq(pkt, 14 + 1, m) \in Seq(S) /\ Len(SubSeq(pkt, 14 + 1, m)) = m - 14
          /\ \A j \in 1..m - 14 : SubSeq(pkt, 14 + 1, m)[j] = pkt[14 + j] /\ 14 + j \in 1..m
      <4>1. 14 \in Nat /\ 14 <= m /\ m <= Len(pkt)
        BY <1>7, <1>8, <1>10
      <4> QED
        BY <1>7, <1>8, <4>1, Slice
    <3>2. 14 + 1 = 15
      OBVIOUS
    <3> QED
      BY <3>1, <3>2
  <2>2. Parse(pkt) = ParseTlv(buff)
    <3>1. HeaderLength + 1 = 15
      BY DEF HeaderLength
    <3> QED
      BY <1>8, <1>10, <3>1 DEF Parse, HeaderLength
  <2> HIDE DEF buff
  <2>3. /\ Len(buff) \in Nat /\ Len(buff) <= total
        /\ \A j \in 1..Len(buff) : buff[j] = IF j <= Len(flat) THEN flat[j] ELSE 0
    <3>1. Len(buff) \in Nat /\ Len(buff) <= total
      BY <1>6, <1>7, <1>10, <2>1
    <3>2. \A j \in 1..Len(buff) : j \in 1..total
      BY <1>6, <3>1
    <3>3. ASSUME NEW j \in 1..Len(buff) PROVE buff[j] = frame[14 + j]
      BY <1>8, <2>1
    <3> QED
      BY <1>5, <3>1, <3>2, <3>3
  <2>4. Holds(S, buff, tlvs, start)
    <3>1. /\ start \in [1..N + 1 -> Nat] /\ start[1] = 0 /\ start[N + 1] = Len(flat)
          /\ \A i \in 1..N : start[i + 1] = start[i] + Len(seqs[i])
          /\ \A i \in 1..N : \A j \in 1..Len(seqs[i]) : flat[start[i] + j] = seqs[i][j]
      BY <1>3 DEF Places
    <3>2. ASSUME NEW i \in 1..N
          PROVE  /\ start[i + 1] = start[i] + 2 + Len(tlvs[i].data)
                 /\ start[i] + 1 <= Len(buff) => buff[start[i] + 1] = tlvs[i].type
                 /\ start[i] + 2 <= Len(buff) => buff[start[i] + 2] = Len(tlvs[i].data)
                 /\ \A j \in 1..Len(tlvs[i].data) :
                       start[i] + 2 + j <= Len(buff) =>
                          buff[start[i] + 2 + j] = tlvs[i].data[j]
      <4> DEFINE data == tlvs[i].data
      <4>1. data \in Seq(S) /\ Len(data) \in Nat
        <5>1. tlvs[i] \in Tlvs(S)
          BY <1>t
        <5>2. data \in Seq(S)
          BY <5>1 DEF Tlvs
        <5> QED
          BY <5>2
      <4>2. /\ Len(seqs[i]) = 2 + Len(data)
            /\ seqs[i][1] = tlvs[i].type /\ seqs[i][2] = Len(data)
            /\ \A j \in 1..Len(data) : seqs[i][2 + j] = data[j]
        BY <1>t, <1>1, OctetsOf
      <4>3. start[i] \in Nat /\ \A j \in 1..Len(seqs[i]) : start[i] + j \in 1..Len(flat)
        <5>1. N <= Len(seqs)
          BY <1>t, <1>1
        <5> QED
          BY <1>t, <1>1, <1>2, <1>3, <5>1, PlaceIn
      <4> HIDE DEF data
      <4>4. ASSUME NEW j \in 1..2 + Len(data), start[i] + j <= Len(buff)
            PROVE  buff[start[i] + j] = seqs[i][j]
        <5> DEFINE q == start[i] + j
        <5>1. q \in 1..Len(flat) /\ flat[q] = seqs[i][j]
          BY <3>1, <4>2, <4>3
        <5>2. q \in 1..Len(buff) /\ q <= Len(flat)
          BY <1>6, <2>3, <4>4, <5>1
        <5> HIDE DEF q
        <5>3. buff[q] = seqs[i][j]
          BY <2>3, <5>1, <5>2
        <5> QED
          BY <5>3 DEF q
      <4>5. 1 \in 1..2 + Len(data) /\ 2 \in 1..2 + Len(data)
        BY <4>1
      <4>6. ASSUME NEW j \in 1..Len(data), start[i] + 2 + j <= Len(buff)
            PROVE  buff[start[i] + 2 + j] = data[j]
        <5>1. 2 + j \in 1..2 + Len(data) /\ start[i] + (2 + j) = start[i] + 2 + j
          BY <4>1, <4>3
        <5>2. buff[start[i] + (2 + j)] = seqs[i][2 + j]
          BY <4>4, <4>6, <5>1
        <5> QED
          BY <4>2, <5>1, <5>2
      <4>7. start[i + 1] = start[i] + 2 + Len(data)
        <5>1. start[i + 1] = start[i] + (2 + Len(data))
          BY <3>1, <4>2
        <5> QED
          BY <4>1, <4>3, <5>1
      <4> QED
        BY <4>2, <4>4, <4>5, <4>6, <4>7 DEF data
    <3>3. ASSUME NEW p \in 1..Len(buff), p > start[N + 1] PROVE buff[p] = 0
      <4>1. ~(p <= Len(flat))
        BY <1>6, <2>3, <3>1, <3>3
      <4> QED
        BY <2>3, <4>1
    <3> QED
      BY <1>t, <2>1, <3>1, <3>2, <3>3 DEF Holds
  <2>5. Reads(S, Parse(pkt), tlvs, 0)
    BY <2>2, <2>4, AllReads
  <2> QED
    BY <2>5 DEF pkt, frame
<1> QED
  BY <1>9, <1>10

-----------------------------------------------------------------------------
(* What switches announce.                                                  *)

Words == {"tor", "1", "version", "other", "10.0", "0.1", "0.2", "oid", "fe80", "0"}

\* What the octets of a frame are taken from.
Content(a) == Nat \cup Words \cup {a.switch, a.value}

\* The optional TLVs one by one.
LEMMA OptionalTlvs ==
  ASSUME NEW a
  PROVE  /\ OptionalTlv(a)["name"] = Tlv(NAME, <<"tor", "1">>)
         /\ OptionalTlv(a)["desc"] = Tlv(DESC, <<"version", a.switch>>)
         /\ OptionalTlv(a)["otherDesc"] = Tlv(DESC, <<"version", "other">>)
         /\ OptionalTlv(a)["ipv4"] = Tlv(MGMT, <<3, 1, "10.0", "0.1", "oid">>)
         /\ OptionalTlv(a)["ipv4b"] = Tlv(MGMT, <<3, 1, "10.0", "0.2", "oid">>)
         /\ OptionalTlv(a)["ipv6"] = Tlv(MGMT, <<4, 2, "fe80", "0", "1", "oid">>)
BY DEF OptionalTlv

\* The TLVs of a frame and where they are in it.
LEMMA AnnounceIs ==
  ASSUME NEW a, NEW order \in Orders
  PROVE  LET s == Announce(a, order)
         IN  /\ s \in Seq(Tlvs(Content(a))) /\ Len(order) \in Nat /\ Len(s) = Len(order) + 4
             /\ s[1] = Tlv(1, <<4>>) /\ s[2] = PortTlv(a) /\ s[3] = Tlv(3, <<120>>)
             /\ \A n \in 4..Len(order) + 3 :
                   \E kind \in Optional : s[n] = OptionalTlv(a)[kind]
             /\ s[Len(order) + 4] = Tlv(END, <<>>)
<1> DEFINE T == Tlvs(Content(a))
           first == <<Tlv(1, <<4>>), PortTlv(a), Tlv(3, <<120>>)>>
           middle == [n \in DOMAIN order |-> OptionalTlv(a)[order[n]]]
           front == first \o middle
           end == <<Tlv(END, <<>>)>>
           s == front \o end
<1>1. order \in Seq(Optional) /\ Len(order) \in Nat
  BY PacketAssumption
<1>2. \A kind \in Optional : OptionalTlv(a)[kind] \in T
  <2> SUFFICES ASSUME NEW kind \in Optional PROVE OptionalTlv(a)[kind] \in T
    OBVIOUS
  <2>1. \A type \in Nat, data \in Seq(Content(a)) : Tlv(type, data) \in T
    BY DEF Tlv, Tlvs, Content
  <2> DEFINE C == Content(a)
  <2>2. Words \subseteq C /\ Nat \subseteq C /\ a.switch \in C
    BY DEF Content
  <2>3. /\ NAME \in Nat /\ DESC \in Nat /\ MGMT \in Nat
    BY DEF NAME, DESC, MGMT
  <2> HIDE DEF C
  <2>w. /\ "tor" \in C /\ "1" \in C /\ "version" \in C /\ "other" \in C /\ a.switch \in C
        /\ "10.0" \in C /\ "0.1" \in C /\ "0.2" \in C /\ "oid" \in C /\ "fe80" \in C
        /\ "0" \in C
    BY <2>2 DEF Words
  <2>n. 1 \in C /\ 2 \in C /\ 3 \in C /\ 4 \in C
    <3>1. 1 \in Nat /\ 2 \in Nat /\ 3 \in Nat /\ 4 \in Nat
      OBVIOUS
    <3> QED
      BY <2>2, <3>1
  <2>4. /\ <<"tor", "1">> \in Seq(C) /\ <<"version", a.switch>> \in Seq(C)
        /\ <<"version", "other">> \in Seq(C)
    BY <2>w, <2>n
  <2>5. <<3, 1, "10.0", "0.1", "oid">> \in Seq(C) /\ <<3, 1, "10.0", "0.2", "oid">> \in Seq(C)
    BY <2>w, <2>n
  <2>6. <<4, 2, "fe80", "0", "1", "oid">> \in Seq(C)
    BY <2>w, <2>n
  <2> HIDE DEF T
  <2> QED
    BY <2>1, <2>3, <2>4, <2>5, <2>6, OptionalTlvs DEF Optional, C
<1>3. first \in Seq(T) /\ Len(first) = 3
  <2>1. <<4>> \in Seq(Content(a)) /\ <<120>> \in Seq(Content(a))
    BY DEF Content
  <2>2. <<7, a.value>> \in Seq(Content(a)) /\ <<5, a.value>> \in Seq(Content(a))
    BY DEF Content
  <2>3. \A type \in Nat, data \in Seq(Content(a)) : Tlv(type, data) \in T
    BY DEF Tlv, Tlvs, Content
  <2>4. PortTlv(a) \in T
    BY <2>2, <2>3 DEF PortTlv, PORT
  <2>5. Tlv(1, <<4>>) \in T /\ Tlv(3, <<120>>) \in T
    BY <2>1, <2>3
  <2> HIDE DEF T
  <2> QED
    BY <2>4, <2>5
<1>4. /\ middle \in Seq(T) /\ Len(middle) = Len(order)
      /\ \A n \in 1..Len(order) : middle[n] = OptionalTlv(a)[order[n]] /\ order[n] \in Optional
  <2>1. DOMAIN order = 1..Len(order) /\ \A n \in 1..Len(order) : order[n] \in Optional
    BY <1>1
  <2> HIDE DEF T
  <2> QED
    BY <1>1, <1>2, <2>1
<1>5. end \in Seq(T) /\ Len(end) = 1 /\ end[1] = Tlv(END, <<>>)
  <2>1. Tlv(END, <<>>) \in T
    BY DEF Tlv, Tlvs, Content, END
  <2> HIDE DEF T
  <2> QED
    BY <2>1
<1>f. first[1] = Tlv(1, <<4>>) /\ first[2] = PortTlv(a) /\ first[3] = Tlv(3, <<120>>)
  OBVIOUS
<1> HIDE DEF T, first, middle, end
<1>6. /\ front \in Seq(T) /\ Len(front) = 3 + Len(order)
      /\ \A i \in 1..3 + Len(order) : front[i] = IF i <= 3 THEN first[i] ELSE middle[i - 3]
  <2>1. /\ first \o middle \in Seq(T) /\ Len(first \o middle) = Len(first) + Len(middle)
        /\ \A i \in 1..Len(first) + Len(middle) :
              (first \o middle)[i] = IF i <= Len(first) THEN first[i]
                                     ELSE middle[i - Len(first)]
    <3>1. first \in Seq(T) /\ middle \in Seq(T)
      BY <1>3, <1>4
    <3> QED
      BY <3>1, ConcatProperties
  <2> QED
    BY <1>3, <1>4, <2>1
<1> HIDE DEF front
<1>7. /\ s \in Seq(T) /\ Len(s) = 3 + Len(order) + 1
      /\ \A i \in 1..3 + Len(order) + 1 :
            s[i] = IF i <= 3 + Len(order) THEN front[i] ELSE end[i - (3 + Len(order))]
  <2>1. /\ front \o end \in Seq(T) /\ Len(front \o end) = Len(front) + Len(end)
        /\ \A i \in 1..Len(front) + Len(end) :
              (front \o end)[i] = IF i <= Len(front) THEN front[i] ELSE end[i - Len(front)]
    BY <1>5, <1>6, ConcatProperties
  <2> QED
    BY <1>5, <1>6, <2>1
<1>8. s = Announce(a, order)
  BY DEF Announce, front, first, middle, end
<1> HIDE DEF s
<1>9. s[1] = first[1] /\ s[2] = first[2] /\ s[3] = first[3]
  BY <1>1, <1>6, <1>7
<1>10. ASSUME NEW n \in 4..Len(order) + 3
       PROVE  \E kind \in Optional : s[n] = OptionalTlv(a)[kind]
  <2>1. /\ n \in 1..3 + Len(order) /\ ~(n <= 3) /\ n - 3 \in 1..Len(order)
        /\ n \in 1..3 + Len(order) + 1 /\ n <= 3 + Len(order)
    BY <1>1
  <2>2. s[n] = middle[n - 3]
    BY <1>6, <1>7, <2>1
  <2> QED
    BY <1>4, <2>1, <2>2
<1>11. s[Len(order) + 4] = end[1]
  <2> DEFINE q == Len(order) + 4
  <2>1. q \in 1..3 + Len(order) + 1 /\ ~(q <= 3 + Len(order)) /\ q - (3 + Len(order)) = 1
    BY <1>1
  <2> HIDE DEF q
  <2>2. s[q] = end[1]
    BY <1>7, <2>1
  <2> QED
    BY <2>2 DEF q
<1>12. 3 + Len(order) + 1 = Len(order) + 4
  BY <1>1
<1> QED
  BY <1>1, <1>5, <1>7, <1>8, <1>9, <1>f, <1>10, <1>11, <1>12 DEF T

\* Which TLVs of a frame have which type.
LEMMA SentOf ==
  ASSUME NEW a, NEW order \in Orders, NEW n \in 1..Len(Announce(a, order))
  PROVE  LET tlv == Announce(a, order)[n]
         IN  /\ tlv.type = PORT => n = 2
             /\ tlv.type = NAME => tlv.data = <<"tor", "1">>
             /\ tlv.type = DESC =>
                   /\ n >= 4
                   /\ \/ tlv = OptionalTlv(a)["desc"] /\ tlv.data = <<"version", a.switch>>
                      \/ tlv = OptionalTlv(a)["otherDesc"] /\ tlv.data = <<"version", "other">>
             /\ tlv.type = MGMT =>
                   \/ /\ tlv = OptionalTlv(a)["ipv4"]
                      /\ tlv.data = <<3, 1, "10.0", "0.1", "oid">>
                   \/ /\ tlv = OptionalTlv(a)["ipv4b"]
                      /\ tlv.data = <<3, 1, "10.0", "0.2", "oid">>
                   \/ /\ tlv = OptionalTlv(a)["ipv6"]
                      /\ tlv.data = <<4, 2, "fe80", "0", "1", "oid">>
<1> DEFINE s == Announce(a, order)
           tlv == s[n]
<1>1. /\ Len(order) \in Nat /\ Len(s) = Len(order) + 4
      /\ s[1] = Tlv(1, <<4>>) /\ s[2] = PortTlv(a) /\ s[3] = Tlv(3, <<120>>)
      /\ \A k \in 4..Len(order) + 3 : \E kind \in Optional : s[k] = OptionalTlv(a)[kind]
      /\ s[Len(order) + 4] = Tlv(END, <<>>)
  BY AnnounceIs
<1>2. n = 1 \/ n = 2 \/ n = 3 \/ n \in 4..Len(order) + 3 \/ n = Len(order) + 4
  BY <1>1
<1> HIDE DEF s
<1>3. CASE n = 1 \/ n = 2 \/ n = 3 \/ n = Len(order) + 4
  <2>1. tlv.type \in {1, PORT, 3, END} /\ (tlv.type = PORT => n = 2)
    BY <1>1, <1>3 DEF Tlv, PortTlv, PORT, END
  <2> QED
    BY <2>1 DEF PORT, END, NAME, DESC, MGMT, s
<1>4. CASE n \in 4..Len(order) + 3
  <2>1. PICK kind \in Optional : tlv = OptionalTlv(a)[kind]
    BY <1>1, <1>4
  <2>2. n >= 4
    BY <1>1, <1>4
  <2>3. CASE kind = "name"
    <3>1. tlv = Tlv(NAME, <<"tor", "1">>)
      BY <2>1, <2>3, OptionalTlvs
    <3> QED
      BY <3>1 DEF Tlv, PORT, NAME, DESC, MGMT, s
  <2>4. CASE kind = "desc" \/ kind = "otherDesc"
    <3>1. \/ tlv = OptionalTlv(a)["desc"] /\ tlv = Tlv(DESC, <<"version", a.switch>>)
          \/ tlv = OptionalTlv(a)["otherDesc"] /\ tlv = Tlv(DESC, <<"version", "other">>)
      BY <2>1, <2>4, OptionalTlvs
    <3> QED
      BY <2>2, <3>1 DEF Tlv, PORT, NAME, DESC, MGMT, s
  <2>5. CASE kind = "ipv4"
    <3>1. /\ tlv = OptionalTlv(a)["ipv4"]
          /\ tlv = Tlv(MGMT, <<3, 1, "10.0", "0.1", "oid">>)
      BY <2>1, <2>5, OptionalTlvs
    <3> QED
      BY <3>1 DEF Tlv, PORT, NAME, DESC, MGMT, s
  <2>6. CASE kind = "ipv4b"
    <3>1. /\ tlv = OptionalTlv(a)["ipv4b"]
          /\ tlv = Tlv(MGMT, <<3, 1, "10.0", "0.2", "oid">>)
      BY <2>1, <2>6, OptionalTlvs
    <3> QED
      BY <3>1 DEF Tlv, PORT, NAME, DESC, MGMT, s
  <2>7. CASE kind = "ipv6"
    <3>1. /\ tlv = OptionalTlv(a)["ipv6"]
          /\ tlv = Tlv(MGMT, <<4, 2, "fe80", "0", "1", "oid">>)
      BY <2>1, <2>7, OptionalTlvs
    <3> QED
      BY <3>1 DEF Tlv, PORT, NAME, DESC, MGMT, s
  <2> QED
    BY <2>1, <2>3, <2>4, <2>5, <2>6, <2>7 DEF Optional
<1> QED
  BY <1>2, <1>3, <1>4

\* A TLV of the list that is not padding.
LEMMA ReadTlv ==
  ASSUME NEW S, NEW s \in Seq(Tlvs(S)), NEW list, Reads(S, list, s, 0),
         NEW n \in 1..Len(list), list[n].type # END
  PROVE  /\ n \in 1..Len(s) /\ list[n].type = s[n].type
         /\ list[n].data \in Seq(S) /\ s[n].data \in Seq(S)
         /\ IsPrefix(list[n].data, s[n].data)
         /\ n < Len(list) => list[n] = s[n]
<1>1. list \in Seq(Tlvs(S)) /\ Len(list) \in Nat /\ Len(s) \in Nat /\ n \in Nat /\ 0 + n = n
  BY DEF Reads
<1>2. IF n > Len(s) THEN list[n] = Tlv(END, <<>>)
      ELSE /\ list[n].type = s[n].type
           /\ IsPrefix(list[n].data, s[n].data)
           /\ n < Len(list) => list[n] = s[n]
  <2>1. IF 0 + n > Len(s) THEN list[n] = Tlv(END, <<>>)
        ELSE /\ list[n].type = s[0 + n].type
             /\ IsPrefix(list[n].data, s[0 + n].data)
             /\ n < Len(list) => list[n] = s[0 + n]
    BY DEF Reads
  <2> QED
    BY <1>1, <2>1
<1>3. n \in 1..Len(s)
  BY <1>1, <1>2 DEF Tlv
<1>4. list[n] \in Tlvs(S) /\ s[n] \in Tlvs(S)
  BY <1>1, <1>3
<1> QED
  BY <1>1, <1>2, <1>3, <1>4 DEF Tlvs

-----------------------------------------------------------------------------
(* What a list that was read from a frame tells of the switch.               *)

\* The first and the last TLV of a type are TLVs of that type.
LEMMA Positions ==
  ASSUME NEW S, NEW list \in Seq(S), NEW type
  PROVE  /\ Of(list, type) # {} =>
               /\ Min(Of(list, type)) \in Of(list, type)
               /\ Max(Of(list, type)) \in Of(list, type)
         /\ Ipv4Of(list) # {} => Max(Ipv4Of(list)) \in Ipv4Of(list)
         /\ Of(list, type) \subseteq 1..Len(list)
<1>1. Len(list) \in Nat /\ DOMAIN list = 1..Len(list)
  OBVIOUS
<1>2. \A t : Of(list, t) \subseteq 1..Len(list)
  BY <1>1 DEF Of
<1>3. Ipv4Of(list) \subseteq 1..Len(list)
  BY <1>2 DEF Ipv4Of
<1>4. \A P : P \subseteq 1..Len(list) => P \subseteq Nat /\ P \subseteq 0..Len(list)
  BY <1>1
<1>5. Of(list, type) # {} =>
        Min(Of(list, type)) \in Of(list, type) /\ Max(Of(list, type)) \in Of(list, type)
  BY <1>1, <1>2, <1>4, MinOf, MaxOf
<1>6. Ipv4Of(list) # {} => Max(Ipv4Of(list)) \in Ipv4Of(list)
  BY <1>1, <1>3, <1>4, MaxOf
<1> QED
  BY <1>2, <1>5, <1>6

\* A switch is recognised from its whole description only.
LEMMA Recognised ==
  ASSUME NEW a, NEW order \in Orders, NEW list,
         Reads(Content(a), list, Announce(a, order), 0), GetSwitch(list) # "none"
  PROVE  GetSwitch(list) = SwitchOf({"version", a.switch}) /\ Len(list) >= 4
<1> DEFINE s == Announce(a, order)
           k == Min(Of(list, DESC))
           data == list[k].data
<1>1. s \in Seq(Tlvs(Content(a))) /\ list \in Seq(Tlvs(Content(a)))
  BY AnnounceIs DEF Reads
<1>2. /\ Of(list, DESC) # {} /\ GetSwitch(list) = SwitchOf(ToSet(data))
      /\ k \in Of(list, DESC)
  BY <1>1, Positions DEF GetSwitch
<1> HIDE DEF k
<1>3. k \in 1..Len(list) /\ list[k].type = DESC /\ DESC # END /\ Len(list) \in Nat
  BY <1>1, <1>2 DEF Of, DESC, END
<1>4. /\ k \in 1..Len(s) /\ s[k].type = DESC
      /\ data \in Seq(Content(a)) /\ s[k].data \in Seq(Content(a)) /\ IsPrefix(data, s[k].data)
  BY <1>1, <1>3, ReadTlv
<1>5. k >= 4 /\ \E w \in {a.switch, "other"} : s[k].data = <<"version", w>>
  BY <1>4, SentOf
<1>6. PICK w \in {a.switch, "other"} : s[k].data = <<"version", w>>
  BY <1>5
<1> HIDE DEF data, s
<1>7. /\ Len(data) \in Nat /\ Len(data) <= 2
      /\ \A j \in 1..Len(data) : data[j] = <<"version", w>>[j]
  <2>1. /\ Len(data) \in Nat /\ Len(data) <= Len(s[k].data)
        /\ \A j \in 1..Len(data) : data[j] = s[k].data[j]
    BY <1>4, PrefixIs
  <2> QED
    BY <1>6, <2>1
<1>8. ToSet(data) = {data[j] : j \in 1..Len(data)}
  BY <1>4 DEF ToSet
<1>9. /\ SwitchOf({}) = "none" /\ SwitchOf({"version"}) = "none"
      /\ SwitchOf({"version", "other"}) = "none"
  BY DEF SwitchOf
<1>10. Len(data) = 2 => ToSet(data) = {"version", w}
  BY <1>7, <1>8
<1>11. Len(data) = 1 => ToSet(data) = {"version"}
  BY <1>7, <1>8
<1>12. Len(data) = 0 => ToSet(data) = {}
  BY <1>7, <1>8
<1>13. GetSwitch(list) = SwitchOf({"version", a.switch})
  <2>1. Len(data) = 2
    <3>0. \A n \in Nat : n <= 2 => n = 0 \/ n = 1 \/ n = 2
      OBVIOUS
    <3>1. Len(data) = 0 \/ Len(data) = 1 \/ Len(data) = 2
      BY <1>7, <3>0, Zenon
    <3> QED
      BY <1>2, <1>9, <1>11, <1>12, <3>1, Zenon
  <2>2. GetSwitch(list) = SwitchOf({"version", w})
    BY <1>2, <1>10, <2>1
  <2>3. w # "other"
    BY <1>9, <2>2
  <2> QED
    BY <2>2, <2>3
<1> QED
  BY <1>3, <1>5, <1>13

Switches == {"Nokia", "SRLinux", "NX-OS", "NCS-55"}

\* What a whole description says of the switch.
LEMMA SwitchIs ==
  ASSUME NEW name \in Switches
  PROVE  SwitchOf({"version", name}) = IF name \in {"Nokia", "SRLinux"} THEN "nokia" ELSE name
BY DEF SwitchOf, Switches

\* The port that is read is the one the switch announced.
LEMMA PortRead ==
  ASSUME NEW a, NEW order \in Orders, NEW list,
         Reads(Content(a), list, Announce(a, order), 0), Len(list) >= 3
  PROVE  Of(list, PORT) # {} /\ PortId(list) = PortTlv(a).data
<1> DEFINE s == Announce(a, order)
<1>1. /\ s \in Seq(Tlvs(Content(a))) /\ list \in Seq(Tlvs(Content(a)))
      /\ s[2] = PortTlv(a) /\ Len(s) >= 4 /\ Len(s) \in Nat /\ Len(list) \in Nat
  BY AnnounceIs DEF Reads
<1>2. list[2] = PortTlv(a)
  <2>1. 2 \in 1..Len(list) /\ 2 < Len(list) /\ ~(0 + 2 > Len(s)) /\ 0 + 2 = 2
    BY <1>1
  <2> QED
    BY <1>1, <2>1 DEF Reads
<1>3. 2 \in Of(list, PORT)
  BY <1>1, <1>2 DEF Of, PortTlv, Tlv
<1>4. \A n \in Of(list, PORT) : n = 2
  <2> SUFFICES ASSUME NEW n \in Of(list, PORT) PROVE n = 2
    OBVIOUS
  <2>1. n \in 1..Len(list) /\ list[n].type = PORT /\ PORT # END
    BY <1>1 DEF Of, PORT, END
  <2>2. n \in 1..Len(s) /\ s[n].type = PORT
    BY <1>1, <2>1, ReadTlv
  <2> QED
    BY <2>2, SentOf
<1>5. Max(Of(list, PORT)) = 2
  BY <1>1, <1>3, <1>4, Positions
<1> QED
  BY <1>2, <1>3, <1>5 DEF PortId

\* What is reported of the switch is what it sent.
LEMMA EntryRight ==
  ASSUME NEW a, NEW order \in Orders, NEW list,
         Reads(Content(a), list, Announce(a, order), 0),
         \A n \in DOMAIN list : Parsable(list[n]), Ipv4Of(list) # {}, Of(list, NAME) # {}
  PROVE  LET s == Announce(a, order)
         IN  /\ \E kind \in {"ipv4", "ipv4b"} :
                   /\ OptionalTlv(a)[kind] \in ToSet(s)
                   /\ Address(list) = SubSeq(OptionalTlv(a)[kind].data, 3, 4)
             /\ \/ SysName(list) = SysName(s)
                \/ IsPrefix(SysName(list), SysName(s)) /\ Last(list).type = NAME
<1> DEFINE s == Announce(a, order)
           S == Content(a)
<1>1. /\ s \in Seq(Tlvs(S)) /\ list \in Seq(Tlvs(S))
      /\ DOMAIN list = 1..Len(list) /\ DOMAIN s = 1..Len(s) /\ Len(list) \in Nat
  <2>1. s \in Seq(Tlvs(S)) /\ list \in Seq(Tlvs(S))
    BY AnnounceIs DEF Reads
  <2> HIDE DEF s, S
  <2> QED
    BY <2>1
<1> HIDE DEF s, S
<1>2. \E kind \in {"ipv4", "ipv4b"} :
         /\ OptionalTlv(a)[kind] \in ToSet(s)
         /\ Address(list) = SubSeq(OptionalTlv(a)[kind].data, 3, 4)
  <2> DEFINE m == Max(Ipv4Of(list))
             data == list[m].data
             sentData == s[m].data
  <2>1. m \in Ipv4Of(list)
    BY <1>1, Positions
  <2> HIDE DEF m
  <2>2. /\ m \in 1..Len(list) /\ list[m].type = MGMT /\ MGMT # END
        /\ data[2] = 1 /\ Parsable(list[m])
    BY <1>1, <2>1 DEF Ipv4Of, Of, MGMT, END
  <2>3. /\ m \in 1..Len(s) /\ s[m].type = MGMT
        /\ data \in Seq(S) /\ sentData \in Seq(S) /\ IsPrefix(data, sentData)
    BY <1>1, <2>2, ReadTlv DEF s, S
  <2>4. Len(data) \in Nat /\ Len(data) >= 4
    <3>1. Len(data) \in Nat
      BY <2>3
    <3>2. Len(data) >= 2 + AddressLength(data[2])
      BY <2>2 DEF Parsable, MGMT, PORT
    <3>3. AddressLength(data[2]) = 2
      BY <2>2 DEF AddressLength
    <3> QED
      BY <3>1, <3>2, <3>3
  <2>5. /\ Len(sentData) \in Nat /\ Len(sentData) >= 4
        /\ \A j \in 1..Len(data) : data[j] = sentData[j]
    BY <2>3, <2>4, PrefixIs
  <2>6. sentData[2] = 1
    BY <2>2, <2>4, <2>5
  <2>7. \/ s[m] = OptionalTlv(a)["ipv4"] \/ s[m] = OptionalTlv(a)["ipv4b"]
        \/ sentData = <<4, 2, "fe80", "0", "1", "oid">>
    BY <2>3, SentOf DEF s
  <2>8. PICK kind \in {"ipv4", "ipv4b"} : s[m] = OptionalTlv(a)[kind]
    BY <2>6, <2>7
  <2>9. OptionalTlv(a)[kind] \in ToSet(s)
    BY <1>1, <2>3, <2>8 DEF ToSet
  <2>10. SubSeq(data, 3, 4) = SubSeq(sentData, 3, 4)
    <3> HIDE DEF data, sentData
    <3>1. ASSUME NEW t \in Seq(S), Len(t) \in Nat, Len(t) >= 4
          PROVE  /\ SubSeq(t, 3, 4) \in Seq(S) /\ Len(SubSeq(t, 3, 4)) = 2
                 /\ \A j \in 1..2 : SubSeq(t, 3, 4)[j] = t[2 + j]
      <4>1. /\ SubSeq(t, 2 + 1, 4) \in Seq(S) /\ Len(SubSeq(t, 2 + 1, 4)) = 4 - 2
            /\ \A j \in 1..4 - 2 : SubSeq(t, 2 + 1, 4)[j] = t[2 + j]
        BY <3>1, Slice
      <4>2. 2 + 1 = 3 /\ 4 - 2 = 2
        OBVIOUS
      <4> QED
        BY <4>1, <4>2
    <3>2. \A j \in 1..2 : 2 + j \in 1..Len(data)
      BY <2>4
    <3>3. /\ SubSeq(data, 3, 4) \in Seq(S) /\ Len(SubSeq(data, 3, 4)) = 2
          /\ SubSeq(sentData, 3, 4) \in Seq(S) /\ Len(SubSeq(sentData, 3, 4)) = 2
          /\ \A j \in 1..2 : SubSeq(data, 3, 4)[j] = SubSeq(sentData, 3, 4)[j]
      BY <2>3, <2>4, <2>5, <3>1, <3>2
    <3> QED
      BY <3>3, SeqEqual
  <2>11. Address(list) = SubSeq(data, 3, 4)
    BY DEF Address, m
  <2> QED
    BY <2>8, <2>9, <2>10, <2>11
<1>3. \/ SysName(list) = SysName(s)
      \/ IsPrefix(SysName(list), SysName(s)) /\ Last(list).type = NAME
  <2> DEFINE m == Max(Of(list, NAME))
             k == Max(Of(s, NAME))
  <2>1. m \in Of(list, NAME)
    BY <1>1, Positions
  <2>2. SysName(list) = list[m].data /\ SysName(s) = s[k].data
    BY DEF SysName
  <2> HIDE DEF m
  <2>3. m \in 1..Len(list) /\ list[m].type = NAME /\ NAME # END
    BY <1>1, <2>1 DEF Of, NAME, END
  <2>4. /\ m \in 1..Len(s) /\ s[m].type = NAME
        /\ IsPrefix(list[m].data, s[m].data) /\ (m < Len(list) => list[m] = s[m])
    BY <1>1, <2>3, ReadTlv DEF s, S
  <2>5. Of(s, NAME) # {}
    BY <1>1, <2>4 DEF Of
  <2>6. k \in Of(s, NAME)
    BY <1>1, <2>5, Positions
  <2> HIDE DEF k
  <2>7. k \in 1..Len(s) /\ s[k].type = NAME
    BY <1>1, <2>6 DEF Of
  <2>8. s[k].data = s[m].data
    <3>1. s[k].data = <<"tor", "1">>
      BY <2>7, SentOf DEF s
    <3>2. s[m].data = <<"tor", "1">>
      BY <2>4, SentOf DEF s
    <3> QED
      BY <3>1, <3>2
  <2>9. m < Len(list) \/ m = Len(list)
    <3>1. \A l \in Nat : \A n \in 1..l : n < l \/ n = l
      OBVIOUS
    <3> QED
      BY <1>1, <2>3, <3>1, Zenon
  <2> QED
    BY <2>2, <2>3, <2>4, <2>8, <2>9 DEF Last
<1> QED
  BY <1>2, <1>3 DEF s

\* A whole frame with all that is needed is accepted.
LEMMA WholeAccepted ==
  ASSUME NEW a, a.switch \in Switches, NEW order \in Orders, NEW list,
         Reads(Content(a), list, Announce(a, order), 0),
         Len(list) >= Len(Announce(a, order)),
         OptionalTlv(a)["desc"] \in ToSet(Announce(a, order)),
         OptionalTlv(a)["otherDesc"] \notin ToSet(Announce(a, order)),
         OptionalTlv(a)["name"] \in ToSet(Announce(a, order)),
         \/ OptionalTlv(a)["ipv4"] \in ToSet(Announce(a, order))
         \/ OptionalTlv(a)["ipv4b"] \in ToSet(Announce(a, order))
  PROVE  /\ GetSwitch(list) # "none" /\ \A n \in DOMAIN list : Parsable(list[n])
         /\ Ipv4Of(list) # {} /\ Of(list, PORT) # {} /\ Of(list, NAME) # {}
<1> DEFINE s == Announce(a, order)
           S == Content(a)
           N == Len(s)
           L == Len(list)
<1>1. /\ s \in Seq(Tlvs(S)) /\ list \in Seq(Tlvs(S)) /\ N >= 4 /\ s[N] = Tlv(END, <<>>)
      /\ s[2] = PortTlv(a)
  BY AnnounceIs DEF Reads
<1> HIDE DEF s, S
<1>2. N \in Nat /\ L \in Nat /\ L >= N /\ DOMAIN s = 1..N /\ DOMAIN list = 1..L
  BY <1>1 DEF s
<1>3. ASSUME NEW n \in 1..N PROVE list[n] = s[n] /\ n \in 1..L
  <2>1. n \in 1..L /\ ~(0 + n > N) /\ 0 + n = n
    BY <1>2
  <2>2. /\ list[n].type = s[n].type /\ IsPrefix(list[n].data, s[n].data)
        /\ n < L => list[n] = s[n]
    <3>1. /\ list[n].type = s[0 + n].type /\ IsPrefix(list[n].data, s[0 + n].data)
          /\ n < L => list[n] = s[0 + n]
      BY <2>1 DEF Reads, s
    <3> QED
      BY <2>1, <3>1
  <2>3. CASE n < L
    BY <2>1, <2>2, <2>3
  <2>4. CASE ~(n < L)
    <3>1. n = N
      <4>1. \A x, y \in Nat : \A z \in 1..x : y >= x /\ ~(z < y) => z = x
        OBVIOUS
      <4> HIDE DEF N, L
      <4> QED
        BY <1>2, <2>4, <4>1, Zenon
    <3>2. list[n] \in Tlvs(S) /\ s[n].data = <<>> /\ s[n].type = END
      BY <1>1, <2>1, <3>1 DEF Tlv
    <3>3. /\ list[n].data \in Seq(S) /\ <<>> \in Seq(S)
          /\ list[n] = Tlv(list[n].type, list[n].data)
      BY <3>2 DEF Tlvs, Tlv
    <3>4. list[n].data = <<>>
      <4>1. Len(list[n].data) \in Nat /\ Len(list[n].data) <= Len(<<>>) /\ Len(<<>>) = 0
        BY <2>2, <3>2, <3>3, PrefixIs
      <4> QED
        BY <3>3, <4>1
    <3> QED
      BY <1>1, <2>1, <2>2, <3>1, <3>2, <3>3, <3>4
  <2> QED
    BY <2>3, <2>4
<1>4. ASSUME NEW tlv \in ToSet(s) PROVE \E n \in 1..N : n \in 1..L /\ list[n] = tlv
  BY <1>2, <1>3 DEF ToSet
<1>5. ASSUME NEW n \in 1..L, list[n].type # END
      PROVE  n \in 1..N /\ list[n] = s[n]
  <2>1. n \in 1..N
    BY <1>1, <1>5, ReadTlv DEF s, S
  <2> QED
    BY <1>3, <2>1
<1>6. Of(list, NAME) # {}
  <2>1. PICK n \in 1..L : list[n] = OptionalTlv(a)["name"]
    BY <1>4 DEF s
  <2>2. list[n].type = NAME
    <3>1. list[n] = Tlv(NAME, <<"tor", "1">>)
      BY <2>1, OptionalTlvs
    <3> QED
      BY <3>1 DEF Tlv
  <2> QED
    BY <1>2, <2>2 DEF Of
<1>7. Ipv4Of(list) # {}
  <2>1. PICK n \in 1..L : \/ list[n] = Tlv(MGMT, <<3, 1, "10.0", "0.1", "oid">>)
                          \/ list[n] = Tlv(MGMT, <<3, 1, "10.0", "0.2", "oid">>)
    BY <1>4, OptionalTlvs DEF s
  <2>2. list[n].type = MGMT /\ list[n].data[2] = 1
    BY <2>1 DEF Tlv
  <2> QED
    BY <1>2, <2>2 DEF Ipv4Of, Of
<1>8. Of(list, PORT) # {}
  <2>1. L >= 3
    BY <1>1, <1>2
  <2> QED
    BY <2>1, PortRead
<1>9. GetSwitch(list) # "none"
  <2> DEFINE k == Min(Of(list, DESC))
  <2>1. PICK n \in 1..L : list[n] = OptionalTlv(a)["desc"]
    BY <1>4 DEF s
  <2>2. Of(list, DESC) # {}
    <3>0. list[n] = Tlv(DESC, <<"version", a.switch>>)
      BY <2>1, OptionalTlvs
    <3>1. list[n].type = DESC
      BY <3>0 DEF Tlv
    <3> QED
      BY <1>2, <3>1 DEF Of
  <2>3. k \in Of(list, DESC) /\ GetSwitch(list) = SwitchOf(ToSet(list[k].data))
    BY <1>1, <2>2, Positions DEF GetSwitch
  <2> HIDE DEF k
  <2>4. k \in 1..L /\ list[k].type = DESC /\ DESC # END
    BY <1>2, <2>3 DEF Of, DESC, END
  <2>5. k \in 1..N /\ list[k] = s[k]
    BY <1>5, <2>4
  <2>6. s[k] \in ToSet(s)
    BY <1>2, <2>5 DEF ToSet
  <2>7. s[k].data = <<"version", a.switch>>
    BY <2>4, <2>5, <2>6, SentOf DEF s
  <2>8. ToSet(list[k].data) = {"version", a.switch}
    BY <2>5, <2>7 DEF ToSet
  <2> QED
    BY <2>3, <2>8, SwitchIs DEF Switches
<1>10. ASSUME NEW n \in 1..L PROVE Parsable(list[n])
  <2>1. CASE list[n].type # MGMT /\ list[n].type # PORT
    BY <2>1 DEF Parsable
  <2>2. CASE list[n].type = MGMT
    <3>1. n \in 1..N /\ list[n] = s[n]
      BY <1>5, <2>2 DEF MGMT, END
    <3>2. \/ s[n].data = <<3, 1, "10.0", "0.1", "oid">>
          \/ s[n].data = <<3, 1, "10.0", "0.2", "oid">>
          \/ s[n].data = <<4, 2, "fe80", "0", "1", "oid">>
      BY <2>2, <3>1, SentOf DEF s
    <3>3. /\ Len(list[n].data) >= 2
          /\ Len(list[n].data) >= 2 + AddressLength(list[n].data[2])
      <4>1. /\ Len(<<3, 1, "10.0", "0.1", "oid">>) = 5
            /\ Len(<<3, 1, "10.0", "0.2", "oid">>) = 5
            /\ Len(<<4, 2, "fe80", "0", "1", "oid">>) = 6
        OBVIOUS
      <4>2. \A family : AddressLength(family) \in {2, 3}
        BY DEF AddressLength
      <4>3. Len(list[n].data) \in {5, 6}
        BY <3>1, <3>2, <4>1
      <4>4. \A x \in {5, 6}, y \in {2, 3} : x >= 2 /\ x >= 2 + y
        OBVIOUS
      <4> QED
        BY <4>2, <4>3, <4>4, Zenon
    <3> QED
      BY <2>2, <3>3 DEF Parsable
  <2>3. CASE list[n].type = PORT
    <3>1. n \in 1..N /\ list[n] = s[n]
      BY <1>5, <2>3 DEF PORT, END
    <3>2. n = 2
      BY <2>3, <3>1, SentOf DEF s
    <3>3. Len(list[n].data) = 2
      BY <1>1, <3>1, <3>2 DEF PortTlv, Tlv
    <3> QED
      BY <2>3, <3>3 DEF Parsable, PORT, MGMT
  <2> QED
    BY <2>1, <2>2, <2>3
<1> QED
  BY <1>2, <1>6, <1>7, <1>8, <1>9, <1>10

-----------------------------------------------------------------------------
(* Reading a packet.                                                        *)

\* The list is read from a frame of the announced port, and the switch from the
\* list; the port is reported with the entry and not before.
PacketIInv ==
    /\ announced \in NokiaAnnouncements \cup CiscoAnnouncements \cup NameAnnouncements
    /\ \E order \in Orders : sent = Announce(announced, order)
    /\ Reads(Content(announced), lldp, sent, 0)
    /\ stage = "switch" => switch = GetSwitch(lldp) /\ switch # "none"
    /\ stage # "reported" => neighborport = Unread
    /\ NothingMisread
    /\ CompleteFrameReported

\* Only these switches announce ports.
LEMMA AnnouncedIs ==
  ASSUME NEW a \in NokiaAnnouncements \cup CiscoAnnouncements \cup NameAnnouncements
  PROVE  a.switch \in Switches
BY DEF NokiaAnnouncements, CiscoAnnouncements, NameAnnouncements, Switches

\* It holds when the capture starts.
LEMMA PacketStart == PacketInit => PacketIInv
<1> SUFFICES ASSUME PacketInit PROVE PacketIInv
  OBVIOUS
<1>1. /\ announced \in NokiaAnnouncements \cup CiscoAnnouncements \cup NameAnnouncements
      /\ neighborport = Unread /\ stage = "wire" /\ lldp = <<>>
      /\ \E order \in Orders : sent = Announce(announced, order)
  BY DEF PacketInit, Init
<1>2. Reads(Content(announced), lldp, sent, 0)
  BY <1>1 DEF Reads
<1>3. NothingMisread /\ CompleteFrameReported
  BY <1>1 DEF NothingMisread, CompleteFrameReported
<1> QED
  BY <1>1, <1>2, <1>3 DEF PacketIInv

\* A whole frame with all that is needed is neither refused nor the end of the module.
LEMMA NotRefused ==
  ASSUME PacketIInv, Len(lldp) >= Len(sent), Sends("desc"), ~Sends("otherDesc"),
         Sends("name"), Sends("ipv4") \/ Sends("ipv4b")
  PROVE  /\ GetSwitch(lldp) # "none" /\ ~Unparsable
         /\ Ipv4Of(lldp) # {} /\ Of(lldp, PORT) # {} /\ Of(lldp, NAME) # {}
<1>1. PICK order \in Orders : sent = Announce(announced, order)
  BY DEF PacketIInv
<1>2. announced.switch \in Switches /\ Reads(Content(announced), lldp, sent, 0)
  BY AnnouncedIs DEF PacketIInv
<1>3. /\ OptionalTlv(announced)["desc"] \in ToSet(sent)
      /\ OptionalTlv(announced)["otherDesc"] \notin ToSet(sent)
      /\ OptionalTlv(announced)["name"] \in ToSet(sent)
      /\ \/ OptionalTlv(announced)["ipv4"] \in ToSet(sent)
         \/ OptionalTlv(announced)["ipv4b"] \in ToSet(sent)
  BY DEF Sends
<1>4. /\ GetSwitch(lldp) # "none" /\ \A n \in DOMAIN lldp : Parsable(lldp[n])
      /\ Ipv4Of(lldp) # {} /\ Of(lldp, PORT) # {} /\ Of(lldp, NAME) # {}
  BY <1>1, <1>2, <1>3, WholeAccepted
<1> QED
  BY <1>4 DEF Unparsable

\* Every step preserves it.
LEMMA PacketStep == PacketIInv /\ [PacketNext]_pvars => PacketIInv'
<1> SUFFICES ASSUME PacketIInv, [PacketNext]_pvars PROVE PacketIInv'
  OBVIOUS
<1>0. /\ announced \in NokiaAnnouncements \cup CiscoAnnouncements \cup NameAnnouncements
      /\ Reads(Content(announced), lldp, sent, 0)
      /\ stage = "switch" => switch = GetSwitch(lldp) /\ switch # "none"
      /\ stage # "reported" => neighborport = Unread
  BY DEF PacketIInv
<1>o. PICK order \in Orders : sent = Announce(announced, order)
  BY DEF PacketIInv
<1>r. ASSUME announced' = announced, sent' = sent, lldp' = lldp
      PROVE  Reads(Content(announced), lldp, sent, 0)'
  BY <1>0, <1>r
<1>c. ASSUME announced' = announced, sent' = sent, lldp' = lldp,
             \/ GetSwitch(lldp) = "none" \/ Unparsable
             \/ Ipv4Of(lldp) = {} \/ Of(lldp, PORT) = {} \/ Of(lldp, NAME) = {}
      PROVE  CompleteFrameReported'
  <2> DEFINE Missing == \/ ~Sends("desc") \/ Sends("otherDesc") \/ ~Sends("name")
                        \/ ~Sends("ipv4") /\ ~Sends("ipv4b")
  <2>1. Len(lldp) >= Len(sent) => Missing
    BY <1>c, NotRefused
  <2>2. Missing' <=> Missing
    BY <1>c DEF Sends
  <2> QED
    BY <1>c, <2>1, <2>2 DEF CompleteFrameReported
<1>1. CASE Receive
  <2>1. PICK n \in Cuts, padding \in Paddings :
           lldp' = Parse(Received(Frame(sent, padding), n))
    BY <1>1 DEF Receive
  <2>2. /\ announced' = announced /\ neighborport' = neighborport /\ sent' = sent
        /\ stage = "wire" /\ stage' \in {"wire", "lldp"}
    BY <1>1 DEF Receive, vars
  <2>3. Reads(Content(announced), lldp, sent, 0)'
    <3>1. n \in Nat /\ padding \in Nat /\ Nat \subseteq Content(announced)
      BY PacketAssumption DEF Content
    <3>2. sent \in Seq(Tlvs(Content(announced)))
      BY <1>o, AnnounceIs
    <3>3. Reads(Content(announced), Parse(Received(Frame(sent, padding), n)), sent, 0)
      BY <3>1, <3>2, FrameReads
    <3> QED
      BY <2>1, <2>2, <3>3
  <2>4. NothingMisread' /\ CompleteFrameReported'
    BY <2>2 DEF NothingMisread, CompleteFrameReported
  <2> QED
    BY <1>0, <1>o, <2>2, <2>3, <2>4 DEF PacketIInv
<1>2. CASE TimesOut
  <2>1. /\ announced' = announced /\ neighborport' = neighborport /\ sent' = sent
        /\ lldp' = lldp /\ stage = "wire" /\ stage' = "lldp"
    BY <1>2 DEF TimesOut, vars
  <2>2. NothingMisread' /\ CompleteFrameReported'
    BY <2>1 DEF NothingMisread, CompleteFrameReported
  <2> QED
    BY <1>0, <1>o, <1>r, <2>1, <2>2 DEF PacketIInv
<1>3. CASE Recognise
  <2>1. /\ announced' = announced /\ neighborport' = neighborport /\ sent' = sent
        /\ lldp' = lldp /\ stage = "lldp" /\ switch' = GetSwitch(lldp)
        /\ stage' = IF switch' = "none" THEN "failed" ELSE "switch"
    BY <1>3 DEF Recognise, vars
  <2>2. NothingMisread'
    BY <2>1 DEF NothingMisread
  <2>3. CompleteFrameReported'
    <3>1. CASE switch' = "none"
      BY <1>c, <2>1, <3>1
    <3>2. CASE switch' # "none"
      BY <2>1, <3>2 DEF CompleteFrameReported
    <3> QED
      BY <3>1, <3>2
  <2>4. (stage = "switch" => switch = GetSwitch(lldp) /\ switch # "none")'
    BY <2>1
  <2> QED
    BY <1>0, <1>o, <1>r, <2>1, <2>2, <2>3, <2>4 DEF PacketIInv
<1>4. CASE Crashes
  <2>1. /\ announced' = announced /\ neighborport' = neighborport /\ sent' = sent
        /\ lldp' = lldp /\ stage = "switch" /\ stage' = "crashed"
    BY <1>4 DEF Crashes, vars
  <2>2. NothingMisread'
    BY <2>1 DEF NothingMisread
  <2>3. Unparsable \/ Of(lldp, NAME) = {}
    BY <1>4 DEF Crashes
  <2>4. CompleteFrameReported'
    BY <1>c, <2>1, <2>3
  <2> QED
    BY <1>0, <1>o, <1>r, <2>1, <2>2, <2>4 DEF PacketIInv
<1>5. CASE TlvNotFound
  <2>1. /\ announced' = announced /\ neighborport' = neighborport /\ sent' = sent
        /\ lldp' = lldp /\ stage = "switch" /\ stage' = "failed"
    BY <1>5 DEF TlvNotFound, vars
  <2>2. NothingMisread'
    BY <2>1 DEF NothingMisread
  <2>3. Ipv4Of(lldp) = {} \/ Of(lldp, PORT) = {}
    BY <1>5 DEF TlvNotFound
  <2>4. CompleteFrameReported'
    BY <1>c, <2>1, <2>3
  <2> QED
    BY <1>0, <1>o, <1>r, <2>1, <2>2, <2>4 DEF PacketIInv
<1>6. CASE GenerateJson
  <2>1. /\ announced' = announced /\ sent' = sent /\ lldp' = lldp /\ stage' = "reported"
        /\ entry' = [name |-> SysName(lldp), address |-> Address(lldp)]
        /\ ~Unparsable /\ Ipv4Of(lldp) # {} /\ Of(lldp, NAME) # {}
    BY <1>6 DEF GenerateJson
  <2>2. CompleteFrameReported'
    BY <2>1 DEF CompleteFrameReported
  <2>3. NothingMisread'
    <3>1. \A n \in DOMAIN lldp : Parsable(lldp[n])
      BY <2>1 DEF Unparsable
    <3>2. /\ \E kind \in {"ipv4", "ipv4b"} :
                /\ OptionalTlv(announced)[kind] \in ToSet(sent)
                /\ Address(lldp) = SubSeq(OptionalTlv(announced)[kind].data, 3, 4)
          /\ \/ SysName(lldp) = SysName(sent)
             \/ IsPrefix(SysName(lldp), SysName(sent)) /\ Last(lldp).type = NAME
      BY <1>0, <1>o, <2>1, <3>1, EntryRight
    <3>3. entry'.address = Address(lldp) /\ entry'.name = SysName(lldp)
      BY <2>1
    <3> QED
      BY <2>1, <3>2, <3>3 DEF NothingMisread, Sends
  <2> QED
    BY <1>0, <1>o, <1>r, <2>1, <2>2, <2>3 DEF PacketIInv
<1>7. CASE UNCHANGED pvars
  <2>1. /\ announced' = announced /\ neighborport' = neighborport /\ sent' = sent
        /\ lldp' = lldp /\ stage' = stage /\ switch' = switch /\ entry' = entry
    BY <1>7 DEF pvars, vars, packet
  <2>2. NothingMisread'
    BY <2>1 DEF PacketIInv, NothingMisread, Sends
  <2>3. CompleteFrameReported'
    BY <2>1 DEF PacketIInv, CompleteFrameReported, Sends
  <2> QED
    BY <1>0, <1>o, <1>r, <2>1, <2>2, <2>3 DEF PacketIInv
<1> QED
  BY <1>1, <1>2, <1>3, <1>4, <1>5, <1>6, <1>7 DEF PacketNext, PacketEnded

\* Theorem: whatever the order of the TLVs, the padding and the place a frame is cut
\* at, the list is what was sent from the first TLV on (lldp.py:297-306).
THEOREM ParsedPrefix == PacketSpec => []ParsedIsPrefix
<1>1. PacketIInv => ParsedIsPrefix
  <2> SUFFICES ASSUME PacketIInv, NEW n \in DOMAIN lldp
               PROVE  IF n > Len(sent) THEN lldp[n] = Tlv(END, <<>>)
                      ELSE /\ lldp[n].type = sent[n].type
                           /\ IsPrefix(lldp[n].data, sent[n].data)
                           /\ n < Len(lldp) => lldp[n] = sent[n]
    BY DEF ParsedIsPrefix
  <2>1. Reads(Content(announced), lldp, sent, 0)
    BY DEF PacketIInv
  <2>2. n \in 1..Len(lldp) /\ 0 + n = n
    BY <2>1 DEF Reads
  <2>3. IF 0 + n > Len(sent) THEN lldp[n] = Tlv(END, <<>>)
        ELSE /\ lldp[n].type = sent[0 + n].type
             /\ IsPrefix(lldp[n].data, sent[0 + n].data)
             /\ n < Len(lldp) => lldp[n] = sent[0 + n]
    BY <2>1, <2>2 DEF Reads
  <2> QED
    BY <2>2, <2>3
<1> QED
  BY <1>1, PacketStart, PacketStep, PTL DEF PacketSpec

\* Theorem: a truncated frame never yields a wrong address or name
\* (topology.py:220-243).
THEOREM EntryNotMisread == PacketSpec => []NothingMisread
<1>1. PacketIInv => NothingMisread
  BY DEF PacketIInv
<1> QED
  BY <1>1, PacketStart, PacketStep, PTL DEF PacketSpec

\* Theorem: an interface whose neighbour sends all that is needed is not given up once
\* a whole frame has arrived (topology.py:220-243, 369-386).
THEOREM WholeFrameReported == PacketSpec => []CompleteFrameReported
<1>1. PacketIInv => CompleteFrameReported
  BY DEF PacketIInv
<1> QED
  BY <1>1, PacketStart, PacketStep, PTL DEF PacketSpec

\* Theorem: reading a packet implements PortReport, so a frame cut in two never
\* changes the switch or the port it is about (topology.py:220-243, 369-386).
THEOREM ImplementsPortReport == PacketSpec => ReadsPort
<1>1. PacketInit => Init
  BY DEF PacketInit
<1>2. PacketIInv /\ [PacketNext]_pvars => [Next]_vars
  <2> SUFFICES ASSUME PacketIInv, [PacketNext]_pvars, ~(UNCHANGED vars) PROVE Next
    OBVIOUS
  <2>1. GenerateJson
    BY DEF PacketNext, Receive, TimesOut, Recognise, Crashes, TlvNotFound, PacketEnded,
           pvars
  <2>2. PICK order \in Orders : sent = Announce(announced, order)
    BY DEF PacketIInv
  <2>3. /\ announced.switch \in Switches /\ Reads(Content(announced), lldp, sent, 0)
        /\ switch = GetSwitch(lldp) /\ switch # "none" /\ neighborport = Unread
    BY <2>1, AnnouncedIs DEF PacketIInv, GenerateJson
  <2>4. switch = SwitchOf({"version", announced.switch}) /\ Len(lldp) >= 4
    BY <2>2, <2>3, Recognised
  <2>5. switch = IF announced.switch \in {"Nokia", "SRLinux"} THEN "nokia"
                 ELSE announced.switch
    BY <2>3, <2>4, SwitchIs
  <2>6. PortId(lldp) = PortTlv(announced).data
    <3>1. Len(lldp) >= 3
      <4>1. Len(lldp) \in Nat
        BY <2>3 DEF Reads
      <4> QED
        BY <2>4, <4>1
    <3> QED
      BY <2>2, <2>3, <3>1, PortRead
  <2>7. /\ PortId(lldp)[1] = IF announced.switch = "Nokia" THEN 7 ELSE 5
        /\ PortId(lldp)[2] = announced.value
    BY <2>6 DEF PortTlv, Tlv
  <2>8. /\ announced' = announced
        /\ neighborport' = IF switch # "nokia"
                           THEN Cisco(RetrievePortNumber(switch, announced.value))
                           ELSE IF PortId(lldp)[1] = 7 THEN ConvertIfindex(announced.value)
                           ELSE Cisco(announced.value)
    BY <2>1, <2>7 DEF GenerateJson
  <2>9. CASE announced.switch = "Nokia"
    BY <2>3, <2>5, <2>7, <2>8, <2>9 DEF Next, NokiaReports
  <2>10. CASE announced.switch = "SRLinux"
    BY <2>3, <2>5, <2>7, <2>8, <2>10 DEF Next, NameReports
  <2>11. CASE announced.switch \in {"NX-OS", "NCS-55"}
    BY <2>3, <2>5, <2>8, <2>11 DEF Next, CiscoReports
  <2> QED
    BY <2>3, <2>9, <2>10, <2>11 DEF Switches
<1> QED
  BY <1>1, <1>2, PacketStart, PacketStep, PTL DEF PacketSpec, Spec, ReadsPort

\* Theorem: also from cut frames the port of a Nokia switch is read as the one it
\* announced (topology.py:266-331).
THEOREM PacketNokiaPorts == PacketSpec => []NokiaPortRead
BY ImplementsPortReport, NokiaPorts, PTL DEF ReadsPort
=============================================================================
