----------------------------- MODULE LldpPacket -----------------------------
(***************************************************************************)
(* From the frame of a neighbour to the entry of an interface: the `lldp'  *)
(* module cuts the frame into TLVs (library/lldp.py, _parse_tlv), and the  *)
(* `topology' module recognises the switch and reads name, address and     *)
(* port (library/topology.py).  What the port turns into is PortReport.    *)
(*                                                                         *)
(* A frame is a sequence of octets; an octet that only carries content is  *)
(* a word of it.  The neighbour pads short frames with zeros, and recvfrom *)
(* keeps the first octets of long ones.                                    *)
(***************************************************************************)
EXTENDS PortReport, SequencesExt

CONSTANTS
    Orders,      \* which optional TLVs switches send, in which order
    Cuts,        \* how many octets at most reach the module (recvfrom's 1600)
    Paddings     \* numbers of zeros added to a frame

Optional == {"name", "desc", "otherDesc", "ipv4", "ipv4b", "ipv6"}

ASSUME PacketAssumption ==
    /\ Orders \subseteq Seq(Optional)
    /\ Cuts \subseteq Nat /\ Paddings \subseteq Nat

VARIABLES
    sent,     \* the TLVs of the neighbour's frames
    stage,    \* what is under way, or how it ended
    lldp,     \* the list of (type, data) the `lldp' module returns
    switch,   \* result of get_switch
    entry     \* name and address of the interface's entry

packet == <<sent, stage, lldp, switch, entry>>
pvars == <<vars, packet>>

-----------------------------------------------------------------------------
(* Frames.  A TLV header is two octets, of which seven bits are the type and  *)
(* nine the length; as no TLV here is longer than 255 octets, the type is an  *)
(* octet and the length another.                                              *)

END == 0
PORT == 2
NAME == 5
DESC == 6
MGMT == 8

Tlv(type, data) == [type |-> type, data |-> data]

\* Subtype 7 is a locally assigned port, 5 the name of an interface; the family of
\* an address is 1 for IPv4, 2 for IPv6.  Management addresses end with more
\* octets, which nobody reads.
PortTlv(a) == Tlv(PORT, <<IF a.switch = "Nokia" THEN 7 ELSE 5, a.value>>)

OptionalTlv(a) ==
    [name |-> Tlv(NAME, <<"tor", "1">>),
     desc |-> Tlv(DESC, <<"version", a.switch>>),
     otherDesc |-> Tlv(DESC, <<"version", "other">>),
     ipv4 |-> Tlv(MGMT, <<3, 1, "10.0", "0.1", "oid">>),
     ipv4b |-> Tlv(MGMT, <<3, 1, "10.0", "0.2", "oid">>),
     ipv6 |-> Tlv(MGMT, <<4, 2, "fe80", "0", "1", "oid">>)]

\* Chassis, port and time to live come first, the end last.
Announce(a, order) ==
    <<Tlv(1, <<4>>), PortTlv(a), Tlv(3, <<120>>)>>
    \o [n \in DOMAIN order |-> OptionalTlv(a)[order[n]]]
    \o <<Tlv(END, <<>>)>>

HeaderLength == 14

Frame(tlvs, padding) ==
    [n \in 1..HeaderLength |-> 0]
    \o FlattenSeq([n \in DOMAIN tlvs |-> <<tlvs[n].type, Len(tlvs[n].data)>> \o tlvs[n].data])
    \o [n \in 1..padding |-> 0]

\* What is left of a frame of which n octets arrive.
Received(frame, n) == SubSeq(frame, 1, Min({n, Len(frame)}))

-----------------------------------------------------------------------------
(* _receive_lldp_packets and _parse_tlv                                    *)

\* Mutant: the data of a TLV is taken up to its length, header included.
ParseTlv_Short(buff) ==
    LET from[p \in 1..Len(buff) + 1] ==
            IF p + 1 > Len(buff) THEN <<>>
            ELSE LET next == p + 2 + buff[p + 1]
                     data == SubSeq(buff, p + 2, Min({next - 2, Len(buff)}))
                 IN  <<Tlv(buff[p], data)>>
                     \o (IF next \in p + 1..Len(buff) THEN from[next] ELSE <<>>)
    IN  from[1]

\* A slice ends where the buffer does, and a single octet that is left over is
\* ignored; neither is an error.
ParseTlv(buff) ==
    LET from[p \in 1..Len(buff) + 1] ==
            IF p + 1 > Len(buff) THEN <<>>
            ELSE LET next == p + 2 + buff[p + 1]
                     data == SubSeq(buff, p + 2, Min({next - 1, Len(buff)}))
                 IN  <<Tlv(buff[p], data)>>
                     \o (IF next \in p + 1..Len(buff) THEN from[next] ELSE <<>>)
    IN  from[1]

Parse(pkt) ==
    IF Len(pkt) < HeaderLength THEN <<>>
    ELSE ParseTlv(SubSeq(pkt, HeaderLength + 1, Len(pkt)))

-----------------------------------------------------------------------------
(* get_switch and validate_lldp                                            *)

\* Where the TLVs of a type are in a list.
Of(tlvs, type) == {n \in DOMAIN tlvs : tlvs[n].type = type}

\* Mutant: every Cisco switch is taken for one of the NX-OS series.
SwitchOf_AnyCisco(words) ==
    IF words \cap {"Nokia", "SRLinux"} # {} THEN "nokia"
    ELSE IF words \cap {"NX-OS", "NCS-55"} # {} THEN "NX-OS" ELSE "none"

\* The patterns are searched anywhere in the description, Nokia's first.
SwitchOf(words) ==
    IF words \cap {"Nokia", "SRLinux"} # {} THEN "nokia"
    ELSE IF "NX-OS" \in words THEN "NX-OS"
    ELSE IF "NCS-55" \in words THEN "NCS-55" ELSE "none"

GetSwitch(tlvs) ==
    IF Of(tlvs, DESC) = {} THEN "none"
    ELSE SwitchOf(ToSet(tlvs[Min(Of(tlvs, DESC))].data))

AddressLength(family) == IF family = 1 THEN 2 ELSE 3

\* Fixed fields must be there in full; names and port values take what is left.
Parsable(tlv) ==
    CASE tlv.type = MGMT ->
            Len(tlv.data) >= 2 /\ Len(tlv.data) >= 2 + AddressLength(tlv.data[2])
      [] tlv.type = PORT -> Len(tlv.data) >= 1
      [] OTHER -> TRUE

\* Mutant: the last management address counts, or none if it is not IPv4.
Ipv4Of_LastOnly(tlvs) ==
    {n \in Of(tlvs, MGMT) : n = Max(Of(tlvs, MGMT)) /\ tlvs[n].data[2] = 1}

\* Mutant: management addresses of every family count.
Ipv4Of_AnyFamily(tlvs) == Of(tlvs, MGMT)

Ipv4Of(tlvs) == {n \in Of(tlvs, MGMT) : tlvs[n].data[2] = 1}

\* The last TLV of a kind wins.
Address(tlvs) == SubSeq(tlvs[Max(Ipv4Of(tlvs))].data, 3, 4)
SysName(tlvs) == tlvs[Max(Of(tlvs, NAME))].data
PortId(tlvs) == tlvs[Max(Of(tlvs, PORT))].data

-----------------------------------------------------------------------------
NoEntry == [name |-> <<>>, address |-> <<>>]

PacketInit ==
    /\ Init
    /\ \E order \in Orders : sent = Announce(announced, order)
    /\ stage = "wire"
    /\ lldp = <<>> /\ switch = "none" /\ entry = NoEntry

\* A frame too short for any TLV is not an answer: the capture goes on.
Receive ==
    /\ stage = "wire"
    /\ \E n \in Cuts, padding \in Paddings :
          lldp' = Parse(Received(Frame(sent, padding), n))
    /\ stage' = IF lldp' = <<>> THEN "wire" ELSE "lldp"
    /\ UNCHANGED <<vars, sent, switch, entry>>

TimesOut ==
    /\ stage = "wire"
    /\ stage' = "lldp"
    /\ UNCHANGED <<vars, sent, lldp, switch, entry>>

Recognise ==
    /\ stage = "lldp"
    /\ switch' = GetSwitch(lldp)
    /\ stage' = IF switch' = "none" THEN "failed" ELSE "switch"
    /\ UNCHANGED <<vars, sent, lldp, entry>>

Unparsable == \E n \in DOMAIN lldp : ~Parsable(lldp[n])

\* An error of the parser, or a neighbour without a name: nobody catches these.
Crashes ==
    /\ stage = "switch"
    /\ \/ Unparsable
       \/ /\ ~Unparsable
          /\ Ipv4Of(lldp) # {} /\ Of(lldp, PORT) # {} /\ Of(lldp, NAME) = {}
    /\ stage' = "crashed"
    /\ UNCHANGED <<vars, sent, lldp, switch, entry>>

TlvNotFound ==
    /\ stage = "switch"
    /\ ~Unparsable
    /\ Ipv4Of(lldp) = {} \/ Of(lldp, PORT) = {}
    /\ stage' = "failed"
    /\ UNCHANGED <<vars, sent, lldp, switch, entry>>

\* generate_json of the switch's class.
GenerateJson ==
    /\ stage = "switch"
    /\ ~Unparsable
    /\ Ipv4Of(lldp) # {} /\ Of(lldp, PORT) # {} /\ Of(lldp, NAME) # {}
    /\ stage' = "reported"
    /\ entry' = [name |-> SysName(lldp), address |-> Address(lldp)]
    /\ LET value == PortId(lldp)[2]
       IN  neighborport' =
               IF switch # "nokia" THEN Cisco(RetrievePortNumber(switch, value))
               ELSE IF PortId(lldp)[1] = 7 THEN ConvertIfindex(value)
               ELSE Cisco(value)
    /\ UNCHANGED <<announced, sent, lldp, switch>>

PacketEnded == stage \in {"reported", "failed", "crashed"} /\ UNCHANGED pvars

PacketNext ==
    \/ Receive \/ TimesOut \/ Recognise
    \/ Crashes \/ TlvNotFound \/ GenerateJson \/ PacketEnded

PacketSpec == PacketInit /\ [][PacketNext]_pvars

-----------------------------------------------------------------------------
(* What reading a packet should guarantee.                                  *)

Sends(kind) == OptionalTlv(announced)[kind] \in ToSet(sent)

\* However many octets of a frame arrive, the list is what the neighbour sent from
\* its first TLV on: only the last one may lack the end of its data, and what
\* follows the end of the frame's TLVs are empty ones from the padding
\* (lldp.py:297-306).
ParsedIsPrefix ==
    \A n \in DOMAIN lldp :
        IF n > Len(sent) THEN lldp[n] = Tlv(END, <<>>)
        ELSE /\ lldp[n].type = sent[n].type
             /\ IsPrefix(lldp[n].data, sent[n].data)
             /\ n < Len(lldp) => lldp[n] = sent[n]

\* A truncated frame never yields a wrong entry: the address is one of the IPv4
\* addresses the neighbour sent, whole, and the name is whole as well unless its
\* TLV is the one the frame was cut in (topology.py:220-243).
NothingMisread ==
    stage = "reported" =>
        /\ \E kind \in {"ipv4", "ipv4b"} :
              Sends(kind) /\ entry.address = SubSeq(OptionalTlv(announced)[kind].data, 3, 4)
        /\ \/ entry.name = SysName(sent)
           \/ IsPrefix(entry.name, SysName(sent)) /\ Last(lldp).type = NAME

\* An interface whose neighbour sends all that is needed is reported once a whole
\* frame has arrived, whatever the order of the TLVs and the padding
\* (topology.py:220-243, 369-386).
CompleteFrameReported ==
    (stage \in {"failed", "crashed"} /\ Len(lldp) >= Len(sent)) =>
        \/ ~Sends("desc") \/ Sends("otherDesc") \/ ~Sends("name")
        \/ ~Sends("ipv4") /\ ~Sends("ipv4b")

\* Whatever arrives, the port is reported as PortReport says or not at all: a frame
\* cut in two never changes the switch or the port it is about.
ReadsPort == Spec
=============================================================================
