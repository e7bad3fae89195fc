----------------------------- MODULE SwitchPort -----------------------------
(***************************************************************************)
(* How library/topology.py names the switch port at the other end of the   *)
(* cable: Nokia switches send an interface index that packs slot, MDA and  *)
(* port into bits, Cisco switches a name.  A port name is the sequence of  *)
(* its numbers; formatting them does not lose anything.                    *)
(***************************************************************************)
EXTENDS Integers, Sequences

\* `length' bits of x from bit `low' on: (x >> low) & (2^length - 1), given the
\* powers of two.
Bits(x, low, length) == (x \div low) % length

NoPort == [kind |-> "None"]
Plain(slot, mda, port) ==
    [kind |-> "plain", slot |-> slot, mda |-> mda, port |-> port]
Connector(slot, mda, conn, port) ==
    [kind |-> "connector", slot |-> slot, mda |-> mda, conn |-> conn, port |-> port]

-----------------------------------------------------------------------------
(* NokiaSwitch.convert_ifindex_to_ifname                                   *)

Scheme(ifindex) == ifindex \div 536870912

\* Bit 14 says so in scheme C, bit 13 in schemes B and D.
IsConnector(ifindex) ==
    Bits(ifindex, IF Scheme(ifindex) = 0 THEN 16384 ELSE 8192, 2) = 1

SchemeB(ifindex) ==
    LET slot == Bits(ifindex, 262144, 32)
        mda == Bits(ifindex, 16384, 16)
    IN  IF IsConnector(ifindex)
        THEN Connector(slot, mda, Bits(ifindex, 64, 64), Bits(ifindex, 1, 64))
        ELSE Plain(slot, mda, Bits(ifindex, 8, 256))

\* Mutant: the high bits of the port are or-ed in one place too low.
SchemeC_PortHigh(ifindex) ==
    LET slot == ifindex \div 33554432
        mda == Bits(ifindex, 2097152, 4)
    IN  IF IsConnector(ifindex)
        THEN Connector(slot, mda, Bits(ifindex, 32768, 64), Bits(ifindex, 1, 64))
        ELSE Plain(slot, mda, Bits(ifindex, 32768, 64) + 64 * Bits(ifindex, 16777216, 4))

\* The port of scheme C is in two places.
SchemeC(ifindex) ==
    LET slot == ifindex \div 33554432
        mda == Bits(ifindex, 2097152, 4)
    IN  IF IsConnector(ifindex)
        THEN Connector(slot, mda, Bits(ifindex, 32768, 64), Bits(ifindex, 1, 64))
        ELSE Plain(slot, mda, Bits(ifindex, 32768, 64) + 64 * Bits(ifindex, 8388608, 4))

SchemeD(ifindex) ==
    LET slot == Bits(ifindex, 524288, 8)
        mda == Bits(ifindex, 32768, 16)
    IN  IF IsConnector(ifindex)
        THEN Connector(slot, mda, Bits(ifindex, 64, 64), Bits(ifindex, 1, 64))
        ELSE Plain(slot, mda, Bits(ifindex, 1, 256))

\* A locally assigned port is a number here; the code reports any other text as no port.
ConvertIfindex(ifindex) ==
    IF Scheme(ifindex) = 3 THEN SchemeB(ifindex)
    ELSE IF Scheme(ifindex) = 0 THEN SchemeC(ifindex)
    ELSE IF Scheme(ifindex) = 2 THEN SchemeD(ifindex)
    ELSE NoPort

-----------------------------------------------------------------------------
(* The documented layouts, which the switch fills in.                      *)

\* 0110|Zero(5)|Slot(5)|MDA(4)|connector|...
LayoutB(p) ==
    1610612736 + 262144 * p.slot + 16384 * p.mda +
    IF p.kind = "connector" THEN 8192 + 64 * p.conn + p.port ELSE 8 * p.port

\* 000|Slot(4)|Port-Hi(2) or Zero(2)|MDA(2)|Port-Lo(6) or Conn(6)|connector|...
LayoutC(p) ==
    33554432 * p.slot + 2097152 * p.mda +
    IF p.kind = "connector" THEN 32768 * p.conn + 16384 + p.port
    ELSE 8388608 * (p.port \div 64) + 32768 * (p.port % 64)

\* 0x4D|isChannel(1)|0|slot(3)|mda(4)|0|connector|...
LayoutD(p, isChannel) ==
    1291845632 + 8388608 * isChannel + 524288 * p.slot + 32768 * p.mda +
    IF p.kind = "connector" THEN 8192 + 64 * p.conn + p.port ELSE p.port

\* The ports a layout has room for, its fields in the given sets.
PortsB(Slot, Mda, Conn, Port) ==
    {Plain(s, m, p) : s \in Slot \cap 0..31, m \in Mda \cap 0..15, p \in Port \cap 0..255}
    \cup {Connector(s, m, c, p) : s \in Slot \cap 0..31, m \in Mda \cap 0..15,
                                 c \in Conn \cap 0..63, p \in Port \cap 0..63}

PortsC(Slot, Mda, Conn, Port) ==
    {Plain(s, m, p) : s \in Slot \cap 0..15, m \in Mda \cap 0..3, p \in Port \cap 0..255}
    \cup {Connector(s, m, c, p) : s \in Slot \cap 0..15, m \in Mda \cap 0..3,
                                 c \in Conn \cap 0..63, p \in Port \cap 0..63}

PortsD(Slot, Mda, Conn, Port) ==
    {Plain(s, m, p) : s \in Slot \cap 0..7, m \in Mda \cap 0..15, p \in Port \cap 0..255}
    \cup {Connector(s, m, c, p) : s \in Slot \cap 0..7, m \in Mda \cap 0..15,
                                 c \in Conn \cap 0..63, p \in Port \cap 0..63}

-----------------------------------------------------------------------------
(* CiscoSwitch.retrieve_port_number                                        *)

\* The name is a word and numbers separated by slashes.  The greedy `\w+' takes
\* the digits of the first number too, all but the last.  An NX-OS name keeps
\* what is left; an NCS name is returned whole; others are not ports.
RetrievePortNumber(switchType, numbers) ==
    CASE switchType = "NX-OS" -> <<numbers[1] % 10>> \o Tail(numbers)
      [] switchType = "NCS-55" -> numbers
      [] OTHER -> <<>>
=============================================================================
