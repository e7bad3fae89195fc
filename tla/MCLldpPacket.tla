---------------------------- MODULE MCLldpPacket ----------------------------
(* Instances of LldpPacket for TLC: every field of a port at 0, at its ends *)
(* and at the boundaries of the two parts of the scheme C port, and frames  *)
(* cut after each of their octets.                                          *)
EXTENDS LldpPacket

SomeSlots == {0, 5, 15}
SomeMdas == {0, 3, 9}
SomeConns == {1, 63}
SomePorts == {0, 48, 63, 64, 191, 255}

NxosNumbers == {<<1, 48>>, <<10, 2>>}

SomeOrders ==
    {<<"name", "desc", "ipv4", "ipv6">>,
     <<"ipv6", "ipv4", "ipv4b", "desc", "name">>,
     <<"desc", "ipv6">>,
     <<"name", "otherDesc", "desc", "ipv4">>,
     <<"desc", "ipv4b">>}

EveryCut == 0..60
=============================================================================
