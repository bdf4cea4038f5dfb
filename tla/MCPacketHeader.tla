--------------------------- MODULE MCPacketHeader ---------------------------
(***************************************************************************)
(* An instance of PacketHeader: field lengths on both sides of every       *)
(* boundary that the header functions know.                                *)
(***************************************************************************)
EXTENDS PacketHeader

\* A datagram cut in the header or in the packet, whole, or with another packet.
MCExtras == {-30, 0, 25}
=============================================================================
