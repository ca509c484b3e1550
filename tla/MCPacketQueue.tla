---------------------------- MODULE MCPacketQueue ----------------------------
(* PacketQueue for TLC: packets with and without bytes to be stuffed, and with the
   bytes that stuffing makes of them, in a ring that does not hold two of the longest. *)
EXTENDS PacketQueue

SmallPackets == {<<93>>, <<125>>, <<127, 94>>}
=============================================================================
