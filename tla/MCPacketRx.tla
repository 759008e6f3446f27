----------------------------- MODULE MCPacketRx -----------------------------
(* PacketRx with the constants its cfg files give. *)
EXTENDS PacketRx
=============================================================================
