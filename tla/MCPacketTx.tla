----------------------------- MODULE MCPacketTx -----------------------------
(* PacketTx with the constants its cfg files give. *)
EXTENDS PacketTx
=============================================================================
