----------------------------- MODULE MCPcapFile -----------------------------
(* PcapFile with the constants its cfg files give. *)
EXTENDS PcapFile
=============================================================================
