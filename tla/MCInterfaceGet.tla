--------------------------- MODULE MCInterfaceGet ---------------------------
(* InterfaceGet with 2 names and 2 devices, so that a name can change its  *)
(* device during a request.                                                *)
EXTENDS InterfaceGet, TLC

CONSTANTS eth0, eth1

MCNames == {eth0, eth1}
MCIdLists == {<<>>, <<eth1, eth0>>, <<eth0, eth0>>}
=============================================================================
