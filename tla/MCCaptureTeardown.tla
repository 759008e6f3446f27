-------------------------- MODULE MCCaptureTeardown --------------------------
(* CaptureTeardown with the constants its cfg files give. *)
EXTENDS CaptureTeardown
=============================================================================
