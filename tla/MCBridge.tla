------------------------------ MODULE MCBridge ------------------------------
(* Bridge with two node IDs.                                                *)
EXTENDS Bridge
=============================================================================
