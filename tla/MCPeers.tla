------------------------------ MODULE MCPeers ------------------------------
(* A peer that talks and an address its name may move to or a stray packet  *)
(* may come from.                                                           *)
EXTENDS Peers
=============================================================================
