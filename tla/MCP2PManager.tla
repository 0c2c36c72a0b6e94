---------------------------- MODULE MCP2PManager ----------------------------
(* Instances of P2PManager for TLC. *)
EXTENDS P2PManager
=============================================================================
