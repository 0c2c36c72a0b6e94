---------------------------- MODULE MCP2PLeases -----------------------------
(* Instances of P2PLeases for TLC. *)
EXTENDS P2PLeases
=============================================================================
