-------------------------- MODULE MCDirectRegistry --------------------------
(* Instances of DirectRegistry for TLC: an address that is configured and so *)
(* the same on every network.                                                *)
EXTENDS DirectRegistry

Everywhere == [n \in Networks |-> Addresses]
=============================================================================
