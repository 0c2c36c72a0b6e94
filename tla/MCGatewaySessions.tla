------------------------- MODULE MCGatewaySessions -------------------------
(* Instances of GatewaySessions for TLC. *)
EXTENDS GatewaySessions, TLC

\* Tunnels, and administrator requests, differ in their names only.
Interchangeable == Permutations(Tunnels) \cup Permutations(Admins)
=============================================================================
