--------------------------- MODULE MCDirectClient ---------------------------
(* Instances of DirectClient for TLC. *)
EXTENDS DirectClient
=============================================================================
