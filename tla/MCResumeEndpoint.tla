------------------------- MODULE MCResumeEndpoint -------------------------
(* Instances of ResumeEndpoint for TLC. *)
EXTENDS ResumeEndpoint

\* How many chunks each side writes in a run.
OneWay == [s \in Side |-> IF s = "client" THEN 2 ELSE 0]
BothWays == [s \in Side |-> 1]
=============================================================================
