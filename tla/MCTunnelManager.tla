---------------------------- MODULE MCTunnelManager ----------------------------
(* The instance of TunnelManager for TLC. *)
EXTENDS TunnelManager

CONSTANTS q1, t1, c1, reconnect, none

OneQuic == {q1}
OneTls  == {t1}
OneCaller == {c1}
===============================================================================
