---------------------------- MODULE MCAgentSession ----------------------------
(* The instance of AgentSession for TLC: the cfg gives every constant.       *)
EXTENDS AgentSession
===============================================================================
