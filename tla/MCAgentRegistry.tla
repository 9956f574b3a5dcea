-------------------------- MODULE MCAgentRegistry --------------------------
(***************************************************************************)
(* Instances of AgentRegistry.                                             *)
(***************************************************************************)
EXTENDS AgentRegistry
=============================================================================
