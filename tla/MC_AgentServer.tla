---------------------------- MODULE MC_AgentServer ----------------------------
(* The instance of AgentServer for TLC; its constants are in the cfg. *)
EXTENDS AgentServer
===============================================================================
