---------------------------- MODULE MCAgentConn ----------------------------
(***************************************************************************)
(* Instances of AgentConn for TLC.                                         *)
(***************************************************************************)
EXTENDS AgentConn, TLC
=============================================================================
