---------------------------- MODULE MCAgentReport ----------------------------
(***************************************************************************)
(* Instances of AgentReport for TLC.                                       *)
(***************************************************************************)
EXTENDS AgentReport, TLC

Answer(q, wnum, total) ==
  [localq |-> q, totalworkernum |-> wnum, totalq |-> total,
   setquota |-> 0, setsum |-> 0, procquota |-> 0]

\* The server's answers: quotas, and the zeros of a server that just started.
OneAnswer == {Answer(3, 2, 9)}
MCQuotas == {Answer(3, 2, 9), Answer(8, 0, 9), Answer(0, 0, 0)}
=============================================================================
