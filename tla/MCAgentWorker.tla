---------------------------- MODULE MCAgentWorker ----------------------------
(***************************************************************************)
(* Instances of AgentWorker for TLC.                                       *)
(***************************************************************************)
EXTENDS AgentWorker, TLC

Quota(a, p, av, pav) ==
  [aquota |-> a, procquo |-> p, averq |-> av, paverq |-> pav]

\* A quota with a share of the set, and that of a key without one of its own.
MCQuotas == {Quota(3, 2, 2, 0), Quota(0, 1, 2, 3)}
=============================================================================
