---------------------------- MODULE MCAgentPlans ----------------------------
(***************************************************************************)
(* An operation, a check and an operation.                                 *)
(***************************************************************************)
EXTENDS AgentPlans

CONSTANTS j1, j2, j3

MCKinds == <<"operation", "check", "operation">>
=============================================================================
