---------------------------- MODULE MCAgentRuns ----------------------------
EXTENDS AgentRuns

CONSTANTS keeper, relay, scout

(* A supervisor, a specialist that is one too, and a plain specialist. *)
MCDelegates == [a \in Agent |-> IF a = keeper THEN Agent \ {keeper} ELSE IF a = relay THEN Agent \ {relay} ELSE {}]
MCRunsPerDay == [a \in Agent |-> IF a = scout THEN 1 ELSE 2]
=============================================================================
