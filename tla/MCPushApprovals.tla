--------------------------- MODULE MCPushApprovals --------------------------
(***************************************************************************)
(* Two copies of one job.                                                  *)
(***************************************************************************)
EXTENDS PushApprovals

CONSTANTS j1, j2, s1, s2

MCKindOf == [j \in Job |-> "copy"]
=============================================================================
