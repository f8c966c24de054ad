-------------------------- MODULE MCHelperService --------------------------
EXTENDS HelperService, TLC

CONSTANTS upgrade, appA, restart1, restart2

MCAppLane == {"app:a"}
MCOtherLane == {"host"}
MCLaneSets == {{exclusiveLane}, {"host", dockerLane}, {"app:a"}}
(* The two restarts are interchangeable. *)
RestartSymmetry == Permutations(RestartTask)
MCLanesOf == [t \in Req |-> IF t = upgrade THEN {"host", dockerLane} ELSE {"app:a"}]
=============================================================================
