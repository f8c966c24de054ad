------------------------------- MODULE Lanes -------------------------------
(***************************************************************************)
(* The lanes of server/helper-lanes.mjs and what it means for two requests *)
(* to conflict: the vocabulary the queues, their abstract specification    *)
(* and the operations' lane table share.                                   *)
(***************************************************************************)
CONSTANTS AppLane,   \* the lanes of single apps, "app:<id>"
          OtherLane, \* every other subject's lane: host, backup-tree, vm:<name>...
          LaneSets   \* the sets of lanes a request may name

exclusiveLane == "exclusive"
dockerLane == "docker"
Lane == {exclusiveLane, dockerLane} \union AppLane \union OtherLane

ASSUME LaneAssumption ==
    /\ LaneSets \subseteq (SUBSET Lane) \ {{}}
    /\ exclusiveLane \notin AppLane \union OtherLane
    /\ dockerLane \notin AppLane \union OtherLane
    /\ AppLane \intersect OtherLane = {}

(* Two requests that must never run beside each other: they share a lane,  *)
(* one of them is exclusive, or one holds Docker and the other an app.     *)
Conflict(G, H) ==
    \/ G \intersect H # {}
    \/ exclusiveLane \in G \union H
    \/ dockerLane \in G /\ H \intersect AppLane # {}
    \/ dockerLane \in H /\ G \intersect AppLane # {}
=============================================================================
