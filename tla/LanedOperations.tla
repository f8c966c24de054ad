-------------------------- MODULE LanedOperations --------------------------
(***************************************************************************)
(* The lane queues run over the lanes laneFor answers: what the helper     *)
(* promises about the host, in terms of what each operation touches there. *)
(* `request` remembers which request each call of run() is for.            *)
(***************************************************************************)
EXTENDS HelperLanes, LaneFor

CONSTANT Requests   \* the requests of this instance

VARIABLE request
opVars == <<laneVars, request>>

NoRequest == [id |-> "none", apps |-> {}, vms |-> {}, dockerUnit |-> FALSE]

(* Only an app operation or the DNS rehearsal names apps (laneFor reads    *)
(* the parameters of no other), and a lane named for an app is an app's.   *)
ASSUME RequestsAssumption ==
    /\ {exclusiveLane} \in LaneSets
    /\ {homepageLane, "app:cloudflared", "app:zulip"} \intersect Lane \subseteq AppLane
    /\ \A r \in Requests :
          /\ laneFor(r) \in LaneSets
          /\ r.apps \subseteq AppLane
          /\ r.apps # {} => r.id \in appOperations \union {"dns.fallback.rehearse"}

OpInit == LanesInit /\ request = [t \in Task |-> NoRequest]

Ask(t, r) ==
    /\ run(t, laneFor(r))
    /\ request' = [request EXCEPT ![t] = r]

(* The helper's own restart waits for the lanes to be idle. *)
OpNext ==
    \E t \in Task :
        \/ \E r \in Requests : Ask(t, r)
        \/ (onIdle(t, {exclusiveLane}) \/ stopWaiting(t) \/ Proceed(t)) /\ UNCHANGED request

OpSpec == OpInit /\ [][OpNext]_opVars /\ LanesFairness
-----------------------------------------------------------------------------
(* What an operation works on, from what it does on the host: every app    *)
(* with an update ready, for app.update.available; Homepage, whose shared  *)
(* services.yaml installing and removing an app rewrites.                  *)
appsTouched(r) ==
    r.apps \union (IF r.id = "app.update.available" THEN AppLane ELSE {})
           \union (IF r.id \in homepageOperations THEN {homepageLane} ELSE {})
           \union (IF r.id \in {"cloudflare.connect", "cloudflare.publish"} THEN {"app:cloudflared", homepageLane} ELSE {})
           \union (IF r.id = "agents.zulip.connect" THEN {"app:zulip"} ELSE {})

mirrors == {"backup.sync", "backup.remote.sync", "backup.cloud.sync"}

(* Writes or deletes in the application backup tree: backups and the       *)
(* checkpoints an update, a settings change, a compose edit or a rollback  *)
(* takes, and pruning.                                                     *)
writesBackupTree(r) == r.id \in backupTreeOperations \ mirrors

(* Can restart the Docker daemon or stops the containers on a drive. *)
takesDockerAway(r) ==
    r.id \in dockerRestartOperations \union driveUnderAppsOperations
      \/ (r.id = "service.action" /\ r.dockerUnit)

Beside(t, u) == t # u /\ Busy(t) /\ Busy(u)

(* Two operations on the same app never work at the same time, whichever   *)
(* of the app's own operations, Homepage's rewriting, Cloudflare's or      *)
(* Zulip's connecting they are.                                            *)
OneOperationPerApp ==
    \A t, u \in Task : Beside(t, u) => appsTouched(request[t]) \intersect appsTouched(request[u]) = {}

(* What operations share stays still under them: a mirror of the backups   *)
(* never copies the tree while an archive there is being written, renamed  *)
(* or pruned, and Docker is never restarted, nor a drive taken away, under *)
(* an operation on an app.                                                 *)
SharedPartsStayStill ==
    \A t, u \in Task : Beside(t, u) =>
        /\ request[t].id \in mirrors => ~writesBackupTree(request[u])
        /\ takesDockerAway(request[t]) => appsTouched(request[u]) = {}

=============================================================================
