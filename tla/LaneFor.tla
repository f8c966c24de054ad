------------------------------ MODULE LaneFor ------------------------------
(***************************************************************************)
(* laneFor of server/helper-lanes.mjs: which lanes a request must hold. A  *)
(* request is the operation's id and the parameters laneFor reads: the app *)
(* or apps it names (parameters.id, .ids, .app), the VM (.name or .domain) *)
(* and whether service.action names a Docker unit. An app or a VM stands   *)
(* for its lane's name, "app:<id>" or "vm:<name>".                         *)
(***************************************************************************)
EXTENDS Lanes

homepageLane == "app:homepage"
hostLane == "host"
chatLane == "chat:zulip"
cloudflareLane == "cloudflare:tunnel"
backupTreeLane == "backup-tree"

exclusiveOperations ==
    {"host.snapshot.create", "host.snapshot.restore", "controller.backup.create",
     "controller.backup.protect", "controller.backup.retention.apply"}

homepageOperations ==
    {"homepage.sync", "app.install", "app.uninstall", "app.purge", "app.reinstall"}

backupTreeOperations ==
    {"app.backup", "app.backup.many", "app.backup.restore", "app.backup.restore-path",
     "app.backup.delete", "app.backup.verify", "app.update", "app.update.many",
     "app.update.available", "app.rollback", "app.reconfigure", "app.compose.edit",
     "backup.sync", "backup.remote.sync", "backup.cloud.sync", "housekeeping.reclaim",
     "housekeeping.unreadable-snapshot.remove"}

hostBackupOperations ==
    {"app.backup", "app.backup.many", "app.backup.restore", "app.backup.verify",
     "backup.sync", "backup.remote.sync", "backup.cloud.sync", "housekeeping.reclaim",
     "housekeeping.unreadable-snapshot.remove"}

dockerRestartOperations ==
    {"docker.logging.set", "apt.upgrade", "apt.install", "apt.remove", "apt.purge",
     "apt.autoremove", "apt.repair", "apt.unattended.set", "prerequisite.docker.install"}

driveUnderAppsOperations ==
    {"storage.check", "storage.dirty-mark.clear", "storage.remount", "storage.writable",
     "storage.unmount", "share.reconnect", "share.unmount"}

(* Ids laneFor tells apart by their prefix; one of each kind it answers.   *)
appOperations ==
    {"app.action", "app.install", "app.uninstall", "app.purge", "app.reinstall", "app.backup",
     "app.backup.many", "app.backup.restore", "app.backup.restore-path", "app.backup.delete",
     "app.backup.verify", "app.update", "app.update.many", "app.update.available",
     "app.rollback", "app.reconfigure", "app.compose.edit", "app.exposure.set"}
vmOperations == {"vm.action", "vm.create", "vm.cloud.create", "vm.media.import", "vm.foundation.initialize"}
vmHostOperations == {"vm.create", "vm.cloud.create", "vm.media.import", "vm.foundation.initialize"}

(* Mutant: installing and removing an app hold only the app's lane. *)
subjectLanes_NoHomepage(r) ==
    LET named ==
            (IF r.id \in appOperations THEN r.apps ELSE {})
              \union (IF r.id \in vmOperations \ vmHostOperations THEN r.vms ELSE {})
              \union (IF r.id \in backupTreeOperations THEN {backupTreeLane} ELSE {})
              \union (IF r.id \in hostBackupOperations THEN {hostLane} ELSE {})
    IN IF named = {} THEN {hostLane} ELSE named

(* Mutant: a checkpoint holds only its app's lane, as it once did. *)
subjectLanes_BackupsOnly(r) ==
    LET named ==
            (IF r.id \in appOperations THEN r.apps ELSE {})
              \union (IF r.id \in vmOperations \ vmHostOperations THEN r.vms ELSE {})
              \union (IF r.id \in homepageOperations THEN {homepageLane} ELSE {})
              \union (IF r.id \in hostBackupOperations THEN {hostLane, backupTreeLane} ELSE {})
    IN IF named = {} THEN {hostLane} ELSE named

(* The lanes of an operation that names its subjects, or the host's. *)
subjectLanes(r) ==
    LET named ==
            (IF r.id \in appOperations THEN r.apps ELSE {})
              \union (IF r.id \in vmOperations \ vmHostOperations THEN r.vms ELSE {})
              \union (IF r.id \in homepageOperations THEN {homepageLane} ELSE {})
              \union (IF r.id \in backupTreeOperations THEN {backupTreeLane} ELSE {})
              \union (IF r.id \in hostBackupOperations THEN {hostLane} ELSE {})
    IN IF named = {} THEN {hostLane} ELSE named

laneFor(r) ==
    CASE r.id \in exclusiveOperations -> {exclusiveLane}
      [] r.id = "job.output.release" -> {"job-output"}
      [] r.id \in {"agents.zulip.post", "agents.zulip.disconnect"} -> {chatLane}
      [] r.id = "agents.runtime.cpu" -> {"agents:cpu"}
      [] r.id = "agents.zulip.connect" -> {chatLane, "app:zulip"}
      [] r.id = "agents.cloud.connect" -> {"agents:cloud"}
      [] r.id \in {"cloudflare.connect", "cloudflare.publish"} -> {cloudflareLane, "app:cloudflared", homepageLane}
      [] r.id \in {"cloudflare.unpublish", "cloudflare.disconnect"} -> {cloudflareLane}
      [] \/ r.id \in dockerRestartOperations \union driveUnderAppsOperations
         \/ r.id = "service.action" /\ r.dockerUnit -> {hostLane, dockerLane}
      [] r.id = "dns.fallback.rehearse" ->
            IF r.apps = {} THEN {hostLane, dockerLane} ELSE {hostLane} \union r.apps
      [] OTHER -> subjectLanes(r)
=============================================================================
