------------------------- MODULE MCLanedOperations -------------------------
EXTENDS LanedOperations

jelly == "app:jellyfin"
MCAppLane == {jelly, "app:adguard", homepageLane, "app:cloudflared"}
MCOtherLane == {hostLane, backupTreeLane, cloudflareLane}

Req(op, named) == [id |-> op, apps |-> named, vms |-> {}, dockerUnit |-> FALSE]

(* A machine snapshot, a mirror, operations on one app, two, the shared    *)
(* Homepage, the Cloudflare connector and the backup tree, a rehearsal     *)
(* that holds an app and the host, and two ways of restarting Docker.      *)
Ordinary ==
    {Req(op, {}) : op \in {"host.snapshot.create", "backup.sync", "apt.upgrade", "homepage.sync", "cloudflare.publish"}}
      \union {Req(op, {jelly}) : op \in {"app.install", "app.update"}}
      \union {Req("app.backup.many", {jelly, "app:adguard"}), Req("app.action", {"app:cloudflared"}),
              Req("dns.fallback.rehearse", {"app:adguard"}),
              [id |-> "service.action", apps |-> {}, vms |-> {}, dockerUnit |-> TRUE]}

MCLaneSets == {laneFor(r) : r \in Requests}
=============================================================================
