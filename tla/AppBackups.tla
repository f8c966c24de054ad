----------------------------- MODULE AppBackups -----------------------------
(***************************************************************************)
(* Backups and restores of one app (app-backups.mjs), and what puts a      *)
(* cut-off backup right when the helper starts (interrupted-backups.mjs):  *)
(* the file operations and docker calls in their order, with the helper or *)
(* the power gone between any two.                                         *)
(*                                                                         *)
(* The app's lane holds one operation at a time (HelperLanes). The data an *)
(* archive holds is a version; what backups leave out, the kept folder, is *)
(* there or not. Files outlive the processes; op and resume do not.        *)
(***************************************************************************)
EXTENDS Naturals, FiniteSets

CONSTANTS None,
          Keep,       \* copies kept of each kind (keep, checkpointKeep)
          MaxOps,     \* bound: backups and restores asked for
          MaxWrites,  \* bound: what the app writes
          MaxCrashes, \* bound: how often the helper or the power goes
          MaxByHand   \* bound: what the owner does by hand

ASSUME BackupsAssumption == Keep \in Nat \ {0} /\ {MaxOps, MaxWrites, MaxCrashes, MaxByHand} \subseteq Nat

Marker == [restart : BOOLEAN, n : Nat]
Folder == [data : Nat, kept : BOOLEAN, marker : Marker \union {None}]

ASSUME NoneAssumption == None \notin Folder

VARIABLES
    live, displaced, \* the app's folder; during a restore, the one it replaced
    staged,          \* the unpacked archive beside it
    partials,        \* archives not under their own names
    archives, metas, \* those that are, and which are described
    app, held,       \* the containers: "up" or "down"; stopped by hand, so Docker leaves them
    docker, helper,
    op, resume,      \* the operation in the app's lane; the cut-off backup to put right
    ops, writes, crashes, hands,
    wish,            \* how the owner wants the app (a record)
    told,            \* whether a job or the log said that the app was left down (a record)
    original         \* the data a restore found, with what was written to it since (a record)

fileVars == <<live, displaced, staged, partials, archives, metas>>
hostVars == <<app, held, docker, helper>>
boundVars == <<ops, writes, crashes, hands>>
backupVars == <<fileVars, hostVars, op, resume, boundVars, wish, told, original>>

Idle == [at |-> "idle", does |-> None, n |-> 0, reads |-> None, was |-> FALSE, restart |-> FALSE,
         unread |-> FALSE, failed |-> FALSE, saved |-> FALSE, down |-> FALSE]

BackupsInit ==
    /\ live = [data |-> 0, kept |-> TRUE, marker |-> None] /\ displaced = None /\ staged = None
    /\ partials = {} /\ archives = {} /\ metas = {}
    /\ app = "up" /\ held = FALSE /\ docker = "up" /\ helper = "up"
    /\ op = Idle /\ resume = None
    /\ ops = 0 /\ writes = 0 /\ crashes = 0 /\ hands = 0
    /\ wish = "up" /\ told = "no" /\ original = {}
-----------------------------------------------------------------------------
(* The host.                                                               *)

at(where) == helper = "up" /\ op.at = where
goto(where) == op' = [op EXCEPT !.at = where]

(* compose stop and start. *)
goesDown == docker = "up" /\ app' = "down" /\ held' = TRUE /\ UNCHANGED <<docker, helper>>
comesUp == docker = "up" /\ app' = "up" /\ held' = FALSE /\ told' = "no" /\ UNCHANGED <<docker, helper>>

(* What is being archived while the app runs is no one moment's data. *)
torn(files) == IF op.at = "archiving" THEN {[p EXCEPT !.torn = @ \/ p.n = op.n] : p \in files} ELSE files

appWrites ==
    /\ app = "up" /\ live # None /\ writes < MaxWrites
    /\ writes' = writes + 1
    /\ live' = [live EXCEPT !.data = writes + 1]
    /\ original' = IF live.data \in original /\ displaced = None THEN original \union {writes + 1} ELSE original
    /\ partials' = torn(partials)
    /\ UNCHANGED <<displaced, staged, archives, metas, hostVars, op, resume, ops, crashes, hands, wish, told>>

(* A docker that does not answer reads as not running. *)
containerStatus == IF docker = "up" THEN {app = "up", FALSE} ELSE {FALSE}

(* What is under way is lost. A restore that has the app down or its       *)
(* folder away is a job that fails as cut off.                             *)
crash ==
    /\ crashes < MaxCrashes /\ crashes' = crashes + 1
    /\ helper' = "down" /\ op' = Idle /\ resume' = None
    /\ told' = IF op.down THEN "said" ELSE told
    /\ UNCHANGED <<fileVars, held, ops, writes, hands, wish, original>>
helperDies == helper = "up" /\ crash /\ UNCHANGED <<app, docker>>
powerCut == crash /\ app' = "down" /\ docker' = "down"

(* Docker starts what nobody stopped by hand. *)
dockerStarts ==
    /\ docker = "down" /\ docker' = "up"
    /\ app' = IF held THEN app ELSE "up"
    /\ UNCHANGED <<fileVars, held, helper, op, resume, boundVars, wish, told, original>>

(* Mutant: the markers are not looked for. *)
interruptedBackups_None == None

interruptedBackups == IF live = None THEN None ELSE live.marker

(* Before any request is taken: the markers are read, and every archive    *)
(* that never took its name goes.                                          *)
helperStarts ==
    /\ helper = "down" /\ helper' = "up"
    /\ resume' = interruptedBackups
    /\ partials' = {}
    /\ UNCHANGED <<live, displaced, staged, archives, metas, app, held, docker, op, boundVars, wish, told, original>>

lane == helper = "up" /\ op = Idle
byHand == lane /\ hands < MaxByHand /\ hands' = hands + 1 /\ UNCHANGED <<ops, writes, crashes>>

action(to) ==
    /\ byHand /\ live # None /\ wish' = to
    /\ IF to = "up" THEN comesUp ELSE goesDown /\ UNCHANGED told
    /\ UNCHANGED <<fileVars, op, resume, original>>

(* Removed for good, and what is gone from them is no longer answered for. *)
remove(gone) ==
    /\ archives' = archives \ gone
    /\ metas' = metas \ {a.n : a \in gone}
    /\ original' = IF {a.data : a \in gone} \intersect original = {} THEN original ELSE {}

deleteAppBackup(a) ==
    /\ byHand /\ remove({a})
    /\ UNCHANGED <<live, displaced, staged, partials, hostVars, op, resume, wish, told>>
-----------------------------------------------------------------------------
(* backup: by itself, a restore's safety copy, a file restore's checkpoint.*)

newOp(does, reads) == [Idle EXCEPT !.does = does, !.n = ops + 1, !.reads = reads]
asks == lane /\ live # None /\ ops < MaxOps /\ ops' = ops + 1 /\ UNCHANGED <<writes, crashes, hands>>

(* A backup that fails is the end of its job, unless a restore goes on     *)
(* without a safety copy.                                                  *)
over == IF op.does = "restore" THEN [op EXCEPT !.at = "asking", !.failed = FALSE] ELSE Idle

(* It ran, or a backup that was cut off had stopped it. *)
restartAfter(was) == was \/ (live.marker # None /\ live.marker.restart)

looks(o) ==
    \E was \in containerStatus :
        /\ op' = [o EXCEPT !.at = "marking", !.was = was, !.restart = restartAfter(was),
                           !.unread = ~was /\ (app = "up" \/ docker = "down")]
        /\ partials' = {p \in partials : live.marker = None \/ p.n # live.marker.n}

backup ==
    /\ asks /\ looks(newOp("backup", None))
    /\ UNCHANGED <<live, displaced, staged, archives, metas, hostVars, resume, wish, told, original>>

(* Said on disk before the app stops. *)
mark ==
    /\ at("marking") /\ goto("stopping")
    /\ live' = [live EXCEPT !.marker = [restart |-> op.restart, n |-> op.n]]
    /\ UNCHANGED <<displaced, staged, partials, archives, metas, hostVars, resume, boundVars, wish, told, original>>

markFails ==
    /\ at("marking") /\ op' = over
    /\ UNCHANGED <<fileVars, hostVars, resume, boundVars, wish, told, original>>

Archive == [n |-> op.n, data |-> live.data, whole |-> FALSE, torn |-> FALSE, unread |-> op.unread,
            checkpoint |-> op.does = "path"]
(* Mutant: written under the archive's own name. *)
beginsArchive_InPlace == partials' = partials \union {Archive} /\ archives' = archives \union {Archive}

beginsArchive == partials' = partials \union {Archive} /\ UNCHANGED archives

mustStop == op.was

stopApp ==
    /\ at("stopping") /\ goto("archiving")
    /\ IF mustStop THEN goesDown ELSE UNCHANGED hostVars
    /\ beginsArchive
    /\ UNCHANGED <<live, displaced, staged, metas, resume, boundVars, wish, told, original>>

(* Leaving backup by an error: finally removes the marker. *)
fails == op' = over /\ live' = [live EXCEPT !.marker = None]

(* The containers may be down all the same. *)
stopFails ==
    /\ at("stopping") /\ op.was /\ fails
    /\ \/ UNCHANGED <<hostVars, told>>
       \/ goesDown /\ told' = "said"
    /\ UNCHANGED <<displaced, staged, partials, archives, metas, resume, boundVars, wish, original>>

archived ==
    /\ at("archiving") /\ goto("starting")
    /\ partials' = {[p EXCEPT !.whole = @ \/ p.n = op.n] : p \in partials}
    /\ UNCHANGED <<live, displaced, staged, archives, metas, hostVars, resume, boundVars, wish, told, original>>

(* The start's failure is said with tar's. *)
tarFails ==
    /\ at("archiving") /\ fails
    /\ partials' = {p \in partials : p.n # op.n}
    /\ \/ op.restart /\ comesUp
       \/ op.restart /\ told' = "said" /\ UNCHANGED hostVars
       \/ ~op.restart /\ UNCHANGED <<told, hostVars>>
    /\ UNCHANGED <<displaced, staged, archives, metas, resume, boundVars, wish, original>>

startAgain ==
    /\ at("starting")
    /\ \/ op.restart /\ comesUp /\ goto("describing")
       \/ op.restart /\ op' = [op EXCEPT !.at = "describing", !.failed = TRUE] /\ UNCHANGED <<hostVars, told>>
       \/ ~op.restart /\ goto("describing") /\ UNCHANGED <<hostVars, told>>
    /\ UNCHANGED <<fileVars, resume, boundVars, wish, original>>

(* The archive flushed, its checksum taken and written down. *)
describe ==
    /\ at("describing") /\ goto("naming")
    /\ metas' = metas \union {op.n}
    /\ UNCHANGED <<live, displaced, staged, partials, archives, hostVars, resume, boundVars, wish, told, original>>

(* The error is the disk's: of a start that failed nothing is said. *)
describeFails ==
    /\ op.at \in {"describing", "naming"} /\ helper = "up" /\ fails
    /\ told' = IF op.failed THEN "unsaid" ELSE told
    /\ UNCHANGED <<displaced, staged, partials, archives, metas, hostVars, resume, boundVars, wish, original>>

(* rename(partial, artifact). *)
takesName ==
    /\ at("naming") /\ goto("unmarking")
    /\ partials' = {p \in partials : p.n # op.n}
    /\ archives' = archives \union {p \in partials : p.n = op.n}
    /\ UNCHANGED <<live, displaced, staged, metas, hostVars, resume, boundVars, wish, told, original>>

(* A start that failed fails the job, the archive kept. *)
unmark ==
    /\ at("unmarking")
    /\ live' = [live EXCEPT !.marker = None]
    /\ IF op.failed THEN op' = over /\ told' = "said"
       ELSE op' = [op EXCEPT !.at = IF op.does = "restore" THEN "asking" ELSE "pruning", !.saved = TRUE] /\ UNCHANGED told
    /\ UNCHANGED <<displaced, staged, partials, archives, metas, hostVars, resume, boundVars, wish, original>>

(* Each kind is counted against its own kind only. *)
behind ==
    {a \in archives : a.checkpoint = (op.does = "path") /\ a.n # op.reads
                      /\ Cardinality({b \in archives : b.checkpoint = a.checkpoint /\ b.n > a.n}) >= Keep}

(* Those a machine snapshot restores from stay. *)
prune ==
    /\ at("pruning")
    /\ \E referenced \in SUBSET behind : remove(behind \ referenced)
    /\ op' = IF op.does = "path" THEN [op EXCEPT !.at = "pausing"] ELSE Idle
    /\ UNCHANGED <<live, displaced, staged, partials, hostVars, resume, boundVars, wish, told>>

(* resumeInterruptedBackup, once Docker answered or was waited for in      *)
(* vain. A marker gone by now was settled by a backup that ran meanwhile.  *)
resumes ==
    /\ lane /\ resume # None /\ resume' = None
    /\ IF interruptedBackups = None THEN UNCHANGED <<op, partials>>
       ELSE /\ op' = [Idle EXCEPT !.at = "resuming", !.restart = resume.restart]
            /\ partials' = {p \in partials : p.n # resume.n}
    /\ UNCHANGED <<live, displaced, staged, archives, metas, hostVars, boundVars, wish, told, original>>

(* The marker stays when the app could not be started. *)
resumed ==
    /\ at("resuming") /\ op' = Idle
    /\ \/ /\ IF op.restart THEN comesUp ELSE UNCHANGED <<hostVars, told>>
          /\ live' = [live EXCEPT !.marker = None]
       \/ op.restart /\ told' = "said" /\ UNCHANGED <<hostVars, live>>
    /\ UNCHANGED <<displaced, staged, partials, archives, metas, resume, boundVars, wish, original>>
-----------------------------------------------------------------------------
(* restoreAppBackup: unpack beside, safety copy, stop, swap, carry, up.    *)

restoreAppBackup(a) ==
    /\ asks /\ staged = None /\ displaced = None
    /\ op' = [newOp("restore", a.n) EXCEPT !.at = "checking"]
    /\ staged' = [data |-> a.data, kept |-> FALSE, marker |-> None]
    /\ original' = {live.data}
    /\ UNCHANGED <<live, displaced, partials, archives, metas, hostVars, resume, wish, told>>

(* Over before anything is swapped. *)
refused == op' = Idle /\ staged' = None /\ UNCHANGED <<live, displaced, partials, archives, metas>>

(* What was unpacked does not fit this server, or a port of it is taken:   *)
(* asked before the safety copy and again after it.                        *)
checksFail ==
    /\ op.at \in {"checking", "asking"} /\ helper = "up" /\ refused
    /\ UNCHANGED <<hostVars, resume, boundVars, wish, told, original>>

safetyCopy ==
    /\ at("checking") /\ looks(op)
    /\ UNCHANGED <<live, displaced, staged, archives, metas, hostVars, resume, boundVars, wish, told, original>>

(* backup's own refusals, before it touched anything. *)
safetyRefused ==
    /\ at("checking") /\ goto("asking")
    /\ UNCHANGED <<fileVars, hostVars, resume, boundVars, wish, told, original>>

(* The restore's own stop: no marker is written for it. *)
pauses(next) ==
    \E was \in containerStatus :
        /\ op' = [op EXCEPT !.at = next, !.was = was, !.down = was]
        /\ IF was THEN goesDown ELSE UNCHANGED hostVars

stopForRestore ==
    /\ at("asking") /\ pauses("displacing")
    /\ UNCHANGED <<fileVars, resume, boundVars, wish, told, original>>

(* Both restores: compose stop fails, perhaps with the containers down. *)
stopForRestoreFails ==
    /\ op.at \in {"asking", "pausing"} /\ helper = "up" /\ app = "up" /\ refused
    /\ \/ UNCHANGED <<hostVars, told>>
       \/ goesDown /\ told' = "said"
    /\ UNCHANGED <<resume, boundVars, wish, original>>

displace ==
    /\ at("displacing") /\ op' = [op EXCEPT !.at = "swapping", !.down = TRUE]
    /\ displaced' = live /\ live' = None
    /\ UNCHANGED <<staged, partials, archives, metas, hostVars, resume, boundVars, wish, told, original>>

swap ==
    /\ at("swapping") /\ goto("carrying")
    /\ live' = staged /\ staged' = None
    /\ UNCHANGED <<displaced, partials, archives, metas, hostVars, resume, boundVars, wish, told, original>>

(* The original is put back, if that works. *)
swapFails ==
    /\ at("swapping") /\ op' = Idle /\ staged' = None /\ told' = "said"
    /\ \/ live' = displaced /\ displaced' = None
       \/ UNCHANGED <<live, displaced>>
    /\ UNCHANGED <<partials, archives, metas, hostVars, resume, boundVars, wish, original>>

(* What backups leave out is moved across. *)
carry ==
    /\ at("carrying") /\ goto("upping")
    /\ live' = [live EXCEPT !.kept = displaced.kept]
    /\ displaced' = [displaced EXCEPT !.kept = FALSE]
    /\ UNCHANGED <<staged, partials, archives, metas, hostVars, resume, boundVars, wish, told, original>>

carryFails ==
    /\ at("carrying") /\ op' = Idle /\ told' = "said"
    /\ UNCHANGED <<fileVars, hostVars, resume, boundVars, wish, original>>

(* And moved back when the restored app does not come up. *)
putBack ==
    \/ /\ live' = [live EXCEPT !.kept = FALSE]
       /\ displaced' = [displaced EXCEPT !.kept = live.kept]
    \/ UNCHANGED <<live, displaced>>

up ==
    /\ at("upping") /\ goto("settling") /\ comesUp
    /\ UNCHANGED <<fileVars, resume, boundVars, wish, original>>

(* Not up, or up and not healthy: for the owner to look at. *)
upFails ==
    /\ op.at \in {"upping", "settling"} /\ helper = "up" /\ op' = Idle /\ told' = "said" /\ putBack
    /\ UNCHANGED <<staged, partials, archives, metas, hostVars, resume, boundVars, wish, original>>

(* Mutant: the original goes whether or not it was saved. *)
settled_Always == None

(* Kept when no safety copy holds it. *)
settled == IF op.saved THEN None ELSE displaced

settle ==
    /\ at("settling") /\ op' = Idle
    /\ displaced' = settled
    /\ UNCHANGED <<live, staged, partials, archives, metas, hostVars, resume, boundVars, wish, told, original>>
-----------------------------------------------------------------------------
(* restoreAppBackupPath: one path, after a checkpoint.                     *)

restoreAppBackupPath(a) ==
    /\ asks /\ looks(newOp("path", a.n))
    /\ UNCHANGED <<live, displaced, staged, archives, metas, hostVars, resume, wish, told, original>>

stopForPath ==
    /\ at("pausing") /\ pauses("placing")
    /\ UNCHANGED <<fileVars, resume, boundVars, wish, told, original>>

(* The path as the archive has it among everything else as it was: data    *)
(* that is neither. Or it fails, and nothing moved.                        *)
place ==
    /\ at("placing") /\ goto("finishing")
    /\ \/ /\ \E a \in archives : a.n = op.reads
          /\ writes' = writes + 1
          /\ live' = [live EXCEPT !.data = writes + 1]
          /\ original' = IF live.data \in original /\ displaced = None THEN original \union {writes + 1} ELSE original
       \/ UNCHANGED <<writes, live, original>>
    /\ UNCHANGED <<displaced, staged, partials, archives, metas, hostVars, resume, ops, crashes, hands, wish, told>>

pathDone ==
    /\ at("finishing") /\ op' = Idle
    /\ \/ op.was /\ comesUp
       \/ op.was /\ told' = "said" /\ UNCHANGED hostVars
       \/ ~op.was /\ UNCHANGED <<told, hostVars>>
    /\ UNCHANGED <<fileVars, resume, boundVars, wish, original>>
-----------------------------------------------------------------------------
BackupStep == mark \/ markFails \/ stopApp \/ stopFails \/ archived \/ tarFails \/ startAgain \/ describe \/ describeFails
              \/ takesName \/ unmark \/ prune
RestoreStep == checksFail \/ safetyCopy \/ safetyRefused \/ stopForRestore \/ stopForRestoreFails \/ displace
               \/ swap \/ swapFails \/ carry \/ carryFails \/ up \/ upFails \/ settle
PathStep == stopForPath \/ place \/ pathDone
HelperStep == helperStarts \/ resumes \/ resumed \/ BackupStep \/ RestoreStep \/ PathStep

BackupsNext ==
    \/ HelperStep
    \/ appWrites \/ helperDies \/ powerCut \/ dockerStarts
    \/ backup
    \/ \E to \in {"up", "down"} : action(to)
    \/ \E a \in archives : restoreAppBackup(a) \/ restoreAppBackupPath(a) \/ deleteAppBackup(a)

(* What the helper has begun goes on: its commands have limits and end.    *)
(* Nothing is asked of Docker, of the app or of people.                    *)
BackupsSpec == BackupsInit /\ [][BackupsNext]_backupVars /\ WF_backupVars(HelperStep)
-----------------------------------------------------------------------------
(* An archive under its own name is whole and described, wherever a backup *)
(* was cut off - it is what listings, prunes, mirrors and restores go by - *)
(* and of one moment's data whenever Docker said, when asked, whether the  *)
(* app ran.                                                                *)
ListedIsSound == \A a \in archives : a.whole /\ a.n \in metas /\ (a.torn => a.unread)

(* A restore loses nothing, failed or cut off anywhere: the data it found  *)
(* is the app's folder, the folder set aside or an archive, until the      *)
(* owner or a later prune removes that archive; what backups leave out     *)
(* (models, a mailbox) is in the app's folder or in the one set aside; and *)
(* the archive a file restore reads outlives the checkpoint made for it.   *)
RestoreLosesNothing ==
    LET folders == {live, displaced} \ {None}
    IN /\ original # {} => (\E f \in folders : f.data \in original) \/ \E a \in archives : a.data \in original
       /\ \E f \in folders : f.kept
       /\ op.at \in {"pausing", "placing"} => \E a \in archives : a.n = op.reads

LeftDown == op = Idle /\ held /\ wish = "up"
Owed == live # None /\ live.marker # None /\ live.marker.restart

(* An app the owner wants up does not stay stopped in silence, however     *)
(* often its backups and restores are cut off: it is started again, or a   *)
(* job or the log says why not.                                            *)
ComesBackUp == (held /\ wish = "up") ~> (~held \/ wish = "down" \/ told # "no")

(* "Consistent backup of an app's managed data" (app-backups.mjs): no      *)
(* archive is of data the app was writing.                                 *)
ConsistentBackups == \A a \in archives : ~a.torn

(* "Said with the failure" (app-backups.mjs): an app a backup could not    *)
(* start again is named by its job.                                        *)
DownIsSaid == LeftDown => Owed \/ told = "said"
=============================================================================
