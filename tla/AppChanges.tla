----------------------------- MODULE AppChanges -----------------------------
(***************************************************************************)
(* Changes to one installed app (app-helper.mjs): update, going back a     *)
(* version, a settings change and a compose edit. Each writes the project  *)
(* files, pulls, recreates the containers, waits for them to be well, and  *)
(* records what it did; each puts things back when a step fails, and the   *)
(* helper may go between any two steps.                                    *)
(*                                                                         *)
(* The app's lane holds one change at a time (HelperLanes). An image is a  *)
(* tag and one of the builds pushed under it. A reference in compose.yaml  *)
(* names a tag, a tag with the digest of an image, or an image by its id.  *)
(***************************************************************************)
EXTENDS Naturals, Sequences

CONSTANTS Nothing,      \* no change, nothing said, no such part
          Service, App,  \* the app's services, its own container and its sidecars
          HistoryLimit,  \* updateHistoryLimit
          Answers,       \* the services whose containers one read may find: sets of them
          MaxTag,        \* bound: versions of an image in the catalog
          MaxChanges,    \* bound: changes asked for
          MaxFaults      \* bound: steps failed or cut off, and tags pushed again

Image == Nat \X Nat
Reference ==
    [kind : {"tag"}, tag : 1..MaxTag, image : {Nothing}]
    \union [kind : {"digest"}, tag : 1..MaxTag, image : Image]
    \union [kind : {"id", "own"}, tag : {Nothing}, image : Image]
Some == UNION {[S -> Reference] : S \in SUBSET Service}  \* references of some services
Project == [images : [Service -> Reference], settings : Nat, env : Nat]
Made == [Service -> [image : Image, settings : Nat]]
Change ==
    [kind : {"update", "back", "settings", "edit"},
     at : {"env", "compose", "pull", "check", "up", "settle", "restore", "pin", "putBack", "upAgain"},
     images : [Service -> Reference], settings : Nat, undoes : Nat, to : Some, previous : Project,
     seen : SUBSET Service, digests : Some, was : Made, matched : BOOLEAN]

ASSUME ChangesAssumption ==
    /\ App \in Service /\ Answers \subseteq SUBSET Service
    /\ Nothing \notin Change
    /\ MaxTag \in Nat \ {0} /\ {HistoryLimit, MaxChanges, MaxFaults} \subseteq Nat

VARIABLES
    catalog, registry,  \* each service's tag in the manifest; the newest build of each tag
    local,              \* the build of each tag that is on this server, 0 for none
    files, containers,  \* the project, compose.yaml and .env; what the containers were made from
    record,             \* boxpilot.json: the stored settings and updateHistory
    change,             \* the change in progress
    said,               \* how the last change ended, with what it found (a record)
    ran,                \* images that ran, of each service (a record)
    changes, faults

world == <<catalog, registry>>
host == <<local, files, containers>>
notes == <<said, ran>>
changeVars == <<world, host, record, change, notes, changes, faults>>

Own == <<0, 0>>
Tagged(t) == [kind |-> "tag", tag |-> t, image |-> Nothing]
Pinned(t, i) == [kind |-> "digest", tag |-> t, image |-> i]
ById(i) == [kind |-> "id", tag |-> Nothing, image |-> i]
OwnImage == [kind |-> "own", tag |-> Nothing, image |-> Own]

FromCatalog == [s \in Service |-> Tagged(catalog[s])]

ChangesInit ==
    /\ catalog = [s \in Service |-> 1]
    /\ registry = [s \in Service |-> [t \in 1..MaxTag |-> 1]]
    /\ local = [s \in Service |-> [t \in 1..MaxTag |-> IF t = 1 THEN 1 ELSE 0]]
    /\ files = [images |-> FromCatalog, settings |-> 0, env |-> 0]
    /\ containers = [s \in Service |-> [image |-> <<1, 1>>, settings |-> 0]]
    /\ record = [settings |-> 0, history |-> <<>>]
    /\ change = Nothing /\ said = Nothing
    /\ ran = [s \in Service |-> {}]
    /\ changes = 0 /\ faults = 0
-----------------------------------------------------------------------------
(* The world: a catalog release, and a tag pushed again.                   *)

catalogMoves(S) ==
    /\ change = Nothing /\ S # {}
    /\ \A s \in S : catalog[s] < MaxTag
    /\ catalog' = [s \in Service |-> IF s \in S THEN catalog[s] + 1 ELSE catalog[s]]
    /\ UNCHANGED <<registry, host, record, change, notes, changes, faults>>

fault == faults < MaxFaults /\ faults' = faults + 1

tagPushed(s, t) ==
    /\ fault
    /\ registry' = [registry EXCEPT ![s][t] = @ + 1]
    /\ UNCHANGED <<catalog, host, record, change, notes, changes>>
-----------------------------------------------------------------------------
(* The reads a change begins with.                                         *)

(* Whether a reference names the image a container was made from. *)
names(reference, image) ==
    IF reference.kind = "tag" THEN image[1] = reference.tag ELSE image = reference.image

describes ==
    /\ \A s \in Service : names(files.images[s], containers[s].image) /\ containers[s].settings = files.settings
    /\ files.env = files.settings

(* The digest of each running image, for the services deployed by tag whose image is the catalog's own. *)
runningDigests(S) ==
    [s \in {x \in S : files.images[x].kind = "tag" /\ containers[x].image # Own} |->
        Pinned(files.images[s].tag, containers[s].image)]

begin(kind, images, settings, undoes, to, S) ==
    /\ change = Nothing /\ changes < MaxChanges
    /\ changes' = changes + 1
    /\ change' = [kind |-> kind, at |-> IF kind = "edit" THEN "compose" ELSE "env",
                  images |-> images, settings |-> settings, undoes |-> undoes, to |-> to,
                  previous |-> files, seen |-> S, digests |-> runningDigests(S),
                  was |-> containers, matched |-> describes /\ files.settings = record.settings]
    /\ ran' = [s \in Service |-> ran[s] \union {containers[s].image}]
    /\ UNCHANGED <<world, host, record, said, faults>>

update(S) == begin("update", FromCatalog, record.settings, 0, <<>>, S)

(* Mutant: the recorded digest is not looked at. *)
pinFor_Tag(entry, s) == entry.from[s]

(* Only references of the catalog's own image can be pinned again; the digest recorded beside a tag comes first. *)
pinFor(entry, s) ==
    IF s \in DOMAIN entry.fromDigest /\ entry.fromDigest[s].tag = entry.from[s].tag
    THEN entry.fromDigest[s] ELSE entry.from[s]
restoreTo(entry) ==
    [s \in {x \in DOMAIN entry.from : entry.from[x].kind \in {"tag", "digest"}} |-> pinFor(entry, s)]

rollbackApp(i, S) ==
    /\ i \in DOMAIN record.history
    /\ LET to == restoreTo(record.history[i]) IN
       /\ DOMAIN to # {}
       /\ begin("back", [s \in Service |-> IF s \in DOMAIN to THEN to[s] ELSE Tagged(catalog[s])], record.settings, i, to, S)

reconfigure == begin("settings", FromCatalog, record.settings + 1, 0, <<>>, {})
editCompose == begin("edit", [files.images EXCEPT ![App] = OwnImage], files.settings, 0, <<>>, {})
-----------------------------------------------------------------------------
(* The steps of a change.                                                  *)

goesBack == change.kind = "back"
At(places) == change # Nothing /\ change.at \in places
onTo(place) == change' = [change EXCEPT !.at = place]
says(word, lost) ==
    /\ change' = Nothing
    /\ said' = [word |-> word, kind |-> change.kind, undoes |-> change.undoes, to |-> change.to,
                was |-> change.was, matched |-> change.matched, lost |-> lost]
ends(word) == says(word, FALSE)

(* writeProject: .env, then compose.yaml. *)
writeEnv ==
    /\ At({"env"}) /\ onTo("compose")
    /\ files' = [files EXCEPT !.env = change.settings]
    /\ UNCHANGED <<world, local, containers, record, notes, changes, faults>>

writeCompose ==
    /\ At({"compose"}) /\ onTo(IF change.kind \in {"settings", "edit"} THEN "check" ELSE "pull")
    /\ files' = [files EXCEPT !.images = change.images, !.settings = change.settings]
    /\ UNCHANGED <<world, local, containers, record, notes, changes, faults>>

(* compose pull: every tag the project names, at its newest build. *)
pull ==
    /\ At({"pull"}) /\ onTo("up")
    /\ local' = [s \in Service |->
          IF files.images[s].kind = "tag" THEN [local[s] EXCEPT ![files.images[s].tag] = registry[s][files.images[s].tag]]
          ELSE local[s]]
    /\ UNCHANGED <<world, files, containers, record, notes, changes, faults>>

(* assertPortsFree, or compose config. *)
check ==
    /\ At({"check"}) /\ onTo("up")
    /\ UNCHANGED <<world, host, record, notes, changes, faults>>

(* What compose up makes a service's container from, pulling a tag that is not here. *)
deployed(s) ==
    LET reference == files.images[s] IN
    [image |-> IF reference.kind = "tag"
               THEN <<reference.tag, IF local[s][reference.tag] = 0 THEN registry[s][reference.tag] ELSE local[s][reference.tag]>>
               ELSE reference.image,
     settings |-> files.settings]

upFor(S) ==
    /\ containers' = [s \in Service |-> IF s \in S THEN deployed(s) ELSE containers[s]]
    /\ local' = [s \in Service |->
          IF s \in S /\ files.images[s].kind = "tag" THEN [local[s] EXCEPT ![files.images[s].tag] = deployed(s).image[2]]
          ELSE local[s]]

composeUp == At({"up"}) /\ upFor(Service) /\ onTo("settle") /\ UNCHANGED <<world, files, record, notes, changes, faults>>

(* The entry a change adds to the history. *)
movedFrom(S) == [s \in S |-> change.previous.images[s]]
entryOf(S, back) ==
    [from |-> movedFrom(S), fromDigest |-> [s \in DOMAIN change.digests \intersect S |-> change.digests[s]],
     rolledBack |-> back]
moved == {s \in Service : files.images[s] # change.previous.images[s]}

newest(entries) == SubSeq(entries, 1, IF Len(entries) < HistoryLimit THEN Len(entries) ELSE HistoryLimit)
newHistory ==
    LET old == record.history IN
    CASE change.kind = "update" /\ moved # {} -> newest(<<entryOf(moved, FALSE)>> \o old)
      [] goesBack -> newest(<<entryOf(DOMAIN change.to, TRUE)>> \o SubSeq(old, change.undoes + 1, Len(old)))
      [] OTHER -> old

(* waitHealthy and the record. *)
settleChange ==
    /\ At({"settle"}) /\ ends("done")
    /\ record' = [settings |-> IF change.kind = "settings" THEN change.settings ELSE record.settings,
                  history |-> newHistory]
    /\ UNCHANGED <<world, host, ran, changes, faults>>
-----------------------------------------------------------------------------
(* A step fails.                                                           *)

(* Before the containers are touched. A settings change lets an error of writeProject through (its last files are *)
(* the ones the app ships), a compose edit one of its write. *)
stepFails ==
    /\ fault
    /\ At({"env", "compose", "pull", "check"})
    /\ UNCHANGED <<world, host, record, ran, changes>>
    /\ \/ /\ change.kind = "settings" \/ (change.kind = "edit" /\ change.at = "compose")
          /\ ends("error")
       \/ /\ change.kind \notin {"settings", "edit"} \/ change.at = "check"
          /\ onTo("restore") /\ UNCHANGED said

(* restoreProjectFiles, and the same two writes made one by one: compose.yaml, then .env. *)
asBefore == files' = change.previous
asBeforeFails ==
    \/ UNCHANGED files
    \/ files' = [change.previous EXCEPT !.env = files.env]

restoreFiles ==
    /\ At({"restore"}) /\ asBefore /\ ends("unchanged")
    /\ UNCHANGED <<world, local, containers, record, ran, changes, faults>>

(* Only a compose edit says that its file could not be put back. *)
restoreFilesFails ==
    /\ fault
    /\ At({"restore"}) /\ says(IF change.kind = "edit" THEN "error" ELSE "unchanged", TRUE)
    /\ asBeforeFails
    /\ UNCHANGED <<world, local, containers, record, ran, changes>>

(* After them: an update pins the images it saw running, the others put the files back. *)
failed == onTo(IF change.kind = "update" /\ App \in change.seen THEN "pin" ELSE "putBack")

composeUpFails(S) ==
    /\ fault
    /\ At({"up"}) /\ upFor(S) /\ failed
    /\ UNCHANGED <<world, files, record, notes, changes>>

(* waitHealthy, or the record's write, which going back makes outside its try. *)
unsettled ==
    /\ fault
    /\ At({"settle"})
    /\ \/ failed /\ UNCHANGED said
       \/ goesBack /\ ends("unrecorded")
    /\ UNCHANGED <<world, host, record, ran, changes>>

(* Mutant: the sidecars are left on the new images. *)
pinnedImage_AppOnly(s) == IF s = App THEN ById(change.was[s].image) ELSE change.images[s]
pinnedImage(s) == IF s \in change.seen THEN ById(change.was[s].image) ELSE change.images[s]

pin ==
    /\ At({"pin"}) /\ onTo("upAgain")
    /\ files' = [images |-> [s \in Service |-> pinnedImage(s)], settings |-> change.settings, env |-> change.settings]
    /\ UNCHANGED <<world, local, containers, record, notes, changes, faults>>

pinFails ==
    /\ fault
    /\ At({"pin"}) /\ onTo("putBack")
    /\ UNCHANGED <<world, host, record, notes, changes>>

filesBack ==
    /\ At({"putBack"}) /\ asBefore /\ onTo("upAgain")
    /\ UNCHANGED <<world, local, containers, record, notes, changes, faults>>

filesBackFails ==
    /\ fault
    /\ At({"putBack"}) /\ asBeforeFails /\ ends("failed")
    /\ UNCHANGED <<world, local, containers, record, ran, changes>>

upAgain ==
    /\ At({"upAgain"}) /\ upFor(Service) /\ ends("restored")
    /\ UNCHANGED <<world, files, record, ran, changes, faults>>

upAgainFails(S) ==
    /\ fault
    /\ At({"upAgain"}) /\ upFor(S) /\ ends("failed")
    /\ UNCHANGED <<world, files, record, ran, changes>>

(* The helper goes: nothing of the change is left but what it did. *)
cutOff ==
    /\ change # Nothing /\ fault
    /\ ends("cutOff")
    /\ UNCHANGED <<world, host, record, ran, changes>>
-----------------------------------------------------------------------------
WorldStep == (\E S \in SUBSET Service : catalogMoves(S)) \/ \E s \in Service, t \in 1..MaxTag : tagPushed(s, t)
Begins ==
    \/ reconfigure \/ editCompose
    \/ \E S \in Answers : update(S) \/ \E i \in 1..HistoryLimit : rollbackApp(i, S)
GoesOn == writeEnv \/ writeCompose \/ pull \/ check \/ composeUp \/ settleChange
Fails ==
    \/ stepFails \/ restoreFiles \/ restoreFilesFails \/ unsettled \/ pin \/ pinFails \/ filesBack \/ filesBackFails \/ upAgain
    \/ \E S \in SUBSET Service : composeUpFails(S) \/ upAgainFails(S)

ChangesNext == WorldStep \/ Begins \/ GoesOn \/ Fails \/ cutOff
ChangesSpec == ChangesInit /\ [][ChangesNext]_changeVars
-----------------------------------------------------------------------------
(* What a change says is true. An update, a step back or a settings change *)
(* that says the app is unchanged, or that what it was on was restored,    *)
(* has left every service on the version and the settings it ran, sidecars *)
(* too, unless the files did not describe the containers to begin with.    *)
(* And the project files describe the containers once a change has ended   *)
(* and said so, so the next restart does not quietly move the app; unless  *)
(* they did not before (an edit leaves .env alone) or could not be put     *)
(* back.                                                                   *)
SaidIsTrue ==
    change = Nothing /\ said # Nothing =>
        /\ said.matched /\ said.word \in {"unchanged", "restored"} =>
              \A s \in Service : /\ containers[s].image[1] = said.was[s].image[1]
                                 /\ containers[s].settings = said.was[s].settings
        /\ /\ said.word \in {"done", "unrecorded", "unchanged", "restored"} /\ ~said.lost
           /\ said.matched \/ (said.word \in {"done", "unrecorded"} /\ said.kind # "edit")
           => describes

(* Going back to a version whose digest was recorded deploys exactly an    *)
(* image that ran, however often its tag was pushed since.                 *)
GoBackIsExact ==
    [][said' # said /\ said'.word = "done" =>
        \A s \in DOMAIN said'.to :
            s \in DOMAIN record.history[said'.undoes].fromDigest => containers[s].image \in ran[s]]_changeVars
-----------------------------------------------------------------------------
(* What the operation says of itself: going back deploys versions from the *)
(* app's own history, so nothing it did not run.                           *)
NothingElseDeployed ==
    [][said' # said /\ said'.word = "done" /\ said'.kind = "back" =>
        \A s \in Service : \E image \in ran[s] : image[1] = containers[s].image[1]]_changeVars

(* Every entry of the history that no compose edit had a hand in is a way  *)
(* back.                                                                   *)
WayBack ==
    \A i \in DOMAIN record.history :
        \/ \E s \in DOMAIN record.history[i].from : record.history[i].from[s].kind = "own"
        \/ DOMAIN restoreTo(record.history[i]) # {}

(* The history names only versions that ran.                               *)
HistoryRan ==
    \A i \in DOMAIN record.history : \A s \in DOMAIN record.history[i].from :
        record.history[i].from[s].kind = "tag" => \E image \in ran[s] : image[1] = record.history[i].from[s].tag
=============================================================================
