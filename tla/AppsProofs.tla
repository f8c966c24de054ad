------------------------------ MODULE AppsProofs ------------------------------
(***************************************************************************)
(* Proofs for the operations on one app. AppBackups: what is listed is     *)
(* sound, and a restore loses nothing, for any number of backups,          *)
(* restores, writes and crashes. AppChanges: what a change says is true,   *)
(* and going back deploys what ran, for any services, versions and         *)
(* failing steps.                                                          *)
(***************************************************************************)
EXTENDS AppBackups, AppChanges, SequenceTheorems, TLAPS

Copying == {"marking", "stopping", "archiving", "starting", "describing", "naming", "unmarking"}
Restoring == {"checking", "asking", "displacing", "swapping", "carrying", "upping", "settling"}
FilePath == {"pausing", "placing", "finishing"}

Copies == [n : Nat, data : Nat, whole : BOOLEAN, torn : BOOLEAN, unread : BOOLEAN, checkpoint : BOOLEAN]
Places == {"idle", "resuming", "pruning"} \union Copying \union Restoring \union FilePath
Operations ==
    [at : Places, does : {None, "backup", "restore", "path"}, n : Nat, reads : Nat \union {None}, was : BOOLEAN,
     restart : BOOLEAN, unread : BOOLEAN, failed : BOOLEAN, saved : BOOLEAN, down : BOOLEAN]

(* The type of every variable. *)
BackupsTypeOK ==
    /\ live \in Folder \union {None} /\ displaced \in Folder \union {None} /\ staged \in Folder \union {None}
    /\ partials \subseteq Copies /\ archives \subseteq Copies /\ metas \subseteq Nat
    /\ app \in {"up", "down"} /\ held \in BOOLEAN /\ docker \in {"up", "down"} /\ helper \in {"up", "down"}
    /\ op \in Operations /\ resume \in Marker \union {None}
    /\ ops \in Nat /\ writes \in Nat /\ crashes \in Nat /\ hands \in Nat
    /\ wish \in {"up", "down"} /\ told \in {"no", "said", "unsaid"} /\ original \subseteq Nat

(* Which operation is at which of its steps. *)
OpInv ==
    /\ op.at \in Copying => op.does \in {"backup", "restore", "path"}
    /\ op.at \in Restoring => op.does = "restore"
    /\ op.at \in FilePath => op.does = "path"
    /\ op.at = "pruning" => op.does \in {"backup", "path"}

(* An operation does not outlive its helper. *)
HelperInv == helper = "down" => op.at = "idle"

restores == op.at \in Copying \union Restoring /\ op.does = "restore"

(* Copies are numbered by the operations that made them. *)
NumberInv ==
    /\ op.n =< ops
    /\ \A a \in archives \union partials : a.n =< ops
    /\ \A a, b \in archives : a.n = b.n => a = b
    /\ \A a, b \in partials : a.n = b.n => a = b
    /\ \A a \in archives, b \in partials : a.n # b.n
    /\ op.at \in {"checking", "marking", "stopping"} => \A a \in archives \union partials : a.n # op.n

(* The app does not write to what is copied, unless it was not asked. *)
QuietInv ==
    /\ op.at \in {"marking", "stopping"} /\ ~op.was => op.unread \/ (app = "down" /\ docker = "up")
    /\ op.at = "archiving" => op.unread \/ (app = "down" /\ docker = "up")

(* What an archive is before it takes its name. *)
CopyInv ==
    /\ \A p \in partials : /\ p.torn => p.unread
                           /\ p.n = op.n /\ op.at = "archiving" => p.unread = op.unread
                           /\ p.n = op.n /\ op.at \in {"starting", "describing", "naming"} => p.whole
    /\ op.at = "naming" => op.n \in metas
    /\ ListedIsSound

(* Where the folders are. *)
FolderInv ==
    /\ op.at \notin {"idle", "swapping"} => live # None
    /\ live = None => displaced # None
    /\ restores /\ op.at \notin {"swapping", "carrying", "upping", "settling"} => displaced = None /\ staged # None
    /\ op.at \in {"swapping", "carrying", "upping", "settling"} => displaced # None
    /\ op.at = "swapping" => staged # None

(* Where what backups leave out is. *)
KeptInv ==
    /\ displaced = None => live.kept
    /\ op.at \in {"swapping", "carrying"} => displaced.kept
    /\ op.at \in {"upping", "settling"} => live.kept
    /\ (live # None /\ live.kept) \/ (displaced # None /\ displaced.kept)

saved == \E a \in archives : a.data \in original

(* Where the data a restore found is. *)
DataInv ==
    /\ displaced # None => original = {} \/ displaced.data \in original
    /\ displaced = None /\ original # {} => live.data \in original \/ saved
    /\ restores /\ displaced = None => live.data \in original
    /\ restores /\ op.at \in {"archiving", "starting", "describing", "naming"} =>
         \E p \in partials : p.n = op.n /\ p.data \in original
    /\ restores /\ (op.at = "unmarking" \/ op.saved) => saved

(* The archive a file restore reads is there. *)
ReadInv ==
    op.does = "path" /\ op.at \in Copying \union {"pruning", "pausing", "placing"} =>
        \E a \in archives : a.n = op.reads

BackupsInv ==
    /\ BackupsTypeOK /\ OpInv /\ HelperInv /\ NumberInv /\ QuietInv /\ CopyInv /\ FolderInv /\ KeptInv /\ DataInv /\ ReadInv
-----------------------------------------------------------------------------
LEMMA InitBackupsInv == BackupsInit => BackupsInv
  <1> SUFFICES ASSUME BackupsInit PROVE BackupsInv
    OBVIOUS
  <1>1. [data |-> 0, kept |-> TRUE, marker |-> None] \in Folder
    BY DEF Folder
  <1>3. live \in Folder /\ live # None
    BY <1>1, NoneAssumption DEF BackupsInit
  <1>2. BackupsTypeOK
    BY <1>3 DEF BackupsInit, BackupsTypeOK, Operations, Places, Idle, Copying, Restoring, FilePath
  <1> QED
    BY <1>3, <1>2 DEF BackupsInit, BackupsInv, Idle, OpInv, HelperInv, NumberInv, QuietInv, CopyInv, FolderInv, KeptInv, DataInv,
       ReadInv, ListedIsSound, restores, Copying, Restoring, FilePath

(* An operation that goes on is an operation. *)
LEMMA StepsOn ==
    ASSUME NEW o \in Operations
    PROVE  /\ \A w \in Places : [o EXCEPT !.at = w] \in Operations
           /\ \A b \in BOOLEAN : /\ [o EXCEPT !.failed = b] \in Operations
                                 /\ [o EXCEPT !.saved = b] \in Operations
                                 /\ [o EXCEPT !.was = b] \in Operations
                                 /\ [o EXCEPT !.restart = b] \in Operations
                                 /\ [o EXCEPT !.unread = b] \in Operations
                                 /\ [o EXCEPT !.down = b] \in Operations
  BY DEF Operations

LEMMA Marked == ASSUME NEW f \in Folder, NEW m \in Marker \union {None} PROVE [f EXCEPT !.marker = m] \in Folder
  BY DEF Folder

(* A step of a copy keeps the types. *)
LEMMA CopyingKeepsTypes ==
    ASSUME BackupsTypeOK, OpInv, FolderInv, BackupStep
    PROVE  BackupsTypeOK'
  <1>1. op \in Operations /\ over \in Operations /\ Idle \in Operations
    <2>1. Idle \in Operations
      BY DEF Idle, Operations, Places
    <2>2. "asking" \in Places
      BY DEF Places, Restoring
    <2> QED BY <2>1, <2>2, StepsOn DEF over, BackupsTypeOK
  <1>2. op.at \notin {"idle", "swapping"} => live \in Folder /\ [live EXCEPT !.marker = None] \in Folder
    BY Marked DEF FolderInv, BackupsTypeOK
  <1>3. \A w \in Copying \union {"asking", "pruning", "pausing"} : [op EXCEPT !.at = w] \in Operations
    BY <1>1, StepsOn DEF Places, Restoring, FilePath
  <1> USE DEF BackupsTypeOK, Copying, boundVars, hostVars, at, goto
  <1>4. CASE mark
    <2>1. [restart |-> op.restart, n |-> op.n] \in Marker
      BY <1>1 DEF Marker, Operations
    <2>2. [live EXCEPT !.marker = [restart |-> op.restart, n |-> op.n]] \in Folder
      BY <1>2, <1>4, <2>1, Marked DEF mark
    <2> QED BY <1>3, <1>4, <2>2 DEF mark
  <1>5. CASE markFails
    BY <1>1, <1>5 DEF markFails, fileVars
  <1>6. CASE stopApp
    <2>1. Archive \in Copies
      BY <1>1, <1>2, <1>6 DEF stopApp, Archive, Copies, Folder, Operations
    <2>2. partials' \subseteq Copies /\ op' \in Operations
      BY <1>3, <1>6, <2>1 DEF stopApp, beginsArchive
    <2> QED BY <1>6, <2>2 DEF stopApp, goesDown, beginsArchive
  <1>7. CASE stopFails
    <2>1. live' \in Folder /\ op' \in Operations
      BY <1>1, <1>2, <1>7 DEF stopFails, fails
    <2> QED BY <1>7, <2>1 DEF stopFails, goesDown
  <1>8. CASE archived
    <2>1. \A p \in partials : [p EXCEPT !.whole = @ \/ p.n = op.n] \in Copies
      BY DEF Copies
    <2>2. partials' \subseteq Copies /\ op' \in Operations
      BY <1>3, <1>8, <2>1 DEF archived
    <2> QED BY <1>8, <2>2 DEF archived
  <1>9. CASE tarFails
    <2>1. live' \in Folder /\ op' \in Operations
      BY <1>1, <1>2, <1>9 DEF tarFails, fails
    <2> QED BY <1>9, <2>1 DEF tarFails, comesUp
  <1>10. CASE startAgain
    <2>1. op' \in Operations
      <3>1. [op EXCEPT !.at = "describing"] \in Operations
        BY <1>3
      <3>2. [op EXCEPT !.at = "describing", !.failed = TRUE] \in Operations
        BY <3>1, StepsOn
      <3> QED BY <1>10, <3>1, <3>2 DEF startAgain
    <2> QED BY <1>10, <2>1 DEF startAgain, comesUp, fileVars
  <1>11. CASE describe
    BY <1>1, <1>3, <1>11 DEF describe, Operations
  <1>12. CASE describeFails
    <2>1. live' \in Folder /\ op' \in Operations
      BY <1>1, <1>2, <1>12 DEF describeFails, fails
    <2> QED BY <1>12, <2>1 DEF describeFails
  <1>13. CASE takesName
    BY <1>3, <1>13 DEF takesName
  <1>14. CASE unmark
    <2>1. live' \in Folder /\ op' \in Operations
      BY <1>1, <1>2, <1>3, <1>14, StepsOn DEF unmark
    <2> QED BY <1>14, <2>1 DEF unmark
  <1>15. CASE prune
    <2>1. op' \in Operations
      BY <1>1, <1>3, <1>15 DEF prune
    <2>2. archives' \subseteq archives /\ metas' \subseteq metas /\ original' \subseteq original
      BY <1>15 DEF prune, remove
    <2> QED BY <1>15, <2>1, <2>2 DEF prune
  <1> QED BY <1>4, <1>5, <1>6, <1>7, <1>8, <1>9, <1>10, <1>11, <1>12, <1>13, <1>14, <1>15 DEF BackupStep

(* An operation that is asked for is an operation, its copy not begun. *)
LEMMA Looks ==
    ASSUME BackupsTypeOK, NEW o \in Operations, looks(o)
    PROVE  op' \in Operations /\ partials' \subseteq partials
  <1>1. PICK was \in BOOLEAN :
            op' = [o EXCEPT !.at = "marking", !.was = was, !.restart = restartAfter(was),
                            !.unread = ~was /\ (app = "up" \/ docker = "down")]
    BY DEF looks, containerStatus
  <1>2. restartAfter(was) \in BOOLEAN
    BY DEF restartAfter
  <1>3. [o EXCEPT !.at = "marking"] \in Operations
    BY StepsOn DEF Places, Copying
  <1>4. [o EXCEPT !.at = "marking", !.was = was] \in Operations
    BY <1>3, StepsOn
  <1>5. [o EXCEPT !.at = "marking", !.was = was, !.restart = restartAfter(was)] \in Operations
    BY <1>2, <1>4, StepsOn
  <1>6. op' \in Operations
    BY <1>1, <1>5, StepsOn
  <1> QED BY <1>6 DEF looks

(* The stop of a restore keeps the types. *)
LEMMA Pauses ==
    ASSUME BackupsTypeOK, NEW w \in Places, pauses(w)
    PROVE  op' \in Operations /\ app' \in {"up", "down"} /\ held' \in BOOLEAN /\ docker' = docker /\ helper' = helper
  <1>1. PICK was \in BOOLEAN : /\ op' = [op EXCEPT !.at = w, !.was = was, !.down = was]
                               /\ IF was THEN goesDown ELSE UNCHANGED hostVars
    BY DEF pauses, containerStatus
  <1>2. [op EXCEPT !.at = w, !.was = was] \in Operations
    <2>1. [op EXCEPT !.at = w] \in Operations
      BY StepsOn DEF BackupsTypeOK
    <2> QED BY <2>1, StepsOn
  <1>3. op' \in Operations
    BY <1>1, <1>2, StepsOn
  <1> QED BY <1>1, <1>3 DEF goesDown, hostVars, BackupsTypeOK

(* A step of a restore keeps the types. *)
LEMMA RestoringKeepsTypes ==
    ASSUME BackupsTypeOK, FolderInv, RestoreStep \/ PathStep
    PROVE  BackupsTypeOK'
  <1>1. op \in Operations /\ Idle \in Operations
    BY DEF Idle, Operations, Places, BackupsTypeOK
  <1>2. op.at \notin {"idle", "swapping"} => live \in Folder
    BY DEF FolderInv, BackupsTypeOK
  <1>3. \A w \in Restoring \union FilePath : w \in Places /\ [op EXCEPT !.at = w] \in Operations
    BY <1>1, StepsOn DEF Places
  <1>4. op.at \in {"swapping", "carrying", "upping", "settling"} => displaced \in Folder
    BY DEF FolderInv, BackupsTypeOK
  <1>5. \A f \in Folder, b \in BOOLEAN, d \in Nat : [f EXCEPT !.kept = b] \in Folder /\ [f EXCEPT !.data = d] \in Folder
    BY DEF Folder
  <1>6. \A f \in Folder : f.kept \in BOOLEAN /\ f.data \in Nat
    BY DEF Folder
  <1> USE DEF BackupsTypeOK, Restoring, FilePath, boundVars, hostVars, at, goto
  <1>7. CASE checksFail
    BY <1>1, <1>7 DEF checksFail, refused
  <1>8. CASE safetyCopy
    BY <1>1, <1>8, Looks DEF safetyCopy
  <1>9. CASE safetyRefused
    BY <1>3, <1>9 DEF safetyRefused, fileVars
  <1>10. CASE stopForRestore
    <2>1. /\ op' \in Operations /\ app' \in {"up", "down"} /\ held' \in BOOLEAN /\ docker' = docker /\ helper' = helper
      BY <1>3, <1>10, Pauses DEF stopForRestore
    <2> QED BY <1>10, <2>1 DEF stopForRestore, fileVars
  <1>11. CASE stopForRestoreFails
    BY <1>1, <1>11 DEF stopForRestoreFails, refused, goesDown
  <1>12. CASE displace
    <2>1. op' \in Operations
      BY <1>3, <1>12, StepsOn DEF displace
    <2> QED BY <1>12, <2>1 DEF displace
  <1>13. CASE swap
    BY <1>3, <1>13 DEF swap
  <1>14. CASE swapFails
    BY <1>1, <1>14 DEF swapFails
  <1>15. CASE carry
    <2>1. live' \in Folder /\ displaced' \in Folder
      BY <1>2, <1>4, <1>5, <1>6, <1>15 DEF carry
    <2> QED BY <1>3, <1>15, <2>1 DEF carry
  <1>16. CASE carryFails
    BY <1>1, <1>16 DEF carryFails, fileVars
  <1>17. CASE up
    BY <1>3, <1>17 DEF up, comesUp, fileVars
  <1>18. CASE upFails
    <2>0. live \in Folder /\ displaced \in Folder
      BY <1>2, <1>4, <1>18 DEF upFails
    <2>2. [live EXCEPT !.kept = FALSE] \in Folder /\ [displaced EXCEPT !.kept = live.kept] \in Folder
      BY <2>0, <1>5, <1>6
    <2>1. live' \in Folder /\ displaced' \in Folder
      BY <2>0, <2>2, <1>18 DEF upFails, putBack
    <2> QED BY <1>1, <1>18, <2>1 DEF upFails
  <1>19. CASE settle
    BY <1>1, <1>19 DEF settle, settled
  <1>20. CASE stopForPath
    <2>1. /\ op' \in Operations /\ app' \in {"up", "down"} /\ held' \in BOOLEAN /\ docker' = docker /\ helper' = helper
      BY <1>3, <1>20, Pauses DEF stopForPath
    <2> QED BY <1>20, <2>1 DEF stopForPath, fileVars
  <1>21. CASE place
    <2>0. live \in Folder /\ writes + 1 \in Nat
      BY <1>2, <1>21 DEF place
    <2>2. [live EXCEPT !.data = writes + 1] \in Folder
      BY <2>0, <1>5
    <2>1. live' \in Folder /\ writes' \in Nat /\ original' \subseteq Nat
      BY <2>0, <2>2, <1>21 DEF place
    <2> QED BY <1>3, <1>21, <2>1 DEF place
  <1>22. CASE pathDone
    BY <1>1, <1>22 DEF pathDone, comesUp, fileVars
  <1> QED BY <1>7, <1>8, <1>9, <1>10, <1>11, <1>12, <1>13, <1>14, <1>15, <1>16, <1>17, <1>18, <1>19, <1>20, <1>21, <1>22
      DEF RestoreStep, PathStep

LEMMA NewOp ==
    ASSUME BackupsTypeOK, NEW does \in {"backup", "restore", "path"}, NEW r \in Nat \union {None}
    PROVE  newOp(does, r) \in Operations
  <1>1. Idle \in Operations /\ ops + 1 \in Nat
    BY DEF Idle, Operations, Places, BackupsTypeOK
  <1>2. [Idle EXCEPT !.does = does] \in Operations
    BY <1>1 DEF Operations
  <1>3. [Idle EXCEPT !.does = does, !.n = ops + 1] \in Operations
    BY <1>1, <1>2 DEF Operations
  <1> QED BY <1>3 DEF Operations, newOp

(* And so does every step. *)
LEMMA TypeStep == ASSUME BackupsTypeOK, OpInv, FolderInv, [BackupsNext]_backupVars PROVE BackupsTypeOK'
  <1>1. op \in Operations /\ Idle \in Operations
    BY DEF Idle, Operations, Places, BackupsTypeOK
  <1>2. \A does \in {"backup", "restore", "path"}, a \in archives : newOp(does, a.n) \in Operations /\ newOp(does, None) \in Operations
    BY NewOp DEF BackupsTypeOK, Copies
  <1> USE DEF BackupsTypeOK, boundVars, hostVars, at, fileVars, lane, asks, byHand
  <1>3. CASE appWrites
    <2>1. live \in Folder /\ writes + 1 \in Nat
      BY <1>3 DEF appWrites
    <2>2. [live EXCEPT !.data = writes + 1] \in Folder
      BY <2>1 DEF Folder
    <2>3. \A p \in partials : [p EXCEPT !.torn = @ \/ p.n = op.n] \in Copies
      BY DEF Copies
    <2>4. partials' \subseteq Copies
      BY <1>3, <2>3 DEF appWrites, torn
    <2>5. original' \subseteq Nat
      BY <1>3, <2>1 DEF appWrites
    <2> QED BY <1>3, <2>1, <2>2, <2>4, <2>5 DEF appWrites
  <1>4. CASE helperDies
    BY <1>1, <1>4 DEF helperDies, crash
  <1>5. CASE powerCut
    BY <1>1, <1>5 DEF powerCut, crash
  <1>6. CASE dockerStarts
    BY <1>6 DEF dockerStarts
  <1>7. CASE backup
    <2>1. newOp("backup", None) \in Operations
      BY NewOp
    <2>2. op' \in Operations /\ partials' \subseteq partials
      BY <1>7, <2>1, Looks DEF backup
    <2> QED BY <1>7, <2>2 DEF backup
  <1>8. ASSUME NEW to \in {"up", "down"}, action(to) PROVE BackupsTypeOK'
    <2>1. /\ app' \in {"up", "down"} /\ held' \in BOOLEAN /\ docker' = docker /\ helper' = helper
          /\ told' \in {"no", "said", "unsaid"}
      BY <1>8 DEF action, comesUp, goesDown
    <2> QED BY <1>8, <2>1 DEF action
  <1>9. ASSUME NEW a \in archives, restoreAppBackup(a) PROVE BackupsTypeOK'
    <2>1. live \in Folder /\ live.data \in Nat /\ a.data \in Nat
      BY <1>9 DEF restoreAppBackup, Folder, Copies
    <2>2. staged' \in Folder /\ original' \subseteq Nat
      BY <1>9, <2>1 DEF restoreAppBackup, Folder
    <2>3. op' \in Operations
      BY <1>2, <1>9, StepsOn DEF restoreAppBackup, Places, Restoring
    <2> QED BY <1>9, <2>2, <2>3 DEF restoreAppBackup
  <1>10. ASSUME NEW a \in archives, restoreAppBackupPath(a) PROVE BackupsTypeOK'
    <2>1. op' \in Operations /\ partials' \subseteq partials
      BY <1>2, <1>10, Looks DEF restoreAppBackupPath
    <2> QED BY <1>10, <2>1 DEF restoreAppBackupPath
  <1>11. ASSUME NEW a \in archives, deleteAppBackup(a) PROVE BackupsTypeOK'
    <2>1. archives' \subseteq archives /\ metas' \subseteq metas /\ original' \subseteq original
      BY <1>11 DEF deleteAppBackup, remove
    <2> QED BY <1>11, <2>1 DEF deleteAppBackup
  <1>12. CASE helperStarts
    <2>1. resume' \in Marker \union {None}
      BY <1>12 DEF helperStarts, interruptedBackups, Folder
    <2> QED BY <1>12, <2>1 DEF helperStarts
  <1>13. CASE resumes
    <2>1. resume \in Marker => [Idle EXCEPT !.at = "resuming", !.restart = resume.restart] \in Operations
      BY DEF Idle, Operations, Places, Marker
    <2>2. op' \in Operations /\ partials' \subseteq partials
      BY <1>1, <1>13, <2>1 DEF resumes
    <2> QED BY <1>13, <2>2 DEF resumes
  <1>14. CASE resumed
    <2>1. live \in Folder
      BY <1>14 DEF resumed, FolderInv
    <2>2. live' \in Folder
      BY <1>14, <2>1, Marked DEF resumed
    <2> QED BY <1>1, <1>14, <2>2 DEF resumed, comesUp
  <1>15. CASE UNCHANGED backupVars
    BY <1>15 DEF backupVars
  <1> QED
    BY <1>3, <1>4, <1>5, <1>6, <1>7, <1>8, <1>9, <1>10, <1>11, <1>12, <1>13, <1>14, <1>15, CopyingKeepsTypes, RestoringKeepsTypes
    DEF BackupsNext, HelperStep
-----------------------------------------------------------------------------
(* What goes with an operation from step to step. *)

same(o) == op'.does = o.does /\ op'.n = o.n /\ op'.reads = o.reads
onward(o, w) == op'.at = w /\ same(o) /\ op'.saved = o.saved

LEMMA IdleIs == Idle.at = "idle" /\ Idle.n = 0 /\ Idle.saved = FALSE /\ Idle.does = None
  BY DEF Idle

LEMMA Goes ==
    ASSUME BackupsTypeOK, NEW w \in Places, goto(w)
    PROVE  onward(op, w) /\ op'.unread = op.unread /\ op'.was = op.was
  BY DEF goto, onward, same, BackupsTypeOK, Operations

LEMMA Over ==
    ASSUME BackupsTypeOK
    PROVE  IF op.does = "restore"
           THEN /\ over.at = "asking" /\ over.does = op.does /\ over.n = op.n /\ over.reads = op.reads
                /\ over.saved = op.saved
           ELSE over = Idle
  BY DEF over, BackupsTypeOK, Operations

LEMMA LooksOn ==
    ASSUME BackupsTypeOK, NEW o \in Operations, looks(o)
    PROVE  /\ onward(o, "marking")
           /\ op'.was \/ op'.unread \/ (app = "down" /\ docker = "up")
  <1>1. PICK was \in BOOLEAN :
            op' = [o EXCEPT !.at = "marking", !.was = was, !.restart = restartAfter(was),
                            !.unread = ~was /\ (app = "up" \/ docker = "down")]
    BY DEF looks, containerStatus
  <1>2. onward(o, "marking")
    BY <1>1 DEF onward, same, Operations
  <1>3. op'.was = was /\ op'.unread = (~was /\ (app = "up" \/ docker = "down"))
    BY <1>1 DEF Operations
  <1> QED BY <1>2, <1>3 DEF BackupsTypeOK

LEMMA PausesOn ==
    ASSUME BackupsTypeOK, NEW w \in Places, pauses(w)
    PROVE  onward(op, w)
  BY DEF pauses, onward, same, BackupsTypeOK, Operations

LEMMA NewOpIs ==
    ASSUME BackupsTypeOK, NEW does \in {"backup", "restore", "path"}, NEW r \in Nat \union {None}
    PROVE  /\ newOp(does, r).does = does /\ newOp(does, r).n = ops + 1 /\ newOp(does, r).reads = r
           /\ newOp(does, r).saved = FALSE
  BY DEF newOp, Idle

LEMMA PlaceNames == Copying \subseteq Places /\ Restoring \subseteq Places /\ FilePath \subseteq Places /\ "pruning" \in Places
  BY DEF Places

(* Every operation keeps to its own steps. *)
LEMMA OpStep == ASSUME BackupsTypeOK, OpInv, [BackupsNext]_backupVars PROVE OpInv'
  <1>1. op \in Operations
    BY DEF BackupsTypeOK
  <1>2. ASSUME op' = op PROVE OpInv'
    BY <1>2 DEF OpInv, Copying, Restoring, FilePath
  <1>3. ASSUME op' = Idle \/ op' = over PROVE OpInv'
    BY <1>3, IdleIs, Over DEF OpInv, Copying, Restoring, FilePath
  <1>4. ASSUME NEW does \in {"backup", "restore", "path"}, NEW r \in Nat \union {None}, looks(newOp(does, r)) PROVE OpInv'
    <2>1. op'.at = "marking" /\ op'.does = does
      <3>1. newOp(does, r) \in Operations /\ newOp(does, r).does = does
        BY NewOp, NewOpIs
      <3>2. onward(newOp(does, r), "marking")
        BY <1>4, <3>1, LooksOn
      <3> QED BY <3>1, <3>2 DEF onward, same
    <2> QED BY <2>1 DEF OpInv, Copying, Restoring, FilePath
  <1>5. ASSUME NEW w \in Copying \union Restoring \union FilePath, goto(w) PROVE onward(op, w)
    BY <1>5, Goes, PlaceNames
  <1>6. CASE mark \/ stopApp \/ archived \/ describe \/ takesName
    BY <1>5, <1>6 DEF mark, stopApp, archived, describe, takesName, OpInv, onward, same, at, Copying, Restoring, FilePath
  <1>7. CASE markFails \/ stopFails \/ tarFails \/ describeFails
    BY <1>3, <1>7 DEF markFails, stopFails, tarFails, describeFails, fails
  <1>8. CASE startAgain
    BY <1>1, <1>8 DEF startAgain, goto, at, OpInv, Operations, Copying, Restoring, FilePath
  <1>9. CASE unmark
    <2>1. op' = over \/ op' = [op EXCEPT !.at = IF op.does = "restore" THEN "asking" ELSE "pruning", !.saved = TRUE]
      BY <1>9 DEF unmark
    <2> QED BY <1>1, <1>3, <1>9, <2>1 DEF unmark, at, OpInv, Operations, Copying, Restoring, FilePath
  <1>10. CASE prune
    BY <1>1, <1>3, <1>10 DEF prune, at, OpInv, Operations, Copying, Restoring, FilePath
  <1>11. CASE safetyCopy
    BY <1>1, <1>11, LooksOn DEF safetyCopy, at, OpInv, onward, same, Copying, Restoring, FilePath
  <1>12. CASE stopForRestore \/ stopForPath
    BY <1>12, PausesOn, PlaceNames DEF stopForRestore, stopForPath, at, OpInv, onward, same, Copying, Restoring, FilePath
  <1>13. CASE displace
    BY <1>1, <1>13 DEF displace, at, OpInv, Operations, Copying, Restoring, FilePath
  <1>14. CASE safetyRefused \/ swap \/ carry \/ up \/ place
    BY <1>5, <1>14 DEF safetyRefused, swap, carry, up, place, OpInv, onward, same, at, Copying, Restoring, FilePath
  <1>15. CASE checksFail \/ stopForRestoreFails \/ swapFails \/ carryFails \/ upFails \/ settle \/ pathDone \/ resumed
    BY <1>3, <1>15 DEF checksFail, stopForRestoreFails, refused, swapFails, carryFails, upFails, settle, pathDone, resumed
  <1>16. CASE helperDies \/ powerCut
    BY <1>3, <1>16 DEF helperDies, powerCut, crash
  <1>17. CASE appWrites \/ dockerStarts \/ helperStarts \/ UNCHANGED backupVars
    BY <1>2, <1>17 DEF appWrites, dockerStarts, helperStarts, backupVars
  <1>18. ASSUME NEW to \in {"up", "down"}, action(to) PROVE OpInv'
    BY <1>2, <1>18 DEF action
  <1>19. CASE backup
    BY <1>4, <1>19 DEF backup
  <1>20. ASSUME NEW a \in archives, restoreAppBackupPath(a) \/ deleteAppBackup(a) PROVE OpInv'
    BY <1>2, <1>4, <1>20 DEF restoreAppBackupPath, deleteAppBackup, BackupsTypeOK, Copies
  <1>21. ASSUME NEW a \in archives, restoreAppBackup(a) PROVE OpInv'
    <2>1. newOp("restore", a.n) \in Operations /\ newOp("restore", a.n).does = "restore"
      BY NewOp, NewOpIs DEF BackupsTypeOK, Copies
    <2>2. op'.at = "checking" /\ op'.does = "restore"
      BY <1>21, <2>1 DEF restoreAppBackup, Operations
    <2> QED BY <2>2 DEF OpInv, Copying, Restoring, FilePath
  <1>22. CASE resumes
    <2>1. op' = op \/ op'.at = "resuming"
      BY <1>22 DEF resumes, Idle
    <2> QED BY <1>2, <2>1 DEF OpInv, Copying, Restoring, FilePath
  <1> QED
    BY <1>6, <1>7, <1>8, <1>9, <1>10, <1>11, <1>12, <1>13, <1>14, <1>15, <1>16, <1>17, <1>18, <1>19, <1>20, <1>21, <1>22
    DEF BackupsNext, HelperStep, BackupStep, RestoreStep, PathStep
-----------------------------------------------------------------------------
(* Every copy has its number, its operation's.                             *)

Uncopied == {"checking", "marking", "stopping"}

LEMMA FewerCopies ==
    ASSUME NumberInv, ops' = ops, archives' \subseteq archives, partials' \subseteq partials, op'.n =< ops,
           op'.at \in Uncopied => op.at \in Uncopied /\ op'.n = op.n
    PROVE  NumberInv'
  BY DEF NumberInv, Uncopied

LEMMA NewNumber ==
    ASSUME BackupsTypeOK, NumberInv, ops' = ops + 1, archives' = archives, partials' \subseteq partials, op'.n = ops + 1
    PROVE  NumberInv'
  <1>1. \A a \in archives \union partials : a.n \in Nat /\ a.n =< ops
    BY DEF NumberInv, BackupsTypeOK, Copies
  <1>2. \A a \in archives' \union partials' : a.n =< ops' /\ a.n # op'.n
    BY <1>1 DEF BackupsTypeOK
  <1> QED BY <1>2 DEF NumberInv, BackupsTypeOK

(* Copies that change but for their numbers. *)
LEMMA SameNumbers ==
    ASSUME NumberInv, ops' = ops, archives' = archives, op'.n = op.n, op'.at \in Uncopied => op.at \in Uncopied,
           \A q \in partials' : \E p \in partials : q.n = p.n,
           \A a, b \in partials' : a.n = b.n => a = b
    PROVE  NumberInv'
  BY DEF NumberInv, Uncopied

(* No step gives two copies one number. *)
LEMMA NumberStep == ASSUME BackupsTypeOK, OpInv, NumberInv, [BackupsNext]_backupVars PROVE NumberInv'
  <1>1. op \in Operations /\ op.n \in Nat /\ op.n =< ops /\ Idle.n =< ops /\ Idle.at \notin Uncopied
    BY IdleIs DEF BackupsTypeOK, Operations, NumberInv, Uncopied
  <1>2. over.n =< ops /\ over.at \notin Uncopied
    BY <1>1, Over DEF Uncopied
  <1>3. ASSUME ops' = ops, archives' \subseteq archives, partials' \subseteq partials,
               \/ op' = op
               \/ op' = Idle \/ op' = over
               \/ op'.n = op.n /\ (op'.at \in Uncopied => op.at \in Uncopied)
        PROVE  NumberInv'
    BY <1>1, <1>2, <1>3, FewerCopies
  <1>4. ASSUME NEW does \in {"backup", "restore", "path"}, NEW r \in Nat \union {None}, looks(newOp(does, r))
        PROVE  op'.n = ops + 1 /\ partials' \subseteq partials
    <2>1. newOp(does, r) \in Operations /\ newOp(does, r).n = ops + 1
      BY NewOp, NewOpIs
    <2>2. onward(newOp(does, r), "marking") /\ partials' \subseteq partials
      BY <1>4, <2>1, LooksOn, Looks
    <2> QED BY <2>1, <2>2 DEF onward, same
  <1>5. ASSUME NEW w \in Copying \union Restoring \union FilePath, goto(w) PROVE op'.at = w /\ op'.n = op.n
    BY <1>5, Goes, PlaceNames DEF onward, same
  <1> USE DEF boundVars, fileVars, at
  <1>6. CASE mark \/ describe \/ safetyRefused \/ swap \/ carry \/ up \/ place
    BY <1>3, <1>5, <1>6 DEF mark, describe, safetyRefused, swap, carry, up, place, Copying, Restoring, FilePath, Uncopied
  <1>7. CASE markFails \/ stopFails \/ tarFails \/ describeFails
    BY <1>3, <1>7 DEF markFails, stopFails, tarFails, describeFails, fails
  <1>8. CASE startAgain \/ displace
    BY <1>1, <1>3, <1>8 DEF startAgain, displace, goto, Operations, Uncopied
  <1>9. CASE unmark
    <2>1. op' = over \/ op' = [op EXCEPT !.at = IF op.does = "restore" THEN "asking" ELSE "pruning", !.saved = TRUE]
      BY <1>9 DEF unmark
    <2>2. op' = over \/ (op'.n = op.n /\ op'.at \notin Uncopied)
      BY <1>1, <2>1 DEF Operations, Uncopied
    <2> QED BY <1>3, <1>9, <2>2 DEF unmark
  <1>10. CASE prune
    <2>1. op' = Idle \/ (op'.n = op.n /\ op'.at = "pausing")
      BY <1>1, <1>10 DEF prune, Operations
    <2> QED BY <1>3, <1>10, <2>1 DEF prune, remove, Uncopied
  <1>11. CASE safetyCopy
    <2>1. op'.n = op.n /\ op'.at = "marking" /\ partials' \subseteq partials
      BY <1>1, <1>11, LooksOn, Looks DEF safetyCopy, onward, same
    <2> QED BY <1>3, <1>11, <2>1 DEF safetyCopy, Uncopied
  <1>12. CASE stopForRestore \/ stopForPath
    <2>1. op'.n = op.n /\ op'.at \notin Uncopied
      BY <1>12, PausesOn, PlaceNames DEF stopForRestore, stopForPath, onward, same, Restoring, FilePath, Uncopied
    <2> QED BY <1>3, <1>12, <2>1 DEF stopForRestore, stopForPath
  <1>13. CASE checksFail \/ stopForRestoreFails \/ swapFails \/ carryFails \/ upFails \/ settle \/ pathDone \/ resumed
    BY <1>3, <1>13 DEF checksFail, stopForRestoreFails, refused, swapFails, carryFails, upFails, settle, pathDone, resumed
  <1>14. CASE helperDies \/ powerCut \/ dockerStarts \/ helperStarts \/ UNCHANGED backupVars
    BY <1>3, <1>14 DEF helperDies, powerCut, crash, dockerStarts, helperStarts, backupVars
  <1>15. ASSUME NEW to \in {"up", "down"}, action(to) PROVE NumberInv'
    BY <1>3, <1>15 DEF action, byHand
  <1>16. CASE resumes
    <2>1. op' = op \/ (op'.at = "resuming" /\ op'.n = 0)
      BY <1>16 DEF resumes, Idle
    <2> QED BY <1>1, <1>3, <1>16, <2>1, FewerCopies DEF resumes, Uncopied, BackupsTypeOK
  <1>17. CASE backup
    BY <1>4, <1>17, NewNumber DEF backup, asks
  <1>18. ASSUME NEW a \in archives, restoreAppBackupPath(a) PROVE NumberInv'
    BY <1>4, <1>18, NewNumber DEF restoreAppBackupPath, asks, BackupsTypeOK, Copies
  <1>19. ASSUME NEW a \in archives, deleteAppBackup(a) PROVE NumberInv'
    BY <1>3, <1>19 DEF deleteAppBackup, remove, byHand
  <1>20. ASSUME NEW a \in archives, restoreAppBackup(a) PROVE NumberInv'
    <2>1. newOp("restore", a.n) \in Operations /\ newOp("restore", a.n).n = ops + 1
      BY NewOp, NewOpIs DEF BackupsTypeOK, Copies
    <2>2. op'.n = ops + 1
      BY <1>20, <2>1 DEF restoreAppBackup, Operations
    <2> QED BY <1>20, <2>2, NewNumber DEF restoreAppBackup, asks
  <1>21. CASE appWrites
    <2>1. CASE op.at = "archiving"
      <3>1. partials' = {[p EXCEPT !.torn = @ \/ p.n = op.n] : p \in partials}
        BY <1>21, <2>1 DEF appWrites, torn
      <3>2. \A p \in partials : [p EXCEPT !.torn = @ \/ p.n = op.n].n = p.n
        BY DEF BackupsTypeOK, Copies
      <3>3. \A q \in partials' : \E p \in partials : q.n = p.n
        BY <3>1, <3>2
      <3>4. \A a, b \in partials' : a.n = b.n => a = b
        <4>1. SUFFICES ASSUME NEW a \in partials', NEW b \in partials', a.n = b.n PROVE a = b
          OBVIOUS
        <4>2. PICK p \in partials, q \in partials : a = [p EXCEPT !.torn = p.torn \/ p.n = op.n] /\ b = [q EXCEPT !.torn = q.torn \/ q.n = op.n]
          BY <3>1, <3>2
        <4>3. p.n = q.n
          BY <3>1, <3>2, <4>1, <4>2
        <4>4. p = q
          BY <4>3 DEF NumberInv
        <4> QED BY <4>2, <4>4
      <3> QED BY <1>21, <3>3, <3>4, SameNumbers DEF appWrites
    <2>2. CASE op.at # "archiving"
      BY <1>3, <1>21, <2>2 DEF appWrites, torn
    <2> QED BY <2>1, <2>2
  <1>22. CASE archived
    <2>1. partials' = {[p EXCEPT !.whole = @ \/ p.n = op.n] : p \in partials}
      BY <1>22 DEF archived
    <2>2. \A p \in partials : [p EXCEPT !.whole = @ \/ p.n = op.n].n = p.n
      BY DEF BackupsTypeOK, Copies
    <2>3. \A q \in partials' : \E p \in partials : q.n = p.n
      BY <2>1, <2>2
    <2>4. \A a, b \in partials' : a.n = b.n => a = b
      <3>1. SUFFICES ASSUME NEW a \in partials', NEW b \in partials', a.n = b.n PROVE a = b
        OBVIOUS
      <3>2. PICK p \in partials, q \in partials : a = [p EXCEPT !.whole = p.whole \/ p.n = op.n] /\ b = [q EXCEPT !.whole = q.whole \/ q.n = op.n]
        BY <2>1, <2>2
      <3>3. p.n = q.n
        BY <2>1, <2>2, <3>1, <3>2
      <3>4. p = q
        BY <3>3 DEF NumberInv
      <3> QED BY <3>2, <3>4
    <2>5. op'.n = op.n /\ op'.at = "starting"
      BY <1>5, <1>22 DEF archived, Copying
    <2> QED BY <1>22, <2>3, <2>4, <2>5, SameNumbers DEF archived, Uncopied
  <1>23. CASE stopApp
    <2>1. op'.n = op.n /\ op'.at = "archiving"
      BY <1>5, <1>23 DEF stopApp, Copying
    <2>2. op.at \in Uncopied /\ \A a \in archives \union partials : a.n # op.n
      BY <1>23 DEF stopApp, NumberInv, Uncopied
    <2>3. Archive.n = op.n
      BY DEF Archive
    <2> QED BY <1>1, <1>23, <2>1, <2>2, <2>3 DEF stopApp, beginsArchive, NumberInv
  <1>24. CASE takesName
    <2>1. op'.n = op.n /\ op'.at = "unmarking"
      BY <1>5, <1>24 DEF takesName, Copying
    <2>2. partials' = {p \in partials : p.n # op.n} /\ archives' = archives \union {p \in partials : p.n = op.n} /\ ops' = ops
      BY <1>24 DEF takesName
    <2> QED BY <1>1, <2>1, <2>2 DEF NumberInv
  <1> QED
    BY <1>6, <1>7, <1>8, <1>9, <1>10, <1>11, <1>12, <1>13, <1>14, <1>15, <1>16, <1>17, <1>18, <1>19, <1>20, <1>21, <1>22,
       <1>23, <1>24
    DEF BackupsNext, HelperStep, BackupStep, RestoreStep, PathStep
-----------------------------------------------------------------------------
(* What is copied is not written to, unless Docker was not there to say    *)
(* whether the app ran.                                                    *)
LEMMA QuietStep == ASSUME BackupsTypeOK, OpInv, QuietInv, [BackupsNext]_backupVars PROVE QuietInv'
  <1> DEFINE Watched == {"marking", "stopping", "archiving"}
  <1>1. op \in Operations /\ Idle.at \notin Watched /\ over.at \notin Watched
    BY IdleIs, Over DEF BackupsTypeOK
  <1>2. ASSUME op' = op, (app' = app /\ docker' = docker) \/ docker = "down" PROVE QuietInv'
    BY <1>2 DEF QuietInv
  <1>3. ASSUME op'.at \notin Watched PROVE QuietInv'
    BY <1>3 DEF QuietInv
  <1>4. ASSUME NEW o \in Operations, looks(o), UNCHANGED hostVars PROVE QuietInv'
    <2>1. op'.at = "marking" /\ (op'.was \/ op'.unread \/ (app = "down" /\ docker = "up"))
      BY <1>4, LooksOn DEF onward
    <2> QED BY <1>4, <2>1 DEF QuietInv, hostVars
  <1>5. ASSUME NEW w \in Copying \union Restoring \union FilePath, goto(w)
        PROVE  op'.at = w /\ op'.unread = op.unread /\ op'.was = op.was
    BY <1>5, Goes, PlaceNames DEF onward
  <1> USE DEF hostVars, at
  <1>6. CASE archived \/ describe \/ takesName \/ safetyRefused \/ swap \/ carry \/ up \/ place
    BY <1>3, <1>5, <1>6 DEF archived, describe, takesName, safetyRefused, swap, carry, up, place, Copying, Restoring, FilePath
  <1>7. CASE markFails \/ stopFails \/ tarFails \/ describeFails
    BY <1>1, <1>3, <1>7 DEF markFails, stopFails, tarFails, describeFails, fails
  <1>8. CASE startAgain \/ displace
    BY <1>1, <1>3, <1>8 DEF startAgain, displace, goto, Operations
  <1>9. CASE unmark \/ prune
    <2>1. op' = over \/ op' = Idle \/ op'.at \in {"asking", "pruning", "pausing"}
      BY <1>1, <1>9 DEF unmark, prune, Operations
    <2> QED BY <1>1, <1>3, <2>1
  <1>10. CASE safetyCopy
    BY <1>1, <1>4, <1>10 DEF safetyCopy
  <1>11. CASE stopForRestore \/ stopForPath
    BY <1>3, <1>11, PausesOn, PlaceNames DEF stopForRestore, stopForPath, onward, Restoring, FilePath
  <1>12. CASE checksFail \/ stopForRestoreFails \/ swapFails \/ carryFails \/ upFails \/ settle \/ pathDone \/ resumed
    BY <1>1, <1>3, <1>12 DEF checksFail, stopForRestoreFails, refused, swapFails, carryFails, upFails, settle, pathDone, resumed
  <1>13. CASE helperDies \/ powerCut
    BY <1>1, <1>3, <1>13 DEF helperDies, powerCut, crash
  <1>14. CASE appWrites \/ dockerStarts \/ helperStarts \/ UNCHANGED backupVars
    BY <1>2, <1>14 DEF appWrites, dockerStarts, helperStarts, backupVars
  <1>15. ASSUME NEW to \in {"up", "down"}, action(to) PROVE QuietInv'
    BY <1>1, <1>3, <1>15 DEF action, byHand, lane
  <1>16. CASE resumes
    <2>1. op' = op \/ op'.at = "resuming"
      BY <1>16 DEF resumes, Idle
    <2> QED BY <1>2, <1>3, <1>16, <2>1 DEF resumes
  <1>17. CASE backup
    <2>1. newOp("backup", None) \in Operations
      BY NewOp
    <2> QED BY <1>4, <1>17, <2>1 DEF backup
  <1>18. ASSUME NEW a \in archives, restoreAppBackupPath(a) \/ deleteAppBackup(a) PROVE QuietInv'
    <2>1. newOp("path", a.n) \in Operations
      BY NewOp DEF BackupsTypeOK, Copies
    <2> QED BY <1>2, <1>4, <1>18, <2>1 DEF restoreAppBackupPath, deleteAppBackup
  <1>19. ASSUME NEW a \in archives, restoreAppBackup(a) PROVE QuietInv'
    <2>1. newOp("restore", a.n) \in Operations
      BY NewOp DEF BackupsTypeOK, Copies
    <2> QED BY <1>3, <1>19, <2>1 DEF restoreAppBackup, Operations
  <1>20. CASE mark
    <2>1. op'.at = "stopping" /\ op'.unread = op.unread /\ op'.was = op.was /\ op.at = "marking"
      BY <1>5, <1>20 DEF mark, Copying
    <2> QED BY <1>20, <2>1 DEF mark, QuietInv
  <1>21. CASE stopApp
    <2>1. op'.at = "archiving" /\ op'.unread = op.unread /\ op'.was = op.was /\ op.at = "stopping"
      BY <1>5, <1>21 DEF stopApp, Copying
    <2> QED BY <1>21, <2>1 DEF stopApp, mustStop, goesDown, QuietInv
  <1> QED
    BY <1>6, <1>7, <1>8, <1>9, <1>10, <1>11, <1>12, <1>13, <1>14, <1>15, <1>16, <1>17, <1>18, <1>19, <1>20, <1>21
    DEF BackupsNext, HelperStep, BackupStep, RestoreStep, PathStep
-----------------------------------------------------------------------------
(* What is listed is sound.                                                *)

Copied == {"archiving", "starting", "describing", "naming"}

LEMMA SameCopies ==
    ASSUME CopyInv, archives' = archives, metas' = metas, partials' \subseteq partials,
           op' = op \/ op'.at \notin Copied
    PROVE  CopyInv'
  BY DEF CopyInv, ListedIsSound, Copied

LEMMA RemovedCopies ==
    ASSUME CopyInv, NumberInv, NEW gone \in SUBSET archives, remove(gone), partials' = partials, op'.at \notin Copied
    PROVE  CopyInv'
  <1>1. \A a \in archives' : a \in archives /\ a.n \in metas'
    BY DEF CopyInv, ListedIsSound, NumberInv, remove
  <1> QED BY <1>1 DEF CopyInv, ListedIsSound, Copied

LEMMA CopyStep == ASSUME BackupsTypeOK, OpInv, NumberInv, QuietInv, CopyInv, [BackupsNext]_backupVars PROVE CopyInv'
  <1>1. op \in Operations /\ Idle.at \notin Copied /\ over.at \notin Copied
    BY IdleIs, Over DEF BackupsTypeOK, Copied
  <1>2. ASSUME archives' = archives, metas' = metas, partials' \subseteq partials,
               op' = op \/ op' = over \/ op' = Idle \/ op'.at \notin Copied
        PROVE  CopyInv'
    BY <1>1, <1>2, SameCopies
  <1>3. ASSUME NEW o \in Operations, looks(o) PROVE op'.at \notin Copied /\ partials' \subseteq partials
    BY <1>3, LooksOn, Looks DEF onward, Copied
  <1>4. ASSUME NEW w \in Copying \union Restoring \union FilePath, goto(w)
        PROVE  op'.at = w /\ op'.unread = op.unread /\ op'.n = op.n
    BY <1>4, Goes, PlaceNames DEF onward, same
  <1> USE DEF at, fileVars
  <1>5. CASE mark \/ safetyRefused \/ swap \/ carry \/ up \/ place
    BY <1>2, <1>4, <1>5 DEF mark, safetyRefused, swap, carry, up, place, Copying, Restoring, FilePath, Copied
  <1>6. CASE markFails \/ stopFails \/ tarFails \/ describeFails
    BY <1>2, <1>6 DEF markFails, stopFails, tarFails, describeFails, fails
  <1>7. CASE displace
    BY <1>1, <1>2, <1>7 DEF displace, Operations, Copied
  <1>8. CASE unmark
    <2>1. op' = over \/ op'.at \in {"asking", "pruning"}
      BY <1>1, <1>8 DEF unmark, Operations
    <2> QED BY <1>2, <1>8, <2>1 DEF unmark, Copied
  <1>9. CASE prune
    <2>1. op' = Idle \/ op'.at = "pausing"
      BY <1>1, <1>9 DEF prune, Operations
    <2>2. op'.at \notin Copied /\ behind \subseteq archives
      BY <1>1, <2>1 DEF Copied, behind
    <2> QED BY <1>9, <2>2, RemovedCopies DEF prune
  <1>10. CASE safetyCopy
    BY <1>1, <1>2, <1>3, <1>10 DEF safetyCopy
  <1>11. CASE stopForRestore \/ stopForPath
    <2>1. op'.at \notin Copied
      BY <1>11, PausesOn, PlaceNames DEF stopForRestore, stopForPath, onward, Restoring, FilePath, Copied
    <2> QED BY <1>2, <1>11, <2>1 DEF stopForRestore, stopForPath
  <1>12. CASE checksFail \/ stopForRestoreFails \/ swapFails \/ carryFails \/ upFails \/ settle \/ pathDone \/ resumed
    BY <1>2, <1>12 DEF checksFail, stopForRestoreFails, refused, swapFails, carryFails, upFails, settle, pathDone, resumed
  <1>13. CASE helperDies \/ powerCut \/ dockerStarts \/ helperStarts \/ UNCHANGED backupVars
    BY <1>2, <1>13 DEF helperDies, powerCut, crash, dockerStarts, helperStarts, backupVars
  <1>14. ASSUME NEW to \in {"up", "down"}, action(to) PROVE CopyInv'
    BY <1>2, <1>14 DEF action
  <1>15. CASE resumes
    <2>1. op' = op \/ op'.at = "resuming"
      BY <1>15 DEF resumes, Idle
    <2> QED BY <1>2, <1>15, <2>1 DEF resumes, Copied
  <1>16. CASE backup
    <2>1. newOp("backup", None) \in Operations
      BY NewOp
    <2> QED BY <1>2, <1>3, <1>16, <2>1 DEF backup
  <1>17. ASSUME NEW a \in archives, restoreAppBackupPath(a) PROVE CopyInv'
    <2>1. newOp("path", a.n) \in Operations
      BY NewOp DEF BackupsTypeOK, Copies
    <2> QED BY <1>2, <1>3, <1>17, <2>1 DEF restoreAppBackupPath
  <1>18. ASSUME NEW a \in archives, deleteAppBackup(a) PROVE CopyInv'
    BY <1>1, <1>18, RemovedCopies DEF deleteAppBackup, byHand, lane
  <1>19. ASSUME NEW a \in archives, restoreAppBackup(a) PROVE CopyInv'
    <2>1. newOp("restore", a.n) \in Operations
      BY NewOp DEF BackupsTypeOK, Copies
    <2>2. op'.at = "checking"
      BY <1>19, <2>1 DEF restoreAppBackup, Operations
    <2> QED BY <1>2, <1>19, <2>2 DEF restoreAppBackup, Copied
  <1>20. CASE appWrites
    <2>1. CASE op.at = "archiving"
      <3>1. partials' = {[p EXCEPT !.torn = @ \/ p.n = op.n] : p \in partials}
        BY <1>20, <2>1 DEF appWrites, torn
      <3>2. op.unread
        BY <1>20, <2>1 DEF appWrites, QuietInv
      <3>3. ASSUME NEW p \in partials
            PROVE  LET q == [p EXCEPT !.torn = @ \/ p.n = op.n]
                   IN /\ q.n = p.n /\ q.whole = p.whole /\ q.unread = p.unread
                      /\ q.torn => p.torn \/ p.n = op.n
        BY DEF BackupsTypeOK, Copies
      <3>4. ASSUME NEW q \in partials'
            PROVE  (q.torn => q.unread) /\ (q.n = op.n => q.unread = op.unread)
        BY <2>1, <3>1, <3>2, <3>3 DEF CopyInv
      <3> QED BY <1>20, <2>1, <3>4 DEF appWrites, CopyInv, ListedIsSound
    <2>2. CASE op.at # "archiving"
      BY <1>2, <1>20, <2>2 DEF appWrites, torn
    <2> QED BY <2>1, <2>2
  <1>21. CASE archived
    <2>1. partials' = {[p EXCEPT !.whole = @ \/ p.n = op.n] : p \in partials}
      BY <1>21 DEF archived
    <2>2. ASSUME NEW p \in partials
          PROVE  LET q == [p EXCEPT !.whole = @ \/ p.n = op.n]
                 IN /\ q.n = p.n /\ q.torn = p.torn /\ q.unread = p.unread
                    /\ p.n = op.n => q.whole
      BY DEF BackupsTypeOK, Copies
    <2>3. ASSUME NEW q \in partials' PROVE (q.torn => q.unread) /\ (q.n = op.n => q.whole)
      <3>1. PICK p \in partials : q = [p EXCEPT !.whole = p.whole \/ p.n = op.n]
        BY <2>1
      <3>2. p.torn => p.unread
        BY DEF CopyInv
      <3> QED BY <2>2, <3>1, <3>2
    <2>4. op'.n = op.n /\ op'.at = "starting"
      BY <1>4, <1>21 DEF archived, Copying
    <2> QED BY <1>21, <2>3, <2>4 DEF archived, CopyInv, ListedIsSound
  <1>22. CASE stopApp
    <2>1. op'.n = op.n /\ op'.unread = op.unread /\ op'.at = "archiving"
      BY <1>4, <1>22 DEF stopApp, Copying
    <2>2. \A a \in partials : a.n # op.n
      BY <1>22 DEF stopApp, NumberInv
    <2>3. Archive.n = op.n /\ ~Archive.torn /\ Archive.unread = op.unread
      BY DEF Archive
    <2> QED BY <1>22, <2>1, <2>2, <2>3 DEF stopApp, beginsArchive, CopyInv, ListedIsSound
  <1>23. CASE startAgain
    <2>1. op'.n = op.n /\ op'.at = "describing"
      BY <1>1, <1>23 DEF startAgain, goto, Operations
    <2> QED BY <1>23, <2>1 DEF startAgain, CopyInv, ListedIsSound
  <1>24. CASE describe
    <2>1. op'.n = op.n /\ op'.at = "naming"
      BY <1>4, <1>24 DEF describe, Copying
    <2> QED BY <1>24, <2>1 DEF describe, CopyInv, ListedIsSound
  <1>25. CASE takesName
    <2>1. op'.at = "unmarking"
      BY <1>4, <1>25 DEF takesName, Copying
    <2> QED BY <1>25, <2>1 DEF takesName, CopyInv, ListedIsSound
  <1> QED
    BY <1>5, <1>6, <1>7, <1>8, <1>9, <1>10, <1>11, <1>12, <1>13, <1>14, <1>15, <1>16, <1>17, <1>18, <1>19, <1>20, <1>21, <1>22,
       <1>23, <1>24, <1>25
    DEF BackupsNext, HelperStep, BackupStep, RestoreStep, PathStep
-----------------------------------------------------------------------------
(* What the steps of a copy do to the folders and to their operation.      *)

SameFolders ==
    /\ live # None <=> live' # None
    /\ live'.data = live.data /\ live'.kept = live.kept
    /\ displaced' = displaced /\ staged' = staged

LEMMA MarkerOnly ==
    ASSUME BackupsTypeOK, live # None, NEW m \in Marker \union {None}, live' = [live EXCEPT !.marker = m]
    PROVE  live' # None /\ live'.data = live.data /\ live'.kept = live.kept
  <1>1. live \in Folder
    BY DEF BackupsTypeOK
  <1>2. live' \in Folder
    BY <1>1, Marked
  <1> QED BY <1>1, <1>2, NoneAssumption DEF Folder

LEMMA CopyingFolders == ASSUME BackupsTypeOK, FolderInv, BackupStep PROVE live # None /\ SameFolders
  <1>1. op.at \in Copying \union {"pruning"}
    BY DEF BackupStep, mark, markFails, stopApp, stopFails, archived, tarFails, startAgain, describe, describeFails, takesName,
           unmark, prune, at, Copying
  <1>2. live # None
    BY <1>1 DEF FolderInv, Copying
  <1>3. displaced' = displaced /\ staged' = staged
    BY DEF BackupStep, mark, markFails, stopApp, stopFails, archived, tarFails, startAgain, describe, describeFails, takesName,
           unmark, prune, fileVars
  <1>4. [restart |-> op.restart, n |-> op.n] \in Marker
    BY DEF BackupsTypeOK, Operations, Marker
  <1>5. \/ live' = live
        \/ \E m \in Marker \union {None} : live' = [live EXCEPT !.marker = m]
    BY <1>4 DEF BackupStep, mark, markFails, stopApp, stopFails, archived, tarFails, startAgain, describe, describeFails, takesName,
           unmark, prune, fileVars, fails
  <1> QED BY <1>2, <1>3, <1>5, MarkerOnly DEF SameFolders

(* The archive is kept; the copy goes on, or the restore it is made for,   *)
(* or it is over.                                                          *)
CopyGoesOn ==
    /\ op.at \in Copying \union {"pruning"}
    /\ \/ op' = Idle
       \/ /\ same(op) /\ op'.at \in Copying \union {"asking", "pruning", "pausing"}
          /\ op'.at = "asking" => op.does = "restore"
          /\ op'.at \in {"pruning", "pausing"} => op.does # "restore"
          /\ op'.saved => op.saved \/ op.at = "unmarking"

LEMMA CopyingOperation == ASSUME BackupsTypeOK, OpInv, BackupStep PROVE CopyGoesOn
  <1>1. op \in Operations
    BY DEF BackupsTypeOK
  <1>2. ASSUME op.at \in Copying, op' = over PROVE CopyGoesOn
    BY <1>2, Over DEF CopyGoesOn, same, Copying
  <1>3. ASSUME NEW w \in Copying, op.at \in Copying, goto(w) PROVE CopyGoesOn
    BY <1>3, Goes, PlaceNames DEF CopyGoesOn, onward, same, Copying
  <1>4. CASE mark \/ stopApp \/ archived \/ describe \/ takesName
    BY <1>3, <1>4 DEF mark, stopApp, archived, describe, takesName, at, Copying
  <1>5. CASE markFails \/ stopFails \/ tarFails \/ describeFails
    BY <1>2, <1>5 DEF markFails, stopFails, tarFails, describeFails, fails, at, Copying
  <1>6. CASE startAgain
    BY <1>1, <1>6 DEF startAgain, goto, at, CopyGoesOn, same, Operations, Copying
  <1>7. CASE unmark
    <2>1. op' = over \/ op' = [op EXCEPT !.at = IF op.does = "restore" THEN "asking" ELSE "pruning", !.saved = TRUE]
      BY <1>7 DEF unmark
    <2> QED BY <1>1, <1>2, <1>7, <2>1 DEF unmark, at, CopyGoesOn, same, Operations, Copying
  <1>8. CASE prune
    BY <1>1, <1>8 DEF prune, at, OpInv, CopyGoesOn, same, Operations, Copying
  <1> QED BY <1>4, <1>5, <1>6, <1>7, <1>8 DEF BackupStep
-----------------------------------------------------------------------------
(* Where the folders are.                                                  *)

LEMMA FolderIs == ASSUME NEW f \in Folder PROVE f # None /\ f.kept \in BOOLEAN /\ f.data \in Nat
  BY NoneAssumption DEF Folder

LEMMA FolderKept ==
    ASSUME NEW f \in Folder, NEW b \in BOOLEAN
    PROVE  /\ [f EXCEPT !.kept = b] # None
           /\ [f EXCEPT !.kept = b].data = f.data /\ [f EXCEPT !.kept = b].kept = b
  <1>1. [f EXCEPT !.kept = b] \in Folder
    BY DEF Folder
  <1> QED BY <1>1, FolderIs DEF Folder

LEMMA FolderData ==
    ASSUME NEW f \in Folder, NEW d \in Nat
    PROVE  /\ [f EXCEPT !.data = d] # None
           /\ [f EXCEPT !.data = d].data = d /\ [f EXCEPT !.data = d].kept = f.kept
  <1>1. [f EXCEPT !.data = d] \in Folder
    BY DEF Folder
  <1> QED BY <1>1, FolderIs DEF Folder

(* The app's folder, and the one set aside, where a step needs them.       *)
LEMMA FoldersThere ==
    ASSUME BackupsTypeOK, FolderInv
    PROVE  /\ op.at \notin {"idle", "swapping"} => live \in Folder
           /\ op.at \in {"swapping", "carrying", "upping", "settling"} => displaced \in Folder
           /\ op.at = "swapping" => staged \in Folder
  BY DEF BackupsTypeOK, FolderInv

(* An operation that ends, and one that goes on where it makes no          *)
(* difference to the folders.                                              *)
LEMMA FoldersLeft ==
    ASSUME FolderInv, live # None <=> live' # None, displaced' = displaced,
           \/ op'.at = "idle"
           \/ op' = op /\ staged' = staged
           \/ /\ op'.at \notin {"swapping", "carrying", "upping", "settling"} /\ live # None /\ staged' = staged
              /\ restores' => restores /\ op.at \notin {"swapping", "carrying", "upping", "settling"}
    PROVE  FolderInv'
  <1>1. CASE op'.at = "idle"
    <2>1. ~restores'
      BY <1>1 DEF restores, Copying, Restoring
    <2> QED BY <1>1, <2>1 DEF FolderInv
  <1>2. CASE op' = op /\ staged' = staged
    BY <1>2 DEF FolderInv, restores
  <1>3. CASE /\ op'.at \notin {"swapping", "carrying", "upping", "settling"} /\ live # None /\ staged' = staged
             /\ restores' => restores /\ op.at \notin {"swapping", "carrying", "upping", "settling"}
    BY <1>3 DEF FolderInv
  <1> QED BY <1>1, <1>2, <1>3

LEMMA FolderStep == ASSUME BackupsTypeOK, OpInv, FolderInv, [BackupsNext]_backupVars PROVE FolderInv'
  <1>1. op \in Operations /\ Idle.at = "idle"
    BY IdleIs DEF BackupsTypeOK
  <1> DEFINE Swapped == {"swapping", "carrying", "upping", "settling"}
  <1>2. ASSUME op' = Idle, live # None <=> live' # None, displaced' = displaced PROVE FolderInv'
    BY <1>1, <1>2, FoldersLeft
  <1>3. ASSUME op' = op, live # None <=> live' # None, displaced' = displaced, staged' = staged PROVE FolderInv'
    BY <1>3, FoldersLeft
  <1>4. ASSUME NEW w \in Copying \union Restoring \union FilePath, goto(w) PROVE onward(op, w)
    BY <1>4, Goes, PlaceNames
  <1> USE DEF at, fileVars
  <1>5. CASE BackupStep
    <2>1. live # None /\ SameFolders /\ CopyGoesOn
      BY <1>5, CopyingFolders, CopyingOperation
    <2>2. op' = Idle \/ (op'.at \notin Swapped /\ (restores' => restores /\ op.at \notin Swapped))
      BY <2>1 DEF CopyGoesOn, same, restores, OpInv, Copying, Restoring
    <2> QED BY <1>1, <2>1, <2>2, FoldersLeft DEF SameFolders
  <1>6. CASE checksFail \/ stopForRestoreFails
    BY <1>2, <1>6 DEF checksFail, stopForRestoreFails, refused
  <1>7. CASE carryFails \/ pathDone \/ helperDies \/ powerCut
    BY <1>2, <1>7 DEF carryFails, pathDone, helperDies, powerCut, crash
  <1>8. CASE resumed
    <2>1. live # None
      BY <1>8 DEF resumed, FolderInv
    <2>2. live' # None
      BY <1>8, <2>1, MarkerOnly DEF resumed
    <2> QED BY <1>2, <1>8, <2>1, <2>2 DEF resumed
  <1>9. CASE dockerStarts \/ helperStarts \/ UNCHANGED backupVars
    BY <1>3, <1>9 DEF dockerStarts, helperStarts, backupVars
  <1>10. CASE appWrites
    <2>1. live \in Folder /\ writes + 1 \in Nat
      BY <1>10 DEF appWrites, BackupsTypeOK
    <2>2. [live EXCEPT !.data = writes + 1] # None
      BY <2>1, FolderData
    <2> QED BY <1>3, <1>10, <2>2 DEF appWrites
  <1>11. ASSUME NEW to \in {"up", "down"}, action(to) PROVE FolderInv'
    BY <1>3, <1>11 DEF action
  <1>12. ASSUME NEW a \in archives, deleteAppBackup(a) PROVE FolderInv'
    BY <1>3, <1>12 DEF deleteAppBackup
  <1>13. ASSUME NEW does \in {"backup", "path"}, NEW r \in Nat \union {None}, looks(newOp(does, r)), live # None,
                UNCHANGED <<live, displaced, staged>>
         PROVE  FolderInv'
    <2>1. newOp(does, r) \in Operations /\ newOp(does, r).does = does
      <3>1. does \in {"backup", "restore", "path"}
        OBVIOUS
      <3> QED BY <3>1, NewOp, NewOpIs
    <2>2. op'.at = "marking" /\ op'.does = does
      BY <1>13, <2>1, LooksOn DEF onward, same
    <2> QED BY <1>13, <2>2, FoldersLeft DEF restores
  <1>14. CASE backup
    BY <1>13, <1>14 DEF backup, asks
  <1>15. ASSUME NEW a \in archives, restoreAppBackupPath(a) PROVE FolderInv'
    BY <1>13, <1>15 DEF restoreAppBackupPath, asks, BackupsTypeOK, Copies
  <1>16. ASSUME NEW a \in archives, restoreAppBackup(a) PROVE FolderInv'
    <2>1. newOp("restore", a.n) \in Operations
      BY NewOp DEF BackupsTypeOK, Copies
    <2>2. op'.at = "checking"
      BY <1>16, <2>1 DEF restoreAppBackup, Operations
    <2>3. staged' \in Folder
      BY <1>16 DEF restoreAppBackup, BackupsTypeOK, Copies, Folder
    <2>4. staged' # None
      BY <2>3, NoneAssumption
    <2> QED BY <1>16, <2>2, <2>4 DEF restoreAppBackup, asks, FolderInv
  <1>17. CASE resumes
    <2>1. \/ op' = op
          \/ op'.at = "resuming" /\ live # None
      BY <1>17 DEF resumes, Idle, interruptedBackups
    <2> QED BY <1>3, <1>17, <2>1, FoldersLeft DEF resumes, restores, Copying, Restoring
  <1>18. CASE safetyCopy
    <2>1. onward(op, "marking") /\ op.at = "checking"
      BY <1>1, <1>18, LooksOn DEF safetyCopy
    <2> QED BY <1>18, <2>1, FoldersLeft DEF safetyCopy, onward, same, restores, Copying, Restoring, FolderInv
  <1>19. CASE safetyRefused
    <2>1. onward(op, "asking") /\ op.at = "checking"
      BY <1>4, <1>19 DEF safetyRefused, Restoring
    <2> QED BY <1>19, <2>1, FoldersLeft DEF safetyRefused, onward, same, restores, Restoring, FolderInv
  <1>20. CASE stopForRestore
    <2>1. onward(op, "displacing") /\ op.at = "asking"
      BY <1>20, PausesOn, PlaceNames DEF stopForRestore, Restoring
    <2> QED BY <1>20, <2>1, FoldersLeft DEF stopForRestore, onward, same, restores, Restoring, FolderInv
  <1>21. CASE stopForPath
    <2>1. onward(op, "placing") /\ op.at = "pausing"
      BY <1>21, PausesOn, PlaceNames DEF stopForPath, FilePath
    <2>2. ~restores'
      BY <2>1 DEF onward, restores, Copying, Restoring
    <2> QED BY <1>21, <2>1, <2>2, FoldersLeft DEF stopForPath, onward, FolderInv
  <1>22. CASE place
    <2>1. onward(op, "finishing") /\ op.at = "placing"
      BY <1>4, <1>22 DEF place, FilePath
    <2>2. ~restores' /\ live # None
      BY <2>1 DEF onward, restores, Copying, Restoring, FolderInv
    <2>3. live' # None
      <3>1. live \in Folder /\ writes + 1 \in Nat
        BY <2>2 DEF BackupsTypeOK
      <3> QED BY <1>22, <2>2, <3>1, FolderData DEF place
    <2> QED BY <1>22, <2>1, <2>2, <2>3, FoldersLeft DEF place, onward
  <1>23. CASE displace
    <2>1. op'.at = "swapping" /\ op.at = "displacing" /\ op'.does = op.does
      BY <1>1, <1>23 DEF displace, Operations
    <2>2. live # None /\ staged # None
      BY <2>1 DEF FolderInv, restores, OpInv, Restoring
    <2> QED BY <1>23, <2>1, <2>2 DEF displace, FolderInv
  <1>24. CASE swap
    <2>1. onward(op, "carrying") /\ op.at = "swapping"
      BY <1>4, <1>24 DEF swap, Restoring
    <2> QED BY <1>24, <2>1 DEF swap, onward, FolderInv
  <1>25. CASE swapFails
    <2>1. op'.at = "idle" /\ op.at = "swapping"
      BY <1>1, <1>25 DEF swapFails
    <2> QED BY <1>25, <2>1 DEF swapFails, FolderInv, restores, Copying, Restoring
  <1>26. CASE carry
    <2>1. onward(op, "upping") /\ live \in Folder /\ displaced \in Folder
      BY <1>4, <1>26, FoldersThere DEF carry, Restoring
    <2>2. live' # None /\ displaced' # None
      BY <1>26, <2>1, FolderIs, FolderKept DEF carry
    <2> QED BY <2>1, <2>2 DEF onward, FolderInv
  <1>27. CASE up
    <2>1. onward(op, "settling") /\ op.at = "upping"
      BY <1>4, <1>27 DEF up, Restoring
    <2> QED BY <1>27, <2>1 DEF up, onward, FolderInv
  <1>28. CASE upFails
    <2>1. op'.at = "idle" /\ live \in Folder /\ displaced \in Folder
      BY <1>1, <1>28, FoldersThere DEF upFails
    <2>2. live' # None /\ displaced' # None
      BY <1>28, <2>1, FolderIs, FolderKept DEF upFails, putBack
    <2> QED BY <2>1, <2>2 DEF FolderInv, restores, Copying, Restoring
  <1>29. CASE settle
    <2>1. op'.at = "idle" /\ live # None
      BY <1>1, <1>29 DEF settle, FolderInv
    <2> QED BY <1>29, <2>1 DEF settle, FolderInv, restores, Copying, Restoring
  <1> QED
    BY <1>5, <1>6, <1>7, <1>8, <1>9, <1>10, <1>11, <1>12, <1>14, <1>15, <1>16, <1>17, <1>18, <1>19, <1>20, <1>21, <1>22,
       <1>23, <1>24, <1>25, <1>26, <1>27, <1>28, <1>29
    DEF BackupsNext, HelperStep, RestoreStep, PathStep
-----------------------------------------------------------------------------
(* What backups leave out is kept.                                         *)

Moves == appWrites \/ place \/ displace \/ swap \/ swapFails \/ carry \/ up \/ upFails \/ settle
Swapped == {"swapping", "carrying", "upping", "settling"}

(* Every other step leaves both folders as they are. *)
LEMMA Still ==
    ASSUME BackupsTypeOK, OpInv, FolderInv, [BackupsNext]_backupVars, ~Moves
    PROVE  /\ live # None <=> live' # None
           /\ live'.data = live.data /\ live'.kept = live.kept /\ displaced' = displaced
           /\ op' = op \/ op'.at \notin Swapped
  <1> DEFINE Same == /\ live # None <=> live' # None
                     /\ live'.data = live.data /\ live'.kept = live.kept /\ displaced' = displaced
  <1> DEFINE Off == op' = op \/ op'.at \notin Swapped
  <1>1. op \in Operations /\ Idle.at \notin Swapped
    BY IdleIs DEF BackupsTypeOK, Swapped
  <1>2. ASSUME NEW does \in {"backup", "restore", "path"}, NEW r \in Nat \union {None}, looks(newOp(does, r)) PROVE Off
    BY <1>2, NewOp, LooksOn DEF onward, Swapped
  <1> USE DEF fileVars
  <1>3. CASE BackupStep
    <2>1. SameFolders /\ CopyGoesOn
      BY <1>3, CopyingFolders, CopyingOperation
    <2> QED BY <1>1, <2>1 DEF SameFolders, CopyGoesOn, Copying, Swapped
  <1>4. CASE checksFail \/ stopForRestoreFails \/ carryFails \/ pathDone \/ helperDies \/ powerCut
    BY <1>1, <1>4 DEF checksFail, stopForRestoreFails, refused, carryFails, pathDone, helperDies, powerCut, crash
  <1>5. CASE resumed
    <2>1. live # None
      BY <1>5 DEF resumed, FolderInv, at
    <2> QED BY <1>1, <1>5, <2>1, MarkerOnly DEF resumed
  <1>6. CASE dockerStarts \/ helperStarts \/ UNCHANGED backupVars
    BY <1>6 DEF dockerStarts, helperStarts, backupVars
  <1>7. ASSUME NEW to \in {"up", "down"}, action(to) PROVE Same /\ Off
    BY <1>7 DEF action
  <1>8. ASSUME NEW a \in archives, deleteAppBackup(a) PROVE Same /\ Off
    BY <1>8 DEF deleteAppBackup
  <1>9. CASE backup
    BY <1>2, <1>9 DEF backup
  <1>10. ASSUME NEW a \in archives, restoreAppBackupPath(a) PROVE Same /\ Off
    BY <1>2, <1>10 DEF restoreAppBackupPath, BackupsTypeOK, Copies
  <1>11. ASSUME NEW a \in archives, restoreAppBackup(a) PROVE Same /\ Off
    <2>1. newOp("restore", a.n) \in Operations
      BY NewOp DEF BackupsTypeOK, Copies
    <2>2. op'.at = "checking"
      BY <1>11, <2>1 DEF restoreAppBackup, Operations
    <2> QED BY <1>11, <2>2 DEF restoreAppBackup, Swapped
  <1>12. CASE resumes
    <2>1. op' = op \/ op'.at = "resuming"
      BY <1>12 DEF resumes, Idle
    <2> QED BY <1>12, <2>1 DEF resumes, Swapped
  <1>13. CASE safetyCopy
    BY <1>1, <1>13, LooksOn DEF safetyCopy, onward, Swapped
  <1>14. CASE safetyRefused
    BY <1>14, Goes, PlaceNames DEF safetyRefused, onward, Restoring, Swapped
  <1>15. CASE stopForRestore \/ stopForPath
    BY <1>15, PausesOn, PlaceNames DEF stopForRestore, stopForPath, onward, Restoring, FilePath, Swapped
  <1> QED
    BY <1>3, <1>4, <1>5, <1>6, <1>7, <1>8, <1>9, <1>10, <1>11, <1>12, <1>13, <1>14, <1>15
    DEF BackupsNext, HelperStep, RestoreStep, PathStep, Moves

LEMMA KeptStep == ASSUME BackupsTypeOK, OpInv, FolderInv, KeptInv, [BackupsNext]_backupVars PROVE KeptInv'
  <1>1. op \in Operations /\ Idle.at = "idle"
    BY IdleIs DEF BackupsTypeOK
  <1>2. ASSUME NEW w \in Copying \union Restoring \union FilePath, goto(w) PROVE op'.at = w
    BY <1>2, Goes, PlaceNames DEF onward
  <1> USE DEF at, fileVars
  <1>3. CASE ~Moves
    BY <1>3, Still DEF KeptInv, Swapped
  <1>4. CASE appWrites \/ place
    <2>1. live \in Folder /\ writes + 1 \in Nat
      BY <1>4, FoldersThere DEF appWrites, place, BackupsTypeOK
    <2>4. live # None /\ [live EXCEPT !.data = writes + 1] # None /\ [live EXCEPT !.data = writes + 1].kept = live.kept
      BY <2>1, FolderIs, FolderData
    <2>2. live # None /\ live' # None /\ live'.kept = live.kept /\ displaced' = displaced
      BY <1>4, <2>4 DEF appWrites, place
    <2>3. op' = op \/ op'.at \notin Swapped
      BY <1>2, <1>4 DEF appWrites, place, FilePath, Swapped
    <2> QED BY <2>2, <2>3 DEF KeptInv, Swapped
  <1>5. CASE displace
    <2>1. op'.at = "swapping" /\ op.at = "displacing" /\ op.does = "restore"
      BY <1>1, <1>5 DEF displace, Operations, OpInv, Restoring
    <2>2. live # None /\ displaced = None
      BY <2>1 DEF FolderInv, restores, Restoring
    <2> QED BY <1>5, <2>1, <2>2 DEF displace, KeptInv
  <1>6. CASE swap
    <2>1. op'.at = "carrying" /\ op.at = "swapping"
      BY <1>2, <1>6 DEF swap, Restoring
    <2> QED BY <1>6, <2>1 DEF swap, KeptInv, FolderInv
  <1>7. CASE swapFails
    <2>1. op'.at = "idle" /\ op.at = "swapping"
      BY <1>1, <1>7 DEF swapFails
    <2> QED BY <1>7, <2>1 DEF swapFails, KeptInv, FolderInv
  <1>8. CASE carry
    <2>1. op'.at = "upping" /\ op.at = "carrying" /\ live \in Folder /\ displaced \in Folder
      BY <1>2, <1>8, FoldersThere DEF carry, Restoring
    <2>2. live' # None /\ live'.kept = displaced.kept /\ displaced' # None
      BY <1>8, <2>1, FolderIs, FolderKept DEF carry
    <2> QED BY <2>1, <2>2 DEF KeptInv
  <1>9. CASE up
    <2>1. op'.at = "settling" /\ op.at = "upping"
      BY <1>2, <1>9 DEF up, Restoring
    <2> QED BY <1>9, <2>1 DEF up, KeptInv
  <1>10. CASE upFails
    <2>1. op'.at = "idle" /\ live \in Folder /\ displaced \in Folder /\ live.kept
      BY <1>1, <1>10, FoldersThere DEF upFails, KeptInv
    <2>2. live' # None /\ displaced' # None /\ (live'.kept \/ displaced'.kept)
      BY <1>10, <2>1, FolderIs, FolderKept DEF upFails, putBack
    <2> QED BY <2>1, <2>2 DEF KeptInv
  <1>11. CASE settle
    <2>1. op'.at = "idle" /\ live # None /\ live.kept
      BY <1>1, <1>11 DEF settle, FolderInv, KeptInv
    <2> QED BY <1>11, <2>1 DEF settle, KeptInv
  <1> QED BY <1>3, <1>4, <1>5, <1>6, <1>7, <1>8, <1>9, <1>10, <1>11 DEF Moves
-----------------------------------------------------------------------------
(* The archive a file restore reads outlives the copies made meanwhile.    *)
Reading == Copying \union {"pruning", "pausing", "placing"}

LEMMA ReadStep == ASSUME BackupsTypeOK, OpInv, FolderInv, ReadInv, [BackupsNext]_backupVars PROVE ReadInv'
  <1>1. op \in Operations /\ Idle.at = "idle"
    BY IdleIs DEF BackupsTypeOK
  <1>2. ASSUME op' = op, archives' = archives PROVE ReadInv'
    BY <1>2 DEF ReadInv
  <1>3. ASSUME op'.at \notin Reading PROVE ReadInv'
    BY <1>3 DEF ReadInv, Reading
  <1>4. ASSUME NEW w \in Copying \union Restoring \union FilePath, goto(w) PROVE op'.at = w
    BY <1>4, Goes, PlaceNames DEF onward
  <1> USE DEF at, fileVars
  <1>5. CASE BackupStep
    <2>1. CopyGoesOn
      BY <1>5, CopyingOperation
    <2>2. CASE archives \subseteq archives'
      BY <1>1, <2>1, <2>2 DEF CopyGoesOn, same, ReadInv, Copying
    <2>3. CASE prune
      <3>1. \A a \in archives : a.n = op.reads => a \in archives'
        BY <2>3 DEF prune, remove, behind
      <3> QED BY <1>1, <2>1, <3>1 DEF CopyGoesOn, same, ReadInv, Copying
    <2> QED
      BY <1>5, <2>2, <2>3 DEF BackupStep, mark, markFails, stopApp, stopFails, archived, tarFails, startAgain, describe,
         describeFails, takesName, unmark, beginsArchive
  <1>6. CASE checksFail \/ stopForRestoreFails \/ carryFails \/ pathDone \/ helperDies \/ powerCut \/ resumed \/ swapFails
             \/ upFails \/ settle
    <2>1. op'.at = "idle"
      BY <1>1, <1>6 DEF checksFail, stopForRestoreFails, refused, carryFails, pathDone, helperDies, powerCut, crash, resumed,
         swapFails, upFails, settle
    <2> QED BY <1>3, <2>1 DEF Reading, Copying
  <1>7. CASE appWrites \/ dockerStarts \/ helperStarts \/ UNCHANGED backupVars
    BY <1>2, <1>7 DEF appWrites, dockerStarts, helperStarts, backupVars
  <1>8. ASSUME NEW to \in {"up", "down"}, action(to) PROVE ReadInv'
    BY <1>2, <1>8 DEF action
  <1>9. ASSUME NEW a \in archives, deleteAppBackup(a) PROVE ReadInv'
    BY <1>1, <1>3, <1>9 DEF deleteAppBackup, byHand, lane, Reading, Copying
  <1>10. CASE backup
    <2>1. newOp("backup", None) \in Operations /\ newOp("backup", None).does = "backup"
      BY NewOp, NewOpIs
    <2>2. op'.does = "backup"
      BY <1>10, <2>1, LooksOn DEF backup, onward, same
    <2> QED BY <2>2 DEF ReadInv
  <1>11. ASSUME NEW a \in archives, restoreAppBackupPath(a) PROVE ReadInv'
    <2>1. newOp("path", a.n) \in Operations /\ newOp("path", a.n).reads = a.n
      BY NewOp, NewOpIs DEF BackupsTypeOK, Copies
    <2>2. op'.reads = a.n /\ archives' = archives
      BY <1>11, <2>1, LooksOn DEF restoreAppBackupPath, onward, same
    <2> QED BY <2>2 DEF ReadInv
  <1>12. ASSUME NEW a \in archives, restoreAppBackup(a) PROVE ReadInv'
    <2>1. newOp("restore", a.n) \in Operations
      BY NewOp DEF BackupsTypeOK, Copies
    <2>2. op'.at = "checking"
      BY <1>12, <2>1 DEF restoreAppBackup, Operations
    <2> QED BY <1>3, <2>2 DEF Reading, Copying
  <1>13. CASE resumes
    <2>1. (op' = op /\ archives' = archives) \/ op'.at = "resuming"
      BY <1>13 DEF resumes, Idle
    <2> QED BY <1>2, <1>3, <2>1 DEF Reading, Copying
  <1>14. CASE safetyCopy
    <2>1. op'.does = op.does /\ op.does = "restore"
      BY <1>1, <1>14, LooksOn DEF safetyCopy, onward, same, OpInv, Restoring
    <2> QED BY <2>1 DEF ReadInv
  <1>15. CASE safetyRefused \/ swap \/ carry \/ up \/ place
    BY <1>3, <1>4, <1>15 DEF safetyRefused, swap, carry, up, place, Restoring, FilePath, Reading, Copying
  <1>16. CASE stopForRestore
    BY <1>3, <1>16, PausesOn, PlaceNames DEF stopForRestore, onward, Restoring, Reading, Copying
  <1>17. CASE stopForPath
    <2>1. onward(op, "placing") /\ op.at = "pausing" /\ archives' = archives
      BY <1>17, PausesOn, PlaceNames DEF stopForPath, FilePath
    <2> QED BY <2>1 DEF onward, same, ReadInv
  <1>18. CASE displace
    BY <1>1, <1>3, <1>18 DEF displace, Operations, Reading, Copying
  <1> QED
    BY <1>5, <1>6, <1>7, <1>8, <1>9, <1>10, <1>11, <1>12, <1>13, <1>14, <1>15, <1>16, <1>17, <1>18
    DEF BackupsNext, HelperStep, RestoreStep, PathStep
-----------------------------------------------------------------------------
(* The data a restore found is somewhere.                                  *)

(* Nothing of it is moved, written or removed. *)
LEMMA DataLeft ==
    ASSUME DataInv, live'.data = live.data, displaced' = displaced, archives' = archives, original' = original,
           \/ op' = op /\ partials' = partials
           \/ /\ restores' => restores
              /\ op'.at \in Copied => op.at \in Copied /\ op'.n = op.n /\ partials' = partials
              /\ op'.at = "unmarking" => FALSE
              /\ op'.saved => op.saved \/ op.at = "unmarking"
    PROVE  DataInv'
  <1>1. saved' = saved
    BY DEF saved
  <1>2. CASE op' = op /\ partials' = partials
    BY <1>1, <1>2 DEF DataInv, restores
  <1>3. CASE /\ restores' => restores
             /\ op'.at \in Copied => op.at \in Copied /\ op'.n = op.n /\ partials' = partials
             /\ op'.at = "unmarking" => FALSE
             /\ op'.saved => op.saved \/ op.at = "unmarking"
    BY <1>1, <1>3 DEF DataInv, Copied
  <1> QED BY <1>2, <1>3

(* Archives are removed only when no restore is under way. *)
LEMMA DataRemoved ==
    ASSUME DataInv, NEW gone \in SUBSET archives, remove(gone), live'.data = live.data, displaced' = displaced, ~restores'
    PROVE  DataInv'
  <1>1. original' = {} \/ (original' = original /\ (saved => saved'))
    BY DEF remove, saved
  <1> QED BY <1>1 DEF DataInv

LEMMA HelperInvStep == ASSUME HelperInv, [BackupsNext]_backupVars PROVE HelperInv'
  <1> USE DEF at, hostVars
  <1>1. CASE BackupStep
    BY <1>1 DEF BackupStep, mark, markFails, stopApp, stopFails, archived, tarFails, startAgain, describe, describeFails,
       takesName, unmark, prune, goesDown, comesUp, HelperInv
  <1>2. CASE RestoreStep
    BY <1>2 DEF RestoreStep, checksFail, safetyCopy, safetyRefused, stopForRestore, stopForRestoreFails, displace, swap, swapFails,
       carry, carryFails, up, upFails, settle, pauses, goesDown, comesUp, HelperInv
  <1>3. CASE PathStep
    BY <1>3 DEF PathStep, stopForPath, place, pathDone, pauses, goesDown, comesUp, HelperInv
  <1>4. CASE helperStarts \/ resumes \/ resumed \/ appWrites \/ dockerStarts \/ UNCHANGED backupVars
    BY <1>4 DEF helperStarts, resumes, lane, resumed, comesUp, appWrites, dockerStarts, backupVars, HelperInv
  <1>5. CASE helperDies \/ powerCut
    BY <1>5, IdleIs DEF helperDies, powerCut, crash, HelperInv
  <1>6. CASE backup
    BY <1>6 DEF backup, asks, lane, HelperInv
  <1>7. ASSUME NEW to \in {"up", "down"}, action(to) PROVE HelperInv'
    BY <1>7 DEF action, byHand, lane, goesDown, comesUp, HelperInv
  <1>8. ASSUME NEW a \in archives, restoreAppBackup(a) \/ restoreAppBackupPath(a) \/ deleteAppBackup(a) PROVE HelperInv'
    BY <1>8 DEF restoreAppBackup, restoreAppBackupPath, deleteAppBackup, asks, byHand, lane, HelperInv
  <1> QED BY <1>1, <1>2, <1>3, <1>4, <1>5, <1>6, <1>7, <1>8 DEF BackupsNext, HelperStep

(* What the app or a restored path writes is the data it was written to. *)
LEMMA Written ==
    ASSUME BackupsTypeOK, DataInv, live # None, live' = [live EXCEPT !.data = writes + 1], displaced' = displaced,
           archives' = archives,
           original' = IF live.data \in original /\ displaced = None THEN original \union {writes + 1} ELSE original
    PROVE  /\ displaced' # None => original' = {} \/ displaced'.data \in original'
           /\ displaced' = None /\ original' # {} => live'.data \in original' \/ saved'
           /\ restores /\ displaced' = None => live'.data \in original'
           /\ original \subseteq original' /\ (saved => saved')
  <1>1. live \in Folder /\ writes + 1 \in Nat
    BY DEF BackupsTypeOK
  <1>2. live'.data = writes + 1
    BY <1>1, FolderData
  <1>3. original \subseteq original' /\ (saved => saved')
    BY DEF saved
  <1> QED BY <1>2, <1>3 DEF DataInv

LEMMA DataStep ==
    ASSUME BackupsTypeOK, OpInv, HelperInv, FolderInv, DataInv, [BackupsNext]_backupVars
    PROVE  DataInv'
  <1>1. op \in Operations /\ Idle.at = "idle" /\ Idle.saved = FALSE
    BY IdleIs DEF BackupsTypeOK
  <1>2. ASSUME op' = Idle, live'.data = live.data, displaced' = displaced, archives' = archives, original' = original
        PROVE  DataInv'
    BY <1>1, <1>2, DataLeft DEF restores, Copying, Restoring, Copied
  <1>3. ASSUME op' = op, partials' = partials, live' = live, displaced' = displaced, archives' = archives, original' = original
        PROVE  DataInv'
    BY <1>3, DataLeft
  <1>4. ASSUME NEW w \in Copying \union Restoring \union FilePath, goto(w) PROVE onward(op, w)
    BY <1>4, Goes, PlaceNames
  <1>5. ASSUME ~restores', live'.data = live.data, displaced' = displaced, archives' = archives, original' = original,
               op'.at \notin Copied \union {"unmarking"}, ~op'.saved
        PROVE  DataInv'
    BY <1>5, DataLeft
  <1> USE DEF at, fileVars
  <1>6. CASE BackupStep
    <2>1. live # None /\ SameFolders /\ CopyGoesOn
      BY <1>6, CopyingFolders, CopyingOperation
    <2>2. /\ restores' => restores
          /\ op'.saved => op.saved \/ op.at = "unmarking"
      BY <1>1, <2>1 DEF CopyGoesOn, same, restores, OpInv, Copying, Restoring
    <2>3. CASE mark \/ markFails \/ stopFails \/ tarFails \/ describeFails \/ unmark
      <3>1. op'.at \notin Copied \union {"unmarking"} /\ archives' = archives /\ original' = original
        <4>1. over.at \in {"idle", "asking"}
          BY <1>1, Over
        <4>2. CASE mark
          BY <1>4, <4>2 DEF mark, onward, Copying, Copied
        <4>3. CASE markFails \/ stopFails \/ tarFails \/ describeFails
          BY <4>1, <4>3 DEF markFails, stopFails, tarFails, describeFails, fails, Copied
        <4>4. CASE unmark
          BY <1>1, <4>1, <4>4 DEF unmark, Operations, Copied
        <4> QED BY <2>3, <4>2, <4>3, <4>4
      <3> QED BY <2>1, <2>2, <3>1, DataLeft DEF SameFolders
    <2>4. CASE startAgain \/ describe
      <3>1. /\ op'.at \in {"describing", "naming"} /\ op.at \in Copied /\ op'.n = op.n /\ partials' = partials
            /\ archives' = archives /\ original' = original
        BY <1>1, <2>4 DEF startAgain, describe, goto, Operations, Copied
      <3> QED BY <2>1, <2>2, <3>1, DataLeft DEF SameFolders
    <2>5. CASE archived
      <3>1. onward(op, "starting") /\ op.at = "archiving" /\ archives' = archives /\ original' = original
        BY <1>4, <2>5 DEF archived, Copying
      <3>2. partials' = {[p EXCEPT !.whole = @ \/ p.n = op.n] : p \in partials}
        BY <2>5 DEF archived
      <3>3. ASSUME NEW p \in partials
            PROVE  /\ [p EXCEPT !.whole = @ \/ p.n = op.n].n = p.n
                   /\ [p EXCEPT !.whole = @ \/ p.n = op.n].data = p.data
        BY DEF BackupsTypeOK, Copies
      <3>4. restores => \E p \in partials' : p.n = op.n /\ p.data \in original
        <4> SUFFICES ASSUME restores PROVE \E p \in partials' : p.n = op.n /\ p.data \in original
          OBVIOUS
        <4>1. PICK p \in partials : p.n = op.n /\ p.data \in original
          BY <3>1 DEF DataInv
        <4> QED BY <3>2, <3>3, <4>1
      <3>5. saved' = saved
        BY <3>1 DEF saved
      <3> QED BY <2>1, <2>2, <3>1, <3>4, <3>5 DEF DataInv, SameFolders, onward, same
    <2>6. CASE stopApp
      <3>1. onward(op, "archiving") /\ op.at = "stopping" /\ archives' = archives /\ original' = original
        BY <1>4, <2>6 DEF stopApp, beginsArchive, Copying
      <3>2. Archive \in partials' /\ Archive.n = op.n /\ Archive.data = live.data
        BY <2>6 DEF stopApp, beginsArchive, Archive
      <3>3. restores => live.data \in original
        BY <3>1 DEF DataInv, FolderInv
      <3>4. saved' = saved
        BY <3>1 DEF saved
      <3> QED BY <2>1, <2>2, <3>1, <3>2, <3>3, <3>4 DEF DataInv, SameFolders, onward, same
    <2>7. CASE takesName
      <3>1. onward(op, "unmarking") /\ op.at = "naming" /\ archives \subseteq archives' /\ original' = original
        BY <1>4, <2>7 DEF takesName, Copying
      <3>2. restores => saved'
        BY <2>7, <3>1 DEF takesName, DataInv, saved
      <3>3. saved => saved'
        BY <3>1 DEF saved
      <3> QED BY <2>1, <2>2, <3>1, <3>2, <3>3 DEF DataInv, SameFolders, onward, same
    <2>8. CASE prune
      <3>1. ~restores' /\ behind \subseteq archives
        BY <1>1, <2>1, <2>8 DEF prune, Operations, restores, behind, Copying, Restoring
      <3>2. PICK referenced \in SUBSET behind : remove(behind \ referenced)
        BY <2>8 DEF prune
      <3> QED BY <2>1, <3>1, <3>2, DataRemoved DEF SameFolders
    <2> QED BY <1>6, <2>3, <2>4, <2>5, <2>6, <2>7, <2>8 DEF BackupStep
  <1>7. CASE checksFail \/ stopForRestoreFails \/ carryFails \/ pathDone \/ helperDies \/ powerCut
    BY <1>2, <1>7 DEF checksFail, stopForRestoreFails, refused, carryFails, pathDone, helperDies, powerCut, crash
  <1>8. CASE resumed
    <2>1. live # None
      BY <1>8 DEF resumed, FolderInv
    <2>2. live'.data = live.data
      BY <1>8, <2>1, MarkerOnly DEF resumed
    <2> QED BY <1>2, <1>8, <2>2 DEF resumed
  <1>9. CASE dockerStarts \/ UNCHANGED backupVars
    BY <1>3, <1>9 DEF dockerStarts, backupVars
  <1>10. CASE helperStarts
    <2>1. op'.at = "idle" /\ op.at = "idle" /\ op' = op
      BY <1>10 DEF helperStarts, HelperInv
    <2>2. ~restores /\ ~restores'
      BY <2>1 DEF restores, Copying, Restoring
    <2>3. saved' = saved
      BY <1>10 DEF helperStarts, saved
    <2> QED BY <1>10, <2>2, <2>3 DEF helperStarts, DataInv
  <1>11. ASSUME NEW to \in {"up", "down"}, action(to) PROVE DataInv'
    BY <1>3, <1>11 DEF action
  <1>12. ASSUME NEW a \in archives, deleteAppBackup(a) PROVE DataInv'
    BY <1>1, <1>12, DataRemoved DEF deleteAppBackup, byHand, lane, restores, Copying, Restoring
  <1>13. ASSUME NEW does \in {"backup", "path"}, NEW r \in Nat \union {None}, looks(newOp(does, r)),
                UNCHANGED <<live, displaced, archives, original>>
         PROVE  DataInv'
    <2>1. newOp(does, r) \in Operations /\ newOp(does, r).does = does /\ newOp(does, r).saved = FALSE
      <3>1. does \in {"backup", "restore", "path"}
        OBVIOUS
      <3> QED BY <3>1, NewOp, NewOpIs
    <2>2. op'.at = "marking" /\ op'.does = does /\ op'.saved = FALSE
      BY <1>13, <2>1, LooksOn DEF onward, same
    <2> QED BY <1>5, <1>13, <2>2 DEF restores, Copied
  <1>14. CASE backup
    BY <1>13, <1>14 DEF backup
  <1>15. ASSUME NEW a \in archives, restoreAppBackupPath(a) PROVE DataInv'
    BY <1>13, <1>15 DEF restoreAppBackupPath, BackupsTypeOK, Copies
  <1>16. ASSUME NEW a \in archives, restoreAppBackup(a) PROVE DataInv'
    <2>1. newOp("restore", a.n) \in Operations /\ newOp("restore", a.n).saved = FALSE
      BY NewOp, NewOpIs DEF BackupsTypeOK, Copies
    <2>2. op'.at = "checking" /\ op'.saved = FALSE
      BY <1>16, <2>1 DEF restoreAppBackup, Operations
    <2> QED BY <1>16, <2>2 DEF restoreAppBackup, DataInv
  <1>17. CASE resumes
    <2>1. \/ op' = op /\ partials' = partials
          \/ op'.at = "resuming" /\ op'.saved = FALSE
      BY <1>17 DEF resumes, Idle
    <2> QED BY <1>3, <1>5, <1>17, <2>1 DEF resumes, restores, Copying, Restoring, Copied
  <1>18. CASE safetyCopy \/ safetyRefused \/ stopForRestore \/ stopForPath \/ up
    <2>1. \E w \in {"marking", "asking", "displacing", "placing", "settling"} : onward(op, w)
      BY <1>1, <1>4, <1>18, LooksOn, PausesOn, PlaceNames DEF safetyCopy, safetyRefused, stopForRestore, stopForPath, up,
         Restoring, FilePath
    <2>2. op.at \in {"checking", "asking", "pausing", "upping"}
      BY <1>18 DEF safetyCopy, safetyRefused, stopForRestore, stopForPath, up
    <2>3. restores' => restores
      BY <2>1, <2>2 DEF onward, same, restores, OpInv, Copying, Restoring, FilePath
    <2> QED
      BY <1>18, <2>1, <2>3, DataLeft DEF safetyCopy, safetyRefused, stopForRestore, stopForPath, up, onward, Copied
  <1>19. CASE appWrites
    <2>1. /\ displaced' # None => original' = {} \/ displaced'.data \in original'
          /\ displaced' = None /\ original' # {} => live'.data \in original' \/ saved'
          /\ restores /\ displaced' = None => live'.data \in original'
          /\ original \subseteq original' /\ (saved => saved')
      BY <1>19, Written DEF appWrites
    <2>2. ASSUME NEW p \in partials PROVE \E q \in partials' : q.n = p.n /\ q.data = p.data
      <3>1. /\ [p EXCEPT !.torn = @ \/ p.n = op.n].n = p.n
            /\ [p EXCEPT !.torn = @ \/ p.n = op.n].data = p.data
        BY DEF BackupsTypeOK, Copies
      <3> QED BY <1>19, <3>1 DEF appWrites, torn
    <2>3. op' = op
      BY <1>19 DEF appWrites
    <2>4. ASSUME restores, op.at \in Copied PROVE \E q \in partials' : q.n = op.n /\ q.data \in original'
      <3>1. PICK p \in partials : p.n = op.n /\ p.data \in original
        BY <2>4 DEF DataInv, Copied
      <3> QED BY <2>1, <2>2, <3>1
    <2> QED BY <2>1, <2>3, <2>4 DEF DataInv, restores, Copied
  <1>20. CASE place
    <2>1. onward(op, "finishing") /\ op.at = "placing" /\ archives' = archives /\ displaced' = displaced
      BY <1>4, <1>20 DEF place, FilePath
    <2>2. live # None /\ ~restores' /\ ~restores
      BY <2>1 DEF FolderInv, onward, restores, Copying, Restoring
    <2>3. CASE UNCHANGED <<writes, live, original>>
      <3>1. saved' = saved
        BY <2>1, <2>3 DEF saved
      <3> QED BY <2>1, <2>2, <2>3, <3>1 DEF DataInv
    <2>4. CASE /\ live' = [live EXCEPT !.data = writes + 1]
               /\ original' = IF live.data \in original /\ displaced = None THEN original \union {writes + 1} ELSE original
      BY <2>1, <2>2, <2>4, Written DEF DataInv
    <2> QED BY <1>20, <2>3, <2>4 DEF place
  <1>21. CASE displace
    <2>1. /\ op'.at = "swapping" /\ op'.does = op.does /\ op'.saved = op.saved /\ op.at = "displacing" /\ op.does = "restore"
          /\ archives' = archives /\ original' = original
      BY <1>1, <1>21 DEF displace, Operations, OpInv, Restoring
    <2>2. restores /\ live # None /\ displaced = None
      BY <2>1 DEF FolderInv, restores, Restoring
    <2>3. saved' = saved
      BY <2>1 DEF saved
    <2> QED BY <1>21, <2>1, <2>2, <2>3 DEF displace, DataInv
  <1>22. CASE swap
    <2>1. onward(op, "carrying") /\ op.at = "swapping" /\ archives' = archives /\ original' = original /\ displaced' = displaced
      BY <1>4, <1>22 DEF swap, Restoring
    <2>2. displaced # None /\ (restores' => restores)
      BY <2>1 DEF FolderInv, onward, same, restores, Restoring
    <2>3. saved' = saved
      BY <2>1 DEF saved
    <2> QED BY <2>1, <2>2, <2>3 DEF onward, DataInv
  <1>23. CASE swapFails \/ upFails \/ settle
    <2>1. op'.at = "idle" /\ archives' = archives /\ original' = original
      BY <1>1, <1>23 DEF swapFails, upFails, settle
    <2>2. ~restores' /\ saved' = saved
      BY <2>1 DEF restores, saved, Copying, Restoring
    <2>3. op.at \in Swapped /\ displaced \in Folder /\ displaced # None
      BY <1>23, FoldersThere, FolderIs DEF swapFails, upFails, settle, Swapped
    <2>4. CASE swapFails
      BY <2>1, <2>2, <2>3, <2>4 DEF swapFails, DataInv
    <2>5. CASE upFails
      <3>1. live \in Folder
        BY <2>5, FoldersThere DEF upFails
      <3>2. displaced' # None /\ displaced'.data = displaced.data
        <4>1. live.kept \in BOOLEAN
          BY <3>1, FolderIs
        <4>2. [displaced EXCEPT !.kept = live.kept] # None /\ [displaced EXCEPT !.kept = live.kept].data = displaced.data
          BY <2>3, <4>1, FolderKept
        <4> QED BY <2>3, <2>5, <4>2 DEF upFails, putBack
      <3> QED BY <2>1, <2>2, <2>3, <3>2 DEF DataInv
    <2>6. CASE settle
      <3>1. op.saved => saved
        BY <2>6 DEF settle, DataInv, restores, OpInv, Restoring
      <3> QED BY <2>1, <2>2, <2>3, <2>6, <3>1 DEF settle, settled, DataInv
    <2> QED BY <1>23, <2>4, <2>5, <2>6
  <1>24. CASE carry
    <2>1. /\ onward(op, "upping") /\ op.at = "carrying" /\ live \in Folder /\ displaced \in Folder
          /\ archives' = archives /\ original' = original
      BY <1>4, <1>24, FoldersThere DEF carry, Restoring
    <2>2. displaced' # None /\ displaced # None /\ displaced'.data = displaced.data
      BY <1>24, <2>1, FolderIs, FolderKept DEF carry
    <2>3. (restores' => restores) /\ saved' = saved
      BY <2>1 DEF onward, same, restores, saved, Restoring
    <2> QED BY <2>1, <2>2, <2>3 DEF onward, DataInv
  <1> QED
    BY <1>6, <1>7, <1>8, <1>9, <1>10, <1>11, <1>12, <1>14, <1>15, <1>16, <1>17, <1>18, <1>19, <1>20, <1>21, <1>22, <1>23, <1>24
    DEF BackupsNext, HelperStep, RestoreStep, PathStep
-----------------------------------------------------------------------------
(* The inductive invariant holds in every state of every behaviour. *)
THEOREM BackupsInvariant == BackupsSpec => []BackupsInv
  <1>1. BackupsInv /\ [BackupsNext]_backupVars => BackupsInv'
    BY TypeStep, OpStep, HelperInvStep, NumberStep, QuietStep, CopyStep, FolderStep, KeptStep, DataStep, ReadStep DEF BackupsInv
  <1> QED BY <1>1, InitBackupsInv, PTL DEF BackupsSpec

(* Backups and restores are well typed, wherever they are cut off. *)
THEOREM BackupsTypeCorrect == BackupsSpec => []BackupsTypeOK
  <1>1. BackupsInv => BackupsTypeOK
    BY DEF BackupsInv
  <1> QED BY BackupsInvariant, <1>1, PTL

(* An archive under its own name is whole and described, and of one        *)
(* moment's data whenever Docker said whether the app ran, wherever the    *)
(* backup that made it, or any other, was cut off.                         *)
THEOREM ListedSound == BackupsSpec => []ListedIsSound
  <1>1. BackupsInv => ListedIsSound
    BY DEF BackupsInv, CopyInv
  <1> QED BY BackupsInvariant, <1>1, PTL

(* A restore loses nothing, failed or cut off anywhere. *)
THEOREM NothingLost == BackupsSpec => []RestoreLosesNothing
  <1>1. BackupsInv => RestoreLosesNothing
    <2> SUFFICES ASSUME BackupsInv PROVE RestoreLosesNothing
      OBVIOUS
    <2> DEFINE folders == {live, displaced} \ {None}
    <2>1. original # {} => (\E f \in folders : f.data \in original) \/ \E a \in archives : a.data \in original
      BY DEF BackupsInv, DataInv, FolderInv, saved
    <2>2. \E f \in folders : f.kept
      BY DEF BackupsInv, KeptInv
    <2>3. op.at \in {"pausing", "placing"} => \E a \in archives : a.n = op.reads
      BY DEF BackupsInv, OpInv, ReadInv, FilePath
    <2> QED BY <2>1, <2>2, <2>3 DEF RestoreLosesNothing
  <1> QED BY BackupsInvariant, <1>1, PTL
-----------------------------------------------------------------------------
(* Changes to an app.                                                      *)

(* An entry of the history, and what an ended change says.                *)
Entry == [from : Some, fromDigest : Some, rolledBack : BOOLEAN]
Said ==
    [word : {"done", "unrecorded", "unchanged", "restored", "failed", "error", "cutOff"},
     kind : {"update", "back", "settings", "edit"}, undoes : Nat, to : Some, was : Made,
     matched : BOOLEAN, lost : BOOLEAN]

(* The type of every variable. *)
ChangesTypeOK ==
    /\ catalog \in [Service -> 1..MaxTag] /\ registry \in [Service -> [1..MaxTag -> Nat]]
    /\ local \in [Service -> [1..MaxTag -> Nat]] /\ files \in Project /\ containers \in Made
    /\ record \in [settings : Nat, history : Seq(Entry)]
    /\ change \in Change \union {Nothing} /\ said \in Said \union {Nothing}
    /\ ran \in [Service -> SUBSET Image]
    /\ changes \in Nat /\ faults \in Nat

(* Each reference names the image its container was made from, and the     *)
(* settings are the container's.                                           *)
Runs(p, w) == \A s \in Service : names(p.images[s], w[s].image) /\ w[s].settings = p.settings
Untouched == {"env", "compose", "pull", "check", "restore"}

(* Docker answers for all of an app's containers, or for none of its own.  *)
AnswersWhole == \A S \in Answers : App \in S => S = Service

(* What a change at each of its places has written and made, and what it   *)
(* must still know to put things back.                                     *)
AtInv == change # Nothing =>
    /\ change.matched => /\ Runs(change.previous, change.was) /\ change.previous.env = change.previous.settings
                         /\ change.previous.settings = record.settings
    /\ change.kind = "update" => change.settings = record.settings
    /\ change.kind = "edit" => change.settings = change.previous.settings /\ change.at # "env"
    /\ change.at \in Untouched => containers = change.was
    /\ change.at \in {"compose", "pull", "check", "up", "settle"} =>
          files.env = IF change.kind = "edit" THEN change.previous.env ELSE change.settings
    /\ change.at \in {"pull", "check", "up", "settle"} =>
          files.images = change.images /\ files.settings = change.settings
    /\ change.at = "settle" => Runs(files, containers)
    /\ change.kind = "update" => change.seen \in Answers
    /\ change.at = "pin" => change.kind = "update" /\ App \in change.seen
    /\ change.at = "upAgain" =>
          \/ files = change.previous
          \/ /\ change.kind = "update" /\ files.settings = change.settings /\ files.env = change.settings
             /\ AnswersWhole => \A s \in Service : files.images[s] = ById(change.was[s].image)

(* An entry's digests are of the images that ran, beside their tags.       *)
DigestsOf(from, digests) ==
    \A s \in DOMAIN digests :
        /\ s \in DOMAIN from /\ from[s].kind = "tag"
        /\ \E image \in ran[s] : digests[s] = Pinned(from[s].tag, image)
Good == {e \in Entry : DigestsOf(e.from, e.fromDigest)}
BackInv ==
    /\ record.history \in Seq(Good)
    /\ change # Nothing =>
          /\ DigestsOf(change.previous.images, change.digests)
          /\ change.kind # "back" => change.to = <<>>
          /\ change.kind = "back" =>
                /\ change.undoes \in DOMAIN record.history /\ change.to = restoreTo(record.history[change.undoes])
                /\ \A s \in DOMAIN change.to : change.images[s] = change.to[s]

ChangesInv == ChangesTypeOK /\ AtInv /\ BackInv /\ (AnswersWhole => SaidIsTrue)

-----------------------------------------------------------------------------
(* The types of references, projects and changes.                          *)

LEMMA Kinds ==
    /\ \A t \in 1..MaxTag : Tagged(t) \in Reference
    /\ \A t \in 1..MaxTag, i \in Image : Pinned(t, i) \in Reference
    /\ \A i \in Image : ById(i) \in Reference
    /\ Own \in Image /\ OwnImage \in Reference
  <1>1. \A t \in 1..MaxTag : Tagged(t) \in Reference
    BY DEF Tagged, Reference
  <1>2. \A t \in 1..MaxTag, i \in Image : Pinned(t, i) \in Reference
    BY DEF Pinned, Reference
  <1>3. \A i \in Image : ById(i) \in Reference
    BY DEF ById, Reference
  <1>4. Own \in Image
    BY DEF Own, Image
  <1>5. OwnImage \in Reference
    BY <1>4 DEF OwnImage, Reference
  <1> QED BY <1>1, <1>2, <1>3, <1>4, <1>5

LEMMA ReferenceKinds ==
    ASSUME NEW r \in Reference
    PROVE  /\ r.kind \in {"tag", "digest", "id", "own"}
           /\ r.kind = "tag" => r.tag \in 1..MaxTag
           /\ r.kind = "digest" => r.tag \in 1..MaxTag
           /\ r.kind # "tag" => r.image \in Image
  BY DEF Reference

LEMMA SomeIs ==
    ASSUME NEW p
    PROVE  p \in Some <=> DOMAIN p \subseteq Service /\ p \in [DOMAIN p -> Reference]
  BY DEF Some

LEMMA NoneOfThem == <<>> \in Some /\ DOMAIN <<>> = {}
  <1>1. <<>> \in Seq(Reference) /\ Len(<<>>) = 0
    BY EmptySeq
  <1>2. <<>> \in [1..0 -> Reference] /\ DOMAIN <<>> = 1..0
    BY <1>1, LenProperties, Zenon
  <1>3. 1..0 = {}
    OBVIOUS
  <1> QED BY <1>2, <1>3 DEF Some

LEMMA InChange ==
    ASSUME ChangesInv, NEW places, At(places)
    PROVE  /\ change \in Change /\ change # Nothing /\ change.at \in places
           /\ change.previous \in Project /\ change.was \in Made
           /\ \A p \in {"env", "compose", "pull", "check", "up", "settle", "restore", "pin", "putBack", "upAgain"} :
                 LET c == [change EXCEPT !.at = p]
                 IN  /\ c \in Change /\ c # Nothing /\ c.at = p
                     /\ c.kind = change.kind /\ c.images = change.images /\ c.settings = change.settings
                     /\ c.undoes = change.undoes /\ c.to = change.to /\ c.previous = change.previous
                     /\ c.seen = change.seen /\ c.digests = change.digests /\ c.was = change.was
                     /\ c.matched = change.matched
  <1>1. change \in Change /\ change # Nothing /\ change.at \in places
    BY DEF At, ChangesInv, ChangesTypeOK
  <1>2. Nothing \notin Change
    BY ChangesAssumption
  <1>3. ASSUME NEW p \in {"env", "compose", "pull", "check", "up", "settle", "restore", "pin", "putBack", "upAgain"}
        PROVE  LET c == [change EXCEPT !.at = p]
                 IN  /\ c \in Change /\ c # Nothing /\ c.at = p
                     /\ c.kind = change.kind /\ c.images = change.images /\ c.settings = change.settings
                     /\ c.undoes = change.undoes /\ c.to = change.to /\ c.previous = change.previous
                     /\ c.seen = change.seen /\ c.digests = change.digests /\ c.was = change.was
                     /\ c.matched = change.matched
    BY <1>1, <1>2 DEF Change
  <1> QED BY <1>1, <1>3 DEF Change

-----------------------------------------------------------------------------
(* How a step ends: it goes on to the next place, or the change is over.   *)

(* The parts of the invariant a step of a change leaves alone.             *)
LEMMA StepTyped ==
    ASSUME ChangesInv, UNCHANGED <<world, ran, changes>>, record' \in [settings : Nat, history : Seq(Entry)],
           local' \in [Service -> [1..MaxTag -> Nat]], files' \in Project, containers' \in Made,
           change' \in Change \union {Nothing}, said' \in Said \union {Nothing}, faults' \in Nat
    PROVE  ChangesTypeOK'
  BY DEF ChangesInv, ChangesTypeOK, world

(* Going on to a place: what is left to say of the project.                *)
LEMMA OnTo ==
    ASSUME ChangesInv, NEW places, At(places),
           NEW p \in {"env", "compose", "pull", "check", "up", "settle", "restore", "pin", "putBack", "upAgain"},
           onTo(p), UNCHANGED <<world, ran, changes, said, record>>, faults' \in Nat,
           local' \in [Service -> [1..MaxTag -> Nat]], files' \in Project, containers' \in Made,
           change.kind = "edit" => p # "env",
           p \in Untouched => containers' = change.was,
           p \in {"compose", "pull", "check", "up", "settle"} =>
               files'.env = IF change.kind = "edit" THEN change.previous.env ELSE change.settings,
           p \in {"pull", "check", "up", "settle"} =>
               files'.images = change.images /\ files'.settings = change.settings,
           p = "settle" => Runs(files', containers'),
           p = "pin" => change.kind = "update" /\ App \in change.seen,
           p = "upAgain" =>
               \/ files' = change.previous
               \/ /\ change.kind = "update" /\ files'.settings = change.settings /\ files'.env = change.settings
                  /\ AnswersWhole => \A s \in Service : files'.images[s] = ById(change.was[s].image)
    PROVE  ChangesInv'
  <1>1. PICK c : c = change'
    OBVIOUS
  <1>2. /\ c \in Change /\ c # Nothing /\ c.at = p /\ change # Nothing
        /\ c.kind = change.kind /\ c.images = change.images /\ c.settings = change.settings
        /\ c.undoes = change.undoes /\ c.to = change.to /\ c.previous = change.previous
        /\ c.seen = change.seen /\ c.digests = change.digests /\ c.was = change.was
        /\ c.matched = change.matched
    BY <1>1, InChange DEF onTo
  <1>3. ChangesTypeOK'
    BY <1>1, <1>2, StepTyped DEF ChangesInv, ChangesTypeOK
  <1>4. AtInv'
    BY <1>1, <1>2 DEF AtInv, ChangesInv, Runs, names, AnswersWhole
  <1>5. BackInv'
    BY <1>1, <1>2 DEF BackInv, ChangesInv, Good, DigestsOf
  <1>6. (AnswersWhole => SaidIsTrue)'
    BY <1>1, <1>2 DEF SaidIsTrue, AnswersWhole
  <1> QED BY <1>3, <1>4, <1>5, <1>6 DEF ChangesInv

(* A change is over, having said a word that is true.                      *)
LEMMA ChangeOver ==
    ASSUME ChangesInv, NEW places, At(places), NEW word, NEW lost \in BOOLEAN, says(word, lost),
           word \in {"done", "unrecorded", "unchanged", "restored", "failed", "error", "cutOff"},
           UNCHANGED <<world, ran, changes>>, faults' \in Nat,
           record' \in [settings : Nat, history : Seq(Entry)], record'.history \in Seq(Good),
           local' \in [Service -> [1..MaxTag -> Nat]], files' \in Project, containers' \in Made,
           AnswersWhole /\ change.matched /\ word \in {"unchanged", "restored"} =>
               \A s \in Service : /\ containers'[s].image[1] = change.was[s].image[1]
                                  /\ containers'[s].settings = change.was[s].settings,
           /\ AnswersWhole /\ word \in {"done", "unrecorded", "unchanged", "restored"} /\ ~lost
           /\ change.matched \/ (word \in {"done", "unrecorded"} /\ change.kind # "edit")
           => Runs(files', containers') /\ files'.env = files'.settings
    PROVE  ChangesInv'
  <1>1. change \in Change
    BY InChange
  <1>2. PICK r : r = said'
    OBVIOUS
  <1>3. /\ r \in Said /\ r.word = word /\ r.kind = change.kind /\ r.was = change.was
        /\ r.matched = change.matched /\ r.lost = lost /\ change' = Nothing
    BY <1>1, <1>2 DEF says, Change, Said
  <1>4. ChangesTypeOK'
    BY <1>2, <1>3, StepTyped
  <1>5. AtInv' /\ BackInv'
    <2>1. Good' = Good
      BY DEF Good, DigestsOf
    <2> HIDE DEF Good
    <2> QED BY <1>3, <2>1 DEF AtInv, BackInv
  <1>6. (AnswersWhole => SaidIsTrue)'
    BY <1>2, <1>3 DEF SaidIsTrue, AnswersWhole, describes, Runs, names
  <1> QED BY <1>4, <1>5, <1>6 DEF ChangesInv

LEMMA Holds ==
    ASSUME ChangesInv
    PROVE  /\ AtInv /\ BackInv /\ record.history \in Seq(Good)
           /\ catalog \in [Service -> 1..MaxTag] /\ registry \in [Service -> [1..MaxTag -> Nat]]
           /\ local \in [Service -> [1..MaxTag -> Nat]] /\ files \in Project /\ containers \in Made
           /\ record \in [settings : Nat, history : Seq(Entry)] /\ faults \in Nat /\ changes \in Nat
  BY DEF ChangesInv, ChangesTypeOK, BackInv

LEMMA FaultTyped == ASSUME ChangesInv, fault PROVE faults' \in Nat
  BY Holds DEF fault

-----------------------------------------------------------------------------
(* The steps.                                                              *)

(* Compose makes containers of what the project names.                     *)
LEMMA DeployedTyped ==
    ASSUME ChangesInv, NEW s \in Service
    PROVE  /\ deployed(s) \in [image : Image, settings : Nat] /\ deployed(s).settings = files.settings
           /\ names(files.images[s], deployed(s).image)
           /\ files.images[s].kind = "tag" => deployed(s).image[1] = files.images[s].tag
           /\ files.images[s].kind # "tag" => deployed(s).image = files.images[s].image
           /\ deployed(s).image[2] \in Nat
  <1>1. PICK ref : ref = files.images[s]
    OBVIOUS
  <1>2. ref \in Reference /\ files.settings \in Nat
    BY <1>1, Holds DEF Project
  <1>3. CASE ref.kind = "tag"
    <2>1. ref.tag \in 1..MaxTag
      BY <1>2, <1>3, ReferenceKinds
    <2>2. PICK b \in Nat : b = IF local[s][ref.tag] = 0 THEN registry[s][ref.tag] ELSE local[s][ref.tag]
      BY <2>1, Holds
    <2>3. deployed(s) = [image |-> <<ref.tag, b>>, settings |-> files.settings]
      BY <1>1, <1>3, <2>2 DEF deployed
    <2> QED BY <1>1, <1>2, <1>3, <2>1, <2>2, <2>3 DEF names, Image
  <1>4. CASE ref.kind # "tag"
    <2>1. ref.image \in Image
      BY <1>2, <1>4, ReferenceKinds
    <2>2. deployed(s) = [image |-> ref.image, settings |-> files.settings]
      BY <1>1, <1>4 DEF deployed
    <2> QED BY <1>1, <1>2, <1>4, <2>1, <2>2 DEF names, Image
  <1> QED BY <1>3, <1>4

LEMMA UpTyped ==
    ASSUME ChangesInv, NEW S \in SUBSET Service, upFor(S)
    PROVE  containers' \in Made /\ local' \in [Service -> [1..MaxTag -> Nat]]
  <1>1. containers' \in Made
    BY DeployedTyped, Holds DEF upFor, Made
  <1>2. ASSUME NEW s \in Service
        PROVE  (IF s \in S /\ files.images[s].kind = "tag"
                THEN [local[s] EXCEPT ![files.images[s].tag] = deployed(s).image[2]] ELSE local[s]) \in [1..MaxTag -> Nat]
    <2>1. local[s] \in [1..MaxTag -> Nat] /\ deployed(s).image[2] \in Nat
      BY DeployedTyped, Holds
    <2> QED BY <2>1
  <1>3. local' \in [Service -> [1..MaxTag -> Nat]]
    BY <1>2 DEF upFor
  <1> QED BY <1>1, <1>3

LEMMA AllUp ==
    ASSUME ChangesInv, upFor(Service), files' = files
    PROVE  /\ containers' \in Made /\ local' \in [Service -> [1..MaxTag -> Nat]] /\ Runs(files', containers')
           /\ \A s \in Service : /\ containers'[s].settings = files.settings
                                 /\ files.images[s].kind = "tag" => containers'[s].image[1] = files.images[s].tag
                                 /\ files.images[s].kind # "tag" => containers'[s].image = files.images[s].image
  <1>1. \A s \in Service : containers'[s] = deployed(s)
    BY DEF upFor
  <1> QED BY <1>1, DeployedTyped, UpTyped DEF Runs

LEMMA WriteEnvKeeps == ASSUME ChangesInv, writeEnv PROVE ChangesInv'
  <1>1. At({"env"}) /\ onTo("compose") /\ files' = [files EXCEPT !.env = change.settings]
        /\ UNCHANGED <<world, local, containers, record, said, ran, changes, faults>>
    BY DEF writeEnv, notes
  <1>2. change \in Change /\ change # Nothing /\ change.at = "env" /\ change.settings \in Nat
    BY <1>1, InChange DEF Change
  <1>3. files' \in Project /\ files'.env = change.settings
    BY <1>1, <1>2, Holds DEF Project
  <1>4. change.kind # "edit" /\ containers = change.was
    BY <1>2, Holds DEF AtInv, Untouched
  <1> QED BY <1>1, <1>2, <1>3, <1>4, Holds, OnTo DEF Untouched

LEMMA WriteComposeKeeps == ASSUME ChangesInv, writeCompose PROVE ChangesInv'
  <1>1. At({"compose"}) /\ files' = [files EXCEPT !.images = change.images, !.settings = change.settings]
        /\ UNCHANGED <<world, local, containers, record, said, ran, changes, faults>>
        /\ onTo(IF change.kind \in {"settings", "edit"} THEN "check" ELSE "pull")
    BY DEF writeCompose, notes
  <1>2. change \in Change /\ change # Nothing /\ change.at = "compose" /\ change.settings \in Nat
        /\ change.images \in [Service -> Reference]
    BY <1>1, InChange DEF Change
  <1>3. files' \in Project /\ files'.images = change.images /\ files'.settings = change.settings /\ files'.env = files.env
    BY <1>1, <1>2, Holds DEF Project
  <1>4. containers = change.was /\ files.env = IF change.kind = "edit" THEN change.previous.env ELSE change.settings
    BY <1>2, Holds DEF AtInv, Untouched
  <1>5. PICK p \in {"check", "pull"} : onTo(p)
    BY <1>1
  <1> QED BY <1>1, <1>2, <1>3, <1>4, <1>5, Holds, OnTo DEF Untouched

(* What is written is what is pulled and checked.                          *)
LEMMA WhatIsWritten ==
    ASSUME ChangesInv, NEW places, At(places), change.at \in {"pull", "check", "up", "settle"}
    PROVE  /\ files.images = change.images /\ files.settings = change.settings
           /\ files.env = IF change.kind = "edit" THEN change.previous.env ELSE change.settings
  BY InChange, Holds DEF AtInv

LEMMA PullKeeps == ASSUME ChangesInv, pull PROVE ChangesInv'
  <1>1. At({"pull"}) /\ onTo("up") /\ UNCHANGED <<world, files, containers, record, said, ran, changes, faults>>
    BY DEF pull, notes
  <1>2. local' \in [Service -> [1..MaxTag -> Nat]]
    <2>1. ASSUME NEW s \in Service
          PROVE  (IF files.images[s].kind = "tag"
                  THEN [local[s] EXCEPT ![files.images[s].tag] = registry[s][files.images[s].tag]] ELSE local[s])
                 \in [1..MaxTag -> Nat]
      <3>1. local[s] \in [1..MaxTag -> Nat] /\ registry[s] \in [1..MaxTag -> Nat] /\ files.images[s] \in Reference
        BY Holds DEF Project
      <3>2. files.images[s].kind = "tag" => registry[s][files.images[s].tag] \in Nat
        BY <3>1, ReferenceKinds
      <3> QED BY <3>1, <3>2
    <2> QED BY <2>1 DEF pull
  <1>3. change.at = "pull"
    BY <1>1 DEF At
  <1> QED BY <1>1, <1>2, <1>3, WhatIsWritten, Holds, OnTo DEF Untouched

LEMMA CheckKeeps == ASSUME ChangesInv, check PROVE ChangesInv'
  <1>1. At({"check"}) /\ onTo("up") /\ UNCHANGED <<world, local, files, containers, record, said, ran, changes, faults>>
    BY DEF check, notes, host
  <1>2. change.at = "check"
    BY <1>1 DEF At
  <1> QED BY <1>1, <1>2, WhatIsWritten, Holds, OnTo DEF Untouched

LEMMA ComposeUpKeeps == ASSUME ChangesInv, composeUp PROVE ChangesInv'
  <1>1. At({"up"}) /\ onTo("settle") /\ upFor(Service)
        /\ UNCHANGED <<world, files, record, said, ran, changes, faults>>
    BY DEF composeUp, notes
  <1>2. change.at = "up"
    BY <1>1 DEF At
  <1> QED BY <1>1, <1>2, AllUp, WhatIsWritten, Holds, OnTo DEF Untouched

-----------------------------------------------------------------------------
(* The history keeps good entries.                                         *)
LEMMA Newest ==
    ASSUME NEW S, NEW q \in Seq(S)
    PROVE  newest(q) \in Seq(S)
  <1>1. Len(q) \in Nat /\ HistoryLimit \in Nat
    BY ChangesAssumption, LenProperties
  <1>2. PICK n \in Nat : n = (IF Len(q) < HistoryLimit THEN Len(q) ELSE HistoryLimit) /\ n =< Len(q)
    BY <1>1
  <1>3. \A i \in 1..n : q[i] \in S
    BY <1>1, <1>2
  <1>4. SubSeq(q, 1, n) \in Seq(S)
    BY <1>3, SubSeqProperties
  <1> QED BY <1>2, <1>4 DEF newest

LEMMA EntryGood ==
    ASSUME ChangesInv, NEW places, At(places), NEW S \in SUBSET Service, NEW back \in BOOLEAN
    PROVE  entryOf(S, back) \in Good
  <1>1. change \in Change /\ change.previous.images \in [Service -> Reference] /\ change.digests \in Some
        /\ DigestsOf(change.previous.images, change.digests)
    BY InChange, Holds DEF Change, Project, BackInv
  <1>2. PICK e : e = entryOf(S, back)
    OBVIOUS
  <1>3. /\ e.from = [s \in S |-> change.previous.images[s]]
        /\ e.fromDigest = [s \in DOMAIN change.digests \intersect S |-> change.digests[s]]
        /\ e = [from |-> e.from, fromDigest |-> e.fromDigest, rolledBack |-> back]
    BY <1>2 DEF entryOf, movedFrom
  <1>4. e.from \in Some
    BY <1>1, <1>3 DEF Some
  <1>5. e.fromDigest \in Some
    <2>1. change.digests \in [DOMAIN change.digests -> Reference]
      BY <1>1, SomeIs
    <2>2. e.fromDigest \in [DOMAIN change.digests \intersect S -> Reference]
      BY <1>3, <2>1
    <2> QED BY <2>2 DEF Some
  <1>6. DigestsOf(e.from, e.fromDigest)
    BY <1>1, <1>3 DEF DigestsOf
  <1> QED BY <1>2, <1>3, <1>4, <1>5, <1>6 DEF Good, Entry

LEMMA HistoryGood ==
    ASSUME ChangesInv, NEW places, At(places)
    PROVE  newHistory \in Seq(Good)
  <1>1. PICK old : old = record.history
    OBVIOUS
  <1>2. old \in Seq(Good) /\ moved \in SUBSET Service
    BY <1>1, Holds DEF moved
  <1>3. newest(<<entryOf(moved, FALSE)>> \o old) \in Seq(Good)
    <2>1. PICK e \in Good : e = entryOf(moved, FALSE)
      BY <1>2, EntryGood
    <2>2. <<e>> \o old \in Seq(Good)
      BY <1>2
    <2> QED BY <2>1, <2>2, Newest
  <1>4. goesBack => newest(<<entryOf(DOMAIN change.to, TRUE)>> \o SubSeq(old, change.undoes + 1, Len(old))) \in Seq(Good)
    <2> SUFFICES ASSUME goesBack
                 PROVE  newest(<<entryOf(DOMAIN change.to, TRUE)>> \o SubSeq(old, change.undoes + 1, Len(old))) \in Seq(Good)
      OBVIOUS
    <2>1. DOMAIN change.to \in SUBSET Service
      <3>1. change.to \in Some
        BY InChange DEF Change
      <3> QED BY <3>1, SomeIs
    <2>2. PICK e \in Good : e = entryOf(DOMAIN change.to, TRUE)
      BY <2>1, EntryGood
    <2>3. PICK n \in Nat : n = change.undoes
      BY InChange DEF Change
    <2>4. SubSeq(old, n + 1, Len(old)) \in Seq(Good)
      <3>1. Len(old) \in Int /\ n + 1 \in Int /\ \A i \in n + 1 .. Len(old) : old[i] \in Good
        BY <1>2, LenProperties
      <3> QED BY <3>1, SubSeqProperties
    <2>5. <<e>> \o SubSeq(old, n + 1, Len(old)) \in Seq(Good)
      BY <2>4
    <2> QED BY <2>2, <2>3, <2>5, Newest
  <1>5. \/ newHistory = newest(<<entryOf(moved, FALSE)>> \o old)
        \/ goesBack /\ newHistory = newest(<<entryOf(DOMAIN change.to, TRUE)>> \o SubSeq(old, change.undoes + 1, Len(old)))
        \/ newHistory = old
    <2>1. CASE change.kind = "update" /\ moved # {}
      BY <1>1, <2>1 DEF newHistory
    <2>2. CASE ~(change.kind = "update" /\ moved # {}) /\ goesBack
      BY <1>1, <2>2 DEF newHistory, goesBack
    <2>3. CASE ~(change.kind = "update" /\ moved # {}) /\ ~goesBack
      BY <1>1, <2>3 DEF newHistory
    <2> QED BY <2>1, <2>2, <2>3
  <1> QED BY <1>2, <1>3, <1>4, <1>5

LEMMA GoodEntries == Good \subseteq Entry
  BY DEF Good

LEMMA HistoryTyped == ASSUME NEW q \in Seq(Good) PROVE q \in Seq(Entry)
  BY GoodEntries

LEMMA SettleKeeps == ASSUME ChangesInv, settleChange PROVE ChangesInv'
  <1>1. /\ At({"settle"}) /\ says("done", FALSE) /\ UNCHANGED <<world, local, files, containers, ran, changes, faults>>
        /\ record' = [settings |-> IF change.kind = "settings" THEN change.settings ELSE record.settings,
                      history |-> newHistory]
    BY DEF settleChange, ends, host
  <1>2. change \in Change /\ change # Nothing /\ change.at = "settle" /\ change.settings \in Nat
    BY <1>1, InChange DEF Change
  <1>3. newHistory \in Seq(Good) /\ newHistory \in Seq(Entry)
    BY <1>1, HistoryGood, HistoryTyped
  <1>4. record' \in [settings : Nat, history : Seq(Entry)] /\ record'.history \in Seq(Good)
    <2> HIDE DEF Good
    <2> QED BY <1>1, <1>2, <1>3, Holds
  <1>5. Runs(files, containers) /\ files.settings = change.settings
        /\ files.env = IF change.kind = "edit" THEN change.previous.env ELSE change.settings
    BY <1>1, <1>2, WhatIsWritten, Holds DEF AtInv
  <1>6. change.matched \/ change.kind # "edit" => files.env = files.settings
    BY <1>2, <1>5, Holds DEF AtInv
  <1> QED BY <1>1, <1>4, <1>5, <1>6, Holds, ChangeOver DEF Runs

-----------------------------------------------------------------------------
(* The steps that fail, and the ways back.                                 *)

LEMMA StepFailsKeeps == ASSUME ChangesInv, stepFails PROVE ChangesInv'
  <1>1. /\ At({"env", "compose", "pull", "check"}) /\ fault
        /\ UNCHANGED <<world, local, files, containers, record, ran, changes>>
        /\ says("error", FALSE) \/ (onTo("restore") /\ UNCHANGED said)
    BY DEF stepFails, ends, host
  <1>2. faults' \in Nat
    BY <1>1, FaultTyped
  <1>3. CASE says("error", FALSE)
    BY <1>1, <1>2, <1>3, Holds, ChangeOver
  <1>4. CASE onTo("restore") /\ UNCHANGED said
    <2>1. containers = change.was
      BY <1>1, InChange, Holds DEF AtInv, Untouched
    <2> QED BY <1>1, <1>2, <1>4, <2>1, Holds, OnTo
  <1> QED BY <1>1, <1>3, <1>4

(* The files of before, if the change read what described the app.         *)
LEMMA AsTheyWere ==
    ASSUME ChangesInv, NEW places, At(places)
    PROVE  /\ change.previous \in Project
           /\ change.matched => Runs(change.previous, change.was) /\ change.previous.env = change.previous.settings
  BY InChange, Holds DEF AtInv

LEMMA RestoreFilesKeeps == ASSUME ChangesInv, restoreFiles PROVE ChangesInv'
  <1>1. /\ At({"restore"}) /\ files' = change.previous /\ says("unchanged", FALSE)
        /\ UNCHANGED <<world, local, containers, record, ran, changes, faults>>
    BY DEF restoreFiles, ends, asBefore
  <1>2. containers = change.was
    BY <1>1, InChange, Holds DEF AtInv, Untouched
  <1>3. change.matched => Runs(files', containers') /\ files'.env = files'.settings
    BY <1>1, <1>2, AsTheyWere
  <1> QED BY <1>1, <1>2, <1>3, AsTheyWere, Holds, ChangeOver

LEMMA AsBeforeFailsTyped ==
    ASSUME ChangesInv, NEW places, At(places), asBeforeFails
    PROVE  files' \in Project
  BY AsTheyWere, Holds DEF asBeforeFails, Project

LEMMA RestoreFilesFailsKeeps == ASSUME ChangesInv, restoreFilesFails PROVE ChangesInv'
  <1>1. /\ At({"restore"}) /\ asBeforeFails /\ fault
        /\ UNCHANGED <<world, local, containers, record, ran, changes>>
        /\ says(IF change.kind = "edit" THEN "error" ELSE "unchanged", TRUE)
    BY DEF restoreFilesFails
  <1>2. faults' \in Nat /\ files' \in Project
    BY <1>1, FaultTyped, AsBeforeFailsTyped
  <1>3. containers = change.was
    BY <1>1, InChange, Holds DEF AtInv, Untouched
  <1>4. PICK word \in {"error", "unchanged"} : says(word, TRUE)
    BY <1>1
  <1> QED BY <1>1, <1>2, <1>3, <1>4, Holds, ChangeOver

LEMMA FailedKeeps ==
    ASSUME ChangesInv, NEW places, At(places), failed, UNCHANGED <<world, ran, changes, said, record>>,
           faults' \in Nat, local' \in [Service -> [1..MaxTag -> Nat]], files' = files, containers' \in Made
    PROVE  ChangesInv'
  <1>1. CASE change.kind = "update" /\ App \in change.seen
    <2>1. onTo("pin")
      BY <1>1 DEF failed
    <2> QED BY <1>1, <2>1, Holds, OnTo DEF Untouched
  <1>2. CASE ~(change.kind = "update" /\ App \in change.seen)
    <2>1. onTo("putBack")
      BY <1>2 DEF failed
    <2> QED BY <2>1, Holds, OnTo DEF Untouched
  <1> QED BY <1>1, <1>2

LEMMA ComposeUpFailsKeeps == ASSUME ChangesInv, NEW S \in SUBSET Service, composeUpFails(S) PROVE ChangesInv'
  <1>1. At({"up"}) /\ upFor(S) /\ failed /\ fault /\ UNCHANGED <<world, files, record, said, ran, changes>>
    BY DEF composeUpFails, notes
  <1> QED BY <1>1, UpTyped, FaultTyped, FailedKeeps

LEMMA UnsettledKeeps == ASSUME ChangesInv, unsettled PROVE ChangesInv'
  <1>1. /\ At({"settle"}) /\ fault /\ UNCHANGED <<world, local, files, containers, record, ran, changes>>
        /\ (failed /\ UNCHANGED said) \/ (change.kind = "back" /\ says("unrecorded", FALSE))
    BY DEF unsettled, ends, goesBack, host
  <1>2. faults' \in Nat
    BY <1>1, FaultTyped
  <1>3. CASE failed /\ UNCHANGED said
    BY <1>1, <1>2, <1>3, Holds, FailedKeeps
  <1>4. CASE change.kind = "back" /\ says("unrecorded", FALSE)
    <2>1. change # Nothing /\ change.at = "settle"
      BY <1>1 DEF At
    <2>2. Runs(files, containers) /\ files.settings = change.settings /\ files.env = change.settings
      BY <1>1, <1>4, <2>1, WhatIsWritten, Holds DEF AtInv
    <2> QED BY <1>1, <1>2, <1>4, <2>2, Holds, ChangeOver DEF Runs
  <1> QED BY <1>1, <1>3, <1>4

(* The images that are pinned are those that ran.                          *)
LEMMA PinKeeps == ASSUME ChangesInv, pin PROVE ChangesInv'
  <1>1. /\ At({"pin"}) /\ onTo("upAgain") /\ UNCHANGED <<world, local, containers, record, said, ran, changes, faults>>
        /\ files' = [images |-> [s \in Service |-> pinnedImage(s)], settings |-> change.settings, env |-> change.settings]
    BY DEF pin, notes
  <1>2. /\ change \in Change /\ change # Nothing /\ change.at = "pin" /\ change.settings \in Nat
        /\ change.images \in [Service -> Reference] /\ change.was \in Made
    BY <1>1, InChange DEF Change
  <1>3. change.kind = "update" /\ App \in change.seen /\ change.seen \in Answers
    BY <1>2, Holds DEF AtInv
  <1>4. \A s \in Service : change.was[s].image \in Image
    BY <1>2 DEF Made
  <1>5. \A s \in Service : pinnedImage(s) \in Reference
    BY <1>2, <1>4, Kinds DEF pinnedImage
  <1>6. files' \in Project
    BY <1>1, <1>2, <1>5 DEF Project
  <1>7. files'.settings = change.settings /\ files'.env = change.settings
    BY <1>1
  <1>8. AnswersWhole => \A s \in Service : files'.images[s] = ById(change.was[s].image)
    BY <1>1, <1>3 DEF AnswersWhole, pinnedImage
  <1> QED BY <1>1, <1>3, <1>6, <1>7, <1>8, Holds, OnTo DEF Untouched

LEMMA PinFailsKeeps == ASSUME ChangesInv, pinFails PROVE ChangesInv'
  <1>1. At({"pin"}) /\ onTo("putBack") /\ fault /\ UNCHANGED <<world, local, files, containers, record, said, ran, changes>>
    BY DEF pinFails, host, notes
  <1> QED BY <1>1, FaultTyped, Holds, OnTo DEF Untouched

LEMMA FilesBackKeeps == ASSUME ChangesInv, filesBack PROVE ChangesInv'
  <1>1. /\ At({"putBack"}) /\ files' = change.previous /\ onTo("upAgain")
        /\ UNCHANGED <<world, local, containers, record, said, ran, changes, faults>>
    BY DEF filesBack, asBefore, notes
  <1> QED BY <1>1, AsTheyWere, Holds, OnTo DEF Untouched

LEMMA FilesBackFailsKeeps == ASSUME ChangesInv, filesBackFails PROVE ChangesInv'
  <1>1. /\ At({"putBack"}) /\ asBeforeFails /\ says("failed", FALSE) /\ fault
        /\ UNCHANGED <<world, local, containers, record, ran, changes>>
    BY DEF filesBackFails, ends
  <1> QED BY <1>1, AsBeforeFailsTyped, FaultTyped, Holds, ChangeOver

(* Made again of what ran, by the files of before or by its pinned images. *)
LEMMA UpAgainKeeps == ASSUME ChangesInv, upAgain PROVE ChangesInv'
  <1>1. At({"upAgain"}) /\ upFor(Service) /\ says("restored", FALSE)
        /\ UNCHANGED <<world, files, record, ran, changes, faults>>
    BY DEF upAgain, ends
  <1>2. change # Nothing /\ change.at = "upAgain" /\ change \in Change
    BY <1>1, InChange
  <1>3. containers' \in Made /\ local' \in [Service -> [1..MaxTag -> Nat]] /\ Runs(files', containers')
        /\ \A s \in Service : /\ containers'[s].settings = files.settings
                              /\ files.images[s].kind = "tag" => containers'[s].image[1] = files.images[s].tag
                              /\ files.images[s].kind # "tag" => containers'[s].image = files.images[s].image
    BY <1>1, AllUp
  <1>4. ASSUME AnswersWhole, change.matched
        PROVE  /\ \A s \in Service : /\ containers'[s].image[1] = change.was[s].image[1]
                                     /\ containers'[s].settings = change.was[s].settings
               /\ files.env = files.settings
    <2>1. Runs(change.previous, change.was) /\ change.previous.env = change.previous.settings
          /\ change.previous.settings = record.settings /\ (change.kind = "update" => change.settings = record.settings)
      BY <1>2, <1>4, Holds DEF AtInv
    <2>2. CASE files = change.previous
      <3>1. ASSUME NEW s \in Service
            PROVE  containers'[s].image[1] = change.was[s].image[1] /\ containers'[s].settings = change.was[s].settings
        BY <1>3, <2>1, <2>2 DEF Runs, names
      <3> QED BY <2>1, <2>2, <3>1
    <2>3. CASE /\ change.kind = "update" /\ files.settings = change.settings /\ files.env = change.settings
               /\ \A s \in Service : files.images[s] = ById(change.was[s].image)
      <3>1. ASSUME NEW s \in Service
            PROVE  containers'[s].image[1] = change.was[s].image[1] /\ containers'[s].settings = change.was[s].settings
        <4>1. files.images[s].kind # "tag" /\ files.images[s].image = change.was[s].image
          <5>1. PICK i : i = change.was[s].image
            OBVIOUS
          <5>2. files.images[s] = ById(i)
            BY <2>3, <5>1
          <5> QED BY <5>1, <5>2 DEF ById
        <4> QED BY <1>3, <2>1, <2>3, <4>1 DEF Runs
      <3> QED BY <2>3, <3>1
    <2> QED BY <1>2, <1>4, <2>2, <2>3, Holds DEF AtInv
  <1> QED BY <1>1, <1>3, <1>4, Holds, ChangeOver

LEMMA UpAgainFailsKeeps == ASSUME ChangesInv, NEW S \in SUBSET Service, upAgainFails(S) PROVE ChangesInv'
  <1>1. At({"upAgain"}) /\ upFor(S) /\ says("failed", FALSE) /\ fault /\ UNCHANGED <<world, files, record, ran, changes>>
    BY DEF upAgainFails, ends
  <1> QED BY <1>1, UpTyped, FaultTyped, Holds, ChangeOver

LEMMA CutOffKeeps == ASSUME ChangesInv, cutOff PROVE ChangesInv'
  <1>1. /\ At({change.at}) /\ says("cutOff", FALSE) /\ fault
        /\ UNCHANGED <<world, local, files, containers, record, ran, changes>>
    BY DEF cutOff, At, ends, host
  <1> QED BY <1>1, FaultTyped, Holds, ChangeOver

-----------------------------------------------------------------------------
(* A change begins.                                                        *)

(* What ran only grows, so what an entry knows stays good.                 *)
LEMMA GoodStays ==
    ASSUME \A s \in Service : ran[s] \subseteq ran'[s]
    PROVE  Good \subseteq Good'
  <1> SUFFICES ASSUME NEW e \in Good PROVE e \in Good'
    OBVIOUS
  <1>1. e \in Entry /\ DigestsOf(e.from, e.fromDigest) /\ DOMAIN e.from \subseteq Service
    BY SomeIs DEF Good, Entry
  <1>2. \A s \in DOMAIN e.fromDigest : \E image \in ran'[s] : e.fromDigest[s] = Pinned(e.from[s].tag, image)
    BY <1>1 DEF DigestsOf
  <1> QED BY <1>1, <1>2 DEF Good, DigestsOf

LEMMA DigestsTyped ==
    ASSUME ChangesInv, NEW S \in SUBSET Service
    PROVE  /\ runningDigests(S) \in Some
           /\ \A s \in DOMAIN runningDigests(S) :
                 /\ s \in Service /\ files.images[s].kind = "tag"
                 /\ runningDigests(S)[s] = Pinned(files.images[s].tag, containers[s].image)
  <1> DEFINE D == {x \in S : files.images[x].kind = "tag" /\ containers[x].image # Own}
  <1>1. runningDigests(S) = [s \in D |-> Pinned(files.images[s].tag, containers[s].image)]
    BY DEF runningDigests
  <1>2. \A s \in D : s \in Service /\ files.images[s].kind = "tag"
    OBVIOUS
  <1>3. \A s \in D : Pinned(files.images[s].tag, containers[s].image) \in Reference
    <2> SUFFICES ASSUME NEW s \in D PROVE Pinned(files.images[s].tag, containers[s].image) \in Reference
      OBVIOUS
    <2>1. files.images[s] \in Reference /\ containers[s].image \in Image /\ files.images[s].kind = "tag"
      BY <1>2, Holds DEF Project, Made
    <2> HIDE DEF D
    <2>2. files.images[s].tag \in 1..MaxTag
      BY <2>1, ReferenceKinds
    <2> QED BY <2>1, <2>2, Kinds
  <1>4. D \subseteq Service
    OBVIOUS
  <1> HIDE DEF D
  <1>5. runningDigests(S) \in [D -> Reference]
    BY <1>1, <1>3
  <1> QED BY <1>1, <1>2, <1>4, <1>5 DEF Some

LEMMA BeginKeeps ==
    ASSUME ChangesInv, NEW kind \in {"update", "back", "settings", "edit"}, NEW images \in [Service -> Reference],
           NEW settings \in Nat, NEW undoes \in Nat, NEW to \in Some, NEW S \in SUBSET Service,
           begin(kind, images, settings, undoes, to, S),
           kind = "update" => settings = record.settings /\ S \in Answers,
           kind = "edit" => settings = files.settings,
           kind # "back" => to = <<>>,
           kind = "back" => /\ undoes \in DOMAIN record.history /\ to = restoreTo(record.history[undoes])
                            /\ \A s \in DOMAIN to : images[s] = to[s]
    PROVE  ChangesInv'
  <1>1. PICK c : c = change'
    OBVIOUS
  <1>2. PICK d : d = runningDigests(S)
    OBVIOUS
  <1>3. PICK m \in BOOLEAN : m = (describes /\ files.settings = record.settings)
    OBVIOUS
  <1>4. PICK p : p = IF kind = "edit" THEN "compose" ELSE "env"
    OBVIOUS
  <1>5. c = [kind |-> kind, at |-> p, images |-> images, settings |-> settings, undoes |-> undoes, to |-> to,
             previous |-> files, seen |-> S, digests |-> d, was |-> containers, matched |-> m]
    BY <1>1, <1>2, <1>3, <1>4 DEF begin
  <1>6. c \in Change /\ c # Nothing
    <2>1. p \in {"compose", "env"} /\ d \in Some /\ files \in Project /\ containers \in Made
      BY <1>2, <1>4, DigestsTyped, Holds
    <2>2. c \in Change
      BY <1>5, <2>1 DEF Change
    <2> QED BY <2>2, ChangesAssumption
  <1>7. UNCHANGED <<world, local, files, containers, record, said, faults>>
        /\ changes' = changes + 1 /\ ran' = [s \in Service |-> ran[s] \union {containers[s].image}]
    BY DEF begin, host
  <1>8. ChangesTypeOK'
    <2>1. ran' \in [Service -> SUBSET Image]
      BY <1>7 DEF ChangesInv, ChangesTypeOK, Made
    <2> QED BY <1>1, <1>6, <1>7, <2>1 DEF ChangesInv, ChangesTypeOK, world
  <1>9. /\ c.kind = kind /\ c.at = p /\ c.images = images /\ c.settings = settings /\ c.undoes = undoes /\ c.to = to
        /\ c.previous = files /\ c.seen = S /\ c.digests = d /\ c.was = containers /\ c.matched = m
    BY <1>5
  <1>10. AtInv'
    <2>1. m => Runs(files, containers) /\ files.env = files.settings /\ files.settings = record.settings
      BY <1>3 DEF describes, Runs
    <2>2. p = "compose" => kind = "edit"
      BY <1>4
    <2>3. p \in {"compose", "env"} /\ (kind = "edit" => p = "compose")
      BY <1>4
    <2> QED BY <1>1, <1>7, <1>9, <2>1, <2>2, <2>3 DEF AtInv, Runs, names
  <1>11. BackInv'
    <2>1. \A s \in Service : ran[s] \subseteq ran'[s] /\ containers[s].image \in ran'[s]
      BY <1>7
    <2>2. record'.history \in Seq(Good')
      <3>1. Good \subseteq Good'
        BY <2>1, GoodStays
      <3> HIDE DEF Good
      <3> QED BY <1>7, <3>1, Holds
    <2>3. \A s \in DOMAIN d : /\ s \in Service /\ files.images[s].kind = "tag"
                              /\ d[s] = Pinned(files.images[s].tag, containers[s].image)
      BY <1>2, DigestsTyped
    <2>4. DOMAIN files.images = Service
      BY Holds DEF Project
    <2>5. DigestsOf(files.images, d)'
      BY <1>7, <2>1, <2>3, <2>4 DEF DigestsOf
    <2>6. kind = "back" => restoreTo(record.history[undoes])' = restoreTo(record.history[undoes])
      BY <1>7 DEF restoreTo, pinFor
    <2> HIDE DEF Good
    <2> QED BY <1>1, <1>7, <1>9, <2>2, <2>5 DEF BackInv, DigestsOf, restoreTo, pinFor
  <1>12. SaidIsTrue'
    BY <1>1, <1>6 DEF SaidIsTrue
  <1> QED BY <1>8, <1>10, <1>11, <1>12 DEF ChangesInv

LEMMA FromCatalogTyped == ASSUME ChangesInv PROVE FromCatalog \in [Service -> Reference]
  BY Kinds, Holds DEF FromCatalog

LEMMA UpdateKeeps == ASSUME ChangesInv, NEW S \in Answers, update(S) PROVE ChangesInv'
  <1>1. begin("update", FromCatalog, record.settings, 0, <<>>, S)
    BY DEF update
  <1> QED BY <1>1, BeginKeeps, FromCatalogTyped, NoneOfThem, Holds, ChangesAssumption

LEMMA ReconfigureKeeps == ASSUME ChangesInv, reconfigure PROVE ChangesInv'
  <1>1. begin("settings", FromCatalog, record.settings + 1, 0, <<>>, {})
    BY DEF reconfigure
  <1>2. record.settings + 1 \in Nat
    BY Holds
  <1> QED BY <1>1, <1>2, BeginKeeps, FromCatalogTyped, NoneOfThem

LEMMA EditComposeKeeps == ASSUME ChangesInv, editCompose PROVE ChangesInv'
  <1>1. PICK images : images = [files.images EXCEPT ![App] = OwnImage]
    OBVIOUS
  <1>2. images \in [Service -> Reference] /\ files.settings \in Nat
    BY <1>1, Kinds, Holds DEF Project
  <1>3. begin("edit", images, files.settings, 0, <<>>, {})
    BY <1>1 DEF editCompose
  <1> QED BY <1>2, <1>3, BeginKeeps, NoneOfThem

(* What may be pinned again is a reference of a service of the app.        *)
LEMMA RestoreTyped ==
    ASSUME NEW e \in Entry
    PROVE  restoreTo(e) \in Some
  <1> DEFINE D == {x \in DOMAIN e.from : e.from[x].kind \in {"tag", "digest"}}
  <1>1. e.from \in [DOMAIN e.from -> Reference] /\ DOMAIN e.from \subseteq Service
        /\ e.fromDigest \in [DOMAIN e.fromDigest -> Reference]
    BY SomeIs DEF Entry
  <1>2. \A s \in D : pinFor(e, s) \in Reference
    BY <1>1 DEF pinFor
  <1>3. restoreTo(e) = [s \in D |-> pinFor(e, s)]
    BY DEF restoreTo
  <1>4. D \subseteq Service
    BY <1>1
  <1> HIDE DEF D
  <1> QED BY <1>2, <1>3, <1>4 DEF Some

LEMMA RollbackKeeps ==
    ASSUME ChangesInv, NEW i \in 1..HistoryLimit, NEW S \in Answers, rollbackApp(i, S)
    PROVE  ChangesInv'
  <1>1. PICK to : to = restoreTo(record.history[i])
    OBVIOUS
  <1>2. PICK images : images = [s \in Service |-> IF s \in DOMAIN to THEN to[s] ELSE Tagged(catalog[s])]
    OBVIOUS
  <1>3. i \in DOMAIN record.history /\ begin("back", images, record.settings, i, to, S)
    BY <1>1, <1>2 DEF rollbackApp
  <1>4. record.history[i] \in Entry /\ record.settings \in Nat /\ i \in Nat
    BY <1>3, Holds
  <1>5. to \in Some
    BY <1>1, <1>4, RestoreTyped
  <1>6. DOMAIN to \subseteq Service /\ to \in [DOMAIN to -> Reference]
    BY <1>5, SomeIs
  <1>7. images \in [Service -> Reference]
    BY <1>2, <1>6, Kinds, Holds
  <1>8. \A s \in DOMAIN to : images[s] = to[s]
    BY <1>2, <1>6
  <1>9. S \in SUBSET Service
    BY ChangesAssumption
  <1> QED BY <1>1, <1>3, <1>4, <1>5, <1>7, <1>8, <1>9, BeginKeeps

-----------------------------------------------------------------------------
(* The world moves, and the rest stays.                                    *)

LEMMA WorldKeeps ==
    ASSUME ChangesInv, UNCHANGED <<local, files, containers, record, change, said, ran, changes>>,
           catalog' \in [Service -> 1..MaxTag], registry' \in [Service -> [1..MaxTag -> Nat]], faults' \in Nat
    PROVE  ChangesInv'
  <1>1. ChangesTypeOK'
    BY DEF ChangesInv, ChangesTypeOK
  <1>2. AtInv'
    BY DEF ChangesInv, AtInv, Runs, names
  <1>3. BackInv'
    BY DEF ChangesInv, BackInv, Good, DigestsOf, restoreTo, pinFor
  <1>4. AnswersWhole => SaidIsTrue'
    BY DEF ChangesInv, SaidIsTrue, describes, names
  <1> QED BY <1>1, <1>2, <1>3, <1>4 DEF ChangesInv, AnswersWhole

LEMMA WorldStepKeeps == ASSUME ChangesInv, WorldStep PROVE ChangesInv'
  <1>1. ASSUME NEW S \in SUBSET Service, catalogMoves(S) PROVE ChangesInv'
    <2>1. catalog' \in [Service -> 1..MaxTag]
      <3>1. catalog \in [Service -> 1..MaxTag] /\ MaxTag \in Nat
        BY Holds, ChangesAssumption
      <3>2. (\A s \in S : catalog[s] < MaxTag)
            /\ catalog' = [s \in Service |-> IF s \in S THEN catalog[s] + 1 ELSE catalog[s]]
        BY <1>1 DEF catalogMoves
      <3>3. \A s \in Service : (IF s \in S THEN catalog[s] + 1 ELSE catalog[s]) \in 1..MaxTag
        BY <3>1, <3>2
      <3> QED BY <3>2, <3>3
    <2> QED BY <1>1, <2>1, Holds, WorldKeeps DEF catalogMoves, host, notes
  <1>2. ASSUME NEW s \in Service, NEW t \in 1..MaxTag, tagPushed(s, t) PROVE ChangesInv'
    <2>1. registry' \in [Service -> [1..MaxTag -> Nat]]
      <3>1. registry \in [Service -> [1..MaxTag -> Nat]] /\ registry' = [registry EXCEPT ![s][t] = @ + 1]
        BY <1>2, Holds DEF tagPushed
      <3>2. registry[s] \in [1..MaxTag -> Nat] /\ registry[s][t] + 1 \in Nat
        <4>1. registry[s] \in [1..MaxTag -> Nat]
          BY <3>1
        <4>2. registry[s][t] \in Nat
          BY <4>1
        <4> QED BY <4>1, <4>2
      <3>3. [registry[s] EXCEPT ![t] = @ + 1] \in [1..MaxTag -> Nat]
        BY <3>2
      <3> QED BY <3>1, <3>3
    <2> QED BY <1>2, <2>1, FaultTyped, Holds, WorldKeeps DEF tagPushed, host, notes
  <1> QED BY <1>1, <1>2 DEF WorldStep

LEMMA InitHolds == ChangesInit => ChangesInv
  <1> SUFFICES ASSUME ChangesInit PROVE ChangesInv
    OBVIOUS
  <1>1. 1 \in 1..MaxTag /\ 0 \in Nat /\ 1 \in Nat
    BY ChangesAssumption
  <1>2. FromCatalog \in [Service -> Reference] /\ files \in Project
    BY <1>1, Kinds DEF ChangesInit, FromCatalog, Project
  <1>3. containers \in Made
    BY <1>1 DEF ChangesInit, Made, Image
  <1>4. record \in [settings : Nat, history : Seq(Entry)] /\ record.history \in Seq(Good)
    BY DEF ChangesInit
  <1>5. ChangesTypeOK
    BY <1>1, <1>2, <1>3, <1>4 DEF ChangesInit, ChangesTypeOK
  <1>6. AtInv /\ BackInv /\ SaidIsTrue
    BY <1>4 DEF ChangesInit, AtInv, BackInv, SaidIsTrue
  <1> QED BY <1>5, <1>6 DEF ChangesInv

LEMMA StepKeeps == ChangesInv /\ [ChangesNext]_changeVars => ChangesInv'
  <1> SUFFICES ASSUME ChangesInv, [ChangesNext]_changeVars PROVE ChangesInv'
    OBVIOUS
  <1>1. CASE WorldStep
    BY <1>1, WorldStepKeeps
  <1>2. CASE Begins
    BY <1>2, UpdateKeeps, RollbackKeeps, ReconfigureKeeps, EditComposeKeeps DEF Begins
  <1>3. CASE GoesOn
    BY <1>3, WriteEnvKeeps, WriteComposeKeeps, PullKeeps, CheckKeeps, ComposeUpKeeps, SettleKeeps DEF GoesOn
  <1>4. CASE Fails
    BY <1>4, StepFailsKeeps, RestoreFilesKeeps, RestoreFilesFailsKeeps, UnsettledKeeps, PinKeeps, PinFailsKeeps,
       FilesBackKeeps, FilesBackFailsKeeps, UpAgainKeeps, ComposeUpFailsKeeps, UpAgainFailsKeeps DEF Fails
  <1>5. CASE cutOff
    BY <1>5, CutOffKeeps
  <1>6. CASE UNCHANGED changeVars
    BY <1>6, Holds, WorldKeeps DEF changeVars, world, host, notes
  <1> QED BY <1>1, <1>2, <1>3, <1>4, <1>5, <1>6 DEF ChangesNext

LEMMA ChangesInvariant == ChangesSpec => []ChangesInv
  BY InitHolds, StepKeeps, PTL DEF ChangesSpec

-----------------------------------------------------------------------------
(* The project files, the containers, the record and the change in         *)
(* progress are well typed, for any services, versions and failures.       *)
THEOREM ChangesTypeCorrect == ChangesSpec => []ChangesTypeOK
  <1>1. ChangesInv => ChangesTypeOK
    BY DEF ChangesInv
  <1> QED BY <1>1, ChangesInvariant, PTL

(* What an ended change says of itself is true, whatever step failed and   *)
(* wherever the helper went, if Docker answers for all the containers of   *)
(* the app or not for its own: a change that says "unchanged" or           *)
(* "restored" left every service on its version and settings, and the      *)
(* files describe the containers.                                          *)
THEOREM SaysTrue == ASSUME AnswersWhole PROVE ChangesSpec => []SaidIsTrue
  <1>1. ChangesInv => SaidIsTrue
    BY DEF ChangesInv
  <1> QED BY <1>1, ChangesInvariant, PTL

(* A step back that settles runs the images its entry recorded.            *)
LEMMA SettlesExactly ==
    ASSUME ChangesInv, settleChange, NEW s \in DOMAIN said'.to,
           s \in DOMAIN record.history[said'.undoes].fromDigest
    PROVE  containers[s].image \in ran[s]
  <1>1. change \in Change /\ change # Nothing /\ change.at = "settle" /\ At({"settle"})
    BY InChange DEF settleChange
  <1>2. said'.to = change.to /\ said'.undoes = change.undoes
    BY DEF settleChange, ends, says
  <1>3. change.kind = "back"
    <2>1. CASE change.kind # "back"
      <3>1. change.to = <<>>
        BY <1>1, <2>1, Holds DEF BackInv
      <3> QED BY <1>2, <3>1, NoneOfThem
    <2> QED BY <2>1
  <1>4. PICK e : e = record.history[change.undoes]
    OBVIOUS
  <1>5. e \in Good /\ change.to = restoreTo(e) /\ change.images[s] = change.to[s]
    <2>1. /\ change.undoes \in DOMAIN record.history /\ change.to = restoreTo(e)
          /\ \A x \in DOMAIN change.to : change.images[x] = change.to[x]
      BY <1>1, <1>3, <1>4, Holds DEF BackInv
    <2> HIDE DEF Good
    <2> QED BY <1>2, <1>4, <2>1, Holds
  <1>6. change.to[s] = pinFor(e, s) /\ s \in DOMAIN e.from /\ s \in DOMAIN e.fromDigest
    BY <1>2, <1>4, <1>5 DEF restoreTo
  <1>7. PICK image \in ran[s] : e.fromDigest[s] = Pinned(e.from[s].tag, image)
    BY <1>5, <1>6 DEF Good, DigestsOf
  <1>8. pinFor(e, s) = Pinned(e.from[s].tag, image)
    BY <1>6, <1>7 DEF pinFor, Pinned
  <1>9. s \in Service
    <2>1. e.from \in Some
      BY <1>5 DEF Good, Entry
    <2> QED BY <1>6, <2>1, SomeIs
  <1>10. names(files.images[s], containers[s].image) /\ files.images[s] = Pinned(e.from[s].tag, image)
    BY <1>1, <1>5, <1>6, <1>8, <1>9, Holds DEF AtInv, Runs
  <1>11. containers[s].image = image
    BY <1>10 DEF names, Pinned
  <1> QED BY <1>7, <1>11

LEMMA OnlySettlingSaysDone ==
    ASSUME [ChangesNext]_changeVars, said' # said, said'.word = "done"
    PROVE  settleChange
  <1>1. ~UNCHANGED changeVars /\ ~WorldStep /\ ~Begins
    BY DEF changeVars, notes, WorldStep, catalogMoves, tagPushed, Begins, begin, reconfigure, editCompose, update, rollbackApp
  <1>2. ~Fails
    BY DEF Fails, stepFails, restoreFiles, restoreFilesFails, unsettled, pin, pinFails, filesBack, filesBackFails, upAgain,
       composeUpFails, upAgainFails, ends, says, notes
  <1>3. ~cutOff
    BY DEF cutOff, ends, says
  <1>4. GoesOn => settleChange
    BY DEF GoesOn, writeEnv, writeCompose, pull, check, composeUp, notes
  <1> QED BY <1>1, <1>2, <1>3, <1>4 DEF ChangesNext

(* Going back to a version whose digest was recorded deploys exactly an    *)
(* image that ran, however often its tag was pushed in between.            *)
THEOREM GoesBackExactly == ChangesSpec => GoBackIsExact
  <1>1. ChangesInv /\ [ChangesNext]_changeVars =>
            [said' # said /\ said'.word = "done" =>
                \A s \in DOMAIN said'.to :
                    s \in DOMAIN record.history[said'.undoes].fromDigest => containers[s].image \in ran[s]]_changeVars
    BY OnlySettlingSaysDone, SettlesExactly
  <1> QED BY <1>1, ChangesInvariant, PTL DEF ChangesSpec, GoBackIsExact
=============================================================================
