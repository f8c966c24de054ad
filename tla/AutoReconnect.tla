--------------------------- MODULE AutoReconnect ---------------------------
(***************************************************************************)
(* A drive that drops is mounted again by the automation somebody armed    *)
(* for it (auto-reconnect.mjs), as a listener of the health rounds, and    *)
(* told of through the alert ledger. One drive; arming it again is a new   *)
(* automation, and automations are numbers. An automation's run is its one *)
(* step, storage.remount; what runs it (flows.mjs) is FlowRuns.            *)
(***************************************************************************)
EXTENDS AlertLedger

CONSTANTS Drop,         \* the condition "the drive is dead or read-only"
          News,         \* the notice that it was reconnected
          Cooldown, MaxAttempts, Window,   \* autoReconnectLimits
          MaxTime,      \* bound: how far the clock goes
          MaxRestarts,  \* bound: restarts
          MaxArmings,   \* bound: how often it is armed
          MaxDrops,     \* bound: how often the drive drops
          MaxChanges    \* bound: what people do

Arming == 1..MaxArmings

ASSUME ReconnectAssumption ==
    /\ Measured = {Drop} /\ Reported = Arming /\ News \in Notice
    /\ {Cooldown, MaxAttempts, Window} \subseteq Nat \ {0} /\ Cooldown =< Window
    /\ {MaxTime, MaxRestarts, MaxArmings, MaxDrops, MaxChanges} \subseteq Nat

VARIABLES
    now,
    trigger,   \* of the automation: "none" when disarmed, "on" or "paused"
    arming,    \* which automation it is
    attempts,  \* the drive's record: automatic reconnects,
    held,      \* and whether it waits for a person
    flow,      \* [Arming -> the automation's run]
    since,     \* when the automatic reconnect in flight began
    telling,   \* it worked, and the news waits for the drop to be cleared
    hand,      \* what a person runs on the drive: "none", "remount" or "other"
    unclean,   \* its last check found errors
    restarted, drops, changes,
    runs,      \* when automatic reconnects of this arming began (a record)
    spoiled    \* one of this arming failed or was cut off, and no reconnect worked since (a record)

driveVars == <<now, trigger, arming, attempts, held, flow, since, telling, hand, unclean>>
boundVars == <<restarted, drops, changes>>
historyVars == <<runs, spoiled>>
vars == <<ledgerVars, driveVars, boundVars, historyVars>>

NoRun == [at |-> "idle", by |-> "none"]

ReconnectInit ==
    /\ LedgerInit
    /\ now = 0 /\ trigger = "none" /\ arming = 0
    /\ attempts = {} /\ held = FALSE
    /\ flow = [n \in Arming |-> NoRun] /\ since = 0 /\ telling = FALSE
    /\ hand = "none" /\ unclean = FALSE
    /\ restarted = 0 /\ drops = 0 /\ changes = 0
    /\ runs = <<>> /\ spoiled = FALSE
-----------------------------------------------------------------------------
Attempt(at, running) == [at |-> at, running |-> running]   \* how it ended is only shown
attemptsIn(record) == {a \in record : now - a.at < Window}
inFlight == \E n \in Arming : flow[n].by = "drive"
busy == hand # "none" \/ \E n \in Arming : flow[n].at = "running"

(* reconnectRefusal, in its order: "wait" passes by itself or was told     *)
(* when it began, "tell" waits for a person.                               *)
reconnectRefusal ==
    LET recent == attemptsIn(attempts)
    IN IF busy THEN "wait"
       ELSE IF unclean THEN "tell"
       ELSE IF held THEN "wait"
       ELSE IF Cardinality(recent) >= MaxAttempts THEN "tell"
       ELSE IF \E a \in recent : now - a.at < Cooldown THEN "wait"
       ELSE "none"

(* Mutant: only the attempts that ended are counted. *)
counted_NotYet(record) == attemptsIn(record)

(* Counted before it runs. *)
counted(record) == attemptsIn(record \union {Attempt(now, TRUE)})

startedRun(n, by) == flow' = [flow EXCEPT ![n] = [at |-> "checking", by |-> by]]

(* onRound and consider, as the round that found `found` ends. *)
looksAt(found) == Drop \in found /\ trigger = "on" /\ ~inFlight

roundPasses(i) ==
    /\ atWork(i, "round", TRUE)
    /\ ~looksAt(queue[i].found) \/ reconnectRefusal = "wait"
    /\ roundWrites(i, <<>>)
    /\ UNCHANGED <<driveVars, boundVars, historyVars>>

roundTells(i) ==
    /\ atWork(i, "round", TRUE)
    /\ looksAt(queue[i].found) /\ reconnectRefusal = "tell"
    /\ roundWrites(i, <<raise(arming)>>)
    /\ UNCHANGED <<driveVars, boundVars, historyVars>>

(* With the automation already running nothing runs and nothing counts. *)
roundReconnects(i) ==
    /\ atWork(i, "round", TRUE)
    /\ looksAt(queue[i].found) /\ reconnectRefusal = "none"
    /\ roundWrites(i, <<>>)
    /\ IF flow[arming].at # "idle" THEN attempts' = attemptsIn(attempts) /\ UNCHANGED <<flow, since>>
       ELSE attempts' = counted(attempts) /\ since' = now /\ startedRun(arming, "drive")
    /\ UNCHANGED <<now, trigger, arming, held, telling, hand, unclean, boundVars, historyVars>>
-----------------------------------------------------------------------------
(* The automation's run.                                                   *)

over(n) ==
    /\ flow' = [flow EXCEPT ![n] = NoRun]
    /\ since' = IF flow[n].by = "drive" THEN 0 ELSE since
settled == attempts' = attemptsIn({IF a.at = since THEN Attempt(a.at, FALSE) ELSE a : a \in attempts})

flowStarts(n) ==
    /\ flow[n].at = "checking"
    /\ flow' = [flow EXCEPT ![n].at = "running"]
    /\ runs' = IF flow[n].by = "drive" /\ n = arming /\ trigger # "none" THEN Append(runs, since) ELSE runs
    /\ UNCHANGED <<ledgerVars, now, trigger, arming, attempts, held, since, telling, hand, unclean, boundVars, spoiled>>

(* Refused: nothing ran, so nothing counts. *)
flowRefused(n) ==
    /\ flow[n].at = "checking" /\ over(n)
    /\ attempts' = IF flow[n].by = "drive" THEN attemptsIn({a \in attempts : a.at # since}) ELSE attempts
    /\ makes(IF flow[n].by = "hand" THEN <<>> ELSE <<raise(n)>>)
    /\ UNCHANGED <<bad, now, trigger, arming, held, telling, hand, unclean, boundVars, historyVars>>

(* A remount that worked, by anyone: the drive is itself again, and a hold *)
(* is lifted (onJob).                                                      *)
remounted == bad' = bad \ {Drop} /\ held' = FALSE /\ spoiled' = FALSE

jobEnds(n, worked) ==
    /\ flow[n].at = "running"
    /\ flow' = [flow EXCEPT ![n].at = IF worked THEN "completed" ELSE "failed"]
    /\ IF worked THEN remounted
       ELSE spoiled' = (spoiled \/ (flow[n].by = "drive" /\ n = arming /\ trigger # "none")) /\ UNCHANGED <<bad, held>>
    /\ UNCHANGED <<ledger, kept, queue, target, standing, heard, now, trigger, arming, attempts, since, telling, hand, unclean, boundVars, runs>>

flowCompletes(n) ==
    /\ flow[n].at = "completed" /\ over(n)
    /\ IF flow[n].by = "drive" THEN settled /\ telling' = TRUE ELSE UNCHANGED <<attempts, telling>>
    /\ makes(IF flow[n].by = "drive" THEN <<clear(n), clear(Drop)>> ELSE <<clear(n)>>)
    /\ UNCHANGED <<bad, now, trigger, arming, held, hand, unclean, boundVars, historyVars>>

(* A reconnect that did not work holds the drive for a person. *)
flowFails(n) ==
    /\ flow[n].at = "failed" /\ over(n)
    /\ IF flow[n].by = "drive" THEN settled /\ held' = TRUE ELSE UNCHANGED <<attempts, held>>
    /\ makes(<<raise(n)>>)
    /\ UNCHANGED <<bad, now, trigger, arming, telling, hand, unclean, boundVars, historyVars>>

tellNews ==
    /\ telling /\ \A i \in DOMAIN queue : queue[i] # clear(Drop)
    /\ telling' = FALSE
    /\ makes(<<tell(News)>>)
    /\ UNCHANGED <<bad, now, trigger, arming, attempts, held, flow, since, hand, unclean, boundVars, historyVars>>
-----------------------------------------------------------------------------
(* People, the drive and the clock.                                        *)

change == changes < MaxChanges /\ changes' = changes + 1 /\ UNCHANGED <<restarted, drops>>

cleanSlate == attempts' = {} /\ held' = FALSE /\ runs' = <<>> /\ spoiled' = FALSE

arm ==
    /\ trigger = "none" /\ arming < MaxArmings
    /\ trigger' = "on" /\ arming' = arming + 1 /\ cleanSlate
    /\ UNCHANGED <<ledgerVars, now, flow, since, telling, hand, unclean, boundVars>>

(* The automation is deleted; a run of it goes on. *)
disarm ==
    /\ change /\ trigger # "none"
    /\ trigger' = "none" /\ cleanSlate
    /\ makes(<<clear(arming)>>)
    /\ UNCHANGED <<bad, now, arming, flow, since, telling, hand, unclean>>

setEnabled ==
    /\ change /\ trigger # "none"
    /\ trigger' = IF trigger = "on" THEN "paused" ELSE "on"
    /\ UNCHANGED <<ledgerVars, now, arming, attempts, held, flow, since, telling, hand, unclean, historyVars>>

launch ==
    /\ change /\ trigger # "none" /\ flow[arming].at = "idle" /\ startedRun(arming, "hand")
    /\ UNCHANGED <<ledgerVars, now, trigger, arming, attempts, held, since, telling, hand, unclean, historyVars>>

handStarts(kind) ==
    /\ change /\ hand = "none" /\ hand' = kind
    /\ UNCHANGED <<ledgerVars, now, trigger, arming, attempts, held, flow, since, telling, unclean, historyVars>>

(* A remount by hand that worked answers the automation's failure too. *)
handRemounts ==
    /\ hand = "remount" /\ hand' = "none"
    /\ remounted
    /\ makes(IF trigger = "none" THEN <<>> ELSE <<clear(arming)>>)
    /\ UNCHANGED <<now, trigger, arming, attempts, flow, since, telling, unclean, boundVars, runs>>

(* Anything else that ends; a check says whether it found errors. *)
handEnds(errors) ==
    /\ hand # "none" /\ hand' = "none"
    /\ hand = "remount" => errors = unclean
    /\ unclean' = errors
    /\ UNCHANGED <<ledgerVars, now, trigger, arming, attempts, held, flow, since, telling, boundVars, historyVars>>

driveDrops ==
    /\ Drop \notin bad /\ bad' = bad \union {Drop}
    /\ drops < MaxDrops /\ drops' = drops + 1
    /\ UNCHANGED <<ledger, kept, queue, target, standing, heard, driveVars, restarted, changes, historyVars>>

healthRound(evidence) == check(evidence) /\ UNCHANGED <<driveVars, boundVars, historyVars>>

changeTarget == change /\ setTarget /\ UNCHANGED <<driveVars, historyVars>>

otherNews(k) == change /\ makes(<<tell(k)>>) /\ UNCHANGED <<bad, driveVars, historyVars>>

timePasses ==
    /\ now < MaxTime /\ now' = now + 1
    /\ UNCHANGED <<ledgerVars, trigger, arming, attempts, held, flow, since, telling, hand, unclean, boundVars, historyVars>>
-----------------------------------------------------------------------------
(* A restart.                                                              *)

holds(record) == \E a \in record : a.running

recovered(record) ==
    attemptsIn({Attempt(a.at, FALSE) : a \in record})

cutOff(n) == flow[n].by = "drive" /\ flow[n].at \in {"running", "failed"}

(* recover: the attempt counts and the drive is held. flows.recover never  *)
(* goes on with a drive's automation: it says it was interrupted.          *)
restart ==
    LET mine == trigger # "none" /\ flow[arming].at \in {"running", "completed", "failed"}
    IN /\ restarted < MaxRestarts /\ restarted' = restarted + 1 /\ UNCHANGED <<drops, changes>>
       /\ attempts' = IF holds(attempts) THEN recovered(attempts) ELSE attempts
       /\ held' = (held \/ holds(attempts))
       /\ flow' = [n \in Arming |-> NoRun]
       /\ spoiled' = (spoiled \/ (trigger # "none" /\ cutOff(arming)))
       /\ restarts(IF mine THEN <<raise(arming)>> ELSE <<>>)
       /\ telling' = FALSE /\ hand' = "none" /\ since' = 0
       /\ UNCHANGED <<now, trigger, arming, unclean, runs>>
-----------------------------------------------------------------------------
LedgerStep(i) ==
    \/ CallStep(i) /\ UNCHANGED <<driveVars, boundVars, historyVars>>
    \/ roundPasses(i) \/ roundTells(i) \/ roundReconnects(i)

FlowStep(n) ==
    \/ flowStarts(n) \/ flowRefused(n) \/ flowCompletes(n) \/ flowFails(n)
    \/ \E worked \in BOOLEAN : jobEnds(n, worked)

ReconnectNext ==
    \/ \E i \in 1..Len(queue) : LedgerStep(i)
    \/ \E n \in Arming : FlowStep(n)
    \/ \E evidence \in BOOLEAN : healthRound(evidence)
    \/ tellNews \/ arm \/ disarm \/ setEnabled \/ launch
    \/ \E kind \in {"remount", "other"} : handStarts(kind)
    \/ handRemounts \/ \E errors \in BOOLEAN : handEnds(errors)
    \/ driveDrops \/ changeTarget \/ timePasses
    \/ \E k \in Notice \ {News} : otherNews(k)
    \/ restart

ReconnectSpec == ReconnectInit /\ [][ReconnectNext]_vars
-----------------------------------------------------------------------------
(* No call is lost to another: a reported condition is in the ledger       *)
(* exactly when its last call was raise, however rounds, raises and clears *)
(* overlap and wherever the service stops.                                 *)
ConditionsStand == standing = {k \in Reported : ledger[k] # "absent"}

(* A condition is announced once: from the time it enters the ledger until *)
(* it leaves, the target takes its announcement at most once, by a round   *)
(* or by whoever raised it. One taken by a process that stopped before it  *)
(* was written may be repeated.                                            *)
AnnouncedOnce == \A k \in Measured \union Reported : heard[k] =< 1

(* Automatic reconnects of an armed drive are a cooldown apart and no more *)
(* than MaxAttempts of them fall in one window, restarts included; and     *)
(* after one that failed, or that a restart cut off, there is no other     *)
(* until a reconnect has worked or the drive is armed afresh.              *)
WithinLimits ==
    /\ \A i, k \in DOMAIN runs :
          /\ i < k => runs[k] - runs[i] >= Cooldown
          /\ k = i + MaxAttempts => runs[k] - runs[i] >= Window
    /\ spoiled => flow[arming] # [at |-> "running", by |-> "drive"]
=============================================================================
