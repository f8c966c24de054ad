----------------------------- MODULE Scheduler -----------------------------
(***************************************************************************)
(* The scheduler (scheduler.mjs) over the jobs it starts: rounds that list *)
(* what is due and go through it across awaits, the record each schedule   *)
(* keeps of its last run, the job events that settle it, people who edit   *)
(* schedules and approve or withdraw its jobs meanwhile, and restarts.     *)
(*                                                                         *)
(* Rows survive the process; the round, the map of started jobs and the    *)
(* events still to be delivered do not. A failure told is a call of        *)
(* alerts.raise or a push of the notifier (notifications.mjs).             *)
(***************************************************************************)
EXTENDS JobLife, Cadence, Sequences, FiniteSets, SequencesExt

CONSTANTS Schedule, None,
          CadenceOf,  \* [Schedule -> Cadences]
          Memory,     \* how many started jobs are remembered (500)
          MaxTime,    \* bound: the clock
          MaxStops,   \* bound: how often the web service stops
          MaxEdits    \* bound: how often someone edits a schedule or acts on a job

ASSUME SchedulerAssumption ==
    /\ CadenceOf \in [Schedule -> Cadences]
    /\ Memory \in Nat \ {0} /\ MaxTime \in Nat /\ MaxStops \in Nat /\ MaxEdits \in Nat
    /\ None \notin Schedule \union Job
    /\ IsFiniteSet(Schedule)

VARIABLES
    present, enabled, nextDue, lastJob, lastResult,  \* the rows
    round,       \* the tick in progress
    started,     \* jobs remembered, oldest first
    owner,       \* the schedule each is for; None once handled
    pending,     \* jobs that ended, their event not yet delivered
    interrupted, \* startup: the jobs recovery failed
    now, stops, edits,
    jobOf, dueOf,  \* the schedule and the due time a job was staged for (a record)
    byHand,      \* jobs a person approved (a record)
    orphans,     \* jobs of a round that a stop cut short (a record)
    dropped,     \* jobs put out of memory by later ones (a record)
    forgotten,   \* ended jobs whose event, or whose recovery, a stop lost (a record)
    told         \* how often each job's failure was told (a record)

rowVars == <<present, enabled, nextDue, lastJob, lastResult>>
memoryVars == <<started, owner, pending, interrupted>>
boundVars == <<now, stops, edits>>
recordVars == <<jobOf, dueOf, byHand, orphans, dropped, forgotten, told>>
schedVars == <<lifeVars, rowVars, round, memoryVars, boundVars, recordVars>>

NoRound == [at |-> "idle", queue |-> <<>>, job |-> None, next |-> 0]
nextRun(s) == computeNextRun(CadenceOf[s], now)

SchedInit ==
    /\ LifeInit
    /\ present = {} /\ enabled = {}
    /\ nextDue = [s \in Schedule |-> 0]
    /\ lastJob = [s \in Schedule |-> None]
    /\ lastResult = [s \in Schedule |-> "new"]
    /\ round = NoRound
    /\ started = <<>> /\ owner = [j \in Job |-> None]
    /\ pending = {} /\ interrupted = {}
    /\ now = 0 /\ stops = 0 /\ edits = 0
    /\ jobOf = [j \in Job |-> None] /\ dueOf = [j \in Job |-> 0]
    /\ byHand = {} /\ orphans = {} /\ dropped = {} /\ forgotten = {}
    /\ told = [j \in Job |-> 0]
-----------------------------------------------------------------------------
(* Rows: state/schedules-flows.mjs. An update of a deleted row is no       *)
(* update; a deleted one does not come back (ids are random).              *)

markScheduleRun(s, j, result, due) ==
    /\ lastJob' = [lastJob EXCEPT ![s] = IF s \in present THEN j ELSE @]
    /\ lastResult' = [lastResult EXCEPT ![s] = IF s \in present THEN result ELSE @]
    /\ nextDue' = [nextDue EXCEPT ![s] = IF s \in present THEN due ELSE @]

(* How the runs of jobs J ended: replaces "started" only. *)
settleScheduleRun(J) ==
    lastResult' = [s \in Schedule |-> IF s \in present /\ lastJob[s] \in J /\ lastResult[s] = "started" THEN "ended" ELSE lastResult[s]]

create(s) ==
    /\ web = "up" /\ lastResult[s] = "new" /\ s \notin present
    /\ present' = present \union {s} /\ enabled' = enabled \union {s}
    /\ nextDue' = [nextDue EXCEPT ![s] = nextRun(s)]
    /\ lastResult' = [lastResult EXCEPT ![s] = "none"]
    /\ UNCHANGED <<lifeVars, lastJob, round, memoryVars, boundVars, recordVars>>

edit == web = "up" /\ edits < MaxEdits /\ edits' = edits + 1 /\ UNCHANGED <<now, stops>>

(* Re-enabled schedules start from the next occurrence. *)
setEnabled(s, on) ==
    /\ edit /\ s \in present
    /\ enabled' = IF on THEN enabled \union {s} ELSE enabled \ {s}
    /\ nextDue' = [nextDue EXCEPT ![s] = IF on THEN nextRun(s) ELSE @]
    /\ UNCHANGED <<lifeVars, present, lastJob, lastResult, round, memoryVars, recordVars>>

remove(s) ==
    /\ edit /\ s \in present
    /\ present' = present \ {s} /\ enabled' = enabled \ {s}
    /\ UNCHANGED <<lifeVars, nextDue, lastJob, lastResult, round, memoryVars, recordVars>>
-----------------------------------------------------------------------------
(* A round: tick and runDue.                                               *)

due == {s \in enabled : nextDue[s] =< now}

(* The due list, soonest first; ties come in either order. *)
tick ==
    /\ web = "up" /\ round.at = "idle" /\ due # {}
    /\ \E queue \in SetToSeqs({[id |-> s, due |-> nextDue[s]] : s \in due}) :
          /\ \A i, k \in 1..Len(queue) : i < k => queue[i].due =< queue[k].due
          /\ round' = [NoRound EXCEPT !.at = "checking", !.queue = queue]
    /\ UNCHANGED <<lifeVars, rowVars, memoryVars, boundVars, recordVars>>

current == Head(round.queue).id
onward == IF Len(round.queue) = 1 THEN NoRound ELSE [NoRound EXCEPT !.at = "checking", !.queue = Tail(round.queue)]
at(where) == web = "up" /\ round.at = where

(* Mutant: the schedule is left due. *)
secretsUnread_LeavesDue ==
    /\ at("checking")
    /\ markScheduleRun(current, lastJob[current], "error", nextDue[current])
    /\ round' = onward
    /\ UNCHANGED <<lifeVars, present, enabled, memoryVars, boundVars, recordVars>>

(* Whether it holds a password could not be read: this run is skipped. *)
secretsUnread ==
    /\ at("checking")
    /\ markScheduleRun(current, lastJob[current], "error", nextRun(current))
    /\ round' = onward
    /\ UNCHANGED <<lifeVars, present, enabled, memoryVars, boundVars, recordVars>>

(* It holds a password: it is switched off. One deleted meanwhile cannot   *)
(* be, and the error ends the round.                                       *)
pauseCarrying ==
    /\ at("checking")
    /\ IF current \in present
       THEN /\ enabled' = enabled \ {current}
            /\ lastResult' = [lastResult EXCEPT ![current] = "paused"]
            /\ round' = onward
       ELSE round' = NoRound /\ UNCHANGED <<enabled, lastResult>>
    /\ UNCHANGED <<lifeVars, present, nextDue, lastJob, memoryVars, boundVars, recordVars>>

(* Mutant: nothing looks at the run before. *)
previousActive_Unread(s) == FALSE

previousActive(s) == lastJob[s] # None /\ state[lastJob[s]] = "active"

(* Advanced first, so nothing fires twice. *)
startingDue == nextRun(current)

begin ==
    /\ at("checking") /\ ~previousActive(current)
    /\ markScheduleRun(current, lastJob[current], "starting", startingDue)
    /\ round' = [round EXCEPT !.at = "staging", !.next = nextRun(current)]
    /\ UNCHANGED <<lifeVars, present, enabled, memoryVars, boundVars, recordVars>>

(* The run before is still going, or its creator or the approval mode      *)
(* refuses: told as a run that did not happen, and the record keeps the    *)
(* job of the last one that did.                                           *)
didNotRun ==
    /\ at("checking")
    /\ markScheduleRun(current, lastJob[current], "error", nextRun(current))
    /\ round' = onward
    /\ UNCHANGED <<lifeVars, present, enabled, memoryVars, boundVars, recordVars>>

newJob == CHOOSE j \in Job : state[j] = "none"

(* The oldest goes past the limit. *)
remember(j, s) ==
    LET full == Len(started) >= Memory
    IN /\ started' = Append(IF full THEN Tail(started) ELSE started, j)
       /\ owner' = [owner EXCEPT ![j] = s]
       /\ dropped' = IF full THEN dropped \union {Head(started)} ELSE dropped

stage ==
    /\ at("staging") /\ \E j \in Job : state[j] = "none"
    /\ Stage(newJob)
    /\ remember(newJob, current)
    /\ round' = [round EXCEPT !.at = "approving", !.job = newJob]
    /\ jobOf' = [jobOf EXCEPT ![newJob] = current]
    /\ dueOf' = [dueOf EXCEPT ![newJob] = Head(round.queue).due]
    /\ UNCHANGED <<rowVars, pending, interrupted, boundVars, byHand, orphans, forgotten, told>>

stageFails ==
    /\ at("staging")
    /\ markScheduleRun(current, lastJob[current], "error", round.next)
    /\ round' = onward
    /\ UNCHANGED <<lifeVars, present, enabled, memoryVars, boundVars, recordVars>>

(* approveAndStart returns once the job is under way. *)
approve ==
    /\ at("approving") /\ Grant(round.job)
    /\ round' = [round EXCEPT !.at = "marking"]
    /\ UNCHANGED <<rowVars, memoryVars, boundVars, recordVars>>

(* Its approval is refused, or someone else approved or withdrew it first: *)
(* it is withdrawn if it still waits, and no longer the schedule's.        *)
approveFails ==
    LET j == round.job
        waits == state[j] = "awaiting"
    IN /\ at("approving")
       /\ IF waits THEN Withdraw({j}) ELSE UNCHANGED lifeVars
       /\ pending' = IF waits THEN pending \union {j} ELSE pending
       /\ markScheduleRun(current, j, "error", round.next)
       /\ owner' = [owner EXCEPT ![j] = None]
       /\ started' = IF j \in Range(started) THEN started ELSE Append(started, j)
       /\ round' = onward
       /\ UNCHANGED <<present, enabled, interrupted, boundVars, recordVars>>

endedAlready(j) == state[j] \in Ended

(* The record says started; a job that ended before is settled at once. *)
markStarted ==
    /\ at("marking")
    /\ markScheduleRun(current, round.job, IF endedAlready(round.job) THEN "ended" ELSE "started", round.next)
    /\ round' = onward
    /\ UNCHANGED <<lifeVars, present, enabled, memoryVars, boundVars, recordVars>>
-----------------------------------------------------------------------------
(* Jobs: people act on those that wait, the helper ends those that run,    *)
(* and the change is told to the listeners in a later turn.                *)

approveByHand(j) ==
    /\ edit /\ Grant(j)
    /\ byHand' = byHand \union {j}
    /\ UNCHANGED <<rowVars, round, memoryVars, jobOf, dueOf, orphans, dropped, forgotten, told>>

withdrawByHand(j) ==
    /\ edit /\ Withdraw({j})
    /\ pending' = pending \union {j}
    /\ UNCHANGED <<rowVars, round, started, owner, interrupted, recordVars>>

jobEnds(j) ==
    /\ Complete(j) \/ Fail(j)
    /\ pending' = pending \union {j}
    /\ UNCHANGED <<rowVars, round, started, owner, interrupted, boundVars, recordVars>>

owns(j) == j \in Range(started)

(* The notifier, then the scheduler's onJob. *)
onJob(j) ==
    LET s == owner[j]
        handles == owns(j) /\ s # None
        tells == state[j] = "failed" /\ (~owns(j) \/ (handles /\ s \in present))
    IN /\ web = "up" /\ j \in pending
       /\ pending' = pending \ {j}
       /\ owner' = [owner EXCEPT ![j] = IF owns(j) THEN None ELSE @]
       /\ IF handles THEN settleScheduleRun({j}) ELSE UNCHANGED lastResult
       /\ told' = [told EXCEPT ![j] = IF tells THEN @ + 1 ELSE @]
       /\ UNCHANGED <<lifeVars, present, enabled, nextDue, lastJob, round, started, interrupted, boundVars,
                      jobOf, dueOf, byHand, orphans, dropped, forgotten>>
-----------------------------------------------------------------------------
(* The web service stops, and starts again.                                *)

stop ==
    /\ stops < MaxStops /\ Die
    /\ stops' = stops + 1
    /\ round' = NoRound /\ started' = <<>> /\ owner' = [j \in Job |-> None]
    /\ pending' = {} /\ interrupted' = {}
    /\ orphans' = IF round.job = None THEN orphans ELSE orphans \union {round.job}
    /\ forgotten' = forgotten \union pending \union interrupted
    /\ UNCHANGED <<rowVars, now, edits, jobOf, dueOf, byHand, dropped, told>>

recoverInterruptedJobs ==
    /\ \E N \in SUBSET Job : Recover(N)
    /\ interrupted' = activeJobs
    /\ UNCHANGED <<rowVars, round, started, owner, pending, boundVars, recordVars>>

(* Mutant: the jobs taken are not passed on. *)
others_All(J) == J

(* What tellInterrupted and the reruns are left with: not the schedules'. *)
others(J) == {j \in J : \A s \in present : lastJob[s] # j}

(* The rest of startup: recover() tells the schedules' interrupted runs,   *)
(* and the others are told, or run again (Jobs).                           *)
recover ==
    /\ Back
    /\ settleScheduleRun(interrupted)
    /\ \E all \in SetToSeqs({lastJob[s] : s \in present} \intersect interrupted) :
          started' = SubSeq(all, 1 + Cardinality(1..(Len(all) - Memory)), Len(all))
    /\ told' = [j \in Job |->
                  told[j] + Cardinality({s \in present : lastJob[s] = j /\ j \in interrupted})
                          + (IF j \in others(interrupted) THEN 1 ELSE 0)]
    /\ interrupted' = {}
    /\ UNCHANGED <<present, enabled, nextDue, lastJob, round, owner, pending, boundVars, jobOf, dueOf, byHand, orphans, dropped, forgotten>>

timePasses ==
    /\ now < MaxTime /\ now' = now + 1
    /\ UNCHANGED <<lifeVars, rowVars, round, memoryVars, stops, edits, recordVars>>
-----------------------------------------------------------------------------
RoundStep ==
    \/ secretsUnread \/ pauseCarrying \/ begin \/ didNotRun
    \/ stage \/ stageFails \/ approve \/ approveFails \/ markStarted

SchedNext ==
    \/ \E s \in Schedule : create(s) \/ remove(s) \/ \E on \in BOOLEAN : setEnabled(s, on)
    \/ tick \/ RoundStep
    \/ \E j \in Job : approveByHand(j) \/ withdrawByHand(j) \/ jobEnds(j) \/ onJob(j)
    \/ stop \/ recoverInterruptedJobs \/ recover \/ timePasses

(* The interval fires, every await of a round ends (the job layer's have   *)
(* deadlines), and systemd starts the service again. Nothing is assumed of *)
(* jobs, people or time.                                                   *)
SchedFairness ==
    /\ WF_schedVars(tick) /\ WF_schedVars(RoundStep)
    /\ WF_schedVars(recoverInterruptedJobs) /\ WF_schedVars(recover)

SchedSpec == SchedInit /\ [][SchedNext]_schedVars /\ SchedFairness
-----------------------------------------------------------------------------
(* The next run is the cadence's soonest time strictly after now: nothing  *)
(* fires twice in its minute, and no occurrence is passed over.            *)
NextRunIsSoonest ==
    \A c \in Cadences :
       LET next == computeNextRun(c, now)
       IN next > now /\ Occurs(c, next) /\ \A t \in (now + 1)..(next - 1) : ~Occurs(c, t)

(* A schedule never runs double: its runs do not overlap and one due time  *)
(* gives one job, across ticks, edits made during a round and stops        *)
(* between the marks. Left out of the overlap is a job its round was cut   *)
(* short before it named, which a person may approve later.                *)
NeverRunsDouble ==
    /\ \A j, k \in activeJobs \ orphans : j # k => jobOf[j] # jobOf[k]
    /\ \A j, k \in {i \in Job : jobOf[i] # None} :
          j # k /\ jobOf[j] = jobOf[k] => dueOf[j] # dueOf[k]

(* The end of a run is told. A record that says started is settled once    *)
(* its job has ended and the event is delivered, though the job may end    *)
(* before started is written or be dropped from memory while it runs. A    *)
(* failed run is told exactly once - by its schedule, by the notifier, or  *)
(* after a restart; nobody tells of one approved by hand while the         *)
(* scheduler was approving it, of a deleted schedule's, or of one whose    *)
(* ending a stop lost.                                                     *)
EndIsTold ==
    /\ web = "up" => \A s \in present : lastResult[s] = "started" =>
          (state[lastJob[s]] \in Ended => lastJob[s] \in pending \union forgotten \union dropped)
    /\ \A j \in Job : jobOf[j] # None =>
          /\ told[j] =< 1
          /\ state[j] = "failed" /\ web = "up" /\ told[j] = 0 =>
                j \in pending \union forgotten \union (byHand \ orphans) \/ jobOf[j] \notin present

(* What is due is dealt with: run, refused or put off to its next time,    *)
(* whatever the rounds before it met.                                      *)
DueIsHandled == \A s \in Schedule : (s \in due) ~> (s \notin due)
=============================================================================
