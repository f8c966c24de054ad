----------------------------- MODULE AgentPlans -----------------------------
(***************************************************************************)
(* An agent's plan (agents/acting.mjs): steps kept in the store with a     *)
(* checkpoint after each, carried out by whoever calls advancePlan - the   *)
(* tick, a job's end, a check's end, the startup - across the awaits of    *)
(* staging a job, while people approve or withdraw its jobs, stop the      *)
(* plan, pause or kill agents, and the web service stops.                  *)
(*                                                                         *)
(* A job's or a check's end calls advancePlan a moment later, as the tick  *)
(* does at any time. Of a check's run only its verdict is kept.            *)
(***************************************************************************)
EXTENDS JobLife, Naturals, Sequences, FiniteSets

CONSTANTS None,
          Kinds,       \* the plan's steps: a sequence of "operation" and "check"
          CheckTries,  \* how often a check is made (2)
          Advance,     \* calls of advancePlan that may be under way
          MaxStops,    \* bound: how often the web service stops
          MaxTouches   \* bound: how often someone acts on the plan, its jobs or the agent

ASSUME PlansAssumption ==
    /\ Kinds \in Seq({"operation", "check"})
    /\ CheckTries \in Nat \ {0} /\ MaxStops \in Nat /\ MaxTouches \in Nat
    /\ None \notin Job

VARIABLES
    plan,     \* the row
    reports,  \* report runs queued at its end
    acts,     \* jobs with an action step on the run that made the plan
    check,    \* the last check's run: "none", "going", or its verdict
    paused, killed, gone,  \* the module and the agent
    due,      \* past the plan's day
    advs, again,           \* in memory: calls under way, and one asked for meanwhile
    stops, touches,
    stepOf,   \* the step each job was staged for; 0 for none (a record)
    passed,   \* steps whose check passed (a record)
    cut,      \* steps a stop caught being staged (a record)
    beside    \* the plan was stopped while a step was being staged (a record)

rowVars == <<plan, reports, acts, check>>
settingVars == <<paused, killed, gone, due>>
memoryVars == <<advs, again>>
recordVars == <<stepOf, passed, cut, beside>>
boundVars == <<stops, touches>>
planVars == <<lifeVars, rowVars, settingVars, memoryVars, recordVars, boundVars>>

Steps == 1..Len(Kinds)
NoPlan == [state |-> "none", cursor |-> 1, steps |-> [i \in Steps |-> [job |-> None, run |-> FALSE, tries |-> 0]]]
NoAdvance == [at |-> "idle", seen |-> NoPlan, job |-> None]
open == plan.state \in {"running", "waiting"}

PlansInit ==
    /\ LifeInit
    /\ plan = NoPlan /\ reports = 0 /\ acts = {} /\ check = "none"
    /\ paused = FALSE /\ killed = FALSE /\ gone = FALSE /\ due = FALSE
    /\ advs = [a \in Advance |-> NoAdvance] /\ again = FALSE
    /\ stops = 0 /\ touches = 0
    /\ stepOf = [j \in Job |-> 0] /\ passed = {} /\ cut = {} /\ beside = FALSE
-----------------------------------------------------------------------------
(* The row.                                                                *)

(* Mutant: the row is written whatever became of it. *)
savePlan_Blind(seen) == TRUE

(* Still the plan that was read, and open. updated_at stands for the row:  *)
(* no write leaves it as it was.                                           *)
savePlan(seen) == open /\ plan = seen

withdrawn(steps) == {j \in Job : state[j] = "awaiting" /\ \E i \in Steps : steps[i].job = j}

cancelled(S) == state' = [j \in Job |-> IF j \in S THEN "cancelled" ELSE state[j]] /\ UNCHANGED <<web, label>>

(* X: jobs withdrawn besides. Nothing happens if the plan moved meanwhile. *)
finishPlan(seen, end, report, X) ==
    LET saves == savePlan(seen)
    IN /\ plan' = IF saves THEN [seen EXCEPT !.state = end] ELSE plan
       /\ cancelled(X \union (IF saves THEN withdrawn(seen.steps) ELSE {}))
       /\ reports' = IF saves /\ report /\ ~gone /\ ~killed THEN reports + 1 ELSE reports
-----------------------------------------------------------------------------
(* advancePlan: one call at a time, and once more if asked meanwhile.      *)

(* Mutant: every call goes ahead. *)
advancing_Never == FALSE

advancing == \E a \in Advance : advs[a].at # "idle"

calls ==
    IF advancing
    THEN again' = TRUE /\ UNCHANGED advs
    ELSE UNCHANGED again /\ \E a \in Advance : advs[a].at = "idle" /\ advs' = [advs EXCEPT ![a].at = "turn"]

advancePlan ==
    /\ web = "up" /\ open
    /\ calls
    /\ UNCHANGED <<lifeVars, rowVars, settingVars, recordVars, boundVars>>

at(a, where) == web = "up" /\ advs[a].at = where
onward(a) == advs' = [advs EXCEPT ![a] = [NoAdvance EXCEPT !.at = "turn"]] /\ UNCHANGED again
over(a) ==
    /\ advs' = [advs EXCEPT ![a] = IF again THEN [NoAdvance EXCEPT !.at = "turn"] ELSE NoAdvance]
    /\ again' = FALSE
step == plan.steps[plan.cursor]

(* planFor: the agent's one open plan, made by a run. *)
planFor ==
    /\ web = "up" /\ plan.state = "none" /\ ~paused /\ ~gone
    /\ plan' = [plan EXCEPT !.state = "running"]
    /\ calls
    /\ UNCHANGED <<lifeVars, reports, acts, check, settingVars, recordVars, boundVars>>

(* Ended: the call is over. *)
closed(a) ==
    /\ at(a, "turn") /\ ~open
    /\ over(a)
    /\ UNCHANGED <<lifeVars, rowVars, settingVars, recordVars, boundVars>>

endedBy(a, end, report) ==
    /\ finishPlan(plan, end, report, {}) /\ over(a)
    /\ UNCHANGED <<acts, check, settingVars, recordVars, boundVars>>

agentDeleted(a) == at(a, "turn") /\ open /\ gone /\ endedBy(a, "cancelled", FALSE)

(* Mutant: a paused plan is not looked at. *)
expired_NotPaused == due /\ ~paused

expired == due
expires(a) == at(a, "turn") /\ open /\ ~gone /\ expired /\ endedBy(a, "expired", TRUE)

(* Past the checks that come first. *)
goesOn(a) == at(a, "turn") /\ open /\ ~gone /\ ~expired /\ ~paused

rests(a) ==
    /\ at(a, "turn") /\ open /\ ~gone /\ ~expired /\ paused
    /\ over(a)
    /\ UNCHANGED <<lifeVars, rowVars, settingVars, recordVars, boundVars>>

finished(a) == goesOn(a) /\ plan.cursor > Len(Kinds) /\ endedBy(a, "done", TRUE)

onStep(a, kind) == goesOn(a) /\ plan.cursor =< Len(Kinds) /\ Kinds[plan.cursor] = kind

(* A turn that only writes a checkpoint. *)
checkpoint(new) ==
    /\ plan' = new
    /\ UNCHANGED <<lifeVars, reports, acts, settingVars, boundVars>>
stepDone(a) == checkpoint([plan EXCEPT !.cursor = @ + 1, !.state = "running"]) /\ onward(a)

stageStep(a) ==
    /\ onStep(a, "operation") /\ step.job = None
    /\ advs' = [advs EXCEPT ![a] = [at |-> "creating", seen |-> plan, job |-> None]]
    /\ UNCHANGED <<lifeVars, rowVars, settingVars, again, recordVars, boundVars>>

succeeded(j) == state[j] = "completed"

jobCompleted(a) ==
    /\ onStep(a, "operation") /\ step.job # None /\ succeeded(step.job)
    /\ stepDone(a)
    /\ UNCHANGED <<check, recordVars>>
jobFailed(a) ==
    /\ onStep(a, "operation") /\ step.job # None /\ ~succeeded(step.job) /\ state[step.job] \in Ended
    /\ endedBy(a, "failed", TRUE)
jobStillGoing(a) ==
    /\ onStep(a, "operation") /\ step.job # None /\ state[step.job] \notin Ended
    /\ over(a)
    /\ UNCHANGED <<lifeVars, rowVars, settingVars, recordVars, boundVars>>

(* A run of the agent is queued to make the check. *)
startCheck(a) ==
    /\ onStep(a, "check") /\ ~step.run
    /\ checkpoint([plan EXCEPT !.state = "waiting", !.steps[plan.cursor].run = TRUE, !.steps[plan.cursor].tries = @ + 1])
    /\ check' = "going" /\ over(a)
    /\ UNCHANGED recordVars
checkGoing(a) ==
    /\ onStep(a, "check") /\ step.run /\ check = "going"
    /\ over(a)
    /\ UNCHANGED <<lifeVars, rowVars, settingVars, recordVars, boundVars>>
checkPassed(a) ==
    /\ onStep(a, "check") /\ step.run /\ check = "passed"
    /\ stepDone(a)
    /\ passed' = passed \union {plan.cursor}
    /\ UNCHANGED <<check, stepOf, cut, beside>>
(* It gave no verdict: it is made again, once. *)
checkAgain(a) ==
    /\ onStep(a, "check") /\ step.run /\ check = "silent" /\ step.tries < CheckTries
    /\ checkpoint([plan EXCEPT !.state = "running", !.steps[plan.cursor].run = FALSE]) /\ onward(a)
    /\ UNCHANGED <<check, recordVars>>
checkFailed(a) ==
    /\ onStep(a, "check") /\ step.run
    /\ check = "failed" \/ (check = "silent" /\ step.tries >= CheckTries)
    /\ endedBy(a, "failed", TRUE)
-----------------------------------------------------------------------------
(* stageOperation, under an advance that read the plan before its awaits.  *)

created(a, j) ==
    /\ at(a, "creating") /\ Stage(j)
    /\ stepOf' = [stepOf EXCEPT ![j] = advs[a].seen.cursor]
    /\ advs' = [advs EXCEPT ![a].at = "created", ![a].job = j]
    /\ UNCHANGED <<rowVars, settingVars, again, passed, cut, beside, boundVars>>

(* Refused, high risk here, or not started: its job, X, is withdrawn if it *)
(* still waits, and the plan fails.                                        *)
stagingFails(a, X) ==
    /\ finishPlan(advs[a].seen, "failed", TRUE, {j \in X : state[j] = "awaiting"}) /\ over(a)
    /\ UNCHANGED <<acts, check, settingVars, recordVars, boundVars>>
stageRefused(a) == at(a, "creating") /\ stagingFails(a, {})
couldNotStart(a) == at(a, "created") /\ stagingFails(a, {advs[a].job})

(* approveAndStart, for an operation the agent may run. *)
approveAndStart(a) ==
    /\ at(a, "created") /\ Grant(advs[a].job)
    /\ advs' = [advs EXCEPT ![a].at = "started"]
    /\ UNCHANGED <<rowVars, settingVars, again, recordVars, boundVars>>

(* The act on the run and the checkpoint: it runs, or waits for a person. *)
staged(a) ==
    /\ at(a, "created") \/ at(a, "started")
    /\ acts' = acts \union {advs[a].job}
    /\ LET seen == advs[a].seen
       IN IF savePlan(seen)
          THEN plan' = [seen EXCEPT !.state = "waiting", !.steps[seen.cursor].job = advs[a].job] /\ onward(a)
          ELSE UNCHANGED plan /\ over(a)
    /\ UNCHANGED <<lifeVars, reports, check, settingVars, recordVars, boundVars>>
-----------------------------------------------------------------------------
(* Jobs, checks and people.                                                *)

jobEnds(j) ==
    /\ Complete(j) \/ Fail(j)
    /\ UNCHANGED <<rowVars, settingVars, memoryVars, recordVars, boundVars>>

checkEnds(verdict) ==
    /\ web = "up" /\ check = "going" /\ check' = verdict
    /\ UNCHANGED <<lifeVars, plan, reports, acts, settingVars, memoryVars, recordVars, boundVars>>

touch == web = "up" /\ touches < MaxTouches /\ touches' = touches + 1 /\ UNCHANGED stops

approveByHand(j) ==
    /\ touch /\ Grant(j)
    /\ UNCHANGED <<rowVars, settingVars, memoryVars, recordVars>>
withdrawByHand(j) ==
    /\ touch /\ Withdraw({j})
    /\ UNCHANGED <<rowVars, settingVars, memoryVars, recordVars>>

staging == \E a \in Advance : advs[a].at \in {"creating", "created", "started"}
stopPlan(X) ==
    /\ finishPlan(plan, "cancelled", FALSE, X)
    /\ beside' = (beside \/ (open /\ staging))
    /\ UNCHANGED <<acts, memoryVars, stepOf, passed, cut>>

cancelPlan ==
    /\ touch /\ open
    /\ stopPlan({})
    /\ UNCHANGED <<check, settingVars>>

(* Runs end, what waits on a person is withdrawn, and the plan stops. *)
killSwitch ==
    /\ touch
    /\ paused' = TRUE /\ killed' = TRUE
    /\ check' = IF check = "going" THEN "silent" ELSE check
    /\ stopPlan({j \in acts : state[j] = "awaiting"})
    /\ UNCHANGED <<gone, due>>

(* Of agents, or of this one. *)
pause ==
    /\ touch /\ ~paused /\ paused' = TRUE
    /\ UNCHANGED <<lifeVars, rowVars, killed, gone, due, memoryVars, recordVars>>
resume ==
    /\ web = "up" /\ paused /\ paused' = FALSE /\ killed' = FALSE
    /\ UNCHANGED <<lifeVars, rowVars, gone, due, memoryVars, recordVars, boundVars>>
deleteAgent ==
    /\ touch /\ ~gone /\ gone' = TRUE
    /\ check' = IF check = "going" THEN "silent" ELSE check
    /\ UNCHANGED <<lifeVars, plan, reports, acts, paused, killed, due, memoryVars, recordVars>>

dayOver ==
    /\ plan.state # "none" /\ ~due /\ due' = TRUE
    /\ UNCHANGED <<lifeVars, rowVars, paused, killed, gone, memoryVars, recordVars, boundVars>>

stop ==
    /\ Die /\ stops < MaxStops /\ stops' = stops + 1
    /\ advs' = [a \in Advance |-> NoAdvance] /\ again' = FALSE
    /\ cut' = cut \union {advs[a].seen.cursor : a \in {b \in Advance : advs[b].at \in {"created", "started"}}}
    /\ UNCHANGED <<rowVars, settingVars, stepOf, passed, beside, touches>>

recoverInterruptedJobs ==
    /\ Recover({})
    /\ UNCHANGED <<rowVars, settingVars, memoryVars, recordVars, boundVars>>

(* A check that was running is ended; one that waits still waits. *)
recoverAtStartup ==
    /\ Back
    /\ check' \in {check, IF check = "going" THEN "silent" ELSE check}
    /\ IF open THEN calls ELSE UNCHANGED memoryVars
    /\ UNCHANGED <<plan, reports, acts, settingVars, recordVars, boundVars>>

AdvanceStep(a) ==
    \/ closed(a) \/ agentDeleted(a) \/ expires(a) \/ rests(a) \/ finished(a)
    \/ stageStep(a) \/ jobCompleted(a) \/ jobFailed(a) \/ jobStillGoing(a)
    \/ startCheck(a) \/ checkGoing(a) \/ checkPassed(a) \/ checkAgain(a) \/ checkFailed(a)
    \/ (\E j \in Job : created(a, j)) \/ stageRefused(a) \/ couldNotStart(a) \/ approveAndStart(a) \/ staged(a)

PlansNext ==
    \/ planFor \/ advancePlan \/ (\E a \in Advance : AdvanceStep(a))
    \/ \E j \in Job : jobEnds(j) \/ approveByHand(j) \/ withdrawByHand(j)
    \/ \E verdict \in {"passed", "failed", "silent"} : checkEnds(verdict)
    \/ cancelPlan \/ killSwitch \/ pause \/ resume \/ deleteAgent
    \/ dayOver \/ stop \/ recoverInterruptedJobs \/ recoverAtStartup

(* Ticks come, the day passes, staging's awaits answer and systemd starts  *)
(* the web service again. Nothing is assumed of jobs, checks or people.    *)
PlansFairness ==
    /\ WF_planVars(advancePlan) /\ \A a \in Advance : WF_planVars(AdvanceStep(a))
    /\ WF_planVars(dayOver)
    /\ WF_planVars(recoverInterruptedJobs) /\ WF_planVars(recoverAtStartup)
PlansSpec == PlansInit /\ [][PlansNext]_planVars /\ PlansFairness
-----------------------------------------------------------------------------
(* However the callers of advancePlan fall, a step is staged as one job,   *)
(* and only once everything before it succeeded: every earlier operation   *)
(* has a job that completed, every earlier check passed. Only a stop in    *)
(* the middle of its staging has a step staged again.                      *)
StagedInOrder ==
    /\ \A i \in Steps \ cut : Cardinality({j \in Job : stepOf[j] = i}) =< 1
    /\ \A j \in Job : \A k \in 1..stepOf[j] - 1 :
          \/ Kinds[k] = "operation" /\ \E q \in Job : stepOf[q] = k /\ state[q] = "completed"
          \/ Kinds[k] = "check" /\ k \in passed

(* A plan that ended stays as it ended, and is not reported again: staging *)
(* that comes back after a person or the kill switch stopped it writes     *)
(* nothing over it.                                                        *)
EndedPlanStays == [][plan.state # "none" /\ ~open => UNCHANGED <<plan, reports>>]_planVars

Waiting(J) == {j \in J : stepOf[j] # 0 /\ state[j] = "awaiting"}
(* "what waits on a person is withdrawn, and nothing more is staged". *)
StoppedStagesNothing == plan.state = "cancelled" /\ ~staging => Waiting(Job) = {}

(* "Plans carry on from their last checkpoint: nothing about them was only *)
(* in memory": no step is carried out twice.                               *)
CarriedOutOnce ==
    \A i \in Steps : Cardinality({j \in Job : stepOf[j] = i /\ state[j] \in {"active", "completed", "failed"}}) =< 1

(* An open plan ends, paused or not, whatever its jobs and checks do. *)
PlanEnds == open ~> ~open
=============================================================================
