----------------------------- MODULE FlowRuns ------------------------------
(***************************************************************************)
(* Flows (flows.mjs): steps run one after another as jobs, with retries,   *)
(* conditions and keep-going policies; flows that run after flows; edits   *)
(* and deletions meanwhile; and what a restart leaves: a run stopped       *)
(* between two steps goes on, once, any other is recorded as interrupted.  *)
(*                                                                         *)
(* Rows survive the process; runs and the followers still to start do not. *)
(* A story is a run and the run that goes on with it. Jobs are numbers,    *)
(* staged in order.                                                        *)
(***************************************************************************)
EXTENDS JobLife, Naturals, Sequences, FiniteSets

CONSTANTS Flow, None,
          Versions,    \* [Flow -> the sets of steps it may be saved with]
          FirstSteps,  \* [Flow -> the steps it has at first]
          FirstTrigger,\* [Flow -> the flow each runs after at first]
          ChainLimit,  \* how many links a chain may have (8)
          MaxStories,  \* bound: runs started
          MaxStops,    \* bound: how often the web service stops
          MaxEdits     \* bound: edits, deletions and approvals by hand

StepRecord == [operation : STRING,
               retry : Nat,          \* extra attempts
               keepGoing : BOOLEAN,  \* onFailure "continue"
               when : Nat,           \* the step its condition reads, 0 for none
               attended : BOOLEAN]   \* takes a person, or can restart BoxPilot

ASSUME FlowsAssumption ==
    /\ IsFiniteSet(Flow) /\ Job \subseteq Nat /\ None \notin Flow \union Job
    /\ FirstSteps \in [Flow -> Seq(StepRecord)]
    /\ \A f \in Flow : FirstSteps[f] \in Versions[f] /\ Versions[f] \subseteq Seq(StepRecord)
    /\ FirstTrigger \in [Flow -> Flow \union {None}]
    /\ {ChainLimit, MaxStories, MaxStops, MaxEdits} \subseteq Nat

VARIABLES
    flows,     \* the rows there are
    enabled, steps, trigger,
    result,    \* lastResult
    lastJobIds,
    run,       \* [Flow -> the run in progress]
    cascades,  \* followers still to start, as lists
    interrupted,  \* startup: the jobs recovery failed
    stories, stops, edits,
    story, flowOf, stepOf,  \* of a job: its run, its flow, its step (a record)
    storyOf,   \* of a flow: its latest run (a record)
    byHand,    \* jobs a person approved (a record)
    lost,      \* jobs a run lost sight of (a record)
    still      \* failed jobs whose record says they may still be running

rowVars == <<flows, enabled, steps, trigger, result, lastJobIds>>
boundVars == <<stories, stops, edits>>
recordVars == <<story, flowOf, stepOf, storyOf, byHand, lost, still>>
flowVars == <<lifeVars, rowVars, run, cascades, interrupted, boundVars, recordVars>>

NoResult == [kind |-> "none", step |-> 0, of |-> 0, resumed |-> FALSE]
NoRun == [at |-> "idle", by |-> "none", steps |-> <<>>, i |-> 0, attempt |-> 0, jobIds |-> <<>>,
          named |-> {}, problems |-> FALSE, depth |-> 0, then |-> <<>>, resumed |-> FALSE]
running == {f \in Flow : run[f].at # "idle"}

FlowsInit ==
    /\ LifeInit
    /\ flows = Flow /\ enabled = Flow
    /\ steps = FirstSteps
    /\ trigger = FirstTrigger
    /\ result = [f \in Flow |-> NoResult] /\ lastJobIds = [f \in Flow |-> <<>>]
    /\ run = [f \in Flow |-> NoRun] /\ cascades = {} /\ interrupted = {}
    /\ stories = 0 /\ stops = 0 /\ edits = 0
    /\ story = [j \in Job |-> 0] /\ flowOf = [j \in Job |-> None] /\ stepOf = [j \in Job |-> 0]
    /\ storyOf = [f \in Flow |-> 0]
    /\ byHand = {} /\ lost = {} /\ still = {}
-----------------------------------------------------------------------------
(* Saving: create is an edit of a flow that is there; a deleted one does   *)
(* not come back.                                                          *)

edit == web = "up" /\ edits < MaxEdits /\ edits' = edits + 1 /\ UNCHANGED <<stories, stops>>

(* The flows above f, f first, as far as checkTrigger walks. *)
Above(f) ==
    LET above[n \in 0..ChainLimit] ==
            IF n = 0 THEN f ELSE IF above[n - 1] \in flows THEN trigger[above[n - 1]] ELSE None
    IN above

(* f may run after g: g is there, the chain above it ends within the limit *)
(* and f is not in it.                                                     *)
checkTrigger(f, g) ==
    g = None \/ (/\ g \in flows
                 /\ \E n \in 1..ChainLimit : Above(g)[n] = None
                 /\ \A n \in 0..ChainLimit : Above(g)[n] # f)

setTrigger(f, g) ==
    /\ edit /\ f \in flows /\ checkTrigger(f, g)
    /\ trigger' = [trigger EXCEPT ![f] = g]
    /\ UNCHANGED <<lifeVars, flows, enabled, steps, result, lastJobIds, run, cascades, interrupted, recordVars>>

saveSteps(f, version) ==
    /\ edit /\ f \in flows /\ version # steps[f]
    /\ steps' = [steps EXCEPT ![f] = version]
    /\ UNCHANGED <<lifeVars, flows, enabled, trigger, result, lastJobIds, run, cascades, interrupted, recordVars>>

pause(f) ==
    /\ edit /\ f \in enabled \intersect flows
    /\ enabled' = enabled \ {f}
    /\ UNCHANGED <<lifeVars, flows, steps, trigger, result, lastJobIds, run, cascades, interrupted, recordVars>>

(* Its followers are detached. *)
remove(f) ==
    /\ edit /\ f \in flows
    /\ flows' = flows \ {f} /\ enabled' = enabled \ {f}
    /\ trigger' = [g \in Flow |-> IF trigger[g] = f THEN None ELSE trigger[g]]
    /\ UNCHANGED <<lifeVars, steps, result, lastJobIds, run, cascades, interrupted, recordVars>>
-----------------------------------------------------------------------------
(* Starting: by hand (launch), by the clock or a webhook, and after        *)
(* another flow.                                                           *)

markFlowRun(f, kind, jobIds) ==
    /\ result' = [result EXCEPT ![f] = IF f \in flows THEN [NoResult EXCEPT !.kind = kind] ELSE @]
    /\ lastJobIds' = [lastJobIds EXCEPT ![f] = IF f \in flows THEN jobIds ELSE @]

(* preflight and runUnderCreator: one run of a flow at a time. *)
alreadyRunning(f) == f \in running

start(f, by, depth, then) ==
    /\ web = "up" /\ f \in flows /\ ~alreadyRunning(f)
    /\ stories < MaxStories /\ stories' = stories + 1 /\ UNCHANGED <<stops, edits>>
    /\ run' = [run EXCEPT ![f] = [NoRun EXCEPT !.at = "checking", !.by = by, !.steps = steps[f], !.i = 1,
                                              !.attempt = 1, !.depth = depth, !.then = then]]
    /\ storyOf' = [storyOf EXCEPT ![f] = stories + 1]
    /\ UNCHANGED <<lifeVars, rowVars, interrupted, story, flowOf, stepOf, byHand, lost, still>>

launch(f) == start(f, "hand", 0, <<>>) /\ UNCHANGED cascades

tick(f) == f \in enabled /\ start(f, "clock", 0, <<>>) /\ UNCHANGED cascades

rest(c) == IF Len(c) = 1 THEN {} ELSE {Tail(c)}

runFollower(c) ==
    /\ c \in cascades /\ start(Head(c).flow, "chain", Head(c).depth, Tail(c))
    /\ cascades' = cascades \ {c}

(* Already running, or deleted since. *)
followerSkipped(c) ==
    /\ web = "up" /\ c \in cascades
    /\ alreadyRunning(Head(c).flow) \/ Head(c).flow \notin flows
    /\ cascades' = (cascades \ {c}) \union rest(c)
    /\ UNCHANGED <<lifeVars, rowVars, run, interrupted, boundVars, recordVars>>
-----------------------------------------------------------------------------
(* A run's steps: run().                                                   *)

step(f) == run[f].steps[run[f].i]
at(f, where) == web = "up" /\ run[f].at = where
goesOn(f, changes) == run' = [run EXCEPT ![f] = changes]
more(f) == run[f].i =< Len(run[f].steps)

(* The run is over: the record is written, the flow let go of, and what    *)
(* was to follow goes on.                                                  *)
over(f, followers) ==
    /\ run' = [run EXCEPT ![f] = NoRun]
    /\ cascades' = IF followers \o run[f].then = <<>> THEN cascades ELSE cascades \union {followers \o run[f].then}

stopped(f, kind) == markFlowRun(f, kind, run[f].jobIds) /\ over(f, <<>>)

untouched == <<flows, enabled, steps, trigger, interrupted, boundVars>>

(* The run is refused - its creator, its steps or the approval mode in     *)
(* preflight, or refuseStoredSteps, awaited once the flow is marked        *)
(* running - or goes on. A refusal is recorded unless a person is there to *)
(* see it.                                                                 *)
stepsAllowed(f) ==
    /\ at(f, "checking") /\ goesOn(f, [run[f] EXCEPT !.at = "step"])
    /\ UNCHANGED <<lifeVars, rowVars, cascades, interrupted, boundVars, recordVars>>

stepsRefused(f) ==
    /\ at(f, "checking")
    /\ over(f, <<>>)
    /\ IF run[f].by = "hand" THEN UNCHANGED <<result, lastJobIds>>
       ELSE IF run[f].by = "resume" THEN markFlowRun(f, "interrupted", run[f].jobIds)
       ELSE markFlowRun(f, "skipped", <<>>)
    /\ UNCHANGED <<lifeVars, untouched, recordVars>>

(* The step's condition is not met, or reads a step that did not finish. *)
skipStep(f) ==
    /\ at(f, "step") /\ more(f) /\ step(f).when # 0
    /\ goesOn(f, [run[f] EXCEPT !.i = @ + 1, !.jobIds = Append(@, None)])
    /\ UNCHANGED <<lifeVars, rowVars, cascades, interrupted, boundVars, recordVars>>

(* A condition that reads a field its step did not record. *)
conditionFails(f) ==
    /\ at(f, "step") /\ more(f) /\ step(f).when \in run[f].named
    /\ stopped(f, "stopped")
    /\ UNCHANGED <<lifeVars, untouched, recordVars>>

toStage(f) ==
    \/ at(f, "retrying")
    \/ at(f, "step") /\ more(f) /\ step(f).when \in {0} \union run[f].named

newJob == CHOOSE j \in Job : state[j] = "none" /\ \A k \in Job : state[k] = "none" => j =< k

(* The step's job, its place in the run, and the record of where it is. *)
stageStep(f) ==
    LET j == newJob
        jobIds == IF run[f].attempt = 1 THEN Append(run[f].jobIds, j) ELSE [run[f].jobIds EXCEPT ![run[f].i] = j]
    IN /\ toStage(f) /\ \E k \in Job : state[k] = "none"
       /\ Stage(j)
       /\ goesOn(f, [run[f] EXCEPT !.at = "approving", !.jobIds = jobIds])
       /\ result' = [result EXCEPT ![f] = IF f \in flows
             THEN [kind |-> "running", step |-> run[f].i, of |-> Len(run[f].steps), resumed |-> run[f].resumed] ELSE @]
       /\ lastJobIds' = [lastJobIds EXCEPT ![f] = IF f \in flows THEN jobIds ELSE @]
       /\ story' = [story EXCEPT ![j] = storyOf[f]]
       /\ flowOf' = [flowOf EXCEPT ![j] = f] /\ stepOf' = [stepOf EXCEPT ![j] = run[f].i]
       /\ UNCHANGED <<untouched, cascades, storyOf, byHand, lost, still>>

(* It could not start: the next step if the policy says so, else the end. *)
couldNotStart(f, jobIds) ==
    IF step(f).keepGoing
       THEN /\ goesOn(f, [run[f] EXCEPT !.at = "step", !.i = @ + 1, !.attempt = 1, !.jobIds = jobIds, !.problems = TRUE])
            /\ UNCHANGED <<result, lastJobIds, cascades>>
       ELSE markFlowRun(f, "stopped", jobIds) /\ over(f, <<>>)

stageFails(f) ==
    /\ toStage(f)
    /\ couldNotStart(f, IF run[f].attempt = 1 THEN Append(run[f].jobIds, None) ELSE run[f].jobIds)
    /\ UNCHANGED <<lifeVars, untouched, story, flowOf, stepOf, storyOf, byHand, lost, still>>

jobOf(f) == run[f].jobIds[run[f].i]

approveStep(f) ==
    /\ at(f, "approving") /\ Grant(jobOf(f))
    /\ goesOn(f, [run[f] EXCEPT !.at = "waiting"])
    /\ UNCHANGED <<rowVars, cascades, interrupted, boundVars, recordVars>>

(* Refused, or someone approved or withdrew it first. *)
approveFails(f) ==
    /\ at(f, "approving")
    /\ IF state[jobOf(f)] = "awaiting" THEN Withdraw({jobOf(f)}) ELSE UNCHANGED lifeVars
    /\ couldNotStart(f, run[f].jobIds)
    /\ UNCHANGED <<untouched, story, flowOf, stepOf, storyOf, byHand, lost, still>>

stepCompleted(f) ==
    /\ at(f, "waiting") /\ state[jobOf(f)] = "completed"
    /\ goesOn(f, [run[f] EXCEPT !.at = "step", !.i = @ + 1, !.attempt = 1, !.named = @ \union {run[f].i}])
    /\ UNCHANGED <<lifeVars, rowVars, cascades, interrupted, boundVars, recordVars>>

(* awaitJob's deadline. *)
loseSight(f) ==
    /\ at(f, "waiting") /\ state[jobOf(f)] = "active"
    /\ stopped(f, "lost")
    /\ lost' = lost \union {jobOf(f)}
    /\ UNCHANGED <<lifeVars, untouched, story, flowOf, stepOf, storyOf, byHand, still>>

(* Mutant: a job that ran out of time is a failure like any other. *)
mayStillBeRunning_Unread(j) == FALSE

mayStillBeRunning(j) == j \in still

(* Past its time on the host: neither retried nor gone on from. *)
stepLeftRunning(f) ==
    /\ at(f, "waiting") /\ state[jobOf(f)] = "failed" /\ mayStillBeRunning(jobOf(f))
    /\ stopped(f, "lost")
    /\ UNCHANGED <<lifeVars, untouched, recordVars>>

retryStep(f) ==
    /\ at(f, "waiting") /\ state[jobOf(f)] = "failed" /\ ~mayStillBeRunning(jobOf(f))
    /\ run[f].attempt =< step(f).retry
    /\ goesOn(f, [run[f] EXCEPT !.at = "retrying", !.attempt = @ + 1])
    /\ UNCHANGED <<lifeVars, rowVars, cascades, interrupted, boundVars, recordVars>>

(* Failed for good, or withdrawn. *)
stepFailed(f) ==
    /\ at(f, "waiting") /\ state[jobOf(f)] \in {"failed", "cancelled"} /\ ~mayStillBeRunning(jobOf(f))
    /\ state[jobOf(f)] = "failed" => run[f].attempt > step(f).retry
    /\ IF step(f).keepGoing
       THEN /\ goesOn(f, [run[f] EXCEPT !.at = "step", !.i = @ + 1, !.attempt = 1, !.problems = TRUE])
            /\ UNCHANGED <<result, lastJobIds, cascades>>
       ELSE stopped(f, "stopped")
    /\ UNCHANGED <<lifeVars, untouched, recordVars>>

followers(f, depth) ==
    IF depth >= ChainLimit THEN {}
    ELSE {[flow |-> g, depth |-> depth + 1] : g \in {h \in enabled : trigger[h] = f}}

orders(S) == {q \in [1..Cardinality(S) -> S] : \A i, k \in DOMAIN q : i # k => q[i] # q[k]}

complete(f) ==
    /\ at(f, "step") /\ ~more(f)
    /\ markFlowRun(f, IF run[f].problems THEN "problems" ELSE "completed", run[f].jobIds)
    /\ \E order \in orders(followers(f, run[f].depth)) : over(f, order)
    /\ UNCHANGED <<lifeVars, untouched, recordVars>>
-----------------------------------------------------------------------------
(* Jobs end, and people act on those that wait.                            *)

jobEnds(j) ==
    /\ \/ Complete(j) /\ UNCHANGED still
       \/ Fail(j) /\ still' \in {still, still \union {j}}
    /\ UNCHANGED <<rowVars, run, cascades, interrupted, boundVars, story, flowOf, stepOf, storyOf, byHand, lost>>

approveByHand(j) ==
    /\ edit /\ Grant(j) /\ byHand' = byHand \union {j}
    /\ UNCHANGED <<rowVars, run, cascades, interrupted, story, flowOf, stepOf, storyOf, lost, still>>

withdrawByHand(j) ==
    /\ edit /\ Withdraw({j})
    /\ UNCHANGED <<rowVars, run, cascades, interrupted, recordVars>>
-----------------------------------------------------------------------------
(* The web service stops, and starts again.                                *)

stop ==
    /\ stops < MaxStops /\ Die
    /\ stops' = stops + 1
    /\ run' = [f \in Flow |-> NoRun] /\ cascades' = {} /\ interrupted' = {}
    /\ UNCHANGED <<rowVars, stories, edits, recordVars>>

recoverInterruptedJobs ==
    /\ \E N \in SUBSET Job : Recover(N)
    /\ interrupted' = activeJobs
    /\ UNCHANGED <<rowVars, run, cascades, boundVars, recordVars>>

(* Mutant: a paused flow is passed over. *)
runningRows_Enabled == {f \in flows \intersect enabled : result[f].kind = "running"}

runningRows == {f \in flows : result[f].kind = "running"}
stoppedJob(f) == lastJobIds[f][result[f].step]
began(f) == ~(state[stoppedJob(f)] = "awaiting" \/ (stoppedJob(f) \in interrupted /\ label[stoppedJob(f)] = "neverStarted"))

(* Mutant: the run goes on from the step it was on. *)
resumeFrom_Near(f) == result[f].step

(* The step after one that finished, or the one that had not begun. *)
resumeFrom(f) == IF began(f) THEN result[f].step + 1 ELSE result[f].step

(* resumePoint's conditions, but for its runner's role and a drive's       *)
(* automation, which never goes on. A change of steps is seen by their     *)
(* number.                                                                 *)
mayResume(f) ==
    /\ began(f) => state[stoppedJob(f)] = "completed"
    /\ ~result[f].resumed
    /\ result[f].of = Len(steps[f])
    /\ \A i \in resumeFrom(f)..Len(steps[f]) : ~steps[f][i].attended

(* What the steps before left: their jobs, results and problems. *)
resumedRun(f) ==
    LET from == resumeFrom(f)
        before == SubSeq(lastJobIds[f], 1, from - 1)
        ended(S) == {i \in 1..(from - 1) : before[i] # None /\ state[before[i]] \in S}
    IN [NoRun EXCEPT !.at = "checking", !.by = "resume", !.steps = steps[f], !.i = from, !.attempt = 1,
                     !.jobIds = before, !.named = ended({"completed"}),
                     !.problems = ended({"failed", "cancelled", "awaiting"}) # {}, !.resumed = TRUE]

(* recover and resumeRun: the runs R go on, a job staged for the step that *)
(* had not begun is withdrawn, and the others say they were interrupted.   *)
recover(R) ==
    /\ web = "recovering" /\ web' = "up"
    /\ R \subseteq {f \in runningRows : mayResume(f)}
    /\ run' = [f \in Flow |-> IF f \in R THEN resumedRun(f) ELSE NoRun]
    /\ state' = [j \in Job |-> IF state[j] = "awaiting" /\ \E f \in R : stoppedJob(f) = j THEN "cancelled" ELSE state[j]]
    /\ result' = [f \in Flow |-> IF f \in runningRows \ R THEN [NoResult EXCEPT !.kind = "interrupted"] ELSE result[f]]
    /\ interrupted' = {}
    /\ UNCHANGED <<label, flows, enabled, steps, trigger, lastJobIds, cascades, boundVars, recordVars>>
-----------------------------------------------------------------------------
RunStep(f) ==
    \/ stepsAllowed(f) \/ stepsRefused(f)
    \/ skipStep(f) \/ conditionFails(f) \/ stageStep(f) \/ stageFails(f)
    \/ approveStep(f) \/ approveFails(f)
    \/ stepCompleted(f) \/ loseSight(f) \/ stepLeftRunning(f) \/ retryStep(f) \/ stepFailed(f)
    \/ complete(f)

FlowsNext ==
    \/ \E f \in Flow :
          \/ launch(f) \/ tick(f) \/ RunStep(f)
          \/ pause(f) \/ remove(f)
          \/ \E g \in Flow \union {None} : setTrigger(f, g)
          \/ \E version \in Versions[f] : saveSteps(f, version)
    \/ \E c \in cascades : runFollower(c) \/ followerSkipped(c)
    \/ \E j \in Job : jobEnds(j) \/ approveByHand(j) \/ withdrawByHand(j)
    \/ stop \/ recoverInterruptedJobs
    \/ \E R \in SUBSET Flow : recover(R)

(* Promises, deadlines and the retry delay run, and systemd starts the     *)
(* service again. Nothing is assumed of people or of jobs: awaitJob has a  *)
(* deadline.                                                               *)
FlowsFairness ==
    /\ \A f \in Flow : WF_flowVars(RunStep(f))
    /\ WF_flowVars(recoverInterruptedJobs)
    /\ WF_flowVars(\E R \in SUBSET Flow : recover(R))

FlowsSpec == FlowsInit /\ [][FlowsNext]_flowVars /\ FlowsFairness
-----------------------------------------------------------------------------
going(j) == state[j] = "active" \/ j \in still

(* One step at a time: in one story no step is under way while an earlier  *)
(* one is, or may still be on the host after its time ran out; and two     *)
(* runs of a flow are never under way together. Left out are a job         *)
(* approved by hand while its run was approving it, and, across runs, one  *)
(* the run before lost sight of.                                           *)
OneStepAtATime ==
    \A j, k \in Job \ byHand : j # k /\ flowOf[j] = flowOf[k] /\ flowOf[j] # None /\ state[k] = "active" =>
       IF story[j] = story[k] THEN ~going(j) ELSE state[j] = "active" => {j, k} \intersect lost # {}

(* A story repeats only what failed or never began: no step that           *)
(* completed, and none a restart cut off midway, is run again by a retry   *)
(* or by going on after the restart.                                       *)
RepeatsOnlyFailures ==
    \A j, k \in Job : j < k /\ story[j] # 0 /\ story[j] = story[k] /\ stepOf[j] = stepOf[k] =>
       state[j] \in {"failed", "cancelled"} /\ label[j] # "cutOff"

(* A record that says a step is running is answered: it says how the run   *)
(* ended, whatever its jobs do and whenever the service restarts.          *)
RunningIsAnswered ==
    \A f \in Flow : (f \in flows /\ result[f].kind = "running") ~> (f \notin flows \/ result[f].kind # "running")
=============================================================================
