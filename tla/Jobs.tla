-------------------------------- MODULE Jobs --------------------------------
(***************************************************************************)
(* The web service's job service (jobs.mjs over state/jobs.mjs): a job is   *)
(* staged, approved, sent to the root helper and recorded; startup marks   *)
(* what a restart cut off and runs some of it again (job-reruns.mjs).      *)
(*                                                                         *)
(* The helper is its contract. A job sends its request at most twice:      *)
(* request <<j, 1>>, and <<j, 2>> when the first was never started. Rows   *)
(* and steps are in SQLite and survive the process; staged secrets, calls  *)
(* in progress and planned reruns are in memory and do not.                *)
(***************************************************************************)
EXTENDS HelperContract, FiniteSets

CONSTANTS
    Job, NoJob, NoOp,
    Fresh,     \* bound: the jobs people stage; the rest are retries and reruns
    Op,        \* what the registry says of each operation, as records
    Approver,  \* people approving jobs
    Rerunner   \* BoxPilot itself, approving a rerun

OpRecord == [secret : BOOLEAN,      \* its parameters hold secrets
             rootTask : BOOLEAN,    \* runsRootTask
             restarts : BOOLEAN,    \* restartsService: not beside other jobs
             attended : BOOLEAN,    \* approving it takes a person
             repeatable : BOOLEAN,  \* rerunAfterInterrupt
             moreTime : Nat]        \* how often its budget can be doubled

ASSUME JobsAssumption ==
    /\ Req = Job \X {1, 2}
    /\ Op \subseteq OpRecord
    /\ Fresh \subseteq Job /\ NoJob \notin Job /\ NoOp \notin Op
    /\ Rerunner \notin Approver

VARIABLES
    web,          \* "up", "down", "recovering"
    state,        \* the job's row
    op, rerunOf, retryOf, extra, aged,
    applyStep, verifyStep, queueStep,   \* its last step of each name
    approvals,    \* rows in approvals
    timeout,      \* its timeout record
    label,        \* what recovery said of it: "none", "cutOff", "neverStarted"
    staged,       \* jobs whose secrets are in memory
    approving,    \* [caller -> the approval it is in the middle of]
    exec,         \* where executePrepared is
    cause,        \* the error executePrepared caught
    whole,        \* jobs executing with every parameter in place (a record)
    interrupted, planned,  \* startup: jobs cut off; those to run again
    announced,    \* interrupted jobs someone was told of
    forgotten,    \* jobs the service stopped again before it had answered (a record)
    hostWork,     \* jobs whose work is going on on the host
    laneHeld      \* jobs holding their operation's lane in the helper

rowVars == <<state, op, rerunOf, retryOf, extra, aged, approvals, timeout, label>>
stepVars == <<applyStep, verifyStep, queueStep>>
execVars == <<exec, cause, whole>>
startVars == <<interrupted, planned, announced, forgotten>>
hostVars == <<hostWork, laneHeld>>
jobVars == <<contractVars, web, rowVars, stepVars, staged, approving, execVars, startVars, hostVars>>

Caller == Approver \union {Rerunner}
Idle == [job |-> NoJob, whole |-> FALSE]
Active == {"applying", "verifying"}
Terminal == {"completed", "failed", "cancelled"}
JobState == {"none", "awaiting_approval"} \union Active \union Terminal
Timeout == {"none", "queued", "operation", "step", "leftRunning"}

JobsInit ==
    /\ ContractInit
    /\ web = "up"
    /\ state = [j \in Job |-> "none"]
    /\ op = [j \in Job |-> NoOp]
    /\ rerunOf = [j \in Job |-> NoJob] /\ retryOf = [j \in Job |-> NoJob]
    /\ extra = [j \in Job |-> 0] /\ aged = {}
    /\ applyStep = [j \in Job |-> "none"]
    /\ verifyStep = [j \in Job |-> "none"]
    /\ queueStep = [j \in Job |-> "none"]
    /\ approvals = [j \in Job |-> 0]
    /\ timeout = [j \in Job |-> "none"] /\ label = [j \in Job |-> "none"]
    /\ staged = {} /\ approving = [c \in Caller |-> Idle]
    /\ exec = [j \in Job |-> "none"] /\ cause = [j \in Job |-> "none"] /\ whole = {}
    /\ interrupted = {} /\ planned = {} /\ announced = {} /\ forgotten = {}
    /\ hostWork = {} /\ laneHeld = {}
-----------------------------------------------------------------------------
(* Staging: createOperationJob and retryWithMoreTime. Refusals change      *)
(* nothing and are left out.                                               *)

createJob(j, o) ==
    /\ web = "up" /\ state[j] = "none"
    /\ state' = [state EXCEPT ![j] = "awaiting_approval"]
    /\ op' = [op EXCEPT ![j] = o]
    /\ staged' = IF o.secret THEN staged \union {j} ELSE staged
    /\ UNCHANGED <<contractVars, web, aged, approvals, timeout, label, stepVars, execVars, hostVars, interrupted, forgotten>>

createOperationJob(j, o) ==
    /\ j \in Fresh /\ createJob(j, o)
    /\ UNCHANGED <<rerunOf, retryOf, extra, approving, planned, announced>>

(* Mutant: only a step known to be left running is looked for. *)
leftRunning_StepOnly(j) == timeout[j] = "leftRunning"

(* What ran out may still be going on the host, with no lane against it. *)
leftRunning(j) ==
    \/ timeout[j] = "leftRunning"
    \/ timeout[j] = "operation" /\ op[j].rootTask

retryWithMoreTime(j, k) ==
    /\ state[j] = "failed" /\ timeout[j] \notin {"none", "queued"}
    /\ ~leftRunning(j) /\ ~op[j].secret
    /\ extra[j] < op[j].moreTime
    /\ k \notin Fresh /\ createJob(k, op[j])
    /\ retryOf' = [retryOf EXCEPT ![k] = j]
    /\ extra' = [extra EXCEPT ![k] = extra[j] + 1]
    /\ UNCHANGED <<rerunOf, approving, planned, announced>>

(* Half an hour passes over a job waiting with secrets. *)
SecretsAge(j) ==
    /\ state[j] = "awaiting_approval" /\ op[j].secret /\ j \notin aged
    /\ aged' = aged \union {j}
    /\ UNCHANGED <<contractVars, web, state, op, rerunOf, retryOf, extra, approvals, timeout, label,
                   stepVars, staged, approving, execVars, startVars, hostVars>>

(* Jobs still waiting are cancelled, and their secrets dropped. *)
Withdrawn(S) ==
    /\ state' = [j \in Job |-> IF j \in S /\ state[j] = "awaiting_approval" THEN "cancelled" ELSE state[j]]
    /\ staged' = staged \ S
    /\ UNCHANGED <<contractVars, web, op, rerunOf, retryOf, extra, aged, approvals, timeout, label,
                   stepVars, execVars, hostVars, interrupted, planned, forgotten>>

cancelJob(j) ==
    /\ web = "up" /\ state[j] = "awaiting_approval"
    /\ Withdrawn({j}) /\ UNCHANGED <<approving, announced>>

(* Superseded ones, and ones nobody approved in a week. *)
sweepStaleApprovals(S) ==
    /\ web = "up" /\ S # {} /\ \A j \in S : state[j] = "awaiting_approval"
    /\ Withdrawn(S) /\ UNCHANGED <<approving, announced>>

(* Secrets of jobs no longer waiting, or waiting too long. *)
dueSecrets == {j \in staged : state[j] # "awaiting_approval" \/ j \in aged}

(* Every minute. *)
pruneStagedSecrets ==
    /\ web = "up" /\ dueSecrets # {}
    /\ Withdrawn(dueSecrets) /\ UNCHANGED <<approving, announced>>
-----------------------------------------------------------------------------
(* Approval: prepareApproval, up to the await of the approval hook and     *)
(* after it. Who may approve, passwords and typed confirmations decide     *)
(* whether a caller gets here and change no job.                           *)

expireSecretJob(j) ==
    /\ web = "up" /\ state[j] # "none" /\ op[j].secret /\ j \in aged
    /\ Withdrawn({j}) /\ UNCHANGED <<approving, announced>>

(* Mutant: nothing looks for the placeholders. *)
placeholderPaths_Unread(j) == FALSE

(* The secrets staged with it are gone: the service restarted. *)
placeholderPaths(j) == op[j].secret /\ j \notin staged

(* The staged secrets are put back into the parameters. An approval begun  *)
(* of a job that no longer waits ends in the transition's refusal.         *)
checkApproval(c, j) ==
    /\ web = "up" /\ approving[c] = Idle /\ state[j] = "awaiting_approval" /\ j \notin aged
    /\ ~placeholderPaths(j)
    /\ approving' = [approving EXCEPT ![c] = [job |-> j, whole |-> op[j].secret => j \in staged]]
    /\ UNCHANGED <<contractVars, web, rowVars, stepVars, staged, execVars, startVars, hostVars>>

(* A job that restarts BoxPilot is not started beside another. *)
besideOthers(j) == op[j].restarts /\ \E k \in Job \ {j} : state[k] \in Active

(* Mutant: the state read before the await is trusted. *)
transitionAllowed_Stale(j) == state[j] # "none"

(* transitionJob's own check of the row, as it writes it. *)
transitionAllowed(j) == state[j] = "awaiting_approval"

grantApproval(c) ==
    LET j == approving[c].job
    IN /\ web = "up" /\ j # NoJob
       /\ ~besideOthers(j) /\ transitionAllowed(j)
       /\ state' = [state EXCEPT ![j] = "applying"]
       /\ approvals' = [approvals EXCEPT ![j] = @ + 1]
       /\ applyStep' = [applyStep EXCEPT ![j] = "running"]
       /\ exec' = [exec EXCEPT ![j] = "sending"]
       /\ whole' = IF approving[c].whole THEN whole \union {j} ELSE whole
       /\ approving' = [approving EXCEPT ![c] = Idle]
       /\ UNCHANGED <<contractVars, web, op, rerunOf, retryOf, extra, aged, timeout, label,
                      verifyStep, queueStep, staged, cause, startVars, hostVars>>

(* The hook, the parameters, the guard or the transition refuse. A rerun   *)
(* that cannot start is withdrawn and told.                                *)
refuseApproval(c) ==
    LET j == approving[c].job
    IN /\ web = "up" /\ j # NoJob
       /\ approving' = [approving EXCEPT ![c] = Idle]
       /\ Withdrawn(IF c = Rerunner THEN {j} ELSE {})
       /\ announced' = IF c = Rerunner THEN announced \union {rerunOf[j]} ELSE announced
-----------------------------------------------------------------------------
(* Execution: executePrepared.                                             *)

executing(j) == exec[j] \in {"sending", "sendingAgain"}
request(j) == IF exec[j] = "sendingAgain" THEN <<j, 2>> ELSE <<j, 1>>

(* What the job service's steps leave alone. *)
elsewhere == <<web, op, rerunOf, retryOf, extra, aged, approvals, label, approving, whole, startVars, hostVars>>

sendToHelper(j) ==
    /\ executing(j)
    /\ Send(request(j)) \/ NobodyThere(request(j))
    /\ UNCHANGED <<elsewhere, state, timeout, stepVars, staged, exec, cause>>

onQueued(j) ==
    /\ executing(j) /\ HearQueued(request(j))
    /\ queueStep' = [queueStep EXCEPT ![j] = IF heard[request(j)] = "none" THEN "waiting" ELSE @]
    /\ UNCHANGED <<elsewhere, state, timeout, applyStep, verifyStep, staged, exec, cause>>

onStarted(j) ==
    /\ executing(j) /\ HearStarted(request(j))
    /\ queueStep' = [queueStep EXCEPT ![j] = "completed"]
    /\ UNCHANGED <<elsewhere, state, timeout, applyStep, verifyStep, staged, exec, cause>>

helperSettles(j) ==
    /\ executing(j)
    /\ HearReply(request(j)) \/ TimeOut(request(j)) \/ LoseConnection(request(j))
    /\ UNCHANGED <<elsewhere, state, timeout, stepVars, staged, exec, cause>>

settledWith(j) == IF executing(j) /\ client[request(j)] = "settled" THEN outcome[request(j)] ELSE "none"

(* Mutant: a lost connection counts as not started. *)
notStarted_ConnectionLost == {"restarting", "unavailable", "closed"}

(* Answers of a helper that never started what it was sent. *)
notStarted == {"restarting", "unavailable"}

applied(j) ==
    /\ settledWith(j) = "ok"
    /\ state' = [state EXCEPT ![j] = "verifying"]
    /\ applyStep' = [applyStep EXCEPT ![j] = "completed"]
    /\ exec' = [exec EXCEPT ![j] = "recording"]
    /\ UNCHANGED <<elsewhere, contractVars, timeout, verifyStep, queueStep, staged, cause>>

(* Never started, the first time: it waits for the helper to be back. *)
waitForHelper(j) ==
    /\ settledWith(j) \in notStarted /\ exec[j] = "sending"
    /\ queueStep' = [queueStep EXCEPT ![j] = "waiting"]
    /\ exec' = [exec EXCEPT ![j] = "waitBack"]
    /\ UNCHANGED <<elsewhere, contractVars, state, timeout, applyStep, verifyStep, staged, cause>>

helperBack(j) ==
    /\ exec[j] = "waitBack"
    /\ queueStep' = [queueStep EXCEPT ![j] = "completed"]
    /\ exec' = [exec EXCEPT ![j] = "sendingAgain"]
    /\ UNCHANGED <<elsewhere, contractVars, state, timeout, applyStep, verifyStep, staged, cause>>

(* The error is caught: the secrets go, and the evidence is refreshed. *)
caught(j, error) ==
    /\ exec' = [exec EXCEPT ![j] = "failing"]
    /\ cause' = [cause EXCEPT ![j] = error]
    /\ staged' = staged \ {j}
    /\ UNCHANGED <<elsewhere, contractVars, state, timeout, stepVars>>

helperFailed(j) ==
    /\ settledWith(j) \notin {"none", "ok"}
    /\ settledWith(j) \in notStarted => exec[j] = "sendingAgain"
    /\ caught(j, settledWith(j))

helperNotBack(j) == exec[j] = "waitBack" /\ caught(j, "restarting")

(* The record hook fails: the operation ran, its result was not saved. *)
recordFailed(j) == exec[j] = "recording" /\ caught(j, "record")

recordResult(j) ==
    /\ exec[j] = "recording"
    /\ verifyStep' = [verifyStep EXCEPT ![j] = "completed"]
    /\ exec' = [exec EXCEPT ![j] = "refreshing"]
    /\ UNCHANGED <<elsewhere, contractVars, state, timeout, applyStep, queueStep, staged, cause>>

complete(j) ==
    /\ exec[j] = "refreshing"
    /\ state' = [state EXCEPT ![j] = "completed"]
    /\ exec' = [exec EXCEPT ![j] = "persisting"]
    /\ UNCHANGED <<elsewhere, contractVars, timeout, stepVars, staged, cause>>

(* The job's log is saved; then the finally clause. *)
persisted(j) ==
    /\ exec[j] = "persisting"
    /\ staged' = staged \ {j}
    /\ exec' = [exec EXCEPT ![j] = "none"]
    /\ UNCHANGED <<elsewhere, contractVars, state, timeout, stepVars, cause>>

(* What the timeout record says of an error caught while applying. *)
timeoutOf(error) ==
    CASE error = "timeoutQueued" -> "queued"
      [] error = "timeoutRunning" -> "operation"
      [] error = "stepTimeout" -> "step"
      [] error = "leftRunning" -> "leftRunning"
      [] OTHER -> "none"

(* The step that failed is the one that was running. *)
failedStep(j) == IF state[j] = "verifying" THEN "verify" ELSE "apply"

closeStep(S) ==
    /\ applyStep' = [j \in Job |-> IF j \in S /\ failedStep(j) = "apply" THEN "failed" ELSE applyStep[j]]
    /\ verifyStep' = [j \in Job |-> IF j \in S /\ failedStep(j) = "verify" THEN "failed" ELSE verifyStep[j]]

fail(j) ==
    /\ exec[j] = "failing"
    /\ closeStep({j})
    /\ timeout' = [timeout EXCEPT ![j] = IF state[j] = "applying" THEN timeoutOf(cause[j]) ELSE @]
    /\ state' = [state EXCEPT ![j] = "failed"]
    /\ exec' = [exec EXCEPT ![j] = "none"]
    /\ cause' = [cause EXCEPT ![j] = "none"]
    /\ UNCHANGED <<elsewhere, contractVars, queueStep, staged>>
-----------------------------------------------------------------------------
(* The helper's side of a request, with what it does on the host. A job of *)
(* an operation waits in its lane for another of the same.                 *)

webSide == <<web, rowVars, stepVars, staged, approving, execVars, startVars>>

helperHandles(r) ==
    /\ Accept(r) \/ Abandon(r) \/ Refuse({r})
         \/ \E why \in {"restarting", "busy"} : TurnAway(r, why)
    /\ UNCHANGED <<webSide, hostVars>>

helperStarts(r) ==
    /\ Start(r)
    /\ \A k \in laneHeld : op[k] # op[r[1]]
    /\ hostWork' = hostWork \union {r[1]} /\ laneHeld' = laneHeld \union {r[1]}
    /\ UNCHANGED webSide

(* A root task past its own limit goes on, and keeps the lane. *)
helperFinishes(r, how) ==
    /\ Finish(r, how)
    /\ how = "leftRunning" => op[r[1]].rootTask
    /\ LET over == IF how = "leftRunning" THEN {} ELSE {r[1]}
       IN hostWork' = hostWork \ over /\ laneHeld' = laneHeld \ over
    /\ UNCHANGED webSide

(* What was left running stops, or its lane's hold reaches its cap. *)
rootTaskStops(j) ==
    /\ j \in hostWork /\ \A a \in {1, 2} : place[<<j, a>>] # "running"
    /\ hostWork' = hostWork \ {j} /\ laneHeld' = laneHeld \ {j}
    /\ UNCHANGED <<contractVars, webSide>>

lingerCap(j) ==
    /\ j \in laneHeld /\ \A a \in {1, 2} : place[<<j, a>>] # "running"
    /\ laneHeld' = laneHeld \ {j}
    /\ UNCHANGED <<contractVars, webSide, hostWork>>

(* The helper's own work dies with it; a root task is a unit of its own. *)
helperDies ==
    /\ \E r \in Req : place[r] \notin {"none", "over"}
    /\ HelperDies
    /\ hostWork' = {j \in hostWork : op[j].rootTask} /\ laneHeld' = {}
    /\ UNCHANGED webSide
-----------------------------------------------------------------------------
(* The web service stops, and starts again.                                *)

webDies ==
    /\ web # "down" /\ web' = "down"
    /\ CallersLost
    /\ staged' = {} /\ approving' = [c \in Caller |-> Idle]
    /\ exec' = [j \in Job |-> "none"] /\ cause' = [j \in Job |-> "none"]
    /\ interrupted' = {} /\ planned' = {}
    /\ forgotten' = forgotten \union interrupted \union planned
    /\ UNCHANGED <<placeVars, rowVars, stepVars, whole, announced, hostVars>>

(* Mutant: only jobs still applying are looked for. *)
cutOff_ApplyingOnly == {j \in Job : state[j] = "applying"}

cutOff == {j \in Job : state[j] \in Active}

(* Its last word from the helper was that it waited. *)
neverStarted(j) == state[j] = "applying" /\ queueStep[j] = "waiting"

recoverInterruptedJobs ==
    /\ web = "down" /\ web' = "recovering"
    /\ interrupted' = cutOff
    /\ closeStep(cutOff)
    /\ state' = [j \in Job |-> IF j \in cutOff THEN "failed" ELSE state[j]]
    /\ label' = [j \in Job |-> IF j \notin cutOff THEN label[j] ELSE IF neverStarted(j) THEN "neverStarted" ELSE "cutOff"]
    /\ UNCHANGED <<contractVars, op, rerunOf, retryOf, extra, aged, approvals, timeout, queueStep,
                   staged, approving, execVars, planned, announced, forgotten, hostVars>>

(* Mutant: a rerun cut off is run again. *)
rerunRefusal_Loops(j) ==
    \/ IF label[j] = "neverStarted" THEN op[j].attended \/ op[j].restarts ELSE ~op[j].repeatable
    \/ op[j].secret

(* Why an interrupted job is not run again, whatever else is refused. *)
rerunRefusal(j) ==
    \/ IF label[j] = "neverStarted" THEN op[j].attended \/ op[j].restarts ELSE ~op[j].repeatable
    \/ rerunOf[j] # NoJob
    \/ op[j].secret

(* The rest of startup: some run again (a schedule's, a flow's, a creator  *)
(* who may no longer approve are refused too), the others are told.        *)
planInterruptedReruns(S) ==
    /\ web = "recovering" /\ web' = "up"
    /\ S \subseteq {j \in interrupted : ~rerunRefusal(j)}
    /\ planned' = S
    /\ announced' = announced \union (interrupted \ S)
    /\ interrupted' = {}
    /\ UNCHANGED <<contractVars, rowVars, stepVars, staged, approving, execVars, forgotten, hostVars>>

(* A rerun is staged as its creator and goes into approval; one that       *)
(* cannot be staged is told.                                               *)
stageRerun(j, k) ==
    /\ j \in planned /\ approving[Rerunner] = Idle
    /\ k \notin Fresh /\ createJob(k, op[j])
    /\ rerunOf' = [rerunOf EXCEPT ![k] = j]
    /\ extra' = [extra EXCEPT ![k] = extra[j]]
    /\ planned' = planned \ {j}
    /\ approving' = [approving EXCEPT ![Rerunner] = [job |-> k, whole |-> TRUE]]
    /\ UNCHANGED <<retryOf, announced>>

(* A rerun that cannot be staged: its job is told instead. *)
rerunNotStaged(j) ==
    /\ web = "up" /\ j \in planned /\ approving[Rerunner] = Idle
    /\ planned' = planned \ {j}
    /\ announced' = announced \union {j}
    /\ UNCHANGED <<contractVars, web, rowVars, stepVars, staged, approving, execVars, interrupted, forgotten, hostVars>>
-----------------------------------------------------------------------------
JobStep(j) ==
    \/ sendToHelper(j) \/ onQueued(j) \/ onStarted(j) \/ helperSettles(j)
    \/ applied(j) \/ waitForHelper(j) \/ helperBack(j)
    \/ helperFailed(j) \/ helperNotBack(j)
    \/ recordResult(j) \/ recordFailed(j)
    \/ complete(j) \/ persisted(j) \/ fail(j)

JobsNext ==
    \/ \E j \in Job :
          \/ \E o \in Op : createOperationJob(j, o)
          \/ \E k \in Job : retryWithMoreTime(j, k) \/ stageRerun(j, k)
          \/ \E c \in Approver : checkApproval(c, j)
          \/ SecretsAge(j) \/ cancelJob(j) \/ expireSecretJob(j) \/ JobStep(j)
          \/ rootTaskStops(j) \/ lingerCap(j) \/ rerunNotStaged(j)
    \/ \E S \in SUBSET Job : sweepStaleApprovals(S) \/ planInterruptedReruns(S)
    \/ \E c \in Caller : grantApproval(c) \/ refuseApproval(c)
    \/ \E r \in Req :
          \/ helperHandles(r) \/ helperStarts(r)
          \/ \E how \in Answer : helperFinishes(r, how)
    \/ pruneStagedSecrets \/ helperDies \/ webDies \/ recoverInterruptedJobs

(* Promises and deadlines run, and systemd starts the web service again.   *)
(* Nothing is assumed of people or of the helper: every wait on it has a   *)
(* deadline.                                                               *)
JobsFairness == (\A j \in Job : WF_jobVars(JobStep(j))) /\ WF_jobVars(recoverInterruptedJobs)

JobsSafetySpec == JobsInit /\ [][JobsNext]_jobVars
JobsSpec == JobsSafetySpec /\ JobsFairness
-----------------------------------------------------------------------------
(* One approval, one execution: two people approving at once, a change     *)
(* turned away and sent again, a restart in between - no job is approved   *)
(* twice, and none runs twice or without an approval.                      *)
OneRunPerApproval ==
    \A j \in Job :
       /\ approvals[j] =< 1
       /\ Cardinality({a \in {1, 2} : <<j, a>> \in ran}) =< approvals[j]

(* Nothing runs with a placeholder for a password: secrets a restart lost  *)
(* refuse the approval.                                                    *)
RunsWhole == \A r \in ran : r[1] \in whole

(* "Try again with more time" never starts a second copy beside the first. *)
RetryNeverBeside ==
    \A k \in hostWork : retryOf[k] \notin hostWork

(* A job's row as those who use the service see it. *)
LifeState(s) ==
    IF s = "awaiting_approval" THEN "awaiting" ELSE IF s \in Active THEN "active" ELSE s

Life == INSTANCE JobLife WITH state <- [j \in Job |-> LifeState(state[j])]

(* The job service keeps the life of a job that the scheduler and the      *)
(* flows rely on: an outcome is final, whatever late answer, second        *)
(* approval or recovery comes after it; only a waiting job is withdrawn or *)
(* granted; and every job under way is failed and labelled at a restart.   *)
KeepsJobLife == Life!LifeSpec

(* Every approved job ends, whatever the helper does and however often the *)
(* web service restarts.                                                   *)
ApprovedJobEnds == \A j \in Job : (state[j] \in Active) ~> (state[j] \in Terminal)

(* A job recovery calls never started did not run, and does not run later. *)
NeverStartedIsTrue ==
    \A j \in Job : label[j] = "neverStarted" => \A a \in {1, 2} : <<j, a>> \notin ran

(* A restart is answered once: every job it cut off is to be run again,    *)
(* was run again, or someone was told of it, but for those the service was *)
(* about to answer when it stopped once more; and however often it         *)
(* restarts no job is run again twice, and no rerun is run again.          *)
InterruptedIsAnswered ==
    /\ web = "up" => \A j \in Job : label[j] # "none" =>
          j \in announced \union planned \union forgotten \/ \E k \in Job : rerunOf[k] = j
    /\ \A j \in planned : rerunOf[j] = NoJob /\ \A k \in Job : rerunOf[k] # j
    /\ \A j, k \in Job : rerunOf[j] # NoJob =>
          rerunOf[rerunOf[j]] = NoJob /\ (k # j => rerunOf[k] # rerunOf[j])
=============================================================================
