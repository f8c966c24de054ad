----------------------------- MODULE JobsProofs -----------------------------
(***************************************************************************)
(* The job service over the helper's contract, for any jobs, operations    *)
(* and approvers: one approval is one execution, nothing runs with a       *)
(* placeholder for a secret, a retry never runs beside what it retries, a  *)
(* restart is answered once, and a job's row lives the life of JobLife.    *)
(***************************************************************************)
EXTENDS Jobs, HelperContractProofs, FiniteSetTheorems

ExecState == {"none", "sending", "waitBack", "sendingAgain", "recording", "refreshing", "persisting", "failing"}
Approval == [job : Job \union {NoJob}, whole : BOOLEAN]

(* Every variable of the job service has its type. *)
JobsTypeOK ==
    /\ web \in {"up", "down", "recovering"}
    /\ state \in [Job -> JobState]
    /\ op \in [Job -> Op \union {NoOp}]
    /\ rerunOf \in [Job -> Job \union {NoJob}] /\ retryOf \in [Job -> Job \union {NoJob}]
    /\ extra \in [Job -> Nat]
    /\ approvals \in [Job -> Nat]
    /\ timeout \in [Job -> Timeout]
    /\ label \in [Job -> {"none", "cutOff", "neverStarted"}]
    /\ approving \in [Caller -> Approval]
    /\ exec \in [Job -> ExecState]
    /\ cause \in [Job -> Outcome \union {"record"}]
    /\ staged \subseteq Job /\ whole \subseteq Job
    /\ interrupted \subseteq Job /\ planned \subseteq Job
    /\ hostWork \subseteq Job /\ laneHeld \subseteq Job

(* A job that was approved, and has an approval in its records. *)
Approved(j) == state[j] \in Active \union {"completed", "failed"}

(* Where executePrepared is agrees with the job's row, and runs only while *)
(* the service does.                                                       *)
RowsAgree ==
    \A j \in Job :
       /\ approvals[j] = IF Approved(j) THEN 1 ELSE 0
       /\ state[j] # "none" => op[j] \in Op
       /\ exec[j] # "none" => web = "up"
       /\ exec[j] \in {"sending", "waitBack", "sendingAgain"} => state[j] = "applying"
       /\ exec[j] \in {"recording", "refreshing"} => state[j] = "verifying"
       /\ exec[j] = "failing" => state[j] \in Active

(* Only an approved job is sent, and sent again only after an answer that  *)
(* says nothing was done.                                                  *)
CallsAgree ==
    \A j \in Job :
       /\ client[<<j, 1>>] # "idle" => Approved(j)
       /\ client[<<j, 2>>] # "idle" \/ exec[j] \in {"waitBack", "sendingAgain"} =>
             client[<<j, 1>>] = "settled" /\ outcome[<<j, 1>>] \in notStarted

(* An approval under way has every parameter, and so has what it started.  *)
WholeInv ==
    /\ \A c \in Caller : approving[c].job # NoJob => approving[c].whole
    /\ \A j \in Job : Approved(j) => j \in whole

(* A request that runs has its work on the host, and its lane. *)
RunningHolds == \A r \in Req : place[r] = "running" => r[1] \in hostWork /\ r[1] \in laneHeld

Runs(j) == place[<<j, 1>>] = "running" \/ place[<<j, 2>>] = "running"

(* Work on the host is of an approved job, and with no request of it       *)
(* running it is a root task's.                                            *)
WorkAccounted == \A j \in hostWork : Approved(j) /\ (op[j].rootTask = TRUE \/ Runs(j))

(* A request's answer, on its way or received, is that a step of it ran    *)
(* out of time.                                                            *)
StepOut(r) == outcome[r] = "stepTimeout" \/ \E i \in 1..Len(inbox[r]) : inbox[r][i] = "stepTimeout"

(* A job told so left nothing running. *)
StepOutLeavesNothing == \A r \in Req : StepOut(r) => r[1] \notin hostWork

HostInv == RunningHolds /\ WorkAccounted /\ StepOutLeavesNothing

(* A retry is of a failed job of the same operation that ran out of time,  *)
(* its operation's if that is no root task, or a step's.                   *)
RetryInv ==
    \A k \in Job :
       /\ timeout[k] = "step" \/ (exec[k] = "failing" /\ cause[k] = "stepTimeout") =>
             \E a \in {1, 2} : outcome[<<k, a>>] = "stepTimeout"
       /\ retryOf[k] # NoJob =>
             /\ state[k] # "none" /\ retryOf[k] # k
             /\ state[retryOf[k]] = "failed" /\ op[retryOf[k]] = op[k]
             /\ \/ timeout[retryOf[k]] = "operation" /\ ~op[k].rootTask
                \/ timeout[retryOf[k]] = "step"

(* Jobs wait to be run again only while the service is up, and to be       *)
(* answered only while it recovers.                                        *)
StartupOnly == (web # "up" => planned = {}) /\ (web # "recovering" => interrupted = {})

(* What recovery labelled was, is about to be, or was to be answered. *)
LabelAnswered ==
    \A j \in Job : label[j] # "none" =>
       \/ j \in announced \union planned \union forgotten \union interrupted
       \/ \E k \in Job : rerunOf[k] = j

(* A job found cut off is failed and has no rerun yet; one to be run again *)
(* is no rerun itself.                                                     *)
FoundHasNoRerun ==
    /\ \A j \in planned \union interrupted : state[j] = "failed" /\ \A k \in Job : rerunOf[k] # j
    /\ \A j \in planned : rerunOf[j] = NoJob

(* A rerun is of a failed job that was none, and that has no other. *)
RerunIsOne ==
    \A j \in Job : rerunOf[j] # NoJob =>
       /\ state[j] # "none" /\ state[rerunOf[j]] = "failed"
       /\ rerunOf[rerunOf[j]] = NoJob
       /\ \A k \in Job : k # j => rerunOf[k] # rerunOf[j]

RerunInv == StartupOnly /\ LabelAnswered /\ FoundHasNoRerun /\ RerunIsOne

JobsInv ==
    Inv /\ JobsTypeOK /\ RowsAgree /\ CallsAgree /\ WholeInv /\ HostInv /\ RetryInv /\ RerunInv

USE JobsAssumption
-----------------------------------------------------------------------------
(* A request is a job and which of its two sends it is. *)
LEMMA Requests ==
    /\ \A j \in Job : \A a \in {1, 2} : <<j, a>> \in Req /\ <<j, a>>[1] = j /\ <<j, a>>[2] = a
    /\ \A r \in Req : r[1] \in Job /\ (r = <<r[1], 1>> \/ r = <<r[1], 2>>)
    /\ \A j, k \in Job : <<j, 1>> # <<k, 2>> /\ (\A a \in {1, 2} : <<j, a>> = <<k, a>> => j = k)
  OBVIOUS

(* The request of a job that executes. *)
LEMMA RequestOf ==
    ASSUME NEW j \in Job, executing(j)
    PROVE  /\ request(j) \in Req
           /\ exec[j] = "sending" => request(j) = <<j, 1>>
           /\ exec[j] = "sendingAgain" => request(j) = <<j, 2>>
  BY Requests DEF executing, request

(* What the timeout record says: "step" only for a step's own limit. *)
LEMMA TimeoutOf ==
    ASSUME NEW e
    PROVE  timeoutOf(e) \in Timeout /\ (timeoutOf(e) = "step" => e = "stepTimeout")
  BY DEF timeoutOf, Timeout

(* Every step calls the helper, is a step of its, or of what it left       *)
(* running, ends one of the two processes, or has no part in their         *)
(* exchange.                                                               *)
LEMMA StepsElsewhere ==
    ASSUME [JobsNext]_jobVars
    PROVE  \/ \E j \in Job : sendToHelper(j) \/ onQueued(j) \/ onStarted(j) \/ helperSettles(j)
           \/ \E r \in Req : helperHandles(r) \/ helperStarts(r) \/ \E how \in Answer : helperFinishes(r, how)
           \/ helperDies \/ webDies
           \/ UNCHANGED contractVars /\ ((\E j \in Job : rootTaskStops(j) \/ lingerCap(j)) \/ UNCHANGED hostVars)
  <1>1. ASSUME NEW j \in Job,
               \/ applied(j) \/ waitForHelper(j) \/ helperBack(j) \/ helperFailed(j) \/ helperNotBack(j)
               \/ recordResult(j) \/ recordFailed(j) \/ complete(j) \/ persisted(j) \/ fail(j)
        PROVE  UNCHANGED <<contractVars, hostVars>>
    BY <1>1 DEF applied, waitForHelper, helperBack, helperFailed, helperNotBack, recordResult, recordFailed,
                complete, persisted, fail, caught, elsewhere
  <1>2. ASSUME NEW j \in Job,
               \/ \E o \in Op : createOperationJob(j, o)
               \/ \E k \in Job : retryWithMoreTime(j, k) \/ stageRerun(j, k)
               \/ \E c \in Approver : checkApproval(c, j)
               \/ SecretsAge(j) \/ cancelJob(j) \/ expireSecretJob(j) \/ rerunNotStaged(j)
        PROVE  UNCHANGED <<contractVars, hostVars>>
    BY <1>2 DEF createOperationJob, retryWithMoreTime, stageRerun, createJob, checkApproval, SecretsAge,
                cancelJob, expireSecretJob, Withdrawn, rerunNotStaged
  <1>3. ASSUME \/ \E S \in SUBSET Job : sweepStaleApprovals(S) \/ planInterruptedReruns(S)
               \/ \E c \in Caller : grantApproval(c) \/ refuseApproval(c)
               \/ pruneStagedSecrets \/ recoverInterruptedJobs
        PROVE  UNCHANGED <<contractVars, hostVars>>
    BY <1>3 DEF sweepStaleApprovals, planInterruptedReruns, grantApproval, refuseApproval, pruneStagedSecrets,
                Withdrawn, recoverInterruptedJobs
  <1>4. ASSUME NEW j \in Job, rootTaskStops(j) \/ lingerCap(j) PROVE UNCHANGED contractVars
    BY <1>4 DEF rootTaskStops, lingerCap
  <1>5. UNCHANGED jobVars => UNCHANGED <<contractVars, hostVars>>
    BY DEF jobVars
  <1> QED BY <1>1, <1>2, <1>3, <1>4, <1>5 DEF JobsNext, JobStep

(* Every step of the job service is a step of the contract, or none of its.*)
LEMMA StepsKeepContract == [JobsNext]_jobVars => [ContractNext]_contractVars
  <1> SUFFICES ASSUME [JobsNext]_jobVars PROVE [ContractNext]_contractVars
    OBVIOUS
  <1>1. ASSUME NEW j \in Job, sendToHelper(j) \/ onQueued(j) \/ onStarted(j) \/ helperSettles(j)
        PROVE  ContractNext
    <2>1. executing(j)
      BY <1>1 DEF sendToHelper, onQueued, onStarted, helperSettles
    <2>2. request(j) \in Req
      BY <2>1, RequestOf
    <2> QED BY <1>1, <2>2 DEF sendToHelper, onQueued, onStarted, helperSettles, ContractNext
  <1>2. ASSUME NEW r \in Req, helperHandles(r) PROVE ContractNext
    <2>1. {r} \in SUBSET Req
      OBVIOUS
    <2> QED BY <1>2, <2>1 DEF helperHandles, ContractNext
  <1>3. ASSUME NEW r \in Req, helperStarts(r) PROVE ContractNext
    BY <1>3 DEF helperStarts, ContractNext
  <1>4. ASSUME NEW r \in Req, NEW how \in Answer, helperFinishes(r, how) PROVE ContractNext
    BY <1>4 DEF helperFinishes, ContractNext
  <1>5. CASE helperDies \/ webDies
    BY <1>5 DEF helperDies, webDies, CallersDie, ContractNext
  <1> QED BY <1>1, <1>2, <1>3, <1>4, <1>5, StepsElsewhere
-----------------------------------------------------------------------------
(* The service starts with no jobs, and with nothing to answer for. *)
LEMMA InitJobsInv == JobsInit => JobsInv
  <1> SUFFICES ASSUME JobsInit PROVE JobsInv
    OBVIOUS
  <1>1. Inv
    BY ContractInitInv DEF JobsInit
  <1>2. JobsTypeOK
    BY DEF JobsInit, JobsTypeOK, JobState, Timeout, Approval, Idle, ExecState, Outcome
  <1>3. RowsAgree
    BY DEF JobsInit, RowsAgree, Approved, Active
  <1>4. CallsAgree
    BY Requests DEF JobsInit, ContractInit, CallsAgree
  <1>5. WholeInv
    BY DEF JobsInit, WholeInv, Idle, Approved, Active
  <1>6. HostInv
    <2>1. \A r \in Req : place[r] = "none" /\ outcome[r] = "none" /\ inbox[r] = <<>>
      BY DEF JobsInit, ContractInit
    <2>2. hostWork = {}
      BY DEF JobsInit
    <2> QED BY <2>1, <2>2 DEF HostInv, RunningHolds, WorkAccounted, StepOutLeavesNothing, StepOut
  <1>7. RetryInv /\ RerunInv
    BY DEF JobsInit, RetryInv, RerunInv, StartupOnly, LabelAnswered, FoundHasNoRerun, RerunIsOne
  <1> QED BY <1>1, <1>2, <1>3, <1>4, <1>5, <1>6, <1>7 DEF JobsInv

(* A job is staged; its row was unused. *)
LEMMA CreateTypes ==
    ASSUME JobsTypeOK, NEW j \in Job, NEW o \in Op, createJob(j, o)
    PROVE  /\ state' \in [Job -> JobState] /\ op' \in [Job -> Op \union {NoOp}]
           /\ staged' \subseteq Job
           /\ UNCHANGED <<web, approvals, timeout, label, exec, cause, whole, hostWork, laneHeld, interrupted, forgotten>>
  BY DEF createJob, JobsTypeOK, JobState, execVars, hostVars

(* Every step keeps the types. *)
LEMMA TypeStep == JobsInv /\ [JobsNext]_jobVars => JobsTypeOK'
  <1> SUFFICES ASSUME JobsInv, [JobsNext]_jobVars PROVE JobsTypeOK'
    OBVIOUS
  <1>t. JobsTypeOK
    BY DEF JobsInv
  <1>1. ASSUME NEW j \in Job, NEW o \in Op, createOperationJob(j, o) PROVE JobsTypeOK'
    BY <1>t, <1>1, CreateTypes DEF createOperationJob, JobsTypeOK
  <1>2. ASSUME NEW j \in Job, NEW k \in Job, retryWithMoreTime(j, k) PROVE JobsTypeOK'
    <2>1. op[j] \in Op /\ createJob(k, op[j])
      BY <1>2 DEF retryWithMoreTime, JobsInv, RowsAgree
    <2> QED BY <1>t, <1>2, <2>1, CreateTypes DEF retryWithMoreTime, JobsTypeOK
  <1>3. ASSUME NEW j \in Job, NEW k \in Job, stageRerun(j, k) PROVE JobsTypeOK'
    <2>1. op[j] \in Op /\ createJob(k, op[j])
      BY <1>3 DEF stageRerun, JobsInv, RowsAgree, RerunInv, FoundHasNoRerun
    <2>2. Rerunner \in Caller /\ [job |-> k, whole |-> TRUE] \in Approval
      BY DEF Caller, Approval
    <2> QED BY <1>t, <1>3, <2>1, <2>2, CreateTypes DEF stageRerun, JobsTypeOK
  <1>4. ASSUME NEW j \in Job, NEW c \in Approver, checkApproval(c, j) PROVE JobsTypeOK'
    <2>1. c \in Caller /\ [job |-> j, whole |-> op[j].secret => j \in staged] \in Approval
      BY DEF Caller, Approval
    <2> QED BY <1>t, <1>4, <2>1 DEF checkApproval, JobsTypeOK, rowVars, execVars, startVars, hostVars
  <1>5. ASSUME NEW S, Withdrawn(S), approving' \in [Caller -> Approval] PROVE JobsTypeOK'
    BY <1>t, <1>5 DEF Withdrawn, JobsTypeOK, JobState, Terminal, execVars, hostVars
  <1>6. ASSUME NEW c \in Caller, grantApproval(c) PROVE JobsTypeOK'
    <2>1. approving[c].job \in Job /\ Idle \in Approval
      BY <1>t, <1>6 DEF grantApproval, JobsTypeOK, Approval, Idle
    <2> QED BY <1>t, <1>6, <2>1 DEF grantApproval, JobsTypeOK, JobState, Active, ExecState, startVars, hostVars
  <1>7. ASSUME NEW c \in Caller, refuseApproval(c) PROVE JobsTypeOK'
    <2>1. Idle \in Approval
      BY DEF Approval, Idle
    <2>2. approving' \in [Caller -> Approval]
      BY <1>t, <1>7, <2>1 DEF refuseApproval, JobsTypeOK
    <2> QED BY <1>5, <1>7, <2>2 DEF refuseApproval
  <1>8. ASSUME UNCHANGED webSide, hostWork' \subseteq Job, laneHeld' \subseteq Job PROVE JobsTypeOK'
    BY <1>t, <1>8 DEF webSide, rowVars, execVars, startVars, JobsTypeOK
  <1>9. ASSUME UNCHANGED <<elsewhere, timeout, cause>>, state' \in [Job -> JobState],
               exec' \in [Job -> ExecState], staged' \subseteq Job
        PROVE  JobsTypeOK'
    BY <1>t, <1>9 DEF elsewhere, startVars, hostVars, JobsTypeOK
  <1>10. ASSUME NEW j \in Job,
                \/ sendToHelper(j) \/ onQueued(j) \/ onStarted(j) \/ helperSettles(j)
                \/ applied(j) \/ waitForHelper(j) \/ helperBack(j)
                \/ recordResult(j) \/ complete(j) \/ persisted(j)
         PROVE  JobsTypeOK'
    <2>1. state' \in [Job -> JobState] /\ exec' \in [Job -> ExecState] /\ staged' \subseteq Job
      BY <1>t, <1>10 DEF JobsTypeOK, JobState, Active, Terminal, ExecState, sendToHelper, onQueued, onStarted,
                         helperSettles, applied, waitForHelper, helperBack, recordResult, complete, persisted
    <2>2. UNCHANGED <<elsewhere, timeout, cause>>
      BY <1>10 DEF sendToHelper, onQueued, onStarted, helperSettles, applied, waitForHelper, helperBack,
                   recordResult, complete, persisted
    <2> QED BY <1>9, <2>1, <2>2
  <1>11. ASSUME NEW j \in Job, NEW e \in Outcome \union {"record"}, caught(j, e) PROVE JobsTypeOK'
    BY <1>t, <1>11 DEF caught, elsewhere, startVars, hostVars, JobsTypeOK, ExecState
  <1>12. ASSUME NEW j \in Job, helperFailed(j) \/ helperNotBack(j) \/ recordFailed(j) PROVE JobsTypeOK'
    <2>1. settledWith(j) \in Outcome
      BY RequestOf DEF settledWith, JobsInv, Inv, ContractTypeOK, Outcome
    <2>2. "restarting" \in Outcome
      BY DEF Outcome, NotStarted
    <2> QED BY <1>11, <1>12, <2>1, <2>2 DEF helperFailed, helperNotBack, recordFailed
  <1>13. ASSUME NEW j \in Job, fail(j) PROVE JobsTypeOK'
    <2>1. timeoutOf(cause[j]) \in Timeout /\ "none" \in Outcome
      BY TimeoutOf DEF Outcome
    <2> QED BY <1>t, <1>13, <2>1 DEF fail, elsewhere, startVars, hostVars, JobsTypeOK, JobState, Terminal, ExecState
  <1>14. ASSUME NEW r \in Req, helperHandles(r) \/ helperStarts(r) \/ \E how \in Answer : helperFinishes(r, how)
         PROVE  JobsTypeOK'
    <2>1. UNCHANGED webSide /\ hostWork' \subseteq Job /\ laneHeld' \subseteq Job
      BY <1>t, <1>14, Requests DEF helperHandles, helperStarts, helperFinishes, JobsTypeOK, hostVars
    <2> QED BY <1>8, <2>1
  <1>15. ASSUME helperDies \/ \E j \in Job : rootTaskStops(j) \/ lingerCap(j) PROVE JobsTypeOK'
    <2>1. UNCHANGED webSide /\ hostWork' \subseteq Job /\ laneHeld' \subseteq Job
      BY <1>t, <1>15 DEF helperDies, rootTaskStops, lingerCap, JobsTypeOK
    <2> QED BY <1>8, <2>1
  <1>16. CASE webDies
    <2>1. Idle \in Approval /\ "none" \in Outcome
      BY DEF Approval, Idle, Outcome
    <2> QED BY <1>t, <1>16, <2>1 DEF webDies, rowVars, hostVars, JobsTypeOK, ExecState
  <1>17. CASE recoverInterruptedJobs
    BY <1>t, <1>17 DEF recoverInterruptedJobs, cutOff, execVars, hostVars, JobsTypeOK, JobState, Terminal
  <1>18. ASSUME NEW S \in SUBSET Job, planInterruptedReruns(S) PROVE JobsTypeOK'
    BY <1>t, <1>18 DEF planInterruptedReruns, rowVars, execVars, hostVars, JobsTypeOK
  <1>19. ASSUME NEW j \in Job, rerunNotStaged(j) \/ SecretsAge(j) PROVE JobsTypeOK'
    BY <1>t, <1>19 DEF rerunNotStaged, SecretsAge, rowVars, execVars, startVars, hostVars, JobsTypeOK
  <1>20. CASE UNCHANGED jobVars
    BY <1>t, <1>20 DEF jobVars, rowVars, execVars, startVars, hostVars, JobsTypeOK
  <1>21. ASSUME \/ \E j \in Job : cancelJob(j) \/ expireSecretJob(j)
                \/ \E S \in SUBSET Job : sweepStaleApprovals(S)
                \/ pruneStagedSecrets
         PROVE  JobsTypeOK'
    <2>1. \E S : Withdrawn(S) /\ UNCHANGED approving
      BY <1>21 DEF cancelJob, expireSecretJob, sweepStaleApprovals, pruneStagedSecrets
    <2>2. approving \in [Caller -> Approval]
      BY <1>t DEF JobsTypeOK
    <2> QED BY <1>5, <2>1, <2>2
  <1> QED BY <1>1, <1>2, <1>3, <1>4, <1>6, <1>7, <1>10, <1>12, <1>13, <1>14, <1>15, <1>16, <1>17,
             <1>18, <1>19, <1>20, <1>21 DEF JobsNext, JobStep

(* Every step keeps a job's row, its approval and its execution agreed,    *)
(* and an approval whole: a second approval of a job finds that it no      *)
(* longer waits.                                                           *)
LEMMA RowsStep == JobsInv /\ [JobsNext]_jobVars => RowsAgree' /\ WholeInv'
  <1> SUFFICES ASSUME JobsInv, [JobsNext]_jobVars PROVE RowsAgree' /\ WholeInv'
    OBVIOUS
  <1>t. JobsTypeOK /\ RowsAgree /\ WholeInv
    BY DEF JobsInv
  <1> USE DEF Approved, Active
  <1>a. ASSUME UNCHANGED <<web, state, op, approvals, exec>> PROVE RowsAgree'
    BY <1>t, <1>a DEF RowsAgree
  <1>b. ASSUME UNCHANGED <<state, whole, approving>> PROVE WholeInv'
    BY <1>t, <1>b DEF WholeInv
  <1>c. ASSUME NEW j \in Job, NEW o \in Op, createJob(j, o) PROVE RowsAgree' /\ \A k \in Job : Approved(k)' => k \in whole'
    BY <1>t, <1>c DEF createJob, execVars, JobsTypeOK, RowsAgree, WholeInv
  <1>d. ASSUME NEW S, Withdrawn(S) PROVE RowsAgree' /\ \A k \in Job : Approved(k)' => k \in whole'
    BY <1>t, <1>d DEF Withdrawn, execVars, JobsTypeOK, RowsAgree, WholeInv
  <1>e. ASSUME UNCHANGED approving, \A k \in Job : Approved(k)' => k \in whole' PROVE WholeInv'
    BY <1>t, <1>e DEF WholeInv
  <1>1. ASSUME NEW j \in Job, NEW o \in Op, createOperationJob(j, o) PROVE RowsAgree' /\ WholeInv'
    BY <1>1, <1>c, <1>e DEF createOperationJob
  <1>2. ASSUME NEW j \in Job, NEW k \in Job, retryWithMoreTime(j, k) PROVE RowsAgree' /\ WholeInv'
    <2>1. op[j] \in Op /\ createJob(k, op[j]) /\ UNCHANGED approving
      BY <1>2, <1>t DEF retryWithMoreTime, RowsAgree
    <2> QED BY <2>1, <1>c, <1>e
  <1>3. ASSUME NEW j \in Job, NEW k \in Job, stageRerun(j, k) PROVE RowsAgree' /\ WholeInv'
    <2>1. op[j] \in Op /\ createJob(k, op[j])
      BY <1>3, <1>t DEF stageRerun, RowsAgree, JobsInv, RerunInv, FoundHasNoRerun
    <2>2. RowsAgree' /\ \A m \in Job : Approved(m)' => m \in whole'
      BY <2>1, <1>c
    <2>3. \A c \in Caller : approving'[c].job # NoJob => approving'[c].whole
      BY <1>3, <1>t DEF stageRerun, JobsTypeOK, WholeInv
    <2> QED BY <2>2, <2>3 DEF WholeInv
  <1>4. ASSUME NEW j \in Job, NEW c \in Approver, checkApproval(c, j) PROVE RowsAgree' /\ WholeInv'
    <2>1. UNCHANGED <<web, state, op, approvals, exec, whole>>
      BY <1>4 DEF checkApproval, rowVars, execVars
    <2>2. op[j].secret => j \in staged
      BY <1>4 DEF checkApproval, placeholderPaths
    <2>3. \A d \in Caller : approving'[d].job # NoJob => approving'[d].whole
      BY <1>4, <1>t, <2>2 DEF checkApproval, JobsTypeOK, WholeInv
    <2> QED BY <1>a, <1>t, <2>1, <2>3 DEF WholeInv
  <1>6. ASSUME NEW c \in Caller, grantApproval(c) PROVE RowsAgree' /\ WholeInv'
    <2> DEFINE j == approving[c].job
    <2>1. j \in Job /\ approving[c].whole /\ state[j] = "awaiting_approval" /\ web = "up"
      BY <1>t, <1>6 DEF grantApproval, transitionAllowed, JobsTypeOK, Approval, WholeInv
    <2>2. /\ state' = [state EXCEPT ![j] = "applying"] /\ approvals' = [approvals EXCEPT ![j] = @ + 1]
          /\ exec' = [exec EXCEPT ![j] = "sending"] /\ whole' = whole \union {j}
          /\ approving' = [approving EXCEPT ![c] = Idle] /\ UNCHANGED <<web, op>>
      BY <1>6, <2>1 DEF grantApproval
    <2> HIDE DEF j
    <2>3. RowsAgree'
      BY <1>t, <2>1, <2>2 DEF JobsTypeOK, RowsAgree
    <2>4. WholeInv'
      BY <1>t, <2>1, <2>2 DEF JobsTypeOK, WholeInv, Idle
    <2> QED BY <2>3, <2>4
  <1>7. ASSUME NEW c \in Caller, refuseApproval(c) PROVE RowsAgree' /\ WholeInv'
    <2>1. \E S : Withdrawn(S)
      BY <1>7 DEF refuseApproval
    <2>2. RowsAgree' /\ \A k \in Job : Approved(k)' => k \in whole'
      BY <2>1, <1>d
    <2>3. \A d \in Caller : approving'[d].job # NoJob => approving'[d].whole
      BY <1>7, <1>t DEF refuseApproval, JobsTypeOK, WholeInv, Idle
    <2> QED BY <2>2, <2>3 DEF WholeInv
  <1>8. ASSUME NEW j \in Job, sendToHelper(j) \/ onQueued(j) \/ onStarted(j) \/ helperSettles(j)
        PROVE  RowsAgree' /\ WholeInv'
    <2>1. UNCHANGED <<web, state, op, approvals, exec, whole, approving>>
      BY <1>8 DEF sendToHelper, onQueued, onStarted, helperSettles, elsewhere
    <2> QED BY <2>1, <1>a, <1>b
  <1>9. ASSUME NEW j \in Job, NEW s \in ExecState, NEW w \in JobState,
               exec' = [exec EXCEPT ![j] = s], state' = [state EXCEPT ![j] = w],
               UNCHANGED <<web, op, approvals, whole, approving>>, web = "up",
               state[j] \in Active, w \in Active \union {"completed", "failed"},
               s \in {"sending", "waitBack", "sendingAgain"} => w = "applying",
               s \in {"recording", "refreshing"} => w = "verifying",
               s = "failing" => w \in Active
        PROVE  RowsAgree' /\ WholeInv'
    <2>1. RowsAgree'
      BY <1>t, <1>9 DEF JobsTypeOK, RowsAgree
    <2>2. WholeInv'
      BY <1>t, <1>9 DEF JobsTypeOK, WholeInv
    <2> QED BY <2>1, <2>2
  <1>10. ASSUME NEW j \in Job, applied(j) PROVE RowsAgree' /\ WholeInv'
    <2>1. executing(j) /\ state[j] = "applying" /\ web = "up"
      BY <1>10, <1>t DEF applied, settledWith, executing, RowsAgree
    <2>2. "recording" \in ExecState /\ "verifying" \in JobState
      BY DEF ExecState, JobState
    <2> QED BY <1>9, <1>10, <2>1, <2>2 DEF applied, elsewhere
  <1>11. ASSUME NEW j \in Job, waitForHelper(j) \/ helperBack(j) \/ recordResult(j)
         PROVE  RowsAgree' /\ WholeInv'
    <2>1. PICK s \in {"waitBack", "sendingAgain", "refreshing"} :
             /\ exec' = [exec EXCEPT ![j] = s]
             /\ IF s = "refreshing" THEN state[j] = "verifying" ELSE state[j] = "applying"
      BY <1>11, <1>t DEF waitForHelper, helperBack, recordResult, RowsAgree
    <2>2. UNCHANGED <<web, state, op, approvals, whole, approving>> /\ web = "up"
      BY <1>11, <1>t DEF waitForHelper, helperBack, recordResult, elsewhere, RowsAgree
    <2>3. s \in ExecState /\ state[j] \in JobState /\ state' = [state EXCEPT ![j] = state[j]]
      BY <1>t, <2>2 DEF ExecState, JobsTypeOK
    <2> QED BY <1>9, <2>1, <2>2, <2>3
  <1>12. ASSUME NEW j \in Job, helperFailed(j) \/ helperNotBack(j) \/ recordFailed(j)
         PROVE  RowsAgree' /\ WholeInv'
    <2>1. state[j] \in Active /\ web = "up"
      BY <1>12, <1>t DEF helperFailed, settledWith, executing, helperNotBack, recordFailed, RowsAgree
    <2>2. exec' = [exec EXCEPT ![j] = "failing"] /\ UNCHANGED <<web, state, op, approvals, whole, approving>>
      BY <1>12 DEF helperFailed, helperNotBack, recordFailed, caught, elsewhere
    <2>3. "failing" \in ExecState /\ state[j] \in JobState /\ state' = [state EXCEPT ![j] = state[j]]
      BY <1>t, <2>2 DEF ExecState, JobsTypeOK
    <2> QED BY <1>9, <2>1, <2>2, <2>3
  <1>13. ASSUME NEW j \in Job, complete(j) PROVE RowsAgree' /\ WholeInv'
    <2>1. state[j] \in Active /\ web = "up"
      BY <1>13, <1>t DEF complete, RowsAgree
    <2>2. "persisting" \in ExecState /\ "completed" \in JobState
      BY DEF ExecState, JobState, Terminal
    <2> QED BY <1>9, <1>13, <2>1, <2>2 DEF complete, elsewhere
  <1>14. ASSUME NEW j \in Job, persisted(j) PROVE RowsAgree' /\ WholeInv'
    <2>1. exec' = [exec EXCEPT ![j] = "none"] /\ UNCHANGED <<web, state, op, approvals, whole, approving>>
      BY <1>14 DEF persisted, elsewhere
    <2> QED BY <1>t, <1>b, <2>1 DEF JobsTypeOK, RowsAgree
  <1>15. ASSUME NEW j \in Job, fail(j) PROVE RowsAgree' /\ WholeInv'
    <2>1. state[j] \in Active /\ web = "up"
      BY <1>15, <1>t DEF fail, RowsAgree
    <2>2. "none" \in ExecState /\ "failed" \in JobState
      BY DEF ExecState, JobState, Terminal
    <2> QED BY <1>9, <1>15, <2>1, <2>2 DEF fail, elsewhere
  <1>16. ASSUME \/ \E r \in Req : helperHandles(r) \/ helperStarts(r) \/ \E how \in Answer : helperFinishes(r, how)
                \/ helperDies \/ \E j \in Job : rootTaskStops(j) \/ lingerCap(j)
         PROVE  RowsAgree' /\ WholeInv'
    <2>1. UNCHANGED webSide
      BY <1>16 DEF helperHandles, helperStarts, helperFinishes, helperDies, rootTaskStops, lingerCap
    <2> QED BY <2>1, <1>a, <1>b DEF webSide, rowVars, execVars
  <1>17. CASE webDies
    <2>1. RowsAgree'
      BY <1>t, <1>17 DEF webDies, rowVars, RowsAgree
    <2>2. WholeInv'
      BY <1>t, <1>17 DEF webDies, rowVars, WholeInv, Idle
    <2> QED BY <2>1, <2>2
  <1>18. CASE recoverInterruptedJobs
    <2>1. RowsAgree'
      BY <1>t, <1>18 DEF recoverInterruptedJobs, cutOff, execVars, JobsTypeOK, RowsAgree
    <2>2. WholeInv'
      BY <1>t, <1>18 DEF recoverInterruptedJobs, cutOff, execVars, JobsTypeOK, WholeInv
    <2> QED BY <2>1, <2>2
  <1>19. ASSUME NEW S \in SUBSET Job, planInterruptedReruns(S) PROVE RowsAgree' /\ WholeInv'
    <2>1. RowsAgree'
      BY <1>t, <1>19 DEF planInterruptedReruns, rowVars, execVars, RowsAgree
    <2> QED BY <2>1, <1>b, <1>19 DEF planInterruptedReruns, rowVars, execVars
  <1>20. ASSUME NEW j \in Job, rerunNotStaged(j) \/ SecretsAge(j) PROVE RowsAgree' /\ WholeInv'
    BY <1>20, <1>a, <1>b DEF rerunNotStaged, SecretsAge, rowVars, execVars
  <1>21. ASSUME \/ \E j \in Job : cancelJob(j) \/ expireSecretJob(j)
                \/ \E S \in SUBSET Job : sweepStaleApprovals(S)
                \/ pruneStagedSecrets
         PROVE  RowsAgree' /\ WholeInv'
    <2>1. \E S : Withdrawn(S) /\ UNCHANGED approving
      BY <1>21 DEF cancelJob, expireSecretJob, sweepStaleApprovals, pruneStagedSecrets
    <2> QED BY <1>d, <1>e, <2>1
  <1>22. CASE UNCHANGED jobVars
    BY <1>22, <1>a, <1>b DEF jobVars, rowVars, execVars
  <1> QED BY <1>1, <1>2, <1>3, <1>4, <1>6, <1>7, <1>8, <1>10, <1>11, <1>12, <1>13, <1>14, <1>15, <1>16,
             <1>17, <1>18, <1>19, <1>20, <1>21, <1>22 DEF JobsNext, JobStep
-----------------------------------------------------------------------------
(* What one step may do to a job: its row moves forward, an outcome is     *)
(* final, what it is of is set when it is staged, only its own failure     *)
(* writes its timeout record, and it is sent again only when told that     *)
(* nothing was done.                                                       *)
RowEffect(j) ==
    /\ \/ state'[j] = state[j]
       \/ state[j] = "none" /\ state'[j] = "awaiting_approval"
       \/ state[j] = "awaiting_approval" /\ state'[j] \in {"cancelled", "applying"}
       \/ state[j] \in Active /\ state'[j] \in {"verifying", "completed", "failed"}
    /\ state[j] # "none" => UNCHANGED <<op[j], retryOf[j], rerunOf[j]>>
    /\ timeout'[j] # timeout[j] => exec[j] = "failing" /\ timeout'[j] = timeoutOf(cause[j])
    /\ exec'[j] \in {"waitBack", "sendingAgain"} =>
          \/ exec[j] \in {"waitBack", "sendingAgain"}
          \/ exec[j] = "sending" /\ settledWith(j) \in notStarted
    /\ exec'[j] = "failing" => (exec[j] = "failing" /\ cause'[j] = cause[j]) \/ cause'[j] \in {settledWith(j), "restarting", "record"}

(* Every step has that effect on every job. *)
LEMMA RowEffects == JobsInv /\ [JobsNext]_jobVars => \A j \in Job : RowEffect(j)
  <1> SUFFICES ASSUME JobsInv, [JobsNext]_jobVars PROVE \A j \in Job : RowEffect(j)
    OBVIOUS
  <1>t. JobsTypeOK /\ RowsAgree
    BY DEF JobsInv
  <1>a. ASSUME UNCHANGED <<state, op, retryOf, rerunOf, timeout, exec, cause>> PROVE \A j \in Job : RowEffect(j)
    BY <1>a DEF RowEffect
  <1>1. ASSUME NEW j \in Job, NEW o \in Op, createOperationJob(j, o) PROVE \A k \in Job : RowEffect(k)
    BY <1>t, <1>1 DEF createOperationJob, createJob, execVars, JobsTypeOK, RowEffect
  <1>2. ASSUME NEW j \in Job, NEW k \in Job, retryWithMoreTime(j, k) PROVE \A m \in Job : RowEffect(m)
    BY <1>t, <1>2 DEF retryWithMoreTime, createJob, execVars, JobsTypeOK, RowEffect
  <1>3. ASSUME NEW j \in Job, NEW k \in Job, stageRerun(j, k) PROVE \A m \in Job : RowEffect(m)
    BY <1>t, <1>3 DEF stageRerun, createJob, execVars, JobsTypeOK, RowEffect
  <1>4. ASSUME NEW j \in Job, NEW c \in Approver, checkApproval(c, j) PROVE \A m \in Job : RowEffect(m)
    BY <1>a, <1>4 DEF checkApproval, rowVars, execVars
  <1>5. ASSUME NEW S, Withdrawn(S) PROVE \A m \in Job : RowEffect(m)
    BY <1>t, <1>5 DEF Withdrawn, execVars, JobsTypeOK, RowEffect
  <1>6. ASSUME NEW c \in Caller, grantApproval(c) PROVE \A m \in Job : RowEffect(m)
    <2>1. approving[c].job \in Job /\ state[approving[c].job] = "awaiting_approval"
      BY <1>t, <1>6 DEF grantApproval, transitionAllowed, JobsTypeOK, Approval
    <2> QED BY <1>t, <1>6, <2>1 DEF grantApproval, JobsTypeOK, RowEffect
  <1>7. ASSUME NEW c \in Caller, refuseApproval(c) PROVE \A m \in Job : RowEffect(m)
    BY <1>5, <1>7 DEF refuseApproval
  <1>8. ASSUME NEW j \in Job, sendToHelper(j) \/ onQueued(j) \/ onStarted(j) \/ helperSettles(j)
        PROVE  \A m \in Job : RowEffect(m)
    BY <1>a, <1>8 DEF sendToHelper, onQueued, onStarted, helperSettles, elsewhere
  <1>9. ASSUME NEW j \in Job, applied(j) PROVE \A m \in Job : RowEffect(m)
    <2>1. executing(j) /\ state[j] = "applying"
      BY <1>9, <1>t DEF applied, settledWith, executing, RowsAgree
    <2> QED BY <1>t, <1>9, <2>1 DEF applied, elsewhere, JobsTypeOK, RowEffect, Active
  <1>10. ASSUME NEW j \in Job, waitForHelper(j) \/ helperBack(j) \/ recordResult(j) \/ persisted(j)
         PROVE  \A m \in Job : RowEffect(m)
    <2>1. UNCHANGED <<op, retryOf, rerunOf, timeout, state, cause>>
      BY <1>10 DEF waitForHelper, helperBack, recordResult, persisted, elsewhere
    <2>2. \E e \in {"waitBack", "sendingAgain", "refreshing", "none"} :
             /\ exec' = [exec EXCEPT ![j] = e]
             /\ e = "waitBack" => exec[j] = "sending" /\ settledWith(j) \in notStarted
             /\ e = "sendingAgain" => exec[j] = "waitBack"
      BY <1>10 DEF waitForHelper, helperBack, recordResult, persisted
    <2> QED BY <1>t, <2>1, <2>2 DEF JobsTypeOK, RowEffect
  <1>11. ASSUME NEW j \in Job, NEW e, caught(j, e), e \in {settledWith(j), "restarting", "record"}
         PROVE  \A m \in Job : RowEffect(m)
    BY <1>t, <1>11 DEF caught, elsewhere, JobsTypeOK, RowEffect
  <1>12. ASSUME NEW j \in Job, helperFailed(j) \/ helperNotBack(j) \/ recordFailed(j) PROVE \A m \in Job : RowEffect(m)
    BY <1>11, <1>12 DEF helperFailed, helperNotBack, recordFailed
  <1>13. ASSUME NEW j \in Job, complete(j) \/ fail(j) PROVE \A m \in Job : RowEffect(m)
    <2>1. state[j] \in Active
      BY <1>13, <1>t DEF complete, fail, RowsAgree, Active
    <2>2. CASE complete(j)
      BY <1>t, <2>1, <2>2 DEF complete, elsewhere, JobsTypeOK, RowEffect
    <2>3. CASE fail(j)
      BY <1>t, <2>1, <2>3 DEF fail, elsewhere, JobsTypeOK, RowEffect
    <2> QED BY <1>13, <2>2, <2>3
  <1>16. ASSUME \/ \E r \in Req : helperHandles(r) \/ helperStarts(r) \/ \E how \in Answer : helperFinishes(r, how)
                \/ helperDies \/ \E j \in Job : rootTaskStops(j) \/ lingerCap(j)
         PROVE  \A m \in Job : RowEffect(m)
    <2>1. UNCHANGED webSide
      BY <1>16 DEF helperHandles, helperStarts, helperFinishes, helperDies, rootTaskStops, lingerCap
    <2> QED BY <2>1, <1>a DEF webSide, rowVars, execVars
  <1>17. CASE webDies
    BY <1>t, <1>17 DEF webDies, rowVars, RowEffect
  <1>18. CASE recoverInterruptedJobs
    BY <1>t, <1>18 DEF recoverInterruptedJobs, cutOff, execVars, JobsTypeOK, RowEffect
  <1>19. ASSUME NEW S \in SUBSET Job, planInterruptedReruns(S) PROVE \A m \in Job : RowEffect(m)
    BY <1>a, <1>19 DEF planInterruptedReruns, rowVars, execVars
  <1>20. ASSUME NEW j \in Job, rerunNotStaged(j) \/ SecretsAge(j) PROVE \A m \in Job : RowEffect(m)
    BY <1>20, <1>a DEF rerunNotStaged, SecretsAge, rowVars, execVars
  <1>21. ASSUME \/ \E j \in Job : cancelJob(j) \/ expireSecretJob(j)
                \/ \E S \in SUBSET Job : sweepStaleApprovals(S)
                \/ pruneStagedSecrets
         PROVE  \A m \in Job : RowEffect(m)
    BY <1>5, <1>21 DEF cancelJob, expireSecretJob, sweepStaleApprovals, pruneStagedSecrets
  <1>22. CASE UNCHANGED jobVars
    BY <1>22, <1>a DEF jobVars, rowVars, execVars
  <1> QED BY <1>1, <1>2, <1>3, <1>4, <1>6, <1>7, <1>8, <1>9, <1>10, <1>12, <1>13, <1>16,
             <1>17, <1>18, <1>19, <1>20, <1>21, <1>22 DEF JobsNext, JobStep

(* A call that settled stays as it settled, and one that was made stays    *)
(* made.                                                                   *)
LEMMA OutcomeIsFinal ==
    ASSUME Inv, [ContractNext]_contractVars, NEW r \in Req
    PROVE  /\ client[r] = "settled" => client'[r] = "settled" /\ outcome'[r] = outcome[r]
           /\ client[r] # "idle" => client'[r] # "idle"
  <1>t. client \in [Req -> {"idle", "sent", "settled"}] /\ outcome \in [Req -> Outcome]
    BY DEF Inv, ContractTypeOK
  <1>1. ASSUME NEW q \in Req, NEW how, Settle(q, how), client[q] # "settled"
        PROVE  /\ client[r] = "settled" => client'[r] = "settled" /\ outcome'[r] = outcome[r]
               /\ client[r] # "idle" => client'[r] # "idle"
    BY <1>t, <1>1 DEF Settle
  <1>2. ASSUME NEW q \in Req, NobodyThere(q) \/ HearReply(q) \/ TimeOut(q) \/ LoseConnection(q)
        PROVE  /\ client[r] = "settled" => client'[r] = "settled" /\ outcome'[r] = outcome[r]
               /\ client[r] # "idle" => client'[r] # "idle"
    BY <1>1, <1>2 DEF NobodyThere, HearReply, TimeOut, LoseConnection
  <1>3. ASSUME NEW q \in Req, Send(q)
        PROVE  /\ client[r] = "settled" => client'[r] = "settled" /\ outcome'[r] = outcome[r]
               /\ client[r] # "idle" => client'[r] # "idle"
    BY <1>t, <1>3 DEF Send
  <1>4. ASSUME NEW q \in Req,
               \/ HearQueued(q) \/ HearStarted(q) \/ Accept(q) \/ Start(q) \/ Abandon(q)
               \/ \E why \in {"restarting", "busy"} : TurnAway(q, why)
               \/ \E how \in Answer : Finish(q, how)
        PROVE  UNCHANGED <<client, outcome>>
    BY <1>4 DEF HearQueued, HearStarted, Accept, Start, Abandon, TurnAway, Finish, callVars
  <1>5. ASSUME \/ \E S \in SUBSET Req : Refuse(S)
               \/ HelperDies
        PROVE  UNCHANGED <<client, outcome>>
    BY <1>5 DEF Refuse, HelperDies, callVars
  <1>6. CASE CallersDie \/ BothDie
    BY <1>t, <1>6 DEF CallersDie, BothDie, CallersLost
  <1>7. CASE UNCHANGED contractVars
    BY <1>7 DEF contractVars, callVars
  <1> QED BY <1>2, <1>3, <1>4, <1>5, <1>6, <1>7 DEF ContractNext

(* A call is made only for a job that executes, and is its request. *)
LEMMA CallIsOfExecution ==
    ASSUME JobsInv, [JobsNext]_jobVars, NEW j \in Job, NEW a \in {1, 2},
           client[<<j, a>>] = "idle", client'[<<j, a>>] # "idle"
    PROVE  executing(j) /\ <<j, a>> = request(j)
  <1>r. <<j, a>> \in Req
    BY Requests
  <1>t. client \in [Req -> {"idle", "sent", "settled"}]
    BY DEF JobsInv, Inv, ContractTypeOK
  <1>1. ASSUME NEW k \in Job, sendToHelper(k) \/ onQueued(k) \/ onStarted(k) \/ helperSettles(k)
        PROVE  executing(j) /\ <<j, a>> = request(j)
    <2>1. executing(k) /\ request(k) \in Req
      BY <1>1, RequestOf DEF sendToHelper, onQueued, onStarted, helperSettles
    <2>2. <<j, a>> = request(k)
      BY <1>1, <1>r, <1>t, <2>1 DEF sendToHelper, onQueued, onStarted, helperSettles, Send, NobodyThere, HearQueued,
            HearStarted, HearReply, TimeOut, LoseConnection, Settle
    <2>3. j = k
      BY <2>1, <2>2, RequestOf, Requests DEF executing
    <2> QED BY <2>1, <2>2, <2>3
  <1>2. ASSUME NEW r \in Req, helperHandles(r) \/ helperStarts(r) \/ \E how \in Answer : helperFinishes(r, how)
        PROVE  UNCHANGED client
    BY <1>2 DEF helperHandles, helperStarts, helperFinishes, Accept, Abandon, Refuse, TurnAway, Start, Finish, callVars
  <1>3. CASE webDies
    BY <1>3, <1>r DEF webDies, CallersLost
  <1>4. CASE UNCHANGED contractVars
    BY <1>4 DEF contractVars, callVars
  <1>5. CASE helperDies
    BY <1>5 DEF helperDies, HelperDies, callVars
  <1> QED BY <1>1, <1>2, <1>3, <1>4, <1>5, StepsElsewhere

(* Every step keeps the calls in order: a job is sent once approved, and   *)
(* again only when the first send was never started.                       *)
LEMMA CallsStep == JobsInv /\ [JobsNext]_jobVars => CallsAgree'
  <1> SUFFICES ASSUME JobsInv, [JobsNext]_jobVars, NEW j \in Job
               PROVE  /\ client'[<<j, 1>>] # "idle" => Approved(j)'
                      /\ client'[<<j, 2>>] # "idle" \/ exec'[j] \in {"waitBack", "sendingAgain"} =>
                            client'[<<j, 1>>] = "settled" /\ outcome'[<<j, 1>>] \in notStarted
    BY DEF CallsAgree
  <1>1. <<j, 1>> \in Req /\ <<j, 2>> \in Req /\ <<j, 1>> # <<j, 2>>
    BY Requests
  <1>2. Inv /\ [ContractNext]_contractVars /\ RowEffect(j) /\ CallsAgree /\ RowsAgree
    BY StepsKeepContract, RowEffects DEF JobsInv
  <1>3. Approved(j) => Approved(j)'
    BY <1>2 DEF RowEffect, Approved, Active
  <1>4. client[<<j, 1>>] = "settled" /\ outcome[<<j, 1>>] \in notStarted =>
          client'[<<j, 1>>] = "settled" /\ outcome'[<<j, 1>>] \in notStarted
    BY <1>1, <1>2, OutcomeIsFinal
  <1>5. ASSUME client'[<<j, 1>>] # "idle" PROVE Approved(j)'
    <2>1. CASE client[<<j, 1>>] = "idle"
      BY <1>1, <1>2, <1>3, <1>5, <2>1, CallIsOfExecution, RequestOf DEF RowsAgree, executing, Approved, Active
    <2> QED BY <1>2, <1>3, <2>1 DEF CallsAgree
  <1>6. ASSUME client'[<<j, 2>>] # "idle" PROVE client'[<<j, 1>>] = "settled" /\ outcome'[<<j, 1>>] \in notStarted
    <2>1. CASE client[<<j, 2>>] = "idle"
      <3>1. executing(j) /\ <<j, 2>> = request(j)
        BY <1>6, <2>1, CallIsOfExecution
      <3>2. exec[j] = "sendingAgain"
        BY <1>1, <3>1, RequestOf DEF executing
      <3> QED BY <1>2, <1>4, <3>2 DEF CallsAgree
    <2> QED BY <1>2, <1>4, <2>1 DEF CallsAgree
  <1>7. ASSUME exec'[j] \in {"waitBack", "sendingAgain"}
        PROVE  client'[<<j, 1>>] = "settled" /\ outcome'[<<j, 1>>] \in notStarted
    <2>1. CASE exec[j] \in {"waitBack", "sendingAgain"}
      BY <1>2, <1>4, <2>1 DEF CallsAgree
    <2>2. CASE exec[j] = "sending" /\ settledWith(j) \in notStarted
      <3>1. request(j) = <<j, 1>>
        BY <2>2, RequestOf DEF executing
      <3>2. client[<<j, 1>>] = "settled" /\ outcome[<<j, 1>>] \in notStarted
        BY <2>2, <3>1 DEF settledWith, notStarted
      <3> QED BY <1>4, <3>2
    <2> QED BY <1>2, <1>7, <2>1, <2>2 DEF RowEffect
  <1> QED BY <1>5, <1>6, <1>7
-----------------------------------------------------------------------------
(* Of a job's two sends at most one has run. *)
OnceAtMost == \A q, r \in Req : q \in ran /\ r \in ran /\ q[1] = r[1] => q = r

(* What ran was sent, and the second send only happens when the first      *)
(* never ran.                                                              *)
LEMMA RunsOnce == Inv /\ CallsAgree => OnceAtMost
  <1> SUFFICES ASSUME Inv, CallsAgree, NEW q \in Req, NEW r \in Req, q \in ran, r \in ran, q[1] = r[1], q # r
               PROVE  FALSE
    BY DEF OnceAtMost
  <1>1. PICK j \in Job : <<j, 1>> \in ran /\ <<j, 2>> \in ran
    BY Requests
  <1>2. client[<<j, 2>>] # "idle"
    BY <1>1, Requests DEF Inv, ContractInv
  <1>3. outcome[<<j, 1>>] \in NotStarted
    BY <1>2 DEF CallsAgree, notStarted, NotStarted
  <1> QED BY <1>1, <1>3, Requests DEF Inv, ContractInv

LEMMA RunsOnceNext == Inv' /\ CallsAgree' => OnceAtMost'
  BY RunsOnce, PTL

(* Only the frame that says so brings such an answer. *)
LEMMA SayStepOut ==
    ASSUME Inv, NEW r \in Req, NEW f \in Frame, Say({r}, f), UNCHANGED outcome, NEW q \in Req, StepOut(q)'
    PROVE  StepOut(q) \/ (q = r /\ f = "stepTimeout")
  <1>1. CASE q = r
    <2>1. r \in {r} /\ {r} \in SUBSET Req
      OBVIOUS
    <2>2. \A i \in 1..Len(inbox'[r]) : (i \in 1..Len(inbox[r]) /\ inbox'[r][i] = inbox[r][i]) \/ inbox'[r][i] = f
      BY <2>1, SayFrames
    <2> QED BY <1>1, <2>2 DEF StepOut
  <1>2. CASE q # r
    <2>0. q \in Req \ {r} /\ {r} \in SUBSET Req
      BY <1>2
    <2>1. inbox'[q] = inbox[q]
      BY <2>0, SayFrames
    <2> QED BY <2>1 DEF StepOut
  <1> QED BY <1>1, <1>2

(* The caller's steps, and the helper's before a request begins, neither   *)
(* begin nor end an execution, nor make up such an answer.                 *)
LEMMA BeforeAndAfter ==
    ASSUME Inv, NEW r \in Req,
           \/ Send(r) \/ NobodyThere(r) \/ HearQueued(r) \/ HearStarted(r)
           \/ HearReply(r) \/ TimeOut(r) \/ LoseConnection(r)
           \/ Accept(r) \/ Abandon(r) \/ Refuse({r}) \/ \E why \in {"restarting", "busy"} : TurnAway(r, why)
    PROVE  \A q \in Req : /\ place'[q] = "running" <=> place[q] = "running"
                          /\ StepOut(q)' => StepOut(q)
  <1>t. ContractTypeOK
    BY DEF Inv
  <1>1. CASE Send(r)
    <2>1. place[r] = "none"
      BY <1>1 DEF Send, Inv, ContractInv
    <2> QED BY <1>t, <1>1, <2>1 DEF Send, To, ContractTypeOK, StepOut
  <1>2. ASSUME NEW how, Settle(r, how), UNCHANGED placeVars, how = "stepTimeout" => StepOut(r)
        PROVE  \A q \in Req : /\ place'[q] = "running" <=> place[q] = "running"
                              /\ StepOut(q)' => StepOut(q)
    BY <1>t, <1>2 DEF Settle, placeVars, ContractTypeOK, StepOut
  <1>3. CASE NobodyThere(r) \/ TimeOut(r) \/ LoseConnection(r)
    <2>1. \E how : Settle(r, how) /\ how # "stepTimeout" /\ UNCHANGED placeVars
      BY <1>3 DEF NobodyThere, TimeOut, LoseConnection
    <2> QED BY <1>2, <2>1
  <1>4. CASE HearReply(r)
    <2>1. 1 \in 1..Len(inbox[r]) /\ Head(inbox[r]) = inbox[r][1]
      BY <1>t, <1>4, TailFrames DEF HearReply, ContractTypeOK
    <2> QED BY <1>2, <1>4, <2>1 DEF HearReply, StepOut
  <1>5. CASE HearQueued(r) \/ HearStarted(r)
    <2>1. inbox[r] \in Seq(Frame) /\ inbox[r] # <<>>
      BY <1>t, <1>5 DEF HearQueued, HearStarted, ContractTypeOK
    <2>2. inbox' = [inbox EXCEPT ![r] = Tail(@)] /\ UNCHANGED <<outcome, placeVars>>
      BY <1>5 DEF HearQueued, HearStarted
    <2>3. \A i \in 1..Len(inbox'[r]) : \E k \in 1..Len(inbox[r]) : inbox'[r][i] = inbox[r][k]
      BY <1>t, <2>1, <2>2, TailFrames DEF ContractTypeOK
    <2> QED BY <1>t, <2>2, <2>3 DEF ContractTypeOK, placeVars, StepOut
  <1>6. ASSUME NEW f \in Frame, f # "stepTimeout", Say({r}, f), UNCHANGED outcome
        PROVE  \A q \in Req : StepOut(q)' => StepOut(q)
    BY <1>6, SayStepOut
  <1>7. CASE Accept(r)
    <2>1. "queued" \in Frame
      BY DEF Frame
    <2>2. \A q \in Req : StepOut(q)' => StepOut(q)
      BY <1>6, <1>7, <2>1 DEF Accept, StepOut
    <2> QED BY <1>t, <1>7, <2>2 DEF Accept, ContractTypeOK
  <1>8. CASE Refuse({r})
    <2>1. "restarting" \in Frame
      BY DEF Frame
    <2>2. \A q \in Req : StepOut(q)' => StepOut(q)
      BY <1>6, <1>8, <2>1 DEF Refuse
    <2> QED BY <1>t, <1>8, <2>2 DEF Refuse, To, ContractTypeOK
  <1>9. ASSUME NEW why \in {"restarting", "busy"}, TurnAway(r, why)
        PROVE  \A q \in Req : /\ place'[q] = "running" <=> place[q] = "running"
                              /\ StepOut(q)' => StepOut(q)
    <2>1. why \in Frame
      BY DEF Frame
    <2>2. \A q \in Req : StepOut(q)' => StepOut(q)
      BY <1>6, <1>9, <2>1 DEF TurnAway
    <2> QED BY <1>t, <1>9, <2>2 DEF TurnAway, To, ContractTypeOK
  <1>10. CASE Abandon(r)
    BY <1>t, <1>10 DEF Abandon, To, callVars, ContractTypeOK, StepOut
  <1> QED BY <1>1, <1>3, <1>4, <1>5, <1>7, <1>8, <1>9, <1>10

(* Beginning a request, and finishing it. *)
LEMMA StartAndFinish ==
    ASSUME Inv, NEW r \in Req
    PROVE  /\ Start(r) => \A q \in Req : /\ place'[q] = "running" <=> q = r \/ place[q] = "running"
                                         /\ StepOut(q)' => StepOut(q)
           /\ \A how \in Answer : Finish(r, how) =>
                 \A q \in Req : /\ place'[q] = "running" <=> q # r /\ place[q] = "running"
                                /\ StepOut(q)' => StepOut(q) \/ (q = r /\ how = "stepTimeout")
  <1>t. ContractTypeOK
    BY DEF Inv
  <1>1. ASSUME Start(r) PROVE \A q \in Req : /\ place'[q] = "running" <=> q = r \/ place[q] = "running"
                                             /\ StepOut(q)' => StepOut(q)
    <2>1. "started" \in Frame
      BY DEF Frame
    <2>2. \A q \in Req : StepOut(q)' => StepOut(q)
      <3>1. CASE Say({r}, "started")
        BY <1>1, <2>1, <3>1, SayStepOut DEF Start
      <3>2. CASE UNCHANGED inbox
        BY <1>1, <3>2 DEF Start, StepOut
      <3> QED BY <1>1, <3>1, <3>2 DEF Start
    <2> QED BY <1>t, <1>1, <2>2 DEF Start, To, ContractTypeOK
  <1>2. ASSUME NEW how \in Answer, Finish(r, how)
        PROVE  \A q \in Req : /\ place'[q] = "running" <=> q # r /\ place[q] = "running"
                              /\ StepOut(q)' => StepOut(q) \/ (q = r /\ how = "stepTimeout")
    <2>1. how \in Frame
      BY DEF Frame
    <2>2. \A q \in Req : StepOut(q)' => StepOut(q) \/ (q = r /\ how = "stepTimeout")
      <3>1. CASE Say({r}, how)
        BY <1>2, <2>1, <3>1, SayStepOut DEF Finish
      <3>2. CASE UNCHANGED inbox
        BY <1>2, <3>2 DEF Finish, StepOut
      <3> QED BY <1>2, <3>1, <3>2 DEF Finish
    <2> QED BY <1>t, <1>2, <2>2 DEF Finish, To, ContractTypeOK
  <1> QED BY <1>1, <1>2
-----------------------------------------------------------------------------
(* Every step keeps work on the host accounted for: a request begins there *)
(* once, a lane is held while it runs, and what ran out of time in a step  *)
(* is gone.                                                                *)
LEMMA HostStep == JobsInv /\ [JobsNext]_jobVars /\ Inv' /\ CallsAgree' => HostInv'
  <1> SUFFICES ASSUME JobsInv, [JobsNext]_jobVars, Inv', CallsAgree' PROVE HostInv'
    OBVIOUS
  <1>t. Inv /\ JobsTypeOK /\ CallsAgree /\ RunningHolds /\ WorkAccounted /\ StepOutLeavesNothing
    BY DEF JobsInv, HostInv
  <1>o. OnceAtMost'
    BY RunsOnceNext
  <1>k. hostWork \subseteq Job
    BY <1>t DEF JobsTypeOK
  <1>r. \A j \in Job : Approved(j) => Approved(j)' /\ op'[j] = op[j]
    BY RowEffects DEF RowEffect, Approved, Active
  <1>s. \A q \in Req : StepOut(q) => place[q] = "over" /\ q \in ran /\ q[1] \notin hostWork
    BY <1>t DEF Inv, ContractInv, StepOut, Answer, StepOutLeavesNothing
  <1>p. \A j \in Job : <<j, 1>> \in Req /\ <<j, 2>> \in Req
    BY Requests
  <1>w. \A j \in hostWork : Approved(j)' /\ op'[j] = op[j] /\ (op[j].rootTask = TRUE \/ Runs(j))
    BY <1>t, <1>r, <1>k DEF WorkAccounted
  <1>1. ASSUME UNCHANGED hostVars,
               \A q \in Req : /\ place'[q] = "running" <=> place[q] = "running"
                              /\ StepOut(q)' => StepOut(q)
        PROVE  HostInv'
    <2>0. hostWork' = hostWork /\ laneHeld' = laneHeld
      BY <1>1 DEF hostVars
    <2>1. RunningHolds'
      BY <1>1, <1>t, <2>0 DEF RunningHolds
    <2>2. WorkAccounted'
      BY <1>1, <1>w, <1>k, <1>p, <2>0 DEF WorkAccounted, Runs
    <2>3. StepOutLeavesNothing'
      BY <1>1, <1>t, <2>0 DEF StepOutLeavesNothing
    <2> QED BY <2>1, <2>2, <2>3 DEF HostInv
  <1>2. ASSUME NEW j \in Job, sendToHelper(j) \/ onQueued(j) \/ onStarted(j) \/ helperSettles(j) PROVE HostInv'
    <2>1. executing(j) /\ UNCHANGED hostVars
      BY <1>2 DEF sendToHelper, onQueued, onStarted, helperSettles, elsewhere, hostVars
    <2>2. request(j) \in Req
      BY <2>1, RequestOf
    <2> QED BY <1>1, <1>2, <1>t, <2>1, <2>2, BeforeAndAfter DEF sendToHelper, onQueued, onStarted, helperSettles
  <1>3. ASSUME NEW r \in Req, helperHandles(r) PROVE HostInv'
    BY <1>1, <1>3, <1>t, BeforeAndAfter DEF helperHandles
  <1>4. ASSUME NEW r \in Req, helperStarts(r) PROVE HostInv'
    <2> DEFINE j == r[1]
    <2>1. j \in Job /\ (r = <<j, 1>> \/ r = <<j, 2>>)
      BY Requests
    <2>2. /\ place[r] = "queued" /\ ran' = ran \union {r} /\ Start(r)
          /\ hostWork' = hostWork \union {j} /\ laneHeld' = laneHeld \union {j}
      BY <1>4 DEF helperStarts, Start
    <2>3. \A q \in Req : /\ place'[q] = "running" <=> q = r \/ place[q] = "running"
                         /\ StepOut(q)' => StepOut(q)
      BY <1>t, <2>2, StartAndFinish
    <2>4. Approved(j)'
      <3>1. client[r] # "idle"
        BY <1>t, <2>2 DEF Inv, ContractInv
      <3> QED BY <1>t, <1>r, <2>1, <3>1 DEF CallsAgree
    <2>5. RunningHolds'
      BY <1>t, <2>2, <2>3 DEF RunningHolds
    <2>6. WorkAccounted'
      <3> SUFFICES ASSUME NEW k \in hostWork'
                   PROVE  Approved(k)' /\ (op'[k].rootTask = TRUE \/ Runs(k)')
        BY DEF WorkAccounted
      <3>1. CASE k = j
        BY <2>1, <2>3, <2>4, <3>1 DEF Runs
      <3>2. CASE k # j
        <4>1. k \in hostWork /\ k \in Job
          BY <1>k, <2>2, <3>2
        <4> QED BY <1>w, <1>p, <2>3, <4>1 DEF Runs
      <3> QED BY <3>1, <3>2
    <2>7. ASSUME NEW q \in Req, StepOut(q)' PROVE q[1] \notin hostWork'
      <3>1. place[q] = "over" /\ q \in ran /\ q[1] \notin hostWork
        BY <1>s, <2>3, <2>7
      <3>2. q \in ran' /\ r \in ran' /\ q # r
        BY <2>2, <3>1
      <3> QED BY <1>o, <2>2, <3>1, <3>2 DEF OnceAtMost
    <2> QED BY <2>5, <2>6, <2>7 DEF HostInv, StepOutLeavesNothing
  <1>5. ASSUME NEW r \in Req, NEW how \in Answer, helperFinishes(r, how) PROVE HostInv'
    <2> DEFINE j == r[1]
               over == IF how = "leftRunning" THEN {} ELSE {j}
    <2>1. /\ place[r] = "running" /\ Finish(r, how) /\ UNCHANGED ran
          /\ how = "leftRunning" => op[j].rootTask
          /\ hostWork' = hostWork \ over /\ laneHeld' = laneHeld \ over
      BY <1>5 DEF helperFinishes, Finish
    <2>2. \A q \in Req : /\ place'[q] = "running" <=> q # r /\ place[q] = "running"
                         /\ StepOut(q)' => StepOut(q) \/ (q = r /\ how = "stepTimeout")
      BY <1>t, <2>1, StartAndFinish
    <2>3. ASSUME NEW q \in Req, q # r, place[q] = "running" PROVE q[1] # j
      <3>1. q \in ran' /\ r \in ran'
        BY <1>t, <2>1, <2>3 DEF Inv, ContractInv
      <3> QED BY <1>o, <2>3, <3>1 DEF OnceAtMost
    <2>4. RunningHolds'
      BY <1>t, <2>1, <2>2, <2>3 DEF RunningHolds
    <2>5. ASSUME NEW k \in hostWork'
          PROVE  Approved(k)' /\ (op'[k].rootTask = TRUE \/ Runs(k)')
      <3>1. k \in hostWork /\ k \in Job
        BY <1>k, <2>1, <2>5
      <3>2. CASE k = j
        <4>1. how = "leftRunning" /\ op[k] \in OpRecord
          BY <1>t, <2>1, <2>5, <3>1, <3>2 DEF JobsInv, RowsAgree, WorkAccounted, Approved, Active
        <4> QED BY <1>w, <2>1, <3>1, <3>2, <4>1 DEF OpRecord
      <3>3. CASE k # j
        <4>1. <<k, 1>> # r /\ <<k, 2>> # r
          BY <3>1, <3>3, Requests
        <4> QED BY <1>w, <1>p, <2>2, <3>1, <4>1 DEF Runs
      <3> QED BY <3>2, <3>3
    <2>6. StepOutLeavesNothing'
      BY <1>s, <2>1, <2>2 DEF StepOutLeavesNothing
    <2> QED BY <2>4, <2>5, <2>6 DEF HostInv, WorkAccounted
  <1>6. CASE helperDies
    <2>1. /\ \A q \in Req : place'[q] # "running"
          /\ UNCHANGED <<outcome, inbox>>
          /\ hostWork' = {k \in hostWork : op[k].rootTask}
      BY <1>6, <1>t DEF helperDies, HelperDies, HelperLost, To, callVars, Inv, ContractTypeOK
    <2>2. RunningHolds' /\ StepOutLeavesNothing'
      BY <1>t, <2>1 DEF RunningHolds, StepOutLeavesNothing, StepOut
    <2>3. ASSUME NEW k \in hostWork' PROVE Approved(k)' /\ op'[k].rootTask = TRUE
      <3>1. k \in hostWork /\ op[k].rootTask /\ op[k] \in OpRecord
        BY <1>t, <1>k, <2>1, <2>3 DEF JobsInv, RowsAgree, WorkAccounted, Approved, Active
      <3> QED BY <1>w, <3>1 DEF OpRecord
    <2> QED BY <2>2, <2>3 DEF HostInv, WorkAccounted
  <1>7. CASE webDies
    <2>1. UNCHANGED <<place, hostVars>>
      BY <1>7 DEF webDies, placeVars
    <2>2. \A q \in Req : StepOut(q)' => StepOut(q)
      BY <1>7 DEF webDies, CallersLost, StepOut
    <2> QED BY <1>1, <2>1, <2>2
  <1>8. ASSUME NEW j \in Job, rootTaskStops(j) \/ lingerCap(j) PROVE HostInv'
    <2>1. /\ \A a \in {1, 2} : place[<<j, a>>] # "running"
          /\ hostWork' \in {hostWork, hostWork \ {j}} /\ laneHeld' = laneHeld \ {j}
          /\ UNCHANGED <<place, outcome, inbox>>
      BY <1>8 DEF rootTaskStops, lingerCap, contractVars, callVars, placeVars
    <2>2. \A q \in Req : place[q] = "running" => q[1] # j
      BY <2>1, Requests
    <2>3. RunningHolds'
      BY <1>t, <2>1, <2>2 DEF RunningHolds
    <2>4. StepOutLeavesNothing'
      BY <1>t, <2>1 DEF StepOutLeavesNothing, StepOut
    <2>5. WorkAccounted'
      BY <1>w, <2>1 DEF WorkAccounted, Runs
    <2> QED BY <2>3, <2>4, <2>5 DEF HostInv
  <1>9. ASSUME UNCHANGED contractVars, UNCHANGED hostVars PROVE HostInv'
    BY <1>1, <1>9 DEF contractVars, callVars, placeVars, StepOut
  <1> QED BY <1>2, <1>3, <1>4, <1>5, <1>6, <1>7, <1>8, <1>9, StepsElsewhere
-----------------------------------------------------------------------------
(* Only "try again with more time" makes a retry, and only startup's       *)
(* rerun makes a rerun.                                                    *)
LEMMA WhoRetries ==
    ASSUME [JobsNext]_jobVars
    PROVE  /\ UNCHANGED retryOf \/ \E j, k \in Job : retryWithMoreTime(j, k)
           /\ UNCHANGED rerunOf \/ \E j, k \in Job : stageRerun(j, k)
  <1>1. ASSUME NEW j \in Job, JobStep(j)
        PROVE  UNCHANGED <<retryOf, rerunOf>>
    BY <1>1 DEF JobStep, sendToHelper, onQueued, onStarted, helperSettles, applied, waitForHelper, helperBack,
                helperFailed, helperNotBack, recordResult, recordFailed, complete, persisted, fail, caught, elsewhere
  <1>2. ASSUME NEW j \in Job,
               \/ \E o \in Op : createOperationJob(j, o)
               \/ \E c \in Approver : checkApproval(c, j)
               \/ SecretsAge(j) \/ cancelJob(j) \/ expireSecretJob(j) \/ rerunNotStaged(j)
               \/ rootTaskStops(j) \/ lingerCap(j)
        PROVE  UNCHANGED <<retryOf, rerunOf>>
    BY <1>2 DEF createOperationJob, checkApproval, SecretsAge, cancelJob, expireSecretJob, Withdrawn, rerunNotStaged,
                rootTaskStops, lingerCap, webSide, rowVars
  <1>3. ASSUME \/ \E S \in SUBSET Job : sweepStaleApprovals(S) \/ planInterruptedReruns(S)
               \/ \E c \in Caller : grantApproval(c) \/ refuseApproval(c)
               \/ pruneStagedSecrets \/ recoverInterruptedJobs \/ webDies \/ helperDies
        PROVE  UNCHANGED <<retryOf, rerunOf>>
    BY <1>3 DEF sweepStaleApprovals, planInterruptedReruns, grantApproval, refuseApproval, pruneStagedSecrets,
                Withdrawn, recoverInterruptedJobs, webDies, helperDies, webSide, rowVars
  <1>4. ASSUME NEW r \in Req, helperHandles(r) \/ helperStarts(r) \/ \E how \in Answer : helperFinishes(r, how)
        PROVE  UNCHANGED <<retryOf, rerunOf>>
    BY <1>4 DEF helperHandles, helperStarts, helperFinishes, webSide, rowVars
  <1>5. ASSUME NEW j \in Job, NEW k \in Job
        PROVE  /\ retryWithMoreTime(j, k) => UNCHANGED rerunOf
               /\ stageRerun(j, k) => UNCHANGED retryOf
    BY DEF retryWithMoreTime, stageRerun
  <1>6. UNCHANGED jobVars => UNCHANGED <<retryOf, rerunOf>>
    BY DEF jobVars, rowVars
  <1> QED BY <1>1, <1>2, <1>3, <1>4, <1>5, <1>6 DEF JobsNext

(* Every step keeps what is known of the job a retry is of. *)
LEMMA RetryStep == JobsInv /\ [JobsNext]_jobVars => RetryInv'
  <1> SUFFICES ASSUME JobsInv, [JobsNext]_jobVars, NEW k \in Job
               PROVE  /\ timeout'[k] = "step" \/ (exec'[k] = "failing" /\ cause'[k] = "stepTimeout") =>
                            \E a \in {1, 2} : outcome'[<<k, a>>] = "stepTimeout"
                      /\ retryOf'[k] # NoJob =>
                            /\ state'[k] # "none" /\ retryOf'[k] # k
                            /\ state'[retryOf'[k]] = "failed" /\ op'[retryOf'[k]] = op'[k]
                            /\ \/ timeout'[retryOf'[k]] = "operation" /\ ~op'[k].rootTask
                               \/ timeout'[retryOf'[k]] = "step"
    BY DEF RetryInv
  <1>t. Inv /\ JobsTypeOK /\ RowsAgree /\ RetryInv /\ [ContractNext]_contractVars /\ \A j \in Job : RowEffect(j)
    BY RowEffects, StepsKeepContract DEF JobsInv
  <1>1. \A r \in Req : outcome[r] = "stepTimeout" => outcome'[r] = "stepTimeout"
    <2>1. \A r \in Req : outcome[r] = "stepTimeout" => client[r] = "settled"
      BY <1>t DEF Inv, ContractInv, ContractTypeOK
    <2> QED BY <1>t, <2>1, OutcomeIsFinal
  <1>2. (\E a \in {1, 2} : outcome[<<k, a>>] = "stepTimeout") => \E a \in {1, 2} : outcome'[<<k, a>>] = "stepTimeout"
    BY <1>1, Requests
  <1>3. ASSUME timeout'[k] = "step" PROVE \E a \in {1, 2} : outcome'[<<k, a>>] = "stepTimeout"
    <2>1. timeout[k] = "step" \/ (exec[k] = "failing" /\ cause[k] = "stepTimeout")
      BY <1>t, <1>3, TimeoutOf DEF RowEffect
    <2> QED BY <1>t, <1>2, <2>1 DEF RetryInv
  <1>4. ASSUME exec'[k] = "failing", cause'[k] = "stepTimeout" PROVE \E a \in {1, 2} : outcome'[<<k, a>>] = "stepTimeout"
    <2>1. CASE exec[k] = "failing" /\ cause[k] = "stepTimeout"
      BY <1>t, <1>2, <2>1 DEF RetryInv
    <2>2. CASE settledWith(k) = "stepTimeout"
      <3>1. executing(k) /\ outcome[request(k)] = "stepTimeout"
        BY <2>2 DEF settledWith
      <3>2. request(k) = <<k, 1>> \/ request(k) = <<k, 2>>
        BY <3>1, RequestOf DEF executing
      <3> QED BY <1>2, <3>1, <3>2
    <2> QED BY <1>t, <1>4, <2>1, <2>2 DEF RowEffect
  <1>5. ASSUME retryOf'[k] # NoJob
        PROVE  /\ state'[k] # "none" /\ retryOf'[k] # k
               /\ state'[retryOf'[k]] = "failed" /\ op'[retryOf'[k]] = op'[k]
               /\ \/ timeout'[retryOf'[k]] = "operation" /\ ~op'[k].rootTask
                  \/ timeout'[retryOf'[k]] = "step"
    <2>1. ASSUME NEW j \in Job, state[j] = "failed"
          PROVE  state'[j] = "failed" /\ op'[j] = op[j] /\ timeout'[j] = timeout[j]
      BY <1>t, <2>1 DEF RowEffect, RowsAgree, Active
    <2>2. CASE retryOf'[k] = retryOf[k]
      <3> DEFINE j == retryOf[k]
      <3>1. /\ j \in Job /\ state[k] # "none" /\ j # k /\ state[j] = "failed" /\ op[j] = op[k]
            /\ (timeout[j] = "operation" /\ ~op[k].rootTask) \/ timeout[j] = "step"
        <4>1. RetryInv /\ retryOf \in [Job -> Job \union {NoJob}]
          BY <1>t DEF JobsTypeOK
        <4>2. retryOf[k] # NoJob
          BY <1>5, <2>2
        <4>3. j \in Job
          BY <4>1, <4>2
        <4>4. state[k] # "none" /\ j # k /\ state[j] = "failed" /\ op[j] = op[k]
          BY <4>1, <4>2 DEF RetryInv
        <4>5. (timeout[j] = "operation" /\ ~op[k].rootTask) \/ timeout[j] = "step"
          BY <4>1, <4>2 DEF RetryInv
        <4> QED BY <4>3, <4>4, <4>5
      <3>2. state'[k] # "none" /\ op'[k] = op[k]
        BY <1>t, <3>1 DEF RowEffect, Active
      <3> HIDE DEF j
      <3>3. state'[j] = "failed" /\ op'[j] = op[j] /\ timeout'[j] = timeout[j]
        BY <2>1, <3>1
      <3> QED BY <2>2, <3>1, <3>2, <3>3 DEF j
    <2>3. ASSUME NEW j \in Job, NEW m \in Job, retryWithMoreTime(j, m), retryOf'[k] # retryOf[k]
          PROVE  <1>5!2
      <3>1. k = m /\ retryOf'[k] = j
        BY <1>t, <2>3 DEF retryWithMoreTime, JobsTypeOK
      <3>2. /\ state[j] = "failed" /\ state[k] = "none" /\ state'[k] = "awaiting_approval" /\ op'[k] = op[j]
            /\ timeout[j] \notin {"none", "queued", "leftRunning"} /\ (timeout[j] = "operation" => ~op[j].rootTask)
        BY <1>t, <2>3, <3>1 DEF retryWithMoreTime, leftRunning, createJob, JobsTypeOK
      <3>3. timeout[j] \in {"operation", "step"}
        BY <1>t, <3>2 DEF JobsTypeOK, Timeout
      <3> QED BY <2>1, <3>1, <3>2, <3>3
    <2> QED BY <2>2, <2>3, WhoRetries
  <1> QED BY <1>3, <1>4, <1>5

(* Every step keeps startup's answer: what it found cut off waits to be    *)
(* run again, was, or was told, and nothing is run again twice.            *)
LEMMA RerunStep == JobsInv /\ [JobsNext]_jobVars => RerunInv'
  <1> SUFFICES ASSUME JobsInv, [JobsNext]_jobVars PROVE RerunInv'
    OBVIOUS
  <1>t. StartupOnly /\ LabelAnswered /\ FoundHasNoRerun /\ RerunIsOne
    BY DEF JobsInv, RerunInv
  <1>j. /\ rerunOf \in [Job -> Job \union {NoJob}] /\ planned \subseteq Job /\ interrupted \subseteq Job
        /\ state \in [Job -> JobState]
    BY DEF JobsInv, JobsTypeOK
  <1>r. \A j \in Job : /\ state[j] # "none" => state'[j] # "none"
                       /\ state[j] = "failed" => state'[j] = "failed"
    BY RowEffects DEF RowEffect, Active
  <1>1. ASSUME UNCHANGED <<web, label, interrupted, planned, forgotten, rerunOf>>, announced \subseteq announced'
        PROVE  RerunInv'
    <2>1. StartupOnly' /\ LabelAnswered'
      BY <1>1, <1>t DEF StartupOnly, LabelAnswered
    <2>2. FoundHasNoRerun' /\ RerunIsOne'
      BY <1>1, <1>t, <1>j, <1>r DEF FoundHasNoRerun, RerunIsOne
    <2> QED BY <2>1, <2>2 DEF RerunInv
  <1>2. ASSUME NEW j \in Job,
               \/ \E o \in Op : createOperationJob(j, o)
               \/ \E k \in Job : retryWithMoreTime(j, k)
               \/ \E c \in Approver : checkApproval(c, j)
               \/ SecretsAge(j) \/ cancelJob(j) \/ expireSecretJob(j)
               \/ rootTaskStops(j) \/ lingerCap(j)
        PROVE  RerunInv'
    BY <1>1, <1>2 DEF createOperationJob, retryWithMoreTime, createJob, checkApproval, SecretsAge, cancelJob,
                      expireSecretJob, Withdrawn, rootTaskStops, lingerCap, webSide, rowVars, startVars
  <1>3. ASSUME NEW j \in Job, JobStep(j) PROVE RerunInv'
    <2>1. UNCHANGED elsewhere
      BY <1>3 DEF JobStep, sendToHelper, onQueued, onStarted, helperSettles, applied, waitForHelper, helperBack,
                  helperFailed, helperNotBack, recordResult, recordFailed, complete, persisted, fail, caught
    <2> QED BY <1>1, <2>1 DEF elsewhere, startVars
  <1>4. ASSUME \/ \E S \in SUBSET Job : sweepStaleApprovals(S)
               \/ \E c \in Caller : grantApproval(c) \/ refuseApproval(c)
               \/ pruneStagedSecrets
        PROVE  RerunInv'
    <2>1. /\ UNCHANGED <<web, label, interrupted, planned, forgotten, rerunOf>>
          /\ announced \subseteq announced'
      BY <1>4 DEF sweepStaleApprovals, grantApproval, refuseApproval, pruneStagedSecrets, Withdrawn, startVars
    <2> QED BY <1>1, <2>1
  <1>5. ASSUME \/ helperDies
               \/ \E r \in Req : helperHandles(r) \/ helperStarts(r) \/ \E how \in Answer : helperFinishes(r, how)
        PROVE  RerunInv'
    BY <1>1, <1>5 DEF helperDies, helperHandles, helperStarts, helperFinishes, webSide, rowVars, startVars
  <1>6. ASSUME NEW j \in Job, NEW k \in Job, stageRerun(j, k) PROVE RerunInv'
    <2>1. /\ j \in planned /\ state[k] = "none" /\ web = "up"
          /\ rerunOf' = [rerunOf EXCEPT ![k] = j] /\ planned' = planned \ {j}
          /\ UNCHANGED <<web, label, interrupted, forgotten, announced>>
      BY <1>6 DEF stageRerun, createJob
    <2>2. /\ rerunOf[k] = NoJob /\ rerunOf[j] = NoJob /\ state[j] = "failed" /\ j # k
          /\ \A m \in Job : rerunOf[m] # j /\ rerunOf[m] # k
      BY <1>t, <1>j, <2>1 DEF FoundHasNoRerun, RerunIsOne
    <2>3. state'[k] # "none"
      BY <1>j, <1>6 DEF stageRerun, createJob
    <2>4. \A m \in Job : rerunOf'[m] = IF m = k THEN j ELSE rerunOf[m]
      BY <1>j, <2>1
    <2>5. k \notin planned \union interrupted
      BY <1>t, <2>1 DEF FoundHasNoRerun
    <2>6. StartupOnly' /\ LabelAnswered'
      BY <1>t, <2>1, <2>2, <2>4 DEF StartupOnly, LabelAnswered
    <2>7. FoundHasNoRerun'
      BY <1>t, <1>j, <1>r, <2>1, <2>4, <2>5 DEF StartupOnly, FoundHasNoRerun
    <2>8. RerunIsOne'
      BY <1>t, <1>j, <1>r, <2>2, <2>3, <2>4 DEF RerunIsOne
    <2> QED BY <2>6, <2>7, <2>8 DEF RerunInv
  <1>7. ASSUME NEW j \in Job, rerunNotStaged(j) PROVE RerunInv'
    <2>1. /\ planned' = planned \ {j} /\ announced' = announced \union {j}
          /\ UNCHANGED <<web, label, interrupted, forgotten, rerunOf>> /\ web = "up"
      BY <1>7 DEF rerunNotStaged, rowVars
    <2>2. StartupOnly' /\ LabelAnswered'
      BY <1>t, <2>1 DEF StartupOnly, LabelAnswered
    <2>3. FoundHasNoRerun' /\ RerunIsOne'
      BY <1>t, <1>j, <1>r, <2>1 DEF FoundHasNoRerun, RerunIsOne
    <2> QED BY <2>2, <2>3 DEF RerunInv
  <1>8. CASE webDies
    <2>1. /\ planned' = {} /\ interrupted' = {} /\ forgotten' = forgotten \union interrupted \union planned
          /\ UNCHANGED <<label, announced, rerunOf>>
      BY <1>8 DEF webDies, rowVars
    <2>2. StartupOnly' /\ LabelAnswered'
      BY <1>t, <2>1 DEF StartupOnly, LabelAnswered
    <2>3. FoundHasNoRerun' /\ RerunIsOne'
      BY <1>t, <1>j, <1>r, <2>1 DEF FoundHasNoRerun, RerunIsOne
    <2> QED BY <2>2, <2>3 DEF RerunInv
  <1>9. CASE recoverInterruptedJobs
    <2>1. /\ interrupted' = cutOff /\ web' = "recovering" /\ UNCHANGED <<planned, announced, forgotten, rerunOf>>
          /\ planned = {} /\ interrupted = {}
      BY <1>t, <1>9 DEF recoverInterruptedJobs, StartupOnly
    <2>2. \A j \in cutOff : j \in Job /\ state'[j] = "failed" /\ \A k \in Job : rerunOf[k] # j
      BY <1>t, <1>j, <1>9 DEF recoverInterruptedJobs, cutOff, Active, RerunIsOne
    <2>3. \A j \in Job : label'[j] # "none" => j \in cutOff \/ label[j] # "none"
      BY <1>9 DEF recoverInterruptedJobs
    <2>4. StartupOnly' /\ LabelAnswered'
      BY <1>t, <2>1, <2>3 DEF StartupOnly, LabelAnswered
    <2>5. FoundHasNoRerun' /\ RerunIsOne'
      BY <1>t, <1>j, <1>r, <2>1, <2>2 DEF FoundHasNoRerun, RerunIsOne
    <2> QED BY <2>4, <2>5 DEF RerunInv
  <1>10. ASSUME NEW S \in SUBSET Job, planInterruptedReruns(S) PROVE RerunInv'
    <2>1. /\ planned = {} /\ S \subseteq interrupted /\ \A j \in S : rerunOf[j] = NoJob
          /\ planned' = S /\ announced' = announced \union (interrupted \ S) /\ interrupted' = {}
          /\ web' = "up" /\ UNCHANGED <<label, forgotten, rerunOf>>
      BY <1>t, <1>10 DEF planInterruptedReruns, rerunRefusal, rowVars, StartupOnly
    <2>2. StartupOnly' /\ LabelAnswered'
      BY <1>t, <2>1 DEF StartupOnly, LabelAnswered
    <2>3. FoundHasNoRerun' /\ RerunIsOne'
      BY <1>t, <1>j, <1>r, <2>1 DEF FoundHasNoRerun, RerunIsOne
    <2> QED BY <2>2, <2>3 DEF RerunInv
  <1>11. CASE UNCHANGED jobVars
    BY <1>1, <1>11 DEF jobVars, rowVars, startVars
  <1> QED BY <1>2, <1>3, <1>4, <1>5, <1>6, <1>7, <1>8, <1>9, <1>10, <1>11 DEF JobsNext
-----------------------------------------------------------------------------
(* The inductive invariant holds in every state of every behaviour. *)
THEOREM JobsInvariant == JobsSafetySpec => []JobsInv
  <1>1. JobsInv /\ [JobsNext]_jobVars => JobsInv'
    <2> SUFFICES ASSUME JobsInv, [JobsNext]_jobVars PROVE JobsInv'
      OBVIOUS
    <2>1. Inv'
      BY StepsKeepContract, ContractNextInv DEF JobsInv
    <2>2. CallsAgree'
      BY CallsStep
    <2> QED BY <2>1, <2>2, TypeStep, RowsStep, HostStep, RetryStep, RerunStep DEF JobsInv
  <1> QED BY <1>1, InitJobsInv, PTL DEF JobsSafetySpec

(* The job service is well typed, whatever is staged, approved or lost. *)
THEOREM JobsTypeCorrect == JobsSafetySpec => []JobsTypeOK
  <1>1. JobsInv => JobsTypeOK
    BY DEF JobsInv
  <1> QED BY JobsInvariant, <1>1, PTL

(* No job is approved twice, and none runs twice or without an approval,   *)
(* however approvals race, sends are repeated and processes stop.          *)
THEOREM ApprovedRunsOnce == JobsSafetySpec => []OneRunPerApproval
  <1>1. JobsInv => OneRunPerApproval
    <2> SUFFICES ASSUME JobsInv, NEW j \in Job
                 PROVE  /\ approvals[j] =< 1
                        /\ Cardinality({a \in {1, 2} : <<j, a>> \in ran}) =< approvals[j]
      BY DEF OneRunPerApproval
    <2> DEFINE runs == {a \in {1, 2} : <<j, a>> \in ran}
    <2>1. approvals[j] = IF Approved(j) THEN 1 ELSE 0
      BY DEF JobsInv, RowsAgree
    <2>2. CASE runs = {}
      <3>1. Cardinality({}) = 0
        BY FS_EmptySet
      <3>2. Cardinality(runs) = 0
        BY <2>2, <3>1
      <3> QED BY <2>1, <3>2
    <2>3. CASE runs # {}
      <3>1. PICK a \in {1, 2} : <<j, a>> \in ran
        BY <2>3
      <3>2. client[<<j, a>>] # "idle"
        BY <3>1, Requests DEF JobsInv, Inv, ContractInv
      <3>3. Approved(j)
        BY <3>2 DEF JobsInv, CallsAgree
      <3>4. \A b \in runs : b = a
        <4>1. OnceAtMost
          BY RunsOnce DEF JobsInv
        <4>2. ASSUME NEW b \in runs PROVE b = a
          <5>1. <<j, b>> = <<j, a>>
            BY <3>1, <4>1, <4>2, Requests DEF OnceAtMost
          <5> QED BY <5>1
        <4> QED BY <4>2
      <3>5. runs = {a}
        BY <3>1, <3>4
      <3>6. Cardinality(runs) = 1
        BY <3>5, FS_Singleton
      <3> QED BY <2>1, <3>3, <3>6
    <2> QED BY <2>2, <2>3
  <1> QED BY JobsInvariant, <1>1, PTL

(* Nothing runs with a placeholder where a secret belongs. *)
THEOREM NothingRunsInPart == JobsSafetySpec => []RunsWhole
  <1>1. JobsInv => RunsWhole
    <2> SUFFICES ASSUME JobsInv, NEW r \in ran PROVE r[1] \in whole
      BY DEF RunsWhole
    <2>1. r \in Req /\ client[r] # "idle"
      BY DEF JobsInv, Inv, ContractTypeOK, ContractInv
    <2>2. r[1] \in Job /\ Approved(r[1])
      BY <2>1, Requests DEF JobsInv, CallsAgree
    <2> QED BY <2>2 DEF JobsInv, WholeInv
  <1> QED BY JobsInvariant, <1>1, PTL

(* A restart is answered once: nothing cut off is left unanswered, run     *)
(* again twice, or run again as a rerun.                                   *)
THEOREM RestartAnsweredOnce == JobsSafetySpec => []InterruptedIsAnswered
  <1>1. JobsInv => InterruptedIsAnswered
    BY DEF JobsInv, RerunInv, StartupOnly, LabelAnswered, FoundHasNoRerun, RerunIsOne, InterruptedIsAnswered
  <1> QED BY JobsInvariant, <1>1, PTL
-----------------------------------------------------------------------------
(* Jobs holding a lane in the helper are of different operations. *)
LanesApart ==
    /\ laneHeld \subseteq hostWork
    /\ \A j, k \in laneHeld : j # k => op[j] # op[k]

(* Every step keeps the lanes apart. *)
LEMMA LanesStep == JobsInv /\ LanesApart /\ [JobsNext]_jobVars => LanesApart'
  <1> SUFFICES ASSUME JobsInv, LanesApart, [JobsNext]_jobVars PROVE LanesApart'
    OBVIOUS
  <1>1. \A j \in hostWork : j \in Job /\ op'[j] = op[j]
    BY RowEffects DEF JobsInv, JobsTypeOK, HostInv, WorkAccounted, RowEffect, Approved, Active
  <1>2. ASSUME laneHeld' \subseteq laneHeld, laneHeld' \subseteq hostWork' PROVE LanesApart'
    BY <1>1, <1>2 DEF LanesApart
  <1>3. ASSUME UNCHANGED hostVars PROVE LanesApart'
    BY <1>2, <1>3 DEF hostVars, LanesApart
  <1>4. ASSUME NEW j \in Job, sendToHelper(j) \/ onQueued(j) \/ onStarted(j) \/ helperSettles(j) PROVE LanesApart'
    BY <1>3, <1>4 DEF sendToHelper, onQueued, onStarted, helperSettles, elsewhere
  <1>5. ASSUME NEW r \in Req, helperStarts(r) PROVE LanesApart'
    <2>1. /\ hostWork' = hostWork \union {r[1]} /\ laneHeld' = laneHeld \union {r[1]}
          /\ op' = op /\ \A k \in laneHeld : op[k] # op[r[1]]
      BY <1>5 DEF helperStarts, webSide, rowVars
    <2> QED BY <2>1 DEF LanesApart
  <1>6. ASSUME NEW r \in Req, NEW how \in Answer, helperFinishes(r, how) PROVE LanesApart'
    BY <1>2, <1>6 DEF helperFinishes, LanesApart
  <1>7. CASE helperDies
    BY <1>2, <1>7 DEF helperDies
  <1>8. ASSUME NEW j \in Job, rootTaskStops(j) \/ lingerCap(j) PROVE LanesApart'
    BY <1>2, <1>8 DEF rootTaskStops, lingerCap, LanesApart
  <1>9. ASSUME webDies \/ \E r \in Req : helperHandles(r) PROVE LanesApart'
    BY <1>3, <1>9 DEF webDies, helperHandles
  <1> QED BY <1>3, <1>4, <1>5, <1>6, <1>7, <1>8, <1>9, StepsElsewhere

(* "Try again with more time" never starts a second copy beside the first: *)
(* what ran out of time in a step has left nothing, and what the whole     *)
(* operation's limit ended holds the lane for as long as it goes on.       *)
THEOREM RetryAlone == JobsSafetySpec => []RetryNeverBeside
  <1>1. JobsInit => LanesApart
    BY DEF JobsInit, LanesApart
  <1>2. JobsInv /\ LanesApart => RetryNeverBeside
    <2> SUFFICES ASSUME JobsInv, LanesApart, NEW k \in hostWork, retryOf[k] \in hostWork PROVE FALSE
      BY DEF RetryNeverBeside
    <2> DEFINE j == retryOf[k]
    <2>1. j \in Job /\ k \in Job /\ j # NoJob
      BY DEF JobsInv, JobsTypeOK
    <2>2. /\ j # k /\ op[j] = op[k]
          /\ (timeout[j] = "operation" /\ ~op[k].rootTask) \/ timeout[j] = "step"
      BY <2>1 DEF JobsInv, RetryInv
    <2> HIDE DEF j
    <2>3. ASSUME NEW m \in Job, m \in hostWork, ~op[m].rootTask PROVE m \in laneHeld
      <3>1. Runs(m)
        BY <2>3 DEF JobsInv, HostInv, WorkAccounted
      <3> QED BY <3>1, Requests DEF Runs, JobsInv, HostInv, RunningHolds
    <2>4. CASE timeout[j] = "operation" /\ ~op[k].rootTask
      <3>1. j \in laneHeld /\ k \in laneHeld
        BY <2>1, <2>2, <2>3, <2>4 DEF j
      <3> QED BY <2>2, <3>1 DEF LanesApart
    <2>5. CASE timeout[j] = "step"
      <3>1. PICK a \in {1, 2} : outcome[<<j, a>>] = "stepTimeout"
        BY <2>1, <2>5 DEF JobsInv, RetryInv
      <3>2. <<j, a>> \in Req /\ <<j, a>>[1] = j
        BY <2>1, Requests
      <3> QED BY <3>1, <3>2 DEF JobsInv, HostInv, StepOutLeavesNothing, StepOut, j
    <2> QED BY <2>2, <2>4, <2>5
  <1> QED BY JobsInvariant, LanesStep, <1>1, <1>2, PTL DEF JobsSafetySpec
-----------------------------------------------------------------------------
(* A row as its users see it: it waits, is under way, or is as it says. *)
LEMMA LifeStates ==
    \A s \in JobState :
       /\ LifeState(s) = "none" <=> s = "none"
       /\ LifeState(s) = "awaiting" <=> s = "awaiting_approval"
       /\ LifeState(s) = "active" <=> s \in Active
       /\ s \in Terminal => LifeState(s) = s
  BY DEF JobState, LifeState, Active, Terminal

(* Every step of the job service is a step of the life it promises, or     *)
(* shows nothing of itself there.                                          *)
LEMMA StepsKeepLife == JobsInv /\ [JobsNext]_jobVars => [Life!LifeNext]_(Life!lifeVars)
  <1> SUFFICES ASSUME JobsInv, [JobsNext]_jobVars PROVE [Life!LifeNext]_(Life!lifeVars)
    OBVIOUS
  <1>t. JobsTypeOK /\ RowsAgree
    BY DEF JobsInv
  <1>s. state \in [Job -> JobState]
    BY <1>t DEF JobsTypeOK
  <1>l. LifeState("awaiting_approval") = "awaiting" /\ (\A s \in Terminal : LifeState(s) = s)
    BY LifeStates DEF JobState
  <1>0. ASSUME UNCHANGED <<web, state, label>> PROVE UNCHANGED Life!lifeVars
    BY <1>0 DEF Life!lifeVars
  <1>m. ASSUME NEW S \in SUBSET Job, NEW from, NEW to, web = "up", \A j \in S : LifeState(state[j]) = from,
               \A j \in Job : LifeState(state'[j]) = (IF j \in S THEN to ELSE LifeState(state[j])),
               UNCHANGED <<web, label>>
        PROVE  Life!Move(S, from, to)
    BY <1>m DEF Life!Move
  <1>1. ASSUME NEW j \in Job, NEW o, createJob(j, o) PROVE Life!Stage(j)
    <2>1. /\ web = "up" /\ state[j] = "none" /\ state' = [state EXCEPT ![j] = "awaiting_approval"]
          /\ UNCHANGED <<web, label>>
      BY <1>1 DEF createJob
    <2>2. LifeState(state[j]) = "none"
      BY <1>s, <2>1, LifeStates
    <2>3. \A k \in Job : LifeState(state'[k]) = IF k \in {j} THEN "awaiting" ELSE LifeState(state[k])
      BY <1>s, <1>l, <2>1
    <2> QED BY <1>m, <2>1, <2>2, <2>3 DEF Life!Stage
  <1>2. ASSUME NEW S, web = "up", Withdrawn(S) PROVE \E W \in SUBSET Job : Life!Withdraw(W)
    <2> DEFINE W == {j \in Job : j \in S /\ state[j] = "awaiting_approval"}
    <2>1. \A j \in W : LifeState(state[j]) = "awaiting"
      BY <1>l
    <2>2. \A j \in Job : LifeState(state'[j]) = IF j \in W THEN "cancelled" ELSE LifeState(state[j])
      BY <1>s, <1>l, <1>2 DEF Withdrawn, Terminal
    <2>3. UNCHANGED <<web, label>>
      BY <1>2 DEF Withdrawn
    <2>4. Life!Withdraw(W)
      BY <1>m, <1>2, <2>1, <2>2, <2>3 DEF Life!Withdraw
    <2> QED BY <2>4
  <1>3. ASSUME NEW c \in Caller, grantApproval(c) PROVE \E j \in Job : Life!Grant(j)
    <2> DEFINE j == approving[c].job
    <2>1. j \in Job
      BY <1>t, <1>3 DEF grantApproval, JobsTypeOK, Approval
    <2>2. /\ web = "up" /\ state[j] = "awaiting_approval" /\ state' = [state EXCEPT ![j] = "applying"]
          /\ UNCHANGED <<web, label>>
      BY <1>3 DEF grantApproval, transitionAllowed
    <2> HIDE DEF j
    <2>3. LifeState("applying") = "active"
      BY LifeStates DEF JobState, Active
    <2>4. LifeState(state[j]) = "awaiting"
      BY <1>l, <2>2
    <2>5. \A k \in Job : LifeState(state'[k]) = IF k \in {j} THEN "active" ELSE LifeState(state[k])
      BY <1>s, <2>1, <2>2, <2>3
    <2>6. Life!Grant(j)
      BY <1>m, <2>1, <2>2, <2>4, <2>5 DEF Life!Grant
    <2> QED BY <2>1, <2>6
  <1>4. ASSUME NEW j \in Job, applied(j) PROVE UNCHANGED Life!lifeVars
    <2>1. state[j] = "applying" /\ state' = [state EXCEPT ![j] = "verifying"] /\ UNCHANGED <<web, label>>
      BY <1>t, <1>4 DEF applied, settledWith, executing, elsewhere, RowsAgree
    <2>2. LifeState("applying") = "active" /\ LifeState("verifying") = "active"
      BY LifeStates DEF JobState, Active
    <2>3. \A k \in Job : LifeState(state'[k]) = LifeState(state[k])
      BY <1>s, <2>1, <2>2
    <2> QED BY <2>1, <2>3 DEF Life!lifeVars
  <1>5. ASSUME NEW j \in Job, NEW to \in {"completed", "failed"}, exec[j] # "none", state[j] \in Active,
               state' = [state EXCEPT ![j] = to], UNCHANGED <<web, label>>
        PROVE  Life!Move({j}, "active", to)
    <2>1. web = "up"
      BY <1>t, <1>5 DEF RowsAgree
    <2>2. LifeState(state[j]) = "active"
      BY <1>s, <1>5, LifeStates
    <2>3. to \in Terminal
      BY DEF Terminal
    <2>4. \A k \in Job : LifeState(state'[k]) = IF k \in {j} THEN to ELSE LifeState(state[k])
      BY <1>s, <1>l, <1>5, <2>3
    <2> QED BY <1>m, <1>5, <2>1, <2>2, <2>4
  <1>6. ASSUME NEW j \in Job, complete(j) PROVE Life!Complete(j)
    <2>1. state[j] \in Active /\ exec[j] # "none"
      BY <1>t, <1>6 DEF complete, RowsAgree, Active
    <2> QED BY <1>5, <1>6, <2>1 DEF complete, elsewhere, Life!Complete
  <1>7. ASSUME NEW j \in Job, fail(j) PROVE Life!Fail(j)
    <2>1. state[j] \in Active /\ exec[j] # "none"
      BY <1>t, <1>7 DEF fail, RowsAgree
    <2> QED BY <1>5, <1>7, <2>1 DEF fail, elsewhere, Life!Fail
  <1>8. CASE webDies
    BY <1>8 DEF webDies, rowVars, Life!Die, Life!LifeNext
  <1>9. CASE recoverInterruptedJobs
    <2> DEFINE N == {j \in cutOff : neverStarted(j)}
    <2>1. /\ web = "down" /\ web' = "recovering"
          /\ state' = [j \in Job |-> IF j \in cutOff THEN "failed" ELSE state[j]]
          /\ label' = [j \in Job |-> IF j \notin cutOff THEN label[j] ELSE IF neverStarted(j) THEN "neverStarted" ELSE "cutOff"]
      BY <1>9 DEF recoverInterruptedJobs
    <2>2. Life!activeJobs = cutOff
      BY <1>s, LifeStates DEF Life!activeJobs, cutOff
    <2>3. N \in SUBSET Job /\ N \subseteq cutOff
      BY DEF cutOff
    <2>4. \A j \in Job : LifeState(state'[j]) = IF j \in cutOff THEN "failed" ELSE LifeState(state[j])
      BY <1>l, <2>1 DEF Terminal
    <2>5. label' = [j \in Job |-> IF j \in N THEN "neverStarted" ELSE IF j \in cutOff THEN "cutOff" ELSE label[j]]
      BY <2>1
    <2>6. Life!Recover(N)
      BY <2>1, <2>2, <2>3, <2>4, <2>5 DEF Life!Recover
    <2> QED BY <2>3, <2>6 DEF Life!LifeNext
  <1>10. ASSUME NEW S \in SUBSET Job, planInterruptedReruns(S) PROVE Life!Back
    BY <1>10 DEF planInterruptedReruns, rowVars, Life!Back
  <1>11. ASSUME \/ \E j \in Job : cancelJob(j) \/ expireSecretJob(j)
                \/ \E S \in SUBSET Job : sweepStaleApprovals(S)
                \/ \E c \in Caller : refuseApproval(c)
                \/ pruneStagedSecrets
         PROVE  \E W \in SUBSET Job : Life!Withdraw(W)
    <2>1. web = "up" /\ \E S : Withdrawn(S)
      BY <1>11 DEF cancelJob, expireSecretJob, sweepStaleApprovals, refuseApproval, pruneStagedSecrets
    <2> QED BY <1>2, <2>1
  <1>12. ASSUME NEW j \in Job,
                \/ sendToHelper(j) \/ onQueued(j) \/ onStarted(j) \/ helperSettles(j) \/ waitForHelper(j)
                \/ helperBack(j) \/ helperFailed(j) \/ helperNotBack(j) \/ recordResult(j) \/ recordFailed(j) \/ persisted(j)
         PROVE  UNCHANGED <<web, state, label>>
    BY <1>12 DEF sendToHelper, onQueued, onStarted, helperSettles, waitForHelper, helperBack, helperFailed,
                 helperNotBack, recordResult, recordFailed, persisted, caught, elsewhere
  <1>13. ASSUME NEW j \in Job,
                \/ \E c \in Approver : checkApproval(c, j)
                \/ SecretsAge(j) \/ rootTaskStops(j) \/ lingerCap(j) \/ rerunNotStaged(j)
         PROVE  UNCHANGED <<web, state, label>>
    BY <1>13 DEF checkApproval, SecretsAge, rootTaskStops, lingerCap, rerunNotStaged, webSide, rowVars
  <1>14. ASSUME \/ \E r \in Req : helperHandles(r) \/ helperStarts(r) \/ \E how \in Answer : helperFinishes(r, how)
                \/ helperDies \/ UNCHANGED jobVars
         PROVE  UNCHANGED <<web, state, label>>
    BY <1>14 DEF helperHandles, helperStarts, helperFinishes, helperDies, webSide, rowVars, jobVars
  <1>15. ASSUME NEW j \in Job,
                \/ \E o \in Op : createOperationJob(j, o)
                \/ \E k \in Job : retryWithMoreTime(j, k) \/ stageRerun(j, k)
         PROVE  \E k \in Job : Life!Stage(k)
    BY <1>1, <1>15 DEF createOperationJob, retryWithMoreTime, stageRerun
  <1>16. CASE JobsNext
    BY <1>16, <1>0, <1>3, <1>4, <1>6, <1>7, <1>8, <1>9, <1>10, <1>11, <1>12, <1>13, <1>14, <1>15
       DEF JobsNext, JobStep, Life!LifeNext
  <1> QED BY <1>0, <1>14, <1>16

(* The job service keeps the life of a job that the scheduler, the flows   *)
(* and the pushes are built on.                                            *)
THEOREM JobsKeepLife == JobsSafetySpec => KeepsJobLife
  <1>1. JobsInit => Life!LifeInit
    <2>1. LifeState("none") = "none"
      BY LifeStates DEF JobState
    <2> QED BY <2>1 DEF JobsInit, Life!LifeInit
  <1> QED BY JobsInvariant, StepsKeepLife, <1>1, PTL DEF JobsSafetySpec, KeepsJobLife, Life!LifeSpec
=============================================================================
