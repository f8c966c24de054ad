-------------------------- MODULE AutomationProofs --------------------------
(***************************************************************************)
(* What starts work by itself: the flows, and the agents' queue.           *)
(*                                                                         *)
(* Flows, for any flows, steps, jobs and bounds: one step is under way at  *)
(* a time, and only what failed or never began is repeated, across         *)
(* retries, stops and the runs that go on after them.                      *)
(*                                                                         *)
(* Agents, for any agents, delegates, limits and bounds: no run reaches a  *)
(* runner twice, a follow-up reads final answers and is not lost, and the  *)
(* kill switch holds until agents are resumed.                             *)
(***************************************************************************)
EXTENDS FlowRuns, AgentRuns, FiniteSetTheorems, SequenceTheorems, WellFoundedInduction, TLAPS
-----------------------------------------------------------------------------
(* Flows.                                                                  *)

Follower == [flow : Flow, depth : Nat]

Runs ==
    [at : {"idle", "checking", "step", "approving", "waiting", "retrying"},
     by : {"none", "hand", "clock", "chain", "resume"},
     steps : Seq(StepRecord), i : Nat, attempt : Nat, jobIds : Seq(Job \union {None}), named : SUBSET Nat,
     problems : BOOLEAN, depth : Nat, then : Seq(Follower), resumed : BOOLEAN]

Results ==
    [kind : {"none", "running", "completed", "problems", "stopped", "lost", "skipped", "interrupted"},
     step : Nat, of : Nat, resumed : BOOLEAN]

JobsTyped ==
    /\ web \in {"up", "down", "recovering"}
    /\ state \in [Job -> {"none", "awaiting", "active", "completed", "failed", "cancelled"}]
    /\ label \in [Job -> {"none", "cutOff", "neverStarted"}]
    /\ interrupted \subseteq Job
    /\ story \in [Job -> Nat] /\ flowOf \in [Job -> Flow \union {None}] /\ stepOf \in [Job -> Nat]
    /\ storyOf \in [Flow -> Nat]
    /\ byHand \subseteq Job /\ lost \subseteq Job /\ still \subseteq Job
RowsTyped ==
    /\ flows \subseteq Flow /\ enabled \subseteq flows
    /\ steps \in [Flow -> Seq(StepRecord)] /\ trigger \in [Flow -> Flow \union {None}]
    /\ result \in [Flow -> Results] /\ lastJobIds \in [Flow -> Seq(Job \union {None})]
RunsTyped ==
    /\ run \in [Flow -> Runs] /\ cascades \subseteq Seq(Follower) \ {<<>>}
BoundsTyped == stories \in Nat /\ stops \in Nat /\ edits \in Nat

FlowsTypeOK == JobsTyped /\ RowsTyped /\ RunsTyped /\ BoundsTyped

(* Jobs are numbered in the order they are staged; those of a flow are of  *)
(* its stories, and a story is of one flow.                                *)
JobsOK ==
    /\ \A j \in Job : state[j] = "none" => story[j] = 0 /\ flowOf[j] = None
    /\ \A j, k \in Job : j < k /\ state[j] = "none" => state[k] = "none"
    /\ \A j \in Job : flowOf[j] # None => story[j] # 0 /\ story[j] =< storyOf[flowOf[j]]
    /\ \A j \in Job : story[j] # 0 => flowOf[j] # None
    /\ \A j, k \in Job : story[j] = story[k] => flowOf[j] = flowOf[k]
    /\ \A f \in Flow : storyOf[f] =< stories
    /\ \A j \in Job, f \in Flow : story[j] = storyOf[f] /\ story[j] # 0 => flowOf[j] = f
    /\ \A f, g \in Flow : storyOf[f] = storyOf[g] /\ storyOf[f] # 0 => f = g
    /\ \A j \in Job : label[j] # "none" \/ j \in still => state[j] = "failed"

(* A stop ends every run, and what it cut off is known while startup lasts. *)
StartupOK ==
    /\ web # "up" => \A f \in Flow : run[f].at = "idle"
    /\ web = "recovering" => \A j \in Job : state[j] # "active"
    /\ \A j \in interrupted : state[j] = "failed" /\ j \notin still

(* The jobs of a flow's latest story.                                      *)
Now(f) == {j \in Job : flowOf[j] = f /\ story[j] = storyOf[f]}
Repeatable(j) == state[j] \in {"failed", "cancelled"} /\ label[j] # "cutOff"
hasJob(f) == run[f].at \in {"approving", "waiting", "retrying"}

(* What a run in progress knows of its jobs.                               *)
RunOK(f) ==
    /\ run[f].at # "idle" =>
          /\ storyOf[f] # 0 /\ run[f].i # 0 /\ run[f].attempt # 0
          /\ ~hasJob(f) => Len(run[f].jobIds) + 1 = run[f].i /\ run[f].attempt = 1
          /\ hasJob(f) => Len(run[f].jobIds) = run[f].i /\ jobOf(f) \in Now(f) /\ stepOf[jobOf(f)] = run[f].i
          /\ run[f].at = "retrying" => run[f].attempt # 1
          /\ run[f].at \in {"approving", "waiting"} => label[jobOf(f)] = "none"
          /\ \A j \in Now(f) : stepOf[j] =< run[f].i
          /\ \A j \in Now(f) : stepOf[j] = run[f].i =>
                Repeatable(j) \/ (run[f].at \in {"approving", "waiting"} /\ j = jobOf(f))
          /\ \A j \in Now(f) \ byHand : going(j) => run[f].at = "waiting" /\ j = jobOf(f)
    /\ web = "up" => \A j \in Job \ (byHand \union lost) : flowOf[j] = f /\ state[j] = "active" =>
          run[f].at = "waiting" /\ j = jobOf(f)

(* What the record of a run in progress knows of them.                     *)
RowOK(f) == f \in flows /\ result[f].kind = "running" =>
    /\ run[f].at = "idle" => web # "up"
    /\ run[f].at = "checking" => run[f].by = "resume"
    /\ storyOf[f] # 0 /\ result[f].step # 0 /\ Len(lastJobIds[f]) = result[f].step
    /\ stoppedJob(f) \in Now(f) /\ stepOf[stoppedJob(f)] = result[f].step
    /\ \A j \in Now(f) : stepOf[j] =< result[f].step
    /\ \A j \in Now(f) : stepOf[j] = result[f].step => Repeatable(j) \/ j = stoppedJob(f)
    /\ \A j \in Now(f) \ byHand : going(j) => j = stoppedJob(f)

FlowsInv ==
    /\ FlowsTypeOK /\ JobsOK /\ StartupOK
    /\ \A f \in Flow : RunOK(f) /\ RowOK(f)
    /\ OneStepAtATime /\ RepeatsOnlyFailures

LEMMA JobsAreNumbers == Job \subseteq Nat
  BY FlowsAssumption

(* There is a next job to stage, as long as there is one.                  *)
LEMMA NextJob ==
    ASSUME NEW k \in Job, state[k] = "none"
    PROVE  newJob \in Job /\ state[newJob] = "none" /\ \A j \in Job : state[j] = "none" => newJob =< j
  <1> DEFINE T == {j \in Job : state[j] = "none"}
             R == OpToRel(<, Nat)
  <1>1. T \subseteq Nat /\ T # {}
    BY FlowsAssumption
  <1>2. IsWellFoundedOn(R, Nat)
    BY NatLessThanWellFounded
  <1>3. \A x, y \in Nat : <<y, x>> \in R <=> y < x
    BY DEF OpToRel
  <1> HIDE DEF T, R
  <1>4. PICK x \in T : \A y \in T : ~(<<y, x>> \in R)
    BY <1>1, <1>2, WFMin
  <1>5. ASSUME NEW y \in T
        PROVE  x =< y
    <2>1. x \in Nat /\ y \in Nat
      BY <1>1
    <2>2. ~(<<y, x>> \in R)
      BY <1>4
    <2>3. ~(y < x)
      BY <1>3, <2>1, <2>2, Zenon
    <2> QED BY <2>1, <2>3
  <1> QED BY <1>5 DEF newJob, T
-----------------------------------------------------------------------------
(* What every step leaves true of the jobs, but for staging, approving,    *)
(* stopping and startup.                                                   *)

JobStates == {"none", "awaiting", "active", "completed", "failed", "cancelled"}

(* Jobs go along their lives, and none but by hand becomes active.         *)
JobsGoOn ==
    /\ web = "up" /\ UNCHANGED <<web, label, interrupted, story, flowOf, stepOf, storyOf, stories>>
    /\ state' \in [Job -> JobStates]
    /\ \A j \in Job : /\ state[j] = "none" <=> state'[j] = "none"
                      /\ state[j] \in Ended => state'[j] = state[j]
    /\ \A j \in Job \ byHand' : state'[j] = "active" => state[j] = "active"
    /\ \A j \in Job : j \in still' => j \in still \/ (state[j] = "active" /\ state'[j] = "failed")
    /\ byHand \subseteq byHand' /\ lost \subseteq lost'
    /\ byHand' \subseteq Job /\ lost' \subseteq Job /\ still' \subseteq Job

(* To a flow: its jobs are the same, none is newly under way, and what may *)
(* be repeated still may.                                                  *)
Steady(f) ==
    /\ web = "up" /\ web' = "up" /\ storyOf'[f] = storyOf[f] /\ byHand \subseteq byHand' /\ lost \subseteq lost'
    /\ \A j \in Job : flowOf'[j] = f <=> flowOf[j] = f
    /\ \A j \in Job : flowOf[j] = f =>
          /\ story'[j] = story[j] /\ stepOf'[j] = stepOf[j] /\ label'[j] = label[j]
          /\ Repeatable(j) => Repeatable(j)'
          /\ j \notin byHand' => (state'[j] = "active" => state[j] = "active") /\ (going(j)' => going(j))

LEMMA AllSteady ==
    ASSUME FlowsInv, JobsGoOn, NEW f \in Flow
    PROVE  Steady(f)
  <1>1. \A j \in Job : Repeatable(j) => Repeatable(j)'
    BY DEF Repeatable, JobsGoOn, Ended
  <1>2. \A j \in Job \ byHand' : going(j)' => going(j)
    BY DEF going, JobsGoOn
  <1> QED BY <1>1, <1>2 DEF Steady, JobsGoOn

LEMMA RecordsStay ==
    ASSUME FlowsInv, JobsGoOn
    PROVE  JobsTyped' /\ JobsOK' /\ StartupOK' /\ OneStepAtATime' /\ RepeatsOnlyFailures'
  <1>1. JobsTyped /\ JobsOK /\ StartupOK /\ OneStepAtATime /\ RepeatsOnlyFailures
    BY DEF FlowsInv, FlowsTypeOK
  <1>2. JobsTyped'
    BY <1>1 DEF JobsTyped, JobsGoOn, JobStates
  <1>3. JobsOK'
    <2>1. \A j \in Job : label'[j] # "none" \/ j \in still' => state'[j] = "failed"
      BY <1>1 DEF JobsOK, JobsGoOn, Ended
    <2>2. \A j \in Job : state'[j] = "none" => story'[j] = 0 /\ flowOf'[j] = None
      BY <1>1 DEF JobsOK, JobsGoOn
    <2>3. \A j, k \in Job : j < k /\ state'[j] = "none" => state'[k] = "none"
      BY <1>1 DEF JobsOK, JobsGoOn
    <2> QED BY <1>1, <2>1, <2>2, <2>3 DEF JobsOK, JobsGoOn
  <1>4. OneStepAtATime'
    <2> SUFFICES ASSUME NEW j \in Job \ byHand', NEW k \in Job \ byHand',
                        j # k, flowOf[j] = flowOf[k], flowOf[j] # None, state'[k] = "active"
                 PROVE  IF story[j] = story[k] THEN ~going(j)' ELSE state'[j] = "active" => {j, k} \intersect lost' # {}
      BY DEF OneStepAtATime, JobsGoOn
    <2>1. j \notin byHand /\ k \notin byHand /\ state[k] = "active" /\ (going(j)' => going(j))
      BY DEF JobsGoOn, going
    <2>2. state'[j] = "active" => state[j] = "active"
      BY DEF JobsGoOn
    <2> QED BY <1>1, <2>1, <2>2 DEF OneStepAtATime, JobsGoOn
  <1>5. RepeatsOnlyFailures'
    BY <1>1 DEF RepeatsOnlyFailures, JobsGoOn, Ended
  <1>6. StartupOK'
    <2>1. interrupted \subseteq Job
      BY <1>1 DEF JobsTyped
    <2> SUFFICES ASSUME NEW j \in interrupted
                 PROVE  state'[j] = "failed" /\ j \notin still'
      BY DEF StartupOK, JobsGoOn
    <2>2. j \in Job /\ state[j] = "failed" /\ j \notin still
      BY <1>1, <2>1 DEF StartupOK
    <2> QED BY <2>2 DEF JobsGoOn, Ended
  <1> QED BY <1>2, <1>3, <1>4, <1>5, <1>6

(* Then what a run and its record know stays true.                         *)
LEMMA RunStays ==
    ASSUME FlowsInv, NEW f \in Flow, Steady(f), run'[f] = run[f]
    PROVE  RunOK(f)'
  <1>1. RunOK(f)
    BY DEF FlowsInv
  <1>2. Now(f)' = Now(f) /\ \A j \in Now(f) : j \in Job /\ flowOf[j] = f
    BY DEF Now, Steady
  <1>3. hasJob(f)' = hasJob(f) /\ jobOf(f)' = jobOf(f)
    BY DEF hasJob, jobOf
  <1>4. web' = "up" => \A j \in Job \ (byHand' \union lost') : flowOf'[j] = f /\ state'[j] = "active" =>
           run'[f].at = "waiting" /\ j = jobOf(f)'
    BY <1>1, <1>3 DEF RunOK, Steady
  <1>5. ASSUME run[f].at # "idle"
        PROVE  /\ hasJob(f) => stepOf'[jobOf(f)] = run[f].i
               /\ run[f].at \in {"approving", "waiting"} => label'[jobOf(f)] = "none"
               /\ \A j \in Now(f) : stepOf'[j] =< run[f].i
               /\ \A j \in Now(f) : stepOf'[j] = run[f].i =>
                     Repeatable(j)' \/ (run[f].at \in {"approving", "waiting"} /\ j = jobOf(f))
               /\ \A j \in Now(f) \ byHand' : going(j)' => run[f].at = "waiting" /\ j = jobOf(f)
    BY <1>1, <1>2, <1>5 DEF RunOK, Steady, hasJob
  <1>6. run'[f] = run[f] /\ storyOf'[f] = storyOf[f]
    BY DEF Steady
  <1> HIDE DEF Now, Repeatable, going, hasJob, jobOf
  <1> QED BY <1>1, <1>2, <1>3, <1>4, <1>5, <1>6 DEF RunOK

LEMMA RowStays ==
    ASSUME FlowsInv, NEW f \in Flow, Steady(f), flows' \subseteq flows,
           result'[f] = result[f], lastJobIds'[f] = lastJobIds[f],
           run'[f] = run[f] \/ run'[f].at \notin {"idle", "checking"}
    PROVE  RowOK(f)'
  <1>1. RowOK(f)
    BY DEF FlowsInv
  <1>2. Now(f)' = Now(f) /\ \A j \in Now(f) : j \in Job /\ flowOf[j] = f
    BY DEF Now, Steady
  <1>3. stoppedJob(f)' = stoppedJob(f)
    BY DEF stoppedJob
  <1> SUFFICES ASSUME f \in flows', result'[f].kind = "running"
               PROVE  RowOK(f)'
    BY DEF RowOK
  <1>4. f \in flows /\ result[f].kind = "running"
    OBVIOUS
  <1>5. /\ run'[f].at # "idle" /\ (run'[f].at = "checking" => run'[f].by = "resume")
    BY <1>1, <1>4 DEF RowOK, Steady
  <1>6. /\ stepOf'[stoppedJob(f)] = result[f].step
        /\ \A j \in Now(f) : stepOf'[j] =< result[f].step
        /\ \A j \in Now(f) : stepOf'[j] = result[f].step => Repeatable(j)' \/ j = stoppedJob(f)
        /\ \A j \in Now(f) \ byHand' : going(j)' => j = stoppedJob(f)
    BY <1>1, <1>2, <1>4 DEF RowOK, Steady
  <1>7. storyOf'[f] = storyOf[f]
    BY DEF Steady
  <1> QED BY <1>1, <1>2, <1>3, <1>4, <1>5, <1>6, <1>7 DEF RowOK
-----------------------------------------------------------------------------
(* A run's turns.                                                          *)

(* It is enough, then, to know what the step makes of one flow.            *)
LEMMA Onward ==
    ASSUME FlowsInv, JobsGoOn, RowsTyped', RunsTyped', BoundsTyped', flows' \subseteq flows,
           NEW f \in Flow, RunOK(f)', RowOK(f)',
           \A g \in Flow \ {f} : run'[g] = run[g] /\ result'[g] = result[g] /\ lastJobIds'[g] = lastJobIds[g]
    PROVE  FlowsInv'
  <1>1. \A g \in Flow : RunOK(g)'
    <2> SUFFICES ASSUME NEW g \in Flow, g # f PROVE RunOK(g)'
      OBVIOUS
    <2>1. run'[g] = run[g] /\ Steady(g)
      BY AllSteady
    <2> QED BY <2>1, RunStays
  <1>2. \A g \in Flow : RowOK(g)'
    <2> SUFFICES ASSUME NEW g \in Flow, g # f PROVE RowOK(g)'
      OBVIOUS
    <2>1. run'[g] = run[g] /\ result'[g] = result[g] /\ lastJobIds'[g] = lastJobIds[g] /\ Steady(g)
      BY AllSteady
    <2> QED BY <2>1, RowStays
  <1> QED BY <1>1, <1>2, RecordsStay DEF FlowsInv, FlowsTypeOK

(* Every row and run as it was.                                            *)
LEMMA RunsAsTheyWere ==
    ASSUME FlowsInv, JobsGoOn, RowsTyped', RunsTyped', BoundsTyped', flows' \subseteq flows,
           run' = run, result' = result, lastJobIds' = lastJobIds
    PROVE  FlowsInv'
  <1>1. \A g \in Flow : RunOK(g)' /\ RowOK(g)'
    BY AllSteady, RunStays, RowStays
  <1> QED BY <1>1, RecordsStay DEF FlowsInv, FlowsTypeOK

(* A run that is at no job, or whose job has ended, has none under way.    *)
LEMMA NothingGoing ==
    ASSUME FlowsInv, NEW f \in Flow, Steady(f), run[f].at # "idle",
           run[f].at = "waiting" => \A j \in Job : j = jobOf(f) => ~going(j)'
    PROVE  /\ \A j \in Now(f) \ byHand' : ~going(j)'
           /\ \A j \in Job \ (byHand' \union lost') : flowOf[j] = f => state'[j] # "active"
  <1>1. RunOK(f)
    BY DEF FlowsInv
  <1>2. \A j \in Now(f) : j \in Job /\ flowOf[j] = f
    BY DEF Now
  <1>3. \A j \in Now(f) \ byHand' : ~going(j)'
    BY <1>1, <1>2 DEF RunOK, Steady
  <1>4. ASSUME NEW j \in Job \ (byHand' \union lost'), flowOf[j] = f, state'[j] = "active"
        PROVE  FALSE
    <2>1. state[j] = "active" /\ j \notin byHand \union lost
      BY <1>4 DEF Steady
    <2>2. run[f].at = "waiting" /\ j = jobOf(f)
      BY <1>1, <1>4, <2>1 DEF RunOK, Steady
    <2> QED BY <1>4, <2>2 DEF going
  <1> QED BY <1>3, <1>4

(* It goes on to a step: the next one, or the one that was not staged.     *)
LEMMA ToStep ==
    ASSUME FlowsInv, NEW f \in Flow, Steady(f), run[f].at # "idle", run'[f].at = "step", run \in [Flow -> Runs],
           run'[f].attempt = 1, Len(run'[f].jobIds) + 1 = run'[f].i,
           run'[f].i = run[f].i + 1 \/ (run'[f].i = run[f].i /\ ~hasJob(f)),
           run[f].at = "waiting" => \A j \in Job : j = jobOf(f) => ~going(j)'
    PROVE  RunOK(f)'
  <1>1. RunOK(f) /\ run[f].i \in Nat
    BY DEF FlowsInv, Runs
  <1>2. Now(f)' = Now(f) /\ \A j \in Now(f) : j \in Job /\ flowOf[j] = f
    BY DEF Now, Steady
  <1>3. /\ \A j \in Now(f) \ byHand' : ~going(j)'
        /\ \A j \in Job \ (byHand' \union lost') : flowOf[j] = f => state'[j] # "active"
    BY NothingGoing
  <1>4. storyOf'[f] # 0 /\ run'[f].i # 0
    BY <1>1 DEF RunOK, Steady
  <1>5. \A j \in Now(f) : /\ stepOf'[j] = stepOf[j] /\ stepOf[j] =< run[f].i
                          /\ stepOf[j] \in Nat
                          /\ Repeatable(j) => Repeatable(j)'
    BY <1>1, <1>2 DEF RunOK, Steady, FlowsInv, FlowsTypeOK, JobsTyped
  <1>6. \A j \in Now(f) : stepOf'[j] =< run'[f].i
    BY <1>1, <1>5
  <1>7. ASSUME NEW j \in Now(f), stepOf'[j] = run'[f].i
        PROVE  Repeatable(j)'
    <2>1. run'[f].i = run[f].i /\ ~hasJob(f)
      BY <1>1, <1>5, <1>7
    <2>2. Repeatable(j)
      BY <1>1, <1>5, <1>7, <2>1 DEF RunOK, hasJob
    <2> QED BY <1>5, <2>2
  <1>8. ~hasJob(f)' /\ run'[f].at = "step" /\ run'[f].attempt = 1 /\ Len(run'[f].jobIds) + 1 = run'[f].i
    BY DEF hasJob
  <1>9. \A j \in Job \ (byHand' \union lost') : flowOf'[j] = f => state'[j] # "active"
    BY <1>3 DEF Steady
  <1> HIDE DEF Now, Repeatable, going, hasJob, jobOf
  <1> QED BY <1>2, <1>3, <1>4, <1>6, <1>7, <1>8, <1>9 DEF RunOK

(* It is over.                                                             *)
LEMMA ToIdle ==
    ASSUME FlowsInv, NEW f \in Flow, Steady(f), run[f].at # "idle", run'[f].at = "idle",
           run[f].at = "waiting" => state'[jobOf(f)] # "active" \/ jobOf(f) \in lost'
    PROVE  RunOK(f)'
  <1>1. RunOK(f)
    BY DEF FlowsInv
  <1>2. ASSUME NEW j \in Job \ (byHand' \union lost'), flowOf'[j] = f, state'[j] = "active"
        PROVE  FALSE
    <2>1. flowOf[j] = f /\ state[j] = "active" /\ j \notin byHand \union lost
      BY <1>2 DEF Steady
    <2>2. run[f].at = "waiting" /\ j = jobOf(f)
      BY <1>1, <2>1 DEF RunOK, Steady
    <2> QED BY <1>2, <2>2
  <1> QED BY <1>2 DEF RunOK
-----------------------------------------------------------------------------
(* Runs keep their type.                                                   *)

LEMMA NoRunTyped == NoRun \in Runs /\ NoRun.at = "idle"
  BY DEF NoRun, Runs

LEMMA RunSet ==
    ASSUME run \in [Flow -> Runs], NEW f \in Flow, NEW r \in Runs, run' = [run EXCEPT ![f] = r]
    PROVE  run' \in [Flow -> Runs] /\ run'[f] = r /\ \A g \in Flow \ {f} : run'[g] = run[g]
  OBVIOUS

LEMMA ToPlace ==
    ASSUME NEW r \in Runs, NEW a \in {"step", "waiting"}
    PROVE  LET q == [r EXCEPT !.at = a]
           IN  /\ q \in Runs /\ q.at = a /\ q.i = r.i /\ q.attempt = r.attempt /\ q.jobIds = r.jobIds
  BY DEF Runs

(* A record that says how a run ended, or nothing new.                     *)
LEMMA Marked ==
    ASSUME RowsTyped, NEW f \in Flow, NEW kind, NEW ids \in Seq(Job \union {None}), markFlowRun(f, kind, ids),
           kind \in {"completed", "problems", "stopped", "lost", "skipped", "interrupted"},
           UNCHANGED <<flows, enabled, steps, trigger>>
    PROVE  /\ RowsTyped'
           /\ f \in flows => result'[f].kind # "running"
           /\ \A g \in Flow \ {f} : result'[g] = result[g] /\ lastJobIds'[g] = lastJobIds[g]
  <1>1. [NoResult EXCEPT !.kind = kind] \in Results /\ [NoResult EXCEPT !.kind = kind].kind = kind
    BY DEF NoResult, Results
  <1> DEFINE R == [NoResult EXCEPT !.kind = kind]
  <1>2. result' = [result EXCEPT ![f] = IF f \in flows THEN R ELSE result[f]]
    BY DEF markFlowRun
  <1>3. R \in Results /\ R.kind = kind
    BY <1>1
  <1> HIDE DEF R
  <1>4. result' \in [Flow -> Results] /\ (f \in flows => result'[f] = R) /\ \A g \in Flow \ {f} : result'[g] = result[g]
    BY <1>2, <1>3 DEF RowsTyped
  <1>5. lastJobIds' \in [Flow -> Seq(Job \union {None})] /\ \A g \in Flow \ {f} : lastJobIds'[g] = lastJobIds[g]
    BY DEF RowsTyped, markFlowRun
  <1> QED BY <1>3, <1>4, <1>5 DEF RowsTyped

(* What was to follow goes on.                                             *)
LEMMA LetGo ==
    ASSUME RunsTyped, NEW f \in Flow, NEW q \in Seq(Follower), over(f, q)
    PROVE  RunsTyped' /\ run'[f].at = "idle" /\ \A g \in Flow \ {f} : run'[g] = run[g]
  <1>1. run' \in [Flow -> Runs] /\ run'[f] = NoRun /\ \A g \in Flow \ {f} : run'[g] = run[g]
    BY NoRunTyped, RunSet DEF over, RunsTyped
  <1>2. run[f].then \in Seq(Follower)
    BY DEF RunsTyped, Runs
  <1>3. q \o run[f].then \in Seq(Follower)
    BY <1>2
  <1>4. cascades' \subseteq Seq(Follower) \ {<<>>}
    BY <1>3 DEF over, RunsTyped
  <1> QED BY <1>1, <1>4, NoRunTyped DEF RunsTyped
-----------------------------------------------------------------------------
(* Edits, and people.                                                      *)

LEMMA UntouchedJobs ==
    ASSUME FlowsInv, web = "up", UNCHANGED lifeVars, lost \subseteq lost', lost' \subseteq Job,
           UNCHANGED <<interrupted, stories, story, flowOf, stepOf, storyOf, byHand, still>>
    PROVE  JobsGoOn
  BY DEF JobsGoOn, FlowsInv, FlowsTypeOK, JobsTyped, lifeVars, JobStates

LEMMA EditsKeep ==
    ASSUME FlowsInv, NEW f \in Flow,
           \/ pause(f) \/ remove(f)
           \/ \E g \in Flow \union {None} : setTrigger(f, g)
           \/ \E version \in Versions[f] : saveSteps(f, version)
    PROVE  FlowsInv'
  <1>1. RowsTyped /\ RunsTyped /\ BoundsTyped /\ JobsTyped
    BY DEF FlowsInv, FlowsTypeOK
  <1>2. /\ web = "up" /\ edits' = edits + 1 /\ UNCHANGED <<stories, stops>>
        /\ UNCHANGED <<lifeVars, result, lastJobIds, run, cascades, interrupted, recordVars>>
    BY DEF pause, remove, setTrigger, saveSteps, edit
  <1>3. JobsGoOn
    BY <1>1, <1>2, UntouchedJobs DEF recordVars, JobsTyped
  <1>4. RunsTyped' /\ BoundsTyped'
    BY <1>1, <1>2 DEF RunsTyped, BoundsTyped
  <1>5. RowsTyped' /\ flows' \subseteq flows
    <2>1. CASE pause(f)
      BY <1>1, <2>1 DEF pause, RowsTyped
    <2>2. CASE remove(f)
      BY <1>1, <2>2 DEF remove, RowsTyped
    <2>3. ASSUME NEW g \in Flow \union {None}, setTrigger(f, g)
          PROVE  RowsTyped' /\ flows' \subseteq flows
      BY <1>1, <2>3 DEF setTrigger, RowsTyped
    <2>4. ASSUME NEW version \in Versions[f], saveSteps(f, version)
          PROVE  RowsTyped' /\ flows' \subseteq flows
      <3>1. version \in Seq(StepRecord)
        BY FlowsAssumption
      <3> QED BY <1>1, <2>4, <3>1 DEF saveSteps, RowsTyped
    <2> QED BY <2>1, <2>2, <2>3, <2>4
  <1> QED BY <1>2, <1>3, <1>4, <1>5, RunsAsTheyWere

LEMMA JobsEnd ==
    ASSUME FlowsInv, NEW j \in Job, jobEnds(j) \/ approveByHand(j) \/ withdrawByHand(j)
    PROVE  FlowsInv'
  <1>1. RowsTyped /\ RunsTyped /\ BoundsTyped /\ JobsTyped
    BY DEF FlowsInv, FlowsTypeOK
  <1>2. UNCHANGED <<rowVars, run, cascades, interrupted, stories, story, flowOf, stepOf, storyOf, lost>>
    BY DEF jobEnds, approveByHand, withdrawByHand, boundVars, recordVars, edit
  <1>3. RowsTyped' /\ RunsTyped' /\ BoundsTyped'
    BY <1>1, <1>2 DEF RowsTyped, RunsTyped, BoundsTyped, rowVars, jobEnds, approveByHand, withdrawByHand,
                      boundVars, edit
  <1>4. JobsGoOn
    <2>1. CASE jobEnds(j)
      BY <1>1, <1>2, <2>1 DEF jobEnds, Complete, Fail, Move, JobsGoOn, JobsTyped, JobStates, Ended
    <2>2. CASE approveByHand(j)
      BY <1>1, <1>2, <2>2 DEF approveByHand, Grant, Move, JobsGoOn, JobsTyped, JobStates, Ended
    <2>3. CASE withdrawByHand(j)
      BY <1>1, <1>2, <2>3 DEF withdrawByHand, Withdraw, Move, JobsGoOn, JobsTyped, JobStates, Ended, recordVars
    <2> QED BY <2>1, <2>2, <2>3
  <1>5. flows' \subseteq flows /\ run' = run /\ result' = result /\ lastJobIds' = lastJobIds
    BY <1>2 DEF rowVars
  <1> QED BY <1>3, <1>4, <1>5, RunsAsTheyWere
-----------------------------------------------------------------------------
(* The steps of a run that change no job.                                  *)

LEMMA Typed ==
    ASSUME FlowsInv
    PROVE  RowsTyped /\ RunsTyped /\ BoundsTyped /\ JobsTyped /\ JobsOK /\ StartupOK
  BY DEF FlowsInv, FlowsTypeOK

LEMMA RunTyped ==
    ASSUME FlowsInv, NEW f \in Flow
    PROVE  /\ run[f] \in Runs /\ run[f].i \in Nat /\ run[f].attempt \in Nat /\ run[f].jobIds \in Seq(Job \union {None})
           /\ RunOK(f) /\ RowOK(f) /\ RowsTyped /\ RunsTyped /\ BoundsTyped /\ JobsTyped /\ JobsOK /\ StartupOK
  BY DEF FlowsInv, FlowsTypeOK, RunsTyped, Runs

(* A run that goes on, its records as they were.                           *)
LEMMA GoesOn ==
    ASSUME FlowsInv, JobsGoOn, NEW f \in Flow, NEW r \in Runs, goesOn(f, r), r.at \notin {"idle", "checking"},
           RunOK(f)', UNCHANGED <<rowVars, cascades, boundVars>>
    PROVE  FlowsInv'
  <1>1. RowsTyped' /\ BoundsTyped'
    BY RunTyped DEF RowsTyped, BoundsTyped, rowVars, boundVars
  <1>2. RunsTyped' /\ run'[f] = r /\ \A g \in Flow \ {f} : run'[g] = run[g]
    BY RunTyped, RunSet DEF RunsTyped, goesOn
  <1>3. flows' \subseteq flows /\ result' = result /\ lastJobIds' = lastJobIds
    BY DEF rowVars
  <1>4. RowOK(f)'
    BY <1>2, <1>3, AllSteady, RowStays
  <1> QED BY <1>1, <1>2, <1>3, <1>4, Onward

(* A run that is over, its record written.                                 *)
LEMMA IsOver ==
    ASSUME FlowsInv, JobsGoOn, NEW f \in Flow, NEW kind, NEW ids \in Seq(Job \union {None}), markFlowRun(f, kind, ids),
           kind \in {"completed", "problems", "stopped", "lost", "skipped", "interrupted"},
           NEW q \in Seq(Follower), over(f, q), run[f].at # "idle", UNCHANGED untouched,
           run[f].at = "waiting" => state'[jobOf(f)] # "active" \/ jobOf(f) \in lost'
    PROVE  FlowsInv'
  <1>1. /\ RowsTyped' /\ (f \in flows => result'[f].kind # "running")
        /\ \A g \in Flow \ {f} : result'[g] = result[g] /\ lastJobIds'[g] = lastJobIds[g]
    BY RunTyped, Marked DEF untouched
  <1>2. RunsTyped' /\ run'[f].at = "idle" /\ \A g \in Flow \ {f} : run'[g] = run[g]
    BY RunTyped, LetGo
  <1>3. BoundsTyped' /\ flows' = flows
    BY RunTyped DEF BoundsTyped, untouched, boundVars
  <1>4. RunOK(f)'
    BY <1>2, AllSteady, ToIdle
  <1>5. RowOK(f)'
    BY <1>1, <1>3 DEF RowOK
  <1> QED BY <1>1, <1>2, <1>3, <1>4, <1>5, Onward

LEMMA NotAtAJob ==
    ASSUME FlowsInv, NEW f \in Flow, at(f, "checking") \/ at(f, "step")
    PROVE  ~hasJob(f) /\ run[f].at # "idle" /\ run[f].at # "waiting" /\ web = "up"
           /\ Len(run[f].jobIds) + 1 = run[f].i /\ run[f].attempt = 1
  BY RunTyped DEF at, hasJob, RunOK

LEMMA AllowedKeeps ==
    ASSUME FlowsInv, NEW f \in Flow, stepsAllowed(f)
    PROVE  FlowsInv'
  <1>1. JobsGoOn
    BY UntouchedJobs, NotAtAJob, RunTyped DEF stepsAllowed, recordVars, boundVars, JobsTyped
  <1> DEFINE r == [run[f] EXCEPT !.at = "step"]
  <1>2. r \in Runs /\ r.at = "step" /\ r.i = run[f].i /\ r.attempt = run[f].attempt /\ r.jobIds = run[f].jobIds
    BY RunTyped, ToPlace
  <1>3. goesOn(f, r) /\ UNCHANGED <<rowVars, cascades, boundVars>>
    BY DEF stepsAllowed
  <1> HIDE DEF r
  <1>4. run'[f] = r
    BY <1>2, <1>3, RunTyped DEF goesOn, RunsTyped
  <1>5. RunOK(f)'
    BY <1>1, <1>2, <1>4, AllSteady, NotAtAJob, RunTyped, ToStep DEF stepsAllowed, RunsTyped
  <1> QED BY <1>1, <1>2, <1>3, <1>5, GoesOn

LEMMA RefusedKeeps ==
    ASSUME FlowsInv, NEW f \in Flow, stepsRefused(f)
    PROVE  FlowsInv'
  <1>1. JobsGoOn
    BY UntouchedJobs, NotAtAJob, RunTyped DEF stepsRefused, recordVars, boundVars, JobsTyped, untouched
  <1>2. over(f, <<>>) /\ <<>> \in Seq(Follower) /\ <<>> \in Seq(Job \union {None}) /\ UNCHANGED untouched
    BY DEF stepsRefused
  <1>3. run[f].at = "checking"
    BY DEF stepsRefused, at
  <1>4. CASE run[f].by # "hand"
    <2>1. \/ markFlowRun(f, "interrupted", run[f].jobIds)
          \/ markFlowRun(f, "skipped", <<>>)
      BY <1>4 DEF stepsRefused
    <2> QED BY <1>1, <1>2, <1>3, <2>1, RunTyped, IsOver
  <1>5. CASE run[f].by = "hand"
    <2>1. UNCHANGED <<result, lastJobIds>>
      BY <1>5 DEF stepsRefused
    <2>2. ~(f \in flows /\ result[f].kind = "running")
      BY <1>3, <1>5, RunTyped DEF RowOK
    <2>3. RunsTyped' /\ run'[f].at = "idle" /\ \A g \in Flow \ {f} : run'[g] = run[g]
      BY <1>2, RunTyped, LetGo
    <2>4. RowsTyped' /\ BoundsTyped' /\ flows' = flows
      BY <1>2, <2>1, RunTyped DEF RowsTyped, BoundsTyped, untouched, boundVars
    <2>5. RunOK(f)'
      BY <1>1, <1>3, <2>3, AllSteady, ToIdle
    <2>6. RowOK(f)'
      BY <2>1, <2>2, <2>4 DEF RowOK
    <2> QED BY <1>1, <2>1, <2>3, <2>4, <2>5, <2>6, Onward
  <1> QED BY <1>4, <1>5

LEMMA SkipKeeps ==
    ASSUME FlowsInv, NEW f \in Flow, skipStep(f)
    PROVE  FlowsInv'
  <1>1. JobsGoOn
    BY UntouchedJobs, NotAtAJob, RunTyped DEF skipStep, recordVars, boundVars, JobsTyped
  <1> DEFINE n == run[f].i + 1
             ids == Append(run[f].jobIds, None)
             r == [run[f] EXCEPT !.i = n, !.jobIds = ids]
  <1>2. ids \in Seq(Job \union {None}) /\ Len(ids) = Len(run[f].jobIds) + 1 /\ n \in Nat /\ n = run[f].i + 1
    BY RunTyped
  <1>3. goesOn(f, r) /\ UNCHANGED <<rowVars, cascades, boundVars>> /\ run[f].at = "step"
    BY DEF skipStep, at
  <1> HIDE DEF n, ids
  <1>4. r \in Runs /\ r.at = run[f].at /\ r.i = n /\ r.attempt = run[f].attempt /\ r.jobIds = ids
    <2>1. run[f] \in Runs
      BY RunTyped
    <2> QED BY <1>2, <2>1 DEF Runs
  <1> HIDE DEF r
  <1>5. run'[f] = r
    BY <1>3, <1>4, RunTyped DEF goesOn, RunsTyped
  <1>6. RunOK(f)'
    BY <1>1, <1>2, <1>3, <1>4, <1>5, AllSteady, NotAtAJob, RunTyped, ToStep DEF skipStep, RunsTyped
  <1> QED BY <1>1, <1>3, <1>4, <1>6, GoesOn

LEMMA StoppedKeeps ==
    ASSUME FlowsInv, JobsGoOn, NEW f \in Flow, stopped(f, "stopped") \/ stopped(f, "lost"),
           run[f].at # "idle", UNCHANGED untouched,
           run[f].at = "waiting" => state'[jobOf(f)] # "active" \/ jobOf(f) \in lost'
    PROVE  FlowsInv'
  <1>1. <<>> \in Seq(Follower) /\ over(f, <<>>)
    BY DEF stopped
  <1> QED BY <1>1, RunTyped, IsOver DEF stopped

LEMMA ConditionKeeps ==
    ASSUME FlowsInv, NEW f \in Flow, conditionFails(f)
    PROVE  FlowsInv'
  <1>1. JobsGoOn
    BY UntouchedJobs, NotAtAJob, RunTyped DEF conditionFails, recordVars, boundVars, JobsTyped, untouched
  <1> QED BY <1>1, NotAtAJob, StoppedKeeps DEF conditionFails

(* A step that could not start is passed over, or the run is over.         *)
LEMMA CouldNotStart ==
    ASSUME FlowsInv, JobsGoOn, NEW f \in Flow, NEW ids \in Seq(Job \union {None}), couldNotStart(f, ids),
           Len(ids) = run[f].i, run[f].at \notin {"idle", "waiting"}, UNCHANGED untouched
    PROVE  FlowsInv'
  <1>1. CASE step(f).keepGoing
    <2> DEFINE n == run[f].i + 1
               r == [run[f] EXCEPT !.at = "step", !.i = n, !.attempt = 1, !.jobIds = ids, !.problems = TRUE]
    <2>1. goesOn(f, r) /\ UNCHANGED <<rowVars, cascades, boundVars>>
      BY <1>1 DEF couldNotStart, untouched, rowVars
    <2>2. n \in Nat /\ n = run[f].i + 1
      BY RunTyped
    <2> HIDE DEF n
    <2>3. r \in Runs /\ r.at = "step" /\ r.i = n /\ r.attempt = 1 /\ r.jobIds = ids
      <3>1. run[f] \in Runs
        BY RunTyped
      <3> QED BY <2>2, <3>1 DEF Runs
    <2> HIDE DEF r
    <2>4. run'[f] = r
      BY <2>1, <2>3, RunTyped DEF goesOn, RunsTyped
    <2>5. RunOK(f)'
      BY <2>2, <2>3, <2>4, AllSteady, RunTyped, ToStep DEF RunsTyped
    <2> QED BY <2>1, <2>3, <2>5, GoesOn
  <1>2. CASE ~step(f).keepGoing
    <2>1. markFlowRun(f, "stopped", ids) /\ over(f, <<>>) /\ <<>> \in Seq(Follower)
      BY <1>2 DEF couldNotStart
    <2> QED BY <2>1, RunTyped, IsOver
  <1> QED BY <1>1, <1>2

LEMMA ToStageAt ==
    ASSUME FlowsInv, NEW f \in Flow, toStage(f)
    PROVE  /\ web = "up" /\ run[f].at \in {"retrying", "step"}
           /\ run[f].attempt = 1 => run[f].at = "step" /\ Len(run[f].jobIds) + 1 = run[f].i
           /\ run[f].attempt # 1 => run[f].at = "retrying" /\ Len(run[f].jobIds) = run[f].i
  BY RunTyped DEF toStage, at, RunOK, hasJob

LEMMA StageFailsKeeps ==
    ASSUME FlowsInv, NEW f \in Flow, stageFails(f)
    PROVE  FlowsInv'
  <1>1. JobsGoOn
    BY UntouchedJobs, ToStageAt, RunTyped DEF stageFails, recordVars, boundVars, JobsTyped, untouched
  <1>2. PICK ids : couldNotStart(f, ids) /\ ids = IF run[f].attempt = 1 THEN Append(run[f].jobIds, None) ELSE run[f].jobIds
    BY DEF stageFails
  <1>3. ids \in Seq(Job \union {None}) /\ Len(ids) = run[f].i
    BY <1>2, RunTyped, ToStageAt DEF stageFails
  <1>4. UNCHANGED untouched
    BY DEF stageFails
  <1> QED BY <1>1, <1>2, <1>3, <1>4, ToStageAt, CouldNotStart DEF stageFails

LEMMA AtAJob ==
    ASSUME FlowsInv, NEW f \in Flow, at(f, "approving") \/ at(f, "waiting")
    PROVE  /\ web = "up" /\ hasJob(f) /\ run[f].at \in {"approving", "waiting"}
           /\ Len(run[f].jobIds) = run[f].i /\ jobOf(f) \in Now(f) /\ jobOf(f) \in Job /\ flowOf[jobOf(f)] = f
           /\ stepOf[jobOf(f)] = run[f].i /\ label[jobOf(f)] = "none" /\ run[f].attempt # 0
  BY RunTyped DEF at, hasJob, RunOK, Now

LEMMA ApproveFailsKeeps ==
    ASSUME FlowsInv, NEW f \in Flow, approveFails(f)
    PROVE  FlowsInv'
  <1>1. /\ web = "up" /\ Len(run[f].jobIds) = run[f].i /\ run[f].at = "approving"
    BY AtAJob DEF approveFails, at
  <1>2. /\ UNCHANGED untouched /\ couldNotStart(f, run[f].jobIds)
        /\ UNCHANGED <<story, flowOf, stepOf, storyOf, byHand, lost, still>>
    BY DEF approveFails
  <1>3. JobsGoOn
    <2>1. CASE UNCHANGED lifeVars
      BY <1>1, <1>2, <2>1, UntouchedJobs, RunTyped DEF untouched, boundVars, JobsTyped
    <2>2. CASE Withdraw({jobOf(f)})
      BY <1>1, <1>2, <2>2, RunTyped DEF Withdraw, Move, JobsGoOn, JobsTyped, JobStates, Ended, untouched, boundVars
    <2> QED BY <2>1, <2>2 DEF approveFails
  <1> QED BY <1>1, <1>2, <1>3, RunTyped, CouldNotStart

LEMMA WaitingUntouched ==
    ASSUME FlowsInv, NEW f \in Flow,
           stepCompleted(f) \/ loseSight(f) \/ stepLeftRunning(f) \/ retryStep(f) \/ stepFailed(f)
    PROVE  JobsGoOn /\ at(f, "waiting")
  <1>1. at(f, "waiting")
    BY DEF stepCompleted, loseSight, stepLeftRunning, retryStep, stepFailed
  <1>2. /\ UNCHANGED <<lifeVars, interrupted, stories, story, flowOf, stepOf, storyOf, byHand, still>>
        /\ lost' = lost \/ lost' = lost \union {jobOf(f)}
    BY DEF stepCompleted, loseSight, stepLeftRunning, retryStep, stepFailed, recordVars, boundVars, untouched
  <1> QED BY <1>1, <1>2, AtAJob, UntouchedJobs, RunTyped DEF JobsTyped

(* A job that ended, and is not still running, is not under way.           *)
LEMMA NotGoing ==
    ASSUME FlowsInv, UNCHANGED <<state, still>>, NEW f \in Flow, state[jobOf(f)] # "active", jobOf(f) \notin still
    PROVE  \A j \in Job : j = jobOf(f) => ~going(j)'
  BY DEF going

LEMMA CompletedKeeps ==
    ASSUME FlowsInv, NEW f \in Flow, stepCompleted(f)
    PROVE  FlowsInv'
  <1>1. JobsGoOn /\ at(f, "waiting") /\ jobOf(f) \in Job /\ Len(run[f].jobIds) = run[f].i
    BY WaitingUntouched, AtAJob
  <1>2. jobOf(f) \notin still /\ state[jobOf(f)] # "active"
    BY <1>1, RunTyped DEF JobsOK, stepCompleted
  <1>3. \A j \in Job : j = jobOf(f) => ~going(j)'
    BY <1>2, NotGoing DEF stepCompleted, lifeVars, recordVars
  <1> DEFINE n == run[f].i + 1
             S == run[f].named \union {run[f].i}
             r == [run[f] EXCEPT !.at = "step", !.i = n, !.attempt = 1, !.named = S]
  <1>4. goesOn(f, r) /\ UNCHANGED <<rowVars, cascades, boundVars>> /\ run[f].at # "idle"
    BY <1>1 DEF stepCompleted, at
  <1>5. n \in Nat /\ n = run[f].i + 1 /\ S \in SUBSET Nat /\ run[f] \in Runs
    BY RunTyped DEF Runs
  <1> HIDE DEF n, S
  <1>6. r \in Runs /\ r.at = "step" /\ r.i = n /\ r.attempt = 1 /\ r.jobIds = run[f].jobIds
    BY <1>5 DEF Runs
  <1> HIDE DEF r
  <1>7. run'[f] = r
    BY <1>4, <1>6, RunTyped DEF goesOn, RunsTyped
  <1>8. RunOK(f)'
    BY <1>1, <1>3, <1>4, <1>5, <1>6, <1>7, AllSteady, RunTyped, ToStep DEF RunsTyped
  <1> QED BY <1>1, <1>4, <1>6, <1>8, GoesOn

LEMMA LoseSightKeeps ==
    ASSUME FlowsInv, NEW f \in Flow, loseSight(f)
    PROVE  FlowsInv'
  <1>1. JobsGoOn /\ at(f, "waiting")
    BY WaitingUntouched
  <1>2. stopped(f, "lost") /\ UNCHANGED untouched /\ jobOf(f) \in lost' /\ run[f].at # "idle"
    BY <1>1 DEF loseSight, at
  <1> QED BY <1>1, <1>2, StoppedKeeps

LEMMA LeftRunningKeeps ==
    ASSUME FlowsInv, NEW f \in Flow, stepLeftRunning(f)
    PROVE  FlowsInv'
  <1>1. JobsGoOn /\ at(f, "waiting")
    BY WaitingUntouched
  <1>2. stopped(f, "lost") /\ UNCHANGED untouched /\ state'[jobOf(f)] # "active" /\ run[f].at # "idle"
    BY <1>1 DEF stepLeftRunning, at, lifeVars
  <1> QED BY <1>1, <1>2, StoppedKeeps

LEMMA FailedKeeps ==
    ASSUME FlowsInv, NEW f \in Flow, stepFailed(f)
    PROVE  FlowsInv'
  <1>1. /\ JobsGoOn /\ at(f, "waiting") /\ jobOf(f) \in Job /\ Len(run[f].jobIds) = run[f].i
        /\ run[f].at # "idle" /\ UNCHANGED untouched
    BY WaitingUntouched, AtAJob DEF stepFailed, at
  <1>2. jobOf(f) \notin still /\ state[jobOf(f)] # "active" /\ UNCHANGED <<state, still>>
    BY DEF stepFailed, mayStillBeRunning, lifeVars, recordVars
  <1>3. \A j \in Job : j = jobOf(f) => ~going(j)'
    BY <1>2, NotGoing
  <1>4. CASE step(f).keepGoing
    <2> DEFINE n == run[f].i + 1
               r == [run[f] EXCEPT !.at = "step", !.i = n, !.attempt = 1, !.problems = TRUE]
    <2>1. goesOn(f, r) /\ UNCHANGED <<rowVars, cascades, boundVars>>
      BY <1>1, <1>4 DEF stepFailed, untouched, rowVars
    <2>2. n \in Nat /\ n = run[f].i + 1 /\ run[f] \in Runs
      BY RunTyped
    <2> HIDE DEF n
    <2>3. r \in Runs /\ r.at = "step" /\ r.i = n /\ r.attempt = 1 /\ r.jobIds = run[f].jobIds
      BY <2>2 DEF Runs
    <2> HIDE DEF r
    <2>4. run'[f] = r
      BY <2>1, <2>3, RunTyped DEF goesOn, RunsTyped
    <2>5. RunOK(f)'
      BY <1>1, <1>3, <2>2, <2>3, <2>4, AllSteady, RunTyped, ToStep DEF RunsTyped
    <2> QED BY <1>1, <2>1, <2>3, <2>5, GoesOn
  <1>5. CASE ~step(f).keepGoing
    <2>1. stopped(f, "stopped")
      BY <1>5 DEF stepFailed
    <2> QED BY <1>1, <1>2, <2>1, StoppedKeeps
  <1> QED BY <1>4, <1>5

(* What is retried failed, and nothing of it is under way.                 *)
LEMMA RetryKeeps ==
    ASSUME FlowsInv, NEW f \in Flow, retryStep(f)
    PROVE  FlowsInv'
  <1>1. JobsGoOn /\ at(f, "waiting")
    BY WaitingUntouched
  <1>2. /\ state[jobOf(f)] = "failed" /\ jobOf(f) \notin still /\ UNCHANGED <<state, label, still, stepOf>>
        /\ run[f].at = "waiting"
    BY <1>1 DEF retryStep, mayStillBeRunning, lifeVars, recordVars, at
  <1>3. /\ Len(run[f].jobIds) = run[f].i /\ jobOf(f) \in Now(f) /\ jobOf(f) \in Job
        /\ stepOf[jobOf(f)] = run[f].i /\ label[jobOf(f)] = "none" /\ run[f].attempt # 0
    BY <1>1, AtAJob
  <1> DEFINE n == run[f].attempt + 1
             r == [run[f] EXCEPT !.at = "retrying", !.attempt = n]
  <1>4. goesOn(f, r) /\ UNCHANGED <<rowVars, cascades, boundVars>>
    BY DEF retryStep
  <1>5. n \in Nat /\ n # 0 /\ n # 1 /\ run[f] \in Runs
    BY <1>3, RunTyped
  <1> HIDE DEF n
  <1>6. r \in Runs /\ r.at = "retrying" /\ r.i = run[f].i /\ r.attempt = n /\ r.jobIds = run[f].jobIds
    BY <1>5 DEF Runs
  <1> HIDE DEF r
  <1>7. run'[f] = r
    BY <1>4, <1>6, RunTyped DEF goesOn, RunsTyped
  <1>8. RunOK(f)'
    <2>0. Steady(f)
      BY <1>1, AllSteady
    <2>1. Steady(f) /\ Now(f)' = Now(f)
      BY <2>0 DEF Now, Steady
    <2>2. \A j \in Job : j = jobOf(f) => ~going(j)'
      BY <1>2, NotGoing
    <2>3. /\ \A j \in Now(f) \ byHand' : ~going(j)'
          /\ \A j \in Job \ (byHand' \union lost') : flowOf[j] = f => state'[j] # "active"
      BY <1>2, <2>1, <2>2, NothingGoing
    <2>4. \A j \in Job \ (byHand' \union lost') : flowOf'[j] = f => state'[j] # "active"
      BY <2>1, <2>3 DEF Steady
    <2>5. jobOf(f)' = jobOf(f) /\ hasJob(f)' /\ run'[f].at = "retrying" /\ run'[f].i = run[f].i
      BY <1>6, <1>7 DEF jobOf, hasJob
    <2>6. Repeatable(jobOf(f))
      BY <1>2, <1>3 DEF Repeatable
    <2>7. \A j \in Now(f) : /\ stepOf'[j] =< run[f].i
                            /\ stepOf'[j] = run[f].i => Repeatable(j)
      BY <1>2, <2>6, RunTyped DEF RunOK
    <2>8. \A j \in Now(f) : Repeatable(j) => Repeatable(j)'
      BY <2>1 DEF Steady, Now
    <2>9. storyOf'[f] # 0 /\ run[f].i # 0 /\ run'[f].attempt # 0 /\ run'[f].attempt # 1
          /\ Len(run'[f].jobIds) = run[f].i /\ stepOf'[jobOf(f)] = run[f].i
      BY <1>2, <1>3, <1>5, <1>6, <1>7, <2>1, RunTyped DEF RunOK, Steady
    <2> HIDE DEF Now, Repeatable, going, hasJob, jobOf
    <2> QED BY <1>3, <2>1, <2>3, <2>4, <2>5, <2>7, <2>8, <2>9 DEF RunOK
  <1> QED BY <1>1, <1>4, <1>6, <1>8, GoesOn

LEMMA FollowersListed ==
    ASSUME FlowsInv, NEW f \in Flow, NEW q \in orders(followers(f, run[f].depth))
    PROVE  q \in Seq(Follower)
  <1> DEFINE d == run[f].depth
             S == followers(f, d)
             H == {g \in enabled : trigger[g] = f}
             F == [g \in H |-> [flow |-> g, depth |-> d + 1]]
  <1>1. d \in Nat /\ H \subseteq Flow
    BY RunTyped DEF Runs, RowsTyped
  <1>2. S \subseteq Follower
    BY <1>1 DEF followers, Follower
  <1>3. IsFiniteSet(S)
    <2>1. IsFiniteSet(H)
      BY <1>1, FS_Subset, FlowsAssumption
    <2>2. CASE d >= ChainLimit
      BY <2>2, FS_EmptySet DEF followers
    <2>3. CASE ~(d >= ChainLimit)
      <3>1. S = {[flow |-> g, depth |-> d + 1] : g \in H}
        BY <2>3 DEF followers
      <3>2. F \in Surjection(H, S)
        BY <3>1 DEF Surjection
      <3> HIDE DEF S, H, F
      <3> QED BY <2>1, <3>2, FS_Surjection
    <2> QED BY <2>2, <2>3
  <1>4. Cardinality(S) \in Nat
    BY <1>3, FS_CardinalityType
  <1>5. q \in [1..Cardinality(S) -> S]
    BY DEF orders
  <1> HIDE DEF S
  <1> QED BY <1>2, <1>4, <1>5

LEMMA CompleteKeeps ==
    ASSUME FlowsInv, NEW f \in Flow, complete(f)
    PROVE  FlowsInv'
  <1>1. JobsGoOn
    BY UntouchedJobs, NotAtAJob, RunTyped DEF complete, recordVars, boundVars, JobsTyped, untouched
  <1>2. PICK q \in orders(followers(f, run[f].depth)) : over(f, q)
    BY DEF complete
  <1>3. q \in Seq(Follower) /\ UNCHANGED untouched /\ run[f].at = "step"
    BY FollowersListed DEF complete, at
  <1>4. markFlowRun(f, "problems", run[f].jobIds) \/ markFlowRun(f, "completed", run[f].jobIds)
    BY DEF complete
  <1> QED BY <1>1, <1>2, <1>3, <1>4, RunTyped, IsOver
-----------------------------------------------------------------------------
(* A step's job is staged, and approved.                                   *)

(* What a step makes of one flow is enough, whatever it does to its jobs.  *)
LEMMA OnwardWith ==
    ASSUME FlowsInv, NEW f \in Flow, \A g \in Flow \ {f} : Steady(g), flows' = flows,
           JobsTyped', RowsTyped', RunsTyped', BoundsTyped', JobsOK', StartupOK', OneStepAtATime', RepeatsOnlyFailures',
           RunOK(f)', RowOK(f)',
           \A g \in Flow \ {f} : run'[g] = run[g] /\ result'[g] = result[g] /\ lastJobIds'[g] = lastJobIds[g]
    PROVE  FlowsInv'
  <1>1. \A g \in Flow \ {f} : RunOK(g)' /\ RowOK(g)'
    <2> SUFFICES ASSUME NEW g \in Flow \ {f} PROVE RunOK(g)' /\ RowOK(g)'
      OBVIOUS
    <2>1. run'[g] = run[g] /\ result'[g] = result[g] /\ lastJobIds'[g] = lastJobIds[g] /\ Steady(g)
      OBVIOUS
    <2> QED BY <2>1, RunStays, RowStays
  <1> QED BY <1>1 DEF FlowsInv, FlowsTypeOK

(* The job that is approved is the one the record names.                   *)
LEMMA ApproveKeeps ==
    ASSUME FlowsInv, NEW f \in Flow, approveStep(f)
    PROVE  FlowsInv'
  <1>1. PICK m : m = jobOf(f)
    OBVIOUS
  <1>2. /\ web = "up" /\ run[f].at = "approving" /\ Len(run[f].jobIds) = run[f].i /\ m \in Now(f) /\ m \in Job
        /\ flowOf[m] = f /\ story[m] = storyOf[f] /\ stepOf[m] = run[f].i /\ label[m] = "none"
    BY <1>1, AtAJob DEF approveStep, at, Now
  <1>3. /\ Grant(m) /\ UNCHANGED <<rowVars, cascades, interrupted, boundVars, recordVars>>
    BY <1>1 DEF approveStep
  <1>4. /\ web' = "up" /\ state[m] = "awaiting" /\ label' = label
        /\ state' = [j \in Job |-> IF j = m THEN "active" ELSE state[j]]
    BY <1>3, <1>2 DEF Grant, Move
  <1>5. UNCHANGED <<flows, enabled, steps, trigger, result, lastJobIds, interrupted, stories, stops, edits,
                    story, flowOf, stepOf, storyOf, byHand, lost, still>>
    BY <1>3 DEF rowVars, boundVars, recordVars
  <1>6. /\ \A j \in Job : Repeatable(j) => Repeatable(j)'
        /\ \A j \in Job \ {m} : going(j)' => going(j)
        /\ \A j \in Job \ {m} : state'[j] = "active" => state[j] = "active"
    BY <1>4, <1>5 DEF Repeatable, going
  <1>7. ~going(m)
    BY <1>2, <1>4, RunTyped DEF going, JobsOK
  <1>8. \A g \in Flow \ {f} : Steady(g)
    BY <1>2, <1>4, <1>5, <1>6 DEF Steady
  <1>9. Now(f)' = Now(f) /\ \A j \in Now(f) : j \in Job /\ flowOf[j] = f
    BY <1>5 DEF Now
  <1>10. RunOK(f)
    BY RunTyped
  <1>11. /\ \A j \in Now(f) \ byHand : ~going(j)
         /\ \A j \in Job \ (byHand \union lost) : flowOf[j] = f => state[j] # "active"
    BY <1>2, <1>10 DEF RunOK
  <1>12. JobsTyped' /\ RowsTyped' /\ BoundsTyped' /\ StartupOK'
    <2>1. JobsTyped' /\ RowsTyped' /\ BoundsTyped'
      BY <1>4, <1>5, RunTyped DEF JobsTyped, RowsTyped, BoundsTyped
    <2>2. StartupOK'
      BY <1>4, <1>5, RunTyped DEF StartupOK, JobsTyped
    <2> QED BY <2>1, <2>2
  <1>13. JobsOK'
    <2>1. \A j \in Job : state'[j] = "none" <=> state[j] = "none"
      BY <1>4
    <2>2. \A j \in Job : label'[j] # "none" \/ j \in still' => state'[j] = "failed"
      BY <1>4, <1>5, RunTyped DEF JobsOK
    <2> QED BY <1>5, <2>1, <2>2, RunTyped DEF JobsOK
  <1>14. OneStepAtATime'
    <2> SUFFICES ASSUME NEW j \in Job \ byHand, NEW k \in Job \ byHand,
                        j # k, flowOf[j] = flowOf[k], flowOf[j] # None, state'[k] = "active"
                 PROVE  IF story[j] = story[k] THEN ~going(j)' ELSE state'[j] = "active" => {j, k} \intersect lost # {}
      BY <1>5 DEF OneStepAtATime
    <2>1. CASE j # m /\ k # m
      <3>1. state[k] = "active" /\ (going(j)' => going(j)) /\ (state'[j] = "active" => state[j] = "active")
        BY <1>6, <2>1
      <3> QED BY <3>1 DEF OneStepAtATime, FlowsInv
    <2>2. CASE k = m
      <3>1. j \in Job \ {m} /\ flowOf[j] = f
        BY <1>2, <2>2
      <3>2. story[j] = story[k] => j \in Now(f)
        BY <1>2, <2>2, <3>1 DEF Now
      <3>3. (going(j)' => going(j)) /\ (state'[j] = "active" => state[j] = "active")
        BY <1>6, <3>1
      <3> QED BY <1>11, <3>1, <3>2, <3>3
    <2>3. CASE j = m /\ k # m
      <3>1. state[k] = "active" /\ flowOf[k] = f
        BY <1>2, <1>6, <2>3
      <3>2. story[j] # story[k]
        BY <1>2, <1>11, <2>3, <3>1 DEF Now, going
      <3>3. k \in lost
        BY <1>11, <3>1
      <3> QED BY <3>2, <3>3
    <2> QED BY <2>1, <2>2, <2>3
  <1>15. RepeatsOnlyFailures'
    <2>1. \A j \in Job : state[j] \in {"failed", "cancelled"} => state'[j] = state[j]
      BY <1>4
    <2> QED BY <1>4, <1>5, <2>1 DEF RepeatsOnlyFailures, FlowsInv
  <1> DEFINE r == [run[f] EXCEPT !.at = "waiting"]
  <1>16. r \in Runs /\ r.at = "waiting" /\ r.i = run[f].i /\ r.attempt = run[f].attempt /\ r.jobIds = run[f].jobIds
    BY RunTyped, ToPlace
  <1>17. run' = [run EXCEPT ![f] = r]
    BY DEF approveStep, goesOn
  <1> HIDE DEF r
  <1>18. RunsTyped' /\ run'[f] = r /\ \A g \in Flow \ {f} : run'[g] = run[g]
    BY <1>3, <1>16, <1>17, RunTyped, RunSet DEF RunsTyped
  <1>19. RunOK(f)'
    <2>1. jobOf(f)' = m /\ hasJob(f)' /\ run'[f].at = "waiting" /\ run'[f].i = run[f].i
          /\ run'[f].attempt = run[f].attempt /\ Len(run'[f].jobIds) = run[f].i
      BY <1>1, <1>2, <1>16, <1>18 DEF jobOf, hasJob
    <2>2. /\ storyOf[f] # 0 /\ run[f].i # 0 /\ run[f].attempt # 0 /\ \A j \in Now(f) : stepOf[j] =< run[f].i
          /\ \A j \in Now(f) : stepOf[j] = run[f].i => Repeatable(j) \/ j = m
      BY <1>1, <1>2, <1>10 DEF RunOK
    <2>3. \A j \in Now(f) : stepOf[j] = run[f].i => Repeatable(j)' \/ j = m
      BY <1>6, <1>9, <2>2
    <2>4. \A j \in Now(f) \ byHand : going(j)' => j = m
      BY <1>6, <1>9, <1>11
    <2>5. \A j \in Job \ (byHand \union lost) : flowOf[j] = f /\ state'[j] = "active" => j = m
      BY <1>6, <1>11
    <2> HIDE DEF Now, Repeatable, going, hasJob, jobOf
    <2> QED BY <1>2, <1>4, <1>5, <1>9, <2>1, <2>2, <2>3, <2>4, <2>5 DEF RunOK
  <1>20. RowOK(f)'
    <2> SUFFICES ASSUME f \in flows, result[f].kind = "running"
                 PROVE  RowOK(f)'
      BY <1>5 DEF RowOK
    <2>1. RowOK(f)
      BY RunTyped
    <2>2. PICK p : p = stoppedJob(f)
      OBVIOUS
    <2>3. /\ p \in Now(f) /\ stepOf[p] = result[f].step
          /\ \A j \in Now(f) : stepOf[j] =< result[f].step
          /\ \A j \in Now(f) : stepOf[j] = result[f].step => Repeatable(j) \/ j = p
          /\ \A j \in Now(f) \ byHand : going(j) => j = p
          /\ storyOf[f] # 0 /\ result[f].step # 0 /\ Len(lastJobIds[f]) = result[f].step
      BY <2>1, <2>2 DEF RowOK
    <2>4. m = p
      <3>1. stepOf[p] =< run[f].i /\ run[f].i =< stepOf[p]
        BY <1>2, <1>10, <2>3 DEF RunOK
      <3>2. stepOf[p] \in Nat /\ run[f].i \in Nat
        BY <1>9, <2>3, RunTyped DEF JobsTyped
      <3>3. stepOf[m] = result[f].step
        BY <1>2, <2>3, <3>1, <3>2
      <3>4. ~Repeatable(m)
        BY <1>4 DEF Repeatable
      <3> QED BY <1>2, <2>3, <3>3, <3>4
    <2>5. stoppedJob(f)' = p
      BY <1>5, <2>2 DEF stoppedJob
    <2>6. \A j \in Now(f) : stepOf[j] = result[f].step => Repeatable(j)' \/ j = p
      BY <1>6, <1>9, <2>3
    <2>7. \A j \in Now(f) \ byHand : going(j)' => j = p
      BY <1>6, <1>9, <1>11, <2>4
    <2>8. run'[f].at = "waiting"
      BY <1>16, <1>18
    <2> HIDE DEF Now, Repeatable, going, stoppedJob
    <2> QED BY <1>5, <1>9, <2>3, <2>5, <2>6, <2>7, <2>8 DEF RowOK
  <1> QED BY <1>5, <1>8, <1>12, <1>13, <1>14, <1>15, <1>18, <1>19, <1>20, OnwardWith

(* What came before the new job of the step may be repeated.               *)
LEMMA StageKeeps ==
    ASSUME FlowsInv, NEW f \in Flow, stageStep(f)
    PROVE  FlowsInv'
  <1>1. PICK m, ids : m = newJob /\ ids = IF run[f].attempt = 1 THEN Append(run[f].jobIds, m)
                                          ELSE [run[f].jobIds EXCEPT ![run[f].i] = m]
    OBVIOUS
  <1>2. m \in Job /\ state[m] = "none" /\ \A j \in Job : state[j] = "none" => m =< j
    BY <1>1, NextJob DEF stageStep
  <1>3. /\ Stage(m)
        /\ goesOn(f, [run[f] EXCEPT !.at = "approving", !.jobIds = ids])
        /\ result' = [result EXCEPT ![f] = IF f \in flows
              THEN [kind |-> "running", step |-> run[f].i, of |-> Len(run[f].steps), resumed |-> run[f].resumed] ELSE @]
        /\ lastJobIds' = [lastJobIds EXCEPT ![f] = IF f \in flows THEN ids ELSE @]
        /\ story' = [story EXCEPT ![m] = storyOf[f]]
        /\ flowOf' = [flowOf EXCEPT ![m] = f] /\ stepOf' = [stepOf EXCEPT ![m] = run[f].i]
        /\ UNCHANGED <<flows, enabled, steps, trigger, interrupted, stories, stops, edits,
                       cascades, storyOf, byHand, lost, still>>
    BY <1>1 DEF stageStep, untouched, boundVars
  <1>4. /\ web = "up" /\ web' = "up" /\ label' = label
        /\ state' = [j \in Job |-> IF j = m THEN "awaiting" ELSE state[j]]
    BY <1>3 DEF Stage, Move
  <1>5. /\ run[f].at \in {"retrying", "step"} /\ run[f].i \in Nat /\ storyOf[f] \in Nat
        /\ RunOK(f) /\ storyOf[f] # 0 /\ run[f].i # 0 /\ run[f].attempt # 0
    BY ToStageAt, RunTyped DEF stageStep, RunOK, JobsTyped
  <1>6. ids \in Seq(Job \union {None}) /\ Len(ids) = run[f].i /\ ids[run[f].i] = m
    <2>1. CASE run[f].attempt = 1
      BY <1>1, <1>2, <2>1, RunTyped, ToStageAt DEF stageStep
    <2>2. CASE run[f].attempt # 1
      <3>1. Len(run[f].jobIds) = run[f].i /\ run[f].i \in 1..Len(run[f].jobIds)
        BY <1>5, <2>2, ToStageAt DEF stageStep
      <3> QED BY <1>1, <1>2, <2>2, <3>1, RunTyped
    <2> QED BY <2>1, <2>2
  <1>7. /\ story[m] = 0 /\ flowOf[m] = None /\ m \notin still /\ label[m] = "none" /\ None \notin Flow
    BY <1>2, RunTyped, FlowsAssumption DEF JobsOK, JobsTyped
  <1>8. /\ story'[m] = storyOf[f] /\ flowOf'[m] = f /\ stepOf'[m] = run[f].i /\ state'[m] = "awaiting"
        /\ \A j \in Job \ {m} : /\ story'[j] = story[j] /\ flowOf'[j] = flowOf[j] /\ stepOf'[j] = stepOf[j]
                                /\ state'[j] = state[j]
    BY <1>2, <1>3, <1>4, RunTyped DEF JobsTyped
  <1>9. /\ \A j \in Job : Repeatable(j) => Repeatable(j)' /\ j # m
        /\ \A j \in Job : (going(j)' => going(j)) /\ (state'[j] = "active" => state[j] = "active" /\ j # m)
        /\ ~going(m)'
    BY <1>2, <1>3, <1>4, <1>7, <1>8 DEF Repeatable, going
  <1>10. \A g \in Flow \ {f} : Steady(g)
    BY <1>3, <1>4, <1>7, <1>8, <1>9 DEF Steady
  <1>11. Now(f)' = Now(f) \union {m} /\ m \notin Now(f) /\ \A j \in Now(f) : j \in Job /\ flowOf[j] = f
    BY <1>2, <1>3, <1>7, <1>8 DEF Now
  <1>12. /\ \A j \in Now(f) : stepOf[j] =< run[f].i /\ (stepOf[j] = run[f].i => Repeatable(j))
         /\ \A j \in Now(f) \ byHand : ~going(j)
         /\ \A j \in Job \ (byHand \union lost) : flowOf[j] = f => state[j] # "active"
    BY <1>4, <1>5 DEF RunOK
  <1>13. JobsTyped' /\ BoundsTyped' /\ StartupOK'
    <2>1. state' \in [Job -> JobStates] /\ story' \in [Job -> Nat] /\ stepOf' \in [Job -> Nat]
          /\ flowOf' \in [Job -> Flow \union {None}]
      BY <1>3, <1>4, <1>5, RunTyped DEF JobsTyped, JobStates
    <2>2. StartupOK'
      BY <1>2, <1>3, <1>4, <1>8, RunTyped DEF StartupOK, JobsTyped
    <2> QED BY <1>3, <1>4, <2>1, <2>2, RunTyped DEF JobsTyped, BoundsTyped, JobStates
  <1>14. JobsOK'
    <2>1. \A j \in Job : state'[j] = "none" => story'[j] = 0 /\ flowOf'[j] = None
      BY <1>8, RunTyped DEF JobsOK
    <2>2. ASSUME NEW j \in Job, NEW k \in Job, j < k, state'[j] = "none"
          PROVE  state'[k] = "none"
      <3>1. j # m /\ state[j] = "none" /\ state[k] = "none"
        BY <1>8, <2>2, RunTyped DEF JobsOK
      <3>2. k # m
        BY <1>2, <2>2, <3>1, JobsAreNumbers
      <3> QED BY <1>8, <3>1, <3>2
    <2>3. \A j \in Job : flowOf'[j] # None => story'[j] # 0 /\ story'[j] =< storyOf'[flowOf'[j]]
      BY <1>3, <1>5, <1>8, RunTyped DEF JobsOK
    <2>4. \A j \in Job : story'[j] # 0 => flowOf'[j] # None
      BY <1>7, <1>8, RunTyped DEF JobsOK
    <2>5. \A j \in Job, g \in Flow : story'[j] = storyOf'[g] /\ story'[j] # 0 => flowOf'[j] = g
      BY <1>3, <1>5, <1>8, RunTyped DEF JobsOK
    <2>6. \A j, k \in Job : story'[j] = story'[k] => flowOf'[j] = flowOf'[k]
      BY <1>5, <1>8, RunTyped DEF JobsOK
    <2>7. \A j \in Job : label'[j] # "none" \/ j \in still' => state'[j] = "failed"
      BY <1>3, <1>4, <1>7, <1>8, RunTyped DEF JobsOK
    <2>8. /\ \A g \in Flow : storyOf'[g] =< stories'
          /\ \A g, h \in Flow : storyOf'[g] = storyOf'[h] /\ storyOf'[g] # 0 => g = h
      BY <1>3, RunTyped DEF JobsOK
    <2> QED BY <2>1, <2>2, <2>3, <2>4, <2>5, <2>6, <2>7, <2>8 DEF JobsOK
  <1>15. OneStepAtATime'
    <2> SUFFICES ASSUME NEW j \in Job \ byHand, NEW k \in Job \ byHand,
                        j # k, flowOf'[j] = flowOf'[k], flowOf'[j] # None, state'[k] = "active"
                 PROVE  IF story'[j] = story'[k] THEN ~going(j)' ELSE state'[j] = "active" => {j, k} \intersect lost # {}
      BY <1>3 DEF OneStepAtATime
    <2>1. k # m /\ state[k] = "active"
      BY <1>9
    <2>2. CASE j = m
      BY <1>9, <2>2
    <2>3. CASE j # m
      BY <1>8, <1>9, <2>1, <2>3 DEF OneStepAtATime, FlowsInv
    <2> QED BY <2>2, <2>3
  <1>16. RepeatsOnlyFailures'
    <2> SUFFICES ASSUME NEW j \in Job, NEW k \in Job, j < k, story'[j] # 0, story'[j] = story'[k], stepOf'[j] = stepOf'[k]
                 PROVE  state'[j] \in {"failed", "cancelled"} /\ label[j] # "cutOff"
      BY <1>4 DEF RepeatsOnlyFailures
    <2>0. j # k /\ j \in Nat /\ k \in Nat
      BY JobsAreNumbers
    <2>1. CASE j # m /\ k # m
      BY <1>8, <2>1 DEF RepeatsOnlyFailures, FlowsInv
    <2>2. CASE k = m
      <3>1. j # m /\ story[j] = storyOf[f] /\ story[j] # 0 /\ stepOf[j] = run[f].i
        BY <1>5, <1>8, <2>0, <2>2
      <3>2. j \in Now(f)
        BY <3>1, RunTyped DEF Now, JobsOK
      <3>3. Repeatable(j)
        BY <1>12, <3>1, <3>2
      <3> QED BY <1>8, <3>1, <3>3 DEF Repeatable
    <2>3. CASE j = m
      <3>1. k # m /\ state[k] = "none"
        BY <1>2, <2>0, <2>3, RunTyped DEF JobsOK
      <3>2. story[k] = 0
        BY <3>1, RunTyped DEF JobsOK
      <3> QED BY <1>8, <2>3, <3>1, <3>2
    <2> QED BY <2>1, <2>2, <2>3
  <1> DEFINE r == [run[f] EXCEPT !.at = "approving", !.jobIds = ids]
  <1>17. run' = [run EXCEPT ![f] = r] /\ run[f] \in Runs
    BY <1>3, RunTyped DEF goesOn
  <1>18. r \in Runs /\ r.at = "approving" /\ r.i = run[f].i /\ r.attempt = run[f].attempt /\ r.jobIds = ids
    BY <1>6, <1>17 DEF Runs
  <1> HIDE DEF r
  <1>19. RunsTyped' /\ run'[f] = r /\ \A g \in Flow \ {f} : run'[g] = run[g]
    BY <1>3, <1>17, <1>18, RunTyped, RunSet DEF RunsTyped
  <1> DEFINE p == [kind |-> "running", step |-> run[f].i, of |-> Len(run[f].steps), resumed |-> run[f].resumed]
  <1>20. p \in Results /\ p.step = run[f].i
    BY RunTyped DEF Runs, Results
  <1>21. result' = [result EXCEPT ![f] = IF f \in flows THEN p ELSE result[f]]
    BY <1>3
  <1> HIDE DEF p
  <1>22. /\ RowsTyped' /\ \A g \in Flow \ {f} : result'[g] = result[g] /\ lastJobIds'[g] = lastJobIds[g]
         /\ f \in flows => result'[f].step = run[f].i /\ lastJobIds'[f] = ids
    <2>1. result' \in [Flow -> Results] /\ lastJobIds' \in [Flow -> Seq(Job \union {None})]
      BY <1>3, <1>6, <1>20, <1>21, RunTyped DEF RowsTyped
    <2> QED BY <1>3, <1>20, <1>21, <2>1, RunTyped DEF RowsTyped
  <1>23. /\ \A j \in Now(f)' : stepOf'[j] =< run[f].i
         /\ \A j \in Now(f)' : stepOf'[j] = run[f].i => Repeatable(j)' \/ j = m
         /\ \A j \in Now(f)' \ byHand' : ~going(j)'
    BY <1>3, <1>5, <1>8, <1>9, <1>11, <1>12
  <1>24. m \in Now(f)' /\ storyOf'[f] # 0
    BY <1>3, <1>5, <1>11
  <1>25. RunOK(f)'
    <2>1. jobOf(f)' = m /\ hasJob(f)' /\ run'[f].at = "approving" /\ run'[f].i = run[f].i
          /\ run'[f].attempt = run[f].attempt /\ Len(run'[f].jobIds) = run[f].i
      BY <1>6, <1>18, <1>19 DEF jobOf, hasJob
    <2>2. \A j \in Job \ (byHand' \union lost') : flowOf'[j] = f => state'[j] # "active"
      BY <1>3, <1>8, <1>9, <1>12
    <2> HIDE DEF Now, Repeatable, going, hasJob, jobOf
    <2> QED BY <1>4, <1>5, <1>7, <1>8, <1>23, <1>24, <2>1, <2>2 DEF RunOK
  <1>26. RowOK(f)'
    <2> SUFFICES ASSUME f \in flows
                 PROVE  RowOK(f)'
      BY <1>3 DEF RowOK
    <2>1. stoppedJob(f)' = m /\ result'[f].step = run[f].i /\ Len(lastJobIds'[f]) = run[f].i
      BY <1>6, <1>22 DEF stoppedJob
    <2>2. run'[f].at = "approving"
      BY <1>18, <1>19
    <2> HIDE DEF Now, Repeatable, going, stoppedJob
    <2> QED BY <1>5, <1>8, <1>23, <1>24, <2>1, <2>2 DEF RowOK
  <1> QED BY <1>3, <1>10, <1>13, <1>14, <1>15, <1>16, <1>19, <1>22, <1>25, <1>26, OnwardWith
-----------------------------------------------------------------------------
(* A run starts: its story is new.                                         *)

LEMMA StartKeeps ==
    ASSUME FlowsInv, NEW f \in Flow, NEW by \in {"hand", "clock", "chain"}, NEW d \in Nat, NEW then \in Seq(Follower),
           start(f, by, d, then), cascades' \subseteq Seq(Follower) \ {<<>>}
    PROVE  FlowsInv'
  <1> DEFINE r == [NoRun EXCEPT !.at = "checking", !.by = by, !.steps = steps[f], !.i = 1,
                                !.attempt = 1, !.depth = d, !.then = then]
  <1>1. /\ web = "up" /\ run[f].at = "idle" /\ stories' = stories + 1 /\ UNCHANGED <<stops, edits>>
        /\ run' = [run EXCEPT ![f] = r]
        /\ storyOf' = [storyOf EXCEPT ![f] = stories + 1]
        /\ UNCHANGED <<web, state, label, flows, enabled, steps, trigger, result, lastJobIds, interrupted,
                       story, flowOf, stepOf, byHand, lost, still>>
    BY DEF start, alreadyRunning, running, lifeVars, rowVars
  <1>2. r \in Runs /\ r.at = "checking" /\ r.by = by /\ r.i = 1 /\ r.attempt = 1 /\ r.jobIds = <<>>
    <2>1. steps[f] \in Seq(StepRecord)
      BY RunTyped DEF RowsTyped
    <2>2. NoRun \in Runs /\ NoRun.jobIds = <<>>
      BY NoRunTyped DEF NoRun
    <2>3. 1 \in Nat
      OBVIOUS
    <2> QED BY <2>1, <2>2, <2>3 DEF Runs
  <1> HIDE DEF r
  <1>3. RunsTyped' /\ run'[f] = r /\ \A g \in Flow \ {f} : run'[g] = run[g]
    BY <1>1, <1>2, RunTyped, RunSet DEF RunsTyped
  <1>4. stories \in Nat /\ storyOf' \in [Flow -> Nat] /\ storyOf'[f] = stories + 1
        /\ \A g \in Flow \ {f} : storyOf'[g] = storyOf[g]
    BY <1>1, RunTyped DEF BoundsTyped, JobsTyped
  <1>5. \A j \in Job : story[j] \in Nat /\ story[j] =< stories
    <2> SUFFICES ASSUME NEW j \in Job PROVE story[j] \in Nat /\ story[j] =< stories
      OBVIOUS
    <2>1. CASE flowOf[j] = None
      BY <1>4, <2>1, RunTyped DEF JobsOK, JobsTyped
    <2>2. CASE flowOf[j] # None
      <3>1. flowOf[j] \in Flow
        BY <2>2, RunTyped DEF JobsTyped
      <3>2. story[j] =< storyOf[flowOf[j]] /\ storyOf[flowOf[j]] =< stories
        BY <2>2, <3>1, RunTyped DEF JobsOK
      <3>3. story[j] \in Nat /\ storyOf[flowOf[j]] \in Nat
        BY <3>1, RunTyped DEF JobsTyped
      <3> QED BY <1>4, <3>2, <3>3
    <2> QED BY <2>1, <2>2
  <1>6. Now(f)' = {}
    <2> SUFFICES ASSUME NEW j \in Job, story[j] = stories + 1 PROVE FALSE
      BY <1>1, <1>4 DEF Now
    <2> QED BY <1>4, <1>5
  <1>7. \A g \in Flow \ {f} : Steady(g)
    BY <1>1, <1>4 DEF Steady, Repeatable, going
  <1>8. JobsTyped' /\ RowsTyped' /\ BoundsTyped' /\ StartupOK'
    <2>1. JobsTyped' /\ RowsTyped'
      BY <1>1, <1>4, RunTyped DEF JobsTyped, RowsTyped
    <2>2. BoundsTyped' /\ StartupOK'
      BY <1>1, <1>4, RunTyped DEF BoundsTyped, StartupOK
    <2> QED BY <2>1, <2>2
  <1>9. JobsOK'
    <2>1. \A g \in Flow : storyOf[g] \in Nat /\ storyOf[g] =< stories
      BY RunTyped DEF JobsOK, JobsTyped
    <2>2. /\ \A g \in Flow : storyOf'[g] =< stories'
          /\ \A g, h \in Flow : storyOf'[g] = storyOf'[h] /\ storyOf'[g] # 0 => g = h
      BY <1>1, <1>4, <2>1, RunTyped DEF JobsOK
    <2>3. \A j \in Job, g \in Flow : story[j] = storyOf'[g] /\ story[j] # 0 => flowOf[j] = g
      BY <1>4, <1>5, RunTyped DEF JobsOK
    <2>4. ASSUME NEW j \in Job, flowOf[j] # None
          PROVE  story[j] # 0 /\ story[j] =< storyOf'[flowOf[j]]
      <3>1. flowOf[j] \in Flow
        BY <2>4, RunTyped DEF JobsTyped
      <3>2. story[j] # 0 /\ story[j] =< storyOf[flowOf[j]]
        BY <2>4, RunTyped DEF JobsOK
      <3>3. CASE flowOf[j] = f
        <4>1. storyOf'[flowOf[j]] = stories + 1
          BY <1>4, <3>3
        <4>2. story[j] \in Nat /\ story[j] =< stories /\ stories \in Nat
          BY <1>4, <1>5
        <4>3. story[j] =< stories + 1
          BY <4>2
        <4> QED BY <3>2, <4>1, <4>3
      <3>4. CASE flowOf[j] # f
        BY <1>4, <3>1, <3>2, <3>4
      <3> QED BY <3>3, <3>4
    <2> QED BY <1>1, <2>2, <2>3, <2>4, RunTyped DEF JobsOK
  <1>10. OneStepAtATime' /\ RepeatsOnlyFailures'
    BY <1>1 DEF FlowsInv, OneStepAtATime, RepeatsOnlyFailures, going
  <1>11. RunOK(f)'
    <2>1. ~hasJob(f)' /\ Len(run'[f].jobIds) + 1 = run'[f].i /\ run'[f].i = 1 /\ run'[f].attempt = 1
          /\ run'[f].at = "checking"
      BY <1>2, <1>3 DEF hasJob
    <2>2. \A j \in Job \ (byHand' \union lost') : flowOf'[j] = f => state'[j] # "active"
      BY <1>1, RunTyped DEF RunOK
    <2> HIDE DEF Now, Repeatable, going, hasJob, jobOf
    <2> QED BY <1>4, <1>6, <2>1, <2>2 DEF RunOK
  <1>12. RowOK(f)'
    BY <1>1, RunTyped DEF RowOK
  <1> QED BY <1>1, <1>3, <1>7, <1>8, <1>9, <1>10, <1>11, <1>12, OnwardWith

LEMMA CascadeTyped ==
    ASSUME FlowsInv, NEW c \in cascades
    PROVE  /\ c \in Seq(Follower) /\ Head(c).flow \in Flow /\ Head(c).depth \in Nat /\ Tail(c) \in Seq(Follower)
           /\ rest(c) \subseteq Seq(Follower) \ {<<>>}
  <1>1. c \in Seq(Follower) /\ c # <<>>
    BY Typed DEF RunsTyped
  <1>2. Head(c) \in Follower /\ Tail(c) \in Seq(Follower)
    BY <1>1, HeadTailProperties
  <1>3. Len(c) # 1 => Tail(c) # <<>>
    <2> SUFFICES ASSUME Tail(c) = <<>> PROVE Len(c) = 1
      OBVIOUS
    <2>1. Len(Tail(c)) = Len(c) - 1 /\ Len(c) \in Nat
      BY <1>1, HeadTailProperties
    <2>2. Len(Tail(c)) = 0
      <3>1. Len(<<>>) = 0
        BY EmptySeq
      <3> QED BY <3>1, Zenon
    <2> QED BY <2>1, <2>2
  <1> QED BY <1>1, <1>2, <1>3 DEF rest, Follower

LEMMA StartsKeep ==
    ASSUME FlowsInv, NEW f \in Flow, launch(f) \/ tick(f)
    PROVE  FlowsInv'
  <1>1. start(f, "hand", 0, <<>>) \/ start(f, "clock", 0, <<>>)
    BY DEF launch, tick
  <1>2. cascades' \subseteq Seq(Follower) \ {<<>>} /\ <<>> \in Seq(Follower) /\ 0 \in Nat
    BY RunTyped DEF launch, tick, RunsTyped
  <1> QED BY <1>1, <1>2, StartKeeps

LEMMA FollowersKeep ==
    ASSUME FlowsInv, NEW c \in cascades, runFollower(c) \/ followerSkipped(c)
    PROVE  FlowsInv'
  <1>1. CASE runFollower(c)
    <2>1. cascades' \subseteq Seq(Follower) \ {<<>>} /\ start(Head(c).flow, "chain", Head(c).depth, Tail(c))
      BY <1>1, Typed DEF runFollower, RunsTyped
    <2>2. Head(c).flow \in Flow /\ Head(c).depth \in Nat /\ Tail(c) \in Seq(Follower)
      BY CascadeTyped
    <2> QED BY <2>1, <2>2, StartKeeps
  <1>2. CASE followerSkipped(c)
    <2>1. /\ web = "up" /\ UNCHANGED <<lifeVars, rowVars, run, interrupted, boundVars, recordVars>>
          /\ cascades' = (cascades \ {c}) \union rest(c)
      BY <1>2 DEF followerSkipped
    <2>2. JobsGoOn
      BY <2>1, UntouchedJobs, Typed DEF recordVars, boundVars, JobsTyped
    <2>3. RunsTyped'
      BY <2>1, CascadeTyped, Typed DEF RunsTyped
    <2>4. RowsTyped' /\ BoundsTyped' /\ flows' = flows /\ run' = run /\ result' = result /\ lastJobIds' = lastJobIds
      BY <2>1, Typed DEF RowsTyped, BoundsTyped, rowVars, boundVars
    <2> QED BY <2>2, <2>3, <2>4, RunsAsTheyWere
  <1> QED BY <1>1, <1>2
-----------------------------------------------------------------------------
(* The web service stops, and starts again.                                *)

LEMMA StopKeeps ==
    ASSUME FlowsInv, stop
    PROVE  FlowsInv'
  <1>1. /\ web' = "down" /\ run' = [f \in Flow |-> NoRun] /\ cascades' = {} /\ interrupted' = {} /\ stops' = stops + 1
        /\ UNCHANGED <<state, label, flows, enabled, steps, trigger, result, lastJobIds, stories, edits,
                       story, flowOf, stepOf, storyOf, byHand, lost, still>>
    BY DEF stop, Die, rowVars, recordVars
  <1>2. JobsTyped' /\ RowsTyped' /\ BoundsTyped'
    <2>1. JobsTyped' /\ RowsTyped'
      BY <1>1, Typed DEF JobsTyped, RowsTyped
    <2>2. BoundsTyped'
      BY <1>1, Typed DEF BoundsTyped
    <2> QED BY <2>1, <2>2
  <1>3. RunsTyped' /\ \A f \in Flow : run'[f].at = "idle"
    BY <1>1, NoRunTyped DEF RunsTyped
  <1>4. JobsOK' /\ OneStepAtATime' /\ RepeatsOnlyFailures'
    <2>1. JobsOK'
      BY <1>1, Typed DEF JobsOK
    <2>2. OneStepAtATime' /\ RepeatsOnlyFailures'
      BY <1>1 DEF FlowsInv, OneStepAtATime, RepeatsOnlyFailures, going
    <2> QED BY <2>1, <2>2
  <1>5. StartupOK'
    BY <1>1, <1>3 DEF StartupOK
  <1>6. \A f \in Flow : RunOK(f)'
    BY <1>1, <1>3 DEF RunOK
  <1>7. ASSUME NEW f \in Flow
        PROVE  RowOK(f)'
    <2>1. Now(f)' = Now(f) /\ stoppedJob(f)' = stoppedJob(f)
      BY <1>1 DEF Now, stoppedJob
    <2>2. \A j \in Job : (Repeatable(j)' <=> Repeatable(j)) /\ (going(j)' <=> going(j))
      BY <1>1 DEF Repeatable, going
    <2>3. \A j \in Now(f) : j \in Job
      BY DEF Now
    <2>4. RowOK(f)
      BY RunTyped
    <2> HIDE DEF Now, Repeatable, going, stoppedJob
    <2> QED BY <1>1, <1>3, <2>1, <2>2, <2>3, <2>4 DEF RowOK
  <1> QED BY <1>2, <1>3, <1>4, <1>5, <1>6, <1>7 DEF FlowsInv, FlowsTypeOK

LEMMA RecoverJobsKeeps ==
    ASSUME FlowsInv, recoverInterruptedJobs
    PROVE  FlowsInv'
  <1>1. PICK N \in SUBSET Job : Recover(N)
    BY DEF recoverInterruptedJobs
  <1>2. /\ web = "down" /\ web' = "recovering"
        /\ state' = [j \in Job |-> IF state[j] = "active" THEN "failed" ELSE state[j]]
        /\ label' = [j \in Job |-> IF j \in N THEN "neverStarted" ELSE IF state[j] = "active" THEN "cutOff" ELSE label[j]]
        /\ \A j \in N : state[j] = "active"
    BY <1>1 DEF Recover, activeJobs
  <1>3. /\ interrupted' = activeJobs
        /\ UNCHANGED <<flows, enabled, steps, trigger, result, lastJobIds, run, cascades, stories, stops, edits,
                       story, flowOf, stepOf, storyOf, byHand, lost, still>>
    BY DEF recoverInterruptedJobs, rowVars, boundVars, recordVars
  <1>4. JobsTyped' /\ RowsTyped' /\ RunsTyped' /\ BoundsTyped'
    <2>1. state' \in [Job -> JobStates]
      BY <1>2, Typed DEF JobsTyped, JobStates
    <2>2. label' \in [Job -> {"none", "cutOff", "neverStarted"}] /\ interrupted' \subseteq Job
      BY <1>2, <1>3, Typed DEF JobsTyped, activeJobs
    <2>3. JobsTyped'
      BY <1>2, <1>3, <2>1, <2>2, Typed DEF JobsTyped, JobStates
    <2>4. RowsTyped' /\ RunsTyped' /\ BoundsTyped'
      BY <1>3, Typed DEF RowsTyped, RunsTyped, BoundsTyped
    <2> QED BY <2>3, <2>4
  <1>5. /\ \A j \in Job : state[j] # "active" => state'[j] = state[j] /\ label'[j] = label[j]
        /\ \A j \in Job : state[j] = "active" => state'[j] = "failed"
    BY <1>2
  <1>6. /\ \A j \in Job : Repeatable(j) => Repeatable(j)'
        /\ \A j \in Job : going(j)' => going(j)
        /\ \A j \in Job : state'[j] # "active"
    BY <1>3, <1>5 DEF Repeatable, going
  <1>7. JobsOK'
    <2>1. \A j \in Job : state'[j] = "none" <=> state[j] = "none"
      BY <1>5
    <2>2. \A j \in Job : label'[j] # "none" \/ j \in still' => state'[j] = "failed"
      BY <1>3, <1>5, Typed DEF JobsOK
    <2> QED BY <1>3, <2>1, <2>2, Typed DEF JobsOK
  <1>8. StartupOK'
    <2>1. \A f \in Flow : run'[f].at = "idle"
      BY <1>2, <1>3, Typed DEF StartupOK
    <2>2. \A j \in interrupted' : state'[j] = "failed" /\ j \notin still'
      BY <1>3, <1>5, Typed DEF JobsOK, activeJobs
    <2> QED BY <1>6, <2>1, <2>2 DEF StartupOK
  <1>9. OneStepAtATime' /\ RepeatsOnlyFailures'
    <2>1. OneStepAtATime'
      BY <1>6 DEF OneStepAtATime
    <2>2. RepeatsOnlyFailures'
      BY <1>3, <1>5 DEF RepeatsOnlyFailures, FlowsInv
    <2> QED BY <2>1, <2>2
  <1>10. \A f \in Flow : RunOK(f)'
    BY <1>2, <1>3, <1>8 DEF RunOK, StartupOK
  <1>11. ASSUME NEW f \in Flow
         PROVE  RowOK(f)'
    <2>1. Now(f)' = Now(f) /\ stoppedJob(f)' = stoppedJob(f)
      BY <1>3 DEF Now, stoppedJob
    <2>2. \A j \in Now(f) : j \in Job
      BY DEF Now
    <2>3. RowOK(f)
      BY RunTyped
    <2>4. run'[f].at = "idle"
      BY <1>2, <1>8 DEF StartupOK
    <2> HIDE DEF Now, Repeatable, going, stoppedJob
    <2> QED BY <1>2, <1>3, <1>6, <2>1, <2>2, <2>3, <2>4 DEF RowOK
  <1> QED BY <1>4, <1>7, <1>8, <1>9, <1>10, <1>11 DEF FlowsInv, FlowsTypeOK

(* The step a run goes on from, and the jobs of those before it.           *)
LEMMA ResumedTyped ==
    ASSUME FlowsInv, NEW f \in Flow, f \in runningRows
    PROVE  /\ resumedRun(f) \in Runs /\ resumedRun(f).at = "checking" /\ resumedRun(f).by = "resume"
           /\ resumedRun(f).i = resumeFrom(f) /\ resumedRun(f).attempt = 1
           /\ Len(resumedRun(f).jobIds) + 1 = resumeFrom(f) /\ resumeFrom(f) # 0
           /\ result[f].step \in Nat
           /\ resumeFrom(f) = IF began(f) THEN result[f].step + 1 ELSE result[f].step
  <1> DEFINE from == resumeFrom(f)
             before == SubSeq(lastJobIds[f], 1, from - 1)
             ended(S) == {i \in 1..(from - 1) : before[i] # None /\ state[before[i]] \in S}
  <1>1. /\ result[f] \in Results /\ lastJobIds[f] \in Seq(Job \union {None}) /\ steps[f] \in Seq(StepRecord)
        /\ result[f].step # 0 /\ Len(lastJobIds[f]) = result[f].step
    BY RunTyped DEF RowsTyped, RowOK, runningRows
  <1>2. result[f].step \in Nat
    BY <1>1 DEF Results
  <1>3. from \in Nat /\ from # 0 /\ from - 1 =< Len(lastJobIds[f]) /\ from - 1 \in Nat
    <2>1. from = result[f].step \/ from = result[f].step + 1
      BY DEF resumeFrom
    <2> HIDE DEF from
    <2> QED BY <1>1, <1>2, <2>1
  <1> HIDE DEF from
  <1>4. before \in Seq(Job \union {None}) /\ Len(before) = from - 1
    <2>1. \A i \in 1..(from - 1) : lastJobIds[f][i] \in Job \union {None}
      BY <1>1, <1>3
    <2>2. PICK n \in Nat : n = from - 1
      BY <1>3
    <2>3. /\ SubSeq(lastJobIds[f], 1, n) \in Seq(Job \union {None})
          /\ Len(SubSeq(lastJobIds[f], 1, n)) = IF 1 <= n THEN n - 1 + 1 ELSE 0
      <3>1. \A i \in 1..n : lastJobIds[f][i] \in Job \union {None}
        BY <2>1, <2>2
      <3>2. 1 \in Int /\ n \in Int
        OBVIOUS
      <3> QED BY <3>1, <3>2, SubSeqProperties
    <2>4. before = SubSeq(lastJobIds[f], 1, n)
      BY <2>2
    <2>5. (IF 1 <= n THEN n - 1 + 1 ELSE 0) = n
      OBVIOUS
    <2> HIDE DEF before
    <2> QED BY <2>2, <2>3, <2>4, <2>5
  <1> DEFINE names == ended({"completed"})
             trouble == ended({"failed", "cancelled", "awaiting"}) # {}
             r == [NoRun EXCEPT !.at = "checking", !.by = "resume", !.steps = steps[f], !.i = from, !.attempt = 1,
                                !.jobIds = before, !.named = names, !.problems = trouble, !.resumed = TRUE]
  <1>5. names \in SUBSET Nat /\ trouble \in BOOLEAN
    BY <1>3
  <1>6. resumedRun(f) = r
    BY DEF resumedRun, from
  <1> HIDE DEF before, names, trouble
  <1>7. r \in Runs /\ r.at = "checking" /\ r.by = "resume" /\ r.i = from /\ r.attempt = 1 /\ r.jobIds = before
    BY <1>1, <1>3, <1>4, <1>5, NoRunTyped DEF Runs
  <1> HIDE DEF r
  <1>8. from = resumeFrom(f) /\ from = IF began(f) THEN result[f].step + 1 ELSE result[f].step
    BY DEF from, resumeFrom
  <1> QED BY <1>2, <1>3, <1>4, <1>6, <1>7, <1>8

LEMMA RecoverKeeps ==
    ASSUME FlowsInv, NEW R \in SUBSET Flow, recover(R)
    PROVE  FlowsInv'
  <1>1. /\ web = "recovering" /\ web' = "up" /\ R \subseteq {f \in runningRows : mayResume(f)}
        /\ run' = [f \in Flow |-> IF f \in R THEN resumedRun(f) ELSE NoRun]
        /\ state' = [j \in Job |-> IF state[j] = "awaiting" /\ \E f \in R : stoppedJob(f) = j THEN "cancelled" ELSE state[j]]
        /\ result' = [f \in Flow |-> IF f \in runningRows \ R THEN [NoResult EXCEPT !.kind = "interrupted"] ELSE result[f]]
        /\ interrupted' = {}
        /\ UNCHANGED <<label, flows, enabled, steps, trigger, lastJobIds, cascades, stories, stops, edits,
                       story, flowOf, stepOf, storyOf, byHand, lost, still>>
    BY DEF recover, boundVars, recordVars
  <1>2. \A j \in Job : /\ state'[j] = state[j] \/ (state[j] = "awaiting" /\ state'[j] = "cancelled")
                       /\ state[j] # "active" /\ state'[j] # "active"
    BY <1>1, Typed DEF StartupOK
  <1>3. /\ \A j \in Job : Repeatable(j) => Repeatable(j)'
        /\ \A j \in Job : going(j)' => going(j)
    BY <1>1, <1>2 DEF Repeatable, going
  <1>4. JobsTyped' /\ BoundsTyped'
    <2>1. state' \in [Job -> JobStates]
      BY <1>1, Typed DEF JobsTyped, JobStates
    <2> QED BY <1>1, <2>1, Typed DEF JobsTyped, BoundsTyped, JobStates
  <1>5. RowsTyped' /\ \A f \in Flow : f \in flows' /\ result'[f].kind = "running" => f \in R /\ result'[f] = result[f]
    <2> DEFINE p == [NoResult EXCEPT !.kind = "interrupted"]
    <2>1. p \in Results /\ p.kind = "interrupted"
      BY DEF NoResult, Results
    <2>2. result' = [f \in Flow |-> IF f \in runningRows \ R THEN p ELSE result[f]]
      BY <1>1
    <2> HIDE DEF p
    <2>3. result' \in [Flow -> Results]
      BY <2>1, <2>2, Typed DEF RowsTyped
    <2>4. \A f \in Flow : f \in flows' /\ result'[f].kind = "running" => f \in R /\ result'[f] = result[f]
      BY <1>1, <2>1, <2>2 DEF runningRows
    <2> QED BY <1>1, <2>3, <2>4, Typed DEF RowsTyped
  <1>6. RunsTyped' /\ \A f \in Flow : run'[f] = IF f \in R THEN resumedRun(f) ELSE NoRun
    <2>1. \A f \in R : resumedRun(f) \in Runs
      BY <1>1, ResumedTyped
    <2>2. run' \in [Flow -> Runs]
      BY <1>1, <2>1, NoRunTyped
    <2> QED BY <1>1, <2>2, Typed DEF RunsTyped
  <1>7. JobsOK' /\ StartupOK'
    <2>1. \A j \in Job : state'[j] = "none" <=> state[j] = "none"
      BY <1>2
    <2>2. \A j \in Job : label'[j] # "none" \/ j \in still' => state'[j] = "failed"
      BY <1>1, <1>2, Typed DEF JobsOK
    <2>3. StartupOK'
      BY <1>1 DEF StartupOK
    <2> QED BY <1>1, <2>1, <2>2, <2>3, Typed DEF JobsOK
  <1>8. OneStepAtATime' /\ RepeatsOnlyFailures'
    <2>1. OneStepAtATime'
      BY <1>2 DEF OneStepAtATime
    <2>2. RepeatsOnlyFailures'
      BY <1>1, <1>2 DEF RepeatsOnlyFailures, FlowsInv
    <2> QED BY <2>1, <2>2
  <1>9. ASSUME NEW f \in Flow, f \notin R
        PROVE  RunOK(f)' /\ RowOK(f)'
    <2>1. run'[f].at = "idle"
      BY <1>6, <1>9, NoRunTyped
    <2>2. RunOK(f)'
      BY <1>2, <2>1 DEF RunOK
    <2>3. RowOK(f)'
      BY <1>5, <1>9 DEF RowOK
    <2> QED BY <2>2, <2>3
  <1>10. ASSUME NEW f \in Flow, f \in R
         PROVE  RunOK(f)' /\ RowOK(f)'
    <2>1. f \in flows /\ result[f].kind = "running" /\ mayResume(f) /\ f \in runningRows /\ RowOK(f)
      BY <1>1, <1>10, RunTyped DEF runningRows
    <2>2. PICK p : p = stoppedJob(f)
      OBVIOUS
    <2>3. /\ storyOf[f] # 0 /\ result[f].step # 0 /\ Len(lastJobIds[f]) = result[f].step
          /\ p \in Now(f) /\ stepOf[p] = result[f].step /\ p \in Job
          /\ \A j \in Now(f) : stepOf[j] =< result[f].step
          /\ \A j \in Now(f) : stepOf[j] = result[f].step => Repeatable(j) \/ j = p
          /\ \A j \in Now(f) \ byHand : going(j) => j = p
      BY <2>1, <2>2 DEF RowOK, Now
    <2>4. /\ run'[f] = resumedRun(f) /\ run'[f].at = "checking" /\ run'[f].by = "resume"
          /\ run'[f].i = resumeFrom(f) /\ run'[f].attempt = 1 /\ Len(run'[f].jobIds) + 1 = run'[f].i /\ run'[f].i # 0
          /\ result[f].step \in Nat
          /\ resumeFrom(f) = IF began(f) THEN result[f].step + 1 ELSE result[f].step
      BY <1>6, <1>10, <2>1, ResumedTyped
    <2>5. Now(f)' = Now(f) /\ stoppedJob(f)' = p /\ \A j \in Now(f) : j \in Job /\ stepOf[j] \in Nat
      <3>1. result'[f] = result[f] /\ lastJobIds' = lastJobIds
        BY <1>1, <1>10
      <3>2. stoppedJob(f)' = p
        BY <2>2, <3>1 DEF stoppedJob
      <3>3. Now(f)' = Now(f)
        BY <1>1 DEF Now
      <3>4. \A j \in Now(f) : j \in Job /\ stepOf[j] \in Nat
        BY Typed DEF Now, JobsTyped
      <3> QED BY <3>2, <3>3, <3>4
    <2>6. ~going(p)
      <3>1. p \in still => state[p] = "failed" /\ p \notin interrupted
        BY <2>3, Typed DEF JobsOK, StartupOK
      <3>2. began(f) => state[p] = "completed"
        BY <2>1, <2>2 DEF mayResume
      <3>3. ~began(f) => state[p] = "awaiting" \/ p \in interrupted
        BY <2>2 DEF began
      <3> QED BY <1>2, <2>3, <3>1, <3>2, <3>3 DEF going
    <2>7. ~began(f) => Repeatable(p)'
      <3>1. CASE state[p] = "awaiting"
        <4>1. state'[p] = "cancelled" /\ label'[p] = label[p] /\ label[p] = "none"
          BY <1>1, <1>10, <2>2, <2>3, <3>1, Typed DEF JobsOK
        <4> QED BY <4>1 DEF Repeatable
      <3>2. CASE p \in interrupted /\ label[p] = "neverStarted"
        <4>1. state[p] = "failed"
          BY <3>2, Typed DEF StartupOK
        <4> QED BY <1>3, <2>3, <3>2, <4>1 DEF Repeatable
      <3> QED BY <2>2, <3>1, <3>2 DEF began
    <2>8. /\ \A j \in Now(f) : ~going(j)' \/ j \in byHand
          /\ \A j \in Now(f) : stepOf[j] =< resumeFrom(f)
          /\ \A j \in Now(f) : stepOf[j] = resumeFrom(f) => Repeatable(j)'
      <3>1. \A j \in Now(f) : ~going(j)' \/ j \in byHand
        BY <1>3, <2>3, <2>5, <2>6
      <3>2. \A j \in Now(f) : stepOf[j] =< resumeFrom(f)
        BY <2>3, <2>4, <2>5
      <3>3. ASSUME NEW j \in Now(f), stepOf[j] = resumeFrom(f)
            PROVE  Repeatable(j)'
        <4>1. ~began(f) /\ stepOf[j] = result[f].step
          <5>1. stepOf[j] \in Nat /\ stepOf[j] =< result[f].step /\ result[f].step \in Nat
            BY <2>3, <2>4, <2>5
          <5>2. stepOf[j] = IF began(f) THEN result[f].step + 1 ELSE result[f].step
            BY <2>4, <3>3
          <5> HIDE DEF began
          <5> QED BY <5>1, <5>2
        <4>2. Repeatable(j) \/ j = p
          BY <2>3, <4>1
        <4> QED BY <1>3, <2>5, <2>7, <4>1, <4>2
      <3> QED BY <3>1, <3>2, <3>3
    <2>9. RunOK(f)'
      <3>1. ~hasJob(f)'
        BY <2>4 DEF hasJob
      <3> HIDE DEF Now, Repeatable, going, hasJob, jobOf
      <3> QED BY <1>1, <1>2, <2>3, <2>4, <2>5, <2>8, <3>1 DEF RunOK
    <2>10. RowOK(f)'
      <3>1. result'[f] = result[f]
        BY <1>1, <1>10
      <3>2. \A j \in Now(f) : stepOf[j] = result[f].step => Repeatable(j)' \/ j = p
        BY <1>3, <2>3, <2>5
      <3> HIDE DEF Now, Repeatable, going, stoppedJob
      <3> QED BY <1>1, <2>3, <2>4, <2>5, <2>8, <3>1, <3>2 DEF RowOK
    <2> QED BY <2>9, <2>10
  <1> QED BY <1>4, <1>5, <1>6, <1>7, <1>8, <1>9, <1>10 DEF FlowsInv, FlowsTypeOK
-----------------------------------------------------------------------------
LEMMA InitHolds == FlowsInit => FlowsInv
  <1> SUFFICES ASSUME FlowsInit PROVE FlowsInv
    OBVIOUS
  <1>1. JobsTyped /\ BoundsTyped
    BY DEF FlowsInit, LifeInit, JobsTyped, BoundsTyped
  <1>2. RowsTyped
    <2>1. NoResult \in Results
      BY DEF NoResult, Results
    <2>2. FirstSteps \in [Flow -> Seq(StepRecord)] /\ FirstTrigger \in [Flow -> Flow \union {None}]
      BY FlowsAssumption
    <2> QED BY <2>1, <2>2 DEF FlowsInit, RowsTyped
  <1>3. RunsTyped
    BY NoRunTyped DEF FlowsInit, RunsTyped
  <1>4. JobsOK /\ StartupOK
    BY NoRunTyped DEF FlowsInit, LifeInit, JobsOK, StartupOK
  <1>5. \A f \in Flow : RunOK(f)
    BY NoRunTyped DEF FlowsInit, LifeInit, RunOK
  <1>6. \A f \in Flow : RowOK(f)
    BY DEF FlowsInit, RowOK, NoResult
  <1>7. OneStepAtATime /\ RepeatsOnlyFailures
    BY DEF FlowsInit, LifeInit, OneStepAtATime, RepeatsOnlyFailures
  <1> QED BY <1>1, <1>2, <1>3, <1>4, <1>5, <1>6, <1>7 DEF FlowsInv, FlowsTypeOK

LEMMA RunStepKeeps ==
    ASSUME FlowsInv, NEW f \in Flow, RunStep(f)
    PROVE  FlowsInv'
  BY AllowedKeeps, RefusedKeeps, SkipKeeps, ConditionKeeps, StageKeeps, StageFailsKeeps, ApproveKeeps,
     ApproveFailsKeeps, CompletedKeeps, LoseSightKeeps, LeftRunningKeeps, RetryKeeps, FailedKeeps, CompleteKeeps
  DEF RunStep

LEMMA StepKeeps ==
    ASSUME FlowsInv, [FlowsNext]_flowVars
    PROVE  FlowsInv'
  <1>1. CASE UNCHANGED flowVars
    <2>1. UNCHANGED <<web, state, label, flows, enabled, steps, trigger, result, lastJobIds, run, cascades, interrupted,
                      stories, stops, edits, story, flowOf, stepOf, storyOf, byHand, lost, still>>
      BY <1>1 DEF flowVars, lifeVars, rowVars, boundVars, recordVars
    <2>2. FlowsTypeOK' /\ JobsOK' /\ StartupOK' /\ OneStepAtATime' /\ RepeatsOnlyFailures'
      <3>1. JobsTyped' /\ RowsTyped'
        BY <2>1, Typed DEF JobsTyped, RowsTyped
      <3>2. RunsTyped' /\ BoundsTyped'
        BY <2>1, Typed DEF RunsTyped, BoundsTyped
      <3>3. JobsOK' /\ StartupOK'
        BY <2>1, Typed DEF JobsOK, StartupOK
      <3>4. OneStepAtATime' /\ RepeatsOnlyFailures'
        BY <2>1 DEF FlowsInv, OneStepAtATime, RepeatsOnlyFailures, going
      <3> QED BY <3>1, <3>2, <3>3, <3>4 DEF FlowsTypeOK
    <2>3. \A f \in Flow : RunOK(f)' /\ RowOK(f)'
      BY <2>1, RunTyped DEF RunOK, RowOK, Now, Repeatable, going, hasJob, jobOf, stoppedJob
    <2> QED BY <2>2, <2>3 DEF FlowsInv
  <1>2. CASE \E f \in Flow :
               \/ launch(f) \/ tick(f) \/ RunStep(f)
               \/ pause(f) \/ remove(f)
               \/ \E g \in Flow \union {None} : setTrigger(f, g)
               \/ \E version \in Versions[f] : saveSteps(f, version)
    BY <1>2, StartsKeep, RunStepKeeps, EditsKeep
  <1>3. CASE \E c \in cascades : runFollower(c) \/ followerSkipped(c)
    BY <1>3, FollowersKeep
  <1>4. CASE \E j \in Job : jobEnds(j) \/ approveByHand(j) \/ withdrawByHand(j)
    BY <1>4, JobsEnd
  <1>5. CASE stop \/ recoverInterruptedJobs \/ \E R \in SUBSET Flow : recover(R)
    BY <1>5, StopKeeps, RecoverJobsKeeps, RecoverKeeps
  <1> QED BY <1>1, <1>2, <1>3, <1>4, <1>5 DEF FlowsNext

LEMMA FlowsInvariant == FlowsSpec => []FlowsInv
  BY InitHolds, StepKeeps, PTL DEF FlowsSpec

(* Rows, runs and what waits to follow keep their shapes (flows.mjs).      *)
THEOREM FlowsTypeCorrect == FlowsSpec => []FlowsTypeOK
  <1>1. FlowsInv => FlowsTypeOK
    BY DEF FlowsInv
  <1> QED BY <1>1, FlowsInvariant, PTL

(* One step at a time, through retries, edits, stops and resumed runs:     *)
(* run() stages no step while an earlier one of its story may be at work,  *)
(* and runUnderCreator lets no second run of the flow in.                  *)
THEOREM OneStep == FlowsSpec => []OneStepAtATime
  <1>1. FlowsInv => OneStepAtATime
    BY DEF FlowsInv
  <1> QED BY <1>1, FlowsInvariant, PTL

(* Retries, and resumePoint after a restart, repeat only what failed,      *)
(* was withdrawn or never began.                                           *)
THEOREM OnlyFailuresRepeat == FlowsSpec => []RepeatsOnlyFailures
  <1>1. FlowsInv => RepeatsOnlyFailures
    BY DEF FlowsInv
  <1> QED BY <1>1, FlowsInvariant, PTL
-----------------------------------------------------------------------------
(* The agents' queue.                                                      *)

RunRecord ==
    [agent : Agent, kind : {"ask", "schedule", "handoff", "continue"}, parent : Nat, depth : Nat,
     state : Active \union Finished, continued : BOOLEAN, started : BOOLEAN, runner : Nat, given : Nat,
     opinionOf : Nat, acts : {"none", "going", "over"}]
Poll == [life : Nat, run : Nat, waits : BOOLEAN, aborted : BOOLEAN]

(* The type of every variable. *)
AgentsTypeOK ==
    /\ runs \in Seq(RunRecord)
    /\ module \in {"on", "paused", "until"} /\ killed \in BOOLEAN /\ pausedAgents \subseteq Agent /\ gone \subseteq Agent
    /\ service \in {"up", "down"} /\ acting \in 0..Len(runs) /\ finishing \subseteq DOMAIN runs
    /\ life \in Nat /\ greeted \in BOOLEAN /\ work \in 0..Len(runs)
    /\ polls \subseteq Poll /\ \A p \in polls : p.run \in 0..Len(runs)
    /\ faults \in Nat /\ halted \in BOOLEAN /\ forgone \subseteq Nat /\ cut \in BOOLEAN

(* Rows are queued below the run they come from, and none below a          *)
(* follow-up; only a root acts; and what waits was never given to a runner. *)
Row(R, r) ==
    /\ R[r].parent \in 0..r - 1 /\ (R[r].parent = 0 <=> R[r].kind \in {"ask", "schedule"})
    /\ R[r].parent # 0 => R[r].acts = "none"
    /\ R[r].given =< 1 /\ (R[r].state = "queued" => R[r].given = 0)
    /\ R[r].depth =< MaxDepth /\ (R[r].parent = 0 => R[r].depth = 0)
    /\ R[r].parent # 0 =>
          /\ R[R[r].parent].kind # "continue"
          /\ R[r].depth = R[R[r].parent].depth + (IF R[r].kind = "handoff" THEN 1 ELSE 0)

(* A run has one follow-up, queued once everything it reads was final.     *)
FollowUp(R, f) == R[f].kind = "continue" =>
    /\ R[R[f].parent].continued /\ R[R[f].parent].state = "answered" /\ R[R[f].parent].acts # "going"
    /\ R[R[f].parent].acts = "none" => ChildrenOf(R, R[f].parent, "handoff") # {}
    /\ ChildrenOf(R, R[f].parent, "continue") = {f}
    /\ \A c \in ChildrenOf(R, R[f].parent, "handoff") :
          handoffSettled(R, c) /\ \A g \in ChildrenOf(R, c, "continue") : g < f

RowsOK(R) == R \in Seq(RunRecord) /\ \A r \in DOMAIN R : Row(R, r) /\ FollowUp(R, r)

(* Rows that come of others by ending what is active and following it up.  *)
Follows(R, y) ==
    /\ Len(R) =< Len(y) /\ (killed => Len(y) = Len(R))
    /\ \A r \in 1..Len(R) :
          /\ y[r].parent = R[r].parent /\ y[r].given = R[r].given /\ y[r].acts = R[r].acts
          /\ y[r].state = R[r].state \/ (R[r].state \in Active /\ y[r].state = "ended")
    /\ \A r \in 1..Len(y) : r > Len(R) => y[r].given = 0
After(R) == {y \in Seq(RunRecord) : RowsOK(y) /\ Follows(R, y)}

(* What is said of the other variables alone: a claimed run is in the     *)
(* hands of one poll.                                                      *)
Rest ==
    /\ module \in {"on", "paused", "until"} /\ killed \in BOOLEAN /\ pausedAgents \subseteq Agent /\ gone \subseteq Agent
    /\ service \in {"up", "down"} /\ life \in Nat /\ greeted \in BOOLEAN
    /\ faults \in Nat /\ halted \in BOOLEAN /\ forgone \subseteq Nat /\ cut \in BOOLEAN
    /\ halted => killed /\ paused
    /\ polls \subseteq Poll /\ \A p, q \in polls : p.run = q.run /\ p.run # 0 => p = q

(* Run r is p or below it: in every set that holds p and, of what it       *)
(* holds, what comes below.                                                *)
Closed(R, D) == \A r \in 1..Len(R) : R[r].parent \in D => r \in D
IsUnder(R, p, r) == \A D \in SUBSET (1..Len(R)) : p \in D /\ Closed(R, D) => r \in D

(* A follow-up that may be queued but is not waits for a run below that    *)
(* goes on or whose end, in F, is not followed up yet; or it is forgone.   *)
Waits(R, p, F) == \E r \in 1..Len(R) : IsUnder(R, p, r) /\ (R[r].state \in Active \/ r \in F)
Owing(R, F) == \A p \in 1..Len(R) : mayContinue(R, p) => p \in forgone \/ Waits(R, p, F)
ForgoneOK == \A p \in forgone : 1..p \subseteq forgone
FollowUpsInv == (~cut => Owing(runs, finishing)) /\ ForgoneOK

(* And of the rows R the others point at, a being staged, w worked on, f   *)
(* finished, P polled for, h after the kill switch: a claimed run was      *)
(* given to nobody, and one whose job is being staged is a root and was    *)
(* not answered.                                                           *)
Points(R, a, w, f, P, h) ==
    /\ a \in 0..Len(R) /\ w \in 0..Len(R) /\ f \subseteq 1..Len(R)
    /\ \A p \in P : p.run \in 0..Len(R) /\ (p.run # 0 => R[p.run].given = 0 /\ R[p.run].state # "queued")
    /\ a # 0 => R[a].parent = 0 /\ R[a].acts = "none" /\ R[a].state # "answered"
    /\ h => \A r \in 1..Len(R) : R[r].state \notin Active
Pointed(R) == Points(R, acting, work, finishing, polls, halted)

AgentsInv == Rest /\ RowsOK(runs) /\ Pointed(runs)
-----------------------------------------------------------------------------
(* Induction along the naturals up to a bound, for a set of values.        *)
LEMMA Climb ==
    ASSUME NEW P, NEW m \in Nat, NEW f, f[0] \in P,
           \A n \in 1..m : f[n - 1] \in P => f[n] \in P
    PROVE  \A n \in 0..m : f[n] \in P
  <1> DEFINE Bad == {n \in 0..m : f[n] \notin P}
             L == OpToRel(<, Nat)
  <1> SUFFICES ASSUME Bad # {} PROVE FALSE
    OBVIOUS
  <1>1. Bad \subseteq Nat
    OBVIOUS
  <1>2. \A x, y \in Nat : <<y, x>> \in L <=> y < x
    BY DEF OpToRel
  <1>3. IsWellFoundedOn(L, Nat)
    BY NatLessThanWellFounded
  <1>4. \A n \in Bad : n \in 1..m /\ n - 1 \in 0..m /\ n - 1 \in Bad
    OBVIOUS
  <1> HIDE DEF Bad, L
  <1>5. PICK n \in Bad : \A k \in Bad : ~(<<k, n>> \in L)
    BY <1>1, <1>3, WFMin
  <1>6. n - 1 \in Bad /\ n \in Nat /\ n - 1 \in Nat
    BY <1>1, <1>4
  <1>7. <<n - 1, n>> \in L
    BY <1>2, <1>6
  <1> QED BY <1>5, <1>6, <1>7

(* m steps, each from T to T; and what they lead through from x.           *)
Steps(m, T) == [1..m -> [T -> T]]
Leads(f, m, x, G, T) == f \in [0..m -> T] /\ f[0] = x /\ \A n \in 1..m : f[n] = G[n][f[n - 1]]

(* A chain of steps can be taken one after the other.                      *)
LEMMA FoldExists ==
    ASSUME NEW T, NEW m \in Nat, NEW x \in T, NEW G \in Steps(m, T)
    PROVE  \E f : Leads(f, m, x, G, T)
  <1> USE DEF Steps
  <1> DEFINE Fold(k, f) == f[0] = x /\ \A n \in 1..k : f[n] = G[n][f[n - 1]]
             Ok == {k \in 0..m : \E f \in [0..k -> T] : Fold(k, f)}
             id == [k \in 0..m |-> k]
  <1>1. 0 \in Ok
    <2> DEFINE f == [n \in 0..0 |-> x]
    <2>1. f \in [0..0 -> T] /\ Fold(0, f)
      OBVIOUS
    <2> HIDE DEF Fold, f
    <2> QED BY <2>1
  <1>2. ASSUME NEW n \in 1..m, n - 1 \in Ok PROVE n \in Ok
    <2>1. PICK f \in [0..n - 1 -> T] : Fold(n - 1, f)
      BY <1>2
    <2> DEFINE g == [k \in 0..n |-> IF k = n THEN G[n][f[n - 1]] ELSE f[k]]
    <2>2. g \in [0..n -> T]
      <3>1. f[n - 1] \in T /\ G[n] \in [T -> T]
        OBVIOUS
      <3>2. \A k \in 0..n : k # n => k \in 0..n - 1
        OBVIOUS
      <3> QED BY <3>1, <3>2
    <2>3. g[0] = x
      BY <2>1
    <2>4. ASSUME NEW k \in 1..n PROVE g[k] = G[k][g[k - 1]]
      <3>1. CASE k = n
        BY <3>1
      <3>2. CASE k # n
        <4>1. k \in 1..n - 1 /\ g[k] = f[k] /\ g[k - 1] = f[k - 1]
          BY <3>2
        <4> QED BY <2>1, <4>1
      <3> QED BY <3>1, <3>2
    <2>5. Fold(n, g)
      <3> HIDE DEF g
      <3> QED BY <2>3, <2>4
    <2> HIDE DEF Fold, g
    <2> QED BY <2>2, <2>5
  <1> HIDE DEF Ok
  <1>3. \A n \in 0..m : id[n] \in Ok
    <2>1. id[0] \in Ok
      BY <1>1
    <2>2. \A n \in 1..m : id[n - 1] \in Ok => id[n] \in Ok
      BY <1>2
    <2> HIDE DEF id
    <2> QED BY <2>1, <2>2, Climb
  <1>4. m \in Ok
    BY <1>3
  <1> QED BY <1>4 DEF Ok, Leads

(* The runs above a run are runs, or 0 for none.                           *)
LEMMA Supervisors ==
    ASSUME NEW R, Len(R) \in Nat, NEW r \in 1..Len(R), \A q \in 1..Len(R) : R[q].parent \in 0..Len(R)
    PROVE  /\ supervisors(R, r) \in [1..MaxDepth + 3 -> 0..Len(R)]
           /\ Len(supervisors(R, r)) = MaxDepth + 3
           /\ supervisors(R, r)[1] = IF R[r].kind = "continue" THEN 0 ELSE r
           /\ supervisors(R, r)[2] = R[r].parent
           /\ \A n \in 2..MaxDepth + 2 : supervisors(R, r)[n + 1] =
                 IF supervisors(R, r)[n] = 0 THEN 0 ELSE R[supervisors(R, r)[n]].parent
  <1> DEFINE m == MaxDepth + 2
             T == 0..Len(R)
             up(y) == IF y = 0 THEN 0 ELSE R[y].parent
             G == [n \in 1..m |-> [y \in T |-> up(y)]]
             above == CHOOSE above : above = [n \in 0..m |->
                          IF n = 0 THEN r ELSE IF above[n - 1] = 0 THEN 0 ELSE R[above[n - 1]].parent]
  <1>1. MaxDepth \in Nat /\ m \in Nat
    BY AgentsAssumption
  <1>2. G \in [1..m -> [T -> T]] /\ r \in T
    OBVIOUS
  <1>3. PICK f \in [0..m -> T] : f[0] = r /\ \A n \in 1..m : f[n] = G[n][f[n - 1]]
    <2> HIDE DEF m, T, G
    <2>1. m \in Nat /\ r \in T /\ G \in Steps(m, T)
      BY <1>1, <1>2 DEF Steps
    <2>2. \E f : Leads(f, m, r, G, T)
      BY <2>1, FoldExists
    <2> QED BY <2>2 DEF Leads
  <1>4. \A n \in 1..m : G[n][f[n - 1]] = IF f[n - 1] = 0 THEN 0 ELSE R[f[n - 1]].parent
    <2> SUFFICES ASSUME NEW n \in 1..m PROVE G[n][f[n - 1]] = IF f[n - 1] = 0 THEN 0 ELSE R[f[n - 1]].parent
      OBVIOUS
    <2>1. f[n - 1] \in T
      BY <1>1
    <2> QED BY <2>1
  <1>5. f = [n \in 0..m |-> IF n = 0 THEN r ELSE IF f[n - 1] = 0 THEN 0 ELSE R[f[n - 1]].parent]
    <2> HIDE DEF G
    <2> QED BY <1>1, <1>3, <1>4
  <1>6. above = [n \in 0..m |-> IF n = 0 THEN r ELSE IF above[n - 1] = 0 THEN 0 ELSE R[above[n - 1]].parent]
    BY <1>5
  <1>7. supervisors(R, r) = [n \in 1..MaxDepth + 3 |-> IF n = 1 /\ R[r].kind = "continue" THEN 0 ELSE above[n - 1]]
    BY DEF supervisors
  <1> HIDE DEF above, G, T
  <1>8. \A n \in 0..m : above[n] \in T
    <2>1. above[0] \in T
      BY <1>1, <1>2, <1>6
    <2>2. ASSUME NEW n \in 1..m, above[n - 1] \in T PROVE above[n] \in T
      <3>1. above[n] = IF above[n - 1] = 0 THEN 0 ELSE R[above[n - 1]].parent
        BY <1>1, <1>6
      <3> QED BY <2>2, <3>1 DEF T
    <2> HIDE DEF m
    <2> QED BY <1>1, <2>1, <2>2, Climb
  <1>9. supervisors(R, r) \in [1..MaxDepth + 3 -> T]
    BY <1>1, <1>7, <1>8 DEF T
  <1>10. supervisors(R, r) \in Seq(T) /\ DOMAIN supervisors(R, r) = 1..MaxDepth + 3
    <2>1. MaxDepth + 3 \in Nat
      BY <1>1
    <2> QED BY <1>9, <2>1, SeqDef
  <1>11. Len(supervisors(R, r)) = MaxDepth + 3
    BY <1>1, <1>10, LenProperties
  <1>12. above[0] = r /\ r # 0 /\ above[1] = R[r].parent
    <2>1. above[0] = r /\ r # 0
      BY <1>1, <1>6
    <2>2. above[1] = IF above[0] = 0 THEN 0 ELSE R[above[0]].parent
      BY <1>1, <1>6
    <2> QED BY <2>1, <2>2
  <1>13. \A n \in 2..MaxDepth + 3 : supervisors(R, r)[n] = above[n - 1]
    BY <1>1, <1>7
  <1>14. ASSUME NEW n \in 2..MaxDepth + 2
         PROVE  supervisors(R, r)[n + 1] = IF supervisors(R, r)[n] = 0 THEN 0 ELSE R[supervisors(R, r)[n]].parent
    <2>1. n \in 1..m /\ n # 0 /\ n \in 2..MaxDepth + 3 /\ n + 1 \in 2..MaxDepth + 3 /\ (n + 1) - 1 = n
      BY <1>1
    <2>2. above[n] = IF above[n - 1] = 0 THEN 0 ELSE R[above[n - 1]].parent
      BY <1>1, <1>6, <2>1
    <2>3. supervisors(R, r)[n] = above[n - 1] /\ supervisors(R, r)[n + 1] = above[n]
      BY <1>13, <2>1
    <2> QED BY <2>2, <2>3
  <1>15. supervisors(R, r)[1] = IF R[r].kind = "continue" THEN 0 ELSE r
    BY <1>1, <1>7, <1>12
  <1>16. supervisors(R, r)[2] = R[r].parent
    BY <1>1, <1>12, <1>13
  <1> QED BY <1>9, <1>11, <1>14, <1>15, <1>16 DEF T

(* Following up a tree is continuing one supervisor after the other.       *)
TreeIs(f, R, r, P) ==
    /\ f \in [0..MaxDepth + 3 -> P] /\ f[0] = R /\ continueTree(R, r) = f[MaxDepth + 3]
    /\ \A n \in 1..MaxDepth + 3 : f[n] = continueSupervisor(f[n - 1], supervisors(R, r)[n])

LEMMA TreeSteps ==
    ASSUME NEW P, NEW R \in P, Len(R) \in Nat, NEW r \in 1..Len(R), \A q \in 1..Len(R) : R[q].parent \in 0..Len(R),
           \A y \in P, p \in 0..Len(R) : continueSupervisor(y, p) \in P
    PROVE  \E f : TreeIs(f, R, r, P)
  <1> DEFINE seq == supervisors(R, r)
             m == Len(seq)
             G == [n \in 1..m |-> [y \in P |-> continueSupervisor(y, seq[n])]]
             tree == CHOOSE tree : tree = [n \in 0..m |-> IF n = 0 THEN R ELSE continueSupervisor(tree[n - 1], seq[n])]
  <1>1. m \in Nat /\ m = MaxDepth + 3 /\ \A n \in 1..m : seq[n] \in 0..Len(R)
    BY Supervisors, AgentsAssumption
  <1>2. continueTree(R, r) = tree[m]
    BY DEF continueTree
  <1> HIDE DEF seq, m
  <1>3. G \in Steps(m, P)
    BY <1>1 DEF Steps
  <1>4. PICK f \in [0..m -> P] : f[0] = R /\ \A n \in 1..m : f[n] = G[n][f[n - 1]]
    <2> HIDE DEF G
    <2>1. \E f : Leads(f, m, R, G, P)
      BY <1>1, <1>3, FoldExists
    <2> QED BY <2>1 DEF Leads
  <1>5. \A n \in 1..m : f[n] = continueSupervisor(f[n - 1], seq[n])
    <2> SUFFICES ASSUME NEW n \in 1..m PROVE f[n] = continueSupervisor(f[n - 1], seq[n])
      OBVIOUS
    <2>1. f[n - 1] \in P
      BY <1>1
    <2> QED BY <1>4, <2>1
  <1>6. f = [n \in 0..m |-> IF n = 0 THEN R ELSE continueSupervisor(f[n - 1], seq[n])]
    <2> HIDE DEF G
    <2> QED BY <1>1, <1>4, <1>5
  <1>7. tree = [n \in 0..m |-> IF n = 0 THEN R ELSE continueSupervisor(tree[n - 1], seq[n])]
    BY <1>6
  <1> HIDE DEF tree, G
  <1>8. tree[0] = R /\ \A n \in 1..m : tree[n] = continueSupervisor(tree[n - 1], seq[n])
    BY <1>1, <1>7
  <1>9. \A n \in 0..m : tree[n] \in P
    <2>1. \A n \in 1..m : tree[n - 1] \in P => tree[n] \in P
      BY <1>1, <1>8
    <2> QED BY <1>1, <1>8, <2>1, Climb
  <1>10. tree \in [0..m -> P]
    BY <1>7, <1>9
  <1>11. TreeIs(tree, R, r, P)
    BY <1>1, <1>2, <1>8, <1>10 DEF TreeIs, seq
  <1> QED BY <1>11

(* What continuing one supervisor keeps in P, following up a tree does.    *)
LEMMA TreeIn ==
    ASSUME NEW P, NEW R \in P, Len(R) \in Nat, NEW r \in 1..Len(R), \A q \in 1..Len(R) : R[q].parent \in 0..Len(R),
           \A y \in P, p \in 0..Len(R) : continueSupervisor(y, p) \in P
    PROVE  continueTree(R, r) \in P
  <1>1. PICK f : TreeIs(f, R, r, P)
    BY TreeSteps
  <1>2. MaxDepth + 3 \in 0..MaxDepth + 3
    BY AgentsAssumption
  <1> QED BY <1>1, <1>2 DEF TreeIs

(* And ending runs, each followed up in turn.                              *)
LEMMA EndEachIn ==
    ASSUME NEW P, NEW R \in P, Len(R) \in Nat, NEW S,
           \A y \in P, n \in 1..Len(R) : n \in S /\ R[n].state \in Active =>
               continueTree([y EXCEPT ![n].state = "ended"], n) \in P
    PROVE  endEach(R, S) \in P
  <1> DEFINE m == Len(R)
             next(y, n) == IF n \in S /\ R[n].state \in Active THEN continueTree([y EXCEPT ![n].state = "ended"], n) ELSE y
             G == [n \in 1..m |-> [y \in P |-> next(y, n)]]
             upTo == CHOOSE upTo : upTo = [n \in 0..m |->
                         IF n = 0 THEN R
                         ELSE IF n \in S /\ R[n].state \in Active
                              THEN continueTree([upTo[n - 1] EXCEPT ![n].state = "ended"], n) ELSE upTo[n - 1]]
  <1>1. \A y \in P, n \in 1..m : next(y, n) \in P
    OBVIOUS
  <1>2. endEach(R, S) = upTo[m]
    BY DEF endEach
  <1>3. G \in Steps(m, P)
    <2> HIDE DEF next
    <2> QED BY <1>1 DEF Steps
  <1>4. PICK f \in [0..m -> P] : f[0] = R /\ \A n \in 1..m : f[n] = G[n][f[n - 1]]
    <2> HIDE DEF G
    <2>1. \E f : Leads(f, m, R, G, P)
      BY <1>3, FoldExists
    <2> QED BY <2>1 DEF Leads
  <1>5. \A n \in 1..m : f[n] = next(f[n - 1], n)
    <2> SUFFICES ASSUME NEW n \in 1..m PROVE f[n] = next(f[n - 1], n)
      OBVIOUS
    <2>1. f[n - 1] \in P
      OBVIOUS
    <2> HIDE DEF next
    <2> QED BY <1>4, <2>1
  <1>6. f = [n \in 0..m |-> IF n = 0 THEN R ELSE next(f[n - 1], n)]
    <2> HIDE DEF G, next
    <2> QED BY <1>4, <1>5
  <1>7. upTo = [n \in 0..m |-> IF n = 0 THEN R ELSE next(upTo[n - 1], n)]
    BY <1>6
  <1> HIDE DEF upTo, G, next, m
  <1>8. m \in Nat
    BY DEF m
  <1>9. \A n \in 0..m : upTo[n] \in P
    <2>1. upTo[0] \in P
      BY <1>7, <1>8
    <2>2. ASSUME NEW n \in 1..m, upTo[n - 1] \in P PROVE upTo[n] \in P
      <3>1. n \in 0..m /\ n # 0
        BY <1>8
      <3>2. upTo[n] = next(upTo[n - 1], n)
        BY <1>7, <3>1
      <3> QED BY <1>1, <2>2, <3>2
    <2> QED BY <1>8, <2>1, <2>2, Climb
  <1> QED BY <1>2, <1>8, <1>9

(* And a claim, once its runs are marked.                                  *)
ClaimMarked(R, c, p) ==
    [r \in DOMAIN R |->
        IF r = c.picked THEN [R[r] EXCEPT !.state = "running", !.started = TRUE, !.runner = p.life]
        ELSE IF r \in c.ended THEN [R[r] EXCEPT !.state = "ended"] ELSE R[r]]

ClaimIs(f, R, c, p, P) ==
    /\ f \in [0..Len(R) -> P] /\ f[0] = ClaimMarked(R, c, p) /\ claim(R, c, p) = f[Len(R)]
    /\ \A n \in 1..Len(R) : f[n] = IF n \in c.ended THEN continueTree(f[n - 1], n) ELSE f[n - 1]

LEMMA ClaimSteps ==
    ASSUME NEW P, NEW R, NEW c, NEW p, ClaimMarked(R, c, p) \in P, Len(R) \in Nat,
           \A y \in P, n \in 1..Len(R) : n \in c.ended => continueTree(y, n) \in P
    PROVE  \E f : ClaimIs(f, R, c, p, P)
  <1> DEFINE m == Len(R)
             marked == ClaimMarked(R, c, p)
             next(y, n) == IF n \in c.ended THEN continueTree(y, n) ELSE y
             G == [n \in 1..m |-> [y \in P |-> next(y, n)]]
             upTo == CHOOSE upTo : upTo = [n \in 0..m |->
                         IF n = 0 THEN ClaimMarked(R, c, p)
                         ELSE IF n \in c.ended THEN continueTree(upTo[n - 1], n) ELSE upTo[n - 1]]
  <1>1. \A y \in P, n \in 1..m : next(y, n) \in P
    OBVIOUS
  <1>2. claim(R, c, p) = upTo[m]
    BY DEF claim, ClaimMarked
  <1>3. G \in Steps(m, P)
    <2> HIDE DEF next
    <2> QED BY <1>1 DEF Steps
  <1>4. PICK f \in [0..m -> P] : f[0] = marked /\ \A n \in 1..m : f[n] = G[n][f[n - 1]]
    <2> HIDE DEF G, marked
    <2>0. marked \in P
      BY DEF marked
    <2>1. \E f : Leads(f, m, marked, G, P)
      BY <1>3, <2>0, FoldExists
    <2> QED BY <2>1 DEF Leads
  <1>5. \A n \in 1..m : f[n] = next(f[n - 1], n)
    <2> SUFFICES ASSUME NEW n \in 1..m PROVE f[n] = next(f[n - 1], n)
      OBVIOUS
    <2>1. f[n - 1] \in P
      OBVIOUS
    <2> HIDE DEF next
    <2> QED BY <1>4, <2>1
  <1>6. f = [n \in 0..m |-> IF n = 0 THEN marked ELSE next(f[n - 1], n)]
    <2> HIDE DEF G, next, marked
    <2> QED BY <1>4, <1>5
  <1>7. upTo = [n \in 0..m |-> IF n = 0 THEN marked ELSE next(upTo[n - 1], n)]
    BY <1>6
  <1> HIDE DEF upTo, G, next, m, marked
  <1>8. m \in Nat /\ marked \in P
    BY DEF m, marked
  <1>9. \A n \in 0..m : upTo[n] \in P
    <2>1. upTo[0] \in P
      BY <1>7, <1>8
    <2>2. ASSUME NEW n \in 1..m, upTo[n - 1] \in P PROVE upTo[n] \in P
      <3>1. n \in 0..m /\ n # 0
        BY <1>8
      <3>2. upTo[n] = next(upTo[n - 1], n)
        BY <1>7, <3>1
      <3> QED BY <1>1, <2>2, <3>2
    <2> QED BY <1>8, <2>1, <2>2, Climb
  <1>10. upTo \in [0..m -> P] /\ upTo[0] = marked
    BY <1>7, <1>8, <1>9
  <1>11. \A n \in 1..m : upTo[n] = next(upTo[n - 1], n)
    BY <1>7, <1>8
  <1>12. ClaimIs(upTo, R, c, p, P)
    BY <1>2, <1>10, <1>11 DEF ClaimIs, next, marked, m
  <1> QED BY <1>12

LEMMA ClaimIn ==
    ASSUME NEW P, NEW R, NEW c, NEW p, ClaimMarked(R, c, p) \in P, Len(R) \in Nat,
           \A y \in P, n \in 1..Len(R) : n \in c.ended => continueTree(y, n) \in P
    PROVE  claim(R, c, p) \in P
  <1>1. PICK f : ClaimIs(f, R, c, p, P)
    BY ClaimSteps
  <1> QED BY <1>1 DEF ClaimIs

-----------------------------------------------------------------------------
(* What keeps the rows in order.                                           *)

LEMMA RowTyped ==
    ASSUME NEW R, R \in Seq(RunRecord)
    PROVE  /\ Len(R) \in Nat /\ DOMAIN R = 1..Len(R)
           /\ \A r \in 1..Len(R) : R[r] \in RunRecord
  BY LenProperties

(* A settled hand-off stays settled while nothing is added below it.       *)
LEMMA SettledStays ==
    ASSUME NEW R, NEW y, NEW c, handoffSettled(R, c),
           ChildrenOf(y, c, "handoff") = ChildrenOf(R, c, "handoff"),
           ChildrenOf(y, c, "continue") = ChildrenOf(R, c, "continue"),
           y[c].state = R[c].state, y[c].agent = R[c].agent, R[c].continued => y[c].continued,
           \A f \in ChildrenOf(R, c, "continue") : R[f].state \in Finished => y[f].state \in Finished
    PROVE  handoffSettled(y, c)
  BY DEF handoffSettled, Finished

(* Rows that keep what they are, and end or act as they may.               *)
LEMMA MovesOK ==
    ASSUME NEW R, RowsOK(R), NEW y \in Seq(RunRecord), Len(y) = Len(R),
           \A r \in 1..Len(R) :
              /\ y[r].kind = R[r].kind /\ y[r].parent = R[r].parent /\ y[r].agent = R[r].agent
              /\ y[r].depth = R[r].depth /\ y[r].continued = R[r].continued /\ (R[r].state \in Finished => y[r].state = R[r].state)
              /\ y[r].given =< 1 /\ (y[r].state = "queued" => y[r].given = 0)
              /\ R[r].acts # "none" => y[r].acts # "none"
              /\ y[r].acts # R[r].acts => R[r].parent = 0 /\ (R[r].state = "answered" => y[r].acts = "over")
    PROVE  RowsOK(y)
  <1>1. DOMAIN y = DOMAIN R /\ DOMAIN R = 1..Len(R)
    BY RowTyped DEF RowsOK
  <1>2. \A p, k : ChildrenOf(y, p, k) = ChildrenOf(R, p, k)
    BY <1>1 DEF ChildrenOf
  <1> SUFFICES ASSUME NEW r \in DOMAIN R PROVE Row(y, r) /\ FollowUp(y, r)
    BY <1>1 DEF RowsOK
  <1>3. Row(y, r)
    <2>1. Row(R, r) /\ (R[r].parent # 0 => R[r].parent \in 1..Len(R))
      BY <1>1 DEF RowsOK, Row
    <2> QED BY <1>1, <2>1 DEF Row
  <1>4. FollowUp(y, r)
    <2> SUFFICES ASSUME y[r].kind = "continue" PROVE FollowUp(y, r)
      BY DEF FollowUp
    <2>1. R[r].kind = "continue" /\ FollowUp(R, r) /\ Row(R, r) /\ y[r].parent = R[r].parent
      BY <1>1 DEF RowsOK
    <2>2. PICK p : p = R[r].parent
      OBVIOUS
    <2>3. p \in 1..Len(R)
      BY <1>1, <2>1, <2>2 DEF Row
    <2>4. y[p].continued /\ y[p].state = "answered" /\ y[p].acts # "going"
          /\ (y[p].acts = "none" => ChildrenOf(R, p, "handoff") # {})
      BY <2>1, <2>2, <2>3 DEF FollowUp, Finished
    <2>5. ASSUME NEW c \in ChildrenOf(R, p, "handoff") PROVE handoffSettled(y, c)
      <3>1. c \in 1..Len(R) /\ handoffSettled(R, c)
        BY <1>1, <2>1, <2>2 DEF FollowUp, ChildrenOf
      <3>2. R[c].state \in Finished
        BY <3>1 DEF handoffSettled
      <3>3. \A f \in ChildrenOf(R, c, "continue") : R[f].state \in Finished => y[f].state \in Finished
        BY <1>1 DEF ChildrenOf
      <3> QED BY <1>2, <3>1, <3>2, <3>3, SettledStays
    <2> QED BY <1>2, <2>1, <2>2, <2>4, <2>5 DEF FollowUp
  <1> QED BY <1>3, <1>4

(* A run more, which is not a follow-up, under none or under a running one. *)
LEMMA AddedOK ==
    ASSUME NEW R, RowsOK(R), NEW x \in RunRecord, x.kind # "continue", x.acts = "none", x.given = 0,
           x.parent = 0 <=> x.kind \in {"ask", "schedule"}, x.depth =< MaxDepth, x.parent = 0 => x.depth = 0,
           x.parent # 0 => /\ x.parent \in 1..Len(R) /\ R[x.parent].state = "running"
                           /\ R[x.parent].kind # "continue" /\ x.depth = R[x.parent].depth + 1
    PROVE  RowsOK(Append(R, x))
  <1> DEFINE n == Len(R) + 1
  <1>1. PICK y : y = Append(R, x)
    OBVIOUS
  <1>2. R \in Seq(RunRecord) /\ Len(R) \in Nat /\ DOMAIN R = 1..Len(R) /\ x.parent \in Nat
    BY RowTyped DEF RowsOK, RunRecord
  <1>3. /\ y \in Seq(RunRecord) /\ Len(y) = n /\ DOMAIN y = 1..n /\ y[n] = x
        /\ \A r \in 1..Len(R) : y[r] = R[r] /\ r # n /\ r \in 1..n
        /\ \A r \in 1..n : r # n => r \in 1..Len(R)
    BY <1>1, <1>2
  <1> HIDE DEF n
  <1>4. \A p, k : k = "continue" \/ p # x.parent => ChildrenOf(y, p, k) = ChildrenOf(R, p, k)
    <2> SUFFICES ASSUME NEW p, NEW k, k = "continue" \/ p # x.parent PROVE ChildrenOf(y, p, k) = ChildrenOf(R, p, k)
      OBVIOUS
    <2>1. ~(y[n].parent = p /\ y[n].kind = k)
      BY <1>3
    <2> QED BY <1>2, <1>3, <2>1 DEF ChildrenOf
  <1>5. Row(y, n) /\ FollowUp(y, n)
    <2>1. x.parent # 0 => y[x.parent] = R[x.parent] /\ x.kind = "handoff"
      BY <1>3 DEF RunRecord
    <2> QED BY <1>2, <1>3, <2>1 DEF Row, FollowUp, n
  <1>6. ASSUME NEW r \in 1..Len(R) PROVE Row(y, r) /\ FollowUp(y, r)
    <2>1. Row(R, r) /\ FollowUp(R, r) /\ y[r] = R[r]
      BY <1>2, <1>3 DEF RowsOK
    <2>2. Row(y, r)
      <3>1. R[r].parent # 0 => y[R[r].parent] = R[R[r].parent]
        BY <1>2, <1>3, <2>1 DEF Row
      <3> QED BY <2>1, <3>1 DEF Row
    <2>3. FollowUp(y, r)
      <3> SUFFICES ASSUME R[r].kind = "continue" PROVE FollowUp(y, r)
        BY <2>1 DEF FollowUp
      <3>1. PICK p : p = R[r].parent
        OBVIOUS
      <3>2. p \in 1..Len(R) /\ y[p] = R[p]
        BY <1>2, <1>3, <2>1, <3>1 DEF Row
      <3>3. p # x.parent
        BY <2>1, <3>1, <3>2 DEF FollowUp
      <3>4. ASSUME NEW c \in ChildrenOf(R, p, "handoff")
            PROVE  handoffSettled(y, c) /\ ChildrenOf(y, c, "continue") = ChildrenOf(R, c, "continue")
        <4>1. c \in 1..Len(R) /\ handoffSettled(R, c)
          BY <1>2, <2>1, <3>1 DEF FollowUp, ChildrenOf
        <4>2. c # x.parent /\ y[c] = R[c]
          BY <1>3, <4>1 DEF handoffSettled, Finished
        <4>3. \A f \in ChildrenOf(R, c, "continue") : y[f] = R[f]
          BY <1>2, <1>3 DEF ChildrenOf
        <4> QED BY <1>4, <4>1, <4>2, <4>3, SettledStays
      <3> QED BY <1>4, <2>1, <3>1, <3>2, <3>3, <3>4 DEF FollowUp
    <2> QED BY <2>2, <2>3
  <1>7. \A r \in DOMAIN y : Row(y, r) /\ FollowUp(y, r)
    BY <1>3, <1>5, <1>6
  <1> QED BY <1>1, <1>3, <1>7 DEF RowsOK

LEMMA NewRunTyped ==
    ASSUME NEW a \in Agent, NEW kind \in {"ask", "schedule", "handoff", "continue"}, NEW p \in Nat, NEW d \in Nat
    PROVE  /\ NewRun(a, kind, p, d) \in RunRecord
           /\ NewRun(a, kind, p, d).kind = kind /\ NewRun(a, kind, p, d).parent = p /\ NewRun(a, kind, p, d).depth = d
           /\ NewRun(a, kind, p, d).agent = a /\ NewRun(a, kind, p, d).acts = "none"
           /\ NewRun(a, kind, p, d).given = 0 /\ NewRun(a, kind, p, d).state = "queued"
  BY DEF NewRun, RunRecord, Active, Finished

LEMMA Same == ASSUME NEW R, RowsOK(R) PROVE R \in After(R)
  BY RowTyped DEF After, Follows, RowsOK

(* What queuing a follow-up does to the rows.                              *)
Continued(R, p, y, n) ==
    /\ y \in Seq(RunRecord) /\ n = Len(R) + 1 /\ Len(y) = n /\ DOMAIN y = 1..n
    /\ \A r \in 1..n : r # n => r \in 1..Len(R)
    /\ y[n].kind = "continue" /\ y[n].parent = p /\ y[n].acts = "none" /\ y[n].given = 0 /\ y[n].state = "queued"
    /\ y[n].depth = R[p].depth /\ y[p].continued
    /\ \A r \in 1..Len(R) :
          /\ r # n /\ r \in 1..n
          /\ y[r].kind = R[r].kind /\ y[r].parent = R[r].parent /\ y[r].agent = R[r].agent
          /\ y[r].acts = R[r].acts /\ y[r].state = R[r].state /\ y[r].given = R[r].given
          /\ y[r].depth = R[r].depth /\ (R[r].continued => y[r].continued)
          /\ r # p => y[r].continued = R[r].continued
    /\ \A q, k : q # p \/ k # "continue" => ChildrenOf(y, q, k) = ChildrenOf(R, q, k)
    /\ ChildrenOf(R, p, "continue") = {} /\ ChildrenOf(y, p, "continue") = {n}

LEMMA ContinueRows ==
    ASSUME NEW R, RowsOK(R), NEW p \in 1..Len(R), mayContinue(R, p)
    PROVE  Continued(R, p, continueSupervisor(R, p), Len(R) + 1)
  <1> DEFINE n == Len(R) + 1
  <1>1. PICK x : x = NewRun(R[p].agent, "continue", p, R[p].depth)
    OBVIOUS
  <1>2. R \in Seq(RunRecord) /\ Len(R) \in Nat /\ DOMAIN R = 1..Len(R) /\ p \in 1..Len(R) /\ p # 0 /\ R[p] \in RunRecord
    BY RowTyped DEF RowsOK
  <1>3. x \in RunRecord /\ x.kind = "continue" /\ x.parent = p /\ x.acts = "none" /\ x.given = 0 /\ x.state = "queued"
        /\ x.depth = R[p].depth
    <2>1. R[p].agent \in Agent /\ R[p].depth \in Nat /\ p \in Nat
      BY <1>2 DEF RunRecord
    <2>2. PICK a \in Agent, d \in Nat : a = R[p].agent /\ d = R[p].depth
      BY <2>1
    <2>3. PICK kind \in {"ask", "schedule", "handoff", "continue"} : kind = "continue"
      OBVIOUS
    <2>4. x = NewRun(a, kind, p, d)
      BY <1>1, <2>2, <2>3
    <2>5. /\ x \in RunRecord /\ x.kind = kind /\ x.parent = p /\ x.acts = "none" /\ x.given = 0 /\ x.state = "queued"
          /\ x.depth = d
      BY <2>1, <2>4, NewRunTyped
    <2> QED BY <2>2, <2>3, <2>5
  <1>4. PICK y : y = [Append(R, x) EXCEPT ![p].continued = TRUE]
    OBVIOUS
  <1>5. continueSupervisor(R, p) = y
    BY <1>1, <1>4 DEF continueSupervisor
  <1>6. PICK u : u = [R[p] EXCEPT !.continued = TRUE]
    OBVIOUS
  <1>7. /\ u \in RunRecord /\ u.kind = R[p].kind /\ u.parent = R[p].parent /\ u.agent = R[p].agent /\ u.acts = R[p].acts /\ u.depth = R[p].depth
        /\ u.state = R[p].state /\ u.given = R[p].given /\ u.continued
    BY <1>2, <1>6 DEF RunRecord
  <1>8. /\ y \in Seq(RunRecord) /\ Len(y) = n /\ DOMAIN y = 1..n /\ y[n] = x /\ y[p] = u
        /\ \A r \in 1..Len(R) : r # p => y[r] = R[r]
        /\ \A r \in 1..Len(R) : r # n /\ r \in 1..n
        /\ \A r \in 1..n : r # n => r \in 1..Len(R)
    <2>1. PICK z : z = Append(R, x)
      OBVIOUS
    <2>2. z \in Seq(RunRecord) /\ Len(z) = n /\ z[n] = x /\ \A r \in 1..Len(R) : z[r] = R[r]
      BY <1>2, <1>3, <2>1
    <2>3. y = [z EXCEPT ![p] = u]
      BY <1>2, <1>4, <1>6, <2>1, <2>2
    <2> QED BY <1>2, <1>7, <2>2, <2>3
  <1> HIDE DEF n
  <1>9. \A r \in 1..Len(R) : /\ y[r].kind = R[r].kind /\ y[r].parent = R[r].parent /\ y[r].agent = R[r].agent
                             /\ y[r].acts = R[r].acts /\ y[r].state = R[r].state /\ y[r].given = R[r].given
                             /\ y[r].depth = R[r].depth /\ (R[r].continued => y[r].continued)
    BY <1>7, <1>8
  <1>10. \A q, k : q # p \/ k # "continue" => ChildrenOf(y, q, k) = ChildrenOf(R, q, k)
    <2> SUFFICES ASSUME NEW q, NEW k, q # p \/ k # "continue" PROVE ChildrenOf(y, q, k) = ChildrenOf(R, q, k)
      OBVIOUS
    <2>1. ~(y[n].parent = q /\ y[n].kind = k)
      BY <1>3, <1>8
    <2> QED BY <1>2, <1>8, <1>9, <2>1 DEF ChildrenOf
  <1>11. /\ ~R[p].continued /\ R[p].state = "answered" /\ R[p].acts # "going" /\ R[p].agent \notin gone /\ ~killed
         /\ R[p].acts = "none" => ChildrenOf(R, p, "handoff") # {}
         /\ \A c \in ChildrenOf(R, p, "handoff") : handoffSettled(R, c)
    BY DEF mayContinue
  <1>12. ChildrenOf(R, p, "continue") = {}
    BY <1>11 DEF RowsOK, FollowUp, ChildrenOf
  <1>13. ChildrenOf(y, p, "continue") = {n}
    <2>1. \A f \in 1..n : y[f].parent = p /\ y[f].kind = "continue" <=> f = n
      BY <1>2, <1>3, <1>8, <1>9, <1>12 DEF ChildrenOf
    <2>2. n \in 1..n
      BY <1>2 DEF n
    <2> QED BY <1>8, <2>1, <2>2 DEF ChildrenOf
  <1>14. \A r \in 1..Len(R) : r # p => y[r].continued = R[r].continued
    BY <1>8
  <1>15. y[p].continued /\ n = Len(R) + 1
    BY <1>7, <1>8 DEF n
  <1>16. Continued(R, p, y, n)
    BY <1>3, <1>8, <1>9, <1>10, <1>12, <1>13, <1>14, <1>15 DEF Continued
  <1> QED BY <1>5, <1>16 DEF n

(* A follow-up keeps the rows in order: what it reads is final.            *)
LEMMA ContinueOK ==
    ASSUME NEW R, RowsOK(R), NEW p \in 0..Len(R)
    PROVE  continueSupervisor(R, p) \in After(R)
  <1> DEFINE n == Len(R) + 1
  <1> SUFFICES ASSUME p # 0, mayContinue(R, p) PROVE continueSupervisor(R, p) \in After(R)
    BY Same DEF continueSupervisor
  <1>1. PICK y : y = continueSupervisor(R, p)
    OBVIOUS
  <1>2. R \in Seq(RunRecord) /\ Len(R) \in Nat /\ DOMAIN R = 1..Len(R) /\ p \in 1..Len(R) /\ R[p] \in RunRecord
    BY RowTyped DEF RowsOK
  <1> HIDE DEF n
  <1>3. Continued(R, p, y, n)
    BY <1>1, <1>2, ContinueRows DEF n
  <1>4. y[n].kind = "continue" /\ y[n].parent = p /\ y[n].acts = "none" /\ y[n].given = 0 /\ y[n].state = "queued"
        /\ y[n].depth = R[p].depth /\ y[p].continued
    BY <1>3 DEF Continued
  <1>8. /\ y \in Seq(RunRecord) /\ Len(y) = n /\ DOMAIN y = 1..n
        /\ \A r \in 1..Len(R) : r # n /\ r \in 1..n
        /\ \A r \in 1..n : r # n => r \in 1..Len(R)
    BY <1>3 DEF Continued
  <1>9. \A r \in 1..Len(R) : /\ y[r].kind = R[r].kind /\ y[r].parent = R[r].parent /\ y[r].agent = R[r].agent
                             /\ y[r].acts = R[r].acts /\ y[r].state = R[r].state /\ y[r].given = R[r].given
                             /\ y[r].depth = R[r].depth /\ (R[r].continued => y[r].continued)
    BY <1>3 DEF Continued
  <1>10. \A q, k : q # p \/ k # "continue" => ChildrenOf(y, q, k) = ChildrenOf(R, q, k)
    BY <1>3, Zenon DEF Continued
  <1>11. /\ ~R[p].continued /\ R[p].state = "answered" /\ R[p].acts # "going" /\ R[p].agent \notin gone /\ ~killed
         /\ R[p].acts = "none" => ChildrenOf(R, p, "handoff") # {}
         /\ \A c \in ChildrenOf(R, p, "handoff") : handoffSettled(R, c)
    BY DEF mayContinue
  <1>12. ChildrenOf(R, p, "continue") = {} /\ ChildrenOf(y, p, "continue") = {n}
    BY <1>3 DEF Continued
  <1>14. \A c \in 1..Len(R) : c # p /\ handoffSettled(R, c) => handoffSettled(y, c)
    <2> SUFFICES ASSUME NEW c \in 1..Len(R), c # p, handoffSettled(R, c) PROVE handoffSettled(y, c)
      OBVIOUS
    <2>1. \A f \in ChildrenOf(R, c, "continue") : R[f].state \in Finished => y[f].state \in Finished
      BY <1>2, <1>9 DEF ChildrenOf
    <2> QED BY <1>9, <1>10, <2>1, SettledStays
  <1>15. Row(y, n) /\ FollowUp(y, n)
    <2>1. Row(y, n)
      <3>1. Row(R, p) /\ R[p].kind # "continue"
        <4>1. \A c \in ChildrenOf(R, p, "handoff") : R[p].kind # "continue"
          BY <1>2 DEF ChildrenOf, RowsOK, Row
        <4> QED BY <1>2, <1>11, <4>1 DEF RowsOK, Row
      <3>2. y[p].kind # "continue" /\ y[p].depth = R[p].depth /\ p # 0
        BY <1>2, <1>9, <3>1
      <3>3. p \in 0..n - 1 /\ p # 0 /\ R[p].depth =< MaxDepth
        BY <1>2, <3>1 DEF Row, n
      <3>5. R[p].depth \in Nat
        BY <1>2 DEF RunRecord
      <3> QED BY <1>4, <3>2, <3>3, <3>5 DEF Row
    <2>2. \A c \in ChildrenOf(R, p, "handoff") : handoffSettled(y, c) /\ \A g \in ChildrenOf(y, c, "continue") : g < n
      <3> SUFFICES ASSUME NEW c \in ChildrenOf(R, p, "handoff")
                   PROVE  handoffSettled(y, c) /\ \A g \in ChildrenOf(y, c, "continue") : g < n
        OBVIOUS
      <3>1. c \in 1..Len(R) /\ R[c].parent = p /\ Row(R, c)
        BY <1>2 DEF ChildrenOf, RowsOK
      <3>2. c # p
        BY <1>2, <3>1 DEF Row
      <3>3. \A g \in ChildrenOf(R, c, "continue") : g < n
        BY <1>2 DEF ChildrenOf, n
      <3> QED BY <1>10, <1>11, <1>14, <3>1, <3>2, <3>3
    <2> QED BY <1>2, <1>4, <1>9, <1>10, <1>11, <1>12, <2>1, <2>2 DEF FollowUp
  <1>16. ASSUME NEW r \in 1..Len(R) PROVE Row(y, r) /\ FollowUp(y, r)
    <2>1. Row(R, r) /\ FollowUp(R, r)
      BY <1>2 DEF RowsOK
    <2>2. Row(y, r)
      <3>1. R[r].parent # 0 => R[r].parent \in 1..Len(R)
        BY <1>2, <2>1 DEF Row
      <3> QED BY <1>9, <2>1, <3>1 DEF Row
    <2>3. FollowUp(y, r)
      <3> SUFFICES ASSUME R[r].kind = "continue" PROVE FollowUp(y, r)
        BY <1>9, <2>1 DEF FollowUp
      <3>1. PICK q : q = R[r].parent
        OBVIOUS
      <3>2. q \in 1..Len(R)
        BY <1>2, <2>1, <3>1 DEF Row
      <3>3. q # p
        BY <1>11, <2>1, <3>1 DEF FollowUp
      <3>4. ASSUME NEW c \in ChildrenOf(R, q, "handoff")
            PROVE  handoffSettled(y, c) /\ ChildrenOf(y, c, "continue") = ChildrenOf(R, c, "continue")
        <4>1. c \in 1..Len(R) /\ handoffSettled(R, c) /\ R[c].parent = q /\ Row(R, c)
          BY <1>2, <2>1, <3>1 DEF FollowUp, ChildrenOf, RowsOK
        <4>2. c # p
          <5> SUFFICES ASSUME c = p PROVE FALSE
            OBVIOUS
          <5>1. R[p].acts = "none" /\ ChildrenOf(R, p, "handoff") # {}
            BY <1>2, <1>11, <3>2, <4>1 DEF Row
          <5> QED BY <1>11, <1>12, <4>1, <5>1 DEF handoffSettled
        <4> QED BY <1>10, <1>14, <4>1, <4>2
      <3> QED BY <1>9, <1>10, <2>1, <3>1, <3>2, <3>3, <3>4 DEF FollowUp
    <2> QED BY <2>2, <2>3
  <1>17. RowsOK(y)
    BY <1>8, <1>15, <1>16 DEF RowsOK
  <1>18. Follows(R, y)
    <2>1. Len(R) =< Len(y) /\ \A r \in 1..Len(y) : r > Len(R) => r = n
      BY <1>2, <1>8 DEF n
    <2> QED BY <1>4, <1>8, <1>9, <1>11, <2>1 DEF Follows
  <1> QED BY <1>1, <1>8, <1>17, <1>18 DEF After

LEMMA FollowsOn ==
    ASSUME NEW R, RowsOK(R), NEW y \in After(R), NEW z \in After(y)
    PROVE  z \in After(R)
  <1>1. Len(R) \in Nat /\ Len(y) \in Nat /\ Len(z) \in Nat
    BY RowTyped DEF After, RowsOK
  <1>2. Follows(R, y) /\ Follows(y, z)
    BY DEF After
  <1>3. Len(R) =< Len(z) /\ (killed => Len(z) = Len(R))
    BY <1>1, <1>2 DEF Follows
  <1>4. \A r \in 1..Len(R) :
          /\ z[r].parent = R[r].parent /\ z[r].given = R[r].given /\ z[r].acts = R[r].acts
          /\ z[r].state = R[r].state \/ (R[r].state \in Active /\ z[r].state = "ended")
    <2> SUFFICES ASSUME NEW r \in 1..Len(R)
                 PROVE /\ z[r].parent = R[r].parent /\ z[r].given = R[r].given /\ z[r].acts = R[r].acts
                       /\ z[r].state = R[r].state \/ (R[r].state \in Active /\ z[r].state = "ended")
      OBVIOUS
    <2>1. r \in 1..Len(y)
      BY <1>1, <1>2 DEF Follows
    <2> QED BY <1>2, <2>1 DEF Follows, Active
  <1>5. \A r \in 1..Len(z) : r > Len(R) => z[r].given = 0
    <2> SUFFICES ASSUME NEW r \in 1..Len(z), r > Len(R) PROVE z[r].given = 0
      OBVIOUS
    <2>1. CASE r > Len(y)
      BY <1>2, <2>1 DEF Follows
    <2>2. CASE ~(r > Len(y))
      <3>1. r \in 1..Len(y)
        BY <1>1, <2>2
      <3> QED BY <1>2, <3>1 DEF Follows
    <2> QED BY <2>1, <2>2
  <1>6. Follows(R, z)
    BY <1>3, <1>4, <1>5 DEF Follows
  <1> QED BY <1>6 DEF After

(* Ending active runs, with nothing followed up.                           *)
LEMMA EndsOK ==
    ASSUME NEW R, RowsOK(R), NEW y \in Seq(RunRecord), Len(y) = Len(R),
           \A r \in 1..Len(R) : y[r] = R[r] \/ (R[r].state \in Active /\ y[r] = [R[r] EXCEPT !.state = "ended"])
    PROVE  y \in After(R)
  <1>1. Len(R) \in Nat /\ DOMAIN R = 1..Len(R) /\ \A r \in 1..Len(R) : R[r] \in RunRecord
    BY RowTyped DEF RowsOK
  <1>2. ASSUME NEW r \in 1..Len(R)
        PROVE  /\ y[r].kind = R[r].kind /\ y[r].parent = R[r].parent /\ y[r].agent = R[r].agent
               /\ y[r].depth = R[r].depth /\ y[r].continued = R[r].continued /\ y[r].given = R[r].given /\ y[r].acts = R[r].acts
               /\ y[r].state = R[r].state \/ (R[r].state \in Active /\ y[r].state = "ended")
    <2>1. CASE y[r] = R[r]
      BY <2>1
    <2>2. CASE R[r].state \in Active /\ y[r] = [R[r] EXCEPT !.state = "ended"]
      BY <1>1, <2>2 DEF RunRecord
    <2> QED BY <2>1, <2>2
  <1>3. \A r \in 1..Len(R) : R[r].given =< 1 /\ (R[r].state = "queued" => R[r].given = 0)
    BY <1>1 DEF RowsOK, Row
  <1>4. RowsOK(y)
    <2>1. \A r \in 1..Len(R) : R[r].state \in Finished => y[r].state = R[r].state
      BY <1>2 DEF Active, Finished
    <2> QED BY <1>2, <1>3, <2>1, MovesOK
  <1>5. Follows(R, y)
    BY <1>1, <1>2 DEF Follows
  <1> QED BY <1>4, <1>5 DEF After

(* What follows an end up keeps the rows in order.                         *)
LEMMA TreeKeeps ==
    ASSUME NEW R, RowsOK(R), NEW r \in 1..Len(R)
    PROVE  continueTree(R, r) \in After(R)
  <1>1. Len(R) \in Nat /\ \A q \in 1..Len(R) : R[q].parent \in 0..Len(R)
    BY RowTyped DEF RowsOK, Row
  <1>2. R \in After(R)
    BY Same
  <1>3. ASSUME NEW y \in After(R), NEW p \in 0..Len(R) PROVE continueSupervisor(y, p) \in After(R)
    <2>1. RowsOK(y) /\ Len(y) \in Nat /\ Len(R) =< Len(y)
      BY RowTyped DEF After, Follows
    <2>2. p \in 0..Len(y)
      BY <1>1, <2>1
    <2>3. continueSupervisor(y, p) \in After(y)
      BY <2>1, <2>2, ContinueOK
    <2> QED BY <2>3, FollowsOn
  <1> QED BY <1>1, <1>2, <1>3, TreeIn

(* One end, not followed up yet.                                           *)
LEMMA EndOne ==
    ASSUME NEW y, RowsOK(y), NEW n \in 1..Len(y), y[n].state \in Active \union {"ended"}
    PROVE  LET z == [y EXCEPT ![n].state = "ended"]
           IN /\ z \in After(y) /\ Len(z) = Len(y) /\ z[n].state = "ended"
              /\ \A r \in 1..Len(y) :
                    /\ z[r].kind = y[r].kind /\ z[r].parent = y[r].parent /\ z[r].agent = y[r].agent
                    /\ z[r].continued = y[r].continued /\ z[r].acts = y[r].acts
                    /\ r # n => z[r] = y[r]
  <1>1. PICK z : z = [y EXCEPT ![n].state = "ended"]
    OBVIOUS
  <1>2. y \in Seq(RunRecord) /\ Len(y) \in Nat /\ DOMAIN y = 1..Len(y) /\ y[n] \in RunRecord
    BY RowTyped DEF RowsOK
  <1>3. PICK e : e = [y[n] EXCEPT !.state = "ended"]
    OBVIOUS
  <1>4. /\ e \in RunRecord /\ (y[n].state \notin Active => e = y[n]) /\ e.state = "ended"
        /\ e.kind = y[n].kind /\ e.parent = y[n].parent /\ e.agent = y[n].agent
        /\ e.continued = y[n].continued /\ e.acts = y[n].acts
    BY <1>2, <1>3 DEF RunRecord, Finished
  <1>5. z \in Seq(RunRecord) /\ Len(z) = Len(y) /\ z[n] = e /\ \A r \in 1..Len(y) : r # n => z[r] = y[r]
    <2>1. z = [y EXCEPT ![n] = e]
      BY <1>1, <1>2, <1>3
    <2> QED BY <1>2, <1>4, <2>1
  <1>6. \A r \in 1..Len(y) : z[r] = y[r] \/ (y[r].state \in Active /\ z[r] = [y[r] EXCEPT !.state = "ended"])
    BY <1>3, <1>4, <1>5
  <1>7. z \in After(y)
    BY <1>5, <1>6, EndsOK
  <1>8. \A r \in 1..Len(y) :
            /\ z[r].kind = y[r].kind /\ z[r].parent = y[r].parent /\ z[r].agent = y[r].agent
            /\ z[r].continued = y[r].continued /\ z[r].acts = y[r].acts
            /\ r # n => z[r] = y[r]
    BY <1>4, <1>5
  <1> QED BY <1>1, <1>4, <1>5, <1>7, <1>8

LEMMA EndEachKeeps ==
    ASSUME NEW R, RowsOK(R), NEW S
    PROVE  endEach(R, S) \in After(R)
  <1>1. Len(R) \in Nat /\ R \in After(R)
    BY Same, RowTyped DEF RowsOK
  <1>2. ASSUME NEW y \in After(R), NEW n \in 1..Len(R), R[n].state \in Active
        PROVE  continueTree([y EXCEPT ![n].state = "ended"], n) \in After(R)
    <2>1. PICK z : z = [y EXCEPT ![n].state = "ended"]
      OBVIOUS
    <2>2. RowsOK(y) /\ Follows(R, y) /\ Len(y) \in Nat
      BY RowTyped DEF After, RowsOK
    <2>3. n \in 1..Len(y) /\ y[n].state \in Active \union {"ended"}
      BY <1>1, <1>2, <2>2 DEF Follows
    <2>4. z \in After(y) /\ Len(z) = Len(y)
      BY <2>1, <2>2, <2>3, EndOne
    <2>5. continueTree(z, n) \in After(z)
      BY <2>3, <2>4, TreeKeeps DEF After
    <2>6. z \in After(R)
      BY <2>4, FollowsOn
    <2> QED BY <2>1, <2>5, <2>6, FollowsOn
  <1> QED BY <1>1, <1>2, EndEachIn

(* What a poll picks waits, may be given out, and is not ended on the way. *)
LEMMA Chosen ==
    ASSUME NEW R, NEW aged, NEW busy, RowsOK(R)
    PROVE  LET c == chooseRun(R, aged, busy)
           IN /\ c.picked = 0 \/ (c.picked \in 1..Len(R) /\ R[c.picked].state = "queued")
              /\ \A r \in c.ended : r \in 1..Len(R) /\ R[r].state = "queued" /\ r # c.picked
  <1> DEFINE open == eligible(R, aged, busy)
             best == {r \in open : /\ ~handOutRefusal(R, r)
                                   /\ \A q \in open : Before(R, q, r) => handOutRefusal(R, q)}
             picked == IF best = {} THEN 0 ELSE CHOOSE r \in best : TRUE
             ended == dropped(R, aged) \union {q \in open : picked = 0 \/ Before(R, q, picked)}
  <1>1. /\ chooseRun(R, aged, busy).picked = picked
        /\ chooseRun(R, aged, busy).ended = ended
    BY DEF chooseRun
  <1>2. DOMAIN R = 1..Len(R) /\ Len(R) \in Nat /\ \A r \in DOMAIN R : R[r] \in RunRecord
    BY RowTyped DEF RowsOK
  <1>3. \A r \in open : r \in 1..Len(R) /\ R[r].state = "queued" /\ r \notin dropped(R, aged)
    BY <1>2 DEF eligible, InState
  <1>4. \A r \in dropped(R, aged) : r \in 1..Len(R) /\ R[r].state = "queued"
    BY <1>2 DEF dropped, InState
  <1>5. picked = 0 \/ picked \in open
    OBVIOUS
  <1>6. \A r \in open : ~Before(R, r, r)
    <2> SUFFICES ASSUME NEW r \in 1..Len(R) PROVE ~Before(R, r, r)
      BY <1>3
    <2>1. R[r].kind \in {"ask", "schedule", "handoff", "continue"}
      BY <1>2 DEF RunRecord
    <2>2. Rank[R[r].kind] \in Nat
      BY <2>1 DEF Rank
    <2> QED BY <2>2 DEF Before
  <1> HIDE DEF open
  <1>7. picked = 0 \/ (picked \in 1..Len(R) /\ R[picked].state = "queued")
    BY <1>3, <1>5
  <1>8. \A r \in ended : r \in 1..Len(R) /\ R[r].state = "queued" /\ r # picked
    <2> SUFFICES ASSUME NEW r \in ended PROVE r \in 1..Len(R) /\ R[r].state = "queued" /\ r # picked
      OBVIOUS
    <2> HIDE DEF picked
    <2>1. CASE r \in dropped(R, aged)
      BY <1>2, <1>3, <1>4, <1>5, <2>1
    <2>2. CASE r \in open /\ (picked = 0 \/ Before(R, r, picked))
      BY <1>2, <1>3, <1>6, <2>2
    <2> QED BY <2>1, <2>2
  <1> QED BY <1>1, <1>7, <1>8

(* The claim: the picked run is marked running, the others end in turn.    *)
Claimed(x, p) == [x EXCEPT !.state = "running", !.started = TRUE, !.runner = p.life]
Picked(R, k, p) == IF k = 0 THEN R ELSE [R EXCEPT ![k] = Claimed(@, p)]

LEMMA PickedOK ==
    ASSUME NEW R, RowsOK(R), NEW k \in 0..Len(R), k # 0 => R[k].state = "queued", NEW p \in Poll
    PROVE  /\ RowsOK(Picked(R, k, p)) /\ Len(Picked(R, k, p)) = Len(R)
           /\ \A r \in 1..Len(R) : Picked(R, k, p)[r] = IF r = k THEN Claimed(R[r], p) ELSE R[r]
           /\ k # 0 => Picked(R, k, p)[k].state = "running" /\ Picked(R, k, p)[k].given = 0
  <1>1. R \in Seq(RunRecord) /\ Len(R) \in Nat /\ DOMAIN R = 1..Len(R) /\ \A r \in 1..Len(R) : R[r] \in RunRecord /\ Row(R, r)
    BY RowTyped DEF RowsOK
  <1>2. CASE k = 0
    <2>1. Picked(R, k, p) = R /\ \A r \in 1..Len(R) : r # k
      BY <1>1, <1>2 DEF Picked
    <2> QED BY <1>2, <2>1
  <1>3. CASE k # 0
    <2>1. k \in 1..Len(R) /\ p.life \in Nat
      BY <1>1, <1>3 DEF Poll
    <2>2. PICK e : e = Claimed(R[k], p)
      OBVIOUS
    <2>3. /\ e \in RunRecord /\ e.kind = R[k].kind /\ e.parent = R[k].parent /\ e.agent = R[k].agent
          /\ e.depth = R[k].depth /\ e.continued = R[k].continued /\ e.acts = R[k].acts /\ e.given = R[k].given /\ e.state = "running"
      BY <1>1, <2>1, <2>2 DEF RunRecord, Active, Claimed
    <2>4. PICK y : y = [R EXCEPT ![k] = e]
      OBVIOUS
    <2>5. Picked(R, k, p) = y
      BY <1>3, <2>2, <2>4 DEF Picked
    <2>6. y \in Seq(RunRecord) /\ Len(y) = Len(R) /\ y[k] = e /\ \A r \in 1..Len(R) : r # k => y[r] = R[r]
      BY <1>1, <2>1, <2>3, <2>4
    <2>7. R[k].given = 0
      BY <1>1, <1>3, <2>1 DEF Row
    <2>8. \A r \in 1..Len(R) :
              /\ y[r].kind = R[r].kind /\ y[r].parent = R[r].parent /\ y[r].agent = R[r].agent
              /\ y[r].depth = R[r].depth /\ y[r].continued = R[r].continued /\ (R[r].state \in Finished => y[r].state = R[r].state)
              /\ y[r].given =< 1 /\ (y[r].state = "queued" => y[r].given = 0) /\ y[r].acts = R[r].acts
      BY <1>1, <1>3, <2>3, <2>6, <2>7 DEF Row, Finished
    <2>9. RowsOK(y)
      BY <2>6, <2>8, MovesOK
    <2> QED BY <2>2, <2>3, <2>5, <2>6, <2>7, <2>9
  <1> QED BY <1>2, <1>3

LEMMA ClaimMarks ==
    ASSUME NEW R, RowsOK(R), NEW c, NEW p \in Poll, NEW k \in 0..Len(R), c.picked = k, k # 0 => R[k].state = "queued",
           \A r \in c.ended : r \in 1..Len(R) /\ R[r].state = "queued" /\ r # k
    PROVE  LET y == ClaimMarked(R, c, p)
           IN /\ y \in After(Picked(R, k, p))
              /\ RowsOK(y) /\ y \in Seq(RunRecord) /\ Len(y) = Len(R)
              /\ \A r \in 1..Len(R) :
                    /\ y[r].kind = R[r].kind /\ y[r].parent = R[r].parent /\ y[r].agent = R[r].agent
                    /\ y[r].continued = R[r].continued /\ y[r].acts = R[r].acts
                    /\ R[r].state \in Finished => y[r].state = R[r].state
                    /\ R[r].state \in Active => y[r].state \in Active \/ r \in c.ended
                    /\ r \in c.ended => y[r].state = "ended"
  <1> DEFINE M == Picked(R, k, p)
  <1>2. /\ RowsOK(M) /\ Len(M) = Len(R)
        /\ \A r \in 1..Len(R) : M[r] = IF r = k THEN Claimed(R[r], p) ELSE R[r]
    BY PickedOK
  <1> HIDE DEF M
  <1>a. Len(M) = Len(R)
    BY <1>2
  <1>3. /\ Len(R) \in Nat /\ DOMAIN R = 1..Len(R) /\ \A r \in 1..Len(R) : R[r] \in RunRecord
        /\ \A r \in 1..Len(R) : M[r] \in RunRecord
    BY <1>2, RowTyped DEF RowsOK
  <1>4. PICK y : y = ClaimMarked(R, c, p)
    OBVIOUS
  <1>5. \A r \in 1..Len(R) : y[r] = IF r \in c.ended THEN [M[r] EXCEPT !.state = "ended"] ELSE M[r]
    BY <1>2, <1>3, <1>4 DEF ClaimMarked, Claimed
  <1>6. \A r \in 1..Len(R) : [M[r] EXCEPT !.state = "ended"] \in RunRecord
    <2>1. \A x \in RunRecord : [x EXCEPT !.state = "ended"] \in RunRecord
      BY DEF RunRecord, Finished
    <2> QED BY <1>3, <2>1
  <1>7. \A r \in 1..Len(R) : y[r] \in RunRecord
    BY <1>3, <1>5, <1>6
  <1>8. y \in [1..Len(R) -> RunRecord]
    BY <1>3, <1>4, <1>7 DEF ClaimMarked
  <1>9. y \in Seq(RunRecord) /\ Len(y) = Len(R)
    <2>1. y \in Seq(RunRecord) /\ DOMAIN y = 1..Len(R)
      BY <1>3, <1>8, SeqDef
    <2> QED BY <1>3, <2>1, LenProperties
  <1>10. \A r \in 1..Len(R) : y[r] = M[r] \/ (M[r].state \in Active /\ y[r] = [M[r] EXCEPT !.state = "ended"])
    BY <1>2, <1>5 DEF Active, Claimed
  <1>11. y \in After(M)
    BY <1>2, <1>9, <1>10, EndsOK
  <1>12. ASSUME NEW r \in 1..Len(R)
         PROVE  /\ y[r].kind = R[r].kind /\ y[r].parent = R[r].parent /\ y[r].agent = R[r].agent
                /\ y[r].continued = R[r].continued /\ y[r].acts = R[r].acts
                /\ R[r].state \in Finished => y[r].state = R[r].state
                /\ R[r].state \in Active => y[r].state \in Active \/ r \in c.ended
                /\ r \in c.ended => y[r].state = "ended"
    <2>1. R[r] \in RunRecord
      BY <1>3
    <2>2. CASE r \in c.ended
      <3>1. y[r] = [R[r] EXCEPT !.state = "ended"] /\ R[r].state = "queued"
        BY <1>2, <1>5, <2>2
      <3> QED BY <2>1, <2>2, <3>1 DEF RunRecord, Finished
    <2>3. CASE r \notin c.ended /\ r = k
      <3>1. M[r] = Claimed(R[r], p)
        BY <1>2, <2>3
      <3>2. y[r] = M[r]
        BY <1>5, <2>3
      <3>3. R[r].state = "queued"
        BY <2>3
      <3> QED BY <2>1, <2>3, <3>1, <3>2, <3>3 DEF RunRecord, Finished, Active, Claimed
    <2>4. CASE r \notin c.ended /\ r # k
      <3>1. y[r] = R[r]
        BY <1>2, <1>5, <2>4
      <3> QED BY <2>4, <3>1
    <2> QED BY <2>2, <2>3, <2>4
  <1>13. RowsOK(y)
    BY <1>11 DEF After
  <1> QED BY <1>4, <1>9, <1>11, <1>12, <1>13 DEF M

LEMMA ClaimKeeps ==
    ASSUME NEW R, RowsOK(R), NEW c, NEW p \in Poll, NEW k \in 0..Len(R), c.picked = k, k # 0 => R[k].state = "queued",
           \A r \in c.ended : r \in 1..Len(R) /\ R[r].state = "queued" /\ r # k
    PROVE  claim(R, c, p) \in After(Picked(R, k, p))
  <1> DEFINE M == Picked(R, k, p)
  <1>2. /\ RowsOK(M) /\ Len(M) = Len(R)
        /\ \A r \in 1..Len(R) : M[r] = IF r = k THEN Claimed(R[r], p) ELSE R[r]
    BY PickedOK
  <1> HIDE DEF M
  <1>a. Len(M) = Len(R)
    BY <1>2
  <1>3. /\ Len(R) \in Nat /\ DOMAIN R = 1..Len(R) /\ \A r \in 1..Len(R) : R[r] \in RunRecord
        /\ \A r \in 1..Len(R) : M[r] \in RunRecord
    BY <1>2, RowTyped DEF RowsOK
  <1>4. ClaimMarked(R, c, p) \in After(M)
    BY ClaimMarks DEF M
  <1>12. ASSUME NEW z \in After(M), NEW n \in 1..Len(R) PROVE continueTree(z, n) \in After(M)
    <2>1. RowsOK(z) /\ Len(M) =< Len(z) /\ z \in Seq(RunRecord)
      BY DEF After, Follows
    <2>a. Len(z) \in Nat
      BY <2>1, RowTyped
    <2>b. n \in 1..Len(z)
      <3>1. Len(R) \in Nat /\ n \in 1..Len(R) /\ Len(R) =< Len(z)
        BY <1>a, <1>3, <2>1
      <3> QED BY <2>a, <3>1
    <2>2. continueTree(z, n) \in After(z)
      BY <2>1, <2>b, TreeKeeps
    <2> QED BY <1>2, <2>2, FollowsOn
  <1>13. claim(R, c, p) \in After(M)
    BY <1>3, <1>4, <1>12, ClaimIn
  <1> QED BY <1>13 DEF M

-----------------------------------------------------------------------------
(* What the steps share.                                                   *)

(* What points at the rows points at those that come of them as well.      *)
LEMMA PointsOnward ==
    ASSUME NEW R, RowsOK(R), NEW y \in After(R), NEW a, NEW w, NEW f, NEW P, NEW h, h => killed,
           Points(R, a, w, f, P, h)
    PROVE  RowsOK(y) /\ Points(y, a, w, f, P, h)
  <1>1. RowsOK(y) /\ Follows(R, y) /\ Len(R) \in Nat /\ Len(y) \in Nat /\ Len(R) =< Len(y)
    BY RowTyped DEF After, RowsOK, Follows
  <1>2. \A r \in 1..Len(R) :
          /\ r \in 1..Len(y) /\ y[r].parent = R[r].parent /\ y[r].given = R[r].given /\ y[r].acts = R[r].acts
          /\ y[r].state = R[r].state \/ (R[r].state \in Active /\ y[r].state = "ended")
    BY <1>1 DEF Follows
  <1>3. a \in 0..Len(y) /\ w \in 0..Len(y) /\ f \subseteq 1..Len(y)
    BY <1>1, <1>2 DEF Points
  <1>4. ASSUME NEW p \in P PROVE p.run \in 0..Len(y) /\ (p.run # 0 => y[p.run].given = 0 /\ y[p.run].state # "queued")
    <2>1. p.run \in 0..Len(R) /\ (p.run # 0 => R[p.run].given = 0 /\ R[p.run].state # "queued")
      BY DEF Points
    <2>2. p.run # 0 => p.run \in 1..Len(R)
      BY <1>1, <2>1
    <2> QED BY <1>1, <1>2, <2>1, <2>2
  <1>5. a # 0 => y[a].parent = 0 /\ y[a].acts = "none" /\ y[a].state # "answered"
    <2>1. a # 0 => a \in 1..Len(R)
      BY <1>1 DEF Points
    <2> QED BY <1>2, <2>1 DEF Points
  <1>6. ASSUME h PROVE \A r \in 1..Len(y) : y[r].state \notin Active
    <2>1. Len(y) = Len(R)
      BY <1>1, <1>6 DEF Follows
    <2> QED BY <1>2, <1>6, <2>1 DEF Points, Active
  <1> QED BY <1>1, <1>3, <1>4, <1>5, <1>6 DEF Points

(* Rows in order stay so when an agent goes.                               *)
LEMMA ToRows ==
    ASSUME NEW R, RowsOK(R), runs' = R, gone \subseteq gone'
    PROVE  RowsOK(runs)'
  <1>1. \A c : handoffSettled(R, c) => handoffSettled(runs, c)'
    BY DEF handoffSettled, ChildrenOf, Finished
  <1>2. \A f : FollowUp(R, f) => FollowUp(runs, f)'
    BY <1>1 DEF FollowUp, ChildrenOf
  <1> QED BY <1>2 DEF RowsOK, Row

(* A step keeps the invariant that leads to rows in order, pointed at.     *)
LEMMA Settles ==
    ASSUME NEW y, RowsOK(y), Points(y, acting', work', finishing', polls', halted'), runs' = y, gone \subseteq gone', Rest'
    PROVE  AgentsInv'
  <1>1. RowsOK(runs)'
    BY ToRows
  <1>2. Pointed(runs)'
    BY DEF Pointed, Points
  <1> QED BY <1>1, <1>2 DEF AgentsInv

(* Nothing active is left once the kill switch is used.                    *)
LEMMA NotHalted ==
    ASSUME AgentsInv, NEW r \in 1..Len(runs), runs[r].state \in Active
    PROVE  ~halted
  BY DEF AgentsInv, Pointed, Points

(* Nothing points at a run just queued.                                    *)
LEMMA AddedPoints ==
    ASSUME NEW R, RowsOK(R), NEW x \in RunRecord, NEW a, NEW w, NEW f, NEW P, NEW h, ~h,
           Points(R, a, w, f, P, h)
    PROVE  Points(Append(R, x), a, w, f, P, h)
  <1>1. R \in Seq(RunRecord) /\ Len(R) \in Nat
    BY RowTyped DEF RowsOK
  <1>2. PICK y : y = Append(R, x)
    OBVIOUS
  <1>3. Len(y) = Len(R) + 1 /\ \A r \in 1..Len(R) : y[r] = R[r]
    BY <1>1, <1>2
  <1>4. \A r \in 0..Len(R) : r \in 0..Len(y) /\ (r # 0 => r \in 1..Len(R) /\ r \in 1..Len(y))
    BY <1>1, <1>3
  <1>5. Points(y, a, w, f, P, h)
    <2>1. \A p \in P : p.run \in 0..Len(y) /\ (p.run # 0 => y[p.run].given = 0 /\ y[p.run].state # "queued")
      BY <1>3, <1>4 DEF Points
    <2>2. a # 0 => y[a].parent = 0 /\ y[a].acts = "none" /\ y[a].state # "answered"
      BY <1>3, <1>4 DEF Points
    <2>3. a \in 0..Len(y) /\ w \in 0..Len(y)
      BY <1>4 DEF Points
    <2>4. f \subseteq 1..Len(y)
      BY <1>1, <1>3 DEF Points
    <2> QED BY <2>1, <2>2, <2>3, <2>4 DEF Points
  <1> QED BY <1>2, <1>5

(* Settings and polls left alone leave Rest.                               *)
LEMMA RestStays ==
    ASSUME Rest, UNCHANGED <<settingVars, runnerVars, serviceVars>>, faults' \in Nat
    PROVE  Rest' /\ gone' = gone /\ work' = work /\ polls' = polls /\ halted' = halted
  BY DEF Rest, settingVars, runnerVars, serviceVars, paused

LEMMA FaultCounts == ASSUME Rest, fault PROVE faults' \in Nat
  BY DEF Rest, fault
-----------------------------------------------------------------------------
(* One lemma for each step, or for those that do the same to the rows.     *)

LEMMA QueueKeeps ==
    ASSUME AgentsInv, NEW x \in RunRecord, x.kind \in {"ask", "schedule"}, x.acts = "none", x.given = 0, x.parent = 0, x.depth = 0,
           ~paused, runs' = Append(runs, x),
           UNCHANGED <<settingVars, runnerVars, serviceVars, finishing, acting, faults>>
    PROVE  AgentsInv'
  <1>1. RowsOK(runs) /\ Rest /\ Points(runs, acting, work, finishing, polls, halted) /\ ~halted /\ faults' \in Nat
    BY DEF AgentsInv, Pointed, Rest
  <1>2. RowsOK(Append(runs, x))
    BY <1>1, AddedOK, AgentsAssumption
  <1>3. Points(Append(runs, x), acting, work, finishing, polls, halted)
    BY <1>1, AddedPoints
  <1>4. Rest' /\ gone' = gone /\ work' = work /\ polls' = polls /\ halted' = halted
    BY <1>1, RestStays
  <1>5. Points(Append(runs, x), acting', work', finishing', polls', halted')
    BY <1>3, <1>4
  <1> QED BY <1>2, <1>4, <1>5, Settles

LEMMA AskKeeps ==
    ASSUME AgentsInv, NEW a \in Agent, startRun(a) \/ enqueueSystem(a)
    PROVE  AgentsInv'
  <1>1. PICK kind \in {"ask", "schedule"} : runs' = Append(runs, NewRun(a, kind, 0, 0))
    BY DEF startRun, enqueueSystem
  <1>2. PICK x : x = NewRun(a, kind, 0, 0)
    OBVIOUS
  <1>3. x \in RunRecord /\ x.kind = kind /\ x.parent = 0 /\ x.acts = "none" /\ x.given = 0 /\ x.depth = 0
    BY <1>2, NewRunTyped
  <1>4. ~paused /\ UNCHANGED <<settingVars, runnerVars, serviceVars, finishing, acting, faults>>
    BY DEF startRun, enqueueSystem, mayStart, mayQueue
  <1> QED BY <1>1, <1>2, <1>3, <1>4, QueueKeeps

LEMMA OpinionKeeps ==
    ASSUME AgentsInv, NEW r \in finishing, askSecondOpinion(r)
    PROVE  AgentsInv'
  <1>1. r \in 1..Len(runs) /\ runs \in Seq(RunRecord) /\ DOMAIN runs = 1..Len(runs) /\ runs[r] \in RunRecord
        /\ Row(runs, r) /\ r \in Nat
    BY RowTyped DEF AgentsInv, RowsOK, Pointed, Points
  <1>2. PICK kind : kind = runs[r].kind
    OBVIOUS
  <1>3. kind \in {"ask", "schedule"} /\ runs[r].agent \in Agent
    BY <1>1, <1>2 DEF askSecondOpinion, Row, RunRecord
  <1>4. PICK z : z = NewRun(runs[r].agent, kind, 0, 0)
    OBVIOUS
  <1>5. z \in RunRecord /\ z.kind = kind /\ z.parent = 0 /\ z.acts = "none" /\ z.given = 0 /\ z.depth = 0
    BY <1>3, <1>4, NewRunTyped
  <1>6. PICK x : x = [z EXCEPT !.opinionOf = r]
    OBVIOUS
  <1>7. x \in RunRecord /\ x.kind = kind /\ x.parent = 0 /\ x.acts = "none" /\ x.given = 0 /\ x.depth = 0
    BY <1>1, <1>5, <1>6 DEF RunRecord
  <1>8. runs' = Append(runs, x)
    BY <1>2, <1>4, <1>6 DEF askSecondOpinion
  <1>9. ~paused /\ UNCHANGED <<settingVars, runnerVars, serviceVars, finishing, acting, faults>>
    BY DEF askSecondOpinion, mayQueue
  <1> QED BY <1>3, <1>7, <1>8, <1>9, QueueKeeps

LEMMA HandoffKeeps ==
    ASSUME AgentsInv, NEW a \in Agent, handoffFor(a)
    PROVE  AgentsInv'
  <1>1. RowsOK(runs) /\ Rest /\ Points(runs, acting, work, finishing, polls, halted) /\ faults' \in Nat
    BY DEF AgentsInv, Pointed, Rest, handoffFor
  <1>2. work \in 1..Len(runs) /\ runs[work].state = "running" /\ runs[work] \in RunRecord /\ work \in Nat /\ work # 0
    <2>1. work \in 1..Len(runs) /\ runs[work].state = "running"
      BY <1>1 DEF handoffFor, Points
    <2> QED BY <1>1, <2>1, RowTyped DEF RowsOK
  <1>3. PICK d : d = runs[work].depth + 1
    OBVIOUS
  <1>4. PICK x : x = NewRun(a, "handoff", work, d)
    OBVIOUS
  <1>5. x \in RunRecord /\ x.kind = "handoff" /\ x.parent = work /\ x.acts = "none" /\ x.given = 0 /\ x.depth = d
    <2>1. d \in Nat
      BY <1>2, <1>3 DEF RunRecord
    <2>2. work \in Nat
      BY <1>2
    <2>3. PICK w \in Nat : w = work
      BY <2>2
    <2>4. PICK kind \in {"ask", "schedule", "handoff", "continue"} : kind = "handoff"
      OBVIOUS
    <2>5. x = NewRun(a, kind, w, d)
      BY <1>4, <2>3, <2>4
    <2>6. x \in RunRecord /\ x.kind = kind /\ x.parent = w /\ x.acts = "none" /\ x.given = 0 /\ x.depth = d
      BY <2>1, <2>5, NewRunTyped
    <2> QED BY <2>3, <2>4, <2>6
  <1>6. runs' = Append(runs, x)
    BY <1>3, <1>4 DEF handoffFor
  <1>7. RowsOK(Append(runs, x))
    <2>1. runs[work].kind # "continue" /\ d =< MaxDepth
      BY <1>3 DEF handoffFor
    <2> QED BY <1>1, <1>2, <1>3, <1>5, <2>1, AddedOK
  <1>8. ~halted
    BY <1>2, NotHalted DEF Active
  <1>9. Points(Append(runs, x), acting, work, finishing, polls, halted)
    BY <1>1, <1>5, <1>8, AddedPoints
  <1>10. Rest' /\ gone' = gone /\ work' = work /\ polls' = polls /\ halted' = halted /\ acting' = acting /\ finishing' = finishing
    BY <1>1, RestStays DEF handoffFor
  <1> QED BY <1>6, <1>7, <1>9, <1>10, Settles

(* What only ends runs and follows them up, and leaves less pointed at.    *)
LEMMA FollowKeeps ==
    ASSUME AgentsInv, NEW y \in After(runs), runs' = y, gone \subseteq gone', Rest',
           acting' \in {acting, 0}, work' \in {work, 0}, finishing' \subseteq finishing, halted' => halted,
           \A p \in polls' : p.run = 0 \/ \E q \in polls : q.run = p.run
    PROVE  AgentsInv'
  <1>1. RowsOK(runs) /\ Points(runs, acting, work, finishing, polls, halted) /\ (halted => killed)
    BY DEF AgentsInv, Pointed, Rest
  <1>2. RowsOK(y) /\ Points(y, acting, work, finishing, polls, halted)
    BY <1>1, PointsOnward
  <1>3. Len(y) \in Nat
    BY RowTyped DEF After
  <1>4. Points(y, acting', work', finishing', polls', halted')
    <2>1. \A p \in polls' : p.run \in 0..Len(y) /\ (p.run # 0 => y[p.run].given = 0 /\ y[p.run].state # "queued")
      BY <1>2, <1>3 DEF Points
    <2> QED BY <1>2, <1>3, <2>1 DEF Points
  <1> QED BY <1>2, <1>4, Settles

LEMMA EndsKeep ==
    ASSUME AgentsInv, NEW y \in After(runs), runs' = y,
           UNCHANGED <<settingVars, life, polls, serviceVars, acting>>, greeted' \in BOOLEAN, work' \in {work, 0},
           finishing' \subseteq finishing, faults' \in Nat
    PROVE  AgentsInv'
  <1>1. Rest'
    BY DEF AgentsInv, Rest, settingVars, serviceVars, paused
  <1> QED BY <1>1, FollowKeeps DEF settingVars

LEMMA HelloKeeps == ASSUME AgentsInv, runnerHello PROVE AgentsInv'
  <1>1. PICK S : S = {r \in InState(runs, "running") : runs[r].runner # life}
    OBVIOUS
  <1>2. endEach(runs, S) \in After(runs)
    BY EndEachKeeps DEF AgentsInv
  <1> QED BY <1>1, <1>2, EndsKeep DEF runnerHello, AgentsInv, Rest

LEMMA HeartbeatKeeps == ASSUME AgentsInv, NEW late \in BOOLEAN, runnerHeartbeat(late) PROVE AgentsInv'
  <1>1. PICK S : S = {work} \intersect InState(runs, "running")
    OBVIOUS
  <1>2. endEach(runs, S) \in After(runs)
    BY EndEachKeeps DEF AgentsInv
  <1> QED BY <1>1, <1>2, EndsKeep DEF runnerHeartbeat, AgentsInv, Rest

LEMMA EndedKeeps == ASSUME AgentsInv, NEW r \in finishing, runEnded(r) PROVE AgentsInv'
  <1>1. r \in 1..Len(runs)
    BY DEF AgentsInv, Pointed, Points
  <1>2. continueTree(runs, r) \in After(runs)
    BY <1>1, TreeKeeps DEF AgentsInv
  <1> QED BY <1>2, EndsKeep DEF runEnded, runnerVars, AgentsInv, Rest

LEMMA CancelKeeps == ASSUME AgentsInv, NEW r \in DOMAIN runs, cancelRun(r) PROVE AgentsInv'
  <1>1. endEach(runs, {r}) \in After(runs)
    BY EndEachKeeps DEF AgentsInv
  <1> QED BY <1>1, EndsKeep DEF cancelRun, runnerVars, AgentsInv, Rest

LEMMA TickKeeps == ASSUME AgentsInv, NEW late, NEW aged, minuteTick(late, aged) PROVE AgentsInv'
  <1>1. PICK y : y = endEach(runs, late)
    OBVIOUS
  <1>2. y \in After(runs) /\ RowsOK(runs)
    BY <1>1, EndEachKeeps DEF AgentsInv
  <1>3. endEach(y, aged) \in After(y)
    BY <1>2, EndEachKeeps DEF After
  <1>4. endEach(y, aged) \in After(runs)
    BY <1>2, <1>3, FollowsOn
  <1>5. runs' = endEach(y, aged)
    BY <1>1 DEF minuteTick, agedOut, expired
  <1> QED BY <1>4, <1>5, EndsKeep DEF minuteTick, runnerVars, AgentsInv, Rest

(* People's switches.                                                      *)
LEMMA PauseAgentKeeps == ASSUME AgentsInv, NEW a \in Agent, pauseAgent(a) PROVE AgentsInv'
  <1>1. PICK S : S = {r \in InState(runs, "queued") : runs[r].agent = a}
    OBVIOUS
  <1>2. endEach(runs, S) \in After(runs)
    BY EndEachKeeps DEF AgentsInv
  <1>3. Rest'
    BY FaultCounts DEF pauseAgent, switch, AgentsInv, Rest, runnerVars, serviceVars, paused
  <1> QED BY <1>1, <1>2, <1>3, FollowKeeps DEF pauseAgent, runnerVars

LEMMA DeleteKeeps == ASSUME AgentsInv, NEW a \in Agent, deleteAgent(a) PROVE AgentsInv'
  <1>1. PICK S : S = {r \in DOMAIN runs : runs[r].agent = a}
    OBVIOUS
  <1>2. endEach(runs, S) \in After(runs)
    BY EndEachKeeps DEF AgentsInv
  <1>3. Rest'
    BY FaultCounts DEF deleteAgent, switch, AgentsInv, Rest, runnerVars, serviceVars, paused
  <1> QED BY <1>1, <1>2, <1>3, FollowKeeps DEF deleteAgent, runnerVars

LEMMA ResumeAgentKeeps == ASSUME AgentsInv, NEW a \in Agent, resumeAgent(a) PROVE AgentsInv'
  <1>1. runs \in After(runs)
    BY Same DEF AgentsInv
  <1>2. Rest'
    BY DEF resumeAgent, AgentsInv, Rest, runnerVars, serviceVars, paused
  <1> QED BY <1>1, <1>2, FollowKeeps DEF resumeAgent, runnerVars

LEMMA PauseKeeps == ASSUME AgentsInv, NEW how \in {"paused", "until"}, pauseModule(how) PROVE AgentsInv'
  <1>1. runs \in After(runs)
    BY Same DEF AgentsInv
  <1>2. Rest'
    BY FaultCounts DEF pauseModule, switch, AgentsInv, Rest, runnerVars, serviceVars, paused
  <1> QED BY <1>1, <1>2, FollowKeeps DEF pauseModule, runnerVars

LEMMA ResumeKeeps == ASSUME AgentsInv, resumeModule PROVE AgentsInv'
  <1>1. runs \in After(runs)
    BY Same DEF AgentsInv
  <1>2. DOMAIN runs \subseteq Nat
    BY RowTyped DEF AgentsInv, RowsOK
  <1>3. Rest'
    BY <1>2 DEF resumeModule, AgentsInv, Rest, runnerVars, serviceVars, paused
  <1> QED BY <1>1, <1>3, FollowKeeps DEF resumeModule, runnerVars

LEMMA PauseEndsKeeps == ASSUME AgentsInv, pauseEnds PROVE AgentsInv'
  <1>1. runs \in After(runs)
    BY Same DEF AgentsInv
  <1>2. Rest'
    BY DEF pauseEnds, AgentsInv, Rest, runnerVars, serviceVars, paused
  <1> QED BY <1>1, <1>2, FollowKeeps DEF pauseEnds, runnerVars

(* The poll's own steps, the runner's and the web service's stop.          *)
LEMMA StartPollKeeps == ASSUME AgentsInv, startPoll PROVE AgentsInv'
  <1>1. runs \in After(runs)
    BY Same DEF AgentsInv
  <1>2. PICK x : x = [life |-> life, run |-> 0, waits |-> TRUE, aborted |-> FALSE]
    OBVIOUS
  <1>3. x \in Poll /\ x.run = 0 /\ polls' = polls \union {x}
    BY <1>2 DEF startPoll, AgentsInv, Rest, Poll
  <1>4. Rest'
    BY <1>3 DEF startPoll, AgentsInv, Rest, settingVars, serviceVars, paused
  <1> QED BY <1>1, <1>3, <1>4, FollowKeeps DEF startPoll, settingVars

LEMMA PollOverKeeps == ASSUME AgentsInv, NEW p \in polls, pollOver(p) PROVE AgentsInv'
  <1>1. runs \in After(runs)
    BY Same DEF AgentsInv
  <1>2. polls' \subseteq polls
    BY DEF pollOver
  <1>3. Rest'
    BY <1>2 DEF pollOver, AgentsInv, Rest, settingVars, serviceVars, paused
  <1> QED BY <1>1, <1>2, <1>3, FollowKeeps DEF pollOver, settingVars

LEMMA AbortKeeps == ASSUME AgentsInv, NEW p \in polls, abort(p) PROVE AgentsInv'
  <1>1. runs \in After(runs)
    BY Same DEF AgentsInv
  <1>2. PICK x : x = [p EXCEPT !.aborted = TRUE]
    OBVIOUS
  <1>3. x \in Poll /\ x.run = p.run /\ polls' = (polls \ {p}) \union {x}
    BY <1>2 DEF abort, AgentsInv, Rest, Poll
  <1>4. Rest'
    BY <1>3 DEF abort, AgentsInv, Rest, settingVars, serviceVars, paused
  <1> QED BY <1>1, <1>3, <1>4, FollowKeeps DEF abort, settingVars

LEMMA NobodyWaits ==
    ASSUME Rest, polls' = {[p EXCEPT !.waits = FALSE] : p \in polls}
    PROVE  /\ polls' \subseteq Poll /\ \A p \in polls' : \E q \in polls : q.run = p.run
           /\ \A p, q \in polls' : p.run = q.run /\ p.run # 0 => p = q
  <1>1. \A p \in polls : [p EXCEPT !.waits = FALSE] \in Poll /\ [p EXCEPT !.waits = FALSE].run = p.run
    BY DEF Rest, Poll
  <1>2. \A p \in polls' : \E q \in polls : p = [q EXCEPT !.waits = FALSE] /\ q.run = p.run /\ p \in Poll
    BY <1>1
  <1>3. ASSUME NEW p \in polls', NEW q \in polls', p.run = q.run, p.run # 0 PROVE p = q
    <2>1. PICK x \in polls : p = [x EXCEPT !.waits = FALSE] /\ x.run = p.run
      BY <1>2
    <2>2. PICK z \in polls : q = [z EXCEPT !.waits = FALSE] /\ z.run = q.run
      BY <1>2
    <2>3. x = z
      BY <1>3, <2>1, <2>2 DEF Rest
    <2> QED BY <2>1, <2>2, <2>3
  <1> QED BY <1>2, <1>3

LEMMA HangUpKeeps == ASSUME AgentsInv, hangUp PROVE AgentsInv'
  <1>1. runs \in After(runs)
    BY Same DEF AgentsInv
  <1>2. polls' = {[p EXCEPT !.waits = FALSE] : p \in polls} /\ Rest
    BY DEF hangUp, AgentsInv
  <1>3. /\ polls' \subseteq Poll /\ \A p \in polls' : \E q \in polls : q.run = p.run
        /\ \A p, q \in polls' : p.run = q.run /\ p.run # 0 => p = q
    BY <1>2, NobodyWaits
  <1>4. Rest'
    BY <1>2, <1>3, FaultCounts DEF hangUp, Rest, settingVars, serviceVars, paused
  <1> QED BY <1>1, <1>3, <1>4, FollowKeeps DEF hangUp, settingVars

LEMMA RestartKeeps == ASSUME AgentsInv, runnerRestarts PROVE AgentsInv'
  <1>1. runs \in After(runs)
    BY Same DEF AgentsInv
  <1>2. polls' = {[p EXCEPT !.waits = FALSE] : p \in polls} /\ Rest
    BY DEF runnerRestarts, AgentsInv
  <1>3. /\ polls' \subseteq Poll /\ \A p \in polls' : \E q \in polls : q.run = p.run
        /\ \A p, q \in polls' : p.run = q.run /\ p.run # 0 => p = q
    BY <1>2, NobodyWaits
  <1>4. Rest'
    <2>1. faults' \in Nat /\ life' \in Nat /\ greeted' = FALSE /\ UNCHANGED <<settingVars, serviceVars>>
      BY <1>2, FaultCounts DEF runnerRestarts, Rest
    <2> QED BY <1>2, <1>3, <2>1 DEF Rest, settingVars, serviceVars, paused
  <1> QED BY <1>1, <1>3, <1>4, FollowKeeps DEF runnerRestarts, settingVars

LEMMA ServiceStopKeeps == ASSUME AgentsInv, serviceStops PROVE AgentsInv'
  <1>1. runs \in After(runs)
    BY Same DEF AgentsInv
  <1>2. Rest'
    BY FaultCounts DEF serviceStops, AgentsInv, Rest, settingVars, paused
  <1> QED BY <1>1, <1>2, FollowKeeps DEF serviceStops, settingVars
-----------------------------------------------------------------------------
(* What changes one row in place.                                          *)
LEMMA RowMoves ==
    ASSUME NEW R, RowsOK(R), NEW k \in 1..Len(R), NEW e \in RunRecord,
           e.kind = R[k].kind, e.parent = R[k].parent, e.agent = R[k].agent, e.depth = R[k].depth, e.continued = R[k].continued,
           R[k].state \in Finished => e.state = R[k].state,
           e.given =< 1, e.state = "queued" => e.given = 0, R[k].acts # "none" => e.acts # "none",
           e.acts # R[k].acts => R[k].parent = 0 /\ (R[k].state = "answered" => e.acts = "over")
    PROVE  /\ RowsOK([R EXCEPT ![k] = e]) /\ Len([R EXCEPT ![k] = e]) = Len(R)
           /\ \A r \in 1..Len(R) : [R EXCEPT ![k] = e][r] = IF r = k THEN e ELSE R[r]
  <1>1. R \in Seq(RunRecord) /\ Len(R) \in Nat /\ DOMAIN R = 1..Len(R) /\ \A r \in 1..Len(R) : R[r] \in RunRecord /\ Row(R, r)
    BY RowTyped DEF RowsOK
  <1>2. PICK y : y = [R EXCEPT ![k] = e]
    OBVIOUS
  <1>3. y \in Seq(RunRecord) /\ Len(y) = Len(R) /\ \A r \in 1..Len(R) : y[r] = IF r = k THEN e ELSE R[r]
    BY <1>1, <1>2
  <1>4. \A r \in 1..Len(R) : R[r].given =< 1 /\ (R[r].state = "queued" => R[r].given = 0)
    BY <1>1 DEF Row
  <1>5. RowsOK(y)
    BY <1>3, <1>4, MovesOK
  <1> QED BY <1>2, <1>3, <1>5

LEMMA ActKeeps == ASSUME AgentsInv, actFor PROVE AgentsInv'
  <1>1. RowsOK(runs) /\ Rest /\ Points(runs, acting, work, finishing, polls, halted) /\ faults' \in Nat
    BY DEF AgentsInv, Pointed, Rest, actFor
  <1>2. Rest' /\ gone' = gone /\ work' = work /\ polls' = polls /\ halted' = halted
    BY <1>1, RestStays DEF actFor
  <1>3. acting' = work /\ runs' = runs /\ finishing' = finishing
    BY DEF actFor
  <1>4. Points(runs, work, work, finishing, polls, halted)
    BY <1>1 DEF actFor, Points
  <1> QED BY <1>1, <1>2, <1>3, <1>4, Settles

LEMMA StageOpKeeps == ASSUME AgentsInv, NEW ok \in BOOLEAN, stageOperation(ok) PROVE AgentsInv'
  <1>1. RowsOK(runs) /\ Rest /\ Points(runs, acting, work, finishing, polls, halted) /\ faults' \in Nat
    BY DEF AgentsInv, Pointed, Rest, stageOperation
  <1>2. Rest' /\ gone' = gone /\ work' = work /\ polls' = polls /\ halted' = halted /\ acting' = 0 /\ finishing' = finishing
    BY <1>1, RestStays DEF stageOperation
  <1>3. PICK k : k = acting
    OBVIOUS
  <1>4. /\ k \in 1..Len(runs) /\ runs[k].parent = 0 /\ runs[k].acts = "none" /\ runs[k].state # "answered"
        /\ runs[k] \in RunRecord /\ Row(runs, k) /\ Len(runs) \in Nat
    <2>1. k \in 1..Len(runs) /\ runs[k].parent = 0 /\ runs[k].acts = "none" /\ runs[k].state # "answered"
      BY <1>1, <1>3 DEF stageOperation, Points
    <2> QED BY <1>1, <2>1, RowTyped DEF RowsOK
  <1>5. CASE ~ok
    <2>1. runs' = runs
      BY <1>5 DEF stageOperation
    <2>2. Points(runs, acting', work', finishing', polls', halted')
      BY <1>1, <1>2, <1>4 DEF Points
    <2> QED BY <1>1, <1>2, <2>1, <2>2, Settles
  <1>6. CASE ok
    <2>1. PICK e : e = [runs[k] EXCEPT !.acts = "going"]
      OBVIOUS
    <2>2. /\ e \in RunRecord /\ e.kind = runs[k].kind /\ e.parent = runs[k].parent /\ e.agent = runs[k].agent
          /\ e.depth = runs[k].depth /\ e.continued = runs[k].continued /\ e.state = runs[k].state /\ e.given = runs[k].given /\ e.acts = "going"
      BY <1>4, <2>1 DEF RunRecord
    <2>3. PICK y : y = [runs EXCEPT ![k] = e]
      OBVIOUS
    <2>4. e.given =< 1 /\ (e.state = "queued" => e.given = 0)
      BY <1>4, <2>2 DEF Row
    <2>5. RowsOK(y) /\ Len(y) = Len(runs) /\ \A r \in 1..Len(runs) : y[r] = IF r = k THEN e ELSE runs[r]
      <3>1. /\ runs[k].state \in Finished => e.state = runs[k].state
            /\ runs[k].acts # "none" => e.acts # "none"
            /\ e.acts # runs[k].acts => runs[k].parent = 0 /\ (runs[k].state = "answered" => e.acts = "over")
        BY <1>4, <2>2, <2>4
      <3>2. /\ k \in 1..Len(runs) /\ e \in RunRecord /\ e.kind = runs[k].kind /\ e.parent = runs[k].parent
            /\ e.agent = runs[k].agent /\ e.depth = runs[k].depth /\ e.continued = runs[k].continued
            /\ e.given =< 1 /\ (e.state = "queued" => e.given = 0) /\ RowsOK(runs)
        BY <1>1, <1>4, <2>2, <2>4
      <3>3. /\ RowsOK([runs EXCEPT ![k] = e]) /\ Len([runs EXCEPT ![k] = e]) = Len(runs)
            /\ \A r \in 1..Len(runs) : [runs EXCEPT ![k] = e][r] = IF r = k THEN e ELSE runs[r]
        BY <3>1, <3>2, RowMoves
      <3> QED BY <2>3, <3>3
    <2>6. Points(y, acting', work', finishing', polls', halted')
      BY <1>1, <1>2, <1>4, <2>2, <2>5 DEF Points
    <2>7. runs' = y
      BY <1>3, <1>6, <2>1, <2>3 DEF stageOperation
    <2> QED BY <1>2, <2>5, <2>6, <2>7, Settles
  <1> QED BY <1>5, <1>6

LEMMA JobKeeps == ASSUME AgentsInv, NEW k \in DOMAIN runs, onJob(k) PROVE AgentsInv'
  <1>1. RowsOK(runs) /\ Rest /\ Points(runs, acting, work, finishing, polls, halted) /\ faults' \in Nat /\ (halted => killed)
    BY DEF AgentsInv, Pointed, Rest, onJob
  <1>2. Rest' /\ gone' = gone /\ work' = work /\ polls' = polls /\ halted' = halted /\ acting' = acting /\ finishing' = finishing
    BY <1>1, RestStays DEF onJob
  <1>3. k \in 1..Len(runs) /\ runs[k] \in RunRecord /\ Row(runs, k) /\ Len(runs) \in Nat /\ runs[k].acts = "going"
    BY <1>1, RowTyped DEF RowsOK, onJob
  <1>4. PICK e : e = [runs[k] EXCEPT !.acts = "over"]
    OBVIOUS
  <1>5. /\ e \in RunRecord /\ e.kind = runs[k].kind /\ e.parent = runs[k].parent /\ e.agent = runs[k].agent
        /\ e.depth = runs[k].depth /\ e.continued = runs[k].continued /\ e.state = runs[k].state /\ e.given = runs[k].given /\ e.acts = "over"
    BY <1>3, <1>4 DEF RunRecord
  <1>6. PICK y : y = [runs EXCEPT ![k] = e]
    OBVIOUS
  <1>7. e.given =< 1 /\ (e.state = "queued" => e.given = 0) /\ runs[k].parent = 0
    BY <1>3, <1>5 DEF Row
  <1>8. RowsOK(y) /\ Len(y) = Len(runs) /\ \A r \in 1..Len(runs) : y[r] = IF r = k THEN e ELSE runs[r]
    BY <1>1, <1>3, <1>5, <1>6, <1>7, RowMoves
  <1>9. Points(y, acting, work, finishing, polls, halted)
    BY <1>1, <1>3, <1>5, <1>8 DEF Points
  <1>10. PICK z : z = continueSupervisor(y, k)
    OBVIOUS
  <1>11. z \in After(y)
    BY <1>3, <1>8, <1>10, ContinueOK
  <1>12. RowsOK(z) /\ Points(z, acting, work, finishing, polls, halted)
    BY <1>1, <1>8, <1>9, <1>11, PointsOnward
  <1>13. runs' = z
    BY <1>4, <1>6, <1>10 DEF onJob
  <1>14. Points(z, acting', work', finishing', polls', halted')
    BY <1>2, <1>12
  <1> QED BY <1>2, <1>12, <1>13, <1>14, Settles

LEMMA FinishKeeps == ASSUME AgentsInv, NEW outcome \in Finished, runnerFinish(outcome) PROVE AgentsInv'
  <1>1. RowsOK(runs) /\ Rest /\ Points(runs, acting, work, finishing, polls, halted)
    BY DEF AgentsInv, Pointed
  <1>2. Rest' /\ gone' = gone /\ work' = 0 /\ polls' = polls /\ halted' = halted /\ acting' = acting /\ acting # work
    BY <1>1 DEF runnerFinish, Rest, settingVars, serviceVars, paused
  <1>3. PICK k : k = work
    OBVIOUS
  <1>4. k \in 1..Len(runs) /\ runs[k] \in RunRecord /\ Row(runs, k) /\ Len(runs) \in Nat
    <2>1. k \in 1..Len(runs)
      BY <1>1, <1>3 DEF runnerFinish, Points
    <2> QED BY <1>1, <2>1, RowTyped DEF RowsOK
  <1>5. CASE runs[k].state # "running"
    <2>1. runs' = runs /\ finishing' = finishing
      BY <1>3, <1>5 DEF runnerFinish
    <2>2. Points(runs, acting', work', finishing', polls', halted')
      BY <1>1, <1>2, <1>4, <2>1 DEF Points
    <2> QED BY <1>1, <1>2, <2>1, <2>2, Settles
  <1>6. CASE runs[k].state = "running"
    <2>1. PICK e : e = [runs[k] EXCEPT !.state = outcome]
      OBVIOUS
    <2>2. /\ e \in RunRecord /\ e.kind = runs[k].kind /\ e.parent = runs[k].parent /\ e.agent = runs[k].agent
          /\ e.depth = runs[k].depth /\ e.continued = runs[k].continued /\ e.state = outcome /\ e.given = runs[k].given /\ e.acts = runs[k].acts
      BY <1>4, <2>1 DEF RunRecord
    <2>3. PICK y : y = [runs EXCEPT ![k] = e]
      OBVIOUS
    <2>4. e.given =< 1 /\ e.state # "queued" /\ runs[k].state \notin Finished
      BY <1>4, <1>6, <2>2 DEF Row, Finished
    <2>5. RowsOK(y) /\ Len(y) = Len(runs) /\ \A r \in 1..Len(runs) : y[r] = IF r = k THEN e ELSE runs[r]
      <3>1. /\ runs[k].state \in Finished => e.state = runs[k].state
            /\ runs[k].acts # "none" => e.acts # "none"
            /\ e.acts # runs[k].acts => runs[k].parent = 0 /\ (runs[k].state = "answered" => e.acts = "over")
        BY <1>4, <2>2, <2>4
      <3>2. /\ k \in 1..Len(runs) /\ e \in RunRecord /\ e.kind = runs[k].kind /\ e.parent = runs[k].parent
            /\ e.agent = runs[k].agent /\ e.depth = runs[k].depth /\ e.continued = runs[k].continued
            /\ e.given =< 1 /\ (e.state = "queued" => e.given = 0) /\ RowsOK(runs)
        BY <1>1, <1>4, <2>2, <2>4
      <3>3. /\ RowsOK([runs EXCEPT ![k] = e]) /\ Len([runs EXCEPT ![k] = e]) = Len(runs)
            /\ \A r \in 1..Len(runs) : [runs EXCEPT ![k] = e][r] = IF r = k THEN e ELSE runs[r]
        BY <3>1, <3>2, RowMoves
      <3> QED BY <2>3, <3>3
    <2>6. ~halted
      BY <1>4, <1>6, NotHalted DEF Active
    <2>7. runs' = y /\ finishing' = finishing \union {k}
      BY <1>3, <1>6, <2>1, <2>3 DEF runnerFinish
    <2>8. Points(y, acting', work', finishing', polls', halted')
      <3>1. \A q \in polls : q.run \in 0..Len(y) /\ (q.run # 0 => y[q.run].given = 0 /\ y[q.run].state # "queued")
        BY <1>1, <1>4, <2>2, <2>4, <2>5 DEF Points
      <3>2. acting # 0 => y[acting].parent = 0 /\ y[acting].acts = "none" /\ y[acting].state # "answered"
        BY <1>1, <1>2, <1>3, <2>5 DEF Points
      <3>3. acting \in 0..Len(y) /\ finishing \union {k} \subseteq 1..Len(y) /\ 0 \in 0..Len(y)
        <4>1. acting \in 0..Len(runs) /\ finishing \subseteq 1..Len(runs)
          BY <1>1 DEF Points
        <4> QED BY <1>4, <2>5, <4>1
      <3> QED BY <1>2, <2>6, <2>7, <3>1, <3>2, <3>3 DEF Points
    <2> QED BY <1>2, <2>5, <2>7, <2>8, Settles
  <1> QED BY <1>5, <1>6

LEMMA KillKeeps == ASSUME AgentsInv, killSwitch PROVE AgentsInv'
  <1>1. RowsOK(runs) /\ Rest /\ Points(runs, acting, work, finishing, polls, halted)
    BY DEF AgentsInv, Pointed
  <1>2. /\ Rest' /\ gone' = gone /\ work' = work /\ polls' = polls /\ halted' /\ acting' = acting /\ finishing' = finishing
    BY <1>1, FaultCounts DEF killSwitch, switch, Rest, runnerVars, serviceVars, paused
  <1>3. Len(runs) \in Nat /\ DOMAIN runs = 1..Len(runs) /\ \A r \in 1..Len(runs) : runs[r] \in RunRecord
    BY <1>1, RowTyped DEF RowsOK
  <1>4. PICK y : y = [r \in DOMAIN runs |-> IF runs[r].state \in Active THEN [runs[r] EXCEPT !.state = "ended"] ELSE runs[r]]
    OBVIOUS
  <1>5. \A x \in RunRecord : [x EXCEPT !.state = "ended"] \in RunRecord /\ [x EXCEPT !.state = "ended"].state = "ended"
    BY DEF RunRecord, Finished
  <1>6. y \in [1..Len(runs) -> RunRecord]
    BY <1>3, <1>4, <1>5
  <1>7. y \in Seq(RunRecord) /\ Len(y) = Len(runs)
    <2>1. y \in Seq(RunRecord) /\ DOMAIN y = 1..Len(runs)
      BY <1>3, <1>6, SeqDef
    <2> QED BY <1>3, <2>1, LenProperties
  <1>8. \A r \in 1..Len(runs) : y[r] = runs[r] \/ (runs[r].state \in Active /\ y[r] = [runs[r] EXCEPT !.state = "ended"])
    BY <1>3, <1>4
  <1>9. y \in After(runs)
    BY <1>1, <1>7, <1>8, EndsOK
  <1>10. \A r \in 1..Len(y) : y[r].state \notin Active
    BY <1>3, <1>4, <1>5, <1>7 DEF Active
  <1>11. RowsOK(y) /\ Points(y, acting, work, finishing, polls, FALSE)
    <2>1. Points(runs, acting, work, finishing, polls, FALSE)
      BY <1>1 DEF Points
    <2> QED BY <1>1, <1>9, <2>1, PointsOnward
  <1>12. Points(y, acting', work', finishing', polls', halted')
    BY <1>2, <1>10, <1>11 DEF Points
  <1>13. runs' = y
    BY <1>4 DEF killSwitch
  <1> QED BY <1>2, <1>11, <1>12, <1>13, Settles

(* What becomes of a claim, one case at a time.                            *)
LEMMA CpuCases ==
    ASSUME NEW p \in polls, cpuSet(p)
    PROVE  \/ runs[p.run].state # "running" /\ runs' = runs /\ work' = work
           \/ /\ runs[p.run].state = "running" /\ work' = work
              /\ runs' = [runs EXCEPT ![p.run].state = "queued", ![p.run].started = FALSE, ![p.run].runner = 0]
           \/ /\ runs[p.run].state = "running" /\ work' \in {work, p.run}
              /\ runs' = [runs EXCEPT ![p.run].given = @ + 1]
  <1>1. CASE runs[p.run].state # "running"
    <2>1. afterCpu(p) = "dropped"
      BY <1>1 DEF afterCpu
    <2>2. runs' = runs /\ work' = work
      BY <2>1, Zenon DEF cpuSet
    <2> QED BY <1>1, <2>2
  <1>2. CASE runs[p.run].state = "running" /\ p.aborted
    <2>1. afterCpu(p) = "released" /\ "released" # "dropped" /\ "released" # "handed"
      BY <1>2 DEF afterCpu
    <2>2. runs' = [runs EXCEPT ![p.run].state = "queued", ![p.run].started = FALSE, ![p.run].runner = 0]
      BY <2>1, Zenon DEF cpuSet
    <2>3. work' = work
      BY <2>1, Zenon DEF cpuSet
    <2> QED BY <1>2, <2>2, <2>3
  <1>3. CASE runs[p.run].state = "running" /\ ~p.aborted
    <2>1. afterCpu(p) = "handed" /\ "handed" # "dropped" /\ "handed" # "released"
      BY <1>3 DEF afterCpu
    <2>2. runs' = [runs EXCEPT ![p.run].given = @ + 1]
      BY <2>1, Zenon DEF cpuSet
    <2>3. work' \in {work, p.run}
      BY <2>1, Zenon DEF cpuSet
    <2> QED BY <1>3, <2>2, <2>3
  <1> QED BY <1>1, <1>2, <1>3

LEMMA CpuKeeps == ASSUME AgentsInv, NEW p \in polls, cpuSet(p) PROVE AgentsInv'
  <1>1. RowsOK(runs) /\ Rest /\ Points(runs, acting, work, finishing, polls, halted)
    BY DEF AgentsInv, Pointed
  <1>2. /\ Rest' /\ gone' = gone /\ polls' = polls \ {p} /\ halted' = halted /\ acting' = acting /\ finishing' = finishing
    BY <1>1 DEF cpuSet, Rest, settingVars, serviceVars, paused
  <1>3. PICK k : k = p.run
    OBVIOUS
  <1>4. /\ k \in 1..Len(runs) /\ runs[k] \in RunRecord /\ Row(runs, k) /\ Len(runs) \in Nat /\ runs[k].given = 0
        /\ \A q \in polls' : q.run # k
    <2>1. k \in 1..Len(runs) /\ runs[k].given = 0
      BY <1>1, <1>3 DEF cpuSet, Points
    <2>2. \A q \in polls' : q.run # k
      BY <1>1, <1>2, <1>3 DEF cpuSet, Rest
    <2> QED BY <1>1, <2>1, <2>2, RowTyped DEF RowsOK
  <1>5. ASSUME runs[k].state = "running", NEW e \in RunRecord, runs' = [runs EXCEPT ![k] = e], work' \in {work, k},
               e.kind = runs[k].kind, e.parent = runs[k].parent, e.agent = runs[k].agent,
               e.depth = runs[k].depth, e.continued = runs[k].continued, e.acts = runs[k].acts, e.state # "answered",
               e.given =< 1, e.state = "queued" => e.given = 0
        PROVE  AgentsInv'
    <2>1. runs[k].state \notin Finished
      BY <1>5 DEF Finished
    <2>2. PICK y : y = [runs EXCEPT ![k] = e]
      OBVIOUS
    <2>3. /\ RowsOK([runs EXCEPT ![k] = e]) /\ Len([runs EXCEPT ![k] = e]) = Len(runs)
          /\ \A r \in 1..Len(runs) : [runs EXCEPT ![k] = e][r] = IF r = k THEN e ELSE runs[r]
      <3>1. RowsOK(runs) /\ k \in 1..Len(runs)
        BY <1>1, <1>4
      <3>2. /\ runs[k].acts # "none" => e.acts # "none"
            /\ e.acts # runs[k].acts => runs[k].parent = 0 /\ (runs[k].state = "answered" => e.acts = "over")
            /\ runs[k].state \in Finished => e.state = runs[k].state
        BY <1>5, <2>1
      <3>3. /\ e \in RunRecord /\ e.kind = runs[k].kind /\ e.parent = runs[k].parent /\ e.agent = runs[k].agent
            /\ e.depth = runs[k].depth /\ e.continued = runs[k].continued /\ e.given =< 1 /\ (e.state = "queued" => e.given = 0)
        BY <1>5
      <3> QED BY <3>1, <3>2, <3>3, RowMoves
    <2>4. ~halted
      BY <1>4, <1>5, NotHalted DEF Active
    <2>5. RowsOK(y) /\ Len(y) = Len(runs) /\ \A r \in 1..Len(runs) : y[r] = IF r = k THEN e ELSE runs[r]
      BY <2>2, <2>3
    <2>6. \A q \in polls' : q.run \in 0..Len(y) /\ (q.run # 0 => y[q.run].given = 0 /\ y[q.run].state # "queued")
      BY <1>1, <1>2, <1>4, <2>5 DEF Points
    <2>7. acting # 0 => y[acting].parent = 0 /\ y[acting].acts = "none" /\ y[acting].state # "answered"
      BY <1>1, <1>5, <2>5 DEF Points
    <2>8. Points(y, acting', work', finishing', polls', halted')
      BY <1>1, <1>2, <1>4, <1>5, <2>4, <2>5, <2>6, <2>7 DEF Points
    <2>9. runs' = y
      BY <1>5, <2>2
    <2> QED BY <1>2, <2>5, <2>8, <2>9, Settles
  <1>6. CASE runs[k].state # "running" /\ runs' = runs /\ work' = work
    <2>1. Points(runs, acting', work', finishing', polls', halted')
      BY <1>1, <1>2, <1>6 DEF Points
    <2> QED BY <1>1, <1>2, <1>6, <2>1, Settles
  <1>7. CASE /\ runs[k].state = "running" /\ work' = work
             /\ runs' = [runs EXCEPT ![k].state = "queued", ![k].started = FALSE, ![k].runner = 0]
    <2>1. PICK e : e = [runs[k] EXCEPT !.state = "queued", !.started = FALSE, !.runner = 0]
      OBVIOUS
    <2>2. /\ e \in RunRecord /\ e.kind = runs[k].kind /\ e.parent = runs[k].parent /\ e.agent = runs[k].agent
          /\ e.depth = runs[k].depth /\ e.continued = runs[k].continued /\ e.acts = runs[k].acts /\ e.state = "queued" /\ e.given = 0
      BY <1>4, <2>1 DEF RunRecord, Active
    <2>3. runs' = [runs EXCEPT ![k] = e]
      <3>1. DOMAIN runs = 1..Len(runs) /\ k \in DOMAIN runs
        BY <1>1, <1>4, RowTyped DEF RowsOK
      <3> QED BY <1>7, <2>1, <3>1
    <2>4. runs[k].state = "running" /\ work' \in {work, k} /\ e.state # "answered"
          /\ e.given =< 1 /\ (e.state = "queued" => e.given = 0)
      BY <1>7, <2>2
    <2> QED BY <1>5, <2>2, <2>3, <2>4
  <1>8. CASE /\ runs[k].state = "running" /\ work' \in {work, k}
             /\ runs' = [runs EXCEPT ![k].given = @ + 1]
    <2>1. PICK e : e = [runs[k] EXCEPT !.given = @ + 1]
      OBVIOUS
    <2>2. /\ e \in RunRecord /\ e.kind = runs[k].kind /\ e.parent = runs[k].parent /\ e.agent = runs[k].agent
          /\ e.depth = runs[k].depth /\ e.continued = runs[k].continued /\ e.acts = runs[k].acts /\ e.state = "running" /\ e.given = 1
      BY <1>4, <1>8, <2>1 DEF RunRecord
    <2>3. runs' = [runs EXCEPT ![k] = e]
      <3>1. DOMAIN runs = 1..Len(runs) /\ k \in DOMAIN runs
        BY <1>1, <1>4, RowTyped DEF RowsOK
      <3> QED BY <1>8, <2>1, <3>1
    <2>4. runs[k].state = "running" /\ work' \in {work, k} /\ e.state # "answered"
          /\ e.given =< 1 /\ (e.state = "queued" => e.given = 0)
      BY <1>8, <2>2
    <2> QED BY <1>5, <2>2, <2>3, <2>4
  <1> QED BY <1>3, <1>6, <1>7, <1>8, CpuCases

LEMMA AgentsRecoverKeeps == ASSUME AgentsInv, recoverAtStartup PROVE AgentsInv'
  <1>1. RowsOK(runs) /\ Rest /\ Points(runs, acting, work, finishing, polls, halted) /\ (halted => killed)
    BY DEF AgentsInv, Pointed, Rest
  <1>2. Rest' /\ gone' = gone /\ work' = work /\ polls' = polls /\ halted' = halted /\ acting' = acting /\ finishing' = finishing
    BY <1>1 DEF recoverAtStartup, Rest, settingVars, runnerVars, paused
  <1>3. Len(runs) \in Nat /\ DOMAIN runs = 1..Len(runs) /\ \A r \in 1..Len(runs) : runs[r] \in RunRecord /\ Row(runs, r)
    BY <1>1, RowTyped DEF RowsOK
  <1>4. PICK J \in SUBSET {r \in DOMAIN runs : runs[r].acts = "going"} :
            LET failed == [r \in DOMAIN runs |-> IF r \in J THEN [runs[r] EXCEPT !.acts = "over"] ELSE runs[r]]
            IN runs' = endEach(SubSeq(failed, 1, Len(runs)), InState(runs, "running"))
    BY DEF recoverAtStartup
  <1>5. PICK y : y = [r \in DOMAIN runs |-> IF r \in J THEN [runs[r] EXCEPT !.acts = "over"] ELSE runs[r]]
    OBVIOUS
  <1>6. PICK S : S = InState(runs, "running")
    OBVIOUS
  <1>7. runs' = endEach(SubSeq(y, 1, Len(runs)), S)
    BY <1>4, <1>5, <1>6
  <1>8. ASSUME NEW r \in 1..Len(runs)
        PROVE  /\ y[r] \in RunRecord /\ y[r].kind = runs[r].kind /\ y[r].parent = runs[r].parent /\ y[r].agent = runs[r].agent
               /\ y[r].depth = runs[r].depth /\ y[r].continued = runs[r].continued /\ y[r].state = runs[r].state /\ y[r].given = runs[r].given
               /\ y[r].acts = IF r \in J THEN "over" ELSE runs[r].acts
    <2>1. \A x \in RunRecord : LET e == [x EXCEPT !.acts = "over"]
                               IN /\ e \in RunRecord /\ e.kind = x.kind /\ e.parent = x.parent /\ e.agent = x.agent
                                  /\ e.depth = x.depth /\ e.continued = x.continued /\ e.state = x.state /\ e.given = x.given /\ e.acts = "over"
      BY DEF RunRecord
    <2> QED BY <1>3, <1>5, <2>1
  <1>9. y \in [1..Len(runs) -> RunRecord]
    BY <1>3, <1>5, <1>8
  <1>10. y \in Seq(RunRecord) /\ Len(y) = Len(runs)
    <2>1. y \in Seq(RunRecord) /\ DOMAIN y = 1..Len(runs)
      BY <1>3, <1>9, SeqDef
    <2> QED BY <1>3, <2>1, LenProperties
  <1>11. SubSeq(y, 1, Len(runs)) = y
    BY <1>3, <1>10
  <1>12. \A r \in 1..Len(runs) : r \in J => runs[r].acts = "going"
    BY <1>4
  <1>13. RowsOK(y)
    <2>1. \A r \in 1..Len(runs) : runs[r].given =< 1 /\ (runs[r].state = "queued" => runs[r].given = 0)
                                  /\ (runs[r].acts # "none" => runs[r].parent = 0)
      BY <1>3 DEF Row
    <2>2. \A r \in 1..Len(runs) :
              /\ y[r].kind = runs[r].kind /\ y[r].parent = runs[r].parent /\ y[r].agent = runs[r].agent
              /\ y[r].depth = runs[r].depth /\ y[r].continued = runs[r].continued /\ (runs[r].state \in Finished => y[r].state = runs[r].state)
              /\ y[r].given =< 1 /\ (y[r].state = "queued" => y[r].given = 0)
              /\ runs[r].acts # "none" => y[r].acts # "none"
              /\ y[r].acts # runs[r].acts => runs[r].parent = 0 /\ (runs[r].state = "answered" => y[r].acts = "over")
      BY <1>8, <1>12, <2>1
    <2> QED BY <1>1, <1>10, <2>2, MovesOK
  <1>14. Points(y, acting, work, finishing, polls, halted)
    <2>1. acting # 0 => acting \in 1..Len(runs) /\ acting \notin J
      BY <1>1, <1>3, <1>12 DEF Points
    <2> QED BY <1>1, <1>3, <1>8, <1>10, <2>1 DEF Points
  <1>15. PICK z : z = endEach(y, S)
    OBVIOUS
  <1>16. z \in After(y)
    BY <1>13, <1>15, EndEachKeeps
  <1>17. RowsOK(z) /\ Points(z, acting, work, finishing, polls, halted)
    BY <1>1, <1>13, <1>14, <1>16, PointsOnward
  <1>18. Points(z, acting', work', finishing', polls', halted') /\ runs' = z
    BY <1>2, <1>7, <1>11, <1>15, <1>17
  <1> QED BY <1>2, <1>17, <1>18, Settles

(* A poll's turn: leases that expire, then the claim.                      *)
LEMMA PollKeeps ==
    ASSUME AgentsInv, NEW p \in polls, NEW late, NEW aged, NEW busy, runnerNext(p, late, aged, busy)
    PROVE  AgentsInv'
  <1>1. RowsOK(runs) /\ Rest /\ Points(runs, acting, work, finishing, polls, halted) /\ (halted => killed) /\ p \in Poll
    BY DEF AgentsInv, Pointed, Rest
  <1>2. PICK R : R = expired(runs, late)
    OBVIOUS
  <1>3. R \in After(runs)
    BY <1>1, <1>2, EndEachKeeps DEF expired
  <1>4. RowsOK(R) /\ Points(R, acting, work, finishing, polls, halted)
    BY <1>1, <1>3, PointsOnward
  <1>5. gone' = gone /\ work' = work /\ halted' = halted /\ acting' = acting /\ finishing' = finishing
        /\ UNCHANGED <<settingVars, life, greeted, serviceVars, faults>>
    BY DEF runnerNext, settingVars
  <1>6. CASE paused \/ p.aborted \/ InState(R, "running") # {}
    <2>1. runs' = R /\ polls' = polls
      BY <1>2, <1>6 DEF runnerNext
    <2>2. Rest'
      BY <1>1, <1>5, <2>1 DEF Rest, settingVars, serviceVars, paused
    <2>3. Points(R, acting', work', finishing', polls', halted')
      BY <1>4, <1>5, <2>1
    <2> QED BY <1>4, <1>5, <2>1, <2>2, <2>3, Settles
  <1>7. CASE ~(paused \/ p.aborted \/ InState(R, "running") # {})
    <2>1. PICK c : c = chooseRun(R, aged, busy)
      OBVIOUS
    <2>2. runs' = claim(R, c, p) /\ polls' = (polls \ {p}) \union {[p EXCEPT !.run = c.picked]}
      BY <1>2, <1>7, <2>1 DEF runnerNext
    <2>3. PICK k : k = c.picked
      OBVIOUS
    <2>4. /\ k \in 0..Len(R) /\ (k # 0 => R[k].state = "queued") /\ Len(R) \in Nat
          /\ \A r \in c.ended : r \in 1..Len(R) /\ R[r].state = "queued" /\ r # k
      <3>1. /\ k = 0 \/ (k \in 1..Len(R) /\ R[k].state = "queued")
            /\ \A r \in c.ended : r \in 1..Len(R) /\ R[r].state = "queued" /\ r # k
        BY <1>4, <2>1, <2>3, Chosen
      <3>2. Len(R) \in Nat
        BY <1>4, RowTyped DEF RowsOK
      <3> QED BY <3>1, <3>2
    <2>5. PICK M : M = Picked(R, k, p)
      OBVIOUS
    <2>6. PICK y : y = claim(R, c, p)
      OBVIOUS
    <2>7. y \in After(M)
      BY <1>1, <1>4, <2>3, <2>4, <2>5, <2>6, ClaimKeeps
    <2>8. /\ RowsOK(Picked(R, k, p)) /\ Len(Picked(R, k, p)) = Len(R)
          /\ \A r \in 1..Len(R) : Picked(R, k, p)[r] = IF r = k THEN Claimed(R[r], p) ELSE R[r]
          /\ k # 0 => Picked(R, k, p)[k].state = "running" /\ Picked(R, k, p)[k].given = 0
      BY <1>1, <1>4, <2>4, PickedOK
    <2>9. /\ RowsOK(M) /\ Len(M) = Len(R) /\ \A r \in 1..Len(R) : r # k => M[r] = R[r]
          /\ k # 0 => M[k].state = "running" /\ M[k].given = 0 /\ M[k].parent = R[k].parent /\ M[k].acts = R[k].acts
      <3>1. k # 0 => R[k] \in RunRecord /\ k \in 1..Len(R)
        BY <1>4, <2>4, RowTyped DEF RowsOK
      <3>2. \A x \in RunRecord : Claimed(x, p).parent = x.parent /\ Claimed(x, p).acts = x.acts
        BY DEF Claimed, RunRecord
      <3> QED BY <2>5, <2>8, <3>1, <3>2
    <2>10. PICK x : x = [p EXCEPT !.run = k]
      OBVIOUS
    <2>11. x \in Poll /\ x.run = k /\ polls' = (polls \ {p}) \union {x}
      <3>1. k \in Nat
        BY <2>4
      <3> QED BY <1>1, <2>2, <2>3, <2>10, <3>1 DEF Poll
    <2>12. \A q \in polls : q.run # 0 => q.run \in 1..Len(R) /\ q.run # k /\ R[q.run].given = 0 /\ R[q.run].state # "queued"
      BY <1>4, <2>4 DEF Points
    <2>13. ~halted
      BY <1>1, <1>7 DEF Rest
    <2>14. Points(M, acting, work, finishing, polls', halted)
      <3>1. \A q \in polls' : q.run \in 0..Len(M) /\ (q.run # 0 => M[q.run].given = 0 /\ M[q.run].state # "queued")
        BY <2>4, <2>9, <2>11, <2>12
      <3>2. acting # 0 => M[acting].parent = 0 /\ M[acting].acts = "none" /\ M[acting].state # "answered"
        BY <1>4, <2>4, <2>9 DEF Points
      <3> QED BY <1>4, <2>9, <2>13, <3>1, <3>2 DEF Points
    <2>15. RowsOK(y) /\ Points(y, acting, work, finishing, polls', halted)
      BY <2>7, <2>9, <2>13, <2>14, PointsOnward
    <2>16. Rest'
      <3>1. polls' \subseteq Poll /\ \A q, z \in polls' : q.run = z.run /\ q.run # 0 => q = z
        BY <1>1, <2>11, <2>12 DEF Rest
      <3> QED BY <1>1, <1>5, <3>1 DEF Rest, settingVars, serviceVars, paused
    <2>17. Points(y, acting', work', finishing', polls', halted') /\ runs' = y
      BY <1>5, <2>2, <2>6, <2>15
    <2> QED BY <1>5, <2>15, <2>16, <2>17, Settles
  <1> QED BY <1>6, <1>7
-----------------------------------------------------------------------------
(* The invariant, and what it gives.                                       *)
LEMMA AgentsStart == ASSUME AgentsInit PROVE AgentsInv
  <1>1. runs = <<>> /\ RowsOK(runs)
    BY DEF AgentsInit, RowsOK
  <1>2. Pointed(runs)
    BY <1>1 DEF AgentsInit, Pointed, Points
  <1>3. Rest
    BY DEF AgentsInit, Rest
  <1> QED BY <1>1, <1>2, <1>3 DEF AgentsInv

LEMMA AgentsStep == ASSUME AgentsInv, [AgentsNext]_agentVars PROVE AgentsInv'
  <1>1. CASE UNCHANGED agentVars
    <2>1. RowsOK(runs) /\ Rest /\ Points(runs, acting, work, finishing, polls, halted)
      BY DEF AgentsInv, Pointed
    <2>2. Rest' /\ Points(runs, acting', work', finishing', polls', halted') /\ runs' = runs /\ gone' = gone
      BY <1>1, <2>1 DEF agentVars, settingVars, runnerVars, serviceVars, Rest, paused
    <2> QED BY <2>1, <2>2, Settles
  <1>2. ASSUME NEW a \in Agent, startRun(a) \/ enqueueSystem(a) \/ handoffFor(a) PROVE AgentsInv'
    BY <1>2, AskKeeps, HandoffKeeps
  <1>3. ASSUME NEW ok \in BOOLEAN, stageOperation(ok) PROVE AgentsInv'
    BY <1>3, StageOpKeeps
  <1>4. ASSUME NEW r \in DOMAIN runs, onJob(r) \/ cancelRun(r) PROVE AgentsInv'
    BY <1>4, JobKeeps, CancelKeeps
  <1>5. CASE actFor \/ runnerHello \/ startPoll \/ hangUp \/ runnerRestarts
    BY <1>5, ActKeeps, HelloKeeps, StartPollKeeps, HangUpKeeps, RestartKeeps
  <1>6. ASSUME NEW p \in polls, NEW late, NEW aged, NEW busy, runnerNext(p, late, aged, busy) PROVE AgentsInv'
    BY <1>6, PollKeeps
  <1>7. ASSUME NEW p \in polls, pollOver(p) \/ cpuSet(p) \/ abort(p) PROVE AgentsInv'
    BY <1>7, PollOverKeeps, CpuKeeps, AbortKeeps
  <1>8. ASSUME NEW late \in BOOLEAN, runnerHeartbeat(late) PROVE AgentsInv'
    BY <1>8, HeartbeatKeeps
  <1>9. ASSUME NEW outcome \in Finished, runnerFinish(outcome) PROVE AgentsInv'
    BY <1>9, FinishKeeps
  <1>10. ASSUME NEW r \in finishing, askSecondOpinion(r) \/ runEnded(r) PROVE AgentsInv'
    BY <1>10, OpinionKeeps, EndedKeeps
  <1>11. ASSUME NEW late, NEW aged, minuteTick(late, aged) PROVE AgentsInv'
    BY <1>11, TickKeeps
  <1>12. ASSUME NEW a \in Agent, pauseAgent(a) \/ resumeAgent(a) \/ deleteAgent(a) PROVE AgentsInv'
    BY <1>12, PauseAgentKeeps, ResumeAgentKeeps, DeleteKeeps
  <1>13. ASSUME NEW how \in {"paused", "until"}, pauseModule(how) PROVE AgentsInv'
    BY <1>13, PauseKeeps
  <1>14. CASE resumeModule \/ pauseEnds \/ killSwitch \/ serviceStops \/ recoverAtStartup
    BY <1>14, ResumeKeeps, PauseEndsKeeps, KillKeeps, ServiceStopKeeps, AgentsRecoverKeeps
  <1> QED BY <1>1, <1>2, <1>3, <1>4, <1>5, <1>6, <1>7, <1>8, <1>9, <1>10, <1>11, <1>12, <1>13, <1>14 DEF AgentsNext

LEMMA AgentsHold == AgentsSpec => []AgentsInv
  <1>1. AgentsInit => AgentsInv
    BY AgentsStart
  <1>2. AgentsInv /\ [AgentsNext]_agentVars => AgentsInv'
    BY AgentsStep
  <1> QED BY <1>1, <1>2, PTL DEF AgentsSpec

(* Every variable keeps its type: no row points outside the queue.         *)
THEOREM AgentsTypeCorrect == AgentsSpec => []AgentsTypeOK
  <1>1. AgentsInv => AgentsTypeOK
    <2> SUFFICES ASSUME AgentsInv PROVE AgentsTypeOK
      OBVIOUS
    <2>1. DOMAIN runs = 1..Len(runs) /\ runs \in Seq(RunRecord)
      BY RowTyped DEF AgentsInv, RowsOK
    <2>2. Rest /\ Points(runs, acting, work, finishing, polls, halted)
      BY DEF AgentsInv, Pointed
    <2> QED BY <2>1, <2>2 DEF AgentsTypeOK, Rest, Points
  <1> QED BY <1>1, AgentsHold, PTL

(* However many agents, hand-offs, polls and faults there are, a run       *)
(* reaches a runner at most once: a poll that is hung up on, a lease that  *)
(* lapses or a runner that restarts never makes it be handed out again.    *)
THEOREM OnceHandedOut == AgentsSpec => []HandedOutOnce
  <1>1. AgentsInv => HandedOutOnce
    BY DEF AgentsInv, RowsOK, Row, HandedOutOnce
  <1> QED BY <1>1, AgentsHold, PTL

(* A follow-up is queued once, after all it reads is final, and nothing    *)
(* later changes what it reads: not a late job, a hand-off's own follow-up *)
(* nor the deletion of an agent.                                           *)
THEOREM FinalWhenRead == AgentsSpec => []AnswersFinal
  <1>1. AgentsInv => AnswersFinal
    <2> SUFFICES ASSUME AgentsInv, NEW f \in DOMAIN runs, runs[f].kind = "continue"
                 PROVE  /\ ChildrenOf(runs, runs[f].parent, "continue") = {f}
                        /\ runs[runs[f].parent].acts # "going"
                        /\ \A c \in ChildrenOf(runs, runs[f].parent, "handoff") :
                              /\ runs[c].state \in Finished
                              /\ \A g \in ChildrenOf(runs, c, "continue") : g < f /\ runs[g].state \in Finished
      BY DEF AnswersFinal
    <2>1. FollowUp(runs, f)
      BY DEF AgentsInv, RowsOK
    <2>2. ASSUME NEW c \in ChildrenOf(runs, runs[f].parent, "handoff")
          PROVE  /\ runs[c].state \in Finished
                 /\ \A g \in ChildrenOf(runs, c, "continue") : g < f /\ runs[g].state \in Finished
      <3>1. handoffSettled(runs, c) /\ \A g \in ChildrenOf(runs, c, "continue") : g < f
        BY <2>1 DEF FollowUp
      <3>2. ASSUME NEW g \in ChildrenOf(runs, c, "continue") PROVE runs[g].state \in Finished
        <4>1. g \in DOMAIN runs /\ runs[g].kind = "continue" /\ runs[g].parent = c /\ FollowUp(runs, g)
          BY DEF ChildrenOf, AgentsInv, RowsOK
        <4>2. c \in 1..Len(runs) /\ Row(runs, c) /\ runs[c].parent # 0
          <5>1. c \in DOMAIN runs /\ runs[c].kind = "handoff" /\ Row(runs, c) /\ DOMAIN runs = 1..Len(runs)
            BY RowTyped DEF ChildrenOf, AgentsInv, RowsOK
          <5> QED BY <5>1 DEF Row
        <4>3. ChildrenOf(runs, c, "handoff") # {}
          BY <4>1, <4>2 DEF FollowUp, Row
        <4> QED BY <3>1, <4>3 DEF handoffSettled
      <3> QED BY <3>1, <3>2 DEF handoffSettled
    <2> QED BY <2>1, <2>2 DEF FollowUp
  <1> QED BY <1>1, AgentsHold, PTL

(* From the kill switch until agents are resumed nothing waits or runs: no *)
(* claim, late finish, job or restart under way brings a run back.         *)
THEOREM KillStands == AgentsSpec => []KillHolds
  <1>1. AgentsInv => KillHolds
    <2> SUFFICES ASSUME AgentsInv, halted PROVE \A r \in DOMAIN runs : runs[r].state \notin Active
      BY DEF KillHolds
    <2>1. DOMAIN runs = 1..Len(runs)
      BY RowTyped DEF AgentsInv, RowsOK
    <2> QED BY <2>1 DEF AgentsInv, Pointed, Points
  <1> QED BY <1>1, AgentsHold, PTL
-----------------------------------------------------------------------------
(* No follow-up is lost: whatever ends a run looks at each run above it.   *)

(* Whoever starts two rows up from the same row meets the same runs.       *)
LEMMA ChainBelow ==
    ASSUME NEW R, RowsOK(R), NEW r \in 1..Len(R), NEW q \in 1..Len(R), R[r].parent = q
    PROVE  \A k \in 2..MaxDepth + 2 : supervisors(R, r)[k + 1] = supervisors(R, q)[k]
  <1>1. Len(R) \in Nat /\ MaxDepth \in Nat /\ \A x \in 1..Len(R) : R[x].parent \in 0..Len(R)
    BY RowTyped, AgentsAssumption DEF RowsOK, Row
  <1> DEFINE a == supervisors(R, r)
             b == supervisors(R, q)
             Ok == {k \in 2..MaxDepth + 2 : a[k + 1] = b[k]}
             f == [k \in 0..MaxDepth |-> k + 2]
  <1>2. a[2] = q /\ b[2] = R[q].parent /\ q # 0
    BY <1>1, Supervisors
  <1>3. \A k \in 2..MaxDepth + 2 : a[k + 1] = (IF a[k] = 0 THEN 0 ELSE R[a[k]].parent)
                                   /\ b[k + 1] = (IF b[k] = 0 THEN 0 ELSE R[b[k]].parent)
    BY <1>1, Supervisors
  <1> HIDE DEF a, b
  <1>4. f[0] \in Ok
    <2>1. 2 \in 2..MaxDepth + 2 /\ 0 \in 0..MaxDepth
      BY <1>1
    <2>2. a[2 + 1] = IF a[2] = 0 THEN 0 ELSE R[a[2]].parent
      BY <1>3, <2>1
    <2> QED BY <1>2, <2>1, <2>2
  <1>5. ASSUME NEW n \in 1..MaxDepth, f[n - 1] \in Ok PROVE f[n] \in Ok
    <2>1. f[n - 1] = n + 1 /\ f[n] = n + 2 /\ n + 1 \in 2..MaxDepth + 2 /\ n + 2 \in 2..MaxDepth + 2
      BY <1>1
    <2>2. a[(n + 1) + 1] = b[n + 1]
      BY <1>5, <2>1
    <2>3. a[(n + 2) + 1] = (IF a[n + 2] = 0 THEN 0 ELSE R[a[n + 2]].parent)
      BY <1>3, <2>1
    <2>4. b[(n + 1) + 1] = (IF b[n + 1] = 0 THEN 0 ELSE R[b[n + 1]].parent)
      BY <1>3, <2>1
    <2>5. (n + 1) + 1 = n + 2
      OBVIOUS
    <2>6. a[(n + 2) + 1] = b[n + 2]
      BY <2>2, <2>3, <2>4, <2>5
    <2> QED BY <2>1, <2>6
  <1>6. \A n \in 0..MaxDepth : f[n] \in Ok
    <2> HIDE DEF f, Ok
    <2> QED BY <1>1, <1>4, <1>5, Climb
  <1>7. ASSUME NEW k \in 2..MaxDepth + 2 PROVE k \in Ok
    <2>1. k - 2 \in 0..MaxDepth /\ f[k - 2] = k
      BY <1>1
    <2> QED BY <1>6, <2>1
  <1> QED BY <1>7 DEF a, b

(* Hand-offs go no deeper than the chain that is followed up.              *)
LEMMA ChainEnds ==
    ASSUME NEW R, RowsOK(R), NEW q \in 1..Len(R), R[q].kind # "continue"
    PROVE  \A k \in 2..MaxDepth + 3 : supervisors(R, q)[k] # 0 => k =< MaxDepth + 1
  <1>0. Len(R) \in Nat /\ MaxDepth \in Nat /\ \A x \in 1..Len(R) : Row(R, x) /\ R[x] \in RunRecord
    BY RowTyped, AgentsAssumption DEF RowsOK
  <1>1. /\ Len(R) \in Nat /\ MaxDepth \in Nat /\ \A x \in 1..Len(R) : R[x].parent \in 0..Len(R)
        /\ \A x \in 1..Len(R) : R[x].depth \in Nat /\ R[x].kind \in {"ask", "schedule", "handoff", "continue"} /\ Row(R, x)
    <2>1. \A x \in 1..Len(R) : R[x].parent \in 0..Len(R)
      BY <1>0 DEF Row
    <2>2. \A x \in 1..Len(R) : R[x].depth \in Nat /\ R[x].kind \in {"ask", "schedule", "handoff", "continue"}
      BY <1>0 DEF RunRecord
    <2> QED BY <1>0, <2>1, <2>2
  <1>2. \A x \in 1..Len(R) : R[x].kind # "continue" /\ R[x].parent # 0 =>
            R[x].parent \in 1..Len(R) /\ R[R[x].parent].kind # "continue" /\ R[x].depth = R[R[x].parent].depth + 1
    BY <1>1 DEF Row
  <1> DEFINE b == supervisors(R, q)
             Ok == {k \in 2..MaxDepth + 3 : b[k] # 0 => b[k] \in 1..Len(R) /\ R[b[k]].kind # "continue"
                                                         /\ R[b[k]].depth + (k - 1) = R[q].depth}
             f == [k \in 0..MaxDepth + 1 |-> k + 2]
  <1>3. b[2] = R[q].parent
    BY <1>1, Supervisors
  <1>4. \A k \in 2..MaxDepth + 2 : b[k + 1] = (IF b[k] = 0 THEN 0 ELSE R[b[k]].parent)
    BY <1>1, Supervisors
  <1> HIDE DEF b
  <1>5. f[0] \in Ok
    <2>1. b[2] # 0 => b[2] \in 1..Len(R) /\ R[b[2]].kind # "continue" /\ R[b[2]].depth + 1 = R[q].depth
      BY <1>1, <1>2, <1>3
    <2>2. 2 \in 2..MaxDepth + 3 /\ 0 \in 0..MaxDepth + 1 /\ 2 - 1 = 1
      BY <1>1
    <2> QED BY <2>1, <2>2
  <1>6. ASSUME NEW n \in 1..MaxDepth + 1, f[n - 1] \in Ok PROVE f[n] \in Ok
    <2>1. f[n - 1] = n + 1 /\ f[n] = n + 2 /\ n + 1 \in 2..MaxDepth + 2 /\ n + 2 \in 2..MaxDepth + 3
          /\ (n + 1) + 1 = n + 2 /\ (n + 1) - 1 = n /\ (n + 2) - 1 = n + 1
      BY <1>1
    <2>2. b[n + 1] # 0 => b[n + 1] \in 1..Len(R) /\ R[b[n + 1]].kind # "continue" /\ R[b[n + 1]].depth + n = R[q].depth
      BY <1>6, <2>1
    <2>3. b[n + 2] = (IF b[n + 1] = 0 THEN 0 ELSE R[b[n + 1]].parent)
      BY <1>4, <2>1
    <2>4. CASE b[n + 2] # 0
      <3>1. b[n + 1] # 0 /\ b[n + 2] = R[b[n + 1]].parent
        BY <2>3, <2>4
      <3>2. b[n + 2] \in 1..Len(R) /\ R[b[n + 2]].kind # "continue" /\ R[b[n + 1]].depth = R[b[n + 2]].depth + 1
        BY <1>2, <2>2, <2>4, <3>1
      <3>3. R[b[n + 2]].depth + (n + 1) = R[q].depth
        <4>1. PICK u \in Nat, v \in Nat, w \in Nat : u = R[b[n + 2]].depth /\ v = R[b[n + 1]].depth /\ w = R[q].depth
          BY <1>1, <2>2, <3>1, <3>2
        <4>2. v + n = w /\ v = u + 1
          BY <2>2, <3>1, <3>2, <4>1
        <4>3. n \in Nat
          BY <1>1
        <4>4. u + (n + 1) = w
          BY <4>1, <4>2, <4>3
        <4> QED BY <4>1, <4>4
      <3> QED BY <2>1, <3>2, <3>3
    <2>5. CASE b[n + 2] = 0
      BY <2>1, <2>5
    <2> QED BY <2>4, <2>5
  <1>7. \A n \in 0..MaxDepth + 1 : f[n] \in Ok
    <2>1. MaxDepth + 1 \in Nat
      BY <1>1
    <2> HIDE DEF f, Ok
    <2> QED BY <1>5, <1>6, <2>1, Climb
  <1>8. ASSUME NEW k \in 2..MaxDepth + 3, b[k] # 0 PROVE k =< MaxDepth + 1
    <2>1. k - 2 \in 0..MaxDepth + 1 /\ f[k - 2] = k
      BY <1>1
    <2>2. b[k] \in 1..Len(R) /\ R[b[k]].depth + (k - 1) = R[q].depth
      BY <1>7, <1>8, <2>1
    <2>3. R[q].depth =< MaxDepth /\ R[q].depth \in Nat /\ R[b[k]].depth \in Nat
      BY <1>1, <2>2 DEF Row
    <2> QED BY <1>1, <2>2, <2>3
  <1> QED BY <1>8 DEF b

(* So every run above one that ends is looked at.                          *)
LEMMA Visits ==
    ASSUME NEW R, RowsOK(R), NEW p \in 1..Len(R), NEW n \in 1..Len(R), IsUnder(R, p, n), p # n \/ R[n].kind # "continue"
    PROVE  \E k \in 1..MaxDepth + 3 : supervisors(R, n)[k] = p
  <1>1. Len(R) \in Nat /\ MaxDepth \in Nat /\ \A x \in 1..Len(R) : Row(R, x) /\ R[x].parent \in 0..Len(R)
    BY RowTyped, AgentsAssumption DEF RowsOK, Row
  <1> DEFINE Met(r) == \E k \in 2..MaxDepth + 3 : supervisors(R, r)[k] = p
             D == {r \in 1..Len(R) : r = p \/ Met(r)}
  <1>2. ASSUME NEW r \in 1..Len(R), R[r].parent \in D PROVE Met(r)
    <2>1. PICK q \in 1..Len(R) : q = R[r].parent /\ (q = p \/ Met(q))
      BY <1>2
    <2>a. supervisors(R, r)[2] = q
      BY <1>1, <2>1, Supervisors
    <2>b. R[q].kind # "continue"
      <3>1. q # 0 /\ R[r].parent # 0 /\ Row(R, r)
        BY <1>1, <2>1
      <3> QED BY <2>1, <3>1 DEF Row
    <2>2. R[q].kind # "continue" /\ supervisors(R, r)[2] = q
      BY <2>a, <2>b
    <2>3. CASE q = p
      <3>1. 2 \in 2..MaxDepth + 3
        BY <1>1
      <3> QED BY <2>2, <2>3, <3>1
    <2>4. CASE Met(q)
      <3>1. PICK k \in 2..MaxDepth + 3 : supervisors(R, q)[k] = p
        BY <2>4
      <3>2. p # 0 /\ k =< MaxDepth + 1
        BY <2>2, <3>1, ChainEnds
      <3>3. k \in 2..MaxDepth + 2 /\ k + 1 \in 2..MaxDepth + 3
        BY <1>1, <3>2
      <3>4. supervisors(R, r)[k + 1] = p
        BY <2>1, <3>1, <3>3, ChainBelow
      <3> QED BY <3>3, <3>4
    <2> QED BY <2>1, <2>3, <2>4
  <1> HIDE DEF Met
  <1>3. D \in SUBSET (1..Len(R)) /\ p \in D /\ Closed(R, D)
    BY <1>2 DEF Closed
  <1>4. n \in D
    BY <1>3 DEF IsUnder
  <1>5. CASE Met(n)
    <2>1. PICK k \in 2..MaxDepth + 3 : supervisors(R, n)[k] = p
      BY <1>5 DEF Met
    <2>2. k \in 1..MaxDepth + 3
      BY <1>1
    <2> QED BY <2>1, <2>2
  <1>6. CASE n = p
    <2>1. supervisors(R, n)[1] = n /\ 1 \in 1..MaxDepth + 3
      BY <1>1, <1>6, Supervisors
    <2> QED BY <1>6, <2>1
  <1> QED BY <1>4, <1>5, <1>6

(* What is under a run stays under it, and is under what the run is under. *)
LEMMA UnderKept ==
    ASSUME NEW R, NEW y, Len(R) \in Nat, Len(y) \in Nat, Len(R) =< Len(y),
           \A r \in 1..Len(R) : y[r].parent = R[r].parent,
           NEW p \in 1..Len(R), NEW r \in 1..Len(R), IsUnder(R, p, r)
    PROVE  IsUnder(y, p, r)
  <1> SUFFICES ASSUME NEW D \in SUBSET (1..Len(y)), p \in D, Closed(y, D) PROVE r \in D
    BY DEF IsUnder
  <1> DEFINE E == D \intersect 1..Len(R)
  <1>1. \A x \in 1..Len(R) : x \in 1..Len(y)
    OBVIOUS
  <1>2. Closed(R, E)
    BY <1>1 DEF Closed
  <1>3. E \in SUBSET (1..Len(R)) /\ p \in E
    OBVIOUS
  <1> HIDE DEF E
  <1>4. r \in E
    BY <1>2, <1>3 DEF IsUnder
  <1> QED BY <1>4 DEF E

LEMMA UnderUp ==
    ASSUME NEW R, NEW p, NEW c \in 1..Len(R), NEW r, R[c].parent = p, IsUnder(R, c, r)
    PROVE  IsUnder(R, p, r)
  BY DEF IsUnder, Closed

LEMMA UnderSelf == ASSUME NEW R, NEW p PROVE IsUnder(R, p, p)
  BY DEF IsUnder

(* Rows with follow-ups queued: none more may be queued than could be.     *)
Queues(R, y) ==
    /\ RowsOK(y) /\ Len(R) \in Nat /\ Len(y) \in Nat /\ Len(R) =< Len(y)
    /\ \A r \in 1..Len(R) : y[r].parent = R[r].parent /\ y[r].state = R[r].state
    /\ \A p \in 1..Len(y) : mayContinue(y, p) => p \in 1..Len(R) /\ mayContinue(R, p)

LEMMA QueuesOn ==
    ASSUME NEW R, NEW y, NEW z, Queues(R, y), Queues(y, z)
    PROVE  Queues(R, z)
  <1>1. Len(R) \in Nat /\ Len(y) \in Nat /\ Len(z) \in Nat /\ Len(R) =< Len(y) /\ Len(y) =< Len(z)
    BY DEF Queues
  <1>2. Len(R) =< Len(z) /\ \A r \in 1..Len(R) : r \in 1..Len(y)
    BY <1>1
  <1> QED BY <1>1, <1>2, Zenon DEF Queues

LEMMA ContinueQueues ==
    ASSUME NEW y, RowsOK(y), NEW q \in 0..Len(y)
    PROVE  /\ Queues(y, continueSupervisor(y, q))
           /\ ~(q # 0 /\ mayContinue(continueSupervisor(y, q), q))
  <1>0. Len(y) \in Nat /\ DOMAIN y = 1..Len(y)
    BY RowTyped DEF RowsOK
  <1>1. CASE q = 0 \/ ~mayContinue(y, q)
    <2>1. continueSupervisor(y, q) = y
      BY <1>1 DEF continueSupervisor
    <2>2. Queues(y, y)
      BY <1>0 DEF Queues
    <2> QED BY <1>1, <2>1, <2>2
  <1>2. CASE q # 0 /\ mayContinue(y, q)
    <2>1. q \in 1..Len(y)
      BY <1>0, <1>2
    <2> DEFINE z == continueSupervisor(y, q)
               n == Len(y) + 1
    <2>2. Continued(y, q, z, n)
      BY <1>2, <2>1, ContinueRows
    <2>3. RowsOK(z)
      BY <2>1, ContinueOK DEF After
    <2> HIDE DEF z, n
    <2>4. n = Len(y) + 1 /\ Len(z) = n /\ DOMAIN z = 1..n /\ z[n].state = "queued" /\ z[n].acts = "none" /\ z[q].continued
      BY <2>2 DEF Continued
    <2>5. \A r \in 1..Len(y) : /\ z[r].parent = y[r].parent /\ z[r].state = y[r].state /\ z[r].acts = y[r].acts
                               /\ z[r].agent = y[r].agent /\ (r # q => z[r].continued = y[r].continued)
      BY <2>2 DEF Continued
    <2>6. ChildrenOf(z, q, "continue") = {n}
      BY <2>2 DEF Continued
    <2>7. \A p, k : p # q \/ k # "continue" => ChildrenOf(z, p, k) = ChildrenOf(y, p, k)
      BY <2>2, Zenon DEF Continued
    <2>8. ~mayContinue(z, q)
      BY <2>4 DEF mayContinue
    <2>9. ASSUME NEW p \in 1..Len(z), mayContinue(z, p) PROVE p \in 1..Len(y) /\ mayContinue(y, p)
      <3>1. p # n
        BY <2>4, <2>9 DEF mayContinue
      <3>2. p \in 1..Len(y)
        BY <1>0, <2>4, <3>1
      <3>3. p # q
        BY <2>8, <2>9
      <3>4. ASSUME NEW c \in ChildrenOf(y, p, "handoff") PROVE handoffSettled(y, c)
        <4>1. c \in 1..Len(y) /\ handoffSettled(z, c)
          BY <1>0, <2>7, <2>9, <3>3 DEF ChildrenOf, mayContinue
        <4>2. c # q
          <5>1. n \in ChildrenOf(z, q, "continue") /\ z[n].state \notin Finished
            BY <2>4, <2>6 DEF Finished
          <5>2. c # q \/ ChildrenOf(z, c, "handoff") # {}
            <6>1. y[c].parent # 0 /\ Row(y, c)
              BY <1>0, <3>2, <4>1 DEF ChildrenOf, RowsOK
            <6>2. y[c].acts = "none"
              BY <6>1 DEF Row
            <6>3. y[q].acts = "none" => ChildrenOf(y, q, "handoff") # {}
              BY <1>2 DEF mayContinue
            <6>4. ChildrenOf(z, c, "handoff") = ChildrenOf(y, c, "handoff")
              BY <2>7
            <6> QED BY <6>2, <6>3, <6>4
          <5> QED BY <4>1, <5>1, <5>2 DEF handoffSettled
        <4>3. ChildrenOf(z, c, "continue") = ChildrenOf(y, c, "continue") /\ ChildrenOf(z, c, "handoff") = ChildrenOf(y, c, "handoff")
          BY <2>7, <4>2
        <4>4. \A f \in ChildrenOf(y, c, "continue") : z[f].state = y[f].state
          BY <1>0, <2>5 DEF ChildrenOf
        <4> QED BY <2>5, <4>1, <4>2, <4>3, <4>4 DEF handoffSettled
      <3> QED BY <2>5, <2>7, <2>9, <3>2, <3>3, <3>4 DEF mayContinue
    <2>10. Len(z) \in Nat /\ Len(y) =< Len(z)
      BY <1>0, <2>4
    <2>11. Queues(y, z)
      BY <1>0, <2>3, <2>5, <2>9, <2>10 DEF Queues
    <2> QED BY <2>8, <2>11 DEF z
  <1> QED BY <1>1, <1>2

(* Nothing more is to be queued above a run whose tree was followed up.    *)
LEMMA TreeQueues ==
    ASSUME NEW R, RowsOK(R), NEW n \in 1..Len(R)
    PROVE  /\ Queues(R, continueTree(R, n))
           /\ \A p \in 1..Len(R) : mayContinue(continueTree(R, n), p) =>
                  \A k \in 1..MaxDepth + 3 : supervisors(R, n)[k] # p
  <1>1. /\ Len(R) \in Nat /\ MaxDepth \in Nat /\ MaxDepth + 3 \in Nat
        /\ \A q \in 1..Len(R) : R[q].parent \in 0..Len(R)
    BY RowTyped, AgentsAssumption DEF RowsOK, Row
  <1> DEFINE m == MaxDepth + 3
             seq == supervisors(R, n)
             P == {y \in After(R) : Queues(R, y)}
  <1>2. \A k \in 1..m : seq[k] \in 0..Len(R)
    BY <1>1, Supervisors
  <1>3. R \in P
    <2>1. Queues(R, R)
      BY <1>1 DEF Queues
    <2> QED BY <2>1, Same
  <1>4. ASSUME NEW y \in P, NEW p \in 0..Len(R) PROVE continueSupervisor(y, p) \in P
    <2>1. y \in After(R) /\ Queues(R, y)
      OBVIOUS
    <2>2. RowsOK(y) /\ p \in 0..Len(y)
      BY <2>1 DEF Queues
    <2>3. Queues(y, continueSupervisor(y, p)) /\ continueSupervisor(y, p) \in After(y)
      BY <2>2, ContinueQueues, ContinueOK
    <2> QED BY <2>1, <2>3, QueuesOn, FollowsOn
  <1> HIDE DEF P
  <1>5. PICK f : TreeIs(f, R, n, P)
    BY <1>1, <1>3, <1>4, TreeSteps
  <1>6. /\ f \in [0..m -> P] /\ f[0] = R /\ continueTree(R, n) = f[m]
        /\ \A k \in 1..m : f[k] = continueSupervisor(f[k - 1], seq[k])
    BY <1>5 DEF TreeIs
  <1> HIDE DEF seq, m
  <1>m. m \in Nat
    BY <1>1 DEF m
  <1>7. \A k \in 0..m : f[k] \in P /\ RowsOK(f[k]) /\ Queues(R, f[k])
    BY <1>6 DEF P, Queues
  <1> DEFINE Ok == {k \in 0..m : \A p \in 1..Len(R) : mayContinue(f[k], p) => \A j \in 1..k : seq[j] # p}
             id == [k \in 0..m |-> k]
  <1>8. id[0] \in Ok
    BY <1>m
  <1>9. ASSUME NEW k \in 1..m, id[k - 1] \in Ok PROVE id[k] \in Ok
    <2>1. k - 1 \in 0..m /\ k \in 0..m /\ id[k - 1] = k - 1 /\ id[k] = k
      BY <1>m
    <2>2. f[k] = continueSupervisor(f[k - 1], seq[k]) /\ Queues(R, f[k - 1]) /\ RowsOK(f[k - 1])
      BY <1>6, <1>7, <2>1
    <2>3. seq[k] \in 0..Len(f[k - 1])
      <3>1. seq[k] \in 0..Len(R)
        BY <1>2 DEF m
      <3> QED BY <2>2, <3>1 DEF Queues
    <2>4. Queues(f[k - 1], f[k]) /\ ~(seq[k] # 0 /\ mayContinue(f[k], seq[k]))
      BY <2>2, <2>3, ContinueQueues
    <2>5. ASSUME NEW p \in 1..Len(R), mayContinue(f[k], p), NEW j \in 1..k PROVE seq[j] # p
      <3>1. p \in 1..Len(f[k]) /\ p # 0
        BY <1>1, <1>7, <2>1 DEF Queues
      <3>2. mayContinue(f[k - 1], p) /\ seq[k] # p
        BY <2>4, <2>5, <3>1 DEF Queues
      <3>3. \A i \in 1..k - 1 : seq[i] # p
        BY <1>9, <2>1, <3>2
      <3>4. j = k \/ j \in 1..k - 1
        BY <1>m
      <3> QED BY <3>2, <3>3, <3>4
    <2> QED BY <2>1, <2>5
  <1>10. \A k \in 0..m : id[k] \in Ok
    <2> HIDE DEF id, Ok
    <2> QED BY <1>m, <1>8, <1>9, Climb
  <1>11. m \in 0..m /\ id[m] = m
    BY <1>m
  <1>12. m \in Ok
    BY <1>10, <1>11
  <1> QED BY <1>6, <1>7, <1>11, <1>12 DEF m, seq

(* What waits for a run under c waits for it above c too.                  *)
LEMMA WaitsUp ==
    ASSUME NEW R, RowsOK(R), NEW F, ForgoneOK, NEW c \in 1..Len(R), R[c].parent # 0, c \in forgone \/ Waits(R, c, F)
    PROVE  R[c].parent \in forgone \/ Waits(R, R[c].parent, F)
  <1>1. R[c].parent \in 1..c
    BY RowTyped DEF RowsOK, Row
  <1>2. CASE c \in forgone
    BY <1>1, <1>2 DEF ForgoneOK
  <1>3. CASE Waits(R, c, F)
    <2>1. PICK r \in 1..Len(R) : IsUnder(R, c, r) /\ (R[r].state \in Active \/ r \in F)
      BY <1>3 DEF Waits
    <2>2. IsUnder(R, R[c].parent, r)
      BY <2>1, UnderUp
    <2> QED BY <2>1, <2>2 DEF Waits
  <1> QED BY <1>2, <1>3

(* A hand-off that is not settled waits for a run, or is forgone.          *)
LEMMA Unsettled ==
    ASSUME NEW R, RowsOK(R), NEW F, Owing(R, F), ForgoneOK, ~killed
    PROVE  \A c \in 1..Len(R) : R[c].parent # 0 /\ ~handoffSettled(R, c) => c \in forgone \/ Waits(R, c, F)
  <1> DEFINE Bad == {c \in 1..Len(R) : R[c].parent # 0 /\ ~handoffSettled(R, c) /\ ~(c \in forgone \/ Waits(R, c, F))}
             FromTop == {Len(R) - c : c \in Bad}
             L == OpToRel(<, Nat)
  <1> SUFFICES ASSUME Bad # {} PROVE FALSE
    OBVIOUS
  <1>1. /\ Len(R) \in Nat /\ DOMAIN R = 1..Len(R)
        /\ \A x \in 1..Len(R) : Row(R, x) /\ R[x] \in RunRecord
    BY RowTyped DEF RowsOK
  <1>2. Bad \subseteq 1..Len(R) /\ FromTop \subseteq Nat /\ FromTop # {}
    BY <1>1
  <1>3. \A x, y \in Nat : <<y, x>> \in L <=> y < x
    BY DEF OpToRel
  <1>4. IsWellFoundedOn(L, Nat)
    BY NatLessThanWellFounded
  <1> HIDE DEF L
  <1>5. PICK n \in FromTop : \A k \in FromTop : ~(<<k, n>> \in L)
    <2> HIDE DEF FromTop
    <2> QED BY <1>2, <1>4, WFMin
  <1>6. PICK c \in Bad : n = Len(R) - c
    OBVIOUS
  <1>7. c \in 1..Len(R) /\ R[c].parent # 0 /\ ~handoffSettled(R, c) /\ c \notin forgone /\ ~Waits(R, c, F)
    OBVIOUS
  <1>8. ASSUME NEW d \in Bad PROVE ~(d > c)
    <2>1. d \in 1..Len(R) /\ Len(R) - d \in FromTop
      OBVIOUS
    <2>2. ~(Len(R) - d < n)
      BY <1>2, <1>3, <1>5, <2>1
    <2>3. c \in Nat /\ d \in Nat /\ Len(R) \in Nat
      BY <1>1, <1>7, <2>1
    <2> QED BY <1>6, <2>2, <2>3
  <1>9. \A r \in 1..Len(R) : IsUnder(R, c, r) => R[r].state \notin Active
    BY <1>7 DEF Waits
  <1>10. R[c].state \in Finished
    <2>1. R[c].state \in Active \union Finished
      BY <1>1, <1>7 DEF RunRecord
    <2>2. R[c].state \notin Active
      BY <1>7, <1>9, UnderSelf
    <2> QED BY <2>1, <2>2
  <1>11. \A f \in ChildrenOf(R, c, "continue") : R[f].state \in Finished
    <2> SUFFICES ASSUME NEW f \in ChildrenOf(R, c, "continue") PROVE R[f].state \in Finished
      OBVIOUS
    <2>1. f \in 1..Len(R) /\ R[f].parent = c
      BY <1>1 DEF ChildrenOf
    <2>2. IsUnder(R, c, f)
      BY <2>1, UnderSelf, UnderUp
    <2>3. R[f].state \in Active \union Finished
      BY <1>1, <2>1 DEF RunRecord
    <2> QED BY <1>9, <2>1, <2>2, <2>3
  <1>12. /\ ChildrenOf(R, c, "handoff") # {}
         /\ R[c].state = "answered" /\ ~R[c].continued /\ R[c].agent \notin gone
    BY <1>7, <1>10, <1>11 DEF handoffSettled
  <1>13. \A d \in ChildrenOf(R, c, "handoff") : handoffSettled(R, d)
    <2> SUFFICES ASSUME NEW d \in ChildrenOf(R, c, "handoff"), ~handoffSettled(R, d) PROVE FALSE
      OBVIOUS
    <2>1. d \in 1..Len(R) /\ R[d].parent = c /\ c # 0
      BY <1>1, <1>7 DEF ChildrenOf
    <2>2. c \in 0..d - 1
      BY <1>1, <2>1 DEF Row
    <2>3. d > c
      BY <2>1, <2>2
    <2>4. d \notin Bad
      BY <1>8, <2>3
    <2>5. d \in forgone \/ Waits(R, d, F)
      BY <2>1, <2>4
    <2> QED BY <1>7, <2>1, <2>5, WaitsUp
  <1>14. mayContinue(R, c)
    <2>1. R[c].acts = "none"
      BY <1>1, <1>7 DEF Row
    <2> QED BY <1>12, <1>13, <2>1 DEF mayContinue
  <1> QED BY <1>7, <1>14 DEF Owing

(* Runs that move on, M of them to an end: what may be continued now may   *)
(* wait for those in M.                                                    *)
LEMMA MarkWaits ==
    ASSUME NEW R, RowsOK(R), NEW y \in Seq(RunRecord), Len(y) = Len(R), NEW F, NEW M, Owing(R, F), ForgoneOK,
           \A r \in 1..Len(R) :
              /\ y[r].kind = R[r].kind /\ y[r].parent = R[r].parent /\ y[r].agent = R[r].agent
              /\ y[r].continued = R[r].continued
              /\ R[r].state \in Finished => y[r].state = R[r].state
              /\ R[r].state \in Active => y[r].state \in Active \/ r \in M,
           NEW p \in 1..Len(R), mayContinue(y, p), y[p].acts = R[p].acts
    PROVE  p \in forgone \/ Waits(y, p, F \union M)
  <1>1. /\ Len(R) \in Nat /\ DOMAIN R = 1..Len(R) /\ DOMAIN y = 1..Len(R)
        /\ \A x \in 1..Len(R) : Row(R, x) /\ R[x] \in RunRecord
    BY RowTyped DEF RowsOK
  <1>2. \A q, k : ChildrenOf(y, q, k) = ChildrenOf(R, q, k)
    BY <1>1 DEF ChildrenOf
  <1>3. \A r \in 1..Len(R) : R[r].state \in Active \/ R[r].state \in Finished
    BY <1>1 DEF RunRecord
  <1>4. ASSUME NEW q \in 1..Len(R), Waits(R, q, F) PROVE Waits(y, q, F \union M)
    <2>1. PICK r \in 1..Len(R) : IsUnder(R, q, r) /\ (R[r].state \in Active \/ r \in F)
      BY <1>4 DEF Waits
    <2>2. IsUnder(y, q, r)
      <3>1. Len(y) \in Nat /\ Len(R) =< Len(y) /\ \A x \in 1..Len(R) : y[x].parent = R[x].parent
        BY <1>1
      <3> QED BY <1>1, <2>1, <3>1, UnderKept
    <2>3. y[r].state \in Active \/ r \in F \union M
      BY <2>1
    <2> QED BY <2>2, <2>3 DEF Waits
  <1>5. ~killed /\ p \in 1..Len(y)
    BY DEF mayContinue
  <1>6. CASE mayContinue(R, p)
    BY <1>4, <1>6 DEF Owing
  <1>7. CASE R[p].state # y[p].state
    <2>1. p \in M
      <3>1. R[p].state \in Active /\ y[p].state \notin Active
        BY <1>3, <1>7 DEF mayContinue, Active
      <3> QED BY <3>1
    <2> QED BY <1>5, <2>1, UnderSelf DEF Waits
  <1>8. CASE ~mayContinue(R, p) /\ R[p].state = y[p].state
    <2>1. PICK c \in ChildrenOf(R, p, "handoff") : ~handoffSettled(R, c)
      BY <1>2, <1>8 DEF mayContinue
    <2>2. c \in 1..Len(R) /\ R[c].parent = p /\ p # 0
      BY <1>1, <2>1 DEF ChildrenOf
    <2>3. c \in forgone \/ Waits(R, c, F)
      BY <1>5, <2>1, <2>2, Unsettled
    <2>4. p \in forgone \/ Waits(R, p, F)
      BY <2>2, <2>3, WaitsUp
    <2> QED BY <1>4, <2>4
  <1> QED BY <1>6, <1>7, <1>8

LEMMA OwingMore == ASSUME NEW R, NEW F, NEW G, F \subseteq G, Owing(R, F) PROVE Owing(R, G)
  BY DEF Owing, Waits

(* Following up an end pays what it owes.                                  *)
LEMMA TreePays ==
    ASSUME NEW R, RowsOK(R), NEW F, Owing(R, F), NEW n \in 1..Len(R)
    PROVE  Owing(continueTree(R, n), F \ {n})
  <1> DEFINE y == continueTree(R, n)
  <1>1. /\ Queues(R, y)
        /\ \A p \in 1..Len(R) : mayContinue(y, p) => \A k \in 1..MaxDepth + 3 : supervisors(R, n)[k] # p
    BY TreeQueues
  <1> HIDE DEF y
  <1>2. DOMAIN R = 1..Len(R) /\ \A x \in 1..Len(R) : Row(R, x)
    BY RowTyped DEF RowsOK
  <1>3. ASSUME NEW p \in 1..Len(y), mayContinue(y, p) PROVE p \in forgone \/ Waits(y, p, F \ {n})
    <2>1. p \in 1..Len(R) /\ mayContinue(R, p)
      BY <1>1, <1>3 DEF Queues
    <2>2. CASE Waits(R, p, F)
      <3>1. PICK r \in 1..Len(R) : IsUnder(R, p, r) /\ (R[r].state \in Active \/ r \in F)
        BY <2>2 DEF Waits
      <3>2. R[p].kind # "continue"
        <4>1. p # 0 /\ (R[p].acts # "none" \/ ChildrenOf(R, p, "handoff") # {})
          BY <1>1, <2>1 DEF mayContinue, Queues
        <4>2. CASE R[p].acts # "none"
          BY <1>2, <2>1, <4>2 DEF Row
        <4>3. CASE ChildrenOf(R, p, "handoff") # {}
          <5>1. PICK c \in 1..Len(R) : R[c].parent = p
            BY <1>2, <4>3 DEF ChildrenOf
          <5> QED BY <1>2, <4>1, <5>1 DEF Row
        <4> QED BY <4>1, <4>2, <4>3
      <3>3. r # n \/ R[r].state \in Active
        <4>1. r = n => \E k \in 1..MaxDepth + 3 : supervisors(R, n)[k] = p
          BY <2>1, <3>1, <3>2, Visits
        <4> QED BY <1>1, <1>3, <2>1, <4>1
      <3>4. IsUnder(y, p, r)
        <4>1. Len(R) \in Nat /\ Len(y) \in Nat /\ Len(R) =< Len(y) /\ \A x \in 1..Len(R) : y[x].parent = R[x].parent
          BY <1>1 DEF Queues
        <4> QED BY <2>1, <3>1, <4>1, UnderKept
      <3>5. r \in 1..Len(y) /\ (y[r].state \in Active \/ r \in F \ {n})
        BY <1>1, <3>1, <3>3 DEF Queues
      <3> QED BY <3>4, <3>5 DEF Waits
    <2>3. CASE p \in forgone
      BY <2>3
    <2> QED BY <2>1, <2>2, <2>3 DEF Owing
  <1>4. Owing(y, F \ {n})
    BY <1>3 DEF Owing
  <1> QED BY <1>4 DEF y

(* So ending runs, each followed up in turn, owes nothing more.            *)
LEMMA EndEachPays ==
    ASSUME NEW R, RowsOK(R), NEW S, NEW F, Owing(R, F), ForgoneOK
    PROVE  Owing(endEach(R, S), F)
  <1> DEFINE P == {y \in After(R) : Owing(y, F)}
  <1>1. Len(R) \in Nat /\ R \in P
    BY Same, RowTyped DEF RowsOK
  <1>2. ASSUME NEW y \in P, NEW n \in 1..Len(R), R[n].state \in Active
        PROVE  continueTree([y EXCEPT ![n].state = "ended"], n) \in P
    <2>1. y \in After(R) /\ Owing(y, F) /\ RowsOK(y) /\ Follows(R, y)
      BY DEF After
    <2>2. n \in 1..Len(y) /\ y[n].state \in Active \union {"ended"}
      BY <1>2, <2>1, EndOne DEF Follows
    <2> DEFINE z == [y EXCEPT ![n].state = "ended"]
    <2>4. /\ z \in After(y) /\ Len(z) = Len(y) /\ z[n].state = "ended"
          /\ \A r \in 1..Len(y) :
                /\ z[r].kind = y[r].kind /\ z[r].parent = y[r].parent /\ z[r].agent = y[r].agent
                /\ z[r].continued = y[r].continued /\ z[r].acts = y[r].acts
                /\ r # n => z[r] = y[r]
      BY <2>1, <2>2, EndOne
    <2> HIDE DEF z
    <2>5. RowsOK(z) /\ z \in Seq(RunRecord)
      BY <2>4 DEF After
    <2>6. \A r \in 1..Len(y) :
              /\ y[r].state \in Finished => z[r].state = y[r].state
              /\ y[r].state \in Active => z[r].state \in Active \/ r \in {n}
      BY <2>2, <2>4 DEF Active, Finished
    <2>7. \A p \in 1..Len(y) : mayContinue(z, p) => p \in forgone \/ Waits(z, p, F \union {n})
      BY <2>1, <2>4, <2>5, <2>6, MarkWaits
    <2>8. Owing(z, F \union {n})
      BY <2>4, <2>7 DEF Owing
    <2>9. n \in 1..Len(z) /\ z[n].state \notin Active
      BY <2>2, <2>4 DEF Active
    <2>10. Owing(continueTree(z, n), (F \union {n}) \ {n}) /\ continueTree(z, n) \in After(z)
      BY <2>5, <2>8, <2>9, TreePays, TreeKeeps
    <2>11. Owing(continueTree(z, n), F)
      BY <2>10, OwingMore
    <2>12. continueTree(z, n) \in After(R)
      BY <2>1, <2>4, <2>10, FollowsOn
    <2> QED BY <2>11, <2>12 DEF z
  <1> HIDE DEF P
  <1>3. endEach(R, S) \in P
    BY <1>1, <1>2, EndEachIn
  <1> QED BY <1>3 DEF P

(* Nor does a claim, of what it ends on the way.                           *)
LEMMA ClaimPays ==
    ASSUME NEW R, RowsOK(R), NEW c, NEW p \in Poll, NEW k \in 0..Len(R), c.picked = k, k # 0 => R[k].state = "queued",
           \A r \in c.ended : r \in 1..Len(R) /\ R[r].state = "queued" /\ r # k,
           NEW F, Owing(R, F), ForgoneOK
    PROVE  Owing(claim(R, c, p), F)
  <1> DEFINE y == ClaimMarked(R, c, p)
             m == Len(R)
             Left(j) == F \union {x \in c.ended : x > j}
  <1>1. /\ RowsOK(y) /\ y \in Seq(RunRecord) /\ Len(y) = Len(R)
        /\ \A r \in 1..Len(R) :
              /\ y[r].kind = R[r].kind /\ y[r].parent = R[r].parent /\ y[r].agent = R[r].agent
              /\ y[r].continued = R[r].continued /\ y[r].acts = R[r].acts
              /\ R[r].state \in Finished => y[r].state = R[r].state
              /\ R[r].state \in Active => y[r].state \in Active \/ r \in c.ended
              /\ r \in c.ended => y[r].state = "ended"
    BY ClaimMarks
  <1> HIDE DEF y
  <1>2. m \in Nat
    BY RowTyped DEF RowsOK
  <1> HIDE DEF m
  <1>3. y \in After(y)
    BY <1>1, Same
  <1>4. ASSUME NEW z \in After(y), NEW n \in 1..m PROVE continueTree(z, n) \in After(y)
    <2>1. RowsOK(z) /\ n \in 1..Len(z)
      BY <1>1, <1>2, RowTyped DEF After, Follows, RowsOK, m
    <2>2. continueTree(z, n) \in After(z)
      BY <2>1, TreeKeeps
    <2> QED BY <1>1, <2>2, FollowsOn
  <1>5. PICK f : ClaimIs(f, R, c, p, After(y))
    BY <1>2, <1>3, <1>4, ClaimSteps DEF y, m
  <1>6. /\ f \in [0..m -> After(y)] /\ f[0] = y /\ claim(R, c, p) = f[m]
        /\ \A n \in 1..m : f[n] = IF n \in c.ended THEN continueTree(f[n - 1], n) ELSE f[n - 1]
    BY <1>5 DEF ClaimIs, y, m
  <1> DEFINE Ok == {j \in 0..m : Owing(f[j], Left(j))}
             id == [j \in 0..m |-> j]
  <1>7. id[0] \in Ok
    <2>1. ASSUME NEW q \in 1..Len(R), mayContinue(y, q) PROVE q \in forgone \/ Waits(y, q, F \union c.ended)
      <3>1. y[q].acts = R[q].acts
        BY <1>1
      <3>2. \A r \in 1..Len(R) :
              /\ y[r].kind = R[r].kind /\ y[r].parent = R[r].parent /\ y[r].agent = R[r].agent
              /\ y[r].continued = R[r].continued
              /\ R[r].state \in Finished => y[r].state = R[r].state
              /\ R[r].state \in Active => y[r].state \in Active \/ r \in c.ended
        BY <1>1
      <3>3. y \in Seq(RunRecord) /\ Len(y) = Len(R)
        BY <1>1
      <3> QED BY <2>1, <3>1, <3>2, <3>3, MarkWaits
    <2>2. F \union c.ended = Left(0)
      OBVIOUS
    <2>3. Owing(y, Left(0))
      BY <1>1, <2>1, <2>2 DEF Owing
    <2> QED BY <1>2, <1>6, <2>3
  <1>8. ASSUME NEW n \in 1..m, id[n - 1] \in Ok PROVE id[n] \in Ok
    <2>1. n - 1 \in 0..m /\ n \in 0..m /\ id[n - 1] = n - 1 /\ id[n] = n
      BY <1>2
    <2>2. Owing(f[n - 1], Left(n - 1)) /\ f[n - 1] \in After(y)
      BY <1>6, <1>8, <2>1
    <2>3. CASE n \in c.ended
      <3>1. f[n] = continueTree(f[n - 1], n)
        BY <1>6, <2>3
      <3>2. RowsOK(f[n - 1]) /\ n \in 1..Len(f[n - 1]) /\ f[n - 1][n].state = "ended"
        <4>1. RowsOK(f[n - 1]) /\ Follows(y, f[n - 1]) /\ n \in 1..Len(y) /\ y[n].state = "ended"
          BY <1>1, <2>2, <2>3 DEF After, m
        <4>2. Len(y) =< Len(f[n - 1]) /\ f[n - 1][n].state = "ended"
          BY <4>1 DEF Follows, Active
        <4>3. Len(f[n - 1]) \in Nat /\ Len(y) \in Nat
          BY <1>1, <4>1, RowTyped DEF RowsOK
        <4> QED BY <4>1, <4>2, <4>3
      <3>3. Owing(f[n], Left(n - 1) \ {n})
        <4>1. f[n - 1][n].state \notin Active
          BY <3>2 DEF Active
        <4> HIDE DEF Left
        <4> QED BY <2>2, <3>1, <3>2, <4>1, TreePays
      <3>4. Left(n - 1) \ {n} \subseteq Left(n)
        BY <1>1, <1>2 DEF m
      <3> HIDE DEF Left
      <3>5. Owing(f[n], Left(n))
        BY <3>3, <3>4, OwingMore
      <3> QED BY <2>1, <3>5
    <2>4. CASE n \notin c.ended
      <3>1. f[n] = f[n - 1]
        BY <1>6, <2>4
      <3>2. Left(n - 1) \subseteq Left(n)
        BY <1>1, <1>2, <2>4 DEF m
      <3> HIDE DEF Left
      <3>3. Owing(f[n], Left(n))
        BY <2>2, <3>1, <3>2, OwingMore
      <3> QED BY <2>1, <3>3
    <2> QED BY <2>3, <2>4
  <1>9. \A n \in 0..m : id[n] \in Ok
    <2> HIDE DEF id, Ok
    <2> QED BY <1>2, <1>7, <1>8, Climb
  <1>10. m \in 0..m /\ id[m] = m
    BY <1>2
  <1>11. Owing(f[m], Left(m))
    BY <1>9, <1>10
  <1>12. Left(m) \subseteq F
    BY <1>2 DEF m
  <1> HIDE DEF Left
  <1>13. Owing(f[m], F)
    BY <1>11, <1>12, OwingMore
  <1> QED BY <1>6, <1>13

(* A step pays what it owes when its rows do, or when a stop came between. *)
LEMMA Pays ==
    ASSUME FollowUpsInv, NEW y, RowsOK(y), runs' = y, gone \subseteq gone', forgone \subseteq forgone', ForgoneOK',
           killed => killed' \/ 1..Len(y) \subseteq forgone',
           ~cut' => Owing(y, finishing')
    PROVE  FollowUpsInv'
  <1> SUFFICES ASSUME ~cut' PROVE Owing(runs, finishing)'
    BY DEF FollowUpsInv
  <1>1. Owing(y, finishing') /\ ForgoneOK
    BY DEF FollowUpsInv
  <1>2. DOMAIN y = 1..Len(y) /\ Len(y) \in Nat
    BY RowTyped DEF RowsOK
  <1>3. ASSUME NEW p \in 1..Len(y), mayContinue(runs, p)' PROVE p \in forgone' \/ Waits(y, p, finishing')
    <2>1. CASE killed
      BY <1>3, <2>1 DEF mayContinue
    <2>2. CASE ~killed /\ mayContinue(y, p)
      BY <1>1, <2>2 DEF Owing
    <2>3. CASE ~killed /\ ~mayContinue(y, p)
      <3>1. PICK c \in ChildrenOf(y, p, "handoff") : ~handoffSettled(y, c)
        BY <1>3, <2>3 DEF mayContinue, ChildrenOf
      <3>2. c \in 1..Len(y) /\ y[c].parent = p /\ p # 0
        BY <1>2, <3>1 DEF ChildrenOf
      <3>3. c \in forgone \/ Waits(y, c, finishing')
        BY <1>1, <2>3, <3>1, <3>2, Unsettled
      <3>4. p \in forgone \/ Waits(y, p, finishing')
        BY <1>1, <3>2, <3>3, WaitsUp
      <3> QED BY <3>4
    <2> QED BY <2>1, <2>2, <2>3
  <1> QED BY <1>3 DEF Owing, Waits, IsUnder, Closed

(* The same, while the settings stay.                                      *)
LEMMA PaysOff ==
    ASSUME FollowUpsInv, NEW y, RowsOK(y), runs' = y, UNCHANGED <<gone, forgone, killed>>,
           ~cut' => Owing(y, finishing')
    PROVE  FollowUpsInv'
  <1>1. ForgoneOK'
    BY DEF FollowUpsInv, ForgoneOK
  <1> QED BY <1>1, Pays

LEMMA RowsNow ==
    ASSUME AgentsInv', gone' = gone, NEW y, runs' = y
    PROVE  RowsOK(y)
  <1>1. \A c : handoffSettled(runs, c)' => handoffSettled(y, c)
    BY DEF handoffSettled, ChildrenOf, Finished
  <1>2. \A f : FollowUp(runs, f)' => FollowUp(y, f)
    BY <1>1 DEF FollowUp, ChildrenOf
  <1> QED BY <1>2 DEF AgentsInv, RowsOK, Row

(* A run just queued owes nothing.                                         *)
LEMMA AddedPays ==
    ASSUME NEW R, RowsOK(R), NEW x \in RunRecord, x.state = "queued", x.kind # "continue",
           x.parent # 0 => x.parent \in 1..Len(R) /\ R[x.parent].state = "running", NEW F, Owing(R, F)
    PROVE  Owing(Append(R, x), F)
  <1> DEFINE n == Len(R) + 1
  <1>1. PICK y : y = Append(R, x)
    OBVIOUS
  <1>2. R \in Seq(RunRecord) /\ Len(R) \in Nat /\ DOMAIN R = 1..Len(R)
    BY RowTyped DEF RowsOK
  <1>3. /\ Len(y) = n /\ DOMAIN y = 1..n /\ y[n] = x
        /\ \A r \in 1..Len(R) : y[r] = R[r] /\ r # n /\ r \in 1..n
        /\ \A r \in 1..n : r # n => r \in 1..Len(R)
    BY <1>1, <1>2
  <1>n. n \in Nat /\ Len(R) =< n
    BY <1>2
  <1> HIDE DEF n
  <1>4. \A p, k : k = "continue" \/ p # x.parent => ChildrenOf(y, p, k) = ChildrenOf(R, p, k)
    <2> SUFFICES ASSUME NEW p, NEW k, k = "continue" \/ p # x.parent PROVE ChildrenOf(y, p, k) = ChildrenOf(R, p, k)
      OBVIOUS
    <2>1. ~(y[n].parent = p /\ y[n].kind = k)
      BY <1>3
    <2> QED BY <1>2, <1>3, <2>1 DEF ChildrenOf
  <1>5. ASSUME NEW p \in 1..Len(y), mayContinue(y, p) PROVE p \in forgone \/ Waits(y, p, F)
    <2>1. p \in 1..Len(R) /\ p # 0
      <3>1. p # n
        BY <1>3, <1>5 DEF mayContinue
      <3> QED BY <1>2, <1>3, <3>1
    <2>2. p # x.parent
      <3>1. R[p].state = "answered"
        BY <1>3, <1>5, <2>1 DEF mayContinue
      <3> QED BY <2>1, <3>1
    <2>3. ASSUME NEW c \in ChildrenOf(R, p, "handoff") PROVE handoffSettled(R, c)
      <3>1. c \in 1..Len(R) /\ handoffSettled(y, c)
        <4>1. c \in 1..Len(R)
          BY <1>2 DEF ChildrenOf
        <4>2. ChildrenOf(y, p, "handoff") = ChildrenOf(R, p, "handoff")
          BY <1>4, <2>2
        <4> QED BY <1>5, <4>1, <4>2 DEF mayContinue
      <3>2. c # x.parent
        <4>1. y[c].state \in Finished /\ y[c] = R[c] /\ c # 0
          BY <1>3, <3>1 DEF handoffSettled
        <4> QED BY <4>1 DEF Finished
      <3>3. ChildrenOf(y, c, "continue") = ChildrenOf(R, c, "continue") /\ ChildrenOf(y, c, "handoff") = ChildrenOf(R, c, "handoff")
        BY <1>4, <3>2
      <3>4. \A f \in ChildrenOf(R, c, "continue") : y[f] = R[f]
        BY <1>2, <1>3 DEF ChildrenOf
      <3>5. y[c] = R[c]
        BY <1>3, <3>1
      <3> QED BY <3>1, <3>3, <3>4, <3>5 DEF handoffSettled
    <2>4. mayContinue(R, p)
      <3>1. ChildrenOf(y, p, "handoff") = ChildrenOf(R, p, "handoff") /\ y[p] = R[p]
        BY <1>3, <1>4, <2>1, <2>2
      <3> QED BY <1>5, <2>3, <3>1 DEF mayContinue
    <2>5. CASE Waits(R, p, F)
      <3>1. PICK r \in 1..Len(R) : IsUnder(R, p, r) /\ (R[r].state \in Active \/ r \in F)
        BY <2>5 DEF Waits
      <3>2. IsUnder(y, p, r)
        <4>1. Len(y) \in Nat /\ Len(R) =< Len(y) /\ \A q \in 1..Len(R) : y[q].parent = R[q].parent
          BY <1>3, <1>n
        <4> QED BY <1>2, <2>1, <3>1, <4>1, UnderKept
      <3>3. r \in 1..Len(y) /\ y[r] = R[r]
        BY <1>3
      <3> QED BY <3>1, <3>2, <3>3 DEF Waits
    <2> QED BY <2>1, <2>4, <2>5 DEF Owing
  <1>6. Owing(y, F)
    BY <1>5 DEF Owing
  <1> QED BY <1>1, <1>6

(* Nor a run that moves on, but for what follows its end, in G, or its job. *)
LEMMA MovePays ==
    ASSUME NEW R, RowsOK(R), NEW y \in Seq(RunRecord), Len(y) = Len(R), NEW k \in 1..Len(R),
           \A r \in 1..Len(R) : r # k => y[r] = R[r],
           y[k].kind = R[k].kind, y[k].parent = R[k].parent, y[k].agent = R[k].agent, y[k].continued = R[k].continued,
           R[k].state \in Finished => y[k].state = R[k].state,
           NEW F, NEW G, F \subseteq G, R[k].state \in Active => y[k].state \in Active \/ k \in G,
           Owing(R, F), ForgoneOK
    PROVE  \A p \in 1..Len(y) : mayContinue(y, p) /\ (p # k \/ y[k].acts = R[k].acts) => p \in forgone \/ Waits(y, p, G)
  <1>1. \A r \in 1..Len(R) :
            /\ y[r].kind = R[r].kind /\ y[r].parent = R[r].parent /\ y[r].agent = R[r].agent
            /\ y[r].continued = R[r].continued
            /\ R[r].state \in Finished => y[r].state = R[r].state
            /\ R[r].state \in Active => y[r].state \in Active \/ r \in G
    OBVIOUS
  <1>2. F \union G = G
    OBVIOUS
  <1> SUFFICES ASSUME NEW p \in 1..Len(R), mayContinue(y, p), p # k \/ y[k].acts = R[k].acts
               PROVE  p \in forgone \/ Waits(y, p, G)
    OBVIOUS
  <1>3. y[p].acts = R[p].acts
    OBVIOUS
  <1>4. p \in forgone \/ Waits(y, p, F \union G)
    BY <1>1, <1>3, MarkWaits
  <1> QED BY <1>2, <1>4

(* One lemma for each step, or for those that do the same to the rows.     *)
LEMMA StillPay ==
    ASSUME AgentsInv, FollowUpsInv, UNCHANGED <<runs, gone, forgone, killed, cut, finishing>>
    PROVE  FollowUpsInv'
  <1>1. RowsOK(runs) /\ (~cut' => Owing(runs, finishing'))
    BY DEF AgentsInv, FollowUpsInv
  <1> QED BY <1>1, PaysOff

LEMMA EndsPay ==
    ASSUME AgentsInv, FollowUpsInv, NEW S, runs' = endEach(runs, S), gone \subseteq gone',
           UNCHANGED <<forgone, killed, cut, finishing>>
    PROVE  FollowUpsInv'
  <1>1. RowsOK(runs) /\ ForgoneOK
    BY DEF AgentsInv, FollowUpsInv
  <1>2. RowsOK(endEach(runs, S))
    BY <1>1, EndEachKeeps DEF After
  <1>3. ~cut' => Owing(endEach(runs, S), finishing')
    BY <1>1, EndEachPays DEF FollowUpsInv
  <1>4. ForgoneOK'
    BY <1>1 DEF ForgoneOK
  <1> QED BY <1>2, <1>3, <1>4, Pays

LEMMA QueuePays ==
    ASSUME AgentsInv, FollowUpsInv, AgentsInv', NEW x \in RunRecord, x.state = "queued", x.kind # "continue",
           x.parent # 0 => x.parent \in 1..Len(runs) /\ runs[x.parent].state = "running",
           runs' = Append(runs, x), UNCHANGED <<gone, forgone, killed, cut, finishing>>
    PROVE  FollowUpsInv'
  <1>1. RowsOK(runs) /\ RowsOK(Append(runs, x))
    BY RowsNow DEF AgentsInv
  <1>2. ~cut' => Owing(Append(runs, x), finishing')
    BY <1>1, AddedPays DEF FollowUpsInv
  <1> QED BY <1>1, <1>2, PaysOff

LEMMA StartPays ==
    ASSUME AgentsInv, FollowUpsInv, AgentsInv', NEW a \in Agent, startRun(a) \/ enqueueSystem(a)
    PROVE  FollowUpsInv'
  <1>1. PICK kind \in {"ask", "schedule"} : runs' = Append(runs, NewRun(a, kind, 0, 0))
    BY DEF startRun, enqueueSystem
  <1>2. PICK x : x = NewRun(a, kind, 0, 0)
    OBVIOUS
  <1>3. x \in RunRecord /\ x.kind = kind /\ x.parent = 0 /\ x.state = "queued"
    BY <1>2, NewRunTyped
  <1>4. UNCHANGED <<gone, forgone, killed, cut, finishing>>
    BY DEF startRun, enqueueSystem, settingVars, serviceVars
  <1> QED BY <1>1, <1>2, <1>3, <1>4, QueuePays

LEMMA HandoffPays ==
    ASSUME AgentsInv, FollowUpsInv, AgentsInv', NEW a \in Agent, handoffFor(a)
    PROVE  FollowUpsInv'
  <1>1. /\ work \in 1..Len(runs) /\ work \in Nat /\ runs[work].state = "running" /\ runs[work].depth \in Nat
    <2>1. RowsOK(runs) /\ work \in 0..Len(runs) /\ work # 0 /\ runs[work].state = "running"
      BY DEF AgentsInv, Pointed, Points, handoffFor
    <2>2. Len(runs) \in Nat /\ \A r \in 1..Len(runs) : runs[r] \in RunRecord
      BY <2>1, RowTyped DEF RowsOK
    <2>3. work \in 1..Len(runs) /\ work \in Nat
      BY <2>1, <2>2
    <2> QED BY <2>1, <2>2, <2>3 DEF RunRecord
  <1>2. PICK d \in Nat : d = runs[work].depth + 1
    BY <1>1
  <1>3. PICK kind \in {"ask", "schedule", "handoff", "continue"} : kind = "handoff"
    OBVIOUS
  <1>4. PICK x : x = NewRun(a, kind, work, d)
    OBVIOUS
  <1>5. x \in RunRecord /\ x.kind = kind /\ x.parent = work /\ x.state = "queued"
    <2>1. PICK w \in Nat : w = work
      BY <1>1
    <2>2. x = NewRun(a, kind, w, d)
      BY <1>4, <2>1
    <2>3. x \in RunRecord /\ x.kind = kind /\ x.parent = w /\ x.state = "queued"
      BY <2>2, NewRunTyped
    <2> QED BY <2>1, <2>3
  <1>6. runs' = Append(runs, x)
    BY <1>2, <1>3, <1>4 DEF handoffFor
  <1>7. UNCHANGED <<gone, forgone, killed, cut, finishing>>
    BY DEF handoffFor, settingVars, serviceVars
  <1> QED BY <1>1, <1>3, <1>5, <1>6, <1>7, QueuePays

LEMMA OpinionPays ==
    ASSUME AgentsInv, FollowUpsInv, AgentsInv', NEW r \in finishing, askSecondOpinion(r)
    PROVE  FollowUpsInv'
  <1>1. r \in 1..Len(runs) /\ runs[r] \in RunRecord /\ Row(runs, r) /\ r \in Nat
    BY RowTyped DEF AgentsInv, RowsOK, Pointed, Points
  <1>2. PICK kind : kind = runs[r].kind
    OBVIOUS
  <1>3. kind \in {"ask", "schedule"} /\ runs[r].agent \in Agent
    BY <1>1, <1>2 DEF askSecondOpinion, Row, RunRecord
  <1>4. PICK z : z = NewRun(runs[r].agent, kind, 0, 0)
    OBVIOUS
  <1>5. z \in RunRecord /\ z.kind = kind /\ z.parent = 0 /\ z.state = "queued"
    BY <1>3, <1>4, NewRunTyped
  <1>6. PICK x : x = [z EXCEPT !.opinionOf = r]
    OBVIOUS
  <1>7. x \in RunRecord /\ x.kind = kind /\ x.parent = 0 /\ x.state = "queued"
    BY <1>1, <1>5, <1>6 DEF RunRecord
  <1>8. runs' = Append(runs, x)
    BY <1>2, <1>4, <1>6 DEF askSecondOpinion
  <1>9. UNCHANGED <<gone, forgone, killed, cut, finishing>>
    BY DEF askSecondOpinion, settingVars, serviceVars
  <1> QED BY <1>3, <1>7, <1>8, <1>9, QueuePays

LEMMA TickPays == ASSUME AgentsInv, FollowUpsInv, NEW late, NEW aged, minuteTick(late, aged) PROVE FollowUpsInv'
  <1>1. RowsOK(runs) /\ ForgoneOK
    BY DEF AgentsInv, FollowUpsInv
  <1>2. PICK y : y = endEach(runs, late)
    OBVIOUS
  <1>3. PICK z : z = endEach(y, aged)
    OBVIOUS
  <1>4. RowsOK(y) /\ (Owing(runs, finishing) => Owing(y, finishing))
    BY <1>1, <1>2, EndEachKeeps, EndEachPays DEF After
  <1>5. RowsOK(z) /\ (Owing(y, finishing) => Owing(z, finishing))
    BY <1>1, <1>3, <1>4, EndEachKeeps, EndEachPays DEF After
  <1>6. runs' = z /\ UNCHANGED <<gone, forgone, killed, cut, finishing>>
    BY <1>2, <1>3 DEF minuteTick, agedOut, expired, settingVars, serviceVars
  <1>7. ~cut' => Owing(z, finishing')
    BY <1>4, <1>5, <1>6 DEF FollowUpsInv
  <1> QED BY <1>5, <1>6, <1>7, PaysOff

LEMMA PollPays ==
    ASSUME AgentsInv, FollowUpsInv, NEW p \in polls, NEW late, NEW aged, NEW busy, runnerNext(p, late, aged, busy)
    PROVE  FollowUpsInv'
  <1>1. RowsOK(runs) /\ ForgoneOK /\ p \in Poll
    BY DEF AgentsInv, FollowUpsInv, Rest
  <1>2. PICK R : R = expired(runs, late)
    OBVIOUS
  <1>3. RowsOK(R) /\ (Owing(runs, finishing) => Owing(R, finishing))
    BY <1>1, <1>2, EndEachKeeps, EndEachPays DEF After, expired
  <1>4. UNCHANGED <<gone, forgone, killed, cut, finishing>>
    BY DEF runnerNext, settingVars, serviceVars
  <1>5. CASE paused \/ p.aborted \/ InState(R, "running") # {}
    <2>1. runs' = R
      BY <1>2, <1>5 DEF runnerNext
    <2>2. ~cut' => Owing(R, finishing')
      BY <1>3, <1>4 DEF FollowUpsInv
    <2> QED BY <1>3, <1>4, <2>1, <2>2, PaysOff
  <1>6. CASE ~(paused \/ p.aborted \/ InState(R, "running") # {})
    <2>1. PICK c : c = chooseRun(R, aged, busy)
      OBVIOUS
    <2>2. PICK y : y = claim(R, c, p)
      OBVIOUS
    <2>3. runs' = y
      BY <1>2, <1>6, <2>1, <2>2 DEF runnerNext
    <2>4. PICK k : k = c.picked
      OBVIOUS
    <2>5. /\ k \in 0..Len(R) /\ (k # 0 => R[k].state = "queued")
          /\ \A r \in c.ended : r \in 1..Len(R) /\ R[r].state = "queued" /\ r # k
      <3>1. /\ k = 0 \/ (k \in 1..Len(R) /\ R[k].state = "queued")
            /\ \A r \in c.ended : r \in 1..Len(R) /\ R[r].state = "queued" /\ r # k
        BY <1>3, <2>1, <2>4, Chosen
      <3>2. Len(R) \in Nat
        BY <1>3, RowTyped DEF RowsOK
      <3> QED BY <3>1, <3>2
    <2>6. y \in After(Picked(R, k, p))
      BY <1>1, <1>3, <2>2, <2>4, <2>5, ClaimKeeps
    <2>7. RowsOK(y)
      BY <2>6 DEF After
    <2>8. Owing(R, finishing) => Owing(y, finishing)
      BY <1>1, <1>3, <2>2, <2>4, <2>5, ClaimPays
    <2>9. ~cut' => Owing(y, finishing')
      BY <1>3, <1>4, <2>8 DEF FollowUpsInv
    <2> QED BY <1>4, <2>3, <2>7, <2>9, PaysOff
  <1> QED BY <1>5, <1>6

LEMMA EndedPays == ASSUME AgentsInv, FollowUpsInv, NEW r \in finishing, runEnded(r) PROVE FollowUpsInv'
  <1>1. RowsOK(runs) /\ r \in 1..Len(runs)
    BY DEF AgentsInv, Pointed, Points
  <1>2. runs' = continueTree(runs, r) /\ finishing' = finishing \ {r} /\ UNCHANGED <<gone, forgone, killed, cut>>
    BY DEF runEnded, settingVars, serviceVars
  <1>3. RowsOK(continueTree(runs, r))
    BY <1>1, TreeKeeps DEF After
  <1>4. ~cut' => Owing(continueTree(runs, r), finishing')
    BY <1>1, <1>2, TreePays DEF FollowUpsInv
  <1> QED BY <1>2, <1>3, <1>4, PaysOff

(* What changes one row in place.                                          *)
LEMMA RowPays ==
    ASSUME AgentsInv, FollowUpsInv, AgentsInv', NEW k \in 1..Len(runs), NEW e, runs' = [runs EXCEPT ![k] = e],
           e.kind = runs[k].kind, e.parent = runs[k].parent, e.agent = runs[k].agent, e.continued = runs[k].continued,
           runs[k].state \in Finished => e.state = runs[k].state,
           runs[k].state \in Active => e.state \in Active \/ k \in finishing',
           e.acts = runs[k].acts \/ e.acts = "going",
           finishing \subseteq finishing', UNCHANGED <<gone, forgone, killed, cut>>
    PROVE  FollowUpsInv'
  <1>1. RowsOK(runs) /\ ForgoneOK /\ (~cut' => Owing(runs, finishing))
    BY DEF AgentsInv, FollowUpsInv
  <1>2. PICK y : y = [runs EXCEPT ![k] = e]
    OBVIOUS
  <1>3. RowsOK(y) /\ y \in Seq(RunRecord) /\ runs' = y
    <2>1. RowsOK(y)
      BY <1>2, RowsNow
    <2> QED BY <1>2, <2>1 DEF RowsOK
  <1>4. Len(y) = Len(runs) /\ y[k] = e /\ \A r \in 1..Len(runs) : r # k => y[r] = runs[r]
    BY <1>1, <1>2, RowTyped DEF RowsOK
  <1>5. ASSUME ~cut' PROVE Owing(y, finishing')
    <2>1. \A p \in 1..Len(y) : mayContinue(y, p) /\ (p # k \/ y[k].acts = runs[k].acts) =>
              p \in forgone \/ Waits(y, p, finishing')
      <3>1. y[k].kind = runs[k].kind /\ y[k].parent = runs[k].parent /\ y[k].agent = runs[k].agent
            /\ y[k].continued = runs[k].continued
        BY <1>4
      <3>2. /\ runs[k].state \in Finished => y[k].state = runs[k].state
            /\ runs[k].state \in Active => y[k].state \in Active \/ k \in finishing'
        BY <1>4
      <3>3. Owing(runs, finishing)
        BY <1>1, <1>5
      <3> QED BY <1>1, <1>3, <1>4, <3>1, <3>2, <3>3, MovePays
    <2>2. y[k].acts = "going" => ~mayContinue(y, k)
      BY DEF mayContinue
    <2> QED BY <1>4, <2>1, <2>2 DEF Owing
  <1> QED BY <1>3, <1>5, PaysOff

LEMMA StagePays ==
    ASSUME AgentsInv, FollowUpsInv, AgentsInv', NEW ok \in BOOLEAN, stageOperation(ok)
    PROVE  FollowUpsInv'
  <1>1. UNCHANGED <<gone, forgone, killed, cut, finishing>>
    BY DEF stageOperation, settingVars, serviceVars
  <1>2. CASE ~ok
    <2>1. runs' = runs
      BY <1>2 DEF stageOperation
    <2> QED BY <1>1, <2>1, StillPay
  <1>3. CASE ok
    <2>1. PICK k : k = acting
      OBVIOUS
    <2>2. k \in 1..Len(runs) /\ runs[k] \in RunRecord /\ DOMAIN runs = 1..Len(runs)
      <3>1. RowsOK(runs) /\ k \in 0..Len(runs) /\ k # 0
        BY <2>1 DEF AgentsInv, Pointed, Points, stageOperation
      <3> QED BY <3>1, RowTyped DEF RowsOK
    <2>3. PICK e : e = [runs[k] EXCEPT !.acts = "going"]
      OBVIOUS
    <2>4. /\ e.kind = runs[k].kind /\ e.parent = runs[k].parent /\ e.agent = runs[k].agent
          /\ e.continued = runs[k].continued /\ e.state = runs[k].state /\ e.acts = "going"
      BY <2>2, <2>3 DEF RunRecord
    <2>5. runs' = [runs EXCEPT ![k] = e]
      BY <1>3, <2>1, <2>2, <2>3 DEF stageOperation
    <2> QED BY <1>1, <2>2, <2>4, <2>5, RowPays
  <1> QED BY <1>2, <1>3

LEMMA FinishPays ==
    ASSUME AgentsInv, FollowUpsInv, AgentsInv', NEW outcome \in Finished, runnerFinish(outcome)
    PROVE  FollowUpsInv'
  <1>1. UNCHANGED <<gone, forgone, killed, cut>>
    BY DEF runnerFinish, settingVars, serviceVars
  <1>2. PICK k : k = work
    OBVIOUS
  <1>3. CASE runs[k].state # "running"
    <2>1. runs' = runs /\ finishing' = finishing
      BY <1>2, <1>3 DEF runnerFinish
    <2> QED BY <1>1, <2>1, StillPay
  <1>4. CASE runs[k].state = "running"
    <2>1. k \in 1..Len(runs) /\ runs[k] \in RunRecord /\ DOMAIN runs = 1..Len(runs)
      <3>1. RowsOK(runs) /\ k \in 0..Len(runs) /\ k # 0
        BY <1>2 DEF AgentsInv, Pointed, Points, runnerFinish
      <3> QED BY <3>1, RowTyped DEF RowsOK
    <2>2. PICK e : e = [runs[k] EXCEPT !.state = outcome]
      OBVIOUS
    <2>3. /\ e.kind = runs[k].kind /\ e.parent = runs[k].parent /\ e.agent = runs[k].agent
          /\ e.continued = runs[k].continued /\ e.acts = runs[k].acts
      BY <2>1, <2>2 DEF RunRecord
    <2>4. runs' = [runs EXCEPT ![k] = e] /\ finishing' = finishing \union {k}
      BY <1>2, <1>4, <2>1, <2>2 DEF runnerFinish
    <2>5. runs[k].state \notin Finished
      BY <1>4 DEF Finished
    <2> QED BY <1>1, <2>1, <2>3, <2>4, <2>5, RowPays
  <1> QED BY <1>3, <1>4

LEMMA CpuPays ==
    ASSUME AgentsInv, FollowUpsInv, AgentsInv', NEW p \in polls, cpuSet(p)
    PROVE  FollowUpsInv'
  <1>1. UNCHANGED <<gone, forgone, killed, cut, finishing>>
    BY DEF cpuSet, settingVars, serviceVars
  <1>2. PICK k : k = p.run
    OBVIOUS
  <1>3. k \in 1..Len(runs) /\ runs[k] \in RunRecord /\ DOMAIN runs = 1..Len(runs)
    <2>1. RowsOK(runs) /\ k \in 0..Len(runs) /\ k # 0
      BY <1>2 DEF AgentsInv, Pointed, Points, cpuSet
    <2> QED BY <2>1, RowTyped DEF RowsOK
  <1>4. CASE runs' = runs
    BY <1>1, <1>4, StillPay
  <1>5. CASE /\ runs[k].state = "running"
             /\ runs' = [runs EXCEPT ![k].state = "queued", ![k].started = FALSE, ![k].runner = 0]
    <2>1. PICK e : e = [runs[k] EXCEPT !.state = "queued", !.started = FALSE, !.runner = 0]
      OBVIOUS
    <2>2. /\ e.kind = runs[k].kind /\ e.parent = runs[k].parent /\ e.agent = runs[k].agent
          /\ e.continued = runs[k].continued /\ e.acts = runs[k].acts /\ e.state = "queued"
      BY <1>3, <2>1 DEF RunRecord
    <2>3. runs' = [runs EXCEPT ![k] = e]
      BY <1>3, <1>5, <2>1
    <2>4. runs[k].state \notin Finished /\ e.state \in Active
      BY <1>5, <2>2 DEF Finished, Active
    <2> QED BY <1>1, <1>3, <2>2, <2>3, <2>4, RowPays
  <1>6. CASE runs[k].state = "running" /\ runs' = [runs EXCEPT ![k].given = @ + 1]
    <2>1. PICK e : e = [runs[k] EXCEPT !.given = @ + 1]
      OBVIOUS
    <2>2. /\ e.kind = runs[k].kind /\ e.parent = runs[k].parent /\ e.agent = runs[k].agent
          /\ e.continued = runs[k].continued /\ e.acts = runs[k].acts /\ e.state = runs[k].state
      BY <1>3, <2>1 DEF RunRecord
    <2>3. runs' = [runs EXCEPT ![k] = e]
      BY <1>3, <1>6, <2>1
    <2> QED BY <1>1, <1>3, <2>2, <2>3, RowPays
  <1> QED BY <1>2, <1>4, <1>5, <1>6, CpuCases

(* A job's end: its run is the one that is followed up at once.            *)
LEMMA JobPays == ASSUME AgentsInv, FollowUpsInv, NEW k \in DOMAIN runs, onJob(k) PROVE FollowUpsInv'
  <1>1. RowsOK(runs) /\ ForgoneOK /\ UNCHANGED <<gone, forgone, killed, cut, finishing>>
    BY DEF AgentsInv, FollowUpsInv, onJob, settingVars, serviceVars
  <1>2. k \in 1..Len(runs) /\ runs[k] \in RunRecord /\ Row(runs, k) /\ Len(runs) \in Nat /\ runs[k].acts = "going"
        /\ DOMAIN runs = 1..Len(runs)
    BY <1>1, RowTyped DEF RowsOK, onJob
  <1>3. PICK e : e = [runs[k] EXCEPT !.acts = "over"]
    OBVIOUS
  <1>4. /\ e \in RunRecord /\ e.kind = runs[k].kind /\ e.parent = runs[k].parent /\ e.agent = runs[k].agent
        /\ e.depth = runs[k].depth /\ e.continued = runs[k].continued /\ e.state = runs[k].state /\ e.given = runs[k].given /\ e.acts = "over"
    BY <1>2, <1>3 DEF RunRecord
  <1>5. PICK y : y = [runs EXCEPT ![k] = e]
    OBVIOUS
  <1>6. e.given =< 1 /\ (e.state = "queued" => e.given = 0) /\ runs[k].parent = 0
    BY <1>2, <1>4 DEF Row
  <1>7. RowsOK(y) /\ Len(y) = Len(runs) /\ \A r \in 1..Len(runs) : y[r] = IF r = k THEN e ELSE runs[r]
    BY <1>1, <1>2, <1>4, <1>5, <1>6, RowMoves
  <1>8. PICK z : z = continueSupervisor(y, k)
    OBVIOUS
  <1>9. Queues(y, z) /\ ~mayContinue(z, k)
    <2>1. k \in 0..Len(y) /\ k # 0
      BY <1>2, <1>7
    <2> QED BY <1>7, <1>8, <2>1, ContinueQueues
  <1>10. runs' = z /\ RowsOK(z)
    BY <1>3, <1>5, <1>8, <1>9 DEF onJob, Queues
  <1>11. ASSUME ~cut' PROVE Owing(z, finishing')
    <2>1. Owing(runs, finishing) /\ finishing' = finishing
      BY <1>1, <1>11 DEF FollowUpsInv
    <2>2. y \in Seq(RunRecord) /\ y[k] = e /\ \A r \in 1..Len(runs) : r # k => y[r] = runs[r]
      BY <1>2, <1>7 DEF RowsOK
    <2>3. \A p \in 1..Len(y) : mayContinue(y, p) /\ p # k => p \in forgone \/ Waits(y, p, finishing)
      <3>1. y[k].kind = runs[k].kind /\ y[k].parent = runs[k].parent /\ y[k].agent = runs[k].agent
            /\ y[k].continued = runs[k].continued /\ y[k].state = runs[k].state
        BY <1>4, <2>2
      <3>2. /\ runs[k].state \in Finished => y[k].state = runs[k].state
            /\ runs[k].state \in Active => y[k].state \in Active \/ k \in finishing
        BY <3>1
      <3>3. \A p \in 1..Len(y) : mayContinue(y, p) /\ (p # k \/ y[k].acts = runs[k].acts) => p \in forgone \/ Waits(y, p, finishing)
        BY <1>1, <1>2, <1>7, <2>1, <2>2, <3>1, <3>2, MovePays
      <3> QED BY <3>3
    <2>4. ASSUME NEW p \in 1..Len(z), mayContinue(z, p) PROVE p \in forgone \/ Waits(z, p, finishing)
      <3>1. p \in 1..Len(y) /\ mayContinue(y, p) /\ p # k
        BY <1>9, <2>4 DEF Queues
      <3>2. CASE Waits(y, p, finishing)
        <4>1. PICK r \in 1..Len(y) : IsUnder(y, p, r) /\ (y[r].state \in Active \/ r \in finishing)
          BY <3>2 DEF Waits
        <4>2. Len(y) \in Nat /\ Len(z) \in Nat /\ Len(y) =< Len(z) /\ \A q \in 1..Len(y) : z[q].parent = y[q].parent /\ z[q].state = y[q].state
          BY <1>9 DEF Queues
        <4>3. IsUnder(z, p, r)
          BY <3>1, <4>1, <4>2, UnderKept
        <4>4. r \in 1..Len(z)
          BY <4>2
        <4> QED BY <4>1, <4>2, <4>3, <4>4 DEF Waits
      <3> QED BY <2>3, <3>1, <3>2
    <2> QED BY <2>1, <2>4 DEF Owing
  <1> QED BY <1>1, <1>10, <1>11, PaysOff

(* While killedAt is set nothing is owed; resuming forgoes what was there. *)
LEMMA KillPays == ASSUME FollowUpsInv, killSwitch PROVE FollowUpsInv'
  <1>1. killed' = TRUE /\ forgone' = forgone
    BY DEF killSwitch
  <1>2. Owing(runs, finishing)'
    BY <1>1 DEF Owing, mayContinue
  <1> QED BY <1>1, <1>2 DEF FollowUpsInv, ForgoneOK

LEMMA ResumePays == ASSUME AgentsInv, FollowUpsInv, resumeModule PROVE FollowUpsInv'
  <1>1. RowsOK(runs) /\ ForgoneOK /\ UNCHANGED <<runs, gone, cut, finishing>>
    BY DEF AgentsInv, FollowUpsInv, resumeModule, serviceVars
  <1>2. DOMAIN runs = 1..Len(runs) /\ Len(runs) \in Nat /\ killed \in BOOLEAN
    BY <1>1, RowTyped DEF RowsOK, AgentsInv, Rest
  <1>3. forgone' = forgone \union (IF killed THEN 1..Len(runs) ELSE {}) /\ killed' = FALSE
    BY <1>2 DEF resumeModule
  <1>4. ForgoneOK'
    <2> SUFFICES ASSUME NEW p \in forgone' PROVE 1..p \subseteq forgone'
      BY DEF ForgoneOK
    <2>1. CASE p \in forgone
      BY <1>1, <1>3, <2>1 DEF ForgoneOK
    <2>2. CASE killed /\ p \in 1..Len(runs)
      <3>1. 1..p \subseteq 1..Len(runs)
        BY <1>2, <2>2
      <3> QED BY <1>3, <2>2, <3>1
    <2> QED BY <1>3, <2>1, <2>2
  <1>5. killed => 1..Len(runs) \subseteq forgone'
    BY <1>3
  <1>6. ~cut' => Owing(runs, finishing')
    BY <1>1 DEF FollowUpsInv
  <1> QED BY <1>1, <1>3, <1>4, <1>5, <1>6, Pays

LEMMA StopPays == ASSUME AgentsInv, FollowUpsInv, serviceStops PROVE FollowUpsInv'
  <1>1. RowsOK(runs) /\ UNCHANGED <<runs, gone, forgone, killed>>
    BY DEF AgentsInv, serviceStops, settingVars
  <1>2. ~cut' => Owing(runs, finishing')
    <2>1. ~cut' => ~cut /\ finishing' = finishing
      BY DEF serviceStops
    <2> QED BY <2>1 DEF FollowUpsInv
  <1> QED BY <1>1, <1>2, PaysOff


(* A job that ended with nobody listening is what cut records.             *)
LEMMA RecoverPays == ASSUME AgentsInv, FollowUpsInv, recoverAtStartup PROVE FollowUpsInv'
  <1>1. RowsOK(runs) /\ ForgoneOK /\ UNCHANGED <<gone, forgone, killed, finishing>>
    BY DEF AgentsInv, FollowUpsInv, recoverAtStartup, settingVars
  <1>2. runs \in Seq(RunRecord) /\ Len(runs) \in Nat /\ DOMAIN runs = 1..Len(runs)
    BY <1>1, RowTyped DEF RowsOK
  <1>3. PICK J \in SUBSET {r \in DOMAIN runs : runs[r].acts = "going"} :
            /\ runs' = endEach(SubSeq([r \in DOMAIN runs |-> IF r \in J THEN [runs[r] EXCEPT !.acts = "over"] ELSE runs[r]],
                                      1, Len(runs)), InState(runs, "running"))
            /\ cut' = (cut \/ J # {})
    BY DEF recoverAtStartup
  <1>4. CASE cut'
    BY <1>1, <1>4 DEF FollowUpsInv, ForgoneOK
  <1>5. CASE ~cut'
    <2>a. ~cut /\ J = {}
      BY <1>3, <1>5
    <2>b. cut \in BOOLEAN /\ (cut' = TRUE \/ cut' = FALSE)
      BY <1>3 DEF AgentsInv, Rest
    <2>1. J = {} /\ cut' = cut
      BY <1>5, <2>a, <2>b
    <2>2. [r \in DOMAIN runs |-> IF r \in J THEN [runs[r] EXCEPT !.acts = "over"] ELSE runs[r]] = runs
      BY <1>2, <2>1
    <2>3. SubSeq(runs, 1, Len(runs)) = runs
      BY <1>2
    <2>4. PICK S : S = InState(runs, "running")
      OBVIOUS
    <2>5. runs' = endEach(runs, S)
      BY <1>3, <2>2, <2>3, <2>4
    <2> QED BY <1>1, <2>1, <2>5, EndsPay
  <1> QED BY <1>4, <1>5

LEMMA FollowUpsStep == ASSUME AgentsInv, FollowUpsInv, AgentsInv', [AgentsNext]_agentVars PROVE FollowUpsInv'
  <1>1. CASE UNCHANGED agentVars
    BY <1>1, StillPay DEF agentVars, settingVars, serviceVars
  <1>2. ASSUME NEW a \in Agent, startRun(a) \/ enqueueSystem(a) \/ handoffFor(a) PROVE FollowUpsInv'
    BY <1>2, StartPays, HandoffPays
  <1>3. ASSUME NEW ok \in BOOLEAN, stageOperation(ok) PROVE FollowUpsInv'
    BY <1>3, StagePays
  <1>4. ASSUME NEW r \in DOMAIN runs, onJob(r) PROVE FollowUpsInv'
    BY <1>4, JobPays
  <1>5. ASSUME NEW r \in DOMAIN runs, cancelRun(r) PROVE FollowUpsInv'
    <2>1. runs' = endEach(runs, {r}) /\ UNCHANGED <<gone, forgone, killed, cut, finishing>>
      BY <1>5 DEF cancelRun, settingVars, serviceVars
    <2> QED BY <2>1, EndsPay
  <1>6. CASE actFor \/ startPoll \/ hangUp \/ runnerRestarts
    <2>1. UNCHANGED <<runs, gone, forgone, killed, cut, finishing>>
      BY <1>6 DEF actFor, startPoll, hangUp, runnerRestarts, settingVars, serviceVars
    <2> QED BY <2>1, StillPay
  <1>7. CASE runnerHello
    <2>1. PICK S : S = {r \in InState(runs, "running") : runs[r].runner # life}
      OBVIOUS
    <2>2. runs' = endEach(runs, S) /\ UNCHANGED <<gone, forgone, killed, cut, finishing>>
      BY <1>7, <2>1 DEF runnerHello, settingVars, serviceVars
    <2> QED BY <2>2, EndsPay
  <1>8. ASSUME NEW p \in polls, NEW late, NEW aged, NEW busy, runnerNext(p, late, aged, busy) PROVE FollowUpsInv'
    BY <1>8, PollPays
  <1>9. ASSUME NEW p \in polls, pollOver(p) \/ abort(p) PROVE FollowUpsInv'
    <2>1. UNCHANGED <<runs, gone, forgone, killed, cut, finishing>>
      BY <1>9 DEF pollOver, abort, settingVars, serviceVars
    <2> QED BY <2>1, StillPay
  <1>10. ASSUME NEW p \in polls, cpuSet(p) PROVE FollowUpsInv'
    BY <1>10, CpuPays
  <1>11. ASSUME NEW late \in BOOLEAN, runnerHeartbeat(late) PROVE FollowUpsInv'
    <2>1. PICK S : S = {work} \intersect InState(runs, "running")
      OBVIOUS
    <2>2. runs' = endEach(runs, S) /\ UNCHANGED <<gone, forgone, killed, cut, finishing>>
      BY <1>11, <2>1 DEF runnerHeartbeat, settingVars, serviceVars
    <2> QED BY <2>2, EndsPay
  <1>12. ASSUME NEW outcome \in Finished, runnerFinish(outcome) PROVE FollowUpsInv'
    BY <1>12, FinishPays
  <1>13. ASSUME NEW r \in finishing, askSecondOpinion(r) \/ runEnded(r) PROVE FollowUpsInv'
    BY <1>13, OpinionPays, EndedPays
  <1>14. ASSUME NEW late, NEW aged, minuteTick(late, aged) PROVE FollowUpsInv'
    BY <1>14, TickPays
  <1>15. ASSUME NEW a \in Agent, pauseAgent(a) PROVE FollowUpsInv'
    <2>1. PICK S : S = {r \in InState(runs, "queued") : runs[r].agent = a}
      OBVIOUS
    <2>2. runs' = endEach(runs, S) /\ UNCHANGED <<gone, forgone, killed, cut, finishing>>
      BY <1>15, <2>1 DEF pauseAgent, serviceVars
    <2> QED BY <2>2, EndsPay
  <1>16. ASSUME NEW a \in Agent, deleteAgent(a) PROVE FollowUpsInv'
    <2>1. PICK S : S = {r \in DOMAIN runs : runs[r].agent = a}
      OBVIOUS
    <2>2. runs' = endEach(runs, S) /\ gone' = gone \union {a} /\ UNCHANGED <<forgone, killed, cut, finishing>>
      BY <1>16, <2>1 DEF deleteAgent, serviceVars
    <2> QED BY <2>2, EndsPay
  <1>17. ASSUME NEW a \in Agent, resumeAgent(a) PROVE FollowUpsInv'
    <2>1. UNCHANGED <<runs, gone, forgone, killed, cut, finishing>>
      BY <1>17 DEF resumeAgent, serviceVars
    <2> QED BY <2>1, StillPay
  <1>18. ASSUME NEW how \in {"paused", "until"}, pauseModule(how) PROVE FollowUpsInv'
    <2>1. UNCHANGED <<runs, gone, forgone, killed, cut, finishing>>
      BY <1>18 DEF pauseModule, serviceVars
    <2> QED BY <2>1, StillPay
  <1>19. CASE pauseEnds
    <2>1. UNCHANGED <<runs, gone, forgone, killed, cut, finishing>>
      BY <1>19 DEF pauseEnds, serviceVars
    <2> QED BY <2>1, StillPay
  <1>20. CASE resumeModule \/ killSwitch \/ serviceStops \/ recoverAtStartup
    BY <1>20, ResumePays, KillPays, StopPays, RecoverPays
  <1> QED BY <1>1, <1>2, <1>3, <1>4, <1>5, <1>6, <1>7, <1>8, <1>9, <1>10, <1>11, <1>12, <1>13, <1>14, <1>15, <1>16,
             <1>17, <1>18, <1>19, <1>20 DEF AgentsNext

LEMMA FollowUpsHold == AgentsSpec => [](AgentsInv /\ FollowUpsInv)
  <1>1. AgentsInit => FollowUpsInv
    BY DEF AgentsInit, FollowUpsInv, ForgoneOK, Owing
  <1>2. AgentsInv /\ AgentsInv' /\ FollowUpsInv /\ [AgentsNext]_agentVars => FollowUpsInv'
    BY FollowUpsStep
  <1> QED BY <1>1, <1>2, AgentsHold, PTL DEF AgentsSpec

(* The follow-up of a supervisor whose hand-offs and job have all ended is *)
(* not lost, in whatever order they end, are ended or go, but for a stop   *)
(* between an end and what follows it, or the kill switch.                 *)
THEOREM FollowUpsCome == AgentsSpec => []FollowUpKept
  <1>1. AgentsInv /\ FollowUpsInv => FollowUpKept
    <2> SUFFICES ASSUME AgentsInv, FollowUpsInv, ~cut, NEW p \in DOMAIN runs, Owed(p),
                        ~runs[p].continued, ~killed, p \notin forgone
                 PROVE  FALSE
      BY DEF FollowUpKept, FollowUpComes
    <2>1. RowsOK(runs) /\ ForgoneOK /\ Owing(runs, finishing)
      BY DEF AgentsInv, FollowUpsInv
    <2>2. DOMAIN runs = 1..Len(runs) /\ Len(runs) \in Nat /\ p \in 1..Len(runs) /\ p # 0 /\ \A r \in 1..Len(runs) : Row(runs, r)
      BY <2>1, RowTyped DEF RowsOK
    <2>3. /\ runs[p].state = "answered" /\ runs[p].agent \notin gone /\ runs[p].acts # "going"
          /\ ChildrenOf(runs, p, "handoff") # {} \/ runs[p].acts = "over"
          /\ \A r \in Below(p) \union {p} : runs[r].state \in Finished /\ r \notin finishing
      BY DEF Owed
    <2>4. Waits(runs, p, finishing)
      <3>1. CASE \A c \in ChildrenOf(runs, p, "handoff") : handoffSettled(runs, c)
        <4>1. mayContinue(runs, p)
          BY <2>3, <3>1 DEF mayContinue
        <4> QED BY <2>1, <2>2, <4>1 DEF Owing
      <3>2. CASE \E c \in ChildrenOf(runs, p, "handoff") : ~handoffSettled(runs, c)
        <4>1. PICK c \in 1..Len(runs) : runs[c].parent = p /\ ~handoffSettled(runs, c)
          BY <2>2, <3>2 DEF ChildrenOf
        <4>2. c \in forgone \/ Waits(runs, c, finishing)
          BY <2>1, <2>2, <4>1, Unsettled
        <4> QED BY <2>1, <2>2, <4>1, <4>2, WaitsUp
      <3> QED BY <3>1, <3>2
    <2>5. PICK r \in 1..Len(runs) : IsUnder(runs, p, r) /\ (runs[r].state \in Active \/ r \in finishing)
      BY <2>4 DEF Waits
    <2>6. r # p
      BY <2>3, <2>5 DEF Active, Finished
    <2>7. \E n \in 1..MaxDepth + 3 : supervisors(runs, r)[n] = p
      BY <2>1, <2>2, <2>5, <2>6, Visits
    <2>8. r \in Below(p)
      BY <2>2, <2>6, <2>7 DEF Below
    <2> QED BY <2>3, <2>5, <2>8 DEF Active, Finished
  <1> QED BY <1>1, FollowUpsHold, PTL
=============================================================================
