-------------------------- MODULE AgentPlansProofs --------------------------
(***************************************************************************)
(* An agent's plan, for any steps, jobs, callers of advancePlan and        *)
(* bounds: each step is staged as one job and in order, and a plan that    *)
(* ended stays as it ended.                                                *)
(***************************************************************************)
EXTENDS AgentPlans, FiniteSetTheorems, TLAPS

Plans ==
    [state : {"none", "running", "waiting", "done", "failed", "expired", "cancelled"},
     cursor : 1..Len(Kinds) + 1,
     steps : [Steps -> [job : Job \union {None}, run : BOOLEAN, tries : Nat]]]
Advances ==
    [at : {"idle", "turn", "creating", "created", "started"}, seen : Plans, job : Job \union {None}]

PlansTypeOK ==
    /\ web \in {"up", "down", "recovering"}
    /\ state \in [Job -> {"none", "awaiting", "active", "completed", "failed", "cancelled"}]
    /\ plan \in Plans /\ reports \in Nat /\ acts \subseteq Job
    /\ check \in {"none", "going", "passed", "failed", "silent"}
    /\ advs \in [Advance -> Advances] /\ again \in BOOLEAN
    /\ stepOf \in [Job -> 0..Len(Kinds)] /\ passed \subseteq Steps /\ cut \subseteq Steps

stages(a) == advs[a].at \in {"creating", "created", "started"}
holds(a) == advs[a].at \in {"created", "started"}
succeededAt(k) ==
    \/ Kinds[k] = "operation" /\ \E q \in Job : stepOf[q] = k /\ state[q] = "completed"
    \/ Kinds[k] = "check" /\ k \in passed

(* One call of advancePlan at a time, and none while the service is down.  *)
OneAdvance ==
    /\ \A a, b \in Advance : advs[a].at # "idle" /\ advs[b].at # "idle" => a = b
    /\ web # "up" => \A a \in Advance : advs[a].at = "idle"

(* What a call that is staging has read is the plan, or the plan has ended *)
(* since; it stages the step it is at, which has no job yet.               *)
StagingInv ==
    \A a \in Advance : stages(a) =>
        /\ plan.state # "none"
        /\ plan.cursor = advs[a].seen.cursor /\ plan.steps = advs[a].seen.steps
        /\ plan = advs[a].seen \/ ~open
        /\ plan.cursor \in Steps /\ Kinds[plan.cursor] = "operation" /\ plan.steps[plan.cursor].job = None
        /\ holds(a) => advs[a].job \in Job /\ stepOf[advs[a].job] = plan.cursor

(* The jobs of steps: the plan's cursor is past what succeeded, and a job  *)
(* a step has is in its row, or about to be, or the plan has ended.        *)
OrderInv ==
    /\ plan.state = "none" => \A j \in Job : stepOf[j] = 0
    /\ \A j \in Job : stepOf[j] # 0 => state[j] # "none" /\ stepOf[j] =< plan.cursor
    /\ \A i \in Steps : plan.steps[i].job # None => stepOf[plan.steps[i].job] = i
    /\ \A k \in 1..plan.cursor - 1 : succeededAt(k)
    /\ \A j \in Job : stepOf[j] \notin cut \union {0} =>
          \/ plan.steps[stepOf[j]].job = j
          \/ \E a \in Advance : holds(a) /\ advs[a].job = j
          \/ ~open /\ \A a \in Advance : ~stages(a)
    /\ \A j, k \in Job : j # k /\ stepOf[j] = stepOf[k] => stepOf[j] \in cut \union {0}

PlansInv == PlansTypeOK /\ OneAdvance /\ StagingInv /\ OrderInv

USE PlansAssumption
-----------------------------------------------------------------------------
Rest == {"none", "done", "failed", "expired", "cancelled"}

(* Jobs move along their lives: what completed stays so.                   *)
Moving ==
    /\ web' \in {"up", "down", "recovering"}
    /\ state' \in [Job -> {"none", "awaiting", "active", "completed", "failed", "cancelled"}]
    /\ \A j \in Job : /\ state[j] = "completed" => state'[j] = "completed"
                      /\ state[j] # "none" => state'[j] # "none"

LEMMA JobsMove ==
    ASSUME PlansTypeOK, NEW S, NEW from, NEW to \in {"awaiting", "active", "completed", "failed", "cancelled"},
           from # "completed", Move(S, from, to)
    PROVE  Moving
  BY DEF PlansTypeOK, Move, Moving

LEMMA JobsCancelled ==
    ASSUME PlansTypeOK, NEW S, S \subseteq {j \in Job : state[j] = "awaiting"}, UNCHANGED web,
           state' = [j \in Job |-> IF j \in S THEN "cancelled" ELSE state[j]]
    PROVE  Moving
  BY DEF PlansTypeOK, Moving

(* What finishPlan does to the row: nothing, or the plan ends. *)
LEMMA FinishEffect ==
    ASSUME PlansTypeOK, NEW seen, NEW end \in Rest \ {"none"}, NEW report \in BOOLEAN, NEW X,
           X \subseteq {j \in Job : state[j] = "awaiting"}, finishPlan(seen, end, report, X)
    PROVE  /\ plan' \in Plans /\ plan'.cursor = plan.cursor /\ plan'.steps = plan.steps
           /\ IF savePlan(seen) THEN plan'.state = end ELSE plan' = plan
           /\ plan'.state = "none" <=> plan.state = "none"
           /\ ~open => plan' = plan /\ reports' = reports
           /\ open \/ ~savePlan(seen)
           /\ reports' \in Nat
           /\ UNCHANGED web /\ Moving
  <1>1. plan' = IF savePlan(seen) THEN [seen EXCEPT !.state = end] ELSE plan
    BY DEF finishPlan
  <1>2. savePlan(seen) => open /\ plan = seen
    BY DEF savePlan
  <1>3. plan \in Plans /\ reports \in Nat
    BY DEF PlansTypeOK
  <1>4. end \in {"none", "running", "waiting", "done", "failed", "expired", "cancelled"} /\ end # "none"
    BY DEF Rest
  <1>5. /\ plan' \in Plans /\ plan'.cursor = plan.cursor /\ plan'.steps = plan.steps
        /\ IF savePlan(seen) THEN plan'.state = end ELSE plan' = plan
    BY <1>1, <1>2, <1>3, <1>4 DEF Plans
  <1>6. plan'.state = "none" <=> plan.state = "none"
    BY <1>2, <1>4, <1>5 DEF open
  <1>7. /\ reports' \in Nat /\ (~open => reports' = reports) /\ UNCHANGED web
    BY <1>2, <1>3 DEF finishPlan, cancelled
  <1>8. Moving
    <2> DEFINE S0 == X \union (IF savePlan(seen) THEN withdrawn(seen.steps) ELSE {})
    <2>1. cancelled(S0)
      BY DEF finishPlan
    <2>2. S0 \subseteq {j \in Job : state[j] = "awaiting"}
      BY DEF withdrawn
    <2> HIDE DEF S0
    <2> QED BY <2>1, <2>2, JobsCancelled DEF cancelled
  <1> QED BY <1>2, <1>5, <1>6, <1>7, <1>8

(* A call that takes its turn is the only one, and stages nothing after.   *)
LEMMA TurnTaken ==
    ASSUME PlansTypeOK, OneAdvance, NEW a \in Advance, advs[a].at # "idle", over(a) \/ onward(a), UNCHANGED web
    PROVE  /\ \A b \in Advance : b # a => advs[b].at = "idle" /\ advs'[b] = advs[b]
           /\ advs'[a].at \in {"idle", "turn"}
           /\ \A b \in Advance : advs'[b].at \in {"idle", "turn"}
           /\ advs' \in [Advance -> Advances] /\ again' \in BOOLEAN
           /\ OneAdvance'
  <1>1. advs \in [Advance -> Advances] /\ again \in BOOLEAN
    BY DEF PlansTypeOK
  <1>2. NoPlan \in Plans
    BY DEF NoPlan, Plans, Steps, PlansAssumption
  <1>3. /\ NoAdvance \in Advances /\ [NoAdvance EXCEPT !.at = "turn"] \in Advances
        /\ NoAdvance.at = "idle" /\ [NoAdvance EXCEPT !.at = "turn"].at = "turn"
    BY <1>2 DEF NoAdvance, Advances
  <1>4. PICK v \in {NoAdvance, [NoAdvance EXCEPT !.at = "turn"]} : advs' = [advs EXCEPT ![a] = v]
    BY DEF over, onward
  <1>5. again' \in BOOLEAN
    BY <1>1 DEF over, onward
  <1>6. \A b \in Advance : b # a => advs[b].at = "idle" /\ advs'[b] = advs[b]
    BY <1>1, <1>4 DEF OneAdvance
  <1>7. advs'[a] = v /\ v.at \in {"idle", "turn"}
    BY <1>1, <1>3, <1>4
  <1>8. advs' \in [Advance -> Advances]
    BY <1>1, <1>3, <1>4
  <1>9. OneAdvance'
    BY <1>6, <1>7 DEF OneAdvance
  <1> QED BY <1>5, <1>6, <1>7, <1>8, <1>9

(* A call asks for a turn, or for one more.                                *)
LEMMA Called ==
    ASSUME PlansTypeOK, OneAdvance, calls, web' = "up"
    PROVE  /\ advs' \in [Advance -> Advances] /\ again' \in BOOLEAN /\ OneAdvance'
           /\ advs' = advs \/ \A b \in Advance : advs[b].at = "idle" /\ advs'[b].at \in {"idle", "turn"}
  <1>1. advs \in [Advance -> Advances] /\ again \in BOOLEAN
    BY DEF PlansTypeOK
  <1>2. CASE advancing
    BY <1>1, <1>2 DEF calls, OneAdvance
  <1>3. CASE ~advancing
    <2>1. PICK a \in Advance : advs' = [advs EXCEPT ![a].at = "turn"]
      BY <1>3 DEF calls
    <2>2. \A b \in Advance : advs[b].at = "idle"
      BY <1>3 DEF advancing
    <2>3. /\ advs' \in [Advance -> Advances] /\ advs'[a].at = "turn"
          /\ \A b \in Advance : b # a => advs'[b] = advs[b]
      BY <1>1, <2>1 DEF Advances
    <2> QED BY <1>1, <1>3, <2>2, <2>3 DEF calls, OneAdvance
  <1> QED BY <1>2, <1>3

(* A step that stages nothing new, and gives no step a job.                *)
LEMMA OrderStays ==
    ASSUME PlansTypeOK, OrderInv, Moving, UNCHANGED stepOf, cut \subseteq cut', passed \subseteq passed',
           plan' \in Plans, \A i \in Steps : plan'.steps[i].job = plan.steps[i].job,
           \/ plan'.cursor = plan.cursor
           \/ plan'.cursor = plan.cursor + 1 /\ \E k \in Steps : k = plan.cursor /\ succeededAt(k)',
           plan'.state = "none" => plan.state = "none",
           ~open /\ plan.state # "none" => ~open' /\ \A b \in Advance : stages(b)' => stages(b),
           \A b \in Advance : holds(b) => \/ holds(b)' /\ advs'[b].job = advs[b].job
                                          \/ ~open' /\ \A c \in Advance : ~stages(c)'
                                          \/ stepOf[advs[b].job] \in cut'
    PROVE  OrderInv'
  <1>1. \A k : succeededAt(k) => succeededAt(k)'
    BY DEF succeededAt, Moving
  <1>2. plan.cursor \in 1..Len(Kinds) + 1 /\ plan'.cursor \in 1..Len(Kinds) + 1 /\ plan.cursor =< plan'.cursor /\ Len(Kinds) \in Nat
    BY DEF PlansTypeOK, Plans, PlansAssumption
  <1>3. plan'.state = "none" => \A j \in Job : stepOf'[j] = 0
    BY DEF OrderInv
  <1>4. \A j \in Job : stepOf'[j] # 0 => state'[j] # "none" /\ stepOf'[j] =< plan'.cursor
    BY <1>2 DEF OrderInv, Moving, PlansTypeOK
  <1>5. \A i \in Steps : plan'.steps[i].job # None => stepOf'[plan'.steps[i].job] = i
    BY DEF OrderInv
  <1>6. \A k \in 1..plan'.cursor - 1 : succeededAt(k)'
    <2> TAKE k \in 1..plan'.cursor - 1
    <2>1. CASE k = plan.cursor
      BY <1>2, <2>1
    <2>2. CASE k # plan.cursor
      BY <1>1, <1>2, <2>2 DEF OrderInv
    <2> QED BY <2>1, <2>2
  <1>7. ASSUME NEW j \in Job, stepOf'[j] \notin cut' \union {0}
        PROVE  \/ plan'.steps[stepOf'[j]].job = j
               \/ \E a \in Advance : holds(a)' /\ advs'[a].job = j
               \/ ~open' /\ \A a \in Advance : ~stages(a)'
    <2>1. stepOf[j] \notin cut \union {0} /\ stepOf[j] \in Steps /\ stepOf'[j] = stepOf[j] /\ plan.state # "none"
      BY <1>7 DEF PlansTypeOK, Steps, OrderInv, PlansAssumption
    <2>2. CASE plan.steps[stepOf[j]].job = j
      BY <2>1, <2>2
    <2>3. CASE \E a \in Advance : holds(a) /\ advs[a].job = j
      BY <1>7, <2>1, <2>3
    <2>4. CASE ~open /\ \A a \in Advance : ~stages(a)
      BY <2>1, <2>4
    <2> QED BY <2>1, <2>2, <2>3, <2>4 DEF OrderInv
  <1>8. \A j, k \in Job : j # k /\ stepOf'[j] = stepOf'[k] => stepOf'[j] \in cut' \union {0}
    BY DEF OrderInv
  <1> QED BY <1>3, <1>4, <1>5, <1>6, <1>7, <1>8 DEF OrderInv
-----------------------------------------------------------------------------
(* The step keeps the invariant, action by action.                         *)

LEMMA PlansInitInv == PlansInit => PlansInv
  <1> SUFFICES ASSUME PlansInit
               PROVE  PlansInv
    OBVIOUS
  <1>1. Len(Kinds) \in Nat /\ 1 \in 1..Len(Kinds) + 1
    BY DEF PlansAssumption
  <1>2. NoPlan \in Plans /\ NoPlan.state = "none" /\ NoPlan.cursor = 1 /\ \A i \in Steps : NoPlan.steps[i].job = None
    BY <1>1 DEF NoPlan, Plans
  <1>3. NoAdvance \in Advances /\ NoAdvance.at = "idle"
    BY <1>2 DEF NoAdvance, Advances
  <1>4. PlansTypeOK
    <2>1. advs \in [Advance -> Advances] /\ plan \in Plans
      BY <1>2, <1>3 DEF PlansInit
    <2>2. stepOf \in [Job -> 0..Len(Kinds)]
      BY <1>1 DEF PlansInit
    <2> QED BY <2>1, <2>2 DEF PlansInit, LifeInit, PlansTypeOK
  <1>5. OneAdvance /\ StagingInv
    BY <1>3 DEF PlansInit, LifeInit, OneAdvance, StagingInv, stages
  <1>6. OrderInv
    BY <1>1, <1>2 DEF PlansInit, OrderInv, open
  <1> QED BY <1>4, <1>5, <1>6 DEF PlansInv

(* The call ends the plan, or leaves it; or it only goes on.               *)
LEMMA EndedByKeeps ==
    ASSUME PlansInv, NEW a \in Advance, NEW end \in Rest \ {"none"}, NEW report \in BOOLEAN,
           at(a, "turn"), open, endedBy(a, end, report)
    PROVE  PlansInv'
  <1>1. PlansTypeOK /\ OneAdvance /\ OrderInv
    BY DEF PlansInv
  <1>2. /\ finishPlan(plan, end, report, {}) /\ over(a) /\ advs[a].at = "turn" /\ UNCHANGED <<acts, check, settingVars, recordVars>>
    BY DEF endedBy, at
  <1>3. /\ plan' \in Plans /\ plan'.cursor = plan.cursor /\ plan'.steps = plan.steps /\ plan'.state = end
        /\ plan'.state = "none" <=> plan.state = "none"
        /\ reports' \in Nat /\ web' = web /\ Moving
    <2>1. savePlan(plan)
      BY DEF savePlan
    <2> QED BY <1>1, <1>2, <2>1, FinishEffect
  <1>4. /\ \A b \in Advance : advs'[b].at \in {"idle", "turn"}
        /\ advs' \in [Advance -> Advances] /\ again' \in BOOLEAN /\ OneAdvance'
        /\ \A b \in Advance : ~holds(b)
    BY <1>1, <1>2, <1>3, TurnTaken DEF holds
  <1>5. ~open'
    BY <1>3 DEF open, Rest
  <1>6. PlansTypeOK'
    BY <1>1, <1>2, <1>3, <1>4 DEF PlansTypeOK, Moving, recordVars
  <1>7. StagingInv'
    BY <1>4 DEF StagingInv, stages
  <1>8. OrderInv'
    BY <1>1, <1>2, <1>3, <1>4, <1>5, OrderStays DEF recordVars
  <1> QED BY <1>4, <1>6, <1>7, <1>8 DEF PlansInv

LEMMA RestsKeeps ==
    ASSUME PlansInv, NEW a \in Advance, at(a, "turn"), over(a),
           UNCHANGED <<lifeVars, rowVars, settingVars, recordVars>>
    PROVE  PlansInv'
  <1>1. PlansTypeOK /\ OneAdvance /\ OrderInv
    BY DEF PlansInv
  <1>2. advs[a].at = "turn" /\ UNCHANGED <<web, state, plan, reports, acts, check, stepOf, passed, cut>>
    BY DEF at, lifeVars, rowVars, recordVars
  <1>3. /\ \A b \in Advance : advs'[b].at \in {"idle", "turn"}
        /\ advs' \in [Advance -> Advances] /\ again' \in BOOLEAN /\ OneAdvance'
        /\ \A b \in Advance : ~holds(b)
    BY <1>1, <1>2, TurnTaken DEF holds
  <1>4. PlansTypeOK'
    BY <1>1, <1>2, <1>3 DEF PlansTypeOK
  <1>5. Moving /\ plan' \in Plans /\ (~open => ~open')
    BY <1>1, <1>2 DEF Moving, PlansTypeOK, open
  <1>6. StagingInv'
    BY <1>3 DEF StagingInv, stages
  <1>7. OrderInv'
    BY <1>1, <1>2, <1>3, <1>5, OrderStays DEF stages
  <1> QED BY <1>3, <1>4, <1>6, <1>7 DEF PlansInv

(* A checkpoint: the step that succeeded is done, or its check is begun.   *)
LEMMA CheckpointKeeps ==
    ASSUME PlansInv, NEW a \in Advance, NEW new, at(a, "turn"), open, checkpoint(new), over(a) \/ onward(a),
           new \in Plans, new.state \in {"running", "waiting"},
           \A i \in Steps : new.steps[i].job = plan.steps[i].job,
           check' \in {"none", "going", "passed", "failed", "silent"},
           passed' \in SUBSET Steps, passed \subseteq passed', UNCHANGED <<stepOf, cut, beside>>,
           \/ new.cursor = plan.cursor
           \/ new.cursor = plan.cursor + 1 /\ \E k \in Steps : k = plan.cursor /\ succeededAt(k)'
    PROVE  PlansInv'
  <1>1. PlansTypeOK /\ OneAdvance /\ OrderInv
    BY DEF PlansInv
  <1>2. advs[a].at = "turn" /\ plan' = new /\ UNCHANGED <<web, state, reports, acts>>
    BY DEF at, checkpoint, lifeVars
  <1>3. /\ \A b \in Advance : advs'[b].at \in {"idle", "turn"}
        /\ advs' \in [Advance -> Advances] /\ again' \in BOOLEAN /\ OneAdvance'
        /\ \A b \in Advance : ~holds(b)
    BY <1>1, <1>2, TurnTaken DEF holds
  <1>4. PlansTypeOK'
    BY <1>1, <1>2, <1>3 DEF PlansTypeOK
  <1>5. Moving
    BY <1>1, <1>2 DEF Moving, PlansTypeOK
  <1>6. StagingInv'
    BY <1>3 DEF StagingInv, stages
  <1>7. OrderInv'
    BY <1>1, <1>2, <1>3, <1>5, OrderStays
  <1> QED BY <1>3, <1>4, <1>6, <1>7 DEF PlansInv

(* A call is made: it takes a turn, or asks the one under way for one more. *)
LEMMA CallKeeps ==
    ASSUME PlansInv, calls, web' = "up", UNCHANGED <<state, acts, reports, recordVars>>,
           plan' = plan \/ (plan.state = "none" /\ plan' = [plan EXCEPT !.state = "running"]),
           check' \in {"none", "going", "passed", "failed", "silent"}
    PROVE  PlansInv'
  <1>1. PlansTypeOK /\ OneAdvance /\ OrderInv
    BY DEF PlansInv
  <1>2. /\ advs' \in [Advance -> Advances] /\ again' \in BOOLEAN /\ OneAdvance'
        /\ advs' = advs \/ \A b \in Advance : advs[b].at = "idle" /\ advs'[b].at \in {"idle", "turn"}
    BY <1>1, Called
  <1>3. \A b \in Advance : /\ stages(b)' => stages(b) /\ advs'[b] = advs[b]
                           /\ holds(b) => holds(b)' /\ advs'[b].job = advs[b].job
    BY <1>2 DEF stages, holds
  <1>4. /\ plan' \in Plans /\ plan'.cursor = plan.cursor /\ plan'.steps = plan.steps
        /\ plan'.state = "none" => plan.state = "none"
        /\ plan.state # "none" => plan' = plan
    BY <1>1 DEF PlansTypeOK, Plans
  <1>5. PlansTypeOK'
    BY <1>1, <1>2, <1>4 DEF PlansTypeOK, recordVars
  <1>6. Moving
    BY <1>1 DEF Moving, PlansTypeOK
  <1>7. StagingInv'
    BY <1>3, <1>4 DEF PlansInv, StagingInv, recordVars, stages, holds, open
  <1>8. ~open /\ plan.state # "none" => ~open' /\ \A b \in Advance : stages(b)' => stages(b)
    BY <1>3, <1>4 DEF open
  <1>9. OrderInv'
    BY <1>1, <1>3, <1>4, <1>6, <1>8, OrderStays DEF recordVars
  <1> QED BY <1>2, <1>5, <1>7, <1>9 DEF PlansInv

(* Steps of others that leave the plan, or end it.                         *)
LEMMA OthersKeep ==
    ASSUME PlansInv, Moving, UNCHANGED <<web, memoryVars, stepOf, passed, cut>>,
           reports' \in Nat, acts' \subseteq Job, check' \in {"none", "going", "passed", "failed", "silent"},
           plan' \in Plans, plan'.cursor = plan.cursor, plan'.steps = plan.steps,
           plan'.state = "none" <=> plan.state = "none",
           plan' = plan \/ ~open'
    PROVE  PlansInv'
  <1>1. PlansTypeOK /\ OneAdvance /\ OrderInv /\ StagingInv
    BY DEF PlansInv
  <1>2. UNCHANGED <<advs, again>>
    BY DEF memoryVars
  <1>3. PlansTypeOK'
    BY <1>1, <1>2 DEF PlansTypeOK, Moving
  <1>4. OneAdvance'
    BY <1>1, <1>2 DEF OneAdvance
  <1>5. ~open => ~open'
    BY DEF open
  <1>6. StagingInv'
    BY <1>1, <1>2, <1>5 DEF StagingInv, stages, holds
  <1>7. OrderInv'
    BY <1>1, <1>2, <1>5, OrderStays DEF stages, holds
  <1> QED BY <1>3, <1>4, <1>6, <1>7 DEF PlansInv

(* The service stops: what was being staged is cut off.                    *)
LEMMA StopKeeps ==
    ASSUME PlansInv, stop
    PROVE  PlansInv'
  <1>1. PlansTypeOK /\ OneAdvance /\ OrderInv /\ StagingInv
    BY DEF PlansInv
  <1>2. /\ web' = "down" /\ advs' = [a \in Advance |-> NoAdvance] /\ again' = FALSE
        /\ cut' = cut \union {advs[a].seen.cursor : a \in {b \in Advance : holds(b)}}
        /\ UNCHANGED <<state, plan, reports, acts, check, stepOf, passed>>
    BY DEF stop, Die, rowVars, holds
  <1>3. NoAdvance \in Advances /\ NoAdvance.at = "idle"
    BY DEF NoAdvance, Advances, NoPlan, Plans, Steps, PlansAssumption
  <1>4. \A b \in Advance : holds(b) => advs[b].seen.cursor \in Steps /\ stepOf[advs[b].job] = advs[b].seen.cursor
    BY <1>1 DEF StagingInv, holds, stages
  <1>5. cut' \subseteq Steps /\ cut \subseteq cut' /\ \A b \in Advance : holds(b) => stepOf[advs[b].job] \in cut'
    BY <1>1, <1>2, <1>4 DEF PlansTypeOK
  <1>6. \A b \in Advance : advs'[b].at = "idle"
    BY <1>2, <1>3
  <1>7. PlansTypeOK'
    BY <1>1, <1>2, <1>3, <1>5 DEF PlansTypeOK
  <1>8. OneAdvance' /\ StagingInv'
    BY <1>6 DEF OneAdvance, StagingInv, stages
  <1>9. Moving
    BY <1>1, <1>2 DEF Moving, PlansTypeOK
  <1>10. \A b \in Advance : ~stages(b)'
    BY <1>6 DEF stages
  <1>11. OrderInv'
    BY <1>1, <1>2, <1>5, <1>9, <1>10, OrderStays DEF open, PlansTypeOK
  <1> QED BY <1>7, <1>8, <1>11 DEF PlansInv
-----------------------------------------------------------------------------
(* Staging.                                                                *)

(* The turn that comes to an operation with no job starts to stage it.     *)
LEMMA StageStepKeeps ==
    ASSUME PlansInv, NEW a \in Advance, stageStep(a)
    PROVE  PlansInv'
  <1>1. PlansTypeOK /\ OneAdvance /\ OrderInv /\ StagingInv
    BY DEF PlansInv
  <1>2. /\ advs[a].at = "turn" /\ web = "up" /\ open /\ plan.cursor =< Len(Kinds) /\ Kinds[plan.cursor] = "operation"
        /\ plan.steps[plan.cursor].job = None
        /\ advs' = [advs EXCEPT ![a] = [at |-> "creating", seen |-> plan, job |-> None]]
        /\ UNCHANGED <<web, state, plan, reports, acts, check, again, stepOf, passed, cut>>
    BY DEF stageStep, onStep, goesOn, at, step, lifeVars, rowVars, recordVars
  <1>3. plan \in Plans /\ plan.cursor \in Steps /\ plan.state # "none"
    BY <1>1, <1>2 DEF PlansTypeOK, Plans, Steps, open, PlansAssumption
  <1>4. \A b \in Advance : b # a => advs[b].at = "idle" /\ advs'[b] = advs[b]
    BY <1>1, <1>2 DEF OneAdvance, PlansTypeOK
  <1>5. advs'[a].at = "creating" /\ advs'[a].seen = plan /\ advs' \in [Advance -> Advances]
    BY <1>1, <1>2, <1>3 DEF PlansTypeOK, Advances
  <1>6. PlansTypeOK'
    BY <1>1, <1>2, <1>5 DEF PlansTypeOK
  <1>7. OneAdvance'
    BY <1>1, <1>2, <1>4 DEF OneAdvance
  <1>8. StagingInv'
    BY <1>2, <1>3, <1>4, <1>5 DEF StagingInv, stages, holds
  <1>9. Moving
    BY <1>1, <1>2 DEF Moving, PlansTypeOK
  <1>10. \A b \in Advance : ~holds(b)
    BY <1>2, <1>4 DEF holds
  <1>11. OrderInv'
    BY <1>1, <1>2, <1>3, <1>9, <1>10, OrderStays
  <1> QED BY <1>6, <1>7, <1>8, <1>11 DEF PlansInv

(* Its job is made: the only one of the step.                              *)
LEMMA CreatedKeeps ==
    ASSUME PlansInv, NEW a \in Advance, NEW j \in Job, created(a, j)
    PROVE  PlansInv'
  <1>1. PlansTypeOK /\ OneAdvance /\ OrderInv /\ StagingInv
    BY DEF PlansInv
  <1> DEFINE c == plan.cursor
  <1>2. /\ advs[a].at = "creating" /\ web = "up" /\ Move({j}, "none", "awaiting")
        /\ stepOf' = [stepOf EXCEPT ![j] = advs[a].seen.cursor]
        /\ advs' = [advs EXCEPT ![a].at = "created", ![a].job = j]
        /\ UNCHANGED <<web, plan, reports, acts, check, again, passed, cut>>
    BY DEF created, at, Stage, Move, rowVars
  <1>3. /\ advs[a].seen.cursor = c /\ c \in Steps /\ Kinds[c] = "operation" /\ plan.steps[c].job = None
        /\ plan.steps = advs[a].seen.steps /\ plan.state # "none" /\ (plan = advs[a].seen \/ ~open)
    BY <1>1, <1>2 DEF StagingInv, stages
  <1>4. /\ \A b \in Advance : b # a => advs[b].at = "idle" /\ advs'[b] = advs[b]
        /\ advs'[a].at = "created" /\ advs'[a].job = j /\ advs'[a].seen = advs[a].seen /\ advs' \in [Advance -> Advances]
    BY <1>1, <1>2 DEF OneAdvance, PlansTypeOK, Advances
  <1>5. Moving /\ state[j] = "none" /\ state'[j] = "awaiting"
    <2>1. Moving
      BY <1>1, <1>2, JobsMove
    <2>2. state[j] = "none" /\ state'[j] = "awaiting"
      BY <1>1, <1>2 DEF Move, PlansTypeOK
    <2> QED BY <2>1, <2>2
  <1>6. stepOf[j] = 0 /\ stepOf' \in [Job -> 0..Len(Kinds)] /\ \A q \in Job : stepOf'[q] = IF q = j THEN c ELSE stepOf[q]
    BY <1>1, <1>2, <1>3, <1>5 DEF OrderInv, PlansTypeOK, Steps, PlansAssumption
  <1>7. c \in Nat \ {0} /\ c \in 1..Len(Kinds) /\ 0 \notin Steps
    BY <1>3 DEF Steps, PlansAssumption
  <1> HIDE DEF c
  <1>8. \A q \in Job : stepOf[q] = c => c \in cut
    <2> SUFFICES ASSUME NEW q \in Job, stepOf[q] = c, c \notin cut
                 PROVE  FALSE
      OBVIOUS
    <2>1. ~(plan.steps[stepOf[q]].job = q)
      BY <1>3, PlansAssumption DEF PlansAssumption
    <2>2. \A b \in Advance : ~holds(b)
      BY <1>2, <1>4 DEF holds
    <2>3. stages(a)
      BY <1>2 DEF stages
    <2> QED BY <1>1, <1>7, <2>1, <2>2, <2>3 DEF OrderInv
  <1>9. PlansTypeOK'
    BY <1>1, <1>2, <1>4, <1>5, <1>6 DEF PlansTypeOK, Moving
  <1>10. OneAdvance'
    BY <1>2, <1>4 DEF OneAdvance
  <1>11. StagingInv'
    <2>1. \A b \in Advance : stages(b)' => b = a
      BY <1>4 DEF stages
    <2>2. c = plan.cursor
      BY DEF c
    <2> QED BY <1>2, <1>3, <1>4, <1>6, <2>1, <2>2 DEF StagingInv, open, c
  <1>12. OrderInv'
    <2>1. \A k : succeededAt(k) => succeededAt(k)'
      <3> SUFFICES ASSUME NEW k, NEW q \in Job, stepOf[q] = k, state[q] = "completed"
                   PROVE  stepOf'[q] = k /\ state'[q] = "completed"
        BY <1>2 DEF succeededAt
      <3> QED BY <1>5, <1>6 DEF Moving
    <2>2. plan.cursor = c /\ plan'.cursor = c
      BY <1>2 DEF c
    <2>3. \A q \in Job : stepOf'[q] # 0 => state'[q] # "none" /\ stepOf'[q] =< plan'.cursor
      BY <1>1, <1>5, <1>6, <1>7, <2>2 DEF OrderInv, Moving
    <2>4. \A i \in Steps : plan'.steps[i].job # None => stepOf'[plan'.steps[i].job] = i
      <3> SUFFICES ASSUME NEW i \in Steps, plan.steps[i].job # None
                   PROVE  stepOf'[plan.steps[i].job] = i
        BY <1>2
      <3>1. plan.steps[i].job \in Job /\ stepOf[plan.steps[i].job] = i /\ i # 0
        BY <1>1, <1>7 DEF OrderInv, PlansTypeOK, Plans
      <3> QED BY <1>6, <3>1
    <2>5. \A k \in 1..plan'.cursor - 1 : succeededAt(k)'
      BY <1>1, <1>2, <2>1 DEF OrderInv
    <2>6. ASSUME NEW q \in Job, stepOf'[q] \notin cut' \union {0}
          PROVE  \/ plan'.steps[stepOf'[q]].job = q
                 \/ \E b \in Advance : holds(b)' /\ advs'[b].job = q
                 \/ ~open' /\ \A b \in Advance : ~stages(b)'
      <3>1. CASE q = j
        BY <1>4, <3>1 DEF holds
      <3>2. CASE q # j
        <4>1. stepOf'[q] = stepOf[q] /\ stepOf[q] \notin cut \union {0}
          BY <1>2, <1>6, <2>6, <3>2
        <4>2. \A b \in Advance : ~holds(b)
          BY <1>2, <1>4 DEF holds
        <4>3. stages(a)
          BY <1>2 DEF stages
        <4> QED BY <1>1, <1>2, <4>1, <4>2, <4>3 DEF OrderInv
      <3> QED BY <3>1, <3>2
    <2>7. \A q, r \in Job : q # r /\ stepOf'[q] = stepOf'[r] => stepOf'[q] \in cut' \union {0}
      BY <1>1, <1>2, <1>6, <1>8 DEF OrderInv
    <2> QED BY <1>2, <1>3, <2>3, <2>4, <2>5, <2>6, <2>7 DEF OrderInv
  <1> QED BY <1>9, <1>10, <1>11, <1>12 DEF PlansInv

(* Its staging fails: the plan is over.                                    *)
LEMMA StagingFailsKeeps ==
    ASSUME PlansInv, NEW a \in Advance, NEW X, stages(a), stagingFails(a, X), web = "up", X \subseteq Job
    PROVE  PlansInv'
  <1>1. PlansTypeOK /\ OneAdvance /\ OrderInv /\ StagingInv
    BY DEF PlansInv
  <1> DEFINE Y == {j \in X : state[j] = "awaiting"}
  <1>2. /\ finishPlan(advs[a].seen, "failed", TRUE, Y) /\ over(a) /\ advs[a].at # "idle"
        /\ UNCHANGED <<acts, check, stepOf, passed, cut>>
    BY DEF stagingFails, stages, recordVars
  <1>3. Y \subseteq {j \in Job : state[j] = "awaiting"} /\ "failed" \in Rest \ {"none"} /\ TRUE \in BOOLEAN
    BY DEF Rest
  <1> HIDE DEF Y
  <1>4. /\ plan' \in Plans /\ plan'.cursor = plan.cursor /\ plan'.steps = plan.steps
        /\ IF savePlan(advs[a].seen) THEN plan'.state = "failed" ELSE plan' = plan
        /\ plan'.state = "none" <=> plan.state = "none"
        /\ reports' \in Nat /\ web' = web /\ Moving
    BY <1>1, <1>2, <1>3, FinishEffect
  <1>5. /\ \A b \in Advance : advs'[b].at \in {"idle", "turn"}
        /\ advs' \in [Advance -> Advances] /\ again' \in BOOLEAN /\ OneAdvance'
    BY <1>1, <1>2, <1>4, TurnTaken
  <1>6. ~open'
    BY <1>1, <1>4 DEF StagingInv, savePlan, open
  <1>7. PlansTypeOK'
    BY <1>1, <1>2, <1>4, <1>5 DEF PlansTypeOK, Moving
  <1>8. StagingInv' /\ \A b \in Advance : ~stages(b)'
    BY <1>5 DEF StagingInv, stages
  <1>9. OrderInv'
    BY <1>1, <1>2, <1>4, <1>6, <1>8, OrderStays
  <1> QED BY <1>5, <1>7, <1>8, <1>9 DEF PlansInv

(* Its job is started.                                                     *)
LEMMA StartedKeeps ==
    ASSUME PlansInv, NEW a \in Advance, approveAndStart(a)
    PROVE  PlansInv'
  <1>1. PlansTypeOK /\ OneAdvance /\ OrderInv /\ StagingInv
    BY DEF PlansInv
  <1>2. /\ advs[a].at = "created" /\ web = "up" /\ Move({advs[a].job}, "awaiting", "active")
        /\ advs' = [advs EXCEPT ![a].at = "started"]
        /\ UNCHANGED <<web, plan, reports, acts, check, again, stepOf, passed, cut>>
    BY DEF approveAndStart, at, Grant, Move, rowVars, recordVars
  <1>3. Moving
    BY <1>1, <1>2, JobsMove
  <1>4. /\ advs' \in [Advance -> Advances] /\ advs'[a].at = "started" /\ advs'[a].job = advs[a].job /\ advs'[a].seen = advs[a].seen
        /\ \A b \in Advance : b # a => advs'[b] = advs[b]
    BY <1>1, <1>2 DEF PlansTypeOK, Advances
  <1>5. PlansTypeOK'
    BY <1>1, <1>2, <1>3, <1>4 DEF PlansTypeOK, Moving
  <1>6. OneAdvance'
    BY <1>1, <1>2, <1>4 DEF OneAdvance
  <1>7. \A b \in Advance : /\ (stages(b)' <=> stages(b)) /\ (holds(b)' <=> holds(b))
                           /\ advs'[b].job = advs[b].job /\ advs'[b].seen = advs[b].seen
    BY <1>2, <1>4 DEF stages, holds
  <1>8. StagingInv'
    BY <1>1, <1>2, <1>7 DEF StagingInv, open
  <1>9. OrderInv'
    BY <1>1, <1>2, <1>3, <1>7, OrderStays DEF open, PlansTypeOK
  <1> QED BY <1>5, <1>6, <1>8, <1>9 DEF PlansInv

(* Staged: the step has its job, or the plan has ended meanwhile.          *)
LEMMA StagedKeeps ==
    ASSUME PlansInv, NEW a \in Advance, staged(a)
    PROVE  PlansInv'
  <1>1. PlansTypeOK /\ OneAdvance /\ OrderInv /\ StagingInv
    BY DEF PlansInv
  <1> DEFINE seen == advs[a].seen
             c == plan.cursor
             j == advs[a].job
  <1>2. /\ holds(a) /\ stages(a) /\ web = "up" /\ acts' = acts \union {j}
        /\ IF savePlan(seen)
           THEN plan' = [seen EXCEPT !.state = "waiting", !.steps[seen.cursor].job = j] /\ onward(a)
           ELSE UNCHANGED plan /\ over(a)
        /\ UNCHANGED <<web, state, reports, check, stepOf, passed, cut>>
    BY DEF staged, at, holds, stages, lifeVars, settingVars, recordVars
  <1>3. /\ c \in Steps /\ plan.steps[c].job = None /\ plan.state # "none" /\ (plan = seen \/ ~open)
        /\ j \in Job /\ stepOf[j] = c
    BY <1>1, <1>2 DEF StagingInv
  <1>4. /\ \A b \in Advance : b # a => advs[b].at = "idle"
        /\ \A b \in Advance : advs'[b].at \in {"idle", "turn"}
        /\ advs' \in [Advance -> Advances] /\ again' \in BOOLEAN /\ OneAdvance'
    <2>1. (over(a) \/ onward(a)) /\ advs[a].at # "idle" /\ UNCHANGED web
      BY <1>2 DEF stages
    <2> QED BY <1>1, <2>1, TurnTaken
  <1> HIDE DEF seen, c, j
  <1>5. StagingInv' /\ \A b \in Advance : ~stages(b)'
    BY <1>4 DEF StagingInv, stages
  <1>6. Moving
    BY <1>1, <1>2 DEF Moving, PlansTypeOK
  <1>7. acts' \subseteq Job
    BY <1>1, <1>2, <1>3 DEF PlansTypeOK
  <1>8. CASE ~savePlan(seen)
    <2>1. plan' = plan /\ ~open'
      BY <1>2, <1>3, <1>8 DEF savePlan, open
    <2>2. PlansTypeOK'
      BY <1>1, <1>2, <1>4, <1>7, <2>1 DEF PlansTypeOK
    <2>3. OrderInv'
      BY <1>1, <1>2, <1>5, <1>6, <2>1, <2>2, OrderStays DEF PlansTypeOK
    <2> QED BY <1>4, <1>5, <2>2, <2>3 DEF PlansInv
  <1>9. CASE savePlan(seen)
    <2>1. /\ plan = seen /\ plan \in Plans
          /\ plan' = [plan EXCEPT !.state = "waiting", !.steps[plan.cursor].job = j]
      BY <1>1, <1>2, <1>9 DEF savePlan, PlansTypeOK
    <2>2. plan.cursor = c
      BY DEF c
    <2>3. /\ plan' \in Plans /\ plan'.cursor = plan.cursor /\ plan'.state = "waiting"
          /\ plan'.steps[c].job = j
          /\ \A i \in Steps : i # c => plan'.steps[i].job = plan.steps[i].job
      <3> DEFINE new == [plan.steps EXCEPT ![c].job = j]
      <3>1. plan.steps \in [Steps -> [job : Job \union {None}, run : BOOLEAN, tries : Nat]] /\ plan.cursor \in 1..Len(Kinds) + 1
        BY <2>1 DEF Plans
      <3>2. /\ new \in [Steps -> [job : Job \union {None}, run : BOOLEAN, tries : Nat]] /\ new[c].job = j
            /\ \A i \in Steps : i # c => new[i].job = plan.steps[i].job
        BY <1>3, <3>1
      <3>3. plan' = [plan EXCEPT !.state = "waiting", !.steps = new]
        BY <2>1, <2>2
      <3> HIDE DEF new
      <3> QED BY <2>1, <3>1, <3>2, <3>3 DEF Plans
    <2>4. PlansTypeOK'
      BY <1>1, <1>2, <1>4, <1>7, <2>3 DEF PlansTypeOK
    <2>5. /\ \A q \in Job : stepOf'[q] # 0 => state'[q] # "none" /\ stepOf'[q] =< plan'.cursor
          /\ \A k \in 1..plan'.cursor - 1 : succeededAt(k)'
          /\ \A q, r \in Job : q # r /\ stepOf'[q] = stepOf'[r] => stepOf'[q] \in cut' \union {0}
      BY <1>1, <1>2, <2>3 DEF OrderInv, succeededAt
    <2>6. \A i \in Steps : plan'.steps[i].job # None => stepOf'[plan'.steps[i].job] = i
      BY <1>1, <1>2, <1>3, <2>3 DEF OrderInv
    <2>7. ASSUME NEW q \in Job, stepOf'[q] \notin cut' \union {0}
          PROVE  plan'.steps[stepOf'[q]].job = q
      <3>1. stepOf'[q] = stepOf[q] /\ stepOf[q] \in Steps /\ stepOf[q] \notin cut \union {0}
        BY <1>1, <1>2, <2>7 DEF PlansTypeOK, Steps, PlansAssumption
      <3>2. CASE stepOf[q] = c
        BY <1>1, <1>3, <2>3, <3>1, <3>2 DEF OrderInv
      <3>3. CASE stepOf[q] # c
        <4>1. \A b \in Advance : holds(b) => b = a
          BY <1>4 DEF holds
        <4>2. ~(\E b \in Advance : holds(b) /\ advs[b].job = q)
          BY <1>3, <3>3, <4>1 DEF j
        <4> QED BY <1>1, <1>2, <2>3, <3>1, <3>3, <4>2 DEF OrderInv
      <3> QED BY <3>2, <3>3
    <2>8. plan'.state = "none" => \A q \in Job : stepOf'[q] = 0
      BY <2>3
    <2>9. OrderInv'
      BY <2>5, <2>6, <2>7, <2>8 DEF OrderInv
    <2> QED BY <1>4, <1>5, <2>4, <2>9 DEF PlansInv
  <1> QED BY <1>8, <1>9

(* People, jobs, checks and the recovery of jobs.                          *)
LEMMA JobsMoveKeeps ==
    ASSUME PlansInv, Moving, UNCHANGED <<rowVars, memoryVars, recordVars>>, UNCHANGED web \/ (web = "down" /\ web' = "recovering")
    PROVE  PlansInv'
  <1>1. PlansTypeOK /\ OneAdvance /\ OrderInv /\ StagingInv
    BY DEF PlansInv
  <1>2. UNCHANGED <<advs, again, plan, reports, acts, check, stepOf, passed, cut>>
    BY DEF rowVars, memoryVars, recordVars
  <1>3. PlansTypeOK'
    BY <1>1, <1>2 DEF PlansTypeOK, Moving
  <1>4. OneAdvance'
    BY <1>1, <1>2 DEF OneAdvance
  <1>5. StagingInv'
    BY <1>1, <1>2 DEF StagingInv, stages, holds, open
  <1>6. OrderInv'
    BY <1>1, <1>2, OrderStays DEF stages, holds, open, PlansTypeOK
  <1> QED BY <1>3, <1>4, <1>5, <1>6 DEF PlansInv

LEMMA StopPlanKeeps ==
    ASSUME PlansInv, NEW X, X \subseteq {j \in Job : state[j] = "awaiting"}, stopPlan(X),
           check' \in {"none", "going", "passed", "failed", "silent"}
    PROVE  PlansInv'
  <1>1. PlansTypeOK
    BY DEF PlansInv
  <1>2. finishPlan(plan, "cancelled", FALSE, X) /\ UNCHANGED <<acts, memoryVars, stepOf, passed, cut>>
    BY DEF stopPlan
  <1>3. "cancelled" \in Rest \ {"none"} /\ FALSE \in BOOLEAN
    BY DEF Rest
  <1>4. /\ plan' \in Plans /\ plan'.cursor = plan.cursor /\ plan'.steps = plan.steps
        /\ IF savePlan(plan) THEN plan'.state = "cancelled" ELSE plan' = plan
        /\ (plan'.state = "none" <=> plan.state = "none")
        /\ reports' \in Nat /\ UNCHANGED web /\ Moving
    BY <1>1, <1>2, <1>3, FinishEffect
  <1>5. plan' = plan \/ ~open'
    BY <1>4 DEF open
  <1>6. acts' \subseteq Job
    BY <1>1, <1>2 DEF PlansTypeOK
  <1> QED BY <1>2, <1>4, <1>5, <1>6, OthersKeep
-----------------------------------------------------------------------------
LEMMA AdvanceStepKeeps ==
    ASSUME PlansInv, NEW a \in Advance, AdvanceStep(a)
    PROVE  PlansInv'
  <1>1. PlansTypeOK /\ OneAdvance /\ OrderInv /\ StagingInv
    BY DEF PlansInv
  <1>2. CASE agentDeleted(a) \/ expires(a) \/ finished(a) \/ jobFailed(a) \/ checkFailed(a)
    <2>1. at(a, "turn") /\ open
      BY <1>2 DEF agentDeleted, expires, finished, jobFailed, checkFailed, onStep, goesOn
    <2>2. PICK end \in {"cancelled", "expired", "done", "failed"}, report \in BOOLEAN : endedBy(a, end, report)
      BY <1>2 DEF agentDeleted, expires, finished, jobFailed, checkFailed
    <2> QED BY <2>1, <2>2, EndedByKeeps DEF Rest
  <1>3. CASE closed(a) \/ rests(a) \/ jobStillGoing(a) \/ checkGoing(a)
    <2>1. at(a, "turn") /\ over(a) /\ UNCHANGED <<lifeVars, rowVars, settingVars, recordVars>>
      BY <1>3 DEF closed, rests, jobStillGoing, checkGoing, onStep, goesOn
    <2> QED BY <2>1, RestsKeeps
  <1>4. CASE jobCompleted(a) \/ startCheck(a) \/ checkPassed(a) \/ checkAgain(a)
    <2> DEFINE c == plan.cursor
    <2>1. /\ at(a, "turn") /\ open /\ c =< Len(Kinds) /\ Kinds[c] \in {"operation", "check"}
      BY <1>4 DEF jobCompleted, startCheck, checkPassed, checkAgain, onStep, goesOn
    <2>2. plan \in Plans /\ c \in Steps /\ c \in Nat /\ Len(Kinds) \in Nat
      BY <1>1, <2>1 DEF PlansTypeOK, Plans, Steps, PlansAssumption
    <2>3. plan.steps \in [Steps -> [job : Job \union {None}, run : BOOLEAN, tries : Nat]]
      BY <2>2 DEF Plans
    <2>4. check \in {"none", "going", "passed", "failed", "silent"} /\ passed \subseteq Steps
      BY <1>1 DEF PlansTypeOK
    <2>5. CASE jobCompleted(a) \/ checkPassed(a)
      <3> DEFINE new == [plan EXCEPT !.cursor = @ + 1, !.state = "running"]
      <3>1. /\ checkpoint(new) /\ onward(a) /\ UNCHANGED <<check, stepOf, cut, beside>>
            /\ passed' \in SUBSET Steps /\ passed \subseteq passed'
        BY <2>2, <2>4, <2>5 DEF jobCompleted, checkPassed, stepDone, recordVars
      <3>2. /\ new \in Plans /\ new.state = "running" /\ new.cursor = c + 1 /\ new.steps = plan.steps
        <4>1. c + 1 \in 1..Len(Kinds) + 1
          BY <2>2 DEF Steps
        <4> QED BY <2>2, <4>1 DEF Plans
      <3>3. \E k \in Steps : k = plan.cursor /\ succeededAt(k)'
        <4> PICK k \in Steps : k = c
          BY <2>2
        <4>1. UNCHANGED state
          BY <3>1 DEF checkpoint, lifeVars
        <4>2. CASE jobCompleted(a)
          <5>1. Kinds[k] = "operation" /\ plan.steps[k].job # None /\ state[plan.steps[k].job] = "completed"
            BY <4>2 DEF jobCompleted, onStep, step, succeeded
          <5>2. plan.steps[k].job \in Job /\ stepOf[plan.steps[k].job] = k
            BY <1>1, <2>2, <2>3, <5>1 DEF OrderInv
          <5> QED BY <3>1, <4>1, <5>1, <5>2 DEF succeededAt
        <4>3. CASE checkPassed(a)
          BY <4>3 DEF checkPassed, onStep, succeededAt
        <4> QED BY <2>5, <4>2, <4>3
      <3> HIDE DEF new
      <3>4. \A i \in Steps : new.steps[i].job = plan.steps[i].job
        BY <3>2
      <3> QED BY <2>1, <2>2, <2>4, <3>1, <3>2, <3>3, <3>4, CheckpointKeeps
    <2>6. CASE startCheck(a)
      <3> DEFINE mine == [plan.steps[c] EXCEPT !.run = TRUE, !.tries = @ + 1]
                 steps == [plan.steps EXCEPT ![c] = mine]
                 new == [plan EXCEPT !.state = "waiting", !.steps = steps]
      <3>1. checkpoint(new) /\ over(a) /\ check' = "going" /\ UNCHANGED recordVars
        BY <2>6 DEF startCheck
      <3>2. /\ steps \in [Steps -> [job : Job \union {None}, run : BOOLEAN, tries : Nat]]
            /\ \A i \in Steps : steps[i].job = plan.steps[i].job
        <4>1. plan.steps[c] \in [job : Job \union {None}, run : BOOLEAN, tries : Nat]
          BY <2>2, <2>3
        <4>2. ASSUME NEW old \in [job : Job \union {None}, run : BOOLEAN, tries : Nat]
              PROVE  /\ [old EXCEPT !.run = TRUE, !.tries = @ + 1] \in [job : Job \union {None}, run : BOOLEAN, tries : Nat]
                     /\ [old EXCEPT !.run = TRUE, !.tries = @ + 1].job = old.job
          <5> DEFINE begun == [old EXCEPT !.run = TRUE]
          <5>1. begun \in [job : Job \union {None}, run : BOOLEAN, tries : Nat] /\ begun.job = old.job
            OBVIOUS
          <5>2. [old EXCEPT !.run = TRUE, !.tries = @ + 1] = [begun EXCEPT !.tries = @ + 1]
            OBVIOUS
          <5> HIDE DEF begun
          <5> QED BY <5>1, <5>2
        <4>3. mine \in [job : Job \union {None}, run : BOOLEAN, tries : Nat] /\ mine.job = plan.steps[c].job
          BY <4>1, <4>2
        <4> HIDE DEF mine
        <4> QED BY <2>2, <2>3, <4>3
      <3> HIDE DEF steps
      <3>3. new \in Plans /\ new.state = "waiting" /\ new.cursor = plan.cursor /\ new.steps = steps
        BY <2>2, <3>2 DEF Plans
      <3> HIDE DEF new
      <3> QED BY <2>1, <2>4, <3>1, <3>2, <3>3, CheckpointKeeps DEF recordVars
    <2>7. CASE checkAgain(a)
      <3> DEFINE steps == [plan.steps EXCEPT ![c].run = FALSE]
                 new == [plan EXCEPT !.state = "running", !.steps = steps]
      <3>1. checkpoint(new) /\ onward(a) /\ UNCHANGED <<check, recordVars>>
        BY <2>7 DEF checkAgain
      <3>2. /\ steps \in [Steps -> [job : Job \union {None}, run : BOOLEAN, tries : Nat]]
            /\ \A i \in Steps : steps[i].job = plan.steps[i].job
        BY <2>2, <2>3
      <3> HIDE DEF steps
      <3>3. new \in Plans /\ new.state = "running" /\ new.cursor = plan.cursor /\ new.steps = steps
        BY <2>2, <3>2 DEF Plans
      <3> HIDE DEF new
      <3> QED BY <2>1, <2>4, <3>1, <3>2, <3>3, CheckpointKeeps DEF recordVars
    <2> QED BY <1>4, <2>5, <2>6, <2>7
  <1>5. CASE stageStep(a)
    BY <1>5, StageStepKeeps
  <1>6. CASE \E j \in Job : created(a, j)
    BY <1>6, CreatedKeeps
  <1>7. CASE stageRefused(a) \/ couldNotStart(a)
    <2>1. stages(a) /\ web = "up"
      BY <1>7 DEF stageRefused, couldNotStart, at, stages
    <2>2. CASE stageRefused(a)
      BY <2>1, <2>2, StagingFailsKeeps DEF stageRefused
    <2>3. CASE couldNotStart(a)
      <3>1. advs[a].job \in Job
        BY <1>1, <2>3 DEF couldNotStart, at, StagingInv, stages, holds
      <3> QED BY <2>1, <2>3, <3>1, StagingFailsKeeps DEF couldNotStart
    <2> QED BY <1>7, <2>2, <2>3
  <1>8. CASE approveAndStart(a)
    BY <1>8, StartedKeeps
  <1>9. CASE staged(a)
    BY <1>9, StagedKeeps
  <1> QED BY <1>2, <1>3, <1>4, <1>5, <1>6, <1>7, <1>8, <1>9 DEF AdvanceStep

LEMMA PlansNextInv == PlansInv /\ [PlansNext]_planVars => PlansInv'
  <1> SUFFICES ASSUME PlansInv, [PlansNext]_planVars
               PROVE  PlansInv'
    OBVIOUS
  <1>1. PlansTypeOK /\ OneAdvance /\ OrderInv /\ StagingInv
    BY DEF PlansInv
  <1>2. check \in {"none", "going", "passed", "failed", "silent"} /\ plan \in Plans /\ reports \in Nat /\ acts \subseteq Job
    BY <1>1 DEF PlansTypeOK
  <1>3. CASE planFor \/ advancePlan \/ recoverAtStartup
    <2>1. CASE planFor
      BY <1>2, <2>1, CallKeeps DEF planFor, lifeVars
    <2>2. CASE advancePlan
      BY <1>2, <2>2, CallKeeps DEF advancePlan, lifeVars, rowVars
    <2>3. CASE recoverAtStartup
      <3>1. /\ web' = "up" /\ web = "recovering" /\ check' \in {"none", "going", "passed", "failed", "silent"}
            /\ UNCHANGED <<state, plan, reports, acts, recordVars>>
        BY <1>2, <2>3 DEF recoverAtStartup, Back
      <3>2. CASE calls
        BY <3>1, <3>2, CallKeeps
      <3>3. CASE UNCHANGED memoryVars
        <4>1. UNCHANGED <<advs, again, stepOf, passed, cut>>
          BY <3>1, <3>3 DEF memoryVars, recordVars
        <4>2. Moving
          BY <1>1, <3>1 DEF Moving, PlansTypeOK
        <4>3. PlansTypeOK'
          BY <1>1, <3>1, <4>1 DEF PlansTypeOK
        <4>4. OneAdvance'
          BY <1>1, <3>1, <4>1 DEF OneAdvance
        <4>5. StagingInv'
          BY <1>1, <3>1, <4>1 DEF StagingInv, stages, holds, open
        <4>6. OrderInv'
          BY <1>1, <3>1, <4>1, <4>2, OrderStays DEF stages, holds, open, PlansTypeOK
        <4> QED BY <4>3, <4>4, <4>5, <4>6 DEF PlansInv
      <3> QED BY <2>3, <3>2, <3>3 DEF recoverAtStartup
    <2> QED BY <1>3, <2>1, <2>2, <2>3
  <1>4. CASE \E a \in Advance : AdvanceStep(a)
    BY <1>4, AdvanceStepKeeps
  <1>5. CASE \E j \in Job : jobEnds(j) \/ approveByHand(j) \/ withdrawByHand(j)
    <2> PICK j \in Job : jobEnds(j) \/ approveByHand(j) \/ withdrawByHand(j)
      BY <1>5
    <2>1. /\ \E to \in {"completed", "failed"} : Move({j}, "active", to)
          \/ Move({j}, "awaiting", "active") \/ Move({j}, "awaiting", "cancelled")
      BY DEF jobEnds, approveByHand, withdrawByHand, Complete, Fail, Grant, Withdraw
    <2>2. UNCHANGED <<rowVars, memoryVars, recordVars>>
      BY DEF jobEnds, approveByHand, withdrawByHand
    <2>3. Moving
      BY <1>1, <2>1, JobsMove
    <2>4. UNCHANGED web
      BY <2>1 DEF Move
    <2> QED BY <2>2, <2>3, <2>4, JobsMoveKeeps
  <1>6. CASE recoverInterruptedJobs
    <2>1. /\ web = "down" /\ web' = "recovering" /\ UNCHANGED <<rowVars, memoryVars, recordVars>>
          /\ state' = [j \in Job |-> IF j \in activeJobs THEN "failed" ELSE state[j]]
      BY <1>6 DEF recoverInterruptedJobs, Recover
    <2>2. Moving
      BY <1>1, <2>1 DEF Moving, PlansTypeOK, activeJobs
    <2> QED BY <2>1, <2>2, JobsMoveKeeps
  <1>7. CASE cancelPlan \/ killSwitch
    <2>1. CASE cancelPlan
      BY <1>2, <2>1, StopPlanKeeps DEF cancelPlan
    <2>2. CASE killSwitch
      <3> DEFINE X == {j \in acts : state[j] = "awaiting"}
      <3>1. stopPlan(X) /\ check' \in {"none", "going", "passed", "failed", "silent"}
        BY <1>2, <2>2 DEF killSwitch
      <3>2. X \subseteq {j \in Job : state[j] = "awaiting"}
        BY <1>2
      <3> HIDE DEF X
      <3> QED BY <3>1, <3>2, StopPlanKeeps
    <2> QED BY <1>7, <2>1, <2>2
  <1>8. CASE stop
    BY <1>8, StopKeeps
  <1>9. CASE \/ \E verdict \in {"passed", "failed", "silent"} : checkEnds(verdict)
             \/ pause \/ resume \/ deleteAgent \/ dayOver \/ UNCHANGED planVars
    <2>1. /\ UNCHANGED <<web, state, plan, reports, acts, memoryVars, stepOf, passed, cut>>
          /\ check' \in {"none", "going", "passed", "failed", "silent"}
      BY <1>2, <1>9 DEF checkEnds, pause, resume, deleteAgent, dayOver, planVars, lifeVars, rowVars, recordVars
    <2>2. Moving
      BY <1>1, <2>1 DEF Moving, PlansTypeOK
    <2> QED BY <1>2, <2>1, <2>2, OthersKeep
  <1> QED BY <1>3, <1>4, <1>5, <1>6, <1>7, <1>8, <1>9 DEF PlansNext

LEMMA PlansInvariant == PlansSpec => []PlansInv
  BY PlansInitInv, PlansNextInv, PTL DEF PlansSpec
-----------------------------------------------------------------------------
(* The plan, its calls, its jobs and its checks are what they should be.   *)
THEOREM PlansTypeCorrect == PlansSpec => []PlansTypeOK
  <1>1. PlansInv => PlansTypeOK
    BY DEF PlansInv
  <1> QED BY <1>1, PlansInvariant, PTL

(* However many callers advance the plan, a step is staged as one job,     *)
(* after what comes before it succeeded, unless a stop cut its staging.    *)
THEOREM StagedOnceInOrder == PlansSpec => []StagedInOrder
  <1>1. PlansInv => StagedInOrder
    <2> SUFFICES ASSUME PlansInv
                 PROVE  StagedInOrder
      OBVIOUS
    <2>1. PlansTypeOK /\ OrderInv
      BY DEF PlansInv
    <2>2. ASSUME NEW i \in Steps \ cut
          PROVE  Cardinality({j \in Job : stepOf[j] = i}) =< 1
      <3> DEFINE J == {j \in Job : stepOf[j] = i}
      <3>1. i # 0
        BY DEF Steps, PlansAssumption
      <3>2. \A j, k \in J : j = k
        BY <2>1, <2>2, <3>1 DEF OrderInv
      <3> HIDE DEF J
      <3>3. CASE J = {}
        <4>1. Cardinality(J) = 0
          BY <3>3, FS_EmptySet
        <4> QED BY <4>1 DEF J
      <3>4. CASE J # {}
        <4> PICK j \in J : TRUE
          BY <3>4
        <4>1. J = {j}
          BY <3>2
        <4>2. Cardinality(J) = 1
          BY <4>1, FS_Singleton
        <4> QED BY <4>2 DEF J
      <3> QED BY <3>3, <3>4
    <2>3. ASSUME NEW j \in Job, NEW k \in 1..stepOf[j] - 1
          PROVE  succeededAt(k)
      <3>1. stepOf[j] \in 0..Len(Kinds) /\ plan.cursor \in 1..Len(Kinds) + 1 /\ Len(Kinds) \in Nat
        BY <2>1 DEF PlansTypeOK, Plans, PlansAssumption
      <3>2. stepOf[j] # 0 /\ stepOf[j] =< plan.cursor
        BY <2>1, <3>1 DEF OrderInv
      <3> QED BY <2>1, <3>1, <3>2 DEF OrderInv
    <2> QED BY <2>2, <2>3 DEF StagedInOrder, succeededAt
  <1> QED BY <1>1, PlansInvariant, PTL

(* A plan that ended stays as it ended and is not reported again: staging  *)
(* that comes back to it late, and the kill switch, write nothing over it. *)
THEOREM EndedStays == PlansSpec => EndedPlanStays
  <1>1. [PlansNext]_planVars => [plan.state # "none" /\ ~open => UNCHANGED <<plan, reports>>]_planVars
    <2> SUFFICES ASSUME PlansNext, plan.state # "none", ~open
                 PROVE  UNCHANGED <<plan, reports>>
      BY DEF planVars
    <2>1. ASSUME NEW seen, NEW end, NEW report, NEW X, finishPlan(seen, end, report, X)
          PROVE  UNCHANGED <<plan, reports>>
      BY <2>1 DEF finishPlan, savePlan
    <2>2. CASE \E a \in Advance : AdvanceStep(a)
      <3> PICK a \in Advance : AdvanceStep(a)
        BY <2>2
      <3>1. CASE closed(a)
        BY <3>1 DEF closed, rowVars
      <3>2. CASE \E j \in Job : created(a, j)
        BY <3>2 DEF created, rowVars
      <3>3. CASE stageRefused(a) \/ couldNotStart(a)
        BY <2>1, <3>3 DEF stageRefused, couldNotStart, stagingFails
      <3>4. CASE approveAndStart(a)
        BY <3>4 DEF approveAndStart, rowVars
      <3>5. CASE staged(a)
        BY <3>5 DEF staged, savePlan
      <3>6. CASE \/ agentDeleted(a) \/ expires(a) \/ rests(a) \/ finished(a) \/ stageStep(a)
                 \/ jobCompleted(a) \/ jobFailed(a) \/ jobStillGoing(a)
                 \/ startCheck(a) \/ checkGoing(a) \/ checkPassed(a) \/ checkAgain(a) \/ checkFailed(a)
        BY <3>6 DEF agentDeleted, expires, rests, finished, stageStep, jobCompleted, jobFailed, jobStillGoing,
                    startCheck, checkGoing, checkPassed, checkAgain, checkFailed, onStep, goesOn
      <3> QED BY <3>1, <3>2, <3>3, <3>4, <3>5, <3>6 DEF AdvanceStep
    <2>3. CASE \E j \in Job : jobEnds(j) \/ approveByHand(j) \/ withdrawByHand(j)
      BY <2>3 DEF jobEnds, approveByHand, withdrawByHand, rowVars
    <2>4. CASE cancelPlan \/ killSwitch
      BY <2>1, <2>4 DEF cancelPlan, killSwitch, stopPlan
    <2>5. CASE \/ planFor \/ advancePlan \/ pause \/ resume \/ deleteAgent \/ dayOver \/ stop
               \/ recoverInterruptedJobs \/ recoverAtStartup
               \/ \E verdict \in {"passed", "failed", "silent"} : checkEnds(verdict)
      BY <2>5 DEF planFor, advancePlan, pause, resume, deleteAgent, dayOver, stop,
                  recoverInterruptedJobs, recoverAtStartup, checkEnds, rowVars
    <2> QED BY <2>2, <2>3, <2>4, <2>5 DEF PlansNext
  <1> QED BY <1>1, PTL DEF PlansSpec, EndedPlanStays
=============================================================================
