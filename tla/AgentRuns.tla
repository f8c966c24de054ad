----------------------------- MODULE AgentRuns -----------------------------
(***************************************************************************)
(* The agents' queue (agents/service.mjs, store.mjs, orchestrator.mjs):    *)
(* runs people and schedules start, handed one at a time to a runner in    *)
(* another process; hand-offs from a run to other agents and the follow-up *)
(* that reads their answers; cancels, pauses, deletions and the kill       *)
(* switch; jobs a run stages, whose ends its follow-up reads; and a runner *)
(* or a web service that stops at any point.                               *)
(*                                                                         *)
(* Time is left open: a queued run may have waited too long, and a running *)
(* one be past its lease or its deadline, whenever something looks.        *)
(***************************************************************************)
EXTENDS Naturals, Sequences, FiniteSets

CONSTANTS Agent,
          Delegates,   \* [Agent -> the agents it may hand work to]
          MaxDepth,    \* how deep hand-offs may go (2, at most 3)
          PerRun,      \* hand-offs of one run (3)
          QueueMax,    \* runs waiting
          RunsPerDay,  \* [Agent -> the runs it may start in a day]
          MaxRoots,    \* bound: questions and scheduled runs
          MaxParts,    \* bound: hand-offs and jobs
          MaxFaults    \* bound: stops, hang-ups, restarts of the runner, and uses of a switch

ASSUME AgentsAssumption ==
    /\ Delegates \in [Agent -> SUBSET Agent] /\ RunsPerDay \in [Agent -> Nat]
    /\ {MaxDepth, PerRun, QueueMax, MaxRoots, MaxParts, MaxFaults} \subseteq Nat

VARIABLES
    runs,       \* the rows, in the order they were queued
    module,     \* "on", "paused" or "until" a time
    killed,     \* killedAt is set
    pausedAgents, gone,
    service,
    acting,     \* the run whose job is being staged (0 for none)
    finishing,  \* finished by the runner, what follows still to come
    life, greeted, work,  \* the runner: its id, whether it said hello, its run (0 for none)
    polls,      \* the long polls the web service is answering
    faults,
    halted,     \* since the kill switch nothing ended the pause (a record)
    forgone,    \* runs that were there while killedAt was set (a record)
    cut         \* a stop came between a finish and what follows it, or ended a job
                \* with nobody listening (a record)

settingVars == <<module, killed, pausedAgents, gone, halted, forgone>>
runnerVars == <<life, greeted, work, polls>>
serviceVars == <<service, cut>>
agentVars == <<runs, settingVars, runnerVars, serviceVars, finishing, acting, faults>>

(* A run's answer is "answered" (completed, degraded); "ended" is any      *)
(* other end.                                                              *)
Active == {"queued", "running"}
Finished == {"answered", "ended"}
NewRun(a, kind, parent, depth) ==
    [agent |-> a, kind |-> kind, parent |-> parent, depth |-> depth, state |-> "queued",
     continued |-> FALSE, started |-> FALSE, runner |-> 0, given |-> 0, opinionOf |-> 0, acts |-> "none"]
InState(R, s) == {r \in DOMAIN R : R[r].state = s}
ChildrenOf(R, r, kind) == {c \in DOMAIN R : R[c].parent = r /\ R[c].kind = kind}

AgentsInit ==
    /\ runs = <<>> /\ finishing = {} /\ acting = 0
    /\ module = "on" /\ killed = FALSE /\ pausedAgents = {} /\ gone = {}
    /\ service = "up"
    /\ life = 1 /\ greeted = FALSE /\ work = 0 /\ polls = {}
    /\ faults = 0
    /\ halted = FALSE /\ forgone = {} /\ cut = FALSE
-----------------------------------------------------------------------------
(* Follow-ups: what a run's end sets going in its tree.                    *)

(* Mutant: a hand-off's interim answer is taken for its last. *)
handoffSettled_Interim(R, c) == R[c].state \in Finished

(* Ended, and its own follow-up too, or none is coming. *)
handoffSettled(R, c) ==
    /\ R[c].state \in Finished
    /\ LET own == ChildrenOf(R, c, "continue")
       IN \/ ChildrenOf(R, c, "handoff") = {}
          \/ own # {} /\ \A f \in own : R[f].state \in Finished
          \/ own = {} /\ ~(R[c].state = "answered" /\ ~R[c].continued /\ R[c].agent \notin gone)

(* Mutant: the kill switch is not looked at. *)
mayContinue_Killed(R, p) ==
    /\ ~R[p].continued
    /\ ChildrenOf(R, p, "handoff") # {} \/ R[p].acts # "none"
    /\ R[p].acts # "going"
    /\ \A c \in ChildrenOf(R, p, "handoff") : handoffSettled(R, c)
    /\ R[p].state = "answered" /\ R[p].agent \notin gone

mayContinue(R, p) ==
    /\ ~R[p].continued
    /\ ChildrenOf(R, p, "handoff") # {} \/ R[p].acts # "none"
    /\ R[p].acts # "going"
    /\ \A c \in ChildrenOf(R, p, "handoff") : handoffSettled(R, c)
    /\ R[p].state = "answered"
    /\ ~killed /\ R[p].agent \notin gone

continueSupervisor(R, p) ==
    IF p # 0 /\ mayContinue(R, p)
    THEN [Append(R, NewRun(R[p].agent, "continue", p, R[p].depth)) EXCEPT ![p].continued = TRUE]
    ELSE R

(* Mutant: only the runs above. *)
supervisors_Above(R, r) ==
    LET above[n \in 0..MaxDepth + 2] ==
            IF n = 0 THEN r ELSE IF above[n - 1] = 0 THEN 0 ELSE R[above[n - 1]].parent
    IN [n \in 1..MaxDepth + 3 |-> IF n = 1 THEN 0 ELSE above[n - 1]]

(* The run itself, then each supervisor above it, nearest first. *)
supervisors(R, r) ==
    LET above[n \in 0..MaxDepth + 2] ==
            IF n = 0 THEN r ELSE IF above[n - 1] = 0 THEN 0 ELSE R[above[n - 1]].parent
    IN [n \in 1..MaxDepth + 3 |-> IF n = 1 /\ R[r].kind = "continue" THEN 0 ELSE above[n - 1]]

continueTree(R, r) ==
    LET seq == supervisors(R, r)
        tree[n \in 0..Len(seq)] == IF n = 0 THEN R ELSE continueSupervisor(tree[n - 1], seq[n])
    IN tree[Len(seq)]

(* finishRun, once, and runEnded, for each run of S in turn. *)
endEach(R, S) ==
    LET upTo[n \in 0..Len(R)] ==
            IF n = 0 THEN R
            ELSE IF n \in S /\ R[n].state \in Active
                 THEN continueTree([upTo[n - 1] EXCEPT ![n].state = "ended"], n)
                 ELSE upTo[n - 1]
    IN upTo[Len(R)]
-----------------------------------------------------------------------------
(* Starting: a person's question, an agent's own schedule, a hand-off.     *)

fault == faults < MaxFaults /\ faults' = faults + 1

roots == Cardinality({r \in DOMAIN runs : runs[r].parent = 0})
handOffs == Cardinality({r \in DOMAIN runs : runs[r].kind = "handoff"})
acted == Cardinality({r \in DOMAIN runs : runs[r].acts # "none"})
paused == module # "on"

(* budgetOf's refusal: the day's runs are counted as they start. *)
budgetRefusal(R, a) == Cardinality({r \in DOMAIN R : R[r].agent = a /\ R[r].started}) >= RunsPerDay[a]
mayQueue(a) ==
    /\ service = "up" /\ roots < MaxRoots
    /\ ~paused
    /\ ~budgetRefusal(runs, a)
    /\ Cardinality(InState(runs, "queued")) < QueueMax
mayStart(a) == mayQueue(a) /\ a \notin pausedAgents \union gone

(* One question of a person waits or runs at a time. *)
startRun(a) ==
    /\ mayStart(a)
    /\ \A r \in DOMAIN runs : ~(runs[r].kind = "ask" /\ runs[r].state \in Active)
    /\ runs' = Append(runs, NewRun(a, "ask", 0, 0))
    /\ UNCHANGED <<settingVars, runnerVars, serviceVars, finishing, acting, faults>>

enqueueSystem(a) ==
    /\ mayStart(a)
    /\ \A r \in DOMAIN runs : ~(runs[r].agent = a /\ runs[r].kind = "schedule" /\ runs[r].state = "queued")
    /\ runs' = Append(runs, NewRun(a, "schedule", 0, 0))
    /\ UNCHANGED <<settingVars, runnerVars, serviceVars, finishing, acting, faults>>

chainOf(R, r) ==
    LET seq == supervisors(R, r)
    IN {R[p].agent : p \in {r} \union ({seq[n] : n \in DOMAIN seq} \ {0})}

(* The tool is offered to no follow-up. *)
handoffFor(a) ==
    /\ service = "up" /\ work # 0 /\ acting # work /\ runs[work].state = "running" /\ handOffs + acted < MaxParts
    /\ LET run == runs[work]
       IN /\ run.kind # "continue"
          /\ a \in Delegates[run.agent] \ (pausedAgents \union gone \union chainOf(runs, work))
          /\ run.depth + 1 <= MaxDepth
          /\ Cardinality(ChildrenOf(runs, work, "handoff")) < PerRun
          /\ ~budgetRefusal(runs, a)
          /\ runs' = Append(runs, NewRun(a, "handoff", work, run.depth + 1))
    /\ UNCHANGED <<settingVars, runnerVars, serviceVars, finishing, acting, faults>>

(* A job is staged, once its fences are read; the run may end meanwhile. *)
actFor ==
    /\ service = "up" /\ work # 0 /\ acting = 0 /\ runs[work].state = "running"
    /\ runs[work].parent = 0 /\ runs[work].acts = "none" /\ handOffs + acted < MaxParts
    /\ acting' = work
    /\ UNCHANGED <<runs, settingVars, runnerVars, serviceVars, finishing, faults>>

stageOperation(ok) ==
    /\ service = "up" /\ acting # 0
    /\ acting' = 0
    /\ runs' = IF ok THEN [runs EXCEPT ![acting].acts = "going"] ELSE runs
    /\ UNCHANGED <<settingVars, runnerVars, serviceVars, finishing, faults>>

(* It finished, failed, was withdrawn, or nobody approved it in time. *)
onJob(r) ==
    /\ service = "up" /\ runs[r].acts = "going"
    /\ runs' = continueSupervisor([runs EXCEPT ![r].acts = "over"], r)
    /\ UNCHANGED <<settingVars, runnerVars, serviceVars, finishing, acting, faults>>
-----------------------------------------------------------------------------
(* The runner: it says hello once, polls, works on one run, finishes.      *)

Waiting == {p \in polls : p.waits}

(* Runs another runner held are ended. *)
runnerHello ==
    /\ service = "up" /\ ~greeted
    /\ greeted' = TRUE
    /\ runs' = endEach(runs, {r \in InState(runs, "running") : runs[r].runner # life})
    /\ UNCHANGED <<settingVars, life, work, polls, serviceVars, finishing, acting, faults>>

startPoll ==
    /\ service = "up" /\ greeted /\ work = 0 /\ Waiting = {}
    /\ polls' = polls \union {[life |-> life, run |-> 0, waits |-> TRUE, aborted |-> FALSE]}
    /\ UNCHANGED <<runs, settingVars, life, greeted, work, serviceVars, finishing, acting, faults>>

Rank == [ask |-> 0, continue |-> 0, handoff |-> 1, schedule |-> 3]
Before(R, q, r) == Rank[R[q].kind] < Rank[R[r].kind] \/ (Rank[R[q].kind] = Rank[R[r].kind] /\ q < r)

handOutRefusal(R, r) == R[r].kind # "continue" /\ budgetRefusal(R, R[r].agent)

(* chooseRun: what it ends on the way, and the run it picks (0 for none).  *)
(* aged have waited too long; a busy host leaves scheduled work waiting.   *)
dropped(R, aged) ==
    {r \in InState(R, "queued") : \/ R[r].agent \in gone
                                  \/ R[r].agent \notin pausedAgents /\ r \in aged}
eligible(R, aged, busy) ==
    {r \in InState(R, "queued") \ dropped(R, aged) :
        R[r].agent \notin pausedAgents /\ ~(busy /\ R[r].kind = "schedule")}
chooseRun(R, aged, busy) ==
    LET open == eligible(R, aged, busy)
        best == {r \in open : /\ ~handOutRefusal(R, r)
                              /\ \A q \in open : Before(R, q, r) => handOutRefusal(R, q)}
        picked == IF best = {} THEN 0 ELSE CHOOSE r \in best : TRUE
    IN [picked |-> picked,
        ended |-> dropped(R, aged) \union {q \in open : picked = 0 \/ Before(R, q, picked)}]

(* The runs that ended on the way are followed up after the claim. *)
claim(R, c, p) ==
    LET marked == [r \in DOMAIN R |->
                      IF r = c.picked THEN [R[r] EXCEPT !.state = "running", !.started = TRUE, !.runner = p.life]
                      ELSE IF r \in c.ended THEN [R[r] EXCEPT !.state = "ended"] ELSE R[r]]
        upTo[n \in 0..Len(R)] ==
            IF n = 0 THEN marked ELSE IF n \in c.ended THEN continueTree(upTo[n - 1], n) ELSE upTo[n - 1]
    IN upTo[Len(R)]

(* Mutant: a run whose runner stopped answering is tried again. *)
expired_Retried(R, late) ==
    [r \in DOMAIN R |-> IF r \in late THEN [R[r] EXCEPT !.state = "queued"] ELSE R[r]]

(* Past its lease or its deadline. *)
expired(R, late) == endEach(R, late)

(* One turn of a poll's loop: leases expire, and a run is claimed unless   *)
(* agents are paused, the runner has hung up or a run holds a live lease.  *)
runnerNext(p, late, aged, busy) ==
    /\ service = "up" /\ p.run = 0
    /\ LET R == expired(runs, late)
           c == chooseRun(R, aged, busy)
       IN IF paused \/ p.aborted \/ InState(R, "running") # {}
          THEN aged = {} /\ ~busy /\ late # {} /\ runs' = R /\ UNCHANGED polls
          ELSE /\ c.picked # 0 \/ c.ended # {}
               /\ runs' = claim(R, c, p)
               /\ polls' = (polls \ {p}) \union {[p EXCEPT !.run = c.picked]}
    /\ UNCHANGED <<settingVars, life, greeted, work, serviceVars, finishing, acting, faults>>

(* Nothing to hand out, or nobody to hand it to. *)
pollOver(p) ==
    /\ service = "up" /\ p.run = 0
    /\ polls' = polls \ {p}
    /\ UNCHANGED <<runs, settingVars, life, greeted, work, serviceVars, finishing, acting, faults>>

(* What becomes of a claim once its processors are set. *)
afterCpu(p) ==
    IF runs[p.run].state # "running" THEN "dropped" ELSE IF p.aborted THEN "released" ELSE "handed"

(* cpuForRun has answered: the run is handed out, goes back in the queue,  *)
(* or has ended meanwhile. An answer nobody waits for is lost.             *)
cpuSet(p) ==
    /\ service = "up" /\ p.run # 0
    /\ polls' = polls \ {p}
    /\ runs' = CASE afterCpu(p) = "dropped" -> runs
                 [] afterCpu(p) = "released" -> [runs EXCEPT ![p.run].state = "queued", ![p.run].started = FALSE,
                                                              ![p.run].runner = 0]
                 [] OTHER -> [runs EXCEPT ![p.run].given = @ + 1]
    /\ work' = IF afterCpu(p) = "handed" /\ p.waits THEN p.run ELSE work
    /\ UNCHANGED <<settingVars, life, greeted, serviceVars, finishing, acting, faults>>

(* A heartbeat that is told to stop: ended, past its deadline, or paused. *)
runnerHeartbeat(late) ==
    /\ service = "up" /\ work # 0
    /\ late \/ runs[work].state # "running" \/ paused \/ runs[work].agent \in pausedAgents
    /\ runs' = endEach(runs, {work} \intersect InState(runs, "running"))
    /\ work' = 0
    /\ UNCHANGED <<settingVars, life, greeted, polls, serviceVars, finishing, acting, faults>>

(* Kept, then notices and cards are awaited before what follows an end. *)
runnerFinish(outcome) ==
    /\ service = "up" /\ work # 0 /\ acting # work
    /\ work' = 0
    /\ IF runs[work].state = "running"
       THEN runs' = [runs EXCEPT ![work].state = outcome] /\ finishing' = finishing \union {work}
       ELSE UNCHANGED <<runs, finishing>>
    /\ UNCHANGED <<settingVars, life, greeted, polls, serviceVars, acting, faults>>

(* The run is asked again on another model, once. Whether its agent is     *)
(* paused or gone was read before the awaits.                              *)
askSecondOpinion(r) ==
    /\ r \in finishing /\ mayQueue(runs[r].agent)
    /\ runs[r].parent = 0 /\ runs[r].opinionOf = 0 /\ runs[r].acts = "none"
    /\ \A q \in DOMAIN runs : runs[q].opinionOf # r
    /\ runs' = Append(runs, [NewRun(runs[r].agent, runs[r].kind, 0, 0) EXCEPT !.opinionOf = r])
    /\ UNCHANGED <<settingVars, runnerVars, serviceVars, finishing, acting, faults>>

runEnded(r) ==
    /\ service = "up" /\ r \in finishing
    /\ finishing' = finishing \ {r}
    /\ runs' = continueTree(runs, r)
    /\ UNCHANGED <<settingVars, runnerVars, serviceVars, acting, faults>>

hangUp ==
    /\ fault
    /\ Waiting # {}
    /\ polls' = {[p EXCEPT !.waits = FALSE] : p \in polls}
    /\ UNCHANGED <<runs, settingVars, life, greeted, work, serviceVars, finishing, acting>>

(* The web service notices, later. *)
abort(p) ==
    /\ service = "up" /\ ~p.waits /\ ~p.aborted
    /\ polls' = (polls \ {p}) \union {[p EXCEPT !.aborted = TRUE]}
    /\ UNCHANGED <<runs, settingVars, life, greeted, work, serviceVars, finishing, acting, faults>>

runnerRestarts ==
    /\ fault /\ life' = life + 1
    /\ greeted' = FALSE /\ work' = 0
    /\ polls' = {[p EXCEPT !.waits = FALSE] : p \in polls}
    /\ UNCHANGED <<runs, settingVars, serviceVars, finishing, acting>>
-----------------------------------------------------------------------------
(* People.                                                                 *)

cancelRun(r) ==
    /\ service = "up" /\ runs[r].state \in Active
    /\ runs' = endEach(runs, {r})
    /\ UNCHANGED <<settingVars, runnerVars, serviceVars, finishing, acting, faults>>

switch == service = "up" /\ fault

(* What waits is cancelled; what runs stops at its next heartbeat. *)
pauseAgent(a) ==
    /\ switch /\ a \notin pausedAgents \union gone
    /\ pausedAgents' = pausedAgents \union {a}
    /\ runs' = endEach(runs, {r \in InState(runs, "queued") : runs[r].agent = a})
    /\ UNCHANGED <<module, killed, gone, halted, forgone, runnerVars, serviceVars, finishing, acting>>

(* By a person, or by its own time. *)
resumeAgent(a) ==
    /\ service = "up" /\ a \in pausedAgents
    /\ pausedAgents' = pausedAgents \ {a}
    /\ UNCHANGED <<runs, module, killed, gone, halted, forgone, runnerVars, serviceVars, finishing, acting, faults>>

(* Its runs end while it is still there. *)
deleteAgent(a) ==
    /\ switch /\ a \notin gone
    /\ gone' = gone \union {a} /\ pausedAgents' = pausedAgents \ {a}
    /\ runs' = endEach(runs, {r \in DOMAIN runs : runs[r].agent = a})
    /\ UNCHANGED <<module, killed, halted, forgone, runnerVars, serviceVars, finishing, acting>>

pauseModule(how) ==
    /\ switch /\ module # how
    /\ module' = how
    /\ UNCHANGED <<runs, killed, pausedAgents, gone, halted, forgone, runnerVars, serviceVars, finishing, acting>>

(* After the kill switch, by the owner. *)
resumeModule ==
    /\ service = "up" /\ module # "on"
    /\ module' = "on" /\ killed' = FALSE
    /\ halted' = FALSE /\ forgone' = forgone \union (IF killed THEN DOMAIN runs ELSE {})
    /\ UNCHANGED <<runs, pausedAgents, gone, runnerVars, serviceVars, finishing, acting, faults>>

(* pausedUntil has come. *)
pauseEnds ==
    /\ module = "until"
    /\ module' = "on" /\ halted' = FALSE
    /\ UNCHANGED <<runs, killed, pausedAgents, gone, forgone, runnerVars, serviceVars, finishing, acting, faults>>

killSwitch ==
    /\ switch
    /\ module' = "paused" /\ killed' = TRUE /\ halted' = TRUE
    /\ runs' = [r \in DOMAIN runs |-> IF runs[r].state \in Active THEN [runs[r] EXCEPT !.state = "ended"] ELSE runs[r]]
    /\ UNCHANGED <<pausedAgents, gone, forgone, runnerVars, serviceVars, finishing, acting>>
-----------------------------------------------------------------------------
(* The minute's tick, and the web service stopping and starting.           *)

agedOut(R, aged) == endEach(R, aged)

minuteTick(late, aged) ==
    /\ service = "up" /\ late \union aged # {}
    /\ runs' = agedOut(expired(runs, late), aged)
    /\ UNCHANGED <<settingVars, runnerVars, serviceVars, finishing, acting, faults>>

serviceStops ==
    /\ service = "up" /\ fault
    /\ service' = "down"
    /\ polls' = {} /\ finishing' = {} /\ acting' = 0
    /\ cut' = (cut \/ finishing # {})
    /\ UNCHANGED <<runs, settingVars, life, greeted, work>>

(* Jobs under way, J, were failed before anything listened. *)
recoverAtStartup ==
    /\ service = "down"
    /\ service' = "up"
    /\ \E J \in SUBSET {r \in DOMAIN runs : runs[r].acts = "going"} :
          LET failed == [r \in DOMAIN runs |-> IF r \in J THEN [runs[r] EXCEPT !.acts = "over"] ELSE runs[r]]
          IN /\ runs' = endEach(SubSeq(failed, 1, Len(runs)), InState(runs, "running"))
             /\ cut' = (cut \/ J # {})
    /\ UNCHANGED <<settingVars, runnerVars, finishing, acting, faults>>

AgentsNext ==
    \/ \E a \in Agent : startRun(a) \/ enqueueSystem(a) \/ handoffFor(a)
    \/ actFor \/ (\E ok \in BOOLEAN : stageOperation(ok)) \/ (\E r \in DOMAIN runs : onJob(r))
    \/ runnerHello \/ startPoll
    \/ \E p \in polls, late \in SUBSET InState(runs, "running"), aged \in SUBSET InState(runs, "queued"),
          busy \in BOOLEAN : runnerNext(p, late, aged, busy)
    \/ \E p \in polls : pollOver(p) \/ cpuSet(p) \/ abort(p)
    \/ \E late \in BOOLEAN : runnerHeartbeat(late)
    \/ \E outcome \in Finished : runnerFinish(outcome)
    \/ \E r \in finishing : askSecondOpinion(r) \/ runEnded(r)
    \/ hangUp \/ runnerRestarts
    \/ \E r \in DOMAIN runs : cancelRun(r)
    \/ \E late \in SUBSET InState(runs, "running"), aged \in SUBSET InState(runs, "queued") : minuteTick(late, aged)
    \/ \E a \in Agent : pauseAgent(a) \/ resumeAgent(a) \/ deleteAgent(a)
    \/ \E how \in {"paused", "until"} : pauseModule(how)
    \/ resumeModule \/ pauseEnds \/ killSwitch
    \/ serviceStops \/ recoverAtStartup

AgentsSpec == AgentsInit /\ [][AgentsNext]_agentVars
-----------------------------------------------------------------------------
(* A run reaches a runner at most once, whatever hangs up, lapses or       *)
(* restarts: it may have acted, so it is never tried again.                *)
HandedOutOnce == \A r \in DOMAIN runs : runs[r].given <= 1

(* A follow-up reads final answers: when it is queued every hand-off has   *)
(* ended, each hand-off's own follow-up too, none comes later, and its job *)
(* is over.                                                                *)
AnswersFinal ==
    \A f \in DOMAIN runs : runs[f].kind = "continue" =>
        /\ ChildrenOf(runs, runs[f].parent, "continue") = {f}
        /\ runs[runs[f].parent].acts # "going"
        /\ \A c \in ChildrenOf(runs, runs[f].parent, "handoff") :
              /\ runs[c].state \in Finished
              /\ \A g \in ChildrenOf(runs, c, "continue") : g < f /\ runs[g].state \in Finished

Below(p) == {r \in DOMAIN runs \ {p} : \E n \in 1..MaxDepth + 3 : supervisors(runs, r)[n] = p}
(* An answered supervisor that is still there, under which all has ended. *)
Owed(p) ==
    /\ runs[p].state = "answered" /\ runs[p].agent \notin gone
    /\ ChildrenOf(runs, p, "handoff") # {} \/ runs[p].acts = "over"
    /\ runs[p].acts # "going" /\ acting # p
    /\ \A r \in Below(p) \union {p} : runs[r].state \in Finished /\ r \notin finishing

(* The follow-up of a run whose hand-offs and job have ended is not lost,  *)
(* whatever ended them and in whatever order; the kill switch forgoes it.  *)
FollowUpComes ==
    service = "up" => \A p \in DOMAIN runs : Owed(p) => runs[p].continued \/ killed \/ p \in forgone

(* The same, but for a stop between a finish and what follows it, or while *)
(* its job ran.                                                            *)
FollowUpKept == ~cut => FollowUpComes

(* From the kill switch until agents are resumed no run waits or runs: not *)
(* a follow-up, nor a run claimed or finished meanwhile.                   *)
KillHolds == halted => \A r \in DOMAIN runs : runs[r].state \notin Active

(* "After the kill switch only the owner starts agents again". *)
OnlyOwnerRestarts == killed => paused

=============================================================================
