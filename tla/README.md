# BoxPilot: a TLA+ model of its helper, its jobs and what runs on them

BoxPilot manages a home server. A web service (`src/server/index.mjs`) stages, approves and
records jobs in SQLite. A root helper (`helper-server.mjs`), reached over a unix socket, executes the
operations. One-shot root units (`run-unit.mjs`) do what the helper's sandbox may not. systemd stops
and starts all of them, and BoxPilot restarts itself after updates. On top of the jobs run a scheduler,
flows, plans of agents and pushes to a phone. The code is single-threaded JavaScript in each process, so
what goes wrong goes wrong between two turns of an event loop, between processes, between a process and
its successor, or between two steps on the host of which one fails. Those places are modelled here; what
one request does by itself is left to the repository's unit tests.

All paths are relative to `src/server/` unless they start with `src/`.

## The system's parts

| Part | State it keeps | Operations | Talks to |
|---|---|---|---|
| Lane queues (`helper-lanes.mjs`) | a map from lane to its last unsettled request; waiters for idleness | `run`, `holdUntil`, `busy`, `onIdle` | called by connections and the self-restart |
| `laneFor` | none: a table | operation and parameters to lanes | called per mutation |
| Read gate (`createConcurrencyGate`) | a count and a queue | `run`, abort | called per read |
| Admission (`createAdmission`) | a count | `enter`, leave | called per mutation |
| Connections (`helper-connection.mjs`) | a socket, a heartbeat, `waiting` | parse, refuse, admit, queue, execute, reply | the client, over frames |
| Client (`helper-client.mjs`) | one call: deadlines, what it has heard | `request` | the helper |
| Self-restart (`self-restart.mjs`) | the pending restart, restarts owed | `request`, drain, give up | the lanes, systemd |
| Helper process (`helper-server.mjs`) | listening or stopping | start, stop | systemd |
| Job store (`state/jobs.mjs`) | rows, steps, approvals (SQLite) | `transitionJob`, `addJobStep`, `recoverInterruptedJobs` | everything on the web side |
| Job service (`jobs.mjs`, `timeouts.mjs`) | staged secrets and calls in progress, in memory | stage, approve, execute, resend, fail, cancel, prune, retry | the store, the client |
| Reruns (`job-reruns.mjs`) | a plan, in memory, during startup | `planInterruptedReruns`, `start` | the store, the job service |
| Scheduler (`scheduler.mjs`) | schedule rows; the jobs it started, in memory | `tick`, `onJob`, `recover`, edits | the job service, alerts |
| Flows (`flows.mjs`) | flow rows; the runs in progress, in memory | `launch`, `run`, followers, `recover` | the job service, alerts |
| Alert ledger (`health-alerts.mjs`) | announced conditions, one settings row | rounds, `raise`, `clear`, `tell` | notification targets |
| Auto-reconnect (`auto-reconnect.mjs`) | attempts and holds per drive | `onRound`, `onJob`, `recover`, arm, disarm | flows, alerts |
| Approvals from a phone (`push-approvals.mjs`) | marks and recent sends, one settings row | sweeps | the job store, devices |
| Agents (`agents/service.mjs`, `agents/store.mjs`) | runs, settings, leases | questions, hand-offs, follow-ups, the runner's long poll, pauses, the kill switch | the runner, jobs |
| Agents' plans (`agents/acting.mjs`) | plans with checkpoints | `advancePlan`, `cancelPlan`, staging | jobs, runs |
| App backups (`app-backups.mjs`, `interrupted-backups.mjs`) | archives, descriptions, markers on disk | backup, restore, restore of a path, prune, resume | Docker, the app's lane |
| App changes (`app-helper.mjs`) | `.env`, `compose.yaml`, the update history | update, going back, settings, compose edits | Docker, the registry |
| Login throttle (`login-throttle.mjs`) | a bounded table of failures | `check`, `record` | the sign-in routes |

What is hard in it:

- *interleaving*: mutations on shared subjects (an app, the Docker daemon, the backup tree) must not
  overlap, while unrelated ones must; two people approve the same job; a person acts on a schedule, a
  flow, a plan or an agent while one of its awaits is open; several callers advance one plan, and several
  sweeps read the same marks;
- *ordering*: progress frames, replies and the closing of a connection arrive at a client whose
  deadline is running; a job ends before the record that it started is written; a hand-off's answer comes
  before its second opinion;
- *crashes*: either process ends at any step. Rows and files survive, secrets, calls and runs in progress
  do not, a root unit outlives the helper that started it, and an app a backup stopped stays down;
- *timeouts and retries*: a timed-out operation may still be at work; a refused one is sent again; a run
  whose lease lapsed may have reached its runner;
- *partial failure*: every file operation and Docker call of a backup, a restore or an update may fail
  after the ones before it took effect, and so may the steps that undo them;
- *limits*: admission, the read gate, the scheduler's memory, one rerun per job, reconnects per day, pushes
  per hour.

## Modules

```
 Lanes -- LaneLock                                    (the abstract lock)
   \        ^  implemented by (proved)
    +-- HelperLanes ----------+------------------------+
                              |                        |
                              + LaneFor                + clients, connections, restarts
                              = LanedOperations        = HelperService
                                        \                /  |
                                        HelperProofs ---+   |  implements (proved)
                                                            v
 ReadGate -- HelperProofs         HelperContractProofs -- HelperContract
                                                            |  extended by
                                                            v
                                              JobsProofs -- Jobs
                                                            |  implements (proved)
                                                            v
        Cadence + Scheduler, FlowRuns, AgentPlans, PushApprovals extend JobLife

 Scheduler -- SchedulerProofs              AgentPlans -- AgentPlansProofs
 FlowRuns, AgentRuns -- AutomationProofs
 AppBackups, AppChanges -- AppsProofs
 AlertLedger -- AutoReconnect --+
                PushApprovals --+-- NotificationsProofs
```

Two abstractions carry the composition. `HelperContract` is what a caller may rely on of a request to the
helper; HelperService implements it and Jobs is built on it. `JobLife` is the life of one job row as the
rest of the web service sees it; Jobs implements it, and the scheduler, flows, plans and pushes are built
on it. So a behaviour of, say, a flow is checked against every job the job service can produce, without
the job service's own state.

**Lanes, HelperLanes** (`createLaneQueues`). A task is one call of `run()`; its `status` follows the
call from new through waiting and running to answered (the reply went out) and released (the promise
`settled` resolved). `lanes` is the `Map`; `waitFor` is the argument of `Promise.allSettled`. `run`
reads what to wait for and takes every lane in one step, because the code does so in one turn.
`release` contains the whole reaction: dropping the lanes it is still last on, and `noticeIdle`
letting the first waiter take its lanes before anything else can. `after` is what was handed to
`holdUntil`. `ticket` and `clock` record the order of the calls so that properties can speak of it.

**LaneLock**. What the queues promise: a lock over sets of subjects, first come, first served, where
two requests conflict when they share a lane, when one is exclusive, or when one restarts Docker and
the other works on an app. It has no map and no waiting sets.

**LaneFor, LanedOperations**. `laneFor`'s table as operators, and the lane queues run with the lanes it
answers. The properties here do not mention lanes: they say what operations *touch* on the host
(`appsTouched`, `writesBackupTree`, `takesDockerAway`), which is what the lanes are for.

**ReadGate** (`createConcurrencyGate`). `leave` is the `finally` clause with `next()` inside it; a read
let in from the queue is counted at once but goes on a turn later (`letIn`), and its caller may go in
between. `limit` and `waiting` are called `readLimit` and `waitingReads`, apart from the admission's.

**HelperService**. One request from `Connect` to its reply, over the lanes of HelperLanes: what a
client hears and when its deadlines fire (`helper-client.mjs`), refusal, admission, queueing, the
turn with its two checks, the answer (`helper-connection.mjs`), a restart that waits for an idle
moment, joins another, gives up, fails or is owed (`self-restart.mjs`), the helper's stop, its death
and its return (`helper-server.mjs`), and the web service's death. Each end learns that the other has
gone some time after it went. The admission counter is the set of its holders. `executed` and `needed`
are records the code does not keep; `needed` and `unfinished` die with the process, as the code's
memory does.

**HelperContract**. What all of that promises a caller about one request, without lanes, limits or
restarts: where a request may stand, which frames may be on their way, and which answers say that
nothing ran.

**Jobs** (`jobs.mjs`, `state/jobs.mjs`, `job-reruns.mjs`, `timeouts.mjs`) extends the contract, so
the helper in it is exactly what HelperService is proved to implement. A job's first request is
`<<j, 1>>`, its resend `<<j, 2>>`. An approval is two steps, `checkApproval` up to the await of the
approval hook and `grantApproval` or `refuseApproval` after it. `exec` is where `executePrepared`
stands between two awaits; each of its steps is one action. `webDies` drops what is in memory;
`recoverInterruptedJobs` and `planInterruptedReruns` are the startup of `index.mjs`, with an await
between them at which the process may die again. `hostWork` and `laneHeld` are the work on the host
and the lane it holds, which outlive a timeout.

**JobLife**. A row awaits approval, is withdrawn, is active, completes or fails; the startup after a stop
fails every active row and labels it cut off or never started, and an outcome is final. It is an abstract
specification with no executor, helper, secrets or steps.

**Cadence, Scheduler** (`scheduler.mjs`, `state/schedules-flows.mjs`). `computeNextRun` works on a small
calendar (minutes in an hour, hours in a day, days in a week are constants) and is compared with a
reference, the soonest time that matches. A round (`round`) carries the list of due schedules that `tick`
read across its awaits; `begin`, `stage`, `approve` and `markStarted` are the turns of `runDue` between
them, each with its failure. The bounded map of started jobs is `remember`. `onJob` runs in the turn the
job's ending is emitted in. Who tells of an interrupted job, the scheduler's `recover` or the others'
`tellInterrupted`, is `others`. Which job was for which due time, who approved by hand and what was told
are records.

**FlowRuns** (`flows.mjs`). One run per flow at most is in memory (`run`), with the step it is at, its
attempts and the jobs so far; every await of `run` is a boundary between actions: staging, approval,
waiting for the job, losing sight of it, a retry, the next step. Followers are started when a run
completes, in any order, down to `ChainLimit`. `checkTrigger` refuses loops. `resumePoint` is split
into the facts it reads: the job of the stopped step, whether it began, where to go on from. A *story* is
a run together with its continuations after stops, a record, as is what is still at work on the host.

**AlertLedger, AutoReconnect** (`health-alerts.mjs`, `auto-reconnect.mjs`). The ledger is one settings row
behind `exclusive`, a queue of calls; a call reads the row, awaits a send which may be refused, and writes
the row back. A round's snapshot of measured conditions is taken before its turn. AutoReconnect listens to
rounds for one drive: it refuses, tells once, or counts an attempt, starts the owner's flow and settles
it; arming, disarming, a remount by hand and `recover` at startup change the same record.

**AgentRuns** (`agents/service.mjs`, `agents/store.mjs`, `agents/orchestrator.mjs`, `agents/runner.mjs`).
A run is queued, handed out with a lease, and finished, cancelled, expired or dropped; it may have handed
work to other agents or staged jobs, whose ends let its supervisor go on as a *follow-up* run. The runner
polls (`polls`), and the web service claims a run for it, awaits setting its processors and only then
answers; the runner may hang up or restart at any point. `runnerFinish` writes the finish and `runEnded`
is a later step. Time is left open: a lease or a pause ends at any step, and a run that waits too long is
dropped by `minuteTick` (the code's `tick`) at any step. A module switched off and a module paused are one
state. The guard that a supervisor takes at most 23 turns is left out: the bounds on parts are reached long
before. A stop of the web service and what it is doing are `serviceStops` and `service` here, apart from the
flows' `stop` and `web`, since one module proves about both.

**AgentPlans** (`agents/acting.mjs`). One plan of operations and checks. `advancing` is the set in memory
that keeps a second `advancePlan` out; an advance (`advs`) is where one call stands between awaits. `cut`
records steps whose staging a stop interrupted, `stepOf` which step a job was staged for.

**AppBackups** (`app-backups.mjs`, `interrupted-backups.mjs`). One app, the folder it runs from, the
displaced folder, archives (numbered by the operation that made them), partial archives, descriptions and
markers. Every file operation and Docker call is a step that may fail; the helper or the power may go
between any two. Docker may not answer when asked whether the app runs. A restore takes a safety copy,
stops, displaces, swaps, carries over what backups leave out, starts and settles. The sweep of partial
files at the helper's start is part of `helperStarts`; a prune is one step, and so is the placing of a
restored path. `original` and `told` are records.

**PushApprovals** (`push-approvals.mjs`). A sweep reads marks and sends, decides what is due, a copy or
skipped, awaits its sends and writes the row. Time is left open, as the comment on the module says.
`pushes` and `cut` are records.

**AppChanges** (`app-helper.mjs`). An app and its sidecars. An image is a tag and the build the registry had
under it; a reference in `compose.yaml` is a tag, a tag with its digest, an image id, or the owner's own
image. A change passes the phases env, compose, pull or check, up, settle, and on failure restore, pin or
putBack, upAgain; each step may fail or be cut off. The backup taken before a change is AppBackups'
subject; config files shipped with an app, and the pruning of images by id, are left out. `Answers` says
for which containers Docker answers when asked. `ran` and `said` are records.

The `MC*` modules give the constants their values; the definitions called `<operation>_<Bug>` in the
modules are faulty variants of the operation below them, used to make sure that each property can
fail.

## Runs

Every run passes; each asks one question of one part or composition.

| Run | Instance | Checks |
|---|---|---|
| `operations` | 3 requests, each any of 11 kinds with the lanes `laneFor` answers; waiters for idleness | two operations never work on one app (`OneOperationPerApp`), the backup tree or Docker (`SharedPartsStayStill`); the queues implement `LaneLock`; every request starts and gives its lanes back |
| `read_gate` | 5 reads, 2 places, 2 waiting | an abandoned read never starts; none waits for good |
| `helper` | 2 mutations, 2 restarts, admission limits 1 and 2 | admission is exact; a restart cuts nothing off and is not forgotten; HelperService implements `HelperContract` |
| `jobs` | 1 job staged by a person and one row more for a retry or a rerun, 2 approvers; an operation with a secret and a root task | one run per approval, never with a placeholder; no retry beside what a timeout left running; a job cut off is rerun once or told of; Jobs implements `JobLife`; approved jobs end |
| `scheduler` | 2 schedules, 3 jobs, memory of 2, time to 4, 2 stops, 1 edit | the next run is the soonest; no overlap and one job per due time; ends recorded, failures told; nothing stays due |
| `flow_runs` | 2 flows, 3 jobs, chain limit 2, 2 stories, 1 stop, 1 edit | one step at a time; only failed steps are repeated across a stop; a run that says running ends or goes on |
| `reconnect` | 1 drive, 2 armings, 1 notice kept, cooldown 1, 2 attempts in a window of 3, time to 2, 1 restart, 1 change, 3 drops | no condition is lost or announced twice; reconnects stay in their limits and do not follow a failure |
| `agent_runs` | 3 agents two hand-offs deep, 1 question, 2 hand-offs or jobs, 1 fault (a stop, a hang-up, a runner's restart or a switch) | follow-ups read final answers and are kept; the kill switch holds; a run is handed out once |
| `agent_plans` | operation, check, operation; 3 jobs, 2 advances, 1 stop, 2 touches by people | staged once and in order; an ended plan stays ended; a plan ends |
| `app_backups` | 3 operations, 1 archive kept, 1 write, 1 crash, 1 act by hand; any number of failing steps | listed archives are sound; a restore loses nothing; the app comes back up or is said to be down |
| `push_approvals` | 2 copies of a job, 2 sweeps, 1 push an hour, 1 stop, 1 edit | pushed once; nothing that waits is overlooked |
| `app_changes` | an app and a sidecar, 3 tags, 3 changes, 2 faults (a failed or cut-off step, or a tag pushed again) | what a change says it left is what runs and what the files describe; going back is exact |

**Why these bounds.** The lane hazards need a chain: a request that waits for a second that waits for a
third, with a lane taken over in the middle, hence three tasks; the eleven requests include one of every
kind of conflict (exclusive, Docker against app, a shared lane, two shared lanes) and pairs that do not
conflict. `helper` needs two mutations that conflict and two restarts, so that one can give up or fail
and leave units owed to the next; a limit of 1 turns one away. `jobs` needs two approvers for one approval
and a second row for the retry or the rerun of the first, and for a would-be rerun of a rerun: crashes of
either service are not bounded there, nor in `helper`. At these bounds no operation of the run is marked
`rerunAfterInterrupt` or `restartsService`: what is rerun is what recovery says never started. The scheduler
needs a third job so that the memory of two forgets one, and the second stop to cut off a recovery. A flow
needs two steps, a retry and a stop for a resume to be one too far or one too near, and two stories for a
run beside its follower. A wrong reconnect needs a failed or cut-off one before it and a window to leave.
An early follow-up takes a hand-off that hands on, hence two parts and three agents. A plan needs an
operation before and after its check. Three app operations are a backup, the restore of it with its safety
copy, and one that finds what those left, while the one archive kept makes every prune bite. Three changes
are two updates and a step back, or an update, its failure and the next. The clock's bounds (`MaxTime`)
and the counts of stops, edits and faults are in the guards; every bound is named in the module that
uses it. Only `helper` declares a symmetry (its two restarts); its refinement is a safety property and
its properties name no particular restart. Deadlock checking is off: every instance has finitely many
requests, reads, jobs or changes, and may end with all of them over.

**Fairness.** `operations` and `read_gate`: promise reactions run, an operation settles (it has a time
limit), what it leaves running settles or is given up at its cap (`run-unit.mjs`). No fairness on clients or
aborts. `jobs`: the job service's own steps and the recovery at startup, which systemd brings about
(`Restart=on-failure` in `src/deploy/boxpilot.service`; after a deliberate stop, whoever stopped it); nothing
of the helper or of people: `ApprovedJobEnds` holds even if the helper never answers, because every wait on
it has a deadline. `scheduler`: the minute timer, the steps of a round, startup. `flow_runs`: the steps of a
run (each wait for a job has a deadline) and startup. `agent_plans`: the tick that advances plans, the steps
of an advance, the day a plan may last, startup; nothing of its jobs or checks. `app_backups`: the helper's
own steps only; nothing of Docker, whose calls may all fail. `push_approvals`: startup, time, sends that give
up after 15 seconds; sweeps are strongly fair, because their interval is far shorter than quiet hours, the
gap between pushes or the hour that holds them back. `helper`, `reconnect`, `agent_runs` and `app_changes`
check safety only and assume no fairness.

## What is proved

TLAPS checks these for every value of the constants: any requests, jobs, schedules, drives, callers, limits
and bounds, under the `ASSUME`s named in the modules, which TLC evaluates in the runs. Each theorem follows
from an inductive invariant, and each of those was checked by TLC on the part's run before it was proved.

| Module | Theorem | Property of a run it states |
|---|---|---|
| HelperProofs | `MutualExclusion`, `FirstComeFirstServed`, `UnrelatedWorkNeverWaits`, `MapExact` | |
| | `Refinement`, `OperationsKeepLock` | `ImplementsLaneLock` |
| | `OneOperationOnAnApp`, `SharedPartsAreStill` | `OneOperationPerApp`, `SharedPartsStayStill` |
| | `SlotsAreExact` | `AdmissionExact` |
| | `RestartIsOwed`, `RestartCutsNothingOff` | `RestartOwed`, `RestartCutsNothing` |
| | `ServiceKeepsContract`, `ServiceAnswersTruly` | `KeepsContract` |
| | `GateCounts`, `GateNeverIdle`, `GateQueueExact`, `GateDropsAbandoned` | `AbandonedNeverStarts` |
| HelperContractProofs | `RefusalIsFinal`, `AnswerIsEarned` | |
| JobsProofs | `ApprovedRunsOnce`, `NothingRunsInPart` | `OneRunPerApproval`, `RunsWhole` |
| | `RestartAnsweredOnce`, `RetryAlone` | `InterruptedIsAnswered`, `RetryNeverBeside` |
| | `JobsKeepLife` | `KeepsJobLife` |
| SchedulerProofs | `SoonestNext`, `RunsNeverDouble`, `EndsAreTold` | `NextRunIsSoonest`, `NeverRunsDouble`, `EndIsTold` |
| AgentPlansProofs | `StagedOnceInOrder`, `EndedStays` | `StagedInOrder`, `EndedPlanStays` |
| AutomationProofs | `OneStep`, `OnlyFailuresRepeat` | `OneStepAtATime`, `RepeatsOnlyFailures` |
| | `OnceHandedOut`, `FinalWhenRead` | `HandedOutOnce`, `AnswersFinal` |
| | `KillStands`, `FollowUpsCome` | `KillHolds`, `FollowUpKept` |
| AppsProofs | `ListedSound`, `NothingLost` | `ListedIsSound`, `RestoreLosesNothing` |
| | `SaysTrue`, `GoesBackExactly` | `SaidIsTrue`, `GoBackIsExact` |
| NotificationsProofs | `ApprovalPushedOnce` | `PushedOnce` |
| | `StandingIsKept`, `ToldOnce` | `ConditionsStand`, `AnnouncedOnce` |
| | `ReconnectsKeepLimits` | `WithinLimits` |

Each module proves its component's type invariant as well.

**HelperProofs**, the lanes. `LanesInv` conjoins the type, the exactness of the map (`MapIsLastRequest`),
facts on the order of the calls (`Tickets`, `NamedLanes`) and on the waits (`NoEarlyWait`,
`WaitsOnlyForConflicts`, `Chain`). Mutual exclusion by itself is not inductive: a request waits only for the
*last* request on each lane, so that an earlier holder is done follows only from the order. The argument: of
two conflicting requests the later either waits for the earlier, or waits for one between the two that itself
had to wait; the map's entry is always the last, so the chain never skips. The lemmas `SubjectLanesCover`,
`LanesCoverApps` and `DockerLaneHeld` then say that the lanes `laneFor` answers cover what an operation
touches, whatever the requests are, so that two operations beside each other share no app, no backup tree and
no Docker. They rest on `RequestsAssumption`: no request is `app.update.available`, whose lanes do not cover
the apps it updates (see the table of statements below).

**HelperProofs**, the process. `SvcInv` adds to `LanesInv` the connections (`ConnInv`: where a request stands
on its connection agrees with where it stands in the lanes), the slots, and the restarts (`RestartInv`: one
that waits or runs has the exclusive lane, and whatever is owed is in its hands or recorded as unfinished). A
slot is left only with its operation, which is why the set of holders stays exact through every answer, lost
client, stop and crash; `RestartCutsNothingOff` needs the exclusion of the lanes, since what waits for
idleness holds the exclusive lane when it restarts. Every step of clients and helper maps to a step of
`HelperContract` or to a stutter (`StepsKeepPromise`); `ServiceAnswersTruly` carries the contract's own
theorems over to the service, through that refinement.

**HelperContractProofs**. `ContractInv` ties each frame on its way and each outcome to where the request
stands and whether it ran; neither `RefusedNeverRuns` nor `AnsweredDidRun` is inductive without it, because
the answer exists as a frame before it is an outcome. `RefusalIsFinal` is what the job service's resend rests
on.

**HelperProofs**, the read gate. The type, the exact count, no idle place and the exact queue need each other: that the
read at the head of the queue was not already counted is the queue's exactness, and the count's exactness is
what lets `next()` not pass the limit (`GateAssumption`, which the code enforces by throwing).

**JobsProofs**. `JobsInv` holds beside `ContractInv` of the requests. It says of each `exec` state what the
row and the requests must then be, of each job that it is sent only once approved, sent again only after an
answer that says nothing was done, and runs with its secrets or not at all. So an approval is at most one run
on the host, although the resend, the rerun and the retry each send again; `RetryAlone` takes in addition that
what still works on the host holds its lane (`HostInv`), and `RestartAnsweredOnce` that what recovery labelled
is in somebody's hands and is run again at most once (`RerunInv`). `JobsKeepLife` maps every step to a step of
`JobLife`: this is what lets the scheduler, the flows, the plans and the pushes be checked and proved over
`JobLife` alone.

**SchedulerProofs**. For any calendar (`CalendarAssumption`: positive numbers of minutes, hours and days),
that `computeNextRun` answers the soonest matching time after now is a matter of division with remainder; the
lemmas are about those. The state invariant is in layers: `RowInv` (which job is whose), `RunInv` (what a
round that stands between two awaits may still do: a row is handed to one `runDue`, and what it read of it is
what the row is, or the row has moved on), `DueInv` (due times only grow, so that a due time once served is
not served again), `MemoryInv`, `HearInv` and `ToldInv` (a started job is in memory, in the row, or in
recovery's hands until its end is told). `SchedulerAssumption` says there are finitely many schedules, as a
table has.

**AgentPlansProofs**. `OneAdvance`: one call of `advancePlan` is under way, and none outlives the process.
`StagingInv`: a call that is staging has read the plan as it is, or the plan has ended since; its step has no
job yet. `OrderInv`: everything before the cursor succeeded, and a job that was staged for a step is in the
row, in the hands of the one call that stages, or of a plan that ended, unless a stop cut its staging. Without
the second, a call that awaits could write its step over what another did. `EndedStays` rests on the condition
of `savePlan`.

**AutomationProofs**, the flows. For any flows, versions of their steps, limits and stops. `FlowsInv` rests on two views of
a story's jobs: `RunOK`, what the run in memory knows of them (which step is whose job; that the only job of its
step that may not be repeated is the one it approves or waits for; that nothing else of its own is at work), and
`RowOK`, what the record alone knows, which is all that `resumePoint` has after a stop: its last job is that of
the step it names, and no other job of the story is unsettled. Neither property is inductive without both, since
a run that goes on after a restart takes its step and its jobs from the record. `JobsOK` numbers the jobs in the
order they are staged, so that the next job is fresh, and keeps a story to one flow. `FlowsAssumption` says that
there are finitely many flows, as a table has: the followers of a run are a list of them.

**AutomationProofs**, the agents' queue. For any agents, depths, budgets and numbers of parts. What ends a run
folds over lists: up its supervisors (`supervisors`, `continueTree`), over the runs ended together (`endEach`),
over the queue (`claim`). The folds are functions over `1..n`; that each has a value in its set at every index
is `FoldExists`, and that what every step keeps holds at the end is `Climb`, both from the least index at which
it would fail. `AgentsInv` has three parts. `Rest`: the settings, and one poll for each claimed run. `RowsOK`:
each row comes after its parent, a follow-up has no children, a hand-off is no deeper than the limit, and a
follow-up was queued only when all it reads was settled. `Pointed`: what is pointed at is what it should be; a
claimed run was given to nobody, the run being acted for is an unanswered root, and after the kill switch
nothing is active. `HandedOutOnce`, `AnswersFinal` and `KillHolds` follow from it.

`FollowUpKept` takes `FollowUpsInv` beside it: a run that may be followed up and is not is forgone, or `Owing`:
some run under it goes on, or has ended and its end is not followed up yet; what the kill switch forgoes is
every row there was. A step that ends a run must then look at every supervisor above it. That
it does is the chain lemmas: the climb reaches every run above the one that ended, since no chain is longer
than the depth allows (`ChainEnds`, `Visits`), and at each it queues what may be queued (`TreeQueues`,
`TreePays`). Where many runs end in one step (a deleted agent, questions too old), `Unsettled` argues from the
last row upwards.

**AppsProofs**, backups. For any number of operations, archives kept, crashes and failing steps. `BackupsInv`
says of each phase of a backup and of a restore where the app's files are and what each archive, description
and marker holds, so that from any phase a crash leaves the app's data in its folder, in the displaced folder
or in the safety copy.

**AppsProofs**, changes. For any services, versions, pushed tags and failing steps. `ChangesInv` says of each
place a change can be at what it has written (`.env`, then `compose.yaml`) and what the containers are made
of, and that it still holds what puts them back: the files of before, or the images it saw running, which
every service is pinned to. `SaysTrue` assumes `AnswersWhole`: Docker answers for all the containers of an app
or not for its own. Without it the claim is false of the code, as the table below shows; the type and
`GoesBackExactly` do not need it. `BackInv` says each digest in the history is, beside its tag, one of an image
that ran, which is why going back does not depend on what the registry has since then.

**NotificationsProofs** (three components that keep one settings row each). Pushes: `SweepInv` has one sweep
at a time, and `WriteInv` says that what it is about to write loses no mark; every push of a job beyond one is
then one that a stop left unwritten. Ledger: a call works on the row it read, because `exclusive` lets one
call in; from that alone what stands is never dropped and nothing is announced twice. Auto-reconnect:
`DriveInv` says every run started in the window is among the counted attempts; an attempt is counted before
its flow starts, so one that a stop cuts off is counted too, and the limit on the counter is a limit on runs
(an injection from runs to attempts).

The remaining assumptions keep the values that stand for "nothing" apart from jobs, folders and sweeps
(`NoneAssumption`, `NoSweepAssumption`, `TaskAssumption` and parts of the others) and say that limits and
bounds are numbers.

### Only model-checked

Every liveness property: fairness and ENABLED are outside what the prover handles. No module uses a
RECURSIVE operator.

## Statements of the repository the code does not keep

Met while modelling. Each is a definition in its module, or a constant to change, with which TLC shows a
behaviour of the model; no run checks them, because the code is what is modelled.

| Statement | What the code does | To see it: an INVARIANT to add to the part's run |
|---|---|---|
| "two operations on the same app never do" (work in parallel), `helper-lanes.mjs:6` | `app.update.available` names no app, so `laneFor` (`helper-lanes.mjs:42`) gives an operation that updates every app only the backup tree's lane | `OneOperationPerApp`, with a request `Req("app.update.available", {})` added to `Ordinary` |
| "A job whose last word from the helper was that it waited behind earlier work never began", `state/jobs.mjs:213` | the helper may have started it with the "started" frame unread; it is recorded as never started and may be run again | `Jobs.NeverStartedIsTrue` |
| "After the kill switch only the owner starts agents again", `agents/service.mjs:2132` | a pause until a time laid over the kill switch ends by the clock (`agents/service.mjs:2736`) | `AgentRuns.OnlyOwnerRestarts`, two faults |
| "a supervisor whose hand-offs have all ended gets its follow-up", `agents/service.mjs:565` | a stop between a kept finish and `runEnded` loses the follow-up: startup looks only at runs that were going (`agents/service.mjs:2715`) | `AgentRuns.FollowUpComes` |
| "what waits on a person is withdrawn, and nothing more is staged", `agents/acting.mjs:341` | a plan stopped inside the await of `stageOperation` (`agents/acting.mjs:264`) stages that step's job after its stop | `AgentPlans.StoppedStagesNothing` |
| "Plans carry on from their last checkpoint: nothing about them was only in memory", `agents/service.mjs:2721` | a stop between a step's job and its checkpoint (`agents/acting.mjs:270`) stages the step a second time | `AgentPlans.CarriedOutOnce` |
| "Consistent backup of an app's managed data: stop, tar ...", `app-backups.mjs:250` | when Docker does not answer, the app reads as not running (`app-helper.mjs:223`), is not stopped, and may write while it is archived | `AppBackups.ConsistentBackups` |
| "Said with the failure: a start that did not work left the app down while the job spoke only of tar", `app-backups.mjs:334` | a failed start and then a failed description (a full disk fails both) is reported as the latter only (`app-backups.mjs:344`) | `AppBackups.DownIsSaid` |
| "Kept quiet: one push per job, ever", `push-approvals.mjs:17` | marks are written after the sends (`push-approvals.mjs:340`): a stop in between pushes again | `PushApprovals.OnePushEver` |
| "a later copy of one already pushed is quiet", `push-approvals.mjs:307` | a job marked skipped or held also silences its copies (`push-approvals.mjs:309`); when it is answered nobody hears of them | `PushApprovals.CopyOfPushed` |
| "Rolling back only the app image would leave the new database refusing the old data directory, while the rollback reported success", `app-helper.mjs:1183` | a sidecar Docker did not answer for is left out of what is put back (`app-helper.mjs:1188`), and the job says the previous image was restored | `AppChanges.SaidIsTrue` with `Answers <- MCAnyAnswers` |
| "nothing else can be deployed this way", `ops/apps.mjs:321` | going back leaves a service the undone update did not move at the catalog's image of today (`app-helper.mjs:1298`) | `AppChanges.NothingElseDeployed`, a PROPERTY |
| "so going back is a click", `app-helper.mjs:1223` | after a failed update the app is pinned by image id; the next update records that id, which going back refuses (`app-helper.mjs:1240`, `1284`) | `AppChanges.WayBack` |
| "What is running right now, read from the deployed compose file", `app-helper.mjs:1196` | a change cut off before `compose up` leaves the file ahead of the containers, and the next update records a version that never ran | `AppChanges.HistoryRan` |

## Known gaps of the properties

Behaviours of the code that the properties above leave out by name, or that no property states:

- a second stop while startup awaits forgets the jobs the first had cut off (`index.mjs:331`); `forgotten`
  in Jobs and Scheduler;
- a person who approves a job inside `approveAndStart`'s await: the scheduler, the flow or the plan counts it
  as not started, and its end is nobody's to tell (`scheduler.mjs:295`, `flows.mjs:554`,
  `agents/acting.mjs:118`); `byHand`;
- a resumed flow run counts a step that could not start as skipped (`flows.mjs:865`, against 484-485);
  a flow deleted in the middle of a run that then fails raises an alert nobody clears (`flows.mjs:403`);
  `chainLimit` counts ancestors only;
- a round's snapshot taken before a reconnect clears its condition announces it again
  (`health-alerts.mjs:291`); two drives may reconnect across two rounds (`auto-reconnect.mjs:182-183`); a
  disarm and a new arming during a reconnect, and then a restart, forget the attempt;
- a client whose queue deadline fires as the helper takes its turn is told of a timeout while its operation
  runs (`helper-connection.mjs:97`); it is not told that nothing ran;
- a lease that ends in the very millisecond of the read is live to one query and lapsed to another
  (`agents/store.mjs:433`); a follow-up may hand work to an agent it was not offered
  (`agents/service.mjs:691`, `1441`);
- a restore cut off after its stop leaves the app down with no marker; an owner's stop while a cut-off
  backup waits to be resumed is undone; what the app writes between the safety copy and the restore's stop is
  lost; a partial archive left by a failed description stays until the helper's next start; a restored path's
  `.previous` is lost if the placing is cut off;
- a settings change after going back moves the app to the catalog's version again; one whose project write
  fails leaves the new `.env` beside the old `compose.yaml` (`app-helper.mjs:1394`); an update's swallowed
  failure to restore the files still says they are unchanged.

## Left out of the modelled parts

- Who may approve: roles, passwords, elevation and typed confirmations decide whether a caller reaches
  `checkApproval` and change no job. An approval that needs a person is a field of the operation.
- One-time results (`takeOneTime`), `dismissFailure`, `pruneHistory`, audit rows, job log files.
- What a record hook writes; that it may fail is modelled.
- The frame reader's parsing and size limits, and heartbeats after the first queued frame, which
  the client ignores.
- `helperBack` polls the socket until the helper answers; here it is one step that may or may not happen,
  so the second send may still meet a helper that has gone again.
- Reads and mutations share only the connection limit, so ReadGate stands alone.
- The clock of requests: each time limit may run out at any step, which allows more than a real clock does.
- Of the scheduler: `chooseQuietSlot`, daylight saving, the checks `create` makes of an operation. Of flows:
  the validation of steps, values passed between them, webhook tokens and their rate limit.
- Of alerts: what makes a condition hold (`evaluateHealth`), quiet hours' wording, the history.
- Of agents: the model gateway, prompts and tools, memory, chat, connectors, evaluation and index runs, the
  module's own budget.
- Of apps: install, uninstall and reinstall, verification, mirrors and cloud copies, how a compose file is
  rendered.

## Not modelled

The login throttle and identity, virtual machines, controller backups and machine snapshots, root tasks, the
catalog, the routes, the web interface and the harness are listed in `PROJECT.json` with the reason. Most of
the repository's lines are of these kinds: views, manifests and sequences of host commands, whose
correctness is in what one command does to one host and not in an order of steps. That is why the modelled
lines, although they are most of the control of the job core, are a small share of the whole.

## Plan

Every safety invariant and action property the runs check is a theorem; what is left is the components not
modelled yet, the login throttle first.
