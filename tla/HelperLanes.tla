---------------------------- MODULE HelperLanes ----------------------------
(***************************************************************************)
(* server/helper-lanes.mjs, createLaneQueues: independent FIFOs keyed by   *)
(* lane. `lanes` maps a lane to the last request that named it, while that *)
(* request is unsettled; a new request waits only for the last request on  *)
(* each lane it looks at, takes all of its lanes in one step, and keeps    *)
(* them until its task has settled and so has everything the task handed   *)
(* to holdUntil (a root unit left running past its own limit).             *)
(*                                                                         *)
(* One task identifies one call of run(). `ticket` and `clock` record the  *)
(* order of the calls; the code keeps no such record.                      *)
(***************************************************************************)
EXTENDS Naturals, Lanes

CONSTANTS Task,   \* calls of run(): requests to the helper that change the host
          NoTask  \* a lane absent from the map

ASSUME TaskAssumption == NoTask \notin Task

VARIABLES
    lanes,    \* [Lane -> Task or NoTask]: the Map
    status,   \* where each call stands
    held,     \* the lanes it named
    waitFor,  \* the requests whose settling its start awaits
    after,    \* TRUE while something given to holdUntil has not settled
    ticket,   \* its place in the order of the calls, 0 before
    clock     \* the number of calls made

laneVars == <<lanes, status, held, waitFor, after, ticket, clock>>

(* onIdle: registered, holding nothing. stopped: its waiter was withdrawn. *)
(* answered: the task settled and its answer went out, lanes still held.   *)
Status == {"new", "onIdle", "stopped", "waiting", "running", "answered", "released"}
Submitted(t) == status[t] \in {"waiting", "running", "answered", "released"}
Unreleased(t) == status[t] \in {"waiting", "running", "answered"}
Busy(t) == status[t] \in {"running", "answered"}
idleWaiters == {t \in Task : status[t] = "onIdle"}

NoneHeld(ln) == \A l \in Lane : ln[l] = NoTask

LastOn(S) == {lanes[l] : l \in S} \ {NoTask}

(* The lanes besides its own that a request must wait for. *)
across(H) ==
    (IF dockerLane \in H THEN {l \in AppLane : lanes[l] # NoTask} ELSE {})
        \union (IF H \intersect AppLane # {} THEN {dockerLane} ELSE {})

WaitsFor(H) ==
    IF exclusiveLane \in H THEN LastOn(Lane)
                           ELSE LastOn(H \union across(H) \union {exclusiveLane})

(* True when a request for these lanes would wait. *)
busy(H) ==
    IF exclusiveLane \in H THEN ~NoneHeld(lanes)
                           ELSE \E l \in H \union across(H) \union {exclusiveLane} : lanes[l] # NoTask

Take(ln, t, H) == [l \in Lane |-> IF l \in H THEN t ELSE ln[l]]
Drop(ln, t) == [l \in Lane |-> IF ln[l] = t THEN NoTask ELSE ln[l]]

LanesInit ==
    /\ lanes = [l \in Lane |-> NoTask]
    /\ status = [t \in Task |-> "new"]
    /\ held = [t \in Task |-> {}]
    /\ waitFor = [t \in Task |-> {}]
    /\ after = [t \in Task |-> FALSE]
    /\ ticket = [t \in Task |-> 0]
    /\ clock = 0

(* Mutant: the lanes are taken before what to wait for is read. *)
run_TakesFirst(t, H) ==
    /\ status[t] = "new"
    /\ status' = [status EXCEPT ![t] = "waiting"]
    /\ held' = [held EXCEPT ![t] = H]
    /\ waitFor' = [waitFor EXCEPT ![t] = WaitsFor(H) \union {t}]
    /\ lanes' = Take(lanes, t, H)
    /\ clock' = clock + 1
    /\ ticket' = [ticket EXCEPT ![t] = clock + 1]
    /\ UNCHANGED after

(* run(held, task): what it waits for is read, and its lanes are taken, in *)
(* one step.                                                               *)
run(t, H) ==
    /\ status[t] = "new"
    /\ status' = [status EXCEPT ![t] = "waiting"]
    /\ held' = [held EXCEPT ![t] = H]
    /\ waitFor' = [waitFor EXCEPT ![t] = WaitsFor(H)]
    /\ lanes' = Take(lanes, t, H)
    /\ clock' = clock + 1
    /\ ticket' = [ticket EXCEPT ![t] = clock + 1]
    /\ UNCHANGED after

(* onIdle(callback) while a lane is held: remember the callback, which     *)
(* will run() for H. With no lane held the callback runs now, and that is  *)
(* run(t, H).                                                              *)
onIdle(t, H) ==
    /\ status[t] = "new"
    /\ ~NoneHeld(lanes)
    /\ status' = [status EXCEPT ![t] = "onIdle"]
    /\ held' = [held EXCEPT ![t] = H]
    /\ UNCHANGED <<lanes, waitFor, after, ticket, clock>>

(* The function onIdle returns: stop waiting. *)
stopWaiting(t) ==
    /\ status[t] = "onIdle"
    /\ status' = [status EXCEPT ![t] = "stopped"]
    /\ UNCHANGED <<lanes, held, waitFor, after, ticket, clock>>

(* Mutant: Promise.race, the first of what it waits for is enough. *)
start_AfterFirst(t) ==
    /\ status[t] = "waiting"
    /\ waitFor[t] = {} \/ \E u \in waitFor[t] : status[u] = "released"
    /\ status' = [status EXCEPT ![t] = "running"]
    /\ UNCHANGED <<lanes, held, waitFor, after, ticket, clock>>

(* Promise.allSettled(waitFor).then(start, start) *)
start(t) ==
    /\ status[t] = "waiting"
    /\ \A u \in waitFor[t] : status[u] = "released"
    /\ status' = [status EXCEPT ![t] = "running"]
    /\ UNCHANGED <<lanes, held, waitFor, after, ticket, clock>>

(* The task hands over what it leaves running. *)
holdUntil(t) ==
    /\ status[t] = "running" /\ ~after[t]
    /\ after' = [after EXCEPT ![t] = TRUE]
    /\ UNCHANGED <<lanes, status, held, waitFor, ticket, clock>>

(* ... and that stops, or is given up on at its cap. *)
afterSettles(t) ==
    /\ after[t]
    /\ after' = [after EXCEPT ![t] = FALSE]
    /\ UNCHANGED <<lanes, status, held, waitFor, ticket, clock>>

(* The task settles, well or badly; its answer goes out now. *)
answer(t) ==
    /\ status[t] = "running"
    /\ status' = [status EXCEPT ![t] = "answered"]
    /\ UNCHANGED <<lanes, held, waitFor, after, ticket, clock>>

(* `settled` resolves: each lane it is still the last on leaves the map,   *)
(* and at the moment none is held one waiter for idleness runs its         *)
(* callback, which takes its lanes before anything else can.               *)
release(t) ==
    /\ status[t] = "answered"
    /\ ~after[t]
    /\ LET freed == Drop(lanes, t)
       IN \/ /\ ~NoneHeld(freed) \/ idleWaiters = {}
             /\ lanes' = freed
             /\ status' = [status EXCEPT ![t] = "released"]
             /\ UNCHANGED <<ticket, clock>>
          \/ \E w \in idleWaiters :
             /\ NoneHeld(freed)
             /\ lanes' = Take(freed, w, held[w])
             /\ status' = [status EXCEPT ![t] = "released", ![w] = "waiting"]
             /\ clock' = clock + 1
             /\ ticket' = [ticket EXCEPT ![w] = clock + 1]
    /\ UNCHANGED <<held, waitFor, after>>

Proceed(t) == start(t) \/ holdUntil(t) \/ afterSettles(t) \/ answer(t) \/ release(t)

LanesNext ==
    \E t \in Task :
        \/ \E H \in LaneSets : run(t, H) \/ onIdle(t, H)
        \/ stopWaiting(t)
        \/ Proceed(t)

(* Promise reactions always run; an operation has its own time limit, and  *)
(* what it leaves running is waited for at most lingerCapMs.               *)
LanesFairness ==
    \A t \in Task : WF_laneVars(start(t)) /\ WF_laneVars(afterSettles(t))
                      /\ WF_laneVars(answer(t)) /\ WF_laneVars(release(t))

LanesSafetySpec == LanesInit /\ [][LanesNext]_laneVars
LanesSpec == LanesSafetySpec /\ LanesFairness
-----------------------------------------------------------------------------
(* Every variable has its type; in particular a lane maps to a task that   *)
(* exists and a waiting set names tasks only.                              *)
LanesTypeOK ==
    /\ lanes \in [Lane -> Task \union {NoTask}]
    /\ status \in [Task -> Status]
    /\ held \in [Task -> SUBSET Lane]
    /\ waitFor \in [Task -> SUBSET Task]
    /\ after \in [Task -> BOOLEAN]
    /\ ticket \in [Task -> Nat]
    /\ clock \in Nat

Earlier(u, t) == 0 < ticket[u] /\ ticket[u] < ticket[t]

(* No two conflicting operations ever hold their lanes at the same time,   *)
(* the time an answered operation's root unit lingers included.            *)
NoConflictBeside ==
    \A t, u \in Task : t # u /\ Busy(t) /\ Busy(u) => ~Conflict(held[t], held[u])

(* First come, first served: an operation that began (or ended) was        *)
(* preceded by the end of every conflicting operation asked for before it. *)
(* The queue of a lane is only its last request, so this rests on the      *)
(* chain of waits reaching every earlier one.                              *)
NoOvertaking ==
    \A t, u \in Task :
        Earlier(u, t) /\ Conflict(held[u], held[t]) /\ status[t] \in {"running", "answered", "released"}
            => status[u] = "released"

(* Unrelated work never waits: a request awaits only requests made before  *)
(* it that conflict with it.                                               *)
WaitsOnlyForConflicts ==
    \A t \in Task : \A u \in waitFor[t] : Earlier(u, t) /\ Conflict(held[u], held[t])

(* The map is exact: the entry of a lane is the last request that named it,*)
(* while that is unsettled, and an idle helper has an empty map (what      *)
(* onIdle and size() read).                                                *)
MapIsLastRequest ==
    \A l \in Lane :
        /\ lanes[l] # NoTask => l \in held[lanes[l]] /\ Unreleased(lanes[l])
        /\ \A t \in Task : Submitted(t) /\ l \in held[t] =>
              \/ lanes[l] = NoTask /\ status[t] = "released"
              \/ lanes[l] = t
              \/ lanes[l] # NoTask /\ Earlier(t, lanes[l])

(* Taking every lane in one step leaves no cycle of waits: every request   *)
(* made is started, and its lanes are given back.                          *)
EveryRequestEnds == \A t \in Task : (status[t] = "waiting") ~> (status[t] = "released")
-----------------------------------------------------------------------------
(* The abstract lock these queues implement. *)
AbsPhase(s) ==
    CASE s \in {"new", "onIdle", "stopped"} -> "none"
      [] s = "waiting" -> "waiting"
      [] s \in {"running", "answered"} -> "busy"
      [] s = "released" -> "done"

Abs == INSTANCE LaneLock WITH phase <- [t \in Task |-> AbsPhase(status[t])]

(* The queues implement the first-come-first-served lock over subjects. *)
ImplementsLaneLock == Abs!AbsSpec
=============================================================================
