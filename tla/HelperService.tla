--------------------------- MODULE HelperService ---------------------------
(***************************************************************************)
(* The root helper as one process: connections (helper-connection.mjs),    *)
(* the admission counter and the lane queues (helper-lanes.mjs), BoxPilot's *)
(* drained restart of itself (self-restart.mjs), the helper's stop and     *)
(* start (helper-server.mjs), and at the other end of each connection the  *)
(* web service's client with its deadlines (helper-client.mjs).            *)
(*                                                                         *)
(* A request is one mutation sent once. Frames travel in order on its      *)
(* connection; each end notices that the other has gone some time after it *)
(* went. Heartbeats repeat the queued frame, which the client ignores once *)
(* it has heard one, and are left out.                                     *)
(***************************************************************************)
EXTENDS HelperLanes, Sequences, FiniteSets

CONSTANTS Req,          \* mutations the web service sends
          RestartTask,  \* restarts BoxPilot may make of itself
          LanesOf,      \* [Req -> LaneSets]: laneFor's answer for each
          Limits        \* the limits createAdmission may be given

ASSUME ServiceAssumption ==
    /\ Task = Req \union RestartTask /\ Req \intersect RestartTask = {}
    /\ LanesOf \in [Req -> LaneSets] /\ {exclusiveLane} \in LaneSets
    /\ Limits \subseteq Nat \ {0}

Units == {"web", "helper"}

VARIABLES
    client,      \* the web side's send(): "idle", "sent", "settled"
    heard,       \* the last frame it heard: "none", "queued", "started"
    outcome,     \* how send() settled
    inbox,       \* frames on their way to the client
    conn,        \* the helper's end: "none", "open", "handled", "ended", "closed"
    peerGone,    \* the helper has seen that the client went
    willWait,    \* the request was told it is queued
    waiting,     \* mutations waiting in a lane, not yet started
    refused,     \* answered while it waited: it must not start
    admitted,    \* holders of an admission slot
    executed,    \* execute(request) was begun (a record; the code has none)
    limit,       \* how many mutations this helper holds at once
    helper,      \* "up", "stopping", "down"
    restarting,  \* the helper turns mutations away
    pending,     \* the restart that later requests join
    entryUnits,  \* the units each restart is for
    unfinished,  \* units a restart that gave up or failed still owes
    needed       \* units asked for since this helper started and not restarted (a record)

connVars == <<conn, peerGone, willWait, waiting, refused, admitted, executed>>
clientVars == <<client, heard, outcome, inbox>>
restartVars == <<limit, helper, restarting, pending, entryUnits, unfinished, needed>>
svcVars == <<laneVars, connVars, clientVars, restartVars>>

Outcome == {"none", "ok", "failed", "busy", "restarting", "unavailable", "closed",
            "timeoutQueued", "timeoutRunning", "lost"}

SvcInit ==
    /\ LanesInit
    /\ client = [t \in Req |-> "idle"]
    /\ heard = [t \in Req |-> "none"]
    /\ outcome = [t \in Req |-> "none"]
    /\ inbox = [t \in Req |-> <<>>]
    /\ conn = [t \in Req |-> "none"]
    /\ peerGone = [t \in Req |-> FALSE]
    /\ willWait = [t \in Req |-> FALSE]
    /\ waiting = {} /\ refused = {} /\ admitted = {} /\ executed = {}
    /\ limit \in Limits
    /\ helper = "up" /\ restarting = FALSE
    /\ pending = NoTask
    /\ entryUnits = [r \in RestartTask |-> {}]
    /\ unfinished = {} /\ needed = {}
-----------------------------------------------------------------------------
(* The client: helper-client.mjs send().                                   *)

Settle(t, how) ==
    /\ client' = [client EXCEPT ![t] = "settled"]
    /\ outcome' = [outcome EXCEPT ![t] = how]

(* Connect and write the request; a helper that is not there ran nothing.  *)
Connect(t) ==
    /\ client[t] = "idle"
    /\ \/ /\ helper = "up"
          /\ client' = [client EXCEPT ![t] = "sent"]
          /\ conn' = [conn EXCEPT ![t] = "open"]
          /\ UNCHANGED outcome
       \/ /\ helper # "up"
          /\ Settle(t, "unavailable")
          /\ UNCHANGED conn
    /\ UNCHANGED <<laneVars, restartVars, heard, inbox, peerGone, willWait, waiting, refused, admitted, executed>>

(* A frame or the reply arrives. *)
Deliver(t) ==
    /\ client[t] = "sent" /\ inbox[t] # <<>>
    /\ inbox' = [inbox EXCEPT ![t] = Tail(@)]
    /\ LET frame == Head(inbox[t])
       IN \/ /\ frame = "queued"
             /\ heard' = [heard EXCEPT ![t] = IF @ = "none" THEN "queued" ELSE @]
             /\ UNCHANGED <<client, outcome>>
          \/ /\ frame = "started"
             /\ heard' = [heard EXCEPT ![t] = "started"]
             /\ UNCHANGED <<client, outcome>>
          \/ /\ frame \notin {"queued", "started"}
             /\ Settle(t, frame) /\ UNCHANGED heard
    /\ UNCHANGED <<laneVars, connVars, restartVars>>

(* The deadline or the idle timer runs out; the socket is destroyed. *)
Deadline(t) ==
    /\ client[t] = "sent"
    /\ Settle(t, IF heard[t] = "queued" THEN "timeoutQueued" ELSE "timeoutRunning")
    /\ UNCHANGED <<laneVars, connVars, restartVars, heard, inbox>>

(* The connection closed and no reply is left to read. *)
SeeClose(t) ==
    /\ client[t] = "sent" /\ conn[t] = "closed" /\ inbox[t] = <<>>
    /\ Settle(t, "closed")
    /\ UNCHANGED <<laneVars, connVars, restartVars, heard, inbox>>

(* The helper's socket learns that the client has gone. *)
SeePeerGone(t) ==
    /\ client[t] = "settled" /\ conn[t] \in {"open", "handled"} /\ ~peerGone[t]
    /\ peerGone' = [peerGone EXCEPT ![t] = TRUE]
    /\ UNCHANGED <<laneVars, restartVars, clientVars, conn, willWait, waiting, refused, admitted, executed>>
-----------------------------------------------------------------------------
(* The connection: helper-connection.mjs respond(), for a mutation.        *)

(* reply(): only if the peer is still there; the connection ends with it.  *)
Reply(S, frame) ==
    /\ inbox' = [t \in Req |-> IF t \in S /\ ~peerGone[t] THEN Append(inbox[t], frame) ELSE inbox[t]]
    /\ conn' = [t \in Req |-> IF t \in S THEN "ended" ELSE conn[t]]

Alive == helper # "down"

(* Turned away at once: the helper restarts, or it holds its limit. *)
TurnAway(t) ==
    /\ Alive /\ conn[t] = "open" /\ client[t] # "idle"
    /\ restarting \/ Cardinality(admitted) >= limit
    /\ Reply({t}, IF restarting THEN "restarting" ELSE "busy")
    /\ UNCHANGED <<laneVars, restartVars, client, heard, outcome, peerGone, willWait, waiting, refused, admitted, executed>>

(* Mutant: one mutation more than the limit is let in. *)
Admit_OneTooMany(t) ==
    /\ Alive /\ conn[t] = "open" /\ ~restarting
    /\ Cardinality(admitted) =< limit
    /\ admitted' = admitted \union {t}
    /\ conn' = [conn EXCEPT ![t] = "handled"]
    /\ willWait' = [willWait EXCEPT ![t] = busy(LanesOf[t])]
    /\ inbox' = [inbox EXCEPT ![t] = IF busy(LanesOf[t]) /\ ~peerGone[t] THEN Append(@, "queued") ELSE @]
    /\ waiting' = waiting \union {t}
    /\ run(t, LanesOf[t])
    /\ UNCHANGED <<restartVars, client, heard, outcome, peerGone, refused, executed>>

(* Admitted: told it is queued when its lanes are busy, and queued. *)
Admit(t) ==
    /\ Alive /\ conn[t] = "open" /\ ~restarting
    /\ Cardinality(admitted) < limit
    /\ admitted' = admitted \union {t}
    /\ conn' = [conn EXCEPT ![t] = "handled"]
    /\ willWait' = [willWait EXCEPT ![t] = busy(LanesOf[t])]
    /\ inbox' = [inbox EXCEPT ![t] = IF busy(LanesOf[t]) /\ ~peerGone[t] THEN Append(@, "queued") ELSE @]
    /\ waiting' = waiting \union {t}
    /\ run(t, LanesOf[t])
    /\ UNCHANGED <<restartVars, client, heard, outcome, peerGone, refused, executed>>

(* Mutant: a request refused while it waited runs all the same. *)
Begin_ForgetsRefusal(t) ==
    /\ Alive /\ t \in Req
    /\ start(t)
    /\ waiting' = waiting \ {t}
    /\ executed' = IF ~peerGone[t] THEN executed \union {t} ELSE executed
    /\ inbox' = inbox
    /\ UNCHANGED <<restartVars, client, heard, outcome, conn, peerGone, willWait, refused, admitted>>

(* Its turn: it runs, unless it was refused or the caller has gone. *)
Begin(t) ==
    /\ Alive /\ t \in Req
    /\ start(t)
    /\ waiting' = waiting \ {t}
    /\ LET runs == t \notin refused /\ ~peerGone[t]
       IN /\ executed' = IF runs THEN executed \union {t} ELSE executed
          /\ inbox' = [inbox EXCEPT ![t] = IF runs /\ willWait[t] THEN Append(@, "started") ELSE @]
    /\ UNCHANGED <<restartVars, client, heard, outcome, conn, peerGone, willWait, refused, admitted>>

(* The task settles: the slot is left and the answer goes out. What it     *)
(* left running may keep the lanes.                                        *)
Finish(t, how) ==
    /\ Alive /\ t \in Req
    /\ t \notin executed => how = "failed"
    /\ answer(t)
    /\ admitted' = admitted \ {t}
    /\ IF conn[t] = "handled" THEN Reply({t}, how) ELSE UNCHANGED <<inbox, conn>>
    /\ UNCHANGED <<restartVars, client, heard, outcome, peerGone, willWait, waiting, refused, executed>>

Linger(t) ==
    /\ Alive /\ t \in executed
    /\ holdUntil(t) /\ UNCHANGED <<connVars, clientVars, restartVars>>

(* The connection was silent past the operation's budget and its grace:    *)
(* the helper destroys it and the operation carries on.                    *)
IdleOut(t) ==
    /\ Alive /\ t \in executed /\ status[t] = "running" /\ conn[t] = "handled"
    /\ conn' = [conn EXCEPT ![t] = "closed"]
    /\ UNCHANGED <<laneVars, clientVars, restartVars, peerGone, willWait, waiting, refused, admitted, executed>>

LingerEnds(t) == afterSettles(t) /\ UNCHANGED <<connVars, clientVars, restartVars>>

GiveBack(t) == Alive /\ release(t) /\ UNCHANGED <<connVars, clientVars, restartVars>>
-----------------------------------------------------------------------------
(* BoxPilot restarting itself: self-restart.mjs createDrainedRestart.      *)

(* Mutant: the restart holds the host's lane, not every lane. *)
RestartLanes_Host == {"host"}

(* What a restart holds from the idle moment on. *)
RestartLanes == {exclusiveLane}

(* An operation asks for a restart of units: joins the one pending, or     *)
(* waits for an idle moment holding nothing. What is owed goes with it.    *)
RequestRestart(t, units) ==
    /\ Alive /\ t \in executed /\ status[t] = "running"
    /\ needed' = needed \union units
    /\ \/ /\ pending # NoTask
          /\ entryUnits' = [entryUnits EXCEPT ![pending] = @ \union units]
          /\ UNCHANGED <<laneVars, pending>>
       \/ /\ pending = NoTask
          /\ \E r \in RestartTask :
                /\ onIdle(r, RestartLanes)
                /\ pending' = r
                /\ entryUnits' = [entryUnits EXCEPT ![r] = units \union unfinished]
    /\ UNCHANGED <<connVars, clientVars, limit, helper, restarting, unfinished>>

(* Mutant: a restart given up on is only logged. *)
GiveUp_OnlyLogged(r) ==
    /\ Alive
    /\ stopWaiting(r)
    /\ pending' = IF pending = r THEN NoTask ELSE pending
    /\ UNCHANGED <<connVars, clientVars, limit, helper, restarting, entryUnits, unfinished, needed>>

(* Never idle for maxWaitMs. *)
GiveUp(r) ==
    /\ Alive
    /\ stopWaiting(r)
    /\ pending' = IF pending = r THEN NoTask ELSE pending
    /\ unfinished' = unfinished \union entryUnits[r]
    /\ UNCHANGED <<connVars, clientVars, limit, helper, restarting, entryUnits, needed>>

(* The exclusive lane is its own: what waits is refused, and what arrives  *)
(* is turned away.                                                         *)
BeginRestart(r) ==
    /\ Alive /\ r \in RestartTask
    /\ start(r)
    /\ restarting' = TRUE
    /\ Reply(waiting, "restarting")
    /\ refused' = refused \union waiting
    /\ waiting' = {}
    /\ UNCHANGED <<client, heard, outcome, peerGone, willWait, admitted, executed, limit, helper, pending, entryUnits, unfinished, needed>>

(* The moment of grace has passed: later requests begin a restart of their *)
(* own.                                                                    *)
GraceOver(r) ==
    /\ Alive /\ r \in RestartTask /\ status[r] = "running" /\ pending = r
    /\ pending' = NoTask
    /\ UNCHANGED <<laneVars, connVars, clientVars, limit, helper, restarting, entryUnits, unfinished, needed>>

(* Everything in the helper's memory goes with the process. *)
LoseHelper ==
    /\ helper' = "down"
    /\ lanes' = [l \in Lane |-> NoTask]
    /\ status' = [t \in Task |-> IF Unreleased(t) THEN "released" ELSE IF status[t] = "onIdle" THEN "stopped" ELSE status[t]]
    /\ conn' = [t \in Req |-> IF conn[t] = "none" THEN "none" ELSE "closed"]
    /\ waiting' = {} /\ refused' = {} /\ admitted' = {}
    /\ restarting' = FALSE /\ pending' = NoTask /\ unfinished' = {}
    /\ after' = [t \in Task |-> FALSE]
    /\ UNCHANGED <<held, waitFor, ticket, clock, peerGone, willWait, executed, limit, entryUnits>>

(* The web service goes: nothing it sent is listened to any more. *)
LoseClients ==
    /\ client' = [t \in Req |-> IF client[t] = "sent" THEN "settled" ELSE client[t]]
    /\ outcome' = [t \in Req |-> IF client[t] = "sent" THEN "lost" ELSE outcome[t]]

(* systemd restarts the units. A restart of the helper ends this process.  *)
RestartHelper(r) ==
    /\ Alive /\ r \in RestartTask /\ status[r] = "running" /\ pending # r /\ "helper" \in entryUnits[r]
    /\ LoseHelper
    /\ IF "web" \in entryUnits[r] THEN LoseClients ELSE UNCHANGED <<client, outcome>>
    /\ needed' = needed \ entryUnits[r]
    /\ UNCHANGED <<heard, inbox>>

(* A restart of the web service alone, or one that failed, returns here.   *)
RestartReturns(r, ok) ==
    /\ Alive /\ r \in RestartTask /\ status[r] = "running" /\ pending # r
    /\ ok => entryUnits[r] = {"web"}
    /\ answer(r)
    /\ restarting' = FALSE
    /\ IF ok
       THEN /\ LoseClients
            /\ unfinished' = unfinished \ entryUnits[r]
            /\ needed' = needed \ entryUnits[r]
       ELSE /\ unfinished' = unfinished \union entryUnits[r]
            /\ UNCHANGED <<client, outcome, needed>>
    /\ UNCHANGED <<connVars, heard, inbox, limit, helper, pending, entryUnits>>
-----------------------------------------------------------------------------
(* helper-server.mjs: shutdown() on SIGTERM. What runs drains, what waits  *)
(* is refused, and no connection is taken; the process ends when the last  *)
(* connection does, or systemd kills it.                                   *)
Stop ==
    /\ helper = "up"
    /\ helper' = "stopping"
    /\ Reply(waiting, "restarting")
    /\ refused' = refused \union waiting
    /\ waiting' = {}
    /\ UNCHANGED <<laneVars, client, heard, outcome, peerGone, willWait, admitted, executed, limit, restarting, pending, entryUnits, unfinished, needed>>

Die ==
    /\ Alive
    /\ LoseHelper
    /\ needed' = {}
    /\ UNCHANGED clientVars

Up ==
    /\ helper = "down"
    /\ helper' = "up"
    /\ UNCHANGED <<laneVars, connVars, clientVars, limit, restarting, pending, entryUnits, unfinished, needed>>

WebDies ==
    /\ \E t \in Req : client[t] = "sent"
    /\ LoseClients
    /\ UNCHANGED <<laneVars, connVars, restartVars, heard, inbox>>

ClientStep(t) == Deliver(t) \/ Deadline(t) \/ SeeClose(t)

HelperStep(t) ==
    \/ SeePeerGone(t) \/ TurnAway(t) \/ Admit(t) \/ Begin(t)
    \/ \E how \in {"ok", "failed"} : Finish(t, how)
    \/ Linger(t) \/ IdleOut(t)

SvcNext ==
    \/ \E t \in Req : Connect(t) \/ ClientStep(t) \/ HelperStep(t)
    \/ \E t \in Req, units \in {{"web"}, {"web", "helper"}} : RequestRestart(t, units)
    \/ \E r \in RestartTask :
          \/ GiveUp(r) \/ BeginRestart(r) \/ GraceOver(r) \/ RestartHelper(r)
          \/ \E ok \in BOOLEAN : RestartReturns(r, ok)
    \/ \E t \in Task : LingerEnds(t) \/ GiveBack(t)
    \/ Stop \/ Die \/ Up \/ WebDies

SvcSpec == SvcInit /\ [][SvcNext]_svcVars
-----------------------------------------------------------------------------
(* BoxPilot's own restart cuts nothing off: from the moment it begins, no  *)
(* operation runs and no root unit one left behind lingers.                *)
RestartCutsNothing ==
    restarting => \A t \in Req : Busy(t) => t \notin executed

(* Admission slots are exact, on every path out: one for each mutation     *)
(* waiting or running in this helper, none for any other, within the limit.*)
AdmissionExact ==
    /\ admitted = {t \in Req : status[t] \in {"waiting", "running"}}
    /\ Cardinality(admitted) =< limit

(* A restart asked for is never forgotten while the helper lives: what is  *)
(* needed is in the pending restart, in the one under way, or owed.        *)
RestartOwed ==
    needed \subseteq unfinished \union
        UNION {entryUnits[r] : r \in {q \in RestartTask : status[q] \in {"onIdle", "waiting", "running"}}}

(* A request as the contract names it: its place, whether it waits and was *)
(* told so, and what reaches a caller that still listens.                  *)
Place(t) ==
    IF conn[t] = "none" THEN "none"
    ELSE IF conn[t] = "open" THEN "arrived"
    ELSE IF t \in waiting THEN "queued"
    ELSE IF t \in executed /\ status[t] = "running" THEN "running" ELSE "over"

Told(t) == t \in waiting /\ willWait[t]
Heard(t) == IF client[t] = "sent" THEN heard[t] ELSE "none"
Inbox(t) == IF client[t] = "sent" THEN inbox[t] ELSE <<>>

Promised == INSTANCE HelperContract
    WITH place <- [t \in Req |-> Place(t)], ran <- executed,
         told <- [t \in Req |-> Told(t)],
         heard <- [t \in Req |-> Heard(t)],
         inbox <- [t \in Req |-> Inbox(t)]

(* The whole service keeps the helper's contract with its callers, which   *)
(* is all the job service relies on.                                       *)
KeepsContract == Promised!Contract
=============================================================================
