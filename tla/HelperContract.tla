--------------------------- MODULE HelperContract ---------------------------
(***************************************************************************)
(* What the root helper promises one caller about each request, whatever   *)
(* its lanes, limits and restarts do: the interface the job service is     *)
(* written against. HelperService is shown to implement it; Jobs is built  *)
(* on it.                                                                  *)
(***************************************************************************)
EXTENDS Naturals, Sequences

CONSTANT Req

VARIABLES
    client,   \* the caller's send(): "idle", "sent", "settled"
    heard,    \* the last progress frame it heard
    outcome,  \* how send() settled
    inbox,    \* frames on their way to a caller that still listens
    place,    \* the request at the helper: "none", "arrived", "queued", "running", "over"
    told,     \* it waits, and was told so
    ran       \* requests the helper has begun to execute

callVars == <<client, heard, outcome, inbox>>
placeVars == <<place, told, ran>>
contractVars == <<callVars, placeVars>>

(* Answers that say nothing was done, and answers of something that ran.   *)
NotStarted == {"restarting", "busy", "unavailable"}
Answer == {"ok", "failed", "stepTimeout", "leftRunning"}
Outcome == NotStarted \union Answer
             \union {"none", "closed", "timeoutQueued", "timeoutRunning", "lost"}
Frame == {"queued", "started", "restarting", "busy"} \union Answer

ContractInit ==
    /\ client = [r \in Req |-> "idle"]
    /\ heard = [r \in Req |-> "none"]
    /\ outcome = [r \in Req |-> "none"]
    /\ inbox = [r \in Req |-> <<>>]
    /\ place = [r \in Req |-> "none"]
    /\ told = [r \in Req |-> FALSE]
    /\ ran = {}

(* A caller that has settled listens to nothing more. *)
Settle(r, how) ==
    /\ client' = [client EXCEPT ![r] = "settled"]
    /\ outcome' = [outcome EXCEPT ![r] = how]
    /\ heard' = [heard EXCEPT ![r] = "none"]
    /\ inbox' = [inbox EXCEPT ![r] = <<>>]

Say(S, frame) ==
    inbox' = [r \in Req |-> IF r \in S /\ client[r] = "sent" THEN Append(inbox[r], frame) ELSE inbox[r]]

To(S, where) ==
    /\ place' = [r \in Req |-> IF r \in S THEN where ELSE place[r]]
    /\ told' = [r \in Req |-> told[r] /\ r \notin S]
-----------------------------------------------------------------------------
(* The caller's side. *)

Send(r) ==
    /\ client[r] = "idle"
    /\ client' = [client EXCEPT ![r] = "sent"]
    /\ To({r}, "arrived")
    /\ UNCHANGED <<heard, outcome, inbox, ran>>

NobodyThere(r) ==
    /\ client[r] = "idle"
    /\ Settle(r, "unavailable")
    /\ UNCHANGED placeVars

HearQueued(r) ==
    /\ client[r] = "sent" /\ inbox[r] # <<>> /\ Head(inbox[r]) = "queued"
    /\ inbox' = [inbox EXCEPT ![r] = Tail(@)]
    /\ heard' = [heard EXCEPT ![r] = IF @ = "none" THEN "queued" ELSE @]
    /\ UNCHANGED <<client, outcome, placeVars>>

HearStarted(r) ==
    /\ client[r] = "sent" /\ inbox[r] # <<>> /\ Head(inbox[r]) = "started"
    /\ inbox' = [inbox EXCEPT ![r] = Tail(@)]
    /\ heard' = [heard EXCEPT ![r] = "started"]
    /\ UNCHANGED <<client, outcome, placeVars>>

HearReply(r) ==
    /\ client[r] = "sent" /\ inbox[r] # <<>> /\ Head(inbox[r]) \notin {"queued", "started"}
    /\ Settle(r, Head(inbox[r]))
    /\ UNCHANGED placeVars

(* A deadline ran out: by what was heard, in the queue or running. *)
TimeOut(r) ==
    /\ client[r] = "sent"
    /\ Settle(r, IF heard[r] = "queued" THEN "timeoutQueued" ELSE "timeoutRunning")
    /\ UNCHANGED placeVars

(* The connection closed with no reply on it. *)
LoseConnection(r) ==
    /\ client[r] = "sent" /\ inbox[r] = <<>>
    /\ Settle(r, "closed")
    /\ UNCHANGED placeVars

(* Every caller's process ended. *)
CallersLost ==
    /\ client' = [r \in Req |-> IF client[r] = "sent" THEN "settled" ELSE client[r]]
    /\ outcome' = [r \in Req |-> IF client[r] = "sent" THEN "lost" ELSE outcome[r]]
    /\ heard' = [r \in Req |-> "none"]
    /\ inbox' = [r \in Req |-> <<>>]
-----------------------------------------------------------------------------
(* The helper's side. *)

TurnAway(r, why) ==
    /\ place[r] = "arrived"
    /\ To({r}, "over") /\ Say({r}, why)
    /\ UNCHANGED <<client, heard, outcome, ran>>

Accept(r) ==
    /\ place[r] = "arrived"
    /\ place' = [place EXCEPT ![r] = "queued"]
    /\ \/ told' = [told EXCEPT ![r] = TRUE] /\ Say({r}, "queued")
       \/ UNCHANGED <<told, inbox>>
    /\ UNCHANGED <<client, heard, outcome, ran>>

(* It runs, though the caller may have gone a moment ago. *)
Start(r) ==
    /\ place[r] = "queued"
    /\ To({r}, "running") /\ ran' = ran \union {r}
    /\ IF told[r] THEN Say({r}, "started") ELSE UNCHANGED inbox
    /\ UNCHANGED <<client, heard, outcome>>

(* The caller gave up while it waited, and the helper saw: it does not run.*)
Abandon(r) ==
    /\ place[r] = "queued" /\ client[r] = "settled"
    /\ To({r}, "over")
    /\ UNCHANGED <<callVars, ran>>

(* A restart or a stop answers what has not begun. *)
Refuse(S) ==
    /\ \A r \in S : place[r] = "queued"
    /\ To(S, "over") /\ Say(S, "restarting")
    /\ UNCHANGED <<client, heard, outcome, ran>>

(* The connection may have been given up on before the reply. *)
Finish(r, how) ==
    /\ place[r] = "running"
    /\ To({r}, "over")
    /\ Say({r}, how) \/ UNCHANGED inbox
    /\ UNCHANGED <<client, heard, outcome, ran>>

HelperLost == To({r \in Req : place[r] # "none"}, "over")

HelperDies == HelperLost /\ UNCHANGED <<callVars, ran>>

CallersDie == CallersLost /\ UNCHANGED placeVars

BothDie == HelperLost /\ CallersLost /\ UNCHANGED ran

ContractNext ==
    \/ \E r \in Req :
          \/ Send(r) \/ NobodyThere(r)
          \/ HearQueued(r) \/ HearStarted(r) \/ HearReply(r)
          \/ TimeOut(r) \/ LoseConnection(r)
          \/ Accept(r) \/ Start(r) \/ Abandon(r)
          \/ \E why \in {"restarting", "busy"} : TurnAway(r, why)
          \/ \E how \in Answer : Finish(r, how)
    \/ \E S \in SUBSET Req : Refuse(S)
    \/ HelperDies \/ CallersDie \/ BothDie

Contract == ContractInit /\ [][ContractNext]_contractVars
-----------------------------------------------------------------------------
(* The contract's variables have their types. *)
ContractTypeOK ==
    /\ client \in [Req -> {"idle", "sent", "settled"}]
    /\ heard \in [Req -> {"none", "queued", "started"}]
    /\ outcome \in [Req -> Outcome]
    /\ inbox \in [Req -> Seq(Frame)]
    /\ place \in [Req -> {"none", "arrived", "queued", "running", "over"}]
    /\ told \in [Req -> BOOLEAN]
    /\ ran \subseteq Req

(* An answer that says nothing was done is true, and stays true: the       *)
(* request did not run before it and is never run after it, so it may be   *)
(* sent again.                                                             *)
RefusedNeverRuns == \A r \in Req : outcome[r] \in NotStarted => r \notin ran

(* What ran is answered as something that ran: an operation's own answer   *)
(* is given only for a request that was executed.                          *)
AnsweredDidRun == \A r \in Req : outcome[r] \in Answer => r \in ran

(* The inductive strengthening of both: what is in the inbox and where the *)
(* request stands agree with what has run.                                 *)
ContractInv ==
    \A r \in Req :
       /\ place[r] \in {"none", "arrived", "queued"} => r \notin ran
       /\ place[r] = "running" => r \in ran
       /\ client[r] = "idle" => place[r] = "none"
       /\ client[r] # "sent" => inbox[r] = <<>>
       /\ client[r] # "settled" => outcome[r] = "none"
       /\ \A i \in 1..Len(inbox[r]) :
             /\ inbox[r][i] \in NotStarted => place[r] = "over" /\ r \notin ran
             /\ inbox[r][i] \in Answer => place[r] = "over" /\ r \in ran
       /\ outcome[r] \in NotStarted => place[r] \in {"none", "over"} /\ r \notin ran
       /\ outcome[r] \in Answer => place[r] = "over" /\ r \in ran
=============================================================================
