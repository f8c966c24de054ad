------------------------ MODULE HelperContractProofs ------------------------
(***************************************************************************)
(* The helper's contract, for any set of requests: it is well typed, and   *)
(* what a caller is told about a request agrees with whether it ran.       *)
(***************************************************************************)
EXTENDS HelperContract, TLAPS

Inv == ContractTypeOK /\ ContractInv

(* Frames taken from an inbox, or put at its end, and what they were.      *)
LEMMA TailFrames ==
    ASSUME NEW s \in Seq(Frame), s # <<>>
    PROVE  /\ Tail(s) \in Seq(Frame) /\ Head(s) \in Frame
           /\ Len(s) \in Nat /\ 1 \in 1..Len(s) /\ Head(s) = s[1]
           /\ \A i \in 1..Len(Tail(s)) : i + 1 \in 1..Len(s) /\ Tail(s)[i] = s[i + 1]
  OBVIOUS

LEMMA AppendFrames ==
    ASSUME NEW s \in Seq(Frame), NEW f \in Frame
    PROVE  /\ Append(s, f) \in Seq(Frame)
           /\ \A i \in 1..Len(Append(s, f)) :
                 \/ i \in 1..Len(s) /\ Append(s, f)[i] = s[i]
                 \/ Append(s, f)[i] = f
  OBVIOUS

(* The helper's frame reaches a caller that still listens, and no other.   *)
LEMMA SayFrames ==
    ASSUME Inv, NEW S \in SUBSET Req, NEW f \in Frame, Say(S, f)
    PROVE  /\ inbox' \in [Req -> Seq(Frame)]
           /\ \A r \in Req : client[r] # "sent" => inbox'[r] = inbox[r]
           /\ \A r \in Req \ S : inbox'[r] = inbox[r]
           /\ \A r \in S : \A i \in 1..Len(inbox'[r]) :
                 \/ i \in 1..Len(inbox[r]) /\ inbox'[r][i] = inbox[r][i]
                 \/ inbox'[r][i] = f
<1>1. \A r \in Req : inbox[r] \in Seq(Frame)
  BY DEF Inv, ContractTypeOK
<1>2. \A r \in Req : Append(inbox[r], f) \in Seq(Frame)
  BY <1>1, AppendFrames
<1>3. \A r \in Req : inbox'[r] = IF r \in S /\ client[r] = "sent" THEN Append(inbox[r], f) ELSE inbox[r]
  BY DEF Say
<1>4. inbox' \in [Req -> Seq(Frame)]
  BY <1>1, <1>2 DEF Say
<1>5. ASSUME NEW r \in S, NEW i \in 1..Len(inbox'[r])
      PROVE  \/ i \in 1..Len(inbox[r]) /\ inbox'[r][i] = inbox[r][i]
             \/ inbox'[r][i] = f
  <2>1. CASE client[r] = "sent"
    <3>1. inbox'[r] = Append(inbox[r], f) /\ inbox[r] \in Seq(Frame)
      BY <2>1, <1>1, <1>3
    <3>2. i \in 1..Len(Append(inbox[r], f))
      BY <3>1, <1>5
    <3> QED BY <3>1, <3>2, AppendFrames
  <2>2. CASE client[r] # "sent"
    BY <2>2, <1>3, <1>5
  <2> QED BY <2>1, <2>2
<1> QED BY <1>3, <1>4, <1>5

LEMMA ContractInitInv == ContractInit => Inv
BY DEF ContractInit, Inv, ContractTypeOK, ContractInv, Outcome, NotStarted, Answer, Frame

(* A caller that settles leaves its request where it is, with an outcome   *)
(* that agrees with where that is.                                         *)
LEMMA SettleInv ==
    ASSUME Inv, NEW r \in Req, NEW how \in Outcome, Settle(r, how), UNCHANGED placeVars,
           how \in NotStarted => place[r] \in {"none", "over"} /\ r \notin ran,
           how \in Answer => place[r] = "over" /\ r \in ran
    PROVE  Inv'
<1>1. ContractTypeOK'
  BY DEF Inv, ContractTypeOK, Settle, placeVars
<1>2. ContractInv'
  BY DEF Inv, ContractTypeOK, ContractInv, Settle, placeVars
<1> QED BY <1>1, <1>2 DEF Inv

(* A progress frame read from the inbox. *)
LEMMA ProgressInv ==
    ASSUME Inv, NEW r \in Req, NEW h \in {"none", "queued", "started"},
           inbox[r] # <<>>, client[r] = "sent",
           inbox' = [inbox EXCEPT ![r] = Tail(@)], heard' = [heard EXCEPT ![r] = h],
           UNCHANGED <<client, outcome, placeVars>>
    PROVE  Inv'
<1>1. inbox[r] \in Seq(Frame)
  BY DEF Inv, ContractTypeOK
<1>2. ContractTypeOK'
  BY <1>1, TailFrames DEF Inv, ContractTypeOK, placeVars
<1>3. \A i \in 1..Len(inbox'[r]) : \E k \in 1..Len(inbox[r]) : inbox'[r][i] = inbox[r][k]
  BY <1>1, TailFrames DEF Inv, ContractTypeOK
<1>4. ContractInv'
  BY <1>3 DEF Inv, ContractTypeOK, ContractInv, placeVars
<1> QED BY <1>2, <1>4 DEF Inv

(* Requests the helper is done with, and the frame that says so. *)
LEMMA OverInv ==
    ASSUME Inv, NEW S \in SUBSET Req, NEW f \in {"restarting", "busy"} \union Answer,
           To(S, "over"), Say(S, f), UNCHANGED <<client, heard, outcome, ran>>,
           f \in NotStarted => \A r \in S : place[r] \in {"arrived", "queued"},
           f \in Answer => \A r \in S : place[r] = "running"
    PROVE  Inv'
<1> f \in Frame /\ (f \in NotStarted <=> f \notin Answer)
  BY DEF Frame, NotStarted, Answer
<1>1. ContractTypeOK'
  BY SayFrames DEF Inv, ContractTypeOK, To
<1>2. ContractInv'
  <2> SUFFICES ASSUME NEW r \in Req
               PROVE  ContractInv!(r)'
    BY DEF ContractInv
  <2>1. CASE r \notin S
    <3>1. inbox'[r] = inbox[r] /\ place'[r] = place[r]
      BY <2>1, SayFrames DEF Inv, ContractTypeOK, To
    <3> QED BY <3>1 DEF Inv, ContractTypeOK, ContractInv
  <2>2. CASE r \in S
    <3>1. place'[r] = "over" /\ client[r] # "idle"
      BY <2>2 DEF Inv, ContractTypeOK, ContractInv, To
    <3>2. client[r] # "sent" => inbox'[r] = inbox[r]
      BY SayFrames
    <3>3. \A i \in 1..Len(inbox'[r]) :
             /\ inbox'[r][i] \in NotStarted => r \notin ran
             /\ inbox'[r][i] \in Answer => r \in ran
      <4> SUFFICES ASSUME NEW i \in 1..Len(inbox'[r])
                   PROVE  /\ inbox'[r][i] \in NotStarted => r \notin ran
                          /\ inbox'[r][i] \in Answer => r \in ran
        OBVIOUS
      <4>1. CASE i \in 1..Len(inbox[r]) /\ inbox'[r][i] = inbox[r][i]
        BY <4>1 DEF Inv, ContractInv
      <4>2. CASE inbox'[r][i] = f
        BY <2>2, <4>2 DEF Inv, ContractInv
      <4> QED BY <2>2, <4>1, <4>2, SayFrames
    <3> QED BY <3>1, <3>2, <3>3 DEF Inv, ContractTypeOK, ContractInv
  <2> QED BY <2>1, <2>2
<1> QED BY <1>1, <1>2 DEF Inv

(* The helper is gone: nothing it held is anywhere any more. *)
LEMMA LostInv ==
    ASSUME Inv, HelperLost \/ UNCHANGED <<place, told>>, CallersLost \/ UNCHANGED callVars, UNCHANGED ran
    PROVE  Inv'
<1>1. /\ place' \in [Req -> {"none", "arrived", "queued", "running", "over"}]
      /\ told' \in [Req -> BOOLEAN]
      /\ \A r \in Req : place'[r] = place[r] \/ (place'[r] = "over" /\ place[r] # "none")
  <2>1. CASE HelperLost
    BY <2>1 DEF Inv, ContractTypeOK, HelperLost, To
  <2>2. CASE UNCHANGED <<place, told>>
    BY <2>2 DEF Inv, ContractTypeOK
  <2> QED BY <2>1, <2>2
<1>2. /\ client' \in [Req -> {"idle", "sent", "settled"}]
      /\ heard' \in [Req -> {"none", "queued", "started"}]
      /\ outcome' \in [Req -> Outcome] /\ inbox' \in [Req -> Seq(Frame)]
      /\ \A r \in Req :
            \/ client'[r] = client[r] /\ outcome'[r] = outcome[r] /\ inbox'[r] \in {inbox[r], <<>>}
            \/ client[r] = "sent" /\ client'[r] = "settled" /\ outcome'[r] = "lost" /\ inbox'[r] = <<>>
  <2>1. CASE CallersLost
    BY <2>1 DEF Inv, ContractTypeOK, CallersLost, Outcome
  <2>2. CASE UNCHANGED callVars
    BY <2>2 DEF Inv, ContractTypeOK, callVars
  <2> QED BY <2>1, <2>2
<1>3. ContractTypeOK'
  BY <1>1, <1>2 DEF Inv, ContractTypeOK
<1>4. ContractInv'
  <2> SUFFICES ASSUME NEW r \in Req
               PROVE  ContractInv!(r)'
    BY DEF ContractInv
  <2>1. ContractInv!(r)
    BY DEF Inv, ContractInv
  <2>2. CASE client'[r] = client[r] /\ outcome'[r] = outcome[r] /\ inbox'[r] \in {inbox[r], <<>>}
    BY <1>1, <2>1, <2>2
  <2>3. CASE client[r] = "sent" /\ client'[r] = "settled" /\ outcome'[r] = "lost" /\ inbox'[r] = <<>>
    BY <1>1, <2>1, <2>3 DEF NotStarted, Answer
  <2> QED BY <1>2, <2>2, <2>3
<1> QED BY <1>3, <1>4 DEF Inv
-----------------------------------------------------------------------------
(* Every step of the caller, of the helper, and of their ends keeps it.    *)
LEMMA ContractNextInv == Inv /\ [ContractNext]_contractVars => Inv'
<1> SUFFICES ASSUME Inv, [ContractNext]_contractVars
             PROVE  Inv'
  OBVIOUS
<1>1. ASSUME NEW r \in Req, Send(r)
      PROVE  Inv'
  <2>1. ContractTypeOK'
    BY <1>1 DEF Send, To, Inv, ContractTypeOK
  <2>2. /\ \A q \in Req : place'[q] = IF q = r THEN "arrived" ELSE place[q]
        /\ \A q \in Req : client'[q] = IF q = r THEN "sent" ELSE client[q]
        /\ client[r] = "idle" /\ UNCHANGED <<outcome, inbox, ran>>
    BY <1>1 DEF Send, To, Inv, ContractTypeOK
  <2>3. place[r] = "none" /\ inbox[r] = <<>> /\ outcome[r] = "none"
    BY <1>1 DEF Send, Inv, ContractInv
  <2>4. ContractInv'
    BY <2>2, <2>3 DEF Inv, ContractInv, NotStarted, Answer
  <2> QED BY <2>1, <2>4 DEF Inv
<1>2. ASSUME NEW r \in Req, NobodyThere(r)
      PROVE  Inv'
  <2>1. place[r] = "none" /\ r \notin ran
    BY <1>2 DEF NobodyThere, Inv, ContractInv
  <2> QED BY <1>2, <2>1, SettleInv DEF NobodyThere, Outcome, NotStarted, Answer
<1>3. ASSUME NEW r \in Req, HearQueued(r)
      PROVE  Inv'
  <2> DEFINE h == IF heard[r] = "none" THEN "queued" ELSE heard[r]
  <2>1. h \in {"none", "queued", "started"} /\ heard' = [heard EXCEPT ![r] = h]
    BY <1>3 DEF HearQueued, Inv, ContractTypeOK
  <2> HIDE DEF h
  <2> QED BY <1>3, <2>1, ProgressInv DEF HearQueued
<1>4. ASSUME NEW r \in Req, HearStarted(r)
      PROVE  Inv'
  BY <1>4, ProgressInv DEF HearStarted
<1>5. ASSUME NEW r \in Req, HearReply(r)
      PROVE  Inv'
  <2> DEFINE f == Head(inbox[r])
  <2>1. f \in Frame \ {"queued", "started"} /\ 1 \in 1..Len(inbox[r]) /\ f = inbox[r][1]
    BY <1>5, TailFrames DEF HearReply, Inv, ContractTypeOK
  <2>2. f \in Outcome
    BY <2>1 DEF Frame, Outcome, NotStarted
  <2>3. /\ f \in NotStarted => place[r] \in {"none", "over"} /\ r \notin ran
        /\ f \in Answer => place[r] = "over" /\ r \in ran
    BY <2>1 DEF Inv, ContractInv
  <2>4. Settle(r, f) /\ UNCHANGED placeVars
    BY <1>5 DEF HearReply
  <2> HIDE DEF f
  <2> QED BY <2>2, <2>3, <2>4, SettleInv
<1>6. ASSUME NEW r \in Req, TimeOut(r)
      PROVE  Inv'
  <2> DEFINE how == IF heard[r] = "queued" THEN "timeoutQueued" ELSE "timeoutRunning"
  <2>1. how \in Outcome /\ how \notin NotStarted /\ how \notin Answer
    BY DEF Outcome, NotStarted, Answer
  <2>2. Settle(r, how) /\ UNCHANGED placeVars
    BY <1>6 DEF TimeOut
  <2> HIDE DEF how
  <2> QED BY <2>1, <2>2, SettleInv
<1>7. ASSUME NEW r \in Req, LoseConnection(r)
      PROVE  Inv'
  <2>1. "closed" \in Outcome /\ "closed" \notin NotStarted /\ "closed" \notin Answer
    BY DEF Outcome, NotStarted, Answer
  <2> QED BY <1>7, <2>1, SettleInv DEF LoseConnection
<1>8. ASSUME NEW r \in Req, NEW why \in {"restarting", "busy"}, TurnAway(r, why)
      PROVE  Inv'
  <2>1. why \notin Answer /\ \A q \in {r} : place[q] \in {"arrived", "queued"}
    BY <1>8 DEF TurnAway, Answer
  <2> QED BY <1>8, <2>1, OverInv DEF TurnAway
<1>9. ASSUME NEW r \in Req, Accept(r)
      PROVE  Inv'
  <2>1. Say({r}, "queued") \/ UNCHANGED inbox
    BY <1>9 DEF Accept
  <2>2. /\ inbox' \in [Req -> Seq(Frame)]
        /\ \A q \in Req : client[q] # "sent" => inbox'[q] = inbox[q]
        /\ \A q \in Req : \A i \in 1..Len(inbox'[q]) :
              \/ i \in 1..Len(inbox[q]) /\ inbox'[q][i] = inbox[q][i]
              \/ inbox'[q][i] = "queued"
    <3>1. CASE Say({r}, "queued")
      <4>1. "queued" \in Frame BY DEF Frame
      <4> QED BY <3>1, <4>1, SayFrames
    <3>2. CASE UNCHANGED inbox
      BY <3>2 DEF Inv, ContractTypeOK
    <3> QED BY <2>1, <3>1, <3>2
  <2>3. ContractTypeOK'
    BY <1>9, <2>2 DEF Accept, Inv, ContractTypeOK
  <2>4. "queued" \notin NotStarted /\ "queued" \notin Answer
    BY DEF NotStarted, Answer
  <2>5. /\ \A q \in Req : place'[q] = IF q = r THEN "queued" ELSE place[q]
        /\ place[r] = "arrived" /\ UNCHANGED <<client, outcome, ran>>
    BY <1>9 DEF Accept, Inv, ContractTypeOK
  <2>6. ContractInv'
    BY <2>2, <2>4, <2>5 DEF Inv, ContractInv
  <2> QED BY <2>3, <2>6 DEF Inv
<1>10. ASSUME NEW r \in Req, Start(r)
      PROVE  Inv'
  <2>1. Say({r}, "started") \/ UNCHANGED inbox
    BY <1>10 DEF Start
  <2>2. /\ inbox' \in [Req -> Seq(Frame)]
        /\ \A q \in Req : client[q] # "sent" => inbox'[q] = inbox[q]
        /\ \A q \in Req : \A i \in 1..Len(inbox'[q]) :
              \/ i \in 1..Len(inbox[q]) /\ inbox'[q][i] = inbox[q][i]
              \/ inbox'[q][i] = "started"
    <3>1. CASE Say({r}, "started")
      <4>1. "started" \in Frame BY DEF Frame
      <4> QED BY <3>1, <4>1, SayFrames
    <3>2. CASE UNCHANGED inbox
      BY <3>2 DEF Inv, ContractTypeOK
    <3> QED BY <2>1, <3>1, <3>2
  <2>3. ContractTypeOK'
    BY <1>10, <2>2 DEF Start, To, Inv, ContractTypeOK
  <2>4. "started" \notin NotStarted /\ "started" \notin Answer
    BY DEF NotStarted, Answer
  <2>5. /\ \A q \in Req : place'[q] = IF q = r THEN "running" ELSE place[q]
        /\ place[r] = "queued" /\ UNCHANGED <<client, outcome>>
        /\ ran' = ran \union {r}
    BY <1>10 DEF Start, To, Inv, ContractTypeOK
  <2>6. ContractInv'
    <3> SUFFICES ASSUME NEW q \in Req
                 PROVE  ContractInv!(q)'
      BY DEF ContractInv
    <3>1. ContractInv!(q)
      BY DEF Inv, ContractInv
    <3>2. CASE q = r
      <4>1. \A i \in 1..Len(inbox'[q]) : inbox'[q][i] \notin NotStarted /\ inbox'[q][i] \notin Answer
        BY <2>2, <2>4, <2>5, <3>1, <3>2
      <4> QED BY <2>2, <2>5, <3>1, <3>2, <4>1
    <3>3. CASE q # r
      BY <2>2, <2>4, <2>5, <3>1, <3>3
    <3> QED BY <3>2, <3>3
  <2> QED BY <2>3, <2>6 DEF Inv
<1>11. ASSUME NEW r \in Req, Abandon(r)
      PROVE  Inv'
  <2>1. ContractTypeOK'
    BY <1>11 DEF Abandon, To, callVars, Inv, ContractTypeOK
  <2>2. ContractInv'
    BY <1>11 DEF Abandon, To, callVars, Inv, ContractTypeOK, ContractInv
  <2> QED BY <2>1, <2>2 DEF Inv
<1>12. ASSUME NEW S \in SUBSET Req, Refuse(S)
      PROVE  Inv'
  <2>1. "restarting" \notin Answer /\ \A r \in S : place[r] \in {"arrived", "queued"}
    BY <1>12 DEF Refuse, Answer
  <2> QED BY <1>12, <2>1, OverInv DEF Refuse
<1>13. ASSUME NEW r \in Req, NEW how \in Answer, Finish(r, how)
      PROVE  Inv'
  <2>1. how \notin NotStarted /\ \A q \in {r} : place[q] = "running"
    BY <1>13 DEF Finish, Answer, NotStarted
  <2>2. CASE Say({r}, how)
    BY <1>13, <2>1, <2>2, OverInv DEF Finish
  <2>3. CASE UNCHANGED inbox
    <3>1. ContractTypeOK'
      BY <1>13, <2>3 DEF Finish, To, Inv, ContractTypeOK
    <3>2. ContractInv'
      BY <1>13, <2>3 DEF Finish, To, Inv, ContractTypeOK, ContractInv
    <3> QED BY <3>1, <3>2 DEF Inv
  <2> QED BY <1>13, <2>2, <2>3 DEF Finish
<1>14. CASE HelperDies \/ CallersDie \/ BothDie
  BY <1>14, LostInv DEF HelperDies, CallersDie, BothDie, placeVars
<1>15. CASE UNCHANGED contractVars
  BY <1>15 DEF contractVars, callVars, placeVars, Inv, ContractTypeOK, ContractInv
<1> QED
  BY <1>1, <1>2, <1>3, <1>4, <1>5, <1>6, <1>7, <1>8, <1>9, <1>10, <1>11, <1>12, <1>13, <1>14, <1>15
     DEF ContractNext

(* ContractTypeOK and ContractInv together are inductive: the contract     *)
(* keeps them whatever is sent, answered, lost or cut off.                 *)
LEMMA ContractKeepsInv == Contract => []Inv
BY ContractInitInv, ContractNextInv, PTL DEF Contract

(* The strengthening itself: frames on their way and the request's place   *)
(* agree with what has run.                                                *)
THEOREM ContractInvariant == Contract => []ContractInv
BY ContractKeepsInv, PTL DEF Inv

(* The contract's variables have their types. *)
THEOREM ContractTypeCorrect == Contract => []ContractTypeOK
BY ContractKeepsInv, PTL DEF Inv

(* An answer of a helper that is restarting, busy or not there is true for *)
(* good: the request never ran and never will (job service's resend).      *)
THEOREM RefusalIsFinal == Contract => []RefusedNeverRuns
<1>1. Inv => RefusedNeverRuns
  BY DEF Inv, ContractInv, RefusedNeverRuns
<1> QED BY ContractKeepsInv, <1>1, PTL

(* An operation's own answer is given only for a request that ran.         *)
THEOREM AnswerIsEarned == Contract => []AnsweredDidRun
<1>1. Inv => AnsweredDidRun
  BY DEF Inv, ContractInv, AnsweredDidRun
<1> QED BY ContractKeepsInv, <1>1, PTL
=============================================================================
