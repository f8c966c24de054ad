---------------------------- MODULE AlertLedger ----------------------------
(***************************************************************************)
(* The ledger of health alerts (health-alerts.mjs): conditions a round     *)
(* measures, conditions other code raises and clears, and one-off news.    *)
(* Rounds, raise, clear and tell read the ledger, may wait on a send, and  *)
(* write it back, one at a time (exclusive). An entry is "unheard" until   *)
(* the target has taken its announcement.                                  *)
(*                                                                         *)
(* What the words of an alert are, and when, is left out.                  *)
(***************************************************************************)
EXTENDS Naturals, Sequences, FiniteSets, SequencesExt

CONSTANTS Measured,     \* conditions each round evaluates
          Reported,     \* conditions raised and cleared by whoever sees them
          Notice,       \* news
          NoticeLimit   \* how many notices are kept (20)

Key == Measured \union Reported \union Notice

ASSUME LedgerAssumption ==
    /\ Measured \intersect Reported = {} /\ Notice \intersect (Measured \union Reported) = {}
    /\ NoticeLimit \in Nat \ {0}

VARIABLES
    ledger,   \* the setting healthAlertsState: [Key -> "absent", "unheard" or "heard"]
    kept,     \* the notices in it, the ones told longest ago first
    queue,    \* the calls in the queue of exclusive, the one whose turn it is first
    target,   \* whether a notification target is set
    bad,      \* measured conditions that hold on the host
    standing, \* reported conditions whose last call was raise (a record)
    heard     \* [Key -> announcements taken since its entry last left] (a record)

ledgerVars == <<ledger, kept, queue, target, bad, standing, heard>>

Call(op, key) ==
    [op |-> op, key |-> key, sending |-> FALSE,
     found |-> {}, evidence |-> TRUE, toward |-> FALSE, state |-> <<>>, todo |-> {}]
raise(key) == Call("raise", key)
clear(key) == Call("clear", key)   \* quietly or not
tell(key) == Call("tell", key)

LedgerInit ==
    /\ ledger = [k \in Key |-> "absent"]
    /\ kept = <<>> /\ queue = <<>>
    /\ target \in BOOLEAN
    /\ bad = {} /\ standing = {}
    /\ heard = [k \in Key |-> 0]
-----------------------------------------------------------------------------
(* Mutant: the calls do not wait for each other. *)
myTurn_AtOnce(i) == TRUE

(* exclusive: one call at a time, in the order they came. *)
myTurn(i) == i = 1

without(i) == RemoveAt(queue, i)
atWork(i, op, sending) == i \in DOMAIN queue /\ myTurn(i) /\ queue[i].op = op /\ queue[i].sending = sending

announced(key, taken) == heard' = [heard EXCEPT ![key] = IF taken THEN @ + 1 ELSE @]

(* Mutant: whether it was announced before is not looked at. *)
alreadyAnnounced_Unread(state, key) == FALSE

alreadyAnnounced(state, key) == state[key] = "heard"

raiseReads(i) ==
    /\ atWork(i, "raise", FALSE)
    /\ IF alreadyAnnounced(ledger, queue[i].key)
       THEN queue' = without(i) /\ standing' = standing \union {queue[i].key}
       ELSE queue' = [queue EXCEPT ![i] = [@ EXCEPT !.sending = TRUE, !.state = ledger]] /\ UNCHANGED standing
    /\ UNCHANGED <<ledger, kept, target, bad, heard>>

raised(i, taken) ==
    /\ atWork(i, "raise", TRUE) /\ (taken => target)
    /\ ledger' = [queue[i].state EXCEPT ![queue[i].key] = IF taken THEN "heard" ELSE "unheard"]
    /\ queue' = without(i)
    /\ standing' = standing \union {queue[i].key}
    /\ announced(queue[i].key, taken)
    /\ UNCHANGED <<kept, target, bad>>

(* Dropped at once. The good news, sent if it had been announced, changes  *)
(* nothing more, taken or not.                                             *)
cleared(i) ==
    LET key == queue[i].key
    IN /\ atWork(i, "clear", FALSE)
       /\ ledger' = [ledger EXCEPT ![key] = "absent"]
       /\ queue' = without(i)
       /\ standing' = standing \ {key}
       /\ kept' = SelectSeq(kept, LAMBDA k : k # key)
       /\ heard' = [heard EXCEPT ![key] = 0]
       /\ UNCHANGED <<target, bad>>

(* The newest notices, when there are too many. *)
bounded(notices) == SubSeq(notices, Len(notices) - NoticeLimit + 1, Len(notices))

(* The news is sent, and only then is the ledger read: delivered it is     *)
(* forgotten, else kept; past the limit the oldest goes.                   *)
told(i, taken) ==
    LET others == SelectSeq(kept, LAMBDA k : k # queue[i].key)
        mine == IF taken THEN others ELSE Append(others, queue[i].key)
    IN /\ atWork(i, "tell", FALSE) /\ (taken => target)
       /\ kept' = IF Len(mine) > NoticeLimit THEN bounded(mine) ELSE mine
       /\ ledger' = [k \in Key |-> IF k \notin Notice THEN ledger[k]
                                   ELSE IF k \in ToSet(kept') THEN "unheard" ELSE "absent"]
       /\ queue' = without(i)
       /\ UNCHANGED <<target, bad, standing, heard>>
-----------------------------------------------------------------------------
(* A round: what it finds is read before its turn; one round at a time.    *)

check(evidence) ==
    /\ \A i \in DOMAIN queue : queue[i].op # "round"
    /\ queue' = Append(queue, [Call("round", "") EXCEPT !.found = IF evidence THEN bad ELSE {}, !.evidence = evidence])
    /\ UNCHANGED <<ledger, kept, target, bad, standing, heard>>

(* What is left to send: conditions found and not announced; with a target *)
(* the news, the raised conditions not announced, and the announced ones   *)
(* that are gone. Evidence that is missing says nothing of a condition.    *)
toSend(w, old) ==
    {k \in w.found : ~alreadyAnnounced(old, k)}
      \union IF w.toward THEN {k \in Notice : old[k] # "absent"} \union {k \in Reported : old[k] = "unheard"}
                              \union {k \in Measured \ w.found : w.evidence /\ old[k] = "heard"}
             ELSE {}

(* News that is a month old is dropped, and a condition that is gone       *)
(* unannounced, or with no one to tell.                                    *)
dropped(w, old, aged) ==
    aged \union {k \in Measured \ w.found : w.evidence /\ (old[k] = "unheard" \/ ~w.toward)}

roundReads(i, aged) ==
    LET w == [queue[i] EXCEPT !.toward = target]
    IN /\ atWork(i, "round", FALSE) /\ aged \subseteq ToSet(kept)
       /\ queue' = [queue EXCEPT ![i] = [w EXCEPT !.sending = TRUE, !.todo = toSend(w, ledger) \ aged,
             !.state = [k \in Key |-> IF k \in dropped(w, ledger, aged) THEN "absent" ELSE ledger[k]]]]
       /\ UNCHANGED <<ledger, kept, target, bad, standing, heard>>

(* What a send, taken or not, makes of an entry. *)
afterSend(w, k, taken) ==
    IF k \in w.found \union Reported THEN IF taken THEN "heard" ELSE "unheard"
    ELSE IF taken THEN "absent" ELSE w.state[k]

roundSends(i, k, taken) ==
    /\ atWork(i, "round", TRUE) /\ k \in queue[i].todo /\ (taken => target)
    /\ queue' = [queue EXCEPT ![i].todo = @ \ {k}, ![i].state[k] = afterSend(queue[i], k, taken)]
    /\ announced(k, taken /\ k \in queue[i].found \union Reported)
    /\ UNCHANGED <<ledger, kept, target, bad, standing>>

(* The round is saved, and its listeners, which it does not wait for, make *)
(* the calls.                                                              *)
roundWrites(i, calls) ==
    /\ atWork(i, "round", TRUE) /\ queue[i].todo = {}
    /\ ledger' = queue[i].state
    /\ kept' = SelectSeq(kept, LAMBDA k : queue[i].state[k] # "absent")
    /\ queue' = without(i) \o calls
    /\ heard' = [k \in Key |-> IF queue[i].state[k] = "absent" THEN 0 ELSE heard[k]]
    /\ UNCHANGED <<target, bad, standing>>

setTarget ==
    /\ target' = ~target
    /\ UNCHANGED <<ledger, kept, queue, bad, standing, heard>>

(* Another part of BoxPilot makes calls. *)
makes(calls) ==
    /\ queue' = queue \o calls
    /\ UNCHANGED <<ledger, kept, target, standing, heard>>

(* The service stops and starts: the calls are lost, and what was taken    *)
(* and not written is as if never said.                                    *)
restarts(calls) ==
    /\ queue' = calls
    /\ heard' = [k \in Key |-> IF ledger[k] = "heard" THEN heard[k] ELSE 0]
    /\ UNCHANGED <<ledger, kept, target, bad, standing>>

Taken(i) == raised(i, TRUE) \/ told(i, TRUE) \/ \E k \in Key : roundSends(i, k, TRUE)
NotTaken(i) == raised(i, FALSE) \/ told(i, FALSE) \/ \E k \in Key : roundSends(i, k, FALSE)

CallStep(i) ==
    \/ raiseReads(i) \/ cleared(i)
    \/ \E aged \in SUBSET Notice : roundReads(i, aged)
    \/ Taken(i) \/ NotTaken(i)
=============================================================================
