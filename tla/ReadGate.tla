------------------------------ MODULE ReadGate ------------------------------
(***************************************************************************)
(* createConcurrencyGate of server/helper-lanes.mjs, through which the     *)
(* root helper runs its read-only operations: at most readLimit at once,   *)
(* at most maxWaiting behind them, and none whose caller has gone. (Its    *)
(* parameter `limit` and its queue `waiting` have names of their own here, *)
(* beside HelperService's.)                                                *)
(*                                                                         *)
(* A read let in from the queue counts as running from the moment next()   *)
(* resolves its promise; it goes on in a later microtask, and its caller   *)
(* may go in between.                                                      *)
(***************************************************************************)
EXTENDS SequencesExt

CONSTANTS Read,        \* reads asked for
          readLimit,   \* reads running at once
          maxWaiting   \* reads waiting behind them

ASSUME GateAssumption == readLimit \in Nat \ {0} /\ maxWaiting \in Nat

VARIABLES
    running,       \* the gate's count
    waitingReads,  \* its queue
    phase,         \* each read: "new", "waiting", "letIn", "running", "done", "abandoned", "busy"
    aborted        \* reads whose connection has closed

gateVars == <<running, waitingReads, phase, aborted>>

GateInit ==
    /\ running = 0 /\ waitingReads = <<>>
    /\ phase = [r \in Read |-> "new"]
    /\ aborted = {}

(* run(), up to its first await. *)
runRead(r) ==
    /\ phase[r] = "new"
    /\ \/ /\ r \in aborted
          /\ phase' = [phase EXCEPT ![r] = "abandoned"]
          /\ UNCHANGED <<running, waitingReads>>
       \/ /\ r \notin aborted /\ running < readLimit
          /\ running' = running + 1
          /\ phase' = [phase EXCEPT ![r] = "running"]
          /\ UNCHANGED waitingReads
       \/ /\ r \notin aborted /\ running >= readLimit /\ Len(waitingReads) < maxWaiting
          /\ waitingReads' = Append(waitingReads, r)
          /\ phase' = [phase EXCEPT ![r] = "waiting"]
          /\ UNCHANGED running
       \/ /\ r \notin aborted /\ running >= readLimit /\ Len(waitingReads) >= maxWaiting
          /\ phase' = [phase EXCEPT ![r] = "busy"]
          /\ UNCHANGED <<running, waitingReads>>
    /\ UNCHANGED aborted

(* Mutant: the count is given back and nobody let in. *)
leave_NoNext(r, how) ==
    /\ running' = running - 1
    /\ phase' = [phase EXCEPT ![r] = how]
    /\ UNCHANGED waitingReads

(* The finally clause: the count is given back and next() lets one in. *)
leave(r, how) ==
    \/ /\ waitingReads = <<>> \/ running - 1 >= readLimit
       /\ running' = running - 1
       /\ phase' = [phase EXCEPT ![r] = how]
       /\ UNCHANGED waitingReads
    \/ /\ waitingReads # <<>> /\ running - 1 < readLimit
       /\ running' = (running - 1) + 1
       /\ waitingReads' = Tail(waitingReads)
       /\ phase' = [phase EXCEPT ![r] = how, ![Head(waitingReads)] = "letIn"]

(* Mutant: a read let in does not look at its caller again. *)
resume_Unchecked(r) ==
    /\ phase[r] = "letIn"
    /\ phase' = [phase EXCEPT ![r] = "running"]
    /\ UNCHANGED <<running, waitingReads, aborted>>

(* A read let in goes on, unless its caller went in the meantime. *)
resume(r) ==
    /\ phase[r] = "letIn"
    /\ \/ r \in aborted /\ leave(r, "abandoned")
       \/ /\ r \notin aborted
          /\ phase' = [phase EXCEPT ![r] = "running"]
          /\ UNCHANGED <<running, waitingReads>>
    /\ UNCHANGED aborted

(* The task settles, either way. *)
finish(r) ==
    /\ phase[r] = "running"
    /\ leave(r, "done")
    /\ UNCHANGED aborted

(* The connection closes. A waiting read is taken out of the queue. *)
abort(r) ==
    /\ r \notin aborted
    /\ aborted' = aborted \union {r}
    /\ \/ \E i \in 1..Len(waitingReads) :
             /\ waitingReads[i] = r
             /\ waitingReads' = RemoveAt(waitingReads, i)
             /\ phase' = [phase EXCEPT ![r] = "abandoned"]
       \/ /\ \A i \in 1..Len(waitingReads) : waitingReads[i] # r
          /\ UNCHANGED <<waitingReads, phase>>
    /\ UNCHANGED running

GateNext == \E r \in Read : runRead(r) \/ resume(r) \/ finish(r) \/ abort(r)

(* Promises run and reads have time limits; callers may stay or go. *)
GateFairness == \A r \in Read : WF_gateVars(resume(r)) /\ WF_gateVars(finish(r))

GateSafetySpec == GateInit /\ [][GateNext]_gateVars
GateSpec == GateSafetySpec /\ GateFairness
-----------------------------------------------------------------------------
Holding == {r \in Read : phase[r] \in {"letIn", "running"}}

(* Every variable has its type. *)
GateTypeOK ==
    /\ running \in Nat
    /\ waitingReads \in Seq(Read)
    /\ phase \in [Read -> {"new", "waiting", "letIn", "running", "done", "abandoned", "busy"}]
    /\ aborted \subseteq Read

(* The gate counts exactly: its number is the reads it let in, never more  *)
(* than its limit, through every abort, failure and hand-over.             *)
CountExact == IsFiniteSet(Holding) /\ running = Cardinality(Holding) /\ running =< readLimit

(* No slot is idle while a read waits: a wake-up is never lost. *)
NoSlotIdle == running < readLimit => waitingReads = <<>>

(* The queue holds exactly the reads that wait, each once. *)
QueueExact ==
    /\ \A r \in Read : phase[r] = "waiting" <=> \E i \in 1..Len(waitingReads) : waitingReads[i] = r
    /\ \A i, k \in 1..Len(waitingReads) : waitingReads[i] = waitingReads[k] => i = k

(* "Abandoned queued work must never start later": once its caller has     *)
(* gone, a read that has not begun never does.                             *)
AbandonedNeverStarts ==
    [][\A r \in aborted : phase[r] # "running" => phase'[r] # "running"]_gateVars

(* A read that waits is let in or given up. *)
WaitingEnds == \A r \in Read : (phase[r] = "waiting") ~> (phase[r] # "waiting")
=============================================================================
