---------------------------- MODULE HelperProofs ----------------------------
(***************************************************************************)
(* The helper, for any requests, lanes, limits and restarts of itself.     *)
(*                                                                         *)
(* The lane queues: no two conflicting operations run beside each other,   *)
(* none overtakes an earlier one it conflicts with, unrelated work never   *)
(* waits, and the queues implement LaneLock. The lanes laneFor answers     *)
(* cover what an operation works on, so that the exclusion of the queues   *)
(* is the one promised about apps, the backup tree and Docker.             *)
(*                                                                         *)
(* The process: admission slots are exact, a restart asked for is owed     *)
(* until it is made and cuts nothing off, the lanes exclude across stops   *)
(* and crashes, and the whole keeps HelperContract with its callers.       *)
(*                                                                         *)
(* The read gate: it counts exactly, leaves no slot idle, and runs nothing *)
(* that was given up.                                                      *)
(***************************************************************************)
EXTENDS HelperService, LanedOperations, ReadGate, FiniteSetTheorems, SequenceTheorems, TLAPS
-----------------------------------------------------------------------------
(* The read gate.                                                          *)

GateInv == GateTypeOK /\ CountExact /\ NoSlotIdle /\ QueueExact

Phase == {"new", "waiting", "letIn", "running", "done", "abandoned", "busy"}

(* What splice(index, 1) leaves of the queue. *)
LEMMA Spliced ==
    ASSUME NEW S, NEW s \in Seq(S), NEW i \in 1..Len(s)
    PROVE  /\ RemoveAt(s, i) \in Seq(S)
           /\ Len(RemoveAt(s, i)) = Len(s) - 1
           /\ \A k \in 1..(Len(s) - 1) : RemoveAt(s, i)[k] = IF k < i THEN s[k] ELSE s[k + 1]
<1> DEFINE a == SubSeq(s, 1, i - 1)
           b == SubSeq(s, i + 1, Len(s))
<1>1. a \in Seq(S) /\ Len(a) = i - 1 /\ \A k \in 1..(i - 1) : a[k] = s[k]
  OBVIOUS
<1>2. b \in Seq(S) /\ Len(b) = Len(s) - i /\ \A k \in 1..(Len(s) - i) : b[k] = s[k + i]
  OBVIOUS
<1>3. RemoveAt(s, i) = a \o b
  BY DEF RemoveAt
<1> HIDE DEF a, b
<1>4. a \o b \in Seq(S) /\ Len(a \o b) = Len(s) - 1
  <2>1. a \o b \in Seq(S) /\ Len(a \o b) = Len(a) + Len(b)
    BY <1>1, <1>2, ConcatProperties
  <2>2. (i - 1) + (Len(s) - i) = Len(s) - 1
    OBVIOUS
  <2> QED BY <1>1, <1>2, <2>1, <2>2
<1>5. ASSUME NEW k \in 1..(Len(s) - 1)
      PROVE  (a \o b)[k] = IF k < i THEN s[k] ELSE s[k + 1]
  <2>1. k \in 1..(Len(a) + Len(b)) /\ (a \o b)[k] = IF k =< Len(a) THEN a[k] ELSE b[k - Len(a)]
    BY <1>1, <1>2
  <2>2. CASE k < i
    BY <1>1, <2>1, <2>2
  <2>3. CASE ~(k < i)
    <3>1. k - Len(a) = k - i + 1 /\ k - i + 1 \in 1..(Len(s) - i) /\ ~(k =< Len(a))
      BY <1>1, <2>3
    <3>2. b[k - i + 1] = s[(k - i + 1) + i]
      BY <1>2, <3>1
    <3>3. (k - i + 1) + i = k + 1
      OBVIOUS
    <3> QED BY <2>1, <2>3, <3>1, <3>2, <3>3
  <2> QED BY <2>2, <2>3
<1> QED BY <1>3, <1>4, <1>5

LEMMA GateInitInv == GateInit => GateInv
<1> SUFFICES ASSUME GateInit
             PROVE  GateInv
  OBVIOUS
<1>1. GateTypeOK /\ NoSlotIdle /\ QueueExact
  BY DEF GateInit, GateTypeOK, NoSlotIdle, QueueExact
<1>2. Holding = {}
  BY DEF GateInit, Holding
<1>3. CountExact
  BY <1>2, FS_EmptySet, GateAssumption DEF GateInit, CountExact
<1> QED BY <1>1, <1>3 DEF GateInv

(* A read that held a place leaves it: the count stays exact, the next of  *)
(* the queue has the place, and only an empty queue leaves it idle.        *)
LEMMA LeaveInv ==
    ASSUME GateInv, NEW r \in Holding, NEW how \in {"done", "abandoned"}, leave(r, how), UNCHANGED aborted
    PROVE  GateInv'
<1>1. /\ running \in Nat /\ running - 1 \in Nat /\ running - 1 < readLimit /\ readLimit \in Nat
      /\ IsFiniteSet(Holding \ {r}) /\ Cardinality(Holding \ {r}) = running - 1
  <2>1. IsFiniteSet(Holding) /\ running = Cardinality(Holding) /\ running \in Nat /\ running =< readLimit
    BY DEF GateInv, GateTypeOK, CountExact
  <2>2. IsFiniteSet(Holding \ {r}) /\ Cardinality(Holding \ {r}) = Cardinality(Holding) - 1
    BY <2>1, FS_RemoveElement
  <2>3. Cardinality(Holding \ {r}) \in Nat
    BY <2>2, FS_CardinalityType
  <2> QED BY <2>1, <2>2, <2>3, GateAssumption
<1>2. r \in Read /\ phase[r] \in {"letIn", "running"}
  BY DEF Holding
<1>3. CASE waitingReads = <<>>
  <2>1. running' = running - 1 /\ phase' = [phase EXCEPT ![r] = how] /\ waitingReads' = waitingReads
    BY <1>1, <1>3 DEF leave
  <2>2. Holding' = Holding \ {r}
    BY <1>2, <2>1 DEF Holding, GateInv, GateTypeOK
  <2>3. CountExact'
    BY <1>1, <2>1, <2>2 DEF CountExact
  <2>4. GateTypeOK' /\ NoSlotIdle' /\ QueueExact'
    BY <1>1, <1>2, <1>3, <2>1 DEF GateInv, GateTypeOK, NoSlotIdle, QueueExact
  <2> QED BY <2>3, <2>4 DEF GateInv
<1>4. CASE waitingReads # <<>>
  <2> DEFINE q == Head(waitingReads)
  <2>1. running' = running /\ waitingReads' = Tail(waitingReads) /\ phase' = [phase EXCEPT ![r] = how, ![q] = "letIn"]
    BY <1>1, <1>4 DEF leave
  <2>2. /\ waitingReads \in Seq(Read) /\ Len(waitingReads) \in Nat /\ 1 \in 1..Len(waitingReads)
        /\ q \in Read /\ q = waitingReads[1] /\ Len(waitingReads') = Len(waitingReads) - 1
        /\ waitingReads' \in Seq(Read)
        /\ \A i \in 1..(Len(waitingReads) - 1) : i + 1 \in 1..Len(waitingReads) /\ waitingReads'[i] = waitingReads[i + 1]
    BY <1>4, <2>1 DEF GateInv, GateTypeOK
  <2>3. phase[q] = "waiting" /\ q # r
    BY <1>2, <2>2 DEF GateInv, QueueExact
  <2> HIDE DEF q
  <2>4. \A p \in Read : phase'[p] = IF p = q THEN "letIn" ELSE IF p = r THEN how ELSE phase[p]
    BY <1>2, <2>1, <2>2, <2>3 DEF GateInv, GateTypeOK
  <2>5. Holding' = (Holding \ {r}) \union {q} /\ q \notin Holding \ {r}
    BY <1>2, <2>2, <2>3, <2>4 DEF Holding
  <2>6. CountExact'
    <3>1. IsFiniteSet((Holding \ {r}) \union {q}) /\ Cardinality((Holding \ {r}) \union {q}) = (running - 1) + 1
      BY <1>1, <2>5, FS_AddElement
    <3> QED BY <1>1, <2>1, <2>5, <3>1 DEF CountExact
  <2>7. GateTypeOK'
    BY <1>2, <2>1, <2>2 DEF GateInv, GateTypeOK
  <2>8. NoSlotIdle'
    BY <1>1, <1>4, <2>1 DEF GateInv, NoSlotIdle
  <2>9. \A i, k \in 1..Len(waitingReads') : waitingReads'[i] = waitingReads'[k] => i = k
    BY <2>2 DEF GateInv, QueueExact
  <2>10. ASSUME NEW p \in Read
         PROVE  phase'[p] = "waiting" <=> \E i \in 1..Len(waitingReads') : waitingReads'[i] = p
    <3>1. ASSUME phase'[p] = "waiting"
          PROVE  \E i \in 1..Len(waitingReads') : waitingReads'[i] = p
      <4>1. p # q /\ phase[p] = "waiting"
        BY <2>4, <3>1
      <4>2. PICK k \in 1..Len(waitingReads) : waitingReads[k] = p
        BY <4>1 DEF GateInv, QueueExact
      <4>3. k # 1 /\ k - 1 \in 1..(Len(waitingReads) - 1) /\ (k - 1) + 1 = k
        BY <2>2, <4>1, <4>2
      <4> QED BY <2>2, <4>2, <4>3
    <3>2. ASSUME NEW i \in 1..Len(waitingReads'), waitingReads'[i] = p
          PROVE  phase'[p] = "waiting"
      <4>1. i + 1 \in 1..Len(waitingReads) /\ waitingReads[i + 1] = p /\ i + 1 # 1
        BY <2>2, <3>2
      <4>2. phase[p] = "waiting" /\ p # q
        BY <2>2, <4>1 DEF GateInv, QueueExact
      <4> QED BY <1>2, <2>4, <4>2
    <3> QED BY <3>1, <3>2
  <2> QED BY <2>6, <2>7, <2>8, <2>9, <2>10 DEF GateInv, QueueExact
<1> QED BY <1>3, <1>4

LEMMA GateNextInv == GateInv /\ [GateNext]_gateVars => GateInv'
<1> SUFFICES ASSUME GateInv, [GateNext]_gateVars
             PROVE  GateInv'
  OBVIOUS
<1>1. ASSUME NEW r \in Read, runRead(r)
      PROVE  GateInv'
  <2>1. phase[r] = "new" /\ UNCHANGED aborted
    BY <1>1 DEF runRead
  <2>2. ASSUME NEW p \in {"abandoned", "busy"}, phase' = [phase EXCEPT ![r] = p], UNCHANGED <<running, waitingReads>>
        PROVE  GateInv'
    <3>1. Holding' = Holding
      BY <2>1, <2>2 DEF Holding, GateInv, GateTypeOK
    <3>2. GateTypeOK' /\ CountExact' /\ NoSlotIdle'
      BY <2>1, <2>2, <3>1 DEF GateInv, GateTypeOK, CountExact, NoSlotIdle
    <3>3. QueueExact'
      BY <2>1, <2>2 DEF GateInv, GateTypeOK, QueueExact
    <3> QED BY <3>2, <3>3 DEF GateInv
  <2>3. CASE r \notin aborted /\ running < readLimit /\ running' = running + 1 /\ phase' = [phase EXCEPT ![r] = "running"] /\ UNCHANGED waitingReads
    <3>1. Holding' = Holding \union {r} /\ r \notin Holding
      BY <2>1, <2>3 DEF Holding, GateInv, GateTypeOK
    <3>2. IsFiniteSet(Holding \union {r}) /\ Cardinality(Holding \union {r}) = running + 1
      BY <3>1, FS_AddElement DEF GateInv, CountExact
    <3>3. running \in Nat /\ readLimit \in Nat /\ waitingReads = <<>>
      BY <2>3, GateAssumption DEF GateInv, GateTypeOK, NoSlotIdle
    <3>4. CountExact'
      BY <2>3, <3>1, <3>2, <3>3 DEF CountExact
    <3>5. GateTypeOK' /\ NoSlotIdle' /\ QueueExact'
      BY <2>1, <2>3, <3>3 DEF GateInv, GateTypeOK, NoSlotIdle, QueueExact
    <3> QED BY <3>4, <3>5 DEF GateInv
  <2>4. CASE r \notin aborted /\ running >= readLimit /\ Len(waitingReads) < maxWaiting
             /\ waitingReads' = Append(waitingReads, r) /\ phase' = [phase EXCEPT ![r] = "waiting"] /\ UNCHANGED running
    <3>1. /\ waitingReads \in Seq(Read) /\ Len(waitingReads) \in Nat /\ waitingReads' \in Seq(Read)
          /\ Len(waitingReads') = Len(waitingReads) + 1 /\ waitingReads'[Len(waitingReads) + 1] = r
          /\ \A i \in 1..Len(waitingReads) : waitingReads'[i] = waitingReads[i]
      BY <2>4 DEF GateInv, GateTypeOK
    <3>2. \A i \in 1..Len(waitingReads) : waitingReads[i] # r
      BY <2>1 DEF GateInv, QueueExact
    <3>3. Holding' = Holding
      BY <2>1, <2>4 DEF Holding, GateInv, GateTypeOK
    <3>4. GateTypeOK' /\ CountExact'
      BY <2>1, <2>4, <3>1, <3>3 DEF GateInv, GateTypeOK, CountExact
    <3>5. NoSlotIdle'
      BY <2>4, GateAssumption DEF GateInv, GateTypeOK, NoSlotIdle
    <3>6. \A i, k \in 1..Len(waitingReads') : waitingReads'[i] = waitingReads'[k] => i = k
      BY <3>1, <3>2 DEF GateInv, QueueExact
    <3>7. ASSUME NEW p \in Read
          PROVE  phase'[p] = "waiting" <=> \E i \in 1..Len(waitingReads') : waitingReads'[i] = p
      <4>1. CASE p = r
        <5>1. Len(waitingReads) + 1 \in 1..Len(waitingReads') /\ phase'[p] = "waiting"
          BY <2>4, <3>1, <4>1 DEF GateInv, GateTypeOK
        <5> QED BY <3>1, <4>1, <5>1
      <4>2. CASE p # r
        <5>1. phase'[p] = phase[p]
          BY <2>4, <4>2 DEF GateInv, GateTypeOK
        <5>2. (\E i \in 1..Len(waitingReads') : waitingReads'[i] = p) <=> \E i \in 1..Len(waitingReads) : waitingReads[i] = p
          BY <3>1, <4>2
        <5> QED BY <5>1, <5>2 DEF GateInv, QueueExact
      <4> QED BY <4>1, <4>2
    <3> QED BY <3>4, <3>5, <3>6, <3>7 DEF GateInv, QueueExact
  <2> QED BY <1>1, <2>2, <2>3, <2>4 DEF runRead
<1>2. ASSUME NEW r \in Read, resume(r)
      PROVE  GateInv'
  <2>1. phase[r] = "letIn" /\ r \in Holding /\ UNCHANGED aborted
    BY <1>2 DEF resume, Holding
  <2>2. CASE leave(r, "abandoned")
    BY <2>1, <2>2, LeaveInv
  <2>3. CASE phase' = [phase EXCEPT ![r] = "running"] /\ UNCHANGED <<running, waitingReads>>
    <3>1. Holding' = Holding
      BY <2>1, <2>3 DEF Holding, GateInv, GateTypeOK
    <3>2. GateTypeOK' /\ CountExact' /\ NoSlotIdle'
      BY <2>1, <2>3, <3>1 DEF GateInv, GateTypeOK, CountExact, NoSlotIdle
    <3>3. QueueExact'
      BY <2>1, <2>3 DEF GateInv, GateTypeOK, QueueExact
    <3> QED BY <3>2, <3>3 DEF GateInv
  <2> QED BY <1>2, <2>2, <2>3 DEF resume
<1>3. ASSUME NEW r \in Read, finish(r)
      PROVE  GateInv'
  <2>1. r \in Holding
    BY <1>3 DEF finish, Holding
  <2> QED BY <1>3, <2>1, LeaveInv DEF finish
<1>4. ASSUME NEW r \in Read, abort(r)
      PROVE  GateInv'
  <2>1. aborted' = aborted \union {r} /\ UNCHANGED running
    BY <1>4 DEF abort
  <2>2. CASE UNCHANGED <<waitingReads, phase>>
    BY <2>1, <2>2 DEF GateInv, GateTypeOK, CountExact, Holding, NoSlotIdle, QueueExact
  <2>3. ASSUME NEW i \in 1..Len(waitingReads), waitingReads[i] = r,
               waitingReads' = RemoveAt(waitingReads, i), phase' = [phase EXCEPT ![r] = "abandoned"]
        PROVE  GateInv'
    <3>1. waitingReads \in Seq(Read) /\ Len(waitingReads) \in Nat /\ phase[r] = "waiting"
      BY <2>3 DEF GateInv, GateTypeOK, QueueExact
    <3>2. /\ waitingReads' \in Seq(Read) /\ Len(waitingReads') = Len(waitingReads) - 1
          /\ \A k \in 1..(Len(waitingReads) - 1) : waitingReads'[k] = IF k < i THEN waitingReads[k] ELSE waitingReads[k + 1]
      BY <2>3, <3>1, Spliced
    <3>3. Holding' = Holding
      BY <2>3, <3>1 DEF Holding, GateInv, GateTypeOK
    <3>4. GateTypeOK' /\ CountExact'
      BY <2>1, <2>3, <3>2, <3>3 DEF GateInv, GateTypeOK, CountExact
    <3>5. NoSlotIdle'
      <4>1. waitingReads # <<>>
        BY <3>1
      <4>2. ~(running < readLimit)
        BY <4>1 DEF GateInv, NoSlotIdle
      <4> QED BY <2>1, <4>2 DEF NoSlotIdle
    <3> DEFINE from(k) == IF k < i THEN k ELSE k + 1
    <3>6. \A k \in 1..Len(waitingReads') :
             from(k) \in 1..Len(waitingReads) /\ from(k) # i /\ waitingReads'[k] = waitingReads[from(k)]
      <4> SUFFICES ASSUME NEW k \in 1..(Len(waitingReads) - 1)
                   PROVE  from(k) \in 1..Len(waitingReads) /\ from(k) # i /\ waitingReads'[k] = waitingReads[from(k)]
        BY <3>2
      <4>1. CASE k < i
        BY <3>1, <3>2, <4>1
      <4>2. CASE ~(k < i)
        BY <3>1, <3>2, <4>2
      <4> QED BY <4>1, <4>2
    <3>7. \A k, n \in 1..Len(waitingReads') : waitingReads'[k] = waitingReads'[n] => k = n
      <4> SUFFICES ASSUME NEW k \in 1..Len(waitingReads'), NEW n \in 1..Len(waitingReads'), waitingReads'[k] = waitingReads'[n]
                   PROVE  k = n
        OBVIOUS
      <4>1. from(k) = from(n)
        BY <3>6 DEF GateInv, QueueExact
      <4> QED BY <3>1, <3>2, <4>1
    <3>8. ASSUME NEW p \in Read
          PROVE  phase'[p] = "waiting" <=> \E k \in 1..Len(waitingReads') : waitingReads'[k] = p
      <4>1. ASSUME phase'[p] = "waiting"
            PROVE  \E k \in 1..Len(waitingReads') : waitingReads'[k] = p
        <5>1. p # r /\ phase[p] = "waiting"
          BY <2>3, <4>1 DEF GateInv, GateTypeOK
        <5>2. PICK m \in 1..Len(waitingReads) : waitingReads[m] = p
          BY <5>1 DEF GateInv, QueueExact
        <5>3. CASE m < i
          <6>1. m \in 1..(Len(waitingReads) - 1)
            BY <3>1, <5>3
          <6> QED BY <3>2, <5>2, <5>3, <6>1
        <5>4. CASE m > i
          <6>1. m - 1 \in 1..(Len(waitingReads) - 1) /\ ~(m - 1 < i) /\ (m - 1) + 1 = m
            BY <3>1, <5>4
          <6> QED BY <3>2, <5>2, <6>1
        <5> QED BY <2>3, <3>1, <5>1, <5>2, <5>3, <5>4
      <4>2. ASSUME NEW k \in 1..Len(waitingReads'), waitingReads'[k] = p
            PROVE  phase'[p] = "waiting"
        <5>1. PICK m \in 1..Len(waitingReads) : m # i /\ waitingReads[m] = p
          BY <3>6, <4>2
        <5>2. phase[p] = "waiting" /\ p # r
          BY <2>3, <5>1 DEF GateInv, QueueExact
        <5> QED BY <2>3, <5>2 DEF GateInv, GateTypeOK
      <4> QED BY <4>1, <4>2
    <3> QED BY <3>4, <3>5, <3>7, <3>8 DEF GateInv, QueueExact
  <2> QED BY <1>4, <2>2, <2>3 DEF abort
<1>5. CASE UNCHANGED gateVars
  BY <1>5 DEF gateVars, GateInv, GateTypeOK, CountExact, Holding, NoSlotIdle, QueueExact
<1> QED BY <1>1, <1>2, <1>3, <1>4, <1>5 DEF GateNext

(* The four together are inductive. *)
LEMMA GateKeepsInv == GateSafetySpec => []GateInv
BY GateInitInv, GateNextInv, PTL DEF GateSafetySpec

(* Every variable has its type. *)
THEOREM GateTypeCorrect == GateSafetySpec => []GateTypeOK
BY GateKeepsInv, PTL DEF GateInv

(* createConcurrencyGate never runs more reads than its limit, and its     *)
(* count is exactly the reads it let in.                                   *)
THEOREM GateCounts == GateSafetySpec => []CountExact
BY GateKeepsInv, PTL DEF GateInv

(* A free place is never left idle while a read waits (next() in finally). *)
THEOREM GateNeverIdle == GateSafetySpec => []NoSlotIdle
BY GateKeepsInv, PTL DEF GateInv

(* The queue is exactly the reads that wait: an abandoned one is gone.     *)
THEOREM GateQueueExact == GateSafetySpec => []QueueExact
BY GateKeepsInv, PTL DEF GateInv

(* A queued read whose caller has gone never starts: neither the queue nor *)
(* the moment between being let in and going on loses the abort.           *)
THEOREM GateDropsAbandoned == GateSafetySpec => AbandonedNeverStarts
<1> DEFINE Never == \A r \in aborted : phase[r] # "running" => phase'[r] # "running"
<1>1. GateInv /\ [GateNext]_gateVars => [Never]_gateVars
  <2> SUFFICES ASSUME GateInv, GateNext, NEW a \in aborted, phase[a] # "running"
               PROVE  phase'[a] # "running"
    OBVIOUS
  <2>1. a \in Read /\ phase \in [Read -> Phase]
    BY DEF GateInv, GateTypeOK, Phase
  <2>2. PICK r \in Read : runRead(r) \/ resume(r) \/ finish(r) \/ abort(r)
    BY DEF GateNext
  <2>3. ASSUME NEW how \in {"done", "abandoned"}, leave(r, how)
        PROVE  phase'[a] # "running"
    BY <2>1, <2>3 DEF leave
  <2>4. CASE runRead(r)
    BY <2>1, <2>4 DEF runRead
  <2>5. CASE resume(r)
    BY <2>1, <2>3, <2>5 DEF resume
  <2>6. CASE finish(r)
    BY <2>3, <2>6 DEF finish
  <2>7. CASE abort(r)
    BY <2>1, <2>7 DEF abort
  <2> QED BY <2>2, <2>4, <2>5, <2>6, <2>7
<1> QED BY <1>1, GateKeepsInv, PTL DEF GateSafetySpec, AbandonedNeverStarts
-----------------------------------------------------------------------------
(* The lane queues.                                                        *)

(* A call has a ticket exactly when run() was called for it, and no two    *)
(* calls share one.                                                        *)
Tickets ==
    /\ \A t \in Task : Submitted(t) <=> ticket[t] > 0
    /\ \A t \in Task : ticket[t] =< clock
    /\ \A t, u \in Task : ticket[t] = ticket[u] /\ ticket[t] > 0 => t = u

(* Whoever named lanes named ones laneFor can answer. *)
NamedLanes == \A t \in Task : status[t] # "new" => held[t] \in LaneSets

(* Nobody who has not called run() awaits anything. *)
NoEarlyWait == \A t \in Task : ~Submitted(t) => waitFor[t] = {}

(* Every earlier conflicting request that is not settled is reached by the *)
(* chain of waits: it is awaited itself, or something awaited conflicts    *)
(* with it and came after it.                                              *)
Chain ==
    \A t, u \in Task :
        Earlier(u, t) /\ Conflict(held[u], held[t]) /\ Unreleased(u) =>
            \E k \in waitFor[t] : k = u \/ (Earlier(u, k) /\ Conflict(held[u], held[k]))

LanesInv ==
    /\ LanesTypeOK /\ Tickets /\ NamedLanes /\ NoEarlyWait /\ MapIsLastRequest
    /\ WaitsOnlyForConflicts /\ Chain /\ NoOvertaking

USE LaneAssumption, TaskAssumption

(* Every set of lanes that may be named is a non-empty set of lanes. *)
LEMMA LaneSetsAreLanes ==
    ASSUME NEW H \in LaneSets
    PROVE  H \subseteq Lane /\ H # {}
  OBVIOUS

(* The initial state of the queues satisfies the inductive invariant. *)
LEMMA InitLanesInv == LanesInit => LanesInv
  BY DEF LanesInit, LanesInv, LanesTypeOK, Tickets, NamedLanes, NoEarlyWait, MapIsLastRequest,
         WaitsOnlyForConflicts, Chain, NoOvertaking, Submitted, Unreleased, Earlier, Status

(* The crux of run(): whatever is unsettled and conflicts with a request   *)
(* for H is itself the last on some lane the request looks at, or is       *)
(* behind a later conflicting request that is.                             *)
LEMMA WaitsForReaches ==
    ASSUME LanesInv, NEW H \in LaneSets,
           NEW u \in Task, Unreleased(u), Conflict(held[u], H)
    PROVE  \E k \in WaitsFor(H) : k = u \/ (Earlier(u, k) /\ Conflict(held[u], held[k]))
  <1> DEFINE K(m) == lanes[m]
  <1>1. Submitted(u) /\ held[u] \in LaneSets
    BY DEF Submitted, Unreleased, LanesInv, NamedLanes
  <1>2. ASSUME NEW m \in held[u], K(m) \in WaitsFor(H)
        PROVE  \E k \in WaitsFor(H) : k = u \/ (Earlier(u, k) /\ Conflict(held[u], held[k]))
    <2>1. m \in Lane
      BY <1>1, LaneSetsAreLanes
    <2>2. lanes[m] # NoTask /\ (lanes[m] = u \/ Earlier(u, lanes[m]))
      BY <1>1, <2>1 DEF LanesInv, MapIsLastRequest, Unreleased
    <2>3. m \in held[lanes[m]]
      BY <2>1, <2>2 DEF LanesInv, MapIsLastRequest
    <2>4. Conflict(held[u], held[lanes[m]])
      BY <2>3 DEF Conflict
    <2> QED BY <1>2, <2>2, <2>4
  <1>3. ASSUME NEW m \in held[u] PROVE m \in Lane /\ lanes[m] # NoTask
    BY <1>1, LaneSetsAreLanes DEF LanesInv, MapIsLastRequest, Unreleased
  <1>4. SUFFICES \E m \in held[u] : K(m) \in WaitsFor(H)
    BY <1>2
  <1>5. CASE exclusiveLane \in H
    <2>1. PICK m \in held[u] : TRUE
      BY <1>1, LaneSetsAreLanes
    <2> QED BY <2>1, <1>3, <1>5 DEF WaitsFor, LastOn
  <1>6. CASE exclusiveLane \notin H
    <2>1. ASSUME NEW m \in held[u], m \in H \union across(H) \union {exclusiveLane}
          PROVE  K(m) \in WaitsFor(H)
      BY <2>1, <1>3, <1>6 DEF WaitsFor, LastOn
    <2>2. CASE held[u] \intersect H # {}
      BY <2>1, <2>2
    <2>3. CASE exclusiveLane \in held[u]
      BY <2>1, <2>3
    <2>4. CASE dockerLane \in held[u] /\ H \intersect AppLane # {}
      BY <2>1, <2>4 DEF across
    <2>5. CASE dockerLane \in H /\ held[u] \intersect AppLane # {}
      <3>1. PICK m \in held[u] : m \in AppLane
        BY <2>5
      <3>2. m \in across(H)
        BY <3>1, <1>3, <2>5 DEF across
      <3> QED BY <2>1, <3>1, <3>2
    <2> QED BY <1>6, <2>2, <2>3, <2>4, <2>5 DEF Conflict
  <1> QED BY <1>5, <1>6

(* ... and it looks at nothing else: what run() awaits is unsettled and    *)
(* conflicts with the request.                                             *)
LEMMA WaitsForConflicts ==
    ASSUME LanesInv, NEW H \in LaneSets, NEW k \in WaitsFor(H)
    PROVE  k \in Task /\ Unreleased(k) /\ Conflict(held[k], H)
  <1>1. PICK m \in Lane : /\ k = lanes[m] /\ k # NoTask
                          /\ \/ exclusiveLane \in H
                             \/ m \in H \union across(H) \union {exclusiveLane}
    <2>1. CASE exclusiveLane \in H
      BY <2>1 DEF WaitsFor, LastOn
    <2>2. CASE exclusiveLane \notin H
      <3>1. H \union across(H) \union {exclusiveLane} \subseteq Lane
        BY LaneSetsAreLanes DEF across, Lane
      <3> QED BY <2>2, <3>1 DEF WaitsFor, LastOn
    <2> QED BY <2>1, <2>2
  <1>2. k \in Task
    BY <1>1 DEF LanesInv, LanesTypeOK
  <1>3. m \in held[k] /\ Unreleased(k)
    BY <1>1 DEF LanesInv, MapIsLastRequest
  <1>4. CASE exclusiveLane \in H \/ m \in H \union {exclusiveLane}
    BY <1>2, <1>3, <1>4 DEF Conflict
  <1>5. CASE m \in across(H)
    BY <1>2, <1>3, <1>5 DEF Conflict, across
  <1> QED BY <1>1, <1>2, <1>3, <1>4, <1>5

(* When dropping an answered request empties the map, everything asked for *)
(* has settled but that request.                                           *)
LEMMA IdleMeansSettled ==
    ASSUME LanesInv, NEW t \in Task, status[t] = "answered", NoneHeld(Drop(lanes, t)),
           NEW u \in Task, u # t
    PROVE  ~Unreleased(u)
  <1> SUFFICES ASSUME Unreleased(u) PROVE FALSE
    OBVIOUS
  <1>1. Submitted(u) /\ held[u] \in LaneSets
    BY DEF Submitted, Unreleased, LanesInv, NamedLanes
  <1>2. PICK m \in Lane : m \in held[u]
    BY <1>1, LaneSetsAreLanes
  <1>3. lanes[m] = NoTask \/ lanes[m] = t
    BY <1>2 DEF NoneHeld, Drop
  <1>4. Earlier(u, t) /\ m \in held[t]
    BY <1>1, <1>2, <1>3 DEF LanesInv, MapIsLastRequest, Unreleased
  <1>5. Conflict(held[u], held[t])
    BY <1>2, <1>4 DEF Conflict
  <1> QED BY <1>4, <1>5 DEF LanesInv, NoOvertaking, Unreleased

(* run(): the new request gets the newest ticket, becomes the last on its  *)
(* lanes and awaits what those were.                                       *)
LEMMA RunKeepsInv ==
    ASSUME LanesInv, NEW t \in Task, NEW H \in LaneSets, run(t, H)
    PROVE  LanesInv'
  <1> USE DEF run
  <1>0. t \notin {u \in Task : Submitted(u)} /\ ticket[t] = 0 /\ ticket'[t] = clock + 1
    BY DEF LanesInv, LanesTypeOK, Tickets, Submitted
  <1>a. \A u \in Task : u # t => /\ status'[u] = status[u] /\ held'[u] = held[u]
                                 /\ waitFor'[u] = waitFor[u] /\ ticket'[u] = ticket[u]
    BY DEF LanesInv, LanesTypeOK
  <1>b. \A u, v \in Task : u # t /\ v # t => (Earlier(u, v)' <=> Earlier(u, v))
    BY <1>a DEF Earlier
  <1>c. \A u \in Task : u # t => (Earlier(u, t)' <=> Submitted(u)) /\ ~Earlier(t, u)'
    BY <1>0, <1>a DEF Earlier, LanesInv, Tickets, LanesTypeOK
  <1>d. ~Earlier(t, t)' /\ held'[t] = H /\ status'[t] = "waiting" /\ waitFor'[t] = WaitsFor(H)
    BY <1>0 DEF Earlier, LanesInv, LanesTypeOK
  <1>1. LanesTypeOK'
    <2>1. WaitsFor(H) \subseteq Task
      BY WaitsForConflicts
    <2> QED BY <2>1, LaneSetsAreLanes DEF LanesInv, LanesTypeOK, Take, Status
  <1>2. Tickets'
    BY <1>0, <1>a, <1>d DEF Tickets, LanesInv, LanesTypeOK, Submitted
  <1>3. NamedLanes' /\ NoEarlyWait'
    BY <1>a, <1>d DEF NamedLanes, NoEarlyWait, LanesInv, Submitted
  <1>4. MapIsLastRequest'
    <2>1. SUFFICES ASSUME NEW l \in Lane
                   PROVE /\ lanes'[l] # NoTask => l \in held'[lanes'[l]] /\ Unreleased(lanes[l])'
                         /\ \A u \in Task : Submitted(u)' /\ l \in held'[u] =>
                              \/ lanes'[l] = NoTask /\ status'[u] = "released"
                              \/ lanes'[l] = u
                              \/ lanes'[l] # NoTask /\ Earlier(u, lanes[l])'
      BY DEF MapIsLastRequest
    <2>2. CASE l \in H
      <3>1. lanes'[l] = t
        BY <2>1, <2>2 DEF Take
      <3> QED BY <2>2, <3>1, <1>a, <1>c, <1>d DEF Submitted, Unreleased
    <2>3. CASE l \notin H
      <3>1. lanes'[l] = lanes[l]
        BY <2>1, <2>3 DEF Take
      <3>2. lanes[l] # NoTask => lanes[l] \in Task /\ lanes[l] # t
        BY <2>1, <1>0 DEF LanesInv, LanesTypeOK, MapIsLastRequest, Unreleased, Submitted
      <3> QED BY <2>1, <2>3, <3>1, <3>2, <1>a, <1>b, <1>d
              DEF LanesInv, MapIsLastRequest, Submitted, Unreleased
    <2> QED BY <2>2, <2>3
  <1>5. WaitsOnlyForConflicts'
    <2>1. SUFFICES ASSUME NEW u \in Task, NEW k \in waitFor'[u]
                   PROVE  Earlier(k, u)' /\ Conflict(held'[k], held'[u])
      BY DEF WaitsOnlyForConflicts, Conflict
    <2>2. CASE u = t
      <3>1. k \in Task /\ Unreleased(k) /\ Conflict(held[k], H)
        BY <2>1, <2>2, <1>d, WaitsForConflicts
      <3> QED BY <2>2, <3>1, <1>0, <1>a, <1>c, <1>d DEF Submitted, Unreleased
    <2>3. CASE u # t
      <3>1. k \in Task /\ Earlier(k, u) /\ Conflict(held[k], held[u])
        BY <2>1, <2>3, <1>a DEF LanesInv, LanesTypeOK, WaitsOnlyForConflicts
      <3>2. k # t
        BY <3>1, <1>0 DEF Earlier
      <3> QED BY <2>3, <3>1, <3>2, <1>a, <1>b
    <2> QED BY <2>2, <2>3
  <1>6. Chain'
    <2>1. SUFFICES ASSUME NEW v \in Task, NEW u \in Task, Earlier(u, v)',
                          Conflict(held'[u], held'[v]), Unreleased(u)'
                   PROVE  \E k \in waitFor'[v] : k = u \/ (Earlier(u, k)' /\ Conflict(held'[u], held'[k]))
      BY DEF Chain, Conflict
    <2>2. u # t
      BY <2>1, <1>c, <1>d
    <2>3. Unreleased(u) /\ held'[u] = held[u]
      BY <2>1, <2>2, <1>a DEF Unreleased
    <2>4. CASE v = t
      <3>1. PICK k \in WaitsFor(H) : k = u \/ (Earlier(u, k) /\ Conflict(held[u], held[k]))
        BY <2>1, <2>3, <2>4, <1>d, WaitsForReaches
      <3>2. k \in Task /\ k # t
        BY <3>1, <1>0, WaitsForConflicts DEF Unreleased, Submitted
      <3> QED BY <2>2, <2>3, <2>4, <3>1, <3>2, <1>a, <1>b, <1>d
    <2>5. CASE v # t
      <3>1. PICK k \in waitFor[v] : k = u \/ (Earlier(u, k) /\ Conflict(held[u], held[k]))
        BY <2>1, <2>2, <2>3, <2>5, <1>a, <1>b DEF LanesInv, Chain
      <3>2. k \in Task /\ k # t
        BY <3>1, <1>0, <2>2 DEF LanesInv, LanesTypeOK, Earlier, WaitsOnlyForConflicts
      <3> QED BY <2>2, <2>3, <2>5, <3>1, <3>2, <1>a, <1>b
    <2> QED BY <2>4, <2>5
  <1>7. NoOvertaking'
    <2>1. SUFFICES ASSUME NEW v \in Task, NEW u \in Task, Earlier(u, v)', Conflict(held'[u], held'[v]),
                          status'[v] \in {"running", "answered", "released"}
                   PROVE  status'[u] = "released"
      BY DEF NoOvertaking, Conflict
    <2>2. v # t /\ u # t
      BY <2>1, <1>c, <1>d
    <2> QED BY <2>1, <2>2, <1>a, <1>b DEF LanesInv, NoOvertaking
  <1> QED BY <1>1, <1>2, <1>3, <1>4, <1>5, <1>6, <1>7 DEF LanesInv

(* A step that only moves one request between two unsettled states, or    *)
(* changes what it left running, disturbs nothing but FIFO order.          *)
LEMMA LocalStepKeepsInv ==
    ASSUME LanesInv, NEW t \in Task, NEW s \in Status, LanesTypeOK',
           UNCHANGED <<lanes, held, waitFor, ticket, clock>>,
           status' = [status EXCEPT ![t] = s],
           status[t] = s \/ (status[t] = "onIdle" /\ s = "stopped") \/ (Unreleased(t) /\ s \in {"running", "answered"}),
           status[t] = "waiting" /\ s # "waiting" =>
               \A u \in Task : Earlier(u, t) /\ Conflict(held[u], held[t]) => status[u] = "released"
    PROVE  LanesInv'
  <1>1. \A u \in Task : u # t => status'[u] = status[u]
    BY DEF LanesInv, LanesTypeOK
  <1>2. status'[t] = s
    BY DEF LanesInv, LanesTypeOK
  <1>3. \A u \in Task : (Submitted(u)' <=> Submitted(u)) /\ (Unreleased(u)' <=> Unreleased(u))
                          /\ (status'[u] = "released" <=> status[u] = "released")
                          /\ (status'[u] = "new" <=> status[u] = "new")
    BY <1>1, <1>2 DEF Submitted, Unreleased
  <1>4. \A u, v \in Task : Earlier(u, v)' <=> Earlier(u, v)
    BY DEF Earlier
  <1>5. Tickets' /\ NamedLanes' /\ NoEarlyWait'
    BY <1>3 DEF LanesInv, Tickets, NamedLanes, NoEarlyWait
  <1>6. MapIsLastRequest'
    BY <1>3, <1>4 DEF LanesInv, LanesTypeOK, MapIsLastRequest
  <1>7. WaitsOnlyForConflicts' /\ Chain'
    BY <1>3, <1>4 DEF LanesInv, LanesTypeOK, WaitsOnlyForConflicts, Chain, Conflict
  <1>8. NoOvertaking'
    BY <1>1, <1>2, <1>3, <1>4 DEF LanesInv, NoOvertaking, Conflict, Unreleased
  <1> QED BY <1>5, <1>6, <1>7, <1>8 DEF LanesInv

(* start(): everything awaited is settled, so by the chain of waits every  *)
(* earlier conflicting request is.                                         *)
LEMMA StartIsInTurn ==
    ASSUME LanesInv, NEW t \in Task, start(t), NEW u \in Task,
           Earlier(u, t), Conflict(held[u], held[t])
    PROVE  status[u] = "released"
  <1> SUFFICES ASSUME status[u] # "released" PROVE FALSE
    OBVIOUS
  <1>1. Unreleased(u)
    BY DEF LanesInv, Tickets, Earlier, Submitted, Unreleased
  <1>2. PICK k \in waitFor[t] : k = u \/ (Earlier(u, k) /\ Conflict(held[u], held[k]))
    BY <1>1 DEF LanesInv, Chain
  <1>3. k \in Task /\ status[k] = "released"
    BY <1>2 DEF start, LanesInv, LanesTypeOK
  <1> QED BY <1>2, <1>3 DEF LanesInv, NoOvertaking

(* release(): the lanes given back were the request's own, and a waiter    *)
(* for idleness that takes its lanes then finds everything settled.        *)
LEMMA ReleaseKeepsInv ==
    ASSUME LanesInv, NEW t \in Task, release(t)
    PROVE  LanesInv'
  <1> DEFINE freed == Drop(lanes, t)
  <1>0. status[t] = "answered" /\ UNCHANGED <<held, waitFor, after>>
    BY DEF release
  <1>a. \A l \in Lane : freed[l] = (IF lanes[l] = t THEN NoTask ELSE lanes[l])
    BY DEF Drop
  <1>1. CASE /\ lanes' = freed
             /\ status' = [status EXCEPT ![t] = "released"]
             /\ UNCHANGED <<ticket, clock>>
    <2>1. \A u \in Task : status'[u] = IF u = t THEN "released" ELSE status[u]
      BY <1>1 DEF LanesInv, LanesTypeOK
    <2>2. \A u, v \in Task : Earlier(u, v)' <=> Earlier(u, v)
      BY <1>1 DEF Earlier
    <2>3. \A u \in Task : (Submitted(u)' <=> Submitted(u)) /\ (Unreleased(u)' <=> u # t /\ Unreleased(u))
      BY <1>0, <2>1 DEF Submitted, Unreleased
    <2>4. LanesTypeOK'
      BY <1>0, <1>1 DEF LanesInv, LanesTypeOK, Drop, Status
    <2>5. Tickets' /\ NamedLanes' /\ NoEarlyWait'
      BY <1>0, <1>1, <2>1, <2>3 DEF LanesInv, Tickets, NamedLanes, NoEarlyWait
    <2>6. MapIsLastRequest'
      <3>1. SUFFICES ASSUME NEW l \in Lane
                     PROVE /\ lanes'[l] # NoTask => l \in held[lanes'[l]] /\ Unreleased(lanes[l])'
                           /\ \A u \in Task : Submitted(u)' /\ l \in held[u] =>
                                \/ lanes'[l] = NoTask /\ status'[u] = "released"
                                \/ lanes'[l] = u
                                \/ lanes'[l] # NoTask /\ Earlier(u, lanes[l])'
        BY <1>0 DEF MapIsLastRequest
      <3>2. CASE lanes[l] = t
        <4>1. lanes'[l] = NoTask
          BY <1>1, <1>a, <3>1, <3>2
        <4>2. ASSUME NEW u \in Task, Submitted(u)', l \in held[u], u # t
              PROVE  status'[u] = "released"
          <5>1. Earlier(u, t) /\ l \in held[t]
            BY <2>3, <3>2, <4>2 DEF LanesInv, MapIsLastRequest
          <5>2. Conflict(held[u], held[t])
            BY <4>2, <5>1 DEF Conflict
          <5> QED BY <1>0, <2>1, <4>2, <5>1, <5>2 DEF LanesInv, NoOvertaking
        <4> QED BY <4>1, <4>2, <2>1
      <3>3. CASE lanes[l] # t
        <4>1. lanes'[l] = lanes[l]
          BY <1>1, <1>a, <3>1, <3>3
        <4>2. lanes[l] # NoTask => lanes[l] \in Task
          BY <3>1 DEF LanesInv, LanesTypeOK
        <4> QED BY <3>1, <3>3, <4>1, <4>2, <2>1, <2>2, <2>3 DEF LanesInv, MapIsLastRequest
      <3> QED BY <3>2, <3>3
    <2>7. WaitsOnlyForConflicts' /\ Chain'
      BY <1>0, <2>2, <2>3 DEF LanesInv, LanesTypeOK, WaitsOnlyForConflicts, Chain, Conflict
    <2>8. NoOvertaking'
      BY <1>0, <2>1, <2>2 DEF LanesInv, NoOvertaking, Conflict
    <2> QED BY <2>4, <2>5, <2>6, <2>7, <2>8 DEF LanesInv
  <1>2. ASSUME NEW w \in idleWaiters, NoneHeld(freed), lanes' = Take(freed, w, held[w]),
               status' = [status EXCEPT ![t] = "released", ![w] = "waiting"],
               clock' = clock + 1, ticket' = [ticket EXCEPT ![w] = clock + 1]
        PROVE  LanesInv'
    <2>0. w \in Task /\ status[w] = "onIdle" /\ w # t /\ held[w] \in LaneSets /\ ~Submitted(w) /\ waitFor[w] = {}
      BY <1>0, <1>2 DEF idleWaiters, LanesInv, NamedLanes, NoEarlyWait, Submitted
    <2>1. \A u \in Task : status'[u] = IF u = t THEN "released" ELSE IF u = w THEN "waiting" ELSE status[u]
      BY <1>2, <2>0 DEF LanesInv, LanesTypeOK
    <2>2. \A u \in Task : ~Unreleased(u) \/ u = t
      BY <1>0, <1>2, IdleMeansSettled
    <2>3. \A u \in Task : u # w => (Submitted(u)' <=> Submitted(u)) /\ (Submitted(u)' <=> status'[u] = "released")
      BY <1>0, <2>1, <2>2 DEF Submitted, Unreleased
    <2>4. ticket[w] = 0 /\ ticket'[w] = clock + 1 /\ \A u \in Task : u # w => ticket'[u] = ticket[u]
      BY <1>2, <2>0 DEF LanesInv, LanesTypeOK, Tickets
    <2>5. \A u, v \in Task : u # w /\ v # w => (Earlier(u, v)' <=> Earlier(u, v))
      BY <2>4 DEF Earlier
    <2>6. \A u \in Task : u # w => (Earlier(u, w)' <=> Submitted(u)) /\ ~Earlier(w, u)'
      BY <2>4 DEF Earlier, LanesInv, Tickets, LanesTypeOK
    <2>7. ~Earlier(w, w)'
      BY <2>4 DEF Earlier, LanesInv, LanesTypeOK
    <2>8. LanesTypeOK'
      BY <1>0, <1>2, <2>0 DEF LanesInv, LanesTypeOK, Drop, Take, Status
    <2>9. Tickets'
      BY <1>2, <2>0, <2>1, <2>3, <2>4 DEF Tickets, LanesInv, LanesTypeOK, Submitted
    <2>10. NamedLanes' /\ NoEarlyWait'
      BY <1>0, <2>0, <2>1, <2>3 DEF NamedLanes, NoEarlyWait, LanesInv, Submitted
    <2>11. \A l \in Lane : lanes'[l] = IF l \in held[w] THEN w ELSE NoTask
      BY <1>2 DEF Take, NoneHeld
    <2>12. MapIsLastRequest'
      BY <1>0, <2>0, <2>1, <2>3, <2>6, <2>11 DEF MapIsLastRequest, Submitted, Unreleased
    <2>13. WaitsOnlyForConflicts'
      <3>1. SUFFICES ASSUME NEW u \in Task, NEW k \in waitFor[u]
                     PROVE  Earlier(k, u)' /\ Conflict(held[k], held[u])
        BY <1>0 DEF WaitsOnlyForConflicts, Conflict
      <3>2. k \in Task /\ u # w /\ Earlier(k, u) /\ Conflict(held[k], held[u])
        BY <2>0, <3>1 DEF LanesInv, LanesTypeOK, WaitsOnlyForConflicts
      <3>3. k # w
        BY <3>2, <2>4 DEF Earlier
      <3> QED BY <3>2, <3>3, <2>5
    <2>14. \A u, v \in Task : Earlier(u, v)' => status'[u] = "released"
      <3>1. ASSUME NEW u \in Task, NEW v \in Task, Earlier(u, v)'
            PROVE  u # w /\ Submitted(u)
        BY <2>4, <2>5, <2>6, <2>7, <3>1 DEF Earlier, LanesInv, Tickets
      <3> QED BY <2>3, <3>1
    <2>15. Chain' /\ NoOvertaking'
      BY <2>14 DEF Chain, NoOvertaking, Unreleased
    <2> QED BY <2>8, <2>9, <2>10, <2>12, <2>13, <2>15 DEF LanesInv
  <1> QED BY <1>1, <1>2 DEF release

(* onIdle(): a request that waits holding nothing is no part of the order.*)
LEMMA OnIdleKeepsInv ==
    ASSUME LanesInv, NEW t \in Task, NEW H \in LaneSets, onIdle(t, H)
    PROVE  LanesInv'
  <1>1. /\ LanesTypeOK'
        /\ \A u \in Task : u # t => status'[u] = status[u] /\ held'[u] = held[u]
        /\ status'[t] = "onIdle" /\ held'[t] = H
    BY LaneSetsAreLanes DEF onIdle, LanesInv, LanesTypeOK, Status
  <1>2. ~Submitted(t) /\ UNCHANGED <<lanes, waitFor, ticket, clock>>
    BY DEF onIdle, Submitted
  <1>3. \A u \in Task : (Submitted(u)' <=> Submitted(u)) /\ (Unreleased(u)' <=> Unreleased(u))
    BY <1>1, <1>2 DEF Submitted, Unreleased
  <1>4. \A u, v \in Task : (Earlier(u, v)' <=> Earlier(u, v)) /\ (Earlier(u, v) => u # t /\ v # t)
    <2>1. ticket[t] = 0
      BY <1>2 DEF LanesInv, LanesTypeOK, Tickets
    <2> QED BY <2>1, <1>2 DEF Earlier, LanesInv, LanesTypeOK
  <1>5. Tickets' /\ NamedLanes' /\ NoEarlyWait'
    BY <1>1, <1>2, <1>3 DEF LanesInv, Tickets, NamedLanes, NoEarlyWait
  <1>6. MapIsLastRequest'
    <2>1. SUFFICES ASSUME NEW l \in Lane
                   PROVE /\ lanes[l] # NoTask => l \in held'[lanes[l]] /\ Unreleased(lanes[l])'
                         /\ \A u \in Task : Submitted(u)' /\ l \in held'[u] =>
                              \/ lanes[l] = NoTask /\ status'[u] = "released"
                              \/ lanes[l] = u
                              \/ lanes[l] # NoTask /\ Earlier(u, lanes[l])'
      BY <1>2 DEF MapIsLastRequest
    <2>2. lanes[l] # NoTask => /\ lanes[l] \in Task /\ lanes[l] # t
                               /\ Unreleased(lanes[l])'
                               /\ l \in held'[lanes[l]]
      <3>1. lanes[l] # NoTask => lanes[l] \in Task /\ Unreleased(lanes[l]) /\ l \in held[lanes[l]]
        BY <2>1 DEF LanesInv, LanesTypeOK, MapIsLastRequest
      <3>2. lanes[l] # NoTask => lanes[l] # t
        BY <3>1, <1>2 DEF Submitted, Unreleased
      <3>3. lanes'[l] = lanes[l]
        BY <1>2
      <3> QED BY <3>1, <3>2, <3>3, <1>1 DEF Unreleased
    <2>3. ASSUME NEW u \in Task, Submitted(u)', l \in held'[u]
          PROVE  \/ lanes[l] = NoTask /\ status'[u] = "released"
                 \/ lanes[l] = u
                 \/ lanes[l] # NoTask /\ Earlier(u, lanes[l])
      <3>1. Submitted(u) /\ u # t /\ l \in held[u] /\ status'[u] = status[u]
        BY <1>1, <1>2, <1>3, <2>3
      <3> QED BY <3>1, <2>1 DEF LanesInv, MapIsLastRequest
    <2>4. ASSUME NEW u \in Task, lanes[l] # NoTask, Earlier(u, lanes[l]) PROVE Earlier(u, lanes[l])'
      <3>1. lanes'[l] = lanes[l] /\ ticket' = ticket
        BY <1>2
      <3> QED BY <2>4, <3>1 DEF Earlier
    <2> QED BY <2>2, <2>3, <2>4
  <1>7. WaitsOnlyForConflicts'
    <2>1. SUFFICES ASSUME NEW u \in Task, NEW k \in waitFor[u]
                   PROVE  Earlier(k, u)' /\ Conflict(held'[k], held'[u])
      BY <1>2 DEF WaitsOnlyForConflicts, Conflict
    <2>2. k \in Task /\ Earlier(k, u) /\ Conflict(held[k], held[u])
      BY <2>1 DEF LanesInv, LanesTypeOK, WaitsOnlyForConflicts
    <2>3. held'[k] = held[k] /\ held'[u] = held[u]
      BY <2>2, <1>1, <1>4
    <2> QED BY <2>2, <2>3, <1>4
  <1>8. Chain'
    <2>1. SUFFICES ASSUME NEW v \in Task, NEW u \in Task, Earlier(u, v)',
                          Conflict(held'[u], held'[v]), Unreleased(u)'
                   PROVE  \E k \in waitFor[v] : k = u \/ (Earlier(u, k)' /\ Conflict(held'[u], held'[k]))
      BY <1>2 DEF Chain, Conflict
    <2>2. Earlier(u, v) /\ Unreleased(u) /\ held'[u] = held[u] /\ held'[v] = held[v]
      BY <2>1, <1>1, <1>3, <1>4
    <2>3. PICK k \in waitFor[v] : k = u \/ (Earlier(u, k) /\ Conflict(held[u], held[k]))
      BY <2>1, <2>2 DEF LanesInv, Chain
    <2>4. k \in Task
      BY <2>3 DEF LanesInv, LanesTypeOK
    <2>5. Earlier(u, k) => Earlier(u, k)' /\ held'[k] = held[k]
      BY <2>4, <1>1, <1>4
    <2> QED BY <2>2, <2>3, <2>5
  <1>9. NoOvertaking'
    <2>1. SUFFICES ASSUME NEW v \in Task, NEW u \in Task, Earlier(u, v)', Conflict(held'[u], held'[v]),
                          status'[v] \in {"running", "answered", "released"}
                   PROVE  status'[u] = "released"
      BY DEF NoOvertaking, Conflict
    <2>2. Earlier(u, v) /\ u # t /\ v # t
      BY <2>1, <1>4
    <2> QED BY <2>1, <2>2, <1>1 DEF LanesInv, NoOvertaking
  <1> QED BY <1>1, <1>5, <1>6, <1>7, <1>8, <1>9 DEF LanesInv

(* Every step of the queues keeps the inductive invariant. *)
LEMMA NextLanesInv == LanesInv /\ [LanesNext]_laneVars => LanesInv'
  <1> SUFFICES ASSUME LanesInv, [LanesNext]_laneVars PROVE LanesInv'
    OBVIOUS
  <1>1. ASSUME NEW t \in Task, NEW H \in LaneSets, run(t, H) PROVE LanesInv'
    BY <1>1, RunKeepsInv
  <1>2. ASSUME NEW t \in Task, NEW H \in LaneSets, onIdle(t, H) PROVE LanesInv'
    BY <1>2, OnIdleKeepsInv
  <1>3. ASSUME NEW t \in Task, stopWaiting(t) PROVE LanesInv'
    <2>1. LanesTypeOK'
      BY <1>3 DEF stopWaiting, LanesInv, LanesTypeOK, Status
    <2> QED BY <1>3, <2>1, LocalStepKeepsInv DEF stopWaiting, Status
  <1>4. ASSUME NEW t \in Task, start(t) PROVE LanesInv'
    <2>1. LanesTypeOK'
      BY <1>4 DEF start, LanesInv, LanesTypeOK, Status
    <2>2. \A u \in Task : Earlier(u, t) /\ Conflict(held[u], held[t]) => status[u] = "released"
      BY <1>4, StartIsInTurn
    <2> QED BY <1>4, <2>1, <2>2, LocalStepKeepsInv DEF start, Status, Unreleased
  <1>5. ASSUME NEW t \in Task, holdUntil(t) \/ afterSettles(t) PROVE LanesInv'
    <2>1. LanesTypeOK' /\ status[t] \in Status /\ status' = [status EXCEPT ![t] = status[t]]
      BY <1>5 DEF holdUntil, afterSettles, LanesInv, LanesTypeOK
    <2> QED BY <1>5, <2>1, LocalStepKeepsInv DEF holdUntil, afterSettles
  <1>6. ASSUME NEW t \in Task, answer(t) PROVE LanesInv'
    <2>1. LanesTypeOK'
      BY <1>6 DEF answer, LanesInv, LanesTypeOK, Status
    <2> QED BY <1>6, <2>1, LocalStepKeepsInv DEF answer, Status, Unreleased
  <1>7. ASSUME NEW t \in Task, release(t) PROVE LanesInv'
    BY <1>7, ReleaseKeepsInv
  <1>8. CASE UNCHANGED laneVars
    BY <1>8 DEF laneVars, LanesInv, LanesTypeOK, Tickets, NamedLanes, NoEarlyWait, MapIsLastRequest,
                WaitsOnlyForConflicts, Chain, NoOvertaking, Submitted, Unreleased, Earlier
  <1> QED BY <1>1, <1>2, <1>3, <1>4, <1>5, <1>6, <1>7, <1>8 DEF LanesNext, Proceed

(* The inductive invariant holds in every state of every behaviour. *)
THEOREM LanesInvariant == LanesSafetySpec => []LanesInv
  BY InitLanesInv, NextLanesInv, PTL DEF LanesSafetySpec

(* The queues are well typed, whatever is asked of them. *)
THEOREM LanesTypeCorrect == LanesSafetySpec => []LanesTypeOK
  <1>1. LanesInv => LanesTypeOK
    BY DEF LanesInv
  <1> QED BY LanesInvariant, <1>1, PTL

(* Of two operations that hold their lanes one came first, so the other's  *)
(* having begun means they do not conflict.                                *)
LEMMA LanesInvExcludes == LanesInv => NoConflictBeside
  <1> SUFFICES ASSUME LanesInv, NEW t \in Task, NEW u \in Task, t # u,
                      Busy(t), Busy(u), Conflict(held[t], held[u])
               PROVE  FALSE
    BY DEF NoConflictBeside
  <1>1. Submitted(t) /\ Submitted(u)
    BY DEF Submitted, Busy
  <1>2. Earlier(t, u) \/ Earlier(u, t)
    BY <1>1 DEF LanesInv, LanesTypeOK, Tickets, Earlier
  <1>3. Conflict(held[u], held[t])
    BY DEF Conflict
  <1> QED BY <1>2, <1>3 DEF LanesInv, NoOvertaking, Busy

(* Two conflicting operations - on one app, on Docker and an app, or one   *)
(* of them exclusive - never hold their lanes at the same time.            *)
THEOREM MutualExclusion == LanesSafetySpec => []NoConflictBeside
  BY LanesInvariant, LanesInvExcludes, PTL

(* An operation never begins before an earlier one it conflicts with ends. *)
THEOREM FirstComeFirstServed == LanesSafetySpec => []NoOvertaking
  <1>1. LanesInv => NoOvertaking
    BY DEF LanesInv
  <1> QED BY LanesInvariant, <1>1, PTL

(* An operation never waits for one it does not conflict with. *)
THEOREM UnrelatedWorkNeverWaits == LanesSafetySpec => []WaitsOnlyForConflicts
  <1>1. LanesInv => WaitsOnlyForConflicts
    BY DEF LanesInv
  <1> QED BY LanesInvariant, <1>1, PTL

(* The map of lanes is exact, so an empty map is an idle helper. *)
THEOREM MapExact == LanesSafetySpec => []MapIsLastRequest
  <1>1. LanesInv => MapIsLastRequest
    BY DEF LanesInv
  <1> QED BY LanesInvariant, <1>1, PTL

(* The state of the abstract lock each state of a request stands for. *)
LEMMA PhaseValues ==
    /\ AbsPhase("new") = "none" /\ AbsPhase("onIdle") = "none" /\ AbsPhase("stopped") = "none"
    /\ AbsPhase("waiting") = "waiting"
    /\ AbsPhase("running") = "busy" /\ AbsPhase("answered") = "busy"
    /\ AbsPhase("released") = "done"
  BY DEF AbsPhase

(* The queues implement the first-come-first-served lock of LaneLock:      *)
(* every step of theirs is one step of the lock or changes nothing in it.  *)
THEOREM Refinement == LanesSafetySpec => ImplementsLaneLock
  <1> DEFINE ph == [t \in Task |-> AbsPhase(status[t])]
  <1>1. LanesInit => Abs!AbsInit
    BY DEF LanesInit, Abs!AbsInit, AbsPhase
  <1>2. LanesInv /\ [LanesNext]_laneVars => [Abs!AbsNext]_(Abs!absVars)
    <2> SUFFICES ASSUME LanesInv, [LanesNext]_laneVars
                 PROVE  [Abs!AbsNext]_(Abs!absVars)
      OBVIOUS
    <2>0. \A u \in Task : ph[u] = AbsPhase(status[u])
      OBVIOUS
    <2>t. status \in [Task -> Status] /\ held \in [Task -> SUBSET Lane] /\ ticket \in [Task -> Nat]
      BY DEF LanesInv, LanesTypeOK
    <2>1. ASSUME NEW t \in Task, NEW H \in LaneSets, run(t, H) PROVE Abs!AbsAsk(t)
      <3>1. ph' = [ph EXCEPT ![t] = "waiting"]
        BY <2>1, <2>t, PhaseValues DEF run
      <3> QED BY <2>1, <3>1 DEF run, Abs!AbsAsk, AbsPhase
    <2>2. ASSUME NEW t \in Task, NEW H \in LaneSets, onIdle(t, H) PROVE Abs!AbsName(t)
      <3>1. ph' = ph
        BY <2>2, <2>t, PhaseValues DEF onIdle
      <3> QED BY <2>2, <3>1 DEF onIdle, Abs!AbsName, AbsPhase
    <2>3. ASSUME NEW t \in Task, stopWaiting(t) \/ holdUntil(t) \/ afterSettles(t) \/ answer(t)
          PROVE  UNCHANGED Abs!absVars
      <3>1. ph' = ph
        BY <2>3, <2>t, PhaseValues DEF stopWaiting, holdUntil, afterSettles, answer
      <3> QED BY <2>3, <3>1 DEF stopWaiting, holdUntil, afterSettles, answer, Abs!absVars
    <2>4. ASSUME NEW t \in Task, start(t) PROVE Abs!AbsBegin(t)
      <3>1. ph' = [ph EXCEPT ![t] = "busy"]
        BY <2>4, <2>t, PhaseValues DEF start
      <3>2. \A u \in Task : Earlier(u, t) /\ Conflict(held[u], held[t]) => ph[u] = "done"
        BY <2>4, StartIsInTurn DEF AbsPhase
      <3> QED BY <2>4, <3>1, <3>2 DEF start, Abs!AbsBegin, Abs!Earlier, Abs!Conflict, Earlier, Conflict, AbsPhase,
                                     Abs!exclusiveLane, Abs!dockerLane, exclusiveLane, dockerLane
    <2>5. ASSUME NEW t \in Task, release(t) PROVE Abs!AbsEnd(t) \/ \E w \in Task : Abs!AbsEndAndAsk(t, w)
      <3>1. ph[t] = "busy"
        BY <2>5 DEF release, AbsPhase
      <3>2. CASE status' = [status EXCEPT ![t] = "released"] /\ UNCHANGED <<ticket, clock, held>>
        <4>1. ph' = [ph EXCEPT ![t] = "done"]
          BY <3>2, <2>t, PhaseValues
        <4> QED BY <3>1, <3>2, <4>1 DEF Abs!AbsEnd
      <3>3. ASSUME NEW w \in idleWaiters, clock' = clock + 1, ticket' = [ticket EXCEPT ![w] = clock + 1],
                   status' = [status EXCEPT ![t] = "released", ![w] = "waiting"], UNCHANGED held
            PROVE  \E v \in Task : Abs!AbsEndAndAsk(t, v)
        <4>1. w \in Task /\ status[w] = "onIdle" /\ held[w] \in LaneSets /\ w # t
          BY <2>5 DEF idleWaiters, LanesInv, NamedLanes, release
        <4>2. ph' = [ph EXCEPT ![t] = "done", ![w] = "waiting"]
          BY <3>3, <4>1, <2>t, PhaseValues
        <4>3. ph[w] = "none"
          BY <4>1 DEF AbsPhase
        <4> QED BY <3>1, <3>3, <4>1, <4>2, <4>3 DEF Abs!AbsEndAndAsk
      <3> QED BY <2>5, <3>2, <3>3 DEF release
    <2>6. CASE UNCHANGED laneVars
      BY <2>6 DEF laneVars, Abs!absVars
    <2> QED BY <2>1, <2>2, <2>3, <2>4, <2>5, <2>6 DEF LanesNext, Proceed, Abs!AbsNext
  <1> QED BY <1>1, <1>2, LanesInvariant, PTL DEF LanesSafetySpec, ImplementsLaneLock, Abs!AbsSpec
-----------------------------------------------------------------------------
(* The process.                                                            *)

SvcFrame == {"queued", "started", "restarting", "busy", "ok", "failed"}

(* Every variable of the helper and its clients has its type. *)
SvcTypeOK ==
    /\ client \in [Req -> {"idle", "sent", "settled"}]
    /\ heard \in [Req -> {"none", "queued", "started"}]
    /\ outcome \in [Req -> Outcome]
    /\ inbox \in [Req -> Seq(SvcFrame)]
    /\ conn \in [Req -> {"none", "open", "handled", "ended", "closed"}]
    /\ peerGone \in [Req -> BOOLEAN] /\ willWait \in [Req -> BOOLEAN]
    /\ waiting \subseteq Req /\ refused \subseteq Req
    /\ admitted \subseteq Req /\ executed \subseteq Req
    /\ limit \in Limits
    /\ helper \in {"up", "stopping", "down"} /\ restarting \in BOOLEAN
    /\ pending \in RestartTask \union {NoTask}
    /\ entryUnits \in [RestartTask -> SUBSET Units]
    /\ unfinished \subseteq Units /\ needed \subseteq Units

(* Where a request stands on its connection agrees with where it stands in *)
(* the lanes.                                                              *)
ConnOK(t) ==
    /\ client[t] = "idle" => conn[t] = "none" /\ heard[t] = "none" /\ inbox[t] = <<>>
    /\ conn[t] \in {"none", "open"} => status[t] = "new"
    /\ status[t] \notin {"onIdle", "stopped"}
    /\ t \in waiting => conn[t] = "handled" /\ status[t] = "waiting"
    /\ t \in refused => conn[t] = "ended"
    /\ status[t] = "waiting" => t \in waiting \union refused
    /\ t \in executed => status[t] \notin {"new", "waiting"}
    /\ peerGone[t] => client[t] = "settled"
    /\ status[t] = "running" /\ t \notin executed => peerGone[t] \/ conn[t] # "handled"

ConnInv == \A t \in Req : ConnOK(t)

AdmissionInv == AdmissionExact /\ IsFiniteSet(admitted)

(* A restart waits, or runs, for the exclusive lane and for the web service *)
(* at least; later requests join one that does; and requests are turned     *)
(* away only while one runs.                                                *)
LiveRestart == {r \in RestartTask : status[r] \in {"onIdle", "waiting", "running"}}
Owed(x) == x \in unfinished \/ \E r \in LiveRestart : x \in entryUnits[r]
RestartInv ==
    /\ \A r \in RestartTask : status[r] # "new" => held[r] = RestartLanes /\ "web" \in entryUnits[r]
    /\ pending # NoTask => pending \in LiveRestart
    /\ restarting => \E r \in RestartTask : status[r] = "running"
    /\ \A x \in needed : Owed(x)

SvcInv == LanesInv /\ SvcTypeOK /\ ConnInv /\ AdmissionInv /\ RestartInv
USE ServiceAssumption
-----------------------------------------------------------------------------
(* Releasing a request's lanes ends it, and may let one that waited for    *)
(* idleness ask.                                                           *)
LEMMA ReleaseEffect ==
    ASSUME LanesTypeOK, NEW t \in Task, release(t)
    PROVE  \A u \in Task : \/ status'[u] = status[u]
                           \/ u = t /\ status[u] = "answered" /\ status'[u] = "released"
                           \/ status[u] = "onIdle" /\ status'[u] = "waiting"
  <1>1. status \in [Task -> Status] /\ status[t] = "answered"
    BY DEF LanesTypeOK, release
  <1>2. CASE status' = [status EXCEPT ![t] = "released"]
    BY <1>1, <1>2
  <1>3. ASSUME NEW w \in idleWaiters, status' = [status EXCEPT ![t] = "released", ![w] = "waiting"]
        PROVE  \A u \in Task : \/ status'[u] = status[u]
                               \/ u = t /\ status[u] = "answered" /\ status'[u] = "released"
                               \/ status[u] = "onIdle" /\ status'[u] = "waiting"
    BY <1>1, <1>3 DEF idleWaiters
  <1> QED BY <1>2, <1>3 DEF release

(* The process lost: every lane is free, whatever held one is over.        *)
LEMMA LoseKeepsLanes == LanesInv /\ LoseHelper => LanesInv'
  <1> SUFFICES ASSUME LanesInv, LoseHelper PROVE LanesInv'
    OBVIOUS
  <1>t. LanesTypeOK
    BY DEF LanesInv
  <1>1. /\ lanes' = [l \in Lane |-> NoTask] /\ after' = [t \in Task |-> FALSE]
        /\ UNCHANGED <<held, waitFor, ticket, clock>>
    BY DEF LoseHelper
  <1>2. \A t \in Task : /\ status'[t] = IF Unreleased(t) THEN "released" ELSE IF status[t] = "onIdle" THEN "stopped" ELSE status[t]
                        /\ Submitted(t)' <=> Submitted(t)
                        /\ ~Unreleased(t)'
                        /\ status'[t] = "new" <=> status[t] = "new"
                        /\ Submitted(t) => status'[t] = "released"
    BY <1>t DEF LoseHelper, LanesTypeOK, Status, Submitted, Unreleased
  <1>3. LanesTypeOK'
    <2>1. status' \in [Task -> Status]
      BY <1>t DEF LoseHelper, LanesTypeOK, Status
    <2> QED BY <1>t, <1>1, <2>1 DEF LanesTypeOK
  <1>4. Tickets' /\ NamedLanes' /\ NoEarlyWait'
    BY <1>1, <1>2 DEF LanesInv, Tickets, NamedLanes, NoEarlyWait
  <1>5. MapIsLastRequest'
    BY <1>1, <1>2 DEF MapIsLastRequest
  <1>6. WaitsOnlyForConflicts'
    BY <1>1 DEF LanesInv, WaitsOnlyForConflicts, Earlier
  <1>7. Chain'
    BY <1>1, <1>2 DEF Chain
  <1>8. NoOvertaking'
    <2>1. \A u, t \in Task : Earlier(u, t)' => Submitted(u)
      BY <1>1 DEF Earlier, LanesInv, LanesTypeOK, Tickets
    <2> QED BY <1>1, <1>2, <2>1 DEF NoOvertaking
  <1> QED BY <1>3, <1>4, <1>5, <1>6, <1>7, <1>8 DEF LanesInv

(* Every step of the helper is a step of its lanes, loses them with the    *)
(* process, or leaves them alone.                                          *)
LEMMA StepsKeepLanes == [SvcNext]_svcVars => LoseHelper \/ [LanesNext]_laneVars
  <1> SUFFICES ASSUME [SvcNext]_svcVars, ~LoseHelper PROVE [LanesNext]_laneVars
    OBVIOUS
  <1>0. Req \subseteq Task /\ RestartTask \subseteq Task /\ RestartLanes \in LaneSets
    BY DEF RestartLanes
  <1>1. ASSUME NEW t \in Req, Connect(t) \/ ClientStep(t) PROVE UNCHANGED laneVars
    BY <1>1 DEF Connect, ClientStep, Deliver, Deadline, SeeClose
  <1>2. ASSUME NEW t \in Req, HelperStep(t) PROVE [LanesNext]_laneVars
    <2>1. CASE SeePeerGone(t) \/ TurnAway(t) \/ IdleOut(t)
      BY <2>1 DEF SeePeerGone, TurnAway, IdleOut
    <2>2. CASE Admit(t)
      <3>1. t \in Task /\ LanesOf[t] \in LaneSets /\ run(t, LanesOf[t])
        BY <1>0, <2>2 DEF Admit
      <3> QED BY <3>1 DEF LanesNext
    <2>3. CASE Begin(t) \/ (\E how \in {"ok", "failed"} : Finish(t, how)) \/ Linger(t)
      BY <1>0, <2>3 DEF Begin, Finish, Linger, LanesNext, Proceed
    <2> QED BY <1>2, <2>1, <2>2, <2>3 DEF HelperStep
  <1>3. ASSUME NEW t \in Req, NEW units, RequestRestart(t, units) PROVE [LanesNext]_laneVars
    BY <1>0, <1>3 DEF RequestRestart, LanesNext
  <1>4. ASSUME NEW r \in RestartTask, GiveUp(r) \/ BeginRestart(r) \/ \E ok \in BOOLEAN : RestartReturns(r, ok)
        PROVE  LanesNext
    BY <1>0, <1>4 DEF GiveUp, BeginRestart, RestartReturns, LanesNext, Proceed
  <1>5. ASSUME NEW r \in RestartTask, GraceOver(r) \/ RestartHelper(r) PROVE UNCHANGED laneVars
    BY <1>5 DEF GraceOver, RestartHelper
  <1>6. ASSUME NEW t \in Task, LingerEnds(t) \/ GiveBack(t) PROVE LanesNext
    BY <1>6 DEF LingerEnds, GiveBack, LanesNext, Proceed
  <1>7. ASSUME Stop \/ Die \/ Up \/ WebDies \/ UNCHANGED svcVars PROVE UNCHANGED laneVars
    BY <1>7 DEF Stop, Die, Up, WebDies, svcVars
  <1> QED BY <1>1, <1>2, <1>3, <1>4, <1>5, <1>6, <1>7 DEF SvcNext

(* Every step keeps the lanes' own invariant. *)
LEMMA SvcLanesStep == LanesInv /\ [SvcNext]_svcVars => LanesInv'
  BY StepsKeepLanes, LoseKeepsLanes, NextLanesInv
-----------------------------------------------------------------------------
(* The helper starts with nobody connected and nothing owed. *)
LEMMA InitSvcInv == SvcInit => SvcInv
  <1> SUFFICES ASSUME SvcInit PROVE SvcInv
    OBVIOUS
  <1>1. LanesInv
    BY InitLanesInv DEF SvcInit
  <1>2. SvcTypeOK
    <2>1. <<>> \in Seq(SvcFrame)
      OBVIOUS
    <2>2. inbox \in [Req -> Seq(SvcFrame)]
      BY <2>1 DEF SvcInit
    <2> QED BY <2>2 DEF SvcInit, SvcTypeOK, Outcome
  <1>3. \A t \in Task : status[t] = "new"
    BY DEF SvcInit, LanesInit
  <1>4. ConnInv
    BY <1>3 DEF SvcInit, ConnInv, ConnOK
  <1>5. AdmissionInv
    <2>1. Cardinality({}) = 0 /\ IsFiniteSet({})
      BY FS_EmptySet
    <2>2. admitted = {} /\ limit \in Nat
      BY DEF SvcInit
    <2>3. {t \in Req : status[t] \in {"waiting", "running"}} = {}
      BY <1>3
    <2> QED BY <2>1, <2>2, <2>3 DEF AdmissionInv, AdmissionExact
  <1>6. RestartInv
    BY <1>3 DEF SvcInit, RestartInv
  <1> QED BY <1>1, <1>2, <1>4, <1>5, <1>6 DEF SvcInv

(* A reply is a frame on the way to each request it is for. *)
LEMMA ReplyTypes ==
    ASSUME SvcTypeOK, NEW S, NEW frame \in SvcFrame, Reply(S, frame)
    PROVE  /\ inbox' \in [Req -> Seq(SvcFrame)]
           /\ conn' \in [Req -> {"none", "open", "handled", "ended", "closed"}]
  <1>1. \A t \in Req : inbox[t] \in Seq(SvcFrame) /\ Append(inbox[t], frame) \in Seq(SvcFrame)
    BY DEF SvcTypeOK
  <1> QED BY <1>1 DEF Reply, SvcTypeOK

(* What is lost with either process. *)
LEMMA LoseTypes ==
    /\ SvcTypeOK /\ LoseClients =>
          client' \in [Req -> {"idle", "sent", "settled"}] /\ outcome' \in [Req -> Outcome]
    /\ SvcTypeOK /\ LoseHelper =>
          /\ conn' \in [Req -> {"none", "open", "handled", "ended", "closed"}]
          /\ waiting' = {} /\ refused' = {} /\ admitted' = {} /\ executed' = executed
          /\ helper' = "down" /\ restarting' = FALSE /\ pending' = NoTask /\ unfinished' = {}
          /\ UNCHANGED <<peerGone, willWait, limit, entryUnits>>
  BY DEF SvcTypeOK, LoseClients, LoseHelper, Outcome

(* Every step keeps the types. *)
LEMMA SvcTypeStep == SvcTypeOK /\ [SvcNext]_svcVars => SvcTypeOK'
  <1> SUFFICES ASSUME SvcTypeOK, [SvcNext]_svcVars PROVE SvcTypeOK'
    OBVIOUS
  <1>c. ASSUME UNCHANGED <<connVars, restartVars>>,
               client' \in [Req -> {"idle", "sent", "settled"}], heard' \in [Req -> {"none", "queued", "started"}],
               outcome' \in [Req -> Outcome], inbox' \in [Req -> Seq(SvcFrame)]
        PROVE  SvcTypeOK'
    BY <1>c DEF SvcTypeOK, connVars, restartVars
  <1>r. ASSUME UNCHANGED <<connVars, clientVars, limit, helper, restarting>>,
               pending' \in RestartTask \union {NoTask}, entryUnits' \in [RestartTask -> SUBSET Units],
               unfinished' \subseteq Units, needed' \subseteq Units
        PROVE  SvcTypeOK'
    BY <1>r DEF SvcTypeOK, connVars, clientVars
  <1>h. ASSUME UNCHANGED <<restartVars, client, heard, outcome>>,
               inbox' \in [Req -> Seq(SvcFrame)],
               conn' \in [Req -> {"none", "open", "handled", "ended", "closed"}],
               peerGone' \in [Req -> BOOLEAN], willWait' \in [Req -> BOOLEAN],
               waiting' \subseteq Req, refused' \subseteq Req, admitted' \subseteq Req, executed' \subseteq Req
        PROVE  SvcTypeOK'
    BY <1>h DEF SvcTypeOK, restartVars
  <1>s. \A t \in Req : inbox[t] \in Seq(SvcFrame) /\ \A f \in SvcFrame : Append(inbox[t], f) \in Seq(SvcFrame)
    BY DEF SvcTypeOK
  <1>1. ASSUME NEW t \in Req, Connect(t) PROVE SvcTypeOK'
    BY <1>1 DEF Connect, Settle, SvcTypeOK, Outcome, restartVars
  <1>2. ASSUME NEW t \in Req, Deliver(t) PROVE SvcTypeOK'
    <2>1. Head(inbox[t]) \in SvcFrame /\ Tail(inbox[t]) \in Seq(SvcFrame)
      BY <1>2, <1>s DEF Deliver
    <2>2. Head(inbox[t]) \notin {"queued", "started"} => Head(inbox[t]) \in Outcome
      BY <2>1 DEF SvcFrame, Outcome
    <2>3. inbox' \in [Req -> Seq(SvcFrame)] /\ UNCHANGED <<connVars, restartVars>>
      BY <1>2, <2>1 DEF Deliver, SvcTypeOK
    <2>4. /\ client' \in [Req -> {"idle", "sent", "settled"}] /\ heard' \in [Req -> {"none", "queued", "started"}]
          /\ outcome' \in [Req -> Outcome]
      <3> DEFINE frame == Head(inbox[t])
      <3>1. CASE frame = "queued" \/ frame = "started"
        BY <1>2, <3>1 DEF Deliver, SvcTypeOK
      <3>2. CASE frame \notin {"queued", "started"}
        <4>1. Settle(t, frame) /\ UNCHANGED heard /\ frame \in Outcome
          BY <1>2, <2>2, <3>2 DEF Deliver
        <4> QED BY <4>1 DEF Settle, SvcTypeOK
      <3> QED BY <3>1, <3>2
    <2> QED BY <1>c, <2>3, <2>4
  <1>3. ASSUME NEW t \in Req, Deadline(t) \/ SeeClose(t) PROVE SvcTypeOK'
    <2>1. /\ \E how \in {"timeoutQueued", "timeoutRunning", "closed"} : Settle(t, how)
          /\ UNCHANGED <<connVars, restartVars, heard, inbox>>
      BY <1>3 DEF Deadline, SeeClose
    <2> QED BY <1>c, <2>1 DEF Settle, SvcTypeOK, Outcome
  <1>4. ASSUME NEW t \in Req, SeePeerGone(t) PROVE SvcTypeOK'
    BY <1>h, <1>4 DEF SeePeerGone, SvcTypeOK, clientVars
  <1>5. ASSUME NEW t \in Req, TurnAway(t) PROVE SvcTypeOK'
    <2>1. \E frame \in SvcFrame : Reply({t}, frame)
      BY <1>5 DEF TurnAway, SvcFrame
    <2> QED BY <1>h, <1>5, <2>1, ReplyTypes DEF TurnAway, SvcTypeOK
  <1>6. ASSUME NEW t \in Req, Admit(t) PROVE SvcTypeOK'
    <2>1. busy(LanesOf[t]) \in BOOLEAN /\ "queued" \in SvcFrame
      BY DEF busy, SvcFrame
    <2>2. inbox' \in [Req -> Seq(SvcFrame)]
      BY <1>6, <1>s, <2>1 DEF Admit, SvcTypeOK
    <2> QED BY <1>h, <1>6, <2>1, <2>2 DEF Admit, SvcTypeOK
  <1>7. ASSUME NEW t \in Req, Begin(t) PROVE SvcTypeOK'
    <2>1. "started" \in SvcFrame
      BY DEF SvcFrame
    <2>2. inbox' \in [Req -> Seq(SvcFrame)]
      BY <1>7, <1>s, <2>1 DEF Begin, SvcTypeOK
    <2> QED BY <1>h, <1>7, <2>2 DEF Begin, SvcTypeOK
  <1>8. ASSUME NEW t \in Req, NEW how \in {"ok", "failed"}, Finish(t, how) PROVE SvcTypeOK'
    <2>1. how \in SvcFrame
      BY DEF SvcFrame
    <2>2. inbox' \in [Req -> Seq(SvcFrame)] /\ conn' \in [Req -> {"none", "open", "handled", "ended", "closed"}]
      BY <1>8, <2>1, ReplyTypes DEF Finish, SvcTypeOK
    <2> QED BY <1>h, <1>8, <2>2 DEF Finish, SvcTypeOK
  <1>9. ASSUME NEW t \in Req, IdleOut(t) PROVE SvcTypeOK'
    BY <1>h, <1>9 DEF IdleOut, SvcTypeOK, clientVars
  <1>10. ASSUME UNCHANGED <<connVars, clientVars, restartVars>> PROVE SvcTypeOK'
    BY <1>10, <1>c DEF SvcTypeOK, clientVars
  <1>11. ASSUME NEW t \in Req, NEW units \in {{"web"}, {"web", "helper"}}, RequestRestart(t, units) PROVE SvcTypeOK'
    <2>1. units \subseteq Units /\ needed' = needed \union units
          /\ UNCHANGED <<connVars, clientVars, limit, helper, restarting, unfinished>>
      BY <1>11 DEF RequestRestart, Units
    <2>2. CASE pending # NoTask
      <3>1. pending' = pending /\ entryUnits' = [entryUnits EXCEPT ![pending] = @ \union units]
        BY <1>11, <2>2 DEF RequestRestart
      <3> QED BY <1>r, <2>1, <2>2, <3>1 DEF SvcTypeOK
    <2>3. ASSUME NEW r \in RestartTask, pending' = r, entryUnits' = [entryUnits EXCEPT ![r] = units \union unfinished]
          PROVE  SvcTypeOK'
      BY <1>r, <2>1, <2>3 DEF SvcTypeOK
    <2> QED BY <1>11, <2>2, <2>3 DEF RequestRestart
  <1>12. ASSUME NEW r \in RestartTask, GiveUp(r) \/ GraceOver(r) PROVE SvcTypeOK'
    BY <1>r, <1>12 DEF GiveUp, GraceOver, SvcTypeOK
  <1>13. ASSUME Reply(waiting, "restarting"), refused' = refused \union waiting, waiting' = {},
                UNCHANGED <<client, heard, outcome, peerGone, willWait, admitted, executed, limit, pending, entryUnits, unfinished, needed>>,
                helper' \in {"up", "stopping", "down"}, restarting' \in BOOLEAN
         PROVE  SvcTypeOK'
    <2>1. "restarting" \in SvcFrame
      BY DEF SvcFrame
    <2> QED BY <1>13, <2>1, ReplyTypes DEF SvcTypeOK
  <1>14. ASSUME Stop \/ \E r \in RestartTask : BeginRestart(r) PROVE SvcTypeOK'
    BY <1>13, <1>14 DEF Stop, BeginRestart, SvcTypeOK
  <1>15. ASSUME NEW r \in RestartTask, RestartHelper(r) PROVE SvcTypeOK'
    BY <1>15, LoseTypes DEF RestartHelper, SvcTypeOK
  <1>16. CASE Die
    BY <1>16, LoseTypes DEF Die, clientVars, SvcTypeOK
  <1>17. ASSUME NEW r \in RestartTask, NEW ok \in BOOLEAN, RestartReturns(r, ok) PROVE SvcTypeOK'
    BY <1>17, LoseTypes DEF RestartReturns, connVars, SvcTypeOK
  <1>18. CASE Up
    BY <1>18 DEF Up, connVars, clientVars, SvcTypeOK
  <1>19. CASE WebDies
    BY <1>c, <1>19, LoseTypes DEF WebDies, SvcTypeOK
  <1>20. CASE UNCHANGED svcVars
    BY <1>10, <1>20 DEF svcVars
  <1> QED BY <1>1, <1>2, <1>3, <1>4, <1>5, <1>6, <1>7, <1>8, <1>9, <1>10, <1>11, <1>12, <1>14, <1>15, <1>16,
             <1>17, <1>18, <1>19, <1>20 DEF SvcNext, ClientStep, HelperStep, Linger, LingerEnds, GiveBack
-----------------------------------------------------------------------------
(* What a restart does in the lanes moves no request. *)
LEMMA RestartsApart ==
    ASSUME LanesTypeOK, NEW r \in RestartTask,
           start(r) \/ answer(r) \/ stopWaiting(r) \/ onIdle(r, RestartLanes)
    PROVE  \A t \in Req : status'[t] = status[t]
  BY DEF LanesTypeOK, start, answer, stopWaiting, onIdle

(* Releasing a request's lanes moves no other request. *)
LEMMA RequestsReleased ==
    ASSUME LanesTypeOK, ConnInv, NEW t \in Task, release(t)
    PROVE  \A u \in Req : status'[u] = status[u] \/ (status[u] = "answered" /\ status'[u] = "released")
  <1>1. \A u \in Req : u \in Task /\ status[u] # "onIdle"
    BY DEF ConnInv, ConnOK
  <1> QED BY <1>1, ReleaseEffect

(* Every step keeps a request's connection and its place in the lanes      *)
(* agreed.                                                                 *)
LEMMA ConnStep == LanesTypeOK /\ SvcTypeOK /\ ConnInv /\ [SvcNext]_svcVars => ConnInv'
  <1> SUFFICES ASSUME LanesTypeOK, SvcTypeOK, ConnInv, [SvcNext]_svcVars PROVE ConnInv'
    OBVIOUS
  <1>t. /\ client \in [Req -> {"idle", "sent", "settled"}] /\ heard \in [Req -> {"none", "queued", "started"}]
        /\ inbox \in [Req -> Seq(SvcFrame)] /\ peerGone \in [Req -> BOOLEAN]
        /\ conn \in [Req -> {"none", "open", "handled", "ended", "closed"}]
        /\ status \in [Task -> Status]
    BY DEF SvcTypeOK, LanesTypeOK
  <1>k. \A t \in Req : ConnOK(t)
    BY DEF ConnInv
  <1>1. ASSUME NEW t \in Req, Connect(t) PROVE ConnInv'
    BY <1>t, <1>k, <1>1 DEF Connect, Settle, ConnInv, ConnOK, laneVars
  <1>2. ASSUME NEW t \in Req, ClientStep(t) PROVE ConnInv'
    <2>1. /\ UNCHANGED <<laneVars, connVars>> /\ client[t] = "sent"
          /\ \/ client' = client
             \/ client' = [client EXCEPT ![t] = "settled"]
          /\ \A q \in Req \ {t} : heard'[q] = heard[q] /\ inbox'[q] = inbox[q]
      BY <1>t, <1>2 DEF ClientStep, Deliver, Deadline, SeeClose, Settle
    <2>2. \A q \in Req : client'[q] = client[q] \/ (q = t /\ client'[q] = "settled")
      BY <1>t, <2>1
    <2> QED BY <1>t, <1>k, <2>1, <2>2 DEF ConnInv, ConnOK, laneVars, connVars
  <1>3. ASSUME NEW t \in Req, SeePeerGone(t) PROVE ConnInv'
    BY <1>t, <1>k, <1>3 DEF SeePeerGone, ConnInv, ConnOK, laneVars, clientVars
  <1>4. ASSUME NEW t \in Req, TurnAway(t) PROVE ConnInv'
    <2>1. /\ conn[t] = "open" /\ client[t] # "idle"
          /\ UNCHANGED <<laneVars, client, heard, peerGone, waiting, refused, executed>>
          /\ \A q \in Req : conn'[q] = IF q = t THEN "ended" ELSE conn[q]
          /\ \A q \in Req : q # t => inbox'[q] = inbox[q]
      BY <1>4 DEF TurnAway, Reply
    <2> QED BY <1>k, <2>1 DEF ConnInv, ConnOK, laneVars
  <1>5. ASSUME NEW t \in Req, Admit(t) PROVE ConnInv'
    <2>1. /\ conn[t] = "open" /\ waiting' = waiting \union {t}
          /\ UNCHANGED <<client, heard, peerGone, refused, executed>>
          /\ \A q \in Req : conn'[q] = IF q = t THEN "handled" ELSE conn[q]
          /\ \A q \in Req : q # t => inbox'[q] = inbox[q]
          /\ \A q \in Req : status'[q] = IF q = t THEN "waiting" ELSE status[q]
      BY <1>t, <1>5 DEF Admit, run
    <2> QED BY <1>k, <2>1 DEF ConnInv, ConnOK
  <1>6. ASSUME NEW t \in Req, Begin(t) PROVE ConnInv'
    <2>1. /\ status[t] = "waiting" /\ waiting' = waiting \ {t}
          /\ executed' = IF t \notin refused /\ ~peerGone[t] THEN executed \union {t} ELSE executed
          /\ UNCHANGED <<client, heard, conn, peerGone, refused>>
          /\ \A q \in Req : q # t => inbox'[q] = inbox[q]
          /\ \A q \in Req : status'[q] = IF q = t THEN "running" ELSE status[q]
      BY <1>t, <1>6 DEF Begin, start
    <2>2. client[t] # "idle"
      BY <1>k, <2>1 DEF ConnOK
    <2> QED BY <1>k, <2>1, <2>2 DEF ConnInv, ConnOK
  <1>7. ASSUME NEW t \in Req, NEW how, Finish(t, how) PROVE ConnInv'
    <2>1. /\ status[t] = "running"
          /\ UNCHANGED <<client, heard, peerGone, waiting, refused, executed>>
          /\ \A q \in Req : conn'[q] = conn[q] \/ (q = t /\ conn'[q] = "ended")
          /\ \A q \in Req : q # t => inbox'[q] = inbox[q]
          /\ \A q \in Req : status'[q] = IF q = t THEN "answered" ELSE status[q]
      BY <1>t, <1>7 DEF Finish, answer, Reply
    <2>2. client[t] # "idle"
      BY <1>k, <2>1 DEF ConnOK
    <2> QED BY <1>k, <2>1, <2>2 DEF ConnInv, ConnOK
  <1>8. ASSUME NEW t \in Req, IdleOut(t) PROVE ConnInv'
    BY <1>t, <1>k, <1>8 DEF IdleOut, ConnInv, ConnOK, laneVars, clientVars
  <1>9. ASSUME UNCHANGED <<connVars, clientVars>>, \A q \in Req : \/ status'[q] = status[q]
                                                                  \/ status[q] = "answered" /\ status'[q] = "released"
        PROVE  ConnInv'
    BY <1>k, <1>9 DEF connVars, clientVars, ConnInv, ConnOK
  <1>10. ASSUME NEW t \in Req, Linger(t) PROVE ConnInv'
    BY <1>9, <1>10 DEF Linger, holdUntil
  <1>11. ASSUME NEW t \in Task, LingerEnds(t) \/ GiveBack(t) PROVE ConnInv'
    BY <1>9, <1>11, RequestsReleased DEF LingerEnds, afterSettles, GiveBack
  <1>12. ASSUME NEW t \in Req, NEW units, RequestRestart(t, units) PROVE ConnInv'
    BY <1>9, <1>12, RestartsApart DEF RequestRestart, laneVars
  <1>13. ASSUME NEW r \in RestartTask, GiveUp(r) \/ GraceOver(r) PROVE ConnInv'
    BY <1>9, <1>13, RestartsApart DEF GiveUp, GraceOver, laneVars
  <1>14. ASSUME Reply(waiting, "restarting"), refused' = refused \union waiting, waiting' = {},
                UNCHANGED <<client, heard, peerGone, executed>>, \A q \in Req : status'[q] = status[q]
         PROVE  ConnInv'
    <2>1. \A q \in Req : /\ conn'[q] = IF q \in waiting THEN "ended" ELSE conn[q]
                         /\ q \notin waiting => inbox'[q] = inbox[q]
      BY <1>14 DEF Reply
    <2> QED BY <1>k, <1>14, <2>1 DEF ConnInv, ConnOK
  <1>15. ASSUME Stop \/ \E r \in RestartTask : BeginRestart(r) PROVE ConnInv'
    BY <1>14, <1>15, RestartsApart DEF Stop, BeginRestart, laneVars
  <1>16. ASSUME LoseHelper, UNCHANGED <<heard, inbox>>,
                \A q \in Req : client'[q] = client[q] \/ (client[q] = "sent" /\ client'[q] = "settled")
         PROVE  ConnInv'
    <2>1. /\ waiting' = {} /\ refused' = {} /\ UNCHANGED <<peerGone, executed>>
          /\ \A q \in Req : conn'[q] = IF conn[q] = "none" THEN "none" ELSE "closed"
          /\ \A q \in Req : status'[q] = IF status[q] \in {"waiting", "running", "answered"} THEN "released"
                                         ELSE IF status[q] = "onIdle" THEN "stopped" ELSE status[q]
      BY <1>16 DEF LoseHelper, Unreleased
    <2> QED BY <1>k, <1>16, <2>1 DEF ConnInv, ConnOK
  <1>17. LoseClients => \A q \in Req : client'[q] = client[q] \/ (client[q] = "sent" /\ client'[q] = "settled")
    BY DEF LoseClients
  <1>18. ASSUME Die \/ \E r \in RestartTask : RestartHelper(r) PROVE ConnInv'
    BY <1>16, <1>17, <1>18 DEF Die, RestartHelper, clientVars
  <1>19. ASSUME UNCHANGED <<connVars, heard, inbox>>, \A q \in Req : status'[q] = status[q],
                \A q \in Req : client'[q] = client[q] \/ (client[q] = "sent" /\ client'[q] = "settled")
         PROVE  ConnInv'
    BY <1>k, <1>19 DEF connVars, ConnInv, ConnOK
  <1>20. ASSUME WebDies \/ \E r \in RestartTask : \E ok \in BOOLEAN : RestartReturns(r, ok) PROVE ConnInv'
    BY <1>17, <1>19, <1>20, RestartsApart DEF WebDies, RestartReturns, laneVars
  <1>21. ASSUME Up \/ UNCHANGED svcVars PROVE ConnInv'
    BY <1>9, <1>21 DEF Up, svcVars, laneVars
  <1> QED BY <1>1, <1>2, <1>3, <1>4, <1>5, <1>6, <1>7, <1>8, <1>10, <1>11, <1>12, <1>13, <1>15, <1>18,
             <1>20, <1>21 DEF SvcNext, HelperStep
-----------------------------------------------------------------------------
(* What a step does to the requests that hold a slot. *)
LEMMA SlotsStep ==
    ASSUME LanesTypeOK, SvcTypeOK, ConnInv, [SvcNext]_svcVars,
           admitted = {t \in Req : status[t] \in {"waiting", "running"}}
    PROVE  /\ admitted' = {t \in Req : status'[t] \in {"waiting", "running"}}
           /\ limit' = limit
           /\ \/ admitted' \subseteq admitted
              \/ \E t \in Req : Cardinality(admitted) < limit /\ admitted' = admitted \union {t} /\ t \notin admitted
  <1>t. status \in [Task -> Status]
    BY DEF LanesTypeOK
  <1>a. ASSUME UNCHANGED <<admitted, limit>>,
               \A q \in Req : status'[q] = status[q] \/ (status[q] = "answered" /\ status'[q] = "released")
        PROVE  /\ admitted' = {t \in Req : status'[t] \in {"waiting", "running"}}
               /\ limit' = limit /\ admitted' \subseteq admitted
    BY <1>a
  <1>1. ASSUME NEW t \in Req, Admit(t)
        PROVE  /\ admitted' = {q \in Req : status'[q] \in {"waiting", "running"}} /\ limit' = limit
               /\ Cardinality(admitted) < limit /\ admitted' = admitted \union {t} /\ t \notin admitted
    <2>1. /\ admitted' = admitted \union {t} /\ limit' = limit /\ Cardinality(admitted) < limit
          /\ status[t] = "new" /\ \A q \in Req : status'[q] = IF q = t THEN "waiting" ELSE status[q]
      BY <1>t, <1>1 DEF Admit, run, restartVars
    <2> QED BY <2>1
  <1>2. ASSUME NEW t \in Req, Begin(t)
        PROVE  /\ admitted' = {q \in Req : status'[q] \in {"waiting", "running"}}
               /\ limit' = limit /\ admitted' \subseteq admitted
    <2>1. /\ admitted' = admitted /\ limit' = limit /\ status[t] = "waiting"
          /\ \A q \in Req : status'[q] = IF q = t THEN "running" ELSE status[q]
      BY <1>t, <1>2 DEF Begin, start, restartVars
    <2> QED BY <2>1
  <1>3. ASSUME NEW t \in Req, NEW how, Finish(t, how)
        PROVE  /\ admitted' = {q \in Req : status'[q] \in {"waiting", "running"}}
               /\ limit' = limit /\ admitted' \subseteq admitted
    <2>1. /\ admitted' = admitted \ {t} /\ limit' = limit
          /\ \A q \in Req : status'[q] = IF q = t THEN "answered" ELSE status[q]
      BY <1>t, <1>3 DEF Finish, answer, restartVars
    <2> QED BY <2>1
  <1>4. ASSUME LoseHelper
        PROVE  /\ admitted' = {q \in Req : status'[q] \in {"waiting", "running"}}
               /\ limit' = limit /\ admitted' \subseteq admitted
    BY <1>t, <1>4 DEF LoseHelper, Unreleased
  <1>5. ASSUME \/ \E t \in Req : Connect(t) \/ ClientStep(t) \/ SeePeerGone(t) \/ TurnAway(t) \/ IdleOut(t) \/ Linger(t)
               \/ \E t \in Task : LingerEnds(t)
               \/ \E r \in RestartTask : GraceOver(r)
               \/ Stop \/ Up \/ WebDies \/ UNCHANGED svcVars
        PROVE  UNCHANGED <<admitted, limit, status>>
    BY <1>5 DEF Connect, ClientStep, Deliver, Deadline, SeeClose, SeePeerGone, TurnAway, IdleOut, Linger, holdUntil,
                LingerEnds, afterSettles, GraceOver, Stop, Up, WebDies, svcVars, laneVars, connVars, restartVars
  <1>6. ASSUME \/ \E r \in RestartTask : GiveUp(r) \/ BeginRestart(r) \/ \E ok \in BOOLEAN : RestartReturns(r, ok)
               \/ \E t \in Req : \E units \in {{"web"}, {"web", "helper"}} : RequestRestart(t, units)
        PROVE  UNCHANGED <<admitted, limit>> /\ \A q \in Req : status'[q] = status[q]
    BY <1>6, RestartsApart DEF GiveUp, BeginRestart, RestartReturns, RequestRestart, laneVars, connVars
  <1>7. ASSUME NEW t \in Task, GiveBack(t)
        PROVE  /\ UNCHANGED <<admitted, limit>>
               /\ \A q \in Req : status'[q] = status[q] \/ (status[q] = "answered" /\ status'[q] = "released")
    BY <1>7, RequestsReleased DEF GiveBack, connVars, restartVars
  <1>8. Die \/ (\E r \in RestartTask : RestartHelper(r)) => LoseHelper
    BY DEF Die, RestartHelper
  <1> QED BY <1>a, <1>1, <1>2, <1>3, <1>4, <1>5, <1>6, <1>7, <1>8 DEF SvcNext, HelperStep

(* Every step keeps the slots exact and within the limit. *)
LEMMA AdmissionStep == LanesTypeOK /\ SvcTypeOK /\ ConnInv /\ AdmissionInv /\ [SvcNext]_svcVars => AdmissionInv'
  <1> SUFFICES ASSUME LanesTypeOK, SvcTypeOK, ConnInv, AdmissionInv, [SvcNext]_svcVars PROVE AdmissionInv'
    OBVIOUS
  <1>1. /\ admitted' = {t \in Req : status'[t] \in {"waiting", "running"}}
        /\ limit' = limit
        /\ \/ admitted' \subseteq admitted
           \/ \E t \in Req : Cardinality(admitted) < limit /\ admitted' = admitted \union {t} /\ t \notin admitted
    BY SlotsStep DEF AdmissionInv, AdmissionExact
  <1>2. IsFiniteSet(admitted) /\ Cardinality(admitted) =< limit /\ limit \in Nat /\ Cardinality(admitted) \in Nat
    BY FS_CardinalityType DEF AdmissionInv, AdmissionExact, SvcTypeOK
  <1>3. IsFiniteSet(admitted') /\ Cardinality(admitted') =< limit'
    <2>1. CASE admitted' \subseteq admitted
      <3>1. IsFiniteSet(admitted') /\ Cardinality(admitted') =< Cardinality(admitted)
        BY <1>2, <2>1, FS_Subset
      <3>2. Cardinality(admitted') \in Nat
        BY <3>1, FS_CardinalityType
      <3> QED BY <1>1, <1>2, <3>1, <3>2
    <2>2. ASSUME NEW t \in Req, Cardinality(admitted) < limit, admitted' = admitted \union {t}, t \notin admitted
          PROVE  IsFiniteSet(admitted') /\ Cardinality(admitted') =< limit'
      <3>1. IsFiniteSet(admitted') /\ Cardinality(admitted') = Cardinality(admitted) + 1
        BY <1>2, <2>2, FS_AddElement
      <3> QED BY <1>1, <1>2, <2>2, <3>1
    <2> QED BY <1>1, <2>1, <2>2
  <1> QED BY <1>1, <1>3 DEF AdmissionInv, AdmissionExact
-----------------------------------------------------------------------------
(* Every step keeps the restarts accounted for: whichever way one ends,    *)
(* what it was for is done or still owed.                                  *)
LEMMA RestartStep == LanesTypeOK /\ SvcTypeOK /\ RestartInv /\ [SvcNext]_svcVars => RestartInv'
  <1> SUFFICES ASSUME LanesTypeOK, SvcTypeOK, RestartInv, [SvcNext]_svcVars PROVE RestartInv'
    OBVIOUS
  <1>t. /\ status \in [Task -> Status] /\ held \in [Task -> SUBSET Lane]
        /\ entryUnits \in [RestartTask -> SUBSET Units] /\ pending \in RestartTask \union {NoTask}
        /\ needed \subseteq Units /\ NoTask \notin Task
    BY TaskAssumption DEF LanesTypeOK, SvcTypeOK
  <1>g. ASSUME UNCHANGED <<entryUnits, unfinished, needed, pending, restarting>>,
               \A r \in RestartTask : /\ held'[r] = held[r]
                                      /\ \/ status'[r] = status[r]
                                         \/ status[r] = "onIdle" /\ status'[r] = "waiting"
                                         \/ status[r] = "waiting" /\ status'[r] = "running"
                                         \/ status[r] = "answered" /\ status'[r] = "released"
        PROVE  RestartInv'
    <2>1. \A r \in LiveRestart : r \in LiveRestart'
      BY <1>g DEF LiveRestart
    <2>2. \A x \in needed' : Owed(x)'
      BY <1>g, <2>1 DEF RestartInv, Owed
    <2>3. \A r \in RestartTask : status'[r] # "new" => held'[r] = RestartLanes /\ "web" \in entryUnits'[r]
      BY <1>g DEF RestartInv, RestartLanes
    <2>4. (pending' # NoTask => pending' \in LiveRestart') /\ (restarting' => \E r \in RestartTask : status'[r] = "running")
      BY <1>g, <2>1 DEF RestartInv
    <2> QED BY <2>2, <2>3, <2>4 DEF RestartInv, RestartLanes
  <1>1. ASSUME NEW t \in Req, Connect(t) \/ ClientStep(t) \/ SeePeerGone(t) \/ TurnAway(t) \/ IdleOut(t) \/ Linger(t)
        PROVE  RestartInv'
    BY <1>g, <1>1 DEF Connect, ClientStep, Deliver, Deadline, SeeClose, SeePeerGone, TurnAway, IdleOut, Linger,
                      holdUntil, laneVars, restartVars
  <1>2. ASSUME NEW t \in Req, Admit(t) \/ Begin(t) \/ \E how \in {"ok", "failed"} : Finish(t, how)
        PROVE  RestartInv'
    <2>1. /\ UNCHANGED restartVars
          /\ \A r \in RestartTask : held'[r] = held[r] /\ status'[r] = status[r]
      BY <1>t, <1>2 DEF Admit, run, Begin, start, Finish, answer
    <2> QED BY <1>g, <2>1 DEF restartVars
  <1>3. ASSUME NEW t \in Task, LingerEnds(t) \/ GiveBack(t) PROVE RestartInv'
    <2>1. \A u \in RestartTask : \/ status'[u] = status[u]
                                 \/ status[u] = "answered" /\ status'[u] = "released"
                                 \/ status[u] = "onIdle" /\ status'[u] = "waiting"
      BY <1>3, ReleaseEffect DEF LingerEnds, afterSettles, GiveBack
    <2>2. held' = held /\ UNCHANGED restartVars
      BY <1>3 DEF LingerEnds, afterSettles, GiveBack, release
    <2> QED BY <1>g, <2>1, <2>2 DEF restartVars
  <1>4. ASSUME Stop \/ Up \/ WebDies \/ UNCHANGED svcVars PROVE RestartInv'
    BY <1>g, <1>4 DEF Stop, Up, WebDies, svcVars, laneVars, restartVars
  <1>5. ASSUME NEW t \in Req, NEW units \in {{"web"}, {"web", "helper"}}, RequestRestart(t, units) PROVE RestartInv'
    <2>1. "web" \in units /\ needed' = needed \union units /\ UNCHANGED <<restarting, unfinished>>
      BY <1>5 DEF RequestRestart
    <2>2. ASSUME pending # NoTask, entryUnits' = [entryUnits EXCEPT ![pending] = @ \union units], UNCHANGED <<laneVars, pending>>
          PROVE  RestartInv'
      <3>1. \A r \in RestartTask : entryUnits'[r] = IF r = pending THEN entryUnits[r] \union units ELSE entryUnits[r]
        BY <1>t, <2>2
      <3>2. pending \in LiveRestart /\ LiveRestart' = LiveRestart /\ LiveRestart \subseteq RestartTask
        BY <2>2 DEF RestartInv, LiveRestart, laneVars
      <3>3. \A x \in needed' : Owed(x)'
        BY <2>1, <3>1, <3>2 DEF RestartInv, Owed
      <3> QED BY <2>1, <2>2, <3>1, <3>2, <3>3 DEF RestartInv, RestartLanes, laneVars
    <2>3. ASSUME NEW r \in RestartTask, pending = NoTask, onIdle(r, RestartLanes), pending' = r,
                 entryUnits' = [entryUnits EXCEPT ![r] = units \union unfinished]
          PROVE  RestartInv'
      <3>1. \A q \in RestartTask : entryUnits'[q] = IF q = r THEN units \union unfinished ELSE entryUnits[q]
        BY <1>t, <2>3
      <3>2. /\ status[r] = "new"
            /\ \A q \in RestartTask : status'[q] = IF q = r THEN "onIdle" ELSE status[q]
            /\ \A q \in RestartTask : held'[q] = IF q = r THEN RestartLanes ELSE held[q]
        BY <1>t, <2>3 DEF onIdle
      <3>3. r \in LiveRestart' /\ r \notin LiveRestart /\ LiveRestart \subseteq LiveRestart' /\ LiveRestart \subseteq RestartTask
        BY <3>2 DEF LiveRestart
      <3>4. \A x \in needed' : Owed(x)'
        BY <2>1, <3>1, <3>3 DEF RestartInv, Owed
      <3>5. restarting' => \E q \in RestartTask : status'[q] = "running"
        BY <2>1, <3>2 DEF RestartInv
      <3>6. \A q \in RestartTask : status'[q] # "new" => held'[q] = RestartLanes /\ "web" \in entryUnits'[q]
        BY <2>1, <3>1, <3>2 DEF RestartInv
      <3> QED BY <2>3, <3>3, <3>4, <3>5, <3>6 DEF RestartInv, RestartLanes
    <2> QED BY <1>5, <2>2, <2>3 DEF RequestRestart
  <1>6. ASSUME NEW r \in RestartTask, GiveUp(r) PROVE RestartInv'
    <2>1. /\ status[r] = "onIdle" /\ UNCHANGED <<held, entryUnits, needed, restarting>>
          /\ \A q \in RestartTask : status'[q] = IF q = r THEN "stopped" ELSE status[q]
          /\ pending' = IF pending = r THEN NoTask ELSE pending
          /\ unfinished' = unfinished \union entryUnits[r]
      BY <1>t, <1>6 DEF GiveUp, stopWaiting
    <2>2. \A q \in LiveRestart : q = r \/ q \in LiveRestart'
      BY <2>1 DEF LiveRestart
    <2>3. \A x \in needed' : Owed(x)'
      BY <2>1, <2>2 DEF RestartInv, Owed
    <2> QED BY <2>1, <2>2, <2>3 DEF RestartInv, RestartLanes
  <1>7. ASSUME NEW r \in RestartTask, BeginRestart(r) PROVE RestartInv'
    <2>1. /\ status[r] = "waiting" /\ UNCHANGED <<held, entryUnits, needed, pending, unfinished>>
          /\ \A q \in RestartTask : status'[q] = IF q = r THEN "running" ELSE status[q]
      BY <1>t, <1>7 DEF BeginRestart, start
    <2>2. \A q \in LiveRestart : q \in LiveRestart'
      BY <2>1 DEF LiveRestart
    <2>3. \A x \in needed' : Owed(x)'
      BY <2>1, <2>2 DEF RestartInv, Owed
    <2> QED BY <2>1, <2>2, <2>3 DEF RestartInv, RestartLanes
  <1>8. ASSUME NEW r \in RestartTask, GraceOver(r) PROVE RestartInv'
    <2>1. UNCHANGED <<laneVars, entryUnits, needed, restarting, unfinished>> /\ pending' = NoTask
      BY <1>8 DEF GraceOver
    <2>2. LiveRestart' = LiveRestart
      BY <2>1 DEF LiveRestart, laneVars
    <2> QED BY <2>1, <2>2 DEF RestartInv, RestartLanes, Owed, laneVars
  <1>9. ASSUME LoseHelper, needed' = {} PROVE RestartInv'
    <2>1. /\ UNCHANGED <<held, entryUnits>> /\ restarting' = FALSE /\ pending' = NoTask
          /\ \A q \in RestartTask : status'[q] = "new" <=> status[q] = "new"
      BY <1>9 DEF LoseHelper, Unreleased
    <2>2. \A q \in RestartTask : status'[q] # "new" => held'[q] = RestartLanes /\ "web" \in entryUnits'[q]
      BY <2>1 DEF RestartInv, RestartLanes
    <2> QED BY <1>9, <2>1, <2>2 DEF RestartInv, RestartLanes
  <1>10. ASSUME NEW r \in RestartTask, RestartHelper(r) PROVE RestartInv'
    <2>1. "helper" \in entryUnits[r] /\ status[r] # "new" /\ needed' = needed \ entryUnits[r] /\ LoseHelper
      BY <1>10 DEF RestartHelper
    <2>2. Units \subseteq entryUnits[r]
      BY <2>1 DEF RestartInv, Units
    <2> QED BY <1>t, <1>9, <2>1, <2>2
  <1>11. CASE Die
    BY <1>9, <1>11 DEF Die
  <1>12. ASSUME NEW r \in RestartTask, NEW ok \in BOOLEAN, RestartReturns(r, ok) PROVE RestartInv'
    <2>1. /\ status[r] = "running" /\ pending # r
          /\ \A q \in RestartTask : status'[q] = IF q = r THEN "answered" ELSE status[q]
          /\ restarting' = FALSE /\ UNCHANGED <<held, pending, entryUnits>>
          /\ IF ok THEN unfinished' = unfinished \ entryUnits[r] /\ needed' = needed \ entryUnits[r]
                   ELSE unfinished' = unfinished \union entryUnits[r] /\ needed' = needed
      BY <1>t, <1>12 DEF RestartReturns, answer
    <2>2. \A q \in LiveRestart : q = r \/ q \in LiveRestart'
      BY <2>1 DEF LiveRestart
    <2>3. \A x \in needed' : Owed(x)'
      BY <2>1, <2>2 DEF RestartInv, Owed
    <2> QED BY <2>1, <2>2, <2>3 DEF RestartInv, RestartLanes
  <1> QED BY <1>1, <1>2, <1>3, <1>4, <1>5, <1>6, <1>7, <1>8, <1>10, <1>11, <1>12 DEF SvcNext, HelperStep
-----------------------------------------------------------------------------
(* The inductive invariant holds in every state of every behaviour. *)
THEOREM SvcInvariant == SvcSpec => []SvcInv
  <1>1. SvcInv /\ [SvcNext]_svcVars => SvcInv'
    BY SvcLanesStep, SvcTypeStep, ConnStep, AdmissionStep, RestartStep DEF SvcInv, LanesInv
  <1> QED BY InitSvcInv, <1>1, PTL DEF SvcSpec

(* The helper is well typed, whatever is sent, lost or restarted. *)
THEOREM SvcTypeCorrect == SvcSpec => []SvcTypeOK
  <1>1. SvcInv => SvcTypeOK
    BY DEF SvcInv
  <1> QED BY SvcInvariant, <1>1, PTL

(* Admission slots are exact on every path out, and never above the limit. *)
THEOREM SlotsAreExact == SvcSpec => []AdmissionExact
  <1>1. SvcInv => AdmissionExact
    BY DEF SvcInv, AdmissionInv
  <1> QED BY SvcInvariant, <1>1, PTL

(* A restart asked for is made, pending or owed for as long as the helper  *)
(* lives.                                                                  *)
THEOREM RestartIsOwed == SvcSpec => []RestartOwed
  <1>1. SvcInv => RestartOwed
    BY DEF SvcInv, RestartInv, Owed, LiveRestart, RestartOwed
  <1> QED BY SvcInvariant, <1>1, PTL

(* BoxPilot's restart of itself cuts nothing off. *)
THEOREM RestartCutsNothingOff == SvcSpec => []RestartCutsNothing
  <1>1. SvcInv => RestartCutsNothing
    <2> SUFFICES ASSUME SvcInv, restarting, NEW t \in Req, Busy(t) PROVE FALSE
      BY DEF RestartCutsNothing
    <2>1. PICK r \in RestartTask : status[r] = "running"
      BY DEF SvcInv, RestartInv
    <2>2. held[r] = {exclusiveLane} /\ Busy(r) /\ r # t
      BY <2>1 DEF SvcInv, RestartInv, RestartLanes, Busy
    <2>3. ~Conflict(held[r], held[t])
      BY <2>2, LanesInvExcludes DEF SvcInv, NoConflictBeside
    <2> QED BY <2>2, <2>3 DEF Conflict
  <1> QED BY SvcInvariant, <1>1, PTL

(* Stops and crashes of the helper, and the restarts it makes of itself,   *)
(* leave its lanes exclusive and in turn.                                  *)
THEOREM LanesHoldThroughout == SvcSpec => [](NoConflictBeside /\ NoOvertaking)
  <1>1. SvcInv => NoConflictBeside /\ NoOvertaking
    BY LanesInvExcludes DEF SvcInv, LanesInv
  <1> QED BY SvcInvariant, <1>1, PTL
-----------------------------------------------------------------------------
(* Nothing of a request moves as the contract sees it. *)
Unseen ==
    /\ UNCHANGED <<client, outcome, executed>>
    /\ \A q \in Req : Place(q)' = Place(q) /\ Told(q)' = Told(q) /\ Heard(q)' = Heard(q) /\ Inbox(q)' = Inbox(q)

(* A step unseen is a stutter of the contract. *)
LEMMA UnseenStutters == Unseen => UNCHANGED Promised!contractVars
  BY DEF Unseen, Promised!contractVars, Promised!callVars, Promised!placeVars

(* What a call that settles leaves to hear. *)
LEMMA SettleIsSettled ==
    ASSUME SvcTypeOK, NEW t \in Req, NEW how, Settle(t, how), UNCHANGED connVars, UNCHANGED status,
           \A q \in Req : q # t => heard'[q] = heard[q] /\ inbox'[q] = inbox[q]
    PROVE  Promised!Settle(t, how) /\ UNCHANGED Promised!placeVars
  <1>1. /\ client' = [client EXCEPT ![t] = "settled"] /\ outcome' = [outcome EXCEPT ![t] = how]
        /\ \A q \in Req : client'[q] = IF q = t THEN "settled" ELSE client[q]
    BY DEF Settle, SvcTypeOK
  <1>2. \A q \in Req : /\ Place(q)' = Place(q) /\ Told(q)' = Told(q)
                       /\ Heard(q)' = IF q = t THEN "none" ELSE Heard(q)
                       /\ Inbox(q)' = IF q = t THEN <<>> ELSE Inbox(q)
    BY <1>1 DEF Place, Told, Heard, Inbox, connVars
  <1>3. executed' = executed
    BY DEF connVars
  <1> QED BY <1>1, <1>2, <1>3 DEF Promised!Settle, Promised!placeVars

(* A client's step is a step of a caller of the contract. *)
LEMMA ClientKeepsContract ==
    ASSUME SvcTypeOK, ConnInv, NEW t \in Req, Connect(t) \/ ClientStep(t)
    PROVE  Promised!ContractNext
  <1>t. /\ client \in [Req -> {"idle", "sent", "settled"}] /\ heard \in [Req -> {"none", "queued", "started"}]
        /\ inbox \in [Req -> Seq(SvcFrame)]
        /\ conn \in [Req -> {"none", "open", "handled", "ended", "closed"}]
    BY DEF SvcTypeOK
  <1>k. ConnOK(t)
    BY DEF ConnInv
  <1>1. ASSUME Connect(t), helper = "up" PROVE Promised!Send(t)
    <2>1. /\ client[t] = "idle" /\ client' = [client EXCEPT ![t] = "sent"] /\ conn' = [conn EXCEPT ![t] = "open"]
          /\ UNCHANGED <<outcome, status, heard, inbox, willWait, waiting, executed>>
      BY <1>1 DEF Connect, laneVars
    <2>2. conn[t] = "none" /\ heard[t] = "none" /\ inbox[t] = <<>> /\ t \notin waiting
      BY <1>k, <2>1 DEF ConnOK
    <2>3. \A q \in Req : /\ Place(q)' = IF q = t THEN "arrived" ELSE Place(q)
                         /\ Told(q)' = (Told(q) /\ q # t)
                         /\ Heard(q)' = Heard(q)
                         /\ Inbox(q)' = Inbox(q)
      BY <1>t, <2>1, <2>2 DEF Place, Told, Heard, Inbox
    <2> QED BY <2>1, <2>3 DEF Promised!Send, Promised!To
  <1>2. ASSUME Connect(t), helper # "up" PROVE Promised!NobodyThere(t)
    <2>1. client[t] = "idle" /\ Settle(t, "unavailable") /\ UNCHANGED <<connVars, status, heard, inbox>>
      BY <1>2 DEF Connect, connVars, laneVars
    <2> QED BY <2>1, SettleIsSettled DEF Promised!NobodyThere
  <1>3. ASSUME Deliver(t), Head(inbox[t]) \notin {"queued", "started"} PROVE Promised!HearReply(t)
    <2>1. /\ client[t] = "sent" /\ inbox[t] # <<>> /\ Settle(t, Head(inbox[t])) /\ UNCHANGED <<connVars, status, heard>>
          /\ \A q \in Req : q # t => inbox'[q] = inbox[q]
      BY <1>t, <1>3 DEF Deliver, laneVars
    <2>2. Promised!Settle(t, Head(inbox[t])) /\ UNCHANGED Promised!placeVars
      BY <2>1, SettleIsSettled
    <2>3. [q \in Req |-> Inbox(q)][t] = inbox[t]
      BY <2>1 DEF Inbox
    <2> QED BY <1>3, <2>1, <2>2, <2>3 DEF Promised!HearReply
  <1>4. ASSUME Deliver(t), Head(inbox[t]) \in {"queued", "started"}
        PROVE  Promised!HearQueued(t) \/ Promised!HearStarted(t)
    <2>1. /\ client[t] = "sent" /\ inbox[t] # <<>> /\ inbox' = [inbox EXCEPT ![t] = Tail(@)]
          /\ UNCHANGED <<client, outcome, connVars, status>>
          /\ heard' = [heard EXCEPT ![t] = IF Head(inbox[t]) = "started" THEN "started" ELSE IF @ = "none" THEN "queued" ELSE @]
      BY <1>4 DEF Deliver, laneVars
    <2>2. \A q \in Req : /\ Place(q)' = Place(q) /\ Told(q)' = Told(q)
                         /\ Inbox(q)' = IF q = t THEN Tail(inbox[t]) ELSE Inbox(q)
                         /\ Heard(q)' = IF q # t THEN Heard(q)
                                        ELSE IF Head(inbox[t]) = "started" THEN "started"
                                        ELSE IF heard[t] = "none" THEN "queued" ELSE heard[t]
      BY <1>t, <2>1 DEF Place, Told, Heard, Inbox, connVars
    <2>3. Inbox(t) = inbox[t] /\ Heard(t) = heard[t]
      BY <2>1 DEF Inbox, Heard
    <2>4. executed' = executed
      BY <2>1 DEF connVars
    <2> QED BY <1>4, <2>1, <2>2, <2>3, <2>4 DEF Promised!HearQueued, Promised!HearStarted, Promised!placeVars
  <1>5. ASSUME Deadline(t) PROVE Promised!TimeOut(t)
    <2>1. /\ client[t] = "sent" /\ UNCHANGED <<connVars, status, heard, inbox>>
          /\ Settle(t, IF heard[t] = "queued" THEN "timeoutQueued" ELSE "timeoutRunning")
      BY <1>5 DEF Deadline, laneVars
    <2>2. [q \in Req |-> Heard(q)][t] = heard[t]
      BY <2>1 DEF Heard
    <2> QED BY <2>1, <2>2, SettleIsSettled DEF Promised!TimeOut
  <1>6. ASSUME SeeClose(t) PROVE Promised!LoseConnection(t)
    <2>1. client[t] = "sent" /\ inbox[t] = <<>> /\ Settle(t, "closed") /\ UNCHANGED <<connVars, status, heard, inbox>>
      BY <1>6 DEF SeeClose, laneVars
    <2>2. [q \in Req |-> Inbox(q)][t] = <<>>
      BY <2>1 DEF Inbox
    <2> QED BY <2>1, <2>2, SettleIsSettled DEF Promised!LoseConnection
  <1> QED BY <1>1, <1>2, <1>3, <1>4, <1>5, <1>6 DEF ClientStep, Promised!ContractNext

(* A reply is on its way to each caller that still listens. *)
LEMMA ReplySays ==
    ASSUME SvcTypeOK, ConnInv, NEW S, NEW frame, UNCHANGED client,
           \A q \in Req : inbox'[q] = IF q \in S /\ ~peerGone[q] THEN Append(inbox[q], frame) ELSE inbox[q]
    PROVE  Promised!Say(S, frame)
  <1>1. \A q \in Req : client[q] = "sent" => ~peerGone[q]
    BY DEF ConnInv, ConnOK
  <1>2. \A q \in Req : Inbox(q)' = IF q \in S /\ client[q] = "sent" THEN Append(Inbox(q), frame) ELSE Inbox(q)
    BY <1>1 DEF Inbox
  <1> QED BY <1>2 DEF Promised!Say

(* Only heard and inbox decide what a caller that listens hears. *)
LEMMA HeardSame == UNCHANGED <<client, heard>> => [q \in Req |-> Heard(q)]' = [q \in Req |-> Heard(q)]
  BY DEF Heard

(* What the helper does for a request is what the contract allows it, or   *)
(* is not seen there.                                                      *)
LEMMA HelperKeepsContract ==
    ASSUME LanesTypeOK, SvcTypeOK, ConnInv, NEW t \in Req, HelperStep(t)
    PROVE  [Promised!ContractNext]_(Promised!contractVars)
  <1>t. /\ client \in [Req -> {"idle", "sent", "settled"}] /\ inbox \in [Req -> Seq(SvcFrame)]
        /\ conn \in [Req -> {"none", "open", "handled", "ended", "closed"}]
        /\ peerGone \in [Req -> BOOLEAN] /\ willWait \in [Req -> BOOLEAN]
        /\ status \in [Task -> Status] /\ executed \subseteq Req
    BY DEF SvcTypeOK, LanesTypeOK
  <1>k. \A q \in Req : ConnOK(q)
    BY DEF ConnInv
  <1>o. \A q \in Req : conn[q] = "open" => q \notin waiting /\ status[q] = "new" /\ q \notin executed
    BY <1>k DEF ConnOK
  <1>w. \A q \in waiting : q \in Req /\ conn[q] = "handled" /\ status[q] = "waiting" /\ q \notin executed
    BY <1>k DEF ConnOK, SvcTypeOK
  <1>1. CASE SeePeerGone(t)
    BY <1>1, UnseenStutters DEF SeePeerGone, Unseen, Place, Told, Heard, Inbox, clientVars, laneVars
  <1>2. CASE TurnAway(t)
    <2>1. PICK why \in {"restarting", "busy"} : Reply({t}, why)
      BY <1>2 DEF TurnAway
    <2>2. conn[t] = "open" /\ UNCHANGED <<status, client, heard, outcome, peerGone, willWait, waiting, executed>>
      BY <1>2 DEF TurnAway, laneVars
    <2>3. Promised!Say({t}, why)
      BY <2>1, <2>2, ReplySays DEF Reply
    <2>4. \A q \in Req : Place(q)' = (IF q = t THEN "over" ELSE Place(q)) /\ Told(q)' = (Told(q) /\ q # t)
      BY <1>o, <2>1, <2>2 DEF Reply, Place, Told
    <2>5. Place(t) = "arrived"
      BY <2>2 DEF Place
    <2>6. Promised!TurnAway(t, why)
      BY <2>2, <2>3, <2>4, <2>5, HeardSame DEF Promised!TurnAway, Promised!To
    <2> QED BY <2>6 DEF Promised!ContractNext
  <1>3. CASE Admit(t)
    <2>1. /\ conn[t] = "open" /\ conn' = [conn EXCEPT ![t] = "handled"] /\ waiting' = waiting \union {t}
          /\ willWait' = [willWait EXCEPT ![t] = busy(LanesOf[t])]
          /\ inbox' = [inbox EXCEPT ![t] = IF busy(LanesOf[t]) /\ ~peerGone[t] THEN Append(@, "queued") ELSE @]
          /\ UNCHANGED <<client, heard, outcome, peerGone, executed>>
      BY <1>3 DEF Admit
    <2>2. \A q \in Req : status'[q] = IF q = t THEN "waiting" ELSE status[q]
      BY <1>t, <1>3 DEF Admit, run
    <2>3. \A q \in Req : Place(q)' = IF q = t THEN "queued" ELSE Place(q)
      BY <1>t, <2>1, <2>2 DEF Place
    <2>4. Place(t) = "arrived" /\ ~Told(t)
      BY <1>o, <2>1 DEF Place, Told
    <2>5. CASE busy(LanesOf[t])
      <3>1. Promised!Say({t}, "queued")
        BY <1>t, <2>1, <2>5, ReplySays
      <3>2. \A q \in Req : Told(q)' = IF q = t THEN TRUE ELSE Told(q)
        BY <1>t, <2>1, <2>5 DEF Told
      <3>3. Promised!Accept(t)
        BY <2>1, <2>3, <2>4, <3>1, <3>2, HeardSame DEF Promised!Accept
      <3> QED BY <3>3 DEF Promised!ContractNext
    <2>6. CASE ~busy(LanesOf[t])
      <3>1. inbox' = inbox
        BY <1>t, <2>1, <2>6
      <3>2. \A q \in Req : Told(q)' = Told(q)
        BY <1>t, <1>o, <2>1, <2>6 DEF Told
      <3>3. \A q \in Req : Inbox(q)' = Inbox(q)
        BY <2>1, <3>1 DEF Inbox
      <3>4. Promised!Accept(t)
        BY <2>1, <2>3, <2>4, <3>2, <3>3, HeardSame DEF Promised!Accept
      <3> QED BY <3>4 DEF Promised!ContractNext
    <2> QED BY <2>5, <2>6
  <1>4. CASE Begin(t)
    <2> DEFINE runs == t \notin refused /\ ~peerGone[t]
    <2>1. /\ status[t] = "waiting" /\ waiting' = waiting \ {t}
          /\ executed' = IF runs THEN executed \union {t} ELSE executed
          /\ inbox' = [inbox EXCEPT ![t] = IF runs /\ willWait[t] THEN Append(@, "started") ELSE @]
          /\ UNCHANGED <<client, heard, outcome, conn, peerGone, willWait, refused>>
      BY <1>4 DEF Begin, start
    <2>2. \A q \in Req : status'[q] = IF q = t THEN "running" ELSE status[q]
      BY <1>t, <1>4 DEF Begin, start
    <2>3. \A q \in Req : Told(q)' = (Told(q) /\ q # t)
      BY <2>1 DEF Told
    <2>4. t \notin executed /\ conn[t] \notin {"none", "open"} /\ (t \notin refused => t \in waiting)
      BY <1>k, <2>1 DEF ConnOK
    <2>5. CASE runs
      <3>1. \A q \in Req : Place(q)' = IF q = t THEN "running" ELSE Place(q)
        BY <2>1, <2>2, <2>4, <2>5 DEF Place
      <3>2. Place(t) = "queued" /\ (Told(t) <=> willWait[t])
        BY <2>4, <2>5 DEF Place, Told
      <3>3. willWait[t] => Promised!Say({t}, "started")
        BY <1>t, <2>1, <2>5, ReplySays
      <3>4. ~willWait[t] => \A q \in Req : Inbox(q)' = Inbox(q)
        BY <1>t, <2>1 DEF Inbox
      <3>5. Promised!Start(t)
        BY <2>1, <2>3, <2>5, <3>1, <3>2, <3>3, <3>4, HeardSame DEF Promised!Start, Promised!To
      <3> QED BY <3>5 DEF Promised!ContractNext
    <2>6. CASE ~runs
      <3>1. \A q \in Req : Place(q)' = IF q = t THEN "over" ELSE Place(q)
        BY <2>1, <2>2, <2>4, <2>6 DEF Place
      <3>2. \A q \in Req : Heard(q)' = Heard(q) /\ Inbox(q)' = Inbox(q)
        BY <1>t, <2>1, <2>6 DEF Heard, Inbox
      <3>3. CASE t \in refused
        <4>1. Place(t) = "over" /\ ~Told(t)
          BY <1>k, <2>4, <3>3 DEF ConnOK, Place, Told
        <4>2. Unseen
          BY <2>1, <2>3, <2>6, <3>1, <3>2, <4>1 DEF Unseen, Told
        <4> QED BY <4>2, UnseenStutters
      <3>4. CASE t \notin refused
        <4>1. Place(t) = "queued" /\ client[t] = "settled"
          BY <1>k, <2>4, <2>6, <3>4 DEF ConnOK, Place
        <4>2. Promised!Abandon(t)
          BY <2>1, <2>3, <2>6, <3>1, <3>2, <4>1 DEF Promised!Abandon, Promised!To, Promised!callVars
        <4> QED BY <4>2 DEF Promised!ContractNext
      <3> QED BY <3>3, <3>4
    <2> QED BY <2>5, <2>6
  <1>5. ASSUME NEW how \in {"ok", "failed"}, Finish(t, how) PROVE [Promised!ContractNext]_(Promised!contractVars)
    <2>1. /\ status[t] = "running" /\ (t \notin executed => how = "failed")
          /\ UNCHANGED <<client, heard, outcome, peerGone, willWait, waiting, executed>>
          /\ \A q \in Req : conn'[q] = IF q = t /\ conn[q] = "handled" THEN "ended" ELSE conn[q]
          /\ \A q \in Req : inbox'[q] = IF q = t /\ conn[q] = "handled" /\ ~peerGone[q] THEN Append(inbox[q], how) ELSE inbox[q]
      BY <1>t, <1>5 DEF Finish, answer, Reply
    <2>2. \A q \in Req : status'[q] = IF q = t THEN "answered" ELSE status[q]
      BY <1>t, <1>5 DEF Finish, answer
    <2>3. t \notin waiting /\ conn[t] \notin {"none", "open"}
      BY <1>k, <2>1 DEF ConnOK
    <2>4. \A q \in Req : Place(q)' = (IF q = t THEN "over" ELSE Place(q)) /\ Told(q)' = Told(q)
      BY <2>1, <2>2, <2>3 DEF Place, Told
    <2>5. CASE t \in executed
      <3>1. Place(t) = "running" /\ ~Told(t)
        BY <2>1, <2>3, <2>5 DEF Place, Told
      <3>2. \A q \in Req : Told(q)' = (Told(q) /\ q # t)
        BY <2>1, <2>3 DEF Told
      <3>3. Promised!Say({t}, how) \/ \A q \in Req : Inbox(q)' = Inbox(q)
        <4>1. conn[t] = "handled" => Promised!Say({t}, how)
          BY <2>1, ReplySays
        <4>2. conn[t] # "handled" => \A q \in Req : Inbox(q)' = Inbox(q)
          BY <2>1 DEF Inbox
        <4> QED BY <4>1, <4>2
      <3>4. how \in Promised!Answer
        BY DEF Promised!Answer
      <3>5. Promised!Finish(t, how)
        BY <2>1, <2>4, <3>1, <3>2, <3>3, HeardSame DEF Promised!Finish, Promised!To
      <3> QED BY <3>4, <3>5 DEF Promised!ContractNext
    <2>6. CASE t \notin executed
      <3>1. Place(t) = "over" /\ (peerGone[t] \/ conn[t] # "handled")
        BY <1>k, <2>1, <2>3, <2>6 DEF ConnOK, Place
      <3>2. \A q \in Req : Heard(q)' = Heard(q) /\ Inbox(q)' = Inbox(q)
        BY <2>1, <3>1 DEF Heard, Inbox
      <3>3. Unseen
        BY <2>1, <2>4, <3>1, <3>2 DEF Unseen
      <3> QED BY <3>3, UnseenStutters
    <2> QED BY <2>5, <2>6
  <1>6. CASE Linger(t)
    BY <1>6, UnseenStutters DEF Linger, holdUntil, Unseen, Place, Told, Heard, Inbox, connVars, clientVars
  <1>7. CASE IdleOut(t)
    <2>1. /\ conn[t] = "handled" /\ UNCHANGED <<status, clientVars, willWait, waiting, executed>>
          /\ \A q \in Req : conn'[q] = IF q = t THEN "closed" ELSE conn[q]
      BY <1>t, <1>7 DEF IdleOut, laneVars
    <2>2. Unseen
      BY <2>1 DEF Unseen, Place, Told, Heard, Inbox, clientVars
    <2> QED BY <2>2, UnseenStutters
  <1> QED BY <1>1, <1>2, <1>3, <1>4, <1>5, <1>6, <1>7 DEF HelperStep

(* What ends for everyone at once, in the helper, in the web service or in *)
(* both, is a loss the contract knows.                                     *)
LEMMA LossKeepsContract ==
    ASSUME LanesTypeOK, SvcTypeOK, ConnInv
    PROVE  /\ LoseClients /\ UNCHANGED <<connVars, heard, inbox>> /\ (\A q \in Req : status'[q] = status[q]) =>
                 Promised!CallersDie
           /\ LoseHelper /\ UNCHANGED clientVars => Promised!HelperDies
           /\ LoseHelper /\ LoseClients /\ UNCHANGED <<heard, inbox>> => Promised!BothDie
  <1>c. LoseClients => Promised!CallersLost
    <2> SUFFICES ASSUME LoseClients PROVE Promised!CallersLost
      OBVIOUS
    <2>1. \A q \in Req : client'[q] # "sent"
      BY DEF LoseClients
    <2>2. \A q \in Req : Heard(q)' = "none" /\ Inbox(q)' = <<>>
      BY <2>1 DEF Heard, Inbox
    <2> QED BY <2>2 DEF LoseClients, Promised!CallersLost
  <1>h. LoseHelper => Promised!HelperLost /\ executed' = executed
    <2> SUFFICES ASSUME LoseHelper PROVE Promised!HelperLost /\ executed' = executed
      OBVIOUS
    <2> DEFINE S == {q \in Req : [u \in Req |-> Place(u)][q] # "none"}
    <2>1. /\ waiting' = {} /\ UNCHANGED <<executed, willWait>>
          /\ \A q \in Req : conn'[q] = IF conn[q] = "none" THEN "none" ELSE "closed"
          /\ \A q \in Req : status'[q] # "running"
      BY DEF LoseHelper, LanesTypeOK, Unreleased
    <2>2. \A q \in Req : Place(q) = "none" <=> conn[q] = "none"
      BY DEF Place
    <2>3. \A q \in Req : q \in S <=> Place(q) # "none"
      OBVIOUS
    <2>4. \A q \in Req : Place(q)' = IF q \in S THEN "over" ELSE Place(q)
      BY <2>1, <2>2, <2>3 DEF Place
    <2>5. \A q \in Req : Told(q)' = (Told(q) /\ q \notin S)
      <3>1. \A q \in waiting : q \in Req => conn[q] # "none"
        BY DEF ConnInv, ConnOK
      <3> QED BY <2>1, <2>2, <2>3, <3>1 DEF Told
    <2> HIDE DEF S
    <2>6. Promised!To(S, "over")
      BY <2>4, <2>5 DEF Promised!To
    <2> QED BY <2>1, <2>6 DEF Promised!HelperLost, S
  <1>1. ASSUME LoseClients, UNCHANGED <<connVars, heard, inbox>>, \A q \in Req : status'[q] = status[q]
        PROVE  Promised!CallersDie
    <2>1. \A q \in Req : Place(q)' = Place(q) /\ Told(q)' = Told(q)
      BY <1>1 DEF Place, Told, connVars
    <2> QED BY <1>c, <1>1, <2>1 DEF Promised!CallersDie, Promised!placeVars, connVars
  <1>2. ASSUME LoseHelper, UNCHANGED clientVars PROVE Promised!HelperDies
    <2>1. UNCHANGED <<client, outcome>> /\ \A q \in Req : Heard(q)' = Heard(q) /\ Inbox(q)' = Inbox(q)
      BY <1>2 DEF clientVars, Heard, Inbox
    <2> QED BY <1>h, <1>2, <2>1 DEF Promised!HelperDies, Promised!callVars
  <1>3. LoseHelper /\ LoseClients => Promised!BothDie
    BY <1>c, <1>h DEF Promised!BothDie
  <1> QED BY <1>1, <1>2, <1>3

(* Every step of the helper and its clients is one the contract allows. *)
LEMMA StepsKeepPromise ==
    LanesTypeOK /\ SvcTypeOK /\ ConnInv /\ [SvcNext]_svcVars => [Promised!ContractNext]_(Promised!contractVars)
  <1> SUFFICES ASSUME LanesTypeOK, SvcTypeOK, ConnInv, [SvcNext]_svcVars
               PROVE  [Promised!ContractNext]_(Promised!contractVars)
    OBVIOUS
  <1>k. \A q \in Req : ConnOK(q)
    BY DEF ConnInv
  <1>1. ASSUME UNCHANGED <<connVars, clientVars>>,
               \A q \in Req : status'[q] = status[q] \/ (status[q] = "answered" /\ status'[q] = "released")
        PROVE  UNCHANGED Promised!contractVars
    <2>1. Unseen
      BY <1>1 DEF Unseen, Place, Told, Heard, Inbox, connVars, clientVars
    <2> QED BY <2>1, UnseenStutters
  <1>2. ASSUME NEW t \in Task, LingerEnds(t) \/ GiveBack(t) PROVE UNCHANGED Promised!contractVars
    BY <1>1, <1>2, RequestsReleased DEF LingerEnds, afterSettles, GiveBack
  <1>3. ASSUME \/ \E t \in Req : \E units \in {{"web"}, {"web", "helper"}} : RequestRestart(t, units)
               \/ \E r \in RestartTask : GiveUp(r) \/ GraceOver(r)
        PROVE  UNCHANGED Promised!contractVars
    BY <1>1, <1>3, RestartsApart DEF RequestRestart, GiveUp, GraceOver, laneVars
  <1>4. ASSUME Reply(waiting, "restarting"), waiting' = {}, \A q \in Req : status'[q] = status[q],
               UNCHANGED <<client, heard, outcome, peerGone, willWait, executed>>
        PROVE  Promised!ContractNext
    <2>1. \A q \in waiting : Place(q) = "queued" /\ q \in Req /\ q \notin executed
      BY <1>k DEF ConnOK, Place, SvcTypeOK
    <2>2. \A q \in Req : /\ Place(q)' = IF q \in waiting THEN "over" ELSE Place(q)
                         /\ Told(q)' = (Told(q) /\ q \notin waiting)
      BY <1>4, <2>1 DEF Reply, Place, Told
    <2>3. Promised!Say(waiting, "restarting")
      BY <1>4, ReplySays DEF Reply
    <2>4. Promised!Refuse(waiting)
      BY <1>4, <2>1, <2>2, <2>3, HeardSame DEF Promised!Refuse, Promised!To
    <2>5. waiting \in SUBSET Req
      BY DEF SvcTypeOK
    <2> QED BY <2>4, <2>5 DEF Promised!ContractNext
  <1>5. ASSUME Stop \/ \E r \in RestartTask : BeginRestart(r) PROVE Promised!ContractNext
    BY <1>4, <1>5, RestartsApart DEF Stop, BeginRestart, laneVars
  <1>6. ASSUME NEW r \in RestartTask, RestartHelper(r) PROVE Promised!ContractNext
    BY <1>6, LossKeepsContract DEF RestartHelper, clientVars, Promised!ContractNext
  <1>7. CASE Die
    BY <1>7, LossKeepsContract DEF Die, Promised!ContractNext
  <1>8. ASSUME NEW r \in RestartTask, NEW ok \in BOOLEAN, RestartReturns(r, ok)
        PROVE  [Promised!ContractNext]_(Promised!contractVars)
    <2>1. UNCHANGED <<connVars, heard, inbox>> /\ \A q \in Req : status'[q] = status[q]
      BY <1>8, RestartsApart DEF RestartReturns
    <2>2. LoseClients \/ UNCHANGED <<client, outcome>>
      BY <1>8 DEF RestartReturns
    <2> QED BY <1>1, <2>1, <2>2, LossKeepsContract DEF clientVars, Promised!ContractNext
  <1>9. CASE WebDies
    BY <1>9, LossKeepsContract DEF WebDies, laneVars, Promised!ContractNext
  <1>10. ASSUME Up \/ UNCHANGED svcVars PROVE UNCHANGED Promised!contractVars
    BY <1>1, <1>10 DEF Up, svcVars, laneVars
  <1> QED BY <1>2, <1>3, <1>5, <1>6, <1>7, <1>8, <1>9, <1>10, ClientKeepsContract, HelperKeepsContract DEF SvcNext

(* The whole service keeps the helper's contract with its callers. *)
THEOREM ServiceKeepsContract == SvcSpec => KeepsContract
  <1>1. SvcInit => Promised!ContractInit
    BY DEF SvcInit, Promised!ContractInit, Place, Told, Heard, Inbox
  <1>2. SvcInv => LanesTypeOK /\ SvcTypeOK /\ ConnInv
    BY DEF SvcInv, LanesInv
  <1> QED BY SvcInvariant, StepsKeepPromise, <1>1, <1>2, PTL DEF SvcSpec, KeepsContract, Promised!Contract
-----------------------------------------------------------------------------
(* What is proved of the contract holds of the service. *)
Kept == INSTANCE HelperContractProofs
    WITH place <- [t \in Req |-> Place(t)], ran <- executed,
         told <- [t \in Req |-> Told(t)],
         heard <- [t \in Req |-> Heard(t)],
         inbox <- [t \in Req |-> Inbox(t)]

(* The service's answers are true: one that says nothing was done is of a  *)
(* request that did not run and never does, and an operation's own answer  *)
(* is of one that did.                                                     *)
AnswersAreTrue ==
    \A t \in Req : /\ outcome[t] \in {"restarting", "busy", "unavailable"} => t \notin executed
                   /\ outcome[t] \in {"ok", "failed"} => t \in executed

(* ... whatever is lost, turned away, stopped or restarted on the way. *)
THEOREM ServiceAnswersTruly == SvcSpec => []AnswersAreTrue
  <1>1. Promised!ContractInit => Kept!ContractInit
    BY DEF Promised!ContractInit, Kept!ContractInit
  <1>2. [Promised!ContractNext]_(Promised!contractVars) => [Kept!ContractNext]_(Kept!contractVars)
    BY DEF Promised!ContractNext, Promised!Settle, Promised!Say, Promised!To, Promised!Send, Promised!NobodyThere,
           Promised!HearQueued, Promised!HearStarted, Promised!HearReply, Promised!TimeOut, Promised!LoseConnection,
           Promised!CallersLost, Promised!TurnAway, Promised!Accept, Promised!Start, Promised!Abandon, Promised!Refuse,
           Promised!Finish, Promised!HelperLost, Promised!HelperDies, Promised!CallersDie, Promised!BothDie,
           Promised!Answer, Promised!callVars, Promised!placeVars, Promised!contractVars,
           Kept!ContractNext, Kept!Settle, Kept!Say, Kept!To, Kept!Send, Kept!NobodyThere,
           Kept!HearQueued, Kept!HearStarted, Kept!HearReply, Kept!TimeOut, Kept!LoseConnection,
           Kept!CallersLost, Kept!TurnAway, Kept!Accept, Kept!Start, Kept!Abandon, Kept!Refuse,
           Kept!Finish, Kept!HelperLost, Kept!HelperDies, Kept!CallersDie, Kept!BothDie,
           Kept!Answer, Kept!callVars, Kept!placeVars, Kept!contractVars
  <1>3. Kept!RefusedNeverRuns /\ Kept!AnsweredDidRun => AnswersAreTrue
    BY DEF Kept!RefusedNeverRuns, Kept!NotStarted, Kept!AnsweredDidRun, Kept!Answer, AnswersAreTrue
  <1> QED BY ServiceKeepsContract, Kept!RefusalIsFinal, Kept!AnswerIsEarned, <1>1, <1>2, <1>3, PTL
          DEF KeepsContract, Promised!Contract, Kept!Contract
-----------------------------------------------------------------------------
(* The lanes of operations.                                                *)

(* A call that is for a request holds the lanes laneFor answers for it. *)
HoldsItsLanes ==
    \A t \in Task :
        \/ request[t] = NoRequest
        \/ /\ request[t] \in Requests
           /\ held[t] = laneFor(request[t])
           /\ status[t] # "new"

OpInv == LanesInv /\ request \in [Task -> Requests \union {NoRequest}] /\ HoldsItsLanes

USE RequestsAssumption
-----------------------------------------------------------------------------
(* An app operation, whatever else it holds, holds the lanes of its apps;  *)
(* one that rewrites Homepage's services holds Homepage's, and one that    *)
(* works in the backup tree holds the tree's.                              *)
LEMMA SubjectLanesCover ==
    ASSUME NEW r, r.id \in appOperations \union homepageOperations \union backupTreeOperations
    PROVE  /\ r.id \in appOperations => r.apps \subseteq laneFor(r)
           /\ r.id \in homepageOperations => homepageLane \in laneFor(r)
           /\ r.id \in backupTreeOperations => backupTreeLane \in laneFor(r)
  <1>1. laneFor(r) = subjectLanes(r)
    BY DEF laneFor, appOperations, homepageOperations, backupTreeOperations, exclusiveOperations,
           dockerRestartOperations, driveUnderAppsOperations
  <1>2. r.id \in appOperations => r.apps \subseteq subjectLanes(r)
    BY DEF subjectLanes
  <1>3. r.id \in homepageOperations => homepageLane \in subjectLanes(r)
    BY DEF subjectLanes
  <1>4. r.id \in backupTreeOperations => backupTreeLane \in subjectLanes(r)
    BY DEF subjectLanes
  <1> QED BY <1>1, <1>2, <1>3, <1>4

(* laneFor answers the lane of every app an operation works on, the        *)
(* update of every app with one ready excepted.                            *)
LEMMA LanesCoverApps ==
    ASSUME NEW r \in Requests, r.id # "app.update.available"
    PROVE  appsTouched(r) \subseteq laneFor(r) /\ appsTouched(r) \subseteq AppLane
  <1>1. r.apps \subseteq laneFor(r)
    <2>1. CASE r.id \in appOperations
      BY <2>1, SubjectLanesCover
    <2>2. CASE r.id = "dns.fallback.rehearse"
      BY <2>2 DEF laneFor, exclusiveOperations, dockerRestartOperations, driveUnderAppsOperations
    <2> QED BY <2>1, <2>2
  <1>2. r.id \in homepageOperations => homepageLane \in laneFor(r)
    BY SubjectLanesCover
  <1>3. r.id \in {"cloudflare.connect", "cloudflare.publish"} =>
            {"app:cloudflared", homepageLane} \subseteq laneFor(r)
    <2>1. ASSUME r.id \in {"cloudflare.connect", "cloudflare.publish"}
          PROVE  laneFor(r) = {cloudflareLane, "app:cloudflared", homepageLane}
      BY <2>1 DEF laneFor, exclusiveOperations, dockerRestartOperations, driveUnderAppsOperations
    <2> QED BY <2>1
  <1>4. r.id = "agents.zulip.connect" => "app:zulip" \in laneFor(r)
    <2>1. ASSUME r.id = "agents.zulip.connect" PROVE laneFor(r) = {chatLane, "app:zulip"}
      BY <2>1 DEF laneFor, exclusiveOperations, dockerRestartOperations, driveUnderAppsOperations
    <2> QED BY <2>1
  <1>5. appsTouched(r) \subseteq laneFor(r)
    BY <1>1, <1>2, <1>3, <1>4 DEF appsTouched
  <1>6. appsTouched(r) \subseteq r.apps \union {homepageLane, "app:cloudflared", "app:zulip"}
    BY DEF appsTouched
  <1>7. laneFor(r) \subseteq Lane
    BY LaneSetsAreLanes
  <1> QED BY <1>5, <1>6, <1>7

(* What can restart Docker, or takes a drive away, holds Docker's lane. *)
LEMMA DockerLaneHeld ==
    ASSUME NEW r, takesDockerAway(r)
    PROVE  dockerLane \in laneFor(r)
  BY DEF takesDockerAway, laneFor, exclusiveOperations, dockerRestartOperations, driveUnderAppsOperations

(* A call that is for no request works on no app and on no shared part. *)
LEMMA NoRequestTouchesNothing ==
    /\ appsTouched(NoRequest) = {}
    /\ NoRequest.id \notin mirrors
    /\ ~writesBackupTree(NoRequest)
    /\ ~takesDockerAway(NoRequest)
  BY DEF NoRequest, appsTouched, homepageOperations, mirrors, writesBackupTree, backupTreeOperations,
         takesDockerAway, dockerRestartOperations, driveUnderAppsOperations
-----------------------------------------------------------------------------
(* A step over requests is a step of the queues. *)
LEMMA OpStepIsLanesStep == [OpNext]_opVars => [LanesNext]_laneVars
  BY DEF OpNext, opVars, Ask, LanesNext

(* Every step keeps the lanes of a call those of its request. *)
LEMMA NextOpInv == OpInv /\ [OpNext]_opVars => OpInv'
  <1> SUFFICES ASSUME OpInv, [OpNext]_opVars PROVE OpInv'
    OBVIOUS
  <1>1. LanesInv'
    BY OpStepIsLanesStep, NextLanesInv DEF OpInv
  <1>t. /\ status \in [Task -> Status] /\ held \in [Task -> SUBSET Lane]
        /\ request \in [Task -> Requests \union {NoRequest}]
    BY DEF OpInv, LanesInv, LanesTypeOK
  <1>2. ASSUME NEW t \in Task, NEW r \in Requests, Ask(t, r)
        PROVE  request' \in [Task -> Requests \union {NoRequest}] /\ HoldsItsLanes'
    BY <1>2, <1>t DEF Ask, run, OpInv, HoldsItsLanes
  <1>3. ASSUME NEW t \in Task, onIdle(t, {exclusiveLane}), UNCHANGED request
        PROVE  HoldsItsLanes'
    BY <1>3, <1>t DEF onIdle, OpInv, HoldsItsLanes
  <1>4. ASSUME UNCHANGED <<held, request>>, \A u \in Task : status[u] # "new" => status'[u] # "new"
        PROVE  HoldsItsLanes'
    BY <1>4, <1>t DEF OpInv, HoldsItsLanes
  <1>5. ASSUME NEW t \in Task, stopWaiting(t) \/ Proceed(t)
        PROVE  UNCHANGED held /\ \A u \in Task : status[u] # "new" => status'[u] # "new"
    <2>1. CASE stopWaiting(t) \/ start(t) \/ holdUntil(t) \/ afterSettles(t) \/ answer(t)
      BY <2>1, <1>t DEF stopWaiting, start, holdUntil, afterSettles, answer
    <2>2. CASE release(t)
      <3>1. UNCHANGED held
        BY <2>2 DEF release
      <3>2. CASE status' = [status EXCEPT ![t] = "released"]
        BY <3>1, <3>2, <1>t
      <3>3. CASE \E w \in idleWaiters : status' = [status EXCEPT ![t] = "released", ![w] = "waiting"]
        BY <3>1, <3>3, <1>t
      <3> QED BY <2>2, <3>2, <3>3 DEF release
    <2> QED BY <1>5, <2>1, <2>2 DEF Proceed
  <1>6. CASE UNCHANGED opVars
    <2>1. HoldsItsLanes'
      BY <1>6, <1>4 DEF opVars, laneVars
    <2>2. request' \in [Task -> Requests \union {NoRequest}]
      BY <1>6, <1>t DEF opVars
    <2> QED BY <1>1, <2>1, <2>2 DEF OpInv
  <1>7. CASE OpNext
    <2>1. request' \in [Task -> Requests \union {NoRequest}]
      BY <1>7, <1>2, <1>t DEF OpNext
    <2>2. HoldsItsLanes'
      BY <1>7, <1>2, <1>3, <1>4, <1>5 DEF OpNext
    <2> QED BY <1>1, <2>1, <2>2 DEF OpInv
  <1> QED BY <1>6, <1>7

(* The inductive invariant holds in every state of every behaviour. *)
THEOREM OpInvariant == OpSpec => []OpInv
  <1>1. OpInit => OpInv
    BY InitLanesInv DEF OpInit, OpInv, HoldsItsLanes
  <1> QED BY <1>1, NextOpInv, PTL DEF OpSpec

(* Two calls that work at the same time hold lanes that do not conflict. *)
LEMMA BesideNoConflict ==
    ASSUME OpInv, NEW t \in Task, NEW u \in Task, Beside(t, u)
    PROVE  ~Conflict(held[t], held[u])
  BY LanesInvExcludes DEF OpInv, Beside, NoConflictBeside

(* Two operations on the same app never work at the same time, for any     *)
(* requests but app.update.available, which names no app to laneFor.       *)
THEOREM OneOperationOnAnApp ==
    ASSUME \A r \in Requests : r.id # "app.update.available"
    PROVE  OpSpec => []OneOperationPerApp
  <1>1. OpInv => OneOperationPerApp
    <2> SUFFICES ASSUME OpInv, NEW t \in Task, NEW u \in Task, Beside(t, u)
                 PROVE  appsTouched(request[t]) \intersect appsTouched(request[u]) = {}
      BY DEF OneOperationPerApp
    <2>1. held[t] \intersect held[u] = {}
      BY BesideNoConflict DEF Conflict
    <2>2. ASSUME NEW v \in Task PROVE appsTouched(request[v]) \subseteq held[v]
      BY LanesCoverApps, NoRequestTouchesNothing DEF OpInv, HoldsItsLanes
    <2> QED BY <2>1, <2>2
  <1> QED BY <1>1, OpInvariant, PTL

(* A mirror never copies the backup tree while it is written or pruned,    *)
(* and Docker is never restarted, nor a drive taken, under an app's        *)
(* operation, for any requests but app.update.available.                   *)
THEOREM SharedPartsAreStill ==
    ASSUME \A r \in Requests : r.id # "app.update.available"
    PROVE  OpSpec => []SharedPartsStayStill
  <1>1. OpInv => SharedPartsStayStill
    <2> SUFFICES ASSUME OpInv, NEW t \in Task, NEW u \in Task, Beside(t, u)
                 PROVE  /\ request[t].id \in mirrors => ~writesBackupTree(request[u])
                        /\ takesDockerAway(request[t]) => appsTouched(request[u]) = {}
      BY DEF SharedPartsStayStill
    <2>1. ~Conflict(held[t], held[u])
      BY BesideNoConflict
    <2>2. ASSUME NEW v \in Task, request[v].id \in backupTreeOperations
          PROVE  backupTreeLane \in held[v]
      <3>1. request[v] # NoRequest
        BY <2>2 DEF NoRequest, backupTreeOperations
      <3> QED BY <2>2, <3>1, SubjectLanesCover DEF OpInv, HoldsItsLanes
    <2>3. request[t].id \in mirrors => ~writesBackupTree(request[u])
      <3>1. mirrors \subseteq backupTreeOperations
        BY DEF mirrors, backupTreeOperations
      <3> QED BY <2>1, <2>2, <3>1 DEF writesBackupTree, Conflict
    <2>4. ASSUME takesDockerAway(request[t]) PROVE dockerLane \in held[t]
      BY <2>4, DockerLaneHeld, NoRequestTouchesNothing DEF OpInv, HoldsItsLanes
    <2>5. appsTouched(request[u]) \subseteq held[u] \intersect AppLane
      BY LanesCoverApps, NoRequestTouchesNothing DEF OpInv, HoldsItsLanes
    <2> QED BY <2>1, <2>3, <2>4, <2>5 DEF Conflict
  <1> QED BY <1>1, OpInvariant, PTL

(* Whatever requests arrive, the queues implement the abstract lock. *)
THEOREM OperationsKeepLock == OpSpec => ImplementsLaneLock
  <1>1. OpInit => LanesInit
    BY DEF OpInit
  <1>2. OpSpec => LanesSafetySpec
    BY <1>1, OpStepIsLanesStep, PTL DEF OpSpec, LanesSafetySpec
  <1> QED BY <1>2, Refinement
=============================================================================
