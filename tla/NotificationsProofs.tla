------------------------ MODULE NotificationsProofs ------------------------
(***************************************************************************)
(* Proofs for the parts that tell people something: pushes of waiting      *)
(* approvals (PushApprovals), for any jobs, sweeps and limits; the ledger  *)
(* of alerts and the automatic reconnects told through it (AutoReconnect), *)
(* for any limits, notices and numbers of armings.                         *)
(***************************************************************************)
EXTENDS PushApprovals, AutoReconnect, FiniteSetTheorems, SequenceTheorems, TLAPS

(* The type of every variable. *)
PushTypeOK ==
    /\ web \in {"up", "down", "recovering"}
    /\ state \in [Job -> {"none", "awaiting", "active", "completed", "failed", "cancelled"}]
    /\ born \in Seq(Job) /\ age \in [Job -> {"fresh", "due", "old"}]
    /\ marks \in [Job -> Mark]
    /\ sent \in Nat /\ aged \in 0..sent /\ gap \in BOOLEAN /\ quiet \in BOOLEAN /\ tier \in BOOLEAN
    /\ sweeps \in [Sweep -> Sending \union {None}]
    /\ stops \in Nat /\ edits \in Nat
    /\ pushes \in [Job -> Nat] /\ cut \in [Job -> Nat]

(* One sweep at a time; the sends its limit counted are what it writes     *)
(* back, but for those that left the hour before it read.                  *)
SweepInv ==
    /\ \A s, t \in Sweep : sweeps[s] # None /\ sweeps[t] # None => s = t
    /\ \A s \in Sweep : sweeps[s] # None => sweeps[s].dropped =< aged /\ sweeps[s].sent + sweeps[s].dropped = sent

(* Every push of a job but one is one that a stop left unwritten; with     *)
(* none when it is not staged, or waits with neither mark nor delivery.    *)
Unsaid(j) == pushes[j] =< cut[j]
Delivered(j) == \E s \in Sweep : mayWrite(s) /\ j \in sweeps[s].due
CountInv ==
    /\ \A j \in Job : pushes[j] =< 1 + cut[j]
    /\ \A j \in Job : state[j] = "none" => Unsaid(j)
    /\ \A j \in Job : state[j] = "awaiting" /\ marks[j] # "pushed" /\ ~Delivered(j) => Unsaid(j)
    /\ \A j \in Job : marks[j] = "pushed" \/ Delivered(j) => pushes[j] > 0

(* What a sweep in progress will write. *)
WriteInv ==
    \A s \in Sweep : sweeps[s] # None =>
       /\ \A j \in sweeps[s].due : state[j] # "none"
       /\ \A j \in sweeps[s].due : ~sweeps[s].delivered => Unsaid(j)
       /\ \A j \in Job : sweeps[s].marks[j] = "pushed" => pushes[j] > 0
       /\ \A j \in Job \ sweeps[s].due : state[j] = "awaiting" /\ sweeps[s].marks[j] # "pushed" => Unsaid(j)

PushInv == PushTypeOK /\ SweepInv /\ CountInv /\ WriteInv
-----------------------------------------------------------------------------
(* Pushes.                                                                 *)

LEMMA PushInitially == PushInit => PushInv
  <1> SUFFICES ASSUME PushInit PROVE PushInv
    OBVIOUS
  <1> USE DEF PushInit, LifeInit
  <1>1. PushTypeOK
    <2>1. gap \in BOOLEAN /\ quiet \in BOOLEAN /\ tier \in BOOLEAN
      OBVIOUS
    <2>2. web \in {"up", "down", "recovering"} /\ state \in [Job -> {"none", "awaiting", "active", "completed", "failed", "cancelled"}]
      OBVIOUS
    <2>3. born \in Seq(Job) /\ age \in [Job -> {"fresh", "due", "old"}] /\ marks \in [Job -> Mark]
      BY DEF Mark
    <2>4. sent \in Nat /\ aged \in 0..sent /\ stops \in Nat /\ edits \in Nat
      OBVIOUS
    <2>5. sweeps \in [Sweep -> Sending \union {None}]
      OBVIOUS
    <2>6. pushes \in [Job -> Nat] /\ cut \in [Job -> Nat]
      OBVIOUS
    <2> QED BY <2>1, <2>2, <2>3, <2>4, <2>5, <2>6 DEF PushTypeOK
  <1>2. SweepInv
    BY DEF SweepInv
  <1>3. \A s \in Sweep : sweeps[s] = None
    OBVIOUS
  <1>4. CountInv
    <2>1. \A j \in Job : ~Delivered(j)
      BY <1>3 DEF Delivered, mayWrite
    <2>2. \A j \in Job : pushes[j] = 0 /\ cut[j] = 0 /\ marks[j] = "none"
      OBVIOUS
    <2>3. \A j \in Job : Unsaid(j)
      <3> SUFFICES ASSUME NEW j \in Job PROVE pushes[j] =< cut[j]
        BY DEF Unsaid
      <3>1. pushes[j] = 0 /\ cut[j] = 0
        BY <2>2
      <3> QED BY <3>1
    <2> QED BY <2>1, <2>2, <2>3 DEF CountInv
  <1>5. WriteInv
    BY DEF WriteInv
  <1> QED BY <1>1, <1>2, <1>4, <1>5 DEF PushInv

(* What a sweep finds out of the marks as they stand.                      *)
LEMMA NotedMarks ==
  ASSUME PushInv
  PROVE  /\ noted \in [Job -> Mark]
         /\ \A j \in Job : noted[j] = "pushed" => marks[j] = "pushed"
         /\ \A j \in Job : state[j] = "awaiting" /\ marks[j] = "pushed" => noted[j] = "pushed"
         /\ \A j \in due : j \in Job /\ state[j] = "awaiting" /\ marks[j] # "pushed"
  <1> USE DEF PushInv, PushTypeOK, Mark
  <1>1. stillMarked \in [Job -> Mark] /\ \A j \in Job : stillMarked[j] = IF state[j] = "awaiting" THEN marks[j] ELSE "none"
    BY DEF stillMarked, waiting
  <1>2. \A j \in due : j \in ripe
    BY DEF due, wanted
  <1>3. \A j \in ripe : j \in Job /\ state[j] = "awaiting" /\ stillMarked[j] = "none"
    BY DEF ripe, waiting
  <1>4. \A j \in Job : noted[j] = IF j \notin ripe \/ j \in due THEN stillMarked[j] ELSE IF j \in wanted THEN "same" ELSE "skipped"
    BY DEF noted
  <1>5. noted \in [Job -> Mark]
    BY <1>1 DEF noted
  <1> QED BY <1>1, <1>2, <1>3, <1>4, <1>5

(* A step that moves no push, mark, sweep or send, and stages or answers   *)
(* jobs as a job's life goes.                                              *)
LEMMA PushesStand ==
  ASSUME PushInv, PushTypeOK',
         UNCHANGED <<marks, sent, sweeps, pushes, cut>>, aged =< aged',
         \A j \in Job : state'[j] = "none" => state[j] = "none",
         \A j \in Job : state'[j] = "awaiting" => state[j] \in {"none", "awaiting"}
  PROVE  PushInv'
  <1> USE DEF PushInv, Unsaid, Delivered, mayWrite
  <1>1. SweepInv'
    <2> SUFFICES ASSUME NEW s \in Sweep, sweeps[s] # None
                 PROVE  sweeps[s].dropped =< aged' /\ sweeps[s].sent + sweeps[s].dropped = sent
      BY DEF SweepInv
    <2>1. sweeps[s] \in Sending
      BY DEF PushTypeOK
    <2> QED BY <2>1 DEF SweepInv, PushTypeOK, Sending
  <1>2. CountInv'
    BY DEF CountInv
  <1>3. WriteInv'
    <2> SUFFICES ASSUME NEW s \in Sweep, sweeps[s] # None
                 PROVE  /\ \A j \in sweeps[s].due : state'[j] # "none"
                        /\ \A j \in Job \ sweeps[s].due : state'[j] = "awaiting" /\ sweeps[s].marks[j] # "pushed" => Unsaid(j)
      BY DEF WriteInv
    <2>1. sweeps[s].due \subseteq Job
      BY DEF PushTypeOK, Sending
    <2>2. \A j \in Job : state[j] = "none" => Unsaid(j)
      BY DEF CountInv
    <2> QED BY <2>1, <2>2 DEF WriteInv
  <1> QED BY <1>1, <1>2, <1>3

LEMMA SweepHoldsKeeps ==
  ASSUME PushInv, NEW s \in Sweep, sweepHolds(s)
  PROVE  PushInv'
  <1> USE DEF PushInv, sweepHolds, begins
  <1>1. \A t \in Sweep : sweeps[t] = None
    BY DEF sweeping
  <1>2. \A t \in Sweep : sweeps'[t] = None
    BY <1>1
  <1>3. \A j \in Job : ~Delivered(j) /\ ~Delivered(j)'
    BY <1>1, <1>2 DEF Delivered, mayWrite
  <1>4. sent' \in Nat /\ aged' = 0
    BY DEF PushTypeOK, sendsInHour
  <1>5. PushTypeOK'
    BY <1>4, NotedMarks DEF PushTypeOK
  <1>6. SweepInv' /\ WriteInv'
    BY <1>2 DEF SweepInv, WriteInv
  <1>7. \A j \in Job : /\ marks'[j] = "pushed" => marks[j] = "pushed"
                       /\ state[j] = "awaiting" /\ marks[j] = "pushed" => marks'[j] = "pushed"
    BY NotedMarks
  <1>8. CountInv'
    BY <1>3, <1>7 DEF CountInv, Unsaid
  <1> QED BY <1>5, <1>6, <1>8

LEMMA SweepSendsKeeps ==
  ASSUME PushInv, NEW s \in Sweep, sweepSends(s)
  PROVE  PushInv'
  <1> USE DEF PushInv, sweepSends, begins
  <1> DEFINE w == [due |-> due, marks |-> noted, sent |-> sendsInHour, dropped |-> sent - sendsInHour, delivered |-> FALSE]
  <1>1. \A t \in Sweep : sweeps[t] = None
    BY DEF sweeping
  <1>2. sendsInHour \in Nat /\ sent - sendsInHour \in Nat /\ sent - sendsInHour = aged
    BY DEF PushTypeOK, sendsInHour
  <1>3. due \subseteq Job
    BY DEF due, wanted, ripe, waiting
  <1>4. w \in Sending
    BY <1>2, <1>3, NotedMarks DEF Sending
  <1>5. sweeps' = [sweeps EXCEPT ![s] = w] /\ sweeps'[s] = w /\ \A t \in Sweep \ {s} : sweeps'[t] = None
    BY <1>1 DEF PushTypeOK
  <1>6. PushTypeOK'
    <2> HIDE DEF w
    <2>1. sweeps' \in [Sweep -> Sending \union {None}]
      BY <1>4, <1>5 DEF PushTypeOK
    <2> QED BY <2>1 DEF PushTypeOK
  <1>7. SweepInv'
    <2>1. w.dropped =< aged /\ w.sent + w.dropped = sent
      BY <1>2 DEF sendsInHour, PushTypeOK
    <2> HIDE DEF w
    <2> QED BY <2>1, <1>5 DEF SweepInv
  <1>8. \A j \in Job : ~Delivered(j) /\ ~Delivered(j)'
    <2>1. \A t \in Sweep : ~mayWrite(t) /\ ~mayWrite(t)'
      BY <1>1, <1>5 DEF mayWrite
    <2> QED BY <2>1 DEF Delivered
  <1>9. CountInv'
    BY <1>8 DEF CountInv, Unsaid
  <1>10. WriteInv'
    <2> SUFFICES /\ \A j \in due : state[j] # "none" /\ Unsaid(j)
                 /\ \A j \in Job : noted[j] = "pushed" => pushes[j] > 0
                 /\ \A j \in Job \ due : state[j] = "awaiting" /\ noted[j] # "pushed" => Unsaid(j)
      BY <1>5 DEF WriteInv, Unsaid
    <2> QED BY <1>8, NotedMarks DEF CountInv
  <1> QED BY <1>6, <1>7, <1>9, <1>10

LEMMA DeliversKeeps ==
  ASSUME PushInv, NEW s \in Sweep, delivers(s)
  PROVE  PushInv'
  <1> USE DEF PushInv, delivers
  <1> DEFINE w == sweeps[s]
  <1>1. w \in Sending /\ w.delivered = FALSE /\ w.due \subseteq Job
    BY DEF PushTypeOK, Sending
  <1>2. \A t \in Sweep \ {s} : sweeps[t] = None /\ sweeps'[t] = None
    BY DEF SweepInv, PushTypeOK
  <1>3. sweeps'[s] = [w EXCEPT !.delivered = TRUE]
    BY DEF PushTypeOK
  <1>4. [w EXCEPT !.delivered = TRUE] \in Sending
    BY <1>1 DEF Sending
  <1>5. \A j \in Job : pushes'[j] = IF j \in w.due THEN pushes[j] + 1 ELSE pushes[j]
    OBVIOUS
  <1>6. PushTypeOK'
    <2>1. sweeps' \in [Sweep -> Sending \union {None}]
      BY <1>4 DEF PushTypeOK
    <2>2. pushes' \in [Job -> Nat]
      BY DEF PushTypeOK
    <2> QED BY <2>1, <2>2 DEF PushTypeOK
  <1>a. /\ sweeps'[s] # None /\ sweeps'[s].due = w.due /\ sweeps'[s].marks = w.marks
        /\ sweeps'[s].delivered /\ sweeps'[s].sent = w.sent /\ sweeps'[s].dropped = w.dropped
    <2>1. [w EXCEPT !.delivered = TRUE] # None
      BY <1>4, NoSweepAssumption
    <2> QED BY <1>1, <1>3, <2>1 DEF Sending
  <1>7. SweepInv'
    BY <1>2, <1>a DEF SweepInv
  <1>8. \A j \in Job : ~Delivered(j) /\ (Delivered(j)' <=> j \in w.due)
    <2>1. ~mayWrite(s) /\ mayWrite(s)' /\ \A t \in Sweep \ {s} : ~mayWrite(t) /\ ~mayWrite(t)'
      BY <1>1, <1>2, <1>a DEF mayWrite
    <2> QED BY <2>1, <1>a DEF Delivered
  <1>9. \A j \in Job : pushes[j] \in Nat /\ cut[j] \in Nat
    BY DEF PushTypeOK
  <1>10. \A j \in w.due : Unsaid(j) /\ state[j] # "none"
    BY <1>1 DEF WriteInv
  <1>11. CountInv'
    BY <1>1, <1>5, <1>8, <1>9, <1>10 DEF CountInv, Unsaid
  <1>12. WriteInv'
    <2>1. \A j \in Job : w.marks[j] = "pushed" => pushes[j] > 0
      BY DEF WriteInv
    <2>2. \A j \in Job \ w.due : state[j] = "awaiting" /\ w.marks[j] # "pushed" => Unsaid(j)
      BY DEF WriteInv
    <2>3. /\ \A j \in w.due : state[j] # "none"
          /\ \A j \in Job : w.marks[j] = "pushed" => pushes'[j] > 0
          /\ \A j \in Job \ w.due : state[j] = "awaiting" /\ w.marks[j] # "pushed" => Unsaid(j)'
      BY <2>1, <2>2, <1>5, <1>9, <1>10 DEF Unsaid
    <2> QED BY <2>3, <1>2, <1>a DEF WriteInv
  <1> QED BY <1>6, <1>7, <1>11, <1>12

LEMMA SweepWritesKeeps ==
  ASSUME PushInv, NEW s \in Sweep, sweepWrites(s)
  PROVE  PushInv'
  <1> USE DEF PushInv, sweepWrites, mayWrite
  <1> DEFINE w == sweeps[s]
  <1>1. w # None /\ w \in Sending /\ w.delivered /\ w.due \subseteq Job
    BY DEF PushTypeOK, Sending
  <1>2. \A t \in Sweep : sweeps'[t] = None
    BY DEF SweepInv, PushTypeOK
  <1>3. \A j \in Job : marks'[j] = IF j \in w.due THEN "pushed" ELSE w.marks[j]
    OBVIOUS
  <1>4. PushTypeOK'
    <2>1. sweeps' \in [Sweep -> Sending \union {None}]
      BY DEF PushTypeOK
    <2>2. marks' \in [Job -> Mark]
      BY <1>1 DEF Sending, Mark
    <2>3. sent' \in Nat /\ aged' \in 0..sent'
      BY <1>1 DEF PushTypeOK, Sending, SweepInv
    <2> QED BY <2>1, <2>2, <2>3 DEF PushTypeOK
  <1>5. SweepInv' /\ WriteInv'
    BY <1>2 DEF SweepInv, WriteInv
  <1>6. \A j \in Job : ~Delivered(j)' /\ (j \in w.due => Delivered(j))
    BY <1>1, <1>2 DEF Delivered
  <1>7. CountInv'
    <2>1. \A j \in Job : state[j] = "awaiting" /\ marks'[j] # "pushed" => Unsaid(j)
      BY <1>1, <1>3 DEF WriteInv
    <2>2. \A j \in Job : marks'[j] = "pushed" => pushes[j] > 0
      BY <1>1, <1>3, <1>6 DEF WriteInv, CountInv
    <2> QED BY <1>6, <2>1, <2>2 DEF CountInv, Unsaid
  <1> QED BY <1>4, <1>5, <1>7

(* A stop counts the push it left unwritten, if there was one.             *)
LEMMA StopKeepsPushes ==
  ASSUME PushInv, stop
  PROVE  PushInv'
  <1> USE DEF PushInv, stop
  <1> DEFINE writers(j) == {t \in Sweep : mayWrite(t) /\ j \in sweeps[t].due}
  <1>1. \A j \in Job : IF Delivered(j) THEN Cardinality(writers(j)) = 1 ELSE Cardinality(writers(j)) = 0
    <2> TAKE j \in Job
    <2>1. CASE Delivered(j)
      <3>1. PICK t \in Sweep : mayWrite(t) /\ j \in sweeps[t].due
        BY <2>1 DEF Delivered
      <3>2. writers(j) = {t}
        BY <3>1 DEF SweepInv, mayWrite
      <3> QED BY <2>1, <3>2, FS_Singleton
    <2>2. CASE ~Delivered(j)
      <3>1. writers(j) = {}
        BY <2>2 DEF Delivered
      <3> QED BY <2>2, <3>1, FS_EmptySet
    <2> QED BY <2>1, <2>2
  <1>2. \A j \in Job : cut'[j] = cut[j] + Cardinality(writers(j))
    OBVIOUS
  <1> HIDE DEF writers
  <1>3. \A t \in Sweep : sweeps'[t] = None
    OBVIOUS
  <1>4. \A j \in Job : pushes[j] \in Nat /\ cut[j] \in Nat
    BY DEF PushTypeOK
  <1>5. \A j \in Job : cut'[j] \in Nat
    BY <1>1, <1>2, <1>4
  <1>6. PushTypeOK'
    <2>1. cut' = [j \in Job |-> cut'[j]]
      OBVIOUS
    <2>2. cut' \in [Job -> Nat]
      BY <2>1, <1>5
    <2>3. sweeps' \in [Sweep -> Sending \union {None}]
      OBVIOUS
    <2>4. web' = "down" /\ state' = state
      BY DEF Die
    <2> QED BY <2>2, <2>3, <2>4 DEF PushTypeOK
  <1>7. SweepInv' /\ WriteInv'
    BY <1>3 DEF SweepInv, WriteInv
  <1>8. \A j \in Job : ~Delivered(j)'
    BY <1>3 DEF Delivered, mayWrite
  <1>9. \A j \in Job : (Unsaid(j) => Unsaid(j)') /\ (Delivered(j) => Unsaid(j)') /\ pushes[j] =< 1 + cut'[j]
    BY <1>1, <1>2, <1>4 DEF CountInv, Unsaid
  <1>10. CountInv'
    BY <1>8, <1>9 DEF CountInv, Die
  <1> QED BY <1>6, <1>7, <1>10

THEOREM PushInvariant == PushSpec => []PushInv
  <1>1. PushInv /\ [PushNext]_pushVars => PushInv'
    <2> SUFFICES ASSUME PushInv, [PushNext]_pushVars PROVE PushInv'
      OBVIOUS
    <2> DEFINE PushesAlone == UNCHANGED <<marks, sent, sweeps, pushes, cut>>
    <2>1. ASSUME NEW s \in Sweep, sweepHolds(s) \/ sweepSends(s) \/ delivers(s) \/ sweepWrites(s) PROVE PushInv'
      BY <2>1, SweepHoldsKeeps, SweepSendsKeeps, DeliversKeeps, SweepWritesKeeps
    <2>2. ASSUME NEW j \in Job, stage(j) PROVE PushInv'
      <3>1. PushTypeOK'
        BY <2>2 DEF PushInv, PushTypeOK, stage, Stage, Move
      <3> QED BY <2>2, <3>1, PushesStand DEF PushInv, PushTypeOK, stage, Stage, Move
    <2>3. ASSUME NEW j \in Job, answered(j) PROVE PushInv'
      <3>1. /\ \/ state' = [k \in Job |-> IF k \in {j} THEN "cancelled" ELSE state[k]]
               \/ state' = [k \in Job |-> IF k \in {j} THEN "active" ELSE state[k]]
            /\ web' = web /\ UNCHANGED jobVars
        BY <2>3 DEF answered, Withdraw, Grant, Move
      <3>2. PushTypeOK'
        BY <3>1 DEF PushInv, PushTypeOK, jobVars
      <3> QED BY <3>1, <3>2, PushesStand DEF PushInv, PushTypeOK, jobVars
    <2>4. ASSUME NEW j \in Job, jobAges(j) PROVE PushInv'
      <3>1. PushTypeOK'
        BY <2>4 DEF PushInv, PushTypeOK, jobAges
      <3> QED BY <2>4, <3>1, PushesStand DEF PushInv, PushTypeOK, jobAges
    <2>5. CASE quietHours \/ gapPasses
      <3>1. PushTypeOK'
        BY <2>5 DEF PushInv, PushTypeOK, quietHours, gapPasses
      <3> QED BY <2>5, <3>1, PushesStand DEF PushInv, PushTypeOK, quietHours, gapPasses
    <2>6. CASE sendAges
      <3>1. PushTypeOK'
        BY <2>6 DEF PushInv, PushTypeOK, sendAges
      <3> QED BY <2>6, <3>1, PushesStand DEF PushInv, PushTypeOK, sendAges
    <2>7. CASE saveSettings
      <3>1. PushTypeOK'
        BY <2>7 DEF PushInv, PushTypeOK, saveSettings
      <3> QED BY <2>7, <3>1, PushesStand DEF PushInv, PushTypeOK, saveSettings
    <2>8. CASE stop
      BY <2>8, StopKeepsPushes
    <2>9. CASE recovers
      <3>1. /\ web' \in {"recovering", "up"} /\ UNCHANGED jobVars
            /\ state' = state \/ state' = [j \in Job |-> IF j \in activeJobs THEN "failed" ELSE state[j]]
        BY <2>9 DEF recovers, Recover, Back
      <3>2. PushTypeOK'
        BY <3>1 DEF PushInv, PushTypeOK, jobVars
      <3> QED BY <3>1, <3>2, PushesStand DEF PushInv, PushTypeOK, jobVars
    <2>10. CASE UNCHANGED pushVars
      <3>1. PushTypeOK'
        BY <2>10 DEF PushInv, PushTypeOK, pushVars
      <3> QED BY <2>10, <3>1, PushesStand DEF PushInv, PushTypeOK, pushVars
    <2> QED BY <2>1, <2>2, <2>3, <2>4, <2>5, <2>6, <2>7, <2>8, <2>9, <2>10 DEF PushNext
  <1> QED BY PushInitially, <1>1, PTL DEF PushSpec

(* The marks, sends and sweeps are well typed, and the sends within the    *)
(* hour never fewer than none.                                             *)
THEOREM PushTypeCorrect == PushSpec => []PushTypeOK
  <1>1. PushInv => PushTypeOK
    BY DEF PushInv
  <1> QED BY PushInvariant, <1>1, PTL

(* A job is in one push, but for pushes whose record a stop lost, and one  *)
(* marked as pushed was in a push (push-approvals.mjs).                    *)
THEOREM ApprovalPushedOnce == PushSpec => []PushedOnce
  <1>1. PushInv => PushedOnce
    BY DEF PushInv, CountInv, PushedOnce
  <1> QED BY PushInvariant, <1>1, PTL
-----------------------------------------------------------------------------
(* The ledger of alerts.                                                   *)

Entry == {"absent", "unheard", "heard"}
Calls ==
    [op : {"raise", "clear", "tell", "round"}, key : Key \union {""}, sending : BOOLEAN, found : SUBSET Measured,
     evidence : BOOLEAN, toward : BOOLEAN, state : {<<>>} \union [Key -> Entry], todo : SUBSET Key]

(* The type of every variable but kept, whose order no property speaks of. *)
LedgerTypeOK ==
    /\ ledger \in [Key -> Entry] /\ queue \in Seq(Calls)
    /\ target \in BOOLEAN /\ bad \subseteq Measured /\ standing \subseteq Reported
    /\ heard \in [Key -> Nat]

(* Each call names what it may; of a queue only the first call sends.      *)
CallOK(c) ==
    /\ c.op = "raise" => c.key \in Reported
    /\ c.op = "clear" => c.key \in Measured \union Reported
    /\ c.op = "tell" => c.key \in Notice
    /\ c.sending => c.op \in {"raise", "round"} /\ c.state \in [Key -> Entry]
QueueOK(q) == q \in Seq(Calls) /\ \A i \in DOMAIN q : CallOK(q[i]) /\ (i # 1 => ~q[i].sending)
Fresh == {c \in Calls : CallOK(c) /\ ~c.sending}

Sends(op) == queue # <<>> /\ queue[1].op = op /\ queue[1].sending

(* The ledger a call read is still the ledger when it writes.              *)
RaiseInv == Sends("raise") => queue[1].state = ledger /\ ledger[queue[1].key] # "heard"

(* A round keeps every reported condition, and sends once what nobody has  *)
(* heard.                                                                  *)
RoundInv ==
    Sends("round") =>
       /\ \A k \in Reported : queue[1].state[k] = "absent" <=> ledger[k] = "absent"
       /\ \A k \in Measured \union Reported : queue[1].state[k] = "unheard" => heard[k] = 0
       /\ \A k \in queue[1].todo \intersect (queue[1].found \union Reported) : heard[k] = 0
       /\ \A k \in queue[1].todo \intersect Reported : ledger[k] # "absent"

(* What no entry says was heard was not, but for what a round is sending.  *)
HeardInv ==
    /\ AnnouncedOnce
    /\ ~Sends("round") => \A k \in Measured \union Reported : ledger[k] # "heard" => heard[k] = 0

LedgerInv == LedgerTypeOK /\ QueueOK(queue) /\ RaiseInv /\ RoundInv /\ HeardInv /\ ConditionsStand

LEMMA FreshCalls ==
  /\ \A k \in Reported : raise(k) \in Fresh /\ clear(k) \in Fresh
  /\ \A k \in Measured : clear(k) \in Fresh
  /\ \A k \in Notice : tell(k) \in Fresh
  /\ \A found \in SUBSET Measured, evidence \in BOOLEAN :
        [Call("round", "") EXCEPT !.found = found, !.evidence = evidence] \in Fresh
  <1> USE DEF Fresh, Calls, CallOK, raise, clear, tell, Call, Key
  <1> QED OBVIOUS

(* Calls join the end of the queue.                                        *)
LEMMA CallsJoin ==
  ASSUME NEW q, QueueOK(q), NEW calls \in Seq(Fresh)
  PROVE  /\ QueueOK(q \o calls)
         /\ q # <<>> => q \o calls # <<>> /\ (q \o calls)[1] = q[1]
         /\ q = <<>> => \A i \in DOMAIN (q \o calls) : ~(q \o calls)[i].sending
  <1> DEFINE r == q \o calls
  <1>1. q \in Seq(Calls) /\ calls \in Seq(Calls)
    BY DEF QueueOK, Fresh
  <1>2. r \in Seq(Calls) /\ DOMAIN r = 1..Len(q) + Len(calls) /\ DOMAIN q = 1..Len(q) /\ DOMAIN calls = 1..Len(calls)
    BY <1>1
  <1>3. \A i \in DOMAIN r : IF i =< Len(q) THEN i \in DOMAIN q /\ r[i] = q[i]
                            ELSE i - Len(q) \in DOMAIN calls /\ r[i] = calls[i - Len(q)]
    BY <1>1
  <1>4. \A i \in DOMAIN calls : CallOK(calls[i]) /\ ~calls[i].sending
    BY DEF Fresh
  <1> HIDE DEF r
  <1>5. \A i \in DOMAIN r : CallOK(r[i]) /\ (i # 1 => ~r[i].sending)
    BY <1>3, <1>4 DEF QueueOK
  <1>6. q # <<>> => r # <<>> /\ r[1] = q[1]
    BY <1>1, <1>2, <1>3
  <1>7. q = <<>> => \A i \in DOMAIN r : ~r[i].sending
    BY <1>1, <1>2, <1>3, <1>4
  <1> QED BY <1>2, <1>5, <1>6, <1>7 DEF QueueOK, r

(* Without its first call a queue sends nothing.                           *)
LEMMA FirstLeaves ==
  ASSUME NEW q, QueueOK(q), q # <<>>
  PROVE  QueueOK(RemoveAt(q, 1)) /\ \A i \in DOMAIN RemoveAt(q, 1) : ~RemoveAt(q, 1)[i].sending
  <1>1. q \in Seq(Calls) /\ Len(q) >= 1
    BY DEF QueueOK
  <1> DEFINE r == RemoveAt(q, 1)
  <1>2. r = SubSeq(q, 1, 0) \o SubSeq(q, 2, Len(q))
    BY DEF RemoveAt
  <1>3. SubSeq(q, 1, 0) = <<>>
    BY SubSeqEmpty
  <1>4. SubSeq(q, 2, Len(q)) \in Seq(Calls) /\ Len(SubSeq(q, 2, Len(q))) = Len(q) - 1
        /\ \A i \in 1..Len(q) - 1 : SubSeq(q, 2, Len(q))[i] = q[i + 1]
    <2>1. \A i \in 2..Len(q) : q[i] \in Calls
      BY <1>1
    <2>2. /\ SubSeq(q, 2, Len(q)) \in Seq(Calls)
          /\ Len(SubSeq(q, 2, Len(q))) = IF 2 <= Len(q) THEN Len(q) - 2 + 1 ELSE 0
          /\ \A i \in 1..Len(q) - 2 + 1 : SubSeq(q, 2, Len(q))[i] = q[2 + i - 1]
      BY <1>1, <2>1, SubSeqProperties
    <2>3. \A i \in 1..Len(q) - 1 : i \in 1..Len(q) - 2 + 1 /\ 2 + i - 1 = i + 1
      BY <1>1
    <2>4. \A i \in 1..Len(q) - 1 : SubSeq(q, 2, Len(q))[i] = q[i + 1]
      <3> TAKE i \in 1..Len(q) - 1
      <3>1. SubSeq(q, 2, Len(q))[i] = q[2 + i - 1]
        BY <2>2, <2>3
      <3> QED BY <2>3, <3>1
    <2>5. Len(SubSeq(q, 2, Len(q))) = Len(q) - 1
      <3> DEFINE n == Len(q)
      <3>1. n \in Nat /\ n >= 1
        BY <1>1, LenProperties
      <3>2. Len(SubSeq(q, 2, n)) = IF 2 <= n THEN n - 2 + 1 ELSE 0
        BY <2>2
      <3> HIDE DEF n
      <3>3. (IF 2 <= n THEN n - 2 + 1 ELSE 0) = n - 1
        BY <3>1
      <3> QED BY <3>2, <3>3 DEF n
    <2> QED BY <2>2, <2>4, <2>5
  <1>5. r = SubSeq(q, 2, Len(q))
    BY <1>2, <1>3, <1>4
  <1> HIDE DEF r
  <1>6. \A i \in DOMAIN r : i + 1 \in DOMAIN q /\ i + 1 # 1 /\ r[i] = q[i + 1]
    BY <1>1, <1>4, <1>5
  <1> QED BY <1>4, <1>5, <1>6 DEF QueueOK, r

(* Its first call goes on.                                                 *)
LEMMA FirstGoesOn ==
  ASSUME NEW q, QueueOK(q), q # <<>>, NEW c \in Calls, CallOK(c)
  PROVE  LET r == [q EXCEPT ![1] = c] IN QueueOK(r) /\ r # <<>> /\ r[1] = c
  <1> DEFINE r == [q EXCEPT ![1] = c]
  <1>1. q \in Seq(Calls) /\ 1 \in 1..Len(q) /\ DOMAIN q = 1..Len(q)
    BY DEF QueueOK
  <1>2. r \in Seq(Calls) /\ Len(r) = Len(q) /\ \A i \in 1..Len(q) : r[i] = IF i = 1 THEN c ELSE q[i]
    BY <1>1, ExceptSeq
  <1>3. DOMAIN r = 1..Len(q)
    BY <1>1, <1>2
  <1> HIDE DEF r
  <1>4. \A i \in DOMAIN r : CallOK(r[i]) /\ (i # 1 => ~r[i].sending)
    BY <1>1, <1>2, <1>3 DEF QueueOK
  <1>5. r # <<>> /\ r[1] = c
    BY <1>1, <1>2
  <1> QED BY <1>2, <1>4, <1>5 DEF QueueOK, r

LEMMA NothingSends ==
  ASSUME NEW q, QueueOK(q), \A i \in DOMAIN q : ~q[i].sending
  PROVE  q = <<>> \/ ~q[1].sending
  <1>1. q # <<>> => 1 \in DOMAIN q
    BY DEF QueueOK
  <1> QED BY <1>1

(* A step that leaves nothing being sent.                                  *)
LEMMA LedgerAtRest ==
  ASSUME QueueOK(queue'), \A i \in DOMAIN queue' : ~queue'[i].sending,
         ledger' \in [Key -> Entry], heard' \in [Key -> Nat], target' \in BOOLEAN, bad' \subseteq Measured,
         standing' = {k \in Reported : ledger'[k] # "absent"},
         \A k \in Measured \union Reported : heard'[k] =< 1 /\ (ledger'[k] # "heard" => heard'[k] = 0)
  PROVE  LedgerInv'
  <1>1. ~Sends("raise")' /\ ~Sends("round")'
    <2>1. queue' = <<>> \/ ~queue'[1].sending
      BY NothingSends
    <2> QED BY <2>1 DEF Sends
  <1>2. LedgerTypeOK'
    BY DEF LedgerTypeOK, QueueOK
  <1>3. RaiseInv' /\ RoundInv'
    BY <1>1 DEF RaiseInv, RoundInv
  <1>4. HeardInv' /\ ConditionsStand'
    BY DEF HeardInv, AnnouncedOnce, ConditionsStand
  <1> QED BY <1>2, <1>3, <1>4 DEF LedgerInv

(* A step that only makes calls, or touches the host or the target.        *)
LEMMA LedgerHears ==
  ASSUME LedgerInv, NEW calls \in Seq(Fresh), queue' = queue \o calls,
         UNCHANGED <<ledger, standing, heard>>, target' \in BOOLEAN, bad' \subseteq Measured
  PROVE  LedgerInv'
  <1> USE DEF LedgerInv
  <1>1. QueueOK(queue') /\ (queue # <<>> => queue' # <<>> /\ queue'[1] = queue[1])
    BY CallsJoin
  <1>2. queue = <<>> => queue' = <<>> \/ ~queue'[1].sending
    BY <1>1, CallsJoin, NothingSends
  <1>3. /\ Sends("raise")' => Sends("raise") /\ queue'[1] = queue[1]
        /\ Sends("round")' => Sends("round") /\ queue'[1] = queue[1]
        /\ Sends("round") => Sends("round")'
    BY <1>1, <1>2 DEF Sends
  <1>4. LedgerTypeOK'
    BY <1>1 DEF LedgerTypeOK, QueueOK
  <1>5. RaiseInv' /\ RoundInv'
    BY <1>3 DEF RaiseInv, RoundInv
  <1>6. HeardInv' /\ ConditionsStand'
    BY <1>3 DEF HeardInv, AnnouncedOnce, ConditionsStand
  <1> QED BY <1>1, <1>4, <1>5, <1>6

(* What is at work is the first call.                                      *)
LEMMA AtWork ==
  ASSUME LedgerInv, NEW i, NEW op, NEW sending, atWork(i, op, sending)
  PROVE  /\ i = 1 /\ queue # <<>> /\ queue[1] \in Calls /\ CallOK(queue[1])
         /\ queue[1].op = op /\ queue[1].sending = sending
         /\ QueueOK(without(i)) /\ \A n \in DOMAIN without(i) : ~without(i)[n].sending
  <1> USE DEF LedgerInv, atWork, myTurn, without
  <1>1. i = 1 /\ 1 \in DOMAIN queue /\ queue \in Seq(Calls)
    BY DEF LedgerTypeOK
  <1>2. queue # <<>> /\ queue[1] \in Calls /\ CallOK(queue[1])
    BY <1>1 DEF QueueOK
  <1> QED BY <1>1, <1>2, FirstLeaves

LEMMA RaiseReadsKeeps ==
  ASSUME LedgerInv, NEW i, raiseReads(i)
  PROVE  LedgerInv'
  <1> USE DEF raiseReads
  <1> DEFINE c == queue[1]
             d == [c EXCEPT !.sending = TRUE, !.state = ledger]
  <1>1. i = 1 /\ queue # <<>> /\ c \in Calls /\ CallOK(c) /\ c.op = "raise" /\ ~c.sending /\ c.key \in Reported
    BY AtWork DEF CallOK
  <1>2. ~Sends("round")
    BY <1>1 DEF Sends
  <1>3. LedgerTypeOK /\ ConditionsStand
        /\ \A k \in Measured \union Reported : heard[k] =< 1 /\ (ledger[k] # "heard" => heard[k] = 0)
    BY <1>2 DEF LedgerInv, HeardInv, AnnouncedOnce
  <1>4. CASE alreadyAnnounced(ledger, c.key)
    <2>1. QueueOK(queue') /\ \A n \in DOMAIN queue' : ~queue'[n].sending
      BY <1>1, <1>4, AtWork
    <2>2. standing' = {k \in Reported : ledger[k] # "absent"}
      BY <1>1, <1>3, <1>4 DEF alreadyAnnounced, ConditionsStand
    <2> QED BY <1>3, <2>1, <2>2, LedgerAtRest DEF LedgerTypeOK
  <1>5. CASE ~alreadyAnnounced(ledger, c.key)
    <2>1. d \in Calls /\ CallOK(d) /\ d.op = "raise" /\ d.state = ledger /\ d.key = c.key
      BY <1>1, <1>3 DEF Calls, CallOK, LedgerTypeOK
    <2> HIDE DEF d
    <2>2. queue' = [queue EXCEPT ![1] = d]
      BY <1>1, <1>5 DEF d
    <2>3. QueueOK(queue') /\ queue' # <<>> /\ queue'[1] = d
      BY <1>1, <2>1, <2>2, FirstGoesOn DEF LedgerInv
    <2>4. ~Sends("round")' /\ RaiseInv' /\ RoundInv'
      BY <1>5, <2>1, <2>3 DEF Sends, RaiseInv, RoundInv, alreadyAnnounced
    <2>5. UNCHANGED <<ledger, target, bad, heard, standing>>
      BY <1>1, <1>5
    <2>6. LedgerTypeOK'
      BY <1>3, <2>3, <2>5 DEF LedgerTypeOK, QueueOK
    <2>7. HeardInv' /\ ConditionsStand'
      BY <1>3, <2>5 DEF HeardInv, AnnouncedOnce, ConditionsStand
    <2> QED BY <2>3, <2>4, <2>6, <2>7 DEF LedgerInv
  <1> QED BY <1>4, <1>5

LEMMA RaisedKeeps ==
  ASSUME LedgerInv, NEW i, NEW taken \in BOOLEAN, raised(i, taken)
  PROVE  LedgerInv'
  <1> USE DEF raised
  <1> DEFINE key == queue[1].key
  <1>1. i = 1 /\ Sends("raise") /\ key \in Reported /\ queue[1].op = "raise"
    BY AtWork DEF CallOK, Sends
  <1>2. ~Sends("round") /\ queue[1].state = ledger /\ ledger[key] # "heard"
    BY <1>1 DEF Sends, LedgerInv, RaiseInv
  <1>3. LedgerTypeOK /\ ConditionsStand
        /\ \A k \in Measured \union Reported : heard[k] =< 1 /\ (ledger[k] # "heard" => heard[k] = 0)
    BY <1>2 DEF LedgerInv, HeardInv, AnnouncedOnce
  <1>4. key \in Key /\ heard[key] = 0
    BY <1>1, <1>2, <1>3 DEF Key
  <1>5. QueueOK(queue') /\ \A n \in DOMAIN queue' : ~queue'[n].sending
    BY AtWork
  <1>6. ledger' = [ledger EXCEPT ![key] = IF taken THEN "heard" ELSE "unheard"]
    BY <1>1, <1>2
  <1>7. heard' = [heard EXCEPT ![key] = IF taken THEN 1 ELSE 0]
    BY <1>1, <1>3, <1>4 DEF announced, LedgerTypeOK
  <1> HIDE DEF raised, key
  <1>8. ledger' \in [Key -> Entry] /\ heard' \in [Key -> Nat]
    BY <1>3, <1>6, <1>7 DEF LedgerTypeOK, Entry
  <1>9. \A k \in Measured \union Reported : heard'[k] =< 1 /\ (ledger'[k] # "heard" => heard'[k] = 0)
    BY <1>3, <1>4, <1>6, <1>7 DEF LedgerTypeOK, Key
  <1>10. standing' = standing \union {key} /\ UNCHANGED <<target, bad>>
    BY <1>1 DEF raised, key
  <1>11. standing' = {k \in Reported : ledger'[k] # "absent"}
    BY <1>1, <1>3, <1>4, <1>6, <1>10 DEF ConditionsStand, LedgerTypeOK, Key
  <1> QED BY <1>3, <1>5, <1>8, <1>9, <1>10, <1>11, LedgerAtRest DEF LedgerTypeOK

LEMMA ClearedKeeps ==
  ASSUME LedgerInv, NEW i, cleared(i)
  PROVE  LedgerInv'
  <1> USE DEF cleared
  <1> DEFINE key == queue[1].key
  <1>1. i = 1 /\ queue[1].op = "clear" /\ key \in Measured \union Reported /\ key \in Key
    BY AtWork DEF CallOK, Key
  <1>2. LedgerTypeOK /\ ConditionsStand
        /\ \A k \in Measured \union Reported : heard[k] =< 1 /\ (ledger[k] # "heard" => heard[k] = 0)
    BY <1>1 DEF LedgerInv, HeardInv, AnnouncedOnce, Sends
  <1>3. QueueOK(queue') /\ \A n \in DOMAIN queue' : ~queue'[n].sending
    BY AtWork
  <1>4. ledger' = [ledger EXCEPT ![key] = "absent"] /\ heard' = [heard EXCEPT ![key] = 0]
        /\ standing' = standing \ {key} /\ UNCHANGED <<target, bad>>
    BY <1>1
  <1> HIDE DEF cleared, key
  <1>5. ledger' \in [Key -> Entry] /\ heard' \in [Key -> Nat]
    BY <1>2, <1>4 DEF LedgerTypeOK, Entry
  <1>6. \A k \in Measured \union Reported : heard'[k] =< 1 /\ (ledger'[k] # "heard" => heard'[k] = 0)
    BY <1>1, <1>2, <1>4 DEF LedgerTypeOK, Key
  <1>7. standing' = {k \in Reported : ledger'[k] # "absent"}
    BY <1>1, <1>2, <1>4 DEF ConditionsStand, LedgerTypeOK, Key
  <1> QED BY <1>2, <1>3, <1>4, <1>5, <1>6, <1>7, LedgerAtRest DEF LedgerTypeOK

LEMMA ToldKeeps ==
  ASSUME LedgerInv, NEW i, NEW taken \in BOOLEAN, told(i, taken)
  PROVE  LedgerInv'
  <1>1. i = 1 /\ queue[1].op = "tell" /\ QueueOK(queue') /\ \A n \in DOMAIN queue' : ~queue'[n].sending
    BY AtWork DEF told
  <1>2. LedgerTypeOK /\ ConditionsStand
        /\ \A k \in Measured \union Reported : heard[k] =< 1 /\ (ledger[k] # "heard" => heard[k] = 0)
    BY <1>1 DEF LedgerInv, HeardInv, AnnouncedOnce, Sends
  <1>3. /\ ledger' = [k \in Key |-> IF k \notin Notice THEN ledger[k]
                                     ELSE IF k \in ToSet(kept') THEN "unheard" ELSE "absent"]
        /\ UNCHANGED <<target, bad, standing, heard>>
    BY DEF told
  <1>4. ledger' \in [Key -> Entry]
    BY <1>2, <1>3 DEF LedgerTypeOK, Entry
  <1>5. \A k \in Measured \union Reported : k \in Key /\ ledger'[k] = ledger[k]
    BY <1>3, LedgerAssumption DEF Key
  <1>6. standing' = {k \in Reported : ledger'[k] # "absent"}
    BY <1>2, <1>3, <1>5 DEF ConditionsStand
  <1> QED BY <1>1, <1>2, <1>3, <1>4, <1>5, <1>6, LedgerAtRest DEF LedgerTypeOK

LEMMA RoundReadsKeeps ==
  ASSUME LedgerInv, NEW i, NEW A \in SUBSET Notice, roundReads(i, A)
  PROVE  LedgerInv'
  <1> DEFINE c == queue[1]
             w == [c EXCEPT !.toward = target]
             kept1 == [k \in Key |-> IF k \in dropped(w, ledger, A) THEN "absent" ELSE ledger[k]]
             todo1 == toSend(w, ledger) \ A
             d == [w EXCEPT !.sending = TRUE, !.todo = todo1, !.state = kept1]
  <1>1. i = 1 /\ queue # <<>> /\ c \in Calls /\ CallOK(c) /\ c.op = "round" /\ ~c.sending
    BY AtWork DEF roundReads
  <1>2. LedgerTypeOK /\ ConditionsStand
        /\ \A k \in Measured \union Reported : heard[k] =< 1 /\ (ledger[k] # "heard" => heard[k] = 0)
    BY <1>1 DEF LedgerInv, HeardInv, AnnouncedOnce, Sends
  <1>3. w \in Calls /\ w.found = c.found /\ w.found \subseteq Measured /\ w.op = "round"
    BY <1>1, <1>2 DEF Calls, LedgerTypeOK
  <1>4. queue' = [queue EXCEPT ![1] = d] /\ UNCHANGED <<ledger, kept, target, bad, standing, heard>>
    BY <1>1 DEF roundReads
  <1>5. kept1 \in [Key -> Entry] /\ todo1 \subseteq Key
    <2>1. todo1 \subseteq Key
      BY <1>3 DEF toSend, Key
    <2>2. kept1 \in [Key -> Entry]
      BY <1>2 DEF LedgerTypeOK, Entry
    <2> QED BY <2>1, <2>2
  <1>6. \A k \in Reported : kept1[k] = ledger[k]
    <2> SUFFICES ASSUME NEW k \in Reported PROVE k \notin dropped(w, ledger, A)
      BY DEF Key
    <2> QED BY LedgerAssumption DEF dropped
  <1>7. \A k \in Measured \union Reported : kept1[k] = "unheard" => heard[k] = 0
    BY <1>2 DEF Key
  <1>8. \A k \in todo1 \intersect (w.found \union Reported) : heard[k] = 0 /\ (k \in Reported => ledger[k] # "absent")
    <2> SUFFICES ASSUME NEW k \in todo1, k \in w.found \union Reported
                 PROVE  ledger[k] # "heard" /\ (k \in Reported => ledger[k] # "absent")
      BY <1>2, <1>3
    <2> QED BY <1>3, LedgerAssumption DEF toSend, alreadyAnnounced
  <1> HIDE DEF kept1, todo1
  <1>9. d \in Calls /\ CallOK(d) /\ d.op = "round" /\ d.sending /\ d.state = kept1 /\ d.todo = todo1 /\ d.found = w.found
    BY <1>3, <1>5 DEF Calls, CallOK
  <1> HIDE DEF d, w
  <1>10. QueueOK(queue') /\ queue' # <<>> /\ queue'[1] = d
    BY <1>1, <1>4, <1>9, FirstGoesOn DEF LedgerInv
  <1>11. Sends("round")' /\ ~Sends("raise")'
    BY <1>9, <1>10 DEF Sends
  <1>12. RaiseInv' /\ RoundInv'
    BY <1>4, <1>6, <1>7, <1>8, <1>9, <1>10, <1>11 DEF RaiseInv, RoundInv
  <1>13. LedgerTypeOK'
    BY <1>2, <1>4, <1>10 DEF LedgerTypeOK, QueueOK
  <1>14. HeardInv' /\ ConditionsStand'
    BY <1>2, <1>4, <1>11 DEF HeardInv, AnnouncedOnce, ConditionsStand
  <1> QED BY <1>10, <1>12, <1>13, <1>14 DEF LedgerInv

LEMMA RoundSendsKeeps ==
  ASSUME LedgerInv, NEW i, NEW k \in Key, NEW taken \in BOOLEAN, roundSends(i, k, taken)
  PROVE  LedgerInv'
  <1> DEFINE c == queue[1]
             to == afterSend(c, k, taken)
             d == [[c EXCEPT !.todo = @ \ {k}] EXCEPT !.state = [@ EXCEPT ![k] = to]]
             says == taken /\ k \in c.found \union Reported
  <1>1. i = 1 /\ queue # <<>> /\ c \in Calls /\ CallOK(c) /\ c.op = "round" /\ c.sending /\ k \in c.todo
    BY AtWork DEF roundSends
  <1>2. Sends("round") /\ ~Sends("raise")
    BY <1>1 DEF Sends
  <1>3. LedgerTypeOK /\ ConditionsStand /\ \A q \in Measured \union Reported : heard[q] =< 1
    BY DEF LedgerInv, HeardInv, AnnouncedOnce
  <1>4. /\ \A q \in Reported : c.state[q] = "absent" <=> ledger[q] = "absent"
        /\ \A q \in Measured \union Reported : c.state[q] = "unheard" => heard[q] = 0
        /\ \A q \in c.todo \intersect (c.found \union Reported) : heard[q] = 0
        /\ \A q \in c.todo \intersect Reported : ledger[q] # "absent"
    BY <1>2 DEF LedgerInv, RoundInv
  <1>5. c.state \in [Key -> Entry] /\ c.found \subseteq Measured /\ c.todo \subseteq Key
    BY <1>1 DEF CallOK, Calls
  <1>6. queue' = [queue EXCEPT ![1] = d] /\ UNCHANGED <<ledger, kept, target, bad, standing>>
        /\ heard' = [heard EXCEPT ![k] = IF says THEN heard[k] + 1 ELSE heard[k]]
    BY <1>1, <1>3 DEF roundSends, announced, LedgerTypeOK
  <1>7. to \in Entry /\ (k \in Reported => to # "absent")
        /\ (to = "unheard" => ~says /\ (k \in c.found \union Reported \/ c.state[k] = "unheard"))
    BY <1>5 DEF afterSend, Entry
  <1>8. d \in Calls /\ CallOK(d) /\ d.op = "round" /\ d.sending /\ d.todo = c.todo \ {k} /\ d.found = c.found
        /\ d.state = [c.state EXCEPT ![k] = to] /\ d.state \in [Key -> Entry]
    <2> HIDE DEF to
    <2>1. [c.state EXCEPT ![k] = to] \in [Key -> Entry]
      BY <1>5, <1>7
    <2> QED BY <1>1, <2>1 DEF Calls, CallOK
  <1> HIDE DEF d, to
  <1>9. QueueOK(queue') /\ queue' # <<>> /\ queue'[1] = d
    BY <1>1, <1>6, <1>8, FirstGoesOn DEF LedgerInv
  <1>10. Sends("round")' /\ ~Sends("raise")'
    BY <1>8, <1>9 DEF Sends
  <1>11. /\ heard' \in [Key -> Nat]
         /\ \A q \in Key \ {k} : heard'[q] = heard[q] /\ d.state[q] = c.state[q]
         /\ d.state[k] = to /\ heard'[k] = IF says THEN heard[k] + 1 ELSE heard[k]
    BY <1>3, <1>5, <1>6, <1>8 DEF LedgerTypeOK
  <1>12. says => heard[k] = 0
    BY <1>1, <1>4
  <1>13. /\ \A q \in Reported : d.state[q] = "absent" <=> ledger[q] = "absent"
         /\ \A q \in Measured \union Reported : d.state[q] = "unheard" => heard'[q] = 0
         /\ \A q \in d.todo \intersect (d.found \union Reported) : heard'[q] = 0
         /\ \A q \in d.todo \intersect Reported : ledger[q] # "absent"
    <2>1. \A q \in Reported : d.state[q] = "absent" <=> ledger[q] = "absent"
      <3> SUFFICES ASSUME NEW q \in Reported PROVE d.state[q] = "absent" <=> ledger[q] = "absent"
        OBVIOUS
      <3>1. q \in Key
        BY DEF Key
      <3> QED BY <3>1, <1>1, <1>4, <1>7, <1>11
    <2>2. \A q \in Measured \union Reported : d.state[q] = "unheard" => heard'[q] = 0
      <3> SUFFICES ASSUME NEW q \in Measured \union Reported, d.state[q] = "unheard" PROVE heard'[q] = 0
        OBVIOUS
      <3>1. q \in Key
        BY DEF Key
      <3>2. CASE q # k
        BY <3>1, <3>2, <1>4, <1>11
      <3>3. CASE q = k
        <4>1. ~says /\ heard'[k] = heard[k]
          BY <3>3, <1>7, <1>11
        <4>2. heard[k] = 0
          BY <3>3, <1>1, <1>4, <1>7, <1>11
        <4> QED BY <3>3, <4>1, <4>2
      <3> QED BY <3>2, <3>3
    <2>3. \A q \in d.todo \intersect (d.found \union Reported) : heard'[q] = 0
      BY <1>4, <1>5, <1>8, <1>11
    <2>4. \A q \in d.todo \intersect Reported : ledger[q] # "absent"
      BY <1>4, <1>8
    <2> QED BY <2>1, <2>2, <2>3, <2>4
  <1>14. RaiseInv' /\ RoundInv'
    BY <1>6, <1>9, <1>10, <1>13 DEF RaiseInv, RoundInv
  <1>15. LedgerTypeOK'
    BY <1>3, <1>6, <1>9, <1>11 DEF LedgerTypeOK, QueueOK
  <1>16. HeardInv' /\ ConditionsStand'
    <2>1. \A q \in Measured \union Reported : heard'[q] =< 1
      <3> SUFFICES ASSUME NEW q \in Measured \union Reported PROVE heard'[q] =< 1
        OBVIOUS
      <3>1. q \in Key /\ heard[q] =< 1
        BY <1>3 DEF Key
      <3> HIDE DEF says
      <3> QED BY <3>1, <1>11, <1>12
    <2> QED BY <1>3, <1>6, <1>10, <2>1 DEF HeardInv, AnnouncedOnce, ConditionsStand
  <1> QED BY <1>9, <1>14, <1>15, <1>16 DEF LedgerInv

LEMMA RoundWritesKeeps ==
  ASSUME LedgerInv, NEW i, NEW calls \in Seq(Fresh), atWork(i, "round", TRUE), roundWrites(i, calls)
  PROVE  LedgerInv'
  <1> DEFINE c == queue[1]
  <1>1. i = 1 /\ queue # <<>> /\ c \in Calls /\ CallOK(c) /\ c.op = "round" /\ c.sending /\ QueueOK(without(i))
        /\ \A n \in DOMAIN without(i) : ~without(i)[n].sending
    BY AtWork
  <1>2. c.state \in [Key -> Entry]
    BY <1>1 DEF CallOK
  <1>3. Sends("round")
    BY <1>1 DEF Sends
  <1>4. LedgerTypeOK /\ ConditionsStand /\ \A q \in Measured \union Reported : heard[q] =< 1
    BY DEF LedgerInv, HeardInv, AnnouncedOnce
  <1>5. /\ \A q \in Reported : c.state[q] = "absent" <=> ledger[q] = "absent"
        /\ \A q \in Measured \union Reported : c.state[q] = "unheard" => heard[q] = 0
    BY <1>3 DEF LedgerInv, RoundInv
  <1>6. ledger' = c.state /\ queue' = without(i) \o calls
        /\ heard' = [k \in Key |-> IF c.state[k] = "absent" THEN 0 ELSE heard[k]]
        /\ UNCHANGED <<target, bad, standing>>
    BY <1>1 DEF roundWrites
  <1>7. QueueOK(queue') /\ \A n \in DOMAIN queue' : ~queue'[n].sending
    <2> DEFINE q == without(i)
    <2> HIDE DEF q
    <2>1. QueueOK(q) /\ \A n \in DOMAIN q : ~q[n].sending
      BY <1>1 DEF q
    <2>2. QueueOK(q \o calls)
      BY <2>1, CallsJoin
    <2>3. \A n \in DOMAIN (q \o calls) : n # 1 => ~(q \o calls)[n].sending
      BY <2>2 DEF QueueOK
    <2>4. 1 \in DOMAIN (q \o calls) => ~(q \o calls)[1].sending
      <3>1. CASE q = <<>>
        BY <2>1, <3>1, CallsJoin
      <3>2. CASE q # <<>>
        BY <2>1, <3>2, CallsJoin, NothingSends
      <3> QED BY <3>1, <3>2
    <2>5. queue' = q \o calls
      BY <1>6 DEF q
    <2> QED BY <2>2, <2>3, <2>4, <2>5
  <1> HIDE DEF c
  <1>8. heard' \in [Key -> Nat]
    BY <1>4, <1>6 DEF LedgerTypeOK
  <1>9. \A k \in Measured \union Reported : heard'[k] =< 1 /\ (ledger'[k] # "heard" => heard'[k] = 0)
    <2> SUFFICES ASSUME NEW k \in Measured \union Reported PROVE heard'[k] =< 1 /\ (c.state[k] # "heard" => heard'[k] = 0)
      BY <1>6
    <2>1. k \in Key /\ c.state[k] \in Entry
      BY <1>2 DEF Key
    <2> QED BY <2>1, <1>4, <1>5, <1>6 DEF Entry
  <1>10. standing' = {k \in Reported : ledger'[k] # "absent"}
    BY <1>4, <1>5, <1>6 DEF ConditionsStand
  <1> QED BY <1>2, <1>4, <1>6, <1>7, <1>8, <1>9, <1>10, LedgerAtRest DEF LedgerTypeOK

LEMMA RestartsKeeps ==
  ASSUME LedgerInv, NEW calls \in Seq(Fresh), restarts(calls)
  PROVE  LedgerInv'
  <1>1. queue' = calls /\ UNCHANGED <<ledger, target, bad, standing>>
        /\ heard' = [k \in Key |-> IF ledger[k] = "heard" THEN heard[k] ELSE 0]
    BY DEF restarts
  <1>2. LedgerTypeOK /\ ConditionsStand /\ \A q \in Measured \union Reported : heard[q] =< 1
    BY DEF LedgerInv, HeardInv, AnnouncedOnce
  <1>3. QueueOK(queue') /\ \A n \in DOMAIN queue' : ~queue'[n].sending
    BY <1>1 DEF QueueOK, Fresh
  <1>4. heard' \in [Key -> Nat]
    BY <1>1, <1>2 DEF LedgerTypeOK
  <1>5. \A k \in Measured \union Reported : heard'[k] =< 1 /\ (ledger'[k] # "heard" => heard'[k] = 0)
    BY <1>1, <1>2 DEF Key
  <1> QED BY <1>1, <1>2, <1>3, <1>4, <1>5, LedgerAtRest DEF LedgerTypeOK, ConditionsStand
-----------------------------------------------------------------------------
(* Automatic reconnects.                                                   *)

Attempts == [at : Nat, running : BOOLEAN]
RunStates ==
    [at : {"idle", "checking", "running", "completed", "failed"}, by : {"none", "drive", "hand"}]

(* The type of every variable but the ledger's.                            *)
DriveTypeOK ==
    /\ now \in Nat /\ trigger \in {"none", "on", "paused"} /\ arming \in 0..MaxArmings
    /\ attempts \subseteq Attempts /\ IsFiniteSet(attempts) /\ held \in BOOLEAN
    /\ flow \in [Arming -> RunStates] /\ since \in Nat /\ telling \in BOOLEAN
    /\ hand \in {"none", "remount", "other"} /\ unclean \in BOOLEAN
    /\ restarted \in Nat /\ drops \in Nat /\ changes \in Nat
    /\ runs \in Seq(Nat) /\ spoiled \in BOOLEAN

(* A drive that is not armed has neither attempts nor runs; an automation  *)
(* runs only once it was armed.                                            *)
ArmedInv ==
    /\ trigger = "none" => runs = <<>> /\ attempts = {} /\ ~spoiled
    /\ trigger # "none" => arming \in Arming
    /\ \A n \in Arming : /\ flow[n].at = "idle" <=> flow[n].by = "none"
                         /\ n > arming => flow[n] = NoRun

(* One automatic reconnect is in flight, and it is counted unless its      *)
(* automation has been disarmed.                                           *)
FlightInv ==
    /\ \A n, m \in Arming : flow[n].by = "drive" /\ flow[m].by = "drive" => n = m
    /\ \A n \in Arming : flow[n].by = "drive" =>
          /\ since =< now
          /\ n # arming => runs = <<>> /\ attempts = {}
          /\ n = arming /\ trigger # "none" => Attempt(since, TRUE) \in attempts

(* Whether a reconnect at t keeps the limits.                              *)
Clear(t) ==
    /\ \A i \in DOMAIN runs : t - runs[i] >= Cooldown
    /\ Len(runs) >= MaxAttempts => t - runs[Len(runs) - MaxAttempts + 1] >= Window

(* Every run still within the window is among the attempts.                *)
LimitInv ==
    /\ \A i \in DOMAIN runs : runs[i] =< now
    /\ \A i \in DOMAIN runs : now - runs[i] < Window => \E a \in attempts : a.at = runs[i]
    /\ \A i, k \in DOMAIN runs :
          /\ i < k => runs[k] - runs[i] >= Cooldown
          /\ k = i + MaxAttempts => runs[k] - runs[i] >= Window
    /\ \A n \in Arming : flow[n] = [at |-> "checking", by |-> "drive"] /\ n = arming /\ trigger # "none" => Clear(since)

(* A held drive is not reconnected; one that failed is held or about to be. *)
HoldInv ==
    /\ held => ~inFlight
    /\ spoiled => held \/ (arming \in Arming /\ flow[arming] = [at |-> "failed", by |-> "drive"])

DriveInv == DriveTypeOK /\ ArmedInv /\ FlightInv /\ LimitInv /\ HoldInv

LEMMA LedgerStands ==
  ASSUME LedgerInv, UNCHANGED <<ledger, queue, standing, heard>>, target' \in BOOLEAN, bad' \subseteq Measured
  PROVE  LedgerInv'
  <1>1. queue' = queue \o <<>> /\ <<>> \in Seq(Fresh)
    BY ConcatEmptySeq DEF LedgerInv, LedgerTypeOK
  <1> QED BY <1>1, LedgerHears

LEMMA LedgerMakes ==
  ASSUME LedgerInv, NEW calls \in Seq(Fresh), makes(calls), bad' \subseteq Measured
  PROVE  LedgerInv'
  <1>1. queue' = queue \o calls /\ UNCHANGED <<ledger, standing, heard>> /\ target' \in BOOLEAN
    BY DEF makes, LedgerInv, LedgerTypeOK
  <1> QED BY <1>1, LedgerHears

LEMMA LedgerInitially == LedgerInit => LedgerInv
  <1> SUFFICES ASSUME LedgerInit PROVE LedgerInv
    OBVIOUS
  <1> USE DEF LedgerInit
  <1>1. LedgerTypeOK
    BY DEF LedgerTypeOK, Entry
  <1>2. QueueOK(queue) /\ ~Sends("raise") /\ ~Sends("round")
    BY DEF QueueOK, Sends
  <1>3. \A k \in Measured \union Reported : heard[k] = 0 /\ ledger[k] = "absent"
    BY DEF Key
  <1>4. AnnouncedOnce
    <2> SUFFICES ASSUME NEW k \in Measured \union Reported PROVE heard[k] =< 1
      BY DEF AnnouncedOnce
    <2>1. heard[k] = 0
      BY <1>3
    <2> QED BY <2>1
  <1>5. HeardInv /\ ConditionsStand
    BY <1>3, <1>4 DEF HeardInv, ConditionsStand
  <1> QED BY <1>1, <1>2, <1>5 DEF LedgerInv, RaiseInv, RoundInv

LEMMA CallStepKeeps ==
  ASSUME LedgerInv, NEW i, CallStep(i)
  PROVE  LedgerInv'
  <1>1. CASE raiseReads(i)
    BY <1>1, RaiseReadsKeeps
  <1>2. CASE cleared(i)
    BY <1>2, ClearedKeeps
  <1>3. ASSUME NEW A \in SUBSET Notice, roundReads(i, A) PROVE LedgerInv'
    BY <1>3, RoundReadsKeeps
  <1>4. ASSUME NEW taken \in BOOLEAN, raised(i, taken) PROVE LedgerInv'
    BY <1>4, RaisedKeeps
  <1>5. ASSUME NEW taken \in BOOLEAN, told(i, taken) PROVE LedgerInv'
    BY <1>5, ToldKeeps
  <1>6. ASSUME NEW taken \in BOOLEAN, NEW k \in Key, roundSends(i, k, taken) PROVE LedgerInv'
    BY <1>6, RoundSendsKeeps
  <1> QED BY <1>1, <1>2, <1>3, <1>4, <1>5, <1>6 DEF CallStep, Taken, NotTaken

(* What a reconnect raises, clears or tells is one of its conditions.      *)
LEMMA ReconnectCalls ==
  ASSUME NEW n \in Arming
  PROVE  /\ <<>> \in Seq(Fresh) /\ <<raise(n)>> \in Seq(Fresh) /\ <<clear(n)>> \in Seq(Fresh)
         /\ <<clear(n), clear(Drop)>> \in Seq(Fresh)
  <1>1. raise(n) \in Fresh /\ clear(n) \in Fresh /\ clear(Drop) \in Fresh
    BY FreshCalls, ReconnectAssumption
  <1> QED BY <1>1

LEMMA NewsCalls == \A k \in Notice : <<tell(k)>> \in Seq(Fresh)
  <1> SUFFICES ASSUME NEW k \in Notice PROVE <<tell(k)>> \in Seq(Fresh)
    OBVIOUS
  <1>1. tell(k) \in Fresh
    BY FreshCalls
  <1> QED BY <1>1

LEMMA LedgerStepKeeps ==
  ASSUME LedgerInv, DriveInv, NEW i, LedgerStep(i)
  PROVE  LedgerInv'
  <1>1. CASE CallStep(i)
    BY <1>1, CallStepKeeps
  <1>2. CASE roundPasses(i) \/ roundReconnects(i)
    <2>1. atWork(i, "round", TRUE) /\ roundWrites(i, <<>>)
      BY <1>2, Zenon DEF roundPasses, roundReconnects
    <2>2. <<>> \in Seq(Fresh)
      OBVIOUS
    <2> QED BY <2>1, <2>2, RoundWritesKeeps
  <1>3. CASE roundTells(i)
    <2>1. arming \in Arming
      BY <1>3 DEF roundTells, looksAt, DriveInv, ArmedInv
    <2>2. atWork(i, "round", TRUE) /\ roundWrites(i, <<raise(arming)>>) /\ <<raise(arming)>> \in Seq(Fresh)
      BY <1>3, <2>1, ReconnectCalls DEF roundTells
    <2> QED BY <2>2, RoundWritesKeeps
  <1> QED BY <1>1, <1>2, <1>3 DEF LedgerStep

LEMMA LedgerNext ==
  ASSUME LedgerInv, DriveInv, [ReconnectNext]_vars
  PROVE  LedgerInv'
  <1>0. target \in BOOLEAN /\ bad \subseteq Measured /\ Drop \in Measured
    BY ReconnectAssumption DEF LedgerInv, LedgerTypeOK
  <1>1. ASSUME NEW i, LedgerStep(i) PROVE LedgerInv'
    BY <1>1, LedgerStepKeeps
  <1>2. ASSUME NEW n \in Arming, FlowStep(n) PROVE LedgerInv'
    <2>1. CASE flowStarts(n) \/ \E worked \in BOOLEAN : jobEnds(n, worked)
      <3>1. UNCHANGED <<ledger, queue, standing, heard, target>> /\ bad' \subseteq bad
        BY <2>1 DEF flowStarts, jobEnds, remounted, ledgerVars
      <3> QED BY <1>0, <3>1, LedgerStands
    <2>2. CASE flowRefused(n)
      <3>1. (makes(<<>>) \/ makes(<<raise(n)>>)) /\ bad' = bad
        BY <2>2 DEF flowRefused
      <3> QED BY <1>0, <3>1, ReconnectCalls, LedgerMakes
    <2>3. CASE flowCompletes(n)
      <3>1. (makes(<<clear(n), clear(Drop)>>) \/ makes(<<clear(n)>>)) /\ bad' = bad
        BY <2>3 DEF flowCompletes
      <3> QED BY <1>0, <3>1, ReconnectCalls, LedgerMakes
    <2>4. CASE flowFails(n)
      <3>1. makes(<<raise(n)>>) /\ bad' = bad
        BY <2>4 DEF flowFails
      <3> QED BY <1>0, <3>1, ReconnectCalls, LedgerMakes
    <2> QED BY <1>2, <2>1, <2>2, <2>3, <2>4 DEF FlowStep
  <1>3. ASSUME NEW evidence \in BOOLEAN, healthRound(evidence) PROVE LedgerInv'
    <2> DEFINE call == [Call("round", "") EXCEPT !.found = IF evidence THEN bad ELSE {}, !.evidence = evidence]
    <2>1. (IF evidence THEN bad ELSE {}) \in SUBSET Measured
      BY <1>0
    <2>2. call \in Fresh
      BY <2>1, FreshCalls
    <2>3. queue' = Append(queue, call) /\ UNCHANGED <<ledger, target, bad, standing, heard>>
      BY <1>3 DEF healthRound, check
    <2> HIDE DEF call
    <2>4. <<call>> \in Seq(Fresh) /\ queue' = queue \o <<call>>
      <3>1. queue \in Seq(Calls) /\ call \in Calls
        BY <2>2 DEF LedgerInv, LedgerTypeOK, Fresh
      <3> QED BY <2>2, <2>3, <3>1
    <2> QED BY <1>0, <2>3, <2>4, LedgerHears
  <1>4. CASE tellNews
    <2>1. makes(<<tell(News)>>) /\ bad' = bad /\ News \in Notice
      BY <1>4, ReconnectAssumption DEF tellNews
    <2> QED BY <1>0, <2>1, NewsCalls, LedgerMakes
  <1>5. CASE disarm
    <2>1. makes(<<clear(arming)>>) /\ bad' = bad /\ arming \in Arming
      BY <1>5 DEF disarm, DriveInv, ArmedInv
    <2> QED BY <1>0, <2>1, ReconnectCalls, LedgerMakes
  <1>6. CASE handRemounts
    <2>1. (makes(<<>>) \/ (arming \in Arming /\ makes(<<clear(arming)>>))) /\ bad' \subseteq bad
      BY <1>6 DEF handRemounts, remounted, DriveInv, ArmedInv
    <2>2. <<>> \in Seq(Fresh)
      OBVIOUS
    <2> QED BY <1>0, <2>1, <2>2, ReconnectCalls, LedgerMakes
  <1>7. ASSUME NEW k \in Notice, otherNews(k) PROVE LedgerInv'
    <2>1. makes(<<tell(k)>>) /\ bad' = bad
      BY <1>7 DEF otherNews
    <2> QED BY <1>0, <2>1, NewsCalls, LedgerMakes
  <1>8. CASE restart
    <2>1. restarts(<<>>) \/ (arming \in Arming /\ restarts(<<raise(arming)>>))
      BY <1>8 DEF restart, DriveInv, ArmedInv
    <2>2. <<>> \in Seq(Fresh)
      OBVIOUS
    <2> QED BY <2>1, <2>2, ReconnectCalls, RestartsKeeps
  <1>9. CASE driveDrops \/ changeTarget
    <2>1. UNCHANGED <<ledger, queue, standing, heard>> /\ target' \in BOOLEAN /\ bad' \subseteq Measured
      BY <1>0, <1>9 DEF driveDrops, changeTarget, setTarget
    <2> QED BY <2>1, LedgerStands
  <1>10. CASE \/ arm \/ setEnabled \/ launch \/ timePasses \/ UNCHANGED vars
              \/ (\E kind \in {"remount", "other"} : handStarts(kind)) \/ (\E errors \in BOOLEAN : handEnds(errors))
    <2>1. UNCHANGED ledgerVars
      BY <1>10 DEF arm, setEnabled, launch, timePasses, handStarts, handEnds, vars
    <2> QED BY <1>0, <2>1, LedgerStands DEF ledgerVars
  <1> QED BY <1>1, <1>2, <1>3, <1>4, <1>5, <1>6, <1>7, <1>8, <1>9, <1>10 DEF ReconnectNext

LEMMA DriveInitially == ReconnectInit => DriveInv
  <1> SUFFICES ASSUME ReconnectInit PROVE DriveInv
    OBVIOUS
  <1> USE DEF ReconnectInit
  <1>1. \A n \in Arming : flow[n] = NoRun
    OBVIOUS
  <1>2. flow \in [Arming -> RunStates]
    BY DEF RunStates, NoRun
  <1>3. DriveTypeOK
    <2>1. 0 \in 0..MaxArmings
      BY ReconnectAssumption
    <2>2. attempts \subseteq Attempts /\ IsFiniteSet(attempts)
      BY FS_EmptySet
    <2>3. held \in BOOLEAN /\ telling \in BOOLEAN /\ unclean \in BOOLEAN /\ spoiled \in BOOLEAN
      OBVIOUS
    <2>4. runs \in Seq(Nat)
      OBVIOUS
    <2> QED BY <1>2, <2>1, <2>2, <2>3, <2>4 DEF DriveTypeOK
  <1>4. ArmedInv /\ FlightInv
    BY <1>1 DEF ArmedInv, FlightInv, NoRun
  <1>5. LimitInv
    BY <1>1 DEF LimitInv, NoRun
  <1>6. HoldInv
    BY DEF HoldInv
  <1> QED BY <1>3, <1>4, <1>5, <1>6 DEF DriveInv

(* Nothing happens to the drive's automatic reconnects.                    *)
LEMMA DriveStands ==
  ASSUME DriveInv, UNCHANGED <<now, trigger, arming, attempts, held, flow, since, runs, spoiled>>,
         telling' \in BOOLEAN, hand' \in {"none", "remount", "other"}, unclean' \in BOOLEAN,
         restarted' \in Nat, drops' \in Nat, changes' \in Nat
  PROVE  DriveInv'
  <1>1. DriveTypeOK'
    BY DEF DriveInv, DriveTypeOK
  <1>2. ArmedInv' /\ FlightInv'
    BY DEF DriveInv, ArmedInv, FlightInv, Attempt
  <1>3. LimitInv'
    BY DEF DriveInv, LimitInv, Clear
  <1>4. HoldInv'
    BY DEF DriveInv, HoldInv, inFlight
  <1> QED BY <1>1, <1>2, <1>3, <1>4 DEF DriveInv

(* The attempts of a record that are within the window.                    *)
LEMMA Recent ==
  ASSUME NEW record \in SUBSET Attempts, IsFiniteSet(record)
  PROVE  /\ attemptsIn(record) \subseteq record /\ IsFiniteSet(attemptsIn(record))
         /\ \A a \in record : now - a.at < Window => a \in attemptsIn(record)
  <1>1. attemptsIn(record) \subseteq record
    BY DEF attemptsIn
  <1>2. IsFiniteSet(attemptsIn(record))
    BY <1>1, FS_Subset
  <1> QED BY <1>1, <1>2 DEF attemptsIn

LEMMA FiniteImage ==
  ASSUME NEW f, IsFiniteSet(DOMAIN f)
  PROVE  IsFiniteSet({f[x] : x \in DOMAIN f})
  <1> DEFINE g == [x \in DOMAIN f |-> f[x]]
             T == {f[x] : x \in DOMAIN f}
  <1>1. g \in Surjection(DOMAIN f, T)
    BY DEF Surjection
  <1> QED BY <1>1, FS_Surjection

(* An attempt settled is still an attempt at its time.                     *)
LEMMA SettledAttempts ==
  ASSUME DriveTypeOK, settled
  PROVE  /\ attempts' \subseteq Attempts /\ IsFiniteSet(attempts')
         /\ \A a \in attempts : now - a.at < Window => \E b \in attempts' : b.at = a.at
         /\ attempts = {} => attempts' = {}
  <1> DEFINE after(a) == IF a.at = since THEN Attempt(a.at, FALSE) ELSE a
             S == {after(a) : a \in attempts}
  <1>1. \A a \in attempts : after(a) \in Attempts /\ after(a).at = a.at
    BY DEF DriveTypeOK, Attempt, Attempts
  <1>2. S \subseteq Attempts
    BY <1>1
  <1>3. IsFiniteSet(S)
    <2> DEFINE f == [a \in attempts |-> after(a)]
    <2>1. DOMAIN f = attempts /\ S = {f[a] : a \in DOMAIN f}
      OBVIOUS
    <2> HIDE DEF f, S, after
    <2> QED BY <2>1, FiniteImage DEF DriveTypeOK
  <1>4. attempts' = attemptsIn(S)
    BY DEF settled
  <1>5. \A a \in attempts : after(a) \in S
    OBVIOUS
  <1>6. attempts = {} => S = {}
    OBVIOUS
  <1> HIDE DEF S, after
  <1>7. /\ attemptsIn(S) \subseteq S /\ IsFiniteSet(attemptsIn(S))
        /\ \A b \in S : now - b.at < Window => b \in attemptsIn(S)
    BY <1>2, <1>3, Recent
  <1>8. \A a \in attempts : now - a.at < Window => \E b \in attempts' : b.at = a.at
    <2> SUFFICES ASSUME NEW a \in attempts, now - a.at < Window PROVE after(a) \in attempts' /\ after(a).at = a.at
      OBVIOUS
    <2> QED BY <1>1, <1>4, <1>5, <1>7
  <1> QED BY <1>2, <1>4, <1>6, <1>7, <1>8

(* A run that ends: an automatic reconnect lets go of the drive.           *)
LEMMA RunEnds ==
  ASSUME DriveInv, NEW n \in Arming, flow' = [flow EXCEPT ![n] = NoRun],
         UNCHANGED <<now, trigger, arming, runs, spoiled, hand, unclean, boundVars>>, telling' \in BOOLEAN,
         since' \in Nat, attempts' \subseteq Attempts, IsFiniteSet(attempts'), held' \in BOOLEAN,
         flow[n].by # "drive" => UNCHANGED <<since, attempts, held>>,
         attempts = {} => attempts' = {},
         \A i \in DOMAIN runs : now - runs[i] < Window => \E a \in attempts' : a.at = runs[i],
         held \/ flow[n] = [at |-> "failed", by |-> "drive"] => held'
  PROVE  DriveInv'
  <1> USE DEF DriveInv
  <1>1. flow' \in [Arming -> RunStates] /\ flow'[n] = NoRun /\ \A m \in Arming \ {n} : flow'[m] = flow[m]
    BY DEF DriveTypeOK, RunStates, NoRun
  <1>2. DriveTypeOK'
    BY <1>1 DEF DriveTypeOK, boundVars
  <1>3. NoRun.at = "idle" /\ NoRun.by = "none"
    BY DEF NoRun
  <1>4. ArmedInv'
    BY <1>1, <1>3 DEF ArmedInv
  <1>5. \A m \in Arming : flow'[m].by = "drive" => m # n /\ flow'[m] = flow[m] /\ flow[n].by # "drive"
    BY <1>1, <1>3 DEF FlightInv
  <1>6. FlightInv'
    <2>1. \A m \in Arming : flow'[m].by = "drive" => UNCHANGED <<since, attempts, held>>
      BY <1>5
    <2> QED BY <1>5, <2>1 DEF FlightInv, Attempt
  <1>7. LimitInv'
    <2>1. \A m \in Arming : flow'[m] = [at |-> "checking", by |-> "drive"] => flow[m] = flow'[m] /\ since' = since
      BY <1>5
    <2> QED BY <2>1 DEF LimitInv, Clear
  <1>8. HoldInv'
    <2>1. held' => ~inFlight'
      BY <1>5 DEF HoldInv, inFlight
    <2>2. spoiled => held' \/ (arming \in Arming /\ flow'[arming] = [at |-> "failed", by |-> "drive"])
      BY <1>1 DEF HoldInv
    <2> QED BY <2>1, <2>2 DEF HoldInv
  <1> QED BY <1>2, <1>4, <1>6, <1>7, <1>8

(* A run that goes on is the same actor's.                                 *)
LEMMA RunGoesOn ==
  ASSUME DriveInv, NEW n \in Arming, flow[n].at # "idle",
         NEW s \in {"running", "completed", "failed"}, flow' = [flow EXCEPT ![n].at = s],
         UNCHANGED arming
  PROVE  /\ flow' \in [Arming -> RunStates] /\ flow'[n] = [at |-> s, by |-> flow[n].by]
         /\ \A m \in Arming : flow'[m].by = flow[m].by
         /\ \A m \in Arming \ {n} : flow'[m] = flow[m]
         /\ \A m \in Arming : /\ flow'[m].at = "idle" <=> flow'[m].by = "none"
                              /\ m > arming' => flow'[m] = NoRun
         /\ inFlight' <=> inFlight
  <1>1. flow \in [Arming -> RunStates]
    BY DEF DriveInv, DriveTypeOK
  <1>2. flow[n] \in RunStates /\ flow'[n] = [flow[n] EXCEPT !.at = s]
    BY <1>1
  <1>3. flow'[n] = [at |-> s, by |-> flow[n].by] /\ flow'[n] \in RunStates
    BY <1>2 DEF RunStates
  <1>4. flow' \in [Arming -> RunStates] /\ \A m \in Arming \ {n} : flow'[m] = flow[m]
    BY <1>1, <1>3
  <1>5. \A m \in Arming : flow'[m].by = flow[m].by
    BY <1>3, <1>4
  <1>6. \A m \in Arming : /\ flow'[m].at = "idle" <=> flow'[m].by = "none"
                          /\ m > arming => flow'[m] = NoRun
    <2> SUFFICES ASSUME NEW m \in Arming
                 PROVE  /\ flow'[m].at = "idle" <=> flow'[m].by = "none"
                        /\ m > arming => flow'[m] = NoRun
      OBVIOUS
    <2>1. CASE m = n
      BY <2>1, <1>3 DEF DriveInv, ArmedInv, NoRun
    <2>2. CASE m # n
      BY <2>2, <1>4 DEF DriveInv, ArmedInv
    <2> QED BY <2>1, <2>2
  <1>7. inFlight' <=> inFlight
    BY <1>5 DEF inFlight
  <1> QED BY <1>3, <1>4, <1>5, <1>6, <1>7

LEMMA FlightStands ==
  ASSUME FlightInv, UNCHANGED <<now, trigger, arming, attempts, since>>,
         \A m \in Arming : flow'[m].by = flow[m].by,
         \A m \in Arming : flow'[m].by = "drive" /\ m # arming => runs' = runs
  PROVE  FlightInv'
  <1>1. \A n, m \in Arming : flow'[n].by = "drive" /\ flow'[m].by = "drive" => n = m
    BY DEF FlightInv
  <1>2. ASSUME NEW n \in Arming, flow'[n].by = "drive"
        PROVE  /\ since' =< now'
               /\ n # arming' => runs' = <<>> /\ attempts' = {}
               /\ n = arming' /\ trigger' # "none" => Attempt(since, TRUE)' \in attempts'
    BY <1>2 DEF FlightInv, Attempt
  <1> QED BY <1>1, <1>2 DEF FlightInv

LEMMA JobEndsKeeps ==
  ASSUME DriveInv, NEW n \in Arming, NEW worked \in BOOLEAN, jobEnds(n, worked)
  PROVE  DriveInv'
  <1> USE DEF DriveInv
  <1> DEFINE s == IF worked THEN "completed" ELSE "failed"
  <1>1. /\ flow[n].at = "running" /\ flow' = [flow EXCEPT ![n].at = s]
        /\ UNCHANGED <<now, trigger, arming, attempts, since, telling, hand, unclean, boundVars, runs>>
    BY DEF jobEnds
  <1>2. \/ worked /\ held' = FALSE /\ spoiled' = FALSE
        \/ /\ ~worked /\ held' = held
           /\ spoiled' = (spoiled \/ (flow[n].by = "drive" /\ n = arming /\ trigger # "none"))
    BY DEF jobEnds, remounted
  <1>3. s \in {"running", "completed", "failed"} /\ s # "checking"
    OBVIOUS
  <1>4. ~worked => s = "failed"
    OBVIOUS
  <1> HIDE DEF s
  <1>5. /\ flow' \in [Arming -> RunStates] /\ flow'[n] = [at |-> s, by |-> flow[n].by]
        /\ \A m \in Arming : flow'[m].by = flow[m].by
        /\ \A m \in Arming \ {n} : flow'[m] = flow[m]
        /\ \A m \in Arming : /\ flow'[m].at = "idle" <=> flow'[m].by = "none"
                             /\ m > arming' => flow'[m] = NoRun
        /\ inFlight' <=> inFlight
    BY <1>1, <1>3, RunGoesOn
  <1>6. held' \in BOOLEAN /\ spoiled' \in BOOLEAN
    BY <1>2 DEF DriveTypeOK
  <1>7. DriveTypeOK'
    BY <1>1, <1>5, <1>6 DEF DriveTypeOK, boundVars
  <1>8. ArmedInv'
    <2>1. trigger = "none" => ~spoiled'
      BY <1>2 DEF ArmedInv
    <2> QED BY <1>1, <1>5, <2>1 DEF ArmedInv
  <1>9. FlightInv'
    <2>1. \A m \in Arming : flow'[m].by = flow[m].by
      BY <1>5
    <2>2. UNCHANGED <<now, trigger, arming, runs, attempts, since>>
      BY <1>1
    <2> QED BY <2>1, <2>2, FlightStands
  <1>10. LimitInv'
    <2>1. \A m \in Arming : flow'[m] = [at |-> "checking", by |-> "drive"] => flow[m] = flow'[m]
      BY <1>3, <1>5
    <2> QED BY <1>1, <2>1 DEF LimitInv, Clear
  <1>11. HoldInv'
    <2>1. held' => ~inFlight'
      BY <1>2, <1>5 DEF HoldInv
    <2>2. spoiled' => held' \/ (arming' \in Arming /\ flow'[arming'] = [at |-> "failed", by |-> "drive"])
      <3>1. CASE spoiled /\ ~worked
        <4>1. CASE held
          BY <1>2, <3>1, <4>1
        <4>2. CASE arming \in Arming /\ flow[arming] = [at |-> "failed", by |-> "drive"]
          <5>1. arming # n
            BY <4>2, <1>1
          <5> QED BY <4>2, <5>1, <1>1, <1>5
        <4> QED BY <3>1, <4>1, <4>2 DEF HoldInv
      <3>2. CASE flow[n].by = "drive" /\ n = arming /\ ~worked
        BY <3>2, <1>1, <1>4, <1>5
      <3> QED BY <1>2, <3>1, <3>2
    <2> QED BY <2>1, <2>2 DEF HoldInv
  <1> QED BY <1>7, <1>8, <1>9, <1>10, <1>11

LEMMA FlowStartsKeeps ==
  ASSUME DriveInv, NEW n \in Arming, flowStarts(n)
  PROVE  DriveInv'
  <1> USE DEF DriveInv
  <1>1. /\ flow[n].at = "checking" /\ flow' = [flow EXCEPT ![n].at = "running"]
        /\ UNCHANGED <<now, trigger, arming, attempts, held, since, telling, hand, unclean, boundVars, spoiled>>
    BY DEF flowStarts
  <1>2. /\ flow' \in [Arming -> RunStates] /\ flow'[n] = [at |-> "running", by |-> flow[n].by]
        /\ \A m \in Arming : flow'[m].by = flow[m].by
        /\ \A m \in Arming \ {n} : flow'[m] = flow[m]
        /\ \A m \in Arming : /\ flow'[m].at = "idle" <=> flow'[m].by = "none"
                             /\ m > arming' => flow'[m] = NoRun
        /\ inFlight' <=> inFlight
    BY <1>1, RunGoesOn
  <1> DEFINE mine == flow[n].by = "drive" /\ n = arming /\ trigger # "none"
  <1>3. runs' = IF mine THEN Append(runs, since) ELSE runs
    BY DEF flowStarts
  <1>4. mine => since =< now /\ Attempt(since, TRUE) \in attempts /\ Clear(since)
    <2>1. flow[n].by = "drive" => flow[n] = [at |-> "checking", by |-> "drive"]
      BY <1>1 DEF DriveTypeOK, RunStates
    <2> QED BY <2>1 DEF FlightInv, LimitInv
  <1>5. /\ now \in Nat /\ since \in Nat /\ runs \in Seq(Nat) /\ attempts \subseteq Attempts
        /\ Cooldown \in Nat \ {0} /\ Window \in Nat \ {0} /\ MaxAttempts \in Nat \ {0}
    BY ReconnectAssumption DEF DriveTypeOK
  <1>6. /\ runs' \in Seq(Nat)
        /\ mine => /\ Len(runs') = Len(runs) + 1 /\ runs'[Len(runs) + 1] = since
                   /\ \A i \in DOMAIN runs : runs'[i] = runs[i]
    BY <1>3, <1>5
  <1>7. ~mine => runs' = runs
    BY <1>3
  <1>8. mine => flow[n].by = "drive" /\ n = arming /\ trigger # "none"
    OBVIOUS
  <1> HIDE DEF mine
  <1>9. DriveTypeOK'
    BY <1>1, <1>2, <1>6 DEF DriveTypeOK, boundVars
  <1>10. ArmedInv'
    BY <1>1, <1>2, <1>7, <1>8 DEF ArmedInv
  <1>11. FlightInv'
    <2>1. \A m \in Arming : flow'[m].by = "drive" /\ m # arming => runs' = runs
      BY <1>2, <1>7, <1>8 DEF FlightInv
    <2>2. \A m \in Arming : flow'[m].by = flow[m].by
      BY <1>2
    <2>3. UNCHANGED <<now, trigger, arming, attempts, since>>
      BY <1>1
    <2> QED BY <2>1, <2>2, <2>3, FlightStands
  <1>12. LimitInv'
    <2>1. \A m \in Arming : flow'[m] = [at |-> "checking", by |-> "drive"] => flow[m] = flow'[m] /\ ~mine
      <3> SUFFICES ASSUME NEW m \in Arming, flow'[m] = [at |-> "checking", by |-> "drive"]
                   PROVE  flow[m] = flow'[m] /\ ~mine
        OBVIOUS
      <3>1. m # n /\ flow[m] = flow'[m] /\ flow[m].by = "drive"
        BY <1>2
      <3> QED BY <3>1, <1>8 DEF FlightInv
    <2>2. CASE ~mine
      BY <2>1, <2>2, <1>1, <1>7 DEF LimitInv, Clear
    <2>3. CASE mine
      <3> DEFINE L == Len(runs)
      <3>1. L \in Nat /\ DOMAIN runs = 1..L /\ DOMAIN runs' = 1..(L + 1)
        BY <2>3, <1>5, <1>6
      <3>2. runs'[L + 1] = since /\ \A i \in 1..L : runs'[i] = runs[i] /\ runs[i] \in Nat
        BY <2>3, <1>5, <1>6, <3>1
      <3>3. /\ \A i \in 1..L : since - runs[i] >= Cooldown
            /\ L >= MaxAttempts => since - runs[L - MaxAttempts + 1] >= Window
        BY <2>3, <1>4, <3>1 DEF Clear
      <3> HIDE DEF L
      <3>4. \A i \in 1..L :
              /\ runs[i] =< now
              /\ now - runs[i] < Window => \E a \in attempts : a.at = runs[i]
        BY <3>1 DEF LimitInv
      <3>5. \A i, k \in 1..L : /\ i < k => runs[k] - runs[i] >= Cooldown
                               /\ k = i + MaxAttempts => runs[k] - runs[i] >= Window
        BY <3>1 DEF LimitInv
      <3>6. \A i \in 1..(L + 1) : i \in 1..L \/ i = L + 1
        BY <3>1
      <3>7. \A i \in DOMAIN runs' : runs'[i] =< now'
        BY <3>1, <3>2, <3>4, <3>6, <2>3, <1>1, <1>4
      <3>8. \A i \in DOMAIN runs' : now' - runs'[i] < Window => \E a \in attempts' : a.at = runs'[i]
        <4>1. \E a \in attempts : a.at = since
          BY <2>3, <1>4 DEF Attempt
        <4> QED BY <3>1, <3>2, <3>4, <3>6, <1>1, <4>1
      <3>9. \A i, k \in DOMAIN runs' : /\ i < k => runs'[k] - runs'[i] >= Cooldown
                                       /\ k = i + MaxAttempts => runs'[k] - runs'[i] >= Window
        <4> SUFFICES ASSUME NEW i \in 1..(L + 1), NEW k \in 1..(L + 1)
                     PROVE  /\ i < k => runs'[k] - runs'[i] >= Cooldown
                            /\ k = i + MaxAttempts => runs'[k] - runs'[i] >= Window
          BY <3>1
        <4>1. CASE k \in 1..L
          <5>1. i < k \/ k = i + MaxAttempts => i \in 1..L
            BY <4>1, <3>1, <1>5
          <5> QED BY <4>1, <5>1, <3>2, <3>5
        <4>2. CASE k = L + 1
          <5>1. i < k => i \in 1..L
            BY <4>2, <3>1
          <5>2. k = i + MaxAttempts => i \in 1..L /\ i = L - MaxAttempts + 1 /\ L >= MaxAttempts
            BY <4>2, <3>1, <1>5
          <5> QED BY <4>2, <5>1, <5>2, <3>2, <3>3
        <4> QED BY <4>1, <4>2, <3>6
      <3> QED BY <3>7, <3>8, <3>9, <2>1, <2>3 DEF LimitInv
    <2> QED BY <2>2, <2>3
  <1>13. HoldInv'
    <2>1. arming \in Arming /\ flow[arming] = [at |-> "failed", by |-> "drive"] => flow'[arming] = flow[arming]
      BY <1>1, <1>2
    <2> QED BY <1>1, <1>2, <2>1 DEF HoldInv
  <1> QED BY <1>9, <1>10, <1>11, <1>12, <1>13

LEMMA FlowRefusedKeeps ==
  ASSUME DriveInv, NEW n \in Arming, flowRefused(n)
  PROVE  DriveInv'
  <1> USE DEF DriveInv
  <1> DEFINE rest == {a \in attempts : a.at # since}
  <1>1. /\ flow[n].at = "checking" /\ flow' = [flow EXCEPT ![n] = NoRun]
        /\ since' = (IF flow[n].by = "drive" THEN 0 ELSE since)
        /\ attempts' = IF flow[n].by = "drive" THEN attemptsIn(rest) ELSE attempts
        /\ UNCHANGED <<now, trigger, arming, held, telling, hand, unclean, boundVars, historyVars>>
    BY DEF flowRefused, over
  <1>2. rest \in SUBSET Attempts /\ IsFiniteSet(rest) /\ \A a \in attempts : a.at # since => a \in rest
    BY FS_Subset DEF DriveTypeOK
  <1>3. attempts = {} => rest = {}
    OBVIOUS
  <1> HIDE DEF rest
  <1>4. /\ attemptsIn(rest) \subseteq rest /\ IsFiniteSet(attemptsIn(rest))
        /\ \A a \in rest : now - a.at < Window => a \in attemptsIn(rest)
    BY <1>2, Recent
  <1>5. attempts' \subseteq Attempts /\ IsFiniteSet(attempts') /\ (attempts = {} => attempts' = {})
    BY <1>1, <1>2, <1>3, <1>4 DEF DriveTypeOK
  <1>6. \A i \in DOMAIN runs : now - runs[i] < Window => \E a \in attempts' : a.at = runs[i]
    <2> SUFFICES ASSUME NEW i \in DOMAIN runs, now - runs[i] < Window PROVE \E a \in attempts' : a.at = runs[i]
      OBVIOUS
    <2>1. PICK a \in attempts : a.at = runs[i]
      BY DEF LimitInv
    <2>2. CASE flow[n].by = "drive"
      <3>1. flow[n] = [at |-> "checking", by |-> "drive"]
        BY <1>1, <2>2 DEF DriveTypeOK, RunStates
      <3>2. n = arming /\ trigger # "none"
        BY <2>2 DEF FlightInv, ArmedInv
      <3>3. since - runs[i] >= Cooldown
        BY <3>1, <3>2 DEF LimitInv, Clear
      <3>4. runs[i] \in Nat /\ since \in Nat /\ Cooldown \in Nat \ {0}
        BY ReconnectAssumption DEF DriveTypeOK
      <3>5. a.at # since
        BY <2>1, <3>3, <3>4
      <3> QED BY <1>1, <1>2, <1>4, <2>1, <2>2, <3>5
    <2>3. CASE flow[n].by # "drive"
      BY <1>1, <2>1, <2>3
    <2> QED BY <2>2, <2>3
  <1>7. since' \in Nat /\ held' = held /\ held' \in BOOLEAN /\ telling' \in BOOLEAN
    BY <1>1 DEF DriveTypeOK
  <1>8. flow[n].by # "drive" => UNCHANGED <<since, attempts, held>>
    BY <1>1
  <1>9. held \/ flow[n] = [at |-> "failed", by |-> "drive"] => held'
    BY <1>1
  <1>10. UNCHANGED <<now, trigger, arming, runs, spoiled, hand, unclean, boundVars>>
    BY <1>1 DEF historyVars
  <1> QED BY <1>1, <1>5, <1>6, <1>7, <1>8, <1>9, <1>10, RunEnds

LEMMA FlowEndsKeeps ==
  ASSUME DriveInv, NEW n \in Arming, flowCompletes(n) \/ flowFails(n)
  PROVE  DriveInv'
  <1> USE DEF DriveInv
  <1>1. /\ flow' = [flow EXCEPT ![n] = NoRun]
        /\ since' = (IF flow[n].by = "drive" THEN 0 ELSE since)
        /\ UNCHANGED <<now, trigger, arming, hand, unclean, boundVars, historyVars>>
    BY DEF flowCompletes, flowFails, over
  <1>2. IF flow[n].by = "drive" THEN settled ELSE attempts' = attempts
    BY DEF flowCompletes, flowFails
  <1>3. telling' \in BOOLEAN /\ held' \in BOOLEAN /\ (flow[n].by # "drive" => held' = held) /\ (held => held')
    BY DEF flowCompletes, flowFails, DriveTypeOK
  <1>4. flow[n] = [at |-> "failed", by |-> "drive"] => held'
    BY DEF flowCompletes, flowFails
  <1>5. since' \in Nat /\ (flow[n].by # "drive" => since' = since)
    BY <1>1 DEF DriveTypeOK
  <1>6. /\ attempts' \subseteq Attempts /\ IsFiniteSet(attempts') /\ (attempts = {} => attempts' = {})
        /\ \A a \in attempts : now - a.at < Window => \E b \in attempts' : b.at = a.at
    <2>1. CASE flow[n].by = "drive"
      BY <1>2, <2>1, SettledAttempts
    <2>2. CASE flow[n].by # "drive"
      BY <1>2, <2>2 DEF DriveTypeOK
    <2> QED BY <2>1, <2>2
  <1>7. \A i \in DOMAIN runs : now - runs[i] < Window => \E a \in attempts' : a.at = runs[i]
    <2> SUFFICES ASSUME NEW i \in DOMAIN runs, now - runs[i] < Window PROVE \E a \in attempts' : a.at = runs[i]
      OBVIOUS
    <2>1. PICK a \in attempts : a.at = runs[i]
      BY DEF LimitInv
    <2> QED BY <1>6, <2>1
  <1> QED BY <1>1, <1>2, <1>3, <1>4, <1>5, <1>6, <1>7, RunEnds DEF historyVars

(* With no refusal, a reconnect that begins now keeps the limits: were     *)
(* there MaxAttempts runs within the window, as many attempts would be.    *)
LEMMA ClearNow ==
  ASSUME DriveInv, reconnectRefusal = "none"
  PROVE  ~held /\ Clear(now)
  <1> DEFINE recent == attemptsIn(attempts)
             L == Len(runs)
  <1>1. /\ now \in Nat /\ attempts \subseteq Attempts /\ IsFiniteSet(attempts) /\ runs \in Seq(Nat)
        /\ Cooldown \in Nat \ {0} /\ Window \in Nat \ {0} /\ MaxAttempts \in Nat \ {0} /\ Cooldown =< Window
    BY ReconnectAssumption DEF DriveInv, DriveTypeOK
  <1>2. ~held /\ ~(Cardinality(recent) >= MaxAttempts) /\ ~\E a \in recent : now - a.at < Cooldown
    BY DEF reconnectRefusal
  <1>3. /\ recent \subseteq Attempts /\ IsFiniteSet(recent)
        /\ \A a \in attempts : now - a.at < Window => a \in recent
    BY <1>1, Recent
  <1>4. L \in Nat /\ DOMAIN runs = 1..L /\ \A i \in 1..L : runs[i] \in Nat
    BY <1>1
  <1> HIDE DEF recent, L
  <1>5. \A i \in 1..L : now - runs[i] < Window => \E a \in recent : a.at = runs[i]
    BY <1>3, <1>4 DEF DriveInv, LimitInv
  <1>6. \A i \in 1..L : now - runs[i] >= Cooldown
    BY <1>1, <1>2, <1>3, <1>4, <1>5 DEF Attempts
  <1>7. ASSUME L >= MaxAttempts, ~(now - runs[L - MaxAttempts + 1] >= Window) PROVE FALSE
    <2> DEFINE first == L - MaxAttempts + 1
               at(i) == CHOOSE a \in recent : a.at = runs[i]
               f == [i \in first..L |-> at(i)]
    <2>1. first \in 1..L /\ L - first + 1 = MaxAttempts
      BY <1>1, <1>4, <1>7
    <2>2. now - runs[first] < Window
      BY <1>1, <1>4, <1>7, <2>1
    <2> HIDE DEF first
    <2>3. \A i, k \in 1..L : i < k => runs[i] < runs[k]
      <3>1. \A i, k \in 1..L : i < k => runs[k] - runs[i] >= Cooldown
        BY <1>4 DEF DriveInv, LimitInv
      <3> QED BY <1>1, <1>4, <3>1
    <2>4. \A i \in first..L : i \in 1..L /\ now - runs[i] < Window
      <3> SUFFICES ASSUME NEW i \in first..L PROVE i \in 1..L /\ now - runs[i] < Window
        OBVIOUS
      <3>1. i \in 1..L /\ (i = first \/ first < i)
        BY <1>4, <2>1
      <3> QED BY <1>1, <1>4, <2>1, <2>2, <2>3, <3>1
    <2>5. \A i \in first..L : at(i) \in recent /\ at(i).at = runs[i]
      BY <1>5, <2>4
    <2> HIDE DEF at
    <2>6. \A i, k \in first..L : at(i) = at(k) => i = k
      <3> SUFFICES ASSUME NEW i \in first..L, NEW k \in first..L, at(i) = at(k) PROVE i = k
        OBVIOUS
      <3>1. runs[i] = runs[k] /\ i \in 1..L /\ k \in 1..L
        BY <2>4, <2>5
      <3>2. ~(i < k) /\ ~(k < i)
        BY <1>4, <2>3, <3>1
      <3> QED BY <1>4, <3>1, <3>2
    <2>7. f \in Injection(first..L, recent)
      <3>1. f \in [first..L -> recent]
        BY <2>5
      <3>2. \A i, k \in first..L : f[i] = f[k] => i = k
        BY <2>6
      <3> HIDE DEF f
      <3> QED BY <3>1, <3>2 DEF Injection, IsInjective
    <2>8. Cardinality(first..L) =< Cardinality(recent)
      BY <2>7, <1>3, FS_Injection
    <2>9. Cardinality(first..L) = MaxAttempts
      BY <2>1, <1>4, FS_Interval
    <2>10. Cardinality(recent) \in Nat
      BY <1>3, FS_CardinalityType
    <2> QED BY <1>1, <1>2, <2>8, <2>9, <2>10
  <1> QED BY <1>2, <1>4, <1>6, <1>7 DEF Clear, L

LEMMA RoundReconnectsKeeps ==
  ASSUME DriveInv, NEW i, roundReconnects(i)
  PROVE  DriveInv'
  <1> USE DEF DriveInv
  <1>1. /\ trigger = "on" /\ ~inFlight /\ reconnectRefusal = "none"
        /\ UNCHANGED <<now, trigger, arming, held, telling, hand, unclean, boundVars, runs, spoiled>>
    BY DEF roundReconnects, looksAt, historyVars
  <1>2. arming \in Arming /\ ~held /\ Clear(now)
    BY <1>1, ClearNow DEF ArmedInv
  <1>3. \A n \in Arming : flow[n].by # "drive"
    BY <1>1 DEF inFlight
  <1>4. /\ now \in Nat /\ attempts \in SUBSET Attempts /\ IsFiniteSet(attempts)
        /\ Window \in Nat \ {0} /\ flow \in [Arming -> RunStates]
    BY ReconnectAssumption DEF DriveTypeOK
  <1>5. CASE flow[arming].at # "idle"
    <2>1. attempts' = attemptsIn(attempts) /\ UNCHANGED <<flow, since>>
      BY <1>5 DEF roundReconnects
    <2>2. /\ attempts' \subseteq Attempts /\ IsFiniteSet(attempts')
          /\ \A a \in attempts : now - a.at < Window => a \in attempts'
      BY <2>1, <1>4, Recent
    <2>3. DriveTypeOK'
      BY <1>1, <2>1, <2>2 DEF DriveTypeOK, boundVars
    <2>4. ArmedInv'
      BY <1>1, <2>1 DEF ArmedInv
    <2>5. FlightInv'
      BY <1>3, <2>1 DEF FlightInv
    <2>6. LimitInv'
      <3>1. \A k \in DOMAIN runs : now - runs[k] < Window => \E a \in attempts' : a.at = runs[k]
        BY <2>2 DEF LimitInv
      <3>2. \A n \in Arming : flow'[n] # [at |-> "checking", by |-> "drive"]
        BY <1>3, <2>1
      <3> QED BY <1>1, <3>1, <3>2 DEF LimitInv
    <2>7. HoldInv'
      BY <1>1, <2>1 DEF HoldInv, inFlight
    <2> QED BY <2>3, <2>4, <2>5, <2>6, <2>7
  <1>6. CASE flow[arming].at = "idle"
    <2> DEFINE more == attempts \union {Attempt(now, TRUE)}
               begun == [at |-> "checking", by |-> "drive"]
    <2>1. attempts' = attemptsIn(more) /\ since' = now /\ flow' = [flow EXCEPT ![arming] = begun]
      BY <1>6 DEF roundReconnects, counted, startedRun
    <2>2. begun \in RunStates /\ begun.at = "checking" /\ begun.by = "drive"
      BY DEF RunStates
    <2>3. more \in SUBSET Attempts /\ IsFiniteSet(more)
      <3>1. IsFiniteSet(more)
        BY <1>4, FS_AddElement
      <3>2. Attempt(now, TRUE) \in Attempts
        BY <1>4 DEF Attempt, Attempts
      <3> QED BY <1>4, <3>1, <3>2
    <2>4. Attempt(now, TRUE) \in more /\ Attempt(now, TRUE).at = now /\ \A a \in attempts : a \in more
      BY DEF Attempt
    <2> HIDE DEF more, begun
    <2>5. /\ attempts' \subseteq Attempts /\ IsFiniteSet(attempts')
          /\ \A a \in more : now - a.at < Window => a \in attempts'
      BY <2>1, <2>3, Recent
    <2>6. flow' \in [Arming -> RunStates] /\ flow'[arming] = begun /\ \A n \in Arming \ {arming} : flow'[n] = flow[n]
      BY <1>2, <1>4, <2>1, <2>2
    <2>7. DriveTypeOK'
      BY <1>1, <1>4, <2>1, <2>5, <2>6 DEF DriveTypeOK, boundVars
    <2>8. ArmedInv'
      BY <1>1, <1>2, <2>2, <2>6 DEF ArmedInv, Arming
    <2>9. \A n \in Arming : flow'[n].by = "drive" => n = arming
      BY <1>3, <2>6
    <2>10. FlightInv'
      <3>1. Attempt(now, TRUE) \in attempts'
        <4>1. now - Attempt(now, TRUE).at < Window
          <5>1. now - now < Window
            BY <1>4
          <5> QED BY <5>1, <2>4
        <4> QED BY <2>4, <2>5, <4>1
      <3>2. Attempt(since, TRUE)' \in attempts'
        BY <3>1, <2>1 DEF Attempt
      <3>3. since' =< now'
        BY <1>1, <1>4, <2>1
      <3> QED BY <1>1, <2>9, <3>2, <3>3 DEF FlightInv
    <2>11. LimitInv'
      <3>1. \A k \in DOMAIN runs : now - runs[k] < Window => \E a \in attempts' : a.at = runs[k]
        BY <2>4, <2>5 DEF LimitInv
      <3>2. Clear(since)'
        BY <1>1, <1>2, <2>1 DEF Clear
      <3> QED BY <1>1, <3>1, <3>2 DEF LimitInv
    <2>12. HoldInv'
      <3>1. ~spoiled
        BY <1>2, <1>6 DEF HoldInv
      <3> QED BY <1>1, <1>2, <3>1 DEF HoldInv
    <2> QED BY <2>7, <2>8, <2>10, <2>11, <2>12
  <1> QED BY <1>5, <1>6

(* Armed afresh or disarmed, the drive's record is empty.                  *)
LEMMA CleanSlateKeeps ==
  ASSUME DriveInv, cleanSlate, arming' \in 0..MaxArmings, changes' \in Nat,
         UNCHANGED <<now, flow, since, telling, hand, unclean, restarted, drops>>,
         \/ arming' = arming /\ trigger' = "none"
         \/ arming' = arming + 1 /\ trigger' = "on"
  PROVE  DriveInv'
  <1> USE DEF DriveInv
  <1>1. attempts' = {} /\ held' = FALSE /\ runs' = <<>> /\ spoiled' = FALSE
    BY DEF cleanSlate
  <1>2. arming \in 0..MaxArmings /\ MaxArmings \in Nat
    BY ReconnectAssumption DEF DriveTypeOK
  <1>3. \A n \in Arming : n > arming' => n > arming
    BY <1>2 DEF Arming
  <1>4. DriveTypeOK'
    <2>1. held' \in BOOLEAN /\ spoiled' \in BOOLEAN
      BY <1>1
    <2>2. attempts' \subseteq Attempts /\ IsFiniteSet(attempts') /\ runs' \in Seq(Nat)
      BY <1>1, FS_EmptySet
    <2> QED BY <2>1, <2>2 DEF DriveTypeOK
  <1>5. ArmedInv'
    <2>1. trigger' # "none" => arming' \in Arming
      BY <1>2 DEF Arming
    <2> QED BY <1>1, <1>3, <2>1 DEF ArmedInv
  <1>6. \A n \in Arming : flow[n].by = "drive" => ~(n = arming' /\ trigger' # "none")
    <2> SUFFICES ASSUME NEW n \in Arming, flow[n].by = "drive", n = arming', trigger' # "none"
                 PROVE  FALSE
      OBVIOUS
    <2>1. ~(n > arming)
      BY DEF ArmedInv, NoRun
    <2> QED BY <2>1, <1>2
  <1>7. FlightInv'
    BY <1>1, <1>6 DEF FlightInv
  <1>8. LimitInv'
    <2>1. \A n \in Arming : flow[n] = [at |-> "checking", by |-> "drive"] => flow[n].by = "drive"
      OBVIOUS
    <2> QED BY <1>1, <1>6, <2>1 DEF LimitInv
  <1>9. HoldInv'
    BY <1>1 DEF HoldInv
  <1> QED BY <1>4, <1>5, <1>7, <1>8, <1>9

LEMMA LaunchKeeps ==
  ASSUME DriveInv, launch
  PROVE  DriveInv'
  <1> USE DEF DriveInv
  <1> DEFINE begun == [at |-> "checking", by |-> "hand"]
  <1>1. /\ trigger # "none" /\ flow[arming].at = "idle" /\ flow' = [flow EXCEPT ![arming] = begun]
        /\ UNCHANGED <<now, trigger, arming, attempts, held, since, telling, hand, unclean, restarted, drops, runs, spoiled>>
        /\ changes' = changes + 1
    BY DEF launch, startedRun, change, historyVars
  <1>2. arming \in Arming /\ flow \in [Arming -> RunStates]
    BY <1>1 DEF ArmedInv, DriveTypeOK
  <1>3. begun \in RunStates /\ begun.at = "checking" /\ begun.by = "hand"
    BY DEF RunStates
  <1> HIDE DEF begun
  <1>4. flow' \in [Arming -> RunStates] /\ flow'[arming] = begun /\ \A n \in Arming \ {arming} : flow'[n] = flow[n]
    BY <1>1, <1>2, <1>3
  <1>5. \A n \in Arming : flow'[n].by = "drive" => n # arming /\ flow[n].by = "drive" /\ flow'[n] = flow[n]
    BY <1>3, <1>4
  <1>6. DriveTypeOK'
    BY <1>1, <1>4 DEF DriveTypeOK
  <1>7. ArmedInv'
    BY <1>1, <1>2, <1>3, <1>4 DEF ArmedInv, Arming
  <1>8. FlightInv'
    BY <1>1, <1>5 DEF FlightInv
  <1>9. LimitInv'
    <2>1. \A n \in Arming : flow'[n] = [at |-> "checking", by |-> "drive"] => n # arming
      BY <1>5
    <2> QED BY <1>1, <2>1 DEF LimitInv
  <1>10. HoldInv'
    <2>1. inFlight' => inFlight
      BY <1>5 DEF inFlight
    <2>2. spoiled => held
      BY <1>1 DEF HoldInv
    <2> QED BY <1>1, <2>1, <2>2 DEF HoldInv
  <1> QED BY <1>6, <1>7, <1>8, <1>9, <1>10

(* Paused or resumed, lifted by a remount, later: its runs stand.          *)
LEMMA RunsStand ==
  ASSUME DriveInv, UNCHANGED <<arming, attempts, flow, since, telling, unclean, runs, restarted, drops>>,
         trigger' \in {"none", "on", "paused"}, trigger' = "none" <=> trigger = "none",
         now' \in Nat, now' >= now, changes' \in Nat, hand' \in {"none", "remount", "other"},
         \/ UNCHANGED <<held, spoiled>>
         \/ held' = FALSE /\ spoiled' = FALSE
  PROVE  DriveInv'
  <1> USE DEF DriveInv
  <1>1. DriveTypeOK'
    <2>1. held' \in BOOLEAN /\ spoiled' \in BOOLEAN
      BY DEF DriveTypeOK
    <2> QED BY <2>1 DEF DriveTypeOK
  <1>2. ArmedInv'
    BY DEF ArmedInv
  <1>3. now \in Nat /\ since \in Nat /\ runs \in Seq(Nat) /\ \A k \in DOMAIN runs : runs[k] \in Nat
    BY DEF DriveTypeOK
  <1>4. FlightInv'
    <2>1. since =< now => since =< now'
      BY <1>3
    <2> QED BY <2>1 DEF FlightInv, Attempt
  <1>5. LimitInv'
    <2>1. \A k \in DOMAIN runs : runs[k] =< now => runs[k] =< now'
      BY <1>3
    <2>2. \A k \in DOMAIN runs : now' - runs[k] < Window => now - runs[k] < Window
      BY <1>3, ReconnectAssumption
    <2> QED BY <2>1, <2>2 DEF LimitInv, Clear
  <1>6. HoldInv'
    BY DEF HoldInv, inFlight
  <1> QED BY <1>1, <1>2, <1>4, <1>5, <1>6

(* What a restart leaves of the attempts.                                  *)
LEMMA RecoveredAttempts ==
  ASSUME DriveTypeOK
  PROVE  /\ recovered(attempts) \subseteq Attempts /\ IsFiniteSet(recovered(attempts))
         /\ \A a \in attempts : now - a.at < Window => \E b \in recovered(attempts) : b.at = a.at
         /\ attempts = {} => recovered(attempts) = {}
  <1> DEFINE after(a) == Attempt(a.at, FALSE)
             S == {after(a) : a \in attempts}
  <1>1. \A a \in attempts : after(a) \in Attempts /\ after(a).at = a.at
    BY DEF DriveTypeOK, Attempt, Attempts
  <1>2. S \subseteq Attempts
    BY <1>1
  <1>3. IsFiniteSet(S)
    <2> DEFINE f == [a \in attempts |-> after(a)]
    <2>1. DOMAIN f = attempts /\ S = {f[a] : a \in DOMAIN f}
      OBVIOUS
    <2> HIDE DEF f, S, after
    <2> QED BY <2>1, FiniteImage DEF DriveTypeOK
  <1>4. recovered(attempts) = attemptsIn(S)
    BY DEF recovered
  <1>5. \A a \in attempts : after(a) \in S
    OBVIOUS
  <1>6. attempts = {} => S = {}
    OBVIOUS
  <1> HIDE DEF S, after
  <1>7. /\ attemptsIn(S) \subseteq S /\ IsFiniteSet(attemptsIn(S))
        /\ \A b \in S : now - b.at < Window => b \in attemptsIn(S)
    BY <1>2, <1>3, Recent
  <1>8. \A a \in attempts : now - a.at < Window => \E b \in recovered(attempts) : b.at = a.at
    <2> SUFFICES ASSUME NEW a \in attempts, now - a.at < Window
                 PROVE  after(a) \in recovered(attempts) /\ after(a).at = a.at
      OBVIOUS
    <2> QED BY <1>1, <1>4, <1>5, <1>7
  <1> QED BY <1>2, <1>4, <1>6, <1>7, <1>8

(* A run that a restart cuts off was counted, so the drive is held.        *)
LEMMA RestartKeeps ==
  ASSUME DriveInv, restart
  PROVE  DriveInv'
  <1> USE DEF DriveInv
  <1>1. /\ restarted' = restarted + 1 /\ UNCHANGED <<drops, changes>>
        /\ attempts' = (IF holds(attempts) THEN recovered(attempts) ELSE attempts)
        /\ held' = (held \/ holds(attempts))
        /\ flow' = [n \in Arming |-> NoRun]
        /\ spoiled' = (spoiled \/ (trigger # "none" /\ cutOff(arming)))
        /\ telling' = FALSE /\ hand' = "none" /\ since' = 0
        /\ UNCHANGED <<now, trigger, arming, unclean, runs>>
    BY DEF restart
  <1>2. NoRun \in RunStates /\ NoRun.at = "idle" /\ NoRun.by = "none"
    BY DEF NoRun, RunStates
  <1>3. flow' \in [Arming -> RunStates] /\ \A n \in Arming : flow'[n] = NoRun
    BY <1>1, <1>2
  <1>4. /\ attempts' \subseteq Attempts /\ IsFiniteSet(attempts') /\ (attempts = {} => attempts' = {})
        /\ \A a \in attempts : now - a.at < Window => \E b \in attempts' : b.at = a.at
    <2>1. CASE holds(attempts)
      BY <1>1, <2>1, RecoveredAttempts
    <2>2. CASE ~holds(attempts)
      BY <1>1, <2>2 DEF DriveTypeOK
    <2> QED BY <2>1, <2>2
  <1>5. held' \in BOOLEAN /\ spoiled' \in BOOLEAN /\ telling' \in BOOLEAN
    <2>1. held \in BOOLEAN /\ spoiled \in BOOLEAN
      BY DEF DriveTypeOK
    <2> QED BY <1>1, <2>1
  <1>6. DriveTypeOK'
    <2>1. restarted' \in Nat /\ hand' \in {"none", "remount", "other"} /\ since' \in Nat
      BY <1>1 DEF DriveTypeOK
    <2> QED BY <1>1, <1>3, <1>4, <1>5, <2>1 DEF DriveTypeOK
  <1>7. ArmedInv'
    <2>1. trigger = "none" => ~spoiled'
      BY <1>1 DEF ArmedInv
    <2> QED BY <1>1, <1>2, <1>3, <1>4, <2>1 DEF ArmedInv
  <1>8. \A n \in Arming : flow'[n].by # "drive" /\ flow'[n] # [at |-> "checking", by |-> "drive"]
    BY <1>2, <1>3
  <1>9. FlightInv'
    BY <1>8 DEF FlightInv
  <1>10. LimitInv'
    <2>1. \A i \in DOMAIN runs : now - runs[i] < Window => \E a \in attempts' : a.at = runs[i]
      <3> SUFFICES ASSUME NEW i \in DOMAIN runs, now - runs[i] < Window PROVE \E a \in attempts' : a.at = runs[i]
        OBVIOUS
      <3>1. PICK a \in attempts : a.at = runs[i]
        BY DEF LimitInv
      <3> QED BY <1>4, <3>1
    <2> QED BY <1>1, <1>8, <2>1 DEF LimitInv
  <1>11. HoldInv'
    <2>1. ~inFlight'
      BY <1>8 DEF inFlight
    <2>2. ASSUME trigger # "none", arming \in Arming, flow[arming].by = "drive" PROVE held'
      <3>1. Attempt(since, TRUE) \in attempts
        BY <2>2 DEF FlightInv
      <3>2. holds(attempts)
        BY <3>1 DEF holds, Attempt
      <3> QED BY <1>1, <3>2
    <2>3. spoiled => held'
      <3>1. CASE held
        BY <1>1, <3>1
      <3>2. CASE spoiled /\ arming \in Arming /\ flow[arming] = [at |-> "failed", by |-> "drive"]
        <4>1. trigger # "none" /\ flow[arming].by = "drive"
          BY <3>2 DEF ArmedInv
        <4> QED BY <3>2, <4>1, <2>2
      <3> QED BY <3>1, <3>2 DEF HoldInv
    <2>4. trigger # "none" /\ cutOff(arming) => held'
      BY <2>2 DEF cutOff, ArmedInv
    <2>5. spoiled' => held'
      BY <1>1, <2>3, <2>4
    <2> QED BY <2>1, <2>5 DEF HoldInv
  <1> QED BY <1>6, <1>7, <1>9, <1>10, <1>11

LEMMA DriveRests ==
  ASSUME DriveInv, UNCHANGED <<driveVars, boundVars, historyVars>>
  PROVE  DriveInv'
  <1>1. /\ UNCHANGED <<now, trigger, arming, attempts, held, flow, since, runs, spoiled>>
        /\ UNCHANGED <<telling, hand, unclean, restarted, drops, changes>>
    BY DEF driveVars, boundVars, historyVars
  <1>2. /\ telling \in BOOLEAN /\ hand \in {"none", "remount", "other"} /\ unclean \in BOOLEAN
        /\ restarted \in Nat /\ drops \in Nat /\ changes \in Nat
    BY DEF DriveInv, DriveTypeOK
  <1> QED BY <1>1, <1>2, DriveStands

LEMMA DriveNext ==
  ASSUME LedgerInv, DriveInv, [ReconnectNext]_vars
  PROVE  DriveInv'
  <1>1. ASSUME NEW i, LedgerStep(i) PROVE DriveInv'
    <2>1. CASE CallStep(i) /\ UNCHANGED <<driveVars, boundVars, historyVars>>
      BY <2>1, DriveRests
    <2>2. CASE roundPasses(i) \/ roundTells(i)
      <3>1. UNCHANGED <<driveVars, boundVars, historyVars>>
        BY <2>2, Zenon DEF roundPasses, roundTells
      <3> QED BY <3>1, DriveRests
    <2>3. CASE roundReconnects(i)
      BY <2>3, RoundReconnectsKeeps
    <2> QED BY <1>1, <2>1, <2>2, <2>3 DEF LedgerStep
  <1>2. ASSUME NEW n \in Arming, FlowStep(n) PROVE DriveInv'
    BY <1>2, FlowStartsKeeps, FlowRefusedKeeps, FlowEndsKeeps, JobEndsKeeps DEF FlowStep
  <1>3. CASE (\E evidence \in BOOLEAN : healthRound(evidence)) \/ UNCHANGED vars
    <2>1. UNCHANGED <<driveVars, boundVars, historyVars>>
      BY <1>3 DEF healthRound, vars
    <2> QED BY <2>1, DriveRests
  <1>4. now \in Nat /\ arming \in 0..MaxArmings /\ MaxArmings \in Nat /\ changes \in Nat /\ drops \in Nat
        /\ trigger \in {"none", "on", "paused"} /\ hand \in {"none", "remount", "other"}
        /\ telling \in BOOLEAN /\ unclean \in BOOLEAN /\ restarted \in Nat
    BY ReconnectAssumption DEF DriveInv, DriveTypeOK
  <1>5. CASE tellNews
    <2>1. /\ UNCHANGED <<now, trigger, arming, attempts, held, flow, since, runs, spoiled>>
          /\ telling' = FALSE /\ UNCHANGED <<hand, unclean, restarted, drops, changes>>
      BY <1>5 DEF tellNews, boundVars, historyVars
    <2> QED BY <1>4, <2>1, DriveStands
  <1>6. CASE arm
    <2>1. /\ arming' = arming + 1 /\ arming < MaxArmings /\ trigger' = "on" /\ cleanSlate
          /\ UNCHANGED <<now, flow, since, telling, hand, unclean, restarted, drops, changes>>
      BY <1>6 DEF arm, boundVars
    <2>2. arming' \in 0..MaxArmings
      BY <1>4, <2>1
    <2> QED BY <1>4, <2>1, <2>2, CleanSlateKeeps
  <1>7. CASE disarm
    <2>1. /\ trigger' = "none" /\ cleanSlate /\ changes' = changes + 1
          /\ UNCHANGED <<now, arming, flow, since, telling, hand, unclean, restarted, drops>>
      BY <1>7 DEF disarm, change
    <2> QED BY <1>4, <2>1, CleanSlateKeeps
  <1>8. CASE setEnabled \/ timePasses \/ handRemounts
    <2>1. UNCHANGED <<arming, attempts, flow, since, telling, unclean, runs, restarted, drops>>
      BY <1>8 DEF setEnabled, timePasses, handRemounts, change, boundVars, historyVars
    <2>2. trigger' \in {"none", "on", "paused"} /\ (trigger' = "none" <=> trigger = "none")
      BY <1>4, <1>8 DEF setEnabled, timePasses, handRemounts
    <2>3. /\ now' \in Nat /\ now' >= now /\ changes' \in Nat /\ hand' \in {"none", "remount", "other"}
      BY <1>4, <1>8 DEF setEnabled, timePasses, handRemounts, change, boundVars
    <2>4. UNCHANGED <<held, spoiled>> \/ (held' = FALSE /\ spoiled' = FALSE)
      BY <1>8 DEF setEnabled, timePasses, handRemounts, remounted, historyVars
    <2> QED BY <2>1, <2>2, <2>3, <2>4, RunsStand
  <1>9. CASE launch
    BY <1>9, LaunchKeeps
  <1>10. ASSUME NEW kind \in {"remount", "other"}, handStarts(kind) PROVE DriveInv'
    <2>1. /\ UNCHANGED <<now, trigger, arming, attempts, held, flow, since, runs, spoiled>>
          /\ hand' = kind /\ changes' = changes + 1 /\ UNCHANGED <<telling, unclean, restarted, drops>>
      BY <1>10 DEF handStarts, change, historyVars
    <2> QED BY <1>4, <2>1, DriveStands
  <1>11. ASSUME NEW errors \in BOOLEAN, handEnds(errors) PROVE DriveInv'
    <2>1. /\ UNCHANGED <<now, trigger, arming, attempts, held, flow, since, runs, spoiled>>
          /\ hand' = "none" /\ unclean' = errors /\ UNCHANGED <<telling, restarted, drops, changes>>
      BY <1>11 DEF handEnds, boundVars, historyVars
    <2> QED BY <1>4, <2>1, DriveStands
  <1>12. CASE driveDrops \/ changeTarget \/ \E k \in Notice \ {News} : otherNews(k)
    <2>1. /\ UNCHANGED <<now, trigger, arming, attempts, held, flow, since, runs, spoiled>>
          /\ UNCHANGED <<hand, telling, unclean, restarted>>
      BY <1>12 DEF driveDrops, changeTarget, otherNews, change, driveVars, historyVars
    <2>2. drops' \in Nat /\ changes' \in Nat
      <3>1. \/ drops' = drops + 1 /\ changes' = changes
            \/ changes' = changes + 1 /\ drops' = drops
        BY <1>12 DEF driveDrops, changeTarget, otherNews, change
      <3> QED BY <1>4, <3>1
    <2> QED BY <1>4, <2>1, <2>2, DriveStands
  <1>13. CASE restart
    BY <1>13, RestartKeeps
  <1> QED BY <1>1, <1>2, <1>3, <1>5, <1>6, <1>7, <1>8, <1>9, <1>10, <1>11, <1>12, <1>13 DEF ReconnectNext
-----------------------------------------------------------------------------
(* Both parts of the invariant need each other only one way: what a        *)
(* reconnect raises is a condition the ledger knows because its automation *)
(* was armed.                                                              *)
THEOREM ReconnectInvariant == ReconnectSpec => [](LedgerInv /\ DriveInv)
  <1>1. ReconnectInit => LedgerInv /\ DriveInv
    BY LedgerInitially, DriveInitially DEF ReconnectInit
  <1>2. LedgerInv /\ DriveInv /\ [ReconnectNext]_vars => (LedgerInv /\ DriveInv)'
    BY LedgerNext, DriveNext
  <1> QED BY <1>1, <1>2, PTL DEF ReconnectSpec

(* A reported condition is in the ledger exactly when its last call was    *)
(* raise, however rounds, raises and clears overlap and wherever the       *)
(* service stops.                                                          *)
THEOREM StandingIsKept == ReconnectSpec => []ConditionsStand
  <1>1. LedgerInv /\ DriveInv => ConditionsStand
    BY DEF LedgerInv
  <1> QED BY <1>1, ReconnectInvariant, PTL

(* The target takes a condition's announcement at most once from the time  *)
(* it enters the ledger until it leaves.                                   *)
THEOREM ToldOnce == ReconnectSpec => []AnnouncedOnce
  <1>1. LedgerInv /\ DriveInv => AnnouncedOnce
    BY DEF LedgerInv, HeardInv
  <1> QED BY <1>1, ReconnectInvariant, PTL

(* Automatic reconnects are a cooldown apart, no more than MaxAttempts in  *)
(* a window, and none runs after one that failed or was cut off until a    *)
(* reconnect has worked or the drive is armed afresh.                      *)
THEOREM ReconnectsKeepLimits == ReconnectSpec => []WithinLimits
  <1>1. LedgerInv /\ DriveInv => WithinLimits
    <2> SUFFICES ASSUME DriveInv PROVE WithinLimits
      OBVIOUS
    <2> USE DEF DriveInv
    <2>1. spoiled => flow[arming] # [at |-> "running", by |-> "drive"]
      <3> SUFFICES ASSUME spoiled, flow[arming] = [at |-> "running", by |-> "drive"] PROVE FALSE
        OBVIOUS
      <3>1. arming \in Arming
        BY DEF ArmedInv, DriveTypeOK
      <3>2. inFlight
        BY <3>1 DEF inFlight
      <3> QED BY <3>1, <3>2 DEF HoldInv
    <2> QED BY <2>1 DEF WithinLimits, LimitInv
  <1> QED BY <1>1, ReconnectInvariant, PTL
=============================================================================
