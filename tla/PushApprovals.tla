--------------------------- MODULE PushApprovals ---------------------------
(***************************************************************************)
(* Pushes to the phones of those who could approve a waiting job           *)
(* (push-approvals.mjs), over the life of a job's row (JobLife). marks and *)
(* sent are a setting; a sweep under way is lost with the web service.     *)
(*                                                                         *)
(* Time is open: a job grows due and old, quiet hours come and go, the gap *)
(* after a send passes and a send leaves the hour the limit counts, each   *)
(* in its own time.                                                        *)
(***************************************************************************)
EXTENDS JobLife, Naturals, Sequences, SequencesExt, FiniteSets

CONSTANTS None, KindOf,  \* a job's operation and subject
          Sweep,         \* sweeps that may be under way
          PerHour, MaxStops, MaxEdits

ASSUME PushAssumption == PerHour \in Nat \ {0} /\ {MaxStops, MaxEdits} \subseteq Nat

Mark == {"none", "pushed", "same", "skipped"}
Sending == [due : SUBSET Job, marks : [Job -> Mark], sent : Nat, dropped : Nat, delivered : BOOLEAN]

ASSUME NoSweepAssumption == None \notin Sending

VARIABLES
    born,            \* the jobs staged, in order
    age,             \* "fresh" (within graceMs), "due", "old" (maxAgeMs, or its approval expired)
    marks,           \* pushed: what was done about a job
    sent, aged, gap, \* the sends kept; how many are older than the hour; whether the last is within minGapMs
    quiet, tier,     \* the quiet hours; whether the owner wants pushes of this tier
    sweeps,          \* [Sweep -> Sending, or None]
    stops, edits,
    pushes, cut      \* how many pushes named a job; how many of those a stop left unwritten (records)

pushVars == <<web, state, label, born, age, marks, sent, aged, gap, quiet, tier, sweeps, stops, edits, pushes, cut>>

PushInit ==
    /\ LifeInit
    /\ born = <<>> /\ age = [j \in Job |-> "fresh"] /\ marks = [j \in Job |-> "none"]
    /\ sent = 0 /\ aged = 0 /\ gap = FALSE
    /\ quiet = FALSE /\ tier = TRUE
    /\ sweeps = [s \in Sweep |-> None]
    /\ stops = 0 /\ edits = 0
    /\ pushes = [j \in Job |-> 0] /\ cut = [j \in Job |-> 0]
-----------------------------------------------------------------------------
(* sweepOnce, over the setting as it was read.                             *)

waiting == {j \in Job : state[j] = "awaiting"}
stillMarked == [j \in Job |-> IF j \in waiting THEN marks[j] ELSE "none"]
pushedKinds == {KindOf[j] : j \in {k \in waiting : stillMarked[k] # "none"}}
ripe == {j \in waiting : stillMarked[j] = "none" /\ age[j] # "fresh"}
wanted == {j \in ripe : age[j] = "due" /\ tier}
stagedBefore(i, j) == \E a, b \in DOMAIN born : a < b /\ born[a] = i /\ born[b] = j
due == {j \in wanted : KindOf[j] \notin pushedKinds
                       /\ ~\E i \in wanted : KindOf[i] = KindOf[j] /\ stagedBefore(i, j)}
noted == [j \in Job |-> IF j \notin ripe \/ j \in due THEN stillMarked[j]
                        ELSE IF j \in wanted THEN "same" ELSE "skipped"]

(* Mutant: sends older than an hour count on. *)
sendsInHour_All == sent

sendsInHour == sent - aged
limited == gap \/ sendsInHour >= PerHour

(* Mutant: a sweep starts beside another. *)
sweeping_Never == FALSE

sweeping == \E s \in Sweep : sweeps[s] # None
begins(s) == web = "up" /\ sweeps[s] = None /\ ~sweeping

sweepHolds(s) ==
    /\ begins(s) /\ (due = {} \/ quiet \/ limited)
    /\ marks' = noted /\ sent' = sendsInHour /\ aged' = aged - (sent - sendsInHour)
    /\ UNCHANGED <<web, state, label, born, age, gap, quiet, tier, sweeps, stops, edits, pushes, cut>>

sweepSends(s) ==
    /\ begins(s) /\ due # {} /\ ~quiet /\ ~limited
    /\ sweeps' = [sweeps EXCEPT ![s] = [due |-> due, marks |-> noted, sent |-> sendsInHour, dropped |-> sent - sendsInHour,
                                        delivered |-> FALSE]]
    /\ UNCHANGED <<web, state, label, born, age, marks, sent, aged, gap, quiet, tier, stops, edits, pushes, cut>>

(* The devices and the target have it, or took none. *)
delivers(s) ==
    /\ web = "up" /\ sweeps[s] # None /\ ~sweeps[s].delivered
    /\ sweeps' = [sweeps EXCEPT ![s].delivered = TRUE]
    /\ pushes' = [j \in Job |-> IF j \in sweeps[s].due THEN pushes[j] + 1 ELSE pushes[j]]
    /\ UNCHANGED <<web, state, label, born, age, marks, sent, aged, gap, quiet, tier, stops, edits, cut>>

mayWrite(s) == sweeps[s] # None /\ sweeps[s].delivered

sweepWrites(s) ==
    /\ web = "up" /\ mayWrite(s)
    /\ marks' = [j \in Job |-> IF j \in sweeps[s].due THEN "pushed" ELSE sweeps[s].marks[j]]
    /\ sent' = sweeps[s].sent + 1 /\ aged' = aged - sweeps[s].dropped /\ gap' = TRUE
    /\ sweeps' = [sweeps EXCEPT ![s] = None]
    /\ UNCHANGED <<web, state, label, born, age, quiet, tier, stops, edits, pushes, cut>>
-----------------------------------------------------------------------------
jobVars == <<born, age, marks, sent, aged, gap, quiet, tier, sweeps, stops, edits, pushes, cut>>

stage(j) ==
    /\ Stage(j) /\ born' = Append(born, j)
    /\ UNCHANGED <<age, marks, sent, aged, gap, quiet, tier, sweeps, stops, edits, pushes, cut>>

(* How a job that was answered goes on is nothing to the sweeps. *)
answered(j) == (Withdraw({j}) \/ Grant(j)) /\ UNCHANGED jobVars

jobAges(j) ==
    /\ j \in waiting /\ age[j] # "old"
    /\ age' = [age EXCEPT ![j] = IF @ = "fresh" THEN "due" ELSE "old"]
    /\ UNCHANGED <<web, state, label, born, marks, sent, aged, gap, quiet, tier, sweeps, stops, edits, pushes, cut>>

quietHours ==
    /\ quiet' = ~quiet
    /\ UNCHANGED <<web, state, label, born, age, marks, sent, aged, gap, tier, sweeps, stops, edits, pushes, cut>>

gapPasses ==
    /\ gap /\ gap' = FALSE
    /\ UNCHANGED <<web, state, label, born, age, marks, sent, aged, quiet, tier, sweeps, stops, edits, pushes, cut>>

sendAges ==
    /\ ~gap /\ aged < sent /\ aged' = aged + 1
    /\ UNCHANGED <<web, state, label, born, age, marks, sent, gap, quiet, tier, sweeps, stops, edits, pushes, cut>>

saveSettings ==
    /\ web = "up" /\ edits < MaxEdits /\ edits' = edits + 1
    /\ tier' = ~tier
    /\ UNCHANGED <<web, state, label, born, age, marks, sent, aged, gap, quiet, sweeps, stops, pushes, cut>>

stop ==
    /\ stops < MaxStops /\ stops' = stops + 1 /\ Die
    /\ cut' = [j \in Job |-> cut[j] + Cardinality({s \in Sweep : mayWrite(s) /\ j \in sweeps[s].due})]
    /\ sweeps' = [s \in Sweep |-> None]
    /\ UNCHANGED <<born, age, marks, sent, aged, gap, quiet, tier, edits, pushes>>

recovers == (Recover({}) \/ Back) /\ UNCHANGED jobVars

PushNext ==
    \/ \E s \in Sweep : sweepHolds(s) \/ sweepSends(s) \/ delivers(s) \/ sweepWrites(s)
    \/ \E j \in Job : stage(j) \/ answered(j) \/ jobAges(j)
    \/ quietHours \/ gapPasses \/ sendAges \/ saveSettings \/ stop \/ recovers

(* The interval comes twice a minute, far oftener than quiet hours, the    *)
(* gap or the hour turn; a send gives up after 15 seconds; time passes.    *)
PushSpec ==
    /\ PushInit /\ [][PushNext]_pushVars
    /\ WF_pushVars(recovers) /\ WF_pushVars(gapPasses) /\ WF_pushVars(sendAges)
    /\ WF_pushVars(quiet /\ quietHours)
    /\ \A s \in Sweep : SF_pushVars(sweepSends(s)) /\ SF_pushVars(sweepHolds(s)) /\ WF_pushVars(delivers(s)) /\ WF_pushVars(sweepWrites(s))
-----------------------------------------------------------------------------
(* A job marked as pushed was in a push, and in one only, however many     *)
(* sweeps see it and whatever ends meanwhile; but for a push whose record  *)
(* a stop lost, which is made again.                                       *)
PushedOnce == \A j \in Job : pushes[j] =< 1 + cut[j] /\ (marks[j] = "pushed" => pushes[j] > 0)

(* A job that waits past its first two minutes is pushed, found to be a    *)
(* copy, or skipped, through quiet hours, limits and restarts, unless      *)
(* someone answers it.                                                     *)
WaitingIsHandled == \A j \in Job : (j \in waiting /\ age[j] = "due") ~> (j \notin waiting \/ marks[j] # "none")

(* "Kept quiet: one push per job, ever" (push-approvals.mjs).              *)
OnePushEver == \A j \in Job : pushes[j] =< 1

(* "a later copy of one already pushed is quiet", and of what quiet hours  *)
(* held "what is still waiting afterwards is said once" (push-approvals    *)
(* .mjs): a waiting job that was found to be a copy is one of something    *)
(* pushed, being pushed, or still to be.                                   *)
CopyOfPushed ==
    \A j \in waiting : marks[j] = "same" =>
        \E i \in Job : /\ KindOf[i] = KindOf[j]
                       /\ \/ pushes[i] > 0
                          \/ i \in waiting /\ marks[i] = "none"
                          \/ \E s \in Sweep : sweeps[s] # None /\ i \in sweeps[s].due
=============================================================================
