------------------------------ MODULE JobLife ------------------------------
(***************************************************************************)
(* What the job service promises those who use it: the life of a job's     *)
(* row. Jobs implements it (KeepsJobLife); the scheduler, the flows, the   *)
(* agents' plans and the pushes are built on it.                           *)
(***************************************************************************)
CONSTANT Job

VARIABLES web,    \* the web service: "up", "down", "recovering"
          state,  \* the job's row: applying and verifying are both "active"
          label   \* what recovery said of it: "none", "cutOff", "neverStarted"

lifeVars == <<web, state, label>>

Ended == {"completed", "failed", "cancelled"}
activeJobs == {j \in Job : state[j] = "active"}

LifeInit ==
    /\ web = "up"
    /\ state = [j \in Job |-> "none"]
    /\ label = [j \in Job |-> "none"]

Move(S, from, to) ==
    /\ web = "up" /\ \A j \in S : state[j] = from
    /\ state' = [j \in Job |-> IF j \in S THEN to ELSE state[j]]
    /\ UNCHANGED <<web, label>>

Stage(j) == Move({j}, "none", "awaiting")
Withdraw(S) == Move(S, "awaiting", "cancelled")
Grant(j) == Move({j}, "awaiting", "active")
Complete(j) == Move({j}, "active", "completed")
Fail(j) == Move({j}, "active", "failed")

Die == web # "down" /\ web' = "down" /\ UNCHANGED <<state, label>>

(* Startup, before anything listens: what was under way is failed, and N   *)
(* of it said to have never begun.                                         *)
Recover(N) ==
    /\ web = "down" /\ web' = "recovering"
    /\ N \subseteq activeJobs
    /\ state' = [j \in Job |-> IF j \in activeJobs THEN "failed" ELSE state[j]]
    /\ label' = [j \in Job |-> IF j \in N THEN "neverStarted" ELSE IF j \in activeJobs THEN "cutOff" ELSE label[j]]

Back == web = "recovering" /\ web' = "up" /\ UNCHANGED <<state, label>>

LifeNext ==
    \/ \E j \in Job : Stage(j) \/ Grant(j) \/ Complete(j) \/ Fail(j)
    \/ \E S \in SUBSET Job : Withdraw(S) \/ Recover(S)
    \/ Die \/ Back

LifeSpec == LifeInit /\ [][LifeNext]_lifeVars
=============================================================================
