------------------------------ MODULE LaneLock ------------------------------
(***************************************************************************)
(* What the helper's lane queues promise: a first-come-first-served lock   *)
(* over subjects. An operation asks for a set of lanes; it may begin only  *)
(* when every operation that asked before it and conflicts with it is      *)
(* finished. Operations that do not conflict are independent of each other.*)
(* The detailed queues (HelperLanes) implement this without ever scanning  *)
(* the operations: they look only at the last request on each lane.        *)
(***************************************************************************)
EXTENDS Naturals, Lanes

CONSTANT Task  \* requests to the helper that change the host

VARIABLES phase,   \* "none" -> "waiting" -> "busy" -> "done"
          held,    \* the lanes each request asked for
          ticket,  \* 0 before it asked, then its place in the order of asking
          clock    \* how many have asked

absVars == <<phase, held, ticket, clock>>

Earlier(u, t) == 0 < ticket[u] /\ ticket[u] < ticket[t]

AbsInit ==
    /\ phase = [t \in Task |-> "none"]
    /\ held = [t \in Task |-> {}]
    /\ ticket = [t \in Task |-> 0]
    /\ clock = 0

(* Naming the lanes without asking for them yet (a request that waits for *)
(* an idle helper before it asks).                                        *)
AbsName(t) ==
    /\ phase[t] = "none"
    /\ \E H \in LaneSets : held' = [held EXCEPT ![t] = H]
    /\ UNCHANGED <<phase, ticket, clock>>

AbsAsk(t) ==
    /\ phase[t] = "none"
    /\ phase' = [phase EXCEPT ![t] = "waiting"]
    /\ \E H \in LaneSets : held' = [held EXCEPT ![t] = H]
    /\ clock' = clock + 1
    /\ ticket' = [ticket EXCEPT ![t] = clock + 1]

AbsBegin(t) ==
    /\ phase[t] = "waiting"
    /\ \A u \in Task : Earlier(u, t) /\ Conflict(held[u], held[t]) => phase[u] = "done"
    /\ phase' = [phase EXCEPT ![t] = "busy"]
    /\ UNCHANGED <<held, ticket, clock>>

AbsEnd(t) ==
    /\ phase[t] = "busy"
    /\ phase' = [phase EXCEPT ![t] = "done"]
    /\ UNCHANGED <<held, ticket, clock>>

(* The last holder ending may let a request that waited for idleness ask. *)
AbsEndAndAsk(t, w) ==
    /\ phase[t] = "busy" /\ phase[w] = "none"
    /\ phase' = [phase EXCEPT ![t] = "done", ![w] = "waiting"]
    /\ clock' = clock + 1
    /\ ticket' = [ticket EXCEPT ![w] = clock + 1]
    /\ held[w] \in LaneSets
    /\ UNCHANGED held

AbsNext ==
    \E t \in Task :
        \/ AbsName(t) \/ AbsAsk(t) \/ AbsBegin(t) \/ AbsEnd(t)
        \/ \E w \in Task : AbsEndAndAsk(t, w)

AbsSpec == AbsInit /\ [][AbsNext]_absVars
=============================================================================
