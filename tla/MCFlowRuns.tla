----------------------------- MODULE MCFlowRuns ----------------------------
EXTENDS FlowRuns

CONSTANTS nightly, after

plain == [operation |-> "backup", retry |-> 0, keepGoing |-> FALSE, when |-> 0, attended |-> FALSE]
tries == [plain EXCEPT !.retry = 1, !.keepGoing = TRUE]
ifFirst == [plain EXCEPT !.when = 1]
byPerson == [plain EXCEPT !.attended = TRUE]

(* A flow of two steps, which may be saved with other steps, and one that  *)
(* follows it.                                                             *)
MCFirstSteps == [f \in Flow |-> IF f = nightly THEN <<tries, ifFirst>> ELSE <<plain>>]
MCVersions == [f \in Flow |-> IF f = nightly THEN {<<tries, ifFirst>>, <<plain, byPerson>>} ELSE {<<plain>>}]
MCFirstTrigger == [f \in Flow |-> IF f = after THEN nightly ELSE None]
=============================================================================
