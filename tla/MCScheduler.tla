---------------------------- MODULE MCScheduler ----------------------------
EXTENDS Scheduler

CONSTANTS nightly, checks

(* Two hours of two minutes in a day, two days in a week. *)
MCCadenceOf == [s \in Schedule |->
    IF s = checks THEN [frequency |-> "hourly", minute |-> 0, hour |-> 0, weekday |-> 0]
    ELSE [frequency |-> "daily", minute |-> 0, hour |-> 1, weekday |-> 0]]
=============================================================================
