------------------------------ MODULE Cadence ------------------------------
(***************************************************************************)
(* When a schedule runs next (scheduler.mjs computeNextRun): hourly, daily *)
(* or weekly, strictly after a given time. The calendar's sizes are        *)
(* parameters; daylight saving is left out.                                *)
(***************************************************************************)
EXTENDS Integers

CONSTANTS MinutesInHour, HoursInDay, DaysInWeek

ASSUME CalendarAssumption == {MinutesInHour, HoursInDay, DaysInWeek} \subseteq Nat \ {0}

MinutesInDay == HoursInDay * MinutesInHour

(* What validateCadence lets through; fields a frequency has no use for    *)
(* are null, here 0.                                                       *)
Cadences ==
    [frequency : {"hourly"}, minute : 0..(MinutesInHour - 1), hour : {0}, weekday : {0}] \union
    [frequency : {"daily"}, minute : 0..(MinutesInHour - 1), hour : 0..(HoursInDay - 1), weekday : {0}] \union
    [frequency : {"weekly"}, minute : 0..(MinutesInHour - 1), hour : 0..(HoursInDay - 1), weekday : 0..(DaysInWeek - 1)]

minuteOf(t) == t % MinutesInHour
hourOf(t) == (t \div MinutesInHour) % HoursInDay
dayOf(t) == t \div MinutesInDay
weekdayOf(t) == dayOf(t) % DaysInWeek

(* Mutant: an occurrence at this very minute counts as the next. *)
notYet_AtOnce(next, from) == next >= from

(* Strictly after. *)
notYet(next, from) == next > from

computeNextRun(c, from) ==
    LET hourly == from - minuteOf(from) + c.minute
        onDay(days) == (dayOf(from) + days) * MinutesInDay + c.hour * MinutesInHour + c.minute
        offset == IF c.frequency = "daily" THEN 0 ELSE (c.weekday - weekdayOf(from) + DaysInWeek) % DaysInWeek
        cycle == IF c.frequency = "daily" THEN 1 ELSE DaysInWeek
    IN IF c.frequency = "hourly"
       THEN IF notYet(hourly, from) THEN hourly ELSE hourly + MinutesInHour
       ELSE IF notYet(onDay(offset), from) THEN onDay(offset) ELSE onDay(offset + cycle)

(* The reference: whether a cadence's time is t. *)
Occurs(c, t) ==
    /\ minuteOf(t) = c.minute
    /\ c.frequency # "hourly" => hourOf(t) = c.hour
    /\ c.frequency = "weekly" => weekdayOf(t) = c.weekday
=============================================================================
