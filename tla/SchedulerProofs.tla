-------------------------- MODULE SchedulerProofs --------------------------
(***************************************************************************)
(* The scheduler, for any schedules, cadences, jobs, calendar, memory and  *)
(* bounds: the next run is the soonest occurrence, no schedule runs double *)
(* and the end of every run is told.                                       *)
(*                                                                         *)
(* The parts, in order: the calendar; the type; how jobs, rounds and rows  *)
(* move; which job is whose; who may run; that due times only grow; what   *)
(* is in memory; what a started row still hears; what is told; and the     *)
(* theorems.                                                               *)
(***************************************************************************)
EXTENDS Scheduler, FiniteSetTheorems, SequenceTheorems, TLAPS

(* Division with remainder has one answer. *)
LEMMA Remainder ==
    ASSUME NEW q \in Int, NEW M \in Nat \ {0}, NEW r \in 0..(M - 1)
    PROVE  (q * M + r) % M = r /\ (q * M + r) \div M = q
  <1> QED OBVIOUS

(* What the quotient and the remainder of a time are.                      *)
LEMMA Divided ==
    ASSUME NEW t \in Nat, NEW M \in Nat \ {0}
    PROVE  /\ t = (t \div M) * M + (t % M)
           /\ t % M \in 0..(M - 1)
           /\ t \div M \in Nat
  <1> QED OBVIOUS

(* A later day, or hour, is later by at least one.                         *)
LEMMA Monotone ==
    ASSUME NEW a \in Int, NEW b \in Int, a < b, NEW M \in Nat \ {0}
    PROVE  a * M + M =< b * M
  <1> QED OBVIOUS

(* Days of hours of minutes: the product is the number of minutes.         *)
LEMMA Products ==
    ASSUME NEW y \in Int, NEW H \in Nat \ {0}, NEW M \in Nat \ {0}, NEW h \in 0..(H - 1), NEW m \in 0..(M - 1)
    PROVE  /\ H * M \in Nat \ {0}
           /\ (y * H + h) * M = y * (H * M) + h * M
           /\ h * M + m \in 0..(H * M - 1)
  <1>1. H * M \in Nat \ {0}
    OBVIOUS
  <1>2. (y * H + h) * M = y * (H * M) + h * M
    OBVIOUS
  <1>3. h * M + M =< H * M
    BY Monotone
  <1>4. h * M \in Nat
    OBVIOUS
  <1> QED BY <1>1, <1>2, <1>3, <1>4

(* The time at h hours and m minutes of day y, for days of H hours of M    *)
(* minutes.                                                                *)
Time(y, h, m, H, M) == y * (H * M) + h * M + m

(* A time is read as the day, hour and minute it was written with.         *)
LEMMA Composed ==
    ASSUME NEW M \in Nat \ {0}, NEW H \in Nat \ {0}, NEW y \in Nat, NEW h \in 0..(H - 1), NEW m \in 0..(M - 1)
    PROVE  /\ Time(y, h, m, H, M) \in Nat
           /\ Time(y, h, m, H, M) % M = m
           /\ (Time(y, h, m, H, M) \div M) % H = h
           /\ Time(y, h, m, H, M) \div (H * M) = y
  <1>1. /\ H * M \in Nat \ {0}
        /\ (y * H + h) * M = y * (H * M) + h * M
        /\ h * M + m \in 0..(H * M - 1)
    BY Products
  <1>2. Time(y, h, m, H, M) \div (H * M) = y
    <2> DEFINE D == H * M
               r == h * M + m
    <2>1. D \in Nat \ {0} /\ r \in 0..(D - 1)
      BY <1>1
    <2>2. Time(y, h, m, H, M) = y * D + r
      BY <1>1 DEF Time
    <2> HIDE DEF D, r
    <2>3. (y * D + r) \div D = y
      BY <2>1
    <2> QED BY <2>2, <2>3 DEF D
  <1>3. y * H + h \in Nat /\ (y * H + h) % H = h
    BY Remainder
  <1>4. \A q \in Nat : (q * M + m) % M = m /\ (q * M + m) \div M = q /\ q * M + m \in Nat
    BY Remainder
  <1>5. Time(y, h, m, H, M) = (y * H + h) * M + m
    BY <1>1 DEF Time
  <1> QED BY <1>2, <1>3, <1>4, <1>5

(* Every time is written so.                                               *)
LEMMA Decomposed ==
    ASSUME NEW M \in Nat \ {0}, NEW H \in Nat \ {0}, NEW t \in Nat
    PROVE  \E y \in Nat, h \in 0..(H - 1), m \in 0..(M - 1) : t = Time(y, h, m, H, M)
  <1>1. PICK x \in Nat, m \in 0..(M - 1) : t = x * M + m
    BY Divided
  <1>2. PICK y \in Nat, h \in 0..(H - 1) : x = y * H + h
    BY Divided
  <1>3. x * M = y * (H * M) + h * M
    BY <1>2, Products
  <1> QED BY <1>1, <1>2, <1>3 DEF Time

Moment(y, h, m) == Time(y, h, m, HoursInDay, MinutesInHour)

(* The parts a time is written with are read back from it.                 *)
LEMMA Written ==
    ASSUME CalendarAssumption, NEW y \in Nat, NEW h \in 0..(HoursInDay - 1), NEW m \in 0..(MinutesInHour - 1)
    PROVE  /\ Moment(y, h, m) \in Nat
           /\ dayOf(Moment(y, h, m)) = y /\ hourOf(Moment(y, h, m)) = h /\ minuteOf(Moment(y, h, m)) = m
  <1>1. HoursInDay \in Nat \ {0} /\ MinutesInHour \in Nat \ {0}
    BY DEF CalendarAssumption
  <1>2. /\ Moment(y, h, m) \in Nat
        /\ Moment(y, h, m) % MinutesInHour = m
        /\ (Moment(y, h, m) \div MinutesInHour) % HoursInDay = h
        /\ Moment(y, h, m) \div (HoursInDay * MinutesInHour) = y
    BY <1>1, Composed DEF Moment
  <1> QED BY <1>2 DEF dayOf, hourOf, minuteOf, MinutesInDay

(* A time read apart and written together is the same time.                *)
LEMMA Read ==
    ASSUME CalendarAssumption, NEW t \in Nat
    PROVE  /\ dayOf(t) \in Nat /\ hourOf(t) \in 0..(HoursInDay - 1) /\ minuteOf(t) \in 0..(MinutesInHour - 1)
           /\ t = Moment(dayOf(t), hourOf(t), minuteOf(t))
  <1>1. HoursInDay \in Nat \ {0} /\ MinutesInHour \in Nat \ {0}
    BY DEF CalendarAssumption
  <1>2. PICK y \in Nat, h \in 0..(HoursInDay - 1), m \in 0..(MinutesInHour - 1) : t = Moment(y, h, m)
    BY <1>1, Decomposed DEF Moment
  <1> QED BY <1>2, Written

(* A later day is a later time.                                            *)
LEMMA LaterDay ==
    ASSUME CalendarAssumption, NEW y \in Nat, NEW z \in Nat, y < z,
           NEW h \in 0..(HoursInDay - 1), NEW m \in 0..(MinutesInHour - 1),
           NEW g \in 0..(HoursInDay - 1), NEW n \in 0..(MinutesInHour - 1)
    PROVE  Moment(y, h, m) < Moment(z, g, n)
  <1> DEFINE D == MinutesInDay
             r == h * MinutesInHour + m
             q == g * MinutesInHour + n
  <1>1. HoursInDay \in Nat \ {0} /\ MinutesInHour \in Nat \ {0}
    BY DEF CalendarAssumption
  <1>2. D \in Nat \ {0} /\ r \in 0..(D - 1)
    BY <1>1, Products DEF MinutesInDay
  <1>3. q \in Nat
    BY <1>1
  <1>4. Moment(y, h, m) = y * D + r /\ Moment(z, g, n) = z * D + q
    BY <1>1, <1>2, <1>3 DEF Moment, Time, MinutesInDay
  <1> HIDE DEF D, r, q
  <1>5. y * D + D =< z * D /\ y * D \in Nat
    BY <1>2, Monotone
  <1> QED BY <1>2, <1>3, <1>4, <1>5

(* Counted from a day, the days of a weekday come once every week.         *)
LEMMA WeekdaysRecur ==
    ASSUME NEW W \in Nat \ {0}, NEW w \in 0..(W - 1), NEW y \in Nat, NEW i \in Nat
    PROVE  LET first == (w - (y % W) + W) % W
           IN first \in 0..(W - 1) /\ ((y + i) % W = w <=> i % W = first)
  <1> DEFINE first == (w - (y % W) + W) % W
  <1>1. PICK a \in Nat, e \in 0..(W - 1) : y = a * W + e
    BY Divided
  <1>2. PICK b \in Nat, f \in 0..(W - 1) : i = b * W + f
    BY Divided
  <1>3. y % W = e /\ i % W = f
    BY <1>1, <1>2, Remainder
  <1>4. \A x \in 0..(W - 1), q \in Int : (q * W + x) % W = x
    BY Remainder
  <1>5. \A x \in 0..(W - 1) : x % W = x /\ (x + W) % W = x
    <2>1. 0 * W = 0 /\ 1 * W = W
      OBVIOUS
    <2> QED BY <1>4, <2>1
  <1>6. first = IF w >= e THEN w - e ELSE w - e + W
    <2>1. first = (w - e + W) % W
      BY <1>3
    <2>2. CASE w >= e
      <3>1. w - e \in 0..(W - 1)
        BY <2>2
      <3> QED BY <1>5, <2>1, <2>2, <3>1
    <2>3. CASE w < e
      <3>1. w - e + W \in 0..(W - 1)
        BY <2>3
      <3> QED BY <1>5, <2>1, <2>3, <3>1
    <2> QED BY <2>2, <2>3
  <1>7. (y + i) % W = IF e + f < W THEN e + f ELSE e + f - W
    <2>1. PICK q \in Int : q * W = a * W + b * W
      <3>1. PICK x \in Int : x = a + b
        OBVIOUS
      <3>2. x * W = a * W + b * W
        BY <3>1
      <3> QED BY <3>2
    <2>2. PICK k \in Int : k * W = q * W + W
      <3>1. PICK x \in Int : x = q + 1
        OBVIOUS
      <3>2. x * W = q * W + W
        BY <3>1
      <3> QED BY <3>2
    <2>3. a * W \in Int /\ b * W \in Int
      OBVIOUS
    <2>4. CASE e + f < W
      <3>1. e + f \in 0..(W - 1) /\ y + i = q * W + (e + f)
        BY <1>1, <1>2, <2>1, <2>3, <2>4
      <3>2. (q * W + (e + f)) % W = e + f
        BY <1>4, <3>1
      <3> QED BY <2>4, <3>1, <3>2
    <2>5. CASE e + f >= W
      <3>1. e + f - W \in 0..(W - 1) /\ y + i = k * W + (e + f - W)
        BY <1>1, <1>2, <2>1, <2>2, <2>3, <2>5
      <3>2. (k * W + (e + f - W)) % W = e + f - W
        BY <1>4, <3>1
      <3> QED BY <2>5, <3>1, <3>2
    <2> QED BY <2>4, <2>5
  <1>8. first \in 0..(W - 1)
    BY <1>6
  <1> HIDE DEF first
  <1>9. (y + i) % W = w <=> i % W = first
    BY <1>3, <1>6, <1>7
  <1> QED BY <1>8, <1>9 DEF first

(* The days that count are first, first + W, ... days from today: the      *)
(* first of them not over by `from` has the soonest time.                  *)
LEMMA SoonestDay ==
    ASSUME CalendarAssumption, NEW from \in Nat, NEW W \in Nat \ {0}, NEW first \in 0..(W - 1),
           NEW h \in 0..(HoursInDay - 1), NEW m \in 0..(MinutesInHour - 1)
    PROVE  LET on(i) == Moment(dayOf(from) + i, h, m)
               next == IF on(first) > from THEN on(first) ELSE on(first + W)
           IN /\ next \in Nat /\ next > from
              /\ \E i \in Nat : i % W = first /\ next = on(i)
              /\ \A i \in Nat : i % W = first /\ on(i) > from => next =< on(i)
  <1> DEFINE y == dayOf(from)
             on(i) == Moment(y + i, h, m)
             next == IF on(first) > from THEN on(first) ELSE on(first + W)
  <1>1. /\ y \in Nat
        /\ \A i \in Nat \ {0} : on(i) > from
    <2>1. y \in Nat /\ from = Moment(y, hourOf(from), minuteOf(from))
      BY Read
    <2>2. hourOf(from) \in 0..(HoursInDay - 1) /\ minuteOf(from) \in 0..(MinutesInHour - 1)
      BY Read
    <2> QED BY <2>1, <2>2, LaterDay
  <1> HIDE DEF y
  <1>2. \A i \in Nat : on(i) \in Nat
    <2> SUFFICES ASSUME NEW i \in Nat
                 PROVE  on(i) \in Nat
      OBVIOUS
    <2>1. PICK z \in Nat : z = y + i
      BY <1>1
    <2> QED BY <2>1, Written
  <1>3. \A i, k \in Nat : i < k => on(i) < on(k)
    BY <1>1, LaterDay
  <1> HIDE DEF on
  <1>4. first % W = first /\ (first + W) % W = first
    <2>1. PICK z \in Int, u \in Int : z = 0 /\ u = 1
      OBVIOUS
    <2>2. (z * W + first) % W = first /\ (u * W + first) % W = first
      BY Remainder
    <2>3. z * W + first = first /\ u * W + first = first + W
      BY <2>1
    <2> QED BY <2>2, <2>3
  <1>5. \A i \in Nat : i % W = first => i = first \/ i >= first + W
    <2> SUFFICES ASSUME NEW i \in Nat, i % W = first
                 PROVE  i = first \/ i >= first + W
      OBVIOUS
    <2>1. PICK b \in Nat : i = b * W + first
      BY Divided
    <2>2. CASE b = 0
      BY <2>1, <2>2
    <2>3. CASE b > 0
      BY <2>1, <2>3
    <2> QED BY <2>1, <2>2, <2>3
  <1>6. first \in Nat /\ first + W \in Nat \ {0}
    OBVIOUS
  <1>7. /\ next \in Nat /\ next > from
        /\ \E i \in Nat : i % W = first /\ next = on(i)
    BY <1>1, <1>2, <1>4, <1>6
  <1>8. ASSUME NEW i \in Nat, i % W = first, on(i) > from
        PROVE  next =< on(i)
    <2>1. CASE on(first) > from
      BY <1>2, <1>3, <1>5, <1>6, <1>8, <2>1
    <2>2. CASE ~(on(first) > from)
      <3>1. i # first
        BY <1>8, <2>2
      <3>2. i = first + W \/ i > first + W
        BY <1>5, <1>6, <1>8, <3>1
      <3>3. on(first + W) =< on(i)
        BY <1>2, <1>3, <1>6, <3>2
      <3> QED BY <2>2, <3>3
    <2> QED BY <2>1, <2>2
  <1> QED BY <1>7, <1>8 DEF on, y

(* computeNextRun answers the soonest time of the cadence after `from`.    *)
LEMMA SoonestRun ==
    ASSUME CalendarAssumption, NEW c \in Cadences, NEW from \in Nat
    PROVE  LET next == computeNextRun(c, from)
           IN /\ next \in Nat /\ next > from /\ Occurs(c, next)
              /\ \A t \in (from + 1)..(next - 1) : ~Occurs(c, t)
  <1> DEFINE M == MinutesInHour
             m == c.minute
  <1>1. HoursInDay \in Nat \ {0} /\ M \in Nat \ {0} /\ DaysInWeek \in Nat \ {0}
    BY DEF CalendarAssumption
  <1>2. CASE c.frequency = "hourly"
    <2>1. m \in 0..(M - 1)
      BY DEF Cadences
    <2>2. PICK q \in Nat, r \in 0..(M - 1) : from = q * M + r /\ from % M = r
      BY <1>1, Divided
    <2> DEFINE next == computeNextRun(c, from)
    <2>3. next = IF q * M + m > from THEN q * M + m ELSE q * M + m + M
      <3>1. q * M \in Nat
        BY <1>1
      <3>2. from - minuteOf(from) + m = q * M + m
        BY <2>1, <2>2, <3>1 DEF minuteOf
      <3> QED BY <1>2, <3>2 DEF computeNextRun, notYet
    <2> HIDE DEF next, M, m
    <2>4. PICK k \in Nat : next = k * M + m /\ k * M - M + m =< from /\ next > from
      <3>1. q * M \in Nat
        BY <1>1
      <3>2. CASE q * M + m > from
        <4>1. q * M - M + m =< from
          BY <1>1, <2>1, <2>2, <3>1
        <4> QED BY <2>3, <3>2, <4>1
      <3>3. CASE ~(q * M + m > from)
        <4>1. PICK x \in Nat : x = q + 1
          OBVIOUS
        <4>2. x * M = q * M + M
          BY <1>1, <4>1
        <4>3. q * M + m + M > from
          BY <1>1, <2>1, <2>2, <3>1
        <4>4. next = x * M + m /\ x * M - M + m =< from
          BY <1>1, <2>1, <2>3, <3>1, <3>3, <4>2
        <4> QED BY <2>3, <3>3, <4>3, <4>4
      <3> QED BY <3>2, <3>3
    <2>5. k * M \in Nat
      BY <1>1
    <2>6. next \in Nat
      BY <2>1, <2>4, <2>5
    <2>7. next % M = m
      BY <1>1, <2>1, <2>4, Remainder
    <2>8. Occurs(c, next)
      BY <1>2, <2>7 DEF Occurs, minuteOf, M, m
    <2>9. ASSUME NEW t \in (from + 1)..(next - 1), Occurs(c, t)
          PROVE  FALSE
      <3>1. t \in Nat /\ t % M = m
        BY <1>2, <2>6, <2>9 DEF Occurs, minuteOf, M, m
      <3>2. PICK p \in Nat : t = p * M + m
        BY <1>1, <3>1, Divided
      <3>3. CASE p >= k
        <4>1. p * M >= k * M
          BY <1>1, <3>3, Monotone
        <4> QED BY <1>1, <2>1, <2>4, <2>5, <2>6, <3>1, <3>2, <4>1
      <3>4. CASE p < k
        <4>1. p * M + M =< k * M
          BY <1>1, <3>4, Monotone
        <4>2. p * M \in Nat
          BY <1>1
        <4> QED BY <1>1, <2>1, <2>4, <2>5, <2>6, <3>1, <3>2, <4>1, <4>2
      <3> QED BY <3>3, <3>4
    <2> QED BY <2>4, <2>6, <2>8, <2>9 DEF next
  <1>3. CASE c.frequency # "hourly"
    <2> DEFINE h == c.hour
               y == dayOf(from)
               W == IF c.frequency = "daily" THEN 1 ELSE DaysInWeek
               first == IF c.frequency = "daily" THEN 0 ELSE (c.weekday - weekdayOf(from) + DaysInWeek) % DaysInWeek
               next == computeNextRun(c, from)
    <2>1. /\ c.frequency \in {"daily", "weekly"}
          /\ h \in 0..(HoursInDay - 1) /\ m \in 0..(M - 1)
          /\ c.frequency = "weekly" => c.weekday \in 0..(DaysInWeek - 1)
      BY <1>3 DEF Cadences
    <2>2. y \in Nat
      BY Read
    <2>3. /\ W \in Nat \ {0} /\ first \in 0..(W - 1)
          /\ \A i \in Nat : (c.frequency = "weekly" => (y + i) % DaysInWeek = c.weekday) <=> i % W = first
      <3>1. CASE c.frequency = "daily"
        BY <2>2, <3>1
      <3>2. CASE c.frequency = "weekly"
        <4>1. first = (c.weekday - (y % DaysInWeek) + DaysInWeek) % DaysInWeek /\ W = DaysInWeek
          BY <3>2 DEF weekdayOf
        <4> HIDE DEF y
        <4>2. c.weekday \in 0..(DaysInWeek - 1)
          BY <2>1, <3>2
        <4>3. \A i \in Nat : LET f == (c.weekday - (y % DaysInWeek) + DaysInWeek) % DaysInWeek
                             IN f \in 0..(DaysInWeek - 1) /\ ((y + i) % DaysInWeek = c.weekday <=> i % DaysInWeek = f)
          BY <1>1, <2>2, <4>2, WeekdaysRecur
        <4> HIDE DEF first, W
        <4>4. first \in 0..(W - 1)
          BY <4>1, <4>3
        <4> QED BY <1>1, <3>2, <4>1, <4>3, <4>4
      <3> QED BY <2>1, <3>1, <3>2
    <2>4. next = IF Moment(y + first, h, m) > from THEN Moment(y + first, h, m) ELSE Moment(y + (first + W), h, m)
      <3>1. \A i \in Nat : Moment(y + i, h, m) = (y + i) * MinutesInDay + h * M + m
        BY DEF Moment, Time, MinutesInDay
      <3>2. first \in Nat /\ first + W \in Nat
        BY <2>3
      <3> QED BY <1>3, <3>1, <3>2 DEF computeNextRun, notYet
    <2> HIDE DEF next, first, W, h, m, M, y
    <2>5. /\ next \in Nat /\ next > from
          /\ \E i \in Nat : i % W = first /\ next = Moment(y + i, h, m)
          /\ \A i \in Nat : i % W = first /\ Moment(y + i, h, m) > from => next =< Moment(y + i, h, m)
      <3> DEFINE on(i) == Moment(dayOf(from) + i, h, m)
                 soonest == IF on(first) > from THEN on(first) ELSE on(first + W)
      <3>1. /\ soonest \in Nat /\ soonest > from
            /\ \E i \in Nat : i % W = first /\ soonest = on(i)
            /\ \A i \in Nat : i % W = first /\ on(i) > from => soonest =< on(i)
        <4>1. h \in 0..(HoursInDay - 1) /\ m \in 0..(MinutesInHour - 1)
          BY <2>1 DEF M
        <4> QED BY <2>3, <4>1, SoonestDay
      <3>2. soonest = next
        BY <2>4 DEF y
      <3> HIDE DEF soonest
      <3> QED BY <3>1, <3>2 DEF y
    <2>6. Occurs(c, next)
      <3>1. PICK i \in Nat : i % W = first /\ next = Moment(y + i, h, m)
        BY <2>5
      <3>2. dayOf(next) = y + i /\ hourOf(next) = h /\ minuteOf(next) = m
        BY <2>1, <2>2, <3>1, Written DEF M
      <3>3. c.frequency = "weekly" => weekdayOf(next) = c.weekday
        BY <2>3, <3>1, <3>2 DEF weekdayOf
      <3> QED BY <3>2, <3>3 DEF Occurs, h, m
    <2>7. ASSUME NEW t \in (from + 1)..(next - 1), Occurs(c, t)
          PROVE  FALSE
      <3>1. t \in Nat /\ t > from /\ t < next
        BY <2>5
      <3>2. dayOf(t) \in Nat /\ t = Moment(dayOf(t), h, m)
        BY <1>3, <2>7, <3>1, Read DEF Occurs, h, m
      <3>3. dayOf(t) >= y
        <4> SUFFICES ASSUME dayOf(t) < y
                     PROVE  FALSE
          BY <2>2, <3>2
        <4>1. from = Moment(y, hourOf(from), minuteOf(from))
          BY Read DEF y
        <4>2. hourOf(from) \in 0..(HoursInDay - 1) /\ minuteOf(from) \in 0..(MinutesInHour - 1)
          BY Read
        <4>3. t < from
          BY <2>1, <2>2, <3>2, <4>1, <4>2, LaterDay DEF M
        <4> QED BY <3>1, <4>3
      <3>4. PICK i \in Nat : dayOf(t) = y + i
        BY <2>2, <3>2, <3>3
      <3>5. c.frequency = "weekly" => (y + i) % DaysInWeek = c.weekday
        BY <2>7, <3>4 DEF Occurs, weekdayOf
      <3>6. i % W = first
        BY <2>3, <3>5
      <3> QED BY <2>5, <3>1, <3>2, <3>4, <3>6
    <2> QED BY <2>5, <2>6, <2>7 DEF next
  <1> QED BY <1>2, <1>3
-----------------------------------------------------------------------------
(* The type of every variable. A round is at its first entry until it      *)
(* ends, lists each schedule once, and has a job from its staging on.      *)
Settled == {"active", "completed", "failed", "cancelled"}
At == {"idle", "checking", "staging", "approving", "marking"}
Result == {"new", "none", "starting", "started", "ended", "error", "paused"}
Entry == [id : Schedule, due : Nat]
Rounds == [at : At, queue : Seq(Entry), job : Job \union {None}, next : Nat]

RoundOK ==
    /\ round \in Rounds
    /\ round.at = "idle" <=> round.queue = <<>>
    /\ round.job # None <=> round.at \in {"approving", "marking"}
    /\ round.at # "idle" => web = "up"
    /\ \A i, k \in DOMAIN round.queue : i # k => round.queue[i].id # round.queue[k].id

RowsOK ==
    /\ enabled \subseteq present /\ present \subseteq Schedule
    /\ nextDue \in [Schedule -> Nat] /\ lastJob \in [Schedule -> Job \union {None}]
    /\ lastResult \in [Schedule -> Result]

RestOK ==
    /\ web \in {"up", "down", "recovering"}
    /\ state \in [Job -> {"none", "awaiting"} \union Settled]
    /\ started \in Seq(Job) /\ owner \in [Job -> Schedule \union {None}]
    /\ pending \subseteq Job /\ interrupted \subseteq Job
    /\ now \in Nat
    /\ jobOf \in [Job -> Schedule \union {None}] /\ dueOf \in [Job -> Nat]
    /\ byHand \subseteq Job /\ orphans \subseteq Job /\ dropped \subseteq Job /\ forgotten \subseteq Job
    /\ told \in [Job -> Nat]

SchedTypeOK == RoundOK /\ RowsOK /\ RestOK

USE SchedulerAssumption, CalendarAssumption
-----------------------------------------------------------------------------
(* A schedule's next run is a time, and lies ahead.                        *)
LEMMA NextRunLater ==
    ASSUME SchedTypeOK, NEW s \in Schedule
    PROVE  nextRun(s) \in Nat /\ nextRun(s) > now
  <1>1. CadenceOf[s] \in Cadences /\ now \in Nat
    BY DEF SchedulerAssumption, SchedTypeOK, RestOK
  <1> QED BY <1>1, SoonestRun DEF nextRun

(* A round that is under way is at a schedule; when it goes on, it is at   *)
(* the ones that follow it.                                                *)
LEMMA RoundUnderWay ==
    ASSUME RoundOK, round.at # "idle"
    PROVE  /\ 1 \in DOMAIN round.queue /\ current = round.queue[1].id /\ Head(round.queue) = round.queue[1]
           /\ current \in Schedule /\ round.queue[1].due \in Nat
  <1>1. round.queue \in Seq(Entry) /\ round.queue # <<>>
    BY DEF RoundOK, Rounds
  <1>2. Head(round.queue) = round.queue[1] /\ 1 \in DOMAIN round.queue /\ round.queue[1] \in Entry
    BY <1>1
  <1> QED BY <1>2 DEF current, Entry

(* What is left of the round after an entry.                               *)
LEMMA RoundGoesOn ==
    ASSUME RoundOK, round.at # "idle"
    PROVE  /\ onward \in Rounds /\ onward.job = None /\ onward.at \in {"idle", "checking"}
           /\ onward.at = "idle" <=> onward.queue = <<>>
           /\ \A i \in DOMAIN onward.queue : /\ i \in Nat /\ i + 1 \in DOMAIN round.queue /\ i + 1 # 1
                                             /\ onward.queue[i] = round.queue[i + 1]
           /\ \A i, k \in DOMAIN onward.queue : i # k => onward.queue[i].id # onward.queue[k].id
           /\ \A i \in DOMAIN onward.queue : onward.queue[i].id # current
  <1> DEFINE q == round.queue
  <1>1. q \in Seq(Entry) /\ q # <<>> /\ current = q[1].id
    BY RoundUnderWay DEF RoundOK, Rounds
  <1>2. \A i, k \in DOMAIN q : i # k => q[i].id # q[k].id
    BY DEF RoundOK
  <1>3. /\ Len(q) \in Nat \ {0} /\ DOMAIN q = 1..Len(q)
        /\ Tail(q) \in Seq(Entry) /\ Len(Tail(q)) = Len(q) - 1 /\ DOMAIN Tail(q) = 1..(Len(q) - 1)
        /\ \A i \in 1..(Len(q) - 1) : Tail(q)[i] = q[i + 1]
    BY <1>1
  <1>4. NoRound \in Rounds /\ DOMAIN NoRound.queue = {} /\ NoRound.at = "idle" /\ NoRound.queue = <<>> /\ NoRound.job = None
    BY DEF NoRound, Rounds, At
  <1>5. CASE Len(q) = 1
    BY <1>4, <1>5 DEF onward
  <1>6. CASE Len(q) # 1
    <2>1. onward = [NoRound EXCEPT !.at = "checking", !.queue = Tail(q)]
      BY <1>6 DEF onward
    <2>2. /\ onward.at = "checking" /\ onward.queue = Tail(q) /\ onward.job = None
          /\ onward \in Rounds
      BY <1>3, <2>1 DEF NoRound, Rounds, At
    <2>3. Tail(q) # <<>>
      <3>1. Len(Tail(q)) # 0
        BY <1>3, <1>6
      <3> QED BY <3>1, EmptySeq
    <2>4. \A i \in DOMAIN Tail(q) : i \in Nat /\ i + 1 \in DOMAIN q /\ i + 1 # 1 /\ Tail(q)[i] = q[i + 1]
      BY <1>3
    <2>5. \A i, k \in DOMAIN Tail(q) : i # k => Tail(q)[i].id # Tail(q)[k].id
      BY <1>2, <2>4
    <2>6. \A i \in DOMAIN Tail(q) : Tail(q)[i].id # q[1].id
      <3>1. 1 \in DOMAIN q
        BY <1>3
      <3> QED BY <1>2, <2>4, <3>1
    <2> QED BY <1>1, <2>2, <2>3, <2>4, <2>5, <2>6
  <1> QED BY <1>5, <1>6

(* A sequence of a finite set's elements has as many as the set.           *)
LEMMA SeqOfSet ==
    ASSUME NEW S, IsFiniteSet(S), NEW s \in SetToSeqs(S)
    PROVE  /\ s \in Seq(S) /\ Len(s) = Cardinality(S) /\ DOMAIN s = 1..Cardinality(S)
           /\ \A i, k \in DOMAIN s : i # k => s[i] # s[k]
  <1>1. Cardinality(S) \in Nat
    BY FS_CardinalityType
  <1>2. s \in [1..Cardinality(S) -> S] /\ \A i, k \in 1..Cardinality(S) : i # k => s[i] # s[k]
    BY DEF SetToSeqs
  <1>3. s \in Seq(S) /\ Len(s) = Cardinality(S)
    BY <1>1, <1>2
  <1> QED BY <1>2, <1>3

(* A finite domain has a finite image.                                     *)
LEMMA FiniteImage ==
    ASSUME NEW f, IsFiniteSet(DOMAIN f)
    PROVE  IsFiniteSet({f[x] : x \in DOMAIN f})
  <1> DEFINE g == [x \in DOMAIN f |-> f[x]]
             T == {f[x] : x \in DOMAIN f}
  <1>1. g \in Surjection(DOMAIN f, T)
    BY DEF Surjection
  <1> QED BY <1>1, FS_Surjection

(* What a tick lists.                                                      *)
LEMMA DueListed ==
    ASSUME RowsOK, due # {}, NEW queue \in SetToSeqs({[id |-> s, due |-> nextDue[s]] : s \in due})
    PROVE  /\ queue \in Seq(Entry) /\ queue # <<>>
           /\ \A i \in DOMAIN queue : queue[i].id \in due /\ queue[i].due = nextDue[queue[i].id]
           /\ \A i, k \in DOMAIN queue : i # k => queue[i].id # queue[k].id
  <1> DEFINE entry(s) == [id |-> s, due |-> nextDue[s]]
             S == {entry(s) : s \in due}
  <1>1. due \subseteq Schedule
    BY DEF due, RowsOK
  <1>2. IsFiniteSet(S)
    <2> DEFINE f == [s \in due |-> entry(s)]
    <2>1. IsFiniteSet(due)
      BY <1>1, FS_Subset DEF SchedulerAssumption
    <2>2. DOMAIN f = due /\ S = {f[s] : s \in DOMAIN f}
      OBVIOUS
    <2> HIDE DEF f, S, entry
    <2> QED BY <2>1, <2>2, FiniteImage
  <1>3. \A x \in S : x \in Entry /\ x.id \in due /\ x.due = nextDue[x.id]
    BY <1>1 DEF Entry, RowsOK
  <1>4. \A x, y \in S : x # y => x.id # y.id
    OBVIOUS
  <1>5. S # {}
    OBVIOUS
  <1> HIDE DEF S
  <1>6. /\ queue \in Seq(S) /\ Len(queue) = Cardinality(S) /\ DOMAIN queue = 1..Cardinality(S)
        /\ \A i, k \in DOMAIN queue : i # k => queue[i] # queue[k]
    <2>1. queue \in SetToSeqs(S)
      BY DEF S
    <2> QED BY <1>2, <2>1, SeqOfSet
  <1>7. queue # <<>>
    <2>1. Cardinality(S) # 0
      BY <1>2, <1>5, FS_EmptySet
    <2> QED BY <1>6, <2>1, EmptySeq
  <1>8. \A i \in DOMAIN queue : queue[i] \in S
    BY <1>6, LenProperties
  <1>9. queue \in Seq(Entry)
    <2>1. S \subseteq Entry
      BY <1>3
    <2> QED BY <1>6, <2>1, SeqMonotonic
  <1> QED BY <1>3, <1>4, <1>6, <1>7, <1>8, <1>9

(* What startup puts back in memory: runs of rows that were interrupted.   *)
LEMMA PutBack ==
    ASSUME RowsOK, RestOK, NEW all \in SetToSeqs({lastJob[s] : s \in present} \intersect interrupted),
           started' = SubSeq(all, 1 + Cardinality(1..(Len(all) - Memory)), Len(all))
    PROVE  started' \in Seq(Job) /\ Range(started') \subseteq interrupted
  <1> DEFINE S == {lastJob[s] : s \in present} \intersect interrupted
             m == 1 + Cardinality(1..(Len(all) - Memory))
  <1>1. IsFiniteSet({lastJob[s] : s \in present})
    <2> DEFINE f == [s \in present |-> lastJob[s]]
               T == {lastJob[s] : s \in present}
    <2>1. IsFiniteSet(present)
      BY FS_Subset DEF SchedulerAssumption, RowsOK
    <2>2. DOMAIN f = present /\ T = {f[s] : s \in DOMAIN f}
      OBVIOUS
    <2> HIDE DEF f, T
    <2>3. IsFiniteSet(T)
      BY <2>1, <2>2, FiniteImage
    <2> QED BY <2>3 DEF T
  <1>2. IsFiniteSet(S)
    BY <1>1, FS_Intersection
  <1>3. S \subseteq interrupted /\ S \subseteq Job
    BY DEF RestOK
  <1>4. all \in SetToSeqs(S)
    OBVIOUS
  <1> HIDE DEF S
  <1>5. all \in Seq(S) /\ Len(all) \in Nat
    BY <1>2, <1>4, SeqOfSet
  <1>6. Len(all) - Memory \in Int
    BY <1>5 DEF SchedulerAssumption
  <1>7. m \in Int /\ m >= 1
    <2> DEFINE k == Len(all) - Memory
    <2>1. PICK a \in Int : a = 1
      OBVIOUS
    <2>2. k \in Int
      BY <1>6
    <2> HIDE DEF k
    <2>3. Cardinality(a..k) = IF a > k THEN 0 ELSE k - a + 1
      BY <2>2, FS_Interval
    <2>4. Cardinality(1..k) \in Nat
      BY <2>1, <2>2, <2>3
    <2>5. m = 1 + Cardinality(1..k)
      BY DEF k
    <2> HIDE DEF m
    <2> QED BY <2>4, <2>5
  <1> HIDE DEF m
  <1>8. started' = SubSeq(all, m, Len(all))
    BY DEF m
  <1>9. \A i \in m..Len(all) : all[i] \in S
    BY <1>5, <1>7
  <1>10. started' \in Seq(S)
    <2>1. Len(all) \in Int
      BY <1>5
    <2>2. SubSeq(all, m, Len(all)) \in Seq(S)
      BY <1>7, <1>9, <2>1, SubSeqProperties
    <2> QED BY <1>8, <2>2
  <1>11. Range(started') \subseteq S
    BY <1>10 DEF Range
  <1>12. started' \in Seq(Job)
    BY <1>3, <1>10, SeqMonotonic
  <1> QED BY <1>3, <1>11, <1>12

(* A job that can be staged is none yet.                                   *)
LEMMA NewJobIsNew ==
    ASSUME \E j \in Job : state[j] = "none"
    PROVE  newJob \in Job /\ state[newJob] = "none"
  BY DEF newJob

(* What is remembered once another job is: that one, and all but the       *)
(* oldest of the others.                                                   *)
LEMMA Remembers ==
    ASSUME RestOK, NEW j \in Job, NEW s, remember(j, s)
    PROVE  /\ started' \in Seq(Job) /\ dropped' \subseteq Job
           /\ dropped \subseteq dropped' /\ dropped' \subseteq dropped \union Range(started)
           /\ Range(started') \subseteq Range(started) \union {j} /\ j \in Range(started')
           /\ \A k \in Range(started) : k \in Range(started') \union dropped'
  <1>1. started \in Seq(Job) /\ Len(started) \in Nat
    BY DEF RestOK
  <1>2. Memory \in Nat \ {0}
    BY DEF SchedulerAssumption
  <1>3. CASE Len(started) >= Memory
    <2>1. started' = Append(Tail(started), j) /\ dropped' = dropped \union {Head(started)}
      BY <1>3 DEF remember
    <2>2. /\ Len(started) >= 1
          /\ Head(started) = started[1] /\ 1 \in DOMAIN started /\ started[1] \in Job
          /\ Tail(started) \in Seq(Job) /\ Len(Tail(started)) = Len(started) - 1
          /\ DOMAIN started = 1..Len(started)
          /\ \A i \in 1..(Len(started) - 1) : Tail(started)[i] = started[i + 1]
      BY <1>1, <1>2, <1>3
    <2>3. /\ started' \in Seq(Job) /\ DOMAIN started' = 1..Len(started)
          /\ started'[Len(started)] = j
          /\ \A i \in 1..(Len(started) - 1) : started'[i] = started[i + 1]
      BY <2>1, <2>2
    <2>4. Range(started') \subseteq Range(started) \union {j}
      <3>1. \A i \in DOMAIN started' : i = Len(started) \/ i \in 1..(Len(started) - 1)
        BY <1>1, <2>3
      <3>2. \A i \in 1..(Len(started) - 1) : i + 1 \in DOMAIN started
        BY <1>1, <2>2
      <3> QED BY <2>3, <3>1, <3>2 DEF Range
    <2>5. j \in Range(started')
      BY <1>1, <2>2, <2>3 DEF Range
    <2>6. \A i \in DOMAIN started : started[i] \in Range(started') \union dropped'
      <3> SUFFICES ASSUME NEW i \in DOMAIN started
                   PROVE  started[i] \in Range(started') \union dropped'
        OBVIOUS
      <3>1. CASE i = 1
        BY <2>1, <2>2, <3>1
      <3>2. CASE i # 1
        <4>1. i - 1 \in 1..(Len(started) - 1) /\ i - 1 \in DOMAIN started' /\ started'[i - 1] = started[i]
          BY <1>1, <2>2, <2>3, <3>2
        <4> QED BY <4>1 DEF Range
      <3> QED BY <3>1, <3>2
    <2>7. dropped' \subseteq Job
      BY <2>1, <2>2 DEF RestOK
    <2>8. Head(started) \in Range(started)
      BY <2>2 DEF Range
    <2>9. \A k \in Range(started) : k \in Range(started') \union dropped'
      BY <2>6 DEF Range
    <2> QED BY <2>1, <2>3, <2>4, <2>5, <2>7, <2>8, <2>9
  <1>4. CASE ~(Len(started) >= Memory)
    <2>1. started' = Append(started, j) /\ dropped' = dropped
      BY <1>4 DEF remember
    <2>2. /\ started' \in Seq(Job) /\ DOMAIN started' = 1..(Len(started) + 1) /\ DOMAIN started = 1..Len(started)
          /\ started'[Len(started) + 1] = j
          /\ \A i \in 1..Len(started) : started'[i] = started[i]
      BY <1>1, <2>1
    <2>3. Range(started') = Range(started) \union {j}
      BY <1>1, <2>2 DEF Range
    <2> QED BY <2>1, <2>2, <2>3 DEF RestOK
  <1> QED BY <1>3, <1>4
-----------------------------------------------------------------------------
(* None is no schedule and no job.                                         *)
LEMMA NoneApart == None \notin Schedule /\ None \notin Job
  BY DEF SchedulerAssumption

(* A marked row is a row, and so are the settled ones.                     *)
LEMMA RowsMarked ==
    ASSUME RowsOK, NEW s \in Schedule, NEW j \in Job \union {None}, NEW result \in Result, NEW d \in Nat,
           markScheduleRun(s, j, result, d), UNCHANGED <<present, enabled>>
    PROVE  RowsOK'
  <1>1. lastJob' \in [Schedule -> Job \union {None}]
    BY DEF RowsOK, markScheduleRun
  <1>2. lastResult' \in [Schedule -> Result]
    BY DEF RowsOK, markScheduleRun
  <1>3. nextDue' \in [Schedule -> Nat]
    BY DEF RowsOK, markScheduleRun
  <1> QED BY <1>1, <1>2, <1>3 DEF RowsOK

LEMMA RowsSettled ==
    ASSUME RowsOK, NEW J, settleScheduleRun(J), UNCHANGED <<present, enabled, nextDue, lastJob>>
    PROVE  RowsOK'
  <1>1. lastResult' \in [Schedule -> Result]
    BY DEF RowsOK, settleScheduleRun, Result
  <1> QED BY <1>1 DEF RowsOK

(* Only one thing of a job's row changes at a time.                        *)
LEMMA Moved ==
    ASSUME RestOK, NEW S, NEW from, NEW to, Move(S, from, to)
    PROVE  /\ web = "up" /\ web' = web
           /\ \A j \in Job : state'[j] = IF j \in S THEN to ELSE state[j]
           /\ \A j \in S : state[j] = from
           /\ to \in {"none", "awaiting"} \union Settled => state' \in [Job -> {"none", "awaiting"} \union Settled]
  <1>1. state' = [j \in Job |-> IF j \in S THEN to ELSE state[j]]
    BY DEF Move
  <1>2. web = "up" /\ web' = web /\ \A j \in S : state[j] = from
    BY DEF Move
  <1>3. to \in {"none", "awaiting"} \union Settled => state' \in [Job -> {"none", "awaiting"} \union Settled]
    BY <1>1 DEF RestOK
  <1> QED BY <1>1, <1>2, <1>3

(* A round that goes on to the next entry, or ends.                        *)
LEMMA RoundOKOnward ==
    ASSUME RoundOK, round.at # "idle", round' = onward, web' = web
    PROVE  RoundOK'
  <1>1. web = "up"
    BY DEF RoundOK
  <1>2. onward.at \in {"idle", "checking"} /\ onward.job = None
    BY RoundGoesOn
  <1>3. /\ onward \in Rounds
        /\ onward.at = "idle" <=> onward.queue = <<>>
        /\ \A i, k \in DOMAIN onward.queue : i # k => onward.queue[i].id # onward.queue[k].id
    BY RoundGoesOn
  <1> HIDE DEF onward
  <1> QED BY <1>1, <1>2, <1>3 DEF RoundOK

(* A round that ended is a round.                                          *)
LEMMA RoundOKEnded ==
    ASSUME round' = NoRound
    PROVE  RoundOK'
  <1>1. NoRound \in Rounds
    BY DEF NoRound, Rounds, At
  <1>2. NoRound.at = "idle" /\ NoRound.queue = <<>> /\ NoRound.job = None /\ DOMAIN NoRound.queue = {}
    BY DEF NoRound
  <1> QED BY <1>1, <1>2 DEF RoundOK

(* Every step keeps the type of the round, of the rows and of the rest.    *)
LEMMA RoundOKStep ==
    ASSUME SchedTypeOK, [SchedNext]_schedVars
    PROVE  RoundOK'
  <1>1. RoundOK /\ RowsOK /\ RestOK
    BY DEF SchedTypeOK
  <1>2. CASE UNCHANGED <<round, web>>
    BY <1>1, <1>2 DEF RoundOK
  <1>3. CASE tick
    <2>1. PICK queue \in SetToSeqs({[id |-> s, due |-> nextDue[s]] : s \in due}) :
               round' = [NoRound EXCEPT !.at = "checking", !.queue = queue]
      BY <1>3 DEF tick
    <2>2. due # {} /\ web' = "up"
      BY <1>3 DEF tick, lifeVars
    <2>3. /\ queue \in Seq(Entry) /\ queue # <<>>
          /\ \A i, k \in DOMAIN queue : i # k => queue[i].id # queue[k].id
      BY <1>1, <2>2, DueListed
    <2>4. round' \in Rounds /\ round'.at = "checking" /\ round'.queue = queue /\ round'.job = None
      BY <2>1, <2>3 DEF NoRound, Rounds, At
    <2> QED BY <2>2, <2>3, <2>4 DEF RoundOK
  <1>4. CASE round.at # "idle" /\ round' = onward /\ web' = web
    BY <1>1, <1>4, RoundOKOnward
  <1>5. CASE round' = NoRound
    BY <1>5, RoundOKEnded
  <1>6. CASE begin
    <2>1. /\ at("checking") /\ web' = web
          /\ round' = [round EXCEPT !.at = "staging", !.next = nextRun(current)]
      BY <1>6 DEF begin, lifeVars
    <2>2. round.at = "checking" /\ web = "up"
      BY <2>1 DEF at
    <2>3. nextRun(current) \in Nat
      BY <1>1, <2>2, RoundUnderWay, NextRunLater DEF SchedTypeOK
    <2>4. round' \in Rounds /\ round'.at = "staging" /\ round'.queue = round.queue /\ round'.job = round.job
      BY <1>1, <2>1, <2>3 DEF RoundOK, Rounds, At
    <2> QED BY <1>1, <2>1, <2>2, <2>4 DEF RoundOK
  <1>7. CASE stage
    <2>1. /\ at("staging") /\ Stage(newJob) /\ \E j \in Job : state[j] = "none"
          /\ round' = [round EXCEPT !.at = "approving", !.job = newJob]
      BY <1>7 DEF stage
    <2>2. round.at = "staging" /\ web = "up" /\ web' = "up"
      BY <2>1 DEF at, Stage, Move
    <2>3. newJob \in Job
      BY <2>1, NewJobIsNew
    <2>4. round' \in Rounds /\ round'.at = "approving" /\ round'.queue = round.queue /\ round'.job = newJob
      BY <1>1, <2>1, <2>3 DEF RoundOK, Rounds, At
    <2>5. newJob # None
      BY <2>3, NoneApart
    <2> QED BY <1>1, <2>2, <2>4, <2>5 DEF RoundOK
  <1>8. CASE approve
    <2>1. /\ at("approving") /\ Grant(round.job) /\ round' = [round EXCEPT !.at = "marking"]
      BY <1>8 DEF approve
    <2>2. round.at = "approving" /\ web = "up" /\ web' = "up"
      BY <2>1 DEF at, Grant, Move
    <2>3. round' \in Rounds /\ round'.at = "marking" /\ round'.queue = round.queue /\ round'.job = round.job
      BY <1>1, <2>1 DEF RoundOK, Rounds, At
    <2> QED BY <1>1, <2>2, <2>3 DEF RoundOK
  <1>9. CASE secretsUnread \/ didNotRun \/ stageFails \/ markStarted
    BY <1>4, <1>9 DEF secretsUnread, didNotRun, stageFails, markStarted, at, lifeVars
  <1>10. CASE pauseCarrying
    BY <1>4, <1>5, <1>10 DEF pauseCarrying, at, lifeVars
  <1>11. CASE approveFails
    BY <1>4, <1>11 DEF approveFails, at, lifeVars, Withdraw, Move
  <1>12. CASE stop
    BY <1>5, <1>12 DEF stop
  <1>13. ASSUME NEW j \in Job, approveByHand(j) \/ withdrawByHand(j) \/ jobEnds(j) \/ onJob(j)
         PROVE  UNCHANGED <<round, web>>
    BY <1>13 DEF approveByHand, withdrawByHand, jobEnds, onJob, Grant, Withdraw, Complete, Fail, Move, lifeVars
  <1>14. ASSUME NEW s \in Schedule, create(s) \/ remove(s) \/ \E on \in BOOLEAN : setEnabled(s, on)
         PROVE  UNCHANGED <<round, web>>
    BY <1>14 DEF create, remove, setEnabled, lifeVars
  <1>15. CASE recoverInterruptedJobs \/ recover
    <2>1. round.at = "idle" /\ round' = round
      BY <1>1, <1>15 DEF recoverInterruptedJobs, recover, Recover, Back, RoundOK
    <2> QED BY <1>1, <2>1 DEF RoundOK
  <1>16. CASE timePasses \/ UNCHANGED schedVars
    BY <1>2, <1>16 DEF timePasses, schedVars, lifeVars
  <1> QED BY <1>2, <1>3, <1>6, <1>7, <1>8, <1>9, <1>10, <1>11, <1>12, <1>13, <1>14, <1>15, <1>16 DEF SchedNext, RoundStep
-----------------------------------------------------------------------------
(* What a step of a round at its current entry starts from.                *)
LEMMA AtEntry ==
    ASSUME SchedTypeOK, NEW where \in At \ {"idle"}, at(where)
    PROVE  /\ round.at = where /\ web = "up"
           /\ current \in Schedule /\ current = round.queue[1].id /\ 1 \in DOMAIN round.queue
           /\ round.queue[1].due \in Nat /\ Head(round.queue) = round.queue[1]
           /\ round.next \in Nat /\ lastJob[current] \in Job \union {None}
           /\ nextRun(current) \in Nat /\ nextRun(current) > now
           /\ where \in {"approving", "marking"} => round.job \in Job
           /\ where \notin {"approving", "marking"} => round.job = None
  <1>1. round.at = where /\ web = "up" /\ where # "idle"
    BY DEF at
  <1>2. RoundOK /\ RowsOK
    BY DEF SchedTypeOK
  <1>3. /\ 1 \in DOMAIN round.queue /\ current = round.queue[1].id /\ Head(round.queue) = round.queue[1]
        /\ current \in Schedule /\ round.queue[1].due \in Nat
    BY <1>1, <1>2, RoundUnderWay
  <1>4. nextRun(current) \in Nat /\ nextRun(current) > now
    BY <1>3, NextRunLater
  <1>5. round.next \in Nat /\ round.job \in Job \union {None} /\ (round.job # None <=> where \in {"approving", "marking"})
    BY <1>1, <1>2 DEF RoundOK, Rounds
  <1>6. lastJob[current] \in Job \union {None}
    BY <1>2, <1>3 DEF RowsOK
  <1> QED BY <1>1, <1>3, <1>4, <1>5, <1>6

LEMMA RowsOKStep ==
    ASSUME SchedTypeOK, [SchedNext]_schedVars
    PROVE  RowsOK'
  <1>1. RoundOK /\ RowsOK /\ RestOK
    BY DEF SchedTypeOK
  <1>2. CASE UNCHANGED rowVars
    BY <1>1, <1>2 DEF RowsOK, rowVars
  <1>3. CASE tick \/ stage \/ approve \/ stop \/ recoverInterruptedJobs \/ timePasses \/ UNCHANGED schedVars
    BY <1>2, <1>3 DEF tick, stage, approve, stop, recoverInterruptedJobs, timePasses, schedVars
  <1>4. CASE secretsUnread \/ didNotRun
    <2>1. at("checking") /\ markScheduleRun(current, lastJob[current], "error", nextRun(current)) /\ UNCHANGED <<present, enabled>>
      BY <1>4 DEF secretsUnread, didNotRun
    <2> QED BY <1>1, <2>1, AtEntry, RowsMarked DEF At, Result
  <1>5. CASE begin
    <2>1. at("checking") /\ markScheduleRun(current, lastJob[current], "starting", nextRun(current)) /\ UNCHANGED <<present, enabled>>
      BY <1>5 DEF begin, startingDue
    <2> QED BY <1>1, <2>1, AtEntry, RowsMarked DEF At, Result
  <1>6. CASE stageFails
    <2>1. at("staging") /\ markScheduleRun(current, lastJob[current], "error", round.next) /\ UNCHANGED <<present, enabled>>
      BY <1>6 DEF stageFails
    <2> QED BY <1>1, <2>1, AtEntry, RowsMarked DEF At, Result
  <1>7. CASE approveFails
    <2>1. at("approving") /\ markScheduleRun(current, round.job, "error", round.next) /\ UNCHANGED <<present, enabled>>
      BY <1>7 DEF approveFails
    <2> QED BY <1>1, <2>1, AtEntry, RowsMarked DEF At, Result
  <1>8. CASE markStarted
    <2> DEFINE result == IF endedAlready(round.job) THEN "ended" ELSE "started"
    <2>1. at("marking") /\ markScheduleRun(current, round.job, result, round.next) /\ UNCHANGED <<present, enabled>>
      BY <1>8 DEF markStarted
    <2>2. result \in Result
      BY DEF Result
    <2> HIDE DEF result
    <2> QED BY <1>1, <2>1, <2>2, AtEntry, RowsMarked DEF At
  <1>9. CASE pauseCarrying
    <2>1. at("checking") /\ UNCHANGED <<present, nextDue, lastJob>> /\ enabled' \subseteq enabled
          /\ (lastResult' = lastResult \/ lastResult' = [lastResult EXCEPT ![current] = "paused"])
      BY <1>9 DEF pauseCarrying
    <2>2. lastResult' \in [Schedule -> Result]
      BY <1>1, <2>1 DEF RowsOK, Result
    <2> QED BY <1>1, <2>1, <2>2 DEF RowsOK
  <1>10. ASSUME NEW s \in Schedule, create(s)
         PROVE  RowsOK'
    <2>1. nextRun(s) \in Nat
      BY NextRunLater
    <2>2. nextDue' \in [Schedule -> Nat]
      BY <1>1, <1>10, <2>1 DEF create, RowsOK
    <2>3. lastResult' \in [Schedule -> Result]
      BY <1>1, <1>10 DEF create, RowsOK, Result
    <2> QED BY <1>1, <1>10, <2>2, <2>3 DEF create, RowsOK
  <1>11. ASSUME NEW s \in Schedule, NEW on \in BOOLEAN, setEnabled(s, on)
         PROVE  RowsOK'
    <2>1. nextRun(s) \in Nat
      BY NextRunLater
    <2>2. nextDue' \in [Schedule -> Nat]
      BY <1>1, <1>11, <2>1 DEF setEnabled, RowsOK
    <2>3. enabled' \subseteq present /\ UNCHANGED <<present, lastJob, lastResult>>
      BY <1>1, <1>11 DEF setEnabled, RowsOK
    <2> QED BY <1>1, <2>2, <2>3 DEF RowsOK
  <1>12. ASSUME NEW s \in Schedule, remove(s)
         PROVE  RowsOK'
    BY <1>1, <1>12 DEF remove, RowsOK
  <1>13. ASSUME NEW j \in Job, approveByHand(j) \/ withdrawByHand(j) \/ jobEnds(j)
         PROVE  RowsOK'
    BY <1>2, <1>13 DEF approveByHand, withdrawByHand, jobEnds
  <1>14. ASSUME NEW j \in Job, onJob(j)
         PROVE  RowsOK'
    <2>1. UNCHANGED <<present, enabled, nextDue, lastJob>> /\ (settleScheduleRun({j}) \/ lastResult' = lastResult)
      BY <1>14 DEF onJob
    <2>2. CASE settleScheduleRun({j})
      BY <1>1, <2>1, <2>2, RowsSettled
    <2>3. CASE lastResult' = lastResult
      BY <1>2, <2>1, <2>3 DEF rowVars
    <2> QED BY <2>1, <2>2, <2>3
  <1>15. CASE recover
    <2>1. UNCHANGED <<present, enabled, nextDue, lastJob>> /\ settleScheduleRun(interrupted)
      BY <1>15 DEF recover
    <2> QED BY <1>1, <2>1, RowsSettled
  <1> QED BY <1>3, <1>4, <1>5, <1>6, <1>7, <1>8, <1>9, <1>10, <1>11, <1>12, <1>13, <1>14, <1>15 DEF SchedNext, RoundStep

LEMMA RestOKStep ==
    ASSUME SchedTypeOK, [SchedNext]_schedVars
    PROVE  RestOK'
  <1>1. RoundOK /\ RowsOK /\ RestOK
    BY DEF SchedTypeOK
  <1>2. CASE UNCHANGED <<lifeVars, memoryVars, now, recordVars>>
    BY <1>1, <1>2 DEF RestOK, lifeVars, memoryVars, recordVars
  <1>3. CASE tick \/ secretsUnread \/ pauseCarrying \/ begin \/ didNotRun \/ stageFails \/ markStarted \/ UNCHANGED schedVars
    BY <1>2, <1>3 DEF tick, secretsUnread, pauseCarrying, begin, didNotRun, stageFails, markStarted, boundVars, schedVars
  <1>4. ASSUME NEW s \in Schedule, create(s) \/ remove(s) \/ \E on \in BOOLEAN : setEnabled(s, on)
        PROVE  RestOK'
    BY <1>2, <1>4 DEF create, remove, setEnabled, edit, boundVars
  <1>5. CASE timePasses
    BY <1>1, <1>5 DEF RestOK, timePasses, lifeVars, memoryVars, recordVars
  <1>6. CASE stage
    <2>1. /\ newJob \in Job /\ current \in Schedule /\ Head(round.queue).due \in Nat
          /\ Stage(newJob) /\ remember(newJob, current)
      BY <1>6, NewJobIsNew, AtEntry DEF stage, At
    <2>2. /\ jobOf' = [jobOf EXCEPT ![newJob] = current] /\ dueOf' = [dueOf EXCEPT ![newJob] = Head(round.queue).due]
          /\ UNCHANGED <<pending, interrupted, now, byHand, orphans, forgotten, told>>
      BY <1>6 DEF stage, boundVars
    <2>3. started' \in Seq(Job) /\ dropped' \subseteq Job
      BY <1>1, <2>1, Remembers
    <2>4. owner' = [owner EXCEPT ![newJob] = current]
      BY <2>1 DEF remember
    <2> HIDE DEF newJob, current
    <2>5. owner' \in [Job -> Schedule \union {None}]
      BY <1>1, <2>1, <2>4 DEF RestOK
    <2>6. jobOf' \in [Job -> Schedule \union {None}] /\ dueOf' \in [Job -> Nat]
      BY <1>1, <2>1, <2>2 DEF RestOK
    <2>7. web' = web /\ state' \in [Job -> {"none", "awaiting"} \union Settled]
      BY <1>1, <2>1, Moved DEF Stage
    <2> QED BY <1>1, <2>2, <2>3, <2>5, <2>6, <2>7 DEF RestOK
  <1>7. CASE approve
    <2>1. Grant(round.job) /\ UNCHANGED <<memoryVars, now, recordVars>>
      BY <1>7 DEF approve, boundVars
    <2>2. web' = web /\ state' \in [Job -> {"none", "awaiting"} \union Settled]
      BY <1>1, <2>1, Moved DEF Grant, Settled
    <2> QED BY <1>1, <2>1, <2>2 DEF RestOK, memoryVars, recordVars
  <1>8. CASE approveFails
    <2>1. round.job \in Job
      BY <1>8, AtEntry DEF approveFails, At
    <2>2. /\ Withdraw({round.job}) \/ UNCHANGED lifeVars
          /\ pending' \subseteq pending \union {round.job}
          /\ owner' = [owner EXCEPT ![round.job] = None]
          /\ started' = IF round.job \in Range(started) THEN started ELSE Append(started, round.job)
          /\ UNCHANGED <<interrupted, now, recordVars>>
      BY <1>8 DEF approveFails, boundVars
    <2>3. web' = web /\ state' \in [Job -> {"none", "awaiting"} \union Settled]
      <3>1. CASE Withdraw({round.job})
        BY <1>1, <3>1, Moved DEF Withdraw, Settled
      <3>2. CASE UNCHANGED lifeVars
        BY <1>1, <3>2 DEF lifeVars, RestOK
      <3> QED BY <2>2, <3>1, <3>2
    <2>4. started' \in Seq(Job)
      BY <1>1, <2>1, <2>2 DEF RestOK
    <2>5. owner' \in [Job -> Schedule \union {None}]
      BY <1>1, <2>2 DEF RestOK
    <2> QED BY <1>1, <2>1, <2>2, <2>3, <2>4, <2>5 DEF RestOK, recordVars
  <1>9. ASSUME NEW j \in Job, approveByHand(j)
        PROVE  RestOK'
    <2>1. Grant(j) /\ byHand' = byHand \union {j} /\ UNCHANGED <<memoryVars, now, jobOf, dueOf, orphans, dropped, forgotten, told>>
      BY <1>9 DEF approveByHand, edit
    <2>2. web' = web /\ state' \in [Job -> {"none", "awaiting"} \union Settled]
      BY <1>1, <2>1, Moved DEF Grant, Settled
    <2> QED BY <1>1, <2>1, <2>2 DEF RestOK, memoryVars
  <1>10. ASSUME NEW j \in Job, withdrawByHand(j) \/ jobEnds(j)
         PROVE  RestOK'
    <2>1. /\ Withdraw({j}) \/ Complete(j) \/ Fail(j)
          /\ pending' = pending \union {j} /\ UNCHANGED <<started, owner, interrupted, now, recordVars>>
      BY <1>10 DEF withdrawByHand, jobEnds, edit, boundVars
    <2>2. web' = web /\ state' \in [Job -> {"none", "awaiting"} \union Settled]
      <3>1. CASE Withdraw({j})
        BY <1>1, <3>1, Moved DEF Withdraw, Settled
      <3>2. CASE Complete(j)
        BY <1>1, <3>2, Moved DEF Complete, Settled
      <3>3. CASE Fail(j)
        BY <1>1, <3>3, Moved DEF Fail, Settled
      <3> QED BY <2>1, <3>1, <3>2, <3>3
    <2> QED BY <1>1, <2>1, <2>2 DEF RestOK, recordVars
  <1>11. ASSUME NEW j \in Job, onJob(j)
         PROVE  RestOK'
    <2> DEFINE v == IF owns(j) THEN None ELSE owner[j]
               tells == state[j] = "failed" /\ (~owns(j) \/ ((owns(j) /\ owner[j] # None) /\ owner[j] \in present))
               n == IF tells THEN told[j] + 1 ELSE told[j]
    <2>1. /\ UNCHANGED <<lifeVars, started, interrupted, now, jobOf, dueOf, byHand, orphans, dropped, forgotten>>
          /\ pending' = pending \ {j}
          /\ owner' = [owner EXCEPT ![j] = v] /\ told' = [told EXCEPT ![j] = n]
      BY <1>11 DEF onJob, boundVars
    <2>2. v \in Schedule \union {None} /\ n \in Nat
      BY <1>1 DEF RestOK
    <2> HIDE DEF v, n, tells
    <2>3. owner' \in [Job -> Schedule \union {None}] /\ told' \in [Job -> Nat]
      BY <1>1, <2>1, <2>2 DEF RestOK
    <2> QED BY <1>1, <2>1, <2>3 DEF RestOK, lifeVars
  <1>12. CASE stop
    <2>1. /\ web' = "down" /\ state' = state /\ started' = <<>> /\ owner' = [j \in Job |-> None]
          /\ pending' = {} /\ interrupted' = {}
          /\ orphans' = IF round.job = None THEN orphans ELSE orphans \union {round.job}
          /\ forgotten' = forgotten \union pending \union interrupted
          /\ UNCHANGED <<now, jobOf, dueOf, byHand, dropped, told>>
      BY <1>12 DEF stop, Die
    <2>2. round.job \in Job \union {None}
      BY <1>1 DEF RoundOK, Rounds
    <2>3. orphans' \subseteq Job
      BY <1>1, <2>1, <2>2 DEF RestOK
    <2>4. started' \in Seq(Job)
      BY <2>1
    <2>5. owner' \in [Job -> Schedule \union {None}]
      BY <2>1
    <2> QED BY <1>1, <2>1, <2>3, <2>4, <2>5 DEF RestOK
  <1>13. CASE recoverInterruptedJobs
    <2>1. /\ web' = "recovering" /\ interrupted' = activeJobs
          /\ state' = [j \in Job |-> IF j \in activeJobs THEN "failed" ELSE state[j]]
          /\ UNCHANGED <<started, owner, pending, now, recordVars>>
      BY <1>13 DEF recoverInterruptedJobs, Recover, boundVars
    <2>2. state' \in [Job -> {"none", "awaiting"} \union Settled]
      BY <1>1, <2>1 DEF RestOK, Settled
    <2>3. activeJobs \subseteq Job
      BY DEF activeJobs
    <2> QED BY <1>1, <2>1, <2>2, <2>3 DEF RestOK, recordVars
  <1>14. CASE recover
    <2>1. /\ web' = "up" /\ state' = state /\ interrupted' = {}
          /\ \E all \in SetToSeqs({lastJob[s] : s \in present} \intersect interrupted) :
                started' = SubSeq(all, 1 + Cardinality(1..(Len(all) - Memory)), Len(all))
          /\ told' = [j \in Job |-> told[j] + Cardinality({s \in present : lastJob[s] = j /\ j \in interrupted})
                                            + (IF j \in others(interrupted) THEN 1 ELSE 0)]
          /\ UNCHANGED <<owner, pending, now, jobOf, dueOf, byHand, orphans, dropped, forgotten>>
      BY <1>14 DEF recover, Back, boundVars
    <2>2. started' \in Seq(Job)
      BY <1>1, <2>1, PutBack
    <2>3. \A j : Cardinality({s \in present : lastJob[s] = j /\ j \in interrupted}) \in Nat
      <3>1. IsFiniteSet(present)
        BY <1>1, FS_Subset DEF SchedulerAssumption, RowsOK
      <3>2. \A T : T \subseteq present => Cardinality(T) \in Nat
        BY <3>1, FS_Subset, FS_CardinalityType
      <3> QED BY <3>2
    <2>4. told' \in [Job -> Nat]
      <3> DEFINE n(j) == Cardinality({s \in present : lastJob[s] = j /\ j \in interrupted})
                 b(j) == IF j \in others(interrupted) THEN 1 ELSE 0
      <3>1. told' = [j \in Job |-> told[j] + n(j) + b(j)]
        BY <2>1
      <3>2. \A j \in Job : n(j) \in Nat /\ b(j) \in Nat /\ told[j] \in Nat
        BY <1>1, <2>3 DEF RestOK
      <3> HIDE DEF n, b
      <3> QED BY <3>1, <3>2
    <2> QED BY <1>1, <2>1, <2>2, <2>4 DEF RestOK
  <1> QED BY <1>3, <1>4, <1>5, <1>6, <1>7, <1>8, <1>9, <1>10, <1>11, <1>12, <1>13, <1>14 DEF SchedNext, RoundStep

(* The type invariant holds at first, and every step keeps it.             *)
LEMMA TypeInit ==
    ASSUME SchedInit
    PROVE  SchedTypeOK
  <1>1. RoundOK
    BY RoundOKEnded DEF SchedInit, RoundOK, Rounds, At, NoRound
  <1>2. RowsOK /\ RestOK
    BY DEF SchedInit, LifeInit, RowsOK, RestOK, Result
  <1> QED BY <1>1, <1>2 DEF SchedTypeOK

LEMMA TypeStep ==
    ASSUME SchedTypeOK, [SchedNext]_schedVars
    PROVE  SchedTypeOK'
  BY RoundOKStep, RowsOKStep, RestOKStep DEF SchedTypeOK
-----------------------------------------------------------------------------
(* What a step may do to a job's row.                                      *)
JobMoves(j) ==
    \/ state'[j] = state[j]
    \/ stage /\ j = newJob /\ state[j] = "none" /\ state'[j] = "awaiting"
    \/ ((approve /\ j = round.job) \/ approveByHand(j)) /\ state[j] = "awaiting" /\ state'[j] = "active"
    \/ state[j] = "awaiting" /\ state'[j] = "cancelled" /\ web = "up"
    \/ state[j] = "active" /\ state'[j] \in {"completed", "failed"}

(* Every step moves a job as JobMoves says.                                *)
LEMMA StateMoves ==
    ASSUME SchedTypeOK, [SchedNext]_schedVars, NEW j \in Job
    PROVE  JobMoves(j)
  <1>1. RestOK
    BY DEF SchedTypeOK
  <1>2. CASE UNCHANGED lifeVars
    BY <1>2 DEF JobMoves, lifeVars
  <1>3. CASE \/ tick \/ secretsUnread \/ pauseCarrying \/ begin \/ didNotRun \/ stageFails \/ markStarted \/ timePasses
             \/ UNCHANGED schedVars
    BY <1>2, <1>3 DEF tick, secretsUnread, pauseCarrying, begin, didNotRun, stageFails, markStarted, timePasses, schedVars
  <1>4. ASSUME NEW s \in Schedule, create(s) \/ remove(s) \/ \E on \in BOOLEAN : setEnabled(s, on)
        PROVE  JobMoves(j)
    BY <1>2, <1>4 DEF create, remove, setEnabled
  <1>5. ASSUME NEW k \in Job, onJob(k)
        PROVE  JobMoves(j)
    BY <1>2, <1>5 DEF onJob
  <1>6. CASE stage
    <2>1. Stage(newJob)
      BY <1>6 DEF stage
    <2> HIDE DEF newJob
    <2>2. state'[j] = IF j = newJob THEN "awaiting" ELSE state[j]
      BY <1>1, <2>1, Moved DEF Stage
    <2>3. state[newJob] = "none"
      BY <1>1, <2>1, Moved DEF Stage
    <2> QED BY <1>6, <2>2, <2>3 DEF JobMoves
  <1>7. CASE approve
    <2>1. Grant(round.job)
      BY <1>7 DEF approve
    <2>2. state'[j] = (IF j = round.job THEN "active" ELSE state[j]) /\ state[round.job] = "awaiting"
      BY <1>1, <2>1, Moved DEF Grant
    <2> QED BY <1>7, <2>2 DEF JobMoves
  <1>8. CASE approveFails
    <2>1. CASE Withdraw({round.job})
      BY <1>1, <2>1, Moved DEF Withdraw, JobMoves
    <2>2. CASE UNCHANGED lifeVars
      BY <1>2, <2>2
    <2> QED BY <1>8, <2>1, <2>2 DEF approveFails
  <1>9. ASSUME NEW k \in Job, approveByHand(k)
        PROVE  JobMoves(j)
    <2>1. Grant(k)
      BY <1>9 DEF approveByHand
    <2>2. state'[j] = (IF j = k THEN "active" ELSE state[j]) /\ state[k] = "awaiting"
      BY <1>1, <2>1, Moved DEF Grant
    <2> QED BY <1>9, <2>2 DEF JobMoves
  <1>10. ASSUME NEW k \in Job, withdrawByHand(k)
         PROVE  JobMoves(j)
    <2>1. Withdraw({k})
      BY <1>10 DEF withdrawByHand
    <2> QED BY <1>1, <2>1, Moved DEF Withdraw, JobMoves
  <1>11. ASSUME NEW k \in Job, jobEnds(k)
         PROVE  JobMoves(j)
    <2>1. CASE Complete(k)
      BY <1>1, <2>1, Moved DEF Complete, JobMoves
    <2>2. CASE Fail(k)
      BY <1>1, <2>2, Moved DEF Fail, JobMoves
    <2> QED BY <1>11, <2>1, <2>2 DEF jobEnds
  <1>12. CASE stop \/ recover
    BY <1>12 DEF stop, recover, Die, Back, JobMoves
  <1>13. CASE recoverInterruptedJobs
    BY <1>13 DEF recoverInterruptedJobs, Recover, activeJobs, JobMoves
  <1> QED BY <1>3, <1>4, <1>5, <1>6, <1>7, <1>8, <1>9, <1>10, <1>11, <1>12, <1>13 DEF SchedNext, RoundStep

(* What a step may do to the round.                                        *)
Begins == at("checking") /\ ~previousActive(current) /\ round' = [round EXCEPT !.at = "staging", !.next = nextRun(current)]
Stages == /\ at("staging") /\ newJob \in Job /\ state[newJob] = "none"
          /\ round' = [round EXCEPT !.at = "approving", !.job = newJob]
Approves == at("approving") /\ round' = [round EXCEPT !.at = "marking"]

(* Every step moves the round as one of these does.                        *)
LEMMA RoundMoves ==
    ASSUME [SchedNext]_schedVars
    PROVE  \/ round' = round
           \/ round' = NoRound
           \/ round.at # "idle" /\ web = "up" /\ round' = onward
           \/ tick
           \/ begin /\ Begins
           \/ stage /\ Stages
           \/ approve /\ Approves
  <1>1. CASE secretsUnread \/ didNotRun \/ stageFails \/ approveFails \/ markStarted
    BY <1>1 DEF secretsUnread, didNotRun, stageFails, approveFails, markStarted, at
  <1>2. CASE pauseCarrying
    BY <1>2 DEF pauseCarrying, at
  <1>3. CASE begin
    BY <1>3 DEF begin, Begins
  <1>4. CASE stage
    BY <1>4, NewJobIsNew DEF stage, Stages
  <1>5. CASE approve
    BY <1>5 DEF approve, Approves
  <1>6. CASE stop
    BY <1>6 DEF stop
  <1>7. CASE recoverInterruptedJobs \/ recover \/ timePasses \/ UNCHANGED schedVars
    BY <1>7 DEF recoverInterruptedJobs, recover, timePasses, schedVars
  <1>8. ASSUME NEW j \in Job, approveByHand(j) \/ withdrawByHand(j) \/ jobEnds(j) \/ onJob(j)
        PROVE  round' = round
    BY <1>8 DEF approveByHand, withdrawByHand, jobEnds, onJob
  <1>9. ASSUME NEW s \in Schedule, create(s) \/ remove(s) \/ \E on \in BOOLEAN : setEnabled(s, on)
        PROVE  round' = round
    BY <1>9 DEF create, remove, setEnabled
  <1> QED BY <1>1, <1>2, <1>3, <1>4, <1>5, <1>6, <1>7, <1>8, <1>9 DEF SchedNext, RoundStep

(* What a step may do to a schedule's row: it is created; or its next run  *)
(* is computed or taken from the round; or its last job is the round's.    *)
RowMoves(s) ==
    /\ lastResult[s] # "new" => lastResult'[s] # "new"
    /\ s \in present' => \/ s \in present
                         \/ web = "up" /\ lastResult[s] = "new" /\ lastResult'[s] = "none" /\ nextDue'[s] = nextRun(s)
    /\ \/ nextDue'[s] = nextDue[s]
       \/ nextDue'[s] = nextRun(s)
       \/ /\ round.at \in {"staging", "approving", "marking"} /\ round' = onward
          /\ s = current /\ nextDue'[s] = round.next
    /\ \/ lastJob'[s] = lastJob[s]
       \/ /\ round.at \in {"approving", "marking"} /\ round' = onward /\ s \in present
          /\ s = current /\ lastJob'[s] = round.job

(* Every step moves a row as RowMoves says.                                *)
LEMMA RowMovesStep ==
    ASSUME SchedTypeOK, [SchedNext]_schedVars, NEW s \in Schedule
    PROVE  RowMoves(s)
  <1>1. RowsOK
    BY DEF SchedTypeOK
  <1>2. CASE UNCHANGED rowVars
    BY <1>2 DEF RowMoves, rowVars
  <1>3. CASE tick \/ stage \/ approve \/ stop \/ recoverInterruptedJobs \/ timePasses \/ UNCHANGED schedVars
    BY <1>2, <1>3 DEF tick, stage, approve, stop, recoverInterruptedJobs, timePasses, schedVars
  <1>4. ASSUME NEW j, NEW result \in Result \ {"new"}, NEW d, markScheduleRun(current, j, result, d), UNCHANGED present
        PROVE  /\ lastResult[s] # "new" => lastResult'[s] # "new"
               /\ s \in present' => s \in present
               /\ nextDue'[s] = nextDue[s] \/ (s = current /\ nextDue'[s] = d)
               /\ lastJob'[s] = lastJob[s] \/ (s \in present /\ s = current /\ lastJob'[s] = j)
    <2>1. /\ nextDue'[s] = IF s = current /\ s \in present THEN d ELSE nextDue[s]
          /\ lastJob'[s] = IF s = current /\ s \in present THEN j ELSE lastJob[s]
          /\ lastResult'[s] = IF s = current /\ s \in present THEN result ELSE lastResult[s]
      BY <1>1, <1>4 DEF markScheduleRun, RowsOK
    <2> QED BY <1>4, <2>1
  <1>5. CASE secretsUnread \/ didNotRun
    <2>1. markScheduleRun(current, lastJob[current], "error", nextRun(current)) /\ UNCHANGED present
      BY <1>5 DEF secretsUnread, didNotRun
    <2> QED BY <1>4, <2>1 DEF RowMoves, Result
  <1>6. CASE begin
    <2>1. markScheduleRun(current, lastJob[current], "starting", nextRun(current)) /\ UNCHANGED present
      BY <1>6 DEF begin, startingDue
    <2> QED BY <1>4, <2>1 DEF RowMoves, Result
  <1>7. CASE stageFails
    <2>1. round.at = "staging" /\ markScheduleRun(current, lastJob[current], "error", round.next) /\ UNCHANGED present /\ round' = onward
      BY <1>7 DEF stageFails, at
    <2> QED BY <1>4, <2>1 DEF RowMoves, Result
  <1>8. CASE approveFails
    <2>1. round.at = "approving" /\ markScheduleRun(current, round.job, "error", round.next) /\ UNCHANGED present /\ round' = onward
      BY <1>8 DEF approveFails, at
    <2> QED BY <1>4, <2>1 DEF RowMoves, Result
  <1>9. CASE markStarted
    <2> DEFINE result == IF endedAlready(round.job) THEN "ended" ELSE "started"
    <2>1. round.at = "marking" /\ markScheduleRun(current, round.job, result, round.next) /\ UNCHANGED present /\ round' = onward
      BY <1>9 DEF markStarted, at
    <2>2. result \in Result \ {"new"}
      BY DEF Result
    <2> HIDE DEF result
    <2> QED BY <1>4, <2>1, <2>2 DEF RowMoves
  <1>10. CASE pauseCarrying
    <2>1. UNCHANGED <<present, nextDue, lastJob>>
          /\ (lastResult' = lastResult \/ lastResult' = [lastResult EXCEPT ![current] = "paused"])
      BY <1>10 DEF pauseCarrying
    <2>2. lastResult[s] # "new" => lastResult'[s] # "new"
      BY <1>1, <2>1 DEF RowsOK
    <2> QED BY <2>1, <2>2 DEF RowMoves
  <1>11. ASSUME NEW r \in Schedule, create(r)
         PROVE  RowMoves(s)
    <2>1. /\ web = "up" /\ lastResult[r] = "new" /\ present' = present \union {r} /\ lastJob' = lastJob
          /\ nextDue'[s] = IF s = r THEN nextRun(r) ELSE nextDue[s]
          /\ lastResult'[s] = IF s = r THEN "none" ELSE lastResult[s]
      BY <1>1, <1>11 DEF create, RowsOK
    <2> QED BY <2>1 DEF RowMoves
  <1>12. ASSUME NEW r \in Schedule, NEW on \in BOOLEAN, setEnabled(r, on)
         PROVE  RowMoves(s)
    <2>1. /\ UNCHANGED <<present, lastJob, lastResult>>
          /\ nextDue'[s] = IF s = r /\ on THEN nextRun(r) ELSE nextDue[s]
      BY <1>1, <1>12 DEF setEnabled, RowsOK
    <2> QED BY <2>1 DEF RowMoves
  <1>13. ASSUME NEW r \in Schedule, remove(r)
         PROVE  RowMoves(s)
    BY <1>13 DEF remove, RowMoves
  <1>14. ASSUME NEW j \in Job, approveByHand(j) \/ withdrawByHand(j) \/ jobEnds(j)
         PROVE  RowMoves(s)
    BY <1>2, <1>14 DEF approveByHand, withdrawByHand, jobEnds
  <1>15. ASSUME NEW J, settleScheduleRun(J), UNCHANGED <<present, nextDue, lastJob>>
         PROVE  RowMoves(s)
    BY <1>1, <1>15 DEF settleScheduleRun, RowsOK, RowMoves
  <1>16. ASSUME NEW j \in Job, onJob(j)
         PROVE  RowMoves(s)
    <2>1. UNCHANGED <<present, enabled, nextDue, lastJob>> /\ (settleScheduleRun({j}) \/ lastResult' = lastResult)
      BY <1>16 DEF onJob
    <2> QED BY <1>2, <1>15, <2>1 DEF rowVars
  <1>17. CASE recover
    BY <1>15, <1>17 DEF recover
  <1> QED BY <1>3, <1>5, <1>6, <1>7, <1>8, <1>9, <1>10, <1>11, <1>12, <1>13, <1>14, <1>16, <1>17 DEF SchedNext, RoundStep

(* What a step may do to the records of which job is whose.                *)
LEMMA RecordMoves ==
    ASSUME SchedTypeOK, [SchedNext]_schedVars
    PROVE  /\ \/ UNCHANGED <<jobOf, dueOf>>
              \/ /\ stage /\ newJob \in Job /\ jobOf' = [jobOf EXCEPT ![newJob] = current]
                 /\ dueOf' = [dueOf EXCEPT ![newJob] = Head(round.queue).due]
           /\ \/ orphans' = orphans
              \/ round' = NoRound /\ round.job # None /\ orphans' = orphans \union {round.job}
           /\ round.job # None /\ round' = NoRound => round.job \in orphans' \/ round' = onward
           /\ now' = now \/ now' = now + 1
  <1>1. CASE UNCHANGED <<jobOf, dueOf, orphans, now, round>>
    <2>1. round.job # None => round # NoRound
      BY DEF NoRound
    <2> QED BY <1>1, <2>1
  <1>2. CASE \/ secretsUnread \/ didNotRun \/ stageFails \/ approveFails \/ markStarted
    BY <1>2 DEF secretsUnread, didNotRun, stageFails, approveFails, markStarted, boundVars, recordVars
  <1>3. CASE pauseCarrying
    <2>1. round.job = None
      BY <1>3, AtEntry DEF pauseCarrying, At
    <2> QED BY <1>3, <2>1 DEF pauseCarrying, boundVars, recordVars
  <1>4. CASE tick \/ begin
    <2>1. round.job = None
      BY <1>4, AtEntry DEF begin, At, tick, SchedTypeOK, RoundOK
    <2> QED BY <1>4, <2>1 DEF tick, begin, boundVars, recordVars
  <1>5. CASE stage
    <2>1. round.job = None
      BY <1>5, AtEntry DEF stage, At
    <2> QED BY <1>5, <2>1, NewJobIsNew DEF stage, boundVars
  <1>6. CASE approve
    <2>1. round'.at # "idle"
      BY <1>6 DEF approve, SchedTypeOK, RoundOK, Rounds
    <2> QED BY <1>6, <2>1 DEF approve, boundVars, recordVars, NoRound
  <1>7. CASE stop
    BY <1>7 DEF stop
  <1>8. CASE recoverInterruptedJobs \/ recover \/ UNCHANGED schedVars
    BY <1>1, <1>8 DEF recoverInterruptedJobs, recover, schedVars, boundVars, recordVars
  <1>9. CASE timePasses
    <2>1. round.job # None => round # NoRound
      BY DEF NoRound
    <2> QED BY <1>9, <2>1 DEF timePasses, recordVars
  <1>10. ASSUME NEW j \in Job, approveByHand(j) \/ withdrawByHand(j) \/ jobEnds(j) \/ onJob(j)
         PROVE  UNCHANGED <<jobOf, dueOf, orphans, now, round>>
    BY <1>10 DEF approveByHand, withdrawByHand, jobEnds, onJob, edit, boundVars, recordVars
  <1>11. ASSUME NEW s \in Schedule, create(s) \/ remove(s) \/ \E on \in BOOLEAN : setEnabled(s, on)
         PROVE  UNCHANGED <<jobOf, dueOf, orphans, now, round>>
    BY <1>11 DEF create, remove, setEnabled, edit, boundVars, recordVars
  <1> QED BY <1>1, <1>2, <1>3, <1>4, <1>5, <1>6, <1>7, <1>8, <1>9, <1>10, <1>11 DEF SchedNext, RoundStep
-----------------------------------------------------------------------------
starts == round.at \in {"staging", "approving", "marking"}
queued(s) == \E i \in DOMAIN round.queue : round.queue[i].id = s

(* Which job is whose.                                                     *)
RowInv ==
    /\ \A s \in present : lastResult[s] # "new"
    /\ \A i \in DOMAIN round.queue : lastResult[round.queue[i].id] # "new"
    /\ \A s \in Schedule : lastJob[s] # None => jobOf[lastJob[s]] = s /\ state[lastJob[s]] \in Settled
    /\ \A j \in Job : /\ jobOf[j] = None <=> state[j] = "none"
                      /\ jobOf[j] # None => lastResult[jobOf[j]] # "new"
                      /\ j \in orphans => state[j] # "none"
    /\ round.job # None => /\ jobOf[round.job] = round.queue[1].id /\ round.job \notin orphans
                           /\ round.at = "marking" => state[round.job] \in Settled

(* The queue: a tick lists what is due; nothing else adds to it.           *)
LEMMA QueueMoves ==
    ASSUME SchedTypeOK, [SchedNext]_schedVars, NEW i \in DOMAIN round'.queue
    PROVE  /\ round'.queue[i].id \in Schedule /\ round'.queue[i].due \in Nat
           /\ \/ /\ tick /\ round'.queue[i].id \in due /\ round'.queue[i].due = nextDue[round'.queue[i].id]
                 /\ round.at = "idle" /\ round'.at = "checking" /\ round'.job = None
              \/ /\ round' = onward /\ round.at # "idle" /\ i + 1 \in DOMAIN round.queue
                 /\ round'.queue[i] = round.queue[i + 1] /\ round'.queue[i].id # current
              \/ i \in DOMAIN round.queue /\ round'.queue = round.queue /\ (round' = round \/ starts')
  <1>1. RoundOK /\ RowsOK
    BY DEF SchedTypeOK
  <1>2. round'.queue[i].id \in Schedule /\ round'.queue[i].due \in Nat
    <2>1. round'.queue \in Seq(Entry)
      BY RoundOKStep DEF RoundOK, Rounds
    <2>2. round'.queue[i] \in Entry
      BY <2>1
    <2> QED BY <2>2 DEF Entry
  <1>3. CASE round' = round
    BY <1>2, <1>3
  <1>4. CASE round' = NoRound
    BY <1>4 DEF NoRound
  <1>5. CASE round.at # "idle" /\ round' = onward
    BY <1>1, <1>2, <1>5, RoundGoesOn
  <1>6. CASE tick
    <2>1. PICK queue \in SetToSeqs({[id |-> s, due |-> nextDue[s]] : s \in due}) :
               round' = [NoRound EXCEPT !.at = "checking", !.queue = queue]
      BY <1>6 DEF tick
    <2>2. due # {} /\ round.at = "idle"
      BY <1>6 DEF tick
    <2>3. \A k \in DOMAIN queue : queue[k].id \in due /\ queue[k].due = nextDue[queue[k].id]
      BY <1>1, <2>2, DueListed
    <2>4. round'.at = "checking" /\ round'.queue = queue /\ round'.job = None
      BY <2>1 DEF NoRound
    <2> QED BY <1>2, <1>6, <2>2, <2>3, <2>4
  <1>7. CASE Begins \/ Stages \/ Approves
    <2>1. round'.queue = round.queue /\ starts'
      BY <1>1, <1>7 DEF Begins, Stages, Approves, RoundOK, Rounds, starts
    <2> QED BY <1>2, <2>1
  <1> QED BY <1>3, <1>4, <1>5, <1>6, <1>7, RoundMoves

(* The job of the round: the one just staged, or the one it had.           *)
LEMMA RoundJobMoves ==
    ASSUME SchedTypeOK, [SchedNext]_schedVars, round'.job # None
    PROVE  /\ round'.queue = round.queue /\ round.at # "idle"
           /\ 1 \in DOMAIN round.queue /\ current = round.queue[1].id
           /\ \/ /\ stage /\ round'.job = newJob /\ newJob \in Job /\ state[newJob] = "none"
                 /\ round'.at = "approving" /\ round.at = "staging" /\ round.job = None
              \/ approve /\ round'.job = round.job /\ round.at = "approving" /\ round'.at = "marking"
              \/ round' = round
  <1>1. RoundOK /\ RowsOK
    BY DEF SchedTypeOK
  <1>2. round' # NoRound
    BY DEF NoRound
  <1>3. ~(round.at # "idle" /\ round' = onward)
    BY <1>1, RoundGoesOn
  <1>4. ~tick
    <2> SUFFICES ASSUME tick
                 PROVE  round'.job = None
      OBVIOUS
    <2>1. PICK queue : round' = [NoRound EXCEPT !.at = "checking", !.queue = queue]
      BY DEF tick
    <2> QED BY <2>1 DEF NoRound
  <1>5. ~(begin /\ Begins)
    <2> SUFFICES ASSUME Begins
                 PROVE  round'.job = None
      OBVIOUS
    <2>1. round'.job = round.job /\ round.at = "checking"
      BY <1>1 DEF Begins, at, RoundOK, Rounds
    <2> QED BY <1>1, <2>1 DEF RoundOK
  <1>6. CASE round' = round
    <2>1. round.at # "idle"
      BY <1>1, <1>6 DEF RoundOK
    <2> QED BY <1>1, <1>6, <2>1, RoundUnderWay
  <1>7. CASE stage /\ Stages
    <2>1. /\ round'.job = newJob /\ round'.at = "approving" /\ round'.queue = round.queue /\ round.at = "staging"
      BY <1>1, <1>7 DEF Stages, at, RoundOK, Rounds
    <2>2. round.job = None
      BY <1>1, <2>1 DEF RoundOK
    <2> QED BY <1>1, <1>7, <2>1, <2>2, RoundUnderWay DEF Stages
  <1>8. CASE approve /\ Approves
    <2>1. /\ round'.job = round.job /\ round'.at = "marking" /\ round'.queue = round.queue /\ round.at = "approving"
      BY <1>1, <1>8 DEF Approves, at, RoundOK, Rounds
    <2> QED BY <1>1, <1>8, <2>1, RoundUnderWay
  <1> QED BY <1>2, <1>3, <1>4, <1>5, <1>6, <1>7, <1>8, RoundMoves

(* Only the two ends of an approval name a job on a row.                   *)
LEMMA NamesJob ==
    ASSUME SchedTypeOK, [SchedNext]_schedVars, NEW s \in Schedule, lastJob'[s] # lastJob[s]
    PROVE  approveFails \/ markStarted
  <1>1. RowsOK
    BY DEF SchedTypeOK
  <1>2. lastJob' # lastJob
    OBVIOUS
  <1>3. ASSUME NEW result, NEW d, markScheduleRun(current, lastJob[current], result, d)
        PROVE  FALSE
    BY <1>1, <1>3 DEF markScheduleRun, RowsOK
  <1>4. ~secretsUnread /\ ~didNotRun /\ ~begin /\ ~stageFails
    BY <1>3 DEF secretsUnread, didNotRun, begin, stageFails
  <1>5. ~pauseCarrying /\ ~tick /\ ~stage /\ ~approve /\ ~stop /\ ~recoverInterruptedJobs /\ ~recover /\ ~timePasses
    BY <1>2 DEF pauseCarrying, tick, stage, approve, stop, recoverInterruptedJobs, recover, timePasses, rowVars
  <1>6. ~\E j \in Job : approveByHand(j) \/ withdrawByHand(j) \/ jobEnds(j) \/ onJob(j)
    BY <1>2 DEF approveByHand, withdrawByHand, jobEnds, onJob, rowVars
  <1>7. ~\E r \in Schedule : create(r) \/ remove(r) \/ \E on \in BOOLEAN : setEnabled(r, on)
    BY <1>2 DEF create, remove, setEnabled
  <1>8. ~UNCHANGED schedVars
    BY <1>2 DEF schedVars, rowVars
  <1> QED BY <1>4, <1>5, <1>6, <1>7, <1>8 DEF SchedNext, RoundStep

(* Which job is whose holds at first.                                      *)
LEMMA RowInvInit ==
    ASSUME SchedInit
    PROVE  RowInv
  BY DEF SchedInit, LifeInit, NoRound, RowInv

(* Every step keeps it.                                                    *)
LEMMA RowInvStep ==
    ASSUME SchedTypeOK, RowInv, [SchedNext]_schedVars
    PROVE  RowInv'
  <1>1. RoundOK /\ RowsOK /\ RestOK
    BY DEF SchedTypeOK
  <1>2. \A s \in Schedule : RowMoves(s)
    BY RowMovesStep
  <1>3. \A s \in present' : lastResult'[s] # "new"
    <2>1. present' \subseteq Schedule
      BY RowsOKStep DEF RowsOK
    <2> QED BY <1>2, <2>1 DEF RowInv, RowMoves
  <1>4. \A i \in DOMAIN round'.queue : lastResult'[round'.queue[i].id] # "new"
    <2> SUFFICES ASSUME NEW i \in DOMAIN round'.queue
                 PROVE  lastResult'[round'.queue[i].id] # "new"
      OBVIOUS
    <2>1. round'.queue[i].id \in Schedule
      BY QueueMoves
    <2>2. lastResult[round'.queue[i].id] # "new"
      BY <1>1, QueueMoves DEF RowInv, due, RowsOK
    <2> QED BY <1>2, <2>1, <2>2 DEF RowMoves
  <1>5. \A j \in Job : JobMoves(j)
    BY StateMoves
  <1>6. \A j \in Job : /\ state[j] \in Settled => state'[j] \in Settled
                       /\ state[j] # "none" => state'[j] # "none"
                       /\ state[j] = "none" => state'[j] = "none" \/ (stage /\ j = newJob /\ state'[j] # "none")
    BY <1>5 DEF JobMoves, Settled
  <1>7. \A j \in Job : state[j] # "none" => jobOf'[j] = jobOf[j]
    <2>1. CASE UNCHANGED jobOf
      BY <2>1
    <2>2. CASE stage /\ jobOf' = [jobOf EXCEPT ![newJob] = current]
      <3>1. state[newJob] = "none"
        BY <2>2, NewJobIsNew DEF stage
      <3> QED BY <1>1, <2>2, <3>1 DEF RestOK
    <2> QED BY <2>1, <2>2, RecordMoves
  <1>8. \A j \in Job : state[j] = "none" => /\ jobOf[j] = None
                                            /\ \/ jobOf'[j] = None /\ state'[j] = "none"
                                               \/ /\ jobOf'[j] # None /\ state'[j] # "none"
                                                  /\ lastResult'[jobOf'[j]] # "new"
    <2> SUFFICES ASSUME NEW j \in Job, state[j] = "none"
                 PROVE  /\ jobOf[j] = None
                        /\ \/ jobOf'[j] = None /\ state'[j] = "none"
                           \/ jobOf'[j] # None /\ state'[j] # "none" /\ lastResult'[jobOf'[j]] # "new"
      OBVIOUS
    <2>1. jobOf[j] = None
      BY DEF RowInv
    <2>2. CASE stage
      <3>1. /\ newJob \in Job /\ at("staging") /\ Stage(newJob) /\ jobOf' = [jobOf EXCEPT ![newJob] = current]
        BY <2>2, NewJobIsNew DEF stage
      <3>2. current \in Schedule /\ lastResult[current] # "new" /\ current # None
        <4>1. current \in Schedule /\ current = round.queue[1].id /\ 1 \in DOMAIN round.queue
          BY <3>1, AtEntry DEF At
        <4> QED BY <4>1, NoneApart DEF RowInv
      <3>3. lastResult'[current] # "new"
        BY <1>2, <3>2 DEF RowMoves
      <3> HIDE DEF newJob, current
      <3>4. state'[j] = IF j = newJob THEN "awaiting" ELSE state[j]
        BY <1>1, <3>1, Moved DEF Stage
      <3>5. jobOf'[j] = IF j = newJob THEN current ELSE jobOf[j]
        BY <1>1, <3>1 DEF RestOK
      <3> QED BY <2>1, <3>2, <3>3, <3>4, <3>5
    <2>3. CASE ~stage
      <3>1. jobOf' = jobOf
        BY <2>3, RecordMoves
      <3> QED BY <1>6, <2>1, <2>3, <3>1
    <2> QED BY <2>1, <2>2, <2>3
  <1>9. \A j \in Job : /\ jobOf'[j] = None <=> state'[j] = "none"
                       /\ jobOf'[j] # None => lastResult'[jobOf'[j]] # "new"
    <2> SUFFICES ASSUME NEW j \in Job
                 PROVE  /\ jobOf'[j] = None <=> state'[j] = "none"
                        /\ jobOf'[j] # None => lastResult'[jobOf'[j]] # "new"
      OBVIOUS
    <2>1. CASE state[j] = "none"
      BY <1>8, <2>1
    <2>2. CASE state[j] # "none"
      <3>1. jobOf'[j] = jobOf[j] /\ jobOf[j] # None /\ lastResult[jobOf[j]] # "new" /\ state'[j] # "none"
        BY <1>6, <1>7, <2>2 DEF RowInv
      <3>2. jobOf[j] \in Schedule
        BY <1>1, <3>1 DEF RestOK
      <3> QED BY <1>2, <3>1, <3>2 DEF RowMoves
    <2> QED BY <2>1, <2>2
  <1>10. round.job # None => round.job \in Job /\ state[round.job] # "none" /\ round.at \in {"approving", "marking"}
    <2>1. round.job # None => round.job \in Job /\ round.at \in {"approving", "marking"}
      BY <1>1 DEF RoundOK, Rounds
    <2>2. round.job # None => jobOf[round.job] = round.queue[1].id /\ round.queue[1].id \in Schedule
      BY <1>1, <2>1, RoundUnderWay DEF RowInv
    <2> QED BY <2>1, <2>2, NoneApart DEF RowInv
  <1>11. \A j \in Job : j \in orphans' => state'[j] # "none"
    BY <1>6, <1>10, RecordMoves DEF RowInv
  <1>12. \A s \in Schedule : lastJob'[s] # None => jobOf'[lastJob'[s]] = s /\ state'[lastJob'[s]] \in Settled
    <2> SUFFICES ASSUME NEW s \in Schedule, lastJob'[s] # None
                 PROVE  jobOf'[lastJob'[s]] = s /\ state'[lastJob'[s]] \in Settled
      OBVIOUS
    <2>1. lastJob[s] \in Job \union {None}
      BY <1>1 DEF RowsOK
    <2>2. CASE lastJob'[s] = lastJob[s]
      <3>1. lastJob[s] \in Job /\ jobOf[lastJob[s]] = s /\ state[lastJob[s]] \in Settled
        BY <2>1, <2>2 DEF RowInv
      <3>2. state[lastJob[s]] # "none"
        BY <3>1 DEF Settled
      <3> QED BY <1>6, <1>7, <2>2, <3>1, <3>2
    <2>3. CASE lastJob'[s] # lastJob[s]
      <3>1. round.at \in {"approving", "marking"} /\ round' = onward /\ s = current /\ lastJob'[s] = round.job
        BY <1>2, <2>3 DEF RowMoves
      <3>2. round.job # None /\ round.job \in Job
        BY <1>1, <3>1 DEF RoundOK, Rounds
      <3>3. jobOf[round.job] = s /\ state[round.job] # "none"
        BY <1>1, <1>10, <3>1, <3>2, RoundUnderWay DEF RowInv
      <3>4. state'[round.job] \in Settled
        <4>1. CASE approveFails
          <5>1. state[round.job] = "awaiting" => Withdraw({round.job})
            BY <4>1 DEF approveFails
          <5>2. state[round.job] = "awaiting" => state'[round.job] = "cancelled"
            BY <1>1, <3>2, <5>1, Moved DEF Withdraw
          <5>3. state[round.job] # "awaiting" => state[round.job] \in Settled
            BY <1>1, <3>2, <3>3 DEF RestOK
          <5> QED BY <1>6, <3>2, <5>2, <5>3 DEF Settled
        <4>2. CASE markStarted
          <5>1. state[round.job] \in Settled
            BY <3>2, <4>2 DEF markStarted, at, RowInv
          <5> QED BY <1>6, <3>2, <5>1
        <4> QED BY <2>3, <4>1, <4>2, NamesJob
      <3> QED BY <1>7, <3>1, <3>2, <3>3, <3>4
    <2> QED BY <2>2, <2>3
  <1>13. round'.job # None => /\ jobOf'[round'.job] = round'.queue[1].id /\ round'.job \notin orphans'
                              /\ round'.at = "marking" => state'[round'.job] \in Settled
    <2> SUFFICES ASSUME round'.job # None
                 PROVE  /\ jobOf'[round'.job] = round'.queue[1].id /\ round'.job \notin orphans'
                        /\ round'.at = "marking" => state'[round'.job] \in Settled
      OBVIOUS
    <2>1. orphans' = orphans
      BY RecordMoves DEF NoRound
    <2>2. CASE stage /\ round'.job = newJob
      <3>1. newJob \in Job /\ jobOf' = [jobOf EXCEPT ![newJob] = current] /\ state[newJob] = "none"
        BY <2>2, NewJobIsNew DEF stage
      <3>2. jobOf'[newJob] = current
        BY <1>1, <3>1 DEF RestOK
      <3>3. newJob \notin orphans
        BY <3>1 DEF RowInv
      <3>4. round'.at # "marking"
        BY <2>2, <3>1, RoundJobMoves, NoneApart, <1>10
      <3> QED BY <2>1, <2>2, <3>2, <3>3, <3>4, RoundJobMoves
    <2>3. CASE approve /\ round'.job = round.job
      <3>1. round.job \in Job /\ state[round.job] # "none"
        BY <1>10, <2>3
      <3>2. state'[round.job] = "active"
        <4>1. Grant(round.job)
          BY <2>3 DEF approve
        <4> QED BY <1>1, <3>1, <4>1, Moved DEF Grant
      <3> QED BY <1>7, <2>1, <2>3, <3>1, <3>2, RoundJobMoves DEF RowInv, Settled
    <2>4. CASE round' = round
      <3>1. round.job \in Job /\ state[round.job] # "none"
        BY <1>10, <2>4
      <3> QED BY <1>6, <1>7, <2>1, <2>4, <3>1 DEF RowInv
    <2> QED BY <2>2, <2>3, <2>4, RoundJobMoves
  <1> QED BY <1>3, <1>4, <1>9, <1>11, <1>12, <1>13 DEF RowInv
-----------------------------------------------------------------------------
(* Who may run: a job that waits is the round's, or an orphan; one that    *)
(* runs is the round's, or on its schedule's row, or its schedule is gone. *)
RunInv ==
    /\ \A j \in Job \ orphans : state[j] = "awaiting" => round.at = "approving" /\ round.job = j
    /\ \A j \in activeJobs \ orphans :
          \/ round.job = j
          \/ lastJob[jobOf[j]] = j
          \/ jobOf[j] \notin present /\ ~queued(jobOf[j])
    /\ starts => \A j \in activeJobs \ orphans : j = round.job \/ jobOf[j] # round.queue[1].id
    /\ \A j, k \in activeJobs \ orphans : j # k => jobOf[j] # jobOf[k]

(* A round that goes on from a job has withdrawn it or named it.           *)
LEMMA GoesOnFromJob ==
    ASSUME SchedTypeOK, [SchedNext]_schedVars, round.at \in {"approving", "marking"}, round' = onward
    PROVE  /\ approveFails \/ markStarted \/ stop
           /\ ~stop /\ current \in present => lastJob'[current] = round.job
  <1>1. onward # round
    <2>1. onward.at \in {"idle", "checking"}
      BY RoundGoesOn DEF SchedTypeOK
    <2> QED BY <2>1
  <1>2. ~approve
    <2> SUFFICES ASSUME approve
                 PROVE  FALSE
      OBVIOUS
    <2>1. round'.at = "marking"
      BY DEF approve, SchedTypeOK, RoundOK, Rounds
    <2>2. onward.at \in {"idle", "checking"}
      BY RoundGoesOn DEF SchedTypeOK
    <2> QED BY <2>1, <2>2
  <1>3. ~secretsUnread /\ ~didNotRun /\ ~begin /\ ~stageFails /\ ~pauseCarrying /\ ~tick /\ ~stage
    BY DEF secretsUnread, didNotRun, begin, stageFails, pauseCarrying, tick, stage, at
  <1>4. ~\E j \in Job : approveByHand(j) \/ withdrawByHand(j) \/ jobEnds(j) \/ onJob(j)
    BY <1>1 DEF approveByHand, withdrawByHand, jobEnds, onJob
  <1>5. ~\E s \in Schedule : create(s) \/ remove(s) \/ \E on \in BOOLEAN : setEnabled(s, on)
    BY <1>1 DEF create, remove, setEnabled
  <1>6. ~recoverInterruptedJobs /\ ~recover /\ ~timePasses /\ ~UNCHANGED schedVars
    BY <1>1 DEF recoverInterruptedJobs, recover, timePasses, schedVars
  <1>7. approveFails \/ markStarted \/ stop
    BY <1>2, <1>3, <1>4, <1>5, <1>6 DEF SchedNext, RoundStep
  <1>8. current \in Schedule /\ lastJob \in [Schedule -> Job \union {None}]
    BY RoundUnderWay DEF SchedTypeOK, RowsOK
  <1>9. approveFails /\ current \in present => lastJob'[current] = round.job
    BY <1>8 DEF approveFails, markScheduleRun
  <1>10. markStarted /\ current \in present => lastJob'[current] = round.job
    BY <1>8 DEF markStarted, markScheduleRun
  <1> QED BY <1>7, <1>9, <1>10

(* Who may run holds at first.                                             *)
LEMMA RunInvInit ==
    ASSUME SchedInit
    PROVE  RunInv
  BY DEF SchedInit, LifeInit, NoRound, RunInv, activeJobs, starts

(* Every step keeps it.                                                    *)
LEMMA RunInvStep ==
    ASSUME SchedTypeOK, RowInv, RunInv, [SchedNext]_schedVars
    PROVE  RunInv'
  <1>1. RoundOK /\ RowsOK /\ RestOK
    BY DEF SchedTypeOK
  <1>2. \A j \in Job : JobMoves(j)
    BY StateMoves
  <1>3. \A s \in Schedule : RowMoves(s)
    BY RowMovesStep
  <1>4. orphans \subseteq orphans'
    BY RecordMoves
  <1>5. \A j \in Job : state[j] # "none" => jobOf[j] \in Schedule /\ jobOf'[j] = jobOf[j]
    <2> SUFFICES ASSUME NEW j \in Job, state[j] # "none"
                 PROVE  jobOf[j] \in Schedule /\ jobOf'[j] = jobOf[j]
      OBVIOUS
    <2>1. jobOf[j] \in Schedule
      BY <1>1 DEF RowInv, RestOK
    <2>2. stage => newJob # j
      BY NewJobIsNew DEF stage
    <2> QED BY <1>1, <2>1, <2>2, RecordMoves DEF RestOK
  <1>6. round.job # None => /\ round.job \in Job \ orphans /\ state[round.job] # "none" /\ jobOf[round.job] = current
                            /\ round.at \in {"approving", "marking"} /\ current \in Schedule /\ current = round.queue[1].id
                            /\ 1 \in DOMAIN round.queue
    <2> SUFFICES ASSUME round.job # None
                 PROVE  /\ round.job \in Job \ orphans /\ state[round.job] # "none" /\ jobOf[round.job] = current
                        /\ round.at \in {"approving", "marking"} /\ current \in Schedule /\ current = round.queue[1].id
                        /\ 1 \in DOMAIN round.queue
      OBVIOUS
    <2>1. round.job \in Job \ orphans /\ round.at \in {"approving", "marking"}
      BY <1>1 DEF RoundOK, Rounds, RowInv
    <2>2. current \in Schedule /\ current = round.queue[1].id /\ 1 \in DOMAIN round.queue
      BY <1>1, <2>1, RoundUnderWay
    <2>3. jobOf[round.job] = current
      BY <2>1, <2>2 DEF RowInv
    <2>4. state[round.job] # "none"
      BY <2>1, <2>2, <2>3, NoneApart DEF RowInv
    <2> QED BY <2>1, <2>2, <2>3, <2>4
  (* What waits.                                                           *)
  <1>7. \A j \in Job \ orphans' : state'[j] = "awaiting" => round'.at = "approving" /\ round'.job = j
    <2> SUFFICES ASSUME NEW j \in Job, j \notin orphans', state'[j] = "awaiting"
                 PROVE  round'.at = "approving" /\ round'.job = j
      OBVIOUS
    <2>1. CASE stage /\ j = newJob
      <3>1. round' = [round EXCEPT !.at = "approving", !.job = newJob]
        BY <2>1 DEF stage
      <3> QED BY <1>1, <2>1, <3>1 DEF RoundOK, Rounds
    <2>2. CASE state[j] = "awaiting"
      <3>1. round.at = "approving" /\ round.job = j
        BY <1>4, <2>2 DEF RunInv
      <3>2. CASE round' = round
        BY <3>1, <3>2
      <3>3. CASE round' = NoRound /\ round' # onward
        <4>1. j \in orphans'
          BY <3>1, <3>3, NoneApart, RecordMoves
        <4> QED BY <4>1
      <3>4. CASE round' = onward
        <4>1. CASE approveFails
          <5>1. Withdraw({j})
            BY <2>2, <3>1, <4>1 DEF approveFails
          <5>2. state'[j] = "cancelled"
            BY <1>1, <5>1, Moved DEF Withdraw
          <5> QED BY <5>2
        <4>2. CASE stop
          <5>1. j \in orphans'
            BY <3>1, <4>2, NoneApart DEF stop
          <5> QED BY <5>1
        <4>3. ~markStarted
          BY <3>1 DEF markStarted, at
        <4> QED BY <3>1, <3>4, <4>1, <4>2, <4>3, GoesOnFromJob
      <3>5. CASE approve
        <4>1. Grant(j)
          BY <3>1, <3>5 DEF approve
        <4>2. state'[j] = "active"
          BY <1>1, <4>1, Moved DEF Grant
        <4> QED BY <4>2
      <3>6. ~tick /\ ~Begins /\ ~Stages
        BY <3>1 DEF tick, Begins, Stages, at
      <3> QED BY <3>2, <3>3, <3>4, <3>5, <3>6, RoundMoves
    <2> QED BY <1>2, <2>1, <2>2 DEF JobMoves
  (* What runs: it did, or is the round's.                                 *)
  <1>8. ASSUME NEW j \in Job, j \notin orphans', state'[j] = "active"
        PROVE  /\ state[j] # "none" /\ j \notin orphans
               /\ \/ state[j] = "active"
                  \/ state[j] = "awaiting" /\ round.job = j /\ round'.job = j
    <2>1. j \notin orphans
      BY <1>4, <1>8
    <2>2. CASE state[j] = "active"
      BY <2>1, <2>2
    <2>3. CASE state[j] = "awaiting"
      <3>1. round.job = j
        BY <2>1, <2>3 DEF RunInv
      <3>2. approve \/ approveByHand(j)
        BY <1>2, <1>8, <2>3 DEF JobMoves
      <3>3. round'.job = round.job
        BY <1>1, <3>2 DEF approve, approveByHand, RoundOK, Rounds
      <3> QED BY <2>1, <2>3, <3>1, <3>3
    <2> QED BY <1>2, <1>8, <2>2, <2>3 DEF JobMoves
  <1>9. \A j \in activeJobs' \ orphans' :
           \/ round'.job = j
           \/ lastJob'[jobOf'[j]] = j
           \/ jobOf'[j] \notin present' /\ (\A i \in DOMAIN round'.queue : round'.queue[i].id # jobOf'[j])
    <2> SUFFICES ASSUME NEW j \in Job, j \notin orphans', state'[j] = "active", round'.job # j
                 PROVE  \/ lastJob'[jobOf'[j]] = j
                        \/ jobOf'[j] \notin present' /\ (\A i \in DOMAIN round'.queue : round'.queue[i].id # jobOf'[j])
      BY DEF activeJobs
    <2> DEFINE s == jobOf[j]
    <2>1. state[j] = "active" /\ j \notin orphans /\ s \in Schedule /\ jobOf'[j] = s
      BY <1>5, <1>8
    <2> HIDE DEF s
    <2>2. s = jobOf[j]
      BY DEF s
    <2>3. CASE round.job = j
      <3>1. j # None /\ s = current /\ current \in Schedule
        BY <1>6, <2>2, <2>3, NoneApart
      <3>2. round' = onward /\ round.at # "idle"
        <4>1. round' # round
          BY <2>3
        <4>2. round' = NoRound => round' = onward
          BY <2>3, <3>1, RecordMoves
        <4>3. ~tick /\ ~Begins /\ ~Stages
          BY <1>6, <2>3, <3>1 DEF tick, Begins, Stages, at
        <4>4. ~Approves
          BY <1>1, <2>3 DEF Approves, RoundOK, Rounds
        <4>5. round.at # "idle"
          BY <1>6, <2>3, <3>1
        <4> QED BY <4>1, <4>2, <4>3, <4>4, <4>5, RoundMoves
      <3>3. \A i \in DOMAIN round'.queue : round'.queue[i].id # s
        BY <1>1, <3>1, <3>2, RoundGoesOn
      <3>4. s \in present' => lastJob'[s] = j
        <4>1. ~stop
          BY <2>3, <3>1 DEF stop
        <4>2. round.at \in {"approving", "marking"}
          BY <1>6, <2>3, <3>1
        <4>3. s \in present' => s \in present
          <5>1. lastResult[s] # "new"
            BY <1>6, <2>3, <3>1 DEF RowInv
          <5> QED BY <1>3, <3>1, <5>1 DEF RowMoves
        <4> QED BY <2>3, <3>1, <3>2, <4>1, <4>2, <4>3, GoesOnFromJob
      <3> QED BY <2>1, <3>3, <3>4
    <2>4. CASE round.job # j /\ lastJob[s] = j
      <3>1. lastJob'[s] = lastJob[s]
        <4> SUFFICES ASSUME lastJob'[s] # lastJob[s]
                     PROVE  FALSE
          OBVIOUS
        <4>1. round.at \in {"approving", "marking"} /\ s = current
          BY <1>3, <2>1 DEF RowMoves
        <4>2. round.job # None
          BY <1>1, <4>1 DEF RoundOK
        <4>3. current = round.queue[1].id
          BY <1>6, <4>2
        <4> QED BY <2>1, <2>2, <2>4, <4>1, <4>3 DEF RunInv, starts, activeJobs
      <3> QED BY <2>1, <2>4, <3>1
    <2>5. CASE round.job # j /\ s \notin present /\ ~queued(s)
      <3>1. s \notin present'
        <4>1. lastResult[s] # "new"
          BY <2>1, <2>2, NoneApart DEF RowInv
        <4> QED BY <1>3, <2>1, <2>5, <4>1 DEF RowMoves
      <3>2. \A i \in DOMAIN round'.queue : round'.queue[i].id # s
        <4> SUFFICES ASSUME NEW i \in DOMAIN round'.queue, round'.queue[i].id = s
                     PROVE  FALSE
          OBVIOUS
        <4>1. CASE round'.queue[i].id \in due
          BY <1>1, <2>5, <4>1 DEF due, RowsOK
        <4>2. CASE \E k \in DOMAIN round.queue : round'.queue[i] = round.queue[k]
          BY <2>5, <4>2 DEF queued
        <4> QED BY <4>1, <4>2, QueueMoves
      <3> QED BY <2>1, <3>1, <3>2
    <2>6. j \in activeJobs \ orphans
      BY <2>1 DEF activeJobs
    <2> QED BY <2>2, <2>3, <2>4, <2>5, <2>6 DEF RunInv
  <1>10. starts' => \A j \in activeJobs' \ orphans' : j = round'.job \/ jobOf'[j] # round'.queue[1].id
    <2> SUFFICES ASSUME starts', NEW j \in Job, j \notin orphans', state'[j] = "active", j # round'.job
                 PROVE  jobOf'[j] # round'.queue[1].id
      BY DEF activeJobs
    <2>1. state[j] = "active" /\ j \notin orphans /\ jobOf[j] \in Schedule /\ jobOf'[j] = jobOf[j]
      BY <1>5, <1>8
    <2>2. j \in activeJobs \ orphans
      BY <2>1 DEF activeJobs
    <2>3. CASE round' = round
      BY <2>1, <2>2, <2>3 DEF RunInv, starts
    <2>4. CASE Begins
      <3>1. round'.queue = round.queue /\ round.at = "checking"
        BY <1>1, <2>4 DEF Begins, at, RoundOK, Rounds
      <3>2. current \in Schedule /\ current = round.queue[1].id /\ 1 \in DOMAIN round.queue /\ round.job = None
        BY <1>1, <3>1, RoundUnderWay DEF RoundOK
      <3>3. ~previousActive(current)
        BY <2>4 DEF Begins
      <3>4. lastJob[current] # j
        BY <2>1, <3>2, <3>3, NoneApart DEF previousActive
      <3>5. queued(current)
        BY <3>2 DEF queued
      <3> QED BY <2>1, <2>2, <3>1, <3>2, <3>4, <3>5, NoneApart DEF RunInv
    <2>5. CASE Stages \/ Approves
      <3>1. /\ round'.queue = round.queue /\ starts
            /\ round.job = None \/ round'.job = round.job
        BY <1>1, <2>5 DEF Stages, Approves, at, RoundOK, Rounds, starts
      <3> QED BY <2>1, <2>2, <3>1, NoneApart DEF RunInv
    <2>6. ~(round' = NoRound) /\ ~(round.at # "idle" /\ round' = onward) /\ ~tick
      <3>1. NoRound.at = "idle"
        BY DEF NoRound
      <3>2. round.at # "idle" => onward.at \in {"idle", "checking"}
        BY <1>1, RoundGoesOn
      <3>3. tick => round'.at = "checking"
        <4> SUFFICES ASSUME tick
                     PROVE  round'.at = "checking"
          OBVIOUS
        <4>1. PICK queue : round' = [NoRound EXCEPT !.at = "checking", !.queue = queue]
          BY DEF tick
        <4> QED BY <4>1 DEF NoRound
      <3> QED BY <3>1, <3>2, <3>3 DEF starts
    <2> QED BY <2>3, <2>4, <2>5, <2>6, RoundMoves
  <1>11. \A j, k \in activeJobs' \ orphans' : j # k => jobOf'[j] # jobOf'[k]
    <2> SUFFICES ASSUME NEW j \in Job, j \notin orphans', state'[j] = "active",
                        NEW k \in Job, k \notin orphans', state'[k] = "active", j # k
                 PROVE  jobOf'[j] # jobOf'[k]
      BY DEF activeJobs
    <2>1. jobOf'[j] = jobOf[j] /\ jobOf'[k] = jobOf[k] /\ j \notin orphans /\ k \notin orphans
      BY <1>5, <1>8
    <2>2. CASE state[j] = "active" /\ state[k] = "active"
      BY <2>1, <2>2 DEF RunInv, activeJobs
    <2>3. ASSUME NEW x \in Job, NEW y \in Job, state[x] # "active", x \notin orphans', state'[x] = "active",
                 state[y] = "active", y \notin orphans, x # y
          PROVE  jobOf[x] # jobOf[y]
      <3>1. round.job = x
        BY <1>8, <2>3
      <3>2. round.job # None
        BY <3>1, NoneApart
      <3>3. jobOf[x] = round.queue[1].id /\ starts
        BY <1>6, <3>1, <3>2 DEF starts
      <3> QED BY <2>3, <3>1, <3>3 DEF RunInv, activeJobs
    <2>4. state[j] = "active" \/ state[k] = "active"
      BY <1>8
    <2> QED BY <2>1, <2>2, <2>3, <2>4
  <1> QED BY <1>7, <1>9, <1>10, <1>11 DEF RunInv, queued
-----------------------------------------------------------------------------
(* Due times only grow: the one a job was staged for is past, and comes    *)
(* before whatever its schedule is due for now.                            *)
DueInv ==
    /\ \A i \in DOMAIN round.queue : round.queue[i].due =< now
    /\ \A j \in Job : dueOf[j] =< now \/ jobOf[j] = None
    /\ \A j \in Job : jobOf[j] \in present => dueOf[j] < nextDue[jobOf[j]]
    /\ \A j \in Job : \A i \in DOMAIN round.queue :
          jobOf[j] = round.queue[i].id /\ j # round.job => dueOf[j] < round.queue[i].due
    /\ starts => /\ round.queue[1].due < round.next
                 /\ round.queue[1].id \in present => round.queue[1].due < nextDue[round.queue[1].id]
                 /\ \A j \in Job : jobOf[j] = round.queue[1].id => dueOf[j] < round.next
    /\ round.job # None => dueOf[round.job] = round.queue[1].due
    /\ \A j, k \in Job : j # k /\ jobOf[j] # None /\ jobOf[j] = jobOf[k] => dueOf[j] # dueOf[k]

(* That due times only grow holds at first.                                *)
LEMMA DueInvInit ==
    ASSUME SchedInit
    PROVE  DueInv
  BY NoneApart DEF SchedInit, LifeInit, NoRound, DueInv, starts

(* Every step keeps it.                                                    *)
LEMMA DueInvStep ==
    ASSUME SchedTypeOK, RowInv, DueInv, [SchedNext]_schedVars
    PROVE  DueInv'
  <1>1. RoundOK /\ RowsOK /\ RestOK
    BY DEF SchedTypeOK
  <1>2. now \in Nat /\ now' \in Nat /\ now =< now'
    BY <1>1, RestOKStep, RecordMoves DEF RestOK
  <1>3. \A s \in Schedule : RowMoves(s) /\ nextRun(s) \in Nat /\ nextRun(s) > now /\ nextDue[s] \in Nat /\ nextDue'[s] \in Nat
    BY <1>1, RowMovesStep, NextRunLater, RowsOKStep DEF RowsOK
  <1>4. \A j \in Job : dueOf[j] \in Nat /\ dueOf'[j] \in Nat /\ (jobOf[j] \in Schedule \/ jobOf[j] = None)
    BY <1>1, RestOKStep DEF RestOK
  <1>5. \A i \in DOMAIN round.queue : round.queue[i].id \in Schedule /\ round.queue[i].due \in Nat
    <2>1. round.queue \in Seq(Entry)
      BY <1>1 DEF RoundOK, Rounds
    <2>2. \A i \in DOMAIN round.queue : round.queue[i] \in Entry
      BY <2>1
    <2> QED BY <2>2 DEF Entry
  <1>6. round.at # "idle" => 1 \in DOMAIN round.queue /\ current = round.queue[1].id
    BY <1>1, RoundUnderWay
  (* A job staged in this step is the round's, for its first entry.        *)
  <1>7. \A j \in Job : \/ jobOf'[j] = jobOf[j] /\ dueOf'[j] = dueOf[j]
                       \/ /\ stage /\ round'.job = j /\ jobOf'[j] = current /\ dueOf'[j] = round.queue[1].due
                          /\ round.at = "staging" /\ round'.queue = round.queue /\ round.job = None
    <2> SUFFICES ASSUME NEW j \in Job
                 PROVE  \/ jobOf'[j] = jobOf[j] /\ dueOf'[j] = dueOf[j]
                        \/ /\ stage /\ round'.job = j /\ jobOf'[j] = current /\ dueOf'[j] = round.queue[1].due
                           /\ round.at = "staging" /\ round'.queue = round.queue /\ round.job = None
      OBVIOUS
    <2>1. CASE UNCHANGED <<jobOf, dueOf>>
      BY <2>1
    <2>2. CASE /\ stage /\ newJob \in Job /\ jobOf' = [jobOf EXCEPT ![newJob] = current]
               /\ dueOf' = [dueOf EXCEPT ![newJob] = Head(round.queue).due]
      <3>1. at("staging") /\ round' = [round EXCEPT !.at = "approving", !.job = newJob]
        BY <2>2 DEF stage
      <3>2. round.at = "staging" /\ round.job = None /\ Head(round.queue) = round.queue[1]
        BY <3>1, AtEntry DEF At
      <3>3. round'.job = newJob /\ round'.queue = round.queue
        BY <1>1, <3>1 DEF RoundOK, Rounds
      <3>4. /\ jobOf'[j] = IF j = newJob THEN current ELSE jobOf[j]
            /\ dueOf'[j] = IF j = newJob THEN round.queue[1].due ELSE dueOf[j]
        BY <1>1, <2>2, <3>2 DEF RestOK
      <3> QED BY <2>2, <3>2, <3>3, <3>4
    <2> QED BY <2>1, <2>2, RecordMoves
  <1>8. \A i \in DOMAIN round'.queue : round'.queue[i].due =< now'
    <2> SUFFICES ASSUME NEW i \in DOMAIN round'.queue
                 PROVE  round'.queue[i].due =< now'
      OBVIOUS
    <2>1. round'.queue[i].due \in Nat
      BY QueueMoves
    <2>2. round'.queue[i].due =< now
      BY QueueMoves DEF DueInv, due
    <2> QED BY <1>2, <2>1, <2>2
  <1>9. \A j \in Job : dueOf'[j] =< now' \/ jobOf'[j] = None
    <2> SUFFICES ASSUME NEW j \in Job
                 PROVE  dueOf'[j] =< now' \/ jobOf'[j] = None
      OBVIOUS
    <2>1. round.at = "staging" => round.queue[1].due =< now
      BY <1>6 DEF DueInv
    <2>2. dueOf'[j] =< now \/ jobOf'[j] = None
      BY <1>7, <2>1 DEF DueInv
    <2> QED BY <1>2, <1>4, <2>2
  <1>10. \A j \in Job : jobOf'[j] \in present' => dueOf'[j] < nextDue'[jobOf'[j]]
    <2> SUFFICES ASSUME NEW j \in Job, jobOf'[j] \in present'
                 PROVE  dueOf'[j] < nextDue'[jobOf'[j]]
      OBVIOUS
    <2> DEFINE s == jobOf'[j]
    <2>1. s \in Schedule
      BY RowsOKStep DEF RowsOK
    <2>2. dueOf'[j] =< now /\ (s \in present => dueOf'[j] < nextDue[s]) /\ lastResult[s] # "new"
      <3>1. CASE jobOf'[j] = jobOf[j] /\ dueOf'[j] = dueOf[j]
        BY <2>1, <3>1, NoneApart DEF DueInv, RowInv
      <3>2. CASE s = current /\ dueOf'[j] = round.queue[1].due /\ round.at = "staging"
        BY <1>6, <3>2 DEF DueInv, RowInv, starts
      <3> QED BY <1>7, <3>1, <3>2
    <2>3. s \in present
      BY <1>3, <2>1, <2>2 DEF RowMoves
    <2>4. round.at \in {"staging", "approving", "marking"} /\ s = current /\ round' = onward => dueOf'[j] < round.next
      <3> SUFFICES ASSUME round.at \in {"staging", "approving", "marking"}, s = current, round' = onward
                   PROVE  dueOf'[j] < round.next
        OBVIOUS
      <3>1. onward.job = None
        BY <1>1, RoundGoesOn
      <3>2. jobOf'[j] = jobOf[j] /\ dueOf'[j] = dueOf[j]
        BY <1>7, <3>1, NoneApart
      <3> QED BY <1>6, <3>2 DEF DueInv, starts
    <2> HIDE DEF s
    <2>5. nextDue'[s] = nextDue[s] => dueOf'[j] < nextDue'[s]
      BY <2>2, <2>3
    <2>6. nextDue'[s] = nextRun(s) => dueOf'[j] < nextDue'[s]
      BY <1>2, <1>3, <1>4, <2>1, <2>2
    <2>7. dueOf'[j] < nextDue'[s]
      BY <1>3, <2>1, <2>4, <2>5, <2>6 DEF RowMoves
    <2> QED BY <2>7 DEF s
  <1>11. \A j \in Job : \A i \in DOMAIN round'.queue :
            jobOf'[j] = round'.queue[i].id /\ j # round'.job => dueOf'[j] < round'.queue[i].due
    <2> SUFFICES ASSUME NEW j \in Job, NEW i \in DOMAIN round'.queue, jobOf'[j] = round'.queue[i].id, j # round'.job
                 PROVE  dueOf'[j] < round'.queue[i].due
      OBVIOUS
    <2>1. jobOf'[j] = jobOf[j] /\ dueOf'[j] = dueOf[j]
      BY <1>7
    <2>2. CASE round'.queue[i].id \in due /\ round'.queue[i].due = nextDue[round'.queue[i].id]
      BY <1>1, <2>1, <2>2 DEF DueInv, due, RowsOK
    <2>3. CASE /\ round' = onward /\ round.at # "idle" /\ i + 1 \in DOMAIN round.queue
               /\ round'.queue[i] = round.queue[i + 1] /\ round'.queue[i].id # current
      <3>1. j # round.job
        <4> SUFFICES ASSUME j = round.job
                     PROVE  FALSE
          OBVIOUS
        <4>1. round.job # None
          BY NoneApart
        <4> QED BY <1>6, <2>1, <2>3, <4>1 DEF RowInv
      <3> QED BY <2>1, <2>3, <3>1 DEF DueInv
    <2>4. CASE i \in DOMAIN round.queue /\ round'.queue = round.queue /\ (round' = round \/ starts')
      <3>1. j # round.job \/ round.job = None
        <4>1. CASE round'.job # None
          <5>1. round'.job = round.job \/ round.job = None
            BY <4>1, RoundJobMoves
          <5> QED BY <5>1
        <4>2. CASE round'.job = None
          <5>1. CASE round' = round
            BY <4>2, <5>1
          <5>2. CASE starts'
            <6>1. round'.at = "staging"
              BY <4>2, <5>2, RoundOKStep DEF starts, RoundOK
            <6>2. round' = round \/ Begins
              <7>1. ~tick
                <8> SUFFICES ASSUME tick
                             PROVE  FALSE
                  OBVIOUS
                <8>1. PICK queue : round' = [NoRound EXCEPT !.at = "checking", !.queue = queue]
                  BY DEF tick
                <8> QED BY <6>1, <8>1 DEF NoRound
              <7>2. round.at # "idle" => onward.at # "staging"
                BY <1>1, RoundGoesOn
              <7>3. ~Stages /\ ~Approves
                BY <1>1, <6>1 DEF Stages, Approves, RoundOK, Rounds
              <7>4. NoRound.at # "staging"
                BY DEF NoRound
              <7> QED BY <6>1, <7>1, <7>2, <7>3, <7>4, RoundMoves
            <6>3. Begins => round.job = None
              BY <1>1 DEF Begins, at, RoundOK
            <6> QED BY <4>2, <6>2, <6>3
          <5> QED BY <2>4, <5>1, <5>2
        <4> QED BY <4>1, <4>2
      <3>2. j # round.job
        BY <3>1, NoneApart
      <3> QED BY <2>1, <2>4, <3>2 DEF DueInv
    <2> QED BY <2>2, <2>3, <2>4, QueueMoves
  <1>12. starts' => /\ round'.queue[1].due < round'.next
                    /\ round'.queue[1].id \in present' => round'.queue[1].due < nextDue'[round'.queue[1].id]
                    /\ \A j \in Job : jobOf'[j] = round'.queue[1].id => dueOf'[j] < round'.next
    <2> SUFFICES ASSUME starts'
                 PROVE  /\ round'.queue[1].due < round'.next
                        /\ round'.queue[1].id \in present' => round'.queue[1].due < nextDue'[round'.queue[1].id]
                        /\ \A j \in Job : jobOf'[j] = round'.queue[1].id => dueOf'[j] < round'.next
      OBVIOUS
    <2>1. \/ Begins /\ begin
          \/ starts /\ round'.next = round.next /\ round'.queue = round.queue /\ round' # onward
      <3>1. CASE round' = round
        <4>1. onward # round
          <5>1. round.at # "idle"
            BY <3>1 DEF starts
          <5>2. onward.at \in {"idle", "checking"}
            BY <1>1, <5>1, RoundGoesOn
          <5> QED BY <3>1, <5>2 DEF starts
        <4> QED BY <3>1, <4>1 DEF starts
      <3>2. CASE Stages \/ Approves
        <4>1. /\ round'.queue = round.queue /\ round'.next = round.next /\ starts
          BY <1>1, <3>2 DEF Stages, Approves, at, RoundOK, Rounds, starts
        <4>2. onward.at \in {"idle", "checking"}
          BY <1>1, <4>1, RoundGoesOn DEF starts
        <4> QED BY <4>1, <4>2 DEF starts
      <3>3. ~tick
        <4> SUFFICES ASSUME tick
                     PROVE  FALSE
          OBVIOUS
        <4>1. PICK queue : round' = [NoRound EXCEPT !.at = "checking", !.queue = queue]
          BY DEF tick
        <4> QED BY <4>1 DEF NoRound, starts
      <3>4. ~(round' = NoRound) /\ ~(round.at # "idle" /\ round' = onward)
        <4>1. round.at # "idle" => onward.at \in {"idle", "checking"}
          BY <1>1, RoundGoesOn
        <4> QED BY <4>1 DEF NoRound, starts
      <3> QED BY <3>1, <3>2, <3>3, <3>4, RoundMoves
    <2>2. CASE Begins /\ begin
      <3>1. /\ round'.queue = round.queue /\ round'.next = nextRun(current) /\ round.at = "checking" /\ round'.job = round.job
        BY <1>1, <2>2 DEF Begins, at, RoundOK, Rounds
      <3>2. current = round.queue[1].id /\ 1 \in DOMAIN round.queue /\ current \in Schedule /\ round.job = None
        BY <1>1, <1>5, <1>6, <3>1 DEF RoundOK
      <3>3. round.queue[1].due =< now /\ round.queue[1].due \in Nat
        BY <1>5, <3>2 DEF DueInv
      <3>4. round.queue[1].due < nextRun(current)
        BY <1>2, <1>3, <3>2, <3>3
      <3>5. current \in present' => nextDue'[current] = nextRun(current)
        BY <1>1, <2>2, <3>2 DEF begin, startingDue, markScheduleRun, RowsOK
      <3>6. ASSUME NEW j \in Job, jobOf'[j] = current
            PROVE  dueOf'[j] < nextRun(current)
        <4>1. jobOf'[j] = jobOf[j] /\ dueOf'[j] = dueOf[j]
          BY <1>7, <3>1
        <4>2. dueOf[j] =< now
          BY <3>2, <3>6, <4>1, NoneApart DEF DueInv
        <4> QED BY <1>2, <1>3, <1>4, <3>2, <4>1, <4>2
      <3> QED BY <3>1, <3>2, <3>4, <3>5, <3>6
    <2>3. CASE starts /\ round'.next = round.next /\ round'.queue = round.queue /\ round' # onward
      <3>1. 1 \in DOMAIN round.queue /\ current = round.queue[1].id /\ current \in Schedule
        BY <1>5, <1>6, <2>3 DEF starts
      <3>2. round.queue[1].due < round.next /\ round.queue[1].due =< now /\ round.queue[1].due \in Nat
        BY <1>5, <2>3, <3>1 DEF DueInv
      <3>3. current \in present' => round.queue[1].due < nextDue'[current]
        <4> SUFFICES ASSUME current \in present'
                     PROVE  round.queue[1].due < nextDue'[current]
          OBVIOUS
        <4>1. current \in present
          BY <1>3, <3>1 DEF RowMoves, RowInv
        <4>2. round.queue[1].due < nextDue[current]
          BY <2>3, <3>1, <4>1 DEF DueInv
        <4>3. nextDue'[current] = nextDue[current] \/ nextDue'[current] = nextRun(current)
          BY <1>3, <2>3, <3>1 DEF RowMoves
        <4>4. round.queue[1].due < nextRun(current)
          BY <1>2, <1>3, <3>1, <3>2
        <4> QED BY <4>2, <4>3, <4>4
      <3>4. ASSUME NEW j \in Job, jobOf'[j] = current
            PROVE  dueOf'[j] < round.next
        <4>1. CASE jobOf'[j] = jobOf[j] /\ dueOf'[j] = dueOf[j]
          BY <2>3, <3>1, <3>4, <4>1 DEF DueInv
        <4>2. CASE dueOf'[j] = round.queue[1].due
          BY <3>2, <4>2
        <4> QED BY <1>7, <4>1, <4>2
      <3> QED BY <2>3, <3>1, <3>2, <3>3, <3>4
    <2> QED BY <2>1, <2>2, <2>3
  <1>13. round'.job # None => dueOf'[round'.job] = round'.queue[1].due
    <2> SUFFICES ASSUME round'.job # None
                 PROVE  dueOf'[round'.job] = round'.queue[1].due
      OBVIOUS
    <2>1. round'.queue = round.queue /\ round'.job \in Job
      BY RoundJobMoves, RoundOKStep DEF RoundOK, Rounds
    <2>2. CASE round'.job = round.job
      <3>1. dueOf'[round.job] = dueOf[round.job]
        BY <1>7, <2>1, <2>2, NoneApart
      <3> QED BY <2>1, <2>2, <3>1 DEF DueInv
    <2>3. CASE stage /\ round'.job = newJob /\ newJob \in Job
      <3>1. dueOf' = [dueOf EXCEPT ![newJob] = Head(round.queue).due] /\ at("staging")
        BY <2>3 DEF stage
      <3>2. Head(round.queue) = round.queue[1]
        BY <3>1, AtEntry DEF At
      <3> QED BY <1>1, <2>1, <2>3, <3>1, <3>2 DEF RestOK
    <2> QED BY <2>2, <2>3, RoundJobMoves
  <1>14. ASSUME NEW j \in Job, NEW k \in Job, j # k, jobOf'[j] # None, jobOf'[j] = jobOf'[k]
         PROVE  dueOf'[j] # dueOf'[k]
    <2>1. CASE jobOf'[j] = jobOf[j] /\ dueOf'[j] = dueOf[j] /\ jobOf'[k] = jobOf[k] /\ dueOf'[k] = dueOf[k]
      BY <1>14, <2>1 DEF DueInv
    <2>2. ASSUME NEW x \in Job, NEW y \in Job, x # y, jobOf'[x] = jobOf'[y],
                 round'.job = x, jobOf'[x] = current, dueOf'[x] = round.queue[1].due, round.at = "staging", round.job = None
          PROVE  dueOf'[x] # dueOf'[y]
      <3>1. jobOf'[y] = jobOf[y] /\ dueOf'[y] = dueOf[y]
        BY <1>7, <2>2
      <3>2. y # round.job /\ 1 \in DOMAIN round.queue /\ jobOf[y] = round.queue[1].id
        BY <1>6, <2>2, <3>1, NoneApart
      <3>3. dueOf[y] < round.queue[1].due
        BY <3>2 DEF DueInv
      <3> QED BY <1>4, <1>5, <2>2, <3>1, <3>2, <3>3
    <2> QED BY <1>7, <1>14, <2>1, <2>2
  <1> QED BY <1>8, <1>9, <1>10, <1>11, <1>12, <1>13, <1>14 DEF DueInv
-----------------------------------------------------------------------------
watched(j) == owns(j) /\ owner[j] # None
gone == dropped \union forgotten

(* What is in memory: jobs that are, their own schedules, and the job of   *)
(* the round until its ending is heard. Nothing is while the service is    *)
(* down, but what recovery cut off.                                        *)
MemoryInv ==
    /\ web # "up" => pending = {} /\ started = <<>> /\ \A j \in Job : owner[j] = None
    /\ web # "recovering" => interrupted = {}
    /\ web = "recovering" => activeJobs = {}
    /\ \A j \in interrupted : state[j] = "failed"
    /\ \A j \in pending : state[j] \in Ended
    /\ \A j \in Job : /\ owner[j] # None => owner[j] = jobOf[j]
                      /\ owns(j) \/ j \in gone => state[j] # "none"
                      /\ state[j] = "awaiting" /\ owns(j) => owner[j] # None
    /\ round.job # None /\ (state[round.job] \in {"awaiting", "active"} \/ round.job \in pending) => watched(round.job)

(* A row that says started will hear of its job's end, or startup will.    *)
HearInv ==
    \A s \in present : lastResult[s] = "started" =>
       /\ lastJob[s] # None
       /\ lastJob[s] \notin gone =>
             /\ web = "up" => watched(lastJob[s]) /\ (state[lastJob[s]] = "active" \/ lastJob[s] \in pending)
             /\ web # "up" => state[lastJob[s]] = "active" \/ lastJob[s] \in interrupted

(* The steps that touch neither jobs nor what is remembered of them.       *)
quiet == \/ tick \/ secretsUnread \/ pauseCarrying \/ begin \/ didNotRun \/ stageFails \/ markStarted \/ timePasses
         \/ \E s \in Schedule : create(s) \/ remove(s) \/ \E on \in BOOLEAN : setEnabled(s, on)
         \/ UNCHANGED schedVars

(* They leave the jobs and the memory of them as they were.                *)
LEMMA Quiet ==
    ASSUME quiet
    PROVE  UNCHANGED <<web, state, started, owner, pending, interrupted, jobOf, byHand, orphans, dropped, forgotten, told>>
  <1>1. CASE tick \/ secretsUnread \/ pauseCarrying \/ begin \/ didNotRun \/ stageFails \/ markStarted \/ timePasses
             \/ UNCHANGED schedVars
    BY <1>1 DEF tick, secretsUnread, pauseCarrying, begin, didNotRun, stageFails, markStarted, timePasses,
                schedVars, lifeVars, memoryVars, recordVars
  <1>2. CASE \E s \in Schedule : create(s) \/ remove(s) \/ \E on \in BOOLEAN : setEnabled(s, on)
    BY <1>2 DEF create, remove, setEnabled, lifeVars, memoryVars, recordVars
  <1> QED BY <1>1, <1>2 DEF quiet

(* The step that puts a job in a round, and the one that takes it up.      *)
LEMMA StageEffect ==
    ASSUME SchedTypeOK, RowInv, stage
    PROVE  /\ newJob \in Job /\ state[newJob] = "none" /\ current \in Schedule /\ web = "up" /\ web' = web
           /\ \A j \in Job : /\ state'[j] = IF j = newJob THEN "awaiting" ELSE state[j]
                             /\ owner'[j] = IF j = newJob THEN current ELSE owner[j]
                             /\ jobOf'[j] = IF j = newJob THEN current ELSE jobOf[j]
           /\ dropped \subseteq dropped' /\ dropped' \subseteq dropped \union Range(started)
           /\ Range(started') \subseteq Range(started) \union {newJob} /\ newJob \in Range(started')
           /\ \A k \in Range(started) : k \in Range(started') \union dropped'
           /\ round.at = "staging" /\ round.job = None /\ round'.at = "approving" /\ round'.job = newJob
           /\ UNCHANGED <<rowVars, pending, interrupted, byHand, orphans, forgotten, told>>
  <1>1. RoundOK /\ RestOK
    BY DEF SchedTypeOK
  <1>2. newJob \in Job /\ state[newJob] = "none" /\ Stage(newJob) /\ remember(newJob, current) /\ at("staging")
    BY NewJobIsNew DEF stage
  <1>3. /\ jobOf' = [jobOf EXCEPT ![newJob] = current] /\ round' = [round EXCEPT !.at = "approving", !.job = newJob]
        /\ UNCHANGED <<rowVars, pending, interrupted, byHand, orphans, forgotten, told>>
    BY DEF stage
  <1>4. current \in Schedule /\ round.at = "staging" /\ round.job = None /\ web = "up"
    BY <1>2, AtEntry DEF At
  <1> HIDE DEF newJob, current
  <1>5. web' = web /\ \A j \in Job : state'[j] = IF j = newJob THEN "awaiting" ELSE state[j]
    BY <1>1, <1>2, Moved DEF Stage
  <1>6. owner' = [owner EXCEPT ![newJob] = current]
    BY <1>2 DEF remember
  <1>7. \A j \in Job : /\ owner'[j] = IF j = newJob THEN current ELSE owner[j]
                       /\ jobOf'[j] = IF j = newJob THEN current ELSE jobOf[j]
    BY <1>1, <1>2, <1>3, <1>6 DEF RestOK
  <1>8. round'.at = "approving" /\ round'.job = newJob
    BY <1>1, <1>3 DEF RoundOK, Rounds
  <1>9. /\ dropped \subseteq dropped' /\ dropped' \subseteq dropped \union Range(started)
        /\ Range(started') \subseteq Range(started) \union {newJob} /\ newJob \in Range(started')
        /\ \A k \in Range(started) : k \in Range(started') \union dropped'
    BY <1>1, <1>2, Remembers
  <1> QED BY <1>2, <1>3, <1>4, <1>5, <1>7, <1>8, <1>9

(* The scheduler's own approval.                                           *)
LEMMA ApproveEffect ==
    ASSUME SchedTypeOK, approve
    PROVE  /\ round.job \in Job /\ state[round.job] = "awaiting" /\ web = "up" /\ web' = web
           /\ \A j \in Job : state'[j] = IF j = round.job THEN "active" ELSE state[j]
           /\ round.at = "approving" /\ round'.at = "marking" /\ round'.job = round.job
           /\ UNCHANGED <<rowVars, started, owner, pending, interrupted, jobOf, byHand, orphans, dropped, forgotten, told>>
  <1>1. RoundOK /\ RestOK
    BY DEF SchedTypeOK
  <1>2. Grant(round.job) /\ at("approving") /\ round' = [round EXCEPT !.at = "marking"]
    BY DEF approve
  <1>3. UNCHANGED <<rowVars, started, owner, pending, interrupted, jobOf, byHand, orphans, dropped, forgotten, told>>
    BY DEF approve, memoryVars, recordVars
  <1>4. round.job \in Job /\ round.at = "approving"
    BY <1>2, AtEntry DEF At
  <1>5. /\ web = "up" /\ web' = web /\ state[round.job] = "awaiting"
        /\ \A j \in Job : state'[j] = IF j = round.job THEN "active" ELSE state[j]
    BY <1>1, <1>2, Moved DEF Grant
  <1>6. round'.at = "marking" /\ round'.job = round.job
    BY <1>1, <1>2 DEF RoundOK, Rounds
  <1> QED BY <1>3, <1>4, <1>5, <1>6

(* The approval that fails: the job is withdrawn if it waits.              *)
LEMMA ApproveFailsEffect ==
    ASSUME SchedTypeOK, RowInv, approveFails
    PROVE  /\ round.job \in Job /\ round.at = "approving" /\ jobOf[round.job] = current /\ current \in Schedule
           /\ web = "up" /\ web' = web /\ round' = onward /\ round'.job = None
           /\ state[round.job] # "none" /\ state'[round.job] \in Settled
           /\ \A j \in Job : state'[j] = IF j = round.job /\ state[j] = "awaiting" THEN "cancelled" ELSE state[j]
           /\ \A j \in Job : owner'[j] = IF j = round.job THEN None ELSE owner[j]
           /\ Range(started') = Range(started) \union {round.job}
           /\ pending' = IF state[round.job] = "awaiting" THEN pending \union {round.job} ELSE pending
           /\ \A s \in Schedule : /\ lastResult'[s] = IF s = current /\ s \in present THEN "error" ELSE lastResult[s]
                                  /\ lastJob'[s] = IF s = current /\ s \in present THEN round.job ELSE lastJob[s]
           /\ UNCHANGED <<present, enabled, interrupted, jobOf, byHand, orphans, dropped, forgotten, told>>
  <1>1. RoundOK /\ RowsOK /\ RestOK
    BY DEF SchedTypeOK
  <1>2. round.job \in Job /\ round.at = "approving" /\ web = "up" /\ current \in Schedule /\ current = round.queue[1].id
    BY AtEntry DEF approveFails, At
  <1>3. round.job # None
    BY <1>2, NoneApart
  <1>4. jobOf[round.job] = current /\ state[round.job] # "none"
    BY <1>2, <1>3, NoneApart DEF RowInv
  <1>5. web' = web /\ \A j \in Job : state'[j] = IF j = round.job /\ state[j] = "awaiting" THEN "cancelled" ELSE state[j]
    <2>1. CASE state[round.job] = "awaiting"
      <3>1. Withdraw({round.job})
        BY <2>1 DEF approveFails
      <3> QED BY <1>1, <2>1, <3>1, Moved DEF Withdraw
    <2>2. CASE state[round.job] # "awaiting"
      BY <2>2 DEF approveFails, lifeVars
    <2> QED BY <2>1, <2>2
  <1>6. state'[round.job] \in Settled
    BY <1>1, <1>2, <1>4, <1>5 DEF RestOK, Settled
  <1>7. \A j \in Job : owner'[j] = IF j = round.job THEN None ELSE owner[j]
    BY <1>1 DEF approveFails, RestOK
  <1>8. Range(started') = Range(started) \union {round.job}
    <2>1. CASE round.job \in Range(started)
      BY <2>1 DEF approveFails
    <2>2. CASE round.job \notin Range(started)
      <3>1. started' = Append(started, round.job)
        BY <2>2 DEF approveFails
      <3>2. started \in Seq(Job) /\ Len(started) \in Nat
        BY <1>1 DEF RestOK
      <3>3. /\ DOMAIN started' = 1..(Len(started) + 1) /\ DOMAIN started = 1..Len(started)
            /\ started'[Len(started) + 1] = round.job
            /\ \A i \in 1..Len(started) : started'[i] = started[i]
        BY <1>2, <3>1, <3>2
      <3> QED BY <3>2, <3>3 DEF Range
    <2> QED BY <2>1, <2>2
  <1>9. \A s \in Schedule : /\ lastResult'[s] = IF s = current /\ s \in present THEN "error" ELSE lastResult[s]
                            /\ lastJob'[s] = IF s = current /\ s \in present THEN round.job ELSE lastJob[s]
    BY <1>1, <1>2 DEF approveFails, markScheduleRun, RowsOK
  <1>10. round' = onward /\ round'.job = None
    <2>1. round' = onward
      BY DEF approveFails
    <2> QED BY <1>1, <1>2, <2>1, RoundGoesOn
  <1>11. /\ pending' = IF state[round.job] = "awaiting" THEN pending \union {round.job} ELSE pending
         /\ UNCHANGED <<present, enabled, interrupted, jobOf, byHand, orphans, dropped, forgotten, told>>
    BY DEF approveFails, recordVars
  <1> QED BY <1>2, <1>4, <1>5, <1>6, <1>7, <1>8, <1>9, <1>10, <1>11

(* Someone's approval; a job that ends or is withdrawn.                    *)
LEMMA ByHandEffect ==
    ASSUME SchedTypeOK, NEW k \in Job, approveByHand(k)
    PROVE  /\ state[k] = "awaiting" /\ web = "up" /\ web' = web
           /\ \A j \in Job : state'[j] = IF j = k THEN "active" ELSE state[j]
           /\ byHand' = byHand \union {k}
           /\ UNCHANGED <<rowVars, round, started, owner, pending, interrupted, jobOf, orphans, dropped, forgotten, told>>
  <1>1. Grant(k) /\ RestOK
    BY DEF approveByHand, SchedTypeOK
  <1>2. /\ state[k] = "awaiting" /\ web = "up" /\ web' = web
        /\ \A j \in Job : state'[j] = IF j = k THEN "active" ELSE state[j]
    BY <1>1, Moved DEF Grant
  <1> QED BY <1>2 DEF approveByHand, memoryVars

LEMMA EndEffect ==
    ASSUME SchedTypeOK, NEW k \in Job, withdrawByHand(k) \/ jobEnds(k)
    PROVE  /\ web = "up" /\ web' = web
           /\ \/ state[k] = "awaiting" /\ state'[k] = "cancelled"
              \/ state[k] = "active" /\ state'[k] \in {"completed", "failed"}
           /\ \A j \in Job : j # k => state'[j] = state[j]
           /\ pending' = pending \union {k}
           /\ UNCHANGED <<rowVars, round, started, owner, interrupted, jobOf, byHand, orphans, dropped, forgotten, told>>
  <1>1. RestOK
    BY DEF SchedTypeOK
  <1>2. /\ Withdraw({k}) \/ Complete(k) \/ Fail(k)
        /\ pending' = pending \union {k}
        /\ UNCHANGED <<rowVars, round, started, owner, interrupted, jobOf, byHand, orphans, dropped, forgotten, told>>
    BY DEF withdrawByHand, jobEnds, recordVars
  <1>3. CASE Withdraw({k})
    BY <1>1, <1>2, <1>3, Moved DEF Withdraw
  <1>4. CASE Complete(k)
    BY <1>1, <1>2, <1>4, Moved DEF Complete
  <1>5. CASE Fail(k)
    BY <1>1, <1>2, <1>5, Moved DEF Fail
  <1> QED BY <1>2, <1>3, <1>4, <1>5

(* A job's ending is delivered.                                            *)
LEMMA OnJobEffect ==
    ASSUME SchedTypeOK, NEW k \in Job, onJob(k)
    PROVE  /\ web = "up" /\ web' = web /\ k \in pending /\ pending' = pending \ {k}
           /\ \A j \in Job : owner'[j] = IF j = k /\ owns(k) THEN None ELSE owner[j]
           /\ \A j \in Job : told'[j] = IF /\ j = k /\ state[k] = "failed"
                                           /\ ~owns(k) \/ (watched(k) /\ owner[k] \in present) THEN told[j] + 1 ELSE told[j]
           /\ IF watched(k)
              THEN \A s \in Schedule : lastResult'[s] = IF s \in present /\ lastJob[s] = k /\ lastResult[s] = "started"
                                                        THEN "ended" ELSE lastResult[s]
              ELSE lastResult' = lastResult
           /\ UNCHANGED <<state, present, enabled, lastJob, round, started, interrupted, jobOf, byHand, orphans, dropped, forgotten>>
  <1>1. RowsOK /\ RestOK
    BY DEF SchedTypeOK
  <1>2. /\ web = "up" /\ web' = web /\ k \in pending /\ pending' = pending \ {k}
        /\ UNCHANGED <<state, present, enabled, lastJob, round, started, interrupted, jobOf, byHand, orphans, dropped, forgotten>>
    BY DEF onJob, lifeVars
  <1>3. \A j \in Job : owner'[j] = IF j = k /\ owns(k) THEN None ELSE owner[j]
    BY <1>1 DEF onJob, RestOK
  <1>4. \A j \in Job : told'[j] = IF /\ j = k /\ state[k] = "failed"
                                     /\ ~owns(k) \/ (watched(k) /\ owner[k] \in present) THEN told[j] + 1 ELSE told[j]
    BY <1>1 DEF onJob, RestOK, watched
  <1>5. CASE watched(k)
    <2>1. settleScheduleRun({k})
      BY <1>5 DEF onJob, watched
    <2>2. \A s \in Schedule : lastResult'[s] = IF s \in present /\ lastJob[s] = k /\ lastResult[s] = "started"
                                               THEN "ended" ELSE lastResult[s]
      BY <1>1, <2>1 DEF settleScheduleRun, RowsOK
    <2> QED BY <1>2, <1>3, <1>4, <1>5, <2>2
  <1>6. CASE ~watched(k)
    <2>1. lastResult' = lastResult
      BY <1>6 DEF onJob, watched
    <2> QED BY <1>2, <1>3, <1>4, <1>6, <2>1
  <1> QED BY <1>5, <1>6
-----------------------------------------------------------------------------
(* The service stops; startup fails what was under way; startup goes on.   *)
LEMMA StopEffect ==
    ASSUME SchedTypeOK, stop
    PROVE  /\ web' = "down" /\ web # "down" /\ state' = state
           /\ Range(started') = {} /\ started' = <<>> /\ (\A j \in Job : owner'[j] = None)
           /\ pending' = {} /\ interrupted' = {} /\ round' = NoRound /\ round'.job = None
           /\ orphans' = (IF round.job = None THEN orphans ELSE orphans \union {round.job})
           /\ forgotten' = forgotten \union pending \union interrupted
           /\ UNCHANGED <<rowVars, jobOf, byHand, dropped, told>>
  <1>1. /\ web' = "down" /\ web # "down" /\ state' = state /\ started' = <<>> /\ owner' = [j \in Job |-> None]
        /\ pending' = {} /\ interrupted' = {} /\ round' = NoRound
        /\ orphans' = (IF round.job = None THEN orphans ELSE orphans \union {round.job})
        /\ forgotten' = forgotten \union pending \union interrupted
        /\ UNCHANGED <<rowVars, jobOf, byHand, dropped, told>>
    BY DEF stop, Die
  <1>2. Range(started') = {}
    BY <1>1 DEF Range
  <1>3. round'.job = None
    BY <1>1 DEF NoRound
  <1> QED BY <1>1, <1>2, <1>3

(* Startup fails what was under way, and remembers it.                     *)
LEMMA RecoveryEffect ==
    ASSUME SchedTypeOK, recoverInterruptedJobs
    PROVE  /\ web = "down" /\ web' = "recovering" /\ interrupted' = activeJobs
           /\ \A j \in Job : state'[j] = IF state[j] = "active" THEN "failed" ELSE state[j]
           /\ UNCHANGED <<rowVars, round, started, owner, pending, jobOf, byHand, orphans, dropped, forgotten, told>>
  BY DEF recoverInterruptedJobs, Recover, activeJobs, recordVars

(* The rest of startup settles and tells what recovery failed.             *)
LEMMA RecoverEffect ==
    ASSUME SchedTypeOK, recover
    PROVE  /\ web = "recovering" /\ web' = "up" /\ state' = state /\ interrupted' = {}
           /\ Range(started') \subseteq interrupted
           /\ \A s \in Schedule : lastResult'[s] = IF s \in present /\ lastJob[s] \in interrupted /\ lastResult[s] = "started"
                                                   THEN "ended" ELSE lastResult[s]
           /\ told' = [j \in Job |-> told[j] + Cardinality({s \in present : lastJob[s] = j /\ j \in interrupted})
                                             + (IF j \in others(interrupted) THEN 1 ELSE 0)]
           /\ UNCHANGED <<present, enabled, nextDue, lastJob, round, owner, pending, jobOf, byHand, orphans, dropped, forgotten>>
  <1>1. RowsOK /\ RestOK
    BY DEF SchedTypeOK
  <1>2. PICK all \in SetToSeqs({lastJob[s] : s \in present} \intersect interrupted) :
             started' = SubSeq(all, 1 + Cardinality(1..(Len(all) - Memory)), Len(all))
    BY DEF recover
  <1>3. Range(started') \subseteq interrupted
    BY <1>1, <1>2, PutBack
  <1>4. settleScheduleRun(interrupted)
    BY DEF recover
  <1>5. \A s \in Schedule : lastResult'[s] = IF s \in present /\ lastJob[s] \in interrupted /\ lastResult[s] = "started"
                                             THEN "ended" ELSE lastResult[s]
    BY <1>1, <1>4 DEF settleScheduleRun, RowsOK
  <1> QED BY <1>3, <1>5 DEF recover, Back

(* What is in memory holds at first.                                       *)
LEMMA MemoryInvInit ==
    ASSUME SchedInit
    PROVE  MemoryInv
  <1>1. Range(<<>>) = {}
    BY DEF Range
  <1> QED BY <1>1 DEF SchedInit, LifeInit, NoRound, MemoryInv, owns, gone, Ended

(* Every step keeps it.                                                    *)
LEMMA MemoryInvStep ==
    ASSUME SchedTypeOK, RowInv, MemoryInv, [SchedNext]_schedVars
    PROVE  MemoryInv'
  <1>1. RoundOK /\ RowsOK /\ RestOK
    BY DEF SchedTypeOK
  <1>2. \A j \in Job : state[j] = "none" => ~owns(j) /\ j \notin gone /\ j \notin pending /\ j \notin interrupted
    BY DEF MemoryInv, Ended
  <1>3. CASE quiet
    <2>1. UNCHANGED <<web, state, started, owner, pending, interrupted, jobOf, dropped, forgotten>>
      BY <1>3, Quiet
    <2>2. round'.job = None \/ round'.job = round.job
      <3>1. ~stage \/ round'.job = None
        <4> SUFFICES ASSUME stage, round'.job # None
                     PROVE  FALSE
          OBVIOUS
        <4>1. newJob \in Job /\ state[newJob] = "none" /\ state'[newJob] = "awaiting"
          BY StageEffect
        <4> QED BY <2>1, <4>1
      <3> QED BY <3>1, RoundJobMoves
    <2> QED BY <2>1, <2>2 DEF MemoryInv, watched, owns, gone, activeJobs
  <1>4. CASE stage
    <2> HIDE DEF newJob, current
    <2>1. web' = "up" /\ interrupted = {} /\ interrupted' = {} /\ pending' = pending
      BY <1>4, StageEffect DEF MemoryInv
    <2>2. ASSUME NEW j \in Job
          PROVE  /\ owner'[j] # None => owner'[j] = jobOf'[j]
                 /\ owns(j)' \/ j \in gone' => state'[j] # "none"
                 /\ state'[j] = "awaiting" /\ owns(j)' => owner'[j] # None
                 /\ j \in pending => state'[j] \in Ended
      <3>1. CASE j = newJob
        <4>1. state'[j] = "awaiting" /\ owner'[j] = current /\ jobOf'[j] = current /\ current # None
          BY <1>4, <3>1, StageEffect, NoneApart
        <4>2. j \notin pending
          BY <1>2, <1>4, <3>1, StageEffect
        <4> QED BY <4>1, <4>2
      <3>2. CASE j # newJob
        <4>1. state'[j] = state[j] /\ owner'[j] = owner[j] /\ jobOf'[j] = jobOf[j]
          BY <1>4, <3>2, StageEffect
        <4>2. owns(j)' => owns(j)
          BY <1>4, <3>2, StageEffect DEF owns
        <4>3. j \in gone' => j \in gone \/ owns(j)
          BY <1>4, StageEffect DEF owns, gone
        <4> QED BY <4>1, <4>2, <4>3 DEF MemoryInv
      <3> QED BY <3>1, <3>2
    <2>3. round'.job \in Range(started') /\ owner'[round'.job] # None
      <3>1. round'.job = newJob /\ newJob \in Job /\ owner'[newJob] = current /\ current # None /\ newJob \in Range(started')
        BY <1>4, StageEffect, NoneApart
      <3> QED BY <3>1
    <2> QED BY <1>1, <2>1, <2>2, <2>3 DEF MemoryInv, RestOK, watched, owns
  <1>5. CASE approve
    <2>1. \A j \in Job : j \in pending => j # round.job
      BY <1>5, ApproveEffect DEF MemoryInv, Ended
    <2>2. web' = "up" /\ interrupted' = {}
      BY <1>5, ApproveEffect DEF MemoryInv
    <2>3. \A j \in Job : /\ state'[j] # "none" <=> state[j] # "none"
                         /\ state'[j] = "awaiting" => state[j] = "awaiting"
      BY <1>5, ApproveEffect
    <2>4. watched(round.job)
      BY <1>5, ApproveEffect, NoneApart DEF MemoryInv
    <2>5. UNCHANGED <<started, owner, pending, jobOf, dropped, forgotten>> /\ round'.job = round.job
      BY <1>5, ApproveEffect
    <2>6. \A j \in pending : state'[j] \in Ended
      BY <1>1, <1>5, <2>1, ApproveEffect DEF MemoryInv, RestOK
    <2> QED BY <2>2, <2>3, <2>4, <2>5, <2>6 DEF MemoryInv, watched, owns, gone
  <1>6. CASE approveFails
    <2>1. web' = "up" /\ interrupted' = {} /\ round'.job = None
      BY <1>6, ApproveFailsEffect DEF MemoryInv
    <2>2. ASSUME NEW j \in Job
          PROVE  /\ owner'[j] # None => owner'[j] = jobOf'[j]
                 /\ owns(j)' \/ j \in gone' => state'[j] # "none"
                 /\ state'[j] = "awaiting" /\ owns(j)' => owner'[j] # None
                 /\ j \in pending' => state'[j] \in Ended
      <3>1. CASE j = round.job
        <4>1. owner'[j] = None /\ state'[j] \in Settled /\ state'[j] = IF state[j] = "awaiting" THEN "cancelled" ELSE state[j]
          BY <1>6, <3>1, ApproveFailsEffect
        <4>2. j \in pending' => state[j] = "awaiting" \/ j \in pending
          BY <1>6, <3>1, ApproveFailsEffect
        <4> QED BY <4>1, <4>2 DEF MemoryInv, Settled, Ended
      <3>2. CASE j # round.job
        <4>1. state'[j] = state[j] /\ owner'[j] = owner[j] /\ jobOf'[j] = jobOf[j] /\ (j \in pending' => j \in pending)
          BY <1>6, <3>2, ApproveFailsEffect
        <4>2. owns(j)' => owns(j)
          BY <1>6, <3>2, ApproveFailsEffect DEF owns
        <4>3. gone' = gone
          BY <1>6, ApproveFailsEffect DEF gone
        <4> QED BY <4>1, <4>2, <4>3 DEF MemoryInv
      <3> QED BY <3>1, <3>2
    <2>3. pending' \subseteq Job
      BY RestOKStep DEF RestOK
    <2> QED BY <2>1, <2>2, <2>3 DEF MemoryInv
  <1>7. ASSUME NEW k \in Job, approveByHand(k)
        PROVE  MemoryInv'
    <2>1. web' = "up" /\ interrupted' = {}
      BY <1>7, ByHandEffect DEF MemoryInv
    <2>2. \A j \in Job : /\ state'[j] # "none" <=> state[j] # "none"
                         /\ state'[j] = "awaiting" => state[j] = "awaiting"
                         /\ state'[j] = "active" => state[j] \in {"awaiting", "active"}
      BY <1>7, ByHandEffect
    <2>3. UNCHANGED <<round, started, owner, pending, jobOf, dropped, forgotten>>
      BY <1>7, ByHandEffect
    <2>4. \A j \in pending : state'[j] \in Ended
      BY <1>1, <1>7, ByHandEffect DEF MemoryInv, RestOK, Ended
    <2>5. round.job # None => round.job \in Job
      BY <1>1 DEF RoundOK, Rounds
    <2> QED BY <2>1, <2>2, <2>3, <2>4, <2>5 DEF MemoryInv, watched, owns, gone
  <1>8. ASSUME NEW k \in Job, withdrawByHand(k) \/ jobEnds(k)
        PROVE  MemoryInv'
    <2>1. web' = "up" /\ interrupted' = {}
      BY <1>8, EndEffect DEF MemoryInv
    <2>2. \A j \in Job : /\ state'[j] # "none" <=> state[j] # "none"
                         /\ state'[j] = "awaiting" => state[j] = "awaiting"
                         /\ state'[j] = "active" => state[j] = "active"
                         /\ j \in pending' => j \in pending \/ state[j] \in {"awaiting", "active"}
      BY <1>8, EndEffect
    <2>3. UNCHANGED <<round, started, owner, jobOf, dropped, forgotten>>
      BY <1>8, EndEffect
    <2>4. ASSUME NEW j \in pending'
          PROVE  state'[j] \in Ended
      <3>1. CASE j = k
        BY <1>8, <3>1, EndEffect DEF Ended
      <3>2. CASE j # k
        <4>1. j \in pending /\ j \in Job /\ state'[j] = state[j]
          BY <1>1, <1>8, <3>2, EndEffect DEF RestOK
        <4> QED BY <4>1 DEF MemoryInv
      <3> QED BY <3>1, <3>2
    <2>5. round.job # None => round.job \in Job
      BY <1>1 DEF RoundOK, Rounds
    <2> QED BY <2>1, <2>2, <2>3, <2>4, <2>5 DEF MemoryInv, watched, owns, gone
  <1>9. ASSUME NEW k \in Job, onJob(k)
        PROVE  MemoryInv'
    <2>1. web' = "up" /\ interrupted' = {} /\ k \in pending /\ state[k] \in Ended /\ pending' = pending \ {k}
      BY <1>9, OnJobEffect DEF MemoryInv
    <2>2. UNCHANGED <<state, round, started, jobOf, dropped, forgotten>>
      BY <1>9, OnJobEffect
    <2>3. \A j \in Job : owner'[j] = owner[j] \/ (j = k /\ owner'[j] = None)
      BY <1>9, OnJobEffect
    <2>4. round.job # None => round.job \in Job
      BY <1>1 DEF RoundOK, Rounds
    <2> QED BY <2>1, <2>2, <2>3, <2>4 DEF MemoryInv, watched, owns, gone, Ended
  <1>10. CASE stop
    <2>1. \A j \in Job : j \in gone' => state[j] # "none"
      <3>1. \A j \in Job : j \in gone' => j \in gone \/ j \in pending \/ j \in interrupted
        BY <1>10, StopEffect DEF gone
      <3> QED BY <1>2, <3>1
    <2>2. \A j : ~owns(j)'
      BY <1>10, StopEffect DEF owns
    <2> QED BY <1>10, <2>1, <2>2, StopEffect DEF MemoryInv
  <1>11. CASE recoverInterruptedJobs
    <2>1. /\ web = "down" /\ web' = "recovering" /\ interrupted' = activeJobs
          /\ \A j \in Job : state'[j] = IF state[j] = "active" THEN "failed" ELSE state[j]
          /\ UNCHANGED <<round, started, owner, pending, jobOf, dropped, forgotten>>
      BY <1>11, RecoveryEffect
    <2>2. pending = {} /\ started = <<>> /\ \A j \in Job : owner[j] = None
      BY <2>1 DEF MemoryInv
    <2>3. round.job = None
      BY <1>1, <2>1 DEF RoundOK
    <2>4. \A j \in interrupted' : state'[j] = "failed"
      BY <2>1 DEF activeJobs
    <2>5. activeJobs' = {}
      BY <2>1 DEF activeJobs
    <2>6. \A j \in Job : owns(j)' \/ j \in gone' => state'[j] # "none"
      BY <2>1 DEF MemoryInv, owns, gone
    <2>7. Range(<<>>) = {}
      BY DEF Range
    <2> QED BY <2>1, <2>2, <2>3, <2>4, <2>5, <2>6, <2>7 DEF MemoryInv, owns
  <1>12. CASE recover
    <2>1. /\ web = "recovering" /\ web' = "up" /\ state' = state /\ interrupted' = {}
          /\ Range(started') \subseteq interrupted
          /\ UNCHANGED <<round, owner, pending, jobOf, dropped, forgotten>>
      BY <1>12, RecoverEffect
    <2>2. pending = {} /\ \A j \in Job : owner[j] = None
      BY <2>1 DEF MemoryInv
    <2>3. round.job = None
      BY <1>1, <2>1 DEF RoundOK
    <2>4. \A j \in Job : owns(j)' => state[j] = "failed"
      BY <2>1 DEF MemoryInv, owns
    <2>5. \A j \in Job : j \in gone' => state[j] # "none"
      BY <2>1 DEF MemoryInv, gone
    <2> QED BY <2>1, <2>2, <2>3, <2>4, <2>5 DEF MemoryInv
  <1> QED BY <1>3, <1>4, <1>5, <1>6, <1>7, <1>8, <1>9, <1>10, <1>11, <1>12 DEF SchedNext, RoundStep, quiet
-----------------------------------------------------------------------------
heard(j) == /\ web = "up" => watched(j) /\ (state[j] = "active" \/ j \in pending)
            /\ web # "up" => state[j] = "active" \/ j \in interrupted

(* A row says started because it said so, or was just marked.              *)
LEMMA StartedRow ==
    ASSUME SchedTypeOK, quiet, NEW s \in present', lastResult'[s] = "started"
    PROVE  \/ s \in present /\ lastResult[s] = "started" /\ lastJob'[s] = lastJob[s]
           \/ markStarted /\ s \in present /\ lastJob'[s] = round.job /\ ~endedAlready(round.job)
  <1>1. RowsOK
    BY DEF SchedTypeOK
  <1>2. CASE tick \/ timePasses \/ UNCHANGED schedVars
    BY <1>2 DEF tick, timePasses, schedVars, rowVars
  <1>3. ASSUME NEW r \in Result, NEW j, NEW d, markScheduleRun(current, j, r, d), UNCHANGED present
        PROVE  /\ s \in present /\ s \in Schedule
               /\ \/ s # current /\ lastResult[s] = "started" /\ lastJob'[s] = lastJob[s]
                  \/ s = current /\ r = "started" /\ lastJob'[s] = j
    <2>1. s \in present /\ s \in Schedule
      BY <1>1, <1>3 DEF RowsOK
    <2>2. /\ lastJob'[s] = IF s = current THEN j ELSE lastJob[s]
          /\ lastResult'[s] = IF s = current THEN r ELSE lastResult[s]
      BY <1>1, <1>3, <2>1 DEF markScheduleRun, RowsOK
    <2> QED BY <2>1, <2>2
  <1>4. CASE secretsUnread \/ didNotRun
    <2>1. markScheduleRun(current, lastJob[current], "error", nextRun(current)) /\ UNCHANGED present
      BY <1>4 DEF secretsUnread, didNotRun
    <2> QED BY <1>3, <2>1 DEF Result
  <1>5. CASE stageFails
    <2>1. markScheduleRun(current, lastJob[current], "error", round.next) /\ UNCHANGED present
      BY <1>5 DEF stageFails
    <2> QED BY <1>3, <2>1 DEF Result
  <1>6. CASE begin
    <2>1. markScheduleRun(current, lastJob[current], "starting", startingDue) /\ UNCHANGED present
      BY <1>6 DEF begin
    <2> QED BY <1>3, <2>1 DEF Result
  <1>7. CASE pauseCarrying
    <2>1. lastJob' = lastJob /\ present' = present /\ (lastResult' = lastResult \/ lastResult' = [lastResult EXCEPT ![current] = "paused"])
      BY <1>7 DEF pauseCarrying
    <2>2. s \in Schedule /\ s \in present
      BY <1>1, <2>1 DEF RowsOK
    <2> HIDE DEF current
    <2>3. lastResult[s] = "started"
      BY <1>1, <2>1, <2>2 DEF RowsOK
    <2> QED BY <2>1, <2>2, <2>3
  <1>8. CASE markStarted
    <2>1. /\ markScheduleRun(current, round.job, IF endedAlready(round.job) THEN "ended" ELSE "started", round.next)
          /\ UNCHANGED present
      BY <1>8 DEF markStarted
    <2> DEFINE r == IF endedAlready(round.job) THEN "ended" ELSE "started"
    <2>2. r \in Result /\ (r = "started" => ~endedAlready(round.job))
      BY DEF Result
    <2>3. markScheduleRun(current, round.job, r, round.next)
      BY <2>1
    <2> HIDE DEF r
    <2> QED BY <1>3, <1>8, <2>1, <2>2, <2>3
  <1>9. ASSUME NEW x \in Schedule, create(x) \/ remove(x) \/ \E on \in BOOLEAN : setEnabled(x, on)
        PROVE  s \in present /\ lastResult[s] = "started" /\ lastJob'[s] = lastJob[s]
    <2>1. CASE create(x)
      BY <1>1, <2>1 DEF create, RowsOK
    <2>2. CASE remove(x) \/ \E on \in BOOLEAN : setEnabled(x, on)
      BY <2>2 DEF remove, setEnabled
    <2> QED BY <1>9, <2>1, <2>2
  <1> QED BY <1>2, <1>4, <1>5, <1>6, <1>7, <1>8, <1>9 DEF quiet

(* That a started row hears of its job's end holds at first.               *)
LEMMA HearInvInit ==
    ASSUME SchedInit
    PROVE  HearInv
  BY DEF SchedInit, HearInv

(* Every step keeps it.                                                    *)
LEMMA HearInvStep ==
    ASSUME SchedTypeOK, RowInv, MemoryInv, HearInv, [SchedNext]_schedVars
    PROVE  HearInv'
  <1>1. RoundOK /\ RowsOK /\ RestOK
    BY DEF SchedTypeOK
  <1>2. \A s \in present : lastResult[s] = "started" =>
           /\ s \in Schedule /\ lastJob[s] # None /\ lastJob[s] \in Job
           /\ jobOf[lastJob[s]] = s /\ state[lastJob[s]] \in Settled
           /\ lastJob[s] \notin gone => heard(lastJob[s])
    BY <1>1 DEF HearInv, RowsOK, RowInv, heard
  <1> SUFFICES ASSUME NEW s \in present', lastResult'[s] = "started"
                 PROVE  /\ lastJob'[s] # None
                        /\ lastJob'[s] \notin gone' =>
                              /\ web' = "up" => /\ lastJob'[s] \in Range(started') /\ owner'[lastJob'[s]] # None
                                                /\ state'[lastJob'[s]] = "active" \/ lastJob'[s] \in pending'
                              /\ web' # "up" => state'[lastJob'[s]] = "active" \/ lastJob'[s] \in interrupted'
    BY DEF HearInv, watched, owns
  <1> DEFINE j == lastJob[s]
             Kept == /\ s \in present /\ lastResult[s] = "started" /\ lastJob'[s] = j
                     /\ s \in Schedule /\ j # None /\ j \in Job /\ jobOf[j] = s /\ state[j] \in Settled
                     /\ j \notin gone => heard(j)
  <1>4. s \in present /\ lastResult[s] = "started" /\ lastJob'[s] = lastJob[s] => Kept
    BY <1>2
  <1> HIDE DEF Kept
  <1>5. CASE quiet
    <2>1. UNCHANGED <<web, state, started, owner, pending, interrupted, dropped, forgotten>>
      BY <1>5, Quiet
    <2>2. CASE Kept
      BY <2>1, <2>2 DEF Kept, heard, watched, owns, gone
    <2>3. CASE markStarted /\ s \in present /\ lastJob'[s] = round.job /\ ~endedAlready(round.job)
      <3>1. at("marking")
        BY <2>3 DEF markStarted
      <3>2. round.at = "marking" /\ round.job \in Job /\ web = "up" /\ round.job # None
        BY <3>1, AtEntry, NoneApart DEF At
      <3>3. state[round.job] = "active"
        BY <1>1, <2>3, <3>2 DEF RowInv, Settled, endedAlready, Ended
      <3>4. watched(round.job)
        BY <3>2, <3>3 DEF MemoryInv
      <3> QED BY <2>1, <2>3, <3>2, <3>3, <3>4 DEF watched, owns
    <2> QED BY <1>4, <1>5, <2>2, <2>3, StartedRow
  <1>6. CASE stage
    <2> HIDE DEF newJob, current
    <2>1. Kept
      BY <1>4, <1>6, StageEffect DEF rowVars
    <2>2. j # newJob /\ state[newJob] = "none" /\ web = "up" /\ web' = "up"
      BY <1>6, <2>1, StageEffect DEF Kept, Settled
    <2>3. state'[j] = state[j] /\ owner'[j] = owner[j] /\ pending' = pending /\ (owns(j) => j \in Range(started') \/ j \in gone')
          /\ (j \in gone => j \in gone')
      BY <1>6, <2>1, <2>2, StageEffect DEF Kept, owns, gone
    <2> QED BY <2>1, <2>2, <2>3 DEF Kept, heard, watched
  <1>7. CASE approve
    <2>1. Kept
      BY <1>4, <1>7, ApproveEffect DEF rowVars
    <2>2. web = "up" /\ web' = web /\ state'[j] = state[j] /\ UNCHANGED <<started, owner, pending, dropped, forgotten>>
      BY <1>7, <2>1, ApproveEffect DEF Kept, Settled
    <2> QED BY <2>1, <2>2 DEF Kept, heard, watched, owns, gone
  <1>8. CASE approveFails
    <2> HIDE DEF current
    <2>1. s \in Schedule /\ s \in present /\ s # current
      BY <1>1, <1>8, ApproveFailsEffect DEF RowsOK
    <2>2. Kept
      BY <1>4, <1>8, <2>1, ApproveFailsEffect
    <2>3. j # round.job
      BY <1>8, <2>1, <2>2, ApproveFailsEffect DEF Kept
    <2>4. web = "up" /\ web' = web /\ state'[j] = state[j] /\ owner'[j] = owner[j]
      BY <1>8, <2>2, <2>3, ApproveFailsEffect DEF Kept
    <2>5. (j \in pending => j \in pending') /\ (owns(j) => j \in Range(started')) /\ gone' = gone
      BY <1>8, ApproveFailsEffect DEF owns, gone
    <2> QED BY <2>2, <2>4, <2>5 DEF Kept, heard, watched
  <1>9. ASSUME NEW k \in Job, approveByHand(k)
        PROVE  Kept /\ web = "up" /\ web' = web /\ state'[j] = state[j] /\ UNCHANGED <<started, owner, pending, dropped, forgotten>>
    <2>1. Kept
      BY <1>4, <1>9, ByHandEffect DEF rowVars
    <2> QED BY <1>9, <2>1, ByHandEffect DEF Kept, Settled
  <1>10. ASSUME NEW k \in Job, withdrawByHand(k) \/ jobEnds(k)
         PROVE  /\ Kept /\ web = "up" /\ web' = web /\ UNCHANGED <<started, owner, dropped, forgotten>>
                /\ state[j] = "active" \/ j \in pending => state'[j] = "active" \/ j \in pending'
    <2>1. Kept
      BY <1>4, <1>10, EndEffect DEF rowVars
    <2>2. j # k => state'[j] = state[j]
      BY <1>10, <2>1, EndEffect DEF Kept
    <2> QED BY <1>10, <2>1, <2>2, EndEffect
  <1>11. ASSUME NEW k \in Job, onJob(k)
         PROVE  /\ Kept /\ web = "up" /\ web' = web /\ UNCHANGED <<state, started, dropped, forgotten>>
                /\ j = k => j \in gone
                /\ j # k => owner'[j] = owner[j] /\ (j \in pending => j \in pending')
    <2>1. present' = present /\ lastJob' = lastJob
      BY <1>11, OnJobEffect
    <2>2. s \in Schedule /\ s \in present
      BY <1>1, <2>1 DEF RowsOK
    <2>3. lastResult[s] = "started" /\ (j = k => ~watched(k))
      BY <1>11, <2>1, <2>2, OnJobEffect
    <2>4. Kept
      BY <1>4, <2>1, <2>2, <2>3
    <2>5. web = "up" /\ web' = web /\ UNCHANGED <<state, started, dropped, forgotten>> /\ pending' = pending \ {k}
      BY <1>11, OnJobEffect
    <2>6. j = k => j \in gone
      BY <2>3, <2>4, <2>5 DEF Kept, heard
    <2>7. j # k => owner'[j] = owner[j]
      BY <1>11, <2>4, OnJobEffect DEF Kept
    <2> QED BY <2>4, <2>5, <2>6, <2>7
  <1>12. CASE stop
    <2>1. Kept
      BY <1>4, <1>12, StopEffect DEF rowVars
    <2>2. web' = "down" /\ state' = state /\ dropped' = dropped /\ forgotten' = forgotten \union pending \union interrupted
      BY <1>12, StopEffect
    <2> QED BY <2>1, <2>2 DEF Kept, heard, gone
  <1>13. CASE recoverInterruptedJobs
    <2>1. Kept
      BY <1>4, <1>13, RecoveryEffect DEF rowVars
    <2>2. web = "down" /\ web' = "recovering" /\ interrupted' = activeJobs /\ interrupted = {} /\ UNCHANGED <<dropped, forgotten>>
      BY <1>13, RecoveryEffect DEF MemoryInv
    <2> QED BY <2>1, <2>2 DEF Kept, heard, gone, activeJobs
  <1>14. CASE recover
    <2>1. present' = present /\ lastJob' = lastJob
      BY <1>14, RecoverEffect
    <2>2. s \in Schedule /\ s \in present
      BY <1>1, <2>1 DEF RowsOK
    <2>3. lastResult[s] = "started" /\ j \notin interrupted
      BY <1>14, <2>1, <2>2, RecoverEffect
    <2>4. Kept
      BY <1>4, <2>1, <2>2, <2>3
    <2>5. web = "recovering" /\ activeJobs = {} /\ UNCHANGED <<dropped, forgotten>>
      BY <1>14, RecoverEffect DEF MemoryInv
    <2>6. j \in gone
      BY <2>3, <2>4, <2>5 DEF Kept, heard, activeJobs
    <2> QED BY <2>4, <2>5, <2>6 DEF Kept, gone
  <1>15. ASSUME NEW k \in Job, approveByHand(k) \/ withdrawByHand(k) \/ jobEnds(k) \/ onJob(k)
         PROVE  /\ lastJob'[s] # None
                /\ lastJob'[s] \notin gone' =>
                      /\ web' = "up" => /\ lastJob'[s] \in Range(started') /\ owner'[lastJob'[s]] # None
                                        /\ state'[lastJob'[s]] = "active" \/ lastJob'[s] \in pending'
                      /\ web' # "up" => state'[lastJob'[s]] = "active" \/ lastJob'[s] \in interrupted'
    <2>1. CASE approveByHand(k)
      BY <1>9, <2>1 DEF Kept, heard, watched, owns, gone
    <2>2. CASE withdrawByHand(k) \/ jobEnds(k)
      BY <1>10, <2>2 DEF Kept, heard, watched, owns, gone
    <2>3. CASE onJob(k)
      BY <1>11, <2>3 DEF Kept, heard, watched, owns, gone
    <2> QED BY <1>15, <2>1, <2>2, <2>3
  <1> QED BY <1>5, <1>6, <1>7, <1>8, <1>12, <1>13, <1>14, <1>15 DEF SchedNext, RoundStep, quiet
-----------------------------------------------------------------------------
(* Approved by a person while the scheduler was approving it.              *)
unheard == byHand \ (orphans \union {round.job})

(* A failure is told once, and not before its event is out; what is never  *)
(* told was approved by hand, or its schedule is gone.                     *)
ToldInv ==
    /\ \A j \in Job : /\ told[j] > 0 => told[j] = 1 /\ state[j] = "failed" /\ j \notin pending \union interrupted
                      /\ j \in byHand => state[j] # "none"
                      /\ /\ owns(j) /\ owner[j] = None
                         /\ state[j] = "active" \/ (j \in pending /\ state[j] = "failed")
                         => j \in unheard
                      /\ state[j] = "failed" /\ told[j] = 0 =>
                            \/ j \in pending \union forgotten \union interrupted \union unheard
                            \/ jobOf[j] \notin present
    /\ round.at = "approving" /\ state[round.job] \in {"active", "completed", "failed"} => round.job \in byHand

(* No approval by a person is taken back.                                  *)
LEMMA ByHandGrows ==
    ASSUME SchedTypeOK, RowInv, [SchedNext]_schedVars
    PROVE  byHand \subseteq byHand'
  <1>1. CASE quiet
    BY <1>1, Quiet
  <1>2. CASE stage
    <2> HIDE DEF newJob, current
    <2> QED BY <1>2, StageEffect
  <1>3. CASE approve
    BY <1>3, ApproveEffect
  <1>4. CASE approveFails
    <2> HIDE DEF current
    <2> QED BY <1>4, ApproveFailsEffect
  <1>5. ASSUME NEW k \in Job, approveByHand(k) \/ withdrawByHand(k) \/ jobEnds(k) \/ onJob(k)
        PROVE  byHand \subseteq byHand'
    BY <1>5, ByHandEffect, EndEffect, OnJobEffect
  <1>6. CASE stop
    BY <1>6, StopEffect
  <1>7. CASE recoverInterruptedJobs
    BY <1>7, RecoveryEffect
  <1>8. CASE recover
    BY <1>8, RecoverEffect
  <1> QED BY <1>1, <1>2, <1>3, <1>4, <1>5, <1>6, <1>7, <1>8 DEF SchedNext, RoundStep, quiet

(* What is unheard stays so.                                               *)
LEMMA UnheardStays ==
    ASSUME SchedTypeOK, RowInv, ToldInv, [SchedNext]_schedVars
    PROVE  unheard \subseteq unheard'
  <1> SUFFICES ASSUME NEW j \in unheard
               PROVE  j \in unheard'
    OBVIOUS
  <1>1. j \in byHand /\ j \notin orphans /\ j # round.job /\ j \in Job /\ state[j] # "none"
    BY DEF unheard, ToldInv, SchedTypeOK, RestOK
  <1>2. j \notin orphans'
    <2> HIDE DEF newJob, current
    <2> QED BY <1>1, RecordMoves
  <1>3. j # round'.job
    <2> HIDE DEF newJob, current
    <2> QED BY <1>1, RoundJobMoves, NoneApart
  <1> QED BY <1>1, <1>2, <1>3, ByHandGrows DEF unheard

(* A schedule that is gone does not come back.                             *)
LEMMA GoneStays ==
    ASSUME SchedTypeOK, RowInv, [SchedNext]_schedVars, NEW s \in Schedule, s \notin present, lastResult[s] # "new"
    PROVE  s \notin present'
  BY RowMovesStep DEF RowMoves

(* Startup tells a cut-off job once: to the schedule whose row names it,   *)
(* or with the others.                                                     *)
LEMMA ToldOnRecovery ==
    ASSUME SchedTypeOK, RowInv, recover, NEW j \in Job
    PROVE  told'[j] = IF j \in interrupted THEN told[j] + 1 ELSE told[j]
  <1> DEFINE its == {s \in present : lastJob[s] = j /\ j \in interrupted}
  <1>1. /\ told'[j] = told[j] + Cardinality(its) + (IF j \in others(interrupted) THEN 1 ELSE 0)
        /\ told[j] \in Nat /\ present \subseteq Schedule
    BY RecoverEffect DEF SchedTypeOK, RestOK, RowsOK
  <1>2. CASE its = {}
    <2>1. Cardinality(its) = 0
      BY <1>2, FS_EmptySet
    <2>2. j \in others(interrupted) <=> j \in interrupted
      BY <1>2 DEF others
    <2> HIDE DEF its
    <2> QED BY <1>1, <2>1, <2>2
  <1>3. CASE its # {}
    <2>1. PICK s \in present : lastJob[s] = j /\ j \in interrupted
      BY <1>3
    <2>2. \A x \in present : lastJob[x] = j => x = jobOf[j]
      BY <1>1, NoneApart DEF RowInv
    <2>3. its = {s}
      BY <2>1, <2>2
    <2>4. Cardinality(its) = 1
      BY <2>3, FS_Singleton
    <2>5. j \notin others(interrupted) /\ j \in interrupted
      BY <2>1 DEF others
    <2> HIDE DEF its
    <2> QED BY <1>1, <2>4, <2>5
  <1> QED BY <1>2, <1>3

(* That a failure is told once holds at first.                             *)
LEMMA ToldInvInit ==
    ASSUME SchedInit
    PROVE  ToldInv
  <1>1. \A j \in Job : told[j] = 0 /\ state[j] = "none"
    BY DEF SchedInit, LifeInit
  <1>2. byHand = {} /\ round.at = "idle"
    BY DEF SchedInit, NoRound
  <1> QED BY <1>1, <1>2 DEF ToldInv
-----------------------------------------------------------------------------
(* Every step keeps it.                                                    *)
LEMMA ToldInvStep ==
    ASSUME SchedTypeOK, RowInv, MemoryInv, ToldInv, [SchedNext]_schedVars
    PROVE  ToldInv'
  <1>1. RoundOK /\ RowsOK /\ RestOK /\ unheard \subseteq unheard' /\ byHand \subseteq byHand'
    BY UnheardStays, ByHandGrows DEF SchedTypeOK
  <1>2. ASSUME NEW j \in Job
        PROVE  /\ told[j] \in Nat
               /\ told[j] > 0 => told[j] = 1 /\ state[j] = "failed" /\ j \notin pending /\ j \notin interrupted
               /\ j \in byHand => state[j] # "none"
               /\ owns(j) /\ owner[j] = None /\ (state[j] = "active" \/ (j \in pending /\ state[j] = "failed")) => j \in unheard'
               /\ state[j] = "failed" /\ told[j] = 0 =>
                     j \in pending \/ j \in forgotten \/ j \in interrupted \/ j \in unheard' \/ jobOf[j] \notin present'
               /\ j \in pending => state[j] \in Ended
    <2>1. state[j] = "failed" /\ jobOf[j] \notin present => jobOf[j] \notin present'
      <3>1. state[j] = "failed" => jobOf[j] \in Schedule /\ lastResult[jobOf[j]] # "new"
        BY <1>1 DEF RestOK, RowInv
      <3> QED BY <3>1, GoneStays
    <2> QED BY <1>1, <2>1 DEF ToldInv, RestOK, MemoryInv
  <1> DEFINE TellsTrue(j) == told'[j] > 0 => told'[j] = 1 /\ state'[j] = "failed" /\ j \notin pending' /\ j \notin interrupted'
             IsThere(j)   == j \in byHand' => state'[j] # "none"
             Unhandled(j) == /\ j \in Range(started') /\ owner'[j] = None
                             /\ state'[j] = "active" \/ (j \in pending' /\ state'[j] = "failed")
                             => j \in unheard'
             Untold(j)    == state'[j] = "failed" /\ told'[j] = 0 =>
                                j \in pending' \/ j \in forgotten' \/ j \in interrupted' \/ j \in unheard' \/ jobOf'[j] \notin present'
             Every(j)     == TellsTrue(j) /\ IsThere(j) /\ Unhandled(j) /\ Untold(j)
             Approved     == round'.at = "approving" /\ state'[round'.job] \in {"active", "completed", "failed"}
                             => round'.job \in byHand'
  <1>3. SUFFICES Approved /\ \A j \in Job : Every(j)
    BY DEF ToldInv, owns
  <1>4. round'.at = "approving" => round'.job \in Job
    BY RoundOKStep DEF RoundOK, Rounds
  (* A job that is left as it was.                                         *)
  <1>5. ASSUME NEW j \in Job, state'[j] = state[j], told'[j] = told[j], owner'[j] = owner[j], jobOf'[j] = jobOf[j],
               j \in byHand' => j \in byHand, j \in Range(started') => owns(j),
               j \in pending' <=> j \in pending, j \in interrupted' <=> j \in interrupted, j \in forgotten => j \in forgotten'
        PROVE  Every(j)
    BY <1>2, <1>5
  <1> HIDE DEF TellsTrue, IsThere, Unhandled, Untold
  <1>6. CASE quiet
    <2>1. UNCHANGED <<web, state, started, owner, pending, interrupted, jobOf, byHand, orphans, dropped, forgotten, told>>
      BY <1>6, Quiet
    <2>2. Approved
      <3>1. SUFFICES ASSUME round'.at = "approving"
                     PROVE  round' = round
        BY <2>1, <3>1 DEF ToldInv
      <3>2. ~stage
        <4> SUFFICES ASSUME stage
                     PROVE  FALSE
          OBVIOUS
        <4>1. newJob \in Job /\ state[newJob] = "none" /\ state'[newJob] = "awaiting"
          BY StageEffect
        <4> QED BY <2>1, <4>1
      <3>3. round'.job # None
        BY <1>4, <3>1, NoneApart
      <3> QED BY <3>1, <3>2, <3>3, RoundJobMoves
    <2> QED BY <1>5, <2>1, <2>2 DEF owns
  <1>7. CASE stage
    <2> HIDE DEF newJob, current
    <2>1. Approved
      BY <1>7, StageEffect
    <2>2. ASSUME NEW j \in Job
          PROVE  Every(j)
      <3>1. CASE j = newJob
        <4>1. state[j] = "none" /\ state'[j] = "awaiting" /\ told' = told /\ told[j] = 0
          BY <1>2, <1>7, <3>1, StageEffect
        <4> QED BY <4>1 DEF TellsTrue, IsThere, Unhandled, Untold
      <3>2. CASE j # newJob
        BY <1>5, <1>7, <3>2, StageEffect DEF owns
      <3> QED BY <3>1, <3>2
    <2> QED BY <2>1, <2>2
  <1>8. CASE approve
    <2>1. Approved
      BY <1>8, ApproveEffect
    <2>2. ASSUME NEW j \in Job
          PROVE  Every(j)
      <3>1. CASE j = round.job
        <4>1. /\ state[j] = "awaiting" /\ state'[j] = "active" /\ told' = told /\ told[j] = 0
              /\ owner' = owner /\ started' = started
          BY <1>2, <1>8, <3>1, ApproveEffect
        <4>2. owner[j] # None
          BY <3>1, <4>1, NoneApart DEF MemoryInv, watched
        <4> QED BY <4>1, <4>2 DEF TellsTrue, IsThere, Unhandled, Untold
      <3>2. CASE j # round.job
        BY <1>5, <1>8, <3>2, ApproveEffect DEF owns
      <3> QED BY <3>1, <3>2
    <2> QED BY <2>1, <2>2
  <1>9. CASE approveFails
    <2> HIDE DEF current
    <2>1. Approved
      <3>1. round'.at \in {"idle", "checking"}
        BY <1>1, <1>9, ApproveFailsEffect, RoundGoesOn
      <3> QED BY <3>1
    <2>2. ASSUME NEW j \in Job
          PROVE  Every(j)
      <3>1. CASE j = round.job
        <4>1. /\ state'[j] = IF state[j] = "awaiting" THEN "cancelled" ELSE state[j]
              /\ state[j] # "none" /\ told' = told /\ interrupted' = interrupted /\ round.at = "approving" /\ round'.job = None
              /\ pending' = IF state[j] = "awaiting" THEN pending \union {j} ELSE pending
              /\ byHand' = byHand /\ orphans' = orphans
          BY <1>9, <3>1, ApproveFailsEffect
        <4>2. state[j] \in {"active", "completed", "failed"} => j \in unheard'
          <5>1. j # None /\ j \notin orphans
            BY <3>1, NoneApart DEF RowInv
          <5> QED BY <3>1, <4>1, <5>1 DEF ToldInv, unheard
        <4>3. state[j] = "awaiting" => told[j] = 0
          BY <1>2
        <4> QED BY <1>2, <4>1, <4>2, <4>3 DEF TellsTrue, IsThere, Unhandled, Untold
      <3>2. CASE j # round.job
        <4>1. state'[j] = state[j] /\ owner'[j] = owner[j] /\ (j \in pending' <=> j \in pending)
          BY <1>9, <3>2, ApproveFailsEffect
        <4>2. j \in Range(started') => owns(j)
          BY <1>9, <3>2, ApproveFailsEffect DEF owns
        <4>3. UNCHANGED <<told, jobOf, byHand, interrupted, forgotten>>
          BY <1>9, ApproveFailsEffect
        <4> QED BY <1>5, <4>1, <4>2, <4>3
      <3> QED BY <3>1, <3>2
    <2> QED BY <2>1, <2>2
  <1>10. ASSUME NEW k \in Job, approveByHand(k)
         PROVE  Approved /\ \A j \in Job : Every(j)
    <2>1. /\ state[k] = "awaiting" /\ byHand' = byHand \union {k}
          /\ \A j \in Job : state'[j] = IF j = k THEN "active" ELSE state[j]
          /\ UNCHANGED <<round, started, owner, pending, interrupted, jobOf, forgotten, told>>
      BY <1>10, ByHandEffect
    <2>2. Approved
      BY <1>4, <2>1 DEF ToldInv
    <2>3. ASSUME NEW j \in Job
          PROVE  Every(j)
      <3>1. CASE j = k
        <4>1. told[j] = 0 /\ state'[j] = "active" /\ (owns(j) => owner[j] # None)
          BY <1>2, <2>1, <3>1 DEF MemoryInv
        <4> QED BY <2>1, <4>1 DEF TellsTrue, IsThere, Unhandled, Untold, owns
      <3>2. CASE j # k
        BY <1>5, <2>1, <3>2 DEF owns
      <3> QED BY <3>1, <3>2
    <2> QED BY <2>2, <2>3
  <1>11. ASSUME NEW k \in Job, withdrawByHand(k) \/ jobEnds(k)
         PROVE  Approved /\ \A j \in Job : Every(j)
    <2>1. /\ \/ state[k] = "awaiting" /\ state'[k] = "cancelled"
             \/ state[k] = "active" /\ state'[k] \in {"completed", "failed"}
          /\ \A j \in Job : j # k => state'[j] = state[j]
          /\ pending' = pending \union {k}
          /\ UNCHANGED <<round, started, owner, interrupted, jobOf, byHand, forgotten, told>>
      BY <1>11, EndEffect
    <2>2. Approved
      BY <1>4, <2>1 DEF ToldInv
    <2>3. ASSUME NEW j \in Job
          PROVE  Every(j)
      <3>1. CASE j = k
        <4>1. told[j] = 0 /\ state'[j] # "none" /\ state'[j] # "active"
          BY <1>2, <2>1, <3>1
        <4>2. state'[j] = "failed" /\ owns(j) /\ owner[j] = None => j \in unheard'
          BY <1>2, <2>1, <3>1
        <4> QED BY <2>1, <3>1, <4>1, <4>2 DEF TellsTrue, IsThere, Unhandled, Untold, owns
      <3>2. CASE j # k
        BY <1>5, <2>1, <3>2 DEF owns
      <3> QED BY <3>1, <3>2
    <2> QED BY <2>2, <2>3
  <1>12. ASSUME NEW k \in Job, onJob(k)
         PROVE  Approved /\ \A j \in Job : Every(j)
    <2>1. /\ web = "up" /\ interrupted = {} /\ k \in pending /\ pending' = pending \ {k}
          /\ UNCHANGED <<state, present, round, started, interrupted, jobOf, byHand, orphans, forgotten>>
      BY <1>12, OnJobEffect DEF MemoryInv
    <2>2. Approved
      BY <1>4, <2>1 DEF ToldInv
    <2>3. ASSUME NEW j \in Job
          PROVE  Every(j)
      <3>1. CASE j = k
        <4>1. told[j] = 0 /\ state[j] \in Ended
          BY <1>2, <2>1, <3>1
        <4>2. told'[j] = 0 \/ (told'[j] = 1 /\ state[j] = "failed")
          BY <1>12, <3>1, <4>1, OnJobEffect
        <4>3. state[j] = "failed" /\ told'[j] = 0 => owns(j) /\ (owner[j] = None \/ owner[j] \notin present)
          BY <1>12, <3>1, <4>1, OnJobEffect DEF watched
        <4>4. owner[j] # None => owner[j] = jobOf[j]
          BY DEF MemoryInv
        <4>5. state[j] = "failed" /\ told'[j] = 0 => j \in unheard' \/ jobOf[j] \notin present
          BY <1>2, <2>1, <3>1, <4>3, <4>4
        <4> QED BY <1>2, <2>1, <3>1, <4>1, <4>2, <4>5 DEF TellsTrue, IsThere, Unhandled, Untold, Ended
      <3>2. CASE j # k
        BY <1>5, <1>12, <2>1, <3>2, OnJobEffect DEF owns
      <3> QED BY <3>1, <3>2
    <2> QED BY <2>2, <2>3
  <1>13. CASE stop
    <2>1. /\ Range(started') = {} /\ pending' = {} /\ interrupted' = {} /\ round'.at = "idle"
          /\ forgotten' = forgotten \union pending \union interrupted /\ UNCHANGED <<state, jobOf, byHand, told>>
      BY <1>13, StopEffect DEF NoRound
    <2> QED BY <1>2, <2>1 DEF TellsTrue, IsThere, Unhandled, Untold
  <1>14. CASE recoverInterruptedJobs
    <2>1. /\ web = "down" /\ interrupted' = activeJobs /\ pending = {} /\ interrupted = {} /\ started = <<>>
          /\ \A j \in Job : state'[j] = IF state[j] = "active" THEN "failed" ELSE state[j]
          /\ UNCHANGED <<round, started, owner, pending, jobOf, byHand, forgotten, told>>
      BY <1>14, RecoveryEffect DEF MemoryInv
    <2>2. round'.at = "idle" /\ Range(started') = {}
      BY <1>1, <2>1 DEF RoundOK, Range
    <2>3. ASSUME NEW j \in Job
          PROVE  Every(j)
      <3>1. CASE state[j] = "active"
        <4>1. told[j] = 0
          BY <1>2, <3>1
        <4> QED BY <2>1, <2>2, <3>1, <4>1 DEF TellsTrue, IsThere, Unhandled, Untold, activeJobs
      <3>2. CASE state[j] # "active"
        BY <1>2, <2>1, <2>2, <3>2 DEF TellsTrue, IsThere, Unhandled, Untold, activeJobs
      <3> QED BY <3>1, <3>2
    <2> QED BY <2>2, <2>3
  <1>15. CASE recover
    <2>1. /\ web = "recovering" /\ interrupted' = {} /\ Range(started') \subseteq interrupted /\ pending = {}
          /\ UNCHANGED <<state, round, owner, pending, jobOf, byHand, forgotten>>
      BY <1>15, RecoverEffect DEF MemoryInv
    <2>2. round'.at = "idle"
      BY <1>1, <2>1 DEF RoundOK
    <2>3. ASSUME NEW j \in Job
          PROVE  Every(j)
      <3>1. CASE j \in interrupted
        <4>1. state[j] = "failed" /\ told[j] = 0 /\ told'[j] = 1
          <5>1. state[j] = "failed" /\ told[j] = 0
            BY <1>2, <3>1 DEF MemoryInv
          <5>2. told'[j] = told[j] + 1
            BY <1>15, <3>1, ToldOnRecovery
          <5> QED BY <5>1, <5>2
        <4> QED BY <2>1, <4>1 DEF TellsTrue, IsThere, Unhandled, Untold
      <3>2. CASE j \notin interrupted
        <4>1. told'[j] = told[j]
          BY <1>15, <3>2, ToldOnRecovery
        <4> QED BY <1>2, <2>1, <3>2, <4>1 DEF TellsTrue, IsThere, Unhandled, Untold
      <3> QED BY <3>1, <3>2
    <2> QED BY <2>2, <2>3
  <1>16. ASSUME NEW k \in Job, approveByHand(k) \/ withdrawByHand(k) \/ jobEnds(k) \/ onJob(k)
         PROVE  Approved /\ \A j \in Job : Every(j)
    BY <1>10, <1>11, <1>12, <1>16
  <1> HIDE DEF Every, Approved
  <1> QED BY <1>6, <1>7, <1>8, <1>9, <1>13, <1>14, <1>15, <1>16 DEF SchedNext, RoundStep, quiet
-----------------------------------------------------------------------------
(* The inductive invariant.                                                *)
SchedInv == SchedTypeOK /\ RowInv /\ RunInv /\ DueInv /\ MemoryInv /\ HearInv /\ ToldInv

(* The inductive invariant holds of the scheduler.                         *)
LEMMA SchedInvHolds == SchedSpec => []SchedInv
  <1>1. SchedInit => SchedInv
    BY TypeInit, RowInvInit, RunInvInit, DueInvInit, MemoryInvInit, HearInvInit, ToldInvInit DEF SchedInv
  <1>2. SchedInv /\ [SchedNext]_schedVars => SchedInv'
    BY TypeStep, RowInvStep, RunInvStep, DueInvStep, MemoryInvStep, HearInvStep, ToldInvStep DEF SchedInv
  <1> QED BY <1>1, <1>2, PTL DEF SchedSpec

(* The rows, the round, the memory and the records are well typed, for any *)
(* schedules, jobs, cadences, calendar and size of memory.                 *)
THEOREM SchedTypeCorrect == SchedSpec => []SchedTypeOK
  <1>1. SchedInv => SchedTypeOK
    BY DEF SchedInv
  <1> QED BY <1>1, SchedInvHolds, PTL

(* The next run is the cadence's soonest time strictly after now, for any  *)
(* calendar: nothing fires twice in its minute, and no occurrence is       *)
(* passed over (computeNextRun, domain/schedule.mjs).                      *)
THEOREM SoonestNext == SchedSpec => []NextRunIsSoonest
  <1>1. SchedTypeOK => NextRunIsSoonest
    BY SoonestRun DEF SchedTypeOK, RestOK, NextRunIsSoonest
  <1> QED BY <1>1, SchedTypeCorrect, PTL

(* A schedule never runs double: its runs do not overlap and one due time  *)
(* gives one job, across rounds, edits, approvals by people and stops.     *)
THEOREM RunsNeverDouble == SchedSpec => []NeverRunsDouble
  <1>1. SchedInv => NeverRunsDouble
    BY DEF SchedInv, RunInv, DueInv, NeverRunsDouble
  <1> QED BY <1>1, SchedInvHolds, PTL

(* A row that says started is settled once its job has ended and the event *)
(* is out; a failed run is told once, and which go untold is known.        *)
THEOREM EndsAreTold == SchedSpec => []EndIsTold
  <1>1. ASSUME SchedInv
        PROVE  EndIsTold
    <2>1. RowsOK /\ RestOK /\ HearInv /\ ToldInv /\ MemoryInv /\ RowInv
      BY <1>1 DEF SchedInv, SchedTypeOK
    <2>2. ASSUME web = "up", NEW s \in present, lastResult[s] = "started", state[lastJob[s]] \in Ended
          PROVE  lastJob[s] \in pending \union forgotten \union dropped
      BY <2>1, <2>2 DEF HearInv, gone, Ended
    <2>3. ASSUME NEW j \in Job
          PROVE  /\ told[j] =< 1
                 /\ state[j] = "failed" /\ web = "up" /\ told[j] = 0 =>
                       j \in pending \union forgotten \union (byHand \ orphans) \/ jobOf[j] \notin present
      BY <2>1 DEF ToldInv, MemoryInv, RestOK, unheard
    <2> QED BY <2>2, <2>3 DEF EndIsTold
  <1> QED BY <1>1, SchedInvHolds, PTL
=============================================================================
