------------------------- MODULE RepeatedTimerProofs -------------------------
(***************************************************************************)
(* The invariants of RepeatedTimer, for every calendar, summer and set of  *)
(* alarms that its assumptions allow.                                      *)
(*                                                                         *)
(* One fact carries all of them (Ahead): before the correction a turn      *)
(* moves the alarm by a number of whole days.  The correction then brings  *)
(* the clock back to the hour it showed (Landing), unless that hour is     *)
(* left out.                                                               *)
(***************************************************************************)
EXTENDS RepeatedTimer, TLAPS

\* What mktime adds to the alarm.
Diff == mktime(Moved(localtime(alarmTime))) - alarmTime

\* The turn that Turn takes.
Turning == phase = "rescheduling" /\ alarmTime <= now

\* The intervals that have no length.
Unmoved == {"once", "unknown"}

-----------------------------------------------------------------------------
(* The clock. *)

LEMMA HourMinute == ASSUME NEW d \in Nat, NEW h \in 0 .. 23
                    PROVE  (24 * d + h) \div 24 = d /\ (24 * d + h) % 24 = h
  OBVIOUS

LEMMA Clock == ASSUME NEW t \in Nat
               PROVE  /\ Isdst(t) \in {0, 1}
                      /\ Local(t) \in Nat /\ Day(t) \in Nat /\ Hour(t) \in 0 .. 23
                      /\ Local(t) = t + Isdst(t)
                      /\ Local(t) = 24 * Day(t) + Hour(t)
  BY SummerAssumption DEF Isdst, Local, Day, Hour

\* The clock is put back by less than time goes on.
LEMMA DaysGoOn == ASSUME NEW t \in Nat, NEW u \in Nat, t <= u
                  PROVE  Day(t) <= Day(u)
<1>1. Local(t) <= Local(u) /\ Local(t) \in Nat /\ Local(u) \in Nat
  BY SummerAssumption DEF Local, Isdst
<1> QED  BY <1>1 DEF Day

LEMMA AWeekday == ASSUME NEW d \in Nat PROVE Weekday(d) \in 0 .. 6
  BY WeekdayAssumption DEF Weekday

LEMMA MonthOf == ASSUME NEW d \in Nat, d < MonthStart[LastMonth]
                 PROVE  In(d, Month(d)) /\ MonthDay(d) \in Nat
<1>1. MonthStart[LastMonth] \in Nat
  BY MonthAssumption DEF Months
<1>2. \E m \in Months : In(d, m)
  BY <1>1, MonthAssumption
<1>3. In(d, Month(d))
  BY <1>2 DEF Month
<1> QED  BY <1>3, MonthAssumption DEF In, MonthDay

LEMMA OneMonth == ASSUME NEW d \in Nat, NEW m, In(d, m), NEW n, In(d, n)
                  PROVE  m = n
<1>1. /\ m \in Int /\ n \in Int /\ m + 1 \in Months /\ n + 1 \in Months
      /\ m \in Months /\ n \in Months
  BY MonthAssumption DEF In, Months
<1>2. ~(m < n)
  <2> SUFFICES ASSUME m < n PROVE FALSE  OBVIOUS
  <2>1. m + 1 = n \/ m + 1 < n
    BY <1>1
  <2>2. MonthStart[m + 1] <= MonthStart[n]
    BY <2>1, <1>1, MonthAssumption
  <2> QED  BY <2>2, <1>1, MonthAssumption DEF In
<1>3. ~(n < m)
  <2> SUFFICES ASSUME n < m PROVE FALSE  OBVIOUS
  <2>1. n + 1 = m \/ n + 1 < m
    BY <1>1
  <2>2. MonthStart[n + 1] <= MonthStart[m]
    BY <2>1, <1>1, MonthAssumption
  <2> QED  BY <2>2, <1>1, MonthAssumption DEF In
<1> QED  BY <1>1, <1>2, <1>3

LEMMA MonthIs == ASSUME NEW d \in Nat, NEW m, In(d, m)
                 PROVE  Month(d) = m /\ MonthDay(d) = d - MonthStart[m]
<1>1. m \in Months
  BY DEF In
<1>2. In(d, Month(d))
  BY <1>1 DEF Month
<1>3. Month(d) = m
  BY <1>2, OneMonth
<1> QED  BY <1>3 DEF MonthDay

\* A time within the horizon lies more than a month before the end of the calendar.
LEMMA WithinHorizon == ASSUME NEW t \in Nat, t <= Horizon
                       PROVE  /\ MonthStart[LastMonth] \in Nat
                              /\ Day(t) + 31 < MonthStart[LastMonth]
<1>1. LastMonth - 2 \in Months /\ LastMonth \in Months /\ LastMonth - 2 < LastMonth
  BY MonthAssumption, HorizonAssumption DEF Months
<1>2. MonthStart[LastMonth - 2] \in Nat /\ MonthStart[LastMonth] \in Nat
      /\ MonthStart[LastMonth] >= MonthStart[LastMonth - 2] + 56
  <2>1. LastMonth - 1 \in Months /\ LastMonth - 2 < LastMonth - 1 /\ LastMonth - 1 < LastMonth
    BY <1>1, MonthAssumption DEF Months
  <2>2. /\ MonthStart[LastMonth - 1] >= MonthStart[LastMonth - 2] + 28
        /\ MonthStart[LastMonth] >= MonthStart[LastMonth - 1] + 28
        /\ MonthStart[LastMonth - 2] \in Nat /\ MonthStart[LastMonth - 1] \in Nat
        /\ MonthStart[LastMonth] \in Nat
    BY <1>1, <2>1, MonthAssumption
  <2> QED  BY <2>2
<1>3. /\ Isdst(t) \in {0, 1} /\ Local(t) = t + Isdst(t)
      /\ Local(t) = 24 * Day(t) + Hour(t) /\ Day(t) \in Nat /\ Hour(t) \in 0 .. 23
  BY Clock
<1>4. t + 1 < 24 * MonthStart[LastMonth - 2]
  BY <1>2, HorizonAssumption
<1>5. 24 * Day(t) < 24 * MonthStart[LastMonth - 2]
  BY <1>2, <1>3, <1>4
<1> QED  BY <1>2, <1>3, <1>5

-----------------------------------------------------------------------------
(* Types. *)

LEMMA Intervalled == ASSUME TypeOK
                     PROVE  /\ repeat.kind \in Kinds /\ repeat.days \subseteq 0 .. 6
                            /\ repeat.kind = "weekdays" => repeat.days # {}
<1>1. PICK r \in Repeats : repeat = Programmed(r)
  BY DEF TypeOK
<1>2. r \in Intervals
  BY AlarmAssumption
<1>3. CASE r.kind = "weekdays" /\ r.days = {}
  BY <1>1, <1>3 DEF Programmed, Once, Kinds
<1>4. CASE ~(r.kind = "weekdays" /\ r.days = {})
  BY <1>1, <1>2, <1>4 DEF Programmed, Intervals
<1> QED  BY <1>3, <1>4

LEMMA TypesAtStart == Init => TypeOK
<1> SUFFICES ASSUME Init PROVE TypeOK
  OBVIOUS
<1>1. set \in Nat /\ set - Lead \in Nat /\ set + Duration \in Nat /\ repeatCount \in Nat
  BY AlarmAssumption, LengthAssumption DEF Init
<1>2. alarmTime \in Nat /\ announceTime \in Nat /\ stopTime \in Nat
  BY <1>1 DEF Init
<1> QED  BY <1>1, <1>2 DEF Init, TypeOK

\* What the next weekday is.
LEMMA NextWeekday == ASSUME TypeOK, repeat.kind = "weekdays", NEW w \in 0 .. 6
                     PROVE  /\ DaysAhead(w) \in 1 .. 7
                            /\ (w + DaysAhead(w)) % 7 \in repeat.days
                            /\ \A k \in 1 .. DaysAhead(w) - 1 :
                                  (w + k) % 7 \notin repeat.days
<1> DEFINE P(n) == (w + n) % 7 \in repeat.days
<1>1. PICK v \in 0 .. 6 : v \in repeat.days
  BY Intervalled
<1>2. \E n \in 1 .. 7 : P(n)
  <2>1. CASE v > w
    <3>1. v - w \in 1 .. 7 /\ (w + (v - w)) % 7 = v
      BY <2>1
    <3> QED  BY <3>1, <1>1
  <2>2. CASE v <= w
    <3>1. v + 7 - w \in 1 .. 7 /\ (w + (v + 7 - w)) % 7 = v
      BY <2>2
    <3> QED  BY <3>1, <1>1
  <2> QED  BY <2>1, <2>2
<1>3. \E n \in 1 .. 7 : P(n) /\ \A k \in 1 .. n - 1 : ~P(k)
  <2>1. CASE P(1)
    BY <2>1
  <2>2. CASE ~P(1) /\ P(2)
    BY <2>2
  <2>3. CASE ~P(1) /\ ~P(2) /\ P(3)
    BY <2>3
  <2>4. CASE ~P(1) /\ ~P(2) /\ ~P(3) /\ P(4)
    BY <2>4
  <2>5. CASE ~P(1) /\ ~P(2) /\ ~P(3) /\ ~P(4) /\ P(5)
    BY <2>5
  <2>6. CASE ~P(1) /\ ~P(2) /\ ~P(3) /\ ~P(4) /\ ~P(5) /\ P(6)
    BY <2>6
  <2>7. CASE ~P(1) /\ ~P(2) /\ ~P(3) /\ ~P(4) /\ ~P(5) /\ ~P(6) /\ P(7)
    BY <2>7
  <2> QED  BY <1>2, <2>1, <2>2, <2>3, <2>4, <2>5, <2>6, <2>7
<1> QED  BY <1>3 DEF DaysAhead

\* Before the correction a turn moves the alarm by whole days: those of the interval,
\* those between the same days of two months, or none where the interval has no length.
LEMMA Ahead == ASSUME TypeOK, Day(alarmTime) < MonthStart[LastMonth]
               PROVE  \E n \in 0 .. 31 :
                         /\ Diff = 24 * n
                         /\ n = 0 <=> repeat.kind \in Unmoved
                         /\ repeat.kind = "daily" => n = 1
                         /\ repeat.kind = "weekly" => n = 7
                         /\ repeat.kind = "biweekly" => n = 14
                         /\ repeat.kind = "fourweekly" => n = 28
                         /\ repeat.kind = "weekdays" => n = DaysAhead(Weekday(Day(alarmTime)))
                         /\ LET m == Month(Day(alarmTime))
                            IN  repeat.kind = "monthly" => n = MonthStart[m + 1] - MonthStart[m]
<1> DEFINE t  == alarmTime
           m  == Month(Day(t))
           tm == localtime(t)
<1>1. t \in Nat /\ repeat.kind \in Kinds
  BY Intervalled DEF TypeOK
<1>2. /\ Isdst(t) \in {0, 1} /\ Day(t) \in Nat /\ Hour(t) \in 0 .. 23
      /\ t = 24 * Day(t) + Hour(t) - Isdst(t)
  <2> HIDE DEF t
  <2>1. /\ Isdst(t) \in {0, 1} /\ Day(t) \in Nat /\ Hour(t) \in 0 .. 23
        /\ Local(t) = t + Isdst(t) /\ Local(t) = 24 * Day(t) + Hour(t)
    BY <1>1, Clock
  <2> QED
    BY <1>1, <2>1
<1>3. /\ m \in Months /\ m + 1 \in Months /\ m \in Int
      /\ MonthStart[m] \in Nat /\ MonthStart[m + 1] \in Nat
      /\ MonthStart[m + 1] >= MonthStart[m] + 28
      /\ MonthStart[m + 1] <= MonthStart[m] + 31
      /\ MonthDay(Day(t)) = Day(t) - MonthStart[m]
  <2>1. In(Day(t), m)
    BY <1>1, <1>2, MonthOf
  <2>2. m \in Months /\ m + 1 \in Months /\ m \in Int
    BY <2>1 DEF In, Months
  <2>3. m < m + 1
    BY <2>2
  <2> QED  BY <2>2, <2>3, MonthAssumption DEF MonthDay
<1>4. /\ tm.mon = m /\ tm.mday = Day(t) - MonthStart[m]
      /\ tm.wday = Weekday(Day(t)) /\ tm.hour = Hour(t) /\ tm.isdst = Isdst(t)
  BY <1>3 DEF localtime
<1>5. Diff = mktime(Moved(tm)) - t
  BY DEF Diff
<1>6. ASSUME NEW n \in Nat, Moved(tm) = [tm EXCEPT !.mday = @ + n]
      PROVE  Diff = 24 * n
  <2>1. mktime(Moved(tm)) = (MonthStart[m] + (Day(t) - MonthStart[m] + n)) * 24 + Hour(t) - Isdst(t)
    BY <1>4, <1>6 DEF mktime, localtime
  <2> QED  BY <2>1, <1>5, <1>2, <1>3
<1>7. CASE repeat.kind = "daily"
  <2>1. Moved(tm) = [tm EXCEPT !.mday = @ + 1]  BY <1>7 DEF Moved
  <2> QED  BY <2>1, <1>6, <1>7 DEF Unmoved
<1>8. CASE repeat.kind = "weekly"
  <2>1. Moved(tm) = [tm EXCEPT !.mday = @ + 7]  BY <1>8 DEF Moved
  <2> QED  BY <2>1, <1>6, <1>8 DEF Unmoved
<1>9. CASE repeat.kind = "biweekly"
  <2>1. Moved(tm) = [tm EXCEPT !.mday = @ + 14]  BY <1>9 DEF Moved
  <2> QED  BY <2>1, <1>6, <1>9 DEF Unmoved
<1>10. CASE repeat.kind = "fourweekly"
  <2>1. Moved(tm) = [tm EXCEPT !.mday = @ + 28]  BY <1>10 DEF Moved
  <2> QED  BY <2>1, <1>6, <1>10 DEF Unmoved
<1>11. CASE repeat.kind = "weekdays"
  <2> DEFINE n == DaysAhead(Weekday(Day(t)))
  <2>1. Weekday(Day(t)) \in 0 .. 6
    BY <1>2, AWeekday
  <2>2. n \in 1 .. 7
    BY <2>1, <1>11, NextWeekday
  <2>3. Moved(tm) = [tm EXCEPT !.mday = @ + n]
    BY <1>11, <1>4, Intervalled DEF Moved
  <2>4. Diff = 24 * n
    BY <2>2, <2>3, <1>6
  <2> QED  BY <2>2, <2>4, <1>11 DEF Unmoved
<1>12. CASE repeat.kind = "monthly"
  <2> DEFINE n == MonthStart[m + 1] - MonthStart[m]
  <2>1. n \in 1 .. 31
    BY <1>3
  <2>2. Moved(tm) = [tm EXCEPT !.mon = @ + 1]
    BY <1>12 DEF Moved
  <2>3. mktime(Moved(tm)) = (MonthStart[m + 1] + (Day(t) - MonthStart[m])) * 24 + Hour(t) - Isdst(t)
    BY <1>4, <2>2 DEF mktime, localtime
  <2>4. Diff = 24 * n
    BY <2>3, <1>5, <1>2, <1>3
  <2> QED  BY <2>1, <2>4, <1>12 DEF Unmoved
<1>13. CASE repeat.kind \in Unmoved
  <2>1. Moved(tm) = tm
    BY <1>13 DEF Moved, Unmoved
  <2>2. mktime(tm) = (MonthStart[m] + (Day(t) - MonthStart[m])) * 24 + Hour(t) - Isdst(t)
    BY <1>4 DEF mktime
  <2>3. Diff = 24 * 0
    BY <2>1, <2>2, <1>5, <1>2, <1>3
  <2> QED  BY <2>3, <1>13 DEF Unmoved
<1> QED  BY <1>1, <1>7, <1>8, <1>9, <1>10, <1>11, <1>12, <1>13 DEF Kinds, Unmoved

-----------------------------------------------------------------------------
(* The correction. *)

\* The clock shows the same hour again, n days later; or it showed the hour that is left
\* out, and shows the one before.
LEMMA Landing ==
    ASSUME TypeOK, NEW n \in Nat \ {0}, Diff = 24 * n
    PROVE  /\ Difference \in Int /\ Difference >= 23
           /\ Day(alarmTime + Difference) = Day(alarmTime) + n
           /\ \/ Hour(alarmTime + Difference) = Hour(alarmTime)
              \/ /\ Hour(alarmTime) = MissingHour
                 /\ Hour(alarmTime + Difference) = (MissingHour + 23) % 24
<1> DEFINE t   == alarmTime
           u   == t + 24 * n
           new == t + Difference
<1>1. t \in Nat /\ u \in Nat /\ u >= t + 24
  BY DEF TypeOK
<1>2. Difference = 24 * n + Isdst(t) - Isdst(u)
  BY DEF Difference, Diff, Correction, localtime
<1>3. Isdst(t) \in {0, 1} /\ Isdst(u) \in {0, 1}
  BY <1>1, Clock
<1>4. new \in Nat /\ new = u + Isdst(t) - Isdst(u) /\ Difference \in Int /\ Difference >= 23
  BY <1>1, <1>2, <1>3
<1>5. \/ new + Isdst(new) = t + Isdst(t) + 24 * n
      \/ /\ t + 24 * n = SummerBegin /\ Isdst(t) = 0
         /\ new + Isdst(new) = t + 24 * n - 1
  <2>1. CASE Isdst(t) = Isdst(u)
    BY <2>1, <1>1, <1>3, <1>4
  <2>2. CASE Isdst(t) = 1 /\ Isdst(u) = 0
    <3>1. u >= SummerEnd /\ new = u + 1
      BY <2>2, <1>1, <1>4, SummerAssumption DEF Isdst
    <3>2. Isdst(new) = 0
      BY <3>1, <1>1, SummerAssumption DEF Isdst
    <3> QED  BY <3>1, <3>2, <2>2, <1>1
  <2>3. CASE Isdst(t) = 0 /\ Isdst(u) = 1
    <3>1. SummerBegin <= u /\ u < SummerEnd /\ new = u - 1
      BY <2>3, <1>1, <1>4, SummerAssumption DEF Isdst
    <3>2. CASE SummerBegin < u
      <4>1. Isdst(new) = 1
        BY <3>1, <3>2, <1>1, SummerAssumption DEF Isdst
      <4> QED  BY <4>1, <3>1, <2>3, <1>1
    <3>3. CASE u = SummerBegin
      <4>1. Isdst(new) = 0
        BY <3>1, <3>3, <1>1, SummerAssumption DEF Isdst
      <4> QED  BY <4>1, <3>1, <3>3, <2>3, <1>1
    <3> QED  BY <3>1, <3>2, <3>3, <1>1, SummerAssumption
  <2> QED  BY <1>3, <2>1, <2>2, <2>3
<1>6. /\ t + Isdst(t) = 24 * Day(t) + Hour(t) /\ Day(t) \in Nat /\ Hour(t) \in 0 .. 23
      /\ new + Isdst(new) = 24 * Day(new) + Hour(new) /\ Day(new) \in Nat /\ Hour(new) \in 0 .. 23
  BY <1>1, <1>4, Clock
<1>7. CASE new + Isdst(new) = t + Isdst(t) + 24 * n
  <2>1. 24 * Day(new) + Hour(new) = 24 * (Day(t) + n) + Hour(t)
    BY <1>6, <1>7, <1>1
  <2>2. Day(new) = Day(t) + n /\ Hour(new) = Hour(t)
    BY <2>1, <1>6
  <2> QED  BY <2>2, <1>4
<1>8. CASE /\ t + 24 * n = SummerBegin /\ Isdst(t) = 0
           /\ new + Isdst(new) = t + 24 * n - 1
  <2>1. SummerBegin = 24 * (Day(t) + n) + Hour(t)
    BY <1>8, <1>6, <1>1
  <2>2. MissingHour = Hour(t)
    BY <2>1, <1>6, HourMinute DEF MissingHour
  <2>3. Hour(t) \in 1 .. 23
    BY <2>2, <1>6, SummerAssumption DEF MissingHour
  <2>4. 24 * Day(new) + Hour(new) = 24 * (Day(t) + n) + (Hour(t) - 1)
    BY <1>8, <1>6, <1>1
  <2>5. Day(new) = Day(t) + n /\ Hour(new) = Hour(t) - 1
    BY <2>3, <2>4, <1>6
  <2>6. (MissingHour + 23) % 24 = Hour(t) - 1
    BY <2>2, <2>3
  <2> QED  BY <2>2, <2>5, <2>6, <1>4
<1> QED  BY <1>5, <1>7, <1>8

-----------------------------------------------------------------------------
(* The expected days. *)

\* No turn begins at an alarm past the horizon, and none goes back.
Bounded == /\ now <= Horizon
           /\ alarmTime >= set
           /\ alarmTime # set => set <= Horizon

\* After the first turn the alarm lies on an expected day; between the day it is and the
\* day of the alarm there is none.
DaysKept ==
    InEveryMonth
    => /\ alarmTime # set => Expected(Day(alarmTime))
       /\ phase = "rescheduling" \/ alarmTime # set
          => \A d \in Day(now) + 1 .. Day(alarmTime) - 1 : ~Expected(d)

FutureAlarm == phase = "scheduled" /\ alarmTime # set => alarmTime > now

\* While a timer is rescheduled the calendar reaches past its alarm.
InCalendar == phase = "rescheduling" => Day(alarmTime) < MonthStart[LastMonth]

\* What is over for good is not rescheduled, and what has no interval stays where it is.
OnlyRepeated == /\ phase = "rescheduling" => repeat.kind # "once"
                /\ repeat.kind \in Unmoved => alarmTime = set

IInv == TypeOK /\ Bounded /\ DistancesKept /\ WallTimeKept /\ DaysKept /\ FutureAlarm
        /\ InCalendar /\ OnlyRepeated

\* The day of the alarm is expected, also the one that was set; only the weekdays begin
\* on any day.
LEMMA BaseExpected == ASSUME IInv, InEveryMonth, repeat.kind # "weekdays"
                      PROVE  Expected(Day(alarmTime))
<1>1. CASE alarmTime # set
  BY <1>1 DEF IInv, DaysKept
<1>2. CASE alarmTime = set
  <2>1. Day(set) \in Nat /\ repeat.kind \in Kinds
    BY Clock, AlarmAssumption, Intervalled DEF IInv, TypeOK
  <2>2. Day(alarmTime) - Day(set) = 0
    BY <2>1, <1>2
  <2>3. 0 % 7 = 0 /\ 0 % 14 = 0 /\ 0 % 28 = 0
    OBVIOUS
  <2>4. CASE repeat.kind \in {"daily", "monthly"}
    BY <2>4, <1>2 DEF Expected
  <2>5. CASE repeat.kind = "weekly"
    BY <2>2, <2>3, <2>5 DEF Expected
  <2>6. CASE repeat.kind = "biweekly"
    BY <2>2, <2>3, <2>6 DEF Expected
  <2>7. CASE repeat.kind = "fourweekly"
    BY <2>2, <2>3, <2>7 DEF Expected
  <2>8. CASE repeat.kind \in Unmoved
    BY <2>2, <2>8 DEF Expected, Unmoved
  <2> QED  BY <2>1, <2>4, <2>5, <2>6, <2>7, <2>8 DEF Kinds, Unmoved
<1> QED  BY <1>1, <1>2

\* A turn leads to the next expected day.
LEMMA NextDay ==
    ASSUME IInv, Turning, InEveryMonth, repeat.kind \notin Unmoved, NEW n \in Nat \ {0},
           repeat.kind = "daily" => n = 1,
           repeat.kind = "weekly" => n = 7,
           repeat.kind = "biweekly" => n = 14,
           repeat.kind = "fourweekly" => n = 28,
           repeat.kind = "weekdays" => n = DaysAhead(Weekday(Day(alarmTime))),
           repeat.kind = "monthly" => n = MonthStart[Month(Day(alarmTime)) + 1]
                                          - MonthStart[Month(Day(alarmTime))]
    PROVE  /\ Expected(Day(alarmTime) + n)
           /\ \A k \in 1 .. n - 1 : ~Expected(Day(alarmTime) + k)
<1> DEFINE D == Day(alarmTime)
           S == Day(set)
<1>1. D \in Nat /\ S \in Nat /\ repeat.kind \in Kinds /\ alarmTime \in Nat
  BY Clock, AlarmAssumption, Intervalled DEF IInv, TypeOK
<1>2. CASE repeat.kind = "daily"
  BY <1>2 DEF Expected
<1>3. ASSUME NEW p \in {7, 14, 28}, n = p, (D - S) % p = 0
      PROVE  /\ (D + n - S) % p = 0
             /\ \A k \in 1 .. n - 1 : (D + k - S) % p # 0
  <2>1. CASE p = 7   BY <2>1, <1>3, <1>1
  <2>2. CASE p = 14  BY <2>2, <1>3, <1>1
  <2>3. CASE p = 28  BY <2>3, <1>3, <1>1
  <2> QED  BY <2>1, <2>2, <2>3
<1>4. CASE repeat.kind = "weekly"
  <2>1. n = 7 /\ (D - S) % 7 = 0
    BY <1>4, BaseExpected DEF Expected
  <2>2. ASSUME NEW k \in Nat PROVE Expected(D + k) <=> (D + k - S) % 7 = 0
    BY <1>1, <1>4 DEF Expected
  <2>3. /\ (D + n - S) % 7 = 0
        /\ \A k \in 1 .. n - 1 : (D + k - S) % 7 # 0
    BY <2>1, <1>3
  <2>4. 1 .. n - 1 \subseteq Nat
    OBVIOUS
  <2> QED  BY <2>2, <2>3, <2>4
<1>5. CASE repeat.kind = "biweekly"
  <2>1. n = 14 /\ (D - S) % 14 = 0
    BY <1>5, BaseExpected DEF Expected
  <2>2. ASSUME NEW k \in Nat PROVE Expected(D + k) <=> (D + k - S) % 14 = 0
    BY <1>1, <1>5 DEF Expected
  <2>3. /\ (D + n - S) % 14 = 0
        /\ \A k \in 1 .. n - 1 : (D + k - S) % 14 # 0
    BY <2>1, <1>3
  <2>4. 1 .. n - 1 \subseteq Nat
    OBVIOUS
  <2> QED  BY <2>2, <2>3, <2>4
<1>6. CASE repeat.kind = "fourweekly"
  <2>1. n = 28 /\ (D - S) % 28 = 0
    BY <1>6, BaseExpected DEF Expected
  <2>2. ASSUME NEW k \in Nat PROVE Expected(D + k) <=> (D + k - S) % 28 = 0
    BY <1>1, <1>6 DEF Expected
  <2>3. /\ (D + n - S) % 28 = 0
        /\ \A k \in 1 .. n - 1 : (D + k - S) % 28 # 0
    BY <2>1, <1>3
  <2>4. 1 .. n - 1 \subseteq Nat
    OBVIOUS
  <2> QED  BY <2>2, <2>3, <2>4
<1>7. CASE repeat.kind = "weekdays"
  <2> DEFINE w == Weekday(D)
  <2>1. w \in 0 .. 6 /\ n = DaysAhead(w)
    BY <1>1, <1>7, AWeekday
  <2>2. (w + n) % 7 \in repeat.days /\ \A k \in 1 .. n - 1 : (w + k) % 7 \notin repeat.days
    BY <2>1, <1>7, NextWeekday DEF IInv
  <2>3. ASSUME NEW k \in Nat PROVE Weekday(D + k) = (w + k) % 7
    BY <1>1, WeekdayAssumption DEF Weekday
  <2>4. Expected(D + n)
    BY <2>2, <2>3, <1>7 DEF Expected
  <2>5. ASSUME NEW k \in 1 .. n - 1 PROVE ~Expected(D + k)
    BY <2>2, <2>3, <1>7 DEF Expected
  <2> QED  BY <2>4, <2>5
<1>8. CASE repeat.kind = "monthly"
  <2> DEFINE m == Month(D)
             c == MonthDay(S)
  <2>1. alarmTime <= Horizon /\ alarmTime \in Nat
    BY <1>1, HorizonAssumption DEF IInv, TypeOK, Bounded, Turning
  <2>2. In(D, m) /\ m + 2 \in Months
    <3>1. D + 31 < MonthStart[LastMonth] /\ MonthStart[LastMonth] \in Nat /\ D \in Nat
      BY <2>1, <1>1, WithinHorizon
    <3>2. In(D, m)
      BY <3>1, MonthOf
    <3>3. /\ m \in Months /\ m + 1 \in Months /\ m \in Int
          /\ MonthStart[m] <= D /\ MonthStart[m] \in Nat /\ MonthStart[m + 1] \in Nat
          /\ MonthStart[m + 1] <= MonthStart[m] + 31
      BY <3>2, MonthAssumption DEF In, Months
    <3>4. m + 1 # LastMonth
      BY <3>1, <3>3
    <3>5. m + 2 \in Months
      <4>1. LastMonth \in Nat /\ m + 1 \in 0 .. LastMonth
        BY <3>3, MonthAssumption DEF Months
      <4> QED  BY <4>1, <3>3, <3>4 DEF Months
    <3> QED  BY <3>2, <3>5
  <2>3. MonthDay(D) = c /\ c < 28
    BY <1>8, BaseExpected DEF Expected, InEveryMonth
  <2>4. /\ m \in Months /\ m + 1 \in Months /\ m \in Int /\ m + 1 + 1 \in Months
        /\ MonthStart[m] \in Nat /\ MonthStart[m + 1] \in Nat /\ MonthStart[m + 1 + 1] \in Nat
        /\ MonthStart[m + 1 + 1] >= MonthStart[m + 1] + 28
    <3>1. m \in Months /\ m + 1 \in Months /\ m \in Int
      BY <2>2 DEF In, Months
    <3>2. m + 1 < m + 1 + 1 /\ m + 2 = m + 1 + 1
      BY <3>1
    <3> QED  BY <3>1, <3>2, <2>2, MonthAssumption
  <2>5. D = MonthStart[m] + c /\ c \in Nat /\ D < MonthStart[m + 1]
    <3>1. MonthDay(D) = D - MonthStart[m]
      BY <2>2, <1>1, MonthIs
    <3>2. MonthStart[m] <= D /\ D < MonthStart[m + 1]
      BY <2>2 DEF In
    <3> QED  BY <3>1, <3>2, <2>3, <2>4, <1>1
  <2>6. n = MonthStart[m + 1] - MonthStart[m]
    BY <1>8
  <2>7. MonthDay(D + n) = c
    <3>1. D + n \in Nat /\ D + n = MonthStart[m + 1] + c /\ D + n < MonthStart[m + 1 + 1]
      BY <2>3, <2>4, <2>5, <2>6
    <3>2. In(D + n, m + 1)
      BY <3>1, <2>4, <2>5 DEF In
    <3> QED  BY <3>1, <3>2, <2>4, <2>5, MonthIs
  <2>8. ASSUME NEW e \in Nat, D < e, e < D + n PROVE MonthDay(e) # c
    <3>1. CASE e < MonthStart[m + 1]
      <4>1. In(e, m)
        BY <2>8, <3>1, <1>1, <2>4, <2>5 DEF In
      <4>2. MonthDay(e) = e - MonthStart[m]
        BY <4>1, MonthIs
      <4> QED  BY <4>2, <2>8, <2>4, <2>5, <1>1
    <3>2. CASE e >= MonthStart[m + 1]
      <4>1. e < MonthStart[m + 1] + c /\ e < MonthStart[m + 1 + 1]
        BY <2>8, <2>3, <2>4, <2>5, <2>6, <1>1
      <4>2. In(e, m + 1)
        BY <3>2, <4>1, <2>4 DEF In
      <4>3. MonthDay(e) = e - MonthStart[m + 1]
        BY <4>2, MonthIs
      <4> QED  BY <4>1, <4>3, <2>4, <2>5, <1>1
    <3> QED  BY <3>1, <3>2, <2>4
  <2>9. ASSUME NEW k \in 1 .. n - 1 PROVE MonthDay(D + k) # c
    <3>1. D + k \in Nat /\ D < D + k /\ D + k < D + n
      BY <1>1
    <3> QED  BY <3>1, <2>8
  <2> QED  BY <2>7, <2>9, <1>8 DEF Expected
<1> QED  BY <1>1, <1>2, <1>4, <1>5, <1>6, <1>7, <1>8 DEF Kinds, Unmoved

-----------------------------------------------------------------------------
(* Every step keeps the invariant. *)

LEMMA InvAtStart == Init => IInv
<1> SUFFICES ASSUME Init PROVE IInv
  OBVIOUS
<1>1. TypeOK /\ set \in Nat /\ set > Lead /\ now = 0 /\ alarmTime = set
  BY TypesAtStart, AlarmAssumption, LengthAssumption DEF Init
<1>2. Bounded
  BY <1>1, HorizonAssumption DEF Bounded
<1>3. DistancesKept /\ WallTimeKept /\ FutureAlarm /\ InCalendar /\ OnlyRepeated
  BY <1>1 DEF Init, DistancesKept, WallTimeKept, FutureAlarm, InCalendar, OnlyRepeated
<1>4. DaysKept
  BY <1>1 DEF Init, DaysKept
<1> QED  BY <1>1, <1>2, <1>3, <1>4 DEF IInv

\* A turn that knows no interval changes nothing.
LEMMA TurnInVain == ASSUME IInv, Turning, repeat.kind \in Unmoved
                    PROVE  Difference = 0
<1>1. TypeOK /\ Day(alarmTime) < MonthStart[LastMonth] /\ alarmTime \in Nat
  BY DEF IInv, InCalendar, Turning, TypeOK
<1>2. Diff = 0
  BY <1>1, Ahead
<1>3. Difference = Diff + Isdst(alarmTime) - Isdst(alarmTime + Diff)
  <2>1. Diff + (Isdst(alarmTime) - Isdst(alarmTime + Diff))
           = Diff + Isdst(alarmTime) - Isdst(alarmTime + Diff)
    BY <1>1, <1>2, Clock
  <2> QED  BY <2>1 DEF Difference, Diff, Correction, localtime
<1> QED  BY <1>1, <1>2, <1>3, Clock

\* What any other turn does, before it is done.
LEMMA TurnFacts ==
    ASSUME IInv, Turning, repeat.kind \notin Unmoved
    PROVE  /\ Difference \in Nat /\ Difference >= 23
           /\ \E n \in 1 .. 31 :
                 /\ Day(alarmTime + Difference) = Day(alarmTime) + n
                 /\ InEveryMonth => /\ Expected(Day(alarmTime) + n)
                                    /\ \A k \in 1 .. n - 1 : ~Expected(Day(alarmTime) + k)
           /\ \/ Hour(alarmTime + Difference) = Hour(alarmTime)
              \/ /\ Hour(alarmTime) = MissingHour
                 /\ Hour(alarmTime + Difference) = (MissingHour + 23) % 24
<1>1. TypeOK /\ Day(alarmTime) < MonthStart[LastMonth]
  BY DEF IInv, InCalendar, Turning
<1>2. PICK n \in 0 .. 31 :
         /\ n # 0
         /\ Diff = 24 * n
         /\ repeat.kind = "daily" => n = 1
         /\ repeat.kind = "weekly" => n = 7
         /\ repeat.kind = "biweekly" => n = 14
         /\ repeat.kind = "fourweekly" => n = 28
         /\ repeat.kind = "weekdays" => n = DaysAhead(Weekday(Day(alarmTime)))
         /\ LET m == Month(Day(alarmTime))
            IN  repeat.kind = "monthly" => n = MonthStart[m + 1] - MonthStart[m]
  BY <1>1, Ahead
<1>3. /\ Difference \in Int /\ Difference >= 23
      /\ Day(alarmTime + Difference) = Day(alarmTime) + n
      /\ \/ Hour(alarmTime + Difference) = Hour(alarmTime)
         \/ /\ Hour(alarmTime) = MissingHour
            /\ Hour(alarmTime + Difference) = (MissingHour + 23) % 24
  BY <1>1, <1>2, Landing
<1>4. InEveryMonth => /\ Expected(Day(alarmTime) + n)
                      /\ \A k \in 1 .. n - 1 : ~Expected(Day(alarmTime) + k)
  BY <1>2, NextDay
<1>5. Difference \in Nat
  BY <1>3
<1>6. n \in 1 .. 31
  BY <1>2
<1> QED  BY <1>3, <1>4, <1>5, <1>6

LEMMA VainTurnKeepsInv == ASSUME IInv, Turn, repeat.kind \in Unmoved PROVE IInv'
<1>1. Difference = 0 /\ {alarmTime, announceTime, stopTime} \subseteq Nat
  BY TurnInVain DEF Turn, Turning, IInv, TypeOK
<1>2. alarmTime' = alarmTime
  BY <1>1 DEF Turn
<1>3. UNCHANGED <<now, repeat, alarmTime, announceTime, stopTime, repeatCount, phase, set>>
  BY <1>1, <1>2 DEF Turn, Shifted
<1> QED  BY <1>3 DEF IInv, TypeOK, Bounded, DistancesKept, WallTimeKept, DaysKept,
             FutureAlarm, InCalendar, OnlyRepeated, InEveryMonth, Expected

LEMMA TurnKeepsInv == ASSUME IInv, Turn, repeat.kind \notin Unmoved PROVE IInv'
<1> DEFINE d == Difference
<1>1. Turning /\ TypeOK
  BY DEF Turn, Turning, IInv
<1>2. /\ d \in Nat /\ d >= 23 /\ alarmTime \in Nat /\ alarmTime' = alarmTime + d
      /\ now \in Nat /\ set \in Nat /\ set > Lead /\ alarmTime >= set /\ alarmTime <= now
      /\ now <= Horizon /\ Lead \in Nat \ {0} /\ Duration \in Nat \ {0}
      /\ announceTime \in Nat /\ stopTime \in Nat /\ Horizon \in Nat
  BY <1>1, TurnFacts, AlarmAssumption, LengthAssumption, HorizonAssumption
     DEF Turn, Turning, IInv, TypeOK, Bounded
<1>3. /\ announceTime' = IF announceTime > 0 THEN announceTime + d ELSE announceTime
      /\ stopTime' = IF stopTime > 0 THEN stopTime + d ELSE stopTime
  BY <1>2 DEF Turn, Shifted
<1>4. UNCHANGED <<now, repeat, repeatCount, phase, set>>
  BY DEF Turn
<1>5. TypeOK'
  BY <1>1, <1>2, <1>3, <1>4 DEF TypeOK
<1>6. Bounded'
  BY <1>2, <1>4 DEF Bounded
<1>7. DistancesKept'
  <2>1. announceTime \in {0, alarmTime - Lead} /\ stopTime \in {0, alarmTime + Duration}
    BY DEF IInv, DistancesKept
  <2> QED  BY <2>1, <1>2, <1>3 DEF DistancesKept
<1>8. WallTimeKept'
  <2>1. MissingHour \in 0 .. 23 /\ (MissingHour + 23) % 24 # MissingHour
    BY SummerAssumption DEF MissingHour
  <2>2. Hour(set)' = Hour(set) /\ Hour(alarmTime)' = Hour(alarmTime + d)
    <3>1. alarmTime' = alarmTime + d /\ set' = set
      BY <1>2, <1>4
    <3> QED  BY <3>1 DEF Hour
  <2>3. \/ Hour(alarmTime) = Hour(set)
        \/ Hour(set) = MissingHour /\ Hour(alarmTime) = (MissingHour + 23) % 24
    BY DEF IInv, WallTimeKept
  <2>4. \/ Hour(alarmTime + d) = Hour(alarmTime)
        \/ /\ Hour(alarmTime) = MissingHour
           /\ Hour(alarmTime + d) = (MissingHour + 23) % 24
    BY <1>1, TurnFacts
  <2> QED  BY <2>1, <2>2, <2>3, <2>4 DEF WallTimeKept
<1>9. DaysKept'
  <2> SUFFICES ASSUME InEveryMonth'
               PROVE  /\ Expected(Day(alarmTime))'
                      /\ \A e \in (Day(now) + 1 .. Day(alarmTime) - 1)' : ~Expected(e)'
    BY DEF DaysKept
  <2>1. InEveryMonth
    BY <1>4 DEF InEveryMonth
  <2>2. PICK n \in 1 .. 31 :
           /\ Day(alarmTime + d) = Day(alarmTime) + n
           /\ Expected(Day(alarmTime) + n)
           /\ \A k \in 1 .. n - 1 : ~Expected(Day(alarmTime) + k)
    BY <1>1, <2>1, TurnFacts
  <2>3. ASSUME NEW e PROVE Expected(e)' <=> Expected(e)
    BY <1>4 DEF Expected
  <2>4. Day(alarmTime)' = Day(alarmTime) + n /\ Day(now)' = Day(now)
    <3>1. alarmTime' = alarmTime + d /\ now' = now
      BY <1>2, <1>4
    <3>2. Day(alarmTime)' = Day(alarmTime + d) /\ Day(now)' = Day(now)
      BY <3>1 DEF Day
    <3> QED  BY <3>2, <2>2
  <2>5. Day(alarmTime) \in Nat /\ Day(now) \in Nat /\ Day(alarmTime) <= Day(now)
    BY <1>2, Clock, DaysGoOn
  <2>6. Expected(Day(alarmTime))'
    <3>1. Expected(Day(alarmTime))' <=> Expected(Day(alarmTime) + n)
      BY <1>4, <2>4 DEF Expected
    <3> QED  BY <3>1, <2>2
  <2>7. ASSUME NEW e \in (Day(now) + 1 .. Day(alarmTime) - 1)' PROVE ~Expected(e)'
    <3>1. e \in Day(now) + 1 .. Day(alarmTime) + n - 1
      <4>1. /\ Day(now)' + 1 = Day(now) + 1
            /\ Day(alarmTime)' - 1 = Day(alarmTime) + n - 1
        BY <2>4, <2>5
      <4>2. e \in Day(now)' + 1 .. Day(alarmTime)' - 1
        BY <2>7
      <4> QED  BY <4>1, <4>2, Zenon
    <3>2. e - Day(alarmTime) \in 1 .. n - 1 /\ e = Day(alarmTime) + (e - Day(alarmTime))
      BY <3>1, <2>5
    <3>3. ~Expected(Day(alarmTime) + (e - Day(alarmTime)))
      BY <3>2, <2>2
    <3> QED  BY <3>2, <3>3, <2>3
  <2> QED  BY <2>6, <2>7
<1>10. FutureAlarm'
  BY <1>1, <1>4 DEF FutureAlarm, Turning
<1>11. InCalendar'
  <2>1. PICK n \in 1 .. 31 : Day(alarmTime + d) = Day(alarmTime) + n
    BY <1>1, TurnFacts
  <2>2. Day(alarmTime)' = Day(alarmTime + d)
    BY <1>2 DEF Day, Local, Isdst
  <2>3. Day(alarmTime) + 31 < MonthStart[LastMonth] /\ MonthStart[LastMonth] \in Nat
        /\ Day(alarmTime) \in Nat
    BY <1>2, WithinHorizon, Clock
  <2> QED  BY <2>1, <2>2, <2>3 DEF InCalendar
<1>12. OnlyRepeated'
  BY <1>4 DEF IInv, OnlyRepeated
<1> QED  BY <1>5, <1>6, <1>7, <1>8, <1>9, <1>10, <1>11, <1>12 DEF IInv

LEMMA SettleKeepsInv == ASSUME IInv, Settle PROVE IInv'
<1>1. /\ UNCHANGED <<now, repeat, alarmTime, announceTime, stopTime, set>>
      /\ phase = "rescheduling" /\ phase' = "scheduled" /\ alarmTime > now
  BY DEF Settle
<1>2. TypeOK'
  BY <1>1 DEF Settle, IInv, TypeOK
<1>3. Bounded' /\ DistancesKept' /\ WallTimeKept'
  BY <1>1 DEF IInv, Bounded, DistancesKept, WallTimeKept
<1>4. DaysKept'
  BY <1>1 DEF IInv, DaysKept, InEveryMonth, Expected
<1>5. FutureAlarm' /\ InCalendar' /\ OnlyRepeated'
  BY <1>1 DEF FutureAlarm, InCalendar, IInv, OnlyRepeated
<1> QED  BY <1>2, <1>3, <1>4, <1>5 DEF IInv

LEMMA OverKeepsInv == ASSUME IInv, NEW delay \in Delays, Over(delay) PROVE IInv'
<1>1. /\ UNCHANGED <<repeat, alarmTime, announceTime, stopTime, repeatCount, set>>
      /\ phase' \in {"rescheduling", "terminated"}
      /\ now' \in Nat /\ now' >= alarmTime /\ now' <= Horizon /\ alarmTime \in Nat
  BY AlarmAssumption, HorizonAssumption DEF Over, IInv, TypeOK, Bounded
<1>2. TypeOK' /\ FutureAlarm'
  BY <1>1 DEF IInv, TypeOK, FutureAlarm
<1>3. Bounded' /\ DistancesKept' /\ WallTimeKept'
  BY <1>1 DEF IInv, Bounded, DistancesKept, WallTimeKept
<1>4. DaysKept'
  <2>1. Day(alarmTime) <= Day(now') /\ Day(alarmTime) \in Nat /\ Day(now') \in Nat
    BY <1>1, DaysGoOn, Clock
  <2>2. Day(now') + 1 .. Day(alarmTime') - 1 = {}
    BY <2>1, <1>1
  <2>3. InEveryMonth' /\ alarmTime' # set' => Expected(Day(alarmTime))'
    BY <1>1 DEF IInv, DaysKept, InEveryMonth, Expected
  <2> QED  BY <2>2, <2>3, <1>1 DEF DaysKept
<1>5. InCalendar'
  <2>1. alarmTime \in Nat /\ alarmTime <= Horizon /\ Horizon \in Nat
    BY <1>1, HorizonAssumption DEF IInv, TypeOK
  <2>2. Day(alarmTime) < MonthStart[LastMonth]
    BY <2>1, WithinHorizon, Clock
  <2>3. Day(alarmTime)' = Day(alarmTime)
    BY <1>1
  <2> QED  BY <2>2, <2>3 DEF InCalendar
<1>6. OnlyRepeated'
  BY <1>1 DEF Over, IInv, OnlyRepeated
<1> QED  BY <1>2, <1>3, <1>4, <1>5, <1>6 DEF IInv

LEMMA InvKept == IInv /\ [Next]_vars => IInv'
<1> SUFFICES ASSUME IInv, [Next]_vars PROVE IInv'
  OBVIOUS
<1>1. CASE Turn
  BY <1>1, TurnKeepsInv, VainTurnKeepsInv
<1>2. CASE Settle
  BY <1>2, SettleKeepsInv
<1>3. ASSUME NEW delay \in Delays, Over(delay) PROVE IInv'
  BY <1>3, OverKeepsInv
<1>4. CASE UNCHANGED vars
  BY <1>4 DEF vars, IInv, TypeOK, Bounded, DistancesKept, WallTimeKept, DaysKept,
              FutureAlarm, InCalendar, OnlyRepeated, InEveryMonth, Expected
<1> QED  BY <1>1, <1>2, <1>3, <1>4 DEF Next

LEMMA Invariance == Spec => []IInv
  BY InvAtStart, InvKept, PTL DEF Spec

-----------------------------------------------------------------------------
(* The theorems. *)

\* The times of an event stay times, and its count a natural number (Reschedule).
THEOREM RepeatedTimerTypes == Spec => []TypeOK
<1>1. IInv => TypeOK
  BY DEF IInv
<1> QED  BY <1>1, Invariance, PTL

\* However often Reschedule moves an event, and across both changes of the clock, it
\* goes off at the hour of the clock that was set.
THEOREM GoesOffAtItsHour == Spec => []WallTimeKept
<1>1. IInv => WallTimeKept
  BY DEF IInv
<1> QED  BY <1>1, Invariance, PTL

\* Reschedule leads to the first expected day that is left, however late it is called.
THEOREM NoDaySkipped == Spec => []NextExpectedDay
<1>1. IInv => NextExpectedDay
  BY DEF IInv, DaysKept, FutureAlarm, NextExpectedDay
<1> QED  BY <1>1, Invariance, PTL

\* The announcement and the end keep their distances to the alarm.
THEOREM MovesTogether == Spec => []DistancesKept
<1>1. IInv => DistancesKept
  BY DEF IInv
<1> QED  BY <1>1, Invariance, PTL

\* Every turn of the loop in Reschedule moves the alarm ahead by 23 hours at least, so
\* that the loop ends with the lock of all timers: for every interval addEvent takes,
\* but for a number that stands for none.
THEOREM LoopAdvances == Spec => []EveryTurnAdvances
<1>1. IInv => EveryTurnAdvances
  <2> SUFFICES ASSUME IInv, phase = "rescheduling", repeat.kind # "unknown"
               PROVE  Difference >= 23
    BY DEF EveryTurnAdvances
  <2>1. TypeOK /\ Day(alarmTime) < MonthStart[LastMonth]
    BY DEF IInv, InCalendar
  <2>2. repeat.kind \notin Unmoved
    BY DEF IInv, OnlyRepeated, Unmoved
  <2>3. PICK n \in 0 .. 31 : Diff = 24 * n /\ n # 0
    BY <2>1, <2>2, Ahead
  <2> QED  BY <2>1, <2>3, Landing
<1> QED  BY <1>1, Invariance, PTL

=============================================================================
