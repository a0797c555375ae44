------------------------------ MODULE Calendar ------------------------------
(***************************************************************************)
(* Local time as the C library keeps it: localtime and mktime, as          *)
(* CTimerEvent::Reschedule uses them (src/neutrino2/src/timerd/            *)
(* timermanager.cpp).                                                      *)
(*                                                                         *)
(* A time is a number of hours, counted so that in winter it is local      *)
(* time; minutes and seconds play no part.  Day 0 is the first of month 0, *)
(* days of the month count from 0.  One summer is modelled: its first hour *)
(* of the clock does not exist, and after it one hour comes twice.         *)
(***************************************************************************)
EXTENDS Integers

CONSTANTS
    SummerBegin, SummerEnd, \* the first times of summer and of the winter after it
    LastMonth,              \* bound on the months
    MonthStart,             \* the first day of each month
    FirstWeekday            \* of day 0; 0 is Sunday

Months == 0 .. LastMonth

\* A day lies in a month.
In(d, m) == /\ m \in Months /\ m + 1 \in Months
            /\ MonthStart[m] <= d /\ d < MonthStart[m + 1]

\* Where the clock is put forward at midnight, what is said of days does not hold.
ASSUME SummerAssumption  == /\ SummerBegin \in Nat /\ SummerEnd \in Nat
                            /\ SummerBegin < SummerEnd
                            /\ SummerBegin % 24 > 0
ASSUME MonthAssumption   == /\ LastMonth \in Nat \ {0}
                            /\ MonthStart \in [Months -> Nat]
                            /\ \A m, n \in Months :
                                  m < n => MonthStart[n] >= MonthStart[m] + 28
                            /\ \A m, n \in Months :
                                  n = m + 1 => MonthStart[n] <= MonthStart[m] + 31
                            /\ \A d \in 0 .. MonthStart[LastMonth] - 1 :
                                  \E m \in Months : In(d, m)
ASSUME WeekdayAssumption == FirstWeekday \in 0 .. 6

\* tm_isdst.
Isdst(t) == IF SummerBegin <= t /\ t < SummerEnd THEN 1 ELSE 0

Local(t)   == t + Isdst(t)
Day(t)     == Local(t) \div 24
Hour(t)    == Local(t) % 24
Weekday(d) == (d + FirstWeekday) % 7

\* The month of a day before the last month.
Month(d)   == CHOOSE m \in Months : In(d, m)
MonthDay(d) == d - MonthStart[Month(d)]

localtime(t) == [mon   |-> Month(Day(t)),
                 mday  |-> MonthDay(Day(t)),
                 wday  |-> Weekday(Day(t)),
                 hour  |-> Hour(t),
                 isdst |-> Isdst(t)]

\* A day past the end of its month is one of the next; the hour is taken as the caller
\* says, in summer time or not, whatever is in force then.
mktime(tm) == (MonthStart[tm.mon] + tm.mday) * 24 + tm.hour - tm.isdst

=============================================================================
