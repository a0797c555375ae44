--------------------------- MODULE RepeatedTimer ---------------------------
(***************************************************************************)
(* When a repeated timer goes off next: CTimerEvent::Reschedule            *)
(* (src/neutrino2/src/timerd/timermanager.cpp), one turn of its loop to a  *)
(* step.                                                                   *)
(*                                                                         *)
(* TimerManager adds whole periods in its place; here a timer is followed  *)
(* over the year, with the box switched off for a while now and then.      *)
(* Every interval that addEvent takes is modelled.  Weekdays with no day   *)
(* set become `once' there; a number no dialogue offers (`see timer', or   *)
(* one that stands for nothing) never leaves the loop.                     *)
(***************************************************************************)
EXTENDS Calendar

CONSTANTS
    Alarms,   \* the times a user may set
    Repeats,  \* the intervals asked for
    Counts,   \* how often it shall repeat, 0 for ever
    Lead,     \* from the announcement to the alarm
    Duration, \* from the alarm to the stop time
    Delays,   \* from the alarm until the event is over, or the box is on again
    Horizon   \* bound on the clock

\* `unknown' is any other number, TIMERREPEAT_BYEVENTDESCRIPTION among them.
Kinds == {"once", "daily", "weekly", "biweekly", "fourweekly", "monthly", "weekdays", "unknown"}

\* `days' are the bits of the weekdays, for the others there are none.
Intervals == [kind : Kinds, days : SUBSET (0 .. 6)]

ASSUME AlarmAssumption ==
    /\ Alarms \subseteq Nat
    /\ Repeats \subseteq Intervals
    /\ Counts \subseteq Nat /\ Delays \subseteq Nat
ASSUME LengthAssumption == /\ Lead \in Nat \ {0} /\ Duration \in Nat \ {0}
                           /\ \A a \in Alarms : a > Lead
ASSUME HorizonAssumption == /\ Horizon \in Nat /\ LastMonth > 1
                            /\ Horizon + 1 < 24 * MonthStart[LastMonth - 2]

VARIABLES
    now,         \* time(NULL)
    repeat,      \* eventRepeat
    alarmTime, announceTime, stopTime, repeatCount,
    phase,       \* "scheduled", "rescheduling" or "terminated"
    set          \* the alarm time the user set

vars == <<now, repeat, alarmTime, announceTime, stopTime, repeatCount, phase, set>>

-----------------------------------------------------------------------------
(* What addEvent makes of the interval. *)

Once == [kind |-> "once", days |-> {}]

\* A faulty Programmed: it takes the interval as it comes.
ProgrammedAsIs(r) == r

\* Weekdays with no day set reduce to once.
Programmed(r) == IF r.kind = "weekdays" /\ r.days = {} THEN Once ELSE r

-----------------------------------------------------------------------------
(* One turn. *)

\* A faulty search: it begins with the day after the next.
DaysAheadSkipping(wday) ==
    CHOOSE n \in 2 .. 8 : /\ (wday + n) % 7 \in repeat.days
                          /\ \A k \in 2 .. n - 1 : (wday + k) % 7 \notin repeat.days

\* The days until the next weekday that is set.
DaysAhead(wday) ==
    CHOOSE n \in 1 .. 7 : /\ (wday + n) % 7 \in repeat.days
                          /\ \A k \in 1 .. n - 1 : (wday + k) % 7 \notin repeat.days

Moved(tm) ==
    CASE repeat.kind = "daily"      -> [tm EXCEPT !.mday = @ + 1]
      [] repeat.kind = "weekly"     -> [tm EXCEPT !.mday = @ + 7]
      [] repeat.kind = "biweekly"   -> [tm EXCEPT !.mday = @ + 14]
      [] repeat.kind = "fourweekly" -> [tm EXCEPT !.mday = @ + 28]
      [] repeat.kind = "monthly"    -> [tm EXCEPT !.mon = @ + 1]
      [] repeat.kind = "weekdays" /\ repeat.days # {}
                                    -> [tm EXCEPT !.mday = @ + DaysAhead(tm.wday)]
      [] OTHER                      -> tm

\* A faulty correction: the clock goes the other way.
CorrectionSwapped(isdst1, isdst2) == isdst2 - isdst1

\* The hour the clock was put forward or back between the two alarms.
Correction(isdst1, isdst2) == isdst1 - isdst2

Difference ==
    LET tm   == localtime(alarmTime)
        diff == mktime(Moved(tm)) - alarmTime
    IN  diff + Correction(tm.isdst, Isdst(alarmTime + diff))

\* A time of 0 stands for none.
Shifted(time, diff) == IF time > 0 THEN time + diff ELSE time

\* A faulty Turn: the other times follow before the correction.
TurnUncorrected ==
    /\ phase = "rescheduling" /\ alarmTime <= now
    /\ alarmTime' = alarmTime + Difference
    /\ LET diff == mktime(Moved(localtime(alarmTime))) - alarmTime
       IN  /\ announceTime' = Shifted(announceTime, diff)
           /\ stopTime' = Shifted(stopTime, diff)
    /\ UNCHANGED <<now, repeat, repeatCount, phase, set>>

Turn ==
    /\ phase = "rescheduling" /\ alarmTime <= now
    /\ alarmTime' = alarmTime + Difference
    /\ announceTime' = Shifted(announceTime, alarmTime' - alarmTime)
    /\ stopTime' = Shifted(stopTime, alarmTime' - alarmTime)
    /\ UNCHANGED <<now, repeat, repeatCount, phase, set>>

\* A faulty Settle: a count of 0 is decremented as well.
SettleUnbounded ==
    /\ phase = "rescheduling" /\ alarmTime > now
    /\ phase' = "scheduled"
    /\ repeatCount' = repeatCount - 1
    /\ UNCHANGED <<now, repeat, alarmTime, announceTime, stopTime, set>>

Settle ==
    /\ phase = "rescheduling" /\ alarmTime > now
    /\ phase' = "scheduled"
    /\ repeatCount' = IF repeatCount > 0 THEN repeatCount - 1 ELSE 0
    /\ UNCHANGED <<now, repeat, alarmTime, announceTime, stopTime, set>>

-----------------------------------------------------------------------------
(* The event is over, or found in the past when the box boots. *)

Over(delay) ==
    /\ phase = "scheduled"
    /\ alarmTime + delay <= Horizon                       \* bound
    /\ now' = IF alarmTime + delay > now THEN alarmTime + delay ELSE now
    /\ phase' = IF repeat.kind # "once" /\ repeatCount # 1 THEN "rescheduling" ELSE "terminated"
    /\ UNCHANGED <<repeat, alarmTime, announceTime, stopTime, repeatCount, set>>

Init ==
    /\ set \in Alarms /\ repeat \in {Programmed(r) : r \in Repeats} /\ repeatCount \in Counts
    /\ alarmTime = set
    /\ \/ announceTime = 0 /\ stopTime = 0
       \/ announceTime = set - Lead /\ stopTime = set + Duration
    /\ now = 0
    /\ phase = "scheduled"

Next == Turn \/ Settle \/ \E delay \in Delays : Over(delay)

Spec == Init /\ [][Next]_vars

-----------------------------------------------------------------------------
(* Properties. *)

TypeOK ==
    /\ now \in Nat /\ set \in Alarms /\ repeat \in {Programmed(r) : r \in Repeats}
    /\ {alarmTime, announceTime, stopTime} \subseteq Nat
    /\ repeatCount \in Nat
    /\ phase \in {"scheduled", "rescheduling", "terminated"}

\* The hour of the clock that summer leaves out.
MissingHour == SummerBegin % 24

\* The timer goes off at the hour of the clock that was set, in winter and in summer.
\* Only one set for the hour that is left out goes off an hour earlier, and from then
\* on always.
WallTimeKept ==
    \/ Hour(alarmTime) = Hour(set)
    \/ Hour(set) = MissingHour /\ Hour(alarmTime) = (MissingHour + 23) % 24

\* The days the user expects.
Expected(d) ==
    LET n == d - Day(set)
    IN  CASE repeat.kind = "daily"      -> TRUE
          [] repeat.kind = "weekly"     -> n % 7 = 0
          [] repeat.kind = "biweekly"   -> n % 14 = 0
          [] repeat.kind = "fourweekly" -> n % 28 = 0
          [] repeat.kind = "monthly"    -> MonthDay(d) = MonthDay(Day(set))
          [] repeat.kind = "weekdays"   -> Weekday(d) \in repeat.days
          [] OTHER                      -> n = 0

\* Days of the month that a month may lack are left out: the timer moves into the month
\* after it, and stays on the first days of the month.
InEveryMonth ==
    repeat.kind = "monthly" => MonthDay(Day(set)) < 28

\* A rescheduled timer goes off on the first expected day that is left, however many
\* it missed: no later day, and none in between.
NextExpectedDay ==
    phase = "scheduled" /\ alarmTime # set /\ InEveryMonth
    => /\ alarmTime > now
       /\ Expected(Day(alarmTime))
       /\ \A d \in Day(now) + 1 .. Day(alarmTime) - 1 : ~Expected(d)

\* The announcement and the end move with the alarm, across both changes of the clock.
DistancesKept ==
    /\ announceTime \in {0, alarmTime - Lead}
    /\ stopTime \in {0, alarmTime + Duration}

\* Every turn moves the alarm ahead by a day or more of the clock, so that the loop ends:
\* the timer thread holds the lock of all timers while it runs.  Also where weekdays were
\* asked for and none was chosen; only an unknown interval keeps it for ever.
EveryTurnAdvances ==
    phase = "rescheduling" /\ repeat.kind # "unknown" => Difference >= 23

=============================================================================
