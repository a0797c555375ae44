--------------------------- MODULE MCRepeatedTimer ---------------------------
(* The year 2024: a leap year that begins on a Monday, summer time from 31 March to *)
(* 27 October, at two o'clock in winter time.                                       *)
EXTENDS RepeatedTimer, TLC

MCSummerBegin == 90 * 24 + 2
MCSummerEnd   == 300 * 24 + 2

MCMonthStart ==
    0 :> 0 @@ 1 :> 31 @@ 2 :> 60 @@ 3 :> 91 @@ 4 :> 121 @@ 5 :> 152 @@ 6 :> 182
    @@ 7 :> 213 @@ 8 :> 244 @@ 9 :> 274 @@ 10 :> 305 @@ 11 :> 335 @@ 12 :> 366 @@ 13 :> 397
    @@ 14 :> 425

\* Before, at and after the hour of the change, and the last of the day, on the 28th,
\* 29th and 31st of January.
MCAlarms == {24 * 27 + 2, 24 * 28 + 3, 24 * 30 + 1, 24 * 30 + 23}

Every(kind) == [kind |-> kind, days |-> {}]
On(days)    == [kind |-> "weekdays", days |-> days]

MCRepeats == {Every(k) : k \in Kinds \ {"weekdays"}}
             \cup {On({}), On({0}), On({1, 2, 3, 4, 5}), On({3, 6})}

=============================================================================
