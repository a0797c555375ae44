--------------------------- MODULE MCTimerManager ---------------------------
(* Small instances of TimerManager for TLC. *)
EXTENDS TimerManager

CONSTANTS daily, byHand, zap, web, next

Wish(type, announce, alarm, stop, repeat, count, safety, immediate) ==
    [type |-> type, announce |-> announce, alarm |-> alarm, stop |-> stop,
     repeat |-> repeat, count |-> count, safety |-> safety, immediate |-> immediate]

\* A daily recording with two occurrences, a recording started by hand, a zap, a
\* recording of the web interface without a stop time, a next programme with one.
MCRequest == [t \in Timers |->
    CASE t = daily  -> Wish("record", 2, 3, 3, TRUE, 2, TRUE, FALSE)
      [] t = byHand -> Wish("record", 2, 2, 2, FALSE, 0, FALSE, TRUE)
      [] t = zap    -> Wish("zapto", 2, 3, 0, FALSE, 0, FALSE, FALSE)
      [] t = web    -> Wish("record", 2, 3, 0, FALSE, 0, FALSE, FALSE)
      [] t = next   -> Wish("nextprogram", 2, 2, 3, FALSE, 0, FALSE, FALSE)]

\* An edit in the timer list: a later recording, announced before it starts.
MCEdits == {[announce |-> 3, alarm |-> 4, stop |-> 5, repeat |-> TRUE, count |-> 0]}
NoEdits == {}
=============================================================================
