---------------------------- MODULE MCStandalone ----------------------------
(* Three parts that share nothing: how a timer repeats over a year, the cache of the   *)
(* programme guide, and how the GUI thread gets its messages.  The first state says    *)
(* which of them moves.                                                                *)
EXTENDS MCRepeatedTimer, EventCache, RCInput

VARIABLE part

\* On channel 1 an event whose new version lasts longer, the same event under another key
\* in a table of another transponder, and one that begins before and lasts as long; on
\* channel 2 an earlier one.
MCBroadcast ==
    {[key |-> k, ch |-> c, start |-> s, end |-> e, table |-> t, version |-> v] :
        <<k, c, s, e, t, v>> \in {<<1, 1, 1, 2, 80, 0>>, <<1, 1, 1, 3, 80, 1>>,
                                 <<2, 1, 1, 2, 96, 0>>, <<4, 1, 0, 2, 96, 0>>,
                                 <<3, 2, 0, 1, 96, 0>>}}

\* Where a part begins when another one moves.
TimerRests == set = 27 * 24 + 2 /\ repeat = Every("daily") /\ repeatCount = 0 /\ stopTime = 0
GuideRests == watched = 1

StandaloneInit ==
    /\ Init /\ CacheInit /\ InputInit
    /\ \/ part = "timer" /\ GuideRests
       \/ part = "guide" /\ TimerRests
       \/ part = "input" /\ TimerRests /\ GuideRests

StandaloneNext ==
    \/ part = "timer" /\ Next /\ UNCHANGED <<cacheVars, inputVars, part>>
    \/ part = "guide" /\ CacheNext /\ UNCHANGED <<vars, inputVars, part>>
    \/ part = "input" /\ InputNext /\ UNCHANGED <<vars, cacheVars, part>>

\* The housekeeping thread goes on, the lock is fair to the threads of the schedule, and
\* each of them sleeps from time to time.
GuideFairness ==
    /\ WF_cacheVars(part = "guide" /\ KeeperStep)
    /\ \A t \in EitThreads : /\ WF_cacheVars(part = "guide" /\ AddStep(t) /\ adds' = adds)
                             /\ SF_cacheVars(part = "guide" /\ GoToSleep(t))

Standalone ==
    StandaloneInit /\ [][StandaloneNext]_<<vars, cacheVars, inputVars, part>> /\ GuideFairness

=============================================================================
