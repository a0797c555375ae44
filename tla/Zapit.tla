------------------------------- MODULE Zapit -------------------------------
(***************************************************************************)
(* zapit's frontends (src/neutrino2/src/zapit/zapit.cpp, frontend.cpp):    *)
(* which tuner shows the live channel, which one the recorder reads from,  *)
(* and when they are locked, closed and tuned again.                       *)
(*                                                                         *)
(* zapit has no thread of its own here: the GUI thread calls it.  Every    *)
(* operation maps zapit's state, a record z, to the next one and appends   *)
(* the messages it sends to z.sent.  All tuners are alike (one delivery    *)
(* system, mode FE_SINGLE); motors, CAMs, PMTs and playback are left out.  *)
(***************************************************************************)
EXTENDS Integers, Sequences, FiniteSets

CONSTANTS
    Frontends,      \* the tuners, numbered in the order of femap
    Channels,       \* the channels
    Transponders,   \* the transponders that carry them
    TransponderOf,  \* [Channels -> Transponders]
    Receivable,     \* the transponders the antenna receives
    NoTransponder,  \* TP_id 0
    NoChannel       \* channel id 0

ASSUME FrontendAssumption ==
    /\ IsFiniteSet(Frontends) /\ Frontends # {}
    /\ Frontends = 1 .. Cardinality(Frontends)
ASSUME ChannelAssumption ==
    /\ TransponderOf \in [Channels -> Transponders]
    /\ Receivable \subseteq Transponders
    /\ NoTransponder \notin Transponders
    /\ NoChannel \notin Channels

Frontend == [tp : Transponders \cup {NoTransponder},
             tuned : BOOLEAN, locked : BOOLEAN, standby : BOOLEAN]

Messages == {"RECORDMODE", "ZAP_COMPLETE"}

ZapitState ==
    [fe         : [Frontends -> Frontend],
     live       : Channels,                   \* live_channel
     live_fe    : Frontends,
     rec        : Channels \cup {NoChannel},  \* rec_channel
     record_fe  : Frontends \cup {0},         \* 0: NULL
     recordMode : BOOLEAN,                    \* currentMode & RECORD_MODE
     standby    : BOOLEAN,
     sent       : Seq(Messages)]

Least(S)    == CHOOSE f \in S : \A g \in S : f <= g
Greatest(S) == CHOOSE f \in S : \A g \in S : g <= f

-----------------------------------------------------------------------------
(* One frontend. *)

Closed(fe) == [fe EXCEPT !.tuned = FALSE, !.standby = TRUE]

\* initTuner: a closed frontend is opened and has forgotten its transponder.
Opened(fe) ==
    IF fe.standby THEN [fe EXCEPT !.tp = NoTransponder, !.standby = FALSE] ELSE fe

\* setInput and tuneChannel; tuning fails without a signal.
Tuned(fe, tp) == [fe EXCEPT !.tp = tp, !.tuned = (fe.tuned /\ fe.tp = tp) \/ tp \in Receivable]

OnTransponder(fe, c) == fe.tuned /\ fe.tp = TransponderOf[c]

-----------------------------------------------------------------------------
(* Zapping. *)

\* A faulty getFrontend: a locked frontend is taken as well.
LiveCandidatesLocked(z, c) == Frontends

\* The frontends getFrontend accepts for the live channel.
LiveCandidates(z, c) ==
    {f \in Frontends : OnTransponder(z.fe[f], c) \/ ~z.fe[f].locked}

\* getFrontend first closes the tuners that are neither tuned nor locked.
CloseUnused(z) ==
    [z EXCEPT !.fe = [f \in Frontends |->
        IF ~z.fe[f].tuned /\ ~z.fe[f].locked /\ Frontends # {f} THEN Closed(z.fe[f])
        ELSE z.fe[f]]]

\* zapTo_ChannelID and zapit: the live channel changes even if no frontend is
\* left for it, and neutrino is told only of a zap that has succeeded.
ZapTo(z, c) ==
    LET chosen == LiveCandidates(z, c)
        ready  == [CloseUnused(z) EXCEPT !.live = c]
        f      == Least(chosen)
        fe     == Tuned(Opened(ready.fe[f]), TransponderOf[c])
    IN  IF chosen = {} THEN ready
        ELSE [ready EXCEPT !.live_fe = f,
                           !.fe[f]   = fe,
                           !.sent    = IF fe.tuned THEN Append(@, "ZAP_COMPLETE") ELSE @]

\* getPreferredFrontend finds one: asked before a zap while something is recorded.
CanZap(z, c) ==
    \E f \in Frontends :
        \/ z.fe[f].locked /\ z.fe[f].tp = TransponderOf[c]
        \/ ~z.fe[f].locked

-----------------------------------------------------------------------------
(* Recording. *)

\* getRecordFrontend: the first tuner on the transponder, else the last one that
\* is free.  A tuner other than the live one counts as free only if not tuned.
RecordCandidates(z) ==
    {f \in Frontends : IF f # z.live_fe THEN ~z.fe[f].tuned ELSE ~z.fe[f].locked}

RecordFrontends(z, c) ==
    LET same == {f \in Frontends : OnTransponder(z.fe[f], c)}
    IN  IF same # {} THEN {Least(same)}
        ELSE IF RecordCandidates(z) # {} THEN {Greatest(RecordCandidates(z))}
        ELSE {}

\* zapTo_RecordID: if the live tuner is taken, the live channel follows.
ZapToRecord(z, c) ==
    LET found == RecordFrontends(z, c)
        f     == Least(found)
        ready == [z EXCEPT !.rec = c, !.record_fe = f, !.fe[f] = Opened(@)]
    IN  IF found = {} THEN [z EXCEPT !.rec = c]
        ELSE IF f # z.live_fe
             THEN [ready EXCEPT !.fe[f] = Tuned(@, TransponderOf[c])]
        ELSE IF TransponderOf[c] # TransponderOf[z.live]
             THEN ZapTo(ready, c)
        ELSE ready

\* setRecordMode(true): the frontend is locked if it is tuned.
SetRecordMode(z) ==
    IF z.recordMode THEN z
    ELSE [z EXCEPT !.recordMode = TRUE,
                   !.fe   = [f \in Frontends |->
                                [z.fe[f] EXCEPT !.locked = @ \/ (f = z.record_fe /\ z.fe[f].tuned)]],
                   !.sent = Append(@, "RECORDMODE")]

\* setRecordMode(false).
UnsetRecordMode(z) ==
    IF ~z.recordMode THEN z
    ELSE [z EXCEPT !.recordMode = FALSE,
                   !.rec  = NoChannel,
                   !.fe   = [f \in Frontends |->
                                [z.fe[f] EXCEPT !.locked = @ /\ f # z.record_fe]],
                   !.sent = Append(@, "RECORDMODE")]

-----------------------------------------------------------------------------
(* Standby. *)

EnterStandby(z) ==
    IF z.standby THEN z
    ELSE [z EXCEPT !.standby = TRUE,
                   !.fe = [f \in Frontends |->
                              IF z.fe[f].locked THEN z.fe[f] ELSE Closed(z.fe[f])]]

LeaveStandby(z) ==
    IF z.standby THEN ZapTo([z EXCEPT !.standby = FALSE], z.live) ELSE z

\* After start-up: the last channel has been zapped to.
StartZapit(c) ==
    [ZapTo([fe         |-> [f \in Frontends |->
                              [tp |-> NoTransponder, tuned |-> FALSE, locked |-> FALSE,
                               standby |-> FALSE]],
            live       |-> c,
            live_fe    |-> Greatest(Frontends),
            rec        |-> NoChannel,
            record_fe  |-> 0,
            recordMode |-> FALSE,
            standby    |-> FALSE,
            sent       |-> <<>>], c) EXCEPT !.sent = <<>>]

=============================================================================
