------------------------------- MODULE LiveTV -------------------------------
(***************************************************************************)
(* Watching television: the remote control (src/neutrino2/src/daemonc/     *)
(* remotecontrol.cpp), the info viewer (gui/infoviewer.cpp), the zaps of   *)
(* zapit that they and the web interface ask for, and the messages between *)
(* them and sectionsd, composed with CurrentNext.                          *)
(*                                                                         *)
(* Which channel is watched is known in four places: the remote control's  *)
(* current_channel_id, zapit's live_channel, sectionsd's service key and   *)
(* the messages on their way.  A zap runs in the thread that asks for it:  *)
(* the GUI thread for keys and timers, a web server thread for the web     *)
(* interface, at any time and without a lock.                              *)
(*                                                                         *)
(* The GUI thread handles a message to its end before it takes the next:   *)
(* first from the event socket, then what it posted to itself.             *)
(***************************************************************************)
EXTENDS CurrentNext

CONSTANTS
    StartChannels, \* the channels that may be on at the start
    MaxWebZaps,  \* bound on the zaps of the web interface
    MaxChanges   \* bound on all zaps and new programmes together

ASSUME StartAssumption  == StartChannels \subseteq Channels
ASSUME ChangeAssumption == MaxWebZaps \in Nat /\ MaxChanges \in Nat

VARIABLES
    rcChannel,   \* current_channel_id
    pending,     \* zap_completion_timeout is set
    epg,         \* current_EPGid, None for 0
    posted,      \* the channels of which the GUI thread posted CURRENTEPG to itself
    tuning,      \* the zap each thread is in
    tuned,       \* the last zap to end was successful
    back,        \* a zap went back to the channel that sectionsd still watched
    zaps, webZaps, changes

rc     == <<rcChannel, pending, epg>>
zapped == <<live, tuning, back>>
bounds == <<zaps, webZaps, changes>>
vars   == <<epgVars, zapped, queue, rc, posted, tuned, bounds>>

NoZap == [ch |-> None, tell |-> FALSE]

-----------------------------------------------------------------------------
(* Zaps. *)

\* zapit replaces the live channel first; `tell': the caller then tells sectionsd.
Tune(t, ch, tell) ==
    /\ live' = ch
    /\ tuning' = [tuning EXCEPT ![t] = [ch |-> ch, tell |-> tell]]
    /\ back' = (back \/ ch = key)

\* The tuner has locked and the channel plays, or something on the way has failed.
EndZap(t, ok) ==
    LET zap == tuning[t]
    IN  /\ zap # NoZap
        /\ queue' = Send(IF ok THEN "ZAP_COMPLETE" ELSE "ZAP_FAILED", zap.ch)
        /\ tuning' = [tuning EXCEPT ![t] = NoZap]
        /\ tuned' = ok
        /\ caller' = IF zap.tell THEN [caller EXCEPT ![t] = Call(zap.ch)] ELSE caller
        /\ UNCHANGED <<live, program, messaging, current, next, dmxCN, cn, update, rc,
                       posted, back, bounds>>

\* A thread that is neither in a zap nor in setServiceChanged.
Idle(t) == tuning[t] = NoZap /\ caller[t] = Returned

\* CRemoteControl::zapTo_ChannelID, for a key or a timer.  A zap asked for less than
\* two seconds ago and not yet answered is left to run, the answer will start ours.
Zap(ch) ==
    /\ Idle("gui")
    /\ changes < MaxChanges                               \* bound
    /\ ch # rcChannel
    /\ zaps' = zaps + 1 /\ changes' = changes + 1
    /\ rcChannel' = ch
    /\ epg' = None
    /\ \/ Tune("gui", ch, FALSE) /\ pending' = TRUE
       \/ pending /\ UNCHANGED <<zapped, pending>>
    /\ UNCHANGED <<epgVars, queue, posted, tuned, webZaps>>

\* CNeutrinoAPI::ZapToChannelId.
WebZap(ch) ==
    /\ Idle("web")
    /\ webZaps < MaxWebZaps /\ changes < MaxChanges       \* bound
    /\ ch # live
    /\ webZaps' = webZaps + 1 /\ changes' = changes + 1
    /\ Tune("web", ch, TRUE)
    /\ UNCHANGED <<epgVars, queue, rc, posted, tuned, zaps>>

-----------------------------------------------------------------------------
(* The messages of the GUI thread. *)

Receive(messages) ==
    /\ Idle("gui") /\ queue # <<>>
    /\ Head(queue).msg \in messages
    /\ queue' = Tail(queue)

\* A faulty ZapAnswered: an answer to another zap ends the wait as well.
ZapAnsweredByAny ==
    /\ Receive({"ZAP_COMPLETE", "ZAP_FAILED"}) /\ pending
    /\ pending' = FALSE
    /\ caller' = IF Head(queue).msg = "ZAP_COMPLETE" /\ Head(queue).ch = rcChannel
                 THEN [caller EXCEPT !["gui"] = Call(rcChannel)] ELSE caller
    /\ UNCHANGED <<zapped, program, messaging, current, next, dmxCN, cn, update,
                   rcChannel, epg, posted, tuned, bounds>>

\* A faulty ZapAnswered: only success ends the wait.
ZapAnsweredIfComplete ==
    /\ Receive({"ZAP_COMPLETE", "ZAP_FAILED"}) /\ pending
    /\ IF Head(queue).ch # rcChannel
       THEN Tune("gui", rcChannel, TRUE) /\ UNCHANGED <<pending, caller>>
       ELSE /\ pending' = (Head(queue).msg # "ZAP_COMPLETE")
            /\ caller' = IF Head(queue).msg = "ZAP_COMPLETE"
                         THEN [caller EXCEPT !["gui"] = Call(rcChannel)] ELSE caller
            /\ UNCHANGED zapped
    /\ UNCHANGED <<program, messaging, current, next, dmxCN, cn, update, rcChannel, epg,
                   posted, tuned, bounds>>

\* The answer to the zap that is waited for, or to another: then the channel asked
\* for last is zapped to again.
ZapAnswered ==
    /\ Receive({"ZAP_COMPLETE", "ZAP_FAILED"}) /\ pending
    /\ IF Head(queue).ch # rcChannel
       THEN Tune("gui", rcChannel, TRUE) /\ UNCHANGED <<pending, caller>>
       ELSE /\ pending' = FALSE
            /\ caller' = IF Head(queue).msg = "ZAP_COMPLETE"
                         THEN [caller EXCEPT !["gui"] = Call(rcChannel)] ELSE caller
            /\ UNCHANGED zapped
    /\ UNCHANGED <<program, messaging, current, next, dmxCN, cn, update, rcChannel, epg,
                   posted, tuned, bounds>>

\* No answer is waited for: somebody else has zapped, the remote control follows.
ZapReported ==
    /\ Receive({"ZAP_COMPLETE", "ZAP_FAILED"}) /\ ~pending
    /\ LET ch == Head(queue).ch
           complete == Head(queue).msg = "ZAP_COMPLETE"
       IN  IF ch # rcChannel
           THEN /\ rcChannel' = ch
                /\ epg' = None
                /\ caller' = [caller EXCEPT !["gui"] = IF complete THEN CallTwice(ch)
                                                                   ELSE Call(ch)]
           ELSE /\ caller' = IF complete THEN [caller EXCEPT !["gui"] = Call(ch)]
                                         ELSE caller
                /\ UNCHANGED <<rcChannel, epg>>
    /\ UNCHANGED <<zapped, program, messaging, current, next, dmxCN, cn, update,
                   pending, posted, tuned, bounds>>

\* CInfoViewer::getEPG.
CurrentNextEpg ==
    /\ Receive({"CURRENTNEXT_EPG"})
    /\ LET ch == Head(queue).ch
       IN  /\ \E e \in CurrentEvents(ch) :
                 posted' = IF e # None THEN posted \cup {ch} ELSE posted
           /\ Retry(ch)
    /\ UNCHANGED <<zapped, program, messaging, current, next, section, sleepNow,
                   busy, filter, update, caller, rc, tuned, bounds>>

\* What was posted is read when the event socket is empty; of two such messages for a
\* channel the second does what one of them would do.
Fetch(ch) ==
    /\ Idle("gui") /\ queue = <<>>
    /\ ch \in posted
    /\ posted' = posted \ {ch}

\* A faulty CurrentEpg: whatever event sectionsd has is taken for the channel's.
CurrentEpgUnchecked(ch) ==
    /\ Fetch(ch)
    /\ IF ch # rcChannel
       THEN UNCHANGED <<epg, dmxCN, thread>>
       ELSE /\ \E e \in CurrentEvents(rcChannel) : epg' = IF e # None THEN e ELSE epg
            /\ Retry(rcChannel)
    /\ UNCHANGED <<queue, zapped, program, messaging, current, next, section,
                   sleepNow, busy, filter, update, caller, rcChannel, pending, tuned, bounds>>

\* The event is asked for again, and taken only if it is one of the channel.
CurrentEpg(ch) ==
    /\ Fetch(ch)
    /\ IF ch # rcChannel
       THEN UNCHANGED <<epg, dmxCN, thread>>
       ELSE /\ \E e \in CurrentEvents(rcChannel) :
                  epg' = IF e # None /\ e.ch = rcChannel THEN e ELSE epg
            /\ Retry(rcChannel)
    /\ UNCHANGED <<queue, zapped, program, messaging, current, next, section,
                   sleepNow, busy, filter, update, caller, rcChannel, pending, tuned, bounds>>

\* CInfoViewer::showTitle, after a zap or for a key, asks for the events of the channel
\* it shows.
ShowInfobar ==
    /\ Idle("gui") /\ queue = <<>>
    /\ Retry(rcChannel)
    /\ UNCHANGED <<queue, posted, zapped, program, messaging, current, next, section,
                   sleepNow, busy, filter, update, caller, rc, tuned, bounds>>

NewProgram(ch) ==
    /\ changes < MaxChanges                               \* bound
    /\ changes' = changes + 1
    /\ ProgramMovesOn(ch)
    /\ UNCHANGED <<rc, posted, tuning, back, tuned, zaps, webZaps>>

-----------------------------------------------------------------------------
Init ==
    /\ \E ch \in StartChannels :
          /\ live = ch /\ key = ch /\ service = ch /\ rcChannel = ch
    /\ program = [ch \in Channels |-> 0]
    /\ queue = <<>> /\ posted = {}
    /\ have = {} /\ got = {} /\ needVersion = FALSE /\ busy = TRUE
    /\ current = None /\ next = None
    /\ version = None /\ filter = None
    /\ thread = "read" /\ section = None /\ sleepNow = FALSE
    /\ update = FALSE
    /\ caller = [t \in Callers |-> Returned]
    /\ pending = FALSE /\ epg = None
    /\ tuning = [t \in Callers |-> NoZap] /\ tuned = TRUE /\ back = FALSE
    /\ zaps = 0 /\ webZaps = 0 /\ changes = 0

\* The variables CurrentNext does not have.
Television == <<rc, posted, tuning, tuned, back, bounds>>

GuiStep ==
    \/ ZapAnswered \/ ZapReported \/ CurrentNextEpg
    \/ \E ch \in Channels : CurrentEpg(ch)
    \/ \E ok \in BOOLEAN : EndZap("gui", ok)
    \/ SetServiceChanged("gui") /\ UNCHANGED Television

WebStep ==
    \/ \E ok \in BOOLEAN : EndZap("web", ok)
    \/ SetServiceChanged("web") /\ UNCHANGED Television

Next ==
    \/ ShowInfobar \/ \E ch \in Channels : Zap(ch) \/ WebZap(ch)
    \/ GuiStep \/ WebStep
    \/ /\ \/ CnStep \/ SeeUpdate \/ ApplyUpdate
          \/ \E kind \in Kinds : ReadSection(kind)
       /\ UNCHANGED Television
    \/ \E ch \in Channels : NewProgram(ch)

Spec == Init /\ [][Next]_vars

\* Threads are scheduled; a stream repeats its sections, and the reads that fall on
\* the watched service are never all of one kind.
Fairness ==
    /\ WF_vars(GuiStep) /\ WF_vars(WebStep)
    /\ WF_vars(CnStep /\ UNCHANGED Television)
    /\ WF_vars((SeeUpdate \/ ApplyUpdate) /\ UNCHANGED Television)
    /\ \A kind \in Kinds : SF_vars(ReadSection(kind) /\ UNCHANGED Television)

FairSpec == Spec /\ Fairness

-----------------------------------------------------------------------------
(* Properties. *)

Events   == Event \cup {None}
Messages == {"ZAP_COMPLETE", "ZAP_FAILED", "CURRENTNEXT_EPG"}

TypeOK ==
    /\ {live, key, service, rcChannel} \subseteq Channels
    /\ posted \subseteq Channels
    /\ program \in [Channels -> 0 .. LastProgram]
    /\ have \subseteq Kinds /\ got \subseteq Kinds
    /\ {needVersion, busy, sleepNow, update, pending, tuned, back} \subseteq BOOLEAN
    /\ current \in Events /\ next \in Events /\ epg \in Events /\ filter \in Events
    /\ version \in 0 .. LastProgram \cup {None}
    /\ thread \in CnStates /\ section \in Section \cup {None}
    /\ thread = "store" => section # None
    /\ queue \in Seq([msg : Messages, ch : Channels])
    /\ caller \in [Callers -> [step : CallSteps, ch : Channels \cup {None}, again : BOOLEAN]]
    /\ tuning \in [Callers -> [ch : Channels \cup {None}, tell : BOOLEAN]]
    /\ \A t \in Callers : /\ caller[t].step # "idle" => caller[t].ch # None
                          /\ tuning[t] # NoZap => tuning[t].ch # None

\* The programme the remote control believes in is one of its channel, although the
\* message that announced it, the events of sectionsd and the channel may each have
\* changed on the way.
EpgOfChannel == epg # None => epg.ch = rcChannel

\* The infobar never shows one programme as the present and as the following one.
CurrentIsNotNext == current # None => current # next

\* A zap is answered: the remote control does not wait, or zap again, forever.
ZapSettles == <>[]~pending

\* As long as only the remote control zaps, everybody is on the last channel in the
\* end; a failed zap leaves sectionsd behind.
AllOnLastChannel ==
    <>[](webZaps = 0 => rcChannel = live /\ (tuned => key = rcChannel))

\* cnThread sleeps and nothing of the broadcast wakes it: a change of the service came
\* between its decision to sleep and its sleep.
Deaf == thread = "wait" /\ filter = None

\* It waits for a version other than one of which it has not stored the events.
Outrun == thread = "wait" /\ filter # None /\ current # None /\ current.n # filter.n

\* An event checked for one service was stored after another was set.
Crossed == \E e \in {current, next} : e # None /\ e.ch # key

\* It gave up on one service, or while the tuner was away, and sleeps at another for it.
Weary == thread = "wait" /\ filter # None /\ current = None

\* The present programme of the channel reaches the remote control, and the following
\* ones after it, unless one of these four races has happened or a zap went back.
EpgArrives ==
    <>[](webZaps = 0 /\ tuned /\ ~back /\ live \in HasEpg
         => epg = OnAir(rcChannel) \/ Deaf \/ Outrun \/ Crossed \/ Weary)

=============================================================================
