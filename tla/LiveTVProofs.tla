---------------------------- MODULE LiveTVProofs ----------------------------
(***************************************************************************)
(* Theorems about the remote control, zapit's zaps and sectionsd's present *)
(* and following events, for any channels, bounds and order of the steps.  *)
(***************************************************************************)
EXTENDS LiveTV, TLAPS

\* What TypeOK says of the state, in parts that a step changes together.
Shown ==
    /\ {live, key, service, rcChannel} \subseteq Channels /\ posted \subseteq Channels
    /\ program \in [Channels -> 0 .. LastProgram]
    /\ {update, pending, tuned, back} \subseteq BOOLEAN /\ epg \in Events

Stored ==
    /\ have \subseteq Kinds /\ got \subseteq Kinds
    /\ {needVersion, busy, sleepNow} \subseteq BOOLEAN
    /\ current \in Events /\ next \in Events /\ filter \in Events
    /\ version \in 0 .. LastProgram \cup {None}
    /\ thread \in CnStates /\ section \in Section \cup {None}
    /\ thread = "store" => section # None

Waiting == queue \in Seq([msg : Messages, ch : Channels])

Calls ==
    /\ caller \in [Callers -> [step : CallSteps, ch : Channels \cup {None}, again : BOOLEAN]]
    /\ tuning \in [Callers -> [ch : Channels \cup {None}, tell : BOOLEAN]]
    /\ \A t \in Callers : /\ caller[t].step # "idle" => caller[t].ch # None
                          /\ tuning[t] # NoZap => tuning[t].ch # None

\* The three invariants are inductive together: an event stored is stored for a service.
IInv == Shown /\ Stored /\ Waiting /\ Calls /\ EpgOfChannel /\ CurrentIsNotNext

LEMMA Parts == IInv => TypeOK
BY DEF IInv, TypeOK, Shown, Stored, Waiting, Calls

-----------------------------------------------------------------------------
(* The operations the steps are made of. *)

\* A message sent for a channel keeps the queue one of messages for channels.
LEMMA Sending ==
    ASSUME Waiting, NEW m \in Messages, NEW ch \in Channels
    PROVE  Send(m, ch) \in Seq([msg : Messages, ch : Channels])
BY DEF Waiting, Send

\* The call of setServiceChanged of one thread changes.
LEMMA Calling ==
    ASSUME Calls, NEW t \in Callers, UNCHANGED tuning,
           NEW c \in [step : CallSteps, ch : Channels \cup {None}, again : BOOLEAN],
           c.step # "idle" => c.ch # None,
           caller' = [caller EXCEPT ![t] = c]
    PROVE  Calls'
BY DEF Calls

\* A call for a channel, and what follows it, are calls.
LEMMA CallShape ==
    /\ \A ch \in Channels :
          /\ Call(ch) \in [step : CallSteps, ch : Channels \cup {None}, again : BOOLEAN]
          /\ CallTwice(ch) \in [step : CallSteps, ch : Channels \cup {None}, again : BOOLEAN]
          /\ Call(ch).ch # None /\ CallTwice(ch).ch # None
    /\ \A c \in [step : CallSteps, ch : Channels \cup {None}, again : BOOLEAN] :
          /\ NextCall(c) \in [step : CallSteps, ch : Channels \cup {None}, again : BOOLEAN]
          /\ NextCall(c).step # "idle" /\ c.step # "idle" /\ c.ch # None => NextCall(c).ch # None
BY NoneAssumption DEF Call, CallTwice, NextCall, Returned, CallSteps

\* A zap begins.
LEMMA Tuning ==
    ASSUME Calls, NEW t \in Callers, NEW ch \in Channels, NEW tell \in BOOLEAN,
           Tune(t, ch, tell), UNCHANGED caller
    PROVE  Calls' /\ live' = ch /\ (back \in BOOLEAN => back' \in BOOLEAN)
BY NoneAssumption DEF Calls, Tune, NoZap

\* dmxCN is restarted: nothing but its version and the sleep of the thread changes.
LEMMA Changing ==
    ASSUME Stored, NEW ch, Change(ch),
           UNCHANGED <<have, got, needVersion, busy, sleepNow, current, next, filter, section>>
    PROVE  Stored' /\ service' = ch
BY DEF Stored, Change, CnStates

\* The same after an event was asked for.
LEMMA Retrying ==
    ASSUME Stored, service \in Channels, NEW ch, Retry(ch),
           UNCHANGED <<have, got, needVersion, busy, sleepNow, current, next, filter, section>>
    PROVE  Stored' /\ service' \in Channels
<1>1. CASE UNCHANGED <<dmxCN, thread>>
  BY <1>1 DEF Stored, dmxCN
<1>2. CASE Change(service)
  BY <1>2, Changing
<1> QED
  BY <1>1, <1>2 DEF Retry

\* What a channel broadcasts are events of that channel.
LEMMA Broadcasting ==
    ASSUME Shown, NEW ch \in Channels
    PROVE  /\ OnAir(ch) \in Event /\ OnAir(ch).ch = ch
           /\ Following(ch) \in Event /\ Following(ch).ch = ch
BY BoundAssumption DEF Shown, OnAir, Following, Event

\* What sectionsd returns as the current event is one, or nothing.
LEMMA Asking ==
    ASSUME Shown, Stored, NEW ch \in Channels
    PROVE  CurrentEvents(ch) \subseteq Events
BY Broadcasting DEF CurrentEvents, Events, Stored

-----------------------------------------------------------------------------
(* The steps of sectionsd. *)

\* Storing the present event moves the following one away if it is the same.
LEMMA StoringCurrent ==
    ASSUME NEW e \in Event, current \in Events, next \in Events, got \subseteq Kinds,
           CurrentIsNotNext, StoreCurrent(e)
    PROVE  current' \in Events /\ next' \in Events /\ got' \subseteq Kinds /\ CurrentIsNotNext'
BY NoneAssumption DEF Events, Kinds, CurrentIsNotNext, StoreCurrent

\* A following event is not stored if it is the present one.
LEMMA StoringNext ==
    ASSUME NEW e \in Event, current \in Events, next \in Events, got \subseteq Kinds,
           CurrentIsNotNext, StoreNext(e)
    PROVE  current' \in Events /\ next' \in Events /\ got' \subseteq Kinds /\ CurrentIsNotNext'
BY NoneAssumption DEF Events, Kinds, CurrentIsNotNext, StoreNext

\* No step of cnThread, setServiceChanged or the housekeeping thread, and no new programme,
\* changes the zaps or what the remote control knows.
SectionsdStep ==
    \/ CnStep \/ SeeUpdate \/ ApplyUpdate
    \/ \E kind \in Kinds : ReadSection(kind)
    \/ \E t \in Callers : SetServiceChanged(t)

LEMMA SectionsdKeeps == ASSUME IInv, SectionsdStep, UNCHANGED Television PROVE IInv'
<1> USE DEF IInv
<1>0. /\ Shown /\ Stored /\ Waiting /\ Calls /\ EpgOfChannel /\ CurrentIsNotNext
      /\ EpgOfChannel'
      /\ UNCHANGED <<rcChannel, pending, epg, posted, tuning, tuned, back>>
  BY DEF Television, rc, EpgOfChannel
<1>1. ASSUME NEW kind \in Kinds, ReadSection(kind) PROVE IInv'
  <2>1. section' \in Section /\ Shown' /\ Waiting' /\ Calls' /\ CurrentIsNotNext'
    BY <1>0, <1>1, Broadcasting DEF ReadSection, Section, Shown, Waiting, Calls, CurrentIsNotNext
  <2>2. version' \in 0 .. LastProgram \cup {None} /\ thread' = "report"
    BY <1>0, <1>1 DEF ReadSection, Shown, Stored
  <2>3. needVersion' \in BOOLEAN /\ sleepNow' \in BOOLEAN
    BY <1>0, <1>1 DEF ReadSection, SawVersion, Stored
  <2> QED
    BY <1>0, <1>1, <2>1, <2>2, <2>3 DEF ReadSection, Stored, CnStates
<1>2. CASE ReadOther
  <2>1. Shown' /\ Waiting' /\ Calls' /\ CurrentIsNotNext'
    BY <1>0, <1>2 DEF ReadOther, dmxCN, Shown, Waiting, Calls, CurrentIsNotNext
  <2> QED
    BY <1>0, <1>2, <2>1 DEF ReadOther, SawVersion, Stored, CnStates, dmxCN
<1>3. CASE GiveUpOnVersion
  <2>1. Waiting'
    BY <1>0, <1>3, Sending DEF GiveUpOnVersion, Waiting, Messages, Shown
  <2>2. Shown' /\ Calls' /\ CurrentIsNotNext'
    BY <1>0, <1>3 DEF GiveUpOnVersion, dmxCN, Shown, Calls, CurrentIsNotNext
  <2> QED
    BY <1>0, <1>3, <2>1, <2>2 DEF GiveUpOnVersion, Stored, CnStates, dmxCN
<1>4. CASE Report
  <2>1. Waiting'
    BY <1>0, <1>4, Sending DEF Report, Waiting, Messages, Shown
  <2>2. Shown' /\ Calls' /\ CurrentIsNotNext'
    BY <1>0, <1>4 DEF Report, dmxCN, Shown, Calls, CurrentIsNotNext
  <2> QED
    BY <1>0, <1>4, <2>1, <2>2 DEF Report, Stored, CnStates, dmxCN
<1>5. CASE GiveUpOnEvents
  <2>1. Waiting'
    BY <1>0, <1>5, Sending DEF GiveUpOnEvents, Waiting, Messages, Shown
  <2>2. Shown' /\ Calls' /\ CurrentIsNotNext'
    BY <1>0, <1>5 DEF GiveUpOnEvents, messaging, dmxCN, Shown, Calls, CurrentIsNotNext
  <2> QED
    BY <1>0, <1>5, <2>1, <2>2 DEF GiveUpOnEvents, messaging, Stored, CnStates, dmxCN
<1>6. CASE Pause \/ Wait \/ Wake
  <2>1. Shown' /\ Waiting' /\ Calls' /\ CurrentIsNotNext'
    BY <1>0, <1>6
    DEF Pause, Wait, Wake, messaging, dmxCN, Shown, Waiting, Calls, CurrentIsNotNext
  <2>2. Wait => filter' \in Events
    BY <1>0, BoundAssumption DEF Wait, Shown, Stored, Events, Event
  <2>3. Wake => filter' \in Events
    BY DEF Wake, Events
  <2>4. /\ Pause => Stored'
        /\ Wait => Stored'
        /\ Wake => Stored'
    BY <1>0, <2>2, <2>3 DEF Pause, Wait, Wake, messaging, Stored, CnStates, dmxCN
  <2> QED
    BY <1>0, <1>6, <2>1, <2>4
<1>7. CASE Parse
  <2>1. Shown' /\ Waiting' /\ Calls' /\ CurrentIsNotNext'
    BY <1>0, <1>7 DEF Parse, messaging, dmxCN, Shown, Waiting, Calls, CurrentIsNotNext
  <2> QED
    BY <1>0, <1>7, <2>1 DEF Parse, messaging, Stored, CnStates, dmxCN
<1>8. CASE Store
  <2>1. section.event \in Event
    BY <1>0, <1>8 DEF Store, Stored, Section
  <2>2. current' \in Events /\ next' \in Events /\ got' \subseteq Kinds /\ CurrentIsNotNext'
    BY <1>0, <1>8, <2>1, StoringCurrent, StoringNext DEF Store, Stored
  <2>3. Shown' /\ Waiting' /\ Calls'
    BY <1>0, <1>8 DEF Store, dmxCN, Shown, Waiting, Calls
  <2> QED
    BY <1>0, <1>8, <2>2, <2>3 DEF Store, dmxCN, Stored, CnStates
<1>9. CASE SeeUpdate \/ ApplyUpdate
  <2>1. Stored'
    BY <1>0, <1>9, Changing
    DEF SeeUpdate, ApplyUpdate, messaging, dmxCN, cn, Stored, CnStates
  <2>2. service' \in Channels
    BY <1>0, <1>9 DEF SeeUpdate, ApplyUpdate, dmxCN, Change, Shown
  <2> QED
    BY <1>0, <1>9, <2>1, <2>2
    DEF SeeUpdate, ApplyUpdate, messaging, cn, Shown, Waiting, Calls, CurrentIsNotNext
<1>10. ASSUME NEW t \in Callers, SetServiceChanged(t) PROVE IInv'
  <2>1. caller[t] \in [step : CallSteps, ch : Channels \cup {None}, again : BOOLEAN]
    BY <1>0 DEF Calls
  <2>2. CASE ClearEvents(t)
    <3>1. caller' \in {[caller EXCEPT ![t] = NextCall(caller[t])],
                       [caller EXCEPT ![t] = [caller[t] EXCEPT !.step = "key"]]}
      BY <2>2 DEF ClearEvents
    <3>2. Calls'
      BY <1>0, <2>1, <2>2, <3>1, CallShape, Calling DEF ClearEvents, Calls, CallSteps
    <3> QED
      BY <1>0, <2>2, <3>2
      DEF ClearEvents, messaging, dmxCN, cn, Shown, Stored, Waiting, CurrentIsNotNext, Events
  <2>3. CASE SetKey(t)
    <3>1. caller' = [caller EXCEPT ![t] = [caller[t] EXCEPT !.step = "change"]]
      BY <2>3 DEF SetKey
    <3>2. Calls' /\ caller[t].ch \in Channels
      BY <1>0, <2>1, <2>3, <3>1, Calling DEF SetKey, Calls, CallSteps
    <3> QED
      BY <1>0, <2>3, <3>2
      DEF SetKey, dmxCN, cn, Shown, Stored, Waiting, CurrentIsNotNext
  <2>4. CASE ChangeService(t)
    <3>1. Calls'
      BY <1>0, <2>1, <2>4, CallShape, Calling DEF ChangeService, Calls
    <3>2. Stored' /\ service' = key
      BY <1>0, <2>4, Changing DEF ChangeService, messaging
    <3> QED
      BY <1>0, <2>4, <3>1, <3>2
      DEF ChangeService, messaging, Shown, Waiting, CurrentIsNotNext
  <2> QED
    BY <1>10, <2>2, <2>3, <2>4 DEF SetServiceChanged
<1> QED
  BY <1>1, <1>2, <1>3, <1>4, <1>5, <1>6, <1>7, <1>8, <1>9, <1>10 DEF SectionsdStep, CnStep

-----------------------------------------------------------------------------
(* The steps of the remote control, the zaps and the web interface. *)

\* The end of a zap sends its answer for a channel.
LEMMA EndZapKeeps ==
    ASSUME IInv, NEW t \in Callers, NEW ok \in BOOLEAN, EndZap(t, ok)
    PROVE  IInv'
<1> USE DEF IInv
<1>1. /\ tuning[t] \in [ch : Channels \cup {None}, tell : BOOLEAN]
      /\ tuning[t].ch \in Channels
  BY DEF EndZap, Calls
<1>2. Waiting'
  <2>1. queue' = Send(IF ok THEN "ZAP_COMPLETE" ELSE "ZAP_FAILED", tuning[t].ch)
    BY DEF EndZap
  <2> QED
    BY <1>1, <2>1, Sending DEF Waiting, Messages
<1>3. Calls'
  <2>1. tuning' = [tuning EXCEPT ![t] = NoZap]
    BY DEF EndZap
  <2>2. caller' = caller \/ caller' = [caller EXCEPT ![t] = Call(tuning[t].ch)]
    BY DEF EndZap
  <2>3. NoZap \in [ch : Channels \cup {None}, tell : BOOLEAN]
    BY DEF NoZap
  <2>4. \A u \in Callers :
           /\ caller'[u].step # "idle" => caller'[u].ch # None
           /\ tuning'[u] # NoZap => tuning'[u].ch # None
    BY <1>1, <2>1, <2>2, CallShape DEF Calls
  <2> QED
    BY <1>1, <2>1, <2>2, <2>3, <2>4, CallShape DEF Calls
<1>4. Shown' /\ Stored' /\ EpgOfChannel' /\ CurrentIsNotNext'
  BY DEF EndZap, rc, cn, messaging, dmxCN, Shown, Stored, EpgOfChannel, CurrentIsNotNext
<1> QED
  BY <1>2, <1>3, <1>4

\* What is taken from the queue is for a channel.
LEMMA Taking ==
    ASSUME Waiting, NEW messages, Receive(messages)
    PROVE  Head(queue).ch \in Channels /\ Waiting'
<1> DEFINE M == [msg : Messages, ch : Channels]
<1>1. queue \in Seq(M) /\ queue # <<>> /\ queue' = Tail(queue)
  BY DEF Waiting, Receive
<1> HIDE DEF M
<1>2. Head(queue) \in M /\ queue' \in Seq(M)
  BY <1>1
<1> QED
  BY <1>2 DEF M, Waiting

LEMMA ZapAnsweredKeeps == ASSUME IInv, ZapAnswered PROVE IInv'
<1> USE DEF IInv
<1>1. Waiting' /\ Head(queue).ch \in Channels
  BY Taking DEF ZapAnswered
<1>2. rcChannel \in Channels /\ "gui" \in Callers
  BY DEF Shown, Callers
<1>3. Calls' /\ live' \in Channels /\ back' \in BOOLEAN /\ pending' \in BOOLEAN
  <2>1. CASE Head(queue).ch # rcChannel
    <3>1. Tune("gui", rcChannel, TRUE) /\ UNCHANGED <<pending, caller>>
      BY <2>1 DEF ZapAnswered
    <3> QED
      BY <1>2, <3>1, Tuning DEF Shown
  <2>2. CASE Head(queue).ch = rcChannel
    <3>1. /\ pending' = FALSE /\ UNCHANGED <<tuning, live, back>>
          /\ caller' = caller \/ caller' = [caller EXCEPT !["gui"] = Call(rcChannel)]
      BY <2>2 DEF ZapAnswered, zapped
    <3>2. Calls'
      BY <1>2, <3>1, CallShape, Calling DEF Calls
    <3> QED
      BY <3>1, <3>2 DEF Shown
  <2> QED
    BY <2>1, <2>2
<1>4. Stored' /\ EpgOfChannel' /\ CurrentIsNotNext'
  BY DEF ZapAnswered, cn, messaging, dmxCN, Stored, EpgOfChannel, CurrentIsNotNext
<1>5. UNCHANGED <<key, service, rcChannel, posted, program, update, tuned, epg>>
  BY DEF ZapAnswered, messaging, dmxCN
<1>6. Shown'
  BY <1>3, <1>5 DEF Shown
<1> QED
  BY <1>1, <1>3, <1>4, <1>6

LEMMA ZapReportedKeeps == ASSUME IInv, ZapReported PROVE IInv'
<1> USE DEF IInv
<1> DEFINE ch == Head(queue).ch
<1>1. Waiting' /\ ch \in Channels /\ "gui" \in Callers
  BY Taking DEF ZapReported, Callers
<1>2. \/ caller' = caller
      \/ caller' = [caller EXCEPT !["gui"] = Call(ch)]
      \/ caller' = [caller EXCEPT !["gui"] = CallTwice(ch)]
  BY DEF ZapReported
<1>3. UNCHANGED <<live, back, tuning>>
  BY DEF ZapReported, zapped
<1>4. Calls'
  BY <1>1, <1>2, <1>3, CallShape, Calling DEF Calls
<1>5. rcChannel' \in Channels /\ epg' \in Events /\ EpgOfChannel'
  BY <1>1 DEF ZapReported, Shown, Events, EpgOfChannel
<1>6. Stored' /\ CurrentIsNotNext'
  BY DEF ZapReported, cn, messaging, dmxCN, Stored, CurrentIsNotNext
<1> QED
  BY <1>1, <1>3, <1>4, <1>5, <1>6 DEF ZapReported, messaging, dmxCN, Shown

\* Asking for the events may restart dmxCN, and changes nothing that was stored.
LEMMA CurrentNextEpgKeeps == ASSUME IInv, CurrentNextEpg PROVE IInv'
<1> USE DEF IInv
<1> DEFINE ch == Head(queue).ch
<1>1. Waiting' /\ ch \in Channels
  BY Taking DEF CurrentNextEpg
<1>2. posted' \subseteq Channels
  BY <1>1 DEF CurrentNextEpg, Shown
<1>3. Stored' /\ service' \in Channels
  BY Retrying DEF CurrentNextEpg, messaging, Shown
<1>4. Calls' /\ EpgOfChannel' /\ CurrentIsNotNext'
  BY DEF CurrentNextEpg, zapped, rc, Calls, EpgOfChannel, CurrentIsNotNext
<1> QED
  BY <1>1, <1>2, <1>3, <1>4 DEF CurrentNextEpg, zapped, rc, messaging, Shown

\* Of the event sectionsd returns, one of another channel is not taken.
LEMMA CurrentEpgKeeps == ASSUME IInv, NEW ch \in Channels, CurrentEpg(ch) PROVE IInv'
<1> USE DEF IInv
<1>1. posted' \subseteq Channels /\ Waiting'
  BY DEF CurrentEpg, Fetch, Shown, Waiting
<1>2. Stored' /\ service' \in Channels
  <2>1. CASE ch # rcChannel
    BY <2>1 DEF CurrentEpg, messaging, dmxCN, Stored, Shown
  <2>2. CASE ch = rcChannel
    BY <2>2, Retrying DEF CurrentEpg, messaging, Shown
  <2> QED
    BY <2>1, <2>2
<1>3. epg' \in Events /\ EpgOfChannel'
  <2>1. CurrentEvents(rcChannel) \subseteq Events
    BY Asking DEF Shown
  <2>2. UNCHANGED rcChannel
    BY DEF CurrentEpg
  <2>3. epg' = epg \/ (epg' \in CurrentEvents(rcChannel) /\ epg'.ch = rcChannel)
    BY DEF CurrentEpg
  <2> QED
    BY <2>1, <2>2, <2>3 DEF Shown, EpgOfChannel
<1>4. Calls' /\ CurrentIsNotNext'
  BY DEF CurrentEpg, zapped, Calls, CurrentIsNotNext
<1> QED
  BY <1>1, <1>2, <1>3, <1>4 DEF CurrentEpg, zapped, messaging, Shown

LEMMA ShowInfobarKeeps == ASSUME IInv, ShowInfobar PROVE IInv'
<1> USE DEF IInv
<1>1. Stored' /\ service' \in Channels
  BY Retrying DEF ShowInfobar, messaging, Shown
<1> QED
  BY <1>1 DEF ShowInfobar, zapped, rc, messaging, Shown, Waiting, Calls, EpgOfChannel,
              CurrentIsNotNext

\* A zap of the remote control forgets the programme, one of the web interface does not
\* touch it.
LEMMA ZapKeeps == ASSUME IInv, NEW ch \in Channels, Zap(ch) \/ WebZap(ch) PROVE IInv'
<1> USE DEF IInv
<1>1. {"gui", "web"} \subseteq Callers
  BY DEF Callers
<1>2. Calls' /\ live' \in Channels /\ back' \in BOOLEAN
  <2>1. \/ \E t \in Callers, tell \in BOOLEAN : Tune(t, ch, tell) /\ UNCHANGED caller
        \/ UNCHANGED <<zapped, caller>>
    BY <1>1 DEF Zap, WebZap, epgVars
  <2>2. ASSUME NEW t \in Callers, NEW tell \in BOOLEAN, Tune(t, ch, tell), UNCHANGED caller
        PROVE  Calls' /\ live' \in Channels /\ back' \in BOOLEAN
    BY <2>2, Tuning DEF Shown
  <2> QED
    BY <2>1, <2>2 DEF zapped, Calls, Shown
<1>3. /\ rcChannel' \in Channels /\ epg' \in Events /\ pending' \in BOOLEAN /\ EpgOfChannel'
      /\ UNCHANGED <<posted, tuned, queue>>
  BY DEF Zap, WebZap, rc, Shown, Events, EpgOfChannel
<1>4. UNCHANGED epgVars
  BY DEF Zap, WebZap
<1>5. Stored' /\ CurrentIsNotNext' /\ Waiting'
  BY <1>3, <1>4 DEF epgVars, messaging, dmxCN, cn, Stored, CurrentIsNotNext, Waiting
<1> QED
  BY <1>2, <1>3, <1>4, <1>5 DEF epgVars, messaging, dmxCN, Shown

LEMMA NewProgramKeeps == ASSUME IInv, NEW ch \in Channels, NewProgram(ch) PROVE IInv'
<1> USE DEF IInv
<1>1. program' \in [Channels -> 0 .. LastProgram]
  BY BoundAssumption DEF NewProgram, ProgramMovesOn, Shown
<1> QED
  BY <1>1 DEF NewProgram, ProgramMovesOn, messaging, dmxCN, cn, rc, Shown, Stored, Waiting,
              Calls, EpgOfChannel, CurrentIsNotNext

-----------------------------------------------------------------------------
\* The inductive invariant holds of every behaviour: what is shown, stored and under way
\* agrees on the channel.
THEOREM Invariance == Spec => []IInv
<1> USE DEF IInv
<1>1. Init => IInv
  <2> SUFFICES ASSUME Init PROVE IInv
    OBVIOUS
  <2>1. Shown
    <3>1. {live, key, service, rcChannel} \subseteq Channels
      BY StartAssumption DEF Init
    <3>2. program \in [Channels -> 0 .. LastProgram]
      BY BoundAssumption DEF Init
    <3> QED
      BY <3>1, <3>2 DEF Init, Shown, Events
  <2>2. Stored
    BY DEF Init, Stored, Events, CnStates
  <2>3. Waiting /\ Calls
    BY DEF Init, Waiting, Calls, CallSteps, Returned, NoZap
  <2> QED
    BY <2>1, <2>2, <2>3 DEF Init, EpgOfChannel, CurrentIsNotNext
<1>2. IInv /\ [Next]_vars => IInv'
  <2> SUFFICES ASSUME IInv, [Next]_vars PROVE IInv'
    OBVIOUS
  <2>1. CASE ShowInfobar
    BY <2>1, ShowInfobarKeeps
  <2>2. ASSUME NEW ch \in Channels, Zap(ch) \/ WebZap(ch) \/ NewProgram(ch) PROVE IInv'
    BY <2>2, ZapKeeps, NewProgramKeeps
  <2>3. CASE GuiStep
    BY <2>3, ZapAnsweredKeeps, ZapReportedKeeps, CurrentNextEpgKeeps, CurrentEpgKeeps,
       EndZapKeeps, SectionsdKeeps DEF GuiStep, Callers, SectionsdStep
  <2>4. CASE WebStep
    BY <2>4, EndZapKeeps, SectionsdKeeps DEF WebStep, Callers, SectionsdStep
  <2>5. CASE /\ CnStep \/ SeeUpdate \/ ApplyUpdate \/ \E kind \in Kinds : ReadSection(kind)
             /\ UNCHANGED Television
    BY <2>5, SectionsdKeeps DEF SectionsdStep
  <2>6. CASE UNCHANGED vars
    BY <2>6 DEF vars, epgVars, zapped, rc, messaging, dmxCN, cn, Shown, Stored, Waiting,
                Calls, EpgOfChannel, CurrentIsNotNext
  <2> QED
    BY <2>1, <2>2, <2>3, <2>4, <2>5, <2>6 DEF Next
<1> QED
  BY <1>1, <1>2, PTL DEF Spec

\* The zaps, messages and states of the threads have their types, whatever the order of
\* the steps: no call of setServiceChanged, message or answer is for no channel, and no
\* section is stored that was dropped.
THEOREM TelevisionTypes == Spec => []TypeOK
BY Invariance, Parts, PTL

\* The programme the remote control believes in is one of its channel.
THEOREM ProgrammeOfChannel == Spec => []EpgOfChannel
<1>1. IInv => EpgOfChannel
  BY DEF IInv
<1> QED
  BY <1>1, Invariance, PTL

\* sectionsd's present event is never its following one.
THEOREM PresentIsNotFollowing == Spec => []CurrentIsNotNext
<1>1. IInv => CurrentIsNotNext
  BY DEF IInv
<1> QED
  BY <1>1, Invariance, PTL

=============================================================================
