------------------------------ MODULE RCInput ------------------------------
(***************************************************************************)
(* How the GUI thread gets its messages: CRCInput                          *)
(* (src/neutrino2/src/driver/rcinput.cpp) joins the timers of the windows, *)
(* a pipe of high and one of low priority, the event socket of the other   *)
(* threads and the keys of the remote control.  The main loop, the infobar *)
(* and a message box take them, each in a loop of its own.                 *)
(*                                                                         *)
(* Times are what is left of them, in ticks of a second, so that the clock *)
(* may run for ever.  Handlers take no time: it passes while select waits. *)
(* A recording goes on, so the record key asks whether to stop it.  One    *)
(* key is held at a time, and no two within the time of repeat_generic.    *)
(***************************************************************************)
EXTENDS Integers, SequencesExt

CONSTANTS
    InfobarTime,   \* the setting TIMING_INFOBAR
    BoxTime,       \* the time limit of the question
    LcdInterval,   \* LCD_UPDATE_TIME_TV_MODE
    Stretch,       \* by how much EVT_TIMESET puts off the end of a box
    PipeSize,      \* how many messages a pipe holds
    Rate,          \* how many messages the other threads send in a tick
    MaxPresses, MaxEnd, MaxDevice   \* bounds

Presses    == 1 .. MaxPresses
Codes      == {"page_up", "record", "home"}
Repeatable == {"page_up"}

ASSUME InputAssumption ==
    /\ {InfobarTime, BoxTime, LcdInterval, PipeSize} \subseteq Nat \ {0}
    /\ {Stretch, Rate, MaxPresses, MaxEnd, MaxDevice} \subseteq Nat

VARIABLES
    rc,     \* CRCInput: timers, pipes, socket, the key device and rc_last_key
    gui,    \* the window that waits, and its call of getMsg_us
    keys,   \* what the user presses, and what has become of it
    sent    \* what the other threads have sent in this tick

inputVars == <<rc, gui, keys, sent>>

\* left: until times_out; a timer with 0 is due, one with less is late.
RcTimer == [id : {"lcd", "infobar"}, left : Int, interval : Nat]

RcMessage ==
    [type : {"SHOW_INFOBAR", "TIMESET", "STANDBY", "ZAP_CA_ID", "ZAP_COMPLETE",
             "CURRENTNEXT", "CURRENTEPG", "ZAP_GOTPIDS", "ZAP_GOTAPIDS",
             "PROGRAMLOCKSTATUS"}, press : {0}]
      \cup [type : {"key"}, press : Presses]

RcEvent == [press : Presses, value : {"down", "repeat", "up"}]

RcState ==
    [timers : Seq(RcTimer), high : Seq(RcMessage), low : Seq(RcMessage),
     socket : Seq(RcMessage), device : Seq(RcEvent), last : Codes \cup {"none"}]

GuiState ==
    [kind : {"main", "infobar", "box"}, end : Nat, timeout : Nat, spent : Nat, slept : Nat,
     ignored : BOOLEAN, standby : BOOLEAN]

KeyState ==
    [code : Seq(Codes), held : Presses \cup {0}, repeated : BOOLEAN,
     cleared : SUBSET Presses, handled : [Presses -> 0 .. 2]]

Plain(type) == [type |-> type, press |-> 0]

InputState == [rc |-> rc, gui |-> gui, keys |-> keys]

InputBecomes(s) == rc' = s.rc /\ gui' = s.gui /\ keys' = s.keys

-----------------------------------------------------------------------------
(* The timers, the earliest first. *)

\* A faulty addTimer: the new timer is the last one.
addTimerLast(ts, t) == Append(ts, t)

addTimer(ts, t) ==
    LET later == {i \in DOMAIN ts : ts[i].left > t.left}
        place == IF later = {} THEN Len(ts) + 1
                 ELSE CHOOSE i \in later : \A j \in later : i <= j
    IN  InsertAt(ts, place, t)

killTimer(ts, id) ==
    LET mine == {i \in DOMAIN ts : ts[i].id = id}
    IN  IF mine = {} THEN ts ELSE RemoveAt(ts, CHOOSE i \in mine : \A j \in mine : i <= j)

\* The first timer is due; it is a periodic one.
checkTimers(ts) == addTimer(Tail(ts), [Head(ts) EXCEPT !.left = Head(ts).interval])

-----------------------------------------------------------------------------
(* Messages to oneself. *)

\* The pipes do not block, and the result of the write is not looked at.
Written(pipe, m) == IF Len(pipe) < PipeSize THEN Append(pipe, m) ELSE pipe

\* postMsg with low priority.
postMsgLow(s, m) == [s EXCEPT !.rc.low = Written(@, m)]

postMsg(s, m) == [s EXCEPT !.rc.high = Written(@, m)]

\* Keys nobody has read are forgotten, and that one is held.
clearRCMsg(s) ==
    [s EXCEPT !.rc.device   = <<>>,
              !.rc.last     = "none",
              !.keys.cleared = @ \cup {s.rc.device[i].press : i \in DOMAIN s.rc.device}
                                 \cup ({s.keys.held} \ {0})]

-----------------------------------------------------------------------------
(* The windows. *)

\* A faulty call: the clock of the last one goes on.
CallStale(s) == [s EXCEPT !.gui.timeout = s.gui.end, !.gui.ignored = FALSE]

\* A faulty call: the whole time limit after every message.
CallAgain(s) ==
    [s EXCEPT !.gui.timeout = CASE s.gui.kind = "main" -> 0
                                [] s.gui.kind = "box" -> BoxTime
                                [] s.gui.kind = "infobar" -> InfobarTime,
              !.gui.spent = 0, !.gui.slept = 0, !.gui.ignored = FALSE]

\* A window calls getMsgAbsoluteTimeout; the main loop's own limit does not matter.
Call(s) ==
    [s EXCEPT !.gui.timeout = s.gui.end, !.gui.spent = 0, !.gui.slept = 0,
              !.gui.ignored = FALSE]

Close(s) ==
    [s EXCEPT !.gui.kind = "main", !.gui.end = 0, !.rc.timers = killTimer(@, "infobar")]

\* CInfoViewer::showTitle
ShowTitle(s) ==
    [s EXCEPT !.gui.kind = "infobar", !.gui.end = InfobarTime,
              !.rc.timers = addTimer(@, [id |-> "infobar", left |-> 1, interval |-> 1])]

\* The window that got the key has dealt with it.
Done(s, press) == [s EXCEPT !.keys.handled[press] = IF @ < 2 THEN @ + 1 ELSE @]

\* CChannelList::quickZap
QuickZap(s) ==
    clearRCMsg(postMsg([s EXCEPT !.rc.socket = @ \o <<Plain("ZAP_CA_ID"), Plain("ZAP_COMPLETE")>>],
                       Plain("SHOW_INFOBAR")))

MainKey(s, code) ==
    CASE s.gui.standby \/ code = "home" -> s
      [] ~s.gui.standby /\ code = "page_up" -> QuickZap(s)
      [] ~s.gui.standby /\ code = "record" ->
             [s EXCEPT !.gui.kind = "box", !.gui.end = BoxTime]

\* The infobar closes, and leaves what it does not know to the main loop.
HandleKey(s, m) ==
    LET code == s.keys.code[m.press]
    IN  CASE s.gui.kind = "main"    -> MainKey(Done(s, m.press), code)
          [] s.gui.kind = "box"     -> Done(s, m.press)
          [] s.gui.kind = "infobar" -> IF code = "home" THEN Close(Done(s, m.press))
                                       ELSE Close(postMsg(s, m))

HandleShowInfobar(s, m) ==
    CASE s.gui.kind = "main"    -> IF s.gui.standby THEN s ELSE ShowTitle(s)
      [] s.gui.kind = "box"     -> s
      [] s.gui.kind = "infobar" -> Close(postMsg(s, m))

\* EVT_TIMESET carries the time in seconds, which getMsgAbsoluteTimeout takes for a
\* difference in microseconds.
HandleTimeset(s) ==
    CASE s.gui.kind = "main"    -> s
      [] s.gui.kind = "box"     -> [s EXCEPT !.gui.end = @ + Stretch]
      [] s.gui.kind = "infobar" -> Close(postMsg(s, Plain("SHOW_INFOBAR")))

\* standbyMode, on and off.
HandleStandby(s) ==
    LET changed == [s EXCEPT !.gui.standby = ~@]
    IN  clearRCMsg(IF s.gui.standby THEN postMsg(changed, Plain("SHOW_INFOBAR")) ELSE changed)

\* The messages of remotecontrol, and of the infobar to it, go into the other pipe.
PostTwo(s, type, other) == postMsgLow(postMsgLow(s, Plain(type)), Plain(other))

HandleMsg(s, m) ==
    CASE m.type = "key"          -> HandleKey(s, m)
      [] m.type = "SHOW_INFOBAR" -> HandleShowInfobar(s, m)
      [] m.type = "TIMESET"      -> HandleTimeset(s)
      [] m.type = "STANDBY"      -> HandleStandby(s)
      [] m.type = "ZAP_COMPLETE" -> PostTwo(s, "ZAP_GOTPIDS", "ZAP_GOTAPIDS")
      [] m.type = "CURRENTNEXT"  -> postMsgLow(s, Plain("CURRENTEPG"))
      [] m.type = "CURRENTEPG"   -> PostTwo(s, "ZAP_GOTAPIDS", "PROGRAMLOCKSTATUS")
      [] m.type \in {"ZAP_CA_ID", "ZAP_GOTPIDS", "ZAP_GOTAPIDS", "PROGRAMLOCKSTATUS"} -> s

-----------------------------------------------------------------------------
(* getMsg_us, in the order of its tests; what it returns is handled at once. *)

TimerIsDue == Head(rc.timers).left <= 0

CheckTimers ==
    /\ TimerIsDue
    /\ InputBecomes(Call([InputState EXCEPT !.rc.timers = checkTimers(@)]))
    /\ UNCHANGED sent

ReadHigh ==
    /\ ~TimerIsDue
    /\ rc.high # <<>>
    /\ InputBecomes(Call(HandleMsg([InputState EXCEPT !.rc.high = Tail(@)], Head(rc.high))))
    /\ UNCHANGED sent

ReadSocket ==
    /\ ~TimerIsDue /\ rc.high = <<>>
    /\ rc.socket # <<>>
    /\ InputBecomes(Call(HandleMsg([InputState EXCEPT !.rc.socket = Tail(@)], Head(rc.socket))))
    /\ UNCHANGED sent

\* A faulty test: every key repeats.
AcceptedAgain(ev, code) ==
    CASE ev.value = "up" -> {FALSE}
      [] ev.value # "up" /\ code # rc.last -> {TRUE}
      [] ev.value # "up" /\ code = rc.last -> BOOLEAN

\* Whether a key event is a key press for the windows, and rc_last_key after it.  A
\* key that repeats does so after a while only.
Accepted(ev, code) ==
    CASE ev.value = "up" -> {FALSE}
      [] ev.value # "up" /\ code # rc.last -> {TRUE}
      [] ev.value # "up" /\ code = rc.last -> IF code \in Repeatable THEN BOOLEAN ELSE {FALSE}

\* A faulty memory: it is not cleared when the key is released.
LastKeyKept(ev, code) == code

LastKey(ev, code) == IF ev.value = "up" THEN "none" ELSE code

\* A faulty limit: no test whether there is as much left.
RecalculatedBlindly(s) ==
    IF s.gui.kind = "main" THEN s
    ELSE [s EXCEPT !.gui.timeout = @ - s.gui.spent, !.gui.slept = 0, !.gui.ignored = TRUE]

\* The time limit after an event that is none for the windows.  What was spent since the
\* call is subtracted each time.
Recalculated(s) ==
    CASE s.gui.kind = "main" -> s
      [] s.gui.kind # "main" /\ s.gui.timeout <= s.gui.spent -> Call(Close(s))
      [] s.gui.kind # "main" /\ s.gui.timeout > s.gui.spent ->
             [s EXCEPT !.gui.timeout = @ - s.gui.spent, !.gui.slept = 0, !.gui.ignored = TRUE]

\* A low message is read with a key that is ignored.
Ignored(s) ==
    IF s.rc.low # <<>>
    THEN Call(HandleMsg([s EXCEPT !.rc.low = Tail(@)], Head(s.rc.low)))
    ELSE Recalculated(s)

\* A faulty order: keys before the messages of the others.
ReadKeyFirst ==
    /\ ~TimerIsDue /\ rc.high = <<>>
    /\ rc.device # <<>>
    /\ LET ev   == Head(rc.device)
           code == keys.code[ev.press]
           s    == [InputState EXCEPT !.rc.device = Tail(@), !.rc.last = LastKey(ev, code)]
       IN  \E ok \in Accepted(ev, code) :
             InputBecomes(IF ok THEN Call(HandleMsg(s, [type |-> "key", press |-> ev.press]))
                          ELSE Ignored(s))
    /\ UNCHANGED sent

ReadKey ==
    /\ ~TimerIsDue /\ rc.high = <<>> /\ rc.socket = <<>>
    /\ rc.device # <<>>
    /\ LET ev   == Head(rc.device)
           code == keys.code[ev.press]
           s    == [InputState EXCEPT !.rc.device = Tail(@), !.rc.last = LastKey(ev, code)]
       IN  \E ok \in Accepted(ev, code) :
             InputBecomes(IF ok THEN Call(HandleMsg(s, [type |-> "key", press |-> ev.press]))
                          ELSE Ignored(s))
    /\ UNCHANGED sent

ReadLow ==
    /\ ~TimerIsDue /\ rc.high = <<>> /\ rc.socket = <<>> /\ rc.device = <<>>
    /\ rc.low # <<>>
    /\ InputBecomes(Call(HandleMsg([InputState EXCEPT !.rc.low = Tail(@)], Head(rc.low))))
    /\ UNCHANGED sent

Quiet == /\ rc.high = <<>> /\ rc.socket = <<>> /\ rc.device = <<>> /\ rc.low = <<>>
         /\ ~TimerIsDue

\* RC_timeout: all the windows close.
TimeIsUp == gui.kind # "main" /\ gui.slept >= gui.timeout

TimeOut ==
    /\ Quiet /\ TimeIsUp
    /\ InputBecomes(Call(Close(InputState)))
    /\ UNCHANGED sent

GetMsg == CheckTimers \/ ReadHigh \/ ReadSocket \/ ReadKey \/ ReadLow \/ TimeOut

-----------------------------------------------------------------------------
(* Time, the user and the other threads. *)

Sleep ==
    /\ Quiet /\ ~TimeIsUp
    /\ LET ticked == [i \in DOMAIN rc.timers |-> [rc.timers[i] EXCEPT !.left = @ - 1]]
       IN  rc' = [rc EXCEPT !.timers = ticked]
    /\ gui' = IF gui.kind = "main" THEN gui
              ELSE [gui EXCEPT !.end = IF @ > 0 THEN @ - 1 ELSE 0,
                               !.spent = @ + 1, !.slept = @ + 1]
    /\ keys' = [keys EXCEPT !.repeated = FALSE]
    /\ sent' = 0

Event(press, value) == [press |-> press, value |-> value]

CanType == Len(rc.device) < MaxDevice                     \* bound

Press(code) ==
    /\ CanType /\ keys.held = 0
    /\ Len(keys.code) < MaxPresses                          \* bound
    /\ LET press == Len(keys.code) + 1
       IN  /\ keys' = [keys EXCEPT !.held = press, !.code = Append(@, code)]
           /\ rc' = [rc EXCEPT !.device = Append(@, Event(press, "down"))]
    /\ UNCHANGED <<gui, sent>>

\* The kernel repeats a key that is held, here once in a tick.
Repeat ==
    /\ CanType /\ keys.held # 0 /\ ~keys.repeated
    /\ keys' = [keys EXCEPT !.repeated = TRUE]
    /\ rc' = [rc EXCEPT !.device = Append(@, Event(keys.held, "repeat"))]
    /\ UNCHANGED <<gui, sent>>

Release ==
    /\ CanType /\ keys.held # 0
    /\ keys' = [keys EXCEPT !.held = 0]
    /\ rc' = [rc EXCEPT !.device = Append(@, Event(keys.held, "up"))]
    /\ UNCHANGED <<gui, sent>>

\* sectionsd has set the clock or knows the programme, timerd switches to standby.
Send(type) ==
    /\ sent < Rate
    /\ type = "TIMESET" => gui.end + Stretch <= MaxEnd      \* bound
    /\ sent' = sent + 1
    /\ rc' = [rc EXCEPT !.socket = Append(@, Plain(type))]
    /\ UNCHANGED <<gui, keys>>

\* The programme has started: run posts SHOW_INFOBAR.
InputInit ==
    /\ rc = [timers |-> <<[id |-> "lcd", left |-> LcdInterval, interval |-> LcdInterval]>>,
             high |-> <<Plain("SHOW_INFOBAR")>>, low |-> <<>>, socket |-> <<>>,
             device |-> <<>>, last |-> "none"]
    /\ gui = [kind |-> "main", end |-> 0, timeout |-> 0, spent |-> 0, slept |-> 0,
              ignored |-> FALSE, standby |-> FALSE]
    /\ keys = [code |-> <<>>, held |-> 0, repeated |-> FALSE, cleared |-> {},
               handled |-> [n \in Presses |-> 0]]
    /\ sent = 0

InputNext ==
    \/ GetMsg \/ Sleep
    \/ \E code \in Codes : Press(code)
    \/ Repeat \/ Release
    \/ \E type \in {"TIMESET", "CURRENTNEXT", "STANDBY"} : Send(type)

InputSpec == InputInit /\ [][InputNext]_inputVars

-----------------------------------------------------------------------------
(* Properties. *)

InputTypeOK ==
    /\ InputState \in [rc : RcState, gui : GuiState, keys : KeyState]
    /\ sent \in Nat

\* No timer is late, whatever windows have come and gone: the next one that is due is
\* always the first.
TimersOnTime == \A i \in DOMAIN rc.timers : rc.timers[i].left >= 0

\* The press is still on its way to a window.
OnItsWay(press) ==
    \/ \E i \in DOMAIN rc.device : rc.device[i].press = press /\ rc.device[i].value # "up"
    \/ \E i \in DOMAIN rc.high : rc.high[i].press = press
    \/ \E i \in DOMAIN rc.low : rc.low[i].press = press

\* Keys take effect in the order they are pressed, although the infobar hands them back
\* into a queue while later ones wait in another.
KeysInOrder ==
    \A m, n \in Presses : m < n /\ keys.handled[n] > 0 => ~OnItsWay(m)

\* A key that does not repeat takes effect once, however long it is held and whichever
\* window sees it; only when the keys were cleared while it was held it is taken for
\* another press.
PressedOnce ==
    \A n \in DOMAIN keys.code :
        keys.handled[n] <= 1 \/ keys.code[n] \in Repeatable \/ n \in keys.cleared

\* No key is lost but those that are cleared: not one of those ignored is the only
\* event of its press.
KeyNotLost ==
    \A n \in DOMAIN keys.code : keys.handled[n] > 0 \/ n \in keys.cleared \/ OnItsWay(n)

\* The question is not answered by time before its time is up, whatever comes in
\* between; only after a key event that was ignored the time is too short.
WaitsItsTime ==
    [][gui.kind = "box" /\ gui'.kind # "box" => gui.end = 0 \/ gui.ignored]_inputVars

\* select never sleeps past the end of the window, however many messages, timers and
\* keys have come since it was opened.
NeverOverstays == gui.kind # "main" => gui.timeout - gui.slept <= gui.end

OwnTypes == {"ZAP_CA_ID", "ZAP_COMPLETE"}

\* What the GUI thread sends to itself stays little: its messages do not fill the event
\* socket, where it would wait for itself, and the pipes, where they would be lost.
OwnMessagesFew ==
    /\ Cardinality({i \in DOMAIN rc.socket : rc.socket[i].type \in OwnTypes}) <= 2
    /\ Len(rc.high) < PipeSize /\ Len(rc.low) < PipeSize

=============================================================================
