------------------------------ MODULE Recording ------------------------------
(***************************************************************************)
(* Recording in neutrino: the GUI thread (CNeutrinoApp, neutrino2.cpp),    *)
(* its recording device (CVCRControl, driver/vcrcontrol.cpp), the writer   *)
(* (driver/stream2file.cpp, libdvbapi/record_cs.cpp) and zapit's tuners    *)
(* (module Zapit), driven by the messages of timerd and zapit, by the keys *)
(* of the user and by the shift timer.                                     *)
(*                                                                         *)
(* Everything but the recorder threads runs in the GUI thread: it takes    *)
(* one message or key at a time and runs its handler to the end.  But a    *)
(* handler that shows a message box waits in a loop of the box, which      *)
(* takes messages and calls the same handlers: handlers nest, and the rest *)
(* of the outer one runs after the inner ones.  `boxes' is the stack of    *)
(* open boxes; what remains of a handler is named after its box.           *)
(*                                                                         *)
(* A handler is a function from the state, a record s of all variables, to *)
(* the state after it.  Radio, scart, web channels, menus and the movie    *)
(* player are left out.                                                    *)
(***************************************************************************)
EXTENDS Zapit

CONSTANTS
    MaxId,         \* bound on the recording timers
    AutoTimeshift, \* the setting auto_timeshift is not 0
    MaxEvents,     \* bound on the messages waiting when timerd sends one
    MaxBoxes       \* bound on the nested message boxes

Ids == 1 .. MaxId

ASSUME RecordingAssumption ==
    /\ MaxId \in Nat
    /\ AutoTimeshift \in BOOLEAN
    /\ MaxEvents \in Nat
    /\ MaxBoxes \in Nat \ {0}

VARIABLES
    power,     \* "on", "off", or "crashed" (a null pointer was dereferenced)
    gui,       \* CNeutrinoApp, autoshift and shift_timer
    vcr,       \* CFileDevice and the writer
    zapit,     \* see Zapit
    timers,    \* timerd's recording timers
    events,    \* neutrino's event socket and pipes
    boxes,     \* open message boxes, the innermost last
    cancelled  \* the innermost handler has returned cancel_all to its box

vars == <<power, gui, vcr, zapit, timers, events, boxes, cancelled>>

Modes == {"tv", "standby"}

Gui == [mode            : Modes,
        recordingstatus : BOOLEAN,
        timeshiftstatus : BOOLEAN,
        autoshift       : BOOLEAN,
        recording_id    : Ids \cup {0},
        next            : Ids \cup {0},  \* nextRecordingInfo, 0: NULL
        shift_timer     : BOOLEAN,       \* the timer is set
        wasshift        : BOOLEAN]       \* resume the timeshift after standby

\* `written' is what the recorder writes to: a recording, a file whose name in
\* rec_filename ends in _temp, or nothing.  `clean' says that the recording was
\* started with none active, `late' that the end of the timer in nextRecordingInfo
\* has been taken, `retried' that the recording was started after that, `missed'
\* that the infobar or the standby key took its end; `erased' that a recording was
\* deleted.  The last five only observe.
Vcr == [record   : BOOLEAN,              \* deviceState = CMD_VCR_RECORD
        last_mode: Modes,
        info     : BOOLEAN,              \* g_movieInfo # NULL
        written  : {"nothing", "recording", "temporary"},
        threads  : Nat,                  \* recorder threads that write
        clean    : BOOLEAN,
        late     : BOOLEAN,
        retried  : BOOLEAN,
        missed   : BOOLEAN,
        erased   : BOOLEAN]

\* A timer programmed with a stop time is "scheduled", "running" and "over"; one
\* without is "open", and "endless" from its start on (see TimerManager).
Timer == [channel : Channels \cup {NoChannel},
          state   : {"free", "scheduled", "running", "over", "open", "endless"}]

\* The box asks whether to stop the recording, or (exitRun) to stop it and switch
\* off; or it shows that Record has failed, called for a RECORD_START, a
\* RECORD_STOP, a key, the shift timer, or when standby is left.  The infobar is a
\* box as well: it takes messages until its time is up or a key is pressed; so is
\* the loop in which the standby key waits for a long press ("delay").
Boxes  == {"askStop", "askExit", "infobar", "delay"}
Errors == {"start", "stop", "key", "shift", "wake"}

Commands == {"STANDBY_ON", "STANDBY_OFF", "SHUTDOWN"}
Message  == [type : {"RECORD_START", "RECORD_STOP"}, id : Ids]
              \cup [type : Messages \cup Commands, id : {0}]

Signal(type) == [type |-> type, id |-> 0]

State == [power |-> power, gui |-> gui, vcr |-> vcr, zapit |-> zapit,
          timers |-> timers, events |-> events, boxes |-> boxes,
          cancelled |-> cancelled]

Becomes(t) ==
    \E s \in {t} :
        /\ power' = s.power /\ gui' = s.gui /\ vcr' = s.vcr /\ zapit' = s.zapit
        /\ timers' = s.timers /\ events' = s.events /\ boxes' = s.boxes
        /\ cancelled' = s.cancelled

\* A call of zapit: its messages arrive in the event socket.
Call(s, z) ==
    [s EXCEPT !.zapit  = [z EXCEPT !.sent = <<>>],
              !.events = @ \o [k \in 1 .. Len(z.sent) |-> Signal(z.sent[k])]]

Show(s, box) == [s EXCEPT !.boxes = Append(@, box)]

-----------------------------------------------------------------------------
(* timerd, as neutrino sees it. *)

StopTimerEvent(s, i) ==
    IF i \in Ids /\ s.timers[i].state = "running"
    THEN [s EXCEPT !.timers[i].state = "over",
                   !.events = Append(@, [type |-> "RECORD_STOP", id |-> i])]
    ELSE s

\* addImmediateRecordTimerEvent for the live channel: the event already runs.
FreeIds(s) == {i \in Ids : s.timers[i].state = "free"}

AddImmediate(s) ==
    LET i == CHOOSE j \in FreeIds(s) : \A k \in FreeIds(s) : j <= k
    IN  [s EXCEPT !.timers[i] = [channel |-> s.zapit.live, state |-> "running"],
                  !.gui.recording_id = i]

-----------------------------------------------------------------------------
(* CFileDevice. *)

\* A faulty CutBackNeutrino: record mode is set before the recorder's tuner is
\* chosen.
CutBackNeutrinoEarly(s, c) ==
    LET awake == IF s.gui.mode = "standby" THEN Call(s, LeaveStandby(s.zapit)) ELSE s
        ready == Call(awake, SetRecordMode(awake.zapit))
    IN  [Call(ready, ZapToRecord(ready.zapit, c)) EXCEPT !.vcr.last_mode = s.gui.mode]

CutBackNeutrino(s, c) ==
    LET awake == IF s.gui.mode = "standby" THEN Call(s, LeaveStandby(s.zapit)) ELSE s
        tuned == Call(awake, ZapToRecord(awake.zapit, c))
    IN  [Call(tuned, SetRecordMode(tuned.zapit)) EXCEPT !.vcr.last_mode = s.gui.mode]

RestoreNeutrino(s) ==
    LET free == Call(s, UnsetRecordMode(s.zapit))
    IN  IF s.vcr.last_mode = "standby" /\ s.gui.mode = "standby"
        THEN Call(free, EnterStandby(free.zapit))
        ELSE free

\* start_recording: a directory on a file system of the wrong kind, or a file
\* that cannot be opened, is not recorded to.  A second recorder thread is
\* started beside the first.
StartRecording(s) ==
    [s EXCEPT !.vcr = [@ EXCEPT
        !.record  = TRUE,
        !.written = IF s.gui.autoshift \/ s.gui.timeshiftstatus
                    THEN "temporary" ELSE "recording",
        !.threads = s.vcr.threads + 1,
        !.clean   = ~s.vcr.record,
        !.retried = FALSE,
        !.missed  = FALSE]]

\* CFileDevice::Record, up to the message box that shows a failure.
Record(s, c, ok) ==
    LET cut == [CutBackNeutrino(s, c) EXCEPT !.vcr.info = TRUE]
    IN  IF ok THEN StartRecording(cut)
        ELSE RestoreNeutrino([cut EXCEPT !.vcr.written = "nothing", !.vcr.clean = FALSE])

\* A faulty stop_recording: it counts on a thread to end.
StopRecordingThread(s) ==
    [s EXCEPT !.vcr.threads = @ - 1, !.vcr.written = "nothing"]

\* stop_recording: cRecord::Stop joins the last thread, the others see exit_flag.
\* During a timeshift the file named in rec_filename is deleted: a file whose
\* name ends in _temp does not exist.
StopRecording(s) ==
    [s EXCEPT !.vcr.threads = 0,
              !.vcr.written = "nothing",
              !.vcr.erased  = @ \/ (/\ s.vcr.written = "recording"
                                    /\ s.gui.autoshift \/ s.gui.timeshiftstatus)]

\* CVCRControl::Stop
Stop(s) ==
    IF ~s.vcr.info THEN [s EXCEPT !.power = "crashed"]
    ELSE [RestoreNeutrino(StopRecording(s)) EXCEPT
             !.vcr = [@ EXCEPT !.record = FALSE, !.info = FALSE,
                               !.clean = FALSE, !.retried = FALSE, !.missed = FALSE]]

-----------------------------------------------------------------------------
(* Timeshift and recordings started by the user. *)

StopAutoRecord(s) ==
    IF s.gui.autoshift /\ s.gui.recordingstatus
    THEN [StopTimerEvent(Stop(s), s.gui.recording_id) EXCEPT
             !.gui.autoshift = FALSE, !.gui.recording_id = 0]
    ELSE [s EXCEPT !.gui.shift_timer = FALSE]

\* What most handlers do with an automatic timeshift.
EndTimeshift(s) ==
    IF s.gui.autoshift
    THEN [StopAutoRecord(s) EXCEPT !.gui.recordingstatus = FALSE,
                                   !.gui.timeshiftstatus = FALSE]
    ELSE s

\* startAutoRecord; `caller' is what its message box is named after.
StartAutoRecord(s, caller, ok) ==
    LET started == Record([s EXCEPT !.gui.autoshift       = TRUE,
                                    !.gui.recordingstatus = TRUE,
                                    !.gui.timeshiftstatus = TRUE], s.zapit.live, ok)
    IN  IF s.gui.recordingstatus THEN s
        ELSE IF ok THEN AddImmediate(started)
        ELSE Show(started, caller)

\* doGuiRecord, called with recordingstatus set.
DoGuiRecord(s, ok) ==
    LET ready == IF s.gui.autoshift THEN StopAutoRecord(s) ELSE s
    IN  IF ok THEN AddImmediate(Record(ready, ready.zapit.live, ok))
        ELSE Show(Record(ready, ready.zapit.live, ok), "key")

-----------------------------------------------------------------------------
(* The handlers of timerd's messages. *)

\* A handler that returns cancel_all closes the box whose loop has called it.
ReturnCancelAll(s) == [s EXCEPT !.cancelled = s.boxes # <<>>]

\* nextRecordingInfo is deleted.
Forget(s) == [s EXCEPT !.gui.next = 0, !.vcr.late = FALSE]

\* startNextRecording, called with nextRecordingInfo set, up to its message box.
StartNextRecording(s, caller, ok) ==
    LET started == Record([s EXCEPT !.gui.recording_id = s.gui.next],
                          s.timers[s.gui.next].channel, ok)
    IN  IF ok THEN Forget([started EXCEPT !.gui.recordingstatus = TRUE,
                                          !.vcr.retried = s.vcr.late])
        ELSE Show(started, caller)

RecordStart(s, i, ok) ==
    LET started == StartNextRecording([EndTimeshift(s) EXCEPT !.gui.next = i, !.vcr.late = FALSE],
                                      "start", ok)
    IN  IF ok THEN ReturnCancelAll(started) ELSE started

\* A faulty handler: it trusts recordingstatus instead of the device's state.
RecordStopTrusting(s, i, ok) ==
    LET stopped == IF s.gui.recordingstatus
                   THEN [Stop(s) EXCEPT !.gui.recordingstatus = FALSE,
                                        !.gui.autoshift       = FALSE,
                                        !.gui.timeshiftstatus = FALSE]
                   ELSE s
    IN  IF i # s.gui.recording_id THEN s
        ELSE IF s.gui.next = 0 THEN stopped
        ELSE StartNextRecording(stopped, "stop", ok)

\* The recording that waits in nextRecordingInfo is started: another one, or the
\* same one again while its message box is open.
RecordStop(s, i, ok) ==
    LET stopped == IF s.vcr.record
                   THEN [Stop(s) EXCEPT !.gui.recordingstatus = FALSE,
                                        !.gui.autoshift       = FALSE,
                                        !.gui.timeshiftstatus = FALSE]
                   ELSE s
        waiting == [stopped EXCEPT !.vcr.late = @ \/ s.gui.next = i]
    IN  IF i = s.gui.recording_id
        THEN IF s.gui.next = 0 THEN stopped ELSE StartNextRecording(waiting, "stop", ok)
        ELSE IF i = s.gui.next THEN Forget(s)
        ELSE s

-----------------------------------------------------------------------------
(* The handlers of zapit's messages and of the shift timer. *)

\* EVT_RECORDMODE.  The body of this message is sent from the address 0 or 1, so
\* nothing is sent, and rcinput reads a byte nobody has written: `on' is any value.
RecordModeChanged(s, on) ==
    LET closed == IF ~s.gui.recordingstatus /\ ~on /\ s.gui.mode = "standby"
                  THEN Call(s, EnterStandby(s.zapit)) ELSE s
    IN  [closed EXCEPT !.gui.recordingstatus = on]

\* EVT_ZAP_COMPLETE
ZapComplete(s) ==
    [s EXCEPT !.gui.shift_timer = AutoTimeshift /\ ~s.gui.recordingstatus]

-----------------------------------------------------------------------------
(* Standby and shutdown. *)

StandbyOn(s) ==
    LET ended == [EndTimeshift(s) EXCEPT !.gui.wasshift = @ \/ s.gui.autoshift]
        quiet == IF ~ended.gui.recordingstatus /\ ~ended.gui.timeshiftstatus
                 THEN Call(ended, EnterStandby(ended.zapit)) ELSE ended
    IN  IF s.gui.mode = "standby" THEN s
        ELSE [quiet EXCEPT !.gui.mode = "standby"]

\* standbyMode(false): tvMode ends an automatic timeshift, the one that entering
\* standby has ended is resumed.
StandbyOff(s, ok) ==
    LET awake   == Call(s, LeaveStandby(s.zapit))
        tv      == EndTimeshift([awake EXCEPT !.gui.mode = "tv"])
        resumed == IF s.gui.wasshift THEN StartAutoRecord(tv, "wake", ok) ELSE tv
    IN  IF s.gui.mode = "tv" THEN s
        ELSE IF Len(resumed.boxes) > Len(s.boxes) THEN resumed
        ELSE [resumed EXCEPT !.gui.wasshift = FALSE]

\* exitRun, from its message box on.
SwitchOff(s) ==
    LET stopped == IF s.gui.recordingstatus
                   THEN StopTimerEvent(Stop(s), s.gui.recording_id) ELSE s
    IN  [stopped EXCEPT !.power = IF @ = "crashed" THEN @ ELSE "off"]

ExitRun(s) ==
    LET ended == EndTimeshift(s)
    IN  IF ended.gui.recordingstatus THEN Show(ended, "askExit") ELSE SwitchOff(ended)

Execute(s, command, ok) ==
    CASE command = "STANDBY_ON"  -> StandbyOn(s)
      [] command = "STANDBY_OFF" -> StandbyOff(s, ok)
      [] command = "SHUTDOWN"    -> ExitRun(s)

-----------------------------------------------------------------------------
(* What remains of a handler when its message box is closed. *)

AskStopClosed(s, yes) ==
    IF yes THEN [StopTimerEvent(s, s.gui.recording_id) EXCEPT !.gui.recordingstatus = FALSE]
    ELSE s

AskExitClosed(s, yes) == IF yes THEN SwitchOff(s) ELSE s

ErrorClosed(s, caller) ==
    LET failed == [s EXCEPT !.gui.recordingstatus = FALSE]
    IN  CASE caller = "start" -> ReturnCancelAll(Forget(failed))
          [] caller = "stop"  -> Forget(failed)
          [] caller = "key"   -> failed
          [] caller = "shift" -> [failed EXCEPT !.gui.timeshiftstatus = FALSE,
                                                !.gui.autoshift = FALSE]
          [] caller = "wake"  -> [failed EXCEPT !.gui.timeshiftstatus = FALSE,
                                                !.gui.autoshift = FALSE,
                                                !.gui.wasshift  = FALSE]

\* The standby key posts its message and cancels the box that is open; a long press
\* switches off, and so does any press with the setting shutdown_real.
StandbyKeyDone(s, long) ==
    LET short   == IF s.gui.mode = "tv" THEN "STANDBY_ON" ELSE "STANDBY_OFF"
        command == IF long THEN "SHUTDOWN" ELSE short
    IN  ReturnCancelAll([s EXCEPT !.events = Append(@, Signal(command))])

\* The innermost box is closed with `yes' or `no'.
CloseBox(s, yes) ==
    LET box  == s.boxes[Len(s.boxes)]
        rest == [s EXCEPT !.boxes = SubSeq(@, 1, Len(@) - 1), !.cancelled = FALSE]
    IN  CASE box = "askStop" -> AskStopClosed(rest, yes)
          [] box = "askExit" -> AskExitClosed(rest, yes)
          [] box = "infobar" -> rest
          [] box = "delay"   -> StandbyKeyDone(rest, yes)
          [] box \in Errors  -> ErrorClosed(rest, box)

-----------------------------------------------------------------------------
(* Actions. *)

\* The GUI thread waits for a message.
Waiting == power = "on" /\ ~cancelled

\* A key of the user: keys are read when no message waits.
Key == Waiting /\ events = <<>>

CanRecord == FreeIds(State) # {} /\ Len(boxes) < MaxBoxes    \* bounds

Delayed == boxes # <<>> /\ boxes[Len(boxes)] = "delay"

\* During a timeshift the infobar handles nothing but a few keys: it drops every
\* other message.  The loop of the standby key drops all of them.
Deaf == \/ Delayed
        \/ boxes # <<>> /\ boxes[Len(boxes)] = "infobar" /\ gui.timeshiftstatus

\* Such a loop takes m and does nothing.
Dropped(s, m) ==
    [s EXCEPT !.vcr.missed = @ \/ (/\ s.vcr.record
                                   /\ m.type = "RECORD_STOP" /\ m.id = s.gui.recording_id),
              !.vcr.late   = @ \/ (/\ s.gui.next # 0
                                   /\ m.type = "RECORD_STOP" /\ m.id = s.gui.next)]

\* The first message in the socket is handled.
CanHandle == Waiting /\ events # <<>> /\ (Deaf \/ Len(boxes) < MaxBoxes)   \* bound

\* The standby key waits no longer when a message comes a second after it was pressed.
HandleEvent ==
    /\ CanHandle
    /\ LET m == Head(events)
           s == [State EXCEPT !.events = Tail(@)]
       IN  \/ /\ Deaf
              /\ Becomes(Dropped(s, m))
           \/ /\ Delayed
              /\ Becomes(CloseBox(Dropped(s, m), FALSE))
           \/ /\ ~Deaf
              /\ \E ok, on \in BOOLEAN :
                   \/ /\ m.type = "RECORD_START" /\ ~on
                      /\ Becomes(RecordStart(s, m.id, ok))
                   \/ /\ m.type = "RECORD_STOP" /\ ~on
                      /\ Becomes(RecordStop(s, m.id, ok))
                   \/ /\ m.type = "RECORDMODE" /\ ~ok
                      /\ Becomes(RecordModeChanged(s, on))
                   \/ /\ m.type = "ZAP_COMPLETE" /\ ~ok /\ ~on
                      /\ Becomes(ZapComplete(s))
                   \/ /\ m.type \in Commands /\ ~on
                      /\ gui.wasshift /\ ok => FreeIds(State) # {}    \* bound
                      /\ Becomes(Execute(s, m.type, ok))

\* The shift timer has run out: EVT_TIMER.
ShiftTimer ==
    /\ Waiting
    /\ gui.shift_timer
    /\ CanRecord
    /\ LET s == [State EXCEPT !.gui.shift_timer = FALSE]
       IN  \/ /\ Deaf
              /\ Becomes(s)
           \/ /\ Delayed
              /\ Becomes(CloseBox(s, FALSE))
           \/ /\ ~Deaf
              /\ \E ok \in BOOLEAN : Becomes(StartAutoRecord(s, "shift", ok))

\* The user answers the innermost box, or its time runs out.
CanAnswer == boxes # <<>> /\ Waiting /\ ~CanHandle

Answer ==
    /\ CanAnswer
    /\ \E yes \in BOOLEAN : Becomes(CloseBox(State, yes))

\* The box whose loop has called a handler that returned cancel_all closes with
\* its preset answer: yes for the first box, no for the second.
CanCancel == power = "on" /\ cancelled

CancelBox ==
    /\ CanCancel
    /\ Becomes(CloseBox(State, boxes[Len(boxes)] = "askStop"))

\* RC_record and RC_stop
RecordKey(start) ==
    /\ Key /\ boxes = <<>> /\ gui.mode = "tv"
    /\ CanRecord
    /\ LET s == EndTimeshift(State)
       IN  \/ /\ s.gui.recordingstatus
              /\ Becomes(Show(s, "askStop"))
           \/ /\ ~s.gui.recordingstatus /\ start
              /\ \E ok \in BOOLEAN :
                    Becomes(DoGuiRecord([s EXCEPT !.gui.recordingstatus = TRUE], ok))
           \/ /\ ~s.gui.recordingstatus /\ ~start
              /\ Becomes(s)

\* RC_pause: a timeshift is started, or the recording is used as one.
PauseKey ==
    /\ Key /\ boxes = <<>> /\ gui.mode = "tv"
    /\ CanRecord
    /\ LET s == [State EXCEPT !.gui.timeshiftstatus = TRUE]
       IN  \/ /\ gui.recordingstatus
              /\ Becomes(s)
           \/ /\ ~gui.recordingstatus
              /\ \E ok \in BOOLEAN :
                    Becomes(DoGuiRecord([s EXCEPT !.gui.recordingstatus = TRUE], ok))

\* The user zaps; timeshiftstatus stays as it is.
ZapKey(c) ==
    /\ Key /\ boxes = <<>> /\ gui.mode = "tv"
    /\ ~gui.autoshift /\ gui.recordingstatus => CanZap(zapit, c)
    /\ LET s == IF gui.autoshift
                THEN [StopAutoRecord(State) EXCEPT !.gui.recordingstatus = FALSE]
                ELSE State
       IN  Becomes(Call(s, ZapTo(s.zapit, c)))

\* RC_standby.  With the setting shutdown_real_rcdelay it waits first to see whether
\* the key is held.
StandbyKey ==
    /\ Key /\ ~Deaf
    /\ \/ \E long \in BOOLEAN : Becomes(StandbyKeyDone(State, long))
       \/ /\ Len(boxes) < MaxBoxes                              \* bound
          /\ Becomes(Show(State, "delay"))

\* RC_info, or the SHOW_INFOBAR that a zap and EVT_RECORDMODE post.
ShowInfo ==
    /\ Waiting /\ boxes = <<>> /\ gui.mode = "tv"
    /\ Becomes(Show(State, "infobar"))

\* timerd.
Program(i, c) ==
    /\ power = "on"
    /\ timers[i].state = "free"
    /\ \E state \in {"scheduled", "open"} :
          timers' = [timers EXCEPT ![i] = [channel |-> c, state |-> state]]
    /\ UNCHANGED <<power, gui, vcr, zapit, events, boxes, cancelled>>

TimerStarts(i) ==
    /\ power = "on"
    /\ Len(events) < MaxEvents                               \* bound
    /\ timers[i].state \in {"scheduled", "open"}
    /\ timers' = [timers EXCEPT ![i].state = IF @ = "open" THEN "endless" ELSE "running"]
    /\ events' = Append(events, [type |-> "RECORD_START", id |-> i])
    /\ UNCHANGED <<power, gui, vcr, zapit, boxes, cancelled>>

TimerStops(i) ==
    /\ power = "on"
    /\ timers[i].state = "running"
    /\ timers' = [timers EXCEPT ![i].state = "over"]
    /\ events' = Append(events, [type |-> "RECORD_STOP", id |-> i])
    /\ UNCHANGED <<power, gui, vcr, zapit, boxes, cancelled>>

\* A shutdown timer fires.
TimerSwitchesOff ==
    /\ power = "on"
    /\ Len(events) < MaxEvents                               \* bound
    /\ Signal("SHUTDOWN") \notin {events[k] : k \in 1 .. Len(events)}
    /\ events' = Append(events, Signal("SHUTDOWN"))
    /\ UNCHANGED <<power, gui, vcr, zapit, timers, boxes, cancelled>>

Init ==
    /\ power = "on"
    /\ \E i \in Ids \cup {0} :      \* the constructor leaves recording_id as it is
          gui = [mode |-> "tv", recordingstatus |-> FALSE, timeshiftstatus |-> FALSE,
                 autoshift |-> FALSE, recording_id |-> i, next |-> 0,
                 shift_timer |-> FALSE, wasshift |-> FALSE]
    /\ vcr = [record |-> FALSE, last_mode |-> "tv", info |-> FALSE,
              written |-> "nothing", threads |-> 0, clean |-> FALSE, late |-> FALSE,
              retried |-> FALSE, missed |-> FALSE, erased |-> FALSE]
    /\ \E c \in Channels : zapit = StartZapit(c)
    /\ timers = [i \in Ids |-> [channel |-> NoChannel, state |-> "free"]]
    /\ events = <<>>
    /\ boxes = <<>>
    /\ cancelled = FALSE

Next ==
    \/ HandleEvent \/ ShiftTimer \/ Answer \/ CancelBox
    \/ \E start \in BOOLEAN : RecordKey(start)
    \/ PauseKey
    \/ \E c \in Channels : ZapKey(c)
    \/ StandbyKey \/ ShowInfo
    \/ \E i \in Ids, c \in Channels : Program(i, c)
    \/ \E i \in Ids : TimerStarts(i)
    \/ \E i \in Ids : TimerStops(i)
    \/ TimerSwitchesOff

Spec == Init /\ [][Next]_vars

-----------------------------------------------------------------------------
(* Properties. *)

TypeOK ==
    /\ power \in {"on", "off", "crashed"}
    /\ gui \in Gui
    /\ vcr \in Vcr
    /\ zapit \in ZapitState
    /\ timers \in [Ids -> Timer]
    /\ events \in Seq(Message)
    /\ boxes \in Seq(Boxes \cup Errors)
    /\ cancelled \in BOOLEAN

\* What neutrino records has a running timer, or the message that stops it is on
\* its way: a recording is never left without an end, however its timers, keys,
\* boxes and the messages of zapit interleave.  (Except that nextRecordingInfo may
\* outlive the end of its timer while the box is open that shows the failure of its
\* recording, which the next RECORD_STOP then starts; that a RECORD_STOP is lost
\* which the infobar takes during a timeshift, or the standby key while it waits;
\* and that a timer without a stop time never ends.)
RecordingWillStop ==
    power = "on" /\ vcr.record /\ ~vcr.retried /\ ~vcr.missed =>
        /\ gui.recording_id # 0
        /\ \/ timers[gui.recording_id].state \in {"running", "endless"}
           \/ [type |-> "RECORD_STOP", id |-> gui.recording_id]
                 \in {events[k] : k \in 1 .. Len(events)}

\* zapit is in record mode and holds the recorder's tuner locked while neutrino
\* records, and is in record mode only then, although neutrino's own flag may be
\* wrong; unless a recording was started during another one.  (If a channel is not
\* received, the zap to the recorder's channel may tune another tuner than the one
\* the recorder reads from: nothing is locked.)
RecordModeFollows ==
    power = "on" =>
        /\ vcr.record /\ vcr.clean => zapit.recordMode
        /\ vcr.record /\ vcr.clean /\ Transponders \subseteq Receivable =>
               zapit.record_fe # 0 /\ zapit.fe[zapit.record_fe].locked
        /\ zapit.recordMode => vcr.record

\* While a recording goes on, no zap, standby or second recording touches the
\* tuner it has locked.
LockHolds ==
    [][/\ vcr.record /\ vcr.clean /\ vcr' = vcr
       /\ gui'.recording_id = gui.recording_id
       => \A f \in Frontends : zapit.fe[f].locked => zapit'.fe[f] = zapit.fe[f]]_vars

\* "single/multi on the same frontend", "other frontend as live frontend"
\* (zapit.cpp): the recorder reads from a tuner that is locked on the transponder
\* of the recorded channel.
RecorderTuned ==
    /\ power = "on" /\ vcr.record /\ vcr.clean
    /\ TransponderOf[zapit.rec] \in Receivable
    => /\ zapit.record_fe # 0
       /\ zapit.fe[zapit.record_fe].locked
       /\ OnTransponder(zapit.fe[zapit.record_fe], zapit.rec)

\* Record has an error for a recorder that is busy ("One or several recording
\* processes are active"): no second recorder is started beside the first.
OneRecorder == vcr.threads <= 1

\* Only the file of a timeshift, whose name ends in _temp, is deleted when its
\* recording ends.
RecordingKept == ~vcr.erased

\* The recording is that of a timer without a stop time.
Endless == gui.recording_id # 0 /\ timers[gui.recording_id].state = "endless"

\* Every recording ends or the box is switched off, however many timers, keys and
\* boxes interleave, unless it is started again by its own end, or its end is lost in
\* the infobar or while the standby key waits (see vcr), or its timer has none.
RecordingEnds ==
    vcr.record /\ ~vcr.retried /\ ~vcr.missed /\ ~Endless
        ~> ~vcr.record \/ vcr.retried \/ vcr.missed \/ Endless \/ power # "on"

\* The GUI thread goes on, every message box has a time limit, and timerd stops
\* every recording when its time is over.  The first three are weak fairness with
\* the guard in the place of ENABLED, which equals it: TLC would run the handlers
\* to find out.
Fairness ==
    /\ []<>~CanHandle \/ []<><<HandleEvent>>_vars
    /\ []<>~CanAnswer \/ []<><<Answer>>_vars
    /\ []<>~CanCancel \/ []<><<CancelBox>>_vars
    /\ \A i \in Ids : WF_vars(TimerStops(i))

LiveSpec == Spec /\ Fairness

=============================================================================
