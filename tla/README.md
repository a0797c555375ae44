# Verification of neutrino2: timers, recording, programme guide, zaps and messages

neutrino2 is the program of a set-top box: it tunes to television channels,
shows them, keeps a programme guide, records on request or by timer, and goes
to standby or switches itself off and on for a recording.  This directory holds
TLA+ models of its own core logic.  First the part that must not go wrong while
nobody watches: a timer that is programmed today must start a recording next
week, through restarts, standby, a user who presses keys and two recordings that
overlap, and the recording must end.  Then what the user sees of the threads
behind the screen: the channel that was asked for last, the programme that is on
it, a guide that neither forgets nor fills up, and keys that take effect once, in
order.

Every definition is translated from the code.  `PROJECT.json` maps each to the
lines it stands for, lists the runs, the mutants that show that each property
can fail, the hazards, the findings and the theorems.

    tlc -config TimerManager_safety.cfg MCTimerManager.tla
    tlapm TimerManagerProofs.tla
    tlc -config Standalone.cfg MCStandalone.tla

Paths below are relative to `src/neutrino2/`.

## 1. Inventory

All daemons are threads of one process, started by `CNeutrinoApp::run`; what
were once separate programs talk by direct calls and by small messages over a
local socket.

| part | state | operations | interacts with |
| --- | --- | --- | --- |
| timerd (`src/timerd`) | map of events, `eventID`, `m_saveEvents`, `m_isTimeSet`, recording safety; the file `timerd.conf`; the wake-up time in the front processor | add, modify, remove, stop, reschedule an event; a pass over the map every 10 s; load, save; shut down | called by GUI and web server threads; asks sectionsd whether the time is known; sends `EVT_RECORD_START`, `EVT_RECORD_STOP`, zap, standby, shutdown events to neutrino |
| neutrino, the GUI thread (`src/neutrino2.cpp`) | `mode`, `recordingstatus`, `timeshiftstatus`, `autoshift`, `recording_id`, `nextRecordingInfo`, `shift_timer` | `handleMsg` for keys and events, `startNextRecording`, `doGuiRecord`, `startAutoRecord`, `stopAutoRecord`, `standbyMode`, `exitRun` | runs the event loop, nested in every menu and box |
| recording device (`src/driver/vcrcontrol.cpp`, `stream2file.cpp`, `lib/libdvbapi/record_cs.cpp`) | `deviceState`, `last_mode`, `g_movieInfo`, `rec_filename`, recorder threads with one `exit_flag` | `Record`, `Stop`, `CutBackNeutrino`, `RestoreNeutrino` | zapit for the tuner, timerd for the stop time, the disk |
| zapit, tuners (`src/zapit/zapit.cpp`, `frontend.cpp`) | per tuner: transponder, tuned, locked, closed; live and record channel and tuner; record mode; standby | `zapTo_ChannelID`, `zapTo_RecordID`, `getFrontend`, `getRecordFrontend`, `setRecordMode`, `enterStandby`, `leaveStandby` | called by GUI and web threads; sends `EVT_RECORDMODE`, `EVT_ZAP_COMPLETE` |
| zapit, PMT and CAM | PMT filter descriptor, CA messages | a thread polls for new PMT versions | reads the live channel a zap replaces |
| zapit, scan, services, bouquets | lists of channels, scan status | scan thread, load and save lists | blocks zaps while it runs |
| sectionsd | caches of events and languages, demuxers, `timeset` | seven threads: time, EIT, CN, FreeSat, SDT, PPT, housekeeping | sets the time timerd waits for; answers the GUI |
| eventserver, rcinput | local socket, pipes of high and low priority, timers, key repeat | `sendEvent`, `postMsg`, `getMsg` | joins all messages into one queue of the GUI thread |
| remotecontrol (`src/daemonc`) | current channel, pending zap, current event | `zapTo_ChannelID`, completion, `EVT_CURRENTEPG` | zapit, sectionsd and the GUI; the web server's zaps answer to it as well |
| lastchannel, configfile, connection library | small data structures, key and value files, sockets with time limits | | used everywhere |
| web server, streamts, players, libdvbci, GUI widgets, displays, lua and python interfaces, vendored libraries | | | |

What is hard about them:

* **Threads on one map.**  timerThread, the GUI and the web server threads
  change the same events; the save flag is set and cleared by all of them,
  partly without the mutex; an element is erased and its iterator incremented.
* **Crash and restart.**  `timerd.conf` is truncated and rewritten in place;
  the process may be switched off inside any write; `shutdown()` cancels a
  thread that may hold the mutex; after a boot the file is merged into a map
  that may not be empty.
* **Nested handlers.**  A message box runs the event loop.  Handlers of
  RECORD_START, RECORD_STOP, standby and shutdown run inside handlers that are
  not finished, and some of them cancel the box that is open.
* **Two opinions about one fact.**  Whether the box records is
  `recordingstatus` for the GUI, `deviceState` for the device, `RECORD_MODE`
  and a locked tuner for zapit, and a running event for timerd.  They are
  brought together only by messages, one of which carries a wrong value.
* **Tuners.**  A zap, standby and a record zap all choose, close and retune
  tuners.  Only a lock keeps them away from the one that is recorded from.
* **Three locks for one fact.**  Which channel is watched, and what runs on it,
  is known to zapit, the remote control, sectionsd's messaging and its
  demultiplexer; a change passes through them one lock at a time, and a thread
  decides to sleep under one lock and sleeps under another.
* **Found under one lock, used under the next.**  addEvent and the housekeeping
  of the guide search in one critical section and delete in another.
* **Many queues for one thread.**  Timers, two pipes, a socket and the keys are
  joined by a fixed order of tests; a window that closes hands its message back
  through another queue than it came from.
* **The calendar.**  A repeated timer crosses two changes of the clock a year,
  short months and weeks in which the box was off.

What makes each part correct:

* timerd: what neutrino records on a timer's behalf has a running event with a
  stop time; due events fire; the file is the map whenever the flag says so; no
  timer is doubled by a restart; a removal reaches the file.
* neutrino with the device: a recording always has an end coming to it and
  ends; the user's recordings are not deleted; one recorder at a time.
* zapit: the recorder's tuner is locked while, and only while, it records, is
  the one that was tuned for it, and is left alone.
* eventserver and rcinput: no key is lost, overtaken or taken twice, no timer is
  late, a window closes when its time is up and not before, the GUI thread does
  not wait for itself.
* sectionsd: the events of the watched service reach the GUI, and only they; map
  and sets of the guide agree between critical sections; old events and
  duplicates go, nothing else does, and the size stays bounded.
* remotecontrol: the last channel asked for is the one that is shown in the end.

## 2. Modules

| module | contents |
| --- | --- |
| `TimerManager` | timerd: `CTimerManager` with its thread, its callers, shutdown, power loss, boot |
| `TimerManagerProofs` | theorems about it |
| `RecordTimer` | the abstract promise of timerd about recordings; `TimerManager` and `Recording` are both shown to keep it |
| `TimerManagerRefinement` | theorem: `TimerManager` implements `RecordTimer` |
| `Calendar` | days, months, summer time |
| `RepeatedTimer` | `CTimerEvent::Reschedule` turn by turn over a year; EXTENDS `Calendar` |
| `RepeatedTimerProofs` | theorems about it |
| `Zapit` | zapit's tuners: pure operators on a record `z`, one per function of zapit |
| `ZapitProofs` | lemmas: what each of them does to the tuners |
| `Recording` | the GUI thread, the recording device and the writer; EXTENDS `Zapit`, whose operators its handlers call |
| `RecordingProofs` | theorems about it; EXTENDS `ZapitProofs` |
| `CurrentNext` | sectionsd's present and following events: cnThread, its demultiplexer, `setServiceChanged` |
| `LiveTV` | the remote control, the infobar and zaps of two threads; EXTENDS `CurrentNext` |
| `LiveTVProofs` | theorems about it |
| `EventCache` | sectionsd's cache of all events and the threads that fill and clean it |
| `EventCacheProofs` | theorems about it |
| `RCInput` | the queue of the GUI thread: timers, pipes, socket, keys, and the windows that wait |
| `RCInputProofs` | theorems about it |
| `MCTimerManager`, `MCRecording`, `MCLiveTV`, `MCRepeatedTimer` | instances |
| `MCStandalone` | `RepeatedTimer`, `EventCache` and `RCInput` side by side; they share nothing, the first state says which one moves |

### TimerManager

The map `events` is a function from identifiers to events, `NoEvent` where the
map has none; `file` and `fileExtra` are `timerd.conf`.  Times count in ticks of
three minutes, which makes the delays of `shutdownOnWakeup` (120 s, 180 s,
600 s) and the lead of the wake-up (180 s) one tick or three.  A critical
section takes no time: the clock does not advance while timerThread holds the
mutex, but it advances between any two sections.

timerThread is a program counter `thread`:

    wait --SeeTimeSet--> load --LoadEvent*, LoadDone--> firstsave --SaveEvents--> clear --ClearSaveEvents--> wait
    wait --BeginPass--> pass --CheckEvent*, EndPass--> save --SaveEvents--> clear --ClearSaveEvents--> wait
                                                  \--> wait, if nothing changed

`CheckEvent` is one turn of the loop over the map, with its five tests
(`Announce`, `Fire`, `Stop`, `Finish`, `Delete`) in the code's order.  Erasing
the event at the iterator leaves the iterator invalid; the increment that
follows either finds the next event or misses the rest of the map, and the
model allows both (a crash is `PowerLoss`).

`AddEvent`, `ModifyEvent`, `RemoveEvent`, `StopEvent` take the mutex and are
one step each; `SetRecordingSafety` takes no lock, so it may fall between
`SaveEvents` (the file is written) and `ClearSaveEvents` (the flag is cleared).
`StopRecording` is `stopEvent` of a recording, with `shutdownOnWakeup`, which
adds a shutdown event when the box woke up for this recording.

Going down is `CancelThread` (the join in `shutdown()`, possible only where the
thread allows cancellation) and `Shutdown` (save, program the wake-up), or
`PowerLoss` anywhere.  `Interrupted` is a write of `timerd.conf` that does not
finish: the file is untouched, empty, or lacks the counts and stop times not
yet written.

A timer of any type may come without a stop time, and the web interface stores
recordings so (`doNewTimer`, `controlapi.cpp:2040-2052`, `2133`, `2262`).
timerThread starts such a recording, takes it for over at once
(`timermanager.cpp:174`) and deletes the event in the same pass, or reschedules
it; no RECORD_STOP is ever sent.  The same becomes of a recording whose stop time
an interrupted write has lost.  `endless` remembers which recordings were started
without a stop time; it only observes, and the properties about ends name it.

The order in which the callers hand over their arguments is modelled as it is:
`StoredEvent` puts the alarm time into the announce time and the announce time
into the alarm time (see the findings).

`RecordTimer` says what neutrino may rely on: every identifier has one status
(unused, waiting, asked, unasked, endless, ended, other), and only certain moves
between them are possible: a recording is started before it is stopped, stopped
once for each start, an identifier is never given twice, and nothing asked for is
"lost".  A recording without a stop time is no exception to these moves but has a
status of its own, from the moment it is started: "endless", which it never
leaves while the program runs.  `TimerManager` implements `RecordTimer` under the
mapping `StatusOf`, which computes the status from the event, its state and what
neutrino records (`ImplementsRecordTimer`).

### Calendar and RepeatedTimer

`TimerManager` adds one period where the code computes the next date.
`RepeatedTimer` is that computation, `Reschedule`, on hours of a year with both
changes of the clock: local time is the time since the start of the year, plus
one hour in summer.  `Turn` is one turn of the loop, `Settle` its end, `Over` the
end of an event, or the boot of a box that was off for weeks.  The correction by
`tm_isdst` is modelled as it is done (`Correction`); mktime takes the hour as
`tm_isdst` says, in summer time or not, whatever is in force on that day.

An interval is any that a caller may hand over; the ASSUMEs exclude none.  "On
weekdays" with no day chosen, which the timer list and the web interface let
through, never reaches `Reschedule`: getWeekdaysFromStr leaves
`TIMERREPEAT_WEEKDAYS` without a day bit, and `addEvent` (258-260) and
`modifyEvent` (357-359) turn exactly that value into `TIMERREPEAT_ONCE`
(`Programmed`).  What is left is a number that stands for no interval
(`TIMERREPEAT_BYEVENTDESCRIPTION` or one below 0x100 that is unknown).  No menu
offers one, but the web interface takes any: `Turn` then changes nothing, for
ever, with the mutex of all timers held.  The kind is called "unknown", and
`EveryTurnAdvances` excepts it by name.

### CurrentNext and LiveTV

A step of `CurrentNext` is what one thread does under one lock.  cnThread is the
program counter `thread` (read, report, pause, enter, wait, woken, parse, store);
the callers of `setServiceChanged` have one each (clear the events, set the key,
restart the demultiplexer).  Between the decision to sleep and the wait on the
condition lie two states, which is where a wake-up is lost.

`LiveTV` adds who calls it: a zap of the GUI thread or of a web server thread is
`Tune`, `EndZap` and, for some callers, `setServiceChanged`; the remote control
answers ZAP_COMPLETE and ZAP_FAILED, by zapping again or by following, and takes
the present event from sectionsd when the infobar has posted CURRENTEPG.

### EventCache

The map and the two sets are one record `cache`; the sets compare by channel,
start, end and key as the code's comparators do, so that inserting an event the
set takes for the same keeps the old one, as `std::set::insert` does.  `addEvent`
is the program counter `adder[t].at` (overlaps, room, evict, store), the
housekeeping thread alternates between the searches for old events and for
duplicates; what it has found is deleted in later critical sections.  Keys stored
by two threads at a time are kept in `raced`, a victim chosen twice sets
`wasted`: the properties that fail then name them.

### RCInput

`rc` is CRCInput (timers by time, pipes, socket, device, the last key), `gui` the
window that waits and its call of `getMsg_us`, `keys` what the user did and what
became of it.  `GetMsg` is one return of `getMsg_us`, in the order of its tests;
the message is handled in the same step by the window that waits: the main loop,
the infobar, or the box that asks whether to stop the recording.  Times are what
is left of them, so the clock need not be bounded; handlers take no time, it
passes in `Sleep`, that is in select.

### Zapit

One record `z` holds the tuners (`fe[f]`: transponder, tuned, locked, closed),
the live and the record channel with their tuners, record mode and standby;
`z.sent` collects the messages a call sends.  zapit has no thread of its own
that changes this state, so an operation is a function from `z` to `z`.  All
tuners are of one delivery system; a channel can be tuned if its transponder is
in `Receivable`.

### Recording

The GUI thread takes one message or key at a time and runs its handler to the
end, so a handler is a function from the whole state `s` to the next.  The
exception is a handler that opens a message box: the part before the box is one
operator, the part after it another (`AskStopClosed`, `AskExitClosed`,
`ErrorClosed`), and the stack `boxes` says which remain.  While a box is open
messages are handled inside its loop; the inner handlers finish first.  A
handler that returns `cancel_all` sets `cancelled`, and the next step closes the
innermost box with its preset answer.

`events` is the queue of the GUI thread.  timerd, zapit and the GUI's own
commands append to it; a key is read only when it is empty, as rcinput does.
timerd is reduced to what neutrino sees: a recording timer is programmed,
starts, stops once, and may be stopped early by `stopTimerEvent`
(`Program`, `TimerStarts`, `TimerStops`, `StopTimerEvent`).  A timer without a stop
time is "open", and "endless" once it has started.  These are moves
`RecordTimer` allows, which is proved (`TimersAsPromised`): what the one module
assumes of timerd is what the other, `TimerManager`, is shown to provide.  That a
running timer does stop is what the runs of `TimerManager` show.

The infobar is a box like the others, opened by a key, a zap or EVT_RECORDMODE.
Its loop has a peculiarity: the branch that hands messages to the handlers is the
else of a test of `timeshiftstatus`, so that during a timeshift, or a recording
after the pause key, it swallows them (`Deaf`, `Dropped`).

The standby key is a box too when the setting `shutdown_real_rcdelay` is on
("delay"): it waits for the key to be held (`neutrino2.cpp:3555-3573`), takes
every message meanwhile and throws it away, until none comes for a while or one
comes after a second.  Then it posts its command and cancels the box around it
(`StandbyKeyDone`).

`recordingstatus` after EVT_RECORDMODE is any value: the body of the message is
sent from the address 0 or 1 (`eventserver.cpp`, `sendEvent` with the value as a
pointer), the write fails, and rcinput reads a byte nobody has written.  The
properties hold for both outcomes.

Six fields of `vcr` only observe: `clean` (the recording was started with none
active), `late` (the end of the timer in `nextRecordingInfo` has been taken),
`retried` (the recording was started after that), `missed` (its end was
swallowed by the infobar or the waiting standby key), `erased` and `threads`.

Definitions that say "a faulty ..." are variants of the operator below them
with a bug one could make there.  No behaviour uses them; they are there to show
that each property notices.

## 3. Runs

`CHECK_DEADLOCK FALSE` stands in every configuration because the box may stop:
it is switched off for good, or the bounds on clock, boots and identifiers are
reached.

| run | shows |
| --- | --- |
| `timers_safety` | a daily recording with two occurrences, a zap and a recording without a stop time, two of them at a time, edited, stopped, removed, saved, loaded over two boots with a shutdown or a power loss at every step: `RecordingIsRunning`, `SavedUnlessDirty`, `NoDuplicateTimers`, `TypeOK`, the refinement `ImplementsRecordTimer`, and `WakesForTimers` |
| `timers_live` | two of a recording started by hand, one without a stop time, a zap and a next programme: `RecordingEnds`, `DueEventFires`, `RemovalIsSaved` |
| `timers_announce` | finding: recordings start at their announce time |
| `timers_safety_lost` | finding: a changed recording safety is not saved |
| `timers_removed` | finding: a removed timer is back after a restart |
| `recording_safety` | two tuners, automatic timeshift, two timers with or without a stop time, two nested boxes of which one may be the infobar or the waiting standby key, every key at every moment: `RecordingWillStop`, `RecordModeFollows`, `LockHolds`, `TypeOK` |
| `recording_live` | one tuner, one of two transponders without a signal: `RecordingEnds` |
| `recording_overlap` | finding: a second recorder beside the first |
| `recording_erased` | finding: a recording is deleted as if it were a timeshift |
| `recording_twin` | finding: the recorder reads from the wrong tuner |
| `live_tv` | two channels, one with a programme that moves on, zaps of the remote control and the web interface: `EpgOfChannel`, `CurrentIsNotNext`, `ZapSettles`, `AllOnLastChannel`, `EpgArrives`, `TypeOK` |
| `standalone_parts` | a timer over the year 2024: `WallTimeKept`, `NextExpectedDay`, `DistancesKept`, `EveryTurnAdvances`; the guide with two threads: `EventsFound`, `NoOrphans`, `CacheBounded`, `OnlyOldRemoved`, `OldEventsGo`, `DuplicatesGo`; messages and keys: `TimersOnTime`, `KeysInOrder`, `PressedOnce`, `KeyNotLost`, `WaitsItsTime`, `NeverOverstays`, `OwnMessagesFew`; the three type invariants |

What the properties mean:

* `RecordingIsRunning` (timerd): what neutrino records is an event of the map,
  running, with a stop time, unless it was started without one.  It relates
  neutrino's side to the map over passes, edits, stops, removals, an aborted pass
  and restarts.
* `SavedUnlessDirty`: with the flag down, the file is the map, but for events
  that have just ended.  A flag cleared too late or not set loses a timer only
  at the next boot, which is why it is hard to test.
* `NoDuplicateTimers`: an event added before the broadcast time is known is in
  the map when the file is read; still no timer is there twice.
* `WakesForTimers`: an orderly shutdown leaves each recording and zap to come in
  the file, and the wake-up, which is computed from the map, comes before each in
  the file.  It does not hold for a box switched off before the file is loaded
  (`Loaded`), nor when the thread was cancelled in its first save (`stuck`).
* `RecordingWillStop` (neutrino): what is recorded has a running timer under
  `recording_id`, or its stop message is in the queue, unless the message was
  thrown away (`missed`, `late`).  This spans all nested
  handlers: the identifier is overwritten by overlapping timers, and
  `recordingstatus` may be wrong.
* `RecordModeFollows`, `LockHolds`: zapit's record mode and lock follow the
  recorder, not `recordingstatus`, and zaps, standby and timeshift leave the
  locked tuner alone.
* `RecordingEnds` in both modules is the liveness of the same promise; recordings
  of timers without a stop time are left out by name (`endless`, `Endless`).
* `EpgOfChannel`, `CurrentIsNotNext`: the programme shown is one of the channel
  shown, and not its own successor, although it crossed three queues and two
  locks on the way.
* `ZapSettles`, `AllOnLastChannel`, `EpgArrives`: in the end nobody waits, all
  are on one channel and know its programme.  `EpgArrives` names the ways in
  which it does not: a wake-up lost between deciding and waiting (`Deaf`), a
  section left in the buffer that moves the version on (`Outrun`), an event
  stored for the wrong service (`Crossed`), a decision to sleep carried to
  another service (`Weary`), and a zap away and back that sectionsd takes for no
  change (`back`).  Each is needed: without it TLC finds the race, in this
  instance, or for `Crossed` in one where both channels have a guide (the
  property holds there too, in three million states).
* `WallTimeKept`, `NextExpectedDay`, `DistancesKept`, `EveryTurnAdvances`: a
  repeated timer goes off at the hour that was set, on the first expected day
  that is left, with its announcement and its end; and the loop that finds it,
  under the mutex of all timers, ends, also where weekdays were asked for and
  none was chosen.
* `EventsFound`, `NoOrphans`, `CacheBounded`, `OnlyOldRemoved`: what each thread
  of the guide relies on when it uses what it found in an earlier section.
* `OldEventsGo`, `DuplicatesGo`: cleaning is not put off for ever by zaps.
* `KeysInOrder`, `PressedOnce`, `KeyNotLost`: a key takes effect once, in order,
  although the infobar hands it back into another queue and key repeat, clearing
  and closing windows come in between.
* `WaitsItsTime`, `NeverOverstays`: the question about the recording, whose
  preset answer stops it, is not answered early, and no window is kept open by
  the messages it takes.  `OwnMessagesFew` is the reason why the GUI thread does
  not wait for room in its own socket.

### Bounds, and why they are enough

`TimerManager`: a period of 2 ticks, `PreTime` 0 or 1, the clock up to 2 to 4,
one or two boots, three to five identifiers, two timers programmed (`MaxAdded`)
of the three or four that are offered, which gives each pair of them. A clock
of 4 lets the daily timer fire, stop, be rescheduled and fire again; two boots
let a file that one boot has written, wholly or partly, be read by the next;
five identifiers hold both timers loaded twice and a shutdown event. The daily
timer has a count of 2, so that it passes the boundary where the count decides.
The fair run has one boot and no edits: its properties are about the thread
within one boot. Times count from the start of the model, so that announcements
and alarms of the instances lie later than `PreTime` and `WakeLead`
(`RequestAssumption`): today's dates do.

`Recording`: two timers, enough to overlap, to queue a second behind a failed
first, and to fall into each other's boxes; two nested boxes, the depth at which
a handler returns into a handler that another one interrupted; timerd starts a
recording or switches off only while fewer messages wait than `MaxEvents`, one
or two (messages of zapit and stops are not bounded, so two and more do wait).  A
stop always gets through.  Two tuners and two channels on different
transponders give the live tuner shared with and separate from the recorder's;
`recording_twin` needs three channels.  `recording_live` has one tuner and one
transponder that cannot be received, the case where tuning fails.
`recording_safety` exchanges channels together with their transponders as a
symmetry, which the model treats alike; it checks no liveness.  The safety
properties are also proved for any number of timers, tuners, channels, boxes and
messages.

`LiveTV`: two channels, of which one has a guide, one programme change, two zaps
and changes in all, of which one by the web interface: enough for a service to
change between any two sections of cnThread, for a zap away and back, and for
answers of two zaps to cross.  The queue of the event socket holds two.

`RepeatedTimer`: a leap year; alarms before, in and after the hour of the
change and the last of the day, on 27th to 31st of the month; every interval,
four sets of weekdays, the empty one among them, and a number that is none; the
box off for nothing, a day or six weeks. The calendar (`LastMonth` 14) goes on
for two months after `Horizon`, since an alarm may land a month and a turn
behind it. What the run shows is proved for all values.

`EventCache`: five events that overlap, repeat and supersede each other on two
channels, a cache of one, two threads that add three times, a clock of three
values.  `RCInput`: two presses, device and pipes long enough for their messages,
windows of two ticks, timers that fall on the same tick, one message of other
threads in a tick.  The pipes hold 12 messages, more than the 8 that `OwnFew`
(below) asks for; real ones hold thousands.

### Fairness

`TimerManager!FairSpec`: weak fairness of the thread's steps together, because
the thread wakes up at least every ten seconds and leaves its critical sections;
strong fairness of `Tick`, because time passes although the model enables it
only between critical sections.  Nothing is assumed of users, shutdown or power.

`Recording!Fairness`: the GUI thread handles waiting messages and closes a
cancelled box; a message box has a time limit, so it is answered; a running
timer stops (above).  Weak fairness of the three GUI actions is written out with
their guards, which are equivalent to ENABLED, to spare TLC from running the
handlers to find out.  Keys, new timers and shutdown are not fair.

`LiveTV!Fairness`: the GUI thread, the web server's zap once begun, cnThread and
the housekeeping thread are scheduled; a stream repeats its sections, and those
that come while cnThread reads are not for ever of one kind (strong fairness for
each kind).  Zaps and new programmes are not fair.

`EventCache` (in `MCStandalone`): the housekeeping thread goes on; each thread of
the schedule ends the addition it has begun and sleeps from time to time, as its
loop does after the sections of a time-out; the rest is not fair.  `RCInput` has
no liveness: what it must do in time is stated as safety, with the time.

## 4. Proofs

The runs show the properties on small instances; the theorems show them for
every value of the constants that meets the ASSUMEs of the module (TLC evaluates
these in every run).  A proof of an invariant has three parts: the initial states
satisfy the inductive invariant `IInv`, every action keeps it (one lemma or step
for each), and it implies the property.  TLC checked each `IInv` first.

`TimerManagerProofs`, for every set of timers, request and edit, every period,
recording safety and bound: `TypeCorrect`, `NoForgottenRecording`
(`RecordingIsRunning`), `FlagCoversChanges` (`SavedUnlessDirty`).  None of the
three is inductive by itself:

* Nothing is assumed of a timer's stop time, nor of the one in a file that was
  torn.  What must hold is that a recording with a stop time keeps it while it
  runs, through edits and passes (`CheckedRunning`), and that one without is in
  `endless` from its start.  The exception is needed: TLC finds a recording
  without an end, from the web interface or after a torn write, when `endless` is
  not taken out.
* A new event is put at `eventID + 1`.  It must not replace one that is
  recorded, with an end or without: `FreshIds`.
* The flag may be cleared only if the file was written from the map as it is
  now: `WrittenMap` says that in state "clear" the two are equal, which holds
  because the mutex is held.  `SetRecordingSafety` shows what happens to data
  outside it.

`RescheduleType`, `CheckedType` and `CheckedRunning` are lemmas on what a turn
of the loop makes of an event.

`NoDuplicates` (`NoDuplicateTimers`) rests on `EachOnce`.  Its invariant follows
a timer through the load: map and file hold each timer once (`Distinct`) and only
timers the user has programmed (`Known`), and as long as an event of the file
is still unread the map holds no other of its timer (`Apart`).  `Phases` says in
which states of the thread events are unread, and that the broadcast time is
known in all but the first, so that the file is read once in a boot.  Torn writes
are included: they change stop times and counts, not which timers there are.

`WakeUpInTime` (the action property `WakesForTimers`) rests on `MapAndFileAgree`:
every recording and zap is announced late enough to wake up before it, unless it
was started by hand (`AllTimely`); and `Mirror` relates map and file while the
file is read and once the thread is gone: with the flag down and the mutex free,
every live event of the map is in the file (`LiveFiled`), and every event of the
file that the user counts on is in the map or has just ended (`Held`).

`TimerManagerRefinement`: `Refinement` is that `TimerManager` implements
`RecordTimer`: the initial states map to initial states, and under `IInv` every
step maps to a step of `RecordTimer` or to a stutter.  `Kept` and `KeepsIds` say
for each action which identifiers keep their status; what is left is the one
that does not.  `NothingLostInTimerd` carries the abstract module's safety
property over to timerd.

`RepeatedTimerProofs`, for every summer, every calendar of months of 28 to 31
days, every alarm and interval: `RepeatedTimerTypes`, `GoesOffAtItsHour`
(`WallTimeKept`), `NoDaySkipped` (`NextExpectedDay`), `MovesTogether`
(`DistancesKept`).  The lemmas `Ahead` and `Landing` say on which day and hour a
turn lands, from the arithmetic of days and hours.  `WallTimeKept` is needed to
know on which day an alarm lies that an hour of the clock has been added to;
`DaysKept` says that the alarm is on an expected day with none expected between
it and the one before; `FutureAlarm` that a scheduled alarm is ahead.
`LoopAdvances` (`EveryTurnAdvances`) is that a turn moves the alarm by 23 hours
at least, also from the 31st into a month without one, over the year's end and
over the change of the clock; it needs that the loop stops within the calendar
(`InCalendar`), which holds because `now` does.  Every interval is allowed: the
lemma `Intervalled` says that `Programmed` leaves no weekdays without a day,
`OnlyRepeated` that what happens once is not rescheduled, and `TurnInVain` that an
unknown interval moves nothing.

`EventCacheProofs`, for every guide, set of threads and limit: `CacheTypes`,
`FoundByTime` (`EventsFound`), `NothingOrphaned` (`NoOrphans`), `LimitHolds`
(`CacheBounded`), `HousekeepingSpares` (`OnlyOldRemoved`).  `CacheBounded` is not
inductive: a thread that has been let in stores in a later critical section.
`RoomForAll` counts those threads with the events, and says that the sum is
bounded.

`LiveTVProofs`, for every set of channels, zapping threads and programmes:
`TelevisionTypes`, `ProgrammeOfChannel` (`EpgOfChannel`), `PresentIsNotFollowing`
(`CurrentIsNotNext`).  `IInv` says what is shown (`Shown`), stored in sectionsd
(`Stored`), on the way in the socket (`Waiting`), and held by a zap that is not
finished (`Calls`).

`RCInputProofs`, for every time limit, size of the pipes and rate of messages:
`InputTypes`, `NoTimerLate` (`TimersOnTime`), `OrderOfKeys` (`KeysInOrder`),
`OnceForAPress` (`PressedOnce`), `NoKeyLost` (`KeyNotLost`), `NoOverstay`
(`NeverOverstays`), `TimeToAnswer` (the action property `WaitsItsTime`), and
`OwnFew` (`OwnMessagesFew`).  `IInv` has three parts.  `Timely`: the
timers are sorted and none is late, which is what makes looking at the first
enough.  `Queued`: the events in the device are in the order of their presses and
a release is the last of its press; at most one key is in the pipe, and it is
later than each that took effect and earlier than each still in the device; what
`rc_last_key` remembers of the last one taken (`Remembered`).  `Window`: what is
left of the call and of the window.  The lemma `Answered` says that no window's
answer to a message breaks any of it.

`NoKeyLost` is not a matter of large pipes: a press begins after the release of
the press before, so `rc_last_key` is "none" and the first event of a press is
accepted; the pipe of high priority never holds more than one message when a key
is handed back to it, and the first message of an empty pipe is always written.

`OwnFew` does need the size of the pipes, and states it: under
`PipeSize > 2 * (Rate + MaxPresses + 1)` neither pipe is ever full and at most
two of the GUI thread's own messages are in the socket.  Every message and event
that waits is given the number of messages of low priority that may still come
of it (`Worth`, `Weight`); the proof shows that no answer is worth more than what
it answers, so that between two sleeps the sum grows only by what others send
(`Rate`), by the presses of the user and by one repeat.  A zap starts only when
none of its messages is in the socket.

`RecordingProofs`, for every number of timers, tuners, channels, transponders,
boxes and messages: `TypeCorrect`, `WillStop` (`RecordingWillStop`),
`ModeFollows` (`RecordModeFollows`), `LockHeld` (the action property
`LockHolds`).  A handler is a function of the whole state, so the inductive
invariant is a predicate `Sound(s)`, and `IInv == Sound(State)`.  Its parts:

* `Queue`: timerd's messages are each sent once, and the end of a timer that
  waits to be started comes behind its start (`EndBehindStart`, `SentOnce`);
* `Tuners` (in `ZapitProofs`): a tuner that is locked is tuned and open, none is
  locked before a recorder chose one, and outside standby the live channel's
  tuner is tuned if all transponders can be received;
* `Recorder`: the device, record mode, the lock and standby agree, and so do the
  device and the recorder threads (`Threads`);
* `BoxesSound`, `NextSound`, `NextShown`: that a box is open when one is cancelled,
  and that a `nextRecordingInfo` which outlives its handler is one a box still
  shows, whose end is to come or `late`;
* `RecordSound`: what is recorded has an end to come, or never had one.

The loops that throw messages away are steps like any other: `MessageDropped` shows
that `missed` or `late` is set whenever the end of the recording, or of the one
that is to start, goes this way, and `DelayEnded` what the standby key does then.

A handler runs nested in others, so what it leaves behind must not break what
they go on with: `Later(s, t)` says that messages are only added, behind the
others, that none of them starts a recording, and that exactly one end comes
for each timer that has ended meanwhile; every lemma about an operation shows
it. `Guarded(s, t)` is `LockHolds` as a relation of two states; it is shown
along with the rest, step by step. `ZapitProofs` has the lemmas for zapit's
operations that these cite: no operation but the end of a recording releases or
retunes a locked tuner.

Four more theorems about recording are stated by no run of their own; TLC agreed
with each of them on the bounds of `recording_safety` before it was proved:

* `MessagesWaitInOrder`: timerd's messages wait in order while neutrino is busy,
  each once, no start behind its own end, and a RECORD_STOP only for a timer that
  is over.  It is the part `Queue` of the invariant, in terms of the queue alone.
* `NoThreadLeft`: without a recording no recorder thread writes, and a recording
  that was started with none active has exactly one.  With finding 4 it says that
  threads go wrong only by a start during another recording.
* `OnlyPauseErases`: in a behaviour in which the pause key is never pressed during
  a recording, no end of a recording deletes its file.  The hypothesis is about
  the user's keys only; timers, timeshift, standby, zaps and the wrong byte of
  EVT_RECORDMODE are as free as ever.  `Spared` is what it needs beside `IInv`:
  while a recording, not a timeshift, is written, neither `autoshift` nor
  `timeshiftstatus` is set.
* `TimersAsPromised`: `Recording` implements `RecordTimer`, where `TimerStatus` maps
  the state of a timer to its status.  `Untouched`, `Ending` and `Moving` say for
  each operation which timers it leaves alone, ends, or moves on, and a handler is
  a composition of them.  Timers without a stop time are among them: "open" is a
  recording that waits, "endless" one that nothing stops.

Only model-checked is all liveness (`RecordingEnds`, `DueEventFires`,
`RemovalIsSaved`, `ZapSettles`, `AllOnLastChannel`, `EpgArrives`, `OldEventsGo`,
`DuplicatesGo`), which is out of the prover's reach.

## 5. Findings

1. `addTimerEvent(type, alarmtime, announcetime, ...)`: the wrappers pass the
   announce time first.  Events fire at their announce time (`timerd.cpp:337`).
2. `setRecordingSafety` sets the save flag without the mutex; a save in progress
   clears it (`timermanager.cpp:838`).
3. `removeEvent` does not set the save flag; `shutdown()` before the next pass
   leaves the removed timer in the file (`timermanager.cpp:283`).
4. A RECORD_START during a recording starts a second recorder thread on the same
   state (`neutrino2.cpp:3684`).
5. The pause key during a recording makes its end delete the file
   (`stream2file.cpp:324`).
6. `zapTo_RecordID` locks the tuner it chose, but the zap it makes may tune
   another (`zapit.cpp:1506`).

Each has a run whose counterexample shows it, and quotes the line of the source
it contradicts.  For two of them the proofs say how far they go: a second thread
needs the overlap of finding 4 (`NoThreadLeft`), and a file is deleted only after
the key of finding 5 (`OnlyPauseErases`).

More facts came up that no comment contradicts, or that a run of their own would
only restate.  They limit the properties instead, which name them:

Timers:

* Until the broadcast time is known the map lacks the timers of `timerd.conf`.
  `shutdown()` saves and programs the wake-up from the map alone
  (`timermanager.cpp:716-743`): a box switched off that early does not wake up
  for its timers, and if a timer was added or the recording safety changed in
  this time, the file is written over without them.  The same wake-up is missing
  when the thread is cancelled in its first save, with the mutex locked.
* The wake-up counts only events in the state "scheduled": switched off after the
  announcement of a recording, the box does not wake up for it.
* A recording that is programmed over the web interface without a stop time is
  started and then forgotten: its event is over at once and deleted in the pass
  that fires it (`timermanager.cpp:174`, `198-215`), and nothing tells neutrino to
  stop.  So is one whose stop time an interrupted write has lost (`endless`).
  The user's stop key does not end it either: `stopTimerEvent` finds no event
  under its identifier, `recordingstatus` is cleared and the recorder goes on
  (`neutrino2.cpp:3026`).  Switching off does.
* An interval that is no interval, which only a hand-written address of the web
  interface carries, keeps timerd in `Reschedule` for ever, with its mutex.

Recording:

* A RECORD_STOP taken in the box that shows that its own recording could not be
  started finds `nextRecordingInfo` still set and starts it again, now without
  an end (`vcr.late`, then `vcr.retried`).
* With a transponder that cannot be received, a zap to a channel without signal
  leaves the live tuner untuned.  A recording on it is then begun, in record
  mode, without a tuner that is locked (`zapit.cpp`, `zapTo_RecordID`): the part of
  `RecordModeFollows` about the lock holds where all transponders are receivable.
* `exitRun` stops the device whenever `recordingstatus` is set, also if nothing
  is recorded; `Stop` then uses a null `g_movieInfo` (`power = "crashed"`).
* The recorder may read from the wrong transponder with a single tuner too, if
  EVT_RECORDMODE leaves `recordingstatus` unset during a timeshift: a zap then
  ends only the shift's timer, fails because the tuner is locked, and leaves the
  new channel as the live one, which the next recording takes.
* A RECORD_START or the standby key closes the box that asks whether to stop the
  recording with its preset answer, yes.
* The infobar hands messages to the handlers in the else branch of a test of
  `timeshiftstatus` (`infoviewer.cpp:671`): while it is open in a timeshift, or
  in a recording after the pause key, RECORD_START, RECORD_STOP, shutdown and
  standby are lost (`vcr.missed`).
* The standby key, with `shutdown_real_rcdelay`, throws away all messages that
  come while it waits to see whether it is held (`neutrino2.cpp:3555`), a
  RECORD_STOP among them (`vcr.missed`, or `vcr.late` if the recording has not
  begun).

Messages, keys and timers:

* After a key event that is none for the windows, getMsg_us subtracts all the
  time since its call from what is left, each time (`rcinput.cpp:1458-1480`):
  after two of them a window closes too early (`ignored`).
* EVT_TIMESET carries seconds (`sectionsd.cpp:2825`), which
  getMsgAbsoluteTimeout adds to a time in microseconds (`rcinput.cpp:717-721`):
  a box that is open when the clock is set stays open for up to half an hour
  longer (`Stretch`).
* clearRCMsg forgets which key is held, so its next repeat is taken for another
  press (`cleared`).
* `CChannelList::exec` adds its timer twice and kills one (`channellist.cpp:667`,
  `673`); `showTitle` called from a number zap leaves its own
  (`infoviewer.cpp:604`).  The timers stay for ever; the windows of `RCInput` are
  those that pair them.

Programme guide:

* `addEvent` replaces an event in the map by `insert`, which keeps the old one: if
  two threads store one key, the sets point to an event the map does not hold
  (`raced`).
* Two threads may choose the same victim for eviction; the cache is one larger
  from then on (`wasted`).
* The housekeeping thread may delete an event that has been stored anew since it
  was found (`renewed`), and `addEvent` reads `(*lastEvent)` after the unlock.
* With `epg_max_events` 0 the eviction would take the last element of an empty
  set; the model's limit is positive.

Live television: the five ways in which the programme does not arrive, above; a
`setServiceChanged` of the web interface that comes after the next zap's; and a
zap that fails, after which zapit is back on the old channel and sectionsd is not.

## 6. Not modelled, and why

In `TimerManager`: the interval itself (see `RepeatedTimer`); the check for
overlapping timers; the APID settings; the readers `getTimerList` and
`listEvents`; two threads in `getInstance`.

In `Recording`: radio, scart and web channels; the movie player's way to stop a
recording; ANNOUNCE_RECORD (it wakes the disk and leaves standby) and ZAPTO;
the sleeptimer and skipShutdownTimer; network mounts; a writer that fails after
it has started (nothing reads whether its thread still runs); the time limit of
hint boxes.  A zap of the GUI thread is synchronous, and the message that
completes it is taken before the next key; zaps of web server threads are in
`LiveTV`.  The queue is unbounded here; that the GUI thread does not fill it is
`OwnMessagesFew` of `RCInput`.

In `Zapit`: motors, loops and mixed delivery systems, CAMs, PMTs and their
thread, playback.

In `CurrentNext` and `LiveTV`: the threads other than cnThread (time, EIT,
FreeSat, SDT, PPT), whose work ends in `addEvent`; NVOD services, channel
filters and XML import; the remote control's sub-services, audio tracks and
parental lock; radio.

In `EventCache`: updates of an event's text in place, which only the language
mode that is off would make; that `scanning` is set is assumed.

In `RCInput`: the translation of key codes, the pauses of `repeat_generic`, the
repeat of the standby key, the register of the event server's clients, windows
other than the three.

Other parts: scanning, channel lists and PMT parsing change nothing a recording
depends on while it runs.  By far the most of the repository is input, output,
drawing and decoding, or vendored: players, widgets, displays, teletext, the web
server's pages, file managers, XML and JSON libraries.  They have no state whose
order of changes a model could get wrong, or none that outlives a call, and the
share of lines that the modules stand for is small for that reason.
`PROJECT.json` lists each part with its reason.

## 7. Plan

The order was: timerd, because everything else serves it; the recording, which
acts on its messages; what the user sees of the threads behind the screen; then
the proofs of every safety property.  Left to do:

1. The check of `addTimerEvent` for overlapping timers, which is made before the
   mutex is taken: two callers may both pass it.
2. An abstract specification of the recorder itself, over both `RecordTimer` and
   the tuners.
3. `zapit`'s PMT thread beside a zap, and `lastchannel` against a reference
   definition.
