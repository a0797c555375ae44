---------------------------- MODULE TimerManager ----------------------------
(***************************************************************************)
(* timerd: CTimerManager (src/neutrino2/src/timerd/timermanager.cpp) and   *)
(* the entry points of CTimerd that reach it (timerd.cpp).                 *)
(*                                                                         *)
(* The manager keeps a map of events under one recursive mutex.  A thread  *)
(* walks the map every ten seconds, moves each event through its states,   *)
(* tells neutrino to start and to stop recordings, and writes the map to   *)
(* timerd.conf when a flag says that something changed.  Other threads     *)
(* (the GUI, the web server) add, modify, stop and remove events meanwhile,*)
(* the box is switched off or loses power, boots, and the map is read back *)
(* once the broadcast time is known.                                       *)
(*                                                                         *)
(* A tick of the clock is three minutes.  A critical section takes no time.*)
(***************************************************************************)
EXTENDS Integers, FiniteSets

CONSTANTS
    Timers,       \* the timers a user may program, each at most once
    Request,      \* what the user asks for: [Timers -> record], see Requests
    Edits,        \* the values a modifyEvent may carry
    Period,       \* ticks between two occurrences of a repeated event
    PreTime,      \* the recording safety the user may choose, in ticks
    MaxAdded,     \* bound on the timers programmed
    MaxTime,      \* bound on the clock
    MaxBoots,     \* bound on the number of boots
    MaxId         \* bound on the event identifiers of one boot

Ids == 1 .. MaxId

\* shutdownOnWakeup: the event it adds is announced after 120 s and fires after
\* 180 s, unless something is scheduled within 600 s; shutdown programs the
\* wake-up 180 s before the announcement.
AnnounceDelay == 1
AlarmDelay    == 1
QuietWindow   == 3
WakeLead      == 1

\* "shutdown" stands for every other type (sleeptimer, standby, reminder, plugin):
\* the manager treats them alike.
Types  == {"record", "nextprogram", "zapto", "shutdown"}
States == {"SCHEDULED", "PREANNOUNCE", "ISRUNNING", "HASFINISHED", "TERMINATED"}

\* The timer behind the event that shutdownOnWakeup adds.
CONSTANT AutoTimer

\* A user's wish: announced at `announce', starting at `alarm', until `stop', with
\* the recording safety added or not.  A timer of any type may come without a stop
\* time, 0: the web interface asks for none.  `immediate' is the recording the user
\* starts by hand; its `stop' is a duration.
Requests == [type : Types, announce : Nat, alarm : Nat, stop : Nat,
             repeat : BOOLEAN, count : Nat, safety : BOOLEAN, immediate : BOOLEAN]

EditValues == [announce : Nat, alarm : Nat, stop : Nat,
               repeat : BOOLEAN, count : Nat]

\* Times are seconds since 1970, so that no announcement or alarm is 0 by accident,
\* nor is the wake-up before it.
ASSUME RequestAssumption ==
    /\ Request \in [Timers -> Requests]
    /\ \A t \in Timers : /\ Request[t].announce > PreTime
                         /\ Request[t].alarm > PreTime + WakeLead
                         /\ Request[t].immediate => Request[t].type = "record"
ASSUME EditAssumption ==
    /\ Edits \subseteq EditValues
    /\ \A d \in Edits : d.announce > WakeLead /\ d.alarm > 0
ASSUME PeriodAssumption  == Period \in Nat \ {0}
ASSUME PreTimeAssumption == PreTime \in Nat
ASSUME BoundAssumption   == /\ MaxTime \in Nat
                            /\ MaxBoots \in Nat
                            /\ MaxAdded \in Nat
                            /\ MaxId \in Nat \ {0}
ASSUME AutoAssumption    == AutoTimer \notin Timers

Event == [timer : Timers \cup {AutoTimer}, type : Types, announce : Int, alarm : Int,
          stop : Nat, repeat : BOOLEAN, count : Nat,
          state : States \cup {"ABSENT"}]

Runs(e) == e.type = "record" /\ e.state = "ISRUNNING"

\* The value of the map at an identifier it does not hold.
NoEvent == [timer |-> AutoTimer, type |-> "shutdown", announce |-> 0, alarm |-> 0,
            stop |-> 0, repeat |-> FALSE, count |-> 0, state |-> "ABSENT"]

NoEvents == [i \in Ids |-> NoEvent]

VARIABLES
    now,          \* time(NULL)
    power,        \* "on", "joined" (shutdown() has ended the thread) or "off"
    boots,        \* number of boots so far (bounds the model)
    timeset,      \* sectionsd's flag: the broadcast time is known
    m_isTimeSet,  \* the manager has seen that flag
    m_saveEvents, \* the map or the extra times must be written
    eventID,      \* last identifier given
    events,       \* the map, NoEvent where there is none
    wakeup,       \* this boot was caused by the wake-up timer
    m_extraTime,  \* recording safety (m_extraTimeStart, and m_extraTimeEnd alike)
    file,         \* the events in timerd.conf
    fileExtra,    \* EXTRA_TIME_START in timerd.conf
    thread,       \* where timerThread is: see ThreadStates
    todo,         \* identifiers in timerd.conf still to be loaded
    pos,          \* the iterator of the pass: identifiers below it are done
    stuck,        \* the mutex is held by a thread that was cancelled
    wakeAt,       \* wake-up time given to the front processor, 0 if none
    recording,    \* identifiers neutrino records under: told to start, not to stop
    endless,      \* those it was told to start without a stop time (observes only)
    added,        \* timers programmed so far
    removed       \* timers for which removeEvent returned true

clock   == <<now, boots, timeset>>
manager == <<m_isTimeSet, m_saveEvents, eventID, events, wakeup, m_extraTime>>
conf    == <<file, fileExtra>>
asked   == <<recording, endless>>
loop    == <<thread, todo, pos, stuck>>
user    == <<added, removed>>
vars == <<clock, power, manager, conf, loop, wakeAt, asked, user>>

ThreadStates ==
    {"wait",      \* in pthread_cond_timedwait, cancellation enabled
     "load",      \* in loadEventsFromConfig, cancellation enabled
     "firstsave", \* in the saveEventsToConfig at its end, cancellation enabled
     "pass",      \* walks the map, holds the mutex
     "save",      \* saveEventsToConfig is about to lock the mutex
     "clear",     \* it has written the file and holds the mutex
     "dead"}      \* cancelled and joined

\* The least element of a set of identifiers, as a set: empty if there is none.
First(S) == {i \in S : \A j \in S : i <= j}

Present == {i \in Ids : events[i].state # "ABSENT"}

LockFree == thread \notin {"pass", "clear"} /\ ~stuck

\* The lock is taken by a GUI or web server thread; neither runs any more once
\* shutdown() has been called.
ApiOpen == power = "on" /\ LockFree

-----------------------------------------------------------------------------
(* Events. *)

NewEvent(t, type, announce, alarm, stop, repeat, count, state) ==
    [timer |-> t, type |-> type, announce |-> announce, alarm |-> alarm,
     stop |-> stop, repeat |-> repeat, count |-> count, state |-> state]

\* The loop of CTimerEvent::Reschedule: whole periods are added until the alarm
\* time is in the future.  One period stands for the day, week or month.
Postponement(e) ==
    IF e.alarm <= now THEN ((now - e.alarm) \div Period + 1) * Period ELSE 0

\* A faulty Reschedule: the count is decremented past zero.
RescheduleUnbounded(e) ==
    IF e.repeat
    THEN [e EXCEPT !.alarm    = @ + Postponement(e),
                   !.announce = IF @ > 0 THEN @ + Postponement(e) ELSE @,
                   !.stop     = IF @ > 0 THEN @ + Postponement(e) ELSE @,
                   !.state    = "SCHEDULED",
                   !.count    = @ - 1]
    ELSE [e EXCEPT !.state = "TERMINATED"]

Reschedule(e) ==
    IF e.repeat
    THEN [e EXCEPT !.alarm    = @ + Postponement(e),
                   !.announce = IF @ > 0 THEN @ + Postponement(e) ELSE @,
                   !.stop     = IF @ > 0 THEN @ + Postponement(e) ELSE @,
                   !.state    = "SCHEDULED",
                   !.count    = IF @ > 0 THEN @ - 1 ELSE @]
    ELSE [e EXCEPT !.state = "TERMINATED"]

\* The five tests timerThread makes on an event, in their order.
Announce(e) ==
    IF e.announce > 0 /\ e.state = "SCHEDULED" /\ e.announce <= now
    THEN [e EXCEPT !.state = "PREANNOUNCE"] ELSE e

\* A faulty test: an event that was announced does not fire.
FiresUnannounced(e) == e.alarm > 0 /\ e.state = "SCHEDULED" /\ e.alarm <= now

Fires(e) == /\ e.alarm > 0
            /\ e.state \in {"SCHEDULED", "PREANNOUNCE"}
            /\ e.alarm <= now

Fire(e) ==
    IF Fires(e)
    THEN [e EXCEPT !.state = IF e.stop = 0 THEN "HASFINISHED" ELSE "ISRUNNING"]
    ELSE e

\* A faulty test: only a running event without a stop time is stopped.
StopsNever(e) == e.stop = 0 /\ e.state = "ISRUNNING" /\ e.stop <= now

Stops(e) == e.stop > 0 /\ e.state = "ISRUNNING" /\ e.stop <= now

Stop(e) == IF Stops(e) THEN [e EXCEPT !.state = "HASFINISHED"] ELSE e

Finish(e) ==
    IF e.state # "HASFINISHED" THEN e
    ELSE IF e.repeat /\ e.count # 1 THEN Reschedule(e)
    ELSE [e EXCEPT !.state = "TERMINATED"]

Delete(e) == IF e.state = "TERMINATED" THEN NoEvent ELSE e

Checked(e) == Delete(Finish(Stop(Fire(Announce(e)))))

-----------------------------------------------------------------------------
(* shutdownOnWakeup. *)

Wakers == {"record", "zapto"}

\* Nothing but event i is recording or about to in the next ten minutes.
Quiet(i) ==
    \A j \in Ids \ {i} :
        /\ events[j].type \in Wakers
        /\ events[j].state \in {"SCHEDULED", "PREANNOUNCE", "ISRUNNING"}
        => events[j].announce - now > QuietWindow

ShutdownEvent ==
    NewEvent(AutoTimer, "shutdown", now + AnnounceDelay, now + AlarmDelay, 0,
             FALSE, 1, "SCHEDULED")

\* CTimerEvent_Record::stopEvent for event i: neutrino is told to stop, and a box
\* that woke up for a recording is given a shutdown event.  `map' is the map with
\* the event's new state, `changed' what the caller does to the save flag.
StopRecording(i, map, changed) ==
    LET shutdown == wakeup /\ Quiet(i)
    IN  /\ recording' = recording \ {i}
        /\ UNCHANGED endless
        /\ wakeup' = FALSE
        /\ eventID' = IF shutdown THEN eventID + 1 ELSE eventID
        /\ events' = IF shutdown THEN [map EXCEPT ![eventID + 1] = ShutdownEvent]
                                 ELSE map
        /\ m_saveEvents' = (m_saveEvents \/ changed \/ shutdown)

-----------------------------------------------------------------------------
(* The operations of the GUI and web server threads. *)

\* addTimerEvent and addEvent.  Every caller hands the announce time to the
\* parameter `alarmtime' and the alarm time to `announcetime'.  Recordings and the
\* next programme keep the stop time, whatever it is, the other types have none.
StoredEvent(t) ==
    LET r   == Request[t]
        pre == IF r.safety /\ r.type = "record" THEN m_extraTime ELSE 0
    IN  IF r.immediate
        THEN NewEvent(t, "record", now, 0, now + r.stop, r.repeat, r.count, "ISRUNNING")
        ELSE NewEvent(t, r.type, r.alarm - pre, r.announce - pre,
                      IF r.type \in {"record", "nextprogram"} THEN r.stop + pre ELSE 0,
                      r.repeat, r.count, "SCHEDULED")

AddEvent(t) ==
    /\ ApiOpen
    /\ t \notin added
    /\ Request[t].immediate => now > 0
    /\ eventID < MaxId                                    \* bound
    /\ Cardinality(added) < MaxAdded                      \* bound
    /\ eventID' = eventID + 1
    /\ events' = [events EXCEPT ![eventID + 1] = StoredEvent(t)]
    /\ m_saveEvents' = TRUE
    /\ added' = added \cup {t}
    \* a recording started by hand already runs when its event is added
    /\ recording' = IF Request[t].immediate THEN recording \cup {eventID + 1}
                                            ELSE recording
    /\ UNCHANGED <<clock, power, m_isTimeSet, wakeup, m_extraTime, conf, loop,
                   wakeAt, endless, removed>>

\* A faulty EndEvent: neutrino is not told to stop a running recording.
EndEventSilently(i, state) ==
    /\ i \in Present
    /\ eventID < MaxId
    /\ events' = [events EXCEPT ![i].state = state]
    /\ UNCHANGED <<asked, wakeup, eventID, m_saveEvents>>

\* The part removeEvent and stopEvent share: a running recording with a stop time
\* is stopped (the stopEvent of the other types does nothing) and the event gets its
\* last state.  Neither asks for the map to be saved.
EndEvent(i, state) ==
    LET map == [events EXCEPT ![i].state = state]
    IN  /\ i \in Present
        /\ eventID < MaxId                                \* bound
        /\ IF Runs(events[i]) /\ events[i].stop > 0
           THEN StopRecording(i, map, FALSE)
           ELSE /\ events' = map
                /\ UNCHANGED <<asked, wakeup, eventID, m_saveEvents>>

RemoveEvent(i) ==
    /\ ApiOpen
    /\ EndEvent(i, "TERMINATED")
    /\ removed' = removed \cup ({events[i].timer} \ {AutoTimer})
    /\ UNCHANGED <<clock, power, m_isTimeSet, m_extraTime, conf, loop, wakeAt,
                   added>>

StopEvent(i) ==
    /\ ApiOpen
    /\ EndEvent(i, "HASFINISHED")
    /\ UNCHANGED <<clock, power, m_isTimeSet, m_extraTime, conf, loop, wakeAt,
                   user>>

Edited(e, d) ==
    [e EXCEPT !.announce = d.announce, !.alarm = d.alarm, !.stop = d.stop,
              !.repeat = d.repeat, !.count = d.count,
              !.state = IF @ = "PREANNOUNCE" THEN "SCHEDULED" ELSE @]

\* A faulty ModifyEvent: the map is not marked for saving.
ModifyEventUnsaved(i, d) ==
    /\ ApiOpen
    /\ i \in Present
    /\ d.stop > 0 <=> events[i].stop > 0
    /\ events' = [events EXCEPT ![i] = Edited(events[i], d)]
    /\ UNCHANGED <<clock, power, m_isTimeSet, m_saveEvents, eventID, wakeup,
                   m_extraTime, conf, loop, wakeAt, asked, user>>

\* The timer list shows a stop time, to be changed, only where there is one.
ModifyEvent(i, d) ==
    /\ ApiOpen
    /\ i \in Present
    /\ d.stop > 0 <=> events[i].stop > 0
    /\ events' = [events EXCEPT ![i] = Edited(events[i], d)]
    /\ m_saveEvents' = TRUE
    /\ UNCHANGED <<clock, power, m_isTimeSet, eventID, wakeup, m_extraTime, conf,
                   loop, wakeAt, asked, user>>

\* Takes no lock.
SetRecordingSafety(pre) ==
    /\ power = "on"
    /\ m_extraTime' = pre
    /\ m_saveEvents' = TRUE
    /\ UNCHANGED <<clock, power, m_isTimeSet, eventID, events, wakeup, conf, loop,
                   wakeAt, asked, user>>

-----------------------------------------------------------------------------
(* timerThread. *)

\* A faulty SeeTimeSet: the file is read again and again.
SeeTimeSetAgain ==
    /\ power = "on" /\ thread = "wait"
    /\ ~m_isTimeSet /\ timeset
    /\ thread' = "load"
    /\ todo' = {i \in Ids : file[i].state # "ABSENT"}
    /\ UNCHANGED <<clock, power, manager, conf, pos, stuck, wakeAt, asked, user>>

\* The loop sees that the broadcast time is known and starts to load.
SeeTimeSet ==
    /\ power = "on" /\ thread = "wait"
    /\ ~m_isTimeSet /\ timeset
    /\ m_isTimeSet' = TRUE
    /\ thread' = "load"
    /\ todo' = {i \in Ids : file[i].state # "ABSENT"}
    /\ UNCHANGED <<clock, power, m_saveEvents, eventID, events, wakeup, m_extraTime,
                   conf, pos, stuck, wakeAt, asked, user>>

\* A faulty LoadEvent: the event keeps the identifier it has in the file.
LoadEventUnderOldId ==
    /\ power = "on" /\ thread = "load"
    /\ \E i \in First(todo) :
          LET e == file[i]
              pending == e.alarm >= now \/ e.stop > now
              loaded == IF pending THEN e ELSE [e EXCEPT !.state = "HASFINISHED"]
          IN  /\ todo' = todo \ {i}
              /\ IF pending \/ e.repeat
                 THEN /\ eventID' = IF i > eventID THEN i ELSE eventID
                      /\ events' = [events EXCEPT ![i] = loaded]
                 ELSE UNCHANGED <<eventID, events>>
    /\ UNCHANGED <<clock, power, m_isTimeSet, m_saveEvents, wakeup, m_extraTime,
                   conf, thread, pos, stuck, wakeAt, asked, user>>

\* loadEventsFromConfig: an event that is not over is added as it was saved, an
\* old repeated one is added as finished, any other is dropped.
LoadEvent ==
    /\ power = "on" /\ thread = "load"
    /\ \E i \in First(todo) :
          LET e == file[i]
              pending == e.alarm >= now \/ e.stop > now
              loaded == IF pending THEN e ELSE [e EXCEPT !.state = "HASFINISHED"]
          IN  /\ todo' = todo \ {i}
              /\ IF pending \/ e.repeat
                 THEN /\ eventID < MaxId                  \* bound
                      /\ eventID' = eventID + 1
                      /\ events' = [events EXCEPT ![eventID + 1] = loaded]
                 ELSE UNCHANGED <<eventID, events>>
    /\ UNCHANGED <<clock, power, m_isTimeSet, m_saveEvents, wakeup, m_extraTime,
                   conf, thread, pos, stuck, wakeAt, asked, user>>

LoadDone ==
    /\ power = "on" /\ thread = "load" /\ todo = {}
    /\ thread' = "firstsave"
    /\ UNCHANGED <<clock, power, manager, conf, todo, pos, stuck, wakeAt, asked, user>>

BeginPass ==
    /\ power = "on" /\ thread = "wait" /\ m_isTimeSet
    /\ thread' = "pass"
    /\ pos' = 1
    /\ UNCHANGED <<clock, power, manager, conf, todo, stuck, wakeAt, asked, user>>

\* The events the pass has not reached yet.
Ahead == {i \in Present : i >= pos}

\* One turn of the loop over the map.  Deleting an event invalidates the
\* iterator the loop then increments: it may still find its successor, or miss
\* the rest of the map (a crash is PowerLoss).
CheckEvent ==
    /\ power = "on" /\ thread = "pass"
    /\ eventID < MaxId                                    \* bound
    /\ \E i \in First(Ahead) :
          LET e   == events[i]
              e2  == Checked(e)
              map == [events EXCEPT ![i] = e2]
              starts == IF Fires(Announce(e)) /\ e.type = "record" THEN {i} ELSE {}
          IN  /\ IF Stops(Fire(Announce(e))) /\ e.type = "record"
                 THEN StopRecording(i, map, TRUE)
                 ELSE /\ events' = map
                      /\ recording' = recording \cup starts
                      /\ endless' = IF e.stop = 0 THEN endless \cup starts ELSE endless
                      /\ m_saveEvents' = (m_saveEvents \/ e2 # e)
                      /\ UNCHANGED <<wakeup, eventID>>
              /\ pos' \in {i + 1} \cup (IF e2 = NoEvent THEN {MaxId + 1} ELSE {})
    /\ UNCHANGED <<clock, power, m_isTimeSet, m_extraTime, conf, thread, todo,
                   stuck, wakeAt, user>>

\* A faulty EndPass: it never saves.
EndPassUnsaved ==
    /\ power = "on" /\ thread = "pass" /\ Ahead = {}
    /\ thread' = "wait"
    /\ pos' = 1
    /\ UNCHANGED <<clock, power, manager, conf, todo, stuck, wakeAt, asked, user>>

EndPass ==
    /\ power = "on" /\ thread = "pass" /\ Ahead = {}
    /\ thread' = IF m_saveEvents THEN "save" ELSE "wait"
    /\ pos' = 1
    /\ UNCHANGED <<clock, power, manager, conf, todo, stuck, wakeAt, asked, user>>

\* saveEventsToConfig writes the file, then clears the flag, under the mutex.
SaveEvents ==
    /\ power = "on" /\ thread \in {"firstsave", "save"}
    /\ file' = events
    /\ fileExtra' = m_extraTime
    /\ thread' = "clear"
    /\ UNCHANGED <<clock, power, manager, todo, pos, stuck, wakeAt, asked, user>>

ClearSaveEvents ==
    /\ power = "on" /\ thread = "clear"
    /\ m_saveEvents' = FALSE
    /\ thread' = "wait"
    /\ UNCHANGED <<clock, power, m_isTimeSet, eventID, events, wakeup, m_extraTime,
                   conf, todo, pos, stuck, wakeAt, asked, user>>

-----------------------------------------------------------------------------
(* Shutdown, power loss, boot. *)

\* The process is gone: only the clock, the file and the front processor remain.
MemoryLost ==
    /\ power' = "off"
    /\ timeset' = FALSE
    /\ m_isTimeSet' = FALSE /\ m_saveEvents' = FALSE
    /\ eventID' = 0 /\ events' = NoEvents
    /\ wakeup' = FALSE /\ m_extraTime' = 0
    /\ thread' = "wait" /\ todo' = {} /\ pos' = 1 /\ stuck' = FALSE
    /\ recording' = {} /\ endless' = {}

\* timerd.conf after the first k lines of counts and stop times.  saveConfig
\* truncates the file and writes the keys in their order: every other key of an
\* event, then the list of the identifiers, all counts, all stop times.
Written(k) == [i \in Ids |-> [events[i] EXCEPT !.count = IF i <= k THEN @ ELSE 0,
                                              !.stop = IF MaxId + i <= k THEN @ ELSE 0]]

\* saveConfig is interrupted: before it opens the file, before it has written the
\* list of the identifiers (the extra time precedes it), or later.
Interrupted ==
    \/ UNCHANGED conf
    \/ /\ file' = NoEvents
       /\ fileExtra' \in {0, m_extraTime}
    \/ /\ \E k \in 0 .. 2 * MaxId : file' = Written(k)
       /\ fileExtra' = m_extraTime

\* shutdown() cancels the thread where it allows that.  A thread cancelled in the
\* first save may leave the file half written and keeps the mutex.
CancelThread ==
    /\ power = "on" /\ thread \in {"wait", "load", "firstsave"}
    /\ power' = "joined"
    /\ thread' = "dead"
    /\ stuck' = (thread = "firstsave")
    /\ IF thread = "firstsave" THEN Interrupted ELSE UNCHANGED conf
    /\ UNCHANGED <<clock, manager, todo, pos, wakeAt, asked, user>>

\* A faulty search: the box does not wake up for a zap.
PendingRecordings == {i \in Ids : events[i].type = "record" /\ events[i].state = "SCHEDULED"}

Pending == {i \in Ids : events[i].type \in Wakers /\ events[i].state = "SCHEDULED"}

\* The rest of shutdown(): saves, programs the wake-up unless the mutex is still
\* locked.  With the mutex stuck and something to save, it never returns.
Shutdown ==
    /\ power = "joined"
    /\ ~(stuck /\ m_saveEvents)
    /\ file' = IF m_saveEvents THEN events ELSE file
    /\ fileExtra' = IF m_saveEvents THEN m_extraTime ELSE fileExtra
    /\ IF stuck \/ Pending = {}
       THEN UNCHANGED wakeAt
       ELSE \E i \in Pending :
               /\ \A j \in Pending : events[i].announce <= events[j].announce
               /\ wakeAt' = events[i].announce - WakeLead
    /\ MemoryLost
    /\ UNCHANGED <<now, boots, user>>

\* In a save, of the thread or of shutdown(), the write is interrupted too.
PowerLoss ==
    /\ power \in {"on", "joined"}
    /\ IF thread \in {"firstsave", "save"} \/ (power = "joined" /\ ~stuck /\ m_saveEvents)
       THEN Interrupted ELSE UNCHANGED conf
    /\ MemoryLost
    /\ UNCHANGED <<now, boots, wakeAt, user>>

\* Init() of a new process; the front processor may report a wake-up by timer
\* only when one was programmed.
Boot ==
    /\ power = "off"
    /\ boots < MaxBoots                                   \* bound
    /\ boots' = boots + 1
    /\ power' = "on"
    /\ wakeup' \in {FALSE, wakeAt # 0}
    /\ m_extraTime' = fileExtra
    /\ wakeAt' = 0
    /\ UNCHANGED <<now, timeset, m_isTimeSet, m_saveEvents, eventID, events, conf,
                   loop, asked, user>>

-----------------------------------------------------------------------------
(* The clock and sectionsd. *)

Tick ==
    /\ now < MaxTime                                      \* bound
    /\ thread \notin {"pass", "clear"}
    /\ now' = now + 1
    /\ UNCHANGED <<boots, timeset, power, manager, conf, loop, wakeAt, asked, user>>

TimeSet ==
    /\ power = "on" /\ ~timeset
    /\ timeset' = TRUE
    /\ UNCHANGED <<now, boots, power, manager, conf, loop, wakeAt, asked, user>>

-----------------------------------------------------------------------------
Init ==
    /\ now = 0 /\ power = "on" /\ boots = 1 /\ timeset = FALSE
    /\ m_isTimeSet = FALSE /\ m_saveEvents = FALSE
    /\ eventID = 0 /\ events = NoEvents /\ wakeup = FALSE /\ m_extraTime = 0
    /\ file = NoEvents /\ fileExtra = 0
    /\ thread = "wait" /\ todo = {} /\ pos = 1 /\ stuck = FALSE
    /\ wakeAt = 0
    /\ recording = {} /\ endless = {}
    /\ added = {} /\ removed = {}

ThreadStep == \/ SeeTimeSet \/ LoadEvent \/ LoadDone
              \/ BeginPass \/ CheckEvent \/ EndPass
              \/ SaveEvents \/ ClearSaveEvents

Next ==
    \/ \E t \in Timers : AddEvent(t)
    \/ \E i \in Ids : RemoveEvent(i) \/ StopEvent(i)
    \/ \E i \in Ids, d \in Edits : ModifyEvent(i, d)
    \/ \E pre \in {0, PreTime} : SetRecordingSafety(pre)
    \/ SeeTimeSet \/ LoadEvent \/ LoadDone
    \/ BeginPass \/ CheckEvent \/ EndPass
    \/ SaveEvents \/ ClearSaveEvents
    \/ CancelThread \/ Shutdown \/ PowerLoss \/ Boot
    \/ Tick \/ TimeSet

Spec == Init /\ [][Next]_vars

\* The thread wakes up every ten seconds, and time passes: the clock does not wait
\* for a thread, it is only not read inside a critical section.
FairSpec == Spec /\ WF_vars(ThreadStep) /\ SF_vars(Tick)

-----------------------------------------------------------------------------
(* Properties. *)

TypeOK ==
    /\ now \in Nat /\ boots \in Nat /\ timeset \in BOOLEAN
    /\ power \in {"on", "joined", "off"}
    /\ m_isTimeSet \in BOOLEAN /\ m_saveEvents \in BOOLEAN
    /\ eventID \in 0 .. MaxId
    /\ events \in [Ids -> Event]
    /\ wakeup \in BOOLEAN
    /\ m_extraTime \in {0, PreTime} /\ fileExtra \in {0, PreTime}
    /\ file \in [Ids -> Event]
    /\ thread \in ThreadStates
    /\ todo \subseteq Ids /\ pos \in 1 .. MaxId + 1 /\ stuck \in BOOLEAN
    /\ wakeAt \in Int
    /\ recording \subseteq Ids /\ endless \subseteq Ids
    /\ added \subseteq Timers /\ removed \subseteq Timers

\* Whatever neutrino records on behalf of a timer is still in the map, running and
\* with a stop time: no order of passes, edits, stops, removals and failures
\* leaves a recording that timerd has forgotten to stop.  Except the recordings
\* that were started without a stop time, which nothing will ever stop: of a timer
\* of the web interface that has none, or of one whose stop time an interrupted
\* write of timerd.conf has lost.
RecordingIsRunning ==
    \A i \in recording \ endless : Runs(events[i]) /\ events[i].stop > 0

\* When the flag m_saveEvents is down and the file has been loaded, timerd.conf
\* holds every event of the map as it is, except those a removeEvent or stopEvent
\* has just ended, and nothing else.
SavedUnlessDirty ==
    (/\ power = "on" /\ m_isTimeSet /\ ~m_saveEvents
     /\ thread \notin {"load", "firstsave"})
    => \A i \in Ids : \/ file[i] = events[i]
                      \/ /\ events[i].state \in {"HASFINISHED", "TERMINATED"}
                         /\ file[i].timer = events[i].timer
                         /\ file[i].state # "ABSENT"

\* A timer of the user is at most once in the map, and not both in the map and
\* still to be loaded: the file is read once, at the first pass after the time is
\* known, whatever was added before.
NoDuplicateTimers ==
    /\ \A i, j \in Present :
          i # j /\ events[i].timer = events[j].timer => events[i].timer = AutoTimer
    /\ \A i \in Present, j \in todo :
          events[i].timer = file[j].timer => events[i].timer = AutoTimer

\* Once the time is known, a recording whose stop time the clock reaches is
\* stopped, unless the box is switched off or loses power.  (One that was started
\* without a stop time is not.)
RecordingEnds ==
    \A i \in Ids :
        (/\ power = "on" /\ m_isTimeSet
         /\ i \in recording \ endless /\ events[i].stop <= MaxTime)
        ~> (power # "on" \/ i \notin recording \/ events[i].stop > MaxTime)

\* An event the user removes disappears from the file, unless the box goes down
\* first or the event is repeated and stopped after its removal.
RemovalIsSaved ==
    \A i \in Ids :
        (power = "on" /\ m_isTimeSet /\ events[i].state = "TERMINATED")
        ~> (power # "on" \/ file[i] = NoEvent \/ events[i].repeat)

Due(e) == /\ e.state \in {"SCHEDULED", "PREANNOUNCE"}
          /\ 0 < e.alarm /\ e.alarm <= now

\* An event whose time has come fires at one of the next passes, whatever else is
\* added, removed or deleted meanwhile, unless it is moved into the future.
DueEventFires ==
    \A i \in Ids :
        (power = "on" /\ m_isTimeSet /\ Due(events[i]))
        ~> (power # "on" \/ ~Due(events[i]))

\* The map holds what the file held.
Loaded == m_isTimeSet /\ todo = {}

\* The user counts on it; an event that is announced already is taken as begun.
Awaited(e) == e.type \in Wakers /\ e.state = "SCHEDULED" /\ e.alarm > now

JustEnded(t) ==
    \E i \in Present : /\ events[i].timer = t
                       /\ events[i].state \in {"HASFINISHED", "TERMINATED"}

\* An orderly shutdown leaves every recording and zap to come in the file, and the box
\* wakes up before each that the file holds, although the wake-up is computed from the
\* map: unless the file was not loaded yet, or the thread was cancelled in its first save.
WakesForTimers ==
    [][Shutdown /\ Loaded /\ ~stuck
       => /\ \A i \in Ids : Awaited(events[i]) => \E j \in Ids : file'[j] = events[i]
          /\ \A i \in Ids : Awaited(file'[i]) /\ ~JustEnded(file'[i].timer)
                            => wakeAt' # 0 /\ wakeAt' <= file'[i].announce - WakeLead]_vars

-----------------------------------------------------------------------------
(* What timerd promises neutrino: see RecordTimer. *)

StatusOf(i) ==
    LET e == events[i]
    IN  IF i > eventID               THEN "unused"
        ELSE IF i \in endless        THEN "endless"
        ELSE IF i \in recording      THEN IF Runs(e) THEN "asked" ELSE "lost"
        ELSE IF Runs(e)              THEN "unasked"
        ELSE IF e.type # "record"    THEN "other"
        ELSE IF e.state \in {"SCHEDULED", "PREANNOUNCE"} THEN "waiting"
        ELSE "ended"

RecordTimers == INSTANCE RecordTimer WITH status <- [i \in Ids |-> StatusOf(i)]

\* timerd gives every identifier of a boot once, tells neutrino to start a recording
\* that was waiting, once, and moves a recording that neutrino makes to any other
\* state only when it tells neutrino to stop; it never stops one that was started
\* without a stop time.
ImplementsRecordTimer == RecordTimers!Spec

-----------------------------------------------------------------------------
(* What the comments of the source say, and the code does not do. *)

\* A recording that has started has reached its announce time (timermanager.h:
\* announceTime is "when should event be announced", alarmTime "event start
\* time"; the user interface sets the first before the second).
AnnouncedBeforeStart ==
    \A i \in recording : events[i].announce <= now

\* The recording safety is in timerd.conf when nothing is left to be saved
\* (timermanager.cpp, setRecordingSafety: "also saves extra times").
ExtraTimesSaved ==
    (/\ power = "on" /\ m_isTimeSet /\ ~m_saveEvents /\ thread = "wait")
    => fileExtra = m_extraTime

\* An orderly shutdown leaves no removed event in the file that the next boot could
\* run again (timermanager.cpp, removeEvent: the state is set "to terminated", "so
\* timerthread will do the rest for us").
RemovalSurvivesShutdown ==
    [][Shutdown => \A i \in Ids : file'[i].timer \in removed
                                  => file'[i].state \in {"HASFINISHED", "TERMINATED"}]_vars

=============================================================================
