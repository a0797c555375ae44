------------------------- MODULE TimerManagerProofs -------------------------
(***************************************************************************)
(* Theorems about TimerManager, for every set of timers, every request and *)
(* edit, every period and every bound.                                     *)
(***************************************************************************)
EXTENDS TimerManager, TLAPS

\* Identifiers above eventID are free, and neutrino records under none of them.
FreshIds == \A i \in Ids : i > eventID => /\ events[i] = NoEvent
                                          /\ i \notin recording \cup endless

\* A process that does not run has no memory; a thread that has written the file
\* and still holds the mutex keeps the map as it was written.
WrittenMap == /\ power = "off" => ~m_isTimeSet /\ thread = "wait"
              /\ thread = "clear" => file = events

IInv == /\ TypeOK
        /\ FreshIds
        /\ RecordingIsRunning
        /\ WrittenMap
        /\ SavedUnlessDirty

-----------------------------------------------------------------------------
LEMMA NoEventType == NoEvent \in Event /\ NoEvents \in [Ids -> Event]
BY DEF NoEvent, NoEvents, Event, Types


\* Only whole periods are added, and never a negative number of them.
LEMMA PostponementNat ==
    ASSUME NEW e \in Event, now \in Nat
    PROVE  Postponement(e) \in Nat
<1>1. CASE e.alarm <= now
  <2>1. (now - e.alarm) \div Period + 1 \in Nat
    BY <1>1, PeriodAssumption DEF Event
  <2> QED
    BY <1>1, <2>1, PeriodAssumption DEF Postponement
<1>2. CASE ~(e.alarm <= now)
  BY <1>2 DEF Postponement
<1> QED
  BY <1>1, <1>2

LEMMA RescheduleType ==
    ASSUME NEW e \in Event, now \in Nat
    PROVE  Reschedule(e) \in Event /\ Reschedule(e).state \in {"SCHEDULED", "TERMINATED"}
<1>1. Postponement(e) \in Nat
  BY PostponementNat
<1>2. CASE e.repeat
  <2>1. Reschedule(e).state = "SCHEDULED" /\ Reschedule(e).type = e.type
    BY <1>2 DEF Reschedule, Event
  <2>2. Reschedule(e) \in Event
    <3>1. PICK d \in Nat : d = Postponement(e)
      BY <1>1
    <3> DEFINE an == IF e.announce > 0 THEN e.announce + d ELSE e.announce
               st == IF e.stop > 0 THEN e.stop + d ELSE e.stop
               al == e.alarm + d
               c  == IF e.count > 0 THEN e.count - 1 ELSE e.count
    <3>2. an \in Int /\ st \in Nat /\ al \in Int /\ c \in Nat
      BY <3>1 DEF Event
    <3>3. Reschedule(e) = [e EXCEPT !.alarm = al, !.announce = an, !.stop = st,
                                    !.state = "SCHEDULED", !.count = c]
      BY <1>2, <3>1 DEF Reschedule
    <3> HIDE DEF an, st, al, c
    <3> QED
      BY <3>2, <3>3 DEF Event, States
  <2> QED
    BY <2>1, <2>2
<1>3. CASE ~e.repeat
  BY <1>3 DEF Reschedule, Event, States
<1> QED
  BY <1>2, <1>3

\* What a turn of the loop makes of an event.
LEMMA CheckedType ==
    ASSUME NEW e \in Event, now \in Nat
    PROVE  Checked(e) \in Event
<1> DEFINE a == Announce(e)
           f == Fire(a)
           s == Stop(f)
           t == Finish(s)
<1>1. a \in Event
  BY DEF Announce, Event, States
<1> HIDE DEF a
<1>2. f \in Event
  BY <1>1 DEF Fire, Event, States
<1> HIDE DEF f
<1>3. s \in Event
  BY <1>2 DEF Stop, Event, States
<1> HIDE DEF s
<1>4. t \in Event
  BY <1>3, RescheduleType DEF Finish, Event, States
<1> HIDE DEF t
<1>5. Delete(t) \in Event
  BY <1>4, NoEventType DEF Delete, NoEvent
<1>6. Checked(e) = Delete(t)
  BY DEF Checked, a, f, s, t
<1> QED
  BY <1>5, <1>6

\* A recording that does not stop at this turn is running afterwards if it ran
\* before or if it is started now.
LEMMA CheckedRunning ==
    ASSUME NEW e \in Event, now \in Nat, e.type = "record", e.stop > 0,
           ~Stops(Fire(Announce(e))),
           e.state = "ISRUNNING" \/ Fires(Announce(e))
    PROVE  Runs(Checked(e)) /\ Checked(e).stop > 0
<1>1. /\ Fire(Announce(e)).state = "ISRUNNING"
      /\ Fire(Announce(e)).type = "record"
      /\ Fire(Announce(e)).stop > 0
  BY DEF Announce, Fire, Fires, Event
<1>2. Checked(e) = Fire(Announce(e))
  BY <1>1 DEF Checked, Stop, Finish, Delete
<1> QED
  BY <1>1, <1>2 DEF Runs

-----------------------------------------------------------------------------
(* Events that are added. *)

LEMMA ShutdownEventType ==
    ASSUME now \in Nat
    PROVE  ShutdownEvent \in Event
BY DEF ShutdownEvent, NewEvent, Event, Types, States, AnnounceDelay, AlarmDelay

LEMMA StoredEventType ==
    ASSUME NEW t \in Timers, now \in Nat, m_extraTime \in {0, PreTime}
    PROVE  /\ StoredEvent(t) \in Event
           /\ Request[t].immediate /\ now > 0
              => Runs(StoredEvent(t)) /\ StoredEvent(t).stop > 0
<1> DEFINE r == Request[t]
           pre == IF r.safety /\ r.type = "record" THEN m_extraTime ELSE 0
<1>1. /\ r \in Requests
      /\ r.announce > PreTime /\ r.alarm > PreTime
      /\ r.immediate => r.type = "record"
  BY RequestAssumption, PreTimeAssumption DEF Requests, WakeLead
<1>2. pre \in Nat
  BY PreTimeAssumption
<1> HIDE DEF pre
<1>3. CASE r.immediate
  <2>1. StoredEvent(t) = NewEvent(t, "record", now, 0, now + r.stop, r.repeat,
                                  r.count, "ISRUNNING")
    BY <1>3 DEF StoredEvent
  <2>2. now + r.stop \in Nat /\ (now > 0 => now + r.stop > 0)
    BY <1>1 DEF Requests
  <2> QED
    BY <1>1, <2>1, <2>2 DEF NewEvent, Event, Types, States, Requests, Runs
<1>4. CASE ~r.immediate
  <2> DEFINE al == r.announce - pre
             an == r.alarm - pre
             st == IF r.type \in {"record", "nextprogram"} THEN r.stop + pre ELSE 0
  <2>1. StoredEvent(t) = NewEvent(t, r.type, an, al, st, r.repeat, r.count, "SCHEDULED")
    BY <1>4 DEF StoredEvent, pre
  <2>2. al \in Int /\ an \in Int /\ st \in Nat
    BY <1>1, <1>2 DEF Requests
  <2> HIDE DEF al, an, st
  <2> QED
    BY <1>1, <1>4, <2>1, <2>2 DEF NewEvent, Event, Types, States, Requests
<1> QED
  BY <1>3, <1>4

-----------------------------------------------------------------------------
(* The inductive invariant. *)

LEMMA InitInv == Init => IInv
<1> SUFFICES ASSUME Init PROVE IInv
  OBVIOUS
<1>1. events = NoEvents /\ file = NoEvents
  BY DEF Init
<1>2. NoEvents \in [Ids -> Event]
  BY NoEventType DEF NoEvents, NoEvent
<1>3. TypeOK
  <2>1. events \in [Ids -> Event] /\ file \in [Ids -> Event]
    BY <1>1, <1>2
  <2>2. eventID \in 0 .. MaxId /\ pos \in 1 .. MaxId + 1
    BY BoundAssumption DEF Init
  <2>3. /\ timeset \in BOOLEAN /\ m_isTimeSet \in BOOLEAN /\ m_saveEvents \in BOOLEAN
        /\ wakeup \in BOOLEAN /\ stuck \in BOOLEAN
    BY DEF Init
  <2>4. /\ power \in {"on", "joined", "off"} /\ thread \in ThreadStates
        /\ now \in Nat /\ boots \in Nat /\ wakeAt \in Int
        /\ m_extraTime \in {0, PreTime} /\ fileExtra \in {0, PreTime}
    BY DEF Init, ThreadStates
  <2>5. /\ todo \subseteq Ids /\ recording \subseteq Ids /\ endless \subseteq Ids
        /\ added \subseteq Timers /\ removed \subseteq Timers
    BY DEF Init
  <2> QED
    BY <2>1, <2>2, <2>3, <2>4, <2>5 DEF TypeOK
<1>4. FreshIds /\ RecordingIsRunning
  BY DEF Init, FreshIds, RecordingIsRunning, NoEvents
<1>5. WrittenMap /\ SavedUnlessDirty
  BY DEF Init, WrittenMap, SavedUnlessDirty
<1> QED
  BY <1>1, <1>2, <1>3, <1>4, <1>5 DEF IInv

\* The recording of event i ends, the event having become v: the new map is sound,
\* identifiers stay fresh, and every other recording runs as before.
LEMMA StopRecordingInv ==
    ASSUME IInv, NEW i \in Ids, i <= eventID, eventID < MaxId, NEW v \in Event,
           NEW changed \in BOOLEAN,
           StopRecording(i, [events EXCEPT ![i] = v], changed)
    PROVE  /\ eventID' \in 0 .. MaxId /\ wakeup' \in BOOLEAN /\ m_saveEvents' \in BOOLEAN
           /\ recording' \subseteq Ids /\ endless' = endless
           /\ events' \in [Ids -> Event]
           /\ FreshIds' /\ RecordingIsRunning'
           /\ changed => m_saveEvents'
           /\ ~m_saveEvents' => ~m_saveEvents /\ events' = [events EXCEPT ![i] = v]
<1> DEFINE map == [events EXCEPT ![i] = v]
<1>1. events \in [Ids -> Event] /\ now \in Nat
  BY DEF IInv, TypeOK
<1>2. map \in [Ids -> Event]
  BY <1>1
<1>3. /\ map[i] = v
      /\ \A j \in Ids \ {i} : map[j] = events[j]
  BY <1>1
<1>4. /\ recording' = recording \ {i} /\ endless' = endless /\ wakeup' = FALSE
      /\ recording \subseteq Ids /\ eventID \in 0 .. MaxId /\ m_saveEvents \in BOOLEAN
  BY DEF StopRecording, IInv, TypeOK
<1>5. /\ \A j \in Ids : j > eventID => /\ events[j] = NoEvent
                                       /\ j \notin recording \cup endless
      /\ \A j \in recording \ endless : /\ events[j].type = "record"
                                        /\ events[j].state = "ISRUNNING"
                                        /\ events[j].stop > 0
  BY DEF IInv, FreshIds, RecordingIsRunning, Runs
<1> HIDE DEF map
<1>6. CASE wakeup /\ Quiet(i)
  <2>1. /\ eventID' = eventID + 1
        /\ events' = [map EXCEPT ![eventID + 1] = ShutdownEvent]
        /\ m_saveEvents' = TRUE
    BY <1>6, <1>4 DEF StopRecording, map
  <2>2. eventID + 1 \in Ids /\ eventID + 1 # i /\ eventID + 1 \in 0 .. MaxId
    BY <1>4, BoundAssumption DEF Ids
  <2>3. events' \in [Ids -> Event]
    BY <1>1, <1>2, <2>1, <2>2, ShutdownEventType
  <2>4. \A j \in Ids : j # eventID + 1 => events'[j] = map[j]
    BY <1>2, <2>1, <2>2
  <2>5. FreshIds'
    BY <1>3, <1>4, <1>5, <2>1, <2>2, <2>4 DEF FreshIds, Ids
  <2>6. RecordingIsRunning'
    <3> SUFFICES ASSUME NEW j \in recording' \ endless'
                 PROVE  /\ events'[j].type = "record"
                        /\ events'[j].state = "ISRUNNING"
                        /\ events'[j].stop > 0
      BY DEF RecordingIsRunning, Runs
    <3>1. j \in recording \ endless /\ j \in Ids \ {i}
      BY <1>4
    <3>2. j # eventID + 1
      BY <1>4, <1>5, <3>1 DEF Ids
    <3> QED
      BY <1>3, <1>5, <2>4, <3>1, <3>2
  <2>7. recording' \subseteq Ids /\ wakeup' \in BOOLEAN /\ m_saveEvents' \in BOOLEAN
    BY <1>4, <2>1
  <2> QED
    BY <1>4, <2>1, <2>2, <2>3, <2>5, <2>6, <2>7
<1>7. CASE ~(wakeup /\ Quiet(i))
  <2>1. /\ eventID' = eventID /\ events' = map
        /\ m_saveEvents' = (m_saveEvents \/ changed)
    BY <1>7, <1>4 DEF StopRecording, map
  <2>2. FreshIds'
    BY <1>3, <1>4, <1>5, <2>1 DEF FreshIds, Ids
  <2>3. RecordingIsRunning'
    BY <1>3, <1>4, <1>5, <2>1 DEF RecordingIsRunning, Runs
  <2> QED
    BY <1>2, <1>4, <2>1, <2>2, <2>3 DEF map
<1> QED
  BY <1>6, <1>7

\* The parts of the invariant about the map and the recordings hold again when those
\* do not change.
LEMMA Frame ==
    ASSUME IInv, UNCHANGED <<events, eventID, asked>>
    PROVE  FreshIds' /\ RecordingIsRunning'
BY DEF IInv, FreshIds, RecordingIsRunning, asked

LEMMA SeeTimeSetInv == ASSUME IInv, SeeTimeSet PROVE IInv'
<1>1. TypeOK'
  BY DEF IInv, TypeOK, SeeTimeSet, ThreadStates, clock, conf, asked, user
<1>2. WrittenMap' /\ SavedUnlessDirty'
  BY DEF SeeTimeSet, WrittenMap, SavedUnlessDirty, conf
<1> QED
  BY <1>1, <1>2, Frame DEF IInv, SeeTimeSet

LEMMA LoadDoneInv == ASSUME IInv, LoadDone PROVE IInv'
<1>1. TypeOK'
  BY DEF IInv, TypeOK, LoadDone, ThreadStates, clock, manager, conf, asked, user
<1>2. WrittenMap' /\ SavedUnlessDirty'
  BY DEF LoadDone, WrittenMap, SavedUnlessDirty
<1> QED
  BY <1>1, <1>2, Frame DEF IInv, LoadDone, manager

LEMMA BeginPassInv == ASSUME IInv, BeginPass PROVE IInv'
<1>1. TypeOK'
  <2>1. pos' \in 1 .. MaxId + 1
    BY BoundAssumption DEF BeginPass
  <2> QED
    BY <2>1 DEF IInv, TypeOK, BeginPass, ThreadStates, clock, manager, conf, asked, user
<1>2. WrittenMap' /\ SavedUnlessDirty'
  BY DEF IInv, BeginPass, WrittenMap, SavedUnlessDirty, manager, conf
<1> QED
  BY <1>1, <1>2, Frame DEF IInv, BeginPass, manager

LEMMA EndPassInv == ASSUME IInv, EndPass PROVE IInv'
<1>1. TypeOK'
  <2>1. pos' \in 1 .. MaxId + 1
    BY BoundAssumption DEF EndPass
  <2>2. thread' \in ThreadStates
    BY DEF EndPass, ThreadStates
  <2> QED
    BY <2>1, <2>2 DEF IInv, TypeOK, EndPass, clock, manager, conf, asked, user
<1>2. WrittenMap' /\ SavedUnlessDirty'
  BY DEF IInv, EndPass, WrittenMap, SavedUnlessDirty, manager, conf
<1> QED
  BY <1>1, <1>2, Frame DEF IInv, EndPass, manager

LEMMA SaveEventsInv == ASSUME IInv, SaveEvents PROVE IInv'
<1>1. TypeOK'
  BY DEF IInv, TypeOK, SaveEvents, ThreadStates, clock, manager, asked, user
<1>2. (FreshIds /\ RecordingIsRunning)'
  BY DEF IInv, SaveEvents, FreshIds, RecordingIsRunning, manager, asked
<1>3. WrittenMap' /\ SavedUnlessDirty'
  BY DEF SaveEvents, WrittenMap, SavedUnlessDirty, manager
<1> QED
  BY <1>1, <1>2, <1>3 DEF IInv

LEMMA ClearSaveEventsInv == ASSUME IInv, ClearSaveEvents PROVE IInv'
<1>1. TypeOK'
  BY DEF IInv, TypeOK, ClearSaveEvents, ThreadStates, clock, conf, asked, user
<1>2. WrittenMap' /\ SavedUnlessDirty'
  BY DEF IInv, ClearSaveEvents, WrittenMap, SavedUnlessDirty, conf
<1> QED
  BY <1>1, <1>2, Frame DEF IInv, ClearSaveEvents

LEMMA SetRecordingSafetyInv ==
    ASSUME IInv, NEW pre \in {0, PreTime}, SetRecordingSafety(pre) PROVE IInv'
<1>1. TypeOK'
  BY DEF IInv, TypeOK, SetRecordingSafety, clock, conf, loop, asked, user
<1>2. WrittenMap' /\ SavedUnlessDirty'
  BY DEF IInv, SetRecordingSafety, WrittenMap, SavedUnlessDirty, conf, loop
<1> QED
  BY <1>1, <1>2, Frame DEF IInv, SetRecordingSafety

LEMMA TickInv == ASSUME IInv, Tick PROVE IInv'
<1>1. TypeOK'
  BY DEF IInv, TypeOK, Tick, manager, conf, loop, asked, user
<1>2. WrittenMap' /\ SavedUnlessDirty'
  BY DEF IInv, Tick, WrittenMap, SavedUnlessDirty, manager, conf, loop
<1> QED
  BY <1>1, <1>2, Frame DEF IInv, Tick, manager

LEMMA TimeSetInv == ASSUME IInv, TimeSet PROVE IInv'
<1>1. TypeOK'
  BY DEF IInv, TypeOK, TimeSet, manager, conf, loop, asked, user
<1>2. WrittenMap' /\ SavedUnlessDirty'
  BY DEF IInv, TimeSet, WrittenMap, SavedUnlessDirty, manager, conf, loop
<1> QED
  BY <1>1, <1>2, Frame DEF IInv, TimeSet, manager

LEMMA BootInv == ASSUME IInv, Boot PROVE IInv'
<1>1. TypeOK'
  <2>1. boots' \in Nat
    BY DEF IInv, TypeOK, Boot
  <2>2. wakeup' \in BOOLEAN
    BY Zenon DEF Boot
  <2>3. wakeAt' \in Int /\ power' \in {"on", "joined", "off"}
    BY DEF Boot
  <2> QED
    BY <2>1, <2>3, <2>2 DEF IInv, TypeOK, Boot, conf, loop, asked, user
<1>2. WrittenMap' /\ SavedUnlessDirty'
  BY DEF IInv, Boot, WrittenMap, SavedUnlessDirty, conf, loop
<1> QED
  BY <1>1, <1>2, Frame DEF IInv, Boot

\* After the process is gone there is nothing in memory to be wrong about; only the
\* file matters.
LEMMA MemoryLostInv ==
    ASSUME IInv, MemoryLost, UNCHANGED <<now, boots, user>>,
           file' \in [Ids -> Event], fileExtra' \in {0, PreTime}, wakeAt' \in Int
    PROVE  IInv'
<1>1. events' = NoEvents /\ eventID' = 0 /\ recording' = {} /\ endless' = {}
  BY DEF MemoryLost
<1>2. NoEvents \in [Ids -> Event]
  BY <1>1, NoEventType DEF NoEvents, NoEvent
<1>3. TypeOK'
  <2>1. events' \in [Ids -> Event] /\ file' \in [Ids -> Event]
    BY <1>1, <1>2
  <2>2. eventID' \in 0 .. MaxId /\ pos' \in 1 .. MaxId + 1
    BY BoundAssumption DEF MemoryLost
  <2>3. /\ timeset' \in BOOLEAN /\ m_isTimeSet' \in BOOLEAN /\ m_saveEvents' \in BOOLEAN
        /\ wakeup' \in BOOLEAN /\ stuck' \in BOOLEAN
    BY DEF MemoryLost
  <2>4. /\ power' \in {"on", "joined", "off"} /\ thread' \in ThreadStates
        /\ now' \in Nat /\ boots' \in Nat /\ m_extraTime' \in {0, PreTime}
    BY DEF MemoryLost, ThreadStates, IInv, TypeOK
  <2>5. /\ todo' \subseteq Ids /\ recording' \subseteq Ids /\ endless' \subseteq Ids
        /\ added' \subseteq Timers /\ removed' \subseteq Timers
    BY DEF MemoryLost, IInv, TypeOK, asked, user
  <2> QED
    BY <2>1, <2>2, <2>3, <2>4, <2>5 DEF TypeOK
<1>4. FreshIds' /\ RecordingIsRunning'
  BY <1>1 DEF FreshIds, RecordingIsRunning, NoEvents
<1>5. WrittenMap' /\ SavedUnlessDirty'
  BY DEF MemoryLost, WrittenMap, SavedUnlessDirty
<1> QED
  BY <1>2, <1>3, <1>4, <1>5 DEF IInv

\* An interrupted write leaves a file of events.
LEMMA InterruptedInv ==
    ASSUME IInv, Interrupted
    PROVE  file' \in [Ids -> Event] /\ fileExtra' \in {0, PreTime}
<1>1. /\ file \in [Ids -> Event] /\ events \in [Ids -> Event]
      /\ m_extraTime \in {0, PreTime} /\ fileExtra \in {0, PreTime}
  BY DEF IInv, TypeOK
<1>2. CASE UNCHANGED conf
  BY <1>1, <1>2 DEF conf
<1>3. CASE file' = NoEvents /\ fileExtra' \in {0, m_extraTime}
  BY <1>1, <1>3, NoEventType
<1>4. CASE /\ \E k \in 0 .. 2 * MaxId : file' = Written(k)
           /\ fileExtra' = m_extraTime
  <2>1. PICK k \in 0 .. 2 * MaxId : file' = Written(k)
    BY <1>4
  <2>2. Written(k) \in [Ids -> Event]
    <3> SUFFICES ASSUME NEW i \in Ids
                 PROVE  [events[i] EXCEPT !.count = IF i <= k THEN @ ELSE 0,
                                          !.stop = IF MaxId + i <= k THEN @ ELSE 0] \in Event
      BY DEF Written
    <3> DEFINE c == IF i <= k THEN events[i].count ELSE 0
               st == IF MaxId + i <= k THEN events[i].stop ELSE 0
    <3>1. events[i] \in Event /\ c \in Nat /\ st \in Nat
      BY <1>1 DEF Event
    <3> HIDE DEF c, st
    <3>2. [events[i] EXCEPT !.count = c, !.stop = st] \in Event
      BY <3>1 DEF Event
    <3> QED
      BY <3>2 DEF c, st
  <2> QED
    BY <1>1, <1>4, <2>1, <2>2
<1> QED
  BY <1>2, <1>3, <1>4 DEF Interrupted

LEMMA PowerLossInv == ASSUME IInv, PowerLoss PROVE IInv'
<1>1. file' \in [Ids -> Event] /\ fileExtra' \in {0, PreTime}
  <2>1. CASE Interrupted
    BY <2>1, InterruptedInv
  <2>2. CASE UNCHANGED conf
    BY <2>2 DEF conf, IInv, TypeOK
  <2> QED
    BY <2>1, <2>2 DEF PowerLoss
<1> QED
  BY <1>1, MemoryLostInv DEF PowerLoss, IInv, TypeOK

LEMMA ShutdownInv == ASSUME IInv, Shutdown PROVE IInv'
<1>1. file' \in [Ids -> Event]
  BY DEF Shutdown, IInv, TypeOK
<1>2. fileExtra' \in {0, PreTime}
  BY DEF Shutdown, IInv, TypeOK
<1>3. wakeAt' \in Int
  <2>1. CASE stuck \/ Pending = {}
    BY <2>1 DEF Shutdown, IInv, TypeOK
  <2>2. CASE ~(stuck \/ Pending = {})
    <3>1. PICK i \in Pending : wakeAt' = events[i].announce - WakeLead
      BY <2>2 DEF Shutdown
    <3>2. events[i] \in Event
      BY DEF Pending, IInv, TypeOK
    <3> QED
      BY <3>1, <3>2 DEF Event, WakeLead
  <2> QED
    BY <2>1, <2>2
<1> QED
  BY <1>1, <1>2, <1>3, MemoryLostInv DEF Shutdown

LEMMA CancelThreadInv == ASSUME IInv, CancelThread PROVE IInv'
<1>1. file' \in [Ids -> Event] /\ fileExtra' \in {0, PreTime}
  <2>1. CASE Interrupted
    BY <2>1, InterruptedInv
  <2>2. CASE UNCHANGED conf
    BY <2>2 DEF conf, IInv, TypeOK
  <2> QED
    BY <2>1, <2>2 DEF CancelThread
<1>2. TypeOK'
  <2>1. stuck' \in BOOLEAN
    BY DEF CancelThread
  <2> QED
    BY <1>1, <2>1 DEF CancelThread, IInv, TypeOK, ThreadStates, clock, manager, asked, user
<1>3. FreshIds' /\ RecordingIsRunning'
  BY Frame DEF CancelThread, manager
<1>4. WrittenMap' /\ SavedUnlessDirty'
  BY DEF CancelThread, WrittenMap, SavedUnlessDirty
<1> QED
  BY <1>2, <1>3, <1>4 DEF IInv

-----------------------------------------------------------------------------
(* The actions that change the map. *)

LEMMA AddEventInv == ASSUME IInv, NEW t \in Timers, AddEvent(t) PROVE IInv'
<1> DEFINE new == eventID + 1
<1>1. endless' = endless
  BY DEF AddEvent
<1>2. /\ events \in [Ids -> Event] /\ now \in Nat /\ eventID \in 0 .. MaxId
      /\ recording \subseteq Ids
  BY DEF IInv, TypeOK
<1>3. new \in Ids /\ eventID' = new /\ eventID' \in 0 .. MaxId
  BY <1>2, BoundAssumption DEF AddEvent, Ids
<1>4. StoredEvent(t) \in Event
  BY StoredEventType DEF IInv, TypeOK
<1>5. events' = [events EXCEPT ![new] = StoredEvent(t)]
  BY DEF AddEvent
<1>6. events' \in [Ids -> Event]
  BY <1>2, <1>3, <1>4, <1>5
<1>7. /\ events'[new] = StoredEvent(t)
      /\ \A j \in Ids : j # new => events'[j] = events[j]
  BY <1>2, <1>3, <1>5
<1>8. recording' = IF Request[t].immediate THEN recording \cup {new} ELSE recording
  BY DEF AddEvent
<1>9. TypeOK'
  <2>1. recording' \subseteq Ids
    BY <1>2, <1>3, <1>8
  <2> QED
    BY <1>3, <1>6, <2>1 DEF AddEvent, IInv, TypeOK, clock, conf, loop
<1> HIDE DEF new
<1>10. FreshIds'
  <2> SUFFICES ASSUME NEW j \in Ids, j > eventID'
               PROVE  events'[j] = NoEvent /\ j \notin recording' \cup endless'
    BY DEF FreshIds
  <2>1. j > eventID /\ j # new
    BY <1>2, <1>3 DEF Ids, new
  <2> QED
    BY <1>1, <1>7, <1>8, <2>1 DEF IInv, FreshIds
<1>11. RecordingIsRunning'
  <2> SUFFICES ASSUME NEW j \in recording' \ endless
               PROVE  Runs(events'[j]) /\ events'[j].stop > 0
    BY <1>1 DEF RecordingIsRunning, Runs
  <2>1. CASE j = new /\ Request[t].immediate
    <3>1. now > 0 /\ m_extraTime \in {0, PreTime}
      BY <2>1 DEF AddEvent, IInv, TypeOK
    <3> QED
      BY <1>2, <1>3, <1>7, <2>1, <3>1, StoredEventType
  <2>2. CASE j \in recording /\ j \in Ids
    <3>1. j # new
      BY <1>2, <2>2 DEF IInv, FreshIds, new, Ids
    <3> QED
      BY <1>7, <2>2, <3>1 DEF IInv, RecordingIsRunning
  <2> QED
    BY <1>2, <1>8, <2>1, <2>2
<1>12. WrittenMap' /\ SavedUnlessDirty'
  BY DEF AddEvent, IInv, ApiOpen, LockFree, WrittenMap, SavedUnlessDirty,
         conf, loop
<1> QED
  BY <1>1, <1>6, <1>9, <1>10, <1>11, <1>12 DEF IInv

LEMMA EndEventInv ==
    ASSUME IInv, NEW i \in Ids, NEW state \in {"HASFINISHED", "TERMINATED"},
           ApiOpen, EndEvent(i, state),
           UNCHANGED <<clock, power, m_isTimeSet, m_extraTime, conf, loop, wakeAt, added>>,
           removed' \subseteq Timers
    PROVE  IInv'
<1> DEFINE v == [events[i] EXCEPT !.state = state]
<1>1. /\ events \in [Ids -> Event] /\ recording \subseteq Ids /\ eventID \in 0 .. MaxId
      /\ events[i] \in Event
  BY DEF IInv, TypeOK
<1>2. v \in Event
  BY <1>1 DEF Event, States
<1>3. /\ eventID < MaxId /\ events[i].state # "ABSENT"
      /\ [events EXCEPT ![i].state = state] = [events EXCEPT ![i] = v]
  BY <1>1 DEF EndEvent, Present
<1>4. i <= eventID
  BY <1>1, <1>3 DEF IInv, FreshIds, NoEvent, Ids
<1>5. /\ v.state = state /\ v.timer = events[i].timer
      /\ v.type = events[i].type /\ v.stop = events[i].stop
  BY <1>1 DEF Event
<1> HIDE DEF v
<1>6. /\ eventID' \in 0 .. MaxId /\ wakeup' \in BOOLEAN /\ m_saveEvents' \in BOOLEAN
      /\ recording' \subseteq Ids /\ endless' = endless
      /\ events' \in [Ids -> Event]
      /\ FreshIds' /\ RecordingIsRunning'
      /\ ~m_saveEvents' => ~m_saveEvents /\ events' = [events EXCEPT ![i] = v]
  <2>1. CASE Runs(events[i]) /\ events[i].stop > 0
    <3>1. StopRecording(i, [events EXCEPT ![i] = v], FALSE)
      BY <1>3, <2>1 DEF EndEvent
    <3> QED
      BY <1>2, <1>3, <1>4, <3>1, StopRecordingInv
  <2>2. CASE ~(Runs(events[i]) /\ events[i].stop > 0)
    <3>1. /\ events' = [events EXCEPT ![i] = v]
          /\ UNCHANGED <<recording, endless, wakeup, eventID, m_saveEvents>>
      BY <1>3, <2>2 DEF EndEvent, asked
    <3>2. events' \in [Ids -> Event]
      BY <1>1, <1>2, <3>1
    <3>3. \A j \in Ids : j # i => events'[j] = events[j]
      BY <1>1, <3>1
    <3>4. FreshIds'
      BY <1>1, <1>4, <3>1, <3>3 DEF IInv, FreshIds, Ids
    <3>5. RecordingIsRunning'
      BY <1>1, <2>2, <3>1, <3>3 DEF IInv, RecordingIsRunning
    <3> QED
      BY <1>1, <3>1, <3>2, <3>4, <3>5 DEF IInv, TypeOK
  <2> QED
    BY <2>1, <2>2
<1>7. TypeOK'
  BY <1>6 DEF IInv, TypeOK, clock, conf, loop
<1>8. SavedUnlessDirty'
  <2> SUFFICES ASSUME power' = "on" /\ m_isTimeSet' /\ ~m_saveEvents',
                      thread' \notin {"load", "firstsave"},
                      NEW j \in Ids
               PROVE  \/ file'[j] = events'[j]
                      \/ /\ events'[j].state \in {"HASFINISHED", "TERMINATED"}
                         /\ file'[j].timer = events'[j].timer
                         /\ file'[j].state # "ABSENT"
    BY DEF SavedUnlessDirty
  <2>1. /\ file' = file /\ events' = [events EXCEPT ![i] = v]
        /\ power = "on" /\ m_isTimeSet /\ ~m_saveEvents
        /\ thread \notin {"load", "firstsave"}
    BY <1>6 DEF conf, loop
  <2>2. \/ file[j] = events[j]
        \/ /\ events[j].state \in {"HASFINISHED", "TERMINATED"}
           /\ file[j].timer = events[j].timer
           /\ file[j].state # "ABSENT"
    BY <2>1 DEF IInv, SavedUnlessDirty
  <2>3. CASE j = i
    BY <1>1, <1>3, <1>5, <2>1, <2>2, <2>3
  <2>4. CASE j # i
    BY <1>1, <2>1, <2>2, <2>4
  <2> QED
    BY <2>3, <2>4
<1>9. WrittenMap'
  BY DEF IInv, ApiOpen, LockFree, WrittenMap, conf, loop
<1> QED
  BY <1>6, <1>7, <1>8, <1>9 DEF IInv

LEMMA RemoveEventInv == ASSUME IInv, NEW i \in Ids, RemoveEvent(i) PROVE IInv'
<1>1. removed' \subseteq Timers
  BY DEF RemoveEvent, IInv, TypeOK, Event
<1> QED
  BY <1>1, EndEventInv DEF RemoveEvent

LEMMA StopEventInv == ASSUME IInv, NEW i \in Ids, StopEvent(i) PROVE IInv'
BY EndEventInv DEF StopEvent, user, IInv, TypeOK

LEMMA ModifyEventInv ==
    ASSUME IInv, NEW i \in Ids, NEW d \in Edits, ModifyEvent(i, d) PROVE IInv'
<1> DEFINE state == IF events[i].state = "PREANNOUNCE" THEN "SCHEDULED" ELSE events[i].state
           v == Edited(events[i], d)
<1>1. /\ events \in [Ids -> Event] /\ recording \subseteq Ids /\ eventID \in 0 .. MaxId
      /\ events[i] \in Event /\ d \in EditValues
  BY EditAssumption DEF IInv, TypeOK
<1>2. /\ d.stop > 0 <=> events[i].stop > 0
      /\ events[i].state # "ABSENT"
  BY DEF ModifyEvent, Present
<1>3. events' = [events EXCEPT ![i] = v]
  BY DEF ModifyEvent
<1>4. i <= eventID
  BY <1>1, <1>2 DEF IInv, FreshIds, NoEvent, Ids
<1>5. v \in Event
  <2>1. /\ d.announce \in Int /\ d.alarm \in Int /\ d.stop \in Nat
        /\ d.repeat \in BOOLEAN /\ d.count \in Nat
    BY <1>1 DEF EditValues
  <2>2. state \in States \cup {"ABSENT"}
    BY <1>1 DEF Event, States
  <2>3. v = [events[i] EXCEPT !.announce = d.announce, !.alarm = d.alarm,
                              !.stop = d.stop, !.repeat = d.repeat,
                              !.count = d.count, !.state = state]
    BY DEF Edited
  <2> HIDE DEF state, v
  <2>4. v \in Event
    BY <1>1, <2>1, <2>2, <2>3 DEF Event
  <2> QED
    BY <2>4
<1>6. v.type = events[i].type /\ v.stop = d.stop /\ v.state = state
  BY <1>1 DEF Edited, Event
<1> HIDE DEF v
<1>7. events' \in [Ids -> Event]
  BY <1>1, <1>3, <1>5
<1>8. events'[i] = v /\ \A j \in Ids : j # i => events'[j] = events[j]
  BY <1>1, <1>3
<1>9. TypeOK'
  BY <1>7 DEF ModifyEvent, IInv, TypeOK, clock, conf, loop, asked, user
<1>10. FreshIds'
  BY <1>1, <1>4, <1>8 DEF ModifyEvent, IInv, FreshIds, Ids, asked
<1>11. RecordingIsRunning'
  BY <1>1, <1>2, <1>6, <1>8 DEF ModifyEvent, IInv, RecordingIsRunning, Runs, asked
<1>12. WrittenMap' /\ SavedUnlessDirty'
  BY DEF ModifyEvent, IInv, ApiOpen, LockFree, WrittenMap, SavedUnlessDirty,
         conf, loop
<1> QED
  BY <1>7, <1>9, <1>10, <1>11, <1>12 DEF IInv

LEMMA LoadEventInv == ASSUME IInv, LoadEvent PROVE IInv'
<1> DEFINE new == eventID + 1
<1>1. PICK i \in First(todo) :
         LET e == file[i]
             pending == e.alarm >= now \/ e.stop > now
             loaded == IF pending THEN e ELSE [e EXCEPT !.state = "HASFINISHED"]
         IN  /\ todo' = todo \ {i}
             /\ IF pending \/ e.repeat
                THEN /\ eventID < MaxId
                     /\ eventID' = eventID + 1
                     /\ events' = [events EXCEPT ![eventID + 1] = loaded]
                ELSE UNCHANGED <<eventID, events>>
  BY DEF LoadEvent
<1>2. /\ events \in [Ids -> Event] /\ file \in [Ids -> Event] /\ recording \subseteq Ids
      /\ eventID \in 0 .. MaxId /\ todo \subseteq Ids /\ i \in Ids
  BY DEF IInv, TypeOK, First
<1>3. todo' \subseteq Ids
  BY <1>1, <1>2
<1>4. /\ recording' = recording /\ endless' = endless /\ power' = power /\ m_isTimeSet' = m_isTimeSet
      /\ thread = "load" /\ thread' = "load" /\ file' = file /\ power = "on"
  BY DEF LoadEvent, conf, asked
<1>5. CASE UNCHANGED <<eventID, events>>
  <2>1. TypeOK'
    BY <1>3, <1>5 DEF LoadEvent, IInv, TypeOK, clock, conf, asked, user
  <2>2. WrittenMap' /\ SavedUnlessDirty'
    BY <1>4 DEF WrittenMap, SavedUnlessDirty
  <2> QED
    BY <1>4, <1>5, <2>1, <2>2, Frame DEF IInv, asked
<1>6. ASSUME NEW loaded \in Event, eventID < MaxId, eventID' = new,
             events' = [events EXCEPT ![new] = loaded]
      PROVE  IInv'
  <2>1. new \in Ids /\ eventID' \in 0 .. MaxId
    BY <1>2, <1>6, BoundAssumption DEF Ids
  <2>2. events' \in [Ids -> Event]
    BY <1>2, <1>6, <2>1
  <2>3. \A j \in Ids : j # new => events'[j] = events[j]
    BY <1>2, <1>6, <2>1
  <2>4. TypeOK'
    BY <1>3, <2>1, <2>2 DEF LoadEvent, IInv, TypeOK, clock, conf, asked, user
  <2> HIDE DEF new
  <2>5. FreshIds'
    <3> SUFFICES ASSUME NEW j \in Ids, j > eventID'
                 PROVE  events'[j] = NoEvent /\ j \notin recording' \cup endless'
      BY DEF FreshIds
    <3>1. j > eventID /\ j # new
      BY <1>2, <1>6, <2>1 DEF Ids, new
    <3> QED
      BY <1>4, <2>3, <3>1 DEF IInv, FreshIds
  <2>6. RecordingIsRunning'
    <3> SUFFICES ASSUME NEW j \in recording \ endless
                 PROVE  Runs(events'[j]) /\ events'[j].stop > 0
      BY <1>4 DEF RecordingIsRunning, Runs
    <3>1. j \in Ids /\ j # new
      BY <1>2 DEF IInv, FreshIds, new, Ids
    <3> QED
      BY <1>4, <2>3, <3>1 DEF IInv, RecordingIsRunning
  <2>7. WrittenMap' /\ SavedUnlessDirty'
    BY <1>4 DEF IInv, WrittenMap, SavedUnlessDirty
  <2> QED
    BY <1>4, <2>2, <2>4, <2>5, <2>6, <2>7 DEF IInv
<1>7. file[i] \in Event /\ [file[i] EXCEPT !.state = "HASFINISHED"] \in Event
  BY <1>2 DEF Event, States
<1>8. CASE file[i].alarm >= now \/ file[i].stop > now
  BY <1>1, <1>6, <1>7, <1>8
<1>9. CASE ~(file[i].alarm >= now \/ file[i].stop > now) /\ file[i].repeat
  BY <1>1, <1>6, <1>7, <1>9
<1>10. CASE ~(file[i].alarm >= now \/ file[i].stop > now) /\ ~file[i].repeat
  BY <1>1, <1>5, <1>10
<1> QED
  BY <1>8, <1>9, <1>10

LEMMA CheckEventInv == ASSUME IInv, CheckEvent PROVE IInv'
<1>1. PICK i \in First(Ahead) :
         /\ IF Stops(Fire(Announce(events[i]))) /\ events[i].type = "record"
            THEN StopRecording(i, [events EXCEPT ![i] = Checked(events[i])], TRUE)
            ELSE LET starts == IF Fires(Announce(events[i])) /\ events[i].type = "record"
                               THEN {i} ELSE {}
                 IN  /\ events' = [events EXCEPT ![i] = Checked(events[i])]
                     /\ recording' = recording \cup starts
                     /\ endless' = IF events[i].stop = 0 THEN endless \cup starts
                                                         ELSE endless
                     /\ m_saveEvents' = (m_saveEvents \/ Checked(events[i]) # events[i])
                     /\ UNCHANGED <<wakeup, eventID>>
         /\ pos' \in {i + 1} \cup (IF Checked(events[i]) = NoEvent THEN {MaxId + 1} ELSE {})
  BY DEF CheckEvent
<1> DEFINE v == Checked(events[i])
           starts == IF Fires(Announce(events[i])) /\ events[i].type = "record"
                     THEN {i} ELSE {}
<1>2. /\ events \in [Ids -> Event] /\ recording \subseteq Ids /\ endless \subseteq Ids
      /\ eventID \in 0 .. MaxId /\ i \in Ids /\ events[i].state # "ABSENT"
      /\ now \in Nat /\ eventID < MaxId
  BY DEF IInv, TypeOK, First, Ahead, Present, CheckEvent
<1>3. events[i] \in Event /\ v \in Event
  BY <1>2, CheckedType
<1>4. i <= eventID
  BY <1>2 DEF IInv, FreshIds, NoEvent, Ids
<1>5. pos' \in 1 .. MaxId + 1
  BY <1>1, <1>2, BoundAssumption DEF Ids
<1> HIDE DEF v
<1>6. /\ eventID' \in 0 .. MaxId /\ wakeup' \in BOOLEAN /\ m_saveEvents' \in BOOLEAN
      /\ recording' \subseteq Ids /\ endless' \subseteq Ids
      /\ events' \in [Ids -> Event]
      /\ FreshIds' /\ RecordingIsRunning'
      /\ ~m_saveEvents' => ~m_saveEvents /\ events' = events
  <2>1. CASE Stops(Fire(Announce(events[i]))) /\ events[i].type = "record"
    <3>1. StopRecording(i, [events EXCEPT ![i] = v], TRUE)
      BY <1>1, <2>1 DEF v
    <3> QED
      BY <1>2, <1>3, <1>4, <3>1, StopRecordingInv
  <2>2. CASE ~(Stops(Fire(Announce(events[i]))) /\ events[i].type = "record")
    <3>1. /\ events' = [events EXCEPT ![i] = v]
          /\ recording' = recording \cup starts
          /\ endless' = IF events[i].stop = 0 THEN endless \cup starts ELSE endless
          /\ m_saveEvents' = (m_saveEvents \/ v # events[i])
          /\ UNCHANGED <<wakeup, eventID>>
      BY <1>1, <2>2 DEF v
    <3>2. events' \in [Ids -> Event]
      BY <1>2, <1>3, <3>1
    <3>3. events'[i] = v /\ \A j \in Ids : j # i => events'[j] = events[j]
      BY <1>2, <3>1
    <3>4. starts \subseteq {i} /\ starts \subseteq Ids
      BY <1>2
    <3>5. FreshIds'
      BY <1>2, <1>4, <3>1, <3>3, <3>4 DEF IInv, FreshIds, Ids
    <3>6. RecordingIsRunning'
      <4> SUFFICES ASSUME NEW j \in recording' \ endless'
                   PROVE  Runs(events'[j]) /\ events'[j].stop > 0
        BY DEF RecordingIsRunning, Runs
      <4>1. CASE j # i
        BY <1>2, <3>1, <3>3, <3>4, <4>1 DEF IInv, RecordingIsRunning
      <4>2. CASE j = i
        <5>1. CASE i \in recording \ endless
          <6>1. Runs(events[i]) /\ events[i].stop > 0
            BY <5>1 DEF IInv, RecordingIsRunning
          <6> QED
            BY <1>2, <1>3, <2>2, <3>3, <4>2, <6>1, CheckedRunning DEF v, Runs
        <5>2. CASE i \in starts /\ events[i].stop # 0
          <6>1. /\ events[i].type = "record" /\ events[i].stop > 0
                /\ Fires(Announce(events[i]))
            BY <1>3, <5>2 DEF Event
          <6> QED
            BY <1>2, <1>3, <2>2, <3>3, <4>2, <6>1, CheckedRunning DEF v
        <5> HIDE DEF starts
        <5> QED
          BY <3>1, <4>2, <5>1, <5>2
      <4> QED
        BY <4>1, <4>2
    <3>7. m_saveEvents' \in BOOLEAN /\ (~m_saveEvents' => ~m_saveEvents /\ v = events[i])
      BY <3>1 DEF IInv, TypeOK
    <3>8. ~m_saveEvents' => events' = events
      BY <1>2, <3>1, <3>7
    <3>9. recording' \subseteq Ids /\ endless' \subseteq Ids
      BY <1>2, <3>1, <3>4
    <3> QED
      BY <1>2, <3>1, <3>2, <3>5, <3>6, <3>7, <3>8, <3>9 DEF IInv, TypeOK
  <2> QED
    BY <2>1, <2>2
<1>7. TypeOK'
  BY <1>5, <1>6 DEF CheckEvent, IInv, TypeOK, clock, conf, user
<1>8. WrittenMap' /\ SavedUnlessDirty'
  BY <1>6 DEF CheckEvent, IInv, WrittenMap, SavedUnlessDirty, conf
<1> QED
  BY <1>6, <1>7, <1>8 DEF IInv

-----------------------------------------------------------------------------
(* The theorems. *)

LEMMA NextInv == IInv /\ [Next]_vars => IInv'
<1> SUFFICES ASSUME IInv, [Next]_vars PROVE IInv'
  OBVIOUS
<1>1. CASE \E t \in Timers : AddEvent(t)
  BY <1>1, AddEventInv
<1>2. CASE \E i \in Ids : RemoveEvent(i) \/ StopEvent(i)
  BY <1>2, RemoveEventInv, StopEventInv
<1>3. CASE \E i \in Ids, d \in Edits : ModifyEvent(i, d)
  BY <1>3, ModifyEventInv
<1>4. CASE \E pre \in {0, PreTime} : SetRecordingSafety(pre)
  BY <1>4, SetRecordingSafetyInv
<1>5. CASE SeeTimeSet \/ LoadEvent \/ LoadDone
  BY <1>5, SeeTimeSetInv, LoadEventInv, LoadDoneInv
<1>6. CASE BeginPass \/ CheckEvent \/ EndPass
  BY <1>6, BeginPassInv, CheckEventInv, EndPassInv
<1>7. CASE SaveEvents \/ ClearSaveEvents
  BY <1>7, SaveEventsInv, ClearSaveEventsInv
<1>8. CASE CancelThread \/ Shutdown \/ PowerLoss \/ Boot
  BY <1>8, CancelThreadInv, ShutdownInv, PowerLossInv, BootInv
<1>9. CASE Tick \/ TimeSet
  BY <1>9, TickInv, TimeSetInv
<1>10. CASE UNCHANGED vars
  <2>1. UNCHANGED <<events, eventID, asked>>
    BY <1>10 DEF vars, manager
  <2>2. TypeOK'
    BY <1>10 DEF IInv, TypeOK, vars, clock, manager, conf, loop, asked, user
  <2>3. WrittenMap' /\ SavedUnlessDirty'
    BY <1>10 DEF IInv, WrittenMap, SavedUnlessDirty, vars, manager, conf, loop
  <2> QED
    BY <2>1, <2>2, <2>3, Frame DEF IInv
<1> QED
  BY <1>1, <1>2, <1>3, <1>4, <1>5, <1>6, <1>7, <1>8, <1>9, <1>10 DEF Next

\* The inductive invariant holds of every behaviour of the timer manager.
THEOREM Invariance == Spec => []IInv
BY InitInv, NextInv, PTL DEF Spec

\* Every variable keeps its type, whatever the requests, edits and bounds.
THEOREM TypeCorrect == Spec => []TypeOK
<1>1. IInv => TypeOK
  BY DEF IInv
<1> QED
  BY <1>1, Invariance, PTL

\* No recording that was started with a stop time is ever forgotten: what neutrino
\* records for timerd is a running event that still has one, except the recordings
\* that were started without (timermanager.cpp, timerThread, removeEvent, stopEvent,
\* modifyEvent, loadEventsFromConfig).
THEOREM NoForgottenRecording == Spec => []RecordingIsRunning
<1>1. IInv => RecordingIsRunning
  BY DEF IInv
<1> QED
  BY <1>1, Invariance, PTL

\* The save flag never hides a change of the map other than the end of an event
\* (timermanager.cpp, m_saveEvents and saveEventsToConfig).
THEOREM FlagCoversChanges == Spec => []SavedUnlessDirty
<1>1. IInv => SavedUnlessDirty
  BY DEF IInv
<1> QED
  BY <1>1, Invariance, PTL

-----------------------------------------------------------------------------
(* Which timer is where. *)

\* The file is read by nobody else and only after the time is known, by a thread that
\* does nothing else meanwhile.
Phases ==
    /\ power = "joined" <=> thread = "dead"
    /\ stuck => power = "joined"
    /\ ~m_isTimeSet => thread \in {"wait", "dead"} /\ todo = {} /\ ~stuck
    /\ todo # {} => thread \in {"load", "dead"} /\ ~stuck

Distinct(map) ==
    \A i, j \in Ids : map[i].timer = map[j].timer => i = j \/ map[i].timer = AutoTimer

Known(map) == \A i \in Ids : map[i].timer \in added \cup {AutoTimer}

\* What the file still has to give to the map of this boot.
Unread == IF m_isTimeSet THEN todo ELSE Ids

Apart ==
    \A i \in Ids, j \in Unread :
        events[i].timer = file[j].timer => events[i].timer = AutoTimer

Once == Distinct(events) /\ Distinct(file) /\ Known(events) /\ Known(file) /\ Apart

LEMMA NoEventsKnown == \A i \in Ids : NoEvents[i] = NoEvent /\ NoEvents[i].timer = AutoTimer
BY DEF NoEvents, NoEvent

\* No step but AddEvent and LoadEvent gives an identifier a timer of the user; the file
\* is left alone, or written from the map.
LEMMA OnceKept ==
    ASSUME Once, added \subseteq added',
           \A i \in Ids : events'[i].timer \in {events[i].timer, AutoTimer},
           \/ \A i \in Ids : file'[i].timer \in {file[i].timer, AutoTimer}
           \/ \A i \in Ids : file'[i].timer \in {events[i].timer, AutoTimer},
           \/ Unread' = {}
           \/ \A i \in Ids : events'[i].timer = AutoTimer
           \/ /\ Unread' \subseteq Unread /\ Unread' \subseteq Ids
              /\ \A i \in Ids : file'[i].timer \in {file[i].timer, AutoTimer}
    PROVE  Once'
<1>1. Distinct(events')
  BY DEF Once, Distinct
<1>2. Distinct(file')
  BY DEF Once, Distinct
<1>3. Known(events)' /\ Known(file)'
  BY DEF Once, Known
<1>4. Apart'
  <2>1. CASE Unread' = {}
    BY <2>1 DEF Apart
  <2>2. CASE \A i \in Ids : events'[i].timer = AutoTimer
    BY <2>2 DEF Apart
  <2>3. CASE /\ Unread' \subseteq Unread /\ Unread' \subseteq Ids
             /\ \A i \in Ids : file'[i].timer \in {file[i].timer, AutoTimer}
    BY <2>3 DEF Once, Apart
  <2> QED
    BY <2>1, <2>2, <2>3
<1> QED
  BY <1>1, <1>2, <1>3, <1>4 DEF Once

LEMMA CheckedTimer ==
    ASSUME NEW e \in Event
    PROVE  Checked(e).timer \in {e.timer, AutoTimer}
<1> DEFINE a == Announce(e)
           f == Fire(a)
           s == Stop(f)
           r == Reschedule(s)
           t == Finish(s)
<1>1. a \in Event /\ a.timer = e.timer
  BY DEF Announce, Event, States
<1> HIDE DEF a
<1>2. f \in Event /\ f.timer = e.timer
  BY <1>1 DEF Fire, Event, States
<1> HIDE DEF f
<1>3. s \in Event /\ s.timer = e.timer
  BY <1>2 DEF Stop, Event, States
<1> HIDE DEF s
<1>4. r.timer = e.timer
  BY <1>3 DEF Reschedule, Event
<1> HIDE DEF r
<1>5. t.timer = e.timer
  BY <1>3, <1>4 DEF Finish, Event, r
<1> HIDE DEF t
<1>6. Delete(t).timer \in {e.timer, AutoTimer}
  BY <1>5 DEF Delete, NoEvent
<1> QED
  BY <1>6 DEF Checked, a, f, s, t

\* A stopped recording changes one event, and may bring a shutdown event.
LEMMA StoppedTimers ==
    ASSUME IInv, NEW i \in Ids, NEW v \in Event, NEW changed \in BOOLEAN, eventID < MaxId,
           StopRecording(i, [events EXCEPT ![i] = v], changed)
    PROVE  /\ \A j \in Ids \ {i} : events'[j] = events[j] \/ events'[j] = ShutdownEvent
           /\ events'[i] = v \/ events'[i] = ShutdownEvent
           /\ ~m_saveEvents' => ~m_saveEvents /\ events' = [events EXCEPT ![i] = v]
<1>1. events \in [Ids -> Event] /\ eventID + 1 \in Ids /\ m_saveEvents \in BOOLEAN
  BY BoundAssumption DEF IInv, TypeOK, Ids
<1> QED
  BY <1>1 DEF StopRecording

LEMMA EndedTimers ==
    ASSUME IInv, NEW i \in Ids, NEW state \in {"HASFINISHED", "TERMINATED"}, EndEvent(i, state)
    PROVE  /\ \A j \in Ids : events'[j].timer \in {events[j].timer, AutoTimer}
           /\ ~m_saveEvents' => ~m_saveEvents /\ events' = [events EXCEPT ![i].state = state]
<1> DEFINE v == [events[i] EXCEPT !.state = state]
<1>1. events \in [Ids -> Event] /\ events[i] \in Event
  BY DEF IInv, TypeOK
<1>2. v \in Event /\ v.timer = events[i].timer
  BY <1>1 DEF Event, States
<1>3. [events EXCEPT ![i].state = state] = [events EXCEPT ![i] = v]
  BY <1>1
<1>4. ShutdownEvent.timer = AutoTimer
  BY DEF ShutdownEvent, NewEvent
<1> HIDE DEF v
<1>5. CASE Runs(events[i]) /\ events[i].stop > 0
  <2>1. StopRecording(i, [events EXCEPT ![i] = v], FALSE) /\ eventID < MaxId
    BY <1>3, <1>5 DEF EndEvent
  <2> QED
    BY <1>2, <1>3, <1>4, <2>1, StoppedTimers
<1>6. CASE ~(Runs(events[i]) /\ events[i].stop > 0)
  <2>1. events' = [events EXCEPT ![i] = v] /\ UNCHANGED m_saveEvents
    BY <1>3, <1>6 DEF EndEvent
  <2> QED
    BY <1>1, <1>2, <1>3, <2>1
<1> QED
  BY <1>5, <1>6

LEMMA CheckTimers ==
    ASSUME IInv, CheckEvent
    PROVE  \A j \in Ids : events'[j].timer \in {events[j].timer, AutoTimer}
<1>1. events \in [Ids -> Event]
  BY DEF IInv, TypeOK
<1>2. PICK i \in First(Ahead) :
         \/ StopRecording(i, [events EXCEPT ![i] = Checked(events[i])], TRUE)
         \/ events' = [events EXCEPT ![i] = Checked(events[i])]
  BY DEF CheckEvent
<1>3. i \in Ids /\ eventID < MaxId /\ events[i] \in Event /\ now \in Nat
  BY <1>1, <1>2 DEF First, Ahead, Present, CheckEvent, IInv, TypeOK
<1> DEFINE v == Checked(events[i])
<1>4. v \in Event /\ v.timer \in {events[i].timer, AutoTimer}
  BY <1>3, CheckedType, CheckedTimer
<1>5. ShutdownEvent.timer = AutoTimer
  BY DEF ShutdownEvent, NewEvent
<1> HIDE DEF v
<1>6. CASE StopRecording(i, [events EXCEPT ![i] = v], TRUE)
  BY <1>3, <1>4, <1>5, <1>6, StoppedTimers
<1>7. CASE events' = [events EXCEPT ![i] = v]
  BY <1>1, <1>3, <1>4, <1>7
<1> QED
  BY <1>2, <1>6, <1>7 DEF v

\* Between a boot and the moment the time is known, and from the end of the load on,
\* nothing is read: the phases of the thread.
LEMMA PhasesNext == TypeOK /\ Phases /\ [Next]_vars => Phases'
<1> SUFFICES ASSUME TypeOK, Phases, [Next]_vars PROVE Phases'
  OBVIOUS
<1> USE DEF Phases, TypeOK
<1>1. CASE \E t \in Timers : AddEvent(t)
  BY <1>1 DEF AddEvent, loop
<1>2. CASE \E i \in Ids : RemoveEvent(i) \/ StopEvent(i)
  BY <1>2 DEF RemoveEvent, StopEvent, loop
<1>3. CASE \E i \in Ids, d \in Edits : ModifyEvent(i, d)
  BY <1>3 DEF ModifyEvent, loop
<1>4. CASE \E pre \in {0, PreTime} : SetRecordingSafety(pre)
  BY <1>4 DEF SetRecordingSafety, loop
<1>5. CASE SeeTimeSet
  BY <1>5 DEF SeeTimeSet
<1>6. CASE LoadEvent
  BY <1>6 DEF LoadEvent
<1>7. CASE LoadDone \/ BeginPass \/ EndPass \/ ClearSaveEvents
  BY <1>7 DEF LoadDone, BeginPass, EndPass, ClearSaveEvents, manager
<1>8. CASE CheckEvent
  <2>1. UNCHANGED <<power, thread, m_isTimeSet, todo, stuck>>
    BY <1>8 DEF CheckEvent
  <2> QED
    BY <2>1
<1>9. CASE SaveEvents
  BY <1>9 DEF SaveEvents, manager
<1>10. CASE CancelThread
  BY <1>10 DEF CancelThread, manager
<1>11. CASE Shutdown \/ PowerLoss
  BY <1>11 DEF Shutdown, PowerLoss, MemoryLost
<1>12. CASE Boot
  <2>1. UNCHANGED <<thread, m_isTimeSet, todo, stuck>> /\ power = "off" /\ power' = "on"
    BY <1>12 DEF Boot, loop
  <2> QED
    BY <2>1
<1>13. CASE Tick \/ TimeSet
  <2>1. UNCHANGED <<power, thread, m_isTimeSet, todo, stuck>>
    BY <1>13 DEF Tick, TimeSet, loop, manager
  <2> QED
    BY <2>1
<1>14. CASE UNCHANGED vars
  BY <1>14 DEF vars, loop, manager
<1> QED
  BY <1>1, <1>2, <1>3, <1>4, <1>5, <1>6, <1>7, <1>8, <1>10, <1>11, <1>12, <1>14, <1>13,
     <1>9 DEF Next

\* A new event of the user has a timer that is nowhere yet.
LEMMA AddEventOnce ==
    ASSUME IInv, Once, NEW t \in Timers, AddEvent(t) PROVE Once'
<1> DEFINE new == eventID + 1
<1>1. /\ events \in [Ids -> Event] /\ new \in Ids
      /\ events' = [events EXCEPT ![new] = StoredEvent(t)]
  BY BoundAssumption DEF IInv, TypeOK, AddEvent, Ids
<1>2. StoredEvent(t).timer = t /\ t # AutoTimer
  BY AutoAssumption DEF StoredEvent, NewEvent
<1> HIDE DEF new
<1>3. /\ \A i \in Ids \ {new} : events'[i] = events[i]
      /\ events'[new].timer = t
  BY <1>1, <1>2
<1>4. /\ file' = file /\ Unread' = Unread /\ t \notin added /\ added' = added \cup {t}
      /\ Unread \subseteq Ids
  BY DEF AddEvent, conf, loop, Unread, IInv, TypeOK
<1>5. \A i \in Ids : events[i].timer # t /\ file[i].timer # t
  BY <1>2, <1>4 DEF Once, Known
<1>6. Distinct(events')
  BY <1>3, <1>5 DEF Once, Distinct
<1>7. Apart'
  BY <1>3, <1>4, <1>5 DEF Once, Apart
<1>8. Known(events)' /\ Known(file)'
  BY <1>3, <1>4 DEF Once, Known
<1> QED
  BY <1>4, <1>6, <1>7, <1>8 DEF Once

\* An event that is read leaves the part of the file that is still unread.
LEMMA LoadEventOnce ==
    ASSUME IInv, Phases, Once, LoadEvent PROVE Once'
<1> DEFINE new == eventID + 1
<1>1. PICK i \in First(todo) :
         /\ todo' = todo \ {i}
         /\ \/ UNCHANGED <<eventID, events>>
            \/ /\ eventID < MaxId
               /\ \E loaded \in {file[i], [file[i] EXCEPT !.state = "HASFINISHED"]} :
                     events' = [events EXCEPT ![new] = loaded]
  BY DEF LoadEvent
<1>2. /\ events \in [Ids -> Event] /\ file \in [Ids -> Event]
      /\ eventID \in 0 .. MaxId /\ todo \subseteq Ids /\ i \in todo
  BY DEF IInv, TypeOK, First
<1>3. /\ file' = file /\ added' = added /\ m_isTimeSet /\ m_isTimeSet'
      /\ Unread = todo /\ Unread' = todo \ {i}
  BY <1>1 DEF LoadEvent, conf, user, Phases, Unread
<1>4. CASE UNCHANGED <<eventID, events>>
  BY <1>2, <1>3, <1>4, OnceKept
<1>5. ASSUME NEW loaded \in {file[i], [file[i] EXCEPT !.state = "HASFINISHED"]},
             eventID < MaxId, events' = [events EXCEPT ![new] = loaded]
      PROVE  Once'
  <2>1. new \in Ids
    BY <1>2, <1>5, BoundAssumption DEF Ids
  <2>2. loaded.timer = file[i].timer
    BY <1>2 DEF Event
  <2> HIDE DEF new
  <2>3. /\ \A j \in Ids \ {new} : events'[j] = events[j]
        /\ events'[new].timer = file[i].timer
    BY <1>2, <1>5, <2>1, <2>2
  <2>4. \A j \in Ids : events[j].timer = file[i].timer => events[j].timer = AutoTimer
    BY <1>2, <1>3 DEF Once, Apart
  <2>5. Distinct(events')
    BY <2>3, <2>4 DEF Once, Distinct
  <2>6. Apart'
    BY <1>2, <1>3, <2>3 DEF Once, Apart, Distinct
  <2>7. Known(events)' /\ Known(file)'
    BY <1>2, <1>3, <2>3 DEF Once, Known
  <2> QED
    BY <1>3, <2>5, <2>6, <2>7 DEF Once
<1> QED
  BY <1>1, <1>4, <1>5

\* A write of the file, whole or interrupted, leaves no timer that is not in the map.
LEMMA InterruptedTimers ==
    ASSUME IInv, Interrupted
    PROVE  \/ file' = file
           \/ \A i \in Ids : file'[i].timer \in {events[i].timer, AutoTimer}
<1>1. CASE UNCHANGED conf
  BY <1>1 DEF conf
<1>2. CASE file' = NoEvents
  BY <1>2, NoEventsKnown
<1>3. CASE \E k \in 0 .. 2 * MaxId : file' = Written(k)
  <2>1. events \in [Ids -> Event]
    BY DEF IInv, TypeOK
  <2>2. PICK k \in 0 .. 2 * MaxId : file' = Written(k)
    BY <1>3
  <2> SUFFICES ASSUME NEW i \in Ids PROVE file'[i].timer = events[i].timer
    OBVIOUS
  <2> DEFINE c == IF i <= k THEN events[i].count ELSE 0
             d == IF MaxId + i <= k THEN events[i].stop ELSE 0
  <2>3. file'[i] = [events[i] EXCEPT !.count = c, !.stop = d]
    BY <2>1, <2>2 DEF Written, Event
  <2>4. events[i] \in Event
    BY <2>1
  <2> HIDE DEF c, d
  <2> QED
    BY <2>3, <2>4 DEF Event
<1> QED
  BY <1>1, <1>2, <1>3 DEF Interrupted

LEMMA OnceNext == IInv /\ Phases /\ Once /\ [Next]_vars => Once'
<1> SUFFICES ASSUME IInv, Phases, Once, [Next]_vars PROVE Once'
  OBVIOUS
<1>1. /\ events \in [Ids -> Event] /\ file \in [Ids -> Event] /\ todo \subseteq Ids
      /\ Unread \subseteq Ids /\ m_isTimeSet \in BOOLEAN
  BY DEF IInv, TypeOK, Unread
<1>a. ASSUME UNCHANGED <<added, file, m_isTimeSet, todo>>,
             \A i \in Ids : events'[i].timer \in {events[i].timer, AutoTimer}
      PROVE  Once'
  <2>1. Unread' = Unread
    BY <1>a DEF Unread
  <2> QED
    BY <1>1, <1>a, <2>1, OnceKept
<1>2. CASE \E t \in Timers : AddEvent(t)
  BY <1>2, AddEventOnce
<1>3. CASE \E i \in Ids : RemoveEvent(i) \/ StopEvent(i)
  <2>1. PICK i \in Ids : EndEvent(i, "TERMINATED") \/ EndEvent(i, "HASFINISHED")
    BY <1>3 DEF RemoveEvent, StopEvent
  <2>2. \A j \in Ids : events'[j].timer \in {events[j].timer, AutoTimer}
    BY <2>1, EndedTimers
  <2> QED
    BY <1>3, <1>a, <2>2 DEF RemoveEvent, StopEvent, conf, loop, user
<1>4. CASE \E i \in Ids, d \in Edits : ModifyEvent(i, d)
  <2>1. PICK i \in Ids, d \in Edits : ModifyEvent(i, d)
    BY <1>4
  <2>2. Edited(events[i], d).timer = events[i].timer
    BY <1>1 DEF Edited, Event
  <2> QED
    BY <1>1, <1>a, <2>1, <2>2 DEF ModifyEvent, conf, loop, user
<1>5. CASE \E pre \in {0, PreTime} : SetRecordingSafety(pre)
  BY <1>5, <1>a DEF SetRecordingSafety, conf, loop, user
<1>6. CASE SeeTimeSet
  <2>1. Unread' \subseteq Unread /\ Unread' \subseteq Ids
    BY <1>1, <1>6 DEF SeeTimeSet, Unread
  <2> QED
    BY <1>1, <1>6, <2>1, OnceKept DEF SeeTimeSet, conf, user
<1>7. CASE LoadEvent
  BY <1>7, LoadEventOnce
<1>8. CASE LoadDone \/ BeginPass \/ EndPass
  BY <1>8, <1>a DEF LoadDone, BeginPass, EndPass, manager, conf, user
<1>9. CASE CheckEvent
  BY <1>9, <1>a, CheckTimers DEF CheckEvent, conf, user
<1>10. CASE SaveEvents
  <2>1. Unread' = {}
    BY <1>10 DEF SaveEvents, Phases, Unread, manager
  <2> QED
    BY <1>1, <1>10, <2>1, OnceKept DEF SaveEvents, manager, user
<1>11. CASE ClearSaveEvents
  BY <1>11, <1>a DEF ClearSaveEvents, conf, user
<1>12. CASE CancelThread
  <2>1. CASE thread = "firstsave"
    <3>1. Unread' = {}
      BY <1>12, <2>1 DEF CancelThread, Phases, Unread, manager
    <3>2. Interrupted
      BY <1>12, <2>1 DEF CancelThread
    <3> QED
      BY <1>1, <1>12, <3>1, <3>2, InterruptedTimers, OnceKept DEF CancelThread, manager, user
  <2>2. CASE thread # "firstsave"
    BY <1>12, <1>a, <2>2 DEF CancelThread, manager, conf, user
  <2> QED
    BY <2>1, <2>2
<1>13. CASE Shutdown
  <2>1. \A i \in Ids : events'[i].timer = AutoTimer
    BY <1>13, NoEventsKnown DEF Shutdown, MemoryLost
  <2>2. file' = file \/ file' = events
    BY <1>13 DEF Shutdown
  <2>3. added' = added
    BY <1>13 DEF Shutdown, user
  <2> QED
    BY <1>1, <2>1, <2>2, <2>3, OnceKept
<1>14. CASE PowerLoss
  <2>1. \A i \in Ids : events'[i].timer = AutoTimer
    BY <1>14, NoEventsKnown DEF PowerLoss, MemoryLost
  <2>2. \/ file' = file
        \/ \A i \in Ids : file'[i].timer \in {events[i].timer, AutoTimer}
    BY <1>14, InterruptedTimers DEF PowerLoss, conf
  <2>3. added' = added
    BY <1>14 DEF PowerLoss, user
  <2> QED
    BY <1>1, <2>1, <2>2, <2>3, OnceKept
<1>15. CASE Boot \/ Tick \/ TimeSet
  BY <1>15, <1>a DEF Boot, Tick, TimeSet, manager, conf, loop, user
<1>16. CASE UNCHANGED vars
  BY <1>16, <1>a DEF vars, manager, conf, loop, user
<1> QED
  BY <1>2, <1>3, <1>4, <1>5, <1>6, <1>7, <1>8, <1>9, <1>10, <1>11, <1>12, <1>13,
     <1>14, <1>15, <1>16 DEF Next

OInv == IInv /\ Phases /\ Once

\* A timer of the user is in the map, or still to be read, and nowhere twice: this is
\* inductive only with what the file holds before it is read, and with the timers the
\* user has not programmed yet.
THEOREM EachOnce == Spec => []OInv
<1>1. Init => OInv
  <2> SUFFICES ASSUME Init PROVE OInv
    OBVIOUS
  <2>1. IInv
    BY InitInv
  <2>2. Phases
    BY DEF Init, Phases
  <2>3. \A i \in Ids : events[i].timer = AutoTimer /\ file[i].timer = AutoTimer
    BY NoEventsKnown DEF Init
  <2>4. Once
    BY <2>3 DEF Once, Distinct, Known, Apart
  <2> QED
    BY <2>1, <2>2, <2>4 DEF OInv
<1>2. OInv /\ [Next]_vars => OInv'
  BY NextInv, PhasesNext, OnceNext DEF OInv, IInv
<1> QED
  BY <1>1, <1>2, PTL DEF Spec

\* No timer of the user is twice in the map, or in the map and still to be loaded
\* (timermanager.cpp, addEvent, loadEventsFromConfig and the first pass of timerThread).
THEOREM NoDuplicates == Spec => []NoDuplicateTimers
<1>1. OInv => NoDuplicateTimers
  <2> SUFFICES ASSUME OInv PROVE NoDuplicateTimers
    OBVIOUS
  <2>1. todo \subseteq Ids /\ (todo # {} => Unread = todo)
    BY DEF OInv, IInv, TypeOK, Phases, Unread
  <2>2. \A i, j \in Present :
           i # j /\ events[i].timer = events[j].timer => events[i].timer = AutoTimer
    BY DEF OInv, Once, Distinct, Present
  <2>3. \A i \in Present, j \in todo :
           events[i].timer = file[j].timer => events[i].timer = AutoTimer
    BY <2>1 DEF OInv, Once, Apart, Present
  <2> QED
    BY <2>2, <2>3 DEF NoDuplicateTimers
<1> QED
  BY <1>1, EachOnce, PTL

-----------------------------------------------------------------------------
(* The wake-up. *)

\* A recording or zap is announced late enough for a wake-up before it; only a recording
\* started by hand may be announced at once, until it is rescheduled.
Timely(e) ==
    e.type \in Wakers =>
        \/ e.announce > WakeLead
        \/ /\ e.announce > 0 /\ e.alarm = 0
           /\ e.state \in {"ISRUNNING", "HASFINISHED", "TERMINATED"}

AllTimely == \A i \in Ids : Timely(events[i]) /\ Timely(file[i])

LEMMA FreeTimely == Timely(NoEvent) /\ Timely(ShutdownEvent) /\ \A i \in Ids : Timely(NoEvents[i])
BY DEF Timely, NoEvent, NoEvents, ShutdownEvent, NewEvent, Wakers

\* A turn of the loop keeps an event timely: what is rescheduled moves by a whole period.
LEMMA CheckedTimely ==
    ASSUME NEW e \in Event, Timely(e), now \in Nat
    PROVE  Timely(Checked(e))
<1> DEFINE a == Announce(e)
           f == Fire(a)
           s == Stop(f)
           r == Reschedule(s)
           t == Finish(s)
<1>1. a \in Event /\ Timely(a)
  BY DEF Announce, Event, States, Timely
<1> HIDE DEF a
<1>2. f \in Event /\ Timely(f)
  BY <1>1 DEF Fire, Fires, Event, States, Timely
<1> HIDE DEF f
<1>3. s \in Event /\ Timely(s)
  BY <1>2 DEF Stop, Stops, Event, States, Timely
<1> HIDE DEF s
<1>4. s.state = "HASFINISHED" => Timely(r)
  <2>1. CASE s.repeat
    <3>1. Postponement(s) \in Nat
      BY <1>3, PostponementNat
    <3>2. s.alarm = 0 => Postponement(s) >= 1
      <4> SUFFICES ASSUME s.alarm = 0 PROVE Postponement(s) >= 1
        OBVIOUS
      <4>1. now \div Period \in Nat
        BY PeriodAssumption
      <4>2. PICK n \in Nat : n = now \div Period
        BY <4>1
      <4>3. Postponement(s) = (n + 1) * Period
        BY <4>2 DEF Postponement
      <4> QED
        BY <4>3, PeriodAssumption
    <3> DEFINE p == Postponement(s)
    <3>3. /\ r.type = s.type
          /\ r.announce = IF s.announce > 0 THEN s.announce + p ELSE s.announce
      BY <1>3, <2>1 DEF Reschedule, Event
    <3> HIDE DEF r, p
    <3>4. p \in Nat /\ (s.alarm = 0 => p >= 1)
      BY <3>1, <3>2 DEF p
    <3>5. s.announce \in Int
      BY <1>3 DEF Event
    <3> QED
      BY <1>3, <3>3, <3>4, <3>5 DEF Timely, WakeLead
  <2>2. CASE ~s.repeat
    BY <1>3, <2>2 DEF Reschedule, Timely, Event
  <2> QED
    BY <2>1, <2>2
<1> HIDE DEF r
<1>5. Timely(t)
  BY <1>3, <1>4 DEF Finish, Event, Timely, r
<1> HIDE DEF t
<1>6. Timely(Delete(t))
  BY <1>5, FreeTimely DEF Delete
<1> QED
  BY <1>6 DEF Checked, a, f, s, t

LEMMA StoredTimely ==
    ASSUME NEW t \in Timers, now \in Nat, m_extraTime \in {0, PreTime},
           Request[t].immediate => now > 0
    PROVE  Timely(StoredEvent(t))
<1> DEFINE r == Request[t]
           pre == IF r.safety /\ r.type = "record" THEN m_extraTime ELSE 0
<1>1. r \in Requests /\ r.alarm > PreTime + WakeLead
  BY RequestAssumption
<1>2. pre \in Nat /\ pre <= PreTime
  BY PreTimeAssumption
<1> HIDE DEF pre
<1>3. CASE r.immediate
  BY <1>3 DEF StoredEvent, NewEvent, Timely
<1>4. CASE ~r.immediate
  <2>1. StoredEvent(t).announce = r.alarm - pre
    BY <1>4 DEF StoredEvent, NewEvent, pre
  <2>2. r.alarm - pre > WakeLead
    BY <1>1, <1>2, PreTimeAssumption DEF Requests, WakeLead
  <2> QED
    BY <2>1, <2>2 DEF Timely
<1> QED
  BY <1>3, <1>4

LEMMA EndedTimely ==
    ASSUME NEW e \in Event, Timely(e), NEW state \in {"HASFINISHED", "TERMINATED"}
    PROVE  Timely([e EXCEPT !.state = state])
BY DEF Timely, Event

LEMMA EditedTimely ==
    ASSUME NEW e \in Event, NEW d \in Edits
    PROVE  Timely(Edited(e, d))
<1>1. d.announce > WakeLead
  BY EditAssumption
<1>2. Edited(e, d).announce = d.announce
  BY DEF Edited, Event
<1> QED
  BY <1>1, <1>2 DEF Timely

\* Whatever is written is written from the map: a write that is cut short loses counts
\* and stop times only.
LEMMA InterruptedTimely ==
    ASSUME IInv, AllTimely, Interrupted
    PROVE  \A i \in Ids : Timely(file'[i])
<1>1. CASE UNCHANGED conf
  BY <1>1 DEF conf, AllTimely
<1>2. CASE file' = NoEvents
  BY <1>2, FreeTimely
<1>3. CASE \E k \in 0 .. 2 * MaxId : file' = Written(k)
  <2>1. events \in [Ids -> Event]
    BY DEF IInv, TypeOK
  <2>2. PICK k \in 0 .. 2 * MaxId : file' = Written(k)
    BY <1>3
  <2> SUFFICES ASSUME NEW i \in Ids PROVE Timely(file'[i])
    OBVIOUS
  <2>3. \A c, s : Timely([events[i] EXCEPT !.count = c, !.stop = s])
    BY <2>1 DEF Event, AllTimely, Timely
  <2> QED
    BY <2>2, <2>3 DEF Written
<1> QED
  BY <1>1, <1>2, <1>3 DEF Interrupted

LEMMA TimelyUpdate ==
    ASSUME AllTimely, events \in [Ids -> Event], NEW i \in Ids, NEW v, Timely(v),
           events' = [events EXCEPT ![i] = v], file' = file
    PROVE  AllTimely'
BY DEF AllTimely

LEMMA TimelyStop ==
    ASSUME IInv, AllTimely, NEW i \in Ids, NEW v \in Event, Timely(v), NEW changed \in BOOLEAN,
           eventID < MaxId, StopRecording(i, [events EXCEPT ![i] = v], changed), file' = file
    PROVE  AllTimely'
<1>1. \A j \in Ids : events'[j] \in {events[j], v, ShutdownEvent}
  BY StoppedTimers
<1> QED
  BY <1>1, FreeTimely DEF AllTimely

LEMMA EndEventTimely ==
    ASSUME IInv, AllTimely, NEW i \in Ids, NEW state \in {"HASFINISHED", "TERMINATED"},
           EndEvent(i, state), file' = file
    PROVE  AllTimely'
<1> DEFINE v == [events[i] EXCEPT !.state = state]
<1>1. events \in [Ids -> Event]
  BY DEF IInv, TypeOK
<1>2. v \in Event /\ Timely(v)
  BY <1>1, EndedTimely DEF Event, States, AllTimely
<1>3. [events EXCEPT ![i].state = state] = [events EXCEPT ![i] = v]
  BY <1>1
<1> HIDE DEF v
<1>4. CASE Runs(events[i]) /\ events[i].stop > 0
  <2>1. StopRecording(i, [events EXCEPT ![i] = v], FALSE) /\ eventID < MaxId
    BY <1>3, <1>4 DEF EndEvent
  <2> QED
    BY <1>2, <2>1, TimelyStop
<1>5. CASE ~(Runs(events[i]) /\ events[i].stop > 0)
  <2>1. events' = [events EXCEPT ![i] = v]
    BY <1>3, <1>5 DEF EndEvent
  <2> QED
    BY <1>1, <1>2, <2>1, TimelyUpdate
<1> QED
  BY <1>4, <1>5

LEMMA CheckEventTimely == ASSUME IInv, AllTimely, CheckEvent PROVE AllTimely'
<1>1. events \in [Ids -> Event]
  BY DEF IInv, TypeOK
<1>2. PICK i \in First(Ahead) :
         \/ StopRecording(i, [events EXCEPT ![i] = Checked(events[i])], TRUE)
         \/ events' = [events EXCEPT ![i] = Checked(events[i])]
  BY DEF CheckEvent
<1>3. i \in Ids /\ eventID < MaxId /\ events[i] \in Event /\ now \in Nat /\ file' = file
  BY <1>1, <1>2 DEF First, Ahead, Present, CheckEvent, IInv, TypeOK, conf
<1> DEFINE v == Checked(events[i])
<1>4. v \in Event /\ Timely(v)
  <2>1. Timely(events[i])
    BY <1>3 DEF AllTimely
  <2> QED
    BY <1>3, <2>1, CheckedType, CheckedTimely
<1> HIDE DEF v
<1>5. CASE StopRecording(i, [events EXCEPT ![i] = v], TRUE)
  BY <1>3, <1>4, <1>5, TimelyStop
<1>6. CASE events' = [events EXCEPT ![i] = v]
  BY <1>1, <1>3, <1>4, <1>6, TimelyUpdate
<1> QED
  BY <1>2, <1>5, <1>6 DEF v

LEMMA LoadEventTimely == ASSUME IInv, AllTimely, LoadEvent PROVE AllTimely'
<1>1. PICK i \in First(todo) :
         \/ UNCHANGED events
         \/ /\ eventID < MaxId
            /\ \E loaded \in {file[i], [file[i] EXCEPT !.state = "HASFINISHED"]} :
                  events' = [events EXCEPT ![eventID + 1] = loaded]
  BY DEF LoadEvent
<1>2. /\ events \in [Ids -> Event] /\ file \in [Ids -> Event] /\ file' = file
      /\ eventID \in 0 .. MaxId /\ i \in Ids
  BY DEF IInv, TypeOK, First, LoadEvent, conf
<1>3. Timely(file[i]) /\ Timely([file[i] EXCEPT !.state = "HASFINISHED"])
  BY <1>2, EndedTimely DEF AllTimely
<1>4. eventID < MaxId => eventID + 1 \in Ids
  BY <1>2, BoundAssumption DEF Ids
<1>5. CASE UNCHANGED events
  BY <1>2, <1>5 DEF AllTimely
<1>6. CASE /\ eventID < MaxId
           /\ \E loaded \in {file[i], [file[i] EXCEPT !.state = "HASFINISHED"]} :
                 events' = [events EXCEPT ![eventID + 1] = loaded]
  BY <1>2, <1>3, <1>4, <1>6, TimelyUpdate
<1> QED
  BY <1>1, <1>5, <1>6

LEMMA TimelyNext == IInv /\ AllTimely /\ [Next]_vars => AllTimely'
<1> SUFFICES ASSUME IInv, AllTimely, [Next]_vars PROVE AllTimely'
  OBVIOUS
<1>1. events \in [Ids -> Event] /\ now \in Nat /\ m_extraTime \in {0, PreTime}
  BY DEF IInv, TypeOK
<1>a. ASSUME UNCHANGED <<events, file>> PROVE AllTimely'
  BY <1>a DEF AllTimely
<1>2. CASE \E t \in Timers : AddEvent(t)
  <2>1. PICK t \in Timers : AddEvent(t)
    BY <1>2
  <2>2. eventID + 1 \in Ids
    BY <2>1, BoundAssumption DEF AddEvent, IInv, TypeOK, Ids
  <2>3. Timely(StoredEvent(t))
    BY <1>1, <2>1, StoredTimely DEF AddEvent
  <2> QED
    BY <1>1, <2>1, <2>2, <2>3, TimelyUpdate DEF AddEvent, conf
<1>3. CASE \E i \in Ids : RemoveEvent(i) \/ StopEvent(i)
  <2>1. PICK i \in Ids : EndEvent(i, "TERMINATED") \/ EndEvent(i, "HASFINISHED")
    BY <1>3 DEF RemoveEvent, StopEvent
  <2>2. file' = file
    BY <1>3 DEF RemoveEvent, StopEvent, conf
  <2> QED
    BY <2>1, <2>2, EndEventTimely
<1>4. CASE \E i \in Ids, d \in Edits : ModifyEvent(i, d)
  <2>1. PICK i \in Ids, d \in Edits : ModifyEvent(i, d)
    BY <1>4
  <2>2. Timely(Edited(events[i], d))
    BY <1>1, EditedTimely
  <2> QED
    BY <1>1, <2>1, <2>2, TimelyUpdate DEF ModifyEvent, conf
<1>5. CASE \E pre \in {0, PreTime} : SetRecordingSafety(pre)
  BY <1>5, <1>a DEF SetRecordingSafety, conf
<1>6. CASE SeeTimeSet \/ LoadDone \/ BeginPass \/ EndPass \/ ClearSaveEvents
  BY <1>6, <1>a DEF SeeTimeSet, LoadDone, BeginPass, EndPass, ClearSaveEvents, manager, conf
<1>7. CASE LoadEvent
  BY <1>7, LoadEventTimely
<1>8. CASE CheckEvent
  BY <1>8, CheckEventTimely
<1>9. CASE SaveEvents
  BY <1>9 DEF SaveEvents, manager, AllTimely
<1>10. CASE CancelThread
  <2>1. \A i \in Ids : Timely(file'[i])
    BY <1>10, InterruptedTimely DEF CancelThread, conf, AllTimely
  <2> QED
    BY <1>10, <2>1 DEF CancelThread, manager, AllTimely
<1>11. CASE Shutdown
  <2>1. events' = NoEvents /\ (file' = file \/ file' = events)
    BY <1>11 DEF Shutdown, MemoryLost
  <2> QED
    BY <2>1, FreeTimely DEF AllTimely
<1>12. CASE PowerLoss
  <2>1. \A i \in Ids : Timely(file'[i])
    BY <1>12, InterruptedTimely DEF PowerLoss, conf, AllTimely
  <2>2. events' = NoEvents
    BY <1>12 DEF PowerLoss, MemoryLost
  <2> QED
    BY <2>1, <2>2, FreeTimely DEF AllTimely
<1>13. CASE Boot \/ Tick \/ TimeSet
  BY <1>13, <1>a DEF Boot, Tick, TimeSet, manager, conf
<1>14. CASE UNCHANGED vars
  BY <1>14, <1>a DEF vars, manager, conf
<1> QED
  BY <1>2, <1>3, <1>4, <1>5, <1>6, <1>7, <1>8, <1>9, <1>10, <1>11, <1>12, <1>13, <1>14
     DEF Next

Live == {"SCHEDULED", "PREANNOUNCE", "ISRUNNING"}

\* Every event that may still do something is in the file, as it is in the map.
LiveFiled == \A i \in Ids : events[i].state \in Live
                               => \E j \in Ids \ todo : file[j] = events[i]

\* Every event of the file the user counts on is in the map, unless it has just ended.
Held == \A j \in Ids \ todo :
            Awaited(file[j]) => \E i \in Ids : \/ events[i] = file[j]
                                               \/ /\ events[i].timer = file[j].timer
                                                  /\ events[i].state \in {"HASFINISHED", "TERMINATED"}

\* While the file is read, and once the thread is gone, the map and what was read of the
\* file agree, if nothing is to be saved.
Mirror ==
    ~m_saveEvents /\ ~stuck
    => /\ ~m_isTimeSet => events = NoEvents
       /\ m_isTimeSet /\ thread \in {"load", "dead"} => LiveFiled /\ Held

LEMMA EndEventMirror ==
    ASSUME IInv, Phases, Mirror, NEW i \in Ids, NEW state \in {"HASFINISHED", "TERMINATED"},
           EndEvent(i, state),
           UNCHANGED <<clock, power, m_isTimeSet, m_extraTime, conf, loop, wakeAt, added>>
    PROVE  Mirror'
<1> SUFFICES ASSUME ~m_saveEvents', ~stuck'
             PROVE  /\ ~m_isTimeSet' => events' = NoEvents
                    /\ m_isTimeSet' /\ thread' \in {"load", "dead"} => LiveFiled' /\ Held'
  BY DEF Mirror
<1>1. /\ events \in [Ids -> Event] /\ file \in [Ids -> Event]
      /\ UNCHANGED <<file, todo, thread, m_isTimeSet, stuck, now>>
  BY DEF IInv, TypeOK, conf, loop, clock
<1>2. ~m_saveEvents /\ events' = [events EXCEPT ![i].state = state]
  BY EndedTimers
<1>3. /\ events'[i].timer = events[i].timer /\ events'[i].state = state
      /\ \A k \in Ids \ {i} : events'[k] = events[k]
  BY <1>1, <1>2 DEF Event
<1>4. m_isTimeSet
  BY <1>1, <1>2 DEF Mirror, EndEvent, Present, NoEvents, NoEvent
<1>5. ASSUME LiveFiled PROVE LiveFiled'
  BY <1>1, <1>3, <1>5 DEF LiveFiled, Live
<1>6. ASSUME Held PROVE Held'
  <2> SUFFICES ASSUME NEW j \in Ids \ todo, Awaited(file[j])
               PROVE  \E k \in Ids : \/ events'[k] = file[j]
                                     \/ /\ events'[k].timer = file[j].timer
                                        /\ events'[k].state \in {"HASFINISHED", "TERMINATED"}
    BY <1>1 DEF Held, Awaited
  <2>1. PICK k \in Ids : \/ events[k] = file[j]
                         \/ /\ events[k].timer = file[j].timer
                            /\ events[k].state \in {"HASFINISHED", "TERMINATED"}
    BY <1>6 DEF Held
  <2> QED
    BY <1>3, <2>1
<1> QED
  BY <1>1, <1>2, <1>4, <1>5, <1>6 DEF Mirror

LEMMA SeeTimeSetMirror == ASSUME IInv, Mirror, SeeTimeSet PROVE Mirror'
<1> SUFFICES ASSUME ~m_saveEvents', ~stuck'
             PROVE  m_isTimeSet' /\ LiveFiled' /\ Held'
  BY DEF Mirror
<1>1. /\ events' = NoEvents /\ file' = file /\ m_isTimeSet'
      /\ todo' = {i \in Ids : file[i].state # "ABSENT"}
  BY DEF SeeTimeSet, Mirror, conf
<1>2. LiveFiled'
  BY <1>1, NoEventsKnown DEF LiveFiled, Live, NoEvent
<1>3. Held'
  BY <1>1 DEF Held, Awaited
<1> QED
  BY <1>1, <1>2, <1>3

LEMMA LoadEventMirror == ASSUME IInv, Phases, Mirror, LoadEvent PROVE Mirror'
<1> DEFINE new == eventID + 1
           pending(j) == file[j].alarm >= now \/ file[j].stop > now
           loaded(j) == IF pending(j) THEN file[j] ELSE [file[j] EXCEPT !.state = "HASFINISHED"]
<1> SUFFICES ASSUME ~m_saveEvents', ~stuck'
             PROVE  LiveFiled' /\ Held'
  BY DEF LoadEvent, Mirror, Phases
<1>1. PICK i \in First(todo) :
         /\ todo' = todo \ {i}
         /\ IF pending(i) \/ file[i].repeat
            THEN eventID < MaxId /\ events' = [events EXCEPT ![new] = loaded(i)]
            ELSE UNCHANGED events
  BY DEF LoadEvent
<1>2. /\ events \in [Ids -> Event] /\ file \in [Ids -> Event] /\ now \in Nat
      /\ eventID \in 0 .. MaxId /\ todo \subseteq Ids /\ i \in todo
      /\ file' = file /\ now' = now
  BY DEF IInv, TypeOK, First, LoadEvent, conf, clock
<1>3. LiveFiled /\ Held
  BY DEF LoadEvent, Mirror, Phases
<1>4. Awaited(file[i]) => pending(i)
  BY <1>2 DEF Awaited, Event
<1>5. CASE ~(pending(i) \/ file[i].repeat)
  BY <1>1, <1>2, <1>3, <1>4, <1>5 DEF LiveFiled, Held, Awaited
<1>6. CASE pending(i) \/ file[i].repeat
  <2>1. new \in Ids /\ events[new] = NoEvent
    BY <1>1, <1>2, <1>6, BoundAssumption DEF Ids, IInv, FreshIds
  <2> DEFINE v == loaded(i)
  <2>2. v.state \in Live => v = file[i]
    BY <1>2 DEF Live, Event
  <2>3. pending(i) => v = file[i]
    OBVIOUS
  <2>4. events' = [events EXCEPT ![new] = v]
    BY <1>1, <1>6
  <2> HIDE DEF v, new, pending
  <2>5. /\ \A k \in Ids \ {new} : events'[k] = events[k]
        /\ events'[new] = v
    BY <1>2, <2>1, <2>4
  <2>6. LiveFiled'
    <3> SUFFICES ASSUME NEW k \in Ids, events'[k].state \in Live
                 PROVE  \E j \in Ids \ todo' : file[j] = events'[k]
      BY <1>2 DEF LiveFiled
    <3>1. CASE k = new
      BY <1>1, <1>2, <2>2, <2>5, <3>1
    <3>2. CASE k # new
      BY <1>1, <1>2, <1>3, <2>5, <3>2 DEF LiveFiled
    <3> QED
      BY <3>1, <3>2
  <2>7. Held'
    <3> SUFFICES ASSUME NEW j \in Ids \ todo', Awaited(file[j])
                 PROVE  \E k \in Ids : \/ events'[k] = file[j]
                                       \/ /\ events'[k].timer = file[j].timer
                                          /\ events'[k].state \in {"HASFINISHED", "TERMINATED"}
      BY <1>2 DEF Held, Awaited
    <3>1. CASE j = i
      BY <1>4, <2>1, <2>3, <2>5, <3>1
    <3>2. CASE j # i
      <4>1. PICK k \in Ids : \/ events[k] = file[j]
                             \/ /\ events[k].timer = file[j].timer
                                /\ events[k].state \in {"HASFINISHED", "TERMINATED"}
        BY <1>1, <1>3, <3>2 DEF Held
      <4>2. k # new
        BY <2>1, <4>1 DEF NoEvent, Awaited
      <4> QED
        BY <2>5, <4>1, <4>2
    <3> QED
      BY <3>1, <3>2
  <2> QED
    BY <2>6, <2>7
<1> QED
  BY <1>5, <1>6

LEMMA CancelThreadMirror ==
    ASSUME IInv, Phases, Mirror, CancelThread PROVE Mirror'
<1> SUFFICES ASSUME ~m_saveEvents', ~stuck'
             PROVE  /\ ~m_isTimeSet' => events' = NoEvents
                    /\ m_isTimeSet' /\ thread' \in {"load", "dead"} => LiveFiled' /\ Held'
  BY DEF Mirror
<1>1. /\ UNCHANGED <<events, file, m_isTimeSet, m_saveEvents, todo, now>>
      /\ thread \in {"wait", "load"} /\ power = "on"
  BY DEF CancelThread, conf, manager, clock
<1>2. ~stuck
  BY <1>1 DEF Phases
<1>3. ASSUME m_isTimeSet, thread = "wait" PROVE LiveFiled /\ Held
  <2>1. \A i \in Ids : \/ file[i] = events[i]
                       \/ /\ events[i].state \in {"HASFINISHED", "TERMINATED"}
                          /\ file[i].timer = events[i].timer
    BY <1>1, <1>3 DEF IInv, SavedUnlessDirty
  <2>2. todo = {}
    BY <1>3 DEF Phases
  <2> QED
    BY <2>1, <2>2 DEF LiveFiled, Held, Live
<1>4. LiveFiled => LiveFiled'
  BY <1>1 DEF LiveFiled
<1>5. Held => Held'
  BY <1>1 DEF Held, Awaited
<1> QED
  BY <1>1, <1>2, <1>3, <1>4, <1>5 DEF Mirror

LEMMA MirrorNext == IInv /\ Phases /\ Mirror /\ [Next]_vars => Mirror'
<1> SUFFICES ASSUME IInv, Phases, Mirror, [Next]_vars PROVE Mirror'
  OBVIOUS
<1>a. ASSUME UNCHANGED <<events, file, m_isTimeSet, m_saveEvents, todo, stuck, thread>>,
             now' = now \/ now' = now + 1
      PROVE  Mirror'
  <2>1. LiveFiled => LiveFiled'
    BY <1>a DEF LiveFiled
  <2>2. Held => Held'
    <3>1. file \in [Ids -> Event] /\ now \in Nat
      BY DEF IInv, TypeOK
    <3>2. \A j \in Ids : Awaited(file[j])' => Awaited(file[j])
      BY <1>a, <3>1 DEF Awaited, Event
    <3> QED
      BY <1>a, <3>2 DEF Held
  <2> QED
    BY <1>a, <2>1, <2>2 DEF Mirror
<1>b. ASSUME m_isTimeSet', thread' \notin {"load", "dead"} PROVE Mirror'
  BY <1>b DEF Mirror
<1>1. CASE \E t \in Timers : AddEvent(t)
  BY <1>1 DEF AddEvent, Mirror
<1>2. CASE \E i \in Ids : RemoveEvent(i) \/ StopEvent(i)
  <2>1. PICK i \in Ids : RemoveEvent(i) \/ StopEvent(i)
    BY <1>2
  <2>2. CASE RemoveEvent(i)
    BY <2>2, EndEventMirror DEF RemoveEvent
  <2>3. CASE StopEvent(i)
    BY <2>3, EndEventMirror DEF StopEvent, user
  <2> QED
    BY <2>1, <2>2, <2>3
<1>3. CASE \E i \in Ids, d \in Edits : ModifyEvent(i, d)
  BY <1>3 DEF ModifyEvent, Mirror
<1>4. CASE \E pre \in {0, PreTime} : SetRecordingSafety(pre)
  BY <1>4 DEF SetRecordingSafety, Mirror
<1>5. CASE SeeTimeSet
  BY <1>5, SeeTimeSetMirror
<1>6. CASE LoadEvent
  BY <1>6, LoadEventMirror
<1>7. CASE LoadDone \/ BeginPass \/ EndPass
  <2>1. m_isTimeSet' /\ thread' \notin {"load", "dead"}
    BY <1>7 DEF LoadDone, BeginPass, EndPass, Phases, manager, IInv, TypeOK
  <2> QED
    BY <1>b, <2>1
<1>8. CASE CheckEvent
  <2>1. m_isTimeSet' /\ thread' \notin {"load", "dead"}
    BY <1>8 DEF CheckEvent, Phases, IInv, TypeOK
  <2> QED
    BY <1>b, <2>1
<1>9. CASE SaveEvents \/ ClearSaveEvents
  <2>1. m_isTimeSet' /\ thread' \notin {"load", "dead"}
    BY <1>9 DEF SaveEvents, ClearSaveEvents, Phases, manager, IInv, TypeOK
  <2> QED
    BY <1>b, <2>1
<1>10. CASE CancelThread
  BY <1>10, CancelThreadMirror
<1>11. CASE Shutdown \/ PowerLoss
  BY <1>11 DEF Shutdown, PowerLoss, MemoryLost, Mirror
<1>12. CASE Boot
  BY <1>12, <1>a DEF Boot, conf, loop
<1>13. CASE Tick \/ TimeSet
  BY <1>13, <1>a DEF Tick, TimeSet, manager, conf, loop
<1>14. CASE UNCHANGED vars
  BY <1>14, <1>a DEF vars, clock, manager, conf, loop
<1> QED
  BY <1>1, <1>2, <1>3, <1>4, <1>5, <1>6, <1>7, <1>8, <1>9, <1>10, <1>11, <1>12, <1>13,
     <1>14 DEF Next

WInv == IInv /\ Phases /\ AllTimely /\ Mirror

\* What the wake-up rests on: after the thread is gone, with nothing to be saved, the map
\* and the file say the same of every timer to come, wherever the thread was cancelled.
THEOREM MapAndFileAgree == Spec => []WInv
<1>1. Init => WInv
  <2> SUFFICES ASSUME Init PROVE WInv
    OBVIOUS
  <2>1. IInv
    BY InitInv
  <2>2. Phases /\ Mirror
    BY DEF Init, Phases, Mirror
  <2>3. AllTimely
    BY FreeTimely DEF Init, AllTimely
  <2> QED
    BY <2>1, <2>2, <2>3 DEF WInv
<1>2. WInv /\ [Next]_vars => WInv'
  BY NextInv, PhasesNext, TimelyNext, MirrorNext DEF WInv, IInv
<1> QED
  BY <1>1, <1>2, PTL DEF Spec

\* A shutdown that has something to wake up for wakes up early enough.
LEMMA WakeUp ==
    ASSUME IInv, AllTimely, Shutdown, ~stuck, NEW i \in Pending
    PROVE  wakeAt' # 0 /\ wakeAt' <= events[i].announce - WakeLead
<1>1. PICK k \in Pending :
         /\ \A j \in Pending : events[k].announce <= events[j].announce
         /\ wakeAt' = events[k].announce - WakeLead
  BY DEF Shutdown
<1>2. events \in [Ids -> Event] /\ k \in Ids /\ i \in Ids
  BY DEF IInv, TypeOK, Pending
<1>3. events[k].announce > WakeLead
  BY <1>2 DEF AllTimely, Timely, Pending
<1>4. events[k].announce \in Int /\ events[i].announce \in Int
  BY <1>2 DEF Event
<1> QED
  BY <1>1, <1>3, <1>4 DEF WakeLead

\* An orderly shutdown loses no recording or zap to come, and the box wakes up before each
\* one that the file holds (timermanager.cpp, shutdown and the loop of timerThread that
\* saves; timerd.cpp, shutdown).
THEOREM WakeUpInTime == Spec => WakesForTimers
<1> DEFINE Wakes ==
        Shutdown /\ Loaded /\ ~stuck
        => /\ \A i \in Ids : Awaited(events[i]) => \E j \in Ids : file'[j] = events[i]
           /\ \A i \in Ids : Awaited(file'[i]) /\ ~JustEnded(file'[i].timer)
                             => wakeAt' # 0 /\ wakeAt' <= file'[i].announce - WakeLead
<1>1. WInv => [Wakes]_vars
  <2> SUFFICES ASSUME WInv, Shutdown, Loaded, ~stuck
               PROVE  /\ \A i \in Ids : Awaited(events[i]) => \E j \in Ids : file'[j] = events[i]
                      /\ \A i \in Ids : Awaited(file'[i]) /\ ~JustEnded(file'[i].timer)
                                        => wakeAt' # 0 /\ wakeAt' <= file'[i].announce - WakeLead
    OBVIOUS
  <2>1. \A i \in Ids : Awaited(events[i]) => wakeAt' # 0 /\ wakeAt' <= events[i].announce - WakeLead
    BY WakeUp DEF WInv, Awaited, Pending
  <2>2. CASE m_saveEvents
    <3>1. file' = events
      BY <2>2 DEF Shutdown
    <3> QED
      BY <2>1, <3>1
  <2>3. CASE ~m_saveEvents
    <3>1. file' = file /\ todo = {} /\ LiveFiled /\ Held
      BY <2>3 DEF Shutdown, Loaded, WInv, Mirror, Phases
    <3>2. \A i \in Ids : Awaited(events[i]) => \E j \in Ids : file'[j] = events[i]
      BY <3>1 DEF LiveFiled, Awaited, Live
    <3>3. \A i \in Ids : Awaited(file'[i]) /\ ~JustEnded(file'[i].timer)
                         => wakeAt' # 0 /\ wakeAt' <= file'[i].announce - WakeLead
      BY <2>1, <3>1 DEF Held, JustEnded, Present
    <3> QED
      BY <3>2, <3>3
  <2> QED
    BY <2>2, <2>3
<1> QED
  BY <1>1, MapAndFileAgree, PTL DEF WakesForTimers

=============================================================================
