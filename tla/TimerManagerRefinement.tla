----------------------- MODULE TimerManagerRefinement -----------------------
(***************************************************************************)
(* TimerManager implements RecordTimer, for every set of timers, every     *)
(* request and edit, every period and every bound.                         *)
(*                                                                         *)
(* While the program runs, an identifier given before a step keeps the     *)
(* type of its event or becomes no recording, neutrino is told to start    *)
(* only a recording that was waiting, with a stop time or without, and a   *)
(* recording runs unasked only if it did so before: this is Kept, shown    *)
(* for every action.  The rest follows from the inductive invariant.       *)
(***************************************************************************)
EXTENDS TimerManagerProofs

Kept(i) ==
    /\ events'[i].type \in {events[i].type, "shutdown"}
    /\ i \in endless => i \in endless'
    /\ i \in (recording' \ recording) \cup (endless' \ endless)
       => /\ events[i].type = "record"
          /\ events[i].state \in {"SCHEDULED", "PREANNOUNCE"}
    /\ i \notin recording' /\ Runs(events'[i])
       => i \notin recording /\ Runs(events[i])

\* What a step of the running program leaves of the identifiers it has given.
KeepsIds == /\ eventID <= eventID'
            /\ \A i \in endless' : i <= eventID
            /\ \A i \in Ids : i <= eventID => Kept(i)

-----------------------------------------------------------------------------
\* An identifier without stop time was given before.
LEMMA EndlessGiven == IInv => \A i \in endless : i <= eventID
BY DEF IInv, TypeOK, FreshIds, Ids

LEMMA KeptSame ==
    ASSUME NEW i \in Ids, events'[i] = events[i],
           i \in recording' <=> i \in recording,
           i \in endless' <=> i \in endless
    PROVE  Kept(i)
BY DEF Kept

LEMMA KeptAll ==
    ASSUME IInv, UNCHANGED <<events, asked, eventID>>
    PROVE  KeepsIds
BY KeptSame, EndlessGiven DEF KeepsIds, IInv, TypeOK, asked

\* An event is added: every other identifier is as it was.
LEMMA KeptNew ==
    ASSUME IInv, NEW v, eventID < MaxId, eventID' = eventID + 1,
           events' = [events EXCEPT ![eventID + 1] = v],
           recording' \in {recording, recording \cup {eventID + 1}}, endless' = endless
    PROVE  KeepsIds
<1>1. eventID \in 0 .. MaxId /\ events \in [Ids -> Event]
  BY DEF IInv, TypeOK
<1>2. ASSUME NEW i \in Ids, i <= eventID PROVE Kept(i)
  <2>1. i # eventID + 1
    BY <1>1, <1>2 DEF Ids
  <2>2. events'[i] = events[i] /\ (i \in recording' <=> i \in recording)
    BY <1>1, <2>1
  <2> QED
    BY <2>2, KeptSame
<1> QED
  BY <1>1, <1>2, EndlessGiven DEF KeepsIds

\* A recording ends, its event having become v, and a shutdown event may be added.
LEMMA KeptStopped ==
    ASSUME IInv, NEW i \in Ids, eventID < MaxId, NEW v, NEW changed,
           StopRecording(i, [events EXCEPT ![i] = v], changed),
           v.type \in {events[i].type, "shutdown"}, ~Runs(v)
    PROVE  KeepsIds
<1> DEFINE map == [events EXCEPT ![i] = v]
<1>1. eventID \in 0 .. MaxId /\ events \in [Ids -> Event]
  BY DEF IInv, TypeOK
<1>2. /\ recording' = recording \ {i} /\ endless' = endless
      /\ eventID' \in {eventID, eventID + 1}
      /\ events' \in {map, [map EXCEPT ![eventID + 1] = ShutdownEvent]}
  BY DEF StopRecording
<1>3. ASSUME NEW j \in Ids, j <= eventID PROVE Kept(j)
  <2>1. j # eventID + 1
    BY <1>1, <1>3 DEF Ids
  <2>2. events'[j] = map[j]
    BY <1>1, <1>2, <2>1
  <2>3. CASE j = i
    <3>1. events'[i] = v
      BY <1>1, <2>2, <2>3
    <3> QED
      BY <1>2, <2>3, <3>1 DEF Kept
  <2>4. CASE j # i
    <3>1. events'[j] = events[j]
      BY <1>1, <2>2, <2>4
    <3> QED
      BY <1>2, <2>4, <3>1, KeptSame
  <2> QED
    BY <2>3, <2>4
<1> QED
  BY <1>1, <1>2, <1>3, EndlessGiven DEF KeepsIds

\* One event becomes v and neutrino is told nothing of the others.
LEMMA KeptUpdate ==
    ASSUME IInv, NEW i \in Ids, i <= eventID, NEW v, eventID' = eventID,
           events' = [events EXCEPT ![i] = v],
           recording' \in {recording, recording \cup {i}},
           endless' \in {endless, endless \cup {i}},
           v.type \in {events[i].type, "shutdown"},
           i \in (recording' \ recording) \cup (endless' \ endless)
             => /\ events[i].type = "record"
                /\ events[i].state \in {"SCHEDULED", "PREANNOUNCE"},
           i \notin recording' /\ Runs(v) => Runs(events[i])
    PROVE  KeepsIds
<1>1. eventID \in 0 .. MaxId /\ events \in [Ids -> Event]
  BY DEF IInv, TypeOK
<1>2. ASSUME NEW j \in Ids, j <= eventID PROVE Kept(j)
  <2>1. CASE j = i
    <3>1. events'[i] = v
      BY <1>1
    <3> QED
      BY <2>1, <3>1 DEF Kept
  <2>2. CASE j # i
    <3>1. /\ events'[j] = events[j] /\ (j \in recording' <=> j \in recording)
          /\ j \in endless' <=> j \in endless
      BY <1>1, <2>2
    <3> QED
      BY <3>1, KeptSame
  <2> QED
    BY <2>1, <2>2
<1> QED
  BY <1>1, <1>2, EndlessGiven DEF KeepsIds

-----------------------------------------------------------------------------
(* The actions that change the map. *)

LEMMA AddEventKeeps ==
    ASSUME IInv, NEW t \in Timers, AddEvent(t) PROVE KeepsIds
BY KeptNew DEF AddEvent

LEMMA EndEventKeeps ==
    ASSUME IInv, NEW i \in Ids, NEW state \in {"TERMINATED", "HASFINISHED"},
           EndEvent(i, state)
    PROVE  KeepsIds
<1> DEFINE v == [events[i] EXCEPT !.state = state]
<1>1. /\ events \in [Ids -> Event] /\ events[i] \in Event
      /\ [events EXCEPT ![i].state = state] = [events EXCEPT ![i] = v]
  BY DEF IInv, TypeOK
<1>2. v.type = events[i].type /\ ~Runs(v) /\ (i \in Present => i <= eventID)
  BY <1>1 DEF Event, Runs, IInv, FreshIds, Present, NoEvent, TypeOK, Ids
<1> HIDE DEF v
<1>3. CASE Runs(events[i]) /\ events[i].stop > 0
  <2>1. StopRecording(i, [events EXCEPT ![i] = v], FALSE) /\ eventID < MaxId
    BY <1>1, <1>3 DEF EndEvent
  <2> QED
    BY <1>2, <2>1, KeptStopped
<1>4. CASE ~(Runs(events[i]) /\ events[i].stop > 0)
  <2>1. /\ events' = [events EXCEPT ![i] = v]
        /\ UNCHANGED <<recording, endless, eventID>> /\ i \in Present
    BY <1>1, <1>4 DEF EndEvent, asked
  <2> QED
    BY <1>2, <2>1, KeptUpdate
<1> QED
  BY <1>3, <1>4

LEMMA ModifyEventKeeps ==
    ASSUME IInv, NEW i \in Ids, NEW d \in Edits, ModifyEvent(i, d) PROVE KeepsIds
<1> DEFINE v == Edited(events[i], d)
<1>1. events[i] \in Event
  BY DEF IInv, TypeOK
<1>2. v.type = events[i].type /\ (Runs(v) => Runs(events[i]))
  BY <1>1 DEF Edited, Event, Runs
<1>3. /\ events' = [events EXCEPT ![i] = v]
      /\ UNCHANGED <<recording, endless, eventID>> /\ i \in Present
  BY DEF ModifyEvent, asked
<1>4. i <= eventID
  BY <1>3 DEF IInv, FreshIds, Present, NoEvent, TypeOK, Ids
<1> HIDE DEF v
<1> QED
  BY <1>2, <1>3, <1>4, KeptUpdate

LEMMA LoadEventKeeps == ASSUME IInv, LoadEvent PROVE KeepsIds
<1>1. UNCHANGED asked /\ recording' = recording /\ endless' = endless
  BY DEF LoadEvent, asked
<1>2. \/ UNCHANGED <<eventID, events>>
      \/ \E v : /\ eventID < MaxId
                /\ eventID' = eventID + 1
                /\ events' = [events EXCEPT ![eventID + 1] = v]
  BY DEF LoadEvent
<1> QED
  BY <1>1, <1>2, KeptAll, KeptNew

\* A turn of the loop keeps the type of an event it does not delete; a recording
\* that runs after it ran before or fires now, and does not stop now.
LEMMA CheckedKeeps ==
    ASSUME NEW e \in Event
    PROVE  /\ Checked(e).type \in {e.type, "shutdown"}
           /\ Runs(Checked(e)) => /\ Runs(e) \/ (Fires(Announce(e)) /\ e.type = "record")
                                  /\ ~Stops(Fire(Announce(e)))
<1> DEFINE a == Announce(e)
           f == Fire(a)
           s == Stop(f)
           t == Finish(s)
<1>1. a \in Event /\ a.type = e.type /\ (a.state = "ISRUNNING" <=> e.state = "ISRUNNING")
  BY DEF Announce, Event, States
<1> HIDE DEF a
<1>2. f \in Event /\ f.type = a.type /\ (f.state = "ISRUNNING" => a.state = "ISRUNNING" \/ Fires(a))
  BY <1>1 DEF Fire, Event, States
<1> HIDE DEF f
<1>3. s \in Event /\ s.type = f.type /\ (s.state = "ISRUNNING" => f.state = "ISRUNNING" /\ ~Stops(f))
  BY <1>2 DEF Stop, Event, States
<1> HIDE DEF s
<1>4. t.type = s.type /\ (t.state = "ISRUNNING" => s.state = "ISRUNNING")
  BY <1>3 DEF Finish, Reschedule, Event, States
<1> HIDE DEF t
<1>5. Checked(e) = Delete(t)
  BY DEF Checked, a, f, s, t
<1>6. Delete(t).type \in {t.type, "shutdown"}
  BY DEF Delete, NoEvent
<1>7. Runs(Delete(t)) => Delete(t) = t
  BY DEF Delete, NoEvent, Runs
<1>8. Announce(e) = a /\ Fire(a) = f
  BY DEF a, f
<1> QED
  BY <1>1, <1>2, <1>3, <1>4, <1>5, <1>6, <1>7, <1>8 DEF Runs

LEMMA CheckEventKeeps == ASSUME IInv, CheckEvent PROVE KeepsIds
<1>1. PICK i \in First(Ahead) :
         IF Stops(Fire(Announce(events[i]))) /\ events[i].type = "record"
         THEN StopRecording(i, [events EXCEPT ![i] = Checked(events[i])], TRUE)
         ELSE LET starts == IF Fires(Announce(events[i])) /\ events[i].type = "record"
                            THEN {i} ELSE {}
              IN  /\ events' = [events EXCEPT ![i] = Checked(events[i])]
                  /\ recording' = recording \cup starts
                  /\ endless' = IF events[i].stop = 0 THEN endless \cup starts ELSE endless
                  /\ eventID' = eventID
  BY DEF CheckEvent
<1> DEFINE e == events[i]
           v == Checked(e)
           starts == IF Fires(Announce(e)) /\ e.type = "record" THEN {i} ELSE {}
<1>2. i \in Ids /\ eventID < MaxId /\ i <= eventID
  BY DEF First, Ahead, Present, CheckEvent, IInv, TypeOK, FreshIds, NoEvent, Ids
<1>3. e \in Event
  BY <1>2 DEF IInv, TypeOK
<1>4. /\ v.type \in {e.type, "shutdown"}
      /\ Runs(v) => /\ Runs(e) \/ (Fires(Announce(e)) /\ e.type = "record")
                    /\ ~Stops(Fire(Announce(e)))
  BY <1>3, CheckedKeeps
<1>5. Fires(Announce(e)) => e.state \in {"SCHEDULED", "PREANNOUNCE"}
  BY <1>3 DEF Fires, Announce, Event
<1> HIDE DEF v
<1>6. CASE Stops(Fire(Announce(e))) /\ e.type = "record"
  <2>1. StopRecording(i, [events EXCEPT ![i] = v], TRUE)
    BY <1>1, <1>6 DEF v
  <2> QED
    BY <1>2, <1>4, <1>6, <2>1, KeptStopped
<1>7. CASE ~(Stops(Fire(Announce(e))) /\ e.type = "record")
  <2>1. /\ events' = [events EXCEPT ![i] = v]
        /\ recording' = recording \cup starts
        /\ endless' = IF e.stop = 0 THEN endless \cup starts ELSE endless
        /\ eventID' = eventID
    BY <1>1, <1>7 DEF v
  <2>2. /\ starts \in {{}, {i}}
        /\ i \in starts => e.type = "record" /\ e.state \in {"SCHEDULED", "PREANNOUNCE"}
    BY <1>5
  <2>3. Runs(v) => Runs(e) \/ i \in starts
    BY <1>4
  <2> HIDE DEF starts
  <2>4. /\ recording' \in {recording, recording \cup {i}}
        /\ endless' \in {endless, endless \cup {i}}
    BY <2>1, <2>2
  <2>5. i \in (recording' \ recording) \cup (endless' \ endless)
          => e.type = "record" /\ e.state \in {"SCHEDULED", "PREANNOUNCE"}
    BY <2>1, <2>2
  <2>6. i \notin recording' /\ Runs(v) => Runs(e)
    BY <2>1, <2>3
  <2> QED
    BY <1>2, <1>4, <2>1, <2>4, <2>5, <2>6, KeptUpdate
<1> QED
  BY <1>6, <1>7

-----------------------------------------------------------------------------
(* Steps. *)

\* The memory is gone: every identifier is unused again.
LEMMA MemoryLostGoesDown ==
    ASSUME MemoryLost PROVE \A i \in Ids : StatusOf(i)' = "unused"
BY DEF MemoryLost, StatusOf, Ids

\* Kept identifiers, and those given in the step, make the moves that RecordTimer
\* allows.
LEMMA KeptMoves ==
    ASSUME IInv, IInv', KeepsIds, NEW i \in Ids
    PROVE  \/ StatusOf(i)' = StatusOf(i)
           \/ <<StatusOf(i), StatusOf(i)'>> \in RecordTimers!Moves
<1>1. /\ i \in recording /\ i \notin endless => Runs(events[i])
      /\ i \in recording' /\ i \notin endless' => Runs(events'[i])
  BY DEF IInv, RecordingIsRunning, Runs
<1>2. eventID \in Nat /\ eventID' \in Nat /\ i \in Int /\ eventID <= eventID'
  BY DEF IInv, TypeOK, KeepsIds, Ids
<1>3. CASE i > eventID
  <2>1. StatusOf(i) = "unused"
    BY <1>3 DEF StatusOf
  <2>2. i \notin endless'
    BY <1>2, <1>3 DEF KeepsIds
  <2>3. StatusOf(i)' \in {"unused", "asked", "unasked", "other", "waiting", "ended"}
    BY <1>1, <2>2 DEF StatusOf, Runs
  <2> QED
    BY <2>1, <2>3 DEF RecordTimers!Moves
<1>4. CASE i <= eventID
  <2>1. ~(i > eventID) /\ ~(i > eventID')
    BY <1>2, <1>4
  <2>2. Kept(i)
    BY <1>4 DEF KeepsIds
  <2>3. CASE i \in endless
    BY <2>1, <2>2, <2>3 DEF StatusOf, Kept
  <2>4. CASE i \in recording /\ i \notin endless
    <3>1. StatusOf(i) = "asked"
      BY <1>1, <2>1, <2>4 DEF StatusOf, Runs
    <3>2. StatusOf(i)' \in {"asked", "other", "waiting", "ended"}
      BY <1>1, <2>1, <2>2, <2>4 DEF StatusOf, Runs, Kept
    <3> QED
      BY <3>1, <3>2 DEF RecordTimers!Moves
  <2>5. CASE i \notin recording \cup endless /\ Runs(events[i])
    <3>1. StatusOf(i) = "unasked"
      BY <2>1, <2>5 DEF StatusOf, Runs
    <3>2. StatusOf(i)' \in {"unasked", "other", "waiting", "ended"}
      BY <1>1, <2>1, <2>2, <2>5 DEF StatusOf, Runs, Kept
    <3> QED
      BY <3>1, <3>2 DEF RecordTimers!Moves
  <2>6. CASE i \notin recording \cup endless /\ events[i].type # "record"
    <3>1. StatusOf(i) = "other"
      BY <2>1, <2>6 DEF StatusOf, Runs
    <3>2. i \notin recording' /\ i \notin endless' /\ events'[i].type # "record"
      BY <2>2, <2>6 DEF Kept
    <3>3. StatusOf(i)' = "other"
      BY <2>1, <3>2 DEF StatusOf, Runs
    <3> QED
      BY <3>1, <3>3
  <2>7. CASE /\ i \notin recording \cup endless /\ events[i].type = "record"
             /\ events[i].state \in {"SCHEDULED", "PREANNOUNCE"}
    <3>1. StatusOf(i) = "waiting"
      BY <2>1, <2>7 DEF StatusOf, Runs
    <3>2. Runs(events'[i]) => i \in recording'
      BY <2>2, <2>7 DEF Kept, Runs
    <3>3. StatusOf(i)' \in {"waiting", "asked", "endless", "other", "ended"}
      BY <1>1, <2>1, <3>2 DEF StatusOf
    <3> QED
      BY <3>1, <3>3 DEF RecordTimers!Moves
  <2>8. CASE /\ i \notin recording \cup endless
             /\ events[i].type = "record" /\ ~Runs(events[i])
             /\ events[i].state \notin {"SCHEDULED", "PREANNOUNCE"}
    <3>1. StatusOf(i) = "ended"
      BY <2>1, <2>8 DEF StatusOf, Runs
    <3>2. StatusOf(i)' \in {"waiting", "other", "ended"}
      BY <1>1, <2>1, <2>2, <2>8 DEF StatusOf, Runs, Kept
    <3> QED
      BY <3>1, <3>2 DEF RecordTimers!Moves
  <2> QED
    BY <2>3, <2>4, <2>5, <2>6, <2>7, <2>8 DEF Runs
<1> QED
  BY <1>2, <1>3, <1>4

LEMMA NextKeeps ==
    ASSUME IInv, [Next]_vars PROVE KeepsIds \/ MemoryLost
<1>1. CASE \E t \in Timers : AddEvent(t)
  BY <1>1, AddEventKeeps
<1>2. CASE \E i \in Ids : RemoveEvent(i) \/ StopEvent(i)
  BY <1>2, EndEventKeeps DEF RemoveEvent, StopEvent
<1>3. CASE \E i \in Ids, d \in Edits : ModifyEvent(i, d)
  BY <1>3, ModifyEventKeeps
<1>4. CASE \/ \E pre \in {0, PreTime} : SetRecordingSafety(pre)
           \/ SeeTimeSet \/ LoadDone \/ BeginPass \/ EndPass
           \/ SaveEvents \/ ClearSaveEvents \/ CancelThread \/ Boot
           \/ Tick \/ TimeSet \/ UNCHANGED vars
  <2>1. UNCHANGED <<events, asked, eventID>>
    BY <1>4 DEF SetRecordingSafety, SeeTimeSet, LoadDone, BeginPass, EndPass,
                SaveEvents, ClearSaveEvents, CancelThread, Boot, Tick, TimeSet,
                vars, manager
  <2> QED
    BY <2>1, KeptAll
<1>5. CASE LoadEvent \/ CheckEvent
  BY <1>5, LoadEventKeeps, CheckEventKeeps
<1>6. CASE Shutdown \/ PowerLoss
  BY <1>6 DEF Shutdown, PowerLoss
<1> QED
  BY <1>1, <1>2, <1>3, <1>4, <1>5, <1>6 DEF Next

-----------------------------------------------------------------------------
(* The refinement. *)

LEMMA InitRefines == Init => RecordTimers!Init
BY DEF Init, RecordTimers!Init, StatusOf, Ids

LEMMA NextRefines == IInv /\ IInv' /\ [Next]_vars => RecordTimers!Next
<1> SUFFICES ASSUME IInv, IInv', [Next]_vars
             PROVE  RecordTimers!Next
  OBVIOUS
<1>1. ASSUME MemoryLost PROVE RecordTimers!GoDown
  BY <1>1, MemoryLostGoesDown DEF RecordTimers!GoDown
<1>2. ASSUME KeepsIds PROVE RecordTimers!Move
  BY <1>2, KeptMoves DEF RecordTimers!Move
<1> QED
  BY <1>1, <1>2, NextKeeps DEF RecordTimers!Next

\* timerd keeps its promise to neutrino: an identifier is given once in a boot, a
\* recording is asked for only while it waits, and one with a stop time leaves the
\* recordings that neutrino makes only with the message that stops it (timermanager.cpp,
\* timerThread, addEvent, removeEvent, stopEvent, modifyEvent, loadEventsFromConfig).
THEOREM Refinement == Spec => ImplementsRecordTimer
BY InitRefines, NextRefines, Invariance, PTL
   DEF Spec, ImplementsRecordTimer, RecordTimers!Spec

\* No recording that neutrino makes, and that was started with a stop time, is one that
\* timerd does not know to be running.
THEOREM NothingLostInTimerd == Spec => []RecordTimers!NothingLost
<1>1. IInv => RecordTimers!NothingLost
  BY DEF IInv, RecordingIsRunning, RecordTimers!NothingLost, StatusOf
<1> QED
  BY <1>1, Invariance, PTL

=============================================================================
