----------------------------- MODULE CurrentNext -----------------------------
(***************************************************************************)
(* sectionsd's present and following events: cnThread, setServiceChanged,  *)
(* addEvent and getCurrentNextServiceKey (src/neutrino2/src/sectionsd/     *)
(* sectionsd.cpp) and the demultiplexer dmxCN (dmx.cpp).                   *)
(*                                                                         *)
(* Three parties share this state under three locks, none of which covers  *)
(* a whole operation: cnThread reads sections and stores the two events of *)
(* the service that is watched; the threads that zap name that service;    *)
(* the housekeeping thread sees that the programme has moved on.  A step   *)
(* of this module is what one of them does under one lock.                 *)
(*                                                                         *)
(* Every channel is alone on its transponder.  Blacklists, pauses of the   *)
(* scan and the other six threads of sectionsd are left out.               *)
(***************************************************************************)
EXTENDS Naturals, Sequences

CONSTANTS
    Channels,
    HasEpg,      \* the channels that broadcast present and following events
    LastProgram, \* bound on the programmes of a channel
    MaxQueue     \* bound on the messages waiting for the GUI thread

ASSUME EpgAssumption   == HasEpg \subseteq Channels
ASSUME BoundAssumption == LastProgram \in Nat /\ MaxQueue \in Nat \ {0}

\* The n-th programme of a channel, and a section that carries it.
Event   == [ch : Channels, n : 0 .. LastProgram + 1]
Kinds   == {"current", "next"}
Section == [kind : Kinds, event : Event]

CONSTANT None
ASSUME NoneAssumption == None \notin Channels \cup Event \cup Section \cup Nat

VARIABLES
    live,        \* the channel zapit has tuned to
    program,     \* the programme each channel broadcasts now
    queue,       \* messages sent to the GUI thread over the event socket
    key,         \* messaging_current_servicekey
    have,        \* messaging_have_CN: the events the GUI was told of
    got,         \* messaging_got_CN: the events that were stored
    needVersion, \* messaging_need_eit_version
    busy,        \* messaging_eit_is_busy
    current,     \* myCurrentEvent
    next,        \* myNextEvent
    service,     \* dmxCN.current_service
    version,     \* dmxCN.eit_version, None for 0xff
    filter,      \* the event behind eit_update_fd, None while it is -1
    thread,      \* where cnThread is
    section,     \* the section in its buffer, None once it was looked at
    sleepNow,    \* sendToSleepNow
    update,      \* the housekeeping thread has reset the flags and will call change
    caller       \* where each thread is in setServiceChanged

messaging == <<key, have, got, needVersion>>
dmxCN     == <<service, version>>
cn        == <<thread, section, sleepNow, busy, filter>>
epgVars   == <<program, messaging, current, next, dmxCN, cn, update, caller>>

CnStates ==
    {"read",    \* in getSection and the test of the EIT version after it
     "report",  \* about to compare got and have and to tell the GUI
     "pause",   \* has decided to sleep
     "enter",   \* has paused the demultiplexer, not yet in pthread_cond_wait
     "wait",    \* in pthread_cond_wait
     "woken",   \* signalled
     "parse",   \* about to look at the section in its buffer
     "store"}   \* the section was found to be of the service, not yet stored

Callers == {"gui", "web"}

\* Not called, or about to clear the events, to set the key, to restart dmxCN.
CallSteps == {"idle", "clear", "key", "change"}

\* The programme that follows is broadcast as the next one.
OnAir(ch)     == [ch |-> ch, n |-> program[ch]]
Following(ch) == [ch |-> ch, n |-> program[ch] + 1]

Send(m, ch) == Append(queue, [msg |-> m, ch |-> ch])

-----------------------------------------------------------------------------
(* dmxCN. *)

\* A faulty Change: the thread that waits is not signalled.
ChangeUnsignalled(ch) ==
    /\ service' = ch
    /\ version' = None
    /\ UNCHANGED thread

\* DMX::change: restarts the section filter, so that the version is unknown, and
\* signals the condition; nobody hears that who does not wait yet.
Change(ch) ==
    /\ service' = ch
    /\ version' = None
    /\ thread' = IF thread = "wait" THEN "woken" ELSE thread

-----------------------------------------------------------------------------
(* setServiceChanged, called by the GUI and the web server thread. *)

\* A call that has returned; some callers call again.
Returned     == [step |-> "idle", ch |-> None, again |-> FALSE]
NextCall(c)  == IF c.again THEN [c EXCEPT !.step = "clear", !.again = FALSE] ELSE Returned
Call(ch)     == [step |-> "clear", ch |-> ch, again |-> FALSE]
CallTwice(ch) == [Call(ch) EXCEPT !.again = TRUE]

\* Nothing is done for the service that is already watched.
ClearEvents(t) ==
    /\ caller[t].step = "clear"
    /\ IF key = caller[t].ch
       THEN /\ caller' = [caller EXCEPT ![t] = NextCall(@)]
            /\ UNCHANGED <<current, next>>
       ELSE /\ caller' = [caller EXCEPT ![t].step = "key"]
            /\ current' = None
            /\ next' = None
    /\ UNCHANGED <<live, program, queue, messaging, dmxCN, cn, update>>

\* An event stored since ClearEvents is now one of another service.
SetKey(t) ==
    /\ caller[t].step = "key"
    /\ caller' = [caller EXCEPT ![t].step = "change"]
    /\ key' = caller[t].ch
    /\ have' = {} /\ got' = {}
    /\ needVersion' = FALSE
    /\ UNCHANGED <<live, program, queue, current, next, dmxCN, cn, update>>

\* The service is read from the key, which another thread may have set since.
ChangeService(t) ==
    /\ caller[t].step = "change"
    /\ caller' = [caller EXCEPT ![t] = NextCall(@)]
    /\ Change(key)
    /\ UNCHANGED <<live, program, queue, messaging, current, next, section, sleepNow,
                   busy, filter, update>>

SetServiceChanged(t) == ClearEvents(t) \/ SetKey(t) \/ ChangeService(t)

-----------------------------------------------------------------------------
(* cnThread. *)

\* getSection, then the test of the EIT version.
SawVersion(v) ==
    IF v # None
    THEN needVersion' = FALSE /\ UNCHANGED sleepNow
    ELSE /\ needVersion' = TRUE
         /\ sleepNow' = IF needVersion THEN sleepNow ELSE FALSE

\* A section of the transponder arrives.
ReadSection(kind) ==
    /\ thread = "read"
    /\ live \in HasEpg
    /\ section' = [kind  |-> kind,
                   event |-> IF kind = "current" THEN OnAir(live) ELSE Following(live)]
    /\ version' = IF live = service THEN program[live] ELSE version
    /\ SawVersion(version')
    /\ thread' = "report"
    /\ UNCHANGED <<live, program, queue, key, have, got, current, next, service, busy,
                   filter, update, caller>>

\* A service that has present and following events repeats them within two seconds,
\* before the thread gives up.
Silent == live # key \/ live \notin HasEpg

\* A section of another service of the transponder, or none within one read.
ReadOther ==
    /\ thread = "read"
    /\ section' = None
    /\ SawVersion(version)
    /\ thread' = "report"
    /\ UNCHANGED <<live, program, queue, key, have, got, current, next, dmxCN, busy,
                   filter, update, caller>>

\* No version within three seconds: the GUI is told that there is nothing to tell.
GiveUpOnVersion ==
    /\ thread = "read" /\ Silent
    /\ version = None /\ needVersion
    /\ Len(queue) < MaxQueue                              \* bound
    /\ queue' = Send("CURRENTNEXT_EPG", key)
    /\ needVersion' = FALSE
    /\ sleepNow' = TRUE
    /\ section' = None
    /\ thread' = "report"
    /\ UNCHANGED <<live, program, key, have, got, current, next, dmxCN, busy, filter,
                   update, caller>>

\* The GUI is told of an event that was stored; with both stored, or after a time
\* out, the thread goes to sleep unless it waits for the version.
Report ==
    /\ thread = "report"
    /\ Len(queue) < MaxQueue                              \* bound
    /\ have' = got
    /\ queue' = IF got # have THEN Send("CURRENTNEXT_EPG", key) ELSE queue
    /\ LET tired == sleepNow \/ got = Kinds
       IN  IF tired /\ ~needVersion
           THEN sleepNow' = FALSE /\ thread' = "pause"
           ELSE sleepNow' = tired /\ thread' = "parse"
    /\ UNCHANGED <<live, program, key, got, needVersion, current, next, dmxCN, section,
                   busy, filter, update, caller>>

\* Three seconds without an event although the version is known: the section in the
\* buffer is dropped.
GiveUpOnEvents ==
    /\ thread = "report" /\ Silent
    /\ got = have /\ have # Kinds /\ ~sleepNow /\ ~needVersion
    /\ Len(queue) < MaxQueue                              \* bound
    /\ queue' = IF have = {} THEN Send("CURRENTNEXT_EPG", key) ELSE queue
    /\ sleepNow' = TRUE
    /\ section' = None
    /\ thread' = "read"
    /\ UNCHANGED <<live, program, messaging, current, next, dmxCN, busy, filter, update,
                   caller>>

Pause ==
    /\ thread = "pause"
    /\ thread' = "enter"
    /\ busy' = FALSE
    /\ UNCHANGED <<live, program, queue, messaging, current, next, dmxCN, section,
                   sleepNow, filter, update, caller>>

\* A faulty Wait: the filter is set for an unknown version as well.
WaitUnversioned ==
    /\ thread = "enter"
    /\ thread' = "wait"
    /\ filter' = [ch |-> key, n |-> version]
    /\ UNCHANGED <<live, program, queue, messaging, current, next, dmxCN, section,
                   sleepNow, busy, update, caller>>

\* The update filter is set for the key and the version, if one is known.
Wait ==
    /\ thread = "enter"
    /\ thread' = "wait"
    /\ filter' = IF version = None THEN None ELSE [ch |-> key, n |-> version]
    /\ UNCHANGED <<live, program, queue, messaging, current, next, dmxCN, section,
                   sleepNow, busy, update, caller>>

\* The filter is stopped, the demultiplexer restarted once more, and the section
\* read before the sleep is looked at.
Wake ==
    /\ thread = "woken"
    /\ thread' = "parse"
    /\ filter' = None
    /\ needVersion' = FALSE
    /\ busy' = TRUE
    /\ version' = None
    /\ UNCHANGED <<live, program, queue, key, have, got, current, next, service, section,
                   sleepNow, update, caller>>

\* addEvent compares the service under one lock ...
Parse ==
    /\ thread = "parse"
    /\ IF section # None /\ section.event.ch = key /\ got # Kinds
       THEN thread' = "store" /\ UNCHANGED section
       ELSE thread' = "read" /\ section' = None
    /\ UNCHANGED <<live, program, queue, messaging, current, next, dmxCN, sleepNow, busy,
                   filter, update, caller>>

\* A faulty StoreCurrent: the event that is on now stays the next one as well.
StoreCurrentTwice(e) ==
    /\ current' = e
    /\ got' = got \cup {"current"}
    /\ UNCHANGED next

\* ... and stores the event under another.  A next event that is on now is read anew.
StoreCurrent(e) ==
    IF current # e /\ next = e
    THEN current' = e /\ next' = None /\ got' = (got \cup {"current"}) \ {"next"}
    ELSE current' = e /\ got' = got \cup {"current"} /\ UNCHANGED next

\* Programmes of one channel follow each other; those of two channels start at any
\* time.
StartsBefore(d, e) ==
    IF d.ch = e.ch THEN {d.n < e.n} ELSE BOOLEAN

StoreNext(e) ==
    /\ \E earlier \in IF next = None THEN {TRUE} ELSE StartsBefore(next, e) :
          next' = IF earlier /\ current # e THEN e ELSE next
    /\ got' = got \cup {"next"}
    /\ UNCHANGED current

Store ==
    /\ thread = "store"
    /\ thread' = "read"
    /\ IF section.kind = "current" THEN StoreCurrent(section.event)
                                   ELSE StoreNext(section.event)
    /\ section' = None
    /\ UNCHANGED <<live, program, queue, key, have, needVersion, dmxCN, sleepNow, busy,
                   filter, update, caller>>

-----------------------------------------------------------------------------
(* getCurrentNextServiceKey, called by the GUI thread. *)

\* The event it may return as the current one: the one cnThread has stored for the
\* service, or else the one that is on now, if the cache of all events holds it.
CurrentEvents(ch) ==
    IF key = ch /\ current # None THEN {current} ELSE {None, OnAir(ch)}

\* An event is missing: dmxCN is restarted unless it runs, within ten seconds of the
\* last request.
Retry(ch) ==
    \/ UNCHANGED <<dmxCN, thread>>
    \/ /\ key = ch => None \in {current, next}
       /\ ~busy
       /\ Change(service)

-----------------------------------------------------------------------------
(* The housekeeping thread, and the programme. *)

SeeUpdate ==
    /\ filter # None /\ ~update
    /\ live = filter.ch /\ live \in HasEpg /\ program[live] # filter.n
    /\ have' = {} /\ got' = {}
    /\ update' = TRUE
    /\ UNCHANGED <<live, program, queue, key, needVersion, current, next, dmxCN, cn,
                   caller>>

ApplyUpdate ==
    /\ update
    /\ update' = FALSE
    /\ Change(service)
    /\ UNCHANGED <<live, program, queue, messaging, current, next, section, sleepNow,
                   busy, filter, caller>>

ProgramMovesOn(ch) ==
    /\ ch \in HasEpg
    /\ program[ch] < LastProgram                          \* bound
    /\ program' = [program EXCEPT ![ch] = @ + 1]
    /\ UNCHANGED <<live, queue, messaging, current, next, dmxCN, cn, update, caller>>

CnStep == \/ ReadOther \/ GiveUpOnVersion \/ Report \/ GiveUpOnEvents
          \/ Pause \/ Wait \/ Wake \/ Parse \/ Store

=============================================================================
