----------------------------- MODULE EventCache -----------------------------
(***************************************************************************)
(* The programme guide of sectionsd: a map of events by key and two sets   *)
(* of the same events, ordered by channel and start and by end             *)
(* (src/neutrino2/src/sectionsd/sectionsd.cpp).  Several threads add       *)
(* events, one removes old ones and duplicates, the menu clears it all.    *)
(*                                                                         *)
(* A step is one critical section of the lock of events.  addEvent takes   *)
(* it five times and more, and what it found in one section is used in the *)
(* next: other threads come in between.                                    *)
(***************************************************************************)
EXTENDS Integers, FiniteSets

CONSTANTS
    Broadcast,     \* the events in the stream
    NoEvent,
    Adders,        \* the threads that call addEvent
    EitThreads,    \* those among them that read the schedule
    MaxEvents,     \* max_events
    OldEventsAre,  \* oldEventsAre
    ToCache,       \* secondsToCache
    LanguageModeOff,  \* whether texts are kept in one language only
    MaxNow, MaxZaps, MaxAdds   \* bounds

Keys     == {e.key : e \in Broadcast}
Channels == {e.ch : e \in Broadcast}

\* Of a channel no two events have one key; events end after they begin.  Lower tables
\* are fresher.
ASSUME BroadcastAssumption ==
    /\ Broadcast \subseteq [key : Nat, ch : Nat, start : Nat, end : Nat, table : Nat, version : Nat]
    /\ NoEvent \notin Broadcast
    /\ \A e \in Broadcast : e.start <= e.end
    /\ \A e, f \in Broadcast : e.key = f.key => e.ch = f.ch
    /\ Channels # {}
ASSUME AdderAssumption == IsFiniteSet(Adders) /\ Adders # {} /\ EitThreads \subseteq Adders
ASSUME LimitAssumption == MaxEvents \in Nat \ {0} /\ OldEventsAre \in Nat /\ ToCache \in Nat
                          /\ MaxNow \in Nat /\ MaxZaps \in Nat /\ MaxAdds \in Nat

VARIABLES
    time,        \* time(NULL)
    cache,       \* map: mySIeventsOrderUniqueKey; byStart, byEnd: the two sets
    adder,       \* what each thread is doing in addEvent
    keeper,      \* what the housekeeping thread is doing
    watched,     \* messaging_current_servicekey
    zapDetected, \* messaging_zap_detected
    zaps, adds,  \* how often the service was changed, and an event added
    raced,       \* keys stored by a thread while another was storing the same
    wasted       \* an eviction has removed nothing

cacheVars == <<time, cache, adder, keeper, watched, zapDetected, zaps, adds, raced, wasted>>

-----------------------------------------------------------------------------
(* The containers.  The sets compare what the pointers point to. *)

SameByStart(x, y) == x.key = y.key /\ x.start = y.start
SameByEnd(x, y)   == x.key = y.key /\ x.end = y.end

StartsBefore(x, y) ==
    \/ x.ch < y.ch
    \/ x.ch = y.ch /\ x.start < y.start
    \/ x.ch = y.ch /\ x.start = y.start /\ x.key < y.key

EndsBefore(x, y) ==
    \/ x.end < y.end
    \/ x.end = y.end /\ x.ch < y.ch
    \/ x.end = y.end /\ x.ch = y.ch /\ x.key > y.key

Cached == {k \in Keys : cache.map[k] # NoEvent}

\* A faulty deleteEvent: the order by end is forgotten.
deleteEventByStart(k) ==
    IF cache.map[k] = NoEvent THEN cache
    ELSE [cache EXCEPT !.map[k] = NoEvent,
                       !.byStart = {x \in @ : ~SameByStart(x, cache.map[k])}]

deleteEvent(k) ==
    IF cache.map[k] = NoEvent THEN cache
    ELSE [map     |-> [cache.map EXCEPT ![k] = NoEvent],
          byStart |-> {x \in cache.byStart : ~SameByStart(x, cache.map[k])},
          byEnd   |-> {x \in cache.byEnd : ~SameByEnd(x, cache.map[k])}]

\* map::insert and set::insert keep what is there.
Inserted(e) ==
    [map     |-> IF cache.map[e.key] = NoEvent THEN [cache.map EXCEPT ![e.key] = e]
                                               ELSE cache.map,
     byStart |-> IF \E x \in cache.byStart : SameByStart(x, e)
                 THEN cache.byStart ELSE cache.byStart \cup {e},
     byEnd   |-> IF \E x \in cache.byEnd : SameByEnd(x, e)
                 THEN cache.byEnd ELSE cache.byEnd \cup {e}]

-----------------------------------------------------------------------------
(* addEvent. *)

Idle == [at |-> "idle", event |-> NoEvent, doomed |-> {}, victim |-> NoEvent]

\* Tables of the own transponder; there a new version replaces the old.
OwnTables == {78, 80, 81}

\* The stored event stays: it is as fresh, and the times are the same.
AlreadyExists(e) ==
    LET old == cache.map[e.key]
    IN  /\ old # NoEvent
        /\ e.table >= old.table
        /\ ~(e.table = old.table /\ e.table \in OwnTables /\ e.version # old.version)
        /\ e.start = old.start /\ e.end = old.end

\* Backwards from the last event that begins no later, until one is over before.
Overlapping(e) ==
    LET before == {x \in cache.byStart : x.ch = e.ch /\ x.start <= e.start}
        other(x) == x.key # e.key /\ x.start < e.end
    IN  {x \in before : /\ other(x) /\ x.end > e.start
                        /\ \A y \in before : StartsBefore(x, y) /\ other(y) => y.end > e.start}

\* The threads of the schedule skip what is over or far ahead.
BeginAdd(t, e) ==
    /\ adder[t].at = "idle"
    /\ adds < MaxAdds /\ adds' = adds + 1                    \* bound
    /\ t \in EitThreads => e.start < time + ToCache /\ e.end > time - OldEventsAre
    /\ ~(LanguageModeOff /\ AlreadyExists(e))
    /\ adder' = [adder EXCEPT ![t] =
                     [at |-> "overlaps", event |-> e, victim |-> NoEvent,
                      doomed |-> {x.key : x \in Overlapping(e)}]]
    /\ UNCHANGED <<time, cache, keeper, watched, zapDetected, zaps, raced, wasted>>

\* One at a time; in which order makes no difference.
RemoveOverlapping(t) ==
    /\ adder[t].at = "overlaps"
    /\ \E k \in adder[t].doomed :
          /\ cache' = deleteEvent(k)
          /\ adder' = [adder EXCEPT ![t].doomed = @ \ {k}]
    /\ UNCHANGED <<time, keeper, watched, zapDetected, zaps, adds, raced, wasted>>

RemoveSame(t) ==
    /\ adder[t].at = "overlaps" /\ adder[t].doomed = {}
    /\ cache' = deleteEvent(adder[t].event.key)
    /\ adder' = [adder EXCEPT ![t].at = "room"]
    /\ UNCHANGED <<time, keeper, watched, zapDetected, zaps, adds, raced, wasted>>

IsFirst(x) == x \in cache.byEnd /\ \A y \in cache.byEnd \ {x} : EndsBefore(x, y)

\* The first to end if it is old; else the last that is not of the channel watched, or
\* the first.
Victim(v) ==
    LET first == CHOOSE x \in cache.byEnd : IsFirst(x)
        other == {x \in cache.byEnd : x.ch # watched}
    IN  IF first.end < time - OldEventsAre \/ other = {}
        THEN v = first
        ELSE v \in other /\ \A y \in other \ {v} : EndsBefore(y, v)

\* A faulty MakeRoom: one event more.
MakeRoomLate(t) ==
    /\ adder[t].at = "room"
    /\ IF Cardinality(Cached) > MaxEvents
       THEN \E v \in cache.byEnd : /\ Victim(v)
                                   /\ adder' = [adder EXCEPT ![t].at = "evict", ![t].victim = v]
       ELSE adder' = [adder EXCEPT ![t].at = "store"]
    /\ UNCHANGED <<time, cache, keeper, watched, zapDetected, zaps, adds, raced, wasted>>

MakeRoom(t) ==
    /\ adder[t].at = "room"
    /\ IF Cardinality(Cached) >= MaxEvents
       THEN \E v \in cache.byEnd : /\ Victim(v)
                                   /\ adder' = [adder EXCEPT ![t].at = "evict", ![t].victim = v]
       ELSE adder' = [adder EXCEPT ![t].at = "store"]
    /\ UNCHANGED <<time, cache, keeper, watched, zapDetected, zaps, adds, raced, wasted>>

\* A faulty Evict: it keeps the iterator, and does not come to store.
EvictKeeping(t) ==
    /\ adder[t].at = "evict"
    /\ cache' = deleteEvent(adder[t].victim.key)
    /\ wasted' = (wasted \/ cache' = cache)
    /\ adder' = [adder EXCEPT ![t].at = "room"]
    /\ UNCHANGED <<time, keeper, watched, zapDetected, zaps, adds, raced>>

\* The iterator is read after the lock was released: if the event is gone by then, it
\* yields any key.
Evict(t) ==
    /\ adder[t].at = "evict"
    /\ cache' \in IF adder[t].victim \in cache.byEnd THEN {deleteEvent(adder[t].victim.key)}
                  ELSE {deleteEvent(k) : k \in Keys} \cup {cache}
    /\ wasted' = (wasted \/ cache' = cache)
    /\ adder' = [adder EXCEPT ![t].at = "store", ![t].victim = NoEvent]
    /\ UNCHANGED <<time, keeper, watched, zapDetected, zaps, adds, raced>>

Store(t) ==
    /\ adder[t].at = "store"
    /\ cache' = Inserted(adder[t].event)
    /\ raced' = raced \cup ({adder[t].event.key} \cap Cached)
    /\ keeper' = [keeper EXCEPT !.renewed = @ \cup ({adder[t].event.key} \cap keeper.doomed)]
    /\ adder' = [adder EXCEPT ![t] = Idle]
    /\ UNCHANGED <<time, watched, zapDetected, zaps, adds, wasted>>

-----------------------------------------------------------------------------
(* The service changes. *)

\* setServiceChanged.
ServiceChanges ==
    /\ zaps < MaxZaps                                        \* bound
    /\ watched' \in Channels \ {watched}
    /\ zapDetected' = TRUE
    /\ zaps' = zaps + 1

Zap ==
    /\ ServiceChanges
    /\ UNCHANGED <<time, cache, adder, keeper, adds, raced, wasted>>

\* A faulty GoToSleep: the mark of the zap stays.
GoToSleepUnmarked(t) ==
    /\ adder[t].at = "idle"
    /\ UNCHANGED cacheVars

\* A thread of the schedule has read all tables, or was told to wait.
GoToSleep(t) ==
    /\ adder[t].at = "idle"
    /\ zapDetected' = FALSE
    /\ UNCHANGED <<time, cache, adder, keeper, watched, zaps, adds, raced, wasted>>

-----------------------------------------------------------------------------
(* houseKeepingThread: what was found under the lock is deleted key by key. *)

\* The search does not begin if the service was changed, and stops after one of the parts
\* if it is changed meanwhile.
Search(what, events, parts, wanted) ==
    LET Find(found) == keeper' = [found |-> what, renewed |-> {},
                                  doomed |-> {x.key : x \in found \cap wanted}]
    IN  \/ Find(IF zapDetected THEN {} ELSE events) /\ UNCHANGED <<watched, zapDetected, zaps>>
        \/ ~zapDetected /\ ServiceChanges /\ \E begun \in parts : Find(begun)

PartsByStart == {{x \in cache.byStart : StartsBefore(x, stop)} : stop \in cache.byStart}
PartsByEnd   == {{x \in cache.byEnd : EndsBefore(x, stop)} : stop \in cache.byEnd}

Old(x) == x.end < time - OldEventsAre

\* A faulty FindOld: it takes what has begun.
FindOldBegun ==
    /\ keeper.found = "duplicates" /\ keeper.doomed = {}
    /\ Search("old", cache.byEnd, PartsByEnd,
              {x \in cache.byEnd : x.start < time - OldEventsAre})
    /\ UNCHANGED <<time, cache, adder, adds, raced, wasted>>

\* removeOldEvents.
FindOld ==
    /\ keeper.found = "duplicates" /\ keeper.doomed = {}
    /\ Search("old", cache.byEnd, PartsByEnd, {x \in cache.byEnd : Old(x)})
    /\ UNCHANGED <<time, cache, adder, adds, raced, wasted>>

Neighbours(x, y) ==
    /\ StartsBefore(x, y)
    /\ ~\E z \in cache.byStart : StartsBefore(x, z) /\ StartsBefore(z, y)

SameTimes(x, y) == x.ch = y.ch /\ x.start = y.start /\ x.end = y.end

\* Its neighbour has the same times and a lower table.
Superseded(x) ==
    \E y \in cache.byStart : /\ Neighbours(x, y) \/ Neighbours(y, x)
                             /\ SameTimes(x, y) /\ y.table < x.table

\* A faulty FindDuplicates: only the former of two neighbours goes.
FindDuplicatesOneWay ==
    /\ keeper.found = "old" /\ keeper.doomed = {}
    /\ Search("duplicates", cache.byStart, PartsByStart,
              {x \in cache.byStart : \E y \in cache.byStart :
                                        Neighbours(x, y) /\ SameTimes(x, y) /\ y.table < x.table})
    /\ UNCHANGED <<time, cache, adder, adds, raced, wasted>>

\* removeDupEvents.
FindDuplicates ==
    /\ keeper.found = "old" /\ keeper.doomed = {}
    /\ Search("duplicates", cache.byStart, PartsByStart, {x \in cache.byStart : Superseded(x)})
    /\ UNCHANGED <<time, cache, adder, adds, raced, wasted>>

RemoveFound ==
    /\ \E k \in keeper.doomed : /\ cache' = deleteEvent(k)
                                /\ keeper' = [keeper EXCEPT !.doomed = @ \ {k}]
    /\ UNCHANGED <<time, adder, watched, zapDetected, zaps, adds, raced, wasted>>

-----------------------------------------------------------------------------
NoEvents == [map |-> [k \in Keys |-> NoEvent], byStart |-> {}, byEnd |-> {}]

\* A faulty freeMemory: the map is forgotten.
freeMemoryPartly ==
    /\ cache' = [cache EXCEPT !.byStart = {}, !.byEnd = {}]
    /\ UNCHANGED <<time, adder, keeper, watched, zapDetected, zaps, adds, raced, wasted>>

\* freeMemory, from the menu.
freeMemory ==
    /\ cache' = NoEvents
    /\ UNCHANGED <<time, adder, keeper, watched, zapDetected, zaps, adds, raced, wasted>>

TimePasses ==
    /\ time < MaxNow                                         \* bound
    /\ time' = time + 1
    /\ UNCHANGED <<cache, adder, keeper, watched, zapDetected, zaps, adds, raced, wasted>>

CacheInit ==
    /\ time = 0 /\ cache = NoEvents
    /\ adder = [t \in Adders |-> Idle]
    /\ keeper = [found |-> "duplicates", doomed |-> {}, renewed |-> {}]
    /\ watched \in Channels /\ zapDetected = FALSE /\ zaps = 0 /\ adds = 0
    /\ raced = {} /\ wasted = FALSE

AddStep(t) ==
    \/ \E e \in Broadcast : BeginAdd(t, e)
    \/ RemoveOverlapping(t) \/ RemoveSame(t) \/ MakeRoom(t) \/ Evict(t) \/ Store(t)

KeeperStep == FindOld \/ FindDuplicates \/ RemoveFound

CacheNext ==
    \/ \E t \in Adders : AddStep(t)
    \/ \E t \in EitThreads : GoToSleep(t)
    \/ KeeperStep \/ Zap \/ freeMemory \/ TimePasses

CacheSpec == CacheInit /\ [][CacheNext]_cacheVars

-----------------------------------------------------------------------------
(* Properties. *)

CacheTypeOK ==
    /\ time \in 0 .. MaxNow /\ zaps \in 0 .. MaxZaps /\ adds \in 0 .. MaxAdds
    /\ watched \in Channels /\ zapDetected \in BOOLEAN /\ wasted \in BOOLEAN
    /\ cache \in [map : [Keys -> Broadcast \cup {NoEvent}],
                  byStart : SUBSET Broadcast, byEnd : SUBSET Broadcast]
    /\ \A k \in Cached : cache.map[k].key = k
    /\ adder \in [Adders -> [at : {"idle", "overlaps", "room", "evict", "store"},
                             event : Broadcast \cup {NoEvent}, doomed : SUBSET Keys,
                             victim : Broadcast \cup {NoEvent}]]
    /\ \A t \in Adders : /\ adder[t].at = "idle" <=> adder[t].event = NoEvent
                         /\ adder[t].at = "evict" <=> adder[t].victim # NoEvent
                         /\ adder[t].doomed # {} => adder[t].at = "overlaps"
    /\ keeper \in [found : {"old", "duplicates"}, doomed : SUBSET Keys, renewed : SUBSET Keys]
    /\ raced \subseteq Keys

\* Who looks for an event by its time finds it: each set holds it, or one that it takes
\* for the same.  Removal relies on it too.
EventsFound ==
    \A k \in Cached :
        /\ \E x \in cache.byStart : SameByStart(x, cache.map[k])
        /\ \E x \in cache.byEnd : SameByEnd(x, cache.map[k])

\* The sets hold nothing that the map has lost, which nobody could delete any more, unless
\* two threads have stored one key at a time.
NoOrphans ==
    \A x \in cache.byStart \cup cache.byEnd : cache.map[x.key] = x \/ x.key \in raced

\* The cache outgrows its limit by no more than the threads that check it together, until
\* two of them choose the same event to make room.
CacheBounded ==
    ~wasted => Cardinality(Cached) < MaxEvents + Cardinality(Adders)

\* What the housekeeping thread deletes as old is old, unless it was stored anew between
\* the search and the deletion.
OnlyOldRemoved ==
    keeper.found = "old" =>
        \A k \in keeper.doomed \cap Cached :
            Old(cache.map[k]) \/ k \in keeper.renewed \cup raced

\* Old events leave the cache.
OldEventsGo ==
    \A x \in Broadcast : []<>(x \in cache.byEnd /\ Old(x) => x.key \in raced)

\* Of two events at the same time, next to each other, the one of the higher table goes.
Staler(x) == {y \in Broadcast : SameTimes(x, y) /\ x.table < y.table /\ x.key # y.key}

DuplicatesGo ==
    \A x \in Broadcast : \A y \in Staler(x) :
        []<>(/\ cache.map[x.key] = x /\ cache.map[y.key] = y
             /\ Neighbours(x, y) \/ Neighbours(y, x)
             => {x.key, y.key} \cap raced # {})

=============================================================================
