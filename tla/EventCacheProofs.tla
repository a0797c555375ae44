-------------------------- MODULE EventCacheProofs --------------------------
(***************************************************************************)
(* Theorems about the cache of the programme guide, for any number of      *)
(* threads, any stream and any bounds.                                     *)
(***************************************************************************)
EXTENDS EventCache, FiniteSetTheorems, TLAPS

\* The threads that have checked the size and not yet stored.
Storing == {t \in Adders : adder[t].at = "store"}

\* A thread that was let in when there was room may find the others let in with it.
RoomForAll ==
    /\ IsFiniteSet(Cached)
    /\ ~wasted => Cardinality(Cached) + Cardinality(Storing) < MaxEvents + Cardinality(Adders)

IInv == CacheTypeOK /\ EventsFound /\ NoOrphans /\ OnlyOldRemoved /\ RoomForAll

\* What CacheTypeOK says of the cache.
CacheShape ==
    /\ cache \in [map : [Keys -> Broadcast \cup {NoEvent}],
                  byStart : SUBSET Broadcast, byEnd : SUBSET Broadcast]
    /\ \A k \in Cached : cache.map[k].key = k

-----------------------------------------------------------------------------
(* The containers. *)

\* deleteEvent removes its key and nothing else, and leaves no trace of it in the sets.
LEMMA Deletion ==
    ASSUME CacheShape, NEW k \in Keys, cache' = deleteEvent(k)
    PROVE  /\ CacheShape'
           /\ Cached' = Cached \ {k}
           /\ \A j \in Cached' : cache'.map[j] = cache.map[j]
           /\ EventsFound => EventsFound'
           /\ NoOrphans /\ raced' = raced => NoOrphans'
<1>1. CASE cache.map[k] = NoEvent
  <2>1. cache' = cache
    BY <1>1 DEF deleteEvent
  <2> QED
    BY <1>1, <2>1 DEF CacheShape, Cached, EventsFound, NoOrphans
<1>2. CASE cache.map[k] # NoEvent
  <2>1. /\ cache'.map = [cache.map EXCEPT ![k] = NoEvent]
        /\ cache'.byStart = {x \in cache.byStart : ~SameByStart(x, cache.map[k])}
        /\ cache'.byEnd = {x \in cache.byEnd : ~SameByEnd(x, cache.map[k])}
        /\ cache' \in [map : [Keys -> Broadcast \cup {NoEvent}],
                       byStart : SUBSET Broadcast, byEnd : SUBSET Broadcast]
    BY <1>2 DEF deleteEvent, CacheShape
  <2>2. Cached' = Cached \ {k}
    BY <2>1 DEF Cached, CacheShape
  <2>3. \A j \in Cached' : cache'.map[j] = cache.map[j]
    BY <2>1, <2>2 DEF CacheShape, Cached
  <2>4. CacheShape'
    BY <2>1, <2>2, <2>3 DEF CacheShape
  <2>5. ASSUME EventsFound PROVE EventsFound'
    <3> SUFFICES ASSUME NEW j \in Cached'
                 PROVE  /\ \E x \in cache'.byStart : SameByStart(x, cache'.map[j])
                        /\ \E x \in cache'.byEnd : SameByEnd(x, cache'.map[j])
      BY DEF EventsFound
    <3>1. j \in Cached /\ j # k /\ cache'.map[j] = cache.map[j]
      BY <2>2, <2>3
    <3>2. cache.map[j].key = j /\ cache.map[k].key = k
      BY <1>2, <3>1 DEF CacheShape, Cached
    <3>3. PICK x \in cache.byStart : SameByStart(x, cache.map[j])
      BY <2>5, <3>1 DEF EventsFound
    <3>4. PICK y \in cache.byEnd : SameByEnd(y, cache.map[j])
      BY <2>5, <3>1 DEF EventsFound
    <3>5. ~SameByStart(x, cache.map[k]) /\ ~SameByEnd(y, cache.map[k])
      BY <3>1, <3>2, <3>3, <3>4 DEF SameByStart, SameByEnd
    <3> QED
      BY <2>1, <3>1, <3>3, <3>4, <3>5
  <2>6. ASSUME NoOrphans, raced' = raced PROVE NoOrphans'
    <3> SUFFICES ASSUME NEW x \in cache'.byStart \cup cache'.byEnd, x.key \notin raced
                 PROVE  cache'.map[x.key] = x
      BY <2>6 DEF NoOrphans
    <3>1. cache.map[x.key] = x
      BY <2>1, <2>6 DEF NoOrphans
    <3>2. x.key # k
      BY <2>1, <3>1 DEF SameByStart, SameByEnd
    <3>3. x.key \in Keys
      BY <2>1 DEF Keys
    <3> QED
      BY <2>1, <3>1, <3>2, <3>3 DEF CacheShape
  <2> QED
    BY <2>2, <2>3, <2>4, <2>5, <2>6
<1> QED
  BY <1>1, <1>2

\* Insertion keeps what is there.
LEMMA Insertion ==
    ASSUME CacheShape, NEW e \in Broadcast, cache' = Inserted(e)
    PROVE  /\ CacheShape'
           /\ Cached' = Cached \cup {e.key}
           /\ \A j \in Cached : cache'.map[j] = cache.map[j]
           /\ EventsFound => EventsFound'
           /\ NoOrphans /\ raced' = raced \cup ({e.key} \cap Cached) => NoOrphans'
<1> e.key \in Keys
  BY DEF Keys
<1>1. /\ cache'.map = IF cache.map[e.key] = NoEvent THEN [cache.map EXCEPT ![e.key] = e]
                                                    ELSE cache.map
      /\ cache'.byStart = IF \E x \in cache.byStart : SameByStart(x, e)
                          THEN cache.byStart ELSE cache.byStart \cup {e}
      /\ cache'.byEnd = IF \E x \in cache.byEnd : SameByEnd(x, e)
                        THEN cache.byEnd ELSE cache.byEnd \cup {e}
      /\ cache' \in [map : [Keys -> Broadcast \cup {NoEvent}],
                     byStart : SUBSET Broadcast, byEnd : SUBSET Broadcast]
  BY DEF Inserted, CacheShape
<1>2. e # NoEvent
  BY BroadcastAssumption
<1>3. Cached' = Cached \cup {e.key}
  BY <1>1, <1>2 DEF Cached, CacheShape
<1>4. \A j \in Cached : cache'.map[j] = cache.map[j]
  BY <1>1 DEF Cached, CacheShape
<1>5. e.key \notin Cached => cache'.map[e.key] = e
  BY <1>1 DEF Cached, CacheShape
<1>6. CacheShape'
  BY <1>1, <1>3, <1>4, <1>5 DEF CacheShape
<1>7. ASSUME EventsFound PROVE EventsFound'
  <2> SUFFICES ASSUME NEW j \in Cached'
               PROVE  /\ \E x \in cache'.byStart : SameByStart(x, cache'.map[j])
                      /\ \E x \in cache'.byEnd : SameByEnd(x, cache'.map[j])
    BY DEF EventsFound
  <2>1. CASE j \in Cached
    <3>1. /\ \E x \in cache.byStart : SameByStart(x, cache.map[j])
          /\ \E x \in cache.byEnd : SameByEnd(x, cache.map[j])
      BY <1>7, <2>1 DEF EventsFound
    <3>2. cache.byStart \subseteq cache'.byStart /\ cache.byEnd \subseteq cache'.byEnd
      BY <1>1
    <3> QED
      BY <1>4, <2>1, <3>1, <3>2
  <2>2. CASE j = e.key /\ j \notin Cached
    <3>1. SameByStart(e, e) /\ SameByEnd(e, e)
      BY DEF SameByStart, SameByEnd
    <3>2. /\ \E x \in cache'.byStart : SameByStart(x, e)
          /\ \E x \in cache'.byEnd : SameByEnd(x, e)
      BY <1>1, <3>1
    <3> QED
      BY <1>5, <2>2, <3>2
  <2> QED
    BY <1>3, <2>1, <2>2
<1>8. ASSUME NoOrphans, raced' = raced \cup ({e.key} \cap Cached) PROVE NoOrphans'
  <2> SUFFICES ASSUME NEW x \in cache'.byStart \cup cache'.byEnd, x.key \notin raced'
               PROVE  cache'.map[x.key] = x
    BY DEF NoOrphans
  <2>1. CASE x \in cache.byStart \cup cache.byEnd
    <3>1. cache.map[x.key] = x
      BY <1>8, <2>1 DEF NoOrphans
    <3>2. x \in Broadcast /\ x.key \in Keys
      BY <2>1 DEF CacheShape, Keys
    <3>3. x.key \in Cached
      BY <3>1, <3>2, BroadcastAssumption DEF Cached
    <3> QED
      BY <1>4, <3>1, <3>3
  <2>2. CASE x = e
    BY <1>5, <1>8, <2>2
  <2> QED
    BY <1>1, <2>1, <2>2
<1> QED
  BY <1>3, <1>4, <1>6, <1>7, <1>8

LEMMA Clearing ==
    ASSUME cache' = NoEvents
    PROVE  CacheShape' /\ Cached' = {} /\ EventsFound' /\ NoOrphans'
<1>1. /\ cache'.map = [k \in Keys |-> NoEvent] /\ cache'.byStart = {} /\ cache'.byEnd = {}
      /\ cache' \in [map : [Keys -> Broadcast \cup {NoEvent}],
                     byStart : SUBSET Broadcast, byEnd : SUBSET Broadcast]
  BY DEF NoEvents
<1>2. Cached' = {}
  BY <1>1 DEF Cached
<1> QED
  BY <1>1, <1>2 DEF CacheShape, EventsFound, NoOrphans

-----------------------------------------------------------------------------
(* Types. *)

\* What CacheTypeOK says of the threads.
AddersShape ==
    /\ adder \in [Adders -> [at : {"idle", "overlaps", "room", "evict", "store"},
                             event : Broadcast \cup {NoEvent}, doomed : SUBSET Keys,
                             victim : Broadcast \cup {NoEvent}]]
    /\ \A t \in Adders : /\ adder[t].at = "idle" <=> adder[t].event = NoEvent
                         /\ adder[t].at = "evict" <=> adder[t].victim # NoEvent
                         /\ adder[t].doomed # {} => adder[t].at = "overlaps"

KeeperShape ==
    keeper \in [found : {"old", "duplicates"}, doomed : SUBSET Keys, renewed : SUBSET Keys]

RestShape ==
    /\ time \in 0 .. MaxNow /\ zaps \in 0 .. MaxZaps /\ adds \in 0 .. MaxAdds
    /\ watched \in Channels /\ zapDetected \in BOOLEAN /\ wasted \in BOOLEAN
    /\ raced \subseteq Keys

LEMMA Shapes == CacheTypeOK <=> CacheShape /\ AddersShape /\ KeeperShape /\ RestShape
  BY DEF CacheTypeOK, CacheShape, AddersShape, KeeperShape, RestShape

\* What each step of a thread does to the threads.
LEMMA AdderMoves ==
    ASSUME CacheShape, AddersShape, NEW t \in Adders, AddStep(t)
    PROVE  /\ AddersShape'
           /\ Storing' = IF adder'[t].at = "store" THEN Storing \cup {t} ELSE Storing \ {t}
<1> DEFINE Entry == [at : {"idle", "overlaps", "room", "evict", "store"},
                     event : Broadcast \cup {NoEvent}, doomed : SUBSET Keys,
                     victim : Broadcast \cup {NoEvent}]
           Sound(r) == /\ r \in Entry
                       /\ r.at = "idle" <=> r.event = NoEvent
                       /\ r.at = "evict" <=> r.victim # NoEvent
                       /\ r.doomed # {} => r.at = "overlaps"
           old == adder[t]
<1>1. ASSUME NEW r, Sound(r), adder' = [adder EXCEPT ![t] = r]
      PROVE  /\ AddersShape'
             /\ Storing' = IF adder'[t].at = "store" THEN Storing \cup {t} ELSE Storing \ {t}
  BY <1>1 DEF AddersShape, Storing
<1>2. Sound(old)
  BY DEF AddersShape
<1>3. NoEvent \notin Broadcast
  BY BroadcastAssumption
<1>4. \E r : Sound(r) /\ adder' = [adder EXCEPT ![t] = r]
  <2>1. ASSUME NEW e \in Broadcast, BeginAdd(t, e)
        PROVE  \E r : Sound(r) /\ adder' = [adder EXCEPT ![t] = r]
    <3> DEFINE keys == {x.key : x \in Overlapping(e)}
               r == [at |-> "overlaps", event |-> e, victim |-> NoEvent, doomed |-> keys]
    <3>1. keys \subseteq Keys
      BY DEF CacheShape, Overlapping, Keys
    <3> HIDE DEF keys
    <3>2. Sound(r)
      BY <1>3, <3>1
    <3>3. adder' = [adder EXCEPT ![t] = r]
      BY <2>1 DEF BeginAdd, keys
    <3> QED
      BY <3>2, <3>3
  <2>2. CASE RemoveOverlapping(t)
    <3>1. PICK k \in old.doomed : adder' = [adder EXCEPT ![t].doomed = @ \ {k}]
      BY <2>2 DEF RemoveOverlapping
    <3> DEFINE r == [old EXCEPT !.doomed = @ \ {k}]
    <3>2. adder' = [adder EXCEPT ![t] = r]
      BY <3>1 DEF AddersShape
    <3>3. Sound(r)
      BY <1>2, <2>2 DEF RemoveOverlapping
    <3> QED
      BY <3>2, <3>3
  <2>3. CASE RemoveSame(t)
    <3> DEFINE r == [old EXCEPT !.at = "room"]
    <3>1. adder' = [adder EXCEPT ![t] = r]
      BY <2>3 DEF RemoveSame, AddersShape
    <3>2. Sound(r)
      BY <1>2, <2>3 DEF RemoveSame
    <3> QED
      BY <3>1, <3>2
  <2>4. CASE MakeRoom(t)
    <3>1. old.at = "room"
      BY <2>4 DEF MakeRoom
    <3>2. CASE \E v \in cache.byEnd : adder' = [adder EXCEPT ![t].at = "evict", ![t].victim = v]
      <4>1. PICK v \in cache.byEnd : adder' = [adder EXCEPT ![t].at = "evict", ![t].victim = v]
        BY <3>2
      <4> DEFINE r == [old EXCEPT !.at = "evict", !.victim = v]
      <4>2. adder' = [adder EXCEPT ![t] = r]
        BY <4>1 DEF AddersShape
      <4>3. v \in Broadcast
        BY DEF CacheShape
      <4>4. Sound(r)
        BY <1>2, <1>3, <3>1, <4>3
      <4> QED
        BY <4>2, <4>4
    <3>3. CASE adder' = [adder EXCEPT ![t].at = "store"]
      <4> DEFINE r == [old EXCEPT !.at = "store"]
      <4>1. adder' = [adder EXCEPT ![t] = r]
        BY <3>3 DEF AddersShape
      <4>2. Sound(r)
        BY <1>2, <3>1
      <4> QED
        BY <4>1, <4>2
    <3> QED
      BY <2>4, <3>2, <3>3 DEF MakeRoom
  <2>5. CASE Evict(t)
    <3> DEFINE r == [old EXCEPT !.at = "store", !.victim = NoEvent]
    <3>1. adder' = [adder EXCEPT ![t] = r]
      BY <2>5 DEF Evict, AddersShape
    <3>2. Sound(r)
      BY <1>2, <2>5 DEF Evict
    <3> QED
      BY <3>1, <3>2
  <2>6. CASE Store(t)
    <3>1. Sound(Idle)
      BY DEF Idle
    <3> QED
      BY <2>6, <3>1 DEF Store
  <2> QED
    BY <2>1, <2>2, <2>3, <2>4, <2>5, <2>6 DEF AddStep
<1> QED
  BY <1>1, <1>4

\* Who deletes or stores, does it with a key or an event there is.
LEMMA Operands ==
    ASSUME CacheTypeOK
    PROVE  /\ \A t \in Adders : /\ adder[t].doomed \subseteq Keys
                                /\ adder[t].at # "idle" => /\ adder[t].event \in Broadcast
                                                           /\ adder[t].event.key \in Keys
                                /\ adder[t].at = "evict" => adder[t].victim.key \in Keys
           /\ keeper.doomed \subseteq Keys
  BY DEF CacheTypeOK, Keys

\* All that ever happens to the cache.
LEMMA CacheMoves ==
    ASSUME CacheTypeOK, CacheNext
    PROVE  \/ UNCHANGED <<cache, raced>>
           \/ \E k \in Keys : cache' = deleteEvent(k) /\ raced' = raced
           \/ \E e \in Broadcast : cache' = Inserted(e) /\ raced' = raced \cup ({e.key} \cap Cached)
           \/ cache' = NoEvents /\ raced' = raced
<1>1. ASSUME NEW t \in Adders, NEW e \in Broadcast, BeginAdd(t, e) PROVE UNCHANGED <<cache, raced>>
  BY <1>1 DEF BeginAdd
<1>2. ASSUME NEW t \in Adders, RemoveOverlapping(t)
      PROVE  \E k \in Keys : cache' = deleteEvent(k) /\ raced' = raced
  BY <1>2, Operands DEF RemoveOverlapping
<1>3. ASSUME NEW t \in Adders, RemoveSame(t)
      PROVE  \E k \in Keys : cache' = deleteEvent(k) /\ raced' = raced
  BY <1>3, Operands DEF RemoveSame
<1>4. ASSUME NEW t \in Adders, MakeRoom(t) PROVE UNCHANGED <<cache, raced>>
  BY <1>4 DEF MakeRoom
<1>5. ASSUME NEW t \in Adders, Evict(t)
      PROVE  \/ UNCHANGED <<cache, raced>>
             \/ \E k \in Keys : cache' = deleteEvent(k) /\ raced' = raced
  BY <1>5, Operands DEF Evict
<1>6. ASSUME NEW t \in Adders, Store(t)
      PROVE  \E e \in Broadcast : cache' = Inserted(e) /\ raced' = raced \cup ({e.key} \cap Cached)
  <2>1. adder[t].event \in Broadcast
    BY <1>6, Operands DEF Store
  <2> QED
    BY <1>6, <2>1 DEF Store
<1>7. ASSUME NEW t \in EitThreads, GoToSleep(t) PROVE UNCHANGED <<cache, raced>>
  BY <1>7 DEF GoToSleep
<1>8. CASE RemoveFound
  BY <1>8, Operands DEF RemoveFound
<1>9. CASE FindOld \/ FindDuplicates \/ Zap \/ TimePasses
  BY <1>9 DEF FindOld, FindDuplicates, Zap, TimePasses
<1>10. CASE freeMemory
  BY <1>10 DEF freeMemory
<1> QED
  BY <1>1, <1>2, <1>3, <1>4, <1>5, <1>6, <1>7, <1>8, <1>9, <1>10
  DEF CacheNext, AddStep, KeeperStep

LEMMA CachePart ==
    ASSUME CacheTypeOK, EventsFound, NoOrphans, CacheNext
    PROVE  CacheShape' /\ EventsFound' /\ NoOrphans'
<1> CacheShape
  BY Shapes
<1>1. CASE UNCHANGED <<cache, raced>>
  BY <1>1 DEF CacheShape, EventsFound, NoOrphans, Cached
<1>2. ASSUME NEW k \in Keys, cache' = deleteEvent(k), raced' = raced
      PROVE  CacheShape' /\ EventsFound' /\ NoOrphans'
  BY <1>2, Deletion
<1>3. ASSUME NEW e \in Broadcast, cache' = Inserted(e), raced' = raced \cup ({e.key} \cap Cached)
      PROVE  CacheShape' /\ EventsFound' /\ NoOrphans'
  BY <1>3, Insertion
<1>4. CASE cache' = NoEvents
  BY <1>4, Clearing
<1> QED
  BY <1>1, <1>2, <1>3, <1>4, CacheMoves

-----------------------------------------------------------------------------
(* The housekeeping thread. *)

LEMMA Services ==
    ASSUME RestShape, UNCHANGED <<time, adds, raced, wasted>>,
           UNCHANGED <<watched, zapDetected, zaps>> \/ ServiceChanges
    PROVE  RestShape'
<1>1. CASE UNCHANGED <<watched, zapDetected, zaps>>
  BY <1>1 DEF RestShape
<1>2. CASE ServiceChanges
  <2>1. zaps \in Nat /\ zaps < MaxZaps /\ zaps' = zaps + 1 /\ zaps \in 0 .. MaxZaps
    BY <1>2 DEF ServiceChanges, RestShape
  <2>2. zaps' \in 0 .. MaxZaps
    BY <2>1, LimitAssumption
  <2>3. watched' \in Channels /\ zapDetected' \in BOOLEAN
    BY <1>2 DEF ServiceChanges
  <2> QED
    BY <2>2, <2>3 DEF RestShape
<1> QED
  BY <1>1, <1>2

\* What a search finds is in the set it goes through, and it may change the service.
LEMMA FindsOld ==
    ASSUME CacheTypeOK, FindOld
    PROVE  /\ KeeperShape' /\ RestShape'
           /\ keeper'.found = "old"
           /\ \A k \in keeper'.doomed : \E y \in cache.byEnd : Old(y) /\ k = y.key
<1> DEFINE r(S) == [found |-> "old", renewed |-> {}, doomed |-> {x.key : x \in S \cap {y \in cache.byEnd : Old(y)}}]
<1>1. /\ UNCHANGED <<time, cache, adder, adds, raced, wasted>>
      /\ \E S \in SUBSET cache.byEnd : keeper' = r(S)
      /\ UNCHANGED <<watched, zapDetected, zaps>> \/ ServiceChanges
  BY DEF FindOld, Search, PartsByEnd
<1>2. RestShape'
  BY <1>1, Shapes, Services
<1>3. PICK S \in SUBSET cache.byEnd : keeper' = r(S)
  BY <1>1
<1>4. r(S).doomed \subseteq Keys
  BY DEF CacheTypeOK, Keys
<1> QED
  BY <1>2, <1>3, <1>4 DEF KeeperShape

LEMMA FindsDuplicates ==
    ASSUME CacheTypeOK, FindDuplicates
    PROVE  KeeperShape' /\ RestShape' /\ keeper'.found = "duplicates"
<1> DEFINE r(S) == [found |-> "duplicates", renewed |-> {},
                    doomed |-> {x.key : x \in S \cap {y \in cache.byStart : Superseded(y)}}]
<1>1. /\ UNCHANGED <<time, cache, adder, adds, raced, wasted>>
      /\ \E S \in SUBSET cache.byStart : keeper' = r(S)
      /\ UNCHANGED <<watched, zapDetected, zaps>> \/ ServiceChanges
  BY DEF FindDuplicates, Search, PartsByStart
<1>2. RestShape'
  BY <1>1, Shapes, Services
<1>3. PICK S \in SUBSET cache.byStart : keeper' = r(S)
  BY <1>1
<1>4. r(S).doomed \subseteq Keys
  BY DEF CacheTypeOK, Keys
<1> QED
  BY <1>2, <1>3, <1>4 DEF KeeperShape

\* Types of the housekeeping thread and of the rest.
LEMMA KeeperAndRest ==
    ASSUME CacheTypeOK, CacheNext
    PROVE  KeeperShape' /\ RestShape'
<1> CacheShape /\ AddersShape /\ KeeperShape /\ RestShape
  BY Shapes
<1>1. ASSUME NEW t \in Adders, NEW e \in Broadcast, BeginAdd(t, e)
      PROVE  KeeperShape' /\ RestShape'
  <2>1. adds' \in 0 .. MaxAdds
    BY <1>1, LimitAssumption DEF BeginAdd, RestShape
  <2> QED
    BY <1>1, <2>1 DEF BeginAdd, KeeperShape, RestShape
<1>2. ASSUME NEW t \in Adders, RemoveOverlapping(t) \/ RemoveSame(t) \/ MakeRoom(t)
      PROVE  KeeperShape' /\ RestShape'
  BY <1>2 DEF RemoveOverlapping, RemoveSame, MakeRoom, KeeperShape, RestShape
<1>3. ASSUME NEW t \in Adders, Evict(t) PROVE KeeperShape' /\ RestShape'
  BY <1>3 DEF Evict, KeeperShape, RestShape
<1>4. ASSUME NEW t \in Adders, Store(t) PROVE KeeperShape' /\ RestShape'
  <2>1. adder[t].event.key \in Keys
    BY <1>4, Operands DEF Store
  <2> QED
    BY <1>4, <2>1 DEF Store, KeeperShape, RestShape
<1>5. ASSUME NEW t \in EitThreads, GoToSleep(t) PROVE KeeperShape' /\ RestShape'
  BY <1>5 DEF GoToSleep, KeeperShape, RestShape
<1>6. CASE RemoveFound
  BY <1>6 DEF RemoveFound, KeeperShape, RestShape
<1>7. CASE Zap
  BY <1>7, Services DEF Zap, KeeperShape
<1>8. CASE freeMemory
  BY <1>8 DEF freeMemory, KeeperShape, RestShape
<1>9. CASE TimePasses
  <2>1. time' \in 0 .. MaxNow
    BY <1>9, LimitAssumption DEF TimePasses, RestShape
  <2> QED
    BY <1>9, <2>1 DEF TimePasses, KeeperShape, RestShape
<1> QED
  BY <1>1, <1>2, <1>3, <1>4, <1>5, <1>6, <1>7, <1>8, <1>9, FindsOld, FindsDuplicates
  DEF CacheNext, AddStep, KeeperStep

\* What is old stays old, and what leaves the cache is no longer to be deleted.
LEMMA StillOld ==
    ASSUME CacheTypeOK, OnlyOldRemoved, time' \in Int, time <= time',
           keeper'.found = keeper.found, keeper'.doomed \subseteq keeper.doomed,
           keeper'.renewed = keeper.renewed, raced' = raced,
           \A k \in Cached' : k \in Cached /\ cache'.map[k] = cache.map[k]
    PROVE  OnlyOldRemoved'
<1> SUFFICES ASSUME keeper.found = "old", NEW k \in Cached', k \in keeper'.doomed,
                    k \notin keeper.renewed \cup raced
             PROVE  cache'.map[k].end < time' - OldEventsAre
  BY DEF OnlyOldRemoved, Old
<1>1. cache.map[k].end < time - OldEventsAre
  BY DEF OnlyOldRemoved, Old
<1>2. cache.map[k] \in Broadcast
  BY DEF Cached, CacheTypeOK
<1>3. cache.map[k].end \in Nat /\ time \in Int
  BY <1>2, BroadcastAssumption DEF CacheTypeOK
<1> QED
  BY <1>1, <1>3, LimitAssumption

LEMMA OldPart ==
    ASSUME CacheTypeOK, NoOrphans, OnlyOldRemoved, CacheNext
    PROVE  OnlyOldRemoved'
<1> CacheShape /\ time \in Int
  BY Shapes DEF CacheTypeOK
<1>1. ASSUME NEW k \in Keys, cache' = deleteEvent(k), raced' = raced, time' = time,
             keeper'.found = keeper.found, keeper'.doomed \subseteq keeper.doomed,
             keeper'.renewed = keeper.renewed
      PROVE  OnlyOldRemoved'
  <2>1. \A j \in Cached' : j \in Cached /\ cache'.map[j] = cache.map[j]
    BY <1>1, Deletion
  <2> QED
    BY <1>1, <2>1, StillOld
<1>2. ASSUME cache' = cache, raced' = raced, keeper' = keeper, time' \in Int, time <= time'
      PROVE  OnlyOldRemoved'
  <2>1. \A j \in Cached' : j \in Cached /\ cache'.map[j] = cache.map[j]
    BY <1>2 DEF Cached
  <2> QED
    BY <1>2, <2>1, StillOld
<1>3. ASSUME NEW t \in Adders, NEW e \in Broadcast, BeginAdd(t, e) PROVE OnlyOldRemoved'
  BY <1>2, <1>3 DEF BeginAdd
<1>4. ASSUME NEW t \in Adders, RemoveOverlapping(t) PROVE OnlyOldRemoved'
  <2>1. PICK k \in Keys : cache' = deleteEvent(k)
    BY <1>4, Operands DEF RemoveOverlapping
  <2> QED
    BY <1>1, <1>4, <2>1 DEF RemoveOverlapping
<1>5. ASSUME NEW t \in Adders, RemoveSame(t) PROVE OnlyOldRemoved'
  <2>1. adder[t].event.key \in Keys
    BY <1>5, Operands DEF RemoveSame
  <2> QED
    BY <1>1, <1>5, <2>1 DEF RemoveSame
<1>6. ASSUME NEW t \in Adders, MakeRoom(t) PROVE OnlyOldRemoved'
  BY <1>2, <1>6 DEF MakeRoom
<1>7. ASSUME NEW t \in Adders, Evict(t) PROVE OnlyOldRemoved'
  <2>1. cache' = cache \/ \E k \in Keys : cache' = deleteEvent(k)
    BY <1>7, Operands DEF Evict
  <2> QED
    BY <1>1, <1>2, <1>7, <2>1 DEF Evict
<1>8. ASSUME NEW t \in Adders, Store(t) PROVE OnlyOldRemoved'
  <2> DEFINE e == adder[t].event
  <2>1. e \in Broadcast
    BY <1>8, Operands DEF Store
  <2>2. /\ Cached' = Cached \cup {e.key}
        /\ \A j \in Cached : cache'.map[j] = cache.map[j]
    BY <1>8, <2>1, Insertion DEF Store
  <2>3. /\ raced' = raced \cup ({e.key} \cap Cached) /\ time' = time
        /\ keeper'.found = keeper.found /\ keeper'.doomed = keeper.doomed
        /\ keeper'.renewed = keeper.renewed \cup ({e.key} \cap keeper.doomed)
    BY <1>8 DEF Store, CacheTypeOK
  <2> SUFFICES ASSUME keeper.found = "old", NEW k \in Cached', k \in keeper.doomed,
                      k \notin keeper'.renewed \cup raced'
               PROVE  cache'.map[k].end < time - OldEventsAre
    BY <2>3 DEF OnlyOldRemoved, Old
  <2>4. k # e.key /\ k \in Cached /\ k \notin keeper.renewed \cup raced
    BY <2>2, <2>3
  <2> QED
    BY <2>2, <2>4 DEF OnlyOldRemoved, Old
<1>9. ASSUME NEW t \in EitThreads, GoToSleep(t) PROVE OnlyOldRemoved'
  BY <1>2, <1>9 DEF GoToSleep
<1>10. CASE FindOld
  <2>1. /\ \A k \in keeper'.doomed : \E y \in cache.byEnd : Old(y) /\ k = y.key
        /\ cache' = cache /\ raced' = raced /\ time' = time
    BY <1>10, FindsOld DEF FindOld
  <2> SUFFICES ASSUME NEW k \in keeper'.doomed, k \notin raced
               PROVE  cache.map[k].end < time - OldEventsAre
    BY <2>1 DEF OnlyOldRemoved, Old
  <2>2. PICK y \in cache.byEnd : Old(y) /\ k = y.key
    BY <2>1
  <2>3. cache.map[k] = y
    BY <2>2 DEF NoOrphans
  <2> QED
    BY <2>2, <2>3 DEF Old
<1>11. CASE FindDuplicates
  BY <1>11, FindsDuplicates DEF OnlyOldRemoved
<1>12. CASE RemoveFound
  <2>1. PICK k \in keeper.doomed : /\ cache' = deleteEvent(k)
                                   /\ keeper' = [keeper EXCEPT !.doomed = @ \ {k}]
    BY <1>12 DEF RemoveFound
  <2>2. k \in Keys
    BY Operands
  <2>3. /\ keeper'.found = keeper.found /\ keeper'.doomed \subseteq keeper.doomed
        /\ keeper'.renewed = keeper.renewed
    BY <2>1 DEF CacheTypeOK
  <2> QED
    BY <1>1, <1>12, <2>1, <2>2, <2>3 DEF RemoveFound
<1>13. CASE Zap
  BY <1>2, <1>13 DEF Zap
<1>14. CASE freeMemory
  BY <1>14, Clearing DEF freeMemory, OnlyOldRemoved
<1>15. CASE TimePasses
  BY <1>2, <1>15 DEF TimePasses
<1> QED
  BY <1>3, <1>4, <1>5, <1>6, <1>7, <1>8, <1>9, <1>10, <1>11, <1>12, <1>13, <1>14, <1>15
  DEF CacheNext, AddStep, KeeperStep

-----------------------------------------------------------------------------
(* The size. *)

\* Fewer events and fewer threads about to store: there is room as before.
LEMMA RoomLeft ==
    ASSUME RoomForAll, Cached' \subseteq Cached, Storing' \subseteq Storing, wasted' = wasted
    PROVE  RoomForAll'
<1>1. IsFiniteSet(Storing)
  BY FS_Subset, AdderAssumption DEF Storing
<1>2. /\ IsFiniteSet(Cached') /\ Cardinality(Cached') <= Cardinality(Cached)
      /\ Cardinality(Cached) \in Nat /\ Cardinality(Cached') \in Nat
  BY FS_Subset, FS_CardinalityType DEF RoomForAll
<1>3. /\ Cardinality(Storing') <= Cardinality(Storing)
      /\ Cardinality(Storing) \in Nat /\ Cardinality(Storing') \in Nat
  BY <1>1, FS_Subset, FS_CardinalityType
<1>4. Cardinality(Adders) \in Nat
  BY FS_CardinalityType, AdderAssumption
<1> QED
  BY <1>2, <1>3, <1>4, LimitAssumption DEF RoomForAll

\* A thread is let in: there was room for one, and no more threads are let in than there are.
LEMMA RoomChecked ==
    ASSUME IsFiniteSet(Cached), Cached' = Cached, Cardinality(Cached) < MaxEvents
    PROVE  RoomForAll'
<1>1. IsFiniteSet(Adders) /\ Storing' \in SUBSET Adders
  BY AdderAssumption DEF Storing
<1>2. IsFiniteSet(Storing') /\ Cardinality(Storing') <= Cardinality(Adders)
  BY <1>1, FS_Subset
<1>3. Cardinality(Storing') \in Nat /\ Cardinality(Adders) \in Nat /\ Cardinality(Cached) \in Nat
  BY <1>1, <1>2, FS_CardinalityType
<1> QED
  BY <1>2, <1>3, LimitAssumption DEF RoomForAll

\* An event goes and a thread is let in for it, or the other way round.
LEMMA RoomExchanged ==
    ASSUME RoomForAll, wasted' = wasted, NEW k, NEW t \in Adders,
           \/ k \in Cached /\ Cached' = Cached \ {k} /\ Storing' = Storing \cup {t}
           \/ t \in Storing /\ Cached' = Cached \cup {k} /\ Storing' = Storing \ {t}
    PROVE  RoomForAll'
<1>1. IsFiniteSet(Storing) /\ IsFiniteSet(Cached)
  BY FS_Subset, AdderAssumption DEF Storing, RoomForAll
<1>2. /\ Cardinality(Storing) \in Nat /\ Cardinality(Cached) \in Nat
      /\ Cardinality(Adders) \in Nat
  BY <1>1, AdderAssumption, FS_CardinalityType
<1>3. CASE k \in Cached /\ Cached' = Cached \ {k} /\ Storing' = Storing \cup {t}
  <2>1. IsFiniteSet(Cached') /\ Cardinality(Cached') = Cardinality(Cached) - 1
    BY <1>1, <1>3, FS_RemoveElement
  <2>2. /\ Cardinality(Storing') = Cardinality(Storing)
           \/ Cardinality(Storing') = Cardinality(Storing) + 1
    BY <1>1, <1>3, FS_AddElement
  <2> QED
    BY <1>2, <2>1, <2>2, LimitAssumption DEF RoomForAll
<1>4. CASE t \in Storing /\ Cached' = Cached \cup {k} /\ Storing' = Storing \ {t}
  <2>1. /\ IsFiniteSet(Cached')
        /\ Cardinality(Cached') = Cardinality(Cached)
           \/ Cardinality(Cached') = Cardinality(Cached) + 1
    BY <1>1, <1>4, FS_AddElement
  <2>2. Cardinality(Storing') = Cardinality(Storing) - 1
    BY <1>1, <1>4, FS_RemoveElement
  <2> QED
    BY <1>2, <2>1, <2>2, LimitAssumption DEF RoomForAll
<1> QED
  BY <1>3, <1>4

\* The steps of the threads that add: only Evict lets in a thread that found no room, and
\* only Store brings an event.
LEMMA RoomForAdders ==
    ASSUME CacheTypeOK, RoomForAll, NEW t \in Adders, AddStep(t)
    PROVE  RoomForAll'
<1> CacheShape /\ AddersShape
  BY Shapes
<1>1. Storing' = IF adder'[t].at = "store" THEN Storing \cup {t} ELSE Storing \ {t}
  BY AdderMoves
<1>2. ASSUME adder'[t].at # "store", Cached' \subseteq Cached, wasted' = wasted
      PROVE  RoomForAll'
  BY <1>1, <1>2, RoomLeft
<1>3. ASSUME NEW e \in Broadcast, BeginAdd(t, e) PROVE RoomForAll'
  <2>1. adder'[t].at = "overlaps" /\ Cached' = Cached /\ wasted' = wasted
    BY <1>3 DEF BeginAdd, AddersShape, Cached
  <2> QED
    BY <1>2, <2>1
<1>4. CASE RemoveOverlapping(t)
  <2>1. adder'[t].at = "overlaps" /\ wasted' = wasted
    BY <1>4 DEF RemoveOverlapping, AddersShape
  <2>2. PICK k \in Keys : cache' = deleteEvent(k)
    BY <1>4, Operands DEF RemoveOverlapping
  <2>3. Cached' \subseteq Cached
    BY <2>2, Deletion
  <2> QED
    BY <1>2, <2>1, <2>3
<1>5. CASE RemoveSame(t)
  <2>1. adder'[t].at = "room" /\ wasted' = wasted
    BY <1>5 DEF RemoveSame, AddersShape
  <2>2. adder[t].event.key \in Keys /\ cache' = deleteEvent(adder[t].event.key)
    BY <1>5, Operands DEF RemoveSame
  <2>3. Cached' \subseteq Cached
    BY <2>2, Deletion
  <2> QED
    BY <1>2, <2>1, <2>3
<1>6. CASE MakeRoom(t)
  <2>1. Cached' = Cached /\ wasted' = wasted
    BY <1>6 DEF MakeRoom, Cached
  <2>2. CASE Cardinality(Cached) >= MaxEvents
    <3>1. adder'[t].at = "evict"
      BY <1>6, <2>2 DEF MakeRoom, AddersShape
    <3> QED
      BY <1>2, <2>1, <3>1
  <2>3. CASE ~(Cardinality(Cached) >= MaxEvents)
    <3>1. Cardinality(Cached) \in Nat
      BY FS_CardinalityType DEF RoomForAll
    <3>2. Cardinality(Cached) < MaxEvents
      BY <2>3, <3>1, LimitAssumption
    <3> QED
      BY <2>1, <3>2, RoomChecked DEF RoomForAll
  <2> QED
    BY <2>2, <2>3
<1>7. CASE Evict(t)
  <2>1. adder'[t].at = "store"
    BY <1>7 DEF Evict, AddersShape
  <2>2. wasted' = (wasted \/ cache' = cache)
    BY <1>7 DEF Evict
  <2>3. CASE cache' = cache
    <3>1. wasted' /\ Cached' = Cached
      BY <2>2, <2>3 DEF Cached
    <3> QED
      BY <3>1 DEF RoomForAll
  <2>4. CASE cache' # cache
    <3>1. PICK k \in Keys : cache' = deleteEvent(k)
      BY <1>7, <2>4, Operands DEF Evict
    <3>2. k \in Cached
      BY <2>4, <3>1 DEF deleteEvent, Cached
    <3>3. Cached' = Cached \ {k}
      BY <3>1, Deletion
    <3>4. wasted' = wasted
      BY <2>2, <2>4 DEF CacheTypeOK
    <3> QED
      BY <1>1, <2>1, <3>2, <3>3, <3>4, RoomExchanged
  <2> QED
    BY <2>3, <2>4
<1>8. CASE Store(t)
  <2>1. t \in Storing /\ adder'[t].at = "idle" /\ wasted' = wasted
    BY <1>8 DEF Store, Storing, Idle, AddersShape
  <2>2. adder[t].event \in Broadcast
    BY <1>8, Operands DEF Store
  <2>3. Cached' = Cached \cup {adder[t].event.key}
    BY <1>8, <2>2, Insertion DEF Store
  <2> QED
    BY <1>1, <2>1, <2>3, RoomExchanged
<1> QED
  BY <1>3, <1>4, <1>5, <1>6, <1>7, <1>8 DEF AddStep

LEMMA SizePart ==
    ASSUME CacheTypeOK, RoomForAll, CacheNext
    PROVE  RoomForAll'
<1>1. ASSUME adder' = adder, wasted' = wasted, Cached' \subseteq Cached
      PROVE  RoomForAll'
  <2>1. Storing' = Storing
    BY <1>1 DEF Storing
  <2> QED
    BY <1>1, <2>1, RoomLeft
<1>2. ASSUME cache' = cache PROVE Cached' = Cached
  BY <1>2 DEF Cached
<1>3. ASSUME NEW t \in EitThreads, GoToSleep(t) PROVE RoomForAll'
  BY <1>1, <1>2, <1>3 DEF GoToSleep
<1>4. CASE FindOld \/ FindDuplicates
  BY <1>1, <1>2, <1>4 DEF FindOld, FindDuplicates
<1>5. CASE RemoveFound
  <2>1. PICK k \in Keys : cache' = deleteEvent(k)
    BY <1>5, Operands DEF RemoveFound
  <2>2. Cached' \subseteq Cached
    BY <2>1, Deletion, Shapes
  <2> QED
    BY <1>1, <1>5, <2>2 DEF RemoveFound
<1>6. CASE Zap \/ TimePasses
  BY <1>1, <1>2, <1>6 DEF Zap, TimePasses
<1>7. CASE freeMemory
  BY <1>1, <1>7, Clearing DEF freeMemory
<1> QED
  BY <1>3, <1>4, <1>5, <1>6, <1>7, RoomForAdders DEF CacheNext, KeeperStep

-----------------------------------------------------------------------------
(* The theorems. *)

LEMMA Initially == CacheInit => IInv
<1> SUFFICES ASSUME CacheInit PROVE IInv
  OBVIOUS
<1>1. /\ cache.map = [k \in Keys |-> NoEvent] /\ cache.byStart = {} /\ cache.byEnd = {}
      /\ Cached = {} /\ Storing = {}
  BY DEF CacheInit, NoEvents, Cached, Storing, Idle
<1>2. CacheShape
  BY <1>1 DEF CacheInit, NoEvents, CacheShape
<1>3. AddersShape /\ KeeperShape
  BY DEF CacheInit, Idle, AddersShape, KeeperShape
<1>4. RestShape
  <2>1. time \in 0 .. MaxNow /\ zaps \in 0 .. MaxZaps /\ adds \in 0 .. MaxAdds
    BY LimitAssumption DEF CacheInit
  <2>2. /\ watched \in Channels /\ zapDetected \in BOOLEAN /\ wasted \in BOOLEAN
        /\ raced \subseteq Keys
    BY DEF CacheInit
  <2> QED
    BY <2>1, <2>2 DEF RestShape
<1>5. EventsFound /\ NoOrphans
  BY <1>1 DEF EventsFound, NoOrphans
<1>6. OnlyOldRemoved
  BY DEF CacheInit, OnlyOldRemoved
<1>7. RoomForAll
  <2>1. Cardinality(Adders) \in Nat
    BY AdderAssumption, FS_CardinalityType
  <2>2. IsFiniteSet({}) /\ Cardinality({}) = 0
    BY FS_EmptySet
  <2> QED
    BY <1>1, <2>1, <2>2, LimitAssumption DEF RoomForAll
<1> QED
  BY <1>2, <1>3, <1>4, <1>5, <1>6, <1>7, Shapes DEF IInv

\* The parts of the invariant are kept together: removal of old events relies on NoOrphans,
\* and all of it on the types.
LEMMA Kept == IInv /\ [CacheNext]_cacheVars => IInv'
<1> SUFFICES ASSUME IInv, [CacheNext]_cacheVars PROVE IInv'
  OBVIOUS
<1>1. CASE CacheNext
  <2>1. CacheShape' /\ EventsFound' /\ NoOrphans'
    BY <1>1, CachePart DEF IInv
  <2>2. AddersShape'
    <3>1. CASE \E t \in Adders : AddStep(t)
      BY <3>1, AdderMoves, Shapes DEF IInv
    <3>2. CASE UNCHANGED adder
      BY <3>2, Shapes DEF IInv, AddersShape
    <3> QED
      BY <1>1, <3>1, <3>2 DEF CacheNext, KeeperStep, FindOld, FindDuplicates, RemoveFound,
                              Zap, freeMemory, TimePasses, GoToSleep
  <2>3. KeeperShape' /\ RestShape' /\ OnlyOldRemoved' /\ RoomForAll'
    BY <1>1, KeeperAndRest, OldPart, SizePart DEF IInv
  <2>4. CacheTypeOK'
    BY <2>1, <2>2, <2>3 DEF CacheTypeOK, CacheShape, AddersShape, KeeperShape, RestShape
  <2> QED
    BY <2>1, <2>3, <2>4 DEF IInv
<1>2. CASE UNCHANGED cacheVars
  BY <1>2 DEF cacheVars, IInv, CacheTypeOK, EventsFound, NoOrphans, OnlyOldRemoved, Old,
              RoomForAll, Cached, Storing
<1> QED
  BY <1>1, <1>2

LEMMA Invariance == CacheSpec => []IInv
  BY Initially, Kept, PTL DEF CacheSpec

\* The containers and what the threads remember keep their types.
THEOREM CacheTypes == CacheSpec => []CacheTypeOK
<1>1. IInv => CacheTypeOK
  BY DEF IInv
<1> QED
  BY <1>1, Invariance, PTL

\* Who looks for an event by its time finds it, however the threads that call addEvent
\* interleave.
THEOREM FoundByTime == CacheSpec => []EventsFound
<1>1. IInv => EventsFound
  BY DEF IInv
<1> QED
  BY <1>1, Invariance, PTL

\* No deletion, eviction or clearing leaves an event in the sets alone; only two threads that
\* store the same event do.
THEOREM NothingOrphaned == CacheSpec => []NoOrphans
<1>1. IInv => NoOrphans
  BY DEF IInv
<1> QED
  BY <1>1, Invariance, PTL

\* The cache outgrows max_events by less than the number of threads, while no eviction has
\* failed.
THEOREM LimitHolds == CacheSpec => []CacheBounded
<1>1. IInv => CacheBounded
  <2> SUFFICES ASSUME IInv, ~wasted PROVE Cardinality(Cached) < MaxEvents + Cardinality(Adders)
    BY DEF CacheBounded
  <2>1. IsFiniteSet(Adders) /\ Storing \in SUBSET Adders
    BY AdderAssumption DEF Storing
  <2>2. IsFiniteSet(Storing)
    BY <2>1, FS_Subset
  <2>3. /\ Cardinality(Storing) \in Nat /\ Cardinality(Adders) \in Nat
        /\ Cardinality(Cached) \in Nat
    BY <2>1, <2>2, FS_CardinalityType DEF IInv, RoomForAll
  <2> QED
    BY <2>3, LimitAssumption DEF IInv, RoomForAll
<1> QED
  BY <1>1, Invariance, PTL

\* What the housekeeping thread found is old still when it comes to delete it, unless it was
\* stored anew since.
THEOREM HousekeepingSpares == CacheSpec => []OnlyOldRemoved
<1>1. IInv => OnlyOldRemoved
  BY DEF IInv
<1> QED
  BY <1>1, Invariance, PTL

=============================================================================
