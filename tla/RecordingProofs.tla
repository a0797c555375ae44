--------------------------- MODULE RecordingProofs ---------------------------
(***************************************************************************)
(* Theorems about recording, for every number of timers, tuners and        *)
(* channels and every bound on waiting messages and nested boxes.          *)
(*                                                                         *)
(* A handler is a function of the whole state, so the invariant is a       *)
(* predicate of a state s, and a lemma for each operation says what it     *)
(* keeps of it and what it leaves alone.                                   *)
(***************************************************************************)
EXTENDS Recording, ZapitProofs, SequenceTheorems

States ==
    [power     : {"on", "off", "crashed"},
     gui       : Gui,
     vcr       : Vcr,
     zapit     : ZapitState,
     timers    : [Ids -> Timer],
     events    : Seq(Message),
     boxes     : Seq(Boxes \cup Errors),
     cancelled : BOOLEAN]

StartOf(i) == [type |-> "RECORD_START", id |-> i]
EndOf(i)   == [type |-> "RECORD_STOP", id |-> i]

Has(s, m)   == \E k \in 1 .. Len(s.events) : s.events[k] = m
Begun(s, i) == s.timers[i].state \in {"running", "over", "endless"}
Over(s, i)  == s.timers[i].state = "over"

\* The end of timer i is still to come, or it has none.
Runs(s, i)  == s.timers[i].state \in {"running", "endless"}
Alive(s, i) == Runs(s, i) \/ Has(s, EndOf(i))

Typed(s) ==
    /\ s \in States
    /\ \A i \in Ids : s.timers[i].state # "free" => s.timers[i].channel \in Channels

\* timerd's messages: each is sent once; the end of a timer that waits to be started
\* comes behind its start.
EndBehindStart(s) ==
    \A k \in 1 .. Len(s.events) : \A i \in Ids :
        s.events[k] = StartOf(i) =>
            \/ Runs(s, i)
            \/ \E l \in k + 1 .. Len(s.events) : s.events[l] = EndOf(i)

SentOnce(s) ==
    \A k, l \in 1 .. Len(s.events) :
        s.events[k] = s.events[l] /\ s.events[k].type \in {"RECORD_START", "RECORD_STOP"} => k = l

Queue(s) ==
    /\ EndBehindStart(s)
    /\ SentOnce(s)
    /\ \A i \in Ids : Has(s, EndOf(i)) => Over(s, i)
    /\ \A i \in Ids : Has(s, StartOf(i)) => Begun(s, i)

\* t comes after s: messages have been added behind, among them no start, and exactly
\* one end for each timer that has ended.
Later(s, t) ==
    /\ Len(s.events) <= Len(t.events)
    /\ \A k \in 1 .. Len(s.events) : t.events[k] = s.events[k]
    /\ \A k \in Len(s.events) + 1 .. Len(t.events) :
          t.events[k].type # "RECORD_START"
    /\ \A k \in Len(s.events) + 1 .. Len(t.events) : \A i \in Ids :
          t.events[k] = EndOf(i) => ~Over(s, i) /\ Over(t, i)
    /\ \A k, l \in Len(s.events) + 1 .. Len(t.events) :
          t.events[k] = t.events[l] /\ t.events[k].type = "RECORD_STOP" => k = l
    /\ \A i \in Ids : s.timers[i].state = "running" =>
          \/ t.timers[i].state = "running"
          \/ /\ Over(t, i)
             /\ \E k \in Len(s.events) + 1 .. Len(t.events) : t.events[k] = EndOf(i)
    /\ \A i \in Ids : Over(s, i) => Over(t, i)
    /\ \A i \in Ids : s.timers[i].state = "endless" => t.timers[i].state = "endless"

LEMMA Fields ==
    ASSUME NEW s \in States
    PROVE  /\ s.power \in {"on", "off", "crashed"} /\ s.gui \in Gui /\ s.vcr \in Vcr
           /\ s.zapit \in ZapitState /\ s.timers \in [Ids -> Timer]
           /\ s.events \in Seq(Message) /\ s.boxes \in Seq(Boxes \cup Errors)
           /\ s.cancelled \in BOOLEAN
           /\ Len(s.events) \in Nat /\ Len(s.boxes) \in Nat
           /\ \A k \in 1 .. Len(s.events) : s.events[k] \in Message
BY DEF States

LEMMA SameIsLater ==
    ASSUME NEW s \in States, NEW t, t.events = s.events,
           \A i \in Ids : s.timers[i].state # "free" => t.timers[i].state = s.timers[i].state
    PROVE  Later(s, t)
BY Fields DEF Later, Over

LEMMA LaterTransitive ==
    ASSUME NEW s \in States, NEW t \in States, NEW u \in States, Later(s, t), Later(t, u)
    PROVE  Later(s, u)
<1>1. Len(s.events) \in Nat /\ Len(t.events) \in Nat /\ Len(u.events) \in Nat
  BY Fields
<1>2. /\ Len(s.events) <= Len(u.events)
      /\ \A k \in 1 .. Len(s.events) : u.events[k] = s.events[k]
      /\ \A k \in Len(s.events) + 1 .. Len(t.events) : u.events[k] = t.events[k]
  BY <1>1 DEF Later
<1>3. \A k \in Len(s.events) + 1 .. Len(u.events) :
         k \in Len(s.events) + 1 .. Len(t.events) \/ k \in Len(t.events) + 1 .. Len(u.events)
  BY <1>1
<1>4. \A k \in Len(s.events) + 1 .. Len(u.events) : u.events[k].type # "RECORD_START"
  BY <1>2, <1>3 DEF Later
<1>5. ASSUME NEW k \in Len(s.events) + 1 .. Len(u.events), NEW i \in Ids, u.events[k] = EndOf(i)
      PROVE  ~Over(s, i) /\ Over(u, i)
  <2>1. CASE k \in Len(s.events) + 1 .. Len(t.events)
    BY <1>2, <1>5, <2>1 DEF Later
  <2>2. CASE k \in Len(t.events) + 1 .. Len(u.events)
    BY <1>5, <2>2 DEF Later
  <2> QED
    BY <1>3, <2>1, <2>2
<1>6. ASSUME NEW k \in Len(s.events) + 1 .. Len(u.events),
             NEW l \in Len(s.events) + 1 .. Len(u.events),
             u.events[k] = u.events[l], u.events[k].type = "RECORD_STOP"
      PROVE  k = l
  <2>1. PICK i \in Ids : u.events[k] = EndOf(i)
    <3>1. u.events[k] \in Message
      BY <1>1, Fields
    <3> QED
      BY <1>6, <3>1 DEF Message, EndOf, Messages, Commands
  <2>2. ASSUME NEW p \in Len(s.events) + 1 .. Len(t.events),
               NEW q \in Len(t.events) + 1 .. Len(u.events),
               u.events[p] = EndOf(i), u.events[q] = EndOf(i)
        PROVE  FALSE
    <3>1. t.events[p] = EndOf(i)
      BY <1>2, <2>2
    <3>2. Over(t, i)
      BY <2>2, <3>1 DEF Later
    <3>3. ~Over(t, i)
      BY <2>2 DEF Later
    <3> QED
      BY <3>2, <3>3
  <2>3. CASE k \in Len(s.events) + 1 .. Len(t.events) /\ l \in Len(s.events) + 1 .. Len(t.events)
    BY <1>2, <1>6, <2>3 DEF Later
  <2>4. CASE k \in Len(t.events) + 1 .. Len(u.events) /\ l \in Len(t.events) + 1 .. Len(u.events)
    BY <1>6, <2>4 DEF Later
  <2> QED
    BY <1>3, <1>6, <2>1, <2>2, <2>3, <2>4
<1>7. ASSUME NEW i \in Ids, s.timers[i].state = "running"
      PROVE  \/ u.timers[i].state = "running"
             \/ /\ Over(u, i)
                /\ \E k \in Len(s.events) + 1 .. Len(u.events) : u.events[k] = EndOf(i)
  <2>1. CASE t.timers[i].state = "running"
    <3>1. \A k \in Len(t.events) + 1 .. Len(u.events) : k \in Len(s.events) + 1 .. Len(u.events)
      BY <1>1 DEF Later
    <3> QED
      BY <2>1, <3>1 DEF Later
  <2>2. CASE Over(t, i) /\ \E k \in Len(s.events) + 1 .. Len(t.events) : t.events[k] = EndOf(i)
    <3>1. \A k \in Len(s.events) + 1 .. Len(t.events) : k \in Len(s.events) + 1 .. Len(u.events)
      BY <1>1 DEF Later
    <3> QED
      BY <1>2, <2>2, <3>1 DEF Later
  <2> QED
    BY <1>7, <2>1, <2>2 DEF Later
<1>8. \A i \in Ids : Over(s, i) => Over(u, i)
  BY DEF Later
<1>9. \A i \in Ids : s.timers[i].state = "endless" => u.timers[i].state = "endless"
  BY DEF Later
<1> QED
  BY <1>2, <1>4, <1>5, <1>6, <1>7, <1>8, <1>9 DEF Later

\* What stays true of a timer when messages are added.
LEMMA PromisesKept ==
    ASSUME NEW s \in States, NEW t \in States, Later(s, t), NEW i \in Ids
    PROVE  /\ Alive(s, i) => Alive(t, i)
           /\ Begun(s, i) => Begun(t, i)
           /\ Over(s, i) => Over(t, i)
           /\ ~Has(s, StartOf(i)) => ~Has(t, StartOf(i))
           /\ Over(s, i) /\ ~Has(s, EndOf(i)) => ~Has(t, EndOf(i))
<1>1. Len(s.events) \in Nat /\ Len(t.events) \in Nat /\ Len(s.events) <= Len(t.events)
  BY Fields DEF Later
<1>2. \A k \in 1 .. Len(t.events) :
         k \in 1 .. Len(s.events) \/ k \in Len(s.events) + 1 .. Len(t.events)
  BY <1>1
<1>3. \A k \in Len(s.events) + 1 .. Len(t.events) : k \in 1 .. Len(t.events)
  BY <1>1
<1>4. \A k \in 1 .. Len(s.events) : k \in 1 .. Len(t.events) /\ t.events[k] = s.events[k]
  BY <1>1 DEF Later
<1>5. \A m : Has(s, m) => Has(t, m)
  BY <1>4 DEF Has
<1>6. Alive(s, i) => Alive(t, i)
  BY <1>3, <1>5 DEF Alive, Runs, Later, Has
<1>7. Begun(s, i) => Begun(t, i)
  BY DEF Begun, Later, Over
<1>8. Over(s, i) => Over(t, i)
  BY DEF Later
<1>9. ASSUME ~Has(s, StartOf(i)), NEW k \in 1 .. Len(t.events), t.events[k] = StartOf(i)
      PROVE  FALSE
  <2>1. StartOf(i).type = "RECORD_START"
    BY DEF StartOf
  <2> QED
    BY <1>2, <1>4, <1>9, <2>1 DEF Later, Has
<1>10. ASSUME Over(s, i), ~Has(s, EndOf(i)), NEW k \in 1 .. Len(t.events), t.events[k] = EndOf(i)
       PROVE  FALSE
  BY <1>2, <1>4, <1>10 DEF Later, Has
<1> QED
  BY <1>6, <1>7, <1>8, <1>9, <1>10 DEF Has

LEMMA QueueLater ==
    ASSUME NEW s \in States, NEW t \in States, Later(s, t), Queue(s)
    PROVE  Queue(t)
<1>1. Len(s.events) \in Nat /\ Len(t.events) \in Nat /\ Len(s.events) <= Len(t.events)
  BY Fields DEF Later
<1>2. \A k \in 1 .. Len(t.events) :
         k \in 1 .. Len(s.events) \/ k \in Len(s.events) + 1 .. Len(t.events)
  BY <1>1
<1>3. \A k \in 1 .. Len(s.events) : k \in 1 .. Len(t.events) /\ t.events[k] = s.events[k]
  BY <1>1 DEF Later
<1>4. \A i \in Ids : StartOf(i).type = "RECORD_START" /\ EndOf(i).type = "RECORD_STOP"
  BY DEF StartOf, EndOf
<1>5. \A k \in 1 .. Len(t.events) :
         /\ t.events[k] \in Message
         /\ t.events[k].type = "RECORD_STOP" => \E i \in Ids : t.events[k] = EndOf(i)
  <2> SUFFICES ASSUME NEW k \in 1 .. Len(t.events)
               PROVE  /\ t.events[k] \in Message
                      /\ t.events[k].type = "RECORD_STOP" => \E i \in Ids : t.events[k] = EndOf(i)
    OBVIOUS
  <2>1. t.events[k] \in Message
    BY Fields
  <2> QED
    BY <2>1 DEF Message, EndOf, Messages, Commands
<1>6. EndBehindStart(t)
  <2> SUFFICES ASSUME NEW k \in 1 .. Len(t.events), NEW i \in Ids, t.events[k] = StartOf(i),
                      ~Runs(t, i)
               PROVE  \E l \in k + 1 .. Len(t.events) : t.events[l] = EndOf(i)
    BY DEF EndBehindStart
  <2>1. k \in 1 .. Len(s.events) /\ s.events[k] = StartOf(i)
    BY <1>2, <1>3, <1>4 DEF Later
  <2>2. CASE s.timers[i].state = "running"
    <3>1. PICK l \in Len(s.events) + 1 .. Len(t.events) : t.events[l] = EndOf(i)
      BY <2>2 DEF Later, Runs
    <3>2. l \in k + 1 .. Len(t.events)
      BY <1>1, <2>1
    <3> QED
      BY <3>1, <3>2
  <2>3. CASE s.timers[i].state # "running"
    <3>1. ~Runs(s, i)
      BY <2>3 DEF Runs, Later
    <3>2. PICK l \in k + 1 .. Len(s.events) : s.events[l] = EndOf(i)
      BY <2>1, <3>1 DEF Queue, EndBehindStart
    <3>3. l \in 1 .. Len(s.events) /\ l \in k + 1 .. Len(t.events)
      BY <1>1, <2>1
    <3> QED
      BY <1>3, <3>2, <3>3
  <2> QED
    BY <2>2, <2>3
<1>7. SentOnce(t)
  <2> SUFFICES ASSUME NEW k \in 1 .. Len(t.events), NEW l \in 1 .. Len(t.events),
                      t.events[k] = t.events[l],
                      t.events[k].type \in {"RECORD_START", "RECORD_STOP"}
               PROVE  k = l
    BY DEF SentOnce
  <2>1. CASE k \in 1 .. Len(s.events) /\ l \in 1 .. Len(s.events)
    BY <1>3, <2>1 DEF Queue, SentOnce
  <2>2. CASE k \in Len(s.events) + 1 .. Len(t.events) /\ l \in Len(s.events) + 1 .. Len(t.events)
    BY <2>2 DEF Later
  <2>3. ASSUME NEW p \in 1 .. Len(s.events), NEW q \in Len(s.events) + 1 .. Len(t.events),
               t.events[p] = t.events[q],
               t.events[q].type \in {"RECORD_START", "RECORD_STOP"}
        PROVE  FALSE
    <3>1. q \in 1 .. Len(t.events)
      BY <1>1
    <3>2. t.events[q].type = "RECORD_STOP"
      BY <2>3 DEF Later
    <3>3. PICK i \in Ids : t.events[q] = EndOf(i)
      BY <1>5, <3>1, <3>2
    <3>4. Has(s, EndOf(i))
      BY <1>3, <2>3, <3>3 DEF Has
    <3> QED
      BY <3>3, <3>4 DEF Queue, Later
  <2> QED
    BY <1>2, <2>1, <2>2, <2>3
<1>8. ASSUME NEW i \in Ids, NEW k \in 1 .. Len(t.events), t.events[k] = EndOf(i)
      PROVE  Over(t, i)
  BY <1>2, <1>3, <1>8 DEF Queue, Later, Has
<1>9. ASSUME NEW i \in Ids, NEW k \in 1 .. Len(t.events), t.events[k] = StartOf(i)
      PROVE  Begun(t, i)
  <2>1. Has(s, StartOf(i))
    BY <1>2, <1>3, <1>4, <1>9 DEF Later, Has
  <2> QED
    BY <2>1, PromisesKept DEF Queue
<1> QED
  BY <1>6, <1>7, <1>8, <1>9 DEF Queue, Has

-----------------------------------------------------------------------------
(* The parts of the invariant. *)

\* The recorder's threads: none without a recording, which writes nothing then; one
\* for a recording that was started with none active.
Threads(v) ==
    /\ ~v.record => v.threads = 0 /\ v.written = "nothing" /\ ~v.clean
    /\ v.record => v.threads > 0
    /\ v.clean => v.threads = 1 /\ v.written # "nothing"

\* zapit is in record mode exactly while the device records, with the recorder's tuner
\* locked.
Recorder(s) ==
    /\ s.zapit.standby => s.gui.mode = "standby"
    /\ s.zapit.recordMode => s.vcr.record
    /\ s.vcr.record => s.vcr.info
    /\ Threads(s.vcr)
    /\ s.vcr.record /\ s.vcr.clean => s.zapit.recordMode
    /\ s.vcr.record /\ s.vcr.clean /\ AllReceived =>
          s.zapit.record_fe # 0 /\ s.zapit.fe[s.zapit.record_fe].locked

\* cancel_all is returned to a box.
BoxesSound(s) == s.cancelled => s.boxes # <<>>

Core(s) == Typed(s) /\ Queue(s) /\ Tuners(s.zapit) /\ Recorder(s) /\ BoxesSound(s)

\* The end of nextRecordingInfo's timer is to come, or it is late and has been taken.
NextSound(s) ==
    LET i == s.gui.next
    IN  i # 0 =>
          /\ Begun(s, i)
          /\ ~Has(s, StartOf(i))
          /\ ~s.vcr.late => Alive(s, i)
          /\ s.vcr.late => Over(s, i) /\ ~Has(s, EndOf(i))

\* nextRecordingInfo outlives its handler only in the box that shows a failure.
NextShown(s) ==
    s.gui.next # 0 => \E k \in 1 .. Len(s.boxes) : s.boxes[k] \in {"start", "stop"}

RecordSound(s) ==
    LET i == s.gui.recording_id
    IN  s.vcr.record =>
          /\ ~s.vcr.retried /\ ~s.vcr.missed => i # 0 /\ Alive(s, i)
          /\ s.vcr.clean => i # 0 /\ Begun(s, i) /\ ~Has(s, StartOf(i))
          /\ s.vcr.clean /\ s.vcr.retried => Over(s, i) /\ ~Has(s, EndOf(i))

Sound(s) == Core(s) /\ NextSound(s) /\ NextShown(s) /\ RecordSound(s)

\* A step that leaves a clean recording as it is leaves its tuner alone.
Guarded(s, t) ==
    /\ s.vcr.record /\ s.vcr.clean /\ t.vcr = s.vcr
    /\ t.gui.recording_id = s.gui.recording_id
    => \A f \in Frontends : s.zapit.fe[f].locked => t.zapit.fe[f] = s.zapit.fe[f]

LEMMA NextKept ==
    ASSUME NEW s \in States, NEW t \in States, Later(s, t), NextSound(s),
           t.gui.next = s.gui.next, t.vcr.late = s.vcr.late
    PROVE  NextSound(t)
<1>1. s.gui.next \in Ids \cup {0}
  BY Fields DEF Gui
<1> QED
  BY <1>1, PromisesKept DEF NextSound

LEMMA RecordKept ==
    ASSUME NEW s \in States, NEW t \in States, Later(s, t), RecordSound(s),
           t.vcr.record => /\ s.vcr.record /\ t.gui.recording_id = s.gui.recording_id
                           /\ t.vcr.clean => s.vcr.clean
                           /\ t.vcr.retried = s.vcr.retried
                           /\ s.vcr.missed => t.vcr.missed
    PROVE  RecordSound(t)
<1>1. s.gui.recording_id \in Ids \cup {0}
  BY Fields DEF Gui
<1> QED
  BY <1>1, PromisesKept DEF RecordSound

-----------------------------------------------------------------------------
(* Calls of zapit. *)

Quiet(z) == [z EXCEPT !.sent = <<>>]

LEMMA QuietTuners ==
    ASSUME NEW z, Tuners(z)
    PROVE  /\ Quiet(z) \in ZapitState /\ Tuners(Quiet(z))
           /\ Quiet(z).fe = z.fe /\ Quiet(z).record_fe = z.record_fe
           /\ Quiet(z).recordMode = z.recordMode /\ Quiet(z).standby = z.standby
<1>1. z \in ZapitState /\ <<>> \in Seq(Messages)
  BY DEF Tuners, Locks
<1>2. /\ Quiet(z) \in ZapitState
      /\ Quiet(z).fe = z.fe /\ Quiet(z).record_fe = z.record_fe
      /\ Quiet(z).recordMode = z.recordMode /\ Quiet(z).standby = z.standby
      /\ Quiet(z).live_fe = z.live_fe
  BY <1>1 DEF ZapitState, Quiet
<1> QED
  BY <1>2 DEF Tuners, Locks, LiveTuned

\* What a step that changes only timers, messages and zapit leaves alone.
Beside(s, t) ==
    /\ t.power = s.power /\ t.gui = s.gui /\ t.boxes = s.boxes /\ t.cancelled = s.cancelled

LEMMA Called ==
    ASSUME NEW s, Typed(s), NEW z, Tuners(z)
    PROVE  /\ Typed(Call(s, z)) /\ Later(s, Call(s, z)) /\ Beside(s, Call(s, z))
           /\ Call(s, z).vcr = s.vcr /\ Call(s, z).timers = s.timers
           /\ Call(s, z).zapit = Quiet(z)
<1> DEFINE sent == [k \in 1 .. Len(z.sent) |-> Signal(z.sent[k])]
           q    == s.events \o sent
           t    == [s EXCEPT !.zapit = Quiet(z), !.events = q]
<1>1. Call(s, z) = t
  BY DEF Call, Quiet
<1>2. s \in States /\ z \in ZapitState /\ Quiet(z) \in ZapitState
  BY QuietTuners DEF Typed, Tuners, Locks
<1>3. z.sent \in Seq(Messages) /\ Len(z.sent) \in Nat
  BY <1>2 DEF ZapitState
<1>4. \A k \in 1 .. Len(z.sent) :
         Signal(z.sent[k]) \in Message /\ Signal(z.sent[k]).type \in Messages
  BY <1>3 DEF Signal, Message
<1>5. /\ sent \in Seq(Message) /\ Len(sent) = Len(z.sent)
      /\ \A k \in 1 .. Len(sent) : sent[k].type \in Messages
  BY <1>3, <1>4
<1> HIDE DEF sent
<1>6. s.events \in Seq(Message) /\ Len(s.events) \in Nat /\ Len(sent) \in Nat
  BY <1>2, <1>5, Fields
<1>7. /\ q \in Seq(Message) /\ Len(q) = Len(s.events) + Len(sent)
      /\ \A k \in 1 .. Len(s.events) + Len(sent) :
            q[k] = IF k <= Len(s.events) THEN s.events[k] ELSE sent[k - Len(s.events)]
  BY <1>5, <1>6, ConcatProperties
<1>8. ASSUME NEW k \in Len(s.events) + 1 .. Len(q) PROVE q[k].type \in Messages
  <2>1. k - Len(s.events) \in 1 .. Len(sent) /\ k \in 1 .. Len(s.events) + Len(sent)
        /\ ~(k <= Len(s.events))
    BY <1>6, <1>7
  <2> QED
    BY <1>5, <1>7, <2>1
<1>9. /\ Len(s.events) <= Len(q)
      /\ \A k \in 1 .. Len(s.events) : q[k] = s.events[k]
  BY <1>6, <1>7
<1> HIDE DEF q
<1>10. /\ t \in States /\ Beside(s, t) /\ t.vcr = s.vcr /\ t.timers = s.timers
       /\ t.zapit = Quiet(z) /\ t.events = q
  BY <1>2, <1>7 DEF States, Beside
<1> HIDE DEF t
<1>11. "RECORD_START" \notin Messages /\ "RECORD_STOP" \notin Messages
       /\ \A i \in Ids : EndOf(i).type = "RECORD_STOP"
  BY DEF Messages, EndOf
<1>12. Later(s, t)
  BY <1>8, <1>9, <1>10, <1>11 DEF Later, Over
<1> QED
  BY <1>1, <1>10, <1>12 DEF Typed

\* What a call of zapit leaves there, but for the messages it has sent.
LEMMA CalledQuietly ==
    ASSUME NEW s, Typed(s), NEW z, Tuners(z)
    PROVE  /\ Tuners(Call(s, z).zapit)
           /\ Call(s, z).zapit.fe = z.fe /\ Call(s, z).zapit.record_fe = z.record_fe
           /\ Call(s, z).zapit.recordMode = z.recordMode
           /\ Call(s, z).zapit.standby = z.standby
<1>1. Call(s, z).zapit = Quiet(z)
  BY Called
<1> QED
  BY <1>1, QuietTuners

-----------------------------------------------------------------------------
(* The recording device. *)

LEMMA CutBack ==
    ASSUME NEW s, Core(s), NEW c \in Channels
    PROVE  /\ Typed(CutBackNeutrino(s, c)) /\ Later(s, CutBackNeutrino(s, c))
           /\ Beside(s, CutBackNeutrino(s, c)) /\ CutBackNeutrino(s, c).timers = s.timers
           /\ CutBackNeutrino(s, c).vcr = [s.vcr EXCEPT !.last_mode = s.gui.mode]
           /\ Tuners(CutBackNeutrino(s, c).zapit) /\ ~CutBackNeutrino(s, c).zapit.standby
           /\ CutBackNeutrino(s, c).zapit.recordMode
           /\ ~s.zapit.recordMode /\ AllReceived =>
                 LET z == CutBackNeutrino(s, c).zapit
                 IN  z.record_fe # 0 /\ z.fe[z.record_fe].locked
<1> DEFINE a == IF s.gui.mode = "standby" THEN Call(s, LeaveStandby(s.zapit)) ELSE s
           y == ZapToRecord(a.zapit, c)
           b == Call(a, y)
           x == SetRecordMode(b.zapit)
           d == Call(b, x)
           t == [d EXCEPT !.vcr.last_mode = s.gui.mode]
<1>1. CutBackNeutrino(s, c) = t
  BY DEF CutBackNeutrino
<1>2. Typed(s) /\ s \in States /\ Tuners(s.zapit) /\ Recorder(s)
  BY DEF Core, Typed
<1>3. /\ Typed(a) /\ Later(s, a) /\ Beside(s, a) /\ a.vcr = s.vcr /\ a.timers = s.timers
      /\ Tuners(a.zapit) /\ ~a.zapit.standby /\ a.zapit.recordMode = s.zapit.recordMode
  <2>1. CASE s.gui.mode = "standby"
    <3> DEFINE z == LeaveStandby(s.zapit)
    <3>1. Tuners(z) /\ ~z.standby /\ z.recordMode = s.zapit.recordMode
      BY <1>2, StandbyLeft DEF SameRecorder
    <3> HIDE DEF z
    <3>2. a = Call(s, z)
      BY <2>1 DEF z
    <3> HIDE DEF a
    <3> QED
      <4>1. /\ Tuners(a.zapit) /\ a.zapit.standby = z.standby
            /\ a.zapit.recordMode = z.recordMode
        BY <1>2, <3>1, <3>2, CalledQuietly
      <4>2. Typed(a) /\ Later(s, a) /\ Beside(s, a) /\ a.vcr = s.vcr /\ a.timers = s.timers
        BY <1>2, <3>1, <3>2, Called
      <4> QED
        BY <3>1, <4>1, <4>2
  <2>2. CASE s.gui.mode # "standby"
    BY <1>2, <2>2, SameIsLater DEF Recorder, Beside
  <2> QED
    BY <2>1, <2>2
<1> HIDE DEF a
<1>4. /\ Tuners(y) /\ ~y.standby /\ y.recordMode = a.zapit.recordMode
      /\ AllReceived => y.record_fe # 0 /\ y.fe[y.record_fe].tuned
  BY <1>3, ZappedToRecord
<1> HIDE DEF y
<1>5. /\ Typed(b) /\ Later(a, b) /\ Beside(a, b) /\ b.vcr = a.vcr /\ b.timers = a.timers
      /\ Tuners(b.zapit) /\ ~b.zapit.standby /\ b.zapit.recordMode = a.zapit.recordMode
      /\ AllReceived => b.zapit.record_fe # 0 /\ b.zapit.fe[b.zapit.record_fe].tuned
  <2>1. Typed(a) /\ Tuners(y) /\ b = Call(a, y)
    BY <1>3, <1>4
  <2> HIDE DEF b
  <2>2. Typed(b) /\ Later(a, b) /\ Beside(a, b) /\ b.vcr = a.vcr /\ b.timers = a.timers
    BY <2>1, Called
  <2>3. /\ Tuners(b.zapit) /\ b.zapit.fe = y.fe /\ b.zapit.record_fe = y.record_fe
        /\ b.zapit.recordMode = y.recordMode /\ b.zapit.standby = y.standby
    BY <2>1, CalledQuietly
  <2> QED
    BY <1>4, <2>2, <2>3
<1> HIDE DEF b
<1>6. /\ Tuners(x) /\ ~x.standby /\ x.recordMode
      /\ AllReceived /\ ~b.zapit.recordMode => x.record_fe # 0 /\ x.fe[x.record_fe].locked
  BY <1>5, RecordModeSet
<1> HIDE DEF x
<1>7. /\ Typed(d) /\ Later(b, d) /\ Beside(b, d) /\ d.vcr = b.vcr /\ d.timers = b.timers
      /\ Tuners(d.zapit) /\ ~d.zapit.standby /\ d.zapit.recordMode
      /\ AllReceived /\ ~b.zapit.recordMode =>
            d.zapit.record_fe # 0 /\ d.zapit.fe[d.zapit.record_fe].locked
  <2>1. Typed(b) /\ Tuners(x) /\ d = Call(b, x)
    BY <1>5, <1>6
  <2> HIDE DEF d
  <2>2. /\ Typed(d) /\ Later(b, d) /\ Beside(b, d) /\ d.vcr = b.vcr /\ d.timers = b.timers
    BY <2>1, Called
  <2>3. /\ Tuners(d.zapit) /\ d.zapit.fe = x.fe /\ d.zapit.record_fe = x.record_fe
        /\ d.zapit.recordMode = x.recordMode /\ d.zapit.standby = x.standby
    BY <2>1, CalledQuietly
  <2> QED
    BY <1>6, <2>2, <2>3
<1> HIDE DEF d
<1>8. a \in States /\ b \in States /\ d \in States /\ s.gui \in Gui /\ s.gui.mode \in Modes
  BY <1>2, <1>3, <1>5, <1>7, Fields DEF Typed, Gui
<1>9. /\ t \in States /\ t.vcr = [d.vcr EXCEPT !.last_mode = s.gui.mode]
      /\ t.power = d.power /\ t.gui = d.gui /\ t.zapit = d.zapit /\ t.timers = d.timers
      /\ t.events = d.events /\ t.boxes = d.boxes /\ t.cancelled = d.cancelled
  BY <1>8 DEF States, Vcr
<1> HIDE DEF t
<1>10. Later(s, d)
  BY <1>2, <1>3, <1>5, <1>7, <1>8, LaterTransitive
<1>11. Later(s, t)
  BY <1>9, <1>10 DEF Later, Over
<1>12. Typed(t) /\ Beside(s, t)
  BY <1>3, <1>5, <1>7, <1>9 DEF Typed, Beside
<1> QED
  BY <1>1, <1>3, <1>5, <1>7, <1>9, <1>11, <1>12

LEMMA Restored ==
    ASSUME NEW s, Typed(s), Tuners(s.zapit), s.zapit.standby => s.gui.mode = "standby"
    PROVE  /\ Typed(RestoreNeutrino(s)) /\ Later(s, RestoreNeutrino(s))
           /\ Beside(s, RestoreNeutrino(s)) /\ RestoreNeutrino(s).timers = s.timers
           /\ RestoreNeutrino(s).vcr = s.vcr
           /\ Tuners(RestoreNeutrino(s).zapit) /\ ~RestoreNeutrino(s).zapit.recordMode
           /\ RestoreNeutrino(s).zapit.standby => s.gui.mode = "standby"
<1> DEFINE y == UnsetRecordMode(s.zapit)
           a == Call(s, y)
           x == EnterStandby(a.zapit)
           t == Call(a, x)
<1>1. RestoreNeutrino(s) =
         IF s.vcr.last_mode = "standby" /\ s.gui.mode = "standby" THEN t ELSE a
  BY DEF RestoreNeutrino
<1>2. Tuners(y) /\ ~y.recordMode /\ y.standby = s.zapit.standby
  BY RecordModeUnset
<1> HIDE DEF y
<1>3. /\ Typed(a) /\ Later(s, a) /\ Beside(s, a) /\ a.vcr = s.vcr /\ a.timers = s.timers
      /\ Tuners(a.zapit) /\ ~a.zapit.recordMode /\ a.zapit.standby = s.zapit.standby
  <2>1. /\ Typed(a) /\ Later(s, a) /\ Beside(s, a) /\ a.vcr = s.vcr /\ a.timers = s.timers
    BY <1>2, Called
  <2>2. /\ Tuners(a.zapit) /\ a.zapit.recordMode = y.recordMode
        /\ a.zapit.standby = y.standby
    BY <1>2, CalledQuietly
  <2> QED
    BY <1>2, <2>1, <2>2
<1> HIDE DEF a
<1>4. Tuners(x) /\ ~x.recordMode
  BY <1>3, StandbyEntered DEF SameRecorder
<1> HIDE DEF x
<1>5. /\ Typed(t) /\ Later(a, t) /\ Beside(a, t) /\ t.vcr = a.vcr /\ t.timers = a.timers
      /\ Tuners(t.zapit) /\ ~t.zapit.recordMode
  <2>1. /\ Typed(t) /\ Later(a, t) /\ Beside(a, t) /\ t.vcr = a.vcr /\ t.timers = a.timers
        /\ t.zapit = Quiet(x)
    BY <1>3, <1>4, Called
  <2> HIDE DEF t
  <2>2. Tuners(Quiet(x)) /\ Quiet(x).recordMode = x.recordMode
    BY <1>4, QuietTuners
  <2> QED
    BY <1>4, <2>1, <2>2
<1> HIDE DEF t
<1>6. Later(s, t)
  BY <1>3, <1>5, LaterTransitive DEF Typed
<1> QED
  BY <1>1, <1>3, <1>5, <1>6 DEF Beside

\* What Record makes of the device: it records, or it is as before, but no longer clean.
Recorded(s, t, ok) ==
    /\ t.vcr.late = s.vcr.late
    /\ IF ok
       THEN /\ t.vcr.record /\ t.vcr.clean = ~s.vcr.record
            /\ ~t.vcr.retried /\ ~t.vcr.missed
       ELSE /\ t.vcr.record = s.vcr.record /\ ~t.vcr.clean
            /\ t.vcr.retried = s.vcr.retried /\ t.vcr.missed = s.vcr.missed

LEMMA CoreLater ==
    ASSUME NEW s, Core(s), NEW t, Typed(t), Later(s, t), Tuners(t.zapit), Recorder(t),
           t.boxes = s.boxes, t.cancelled = s.cancelled
    PROVE  Core(t)
BY QueueLater DEF Core, Typed, BoxesSound

LEMMA RecordDoes ==
    ASSUME NEW s, Core(s), NEW c \in Channels, NEW ok \in BOOLEAN
    PROVE  /\ Core(Record(s, c, ok)) /\ Later(s, Record(s, c, ok)) /\ Beside(s, Record(s, c, ok))
           /\ Record(s, c, ok).timers = s.timers /\ Recorded(s, Record(s, c, ok), ok)
<1> DEFINE b   == CutBackNeutrino(s, c)
           cut == [b EXCEPT !.vcr.info = TRUE]
<1>1. Record(s, c, ok) =
         IF ok THEN StartRecording(cut)
         ELSE RestoreNeutrino([cut EXCEPT !.vcr.written = "nothing", !.vcr.clean = FALSE])
  BY DEF Record
<1>2. /\ Typed(s) /\ s \in States /\ Recorder(s) /\ s.vcr \in Vcr /\ s.gui \in Gui
  BY Fields DEF Core, Typed
<1>3. /\ Typed(b) /\ Later(s, b) /\ Beside(s, b) /\ b.timers = s.timers
      /\ b.vcr = [s.vcr EXCEPT !.last_mode = s.gui.mode]
      /\ Tuners(b.zapit) /\ ~b.zapit.standby /\ b.zapit.recordMode
      /\ ~s.zapit.recordMode /\ AllReceived =>
            b.zapit.record_fe # 0 /\ b.zapit.fe[b.zapit.record_fe].locked
  BY CutBack
<1> HIDE DEF b
<1>4. /\ b \in States /\ b.vcr \in Vcr
      /\ b.vcr.record = s.vcr.record /\ b.vcr.late = s.vcr.late
      /\ b.vcr.retried = s.vcr.retried /\ b.vcr.missed = s.vcr.missed
      /\ b.vcr.threads = s.vcr.threads /\ b.vcr.written = s.vcr.written
      /\ b.vcr.clean = s.vcr.clean
  BY <1>2, <1>3 DEF Typed, Vcr, Gui, States
<1>5. /\ cut.vcr = [b.vcr EXCEPT !.info = TRUE]
      /\ cut.power = b.power /\ cut.gui = b.gui /\ cut.zapit = b.zapit /\ cut.timers = b.timers
      /\ cut.events = b.events /\ cut.boxes = b.boxes /\ cut.cancelled = b.cancelled
      /\ cut \in States
  BY <1>4 DEF States, Vcr
<1> HIDE DEF cut
<1>6. /\ cut.vcr \in Vcr /\ cut.vcr.info /\ cut.vcr.record = s.vcr.record
      /\ cut.vcr.late = s.vcr.late /\ cut.vcr.retried = s.vcr.retried
      /\ cut.vcr.missed = s.vcr.missed
      /\ cut.vcr.threads = s.vcr.threads /\ cut.vcr.written = s.vcr.written
      /\ cut.vcr.clean = s.vcr.clean
  BY <1>4, <1>5 DEF Vcr
<1>7. CASE ok
  <2> DEFINE w == IF cut.gui.autoshift \/ cut.gui.timeshiftstatus
                  THEN "temporary" ELSE "recording"
             n == cut.vcr.threads + 1
             first == ~cut.vcr.record
             v == [cut.vcr EXCEPT !.record  = TRUE,
                                  !.written = w,
                                  !.threads = n,
                                  !.clean   = first,
                                  !.retried = FALSE,
                                  !.missed  = FALSE]
             t == [cut EXCEPT !.vcr = v]
  <2>1. StartRecording(cut) = t
    BY DEF StartRecording
  <2>2. w \in {"temporary", "recording"}
    OBVIOUS
  <2>3. n \in Nat /\ first \in BOOLEAN /\ first = ~s.vcr.record
        /\ n > 0 /\ (first => n = 1)
    BY <1>2, <1>6 DEF Vcr, Recorder, Threads
  <2> HIDE DEF w, n, first
  <2>4. /\ v \in Vcr /\ v.record /\ v.clean = ~s.vcr.record /\ ~v.retried /\ ~v.missed
        /\ v.late = s.vcr.late /\ v.info /\ v.threads = n /\ v.written = w
    <3> DEFINE q == cut.vcr
    <3>1. v = [q EXCEPT !.record = TRUE, !.written = w, !.threads = n, !.clean = first,
                        !.retried = FALSE, !.missed = FALSE]
      OBVIOUS
    <3>2. q \in Vcr /\ q.late = s.vcr.late /\ q.info
      BY <1>6
    <3> HIDE DEF v, q
    <3>3. /\ v \in Vcr /\ v.record /\ v.clean = first /\ ~v.retried /\ ~v.missed
          /\ v.late = q.late /\ v.info = q.info /\ v.threads = n /\ v.written = w
      <4>1. /\ v.record /\ v.clean = first /\ ~v.retried /\ ~v.missed
            /\ v.late = q.late /\ v.info = q.info /\ v.threads = n /\ v.written = w
        BY <3>1, <3>2 DEF Vcr
      <4>2. v \in Vcr
        <5> DEFINE u == [q EXCEPT !.record = TRUE, !.written = w, !.threads = n]
        <5>1. u \in Vcr
          BY <2>2, <2>3, <3>2 DEF Vcr
        <5>2. v = [u EXCEPT !.clean = first, !.retried = FALSE, !.missed = FALSE]
          BY <3>1
        <5> HIDE DEF u
        <5> QED
          BY <2>3, <5>1, <5>2 DEF Vcr
      <4> QED
        BY <4>1, <4>2
    <3> QED
      BY <2>3, <3>2, <3>3
  <2> HIDE DEF v
  <2>5. /\ t \in States /\ t.vcr = v /\ t.power = cut.power /\ t.gui = cut.gui
        /\ t.zapit = cut.zapit /\ t.timers = cut.timers /\ t.events = cut.events
        /\ t.boxes = cut.boxes /\ t.cancelled = cut.cancelled
    BY <1>5, <2>4 DEF States
  <2> HIDE DEF t
  <2>6. Typed(t) /\ Later(s, t) /\ Beside(s, t) /\ t.timers = s.timers
    <3>1. Typed(t) /\ Beside(s, t) /\ t.timers = s.timers
      BY <1>3, <1>5, <2>5 DEF Typed, Beside
    <3>2. t.events = b.events /\ t.timers = b.timers
      BY <1>5, <2>5
    <3>3. Later(s, t)
      BY <1>3, <3>2 DEF Later, Over
    <3> QED
      BY <3>1, <3>3
  <2>7. Recorder(t)
    <3>1. Threads(v)
      BY <2>2, <2>3, <2>4 DEF Threads
    <3> QED
      BY <1>2, <1>3, <1>5, <2>4, <2>5, <3>1 DEF Recorder
  <2>8. Core(t)
    BY <1>3, <1>5, <2>5, <2>6, <2>7, CoreLater DEF Beside
  <2>9. Recorded(s, t, ok)
    BY <1>7, <2>4, <2>5 DEF Recorded
  <2> QED
    BY <1>1, <1>7, <2>1, <2>6, <2>8, <2>9
<1>8. CASE ~ok
  <2> DEFINE v == [cut.vcr EXCEPT !.written = "nothing", !.clean = FALSE]
             y == [cut EXCEPT !.vcr = v]
             t == RestoreNeutrino(y)
  <2>1. [cut EXCEPT !.vcr.written = "nothing", !.vcr.clean = FALSE] = y
    BY <1>5, <1>6 DEF States, Vcr
  <2>2. /\ v \in Vcr /\ v.record = s.vcr.record /\ ~v.clean /\ v.info
        /\ v.retried = s.vcr.retried /\ v.missed = s.vcr.missed /\ v.late = s.vcr.late
        /\ v.threads = s.vcr.threads /\ v.written = "nothing"
    BY <1>6 DEF Vcr
  <2> HIDE DEF v
  <2>3. /\ y \in States /\ y.vcr = v /\ y.power = cut.power /\ y.gui = cut.gui
        /\ y.zapit = cut.zapit /\ y.timers = cut.timers /\ y.events = cut.events
        /\ y.boxes = cut.boxes /\ y.cancelled = cut.cancelled
    BY <1>5, <2>2 DEF States
  <2>4. Record(s, c, ok) = t
    BY <1>1, <1>8, <2>1
  <2> HIDE DEF y
  <2>5. Typed(y) /\ Later(s, y) /\ Beside(s, y) /\ y.timers = s.timers
    <3>1. Typed(y) /\ Beside(s, y) /\ y.timers = s.timers
      BY <1>3, <1>5, <2>3 DEF Typed, Beside
    <3>2. y.events = b.events /\ y.timers = b.timers
      BY <1>5, <2>3
    <3>3. Later(s, y)
      BY <1>3, <3>2 DEF Later, Over
    <3> QED
      BY <3>1, <3>3
  <2>6. /\ Typed(t) /\ Later(y, t) /\ Beside(y, t) /\ t.timers = y.timers /\ t.vcr = v
        /\ Tuners(t.zapit) /\ ~t.zapit.recordMode
        /\ t.zapit.standby => y.gui.mode = "standby"
    BY <1>3, <1>5, <2>3, <2>5, Restored
  <2> HIDE DEF t
  <2>7. Later(s, t) /\ Beside(s, t) /\ t.timers = s.timers
    BY <1>2, <2>3, <2>5, <2>6, LaterTransitive DEF Beside, Typed
  <2>8. Recorder(t)
    <3>1. Threads(v)
      BY <1>2, <2>2 DEF Recorder, Threads
    <3> QED
      BY <2>2, <2>5, <2>6, <3>1 DEF Recorder, Beside
  <2>9. Core(t)
    BY <2>6, <2>7, <2>8, CoreLater DEF Beside
  <2>10. Recorded(s, t, ok)
    BY <1>8, <2>2, <2>6 DEF Recorded
  <2> QED
    BY <2>4, <2>7, <2>9, <2>10
<1> QED
  BY <1>7, <1>8

\* Stop ends the recording, or finds that there is none by a null pointer.
LEMMA StopDoes ==
    ASSUME NEW s, Core(s)
    PROVE  /\ Core(Stop(s)) /\ Later(s, Stop(s)) /\ ~Stop(s).vcr.record
           /\ Stop(s).gui = s.gui /\ Stop(s).timers = s.timers /\ Stop(s).boxes = s.boxes
           /\ Stop(s).cancelled = s.cancelled /\ Stop(s).vcr.late = s.vcr.late
<1>1. /\ Typed(s) /\ s \in States /\ Recorder(s) /\ s.vcr \in Vcr /\ s.gui \in Gui
      /\ Tuners(s.zapit)
  BY Fields DEF Core, Typed
<1>2. CASE ~s.vcr.info
  <2> DEFINE t == [s EXCEPT !.power = "crashed"]
  <2>1. Stop(s) = t
    BY <1>2 DEF Stop
  <2>2. /\ t \in States /\ t.vcr = s.vcr /\ t.gui = s.gui /\ t.zapit = s.zapit
        /\ t.timers = s.timers /\ t.events = s.events /\ t.boxes = s.boxes
        /\ t.cancelled = s.cancelled
    BY <1>1 DEF States
  <2> HIDE DEF t
  <2>3. Typed(t) /\ Later(s, t) /\ Recorder(t) /\ ~t.vcr.record
    BY <1>1, <1>2, <2>2, SameIsLater DEF Typed, Recorder
  <2> QED
    BY <1>1, <2>1, <2>2, <2>3, CoreLater
<1>3. CASE s.vcr.info
  <2> DEFINE v == [s.vcr EXCEPT
                      !.threads = 0, !.written = "nothing",
                      !.erased  = @ \/ (/\ s.vcr.written = "recording"
                                        /\ s.gui.autoshift \/ s.gui.timeshiftstatus)]
             y == [s EXCEPT !.vcr = v]
             x == RestoreNeutrino(y)
             w == [x.vcr EXCEPT !.record = FALSE, !.info = FALSE, !.clean = FALSE,
                                !.retried = FALSE, !.missed = FALSE]
             t == [x EXCEPT !.vcr = w]
  <2>1. StopRecording(s) = y
    BY <1>1 DEF StopRecording, States, Vcr
  <2>2. v \in Vcr /\ v.late = s.vcr.late /\ v.threads = 0 /\ v.written = "nothing"
    BY <1>1 DEF Vcr, Gui
  <2> HIDE DEF v
  <2>3. /\ y \in States /\ y.vcr = v /\ y.power = s.power /\ y.gui = s.gui
        /\ y.zapit = s.zapit /\ y.timers = s.timers /\ y.events = s.events
        /\ y.boxes = s.boxes /\ y.cancelled = s.cancelled
    BY <1>1, <2>2 DEF States
  <2> HIDE DEF y
  <2>4. Typed(y) /\ Later(s, y)
    BY <1>1, <2>3, SameIsLater DEF Typed
  <2>5. /\ Typed(x) /\ Later(y, x) /\ Beside(y, x) /\ x.timers = y.timers /\ x.vcr = v
        /\ Tuners(x.zapit) /\ ~x.zapit.recordMode
        /\ x.zapit.standby => y.gui.mode = "standby"
    BY <1>1, <2>3, <2>4, Restored DEF Recorder
  <2>6. Stop(s) = t
    BY <1>3, <2>1 DEF Stop
  <2> HIDE DEF x
  <2>7. w \in Vcr /\ ~w.record /\ w.late = s.vcr.late /\ Threads(w)
    BY <2>2, <2>5 DEF Vcr, Threads
  <2> HIDE DEF w
  <2>8. /\ t \in States /\ t.vcr = w /\ t.gui = x.gui
        /\ t.zapit = x.zapit /\ t.timers = x.timers /\ t.events = x.events
        /\ t.boxes = x.boxes /\ t.cancelled = x.cancelled
    BY <2>5, <2>7 DEF States, Typed
  <2> HIDE DEF t
  <2>9. Later(s, x)
    BY <1>1, <2>3, <2>4, <2>5, LaterTransitive DEF Typed
  <2>10. Typed(t) /\ Later(s, t)
    BY <2>5, <2>8, <2>9 DEF Typed, Later, Over
  <2>11. Recorder(t)
    BY <2>3, <2>5, <2>7, <2>8 DEF Recorder, Beside
  <2>12. Core(t)
    BY <2>3, <2>5, <2>8, <2>10, <2>11, CoreLater DEF Beside
  <2> QED
    BY <2>3, <2>5, <2>6, <2>7, <2>8, <2>10, <2>12 DEF Beside
<1> QED
  BY <1>2, <1>3

-----------------------------------------------------------------------------
(* timerd's answers, and the end of a timeshift. *)

LEMMA EndSent ==
    ASSUME NEW s, Typed(s), NEW i \in Ids, s.timers[i].state = "running", NEW t,
           t.timers = [s.timers EXCEPT ![i].state = "over"],
           t.events = Append(s.events, EndOf(i))
    PROVE  /\ Later(s, t)
           /\ t.timers \in [Ids -> Timer] /\ t.events \in Seq(Message)
           /\ \A j \in Ids : t.timers[j].state # "free" => t.timers[j].channel \in Channels
           /\ \A j \in Ids : t.timers[j].state = "free" <=> s.timers[j].state = "free"
<1>1. /\ s.timers \in [Ids -> Timer] /\ s.events \in Seq(Message) /\ Len(s.events) \in Nat
      /\ \A j \in Ids : s.timers[j].state # "free" => s.timers[j].channel \in Channels
  BY Fields DEF Typed
<1>2. EndOf(i) \in Message /\ EndOf(i).type = "RECORD_STOP" /\ EndOf(i).id = i
  BY DEF EndOf, Message
<1>3. \A j \in Ids : EndOf(j) = EndOf(i) => j = i
  BY DEF EndOf
<1>4. /\ t.events \in Seq(Message) /\ Len(t.events) = Len(s.events) + 1
      /\ \A k \in 1 .. Len(s.events) : t.events[k] = s.events[k]
      /\ t.events[Len(s.events) + 1] = EndOf(i)
  BY <1>1, <1>2
<1>5. \A k : k \in Len(s.events) + 1 .. Len(t.events) <=> k = Len(s.events) + 1
  BY <1>1, <1>4
<1>6. /\ t.timers \in [Ids -> Timer]
      /\ \A j \in Ids : j # i => t.timers[j] = s.timers[j]
      /\ t.timers[i].state = "over" /\ t.timers[i].channel = s.timers[i].channel
  BY <1>1 DEF Timer
<1>7. Later(s, t)
  BY <1>1, <1>2, <1>3, <1>4, <1>5, <1>6 DEF Later, Over
<1> QED
  BY <1>1, <1>4, <1>6, <1>7

LEMMA TimerStopped ==
    ASSUME NEW s, Core(s), NEW i \in Ids \cup {0}
    PROVE  /\ Core(StopTimerEvent(s, i)) /\ Later(s, StopTimerEvent(s, i))
           /\ Beside(s, StopTimerEvent(s, i)) /\ StopTimerEvent(s, i).vcr = s.vcr
           /\ StopTimerEvent(s, i).zapit = s.zapit
           /\ FreeIds(StopTimerEvent(s, i)) = FreeIds(s)
<1>1. /\ Typed(s) /\ s \in States /\ Recorder(s) /\ Tuners(s.zapit)
  BY DEF Core, Typed
<1>2. CASE i \in Ids /\ s.timers[i].state = "running"
  <2> DEFINE t == [s EXCEPT !.timers = [s.timers EXCEPT ![i].state = "over"],
                            !.events = Append(s.events, EndOf(i))]
  <2>1. StopTimerEvent(s, i) = t
    BY <1>1, <1>2 DEF StopTimerEvent, EndOf, States
  <2>2. /\ t.timers = [s.timers EXCEPT ![i].state = "over"]
        /\ t.events = Append(s.events, EndOf(i))
        /\ t.power = s.power /\ t.gui = s.gui /\ t.vcr = s.vcr /\ t.zapit = s.zapit
        /\ t.boxes = s.boxes /\ t.cancelled = s.cancelled
    BY <1>1 DEF States
  <2>3. /\ Later(s, t)
        /\ t.timers \in [Ids -> Timer] /\ t.events \in Seq(Message)
        /\ \A j \in Ids : t.timers[j].state # "free" => t.timers[j].channel \in Channels
        /\ \A j \in Ids : t.timers[j].state = "free" <=> s.timers[j].state = "free"
    <3> HIDE DEF t
    <3> QED
      BY <1>1, <1>2, <2>2, EndSent
  <2>4. t \in States
    BY <1>1, <2>2, <2>3 DEF States
  <2> HIDE DEF t
  <2>5. Typed(t) /\ Recorder(t) /\ Beside(s, t) /\ FreeIds(t) = FreeIds(s)
    BY <1>1, <2>2, <2>3, <2>4 DEF Typed, Recorder, Beside, FreeIds
  <2> QED
    BY <1>1, <2>1, <2>2, <2>3, <2>5, CoreLater
<1>3. CASE ~(i \in Ids /\ s.timers[i].state = "running")
  BY <1>1, <1>3, SameIsLater DEF StopTimerEvent, Beside
<1> QED
  BY <1>2, <1>3

\* A step of the GUI's own flags.
LEMMA GuiSet ==
    ASSUME NEW s, Core(s), NEW g \in Gui, s.zapit.standby => g.mode = "standby"
    PROVE  LET t == [s EXCEPT !.gui = g]
           IN  /\ Core(t) /\ Later(s, t) /\ t.gui = g /\ t.power = s.power /\ t.vcr = s.vcr
               /\ t.zapit = s.zapit /\ t.timers = s.timers /\ t.events = s.events
               /\ t.boxes = s.boxes /\ t.cancelled = s.cancelled
<1> DEFINE t == [s EXCEPT !.gui = g]
<1>1. Typed(s) /\ s \in States /\ Recorder(s) /\ Tuners(s.zapit)
  BY DEF Core, Typed
<1>2. /\ t \in States /\ t.gui = g /\ t.power = s.power /\ t.vcr = s.vcr
      /\ t.zapit = s.zapit /\ t.timers = s.timers /\ t.events = s.events
      /\ t.boxes = s.boxes /\ t.cancelled = s.cancelled
  BY <1>1 DEF States
<1> HIDE DEF t
<1>3. Typed(t) /\ Later(s, t) /\ Recorder(t)
  BY <1>1, <1>2, SameIsLater DEF Typed, Recorder
<1>4. Core(t)
  BY <1>1, <1>2, <1>3, CoreLater
<1> QED
  BY <1>2, <1>3, <1>4 DEF t

\* The timer is added as running, under an identifier that was free.
LEMMA ImmediateAdded ==
    ASSUME NEW s, Core(s), FreeIds(s) # {}
    PROVE  LET t == AddImmediate(s)
               i == t.gui.recording_id
           IN  /\ Core(t) /\ Later(s, t)
               /\ i \in FreeIds(s) /\ t.timers[i].state = "running"
               /\ ~Has(t, StartOf(i))
               /\ t.gui.next = s.gui.next /\ t.vcr = s.vcr /\ t.zapit = s.zapit
               /\ t.boxes = s.boxes /\ t.cancelled = s.cancelled
<1> DEFINE i  == CHOOSE j \in FreeIds(s) : \A k \in FreeIds(s) : j <= k
           g  == [s.gui EXCEPT !.recording_id = i]
           ts == [s.timers EXCEPT ![i] = [channel |-> s.zapit.live, state |-> "running"]]
           t  == [s EXCEPT !.timers = ts, !.gui = g]
<1>1. /\ Typed(s) /\ s \in States /\ Recorder(s) /\ Tuners(s.zapit) /\ Queue(s)
      /\ s.gui \in Gui /\ s.timers \in [Ids -> Timer] /\ s.zapit.live \in Channels
  BY Fields DEF Core, Typed, Tuners, Locks, ZapitState
<1>2. i \in FreeIds(s)
  <2>1. MaxId \in Nat /\ FreeIds(s) \subseteq 1 .. MaxId
    BY RecordingAssumption DEF FreeIds, Ids
  <2>2. \E j \in FreeIds(s) : \A k \in FreeIds(s) : j <= k
    BY <2>1, FirstOf
  <2> QED
    BY <2>2
<1> HIDE DEF i
<1>3. i \in Ids /\ s.timers[i].state = "free"
  BY <1>2 DEF FreeIds
<1>4. AddImmediate(s) = t
  BY <1>1 DEF AddImmediate, States, Gui, i
<1>5. g \in Gui /\ g.recording_id = i /\ g.next = s.gui.next /\ g.mode = s.gui.mode
  BY <1>1, <1>3 DEF Gui
<1>6. /\ ts \in [Ids -> Timer] /\ ts[i].state = "running" /\ ts[i].channel \in Channels
      /\ \A j \in Ids : j # i => ts[j] = s.timers[j]
  BY <1>1, <1>3 DEF Timer
<1> HIDE DEF g, ts
<1>7. /\ t \in States /\ t.gui = g /\ t.timers = ts /\ t.power = s.power /\ t.vcr = s.vcr
      /\ t.zapit = s.zapit /\ t.events = s.events
      /\ t.boxes = s.boxes /\ t.cancelled = s.cancelled
  BY <1>1, <1>5, <1>6 DEF States
<1> HIDE DEF t
<1>8. Later(s, t)
  BY <1>1, <1>3, <1>6, <1>7, SameIsLater
<1>9. Typed(t) /\ Recorder(t)
  BY <1>1, <1>5, <1>6, <1>7 DEF Typed, Recorder
<1>10. Core(t)
  BY <1>1, <1>7, <1>8, <1>9, CoreLater
<1>11. ~Has(t, StartOf(i))
  BY <1>1, <1>3, <1>7 DEF Queue, Has, Begun
<1> QED
  BY <1>2, <1>4, <1>5, <1>6, <1>7, <1>8, <1>10, <1>11

\* What is left of s when its recording has been ended, or there was none to end.
Ended(s, t) ==
    /\ Core(t) /\ Later(s, t)
    /\ t.boxes = s.boxes /\ t.cancelled = s.cancelled
    /\ t.gui.next = s.gui.next /\ t.gui.mode = s.gui.mode
    /\ t.vcr.late = s.vcr.late
    /\ FreeIds(t) = FreeIds(s)
    /\ \/ /\ t.vcr = s.vcr /\ t.zapit = s.zapit
          /\ t.gui.recording_id = s.gui.recording_id
       \/ ~t.vcr.record

LEMMA AutoRecordStopped ==
    ASSUME NEW s, Core(s)
    PROVE  Ended(s, StopAutoRecord(s))
<1>1. s \in States /\ s.gui \in Gui /\ s.gui.recording_id \in Ids \cup {0} /\ Recorder(s)
  BY Fields DEF Core, Typed, Gui
<1>2. CASE s.gui.autoshift /\ s.gui.recordingstatus
  <2> DEFINE a == Stop(s)
             b == StopTimerEvent(a, s.gui.recording_id)
             g == [b.gui EXCEPT !.autoshift = FALSE, !.recording_id = 0]
             t == [b EXCEPT !.gui = g]
  <2>1. /\ Core(a) /\ Later(s, a) /\ ~a.vcr.record
        /\ a.gui = s.gui /\ a.timers = s.timers /\ a.boxes = s.boxes
        /\ a.cancelled = s.cancelled /\ a.vcr.late = s.vcr.late
    BY StopDoes
  <2>2. StopAutoRecord(s) = [b EXCEPT !.gui.autoshift = FALSE, !.gui.recording_id = 0]
    BY <1>2 DEF StopAutoRecord
  <2> HIDE DEF a
  <2>3. /\ Core(b) /\ Later(a, b) /\ Beside(a, b) /\ b.vcr = a.vcr /\ b.zapit = a.zapit
        /\ FreeIds(b) = FreeIds(a)
    BY <1>1, <2>1, TimerStopped
  <2> HIDE DEF b
  <2>4. b \in States /\ b.gui \in Gui /\ Recorder(b)
    BY <2>3, Fields DEF Core, Typed
  <2>5. StopAutoRecord(s) = t
    BY <2>2, <2>4 DEF States, Gui
  <2>6. g \in Gui /\ g.next = b.gui.next /\ g.mode = b.gui.mode
    BY <2>4 DEF Gui
  <2> HIDE DEF g
  <2>7. /\ Core(t) /\ Later(b, t) /\ t.gui = g /\ t.vcr = b.vcr /\ t.timers = b.timers
        /\ t.boxes = b.boxes /\ t.cancelled = b.cancelled
    BY <2>3, <2>4, <2>6, GuiSet DEF Recorder
  <2> HIDE DEF t
  <2>8. Later(s, t)
    BY <2>1, <2>3, <2>7, LaterTransitive DEF Core, Typed
  <2>9. FreeIds(t) = FreeIds(s)
    BY <2>1, <2>3, <2>7 DEF FreeIds
  <2> QED
    BY <2>1, <2>3, <2>5, <2>6, <2>7, <2>8, <2>9 DEF Ended, Beside
<1>3. CASE ~(s.gui.autoshift /\ s.gui.recordingstatus)
  <2> DEFINE g == [s.gui EXCEPT !.shift_timer = FALSE]
             t == [s EXCEPT !.gui = g]
  <2>1. StopAutoRecord(s) = t
    BY <1>1, <1>3 DEF StopAutoRecord, States, Gui
  <2>2. /\ g \in Gui /\ g.next = s.gui.next /\ g.mode = s.gui.mode
        /\ g.recording_id = s.gui.recording_id
    BY <1>1 DEF Gui
  <2> HIDE DEF g
  <2>3. /\ Core(t) /\ Later(s, t) /\ t.gui = g /\ t.vcr = s.vcr /\ t.timers = s.timers
        /\ t.zapit = s.zapit /\ t.boxes = s.boxes /\ t.cancelled = s.cancelled
    BY <1>1, <2>2, GuiSet DEF Recorder
  <2> HIDE DEF t
  <2> QED
    BY <2>1, <2>2, <2>3 DEF Ended, FreeIds
<1> QED
  BY <1>2, <1>3

LEMMA TimeshiftEnded ==
    ASSUME NEW s, Core(s)
    PROVE  Ended(s, EndTimeshift(s))
<1>1. CASE s.gui.autoshift
  <2> DEFINE a == StopAutoRecord(s)
             g == [a.gui EXCEPT !.recordingstatus = FALSE, !.timeshiftstatus = FALSE]
             t == [a EXCEPT !.gui = g]
  <2>1. Ended(s, a) /\ EndTimeshift(s) = [a EXCEPT !.gui.recordingstatus = FALSE,
                                                   !.gui.timeshiftstatus = FALSE]
    BY <1>1, AutoRecordStopped DEF EndTimeshift
  <2> HIDE DEF a
  <2>2. Core(a) /\ a \in States /\ a.gui \in Gui /\ Recorder(a)
    BY <2>1, Fields DEF Ended, Core, Typed
  <2>3. EndTimeshift(s) = t
    BY <2>1, <2>2 DEF States, Gui
  <2>4. /\ g \in Gui /\ g.next = a.gui.next /\ g.mode = a.gui.mode
        /\ g.recording_id = a.gui.recording_id
    BY <2>2 DEF Gui
  <2> HIDE DEF g
  <2>5. /\ Core(t) /\ Later(a, t) /\ t.gui = g /\ t.vcr = a.vcr /\ t.timers = a.timers
        /\ t.zapit = a.zapit /\ t.boxes = a.boxes /\ t.cancelled = a.cancelled
    BY <2>2, <2>4, GuiSet DEF Recorder
  <2> HIDE DEF t
  <2>6. Later(s, t)
    BY <2>1, <2>2, <2>5, LaterTransitive DEF Ended, Core, Typed
  <2> QED
    BY <2>1, <2>3, <2>4, <2>5, <2>6 DEF Ended, FreeIds
<1>2. CASE ~s.gui.autoshift
  BY <1>2, SameIsLater DEF EndTimeshift, Ended, Core, Typed
<1> QED
  BY <1>1, <1>2

-----------------------------------------------------------------------------
(* Small steps. *)

\* Only `power' and `cancelled' differ.
Alike(s, t) ==
    /\ t.cancelled => t.boxes # <<>>
    /\ t.gui = s.gui /\ t.vcr = s.vcr /\ t.zapit = s.zapit /\ t.timers = s.timers
    /\ t.events = s.events /\ t.boxes = s.boxes

LEMMA AlikeSound ==
    ASSUME NEW s, Sound(s), NEW t \in States, Alike(s, t)
    PROVE  Sound(t)
<1>1. s \in States
  BY DEF Sound, Core, Typed
<1>2. Later(s, t)
  BY <1>1, SameIsLater DEF Alike
<1>3. Core(t)
  BY <1>1, <1>2, QueueLater DEF Alike, Sound, Core, Typed, Recorder, BoxesSound
<1> QED
  BY <1>1, <1>2, <1>3, NextKept, RecordKept DEF Sound, Alike, NextShown

\* Flags of the GUI and what the model observes of a recording.
WithFlags(s, g, v) == [s EXCEPT !.gui = g, !.vcr = v]

LEMMA FlagsSet ==
    ASSUME NEW s, Core(s), NEW g \in Gui, s.zapit.standby => g.mode = "standby",
           NEW v \in Vcr, v.record = s.vcr.record, v.info = s.vcr.info, v.clean = s.vcr.clean,
           v.threads = s.vcr.threads, v.written = s.vcr.written
    PROVE  LET t == WithFlags(s, g, v)
           IN  /\ Core(t) /\ Later(s, t) /\ t.gui = g /\ t.power = s.power /\ t.vcr = v
               /\ t.zapit = s.zapit /\ t.timers = s.timers /\ t.events = s.events
               /\ t.boxes = s.boxes /\ t.cancelled = s.cancelled
<1> DEFINE t == WithFlags(s, g, v)
<1>1. Typed(s) /\ s \in States /\ Recorder(s) /\ Tuners(s.zapit)
  BY DEF Core, Typed
<1>2. /\ t \in States /\ t.gui = g /\ t.power = s.power /\ t.vcr = v
      /\ t.zapit = s.zapit /\ t.timers = s.timers /\ t.events = s.events
      /\ t.boxes = s.boxes /\ t.cancelled = s.cancelled
  BY <1>1 DEF States, WithFlags
<1> HIDE DEF t
<1>3. Typed(t) /\ Later(s, t) /\ Recorder(t)
  BY <1>1, <1>2, SameIsLater DEF Typed, Recorder, Threads
<1>4. Core(t)
  BY <1>1, <1>2, <1>3, CoreLater
<1> QED
  BY <1>2, <1>3, <1>4 DEF t

LEMMA BoxShown ==
    ASSUME NEW s, Core(s), NEW box \in Boxes \cup Errors
    PROVE  LET t == Show(s, box)
           IN  /\ Core(t) /\ Later(s, t) /\ t.gui = s.gui /\ t.vcr = s.vcr
               /\ t.zapit = s.zapit /\ t.timers = s.timers
               /\ Len(t.boxes) = Len(s.boxes) + 1 /\ t.boxes[Len(s.boxes) + 1] = box
               /\ \A k \in 1 .. Len(s.boxes) : t.boxes[k] = s.boxes[k]
<1> DEFINE t == Show(s, box)
<1>1. /\ Typed(s) /\ s \in States /\ Recorder(s) /\ Tuners(s.zapit) /\ Queue(s)
      /\ BoxesSound(s) /\ s.boxes \in Seq(Boxes \cup Errors) /\ Len(s.boxes) \in Nat
  BY Fields DEF Core, Typed
<1>2. /\ t \in States /\ t.gui = s.gui /\ t.vcr = s.vcr /\ t.zapit = s.zapit
      /\ t.timers = s.timers /\ t.events = s.events
      /\ t.boxes = Append(s.boxes, box)
  <2>1. Append(s.boxes, box) \in Seq(Boxes \cup Errors)
    BY <1>1
  <2> QED
    BY <1>1, <2>1 DEF States, Show
<1> HIDE DEF t
<1>3. /\ Len(t.boxes) = Len(s.boxes) + 1 /\ t.boxes[Len(s.boxes) + 1] = box
      /\ \A k \in 1 .. Len(s.boxes) : t.boxes[k] = s.boxes[k]
  BY <1>1, <1>2
<1>4. Later(s, t)
  BY <1>1, <1>2, SameIsLater
<1>5. Typed(t) /\ Recorder(t) /\ Queue(t)
  BY <1>1, <1>2, <1>4, QueueLater DEF Typed, Recorder
<1>6. BoxesSound(t)
  BY <1>1, <1>3 DEF BoxesSound
<1> QED
  BY <1>1, <1>2, <1>3, <1>4, <1>5, <1>6 DEF Core, t

LEMMA EndedSound ==
    ASSUME NEW s, Sound(s), NEW t, Ended(s, t)
    PROVE  Sound(t) /\ Guarded(s, t)
<1>1. /\ s \in States /\ t \in States /\ Later(s, t) /\ Core(t)
      /\ t.gui.next = s.gui.next /\ t.vcr.late = s.vcr.late /\ t.boxes = s.boxes
      /\ NextSound(s) /\ NextShown(s) /\ RecordSound(s)
  BY DEF Sound, Ended, Core, Typed
<1>2. NextSound(t) /\ NextShown(t)
  BY <1>1, NextKept DEF NextShown
<1>3. RecordSound(t)
  BY <1>1, RecordKept DEF Ended
<1> QED
  BY <1>1, <1>2, <1>3 DEF Sound, Guarded, Ended

-----------------------------------------------------------------------------
(* The handlers. *)

LEMMA NextStarted ==
    ASSUME NEW s, Core(s), NextSound(s), s.gui.next # 0, s.vcr.record => ~s.vcr.late,
           NEW caller \in {"start", "stop"}, NEW ok \in BOOLEAN
    PROVE  LET t == StartNextRecording(s, caller, ok)
           IN  /\ Sound(t) /\ t.gui.recording_id = s.gui.next
               /\ t.vcr.record /\ t.vcr.clean => t.vcr.retried = s.vcr.late /\ ~s.vcr.record
<1> DEFINE i == s.gui.next
           c == s.timers[i].channel
           g == [s.gui EXCEPT !.recording_id = i]
           a == [s EXCEPT !.gui = g]
           b == Record(a, c, ok)
           v == [b.vcr EXCEPT !.retried = s.vcr.late, !.late = FALSE]
           h == [b.gui EXCEPT !.recordingstatus = TRUE, !.next = 0]
           t == StartNextRecording(s, caller, ok)
<1>1. /\ Typed(s) /\ s \in States /\ Recorder(s) /\ s.gui \in Gui /\ s.vcr \in Vcr
      /\ s.gui.next \in Ids
  BY Fields DEF Core, Typed, Gui
<1>2. c \in Channels
  BY <1>1 DEF NextSound, Begun, Typed
<1>3. g \in Gui /\ g.recording_id = i /\ g.next = i /\ g.mode = s.gui.mode
  BY <1>1 DEF Gui
<1>4. t = IF ok THEN Forget([b EXCEPT !.gui.recordingstatus = TRUE, !.vcr.retried = s.vcr.late])
          ELSE Show(b, caller)
  BY <1>1 DEF StartNextRecording, States, Gui
<1> HIDE DEF g, t
<1>5. /\ Core(a) /\ Later(s, a) /\ a.gui = g /\ a.vcr = s.vcr /\ a.timers = s.timers
  BY <1>1, <1>3, GuiSet DEF Recorder
<1> HIDE DEF a, c
<1>6. /\ Core(b) /\ Later(a, b) /\ Beside(a, b) /\ b.timers = a.timers /\ Recorded(a, b, ok)
  BY <1>2, <1>5, RecordDoes
<1> HIDE DEF b
<1>7. b \in States /\ b.gui \in Gui /\ b.vcr \in Vcr /\ Recorder(b) /\ a \in States
  BY <1>5, <1>6, Fields DEF Core, Typed
<1>8. Later(s, b)
  BY <1>1, <1>5, <1>6, <1>7, LaterTransitive
<1>9. /\ Begun(b, i) /\ ~Has(b, StartOf(i))
      /\ ~s.vcr.late => Alive(b, i)
      /\ s.vcr.late => Over(b, i) /\ ~Has(b, EndOf(i))
  BY <1>1, <1>7, <1>8, PromisesKept DEF NextSound
<1>10. CASE ok
  <2> DEFINE u == WithFlags(b, h, v)
  <2>1. t = u
    BY <1>4, <1>7, <1>10 DEF Forget, WithFlags, States, Gui, Vcr
  <2>2. /\ h \in Gui /\ h.next = 0 /\ h.recording_id = i /\ h.mode = b.gui.mode
        /\ v \in Vcr /\ v.record = b.vcr.record /\ v.info = b.vcr.info
        /\ v.clean = b.vcr.clean /\ v.retried = s.vcr.late
        /\ v.threads = b.vcr.threads /\ v.written = b.vcr.written
        /\ v.record /\ v.clean = ~s.vcr.record
    <3>1. /\ b.gui = g /\ b.gui \in Gui /\ b.vcr \in Vcr /\ s.vcr.late \in BOOLEAN
          /\ b.vcr.record /\ b.vcr.clean = ~s.vcr.record
      BY <1>1, <1>5, <1>6, <1>7, <1>10 DEF Vcr, Recorded, Beside
    <3>2. h \in Gui /\ h.next = 0 /\ h.recording_id = i /\ h.mode = b.gui.mode
      BY <1>3, <3>1 DEF Gui
    <3>3. /\ v \in Vcr /\ v.record = b.vcr.record /\ v.info = b.vcr.info
          /\ v.clean = b.vcr.clean /\ v.retried = s.vcr.late
          /\ v.threads = b.vcr.threads /\ v.written = b.vcr.written
      BY <3>1 DEF Vcr
    <3> HIDE DEF h, v
    <3> QED
      BY <3>1, <3>2, <3>3
  <2> HIDE DEF h, v
  <2>3. /\ Core(u) /\ u.gui = h /\ u.vcr = v /\ u.timers = b.timers /\ u.events = b.events
    <3>1. b.zapit.standby => h.mode = "standby"
      BY <1>7, <2>2 DEF Recorder
    <3>2. h \in Gui /\ v \in Vcr /\ Core(b)
      BY <1>6, <2>2
    <3>3. v.record = b.vcr.record /\ v.info = b.vcr.info /\ v.clean = b.vcr.clean
          /\ v.threads = b.vcr.threads /\ v.written = b.vcr.written
      BY <2>2
    <3> QED
      BY <3>1, <3>2, <3>3, FlagsSet
  <2> HIDE DEF u
  <2>4. NextSound(u) /\ NextShown(u)
    BY <2>2, <2>3 DEF NextSound, NextShown
  <2>5. RecordSound(u)
    BY <1>1, <1>9, <2>2, <2>3 DEF RecordSound, Begun, Has, Alive, Runs, Over
  <2> QED
    BY <2>1, <2>2, <2>3, <2>4, <2>5 DEF Sound, t
<1>11. CASE ~ok
  <2>1. caller \in Boxes \cup Errors
    BY DEF Errors
  <2>2. t = Show(b, caller)
    BY <1>4, <1>11
  <2>3. /\ Core(t) /\ Later(b, t) /\ t.gui = b.gui /\ t.vcr = b.vcr
        /\ Len(t.boxes) = Len(b.boxes) + 1 /\ t.boxes[Len(b.boxes) + 1] = caller
    BY <1>6, <2>1, <2>2, BoxShown
  <2>4. /\ t.gui = g /\ t.vcr.late = s.vcr.late
        /\ t.vcr.record = s.vcr.record /\ ~t.vcr.clean
    BY <1>5, <1>6, <1>11, <2>3 DEF Recorded, Beside
  <2>5. t \in States /\ Len(b.boxes) \in Nat
    BY <1>7, <2>3, Fields DEF Core, Typed
  <2>6. /\ Begun(t, i) /\ ~Has(t, StartOf(i))
        /\ ~s.vcr.late => Alive(t, i)
        /\ s.vcr.late => Over(t, i) /\ ~Has(t, EndOf(i))
    BY <1>1, <1>7, <1>9, <2>3, <2>5, PromisesKept
  <2>7. NextSound(t)
    BY <1>3, <2>4, <2>6 DEF NextSound
  <2>8. NextShown(t)
    <3>1. Len(b.boxes) + 1 \in 1 .. Len(t.boxes)
      BY <2>3, <2>5
    <3> QED
      BY <2>3, <3>1 DEF NextShown
  <2>9. RecordSound(t)
    BY <1>1, <1>3, <2>4, <2>6 DEF RecordSound
  <2> QED
    BY <1>3, <2>3, <2>4, <2>7, <2>8, <2>9 DEF Sound, t
<1> QED
  BY <1>10, <1>11 DEF t

LEMMA CancelledReturned ==
    ASSUME NEW s, Sound(s)
    PROVE  Sound(ReturnCancelAll(s)) /\ Alike(s, ReturnCancelAll(s))
<1> DEFINE t == ReturnCancelAll(s)
<1>1. s \in States
  BY DEF Sound, Core, Typed
<1>2. t \in States /\ Alike(s, t)
  <2>1. (s.boxes # <<>>) \in BOOLEAN
    OBVIOUS
  <2> QED
    BY <1>1, <2>1 DEF ReturnCancelAll, States, Alike
<1> QED
  BY <1>2, AlikeSound

LEMMA GuiSound ==
    ASSUME NEW s, Sound(s), NEW g \in Gui, s.zapit.standby => g.mode = "standby",
           g.next = s.gui.next, g.recording_id = s.gui.recording_id
    PROVE  LET t == [s EXCEPT !.gui = g]
           IN  /\ Sound(t) /\ t.gui = g /\ t.vcr = s.vcr /\ t.zapit = s.zapit
               /\ t.timers = s.timers /\ t.boxes = s.boxes /\ t.events = s.events
               /\ t.cancelled = s.cancelled /\ t.power = s.power
<1> DEFINE t == [s EXCEPT !.gui = g]
<1>1. Core(s) /\ s \in States /\ NextSound(s) /\ NextShown(s) /\ RecordSound(s)
  BY DEF Sound, Core, Typed
<1>2. /\ Core(t) /\ Later(s, t) /\ t.gui = g /\ t.vcr = s.vcr /\ t.zapit = s.zapit
      /\ t.timers = s.timers /\ t.boxes = s.boxes /\ t.events = s.events
      /\ t.cancelled = s.cancelled /\ t.power = s.power
  BY <1>1, GuiSet
<1> HIDE DEF t
<1>3. t \in States
  BY <1>2 DEF Core, Typed
<1>4. NextSound(t) /\ RecordSound(t) /\ NextShown(t)
  BY <1>1, <1>2, <1>3, NextKept, RecordKept DEF NextShown
<1> QED
  BY <1>2, <1>4 DEF Sound, t

\* A zap, and standby, leave the recorder alone.
LEMMA CallSound ==
    ASSUME NEW s, Sound(s), NEW z, Tuners(z), SameRecorder(s.zapit, z),
           z.standby => s.gui.mode = "standby"
    PROVE  LET t == Call(s, z)
           IN  /\ Sound(t) /\ Guarded(s, t) /\ Beside(s, t) /\ t.vcr = s.vcr
               /\ t.timers = s.timers /\ t.zapit = Quiet(z)
<1> DEFINE t == Call(s, z)
<1>1. /\ Core(s) /\ Typed(s) /\ s \in States /\ Recorder(s)
      /\ NextSound(s) /\ NextShown(s) /\ RecordSound(s)
  BY DEF Sound, Core, Typed
<1>2. /\ Typed(t) /\ Later(s, t) /\ Beside(s, t) /\ t.vcr = s.vcr /\ t.timers = s.timers
      /\ t.zapit = Quiet(z)
  BY <1>1, Called
<1> HIDE DEF t
<1>3. /\ Tuners(t.zapit) /\ t.zapit.fe = z.fe /\ t.zapit.record_fe = z.record_fe
      /\ t.zapit.recordMode = z.recordMode /\ t.zapit.standby = z.standby
  BY <1>2, QuietTuners
<1>4. z.record_fe \in Frontends \cup {0}
  BY DEF Tuners, Locks, ZapitState
<1>5. Recorder(t)
  BY <1>1, <1>2, <1>3, <1>4 DEF Recorder, SameRecorder, SameLocks, Beside
<1>6. Core(t) /\ t \in States
  BY <1>1, <1>2, <1>3, <1>5, CoreLater DEF Beside, Typed
<1>7. NextSound(t) /\ RecordSound(t) /\ NextShown(t)
  BY <1>1, <1>2, <1>6, NextKept, RecordKept DEF NextShown, Beside
<1>8. Guarded(s, t)
  BY <1>3 DEF Guarded, SameRecorder, SameLocks
<1> QED
  BY <1>2, <1>6, <1>7, <1>8 DEF Sound, t

\* A recording started by hand gets an identifier that was free.
Fresh(s, t) == t.vcr.record /\ t.vcr.clean => t.gui.recording_id \in FreeIds(s)

LEMMA FreshGuarded ==
    ASSUME NEW s, Sound(s), NEW t, Fresh(s, t)
    PROVE  Guarded(s, t)
BY DEF Guarded, Fresh, Sound, RecordSound, FreeIds, Begun

LEMMA RecordedByHand ==
    ASSUME NEW s, Sound(s), NEW ok \in BOOLEAN, ok => FreeIds(s) # {},
           NEW caller \in {"key", "shift", "wake"}
    PROVE  LET r == Record(s, s.zapit.live, ok)
               t == IF ok THEN AddImmediate(r) ELSE Show(r, caller)
           IN  Sound(t) /\ Fresh(s, t)
<1> DEFINE r == Record(s, s.zapit.live, ok)
           t == IF ok THEN AddImmediate(r) ELSE Show(r, caller)
<1>1. /\ Core(s) /\ s \in States /\ s.zapit.live \in Channels
      /\ NextSound(s) /\ NextShown(s) /\ RecordSound(s)
  BY DEF Sound, Core, Typed, Tuners, Locks, ZapitState
<1>2. Core(r) /\ Later(s, r) /\ Beside(s, r) /\ r.timers = s.timers /\ Recorded(s, r, ok)
  BY <1>1, RecordDoes
<1> HIDE DEF r
<1>3. r \in States /\ FreeIds(r) = FreeIds(s)
  BY <1>2 DEF Core, Typed, FreeIds
<1>4. CASE ok
  <2>1. t = AddImmediate(r)
    BY <1>4
  <2>2. /\ Core(t) /\ Later(r, t)
        /\ t.gui.recording_id \in FreeIds(r)
        /\ t.timers[t.gui.recording_id].state = "running"
        /\ ~Has(t, StartOf(t.gui.recording_id))
        /\ t.gui.next = r.gui.next /\ t.vcr = r.vcr /\ t.boxes = r.boxes
    BY <1>2, <1>3, <1>4, <2>1, ImmediateAdded
  <2> HIDE DEF t
  <2>3. t \in States /\ Later(s, t) /\ t.gui.recording_id \in Ids /\ 0 \notin Ids
    <3>1. t \in States
      BY <2>2 DEF Core, Typed
    <3>2. 0 \notin Ids
      BY RecordingAssumption DEF Ids
    <3> QED
      BY <1>1, <1>2, <1>3, <2>2, <3>1, <3>2, LaterTransitive DEF FreeIds
  <2>4. NextSound(t) /\ NextShown(t)
    BY <1>1, <1>2, <2>2, <2>3, NextKept DEF NextShown, Beside, Recorded
  <2>5. RecordSound(t)
    BY <1>2, <1>4, <2>2, <2>3 DEF RecordSound, Recorded, Begun, Alive, Runs
  <2> QED
    BY <1>3, <2>2, <2>4, <2>5 DEF Sound, Fresh, t, r
<1>5. CASE ~ok
  <2>1. caller \in Boxes \cup Errors
    BY DEF Errors
  <2>2. t = Show(r, caller)
    BY <1>5
  <2>3. /\ Core(t) /\ Later(r, t) /\ t.gui = r.gui /\ t.vcr = r.vcr
        /\ Len(t.boxes) = Len(r.boxes) + 1
        /\ \A k \in 1 .. Len(r.boxes) : t.boxes[k] = r.boxes[k]
    BY <1>2, <2>1, <2>2, BoxShown
  <2> HIDE DEF t
  <2>4. t \in States /\ Later(s, t) /\ Len(r.boxes) \in Nat
    <3>1. t \in States
      BY <2>3 DEF Core, Typed
    <3> QED
      BY <1>1, <1>2, <1>3, <2>3, <3>1, LaterTransitive, Fields
  <2>5. NextSound(t) /\ RecordSound(t)
    BY <1>1, <1>2, <1>5, <2>3, <2>4, NextKept, RecordKept DEF Beside, Recorded
  <2>6. NextShown(t)
    <3>1. \A k \in 1 .. Len(r.boxes) : k \in 1 .. Len(t.boxes)
      BY <2>3, <2>4
    <3> QED
      BY <1>1, <1>2, <2>3, <3>1 DEF NextShown, Beside
  <2>7. ~t.vcr.clean
    BY <1>2, <1>5, <2>3 DEF Recorded
  <2> QED
    BY <2>3, <2>5, <2>6, <2>7 DEF Sound, Fresh, t, r
<1> QED
  BY <1>4, <1>5

LEMMA StartHandled ==
    ASSUME NEW s, Sound(s), NEW i \in Ids, NEW ok \in BOOLEAN,
           Begun(s, i), Alive(s, i), ~Has(s, StartOf(i)),
           s.vcr.record /\ s.vcr.clean => s.gui.recording_id # i
    PROVE  Sound(RecordStart(s, i, ok)) /\ Guarded(s, RecordStart(s, i, ok))
<1> DEFINE e == EndTimeshift(s)
           g == [e.gui EXCEPT !.next = i]
           v == [e.vcr EXCEPT !.late = FALSE]
           u == WithFlags(e, g, v)
           w == StartNextRecording(u, "start", ok)
           t == RecordStart(s, i, ok)
<1>1. Ended(s, e) /\ s \in States /\ e \in States /\ Recorder(e) /\ Later(s, e) /\ Core(e)
      /\ e.gui \in Gui /\ e.vcr \in Vcr
  BY TimeshiftEnded, Fields DEF Sound, Core, Typed, Ended
<1> HIDE DEF e
<1>2. u = [e EXCEPT !.gui.next = i, !.vcr.late = FALSE]
  BY <1>1 DEF WithFlags, States
<1>3. t = IF ok THEN ReturnCancelAll(w) ELSE w
  BY <1>2 DEF RecordStart, e
<1>4. /\ g \in Gui /\ g.next = i /\ g.mode = e.gui.mode
      /\ v \in Vcr /\ v.record = e.vcr.record /\ v.info = e.vcr.info /\ v.clean = e.vcr.clean
      /\ v.threads = e.vcr.threads /\ v.written = e.vcr.written
      /\ ~v.late
  BY <1>1 DEF Gui, Vcr
<1> HIDE DEF g, v, t
<1>5. Core(u) /\ u.gui = g /\ u.vcr = v /\ u.timers = e.timers /\ u.events = e.events
  <2>1. e.zapit.standby => g.mode = "standby"
    BY <1>1, <1>4 DEF Recorder
  <2>2. g \in Gui /\ v \in Vcr /\ Core(e)
    BY <1>1, <1>4
  <2>3. v.record = e.vcr.record /\ v.info = e.vcr.info /\ v.clean = e.vcr.clean
        /\ v.threads = e.vcr.threads /\ v.written = e.vcr.written
    BY <1>4
  <2> QED
    BY <2>1, <2>2, <2>3, FlagsSet
<1> HIDE DEF u
<1>6. NextSound(u) /\ u.gui.next # 0
  <2>1. Begun(e, i) /\ ~Has(e, StartOf(i)) /\ Alive(e, i)
    BY <1>1, PromisesKept
  <2>2. i # 0
    BY DEF Ids
  <2> QED
    BY <1>4, <1>5, <2>1, <2>2 DEF NextSound, Begun, Has, Alive, Runs
<1>7. Sound(w) /\ w.gui.recording_id = i
  <2>1. u.vcr.record => ~u.vcr.late
    BY <1>4, <1>5
  <2> QED
    BY <1>4, <1>5, <1>6, <2>1, NextStarted
<1> HIDE DEF w
<1>8. Sound(t) /\ t.gui.recording_id = i
  BY <1>3, <1>7, CancelledReturned DEF Alike
<1> QED
  BY <1>8 DEF Guarded, t

LEMMA StopHandled ==
    ASSUME NEW s, Core(s), NextShown(s), NEW i \in Ids, NEW ok \in BOOLEAN,
           Over(s, i), ~Has(s, EndOf(i)),
           s.gui.next # i => NextSound(s),
           s.gui.next = i => Begun(s, i) /\ ~Has(s, StartOf(i)),
           s.gui.recording_id # i => RecordSound(s),
           s.gui.recording_id = i /\ s.vcr.record /\ s.vcr.clean => ~s.vcr.retried
    PROVE  Sound(RecordStop(s, i, ok)) /\ Guarded(s, RecordStop(s, i, ok))
<1> DEFINE p == Stop(s)
           g == [p.gui EXCEPT !.recordingstatus = FALSE, !.autoshift = FALSE,
                              !.timeshiftstatus = FALSE]
           a == IF s.vcr.record THEN [p EXCEPT !.gui = g] ELSE s
           v == [a.vcr EXCEPT !.late = @ \/ s.gui.next = i]
           w == WithFlags(a, a.gui, v)
           t == RecordStop(s, i, ok)
<1>1. s \in States /\ s.gui \in Gui /\ s.vcr \in Vcr /\ Recorder(s) /\ i # 0
  BY Fields DEF Core, Typed, Ids
<1>2. /\ Core(p) /\ Later(s, p) /\ ~p.vcr.record /\ p.gui = s.gui /\ p.boxes = s.boxes
      /\ p.vcr.late = s.vcr.late
  BY StopDoes
<1>3. p \in States /\ Recorder(p)
  BY <1>2 DEF Core, Typed
<1>4. a = IF s.vcr.record
          THEN [p EXCEPT !.gui.recordingstatus = FALSE, !.gui.autoshift = FALSE,
                         !.gui.timeshiftstatus = FALSE]
          ELSE s
  BY <1>3 DEF States
<1>5. /\ w = [a EXCEPT !.vcr.late = @ \/ s.gui.next = i]
      /\ t = IF i = s.gui.recording_id
             THEN IF s.gui.next = 0 THEN a ELSE StartNextRecording(w, "stop", ok)
             ELSE IF i = s.gui.next THEN Forget(s) ELSE s
  <2>1. w = [a EXCEPT !.vcr.late = @ \/ s.gui.next = i]
    BY <1>1, <1>3 DEF WithFlags, States
  <2> HIDE DEF a
  <2> QED
    BY <1>4, <2>1 DEF RecordStop
<1>6. g \in Gui /\ g.next = s.gui.next /\ g.mode = s.gui.mode
  BY <1>1, <1>2 DEF Gui
<1> HIDE DEF g, t, p
<1>7. /\ Core(a) /\ Later(s, a) /\ ~a.vcr.record
      /\ a.boxes = s.boxes /\ a.gui.next = s.gui.next /\ a.vcr.late = s.vcr.late
  <2>1. CASE s.vcr.record
    <3> DEFINE b == [p EXCEPT !.gui = g]
    <3>1. p.zapit.standby => g.mode = "standby"
      BY <1>2, <1>3, <1>6 DEF Recorder
    <3>2. /\ Core(b) /\ Later(p, b) /\ b.gui = g /\ b.vcr = p.vcr /\ b.boxes = p.boxes
      BY <1>2, <1>6, <3>1, GuiSet
    <3> HIDE DEF b
    <3>3. b \in States
      BY <3>2 DEF Core, Typed
    <3>4. Later(s, b)
      BY <1>1, <1>2, <1>3, <3>2, <3>3, LaterTransitive
    <3> QED
      BY <1>2, <1>6, <2>1, <3>2, <3>4 DEF b
  <2>2. CASE ~s.vcr.record
    BY <1>1, <2>2, SameIsLater
  <2> QED
    BY <2>1, <2>2
<1>8. /\ a \in States /\ a.gui \in Gui /\ a.vcr \in Vcr /\ Recorder(a)
  BY <1>7, Fields DEF Core, Typed
<1> HIDE DEF a
<1>9. CASE i = s.gui.recording_id /\ s.gui.next = 0
  <2>1. t = a
    BY <1>5, <1>9
  <2>2. Sound(a)
    BY <1>7, <1>9 DEF Sound, NextSound, NextShown, RecordSound
  <2> QED
    BY <1>7, <2>1, <2>2 DEF Guarded, t
<1>10. CASE i = s.gui.recording_id /\ s.gui.next # 0
  <2> DEFINE r == StartNextRecording(w, "stop", ok)
  <2>1. t = r
    BY <1>5, <1>10
  <2>2. /\ v \in Vcr /\ v.record = a.vcr.record /\ v.info = a.vcr.info /\ v.clean = a.vcr.clean
        /\ v.threads = a.vcr.threads /\ v.written = a.vcr.written
        /\ v.late = (s.vcr.late \/ s.gui.next = i)
    BY <1>7, <1>8 DEF Vcr
  <2> HIDE DEF v
  <2>3. /\ Core(w) /\ Later(a, w) /\ w.gui = a.gui /\ w.vcr = v /\ w.timers = a.timers
        /\ w.events = a.events
    <3>1. a.zapit.standby => a.gui.mode = "standby"
      BY <1>8 DEF Recorder
    <3>2. v.record = a.vcr.record /\ v.info = a.vcr.info /\ v.clean = a.vcr.clean
          /\ v.threads = a.vcr.threads /\ v.written = a.vcr.written
      BY <2>2
    <3>3. a.gui \in Gui /\ v \in Vcr /\ Core(a)
      BY <1>7, <1>8, <2>2
    <3> QED
      BY <3>1, <3>2, <3>3, FlagsSet
  <2> HIDE DEF w
  <2>4. w \in States /\ Later(s, w)
    <3>1. w \in States
      BY <2>3 DEF Core, Typed
    <3> QED
      BY <1>1, <1>7, <1>8, <2>3, <3>1, LaterTransitive
  <2>5. NextSound(w)
    <3>1. CASE s.gui.next = i
      <4>1. Over(w, i) /\ ~Has(w, EndOf(i)) /\ Begun(w, i) /\ ~Has(w, StartOf(i))
        BY <1>1, <2>4, <3>1, PromisesKept
      <4> QED
        BY <1>7, <2>2, <2>3, <3>1, <4>1 DEF NextSound
    <3>2. CASE s.gui.next # i
      <4>1. w.vcr.late = s.vcr.late /\ w.gui.next = s.gui.next
        BY <1>1, <1>7, <2>2, <2>3, <3>2 DEF Vcr
      <4> QED
        BY <1>1, <2>4, <3>2, <4>1, NextKept
    <3> QED
      BY <3>1, <3>2
  <2>6. /\ Sound(r) /\ r.gui.recording_id = s.gui.next
        /\ r.vcr.record /\ r.vcr.clean => r.vcr.retried = w.vcr.late
    <3>1. w.gui.next # 0 /\ (w.vcr.record => ~w.vcr.late) /\ w.gui.next = s.gui.next
      BY <1>7, <1>10, <2>2, <2>3
    <3> QED
      BY <2>3, <2>5, <3>1, NextStarted
  <2> HIDE DEF r
  <2>7. Guarded(s, r)
    <3> SUFFICES ASSUME s.vcr.record, s.vcr.clean, r.vcr = s.vcr,
                        r.gui.recording_id = s.gui.recording_id
                 PROVE  FALSE
      BY DEF Guarded
    <3>1. s.gui.next = i
      BY <1>10, <2>6
    <3> QED
      BY <1>10, <2>2, <2>3, <2>6, <3>1
  <2> QED
    BY <2>1, <2>6, <2>7 DEF t
<1>11. CASE i # s.gui.recording_id /\ i = s.gui.next
  <2> DEFINE h == [s.gui EXCEPT !.next = 0]
             x == [s.vcr EXCEPT !.late = FALSE]
             u == WithFlags(s, h, x)
  <2>1. t = u
    BY <1>1, <1>5, <1>11 DEF Forget, WithFlags, States
  <2>2. /\ h \in Gui /\ h.next = 0 /\ h.mode = s.gui.mode /\ h.recording_id = s.gui.recording_id
        /\ x \in Vcr /\ x.record = s.vcr.record /\ x.info = s.vcr.info /\ x.clean = s.vcr.clean
        /\ x.threads = s.vcr.threads /\ x.written = s.vcr.written
        /\ x.retried = s.vcr.retried /\ x.missed = s.vcr.missed
    BY <1>1 DEF Gui, Vcr
  <2> HIDE DEF h, x
  <2>3. Core(u) /\ Later(s, u) /\ u.gui = h /\ u.vcr = x /\ u.zapit = s.zapit
    <3>1. s.zapit.standby => h.mode = "standby"
      BY <1>1, <2>2 DEF Recorder
    <3>2. x.record = s.vcr.record /\ x.info = s.vcr.info /\ x.clean = s.vcr.clean
          /\ x.threads = s.vcr.threads /\ x.written = s.vcr.written
      BY <2>2
    <3> QED
      BY <2>2, <3>1, <3>2, FlagsSet
  <2> HIDE DEF u
  <2>4. u \in States
    BY <2>3 DEF Core, Typed
  <2>5. RecordSound(u)
    BY <1>1, <1>11, <2>2, <2>3, <2>4, RecordKept
  <2> QED
    BY <2>1, <2>2, <2>3, <2>5 DEF Sound, NextSound, NextShown, Guarded, t
<1>12. CASE i # s.gui.recording_id /\ i # s.gui.next
  BY <1>5, <1>12 DEF Sound, Guarded, t
<1> QED
  BY <1>9, <1>10, <1>11, <1>12

LEMMA EndedGuarded ==
    ASSUME NEW s, Sound(s), NEW e, Ended(s, e), NEW t, Guarded(e, t),
           t.vcr.record /\ t.vcr.clean =>
               e.vcr.record \/ t.gui.recording_id \in FreeIds(e)
    PROVE  Guarded(s, t)
BY DEF Guarded, Ended, Sound, RecordSound, FreeIds, Begun

LEMMA GuardedTransitive ==
    ASSUME NEW s, NEW m, NEW t, Guarded(s, m), Guarded(m, t), m.vcr = s.vcr,
           m.gui.recording_id = s.gui.recording_id
    PROVE  Guarded(s, t)
BY DEF Guarded

LEMMA BoxSound ==
    ASSUME NEW s, Sound(s), NEW box \in Boxes \cup Errors
    PROVE  LET t == Show(s, box)
           IN  Sound(t) /\ t.vcr = s.vcr /\ t.zapit = s.zapit /\ t.gui = s.gui
<1> DEFINE t == Show(s, box)
<1>1. Core(s) /\ s \in States /\ Len(s.boxes) \in Nat
      /\ NextSound(s) /\ NextShown(s) /\ RecordSound(s)
  BY Fields DEF Sound, Core, Typed
<1>2. /\ Core(t) /\ Later(s, t) /\ t.gui = s.gui /\ t.vcr = s.vcr /\ t.zapit = s.zapit
      /\ Len(t.boxes) = Len(s.boxes) + 1
      /\ \A k \in 1 .. Len(s.boxes) : t.boxes[k] = s.boxes[k]
  BY <1>1, BoxShown
<1> HIDE DEF t
<1>3. t \in States /\ \A k \in 1 .. Len(s.boxes) : k \in 1 .. Len(t.boxes)
  BY <1>1, <1>2 DEF Core, Typed
<1>4. NextSound(t) /\ RecordSound(t) /\ NextShown(t)
  BY <1>1, <1>2, <1>3, NextKept, RecordKept DEF NextShown
<1> QED
  BY <1>2, <1>4 DEF Sound, t

LEMMA ModeHandled ==
    ASSUME NEW s, Sound(s), NEW on \in BOOLEAN
    PROVE  Sound(RecordModeChanged(s, on)) /\ Guarded(s, RecordModeChanged(s, on))
<1> DEFINE z == EnterStandby(s.zapit)
           c == IF ~s.gui.recordingstatus /\ ~on /\ s.gui.mode = "standby" THEN Call(s, z) ELSE s
           g == [c.gui EXCEPT !.recordingstatus = on]
           t == [c EXCEPT !.gui = g]
<1>1. s \in States /\ Tuners(s.zapit)
  BY DEF Sound, Core, Typed
<1>2. Sound(c) /\ Guarded(s, c) /\ c.vcr = s.vcr /\ c.gui = s.gui
  <2>1. CASE ~s.gui.recordingstatus /\ ~on /\ s.gui.mode = "standby"
    BY <1>1, <2>1, StandbyEntered, CallSound DEF Beside
  <2>2. CASE ~(~s.gui.recordingstatus /\ ~on /\ s.gui.mode = "standby")
    BY <2>2 DEF Guarded
  <2> QED
    BY <2>1, <2>2
<1>3. RecordModeChanged(s, on) = [c EXCEPT !.gui.recordingstatus = on]
  BY DEF RecordModeChanged
<1> HIDE DEF c
<1>4. c \in States /\ c.gui \in Gui /\ Recorder(c)
  BY <1>2, Fields DEF Sound, Core, Typed
<1>5. RecordModeChanged(s, on) = t
  BY <1>3, <1>4 DEF States
<1>6. /\ g \in Gui /\ g.next = c.gui.next /\ g.recording_id = c.gui.recording_id
      /\ g.mode = c.gui.mode
  BY <1>4 DEF Gui
<1> HIDE DEF g
<1>7. Sound(t) /\ t.gui = g /\ t.vcr = c.vcr /\ t.zapit = c.zapit
  <2>1. c.zapit.standby => g.mode = "standby"
    BY <1>4, <1>6 DEF Recorder
  <2> QED
    BY <1>2, <1>6, <2>1, GuiSound
<1> HIDE DEF t
<1> QED
  BY <1>2, <1>5, <1>6, <1>7 DEF Guarded

LEMMA ZapCompleteHandled ==
    ASSUME NEW s, Sound(s)
    PROVE  Sound(ZapComplete(s)) /\ Guarded(s, ZapComplete(s))
<1> DEFINE shift == AutoTimeshift /\ ~s.gui.recordingstatus
           g == [s.gui EXCEPT !.shift_timer = shift]
           t == [s EXCEPT !.gui = g]
<1>1. s \in States /\ s.gui \in Gui /\ Recorder(s)
  BY Fields DEF Sound, Core, Typed
<1>2. ZapComplete(s) = t
  BY <1>1 DEF ZapComplete, States
<1>3. shift \in BOOLEAN
  BY RecordingAssumption
<1> HIDE DEF shift
<1>4. /\ g \in Gui /\ g.next = s.gui.next /\ g.recording_id = s.gui.recording_id
      /\ g.mode = s.gui.mode
  BY <1>1, <1>3 DEF Gui
<1> HIDE DEF g
<1>5. Sound(t) /\ t.gui = g /\ t.vcr = s.vcr /\ t.zapit = s.zapit
  <2>1. s.zapit.standby => g.mode = "standby"
    BY <1>1, <1>4 DEF Recorder
  <2> QED
    BY <1>4, <2>1, GuiSound
<1> HIDE DEF t
<1> QED
  BY <1>2, <1>4, <1>5 DEF Guarded

LEMMA AutoRecordStarted ==
    ASSUME NEW s, Sound(s), NEW ok \in BOOLEAN, ok => FreeIds(s) # {},
           NEW caller \in {"shift", "wake"}
    PROVE  LET t == StartAutoRecord(s, caller, ok)
           IN  Sound(t) /\ (t = s \/ Fresh(s, t))
<1> DEFINE g == [s.gui EXCEPT !.autoshift = TRUE, !.recordingstatus = TRUE,
                              !.timeshiftstatus = TRUE]
           a == [s EXCEPT !.gui = g]
           r == Record(a, a.zapit.live, ok)
           u == IF ok THEN AddImmediate(r) ELSE Show(r, caller)
           t == StartAutoRecord(s, caller, ok)
<1>1. s \in States /\ s.gui \in Gui /\ Recorder(s)
  BY Fields DEF Sound, Core, Typed
<1>2. /\ g \in Gui /\ g.next = s.gui.next /\ g.recording_id = s.gui.recording_id
      /\ g.mode = s.gui.mode
  BY <1>1 DEF Gui
<1>3. a = [s EXCEPT !.gui.autoshift = TRUE, !.gui.recordingstatus = TRUE,
                    !.gui.timeshiftstatus = TRUE]
  BY <1>1 DEF States
<1> HIDE DEF g
<1>4. Sound(a) /\ a.zapit = s.zapit /\ a.timers = s.timers
  <2>1. s.zapit.standby => g.mode = "standby"
    BY <1>1, <1>2 DEF Recorder
  <2> QED
    BY <1>2, <2>1, GuiSound
<1> HIDE DEF a
<1>5. t = IF s.gui.recordingstatus THEN s ELSE u
  BY <1>3, <1>4 DEF StartAutoRecord
<1>6. FreeIds(a) = FreeIds(s)
  BY <1>4 DEF FreeIds
<1>7. Sound(u) /\ Fresh(a, u)
  <2>1. caller \in {"key", "shift", "wake"} /\ (ok => FreeIds(a) # {})
    BY <1>6
  <2> QED
    BY <1>4, <2>1, RecordedByHand
<1> HIDE DEF u
<1> QED
  BY <1>5, <1>6, <1>7 DEF Fresh

LEMMA StandbyOnHandled ==
    ASSUME NEW s, Sound(s)
    PROVE  Sound(StandbyOn(s)) /\ Guarded(s, StandbyOn(s))
<1> DEFINE e == EndTimeshift(s)
           g == [e.gui EXCEPT !.wasshift = @ \/ s.gui.autoshift]
           h == [g EXCEPT !.mode = "standby"]
           b == [e EXCEPT !.gui = g]
           c == [e EXCEPT !.gui = h]
           z == EnterStandby(e.zapit)
           still == ~e.gui.recordingstatus /\ ~e.gui.timeshiftstatus
           t == IF still THEN Call(c, z) ELSE c
<1>1. Ended(s, e) /\ Sound(e) /\ e \in States /\ Recorder(e) /\ Tuners(e.zapit)
      /\ s.gui \in Gui /\ e.gui \in Gui
  BY TimeshiftEnded, EndedSound, Fields DEF Sound, Core, Typed, Ended
<1>2. StandbyOn(s) = IF s.gui.mode = "standby" THEN s ELSE t
  <2>1. b = [e EXCEPT !.gui.wasshift = @ \/ s.gui.autoshift]
    BY <1>1 DEF States
  <2>2. /\ b.gui.recordingstatus = e.gui.recordingstatus
        /\ b.gui.timeshiftstatus = e.gui.timeshiftstatus /\ b.zapit = e.zapit
    BY <1>1 DEF States, Gui
  <2>3. [b EXCEPT !.gui.mode = "standby"] = c
    BY <1>1 DEF States
  <2>4. [Call(b, z) EXCEPT !.gui.mode = "standby"] = Call(c, z)
    BY <1>1 DEF States, Call
  <2>5. StandbyOn(s) = IF s.gui.mode = "standby" THEN s
                       ELSE [(IF still THEN Call(b, z) ELSE b) EXCEPT !.gui.mode = "standby"]
    BY <2>1, <2>2 DEF StandbyOn
  <2> QED
    BY <2>3, <2>4, <2>5
<1>3. /\ h \in Gui /\ h.next = e.gui.next /\ h.recording_id = e.gui.recording_id
      /\ h.mode = "standby"
  <2>1. (e.gui.wasshift \/ s.gui.autoshift) \in BOOLEAN
    BY <1>1 DEF Gui
  <2> QED
    BY <1>1, <2>1 DEF Gui, Modes
<1> HIDE DEF e, h, still
<1>4. Sound(c) /\ c.gui = h /\ c.vcr = e.vcr /\ c.zapit = e.zapit
  BY <1>1, <1>3, GuiSound
<1> HIDE DEF c
<1>5. /\ Sound(t) /\ Guarded(c, t) /\ t.vcr = e.vcr
      /\ t.gui.recording_id = e.gui.recording_id
  <2>1. CASE still
    <3>1. Tuners(z) /\ SameRecorder(c.zapit, z) /\ c.gui.mode = "standby"
      BY <1>1, <1>3, <1>4, StandbyEntered
    <3>2. Sound(Call(c, z)) /\ Guarded(c, Call(c, z)) /\ Beside(c, Call(c, z))
          /\ Call(c, z).vcr = c.vcr
      BY <1>4, <3>1, CallSound
    <3> QED
      BY <1>3, <1>4, <2>1, <3>2 DEF Beside
  <2>2. CASE ~still
    BY <1>3, <1>4, <2>2 DEF Guarded
  <2> QED
    BY <2>1, <2>2
<1> HIDE DEF t
<1>6. Guarded(e, t)
  BY <1>3, <1>4, <1>5 DEF Guarded
<1>7. Guarded(s, t)
  BY <1>1, <1>5, <1>6, EndedGuarded
<1> QED
  BY <1>2, <1>5, <1>7 DEF Guarded

LEMMA StandbyOffHandled ==
    ASSUME NEW s, Sound(s), NEW ok \in BOOLEAN, s.gui.wasshift /\ ok => FreeIds(s) # {}
    PROVE  Sound(StandbyOff(s, ok)) /\ Guarded(s, StandbyOff(s, ok))
<1> DEFINE z == LeaveStandby(s.zapit)
           a == Call(s, z)
           g == [a.gui EXCEPT !.mode = "tv"]
           m == [a EXCEPT !.gui = g]
           e == EndTimeshift(m)
           r == IF s.gui.wasshift THEN StartAutoRecord(e, "wake", ok) ELSE e
           h == [r.gui EXCEPT !.wasshift = FALSE]
           d == [r EXCEPT !.gui = h]
<1>1. Tuners(s.zapit) /\ Recorder(s)
  BY DEF Sound, Core
<1>2. /\ Sound(a) /\ Guarded(s, a) /\ a.gui = s.gui /\ a.vcr = s.vcr /\ a.timers = s.timers
      /\ ~a.zapit.standby
  <2>1. Tuners(z) /\ ~z.standby /\ SameRecorder(s.zapit, z)
    BY <1>1, StandbyLeft
  <2>2. ~Quiet(z).standby
    BY <2>1, QuietTuners
  <2> QED
    BY <2>1, <2>2, CallSound DEF Beside
<1>3. a \in States /\ a.gui \in Gui
  BY <1>2, Fields DEF Sound, Core, Typed
<1>4. [a EXCEPT !.gui.mode = "tv"] = m
  BY <1>3 DEF States
<1>5. StandbyOff(s, ok) = IF s.gui.mode = "tv" THEN s
                          ELSE IF Len(r.boxes) > Len(s.boxes) THEN r
                          ELSE [r EXCEPT !.gui.wasshift = FALSE]
  BY <1>4 DEF StandbyOff
<1> HIDE DEF a
<1>6. g \in Gui /\ g.next = a.gui.next /\ g.recording_id = a.gui.recording_id
  BY <1>3 DEF Gui, Modes
<1> HIDE DEF g
<1>7. /\ Sound(m) /\ m.vcr = a.vcr /\ m.zapit = a.zapit /\ m.timers = a.timers
      /\ m.gui.recording_id = s.gui.recording_id
  BY <1>2, <1>6, GuiSound
<1> HIDE DEF m
<1>8. Ended(m, e) /\ Sound(e) /\ FreeIds(e) = FreeIds(s)
  <2>1. Ended(m, e)
    BY <1>7, TimeshiftEnded DEF Sound
  <2> QED
    BY <1>2, <1>7, <2>1, EndedSound DEF Ended, FreeIds
<1> HIDE DEF e
<1>9. Sound(r) /\ (r = e \/ Fresh(e, r))
  <2>1. CASE s.gui.wasshift
    <3>1. "wake" \in {"shift", "wake"} /\ (ok => FreeIds(e) # {})
      BY <1>8, <2>1
    <3> QED
      BY <1>8, <2>1, <3>1, AutoRecordStarted
  <2>2. CASE ~s.gui.wasshift
    BY <1>8, <2>2
  <2> QED
    BY <2>1, <2>2
<1> HIDE DEF r
<1>10. Guarded(s, r)
  <2>1. Guarded(e, r)
    BY <1>8, <1>9, FreshGuarded DEF Guarded
  <2>2. r.vcr.record /\ r.vcr.clean => e.vcr.record \/ r.gui.recording_id \in FreeIds(e)
    BY <1>9 DEF Fresh
  <2>3. Guarded(m, r)
    BY <1>7, <1>8, <2>1, <2>2, EndedGuarded
  <2>4. Guarded(s, m)
    BY <1>2, <1>7 DEF Guarded
  <2> QED
    BY <1>2, <1>7, <2>3, <2>4, GuardedTransitive
<1>11. r \in States /\ r.gui \in Gui /\ Recorder(r)
  BY <1>9, Fields DEF Sound, Core, Typed
<1>12. [r EXCEPT !.gui.wasshift = FALSE] = d
  BY <1>11 DEF States
<1>13. /\ h \in Gui /\ h.next = r.gui.next /\ h.recording_id = r.gui.recording_id
       /\ h.mode = r.gui.mode
  BY <1>11 DEF Gui
<1> HIDE DEF h
<1>14. Sound(d) /\ d.gui = h /\ d.vcr = r.vcr /\ d.zapit = r.zapit
  <2>1. r.zapit.standby => h.mode = "standby"
    BY <1>11, <1>13 DEF Recorder
  <2> QED
    BY <1>9, <1>13, <2>1, GuiSound
<1> HIDE DEF d
<1>15. Guarded(s, d)
  BY <1>10, <1>13, <1>14 DEF Guarded
<1> QED
  BY <1>5, <1>9, <1>10, <1>12, <1>14, <1>15 DEF Guarded

LEMMA SwitchedOff ==
    ASSUME NEW s, Sound(s)
    PROVE  /\ Sound(SwitchOff(s)) /\ Guarded(s, SwitchOff(s))
           /\ SwitchOff(s).vcr.record => s.vcr.record
<1> DEFINE p == Stop(s)
           q == StopTimerEvent(p, s.gui.recording_id)
           a == IF s.gui.recordingstatus THEN q ELSE s
           t == SwitchOff(s)
<1>1. /\ Core(s) /\ s \in States /\ s.gui.recording_id \in Ids \cup {0} /\ s.gui \in Gui
  BY Fields DEF Sound, Core, Typed, Gui
<1>2. t = [a EXCEPT !.power = IF @ = "crashed" THEN @ ELSE "off"]
  BY DEF SwitchOff
<1>3. Ended(s, a)
  <2>1. CASE s.gui.recordingstatus
    <3>1. /\ Core(p) /\ Later(s, p) /\ ~p.vcr.record /\ p.gui = s.gui /\ p.timers = s.timers
          /\ p.boxes = s.boxes /\ p.cancelled = s.cancelled /\ p.vcr.late = s.vcr.late
      BY <1>1, StopDoes
    <3> HIDE DEF p
    <3>2. /\ Core(q) /\ Later(p, q) /\ Beside(p, q) /\ q.vcr = p.vcr
          /\ FreeIds(q) = FreeIds(p)
      BY <1>1, <3>1, TimerStopped
    <3> HIDE DEF q
    <3>3. p \in States /\ q \in States
      BY <3>1, <3>2 DEF Core, Typed
    <3>4. Later(s, q)
      BY <1>1, <3>1, <3>2, <3>3, LaterTransitive
    <3>5. FreeIds(q) = FreeIds(s)
      BY <3>1, <3>2 DEF FreeIds
    <3> QED
      BY <2>1, <3>1, <3>2, <3>4, <3>5 DEF Ended, Beside
  <2>2. CASE ~s.gui.recordingstatus
    BY <1>1, <2>2, SameIsLater DEF Ended
  <2> QED
    BY <2>1, <2>2
<1> HIDE DEF a
<1>4. Sound(a) /\ Guarded(s, a) /\ a \in States
  BY <1>3, EndedSound DEF Sound, Core, Typed
<1>5. t \in States /\ Alike(a, t)
  BY <1>2, <1>4 DEF States, Alike, Sound, Core, BoxesSound
<1> HIDE DEF t
<1> QED
  BY <1>3, <1>4, <1>5, AlikeSound DEF Guarded, Alike, Ended, t

LEMMA ExitHandled ==
    ASSUME NEW s, Sound(s)
    PROVE  Sound(ExitRun(s)) /\ Guarded(s, ExitRun(s))
<1> DEFINE e == EndTimeshift(s)
           t == IF e.gui.recordingstatus THEN Show(e, "askExit") ELSE SwitchOff(e)
<1>1. Ended(s, e) /\ Sound(e)
  BY TimeshiftEnded, EndedSound DEF Sound
<1>2. ExitRun(s) = t
  BY DEF ExitRun
<1> HIDE DEF e
<1>3. Sound(t) /\ Guarded(e, t) /\ (t.vcr.record => e.vcr.record)
  <2>1. CASE e.gui.recordingstatus
    <3>1. "askExit" \in Boxes \cup Errors
      BY DEF Boxes
    <3> QED
      BY <1>1, <2>1, <3>1, BoxSound DEF Guarded
  <2>2. CASE ~e.gui.recordingstatus
    BY <1>1, <2>2, SwitchedOff
  <2> QED
    BY <2>1, <2>2
<1> HIDE DEF t
<1> QED
  BY <1>1, <1>2, <1>3, EndedGuarded

-----------------------------------------------------------------------------
(* A message leaves the socket. *)

Popped(s) == [s EXCEPT !.events = Tail(@)]

LEMMA Shifted ==
    ASSUME NEW s, Core(s), s.events # <<>>
    PROVE  LET p == Popped(s)
               m == Head(s.events)
           IN  /\ Core(p) /\ p.gui = s.gui /\ p.vcr = s.vcr /\ p.zapit = s.zapit
               /\ p.timers = s.timers /\ p.boxes = s.boxes
               /\ m \in Message /\ Has(s, m)
               /\ \A n : Has(p, n) => Has(s, n)
               /\ \A n : Has(s, n) => Has(p, n) \/ n = m
               /\ m.type \in {"RECORD_START", "RECORD_STOP"} => ~Has(p, m)
               /\ \A i \in Ids : m = StartOf(i) => Alive(p, i)
<1> DEFINE p == Popped(s)
           m == Head(s.events)
           n == Len(s.events)
<1>1. /\ s \in States /\ s.events \in Seq(Message) /\ Tuners(s.zapit) /\ Recorder(s)
      /\ Queue(s) /\ BoxesSound(s) /\ Typed(s)
  BY Fields DEF Core, Typed
<1>2. /\ m \in Message /\ Tail(s.events) \in Seq(Message)
      /\ n \in Nat /\ n >= 1 /\ m = s.events[1] /\ Len(Tail(s.events)) = n - 1
      /\ \A k \in 1 .. n - 1 : Tail(s.events)[k] = s.events[k + 1]
  BY <1>1
<1>3. /\ p \in States /\ p.events = Tail(s.events) /\ p.power = s.power /\ p.gui = s.gui
      /\ p.vcr = s.vcr /\ p.zapit = s.zapit /\ p.timers = s.timers /\ p.boxes = s.boxes
      /\ p.cancelled = s.cancelled
  BY <1>1, <1>2 DEF States, Popped
<1> HIDE DEF p, m, n
<1>4. /\ Len(p.events) = n - 1
      /\ \A k \in 1 .. n - 1 : p.events[k] = s.events[k + 1] /\ k + 1 \in 1 .. n
      /\ \A k \in 2 .. n : k - 1 \in 1 .. n - 1 /\ p.events[k - 1] = s.events[k]
      /\ \A k \in 1 .. n : k = 1 \/ k \in 2 .. n
      /\ 1 \in 1 .. n
  <2>1. \A k \in 2 .. n : k - 1 \in 1 .. n - 1 /\ (k - 1) + 1 = k
    BY <1>2
  <2> QED
    BY <1>2, <1>3, <2>1
<1>5. Has(s, m)
  BY <1>2, <1>4 DEF Has, n
<1>6. ASSUME NEW x, Has(p, x) PROVE Has(s, x)
  BY <1>4, <1>6 DEF Has, n
<1>7. ASSUME NEW x, Has(s, x), x # m PROVE Has(p, x)
  BY <1>2, <1>4, <1>7 DEF Has, n
<1>8. ASSUME m.type \in {"RECORD_START", "RECORD_STOP"}, Has(p, m) PROVE FALSE
  <2>1. PICK k \in 1 .. n - 1 : p.events[k] = m
    BY <1>4, <1>8 DEF Has
  <2>2. k + 1 \in 1 .. n /\ s.events[k + 1] = s.events[1]
    BY <1>2, <1>4, <2>1
  <2>3. k + 1 = 1
    BY <1>1, <1>2, <1>4, <1>8, <2>2 DEF Queue, SentOnce, n
  <2> QED
    BY <1>2, <2>1, <2>3
<1>9. ASSUME NEW i \in Ids, m = StartOf(i) PROVE Alive(p, i)
  <2>1. \/ Runs(s, i)
        \/ \E l \in 1 + 1 .. n : s.events[l] = EndOf(i)
    <3>1. EndBehindStart(s)
      BY <1>1 DEF Queue
    <3>2. 1 \in 1 .. Len(s.events) /\ s.events[1] = StartOf(i) /\ n = Len(s.events)
      BY <1>2, <1>4, <1>9 DEF n
    <3> HIDE DEF n
    <3> QED
      BY <3>1, <3>2 DEF EndBehindStart
  <2>2. \A l \in 1 + 1 .. n : l \in 2 .. n
    BY <1>2
  <2>3. (\E l \in 2 .. n : s.events[l] = EndOf(i)) => Has(p, EndOf(i))
    BY <1>4 DEF Has
  <2> QED
    BY <1>3, <2>1, <2>2, <2>3 DEF Alive, Runs
<1>10. EndBehindStart(p)
  <2> SUFFICES ASSUME NEW k \in 1 .. n - 1, NEW i \in Ids, p.events[k] = StartOf(i),
                      ~Runs(p, i)
               PROVE  \E l \in k + 1 .. n - 1 : p.events[l] = EndOf(i)
    BY <1>4 DEF EndBehindStart
  <2>1. PICK l \in (k + 1) + 1 .. n : s.events[l] = EndOf(i)
    BY <1>1, <1>3, <1>4 DEF Queue, EndBehindStart, Runs, n
  <2>2. l \in 2 .. n /\ l - 1 \in k + 1 .. n - 1
    BY <1>2
  <2> QED
    BY <1>4, <2>1, <2>2
<1>11. SentOnce(p)
  <2> SUFFICES ASSUME NEW k \in 1 .. n - 1, NEW l \in 1 .. n - 1, p.events[k] = p.events[l],
                      p.events[k].type \in {"RECORD_START", "RECORD_STOP"}
               PROVE  k = l
    BY <1>4 DEF SentOnce
  <2>1. /\ k + 1 \in 1 .. Len(s.events) /\ l + 1 \in 1 .. Len(s.events)
        /\ s.events[k + 1] = s.events[l + 1]
        /\ s.events[k + 1].type \in {"RECORD_START", "RECORD_STOP"}
    BY <1>4 DEF n
  <2>2. SentOnce(s)
    BY <1>1 DEF Queue
  <2>3. k + 1 = l + 1
    BY <2>1, <2>2 DEF SentOnce
  <2> QED
    BY <1>2, <2>3
<1>12. Queue(p)
  BY <1>1, <1>3, <1>6, <1>10, <1>11 DEF Queue, Over, Begun
<1>13. Core(p)
  BY <1>1, <1>3, <1>12 DEF Core, Typed, Recorder, BoxesSound
<1> QED
  BY <1>2, <1>3, <1>5, <1>6, <1>7, <1>8, <1>9, <1>13 DEF p, m

\* What the handlers of timerd's messages find.
LEMMA StartPopped ==
    ASSUME NEW s, Sound(s), s.events # <<>>, NEW i \in Ids, Head(s.events) = StartOf(i)
    PROVE  LET p == Popped(s)
           IN  /\ Sound(p) /\ Begun(p, i) /\ Alive(p, i) /\ ~Has(p, StartOf(i))
               /\ p.vcr.record /\ p.vcr.clean => p.gui.recording_id # i
<1> DEFINE p == Popped(s)
<1>1. Core(s) /\ Queue(s) /\ NextSound(s) /\ NextShown(s) /\ RecordSound(s)
  BY DEF Sound, Core
<1>2. /\ Core(p) /\ p.gui = s.gui /\ p.vcr = s.vcr /\ p.timers = s.timers
      /\ p.boxes = s.boxes /\ Has(s, StartOf(i))
      /\ \A n : Has(p, n) => Has(s, n)
      /\ \A n : Has(s, n) => Has(p, n) \/ n = StartOf(i)
      /\ ~Has(p, StartOf(i)) /\ Alive(p, i)
  <2>1. StartOf(i).type \in {"RECORD_START", "RECORD_STOP"}
    BY DEF StartOf
  <2> QED
    BY <1>1, <2>1, Shifted
<1> HIDE DEF p
<1>3. \A j : EndOf(j) # StartOf(i)
  BY DEF StartOf, EndOf
<1>4. \A j : Alive(s, j) => Alive(p, j)
  BY <1>2, <1>3 DEF Alive, Runs
<1>5. Begun(p, i)
  BY <1>1, <1>2 DEF Queue, Begun
<1>6. NextSound(p) /\ NextShown(p)
  BY <1>1, <1>2, <1>4 DEF NextSound, NextShown, Begun, Over
<1>7. RecordSound(p)
  BY <1>1, <1>2, <1>4 DEF RecordSound, Begun, Over
<1>8. s.vcr.record /\ s.vcr.clean => s.gui.recording_id # i
  BY <1>1, <1>2 DEF RecordSound
<1> QED
  BY <1>2, <1>5, <1>6, <1>7, <1>8 DEF Sound, p

LEMMA EndPopped ==
    ASSUME NEW s, Sound(s), s.events # <<>>, NEW i \in Ids, Head(s.events) = EndOf(i)
    PROVE  LET p == Popped(s)
           IN  /\ Core(p) /\ p.gui = s.gui /\ p.vcr = s.vcr /\ p.boxes = s.boxes
               /\ p.zapit = s.zapit /\ NextShown(p) /\ Over(p, i) /\ ~Has(p, EndOf(i))
               /\ s.gui.next # i => NextSound(p)
               /\ s.gui.next = i => Begun(p, i) /\ ~Has(p, StartOf(i))
               /\ s.gui.recording_id # i => RecordSound(p)
               /\ s.gui.recording_id = i /\ s.vcr.record /\ s.vcr.clean =>
                     ~s.vcr.retried /\ Begun(p, i) /\ ~Has(p, StartOf(i))
<1> DEFINE p == Popped(s)
<1>1. Core(s) /\ Queue(s) /\ NextSound(s) /\ NextShown(s) /\ RecordSound(s)
  BY DEF Sound, Core
<1>2. /\ Core(p) /\ p.gui = s.gui /\ p.vcr = s.vcr /\ p.timers = s.timers
      /\ p.boxes = s.boxes /\ p.zapit = s.zapit /\ Has(s, EndOf(i))
      /\ \A n : Has(p, n) => Has(s, n)
      /\ \A n : Has(s, n) => Has(p, n) \/ n = EndOf(i)
      /\ ~Has(p, EndOf(i))
  <2>1. EndOf(i).type \in {"RECORD_START", "RECORD_STOP"}
    BY DEF EndOf
  <2> QED
    BY <1>1, <2>1, Shifted
<1> HIDE DEF p
<1>3. \A j : j # i => EndOf(j) # EndOf(i)
  BY DEF EndOf
<1>4. \A j : j # i /\ Alive(s, j) => Alive(p, j)
  BY <1>2, <1>3 DEF Alive, Runs
<1>5. Over(p, i) /\ i # 0
  BY <1>1, <1>2 DEF Queue, Over, Ids
<1>6. NextShown(p) /\ (s.gui.next # i => NextSound(p))
  BY <1>1, <1>2, <1>4 DEF NextSound, NextShown, Begun, Over
<1>7. s.gui.next = i => Begun(p, i) /\ ~Has(p, StartOf(i))
  BY <1>1, <1>2, <1>5 DEF NextSound, Begun
<1>8. s.gui.recording_id # i => RecordSound(p)
  BY <1>1, <1>2, <1>4 DEF RecordSound, Begun, Over
<1>9. s.gui.recording_id = i /\ s.vcr.record /\ s.vcr.clean =>
         ~s.vcr.retried /\ Begun(p, i) /\ ~Has(p, StartOf(i))
  BY <1>1, <1>2 DEF RecordSound, Begun
<1> QED
  BY <1>2, <1>5, <1>6, <1>7, <1>8, <1>9 DEF p

LEMMA OtherPopped ==
    ASSUME NEW s, Sound(s), s.events # <<>>,
           Head(s.events).type \notin {"RECORD_START", "RECORD_STOP"}
    PROVE  Sound(Popped(s))
<1> DEFINE p == Popped(s)
<1>1. Core(s) /\ NextSound(s) /\ NextShown(s) /\ RecordSound(s)
  BY DEF Sound
<1>2. /\ Core(p) /\ p.gui = s.gui /\ p.vcr = s.vcr /\ p.timers = s.timers
      /\ p.boxes = s.boxes
      /\ \A n : Has(p, n) => Has(s, n)
      /\ \A n : Has(s, n) => Has(p, n) \/ n = Head(s.events)
  BY <1>1, Shifted
<1> HIDE DEF p
<1>3. \A j : EndOf(j) # Head(s.events)
  BY DEF EndOf
<1>4. \A j : Alive(s, j) => Alive(p, j)
  BY <1>2, <1>3 DEF Alive, Runs
<1>5. NextSound(p) /\ NextShown(p) /\ RecordSound(p)
  BY <1>1, <1>2, <1>4 DEF NextSound, NextShown, RecordSound, Begun, Over
<1> QED
  BY <1>2, <1>5 DEF Sound, p

\* A loop that takes a message and does nothing: if it is the end of a recording, its
\* loss is on record.
LEMMA MessageDropped ==
    ASSUME NEW s, Sound(s), s.events # <<>>
    PROVE  LET t == Dropped(Popped(s), Head(s.events))
           IN  Sound(t) /\ t.zapit = s.zapit /\ t.gui = s.gui /\ t.boxes = s.boxes
<1> DEFINE p == Popped(s)
           m == Head(s.events)
           lost == p.vcr.record /\ m.type = "RECORD_STOP" /\ m.id = p.gui.recording_id
           gone == p.gui.next # 0 /\ m.type = "RECORD_STOP" /\ m.id = p.gui.next
           v == [p.vcr EXCEPT !.missed = @ \/ lost, !.late = @ \/ gone]
           t == Dropped(p, m)
<1>1. Core(s) /\ s \in States
  BY DEF Sound, Core, Typed
<1>2. /\ Core(p) /\ p.gui = s.gui /\ p.vcr = s.vcr /\ p.zapit = s.zapit /\ p.boxes = s.boxes
      /\ m \in Message
  BY <1>1, Shifted
<1>3. p \in States /\ p.gui \in Gui /\ p.vcr \in Vcr /\ Recorder(p)
  BY <1>2, Fields DEF Core, Typed
<1>4. \/ \E i \in Ids : m = EndOf(i)
      \/ Sound(p) /\ ~lost /\ ~gone
  <2>1. ASSUME NEW i \in Ids, m = StartOf(i) PROVE Sound(p) /\ ~lost /\ ~gone
    <3>1. m.type # "RECORD_STOP"
      BY <2>1 DEF StartOf
    <3>2. Sound(p)
      BY <2>1, StartPopped
    <3> QED
      BY <3>1, <3>2
  <2>2. ASSUME m.type \notin {"RECORD_START", "RECORD_STOP"} PROVE Sound(p) /\ ~lost /\ ~gone
    <3>1. Sound(p)
      BY <2>2, OtherPopped
    <3> QED
      BY <2>2, <3>1
  <2>3. \/ \E i \in Ids : m = StartOf(i) \/ m = EndOf(i)
        \/ m.type \notin {"RECORD_START", "RECORD_STOP"}
    BY <1>2 DEF Message, Messages, Commands, StartOf, EndOf
  <2> QED
    BY <2>1, <2>2, <2>3
<1>5. t = WithFlags(p, p.gui, v)
  BY <1>3 DEF Dropped, WithFlags, States
<1>6. /\ v \in Vcr /\ v.record = p.vcr.record /\ v.info = p.vcr.info /\ v.clean = p.vcr.clean
      /\ v.threads = p.vcr.threads /\ v.written = p.vcr.written
      /\ v.retried = p.vcr.retried
      /\ v.missed = (p.vcr.missed \/ lost)
      /\ v.late = (p.vcr.late \/ gone)
  <2>1. (p.vcr.missed \/ lost) \in BOOLEAN /\ (p.vcr.late \/ gone) \in BOOLEAN
    OBVIOUS
  <2> QED
    BY <1>3, <2>1 DEF Vcr
<1> HIDE DEF v, t
<1>7. /\ Core(t) /\ Later(p, t) /\ t.gui = p.gui /\ t.vcr = v /\ t.zapit = p.zapit
      /\ t.boxes = p.boxes /\ t.timers = p.timers /\ t.events = p.events
  <2>1. p.zapit.standby => p.gui.mode = "standby"
    BY <1>3 DEF Recorder
  <2>2. v.record = p.vcr.record /\ v.info = p.vcr.info /\ v.clean = p.vcr.clean
        /\ v.threads = p.vcr.threads /\ v.written = p.vcr.written
    BY <1>6
  <2>3. Core(p) /\ p.gui \in Gui /\ v \in Vcr
    BY <1>2, <1>3, <1>6
  <2> QED
    BY <1>5, <2>1, <2>2, <2>3, FlagsSet
<1>8. t \in States
  BY <1>7 DEF Core, Typed
<1>9. ASSUME Sound(p), ~lost, ~gone PROVE Sound(t)
  <2>1. v.missed = p.vcr.missed /\ v.late = p.vcr.late
    BY <1>3, <1>6, <1>9 DEF Vcr
  <2>2. RecordSound(t)
    BY <1>3, <1>6, <1>7, <1>8, <1>9, RecordKept DEF Sound
  <2>3. NextSound(t) /\ NextShown(t)
    BY <1>3, <1>7, <1>8, <1>9, <2>1, NextKept DEF Sound, NextShown
  <2> QED
    BY <1>7, <2>2, <2>3 DEF Sound
<1>10. ASSUME NEW i \in Ids, m = EndOf(i) PROVE Sound(t)
  <2>1. /\ NextShown(p) /\ Over(p, i) /\ ~Has(p, EndOf(i)) /\ i # 0
        /\ p.gui.next # i => NextSound(p)
        /\ p.gui.next = i => Begun(p, i) /\ ~Has(p, StartOf(i))
        /\ p.gui.recording_id # i => RecordSound(p)
        /\ p.gui.recording_id = i /\ p.vcr.record /\ p.vcr.clean =>
              ~p.vcr.retried /\ Begun(p, i) /\ ~Has(p, StartOf(i))
    BY <1>2, <1>10, EndPopped DEF Ids
  <2>2. m.type = "RECORD_STOP" /\ m.id = i
    BY <1>10 DEF EndOf
  <2>3. NextShown(t)
    BY <1>7, <2>1 DEF NextShown
  <2>4. NextSound(t)
    <3>1. CASE p.gui.next = i
      <4>1. v.late
        BY <1>6, <2>1, <2>2, <3>1
      <4> QED
        BY <1>7, <2>1, <3>1, <4>1 DEF NextSound, Over, Begun, Has
    <3>2. CASE p.gui.next # i
      <4>1. v.late = p.vcr.late
        BY <1>3, <1>6, <2>2, <3>2 DEF Vcr
      <4> QED
        BY <1>3, <1>7, <1>8, <2>1, <3>2, <4>1, NextKept
    <3> QED
      BY <3>1, <3>2
  <2>5. RecordSound(t)
    <3>1. CASE p.gui.recording_id = i
      <4>1. v.record => v.missed
        BY <1>6, <2>2, <3>1
      <4> QED
        BY <1>6, <1>7, <2>1, <3>1, <4>1 DEF RecordSound, Over, Begun, Has
    <3>2. CASE p.gui.recording_id # i
      BY <1>3, <1>6, <1>7, <1>8, <2>1, <3>2, RecordKept
    <3> QED
      BY <3>1, <3>2
  <2> QED
    BY <1>7, <2>3, <2>4, <2>5 DEF Sound
<1> QED
  BY <1>2, <1>4, <1>7, <1>9, <1>10 DEF t

-----------------------------------------------------------------------------
(* A box is closed. *)

Taken(s) == [s EXCEPT !.boxes = SubSeq(@, 1, Len(@) - 1), !.cancelled = FALSE]

LEMMA BoxTaken ==
    ASSUME NEW s, Sound(s), s.boxes # <<>>
    PROVE  LET t == Taken(s)
               box == s.boxes[Len(s.boxes)]
           IN  /\ Core(t) /\ RecordSound(t) /\ t.gui = s.gui /\ t.vcr = s.vcr
               /\ t.zapit = s.zapit /\ t.timers = s.timers
               /\ box \in Boxes \cup Errors
               /\ box \notin {"start", "stop"} => Sound(t)
<1> DEFINE t == Taken(s)
           n == Len(s.boxes)
           rest == SubSeq(s.boxes, 1, n - 1)
<1>1. /\ Core(s) /\ Typed(s) /\ s \in States /\ s.boxes \in Seq(Boxes \cup Errors)
      /\ Tuners(s.zapit) /\ Recorder(s) /\ BoxesSound(s)
      /\ NextSound(s) /\ NextShown(s) /\ RecordSound(s)
  BY Fields DEF Sound, Core, Typed
<1>2. /\ n \in Nat /\ n >= 1 /\ s.boxes[n] \in Boxes \cup Errors
      /\ rest \in Seq(Boxes \cup Errors) /\ Len(rest) = n - 1
      /\ \A k \in 1 .. n - 1 : rest[k] = s.boxes[k]
  <2>1. n \in Nat /\ n >= 1
    BY <1>1
  <2>2. s.boxes[n] \in Boxes \cup Errors
    BY <1>1, <2>1
  <2>3. n - 1 \in Nat /\ 1 .. n - 1 \subseteq 1 .. n
    BY <2>1
  <2>4. /\ rest \in Seq(Boxes \cup Errors) /\ Len(rest) = n - 1
        /\ \A k \in 1 .. n - 1 : rest[k] = s.boxes[k]
    BY <1>1, <2>1, <2>3
  <2> QED
    BY <2>1, <2>2, <2>4
<1>3. /\ t \in States /\ t.power = s.power /\ t.gui = s.gui /\ t.vcr = s.vcr
      /\ t.zapit = s.zapit /\ t.timers = s.timers /\ t.events = s.events /\ t.boxes = rest
      /\ ~t.cancelled
  BY <1>1, <1>2 DEF States, Taken
<1> HIDE DEF t, rest, n
<1>4. Later(s, t) /\ Typed(t) /\ Queue(t) /\ Recorder(t)
  <2>1. Later(s, t)
    BY <1>1, <1>3, SameIsLater
  <2> QED
    BY <1>1, <1>3, <2>1, QueueLater DEF Typed, Core, Recorder
<1>5. \A k \in 1 .. n - 1 : k \in 1 .. n
  BY <1>2
<1>6. BoxesSound(t)
  BY <1>1, <1>2, <1>3, <1>5 DEF BoxesSound, n
<1>7. Core(t) /\ NextSound(t) /\ RecordSound(t)
  BY <1>1, <1>3, <1>4, <1>6, NextKept, RecordKept DEF Core
<1>8. ASSUME s.boxes[n] \notin {"start", "stop"} PROVE NextShown(t)
  <2>1. \A k \in 1 .. n : k = n \/ k \in 1 .. n - 1
    BY <1>2
  <2> QED
    BY <1>1, <1>2, <1>3, <1>8, <2>1 DEF NextShown, n
<1> QED
  BY <1>2, <1>3, <1>7, <1>8 DEF Sound, t, n

\* The flags that are reset when a failure has been shown.
LEMMA FlagsCleared ==
    ASSUME NEW s, Sound(s), NEW g \in Gui, s.zapit.standby => g.mode = "standby",
           g.next = s.gui.next, g.recording_id = s.gui.recording_id
    PROVE  LET t == [s EXCEPT !.gui = g]
           IN  Sound(t) /\ Guarded(s, t)
BY GuiSound DEF Guarded

LEMMA Forgotten ==
    ASSUME NEW s, Core(s), RecordSound(s)
    PROVE  LET t == Forget([s EXCEPT !.gui.recordingstatus = FALSE])
           IN  Sound(t) /\ Guarded(s, t)
<1> DEFINE g == [s.gui EXCEPT !.recordingstatus = FALSE, !.next = 0]
           v == [s.vcr EXCEPT !.late = FALSE]
           t == WithFlags(s, g, v)
<1>1. s \in States /\ s.gui \in Gui /\ s.vcr \in Vcr /\ Recorder(s)
  BY Fields DEF Core, Typed
<1>2. Forget([s EXCEPT !.gui.recordingstatus = FALSE]) = t
  BY <1>1 DEF Forget, WithFlags, States, Gui
<1>3. /\ g \in Gui /\ g.next = 0 /\ g.recording_id = s.gui.recording_id
      /\ g.mode = s.gui.mode
      /\ v \in Vcr /\ v.record = s.vcr.record /\ v.info = s.vcr.info /\ v.clean = s.vcr.clean
      /\ v.threads = s.vcr.threads /\ v.written = s.vcr.written
      /\ v.retried = s.vcr.retried /\ v.missed = s.vcr.missed
  BY <1>1 DEF Gui, Vcr
<1> HIDE DEF g, v
<1>4. Core(t) /\ Later(s, t) /\ t.gui = g /\ t.vcr = v /\ t.zapit = s.zapit
  <2>1. s.zapit.standby => g.mode = "standby"
    BY <1>1, <1>3 DEF Recorder
  <2>2. v.record = s.vcr.record /\ v.info = s.vcr.info /\ v.clean = s.vcr.clean
        /\ v.threads = s.vcr.threads /\ v.written = s.vcr.written
    BY <1>3
  <2> QED
    BY <1>3, <2>1, <2>2, FlagsSet
<1> HIDE DEF t
<1>5. t \in States
  BY <1>4 DEF Core, Typed
<1>6. RecordSound(t) /\ NextSound(t) /\ NextShown(t)
  <2>1. RecordSound(t)
    BY <1>1, <1>3, <1>4, <1>5, RecordKept
  <2> QED
    BY <1>3, <1>4, <2>1 DEF NextSound, NextShown
<1> QED
  BY <1>2, <1>4, <1>6 DEF Sound, Guarded

LEMMA StopAnswered ==
    ASSUME NEW s, Sound(s), NEW yes \in BOOLEAN
    PROVE  Sound(AskStopClosed(s, yes)) /\ Guarded(s, AskStopClosed(s, yes))
<1> DEFINE e == StopTimerEvent(s, s.gui.recording_id)
           g == [e.gui EXCEPT !.recordingstatus = FALSE]
           t == [e EXCEPT !.gui = g]
<1>1. Core(s) /\ s.gui \in Gui /\ s.gui.recording_id \in Ids \cup {0}
  BY Fields DEF Sound, Core, Typed, Gui
<1>2. Ended(s, e)
  BY <1>1, TimerStopped DEF Ended, Beside
<1>3. /\ Sound(e) /\ e.zapit = s.zapit /\ e.gui = s.gui /\ e \in States /\ Recorder(e)
  <2>1. Sound(e)
    BY <1>2, EndedSound
  <2> QED
    BY <1>1, <2>1, TimerStopped DEF Beside, Sound, Core, Typed
<1>4. AskStopClosed(s, yes) = IF yes THEN [e EXCEPT !.gui.recordingstatus = FALSE] ELSE s
  BY DEF AskStopClosed
<1> HIDE DEF e
<1>5. t = [e EXCEPT !.gui.recordingstatus = FALSE]
  BY <1>3 DEF States
<1>6. /\ g \in Gui /\ g.next = e.gui.next /\ g.recording_id = e.gui.recording_id
      /\ g.mode = e.gui.mode
  BY <1>1, <1>3 DEF Gui
<1> HIDE DEF g
<1>7. Sound(t) /\ t.zapit = e.zapit
  <2>1. e.zapit.standby => g.mode = "standby"
    BY <1>3, <1>6 DEF Recorder
  <2> QED
    BY <1>3, <1>6, <2>1, GuiSound
<1> HIDE DEF t
<1> QED
  BY <1>3, <1>4, <1>5, <1>7 DEF Guarded

LEMMA FailureShown ==
    ASSUME NEW s, Core(s), RecordSound(s), NEW caller \in Errors,
           caller \notin {"start", "stop"} => Sound(s)
    PROVE  Sound(ErrorClosed(s, caller)) /\ Guarded(s, ErrorClosed(s, caller))
<1> DEFINE t == ErrorClosed(s, caller)
           forgotten == Forget([s EXCEPT !.gui.recordingstatus = FALSE])
<1>1. s \in States /\ s.gui \in Gui /\ Recorder(s)
  BY Fields DEF Core, Typed
<1>2. Sound(forgotten) /\ Guarded(s, forgotten)
  BY Forgotten
<1>3. CASE caller = "start"
  <2>1. t = ReturnCancelAll(forgotten)
    BY <1>3 DEF ErrorClosed
  <2> HIDE DEF forgotten
  <2>2. Sound(t) /\ Alike(forgotten, t)
    BY <1>2, <2>1, CancelledReturned
  <2> QED
    BY <1>2, <2>2 DEF Alike, Guarded
<1>4. CASE caller = "stop"
  BY <1>2, <1>4 DEF ErrorClosed
<1>5. CASE caller \in {"key", "shift", "wake"}
  <2> DEFINE g == CASE caller = "key"   -> [s.gui EXCEPT !.recordingstatus = FALSE]
                    [] caller = "shift" -> [s.gui EXCEPT !.recordingstatus = FALSE,
                                                !.timeshiftstatus = FALSE, !.autoshift = FALSE]
                    [] caller = "wake"  -> [s.gui EXCEPT !.recordingstatus = FALSE,
                                                !.timeshiftstatus = FALSE, !.autoshift = FALSE,
                                                !.wasshift = FALSE]
             u == [s EXCEPT !.gui = g]
  <2>1. t = u
    BY <1>1, <1>5 DEF ErrorClosed, States, Gui
  <2>2. /\ g \in Gui /\ g.next = s.gui.next /\ g.recording_id = s.gui.recording_id
        /\ g.mode = s.gui.mode
    BY <1>1, <1>5 DEF Gui
  <2> HIDE DEF g
  <2>3. s.zapit.standby => g.mode = "standby"
    BY <1>1, <2>2 DEF Recorder
  <2>4. Sound(s)
    BY <1>5
  <2> QED
    BY <2>1, <2>2, <2>3, <2>4, FlagsCleared
<1> QED
  BY <1>3, <1>4, <1>5 DEF Errors

LEMMA Posted ==
    ASSUME NEW s, Sound(s), NEW command \in Commands
    PROVE  LET t == [s EXCEPT !.events = Append(@, Signal(command))]
           IN  Sound(t) /\ t.zapit = s.zapit
<1> DEFINE m == Signal(command)
           q == Append(s.events, m)
           t == [s EXCEPT !.events = q]
<1>1. /\ Core(s) /\ s \in States /\ s.events \in Seq(Message) /\ Len(s.events) \in Nat
      /\ NextSound(s) /\ NextShown(s) /\ RecordSound(s)
  BY Fields DEF Sound, Core, Typed
<1>2. m \in Message /\ m.type \notin {"RECORD_START", "RECORD_STOP"}
  BY DEF Signal, Message, Commands
<1> HIDE DEF m
<1>3. /\ q \in Seq(Message) /\ Len(q) = Len(s.events) + 1 /\ q[Len(s.events) + 1] = m
      /\ \A k \in 1 .. Len(s.events) : q[k] = s.events[k]
  BY <1>1, <1>2
<1> HIDE DEF q
<1>4. /\ t \in States /\ t.gui = s.gui /\ t.vcr = s.vcr /\ t.zapit = s.zapit
      /\ t.timers = s.timers /\ t.boxes = s.boxes /\ t.events = q
      /\ t.cancelled = s.cancelled
  BY <1>1, <1>3 DEF States
<1> HIDE DEF t
<1>5. \A k \in Len(s.events) + 1 .. Len(q) : q[k] = m
  BY <1>1, <1>3
<1>6. \A i \in Ids : EndOf(i) # m
  BY <1>2 DEF EndOf
<1>7. Later(s, t)
  <2>1. Len(s.events) <= Len(q)
    BY <1>1, <1>3
  <2>2. \A k, l \in Len(s.events) + 1 .. Len(q) : k = l
    BY <1>1, <1>3
  <2>3. \A i \in Ids : Over(s, i) => Over(t, i)
    BY <1>4 DEF Over
  <2> QED
    BY <1>2, <1>3, <1>4, <1>5, <1>6, <2>1, <2>2, <2>3 DEF Later
<1>8. Core(t)
  BY <1>1, <1>4, <1>7, CoreLater DEF Core, Typed, Recorder
<1>9. NextSound(t) /\ NextShown(t) /\ RecordSound(t)
  BY <1>1, <1>4, <1>7, NextKept, RecordKept DEF NextShown
<1> QED
  BY <1>4, <1>8, <1>9 DEF Sound, t, q, m

\* The standby key is handled, at once or after its loop.
LEMMA StandbyKeyHandled ==
    ASSUME NEW s, Sound(s), NEW long \in BOOLEAN
    PROVE  Sound(StandbyKeyDone(s, long)) /\ StandbyKeyDone(s, long).zapit = s.zapit
<1>1. PICK command \in Commands :
         StandbyKeyDone(s, long) =
            ReturnCancelAll([s EXCEPT !.events = Append(@, Signal(command))])
  BY DEF StandbyKeyDone, Commands
<1> DEFINE p == [s EXCEPT !.events = Append(@, Signal(command))]
           t == ReturnCancelAll(p)
<1>2. Sound(p) /\ p.zapit = s.zapit
  BY Posted
<1> HIDE DEF p
<1>3. Sound(t) /\ Alike(p, t)
  BY <1>2, CancelledReturned
<1> QED
  BY <1>1, <1>2, <1>3 DEF p, Alike

\* The loop of the standby key ends.
LEMMA DelayEnded ==
    ASSUME NEW s, Sound(s), s.boxes # <<>>, s.boxes[Len(s.boxes)] = "delay", NEW yes \in BOOLEAN
    PROVE  Sound(CloseBox(s, yes)) /\ CloseBox(s, yes).zapit = s.zapit
<1>1. Sound(Taken(s)) /\ Taken(s).zapit = s.zapit
  BY BoxTaken
<1>2. CloseBox(s, yes) = StandbyKeyDone(Taken(s), yes)
  BY DEF CloseBox, Taken, Errors
<1> QED
  BY <1>1, <1>2, StandbyKeyHandled

LEMMA BoxClosed ==
    ASSUME NEW s, Sound(s), s.boxes # <<>>, NEW yes \in BOOLEAN
    PROVE  Sound(CloseBox(s, yes)) /\ Guarded(s, CloseBox(s, yes))
<1> DEFINE t == CloseBox(s, yes)
           box == s.boxes[Len(s.boxes)]
           rest == Taken(s)
<1>1. /\ Core(rest) /\ RecordSound(rest) /\ rest.gui = s.gui /\ rest.vcr = s.vcr
      /\ rest.zapit = s.zapit
      /\ box \in Boxes \cup Errors
      /\ box \notin {"start", "stop"} => Sound(rest)
  BY BoxTaken
<1>2. Sound(t) /\ Guarded(rest, t)
  <2>1. CASE box = "askStop"
    <3>1. t = AskStopClosed(rest, yes)
      BY <2>1 DEF CloseBox, Taken, Errors
    <3> QED
      BY <1>1, <2>1, <3>1, StopAnswered
  <2>2. CASE box = "askExit"
    <3>1. t = IF yes THEN SwitchOff(rest) ELSE rest
      BY <2>2 DEF CloseBox, Taken, AskExitClosed, Errors
    <3> QED
      BY <1>1, <2>2, <3>1, SwitchedOff DEF Guarded
  <2>3. CASE box = "infobar"
    <3>1. t = rest
      BY <2>3 DEF CloseBox, Taken, Errors
    <3> QED
      BY <1>1, <2>3, <3>1 DEF Guarded
  <2>4. CASE box = "delay"
    BY <1>1, <2>4, DelayEnded DEF Guarded
  <2>5. CASE box \in Errors
    <3>1. t = ErrorClosed(rest, box)
      BY <2>5 DEF CloseBox, Taken, Errors
    <3> QED
      BY <1>1, <2>5, <3>1, FailureShown
  <2> QED
    BY <1>1, <2>1, <2>2, <2>3, <2>4, <2>5 DEF Boxes
<1> QED
  BY <1>1, <1>2 DEF Guarded

-----------------------------------------------------------------------------
(* Keys and timerd. *)

LEMMA GuiRecordHandled ==
    ASSUME NEW s, Sound(s), NEW ok \in BOOLEAN, FreeIds(s) # {}
    PROVE  Sound(DoGuiRecord(s, ok)) /\ Fresh(s, DoGuiRecord(s, ok))
<1> DEFINE e == IF s.gui.autoshift THEN StopAutoRecord(s) ELSE s
           r == Record(e, e.zapit.live, ok)
           t == IF ok THEN AddImmediate(r) ELSE Show(r, "key")
<1>1. DoGuiRecord(s, ok) = t
  BY DEF DoGuiRecord
<1>2. Sound(e) /\ FreeIds(e) = FreeIds(s)
  <2>1. CASE s.gui.autoshift
    <3>1. Ended(s, StopAutoRecord(s))
      BY AutoRecordStopped DEF Sound
    <3> QED
      BY <2>1, <3>1, EndedSound DEF Ended
  <2>2. CASE ~s.gui.autoshift
    BY <2>2
  <2> QED
    BY <2>1, <2>2
<1> HIDE DEF e
<1>3. Sound(t) /\ Fresh(e, t)
  <2>1. "key" \in {"key", "shift", "wake"} /\ (ok => FreeIds(e) # {})
    BY <1>2
  <2> QED
    BY <1>2, <2>1, RecordedByHand
<1> QED
  BY <1>1, <1>2, <1>3 DEF Fresh

LEMMA ZapHandled ==
    ASSUME NEW s, Sound(s), s.gui.mode = "tv", NEW c \in Channels
    PROVE  LET e == IF s.gui.autoshift
                    THEN [StopAutoRecord(s) EXCEPT !.gui.recordingstatus = FALSE]
                    ELSE s
               t == Call(e, ZapTo(e.zapit, c))
           IN  Sound(t) /\ Guarded(s, t)
<1> DEFINE p == StopAutoRecord(s)
           g == [p.gui EXCEPT !.recordingstatus = FALSE]
           a == [p EXCEPT !.gui = g]
           b == [StopAutoRecord(s) EXCEPT !.gui.recordingstatus = FALSE]
           e == IF s.gui.autoshift THEN b ELSE s
           z == ZapTo(e.zapit, c)
           t == Call(e, z)
<1>1. s \in States /\ Recorder(s) /\ Tuners(s.zapit)
  BY DEF Sound, Core, Typed
<1>2. /\ Ended(s, p) /\ Sound(p) /\ p \in States /\ Recorder(p) /\ p.gui \in Gui
  <2>1. Ended(s, p)
    BY AutoRecordStopped DEF Sound
  <2> QED
    BY <2>1, EndedSound, Fields DEF Sound, Core, Typed
<1>3. b = a
  BY <1>2 DEF States
<1> HIDE DEF b, p
<1>4. /\ g \in Gui /\ g.next = p.gui.next /\ g.recording_id = p.gui.recording_id
      /\ g.mode = p.gui.mode
  BY <1>2 DEF Gui
<1> HIDE DEF g
<1>5. Sound(a) /\ a.zapit = p.zapit /\ a.vcr = p.vcr /\ a.gui = g
  <2>1. p.zapit.standby => g.mode = "standby"
    BY <1>2, <1>4 DEF Recorder
  <2> QED
    BY <1>2, <1>4, <2>1, GuiSound
<1> HIDE DEF a
<1>6. /\ Sound(e) /\ e.gui.mode = s.gui.mode
      /\ \/ e.vcr = s.vcr /\ e.zapit = s.zapit /\ e.gui.recording_id = s.gui.recording_id
         \/ ~e.vcr.record
  BY <1>2, <1>3, <1>4, <1>5 DEF Ended
<1> HIDE DEF e
<1>7. Tuners(z) /\ SameRecorder(e.zapit, z) /\ ~z.standby
  <2>1. Tuners(e.zapit) /\ ~e.zapit.standby
    BY <1>6 DEF Sound, Core, Recorder
  <2> QED
    BY <2>1, Zapped DEF Tuners
<1> HIDE DEF z
<1>8. Sound(t) /\ Guarded(e, t) /\ t.vcr = e.vcr
  BY <1>6, <1>7, CallSound
<1> HIDE DEF t
<1>9. Guarded(s, t)
  BY <1>6, <1>8 DEF Guarded
<1> QED
  BY <1>8, <1>9 DEF b, e, z, t

LEMMA Programmed ==
    ASSUME NEW s, Sound(s), NEW i \in Ids, s.timers[i].state = "free", NEW c \in Channels,
           NEW state \in {"scheduled", "open"}
    PROVE  Sound([s EXCEPT !.timers = [@ EXCEPT ![i] = [channel |-> c, state |-> state]]])
<1> DEFINE ts == [s.timers EXCEPT ![i] = [channel |-> c, state |-> state]]
           t  == [s EXCEPT !.timers = ts]
<1>1. /\ Core(s) /\ s \in States /\ s.timers \in [Ids -> Timer] /\ Typed(s)
      /\ NextSound(s) /\ NextShown(s) /\ RecordSound(s)
  BY Fields DEF Sound, Core, Typed
<1>2. /\ ts \in [Ids -> Timer] /\ \A j \in Ids : j # i => ts[j] = s.timers[j]
      /\ ts[i].channel = c
  BY <1>1 DEF Timer
<1> HIDE DEF ts
<1>3. /\ t \in States /\ t.gui = s.gui /\ t.vcr = s.vcr /\ t.zapit = s.zapit
      /\ t.timers = ts /\ t.boxes = s.boxes /\ t.events = s.events
      /\ t.cancelled = s.cancelled
  BY <1>1, <1>2 DEF States
<1> HIDE DEF t
<1>4. Later(s, t)
  BY <1>1, <1>2, <1>3, SameIsLater
<1>5. Core(t)
  BY <1>1, <1>2, <1>3, <1>4, CoreLater DEF Core, Typed, Recorder
<1>6. NextSound(t) /\ NextShown(t) /\ RecordSound(t)
  BY <1>1, <1>3, <1>4, <1>5, NextKept, RecordKept DEF NextShown
<1> QED
  BY <1>5, <1>6 DEF Sound, t, ts

LEMMA TimerBegun ==
    ASSUME NEW s, Sound(s), NEW i \in Ids, s.timers[i].state \in {"scheduled", "open"},
           NEW state \in {"running", "endless"}
    PROVE  Sound([s EXCEPT !.timers = [@ EXCEPT ![i].state = state],
                           !.events = Append(@, StartOf(i))])
<1> DEFINE ts == [s.timers EXCEPT ![i].state = state]
           q  == Append(s.events, StartOf(i))
           n  == Len(s.events)
           t  == [s EXCEPT !.timers = ts, !.events = q]
<1>1. /\ Core(s) /\ Typed(s) /\ s \in States /\ s.timers \in [Ids -> Timer] /\ n \in Nat
      /\ Queue(s) /\ Tuners(s.zapit) /\ Recorder(s) /\ BoxesSound(s)
      /\ s.events \in Seq(Message)
      /\ NextSound(s) /\ NextShown(s) /\ RecordSound(s)
  BY Fields DEF Sound, Core, Typed
<1>2. /\ ts \in [Ids -> Timer] /\ \A j \in Ids : j # i => ts[j] = s.timers[j]
      /\ ts[i].channel = s.timers[i].channel /\ ts[i].state \in {"running", "endless"}
  BY <1>1 DEF Timer
<1>3. StartOf(i) \in Message
  BY DEF StartOf, Message
<1>4. /\ q \in Seq(Message) /\ Len(q) = n + 1 /\ q[n + 1] = StartOf(i)
      /\ \A k \in 1 .. n : q[k] = s.events[k]
      /\ \A k \in 1 .. n + 1 : k \in 1 .. n \/ k = n + 1
  BY <1>1, <1>3
<1> HIDE DEF ts, q
<1>5. /\ t \in States /\ t.gui = s.gui /\ t.vcr = s.vcr /\ t.zapit = s.zapit
      /\ t.timers = ts /\ t.boxes = s.boxes /\ t.events = q
      /\ t.cancelled = s.cancelled
  BY <1>1, <1>2, <1>4 DEF States
<1> HIDE DEF t
<1>6. \A j : EndOf(j) # StartOf(i)
  BY DEF StartOf, EndOf
<1>7. /\ ~Begun(s, i) /\ ~Over(s, i) /\ ~Has(s, StartOf(i)) /\ ~Has(s, EndOf(i))
  BY <1>1 DEF Queue, Begun, Over
<1>8. \A m : Has(t, m) <=> Has(s, m) \/ m = StartOf(i)
  <2>1. n + 1 \in 1 .. n + 1 /\ \A k \in 1 .. n : k \in 1 .. n + 1
    BY <1>1
  <2> QED
    BY <1>4, <1>5, <2>1 DEF Has, n
<1>9. EndBehindStart(t)
  <2> SUFFICES ASSUME NEW k \in 1 .. n + 1, NEW j \in Ids, q[k] = StartOf(j), ~Runs(t, j)
               PROVE  \E l \in k + 1 .. n + 1 : q[l] = EndOf(j)
    BY <1>4, <1>5 DEF EndBehindStart
  <2>1. j # i
    BY <1>2, <1>5 DEF Runs
  <2>2. StartOf(j) # StartOf(i)
    BY <2>1 DEF StartOf
  <2>3. k \in 1 .. n /\ s.events[k] = StartOf(j) /\ ~Runs(s, j)
    BY <1>2, <1>4, <1>5, <2>1, <2>2 DEF Runs
  <2>4. PICK l \in k + 1 .. n : s.events[l] = EndOf(j)
    BY <1>1, <2>3 DEF Queue, EndBehindStart, n
  <2>5. l \in 1 .. n /\ l \in k + 1 .. n + 1
    BY <1>1, <2>3
  <2> QED
    BY <1>4, <2>4, <2>5
<1>10. SentOnce(t)
  <2> SUFFICES ASSUME NEW k \in 1 .. n + 1, NEW l \in 1 .. n + 1, q[k] = q[l],
                      q[k].type \in {"RECORD_START", "RECORD_STOP"}
               PROVE  k = l
    BY <1>4, <1>5 DEF SentOnce
  <2>1. \A p \in 1 .. n : q[p] # StartOf(i)
    BY <1>4, <1>7 DEF Has, n
  <2>2. CASE k \in 1 .. n /\ l \in 1 .. n
    BY <1>1, <1>4, <2>2 DEF Queue, SentOnce, n
  <2> QED
    BY <1>4, <2>1, <2>2
<1>11. /\ \A j \in Ids : Over(s, j) => Over(t, j)
       /\ \A j \in Ids : Begun(s, j) => Begun(t, j)
       /\ \A j \in Ids : Alive(s, j) => Alive(t, j)
       /\ Begun(t, i)
       /\ \A j \in Ids : j # i => StartOf(j) # StartOf(i)
  <2>1. \A j \in Ids : j # i => StartOf(j) # StartOf(i)
    BY DEF StartOf
  <2> QED
    BY <1>2, <1>5, <1>7, <1>8, <2>1 DEF Over, Begun, Alive, Runs
<1>12. Queue(t)
  BY <1>1, <1>6, <1>8, <1>9, <1>10, <1>11 DEF Queue
<1>13. Core(t)
  BY <1>1, <1>2, <1>5, <1>12 DEF Core, Typed, Recorder, BoxesSound
<1>14. s.gui.next \in Ids \cup {0} /\ s.gui.recording_id \in Ids \cup {0}
  BY <1>1, Fields DEF Gui
<1>15. NextSound(t) /\ NextShown(t)
  BY <1>1, <1>5, <1>6, <1>7, <1>8, <1>11, <1>14 DEF NextSound, NextShown
<1>16. RecordSound(t)
  BY <1>1, <1>5, <1>6, <1>7, <1>8, <1>11, <1>14 DEF RecordSound
<1> QED
  BY <1>13, <1>15, <1>16 DEF Sound, t, ts, q

LEMMA TimerOver ==
    ASSUME NEW s, Sound(s), NEW i \in Ids, s.timers[i].state = "running"
    PROVE  Sound([s EXCEPT !.timers = [@ EXCEPT ![i].state = "over"],
                           !.events = Append(@, EndOf(i))])
<1> DEFINE ts == [s.timers EXCEPT ![i].state = "over"]
           q  == Append(s.events, EndOf(i))
           t  == [s EXCEPT !.timers = ts, !.events = q]
<1>1. /\ Core(s) /\ Typed(s) /\ s \in States
      /\ NextSound(s) /\ NextShown(s) /\ RecordSound(s)
  BY Fields DEF Sound, Core, Typed
<1>2. /\ t.gui = s.gui /\ t.vcr = s.vcr /\ t.zapit = s.zapit /\ t.power = s.power
      /\ t.timers = ts /\ t.boxes = s.boxes /\ t.events = q /\ t.cancelled = s.cancelled
      /\ (ts \in [Ids -> Timer] /\ q \in Seq(Message) => t \in States)
  BY <1>1 DEF States
<1>3. /\ Later(s, t)
      /\ t.timers \in [Ids -> Timer] /\ t.events \in Seq(Message)
      /\ \A j \in Ids : t.timers[j].state # "free" => t.timers[j].channel \in Channels
  <2> HIDE DEF t
  <2> QED
    BY <1>1, <1>2, EndSent
<1> HIDE DEF t, ts, q
<1>4. Core(t) /\ t \in States
  BY <1>1, <1>2, <1>3, CoreLater DEF Core, Typed, Recorder
<1>5. NextSound(t) /\ NextShown(t) /\ RecordSound(t)
  BY <1>1, <1>2, <1>3, <1>4, NextKept, RecordKept DEF NextShown
<1> QED
  BY <1>4, <1>5 DEF Sound, t, ts, q

-----------------------------------------------------------------------------
(* The specification. *)

IInv == Sound(State)

LEMMA Became ==
    ASSUME NEW t, Sound(t), Guarded(State, t), Becomes(t)
    PROVE  IInv' /\ Guarded(State, State')
<1>1. t \in States
  BY DEF Sound, Core, Typed
<1>2. State' = t
  BY <1>1 DEF Becomes, State, States
<1> QED
  BY <1>2 DEF IInv

LEMMA InitSound ==
    ASSUME Init
    PROVE  IInv
<1>1. State \in States /\ State.zapit.sent = <<>> /\ Tuners(State.zapit)
      /\ ~State.zapit.standby /\ ~State.zapit.recordMode
  <2>1. PICK c \in Channels : zapit = StartZapit(c)
    BY DEF Init
  <2>2. /\ Tuners(zapit) /\ zapit.sent = <<>> /\ ~zapit.standby /\ ~zapit.recordMode
    BY <2>1, Started
  <2>3. gui \in Gui /\ vcr \in Vcr
    BY DEF Init, Gui, Vcr, Modes
  <2>4. timers \in [Ids -> Timer]
    BY DEF Init, Timer
  <2>5. zapit \in ZapitState /\ events \in Seq(Message) /\ boxes \in Seq(Boxes \cup Errors)
        /\ cancelled \in BOOLEAN /\ power \in {"on", "off", "crashed"}
    <3>1. <<>> \in Seq(Message) /\ <<>> \in Seq(Boxes \cup Errors)
      OBVIOUS
    <3> QED
      BY <2>2, <3>1 DEF Init, Tuners, Locks
  <2> QED
    BY <2>2, <2>3, <2>4, <2>5 DEF States, State
<1>2. /\ State.events = <<>> /\ State.boxes = <<>> /\ State.gui.next = 0
      /\ ~State.cancelled /\ ~State.vcr.record /\ Threads(State.vcr) /\ Len(State.events) = 0 /\ Len(State.boxes) = 0
      /\ \A i \in Ids : State.timers[i].state = "free"
  BY DEF Init, State, Threads
<1> DEFINE s == State
<1> HIDE DEF s
<1>3. Typed(s) /\ Queue(s)
  BY <1>1, <1>2 DEF s, Typed, Queue, EndBehindStart, SentOnce, Has
<1>4. Recorder(s) /\ BoxesSound(s)
  BY <1>1, <1>2 DEF s, Recorder, BoxesSound
<1>5. NextSound(s) /\ NextShown(s) /\ RecordSound(s)
  BY <1>2 DEF s, NextSound, NextShown, RecordSound
<1> QED
  BY <1>1, <1>3, <1>4, <1>5 DEF IInv, Sound, Core, s

LEMMA HandleEventKept ==
    ASSUME IInv, HandleEvent
    PROVE  IInv' /\ Guarded(State, State')
<1> DEFINE s == State
           m == Head(events)
           p == Popped(s)
<1>1. /\ Sound(s) /\ s.events # <<>> /\ s.events = events /\ m = Head(s.events)
      /\ s.boxes = boxes /\ s.gui = gui
  BY DEF IInv, HandleEvent, CanHandle, State
<1>2. p = [State EXCEPT !.events = Tail(@)]
  BY DEF Popped
<1>3. \/ Becomes(Dropped(p, m))
      \/ Delayed /\ Becomes(CloseBox(Dropped(p, m), FALSE))
      \/ \E ok, on \in BOOLEAN :
            \/ m.type = "RECORD_START" /\ Becomes(RecordStart(p, m.id, ok))
            \/ m.type = "RECORD_STOP" /\ Becomes(RecordStop(p, m.id, ok))
            \/ m.type = "RECORDMODE" /\ Becomes(RecordModeChanged(p, on))
            \/ m.type = "ZAP_COMPLETE" /\ Becomes(ZapComplete(p))
            \/ /\ m.type \in Commands /\ (gui.wasshift /\ ok => FreeIds(State) # {})
               /\ Becomes(Execute(p, m.type, ok))
  BY DEF HandleEvent, Popped
<1> HIDE DEF p
<1>4. /\ p.gui = s.gui /\ p.vcr = s.vcr /\ p.zapit = s.zapit /\ p.timers = s.timers
      /\ m \in Message
  BY <1>1, Shifted DEF Sound, p
<1>5. \A t : Guarded(p, t) => Guarded(s, t)
  BY <1>4 DEF Guarded
<1>6. ASSUME m.type \notin {"RECORD_START", "RECORD_STOP"} PROVE Sound(p)
  BY <1>1, <1>6, OtherPopped DEF p
<1> HIDE DEF s, m
<1>7. CASE \/ Becomes(Dropped(p, m))
           \/ Delayed /\ Becomes(CloseBox(Dropped(p, m), FALSE))
  <2> DEFINE d == Dropped(p, m)
  <2>1. Sound(d) /\ d.zapit = s.zapit /\ d.gui = s.gui /\ d.boxes = s.boxes
    BY <1>1, MessageDropped DEF p
  <2> HIDE DEF d
  <2>2. CASE Becomes(d)
    BY <2>1, <2>2, Became DEF Guarded, s
  <2>3. CASE Delayed /\ Becomes(CloseBox(d, FALSE))
    <3>1. d.boxes # <<>> /\ d.boxes[Len(d.boxes)] = "delay"
      BY <1>1, <2>1, <2>3 DEF Delayed
    <3>2. Sound(CloseBox(d, FALSE)) /\ CloseBox(d, FALSE).zapit = d.zapit
      BY <2>1, <3>1, DelayEnded
    <3> QED
      BY <2>1, <2>3, <3>2, Became DEF Guarded, s
  <2> QED
    BY <1>7, <2>2, <2>3 DEF d
<1>8. ASSUME NEW ok \in BOOLEAN, m.type = "RECORD_START", Becomes(RecordStart(p, m.id, ok))
      PROVE  IInv' /\ Guarded(State, State')
  <2>1. m.id \in Ids /\ m = StartOf(m.id)
    BY <1>4, <1>8 DEF Message, StartOf, Messages, Commands
  <2>2. /\ Sound(p) /\ Begun(p, m.id) /\ Alive(p, m.id) /\ ~Has(p, StartOf(m.id))
        /\ p.vcr.record /\ p.vcr.clean => p.gui.recording_id # m.id
    BY <1>1, <2>1, StartPopped DEF p
  <2>3. Sound(RecordStart(p, m.id, ok)) /\ Guarded(p, RecordStart(p, m.id, ok))
    BY <2>1, <2>2, StartHandled
  <2> QED
    BY <1>5, <1>8, <2>3, Became DEF s
<1>9. ASSUME NEW ok \in BOOLEAN, m.type = "RECORD_STOP", Becomes(RecordStop(p, m.id, ok))
      PROVE  IInv' /\ Guarded(State, State')
  <2>1. m.id \in Ids /\ m = EndOf(m.id)
    BY <1>4, <1>9 DEF Message, EndOf, Messages, Commands
  <2>2. Sound(RecordStop(p, m.id, ok)) /\ Guarded(p, RecordStop(p, m.id, ok))
    <3>1. /\ Core(p) /\ NextShown(p) /\ Over(p, m.id) /\ ~Has(p, EndOf(m.id))
          /\ p.gui.next # m.id => NextSound(p)
          /\ p.gui.next = m.id => Begun(p, m.id) /\ ~Has(p, StartOf(m.id))
          /\ p.gui.recording_id # m.id => RecordSound(p)
          /\ p.gui.recording_id = m.id /\ p.vcr.record /\ p.vcr.clean => ~p.vcr.retried
      BY <1>1, <1>4, <2>1, EndPopped DEF p
    <3> QED
      BY <2>1, <3>1, StopHandled
  <2> QED
    BY <1>5, <1>9, <2>2, Became DEF s
<1>10. ASSUME NEW on \in BOOLEAN, m.type = "RECORDMODE", Becomes(RecordModeChanged(p, on))
       PROVE  IInv' /\ Guarded(State, State')
  BY <1>5, <1>6, <1>10, ModeHandled, Became DEF s
<1>11. ASSUME m.type = "ZAP_COMPLETE", Becomes(ZapComplete(p))
       PROVE  IInv' /\ Guarded(State, State')
  BY <1>5, <1>6, <1>11, ZapCompleteHandled, Became DEF s
<1>12. ASSUME NEW ok \in BOOLEAN, m.type \in Commands,
              gui.wasshift /\ ok => FreeIds(State) # {}, Becomes(Execute(p, m.type, ok))
       PROVE  IInv' /\ Guarded(State, State')
  <2>1. Sound(p)
    BY <1>6, <1>12 DEF Commands
  <2>2. p.gui.wasshift /\ ok => FreeIds(p) # {}
    BY <1>1, <1>4, <1>12 DEF FreeIds, s
  <2>3. Execute(p, m.type, ok) \in {StandbyOn(p), StandbyOff(p, ok), ExitRun(p)}
    BY <1>12 DEF Execute, Commands
  <2>4. Sound(Execute(p, m.type, ok)) /\ Guarded(p, Execute(p, m.type, ok))
    BY <2>1, <2>2, <2>3, StandbyOnHandled, StandbyOffHandled, ExitHandled
  <2> QED
    BY <1>5, <1>12, <2>4, Became DEF s
<1> QED
  BY <1>3, <1>7, <1>8, <1>9, <1>10, <1>11, <1>12 DEF m, s

LEMMA ShiftTimerKept ==
    ASSUME IInv, ShiftTimer
    PROVE  IInv' /\ Guarded(State, State')
<1> DEFINE g == [gui EXCEPT !.shift_timer = FALSE]
           s == [State EXCEPT !.gui = g]
<1>1. Sound(State) /\ State \in States /\ gui \in Gui /\ Recorder(State)
      /\ State.gui = gui /\ FreeIds(State) # {}
  BY Fields DEF IInv, Sound, Core, Typed, ShiftTimer, CanRecord, State
<1>2. s = [State EXCEPT !.gui.shift_timer = FALSE]
  BY <1>1 DEF State
<1>3. /\ g \in Gui /\ g.next = gui.next /\ g.recording_id = gui.recording_id
      /\ g.mode = gui.mode
  BY <1>1 DEF Gui
<1>4. \/ Becomes(s)
      \/ Delayed /\ Becomes(CloseBox(s, FALSE))
      \/ \E ok \in BOOLEAN : Becomes(StartAutoRecord(s, "shift", ok))
  BY <1>2 DEF ShiftTimer
<1> HIDE DEF g
<1>5. Sound(s) /\ s.gui = g /\ s.vcr = State.vcr /\ s.zapit = State.zapit
      /\ s.timers = State.timers /\ s.boxes = boxes
  <2>1. State.zapit.standby => g.mode = "standby"
    BY <1>1, <1>3 DEF Recorder
  <2> QED
    BY <1>1, <1>3, <2>1, GuiSound DEF State
<1> HIDE DEF s
<1>6. \A t : Guarded(s, t) => Guarded(State, t)
  BY <1>1, <1>3, <1>5 DEF Guarded
<1>7. CASE Becomes(s)
  BY <1>5, <1>6, <1>7, Became DEF Guarded
<1>8. ASSUME NEW ok \in BOOLEAN, Becomes(StartAutoRecord(s, "shift", ok))
      PROVE  IInv' /\ Guarded(State, State')
  <2> DEFINE t == StartAutoRecord(s, "shift", ok)
  <2>1. FreeIds(s) # {} /\ "shift" \in {"shift", "wake"}
    BY <1>1, <1>5 DEF FreeIds
  <2>2. Sound(t) /\ (t = s \/ Fresh(s, t))
    BY <1>5, <2>1, AutoRecordStarted
  <2> HIDE DEF t
  <2>3. Guarded(s, t)
    BY <1>5, <2>2, FreshGuarded DEF Guarded
  <2> QED
    BY <1>6, <1>8, <2>2, <2>3, Became DEF t
<1>9. CASE Delayed /\ Becomes(CloseBox(s, FALSE))
  <2>1. s.boxes # <<>> /\ s.boxes[Len(s.boxes)] = "delay"
    BY <1>5, <1>9 DEF Delayed
  <2>2. Sound(CloseBox(s, FALSE)) /\ CloseBox(s, FALSE).zapit = State.zapit
    BY <1>5, <2>1, DelayEnded
  <2> QED
    BY <1>9, <2>2, Became DEF Guarded
<1> QED
  BY <1>4, <1>7, <1>8, <1>9

LEMMA BoxKept ==
    ASSUME IInv, Answer \/ CancelBox
    PROVE  IInv' /\ Guarded(State, State')
<1>1. PICK yes \in BOOLEAN : Becomes(CloseBox(State, yes))
  BY DEF Answer, CancelBox
<1>2. boxes # <<>>
  BY DEF Answer, CancelBox, CanAnswer, CanCancel, IInv, Sound, Core, BoxesSound, State
<1> QED
  BY <1>1, <1>2, BoxClosed, Became DEF IInv, State

LEMMA RecordKeyKept ==
    ASSUME IInv, NEW start \in BOOLEAN, RecordKey(start)
    PROVE  IInv' /\ Guarded(State, State')
<1> DEFINE s == EndTimeshift(State)
           g == [s.gui EXCEPT !.recordingstatus = TRUE]
           a == [s EXCEPT !.gui = g]
<1>1. Ended(State, s) /\ Sound(s) /\ s \in States /\ s.gui \in Gui /\ Recorder(s)
      /\ FreeIds(s) # {} /\ Guarded(State, s) /\ Sound(State)
  <2>1. Sound(State) /\ Core(State) /\ FreeIds(State) # {}
    BY DEF IInv, Sound, RecordKey, CanRecord
  <2>2. Ended(State, s)
    BY <2>1, TimeshiftEnded
  <2>3. Sound(s) /\ Guarded(State, s)
    BY <2>1, <2>2, EndedSound
  <2>4. s \in States /\ s.gui \in Gui /\ Recorder(s)
    BY <2>3, Fields DEF Sound, Core, Typed
  <2> QED
    BY <2>1, <2>2, <2>3, <2>4 DEF Ended
<1>2. a = [s EXCEPT !.gui.recordingstatus = TRUE]
  BY <1>1 DEF States
<1>3. \/ Becomes(Show(s, "askStop"))
      \/ \E ok \in BOOLEAN : Becomes(DoGuiRecord(a, ok))
      \/ Becomes(s)
  BY <1>2 DEF RecordKey
<1> HIDE DEF s
<1>4. /\ g \in Gui /\ g.next = s.gui.next /\ g.recording_id = s.gui.recording_id
      /\ g.mode = s.gui.mode
  BY <1>1 DEF Gui
<1> HIDE DEF g
<1>5. CASE Becomes(Show(s, "askStop"))
  <2> DEFINE t == Show(s, "askStop")
  <2>1. "askStop" \in Boxes \cup Errors
    BY DEF Boxes
  <2>2. Sound(t) /\ t.vcr = s.vcr /\ t.zapit = s.zapit /\ t.gui = s.gui
    BY <1>1, <2>1, BoxSound
  <2> HIDE DEF t
  <2> QED
    BY <1>1, <1>5, <2>2, Became DEF Guarded, t
<1>6. ASSUME NEW ok \in BOOLEAN, Becomes(DoGuiRecord(a, ok))
      PROVE  IInv' /\ Guarded(State, State')
  <2> DEFINE t == DoGuiRecord(a, ok)
  <2>1. Sound(a) /\ a.vcr = s.vcr /\ a.zapit = s.zapit /\ a.timers = s.timers /\ a.gui = g
    <3>1. s.zapit.standby => g.mode = "standby"
      BY <1>1, <1>4 DEF Recorder
    <3> QED
      BY <1>1, <1>4, <3>1, GuiSound
  <2> HIDE DEF a
  <2>2. FreeIds(a) = FreeIds(s)
    BY <2>1 DEF FreeIds
  <2>3. Sound(t) /\ Fresh(s, t)
    BY <1>1, <2>1, <2>2, GuiRecordHandled DEF Fresh
  <2> HIDE DEF t
  <2>4. Fresh(State, t)
    BY <1>1, <2>3 DEF Fresh, Ended
  <2> QED
    BY <1>1, <1>6, <2>3, <2>4, FreshGuarded, Became DEF t
<1> QED
  BY <1>1, <1>3, <1>5, <1>6, Became

LEMMA PauseKeyKept ==
    ASSUME IInv, PauseKey
    PROVE  IInv' /\ Guarded(State, State')
<1> DEFINE g == [gui EXCEPT !.timeshiftstatus = TRUE]
           h == [g EXCEPT !.recordingstatus = TRUE]
           s == [State EXCEPT !.gui = g]
           a == [State EXCEPT !.gui = h]
<1>1. Sound(State) /\ State \in States /\ gui \in Gui /\ Recorder(State)
      /\ State.gui = gui /\ FreeIds(State) # {}
  BY Fields DEF IInv, Sound, Core, Typed, PauseKey, CanRecord, State
<1>2. s = [State EXCEPT !.gui.timeshiftstatus = TRUE]
      /\ a = [s EXCEPT !.gui.recordingstatus = TRUE]
  BY <1>1 DEF State
<1>3. Becomes(s) \/ \E ok \in BOOLEAN : Becomes(DoGuiRecord(a, ok))
  BY <1>2 DEF PauseKey
<1>4. /\ g \in Gui /\ g.next = gui.next /\ g.recording_id = gui.recording_id
      /\ g.mode = gui.mode
      /\ h \in Gui /\ h.next = gui.next /\ h.recording_id = gui.recording_id
      /\ h.mode = gui.mode
  BY <1>1 DEF Gui
<1> HIDE DEF g, h
<1>5. CASE Becomes(s)
  <2>1. Sound(s) /\ Guarded(State, s)
    <3>1. State.zapit.standby => g.mode = "standby"
      BY <1>1, <1>4 DEF Recorder
    <3> QED
      BY <1>1, <1>4, <3>1, FlagsCleared
  <2> QED
    BY <1>5, <2>1, Became
<1>6. ASSUME NEW ok \in BOOLEAN, Becomes(DoGuiRecord(a, ok))
      PROVE  IInv' /\ Guarded(State, State')
  <2> DEFINE t == DoGuiRecord(a, ok)
  <2>1. Sound(a) /\ a.timers = State.timers
    <3>1. State.zapit.standby => h.mode = "standby"
      BY <1>1, <1>4 DEF Recorder
    <3> QED
      BY <1>1, <1>4, <3>1, GuiSound
  <2> HIDE DEF a
  <2>2. FreeIds(a) = FreeIds(State)
    BY <2>1 DEF FreeIds
  <2>3. Sound(t) /\ Fresh(State, t)
    BY <1>1, <2>1, <2>2, GuiRecordHandled DEF Fresh
  <2> HIDE DEF t
  <2> QED
    BY <1>1, <1>6, <2>3, FreshGuarded, Became DEF t
<1> QED
  BY <1>3, <1>5, <1>6

LEMMA ZapKeyKept ==
    ASSUME IInv, NEW c \in Channels, ZapKey(c)
    PROVE  IInv' /\ Guarded(State, State')
<1> DEFINE e == IF State.gui.autoshift
                THEN [StopAutoRecord(State) EXCEPT !.gui.recordingstatus = FALSE]
                ELSE State
           t == Call(e, ZapTo(e.zapit, c))
<1>1. Becomes(t)
  BY DEF ZapKey, State
<1>2. Sound(State) /\ State.gui.mode = "tv"
  BY DEF IInv, ZapKey, State
<1>3. Sound(t) /\ Guarded(State, t)
  BY <1>2, ZapHandled
<1> HIDE DEF t
<1> QED
  BY <1>1, <1>3, Became

LEMMA StandbyKeyKept ==
    ASSUME IInv, StandbyKey
    PROVE  IInv' /\ Guarded(State, State')
<1>1. Sound(State)
  BY DEF IInv
<1>2. ASSUME NEW long \in BOOLEAN, Becomes(StandbyKeyDone(State, long))
      PROVE  IInv' /\ Guarded(State, State')
  <2>1. Sound(StandbyKeyDone(State, long)) /\ StandbyKeyDone(State, long).zapit = State.zapit
    BY <1>1, StandbyKeyHandled
  <2> QED
    BY <1>2, <2>1, Became DEF Guarded
<1>3. CASE Becomes(Show(State, "delay"))
  <2>1. "delay" \in Boxes \cup Errors
    BY DEF Boxes
  <2>2. Sound(Show(State, "delay")) /\ Show(State, "delay").zapit = State.zapit
    BY <1>1, <2>1, BoxSound
  <2> QED
    BY <1>3, <2>2, Became DEF Guarded
<1> QED
  BY <1>2, <1>3 DEF StandbyKey

LEMMA ShowInfoKept ==
    ASSUME IInv, ShowInfo
    PROVE  IInv' /\ Guarded(State, State')
<1> DEFINE t == Show(State, "infobar")
<1>1. Becomes(t) /\ "infobar" \in Boxes \cup Errors /\ State.boxes = <<>> /\ Sound(State)
  BY DEF ShowInfo, Boxes, State, IInv
<1>2. Sound(t) /\ t.zapit = State.zapit
  BY <1>1, BoxSound
<1> HIDE DEF t
<1> QED
  BY <1>1, <1>2, Became DEF Guarded

LEMMA TimerdKept ==
    ASSUME IInv, \/ \E i \in Ids, c \in Channels : Program(i, c)
                 \/ \E i \in Ids : TimerStarts(i)
                 \/ \E i \in Ids : TimerStops(i)
                 \/ TimerSwitchesOff
    PROVE  IInv' /\ Guarded(State, State')
<1>1. Sound(State) /\ State.timers = timers
  BY DEF IInv, State
<1>2. ASSUME NEW i \in Ids, NEW c \in Channels, Program(i, c)
      PROVE  IInv' /\ Guarded(State, State')
  <2>0. PICK state \in {"scheduled", "open"} :
           timers' = [timers EXCEPT ![i] = [channel |-> c, state |-> state]]
    BY <1>2 DEF Program
  <2> DEFINE t == [State EXCEPT !.timers = [@ EXCEPT ![i] = [channel |-> c, state |-> state]]]
  <2>1. Becomes(t) /\ t.zapit = State.zapit
    BY <1>2, <2>0 DEF Program, State, Becomes
  <2>2. Sound(t)
    BY <1>1, <1>2, Programmed DEF Program
  <2> HIDE DEF t
  <2> QED
    BY <2>1, <2>2, Became DEF Guarded
<1>3. ASSUME NEW i \in Ids, TimerStarts(i)
      PROVE  IInv' /\ Guarded(State, State')
  <2> DEFINE state == IF timers[i].state = "open" THEN "endless" ELSE "running"
             t == [State EXCEPT !.timers = [@ EXCEPT ![i].state = state],
                                !.events = Append(@, StartOf(i))]
  <2>1. Becomes(t) /\ t.zapit = State.zapit
    BY <1>3 DEF TimerStarts, State, Becomes, StartOf
  <2>2. Sound(t)
    BY <1>1, <1>3, TimerBegun DEF TimerStarts
  <2> HIDE DEF t
  <2> QED
    BY <2>1, <2>2, Became DEF Guarded
<1>4. ASSUME NEW i \in Ids, TimerStops(i)
      PROVE  IInv' /\ Guarded(State, State')
  <2> DEFINE t == [State EXCEPT !.timers = [@ EXCEPT ![i].state = "over"],
                                !.events = Append(@, EndOf(i))]
  <2>1. Becomes(t) /\ t.zapit = State.zapit
    BY <1>4 DEF TimerStops, State, Becomes, EndOf
  <2>2. Sound(t)
    BY <1>1, <1>4, TimerOver DEF TimerStops
  <2> HIDE DEF t
  <2> QED
    BY <2>1, <2>2, Became DEF Guarded
<1>5. ASSUME TimerSwitchesOff
      PROVE  IInv' /\ Guarded(State, State')
  <2> DEFINE t == [State EXCEPT !.events = Append(@, Signal("SHUTDOWN"))]
  <2>1. Becomes(t)
    BY <1>5 DEF TimerSwitchesOff, State, Becomes
  <2>2. Sound(t) /\ t.zapit = State.zapit
    <3>1. "SHUTDOWN" \in Commands
      BY DEF Commands
    <3> QED
      BY <1>1, <3>1, Posted
  <2> HIDE DEF t
  <2> QED
    BY <2>1, <2>2, Became DEF Guarded
<1> QED
  BY <1>2, <1>3, <1>4, <1>5

\* Every step keeps the inductive invariant, and leaves the tuner of a recording alone.
THEOREM Inductive ==
    ASSUME IInv, [Next]_vars
    PROVE  IInv' /\ Guarded(State, State')
<1>1. CASE Next
  BY <1>1, HandleEventKept, ShiftTimerKept, BoxKept, RecordKeyKept, PauseKeyKept, ZapKeyKept,
     StandbyKeyKept, ShowInfoKept, TimerdKept DEF Next
<1>2. CASE UNCHANGED vars
  <2>1. State' = State
    BY <1>2 DEF vars, State
  <2> QED
    BY <2>1 DEF IInv, Guarded
<1> QED
  BY <1>1, <1>2

\* The inductive invariant holds of every behaviour: GUI thread, recorder, tuners and
\* timers agree, between any two nested handlers.
THEOREM Invariant == Spec => []IInv
<1>1. Init => IInv
  BY InitSound
<1>2. IInv /\ [Next]_vars => IInv'
  BY Inductive
<1> QED
  BY <1>1, <1>2, PTL DEF Spec

\* Every variable has its type.
THEOREM TypeCorrect == Spec => []TypeOK
<1>1. IInv => TypeOK
  BY Fields DEF IInv, Sound, Core, Typed, TypeOK, State
<1> QED
  BY <1>1, Invariant, PTL

\* A recording is never left without an end.
THEOREM WillStop == Spec => []RecordingWillStop
<1>1. IInv => RecordingWillStop
  BY DEF IInv, Sound, RecordSound, Alive, Runs, Has, EndOf, RecordingWillStop, State
<1> QED
  BY <1>1, Invariant, PTL

\* zapit is in record mode while neutrino records, and only then.
THEOREM ModeFollows == Spec => []RecordModeFollows
<1>1. IInv => RecordModeFollows
  BY DEF IInv, Sound, Core, Recorder, AllReceived, RecordModeFollows, State
<1> QED
  BY <1>1, Invariant, PTL

\* No zap, standby or second recording touches the tuner a recording has locked.
THEOREM LockHeld == Spec => LockHolds
<1>1. IInv /\ [Next]_vars =>
         [/\ vcr.record /\ vcr.clean /\ vcr' = vcr
          /\ gui'.recording_id = gui.recording_id
          => \A f \in Frontends : zapit.fe[f].locked => zapit'.fe[f] = zapit.fe[f]]_vars
  BY Inductive DEF Guarded, State
<1> QED
  BY <1>1, Invariant, PTL DEF Spec, LockHolds

\* timerd's messages wait in the order in which they must be handled: each is there
\* once, no recording is started by a message behind the one that ends it, and a
\* recording is only ended by the message of a timer that is over (timermanager.cpp,
\* fireEvent and stopEvent of CTimerEvent_Record; neutrino2.cpp, stopTimerEvent).
MessagesInOrder ==
    /\ \A k, l \in 1 .. Len(events) :
          /\ k < l
          /\ events[k].type \in {"RECORD_START", "RECORD_STOP"}
          => /\ events[k] # events[l]
             /\ events[k].type = "RECORD_STOP" => events[l] # StartOf(events[k].id)
    /\ \A k \in 1 .. Len(events) :
          events[k].type = "RECORD_STOP" => timers[events[k].id].state = "over"

\* However timers fire and are stopped by hand while neutrino is busy, their messages
\* wait in order.
THEOREM MessagesWaitInOrder == Spec => []MessagesInOrder
<1>1. ASSUME IInv PROVE MessagesInOrder
  <2>1. /\ EndBehindStart(State) /\ SentOnce(State)
        /\ \A i \in Ids : Has(State, EndOf(i)) => timers[i].state = "over"
    BY <1>1 DEF IInv, Sound, Core, Queue, Over, State
  <2>2. /\ \A k \in 1 .. Len(events) : events[k] \in Message
        /\ Len(events) \in Nat /\ State.events = events /\ State.timers = timers
    BY <1>1, Fields DEF IInv, Sound, Core, Typed, State
  <2>3. ASSUME NEW k \in 1 .. Len(events), events[k].type = "RECORD_STOP"
        PROVE  /\ events[k].id \in Ids /\ events[k] = EndOf(events[k].id)
               /\ timers[events[k].id].state = "over"
    <3>1. events[k].id \in Ids /\ events[k] = EndOf(events[k].id)
      BY <2>2, <2>3 DEF Message, Messages, Commands, EndOf
    <3>2. Has(State, EndOf(events[k].id))
      BY <2>2, <3>1 DEF Has
    <3> QED
      BY <2>1, <3>1, <3>2
  <2>4. ASSUME NEW k \in 1 .. Len(events), NEW l \in 1 .. Len(events), k < l,
               events[k].type \in {"RECORD_START", "RECORD_STOP"}
        PROVE  events[k] # events[l]
    BY <2>1, <2>2, <2>4 DEF SentOnce
  <2>5. ASSUME NEW k \in 1 .. Len(events), NEW l \in 1 .. Len(events), k < l,
               events[k].type = "RECORD_STOP", events[l] = StartOf(events[k].id)
        PROVE  FALSE
    <3>1. /\ events[k].id \in Ids /\ events[k] = EndOf(events[k].id)
          /\ ~Runs(State, events[k].id)
      BY <2>3, <2>5 DEF Runs, State
    <3>2. PICK m \in l + 1 .. Len(events) : events[m] = EndOf(events[k].id)
      BY <2>1, <2>2, <2>5, <3>1 DEF EndBehindStart
    <3>3. m \in 1 .. Len(events) /\ k < m /\ events[m] = events[k]
      BY <2>2, <2>5, <3>1, <3>2
    <3> QED
      BY <2>4, <2>5, <3>3
  <2> QED
    BY <2>3, <2>4, <2>5 DEF MessagesInOrder
<1> QED
  BY <1>1, Invariant, PTL

\* No recorder thread outlives its recording: while neutrino does not record, none
\* writes, and a recording that was started with none active has one thread, which
\* writes to its file (vcrcontrol.cpp, Record and Stop; stream2file.cpp,
\* start_recording and stop_recording).
ThreadsOfRecording ==
    /\ ~vcr.record => vcr.threads = 0 /\ vcr.written = "nothing"
    /\ vcr.record => vcr.threads > 0
    /\ vcr.clean => vcr.record /\ vcr.threads = 1 /\ vcr.written # "nothing"

\* Recorder threads come and go with recordings; a second one beside the first needs
\* a recording that was started during another (OneRecorder).
THEOREM NoThreadLeft == Spec => []ThreadsOfRecording
<1>1. IInv => ThreadsOfRecording
  BY DEF IInv, Sound, Core, Recorder, Threads, ThreadsOfRecording, State
<1> QED
  BY <1>1, Invariant, PTL

-----------------------------------------------------------------------------
(* Only the pause key makes the end of a recording delete its file.              *)

\* What the operators need of a state.
Flagged(s) ==
    /\ {"gui", "vcr"} \subseteq DOMAIN s
    /\ {"autoshift", "timeshiftstatus"} \subseteq DOMAIN s.gui
    /\ {"written", "erased"} \subseteq DOMAIN s.vcr

Unharmed(s) == Flagged(s) /\ s.vcr.erased = FALSE

\* No recording has been deleted, and neutrino does not take the one that is being
\* written for a timeshift.
Spared(s) ==
    /\ Unharmed(s)
    /\ s.vcr.written = "recording" => ~s.gui.autoshift /\ ~s.gui.timeshiftstatus

Unmarked(s, t) ==
    /\ Flagged(t)
    /\ t.gui.autoshift = s.gui.autoshift /\ t.gui.timeshiftstatus = s.gui.timeshiftstatus
    /\ t.vcr.written = s.vcr.written /\ t.vcr.erased = s.vcr.erased

LEMMA UnmarkedSpared ==
    ASSUME NEW s, NEW t, Unmarked(s, t)
    PROVE  (Unharmed(s) => Unharmed(t)) /\ (Spared(s) => Spared(t))
BY DEF Unmarked, Unharmed, Spared

LEMMA UnmarkedTransitive ==
    ASSUME NEW s, NEW t, NEW u, Unmarked(s, t), Unmarked(t, u) PROVE Unmarked(s, u)
BY DEF Unmarked

LEMMA CallUnmarked ==
    ASSUME NEW s, Flagged(s), NEW z PROVE Unmarked(s, Call(s, z))
BY DEF Call, Flagged, Unmarked

LEMMA RestoreUnmarked ==
    ASSUME NEW s, Flagged(s) PROVE Unmarked(s, RestoreNeutrino(s))
<1> DEFINE a == Call(s, UnsetRecordMode(s.zapit))
           b == Call(a, EnterStandby(a.zapit))
<1>1. Unmarked(s, a)
  BY CallUnmarked
<1>2. RestoreNeutrino(s) = a \/ RestoreNeutrino(s) = b
  BY DEF RestoreNeutrino
<1> HIDE DEF a
<1>3. Unmarked(a, b)
  BY <1>1, CallUnmarked DEF Unmarked
<1> HIDE DEF b
<1> QED
  BY <1>1, <1>2, <1>3, UnmarkedTransitive

LEMMA CutUnmarked ==
    ASSUME NEW s, Flagged(s), NEW c PROVE Unmarked(s, CutBackNeutrino(s, c))
<1> DEFINE a == IF s.gui.mode = "standby" THEN Call(s, LeaveStandby(s.zapit)) ELSE s
           b == Call(a, ZapToRecord(a.zapit, c))
           d == Call(b, SetRecordMode(b.zapit))
           e == [d EXCEPT !.vcr.last_mode = s.gui.mode]
<1>1. CutBackNeutrino(s, c) = e
  BY DEF CutBackNeutrino
<1>2. Unmarked(s, a)
  BY CallUnmarked DEF Unmarked
<1> HIDE DEF a
<1>3. Unmarked(a, b)
  BY <1>2, CallUnmarked DEF Unmarked
<1> HIDE DEF b
<1>4. Unmarked(b, d)
  BY <1>3, CallUnmarked DEF Unmarked
<1> HIDE DEF d
<1>5. Unmarked(d, e)
  BY <1>4 DEF Unmarked, Flagged
<1> HIDE DEF e
<1> QED
  BY <1>1, <1>2, <1>3, <1>4, <1>5, UnmarkedTransitive

\* Whatever the flags are, what is written next is what they say.
LEMMA RecordSpares ==
    ASSUME NEW s, Unharmed(s), NEW c, NEW ok PROVE Spared(Record(s, c, ok))
<1> DEFINE a == CutBackNeutrino(s, c)
           b == [a EXCEPT !.vcr.info = TRUE]
           d == [b EXCEPT !.vcr.written = "nothing", !.vcr.clean = FALSE]
<1>1. Record(s, c, ok) = IF ok THEN StartRecording(b) ELSE RestoreNeutrino(d)
  BY DEF Record
<1>2. Unmarked(s, a) /\ Unharmed(a)
  BY CutUnmarked, UnmarkedSpared DEF Unharmed
<1> HIDE DEF a
<1>3. Unharmed(b)
  BY <1>2 DEF Unharmed, Flagged
<1> HIDE DEF b
<1>4. Spared(StartRecording(b))
  BY <1>3 DEF StartRecording, Spared, Unharmed, Flagged
<1>5. Spared(d)
  BY <1>3 DEF Spared, Unharmed, Flagged
<1> HIDE DEF d
<1>6. Spared(RestoreNeutrino(d))
  BY <1>5, RestoreUnmarked, UnmarkedSpared DEF Spared, Unharmed
<1> QED
  BY <1>1, <1>4, <1>6

LEMMA StopSpares ==
    ASSUME NEW s, Spared(s) PROVE Spared(Stop(s))
<1> DEFINE a == StopRecording(s)
           b == RestoreNeutrino(a)
           c == [b EXCEPT !.vcr = [@ EXCEPT !.record = FALSE, !.info = FALSE,
                                   !.clean = FALSE, !.retried = FALSE, !.missed = FALSE]]
           d == [s EXCEPT !.power = "crashed"]
<1>1. Stop(s) = c \/ Stop(s) = d
  BY DEF Stop
<1>2. Spared(d)
  BY DEF Spared, Unharmed, Flagged
<1>3. Spared(a)
  BY DEF StopRecording, Spared, Unharmed, Flagged
<1> HIDE DEF a, d
<1>4. Spared(b)
  BY <1>3, RestoreUnmarked, UnmarkedSpared DEF Spared, Unharmed
<1> HIDE DEF b
<1>5. Spared(c)
  BY <1>4 DEF Spared, Unharmed, Flagged
<1> QED
  BY <1>1, <1>2, <1>5

LEMMA TimerStopSpares ==
    ASSUME NEW s, Spared(s), NEW i PROVE Spared(StopTimerEvent(s, i))
BY DEF StopTimerEvent, Spared, Unharmed, Flagged

LEMMA ImmediateSpares ==
    ASSUME NEW s, Spared(s) PROVE Spared(AddImmediate(s))
BY DEF AddImmediate, Spared, Unharmed, Flagged

LEMMA ShowSpares ==
    ASSUME NEW s, Spared(s), NEW box PROVE Spared(Show(s, box)) /\ Spared(ReturnCancelAll(s))
BY DEF Show, ReturnCancelAll, Spared, Unharmed, Flagged

LEMMA ForgetSpares ==
    ASSUME NEW s, Spared(s) PROVE Spared(Forget(s))
BY DEF Forget, Spared, Unharmed, Flagged

LEMMA AutoRecordSpares ==
    ASSUME NEW s, Spared(s) PROVE Spared(StopAutoRecord(s)) /\ Spared(EndTimeshift(s))
<1> DEFINE a == Stop(s)
           b == StopTimerEvent(a, s.gui.recording_id)
           c == [b EXCEPT !.gui.autoshift = FALSE, !.gui.recording_id = 0]
           d == [s EXCEPT !.gui.shift_timer = FALSE]
           e == StopAutoRecord(s)
           f == [e EXCEPT !.gui.recordingstatus = FALSE, !.gui.timeshiftstatus = FALSE]
<1>1. e = c \/ e = d
  BY DEF StopAutoRecord
<1>2. Spared(d)
  BY DEF Spared, Unharmed, Flagged
<1>3. Spared(b)
  BY StopSpares, TimerStopSpares
<1> HIDE DEF b, d
<1>4. Spared(c)
  BY <1>3 DEF Spared, Unharmed, Flagged
<1> HIDE DEF c
<1>5. Spared(e)
  BY <1>1, <1>2, <1>4
<1>6. EndTimeshift(s) = f \/ EndTimeshift(s) = s
  BY DEF EndTimeshift
<1> HIDE DEF e
<1>7. Spared(f)
  BY <1>5 DEF Spared, Unharmed, Flagged
<1> QED
  BY <1>5, <1>6, <1>7 DEF e

LEMMA StartAutoSpares ==
    ASSUME NEW s, Spared(s), NEW caller, NEW ok PROVE Spared(StartAutoRecord(s, caller, ok))
<1> DEFINE a == [s EXCEPT !.gui.autoshift = TRUE, !.gui.recordingstatus = TRUE,
                          !.gui.timeshiftstatus = TRUE]
           r == Record(a, s.zapit.live, ok)
<1>1. StartAutoRecord(s, caller, ok) \in {s, AddImmediate(r), Show(r, caller)}
  BY DEF StartAutoRecord
<1>2. Unharmed(a)
  BY DEF Spared, Unharmed, Flagged
<1> HIDE DEF a
<1>3. Spared(r)
  BY <1>2, RecordSpares
<1> QED
  BY <1>1, <1>3, ImmediateSpares, ShowSpares

LEMMA GuiRecordSpares ==
    ASSUME NEW s, Spared(s), NEW ok PROVE Spared(DoGuiRecord(s, ok))
<1> DEFINE a == IF s.gui.autoshift THEN StopAutoRecord(s) ELSE s
           r == Record(a, a.zapit.live, ok)
<1>1. DoGuiRecord(s, ok) \in {AddImmediate(r), Show(r, "key")}
  BY DEF DoGuiRecord
<1>2. Unharmed(a)
  BY AutoRecordSpares DEF Spared
<1> HIDE DEF a
<1>3. Spared(r)
  BY <1>2, RecordSpares
<1> QED
  BY <1>1, <1>3, ImmediateSpares, ShowSpares

LEMMA NextRecordingSpares ==
    ASSUME NEW s, Spared(s), NEW caller, NEW ok PROVE Spared(StartNextRecording(s, caller, ok))
<1> DEFINE a == [s EXCEPT !.gui.recording_id = s.gui.next]
           r == Record(a, s.timers[s.gui.next].channel, ok)
           b == [r EXCEPT !.gui.recordingstatus = TRUE, !.vcr.retried = s.vcr.late]
<1>1. StartNextRecording(s, caller, ok) \in {Forget(b), Show(r, caller)}
  BY DEF StartNextRecording
<1>2. Unharmed(a)
  BY DEF Spared, Unharmed, Flagged
<1> HIDE DEF a
<1>3. Spared(r)
  BY <1>2, RecordSpares
<1> HIDE DEF r
<1>4. Spared(b)
  BY <1>3 DEF Spared, Unharmed, Flagged
<1> HIDE DEF b
<1> QED
  BY <1>1, <1>3, <1>4, ForgetSpares, ShowSpares

LEMMA HandlersSpare ==
    ASSUME NEW s, Spared(s), NEW i, NEW ok
    PROVE  Spared(RecordStart(s, i, ok)) /\ Spared(RecordStop(s, i, ok))
<1>1. Spared(RecordStart(s, i, ok))
  <2> DEFINE a == EndTimeshift(s)
             b == [a EXCEPT !.gui.next = i, !.vcr.late = FALSE]
             r == StartNextRecording(b, "start", ok)
  <2>1. RecordStart(s, i, ok) \in {ReturnCancelAll(r), r}
    BY DEF RecordStart
  <2>2. Spared(a)
    BY AutoRecordSpares
  <2> HIDE DEF a
  <2>3. Spared(b)
    BY <2>2 DEF Spared, Unharmed, Flagged
  <2> HIDE DEF b
  <2>4. Spared(r)
    BY <2>3, NextRecordingSpares
  <2> QED
    BY <2>1, <2>4, ShowSpares
<1>2. Spared(RecordStop(s, i, ok))
  <2> DEFINE a == Stop(s)
             b == [a EXCEPT !.gui.recordingstatus = FALSE, !.gui.autoshift = FALSE,
                            !.gui.timeshiftstatus = FALSE]
             c == IF s.vcr.record THEN b ELSE s
             d == [c EXCEPT !.vcr.late = @ \/ s.gui.next = i]
             r == StartNextRecording(d, "stop", ok)
  <2>1. RecordStop(s, i, ok) \in {c, r, Forget(s), s}
    BY DEF RecordStop
  <2>2. Spared(a)
    BY StopSpares
  <2> HIDE DEF a
  <2>3. Spared(b)
    BY <2>2 DEF Spared, Unharmed, Flagged
  <2> HIDE DEF b
  <2>4. Spared(c)
    BY <2>3
  <2> HIDE DEF c
  <2>5. Spared(d)
    BY <2>4 DEF Spared, Unharmed, Flagged
  <2> HIDE DEF d
  <2>6. Spared(r)
    BY <2>5, NextRecordingSpares
  <2> QED
    BY <2>1, <2>4, <2>6, ForgetSpares
<1> QED
  BY <1>1, <1>2

LEMMA ModeSpares ==
    ASSUME NEW s, Spared(s), NEW on
    PROVE  Spared(RecordModeChanged(s, on)) /\ Spared(ZapComplete(s))
<1> DEFINE c == IF ~s.gui.recordingstatus /\ ~on /\ s.gui.mode = "standby"
                THEN Call(s, EnterStandby(s.zapit)) ELSE s
           d == [c EXCEPT !.gui.recordingstatus = on]
<1>1. RecordModeChanged(s, on) = d
  BY DEF RecordModeChanged
<1>2. Spared(c)
  BY CallUnmarked, UnmarkedSpared DEF Spared, Unharmed
<1> HIDE DEF c
<1>3. Spared(d)
  BY <1>2 DEF Spared, Unharmed, Flagged
<1>4. Spared(ZapComplete(s))
  BY DEF ZapComplete, Spared, Unharmed, Flagged
<1> QED
  BY <1>1, <1>3, <1>4

LEMMA StandbySpares ==
    ASSUME NEW s, Spared(s), NEW ok
    PROVE  Spared(StandbyOn(s)) /\ Spared(StandbyOff(s, ok))
<1>1. Spared(StandbyOn(s))
  <2> DEFINE a == EndTimeshift(s)
             b == [a EXCEPT !.gui.wasshift = @ \/ s.gui.autoshift]
             c == Call(b, EnterStandby(b.zapit))
             d == IF ~b.gui.recordingstatus /\ ~b.gui.timeshiftstatus THEN c ELSE b
             e == [d EXCEPT !.gui.mode = "standby"]
  <2>1. StandbyOn(s) \in {s, e}
    BY DEF StandbyOn
  <2>2. Spared(a)
    BY AutoRecordSpares
  <2> HIDE DEF a
  <2>3. Spared(b)
    BY <2>2 DEF Spared, Unharmed, Flagged
  <2> HIDE DEF b
  <2>4. Spared(d)
    BY <2>3, CallUnmarked, UnmarkedSpared DEF Spared, Unharmed
  <2> HIDE DEF d
  <2>5. Spared(e)
    BY <2>4 DEF Spared, Unharmed, Flagged
  <2> QED
    BY <2>1, <2>5
<1>2. Spared(StandbyOff(s, ok))
  <2> DEFINE a == Call(s, LeaveStandby(s.zapit))
             b == [a EXCEPT !.gui.mode = "tv"]
             e == EndTimeshift(b)
             r == IF s.gui.wasshift THEN StartAutoRecord(e, "wake", ok) ELSE e
             d == [r EXCEPT !.gui.wasshift = FALSE]
  <2>1. StandbyOff(s, ok) \in {s, r, d}
    BY DEF StandbyOff
  <2>2. Spared(a)
    BY CallUnmarked, UnmarkedSpared DEF Spared, Unharmed
  <2> HIDE DEF a
  <2>3. Spared(b)
    BY <2>2 DEF Spared, Unharmed, Flagged
  <2> HIDE DEF b
  <2>4. Spared(r)
    BY <2>3, AutoRecordSpares, StartAutoSpares
  <2> HIDE DEF r
  <2>5. Spared(d)
    BY <2>4 DEF Spared, Unharmed, Flagged
  <2> QED
    BY <2>1, <2>4, <2>5
<1> QED
  BY <1>1, <1>2

LEMMA SwitchOffSpares ==
    ASSUME NEW s, Spared(s) PROVE Spared(SwitchOff(s)) /\ Spared(ExitRun(s))
<1>1. ASSUME NEW t, Spared(t) PROVE Spared(SwitchOff(t))
  <2> DEFINE c == IF t.gui.recordingstatus
                  THEN StopTimerEvent(Stop(t), t.gui.recording_id) ELSE t
             d == [c EXCEPT !.power = IF @ = "crashed" THEN @ ELSE "off"]
  <2>1. SwitchOff(t) = d
    BY DEF SwitchOff
  <2>2. Spared(c)
    BY <1>1, StopSpares, TimerStopSpares
  <2> HIDE DEF c
  <2>3. Spared(d)
    BY <2>2 DEF Spared, Unharmed, Flagged
  <2> QED
    BY <2>1, <2>3
<1> DEFINE a == EndTimeshift(s)
<1>2. Spared(a)
  BY AutoRecordSpares
<1>3. ExitRun(s) \in {Show(a, "askExit"), SwitchOff(a)}
  BY DEF ExitRun
<1> HIDE DEF a
<1> QED
  BY <1>1, <1>2, <1>3, ShowSpares

LEMMA StandbyKeySpares ==
    ASSUME NEW s, Spared(s), NEW long PROVE Spared(StandbyKeyDone(s, long))
<1>1. PICK c : StandbyKeyDone(s, long) =
                  ReturnCancelAll([s EXCEPT !.events = Append(@, Signal(c))])
  BY DEF StandbyKeyDone
<1> DEFINE p == [s EXCEPT !.events = Append(@, Signal(c))]
<1>2. Spared(p)
  BY DEF Spared, Unharmed, Flagged
<1> HIDE DEF p
<1>3. Spared(ReturnCancelAll(p))
  BY <1>2, ShowSpares
<1> QED
  BY <1>1, <1>3 DEF p

LEMMA CloseSpares ==
    ASSUME NEW s, Spared(s), s.boxes[Len(s.boxes)] \in Boxes \cup Errors, NEW yes
    PROVE  Spared(CloseBox(s, yes))
<1> DEFINE box == s.boxes[Len(s.boxes)]
           r   == [s EXCEPT !.boxes = SubSeq(@, 1, Len(@) - 1), !.cancelled = FALSE]
           f   == [r EXCEPT !.gui.recordingstatus = FALSE]
<1>1. Spared(r)
  BY DEF Spared, Unharmed, Flagged
<1>2. /\ box = "askStop" => CloseBox(s, yes) = AskStopClosed(r, yes)
      /\ box = "askExit" => CloseBox(s, yes) = AskExitClosed(r, yes)
      /\ box = "infobar" => CloseBox(s, yes) = r
      /\ box = "delay" => CloseBox(s, yes) = StandbyKeyDone(r, yes)
      /\ box \in Errors => CloseBox(s, yes) = ErrorClosed(r, box)
  <2>1. CASE box = "askStop"
    BY <2>1 DEF CloseBox, Errors
  <2>2. CASE box = "askExit"
    BY <2>2 DEF CloseBox, Errors
  <2>3. CASE box = "infobar"
    BY <2>3 DEF CloseBox, Errors
  <2>4. CASE box = "delay"
    BY <2>4 DEF CloseBox, Errors
  <2>5. CASE box \in Errors
    BY <2>5 DEF CloseBox, Errors
  <2> QED
    BY <2>1, <2>2, <2>3, <2>4, <2>5
<1>3. box \in {"askStop", "askExit", "infobar", "delay"} \/ box \in Errors
  BY DEF Boxes
<1> HIDE DEF r, box
<1>4. Spared(AskStopClosed(r, yes))
  <2> DEFINE a == StopTimerEvent(r, r.gui.recording_id)
             b == [a EXCEPT !.gui.recordingstatus = FALSE]
  <2>1. AskStopClosed(r, yes) \in {b, r}
    BY DEF AskStopClosed
  <2>2. Spared(a)
    BY <1>1, TimerStopSpares
  <2> HIDE DEF a
  <2>3. Spared(b)
    BY <2>2 DEF Spared, Unharmed, Flagged
  <2> QED
    BY <1>1, <2>1, <2>3
<1>5. Spared(AskExitClosed(r, yes))
  BY <1>1, SwitchOffSpares DEF AskExitClosed
<1>6. ASSUME box \in Errors PROVE Spared(ErrorClosed(r, box))
  <2> DEFINE c == Forget(f)
             d == [f EXCEPT !.gui.timeshiftstatus = FALSE, !.gui.autoshift = FALSE]
             e == [f EXCEPT !.gui.timeshiftstatus = FALSE, !.gui.autoshift = FALSE,
                            !.gui.wasshift = FALSE]
  <2>1. ErrorClosed(r, box) \in {ReturnCancelAll(c), c, f, d, e}
    BY <1>6 DEF ErrorClosed, Errors
  <2>2. Spared(f)
    BY <1>1 DEF Spared, Unharmed, Flagged
  <2> HIDE DEF f
  <2>3. Spared(d) /\ Spared(e)
    BY <2>2 DEF Spared, Unharmed, Flagged
  <2> HIDE DEF d, e
  <2> QED
    BY <2>1, <2>2, <2>3, ForgetSpares, ShowSpares
<1> QED
  BY <1>1, <1>2, <1>3, <1>4, <1>5, <1>6, StandbyKeySpares

-----------------------------------------------------------------------------
(* The steps. *)

LEMMA StateFlagged ==
    ASSUME IInv
    PROVE  /\ Flagged(State) /\ State.gui = gui /\ State.vcr = vcr
           /\ State.boxes = boxes /\ boxes \in Seq(Boxes \cup Errors)
<1>1. State.gui = gui /\ State.vcr = vcr /\ State.boxes = boxes
  BY DEF State
<1>2. gui \in Gui /\ vcr \in Vcr /\ boxes \in Seq(Boxes \cup Errors)
  BY <1>1, Fields DEF IInv, Sound, Core, Typed
<1>3. {"gui", "vcr"} \subseteq DOMAIN State
  BY DEF State
<1> QED
  BY <1>1, <1>2, <1>3 DEF Flagged, Gui, Vcr

LEMMA BecameSpared ==
    ASSUME NEW t, Spared(t), Becomes(t) PROVE Spared(State)'
<1>1. State.gui' = t.gui /\ State.vcr' = t.vcr /\ {"gui", "vcr"} \subseteq DOMAIN State'
  BY DEF Becomes, State
<1> QED
  BY <1>1 DEF Spared, Unharmed, Flagged

LEMMA HandleEventSpares ==
    ASSUME IInv, Spared(State), HandleEvent PROVE Spared(State)'
<1> DEFINE m == Head(events)
           p == [State EXCEPT !.events = Tail(@)]
<1>1. \/ Becomes(Dropped(p, m))
      \/ Delayed /\ Becomes(CloseBox(Dropped(p, m), FALSE))
      \/ \E ok, on \in BOOLEAN :
            \/ Becomes(RecordStart(p, m.id, ok))
            \/ Becomes(RecordStop(p, m.id, ok))
            \/ Becomes(RecordModeChanged(p, on))
            \/ Becomes(ZapComplete(p))
            \/ m.type \in Commands /\ Becomes(Execute(p, m.type, ok))
  BY DEF HandleEvent
<1>2. Spared(p) /\ p.boxes = boxes /\ "boxes" \in DOMAIN p
  BY StateFlagged DEF Spared, Unharmed, Flagged, State
<1> HIDE DEF p, m
<1>3. Spared(Dropped(p, m)) /\ Dropped(p, m).boxes = boxes
  <2>1. Spared(Dropped(p, m))
    BY <1>2 DEF Dropped, Spared, Unharmed, Flagged
  <2>2. Dropped(p, m).boxes = boxes
    BY <1>2 DEF Dropped
  <2> QED
    BY <2>1, <2>2
<1>4. ASSUME NEW ok \in BOOLEAN, m.type \in Commands PROVE Spared(Execute(p, m.type, ok))
  <2>1. Execute(p, m.type, ok) \in {StandbyOn(p), StandbyOff(p, ok), ExitRun(p)}
    BY <1>4 DEF Execute, Commands
  <2> QED
    BY <1>2, <2>1, StandbySpares, SwitchOffSpares
<1>5. CASE Delayed /\ Becomes(CloseBox(Dropped(p, m), FALSE))
  <2>1. boxes[Len(boxes)] \in Boxes \cup Errors
    BY <1>5, StateFlagged DEF Delayed
  <2> QED
    BY <1>3, <1>5, <2>1, CloseSpares, BecameSpared
<1> QED
  BY <1>1, <1>2, <1>3, <1>4, <1>5, HandlersSpare, ModeSpares, BecameSpared

LEMMA KeySpares ==
    ASSUME IInv, Spared(State),
           \/ ShiftTimer \/ Answer \/ CancelBox \/ StandbyKey \/ ShowInfo
           \/ \E start \in BOOLEAN : RecordKey(start)
           \/ \E c \in Channels : ZapKey(c)
    PROVE  Spared(State)'
<1>1. CASE ShiftTimer
  <2> DEFINE s == [State EXCEPT !.gui.shift_timer = FALSE]
  <2>1. \/ Becomes(s)
        \/ Delayed /\ Becomes(CloseBox(s, FALSE))
        \/ \E ok \in BOOLEAN : Becomes(StartAutoRecord(s, "shift", ok))
    BY <1>1 DEF ShiftTimer
  <2>2. Spared(s) /\ s.boxes = boxes
    BY StateFlagged DEF Spared, Unharmed, Flagged, State
  <2> HIDE DEF s
  <2>3. Delayed => boxes[Len(boxes)] \in Boxes \cup Errors
    BY StateFlagged DEF Delayed
  <2> QED
    BY <2>1, <2>2, <2>3, StartAutoSpares, CloseSpares, BecameSpared
<1>2. CASE Answer \/ CancelBox
  <2>1. boxes # <<>>
    BY <1>2 DEF Answer, CanAnswer, CancelBox, CanCancel, IInv, Sound, Core, BoxesSound, State
  <2>2. State.boxes[Len(State.boxes)] \in Boxes \cup Errors
    BY <2>1, StateFlagged
  <2>3. PICK yes \in BOOLEAN : Becomes(CloseBox(State, yes))
    BY <1>2 DEF Answer, CancelBox
  <2> QED
    BY <2>2, <2>3, CloseSpares, BecameSpared
<1>3. CASE StandbyKey
  <2>1. \/ \E long \in BOOLEAN : Becomes(StandbyKeyDone(State, long))
        \/ Becomes(Show(State, "delay"))
    BY <1>3 DEF StandbyKey
  <2> QED
    BY <2>1, StandbyKeySpares, ShowSpares, BecameSpared
<1>4. CASE ShowInfo
  <2>1. Becomes(Show(State, "infobar"))
    BY <1>4 DEF ShowInfo
  <2> QED
    BY <2>1, ShowSpares, BecameSpared
<1>5. ASSUME NEW start \in BOOLEAN, RecordKey(start) PROVE Spared(State)'
  <2> DEFINE s == EndTimeshift(State)
             b == [s EXCEPT !.gui.recordingstatus = TRUE]
  <2>1. \/ Becomes(Show(s, "askStop"))
        \/ \E ok \in BOOLEAN : Becomes(DoGuiRecord(b, ok))
        \/ Becomes(s)
    BY <1>5 DEF RecordKey
  <2>2. Spared(s)
    BY AutoRecordSpares
  <2> HIDE DEF s
  <2>3. Spared(b)
    BY <2>2 DEF Spared, Unharmed, Flagged
  <2> HIDE DEF b
  <2> QED
    BY <2>1, <2>2, <2>3, ShowSpares, GuiRecordSpares, BecameSpared
<1>6. ASSUME NEW c \in Channels, ZapKey(c) PROVE Spared(State)'
  <2> DEFINE a == StopAutoRecord(State)
             b == [a EXCEPT !.gui.recordingstatus = FALSE]
             s == IF gui.autoshift THEN b ELSE State
             t == Call(s, ZapTo(s.zapit, c))
  <2>1. Becomes(t)
    BY <1>6 DEF ZapKey
  <2>2. Spared(a)
    BY AutoRecordSpares
  <2> HIDE DEF a
  <2>3. Spared(b)
    BY <2>2 DEF Spared, Unharmed, Flagged
  <2> HIDE DEF b
  <2>4. Spared(s)
    BY <2>3
  <2> HIDE DEF s
  <2>5. Spared(t)
    BY <2>4, CallUnmarked, UnmarkedSpared DEF Spared, Unharmed
  <2> HIDE DEF t
  <2> QED
    BY <2>1, <2>5, BecameSpared
<1> QED
  BY <1>1, <1>2, <1>3, <1>4, <1>5, <1>6

\* While nothing is recorded no file is written, and the pause key may set the flag.
LEMMA PauseSpares ==
    ASSUME IInv, Spared(State), PauseKey, ~vcr.record PROVE Spared(State)'
<1> DEFINE s == [State EXCEPT !.gui.timeshiftstatus = TRUE]
           b == [s EXCEPT !.gui.recordingstatus = TRUE]
<1>1. Becomes(s) \/ \E ok \in BOOLEAN : Becomes(DoGuiRecord(b, ok))
  BY DEF PauseKey
<1>2. Spared(s)
  <2>1. State.vcr.written = "nothing"
    BY DEF IInv, Sound, Core, Recorder, Threads, State
  <2> QED
    BY <2>1 DEF Spared, Unharmed, Flagged
<1> HIDE DEF s
<1>3. Spared(b)
  BY <1>2 DEF Spared, Unharmed, Flagged
<1> HIDE DEF b
<1> QED
  BY <1>1, <1>2, <1>3, GuiRecordSpares, BecameSpared

LEMMA NextSpares ==
    ASSUME IInv, Spared(State), [Next]_vars, [PauseKey => ~vcr.record]_vars
    PROVE  Spared(State)'
<1>1. CASE HandleEvent
  BY <1>1, HandleEventSpares
<1>2. CASE \/ ShiftTimer \/ Answer \/ CancelBox \/ StandbyKey \/ ShowInfo
           \/ \E start \in BOOLEAN : RecordKey(start)
           \/ \E c \in Channels : ZapKey(c)
  BY <1>2, KeySpares
<1>3. CASE UNCHANGED <<gui, vcr>>
  <2>1. State.gui' = State.gui /\ State.vcr' = State.vcr
        /\ {"gui", "vcr"} \subseteq DOMAIN State'
    BY <1>3 DEF State
  <2> QED
    BY <2>1 DEF Spared, Unharmed, Flagged
<1>4. CASE PauseKey /\ ~UNCHANGED vars
  BY <1>4, PauseSpares
<1>5. CASE \/ \E i \in Ids, c \in Channels : Program(i, c)
           \/ \E i \in Ids : TimerStarts(i)
           \/ \E i \in Ids : TimerStops(i)
           \/ TimerSwitchesOff \/ UNCHANGED vars
  BY <1>3, <1>5 DEF Program, TimerStarts, TimerStops, TimerSwitchesOff, vars
<1> QED
  BY <1>1, <1>2, <1>4, <1>5 DEF Next

\* The end of a recording deletes its file only if the pause key was pressed while
\* something was recorded, however else timers, timeshift, standby, zaps and wrong
\* messages of the record mode interleave (stream2file.cpp, stop_recording;
\* neutrino2.cpp, the use of timeshiftstatus and autoshift).
THEOREM OnlyPauseErases ==
    Spec /\ [][PauseKey => ~vcr.record]_vars => []RecordingKept
<1>1. Init => Spared(State)
  BY DEF Init, State, Spared, Unharmed, Flagged
<1>2. IInv /\ Spared(State) /\ [Next]_vars /\ [PauseKey => ~vcr.record]_vars
         => Spared(State)'
  BY NextSpares
<1>3. Spared(State) => RecordingKept
  BY DEF Spared, Unharmed, RecordingKept, State
<1> QED
  BY <1>1, <1>2, <1>3, Invariant, PTL DEF Spec

-----------------------------------------------------------------------------
(* timerd, as neutrino sees it, keeps to RecordTimer: what neutrino does with its *)
(* timers, and what happens to them beside, are moves that timerd promises.       *)

TimerStatus(i) ==
    CASE timers[i].state = "free"      -> "unused"
      [] timers[i].state = "scheduled" -> "waiting"
      [] timers[i].state = "open"      -> "waiting"
      [] timers[i].state = "running"   -> "asked"
      [] timers[i].state = "endless"   -> "endless"
      [] timers[i].state = "over"      -> "ended"

Timerd == INSTANCE RecordTimer WITH status <- [i \in Ids |-> TimerStatus(i)]

\* What the operators need of a state: that it has timers, and these a state.
Fielded(s) ==
    /\ "timers" \in DOMAIN s
    /\ DOMAIN s.timers = Ids
    /\ \A i \in Ids : "state" \in DOMAIN s.timers[i]

\* An operation leaves every timer alone; it may end recordings that run; and it may
\* begin one under an identifier that was free.
Untouched(s, t) == Fielded(t) /\ t.timers = s.timers

Ending(s, t) ==
    /\ Fielded(t)
    /\ \A i \in Ids : \/ t.timers[i].state = s.timers[i].state
                      \/ s.timers[i].state = "running" /\ t.timers[i].state = "over"

Moving(s, t) ==
    /\ Fielded(t)
    /\ \A i \in Ids : \/ t.timers[i].state = s.timers[i].state
                      \/ s.timers[i].state = "running" /\ t.timers[i].state = "over"
                      \/ s.timers[i].state = "free" /\ t.timers[i].state = "running"

LEMMA EndingFrees ==
    ASSUME NEW s, NEW t, Ending(s, t) PROVE FreeIds(t) = FreeIds(s)
BY DEF Ending, FreeIds

LEMMA EndingMoving ==
    ASSUME NEW s, NEW t, NEW u, Ending(s, t), Moving(t, u) PROVE Moving(s, u)
BY DEF Ending, Moving

LEMMA CallUntouched ==
    ASSUME NEW s, Fielded(s), NEW z
    PROVE  Untouched(s, Call(s, z))
BY DEF Call, Fielded, Untouched

LEMMA RestoreUntouched ==
    ASSUME NEW s, Fielded(s)
    PROVE  Untouched(s, RestoreNeutrino(s))
<1> DEFINE a == Call(s, UnsetRecordMode(s.zapit))
           b == Call(a, EnterStandby(a.zapit))
<1>1. Untouched(s, a)
  BY CallUntouched
<1>2. RestoreNeutrino(s) = a \/ RestoreNeutrino(s) = b
  BY DEF RestoreNeutrino
<1> HIDE DEF a
<1>3. Untouched(a, b)
  BY <1>1, CallUntouched DEF Untouched
<1> QED
  BY <1>1, <1>2, <1>3 DEF Untouched

LEMMA CutUntouched ==
    ASSUME NEW s, Fielded(s), NEW c
    PROVE  Untouched(s, CutBackNeutrino(s, c))
<1> DEFINE a == IF s.gui.mode = "standby" THEN Call(s, LeaveStandby(s.zapit)) ELSE s
           b == Call(a, ZapToRecord(a.zapit, c))
           d == Call(b, SetRecordMode(b.zapit))
           e == [d EXCEPT !.vcr = [@ EXCEPT !.last_mode = s.gui.mode]]
<1>1. Untouched(s, a)
  BY CallUntouched DEF Untouched
<1>2. CutBackNeutrino(s, c) = e
  BY DEF CutBackNeutrino
<1> HIDE DEF a
<1>3. Untouched(a, b)
  BY <1>1, CallUntouched DEF Untouched
<1> HIDE DEF b
<1>4. Untouched(b, d)
  BY <1>3, CallUntouched DEF Untouched
<1> HIDE DEF d
<1>5. Untouched(d, e)
  BY <1>4 DEF Untouched, Fielded
<1> QED
  BY <1>1, <1>2, <1>3, <1>4, <1>5 DEF Untouched

LEMMA RecordUntouched ==
    ASSUME NEW s, Fielded(s), NEW c, NEW ok
    PROVE  Untouched(s, Record(s, c, ok))
<1> DEFINE a == CutBackNeutrino(s, c)
           b == [a EXCEPT !.vcr.info = TRUE]
           d == [b EXCEPT !.vcr.written = "nothing", !.vcr.clean = FALSE]
<1>1. Untouched(s, a)
  BY CutUntouched
<1>2. Record(s, c, ok) = IF ok THEN StartRecording(b) ELSE RestoreNeutrino(d)
  BY DEF Record
<1> HIDE DEF a
<1>3. Untouched(a, b)
  BY <1>1 DEF Untouched, Fielded
<1> HIDE DEF b
<1>4. Untouched(b, StartRecording(b))
  BY <1>3 DEF StartRecording, Untouched, Fielded
<1>5. Untouched(b, d)
  BY <1>3 DEF Untouched, Fielded
<1> HIDE DEF d
<1>6. Untouched(d, RestoreNeutrino(d))
  BY <1>5, RestoreUntouched DEF Untouched
<1> QED
  BY <1>1, <1>2, <1>3, <1>4, <1>5, <1>6 DEF Untouched

LEMMA StopUntouched ==
    ASSUME NEW s, Fielded(s)
    PROVE  Untouched(s, Stop(s))
<1> DEFINE a == StopRecording(s)
           b == RestoreNeutrino(a)
           c == [b EXCEPT !.vcr = [@ EXCEPT !.record = FALSE, !.info = FALSE,
                                   !.clean = FALSE, !.retried = FALSE, !.missed = FALSE]]
           d == [s EXCEPT !.power = "crashed"]
<1>1. Untouched(s, a)
  BY DEF StopRecording, Untouched, Fielded
<1>2. Stop(s) = c \/ Stop(s) = d
  BY DEF Stop
<1>3. Untouched(s, d)
  BY DEF Untouched, Fielded
<1> HIDE DEF a, d
<1>4. Untouched(a, b)
  BY <1>1, RestoreUntouched DEF Untouched
<1> HIDE DEF b
<1>5. Untouched(b, c)
  BY <1>4 DEF Untouched, Fielded
<1> QED
  BY <1>1, <1>2, <1>3, <1>4, <1>5 DEF Untouched

LEMMA TimerStopEnds ==
    ASSUME NEW s, Fielded(s), NEW i
    PROVE  Ending(s, StopTimerEvent(s, i))
<1> DEFINE ts == [s.timers EXCEPT ![i].state = "over"]
           t  == [s EXCEPT !.timers = ts, !.events = Append(@, EndOf(i))]
<1>1. CASE i \in Ids /\ s.timers[i].state = "running"
  <2>1. StopTimerEvent(s, i) = t
    BY <1>1 DEF StopTimerEvent, EndOf
  <2>2. /\ DOMAIN ts = Ids /\ "state" \in DOMAIN ts[i]
        /\ \A j \in Ids : j # i => ts[j] = s.timers[j]
        /\ ts[i].state = "over"
    BY <1>1 DEF Fielded
  <2> HIDE DEF ts
  <2>3. t.timers = ts /\ Fielded(t)
    BY <2>2 DEF Fielded
  <2> HIDE DEF t
  <2> QED
    BY <1>1, <2>1, <2>2, <2>3 DEF Ending
<1>2. CASE ~(i \in Ids /\ s.timers[i].state = "running")
  BY <1>2 DEF StopTimerEvent, Ending
<1> QED
  BY <1>1, <1>2

LEMMA ImmediateMoves ==
    ASSUME NEW s, Fielded(s), FreeIds(s) # {}
    PROVE  Moving(s, AddImmediate(s))
<1> DEFINE i  == CHOOSE j \in FreeIds(s) : \A k \in FreeIds(s) : j <= k
           ts == [s.timers EXCEPT ![i] = [channel |-> s.zapit.live, state |-> "running"]]
           t  == [s EXCEPT !.timers = ts, !.gui.recording_id = i]
<1>1. i \in Ids /\ s.timers[i].state = "free"
  <2>1. MaxId \in Nat /\ FreeIds(s) \subseteq 1 .. MaxId
    BY RecordingAssumption DEF FreeIds, Ids
  <2>2. \E j \in FreeIds(s) : \A k \in FreeIds(s) : j <= k
    BY <2>1, FirstOf
  <2> QED
    BY <2>2 DEF FreeIds
<1>2. AddImmediate(s) = t
  BY DEF AddImmediate
<1> HIDE DEF i
<1>3. /\ DOMAIN ts = Ids /\ "state" \in DOMAIN ts[i]
      /\ \A j \in Ids : j # i => ts[j] = s.timers[j]
      /\ ts[i].state = "running"
  BY <1>1 DEF Fielded
<1> HIDE DEF ts
<1>4. t.timers = ts /\ Fielded(t)
  BY <1>3 DEF Fielded
<1> HIDE DEF t
<1> QED
  BY <1>1, <1>2, <1>3, <1>4 DEF Moving

-----------------------------------------------------------------------------
(* The handlers. *)

LEMMA UntouchedEnding ==
    ASSUME NEW s, NEW t, NEW u, Untouched(s, t), Ending(t, u) PROVE Ending(s, u)
BY DEF Untouched, Ending

LEMMA EndingUntouched ==
    ASSUME NEW s, NEW t, NEW u, Ending(s, t), Untouched(t, u) PROVE Ending(s, u)
BY DEF Untouched, Ending

LEMMA EndingTransitive ==
    ASSUME NEW s, NEW t, NEW u, Ending(s, t), Ending(t, u) PROVE Ending(s, u)
BY DEF Ending

LEMMA AutoRecordEnds ==
    ASSUME NEW s, Fielded(s) PROVE Ending(s, StopAutoRecord(s))
<1> DEFINE a == Stop(s)
           b == StopTimerEvent(a, s.gui.recording_id)
           c == [b EXCEPT !.gui.autoshift = FALSE, !.gui.recording_id = 0]
           d == [s EXCEPT !.gui.shift_timer = FALSE]
<1>1. Untouched(s, a) /\ Ending(s, d)
  BY StopUntouched DEF Ending, Fielded
<1>2. StopAutoRecord(s) = c \/ StopAutoRecord(s) = d
  BY DEF StopAutoRecord
<1> HIDE DEF a
<1>3. Ending(a, b)
  BY <1>1, TimerStopEnds DEF Untouched
<1> HIDE DEF b
<1>4. Untouched(b, c)
  BY <1>3 DEF Ending, Untouched, Fielded
<1> HIDE DEF c, d
<1> QED
  BY <1>1, <1>2, <1>3, <1>4, UntouchedEnding, EndingUntouched

LEMMA TimeshiftEnds ==
    ASSUME NEW s, Fielded(s) PROVE Ending(s, EndTimeshift(s))
<1> DEFINE a == StopAutoRecord(s)
           b == [a EXCEPT !.gui.recordingstatus = FALSE, !.gui.timeshiftstatus = FALSE]
<1>1. Ending(s, a) /\ Ending(s, s)
  BY AutoRecordEnds DEF Ending
<1>2. EndTimeshift(s) = b \/ EndTimeshift(s) = s
  BY DEF EndTimeshift
<1> HIDE DEF a
<1>3. Untouched(a, b)
  BY <1>1 DEF Ending, Untouched, Fielded
<1> QED
  BY <1>1, <1>2, <1>3, EndingUntouched

LEMMA BeginningMoves ==
    ASSUME NEW s, Fielded(s), NEW c, NEW ok, NEW caller, ok => FreeIds(s) # {}
    PROVE  Moving(s, IF ok THEN AddImmediate(Record(s, c, ok)) ELSE Show(Record(s, c, ok), caller))
<1> DEFINE r == Record(s, c, ok)
<1>1. Untouched(s, r)
  BY RecordUntouched
<1> HIDE DEF r
<1>2. FreeIds(r) = FreeIds(s) /\ Ending(s, r) /\ Fielded(r)
  BY <1>1 DEF Untouched, FreeIds, Ending
<1>3. ok => Moving(s, AddImmediate(r))
  BY <1>2, ImmediateMoves, EndingMoving
<1>4. Moving(s, Show(r, caller))
  BY <1>2 DEF Show, Ending, Moving, Fielded
<1> QED
  BY <1>3, <1>4 DEF r

LEMMA AutoRecordMoves ==
    ASSUME NEW s, Fielded(s), NEW caller, NEW ok, ok => FreeIds(s) # {}
    PROVE  Moving(s, StartAutoRecord(s, caller, ok))
<1> DEFINE a == [s EXCEPT !.gui.autoshift = TRUE, !.gui.recordingstatus = TRUE,
                          !.gui.timeshiftstatus = TRUE]
           r == Record(a, s.zapit.live, ok)
           t == IF ok THEN AddImmediate(r) ELSE Show(r, caller)
<1>1. StartAutoRecord(s, caller, ok) = s \/ StartAutoRecord(s, caller, ok) = t
  BY DEF StartAutoRecord
<1>2. Fielded(a) /\ FreeIds(a) = FreeIds(s) /\ Ending(s, a) /\ Moving(s, s)
  BY DEF Fielded, FreeIds, Ending, Moving
<1> HIDE DEF a
<1>3. Moving(a, t)
  BY <1>2, BeginningMoves
<1> HIDE DEF t
<1> QED
  BY <1>1, <1>2, <1>3, EndingMoving

LEMMA GuiRecordMoves ==
    ASSUME NEW s, Fielded(s), NEW ok, FreeIds(s) # {}
    PROVE  Moving(s, DoGuiRecord(s, ok))
<1> DEFINE a == IF s.gui.autoshift THEN StopAutoRecord(s) ELSE s
<1>1. Ending(s, a)
  BY AutoRecordEnds DEF Ending
<1>2. DoGuiRecord(s, ok) = IF ok THEN AddImmediate(Record(a, a.zapit.live, ok))
                           ELSE Show(Record(a, a.zapit.live, ok), "key")
  BY DEF DoGuiRecord
<1> HIDE DEF a
<1>3. Fielded(a) /\ FreeIds(a) # {}
  BY <1>1, EndingFrees DEF Ending
<1>4. Moving(a, DoGuiRecord(s, ok))
  BY <1>2, <1>3, BeginningMoves
<1> QED
  BY <1>1, <1>4, EndingMoving

LEMMA NextRecordingUntouched ==
    ASSUME NEW s, Fielded(s), NEW caller, NEW ok
    PROVE  Untouched(s, StartNextRecording(s, caller, ok))
<1> DEFINE a == [s EXCEPT !.gui.recording_id = s.gui.next]
           r == Record(a, s.timers[s.gui.next].channel, ok)
           b == [r EXCEPT !.gui.recordingstatus = TRUE, !.vcr.retried = s.vcr.late]
           t == IF ok THEN Forget(b) ELSE Show(r, caller)
<1>1. StartNextRecording(s, caller, ok) = t
  BY DEF StartNextRecording
<1>2. Untouched(s, a)
  BY DEF Fielded, Untouched
<1> HIDE DEF a
<1>3. Untouched(a, r)
  BY <1>2, RecordUntouched DEF Untouched
<1> HIDE DEF r
<1>4. Untouched(r, b)
  BY <1>3 DEF Untouched, Fielded
<1> HIDE DEF b
<1>5. Untouched(b, Forget(b)) /\ Untouched(r, Show(r, caller))
  BY <1>3, <1>4 DEF Forget, Show, Untouched, Fielded
<1> QED
  BY <1>1, <1>2, <1>3, <1>4, <1>5 DEF Untouched

LEMMA StartEnds ==
    ASSUME NEW s, Fielded(s), NEW i, NEW ok
    PROVE  Ending(s, RecordStart(s, i, ok))
<1> DEFINE a == EndTimeshift(s)
           b == [a EXCEPT !.gui.next = i, !.vcr.late = FALSE]
           r == StartNextRecording(b, "start", ok)
<1>1. RecordStart(s, i, ok) = ReturnCancelAll(r) \/ RecordStart(s, i, ok) = r
  BY DEF RecordStart
<1>2. Ending(s, a)
  BY TimeshiftEnds
<1> HIDE DEF a
<1>3. Untouched(a, b)
  BY <1>2 DEF Ending, Untouched, Fielded
<1> HIDE DEF b
<1>4. Untouched(b, r)
  BY <1>3, NextRecordingUntouched DEF Untouched
<1> HIDE DEF r
<1>5. Untouched(r, ReturnCancelAll(r))
  BY <1>4 DEF Untouched, ReturnCancelAll, Fielded
<1> QED
  BY <1>1, <1>2, <1>3, <1>4, <1>5, EndingUntouched

LEMMA EndUntouches ==
    ASSUME NEW s, Fielded(s), NEW i, NEW ok
    PROVE  Untouched(s, RecordStop(s, i, ok))
<1> DEFINE a == Stop(s)
           b == [a EXCEPT !.gui.recordingstatus = FALSE, !.gui.autoshift = FALSE,
                          !.gui.timeshiftstatus = FALSE]
           c == IF s.vcr.record THEN b ELSE s
           d == [c EXCEPT !.vcr.late = @ \/ s.gui.next = i]
           r == StartNextRecording(d, "stop", ok)
<1>1. RecordStop(s, i, ok) \in {c, r, Forget(s), s}
  BY DEF RecordStop
<1>2. Untouched(s, a) /\ Untouched(s, s) /\ Untouched(s, Forget(s))
  BY StopUntouched DEF Untouched, Forget, Fielded
<1> HIDE DEF a
<1>3. Untouched(a, b)
  BY <1>2 DEF Untouched, Fielded
<1> HIDE DEF b
<1>4. Untouched(s, c)
  BY <1>2, <1>3 DEF Untouched
<1> HIDE DEF c
<1>5. Untouched(c, d)
  BY <1>4 DEF Untouched, Fielded
<1> HIDE DEF d
<1>6. Untouched(d, r)
  BY <1>5, NextRecordingUntouched DEF Untouched
<1> HIDE DEF r
<1> QED
  BY <1>1, <1>2, <1>4, <1>5, <1>6 DEF Untouched

LEMMA StandbyOnEnds ==
    ASSUME NEW s, Fielded(s) PROVE Ending(s, StandbyOn(s))
<1> DEFINE a == EndTimeshift(s)
           b == [a EXCEPT !.gui.wasshift = @ \/ s.gui.autoshift]
           c == Call(b, EnterStandby(b.zapit))
           d == IF ~b.gui.recordingstatus /\ ~b.gui.timeshiftstatus THEN c ELSE b
           e == [d EXCEPT !.gui.mode = "standby"]
<1>1. StandbyOn(s) \in {s, e}
  BY DEF StandbyOn
<1>2. Ending(s, a) /\ Ending(s, s)
  BY TimeshiftEnds DEF Ending
<1> HIDE DEF a
<1>3. Untouched(a, b)
  BY <1>2 DEF Ending, Untouched, Fielded
<1> HIDE DEF b
<1>4. Untouched(b, c)
  BY <1>3, CallUntouched DEF Untouched
<1> HIDE DEF c
<1>5. Untouched(b, d)
  BY <1>3, <1>4 DEF Untouched
<1> HIDE DEF d
<1>6. Untouched(d, e)
  BY <1>5 DEF Untouched, Fielded
<1> QED
  BY <1>1, <1>2, <1>3, <1>5, <1>6, EndingUntouched

LEMMA StandbyOffMoves ==
    ASSUME NEW s, Fielded(s), NEW ok, s.gui.wasshift /\ ok => FreeIds(s) # {}
    PROVE  Moving(s, StandbyOff(s, ok))
<1> DEFINE a == Call(s, LeaveStandby(s.zapit))
           b == [a EXCEPT !.gui.mode = "tv"]
           e == EndTimeshift(b)
           r == IF s.gui.wasshift THEN StartAutoRecord(e, "wake", ok) ELSE e
           d == [r EXCEPT !.gui.wasshift = FALSE]
<1>1. StandbyOff(s, ok) \in {s, r, d}
  BY DEF StandbyOff
<1>2. Untouched(s, a) /\ Moving(s, s)
  BY CallUntouched DEF Moving
<1> HIDE DEF a
<1>3. Untouched(a, b)
  BY <1>2 DEF Untouched, Fielded
<1> HIDE DEF b
<1>4. Ending(b, e)
  BY <1>3, TimeshiftEnds DEF Untouched
<1> HIDE DEF e
<1>5. Ending(s, e)
  BY <1>2, <1>3, <1>4, UntouchedEnding
<1>6. Moving(e, r)
  <2>1. Fielded(e) /\ FreeIds(e) = FreeIds(s) /\ Moving(e, e)
    BY <1>5, EndingFrees DEF Ending, Moving
  <2> QED
    BY <2>1, AutoRecordMoves
<1> HIDE DEF r
<1>7. Moving(e, d)
  BY <1>6 DEF Moving, Fielded
<1> QED
  BY <1>1, <1>2, <1>5, <1>6, <1>7, EndingMoving

LEMMA SwitchOffEnds ==
    ASSUME NEW s, Fielded(s) PROVE Ending(s, SwitchOff(s))
<1> DEFINE a == Stop(s)
           b == StopTimerEvent(a, s.gui.recording_id)
           c == IF s.gui.recordingstatus THEN b ELSE s
           d == [c EXCEPT !.power = IF @ = "crashed" THEN @ ELSE "off"]
<1>1. SwitchOff(s) = d
  BY DEF SwitchOff
<1>2. Untouched(s, a) /\ Ending(s, s)
  BY StopUntouched DEF Ending
<1> HIDE DEF a
<1>3. Ending(a, b)
  BY <1>2, TimerStopEnds DEF Untouched
<1> HIDE DEF b
<1>4. Ending(s, c)
  BY <1>2, <1>3, UntouchedEnding
<1> HIDE DEF c
<1>5. Untouched(c, d)
  BY <1>4 DEF Ending, Untouched, Fielded
<1> QED
  BY <1>1, <1>4, <1>5, EndingUntouched

LEMMA ExitEnds ==
    ASSUME NEW s, Fielded(s) PROVE Ending(s, ExitRun(s))
<1> DEFINE a == EndTimeshift(s)
<1>1. Ending(s, a)
  BY TimeshiftEnds
<1>2. ExitRun(s) = Show(a, "askExit") \/ ExitRun(s) = SwitchOff(a)
  BY DEF ExitRun
<1> HIDE DEF a
<1>3. Fielded(a)
  BY <1>1 DEF Ending
<1>4. Untouched(a, Show(a, "askExit"))
  BY <1>3 DEF Untouched, Show, Fielded
<1>5. Ending(a, SwitchOff(a))
  BY <1>3, SwitchOffEnds
<1> QED
  BY <1>1, <1>2, <1>4, <1>5, EndingUntouched, EndingTransitive

LEMMA StandbyKeyUntouches ==
    ASSUME NEW s, Fielded(s), NEW long PROVE Untouched(s, StandbyKeyDone(s, long))
<1>1. PICK c : StandbyKeyDone(s, long) =
                  ReturnCancelAll([s EXCEPT !.events = Append(@, Signal(c))])
  BY DEF StandbyKeyDone
<1> QED
  BY <1>1 DEF ReturnCancelAll, Untouched, Fielded

LEMMA CloseEnds ==
    ASSUME NEW s, Fielded(s), s.boxes[Len(s.boxes)] \in Boxes \cup Errors, NEW yes
    PROVE  Ending(s, CloseBox(s, yes))
<1> DEFINE box == s.boxes[Len(s.boxes)]
           r   == [s EXCEPT !.boxes = SubSeq(@, 1, Len(@) - 1), !.cancelled = FALSE]
           f   == [r EXCEPT !.gui.recordingstatus = FALSE]
<1>1. Untouched(s, r)
  BY DEF Untouched, Fielded
<1>2. /\ box = "askStop" => CloseBox(s, yes) = AskStopClosed(r, yes)
      /\ box = "askExit" => CloseBox(s, yes) = AskExitClosed(r, yes)
      /\ box = "infobar" => CloseBox(s, yes) = r
      /\ box = "delay" => CloseBox(s, yes) = StandbyKeyDone(r, yes)
      /\ box \in Errors => CloseBox(s, yes) = ErrorClosed(r, box)
  <2>1. CASE box = "askStop"
    BY <2>1 DEF CloseBox, Errors
  <2>2. CASE box = "askExit"
    BY <2>2 DEF CloseBox, Errors
  <2>3. CASE box = "infobar"
    BY <2>3 DEF CloseBox, Errors
  <2>4. CASE box = "delay"
    BY <2>4 DEF CloseBox, Errors
  <2>5. CASE box \in Errors
    BY <2>5 DEF CloseBox, Errors
  <2> QED
    BY <2>1, <2>2, <2>3, <2>4, <2>5
<1> HIDE DEF r, box
<1>3. Ending(r, AskStopClosed(r, yes))
  <2> DEFINE a == StopTimerEvent(r, r.gui.recording_id)
             b == [a EXCEPT !.gui.recordingstatus = FALSE]
  <2>1. AskStopClosed(r, yes) = b \/ AskStopClosed(r, yes) = r
    BY DEF AskStopClosed
  <2>2. Ending(r, a) /\ Ending(r, r)
    BY <1>1, TimerStopEnds DEF Untouched, Ending
  <2> HIDE DEF a
  <2>3. Untouched(a, b)
    BY <2>2 DEF Ending, Untouched, Fielded
  <2> QED
    BY <2>1, <2>2, <2>3, EndingUntouched
<1>4. Ending(r, AskExitClosed(r, yes)) /\ Ending(r, r)
  BY <1>1, SwitchOffEnds DEF AskExitClosed, Untouched, Ending
<1>5. ASSUME box \in Errors PROVE Untouched(r, ErrorClosed(r, box))
  <2>1. Untouched(r, f)
    BY <1>1 DEF Untouched, Fielded
  <2> DEFINE c == Forget(f)
             d == [f EXCEPT !.gui.timeshiftstatus = FALSE, !.gui.autoshift = FALSE]
             e == [f EXCEPT !.gui.timeshiftstatus = FALSE, !.gui.autoshift = FALSE,
                            !.gui.wasshift = FALSE]
  <2>2. ErrorClosed(r, box) \in {ReturnCancelAll(c), c, f, d, e}
    BY <1>5 DEF ErrorClosed, Errors
  <2> HIDE DEF f
  <2>3. Untouched(f, c) /\ Untouched(f, d) /\ Untouched(f, e)
    BY <2>1 DEF Untouched, Forget, Fielded
  <2> HIDE DEF c, d, e
  <2>4. Untouched(c, ReturnCancelAll(c))
    BY <2>3 DEF Untouched, ReturnCancelAll, Fielded
  <2> QED
    BY <2>1, <2>2, <2>3, <2>4 DEF Untouched
<1>6. Ending(r, CloseBox(s, yes))
  <2>1. box \in {"askStop", "askExit", "infobar", "delay"} \/ box \in Errors
    BY DEF box, Boxes
  <2>2. box \in Errors => Ending(r, ErrorClosed(r, box))
    BY <1>4, <1>5, EndingUntouched
  <2>3. Ending(r, StandbyKeyDone(r, yes))
    BY <1>1, <1>4, StandbyKeyUntouches, EndingUntouched DEF Untouched
  <2> QED
    BY <1>2, <1>3, <1>4, <2>1, <2>2, <2>3
<1> QED
  BY <1>1, <1>6, UntouchedEnding

-----------------------------------------------------------------------------
(* The refinement. *)

TimersMove ==
    \A i \in Ids :
        \/ timers'[i].state = timers[i].state
        \/ timers[i].state = "free"      /\ timers'[i].state \in {"scheduled", "open", "running"}
        \/ timers[i].state = "scheduled" /\ timers'[i].state = "running"
        \/ timers[i].state = "open"      /\ timers'[i].state = "endless"
        \/ timers[i].state = "running"   /\ timers'[i].state = "over"

LEMMA StateFielded ==
    ASSUME IInv
    PROVE  /\ Fielded(State) /\ State.timers = timers /\ State.boxes = boxes /\ State.gui = gui
           /\ timers \in [Ids -> Timer] /\ boxes \in Seq(Boxes \cup Errors)
<1>1. /\ State.timers = timers /\ State.boxes = boxes /\ State.gui = gui
      /\ "timers" \in DOMAIN State
  BY DEF State
<1>2. timers \in [Ids -> Timer] /\ boxes \in Seq(Boxes \cup Errors)
  BY <1>1, Fields DEF IInv, Sound, Core, Typed
<1> QED
  BY <1>1, <1>2 DEF Fielded, Timer

LEMMA BecameMoves ==
    ASSUME IInv, NEW s, s.timers = timers, NEW t, Moving(s, t) \/ Ending(s, t), Becomes(t)
    PROVE  TimersMove
<1>1. timers' = t.timers
  BY DEF Becomes
<1> QED
  BY <1>1 DEF Moving, Ending, TimersMove

LEMMA HandleEventMoves ==
    ASSUME IInv, HandleEvent PROVE TimersMove
<1> DEFINE m == Head(events)
           p == [State EXCEPT !.events = Tail(@)]
           a == [p EXCEPT !.gui.recordingstatus = TRUE]
<1>1. \/ Becomes(Dropped(p, m))
      \/ Delayed /\ Becomes(CloseBox(Dropped(p, m), FALSE))
      \/ \E ok, on \in BOOLEAN :
            \/ Becomes(RecordStart(p, m.id, ok))
            \/ Becomes(RecordStop(p, m.id, ok))
            \/ Becomes(RecordModeChanged(p, on))
            \/ Becomes(ZapComplete(p))
            \/ /\ m.type \in Commands /\ (gui.wasshift /\ ok => FreeIds(State) # {})
               /\ Becomes(Execute(p, m.type, ok))
  BY DEF HandleEvent
<1>2. /\ Fielded(p) /\ p.timers = timers /\ p.gui = gui /\ FreeIds(p) = FreeIds(State)
      /\ Ending(p, p) /\ p.boxes = boxes
  <2>1. p.timers = timers /\ p.gui = gui /\ Fielded(p) /\ p.boxes = boxes
    BY StateFielded DEF Fielded, State
  <2> QED
    BY <2>1, StateFielded DEF FreeIds, Ending
<1> HIDE DEF p, m
<1>3. Ending(p, Dropped(p, m)) /\ Dropped(p, m).boxes = p.boxes
  BY <1>2 DEF Dropped, Ending, Fielded
<1>4. ASSUME NEW ok \in BOOLEAN
      PROVE  Ending(p, RecordStart(p, m.id, ok)) /\ Ending(p, RecordStop(p, m.id, ok))
  BY <1>2, StartEnds, EndUntouches, EndingUntouched
<1>5. ASSUME NEW on \in BOOLEAN PROVE Ending(p, RecordModeChanged(p, on))
  <2> DEFINE c == IF ~p.gui.recordingstatus /\ ~on /\ p.gui.mode = "standby"
                  THEN Call(p, EnterStandby(p.zapit)) ELSE p
             d == [c EXCEPT !.gui.recordingstatus = on]
  <2>1. RecordModeChanged(p, on) = d
    BY DEF RecordModeChanged
  <2>2. Untouched(p, c)
    BY <1>2, CallUntouched DEF Untouched
  <2> HIDE DEF c
  <2>3. Untouched(c, d)
    BY <2>2 DEF Untouched, Fielded
  <2> QED
    BY <1>2, <2>1, <2>2, <2>3, EndingUntouched
<1>6. Ending(p, ZapComplete(p))
  BY <1>2 DEF ZapComplete, Ending, Fielded
<1>7. ASSUME NEW ok \in BOOLEAN, m.type \in Commands, gui.wasshift /\ ok => FreeIds(State) # {}
      PROVE  Moving(p, Execute(p, m.type, ok)) \/ Ending(p, Execute(p, m.type, ok))
  <2>1. Execute(p, m.type, ok) \in {StandbyOn(p), StandbyOff(p, ok), ExitRun(p)}
    BY <1>7 DEF Execute, Commands
  <2> QED
    BY <1>2, <1>7, <2>1, StandbyOnEnds, StandbyOffMoves, ExitEnds
<1>8. ASSUME Delayed PROVE Ending(p, CloseBox(Dropped(p, m), FALSE))
  <2> DEFINE d == Dropped(p, m)
  <2>1. d.boxes[Len(d.boxes)] \in Boxes \cup Errors
    BY <1>2, <1>3, <1>8, StateFielded DEF Delayed
  <2>2. Ending(p, d) /\ Fielded(d)
    BY <1>3 DEF Ending
  <2> HIDE DEF d
  <2>3. Ending(d, CloseBox(d, FALSE))
    BY <2>1, <2>2, CloseEnds
  <2> QED
    BY <2>2, <2>3, EndingTransitive DEF d
<1> QED
  BY <1>1, <1>2, <1>3, <1>4, <1>5, <1>6, <1>7, <1>8, BecameMoves

LEMMA ShiftTimerMoves ==
    ASSUME IInv, ShiftTimer PROVE TimersMove
<1> DEFINE s == [State EXCEPT !.gui.shift_timer = FALSE]
<1>1. \/ Becomes(s)
      \/ Delayed /\ Becomes(CloseBox(s, FALSE))
      \/ \E ok \in BOOLEAN : Becomes(StartAutoRecord(s, "shift", ok))
  BY DEF ShiftTimer
<1>2. s.timers = timers /\ s.boxes = boxes /\ Fielded(s) /\ FreeIds(State) # {}
  BY StateFielded DEF Fielded, State, ShiftTimer, CanRecord
<1>3. FreeIds(s) # {} /\ Ending(s, s)
  BY <1>2, StateFielded DEF FreeIds, Ending
<1> HIDE DEF s
<1>4. ASSUME Delayed PROVE Ending(s, CloseBox(s, FALSE))
  <2>1. s.boxes[Len(s.boxes)] \in Boxes \cup Errors
    BY <1>2, <1>4, StateFielded DEF Delayed
  <2> QED
    BY <1>2, <2>1, CloseEnds
<1> QED
  BY <1>1, <1>2, <1>3, <1>4, AutoRecordMoves, BecameMoves

LEMMA BoxMoves ==
    ASSUME IInv, Answer \/ CancelBox PROVE TimersMove
<1>1. boxes # <<>>
  BY DEF Answer, CanAnswer, CancelBox, CanCancel, IInv, Sound, Core, BoxesSound, State
<1>2. State.boxes[Len(State.boxes)] \in Boxes \cup Errors
  BY <1>1, StateFielded
<1>3. \E yes \in BOOLEAN : Becomes(CloseBox(State, yes))
  BY DEF Answer, CancelBox
<1>4. ASSUME NEW yes \in BOOLEAN PROVE Ending(State, CloseBox(State, yes))
  BY <1>2, StateFielded, CloseEnds
<1> QED
  BY <1>3, <1>4, StateFielded, BecameMoves

LEMMA RecordKeyMoves ==
    ASSUME IInv, NEW start, RecordKey(start) PROVE TimersMove
<1> DEFINE s == EndTimeshift(State)
           b == [s EXCEPT !.gui.recordingstatus = TRUE]
<1>1. \/ Becomes(Show(s, "askStop"))
      \/ \E ok \in BOOLEAN : Becomes(DoGuiRecord(b, ok))
      \/ Becomes(s)
  BY DEF RecordKey
<1>2. Ending(State, s) /\ FreeIds(State) # {}
  BY StateFielded, TimeshiftEnds DEF RecordKey, CanRecord
<1> HIDE DEF s
<1>3. Fielded(s) /\ FreeIds(s) # {}
  BY <1>2, EndingFrees DEF Ending
<1>4. Untouched(s, Show(s, "askStop"))
  BY <1>3 DEF Show, Untouched, Fielded
<1>5. Ending(s, b) /\ Fielded(b) /\ FreeIds(b) # {}
  <2>1. b.timers = s.timers /\ Fielded(b)
    BY <1>3 DEF Fielded
  <2> HIDE DEF b
  <2> QED
    BY <1>3, <2>1 DEF Ending, FreeIds
<1> HIDE DEF b
<1>6. ASSUME NEW ok \in BOOLEAN PROVE Moving(State, DoGuiRecord(b, ok))
  BY <1>2, <1>5, GuiRecordMoves, EndingMoving
<1>7. Ending(State, Show(s, "askStop"))
  BY <1>2, <1>4, EndingUntouched
<1> QED
  BY <1>1, <1>2, <1>6, <1>7, StateFielded, BecameMoves

LEMMA PauseKeyMoves ==
    ASSUME IInv, PauseKey PROVE TimersMove
<1> DEFINE s == [State EXCEPT !.gui.timeshiftstatus = TRUE]
           b == [s EXCEPT !.gui.recordingstatus = TRUE]
<1>1. Becomes(s) \/ \E ok \in BOOLEAN : Becomes(DoGuiRecord(b, ok))
  BY DEF PauseKey
<1>2. s.timers = timers /\ Fielded(s)
  BY StateFielded DEF Fielded, State
<1> HIDE DEF s
<1>3. b.timers = timers /\ Fielded(b)
  BY <1>2 DEF Fielded
<1> HIDE DEF b
<1>4. FreeIds(b) # {} /\ Ending(s, s)
  BY <1>2, <1>3, StateFielded DEF PauseKey, CanRecord, FreeIds, Ending
<1> QED
  BY <1>1, <1>2, <1>3, <1>4, GuiRecordMoves, BecameMoves

LEMMA ZapKeyMoves ==
    ASSUME IInv, NEW c, ZapKey(c) PROVE TimersMove
<1> DEFINE a == StopAutoRecord(State)
           b == [a EXCEPT !.gui.recordingstatus = FALSE]
           s == IF gui.autoshift THEN b ELSE State
           t == Call(s, ZapTo(s.zapit, c))
<1>1. Becomes(t)
  BY DEF ZapKey
<1>2. Ending(State, a) /\ Ending(State, State)
  BY StateFielded, AutoRecordEnds DEF Ending
<1> HIDE DEF a
<1>3. Untouched(a, b)
  BY <1>2 DEF Ending, Untouched, Fielded
<1> HIDE DEF b
<1>4. Ending(State, s)
  BY <1>2, <1>3, EndingUntouched
<1> HIDE DEF s
<1>5. Untouched(s, t)
  BY <1>4, CallUntouched DEF Ending
<1> HIDE DEF t
<1> QED
  BY <1>1, <1>4, <1>5, StateFielded, EndingUntouched, BecameMoves

LEMMA StandbyKeyMoves ==
    ASSUME IInv, StandbyKey PROVE TimersMove
<1>1. \/ \E long \in BOOLEAN : Becomes(StandbyKeyDone(State, long))
      \/ Becomes(Show(State, "delay"))
  BY DEF StandbyKey
<1>2. Ending(State, State) /\ Fielded(State)
  BY StateFielded DEF Ending
<1>3. Untouched(State, Show(State, "delay"))
  BY <1>2 DEF Show, Untouched, Fielded
<1>4. ASSUME NEW long \in BOOLEAN PROVE Ending(State, StandbyKeyDone(State, long))
  BY <1>2, StandbyKeyUntouches, EndingUntouched
<1>5. Ending(State, Show(State, "delay"))
  BY <1>2, <1>3, EndingUntouched
<1> QED
  BY <1>1, <1>4, <1>5, StateFielded, BecameMoves

LEMMA NextMoves ==
    ASSUME IInv, [Next]_vars PROVE TimersMove
<1>1. CASE HandleEvent \/ ShiftTimer \/ Answer \/ CancelBox
  BY <1>1, HandleEventMoves, ShiftTimerMoves, BoxMoves
<1>2. CASE \/ \E start \in BOOLEAN : RecordKey(start)
           \/ PauseKey \/ StandbyKey
           \/ \E c \in Channels : ZapKey(c)
  BY <1>2, RecordKeyMoves, PauseKeyMoves, StandbyKeyMoves, ZapKeyMoves
<1>3. CASE ShowInfo
  <2>1. Ending(State, Show(State, "infobar")) /\ Becomes(Show(State, "infobar"))
    BY <1>3, StateFielded DEF ShowInfo, Show, Ending, Fielded
  <2> QED
    BY <2>1, StateFielded, BecameMoves
<1>4. CASE \/ \E i \in Ids, c \in Channels : Program(i, c)
           \/ \E i \in Ids : TimerStarts(i)
           \/ \E i \in Ids : TimerStops(i)
  <2>1. timers \in [Ids -> Timer]
    BY StateFielded
  <2>2. ASSUME NEW i \in Ids, NEW c \in Channels, Program(i, c) PROVE TimersMove
    BY <2>1, <2>2 DEF Program, TimersMove, Timer
  <2>3. ASSUME NEW i \in Ids, TimerStarts(i) PROVE TimersMove
    BY <2>1, <2>3 DEF TimerStarts, TimersMove, Timer
  <2>4. ASSUME NEW i \in Ids, TimerStops(i) PROVE TimersMove
    BY <2>1, <2>4 DEF TimerStops, TimersMove, Timer
  <2> QED
    BY <1>4, <2>2, <2>3, <2>4
<1>5. CASE TimerSwitchesOff \/ UNCHANGED vars
  BY <1>5 DEF TimerSwitchesOff, vars, TimersMove
<1> QED
  BY <1>1, <1>2, <1>3, <1>4, <1>5 DEF Next

\* Nothing neutrino does with timerd's timers leaves what timerd promises: a recording
\* made by hand or a timeshift gets an identifier that was not given, a recording
\* begins only once and only while it waits, and what is over stays over, whoever
\* stopped it (neutrino2.cpp, doGuiRecord, startAutoRecord, stopAutoRecord, exitRun;
\* timermanager.cpp, addEvent, stopEvent).
THEOREM TimersAsPromised == Spec => Timerd!Spec
<1>1. Init => Timerd!Init
  BY DEF Init, Timerd!Init, TimerStatus
<1>2. IInv /\ [Next]_vars => Timerd!Next
  <2> SUFFICES ASSUME IInv, [Next]_vars PROVE Timerd!Next
    OBVIOUS
  <2>1. TimersMove
    BY NextMoves
  <2>2. ASSUME NEW i \in Ids
        PROVE  TimerStatus(i)' = TimerStatus(i) \/ <<TimerStatus(i), TimerStatus(i)'>> \in Timerd!Moves
    BY <2>1 DEF TimersMove, TimerStatus, Timerd!Moves
  <2>3. Timerd!Move
    BY <2>2 DEF Timerd!Move
  <2> QED
    BY <2>3 DEF Timerd!Next
<1> QED
  BY <1>1, <1>2, Invariant, PTL DEF Spec, Timerd!Spec

=============================================================================
