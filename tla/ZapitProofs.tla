----------------------------- MODULE ZapitProofs -----------------------------
(***************************************************************************)
(* What the operations of zapit do to the tuners, for every number of      *)
(* tuners, channels and transponders: a locked tuner is left alone, and    *)
(* the tuner of the live channel is tuned.                                 *)
(***************************************************************************)
EXTENDS Zapit, FiniteSetTheorems, TLAPS

\* There is at least one tuner, and they are numbered from 1.
LEMMA Numbered == \E n \in Nat \ {0} : Frontends = 1 .. n
<1>1. Cardinality(Frontends) \in Nat /\ Cardinality(Frontends) # 0
  BY FrontendAssumption, FS_CardinalityType, FS_EmptySet
<1> QED
  BY <1>1, FrontendAssumption

\* A set of positions has a first one: the positions before all of them are as
\* many as the number before the first.
LEMMA FirstOf ==
    ASSUME NEW N \in Nat, NEW T, T \subseteq 1 .. N, T # {}
    PROVE  \E i \in T : \A j \in T : i <= j
<1> DEFINE before == {i \in 1 .. N : \A j \in T : i < j}
           n == Cardinality(before)
<1>1. before \subseteq 1 .. N /\ IsFiniteSet(1 .. N)
  BY FS_Interval
<1>2. IsFiniteSet(before) /\ n \in Nat
  BY <1>1, FS_Subset, FS_CardinalityType
<1>3. ASSUME NEW i \in before PROVE i <= n
  <2>1. 1 .. i \subseteq before /\ i \in Nat /\ i >= 1
    OBVIOUS
  <2>2. Cardinality(1 .. i) = i
    BY <2>1, FS_Interval
  <2>3. Cardinality(1 .. i) <= n
    BY <1>2, <2>1, FS_Subset
  <2> QED
    BY <2>2, <2>3
<1>4. before = 1 .. n
  <2>1. before \subseteq 1 .. n
    BY <1>2, <1>3
  <2>2. IsFiniteSet(1 .. n) /\ Cardinality(1 .. n) = n
    BY <1>2, FS_Interval
  <2> QED
    BY <2>1, <2>2, FS_Subset
<1> HIDE DEF n
<1>5. \A j \in T : n < j
  BY <1>2, <1>4
<1> HIDE DEF before
<1>6. PICK k \in T : k <= n + 1
  <2>1. n + 1 \notin before
    BY <1>2, <1>4
  <2>2. PICK j \in T : TRUE
    OBVIOUS
  <2>3. n + 1 \in 1 .. N
    BY <1>2, <1>5, <2>2
  <2> QED
    BY <1>2, <2>1, <2>3 DEF before
<1> QED
  BY <1>2, <1>5, <1>6

LEMMA LeastFound ==
    ASSUME NEW S, S \subseteq Frontends, S # {}
    PROVE  Least(S) \in S
BY FirstOf, Numbered DEF Least

LEMMA GreatestFound ==
    ASSUME NEW S, S \subseteq Frontends, S # {}
    PROVE  Greatest(S) \in S
<1>1. PICK n \in Nat \ {0} : Frontends = 1 .. n
  BY Numbered
<1> DEFINE mirror == {f \in 1 .. n : n + 1 - f \in S}
<1>2. ASSUME NEW f \in S PROVE n + 1 - f \in mirror
  <2>1. f \in 1 .. n /\ n + 1 - f \in 1 .. n /\ n + 1 - (n + 1 - f) = f
    BY <1>1
  <2> QED
    BY <2>1
<1>3. PICK k \in mirror : \A j \in mirror : k <= j
  BY <1>1, <1>2, FirstOf
<1>4. \A f \in S : f \in 1 .. n /\ k <= n + 1 - f
  BY <1>1, <1>2, <1>3
<1>5. n + 1 - k \in S /\ \A f \in S : f <= n + 1 - k
  BY <1>1, <1>3, <1>4
<1> QED
  BY <1>5 DEF Greatest

-----------------------------------------------------------------------------
(* One frontend: a locked one is tuned, a tuned one is open. *)

Intact(fe) ==
    /\ fe \in Frontend
    /\ fe.tuned => ~fe.standby
    /\ fe.locked => fe.tuned

LEMMA ClosedIntact ==
    ASSUME NEW fe, Intact(fe), ~fe.locked
    PROVE  Intact(Closed(fe)) /\ ~Closed(fe).locked /\ ~Closed(fe).tuned
BY DEF Intact, Closed, Frontend

LEMMA OpenedIntact ==
    ASSUME NEW fe, Intact(fe)
    PROVE  /\ Intact(Opened(fe)) /\ ~Opened(fe).standby
           /\ Opened(fe).locked = fe.locked
           /\ fe.tuned => Opened(fe) = fe
BY DEF Intact, Opened, Frontend

\* A locked frontend is tuned only to the transponder it is on, which changes nothing.
LEMMA TunedIntact ==
    ASSUME NEW fe, Intact(fe), ~fe.standby, NEW tp \in Transponders,
           fe.locked => fe.tp = tp
    PROVE  /\ Intact(Tuned(fe, tp))
           /\ Tuned(fe, tp).locked = fe.locked
           /\ fe.locked => Tuned(fe, tp) = fe
           /\ tp \in Receivable => Tuned(fe, tp).tuned
BY DEF Intact, Tuned, Frontend

-----------------------------------------------------------------------------
(* All tuners: what holds of zapit's state between two calls. *)

AllReceived == Transponders \subseteq Receivable

\* With all channels received the live tuner is tuned, whatever zaps have failed for
\* want of a free tuner: a zap then leaves live_fe as it was.
LiveTuned(z) == AllReceived => z.fe[z.live_fe].tuned

Locks(z) ==
    /\ z \in ZapitState
    /\ \A f \in Frontends : Intact(z.fe[f])
    /\ z.record_fe = 0 => \A f \in Frontends : ~z.fe[f].locked

Tuners(z) == Locks(z) /\ (z.standby \/ LiveTuned(z))

\* z and t lock the same tuners, and the locked ones are as they were.
SameLocks(z, t) ==
    \A f \in Frontends :
        /\ t.fe[f].locked = z.fe[f].locked
        /\ z.fe[f].locked => t.fe[f] = z.fe[f]

SameRecorder(z, t) ==
    /\ t.rec = z.rec /\ t.record_fe = z.record_fe /\ t.recordMode = z.recordMode
    /\ SameLocks(z, t)

LEMMA UnusedClosed ==
    ASSUME NEW z, Locks(z)
    PROVE  /\ CloseUnused(z) \in ZapitState
           /\ \A x \in {"live", "live_fe", "rec", "record_fe", "recordMode", "standby", "sent"} :
                 CloseUnused(z)[x] = z[x]
           /\ \A f \in Frontends :
                 /\ Intact(CloseUnused(z).fe[f])
                 /\ CloseUnused(z).fe[f].locked = z.fe[f].locked
                 /\ z.fe[f].tuned => CloseUnused(z).fe[f] = z.fe[f]
<1> DEFINE fe == [f \in Frontends |->
                     IF ~z.fe[f].tuned /\ ~z.fe[f].locked /\ Frontends # {f} THEN Closed(z.fe[f])
                     ELSE z.fe[f]]
<1>1. CloseUnused(z) = [z EXCEPT !.fe = fe]
  BY DEF CloseUnused
<1>2. ASSUME NEW f \in Frontends
      PROVE  /\ Intact(fe[f]) /\ fe[f] \in Frontend
             /\ fe[f].locked = z.fe[f].locked
             /\ z.fe[f].tuned => fe[f] = z.fe[f]
  <2>1. Intact(z.fe[f])
    BY DEF Locks
  <2>2. CASE ~z.fe[f].tuned /\ ~z.fe[f].locked /\ Frontends # {f}
    <3>1. fe[f] = Closed(z.fe[f])
      BY <2>2
    <3>2. z.fe[f].locked = FALSE /\ Closed(z.fe[f]).locked = FALSE
      BY <2>1, <2>2 DEF Intact, Frontend, Closed
    <3> QED
      BY <2>1, <2>2, <3>1, <3>2, ClosedIntact DEF Intact
  <2>3. CASE ~(~z.fe[f].tuned /\ ~z.fe[f].locked /\ Frontends # {f})
    BY <2>1, <2>3 DEF Intact
  <2> QED
    BY <2>2, <2>3
<1>3. fe \in [Frontends -> Frontend]
  BY <1>2
<1> HIDE DEF fe
<1> QED
  BY <1>1, <1>2, <1>3 DEF Locks, ZapitState

\* zapTo_ChannelID takes no locked tuner away, and ends with the live tuner tuned: one
\* that was free, one on the transponder, or the old one if all are locked.
LEMMA Zapped ==
    ASSUME NEW z, Locks(z), NEW c \in Channels
    PROVE  /\ Locks(ZapTo(z, c)) /\ LiveTuned(ZapTo(z, c))
           /\ SameRecorder(z, ZapTo(z, c))
           /\ ZapTo(z, c).standby = z.standby
           /\ AllReceived => \A f \in Frontends : z.fe[f].tuned => ZapTo(z, c).fe[f].tuned
<1> DEFINE chosen == LiveCandidates(z, c)
           unused == CloseUnused(z)
           ready  == [unused EXCEPT !.live = c]
           f      == Least(chosen)
           tp     == TransponderOf[c]
           fe     == Tuned(Opened(ready.fe[f]), tp)
           sent   == IF fe.tuned THEN Append(ready.sent, "ZAP_COMPLETE") ELSE ready.sent
           t      == [ready EXCEPT !.live_fe = f, !.fe[f] = fe, !.sent = sent]
<1>1. ZapTo(z, c) = IF chosen = {} THEN ready ELSE t
  BY DEF ZapTo
<1>2. tp \in Transponders
  BY ChannelAssumption
<1>3. /\ ready \in ZapitState
      /\ ready.rec = z.rec /\ ready.record_fe = z.record_fe /\ ready.recordMode = z.recordMode
      /\ ready.standby = z.standby /\ ready.live_fe = z.live_fe
      /\ \A g \in Frontends :
            /\ Intact(ready.fe[g]) /\ Intact(z.fe[g])
            /\ ready.fe[g].locked = z.fe[g].locked
            /\ z.fe[g].tuned => ready.fe[g] = z.fe[g]
      /\ z.record_fe = 0 => \A g \in Frontends : ~z.fe[g].locked
  BY UnusedClosed DEF ZapitState, Locks
<1>4. \A g \in Frontends : z.fe[g].locked => ready.fe[g] = z.fe[g]
  BY <1>3 DEF Intact
<1>5. CASE chosen = {}
  <2>1. \A g \in Frontends : z.fe[g].locked
    BY <1>5 DEF LiveCandidates
  <2>2. LiveTuned(ready)
    BY <1>3, <2>1 DEF LiveTuned, Intact, ZapitState
  <2>3. Locks(ready) /\ SameRecorder(z, ready)
    BY <1>3, <1>4 DEF Locks, SameRecorder, SameLocks
  <2> HIDE DEF ready
  <2> QED
    BY <1>1, <1>3, <1>5, <2>2, <2>3
<1>6. CASE chosen # {}
  <2>1. f \in Frontends /\ f \in chosen
    BY <1>6, LeastFound DEF LiveCandidates
  <2> HIDE DEF f, ready
  <2>2. z.fe[f].locked => z.fe[f].tp = tp
    BY <2>1 DEF LiveCandidates, OnTransponder
  <2>3. ready.fe[f].locked => ready.fe[f].tp = tp
    BY <1>3, <1>4, <2>1, <2>2
  <2>4. /\ Intact(Opened(ready.fe[f])) /\ ~Opened(ready.fe[f]).standby
        /\ Opened(ready.fe[f]).locked = ready.fe[f].locked
        /\ ready.fe[f].locked => Opened(ready.fe[f]) = ready.fe[f]
    <3>1. Intact(ready.fe[f])
      BY <1>3, <2>1
    <3> QED
      BY <3>1, OpenedIntact DEF Intact
  <2>5. /\ Intact(fe) /\ fe.locked = ready.fe[f].locked
        /\ ready.fe[f].locked => fe = ready.fe[f]
        /\ tp \in Receivable => fe.tuned
    BY <1>2, <2>3, <2>4, TunedIntact
  <2> HIDE DEF fe
  <2>6. sent \in Seq(Messages)
    BY <1>3 DEF ZapitState, Messages
  <2> HIDE DEF sent
  <2>7. /\ t \in ZapitState
        /\ t.rec = z.rec /\ t.record_fe = z.record_fe /\ t.recordMode = z.recordMode
        /\ t.standby = z.standby /\ t.live_fe = f
        /\ \A g \in Frontends : t.fe[g] = IF g = f THEN fe ELSE ready.fe[g]
    BY <1>3, <2>1, <2>5, <2>6 DEF ZapitState, Intact
  <2> HIDE DEF t
  <2>8. /\ Locks(t) /\ SameRecorder(z, t)
        /\ AllReceived => \A g \in Frontends : z.fe[g].tuned => t.fe[g].tuned
    BY <1>2, <1>3, <1>4, <2>1, <2>5, <2>7 DEF Locks, SameRecorder, SameLocks, AllReceived
  <2>9. LiveTuned(t)
    BY <1>2, <2>1, <2>5, <2>7 DEF LiveTuned, AllReceived
  <2> QED
    BY <1>1, <1>6, <2>7, <2>8, <2>9
<1> QED
  BY <1>5, <1>6

\* zapTo_RecordID takes no locked tuner away either.  With all channels received the
\* recorder's tuner is tuned when it returns, though a zap may have tuned another one to
\* the transponder (finding 6): the recorder's is then the live one of before.
LEMMA ZappedToRecord ==
    ASSUME NEW z, Tuners(z), ~z.standby, NEW c \in Channels
    PROVE  /\ Tuners(ZapToRecord(z, c))
           /\ SameLocks(z, ZapToRecord(z, c))
           /\ ZapToRecord(z, c).recordMode = z.recordMode
           /\ ~ZapToRecord(z, c).standby
           /\ AllReceived => /\ ZapToRecord(z, c).record_fe # 0
                             /\ ZapToRecord(z, c).fe[ZapToRecord(z, c).record_fe].tuned
<1> DEFINE found == RecordFrontends(z, c)
           f     == Least(found)
           tp    == TransponderOf[c]
           open  == Opened(z.fe[f])
           ready == [z EXCEPT !.rec = c, !.record_fe = f, !.fe[f] = open]
           other == [ready EXCEPT !.fe[f] = Tuned(ready.fe[f], tp)]
           none  == [z EXCEPT !.rec = c]
<1>1. ZapToRecord(z, c) = IF found = {} THEN none
                          ELSE IF f # z.live_fe THEN other
                          ELSE IF TransponderOf[c] # TransponderOf[z.live] THEN ZapTo(ready, c)
                          ELSE ready
  BY DEF ZapToRecord
<1>2. /\ tp \in Transponders /\ 0 \notin Frontends
      /\ z \in ZapitState /\ z.live_fe \in Frontends
      /\ \A g \in Frontends : Intact(z.fe[g])
      /\ LiveTuned(z)
  BY ChannelAssumption, Numbered DEF Tuners, Locks, ZapitState
<1>3. CASE found = {}
  <2>1. \A g \in Frontends : IF g # z.live_fe THEN z.fe[g].tuned ELSE z.fe[g].locked
    <3>1. RecordCandidates(z) = {}
      BY <1>3 DEF RecordFrontends
    <3> QED
      BY <3>1 DEF RecordCandidates
  <2>2. z.fe[z.live_fe].locked /\ z.fe[z.live_fe].tuned
    BY <1>2, <2>1 DEF Intact
  <2>3. z.record_fe \in Frontends /\ z.fe[z.record_fe].tuned
    BY <1>2, <2>1, <2>2 DEF Tuners, Locks, ZapitState
  <2>4. /\ none \in ZapitState /\ none.fe = z.fe /\ none.record_fe = z.record_fe
        /\ none.recordMode = z.recordMode /\ none.standby = z.standby /\ none.live_fe = z.live_fe
    BY <1>2 DEF ZapitState
  <2> HIDE DEF none
  <2>5. Tuners(none) /\ SameLocks(z, none)
    BY <1>2, <2>3, <2>4 DEF Tuners, Locks, LiveTuned, SameLocks
  <2> QED
    BY <1>1, <1>2, <1>3, <2>3, <2>4, <2>5
<1>4. CASE found # {}
  <2> DEFINE same == {g \in Frontends : OnTransponder(z.fe[g], c)}
  <2>1. /\ f \in Frontends
        /\ OnTransponder(z.fe[f], c) \/ (IF f # z.live_fe THEN ~z.fe[f].tuned ELSE ~z.fe[f].locked)
    <3>1. CASE same # {}
      <4>1. found = {Least(same)} /\ Least(same) \in same
        BY <3>1, LeastFound DEF RecordFrontends
      <4>2. f = Least(same)
        BY <4>1, LeastFound
      <4> QED
        BY <4>1, <4>2
    <3>2. CASE same = {}
      <4>1. RecordCandidates(z) # {} /\ found = {Greatest(RecordCandidates(z))}
        BY <1>4, <3>2 DEF RecordFrontends
      <4>2. Greatest(RecordCandidates(z)) \in RecordCandidates(z)
        BY <4>1, GreatestFound DEF RecordCandidates
      <4>3. f = Greatest(RecordCandidates(z))
        BY <4>1, <4>2, LeastFound DEF RecordCandidates
      <4> QED
        BY <4>2, <4>3 DEF RecordCandidates
    <3> QED
      BY <3>1, <3>2
  <2> HIDE DEF f, found, same
  <2>2. /\ Intact(open) /\ ~open.standby /\ open.locked = z.fe[f].locked
        /\ z.fe[f].tuned => open = z.fe[f]
    BY <1>2, <2>1, OpenedIntact
  <2> HIDE DEF open
  <2>3. f # 0 /\ Intact(z.fe[f])
    BY <1>2, <2>1
  <2>4. /\ ready \in ZapitState
        /\ ready.record_fe = f /\ ready.live_fe = z.live_fe /\ ready.standby = z.standby
        /\ ready.recordMode = z.recordMode
        /\ \A g \in Frontends : ready.fe[g] = IF g = f THEN open ELSE z.fe[g]
    BY <1>2, <2>1, <2>2 DEF ZapitState, Intact
  <2>5. Locks(ready) /\ SameLocks(z, ready)
    <3>1. z.fe[f].locked => z.fe[f].tuned
      BY <2>3 DEF Intact
    <3> HIDE DEF ready
    <3> QED
      BY <1>2, <2>2, <2>3, <2>4, <3>1 DEF Locks, SameLocks
  <2>6. CASE f # z.live_fe
    <3> DEFINE fe == Tuned(open, tp)
    <3>1. open.locked => open.tp = tp
      BY <2>1, <2>2, <2>3, <2>6 DEF Intact, OnTransponder
    <3>2. /\ Intact(fe) /\ fe.locked = open.locked
          /\ open.locked => fe = open
          /\ tp \in Receivable => fe.tuned
      BY <1>2, <2>2, <3>1, TunedIntact
    <3>3. fe \in Frontend
      BY <3>2 DEF Intact
    <3>4. z.fe[f].locked => open = z.fe[f]
      BY <2>2, <2>3 DEF Intact
    <3> HIDE DEF ready
    <3>5. other = [ready EXCEPT !.fe[f] = fe]
      BY <2>1, <2>4
    <3> HIDE DEF fe
    <3> DEFINE t == [ready EXCEPT !.fe[f] = fe]
    <3>6. ZapToRecord(z, c) = t
      BY <1>1, <1>4, <2>6, <3>5
    <3>7. /\ t \in ZapitState
          /\ t.record_fe = f /\ t.live_fe = z.live_fe /\ t.standby = z.standby
          /\ t.recordMode = z.recordMode
          /\ \A g \in Frontends : t.fe[g] = IF g = f THEN fe ELSE z.fe[g]
      <4>1. t \in ZapitState
        BY <2>1, <2>4, <3>3 DEF ZapitState
      <4>2. t.record_fe = f /\ t.live_fe = z.live_fe /\ t.standby = z.standby /\ t.recordMode = z.recordMode
        BY <2>1, <2>4, <3>2 DEF ZapitState
      <4>3. ASSUME NEW g \in Frontends PROVE t.fe[g] = IF g = f THEN fe ELSE z.fe[g]
        BY <2>1, <2>4, <3>2 DEF ZapitState
      <4> QED
        BY <4>1, <4>2, <4>3
    <3> HIDE DEF t
    <3>8. Locks(t) /\ SameLocks(z, t)
      <4>1. z.fe[f].locked => fe = z.fe[f]
        BY <2>2, <3>2, <3>4
      <4> QED
        BY <1>2, <2>2, <2>3, <3>2, <3>7, <4>1 DEF Locks, SameLocks, Frontend, Intact
    <3>9. LiveTuned(t)
      BY <1>2, <2>6, <3>7 DEF LiveTuned
    <3> QED
      BY <1>2, <2>1, <2>3, <3>2, <3>7, <3>8, <3>9, <3>6 DEF Tuners, AllReceived
  <2>7. CASE f = z.live_fe
    <3>1. AllReceived => ready.fe[f].tuned
      BY <1>2, <2>2, <2>4, <2>7 DEF LiveTuned
    <3>2. LiveTuned(ready)
      BY <2>4, <2>7, <3>1 DEF LiveTuned
    <3> HIDE DEF ready
    <3>3. CASE TransponderOf[c] # TransponderOf[z.live]
      <4> DEFINE t == ZapTo(ready, c)
      <4>1. ZapToRecord(z, c) = t
        BY <1>1, <1>4, <2>7, <3>3
      <4>2. /\ Locks(t) /\ LiveTuned(t) /\ SameRecorder(ready, t) /\ t.standby = ready.standby
            /\ AllReceived => \A g \in Frontends : ready.fe[g].tuned => t.fe[g].tuned
        BY <2>5, Zapped
      <4> HIDE DEF t
      <4>3. SameLocks(z, t)
        BY <2>5, <4>2 DEF SameLocks, SameRecorder
      <4> QED
        BY <2>1, <2>3, <2>4, <3>1, <4>1, <4>2, <4>3 DEF Tuners, SameRecorder
    <3>4. CASE TransponderOf[c] = TransponderOf[z.live]
      BY <1>1, <1>4, <2>3, <2>4, <2>5, <2>7, <3>1, <3>2, <3>4 DEF Tuners
    <3> QED
      BY <3>3, <3>4
  <2> QED
    BY <2>6, <2>7
<1> QED
  BY <1>3, <1>4

-----------------------------------------------------------------------------
(* Record mode and standby. *)

\* Setting record mode locks the recorder's tuner if it is tuned.
LEMMA RecordModeSet ==
    ASSUME NEW z, Tuners(z)
    PROVE  /\ Tuners(SetRecordMode(z)) /\ SetRecordMode(z).recordMode
           /\ SetRecordMode(z).standby = z.standby
           /\ SetRecordMode(z).record_fe = z.record_fe
           /\ ~z.recordMode /\ z.record_fe # 0 /\ z.fe[z.record_fe].tuned =>
                 SetRecordMode(z).fe[z.record_fe].locked
<1> DEFINE fe   == [f \in Frontends |->
                       [z.fe[f] EXCEPT !.locked = @ \/ (f = z.record_fe /\ z.fe[f].tuned)]]
           sent == Append(z.sent, "RECORDMODE")
           t    == [z EXCEPT !.recordMode = TRUE, !.fe = fe, !.sent = sent]
<1>1. SetRecordMode(z) = IF z.recordMode THEN z ELSE t
  BY DEF SetRecordMode, Tuners, Locks, ZapitState
<1>2. z \in ZapitState /\ 0 \notin Frontends
  BY Numbered DEF Tuners, Locks
<1>3. ASSUME NEW f \in Frontends
      PROVE  /\ Intact(fe[f]) /\ fe[f] \in Frontend /\ fe[f].tuned = z.fe[f].tuned
             /\ f # z.record_fe => fe[f].locked = z.fe[f].locked
             /\ f = z.record_fe /\ z.fe[f].tuned => fe[f].locked
  BY DEF Tuners, Locks, Intact, Frontend
<1>4. fe \in [Frontends -> Frontend]
  BY <1>3
<1> HIDE DEF fe
<1>5. sent \in Seq(Messages)
  BY <1>2 DEF ZapitState, Messages
<1> HIDE DEF sent
<1>6. /\ t \in ZapitState /\ t.fe = fe /\ t.recordMode /\ t.standby = z.standby
      /\ t.record_fe = z.record_fe /\ t.live_fe = z.live_fe
  BY <1>2, <1>4, <1>5 DEF ZapitState
<1> HIDE DEF t
<1>7. Tuners(t)
  BY <1>2, <1>3, <1>6 DEF Tuners, Locks, LiveTuned, ZapitState
<1> QED
  BY <1>1, <1>2, <1>3, <1>6, <1>7 DEF ZapitState

LEMMA RecordModeUnset ==
    ASSUME NEW z, Tuners(z)
    PROVE  /\ Tuners(UnsetRecordMode(z)) /\ ~UnsetRecordMode(z).recordMode
           /\ UnsetRecordMode(z).standby = z.standby
<1> DEFINE fe   == [f \in Frontends |-> [z.fe[f] EXCEPT !.locked = @ /\ f # z.record_fe]]
           sent == Append(z.sent, "RECORDMODE")
           t    == [z EXCEPT !.recordMode = FALSE, !.rec = NoChannel, !.fe = fe, !.sent = sent]
<1>1. UnsetRecordMode(z) = IF ~z.recordMode THEN z ELSE t
  BY DEF UnsetRecordMode, Tuners, Locks, ZapitState
<1>2. z \in ZapitState
  BY DEF Tuners, Locks
<1>3. ASSUME NEW f \in Frontends
      PROVE  /\ Intact(fe[f]) /\ fe[f] \in Frontend /\ fe[f].tuned = z.fe[f].tuned
             /\ ~z.fe[f].locked => ~fe[f].locked
  BY DEF Tuners, Locks, Intact, Frontend
<1>4. fe \in [Frontends -> Frontend]
  BY <1>3
<1> HIDE DEF fe
<1>5. sent \in Seq(Messages)
  BY <1>2 DEF ZapitState, Messages
<1> HIDE DEF sent
<1>6. /\ t \in ZapitState /\ t.fe = fe /\ ~t.recordMode /\ t.standby = z.standby
      /\ t.record_fe = z.record_fe /\ t.live_fe = z.live_fe
  BY <1>2, <1>4, <1>5 DEF ZapitState
<1> HIDE DEF t
<1>7. Tuners(t)
  BY <1>2, <1>3, <1>6 DEF Tuners, Locks, LiveTuned, ZapitState
<1> QED
  BY <1>1, <1>2, <1>6, <1>7 DEF ZapitState

LEMMA StandbyEntered ==
    ASSUME NEW z, Tuners(z)
    PROVE  Tuners(EnterStandby(z)) /\ EnterStandby(z).standby /\ SameRecorder(z, EnterStandby(z))
<1> DEFINE fe == [f \in Frontends |-> IF z.fe[f].locked THEN z.fe[f] ELSE Closed(z.fe[f])]
           t  == [z EXCEPT !.standby = TRUE, !.fe = fe]
<1>1. EnterStandby(z) = IF z.standby THEN z ELSE t
  BY DEF EnterStandby, Tuners, Locks, ZapitState
<1>2. z \in ZapitState /\ \A f \in Frontends : Intact(z.fe[f])
  BY DEF Tuners, Locks
<1>3. ASSUME NEW f \in Frontends
      PROVE  /\ Intact(fe[f]) /\ fe[f] \in Frontend /\ fe[f].locked = z.fe[f].locked
             /\ z.fe[f].locked => fe[f] = z.fe[f]
  <2>1. CASE z.fe[f].locked
    BY <1>2, <2>1 DEF Intact
  <2>2. CASE ~z.fe[f].locked
    <3>1. fe[f] = Closed(z.fe[f])
      BY <2>2
    <3>2. z.fe[f].locked = FALSE /\ Closed(z.fe[f]).locked = FALSE
      BY <1>2, <2>2 DEF Intact, Frontend, Closed
    <3> QED
      BY <1>2, <2>2, <3>1, <3>2, ClosedIntact DEF Intact
  <2> QED
    BY <2>1, <2>2
<1>4. fe \in [Frontends -> Frontend]
  BY <1>3
<1> HIDE DEF fe
<1>5. /\ t \in ZapitState /\ t.fe = fe /\ t.standby
      /\ t.rec = z.rec /\ t.record_fe = z.record_fe /\ t.recordMode = z.recordMode
  BY <1>2, <1>4 DEF ZapitState
<1> HIDE DEF t
<1>6. Tuners(t) /\ SameRecorder(z, t)
  BY <1>3, <1>5 DEF Tuners, Locks, SameRecorder, SameLocks
<1> QED
  BY <1>1, <1>5, <1>6 DEF SameRecorder, SameLocks

LEMMA StandbyLeft ==
    ASSUME NEW z, Tuners(z)
    PROVE  Tuners(LeaveStandby(z)) /\ ~LeaveStandby(z).standby /\ SameRecorder(z, LeaveStandby(z))
<1>1. CASE ~z.standby
  BY <1>1 DEF LeaveStandby, SameRecorder, SameLocks
<1>2. CASE z.standby
  <2> DEFINE y == [z EXCEPT !.standby = FALSE]
             t == ZapTo(y, z.live)
  <2>1. /\ y \in ZapitState /\ ~y.standby /\ z.live \in Channels /\ y.fe = z.fe
        /\ y.rec = z.rec /\ y.record_fe = z.record_fe /\ y.recordMode = z.recordMode
    BY DEF Tuners, Locks, ZapitState
  <2>2. LeaveStandby(z) = t
    BY <1>2 DEF LeaveStandby
  <2> HIDE DEF y
  <2>3. Locks(y)
    BY <2>1 DEF Tuners, Locks
  <2>4. /\ Locks(t) /\ LiveTuned(t) /\ SameRecorder(y, t) /\ t.standby = y.standby
    BY <2>1, <2>3, Zapped
  <2> HIDE DEF t
  <2> QED
    BY <2>1, <2>2, <2>4 DEF Tuners, SameRecorder, SameLocks
<1> QED
  BY <1>1, <1>2

LEMMA Started ==
    ASSUME NEW c \in Channels
    PROVE  /\ Tuners(StartZapit(c)) /\ StartZapit(c).sent = <<>>
           /\ ~StartZapit(c).standby /\ ~StartZapit(c).recordMode
<1> DEFINE fe0 == [tp |-> NoTransponder, tuned |-> FALSE, locked |-> FALSE, standby |-> FALSE]
           z == [fe |-> [f \in Frontends |-> fe0], live |-> c,
                 live_fe |-> Greatest(Frontends), rec |-> NoChannel, record_fe |-> 0,
                 recordMode |-> FALSE, standby |-> FALSE, sent |-> <<>>]
           t == ZapTo(z, c)
<1>1. StartZapit(c) = [t EXCEPT !.sent = <<>>]
  BY DEF StartZapit
<1>2. Greatest(Frontends) \in Frontends
  <2>1. Frontends # {}
    BY Numbered
  <2> QED
    BY <2>1, GreatestFound
<1>3. fe0 \in Frontend
  BY DEF Frontend
<1>4. /\ z \in ZapitState /\ ~z.standby /\ ~z.recordMode
      /\ \A f \in Frontends : z.fe[f] = fe0
  BY <1>2, <1>3 DEF ZapitState
<1>5. Locks(z)
  BY <1>3, <1>4 DEF Locks, Intact
<1> HIDE DEF z
<1>6. Locks(t) /\ LiveTuned(t) /\ ~t.standby /\ ~t.recordMode
  BY <1>4, <1>5, Zapped DEF SameRecorder
<1> HIDE DEF t
<1> DEFINE u == [t EXCEPT !.sent = <<>>]
<1>7. <<>> \in Seq(Messages)
  OBVIOUS
<1>8. /\ u \in ZapitState /\ u.sent = <<>>
      /\ u.fe = t.fe /\ u.live_fe = t.live_fe /\ u.record_fe = t.record_fe
      /\ u.recordMode = t.recordMode /\ u.standby = t.standby
  BY <1>6, <1>7 DEF Locks, ZapitState
<1> HIDE DEF u
<1>9. StartZapit(c) = u
  BY <1>1 DEF u
<1> QED
  BY <1>6, <1>8, <1>9 DEF Tuners, Locks, LiveTuned

=============================================================================
