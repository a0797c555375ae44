---------------------------- MODULE RCInputProofs ----------------------------
(***************************************************************************)
(* Theorems about how the GUI thread gets its timers, messages and keys,   *)
(* for every time limit, pipe size and number of keys.                     *)
(***************************************************************************)
EXTENDS RCInput, FiniteSetTheorems, SequenceTheorems, TLAPS

\* Presses are numbered from 1.
LEMMA PressesCount ==
    /\ MaxPresses \in Nat /\ 0 \notin Presses
    /\ \A n \in Presses : n \in Nat /\ n \in Int /\ n >= 1 /\ n <= MaxPresses
BY InputAssumption DEF Presses

\* The first message or event of a queue, and those behind it.
LEMMA QueueTail ==
    ASSUME NEW S, NEW q \in Seq(S), q # <<>>
    PROVE  /\ Len(q) \in Nat /\ Len(q) >= 1 /\ DOMAIN q = 1 .. Len(q)
           /\ Head(q) = q[1] /\ Head(q) \in S
           /\ Tail(q) \in Seq(S) /\ Len(Tail(q)) = Len(q) - 1
           /\ DOMAIN Tail(q) = 1 .. Len(q) - 1
           /\ \A i \in 1 .. Len(q) - 1 : Tail(q)[i] = q[i + 1]
OBVIOUS

\* A set of positions has a first one: the positions before all of them are as many as the
\* last of these.
LEMMA FirstExists ==
    ASSUME NEW N \in Nat, NEW T, T \subseteq 1 .. N, T # {}
    PROVE  \E i \in T : \A j \in T : i <= j
<1> DEFINE before == {i \in 1 .. N : \A j \in T : i < j}
           n == Cardinality(before)
<1>1. before \subseteq 1 .. N /\ IsFiniteSet(1 .. N)
  BY FS_Interval
<1>2. IsFiniteSet(before) /\ n \in Nat
  BY <1>1, FS_Subset, FS_CardinalityType
<1>3. ASSUME NEW i \in before PROVE i <= n
  <2>1. 1 .. i \subseteq before /\ i \in Nat /\ i >= 1
    OBVIOUS
  <2>2. Cardinality(1 .. i) = i
    BY <2>1, FS_Interval
  <2>3. Cardinality(1 .. i) <= n
    BY <1>2, <2>1, FS_Subset
  <2> QED
    BY <2>2, <2>3
<1>4. before = 1 .. n
  <2>1. before \subseteq 1 .. n
    BY <1>2, <1>3
  <2>2. IsFiniteSet(1 .. n) /\ Cardinality(1 .. n) = n
    BY <1>2, FS_Interval
  <2> QED
    BY <2>1, <2>2, FS_Subset
<1> HIDE DEF n
<1>5. \A j \in T : n < j
  BY <1>2, <1>4
<1> HIDE DEF before
<1>6. PICK k \in T : k <= n + 1
  <2>1. n + 1 \notin before
    BY <1>2, <1>4
  <2>2. PICK j \in T : TRUE
    OBVIOUS
  <2>3. n + 1 \in 1 .. N
    BY <1>2, <1>5, <2>2
  <2> QED
    BY <1>2, <2>1, <2>3 DEF before
<1> QED
  BY <1>2, <1>5, <1>6

(* The timers: none is late, the earliest is the first, and the one of the display is *)
(* never killed.                                                                       *)
Timely(ts) ==
    /\ ts \in Seq(RcTimer)
    /\ \A i \in DOMAIN ts : ts[i].left >= 0 /\ ts[i].interval >= 1
    /\ \A i, j \in DOMAIN ts : i < j => ts[i].left <= ts[j].left
    /\ \E i \in DOMAIN ts : ts[i].id = "lcd"

LEMMA TimerAdded ==
    ASSUME NEW ts \in Seq(RcTimer), NEW t \in RcTimer, t.left >= 0, t.interval >= 1,
           \A i \in DOMAIN ts : ts[i].left >= 0 /\ ts[i].interval >= 1,
           \A i, j \in DOMAIN ts : i < j => ts[i].left <= ts[j].left,
           t.id = "lcd" \/ \E i \in DOMAIN ts : ts[i].id = "lcd"
    PROVE  Timely(addTimer(ts, t))
<1> DEFINE later == {i \in DOMAIN ts : ts[i].left > t.left}
           place == IF later = {} THEN Len(ts) + 1
                    ELSE CHOOSE i \in later : \A j \in later : i <= j
           new == SubSeq(ts, 1, place - 1) \o <<t>> \o SubSeq(ts, place, Len(ts))
<1>1. addTimer(ts, t) = new
  BY DEF addTimer, InsertAt
<1> DEFINE n == Len(ts)
<1>2. n \in Nat /\ DOMAIN ts = 1 .. n /\ \A i \in 1 .. n : ts[i] \in RcTimer
  OBVIOUS
<1>3. t.left \in Int /\ \A i \in 1 .. n : ts[i].left \in Int
  BY <1>2 DEF RcTimer
<1>4. /\ place \in 1 .. n + 1
      /\ \A i \in 1 .. n : IF i < place THEN ts[i].left <= t.left
                                        ELSE ts[i].left > t.left
  <2>1. CASE later = {}
    BY <1>2, <1>3, <2>1
  <2>2. CASE later # {}
    <3>1. \E i \in later : \A j \in later : i <= j
      BY <1>2, <2>2, FirstExists
    <3>2. place \in later /\ \A j \in later : place <= j
      BY <2>2, <3>1
    <3> HIDE DEF place
    <3>3. place \in 1 .. n /\ ts[place].left > t.left
      BY <1>2, <3>2
    <3>4. \A i \in 1 .. n : i < place => ~(ts[i].left > t.left)
      BY <1>2, <3>2, <3>3
    <3>5. \A i \in 1 .. n : i >= place => ts[i].left >= ts[place].left
      BY <1>2, <1>3, <3>3
    <3> HIDE DEF later
    <3> QED
      BY <1>2, <1>3, <3>3, <3>4, <3>5
  <2> QED
    BY <2>1, <2>2
<1> HIDE DEF place
<1>5. /\ new \in Seq(RcTimer)
      /\ Len(new) = n + 1
      /\ \A i \in 1 .. n + 1 :
            new[i] = IF i < place THEN ts[i] ELSE IF i = place THEN t ELSE ts[i - 1]
  <2> DEFINE u == SubSeq(ts, 1, place - 1)
             v == SubSeq(ts, place, n)
  <2>1. /\ u \in Seq(RcTimer) /\ Len(u) = place - 1
        /\ \A i \in 1 .. place - 1 : u[i] = ts[i]
    BY <1>2, <1>4
  <2>2. /\ v \in Seq(RcTimer) /\ Len(v) = n - place + 1
        /\ \A i \in 1 .. n - place + 1 : v[i] = ts[place + i - 1]
    BY <1>2, <1>4
  <2> HIDE DEF u, v
  <2> DEFINE w == u \o <<t>>
  <2>3. /\ w \in Seq(RcTimer) /\ Len(w) = place
        /\ \A i \in 1 .. place - 1 : w[i] = ts[i]
        /\ w[place] = t
    <3>1. <<t>> \in Seq(RcTimer) /\ Len(<<t>>) = 1 /\ <<t>>[1] = t
      OBVIOUS
    <3>2. /\ w \in Seq(RcTimer) /\ Len(w) = Len(u) + 1
          /\ \A i \in 1 .. Len(u) + 1 : w[i] = IF i <= Len(u) THEN u[i] ELSE <<t>>[i - Len(u)]
      BY <2>1, <3>1, ConcatProperties
    <3> HIDE DEF w
    <3>3. place - 1 + 1 = place /\ place - (place - 1) = 1 /\ place - 1 \in Nat
      BY <1>4
    <3> QED
      BY <1>4, <2>1, <3>1, <3>2, <3>3
  <2>4. new = w \o v
    BY DEF u, v
  <2> HIDE DEF w, new, n
  <2>5. /\ new \in Seq(RcTimer) /\ Len(new) = n + 1
        /\ \A i \in 1 .. place : new[i] = w[i]
        /\ \A i \in place + 1 .. n + 1 : new[i] = v[i - place]
    <3>1. /\ new \in Seq(RcTimer) /\ Len(new) = Len(w) + Len(v)
          /\ \A i \in 1 .. Len(w) + Len(v) : new[i] = IF i <= Len(w) THEN w[i] ELSE v[i - Len(w)]
      <4>1. w \in Seq(RcTimer) /\ v \in Seq(RcTimer)
        BY <2>2, <2>3
      <4>2. /\ w \o v \in Seq(RcTimer) /\ Len(w \o v) = Len(w) + Len(v)
            /\ \A i \in 1 .. Len(w) + Len(v) :
                  (w \o v)[i] = IF i <= Len(w) THEN w[i] ELSE v[i - Len(w)]
        BY ONLY <4>1, ConcatProperties
      <4> QED
        BY ONLY <2>4, <4>2
    <3>2. place + (n - place + 1) = n + 1
      BY <1>2, <1>4
    <3> HIDE DEF v
    <3> QED
      BY <1>2, <1>4, <2>2, <2>3, <3>1, <3>2
  <2>6. \A i \in place + 1 .. n + 1 : i - place \in 1 .. n - place + 1 /\ place + (i - place) - 1 = i - 1
    BY <1>2, <1>4
  <2> QED
    BY <1>2, <1>4, <2>2, <2>3, <2>5, <2>6
<1> HIDE DEF new, n
<1>6. \A i, j \in 1 .. n + 1 : i < j => new[i].left <= new[j].left
  <2> SUFFICES ASSUME NEW i \in 1 .. n + 1, NEW j \in 1 .. n + 1, i < j
               PROVE  new[i].left <= new[j].left
    OBVIOUS
  <2>1. i < place => i \in 1 .. n /\ new[i] = ts[i]
    BY <1>2, <1>4, <1>5
  <2>2. j > place => j - 1 \in 1 .. n /\ new[j] = ts[j - 1] /\ ts[j - 1].left > t.left
    BY <1>2, <1>4, <1>5
  <2>3. CASE j < place
    <3>1. j \in 1 .. n /\ new[j] = ts[j] /\ i < place
      BY <1>2, <1>4, <1>5, <2>3
    <3> QED
      BY <1>2, <2>1, <3>1
  <2>4. CASE j = place
    BY <1>2, <1>4, <1>5, <2>1, <2>4
  <2>5. CASE j > place /\ i <= place
    <3>1. ts[j - 1].left > t.left /\ ts[j - 1].left \in Int /\ new[j] = ts[j - 1]
      BY <1>3, <2>2, <2>5
    <3>2. CASE i < place
      <4>1. ts[i].left <= t.left /\ ts[i].left \in Int /\ new[i] = ts[i]
        BY <1>3, <1>4, <2>1, <3>2
      <4> QED
        BY <1>3, <3>1, <4>1
    <3>3. CASE i = place
      BY <1>3, <1>4, <1>5, <3>1, <3>3
    <3> QED
      BY <1>4, <2>5, <3>2, <3>3
  <2>6. CASE i > place
    <3>1. i - 1 \in 1 .. n /\ new[i] = ts[i - 1] /\ j > place /\ i - 1 < j - 1
      BY <1>2, <1>4, <1>5, <2>6
    <3> QED
      BY <1>2, <2>2, <3>1
  <2> QED
    BY <1>4, <2>3, <2>4, <2>5, <2>6
<1>7. \E i \in 1 .. n + 1 : new[i].id = "lcd"
  <2>1. CASE t.id = "lcd"
    BY <1>4, <1>5, <2>1
  <2>2. ASSUME NEW i \in 1 .. n, ts[i].id = "lcd" PROVE \E j \in 1 .. n + 1 : new[j].id = "lcd"
    <3>1. CASE i < place
      BY <1>2, <1>5, <2>2, <3>1
    <3>2. CASE i >= place
      <4>1. i + 1 \in 1 .. n + 1 /\ i + 1 > place /\ new[i + 1] = ts[i]
        BY <1>2, <1>4, <1>5, <3>2
      <4> QED
        BY <2>2, <4>1
    <3> QED
      BY <1>4, <3>1, <3>2
  <2> QED
    BY <1>2, <2>1, <2>2
<1>8. DOMAIN new = 1 .. n + 1
  BY <1>5
<1>9. \A i \in 1 .. n + 1 : new[i].left >= 0 /\ new[i].interval >= 1
  <2> SUFFICES ASSUME NEW i \in 1 .. n + 1
               PROVE  new[i].left >= 0 /\ new[i].interval >= 1
    OBVIOUS
  <2>1. new[i] = t \/ \E j \in 1 .. n : new[i] = ts[j]
    BY <1>2, <1>4, <1>5
  <2> QED
    BY <1>2, <2>1
<1> QED
  BY <1>1, <1>5, <1>6, <1>7, <1>8, <1>9 DEF Timely

\* What is left of a sequence when one position is removed.
LEMMA Removal ==
    ASSUME NEW S, NEW q \in Seq(S), NEW k \in 1 .. Len(q)
    PROVE  /\ RemoveAt(q, k) \in Seq(S) /\ Len(RemoveAt(q, k)) = Len(q) - 1
           /\ \A i \in 1 .. Len(q) - 1 : RemoveAt(q, k)[i] = IF i < k THEN q[i] ELSE q[i + 1]
<1> DEFINE n == Len(q)
           u == SubSeq(q, 1, k - 1)
           v == SubSeq(q, k + 1, n)
           new == u \o v
<1>1. n \in Nat /\ RemoveAt(q, k) = new
  BY DEF RemoveAt
<1>2. /\ u \in Seq(S) /\ Len(u) = k - 1
      /\ \A i \in 1 .. k - 1 : u[i] = q[i]
  BY <1>1
<1>3. /\ v \in Seq(S) /\ Len(v) = n - k
      /\ \A i \in 1 .. n - k : v[i] = q[k + i]
  BY <1>1
<1>4. /\ new \in Seq(S) /\ Len(new) = Len(u) + Len(v)
      /\ \A i \in 1 .. Len(u) + Len(v) : new[i] = IF i <= Len(u) THEN u[i] ELSE v[i - Len(u)]
  BY <1>2, <1>3, ConcatProperties
<1> HIDE DEF u, v, new, n
<1>5. (k - 1) + (n - k) = n - 1
  BY <1>1
<1>6. ASSUME NEW i \in 1 .. n - 1 PROVE new[i] = IF i < k THEN q[i] ELSE q[i + 1]
  <2>1. CASE i < k
    <3>1. i \in 1 .. k - 1 /\ i \in 1 .. (k - 1) + (n - k) /\ i <= k - 1
      BY <1>1, <2>1
    <3> QED
      BY <1>2, <1>3, <1>4, <2>1, <3>1
  <2>2. CASE i >= k
    <3>1. i - (k - 1) \in 1 .. n - k /\ k + (i - (k - 1)) = i + 1
      BY <1>1, <2>2
    <3> QED
      BY <1>1, <1>2, <1>3, <1>4, <1>5, <2>2, <3>1
  <2> QED
    BY <2>1, <2>2
<1> QED
  BY <1>1, <1>2, <1>3, <1>4, <1>5, <1>6 DEF n

LEMMA TimerKilled ==
    ASSUME NEW ts, Timely(ts)
    PROVE  Timely(killTimer(ts, "infobar"))
<1> DEFINE mine == {i \in DOMAIN ts : ts[i].id = "infobar"}
           k == CHOOSE i \in mine : \A j \in mine : i <= j
           n == Len(ts)
           new == RemoveAt(ts, k)
<1>1. n \in Nat /\ DOMAIN ts = 1 .. n /\ ts \in Seq(RcTimer) /\ \A i \in 1 .. n : ts[i] \in RcTimer
  BY DEF Timely
<1>2. CASE mine = {}
  BY <1>2 DEF killTimer
<1>3. CASE mine # {}
  <2>1. killTimer(ts, "infobar") = new
    BY <1>3 DEF killTimer
  <2>2. k \in mine
    BY <1>1, <1>3, FirstExists
  <2> HIDE DEF k, n
  <2>3. k \in 1 .. n /\ ts[k].id = "infobar"
    BY <1>1, <2>2
  <2>4. /\ new \in Seq(RcTimer) /\ Len(new) = n - 1
        /\ \A i \in 1 .. n - 1 : new[i] = IF i < k THEN ts[i] ELSE ts[i + 1]
    BY <1>1, <2>3, Removal DEF n
  <2> HIDE DEF new
  <2>5. DOMAIN new = 1 .. n - 1
    BY <2>4
  <2>6. ASSUME NEW i \in 1 .. n - 1
        PROVE  \E p \in 1 .. n : new[i] = ts[p] /\ p = IF i < k THEN i ELSE i + 1
    BY <1>1, <2>3, <2>4
  <2>7. \A i \in 1 .. n - 1 : new[i].left >= 0 /\ new[i].interval >= 1
    BY <1>1, <2>6 DEF Timely
  <2>8. \A i, j \in 1 .. n - 1 : i < j => new[i].left <= new[j].left
    <3> SUFFICES ASSUME NEW i \in 1 .. n - 1, NEW j \in 1 .. n - 1, i < j
                 PROVE  new[i].left <= new[j].left
      OBVIOUS
    <3>1. PICK p \in 1 .. n : new[i] = ts[p] /\ p = IF i < k THEN i ELSE i + 1
      BY <2>6
    <3>2. PICK q \in 1 .. n : new[j] = ts[q] /\ q = IF j < k THEN j ELSE j + 1
      BY <2>6
    <3>3. p < q
      BY <1>1, <2>3, <3>1, <3>2
    <3> QED
      BY <1>1, <3>1, <3>2, <3>3 DEF Timely
  <2>9. \E i \in 1 .. n - 1 : new[i].id = "lcd"
    <3>1. PICK p \in 1 .. n : ts[p].id = "lcd"
      BY <1>1 DEF Timely
    <3>2. p # k
      BY <2>3, <3>1
    <3>3. CASE p < k
      BY <1>1, <2>3, <2>4, <3>1, <3>3
    <3>4. CASE p > k
      <4>1. p - 1 \in 1 .. n - 1 /\ ~(p - 1 < k) /\ (p - 1) + 1 = p
        BY <1>1, <2>3, <3>4
      <4>2. new[p - 1] = ts[p]
        BY <2>4, <4>1
      <4> QED
        BY <3>1, <4>1, <4>2
    <3> QED
      BY <2>3, <3>2, <3>3, <3>4
  <2>10. Timely(new)
    BY <2>4, <2>5, <2>7, <2>8, <2>9 DEF Timely
  <2> QED
    BY <2>1, <2>10
<1> QED
  BY <1>2, <1>3

\* The first timer is set anew.
LEMMA TimerRenewed ==
    ASSUME NEW ts, Timely(ts)
    PROVE  Timely(checkTimers(ts))
<1> DEFINE n == Len(ts)
           first == [Head(ts) EXCEPT !.left = Head(ts).interval]
           rest == Tail(ts)
<1>1. n \in Nat /\ n >= 1 /\ DOMAIN ts = 1 .. n /\ \A i \in 1 .. n : ts[i] \in RcTimer
  BY DEF Timely
<1>2. /\ rest \in Seq(RcTimer) /\ Len(rest) = n - 1 /\ DOMAIN rest = 1 .. n - 1
      /\ \A i \in 1 .. n - 1 : rest[i] = ts[i + 1]
  BY <1>1 DEF Timely
<1>3. Head(ts) = ts[1] /\ 1 \in 1 .. n
  BY <1>1 DEF Timely
<1>4. /\ first \in RcTimer /\ first.id = ts[1].id
      /\ first.left >= 0 /\ first.interval >= 1
  BY <1>1, <1>3 DEF RcTimer, Timely
<1> HIDE DEF rest, n, first
<1>5. \A i \in 1 .. n - 1 : i + 1 \in 1 .. n
  BY <1>1
<1>6. \A i \in 1 .. n - 1 : rest[i].left >= 0 /\ rest[i].interval >= 1
  BY <1>1, <1>2, <1>5 DEF Timely
<1>7. \A i, j \in 1 .. n - 1 : i < j => rest[i].left <= rest[j].left
  <2> SUFFICES ASSUME NEW i \in 1 .. n - 1, NEW j \in 1 .. n - 1, i < j
               PROVE  rest[i].left <= rest[j].left
    OBVIOUS
  <2>1. i + 1 < j + 1
    BY <1>1
  <2> QED
    BY <1>1, <1>2, <1>5, <2>1 DEF Timely
<1>8. first.id = "lcd" \/ \E i \in 1 .. n - 1 : rest[i].id = "lcd"
  <2>1. PICK p \in 1 .. n : ts[p].id = "lcd"
    BY <1>1 DEF Timely
  <2>2. CASE p > 1
    <3>1. p - 1 \in 1 .. n - 1 /\ (p - 1) + 1 = p
      BY <1>1, <2>2
    <3> QED
      BY <1>2, <2>1, <3>1
  <2> QED
    BY <1>1, <1>4, <2>1, <2>2
<1>9. Timely(addTimer(rest, first))
  BY <1>2, <1>4, <1>6, <1>7, <1>8, TimerAdded
<1> QED
  BY <1>9 DEF checkTimers, rest, first

\* A tick passes while no timer is due.
LEMMA TimersGoOn ==
    ASSUME NEW ts, Timely(ts), ~(Head(ts).left <= 0)
    PROVE  Timely([i \in DOMAIN ts |-> [ts[i] EXCEPT !.left = @ - 1]])
<1> DEFINE n == Len(ts)
           new == [i \in DOMAIN ts |-> [ts[i] EXCEPT !.left = @ - 1]]
<1>1. n \in Nat /\ n >= 1 /\ DOMAIN ts = 1 .. n /\ \A i \in 1 .. n : ts[i] \in RcTimer
  BY DEF Timely
<1>2. \A i \in 1 .. n : ts[i].left >= 1
  <2>1. Head(ts) = ts[1] /\ 1 \in 1 .. n /\ ts[1].left \in Int
    BY <1>1 DEF Timely, RcTimer
  <2>2. \A i \in 1 .. n : i > 1 => ts[1].left <= ts[i].left /\ ts[i].left \in Int
    BY <1>1, <2>1 DEF Timely, RcTimer
  <2> QED
    BY <1>1, <2>1, <2>2
<1>3. \A i \in 1 .. n : /\ new[i] \in RcTimer /\ new[i].left = ts[i].left - 1
                        /\ new[i].interval = ts[i].interval /\ new[i].id = ts[i].id
  BY <1>1 DEF RcTimer
<1>4. new \in Seq(RcTimer) /\ DOMAIN new = 1 .. n
  <2>1. new \in [1 .. n -> RcTimer]
    BY <1>1, <1>3
  <2> HIDE DEF new, n
  <2> QED
    BY <1>1, <2>1
<1> HIDE DEF new, n
<1>5. \A i \in 1 .. n : new[i].left >= 0 /\ new[i].interval >= 1
  <2> SUFFICES ASSUME NEW i \in 1 .. n PROVE new[i].left >= 0 /\ new[i].interval >= 1
    OBVIOUS
  <2>1. ts[i].interval >= 1
    BY <1>1 DEF Timely
  <2>2. ts[i].left >= 1 /\ ts[i].left \in Int
    BY <1>1, <1>2 DEF RcTimer
  <2>3. new[i].left = ts[i].left - 1 /\ new[i].interval = ts[i].interval
    BY <1>3
  <2> QED
    BY <2>1, <2>2, <2>3
<1>6. \A i, j \in 1 .. n : i < j => new[i].left <= new[j].left
  <2> SUFFICES ASSUME NEW i \in 1 .. n, NEW j \in 1 .. n, i < j
               PROVE  new[i].left <= new[j].left
    OBVIOUS
  <2>1. ts[i].left <= ts[j].left /\ ts[i].left \in Int /\ ts[j].left \in Int
    BY <1>1 DEF RcTimer, Timely
  <2> QED
    BY <1>3, <2>1
<1>7. \E i \in 1 .. n : new[i].id = "lcd"
  BY <1>1, <1>3 DEF Timely
<1> QED
  BY <1>4, <1>5, <1>6, <1>7 DEF Timely, new

-----------------------------------------------------------------------------
(* The keys.  r is CRCInput, k what became of the presses. *)

NoKey(q) == \A i \in DOMAIN q : q[i].press = 0

\* While press n may still send events it is the last key, so that it is not accepted
\* again: unless it repeats, or was cleared.
Remembered(r, k, n) ==
    \/ n \in k.cleared
    \/ k.code[n] \in Repeatable
    \/ r.last = k.code[n]
    \/ /\ k.held # n
       /\ \A i \in DOMAIN r.device : r.device[i].press = n => r.device[i].value = "up"

\* Events of earlier presses come first, and of one press its release last.
DeviceOrdered(r, k) ==
    /\ k.held \in {0, Len(k.code)} /\ Len(k.code) <= MaxPresses
    /\ \A i \in DOMAIN r.device :
          /\ r.device[i].press <= Len(k.code)
          /\ r.device[i].value = "up" => r.device[i].press # k.held
    /\ \A i, j \in DOMAIN r.device :
          i < j => /\ r.device[i].press <= r.device[j].press
                   /\ r.device[i].press = r.device[j].press => r.device[i].value # "up"

\* Press n has been taken from the device: what is left there came after it.
Passed(r, k, n) ==
    /\ n \in 1 .. Len(k.code)
    /\ \A i \in DOMAIN r.device : n <= r.device[i].press
    /\ Remembered(r, k, n)

\* It was accepted, and has not taken effect since.
Taken(r, k, n) ==
    /\ Passed(r, k, n)
    /\ \A m \in Presses : k.handled[m] > 0 => m <= n
    /\ k.handled[n] = 0 \/ k.code[n] \in Repeatable \/ n \in k.cleared

Queued(r, k) ==
    /\ r \in RcState /\ k \in KeyState
    /\ DeviceOrdered(r, k)
    /\ NoKey(r.low) /\ NoKey(r.socket)
    /\ \A i, j \in DOMAIN r.high : r.high[i].press # 0 /\ r.high[j].press # 0 => i = j
    /\ \A i \in DOMAIN r.high : r.high[i].press # 0 => Taken(r, k, r.high[i].press)
    /\ \A n \in Presses : k.handled[n] > 0 => Passed(r, k, n)
    /\ \A n \in 1 .. Len(k.code) : k.handled[n] <= 1 \/ k.code[n] \in Repeatable \/ n \in k.cleared

\* The events in the device are in the order of their presses, and a release is the last
\* of its press.
LEMMA InOrder ==
    ASSUME NEW r, NEW k, Queued(r, k), NEW i \in DOMAIN r.device, NEW j \in DOMAIN r.device,
           i < j
    PROVE  /\ r.device[i].press <= r.device[j].press
           /\ r.device[i].press = r.device[j].press => r.device[i].value # "up"
<1>1. DeviceOrdered(r, k)
  BY DEF Queued
<1> QED
  BY <1>1 DEF DeviceOrdered

LEMMA NonePressedLater ==
    ASSUME NEW r, NEW k, Queued(r, k), NEW i \in DOMAIN r.device
    PROVE  /\ r.device[i].press <= Len(k.code)
           /\ r.device[i].value = "up" => r.device[i].press # k.held
<1>1. DeviceOrdered(r, k)
  BY DEF Queued
<1> QED
  BY <1>1 DEF DeviceOrdered

\* Nothing of this depends on the timers and the pipe and socket of other messages.
LEMMA OthersChange ==
    ASSUME NEW r, NEW k, Queued(r, k), NEW t \in RcState,
           t.device = r.device, t.high = r.high, t.last = r.last, NoKey(t.low), NoKey(t.socket)
    PROVE  Queued(t, k)
<1>1. \A n : Passed(r, k, n) => Passed(t, k, n)
  BY DEF Passed, Remembered
<1>2. \A n : Taken(r, k, n) => Taken(t, k, n)
  BY <1>1 DEF Taken
<1> QED
  BY <1>1, <1>2 DEF Queued, DeviceOrdered

\* A message that is no key keeps a pipe free of keys.
LEMMA PlainWritten ==
    ASSUME NEW q \in Seq(RcMessage), NEW m \in RcMessage
    PROVE  /\ Written(q, m) \in Seq(RcMessage)
           /\ \A i \in DOMAIN Written(q, m) :
                 \/ i \in DOMAIN q /\ Written(q, m)[i] = q[i]
                 \/ i = Len(q) + 1 /\ Written(q, m)[i] = m
           /\ NoKey(q) /\ m.press = 0 => NoKey(Written(q, m))
<1>1. /\ Append(q, m) \in Seq(RcMessage) /\ Len(Append(q, m)) = Len(q) + 1
      /\ \A i \in 1 .. Len(q) : Append(q, m)[i] = q[i]
      /\ Append(q, m)[Len(q) + 1] = m
  BY AppendProperties
<1>2. /\ Written(q, m) \in Seq(RcMessage)
      /\ \A i \in DOMAIN Written(q, m) :
            \/ i \in DOMAIN q /\ Written(q, m)[i] = q[i]
            \/ i = Len(q) + 1 /\ Written(q, m)[i] = m
  <2>1. CASE Len(q) < PipeSize
    <3>1. Written(q, m) = Append(q, m)
      BY <2>1 DEF Written
    <3>2. DOMAIN q = 1 .. Len(q) /\ DOMAIN Append(q, m) = 1 .. Len(q) + 1 /\ Len(q) \in Nat
      BY <1>1
    <3> QED
      BY <1>1, <3>1, <3>2
  <2>2. CASE ~(Len(q) < PipeSize)
    BY <2>2 DEF Written
  <2> QED
    BY <2>1, <2>2
<1> QED
  BY <1>2 DEF NoKey

\* A message in the pipe of high priority.
LEMMA HighWritten ==
    ASSUME NEW r, NEW k, Queued(r, k), NEW m \in RcMessage,
           m.press # 0 => Taken(r, k, m.press) /\ NoKey(r.high)
    PROVE  Queued([r EXCEPT !.high = Written(@, m)], k)
<1> DEFINE t == [r EXCEPT !.high = Written(@, m)]
<1>1. r \in RcState /\ r.high \in Seq(RcMessage)
  BY DEF Queued, RcState
<1>2. /\ t \in RcState /\ t.high = Written(r.high, m)
      /\ t.device = r.device /\ t.last = r.last /\ t.low = r.low /\ t.socket = r.socket
  BY <1>1, PlainWritten DEF RcState
<1> HIDE DEF t
<1>3. \A n : Passed(r, k, n) => Passed(t, k, n)
  BY <1>2 DEF Passed, Remembered
<1>4. \A n : Taken(r, k, n) => Taken(t, k, n)
  BY <1>3 DEF Taken
<1>5. \A i \in DOMAIN t.high :
         \/ i \in DOMAIN r.high /\ t.high[i] = r.high[i]
         \/ i = Len(r.high) + 1 /\ t.high[i] = m
  <2>1. \A i \in DOMAIN Written(r.high, m) :
            \/ i \in DOMAIN r.high /\ Written(r.high, m)[i] = r.high[i]
            \/ i = Len(r.high) + 1 /\ Written(r.high, m)[i] = m
    BY <1>1, PlainWritten
  <2> QED
    BY <1>2, <2>1
<1>6. /\ \A i, j \in DOMAIN t.high : t.high[i].press # 0 /\ t.high[j].press # 0 => i = j
      /\ \A i \in DOMAIN t.high : t.high[i].press # 0 => Taken(t, k, t.high[i].press)
  BY <1>4, <1>5 DEF Queued, NoKey
<1>7. Queued(t, k)
  BY <1>2, <1>3, <1>6 DEF Queued, DeviceOrdered
<1> QED
  BY <1>7 DEF t

\* The device is cleared, and the last key forgotten.
LEMMA DeviceCleared ==
    ASSUME NEW r, NEW k, Queued(r, k), NEW cleared \in SUBSET Presses, k.cleared \subseteq cleared,
           k.held # 0 => k.held \in cleared
    PROVE  Queued([r EXCEPT !.device = <<>>, !.last = "none"], [k EXCEPT !.cleared = cleared])
<1> DEFINE t == [r EXCEPT !.device = <<>>, !.last = "none"]
           l == [k EXCEPT !.cleared = cleared]
<1>1. r \in RcState /\ k \in KeyState
  BY DEF Queued
<1>2. /\ t \in RcState /\ t.device = <<>> /\ DOMAIN t.device = {}
      /\ t.high = r.high /\ t.low = r.low /\ t.socket = r.socket
  <2>1. /\ t.device = <<>> /\ t.high = r.high /\ t.low = r.low /\ t.socket = r.socket
        /\ t \in RcState
    <3>1. <<>> \in Seq(RcEvent) /\ "none" \in Codes \cup {"none"}
      OBVIOUS
    <3> QED
      BY <1>1, <3>1 DEF RcState
  <2>2. DOMAIN <<>> = {}
    OBVIOUS
  <2> QED
    BY <2>1, <2>2
<1>3. /\ l \in KeyState /\ l.cleared = cleared
      /\ l.code = k.code /\ l.held = k.held /\ l.handled = k.handled
  BY <1>1 DEF KeyState
<1> HIDE DEF t, l
<1>4. \A n : Passed(r, k, n) => Passed(t, l, n)
  <2> SUFFICES ASSUME NEW n, Passed(r, k, n) PROVE Remembered(t, l, n)
    BY <1>2, <1>3 DEF Passed
  <2>1. n # 0
    BY DEF Passed
  <2> QED
    BY <1>2, <1>3, <2>1 DEF Remembered
<1>5. \A n : Taken(r, k, n) => Taken(t, l, n)
  BY <1>3, <1>4 DEF Taken
<1>6. DeviceOrdered(t, l)
  BY <1>2, <1>3 DEF Queued, DeviceOrdered
<1>7. Queued(t, l)
  BY <1>2, <1>3, <1>4, <1>5, <1>6 DEF Queued
<1> QED
  BY <1>7 DEF t, l

\* A press that was taken takes effect.
LEMMA PressHandled ==
    ASSUME NEW r, NEW k, Queued(r, k), NEW n, Taken(r, k, n), NoKey(r.high)
    PROVE  Queued(r, [k EXCEPT !.handled[n] = IF @ < 2 THEN @ + 1 ELSE @])
<1> DEFINE l == [k EXCEPT !.handled[n] = IF @ < 2 THEN @ + 1 ELSE @]
<1>1. k \in KeyState /\ n \in Presses
  <2>1. k \in KeyState /\ Len(k.code) <= MaxPresses
    BY DEF Queued, DeviceOrdered
  <2>2. n \in 1 .. Len(k.code)
    BY DEF Taken, Passed
  <2>3. Len(k.code) \in Nat
    BY <2>1 DEF KeyState
  <2> QED
    BY <2>1, <2>2, <2>3, PressesCount DEF Presses
<1>2. /\ l \in KeyState /\ l.cleared = k.cleared /\ l.code = k.code /\ l.held = k.held
      /\ \A m \in Presses : m # n => l.handled[m] = k.handled[m]
      /\ k.handled[n] = 0 => l.handled[n] = 1
  BY <1>1 DEF KeyState
<1> HIDE DEF l
<1>3. \A m : Passed(r, k, m) => Passed(r, l, m)
  BY <1>2 DEF Passed, Remembered
<1>4. Passed(r, l, n)
  BY <1>3 DEF Taken
<1>5. \A m \in Presses : l.handled[m] > 0 => Passed(r, l, m)
  BY <1>2, <1>3, <1>4 DEF Queued
<1>6. \A m \in 1 .. Len(l.code) :
         l.handled[m] <= 1 \/ l.code[m] \in Repeatable \/ m \in l.cleared
  <2> SUFFICES ASSUME NEW m \in 1 .. Len(k.code)
               PROVE  l.handled[m] <= 1 \/ k.code[m] \in Repeatable \/ m \in k.cleared
    BY <1>2
  <2>1. m \in Presses
    BY <1>1, InputAssumption DEF Queued, DeviceOrdered, Presses, KeyState
  <2> QED
    BY <1>2, <2>1 DEF Queued, Taken
<1>7. Queued(r, l)
  BY <1>2, <1>5, <1>6 DEF Queued, DeviceOrdered, NoKey
<1> QED
  BY <1>7 DEF l

\* A message is taken from the pipe of high priority.
LEMMA HighRead ==
    ASSUME NEW r, NEW k, Queued(r, k), r.high # <<>>
    PROVE  LET m == Head(r.high)
               t == [r EXCEPT !.high = Tail(@)]
           IN  /\ m \in RcMessage /\ Queued(t, k) /\ t.timers = r.timers
               /\ m.press # 0 => Taken(t, k, m.press) /\ NoKey(t.high)
<1> DEFINE m == Head(r.high)
           t == [r EXCEPT !.high = Tail(@)]
           n == Len(r.high)
<1>1. r \in RcState /\ r.high \in Seq(RcMessage)
  BY DEF Queued, RcState
<1>2. /\ n \in Nat /\ n >= 1 /\ DOMAIN r.high = 1 .. n /\ 1 \in 1 .. n
      /\ m \in RcMessage /\ m = r.high[1]
      /\ Tail(r.high) \in Seq(RcMessage) /\ DOMAIN Tail(r.high) = 1 .. n - 1
      /\ \A i \in 1 .. n - 1 : Tail(r.high)[i] = r.high[i + 1]
  BY <1>1
<1>3. /\ t \in RcState /\ t.high = Tail(r.high) /\ t.timers = r.timers
      /\ t.device = r.device /\ t.last = r.last /\ t.low = r.low /\ t.socket = r.socket
  BY <1>1, <1>2 DEF RcState
<1> HIDE DEF m, t, n
<1>4. \A j : Passed(r, k, j) => Passed(t, k, j)
  BY <1>3 DEF Passed, Remembered
<1>5. \A j : Taken(r, k, j) => Taken(t, k, j)
  BY <1>4 DEF Taken
<1>6. \A i \in 1 .. n - 1 : i + 1 \in 1 .. n /\ i + 1 # 1 /\ t.high[i] = r.high[i + 1]
  BY <1>2, <1>3
<1>7. /\ \A i, j \in DOMAIN t.high : t.high[i].press # 0 /\ t.high[j].press # 0 => i = j
      /\ \A i \in DOMAIN t.high : t.high[i].press # 0 => Taken(t, k, t.high[i].press)
  <2>1. /\ \A i, j \in 1 .. n : r.high[i].press # 0 /\ r.high[j].press # 0 => i = j
        /\ \A i \in 1 .. n : r.high[i].press # 0 => Taken(r, k, r.high[i].press)
    BY <1>2 DEF Queued
  <2>2. ASSUME NEW i \in 1 .. n - 1, NEW j \in 1 .. n - 1,
               t.high[i].press # 0, t.high[j].press # 0
        PROVE  i = j
    <3>1. i + 1 = j + 1
      BY <1>6, <2>1, <2>2
    <3> QED
      BY <1>2, <3>1
  <2>3. DOMAIN t.high = 1 .. n - 1
    BY <1>2, <1>3
  <2>4. \A i \in 1 .. n - 1 : t.high[i].press # 0 => Taken(t, k, t.high[i].press)
    BY <1>5, <1>6, <2>1
  <2> QED
    BY <2>2, <2>3, <2>4
<1>8. m.press # 0 => Taken(t, k, m.press) /\ NoKey(t.high)
  BY <1>2, <1>3, <1>5, <1>6 DEF Queued, NoKey
<1>9. Queued(t, k)
  BY <1>3, <1>4, <1>7 DEF Queued, DeviceOrdered
<1> QED
  BY <1>2, <1>3, <1>8, <1>9 DEF m, t

\* An event is taken from the device while no message waits in the pipe: it is a new press,
\* or a repeated one, or not accepted.
LEMMA DeviceRead ==
    ASSUME NEW r, NEW k, Queued(r, k), r.device # <<>>, r.high = <<>>
    PROVE  LET ev   == Head(r.device)
               code == k.code[ev.press]
               t    == [r EXCEPT !.device = Tail(@), !.last = LastKey(ev, code)]
           IN  /\ Queued(t, k) /\ t.timers = r.timers /\ t.high = <<>>
               /\ ev.press \in Presses
               /\ ev.value # "up" /\ (code # r.last \/ code \in Repeatable)
                     => Taken(t, k, ev.press)
<1> DEFINE ev   == Head(r.device)
           code == k.code[ev.press]
           t    == [r EXCEPT !.device = Tail(@), !.last = LastKey(ev, code)]
           n    == Len(r.device)
<1>1. r \in RcState /\ r.device \in Seq(RcEvent) /\ k \in KeyState
  BY DEF Queued, RcState
<1>2. /\ n \in Nat /\ n >= 1 /\ DOMAIN r.device = 1 .. n /\ 1 \in 1 .. n
      /\ ev \in RcEvent /\ ev = r.device[1]
      /\ Tail(r.device) \in Seq(RcEvent) /\ DOMAIN Tail(r.device) = 1 .. n - 1
      /\ \A i \in 1 .. n - 1 : Tail(r.device)[i] = r.device[i + 1]
      /\ \A i \in 1 .. n : r.device[i] \in RcEvent
  BY <1>1
<1>3. ev.press \in Presses /\ ev.press \in 1 .. Len(k.code) /\ code \in Codes
  <2> DEFINE p == ev.press
  <2> HIDE DEF t
  <2>1. p \in Presses /\ k.code \in Seq(Codes)
    BY <1>1, <1>2 DEF RcEvent, KeyState
  <2>2. 1 \in DOMAIN r.device /\ ev = r.device[1]
    BY <1>2
  <2> HIDE DEF ev
  <2>3. p <= Len(k.code)
    BY <2>2, NonePressedLater
  <2> HIDE DEF p
  <2>4. p \in 1 .. Len(k.code)
    BY <2>1, <2>3, PressesCount
  <2> QED
    BY <2>1, <2>4 DEF p
<1>4. /\ t \in RcState /\ t.device = Tail(r.device) /\ t.timers = r.timers
      /\ t.last = IF ev.value = "up" THEN "none" ELSE code
      /\ t.high = <<>> /\ t.low = r.low /\ t.socket = r.socket
  BY <1>1, <1>2, <1>3 DEF RcState, LastKey
<1> HIDE DEF ev, t, n
<1>5. \A i \in 1 .. n - 1 : i + 1 \in 1 .. n /\ 1 < i + 1 /\ t.device[i] = r.device[i + 1]
  BY <1>2, <1>4
<1>6. \A i \in 1 .. n - 1 : ev.press <= t.device[i].press
  <2> SUFFICES ASSUME NEW i \in 1 .. n - 1 PROVE ev.press <= t.device[i].press
    OBVIOUS
  <2>1. 1 \in DOMAIN r.device /\ i + 1 \in DOMAIN r.device /\ 1 < i + 1
    BY <1>2, <1>5
  <2>2. r.device[1].press <= r.device[i + 1].press
    BY <2>1, InOrder
  <2> QED
    BY <1>2, <1>5, <2>2
<1>7. ev.value = "up" => k.held # ev.press /\ \A i \in 1 .. n - 1 : t.device[i].press # ev.press
  <2>1. ev.value = "up" => k.held # ev.press
    BY <1>2 DEF Queued, DeviceOrdered
  <2>2. ASSUME NEW i \in 1 .. n - 1, ev.value = "up" PROVE t.device[i].press # ev.press
    <3>1. 1 \in DOMAIN r.device /\ i + 1 \in DOMAIN r.device /\ 1 < i + 1
      BY <1>2, <1>5
    <3>2. r.device[1].press = r.device[i + 1].press => r.device[1].value # "up"
      BY <3>1, InOrder
    <3> QED
      BY <1>2, <1>5, <2>2, <3>2
  <2> QED
    BY <2>1, <2>2
<1>8. \A j \in Presses : Passed(r, k, j) => Passed(t, k, j)
  <2> SUFFICES ASSUME NEW j \in Presses, Passed(r, k, j) PROVE Passed(t, k, j)
    OBVIOUS
  <2>1. j \in 1 .. Len(k.code) /\ j <= ev.press /\ j \in Int /\ ev.press \in Int
    <3>1. j \in 1 .. Len(k.code) /\ j <= ev.press
      BY <1>2 DEF Passed
    <3> QED
      BY <1>3, <3>1
  <2>2. \A i \in 1 .. n - 1 : t.device[i].press \in Int
    <3> SUFFICES ASSUME NEW i \in 1 .. n - 1 PROVE t.device[i].press \in Presses
      BY InputAssumption DEF Presses
    <3>1. t.device[i] \in RcEvent
      BY <1>2, <1>5
    <3> QED
      BY <3>1 DEF RcEvent
  <2>3. \A i \in DOMAIN t.device : j <= t.device[i].press
    BY <1>2, <1>4, <1>6, <2>1, <2>2
  <2>4. CASE j = ev.press
    BY <1>2, <1>4, <1>7, <2>1, <2>3, <2>4 DEF Passed, Remembered
  <2>5. CASE j # ev.press
    <3>1. \A i \in 1 .. n - 1 : t.device[i].press # j
      BY <1>6, <2>1, <2>2, <2>5
    <3>2. k.held # j
      BY <1>3, <2>1, <2>5 DEF Queued, DeviceOrdered
    <3> QED
      BY <1>2, <1>4, <2>1, <2>3, <3>1, <3>2 DEF Passed, Remembered
  <2> QED
    BY <2>4, <2>5
<1>9. DeviceOrdered(t, k)
  <2>1. \A i \in 1 .. n - 1 :
           /\ t.device[i].press <= Len(k.code)
           /\ t.device[i].value = "up" => t.device[i].press # k.held
    BY <1>2, <1>5 DEF Queued, DeviceOrdered
  <2>2. ASSUME NEW i \in 1 .. n - 1, NEW j \in 1 .. n - 1, i < j
        PROVE  /\ t.device[i].press <= t.device[j].press
               /\ t.device[i].press = t.device[j].press => t.device[i].value # "up"
    <3>1. i + 1 < j + 1 /\ i + 1 \in DOMAIN r.device /\ j + 1 \in DOMAIN r.device
      <4>1. i + 1 \in 1 .. n /\ j + 1 \in 1 .. n
        BY <1>5
      <4>2. i + 1 < j + 1
        BY <1>2, <2>2
      <4> QED
        BY <1>2, <4>1, <4>2
    <3>2. t.device[i] = r.device[i + 1] /\ t.device[j] = r.device[j + 1]
      BY <1>5
    <3> QED
      BY <3>1, <3>2, InOrder
  <2>3. k.held \in {0, Len(k.code)} /\ Len(k.code) <= MaxPresses
    BY DEF Queued, DeviceOrdered
  <2>4. DOMAIN t.device = 1 .. n - 1
    BY <1>2, <1>4
  <2> QED
    BY <2>1, <2>2, <2>3, <2>4 DEF DeviceOrdered
<1>10. Queued(t, k)
  BY <1>4, <1>8, <1>9 DEF Queued
<1>11. ASSUME ev.value # "up", code # r.last \/ code \in Repeatable PROVE Taken(t, k, ev.press)
  <2>1. Passed(t, k, ev.press)
    BY <1>2, <1>3, <1>4, <1>6, <1>11 DEF Passed, Remembered
  <2>2. \A m \in Presses : k.handled[m] > 0 => m <= ev.press
    BY <1>2 DEF Queued, Passed
  <2>3. k.handled[ev.press] = 0 \/ code \in Repeatable \/ ev.press \in k.cleared
    <3>1. k.handled[ev.press] \in 0 .. 2
      BY <1>1, <1>3 DEF KeyState
    <3>2. CASE k.handled[ev.press] > 0
      BY <1>2, <1>3, <1>11, <3>2 DEF Queued, Passed, Remembered
    <3> QED
      BY <3>1, <3>2
  <2> QED
    BY <2>1, <2>2, <2>3 DEF Taken
<1> QED
  BY <1>3, <1>4, <1>10, <1>11 DEF ev, t

\* An event of the press that is held, or of a new one, is appended.
LEMMA DeviceFilled ==
    ASSUME NEW r, NEW k, Queued(r, k), NEW e \in RcEvent, NEW l \in KeyState,
           l.handled = k.handled, l.cleared = k.cleared,
           \A n \in 1 .. Len(k.code) : n <= Len(l.code) /\ l.code[n] = k.code[n],
           Len(l.code) <= MaxPresses, e.press = Len(l.code),
           l.held = IF e.value = "up" THEN 0 ELSE e.press,
           k.held = e.press \/ Len(k.code) < e.press
    PROVE  Queued([r EXCEPT !.device = Append(@, e)], l)
<1> DEFINE t == [r EXCEPT !.device = Append(@, e)]
           n == Len(r.device)
<1>1. r \in RcState /\ r.device \in Seq(RcEvent) /\ k \in KeyState
  BY DEF Queued, RcState
<1>2. /\ n \in Nat /\ DOMAIN r.device = 1 .. n /\ \A i \in 1 .. n : r.device[i] \in RcEvent
      /\ Append(r.device, e) \in Seq(RcEvent) /\ DOMAIN Append(r.device, e) = 1 .. n + 1
      /\ \A i \in 1 .. n : Append(r.device, e)[i] = r.device[i]
      /\ Append(r.device, e)[n + 1] = e
  BY <1>1, AppendProperties
<1>3. /\ t \in RcState /\ t.device = Append(r.device, e) /\ t.last = r.last
      /\ t.high = r.high /\ t.low = r.low /\ t.socket = r.socket
  BY <1>1, <1>2 DEF RcState
<1> HIDE DEF t, n
<1>4. /\ Len(k.code) \in Nat /\ Len(l.code) \in Nat /\ Len(k.code) <= e.press
      /\ e.press \in Nat /\ e.press >= 1
  <2>1. Len(k.code) \in Nat /\ Len(l.code) \in Nat /\ e.press \in Presses
    BY <1>1 DEF KeyState, RcEvent
  <2>2. e.press \in Nat /\ e.press >= 1
    BY <2>1, InputAssumption DEF Presses
  <2> QED
    BY <2>1, <2>2 DEF Queued, DeviceOrdered
<1>5. /\ \A i \in 1 .. n + 1 : t.device[i].press <= e.press
      /\ \A i \in 1 .. n : t.device[i] = r.device[i]
      /\ \A i \in 1 .. n : t.device[i].value = "up" => t.device[i].press # e.press
  <2>1. ASSUME NEW i \in 1 .. n
        PROVE  /\ t.device[i] = r.device[i]
               /\ t.device[i].press <= e.press
               /\ t.device[i].value = "up" => t.device[i].press # e.press
    <3>1. t.device[i] = r.device[i] /\ r.device[i].press \in Int
      <4>1. r.device[i].press \in Presses
        BY <1>2 DEF RcEvent
      <4>2. t.device[i] = r.device[i]
        BY <1>2, <1>3
      <4> QED
        BY <4>1, <4>2, PressesCount
    <3>2. /\ r.device[i].press <= Len(k.code)
          /\ r.device[i].value = "up" => r.device[i].press # k.held
      BY <1>2 DEF Queued, DeviceOrdered
    <3> QED
      BY <1>4, <3>1, <3>2
  <2>2. t.device[n + 1].press <= e.press
    BY <1>2, <1>3, <1>4
  <2>3. \A i \in 1 .. n + 1 : i \in 1 .. n \/ i = n + 1
    BY <1>2
  <2> QED
    BY <2>1, <2>2, <2>3
<1>6. DeviceOrdered(t, l)
  <2>1. \A i \in 1 .. n + 1 : t.device[i].value = "up" => t.device[i].press # l.held
    <3> SUFFICES ASSUME NEW i \in 1 .. n + 1, t.device[i].value = "up"
                 PROVE  t.device[i].press # l.held
      OBVIOUS
    <3>1. CASE i = n + 1
      BY <1>2, <1>3, <1>4, <3>1
    <3>2. CASE i # n + 1
      <4>1. i \in 1 .. n
        BY <1>2, <3>2
      <4>2. r.device[i].press \in Presses
        BY <1>2, <4>1 DEF RcEvent
      <4>3. t.device[i].press # 0
        BY <1>5, <4>1, <4>2, PressesCount
      <4> QED
        BY <1>5, <4>1, <4>3
    <3> QED
      BY <3>1, <3>2
  <2>2. ASSUME NEW i \in 1 .. n + 1, NEW j \in 1 .. n + 1, i < j
        PROVE  /\ t.device[i].press <= t.device[j].press
               /\ t.device[i].press = t.device[j].press => t.device[i].value # "up"
    <3>1. CASE j = n + 1
      BY <1>2, <1>3, <1>5, <2>2, <3>1
    <3>2. CASE j # n + 1
      <4>1. i \in 1 .. n /\ j \in 1 .. n
        BY <1>2, <2>2, <3>2
      <4>2. i \in DOMAIN r.device /\ j \in DOMAIN r.device
        BY <1>2, <4>1
      <4>3. t.device[i] = r.device[i] /\ t.device[j] = r.device[j]
        BY <1>5, <4>1
      <4> QED
        BY <2>2, <4>2, <4>3, InOrder
    <3> QED
      BY <3>1, <3>2
  <2> QED
    BY <1>2, <1>3, <1>5, <2>1, <2>2 DEF DeviceOrdered
<1>7. ASSUME NEW m, Passed(r, k, m) PROVE Passed(t, l, m)
  <2>1. /\ m \in 1 .. Len(k.code) /\ \A i \in 1 .. n : m <= r.device[i].press
        /\ Remembered(r, k, m)
    BY <1>2, <1>7 DEF Passed
  <2>2. m \in 1 .. Len(l.code) /\ l.code[m] = k.code[m] /\ m <= e.press
    BY <1>4, <2>1
  <2>3. \A i \in 1 .. n + 1 : m <= t.device[i].press
    BY <1>2, <1>3, <1>5, <2>1, <2>2
  <2>4. Remembered(t, l, m)
    <3>1. CASE m = e.press
      <4>1. k.held = m
        BY <1>4, <2>1, <3>1
      <4> QED
        BY <1>3, <2>1, <2>2, <4>1 DEF Remembered
    <3>2. CASE m # e.press
      <4>1. l.held # m
        BY <2>1, <3>2
      <4>2. \A i \in 1 .. n + 1 : t.device[i].press = m => i \in 1 .. n /\ t.device[i] = r.device[i]
        BY <1>2, <1>3, <1>5, <3>2
      <4> QED
        BY <1>2, <1>3, <2>1, <2>2, <4>1, <4>2 DEF Remembered
    <3> QED
      BY <3>1, <3>2
  <2> QED
    BY <1>2, <1>3, <2>2, <2>3, <2>4 DEF Passed
<1>8. ASSUME NEW m, Taken(r, k, m) PROVE Taken(t, l, m)
  BY <1>7, <1>8 DEF Taken, Passed
<1>9. \A m \in 1 .. Len(l.code) :
         l.handled[m] <= 1 \/ l.code[m] \in Repeatable \/ m \in l.cleared
  <2> SUFFICES ASSUME NEW m \in 1 .. Len(l.code), ~(k.handled[m] <= 1)
               PROVE  l.code[m] \in Repeatable \/ m \in l.cleared
    OBVIOUS
  <2>1. m \in Presses /\ k.handled[m] \in 0 .. 2
    <3>1. l \in KeyState /\ Len(l.code) <= MaxPresses
      BY <1>1, <1>4, PressesCount DEF RcEvent
    <3>2. m \in Presses
      BY <1>4, <3>1, PressesCount DEF Presses
    <3> QED
      BY <1>1, <3>2 DEF KeyState
  <2>2. m \in 1 .. Len(k.code)
    BY <2>1 DEF Queued, Passed
  <2> QED
    BY <2>2 DEF Queued
<1>10. Queued(t, l)
  BY <1>3, <1>6, <1>7, <1>8, <1>9 DEF Queued
<1> QED
  BY <1>10 DEF t

-----------------------------------------------------------------------------
(* The windows. *)

InputStates == [rc : RcState, gui : GuiState, keys : KeyState]

\* What holds of the state while a message is handled.
Good(s) == s \in InputStates /\ Timely(s.rc.timers) /\ Queued(s.rc, s.keys)

\* What is left of the time limit is not more than what is left to the window, and the same
\* unless key events were ignored: then what was spent before is subtracted again.
Window(g) ==
    /\ g.slept <= g.spent
    /\ g.kind # "main" => g.timeout - g.slept <= g.end
    /\ g.kind # "main" /\ ~g.ignored => g.slept = g.spent /\ g.timeout - g.slept = g.end

LEMMA GoodParts ==
    ASSUME NEW s, Good(s)
    PROVE  /\ s.rc \in RcState /\ s.gui \in GuiState /\ s.keys \in KeyState
           /\ Timely(s.rc.timers) /\ Queued(s.rc, s.keys)
BY DEF Good, InputStates

\* Only the window changes.
LEMMA GuiChanges ==
    ASSUME NEW s, Good(s), NEW g \in GuiState
    PROVE  Good([s EXCEPT !.gui = g])
BY DEF Good, InputStates

\* A call sets the time limit anew.
LEMMA Called ==
    ASSUME NEW s, Good(s)
    PROVE  Good(Call(s)) /\ Window(Call(s).gui)
<1> DEFINE g == [s.gui EXCEPT !.timeout = s.gui.end, !.spent = 0, !.slept = 0, !.ignored = FALSE]
<1>1. s \in InputStates /\ s.gui \in GuiState
  BY GoodParts DEF Good
<1>2. Call(s) = [s EXCEPT !.gui = g]
  BY <1>1 DEF Call, InputStates, GuiState
<1>3. g \in GuiState /\ Window(g)
  <2>1. g \in GuiState /\ g.end \in Nat
    BY <1>1 DEF GuiState
  <2>2. g.slept = 0 /\ g.spent = 0 /\ g.timeout = g.end
    BY <1>1 DEF GuiState
  <2> HIDE DEF g
  <2> QED
    BY <2>1, <2>2 DEF Window
<1>4. Call(s).gui = g
  BY <1>1, <1>2 DEF InputStates
<1> HIDE DEF g
<1> QED
  BY <1>2, <1>3, <1>4, GuiChanges

LEMMA Closed == ASSUME NEW s, Good(s) PROVE Good(Close(s))
<1> DEFINE g == [s.gui EXCEPT !.kind = "main", !.end = 0]
           r == [s.rc EXCEPT !.timers = killTimer(@, "infobar")]
           t == Close(s)
<1>1. s \in InputStates /\ s.rc \in RcState /\ s.gui \in GuiState /\ s.keys \in KeyState
  BY GoodParts DEF Good
<1>2. t = [s EXCEPT !.gui = g, !.rc = r]
  BY <1>1 DEF Close, InputStates, GuiState, RcState
<1>3. Timely(killTimer(s.rc.timers, "infobar"))
  BY TimerKilled DEF Good
<1>4. r \in RcState /\ g \in GuiState
  BY <1>1, <1>3 DEF RcState, GuiState, Timely
<1>5. Queued(r, s.keys)
  <2>1. NoKey(s.rc.low) /\ NoKey(s.rc.socket) /\ Queued(s.rc, s.keys)
    BY DEF Good, Queued
  <2>2. /\ r.device = s.rc.device /\ r.high = s.rc.high /\ r.last = s.rc.last
        /\ r.low = s.rc.low /\ r.socket = s.rc.socket
    BY <1>1 DEF RcState
  <2> QED
    BY <1>4, <2>1, <2>2, OthersChange
<1>6. r.timers = killTimer(s.rc.timers, "infobar")
  BY <1>1 DEF RcState
<1>7. t \in InputStates /\ t.rc = r /\ t.keys = s.keys
  BY <1>1, <1>2, <1>4 DEF InputStates
<1> HIDE DEF t, g, r
<1>8. Good(t)
  BY <1>3, <1>5, <1>6, <1>7 DEF Good
<1> QED
  BY <1>8 DEF t

LEMMA TitleShown == ASSUME NEW s, Good(s) PROVE Good(ShowTitle(s))
<1> DEFINE g == [s.gui EXCEPT !.kind = "infobar", !.end = InfobarTime]
           new == [id |-> "infobar", left |-> 1, interval |-> 1]
           r == [s.rc EXCEPT !.timers = addTimer(@, new)]
           t == ShowTitle(s)
<1>1. s \in InputStates /\ s.rc \in RcState /\ s.gui \in GuiState /\ s.keys \in KeyState
  BY GoodParts DEF Good
<1>2. t = [s EXCEPT !.gui = g, !.rc = r]
  BY <1>1 DEF ShowTitle, InputStates, GuiState, RcState
<1>3. Timely(addTimer(s.rc.timers, new))
  <2>1. Timely(s.rc.timers) /\ new \in RcTimer /\ new.left >= 0 /\ new.interval >= 1
    BY DEF Good, RcTimer
  <2> HIDE DEF new
  <2> QED
    BY <2>1, TimerAdded DEF Timely
<1>4. r \in RcState /\ g \in GuiState
  BY <1>1, <1>3, InputAssumption DEF RcState, GuiState, Timely
<1>5. Queued(r, s.keys)
  <2>1. NoKey(s.rc.low) /\ NoKey(s.rc.socket) /\ Queued(s.rc, s.keys)
    BY DEF Good, Queued
  <2>2. /\ r.device = s.rc.device /\ r.high = s.rc.high /\ r.last = s.rc.last
        /\ r.low = s.rc.low /\ r.socket = s.rc.socket
    BY <1>1 DEF RcState
  <2> QED
    BY <1>4, <2>1, <2>2, OthersChange
<1>6. r.timers = addTimer(s.rc.timers, new)
  BY <1>1 DEF RcState
<1>7. t \in InputStates /\ t.rc = r /\ t.keys = s.keys
  BY <1>1, <1>2, <1>4 DEF InputStates
<1> HIDE DEF t, g, r
<1>8. Good(t)
  BY <1>3, <1>5, <1>6, <1>7 DEF Good
<1> QED
  BY <1>8 DEF t

\* A message posted to oneself.
LEMMA Posted ==
    ASSUME NEW s, Good(s), NEW m \in RcMessage
    PROVE  /\ (m.press # 0 => Taken(s.rc, s.keys, m.press) /\ NoKey(s.rc.high)) => Good(postMsg(s, m))
           /\ m.press = 0 => Good(postMsgLow(s, m))
<1> DEFINE h == [s.rc EXCEPT !.high = Written(@, m)]
           l == [s.rc EXCEPT !.low = Written(@, m)]
<1>1. s \in InputStates /\ s.rc \in RcState /\ s.gui \in GuiState /\ s.keys \in KeyState
  BY GoodParts DEF Good
<1>2. s.rc.high \in Seq(RcMessage) /\ s.rc.low \in Seq(RcMessage)
  BY <1>1 DEF RcState
<1>3. /\ h \in RcState /\ h.timers = s.rc.timers
      /\ l \in RcState /\ l.timers = s.rc.timers /\ l.low = Written(s.rc.low, m)
      /\ l.device = s.rc.device /\ l.high = s.rc.high /\ l.last = s.rc.last
      /\ l.socket = s.rc.socket
  BY <1>1, <1>2, PlainWritten DEF RcState
<1>4. /\ postMsg(s, m) = [s EXCEPT !.rc = h]
      /\ postMsgLow(s, m) = [s EXCEPT !.rc = l]
  BY <1>1 DEF postMsg, postMsgLow, InputStates, RcState
<1>5. ASSUME m.press # 0 => Taken(s.rc, s.keys, m.press) /\ NoKey(s.rc.high)
      PROVE  Queued(h, s.keys)
  BY <1>5, HighWritten DEF Good
<1>6. ASSUME m.press = 0 PROVE Queued(l, s.keys)
  <2>1. NoKey(l.low) /\ NoKey(l.socket) /\ Queued(s.rc, s.keys)
    BY <1>2, <1>3, <1>6, PlainWritten DEF Good, Queued
  <2> HIDE DEF l
  <2> QED
    BY <1>3, <2>1, OthersChange
<1> HIDE DEF h, l
<1> QED
  BY <1>1, <1>3, <1>4, <1>5, <1>6 DEF Good, InputStates

\* The keys nobody has read, and the one that is held, are cleared.
LEMMA Cleared == ASSUME NEW s, Good(s) PROVE Good(clearRCMsg(s))
<1> DEFINE cleared == s.keys.cleared \cup {s.rc.device[i].press : i \in DOMAIN s.rc.device}
                                     \cup ({s.keys.held} \ {0})
           r == [s.rc EXCEPT !.device = <<>>, !.last = "none"]
           k == [s.keys EXCEPT !.cleared = cleared]
<1>1. s \in InputStates /\ s.rc \in RcState /\ s.gui \in GuiState /\ s.keys \in KeyState
  BY GoodParts DEF Good
<1>2. cleared \in SUBSET Presses
  <2>1. \A i \in DOMAIN s.rc.device : s.rc.device[i].press \in Presses
    <3>1. s.rc.device \in Seq(RcEvent)
      BY <1>1 DEF RcState
    <3>2. \A i \in DOMAIN s.rc.device : s.rc.device[i] \in RcEvent
      BY <3>1
    <3> QED
      BY <3>2 DEF RcEvent
  <2> QED
    BY <1>1, <2>1 DEF KeyState
<1>3. Queued(r, k)
  <2>1. s.keys.cleared \subseteq cleared /\ (s.keys.held # 0 => s.keys.held \in cleared)
    OBVIOUS
  <2> HIDE DEF cleared
  <2> QED
    BY <1>2, <2>1, DeviceCleared DEF Good
<1>4. clearRCMsg(s) = [s EXCEPT !.rc = r, !.keys = k]
  BY <1>1 DEF clearRCMsg, InputStates, RcState, KeyState
<1>5. r.timers = s.rc.timers
  BY <1>1 DEF RcState
<1>6. r \in RcState /\ k \in KeyState
  BY <1>3 DEF Queued
<1> HIDE DEF r, k
<1> QED
  BY <1>1, <1>3, <1>4, <1>5, <1>6 DEF Good, InputStates

LEMMA KeyDone ==
    ASSUME NEW s, Good(s), NEW n, Taken(s.rc, s.keys, n), NoKey(s.rc.high)
    PROVE  Good(Done(s, n)) /\ Done(s, n).gui = s.gui
<1> DEFINE k == [s.keys EXCEPT !.handled[n] = IF @ < 2 THEN @ + 1 ELSE @]
<1>1. s \in InputStates /\ s.rc \in RcState /\ s.gui \in GuiState /\ s.keys \in KeyState
  BY GoodParts DEF Good
<1>2. Queued(s.rc, k)
  BY PressHandled DEF Good
<1>3. Done(s, n) = [s EXCEPT !.keys = k]
  BY <1>1 DEF Done, InputStates, KeyState
<1>4. k \in KeyState
  BY <1>2 DEF Queued
<1> HIDE DEF k
<1> QED
  BY <1>1, <1>2, <1>3, <1>4 DEF Good, InputStates

\* The messages that are no keys.
PlainTypes == {"SHOW_INFOBAR", "TIMESET", "STANDBY", "ZAP_CA_ID", "ZAP_COMPLETE", "CURRENTNEXT",
               "CURRENTEPG", "ZAP_GOTPIDS", "ZAP_GOTAPIDS", "PROGRAMLOCKSTATUS"}

LEMMA PlainPosted ==
    ASSUME NEW s, Good(s), NEW type \in PlainTypes
    PROVE  Good(postMsg(s, Plain(type))) /\ Good(postMsgLow(s, Plain(type)))
<1>1. Plain(type) \in RcMessage /\ Plain(type).press = 0
  BY DEF Plain, RcMessage, PlainTypes
<1> HIDE DEF Plain
<1> QED
  BY <1>1, Posted

LEMMA TwoPosted ==
    ASSUME NEW s, Good(s), NEW type \in PlainTypes, NEW other \in PlainTypes
    PROVE  Good(PostTwo(s, type, other))
BY PlainPosted DEF PostTwo

\* A zap answers on the socket.
LEMMA Zapped == ASSUME NEW s, Good(s) PROVE Good(QuickZap(s))
<1> DEFINE answers == <<Plain("ZAP_CA_ID"), Plain("ZAP_COMPLETE")>>
           r == [s.rc EXCEPT !.socket = @ \o answers]
           t == [s EXCEPT !.rc = r]
<1>1. s \in InputStates /\ s.rc \in RcState /\ s.gui \in GuiState /\ s.keys \in KeyState
  BY GoodParts DEF Good
<1>2. s.rc.socket \in Seq(RcMessage) /\ answers \in Seq(RcMessage) /\ NoKey(answers)
  BY <1>1 DEF RcState, RcMessage, Plain, NoKey
<1>3. s.rc.socket \o answers \in Seq(RcMessage) /\ NoKey(s.rc.socket \o answers)
  <2>1. NoKey(s.rc.socket)
    BY DEF Good, Queued
  <2> DEFINE q == s.rc.socket
             u == q \o answers
  <2>2. /\ u \in Seq(RcMessage) /\ Len(u) = Len(q) + Len(answers)
        /\ \A i \in 1 .. Len(q) + Len(answers) :
              u[i] = IF i <= Len(q) THEN q[i] ELSE answers[i - Len(q)]
    BY <1>2, ConcatProperties
  <2>3. /\ DOMAIN u = 1 .. Len(q) + Len(answers) /\ DOMAIN q = 1 .. Len(q)
        /\ DOMAIN answers = 1 .. Len(answers) /\ Len(q) \in Nat /\ Len(answers) \in Nat
    BY <1>2, <2>2
  <2> HIDE DEF answers, u
  <2>4. ASSUME NEW i \in DOMAIN u PROVE u[i].press = 0
    <3>1. CASE i <= Len(q)
      BY <2>1, <2>2, <2>3, <3>1 DEF NoKey
    <3>2. CASE ~(i <= Len(q))
      <4>1. i - Len(q) \in 1 .. Len(answers)
        BY <2>3, <3>2
      <4> QED
        BY <1>2, <2>2, <2>3, <3>2, <4>1 DEF NoKey
    <3> QED
      BY <3>1, <3>2
  <2> QED
    BY <2>2, <2>4 DEF NoKey, u
<1>4. /\ r \in RcState /\ r.socket = s.rc.socket \o answers /\ r.timers = s.rc.timers
      /\ r.device = s.rc.device /\ r.high = s.rc.high /\ r.last = s.rc.last /\ r.low = s.rc.low
  BY <1>1, <1>3 DEF RcState
<1>5. Queued(r, s.keys)
  <2>1. NoKey(r.low) /\ NoKey(r.socket) /\ Queued(s.rc, s.keys)
    BY <1>3, <1>4 DEF Good, Queued
  <2> HIDE DEF r
  <2> QED
    BY <1>4, <2>1, OthersChange
<1>6. Good(t)
  <2> HIDE DEF r
  <2> QED
    BY <1>1, <1>4, <1>5 DEF Good, InputStates
<1>7. QuickZap(s) = clearRCMsg(postMsg(t, Plain("SHOW_INFOBAR")))
  BY <1>1 DEF QuickZap, InputStates, RcState
<1> HIDE DEF t
<1>8. Good(postMsg(t, Plain("SHOW_INFOBAR")))
  BY <1>6, PlainPosted DEF PlainTypes
<1> QED
  BY <1>7, <1>8, Cleared

LEMMA MainKeyKeeps == ASSUME NEW s, Good(s), NEW code \in Codes PROVE Good(MainKey(s, code))
<1> DEFINE g == [s.gui EXCEPT !.kind = "box", !.end = BoxTime]
<1>1. s \in InputStates /\ s.gui \in GuiState
  BY GoodParts DEF Good
<1>2. g \in GuiState /\ [s EXCEPT !.gui.kind = "box", !.gui.end = BoxTime] = [s EXCEPT !.gui = g]
  BY <1>1, InputAssumption DEF GuiState, InputStates
<1>3. Good([s EXCEPT !.gui.kind = "box", !.gui.end = BoxTime])
  BY <1>2, GuiChanges
<1>4. CASE s.gui.standby \/ code = "home"
  BY <1>4 DEF MainKey
<1>5. CASE ~s.gui.standby /\ code = "page_up"
  BY <1>5, Zapped DEF MainKey
<1>6. CASE ~s.gui.standby /\ code = "record"
  BY <1>3, <1>6 DEF MainKey
<1> QED
  BY <1>4, <1>5, <1>6 DEF Codes

\* A key is handled once, or handed on by the infobar; each window in its way.
LEMMA KeyHandled ==
    ASSUME NEW s, Good(s), NEW m \in RcMessage, Taken(s.rc, s.keys, m.press), NoKey(s.rc.high)
    PROVE  Good(HandleKey(s, m))
<1> DEFINE code == s.keys.code[m.press]
<1>1. s.gui.kind \in {"main", "infobar", "box"} /\ code \in Codes
  <2>1. m.press \in 1 .. Len(s.keys.code) /\ s.keys.code \in Seq(Codes)
    BY GoodParts DEF Taken, Passed, KeyState
  <2> QED
    BY <2>1, GoodParts DEF GuiState
<1>2. Good(Done(s, m.press))
  BY KeyDone
<1>3. Good(MainKey(Done(s, m.press), code))
  BY <1>1, <1>2, MainKeyKeeps
<1>4. Good(Close(Done(s, m.press)))
  BY <1>2, Closed
<1>5. Good(Close(postMsg(s, m)))
  BY Posted, Closed
<1> QED
  BY <1>1, <1>2, <1>3, <1>4, <1>5 DEF HandleKey

LEMMA MessageHandled ==
    ASSUME NEW s, Good(s), NEW m \in RcMessage,
           m.press # 0 => Taken(s.rc, s.keys, m.press) /\ NoKey(s.rc.high)
    PROVE  Good(HandleMsg(s, m))
<1>1. s.gui.kind \in {"main", "infobar", "box"} /\ s.gui \in GuiState /\ s \in InputStates
  BY GoodParts DEF GuiState, Good
<1>2. CASE m.type = "key"
  <2>1. m.press # 0
    BY <1>2 DEF RcMessage, Presses
  <2> QED
    BY <1>2, <2>1, KeyHandled DEF HandleMsg
<1>3. CASE m.type = "SHOW_INFOBAR"
  <2>1. m.press = 0
    BY <1>3 DEF RcMessage
  <2>2. Good(ShowTitle(s)) /\ Good(Close(postMsg(s, m)))
    BY <2>1, TitleShown, Posted, Closed
  <2> QED
    BY <1>1, <1>3, <2>2 DEF HandleMsg, HandleShowInfobar
<1>4. CASE m.type = "TIMESET"
  <2> DEFINE g == [s.gui EXCEPT !.end = @ + Stretch]
  <2>1. g \in GuiState /\ [s EXCEPT !.gui.end = @ + Stretch] = [s EXCEPT !.gui = g]
    BY <1>1, InputAssumption DEF GuiState, InputStates
  <2>2. Good([s EXCEPT !.gui.end = @ + Stretch])
    BY <2>1, GuiChanges
  <2>3. Good(Close(postMsg(s, Plain("SHOW_INFOBAR"))))
    BY PlainPosted, Closed DEF PlainTypes
  <2> QED
    BY <1>1, <1>4, <2>2, <2>3 DEF HandleMsg, HandleTimeset
<1>5. CASE m.type = "STANDBY"
  <2> DEFINE g == [s.gui EXCEPT !.standby = ~@]
             changed == [s EXCEPT !.gui.standby = ~@]
  <2>1. g \in GuiState /\ changed = [s EXCEPT !.gui = g]
    BY <1>1 DEF GuiState, InputStates
  <2>2. Good(changed)
    BY <2>1, GuiChanges
  <2>3. HandleMsg(s, m) = clearRCMsg(IF s.gui.standby THEN postMsg(changed, Plain("SHOW_INFOBAR"))
                                                      ELSE changed)
    BY <1>5 DEF HandleMsg, HandleStandby
  <2> HIDE DEF changed
  <2>4. Good(postMsg(changed, Plain("SHOW_INFOBAR")))
    BY <2>2, PlainPosted DEF PlainTypes
  <2> QED
    BY <2>2, <2>3, <2>4, Cleared
<1>6. CASE m.type = "ZAP_COMPLETE"
  <2>1. HandleMsg(s, m) = PostTwo(s, "ZAP_GOTPIDS", "ZAP_GOTAPIDS")
    BY <1>6 DEF HandleMsg
  <2> QED
    BY <2>1, TwoPosted DEF PlainTypes
<1>7. CASE m.type = "CURRENTNEXT"
  <2>1. HandleMsg(s, m) = postMsgLow(s, Plain("CURRENTEPG"))
    BY <1>7 DEF HandleMsg
  <2> QED
    BY <2>1, PlainPosted DEF PlainTypes
<1>8. CASE m.type = "CURRENTEPG"
  <2>1. HandleMsg(s, m) = PostTwo(s, "ZAP_GOTAPIDS", "PROGRAMLOCKSTATUS")
    BY <1>8 DEF HandleMsg
  <2> QED
    BY <2>1, TwoPosted DEF PlainTypes
<1>9. CASE m.type \in {"ZAP_CA_ID", "ZAP_GOTPIDS", "ZAP_GOTAPIDS", "PROGRAMLOCKSTATUS"}
  <2>1. HandleMsg(s, m) = s
    BY <1>9 DEF HandleMsg
  <2> QED
    BY <2>1
<1>10. m.type \in {"key"} \cup PlainTypes
  BY DEF RcMessage, PlainTypes
<1> QED
  BY <1>2, <1>3, <1>4, <1>5, <1>6, <1>7, <1>8, <1>9, <1>10 DEF PlainTypes

\* The question stays open, whatever message it gets.
LEMMA BoxStays ==
    ASSUME NEW s, Good(s), s.gui.kind = "box", NEW m \in RcMessage,
           m.press # 0 => Taken(s.rc, s.keys, m.press) /\ NoKey(s.rc.high)
    PROVE  HandleMsg(s, m).gui.kind = "box"
<1>1. s \in InputStates /\ s.gui \in GuiState
  BY GoodParts DEF Good
<1>2. \A t \in InputStates : \A type :
         /\ postMsg(t, Plain(type)).gui = t.gui
         /\ postMsgLow(t, Plain(type)).gui = t.gui
         /\ clearRCMsg(t).gui = t.gui
  BY DEF postMsg, postMsgLow, clearRCMsg, InputStates
<1>3. CASE m.type = "key"
  <2>1. m.press # 0
    BY <1>3 DEF RcMessage, Presses
  <2>2. Done(s, m.press).gui = s.gui
    BY <2>1, KeyDone
  <2> QED
    BY <1>3, <2>2 DEF HandleMsg, HandleKey
<1>4. CASE m.type = "STANDBY"
  <2> DEFINE changed == [s EXCEPT !.gui.standby = ~@]
             posted == postMsg(changed, Plain("SHOW_INFOBAR"))
  <2>1. Good(changed) /\ changed.gui.kind = "box"
    <3> DEFINE g == [s.gui EXCEPT !.standby = ~@]
    <3>1. g \in GuiState /\ g.kind = "box" /\ changed = [s EXCEPT !.gui = g]
      BY <1>1 DEF GuiState, InputStates
    <3>2. [s EXCEPT !.gui = g].gui = g
      BY <1>1 DEF InputStates
    <3> HIDE DEF g, changed
    <3> QED
      BY <3>1, <3>2, GuiChanges
  <2>2. HandleMsg(s, m) = clearRCMsg(IF s.gui.standby THEN posted ELSE changed)
    BY <1>4 DEF HandleMsg, HandleStandby
  <2> HIDE DEF changed
  <2>3. Good(posted)
    BY <2>1, PlainPosted DEF PlainTypes
  <2>4. changed \in InputStates /\ posted \in InputStates /\ posted.gui = changed.gui
    BY <1>2, <2>1, <2>3 DEF Good
  <2> HIDE DEF posted
  <2> QED
    BY <1>2, <2>1, <2>2, <2>4
<1>5. CASE m.type = "TIMESET"
  <2>1. [s EXCEPT !.gui.end = @ + Stretch].gui.kind = "box"
    BY <1>1 DEF GuiState, InputStates
  <2> QED
    BY <1>5, <2>1 DEF HandleMsg, HandleTimeset
<1>6. CASE m.type = "SHOW_INFOBAR"
  BY <1>6 DEF HandleMsg, HandleShowInfobar
<1>7. ASSUME NEW type \in PlainTypes, NEW other \in PlainTypes
      PROVE  PostTwo(s, type, other).gui = s.gui
  <2>1. postMsgLow(s, Plain(type)) \in InputStates
    BY PlainPosted DEF Good
  <2> QED
    BY <1>1, <1>2, <2>1 DEF PostTwo
<1>8. CASE m.type \in {"ZAP_COMPLETE", "CURRENTNEXT", "CURRENTEPG"}
  BY <1>1, <1>2, <1>7, <1>8 DEF HandleMsg, PlainTypes
<1>9. CASE m.type \in {"ZAP_CA_ID", "ZAP_GOTPIDS", "ZAP_GOTAPIDS", "PROGRAMLOCKSTATUS"}
  <2>1. HandleMsg(s, m) = s
    BY <1>9 DEF HandleMsg
  <2> QED
    BY <2>1
<1> QED
  BY <1>3, <1>4, <1>5, <1>6, <1>8, <1>9 DEF RcMessage

-----------------------------------------------------------------------------
(* The steps. *)

IInv == Good(InputState) /\ Window(gui) /\ sent \in Nat

\* A message is handled and the window calls again: the state is good, the time limit new,
\* and a question that was open is open.
Answers(s, t) == Good(t) /\ Window(t.gui) /\ (s.gui.kind = "box" => t.gui.kind = "box")

LEMMA Answered ==
    ASSUME NEW s, Good(s), NEW m \in RcMessage,
           m.press # 0 => Taken(s.rc, s.keys, m.press) /\ NoKey(s.rc.high)
    PROVE  Answers(s, Call(HandleMsg(s, m)))
<1>1. Good(HandleMsg(s, m))
  BY MessageHandled
<1>2. Good(Call(HandleMsg(s, m))) /\ Window(Call(HandleMsg(s, m)).gui)
  BY <1>1, Called
<1>3. \A t \in InputStates : Call(t).gui.kind = t.gui.kind
  BY DEF Call, InputStates, GuiState
<1>4. s.gui.kind = "box" => Call(HandleMsg(s, m)).gui.kind = "box"
  BY <1>1, <1>3, BoxStays DEF Good
<1> QED
  BY <1>2, <1>4 DEF Answers

\* What the state becomes.
LEMMA Becoming ==
    ASSUME NEW s, Good(s), Window(s.gui), InputBecomes(s), sent' \in Nat
    PROVE  IInv' /\ gui' = s.gui
<1>1. s \in InputStates
  BY DEF Good
<1>2. [rc |-> s.rc, gui |-> s.gui, keys |-> s.keys] = s
  BY <1>1 DEF InputStates
<1>3. InputState' = s
  BY <1>2 DEF InputState, InputBecomes
<1> QED
  BY <1>3 DEF IInv, InputBecomes

\* A message of the socket or the other pipe is no key.
LEMMA OthersRead ==
    ASSUME NEW s, Good(s)
    PROVE  /\ s.rc.low # <<>> =>
                 /\ Head(s.rc.low) \in RcMessage /\ Head(s.rc.low).press = 0
                 /\ Good([s EXCEPT !.rc.low = Tail(@)])
           /\ s.rc.socket # <<>> =>
                 /\ Head(s.rc.socket) \in RcMessage /\ Head(s.rc.socket).press = 0
                 /\ Good([s EXCEPT !.rc.socket = Tail(@)])
<1>1. s \in InputStates /\ s.rc \in RcState /\ s.keys \in KeyState /\ s.gui \in GuiState
  BY GoodParts DEF Good
<1>2. NoKey(s.rc.low) /\ NoKey(s.rc.socket) /\ Queued(s.rc, s.keys)
  BY DEF Good, Queued
<1>3. ASSUME NEW q \in Seq(RcMessage), q # <<>>, NoKey(q)
      PROVE  /\ Head(q) \in RcMessage /\ Head(q).press = 0
             /\ Tail(q) \in Seq(RcMessage) /\ NoKey(Tail(q))
  <2>1. /\ Head(q) \in RcMessage /\ Head(q) = q[1] /\ 1 \in DOMAIN q
        /\ Tail(q) \in Seq(RcMessage)
        /\ \A i \in DOMAIN Tail(q) : i + 1 \in DOMAIN q /\ Tail(q)[i] = q[i + 1]
    BY <1>3
  <2> QED
    BY <1>3, <2>1 DEF NoKey
<1>4. s.rc.low \in Seq(RcMessage) /\ s.rc.socket \in Seq(RcMessage)
  BY <1>1 DEF RcState
<1>5. ASSUME NEW r \in RcState, r.timers = s.rc.timers, Queued(r, s.keys)
      PROVE  Good([s EXCEPT !.rc = r])
  BY <1>1, <1>5 DEF Good, InputStates
<1>6. ASSUME s.rc.low # <<>> PROVE Good([s EXCEPT !.rc.low = Tail(@)])
  <2> DEFINE r == [s.rc EXCEPT !.low = Tail(@)]
  <2>1. /\ r \in RcState /\ r.timers = s.rc.timers /\ r.low = Tail(s.rc.low)
        /\ r.device = s.rc.device /\ r.high = s.rc.high /\ r.last = s.rc.last
        /\ r.socket = s.rc.socket
    BY <1>1, <1>2, <1>3, <1>4, <1>6 DEF RcState
  <2>2. [s EXCEPT !.rc.low = Tail(@)] = [s EXCEPT !.rc = r]
    BY <1>1 DEF InputStates, RcState
  <2>3. NoKey(r.low)
    BY <1>2, <1>3, <1>4, <1>6, <2>1
  <2> HIDE DEF r
  <2>4. Queued(r, s.keys)
    BY <1>2, <2>1, <2>3, OthersChange
  <2> QED
    BY <1>5, <2>1, <2>2, <2>4
<1>7. ASSUME s.rc.socket # <<>> PROVE Good([s EXCEPT !.rc.socket = Tail(@)])
  <2> DEFINE r == [s.rc EXCEPT !.socket = Tail(@)]
  <2>1. /\ r \in RcState /\ r.timers = s.rc.timers /\ r.socket = Tail(s.rc.socket)
        /\ r.device = s.rc.device /\ r.high = s.rc.high /\ r.last = s.rc.last
        /\ r.low = s.rc.low
    BY <1>1, <1>2, <1>3, <1>4, <1>7 DEF RcState
  <2>2. [s EXCEPT !.rc.socket = Tail(@)] = [s EXCEPT !.rc = r]
    BY <1>1 DEF InputStates, RcState
  <2>3. NoKey(r.socket)
    BY <1>2, <1>3, <1>4, <1>7, <2>1
  <2> HIDE DEF r
  <2>4. Queued(r, s.keys)
    BY <1>2, <2>1, <2>3, OthersChange
  <2> QED
    BY <1>5, <2>1, <2>2, <2>4
<1> QED
  BY <1>2, <1>3, <1>4, <1>6, <1>7

\* A key event that is none for the window leaves less time, or none; the question is only
\* closed when its time is up, or when that happened before.
LEMMA LimitRecalculated ==
    ASSUME NEW s, Good(s), Window(s.gui)
    PROVE  /\ Good(Recalculated(s)) /\ Window(Recalculated(s).gui)
           /\ s.gui.kind = "box" /\ Recalculated(s).gui.kind # "box" => s.gui.end = 0 \/ s.gui.ignored
<1> DEFINE g == [s.gui EXCEPT !.timeout = @ - s.gui.spent, !.slept = 0, !.ignored = TRUE]
<1>1. s \in InputStates /\ s.gui \in GuiState
  BY GoodParts DEF Good
<1>2. s.gui.timeout \in Nat /\ s.gui.spent \in Nat
  BY <1>1 DEF GuiState
<1> HIDE DEF g
<1>3. CASE s.gui.kind = "main"
  BY <1>3 DEF Recalculated
<1>4. CASE s.gui.kind # "main" /\ s.gui.timeout <= s.gui.spent
  <2>1. Recalculated(s) = Call(Close(s))
    BY <1>4, <1>2 DEF Recalculated
  <2>2. s.gui.ignored \/ s.gui.end = 0
    BY <1>1, <1>4 DEF Window, GuiState
  <2> QED
    BY <2>1, <2>2, Closed, Called
<1>5. CASE s.gui.kind # "main" /\ s.gui.timeout > s.gui.spent
  <2>1. Recalculated(s) = [s EXCEPT !.gui = g]
    <3>1. Recalculated(s) = [s EXCEPT !.gui.timeout = @ - s.gui.spent, !.gui.slept = 0,
                                      !.gui.ignored = TRUE]
      BY <1>5, <1>2 DEF Recalculated
    <3> QED
      BY <1>1, <3>1 DEF g, InputStates, GuiState
  <2>2. /\ g \in GuiState /\ g.kind = s.gui.kind /\ g.end = s.gui.end /\ g.ignored
        /\ g.slept = 0 /\ g.spent = s.gui.spent /\ g.timeout = s.gui.timeout - s.gui.spent
    <3>1. s.gui.timeout - s.gui.spent \in Nat
      BY <1>5, <1>2
    <3> QED
      BY <1>1, <3>1 DEF g, GuiState
  <2>3. Window(g)
    BY <1>1, <1>5, <2>2 DEF Window, GuiState
  <2>4. [s EXCEPT !.gui = g].gui = g
    BY <1>1 DEF InputStates
  <2> QED
    BY <2>1, <2>2, <2>3, <2>4, GuiChanges
<1> QED
  BY <1>3, <1>4, <1>5, <1>2

\* What a call of getMsg_us does to the state, and that it does not close the question
\* early.
Kept == IInv' /\ (gui.kind = "box" /\ gui'.kind # "box" => gui.end = 0 \/ gui.ignored)

LEMMA StateIsGood ==
    ASSUME IInv
    PROVE  /\ Good(InputState) /\ Window(gui) /\ sent \in Nat
           /\ InputState.rc = rc /\ InputState.gui = gui /\ InputState.keys = keys
BY DEF IInv, InputState

LEMMA TimersKeep == ASSUME IInv, CheckTimers PROVE Kept
<1> DEFINE t == [InputState EXCEPT !.rc.timers = checkTimers(@)]
           r == [rc EXCEPT !.timers = checkTimers(@)]
<1>1. rc \in RcState /\ gui \in GuiState /\ keys \in KeyState /\ Timely(rc.timers) /\ Queued(rc, keys)
  BY StateIsGood, GoodParts
<1>2. t = [rc |-> r, gui |-> gui, keys |-> keys]
  <2>1. InputState \in InputStates /\ InputState.rc = rc /\ InputState.gui = gui /\ InputState.keys = keys
    BY StateIsGood DEF Good
  <2>2. t = [InputState EXCEPT !.rc = [InputState.rc EXCEPT !.timers = checkTimers(InputState.rc.timers)]]
    BY <2>1 DEF InputStates, RcState
  <2> QED
    BY <2>1, <2>2 DEF InputStates
<1>3. Timely(checkTimers(rc.timers))
  BY <1>1, TimerRenewed
<1>4. /\ r \in RcState /\ r.timers = checkTimers(rc.timers)
      /\ r.device = rc.device /\ r.high = rc.high /\ r.last = rc.last
      /\ r.low = rc.low /\ r.socket = rc.socket
  BY <1>1, <1>3 DEF RcState, Timely
<1>5. NoKey(r.low) /\ NoKey(r.socket)
  BY <1>1, <1>4 DEF Queued
<1> HIDE DEF r
<1>6. Queued(r, keys)
  BY <1>1, <1>4, <1>5, OthersChange
<1>7. Good(t) /\ t.gui = gui
  BY <1>1, <1>2, <1>3, <1>4, <1>6 DEF Good, InputStates
<1>8. InputBecomes(Call(t)) /\ sent' = sent
  BY DEF CheckTimers
<1> HIDE DEF t
<1>9. Call(t).gui.kind = t.gui.kind
  BY <1>7 DEF Call, Good, InputStates, GuiState
<1>10. Good(Call(t)) /\ Window(Call(t).gui)
  BY <1>7, Called
<1> QED
  BY <1>7, <1>8, <1>9, <1>10, Becoming, StateIsGood DEF Kept

\* A message is taken from the pipe of high priority.
LEMMA HighTaken ==
    ASSUME IInv, rc.high # <<>>
    PROVE  LET m == Head(rc.high)
               t == [InputState EXCEPT !.rc.high = Tail(@)]
           IN  /\ Good(t) /\ t.gui = gui /\ t.keys = keys /\ m \in RcMessage
               /\ t.rc = [rc EXCEPT !.high = Tail(@)]
               /\ m.press # 0 => Taken(t.rc, t.keys, m.press) /\ NoKey(t.rc.high)
<1> DEFINE m == Head(rc.high)
           t == [InputState EXCEPT !.rc.high = Tail(@)]
           r == [rc EXCEPT !.high = Tail(@)]
<1>1. rc \in RcState /\ gui \in GuiState /\ keys \in KeyState /\ Timely(rc.timers) /\ Queued(rc, keys)
  BY StateIsGood, GoodParts
<1>2. t = [rc |-> r, gui |-> gui, keys |-> keys]
  <2>1. InputState \in InputStates /\ InputState.rc = rc /\ InputState.gui = gui /\ InputState.keys = keys
    BY StateIsGood DEF Good
  <2>2. t = [InputState EXCEPT !.rc = [InputState.rc EXCEPT !.high = Tail(InputState.rc.high)]]
    BY <2>1 DEF InputStates, RcState
  <2>3. [InputState.rc EXCEPT !.high = Tail(InputState.rc.high)] = r
    BY <1>1, <2>1 DEF RcState
  <2> HIDE DEF r, t
  <2> QED
    BY <2>1, <2>2, <2>3 DEF InputStates
<1>3. /\ m \in RcMessage /\ Queued(r, keys) /\ r.timers = rc.timers
      /\ m.press # 0 => Taken(r, keys, m.press) /\ NoKey(r.high)
  BY <1>1, HighRead
<1>4. r \in RcState
  BY <1>3 DEF Queued
<1> HIDE DEF r
<1>5. Good(t) /\ t.rc = r /\ t.keys = keys /\ t.gui = gui
  BY <1>1, <1>2, <1>3, <1>4 DEF Good, InputStates
<1> QED
  BY <1>3, <1>5 DEF r

LEMMA HighKeeps == ASSUME IInv, ReadHigh PROVE Kept
<1> DEFINE m == Head(rc.high)
           t == [InputState EXCEPT !.rc.high = Tail(@)]
<1>1. InputBecomes(Call(HandleMsg(t, m))) /\ sent' = sent
  BY DEF ReadHigh
<1>2. /\ Good(t) /\ t.gui = gui /\ m \in RcMessage
      /\ m.press # 0 => Taken(t.rc, t.keys, m.press) /\ NoKey(t.rc.high)
  BY HighTaken DEF ReadHigh
<1> HIDE DEF t, m
<1>3. Answers(t, Call(HandleMsg(t, m)))
  BY <1>2, Answered
<1> QED
  BY <1>1, <1>2, <1>3, Becoming, StateIsGood DEF Kept, Answers

LEMMA OthersKeep == ASSUME IInv, ReadSocket \/ ReadLow PROVE Kept
<1>1. ASSUME NEW t, Good(t), t.gui = gui, NEW m \in RcMessage, m.press = 0,
             InputBecomes(Call(HandleMsg(t, m))), sent' = sent
      PROVE  Kept
  <2>1. Answers(t, Call(HandleMsg(t, m)))
    BY <1>1, Answered
  <2> QED
    BY <1>1, <2>1, Becoming, StateIsGood DEF Kept, Answers
<1>2. CASE ReadSocket
  <2> DEFINE t == [InputState EXCEPT !.rc.socket = Tail(@)]
             m == Head(rc.socket)
  <2>1. m \in RcMessage /\ m.press = 0 /\ Good(t)
    BY <1>2, OthersRead, StateIsGood DEF ReadSocket
  <2>2. t.gui = gui
    BY DEF InputState
  <2>3. InputBecomes(Call(HandleMsg(t, m))) /\ sent' = sent
    BY <1>2 DEF ReadSocket
  <2> HIDE DEF t, m
  <2> QED
    BY <1>1, <2>1, <2>2, <2>3
<1>3. CASE ReadLow
  <2> DEFINE t == [InputState EXCEPT !.rc.low = Tail(@)]
             m == Head(rc.low)
  <2>1. m \in RcMessage /\ m.press = 0 /\ Good(t)
    BY <1>3, OthersRead, StateIsGood DEF ReadLow
  <2>2. t.gui = gui
    BY DEF InputState
  <2>3. InputBecomes(Call(HandleMsg(t, m))) /\ sent' = sent
    BY <1>3 DEF ReadLow
  <2> HIDE DEF t, m
  <2> QED
    BY <1>1, <2>1, <2>2, <2>3
<1> QED
  BY <1>2, <1>3

\* A key event is taken from the device while no message waits.
LEMMA KeyTaken ==
    ASSUME IInv, rc.high = <<>>, rc.device # <<>>
    PROVE  LET ev   == Head(rc.device)
               code == keys.code[ev.press]
               t    == [InputState EXCEPT !.rc.device = Tail(@), !.rc.last = LastKey(ev, code)]
           IN  /\ Good(t) /\ t.gui = gui /\ t.keys = keys /\ t.rc.high = <<>>
               /\ t.rc.device = Tail(rc.device) /\ t.rc.last = LastKey(ev, code)
               /\ ev.press \in Presses
               /\ ev.value # "up" /\ (code # rc.last \/ code \in Repeatable)
                     => Taken(t.rc, t.keys, ev.press)
<1> DEFINE ev   == Head(rc.device)
           code == keys.code[ev.press]
           r    == [rc EXCEPT !.device = Tail(@), !.last = LastKey(ev, code)]
           t    == [InputState EXCEPT !.rc.device = Tail(@), !.rc.last = LastKey(ev, code)]
<1>1. rc \in RcState /\ gui \in GuiState /\ keys \in KeyState /\ Timely(rc.timers) /\ Queued(rc, keys)
  BY StateIsGood, GoodParts
<1>2. t = [rc |-> r, gui |-> gui, keys |-> keys]
  <2>1. InputState \in InputStates /\ InputState.rc = rc /\ InputState.gui = gui /\ InputState.keys = keys
    BY StateIsGood DEF Good
  <2>2. t = [InputState EXCEPT !.rc = [InputState.rc EXCEPT !.device = Tail(InputState.rc.device), !.last = LastKey(ev, code)]]
    BY <2>1 DEF InputStates, RcState
  <2> QED
    BY <2>1, <2>2 DEF InputStates
<1>3. /\ Queued(r, keys) /\ r.timers = rc.timers /\ r.high = <<>> /\ ev.press \in Presses
      /\ ev.value # "up" /\ (code # rc.last \/ code \in Repeatable) => Taken(r, keys, ev.press)
  BY <1>1, DeviceRead
<1>4. r \in RcState /\ r.device = Tail(rc.device) /\ r.last = LastKey(ev, code)
  BY <1>1, <1>3 DEF Queued, RcState
<1> HIDE DEF r
<1>5. Good(t) /\ t.rc = r /\ t.keys = keys /\ t.gui = gui
  BY <1>1, <1>2, <1>3, <1>4 DEF Good, InputStates
<1> QED
  BY <1>3, <1>4, <1>5

\* A key event that is ignored takes a message of low priority with it, or time.
LEMMA KeysKeep == ASSUME IInv, ReadKey PROVE Kept
<1> DEFINE ev   == Head(rc.device)
           code == keys.code[ev.press]
           t    == [InputState EXCEPT !.rc.device = Tail(@), !.rc.last = LastKey(ev, code)]
           m    == [type |-> "key", press |-> ev.press]
<1>1. /\ Good(t) /\ t.gui = gui /\ t.rc.high = <<>> /\ ev.press \in Presses
      /\ ev.value # "up" /\ (code # rc.last \/ code \in Repeatable)
            => Taken(t.rc, t.keys, ev.press)
  BY KeyTaken DEF ReadKey
<1>2. PICK ok \in Accepted(ev, code) :
         InputBecomes(IF ok THEN Call(HandleMsg(t, m)) ELSE Ignored(t))
  BY DEF ReadKey
<1>3. sent' = sent
  BY DEF ReadKey
<1>4. ok => ev.value # "up" /\ (code # rc.last \/ code \in Repeatable)
  BY <1>2 DEF Accepted
<1>5. m \in RcMessage /\ m.press = ev.press
  BY <1>1 DEF RcMessage
<1>6. NoKey(t.rc.high)
  <2>1. t.rc.high = <<>>
    BY <1>1
  <2> HIDE DEF t
  <2> QED
    BY <2>1 DEF NoKey
<1> HIDE DEF t, ev, m, code
<1>7. CASE ok
  <2>1. Answers(t, Call(HandleMsg(t, m)))
    BY <1>1, <1>4, <1>5, <1>6, <1>7, Answered
  <2> QED
    BY <1>1, <1>2, <1>3, <1>7, <2>1, Becoming, StateIsGood DEF Kept, Answers
<1>8. CASE ~ok /\ t.rc.low # <<>>
  <2> DEFINE u == [t EXCEPT !.rc.low = Tail(@)]
             n == Head(t.rc.low)
  <2>1. Ignored(t) = Call(HandleMsg(u, n))
    BY <1>8 DEF Ignored
  <2>2. n \in RcMessage /\ n.press = 0 /\ Good(u)
    BY <1>1, <1>8, OthersRead
  <2>3. u.gui = t.gui
    BY <1>1 DEF Good, InputStates
  <2> HIDE DEF u, n
  <2>4. Answers(u, Call(HandleMsg(u, n)))
    BY <2>2, Answered
  <2> QED
    BY <1>1, <1>2, <1>3, <1>8, <2>1, <2>3, <2>4, Becoming, StateIsGood DEF Kept, Answers
<1>9. CASE ~ok /\ t.rc.low = <<>>
  <2>1. Ignored(t) = Recalculated(t)
    BY <1>9 DEF Ignored
  <2>2. /\ Good(Recalculated(t)) /\ Window(Recalculated(t).gui)
        /\ gui.kind = "box" /\ Recalculated(t).gui.kind # "box" => gui.end = 0 \/ gui.ignored
    BY <1>1, LimitRecalculated, StateIsGood
  <2> QED
    BY <1>2, <1>3, <1>9, <2>1, <2>2, Becoming, StateIsGood DEF Kept
<1> QED
  BY <1>7, <1>8, <1>9

\* The time is up: all the windows close.
LEMMA TimeOutKeeps == ASSUME IInv, TimeOut PROVE Kept
<1>1. InputBecomes(Call(Close(InputState))) /\ sent' = sent
  BY DEF TimeOut
<1>2. Good(Call(Close(InputState))) /\ Window(Call(Close(InputState)).gui)
  BY Closed, Called, StateIsGood
<1>3. gui.ignored \/ gui.end = 0
  <2>1. gui \in GuiState /\ Window(gui)
    BY StateIsGood, GoodParts
  <2>2. gui.slept \in Nat /\ gui.timeout \in Nat /\ gui.end \in Nat
    BY <2>1 DEF GuiState
  <2> QED
    BY <2>1, <2>2 DEF TimeOut, TimeIsUp, Window
<1> QED
  BY <1>1, <1>2, <1>3, Becoming, StateIsGood DEF Kept

\* While nothing waits, time passes for the timers and for the window alike.
LEMMA SleepKeeps == ASSUME IInv, Sleep PROVE Kept
<1> DEFINE ts == [i \in DOMAIN rc.timers |-> [rc.timers[i] EXCEPT !.left = @ - 1]]
<1>1. rc \in RcState /\ gui \in GuiState /\ keys \in KeyState /\ Timely(rc.timers) /\ Queued(rc, keys)
  BY StateIsGood, GoodParts
<1>2. rc' = [rc EXCEPT !.timers = ts]
  BY DEF Sleep
<1>3. Timely(ts)
  BY <1>1, TimersGoOn DEF Sleep, Quiet, TimerIsDue
<1> HIDE DEF ts
<1>4. /\ rc' \in RcState /\ rc'.timers = ts
      /\ rc'.device = rc.device /\ rc'.high = rc.high /\ rc'.last = rc.last
      /\ rc'.low = rc.low /\ rc'.socket = rc.socket
  BY <1>1, <1>2, <1>3 DEF RcState, Timely
<1>5. /\ keys' \in KeyState /\ keys'.code = keys.code /\ keys'.held = keys.held
      /\ keys'.cleared = keys.cleared /\ keys'.handled = keys.handled
  BY <1>1 DEF Sleep, KeyState
<1>6. Queued(rc', keys)
  <2>1. NoKey(rc'.low) /\ NoKey(rc'.socket)
    BY <1>1, <1>4 DEF Queued
  <2> QED
    BY <1>1, <1>4, <2>1, OthersChange
<1>7. Queued(rc', keys')
  <2>1. \A n : Passed(rc', keys, n) => Passed(rc', keys', n)
    BY <1>5 DEF Passed, Remembered
  <2>2. \A n : Taken(rc', keys, n) => Taken(rc', keys', n)
    BY <1>5, <2>1 DEF Taken
  <2>3. DeviceOrdered(rc', keys')
    BY <1>5, <1>6 DEF Queued, DeviceOrdered
  <2> QED
    BY <1>5, <1>6, <2>1, <2>2, <2>3 DEF Queued
<1>8. gui' \in GuiState /\ Window(gui') /\ gui'.kind = gui.kind
  <2>1. CASE gui.kind = "main"
    BY <1>1, <2>1, StateIsGood DEF Sleep
  <2>2. CASE gui.kind # "main"
    <3>1. gui.slept \in Nat /\ gui.timeout \in Nat /\ gui.end \in Nat /\ gui.spent \in Nat
      BY <1>1 DEF GuiState
    <3>2. Window(gui) /\ gui.slept < gui.timeout
      BY <2>2, <3>1, StateIsGood DEF Sleep, TimeIsUp
    <3>3. gui.end > 0
      BY <2>2, <3>1, <3>2 DEF Window
    <3>4. gui' = [gui EXCEPT !.end = gui.end - 1, !.spent = gui.spent + 1, !.slept = gui.slept + 1]
      BY <1>1, <2>2, <3>3 DEF Sleep, GuiState
    <3>5. /\ gui'.end = gui.end - 1 /\ gui'.spent = gui.spent + 1 /\ gui'.slept = gui.slept + 1
          /\ gui'.timeout = gui.timeout /\ gui'.kind = gui.kind /\ gui'.ignored = gui.ignored
          /\ gui' \in GuiState
      <4>1. gui.end - 1 \in Nat /\ gui.spent + 1 \in Nat /\ gui.slept + 1 \in Nat
        BY <3>1, <3>3
      <4> QED
        BY <1>1, <3>4, <4>1 DEF GuiState
    <3>6. Window(gui')
      BY <2>2, <3>1, <3>2, <3>5 DEF Window
    <3> QED
      BY <3>5, <3>6
  <2> QED
    BY <2>1, <2>2
<1>9. Good(InputState)'
  BY <1>3, <1>4, <1>5, <1>7, <1>8 DEF Good, InputStates, InputState
<1>10. sent' \in Nat
  BY DEF Sleep
<1> QED
  BY <1>8, <1>9, <1>10 DEF Kept, IInv

\* The user presses, holds and releases a key.
LEMMA UserKeeps ==
    ASSUME IInv, (\E code \in Codes : Press(code)) \/ Repeat \/ Release
    PROVE  Kept
<1>1. rc \in RcState /\ gui \in GuiState /\ keys \in KeyState /\ Timely(rc.timers) /\ Queued(rc, keys)
  BY StateIsGood, GoodParts
<1>2. /\ keys.code \in Seq(Codes) /\ Len(keys.code) \in Nat /\ Len(keys.code) <= MaxPresses
      /\ keys.held \in {0, Len(keys.code)} /\ keys.held \in Presses \cup {0} /\ MaxPresses \in Nat
  BY <1>1, InputAssumption DEF Queued, DeviceOrdered, KeyState
<1>3. ASSUME NEW e \in RcEvent, rc' = [rc EXCEPT !.device = Append(@, e)], keys' \in KeyState,
             keys'.handled = keys.handled, keys'.cleared = keys.cleared,
             \A n \in 1 .. Len(keys.code) : n <= Len(keys'.code) /\ keys'.code[n] = keys.code[n],
             Len(keys'.code) <= MaxPresses, e.press = Len(keys'.code),
             keys'.held = IF e.value = "up" THEN 0 ELSE e.press,
             keys.held = e.press \/ Len(keys.code) < e.press,
             UNCHANGED <<gui, sent>>
      PROVE  Kept
  <2>1. Queued(rc', keys')
    BY <1>1, <1>3, DeviceFilled
  <2>2. rc' \in RcState /\ rc'.timers = rc.timers
    BY <1>1, <1>3, <2>1 DEF Queued, RcState
  <2>3. Good(InputState)'
    BY <1>1, <1>3, <2>1, <2>2 DEF Good, InputStates, InputState
  <2> QED
    BY <1>3, <2>3, StateIsGood DEF Kept, IInv
<1>4. ASSUME NEW code \in Codes, Press(code) PROVE Kept
  <2> DEFINE n == Len(keys.code)
             e == Event(n + 1, "down")
  <2>1. n \in Nat /\ n + 1 <= MaxPresses /\ n + 1 \in Presses
    <3>1. n < MaxPresses
      BY <1>4 DEF Press
    <3>2. n \in Nat /\ MaxPresses \in Nat
      BY <1>2
    <3> HIDE DEF n
    <3> QED
      BY <3>1, <3>2 DEF Presses
  <2>2. e \in RcEvent /\ e.press = n + 1 /\ e.value = "down"
    BY <2>1 DEF Event, RcEvent
  <2>3. /\ Append(keys.code, code) \in Seq(Codes) /\ Len(Append(keys.code, code)) = n + 1
        /\ \A i \in 1 .. n : Append(keys.code, code)[i] = keys.code[i]
    BY <1>2, AppendProperties
  <2>4. keys' = [keys EXCEPT !.held = n + 1, !.code = Append(keys.code, code)]
    BY <1>1, <1>4 DEF Press, KeyState
  <2>5. /\ keys' \in KeyState /\ keys'.handled = keys.handled /\ keys'.cleared = keys.cleared
        /\ keys'.held = n + 1 /\ keys'.code = Append(keys.code, code)
    BY <1>1, <2>1, <2>3, <2>4 DEF KeyState
  <2>6. rc' = [rc EXCEPT !.device = Append(@, e)] /\ UNCHANGED <<gui, sent>>
    BY <1>4 DEF Press
  <2> HIDE DEF n, e
  <2> QED
    BY <1>2, <1>3, <2>1, <2>2, <2>3, <2>5, <2>6 DEF n
<1>5. CASE Repeat
  <2> DEFINE e == Event(keys.held, "repeat")
  <2>1. e \in RcEvent /\ e.press = keys.held /\ e.value = "repeat" /\ keys.held = Len(keys.code)
    BY <1>2, <1>5 DEF Repeat, Event, RcEvent
  <2>2. /\ keys' \in KeyState /\ keys'.handled = keys.handled /\ keys'.cleared = keys.cleared
        /\ keys'.held = keys.held /\ keys'.code = keys.code
    BY <1>1, <1>5 DEF Repeat, KeyState
  <2>3. rc' = [rc EXCEPT !.device = Append(@, e)] /\ UNCHANGED <<gui, sent>>
    BY <1>5 DEF Repeat
  <2> HIDE DEF e
  <2> QED
    BY <1>2, <1>3, <2>1, <2>2, <2>3
<1>6. CASE Release
  <2> DEFINE e == Event(keys.held, "up")
  <2>1. e \in RcEvent /\ e.press = keys.held /\ e.value = "up" /\ keys.held = Len(keys.code)
    BY <1>2, <1>6 DEF Release, Event, RcEvent
  <2>2. /\ keys' \in KeyState /\ keys'.handled = keys.handled /\ keys'.cleared = keys.cleared
        /\ keys'.held = 0 /\ keys'.code = keys.code
    BY <1>1, <1>6 DEF Release, KeyState
  <2>3. rc' = [rc EXCEPT !.device = Append(@, e)] /\ UNCHANGED <<gui, sent>>
    BY <1>6 DEF Release
  <2> HIDE DEF e
  <2> QED
    BY <1>2, <1>3, <2>1, <2>2, <2>3
<1> QED
  BY <1>4, <1>5, <1>6

\* Other threads send a message over the socket.
LEMMA SendKeeps ==
    ASSUME IInv, NEW type \in {"TIMESET", "CURRENTNEXT", "STANDBY"}, Send(type)
    PROVE  Kept
<1>1. rc \in RcState /\ gui \in GuiState /\ keys \in KeyState /\ Timely(rc.timers) /\ Queued(rc, keys)
  BY StateIsGood, GoodParts
<1>2. Plain(type) \in RcMessage /\ Plain(type).press = 0
  BY DEF Plain, RcMessage
<1> DEFINE q == Append(rc.socket, Plain(type))
<1>3. rc.socket \in Seq(RcMessage) /\ NoKey(rc.socket)
  BY <1>1 DEF RcState, Queued
<1>4. /\ q \in Seq(RcMessage) /\ Len(q) = Len(rc.socket) + 1
      /\ \A i \in 1 .. Len(rc.socket) : q[i] = rc.socket[i]
      /\ q[Len(rc.socket) + 1] = Plain(type)
  BY <1>2, <1>3, AppendProperties
<1>5. rc' = [rc EXCEPT !.socket = q] /\ UNCHANGED <<gui, keys>> /\ sent' = sent + 1
  BY DEF Send
<1> HIDE DEF q
<1>6. NoKey(q)
  <2>1. DOMAIN q = 1 .. Len(rc.socket) + 1 /\ DOMAIN rc.socket = 1 .. Len(rc.socket) /\ Len(rc.socket) \in Nat
    BY <1>3, <1>4
  <2> QED
    BY <1>2, <1>3, <1>4, <2>1 DEF NoKey
<1>7. /\ rc' \in RcState /\ rc'.socket = q /\ rc'.timers = rc.timers
      /\ rc'.device = rc.device /\ rc'.high = rc.high /\ rc'.last = rc.last /\ rc'.low = rc.low
  BY <1>1, <1>4, <1>5 DEF RcState
<1>8. Queued(rc', keys)
  <2>1. NoKey(rc'.low) /\ NoKey(rc'.socket)
    BY <1>1, <1>6, <1>7 DEF Queued
  <2> QED
    BY <1>1, <1>7, <2>1, OthersChange
<1>9. Good(InputState)'
  BY <1>1, <1>5, <1>7, <1>8 DEF Good, InputStates, InputState
<1> QED
  BY <1>5, <1>9, StateIsGood DEF Kept, IInv

LEMMA StepKeeps == ASSUME IInv, [InputNext]_inputVars PROVE Kept
<1>1. CASE UNCHANGED inputVars
  <2>1. InputState' = InputState
    BY <1>1 DEF inputVars, InputState
  <2> QED
    BY <1>1, <2>1 DEF inputVars, Kept, IInv
<1> QED
  BY <1>1, TimersKeep, HighKeeps, OthersKeep, KeysKeep, TimeOutKeeps, SleepKeeps, UserKeeps, SendKeeps
  DEF InputNext, GetMsg

LEMMA InitIsGood == ASSUME InputInit PROVE IInv
<1>1. rc \in RcState /\ Timely(rc.timers)
  <2> DEFINE t == [id |-> "lcd", left |-> LcdInterval, interval |-> LcdInterval]
  <2>1. t \in RcTimer /\ t.left >= 0 /\ t.interval >= 1 /\ t.id = "lcd"
    BY InputAssumption DEF RcTimer
  <2> HIDE DEF t
  <2>2. Timely(<<t>>)
    BY <2>1 DEF Timely
  <2>3. <<t>> \in Seq(RcTimer) /\ <<>> \in Seq(RcMessage) /\ <<>> \in Seq(RcEvent)
        /\ <<Plain("SHOW_INFOBAR")>> \in Seq(RcMessage)
    BY <2>1 DEF Plain, RcMessage
  <2> QED
    BY <2>2, <2>3 DEF InputInit, RcState, t
<1>2. keys \in KeyState /\ gui \in GuiState /\ sent \in Nat
  BY DEF InputInit, KeyState, GuiState
<1>3. /\ rc.device = <<>> /\ rc.low = <<>> /\ rc.socket = <<>> /\ rc.high = <<Plain("SHOW_INFOBAR")>>
      /\ keys.code = <<>> /\ keys.held = 0 /\ \A n \in Presses : keys.handled[n] = 0
  BY DEF InputInit
<1>4. Plain("SHOW_INFOBAR").press = 0
  BY DEF Plain
<1>5. Queued(rc, keys)
  <2>1. Len(keys.code) = 0 /\ DOMAIN rc.device = {} /\ DOMAIN rc.low = {} /\ DOMAIN rc.socket = {}
        /\ DOMAIN rc.high = {1} /\ rc.high[1].press = 0
    BY <1>3, <1>4
  <2>2. DeviceOrdered(rc, keys)
    BY <1>3, <2>1, InputAssumption DEF DeviceOrdered
  <2> QED
    BY <1>1, <1>2, <1>3, <2>1, <2>2 DEF Queued, NoKey
<1>6. Window(gui)
  BY DEF InputInit, Window
<1> QED
  BY <1>1, <1>2, <1>5, <1>6 DEF IInv, Good, InputStates, InputState

-----------------------------------------------------------------------------
(* No press is lost: its first event is accepted, for the last key has been     *)
(* forgotten when it comes, and the pipe never holds more than the one message. *)

\* A press begins after the release of the one before, and the release of the last one is
\* the last event.
Begins(r, k) ==
    /\ \A i \in DOMAIN r.device :
          r.device[i].value = "down" => IF i = 1 THEN r.last = "none"
                                                 ELSE r.device[i - 1].value = "up"
    /\ k.held = 0 => IF r.device = <<>> THEN r.last = "none"
                                        ELSE r.device[Len(r.device)].value = "up"

\* The press has taken effect or been cleared, or its first event is still to come.
Settled(r, k, n) ==
    \/ k.handled[n] > 0 \/ n \in k.cleared
    \/ \E i \in DOMAIN r.device : r.device[i].press = n /\ r.device[i].value = "down"

InHigh(r, n) == \E i \in DOMAIN r.high : r.high[i].press = n

NoneLost(r, k) ==
    /\ Len(r.high) <= 1
    /\ Begins(r, k)
    /\ \A n \in 1 .. Len(k.code) : Settled(r, k, n) \/ InHigh(r, n)

\* Nothing of this changes.
Same(s, t) ==
    /\ t.keys = s.keys
    /\ t.rc.device = s.rc.device /\ t.rc.last = s.rc.last /\ t.rc.high = s.rc.high

\* The events stay, or are all cleared.
Continues(s, t) ==
    /\ t.keys.code = s.keys.code /\ t.keys.held = s.keys.held
    /\ s.keys.cleared \subseteq t.keys.cleared
    /\ \A n \in Presses : s.keys.handled[n] > 0 => t.keys.handled[n] > 0
    /\ \/ t.rc.device = s.rc.device /\ t.rc.last = s.rc.last
       \/ /\ t.rc.device = <<>> /\ t.rc.last = "none"
          /\ \A i \in DOMAIN s.rc.device : s.rc.device[i].press \in t.keys.cleared

LEMMA SameContinues ==
    ASSUME NEW s, NEW t, NEW u, Continues(s, t), Same(t, u)
    PROVE  Continues(s, u) /\ u.rc.high = t.rc.high
BY DEF Same, Continues

LEMMA ContinuesItself ==
    ASSUME NEW s, NEW t, Same(s, t)
    PROVE  Continues(s, t) /\ t.rc.high = s.rc.high
BY DEF Same, Continues

LEMMA ContinuesOn ==
    ASSUME NEW s, NEW t, NEW u, Continues(s, t), Continues(t, u)
    PROVE  Continues(s, u)
<1>1. /\ u.keys.code = s.keys.code /\ u.keys.held = s.keys.held
      /\ s.keys.cleared \subseteq u.keys.cleared
      /\ \A n \in Presses : s.keys.handled[n] > 0 => u.keys.handled[n] > 0
  BY DEF Continues
<1>2. CASE t.rc.device = s.rc.device /\ t.rc.last = s.rc.last
  BY <1>1, <1>2 DEF Continues
<1>3. CASE /\ t.rc.device = <<>> /\ t.rc.last = "none"
           /\ \A i \in DOMAIN s.rc.device : s.rc.device[i].press \in t.keys.cleared
  <2>1. u.rc.device = <<>> /\ u.rc.last = "none"
    BY <1>3 DEF Continues
  <2>2. \A i \in DOMAIN s.rc.device : s.rc.device[i].press \in u.keys.cleared
    BY <1>3 DEF Continues
  <2> QED
    BY <1>1, <2>1, <2>2 DEF Continues
<1> QED
  BY <1>2, <1>3 DEF Continues

\* A call, a window that opens or closes and a message in the other pipe change nothing of it.
LEMMA SameOf ==
    ASSUME NEW s \in InputStates
    PROVE  /\ Same(s, Call(s)) /\ Same(s, Close(s)) /\ Same(s, ShowTitle(s))
           /\ \A g : Same(s, [s EXCEPT !.gui = g])
           /\ \A m : Same(s, postMsgLow(s, m))
<1>1. s.rc \in RcState
  BY DEF InputStates
<1> QED
  BY <1>1 DEF Same, Call, Close, ShowTitle, postMsgLow, InputStates, RcState

LEMMA SameTrans ==
    ASSUME NEW s, NEW t, NEW u, Same(s, t), Same(t, u) PROVE Same(s, u)
BY DEF Same

LEMMA PostContinues ==
    ASSUME NEW s \in InputStates, NEW m
    PROVE  Continues(s, postMsg(s, m)) /\ postMsg(s, m).rc.high = Written(s.rc.high, m)
<1>1. s.rc \in RcState
  BY DEF InputStates
<1> QED
  BY <1>1 DEF Continues, postMsg, InputStates, RcState

LEMMA ClearContinues ==
    ASSUME NEW s \in InputStates
    PROVE  Continues(s, clearRCMsg(s)) /\ clearRCMsg(s).rc.high = s.rc.high
           /\ clearRCMsg(s).keys.handled = s.keys.handled
<1> DEFINE t == clearRCMsg(s)
<1>1. s.rc \in RcState /\ s.keys \in KeyState
  BY DEF InputStates
<1>2. /\ t.rc.device = <<>> /\ t.rc.last = "none" /\ t.rc.high = s.rc.high
      /\ t.keys.code = s.keys.code /\ t.keys.held = s.keys.held
      /\ t.keys.handled = s.keys.handled
      /\ t.keys.cleared = s.keys.cleared \cup {s.rc.device[i].press : i \in DOMAIN s.rc.device}
                                         \cup ({s.keys.held} \ {0})
  BY <1>1 DEF clearRCMsg, InputStates, RcState, KeyState
<1> HIDE DEF t
<1>3. Continues(s, t)
  BY <1>2 DEF Continues
<1> QED
  BY <1>2, <1>3 DEF t

LEMMA DoneContinues ==
    ASSUME NEW s \in InputStates, NEW n \in Presses
    PROVE  /\ Continues(s, Done(s, n)) /\ Done(s, n).rc = s.rc
           /\ Done(s, n).keys.handled[n] > 0
<1> DEFINE v == IF s.keys.handled[n] < 2 THEN s.keys.handled[n] + 1 ELSE s.keys.handled[n]
           k == [s.keys EXCEPT !.handled = [@ EXCEPT ![n] = v]]
<1>1. s.rc \in RcState /\ s.keys \in KeyState
  BY DEF InputStates
<1>2. s.keys.handled \in [Presses -> 0 .. 2]
  BY <1>1 DEF KeyState
<1>3. v > 0
  BY <1>2
<1>4. Done(s, n) = [s EXCEPT !.keys = k]
  BY <1>1, <1>2 DEF Done, InputStates, KeyState
<1> HIDE DEF v
<1>5. /\ k.handled = [s.keys.handled EXCEPT ![n] = v]
      /\ k.code = s.keys.code /\ k.held = s.keys.held /\ k.cleared = s.keys.cleared
  BY <1>1 DEF KeyState
<1>6. k.handled[n] = v /\ \A m \in Presses : m # n => k.handled[m] = s.keys.handled[m]
  BY <1>2, <1>5
<1> HIDE DEF k
<1>7. Done(s, n).keys = k /\ Done(s, n).rc = s.rc
  BY <1>4 DEF InputStates
<1>8. \A m \in Presses : s.keys.handled[m] > 0 => k.handled[m] > 0
  BY <1>3, <1>6
<1> QED
  BY <1>3, <1>5, <1>6, <1>7, <1>8 DEF Continues

\* The first message of an empty pipe is always written.
LEMMA FirstWritten ==
    ASSUME NEW m
    PROVE  Written(<<>>, m) = <<m>>
BY InputAssumption DEF Written

\* The message is dealt with, or the key is in the pipe.
Moves(s, t, n) ==
    /\ Continues(s, t) /\ Len(t.rc.high) <= 1
    /\ n # 0 => t.keys.handled[n] > 0 \/ InHigh(t.rc, n)

LEMMA MovesOn ==
    ASSUME NEW s, NEW t, NEW u, NEW n, Moves(s, t, n), Same(t, u) PROVE Moves(s, u, n)
BY SameContinues DEF Moves, Same, InHigh

LEMMA ZapContinues ==
    ASSUME NEW s, Good(s), s.rc.high = <<>>
    PROVE  Continues(s, QuickZap(s)) /\ Len(QuickZap(s).rc.high) <= 1
<1> DEFINE answers == <<Plain("ZAP_CA_ID"), Plain("ZAP_COMPLETE")>>
           t == [s EXCEPT !.rc.socket = @ \o answers]
           m == Plain("SHOW_INFOBAR")
           u == postMsg(t, m)
<1>1. s \in InputStates /\ s.rc \in RcState
  BY GoodParts DEF Good
<1>2. answers \in Seq(RcMessage)
  BY DEF RcMessage, Plain
<1>3. QuickZap(s) = clearRCMsg(u)
  BY DEF QuickZap
<1> HIDE DEF answers
<1>4. Same(s, t) /\ t \in InputStates
  <2>1. s.rc.socket \o answers \in Seq(RcMessage)
    <3>1. s.rc.socket \in Seq(RcMessage)
      BY <1>1 DEF RcState
    <3> QED
      BY <1>2, <3>1, ConcatProperties
  <2> QED
    BY <1>1, <2>1 DEF Same, InputStates, RcState
<1>5. m \in RcMessage
  BY DEF RcMessage, Plain
<1> HIDE DEF t, m
<1>6. u \in InputStates
  <2>1. t.rc \in RcState /\ t.rc.high \in Seq(RcMessage)
    BY <1>4 DEF InputStates, RcState
  <2>2. Written(t.rc.high, m) \in Seq(RcMessage)
    BY <1>5, <2>1, PlainWritten
  <2> QED
    BY <1>4, <2>1, <2>2 DEF postMsg, InputStates, RcState
<1>7. Continues(s, u) /\ u.rc.high = <<m>>
  <2>1. Continues(s, t) /\ t.rc.high = <<>>
    BY <1>4, ContinuesItself
  <2>2. Continues(t, u) /\ u.rc.high = Written(t.rc.high, m)
    BY <1>4, PostContinues
  <2> QED
    BY <2>1, <2>2, ContinuesOn, FirstWritten
<1> HIDE DEF u
<1>8. Continues(u, clearRCMsg(u)) /\ clearRCMsg(u).rc.high = <<m>>
  BY <1>6, <1>7, ClearContinues
<1>9. Len(<<m>>) <= 1
  OBVIOUS
<1> QED
  BY <1>3, <1>7, <1>8, <1>9, ContinuesOn

LEMMA MainKeyContinues ==
    ASSUME NEW s, Good(s), s.rc.high = <<>>, NEW code \in Codes
    PROVE  Continues(s, MainKey(s, code)) /\ Len(MainKey(s, code).rc.high) <= 1
<1> DEFINE box == [s EXCEPT !.gui.kind = "box", !.gui.end = BoxTime]
<1>1. s \in InputStates /\ s.gui \in GuiState
  BY GoodParts DEF Good
<1>2. Len(<<>>) <= 1
  OBVIOUS
<1>3. CASE s.gui.standby \/ code = "home"
  <2>1. MainKey(s, code) = s
    BY <1>3 DEF MainKey
  <2> QED
    BY <1>2, <2>1 DEF Continues
<1>4. CASE ~s.gui.standby /\ code = "page_up"
  BY <1>4, ZapContinues DEF MainKey
<1>5. CASE ~s.gui.standby /\ code = "record"
  <2>1. MainKey(s, code) = box
    BY <1>5 DEF MainKey
  <2>2. Same(s, box)
    BY <1>1 DEF Same, InputStates
  <2> QED
    BY <1>2, <2>1, <2>2, ContinuesItself
<1> QED
  BY <1>3, <1>4, <1>5 DEF Codes

\* A message handed back to the pipe.
LEMMA PostMoves ==
    ASSUME NEW s, Good(s), s.rc.high = <<>>, NEW m \in RcMessage,
           m.press # 0 => Taken(s.rc, s.keys, m.press)
    PROVE  Moves(s, postMsg(s, m), m.press) /\ Moves(s, Close(postMsg(s, m)), m.press)
<1> DEFINE t == postMsg(s, m)
<1>1. Good(t)
  BY Posted DEF NoKey
<1>2. s \in InputStates /\ t \in InputStates
  BY <1>1 DEF Good
<1>3. Continues(s, t) /\ t.rc.high = <<m>>
  BY <1>2, PostContinues, FirstWritten
<1> HIDE DEF t
<1>4. Len(<<m>>) <= 1 /\ DOMAIN <<m>> = {1} /\ <<m>>[1] = m
  OBVIOUS
<1>5. Moves(s, t, m.press)
  BY <1>3, <1>4 DEF Moves, InHigh
<1>6. Same(t, Close(t))
  BY <1>2, SameOf
<1> QED
  BY <1>5, <1>6, MovesOn DEF t

\* A key takes effect, or is handed back.
LEMMA KeyMoves ==
    ASSUME NEW s, Good(s), s.rc.high = <<>>, NEW m \in RcMessage, Taken(s.rc, s.keys, m.press)
    PROVE  Moves(s, HandleKey(s, m), m.press)
<1> DEFINE code == s.keys.code[m.press]
           d == Done(s, m.press)
           k == MainKey(d, code)
<1>1. /\ s.gui.kind \in {"main", "infobar", "box"} /\ code \in Codes
      /\ m.press \in Presses /\ s \in InputStates
  <2>1. m.press \in 1 .. Len(s.keys.code) /\ s.keys.code \in Seq(Codes)
    BY GoodParts DEF Taken, Passed, KeyState
  <2>2. Len(s.keys.code) <= MaxPresses
    BY DEF Good, Queued, DeviceOrdered
  <2>3. m.press \in Presses
    BY <2>1, <2>2, InputAssumption DEF Presses
  <2> QED
    BY <2>1, <2>3, GoodParts DEF GuiState, Good
<1>2. NoKey(s.rc.high)
  BY DEF NoKey
<1>3. /\ Good(d) /\ Continues(s, d) /\ d.rc = s.rc /\ d.keys.handled[m.press] > 0
  BY <1>1, <1>2, KeyDone, DoneContinues
<1> HIDE DEF d
<1>4. Moves(s, d, m.press)
  <2>1. Len(<<>>) <= 1
    OBVIOUS
  <2> QED
    BY <1>3, <2>1 DEF Moves
<1>5. Moves(s, Close(d), m.press)
  BY <1>3, <1>4, SameOf, MovesOn DEF Good
<1>6. Moves(s, k, m.press)
  <2>1. Continues(d, k) /\ Len(k.rc.high) <= 1
    BY <1>1, <1>3, MainKeyContinues
  <2> HIDE DEF k
  <2>2. Continues(s, k)
    BY <1>3, <2>1, ContinuesOn
  <2>3. k.keys.handled[m.press] > 0
    BY <1>1, <1>3, <2>1 DEF Continues
  <2> QED
    BY <2>1, <2>2, <2>3 DEF Moves
<1>7. Moves(s, Close(postMsg(s, m)), m.press)
  BY PostMoves
<1> HIDE DEF k
<1>8. HandleKey(s, m) \in {k, d, Close(d), Close(postMsg(s, m))}
  BY <1>1 DEF HandleKey, d, k
<1> QED
  BY <1>4, <1>5, <1>6, <1>7, <1>8

\* Every message is dealt with.
LEMMA MessageMoves ==
    ASSUME NEW s, Good(s), s.rc.high = <<>>, NEW m \in RcMessage,
           m.press # 0 => Taken(s.rc, s.keys, m.press)
    PROVE  Moves(s, Call(HandleMsg(s, m)), m.press)
<1> SUFFICES Moves(s, HandleMsg(s, m), m.press)
  <2>1. Good(HandleMsg(s, m))
    BY MessageHandled DEF NoKey
  <2>2. Same(HandleMsg(s, m), Call(HandleMsg(s, m)))
    BY <2>1, SameOf DEF Good
  <2> QED
    BY <2>2, MovesOn
<1>1. s.gui.kind \in {"main", "infobar", "box"} /\ s.gui \in GuiState /\ s \in InputStates
  BY GoodParts DEF GuiState, Good
<1>2. CASE m.type = "key"
  <2>1. m.press # 0
    BY <1>2 DEF RcMessage, Presses
  <2> QED
    BY <1>2, <2>1, KeyMoves DEF HandleMsg
<1>3. CASE m.type # "key"
  <2>1. m.press = 0 /\ Len(<<>>) <= 1
    BY <1>3 DEF RcMessage
  <2>2. ASSUME NEW t, Same(s, t) PROVE Moves(s, t, m.press)
    BY <2>1, <2>2, ContinuesItself DEF Moves
  <2>3. \A type : Plain(type).press = 0
    BY DEF Plain
  <2>4. Moves(s, Close(postMsg(s, Plain("SHOW_INFOBAR"))), m.press)
    <3>1. Plain("SHOW_INFOBAR") \in RcMessage
      BY DEF Plain, RcMessage
    <3> QED
      BY <2>1, <2>3, <3>1, PostMoves
  <2>5. CASE m.type = "SHOW_INFOBAR"
    <3>1. Moves(s, s, m.press) /\ Moves(s, ShowTitle(s), m.press)
      BY <1>1, <2>2, SameOf DEF Same
    <3>2. Moves(s, Close(postMsg(s, m)), m.press)
      BY <2>1, PostMoves
    <3> QED
      BY <1>1, <2>5, <3>1, <3>2 DEF HandleMsg, HandleShowInfobar
  <2>6. CASE m.type = "TIMESET"
    <3>1. Moves(s, s, m.press)
      BY <2>2 DEF Same
    <3>2. Moves(s, [s EXCEPT !.gui.end = @ + Stretch], m.press)
      <4>1. Same(s, [s EXCEPT !.gui.end = @ + Stretch])
        BY <1>1 DEF Same, InputStates
      <4> QED
        BY <2>2, <4>1
    <3> QED
      BY <1>1, <2>4, <2>6, <3>1, <3>2 DEF HandleMsg, HandleTimeset
  <2>7. CASE m.type = "STANDBY"
    <3> DEFINE g == [s.gui EXCEPT !.standby = ~@]
               changed == [s EXCEPT !.gui.standby = ~@]
               posted == postMsg(changed, Plain("SHOW_INFOBAR"))
    <3>1. g \in GuiState /\ changed = [s EXCEPT !.gui = g]
      BY <1>1 DEF GuiState, InputStates
    <3>2. Good(changed) /\ Same(s, changed)
      BY <1>1, <3>1, GuiChanges, SameOf
    <3>3. HandleMsg(s, m) = clearRCMsg(IF s.gui.standby THEN posted ELSE changed)
      BY <2>7 DEF HandleMsg, HandleStandby
    <3> HIDE DEF changed
    <3>4. Good(posted)
      BY <3>2, PlainPosted DEF PlainTypes
    <3>5. Continues(s, changed) /\ changed.rc.high = <<>>
      BY <3>2, ContinuesItself
    <3>6. Continues(s, posted) /\ Len(posted.rc.high) <= 1
      <4>1. Continues(changed, posted) /\ posted.rc.high = <<Plain("SHOW_INFOBAR")>>
        BY <3>2, <3>5, PostContinues, FirstWritten DEF Good
      <4>2. Len(<<Plain("SHOW_INFOBAR")>>) <= 1
        OBVIOUS
      <4> QED
        BY <3>5, <4>1, <4>2, ContinuesOn
    <3> HIDE DEF posted
    <3>7. ASSUME NEW u, Good(u), Continues(s, u), Len(u.rc.high) <= 1
          PROVE  Moves(s, clearRCMsg(u), m.press)
      <4>1. Continues(u, clearRCMsg(u)) /\ clearRCMsg(u).rc.high = u.rc.high
        BY <3>7, ClearContinues DEF Good
      <4>2. Continues(s, clearRCMsg(u))
        BY <3>7, <4>1, ContinuesOn
      <4> QED
        BY <2>1, <3>7, <4>1, <4>2 DEF Moves
    <3>8. Len(changed.rc.high) <= 1
      BY <2>1, <3>5
    <3> QED
      BY <3>2, <3>3, <3>4, <3>5, <3>6, <3>7, <3>8
  <2>8. ASSUME NEW type \in PlainTypes, NEW other \in PlainTypes
        PROVE  Same(s, postMsgLow(s, Plain(type))) /\ Same(s, PostTwo(s, type, other))
    <3>1. postMsgLow(s, Plain(type)) \in InputStates
      BY <1>1, PlainPosted DEF Good
    <3> QED
      BY <1>1, <3>1, SameOf, SameTrans DEF PostTwo
  <2>9. CASE m.type = "ZAP_COMPLETE"
    <3>1. HandleMsg(s, m) = PostTwo(s, "ZAP_GOTPIDS", "ZAP_GOTAPIDS")
      BY <2>9 DEF HandleMsg
    <3> QED
      BY <2>2, <2>8, <3>1 DEF PlainTypes
  <2>10. CASE m.type = "CURRENTNEXT"
    <3>1. HandleMsg(s, m) = postMsgLow(s, Plain("CURRENTEPG"))
      BY <2>10 DEF HandleMsg
    <3> QED
      BY <2>2, <2>8, <3>1 DEF PlainTypes
  <2>11. CASE m.type = "CURRENTEPG"
    <3>1. HandleMsg(s, m) = PostTwo(s, "ZAP_GOTAPIDS", "PROGRAMLOCKSTATUS")
      BY <2>11 DEF HandleMsg
    <3> QED
      BY <2>2, <2>8, <3>1 DEF PlainTypes
  <2>12. CASE m.type \in {"ZAP_CA_ID", "ZAP_GOTPIDS", "ZAP_GOTAPIDS", "PROGRAMLOCKSTATUS"}
    <3>1. HandleMsg(s, m) = s
      BY <2>12 DEF HandleMsg
    <3> QED
      BY <2>2, <3>1 DEF Same
  <2>13. m.type \in PlainTypes
    BY <1>3 DEF RcMessage, PlainTypes
  <2> QED
    BY <2>5, <2>6, <2>7, <2>9, <2>10, <2>11, <2>12, <2>13 DEF PlainTypes
<1> QED
  BY <1>2, <1>3

\* Nothing is lost while nothing of this changes, and while a message moves on.
LEMMA SameLosesNone ==
    ASSUME NEW s, NEW t, Same(s, t), NoneLost(s.rc, s.keys)
    PROVE  NoneLost(t.rc, t.keys)
BY DEF Same, NoneLost, Begins, Settled, InHigh

LEMMA MovesLoseNone ==
    ASSUME NEW s, Good(s), NEW t, Begins(s.rc, s.keys), NEW n, Moves(s, t, n),
           \A j \in 1 .. Len(s.keys.code) : j = n \/ Settled(s.rc, s.keys, j)
    PROVE  NoneLost(t.rc, t.keys)
<1>1. Continues(s, t) /\ Len(t.rc.high) <= 1
  BY DEF Moves
<1>2. Begins(t.rc, t.keys)
  <2>1. CASE t.rc.device = s.rc.device /\ t.rc.last = s.rc.last
    BY <1>1, <2>1 DEF Begins, Continues
  <2>2. CASE t.rc.device = <<>> /\ t.rc.last = "none"
    BY <2>2 DEF Begins
  <2> QED
    BY <1>1, <2>1, <2>2 DEF Continues
<1>3. ASSUME NEW j \in 1 .. Len(t.keys.code) PROVE Settled(t.rc, t.keys, j) \/ InHigh(t.rc, j)
  <2>1. j \in 1 .. Len(s.keys.code) /\ j # 0
    BY <1>1, <1>3 DEF Continues
  <2>2. j \in Presses
    <3>1. Queued(s.rc, s.keys)
      BY GoodParts
    <3>2. Len(s.keys.code) \in Nat /\ Len(s.keys.code) <= MaxPresses
      BY <3>1 DEF Queued, DeviceOrdered, KeyState
    <3> QED
      BY <2>1, <3>2, PressesCount DEF Presses
  <2>3. CASE j = n
    BY <2>1, <2>3 DEF Moves, Settled
  <2>4. CASE Settled(s.rc, s.keys, j)
    BY <1>1, <2>2, <2>4 DEF Settled, Continues
  <2> QED
    BY <2>1, <2>3, <2>4
<1> QED
  BY <1>1, <1>2, <1>3 DEF NoneLost

LEMMA BecomesNoneLost ==
    ASSUME NEW s, NoneLost(s.rc, s.keys), InputBecomes(s)
    PROVE  NoneLost(rc, keys)'
BY DEF InputBecomes

LEMMA OneMessage ==
    ASSUME NEW q \in Seq(RcMessage), q # <<>>, Len(q) <= 1
    PROVE  Len(q) = 1 /\ DOMAIN q = {1} /\ Head(q) = q[1] /\ Tail(q) = <<>>
<1>1. Len(q) \in Nat \ {0}
  BY EmptySeq
<1>2. Len(q) = 1
  BY <1>1
<1>3. Tail(q) \in Seq(RcMessage) /\ Len(Tail(q)) = 0
  BY <1>2, HeadTailProperties
<1>4. Tail(q) = <<>>
  BY <1>3, EmptySeq
<1> QED
  BY <1>2, <1>4

LEMMA HighLosesNone ==
    ASSUME IInv, NoneLost(rc, keys), ReadHigh
    PROVE  NoneLost(rc, keys)'
<1> DEFINE m == Head(rc.high)
           t == [InputState EXCEPT !.rc.high = Tail(@)]
<1>1. InputBecomes(Call(HandleMsg(t, m)))
  BY DEF ReadHigh
<1>2. /\ Good(t) /\ t.keys = keys /\ m \in RcMessage /\ t.rc = [rc EXCEPT !.high = Tail(@)]
      /\ m.press # 0 => Taken(t.rc, t.keys, m.press)
  BY HighTaken DEF ReadHigh
<1>3. rc \in RcState
  BY StateIsGood, GoodParts
<1>4. Len(rc.high) = 1 /\ DOMAIN rc.high = {1} /\ m = rc.high[1] /\ Tail(rc.high) = <<>>
  <2>1. rc.high \in Seq(RcMessage) /\ rc.high # <<>> /\ Len(rc.high) <= 1
    BY <1>3 DEF ReadHigh, NoneLost, RcState
  <2> QED
    BY <2>1, OneMessage
<1>5. t.rc.high = <<>> /\ t.rc.device = rc.device /\ t.rc.last = rc.last
  BY <1>2, <1>3, <1>4 DEF RcState
<1> HIDE DEF t, m
<1>6. Moves(t, Call(HandleMsg(t, m)), m.press)
  BY <1>2, <1>5, MessageMoves
<1>7. Begins(t.rc, t.keys)
  BY <1>2, <1>5 DEF NoneLost, Begins
<1>8. \A j \in 1 .. Len(t.keys.code) : j = m.press \/ Settled(t.rc, t.keys, j)
  BY <1>2, <1>4, <1>5 DEF NoneLost, Settled, InHigh
<1> QED
  BY <1>1, <1>2, <1>6, <1>7, <1>8, MovesLoseNone, BecomesNoneLost

\* A message that is no key is handled while the pipe is empty.
LEMMA PlainLosesNone ==
    ASSUME NEW s, Good(s), s.rc.high = <<>>, NEW m \in RcMessage, m.press = 0,
           NoneLost(s.rc, s.keys), InputBecomes(Call(HandleMsg(s, m)))
    PROVE  NoneLost(rc, keys)'
<1>1. Moves(s, Call(HandleMsg(s, m)), m.press)
  BY MessageMoves
<1>2. DOMAIN s.rc.high = {}
  OBVIOUS
<1>3. Begins(s.rc, s.keys) /\ \A j \in 1 .. Len(s.keys.code) : Settled(s.rc, s.keys, j)
  BY <1>2 DEF NoneLost, InHigh
<1> QED
  BY <1>1, <1>3, MovesLoseNone, BecomesNoneLost

LEMMA OthersLoseNone ==
    ASSUME IInv, NoneLost(rc, keys), ReadSocket \/ ReadLow
    PROVE  NoneLost(rc, keys)'
<1>1. InputState \in InputStates /\ InputState.rc = rc /\ InputState.keys = keys
  BY StateIsGood DEF Good
<1>2. CASE ReadSocket
  <2> DEFINE t == [InputState EXCEPT !.rc.socket = Tail(@)]
             m == Head(rc.socket)
  <2>1. m \in RcMessage /\ m.press = 0 /\ Good(t)
    BY <1>2, OthersRead, StateIsGood DEF ReadSocket
  <2>2. Same(InputState, t)
    BY <1>1 DEF Same, InputStates, RcState
  <2>3. InputBecomes(Call(HandleMsg(t, m))) /\ rc.high = <<>>
    BY <1>2 DEF ReadSocket
  <2> HIDE DEF t, m
  <2>4. NoneLost(t.rc, t.keys) /\ t.rc.high = <<>>
    BY <1>1, <2>2, <2>3, SameLosesNone DEF Same
  <2> QED
    BY <2>1, <2>3, <2>4, PlainLosesNone
<1>3. CASE ReadLow
  <2> DEFINE t == [InputState EXCEPT !.rc.low = Tail(@)]
             m == Head(rc.low)
  <2>1. m \in RcMessage /\ m.press = 0 /\ Good(t)
    BY <1>3, OthersRead, StateIsGood DEF ReadLow
  <2>2. Same(InputState, t)
    BY <1>1 DEF Same, InputStates, RcState
  <2>3. InputBecomes(Call(HandleMsg(t, m))) /\ rc.high = <<>>
    BY <1>3 DEF ReadLow
  <2> HIDE DEF t, m
  <2>4. NoneLost(t.rc, t.keys) /\ t.rc.high = <<>>
    BY <1>1, <2>2, <2>3, SameLosesNone DEF Same
  <2> QED
    BY <2>1, <2>3, <2>4, PlainLosesNone
<1> QED
  BY <1>2, <1>3

\* The first event of a press is accepted; what is left in the device begins well.
LEMMA KeysLoseNone ==
    ASSUME IInv, NoneLost(rc, keys), ReadKey
    PROVE  NoneLost(rc, keys)'
<1> DEFINE ev   == Head(rc.device)
           code == keys.code[ev.press]
           t    == [InputState EXCEPT !.rc.device = Tail(@), !.rc.last = LastKey(ev, code)]
           m    == [type |-> "key", press |-> ev.press]
           n    == Len(rc.device)
<1>1. /\ Good(t) /\ t.keys = keys /\ t.rc.high = <<>> /\ ev.press \in Presses
      /\ t.rc.device = Tail(rc.device) /\ t.rc.last = LastKey(ev, code)
      /\ ev.value # "up" /\ (code # rc.last \/ code \in Repeatable)
            => Taken(t.rc, t.keys, ev.press)
  BY KeyTaken DEF ReadKey
<1>2. PICK ok \in Accepted(ev, code) :
         InputBecomes(IF ok THEN Call(HandleMsg(t, m)) ELSE Ignored(t))
  BY DEF ReadKey
<1>3. m \in RcMessage /\ m.press = ev.press
  BY <1>1 DEF RcMessage
<1> HIDE DEF t, m
<1>4. rc \in RcState /\ keys \in KeyState /\ rc.high = <<>> /\ rc.device # <<>> /\ Queued(rc, keys)
  BY StateIsGood, GoodParts DEF ReadKey
<1>5. /\ n \in Nat /\ n >= 1 /\ DOMAIN rc.device = 1 .. n /\ ev = rc.device[1]
      /\ ev \in RcEvent /\ DOMAIN t.rc.device = 1 .. n - 1 /\ Len(t.rc.device) = n - 1
      /\ \A i \in 1 .. n - 1 : t.rc.device[i] = rc.device[i + 1]
  <2>1. t.rc.device = Tail(rc.device)
    BY <1>1
  <2>2. rc.device \in Seq(RcEvent)
    BY <1>4 DEF RcState
  <2> QED
    BY <1>4, <2>1, <2>2, QueueTail
<1> HIDE DEF n
<1>6. code \in Codes
  <2> DEFINE p == ev.press
  <2>1. p \in Presses /\ keys.code \in Seq(Codes)
    BY <1>1, <1>4 DEF KeyState
  <2>2. p <= Len(keys.code)
    <3>1. 1 \in DOMAIN rc.device
      BY <1>5
    <3>2. ev = rc.device[1] /\ Queued(rc, keys)
      BY <1>4, <1>5
    <3> HIDE DEF ev
    <3> QED
      BY <3>1, <3>2, NonePressedLater
  <2> HIDE DEF ev, p
  <2>3. p \in 1 .. Len(keys.code)
    BY <2>1, <2>2, PressesCount
  <2> QED
    BY <2>1, <2>3 DEF p
<1>7. ev.value = "down" => rc.last = "none"
  <2>1. 1 \in DOMAIN rc.device /\ ev = rc.device[1]
    BY <1>5
  <2> HIDE DEF ev
  <2> QED
    BY <2>1 DEF NoneLost, Begins
<1>8. /\ ok => ev.value # "up" /\ (code # rc.last \/ code \in Repeatable)
      /\ ~ok => ev.value # "down"
  <2>1. code # "none"
    BY <1>6 DEF Codes
  <2> QED
    BY <1>2, <1>7, <2>1 DEF Accepted
<1>9. t.rc.last = IF ev.value = "up" THEN "none" ELSE code
  BY <1>1 DEF LastKey
<1> HIDE DEF ev, code
<1>10. Begins(t.rc, t.keys)
  <2>1. ASSUME NEW i \in 1 .. n - 1, t.rc.device[i].value = "down"
        PROVE  IF i = 1 THEN t.rc.last = "none" ELSE t.rc.device[i - 1].value = "up"
    <3>1. i + 1 \in 1 .. n /\ rc.device[i + 1].value = "down" /\ i + 1 # 1 /\ (i + 1) - 1 = i
      <4>1. i + 1 \in 1 .. n /\ i + 1 # 1 /\ (i + 1) - 1 = i
        BY <1>5
      <4>2. rc.device[i + 1].value = "down"
        BY <1>5, <2>1
      <4> QED
        BY <4>1, <4>2
    <3>2. rc.device[i].value = "up"
      BY <1>5, <3>1 DEF NoneLost, Begins
    <3>3. CASE i = 1
      BY <1>5, <1>9, <3>2, <3>3
    <3>4. CASE i # 1
      <4>1. i - 1 \in 1 .. n - 1 /\ (i - 1) + 1 = i
        BY <1>5, <3>4
      <4> QED
        BY <1>5, <3>2, <3>4, <4>1
    <3> QED
      BY <3>3, <3>4
  <2>2. ASSUME keys.held = 0
        PROVE  IF t.rc.device = <<>> THEN t.rc.last = "none"
                                     ELSE t.rc.device[Len(t.rc.device)].value = "up"
    <3>1. rc.device[n].value = "up"
      BY <1>4, <2>2 DEF NoneLost, Begins, n
    <3>2. CASE n = 1
      BY <1>5, <1>9, <3>1, <3>2
    <3>3. CASE n # 1
      <4>1. n - 1 \in 1 .. n - 1 /\ (n - 1) + 1 = n
        BY <1>5, <3>3
      <4> QED
        BY <1>5, <3>1, <4>1
    <3>4. n = 1 <=> t.rc.device = <<>>
      <4>1. t.rc.device \in Seq(RcEvent)
        BY <1>1, GoodParts DEF RcState
      <4>2. Len(t.rc.device) = 0 <=> t.rc.device = <<>>
        BY <4>1
      <4> QED
        BY <1>5, <4>2
    <3> QED
      BY <3>2, <3>3, <3>4
  <2> QED
    BY <1>1, <1>5, <2>1, <2>2 DEF Begins
<1>11. ASSUME NEW j \in 1 .. Len(keys.code)
       PROVE  (ev.value = "down" /\ j = ev.press) \/ Settled(t.rc, t.keys, j)
  <2>1. Settled(rc, keys, j)
    BY <1>4 DEF NoneLost, InHigh
  <2>2. CASE keys.handled[j] > 0 \/ j \in keys.cleared
    BY <1>1, <2>2 DEF Settled
  <2>3. ASSUME NEW i \in DOMAIN rc.device, rc.device[i].press = j, rc.device[i].value = "down"
        PROVE  (ev.value = "down" /\ j = ev.press) \/ Settled(t.rc, t.keys, j)
    <3>1. CASE i = 1
      BY <1>5, <2>3, <3>1
    <3>2. CASE i # 1
      <4>1. i - 1 \in 1 .. n - 1 /\ (i - 1) + 1 = i
        BY <1>5, <3>2
      <4>2. t.rc.device[i - 1] = rc.device[i]
        BY <1>5, <4>1
      <4> QED
        BY <1>5, <2>3, <4>1, <4>2 DEF Settled
    <3> QED
      BY <3>1, <3>2
  <2> QED
    BY <2>1, <2>2, <2>3 DEF Settled
<1>12. CASE ok
  <2>1. Moves(t, Call(HandleMsg(t, m)), m.press)
    BY <1>1, <1>3, <1>8, <1>12, MessageMoves
  <2> QED
    BY <1>1, <1>2, <1>3, <1>10, <1>11, <1>12, <2>1, MovesLoseNone, BecomesNoneLost
<1>13. CASE ~ok
  <2>1. NoneLost(t.rc, t.keys)
    <3>1. \A j \in 1 .. Len(t.keys.code) : Settled(t.rc, t.keys, j)
      BY <1>1, <1>8, <1>11, <1>13
    <3>2. Len(t.rc.high) <= 1
      BY <1>1
    <3> QED
      BY <1>10, <3>1, <3>2 DEF NoneLost
  <2>2. InputBecomes(Ignored(t)) /\ t \in InputStates
    BY <1>1, <1>2, <1>13 DEF Good
  <2>3. CASE t.rc.low # <<>>
    <3> DEFINE u == [t EXCEPT !.rc.low = Tail(@)]
               l == Head(t.rc.low)
    <3>1. Ignored(t) = Call(HandleMsg(u, l))
      BY <2>3 DEF Ignored
    <3>2. l \in RcMessage /\ l.press = 0 /\ Good(u)
      BY <1>1, <2>3, OthersRead
    <3>3. Same(t, u)
      BY <2>2 DEF Same, InputStates, RcState
    <3> HIDE DEF u, l
    <3>4. NoneLost(u.rc, u.keys) /\ u.rc.high = <<>>
      BY <1>1, <2>1, <3>3, SameLosesNone DEF Same
    <3> QED
      BY <2>2, <3>1, <3>2, <3>4, PlainLosesNone
  <2>4. CASE t.rc.low = <<>>
    <3>1. Ignored(t) = Recalculated(t)
      BY <2>4 DEF Ignored
    <3>2. Same(t, Recalculated(t))
      <4>1. CASE t.gui.kind = "main"
        BY <4>1 DEF Recalculated, Same
      <4>2. CASE t.gui.kind # "main" /\ t.gui.timeout <= t.gui.spent
        <5>1. Recalculated(t) = Call(Close(t))
          BY <2>2, <4>2 DEF Recalculated, InputStates, GuiState
        <5>2. Close(t) \in InputStates
          BY <1>1, Closed DEF Good
        <5> QED
          BY <2>2, <5>1, <5>2, SameOf, SameTrans
      <4>3. CASE t.gui.kind # "main" /\ t.gui.timeout > t.gui.spent
        <5>1. Recalculated(t) = [t EXCEPT !.gui.timeout = @ - t.gui.spent, !.gui.slept = 0,
                                          !.gui.ignored = TRUE]
          BY <2>2, <4>3 DEF Recalculated, InputStates, GuiState
        <5> QED
          BY <2>2, <5>1 DEF Same, InputStates
      <4>4. t.gui.timeout \in Nat /\ t.gui.spent \in Nat
        BY <2>2 DEF InputStates, GuiState
      <4> QED
        BY <4>1, <4>2, <4>3, <4>4
    <3> QED
      BY <2>1, <2>2, <3>1, <3>2, SameLosesNone, BecomesNoneLost
  <2> QED
    BY <2>3, <2>4
<1> QED
  BY <1>12, <1>13

\* The windows' timers and time limits have no part in it.
LEMMA TimeLosesNone ==
    ASSUME IInv, NoneLost(rc, keys), CheckTimers \/ TimeOut \/ Sleep
    PROVE  NoneLost(rc, keys)'
<1>1. InputState \in InputStates /\ InputState.rc = rc /\ InputState.keys = keys /\ rc \in RcState
      /\ Good(InputState) /\ keys \in KeyState
  BY StateIsGood, GoodParts DEF Good
<1>2. CASE CheckTimers
  <2> DEFINE t == [InputState EXCEPT !.rc.timers = checkTimers(@)]
  <2>1. InputBecomes(Call(t))
    BY <1>2 DEF CheckTimers
  <2>2. Same(InputState, t)
    BY <1>1 DEF Same, InputStates, RcState
  <2>3. Same(t, Call(t))
    BY DEF Same, Call
  <2> QED
    BY <1>1, <2>1, <2>2, <2>3, SameTrans, SameLosesNone, BecomesNoneLost
<1>3. CASE TimeOut
  <2> DEFINE t == Close(InputState)
  <2>1. InputBecomes(Call(t))
    BY <1>3 DEF TimeOut
  <2>2. Good(t)
    BY <1>1, Closed
  <2>3. Same(InputState, t) /\ Same(t, Call(t))
    BY <1>1, <2>2, SameOf DEF Good
  <2> QED
    BY <1>1, <2>1, <2>3, SameTrans, SameLosesNone, BecomesNoneLost
<1>4. CASE Sleep
  <2> DEFINE ts == [i \in DOMAIN rc.timers |-> [rc.timers[i] EXCEPT !.left = @ - 1]]
  <2>1. rc' = [rc EXCEPT !.timers = ts]
    BY <1>4 DEF Sleep
  <2> HIDE DEF ts
  <2>2. rc'.device = rc.device /\ rc'.high = rc.high /\ rc'.last = rc.last
    BY <1>1, <2>1 DEF RcState
  <2>3. /\ keys'.code = keys.code /\ keys'.held = keys.held
        /\ keys'.cleared = keys.cleared /\ keys'.handled = keys.handled
    BY <1>1, <1>4 DEF Sleep, KeyState
  <2> QED
    BY <2>2, <2>3 DEF NoneLost, Begins, Settled, InHigh
<1> QED
  BY <1>2, <1>3, <1>4

\* A new event: the first of a press comes after the release of the one before.
LEMMA UserLosesNone ==
    ASSUME IInv, NoneLost(rc, keys), (\E code \in Codes : Press(code)) \/ Repeat \/ Release
    PROVE  NoneLost(rc, keys)'
<1> DEFINE n == Len(rc.device)
<1>1. rc \in RcState /\ keys \in KeyState /\ Queued(rc, keys)
  BY StateIsGood, GoodParts
<1>2. n \in Nat /\ DOMAIN rc.device = 1 .. n /\ (rc.device = <<>> <=> n = 0)
      /\ keys.code \in Seq(Codes) /\ rc.device \in Seq(RcEvent)
  BY <1>1 DEF RcState, KeyState
<1> HIDE DEF n
<1>3. ASSUME NEW e \in RcEvent, rc' = [rc EXCEPT !.device = Append(@, e)],
             keys'.handled = keys.handled, keys'.cleared = keys.cleared,
             e.value = "down" => keys.held = 0,
             keys'.held = 0 => e.value = "up",
             \A j \in 1 .. Len(keys'.code) :
                j \in 1 .. Len(keys.code) \/ (j = e.press /\ e.value = "down")
      PROVE  NoneLost(rc, keys)'
  <2>1. /\ rc'.device = Append(rc.device, e) /\ rc'.high = rc.high /\ rc'.last = rc.last
    BY <1>1, <1>3 DEF RcState
  <2>2. /\ DOMAIN rc'.device = 1 .. n + 1 /\ Len(rc'.device) = n + 1
        /\ \A i \in 1 .. n : rc'.device[i] = rc.device[i]
        /\ rc'.device[n + 1] = e /\ rc'.device # <<>>
    BY <1>2, <2>1, AppendProperties DEF n
  <2>3. ASSUME NEW i \in 1 .. n + 1, rc'.device[i].value = "down"
        PROVE  IF i = 1 THEN rc'.last = "none" ELSE rc'.device[i - 1].value = "up"
    <3>1. CASE i = n + 1
      <4>1. keys.held = 0
        BY <1>3, <2>2, <2>3, <3>1
      <4>2. CASE n = 0
        BY <1>2, <2>1, <3>1, <4>1, <4>2 DEF NoneLost, Begins
      <4>3. CASE n # 0
        <5>1. rc.device[n].value = "up"
          BY <1>2, <4>1, <4>3 DEF NoneLost, Begins, n
        <5>2. i # 1 /\ i - 1 = n /\ n \in 1 .. n
          BY <1>2, <3>1, <4>3
        <5> QED
          BY <2>2, <5>1, <5>2
      <4> QED
        BY <4>2, <4>3
    <3>2. CASE i # n + 1
      <4>1. i \in 1 .. n
        BY <1>2, <3>2
      <4>2. rc.device[i].value = "down"
        BY <2>2, <2>3, <4>1
      <4>3. CASE i = 1
        BY <1>2, <2>1, <4>1, <4>2, <4>3 DEF NoneLost, Begins
      <4>4. CASE i # 1
        <5>1. i - 1 \in 1 .. n
          BY <1>2, <4>1, <4>4
        <5>2. rc.device[i - 1].value = "up"
          BY <1>2, <4>1, <4>2, <4>4 DEF NoneLost, Begins
        <5> QED
          BY <2>2, <4>4, <5>1, <5>2
      <4> QED
        BY <4>3, <4>4
    <3> QED
      BY <3>1, <3>2
  <2>4. Begins(rc', keys')
    BY <1>3, <2>2, <2>3 DEF Begins
  <2>5. ASSUME NEW j \in 1 .. Len(keys'.code)
        PROVE  Settled(rc', keys', j) \/ InHigh(rc', j)
    <3>1. CASE j \in 1 .. Len(keys.code)
      <4>1. Settled(rc, keys, j) \/ InHigh(rc, j)
        BY <3>1 DEF NoneLost
      <4>2. n + 1 \in Nat /\ \A i \in 1 .. n : i \in 1 .. n + 1
        BY <1>2
      <4> QED
        BY <1>2, <1>3, <2>1, <2>2, <4>1, <4>2 DEF Settled, InHigh
    <3>2. CASE j = e.press /\ e.value = "down"
      <4>1. n + 1 \in 1 .. n + 1
        BY <1>2
      <4> QED
        BY <2>2, <3>2, <4>1 DEF Settled
    <3> QED
      BY <1>3, <3>1, <3>2
  <2> QED
    BY <2>1, <2>4, <2>5 DEF NoneLost
<1>4. ASSUME NEW code \in Codes, Press(code) PROVE NoneLost(rc, keys)'
  <2> DEFINE p == Len(keys.code) + 1
             e == Event(p, "down")
  <2>1. p \in Presses
    <3>1. Len(keys.code) < MaxPresses /\ Len(keys.code) \in Nat /\ MaxPresses \in Nat
      <4>1. Len(keys.code) \in Nat
        BY <1>2
      <4> QED
        BY <1>4, <4>1, InputAssumption DEF Press
    <3> QED
      BY <3>1 DEF Presses
  <2>2. e \in RcEvent /\ e.press = p /\ e.value = "down"
    BY <2>1 DEF Event, RcEvent
  <2>3. keys' = [keys EXCEPT !.held = p, !.code = Append(@, code)]
        /\ rc' = [rc EXCEPT !.device = Append(@, e)] /\ keys.held = 0
    BY <1>4 DEF Press
  <2>4. /\ keys'.handled = keys.handled /\ keys'.cleared = keys.cleared
        /\ keys'.held = p /\ keys'.code = Append(keys.code, code)
    BY <1>1, <2>3 DEF KeyState
  <2>5. Len(keys'.code) = p
    BY <1>2, <2>4, AppendProperties
  <2>6. p # 0 /\ \A j \in 1 .. p : j \in 1 .. Len(keys.code) \/ j = p
    BY <1>2
  <2> HIDE DEF p, e
  <2> QED
    BY <1>3, <2>2, <2>3, <2>4, <2>5, <2>6
<1>5. CASE Repeat
  <2> DEFINE e == Event(keys.held, "repeat")
  <2>1. e \in RcEvent /\ e.value = "repeat" /\ keys.held # 0
    BY <1>1, <1>5 DEF Repeat, KeyState, Event, RcEvent
  <2>2. /\ keys'.handled = keys.handled /\ keys'.cleared = keys.cleared
        /\ keys'.code = keys.code /\ keys'.held = keys.held
    BY <1>1, <1>5 DEF Repeat, KeyState
  <2>3. rc' = [rc EXCEPT !.device = Append(@, e)]
    BY <1>5 DEF Repeat
  <2> HIDE DEF e
  <2> QED
    BY <1>3, <2>1, <2>2, <2>3
<1>6. CASE Release
  <2> DEFINE e == Event(keys.held, "up")
  <2>1. e \in RcEvent /\ e.value = "up"
    BY <1>1, <1>6 DEF Release, KeyState, Event, RcEvent
  <2>2. /\ keys'.handled = keys.handled /\ keys'.cleared = keys.cleared
        /\ keys'.code = keys.code
    BY <1>1, <1>6 DEF Release, KeyState
  <2>3. rc' = [rc EXCEPT !.device = Append(@, e)]
    BY <1>6 DEF Release
  <2> HIDE DEF e
  <2> QED
    BY <1>3, <2>1, <2>2, <2>3
<1> QED
  BY <1>4, <1>5, <1>6

LEMMA StepLosesNone ==
    ASSUME IInv, NoneLost(rc, keys), [InputNext]_inputVars
    PROVE  NoneLost(rc, keys)'
<1>1. CASE UNCHANGED inputVars
  BY <1>1 DEF inputVars
<1>2. ASSUME NEW type \in {"TIMESET", "CURRENTNEXT", "STANDBY"}, Send(type)
      PROVE  NoneLost(rc, keys)'
  <2>1. rc \in RcState /\ keys' = keys
    BY <1>2, StateIsGood, GoodParts DEF Send
  <2>2. rc'.device = rc.device /\ rc'.high = rc.high /\ rc'.last = rc.last
    BY <1>2, <2>1 DEF Send, RcState
  <2> QED
    BY <2>1, <2>2 DEF NoneLost, Begins, Settled, InHigh
<1> QED
  BY <1>1, <1>2, HighLosesNone, OthersLoseNone, KeysLoseNone, TimeLosesNone, UserLosesNone
  DEF InputNext, GetMsg

LEMMA InitLosesNone == ASSUME InputInit PROVE NoneLost(rc, keys)
<1>1. /\ rc.device = <<>> /\ rc.last = "none" /\ rc.high = <<Plain("SHOW_INFOBAR")>>
      /\ keys.code = <<>>
  BY DEF InputInit
<1> QED
  BY <1>1 DEF NoneLost, Begins

-----------------------------------------------------------------------------
(* The GUI thread does not fill its own queues: what waits is worth so many     *)
(* messages of low priority, and no answer is worth more than its message.      *)

\* How many elements of a sequence are in S.
Count(q, S) == Cardinality({i \in DOMAIN q : q[i] \in S})

LEMMA CountEmpty == ASSUME NEW S PROVE Count(<<>>, S) = 0
<1>1. {i \in DOMAIN <<>> : <<>>[i] \in S} = {}
  OBVIOUS
<1> QED
  BY <1>1, FS_EmptySet DEF Count

LEMMA CountAppend ==
    ASSUME NEW A, NEW q \in Seq(A), NEW e \in A, NEW S
    PROVE  /\ Count(q, S) \in Nat
           /\ Count(Append(q, e), S) = Count(q, S) + (IF e \in S THEN 1 ELSE 0)
<1> DEFINE n == Len(q)
           old == {i \in DOMAIN q : q[i] \in S}
           u == Append(q, e)
           new == {i \in DOMAIN u : u[i] \in S}
<1>1. n \in Nat /\ DOMAIN q = 1 .. n /\ DOMAIN u = 1 .. n + 1 /\ u[n + 1] = e
      /\ \A i \in 1 .. n : u[i] = q[i]
  OBVIOUS
<1>2. Count(q, S) = Cardinality(old) /\ Count(u, S) = Cardinality(new)
  BY DEF Count
<1> HIDE DEF n, u
<1>3. IsFiniteSet(old) /\ Cardinality(old) \in Nat
  <2>1. old \subseteq 1 .. n /\ IsFiniteSet(1 .. n)
    BY <1>1, FS_Interval
  <2> QED
    BY <2>1, FS_Subset, FS_CardinalityType
<1>4. n + 1 \notin old
  BY <1>1
<1>5. CASE e \in S
  <2>1. new = old \cup {n + 1}
    BY <1>1, <1>5
  <2> QED
    <3> HIDE DEF old, new
    <3>1. Cardinality(new) = Cardinality(old) + 1
      BY <1>3, <1>4, <2>1, FS_AddElement
    <3> QED
      BY <1>3, <1>5, <1>2, <3>1 DEF u
<1>6. CASE e \notin S
  <2>1. new = old
    BY <1>1, <1>6
  <2> HIDE DEF old, new
  <2> QED
    BY <1>3, <1>6, <1>2, <2>1 DEF u
<1> QED
  BY <1>5, <1>6

LEMMA CountTail ==
    ASSUME NEW A, NEW q \in Seq(A), q # <<>>, NEW S
    PROVE  /\ Count(q, S) \in Nat /\ Count(Tail(q), S) \in Nat
           /\ Count(Tail(q), S) = Count(q, S) - (IF Head(q) \in S THEN 1 ELSE 0)
<1> DEFINE n == Len(q)
           u == Tail(q)
           old == {i \in DOMAIN q : q[i] \in S}
           rest == old \ {1}
           new == {i \in DOMAIN u : u[i] \in S}
           f == [i \in new |-> i + 1]
<1>1. /\ n \in Nat /\ n >= 1 /\ DOMAIN q = 1 .. n /\ DOMAIN u = 1 .. n - 1 /\ Head(q) = q[1]
      /\ \A i \in 1 .. n - 1 : u[i] = q[i + 1]
  OBVIOUS
<1>2. Count(q, S) = Cardinality(old) /\ Count(u, S) = Cardinality(new)
  BY DEF Count
<1> HIDE DEF n, u
<1>3. IsFiniteSet(old) /\ Cardinality(old) \in Nat
  <2>1. old \subseteq 1 .. n /\ IsFiniteSet(1 .. n)
    BY <1>1, FS_Interval
  <2> QED
    BY <2>1, FS_Subset, FS_CardinalityType
<1>4. IsFiniteSet(rest)
      /\ Cardinality(rest) = Cardinality(old) - (IF Head(q) \in S THEN 1 ELSE 0)
  <2>1. 1 \in old <=> Head(q) \in S
    BY <1>1
  <2>2. /\ IsFiniteSet(rest)
        /\ Cardinality(rest) = IF 1 \in old THEN Cardinality(old) - 1 ELSE Cardinality(old)
    <3> HIDE DEF old
    <3> QED
      BY <1>3, FS_RemoveElement
  <2> HIDE DEF old, rest
  <2> QED
    BY <1>3, <2>1, <2>2
<1>5. IsFiniteSet(new)
  <2>1. new \subseteq 1 .. n - 1 /\ IsFiniteSet(1 .. n - 1)
    BY <1>1, FS_Interval
  <2> QED
    BY <2>1, FS_Subset
<1>6. f \in Bijection(new, rest)
  <2>1. f \in [new -> rest]
    BY <1>1
  <2>2. \A i, j \in new : f[i] = f[j] => i = j
    BY <1>1
  <2>3. ASSUME NEW j \in rest PROVE \E i \in new : f[i] = j
    <3>1. j - 1 \in new /\ f[j - 1] = j
      BY <1>1
    <3> QED
      BY <3>1
  <2> HIDE DEF f, new, rest
  <2> QED
    BY <2>1, <2>2, <2>3 DEF Bijection, Injection, Surjection, IsInjective
<1>7. Cardinality(rest) = Cardinality(new)
  <2> HIDE DEF f, new, rest
  <2>1. ExistsBijection(new, rest)
    BY <1>6 DEF ExistsBijection
  <2> QED
    BY <1>5, <2>1, FS_Bijection
<1>8. Cardinality(new) \in Nat
  BY <1>5, FS_CardinalityType
<1> QED
  BY <1>3, <1>4, <1>7, <1>8, <1>2 DEF u

\* The messages that are answered by two or by one message with two answers, and those
\* that are answered by none.
Of(types) == {m \in RcMessage : m.type \in types}
Double == Of({"ZAP_COMPLETE", "CURRENTNEXT", "CURRENTEPG", "key"})
Single == Of({"ZAP_GOTPIDS", "ZAP_GOTAPIDS", "PROGRAMLOCKSTATUS"})
Zaps   == Of(OwnTypes)

\* How many messages of low priority are still to come of a message, of a queue, and of all.
Worth(m) == IF m \in Double THEN 2 ELSE IF m \in Single THEN 1 ELSE 0

Load(q) == 2 * Count(q, Double) + Count(q, Single)

Downs == {ev \in RcEvent : ev.value # "up"}

Weight(r) == Load(r.high) + Load(r.socket) + Load(r.low) + 2 * Count(r.device, Downs)

LowOnly(q) == \A i \in DOMAIN q : q[i] \in Double \cup Single

LEMMA Exclusive == Double \cap Single = {}
BY DEF Double, Single, Of

LEMMA LoadEmpty == Load(<<>>) = 0
BY CountEmpty DEF Load

LEMMA LoadWritten ==
    ASSUME NEW q \in Seq(RcMessage), NEW m \in RcMessage
    PROVE  /\ Load(q) \in Nat /\ Load(Written(q, m)) \in Nat
           /\ Load(Written(q, m)) <= Load(q) + Worth(m) /\ Worth(m) \in 0 .. 2
           /\ LowOnly(q) /\ Worth(m) > 0 => LowOnly(Written(q, m))
<1> DEFINE u == Append(q, m)
<1>1. /\ Count(q, Double) \in Nat /\ Count(q, Single) \in Nat
      /\ Count(u, Double) = Count(q, Double) + (IF m \in Double THEN 1 ELSE 0)
      /\ Count(u, Single) = Count(q, Single) + (IF m \in Single THEN 1 ELSE 0)
  BY CountAppend
<1>2. Load(q) \in Nat /\ Load(u) = Load(q) + Worth(m)
  BY <1>1, Exclusive DEF Load, Worth
<1>3. Worth(m) \in 0 .. 2
  BY DEF Worth
<1>4. ASSUME LowOnly(q), Worth(m) > 0 PROVE LowOnly(u)
  <2>1. m \in Double \cup Single
    BY <1>4 DEF Worth
  <2> QED
    BY <1>4, <2>1 DEF LowOnly
<1> HIDE DEF u
<1>5. Written(q, m) \in {q, u}
  BY DEF Written, u
<1> QED
  BY <1>2, <1>3, <1>4, <1>5

LEMMA LoadTail ==
    ASSUME NEW q \in Seq(RcMessage), q # <<>>
    PROVE  /\ Load(q) \in Nat /\ Load(Tail(q)) \in Nat
           /\ Load(Tail(q)) = Load(q) - Worth(Head(q))
           /\ LowOnly(q) => LowOnly(Tail(q))
<1>1. /\ Count(q, Double) \in Nat /\ Count(q, Single) \in Nat
      /\ Count(Tail(q), Double) \in Nat /\ Count(Tail(q), Single) \in Nat
      /\ Count(Tail(q), Double) = Count(q, Double) - (IF Head(q) \in Double THEN 1 ELSE 0)
      /\ Count(Tail(q), Single) = Count(q, Single) - (IF Head(q) \in Single THEN 1 ELSE 0)
  BY CountTail
<1>2. LowOnly(q) => LowOnly(Tail(q))
  BY DEF LowOnly
<1> DEFINE h == Head(q)
           u == Tail(q)
<1>3. /\ Count(q, Double) \in Nat /\ Count(q, Single) \in Nat
      /\ Count(u, Double) \in Nat /\ Count(u, Single) \in Nat
      /\ Count(u, Double) = Count(q, Double) - (IF h \in Double THEN 1 ELSE 0)
      /\ Count(u, Single) = Count(q, Single) - (IF h \in Single THEN 1 ELSE 0)
  BY <1>1
<1> HIDE DEF h, u
<1>4. Load(q) \in Nat /\ Load(u) \in Nat /\ Load(u) = Load(q) - Worth(h)
  BY <1>3, Exclusive DEF Load, Worth
<1> QED
  BY <1>2, <1>4 DEF h, u

\* Each message of the pipe of low priority counts.
LEMMA LowBounded ==
    ASSUME NEW q \in Seq(RcMessage), LowOnly(q)
    PROVE  Len(q) <= Load(q)
<1> DEFINE n == Len(q)
           D == {i \in DOMAIN q : q[i] \in Double}
           S == {i \in DOMAIN q : q[i] \in Single}
<1>1. n \in Nat /\ DOMAIN q = 1 .. n /\ IsFiniteSet(1 .. n) /\ Cardinality(1 .. n) = n
  <2>1. n \in Nat /\ DOMAIN q = 1 .. n
    OBVIOUS
  <2> HIDE DEF n
  <2> QED
    BY <2>1, FS_Interval
<1>2. D \subseteq 1 .. n /\ S \subseteq 1 .. n /\ D \cup S = 1 .. n
  BY <1>1 DEF LowOnly
<1>3. Load(q) = 2 * Cardinality(D) + Cardinality(S)
  BY DEF Load, Count
<1> HIDE DEF D, S, n
<1>4. /\ IsFiniteSet(D) /\ IsFiniteSet(S) /\ IsFiniteSet(D \cap S)
      /\ Cardinality(D) \in Nat /\ Cardinality(S) \in Nat /\ Cardinality(D \cap S) \in Nat
  <2>1. IsFiniteSet(D) /\ IsFiniteSet(S)
    BY <1>1, <1>2, FS_Subset
  <2>2. IsFiniteSet(D \cap S)
    BY <2>1, FS_Subset
  <2> QED
    BY <2>1, <2>2, FS_CardinalityType
<1>5. n = Cardinality(D) + Cardinality(S) - Cardinality(D \cap S)
  BY <1>1, <1>2, <1>4, FS_Union
<1>6. n <= Load(q)
  <2>1. Cardinality(D \cap S) >= 0 /\ Cardinality(D) >= 0 /\ n \in Nat
    BY <1>1, <1>4
  <2> QED
    BY <1>3, <1>4, <1>5, <2>1
<1> QED
  BY <1>6 DEF n

LEMMA WeightType ==
    ASSUME NEW r \in RcState
    PROVE  /\ Weight(r) \in Nat /\ Load(r.high) \in Nat /\ Load(r.socket) \in Nat
           /\ Load(r.low) \in Nat /\ Count(r.device, Downs) \in Nat
<1>1. /\ r.high \in Seq(RcMessage) /\ r.socket \in Seq(RcMessage) /\ r.low \in Seq(RcMessage)
      /\ r.device \in Seq(RcEvent) /\ Plain("STANDBY") \in RcMessage
  BY DEF RcState, RcMessage, Plain
<1>2. Load(r.high) \in Nat /\ Load(r.socket) \in Nat /\ Load(r.low) \in Nat
  BY <1>1, LoadWritten
<1>3. Count(r.device, Downs) \in Nat
  <2>1. CASE r.device = <<>>
    BY <2>1, CountEmpty
  <2>2. CASE r.device # <<>>
    BY <1>1, <2>2, CountTail
  <2> QED
    BY <2>1, <2>2
<1> QED
  BY <1>2, <1>3 DEF Weight

\* A step of a handler adds at most so much, and leaves the socket alone.
Adds(s, t, d) ==
    /\ t.keys.code = s.keys.code /\ t.keys.repeated = s.keys.repeated
    /\ t.rc.socket = s.rc.socket
    /\ Weight(t.rc) <= Weight(s.rc) + d
    /\ LowOnly(s.rc.low) => LowOnly(t.rc.low)

LEMMA AddsOn ==
    ASSUME NEW s, NEW t, NEW u, s.rc \in RcState, t.rc \in RcState, u.rc \in RcState,
           NEW d \in Int, NEW e \in Int, Adds(s, t, d), Adds(t, u, e)
    PROVE  Adds(s, u, d + e)
<1>1. Weight(s.rc) \in Nat /\ Weight(t.rc) \in Nat /\ Weight(u.rc) \in Nat
  BY WeightType
<1> QED
  BY <1>1 DEF Adds

\* A window that opens, closes or calls changes no queue.
Alike(s, t) ==
    /\ t.keys.code = s.keys.code /\ t.keys.repeated = s.keys.repeated
    /\ t.rc.high = s.rc.high /\ t.rc.socket = s.rc.socket /\ t.rc.low = s.rc.low
    /\ t.rc.device = s.rc.device

LEMMA AlikeAdds ==
    ASSUME NEW s, s.rc \in RcState, NEW t, Alike(s, t)
    PROVE  Adds(s, t, 0)
<1>1. Weight(t.rc) = Weight(s.rc) /\ Weight(s.rc) \in Nat
  BY WeightType DEF Alike, Weight
<1> QED
  BY <1>1 DEF Alike, Adds

LEMMA AlikeOf ==
    ASSUME NEW s \in InputStates
    PROVE  /\ Alike(s, Call(s)) /\ Alike(s, Close(s)) /\ Alike(s, ShowTitle(s))
           /\ \A g : Alike(s, [s EXCEPT !.gui = g])
           /\ \A n : Alike(s, Done(s, n))
<1>1. s.rc \in RcState /\ s.keys \in KeyState
  BY DEF InputStates
<1> QED
  BY <1>1 DEF Alike, Call, Close, ShowTitle, Done, InputStates, RcState, KeyState

LEMMA PostAdds ==
    ASSUME NEW s \in InputStates, NEW m \in RcMessage
    PROVE  /\ Adds(s, postMsg(s, m), Worth(m))
           /\ Worth(m) > 0 => Adds(s, postMsgLow(s, m), Worth(m))
<1> DEFINE t == postMsg(s, m)
           u == postMsgLow(s, m)
<1>1. /\ s.rc \in RcState /\ s.keys \in KeyState
      /\ s.rc.high \in Seq(RcMessage) /\ s.rc.low \in Seq(RcMessage)
  BY DEF InputStates, RcState
<1>2. /\ t.keys = s.keys /\ t.rc.socket = s.rc.socket /\ t.rc.low = s.rc.low
      /\ t.rc.device = s.rc.device /\ t.rc.high = Written(s.rc.high, m)
  BY <1>1 DEF postMsg, InputStates, RcState
<1>3. /\ u.keys = s.keys /\ u.rc.socket = s.rc.socket /\ u.rc.high = s.rc.high
      /\ u.rc.device = s.rc.device /\ u.rc.low = Written(s.rc.low, m)
  BY <1>1 DEF postMsgLow, InputStates, RcState
<1>4. /\ Load(s.rc.high) \in Nat /\ Load(s.rc.socket) \in Nat
      /\ Load(s.rc.low) \in Nat /\ Count(s.rc.device, Downs) \in Nat
  BY <1>1, WeightType
<1>5. /\ Load(t.rc.high) \in Nat /\ Load(t.rc.high) <= Load(s.rc.high) + Worth(m)
      /\ Load(u.rc.low) \in Nat /\ Load(u.rc.low) <= Load(s.rc.low) + Worth(m)
      /\ LowOnly(s.rc.low) /\ Worth(m) > 0 => LowOnly(u.rc.low)
      /\ Worth(m) \in 0 .. 2
  BY <1>1, <1>2, <1>3, LoadWritten
<1> HIDE DEF t, u
<1>6. Weight(t.rc) <= Weight(s.rc) + Worth(m)
  BY <1>2, <1>4, <1>5 DEF Weight
<1>7. Weight(u.rc) <= Weight(s.rc) + Worth(m)
  BY <1>3, <1>4, <1>5 DEF Weight
<1>8. Adds(s, t, Worth(m))
  BY <1>2, <1>6 DEF Adds
<1>9. Worth(m) > 0 => Adds(s, u, Worth(m))
  BY <1>3, <1>5, <1>7 DEF Adds
<1> QED
  BY <1>8, <1>9 DEF t, u

LEMMA ClearAdds ==
    ASSUME NEW s \in InputStates
    PROVE  Adds(s, clearRCMsg(s), 0)
<1> DEFINE t == clearRCMsg(s)
<1>1. s.rc \in RcState /\ s.keys \in KeyState
  BY DEF InputStates
<1>2. /\ t.rc.device = <<>> /\ t.rc.high = s.rc.high /\ t.rc.low = s.rc.low
      /\ t.rc.socket = s.rc.socket
      /\ t.keys.code = s.keys.code /\ t.keys.repeated = s.keys.repeated
  BY <1>1 DEF clearRCMsg, InputStates, RcState, KeyState
<1> HIDE DEF t
<1>3. Weight(t.rc) <= Weight(s.rc)
  BY <1>1, <1>2, WeightType, CountEmpty DEF Weight
<1>4. Weight(s.rc) \in Nat
  BY <1>1, WeightType
<1>5. Adds(s, t, 0)
  <2>1. Weight(s.rc) + 0 = Weight(s.rc)
    BY <1>4
  <2> QED
    BY <1>2, <1>3, <2>1 DEF Adds
<1> QED
  BY <1>5 DEF t

\* The pipe of high priority holds a key that was handed back.
KeyWaits(q) == \E i \in DOMAIN q : q[i].press # 0

\* A message is answered: what may still come has not become more, and no zap is added to
\* another in the socket.
Fits(s, t, d) ==
    /\ t.keys.code = s.keys.code /\ t.keys.repeated = s.keys.repeated
    /\ Weight(t.rc) <= Weight(s.rc) + d
    /\ LowOnly(t.rc.low)
    /\ Count(t.rc.socket, Zaps) <= 2
    /\ KeyWaits(t.rc.high) => Count(t.rc.socket, Zaps) = 0

\* What is in the state in which a message is answered.
Ready(s, m) ==
    /\ Good(s) /\ s.rc.high = <<>> /\ LowOnly(s.rc.low)
    /\ Count(s.rc.socket, Zaps) <= 2
    /\ m.press # 0 => Taken(s.rc, s.keys, m.press) /\ Count(s.rc.socket, Zaps) = 0

\* An answer that leaves the socket alone fits.
LEMMA AddsFits ==
    ASSUME NEW s, NEW m, Ready(s, m), NEW t, NEW d \in Int, Adds(s, t, d),
           m.press = 0 => ~KeyWaits(t.rc.high)
    PROVE  Fits(s, t, d)
BY DEF Ready, Adds, Fits

LEMMA WorthOf ==
    /\ \A n \in Presses : Worth([type |-> "key", press |-> n]) = 2
    /\ Worth(Plain("SHOW_INFOBAR")) = 0 /\ Worth(Plain("ZAP_CA_ID")) = 0
    /\ Worth(Plain("TIMESET")) = 0 /\ Worth(Plain("STANDBY")) = 0
    /\ Worth(Plain("ZAP_COMPLETE")) = 2 /\ Worth(Plain("CURRENTNEXT")) = 2
    /\ Worth(Plain("CURRENTEPG")) = 2
    /\ Worth(Plain("ZAP_GOTPIDS")) = 1 /\ Worth(Plain("ZAP_GOTAPIDS")) = 1
    /\ Worth(Plain("PROGRAMLOCKSTATUS")) = 1
BY DEF Worth, Double, Single, Of, RcMessage, Plain

LEMMA PlainOnly ==
    ASSUME NEW m \in RcMessage, m.type # "key"
    PROVE  m = Plain(m.type) /\ m.press = 0
BY DEF RcMessage, Plain

\* A zap: the two messages that it puts into the socket.
LEMMA ZapFits ==
    ASSUME NEW s, Good(s), s.rc.high = <<>>, LowOnly(s.rc.low), Count(s.rc.socket, Zaps) = 0
    PROVE  Fits(s, QuickZap(s), 2)
<1> DEFINE a == Plain("ZAP_CA_ID")
           b == Plain("ZAP_COMPLETE")
           q == s.rc.socket
           t == [s EXCEPT !.rc.socket = @ \o <<a, b>>]
           m == Plain("SHOW_INFOBAR")
           u == postMsg(t, m)
           v == clearRCMsg(u)
<1>1. s \in InputStates /\ s.rc \in RcState
  BY GoodParts DEF Good
<1>2. /\ q \in Seq(RcMessage) /\ a \in RcMessage /\ b \in RcMessage /\ m \in RcMessage
      /\ m.press = 0
  BY <1>1 DEF RcState, RcMessage, Plain
<1>3. QuickZap(s) = v
  BY DEF QuickZap
<1>4. /\ Append(q, a) \in Seq(RcMessage) /\ q \o <<a, b>> = Append(Append(q, a), b)
      /\ q \o <<a, b>> \in Seq(RcMessage)
  BY <1>2
<1>5. t.rc = [s.rc EXCEPT !.socket = q \o <<a, b>>] /\ t.keys = s.keys
  BY <1>1 DEF InputStates, RcState
<1>6. t \in InputStates /\ t.rc \in RcState
  BY <1>1, <1>4 DEF InputStates, RcState
<1>7. a \in Zaps /\ b \in Zaps /\ a \notin Double /\ a \notin Single /\ b \in Double /\ b \notin Single
  BY DEF Zaps, Double, Single, Of, OwnTypes, RcMessage, Plain
<1>8. t.rc.socket = q \o <<a, b>> /\ t.rc.high = <<>> /\ t.rc.low = s.rc.low
      /\ t.rc.device = s.rc.device
  <2> DEFINE w == q \o <<a, b>>
             z == s.rc
  <2>1. t.rc = [z EXCEPT !.socket = w] /\ z \in RcState /\ z.high = <<>>
    BY <1>1, <1>5
  <2> HIDE DEF t, w, z
  <2>2. t.rc.socket = w /\ t.rc.high = <<>> /\ t.rc.low = z.low /\ t.rc.device = z.device
    BY <2>1 DEF RcState
  <2> QED
    BY <2>2 DEF w, z
<1> HIDE DEF a, b, t, m
<1>9. /\ Count(q \o <<a, b>>, Zaps) = 2
      /\ Load(q) \in Nat /\ Load(q \o <<a, b>>) = Load(q) + 2
  <2>1. \A S : /\ Count(q, S) \in Nat
               /\ Count(Append(q, a), S) = Count(q, S) + (IF a \in S THEN 1 ELSE 0)
    BY <1>2, CountAppend
  <2>2. \A S : Count(q \o <<a, b>>, S) = Count(Append(q, a), S) + (IF b \in S THEN 1 ELSE 0)
    <3> DEFINE w == Append(q, a)
    <3>1. w \in Seq(RcMessage) /\ q \o <<a, b>> = Append(w, b)
      BY <1>4
    <3> HIDE DEF w
    <3>2. \A S : Count(Append(w, b), S) = Count(w, S) + (IF b \in S THEN 1 ELSE 0)
      BY <1>2, <3>1, CountAppend
    <3> QED
      BY <3>1, <3>2 DEF w
  <2> HIDE DEF q
  <2>3. Count(q \o <<a, b>>, Zaps) = 2
    BY <1>7, <2>1, <2>2 DEF q
  <2>4. Count(q \o <<a, b>>, Double) = Count(q, Double) + 1
    BY <1>7, <2>1, <2>2
  <2>5. Count(q \o <<a, b>>, Single) = Count(q, Single)
    BY <1>7, <2>1, <2>2
  <2>6. Count(q, Double) \in Nat /\ Count(q, Single) \in Nat
    BY <2>1
  <2> QED
    BY <2>3, <2>4, <2>5, <2>6 DEF Load
<1>10. Weight(t.rc) = Weight(s.rc) + 2 /\ Weight(s.rc) \in Nat
  <2>1. /\ Load(s.rc.high) \in Nat /\ Load(s.rc.socket) \in Nat /\ Load(s.rc.low) \in Nat
        /\ Count(s.rc.device, Downs) \in Nat /\ Weight(s.rc) \in Nat
    BY <1>1, WeightType
  <2>2. Load(t.rc.socket) = Load(s.rc.socket) + 2 /\ t.rc.high = s.rc.high
    BY <1>8, <1>9
  <2> QED
    BY <1>8, <2>1, <2>2 DEF Weight
<1>11. Adds(t, u, 0) /\ u.rc.high = <<m>> /\ u \in InputStates
  <2>1. Adds(t, u, 0)
    BY <1>2, <1>6, PostAdds, WorthOf DEF m
  <2>2. u.rc.high = <<m>>
    BY <1>6, <1>8, PostContinues, FirstWritten
  <2>3. Written(<<>>, m) \in Seq(RcMessage)
    <3>1. <<m>> \in Seq(RcMessage)
      BY <1>2
    <3> QED
      BY <3>1, FirstWritten
  <2>4. u \in InputStates
    BY <1>6, <1>8, <2>3 DEF postMsg, InputStates, RcState
  <2> QED
    BY <2>1, <2>2, <2>4
<1> HIDE DEF u
<1>12. Adds(u, v, 0) /\ v.rc.high = <<m>>
  BY <1>11, ClearAdds, ClearContinues
<1>13. v.rc \in RcState
  BY <1>3, Zapped, GoodParts
<1> HIDE DEF v
<1>14. Adds(t, v, 0)
  <2>1. u.rc \in RcState
    BY <1>11 DEF InputStates
  <2>2. Adds(t, v, 0 + 0)
    BY <1>6, <1>11, <1>12, <1>13, <2>1, AddsOn
  <2> QED
    BY <2>2
<1>15. ~KeyWaits(v.rc.high)
  <2>1. DOMAIN <<m>> = {1} /\ <<m>>[1] = m
    OBVIOUS
  <2> QED
    BY <1>2, <1>12, <2>1 DEF KeyWaits
<1>16. Weight(v.rc) \in Nat /\ Weight(t.rc) \in Nat
  BY <1>6, <1>13, WeightType
<1>17. Weight(v.rc) <= Weight(s.rc) + 2
  BY <1>10, <1>14, <1>16 DEF Adds
<1> QED
  BY <1>3, <1>5, <1>8, <1>9, <1>14, <1>15, <1>17 DEF Fits, Adds

LEMMA AddsMore ==
    ASSUME NEW s, s.rc \in RcState, NEW t, t.rc \in RcState, NEW d \in Int, NEW e \in Int,
           d <= e, Adds(s, t, d)
    PROVE  Adds(s, t, e)
<1>1. Weight(s.rc) \in Nat /\ Weight(t.rc) \in Nat
  BY WeightType
<1> QED
  BY <1>1 DEF Adds

LEMMA FitsAlike ==
    ASSUME NEW s, NEW t, NEW u, NEW d, Fits(s, t, d), Alike(t, u)
    PROVE  Fits(s, u, d)
BY DEF Fits, Alike, Weight

LEMMA AlikeFits ==
    ASSUME NEW s, NEW t, NEW u, NEW d, Alike(s, t), Fits(t, u, d)
    PROVE  Fits(s, u, d)
<1>1. Weight(t.rc) = Weight(s.rc)
  BY DEF Alike, Weight
<1> QED
  BY <1>1 DEF Fits, Alike

LEMMA MainKeyFits ==
    ASSUME NEW s, Good(s), s.rc.high = <<>>, LowOnly(s.rc.low), Count(s.rc.socket, Zaps) = 0,
           NEW code \in Codes
    PROVE  Fits(s, MainKey(s, code), 2)
<1> DEFINE box == [s EXCEPT !.gui.kind = "box", !.gui.end = BoxTime]
<1>1. s \in InputStates /\ s.rc \in RcState /\ Weight(s.rc) \in Nat
  BY GoodParts, WeightType DEF Good
<1>2. Fits(s, s, 2)
  <2>1. Weight(s.rc) <= Weight(s.rc) + 2
    BY <1>1
  <2>2. ~KeyWaits(s.rc.high)
    BY DEF KeyWaits
  <2> QED
    BY <2>1, <2>2 DEF Fits
<1>3. CASE s.gui.standby \/ code = "home"
  <2>1. MainKey(s, code) = s
    BY <1>3 DEF MainKey
  <2> QED
    BY <1>2, <2>1
<1>4. CASE ~s.gui.standby /\ code = "page_up"
  <2>1. MainKey(s, code) = QuickZap(s)
    BY <1>4 DEF MainKey
  <2> QED
    BY <2>1, ZapFits
<1>5. CASE ~s.gui.standby /\ code = "record"
  <2>1. MainKey(s, code) = box
    BY <1>5 DEF MainKey
  <2>2. Alike(s, box)
    BY <1>1 DEF Alike, InputStates
  <2> QED
    BY <1>2, <2>1, <2>2, FitsAlike
<1> QED
  BY <1>3, <1>4, <1>5 DEF Codes

LEMMA KeyFits ==
    ASSUME NEW s, NEW m \in RcMessage, Ready(s, m), m.type = "key"
    PROVE  Fits(s, HandleKey(s, m), 2)
<1> DEFINE code == s.keys.code[m.press]
           d == Done(s, m.press)
           k == MainKey(d, code)
           p == postMsg(s, m)
<1>1. /\ s.gui.kind \in {"main", "infobar", "box"} /\ code \in Codes
      /\ m.press \in Presses /\ m.press # 0 /\ s \in InputStates /\ s.rc \in RcState
      /\ Taken(s.rc, s.keys, m.press) /\ Count(s.rc.socket, Zaps) = 0
  <2>1. m.press \in Presses /\ m.press # 0
    BY DEF RcMessage, Presses
  <2>2. Taken(s.rc, s.keys, m.press) /\ Count(s.rc.socket, Zaps) = 0 /\ Good(s)
    BY <2>1 DEF Ready
  <2>3. m.press \in 1 .. Len(s.keys.code) /\ s.keys.code \in Seq(Codes)
    BY <2>2, GoodParts DEF Taken, Passed, KeyState
  <2> QED
    BY <2>1, <2>2, <2>3, GoodParts DEF GuiState, Good
<1>2. Good(s) /\ s.rc.high = <<>> /\ NoKey(s.rc.high) /\ LowOnly(s.rc.low)
  BY DEF Ready, NoKey
<1>3. Good(d) /\ d.rc = s.rc /\ Alike(s, d) /\ d \in InputStates
  BY <1>1, <1>2, KeyDone, DoneContinues, AlikeOf DEF Good
<1> HIDE DEF d
<1>4. Fits(s, k, 2)
  <2>1. Fits(d, k, 2)
    BY <1>1, <1>2, <1>3, MainKeyFits
  <2> HIDE DEF k
  <2> QED
    BY <1>3, <2>1, AlikeFits
<1>5. Fits(s, d, 2) /\ Fits(s, Close(d), 2)
  <2>1. Adds(s, d, 0)
    BY <1>1, <1>3, AlikeAdds
  <2>2. Adds(s, d, 2)
    BY <1>1, <1>3, <2>1, AddsMore
  <2>3. Fits(s, d, 2)
    BY <1>1, <2>2, AddsFits
  <2> QED
    BY <1>3, <2>3, AlikeOf, FitsAlike
<1>6. Fits(s, Close(p), 2)
  <2>1. m = [type |-> "key", press |-> m.press]
    BY DEF RcMessage
  <2>2. Worth(m) = 2
    BY <1>1, <2>1, WorthOf
  <2>3. Adds(s, p, 2)
    BY <1>1, <2>2, PostAdds
  <2>4. Good(p)
    BY <1>1, <1>2, Posted
  <2> HIDE DEF p
  <2>5. Fits(s, p, 2)
    BY <1>1, <2>3, AddsFits
  <2> QED
    BY <2>4, <2>5, AlikeOf, FitsAlike DEF Good
<1> HIDE DEF k
<1>7. HandleKey(s, m) \in {k, d, Close(d), Close(p)}
  BY <1>1 DEF HandleKey, d, k
<1> QED
  BY <1>4, <1>5, <1>6, <1>7

\* The answer to a message is not worth more than the message.
LEMMA MessageFits ==
    ASSUME NEW s, NEW m \in RcMessage, Ready(s, m)
    PROVE  Fits(s, Call(HandleMsg(s, m)), Worth(m))
<1>1. Good(s) /\ s.rc.high = <<>> /\ NoKey(s.rc.high)
  BY DEF Ready, NoKey
<1> SUFFICES Fits(s, HandleMsg(s, m), Worth(m))
  <2>1. Good(HandleMsg(s, m))
    BY <1>1, MessageHandled DEF Ready
  <2>2. Alike(HandleMsg(s, m), Call(HandleMsg(s, m)))
    BY <2>1, AlikeOf DEF Good
  <2> QED
    BY <2>2, FitsAlike
<1>2. /\ s.gui.kind \in {"main", "infobar", "box"} /\ s.gui \in GuiState
      /\ s \in InputStates /\ s.rc \in RcState
  BY <1>1, GoodParts DEF GuiState, Good
<1>3. CASE m.type = "key"
  <2>1. Worth(m) = 2
    <3>1. m = [type |-> "key", press |-> m.press] /\ m.press \in Presses
      BY <1>3 DEF RcMessage
    <3> QED
      BY <3>1, WorthOf
  <2>2. HandleMsg(s, m) = HandleKey(s, m)
    BY <1>3 DEF HandleMsg
  <2> QED
    BY <1>3, <2>1, <2>2, KeyFits
<1>4. CASE m.type # "key"
  <2>1. m = Plain(m.type) /\ m.press = 0 /\ m.type \in PlainTypes
    BY <1>4, PlainOnly DEF RcMessage, PlainTypes
  <2>2. Worth(m) \in Nat
    BY DEF Worth
  <2>3. ASSUME NEW t, t.rc \in RcState, Adds(s, t, 0), ~KeyWaits(t.rc.high)
        PROVE  Fits(s, t, Worth(m))
    BY <1>2, <2>2, <2>3, AddsMore, AddsFits
  <2>4. \A t : Alike(s, t) /\ t.rc \in RcState => Fits(s, t, Worth(m))
    <3> TAKE t
    <3>1. Alike(s, t) => ~KeyWaits(t.rc.high)
      BY <1>1 DEF Alike, KeyWaits
    <3> QED
      BY <1>2, <2>3, <3>1, AlikeAdds
  <2>5. Fits(s, s, Worth(m))
    BY <1>2, <2>4 DEF Alike
  <2>6. ASSUME NEW t, Good(t), Alike(s, t)
        PROVE  LET p == postMsg(t, Plain("SHOW_INFOBAR"))
               IN  Adds(s, p, 0) /\ ~KeyWaits(p.rc.high) /\ Good(p)
    <3> DEFINE i == Plain("SHOW_INFOBAR")
               p == postMsg(t, i)
    <3>1. i \in RcMessage /\ i.press = 0 /\ Worth(i) = 0
      BY WorthOf DEF Plain, RcMessage
    <3>2. t \in InputStates /\ t.rc \in RcState /\ t.rc.high = <<>>
      BY <1>1, <2>6, GoodParts DEF Good, Alike
    <3>3. Good(p)
      BY <2>6, PlainPosted DEF PlainTypes
    <3> HIDE DEF i
    <3>4. Adds(t, p, 0) /\ p.rc.high = <<i>>
      BY <3>1, <3>2, PostAdds, PostContinues, FirstWritten
    <3>5. DOMAIN <<i>> = {1} /\ <<i>>[1] = i
      OBVIOUS
    <3>6. ~KeyWaits(p.rc.high)
      BY <3>1, <3>4, <3>5 DEF KeyWaits
    <3> HIDE DEF p
    <3>7. Adds(s, p, 0)
      <4>1. Adds(s, t, 0) /\ p.rc \in RcState
        BY <1>2, <2>6, <3>3, AlikeAdds, GoodParts
      <4>2. Adds(s, p, 0 + 0)
        BY <1>2, <3>2, <3>4, <4>1, AddsOn
      <4> QED
        BY <4>2
    <3> QED
      BY <3>3, <3>6, <3>7 DEF p, i
  <2>7. Fits(s, Close(postMsg(s, Plain("SHOW_INFOBAR"))), Worth(m))
    <3> DEFINE p == postMsg(s, Plain("SHOW_INFOBAR"))
    <3>1. Adds(s, p, 0) /\ ~KeyWaits(p.rc.high) /\ Good(p)
      BY <1>1, <2>6 DEF Alike
    <3> HIDE DEF p
    <3>2. p.rc \in RcState /\ p \in InputStates
      BY <3>1, GoodParts DEF Good
    <3> QED
      BY <2>3, <3>1, <3>2, AlikeOf, FitsAlike DEF p
  <2>8. CASE m.type = "SHOW_INFOBAR"
    <3>1. Fits(s, ShowTitle(s), Worth(m))
      <4>1. ShowTitle(s).rc \in RcState
        BY <1>1, TitleShown, GoodParts
      <4> QED
        BY <1>2, <2>4, <4>1, AlikeOf
    <3>2. HandleMsg(s, m) = HandleShowInfobar(s, m)
      BY <2>8 DEF HandleMsg
    <3>3. m = Plain("SHOW_INFOBAR")
      BY <2>1, <2>8
    <3> QED
      BY <1>2, <2>5, <2>7, <3>1, <3>2, <3>3 DEF HandleShowInfobar
  <2>9. CASE m.type = "TIMESET"
    <3> DEFINE w == [s EXCEPT !.gui.end = @ + Stretch]
    <3>1. Alike(s, w) /\ w.rc \in RcState
      BY <1>2 DEF Alike, InputStates
    <3>2. Fits(s, w, Worth(m))
      BY <2>4, <3>1
    <3>3. HandleMsg(s, m) = HandleTimeset(s)
      BY <2>9 DEF HandleMsg
    <3> QED
      BY <1>2, <2>5, <2>7, <3>2, <3>3 DEF HandleTimeset
  <2>10. CASE m.type = "STANDBY"
    <3> DEFINE g == [s.gui EXCEPT !.standby = ~@]
               changed == [s EXCEPT !.gui.standby = ~@]
               posted == postMsg(changed, Plain("SHOW_INFOBAR"))
    <3>1. g \in GuiState /\ changed = [s EXCEPT !.gui = g]
      BY <1>2 DEF GuiState, InputStates
    <3>2. Good(changed) /\ Alike(s, changed)
      BY <1>1, <1>2, <3>1, GuiChanges, AlikeOf
    <3>3. HandleMsg(s, m) = clearRCMsg(IF s.gui.standby THEN posted ELSE changed)
      BY <2>10 DEF HandleMsg, HandleStandby
    <3> HIDE DEF changed
    <3>4. Adds(s, changed, 0) /\ ~KeyWaits(changed.rc.high)
      BY <1>1, <1>2, <3>2, AlikeAdds DEF Alike, KeyWaits
    <3>5. Adds(s, posted, 0) /\ ~KeyWaits(posted.rc.high) /\ Good(posted)
      BY <2>6, <3>2
    <3> HIDE DEF posted
    <3>6. ASSUME NEW u, Good(u), Adds(s, u, 0), ~KeyWaits(u.rc.high)
          PROVE  Fits(s, clearRCMsg(u), Worth(m))
      <4> DEFINE v == clearRCMsg(u)
      <4>1. u \in InputStates /\ u.rc \in RcState /\ v.rc \in RcState
        BY <3>6, GoodParts, Cleared DEF Good
      <4>2. Adds(u, v, 0) /\ v.rc.high = u.rc.high
        BY <4>1, ClearAdds, ClearContinues
      <4> HIDE DEF v
      <4>3. Adds(s, v, 0 + 0)
        BY <1>2, <3>6, <4>1, <4>2, AddsOn
      <4>4. Adds(s, v, 0)
        BY <4>3
      <4> QED
        BY <2>3, <3>6, <4>1, <4>2, <4>4 DEF v
    <3> QED
      BY <3>2, <3>3, <3>4, <3>5, <3>6
  <2>11. ASSUME NEW type \in PlainTypes, Worth(Plain(type)) > 0
         PROVE  LET u == postMsgLow(s, Plain(type))
                IN  /\ Adds(s, u, Worth(Plain(type))) /\ Good(u) /\ u.rc.high = <<>>
                    /\ u \in InputStates
    <3>1. Plain(type) \in RcMessage
      BY DEF PlainTypes, Plain, RcMessage
    <3>2. Good(postMsgLow(s, Plain(type)))
      BY <1>1, PlainPosted
    <3>3. postMsgLow(s, Plain(type)).rc.high = s.rc.high
      BY <1>2 DEF postMsgLow, InputStates, RcState
    <3> QED
      BY <1>1, <1>2, <2>11, <3>1, <3>2, <3>3, PostAdds DEF Good
  <2>12. ASSUME NEW type \in PlainTypes, NEW other \in PlainTypes,
                Worth(Plain(type)) = 1, Worth(Plain(other)) = 1, Worth(m) = 2
         PROVE  Fits(s, PostTwo(s, type, other), Worth(m))
    <3> DEFINE u == postMsgLow(s, Plain(type))
               v == postMsgLow(u, Plain(other))
    <3>1. Adds(s, u, 1) /\ Good(u) /\ u.rc.high = <<>> /\ u \in InputStates
      BY <2>11, <2>12
    <3> HIDE DEF u
    <3>2. Plain(other) \in RcMessage
      BY DEF PlainTypes, Plain, RcMessage
    <3>3. Adds(u, v, 1) /\ Good(v) /\ v.rc.high = <<>>
      <4>1. v.rc.high = u.rc.high
        BY <3>1 DEF postMsgLow, InputStates, RcState
      <4> QED
        BY <2>12, <3>1, <3>2, <4>1, PostAdds, PlainPosted
    <3> HIDE DEF v
    <3>4. Adds(s, v, 1 + 1)
      <4>1. u.rc \in RcState /\ v.rc \in RcState
        BY <3>1, <3>3, GoodParts
      <4> QED
        BY <1>2, <3>1, <3>3, <4>1, AddsOn
    <3>5. Adds(s, v, 2) /\ ~KeyWaits(v.rc.high)
      BY <3>3, <3>4 DEF KeyWaits
    <3>6. Fits(s, v, 2)
      BY <3>5, AddsFits
    <3> QED
      BY <2>12, <3>6 DEF PostTwo, u, v
  <2>13. CASE m.type = "ZAP_COMPLETE"
    <3>1. HandleMsg(s, m) = PostTwo(s, "ZAP_GOTPIDS", "ZAP_GOTAPIDS")
      BY <2>13 DEF HandleMsg
    <3>2. Worth(m) = 2
      BY <2>1, <2>13, WorthOf
    <3> QED
      BY <2>12, <3>1, <3>2, WorthOf DEF PlainTypes
  <2>14. CASE m.type = "CURRENTNEXT"
    <3> DEFINE u == postMsgLow(s, Plain("CURRENTEPG"))
    <3>1. HandleMsg(s, m) = u
      BY <2>14 DEF HandleMsg
    <3>2. Worth(m) = 2
      BY <2>1, <2>14, WorthOf
    <3>3. Adds(s, u, 2) /\ u.rc.high = <<>>
      BY <2>11, WorthOf DEF PlainTypes
    <3> HIDE DEF u
    <3>4. ~KeyWaits(u.rc.high)
      BY <3>3 DEF KeyWaits
    <3> QED
      BY <3>1, <3>2, <3>3, <3>4, AddsFits
  <2>15. CASE m.type = "CURRENTEPG"
    <3>1. HandleMsg(s, m) = PostTwo(s, "ZAP_GOTAPIDS", "PROGRAMLOCKSTATUS")
      BY <2>15 DEF HandleMsg
    <3>2. Worth(m) = 2
      BY <2>1, <2>15, WorthOf
    <3> QED
      BY <2>12, <3>1, <3>2, WorthOf DEF PlainTypes
  <2>16. CASE m.type \in {"ZAP_CA_ID", "ZAP_GOTPIDS", "ZAP_GOTAPIDS", "PROGRAMLOCKSTATUS"}
    <3>1. HandleMsg(s, m) = s
      BY <2>16 DEF HandleMsg
    <3> QED
      BY <2>5, <3>1
  <2> QED
    BY <2>1, <2>8, <2>9, <2>10, <2>13, <2>14, <2>15, <2>16 DEF PlainTypes
<1> QED
  BY <1>3, <1>4

\* What the other threads, the user and the kernel may still add before the next sleep.
Left(k, n) == 2 * (Rate - n) + 2 * (MaxPresses - Len(k.code)) + (IF k.repeated THEN 0 ELSE 2)

Limit == 2 * (Rate + MaxPresses + 1)

Few(r, k, n) ==
    /\ n <= Rate
    /\ LowOnly(r.low)
    /\ Count(r.socket, Zaps) <= 2
    /\ KeyWaits(r.high) => Count(r.socket, Zaps) = 0
    /\ Weight(r) + Left(k, n) <= Limit

LEMMA LeftType ==
    ASSUME NEW k \in KeyState, Len(k.code) <= MaxPresses, NEW n \in Nat, n <= Rate
    PROVE  Left(k, n) \in Nat
<1>1. Len(k.code) \in Nat /\ Rate \in Nat /\ MaxPresses \in Nat
  BY InputAssumption DEF KeyState
<1> DEFINE b == IF k.repeated THEN 0 ELSE 2
<1>2. b \in 0 .. 2 /\ Left(k, n) = 2 * (Rate - n) + 2 * (MaxPresses - Len(k.code)) + b
  BY DEF Left
<1> HIDE DEF b
<1>3. Rate - n \in Nat /\ MaxPresses - Len(k.code) \in Nat
  BY <1>1
<1> QED
  BY <1>2, <1>3

LEMMA NowTyped ==
    ASSUME IInv
    PROVE  /\ rc \in RcState /\ gui \in GuiState /\ keys \in KeyState
           /\ Good(InputState) /\ InputState \in InputStates
           /\ InputState.rc = rc /\ InputState.keys = keys
           /\ Len(keys.code) \in Nat /\ Len(keys.code) <= MaxPresses /\ sent \in Nat
           /\ Rate \in Nat /\ MaxPresses \in Nat
<1>1. Queued(rc, keys) /\ keys \in KeyState
  BY StateIsGood, GoodParts
<1>2. Len(keys.code) \in Nat /\ Len(keys.code) <= MaxPresses
  BY <1>1 DEF Queued, DeviceOrdered, KeyState
<1> QED
  BY <1>2, StateIsGood, GoodParts, InputAssumption DEF Good

\* What an answer that fits makes of it.
LEMMA FitsFew ==
    ASSUME IInv, Few(rc, keys, sent), sent' = sent,
           NEW s, s.rc \in RcState, s.keys = keys, NEW d \in Nat, Weight(s.rc) + d <= Weight(rc),
           NEW t, t.rc \in RcState, Fits(s, t, d), InputBecomes(t)
    PROVE  Few(rc, keys, sent)'
<1>1. /\ Weight(s.rc) \in Nat /\ Weight(t.rc) \in Nat /\ Weight(rc) \in Nat
      /\ Left(keys, sent) \in Nat /\ Limit \in Nat
  <2>1. Left(keys, sent) \in Nat
    BY NowTyped, LeftType DEF Few
  <2>2. Limit \in Nat
    BY InputAssumption DEF Limit
  <2> QED
    BY <2>1, <2>2, NowTyped, WeightType
<1>2. Left(t.keys, sent) = Left(keys, sent)
  BY DEF Fits, Left
<1>3. Weight(t.rc) + Left(t.keys, sent) <= Limit
  BY <1>1, <1>2 DEF Few, Fits
<1>4. Few(t.rc, t.keys, sent)
  BY <1>3 DEF Few, Fits
<1> QED
  BY <1>4 DEF InputBecomes

\* Windows and timers have no part in it.
LEMMA AlikeFew ==
    ASSUME Few(rc, keys, sent), sent' = sent, NEW t, Alike(InputState, t), InputBecomes(t)
    PROVE  Few(rc, keys, sent)'
<1>1. Few(t.rc, t.keys, sent)
  BY DEF Few, Left, Alike, Weight, InputState
<1> QED
  BY <1>1 DEF InputBecomes

LEMMA TimeKeepsFew ==
    ASSUME IInv, Few(rc, keys, sent), CheckTimers \/ TimeOut
    PROVE  Few(rc, keys, sent)'
<1>1. CASE CheckTimers
  <2> DEFINE t == [InputState EXCEPT !.rc.timers = checkTimers(@)]
  <2>1. InputBecomes(Call(t)) /\ sent' = sent
    BY <1>1 DEF CheckTimers
  <2>2. Alike(InputState, t)
    BY NowTyped DEF Alike, InputStates, RcState
  <2>3. Alike(InputState, Call(t))
    BY <2>2 DEF Alike, Call
  <2> QED
    BY <2>1, <2>3, AlikeFew
<1>2. CASE TimeOut
  <2> DEFINE t == Close(InputState)
  <2>1. InputBecomes(Call(t)) /\ sent' = sent
    BY <1>2 DEF TimeOut
  <2>2. Alike(InputState, t)
    BY NowTyped, AlikeOf
  <2>3. Alike(t, Call(t))
    BY NowTyped, Closed, AlikeOf DEF Good
  <2>4. Alike(InputState, Call(t))
    BY <2>2, <2>3 DEF Alike
  <2> QED
    BY <2>1, <2>4, AlikeFew
<1> QED
  BY <1>1, <1>2

\* Before the next sleep everything has been taken.
LEMMA SleepKeepsFew ==
    ASSUME IInv, Few(rc, keys, sent), Sleep
    PROVE  Few(rc, keys, sent)'
<1> DEFINE ts == [i \in DOMAIN rc.timers |-> [rc.timers[i] EXCEPT !.left = @ - 1]]
<1>1. rc' = [rc EXCEPT !.timers = ts] /\ sent' = 0
  BY DEF Sleep
<1> HIDE DEF ts
<1>2. rc'.high = <<>> /\ rc'.socket = <<>> /\ rc'.low = <<>> /\ rc'.device = <<>>
  <2>1. rc.high = <<>> /\ rc.socket = <<>> /\ rc.low = <<>> /\ rc.device = <<>>
    BY DEF Sleep, Quiet
  <2>2. /\ rc'.high = rc.high /\ rc'.socket = rc.socket /\ rc'.low = rc.low
        /\ rc'.device = rc.device
    BY <1>1, NowTyped DEF RcState
  <2> QED
    BY <2>1, <2>2
<1>3. keys'.code = keys.code /\ keys'.repeated = FALSE
  <2>1. keys' = [keys EXCEPT !.repeated = FALSE]
    BY DEF Sleep
  <2> QED
    BY <2>1, NowTyped DEF KeyState
<1>4. Weight(rc') = 0
  BY <1>2, LoadEmpty, CountEmpty DEF Weight
<1>5. Left(keys', sent') <= Limit /\ Left(keys', sent') \in Int
  BY <1>1, <1>3, NowTyped DEF Left, Limit
<1>6. Weight(rc') + Left(keys', sent') <= Limit
  BY <1>4, <1>5 DEF Limit
<1>7. LowOnly(rc'.low) /\ ~KeyWaits(rc'.high) /\ Count(rc'.socket, Zaps) = 0
  BY <1>2, CountEmpty DEF LowOnly, KeyWaits
<1>8. sent' <= Rate
  BY <1>1, NowTyped
<1> QED
  BY <1>6, <1>7, <1>8 DEF Few

LEMMA HighKeepsFew ==
    ASSUME IInv, NoneLost(rc, keys), Few(rc, keys, sent), ReadHigh
    PROVE  Few(rc, keys, sent)'
<1> DEFINE m == Head(rc.high)
           t == [InputState EXCEPT !.rc.high = Tail(@)]
           u == Call(HandleMsg(t, m))
<1>1. InputBecomes(u) /\ sent' = sent /\ rc.high # <<>>
  BY DEF ReadHigh
<1>2. /\ Good(t) /\ t.keys = keys /\ m \in RcMessage /\ t.rc = [rc EXCEPT !.high = Tail(@)]
      /\ m.press # 0 => Taken(t.rc, t.keys, m.press) /\ NoKey(t.rc.high)
  BY HighTaken DEF ReadHigh
<1>3. rc.high \in Seq(RcMessage) /\ Len(rc.high) <= 1
  BY NowTyped DEF NoneLost, RcState
<1>4. DOMAIN rc.high = {1} /\ m = rc.high[1] /\ Tail(rc.high) = <<>>
  BY <1>1, <1>3, OneMessage
<1>5. /\ t.rc.high = <<>> /\ t.rc.socket = rc.socket /\ t.rc.low = rc.low
      /\ t.rc.device = rc.device
  <2>1. rc \in RcState
    BY NowTyped
  <2>2. t.rc = [rc EXCEPT !.high = <<>>]
    BY <1>2, <1>4
  <2> HIDE DEF m, t, u
  <2> QED
    BY <2>1, <2>2 DEF RcState
<1>6. /\ Load(rc.high) \in Nat /\ Load(Tail(rc.high)) \in Nat
      /\ Load(Tail(rc.high)) = Load(rc.high) - Worth(m)
  BY <1>1, <1>3, LoadTail
<1> HIDE DEF t, m
<1>7. Weight(t.rc) + Worth(m) <= Weight(rc)
  <2>1. /\ Load(rc.socket) \in Nat /\ Load(rc.low) \in Nat /\ Count(rc.device, Downs) \in Nat
    BY NowTyped, WeightType
  <2>2. Load(t.rc.high) = Load(rc.high) - Worth(m)
    BY <1>4, <1>5, <1>6
  <2>3. Worth(m) \in 0 .. 2
    BY DEF Worth
  <2> QED
    BY <1>5, <1>6, <2>1, <2>2, <2>3 DEF Weight
<1>8. Ready(t, m)
  <2>1. m.press # 0 => KeyWaits(rc.high)
    BY <1>4 DEF KeyWaits
  <2> QED
    BY <1>2, <1>5, <2>1 DEF Ready, Few
<1>9. Fits(t, u, Worth(m)) /\ Worth(m) \in Nat
  BY <1>2, <1>8, MessageFits DEF Worth
<1>10. u.rc \in RcState /\ t.rc \in RcState
  BY <1>2, Answered, GoodParts DEF Answers
<1> HIDE DEF u
<1> QED
  BY <1>1, <1>2, <1>7, <1>9, <1>10, FitsFew

\* A message of the socket or the other pipe.
LEMMA PlainKeepsFew ==
    ASSUME IInv, Few(rc, keys, sent), sent' = sent,
           NEW s, Good(s), s.keys = keys, s.rc.high = <<>>, LowOnly(s.rc.low),
           Count(s.rc.socket, Zaps) <= 2,
           NEW m \in RcMessage, m.press = 0, Weight(s.rc) + Worth(m) <= Weight(rc),
           InputBecomes(Call(HandleMsg(s, m)))
    PROVE  Few(rc, keys, sent)'
<1> DEFINE u == Call(HandleMsg(s, m))
<1>1. Ready(s, m)
  BY DEF Ready
<1>2. Fits(s, u, Worth(m)) /\ Worth(m) \in Nat
  BY <1>1, MessageFits DEF Worth
<1>3. u.rc \in RcState /\ s.rc \in RcState
  BY Answered, GoodParts DEF Answers
<1> HIDE DEF u
<1> QED
  BY <1>2, <1>3, FitsFew DEF u

\* The next message of the pipe of low priority.
LEMMA LowTaken ==
    ASSUME NEW s, Good(s), s.rc.low # <<>>, LowOnly(s.rc.low)
    PROVE  LET t == [s EXCEPT !.rc.low = Tail(@)]
               m == Head(s.rc.low)
           IN  /\ Good(t) /\ t.keys = s.keys /\ t.rc.high = s.rc.high
               /\ t.rc.socket = s.rc.socket /\ LowOnly(t.rc.low)
               /\ m \in RcMessage /\ m.press = 0
               /\ Weight(t.rc) + Worth(m) <= Weight(s.rc)
<1> DEFINE t == [s EXCEPT !.rc.low = Tail(@)]
           m == Head(s.rc.low)
<1>1. m \in RcMessage /\ m.press = 0 /\ Good(t) /\ s \in InputStates /\ s.rc \in RcState
  BY OthersRead, GoodParts DEF Good
<1>2. /\ t.keys = s.keys /\ t.rc.high = s.rc.high /\ t.rc.socket = s.rc.socket
      /\ t.rc.device = s.rc.device /\ t.rc.low = Tail(s.rc.low)
  BY <1>1 DEF InputStates, RcState
<1>3. /\ Load(s.rc.low) \in Nat /\ Load(Tail(s.rc.low)) \in Nat /\ LowOnly(Tail(s.rc.low))
      /\ Load(Tail(s.rc.low)) = Load(s.rc.low) - Worth(m)
  <2>1. s.rc.low \in Seq(RcMessage)
    BY <1>1 DEF RcState
  <2> QED
    BY <2>1, LoadTail
<1>4. Worth(m) \in 0 .. 2
  BY DEF Worth
<1> HIDE DEF t, m
<1>5. Weight(t.rc) + Worth(m) <= Weight(s.rc)
  <2>1. /\ Load(s.rc.high) \in Nat /\ Load(s.rc.socket) \in Nat
        /\ Count(s.rc.device, Downs) \in Nat
    BY <1>1, WeightType
  <2>2. Load(t.rc.low) = Load(s.rc.low) - Worth(m)
    BY <1>2, <1>3
  <2> QED
    BY <1>2, <1>3, <1>4, <2>1, <2>2 DEF Weight
<1> QED
  BY <1>1, <1>2, <1>3, <1>5 DEF t, m

LEMMA OthersKeepFew ==
    ASSUME IInv, Few(rc, keys, sent), ReadSocket \/ ReadLow
    PROVE  Few(rc, keys, sent)'
<1>1. CASE ReadSocket
  <2> DEFINE t == [InputState EXCEPT !.rc.socket = Tail(@)]
             m == Head(rc.socket)
  <2>1. m \in RcMessage /\ m.press = 0 /\ Good(t)
    BY <1>1, OthersRead, NowTyped DEF ReadSocket
  <2>2. /\ t.keys = keys /\ t.rc.high = rc.high /\ t.rc.low = rc.low
        /\ t.rc.device = rc.device /\ t.rc.socket = Tail(rc.socket)
    BY NowTyped DEF InputStates, RcState
  <2>3. InputBecomes(Call(HandleMsg(t, m))) /\ rc.high = <<>> /\ sent' = sent
        /\ rc.socket # <<>>
    BY <1>1 DEF ReadSocket
  <2>4. /\ Load(rc.socket) \in Nat /\ Load(Tail(rc.socket)) \in Nat
        /\ Load(Tail(rc.socket)) = Load(rc.socket) - Worth(m)
        /\ Count(Tail(rc.socket), Zaps) <= 2
    <3>1. rc.socket \in Seq(RcMessage)
      BY NowTyped DEF RcState
    <3>2. /\ Count(rc.socket, Zaps) \in Nat /\ Count(Tail(rc.socket), Zaps) \in Nat
          /\ Count(Tail(rc.socket), Zaps) <= Count(rc.socket, Zaps)
      <4>1. /\ Count(rc.socket, Zaps) \in Nat /\ Count(Tail(rc.socket), Zaps) \in Nat
            /\ Count(Tail(rc.socket), Zaps) = Count(rc.socket, Zaps)
                                              - (IF Head(rc.socket) \in Zaps THEN 1 ELSE 0)
        BY <2>3, <3>1, CountTail
      <4> QED
        BY <4>1
    <3>3. Count(Tail(rc.socket), Zaps) <= 2
      BY <3>2 DEF Few
    <3> QED
      BY <2>3, <3>1, <3>3, LoadTail
  <2>5. Worth(m) \in 0 .. 2
    BY DEF Worth
  <2> HIDE DEF t, m
  <2>6. Weight(t.rc) + Worth(m) <= Weight(rc)
    <3>1. /\ Load(rc.high) \in Nat /\ Load(rc.low) \in Nat /\ Count(rc.device, Downs) \in Nat
      BY NowTyped, WeightType
    <3>2. Load(t.rc.socket) = Load(rc.socket) - Worth(m)
      BY <2>2, <2>4
    <3> QED
      BY <2>2, <2>4, <2>5, <3>1, <3>2 DEF Weight
  <2>7. LowOnly(t.rc.low) /\ Count(t.rc.socket, Zaps) <= 2 /\ t.rc.high = <<>>
    BY <2>2, <2>3, <2>4 DEF Few
  <2> QED
    BY <2>1, <2>2, <2>3, <2>6, <2>7, PlainKeepsFew
<1>2. CASE ReadLow
  <2> DEFINE t == [InputState EXCEPT !.rc.low = Tail(@)]
             m == Head(rc.low)
  <2>1. InputBecomes(Call(HandleMsg(t, m))) /\ rc.high = <<>> /\ sent' = sent /\ rc.low # <<>>
    BY <1>2 DEF ReadLow
  <2>2. /\ Good(t) /\ t.keys = keys /\ t.rc.high = <<>>
        /\ t.rc.socket = rc.socket /\ LowOnly(t.rc.low)
        /\ m \in RcMessage /\ m.press = 0 /\ Weight(t.rc) + Worth(m) <= Weight(rc)
    BY <2>1, LowTaken, NowTyped DEF Few
  <2> HIDE DEF t, m
  <2>3. Count(t.rc.socket, Zaps) <= 2
    BY <2>2 DEF Few
  <2> QED
    BY <2>1, <2>2, <2>3, PlainKeepsFew
<1> QED
  BY <1>1, <1>2

\* An event that is accepted is worth as much as its message.
LEMMA KeysKeepFew ==
    ASSUME IInv, Few(rc, keys, sent), ReadKey
    PROVE  Few(rc, keys, sent)'
<1> DEFINE ev   == Head(rc.device)
           code == keys.code[ev.press]
           t    == [InputState EXCEPT !.rc.device = Tail(@), !.rc.last = LastKey(ev, code)]
           m    == [type |-> "key", press |-> ev.press]
<1>1. /\ Good(t) /\ t.keys = keys /\ t.rc.high = <<>> /\ ev.press \in Presses
      /\ t.rc.device = Tail(rc.device)
      /\ ev.value # "up" /\ (code # rc.last \/ code \in Repeatable)
            => Taken(t.rc, t.keys, ev.press)
  BY KeyTaken DEF ReadKey
<1>2. PICK ok \in Accepted(ev, code) :
         InputBecomes(IF ok THEN Call(HandleMsg(t, m)) ELSE Ignored(t))
  BY DEF ReadKey
<1>3. sent' = sent /\ rc.high = <<>> /\ rc.socket = <<>> /\ rc.device # <<>>
  BY DEF ReadKey
<1>4. ok => ev.value # "up" /\ (code # rc.last \/ code \in Repeatable)
  BY <1>2 DEF Accepted
<1>5. m \in RcMessage /\ m.press = ev.press /\ m.press # 0 /\ Worth(m) = 2
  BY <1>1, WorthOf DEF RcMessage, Presses
<1>6. t.rc.socket = rc.socket /\ t.rc.low = rc.low
  BY NowTyped DEF InputStates, RcState
<1>7. /\ Count(rc.device, Downs) \in Nat /\ Count(Tail(rc.device), Downs) \in Nat
      /\ Count(Tail(rc.device), Downs) <= Count(rc.device, Downs)
      /\ ev.value # "up" => Count(Tail(rc.device), Downs) = Count(rc.device, Downs) - 1
  <2>1. rc.device \in Seq(RcEvent) /\ ev \in RcEvent
    <3>1. rc.device \in Seq(RcEvent)
      BY NowTyped DEF RcState
    <3> QED
      BY <1>3, <3>1, HeadTailProperties
  <2>2. /\ Count(rc.device, Downs) \in Nat /\ Count(Tail(rc.device), Downs) \in Nat
        /\ Count(Tail(rc.device), Downs) = Count(rc.device, Downs)
                                           - (IF ev \in Downs THEN 1 ELSE 0)
    BY <1>3, <2>1, CountTail
  <2>3. ev \in Downs <=> ev.value # "up"
    BY <2>1 DEF Downs
  <2> HIDE DEF ev
  <2> QED
    BY <2>2, <2>3
<1> HIDE DEF t, ev, m, code
<1>8. t \in InputStates /\ t.rc \in RcState
  BY <1>1, GoodParts DEF Good
<1>9. /\ Weight(t.rc) <= Weight(rc) /\ Weight(t.rc) \in Nat /\ Weight(rc) \in Nat
      /\ ev.value # "up" => Weight(t.rc) + 2 <= Weight(rc)
  <2>1. /\ Load(rc.high) \in Nat /\ Load(rc.low) \in Nat /\ Load(rc.socket) \in Nat
        /\ Weight(rc) \in Nat /\ Weight(t.rc) \in Nat
    BY <1>8, NowTyped, WeightType
  <2>2. Count(t.rc.device, Downs) = Count(Tail(rc.device), Downs) /\ t.rc.high = rc.high
    BY <1>1, <1>3
  <2> QED
    BY <1>6, <1>7, <2>1, <2>2 DEF Weight
<1>10. LowOnly(t.rc.low) /\ Count(t.rc.socket, Zaps) = 0
  BY <1>3, <1>6, CountEmpty DEF Few
<1>11. CASE ok
  <2> DEFINE u == Call(HandleMsg(t, m))
  <2>1. Ready(t, m) /\ NoKey(t.rc.high)
    BY <1>1, <1>4, <1>5, <1>10, <1>11 DEF Ready, NoKey
  <2>2. Fits(t, u, 2)
    BY <1>5, <2>1, MessageFits
  <2>3. u.rc \in RcState
    BY <1>5, <2>1, Answered, GoodParts DEF Answers, Ready
  <2>4. InputBecomes(u)
    BY <1>2, <1>11
  <2> HIDE DEF u
  <2> QED
    BY <1>1, <1>3, <1>4, <1>8, <1>9, <1>11, <2>2, <2>3, <2>4, FitsFew
<1>12. CASE ~ok /\ t.rc.low # <<>>
  <2> DEFINE u == [t EXCEPT !.rc.low = Tail(@)]
             l == Head(t.rc.low)
  <2>1. InputBecomes(Call(HandleMsg(u, l)))
    BY <1>2, <1>12 DEF Ignored
  <2>2. /\ Good(u) /\ u.keys = keys /\ u.rc.high = <<>> /\ u.rc.socket = t.rc.socket
        /\ LowOnly(u.rc.low) /\ l \in RcMessage /\ l.press = 0
        /\ Weight(u.rc) + Worth(l) <= Weight(t.rc)
    BY <1>1, <1>10, <1>12, LowTaken
  <2>3. Worth(l) \in 0 .. 2
    BY DEF Worth
  <2> HIDE DEF u, l
  <2>4. Weight(u.rc) + Worth(l) <= Weight(rc)
    <3>1. Weight(u.rc) \in Nat
      BY <2>2, WeightType, GoodParts
    <3> QED
      BY <1>9, <2>2, <2>3, <3>1
  <2>5. Count(u.rc.socket, Zaps) <= 2
    BY <1>10, <2>2
  <2> QED
    BY <1>3, <2>1, <2>2, <2>4, <2>5, PlainKeepsFew
<1>13. CASE ~ok /\ t.rc.low = <<>>
  <2> DEFINE u == Recalculated(t)
  <2>1. InputBecomes(u)
    BY <1>2, <1>13 DEF Ignored
  <2>2. Alike(t, u)
    <3>1. CASE t.gui.kind = "main"
      BY <3>1 DEF Recalculated, Alike
    <3>2. CASE t.gui.kind # "main" /\ t.gui.timeout <= t.gui.spent
      <4>1. u = Call(Close(t))
        BY <1>8, <3>2 DEF Recalculated, InputStates, GuiState
      <4>2. Alike(t, Close(t)) /\ Alike(Close(t), Call(Close(t)))
        BY <1>1, <1>8, Closed, AlikeOf DEF Good
      <4> QED
        BY <4>1, <4>2 DEF Alike
    <3>3. CASE t.gui.kind # "main" /\ t.gui.timeout > t.gui.spent
      <4>1. u = [t EXCEPT !.gui.timeout = @ - t.gui.spent, !.gui.slept = 0,
                          !.gui.ignored = TRUE]
        BY <1>8, <3>3 DEF Recalculated, InputStates, GuiState
      <4> QED
        BY <1>8, <4>1 DEF Alike, InputStates
    <3>4. t.gui.timeout \in Nat /\ t.gui.spent \in Nat
      BY <1>8 DEF InputStates, GuiState
    <3> QED
      BY <3>1, <3>2, <3>3, <3>4
  <2> HIDE DEF u
  <2>3. Fits(t, u, 0)
    <3>1. Weight(u.rc) = Weight(t.rc)
      BY <2>2 DEF Alike, Weight
    <3>2. ~KeyWaits(u.rc.high)
      BY <1>1, <2>2 DEF Alike, KeyWaits
    <3>3. Weight(u.rc) <= Weight(t.rc) + 0
      BY <1>9, <3>1
    <3> QED
      BY <1>10, <2>2, <3>2, <3>3 DEF Fits, Alike
  <2>4. Weight(t.rc) + 0 <= Weight(rc)
    BY <1>9
  <2>5. u.rc \in RcState
    <3>1. Good(u)
      <4>1. Window(t.gui)
        <5>1. t.gui = gui
          BY KeyTaken DEF ReadKey, t, ev, code
        <5> QED
          BY <5>1, StateIsGood
      <4> QED
        BY <1>1, <4>1, LimitRecalculated DEF u
    <3> QED
      BY <3>1, GoodParts
  <2> QED
    BY <1>1, <1>3, <1>8, <2>1, <2>3, <2>4, <2>5, FitsFew
<1> QED
  BY <1>11, <1>12, <1>13

\* The user and the kernel: an event of the device, of those that were counted.
LEMMA UserKeepsFew ==
    ASSUME IInv, Few(rc, keys, sent), (\E code \in Codes : Press(code)) \/ Repeat \/ Release
    PROVE  Few(rc, keys, sent)'
<1>1. ASSUME NEW e \in RcEvent, rc' = [rc EXCEPT !.device = Append(@, e)], sent' = sent,
             Left(keys', sent) + (IF e.value = "up" THEN 0 ELSE 2) <= Left(keys, sent),
             Left(keys', sent) \in Int
      PROVE  Few(rc, keys, sent)'
  <2>1. /\ rc'.high = rc.high /\ rc'.socket = rc.socket /\ rc'.low = rc.low
        /\ rc'.device = Append(rc.device, e)
    BY <1>1, NowTyped DEF RcState
  <2>2. /\ Count(rc.device, Downs) \in Nat
        /\ Count(rc'.device, Downs) = Count(rc.device, Downs) + (IF e.value = "up" THEN 0 ELSE 1)
    <3>1. rc.device \in Seq(RcEvent)
      BY NowTyped DEF RcState
    <3>2. e \in Downs <=> e.value # "up"
      BY DEF Downs
    <3> QED
      BY <2>1, <3>1, <3>2, CountAppend
  <2>3. /\ Load(rc.high) \in Nat /\ Load(rc.low) \in Nat /\ Load(rc.socket) \in Nat
        /\ Left(keys, sent) \in Nat /\ Limit \in Nat
    <3>1. /\ rc \in RcState /\ keys \in KeyState /\ Len(keys.code) <= MaxPresses
          /\ sent \in Nat /\ Rate \in Nat /\ MaxPresses \in Nat
      BY NowTyped
    <3>2. sent <= Rate
      BY DEF Few
    <3>3. Left(keys, sent) \in Nat
      BY <3>1, <3>2, LeftType
    <3>4. Limit \in Nat
      BY <3>1 DEF Limit
    <3> QED
      BY <3>1, <3>3, <3>4, WeightType
  <2>4. Weight(rc') = Weight(rc) + (IF e.value = "up" THEN 0 ELSE 2) /\ Weight(rc) \in Nat
    <3> DEFINE a == Load(rc.high) + Load(rc.socket) + Load(rc.low)
               d == Count(rc.device, Downs)
               x == IF e.value = "up" THEN 0 ELSE 1
    <3>1. Weight(rc) = a + 2 * d /\ Weight(rc') = a + 2 * (d + x)
      BY <2>1, <2>2 DEF Weight
    <3>2. a \in Nat /\ d \in Nat
      BY <2>2, <2>3
    <3>3. x \in {0, 1} /\ (IF e.value = "up" THEN 0 ELSE 2) = 2 * x
      OBVIOUS
    <3> HIDE DEF a, d, x
    <3> QED
      BY <3>1, <3>2, <3>3
  <2>5. Weight(rc') + Left(keys', sent) <= Limit
    BY <1>1, <2>3, <2>4 DEF Few
  <2> QED
    BY <1>1, <2>1, <2>5 DEF Few
<1>2. ASSUME NEW code \in Codes, Press(code) PROVE Few(rc, keys, sent)'
  <2> DEFINE p == Len(keys.code) + 1
             e == Event(p, "down")
  <2>1. p \in Presses
    <3>1. Len(keys.code) < MaxPresses
      BY <1>2 DEF Press
    <3> QED
      BY <3>1, NowTyped DEF Presses
  <2>2. e \in RcEvent /\ e.value = "down"
    BY <2>1 DEF Event, RcEvent
  <2>3. keys' = [keys EXCEPT !.held = p, !.code = Append(@, code)]
        /\ rc' = [rc EXCEPT !.device = Append(@, e)] /\ sent' = sent
    BY <1>2 DEF Press
  <2>4. keys'.code = Append(keys.code, code) /\ keys'.repeated = keys.repeated
    BY <2>3, NowTyped DEF KeyState
  <2>5. Len(keys'.code) = p
    <3>1. keys.code \in Seq(Codes)
      BY NowTyped DEF KeyState
    <3> QED
      BY <2>4, <3>1, AppendProperties
  <2>6. Left(keys', sent) + 2 = Left(keys, sent) /\ Left(keys', sent) \in Int
    <3> DEFINE b == IF keys.repeated THEN 0 ELSE 2
               x == Rate - sent
               y == MaxPresses - Len(keys.code)
    <3>1. Left(keys, sent) = 2 * x + 2 * y + b
      BY DEF Left
    <3>2. Left(keys', sent) = 2 * x + 2 * (MaxPresses - p) + b
      BY <2>4, <2>5 DEF Left
    <3>3. MaxPresses - p = y - 1 /\ x \in Int /\ y \in Int /\ b \in Int
      BY NowTyped
    <3> HIDE DEF b, x, y, p
    <3> QED
      BY <3>1, <3>2, <3>3
  <2> HIDE DEF p, e
  <2>7. Left(keys', sent) + (IF e.value = "up" THEN 0 ELSE 2) <= Left(keys, sent)
    BY <2>2, <2>6
  <2> QED
    BY <1>1, <2>2, <2>3, <2>6, <2>7
<1>3. CASE Repeat
  <2> DEFINE e == Event(keys.held, "repeat")
  <2>1. e \in RcEvent /\ e.value = "repeat"
    BY <1>3, NowTyped DEF Repeat, KeyState, Event, RcEvent
  <2>2. keys'.code = keys.code /\ keys'.repeated = TRUE /\ keys.repeated = FALSE
    BY <1>3, NowTyped DEF Repeat, KeyState
  <2>3. rc' = [rc EXCEPT !.device = Append(@, e)] /\ sent' = sent
    BY <1>3 DEF Repeat
  <2>4. Left(keys', sent) + 2 = Left(keys, sent) /\ Left(keys', sent) \in Int
    BY <2>2, NowTyped DEF Left
  <2> HIDE DEF e
  <2>5. Left(keys', sent) + (IF e.value = "up" THEN 0 ELSE 2) <= Left(keys, sent)
    BY <2>1, <2>4
  <2> QED
    BY <1>1, <2>1, <2>3, <2>4, <2>5
<1>4. CASE Release
  <2> DEFINE e == Event(keys.held, "up")
  <2>1. e \in RcEvent /\ e.value = "up"
    BY <1>4, NowTyped DEF Release, KeyState, Event, RcEvent
  <2>2. keys'.code = keys.code /\ keys'.repeated = keys.repeated
    BY <1>4, NowTyped DEF Release, KeyState
  <2>3. rc' = [rc EXCEPT !.device = Append(@, e)] /\ sent' = sent
    BY <1>4 DEF Release
  <2>4. Left(keys', sent) = Left(keys, sent) /\ Left(keys, sent) \in Nat
    BY <2>2, NowTyped, LeftType DEF Left, Few
  <2> HIDE DEF e
  <2>5. /\ Left(keys', sent) + (IF e.value = "up" THEN 0 ELSE 2) <= Left(keys, sent)
        /\ Left(keys', sent) \in Int
    <3>1. (IF e.value = "up" THEN 0 ELSE 2) = 0
      BY <2>1
    <3> QED
      BY <2>4, <3>1
  <2> QED
    BY <1>1, <2>1, <2>3, <2>5
<1> QED
  BY <1>2, <1>3, <1>4

LEMMA SendKeepsFew ==
    ASSUME IInv, Few(rc, keys, sent), NEW type \in {"TIMESET", "CURRENTNEXT", "STANDBY"}, Send(type)
    PROVE  Few(rc, keys, sent)'
<1> DEFINE m == Plain(type)
           u == Append(rc.socket, m)
<1>1. m \in RcMessage /\ m \notin Zaps
  BY DEF Plain, RcMessage, Zaps, Of, OwnTypes
<1>2. rc' = [rc EXCEPT !.socket = Append(@, m)] /\ sent < Rate /\ sent' = sent + 1 /\ keys' = keys
  BY DEF Send
<1>3. rc.socket \in Seq(RcMessage)
  BY NowTyped DEF RcState
<1> HIDE DEF m
<1>4. /\ rc'.high = rc.high /\ rc'.socket = u /\ rc'.low = rc.low
      /\ rc'.device = rc.device
  BY <1>2, NowTyped DEF RcState
<1>5. Count(u, Zaps) = Count(rc.socket, Zaps)
  <2>1. Count(rc.socket, Zaps) \in Nat
        /\ Count(u, Zaps) = Count(rc.socket, Zaps) + (IF m \in Zaps THEN 1 ELSE 0)
    BY <1>1, <1>3, CountAppend
  <2> QED
    BY <1>1, <2>1
<1>6. Load(u) \in Nat /\ Load(u) <= Load(rc.socket) + 2
  <2>1. /\ Count(rc.socket, Double) \in Nat /\ Count(rc.socket, Single) \in Nat
        /\ Count(u, Double) = Count(rc.socket, Double) + (IF m \in Double THEN 1 ELSE 0)
        /\ Count(u, Single) = Count(rc.socket, Single) + (IF m \in Single THEN 1 ELSE 0)
    BY <1>1, <1>3, CountAppend
  <2> HIDE DEF u
  <2> QED
    BY <2>1, Exclusive DEF Load
<1> HIDE DEF u
<1>7. /\ Load(rc.high) \in Nat /\ Load(rc.low) \in Nat /\ Load(rc.socket) \in Nat
      /\ Count(rc.device, Downs) \in Nat /\ Limit \in Nat /\ Left(keys, sent) \in Nat
  BY NowTyped, WeightType, LeftType DEF Few, Limit
<1>8. Weight(rc') <= Weight(rc) + 2 /\ Weight(rc') \in Nat /\ Weight(rc) \in Nat
  BY <1>4, <1>6, <1>7 DEF Weight
<1>9. Left(keys', sent') + 2 = Left(keys, sent) /\ Left(keys', sent') \in Int
  <2> DEFINE b == IF keys.repeated THEN 0 ELSE 2
             x == Rate - sent
             y == MaxPresses - Len(keys.code)
  <2>1. Left(keys, sent) = 2 * x + 2 * y + b
    BY DEF Left
  <2>2. Left(keys', sent') = 2 * (Rate - (sent + 1)) + 2 * y + b
    BY <1>2 DEF Left
  <2>3. Rate - (sent + 1) = x - 1 /\ x \in Int /\ y \in Int /\ b \in Int
    BY NowTyped
  <2> HIDE DEF b, x, y
  <2> QED
    BY <2>1, <2>2, <2>3
<1>10. Weight(rc') + Left(keys', sent') <= Limit
  BY <1>7, <1>8, <1>9 DEF Few
<1>11. sent' <= Rate
  BY <1>2, NowTyped
<1> QED
  BY <1>4, <1>5, <1>10, <1>11 DEF Few

LEMMA StepKeepsFew ==
    ASSUME IInv, NoneLost(rc, keys), Few(rc, keys, sent), [InputNext]_inputVars
    PROVE  Few(rc, keys, sent)'
<1>1. CASE UNCHANGED inputVars
  BY <1>1 DEF inputVars
<1> QED
  BY <1>1, TimeKeepsFew, SleepKeepsFew, HighKeepsFew, OthersKeepFew, KeysKeepFew, UserKeepsFew,
     SendKeepsFew DEF InputNext, GetMsg

LEMMA InitIsFew == ASSUME InputInit PROVE Few(rc, keys, sent)
<1> DEFINE m == Plain("SHOW_INFOBAR")
<1>1. /\ rc.device = <<>> /\ rc.low = <<>> /\ rc.socket = <<>> /\ rc.high = <<m>>
      /\ keys.code = <<>> /\ keys.repeated = FALSE /\ sent = 0
  BY DEF InputInit
<1>2. m \in RcMessage /\ m.press = 0 /\ Worth(m) = 0
  BY WorthOf DEF Plain, RcMessage
<1> HIDE DEF m
<1>3. Load(<<m>>) = 0
  <2>1. <<>> \in Seq(RcMessage) /\ Written(<<>>, m) = <<m>>
    BY FirstWritten
  <2>2. Load(<<m>>) \in Nat /\ Load(<<m>>) <= Load(<<>>) + Worth(m)
    BY <1>2, <2>1, LoadWritten
  <2> QED
    BY <1>2, <2>2, LoadEmpty
<1>4. Weight(rc) = 0
  BY <1>1, <1>3, LoadEmpty, CountEmpty DEF Weight
<1>5. Left(keys, sent) = Limit /\ Limit \in Nat /\ sent <= Rate
  <2>1. Len(keys.code) = 0 /\ Rate \in Nat /\ MaxPresses \in Nat
    BY <1>1, InputAssumption
  <2> QED
    BY <1>1, <2>1 DEF Left, Limit
<1>6. LowOnly(rc.low) /\ Count(rc.socket, Zaps) = 0
  BY <1>1, CountEmpty DEF LowOnly
<1>7. ~KeyWaits(rc.high)
  <2>1. DOMAIN <<m>> = {1} /\ <<m>>[1] = m
    OBVIOUS
  <2> QED
    BY <1>1, <1>2, <2>1 DEF KeyWaits
<1>8. Weight(rc) + Left(keys, sent) <= Limit
  BY <1>4, <1>5
<1> QED
  BY <1>5, <1>6, <1>7, <1>8 DEF Few

-----------------------------------------------------------------------------
\* The inductive invariant holds of every behaviour: what waits in the queues agrees with
\* the timers, the keys and the window.
THEOREM Invariance == InputSpec => []IInv
<1>1. IInv /\ [InputNext]_inputVars => IInv'
  BY StepKeeps DEF Kept
<1> QED
  BY <1>1, InitIsGood, PTL DEF InputSpec

\* The timers, messages, events and windows have their types.
THEOREM InputTypes == InputSpec => []InputTypeOK
<1>1. IInv => InputTypeOK
  BY DEF IInv, InputTypeOK, Good, InputStates
<1> QED
  BY <1>1, Invariance, PTL

\* No timer is ever late: the one that is due first is the first.
THEOREM NoTimerLate == InputSpec => []TimersOnTime
<1>1. IInv => TimersOnTime
  BY StateIsGood, GoodParts DEF TimersOnTime, Timely
<1> QED
  BY <1>1, Invariance, PTL

\* Keys take effect in the order in which they were pressed, whatever the pipes hold.
THEOREM OrderOfKeys == InputSpec => []KeysInOrder
<1>1. IInv => KeysInOrder
  <2> SUFFICES ASSUME IInv, NEW m \in Presses, NEW n \in Presses, m < n, keys.handled[n] > 0,
                      OnItsWay(m)
               PROVE  FALSE
    BY DEF KeysInOrder
  <2>1. Queued(rc, keys) /\ Passed(rc, keys, n) /\ m # 0 /\ m \in Int /\ n \in Int
    <3>1. Queued(rc, keys)
      BY StateIsGood, GoodParts
    <3>2. Passed(rc, keys, n)
      BY <3>1 DEF Queued
    <3>3. m # 0 /\ m \in Int /\ n \in Int
      BY InputAssumption DEF Presses
    <3> QED
      BY <3>1, <3>2, <3>3
  <2>2. CASE \E i \in DOMAIN rc.device : rc.device[i].press = m
    BY <2>1, <2>2 DEF Passed
  <2>3. CASE \E i \in DOMAIN rc.high : rc.high[i].press = m
    BY <2>1, <2>3 DEF Queued, Taken
  <2>4. CASE \E i \in DOMAIN rc.low : rc.low[i].press = m
    BY <2>1, <2>4 DEF Queued, NoKey
  <2> QED
    BY <2>2, <2>3, <2>4 DEF OnItsWay
<1> QED
  BY <1>1, Invariance, PTL

\* A key that does not repeat takes effect once, unless it was cleared while it was held.
THEOREM OnceForAPress == InputSpec => []PressedOnce
<1>1. IInv => PressedOnce
  <2> SUFFICES ASSUME IInv PROVE PressedOnce
    OBVIOUS
  <2>1. Queued(rc, keys) /\ keys.code \in Seq(Codes)
    BY StateIsGood, GoodParts DEF KeyState
  <2> QED
    BY <2>1 DEF Queued, PressedOnce
<1> QED
  BY <1>1, Invariance, PTL

\* No press is lost but those that are cleared: the release of the press before forgets
\* the last key, so that the first event of a press is accepted, and the window that gets it
\* takes it or hands it back to a pipe that is empty.
THEOREM NoKeyLost == InputSpec => []KeyNotLost
<1> DEFINE Inv == IInv /\ NoneLost(rc, keys)
<1>1. InputInit => Inv
  BY InitIsGood, InitLosesNone
<1>2. Inv /\ [InputNext]_inputVars => Inv'
  BY StepKeeps, StepLosesNone DEF Kept
<1>3. Inv => KeyNotLost
  <2> SUFFICES ASSUME IInv, NoneLost(rc, keys), NEW n \in DOMAIN keys.code
               PROVE  keys.handled[n] > 0 \/ n \in keys.cleared \/ OnItsWay(n)
    BY DEF KeyNotLost
  <2>1. n \in 1 .. Len(keys.code)
    BY StateIsGood, GoodParts DEF KeyState
  <2> QED
    BY <2>1 DEF NoneLost, Settled, InHigh, OnItsWay
<1> QED
  BY <1>1, <1>2, <1>3, PTL DEF InputSpec

\* No window outlasts its time limit, whatever messages it takes.
THEOREM NoOverstay == InputSpec => []NeverOverstays
<1>1. IInv => NeverOverstays
  BY DEF IInv, Window, NeverOverstays
<1> QED
  BY <1>1, Invariance, PTL

\* The question is not answered by time before its time is up, unless a key event was
\* ignored.
THEOREM TimeToAnswer == InputSpec => WaitsItsTime
<1>1. IInv /\ [InputNext]_inputVars
        => [gui.kind = "box" /\ gui'.kind # "box" => gui.end = 0 \/ gui.ignored]_inputVars
  BY StepKeeps DEF Kept
<1> QED
  BY <1>1, Invariance, PTL DEF InputSpec, WaitsItsTime

\* The messages the GUI thread sends to itself stay few: what may still come of what waits
\* never exceeds twice what the others send and the user presses in a tick, and one repeat.
\* The bound asks of the pipe what it has: it holds thousands of messages.
THEOREM OwnFew ==
    ASSUME PipeSize > Limit
    PROVE  InputSpec => []OwnMessagesFew
<1> DEFINE Inv == IInv /\ NoneLost(rc, keys) /\ Few(rc, keys, sent)
<1>1. InputInit => Inv
  BY InitIsGood, InitLosesNone, InitIsFew
<1>2. Inv /\ [InputNext]_inputVars => Inv'
  BY StepKeeps, StepLosesNone, StepKeepsFew DEF Kept
<1>3. Inv => OwnMessagesFew
  <2> SUFFICES ASSUME Inv PROVE OwnMessagesFew
    OBVIOUS
  <2>1. rc.high \in Seq(RcMessage) /\ rc.low \in Seq(RcMessage) /\ rc.socket \in Seq(RcMessage)
    BY NowTyped DEF RcState
  <2>2. {i \in DOMAIN rc.socket : rc.socket[i].type \in OwnTypes}
        = {i \in DOMAIN rc.socket : rc.socket[i] \in Zaps}
    BY <2>1 DEF Zaps, Of
  <2>3. Cardinality({i \in DOMAIN rc.socket : rc.socket[i].type \in OwnTypes}) <= 2
    BY <2>2 DEF Few, Count
  <2>4. Limit \in Nat /\ PipeSize \in Nat /\ Limit >= 2
    BY InputAssumption DEF Limit
  <2>5. Len(rc.high) < PipeSize
    BY <2>1, <2>4 DEF NoneLost
  <2>6. Len(rc.low) < PipeSize
    <3>1. Len(rc.low) <= Load(rc.low)
      BY <2>1, LowBounded DEF Few
    <3>2. Load(rc.low) <= Weight(rc)
      <4>1. /\ Load(rc.high) \in Nat /\ Load(rc.socket) \in Nat /\ Load(rc.low) \in Nat
            /\ Count(rc.device, Downs) \in Nat
        BY NowTyped, WeightType
      <4> QED
        BY <4>1 DEF Weight
    <3>3. Weight(rc) <= Limit
      <4>1. Left(keys, sent) \in Nat /\ Weight(rc) \in Nat
        BY NowTyped, LeftType, WeightType DEF Few
      <4> QED
        BY <2>4, <4>1 DEF Few
    <3>4. Load(rc.low) \in Nat /\ Weight(rc) \in Nat /\ Len(rc.low) \in Nat
      BY <2>1, NowTyped, WeightType
    <3> QED
      BY <2>4, <3>1, <3>2, <3>3, <3>4
  <2> QED
    BY <2>3, <2>5, <2>6 DEF OwnMessagesFew
<1> QED
  BY <1>1, <1>2, <1>3, PTL DEF InputSpec

=============================================================================
