---------------------------- MODULE PublisherPump ----------------------------
(***************************************************************************)
(* What pump() does to one subscriber, for any ring, limits and timeouts:  *)
(* the bytes of its queue, the frames the ring retains, and the refill.    *)
(***************************************************************************)
EXTENDS Publisher, Extrema, FiniteSetTheorems, SequenceTheorems

(* Fewer frames than a 32-bit seq can number: past that the copy loop does *)
(* not stop at the head any more (publisher.cpp:33).                       *)
NoSeqWrap == MaxPublish + 1 < SeqMod

Sent ==
  [kind : {"data"}, seq : Nat] \cup [kind : {"heartbeat"}, head_seq : Nat]
    \cup [kind : {"gap"}, from : Nat, resumed_at : Nat]

Piece == [from : FromSeqs] \cup [ok : BOOLEAN]

Ages == Nat \cup {None}

Subs ==
  [subscribed : BOOLEAN, next_seq : Nat, last_tx : Ages, stalled : Ages,
   rx : Seq(Piece), tx : Seq(Sent), want_write : BOOLEAN]
------------------------------------------------------------------------------
(* The bytes of a queue of frames.                                         *)
DataIn(t) == {k \in 1 .. Len(t) : t[k].kind = "data"}
Bytes(t) == FrameLen * Cardinality(DataIn(t)) + ControlLen * (Len(t) - Cardinality(DataIn(t)))

LEMMA BacklogIsBytes == \A s : backlog(s) = Bytes(s.tx)
BY DEF backlog, Bytes, DataIn

LEMMA Lengths == FrameLen \in Nat /\ ControlLen \in Nat /\ 1 <= ControlLen /\ ControlLen <= FrameLen
BY PublisherAssumption

LEMMA IntervalSize ==
  ASSUME NEW a \in Nat, NEW n \in Nat
  PROVE  IsFiniteSet(a + 1 .. a + n) /\ Cardinality(a + 1 .. a + n) = n
<1>1. a + 1 \in Int /\ a + n \in Int /\ (IF a + 1 > a + n THEN 0 ELSE (a + n) - (a + 1) + 1) = n
  OBVIOUS
<1> QED
  BY <1>1, FS_Interval

LEMMA ShiftedInto ==
  ASSUME NEW S \in SUBSET Int, NEW T, IsFiniteSet(T), NEW n \in Int, \A k \in S : k + n \in T
  PROVE  Cardinality(S) <= Cardinality(T)
<1> DEFINE f == [k \in S |-> k + n]
<1>1. f \in [S -> T] /\ \A j, k \in S : f[j] = f[k] => j = k
  OBVIOUS
<1>2. f \in Injection(S, T)
  BY <1>1 DEF Injection, IsInjective
<1> QED
  BY <1>2, FS_Injection

LEMMA UpTo == \A n \in Nat : IsFiniteSet(1 .. n) /\ Cardinality(1 .. n) = n
BY FS_Interval

LEMMA DataFinite ==
  ASSUME NEW t \in Seq(Sent)
  PROVE  /\ IsFiniteSet(DataIn(t)) /\ Len(t) \in Nat
         /\ Cardinality(DataIn(t)) \in Nat /\ Cardinality(DataIn(t)) <= Len(t)
<1>1. Len(t) \in Nat
  OBVIOUS
<1>2. IsFiniteSet(1 .. Len(t)) /\ Cardinality(1 .. Len(t)) = Len(t)
  BY <1>1, FS_Interval, SMTT(20)
<1>3. DataIn(t) \in SUBSET (1 .. Len(t))
  BY DEF DataIn
<1> QED
  BY <1>1, <1>2, <1>3, FS_Subset, FS_CardinalityType

(* What the arithmetic of Bytes comes down to: c of l frames are data.     *)
LEMMA BytesArith ==
  ASSUME NEW c \in Nat, NEW l \in Nat, c <= l, NEW n \in Nat, NEW a \in Nat, NEW b \in Nat, b <= a
  PROVE  /\ a * c + b * (l - c) \in Nat
         /\ a * (c + n) + b * ((l + n) - (c + n)) = (a * c + b * (l - c)) + n * a
         /\ a * c + b * ((l + 1) - c) = (a * c + b * (l - c)) + b
OBVIOUS

LEMMA BytesMonotone ==
  ASSUME NEW c \in Nat, NEW l \in Nat, c <= l, NEW d \in Nat, NEW m \in Nat, d <= m,
         d <= c, m - d <= l - c, NEW a \in Nat, NEW b \in Nat
  PROVE  a * d + b * (m - d) <= a * c + b * (l - c)
<1>1. \A x, y, z \in Nat : x <= y => z * x <= z * y
  OBVIOUS
<1>2. a * d <= a * c /\ b * (m - d) <= b * (l - c)
  BY <1>1
<1>3. a * d \in Nat /\ a * c \in Nat /\ b * (m - d) \in Nat /\ b * (l - c) \in Nat
  OBVIOUS
<1> QED
  BY <1>2, <1>3

LEMMA BytesType == \A t \in Seq(Sent) : Bytes(t) \in Nat
BY DataFinite, Lengths, BytesArith DEF Bytes

LEMMA BytesEmpty == Bytes(<< >>) = 0
<1>1. DataIn(<< >>) = {} /\ Len(<< >>) = 0
  BY DEF DataIn
<1> QED
  BY <1>1, FS_EmptySet, Lengths DEF Bytes

LEMMA BytesControl ==
  ASSUME NEW t \in Seq(Sent), NEW f \in Sent, f.kind # "data"
  PROVE  Bytes(Append(t, f)) = Bytes(t) + ControlLen
<1>1. DataIn(Append(t, f)) = DataIn(t) /\ Len(Append(t, f)) = Len(t) + 1
  BY DEF DataIn
<1> QED
  BY <1>1, DataFinite, Lengths, BytesArith DEF Bytes

LEMMA BytesData ==
  ASSUME NEW t \in Seq(Sent), NEW d \in Seq(Sent), \A k \in 1 .. Len(d) : d[k].kind = "data"
  PROVE  Bytes(t \o d) = Bytes(t) + Len(d) * FrameLen
<1> DEFINE new == Len(t) + 1 .. Len(t) + Len(d)
<1>1. Len(t) \in Nat /\ Len(d) \in Nat /\ Len(t \o d) = Len(t) + Len(d)
  OBVIOUS
<1>2. DataIn(t \o d) = DataIn(t) \cup new /\ DataIn(t) \cap new = {}
  BY <1>1 DEF DataIn
<1>3. IsFiniteSet(new) /\ Cardinality(new) = Len(d)
  BY <1>1, IntervalSize
<1> HIDE DEF new
<1>4. Cardinality(DataIn(t \o d)) = Cardinality(DataIn(t)) + Len(d)
  <2>1. Cardinality(DataIn(t) \cap new) = 0 /\ IsFiniteSet(DataIn(t)) /\ Cardinality(DataIn(t)) \in Nat
    BY <1>2, DataFinite, FS_EmptySet, Zenon
  <2>2. Cardinality(DataIn(t) \cup new) = Cardinality(DataIn(t)) + Cardinality(new) - Cardinality(DataIn(t) \cap new)
    BY <1>3, <2>1, FS_Union, Zenon
  <2> QED
    BY <1>1, <1>2, <1>3, <2>1, <2>2
<1> QED
  BY <1>1, <1>4, DataFinite, Lengths, BytesArith DEF Bytes

LEMMA BytesSuffix ==
  ASSUME NEW t \in Seq(Sent), NEW n \in 0 .. Len(t)
  PROVE  Bytes(SubSeq(t, n + 1, Len(t))) <= Bytes(t)
<1> DEFINE u == SubSeq(t, n + 1, Len(t))
           ctl(v) == (1 .. Len(v)) \ DataIn(v)
<1>1. u \in Seq(Sent) /\ n \in Int /\ Len(t) \in Nat /\ Len(u) = Len(t) - n /\ \A k \in 1 .. Len(u) : u[k] = t[k + n]
  OBVIOUS
<1>2. Cardinality(DataIn(u)) <= Cardinality(DataIn(t))
  <2> HIDE DEF u
  <2>1. DataIn(u) \in SUBSET Int
    BY DEF DataIn
  <2>2. ASSUME NEW k \in DataIn(u) PROVE k + n \in DataIn(t)
    <3>1. k \in 1 .. Len(u) /\ u[k].kind = "data"
      BY <2>2 DEF DataIn
    <3>2. k + n \in 1 .. Len(t) /\ t[k + n].kind = "data"
      BY <1>1, <3>1
    <3> QED
      BY <3>2 DEF DataIn
  <2> QED
    BY <1>1, <2>1, <2>2, DataFinite, ShiftedInto, Zenon
<1>3. ASSUME NEW v \in Seq(Sent) PROVE IsFiniteSet(ctl(v)) /\ Cardinality(ctl(v)) = Len(v) - Cardinality(DataIn(v))
  <2>1. Len(v) \in Nat /\ (1 .. Len(v)) \cap DataIn(v) = DataIn(v)
    BY <1>3 DEF DataIn
  <2>2. IsFiniteSet(1 .. Len(v)) /\ Cardinality(1 .. Len(v)) = Len(v)
    BY <2>1, UpTo
  <2>3. /\ IsFiniteSet((1 .. Len(v)) \ DataIn(v))
        /\ Cardinality((1 .. Len(v)) \ DataIn(v))
             = Cardinality(1 .. Len(v)) - Cardinality((1 .. Len(v)) \cap DataIn(v))
    BY <2>2, FS_Difference, Zenon
  <2> QED
    BY <2>1, <2>2, <2>3, Zenon
<1>4. Cardinality(ctl(u)) <= Cardinality(ctl(t))
  <2> HIDE DEF u
  <2>1. ctl(u) \in SUBSET Int
    OBVIOUS
  <2>2. ASSUME NEW k \in ctl(u) PROVE k + n \in ctl(t)
    <3>1. k \in 1 .. Len(u) /\ u[k].kind # "data"
      BY <2>2 DEF DataIn
    <3>2. k + n \in 1 .. Len(t) /\ t[k + n].kind # "data"
      BY <1>1, <3>1
    <3> QED
      BY <3>2 DEF DataIn
  <2> HIDE DEF ctl
  <2>3. IsFiniteSet(ctl(t))
    BY <1>3
  <2> QED
    BY <1>1, <2>1, <2>2, <2>3, ShiftedInto, Zenon
<1> HIDE DEF u, ctl
<1>5. /\ Cardinality(DataIn(t)) \in Nat /\ Cardinality(DataIn(t)) <= Len(t)
      /\ Cardinality(DataIn(u)) \in Nat /\ Cardinality(DataIn(u)) <= Len(u) /\ Len(u) \in Nat
      /\ Len(u) - Cardinality(DataIn(u)) <= Len(t) - Cardinality(DataIn(t))
  BY <1>1, <1>3, <1>4, DataFinite
<1>6. Bytes(u) <= Bytes(t)
  BY <1>1, <1>2, <1>5, Lengths, BytesMonotone, Zenon DEF Bytes
<1> QED
  BY <1>6 DEF u
------------------------------------------------------------------------------
(* The ring: what it retains is in its slots.                              *)
RingInv ==
  /\ published \in Nat /\ published <= MaxPublish
  /\ ring \in [head : Nat, seq : [RingSlots -> Nat]]
  /\ ring.head = published
  /\ \A q \in oldest(ring) .. ring.head : frame(ring, q) = q

LEMMA SmallMod ==
  ASSUME NEW m \in Nat \ {0}, NEW x \in Nat, x < m
  PROVE  x % m = x
OBVIOUS

LEMMA SlotsDiffer ==
  ASSUME NEW c \in Nat \ {0}, NEW q \in Nat, NEW n \in Nat, q < n, n - q < c
  PROVE  q % c # n % c
<1> SUFFICES ASSUME q % c = n % c PROVE FALSE
  OBVIOUS
<1>1. q = c * (q \div c) + (q % c) /\ n = c * (n \div c) + (n % c) /\ q \div c \in Int /\ n \div c \in Int
  OBVIOUS
<1>2. \A i, j \in Int : c * i - c * j = c * (i - j)
  OBVIOUS
<1>3. PICK k \in Int : n - q = c * k
  <2>1. n - q = c * (n \div c) - c * (q \div c)
    BY <1>1
  <2>2. (n \div c) - (q \div c) \in Int
    BY <1>1
  <2> QED
    BY <1>1, <1>2, <2>1, <2>2, Zenon
<1>4. k <= 0 => c * k <= 0
  OBVIOUS
<1>5. k >= 1 => c * k >= c
  OBVIOUS
<1> QED
  BY <1>3, <1>4, <1>5

LEMMA RingFacts ==
  ASSUME NoSeqWrap, RingInv
  PROVE  /\ ring.head \in Nat /\ ring.head + 1 < SeqMod /\ IncSeq(ring.head) = ring.head + 1
         /\ oldest(ring) \in Nat /\ 1 <= oldest(ring) /\ oldest(ring) <= ring.head + 1
         /\ \A x \in Nat : x <= ring.head + 1 => x % SeqMod = x
<1>1. SeqMod \in Nat \ {0} /\ RingCap \in Nat /\ 1 <= RingCap
  BY RingAssumption
<1>2. ring.head \in Nat /\ ring.head + 1 < SeqMod
  BY <1>1, PublisherAssumption DEF RingInv, NoSeqWrap
<1>3. \A x \in Nat : x <= ring.head + 1 => x % SeqMod = x
  BY <1>1, <1>2, SmallMod
<1>4. oldest(ring) \in Nat /\ 1 <= oldest(ring) /\ oldest(ring) <= ring.head + 1
  BY <1>1, <1>2 DEF oldest
<1> QED
  BY <1>2, <1>3, <1>4 DEF IncSeq

LEMMA RingKept ==
  ASSUME NoSeqWrap, RingInv, published < MaxPublish, published' = published + 1, ring' = append(ring)
  PROVE  RingInv' /\ ring'.head = ring.head + 1
<1> DEFINE n == ring.head + 1
<1>1. n \in Nat /\ IncSeq(ring.head) = n /\ RingCap \in Nat \ {0} /\ published = ring.head /\ published \in Nat /\ MaxPublish \in Nat
  BY RingFacts, RingAssumption, PublisherAssumption DEF RingInv
<1>2. /\ ring' = [head |-> n, seq |-> [ring.seq EXCEPT ![slot(n)] = n]]
      /\ ring.seq \in [RingSlots -> Nat]
  BY <1>1 DEF append, RingInv
<1>3. \A q \in Nat : slot(q) \in RingSlots
  BY <1>1 DEF slot, RingSlots
<1>4. ring' \in [head : Nat, seq : [RingSlots -> Nat]] /\ ring'.head = n
  BY <1>1, <1>2, <1>3
<1>5. ASSUME NEW q \in oldest(ring') .. n PROVE frame(ring', q) = q
  <2>1. q \in Nat /\ q <= n /\ n - q < RingCap /\ 1 <= q /\ (q < n => q \in oldest(ring) .. ring.head)
    <3>1. oldest(ring') = IF n > RingCap THEN n - RingCap + 1 ELSE 1
      BY <1>4 DEF oldest
    <3>2. \A h \in Nat, c \in Nat \ {0} : \A k :
            k \in (IF h + 1 > c THEN h + 1 - c + 1 ELSE 1) .. h + 1 =>
              /\ k \in Nat /\ k <= h + 1 /\ h + 1 - k < c /\ 1 <= k
              /\ k < h + 1 => k \in (IF h > c THEN h - c + 1 ELSE 1) .. h
      OBVIOUS
    <3>3. ring.head \in Nat
      BY RingFacts
    <3> QED
      BY <1>1, <1>5, <3>1, <3>2, <3>3 DEF oldest
  <2>2. CASE q = n
    BY <1>2, <1>3, <2>1, <2>2 DEF frame
  <2>3. CASE q < n
    <3>1. slot(q) # slot(n)
      BY <1>1, <2>1, <2>3, SlotsDiffer DEF slot
    <3>2. frame(ring', q) = frame(ring, q)
      BY <1>2, <1>3, <2>1, <3>1 DEF frame
    <3> QED
      BY <2>1, <2>3, <3>2 DEF RingInv
  <2> QED
    BY <1>1, <2>1, <2>2, <2>3
<1>6. published' \in Nat /\ published' <= MaxPublish /\ ring'.head = published'
  <2>1. published' = n /\ n <= MaxPublish
    BY <1>1
  <2> QED
    BY <1>1, <1>4, <2>1
<1> QED
  BY <1>4, <1>5, <1>6 DEF RingInv
------------------------------------------------------------------------------
(* The parts of pump(), on a subscriber s.                                 *)
Within(t) == Bytes(t) < MaxBacklog + FrameLen

LEMMA FramesSent ==
  /\ \A n \in Nat : Data(n) \in Sent /\ Data(n).kind = "data" /\ Heartbeat(n) \in Sent /\ Heartbeat(n).kind # "data"
  /\ \A m, n \in Nat : Gap(m, n) \in Sent /\ Gap(m, n).kind # "data"
BY DEF Data, Gap, Heartbeat, Sent

(* r is s with another queue and cursor; the clocks do not matter.         *)
Became(r, s, t, n) ==
  r \in Subs /\ r.tx = t /\ r.next_seq = n /\ r.rx = s.rx /\ r.subscribed = s.subscribed

LEMMA Queued == \A s \in Subs, t \in Seq(Sent) : Became([s EXCEPT !.tx = t], s, t, s.next_seq)
BY DEF Became, Subs

LEMMA Aimed == \A s \in Subs, n \in Nat : Became([s EXCEPT !.next_seq = n], s, s.tx, n)
BY DEF Became, Subs

LEMMA AgeValues == 0 \in Ages /\ None \in Ages
BY DEF Ages

LEMMA Timed == \A s \in Subs, a \in Ages : Became([s EXCEPT !.last_tx = a], s, s.tx, s.next_seq)
BY DEF Became, Subs

LEMMA BecameTrans ==
  ASSUME NEW s, NEW t, NEW n, NEW r, Became(r, s, t, n), NEW q, NEW u, NEW m, Became(q, r, u, m)
  PROVE  Became(q, s, u, m)
BY DEF Became

(* An enqueue_control, and a round of copies or a Gap that moves the       *)
(* cursor.                                                                 *)
LEMMA ControlFacts ==
  ASSUME NEW s \in Subs, NEW f \in Sent, NEW a \in Ages
  PROVE  Became(control(s, f, a), s, Append(s.tx, f), s.next_seq)
<1>1. s.tx \in Seq(Sent) /\ Append(s.tx, f) \in Seq(Sent)
  BY DEF Subs
<1>2. PICK r : r = [s EXCEPT !.tx = Append(s.tx, f)]
  BY Zenon
<1>3. Became(r, s, Append(s.tx, f), s.next_seq)
  BY <1>1, <1>2, Queued, Zenon
<1>4. Became([r EXCEPT !.last_tx = a], r, r.tx, r.next_seq)
  BY <1>3, Timed DEF Became
<1>5. control(s, f, a) = [r EXCEPT !.last_tx = a]
  BY <1>2 DEF control
<1> QED
  BY <1>3, <1>4, <1>5 DEF Became

LEMMA ControlMoved ==
  ASSUME NEW s \in Subs, NEW f \in Sent, NEW a \in Ages, NEW n \in Nat
  PROVE  Became([control(s, f, a) EXCEPT !.next_seq = n], s, Append(s.tx, f), n)
BY ControlFacts, Aimed DEF Became

LEMMA MovedFacts ==
  ASSUME NEW s \in Subs, NEW t \in Seq(Sent), NEW n \in Nat
  PROVE  Became([s EXCEPT !.tx = t, !.next_seq = n, !.last_tx = 0], s, t, n)
<1>1. PICK r : r = [s EXCEPT !.tx = t]
  BY Zenon
<1>2. PICK q : q = [r EXCEPT !.next_seq = n]
  BY Zenon
<1>3. [s EXCEPT !.tx = t, !.next_seq = n, !.last_tx = 0] = [q EXCEPT !.last_tx = 0]
  BY <1>1, <1>2
<1>4. Became(r, s, t, s.next_seq)
  BY <1>1, Queued
<1>5. Became(q, s, t, n)
  BY <1>2, <1>4, Aimed, SMTT(20) DEF Became
<1> QED
  BY <1>3, <1>5, Timed, AgeValues DEF Became

LEMMA GapFacts ==
  ASSUME NoSeqWrap, RingInv, NEW s \in Subs, s.next_seq \in 1 .. ring.head + 1
  PROVE  LET lapped == Bytes(s.tx) < MaxBacklog /\ s.next_seq < oldest(ring)
         IN /\ lapped => Became(gap_if_lapped(s), s, Append(s.tx, Gap(s.next_seq, oldest(ring))), oldest(ring))
            /\ ~ lapped => gap_if_lapped(s) = s
            /\ Within(s.tx) => Within(gap_if_lapped(s).tx)
<1> DEFINE lapped == Bytes(s.tx) < MaxBacklog /\ s.next_seq < oldest(ring)
           gap == Gap(s.next_seq, oldest(ring))
<1>1. ring.head \in Nat /\ s.next_seq \in Nat /\ s.tx \in Seq(Sent) /\ oldest(ring) \in Nat
  BY RingFacts DEF Subs
<1>2. gap \in Sent /\ gap.kind # "data"
  BY <1>1, FramesSent
<1>3. CASE lapped
  <2>1. gap_if_lapped(s) = [control(s, gap, 0) EXCEPT !.next_seq = oldest(ring)]
    BY <1>3, BacklogIsBytes DEF gap_if_lapped
  <2> HIDE DEF gap
  <2>3. Became(gap_if_lapped(s), s, Append(s.tx, gap), oldest(ring))
    BY <1>1, <1>2, <2>1, ControlMoved, AgeValues
  <2>4. Within(Append(s.tx, gap))
    <3>1. Bytes(Append(s.tx, gap)) = Bytes(s.tx) + ControlLen /\ Bytes(s.tx) \in Nat
      BY <1>1, <1>2, BytesControl, BytesType
    <3> QED
      BY <1>3, <3>1, Lengths, PublisherAssumption DEF Within
  <2>5. gap_if_lapped(s).tx = Append(s.tx, gap)
    BY <2>3 DEF Became
  <2> QED
    BY <1>3, <2>3, <2>4, <2>5 DEF gap
<1>4. CASE ~ lapped
  BY <1>1, <1>4, BacklogIsBytes DEF gap_if_lapped
<1> QED
  BY <1>3, <1>4

LEMMA CopiesFacts ==
  ASSUME NoSeqWrap, RingInv, NEW s \in Subs, s.next_seq \in 1 .. ring.head + 1
  PROVE  /\ copies(s) \in Nat /\ s.next_seq + copies(s) <= ring.head + 1
         /\ Bytes(s.tx) >= MaxBacklog => copies(s) = 0
         /\ copies(s) = 0 => s.next_seq = ring.head + 1 \/ Bytes(s.tx) >= MaxBacklog
         /\ copies(s) > 0 => Bytes(s.tx) + (copies(s) - 1) * FrameLen < MaxBacklog
<1> DEFINE stop(n) == (s.next_seq + n) % SeqMod > ring.head \/ Bytes(s.tx) + n * FrameLen >= MaxBacklog
           stops == {n \in 0 .. MaxBacklog : stop(n)}
<1>1. copies(s) = Min(stops)
  BY BacklogIsBytes, Zenon DEF copies
<1>2. /\ ring.head \in Nat /\ s.next_seq \in Nat /\ Bytes(s.tx) \in Nat /\ MaxBacklog \in Nat
      /\ FrameLen \in Nat /\ 1 <= FrameLen /\ 1 <= MaxBacklog
      /\ s.next_seq <= ring.head + 1 /\ \A x \in Nat : x <= ring.head + 1 => x % SeqMod = x
  BY RingFacts, BytesType, Lengths, PublisherAssumption DEF Subs
<1>3. MaxBacklog \in stops
  <2>1. MaxBacklog * FrameLen >= MaxBacklog /\ MaxBacklog * FrameLen \in Nat
    BY <1>2
  <2> QED
    BY <1>2, <2>1
<1>4. copies(s) \in 0 .. MaxBacklog /\ stop(copies(s)) /\ \A n \in 0 .. MaxBacklog : n < copies(s) => ~ stop(n)
  <2>1. stops \in SUBSET Nat
    BY <1>2
  <2> HIDE DEF stop
  <2>2. copies(s) \in stops /\ \A n \in stops : copies(s) <= n
    BY <1>1, <1>3, <2>1, MinProperty
  <2>3. copies(s) \in Nat /\ copies(s) \in 0 .. MaxBacklog
    BY <1>2, <2>2
  <2> QED
    BY <1>2, <2>2, <2>3
<1>5. PICK n \in 0 .. MaxBacklog : n = copies(s)
  BY <1>4
<1>6. s.next_seq + n <= ring.head + 1
  <2> SUFFICES ASSUME s.next_seq + n > ring.head + 1 PROVE FALSE
    BY <1>2
  <2>1. PICK m \in 0 .. MaxBacklog : m < n /\ s.next_seq + m = ring.head + 1
    <3>1. ring.head + 1 - s.next_seq \in 0 .. MaxBacklog
      BY <1>2
    <3> QED
      BY <1>2, <3>1
  <2>2. stop(m)
    BY <1>2, <2>1
  <2> HIDE DEF stop
  <2> QED
    BY <1>4, <1>5, <2>1, <2>2
<1>7. Bytes(s.tx) >= MaxBacklog => n = 0
  <2> SUFFICES ASSUME Bytes(s.tx) >= MaxBacklog, n > 0 PROVE FALSE
    BY <1>2
  <2>1. stop(0) /\ 0 \in 0 .. MaxBacklog
    BY <1>2
  <2> HIDE DEF stop
  <2> QED
    BY <1>4, <1>5, <2>1
<1>8. n = 0 => s.next_seq = ring.head + 1 \/ Bytes(s.tx) >= MaxBacklog
  <2> SUFFICES ASSUME n = 0 PROVE s.next_seq = ring.head + 1 \/ Bytes(s.tx) >= MaxBacklog
    OBVIOUS
  <2>1. stop(0)
    BY <1>4, <1>5
  <2>2. (s.next_seq + 0) % SeqMod = s.next_seq
    BY <1>2
  <2> QED
    BY <1>2, <2>1, <2>2
<1>9. n > 0 => Bytes(s.tx) + (n - 1) * FrameLen < MaxBacklog
  <2> SUFFICES ASSUME n > 0 PROVE Bytes(s.tx) + (n - 1) * FrameLen < MaxBacklog
    OBVIOUS
  <2>1. n - 1 \in 0 .. MaxBacklog /\ n - 1 < n
    BY <1>2
  <2>2. ~ stop(n - 1)
    <3> HIDE DEF stop
    <3> QED
      BY <1>4, <1>5, <2>1
  <2>3. (n - 1) * FrameLen \in Nat
    BY <1>2, <2>1
  <2> QED
    BY <1>2, <2>2, <2>3
<1> QED
  BY <1>2, <1>5, <1>6, <1>7, <1>8, <1>9

LEMMA CopyFacts ==
  ASSUME NoSeqWrap, RingInv, NEW s \in Subs, s.next_seq \in 1 .. ring.head + 1,
         s.next_seq >= oldest(ring) \/ Bytes(s.tx) >= MaxBacklog
  PROVE  /\ Became(copy_frames(s), s,
                   s.tx \o [k \in 1 .. copies(s) |-> Data(s.next_seq + k - 1)], s.next_seq + copies(s))
         /\ copies(s) = 0 => copy_frames(s) = s
         /\ Within(s.tx) => Within(copy_frames(s).tx)
<1> DEFINE n == copies(s)
           d == [k \in 1 .. n |-> Data(s.next_seq + k - 1)]
<1>1. /\ ring.head \in Nat /\ s.next_seq \in Nat /\ 1 <= s.next_seq /\ s.tx \in Seq(Sent)
      /\ \A x \in Nat : x <= ring.head + 1 => x % SeqMod = x
  BY RingFacts DEF Subs
<1>2. /\ n \in Nat /\ s.next_seq + n <= ring.head + 1
      /\ n > 0 => s.next_seq >= oldest(ring) /\ Bytes(s.tx) + (n - 1) * FrameLen < MaxBacklog
  BY CopiesFacts
<1> HIDE DEF n
<1>3. d \in Seq(Sent) /\ Len(d) = n /\ \A k \in 1 .. Len(d) : d[k].kind = "data"
  <2>1. \A k \in 1 .. n : s.next_seq + k - 1 \in Nat
    BY <1>1, <1>2
  <2> QED
    BY <1>2, <2>1, FramesSent
<1>4. CASE n = 0
  <2>1. d = << >> /\ s.tx \o d = s.tx /\ s.next_seq + n = s.next_seq
    BY <1>1, <1>4
  <2>2. copy_frames(s) = s
    BY <1>4 DEF copy_frames, n
  <2> QED
    BY <2>1, <2>2, Zenon DEF n, Became
<1>5. CASE n > 0
  <2>1. \A k \in 0 .. n : (s.next_seq + k) % SeqMod = s.next_seq + k
    BY <1>1, <1>2
  <2>2. \A k \in 1 .. n : frame(ring, (s.next_seq + (k - 1)) % SeqMod) = s.next_seq + k - 1
    <3> SUFFICES ASSUME NEW k \in 1 .. n PROVE frame(ring, (s.next_seq + (k - 1)) % SeqMod) = s.next_seq + k - 1
      OBVIOUS
    <3>1. k - 1 \in 0 .. n /\ s.next_seq + (k - 1) = s.next_seq + k - 1
      BY <1>1, <1>2
    <3>2. s.next_seq + k - 1 \in oldest(ring) .. ring.head
      BY <1>1, <1>2, <1>5, RingFacts
    <3> QED
      BY <2>1, <3>1, <3>2 DEF RingInv
  <2>3. copy_frames(s) = [s EXCEPT !.tx = s.tx \o d, !.next_seq = s.next_seq + n, !.last_tx = 0]
    <3>1. [k \in 1 .. n |-> Data(frame(ring, (s.next_seq + (k - 1)) % SeqMod))] = d
      BY <2>2
    <3>2. (s.next_seq + n) % SeqMod = s.next_seq + n
      BY <1>2, <2>1
    <3>3. n # 0
      BY <1>2, <1>5
    <3>4. copy_frames(s) = [s EXCEPT !.tx = s.tx \o [k \in 1 .. n |-> Data(frame(ring, (s.next_seq + (k - 1)) % SeqMod))],
                                     !.next_seq = (s.next_seq + n) % SeqMod, !.last_tx = 0]
      BY <3>3, Zenon DEF copy_frames, n
    <3> HIDE DEF d
    <3> QED
      BY <3>1, <3>2, <3>4, Zenon
  <2> HIDE DEF d
  <2>4. s.tx \o d \in Seq(Sent) /\ s.next_seq + n \in Nat
    BY <1>1, <1>2, <1>3
  <2>5. Became(copy_frames(s), s, s.tx \o d, s.next_seq + n)
    BY <2>3, <2>4, MovedFacts, ZenonT(30)
  <2>6. Within(s.tx \o d)
    <3>1. Bytes(s.tx \o d) = Bytes(s.tx) + n * FrameLen /\ Bytes(s.tx) \in Nat
      BY <1>1, <1>3, BytesData, BytesType
    <3>2. n * FrameLen = (n - 1) * FrameLen + FrameLen /\ (n - 1) * FrameLen \in Nat
      BY <1>2, <1>5, Lengths
    <3> QED
      BY <1>2, <1>5, <3>1, <3>2, Lengths, PublisherAssumption DEF Within
  <2>7. copy_frames(s).tx = s.tx \o d
    BY <2>5 DEF Became
  <2> QED
    BY <1>5, <2>5, <2>6, <2>7 DEF d, n
<1> QED
  BY <1>2, <1>4, <1>5

LEMMA BeatFacts ==
  ASSUME NoSeqWrap, RingInv, NEW s \in Subs
  PROVE  /\ \/ heartbeat_if_idle(s) = s
            \/ s.tx = << >> /\ Became(heartbeat_if_idle(s), s, Append(s.tx, Heartbeat(ring.head)), s.next_seq)
         /\ Within(s.tx) => Within(heartbeat_if_idle(s).tx)
<1> DEFINE beat == Heartbeat(ring.head)
<1>1. CASE s.last_tx >= HeartbeatMs /\ ~ pending(s)
  <2>1. s.tx = << >> /\ s.tx \in Seq(Sent) /\ ring.head \in Nat
    BY <1>1, RingFacts DEF pending, Subs
  <2>2. beat \in Sent /\ beat.kind # "data"
    BY <2>1, FramesSent
  <2>3. heartbeat_if_idle(s) = control(s, beat, 0)
    BY <1>1 DEF heartbeat_if_idle
  <2> HIDE DEF beat
  <2>4. Became(heartbeat_if_idle(s), s, Append(s.tx, beat), s.next_seq)
    BY <2>2, <2>3, ControlFacts, AgeValues
  <2>5. Bytes(Append(s.tx, beat)) = 0 + ControlLen
    BY <2>1, <2>2, BytesControl, BytesEmpty, Zenon
  <2>6. Within(Append(s.tx, beat))
    BY <2>5, Lengths, PublisherAssumption DEF Within
  <2>7. heartbeat_if_idle(s).tx = Append(s.tx, beat)
    BY <2>4 DEF Became
  <2> QED
    BY <2>1, <2>4, <2>6, <2>7 DEF beat
<1>2. CASE ~ (s.last_tx >= HeartbeatMs /\ ~ pending(s))
  BY <1>2 DEF heartbeat_if_idle
<1> QED
  BY <1>1, <1>2

(* What a pump adds to a queue and does to the cursor: nothing, a Gap and  *)
(* frames as in MdStream!Serve, or a heartbeat as in MdStream!Beat.        *)
First(c) == IF c < oldest(ring) THEN oldest(ring) ELSE c
Missed(c) == IF c < oldest(ring) THEN << Gap(c, oldest(ring)) >> ELSE << >>

Served(t, c, u, d, n) ==
  /\ n > 0 \/ c < oldest(ring)
  /\ First(c) + n <= ring.head + 1
  /\ d = First(c) + n
  /\ u = (t \o Missed(c)) \o [k \in 1 .. n |-> Data(First(c) + k - 1)]

Pumped(t, c, u, d) ==
  \/ u = t /\ d = c
  \/ \E n \in 0 .. ring.head : Served(t, c, u, d, n)
  \/ c = ring.head + 1 /\ d = c /\ u = Append(t, Heartbeat(ring.head))

LEMMA SupplyFacts ==
  ASSUME NoSeqWrap, RingInv, NEW s \in Subs, s.next_seq \in 1 .. ring.head + 1,
         NEW r, r = copy_frames(gap_if_lapped(s))
  PROVE  /\ Became(r, s, r.tx, r.next_seq) /\ r.next_seq \in 1 .. ring.head + 1
         /\ (r.tx = s.tx /\ r.next_seq = s.next_seq) \/ \E n \in 0 .. ring.head : Served(s.tx, s.next_seq, r.tx, r.next_seq, n)
         /\ r.tx = << >> => r.next_seq = ring.head + 1 /\ s.tx = << >> /\ r.next_seq = s.next_seq
         /\ Within(s.tx) => Within(r.tx)
<1> DEFINE c == s.next_seq
           lapped == Bytes(s.tx) < MaxBacklog /\ c < oldest(ring)
<1>1. /\ ring.head \in Nat /\ c \in Nat /\ s.tx \in Seq(Sent) /\ 1 <= c /\ c <= ring.head + 1
      /\ oldest(ring) \in Nat /\ 1 <= oldest(ring) /\ oldest(ring) <= ring.head + 1
      /\ Bytes(s.tx) \in Nat /\ MaxBacklog \in Nat \ {0}
  BY RingFacts, BytesType, PublisherAssumption DEF Subs
<1>2. PICK g : g = gap_if_lapped(s)
  OBVIOUS
<1>3. PICK n : n = copies(g)
  OBVIOUS
<1> DEFINE d(x) == [k \in 1 .. n |-> Data(x + k - 1)]
<1>4. CASE lapped
  <2> DEFINE gap == Gap(c, oldest(ring))
  <2>1. Became(g, s, Append(s.tx, gap), oldest(ring)) /\ (Within(s.tx) => Within(g.tx))
    BY <1>2, <1>4, GapFacts
  <2>2. g \in Subs /\ g.next_seq = oldest(ring) /\ g.next_seq \in 1 .. ring.head + 1
    BY <1>1, <2>1 DEF Became
  <2>3. /\ Became(r, g, g.tx \o d(oldest(ring)), oldest(ring) + n)
        /\ Within(g.tx) => Within(r.tx)
    BY <1>1, <1>2, <1>3, <2>2, CopyFacts
  <2>4. n \in Nat /\ oldest(ring) + n <= ring.head + 1
    BY <1>3, <2>2, CopiesFacts
  <2>5. gap \in Sent
    BY <1>1, FramesSent
  <2>6. First(c) = oldest(ring) /\ Missed(c) = << gap >>
    BY <1>4 DEF First, Missed
  <2>7. \A x \in Seq(Sent), y \in Sent : Append(x, y) = x \o << y >>
    OBVIOUS
  <2> HIDE DEF gap
  <2>8. r.tx = (s.tx \o << gap >>) \o d(oldest(ring)) /\ r.next_seq = oldest(ring) + n
    BY <1>1, <2>1, <2>3, <2>5, <2>7, Zenon DEF Became
  <2>9. Served(s.tx, c, r.tx, r.next_seq, n)
    BY <1>4, <2>4, <2>6, <2>8 DEF Served
  <2>10. r.tx # << >>
    <3>1. d(oldest(ring)) \in Seq(Sent)
      BY <1>1, <2>4, FramesSent
    <3> HIDE DEF d
    <3>2. Len((s.tx \o << gap >>) \o d(oldest(ring))) > 0
      BY <1>1, <2>5, <3>1
    <3> QED
      BY <2>8, <3>2
  <2>11. n \in 0 .. ring.head /\ r.next_seq \in 1 .. ring.head + 1
    BY <1>1, <2>4, <2>8
  <2>12. Became(r, s, r.tx, r.next_seq)
    BY <2>1, <2>3 DEF Became
  <2> QED
    BY <2>1, <2>3, <2>9, <2>10, <2>11, <2>12, SMTT(20)
<1>5. CASE ~ lapped
  <2>1. g = s
    BY <1>2, <1>5, GapFacts
  <2>2. c >= oldest(ring) \/ Bytes(s.tx) >= MaxBacklog
    BY <1>1, <1>5
  <2>3. /\ Became(r, s, s.tx \o d(c), c + n) /\ (n = 0 => r = s)
        /\ Within(s.tx) => Within(r.tx)
    BY <1>2, <1>3, <2>1, <2>2, CopyFacts
  <2>4. /\ n \in Nat /\ c + n <= ring.head + 1
        /\ Bytes(s.tx) >= MaxBacklog => n = 0
        /\ n = 0 => c = ring.head + 1 \/ Bytes(s.tx) >= MaxBacklog
    BY <1>3, <2>1, CopiesFacts
  <2>5. r.tx = s.tx \o d(c) /\ r.next_seq = c + n
    BY <2>3 DEF Became
  <2>6. n \in 0 .. ring.head /\ r.next_seq \in 1 .. ring.head + 1
    BY <1>1, <2>4, <2>5
  <2>7. d(c) \in Seq(Sent) /\ Len(d(c)) = n
    BY <1>1, <2>4, FramesSent
  <2>8. ASSUME n > 0 PROVE Served(s.tx, c, r.tx, r.next_seq, n)
    <3>1. First(c) = c /\ Missed(c) = << >>
      BY <1>1, <2>2, <2>4, <2>8 DEF First, Missed
    <3>2. s.tx \o << >> = s.tx
      BY <1>1
    <3> QED
      BY <2>4, <2>5, <2>8, <3>1, <3>2 DEF Served
  <2>9. ASSUME r.tx = << >> PROVE c = ring.head + 1 /\ s.tx = << >> /\ n = 0
    <3> HIDE DEF d
    <3>1. Len(s.tx) = 0 /\ Len(d(c)) = 0 /\ s.tx = << >>
      <4>1. \A x, y \in Seq(Sent) : x \o y = << >> => Len(x) = 0 /\ Len(y) = 0 /\ x = << >>
        OBVIOUS
      <4> QED
        BY <1>1, <2>5, <2>7, <2>9, <4>1, Zenon
    <3>2. Bytes(s.tx) = 0
      BY <3>1, BytesEmpty
    <3> QED
      BY <1>1, <2>4, <2>7, <3>1, <3>2
  <2>10. Became(r, s, r.tx, r.next_seq)
    BY <2>3 DEF Became
  <2>11. n > 0 \/ n = 0
    BY <2>4
  <2> QED
    BY <1>1, <2>3, <2>5, <2>6, <2>8, <2>9, <2>10, <2>11, Zenon
<1> QED
  BY <1>4, <1>5

LEMMA RefillFacts ==
  ASSUME NoSeqWrap, RingInv, NEW s \in Subs, s.subscribed => s.next_seq \in 1 .. ring.head + 1,
         NEW r, r = refill(s)
  PROVE  /\ Became(r, s, r.tx, r.next_seq)
         /\ s.subscribed => r.next_seq \in 1 .. ring.head + 1 /\ Pumped(s.tx, s.next_seq, r.tx, r.next_seq)
         /\ ~ s.subscribed => r.tx = s.tx /\ r.next_seq = s.next_seq
         /\ Within(s.tx) => Within(r.tx)
<1>1. PICK q : q = start_clock(s)
  OBVIOUS
<1>2. Became(q, s, s.tx, s.next_seq)
  <2>1. CASE s.last_tx = None
    BY <1>1, <2>1, Timed, AgeValues DEF start_clock
  <2>2. CASE s.last_tx # None
    BY <1>1, <2>2 DEF start_clock, Became
  <2> QED
    BY <2>1, <2>2
<1>3. CASE ~ s.subscribed
  <2>1. r = q
    BY <1>1, <1>2, <1>3 DEF refill, Became
  <2> QED
    BY <1>2, <1>3, <2>1 DEF Became
<1>4. CASE s.subscribed
  <2>1. PICK c : c = copy_frames(gap_if_lapped(q))
    OBVIOUS
  <2>2. r = heartbeat_if_idle(c)
    BY <1>1, <1>2, <1>4, <2>1 DEF refill, Became
  <2>3. q \in Subs /\ q.next_seq = s.next_seq /\ q.tx = s.tx /\ q.next_seq \in 1 .. ring.head + 1
    BY <1>2, <1>4 DEF Became
  <2>4. /\ Became(c, q, c.tx, c.next_seq) /\ c.next_seq \in 1 .. ring.head + 1
        /\ (c.tx = s.tx /\ c.next_seq = s.next_seq) \/ \E n \in 0 .. ring.head : Served(s.tx, s.next_seq, c.tx, c.next_seq, n)
        /\ c.tx = << >> => c.next_seq = ring.head + 1 /\ s.tx = << >> /\ c.next_seq = s.next_seq
        /\ Within(s.tx) => Within(c.tx)
    BY <2>1, <2>3, SupplyFacts
  <2>5. Became(c, s, c.tx, c.next_seq) /\ c \in Subs
    BY <1>2, <2>4 DEF Became
  <2>6. /\ r = c \/ (c.tx = << >> /\ Became(r, c, Append(c.tx, Heartbeat(ring.head)), c.next_seq))
        /\ Within(c.tx) => Within(r.tx)
    BY <2>2, <2>5, BeatFacts
  <2>7. CASE r = c
    BY <1>4, <2>4, <2>5, <2>6, <2>7, SMTT(20) DEF Pumped
  <2>8. CASE c.tx = << >> /\ Became(r, c, Append(c.tx, Heartbeat(ring.head)), c.next_seq)
    <3>1. Became(r, s, r.tx, r.next_seq) /\ r.tx = Append(c.tx, Heartbeat(ring.head)) /\ r.next_seq = c.next_seq
      BY <2>5, <2>8 DEF Became
    <3>2. s.tx = c.tx /\ s.next_seq = ring.head + 1 /\ c.next_seq = s.next_seq
      BY <2>4, <2>8
    <3> QED
      BY <1>4, <2>4, <2>6, <3>1, <3>2, SMTT(20) DEF Pumped
  <2> QED
    BY <2>6, <2>7, <2>8
<1> QED
  BY <1>3, <1>4

(* flush_and_arm of n frames, and the stall clock.                         *)
LEMMA ArmFacts ==
  ASSUME NEW s \in Subs, NEW n \in 0 .. Len(s.tx), NEW r, r = flush_and_arm(s, n)
  PROVE  /\ Became(r, s, SubSeq(s.tx, n + 1, Len(s.tx)), s.next_seq)
         /\ r.want_write = (r.tx # << >>)
<1>1. PICK rest : rest = SubSeq(s.tx, n + 1, Len(s.tx))
  BY Zenon
<1>2. rest \in Seq(Sent)
  BY <1>1 DEF Subs
<1>3. r = [s EXCEPT !.tx = rest, !.want_write = rest # << >>]
  BY <1>1 DEF flush_and_arm
<1>4. Became(r, s, rest, s.next_seq) /\ r.want_write = (rest # << >>)
  BY <1>2, <1>3, Zenon DEF Became, Subs
<1> QED
  BY <1>1, <1>4 DEF Became

LEMMA AfterFlushFacts ==
  ASSUME NEW s \in Subs, NEW n \in 0 .. Len(s.tx), NEW r, r = after_flush(s, n)
  PROVE  /\ Became(r, s, SubSeq(s.tx, n + 1, Len(s.tx)), s.next_seq)
         /\ r.want_write = (r.tx # << >>)
<1>1. PICK q : q = flush_and_arm(s, n)
  OBVIOUS
<1>2. Became(q, s, SubSeq(s.tx, n + 1, Len(s.tx)), s.next_seq) /\ q.want_write = (q.tx # << >>)
  BY <1>1, ArmFacts
<1>3. PICK a \in Ages : r = [q EXCEPT !.stalled = a]
  <2>1. q.stalled \in Ages
    BY <1>2 DEF Became, Subs
  <2>2. r = [q EXCEPT !.stalled = IF pending(q) /\ n = 0 THEN (IF q.stalled = None THEN 0 ELSE q.stalled) ELSE None]
    BY <1>1 DEF after_flush
  <2>3. (IF pending(q) /\ n = 0 THEN (IF q.stalled = None THEN 0 ELSE q.stalled) ELSE None) \in Ages
    BY <2>1, AgeValues
  <2> QED
    BY <2>2, <2>3
<1>4. Became(r, q, q.tx, q.next_seq) /\ r.want_write = q.want_write
  BY <1>2, <1>3, Zenon DEF Became, Subs
<1> QED
  BY <1>2, <1>4 DEF Became

(* How many frames a flush moves.                                          *)
LEMMA FlushableFacts ==
  ASSUME NEW s \in Subs, NEW q \in Seq(Sent), Len(q) <= SockCap,
         NEW n, n = Flushable(s, SockCap - Len(q))
  PROVE  n \in 0 .. Len(s.tx) /\ Len(q) + n <= SockCap
<1>1. Len(s.tx) \in Nat /\ Len(q) \in Nat /\ SockCap \in Nat /\ SockCap - Len(q) \in Nat
  BY PublisherAssumption DEF Subs
<1> DEFINE l == Len(s.tx)
           room == SockCap - Len(q)
<1>2. n = Min({l, room})
  BY DEF Flushable
<1>3. Min({l, room}) \in {l, room} /\ \A y \in {l, room} : Min({l, room}) <= y
  BY <1>1, MinProperty, Zenon
<1> QED
  BY <1>1, <1>2, <1>3

(* A flush moves frames from the queue to the socket: what is on its way   *)
(* stays the same.                                                         *)
LEMMA CutAndJoin ==
  ASSUME NEW t \in Seq(Sent), NEW q \in Seq(Sent), NEW n \in 0 .. Len(t)
  PROVE  /\ q \o SubSeq(t, 1, n) \in Seq(Sent) /\ Len(q \o SubSeq(t, 1, n)) = Len(q) + n
         /\ (q \o SubSeq(t, 1, n)) \o SubSeq(t, n + 1, Len(t)) = q \o t
<1> DEFINE a == SubSeq(t, 1, n)
           b == SubSeq(t, n + 1, Len(t))
<1>1. n \in Nat /\ Len(t) \in Nat /\ n <= Len(t)
  OBVIOUS
<1>2. a \in Seq(Sent) /\ Len(a) = n /\ b \in Seq(Sent)
  BY <1>1
<1>3. a \o b = t
  <2>1. 1 \in 1 .. Len(t) + 1 /\ n \in 1 - 1 .. Len(t) /\ Len(t) \in n .. Len(t)
    BY <1>1
  <2>2. a \o b = SubSeq(t, 1, Len(t))
    BY <2>1, ConcatAdjacentSubSeq, Zenon
  <2> QED
    BY <2>2, SubSeqFull, Zenon
<1> HIDE DEF a, b
<1>4. (q \o a) \o b = q \o (a \o b)
  BY <1>2, ConcatAssociative
<1>5. q \o a \in Seq(Sent) /\ Len(q \o a) = Len(q) + n
  BY <1>2, ConcatProperties, Zenon
<1> QED
  BY <1>3, <1>4, <1>5, Zenon DEF a, b
==============================================================================
