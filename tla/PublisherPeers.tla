--------------------------- MODULE PublisherPeers ----------------------------
(***************************************************************************)
(* What each handler does to one peer, for any ring, limits and timeouts:  *)
(* the inductive invariant of a peer, and the step of its stream.          *)
(***************************************************************************)
EXTENDS PublisherPump

(* A peer, with its connection, subscriber, socket and inbox, when the     *)
(* newest frame is h: a live cursor is in 1 .. h + 1, a peer that has not  *)
(* subscribed gets nothing, the backlog is within its bound, and the       *)
(* second piece of what the peer sends is a from_seq.                      *)
SecondPiece(r) == Len(r) >= 2 => r[2] \in [from : FromSeqs]

PeerOK(c, s, q, i, h) ==
  /\ c \in {"new", "open", "closed"}
  /\ s \in Subs /\ q \in Seq(Sent) /\ i \in Seq(Piece)
  /\ Len(q) <= SockCap
  /\ Within(s.tx)
  /\ s.subscribed => s.next_seq \in 1 .. h + 1
  /\ ~ s.subscribed => s.next_seq = 0 /\ s.tx = << >>
  /\ c # "open" => s = NewSubscriber /\ q = << >> /\ i = << >>
  /\ SecondPiece(s.rx \o i)

LEMMA NewOK ==
  ASSUME NEW c \in {"new", "open", "closed"}, NEW h
  PROVE  PeerOK(c, NewSubscriber, << >>, << >>, h)
<1>1. NewSubscriber \in Subs
  BY AgeValues DEF NewSubscriber, Subs
<1>2. Within(<< >>)
  BY BytesEmpty, PublisherAssumption DEF Within
<1>3. Len(<< >>) <= SockCap /\ SecondPiece(<< >> \o << >>)
  BY PublisherAssumption DEF SecondPiece
<1> QED
  BY <1>1, <1>2, <1>3 DEF PeerOK, NewSubscriber

(* The subscriber r that s has become before a flush.                      *)
Ready(r, s, h) ==
  /\ Became(r, s, r.tx, r.next_seq) /\ Within(r.tx)
  /\ r.subscribed => r.next_seq \in 1 .. h + 1
  /\ ~ r.subscribed => r.next_seq = 0 /\ r.tx = << >>

Cut(f, r, n) == Became(f, r, SubSeq(r.tx, n + 1, Len(r.tx)), r.next_seq)

Fits(n, r, q) == n = Flushable(r, SockCap - Len(q))

Written(f, q, r, n, i, h) ==
  /\ PeerOK("open", f, q \o SubSeq(r.tx, 1, n), i, h)
  /\ (q \o SubSeq(r.tx, 1, n)) \o f.tx = q \o r.tx

LEMMA WriteOK ==
  ASSUME NEW s, NEW q, NEW i, NEW h, PeerOK("open", s, q, i, h), NEW r, Ready(r, s, h),
         NEW n, Fits(n, r, q), NEW f, Cut(f, r, n)
  PROVE  Written(f, q, r, n, i, h)
<1>0. r \in Subs /\ s \in Subs
  BY DEF Ready, Became, PeerOK
<1>1. q \in Seq(Sent) /\ Len(q) <= SockCap /\ i \in Seq(Piece) /\ r.tx \in Seq(Sent) /\ SecondPiece(s.rx \o i)
  BY <1>0 DEF PeerOK, Subs
<1>2. n \in 0 .. Len(r.tx) /\ Len(q) + n <= SockCap
  BY <1>0, <1>1, FlushableFacts DEF Fits
<1>3. PICK u : u = SubSeq(r.tx, n + 1, Len(r.tx))
  BY Zenon
<1>4. PICK v : v = q \o SubSeq(r.tx, 1, n)
  BY Zenon
<1>5. v \in Seq(Sent) /\ Len(v) = Len(q) + n /\ v \o u = q \o r.tx
  BY <1>1, <1>2, <1>3, <1>4, CutAndJoin, Zenon
<1>6. u \in Seq(Sent) /\ Bytes(u) <= Bytes(r.tx)
  BY <1>1, <1>2, <1>3, BytesSuffix
<1>7. Within(u)
  <2>1. Bytes(u) \in Nat /\ Bytes(r.tx) \in Nat /\ MaxBacklog + FrameLen \in Nat
    BY <1>1, <1>6, BytesType, PublisherAssumption
  <2> QED
    BY <1>6, <2>1 DEF Within, Ready
<1>8. f \in Subs /\ f.tx = u /\ f.next_seq = r.next_seq /\ f.rx = s.rx /\ f.subscribed = r.subscribed
  BY <1>3 DEF Became, Ready, Cut
<1>9. r.tx = << >> => u = << >>
  BY <1>1, <1>2, <1>3
<1> QED
  BY <1>1, <1>2, <1>4, <1>5, <1>7, <1>8, <1>9, Zenon DEF PeerOK, Ready, Written

(* pump(): the peer stays as it should be, and what is on its way grows by *)
(* what the refill added.                                                  *)
PumpResult(s, q, i, r, n, f) ==
  /\ PeerOK("open", f, q \o SubSeq(r.tx, 1, n), i, ring.head)
  /\ (q \o SubSeq(r.tx, 1, n)) \o f.tx = q \o r.tx
  /\ f.want_write = (f.tx # << >>) /\ f.subscribed = s.subscribed /\ f.next_seq = r.next_seq
  /\ s.subscribed => Pumped(s.tx, s.next_seq, r.tx, r.next_seq)
  /\ ~ s.subscribed => r.tx = s.tx /\ r.next_seq = s.next_seq

LEMMA PumpOK ==
  ASSUME NoSeqWrap, RingInv, NEW s, NEW q, NEW i, PeerOK("open", s, q, i, ring.head)
  PROVE  LET r == refill(s)
             n == Flushable(r, SockCap - Len(q))
         IN PumpResult(s, q, i, r, n, after_flush(r, n))
<1>0. PICK r, n, f : r = refill(s) /\ n = Flushable(r, SockCap - Len(q)) /\ f = after_flush(r, n)
  OBVIOUS
<1>1. s \in Subs /\ (s.subscribed => s.next_seq \in 1 .. ring.head + 1) /\ Within(s.tx)
  BY DEF PeerOK
<1>2. /\ Became(r, s, r.tx, r.next_seq) /\ Within(r.tx)
      /\ s.subscribed => r.next_seq \in 1 .. ring.head + 1 /\ Pumped(s.tx, s.next_seq, r.tx, r.next_seq)
      /\ ~ s.subscribed => r.tx = s.tx /\ r.next_seq = s.next_seq
  BY <1>0, <1>1, RefillFacts
<1>3. r \in Subs /\ r.subscribed = s.subscribed
  BY <1>2 DEF Became
<1>4. n \in 0 .. Len(r.tx)
  BY <1>0, <1>3, FlushableFacts DEF PeerOK
<1>5. Became(f, r, SubSeq(r.tx, n + 1, Len(r.tx)), r.next_seq) /\ f.want_write = (f.tx # << >>)
  BY <1>0, <1>3, <1>4, AfterFlushFacts
<1>6. /\ r.subscribed => r.next_seq \in 1 .. ring.head + 1
      /\ ~ r.subscribed => r.next_seq = 0 /\ r.tx = << >>
  BY <1>2, <1>3 DEF PeerOK
<1>9. Ready(r, s, ring.head) /\ Cut(f, r, n) /\ Fits(n, r, q)
  BY <1>0, <1>2, <1>5, <1>6 DEF Ready, Cut, Fits
<1>7. /\ PeerOK("open", f, q \o SubSeq(r.tx, 1, n), i, ring.head)
      /\ (q \o SubSeq(r.tx, 1, n)) \o f.tx = q \o r.tx
  <2>1. Written(f, q, r, n, i, ring.head)
    BY <1>9, WriteOK
  <2> QED
    BY <2>1, Zenon DEF Written
<1>8. f.subscribed = s.subscribed /\ f.next_seq = r.next_seq
  BY <1>3, <1>5 DEF Became
<1>10. PumpResult(s, q, i, r, n, f)
  BY <1>2, <1>5, <1>7, <1>8, Zenon DEF PumpResult
<1> QED
  BY <1>0, <1>10

(* The flush of on_writable().                                             *)
ResumeResult(s, q, i, h, n, f) ==
  /\ PeerOK("open", f, q \o SubSeq(s.tx, 1, n), i, h)
  /\ (q \o SubSeq(s.tx, 1, n)) \o f.tx = q \o s.tx
  /\ f.want_write = (f.tx # << >>) /\ f.subscribed = s.subscribed /\ f.next_seq = s.next_seq

LEMMA ResumeWriteOK ==
  ASSUME NEW s, NEW q, NEW i, NEW h, PeerOK("open", s, q, i, h)
  PROVE  LET n == Flushable(s, SockCap - Len(q)) IN ResumeResult(s, q, i, h, n, flush_and_arm(s, n))
<1>0. PICK n, f : n = Flushable(s, SockCap - Len(q)) /\ f = flush_and_arm(s, n)
  OBVIOUS
<1>1. s \in Subs /\ n \in 0 .. Len(s.tx)
  BY <1>0, FlushableFacts DEF PeerOK
<1>2. Became(f, s, SubSeq(s.tx, n + 1, Len(s.tx)), s.next_seq) /\ f.want_write = (f.tx # << >>)
  BY <1>0, <1>1, ArmFacts
<1>3. /\ Became(s, s, s.tx, s.next_seq) /\ Within(s.tx)
      /\ s.subscribed => s.next_seq \in 1 .. h + 1
      /\ ~ s.subscribed => s.next_seq = 0 /\ s.tx = << >>
  BY <1>1 DEF Became, PeerOK
<1>5. Ready(s, s, h) /\ Cut(f, s, n) /\ Fits(n, s, q)
  BY <1>0, <1>2, <1>3 DEF Ready, Cut, Fits
<1>4. /\ PeerOK("open", f, q \o SubSeq(s.tx, 1, n), i, h)
      /\ (q \o SubSeq(s.tx, 1, n)) \o f.tx = q \o s.tx
  <2>1. Written(f, q, s, n, i, h)
    BY <1>5, WriteOK
  <2> QED
    BY <2>1, Zenon DEF Written
<1>6. ResumeResult(s, q, i, h, n, f)
  BY <1>2, <1>4, Zenon DEF Became, ResumeResult
<1> QED
  BY <1>0, <1>6

(* What has arrived is moved into the receive buffer; a Subscribe frame    *)
(* empties it.                                                             *)
Received(s, i) == [s EXCEPT !.rx = s.rx \o i]
Resubscribed(w) == [w EXCEPT !.rx = << >>, !.subscribed = TRUE]
Redirected(s, n) == [s EXCEPT !.next_seq = n]

LEMMA ReceivedFacts ==
  ASSUME NEW s \in Subs, NEW i \in Seq(Piece)
  PROVE  /\ Received(s, i) \in Subs /\ Received(s, i).tx = s.tx /\ Received(s, i).next_seq = s.next_seq
         /\ Received(s, i).rx = s.rx \o i /\ Received(s, i).subscribed = s.subscribed
         /\ Received(s, i).want_write = s.want_write
<1>1. s.rx \o i \in Seq(Piece)
  BY DEF Subs
<1> QED
  BY <1>1, Zenon DEF Subs, Received

LEMMA ResubscribedFacts ==
  ASSUME NEW w \in Subs
  PROVE  LET v == Resubscribed(w) IN v \in Subs /\ v.rx = << >> /\ v.subscribed = TRUE /\ v.tx = w.tx
<1>1. << >> \in Seq(Piece)
  OBVIOUS
<1>2. PICK e : e = << >>
  OBVIOUS
<1>3. PICK v : v = [w EXCEPT !.rx = e, !.subscribed = TRUE]
  OBVIOUS
<1>4. v \in Subs /\ v.rx = e /\ v.subscribed = TRUE /\ v.tx = w.tx
  BY <1>1, <1>2, <1>3, Zenon DEF Subs
<1>5. Resubscribed(w) = v
  BY <1>2, <1>3, Zenon DEF Resubscribed
<1> QED
  BY <1>2, <1>4, <1>5

LEMMA RedirectedFacts ==
  ASSUME NEW s \in Subs, NEW n \in Nat
  PROVE  /\ Became(Redirected(s, n), s, s.tx, n)
         /\ \A f \in Sent, a \in Ages : Became(Redirected(control(s, f, a), n), s, Append(s.tx, f), n)
BY Aimed, ControlMoved DEF Redirected

LEMMA WaitOK ==
  ASSUME NEW s, NEW q, NEW i, NEW h, PeerOK("open", s, q, i, h),
         NEW w, w = Received(s, i), Len(w.rx) < 2
  PROVE  PeerOK("open", w, q, << >>, h)
<1>1. /\ w \in Subs /\ w.rx = s.rx \o i /\ w.tx = s.tx /\ w.next_seq = s.next_seq
      /\ w.subscribed = s.subscribed
  BY ReceivedFacts, Zenon DEF PeerOK
<1>2. w.rx \o << >> = w.rx /\ Len(w.rx) \in Nat
  <2>1. w.rx \in Seq(Piece)
    BY <1>1, Zenon DEF Subs
  <2> QED
    BY <2>1, ConcatEmptySeq
<1>3. SecondPiece(w.rx \o << >>)
  BY <1>2 DEF SecondPiece
<1> QED
  BY <1>1, <1>3 DEF PeerOK

Accepts(s, i, w, from, f) ==
  w = Received(s, i) /\ Len(w.rx) >= 2 /\ ~ bad_frame(w) /\ from = w.rx[2].from /\ f = resume_at(w, from)

Accepted(s, q, from, f) ==
  /\ PeerOK("open", f, q, << >>, ring.head)
  /\ from \in FromSeqs /\ ~ s.subscribed /\ f.subscribed
  /\ f.next_seq = IF from = 0 \/ from > ring.head + 1 THEN ring.head + 1 ELSE from
  /\ f.tx = IF from > ring.head + 1 THEN Append(s.tx, Gap(from, ring.head + 1)) ELSE s.tx

LEMMA AcceptOK ==
  ASSUME NoSeqWrap, RingInv, NEW s, NEW q, NEW i, PeerOK("open", s, q, i, ring.head),
         NEW w, NEW from, NEW f, Accepts(s, i, w, from, f)
  PROVE  Accepted(s, q, from, f)
<1>0. w = Received(s, i) /\ Len(w.rx) >= 2 /\ ~ bad_frame(w) /\ from = w.rx[2].from /\ f = resume_at(w, from)
  BY Zenon DEF Accepts
<1> DEFINE next == ring.head + 1
<1>1. /\ w \in Subs /\ w.rx = s.rx \o i /\ w.tx = s.tx /\ w.next_seq = s.next_seq
      /\ w.subscribed = s.subscribed
  BY <1>0, ReceivedFacts, Zenon DEF PeerOK
<1>2. from \in FromSeqs /\ from \in Nat
  BY <1>0, <1>1, PublisherAssumption, Zenon DEF PeerOK, SecondPiece
<1>3. ~ s.subscribed /\ s.tx = << >> /\ Within(s.tx) /\ s.tx \in Seq(Sent)
  BY <1>0, <1>1 DEF bad_frame, PeerOK, Subs
<1>4. /\ next \in Nat /\ IncSeq(ring.head) = next /\ 1 <= next
      /\ \A x \in Nat : x <= next => x % SeqMod = x
  BY RingFacts
<1>5. PICK v : v = Resubscribed(w)
  OBVIOUS
<1>6. v \in Subs /\ v.rx = << >> /\ v.subscribed = TRUE /\ v.tx = s.tx
  BY <1>1, <1>5, ResubscribedFacts, ZenonT(30)
<1>7. f = IF from = 0 THEN Redirected(v, next)
          ELSE IF from > next THEN Redirected(control(v, Gap(from, next), None), next)
          ELSE Redirected(v, from % SeqMod)
  BY <1>0, <1>4, <1>5 DEF resume_at, Resubscribed, Redirected
<1> DEFINE start == IF from = 0 \/ from > next THEN next ELSE from
           queue == IF from > next THEN Append(s.tx, Gap(from, next)) ELSE s.tx
<1>8. Became(f, v, queue, start) /\ Within(queue)
  <2>1. CASE from = 0
    <3>1. start = next /\ queue = s.tx
      BY <1>4, <2>1
    <3> HIDE DEF next, start, queue
    <3> QED
      BY <1>3, <1>4, <1>6, <1>7, <2>1, <3>1, RedirectedFacts, Zenon
  <2>2. CASE from > next
    <3> DEFINE gap == Gap(from, next)
    <3>1. start = next /\ queue = Append(s.tx, gap) /\ from # 0
      BY <1>2, <1>4, <2>2
    <3>2. gap \in Sent /\ gap.kind # "data"
      BY <1>2, <1>4, FramesSent
    <3>3. f = Redirected(control(v, gap, None), next)
      BY <1>7, <2>2, <3>1
    <3> HIDE DEF next, start, queue, gap
    <3>5. Became(f, v, Append(s.tx, gap), next)
      BY <1>4, <1>6, <3>2, <3>3, RedirectedFacts, AgeValues, SMTT(20)
    <3>6. Bytes(Append(s.tx, gap)) = 0 + ControlLen
      BY <1>3, <3>2, BytesControl, BytesEmpty, Zenon
    <3>7. Within(Append(s.tx, gap))
      BY <3>6, Lengths, PublisherAssumption DEF Within
    <3> QED
      BY <3>1, <3>5, <3>7
  <2>3. CASE from # 0 /\ ~ (from > next)
    <3>1. start = from /\ queue = s.tx /\ from % SeqMod = from
      BY <1>2, <1>4, <2>3
    <3>2. f = Redirected(v, from)
      BY <1>7, <2>3, <3>1
    <3> HIDE DEF next, start, queue
    <3> QED
      BY <1>2, <1>3, <1>6, <3>1, <3>2, RedirectedFacts, SMTT(20)
  <2> QED
    BY <1>2, <2>1, <2>2, <2>3, Zenon
<1>9. start \in 1 .. ring.head + 1
  BY <1>2, <1>4, RingFacts
<1>10. SecondPiece(<< >> \o << >>)
  BY DEF SecondPiece
<1> HIDE DEF start, queue
<1>11. f \in Subs /\ f.tx = queue /\ f.next_seq = start /\ f.rx = << >> /\ f.subscribed = TRUE
  BY <1>6, <1>8 DEF Became
<1>12. PeerOK("open", f, q, << >>, ring.head)
  BY <1>8, <1>9, <1>10, <1>11 DEF PeerOK
<1> QED
  BY <1>2, <1>3, <1>11, <1>12 DEF Accepted, start, queue

LEMMA AppendJoined == \A a, b \in Seq(Piece), x \in Piece : a \o Append(b, x) = Append(a \o b, x)
OBVIOUS

LEMMA SecondAppended ==
  ASSUME NEW u \in Seq(Piece), NEW x \in Piece, SecondPiece(u), Len(u) = 1 => x \in [from : FromSeqs]
  PROVE  SecondPiece(Append(u, x))
<1>0. Append(u, x)[Len(u) + 1] = x
  BY AppendProperties
<1>1. Len(u) \in Nat /\ Len(Append(u, x)) = Len(u) + 1
  OBVIOUS
<1>2. CASE Len(u) = 1
  <2>1. Append(u, x)[2] = x
    <3>1. Len(u) + 1 = 2
      BY <1>2
    <3> QED
      BY <1>0, <3>1, Zenon
  <2> QED
    BY <1>2, <2>1 DEF SecondPiece
<1>3. CASE Len(u) >= 2
  <2>1. Append(u, x)[2] = u[2]
    BY <1>3
  <2> QED
    BY <1>3, <2>1 DEF SecondPiece
<1>4. CASE Len(u) = 0
  BY <1>1, <1>4 DEF SecondPiece
<1>5. \A n \in Nat : n = 0 \/ n = 1 \/ n >= 2
  OBVIOUS
<1> QED
  BY <1>1, <1>2, <1>3, <1>4, <1>5, Zenon

LEMMA SendOK ==
  ASSUME NEW s, NEW q, NEW i, NEW h, PeerOK("open", s, q, i, h), NEW piece \in Pieces(Len(s.rx) + Len(i))
  PROVE  PeerOK("open", s, q, Append(i, piece), h)
<1>1. s.rx \in Seq(Piece) /\ i \in Seq(Piece) /\ Len(s.rx) \in Nat /\ Len(i) \in Nat
  BY DEF PeerOK, Subs
<1>2. piece \in Piece
  BY PublisherAssumption, Zenon DEF Pieces, Piece
<1>3. Append(i, piece) \in Seq(Piece)
  BY <1>1, <1>2
<1>4. s.rx \o Append(i, piece) = Append(s.rx \o i, piece)
  BY <1>1, <1>2, AppendJoined, Zenon
<1>5. SecondPiece(s.rx \o i) /\ s.rx \o i \in Seq(Piece) /\ Len(s.rx \o i) = Len(s.rx) + Len(i)
  BY <1>1, ConcatProperties DEF PeerOK
<1>6. SecondPiece(Append(s.rx \o i, piece))
  <2>1. Len(s.rx \o i) = 1 => piece \in Pieces(1)
    BY <1>5
  <2>2. Pieces(1) = [from : FromSeqs]
    BY DEF Pieces
  <2> QED
    BY <1>2, <1>5, <2>1, <2>2, SecondAppended, Zenon
<1> QED
  BY <1>3, <1>4, <1>6 DEF PeerOK

LEMMA OlderAge == \A age \in Ages, limit \in Nat : Older(age, limit) \in Ages
<1> SUFFICES ASSUME NEW age \in Ages, NEW limit \in Nat, age # None PROVE Older(age, limit) \in Ages
  BY AgeValues, Zenon DEF Older
<1>1. age + 1 \in Nat
  BY DEF Ages
<1>2. Min({age + 1, limit}) \in {age + 1, limit}
  BY <1>1, MinProperty
<1> QED
  BY <1>1, <1>2 DEF Older, Ages

Aged(s) == [s EXCEPT !.last_tx = Older(@, HeartbeatMs), !.stalled = Older(@, StallMs)]

AgedOK(c, s, q, i, h, w) ==
  /\ PeerOK(c, w, q, i, h) /\ w.want_write = s.want_write
  /\ w.tx = s.tx /\ w.next_seq = s.next_seq /\ w.subscribed = s.subscribed

LEMMA TickOK ==
  ASSUME NEW c, NEW s, NEW q, NEW i, NEW h, PeerOK(c, s, q, i, h)
  PROVE  AgedOK(c, s, q, i, h, Aged(s))
<1>0. PICK w : w = Aged(s)
  BY Zenon
<1>1. s \in Subs
  BY DEF PeerOK
<1>2. PICK a \in Ages, b \in Ages : a = Older(s.last_tx, HeartbeatMs) /\ b = Older(s.stalled, StallMs)
  BY <1>1, OlderAge, PublisherAssumption DEF Subs
<1>3. w = [s EXCEPT !.last_tx = a, !.stalled = b]
  BY <1>0, <1>2 DEF Aged
<1>4. /\ w \in Subs /\ w.want_write = s.want_write /\ w.rx = s.rx
      /\ w.tx = s.tx /\ w.next_seq = s.next_seq /\ w.subscribed = s.subscribed
  BY <1>1, <1>3, Zenon DEF Subs
<1>5. s = NewSubscriber => w = NewSubscriber
  <2> SUFFICES ASSUME s = NewSubscriber PROVE w = NewSubscriber
    OBVIOUS
  <2>1. a = None /\ b = None /\ s.last_tx = None /\ s.stalled = None
    BY <1>2 DEF NewSubscriber, Older
  <2> QED
    BY <1>3, <2>1, Zenon DEF NewSubscriber
<1>6. PeerOK(c, w, q, i, h)
  BY <1>4, <1>5 DEF PeerOK
<1> QED
  BY <1>0, <1>4, <1>6, Zenon DEF AgedOK

LEMMA PublishOK ==
  ASSUME NEW h \in Nat, NEW c, NEW s, NEW q, NEW i, PeerOK(c, s, q, i, h)
  PROVE  PeerOK(c, s, q, i, h + 1)
<1>1. \A x : x \in 1 .. h + 1 => x \in 1 .. (h + 1) + 1
  OBVIOUS
<1> QED
  BY <1>1 DEF PeerOK

LEMMA ReadOK ==
  ASSUME NEW c, NEW s, NEW q, NEW i, NEW h, PeerOK(c, s, q, i, h), q # << >>
  PROVE  /\ PeerOK(c, s, Tail(q), i, h)
         /\ q \o s.tx # << >> /\ Tail(q) \o s.tx = Tail(q \o s.tx)
<1>1. q \in Seq(Sent) /\ s.tx \in Seq(Sent) /\ Len(q) <= SockCap /\ SockCap \in Nat
  BY PublisherAssumption DEF PeerOK, Subs
<1>2. Tail(q) \in Seq(Sent) /\ Len(Tail(q)) <= SockCap
  BY <1>1
<1>3. PICK t \in Seq(Sent) : t = s.tx
  BY <1>1
<1>4. q \o t # << >> /\ Tail(q) \o t = Tail(q \o t)
  BY <1>1
<1> QED
  BY <1>2, <1>3, <1>4 DEF PeerOK
------------------------------------------------------------------------------
(* The inductive invariant: the ring and every peer are as they should be, *)
(* and no wake-up is lost.                                                 *)
PInv ==
  /\ RingInv
  /\ dirty \in BOOLEAN
  /\ conn \in [Peers -> {"new", "open", "closed"}] /\ sub \in [Peers -> Subs]
  /\ sock \in [Peers -> Seq(Sent)] /\ inbox \in [Peers -> Seq(Piece)]
  /\ \A p \in Peers : PeerOK(conn[p], sub[p], sock[p], inbox[p], ring.head)
  /\ \A p \in Peers : sub[p].tx # << >> => sub[p].want_write \/ dirty

PeerStep(p) == UNCHANGED Promise(p)!streamVars \/ Promise(p)!Next

(* What a step of the publisher is for the stream of one peer.             *)
LEMMA SameStream ==
  ASSUME NEW p \in Peers, ring'.head = ring.head, conn'[p] = "closed" <=> conn[p] = "closed",
         sub'[p].subscribed = sub[p].subscribed, sub'[p].next_seq = sub[p].next_seq,
         sock'[p] \o sub'[p].tx = sock[p] \o sub[p].tx
  PROVE  PeerStep(p)
BY DEF PeerStep, Promise!streamVars, PeerState, Stream

LEMMA Untouched ==
  ASSUME NEW p \in Peers, ring'.head = ring.head, conn'[p] = conn[p], sub'[p] = sub[p], sock'[p] = sock[p]
  PROVE  PeerStep(p)
BY SameStream, Zenon

LEMMA PublishStep ==
  ASSUME NEW p \in Peers, ring'.head = ring.head + 1, conn'[p] = conn[p], sub'[p] = sub[p], sock'[p] = sock[p]
  PROVE  PeerStep(p)
BY DEF PeerStep, Promise!Next, Promise!Publish, PeerState, Stream

LEMMA CloseStep ==
  ASSUME PInv, NEW p \in Peers, ring'.head = ring.head, conn[p] = "open", conn'[p] = "closed",
         sub'[p] = NewSubscriber, sock'[p] = << >>
  PROVE  PeerStep(p)
<1>1. sock[p] \in Seq(Sent) /\ sub[p].tx \in Seq(Sent)
  BY DEF PInv, Subs
<1>2. Stream(p) \in Seq(Sent)
  BY <1>1 DEF Stream
<1>3. Stream(p)' = << >> /\ sub'[p].next_seq = 0
  BY DEF Stream, NewSubscriber
<1>4. SubSeq(Stream(p), 1, 0) = << >> /\ 0 \in 0 .. Len(Stream(p))
  BY <1>2
<1>5. PeerState(p) # "closed" /\ PeerState(p)' = "closed"
  BY DEF PeerState
<1> QED
  BY <1>3, <1>4, <1>5, SMTT(20) DEF PeerStep, Promise!Next, Promise!Close

LEMMA TakeStep ==
  ASSUME NEW p \in Peers, ring'.head = ring.head, conn'[p] = conn[p], sub'[p] = sub[p],
         Stream(p) # << >>, sock'[p] \o sub[p].tx = Tail(Stream(p))
  PROVE  PeerStep(p)
BY DEF PeerStep, Promise!Next, Promise!Take, PeerState, Stream

LEMMA FrameJoined == \A a, b \in Seq(Sent), x \in Sent : a \o Append(b, x) = Append(a \o b, x)
OBVIOUS

Joined(a, b, c, d) == a \o ((b \o c) \o d) = ((a \o b) \o c) \o d

LEMMA FramesJoined == \A a, b, c, d \in Seq(Sent) : Joined(a, b, c, d)
<1> TAKE a, b, c, d \in Seq(Sent)
<1>1. b \o c \in Seq(Sent) /\ a \o b \in Seq(Sent)
  OBVIOUS
<1>2. a \o ((b \o c) \o d) = (a \o (b \o c)) \o d
  BY <1>1, ConcatAssociative, SMTT(20)
<1>3. (a \o b) \o c = a \o (b \o c)
  BY SMTT(20)
<1> QED
  BY <1>2, <1>3, Zenon DEF Joined

LEMMA AcceptStep ==
  ASSUME NEW p \in Peers, ring'.head = ring.head, conn[p] = "open", conn'[p] = "open",
         sock[p] \in Seq(Sent), sub[p].tx \in Seq(Sent), ring.head \in Nat,
         sock'[p] = sock[p], ~ sub[p].subscribed, sub'[p].subscribed, NEW from \in FromSeqs, from \in Nat,
         sub'[p].next_seq = IF from = 0 \/ from > ring.head + 1 THEN ring.head + 1 ELSE from,
         sub'[p].tx = IF from > ring.head + 1 THEN Append(sub[p].tx, Gap(from, ring.head + 1)) ELSE sub[p].tx
  PROVE  PeerStep(p)
<1>1. PeerState(p) = "waiting" /\ PeerState(p)' = "live"
  BY DEF PeerState
<1> DEFINE gap == Gap(from, ring.head + 1)
<1>2. gap \in Sent
  BY FramesSent
<1> HIDE DEF gap
<1>3. sock[p] \o Append(sub[p].tx, gap) = Append(sock[p] \o sub[p].tx, gap)
  BY <1>2, FrameJoined, Zenon
<1>4. Stream(p)' = IF from > ring.head + 1 THEN Append(Stream(p), gap) ELSE Stream(p)
  BY <1>3, Zenon DEF Stream, gap
<1>5. Promise(p)!Accept(from)
  BY <1>1, <1>4 DEF Promise!Accept, Promise!Gap, gap, Gap
<1> QED
  BY <1>5 DEF PeerStep, Promise!Next

LEMMA PumpStep ==
  ASSUME NoSeqWrap, RingInv, NEW p \in Peers, ring'.head = ring.head, conn[p] = "open", conn'[p] = "open",
         sock[p] \in Seq(Sent), sub[p].tx \in Seq(Sent), sub[p].next_seq \in Nat,
         sub[p].subscribed, sub'[p].subscribed,
         NEW u, Pumped(sub[p].tx, sub[p].next_seq, u, sub'[p].next_seq),
         sock'[p] \o sub'[p].tx = sock[p] \o u
  PROVE  PeerStep(p)
<1> DEFINE c == sub[p].next_seq
           d == sub'[p].next_seq
           t == sub[p].tx
<1>1. PeerState(p) = "live" /\ PeerState(p)' = "live"
  BY DEF PeerState
<1>2. Stream(p)' = sock[p] \o u /\ Stream(p) = sock[p] \o t
  BY DEF Stream
<1>3. ring.head \in Nat /\ oldest(ring) \in Nat /\ c \in Nat
  BY RingFacts, SMTT(20)
<1>4. CASE u = t /\ d = c
  BY <1>1, <1>2, <1>4 DEF PeerStep, Promise!streamVars
<1>5. CASE \E n \in 0 .. ring.head : Served(t, c, u, d, n)
  <2>1. PICK n \in 0 .. ring.head : Served(t, c, u, d, n)
    BY <1>5
  <2>2. Promise(p)!Oldest = oldest(ring)
    BY DEF Promise!Oldest, oldest
  <2>3. Promise(p)!Start = First(c) /\ Promise(p)!Lapped = Missed(c)
    BY <2>2, SMTT(20) DEF Promise!Start, Promise!Lapped, Promise!Gap, Gap, First, Missed
  <2> DEFINE frames == [k \in 1 .. n |-> Data(First(c) + k - 1)]
  <2>4. Missed(c) \in Seq(Sent) /\ frames \in Seq(Sent)
    <3>1. First(c) \in Nat /\ (First(c) = 0 => c = 0) /\ n \in Nat
      BY <1>3 DEF First
    <3>2. Missed(c) \in Seq(Sent)
      BY <1>3, FramesSent, SMTT(20) DEF Missed
    <3>3. \A k \in 1 .. n : First(c) + k - 1 \in Nat
      BY <3>1, SMTT(20)
    <3> QED
      BY <3>1, <3>2, <3>3, FramesSent, SMTT(20)
  <2>5. u = (t \o Missed(c)) \o frames
    BY <2>1, Zenon DEF Served
  <2>6. frames = [k \in 1 .. n |-> Promise(p)!Data(Promise(p)!Start + k - 1)]
    BY <2>3 DEF Promise!Data, Data
  <2> HIDE DEF frames
  <2>7. Stream(p)' = (Stream(p) \o Missed(c)) \o frames
    <3>1. Joined(sock[p], t, Missed(c), frames)
      BY <2>4, FramesJoined
    <3> QED
      BY <1>2, <2>5, <3>1, ZenonT(30) DEF Joined
  <2>8. /\ n > 0 \/ c < Promise(p)!Oldest
        /\ Promise(p)!Start + n <= ring.head + 1 /\ d = Promise(p)!Start + n
    BY <2>1, <2>2, <2>3, Zenon DEF Served
  <2>9. Promise(p)!Serve(n)
    BY <1>1, <2>3, <2>6, <2>7, <2>8, Zenon DEF Promise!Serve
  <2> QED
    BY <2>1, <2>9, ZenonT(30) DEF PeerStep, Promise!Next
<1>6. CASE c = ring.head + 1 /\ d = c /\ u = Append(t, Heartbeat(ring.head))
  <2> DEFINE beat == Heartbeat(ring.head)
  <2>1. beat \in Sent
    BY <1>3, FramesSent, SMTT(20)
  <2>2. beat = Promise(p)!Heartbeat(ring.head)
    BY SMTT(20) DEF Promise!Heartbeat, Heartbeat
  <2> HIDE DEF beat
  <2>3. u = Append(t, beat)
    BY <1>6 DEF beat
  <2>4. Stream(p)' = Append(Stream(p), beat)
    <3>1. sock[p] \o Append(t, beat) = Append(sock[p] \o t, beat)
      BY <2>1, FrameJoined, Zenon
    <3> QED
      BY <1>2, <2>3, <3>1, Zenon
  <2>5. Promise(p)!Beat
    BY <1>1, <1>6, <2>2, <2>4, Zenon DEF Promise!Beat
  <2> QED
    BY <2>5, Zenon DEF PeerStep, Promise!Next
<1> QED
  BY <1>4, <1>5, <1>6, ZenonT(30) DEF Pumped
==============================================================================
