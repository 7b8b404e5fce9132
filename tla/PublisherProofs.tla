--------------------------- MODULE PublisherProofs ---------------------------
(***************************************************************************)
(* Proofs about the publisher, for any number of peers, ring, limits and   *)
(* timeouts: each action keeps the invariant and is a step of every stream. *)
(***************************************************************************)
EXTENDS PublisherPeers

(* A step that concerns one peer.                                          *)
LEMMA OnePeer ==
  ASSUME PInv, NEW p \in Peers, ring' = ring, published' = published, dirty' \in BOOLEAN, dirty => dirty',
         NEW c, NEW s, NEW q, NEW i, PeerOK(c, s, q, i, ring.head), s.tx # << >> => s.want_write \/ dirty',
         conn' = [conn EXCEPT ![p] = c], sub' = [sub EXCEPT ![p] = s],
         sock' = [sock EXCEPT ![p] = q], inbox' = [inbox EXCEPT ![p] = i], PeerStep(p)
  PROVE  PInv' /\ \A r \in Peers : PeerStep(r)
<1>1. RingInv'
  BY DEF PInv, RingInv, oldest, frame, slot
<1>2. c \in {"new", "open", "closed"} /\ s \in Subs /\ q \in Seq(Sent) /\ i \in Seq(Piece)
  BY DEF PeerOK
<1>3. /\ conn' \in [Peers -> {"new", "open", "closed"}] /\ sub' \in [Peers -> Subs]
      /\ sock' \in [Peers -> Seq(Sent)] /\ inbox' \in [Peers -> Seq(Piece)]
  BY <1>2 DEF PInv
<1>4. conn'[p] = c /\ sub'[p] = s /\ sock'[p] = q /\ inbox'[p] = i
  BY DEF PInv
<1>5. \A r \in Peers \ {p} : conn'[r] = conn[r] /\ sub'[r] = sub[r] /\ sock'[r] = sock[r] /\ inbox'[r] = inbox[r]
  BY DEF PInv
<1>6. ASSUME NEW r \in Peers PROVE PeerOK(conn'[r], sub'[r], sock'[r], inbox'[r], ring'.head)
  BY <1>4, <1>5, Zenon DEF PInv
<1>7. ASSUME NEW r \in Peers PROVE sub'[r].tx # << >> => sub'[r].want_write \/ dirty'
  BY <1>4, <1>5, SMTT(20) DEF PInv
<1>8. ASSUME NEW r \in Peers PROVE PeerStep(r)
  BY <1>5, Untouched, Zenon
<1> QED
  BY <1>1, <1>3, <1>6, <1>7, <1>8, SMTT(20) DEF PInv

LEMMA Unwritten == \A p \in Peers : PInv => /\ conn = [conn EXCEPT ![p] = conn[p]] /\ sub = [sub EXCEPT ![p] = sub[p]]
                                            /\ sock = [sock EXCEPT ![p] = sock[p]] /\ inbox = [inbox EXCEPT ![p] = inbox[p]]
BY DEF PInv

LEMMA PublishKeeps ==
  ASSUME NoSeqWrap, PInv, Publish
  PROVE  PInv' /\ \A p \in Peers : PeerStep(p)
<1>1. RingInv' /\ ring'.head = ring.head + 1 /\ ring.head \in Nat
  BY RingKept, RingFacts, SMTT(20) DEF PInv, Publish
<1>2. conn' = conn /\ sub' = sub /\ sock' = sock /\ inbox' = inbox /\ dirty' = TRUE
  BY DEF Publish
<1>3. ASSUME NEW p \in Peers PROVE PeerOK(conn'[p], sub'[p], sock'[p], inbox'[p], ring'.head) /\ PeerStep(p)
  BY <1>1, <1>2, PublishOK, PublishStep, Zenon DEF PInv
<1> QED
  BY <1>1, <1>2, <1>3, Zenon DEF PInv

LEMMA SubscribeKeeps ==
  ASSUME PInv, NEW p \in Peers, Subscribe(p)
  PROVE  PInv' /\ \A r \in Peers : PeerStep(r)
<1>1. PeerOK(conn[p], sub[p], sock[p], inbox[p], ring.head) /\ conn[p] = "new"
  BY Zenon DEF PInv, Subscribe
<1>2. sub[p] = NewSubscriber /\ sock[p] = << >> /\ inbox[p] = << >>
  BY <1>1, Zenon DEF PeerOK
<1>3. /\ conn' = [conn EXCEPT ![p] = "open"] /\ sub' = [sub EXCEPT ![p] = NewSubscriber] /\ sock' = sock
      /\ inbox' = inbox /\ ring' = ring /\ published' = published /\ dirty' = dirty
  BY DEF Subscribe
<1>4. sock' = [sock EXCEPT ![p] = << >>] /\ inbox' = [inbox EXCEPT ![p] = << >>]
  BY <1>2, <1>3, Unwritten, SMTT(20)
<1>5. PeerStep(p)
  BY <1>1, <1>2, <1>3, SameStream, Zenon DEF PInv
<1>6. NewSubscriber.tx = << >>
  BY DEF NewSubscriber
<1> QED
  BY <1>3, <1>4, <1>5, <1>6, NewOK, OnePeer, Zenon DEF PInv

LEMMA SendKeeps ==
  ASSUME PInv, NEW p \in Peers, Send(p)
  PROVE  PInv' /\ \A r \in Peers : PeerStep(r)
<1>1. PeerOK("open", sub[p], sock[p], inbox[p], ring.head) /\ conn[p] = "open"
  BY DEF PInv, Send
<1>2. PICK piece \in Pieces(Len(sub[p].rx) + Len(inbox[p])) : inbox' = [inbox EXCEPT ![p] = Append(inbox[p], piece)]
  BY Zenon DEF Send
<1>3. conn' = conn /\ sub' = sub /\ sock' = sock /\ ring' = ring /\ published' = published /\ dirty' = dirty
  BY DEF Send
<1>4. PeerOK(conn[p], sub[p], sock[p], Append(inbox[p], piece), ring.head)
  BY <1>1, SendOK, Zenon
<1>5. PeerStep(p)
  BY <1>3, Untouched, SMTT(20)
<1>6. conn' = [conn EXCEPT ![p] = conn[p]] /\ sub' = [sub EXCEPT ![p] = sub[p]] /\ sock' = [sock EXCEPT ![p] = sock[p]]
  BY <1>3, Unwritten, SMTT(20)
<1>7. dirty' \in BOOLEAN /\ (dirty => dirty') /\ (sub[p].tx # << >> => sub[p].want_write \/ dirty')
  BY <1>3 DEF PInv
<1> QED
  BY <1>2, <1>3, <1>4, <1>5, <1>6, <1>7, OnePeer, Zenon

LEMMA ReadKeeps ==
  ASSUME PInv, NEW p \in Peers, Read(p)
  PROVE  PInv' /\ \A r \in Peers : PeerStep(r)
<1>1. PeerOK(conn[p], sub[p], sock[p], inbox[p], ring.head) /\ sock[p] # << >>
  BY DEF PInv, Read
<1>2. /\ sock' = [sock EXCEPT ![p] = Tail(sock[p])]
      /\ conn' = conn /\ sub' = sub /\ inbox' = inbox /\ ring' = ring /\ published' = published /\ dirty' = dirty
  BY DEF Read
<1>3. /\ PeerOK(conn[p], sub[p], Tail(sock[p]), inbox[p], ring.head)
      /\ Stream(p) # << >> /\ Tail(sock[p]) \o sub[p].tx = Tail(Stream(p))
  BY <1>1, ReadOK, Zenon DEF Stream
<1>4. sock'[p] = Tail(sock[p])
  BY <1>2 DEF PInv
<1>5. PeerStep(p)
  BY <1>2, <1>3, <1>4, TakeStep, Zenon
<1>6. conn' = [conn EXCEPT ![p] = conn[p]] /\ sub' = [sub EXCEPT ![p] = sub[p]] /\ inbox' = [inbox EXCEPT ![p] = inbox[p]]
  BY <1>2, Unwritten, SMTT(20)
<1>7. dirty' \in BOOLEAN /\ (dirty => dirty') /\ (sub[p].tx # << >> => sub[p].want_write \/ dirty')
  BY <1>2 DEF PInv
<1> QED
  BY <1>2, <1>3, <1>5, <1>6, <1>7, OnePeer, Zenon

(* Steps that leave everything the invariant is about alone: a peer closes *)
(* its end, or nothing happens.                                            *)
LEMMA IdleKeeps ==
  ASSUME PInv, UNCHANGED <<ring, sub, conn, dirty, sock, inbox, published>>
  PROVE  PInv' /\ \A p \in Peers : PeerStep(p)
<1>1. \A p \in Peers : PeerStep(p)
  BY Untouched
<1>2. RingInv'
  BY DEF PInv, RingInv, oldest, frame, slot
<1> QED
  BY <1>1, <1>2 DEF PInv

LEMMA TickKeeps ==
  ASSUME PInv, Tick
  PROVE  PInv' /\ \A p \in Peers : PeerStep(p)
<1> DEFINE aged(p) == Aged(sub[p])
<1>1. /\ sub' = [p \in Peers |-> aged(p)]
      /\ conn' = conn /\ sock' = sock /\ inbox' = inbox /\ ring' = ring /\ published' = published /\ dirty' = dirty
  BY Zenon DEF Tick, Aged
<1>2. ASSUME NEW p \in Peers
      PROVE  /\ PeerOK(conn[p], aged(p), sock[p], inbox[p], ring.head) /\ aged(p).want_write = sub[p].want_write
             /\ aged(p).tx = sub[p].tx /\ aged(p).next_seq = sub[p].next_seq /\ aged(p).subscribed = sub[p].subscribed
  <2>1. PeerOK(conn[p], sub[p], sock[p], inbox[p], ring.head)
    BY Zenon DEF PInv
  <2>2. AgedOK(conn[p], sub[p], sock[p], inbox[p], ring.head, aged(p))
    BY <2>1, TickOK, Zenon
  <2> QED
    BY <2>2, Zenon DEF AgedOK
<1> HIDE DEF aged
<1>3. \A p \in Peers : sub'[p] = aged(p) /\ aged(p) \in Subs
  BY <1>1, <1>2, Zenon DEF PeerOK
<1>4. \A p \in Peers : PeerStep(p)
  BY <1>1, <1>2, <1>3, SameStream, Zenon
<1>5. RingInv'
  BY <1>1 DEF PInv, RingInv, oldest, frame, slot
<1>6. sub' \in [Peers -> Subs]
  BY <1>1, <1>3
<1>7. \A p \in Peers : /\ PeerOK(conn'[p], sub'[p], sock'[p], inbox'[p], ring'.head)
                       /\ sub'[p].tx # << >> => sub'[p].want_write \/ dirty'
  BY <1>1, <1>2, <1>3, Zenon DEF PInv
<1> QED
  BY <1>1, <1>4, <1>5, <1>6, <1>7, Zenon DEF PInv

(* drop() of one peer.                                                     *)
LEMMA DropKeeps ==
  ASSUME PInv, NEW p \in Peers, conn[p] = "open", NEW why, drop({p}, why),
         sub' = [sub EXCEPT ![p] = NewSubscriber], sock' = [sock EXCEPT ![p] = << >>],
         ring' = ring, published' = published, dirty' \in BOOLEAN, dirty => dirty'
  PROVE  PInv' /\ \A r \in Peers : PeerStep(r)
<1>1. conn' = [conn EXCEPT ![p] = "closed"] /\ inbox' = [inbox EXCEPT ![p] = << >>]
  BY Zenon DEF drop, PInv
<1>2. conn'[p] = "closed" /\ sub'[p] = NewSubscriber /\ sock'[p] = << >>
  BY <1>1 DEF PInv
<1>3. PeerStep(p)
  BY <1>2, CloseStep
<1>4. NewSubscriber.tx = << >>
  BY DEF NewSubscriber
<1>5. PeerOK("closed", NewSubscriber, << >>, << >>, ring.head)
  BY NewOK
<1> QED
  BY <1>1, <1>3, <1>4, <1>5, OnePeer, Zenon

LEMMA OnReadableKeeps ==
  ASSUME NoSeqWrap, PInv, NEW p \in Peers, OnReadable(p)
  PROVE  PInv' /\ \A r \in Peers : PeerStep(r)
<1> DEFINE w == Received(sub[p], inbox[p])
<1>1. /\ PeerOK("open", sub[p], sock[p], inbox[p], ring.head) /\ conn[p] = "open"
      /\ ring' = ring /\ published' = published
      /\ sock[p] \in Seq(Sent) /\ sub[p] \in Subs /\ inbox[p] \in Seq(Piece)
  BY DEF PInv, OnReadable
<1>2. \/ \E why : drop({p}, why) /\ sub' = [sub EXCEPT ![p] = NewSubscriber] /\ sock' = [sock EXCEPT ![p] = << >>] /\ dirty' = dirty
      \/ Len(w.rx) < 2 /\ sub' = [sub EXCEPT ![p] = w] /\ inbox' = [inbox EXCEPT ![p] = << >>]
         /\ conn' = conn /\ dirty' = dirty /\ sock' = sock
      \/ Len(w.rx) >= 2 /\ ~ bad_frame(w) /\ sub' = [sub EXCEPT ![p] = resume_at(w, w.rx[2].from)]
         /\ inbox' = [inbox EXCEPT ![p] = << >>] /\ dirty' = TRUE /\ conn' = conn /\ sock' = sock
  BY Zenon DEF OnReadable, Received
<1> HIDE DEF w
<1>3. CASE \E why : drop({p}, why) /\ sub' = [sub EXCEPT ![p] = NewSubscriber] /\ sock' = [sock EXCEPT ![p] = << >>] /\ dirty' = dirty
  <2>1. PICK why : drop({p}, why)
    BY <1>3
  <2>2. dirty' \in BOOLEAN /\ (dirty => dirty')
    BY <1>3 DEF PInv
  <2> QED
    BY <1>1, <1>3, <2>1, <2>2, DropKeeps, Zenon
<1>4. CASE Len(w.rx) < 2 /\ sub' = [sub EXCEPT ![p] = w] /\ inbox' = [inbox EXCEPT ![p] = << >>]
           /\ conn' = conn /\ dirty' = dirty /\ sock' = sock
  <2>1. PeerOK(conn[p], w, sock[p], << >>, ring.head)
    BY <1>1, <1>4, WaitOK DEF w
  <2>2. w.tx = sub[p].tx /\ w.next_seq = sub[p].next_seq /\ w.subscribed = sub[p].subscribed /\ w.want_write = sub[p].want_write
    BY <1>1, ReceivedFacts DEF w
  <2>3. sub'[p] = w
    BY <1>4 DEF PInv
  <2>4. PeerStep(p)
    BY <1>1, <1>4, <2>2, <2>3, SameStream, Zenon
  <2>5. conn' = [conn EXCEPT ![p] = conn[p]] /\ sock' = [sock EXCEPT ![p] = sock[p]]
    BY <1>4, Unwritten
  <2>6. dirty' \in BOOLEAN /\ (dirty => dirty') /\ (w.tx # << >> => w.want_write \/ dirty')
    BY <1>4, <2>2 DEF PInv
  <2> QED
    BY <1>1, <1>4, <2>1, <2>4, <2>5, <2>6, OnePeer, Zenon
<1>5. CASE Len(w.rx) >= 2 /\ ~ bad_frame(w) /\ sub' = [sub EXCEPT ![p] = resume_at(w, w.rx[2].from)]
           /\ inbox' = [inbox EXCEPT ![p] = << >>] /\ dirty' = TRUE /\ conn' = conn /\ sock' = sock
  <2>1. PICK from : from = w.rx[2].from
    OBVIOUS
  <2>2. PICK f : f = resume_at(w, from)
    OBVIOUS
  <2>3. /\ PeerOK("open", f, sock[p], << >>, ring.head)
        /\ from \in FromSeqs /\ ~ sub[p].subscribed /\ f.subscribed
        /\ f.next_seq = IF from = 0 \/ from > ring.head + 1 THEN ring.head + 1 ELSE from
        /\ f.tx = IF from > ring.head + 1 THEN Append(sub[p].tx, Gap(from, ring.head + 1)) ELSE sub[p].tx
    <3>1. RingInv /\ w = Received(sub[p], inbox[p])
      BY Zenon DEF PInv, w
    <3>2. Accepts(sub[p], inbox[p], w, from, f)
      BY <1>5, <2>1, <2>2, <3>1, Zenon DEF Accepts
    <3>3. Accepted(sub[p], sock[p], from, f)
      BY <1>1, <3>1, <3>2, AcceptOK, Zenon
    <3> QED
      BY <3>3, Zenon DEF Accepted
  <2>4. sub' = [sub EXCEPT ![p] = f] /\ sub'[p] = f
    BY <1>5, <2>1, <2>2, Zenon DEF PInv
  <2>5. PeerStep(p)
    <3>1. from \in Nat /\ ring.head \in Nat /\ sub[p].tx \in Seq(Sent)
      BY <1>1, <2>3, RingFacts, PublisherAssumption, Zenon DEF PInv, Subs
    <3> QED
      BY <1>1, <1>5, <2>3, <2>4, <3>1, AcceptStep, Zenon
  <2>6. conn' = [conn EXCEPT ![p] = "open"] /\ sock' = [sock EXCEPT ![p] = sock[p]]
    BY <1>1, <1>5, Unwritten
  <2>7. dirty' \in BOOLEAN /\ (dirty => dirty') /\ (f.tx # << >> => f.want_write \/ dirty')
    BY <1>5, Zenon
  <2>8. PeerOK("open", f, sock[p], << >>, ring.head) /\ sub' = [sub EXCEPT ![p] = f] /\ inbox' = [inbox EXCEPT ![p] = << >>]
    BY <1>5, <2>3, <2>4, Zenon
  <2> QED
    BY <1>1, <2>5, <2>6, <2>7, <2>8, OnePeer, Zenon
<1> QED
  BY <1>2, <1>3, <1>4, <1>5, Zenon

LEMMA OnWritableKeeps ==
  ASSUME PInv, NEW p \in Peers, OnWritable(p)
  PROVE  PInv' /\ \A r \in Peers : PeerStep(r)
<1> DEFINE n == Flushable(sub[p], SockCap - Len(sock[p]))
           f == flush_and_arm(sub[p], n)
           q == sock[p] \o SubSeq(sub[p].tx, 1, n)
<1>1. /\ PeerOK("open", sub[p], sock[p], inbox[p], ring.head) /\ conn[p] = "open"
      /\ ring' = ring /\ published' = published /\ dirty' \in BOOLEAN /\ dirty' = TRUE
  BY Zenon DEF PInv, OnWritable
<1>2. \/ \E why : drop({p}, why) /\ sub' = [sub EXCEPT ![p] = NewSubscriber] /\ sock' = [sock EXCEPT ![p] = << >>]
      \/ sub' = [sub EXCEPT ![p] = f] /\ sock' = [sock EXCEPT ![p] = q] /\ conn' = conn /\ inbox' = inbox
  BY Zenon DEF OnWritable
<1>3. /\ PeerOK("open", f, q, inbox[p], ring.head) /\ q \o f.tx = sock[p] \o sub[p].tx
      /\ f.subscribed = sub[p].subscribed /\ f.next_seq = sub[p].next_seq
  <2>1. ResumeResult(sub[p], sock[p], inbox[p], ring.head, n, f)
    BY <1>1, ResumeWriteOK, Zenon
  <2> HIDE DEF n, f
  <2> QED
    BY <2>1, Zenon DEF ResumeResult
<1> HIDE DEF n, f, q
<1>4. CASE \E why : drop({p}, why) /\ sub' = [sub EXCEPT ![p] = NewSubscriber] /\ sock' = [sock EXCEPT ![p] = << >>]
  <2>1. PICK why : drop({p}, why)
    BY <1>4
  <2> QED
    BY <1>1, <1>4, <2>1, DropKeeps, Zenon
<1>5. CASE sub' = [sub EXCEPT ![p] = f] /\ sock' = [sock EXCEPT ![p] = q] /\ conn' = conn /\ inbox' = inbox
  <2>1. sub'[p] = f /\ sock'[p] = q
    BY <1>5 DEF PInv
  <2>2. PeerStep(p)
    BY <1>1, <1>3, <1>5, <2>1, SameStream, Zenon
  <2>3. conn' = [conn EXCEPT ![p] = "open"] /\ inbox' = [inbox EXCEPT ![p] = inbox[p]]
    BY <1>1, <1>5, Unwritten
  <2>4. (dirty => dirty') /\ (f.tx # << >> => f.want_write \/ dirty')
    BY <1>1
  <2> QED
    BY <1>1, <1>3, <1>5, <2>2, <2>3, <2>4, OnePeer, Zenon
<1> QED
  BY <1>2, <1>4, <1>5, Zenon

LEMMA FlushAllKeeps ==
  ASSUME NoSeqWrap, PInv, FlushAll
  PROVE  PInv' /\ \A p \in Peers : PeerStep(p)
<1>1. PICK failed \in SUBSET Open :
        LET n == [p \in Open |-> Flushable(refill(sub[p]), SockCap - Len(sock[p]))]
            dead == failed \cup {p \in Open : stalled_out(pump(p))}
            alive == Open \ dead
        IN /\ drop(dead, [p \in dead |-> IF p \in failed THEN "closed" ELSE "stalled"])
           /\ sub' = [p \in Peers |-> IF p \in alive THEN pump(p)
                                      ELSE IF p \in dead THEN NewSubscriber ELSE sub[p]]
           /\ sock' = [p \in Peers |-> IF p \in alive THEN sock[p] \o SubSeq(refill(sub[p]).tx, 1, n[p])
                                       ELSE IF p \in dead THEN << >> ELSE sock[p]]
  BY Zenon DEF FlushAll
<1> DEFINE n(p) == Flushable(refill(sub[p]), SockCap - Len(sock[p]))
           sent(p) == sock[p] \o SubSeq(refill(sub[p]).tx, 1, n(p))
<1>2. ring' = ring /\ published' = published /\ dirty' = FALSE
  BY Zenon DEF FlushAll
<1>3. PICK dead \in SUBSET Open :
        /\ \A p \in dead : conn'[p] = "closed" /\ sub'[p] = NewSubscriber /\ sock'[p] = << >> /\ inbox'[p] = << >>
        /\ \A p \in Open \ dead : conn'[p] = conn[p] /\ sub'[p] = pump(p) /\ sock'[p] = sent(p) /\ inbox'[p] = inbox[p]
        /\ \A p \in Peers \ Open : conn'[p] = conn[p] /\ sub'[p] = sub[p] /\ sock'[p] = sock[p] /\ inbox'[p] = inbox[p]
  <2> DEFINE dd == failed \cup {p \in Open : stalled_out(pump(p))}
  <2>1. dd \in SUBSET Open
    OBVIOUS
  <2>2. \A p \in dd : conn'[p] = "closed" /\ sub'[p] = NewSubscriber /\ sock'[p] = << >> /\ inbox'[p] = << >>
    BY <1>1, Zenon DEF drop, Open
  <2>3. \A p \in Open \ dd : conn'[p] = conn[p] /\ sub'[p] = pump(p) /\ sock'[p] = sent(p) /\ inbox'[p] = inbox[p]
    BY <1>1, Zenon DEF drop, Open
  <2>4. \A p \in Peers \ Open : conn'[p] = conn[p] /\ sub'[p] = sub[p] /\ sock'[p] = sock[p] /\ inbox'[p] = inbox[p]
    BY <1>1, Zenon DEF drop, Open
  <2> QED
    BY <2>1, <2>2, <2>3, <2>4, Zenon
<1>4. /\ conn' = [p \in Peers |-> conn'[p]] /\ sub' = [p \in Peers |-> sub'[p]]
      /\ sock' = [p \in Peers |-> sock'[p]] /\ inbox' = [p \in Peers |-> inbox'[p]]
  BY <1>1 DEF drop
<1>5. ASSUME NEW p \in Peers
      PROVE  /\ PeerOK(conn'[p], sub'[p], sock'[p], inbox'[p], ring.head) /\ PeerStep(p)
             /\ sub'[p].tx # << >> => sub'[p].want_write
  <2>0. PeerOK(conn[p], sub[p], sock[p], inbox[p], ring.head)
    BY DEF PInv
  <2>1. CASE p \in dead
    <3>1. conn[p] = "open" /\ ring'.head = ring.head
      BY <1>2, <1>3, <2>1, SMTT(20) DEF Open
    <3>2. PeerStep(p)
      BY <1>3, <2>1, <3>1, CloseStep, SMTT(20)
    <3>3. PeerOK("closed", NewSubscriber, << >>, << >>, ring.head) /\ NewSubscriber.tx = << >>
      BY NewOK, Zenon DEF NewSubscriber
    <3> QED
      BY <1>3, <2>1, <3>2, <3>3, Zenon
  <2>2. CASE p \in Open \ dead
    <3> DEFINE r == refill(sub[p])
    <3>1. conn[p] = "open" /\ ring'.head = ring.head /\ conn'[p] = "open" /\ inbox'[p] = inbox[p]
      BY <1>2, <1>3, <2>2, Zenon DEF Open
    <3>2. sub'[p] = after_flush(r, n(p)) /\ sock'[p] = sent(p)
      BY <1>3, <2>2, Zenon DEF pump
    <3>3. PeerOK("open", sub[p], sock[p], inbox[p], ring.head) /\ RingInv
      BY <2>0, <3>1 DEF PInv
    <3>4. /\ PeerOK("open", sub'[p], sent(p), inbox[p], ring.head) /\ sent(p) \o sub'[p].tx = sock[p] \o r.tx
          /\ sub'[p].want_write = (sub'[p].tx # << >>) /\ sub'[p].subscribed = sub[p].subscribed /\ sub'[p].next_seq = r.next_seq
          /\ sub[p].subscribed => Pumped(sub[p].tx, sub[p].next_seq, r.tx, r.next_seq)
          /\ ~ sub[p].subscribed => r.tx = sub[p].tx /\ r.next_seq = sub[p].next_seq
      <4>1. PumpResult(sub[p], sock[p], inbox[p], r, n(p), after_flush(r, n(p)))
        BY <3>3, PumpOK, Zenon
      <4>2. PumpResult(sub[p], sock[p], inbox[p], r, n(p), sub'[p])
        BY <3>2, <4>1, Zenon
      <4> HIDE DEF n
      <4> QED
        BY <4>2, Zenon DEF PumpResult
    <3> HIDE DEF n, sent, r
    <3>5. PeerStep(p)
      <4>1. sock[p] \in Seq(Sent) /\ sub[p].tx \in Seq(Sent) /\ sub[p].next_seq \in Nat
        BY DEF PInv, Subs
      <4>2. CASE sub[p].subscribed
        BY <3>1, <3>2, <3>3, <3>4, <4>1, <4>2, PumpStep, Zenon
      <4>3. CASE ~ sub[p].subscribed
        BY <3>1, <3>2, <3>4, <4>3, SameStream, Zenon
      <4> QED
        BY <4>2, <4>3
    <3> QED
      BY <3>1, <3>2, <3>4, <3>5, Zenon
  <2>3. CASE p \notin Open
    <3>1. conn'[p] = conn[p] /\ sub'[p] = sub[p] /\ sock'[p] = sock[p] /\ inbox'[p] = inbox[p]
      BY <1>3, <2>3, Zenon
    <3>2. sub[p] = NewSubscriber
      BY <2>0, <2>3 DEF PeerOK, Open
    <3>3. PeerOK(conn'[p], sub'[p], sock'[p], inbox'[p], ring.head)
      BY <2>0, <3>1, Zenon
    <3>4. PeerStep(p)
      <4>1. ring'.head = ring.head
        BY <1>2, Zenon
      <4> QED
        BY <3>1, <4>1, Untouched, Zenon
    <3>5. sub'[p].tx = << >>
      BY <3>1, <3>2 DEF NewSubscriber
    <3> QED
      BY <3>3, <3>4, <3>5, Zenon
  <2> QED
    BY <2>1, <2>2, <2>3, Zenon
<1>6. RingInv'
  BY <1>2 DEF PInv, RingInv, oldest, frame, slot
<1>7. \A p \in Peers : conn'[p] \in {"new", "open", "closed"} /\ sub'[p] \in Subs /\ sock'[p] \in Seq(Sent) /\ inbox'[p] \in Seq(Piece)
  BY <1>5 DEF PeerOK
<1>8. /\ conn' \in [Peers -> {"new", "open", "closed"}] /\ sub' \in [Peers -> Subs]
      /\ sock' \in [Peers -> Seq(Sent)] /\ inbox' \in [Peers -> Seq(Piece)]
  BY <1>4, <1>7
<1> QED
  BY <1>2, <1>5, <1>6, <1>8, Zenon DEF PInv

LEMMA InitOK ==
  ASSUME Init
  PROVE  PInv /\ \A p \in Peers : Promise(p)!Init
<1>1. RingInv
  <2>1. ring.head = 0 /\ published = 0 /\ ring \in [head : Nat, seq : [RingSlots -> Nat]] /\ oldest(ring) = 1
    BY RingAssumption DEF Init, EmptyRing, oldest
  <2> QED
    BY <2>1, PublisherAssumption DEF RingInv
<1>2. ASSUME NEW p \in Peers
      PROVE  /\ conn[p] = "new" /\ sub[p] = NewSubscriber /\ sock[p] = << >> /\ inbox[p] = << >>
             /\ PeerOK(conn[p], sub[p], sock[p], inbox[p], ring.head)
  BY NewOK DEF Init
<1>3. /\ conn \in [Peers -> {"new", "open", "closed"}] /\ sub \in [Peers -> Subs]
      /\ sock \in [Peers -> Seq(Sent)] /\ inbox \in [Peers -> Seq(Piece)] /\ dirty \in BOOLEAN
  <2>1. NewSubscriber \in Subs
    BY AgeValues DEF NewSubscriber, Subs
  <2>2. << >> \in Seq(Sent) /\ << >> \in Seq(Piece)
    OBVIOUS
  <2> QED
    BY <2>1, <2>2, Zenon DEF Init
<1>4. ASSUME NEW p \in Peers PROVE sub[p].tx = << >> /\ ~ sub[p].subscribed /\ sub[p].next_seq = 0
  BY <1>2 DEF NewSubscriber
<1>5. ASSUME NEW p \in Peers PROVE Promise(p)!Init
  <2>1. ring.head = 0
    BY DEF Init, EmptyRing
  <2>2. PeerState(p) = "waiting" /\ Stream(p) = << >>
    BY <1>2, <1>4 DEF PeerState, Stream
  <2> QED
    BY <1>4, <2>1, <2>2 DEF Promise!Init
<1> QED
  BY <1>1, <1>2, <1>3, <1>4, <1>5, SMTT(20) DEF PInv

LEMMA NextKeeps ==
  ASSUME NoSeqWrap, PInv, [Next]_vars
  PROVE  PInv' /\ \A p \in Peers : PeerStep(p)
<1>1. CASE Publish
  BY <1>1, PublishKeeps
<1>2. CASE FlushAll
  BY <1>2, FlushAllKeeps
<1>3. CASE Tick
  BY <1>3, TickKeeps
<1>4. ASSUME NEW p \in Peers, Subscribe(p) \/ OnReadable(p) \/ OnWritable(p) \/ Send(p) \/ Read(p)
      PROVE  PInv' /\ \A r \in Peers : PeerStep(r)
  BY <1>4, SubscribeKeeps, OnReadableKeeps, OnWritableKeeps, SendKeeps, ReadKeeps, SMTT(20)
<1>5. ASSUME NEW p \in Peers, Close(p) PROVE PInv' /\ \A r \in Peers : PeerStep(r)
  BY <1>5, IdleKeeps DEF Close
<1>6. CASE UNCHANGED vars
  BY <1>6, IdleKeeps DEF vars
<1> QED
  BY <1>1, <1>2, <1>3, <1>4, <1>5, <1>6, SMTT(20) DEF Next

LEMMA Invariance ==
  ASSUME NoSeqWrap
  PROVE  Spec => []PInv
<1>1. Init => PInv
  BY InitOK
<1>2. PInv /\ [Next]_vars => PInv'
  BY NextKeeps
<1> QED
  BY <1>1, <1>2, PTL DEF Spec
------------------------------------------------------------------------------
(* For any number of peers, any ring, limits, timeouts and interleaving:   *)
(* as long as fewer frames are published than a seq can number, what pump, *)
(* flush, drop and on_readable do to a peer is a step of what the port     *)
(* promises it.                                                            *)
THEOREM StreamRefinement ==
  ASSUME NoSeqWrap
  PROVE  Spec => ImplementsMdStream
<1>1. Init => \A p \in Peers : Promise(p)!Init
  BY InitOK
<1>2. PInv /\ [Next]_vars => [\A p \in Peers : UNCHANGED Promise(p)!streamVars \/ Promise(p)!Next]_vars
  BY NextKeeps DEF PeerStep
<1> QED
  BY <1>1, <1>2, Invariance, PTL DEF Spec, ImplementsMdStream

(* The backlog bound holds for any limit and any frame lengths, for        *)
(* however far behind the peers are (publisher.cpp:26, 33).                *)
THEOREM BacklogStaysBounded ==
  ASSUME NoSeqWrap
  PROVE  Spec => []BacklogBounded
<1>1. PInv => BacklogBounded
  <2> SUFFICES ASSUME PInv, NEW p \in Open PROVE backlog(sub[p]) < MaxBacklog + Max({FrameLen, ControlLen})
    BY DEF BacklogBounded
  <2>1. Within(sub[p].tx)
    BY DEF PInv, PeerOK, Open
  <2>2. Max({FrameLen, ControlLen}) = FrameLen
    BY Lengths, MaxUnique, SMTT(20)
  <2> QED
    BY <2>1, <2>2, BacklogIsBytes DEF Within
<1> QED
  BY <1>1, Invariance, PTL

(* No wake-up is lost: bytes left in a queue have write interest or the    *)
(* dirty flag, whoever writes, reads or closes in between                  *)
(* (net.cpp:110-118, publisher.cpp:76, 122).                               *)
THEOREM WakeupsKept ==
  ASSUME NoSeqWrap
  PROVE  Spec => []NoLostWakeup
<1>1. PInv => NoLostWakeup
  BY DEF PInv, NoLostWakeup, pending, Open
<1> QED
  BY <1>1, Invariance, PTL
==============================================================================
