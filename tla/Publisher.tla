------------------------------ MODULE Publisher ------------------------------
(***************************************************************************)
(* The market-data publisher (include/matchbox/publisher.hpp,              *)
(* src/publisher.cpp) over the replay ring, with the sockets of its        *)
(* subscribers: Conn::flush, flush_and_arm and the poller's events         *)
(* (src/net.cpp, src/poller.cpp) and the TCP connection in both            *)
(* directions.  The gateway thread runs on_readable, on_writable, publish  *)
(* and flush_all one at a time; peers and the clock run in between.        *)
(*                                                                         *)
(* A socket takes whole frames, up to SockCap of them, until the peer has  *)
(* read them; the bytes of a frame that a write cut in two stay in the     *)
(* backlog here.  A Subscribe frame reaches the server in one or in two    *)
(* pieces.  Time passes in milliseconds; a time stamp is kept as its age,  *)
(* which stops growing at the timeout it is compared with, and None is the *)
(* code's 0, "not set".                                                    *)
(***************************************************************************)
EXTENDS ReplayRing, MdFrames, Sequences, FiniteSetsExt

CONSTANTS
  Peers,         \* market-data connections
  MaxBacklog,    \* Config::max_backlog
  FrameLen,      \* bytes of a Trade or Top frame
  ControlLen,    \* bytes of a Gap or Heartbeat frame
  HeartbeatMs,   \* Config::heartbeat_ms
  StallMs,       \* Config::stall_timeout_ms
  SockCap,       \* frames that fit between a write and the peer's read
  FromSeqs,      \* the from_seq values peers send
  MaxPublish,    \* bound: frames published
  Junk           \* whether peers also send something that is no Subscribe

ASSUME PublisherAssumption ==
  /\ MaxBacklog \in Nat \ {0} /\ FrameLen \in Nat \ {0} /\ ControlLen \in 1 .. FrameLen
  /\ HeartbeatMs \in Nat \ {0} /\ StallMs \in Nat \ {0} /\ SockCap \in Nat \ {0}
  /\ FromSeqs \subseteq Nat /\ MaxPublish \in Nat /\ Junk \in BOOLEAN

VARIABLES
  ring,       \* ring_
  sub,        \* sub[p]: the Subscriber of peer p, meaningful while conn[p] = "open"
  conn,       \* "new", "open" (in subs_), "closed" (dropped)
  dirty,      \* dirty_
  tick,       \* now_ns >= next_tick_ns_
  sock,       \* sock[p]: frames accepted by the socket and not yet read by the peer
  inbox,      \* inbox[p]: pieces sent by the peer and not yet read by the server
  hup,        \* hup[p]: the peer has closed its end
  published,  \* frames published so far (the bound MaxPublish)
  quiet,      \* history: for how long the peer has had bytes pending and took none
  cause       \* history: why the peer was dropped

serverVars == <<ring, sub, conn, dirty, tick>>
vars == <<ring, sub, conn, dirty, tick, sock, inbox, hup, published, quiet, cause>>

None == -1

NewSubscriber ==
  [subscribed |-> FALSE, next_seq |-> 0, last_tx |-> None, stalled |-> None,
   rx |-> << >>, tx |-> << >>, want_write |-> FALSE]

pending(s) == s.tx # << >>
backlog(s) ==
  LET data == {k \in 1 .. Len(s.tx) : s.tx[k].kind = "data"}
  IN FrameLen * Cardinality(data) + ControlLen * (Len(s.tx) - Cardinality(data))

control(s, f, txAge) == [s EXCEPT !.tx = Append(@, f), !.last_tx = txAge]
------------------------------------------------------------------------------
(* Conn::flush and flush_and_arm on a socket with `room' frames of space:  *)
(* how many frames go, and what is left.                                   *)
Flushable(s, room) == Min({Len(s.tx), room})

(* Fault: write interest is only ever taken away.                          *)
flush_and_arm_disarms(s, n) ==
  LET rest == SubSeq(s.tx, n + 1, Len(s.tx)) IN [s EXCEPT !.tx = rest, !.want_write = @ /\ rest # << >>]

flush_and_arm(s, n) ==
  LET rest == SubSeq(s.tx, n + 1, Len(s.tx)) IN [s EXCEPT !.tx = rest, !.want_write = rest # << >>]

(* Fault: the heartbeat clock starts again at every pump.                  *)
start_clock_always(s) == [s EXCEPT !.last_tx = 0]

(* pump() up to the flush: the gap, the copies out of the ring, and the    *)
(* heartbeat.                                                              *)
start_clock(s) == IF s.last_tx = None THEN [s EXCEPT !.last_tx = 0] ELSE s

(* Fault: the cursor of a lapped subscriber goes on at the head.           *)
gap_if_lapped_to_head(s) ==
  IF backlog(s) < MaxBacklog /\ s.next_seq < oldest(ring)
  THEN [control(s, Gap(s.next_seq, IncSeq(ring.head)), 0) EXCEPT !.next_seq = IncSeq(ring.head)]
  ELSE s

gap_if_lapped(s) ==
  IF backlog(s) < MaxBacklog /\ s.next_seq < oldest(ring)
  THEN [control(s, Gap(s.next_seq, oldest(ring)), 0) EXCEPT !.next_seq = oldest(ring)]
  ELSE s

(* Fault: one frame too many at the limit; the newest frame left out.      *)
copies_past_limit(s) ==
  Min({n \in 0 .. MaxBacklog : \/ (s.next_seq + n) % SeqMod > ring.head
                               \/ backlog(s) + n * FrameLen > MaxBacklog})

copies_all_but_last(s) ==
  Min({n \in 0 .. MaxBacklog : \/ (s.next_seq + n) % SeqMod >= ring.head
                               \/ backlog(s) + n * FrameLen >= MaxBacklog})

(* The rounds of the copy loop: it stops past head_ or at max_backlog.     *)
copies(s) ==
  Min({n \in 0 .. MaxBacklog : \/ (s.next_seq + n) % SeqMod > ring.head
                               \/ backlog(s) + n * FrameLen >= MaxBacklog})

copy_frames(s) ==
  LET n == copies(s)
      at(k) == (s.next_seq + k) % SeqMod
  IN IF n = 0 THEN s
     ELSE [s EXCEPT !.tx = @ \o [k \in 1 .. n |-> Data(frame(ring, at(k - 1)))],
                    !.next_seq = at(n), !.last_tx = 0]

heartbeat_if_idle(s) ==
  IF s.last_tx >= HeartbeatMs /\ ~ pending(s) THEN control(s, Heartbeat(ring.head), 0) ELSE s

refill(s) ==
  LET s1 == start_clock(s)
  IN IF s1.subscribed THEN heartbeat_if_idle(copy_frames(gap_if_lapped(s1))) ELSE s1

(* Fault: the stall clock starts again at every pump.                      *)
after_flush_forgets(s, n) ==
  LET s1 == flush_and_arm(s, n) IN [s1 EXCEPT !.stalled = IF pending(s1) /\ n = 0 THEN 0 ELSE None]

(* The rest of pump(): s after refill, n frames flushed.                   *)
after_flush(s, n) ==
  LET s1 == flush_and_arm(s, n)
  IN [s1 EXCEPT !.stalled = IF pending(s1) /\ n = 0 THEN (IF @ = None THEN 0 ELSE @) ELSE None]

stalled_out(s) == s.stalled # None /\ s.stalled >= StallMs

pump(p) == LET s == refill(sub[p]) IN after_flush(s, Flushable(s, SockCap - Len(sock[p])))
------------------------------------------------------------------------------
Init ==
  /\ ring = EmptyRing
  /\ sub = [p \in Peers |-> NewSubscriber]
  /\ conn = [p \in Peers |-> "new"]
  /\ dirty = FALSE /\ tick = TRUE
  /\ sock = [p \in Peers |-> << >>]
  /\ inbox = [p \in Peers |-> << >>]
  /\ hup = [p \in Peers |-> FALSE]
  /\ published = 0
  /\ quiet = [p \in Peers |-> 0]
  /\ cause = [p \in Peers |-> "none"]

Open == {p \in Peers : conn[p] = "open"}

(* What a flush that moved n frames of tx says about the peer.             *)
QuietAfter(p, s, n) == IF n > 0 \/ ~ pending(s) THEN 0 ELSE quiet[p]

(* publish() of a Trade or Top (Server::on_event).                         *)
Publish ==
  /\ published < MaxPublish
  /\ published' = published + 1
  /\ ring' = append(ring)
  /\ dirty' = TRUE
  /\ UNCHANGED <<sub, conn, tick, sock, inbox, hup, quiet, cause>>

(* subscribe() of a connection accept_all has accepted.                    *)
Subscribe(p) ==
  /\ conn[p] = "new"
  /\ conn' = [conn EXCEPT ![p] = "open"]
  /\ sub' = [sub EXCEPT ![p] = NewSubscriber]
  /\ UNCHANGED <<ring, dirty, tick, sock, inbox, hup, published, quiet, cause>>

(* drop(): the connection and what was in it are gone.                     *)
drop(gone, why) ==
  /\ conn' = [p \in Peers |-> IF p \in gone THEN "closed" ELSE conn[p]]
  /\ cause' = [p \in Peers |-> IF p \in gone THEN why[p] ELSE cause[p]]
  /\ inbox' = [p \in Peers |-> IF p \in gone THEN << >> ELSE inbox[p]]

(* "Exactly one Subscribe per connection; anything else is a protocol error" *)
bad_frame(s) == s.subscribed \/ ~ s.rx[1].ok \/ Len(s.rx) > 2

(* Fault: a from_seq ahead of head_ is believed.                           *)
resume_at_uncut(s, from) ==
  [s EXCEPT !.rx = << >>, !.subscribed = TRUE, !.next_seq = IF from = 0 THEN IncSeq(ring.head) ELSE from]

(* Where a subscription starts, and the Gap a client ahead of head_ gets.   *)
resume_at(s, from) ==
  LET next == IncSeq(ring.head)
      s1 == [s EXCEPT !.rx = << >>, !.subscribed = TRUE]
  IN IF from = 0 THEN [s1 EXCEPT !.next_seq = next]
     ELSE IF from > next THEN [control(s1, Gap(from, next), None) EXCEPT !.next_seq = next]
     ELSE [s1 EXCEPT !.next_seq = from % SeqMod]

(* on_readable(): everything that has arrived is read; a closed peer is    *)
(* dropped, a piece of a Subscribe frame waits, a Subscribe frame is acted *)
(* on, anything else is a protocol error.                                  *)
OnReadable(p) ==
  /\ conn[p] = "open"
  /\ inbox[p] # << >> \/ hup[p]
  /\ LET s == [sub[p] EXCEPT !.rx = @ \o inbox[p]]
     IN \/ /\ hup[p]
           /\ drop({p}, [q \in {p} |-> "closed"])
           /\ sub' = [sub EXCEPT ![p] = NewSubscriber]
           /\ sock' = [sock EXCEPT ![p] = << >>]
           /\ UNCHANGED dirty
        \/ /\ ~ hup[p] /\ Len(s.rx) >= 2 /\ bad_frame(s)
           /\ drop({p}, [q \in {p} |-> "protocol"])
           /\ sub' = [sub EXCEPT ![p] = NewSubscriber]
           /\ sock' = [sock EXCEPT ![p] = << >>]
           /\ UNCHANGED dirty
        \/ /\ ~ hup[p] /\ Len(s.rx) < 2
           /\ sub' = [sub EXCEPT ![p] = s]
           /\ inbox' = [inbox EXCEPT ![p] = << >>]
           /\ UNCHANGED <<conn, cause, dirty, sock>>
        \/ /\ ~ hup[p] /\ Len(s.rx) >= 2 /\ ~ bad_frame(s)
           /\ sub' = [sub EXCEPT ![p] = resume_at(s, s.rx[2].from)]
           /\ inbox' = [inbox EXCEPT ![p] = << >>]
           /\ dirty' = TRUE
           /\ UNCHANGED <<conn, cause, sock>>
  /\ UNCHANGED <<ring, tick, hup, published, quiet>>

(* on_writable(): the poller reports space only while write interest is    *)
(* armed.  A write to a peer that has closed its end may fail.             *)
OnWritable(p) ==
  /\ conn[p] = "open" /\ sub[p].want_write
  /\ Len(sock[p]) < SockCap \/ hup[p]
  /\ dirty' = TRUE
  /\ LET n == Flushable(sub[p], SockCap - Len(sock[p]))
         s == flush_and_arm(sub[p], n)
     IN \/ /\ sub' = [sub EXCEPT ![p] = s]
           /\ sock' = [sock EXCEPT ![p] = @ \o SubSeq(sub[p].tx, 1, n)]
           /\ quiet' = [quiet EXCEPT ![p] = QuietAfter(p, s, n)]
           /\ UNCHANGED <<conn, cause, inbox>>
        \/ /\ hup[p]
           /\ drop({p}, [q \in {p} |-> "closed"])
           /\ sub' = [sub EXCEPT ![p] = NewSubscriber]
           /\ sock' = [sock EXCEPT ![p] = << >>]
           /\ UNCHANGED quiet
  /\ UNCHANGED <<ring, tick, hup, published>>

(* flush_all() once something is dirty or the millisecond is over: every   *)
(* subscriber is pumped; those with a failing socket (some of the closed   *)
(* peers that are written to) and those stalled too long are dropped.      *)
FlushAll ==
  /\ dirty \/ tick
  /\ dirty' = FALSE /\ tick' = FALSE
  /\ \E failed \in SUBSET {p \in Open : hup[p] /\ pending(refill(sub[p]))} :
       LET n == [p \in Open |-> Flushable(refill(sub[p]), SockCap - Len(sock[p]))]
           dead == failed \cup {p \in Open : stalled_out(pump(p))}
           alive == Open \ dead
       IN /\ drop(dead, [p \in dead |-> IF p \in failed THEN "closed" ELSE "stalled"])
          /\ sub' = [p \in Peers |-> IF p \in alive THEN pump(p)
                                     ELSE IF p \in dead THEN NewSubscriber ELSE sub[p]]
          /\ sock' = [p \in Peers |-> IF p \in alive THEN sock[p] \o SubSeq(refill(sub[p]).tx, 1, n[p])
                                      ELSE IF p \in dead THEN << >> ELSE sock[p]]
          /\ quiet' = [p \in Peers |-> IF p \in alive THEN QuietAfter(p, pump(p), n[p]) ELSE quiet[p]]
  /\ UNCHANGED <<ring, hup, published>>
------------------------------------------------------------------------------
(* The environment: peers and the clock.                                   *)

(* A peer sends a Subscribe frame, in one piece or in two; with Junk also  *)
(* a frame that is not one, and more frames later.                         *)
Pieces(n) ==
  IF n % 2 = 1 THEN [from : FromSeqs] ELSE [ok : IF Junk THEN BOOLEAN ELSE {TRUE}]

Send(p) ==
  /\ conn[p] = "open" /\ ~ hup[p]
  /\ LET unread == Len(sub[p].rx) + Len(inbox[p])
     IN /\ IF Junk THEN unread < 3 ELSE unread < 2 /\ ~ sub[p].subscribed
        /\ \E piece \in Pieces(unread) : inbox' = [inbox EXCEPT ![p] = Append(@, piece)]
  /\ UNCHANGED <<ring, sub, conn, dirty, tick, sock, hup, published, quiet, cause>>

Read(p) ==
  /\ sock[p] # << >> /\ ~ hup[p]
  /\ sock' = [sock EXCEPT ![p] = Tail(@)]
  /\ UNCHANGED <<ring, sub, conn, dirty, tick, inbox, hup, published, quiet, cause>>

Close(p) ==
  /\ conn[p] = "open" /\ ~ hup[p]
  /\ hup' = [hup EXCEPT ![p] = TRUE]
  /\ UNCHANGED <<ring, sub, conn, dirty, tick, sock, inbox, published, quiet, cause>>

Older(age, limit) == IF age = None THEN None ELSE Min({age + 1, limit})

(* A millisecond passes.                                                   *)
Tick ==
  /\ tick' = TRUE
  /\ sub' = [p \in Peers |-> [sub[p] EXCEPT !.last_tx = Older(@, HeartbeatMs), !.stalled = Older(@, StallMs)]]
  /\ quiet' = [p \in Peers |-> IF pending(sub[p]) THEN Older(quiet[p], StallMs) ELSE quiet[p]]
  /\ UNCHANGED <<ring, conn, dirty, sock, inbox, hup, published, cause>>
------------------------------------------------------------------------------
Next ==
  \/ Publish
  \/ FlushAll
  \/ Tick
  \/ \E p \in Peers :
       \/ Subscribe(p)
       \/ OnReadable(p)
       \/ OnWritable(p)
       \/ Send(p)
       \/ Read(p)
       \/ Close(p)

Spec == Init /\ [][Next]_vars

(* FlushAll by what no other action does: with [Next]_vars, weak fairness  *)
(* of one is weak fairness of the other.                                   *)
Flushed == (dirty \/ tick) /\ dirty' = FALSE /\ tick' = FALSE

(* The gateway loop keeps polling and calling flush_all, and time passes.  *)
GatewayRuns ==
  /\ WF_<<dirty, tick>>(Flushed) /\ WF_vars(Tick)
  /\ \A p \in Peers : WF_vars(OnReadable(p)) /\ WF_vars(OnWritable(p))

FairSpec == Spec /\ GatewayRuns
------------------------------------------------------------------------------
Frames ==
  [kind : {"data"}, seq : Seqs] \cup [kind : {"heartbeat"}, head_seq : Seqs]
    \cup [kind : {"gap"}, from : Seqs \cup FromSeqs, resumed_at : Seqs]

TypeOK ==
  /\ ring \in Rings
  /\ \A p \in Peers :
       /\ sub[p].subscribed \in BOOLEAN /\ sub[p].want_write \in BOOLEAN
       /\ sub[p].next_seq \in Seqs
       /\ sub[p].last_tx \in None .. HeartbeatMs /\ sub[p].stalled \in None .. StallMs
       /\ Range(sub[p].tx) \cup Range(sock[p]) \subseteq Frames
       /\ Len(sock[p]) <= SockCap
       /\ conn[p] # "open" => sub[p] = NewSubscriber /\ sock[p] = << >> /\ inbox[p] = << >>
       /\ conn[p] \in {"new", "open", "closed"} /\ hup[p] \in BOOLEAN
       /\ quiet[p] \in 0 .. StallMs
       /\ cause[p] \in {"none", "closed", "protocol", "stalled"}
  /\ dirty \in BOOLEAN /\ tick \in BOOLEAN /\ published \in 0 .. MaxPublish

Subscribed == {p \in Open : sub[p].subscribed}

(* What is on its way to a peer, in order.                                 *)
Stream(p) == sock[p] \o sub[p].tx

PeerState(p) == IF conn[p] = "closed" THEN "closed" ELSE IF sub[p].subscribed THEN "live" ELSE "waiting"

Promise(p) ==
  INSTANCE MdStream WITH
    head <- ring.head, state <- PeerState(p), cursor <- sub[p].next_seq, chan <- Stream(p)

(* Each peer gets what the port promises (MdStream): the stream is         *)
(* "gap-free" but for Gap frames, and a Gap says exactly which "frames     *)
(* [from, resumed_at) are gone" (protocol.hpp:10-11, 166-168).  Whatever   *)
(* publish(), lapping, the limit on the backlog, partial flushes, the      *)
(* other peers and the choice of the first frame do, the frames on their   *)
(* way to a peer follow each other, none that the ring still holds is      *)
(* skipped, a slot that was overwritten is never sent for the frame that   *)
(* was in it ("Caller checks holds(seq)", replay_ring.hpp:36: pump()       *)
(* relies on the Gap step for it), and a heartbeat overtakes nothing.      *)
ImplementsMdStream ==
  /\ \A p \in Peers : Promise(p)!Init
  /\ [][\A p \in Peers : UNCHANGED Promise(p)!streamVars \/ Promise(p)!Next]_vars

(* The user-space backlog of a peer stays below max_backlog plus a frame,  *)
(* however far behind the peer is.  The limit itself is overshot by less   *)
(* than that: publisher.cpp:26 and 33 test it before they add a frame.     *)
BacklogBounded == \A p \in Open : backlog(sub[p]) < MaxBacklog + Max({FrameLen, ControlLen})

(* No wake-up is lost: bytes that stay in user space have write interest   *)
(* armed, so that on_writable() sends them, or the next flush_all() is due *)
(* (net.cpp:110-118, publisher.cpp:76, 122).                               *)
NoLostWakeup == \A p \in Open : pending(sub[p]) => sub[p].want_write \/ dirty

(* A subscriber whose peer keeps reading catches up, or its connection     *)
(* ends: its cursor gets past head_ and every frame has been read; after   *)
(* max_backlog stopped the cursor, after a lap and after a partial flush,  *)
(* pump() gets to it again (publisher.cpp:59-78).                          *)
CaughtUp(p) == sub[p].next_seq = IncSeq(ring.head) /\ \A f \in Range(Stream(p)) : f.kind # "data"

CatchUp ==
  \A p \in Peers : WF_vars(Read(p)) => (p \in Subscribed ~> p \notin Open \/ CaughtUp(p))

(* Bytes never wait for ever for a peer, whatever the peer does: they are  *)
(* handed to its socket or the peer is dropped ("A peer with bytes pending *)
(* that accepts none of them for stall_timeout is gone", publisher.cpp:49).*)
NoEndlessStall == \A p \in Peers : pending(sub[p]) ~> ~ pending(sub[p])

(* An idle stream carries heartbeats: a subscriber with nothing on its way *)
(* gets a frame sooner or later, even if nothing is published any more     *)
(* (publisher.cpp:40-45), unless its connection ends.                      *)
IdleStreamBeats ==
  \A p \in Peers : p \in Subscribed /\ Stream(p) = << >> ~> p \notin Open \/ Stream(p) # << >>
------------------------------------------------------------------------------
(* A statement of the repository that the code does not keep.              *)

(* "Only a peer that is stalled for stall_timeout_ms (never reads) is      *)
(* dropped" (publisher.hpp:24): a peer dropped for stalling took no frame  *)
(* while it had some pending for that long.                                *)
DroppedOnlyWhenStalled == \A p \in Peers : cause[p] = "stalled" => quiet[p] >= StallMs
==============================================================================
