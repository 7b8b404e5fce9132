------------------------------- MODULE Gateway -------------------------------
(***************************************************************************)
(* The order-entry side of the gateway (src/server.cpp, server.hpp, and    *)
(* Conn in net.cpp): connections are accepted and closed, descriptors are  *)
(* used again, frames arrive in pieces, are parsed and submitted, and the  *)
(* engine's events find their way back to the session they are for.        *)
(*                                                                         *)
(* A round of Server::run is a poll, a step for each event of the batch    *)
(* (and for each frame parsed), a step for each event drained, and the     *)
(* flush.  The rings are the bounded queues that SpscQueue implements.     *)
(* The engine answers each command once and may report a fill to any       *)
(* session that ever sent one; Trades and Tops are not for sessions, they  *)
(* are the Publisher's, which may also drop a subscriber.                  *)
(*                                                                         *)
(* A frame is two pieces: a header [valid, seq] and a body [good].  An     *)
(* output frame is [from, tag, seq]: the tag is the number of the client's *)
(* frame that it answers, 0 for a fill and for a Reject(BadSeq).           *)
(***************************************************************************)
EXTENDS Integers, Sequences, FiniteSets, SequencesExt, FiniteSetsExt, Functions

CONSTANTS
  Clients,      \* connections to the order port, each made once
  Watchers,     \* connections to the market-data port, each made once
  MaxFrames,    \* most frames that all clients together send
  ReadBuf,      \* pieces that fill read_session's buffer
  SockCap,      \* frames that a socket holds
  MaxBacklog,   \* Config::max_backlog, in frames
  RingCap,      \* capacity of both rings
  Junk          \* whether clients also send wrong frames

ASSUME GatewayAssumption ==
  /\ MaxFrames \in Nat \ {0} /\ ReadBuf \in Nat \ {0} /\ SockCap \in Nat \ {0}
  /\ MaxBacklog \in Nat /\ RingCap \in Nat \ {0} /\ Junk \in BOOLEAN
  /\ IsFiniteSet(Clients) /\ IsFiniteSet(Watchers) /\ Clients \cap Watchers = {}

VARIABLES
  srv,      \* the server's tables and the kernel's, see Init
  gpc,      \* "poll", "dispatch", "Listen" or "MdListen" in accept_all, "parse", "drain", "flush"
  batch,    \* the events of this round that are still to be dispatched
  cur,      \* the session being parsed
  inbox,    \* to_engine_
  outbox,   \* from_engine_
  phase,    \* phase[p]: "none", "waiting" in the accept queue, "accepted"
  arrived,  \* arrived[p]: pieces sent by p and not yet read by the server
  sent,     \* sent[p]: pieces sent so far
  hup,      \* hup[p]: p has closed its end
  got,      \* got[p]: the frames p has read
  said      \* history: said[sid], all the engine has said to a session

vars == <<srv, gpc, batch, cur, inbox, outbox, phase, arrived, sent, hup, got, said>>
peerVars == <<phase, sent, hup, got>>

Peers == Clients \cup Watchers
Fds == 1 .. Cardinality(Peers)      \* never more open at once
Sids == 1 .. Cardinality(Clients)   \* next_sid_ does not come round again
Nobody == "nobody"

NewSession(fd) ==
  [fd |-> fd, rx |-> << >>, expect_seq |-> 1, tx |-> << >>, out_seq |-> 1,
   want_write |-> FALSE, dirty |-> FALSE]

Init ==
  /\ srv = [kind |-> [fd \in Fds |-> "None"], sid |-> [fd \in Fds |-> 0],
            sessions |-> << >>, dirty |-> << >>, next_sid |-> 1,
            subs |-> {},                          \* the Publisher's descriptors
            file |-> [fd \in Fds |-> Nobody],     \* kernel: whose connection it is
            sock |-> [p \in Clients |-> << >>]]   \* kernel: written, not yet read
  /\ gpc = "poll" /\ batch = {} /\ cur = 0
  /\ inbox = << >> /\ outbox = << >>
  /\ phase = [p \in Peers |-> "none"]
  /\ arrived = [p \in Clients |-> << >>] /\ sent = [p \in Clients |-> 0]
  /\ hup = [p \in Peers |-> FALSE]
  /\ got = [p \in Clients |-> << >>]
  /\ said = [s \in Sids |-> << >>]
------------------------------------------------------------------------------
(* Operations on srv.                                                      *)

Live(v) == DOMAIN v.sessions
PeerOf(v, s) == v.file[v.sessions[s].fd]

track(v, fd, kind, s) == [v EXCEPT !.kind[fd] = kind, !.sid[fd] = s]

(* session_by_fd(fd), 0 for nullptr.                                       *)
session_by_fd(v, fd) == IF v.kind[fd] = "Session" /\ v.sid[fd] \in Live(v) THEN v.sid[fd] ELSE 0

(* Fault: the descriptor keeps its entry in the tables.                    *)
close_session_untracked(v, s) ==
  [v EXCEPT !.file[v.sessions[s].fd] = Nobody, !.sessions = Restrict(@, DOMAIN @ \ {s})]

close_session(v, s) ==
  LET fd == v.sessions[s].fd
  IN [track(v, fd, "None", 0) EXCEPT !.file[fd] = Nobody, !.sessions = Restrict(@, DOMAIN @ \ {s})]

(* accept() hands out the lowest descriptor that is not open.              *)
FreeFd(v) == Min({fd \in Fds : v.file[fd] = Nobody})

accept(v, p) ==
  LET fd == FreeFd(v)
      v1 == [v EXCEPT !.file[fd] = p]
  IN IF p \in Clients
     THEN [track(v1, fd, "Session", v.next_sid) EXCEPT
             !.sessions = (v.next_sid :> NewSession(fd)) @@ @, !.next_sid = @ + 1]
     ELSE [track(v1, fd, "Subscriber", 0) EXCEPT !.subs = @ \cup {fd}]

(* Server::send and Conn::queue.                                           *)
send(v, s, from, tag) ==
  LET c == v.sessions[s]
  IN [v EXCEPT !.sessions[s] = [c EXCEPT !.tx = Append(@, [from |-> from, tag |-> tag, seq |-> c.out_seq]),
                                         !.out_seq = @ + 1, !.dirty = TRUE],
               !.dirty = IF c.dirty THEN @ ELSE Append(@, s)]

(* Fault: more is taken as written than the socket has room for.           *)
flush_everything(v, s) ==
  [v EXCEPT !.sock[PeerOf(v, s)] = @ \o v.sessions[s].tx, !.sessions[s].tx = << >>]

(* Conn::flush as far as the socket takes it.                              *)
flush(v, s) ==
  LET p == PeerOf(v, s)
      tx == v.sessions[s].tx
      n == Min({Len(tx), SockCap - Len(v.sock[p])})
  IN [v EXCEPT !.sock[p] = @ \o SubSeq(tx, 1, n), !.sessions[s].tx = SubSeq(@, n + 1, Len(@))]

flush_and_arm(v, s) ==
  LET v1 == flush(v, s) IN [v1 EXCEPT !.sessions[s].want_write = v1.sessions[s].tx # << >>]

(* A write fails only when the peer has gone.                              *)
fails(v, s, gone) == PeerOf(v, s) \in gone /\ v.sessions[s].tx # << >>
------------------------------------------------------------------------------
(* The gateway thread.                                                     *)

Readable(p) == hup[p] \/ (p \in Clients /\ arrived[p] # << >>)

Writable(s) ==
  srv.sessions[s].want_write /\ (hup[PeerOf(srv, s)] \/ Len(srv.sock[PeerOf(srv, s)]) < SockCap)

(* The listening socket that p connects to, by its Kind.                   *)
Listener(p) == IF p \in Clients THEN "Listen" ELSE "MdListen"

(* What the poller reports: readiness to read and to write separately, as  *)
(* kqueue does; epoll's one event for both is dispatched write first.      *)
Ready ==
  {<<"read", fd>> : fd \in {fd \in Fds : srv.file[fd] # Nobody /\ Readable(srv.file[fd])}}
    \cup {<<"write", srv.sessions[s].fd>> : s \in {s \in Live(srv) : Writable(s)}}
    \cup {<<Listener(p), 0>> : p \in {p \in Peers : phase[p] = "waiting"}}

Poll ==
  /\ gpc = "poll"
  /\ batch' = Ready
  /\ gpc' = "dispatch"
  /\ UNCHANGED <<srv, cur, inbox, outbox, arrived, said, peerVars>>

OnListen(kind) ==
  /\ gpc = "dispatch" /\ <<kind, 0>> \in batch
  /\ batch' = batch \ {<<kind, 0>>}
  /\ gpc' = kind
  /\ UNCHANGED <<srv, cur, inbox, outbox, arrived, said, peerVars>>

(* A round of accept_all, until nobody is waiting.                         *)
Accept ==
  /\ gpc \in {"Listen", "MdListen"}
  /\ LET queue == {p \in Peers : phase[p] = "waiting" /\ Listener(p) = gpc}
     IN \/ \E p \in queue :
             /\ srv' = accept(srv, p)
             /\ phase' = [phase EXCEPT ![p] = "accepted"]
             /\ UNCHANGED gpc
        \/ /\ queue = {}
           /\ gpc' = "dispatch"
           /\ UNCHANGED <<srv, phase>>
  /\ UNCHANGED <<batch, cur, inbox, outbox, arrived, sent, hup, got, said>>

(* A writable event.  By now the descriptor may be someone else's.         *)
OnWritable(fd) ==
  /\ gpc = "dispatch" /\ <<"write", fd>> \in batch
  /\ batch' = batch \ {<<"write", fd>>}
  /\ LET s == session_by_fd(srv, fd)
     IN \/ s = 0 /\ UNCHANGED srv
        \/ /\ s # 0
           /\ \E gone \in SUBSET {p \in Clients : hup[p]} :
                srv' = IF fails(srv, s, gone) THEN close_session(srv, s) ELSE flush_and_arm(srv, s)
  /\ UNCHANGED <<gpc, cur, inbox, outbox, arrived, said, peerVars>>

(* A readable event: read_session up to parse_frames.  A read that fills   *)
(* the buffer is followed by another; when that one finds the end of the   *)
(* stream the session is closed and what was read is not parsed.           *)
OnReadable(fd) ==
  /\ gpc = "dispatch" /\ <<"read", fd>> \in batch
  /\ batch' = batch \ {<<"read", fd>>}
  /\ LET s == session_by_fd(srv, fd)
         p == srv.file[fd]
     IN \/ /\ s # 0 /\ hup[p] /\ Len(arrived[p]) % ReadBuf = 0
           /\ srv' = close_session(srv, s)
           /\ arrived' = [arrived EXCEPT ![p] = << >>]
           /\ UNCHANGED <<gpc, cur>>
        \/ /\ s # 0 /\ ~ (hup[p] /\ Len(arrived[p]) % ReadBuf = 0)
           /\ srv' = [srv EXCEPT !.sessions[s].rx = @ \o arrived[p]]
           /\ arrived' = [arrived EXCEPT ![p] = << >>]
           /\ gpc' = "parse" /\ cur' = s
        \/ /\ s = 0 /\ fd \in srv.subs /\ hup[p]    \* Publisher::on_readable
           /\ srv' = [srv EXCEPT !.subs = @ \ {fd}, !.file[fd] = Nobody]
           /\ UNCHANGED <<arrived, gpc, cur>>
        \/ /\ s = 0 /\ ~ (fd \in srv.subs /\ hup[p])
           /\ UNCHANGED <<srv, arrived, gpc, cur>>
  /\ UNCHANGED <<inbox, outbox, said, peerVars>>

(* Fault: the frame stays in rx.                                           *)
take_frame_kept(v, s) == [v EXCEPT !.sessions[s].expect_seq = @ + 1]

(* Fault: expect_seq is not advanced.                                      *)
take_frame_uncounted(v, s) == [v EXCEPT !.sessions[s].rx = SubSeq(@, 3, Len(@))]

(* A frame with the expected seq is taken out of rx.                       *)
take_frame(v, s) == [v EXCEPT !.sessions[s].expect_seq = @ + 1, !.sessions[s].rx = SubSeq(@, 3, Len(@))]

(* One round of parse_frames; when it returns false the rest of            *)
(* read_session, a last flush and the close, is part of it.                *)
ParseFrame ==
  /\ gpc = "parse"
  /\ LET s == cur
         c == srv.sessions[s]
         h == c.rx[1]
     IN \/ /\ c.rx # << >> => h.valid /\ Len(c.rx) < 2    \* wait for more
           /\ gpc' = "dispatch" /\ cur' = 0
           /\ UNCHANGED <<srv, inbox>>
        \/ /\ c.rx # << >> /\ ~ h.valid
           /\ srv' = close_session(flush(srv, s), s)
           /\ gpc' = "dispatch" /\ cur' = 0
           /\ UNCHANGED inbox
        \/ /\ Len(c.rx) >= 2 /\ h.valid
           /\ \/ /\ h.seq # c.expect_seq                    \* Reject(BadSeq)
                 /\ srv' = close_session(flush(send(srv, s, "gateway", 0), s), s)
                 /\ gpc' = "dispatch" /\ cur' = 0
                 /\ UNCHANGED inbox
              \/ /\ h.seq = c.expect_seq /\ ~ c.rx[2].good   \* Reject(BadMessage)
                 /\ srv' = send(take_frame(srv, s), s, "gateway", h.seq)
                 /\ UNCHANGED <<gpc, cur, inbox>>
              \/ /\ h.seq = c.expect_seq /\ c.rx[2].good     \* submit
                 /\ Len(inbox) < RingCap
                 /\ srv' = take_frame(srv, s)
                 /\ inbox' = Append(inbox, [session |-> s, tag |-> h.seq])
                 /\ UNCHANGED <<gpc, cur>>
  /\ UNCHANGED <<batch, outbox, arrived, said, peerVars>>

Dispatched ==
  /\ gpc = "dispatch" /\ batch = {}
  /\ gpc' = "drain"
  /\ UNCHANGED <<srv, batch, cur, inbox, outbox, arrived, said, peerVars>>

(* Fault: the event goes to the session that came last.                    *)
on_event_newest(v, e) == IF Live(v) # {} THEN send(v, Max(Live(v)), "engine", e.tag) ELSE v

(* on_event of a response: it is dropped when the client went away.        *)
on_event(v, e) == IF e.session \in Live(v) THEN send(v, e.session, "engine", e.tag) ELSE v

(* A round of drain_engine.                                                *)
Drain ==
  /\ gpc = "drain"
  /\ \/ /\ outbox # << >>
        /\ srv' = on_event(srv, Head(outbox))
        /\ outbox' = Tail(outbox)
        /\ UNCHANGED gpc
     \/ /\ outbox = << >>
        /\ gpc' = "flush"
        /\ UNCHANGED <<srv, outbox>>
  /\ UNCHANGED <<batch, cur, inbox, arrived, said, peerVars>>

(* Fault: the session is not closed, however much is left.                 *)
flush_one_unlimited(v, s, gone) ==
  IF s \notin Live(v) THEN v
  ELSE LET v1 == [v EXCEPT !.sessions[s].dirty = FALSE]
       IN IF fails(v1, s, gone) THEN close_session(v1, s) ELSE flush_and_arm(v1, s)

(* Fault: s.dirty stays set.                                               *)
flush_one_still_dirty(v, s, gone) ==
  IF s \notin Live(v) THEN v
  ELSE LET v1 == flush_and_arm(v, s)
       IN IF fails(v, s, gone) THEN close_session(v, s)
          ELSE IF Len(v1.sessions[s].tx) > MaxBacklog THEN close_session(v1, s) ELSE v1

(* One session of flush_dirty.                                             *)
flush_one(v, s, gone) ==
  IF s \notin Live(v) THEN v
  ELSE LET v1 == [v EXCEPT !.sessions[s].dirty = FALSE]
           v2 == flush_and_arm(v1, s)
       IN IF fails(v1, s, gone) THEN close_session(v1, s)
          ELSE IF Len(v2.sessions[s].tx) > MaxBacklog THEN close_session(v2, s) ELSE v2

(* flush_dirty, and the subscribers that Publisher::flush_all drops: their *)
(* entries in the tables stay.                                             *)
Flush ==
  /\ gpc = "flush"
  /\ \E gone \in SUBSET {p \in Clients : hup[p]}, dropped \in SUBSET srv.subs :
       LET v == FoldLeft(LAMBDA w, s : flush_one(w, s, gone), srv, srv.dirty)
       IN srv' = [v EXCEPT !.dirty = << >>, !.subs = @ \ dropped,
                           !.file = [fd \in Fds |-> IF fd \in dropped THEN Nobody ELSE @[fd]]]
  /\ gpc' = "poll"
  /\ UNCHANGED <<batch, cur, inbox, outbox, arrived, said, peerVars>>
------------------------------------------------------------------------------
(* The engine thread: one answer to the command, and perhaps a fill of     *)
(* that order or of one that some session left in the book.                *)
Process ==
  /\ inbox # << >> /\ Len(outbox) + 2 <= RingCap
  /\ LET c == Head(inbox)
     IN \E fills \in {<< >>} \cup {<<[session |-> s, tag |-> 0]>> : s \in {s \in Sids : s = c.session \/ said[s] # << >>}} :
          LET events == <<c>> \o fills
          IN /\ outbox' = outbox \o events
             /\ said' = [s \in Sids |-> said[s] \o SelectSeq(events, LAMBDA e : e.session = s)]
  /\ inbox' = Tail(inbox)
  /\ UNCHANGED <<srv, gpc, batch, cur, arrived, peerVars>>
------------------------------------------------------------------------------
(* The environment.                                                        *)

Connected(p) == phase[p] = "waiting" \/ \E fd \in Fds : srv.file[fd] = p

Connect(p) ==
  /\ phase[p] = "none"
  /\ phase' = [phase EXCEPT ![p] = "waiting"]
  /\ UNCHANGED <<srv, gpc, batch, cur, inbox, outbox, arrived, sent, hup, got, said>>

FramesSent == SumFunction([p \in Clients |-> (sent[p] + 1) \div 2])

(* A client sends the next piece of its next frame: a header with the next *)
(* seq, with Junk also a wrong one or no valid header at all; a good body, *)
(* with Junk also a bad one.                                               *)
Headers(seq) ==
  [valid : {TRUE}, seq : IF Junk THEN {seq, seq + 1} ELSE {seq}]
    \cup [valid : IF Junk THEN {FALSE} ELSE {}, seq : {seq}]

Bodies == [good : IF Junk THEN BOOLEAN ELSE {TRUE}]

Send(p) ==
  /\ Connected(p) /\ ~ hup[p]
  /\ sent[p] % 2 = 0 => FramesSent < MaxFrames
  /\ \E piece \in IF sent[p] % 2 = 0 THEN Headers(sent[p] \div 2 + 1) ELSE Bodies :
       arrived' = [arrived EXCEPT ![p] = Append(@, piece)]
  /\ sent' = [sent EXCEPT ![p] = @ + 1]
  /\ UNCHANGED <<srv, gpc, batch, cur, inbox, outbox, phase, hup, got, said>>

Read(p) ==
  /\ srv.sock[p] # << >> /\ ~ hup[p]
  /\ got' = [got EXCEPT ![p] = Append(@, Head(srv.sock[p]))]
  /\ srv' = [srv EXCEPT !.sock[p] = Tail(@)]
  /\ UNCHANGED <<gpc, batch, cur, inbox, outbox, arrived, phase, sent, hup, said>>

(* A reset, unlike a close, also discards what the server has not read.    *)
Close(p) ==
  /\ Connected(p) /\ ~ hup[p]
  /\ hup' = [hup EXCEPT ![p] = TRUE]
  /\ arrived' \in {arrived, [c \in Clients |-> IF c = p THEN << >> ELSE arrived[c]]}
  /\ UNCHANGED <<srv, gpc, batch, cur, inbox, outbox, phase, sent, got, said>>
------------------------------------------------------------------------------
Gateway == Poll \/ (\E kind \in {"Listen", "MdListen"} : OnListen(kind)) \/ Accept
             \/ (\E fd \in Fds : OnWritable(fd) \/ OnReadable(fd))
             \/ ParseFrame \/ Dispatched \/ Drain \/ Flush

Next ==
  \/ Gateway
  \/ Process
  \/ \E p \in Peers : Connect(p) \/ Close(p)
  \/ \E p \in Clients : Send(p) \/ Read(p)

Spec == Init /\ [][Next]_vars

(* Both threads keep running; peers do as they like.                       *)
FairSpec == Spec /\ WF_vars(Gateway) /\ WF_vars(Process)
------------------------------------------------------------------------------
(* What is on its way to, or with, the client of session s, in order.      *)
Out(s) == LET p == PeerOf(srv, s) IN got[p] \o srv.sock[p] \o srv.sessions[s].tx

Tags(frames) == [k \in DOMAIN frames |-> frames[k].tag]
From(who, frames) == SelectSeq(frames, LAMBDA f : f.from = who)
For(s, events) == SelectSeq(events, LAMBDA e : e.session = s)

TypeOK ==
  /\ Live(srv) \subseteq Sids /\ srv.subs \subseteq Fds
  /\ \A s \in Live(srv) : srv.sessions[s].fd \in Fds /\ srv.sessions[s].want_write \in BOOLEAN
  /\ gpc \in {"poll", "dispatch", "Listen", "MdListen", "parse", "drain", "flush"}
  /\ gpc = "parse" <=> cur \in Live(srv)
  /\ \A p \in Clients : Len(srv.sock[p]) <= SockCap
  /\ Len(inbox) <= RingCap /\ Len(outbox) <= RingCap

(* The tables by descriptor and the connections agree, whatever is closed  *)
(* and accepted again within a batch: each session's descriptor is its     *)
(* own and leads back to it, no entry names a session that is gone, and no *)
(* connection is left open that nobody looks at (server.cpp:31-45,         *)
(* 87-115).                                                                *)
TablesAgree ==
  /\ \A s \in Live(srv) : LET fd == srv.sessions[s].fd
                          IN /\ srv.kind[fd] = "Session" /\ srv.sid[fd] = s
                             /\ srv.file[fd] \in Clients
  /\ \A fd \in Fds : srv.kind[fd] = "Session" => srv.sid[fd] \in Live(srv)
  /\ \A fd \in srv.subs : srv.kind[fd] = "Subscriber" /\ srv.file[fd] \in Watchers
  /\ \A fd \in Fds : srv.file[fd] # Nobody => srv.kind[fd] = "Session" \/ fd \in srv.subs

(* A connected client gets all that the engine has said to it and nothing  *)
(* that was said to another, once and in the order it was said, numbered   *)
(* without a gap (protocol.hpp:9-10), across partial flushes, closed       *)
(* sessions and reused descriptors.                                        *)
ResponsesInOrder ==
  \A s \in Live(srv) :
    /\ \A k \in DOMAIN Out(s) : Out(s)[k].seq = k
    /\ Tags(From("engine", Out(s))) \o Tags(For(s, outbox)) = Tags(said[s])

(* Each frame with its seq in order is answered once, by the engine or by  *)
(* the gateway's Reject, or is waiting in the inbox; the engine answers in *)
(* the order of the frames, only the gateway's Reject may overtake         *)
(* (server.cpp:143-207).                                                   *)
EachFrameOnce ==
  \A s \in Live(srv) :
    LET taken == SelectSeq(Tags(said[s]) \o Tags(For(s, inbox)), LAMBDA t : t # 0)
        refused == Tags(From("gateway", Out(s)))
    IN /\ \A j, k \in DOMAIN taken : j < k => taken[j] < taken[k]
       /\ \A j, k \in DOMAIN refused : j < k => refused[j] < refused[k]
       /\ Range(taken) \cap Range(refused) = {}
       /\ Range(taken) \cup Range(refused) = 1 .. srv.sessions[s].expect_seq - 1

(* A client that sends what it should is never hung up on, however its     *)
(* frames are cut up and whatever happens to other connections: its        *)
(* session ends only when it goes away itself, or in flush_dirty with more *)
(* than max_backlog left over from a full socket (server.cpp:128-134,      *)
(* 295).                                                                   *)
ClosedForCause ==
  [][\A s \in Live(srv) : ~ Junk /\ s \notin Live(srv') =>
       \/ hup[PeerOf(srv, s)]
       \/ /\ gpc = "flush"
          /\ Len(srv.sessions[s].tx) + Len(srv.sock[PeerOf(srv, s)]) > MaxBacklog + SockCap]_vars

(* When the gateway goes back to the poller nothing is forgotten: no       *)
(* session is still marked dirty (it would never be put on the list        *)
(* again), what could not be written has write interest, and no session    *)
(* keeps more than max_backlog (server.cpp:289-298).                       *)
AtRest ==
  gpc = "poll" =>
    /\ srv.dirty = << >>
    /\ \A s \in Live(srv) : LET c == srv.sessions[s]
                            IN ~ c.dirty /\ (c.tx # << >> <=> c.want_write) /\ Len(c.tx) <= MaxBacklog

(* What a client that keeps reading has sent is answered, unless its       *)
(* connection ends: the response gets through both rings, the drain, the   *)
(* dirty list and write interest.                                          *)
Answered(p, k) == \E f \in Range(got[p]) : f.tag = k

EveryFrameAnswered ==
  \A p \in Clients : \A k \in 1 .. MaxFrames :
    WF_vars(Read(p)) => (sent[p] >= 2 * k ~> Answered(p, k) \/ hup[p] \/ ~ Connected(p))
==============================================================================
