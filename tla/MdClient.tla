------------------------------- MODULE MdClient -------------------------------
(***************************************************************************)
(* The two resumable market-data clients, run_md of src/main_client.cpp    *)
(* and Stream of scripts/mdstream.py, on the port of MdStream: connections *)
(* that end, or go silent, at any point, frames of which only a part was   *)
(* read, heartbeat timeouts, and restarts of the server, whose stream then *)
(* begins again at seq 1.                                                  *)
(*                                                                         *)
(* A frame reaches the client in two pieces, the header and the rest; a    *)
(* read of many frames is a sequence of reads of one piece, since nothing  *)
(* else sees the client in between.  A connect that fails changes nothing  *)
(* but the backoff: it is a step not taken yet.                            *)
(***************************************************************************)
EXTENDS MdStream, FiniteSets

CONSTANTS
  Kinds,        \* the clients: "cpp", "python"
  LostMod,      \* 2^64: run_md counts lost frames in a uint64_t
  MaxHead,      \* bound: frames published in a life of the server
  MaxChan,      \* bound: frames on their way
  MaxDrops,     \* bound: connections lost, needless timeouts included
  MaxRestarts   \* bound: restarts of the server

ASSUME MdClientAssumption ==
  /\ Kinds \subseteq {"cpp", "python"} /\ FromSeqs \subseteq Nat
  /\ RingCap \in Nat \ {0} /\ LostMod \in Nat \ {0}
  /\ MaxHead \in Nat /\ MaxChan \in Nat \ {0} /\ MaxDrops \in Nat /\ MaxRestarts \in Nat

VARIABLES
  kind,       \* which client runs
  client,     \* its variables: from and last_seq, or next_seq; frames, lost
  pc,         \* "connect" or "stream", the two loops, or "exited"
  rx,         \* rx / buf: the pieces of a frame that is not complete
  cut,        \* pieces of the first frame of chan that were read (0 or 1)
  ending,     \* how a closed connection looks: "fin", "reset" or "silent"
  drops,      \* connections lost so far (the bound MaxDrops)
  restarts,   \* restarts so far (the bound MaxRestarts)
  heard,      \* history: the client has handled a frame
  live,       \* history: the client was started without --from
  first,      \* history: the seq its first subscription began with (0: not
              \* yet), until the server restarts
  origin,     \* history: the seq its account begins with (0: not yet)
  got         \* history: the seqs delivered, until the server restarts

clientVars == <<kind, client, pc, rx, cut, heard, live, got>>
vars == <<head, state, cursor, chan, kind, client, pc, rx, cut, ending, drops, restarts, heard,
          live, first, origin, got>>
------------------------------------------------------------------------------
(* The callback of for_each_frame in run_md.                               *)
jump_cpp(c, f) == f.kind = "data" /\ c.last_seq # 0 /\ f.seq # c.last_seq + 1

Larger(m, n) == IF m < n THEN n ELSE m

lose_cpp(c, n) == (c.lost + n) % LostMod

(* Fault: a heartbeat only shows that the link is alive; a Gap is only     *)
(* counted.                                                                *)
heartbeat_cpp_noted(c, f) == c

heartbeat_cpp(c, f) == [c EXCEPT !.last_seq = Larger(@, f.head_seq)]

gap_cpp_counted(c, f) == [c EXCEPT !.lost = lose_cpp(c, f.resumed_at - f.from)]

gap_cpp(c, f) == [c EXCEPT !.lost = lose_cpp(c, f.resumed_at - f.from), !.last_seq = f.resumed_at - 1]

data_cpp(c, f) ==
  [c EXCEPT !.lost = IF jump_cpp(c, f) THEN lose_cpp(c, f.seq - c.last_seq - 1) ELSE @,
            !.last_seq = f.seq, !.frames = @ + 1]

handle_cpp(c, f) ==
  CASE f.kind = "heartbeat" -> heartbeat_cpp(c, f)
    [] f.kind = "gap" -> gap_cpp(c, f)
    [] f.kind = "data" -> data_cpp(c, f)

(* Stream.handle of mdstream.py.                                           *)
jump_py(c, f) == f.kind = "data" /\ c.next_seq # 0 /\ f.seq # c.next_seq

handle_py(c, f) ==
  CASE f.kind = "heartbeat" -> [c EXCEPT !.next_seq = Larger(@, f.head_seq + 1)]
    [] f.kind = "gap" -> [c EXCEPT !.lost = @ + f.resumed_at - f.from, !.next_seq = f.resumed_at]
    [] f.kind = "data" ->
         [c EXCEPT !.lost = IF jump_py(c, f) THEN @ + f.seq - c.next_seq ELSE @,
                   !.next_seq = f.seq + 1, !.frames = @ + 1]

handle(c, f) == IF kind = "cpp" THEN handle_cpp(c, f) ELSE handle_py(c, f)
jump(c, f) == IF kind = "cpp" THEN jump_cpp(c, f) ELSE jump_py(c, f)

(* Fault: every connection asks for what the first one asked for.          *)
reconnect_again(c) == c

(* What the end of a connection does to the client's variables.            *)
reconnect(c) == IF kind = "cpp" THEN [c EXCEPT !.from = c.last_seq + 1] ELSE c

(* The from_seq of the Subscribe frame, and the seq the client is to see   *)
(* next once it has seen one.                                              *)
Request == IF kind = "cpp" THEN client.from ELSE client.next_seq
Expected == IF kind = "cpp" THEN client.last_seq + 1 ELSE client.next_seq

NewClient(k, from) ==
  IF k = "cpp" THEN [from |-> from, last_seq |-> 0, frames |-> 0, lost |-> 0]
  ELSE [next_seq |-> from, frames |-> 0, lost |-> 0]
------------------------------------------------------------------------------
(* The stream may have been running for a while.                           *)
ClientInit ==
  /\ head \in 0 .. MaxHead
  /\ state = "closed" /\ cursor = 0 /\ chan = << >>
  /\ kind \in Kinds
  /\ \E from \in FromSeqs : client = NewClient(kind, from) /\ live = (from = 0)
  /\ pc = "connect"
  /\ rx = << >> /\ cut = 0 /\ ending = "fin"
  /\ drops = 0 /\ restarts = 0
  /\ heard = FALSE /\ first = 0 /\ origin = 0 /\ got = {}

(* Connect, write the Subscribe frame, forget the bytes of before.         *)
Connect ==
  /\ pc = "connect"
  /\ pc' = "stream"
  /\ state' = "waiting" /\ cursor' = 0 /\ chan' = << >>
  /\ rx' = << >> /\ cut' = 0 /\ ending' = "fin"
  /\ UNCHANGED <<head, kind, client, drops, restarts, heard, live, first, origin, got>>

(* for_each_frame and run's inner loop: a piece is read; when it completes *)
(* a frame, the frame is handled.                                          *)
Recv ==
  /\ pc = "stream" /\ chan # << >>
  /\ cut' = 1 - cut
  /\ chan' = IF cut = 1 THEN Tail(chan) ELSE chan
  /\ IF rx = << >>
     THEN /\ rx' = << Head(chan) >>
          /\ UNCHANGED <<client, heard, got>>
     ELSE /\ rx' = << >>
          /\ client' = handle(client, rx[1])
          /\ heard' = TRUE
          /\ got' = IF restarts = 0 /\ rx[1].kind = "data" THEN got \cup {rx[1].seq} ELSE got
  /\ UNCHANGED <<head, state, cursor, kind, pc, ending, drops, restarts, live, first, origin>>

(* recv in mdstream.py raises for a connection that was reset, and nothing *)
(* catches it; in run_md a read that fails is an end like any other.       *)
raises == kind = "python" /\ ending = "reset"

(* read() returned 0, or -1 in run_md.                                     *)
Eof ==
  /\ pc = "stream" /\ chan = << >> /\ state = "closed" /\ ending # "silent" /\ ~ raises
  /\ pc' = "connect"
  /\ client' = reconnect(client)
  /\ UNCHANGED <<head, state, cursor, chan, kind, rx, cut, ending, drops, restarts, heard, live, first, origin, got>>

Raise ==
  /\ pc = "stream" /\ chan = << >> /\ state = "closed" /\ raises
  /\ pc' = "exited"
  /\ UNCHANGED <<head, state, cursor, chan, kind, client, rx, cut, ending, drops, restarts, heard, live, first, origin, got>>

(* Nothing to read for longer than the heartbeat timeout: for ever on a    *)
(* dead link, and on a live one when heartbeats are late.                  *)
heartbeat_missed(link) == link = "dead" \/ (link = "late" /\ drops < MaxDrops)

Link == IF state # "closed" THEN "late" ELSE IF ending # "silent" THEN "ended" ELSE "dead"

(* Fault: the timeout is reported and the connection kept.                 *)
Timeout_reported ==
  /\ pc = "stream" /\ chan = << >>
  /\ heartbeat_missed(Link)
  /\ UNCHANGED vars

Timeout ==
  /\ pc = "stream" /\ chan = << >>
  /\ heartbeat_missed(Link)
  /\ drops' = IF Link = "late" THEN drops + 1 ELSE drops
  /\ pc' = "connect"
  /\ client' = reconnect(client)
  /\ state' = "closed" /\ cursor' = 0
  /\ UNCHANGED <<head, chan, kind, rx, cut, ending, restarts, heard, live, first, origin, got>>
------------------------------------------------------------------------------
(* The server.                                                             *)
PublishStep == head < MaxHead /\ Publish /\ UNCHANGED <<clientVars, ending, drops, restarts, first, origin>>

(* The account begins where the subscription does, as long as nothing was  *)
(* heard.  run_md asks for seq 1 after a connection that told it nothing,  *)
(* so its account never moves up; Stream asks for what it asked before,    *)
(* and when that is 0 it begins anew at the head of now.                   *)
Begins == IF Request = 0 THEN head + 1 ELSE Request

AcceptStep ==
  /\ pc = "stream" /\ Accept(Request)
  /\ origin' = IF heard \/ (kind = "cpp" /\ origin # 0 /\ origin < Begins) THEN origin ELSE Begins
  /\ first' = IF restarts = 0 /\ first = 0 THEN Begins ELSE first
  /\ UNCHANGED <<clientVars, ending, drops, restarts>>

ServeStep ==
  /\ Len(chan) < MaxChan
  /\ \E n \in 0 .. MaxHead : Serve(n) \/ (n = 0 /\ chan = << >> /\ Beat)
  /\ UNCHANGED <<clientVars, ending, drops, restarts, first, origin>>

(* The network or the server ends the connection, in good order, with a    *)
(* reset, or without the client being told.                                *)
Endings == {"fin", "reset", "silent"}

Drop ==
  /\ drops < MaxDrops
  /\ Close
  /\ drops' = drops + 1
  /\ ending' \in Endings
  /\ UNCHANGED <<clientVars, restarts, first, origin>>

(* The server ends and starts again with an empty ring.                    *)
Restart ==
  /\ restarts < MaxRestarts
  /\ restarts' = restarts + 1
  /\ head' = 0 /\ state' = "closed" /\ cursor' = 0
  /\ \E n \in 0 .. Len(chan) : chan' = SubSeq(chan, 1, n)
  /\ ending' \in IF state = "closed" THEN {ending} ELSE Endings
  /\ got' = {} /\ first' = 0
  /\ UNCHANGED <<kind, client, pc, rx, cut, drops, heard, live, origin>>

(* The client's program has ended.                                         *)
Exited == pc = "exited" /\ UNCHANGED vars
------------------------------------------------------------------------------
ClientNext ==
  \/ Connect
  \/ Recv
  \/ Eof
  \/ Raise
  \/ Timeout
  \/ PublishStep
  \/ AcceptStep
  \/ ServeStep
  \/ Drop
  \/ Restart
  \/ Exited

ClientSpec == ClientInit /\ [][ClientNext]_vars

(* Both programs run, and a dead link is silent for long enough.           *)
Runs ==
  /\ WF_vars(Connect) /\ WF_vars(Recv) /\ WF_vars(Eof) /\ WF_vars(Raise)
  /\ WF_vars(Link = "dead" /\ Timeout)
  /\ WF_vars(AcceptStep) /\ WF_vars(ServeStep)

FairClientSpec == ClientSpec /\ Runs
------------------------------------------------------------------------------
(* The frame that the client handles next.                                 *)
Upcoming == IF rx # << >> THEN rx[1] ELSE Head(chan)

(* The branch for a jump of the seq is dead code: "should never happen:    *)
(* Gap covers ring laps" (main_client.cpp:203), "gateway always sends a    *)
(* Gap first; belt and braces" (mdstream.py:107).  It stays so through     *)
(* laps, connections lost in the middle of a frame, reconnects and         *)
(* restarts of the server: what a client resumes from is what the next     *)
(* connection begins with.                                                 *)
NoSeqJump == pc = "stream" /\ chan # << >> => ~ jump(client, Upcoming)

(* The summary adds up: the frames a client has counted and those it calls *)
(* lost are together what lies between where it began and where it is      *)
(* (main_client.cpp:196, 205, 209; mdstream.py:102, 109, 113), however     *)
(* often it reconnects, from heartbeats alone too.  After a restart of the *)
(* server the Gap back to the new head makes the number of lost frames     *)
(* smaller, below zero in mdstream.py and modulo 2^64 in run_md.           *)
Balance == client.frames + client.lost - (Expected - origin)

AccountsAddUp == heard => Balance = 0 \/ (kind = "cpp" /\ Balance % LostMod = 0)

(* As long as the server lives no frame is delivered twice, and one        *)
(* between where the account begins and where the client is that was not   *)
(* delivered is no longer in the ring.  The account begins where the first *)
(* subscription did, or earlier, in all cases but one: a Stream that was   *)
(* started live, and whose connection ended before it had heard anything,  *)
(* begins anew (mdstream.py:44), so "loses nothing the gateway still       *)
(* retains" (mdstream.py:6-7) does not hold of what came in between.       *)
ExactlyOnce ==
  restarts = 0 /\ heard =>
    /\ client.frames = Cardinality(got)
    /\ \A seq \in origin .. Expected - 1 : seq \in got \/ seq < Oldest
    /\ origin <= first \/ (kind = "python" /\ live)

(* Once the faults and the publishing end, the client is in step with the  *)
(* stream for good: a dead link is noticed (main_client.cpp:170,           *)
(* mdstream.py:63), a lost connection is made again, and the next frames,  *)
(* a Gap or a heartbeat bring it to the head, that of a new life included. *)
(* Only a reset that recv in mdstream.py raises ends a client before that. *)
InSync == <>[]((heard /\ Expected = head + 1) \/ (pc = "exited" /\ raises))
==============================================================================
