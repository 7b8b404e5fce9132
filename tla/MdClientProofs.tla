---------------------------- MODULE MdClientProofs ----------------------------
(***************************************************************************)
(* Proofs about the market-data clients, for every ring size, number of    *)
(* frames, drops and restarts.                                             *)
(***************************************************************************)
EXTENDS MdClient, TLAPS

(* The seq a frame follows on, and the one that follows it.                *)
Follows(f) ==
  CASE f.kind = "data" -> f.seq
    [] f.kind = "gap" -> f.from
    [] f.kind = "heartbeat" -> f.head_seq + 1

After(f) ==
  CASE f.kind = "data" -> f.seq + 1
    [] f.kind = "gap" -> f.resumed_at
    [] f.kind = "heartbeat" -> f.head_seq + 1

Frames ==
  [kind : {"data"}, seq : Nat \ {0}] \cup [kind : {"heartbeat"}, head_seq : Nat]
    \cup [kind : {"gap"}, from : Nat, resumed_at : Nat \ {0}]

Linked(s) == \A k \in 1 .. Len(s) - 1 : After(s[k]) = Follows(s[k + 1])

Clients ==
  IF kind = "cpp" THEN [from : Nat, last_seq : Nat, frames : Nat, lost : Int]
  ELSE [next_seq : Nat, frames : Nat, lost : Int]

TypeInv ==
  /\ head \in Nat /\ state \in {"waiting", "live", "closed"}
  /\ cursor \in Nat /\ chan \in Seq(Frames)
  /\ kind \in {"cpp", "python"} /\ client \in Clients
  /\ pc \in {"connect", "stream", "exited"} /\ rx \in Seq(Frames) /\ cut \in {0, 1}
  /\ heard \in BOOLEAN /\ origin \in Nat

(* Where the client is in the stream.                                      *)
Pos == IF heard THEN Expected ELSE origin

(* What is on its way begins where the client is, is contiguous, and ends  *)
(* where the server is.                                                    *)
StreamInv ==
  /\ Linked(chan)
  /\ chan # << >> => Follows(chan[1]) = Pos
  /\ state = "live" => cursor \in 1 .. head + 1
                       /\ cursor = IF chan = << >> THEN Pos ELSE After(chan[Len(chan)])

(* A half-read frame is the first of those on their way; between two       *)
(* connections nothing is.                                                 *)
ReadInv ==
  /\ cut = Len(rx)
  /\ rx # << >> /\ chan # << >> => rx[1] = chan[1]
  /\ rx # << >> /\ chan = << >> => state = "closed"
  /\ state = "waiting" \/ pc = "connect" => chan = << >>
  /\ pc = "connect" => state = "closed"

(* What the next subscription asks for is where the client is.  The C++    *)
(* client that has heard nothing asks for 1 from the second one on.        *)
ResumeInv ==
  /\ heard => Expected > 0
  /\ (state = "waiting" \/ pc = "connect") /\ heard => Request = Expected
  /\ (state = "waiting" \/ pc = "connect") /\ ~ heard /\ kind = "cpp" /\ origin # 0 => client.from = 1
  /\ ~ heard => /\ client.frames = 0 /\ client.lost = 0
                /\ kind = "cpp" => client.last_seq = 0
                /\ kind = "python" /\ client.next_seq # 0 /\ (state = "live" \/ chan # << >>) => origin = client.next_seq

JumpInv == TypeInv /\ StreamInv /\ ReadInv /\ ResumeInv
------------------------------------------------------------------------------
LEMMA FrameKinds ==
  /\ \A n \in Nat \ {0} : Data(n) \in Frames /\ Follows(Data(n)) = n /\ After(Data(n)) = n + 1
  /\ \A m \in Nat, n \in Nat \ {0} : Gap(m, n) \in Frames /\ Follows(Gap(m, n)) = m /\ After(Gap(m, n)) = n
  /\ \A n \in Nat : /\ Heartbeat(n) \in Frames
                     /\ Follows(Heartbeat(n)) = n + 1 /\ After(Heartbeat(n)) = n + 1
BY DEF Data, Gap, Heartbeat, Frames, Follows, After

LEMMA ClientType ==
  ASSUME kind \in {"cpp", "python"}, client \in Clients
  PROVE  Expected \in Nat /\ client.frames \in Nat
<1>1. CASE kind = "cpp"
  BY <1>1, SMTT(30) DEF Clients, Expected
<1>2. CASE kind = "python"
  BY <1>2, SMTT(30) DEF Clients, Expected
<1> QED
  BY <1>1, <1>2

LEMMA AfterPositive == \A f \in Frames : After(f) \in Nat \ {0}
BY DEF Frames, After

LEMMA LinkedConcat ==
  ASSUME NEW s \in Seq(Frames), NEW t \in Seq(Frames), Linked(s), Linked(t),
         s # << >> /\ t # << >> => After(s[Len(s)]) = Follows(t[1])
  PROVE  Linked(s \o t)
BY DEF Linked

LEMMA LinkedTail ==
  ASSUME NEW s \in Seq(Frames), s # << >>, Linked(s)
  PROVE  /\ Linked(Tail(s)) /\ Tail(s) \in Seq(Frames) /\ Len(Tail(s)) = Len(s) - 1
         /\ Tail(s) # << >> => /\ Follows(Tail(s)[1]) = After(s[1])
                               /\ Tail(s)[Len(Tail(s))] = s[Len(s)]
         /\ Tail(s) = << >> => s[Len(s)] = s[1]
<1>1. Tail(s) \in Seq(Frames) /\ Len(Tail(s)) = Len(s) - 1 /\ Len(s) \in Nat /\ Len(s) > 0
  OBVIOUS
<1>2. \A k \in 1 .. Len(s) - 1 : Tail(s)[k] = s[k + 1]
  OBVIOUS
<1>3. Linked(Tail(s))
  BY <1>1, <1>2 DEF Linked
<1>4. Tail(s) # << >> => Len(s) > 1
  BY <1>1
<1>5. Tail(s) # << >> => Follows(Tail(s)[1]) = After(s[1]) /\ Tail(s)[Len(Tail(s))] = s[Len(s)]
  BY <1>1, <1>2, <1>4 DEF Linked
<1>6. Tail(s) = << >> => s[Len(s)] = s[1]
  <2>1. Tail(s) = << >> => Len(Tail(s)) = 0
    <3>1. Len(<< >>) = 0
      OBVIOUS
    <3> QED
      BY <3>1, Zenon
  <2>2. Tail(s) = << >> => Len(s) = 1
    BY <1>1, <2>1
  <2> QED
    BY <2>2, Zenon
<1> QED
  BY <1>1, <1>3, <1>5, <1>6

LEMMA LinkedPrefix ==
  ASSUME NEW s \in Seq(Frames), NEW n \in 0 .. Len(s), Linked(s)
  PROVE  /\ Linked(SubSeq(s, 1, n)) /\ SubSeq(s, 1, n) \in Seq(Frames)
         /\ SubSeq(s, 1, n) # << >> => s # << >> /\ SubSeq(s, 1, n)[1] = s[1]
BY DEF Linked
------------------------------------------------------------------------------
(* The frame at hand follows the client's position.                        *)
AtHand(f) ==
  /\ f \in Frames /\ Follows(f) = Pos
  /\ ~ heard => /\ kind = "cpp" => client.last_seq = 0
                /\ kind = "python" /\ client.next_seq # 0 => origin = client.next_seq

LEMMA NoJump ==
  ASSUME TypeInv, NEW f, AtHand(f)
  PROVE  ~ jump(client, f)
<1>1. CASE kind = "cpp"
  BY <1>1 DEF TypeInv, AtHand, jump, jump_cpp, Pos, Expected, Frames, Follows, Clients
<1>2. CASE kind = "python"
  BY <1>2 DEF TypeInv, AtHand, jump, jump_py, Pos, Expected, Frames, Follows, Clients
<1> QED
  BY <1>1, <1>2 DEF TypeInv

(* Handling it moves the client to where the frame ends, and counts what   *)
(* lies in between.                                                        *)
LEMMA HandleCpp ==
  ASSUME TypeInv, NEW f, AtHand(f), kind = "cpp", NEW c, c = handle(client, f)
  PROVE  /\ c \in Clients
         /\ c.last_seq + 1 = After(f)
         /\ c.frames = client.frames + (IF f.kind = "data" THEN 1 ELSE 0)
         /\ c.lost = IF f.kind = "gap" THEN (client.lost + (After(f) - Follows(f))) % LostMod ELSE client.lost
<1>1. client \in [from : Nat, last_seq : Nat, frames : Nat, lost : Int] /\ Clients = [from : Nat, last_seq : Nat, frames : Nat, lost : Int]
  BY DEF TypeInv, Clients
<1>2. ~ jump_cpp(client, f)
  BY NoJump DEF jump
<1>3. c = handle_cpp(client, f)
  BY DEF handle
<1>4. CASE f.kind = "heartbeat"
  <2>1. f \in [kind : {"heartbeat"}, head_seq : Nat] /\ Follows(f) = f.head_seq + 1 /\ After(f) = f.head_seq + 1
    BY <1>4 DEF AtHand, Frames, Follows, After
  <2>2. Larger(client.last_seq, f.head_seq) = f.head_seq
    BY <1>1, <2>1 DEF AtHand, Pos, Expected, Larger, TypeInv
  <2>3. c = [client EXCEPT !.last_seq = f.head_seq]
    BY <1>3, <1>4, <2>2, <1>1 DEF handle_cpp, heartbeat_cpp
  <2> QED
    BY <1>1, <1>4, <2>1, <2>3
<1>5. CASE f.kind = "gap"
  <2>1. f \in [kind : {"gap"}, from : Nat, resumed_at : Nat \ {0}] /\ Follows(f) = f.from /\ After(f) = f.resumed_at
    BY <1>5 DEF AtHand, Frames, Follows, After
  <2>2. c = [from |-> client.from, last_seq |-> f.resumed_at - 1, frames |-> client.frames,
             lost |-> (client.lost + (f.resumed_at - f.from)) % LostMod]
    BY <1>3, <1>5, <1>1, Zenon DEF handle_cpp, gap_cpp, lose_cpp
  <2>3. (client.lost + (f.resumed_at - f.from)) % LostMod \in Int
    BY <1>1, <2>1, MdClientAssumption
  <2>4. c \in Clients /\ c.last_seq = f.resumed_at - 1 /\ c.frames = client.frames
    BY <1>1, <2>1, <2>2, <2>3
  <2>5. c.lost = (client.lost + (f.resumed_at - f.from)) % LostMod
    BY <1>1, <2>2
  <2> QED
    BY <1>1, <1>5, <2>1, <2>4, <2>5
<1>6. CASE f.kind = "data"
  <2>1. f \in [kind : {"data"}, seq : Nat \ {0}] /\ Follows(f) = f.seq /\ After(f) = f.seq + 1
    BY <1>6 DEF AtHand, Frames, Follows, After
  <2>2. c = [from |-> client.from, last_seq |-> f.seq, frames |-> client.frames + 1, lost |-> client.lost]
    BY <1>1, <1>2, <1>3, <1>6, Zenon DEF handle_cpp, data_cpp
  <2>3. c \in Clients /\ c.last_seq = f.seq /\ c.frames = client.frames + 1 /\ c.lost = client.lost
    BY <1>1, <2>1, <2>2
  <2> QED
    BY <1>1, <1>6, <2>1, <2>3
<1> QED
  BY <1>4, <1>5, <1>6 DEF AtHand, Frames

LEMMA HandlePy ==
  ASSUME TypeInv, NEW f, AtHand(f), kind = "python", NEW c, c = handle(client, f)
  PROVE  /\ c \in Clients
         /\ c.next_seq = After(f)
         /\ c.frames = client.frames + (IF f.kind = "data" THEN 1 ELSE 0)
         /\ c.lost = client.lost + (IF f.kind = "gap" THEN After(f) - Follows(f) ELSE 0)
<1>1. client \in [next_seq : Nat, frames : Nat, lost : Int] /\ Clients = [next_seq : Nat, frames : Nat, lost : Int]
  BY DEF TypeInv, Clients
<1>2. ~ jump_py(client, f)
  BY NoJump DEF jump
<1>3. c = handle_py(client, f)
  BY DEF handle
<1>4. CASE f.kind = "heartbeat"
  <2>1. f \in [kind : {"heartbeat"}, head_seq : Nat] /\ Follows(f) = f.head_seq + 1 /\ After(f) = f.head_seq + 1
    BY <1>4 DEF AtHand, Frames, Follows, After
  <2>2. Larger(client.next_seq, f.head_seq + 1) = f.head_seq + 1
    BY <1>1, <2>1 DEF AtHand, Pos, Expected, Larger, TypeInv
  <2>3. c = [client EXCEPT !.next_seq = f.head_seq + 1]
    BY <1>3, <1>4, <2>2, <1>1 DEF handle_py
  <2> QED
    BY <1>1, <1>4, <2>1, <2>3
<1>5. CASE f.kind = "gap"
  <2>1. f \in [kind : {"gap"}, from : Nat, resumed_at : Nat \ {0}] /\ Follows(f) = f.from /\ After(f) = f.resumed_at
    BY <1>5 DEF AtHand, Frames, Follows, After
  <2>2. c = [next_seq |-> f.resumed_at, frames |-> client.frames, lost |-> client.lost + f.resumed_at - f.from]
    BY <1>3, <1>5, <1>1, Zenon DEF handle_py
  <2>3. c \in Clients /\ c.next_seq = f.resumed_at /\ c.frames = client.frames /\ c.lost = client.lost + f.resumed_at - f.from
    BY <1>1, <2>1, <2>2
  <2> QED
    BY <1>1, <1>5, <2>1, <2>3
<1>6. CASE f.kind = "data"
  <2>1. f \in [kind : {"data"}, seq : Nat \ {0}] /\ Follows(f) = f.seq /\ After(f) = f.seq + 1
    BY <1>6 DEF AtHand, Frames, Follows, After
  <2>2. c = [next_seq |-> f.seq + 1, frames |-> client.frames + 1, lost |-> client.lost]
    BY <1>1, <1>2, <1>3, <1>6, Zenon DEF handle_py
  <2>3. c \in Clients /\ c.next_seq = f.seq + 1 /\ c.frames = client.frames + 1 /\ c.lost = client.lost
    BY <1>1, <2>1, <2>2
  <2> QED
    BY <1>1, <1>6, <2>1, <2>3
<1> QED
  BY <1>4, <1>5, <1>6 DEF AtHand, Frames
------------------------------------------------------------------------------
LEMMA InitInv == ClientInit => JumpInv
<1> SUFFICES ASSUME ClientInit PROVE JumpInv
  OBVIOUS
<1>1. PICK from \in FromSeqs : client = NewClient(kind, from)
  BY DEF ClientInit
<1>2. from \in Nat /\ kind \in {"cpp", "python"}
  BY MdClientAssumption DEF ClientInit
<1>3. client \in Clients /\ client.frames = 0 /\ client.lost = 0 /\ (kind = "cpp" => client.last_seq = 0)
  <2>1. CASE kind = "cpp"
    BY <1>1, <1>2, <2>1 DEF NewClient, Clients
  <2>2. CASE kind = "python"
    BY <1>1, <1>2, <2>2 DEF NewClient, Clients
  <2> QED
    BY <1>2, <2>1, <2>2
<1>4. TypeInv
  <2>1. head \in Nat
    BY MdClientAssumption DEF ClientInit
  <2>2. chan \in Seq(Frames) /\ rx \in Seq(Frames) /\ cursor \in Nat /\ origin \in Nat
    BY DEF ClientInit
  <2> QED
    BY <1>2, <1>3, <2>1, <2>2, Zenon DEF ClientInit, TypeInv
<1>5. StreamInv /\ ReadInv
  BY DEF ClientInit, StreamInv, ReadInv, Linked
<1>6. ResumeInv
  BY <1>3 DEF ClientInit, ResumeInv
<1> QED
  BY <1>4, <1>5, <1>6 DEF JumpInv

LEMMA ConnectInv == JumpInv /\ Connect => JumpInv'
<1> SUFFICES ASSUME JumpInv, Connect PROVE JumpInv'
  OBVIOUS
<1>1. TypeInv'
  BY DEF JumpInv, TypeInv, Connect, Clients
<1>2. StreamInv' /\ ReadInv'
  BY DEF StreamInv, ReadInv, Connect, Linked
<1>3. ResumeInv'
  BY DEF JumpInv, ResumeInv, Connect, Request, Expected
<1> QED
  BY <1>1, <1>2, <1>3 DEF JumpInv

(* What the end of a connection does.                                      *)
LEMMA ReconnectFacts ==
  ASSUME TypeInv
  PROVE  LET c == reconnect(client)
         IN /\ c \in Clients
            /\ c.frames = client.frames /\ c.lost = client.lost
            /\ kind = "cpp" => c.last_seq = client.last_seq /\ c.from = client.last_seq + 1
            /\ kind = "python" => c = client
<1>1. CASE kind = "cpp"
  BY <1>1, SMTT(20) DEF TypeInv, Clients, reconnect
<1>2. CASE kind = "python"
  BY <1>2 DEF TypeInv, Clients, reconnect
<1> QED
  BY <1>1, <1>2 DEF TypeInv

LEMMA LeaveInv ==
  ASSUME JumpInv, pc = "stream", chan = << >>, pc' = "connect", client' = reconnect(client),
         state' = "closed", cursor' \in Nat,
         UNCHANGED <<head, chan, kind, rx, cut, heard, origin>>
  PROVE  JumpInv'
<1>1. client' \in Clients /\ Clients' = Clients
  BY ReconnectFacts DEF JumpInv, TypeInv, Clients
<1>2. TypeInv'
  BY <1>1 DEF JumpInv, TypeInv
<1>3. StreamInv' /\ ReadInv'
  BY DEF JumpInv, StreamInv, ReadInv, Linked
<1>4. ResumeInv'
  BY ReconnectFacts DEF JumpInv, ResumeInv, TypeInv, Request, Expected
<1> QED
  BY <1>2, <1>3, <1>4 DEF JumpInv

LEMMA RecvInv == JumpInv /\ Recv => JumpInv'
<1> SUFFICES ASSUME JumpInv, Recv PROVE JumpInv'
  OBVIOUS
<1> USE DEF JumpInv
<1>0. /\ chan \in Seq(Frames) /\ chan # << >> /\ Head(chan) = chan[1] /\ chan[1] \in Frames
      /\ state # "waiting" /\ pc = "stream" /\ pc' = "stream" /\ Clients' = Clients
  BY DEF TypeInv, ReadInv, Recv, Clients
<1>1. CASE rx = << >>
  <2>1. cut = 0 /\ rx' = << chan[1] >> /\ cut' = 1 /\ UNCHANGED <<head, state, cursor, chan, kind, client, heard, origin>>
    BY <1>0, <1>1 DEF Recv, ReadInv
  <2>2. TypeInv'
    BY <1>0, <2>1 DEF TypeInv
  <2>3. StreamInv'
    BY <2>1 DEF StreamInv, Pos, Expected
  <2>4. ReadInv'
    BY <1>0, <2>1 DEF ReadInv
  <2>5. ResumeInv'
    BY <1>0, <2>1 DEF ResumeInv, Request, Expected
  <2> QED
    BY <2>2, <2>3, <2>4, <2>5
<1>2. CASE rx # << >>
  <2> DEFINE f == chan[1]
  <2>1. rx \in Seq(Frames) /\ Len(rx) = 1 /\ cut = 1 /\ rx[1] = f
    BY <1>0, <1>2 DEF ReadInv, TypeInv
  <2>2. /\ rx' = << >> /\ cut' = 0 /\ chan' = Tail(chan) /\ client' = handle(client, f) /\ heard' = TRUE
        /\ UNCHANGED <<head, state, cursor, kind, origin>>
    BY <1>2, <2>1 DEF Recv
  <2>3. AtHand(f)
    BY <1>0 DEF AtHand, StreamInv, ResumeInv
  <2>4. client' \in Clients /\ Expected' = After(f)
    <3>1. CASE kind = "cpp"
      BY <2>2, <2>3, <3>1, HandleCpp DEF Expected
    <3>2. CASE kind = "python"
      BY <2>2, <2>3, <3>2, HandlePy DEF Expected
    <3> QED
      BY <3>1, <3>2 DEF TypeInv
  <2>5. /\ Linked(Tail(chan)) /\ Tail(chan) \in Seq(Frames)
        /\ Tail(chan) # << >> => Follows(Tail(chan)[1]) = After(f) /\ Tail(chan)[Len(Tail(chan))] = chan[Len(chan)]
        /\ Tail(chan) = << >> => chan[Len(chan)] = f
    BY <1>0, LinkedTail DEF StreamInv
  <2>6. TypeInv'
    BY <1>0, <2>2, <2>4, <2>5 DEF TypeInv
  <2>7. StreamInv'
    <3>1. Pos' = After(f)
      BY <2>2, <2>4 DEF Pos
    <3>2. Linked(chan)' /\ (chan' # << >> => Follows(chan'[1]) = Pos')
      BY <2>2, <2>5, <3>1
    <3>3. state = "live" => cursor \in 1 .. head + 1 /\ cursor = After(chan[Len(chan)])
      BY <1>0 DEF StreamInv
    <3>4. state' = "live" => cursor' = IF chan' = << >> THEN Pos' ELSE After(chan'[Len(chan')])
      BY <2>2, <2>5, <3>1, <3>3
    <3> QED
      BY <2>2, <3>2, <3>3, <3>4 DEF StreamInv
  <2>8. ReadInv'
    BY <1>0, <2>2 DEF ReadInv
  <2>9. ResumeInv'
    BY <1>0, <2>2, <2>4, AfterPositive DEF ResumeInv
  <2> QED
    BY <2>6, <2>7, <2>8, <2>9
<1> QED
  BY <1>1, <1>2

LEMMA PublishInv == JumpInv /\ PublishStep => JumpInv'
<1> SUFFICES ASSUME JumpInv, PublishStep PROVE JumpInv'
  OBVIOUS
<1>1. head' = head + 1 /\ UNCHANGED <<state, cursor, chan, kind, client, pc, rx, cut, heard, origin>>
  BY DEF PublishStep, Publish, clientVars
<1>2. TypeInv' /\ ReadInv' /\ ResumeInv'
  BY <1>1 DEF JumpInv, TypeInv, ReadInv, ResumeInv, Clients, Request, Expected
<1>3. StreamInv'
  BY <1>1 DEF JumpInv, TypeInv, StreamInv, Pos, Expected
<1> QED
  BY <1>2, <1>3 DEF JumpInv

LEMMA AcceptInv == JumpInv /\ AcceptStep => JumpInv'
<1> SUFFICES ASSUME JumpInv, AcceptStep PROVE JumpInv'
  OBVIOUS
<1> USE DEF JumpInv
<1>1. /\ chan = << >> /\ state = "waiting" /\ state' = "live" /\ pc = "stream"
      /\ cursor' = IF Request = 0 \/ Request > head + 1 THEN head + 1 ELSE Request
      /\ chan' = IF Request > head + 1 THEN << Gap(Request, head + 1) >> ELSE << >>
      /\ UNCHANGED <<head, kind, client, pc, rx, cut, heard>>
  BY DEF AcceptStep, Accept, clientVars, ReadInv
<1>2. head \in Nat /\ Request \in Nat /\ origin \in Nat
  BY DEF TypeInv, Clients, Request
<1>3. ~ heard => origin' = Begins
  <2>1. CASE kind = "cpp" /\ origin # 0 /\ ~ heard
    BY <1>1, <1>2, <2>1 DEF ResumeInv, AcceptStep, Begins, Request
  <2> QED
    BY <2>1 DEF AcceptStep
<1>4. heard => origin' = origin /\ Begins = Expected
  <2>1. heard => Request = Expected
    BY <1>1 DEF ResumeInv
  <2>2. heard => Expected # 0
    BY DEF ResumeInv
  <2> QED
    BY <2>1, <2>2 DEF AcceptStep, Begins
<1>5. Pos' = Begins /\ origin' \in Nat /\ Begins \in Nat \ {0}
  <2>1. Begins \in Nat \ {0}
    BY <1>2 DEF Begins
  <2>2. Expected' = Expected /\ heard' = heard
    BY <1>1 DEF Expected
  <2> QED
    BY <1>2, <1>3, <1>4, <2>1, <2>2 DEF Pos
<1>6. /\ Gap(Request, head + 1) \in Frames
      /\ Follows(Gap(Request, head + 1)) = Request /\ After(Gap(Request, head + 1)) = head + 1
  BY <1>2, FrameKinds
<1>7. TypeInv'
  <2>1. chan' \in Seq(Frames) /\ cursor' \in Nat
    BY <1>1, <1>2, <1>6
  <2> QED
    BY <1>1, <1>5, <2>1 DEF TypeInv, Clients
<1>8. StreamInv'
  <2>1. CASE Request > head + 1
    <3>1. chan' = << Gap(Request, head + 1) >> /\ cursor' = head + 1 /\ Begins = Request
      BY <1>1, <1>2, <2>1 DEF Begins
    <3>2. Len(chan') = 1 /\ chan'[1] = Gap(Request, head + 1) /\ chan' # << >>
      BY <3>1
    <3>3. Linked(chan)'
      BY <3>2 DEF Linked
    <3> QED
      BY <1>1, <1>2, <1>5, <1>6, <3>1, <3>2, <3>3 DEF StreamInv
  <2>2. CASE ~ (Request > head + 1)
    <3>1. chan' = << >> /\ cursor' = Begins /\ Begins \in 1 .. head + 1
      BY <1>1, <1>2, <2>2 DEF Begins
    <3> QED
      BY <1>1, <1>5, <3>1 DEF StreamInv, Linked
  <2> QED
    BY <2>1, <2>2
<1>9. ReadInv'
  <2>1. rx = << >>
    BY <1>1 DEF ReadInv
  <2> QED
    BY <1>1, <2>1 DEF ReadInv
<1>10. ResumeInv'
  BY <1>1, <1>3 DEF ResumeInv, Begins, Request, Expected
<1> QED
  BY <1>7, <1>8, <1>9, <1>10

(* The server appends t to what is on its way.                             *)
LEMMA AppendedInv ==
  ASSUME JumpInv, state = "live", NEW t \in Seq(Frames), t # << >>, Linked(t), Follows(t[1]) = cursor,
         chan' = chan \o t, cursor' = After(t[Len(t)]), cursor' \in 1 .. head + 1,
         UNCHANGED <<head, state, kind, client, pc, rx, cut, heard, origin>>
  PROVE  JumpInv'
<1> USE DEF JumpInv
<1>1. chan \in Seq(Frames) /\ chan' \in Seq(Frames) /\ chan' # << >>
  BY DEF TypeInv
<1>2. TypeInv'
  BY <1>1 DEF TypeInv, Clients
<1>3. cursor = IF chan = << >> THEN Pos ELSE After(chan[Len(chan)])
  BY DEF StreamInv
<1>4. Linked(chan')
  BY <1>1, <1>3, LinkedConcat DEF StreamInv
<1>5. chan'[Len(chan')] = t[Len(t)] /\ chan'[1] = IF chan = << >> THEN t[1] ELSE chan[1]
  BY <1>1
<1>6. Pos' = Pos
  BY DEF Pos, Expected
<1>7. StreamInv'
  BY <1>1, <1>3, <1>4, <1>5, <1>6 DEF StreamInv
<1>8. ReadInv'
  BY <1>1, <1>5 DEF ReadInv
<1>9. ResumeInv'
  BY <1>1 DEF ResumeInv, Request, Expected, ReadInv
<1> QED
  BY <1>2, <1>7, <1>8, <1>9

LEMMA ServeInv == JumpInv /\ ServeStep => JumpInv'
<1> SUFFICES ASSUME JumpInv, ServeStep PROVE JumpInv'
  OBVIOUS
<1>0. /\ state = "live" /\ head \in Nat /\ cursor \in 1 .. head + 1 /\ chan \in Seq(Frames)
      /\ UNCHANGED <<head, state, kind, client, pc, rx, cut, heard, origin>>
  BY DEF ServeStep, Serve, Beat, clientVars, JumpInv, StreamInv, TypeInv
<1>1. PICK n \in 0 .. MaxHead : Serve(n) \/ (n = 0 /\ chan = << >> /\ Beat)
  BY DEF ServeStep
<1>2. CASE Beat
  <2> DEFINE t == << Heartbeat(head) >>
  <2>1. t \in Seq(Frames) /\ t # << >> /\ Len(t) = 1 /\ t[1] = Heartbeat(head)
    BY <1>0, FrameKinds
  <2>2. Linked(t)
    BY <2>1 DEF Linked
  <2>3. Follows(t[1]) = cursor /\ After(t[Len(t)]) = cursor
    BY <1>0, <1>2, <2>1, FrameKinds DEF Beat
  <2>4. chan' = chan \o t /\ cursor' = cursor
    BY <1>0, <1>2, <2>1 DEF Beat
  <2> HIDE DEF t
  <2> QED
    BY <1>0, <2>1, <2>2, <2>3, <2>4, AppendedInv, Zenon
<1>3. CASE Serve(n)
  <2> DEFINE d == [k \in 1 .. n |-> Data(Start + k - 1)]
             t == Lapped \o d
  <2>1. Oldest \in Nat \ {0} /\ Oldest <= head + 1
    BY <1>0, MdClientAssumption DEF Oldest
  <2>2. Start \in Nat \ {0} /\ Start >= cursor
    BY <1>0, <2>1 DEF Start
  <2>3. n \in Nat /\ d \in Seq(Frames) /\ Len(d) = n
    BY <2>2, FrameKinds, MdClientAssumption
  <2>4. \A k \in 1 .. n : Follows(d[k]) = Start + k - 1 /\ After(d[k]) = Start + k
    BY <2>2, <2>3, FrameKinds
  <2>5. Linked(d)
    BY <2>2, <2>3, <2>4 DEF Linked
  <2>6. chan' = chan \o t /\ cursor' = Start + n /\ Start + n <= head + 1 /\ (n > 0 \/ cursor < Oldest)
    <3>1. Lapped \in Seq(Frames)
      BY <1>0, <2>1, FrameKinds DEF Lapped
    <3>2. (chan \o Lapped) \o d = chan \o (Lapped \o d)
      BY <1>0, <2>3, <3>1
    <3> QED
      BY <1>3, <3>2 DEF Serve
  <2>a. cursor' \in 1 .. head + 1
    BY <1>0, <2>2, <2>3, <2>6
  <2>b. n > 0 => Follows(d[1]) = Start /\ After(d[n]) = Start + n
    BY <2>2, <2>3, <2>4
  <2> HIDE DEF d
  <2>7. CASE cursor < Oldest
    <3> DEFINE g == Gap(cursor, Oldest)
    <3>1. g \in Frames /\ Follows(g) = cursor /\ After(g) = Start /\ Lapped = << g >>
      BY <1>0, <2>1, <2>7, FrameKinds DEF Start, Lapped
    <3> HIDE DEF g
    <3>2. << g >> \in Seq(Frames) /\ Len(<< g >>) = 1 /\ << g >>[1] = g /\ Linked(<< g >>)
      BY <3>1 DEF Linked
    <3>3. d # << >> => Follows(d[1]) = Start
      BY <2>3, <2>b
    <3>4. t = << g >> \o d
      BY <3>1
    <3>5. Linked(t)
      BY <2>3, <2>5, <3>1, <3>2, <3>3, <3>4, LinkedConcat, Zenon
    <3> HIDE DEF t
    <3>6. t \in Seq(Frames) /\ Len(t) = 1 + n /\ t[1] = g /\ (n > 0 => t[1 + n] = d[n])
      BY <2>3, <3>2, <3>4
    <3>7. After(t[Len(t)]) = Start + n /\ t # << >>
      BY <2>2, <2>3, <2>b, <3>1, <3>6
    <3> QED
      BY <1>0, <2>6, <2>a, <3>1, <3>5, <3>6, <3>7, AppendedInv, Zenon
  <2>8. CASE ~ (cursor < Oldest)
    <3>1. Start = cursor /\ Lapped = << >> /\ n > 0
      BY <2>6, <2>8 DEF Start, Lapped
    <3>2. t = d /\ t # << >>
      BY <2>3, <3>1
    <3> HIDE DEF t
    <3>3. Follows(t[1]) = cursor /\ After(t[Len(t)]) = Start + n
      BY <2>3, <2>b, <3>1, <3>2
    <3>4. t \in Seq(Frames) /\ Linked(t)
      BY <2>3, <2>5, <3>2
    <3> QED
      BY <1>0, <2>6, <2>a, <3>2, <3>3, <3>4, AppendedInv
  <2> QED
    BY <2>7, <2>8
<1> QED
  BY <1>1, <1>2, <1>3

(* The connection ends, of what was on its way the first frames arrive.    *)
LEMMA ClosedInv ==
  ASSUME JumpInv, state' = "closed", head' \in Nat, cursor' \in Nat,
         NEW n \in 0 .. Len(chan), chan' = SubSeq(chan, 1, n),
         UNCHANGED <<kind, client, pc, rx, cut, heard, origin>>
  PROVE  JumpInv'
<1> USE DEF JumpInv
<1>1. /\ chan \in Seq(Frames) /\ chan' \in Seq(Frames) /\ Linked(chan')
      /\ chan' # << >> => chan # << >> /\ chan'[1] = chan[1]
  BY LinkedPrefix DEF TypeInv, StreamInv
<1>2. TypeInv'
  BY <1>1 DEF TypeInv, Clients
<1>3. StreamInv'
  BY <1>1 DEF StreamInv, Pos, Expected
<1>4. ReadInv'
  BY <1>1 DEF ReadInv
<1>5. ResumeInv'
  BY <1>1 DEF ResumeInv, Request, Expected, ReadInv
<1> QED
  BY <1>2, <1>3, <1>4, <1>5

LEMMA StepInv == JumpInv /\ [ClientNext]_vars => JumpInv'
<1> SUFFICES ASSUME JumpInv, [ClientNext]_vars PROVE JumpInv'
  OBVIOUS
<1>1. CASE Eof
  BY <1>1, LeaveInv DEF Eof, JumpInv, TypeInv
<1>6. CASE Raise
  <2>1. TypeInv' /\ ReadInv' /\ ResumeInv'
    BY <1>6 DEF Raise, JumpInv, TypeInv, ReadInv, ResumeInv, Clients, Request, Expected
  <2>2. StreamInv'
    BY <1>6 DEF Raise, JumpInv, StreamInv, Pos, Expected
  <2> QED
    BY <2>1, <2>2 DEF JumpInv
<1>2. CASE Timeout
  BY <1>2, LeaveInv DEF Timeout
<1>3. CASE Drop
  BY <1>3, ClosedInv DEF Drop, Close, clientVars, JumpInv, TypeInv
<1>4. CASE Restart
  BY <1>4, ClosedInv DEF Restart
<1>5. CASE UNCHANGED vars
  <2>1. TypeInv' /\ ReadInv' /\ ResumeInv'
    BY <1>5 DEF vars, JumpInv, TypeInv, ReadInv, ResumeInv, Clients, Request, Expected
  <2>2. StreamInv'
    BY <1>5 DEF vars, JumpInv, StreamInv, Pos, Expected
  <2> QED
    BY <2>1, <2>2 DEF JumpInv
<1> QED
  BY <1>1, <1>2, <1>3, <1>4, <1>5, <1>6, ConnectInv, RecvInv, PublishInv, AcceptInv, ServeInv
  DEF ClientNext, Exited

LEMMA InductiveInvariant == ClientSpec => []JumpInv
<1> QED
  BY InitInv, StepInv, PTL DEF ClientSpec

(* No client ever sees the seq jump (NoSeqJump), whatever the size of the  *)
(* ring, the number of frames, lost connections and restarts: the branches *)
(* at main_client.cpp:203 and mdstream.py:107 are dead code.               *)
THEOREM JumpsNever == ClientSpec => []NoSeqJump
<1>1. JumpInv => NoSeqJump
  <2> SUFFICES ASSUME JumpInv, pc = "stream", chan # << >> PROVE ~ jump(client, Upcoming)
    BY DEF NoSeqJump
  <2>1. Upcoming = chan[1] /\ chan[1] \in Frames
    BY DEF JumpInv, TypeInv, ReadInv, Upcoming
  <2>2. AtHand(chan[1])
    BY <2>1 DEF JumpInv, StreamInv, ResumeInv, AtHand
  <2> QED
    BY <2>1, <2>2, NoJump DEF JumpInv
<1> QED
  BY <1>1, InductiveInvariant, PTL
------------------------------------------------------------------------------
(* Taking a term modulo m changes a sum by a multiple of m.                *)
LEMMA SumModulo ==
  ASSUME NEW m \in Nat \ {0}, NEW x \in Int, x % m = 0, NEW y \in Int
  PROVE  (x + ((y % m) - y)) % m = 0
<1>1. x = m * (x \div m) /\ x \div m \in Int
  OBVIOUS
<1>2. (y % m) - y = m * (- (y \div m)) /\ y \div m \in Int
  OBVIOUS
<1>3. x + ((y % m) - y) = m * ((x \div m) - (y \div m)) /\ (x \div m) - (y \div m) \in Int
  BY <1>1, <1>2
<1>4. \A q \in Int : (m * q) % m = 0
  OBVIOUS
<1> QED
  BY <1>3, <1>4, Zenon

LEMMA Regroup ==
  ASSUME NEW a \in Int, NEW l \in Int, NEW r \in Int, NEW o \in Int, NEW p \in Int, NEW q \in Int
  PROVE  a + r - (q - o) = (a + l - (p - o)) + (r - (l + (q - p)))
OBVIOUS

LEMMA BalanceStep ==
  ASSUME JumpInv, AccountsAddUp, Recv, rx # << >>
  PROVE  AccountsAddUp'
<1> DEFINE f == chan[1]
           before == IF heard THEN Balance ELSE 0
<1>0. 0 % LostMod = 0 /\ LostMod \in Nat \ {0}
  BY MdClientAssumption, SMTT(30)
<1>1. chan # << >> /\ f \in Frames /\ rx[1] = f /\ client' = handle(client, f) /\ UNCHANGED <<kind, origin>> /\ heard' = TRUE
  BY DEF JumpInv, TypeInv, ReadInv, Recv
<1>2. AtHand(f) /\ TypeInv /\ Follows(f) = Pos
  BY <1>1 DEF AtHand, JumpInv, StreamInv, ResumeInv
<1>3. After(f) \in Int /\ Follows(f) \in Int /\ (f.kind = "data" => After(f) = Follows(f) + 1)
      /\ (f.kind = "heartbeat" => After(f) = Follows(f)) /\ f.kind \in {"data", "gap", "heartbeat"}
  BY <1>1 DEF Frames, After, Follows
<1>4. origin \in Nat /\ kind \in {"cpp", "python"} /\ client.frames \in Nat /\ client.lost \in Int /\ Expected \in Nat
  BY DEF JumpInv, TypeInv, Clients, Expected
<1>5. before \in Int /\ before = client.frames + client.lost - (Follows(f) - origin)
  BY <1>2, <1>3, <1>4 DEF Balance, Pos, JumpInv, ResumeInv
<1>6. CASE kind = "python"
  <2>1. /\ client'.next_seq = After(f)
        /\ client'.frames = client.frames + (IF f.kind = "data" THEN 1 ELSE 0)
        /\ client'.lost = client.lost + (IF f.kind = "gap" THEN After(f) - Follows(f) ELSE 0)
    BY <1>1, <1>2, <1>6, HandlePy
  <2>2. Balance' = client'.frames + client'.lost - (After(f) - origin)
    BY <1>1, <1>6, <2>1 DEF Balance, Expected
  <2>3. Balance' = before
    <3>1. CASE f.kind = "gap"
      BY <1>3, <1>4, <1>5, <2>1, <2>2, <3>1
    <3>2. CASE f.kind = "data"
      BY <1>3, <1>4, <1>5, <2>1, <2>2, <3>2, SMTT(30)
    <3>3. CASE f.kind = "heartbeat"
      BY <1>3, <1>4, <1>5, <2>1, <2>2, <3>3
    <3> QED
      BY <1>3, <3>1, <3>2, <3>3
  <2>4. before = 0
    BY <1>6 DEF AccountsAddUp
  <2> QED
    BY <2>3, <2>4 DEF AccountsAddUp
<1>7. CASE kind = "cpp"
  <2>1. /\ client'.last_seq + 1 = After(f)
        /\ client'.frames = client.frames + (IF f.kind = "data" THEN 1 ELSE 0)
        /\ client'.lost = IF f.kind = "gap" THEN (client.lost + (After(f) - Follows(f))) % LostMod ELSE client.lost
    BY <1>1, <1>2, <1>7, HandleCpp, SMTT(30)
  <2>2. Balance' = client'.frames + client'.lost - (After(f) - origin)
    BY <1>1, <1>7, <2>1 DEF Balance, Expected
  <2>3. before % LostMod = 0
    BY <1>0, <1>7 DEF AccountsAddUp
  <2>4. CASE f.kind # "gap"
    <3>1. Balance' = before
      BY <1>3, <1>4, <1>5, <2>1, <2>2, <2>4, SMTT(30)
    <3> QED
      BY <1>1, <1>7, <2>3, <3>1, SMTT(30) DEF AccountsAddUp
  <2>5. CASE f.kind = "gap"
    <3> DEFINE y == client.lost + (After(f) - Follows(f))
    <3>1. y \in Int /\ y % LostMod \in Int
      BY <1>0, <1>3, <1>4
    <3>2. client'.frames = client.frames /\ client'.lost = y % LostMod
      BY <2>1, <2>5, <1>4, SMTT(30)
    <3>3. Balance' = before + ((y % LostMod) - y)
      <4>1. Balance' = client.frames + (y % LostMod) - (After(f) - origin)
        BY <2>2, <3>2
      <4>2. @ = (client.frames + client.lost - (Follows(f) - origin)) + ((y % LostMod) - y)
        <5>1. PICK z \in Int : z = y % LostMod
          BY <3>1, Zenon
        <5>2. client.frames + z - (After(f) - origin) = (client.frames + client.lost - (Follows(f) - origin)) + (z - y)
          BY <1>3, <1>4, Regroup, SMTT(30)
        <5> QED
          BY <5>1, <5>2, Zenon
      <4> QED
        BY <1>5, <4>1, <4>2
    <3>4. Balance' % LostMod = 0
      BY <1>0, <1>5, <2>3, <3>1, <3>3, SumModulo, SMTT(30)
    <3> QED
      BY <1>1, <1>7, <3>4 DEF AccountsAddUp
  <2> QED
    BY <2>4, <2>5
<1> QED
  BY <1>4, <1>6, <1>7

(* Outside Recv an account that has begun does not change.                 *)
LEMMA BalanceKept ==
  ASSUME AccountsAddUp, heard' = heard, kind' = kind, heard => Balance' = Balance
  PROVE  AccountsAddUp'
BY DEF AccountsAddUp

LEMMA AccountsStep == JumpInv /\ AccountsAddUp /\ [ClientNext]_vars => AccountsAddUp'
<1> SUFFICES ASSUME JumpInv, AccountsAddUp, [ClientNext]_vars PROVE AccountsAddUp'
  OBVIOUS
<1>1. CASE Recv /\ rx # << >>
  BY <1>1, BalanceStep
<1>2. CASE Recv /\ rx = << >>
  BY <1>2, BalanceKept DEF Recv, Balance, Expected
<1>3. CASE Eof \/ Timeout
  <2>1. client' = reconnect(client) /\ UNCHANGED <<kind, heard, origin>>
    BY <1>3 DEF Eof, Timeout
  <2>2. Balance' = Balance
    BY <2>1, ReconnectFacts DEF JumpInv, TypeInv, Balance, Expected
  <2> QED
    BY <2>1, <2>2, BalanceKept
<1>4. CASE AcceptStep
  BY <1>4, BalanceKept DEF AcceptStep, clientVars, Balance, Expected
<1>5. CASE Raise \/ Connect \/ PublishStep \/ ServeStep \/ Drop \/ Restart \/ UNCHANGED vars
  <2>1. UNCHANGED <<kind, client, heard, origin>>
    BY <1>5 DEF Raise, Connect, PublishStep, ServeStep, Drop, Restart, clientVars, vars
  <2> QED
    BY <2>1, BalanceKept, SMTT(30) DEF Balance, Expected
<1> QED
  BY <1>1, <1>2, <1>3, <1>4, <1>5 DEF ClientNext, Exited

(* The frames a client counted and those it calls lost add up to where it  *)
(* is in the stream (AccountsAddUp), in run_md modulo the width of its     *)
(* counter, through any number of laps, reconnects and restarts.           *)
THEOREM AccountsBalance == ClientSpec => []AccountsAddUp
<1>1. ClientInit => AccountsAddUp
  BY DEF ClientInit, AccountsAddUp
<1> QED
  BY <1>1, InductiveInvariant, AccountsStep, PTL DEF ClientSpec
==============================================================================
