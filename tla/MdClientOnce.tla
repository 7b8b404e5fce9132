----------------------------- MODULE MdClientOnce -----------------------------
(***************************************************************************)
(* Proof that the market-data clients deliver every frame once, from the   *)
(* invariant of MdClientProofs.                                            *)
(***************************************************************************)
EXTENDS MdClientProofs, FiniteSetTheorems

(* While the server lives: every delivered seq is behind the client and    *)
(* counted once, and what the client has passed was delivered or is gone.  *)
Delivered ==
  /\ IsFiniteSet(got) /\ client.frames = Cardinality(got)
  /\ \A seq \in got : seq \in Nat /\ seq < Expected
  /\ heard => /\ Expected <= head + 1
              /\ \A seq \in origin .. Expected - 1 : seq \in got \/ seq < Oldest
  /\ ~ heard => got = {}

(* A Gap on its way names lost frames, but for the one that a client ahead *)
(* of the head gets before it has heard anything; nothing leads past the   *)
(* head.                                                                   *)
Named(f) == f.kind = "gap" => f.from < f.resumed_at /\ f.resumed_at <= Oldest

Ahead(f) == f.kind = "gap" /\ f.from > f.resumed_at

ChanNamed ==
  \A k \in 1 .. Len(chan) :
    /\ After(chan[k]) <= head + 1
    /\ Named(chan[k]) \/ (Ahead(chan[k]) /\ k = 1 /\ ~ heard)

OnceInv == restarts \in Nat /\ (restarts = 0 => Delivered /\ ChanNamed)

LEMMA OldestType == head \in Nat => Oldest \in 1 .. head + 1
BY MdClientAssumption DEF Oldest

LEMMA OldestGrows ==
  ASSUME head \in Nat, head' \in Nat, head <= head'
  PROVE  Oldest \in Nat /\ Oldest' \in Nat /\ Oldest <= Oldest'
<1> DEFINE old(h) == IF h > RingCap THEN h - RingCap + 1 ELSE 1
<1>1. \A h, g \in Nat : h <= g => old(h) \in Nat /\ old(h) <= old(g)
  BY MdClientAssumption
<1>2. Oldest = old(head) /\ Oldest' = old(head')
  BY DEF Oldest
<1>3. \A h \in Nat : old(h) \in Nat
  BY <1>1
<1> HIDE DEF old
<1> QED
  BY <1>1, <1>2, <1>3

LEMMA StillBelow ==
  ASSUME NEW a \in Nat, NEW b \in Nat, a <= b
  PROVE  (\A n \in Nat : n < a => n < b) /\ (\A n \in Nat : n <= a + 1 => n <= b + 1)
OBVIOUS

(* Handling the frame f that is next.                                      *)
LEMMA DeliveredStep ==
  ASSUME JumpInv, Delivered, NEW f, AtHand(f), After(f) <= head + 1,
         Named(f) \/ (Ahead(f) /\ ~ heard),
         client' = handle(client, f), heard' = TRUE, UNCHANGED <<head, kind, origin>>,
         got' = IF f.kind = "data" THEN got \cup {f.seq} ELSE got
  PROVE  Delivered'
<1>1. head \in Nat /\ origin \in Nat /\ Expected \in Nat /\ client.frames \in Nat /\ Oldest \in Nat /\ Oldest' = Oldest
  <2>1. head \in Nat /\ origin \in Nat /\ kind \in {"cpp", "python"} /\ client \in Clients
    BY Zenon DEF JumpInv, TypeInv
  <2>2. Expected \in Nat /\ client.frames \in Nat
    BY <2>1, ClientType, Zenon
  <2>3. Oldest \in Nat
    BY <2>1, OldestType
  <2>4. Oldest' = Oldest
    BY DEF Oldest
  <2> QED
    BY <2>1, <2>2, <2>3, <2>4
<1>2. Expected' = After(f) /\ client'.frames = client.frames + (IF f.kind = "data" THEN 1 ELSE 0)
  <2>1. CASE kind = "cpp"
    BY <2>1, HandleCpp DEF Expected, JumpInv
  <2>2. CASE kind = "python"
    BY <2>2, HandlePy DEF Expected, JumpInv
  <2> QED
    BY <2>1, <2>2 DEF JumpInv, TypeInv
<1>3. f \in Frames /\ Follows(f) = IF heard THEN Expected ELSE origin
  BY DEF AtHand, Pos
<1>4. CASE f.kind = "data"
  <2>1. f.seq \in Nat /\ Follows(f) = f.seq /\ After(f) = f.seq + 1
    BY <1>3, <1>4 DEF Frames, Follows, After
  <2>2. f.seq \notin got
    BY <1>1, <1>3, <2>1 DEF Delivered
  <2>3. IsFiniteSet(got') /\ Cardinality(got') = Cardinality(got) + 1
    BY <1>4, <2>2, FS_AddElement, Zenon DEF Delivered
  <2>4. \A seq \in got' : seq \in Nat /\ seq < Expected'
    BY <1>1, <1>2, <1>3, <1>4, <2>1 DEF Delivered
  <2>5. \A seq \in origin .. Expected' - 1 : seq \in got' \/ seq < Oldest
    BY <1>1, <1>2, <1>3, <1>4, <2>1 DEF Delivered
  <2> QED
    BY <1>1, <1>2, <1>4, <2>3, <2>4, <2>5 DEF Delivered
<1>5. CASE f.kind = "heartbeat"
  <2>1. f.head_seq \in Nat /\ Follows(f) = f.head_seq + 1 /\ After(f) = f.head_seq + 1
    BY <1>3, <1>5 DEF Frames, Follows, After
  <2> QED
    BY <1>1, <1>2, <1>3, <1>5, <2>1 DEF Delivered
<1>6. CASE f.kind = "gap"
  <2>1. f.from \in Nat /\ f.resumed_at \in Nat /\ Follows(f) = f.from /\ After(f) = f.resumed_at
    BY <1>3, <1>6 DEF Frames, Follows, After
  <2>2. \A seq \in got : seq < f.resumed_at
    BY <1>1, <1>3, <1>6, <2>1 DEF Delivered, Named, Ahead
  <2>3. \A seq \in origin .. f.resumed_at - 1 : seq \in got \/ seq < Oldest
    BY <1>1, <1>3, <1>6, <2>1 DEF Delivered, Named, Ahead
  <2> QED
    BY <1>1, <1>2, <1>6, <2>1, <2>2, <2>3 DEF Delivered
<1> QED
  BY <1>3, <1>4, <1>5, <1>6 DEF Frames

(* Steps that leave the client where it is, while the head does not go     *)
(* back.                                                                   *)
LEMMA DeliveredKept ==
  ASSUME JumpInv, Delivered, head' \in Nat, head <= head', Expected' = Expected,
         client'.frames = client.frames, heard => origin' = origin, UNCHANGED <<heard, got>>
  PROVE  Delivered'
<1>1. head \in Nat /\ origin \in Nat /\ Expected \in Nat
  BY DEF JumpInv, TypeInv, Clients, Expected
<1>2. Oldest \in Nat /\ Oldest' \in Nat /\ Oldest <= Oldest'
  BY <1>1, OldestGrows
<1>3. heard => /\ Expected' <= head' + 1
               /\ \A seq \in origin' .. Expected' - 1 : seq \in got \/ seq < Oldest'
  <2> SUFFICES ASSUME heard PROVE /\ Expected <= head' + 1
                                  /\ \A seq \in origin .. Expected - 1 : seq \in got \/ seq < Oldest'
    OBVIOUS
  <2>1. Expected <= head + 1 /\ \A seq \in origin .. Expected - 1 : seq \in got \/ seq < Oldest
    BY DEF Delivered
  <2>2. Expected <= head' + 1
    BY <1>1, <2>1, StillBelow, Zenon
  <2>3. \A seq \in origin .. Expected - 1 : seq \in Nat
    BY <1>1
  <2> QED
    BY <1>2, <2>1, <2>2, <2>3, StillBelow
<1> QED
  BY <1>3 DEF Delivered

LEMMA ChanNamedKept ==
  ASSUME JumpInv, ChanNamed, head' \in Nat, head <= head', heard' = heard,
         NEW n \in 0 .. Len(chan), chan' = SubSeq(chan, 1, n)
  PROVE  ChanNamed'
<1>1. head \in Nat /\ chan \in Seq(Frames) /\ Len(chan') = n /\ \A k \in 1 .. n : chan'[k] = chan[k] /\ chan[k] \in Frames
  BY DEF JumpInv, TypeInv
<1>2. Oldest \in Nat /\ Oldest' \in Nat /\ Oldest <= Oldest'
  BY <1>1, OldestGrows, SMTT(30)
<1>3. ASSUME NEW k \in 1 .. n
      PROVE  After(chan[k]) <= head' + 1 /\ (Named(chan[k]) => Named(chan[k])')
  <2>1. After(chan[k]) \in Nat /\ chan[k] \in Frames /\ k \in 1 .. Len(chan) /\ chan'[k] = chan[k]
    BY <1>1, AfterPositive
  <2>2. After(chan[k]) <= head' + 1
    BY <1>1, <2>1 DEF ChanNamed
  <2>3. chan[k].kind = "gap" => chan[k].from \in Nat /\ chan[k].resumed_at \in Nat
    BY <2>1 DEF Frames
  <2> QED
    BY <1>2, <2>1, <2>2, <2>3, SMTT(30) DEF Named
<1> QED
  BY <1>1, <1>3 DEF ChanNamed, Named, Ahead

LEMMA RecvOnce == JumpInv /\ OnceInv /\ Recv => OnceInv'
<1> SUFFICES ASSUME JumpInv, OnceInv, Recv, restarts = 0 PROVE (Delivered /\ ChanNamed)'
  BY Zenon DEF OnceInv, Recv
<1>0. /\ chan \in Seq(Frames) /\ chan # << >> /\ Len(chan) \in Nat /\ Len(chan) > 0 /\ head \in Nat
      /\ UNCHANGED <<head, kind, origin>> /\ Delivered /\ ChanNamed
  BY DEF JumpInv, TypeInv, OnceInv, Recv
<1>1. CASE rx = << >>
  <2>1. cut = 0 /\ UNCHANGED <<chan, client, heard, got>>
    BY <1>1 DEF Recv, JumpInv, ReadInv
  <2>2. Delivered'
    BY <1>0, <2>1, DeliveredKept, SMTT(30) DEF Expected
  <2>3. ChanNamed'
    BY <1>0, <2>1 DEF ChanNamed, Named, Ahead, Oldest
  <2> QED
    BY <2>2, <2>3
<1>2. CASE rx # << >>
  <2>1. rx[1] = chan[1] /\ cut = 1
    BY <1>0, <1>2 DEF JumpInv, ReadInv, TypeInv
  <2>2. /\ chan' = Tail(chan) /\ client' = handle(client, chan[1]) /\ heard' = TRUE
        /\ got' = IF chan[1].kind = "data" THEN got \cup {chan[1].seq} ELSE got
    BY <1>2, <2>1 DEF Recv
  <2>3. AtHand(chan[1])
    BY <1>0 DEF AtHand, JumpInv, StreamInv, ResumeInv
  <2>4. After(chan[1]) <= head + 1 /\ (Named(chan[1]) \/ (Ahead(chan[1]) /\ ~ heard))
    BY <1>0 DEF ChanNamed
  <2>5. Delivered'
    BY <1>0, <2>2, <2>3, <2>4, DeliveredStep, Zenon
  <2>6. Len(chan') = Len(chan) - 1 /\ \A k \in 1 .. Len(chan) - 1 : chan'[k] = chan[k + 1]
    BY <1>0, <2>2
  <2>7. \A k \in 1 .. Len(chan) - 1 : After(chan[k + 1]) <= head + 1 /\ Named(chan[k + 1])
    BY <1>0 DEF ChanNamed
  <2>8. ChanNamed'
    BY <1>0, <2>6, <2>7 DEF ChanNamed, Named, Oldest
  <2> QED
    BY <2>5, <2>8
<1> QED
  BY <1>1, <1>2

LEMMA AcceptOnce == JumpInv /\ OnceInv /\ AcceptStep => OnceInv'
<1> SUFFICES ASSUME JumpInv, OnceInv, AcceptStep, restarts = 0 PROVE (Delivered /\ ChanNamed)'
  BY DEF OnceInv, AcceptStep
<1>1. /\ chan = << >> /\ state = "waiting" /\ head \in Nat /\ Request \in Nat /\ Delivered
      /\ chan' = IF Request > head + 1 THEN << Gap(Request, head + 1) >> ELSE << >>
      /\ UNCHANGED <<head, kind, client, heard, got>> /\ (heard => origin' = origin)
  BY DEF AcceptStep, Accept, clientVars, JumpInv, ReadInv, OnceInv, TypeInv, Clients, Request
<1>2. Delivered'
  BY <1>1, DeliveredKept, SMTT(30) DEF Expected
<1>3. CASE Request > head + 1
  <2>1. ~ heard
    BY <1>1, <1>3 DEF JumpInv, ResumeInv, Delivered
  <2>2. chan' = << Gap(Request, head + 1) >> /\ After(Gap(Request, head + 1)) = head + 1 /\ Ahead(Gap(Request, head + 1))
    BY <1>1, <1>3, FrameKinds DEF Ahead, Gap
  <2>3. Len(chan') = 1 /\ chan'[1] = Gap(Request, head + 1)
    BY <2>2
  <2>4. After(chan'[1]) <= head' + 1 /\ Ahead(chan'[1]) /\ ~ heard'
    BY <1>1, <2>1, <2>2, <2>3
  <2> QED
    BY <1>2, <2>3, <2>4 DEF ChanNamed, Ahead
<1>4. CASE ~ (Request > head + 1)
  BY <1>1, <1>2, <1>4 DEF ChanNamed
<1> QED
  BY <1>3, <1>4

LEMMA ServeOnce == JumpInv /\ OnceInv /\ ServeStep => OnceInv'
<1> SUFFICES ASSUME JumpInv, OnceInv, ServeStep, restarts = 0 PROVE (Delivered /\ ChanNamed)'
  BY DEF OnceInv, ServeStep
<1>0. /\ state = "live" /\ head \in Nat /\ cursor \in 1 .. head + 1 /\ chan \in Seq(Frames)
      /\ UNCHANGED <<head, state, kind, client, heard, got, origin>> /\ Delivered /\ ChanNamed
  BY DEF ServeStep, Serve, Beat, clientVars, JumpInv, StreamInv, TypeInv, OnceInv
<1>1. Delivered'
  BY <1>0, DeliveredKept, SMTT(30) DEF Expected
<1>2. ASSUME NEW t \in Seq(Frames), chan' = chan \o t,
             \A k \in 1 .. Len(t) : After(t[k]) <= head + 1 /\ Named(t[k])
      PROVE  ChanNamed'
  <2>1. Len(chan') = Len(chan) + Len(t) /\ Len(chan) \in Nat /\ Len(t) \in Nat
    BY <1>0, <1>2
  <2>2. \A k \in 1 .. Len(chan') : IF k <= Len(chan) THEN chan'[k] = chan[k] ELSE chan'[k] = t[k - Len(chan)]
    BY <1>0, <1>2
  <2>3. ASSUME NEW k \in 1 .. Len(chan')
        PROVE  After(chan'[k]) <= head + 1 /\ (Named(chan'[k]) \/ (Ahead(chan'[k]) /\ k = 1 /\ ~ heard))
    <3>1. CASE k <= Len(chan)
      BY <1>0, <2>1, <2>2, <3>1, SMTT(30) DEF ChanNamed
    <3>2. CASE ~ (k <= Len(chan))
      <4>1. k - Len(chan) \in 1 .. Len(t)
        BY <2>1, <3>2
      <4> QED
        BY <1>2, <2>2, <3>2, <4>1
    <3> QED
      BY <3>1, <3>2, SMTT(30)
  <2> QED
    BY <1>0, <2>3 DEF ChanNamed, Named, Ahead, Oldest
<1>3. PICK n \in 0 .. MaxHead : Serve(n) \/ (n = 0 /\ chan = << >> /\ Beat)
  BY DEF ServeStep
<1>4. CASE Beat
  <2> DEFINE t == << Heartbeat(head) >>
  <2>1. t \in Seq(Frames) /\ Len(t) = 1 /\ t[1] = Heartbeat(head)
    BY <1>0, FrameKinds, SMTT(30)
  <2>2. After(t[1]) <= head + 1 /\ Named(t[1])
    BY <1>0, <2>1, FrameKinds DEF Named, Heartbeat
  <2>3. chan' = chan \o t
    BY <1>0, <1>4, <2>1 DEF Beat
  <2> HIDE DEF t
  <2>4. \A k \in 1 .. Len(t) : k = 1
    BY <2>1
  <2> QED
    BY <1>1, <1>2, <2>1, <2>2, <2>3, <2>4, Zenon
<1>5. CASE Serve(n)
  <2> DEFINE d == [k \in 1 .. n |-> Data(Start + k - 1)]
             t == Lapped \o d
  <2>1. Oldest \in Nat \ {0} /\ Oldest <= head + 1 /\ Start \in Nat \ {0} /\ n \in Nat /\ Start + n <= head + 1
    BY <1>0, <1>5, OldestType, MdClientAssumption DEF Start, Serve
  <2>2. d \in Seq(Frames) /\ Len(d) = n
    BY <2>1, FrameKinds
  <2>3. \A k \in 1 .. n : After(d[k]) <= head + 1 /\ Named(d[k])
    <3>1. \A k \in 1 .. n : d[k] = Data(Start + k - 1) /\ Start + k - 1 \in Nat \ {0} /\ Start + k <= head + 1
      BY <1>0, <2>1
    <3> HIDE DEF d
    <3> SUFFICES ASSUME NEW k \in 1 .. n PROVE After(d[k]) <= head + 1 /\ Named(d[k])
      OBVIOUS
    <3>2. PICK seq \in Nat \ {0} : seq = Start + k - 1 /\ d[k] = Data(seq)
      BY <3>1
    <3>3. After(Data(seq)) = seq + 1 /\ seq + 1 = Start + k
      BY <2>1, <3>2, FrameKinds
    <3>4. Named(Data(seq))
      BY DEF Named, Data
    <3> QED
      BY <3>1, <3>2, <3>3, <3>4, SMTT(30)
  <2>4. /\ Lapped \in Seq(Frames) /\ Len(Lapped) \in {0, 1}
        /\ Len(Lapped) = 1 => After(Lapped[1]) <= head + 1 /\ Named(Lapped[1])
    <3>1. CASE cursor < Oldest
      <4>1. Lapped = << Gap(cursor, Oldest) >> /\ Gap(cursor, Oldest) \in Frames /\ After(Gap(cursor, Oldest)) = Oldest
        BY <1>0, <2>1, <3>1, FrameKinds DEF Lapped
      <4>2. Named(Gap(cursor, Oldest))
        BY <2>1, <3>1 DEF Named, Gap
      <4> QED
        BY <2>1, <4>1, <4>2, SMTT(30)
    <3>2. CASE ~ (cursor < Oldest)
      BY <3>2 DEF Lapped
    <3> QED
      BY <3>1, <3>2
  <2>5. chan' = chan \o t
    <3>1. (chan \o Lapped) \o d = chan \o (Lapped \o d)
      BY <1>0, <2>2, <2>4, SMTT(30)
    <3> QED
      BY <1>5, <3>1, Zenon DEF Serve
  <2> HIDE DEF d
  <2>6. t \in Seq(Frames) /\ Len(t) = Len(Lapped) + n
    BY <2>1, <2>2, <2>4
  <2>7. \A k \in 1 .. Len(t) : t[k] = IF k <= Len(Lapped) THEN Lapped[k] ELSE d[k - Len(Lapped)]
    BY <2>1, <2>2, <2>4
  <2>8. ASSUME NEW k \in 1 .. Len(t) PROVE After(t[k]) <= head + 1 /\ Named(t[k])
    <3> HIDE DEF t
    <3>1. CASE k <= Len(Lapped)
      BY <2>1, <2>4, <2>6, <2>7, <3>1
    <3>2. CASE ~ (k <= Len(Lapped))
      <4>1. k - Len(Lapped) \in 1 .. n
        BY <2>1, <2>4, <2>6, <3>2, SMTT(30)
      <4> QED
        BY <2>3, <2>7, <3>2, <4>1
    <3> QED
      BY <3>1, <3>2
  <2> HIDE DEF t
  <2> QED
    BY <1>1, <1>2, <2>5, <2>6, <2>8, Zenon
<1> QED
  BY <1>3, <1>4, <1>5

(* Steps that move neither the client nor the account, and at most cut the *)
(* frames on their way short.                                              *)
LEMMA OnceKept ==
  ASSUME JumpInv, OnceInv, head' \in Nat, head <= head', Expected' = Expected,
         client'.frames = client.frames, UNCHANGED <<restarts, heard, origin, got>>,
         \E n \in 0 .. Len(chan) : chan' = SubSeq(chan, 1, n)
  PROVE  OnceInv'
BY DeliveredKept, ChanNamedKept DEF OnceInv

LEMMA LeftOnce ==
  ASSUME JumpInv, OnceInv, client' = reconnect(client), UNCHANGED <<head, chan, kind, restarts, heard, origin, got>>
  PROVE  OnceInv'
<1>1. /\ TypeInv /\ head \in Nat /\ kind \in {"cpp", "python"} /\ chan \in Seq(Frames)
      /\ \E n \in 0 .. Len(chan) : chan = SubSeq(chan, 1, n)
  <2>1. TypeInv /\ head \in Nat /\ kind \in {"cpp", "python"} /\ chan \in Seq(Frames) /\ chan = SubSeq(chan, 1, Len(chan))
    BY DEF JumpInv, TypeInv
  <2>2. Len(chan) \in 0 .. Len(chan)
    BY <2>1
  <2> QED
    BY <2>1, <2>2, Zenon
<1>2. Expected' = Expected /\ client'.frames = client.frames
  BY <1>1, ReconnectFacts DEF Expected
<1> QED
  BY <1>1, <1>2, OnceKept, SMTT(20)

LEMMA OnceStep == JumpInv /\ OnceInv /\ [ClientNext]_vars => OnceInv'
<1> SUFFICES ASSUME JumpInv, OnceInv, [ClientNext]_vars PROVE OnceInv'
  BY SMTT(20)
<1>0. /\ head \in Nat /\ chan \in Seq(Frames)
      /\ \E n \in 0 .. Len(chan) : chan = SubSeq(chan, 1, n)
      /\ \E n \in 0 .. Len(chan) : << >> = SubSeq(chan, 1, n)
  <2>1. head \in Nat /\ chan \in Seq(Frames) /\ chan = SubSeq(chan, 1, Len(chan)) /\ << >> = SubSeq(chan, 1, 0)
    BY DEF JumpInv, TypeInv
  <2>2. Len(chan) \in 0 .. Len(chan) /\ 0 \in 0 .. Len(chan)
    BY <2>1
  <2> QED
    BY <2>1, <2>2, Zenon
<1>1. CASE Connect
  BY <1>0, <1>1, OnceKept DEF Connect, Expected
<1>2. CASE Eof
  BY <1>2, LeftOnce DEF Eof
<1>8. CASE Raise
  <2>1. UNCHANGED <<head, chan, client, kind, restarts, heard, origin, got>>
    BY <1>8 DEF Raise
  <2> QED
    BY <1>0, <2>1, OnceKept DEF Expected
<1>3. CASE Timeout
  BY <1>3, LeftOnce DEF Timeout
<1>4. CASE PublishStep
  <2>1. head' = head + 1 /\ UNCHANGED <<chan, client, kind, restarts, heard, origin, got>>
    BY <1>4 DEF PublishStep, Publish, clientVars
  <2> QED
    BY <1>0, <2>1, OnceKept DEF Expected
<1>5. CASE Drop
  <2>1. /\ UNCHANGED <<head, client, kind, restarts, heard, origin, got>>
        /\ \E n \in 0 .. Len(chan) : chan' = SubSeq(chan, 1, n)
    BY <1>5 DEF Drop, Close, clientVars
  <2> QED
    BY <1>0, <2>1, OnceKept DEF Expected
<1>6. CASE Restart
  BY <1>6 DEF Restart, OnceInv
<1>7. CASE UNCHANGED vars
  <2>1. UNCHANGED <<head, chan, client, kind, restarts, heard, origin, got>>
    BY <1>7 DEF vars
  <2> QED
    BY <1>0, <2>1, OnceKept DEF Expected
<1> QED
  BY <1>1, <1>2, <1>3, <1>4, <1>5, <1>6, <1>7, <1>8, RecvOnce, AcceptOnce, ServeOnce, SMTT(30) DEF ClientNext, Exited

(* Where the account begins, in the first life of the server: where the    *)
(* first subscription began, or earlier for run_md, which then asks for 1. *)
(* A Stream started with --from asks for the same seq until it has heard   *)
(* something.                                                              *)
OriginInv ==
  restarts = 0 =>
    /\ first \in Nat /\ origin \in Nat /\ (first = 0 <=> origin = 0)
    /\ heard \/ chan # << >> \/ state = "live" => first # 0
    /\ kind = "cpp" => origin <= first
    /\ kind = "python" /\ ~ live => origin = first /\ (heard \/ (Request # 0 /\ first \in {0, Request}))

LEMMA OriginStep == JumpInv /\ OnceInv /\ OriginInv /\ [ClientNext]_vars => OriginInv'
<1> SUFFICES ASSUME JumpInv, OnceInv, OriginInv, [ClientNext]_vars, restarts' = 0 PROVE OriginInv'
  BY DEF OriginInv
<1>0. kind \in {"cpp", "python"} /\ head \in Nat /\ Request \in Nat
  BY DEF JumpInv, TypeInv, Clients, Request
<1>1. CASE AcceptStep
  <2>1. CASE Request = 0
    BY <1>0, <1>1, <2>1, SMTT(30) DEF Begins, AcceptStep, clientVars, Request, OriginInv
  <2>2. CASE Request # 0
    BY <1>0, <1>1, <2>2, SMTT(30) DEF Begins, AcceptStep, clientVars, Request, OriginInv
  <2> QED
    BY <2>1, <2>2
<1>2. CASE Recv
  BY <1>2 DEF Recv, OriginInv, Request
<1>3. CASE Eof \/ Timeout
  BY <1>3 DEF Eof, Timeout, reconnect, OriginInv, Request
<1> DEFINE Reached(c, s) == c # << >> \/ s = "live"
<1>6. ASSUME UNCHANGED <<kind, client, heard, live, first, origin, restarts>>, Reached(chan', state') => Reached(chan, state)
      PROVE  OriginInv'
  BY <1>6, SMTT(30) DEF OriginInv, Request
<1>4. CASE Connect \/ Raise \/ PublishStep \/ ServeStep \/ UNCHANGED vars
  BY <1>4, <1>6 DEF Connect, Raise, PublishStep, Publish, ServeStep, Serve, Beat, vars, clientVars
<1>7. CASE Drop
  <2>1. \E n \in 0 .. Len(chan) : chan' = SubSeq(chan, 1, n)
    BY <1>7 DEF Drop, Close
  <2>2. chan = << >> => chan' = << >>
    BY <2>1
  <2> QED
    BY <1>6, <1>7, <2>2 DEF Drop, Close, clientVars
<1>5. CASE Restart
  BY <1>5 DEF Restart, OnceInv
<1> QED
  BY <1>1, <1>2, <1>3, <1>4, <1>5, <1>7, SMTT(30) DEF ClientNext, Exited

(* No frame is delivered twice and none that the ring still holds is       *)
(* passed over from where the account begins (ExactlyOnce), for every      *)
(* ring, however often and wherever the connection is lost between the     *)
(* frames and in the middle of one: reconnecting from last_seq + 1         *)
(* (main_client.cpp:229) or next_seq (mdstream.py:44) is right once a      *)
(* frame was handled, and before that for all but a Stream started live.   *)
THEOREM DeliveredOnce == ClientSpec => []ExactlyOnce
<1>1. ClientInit => OnceInv /\ OriginInv
  <2> SUFFICES ASSUME ClientInit PROVE OnceInv /\ OriginInv
    OBVIOUS
  <2>1. got = {} /\ ~ heard /\ restarts = 0 /\ chan = << >> /\ client.frames = 0
    <3>1. PICK from \in FromSeqs : client = NewClient(kind, from)
      BY Zenon DEF ClientInit
    <3>2. client.frames = 0
      BY <3>1, Zenon DEF NewClient
    <3> QED
      BY <3>2, Zenon DEF ClientInit
  <2>2. Delivered
    BY <2>1, FS_EmptySet DEF Delivered
  <2>3. ChanNamed
    BY <2>1 DEF ChanNamed
  <2>4. first = 0 /\ origin = 0 /\ state = "closed" /\ (kind = "python" /\ ~ live => Request # 0)
    <3>1. PICK from \in FromSeqs : client = NewClient(kind, from) /\ live = (from = 0)
      BY DEF ClientInit
    <3>2. kind = "python" => client.next_seq = from
      BY <3>1 DEF NewClient
    <3>3. kind = "python" /\ ~ live => Request # 0
      BY <3>1, <3>2, Zenon DEF Request
    <3> QED
      BY <3>3 DEF ClientInit
  <2> QED
    BY <2>1, <2>2, <2>3, <2>4 DEF OnceInv, OriginInv
<1>2. JumpInv /\ OnceInv /\ OriginInv => ExactlyOnce
  <2> SUFFICES ASSUME JumpInv, OnceInv, OriginInv, restarts = 0, heard PROVE ExactlyOnce
    BY DEF ExactlyOnce
  <2>1. /\ client.frames = Cardinality(got)
        /\ \A seq \in origin .. Expected - 1 : seq \in got \/ seq < Oldest
    BY DEF OnceInv, Delivered
  <2>2. origin <= first \/ (kind = "python" /\ live)
    BY DEF OriginInv, JumpInv, TypeInv
  <2> QED
    BY <2>1, <2>2 DEF ExactlyOnce
<1> QED
  BY <1>1, <1>2, InductiveInvariant, OnceStep, OriginStep, PTL DEF ClientSpec
==============================================================================
