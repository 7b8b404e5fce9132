------------------------------- MODULE MdStream -------------------------------
(***************************************************************************)
(* What the market-data port promises one subscriber, without buffers,     *)
(* sockets, limits or clocks: "the global stream sequence (gap-free,       *)
(* shared by every subscriber)" of protocol.hpp, from a seq the subscriber *)
(* chooses.  Whatever is retained arrives once and in order; what is not   *)
(* is named by one Gap, at the place where it is missing; a Heartbeat      *)
(* comes only when there is nothing else to say.  Publisher implements     *)
(* this for each of its peers, MdClient is a client of it.                 *)
(***************************************************************************)
EXTENDS MdFrames, Sequences

CONSTANTS
  RingCap,    \* frames retained
  FromSeqs    \* the from_seq values subscribers send

VARIABLES
  head,       \* seq of the newest frame, 0 before the first one
  state,      \* of the connection: "waiting" (for a Subscribe), "live", "closed"
  cursor,     \* seq of the next frame for the subscriber, while "live"
  chan        \* frames on their way to the subscriber

streamVars == <<head, state, cursor, chan>>

Oldest == IF head > RingCap THEN head - RingCap + 1 ELSE 1

Init ==
  /\ head = 0
  /\ state = "waiting"
  /\ cursor = 0
  /\ chan = << >>

(* A Trade or Top is published to all.                                     *)
Publish ==
  /\ head' = head + 1
  /\ UNCHANGED <<state, cursor, chan>>

(* The subscription starts live, at a seq that was or is next, or, for a   *)
(* subscriber that is ahead of the head, with a Gap back to it.            *)
Accept(from) ==
  /\ state = "waiting"
  /\ state' = "live"
  /\ cursor' = IF from = 0 \/ from > head + 1 THEN head + 1 ELSE from
  /\ chan' = IF from > head + 1 THEN Append(chan, Gap(from, head + 1)) ELSE chan
  /\ UNCHANGED head

Start == IF cursor < Oldest THEN Oldest ELSE cursor

Lapped == IF cursor < Oldest THEN << Gap(cursor, Oldest) >> ELSE << >>

(* A Gap if the cursor was lapped, and the next n frames.                  *)
Serve(n) ==
  /\ state = "live"
  /\ n > 0 \/ cursor < Oldest
  /\ Start + n <= head + 1
  /\ cursor' = Start + n
  /\ chan' = (chan \o Lapped) \o [k \in 1 .. n |-> Data(Start + k - 1)]
  /\ UNCHANGED <<head, state>>

(* A heartbeat to a subscriber that is where the head is.                  *)
Beat ==
  /\ state = "live"
  /\ cursor = head + 1
  /\ chan' = Append(chan, Heartbeat(head))
  /\ UNCHANGED <<head, state, cursor>>

(* The subscriber reads a frame.                                           *)
Take ==
  /\ chan # << >>
  /\ chan' = Tail(chan)
  /\ UNCHANGED <<head, state, cursor>>

(* The connection ends; of what was on its way the first frames may still  *)
(* arrive.                                                                 *)
Close ==
  /\ state # "closed"
  /\ state' = "closed"
  /\ cursor' = 0
  /\ \E n \in 0 .. Len(chan) : chan' = SubSeq(chan, 1, n)
  /\ UNCHANGED head

Next ==
  \/ Publish
  \/ \E from \in FromSeqs : Accept(from)
  \/ \E n \in 0 .. head : Serve(n)
  \/ Beat
  \/ Take
  \/ Close

Spec == Init /\ [][Next]_streamVars
==============================================================================
