------------------------------ MODULE ReplayRing ------------------------------
(***************************************************************************)
(* The fixed-capacity ring of market-data frames                           *)
(* (include/matchbox/replay_ring.hpp), as functions on a record:           *)
(* ring.head is head_, ring.seq[k] the sequence number in the header of    *)
(* the frame that slot k holds (0 before the first one).  Of a frame only  *)
(* that number is kept.                                                    *)
(***************************************************************************)
EXTENDS Integers

CONSTANTS
  RingCap,   \* 2^ring_log2, mask_ + 1
  SeqMod     \* 2^32: head_ and next_seq are uint32_t

ASSUME RingAssumption == RingCap \in Nat \ {0} /\ SeqMod \in Nat /\ SeqMod > RingCap

Seqs == 0 .. SeqMod - 1
RingSlots == 0 .. RingCap - 1

Rings == [head : Seqs, seq : [RingSlots -> Seqs]]

EmptyRing == [head |-> 0, seq |-> [k \in RingSlots |-> 0]]

IncSeq(n) == (n + 1) % SeqMod

slot(seq) == seq % RingCap

append(ring) ==
  LET n == IncSeq(ring.head) IN [head |-> n, seq |-> [ring.seq EXCEPT ![slot(n)] = n]]

oldest(ring) == IF ring.head > RingCap THEN ring.head - RingCap + 1 ELSE 1

frame(ring, seq) == ring.seq[slot(seq)]
==============================================================================
