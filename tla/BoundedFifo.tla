----------------------------- MODULE BoundedFifo -----------------------------
(***************************************************************************)
(* What SpscQueue (include/matchbox/spsc_queue.hpp) promises its two       *)
(* users: a first-in first-out queue that never holds more than Capacity   *)
(* elements and hands every element over exactly once.                     *)
(***************************************************************************)
EXTENDS Naturals, Sequences

CONSTANTS
  Values,     \* the elements that may be queued
  Capacity    \* buf_.size()

VARIABLES
  queue,      \* the elements pushed and not yet popped, oldest first
  delivered   \* <<v>>, v the element the last successful pop returned

vars == <<queue, delivered>>

Init ==
  /\ queue = << >>
  /\ delivered = << >>

Push(v) ==
  /\ Len(queue) < Capacity
  /\ queue' = Append(queue, v)
  /\ UNCHANGED delivered

Pop ==
  /\ queue # << >>
  /\ delivered' = << Head(queue) >>
  /\ queue' = Tail(queue)

Next == Pop \/ \E v \in Values : Push(v)

Spec == Init /\ [][Next]_vars
==============================================================================
