------------------------------ MODULE PriceTime ------------------------------
(***************************************************************************)
(* The engine as an implementation of the abstract order book.             *)
(***************************************************************************)
EXTENDS Engine

(* The engine is a price-time priority order book, event for event: the    *)
(* orders of a level queue up in arrival order, each fill takes the oldest *)
(* order at the best price, and a Top event appears exactly when the top   *)
(* of the book has moved since the last one.                               *)
AbstractBook == INSTANCE OrderBook WITH
  queue <- [pl \in Places |-> [k \in DOMAIN mem.fifo[pl] |-> mem.order[mem.fifo[pl][k]]]],
  taker <- IF pc = "match" THEN <<mem.order[cur]>> ELSE << >>,
  shown <- [s \in Symbols |-> IF pc = "match" /\ mem.order[cur].symbol = s THEN before ELSE top(mem, s)],
  out <- out

ImplementsOrderBook == AbstractBook!Spec
==============================================================================
