------------------------------- MODULE Matching -------------------------------
(***************************************************************************)
(* The vocabulary of the matching engine: sides, prices, orders, commands  *)
(* and events (include/matchbox/types.hpp, order.hpp, engine.hpp).         *)
(* Client tags and timestamps are echoed or stamped and never looked at;   *)
(* they are left out.                                                      *)
(***************************************************************************)
EXTENDS Integers, Sequences, FiniteSets, FiniteSetsExt

CONSTANTS
  Symbols,      \* the instruments, one Book each
  Sessions,     \* order-entry sessions
  MaxOrders,    \* Config::max_orders, the capacity of the pool
  MaxPrice,     \* Config::max_price
  QtyMod,       \* 2^32: Qty is a uint32_t
  GenMod,       \* 2^32: a slot's generation is a uint32_t
  CmdSymbols,   \* what commands may carry: some symbols (known or not),
  CmdPrices,    \*   prices (valid or not)
  CmdQtys,      \*   and quantities
  CmdKinds      \*   and <<type, tif>> pairs

ASSUME PoolAssumption == MaxOrders \in Nat \ {0} /\ MaxPrice \in Nat \ {0}
ASSUME PartyAssumption == Symbols # {} /\ Sessions # {}
ASSUME WidthAssumption == QtyMod \in Nat \ {0, 1} /\ GenMod \in Nat \ {0, 1}
ASSUME CommandAssumption ==
  /\ CmdPrices \subseteq Int
  /\ CmdQtys \subseteq 0 .. QtyMod - 1
  /\ CmdKinds \subseteq {"Limit", "Market"} \X {"GTC", "IOC"}

kNull == -1       \* no slot
kNoPrice == -1    \* no price

Sides == {"Buy", "Sell"}
Prices == 1 .. MaxPrice
Qty == 0 .. QtyMod - 1
Slots == 0 .. MaxOrders - 1
Gens == 1 .. GenMod - 1

opposite(side) == IF side = "Buy" THEN "Sell" ELSE "Buy"

valid_price(p) == p >= 1 /\ p <= MaxPrice

(* Fault: orders at the same price do not cross.                           *)
crosses_strictly(side, takerPx, bookPx) == IF side = "Buy" THEN takerPx > bookPx ELSE takerPx < bookPx

crosses(side, takerPx, bookPx) == IF side = "Buy" THEN takerPx >= bookPx ELSE takerPx <= bookPx

(* An OrderId packs a generation and a slot; a client may send back any.   *)
OrderIds == Gens \X Slots
CmdIds == Gens \X (0 .. MaxOrders)

(* `qty' is what is left of the order.  The default id is the code's 0.    *)
NoId == <<0, 0>>

Orders == [id : OrderIds \cup {NoId}, session : Sessions, symbol : Symbols, side : Sides,
           type : {"Limit", "Market"}, tif : {"GTC", "IOC"}, price : 0 .. MaxPrice, qty : Qty]

DefaultOrder ==
  [id |-> NoId, session |-> CHOOSE s \in Sessions : TRUE, symbol |-> CHOOSE s \in Symbols : TRUE,
   side |-> "Buy", type |-> "Limit", tif |-> "GTC", price |-> 0, qty |-> 0]

NewCommands ==
  {[session |-> ss, order_id |-> NoId, symbol |-> sy, side |-> sd, type |-> k[1], tif |-> k[2], price |-> p, qty |-> q] :
     ss \in Sessions, sy \in CmdSymbols, sd \in Sides, k \in CmdKinds, p \in CmdPrices, q \in CmdQtys}

CancelCommands == [session : Sessions, order_id : CmdIds]

ReplaceCommands == [session : Sessions, order_id : CmdIds, price : CmdPrices, qty : CmdQtys]

NewOrder(c, id) ==
  [id |-> id, session |-> c.session, symbol |-> c.symbol, side |-> c.side, type |-> c.type,
   tif |-> c.tif, price |-> IF c.type = "Limit" THEN c.price ELSE 0, qty |-> c.qty]
------------------------------------------------------------------------------
(* Where orders rest: one list per symbol, side and price.                 *)
Places == Symbols \X Sides \X Prices

PlaceOf(o) == <<o.symbol, o.side, o.price>>

(* The sequence f without its k-th element.                                *)
Without(f, k) == [j \in 1 .. Len(f) - 1 |-> IF j < k THEN f[j] ELSE f[j + 1]]

(* The sum of a sequence of quantities.                                    *)
Total(qtys) ==
  LET upTo[k \in 0 .. Len(qtys)] == IF k = 0 THEN 0 ELSE upTo[k - 1] + qtys[k]
  IN upTo[Len(qtys)]

TopOfBook(bid, bidQty, ask, askQty) == [bid |-> bid, bid_qty |-> bidQty, ask |-> ask, ask_qty |-> askQty]
------------------------------------------------------------------------------
(* Events.                                                                 *)
base(kind, o) ==
  [kind |-> kind, side |-> o.side, symbol |-> o.symbol, session |-> o.session,
   order_id |-> o.id, price |-> o.price, qty |-> o.qty, remaining |-> o.qty]

Rejected(session, id, reason) ==
  [kind |-> "Rejected", session |-> session, order_id |-> id, reason |-> reason]

TopEvent(symbol, top) == [kind |-> "Top", symbol |-> symbol, top |-> top]

(* Fault: `remaining' as it was before the fill.                           *)
FillEvent_early(o, isMaker, px, q) ==
  [kind |-> "Fill", side |-> o.side, symbol |-> o.symbol, session |-> o.session, order_id |-> o.id,
   price |-> px, qty |-> q, remaining |-> o.qty + q, maker |-> isMaker]

(* What one fill reports, both orders as they are after it: the maker's    *)
(* fill, the taker's fill, and the trade print.                            *)
FillEvent(o, isMaker, px, q) ==
  [kind |-> "Fill", side |-> o.side, symbol |-> o.symbol, session |-> o.session, order_id |-> o.id,
   price |-> px, qty |-> q, remaining |-> o.qty, maker |-> isMaker]

FillEvents(maker, taker, px, q) ==
  << FillEvent(maker, TRUE, px, q),
     FillEvent(taker, FALSE, px, q),
     [kind |-> "Trade", side |-> taker.side, symbol |-> taker.symbol, price |-> px, qty |-> q] >>
==============================================================================
