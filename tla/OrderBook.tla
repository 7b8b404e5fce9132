------------------------------ MODULE OrderBook ------------------------------
(***************************************************************************)
(* What the matching engine promises, without slots, links, bitmaps or     *)
(* generations: price-time priority.  Resting orders wait in one queue per *)
(* symbol, side and price; an incoming order trades with the front of the  *)
(* best opposite queue for as long as prices cross, and what is left of it *)
(* rests or is cancelled.  Whenever the best price or the quantity there   *)
(* has changed at the end of a command, a Top event says so.               *)
(***************************************************************************)
EXTENDS Matching

VARIABLES
  queue,    \* queue[<<symbol, side, price>>]: the resting orders, oldest first
  taker,    \* <<o>> while the incoming order o is being matched, else <<>>
  shown,    \* shown[symbol]: the top of book as last published
  out       \* the events of the last step

vars == <<queue, taker, shown, out>>

Idle == taker = << >>

(* Where the resting orders are: <<place, position>> pairs.                *)
Resting == {x \in Places \X (1 .. MaxOrders) : x[2] <= Len(queue[x[1]])}

At(x) == queue[x[1]][x[2]]

RestingCount == Cardinality(Resting)

Offered(q, symbol, side) == {p \in Prices : q[<<symbol, side, p>>] # << >>}

BestOf(q, symbol, side) ==
  LET ps == Offered(q, symbol, side)
  IN IF ps = {} THEN kNoPrice ELSE IF side = "Buy" THEN Max(ps) ELSE Min(ps)

(* The quantity offered at the best price, in Qty arithmetic.              *)
QtyAt(q, symbol, side) ==
  LET px == BestOf(q, symbol, side)
      line == q[<<symbol, side, px>>]
  IN IF px = kNoPrice THEN 0 ELSE Total([k \in DOMAIN line |-> line[k].qty]) % QtyMod

TopOf(q, symbol) ==
  TopOfBook(BestOf(q, symbol, "Buy"), QtyAt(q, symbol, "Buy"),
            BestOf(q, symbol, "Sell"), QtyAt(q, symbol, "Sell"))

Init ==
  /\ queue = [pl \in Places |-> << >>]
  /\ taker = << >>
  /\ shown = [s \in Symbols |-> TopOfBook(kNoPrice, 0, kNoPrice, 0)]
  /\ out = << >>

(* The command ends with the book of `symbol' in q, having said `events'.  *)
EndWith(q, symbol, events) ==
  LET top == TopOf(q, symbol)
  IN /\ taker' = << >>
     /\ queue' = q
     /\ shown' = [shown EXCEPT ![symbol] = top]
     /\ out' = events \o (IF top # shown[symbol] THEN <<TopEvent(symbol, top)>> ELSE << >>)

Refuse(session, id, reason) ==
  /\ out' = <<Rejected(session, id, reason)>>
  /\ UNCHANGED <<queue, taker, shown>>

StartMatching(o, event) ==
  /\ out' = <<base(event, o)>>
  /\ taker' = <<o>>
  /\ UNCHANGED shown
------------------------------------------------------------------------------
(* Why a new order is refused, if it is: the first check that fails.       *)
Refusal(c) ==
  CASE c.symbol \notin Symbols -> "BadSymbol"
    [] c.symbol \in Symbols /\ c.qty = 0 -> "BadQty"
    [] c.symbol \in Symbols /\ c.qty # 0 /\ c.type = "Limit" /\ ~ valid_price(c.price) -> "BadPrice"
    [] OTHER -> IF RestingCount = MaxOrders THEN "BookFull" ELSE "None"

RefuseNew(session, reason) ==
  /\ Idle
  /\ Refuse(session, NoId, reason)
  /\ \E c \in NewCommands : c.session = session /\ Refusal(c) = reason

(* Any id that no resting order has.                                       *)
AcceptNew ==
  /\ Idle /\ ~ Idle'
  /\ UNCHANGED queue
  /\ \E c \in NewCommands, id \in OrderIds :
       /\ StartMatching(NewOrder(c, id), "Accepted")
       /\ Refusal(c) = "None"
       /\ \A x \in Resting : At(x).id # id

(* A cancel or replace of an order that is not there, or is not its own.   *)
NoTarget(c) ==
  /\ Idle
  /\ \/ /\ Refuse(c.session, c.order_id, "UnknownOrder")
        /\ \A x \in Resting : At(x).id # c.order_id
     \/ /\ Refuse(c.session, c.order_id, "NotOwner")
        /\ \E x \in Resting : At(x).id = c.order_id /\ At(x).session # c.session

(* The owner of the order at x cancels it.                                 *)
Cancel(x) ==
  /\ Idle
  /\ EndWith([queue EXCEPT ![x[1]] = Without(@, x[2])], At(x).symbol, <<base("Cancelled", At(x))>>)

(* The owner of the order at x replaces it.  A replace that does not       *)
(* improve the order's claim keeps its place in the queue; any other goes  *)
(* back to matching.                                                       *)
Replace(x, price, qty) ==
  LET o == At(x)
      n == [o EXCEPT !.price = price, !.qty = qty]
      valid == qty # 0 /\ valid_price(price)
      keeps == price = o.price /\ qty <= o.qty
  IN /\ Idle
     /\ \/ qty = 0 /\ Refuse(o.session, o.id, "BadQty")
        \/ qty # 0 /\ ~ valid_price(price) /\ Refuse(o.session, o.id, "BadPrice")
        \/ valid /\ keeps /\ EndWith([queue EXCEPT ![x[1]][x[2]] = n], o.symbol, <<base("Replaced", n)>>)
        \/ /\ valid /\ ~ keeps
           /\ StartMatching(n, "Replaced")
           /\ queue' = [queue EXCEPT ![x[1]] = Without(@, x[2])]
------------------------------------------------------------------------------
(* The best opposite price, when the incoming order may trade there.       *)
CanTrade(o) ==
  LET px == BestOf(queue, o.symbol, opposite(o.side))
  IN /\ o.qty > 0
     /\ px # kNoPrice
     /\ o.type = "Limit" => crosses(o.side, o.price, px)

Trade ==
  /\ ~ Idle
  /\ CanTrade(taker[1])
  /\ LET o == taker[1]
         px == BestOf(queue, o.symbol, opposite(o.side))
         pl == <<o.symbol, opposite(o.side), px>>
         first == Head(queue[pl])
         q == Min({o.qty, first.qty})
         maker == [first EXCEPT !.qty = @ - q]
         rest == [o EXCEPT !.qty = @ - q]
     IN /\ queue' = [queue EXCEPT ![pl] = IF maker.qty = 0 THEN Tail(@) ELSE <<maker>> \o Tail(@)]
        /\ taker' = <<rest>>
        /\ out' = FillEvents(maker, rest, px, q)
        /\ UNCHANGED shown

Finish ==
  /\ ~ Idle
  /\ ~ CanTrade(taker[1])
  /\ LET o == taker[1]
     IN \/ o.qty = 0 /\ EndWith(queue, o.symbol, << >>)
        \/ /\ o.qty # 0 /\ (o.type = "Market" \/ o.tif = "IOC")
           /\ EndWith(queue, o.symbol, <<base("Cancelled", o)>>)
        \/ /\ o.qty # 0 /\ o.type = "Limit" /\ o.tif = "GTC"
           /\ EndWith([queue EXCEPT ![PlaceOf(o)] = Append(@, o)], o.symbol, << >>)
------------------------------------------------------------------------------
Next ==
  \/ Trade
  \/ Finish
  \/ AcceptNew
  \/ \E s \in Sessions, reason \in {"BadSymbol", "BadQty", "BadPrice", "BookFull"} : RefuseNew(s, reason)
  \/ \E c \in CancelCommands : NoTarget(c)
  \/ \E x \in Resting : Cancel(x) \/ \E price \in CmdPrices, qty \in CmdQtys : Replace(x, price, qty)

Spec == Init /\ [][Next]_vars
==============================================================================
