------------------------------ MODULE OwnerView ------------------------------
(***************************************************************************)
(* Engine together with what the owners of orders can work out from the    *)
(* responses alone: a client keeps the open quantity of each of its        *)
(* orders, starts it at the acknowledgement, lowers it by each fill,       *)
(* overwrites it at a replace and drops it at a cancel.                    *)
(***************************************************************************)
EXTENDS Engine

VARIABLE known   \* known[id]: the open quantity by the responses; 0 = done

viewVars == <<mem, pc, cur, before, out, known>>

Learn(k, e) ==
  CASE e.kind \in {"Accepted", "Replaced"} -> [k EXCEPT ![e.order_id] = e.qty]
    [] e.kind = "Fill" -> [k EXCEPT ![e.order_id] = @ - e.qty]
    [] e.kind = "Cancelled" -> [k EXCEPT ![e.order_id] = @ - e.remaining]
    [] OTHER -> k

ViewInit == Init /\ known = [id \in OrderIds |-> 0]

LearnAll(k, events) ==
  LET after[n \in 0 .. Len(events)] == IF n = 0 THEN k ELSE Learn(after[n - 1], events[n])
  IN after[Len(events)]

ViewNext == Next /\ known' = LearnAll(known, out')

ViewSpec == ViewInit /\ [][ViewNext]_viewVars

(* Between two commands the responses have told every owner exactly which  *)
(* orders are open and what is left of each: no order is dropped, filled   *)
(* or cut down without an event, none is reported done and stays open, and *)
(* the quantities of fills, cancels and replaces add up.                   *)
OwnersKnowTheirOrders ==
  pc = "idle" =>
    \A id \in OrderIds :
      known[id] = IF find(mem, id) # kNull THEN mem.order[find(mem, id)].qty ELSE 0

(* The `remaining' a fill reports is what the responses so far add up to,  *)
(* for the maker and for the taker.                                        *)
RemainingAddsUp ==
  \A k \in DOMAIN out : out[k].kind = "Fill" => known[out[k].order_id] = out[k].remaining
==============================================================================
