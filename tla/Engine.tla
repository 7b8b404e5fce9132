-------------------------------- MODULE Engine --------------------------------
(***************************************************************************)
(* The matching engine: OrderPool, Book and Engine (include/matchbox/      *)
(* order.hpp, book.hpp, engine.hpp, src/book.cpp, src/engine.cpp).         *)
(*                                                                         *)
(* The variable mem is everything those objects hold; the operators from   *)
(* alloc to match are their methods, as functions from mem to mem.  One    *)
(* call of Engine::process is one or more steps: a step per iteration of   *)
(* the matching loop, so that the events of one fill are one step's output.*)
(*                                                                         *)
(* Two fields of mem are history: `fifo' and `freeList' are the sequences  *)
(* that the intrusive links are meant to represent.  No action reads them. *)
(***************************************************************************)
EXTENDS Matching

VARIABLES
  mem,      \* the pool and the books, see MemType
  pc,       \* "idle" between two commands, "match" inside match_and_rest
  cur,      \* the slot of the order being matched, or kNull
  before,   \* the top of its book when process was entered
  out       \* the events of the last step

vars == <<mem, pc, cur, before, out>>

Levels == [head : Slots \cup {kNull}, tail : Slots \cup {kNull}, qty : Qty, count : 0 .. MaxOrders]

Books == Symbols \X Sides

MemType ==
  [order : [Slots -> Orders], live : [Slots -> BOOLEAN], gen : [Slots -> Gens],
   prev : [Slots -> Slots \cup {kNull}], next : [Slots -> Slots \cup {kNull}],
   freeHead : Slots \cup {kNull}, liveCount : 0 .. MaxOrders,
   level : [Places -> Levels], bits : [Books -> SUBSET Prices],
   best : [Books -> Prices \cup {kNoPrice}], resting : [Symbols -> 0 .. MaxOrders],
   fifo : [Places -> Seq(Slots)], freeList : Seq(Slots)]
------------------------------------------------------------------------------
(* OrderPool.                                                              *)

(* alloc() when the free list is not empty; the caller fills in the order. *)
alloc(m) ==
  LET i == m.freeHead
  IN [m EXCEPT !.freeHead = m.next[i], !.prev[i] = kNull, !.next[i] = kNull,
               !.live[i] = TRUE, !.liveCount = @ + 1, !.freeList = Tail(@)]

(* Fault: the generation wraps to 0, or stays.                             *)
next_gen_to_zero(g) == (g + 1) % GenMod
next_gen_same(g) == g

next_gen(g) == IF (g + 1) % GenMod # 0 THEN (g + 1) % GenMod ELSE 1

(* Fault: the slot is not put on the free list.                            *)
free_leaks(m, i) ==
  [m EXCEPT !.order[i] = [DefaultOrder EXCEPT !.id = m.order[i].id],
            !.live[i] = FALSE, !.gen[i] = next_gen(@), !.liveCount = @ - 1, !.freeList = <<i>> \o @]

(* Nobody reads the fields of a dead order; alloc's reset of them is done  *)
(* here, which leaves fewer states.                                        *)
free(m, i) ==
  [m EXCEPT !.order[i] = [DefaultOrder EXCEPT !.id = m.order[i].id],
            !.live[i] = FALSE, !.gen[i] = next_gen(@), !.next[i] = m.freeHead,
            !.freeHead = i, !.liveCount = @ - 1, !.freeList = <<i>> \o @]

(* The slot of the live order with this id, or kNull.                      *)
find(m, id) ==
  LET slot == id[2]
  IN IF slot \in Slots /\ m.live[slot] /\ m.order[slot].id = id THEN slot ELSE kNull
------------------------------------------------------------------------------
(* Book.                                                                   *)

(* The lowest price >= from, the highest price <= from, with its bit set   *)
(* (PriceBitmap has the bit-level scans).                                  *)
scan_up(bits, from) ==
  LET ps == {p \in bits : p >= from} IN IF ps = {} THEN kNoPrice ELSE Min(ps)

scan_down(bits, from) ==
  LET ps == {p \in bits : p <= from} IN IF ps = {} THEN kNoPrice ELSE Max(ps)

insert(m, i) ==
  LET o == m.order[i]
      pl == PlaceOf(o)
      bk == <<o.symbol, o.side>>
      lvl == m.level[pl]
      better == IF o.side = "Buy" THEN o.price > m.best[bk] ELSE o.price < m.best[bk]
      first == lvl.count + 1 = 1
  IN [m EXCEPT
        !.prev[i] = lvl.tail,
        !.next = IF lvl.tail # kNull THEN [@ EXCEPT ![i] = kNull, ![lvl.tail] = i] ELSE [@ EXCEPT ![i] = kNull],
        !.level[pl] = [head |-> IF lvl.tail # kNull THEN lvl.head ELSE i, tail |-> i,
                       qty |-> (lvl.qty + o.qty) % QtyMod, count |-> lvl.count + 1],
        !.resting[o.symbol] = @ + 1,
        !.bits[bk] = IF first THEN @ \cup {o.price} ELSE @,
        !.best[bk] = IF first /\ (@ = kNoPrice \/ better) THEN o.price ELSE @,
        !.fifo[pl] = Append(@, i)]

(* Fault: best_ stays on the emptied level.                                *)
level_emptied_stale(m, bk, p) == [m EXCEPT !.bits[bk] = @ \ {p}]

level_emptied(m, bk, p) ==
  LET bits == m.bits[bk] \ {p}
  IN [m EXCEPT
        !.bits[bk] = bits,
        !.best[bk] = IF @ # p THEN @
                     ELSE IF bk[2] = "Buy" THEN scan_down(bits, p - 1) ELSE scan_up(bits, p + 1)]

(* Fault: the neighbour keeps its link to the order.                       *)
relink_self_only(links, at, to, i) == [links EXCEPT ![i] = kNull]

(* The links of the neighbours, then the order's own.                      *)
relink(links, at, to, i) == [(IF at # kNull THEN [links EXCEPT ![at] = to] ELSE links) EXCEPT ![i] = kNull]

unlink(m, i) ==
  LET o == m.order[i]
      pl == PlaceOf(o)
      lvl == m.level[pl]
      p == m.prev[i]
      n == m.next[i]
      m1 == [m EXCEPT
               !.next = relink(@, p, n, i),
               !.prev = relink(@, n, p, i),
               !.level[pl] = [head |-> IF p # kNull THEN lvl.head ELSE n,
                              tail |-> IF n # kNull THEN lvl.tail ELSE p,
                              qty |-> (lvl.qty - o.qty) % QtyMod, count |-> lvl.count - 1],
               !.resting[o.symbol] = @ - 1,
               !.fifo[pl] = Without(@, CHOOSE k \in DOMAIN @ : @[k] = i)]
  IN IF lvl.count - 1 = 0 THEN level_emptied(m1, <<o.symbol, o.side>>, o.price) ELSE m1

reduce(m, i, newQty) ==
  [m EXCEPT !.level[PlaceOf(m.order[i])].qty = (@ - (m.order[i].qty - newQty)) % QtyMod,
            !.order[i].qty = newQty]

top(m, symbol) ==
  LET bid == m.best[<<symbol, "Buy">>]
      ask == m.best[<<symbol, "Sell">>]
      qtyAt(side, px) == IF px # kNoPrice THEN m.level[<<symbol, side, px>>].qty ELSE 0
  IN TopOfBook(bid, qtyAt("Buy", bid), ask, qtyAt("Sell", ask))

(* Fault: a market order is held to its price of 0.                        *)
may_match_priced(m, t) ==
  LET o == m.order[t]
      px == m.best[<<o.symbol, opposite(o.side)>>]
  IN o.qty > 0 /\ px # kNoPrice /\ crosses(o.side, o.price, px)

(* match(): whether its loop goes round again for the taker in slot t, and *)
(* what one round does to the maker at the head of the best level.  The    *)
(* code re-reads best_ only once a level is exhausted; until then best_ is *)
(* that level's price, so reading it every time finds the same maker.      *)
may_match(m, t) ==
  LET o == m.order[t]
      px == m.best[<<o.symbol, opposite(o.side)>>]
  IN /\ o.qty > 0
     /\ px # kNoPrice
     /\ ~ (o.type = "Limit" /\ ~ crosses(o.side, o.price, px))

best_level(m, t) ==
  LET o == m.order[t] IN <<o.symbol, opposite(o.side), m.best[<<o.symbol, opposite(o.side)>>]>>

match_one(m, t, i, q) ==
  LET m1 == [m EXCEPT !.order[i].qty = @ - q, !.order[t].qty = @ - q,
                      !.level[best_level(m, t)].qty = (@ - q) % QtyMod]
  IN IF m1.order[i].qty = 0 THEN unlink(m1, i) ELSE m1
------------------------------------------------------------------------------
(* Engine.                                                                 *)

Init ==
  /\ mem = [order |-> [i \in Slots |-> DefaultOrder], live |-> [i \in Slots |-> FALSE],
            gen |-> [i \in Slots |-> 1],
            prev |-> [i \in Slots |-> kNull],
            next |-> [i \in Slots |-> IF i + 1 < MaxOrders THEN i + 1 ELSE kNull],
            freeHead |-> 0, liveCount |-> 0,
            level |-> [pl \in Places |-> [head |-> kNull, tail |-> kNull, qty |-> 0, count |-> 0]],
            bits |-> [b \in Books |-> {}], best |-> [b \in Books |-> kNoPrice],
            resting |-> [s \in Symbols |-> 0],
            fifo |-> [pl \in Places |-> << >>], freeList |-> [k \in 1 .. MaxOrders |-> k - 1]]
  /\ pc = "idle" /\ cur = kNull
  /\ before = TopOfBook(kNoPrice, 0, kNoPrice, 0)
  /\ out = << >>

reject(c, reason) ==
  /\ out' = <<Rejected(c.session, c.order_id, reason)>>
  /\ UNCHANGED <<mem, pc, cur, before>>

(* The end of process: m is the memory, `top0' the top of the book before  *)
(* the command, and a Top event follows when it has changed.               *)
finish(m, symbol, top0, events) ==
  /\ mem' = m
  /\ pc' = "idle" /\ cur' = kNull
  /\ before' = TopOfBook(kNoPrice, 0, kNoPrice, 0)
  /\ out' = events \o (IF top(m, symbol) # top0 THEN <<TopEvent(symbol, top(m, symbol))>> ELSE << >>)

(* match_and_rest is entered with the order in slot i.                     *)
enter_match(m, i, event) ==
  /\ mem' = m
  /\ pc' = "match" /\ cur' = i
  /\ before' = top(mem, m.order[i].symbol)
  /\ out' = <<base(event, m.order[i])>>

(* process() of a New command: on_new up to match_and_rest.                *)
New(c) ==
  /\ pc = "idle"
  /\ \/ c.symbol \notin Symbols /\ reject(c, "BadSymbol")
     \/ /\ c.symbol \in Symbols
        /\ \/ c.qty = 0 /\ reject(c, "BadQty")
           \/ c.qty # 0 /\ c.type = "Limit" /\ ~ valid_price(c.price) /\ reject(c, "BadPrice")
           \/ /\ c.qty # 0 /\ ~ (c.type = "Limit" /\ ~ valid_price(c.price))
              /\ \/ mem.freeHead = kNull /\ reject(c, "BookFull")
                 \/ /\ mem.freeHead # kNull
                    /\ LET i == mem.freeHead
                           m == [alloc(mem) EXCEPT !.order[i] = NewOrder(c, <<mem.gen[i], i>>)]
                       IN enter_match(m, i, "Accepted")

(* Fault: someone else's order is reported as unknown.                     *)
no_target_unknown(c) ==
  LET i == find(mem, c.order_id)
  IN (i # kNull => mem.order[i].session # c.session) /\ reject(c, "UnknownOrder")

(* The checks process() makes of a Cancel or Replace before it dispatches. *)
no_target(c) ==
  LET i == find(mem, c.order_id)
  IN \/ i = kNull /\ reject(c, "UnknownOrder")
     \/ i # kNull /\ mem.order[i].session # c.session /\ reject(c, "NotOwner")

has_target(c) ==
  LET i == find(mem, c.order_id) IN i # kNull /\ mem.order[i].session = c.session

(* process() of a Cancel command: on_cancel.                               *)
Cancel(c) ==
  /\ pc = "idle"
  /\ \/ no_target(c)
     \/ /\ has_target(c)
        /\ LET i == find(mem, c.order_id)
               o == mem.order[i]
           IN finish(free(unlink(mem, i), i), o.symbol, top(mem, o.symbol), <<base("Cancelled", o)>>)

(* process() of a Replace command: on_replace up to match_and_rest.        *)
Replace(c) ==
  /\ pc = "idle"
  /\ \/ no_target(c)
     \/ /\ has_target(c)
        /\ LET i == find(mem, c.order_id)
               o == mem.order[i]
           IN \/ c.qty = 0 /\ reject(c, "BadQty")
              \/ c.qty # 0 /\ ~ valid_price(c.price) /\ reject(c, "BadPrice")
              \/ /\ c.qty # 0 /\ valid_price(c.price)
                 /\ c.price = o.price /\ c.qty <= o.qty
                 /\ LET m == reduce(mem, i, c.qty)
                    IN finish(m, o.symbol, top(mem, o.symbol), <<base("Replaced", m.order[i])>>)
              \/ /\ c.qty # 0 /\ valid_price(c.price)
                 /\ ~ (c.price = o.price /\ c.qty <= o.qty)
                 /\ LET m == [unlink(mem, i) EXCEPT !.order[i].price = c.price, !.order[i].qty = c.qty]
                    IN enter_match(m, i, "Replaced")

(* One round of match() with the on_fill callback of match_and_rest.       *)
Fill ==
  /\ pc = "match" /\ may_match(mem, cur)
  /\ LET i == mem.level[best_level(mem, cur)].head
     IN /\ i # kNull
        /\ LET q == Min({mem.order[cur].qty, mem.order[i].qty})
               m == match_one(mem, cur, i, q)
           IN /\ out' = FillEvents(m.order[i], m.order[cur], best_level(mem, cur)[3], q)
              /\ mem' = IF m.order[i].qty = 0 THEN free(m, i) ELSE m
  /\ UNCHANGED <<pc, cur, before>>

(* Fault: what is left of an IOC order is dropped without a word.          *)
Rest_silent ==
  /\ pc = "match" /\ ~ may_match(mem, cur)
  /\ LET o == mem.order[cur]
     IN IF o.qty = 0 \/ o.type = "Market" \/ o.tif = "IOC"
        THEN finish(free(mem, cur), o.symbol, before, << >>)
        ELSE finish(insert(mem, cur), o.symbol, before, << >>)

(* match() is over: the rest of match_and_rest and of process().           *)
Rest ==
  /\ pc = "match" /\ ~ may_match(mem, cur)
  /\ LET o == mem.order[cur]
     IN \/ o.qty = 0 /\ finish(free(mem, cur), o.symbol, before, << >>)
        \/ /\ o.qty # 0 /\ (o.type = "Market" \/ o.tif = "IOC")
           /\ finish(free(mem, cur), o.symbol, before, <<base("Cancelled", o)>>)
        \/ /\ o.qty # 0 /\ ~ (o.type = "Market" \/ o.tif = "IOC")
           /\ finish(insert(mem, cur), o.symbol, before, << >>)

Next ==
  \/ \E c \in NewCommands : New(c)
  \/ \E c \in CancelCommands : Cancel(c)
  \/ \E c \in ReplaceCommands : Replace(c)
  \/ Fill
  \/ Rest

Spec == Init /\ [][Next]_vars
------------------------------------------------------------------------------
(* Properties.                                                             *)

TypeOK ==
  /\ mem \in MemType
  /\ pc \in {"idle", "match"}
  /\ cur \in Slots \cup {kNull}

Line(f, k) == IF k \in DOMAIN f THEN f[k] ELSE kNull

(* Every level's intrusive list, walked in either direction, is its queue  *)
(* of orders, and holds only live orders of that symbol, side and price;   *)
(* its count is the length and its qty the sum of the quantities (mod      *)
(* 2^32).                                                                  *)
LevelsWellFormed ==
  \A pl \in Places :
    LET f == mem.fifo[pl]
        lvl == mem.level[pl]
    IN /\ lvl.head = Line(f, 1)
       /\ lvl.tail = Line(f, Len(f))
       /\ lvl.count = Len(f)
       /\ lvl.qty = Total([k \in DOMAIN f |-> mem.order[f[k]].qty]) % QtyMod
       /\ \A k \in DOMAIN f : /\ mem.prev[f[k]] = Line(f, k - 1)
                             /\ mem.next[f[k]] = Line(f, k + 1)
                             /\ mem.live[f[k]] /\ f[k] # cur
                             /\ PlaceOf(mem.order[f[k]]) = pl
                             /\ mem.order[f[k]].qty > 0
                             /\ mem.order[f[k]].type = "Limit" /\ mem.order[f[k]].tif = "GTC"
       /\ \A j, k \in DOMAIN f : f[j] = f[k] => j = k

(* The bitmap marks exactly the occupied levels and best_ is the highest   *)
(* bid or lowest ask among them, or kNoPrice, also in the middle of a      *)
(* match.                                                                  *)
BestWellFormed ==
  \A bk \in Books :
    /\ mem.bits[bk] = {p \in Prices : mem.fifo[<<bk[1], bk[2], p>>] # << >>}
    /\ mem.best[bk] = kNoPrice => mem.bits[bk] = {}
    /\ mem.best[bk] # kNoPrice =>
         /\ mem.best[bk] \in mem.bits[bk]
         /\ \A p \in mem.bits[bk] : IF bk[2] = "Buy" THEN p <= mem.best[bk] ELSE p >= mem.best[bk]

(* The free list is a chain through exactly the dead slots, and every live *)
(* slot is in some level or is the order being matched: nothing leaks out  *)
(* of the pool, and nothing rests in a book after it was freed.            *)
PoolWellFormed ==
  LET f == mem.freeList
      rests == UNION {Range(mem.fifo[pl]) : pl \in Places}
  IN /\ mem.freeHead = Line(f, 1)
     /\ \A k \in DOMAIN f : mem.next[f[k]] = Line(f, k + 1)
     /\ \A j, k \in DOMAIN f : f[j] = f[k] => j = k
     /\ Range(f) = {i \in Slots : ~ mem.live[i]}
     /\ {i \in Slots : mem.live[i]} = rests \cup (IF pc = "match" THEN {cur} ELSE {})
     /\ mem.liveCount = Cardinality({i \in Slots : mem.live[i]})
     /\ \A s \in Symbols : mem.resting[s] = Cardinality({i \in rests : mem.order[i].symbol = s})
     /\ \A i \in Slots : mem.live[i] => mem.order[i].id = <<mem.gen[i], i>>

(* Between two commands no bid is at or above an ask: whatever could trade *)
(* has traded.                                                             *)
NeverCrossed ==
  pc = "idle" =>
    \A s \in Symbols : LET bid == mem.best[<<s, "Buy">>]
                           ask == mem.best[<<s, "Sell">>]
                       IN bid # kNoPrice /\ ask # kNoPrice => bid < ask

(* A slot's new order never gets the id of the order that had the slot     *)
(* before it, so a cancel or replace that comes too late finds nothing.    *)
NewOccupantNewId ==
  [][\A i \in Slots : ~ mem.live[i] /\ mem'.live[i] => mem'.order[i].id # mem.order[i].id]_vars
==============================================================================
