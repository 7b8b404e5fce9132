------------------------------ MODULE SpscQueue ------------------------------
(***************************************************************************)
(* The wait-free single-producer single-consumer ring that carries         *)
(* Commands to the engine thread and Events back                           *)
(* (include/matchbox/spsc_queue.hpp), together with the way both threads   *)
(* use it: the producer repeats try_push until it succeeds                 *)
(* (Server::submit, EngineThread::on_event), the consumer polls try_pop    *)
(* (EngineThread::loop, Server::drain_engine).                             *)
(*                                                                         *)
(* head_ and tail_ are size_t counters that wrap; IndexMod stands for      *)
(* 2^64.  An acquire load of the other side's index may return an older    *)
(* value of it, but never one older than the value this side loaded        *)
(* before (coherence): `Loadable' is that set.  The copy of an element     *)
(* into or out of buf_ is not atomic: a thread is "copying" from the state *)
(* before its Copy step to the state after it.                             *)
(***************************************************************************)
EXTENDS Integers, Sequences

CONSTANTS
  Values,     \* the elements (Commands or Events), opaque to the queue
  Capacity,   \* buf_.size(), a power of two in the code
  Laps        \* how often the ring wraps before an index does: 2^64 / Capacity

ASSUME CapacityAssumption == Capacity \in Nat \ {0}
ASSUME LapsAssumption == Laps \in Nat /\ Laps >= 2
ASSUME ValuesAssumption == Values # {}

VARIABLES
  head, cachedTail,      \* head_ and cached_tail_, written by the consumer
  tail, cachedHead,      \* tail_ and cached_head_, written by the producer
  buf,                   \* buf_
  ppc, pval,             \* producer: where it is in try_push, and its argument
  cpc, cval,             \* consumer: where it is in try_pop, and `out'
  delivered              \* <<v>>, v the last element try_pop returned

prodVars == <<tail, cachedHead, buf, ppc, pval>>
consVars == <<head, cachedTail, cpc, cval, delivered>>
vars == <<head, cachedTail, tail, cachedHead, buf, ppc, pval, cpc, cval, delivered>>

IndexMod == Laps * Capacity
Index == 0 .. IndexMod - 1
Slots == 0 .. Capacity - 1

(* Unsigned arithmetic on indices: i + 1, i + k (k <= IndexMod) and b - a.  *)
Inc(i) == IF i + 1 = IndexMod THEN 0 ELSE i + 1
Plus(i, k) == IF i + k >= IndexMod THEN i + k - IndexMod ELSE i + k
Minus(b, a) == IF b >= a THEN b - a ELSE b - a + IndexMod

(* i & mask_ *)
SlotOf(i) == i % Capacity

(* The values an acquire load may return when the side loading has already *)
(* seen `seen' and the other side has since moved the index to `now'.       *)
Loadable(seen, now) == {i \in Index : Minus(i, seen) <= Minus(now, seen)}

SomeValue == CHOOSE v \in Values : TRUE

Init ==
  /\ head = 0 /\ cachedTail = 0
  /\ tail = 0 /\ cachedHead = 0
  /\ buf = [s \in Slots |-> SomeValue]
  /\ ppc = "idle" /\ pval = SomeValue
  /\ cpc = "check" /\ cval = SomeValue
  /\ delivered = << >>
------------------------------------------------------------------------------
(* The producer.                                                           *)

(* submit / on_event is called with v.                                     *)
Call(v) ==
  /\ ppc = "idle"
  /\ pval' = v
  /\ ppc' = "check"
  /\ UNCHANGED <<tail, cachedHead, buf, consVars>>

(* Fault: the ring is taken for full one element too late.                 *)
PushCheck_late ==
  /\ ppc = "check"
  /\ ppc' = IF Minus(tail, cachedHead) > Capacity THEN "reload" ELSE "copy"
  /\ UNCHANGED <<tail, cachedHead, buf, pval, consVars>>

(* The first fullness test of try_push, against the cached head.           *)
PushCheck ==
  /\ ppc = "check"
  /\ ppc' = IF Minus(tail, cachedHead) >= Capacity THEN "reload" ELSE "copy"
  /\ UNCHANGED <<tail, cachedHead, buf, pval, consVars>>

(* Fault: the loaded head is not kept.                                     *)
PushReloadAs_lost(h) ==
  /\ ppc = "reload" /\ h \in Index
  /\ ppc' = IF Minus(tail, cachedHead) >= Capacity THEN "check" ELSE "copy"
  /\ UNCHANGED <<tail, cachedHead, buf, pval, consVars>>

(* cached_head_ = head_.load(acquire) and the second test; when the ring   *)
(* still looks full try_push returns false and the caller tries again.     *)
PushReloadAs(h) ==
  /\ ppc = "reload"
  /\ cachedHead' = h
  /\ ppc' = IF Minus(tail, h) >= Capacity THEN "check" ELSE "copy"
  /\ UNCHANGED <<tail, buf, pval, consVars>>

PushReload == \E h \in Loadable(cachedHead, head) : PushReloadAs(h)

(* Fault: the element goes into the slot after its own.                    *)
PushCopy_next ==
  /\ ppc = "copy"
  /\ buf' = [buf EXCEPT ![SlotOf(Inc(tail))] = pval]
  /\ ppc' = "publish"
  /\ UNCHANGED <<tail, cachedHead, pval, consVars>>

(* buf_[t & mask_] = v *)
PushCopy ==
  /\ ppc = "copy"
  /\ buf' = [buf EXCEPT ![SlotOf(tail)] = pval]
  /\ ppc' = "publish"
  /\ UNCHANGED <<tail, cachedHead, pval, consVars>>

(* tail_.store(t + 1, release) *)
PushPublish ==
  /\ ppc = "publish"
  /\ tail' = Inc(tail)
  /\ ppc' = "idle"
  /\ UNCHANGED <<cachedHead, buf, pval, consVars>>
------------------------------------------------------------------------------
(* The consumer.                                                           *)

(* The first emptiness test of try_pop, against the cached tail.           *)
PopCheck ==
  /\ cpc = "check"
  /\ cpc' = IF head = cachedTail THEN "reload" ELSE "copy"
  /\ UNCHANGED <<head, cachedTail, cval, delivered, prodVars>>

(* Fault: no second test: try_pop goes on with an empty ring.              *)
PopReloadAs_untested(t) ==
  /\ cpc = "reload"
  /\ cachedTail' = t
  /\ cpc' = "copy"
  /\ UNCHANGED <<head, cval, delivered, prodVars>>

(* Fault: the loaded tail is not kept.                                     *)
PopReloadAs_lost(t) ==
  /\ cpc = "reload" /\ t \in Index
  /\ cpc' = IF head = cachedTail THEN "check" ELSE "copy"
  /\ UNCHANGED <<head, cachedTail, cval, delivered, prodVars>>

(* cached_tail_ = tail_.load(acquire) and the second test; when the ring   *)
(* still looks empty try_pop returns false and the caller polls again.     *)
PopReloadAs(t) ==
  /\ cpc = "reload"
  /\ cachedTail' = t
  /\ cpc' = IF head = t THEN "check" ELSE "copy"
  /\ UNCHANGED <<head, cval, delivered, prodVars>>

PopReload == \E t \in Loadable(cachedTail, tail) : PopReloadAs(t)

(* out = buf_[h & mask_] *)
PopCopy ==
  /\ cpc = "copy"
  /\ cval' = buf[SlotOf(head)]
  /\ cpc' = "publish"
  /\ UNCHANGED <<head, cachedTail, delivered, prodVars>>

(* head_.store(h + 1, release); return true *)
PopPublish ==
  /\ cpc = "publish"
  /\ head' = Inc(head)
  /\ delivered' = << cval >>
  /\ cpc' = "check"
  /\ UNCHANGED <<cachedTail, cval, prodVars>>
------------------------------------------------------------------------------
Producer == (\E v \in Values : Call(v)) \/ PushCheck \/ PushReload \/ PushCopy \/ PushPublish
Consumer == PopCheck \/ PopReload \/ PopCopy \/ PopPublish

Next == Producer \/ Consumer

Spec == Init /\ [][Next]_vars

(* Both threads keep running, and a store becomes visible to the other     *)
(* thread after finitely many loads.  Nobody has to call submit.           *)
Fairness ==
  /\ WF_vars(PushCheck) /\ WF_vars(PushCopy) /\ WF_vars(PushPublish)
  /\ WF_vars(PopCheck) /\ WF_vars(PopCopy) /\ WF_vars(PopPublish)
  /\ WF_vars(PushReload) /\ WF_vars(PopReload)
  /\ SF_vars(PushReloadAs(head)) /\ SF_vars(PopReloadAs(tail))

FairSpec == Spec /\ Fairness
------------------------------------------------------------------------------
TypeOK ==
  /\ head \in Index /\ cachedTail \in Index
  /\ tail \in Index /\ cachedHead \in Index
  /\ buf \in [Slots -> Values]
  /\ ppc \in {"idle", "check", "reload", "copy", "publish"} /\ pval \in Values
  /\ cpc \in {"check", "reload", "copy", "publish"} /\ cval \in Values
  /\ delivered = << >> \/ delivered \in {<<v>> : v \in Values}

(* The two threads never touch one element of buf_ at the same time, so    *)
(* the unsynchronised copies in try_push and try_pop are no data race.     *)
NoRace == ~ (ppc = "copy" /\ cpc = "copy" /\ SlotOf(tail) = SlotOf(head))

(* The elements between head_ and tail_, oldest first.                     *)
Contents == [k \in 1 .. Minus(tail, head) |-> buf[SlotOf(Plus(head, k - 1))]]

Fifo == INSTANCE BoundedFifo WITH queue <- Contents, delivered <- delivered

(* The ring behaves as a bounded first-in first-out queue: nothing is      *)
(* lost, repeated, reordered or overwritten before it was read, and never  *)
(* more than Capacity elements are in it.                                  *)
ImplementsFifo == Fifo!Spec

(* A caller that spins on try_push gets its element in.                    *)
PushCompletes == (ppc # "idle") ~> (ppc = "idle")

(* An element that was published is taken out by the polling consumer.     *)
PopDelivers == \A i \in Index : (head = i /\ tail # i) ~> (head # i)

(* The inductive invariant behind NoRace and ImplementsFifo: seen from     *)
(* either side, cachedHead, head, cachedTail and tail follow each other in *)
(* this order within one lap of the ring, a producer that copies has room  *)
(* for its element, a consumer that copies has an element to take, and     *)
(* what it copied is still what the slot holds.                            *)
IndexOrder ==
  /\ Minus(tail, cachedHead) <= Capacity
  /\ Minus(head, cachedHead) <= Minus(tail, cachedHead)
  /\ Minus(cachedTail, head) <= Minus(tail, head)

ProducerHasRoom == ppc \in {"copy", "publish"} => Minus(tail, cachedHead) < Capacity

ConsumerHasElement ==
  /\ cpc \in {"copy", "publish"} => head # cachedTail
  /\ cpc = "publish" => cval = buf[SlotOf(head)]

ProducerWrote == ppc = "publish" => buf[SlotOf(tail)] = pval

IInv == TypeOK /\ IndexOrder /\ ProducerHasRoom /\ ConsumerHasElement /\ ProducerWrote
==============================================================================
