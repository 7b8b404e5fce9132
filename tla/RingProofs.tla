------------------------------ MODULE RingProofs ------------------------------
(***************************************************************************)
(* Proofs about the lock-free ring and about the two threads that talk     *)
(* over a pair of them.                                                    *)
(*                                                                         *)
(* For every Capacity and every index width that is a multiple of it, the  *)
(* ring of SpscQueue keeps its indices in order, has no data race on an    *)
(* element, and implements BoundedFifo.  For every ring size, batch size   *)
(* and number of events, the threads of Pipeline wait for each other only  *)
(* after a burst.                                                          *)
(***************************************************************************)
EXTENDS SpscQueue, Pipeline, TLAPS

(* A multiple of Capacity is never strictly between 0 and Capacity.        *)
LEMMA NoMultipleBetween ==
  ASSUME NEW n \in Int, Capacity * n > 0
  PROVE  Capacity * n >= Capacity
<1>1. CASE n <= 0
  BY <1>1, CapacityAssumption, SMT
<1>2. CASE n >= 1
  BY <1>2, CapacityAssumption, SMT
<1> QED BY <1>1, <1>2

(* i & mask_ is an index of buf_.                                          *)
LEMMA SlotOfType ==
  ASSUME NEW i \in Int
  PROVE  SlotOf(i) \in Slots
BY CapacityAssumption DEF SlotOf, Slots

LEMMA SlotOfQuotient ==
  ASSUME NEW i \in Int
  PROVE  \E q \in Int : i = Capacity * q + SlotOf(i)
<1>1. i \div Capacity \in Int
  BY CapacityAssumption
<1>2. i = Capacity * (i \div Capacity) + (i % Capacity)
  BY CapacityAssumption
<1> QED BY <1>1, <1>2 DEF SlotOf

LEMMA IndexModType == IndexMod \in Nat /\ IndexMod >= 2 * Capacity
BY CapacityAssumption, LapsAssumption DEF IndexMod

(* Two indices less than a lap apart use different slots.                  *)
LEMMA SlotsDiffer ==
  ASSUME NEW a \in Index, NEW b \in Index, a # b, Minus(b, a) < Capacity
  PROVE  SlotOf(a) # SlotOf(b)
<1> SUFFICES ASSUME SlotOf(a) = SlotOf(b) PROVE FALSE
  OBVIOUS
<1>t. a \in Int /\ b \in Int /\ SlotOf(a) \in Int /\ Capacity \in Int /\ Laps \in Int
  BY SlotOfType, CapacityAssumption, LapsAssumption, IndexModType DEF Index, Slots
<1>1. PICK p \in Int : a = Capacity * p + SlotOf(a)
  BY <1>t, SlotOfQuotient
<1>2. PICK q \in Int : b = Capacity * q + SlotOf(a)
  BY <1>t, SlotOfQuotient
<1>3. b - a = Capacity * (q - p)
  BY <1>1, <1>2, <1>t
<1>4. CASE b >= a
  <2>1. b - a > 0 /\ b - a < Capacity
    BY <1>4, <1>t DEF Minus
  <2>2. Capacity * (q - p) > 0 /\ q - p \in Int
    BY <2>1, <1>3
  <2>3. Capacity * (q - p) >= Capacity
    BY <2>2, NoMultipleBetween
  <2> QED BY <2>1, <2>3, <1>3, <1>t
<1>5. CASE b < a
  <2>1. b - a + IndexMod = Capacity * ((q - p) + Laps)
    BY <1>3, <1>t DEF IndexMod
  <2>2. b - a + IndexMod < Capacity
    BY <1>5, <1>t DEF Minus
  <2>3. b - a + IndexMod > 0
    BY <1>5, <1>t, IndexModType DEF Index
  <2>4. (q - p) + Laps \in Int
    BY <1>t
  <2>5. Capacity * ((q - p) + Laps) >= Capacity
    BY <2>1, <2>3, <2>4, NoMultipleBetween
  <2> QED BY <2>1, <2>2, <2>5, <1>t, IndexModType
<1> QED BY <1>4, <1>5, <1>t
------------------------------------------------------------------------------
(* What IInv says of the elements in flight: the producer's next slot is    *)
(* none of theirs, and the consumer only copies when there is one.          *)
LEMMA Distances ==
  ASSUME IInv
  PROVE  /\ Minus(tail, head) \in 0 .. Capacity
         /\ ppc \in {"copy", "publish"} => Minus(tail, head) < Capacity
         /\ cpc \in {"copy", "publish"} => head # tail
<1>1. Minus(tail, head) = Minus(tail, cachedHead) - Minus(head, cachedHead)
  BY IndexModType DEF IInv, TypeOK, IndexOrder, Minus, Index
<1>2. Minus(head, cachedHead) \in Nat /\ Minus(tail, cachedHead) \in Nat
  BY IndexModType DEF IInv, TypeOK, Minus, Index
<1>3. head = tail => cachedTail = head
  BY IndexModType DEF IInv, TypeOK, IndexOrder, Minus, Index
<1> QED BY <1>1, <1>2, <1>3, CapacityAssumption
        DEF IInv, IndexOrder, ProducerHasRoom, ConsumerHasElement

LEMMA InitIInv == Init => IInv
<1> SUFFICES ASSUME Init PROVE IInv
  OBVIOUS
<1>1. SomeValue \in Values
  BY ValuesAssumption DEF SomeValue
<1>2. 0 \in Index /\ Minus(0, 0) = 0
  BY IndexModType, CapacityAssumption DEF Index, Minus
<1> QED BY <1>1, <1>2, CapacityAssumption
        DEF Init, IInv, TypeOK, IndexOrder, ProducerHasRoom, ConsumerHasElement, ProducerWrote

(* Every step of either thread keeps the invariant.                        *)
LEMMA NextIInv == IInv /\ [Next]_vars => IInv'
<1> SUFFICES ASSUME IInv, [Next]_vars PROVE IInv'
  OBVIOUS
<1> USE DEF IInv
<1>1. ASSUME NEW v \in Values, Call(v) PROVE IInv'
  BY <1>1 DEF Call, consVars, TypeOK, IndexOrder, ProducerHasRoom, ConsumerHasElement, ProducerWrote
<1>2. CASE PushCheck
  <2>1. Minus(tail, cachedHead) \in Int
    BY IndexModType DEF TypeOK, Minus, Index
  <2> QED BY <1>2, <2>1, CapacityAssumption DEF PushCheck, consVars, TypeOK, IndexOrder,
             ProducerHasRoom, ConsumerHasElement, ProducerWrote
<1>3. CASE PushReload
  <2>1. PICK h \in Loadable(cachedHead, head) : PushReloadAs(h)
    BY <1>3 DEF PushReload
  <2>2. h \in Index /\ Minus(tail, h) \in Int
    BY <2>1, IndexModType DEF Loadable, TypeOK, Minus, Index
  <2>3. TypeOK'
    BY <2>1, <2>2 DEF PushReloadAs, consVars, TypeOK
  <2>4. IndexOrder'
    BY <2>1, <2>2, IndexModType, CapacityAssumption
       DEF PushReloadAs, consVars, TypeOK, IndexOrder, Loadable, Minus, Index
  <2>5. ProducerHasRoom'
    BY <2>1, <2>2, CapacityAssumption DEF PushReloadAs, consVars, ProducerHasRoom, Minus
  <2> QED BY <2>1, <2>3, <2>4, <2>5 DEF PushReloadAs, consVars, ConsumerHasElement, ProducerWrote
<1>4. CASE PushCopy
  <2>1. SlotOf(tail) \in Slots
    BY SlotOfType DEF TypeOK, Index
  <2>2. cpc = "publish" => SlotOf(head) # SlotOf(tail)
    BY <1>4, Distances, SlotsDiffer DEF PushCopy, TypeOK
  <2>3. TypeOK'
    BY <1>4, <2>1 DEF PushCopy, consVars, TypeOK
  <2>4. ConsumerHasElement'
    BY <1>4, <2>2 DEF PushCopy, consVars, TypeOK, ConsumerHasElement
  <2> QED BY <1>4, <2>1, <2>3, <2>4
          DEF PushCopy, consVars, TypeOK, IndexOrder, ProducerHasRoom, ProducerWrote
<1>5. CASE PushPublish
  <2>1. TypeOK'
    BY <1>5, IndexModType, CapacityAssumption DEF PushPublish, consVars, TypeOK, Inc, Index
  <2>2. IndexOrder'
    BY <1>5, IndexModType, CapacityAssumption
       DEF PushPublish, consVars, TypeOK, IndexOrder, ProducerHasRoom, Inc, Minus, Index
  <2> QED BY <1>5, <2>1, <2>2
          DEF PushPublish, consVars, ProducerHasRoom, ConsumerHasElement, ProducerWrote
<1>6. CASE PopCheck
  BY <1>6 DEF PopCheck, prodVars, TypeOK, IndexOrder, ProducerHasRoom, ConsumerHasElement, ProducerWrote
<1>7. CASE PopReload
  <2>1. PICK t \in Loadable(cachedTail, tail) : PopReloadAs(t)
    BY <1>7 DEF PopReload
  <2>2. TypeOK'
    BY <2>1 DEF PopReloadAs, prodVars, TypeOK, Loadable
  <2>3. IndexOrder'
    BY <2>1, IndexModType, CapacityAssumption
       DEF PopReloadAs, prodVars, TypeOK, IndexOrder, Loadable, Minus, Index
  <2> QED BY <2>1, <2>2, <2>3
          DEF PopReloadAs, prodVars, ProducerHasRoom, ConsumerHasElement, ProducerWrote
<1>8. CASE PopCopy
  <2>1. SlotOf(head) \in Slots
    BY SlotOfType DEF TypeOK, Index
  <2> QED BY <1>8, <2>1 DEF PopCopy, prodVars, TypeOK, IndexOrder, ProducerHasRoom,
             ConsumerHasElement, ProducerWrote
<1>9. CASE PopPublish
  <2>1. TypeOK'
    BY <1>9, IndexModType, CapacityAssumption DEF PopPublish, prodVars, TypeOK, Inc, Index
  <2>2. head # cachedTail
    BY <1>9 DEF PopPublish, ConsumerHasElement
  <2>3. IndexOrder'
    BY <1>9, <2>2, IndexModType, CapacityAssumption
       DEF PopPublish, prodVars, TypeOK, IndexOrder, Inc, Minus, Index
  <2> QED BY <1>9, <2>1, <2>3
          DEF PopPublish, prodVars, ProducerHasRoom, ConsumerHasElement, ProducerWrote
<1>10. CASE UNCHANGED vars
  BY <1>10 DEF vars, TypeOK, IndexOrder, ProducerHasRoom, ConsumerHasElement, ProducerWrote
<1> QED BY <1>1, <1>2, <1>3, <1>4, <1>5, <1>6, <1>7, <1>8, <1>9, <1>10
        DEF Next, Producer, Consumer

(* The indices stay in order in every reachable state.                     *)
THEOREM InductiveInvariant == Spec => []IInv
<1> QED BY InitIInv, NextIInv, PTL DEF Spec

(* No reachable state has both threads copying the same element of buf_.   *)
THEOREM RaceFreedom == Spec => []NoRace
<1>1. IInv => NoRace
  <2> SUFFICES ASSUME IInv, ppc = "copy", cpc = "copy" PROVE SlotOf(tail) # SlotOf(head)
    BY DEF NoRace
  <2>1. head # tail /\ Minus(tail, head) < Capacity
    BY Distances
  <2> QED BY <2>1, SlotsDiffer DEF IInv, TypeOK
<1> QED BY <1>1, InductiveInvariant, PTL
------------------------------------------------------------------------------
(* Refinement.                                                             *)

(* Contents is a sequence of the length head_ and tail_ say.               *)
LEMMA ContentsType ==
  IInv => Contents \in Seq(Values) /\ Len(Contents) = Minus(tail, head)
<1> SUFFICES ASSUME IInv PROVE Contents \in Seq(Values) /\ Len(Contents) = Minus(tail, head)
  OBVIOUS
<1>1. Minus(tail, head) \in Nat
  BY Distances, CapacityAssumption
<1>2. ASSUME NEW k \in 1 .. Minus(tail, head)
      PROVE  buf[SlotOf(Plus(head, k - 1))] \in Values
  <2>1. Plus(head, k - 1) \in Int
    BY <1>1, IndexModType DEF IInv, TypeOK, Plus, Index
  <2> QED BY <2>1, SlotOfType DEF IInv, TypeOK
<1> QED BY <1>1, <1>2 DEF Contents

(* Writing the producer's next slot leaves the elements in flight alone.   *)
LEMMA CopyKeepsContents ==
  ASSUME IInv, PushCopy
  PROVE  Contents' = Contents
<1>1. Minus(tail, head) \in Nat /\ Minus(tail, head) < Capacity
  BY Distances, CapacityAssumption DEF PushCopy
<1>2. ASSUME NEW k \in 1 .. Minus(tail, head)
      PROVE  buf'[SlotOf(Plus(head, k - 1))] = buf[SlotOf(Plus(head, k - 1))]
  <2> DEFINE i == Plus(head, k - 1)
  <2>1. i \in Index /\ i # tail /\ Minus(tail, i) < Capacity
    BY <1>1, IndexModType, CapacityAssumption DEF IInv, TypeOK, Plus, Minus, Index
  <2>2. SlotOf(i) # SlotOf(tail)
    BY <2>1, SlotsDiffer DEF IInv, TypeOK
  <2>3. SlotOf(i) \in Slots /\ SlotOf(tail) \in Slots
    BY <2>1, SlotOfType DEF IInv, TypeOK, Index
  <2> QED BY <2>2, <2>3 DEF PushCopy, IInv, TypeOK
<1>3. head' = head /\ tail' = tail
  BY DEF PushCopy, consVars
<1> QED BY <1>2, <1>3 DEF Contents

(* Publishing tail_ + 1 appends the copied element.                        *)
LEMMA PublishPushes ==
  ASSUME IInv, IInv', PushPublish
  PROVE  Fifo!Push(pval)
<1>1. Minus(tail, head) \in Nat /\ Minus(tail, head) < Capacity
  BY Distances, CapacityAssumption DEF PushPublish
<1>2. head' = head /\ buf' = buf /\ delivered' = delivered /\ tail' = Inc(tail)
  BY DEF PushPublish, consVars
<1>3. Minus(tail, head)' = Minus(tail, head) + 1
  BY <1>1, <1>2, IndexModType, CapacityAssumption DEF IInv, TypeOK, Minus, Inc, Index
<1>4. Plus(head, Minus(tail, head)) = tail
  BY IndexModType DEF IInv, TypeOK, Minus, Plus, Index
<1>5. buf[SlotOf(tail)] = pval
  BY DEF IInv, ProducerWrote, PushPublish
<1>6. \A k \in 1 .. Minus(tail, head) : Contents'[k] = Contents[k]
  BY <1>1, <1>2, <1>3 DEF Contents
<1>7. Contents'[Minus(tail, head) + 1] = pval
  BY <1>1, <1>2, <1>3, <1>4, <1>5 DEF Contents
<1>8. Contents' \in Seq(Values) /\ Len(Contents') = Minus(tail, head) + 1
  <2>1. (Contents \in Seq(Values) /\ Len(Contents) = Minus(tail, head))'
    BY ContentsType, PTL
  <2> QED BY <2>1, <1>3
<1>9. Contents' = Append(Contents, pval)
  BY <1>1, <1>6, <1>7, <1>8, ContentsType DEF IInv, TypeOK
<1> QED BY <1>1, <1>2, <1>9, ContentsType DEF Fifo!Push

(* Publishing head_ + 1 removes the oldest element, which is the one       *)
(* try_pop returns.                                                        *)
LEMMA PublishPops ==
  ASSUME IInv, IInv', PopPublish
  PROVE  Fifo!Pop
<1>1. Minus(tail, head) \in Nat /\ head # tail
  BY Distances, CapacityAssumption DEF PopPublish
<1>2. tail' = tail /\ buf' = buf /\ head' = Inc(head) /\ delivered' = <<cval>>
  BY DEF PopPublish, prodVars
<1>3. Minus(tail, head)' = Minus(tail, head) - 1 /\ Minus(tail, head) >= 1
  BY <1>1, <1>2, IndexModType, CapacityAssumption DEF IInv, TypeOK, Minus, Inc, Index
<1>4. \A k \in 1 .. Minus(tail, head) - 1 : Plus(Inc(head), k - 1) = Plus(head, k)
  BY <1>1, IndexModType, CapacityAssumption DEF IInv, TypeOK, Minus, Plus, Inc, Index
<1>5. \A k \in 1 .. Minus(tail, head) - 1 : Contents'[k] = Contents[k + 1]
  BY <1>1, <1>2, <1>3, <1>4 DEF Contents
<1>6. Contents[1] = cval
  <2>1. Plus(head, 0) = head
    BY IndexModType DEF IInv, TypeOK, Plus, Index
  <2> QED BY <2>1, <1>1, <1>3 DEF Contents, IInv, ConsumerHasElement, PopPublish
<1>7. Contents' \in Seq(Values) /\ Len(Contents') = Minus(tail, head) - 1
  <2>1. (Contents \in Seq(Values) /\ Len(Contents) = Minus(tail, head))'
    BY ContentsType, PTL
  <2> QED BY <2>1, <1>3
<1>8. Contents' = Tail(Contents)
  BY <1>1, <1>3, <1>5, <1>7, ContentsType
<1>9. Contents # << >> /\ Head(Contents) = cval
  BY <1>1, <1>3, <1>6, ContentsType
<1> QED BY <1>2, <1>8, <1>9 DEF Fifo!Pop

(* The ring of spsc_queue.hpp implements the bounded queue its users       *)
(* rely on, whatever the capacity and whatever the acquire loads return.   *)
THEOREM Refinement == Spec => ImplementsFifo
<1>1. Init => Fifo!Init
  <2> SUFFICES ASSUME Init PROVE Fifo!Init
    OBVIOUS
  <2>1. Minus(tail, head) = 0
    BY DEF Init, Minus
  <2>2. Contents = << >>
    BY <2>1 DEF Contents
  <2> QED BY <2>2 DEF Init, Fifo!Init
<1>2. IInv /\ IInv' /\ [Next]_vars => [Fifo!Next]_(Fifo!vars)
  <2> SUFFICES ASSUME IInv, IInv', [Next]_vars PROVE [Fifo!Next]_(Fifo!vars)
    OBVIOUS
  <2> DEFINE Stutter == Contents' = Contents /\ delivered' = delivered
  <2>1. Stutter => UNCHANGED Fifo!vars
    BY DEF Fifo!vars
  <2>2. ASSUME head' = head, tail' = tail, buf' = buf, delivered' = delivered PROVE Stutter
    BY <2>2 DEF Contents
  <2>3. ASSUME NEW v \in Values, Call(v) PROVE Stutter
    BY <2>3, <2>2 DEF Call, consVars
  <2>4. CASE PushCheck
    BY <2>4, <2>1, <2>2 DEF PushCheck, consVars
  <2>5. CASE PushReload
    BY <2>5, <2>1, <2>2 DEF PushReload, PushReloadAs, consVars
  <2>6. CASE PushCopy
    BY <2>6, <2>1, CopyKeepsContents DEF PushCopy, consVars
  <2>7. CASE PushPublish
    BY <2>7, PublishPushes DEF Fifo!Next, IInv, TypeOK
  <2>8. CASE PopCheck
    BY <2>8, <2>1, <2>2 DEF PopCheck, prodVars
  <2>9. CASE PopReload
    BY <2>9, <2>1, <2>2 DEF PopReload, PopReloadAs, prodVars
  <2>10. CASE PopCopy
    BY <2>10, <2>1, <2>2 DEF PopCopy, prodVars
  <2>11. CASE PopPublish
    BY <2>11, PublishPops DEF Fifo!Next
  <2>12. CASE UNCHANGED vars
    BY <2>12, <2>1, <2>2 DEF vars
  <2> HIDE DEF Stutter
  <2> QED BY <2>1, <2>3, <2>4, <2>5, <2>6, <2>7, <2>8, <2>9, <2>10, <2>11, <2>12
          DEF Next, Producer, Consumer
<1> QED BY <1>1, <1>2, InductiveInvariant, PTL DEF Spec, ImplementsFifo, Fifo!Spec
------------------------------------------------------------------------------
(* Pipeline.  The products with MaxEvents are kept behind names, M(k), and *)
(* only what they do at k + 1 and k - 1 is used.                           *)
M(k) == MaxEvents * k

(* MaxEvents times a number grows by MaxEvents with it.                    *)
LEMMA Products ==
  ASSUME NEW k \in Nat
  PROVE  /\ M(k) \in Nat
         /\ M(k + 1) = M(k) + MaxEvents
         /\ k > 0 => M(k - 1) = M(k) - MaxEvents
         /\ M(0) = 0
         /\ \A j \in Nat : k <= j => M(k) <= M(j)
BY PipelineAssumption DEF M

(* The inductive invariant holds at the start.                             *)
LEMMA InitPipelineInv == PipelineInit => PipelineInv
<1> SUFFICES ASSUME PipelineInit PROVE PipelineInv OBVIOUS
<1>1. PipelineTypeOK
  <2>1. 0 \in 0 .. InboxCap /\ 0 \in 0 .. OutboxCap /\ 0 \in 0 .. Batch /\ 0 \in 0 .. MaxEvents
    BY PipelineAssumption DEF OutboxCap
  <2> QED BY <2>1, Zenon DEF PipelineInit, PipelineTypeOK
<1>2. M(0) = 0 /\ M(InboxCap + 1) \in Nat
  BY PipelineAssumption, Products
<1>3. outbox + events + M(inbox) <= M(InboxCap + 1)
  <2> HIDE DEF M
  <2> QED BY <1>2 DEF PipelineInit
<1> QED BY <1>1, <1>3 DEF PipelineInit, PipelineInv, WorkFits, Work, M

(* Every step of either thread keeps it: an event sent moves from `events' *)
(* to the outbox, a command taken turns one inbox element into at most     *)
(* MaxEvents events, a submit adds one command that this round accounts    *)
(* for, and a round only begins after the outbox was seen empty.           *)
LEMMA NextPipelineInv == PipelineInv /\ [PipelineNext]_pipelineVars => PipelineInv'
<1> SUFFICES ASSUME PipelineInv, [PipelineNext]_pipelineVars PROVE PipelineInv' OBVIOUS
<1>0. /\ InboxCap \in Nat /\ OutboxCap \in Nat /\ Batch \in Nat /\ MaxEvents \in Nat
      /\ inbox \in Nat /\ frames \in Nat /\ round \in Nat /\ outbox \in Nat /\ events \in Nat
      /\ inbox <= InboxCap /\ events <= MaxEvents /\ frames <= round /\ round - frames \in Nat
  BY PipelineAssumption DEF PipelineInv, PipelineTypeOK, WorkFits, OutboxCap
<1>a. /\ M(inbox) \in Nat /\ M(round - frames) \in Nat
      /\ M(InboxCap + 1) = M(InboxCap) + MaxEvents /\ M(InboxCap) \in Nat
      /\ M(inbox + 1) = M(inbox) + MaxEvents
      /\ inbox > 0 => M(inbox - 1) = M(inbox) - MaxEvents
      /\ M((round - frames) + 1) = M(round - frames) + MaxEvents
      /\ M(0) = 0
      /\ M(inbox) <= M(InboxCap)
  BY <1>0, Products
<1>b. /\ gpc \in {"poll", "stopped"} => outbox + events + M(inbox) <= M(InboxCap + 1)
      /\ gpc \in {"submit", "drain"} => outbox + events + M(inbox) <= M(InboxCap + 1) + M(round - frames)
      /\ gpc # "submit" => frames = 0
      /\ epc # "emit" => events = 0
  BY DEF PipelineInv, WorkFits, Work, M
<1>c. PipelineTypeOK BY DEF PipelineInv
<1> DEFINE Fits ==
      /\ gpc' \in {"poll", "stopped"} => outbox' + events' + M(inbox') <= M(InboxCap + 1)
      /\ gpc' \in {"submit", "drain"} => outbox' + events' + M(inbox') <= M(InboxCap + 1) + M(round' - frames')
      /\ frames' <= round'
      /\ gpc' # "submit" => frames' = 0
      /\ epc' # "emit" => events' = 0
<1>1. SUFFICES PipelineTypeOK' /\ Fits
  BY DEF PipelineInv, WorkFits, Work, M
<1> HIDE DEF M
<1>2. ASSUME NEW n \in 0 .. Batch, Poll(n) PROVE PipelineTypeOK' /\ Fits
  <2>1. n \in Nat /\ n - n = 0
    OBVIOUS
  <2>2. round' - frames' = 0
    BY <1>2, <2>1 DEF Poll
  <2> QED
    BY <1>0, <1>a, <1>b, <1>c, <1>2, <2>2 DEF Poll, PipelineTypeOK, engineVars
<1>3. CASE Return
  BY <1>0, <1>a, <1>b, <1>c, <1>3 DEF Return, PipelineTypeOK, engineVars
<1>4. CASE Submit
  <2>1. round' - frames' = (round - frames) + 1
    BY <1>0, <1>4 DEF Submit
  <2> QED
    BY <1>0, <1>a, <1>b, <1>c, <1>4, <2>1 DEF Submit, PipelineTypeOK, engineVars
<1>5. CASE Submitted
  BY <1>0, <1>a, <1>b, <1>c, <1>5 DEF Submitted, PipelineTypeOK, engineVars
<1>6. CASE Drain
  BY <1>0, <1>a, <1>b, <1>c, <1>6 DEF Drain, PipelineTypeOK, engineVars
<1>7. CASE StopEngine
  BY <1>0, <1>a, <1>b, <1>c, <1>7 DEF StopEngine, PipelineTypeOK, engineVars
<1>8. ASSUME NEW n \in 1 .. MaxEvents, Take(n) PROVE PipelineTypeOK' /\ Fits
  BY <1>0, <1>a, <1>b, <1>c, <1>8 DEF Take, PipelineTypeOK, gatewayVars
<1>9. CASE Emit
  BY <1>0, <1>a, <1>b, <1>c, <1>9 DEF Emit, PipelineTypeOK, gatewayVars
<1>10. CASE Processed
  BY <1>0, <1>a, <1>b, <1>c, <1>10 DEF Processed, PipelineTypeOK, gatewayVars
<1>11. CASE Leave
  BY <1>0, <1>a, <1>b, <1>c, <1>11 DEF Leave, PipelineTypeOK, gatewayVars
<1>12. CASE Signal
  BY <1>0, <1>a, <1>b, <1>c, <1>12 DEF Signal, PipelineTypeOK, engineVars
<1>13. CASE UNCHANGED pipelineVars
  BY <1>0, <1>a, <1>b, <1>c, <1>13 DEF pipelineVars, PipelineTypeOK
<1>14. CASE Ended
  BY <1>13, <1>14 DEF Ended
<1> QED
  BY <1>2, <1>3, <1>4, <1>5, <1>6, <1>7, <1>8, <1>9, <1>10, <1>11, <1>12, <1>13, <1>14
  DEF PipelineNext, Gateway, EngineThread

(* Type correctness and the bound on the work in flight, for every ring    *)
(* size, batch and number of events.                                       *)
THEOREM PipelineInvariant == PipelineSpec => []PipelineInv
BY InitPipelineInv, NextPipelineInv, PTL DEF PipelineSpec

(* For every ring size, with the outbox four times the inbox as            *)
(* engine_thread.hpp has it: submit() and on_event() only wait for each    *)
(* other when what one round submitted causes more events than the outbox  *)
(* holds, and stop() only joins an engine that cannot end when the         *)
(* commands it took since the last drain do (WaitsOnlyAfterBurst).         *)
THEOREM BurstsOnly == PipelineSpec => []WaitsOnlyAfterBurst
<1>1. PipelineInv => WaitsOnlyAfterBurst
  <2> SUFFICES ASSUME PipelineInv PROVE WaitsOnlyAfterBurst OBVIOUS
  <2>0. /\ InboxCap \in Nat /\ MaxEvents \in Nat /\ inbox \in Nat /\ frames \in Nat /\ round \in Nat
        /\ outbox \in Nat /\ events \in Nat /\ OutboxCap \in Nat /\ inbox <= InboxCap /\ round - frames \in Nat
    BY PipelineAssumption DEF PipelineInv, PipelineTypeOK, WorkFits, OutboxCap
  <2>1. ASSUME Standstill PROVE OutboxCap < MaxEvents * (round - frames + 1)
    <3>1. outbox + events + M(InboxCap) <= M(InboxCap + 1) + M(round - frames)
      BY <2>1 DEF Standstill, PipelineInv, WorkFits, Work, M
    <3>2. M(InboxCap) \in Nat /\ M(InboxCap + 1) = M(InboxCap) + MaxEvents
      BY <2>0, Products
    <3>3. M(round - frames) \in Nat /\ M((round - frames) + 1) = M(round - frames) + MaxEvents
      BY <2>0, Products
    <3>4. outbox = OutboxCap /\ events > 0
      BY <2>1 DEF Standstill, EngineWaits
    <3> HIDE DEF M
    <3>5. OutboxCap < M((round - frames) + 1)
      BY <2>0, <3>1, <3>2, <3>3, <3>4
    <3> QED
      BY <3>5 DEF M
  <2>2. ASSUME JoinHangs PROVE OutboxCap < MaxEvents * (InboxCap - inbox + 1)
    <3>1. outbox + events + MaxEvents * inbox <= MaxEvents * (InboxCap + 1)
      BY <2>2 DEF JoinHangs, PipelineInv, WorkFits, Work
    <3>2. MaxEvents * (InboxCap + 1) = MaxEvents * (InboxCap - inbox + 1) + MaxEvents * inbox
      BY <2>0
    <3>3. outbox = OutboxCap /\ events > 0
      BY <2>2 DEF JoinHangs, EngineWaits
    <3>4. MaxEvents * inbox \in Nat /\ MaxEvents * (InboxCap - inbox + 1) \in Int
      BY <2>0
    <3> DEFINE a == MaxEvents * inbox
               b == MaxEvents * (InboxCap - inbox + 1)
    <3>5. outbox + events + a <= b + a /\ a \in Nat /\ b \in Int
      BY <3>1, <3>2, <3>4
    <3> HIDE DEF a, b
    <3>6. OutboxCap < b
      BY <2>0, <3>3, <3>5
    <3> QED
      BY <3>6 DEF b
  <2> QED
    BY <2>1, <2>2 DEF WaitsOnlyAfterBurst
<1> QED BY <1>1, PipelineInvariant, PTL
==============================================================================
