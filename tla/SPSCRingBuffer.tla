---------------------------- MODULE SPSCRingBuffer -----------------------------
(***************************************************************************)
(* core.SPSCRingBuffer: the lock-free queue between one receiver core (the *)
(* producer), the message handler (the consumer) and whoever asks for its  *)
(* depth (the metrics goroutine, an observer).  Every access to a field    *)
(* another goroutine touches is a step of its own; a call of Enqueue,      *)
(* Dequeue, Peek or Depth is a few such steps, interleaved with the        *)
(* others'.                                                                *)
(*                                                                         *)
(* head and tail are uint64 counters that never wrap in practice: they are *)
(* natural numbers here, and head & mask is head % Size because Size is a  *)
(* power of two.  Only Depth's subtraction keeps its width.                *)
(***************************************************************************)
EXTENDS Integers, Sequences

CONSTANTS Size,      \* len(buffer)
          Items,     \* the messages the producer enqueues
          NoItem,    \* nil
          MaxHead,   \* bound: the producer starts no Enqueue at head = MaxHead
          Word       \* 2^64 in the code: Depth's subtraction is modulo Word

\* NewSPSCRingBuffer panics unless the size is a power of two (spsc_queue.go:28).
ASSUME SizeAssumption == /\ Size \in Nat \ {0}
                         /\ \E k \in 0 .. Size : Size = 2 ^ k
ASSUME ItemsAssumption == NoItem \notin Items
ASSUME BoundsAssumption == MaxHead \in Nat /\ Word \in Nat \ {0}

VARIABLES buffer, head, cachedTail, tail, cachedHead,  \* the struct's fields
          ppc, phead, arg, accepted,      \* producer: Enqueue's locals, result
          cpc, cop, ctail, item, taken,   \* consumer: Dequeue/Peek's, result
          opc, ohead, depth               \* observer: Depth's, result

shared == <<buffer, head, cachedTail, tail, cachedHead>>
producer == <<ppc, phead, arg, accepted>>
consumer == <<cpc, cop, ctail, item, taken>>
observer == <<opc, ohead, depth>>
vars == <<shared, producer, consumer, observer>>

Slots == 0 .. Size - 1
Slot(position) == position % Size

TypeOK ==
  /\ buffer \in [Slots -> Items \union {NoItem}]
  /\ head \in Nat /\ cachedTail \in Nat /\ tail \in Nat /\ cachedHead \in Nat
  /\ ppc \in {"idle", "check", "store", "publish"}
  /\ phead \in Nat
  /\ arg \in Items \union {NoItem}
  /\ accepted \in BOOLEAN
  /\ cpc \in {"idle", "check", "load", "advance"}
  /\ cop \in {"Dequeue", "Peek"}
  /\ ctail \in Nat
  /\ item \in Items \union {NoItem}
  /\ taken \in Items \union {NoItem}
  /\ opc \in {"idle", "loadTail"}
  /\ ohead \in Nat
  /\ depth \in 0 .. Word - 1

Init ==
  /\ buffer = [i \in Slots |-> NoItem]
  /\ head = 0 /\ cachedTail = 0 /\ tail = 0 /\ cachedHead = 0
  /\ ppc = "idle" /\ phead = 0 /\ arg = NoItem /\ accepted = FALSE
  /\ cpc = "idle" /\ cop = "Peek" /\ ctail = 0 /\ item = NoItem /\ taken = NoItem
  /\ opc = "idle" /\ ohead = 0 /\ depth = 0
--------------------------------------------------------------------------------
(* Enqueue: one producer. *)

EnqueueLoadHead(x) ==
  /\ ppc = "idle"
  /\ head < MaxHead
  /\ ppc' = "check"
  /\ phead' = head
  /\ arg' = x
  /\ UNCHANGED <<accepted, shared, consumer, observer>>

\* Mutant: one slot too many.
LooksFullOneLate(nextHead, seenTail) == nextHead - seenTail > Size + 1

\* nextHead - cachedTail > len(buffer), the test of lines 44 and 47.
LooksFull(nextHead, seenTail) == nextHead - seenTail > Size

EnqueueRoomByCache ==
  /\ ppc = "check"
  /\ ~ LooksFull(phead + 1, cachedTail)
  /\ ppc' = "store"
  /\ UNCHANGED <<phead, arg, accepted, shared, consumer, observer>>

\* The cached tail says full: it is refreshed and the test is made again.
EnqueueRefreshTail ==
  /\ ppc = "check"
  /\ LooksFull(phead + 1, cachedTail)
  /\ cachedTail' = tail
  /\ \/ /\ ~ LooksFull(phead + 1, cachedTail')
        /\ ppc' = "store"
        /\ UNCHANGED <<arg, accepted>>
     \/ /\ LooksFull(phead + 1, cachedTail')
        /\ ppc' = "idle"
        /\ arg' = NoItem
        /\ accepted' = FALSE
  /\ UNCHANGED <<phead, buffer, head, tail, cachedHead, consumer, observer>>

EnqueueStore ==
  /\ ppc = "store"
  /\ buffer' = [buffer EXCEPT ![Slot(phead)] = arg]
  /\ ppc' = "publish"
  /\ UNCHANGED <<head, cachedTail, tail, cachedHead, phead, arg, accepted,
                 consumer, observer>>

EnqueuePublish ==
  /\ ppc = "publish"
  /\ head' = phead + 1
  /\ ppc' = "idle"
  /\ arg' = NoItem
  /\ accepted' = TRUE
  /\ UNCHANGED <<buffer, cachedTail, tail, cachedHead, phead, consumer, observer>>
--------------------------------------------------------------------------------
(* Dequeue and Peek: one consumer.  They differ in the last step only. *)

TakeLoadTail(op) ==
  /\ cpc = "idle"
  /\ cpc' = "check"
  /\ cop' = op
  /\ ctail' = tail
  /\ UNCHANGED <<item, taken, shared, producer, observer>>

\* tail >= cachedHead, the test of lines 65, 68, 86 and 89.
LooksEmpty(position, seenHead) == position >= seenHead

TakeItemByCache ==
  /\ cpc = "check"
  /\ ~ LooksEmpty(ctail, cachedHead)
  /\ cpc' = "load"
  /\ UNCHANGED <<cop, ctail, item, taken, shared, producer, observer>>

\* Mutant: nil is returned without the second test.
TakeRefreshHeadAndGiveUp ==
  /\ cpc = "check"
  /\ LooksEmpty(ctail, cachedHead)
  /\ cachedHead' = head
  /\ cpc' = "idle"
  /\ taken' = NoItem
  /\ UNCHANGED <<cop, ctail, item, buffer, head, cachedTail, tail, producer,
                 observer>>

TakeRefreshHead ==
  /\ cpc = "check"
  /\ LooksEmpty(ctail, cachedHead)
  /\ cachedHead' = head
  /\ \/ /\ ~ LooksEmpty(ctail, cachedHead')
        /\ cpc' = "load"
        /\ UNCHANGED taken
     \/ /\ LooksEmpty(ctail, cachedHead')
        /\ cpc' = "idle"
        /\ taken' = NoItem
  /\ UNCHANGED <<cop, ctail, item, buffer, head, cachedTail, tail, producer,
                 observer>>

\* Mutant: the slot is given back before its message is read.
DequeueAdvanceThenLoad ==
  /\ cpc = "load"
  /\ cop = "Dequeue"
  /\ tail' = ctail + 1
  /\ item' = buffer[Slot(ctail)]
  /\ cpc' = "advance"
  /\ UNCHANGED <<cop, ctail, taken, buffer, head, cachedTail, cachedHead,
                 producer, observer>>

DequeueLoad ==
  /\ cpc = "load"
  /\ cop = "Dequeue"
  /\ item' = buffer[Slot(ctail)]
  /\ cpc' = "advance"
  /\ UNCHANGED <<cop, ctail, taken, shared, producer, observer>>

DequeueAdvance ==
  /\ cpc = "advance"
  /\ tail' = ctail + 1
  /\ taken' = item
  /\ cpc' = "idle"
  /\ item' = NoItem
  /\ UNCHANGED <<buffer, head, cachedTail, cachedHead, cop, ctail, producer,
                 observer>>

PeekLoad ==
  /\ cpc = "load"
  /\ cop = "Peek"
  /\ taken' = buffer[Slot(ctail)]
  /\ cpc' = "idle"
  /\ UNCHANGED <<cop, ctail, item, shared, producer, observer>>
--------------------------------------------------------------------------------
(* Depth, called by the metrics goroutine through ReceiverCore.GetQueueDepth *)
(* while the other two run.                                                  *)

DepthLoadHead ==
  /\ opc = "idle"
  /\ opc' = "loadTail"
  /\ ohead' = head
  /\ UNCHANGED <<depth, shared, producer, consumer>>

\* Mutant: the difference is signed.
DepthLoadTailSigned ==
  /\ opc = "loadTail"
  /\ opc' = "idle"
  /\ depth' = ohead - tail
  /\ UNCHANGED <<ohead, shared, producer, consumer>>

DepthLoadTail ==
  /\ opc = "loadTail"
  /\ opc' = "idle"
  /\ depth' = (ohead - tail) % Word
  /\ UNCHANGED <<ohead, shared, producer, consumer>>

\* Reset has no caller; it is modelled where it can be meant, between calls.
\* The slots keep their pointers.
Reset ==
  /\ ppc = "idle" /\ cpc = "idle" /\ opc = "idle"
  /\ head' = 0 /\ tail' = 0 /\ cachedHead' = 0 /\ cachedTail' = 0
  /\ UNCHANGED <<buffer, producer, consumer, observer>>
--------------------------------------------------------------------------------
Enqueue == \/ \E x \in Items : EnqueueLoadHead(x)
           \/ EnqueueRoomByCache \/ EnqueueRefreshTail
           \/ EnqueueStore \/ EnqueuePublish

DequeueOrPeek == \/ \E op \in {"Dequeue", "Peek"} : TakeLoadTail(op)
                 \/ TakeItemByCache \/ TakeRefreshHead
                 \/ DequeueLoad \/ DequeueAdvance \/ PeekLoad

Depth == DepthLoadHead \/ DepthLoadTail

Next == Enqueue \/ DequeueOrPeek \/ Depth \/ Reset

Spec == Init /\ [][Next]_vars
--------------------------------------------------------------------------------
(* Properties. *)

\* Each side's cached copy of the other's counter is stale, but only on the
\* safe side: the producer sees the queue at least as full as it is, the
\* consumer at least as empty, and no more than Size messages are in flight.
CachesAreSafe ==
  /\ cachedTail <= tail
  /\ tail <= cachedHead
  /\ cachedHead <= head
  /\ head <= cachedTail + Size

\* The slot accesses of lines 53, 74 and 95 are plain, not atomic: the
\* producer never stores into the slot the consumer is about to load.
NoSlotRace ==
  ppc = "store" /\ cpc = "load" => Slot(phead) # Slot(ctail)

\* A Dequeue that has loaded its message but not yet advanced tail still owns
\* the slot: what it returns is what is at the front of the queue.
LoadedItemIsFront ==
  cpc = "advance" => item = buffer[Slot(tail)] /\ item \in Items

\* The queue as its callers see it: the slots between tail and head.
Contents == [i \in 1 .. head - tail |-> buffer[Slot(tail + i - 1)]]

\* The ring buffer is a bounded FIFO queue: nothing is lost, duplicated or
\* reordered, Enqueue is refused only when the queue is full, and Dequeue and
\* Peek return nil only when it is empty, whatever the interleaving.
FIFO == INSTANCE BoundedFIFO WITH queue <- Contents, Capacity <- Size
ImplementsFIFO == FIFO!Spec
================================================================================
