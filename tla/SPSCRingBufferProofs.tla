------------------------- MODULE SPSCRingBufferProofs --------------------------
(***************************************************************************)
(* The safety of SPSCRingBuffer for every buffer size, every set of        *)
(* messages and every number of operations.                                *)
(***************************************************************************)
EXTENDS SPSCRingBuffer, SequenceTheorems, TLAPS

\* The producer is past its test: there is room for one more message.
ProducerInv ==
  /\ IF ppc = "idle" THEN arg = NoItem ELSE phead = head /\ arg \in Items
  /\ ppc \in {"store", "publish"} => head + 1 <= cachedTail + Size
  /\ ppc = "publish" => buffer[Slot(head)] = arg

\* The consumer is past its test: there is a message at tail.
ConsumerInv ==
  /\ cpc # "idle" => ctail = tail
  /\ cpc \in {"load", "advance"} => tail < cachedHead
  /\ cpc = "advance" => item = buffer[Slot(tail)]

\* Every slot between tail and head holds a message.
SlotsFilled == \A i \in tail .. head - 1 : buffer[Slot(i)] \in Items

IndInv == TypeOK /\ CachesAreSafe /\ ProducerInv /\ ConsumerInv /\ SlotsFilled
--------------------------------------------------------------------------------
\* A position is in a slot.
LEMMA SlotType == \A i \in Nat : Slot(i) \in Slots
  BY SizeAssumption DEF Slot, Slots

\* Division of a position by the size, as the provers know it.
LEMMA Division ==
  ASSUME NEW i \in Nat, NEW n \in Nat, n > 0
  PROVE  /\ i \div n \in Int
         /\ i % n \in Int
         /\ i = n * (i \div n) + (i % n)
<1>1. i \div n \in Int
  OBVIOUS
<1>2. i % n \in Int
  OBVIOUS
<1>3. i = n * (i \div n) + (i % n)
  OBVIOUS
<1> QED
  BY <1>1, <1>2, <1>3

\* A multiple of n is not strictly between 0 and n.
LEMMA NoMultipleBetween ==
  ASSUME NEW n \in Nat, n > 0, NEW a \in Int, NEW b \in Int
  PROVE  ~ (0 < n * b - n * a /\ n * b - n * a < n)
<1>1. CASE b <= a
  <2>1. n * b <= n * a
    BY <1>1
  <2> QED
    BY <2>1
<1>2. CASE b >= a + 1
  <2>1. n * b >= n * (a + 1)
    BY <1>2
  <2>2. n * (a + 1) = n * a + n
    OBVIOUS
  <2> QED
    BY <2>1, <2>2
<1> QED
  BY <1>1, <1>2

\* Two positions less than Size apart are in different slots.
LEMMA SlotsDiffer ==
  ASSUME NEW i \in Nat, NEW j \in Nat, i < j, j < i + Size
  PROVE  Slot(i) # Slot(j)
<1>0. Size \in Nat /\ Size > 0
  BY SizeAssumption
<1>1. PICK a \in Int, r \in Int : i = Size * a + r /\ i % Size = r
  BY <1>0, Division
<1>2. PICK b \in Int, s \in Int : j = Size * b + s /\ j % Size = s
  BY <1>0, Division
<1>3. SUFFICES ASSUME r = s PROVE FALSE
  BY <1>1, <1>2 DEF Slot
<1>4. j - i = Size * b - Size * a
  BY <1>0, <1>1, <1>2, <1>3
<1>5. 0 < Size * b - Size * a /\ Size * b - Size * a < Size
  BY <1>0, <1>4
<1> QED
  BY <1>0, <1>5, NoMultipleBetween
--------------------------------------------------------------------------------
\* What the parts of the invariant say, for the steps below.
LEMMA InvInit == Init => IndInv
<1> SUFFICES ASSUME Init PROVE IndInv
  OBVIOUS
<1> USE DEF Init
<1>1. TypeOK
  <2>1. buffer \in [Slots -> Items \union {NoItem}]
    OBVIOUS
  <2>2. 0 \in 0 .. Word - 1
    BY BoundsAssumption
  <2> QED
    BY <2>1, <2>2 DEF TypeOK
<1>2. CachesAreSafe
  BY SizeAssumption DEF CachesAreSafe
<1>3. ProducerInv /\ ConsumerInv
  BY DEF ProducerInv, ConsumerInv
<1>4. SlotsFilled
  BY DEF SlotsFilled
<1> QED
  BY <1>1, <1>2, <1>3, <1>4 DEF IndInv

\* Every step of the producer keeps the invariant.
LEMMA EnqueueKeepsInv == IndInv /\ Enqueue => IndInv'
<1> SUFFICES ASSUME IndInv, Enqueue PROVE IndInv'
  OBVIOUS
<1> USE DEF IndInv
<1>size. Size \in Nat /\ Size > 0
  BY SizeAssumption
<1>1. ASSUME NEW x \in Items, EnqueueLoadHead(x) PROVE IndInv'
  BY <1>1 DEF EnqueueLoadHead, shared, consumer, observer, TypeOK, CachesAreSafe,
              ProducerInv, ConsumerInv, SlotsFilled
<1>2. CASE EnqueueRoomByCache
  BY <1>2, <1>size DEF EnqueueRoomByCache, LooksFull, shared, consumer, observer,
              TypeOK, CachesAreSafe, ProducerInv, ConsumerInv, SlotsFilled
<1>3. CASE EnqueueRefreshTail
  <2> USE <1>3 DEF EnqueueRefreshTail, consumer, observer
  <2>1. TypeOK'
    BY DEF TypeOK
  <2>2. CachesAreSafe'
    BY <1>size DEF CachesAreSafe, LooksFull, ProducerInv, TypeOK
  <2>3. ProducerInv'
    BY <1>size DEF CachesAreSafe, LooksFull, ProducerInv, TypeOK
  <2>4. ConsumerInv' /\ SlotsFilled'
    BY DEF ConsumerInv, SlotsFilled
  <2> QED
    BY <2>1, <2>2, <2>3, <2>4
<1>4. CASE EnqueueStore
  <2> USE <1>4 DEF EnqueueStore
  <2>1. phead = head /\ head \in Nat /\ Slot(head) \in Slots /\ arg \in Items
    BY SlotType DEF ProducerInv, TypeOK
  <2>2. \A i \in tail .. head - 1 :
           Slot(i) \in Slots /\ Slot(i) # Slot(head) /\ buffer'[Slot(i)] = buffer[Slot(i)]
    <3> TAKE i \in tail .. head - 1
    <3>1. i \in Nat /\ i < head /\ head < i + Size
      BY <1>size DEF TypeOK, CachesAreSafe, ProducerInv
    <3>2. Slot(i) \in Slots /\ Slot(i) # Slot(head)
      BY <2>1, <3>1, SlotType, SlotsDiffer
    <3> QED
      BY <2>1, <3>2 DEF TypeOK
  <2>3. TypeOK'
    BY DEF TypeOK, consumer, observer
  <2>4. CachesAreSafe'
    BY DEF CachesAreSafe, consumer
  <2>5. ProducerInv'
    BY <2>1 DEF ProducerInv, TypeOK
  <2>6. ConsumerInv'
    <3>1. ASSUME cpc = "advance" PROVE tail \in tail .. head - 1
      BY <3>1 DEF ConsumerInv, CachesAreSafe, TypeOK
    <3> QED
      BY <2>2, <3>1 DEF ConsumerInv, consumer
  <2>7. SlotsFilled'
    BY <2>2 DEF SlotsFilled
  <2> QED
    BY <2>3, <2>4, <2>5, <2>6, <2>7
<1>5. CASE EnqueuePublish
  <2> USE <1>5 DEF EnqueuePublish
  <2>1. TypeOK'
    BY DEF TypeOK, consumer, observer
  <2>2. CachesAreSafe' /\ ProducerInv' /\ ConsumerInv'
    BY <1>size DEF CachesAreSafe, ProducerInv, ConsumerInv, TypeOK, consumer
  <2>3. SlotsFilled'
    BY DEF SlotsFilled, ProducerInv, CachesAreSafe, TypeOK
  <2> QED
    BY <2>1, <2>2, <2>3
<1> QED
  BY <1>1, <1>2, <1>3, <1>4, <1>5 DEF Enqueue

\* Every step of the consumer keeps the invariant.
LEMMA DequeueKeepsInv == IndInv /\ DequeueOrPeek => IndInv'
<1> SUFFICES ASSUME IndInv, DequeueOrPeek PROVE IndInv'
  OBVIOUS
<1> USE DEF IndInv
<1>1. ASSUME NEW op \in {"Dequeue", "Peek"}, TakeLoadTail(op) PROVE IndInv'
  BY <1>1 DEF TakeLoadTail, shared, producer, observer, TypeOK, CachesAreSafe,
              ProducerInv, ConsumerInv, SlotsFilled
<1>2. CASE TakeItemByCache
  BY <1>2 DEF TakeItemByCache, LooksEmpty, shared, producer, observer, TypeOK,
              CachesAreSafe, ProducerInv, ConsumerInv, SlotsFilled
<1>3. CASE TakeRefreshHead
  BY <1>3 DEF TakeRefreshHead, LooksEmpty, producer, observer, TypeOK,
              CachesAreSafe, ProducerInv, ConsumerInv, SlotsFilled
<1>front. cpc \in {"load", "advance"} => buffer[Slot(tail)] \in Items
  BY DEF SlotsFilled, ConsumerInv, CachesAreSafe, TypeOK
<1>4. CASE DequeueLoad
  BY <1>4, <1>front DEF DequeueLoad, shared, producer, observer, TypeOK,
              CachesAreSafe, ProducerInv, ConsumerInv, SlotsFilled
<1>5. CASE DequeueAdvance
  BY <1>5, <1>front DEF DequeueAdvance, producer, observer, TypeOK,
              CachesAreSafe, ProducerInv, ConsumerInv, SlotsFilled
<1>6. CASE PeekLoad
  BY <1>6, <1>front DEF PeekLoad, shared, producer, observer, TypeOK,
              CachesAreSafe, ProducerInv, ConsumerInv, SlotsFilled
<1> QED
  BY <1>1, <1>2, <1>3, <1>4, <1>5, <1>6 DEF DequeueOrPeek

\* Every step keeps the invariant.
LEMMA InvNext == IndInv /\ [Next]_vars => IndInv'
<1> SUFFICES ASSUME IndInv, [Next]_vars PROVE IndInv'
  OBVIOUS
<1>1. CASE Enqueue
  BY <1>1, EnqueueKeepsInv
<1>2. CASE DequeueOrPeek
  BY <1>2, DequeueKeepsInv
<1>3. CASE Depth
  <2>1. (ohead - tail) % Word \in 0 .. Word - 1
    BY BoundsAssumption DEF IndInv, TypeOK
  <2> QED
    BY <1>3, <2>1 DEF Depth, DepthLoadHead, DepthLoadTail, shared, producer, consumer,
                 IndInv, TypeOK, CachesAreSafe, ProducerInv, ConsumerInv, SlotsFilled
<1>4. CASE Reset
  BY <1>4, SizeAssumption DEF Reset, producer, consumer, observer, IndInv, TypeOK,
                 CachesAreSafe, ProducerInv, ConsumerInv, SlotsFilled
<1>5. CASE UNCHANGED vars
  BY <1>5 DEF vars, shared, producer, consumer, observer, IndInv, TypeOK,
                 CachesAreSafe, ProducerInv, ConsumerInv, SlotsFilled
<1> QED
  BY <1>1, <1>2, <1>3, <1>4, <1>5 DEF Next
--------------------------------------------------------------------------------
\* The strengthened invariant holds of every reachable state.
THEOREM Invariance == Spec => []IndInv
<1>1. Init => IndInv
  BY InvInit
<1>2. IndInv /\ [Next]_vars => IndInv'
  BY InvNext
<1> QED
  BY <1>1, <1>2, PTL DEF Spec

\* Every field and local of the ring buffer keeps its type, the slot numbers
\* stay inside the buffer and Depth's result is a uint64 (spsc_queue.go:9-23).
THEOREM TypeCorrect == Spec => []TypeOK
<1>1. IndInv => TypeOK
  BY DEF IndInv
<1> QED
  BY <1>1, Invariance, PTL

\* The counters each side caches of the other (cachedTail, cachedHead) are
\* stale on the safe side only, and at most Size messages are in flight
\* (spsc_queue.go:44-50, 65-71).
THEOREM CachesSafe == Spec => []CachesAreSafe
<1>1. IndInv => CachesAreSafe
  BY DEF IndInv
<1> QED
  BY <1>1, Invariance, PTL

\* The plain accesses to the slots (spsc_queue.go:53, 74, 95) never race: the
\* producer about to store and the consumer about to load are in two slots.
THEOREM SlotsDoNotRace == Spec => []NoSlotRace
<1>1. IndInv => NoSlotRace
  <2> SUFFICES ASSUME IndInv, ppc = "store", cpc = "load"
               PROVE  Slot(phead) # Slot(ctail)
    BY DEF NoSlotRace
  <2>1. /\ phead \in Nat /\ ctail \in Nat
        /\ ctail < phead /\ phead < ctail + Size
    BY SizeAssumption DEF IndInv, TypeOK, CachesAreSafe, ProducerInv, ConsumerInv
  <2> QED
    BY <2>1, SlotsDiffer
<1> QED
  BY <1>1, Invariance, PTL

\* Between loading its message and advancing tail, Dequeue holds the message
\* that is still at the front of the queue (spsc_queue.go:74-77).
THEOREM LoadedItemStaysFront == Spec => []LoadedItemIsFront
<1>1. IndInv => LoadedItemIsFront
  BY DEF IndInv, TypeOK, CachesAreSafe, ConsumerInv, SlotsFilled, LoadedItemIsFront
<1> QED
  BY <1>1, Invariance, PTL
--------------------------------------------------------------------------------
(* The ring buffer implements the bounded queue.  An Enqueue takes effect    *)
(* where it publishes, or where it finds the queue full; a Dequeue where it  *)
(* advances tail, a Peek where it loads, and both where they find nothing.   *)

\* The slots between the counters, as a sequence.
ContentsIsASeq ==
  /\ Contents \in Seq(Items) /\ Len(Contents) = head - tail
  /\ head - tail \in 0 .. Size
  /\ \A i \in 1 .. head - tail : Contents[i] = buffer[Slot(tail + i - 1)]

LEMMA ContentsAreASeq == IndInv => ContentsIsASeq
<1> SUFFICES ASSUME IndInv PROVE ContentsIsASeq
  OBVIOUS
<1>1. head \in Nat /\ tail \in Nat /\ Size \in Nat /\ head - tail \in 0 .. Size
  BY SizeAssumption DEF IndInv, TypeOK, CachesAreSafe
<1>2. ASSUME NEW i \in 1 .. head - tail PROVE buffer[Slot(tail + i - 1)] \in Items
  <2>1. tail + i - 1 \in tail .. head - 1
    BY <1>1
  <2> QED
    BY <2>1 DEF IndInv, SlotsFilled
<1>3. Contents \in [1 .. head - tail -> Items]
  BY <1>2 DEF Contents
<1>4. Contents \in Seq(Items)
  BY <1>1, <1>3, SeqDef
<1>5. Len(Contents) = head - tail
  BY <1>1, <1>3, <1>4, LenProperties
<1> QED
  BY <1>1, <1>4, <1>5 DEF Contents, ContentsIsASeq

\* Steps that leave the counters and the slots between them alone.
LEMMA ContentsStay ==
  ASSUME IndInv, UNCHANGED <<head, tail>>,
         \A i \in tail .. head - 1 : buffer'[Slot(i)] = buffer[Slot(i)]
  PROVE  Contents' = Contents
<1>1. head \in Nat /\ tail \in Nat
  BY DEF IndInv, TypeOK
<1>2. \A i \in 1 .. head - tail : tail + i - 1 \in tail .. head - 1
  BY <1>1
<1> QED
  BY <1>2 DEF Contents

LEMMA InitRefines == Init => FIFO!Init
<1> SUFFICES ASSUME Init PROVE FIFO!Init
  OBVIOUS
<1>1. IndInv /\ head = 0 /\ tail = 0
  BY InvInit DEF Init
<1>2. Contents \in Seq(Items) /\ Len(Contents) = 0
  BY <1>1, ContentsAreASeq DEF ContentsIsASeq
<1>3. Contents = << >>
  BY <1>2, EmptySeq
<1> QED
  BY <1>3 DEF Init, FIFO!Init

\* The producer's steps.
LEMMA EnqueueRefines ==
  ASSUME IndInv, IndInv', Enqueue
  PROVE  FIFO!Next \/ UNCHANGED FIFO!vars
<1>1. /\ head \in Nat /\ tail \in Nat /\ Size \in Nat \ {0}
      /\ tail <= head /\ cachedTail <= tail /\ head <= cachedTail + Size
      /\ cachedTail \in Nat
  BY SizeAssumption DEF IndInv, TypeOK, CachesAreSafe
<1>2. ASSUME NEW x \in Items, EnqueueLoadHead(x) PROVE FIFO!Call(x)
  <2>1. UNCHANGED <<head, tail, buffer, accepted, taken>> /\ arg' = x /\ arg = NoItem
    BY <1>2 DEF EnqueueLoadHead, shared, consumer, IndInv, ProducerInv
  <2>2. UNCHANGED Contents
    BY <2>1, ContentsStay
  <2> QED
    BY <2>1, <2>2 DEF FIFO!Call
<1>3. CASE EnqueueRoomByCache
  <2>1. UNCHANGED <<head, tail, buffer, accepted, taken, arg>>
    BY <1>3 DEF EnqueueRoomByCache, shared, consumer
  <2>2. UNCHANGED Contents
    BY <2>1, ContentsStay
  <2> QED
    BY <2>1, <2>2 DEF FIFO!vars
<1>4. CASE EnqueueRefreshTail
  <2>1. UNCHANGED <<head, tail, buffer, taken>>
    BY <1>4 DEF EnqueueRefreshTail, consumer
  <2>2. UNCHANGED Contents
    BY <2>1, ContentsStay
  <2>3. CASE UNCHANGED <<arg, accepted>>
    BY <2>1, <2>2, <2>3 DEF FIFO!vars
  <2>4. CASE LooksFull(phead + 1, cachedTail') /\ arg' = NoItem /\ accepted' = FALSE
    <3>1. phead = head /\ arg \in Items /\ cachedTail' = tail
      BY <1>4 DEF EnqueueRefreshTail, IndInv, ProducerInv
    <3>2. head - tail = Size
      BY <1>1, <2>4, <3>1 DEF LooksFull
    <3>3. Len(Contents) = Size /\ arg # NoItem
      BY <3>1, <3>2, ContentsAreASeq, ItemsAssumption DEF ContentsIsASeq
    <3>4. FIFO!Refuse
      BY <2>1, <2>2, <2>4, <3>3 DEF FIFO!Refuse
    <3> QED
      BY <3>4 DEF FIFO!Next
  <2> QED
    BY <1>4, <2>3, <2>4 DEF EnqueueRefreshTail
<1>5. CASE EnqueueStore
  <2>1. /\ UNCHANGED <<head, tail, taken, arg, accepted>>
        /\ phead = head /\ buffer' = [buffer EXCEPT ![Slot(head)] = arg]
        /\ head < tail + Size
    BY <1>1, <1>5 DEF EnqueueStore, consumer, IndInv, ProducerInv
  <2>2. ASSUME NEW i \in tail .. head - 1 PROVE buffer'[Slot(i)] = buffer[Slot(i)]
    <3>1. i \in Nat /\ i < head /\ head < i + Size
      BY <1>1, <2>1
    <3>2. Slot(i) # Slot(head) /\ Slot(i) \in Slots
      BY <1>1, <3>1, SlotsDiffer, SlotType
    <3> QED
      BY <2>1, <3>2 DEF IndInv, TypeOK
  <2>3. UNCHANGED Contents
    BY <2>1, <2>2, ContentsStay
  <2> QED
    BY <2>1, <2>3 DEF FIFO!vars
<1>6. CASE EnqueuePublish
  <2>1. /\ head' = head + 1 /\ UNCHANGED <<buffer, tail, taken>>
        /\ arg' = NoItem /\ accepted' = TRUE
        /\ arg \in Items /\ buffer[Slot(head)] = arg
        /\ head + 1 <= tail + Size
    BY <1>1, <1>6 DEF EnqueuePublish, consumer, IndInv, ProducerInv
  <2> DEFINE n == head - tail
  <2>2. /\ Contents \in Seq(Items) /\ Len(Contents) = n /\ n \in Nat
        /\ \A i \in 1 .. n : Contents[i] = buffer[Slot(tail + i - 1)]
    BY <1>1, ContentsAreASeq DEF ContentsIsASeq
  <2>3. /\ Contents' \in Seq(Items) /\ Len(Contents') = head' - tail'
        /\ \A i \in 1 .. head' - tail' : Contents'[i] = buffer'[Slot(tail' + i - 1)]
    <3>1. ContentsIsASeq'
      BY ContentsAreASeq, PTL
    <3> QED
      BY <3>1 DEF ContentsIsASeq
  <2>4. /\ Len(Contents') = n + 1
        /\ \A i \in 1 .. n + 1 : Contents'[i] = buffer[Slot(tail + i - 1)]
    BY <1>1, <2>1, <2>3
  <2>5. Append(Contents, arg) \in Seq(Items) /\ Len(Append(Contents, arg)) = n + 1
    BY <2>1, <2>2
  <2>6. ASSUME NEW i \in 1 .. n + 1 PROVE Append(Contents, arg)[i] = Contents'[i]
    <3>1. CASE i \in 1 .. n
      BY <2>1, <2>2, <2>4, <3>1
    <3>2. CASE i = n + 1
      <4>1. tail + i - 1 = head
        BY <1>1, <3>2
      <4>2. Contents'[i] = arg
        BY <2>1, <2>4, <4>1
      <4>3. Append(Contents, arg)[i] = arg
        BY <2>1, <2>2, <3>2
      <4> QED
        BY <4>2, <4>3
    <3> QED
      BY <2>2, <3>1, <3>2
  <2>7. Contents' = Append(Contents, arg)
    BY <2>3, <2>4, <2>5, <2>6, SeqEqual
  <2>8. Len(Contents) < Size /\ arg # NoItem
    BY <1>1, <2>1, <2>2, ItemsAssumption
  <2>9. FIFO!Accept
    BY <2>1, <2>7, <2>8 DEF FIFO!Accept
  <2> QED
    BY <2>9 DEF FIFO!Next
<1> QED
  BY <1>2, <1>3, <1>4, <1>5, <1>6 DEF Enqueue, FIFO!Next

\* The consumer's steps.
LEMMA TakeRefines ==
  ASSUME IndInv, IndInv', DequeueOrPeek
  PROVE  FIFO!Next \/ UNCHANGED FIFO!vars
<1>1. /\ head \in Nat /\ tail \in Nat /\ tail <= head /\ cachedHead <= head
      /\ cachedHead \in Nat
  BY DEF IndInv, TypeOK, CachesAreSafe
<1>2. UNCHANGED <<head, buffer, arg, accepted>>
  BY DEF DequeueOrPeek, TakeLoadTail, TakeItemByCache, TakeRefreshHead, DequeueLoad,
         DequeueAdvance, PeekLoad, shared, producer
<1>3. ASSUME UNCHANGED tail PROVE UNCHANGED Contents
  BY <1>2, <1>3, ContentsStay
<1>4. ASSUME cpc \in {"load", "advance"}
      PROVE  Contents # << >> /\ Head(Contents) = buffer[Slot(tail)] /\ ctail = tail
  <2>1. ctail = tail /\ tail < head
    BY <1>1, <1>4 DEF IndInv, ConsumerInv
  <2>2. Contents \in Seq(Items) /\ Len(Contents) = head - tail
        /\ \A i \in 1 .. head - tail : Contents[i] = buffer[Slot(tail + i - 1)]
    BY ContentsAreASeq DEF ContentsIsASeq
  <2>3. Contents # << >> /\ Head(Contents) = Contents[1]
    BY <1>1, <2>1, <2>2
  <2>4. 1 \in 1 .. head - tail /\ tail + 1 - 1 = tail
    BY <1>1, <2>1
  <2> QED
    BY <2>1, <2>2, <2>3, <2>4
<1>5. ASSUME NEW op \in {"Dequeue", "Peek"}, TakeLoadTail(op) PROVE UNCHANGED FIFO!vars
  <2>1. UNCHANGED <<tail, taken>>
    BY <1>5 DEF TakeLoadTail, shared
  <2> QED
    BY <1>2, <1>3, <2>1 DEF FIFO!vars
<1>6. CASE TakeItemByCache \/ DequeueLoad
  <2>1. UNCHANGED <<tail, taken>>
    BY <1>6 DEF TakeItemByCache, DequeueLoad, shared
  <2> QED
    BY <1>2, <1>3, <2>1 DEF FIFO!vars
<1>7. CASE TakeRefreshHead
  <2>1. UNCHANGED tail /\ cachedHead' = head /\ ctail = tail
    BY <1>7 DEF TakeRefreshHead, IndInv, ConsumerInv
  <2>2. CASE UNCHANGED taken
    BY <1>2, <1>3, <2>1, <2>2 DEF FIFO!vars
  <2>3. CASE LooksEmpty(ctail, cachedHead') /\ taken' = NoItem
    <3>1. Contents \in Seq(Items) /\ Len(Contents) = 0
      BY <1>1, <2>1, <2>3, ContentsAreASeq DEF LooksEmpty, ContentsIsASeq
    <3>2. Contents = << >>
      BY <3>1, EmptySeq
    <3>3. FIFO!Nothing
      BY <1>2, <1>3, <2>1, <2>3, <3>2 DEF FIFO!Nothing
    <3> QED
      BY <3>3 DEF FIFO!Next
  <2> QED
    BY <1>7, <2>2, <2>3 DEF TakeRefreshHead
<1>8. CASE PeekLoad
  <2>1. UNCHANGED tail /\ taken' = Head(Contents) /\ Contents # << >>
    BY <1>4, <1>8 DEF PeekLoad, shared
  <2>2. FIFO!Look
    BY <1>2, <1>3, <2>1 DEF FIFO!Look
  <2> QED
    BY <2>2 DEF FIFO!Next
<1>9. CASE DequeueAdvance
  <2>1. tail' = tail + 1 /\ taken' = Head(Contents) /\ Contents # << >>
    BY <1>4, <1>9 DEF DequeueAdvance, IndInv, ConsumerInv
  <2> DEFINE n == head - tail
  <2>2. /\ Contents \in Seq(Items) /\ Len(Contents) = n /\ n \in Nat
        /\ \A i \in 1 .. n : Contents[i] = buffer[Slot(tail + i - 1)]
    BY <1>1, ContentsAreASeq DEF ContentsIsASeq
  <2>3. /\ Contents' \in Seq(Items) /\ Len(Contents') = head' - tail'
        /\ \A i \in 1 .. head' - tail' : Contents'[i] = buffer'[Slot(tail' + i - 1)]
    <3>1. ContentsIsASeq'
      BY ContentsAreASeq, PTL
    <3> QED
      BY <3>1 DEF ContentsIsASeq
  <2>4. /\ Tail(Contents) \in Seq(Items) /\ Len(Tail(Contents)) = n - 1
        /\ \A i \in 1 .. n - 1 : Tail(Contents)[i] = Contents[i + 1]
    BY <2>1, <2>2, HeadTailProperties
  <2>5. Len(Contents') = n - 1
    BY <1>1, <1>2, <2>1, <2>3
  <2>6. ASSUME NEW i \in 1 .. n - 1 PROVE Contents'[i] = Tail(Contents)[i]
    <3>1. Contents'[i] = buffer[Slot(tail' + i - 1)]
      BY <1>2, <2>3, <2>5
    <3>2. tail' + i - 1 = tail + (i + 1) - 1 /\ i + 1 \in 1 .. n
      BY <1>1, <2>1, <2>2
    <3>3. Contents[i + 1] = buffer[Slot(tail + (i + 1) - 1)]
      BY <2>2, <3>2
    <3> QED
      BY <2>4, <3>1, <3>2, <3>3
  <2>7. Contents' = Tail(Contents)
    BY <2>3, <2>4, <2>5, <2>6, SeqEqual
  <2>8. FIFO!Take
    BY <1>2, <2>1, <2>7 DEF FIFO!Take
  <2> QED
    BY <2>8 DEF FIFO!Next
<1> QED
  BY <1>5, <1>6, <1>7, <1>8, <1>9 DEF DequeueOrPeek

LEMMA NextRefines ==
  ASSUME IndInv, IndInv', [Next]_vars
  PROVE  FIFO!Next \/ UNCHANGED FIFO!vars
<1>1. CASE Enqueue
  BY <1>1, EnqueueRefines
<1>2. CASE DequeueOrPeek
  BY <1>2, TakeRefines
<1>3. CASE Depth \/ UNCHANGED vars
  <2>1. UNCHANGED <<head, tail, buffer, arg, accepted, taken>>
    BY <1>3 DEF Depth, DepthLoadHead, DepthLoadTail, vars, shared, producer, consumer
  <2>2. UNCHANGED Contents
    BY <2>1, ContentsStay
  <2> QED
    BY <2>1, <2>2 DEF FIFO!vars
<1>4. CASE Reset
  <2>1. /\ head' = 0 /\ tail' = 0 /\ UNCHANGED <<arg, accepted, taken>> /\ arg = NoItem
    BY <1>4 DEF Reset, producer, consumer, IndInv, ProducerInv
  <2>2. Contents' \in Seq(Items) /\ Len(Contents') = head' - tail'
    <3>1. ContentsIsASeq'
      BY ContentsAreASeq, PTL
    <3> QED
      BY <3>1 DEF ContentsIsASeq
  <2>3. Contents' = << >>
    BY <2>1, <2>2, EmptySeq
  <2>4. FIFO!Clear
    BY <2>1, <2>3 DEF FIFO!Clear
  <2> QED
    BY <2>4 DEF FIFO!Next
<1> QED
  BY <1>1, <1>2, <1>3, <1>4 DEF Next

\* The ring buffer is a bounded FIFO queue, for every size, every set of messages
\* and every interleaving of its callers' loads and stores.
THEOREM FIFORefined == Spec => ImplementsFIFO
<1>1. IndInv /\ IndInv' /\ [Next]_vars => [FIFO!Next]_(FIFO!vars)
  BY NextRefines
<1> QED
  BY <1>1, InitRefines, Invariance, PTL DEF Spec, ImplementsFIFO, FIFO!Spec
================================================================================
