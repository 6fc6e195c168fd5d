# Verification of the MTBT order book

This directory holds TLA+ models of the program in this repository, the TLC
configurations that check them, and TLAPS proofs about them. The program reads
NSE's MTBT multicast feed: receiver goroutines parse UDP packets and put them
into one lock-free queue per stream; one message handler goroutine merges the
queues by sequence number and applies the messages to per-contract order books.

    multicast --> ReceiverCore --> SPSCRingBuffer --> SequenceMerger --> MessageHandler
     (lossy)       (one per         (one per            \________ one goroutine _______/
                    stream)          stream)                              |
                                        ^                            OrderMap, PriceTree,
                                        | Depth                      levels, OrderAllocator
                              metrics goroutine

## Inventory

| Component | State | Operations | What is hard | What makes it correct |
|---|---|---|---|---|
| `core.SPSCRingBuffer` (`spsc_queue.go`) | slots, `head`, `tail`, and each side's cached copy of the other's counter | `Enqueue`, `Dequeue`, `Peek`, `Depth`, `Reset` | three goroutines interleave at every load and store; the caches are stale | it is a bounded FIFO queue; the plain slot accesses never meet |
| `SequenceMerger` (`sequencer.go`) | queues, `lastAppliedSeq`, `expectedSeq`, an unused `gapBuffer` | `GetNextMessage`, `handleGap`, `UpdateLastSeq` | receivers enqueue during the scan; packets are lost, late, duplicated; several streams share the scan | in order, at most once, nothing lost in silence, nothing stuck |
| `MessageHandler` (`message_handler.go`) | the contracts map | nine message types, `Start`, `Stop` | long legal sequences of messages; two structures per order that must agree | price-time priority books |
| `OrderMap`, `PriceTree`, levels (`orderbook.go`) | buckets of eight, a skip list, doubly linked lists with totals | `Get`/`Put`/`Delete`, `GetOrCreate`, `AddOrderToLevel`, `RemoveOrderFromLevel` | full buckets, emptied levels, list surgery | map, lists, totals and trees agree |
| `OrderAllocator` (`allocator.go`) | the pool of order records | `AllocateOrder`, `FreeOrder` | records are reused while something may still point at them | a record serves one order at a time |
| `ReceiverCore` (`receiver.go`) | socket, queue, counters, `running` | `Start`, `Stop`, `receiveLoop` | full queues, bad packets, a stop during a read, goroutines of an earlier start | every packet is counted and either enqueued or dropped; one producer per queue |
| `StreamManager` (`stream_manager.go`) | the receivers, `running` under a lock | `Start`, `Stop`, `GetQueues`, `GetMetrics` | the n-th receiver fails to start; the lock is held while sockets close | all receivers run, or none; its calls return |
| `OrderbookSystem` (`main.go`) | manager, handler, `running` | `Start`, `Stop`, `GetMetrics`, the monitor | order of start-up and shutdown, unsynchronised reads | what was stopped ends |
| `MTBTDecoder`, message and level pools | | | no caller | |

The hazards found on the way are listed in `PROJECT.json`, each at its line,
with the properties that watch it.

## Modules

| Module | What it is |
|---|---|
| `BoundedFIFO` | what the ring buffer promises: calls, their effects, and nothing about counters |
| `SPSCRingBuffer` | the ring buffer, one action per load or store that another goroutine can see |
| `SPSCRingBufferProofs` | theorems about it, the refinement of `BoundedFIFO` among them |
| `OrderedDelivery` | what the merger promises: per stream, deliver the next number or skip some |
| `SequenceMerger` | the scan, the decision and the effects of `GetNextMessage`, the heartbeat, and the network |
| `SequenceMergerProofs` | theorems about it, the refinement of `OrderedDelivery` among them |
| `MCSequenceMerger` | routes of streams to queues |
| `LimitOrderBook` | what the handlers promise: at each price, a list of orders in time priority |
| `OrderBook` | the handlers, map, trees, level lists and pool |
| `OrderBookLemmas` | what its operators change, that they keep the lists linked, counted and summed up, and which sequences the lists show |
| `OrderBookProofs` | theorems about it, the refinement of `LimitOrderBook` among them |
| `Induction` | induction over naturals and finite sets, without operator parameters |
| `MCOrderBook` | symmetry and the hash of small instances |
| `MCOrderBookHistory` | `OrderBook` under an exchange that cancels only trades that happened |
| `ContractIndex` | what a contract's map and trees promise: a map from id to order with room for so many, one level per price |
| `OrderMap` | the bucket arrays: search, replacement, refusal, shift on deletion |
| `PriceTree` | the skip list as functions from tree to tree |
| `Contract` | one contract: its map, its two trees and the generator they share |
| `ContractProofs` | theorems about it: buckets, lanes, the best price, the refinement of `ContractIndex` |
| `MCContract` | a hash with collisions |
| `ReceiverCore` | `receiveLoop` of every receiver, `Start` and `Stop`, the counters |
| `StreamManager` | extends it by the manager's loops over the receivers, its lock, and `GetMetrics` |
| `OrderbookSystem` | extends that by the system, the handler's goroutines and the monitor; the specification that is checked |
| `OrderbookSystemProofs` | its inductive invariant, types, one producer per queue |
| `OrderbookSystemAccounts` | the counters, all receivers or none, no reception after a stop |

### SPSCRingBuffer

`buffer`, `head`, `cachedTail`, `tail` and `cachedHead` are the struct's fields.
`ppc`/`phead`/`arg` are the locals of a running `Enqueue`, `cpc`/`cop`/`ctail`/`item`
those of a running `Dequeue` or `Peek`, `opc`/`ohead` those of `Depth`;
`accepted`, `taken` and `depth` are the results. An `Enqueue` is `EnqueueLoadHead`,
then `EnqueueRoomByCache` or `EnqueueRefreshTail` (which may end the call),
`EnqueueStore` and `EnqueuePublish`; a `Dequeue` or `Peek` likewise. Go's atomics
are sequentially consistent, so that interleaving is the right model; a plain
slot access is a step of its own, and `NoSlotRace` shows that two never conflict.
The counters are unbounded in the model, since 2^64 messages do not pass; only
the subtraction in `Depth` keeps its width (`Word`), because there it matters.
`Reset` has no caller. It is modelled between calls, the only place where it
can be meant.

The refinement mapping of `ImplementsFIFO` is `Contents`, the slots from `tail` to
`head`. A refused `Enqueue` is the abstract `Refuse` at the load of `tail`, where the
queue is full, and a nil is `Nothing` at the load of `head`, where it is empty.

### SequenceMerger

A queue is a sequence: that is what `SPSCRingBuffer` implements, and `Depth` is
not used. `PeekQueue` is one round of the loop over the queues, so that arrivals
interleave with the scan. `pc` names the points of `GetNextMessage`: *peek* (in the
scan), *decide* (after it), *spin* (in `spinWaitForGap`), *process* (in
`ProcessMessage`). A return of nil and a recursive call both start the scan again
(`StartScan`), because `processLoop` calls again. The network is nondeterministic: with
`InOrder` it only loses packets, otherwise it sends any number of a stream at any
time, and `Route` says which queues a stream may appear in. `delivered`, `skipped`,
`sent` and `lost` are history.

Not in the state: `gapBuffer` (nothing ever appends to it, so
`processBufferedMessages` returns at its first test) and the duration of the spin (it
ends at any time; it cannot find anything, because its body is empty). The spin
indexes queues 0 to 3, so `QueuesAssumption` asks for four.

### OrderBook

One variable, `book`, holds the order records behind their pointers, the pool, the
map and the levels. The handlers are operators from a book to a book, in the order of
the Go code, and an action is one call of `ProcessMessage`: the handler runs on one
goroutine and nothing else writes the books. `Get`, `Put`, `Delete` and `GetOrCreate`
are modelled by what they return, including the full bucket; `BlankOrder` and a
freed record keep the fields the code keeps. `sync.Pool` may return any free record,
and so does `Free`.

The handlers check little of a message, and so does the model. Both sides of a trade or of
its cancellation may name the same id (`CancelTrade` lets the sell side find what the buy side
left), and a quantity is any integer. A New or a Modify of nothing is entered like any other
order: `RestingIsOpen` is for feeds with `PositiveQuantities`, everything else is for any.

`FreshIds` is a property of the feed: the exchange does not enter an id that
rests. Without it, `MapIsSound`, `LinksAgree`, `PoolIsDisjoint` and `LevelsAddUp` still hold.
What goes wrong is that orders fall out of the map (`NoGhosts`) and that a cancel leaves an
order of its id on a level (`CancelRemoves`); a full bucket has the same effect without any
fault of the feed. `LossesAccounted` says that nothing else has it: an order is lost only when
`Put` refuses it or a New replaces it under its id, and what is lost stays as it is.

### Contract: OrderMap and PriceTree

`OrderBook` takes the map and the trees by what they answer. `Contract` has the data
structures themselves, one action per call, and `ImplementsIndex` shows that they give
those answers: `byId` is what `get` finds, `levelOf` what `find` does.

`OrderMap` has `orders[bucket][slot]` and `count[bucket]`, as `orderBucket` does. A search
stops at the first slot below the count with the id; `Put` replaces there, appends, or
refuses when eight (here two) slots are in use; `Delete` shifts the later slots down and
clears the one that becomes free.

`PriceTree` keeps `maxLevel`, `ascending`, and for each node its price and its `forward`
pointers; `find`, `insert` and `remove` walk the lanes from the highest in use down, with
`Update` for the local array `update`. The heights are those the code draws: the low bit of
the linear congruential generator alternates (multiplier and increment are odd), so that
`randomLevel` gives 0 once, to the first level of the process if the seed is odd as it is
there, and 1 ever after. `rngOdd` is that parity. `GetOrCreate` of a price that has a level
changes nothing and is no action. Nodes are named like prices where that is free, which only
saves states.

### ReceiverCore, StreamManager, OrderbookSystem

Three modules, each extending the one before, with one specification in the last.

*Receiver.* `running`, `open`, `begun` are the flag, the socket and the goroutines begun;
`loop[r][g]` says where goroutine `g` of receiver `r` is: at the *test* of the flag, before the
*call* of the read, in the *read*, after an *error*, with a packet to *parse*, *ended*. One step
is one access that another goroutine can see. A packet is its message type or `Malformed`.
`Start` tests and sets the flag and begins a goroutine, which is one step because only the
caller of the manager's lock does it; `StartFails` leaves the flag at 1, as the code does when
`pinToCPU` fails or the receiver runs. `Stop` is `StopFlag`, `CloseSocket` and the wait for
`NoReader`.

The wait needs a word. `NewReceiverCore` sets socket options through `conn.File()` and `Fd()`.
The descriptor is a copy, but `Fd` puts the description it shares with the socket in blocking
mode, and the runtime does not know: a read then sits in `recvfrom` instead of the poller,
and `Close`, which counts on the poller to wake readers, waits until the read has let go.

*Manager.* `call` is who holds the write lock (`Start`, its undoing, or `Stop`), `at` and
`last` are its loop variable and bound, `closing` the point of `Stop` of the receiver it is at.
`reading` is `GetMetrics` in the read lock.

*System.* `owner` is the one goroutine that calls `Start` and `Stop`, any number of Stops and
up to `MaxStarts` Starts, one call at a time. `main` itself calls `Start` once, gives up when it
fails and calls `Stop` at a signal; `FirstStart` marks properties that hold in that use only.
`worker` are the processing goroutines (each consumes from any queue: the merger has a module
of its own), `monitor` that of `RunMetricsMonitor`.

## Runs

| Run | Instance | Shows |
|---|---|---|
| `SPSCRingBuffer` | 2 slots, 2 items, 5 messages | bounded FIFO, caches, slot ownership |
| `SequenceMergerInOrder` | 2 streams, own queues of 2, 4 numbers, losses | only lost numbers are skipped, gaps counted once, arrivals delivered |
| `SequenceMergerReorder` | four queues of 2, stream 1 in two of them, stream 2 in one of these; 2 packets each, numbers to 4, heartbeats reporting 3 | ordered delivery, a chosen message that stays in front while others arrive behind it, queues drain |
| `OrderBookOrderly` | 3 orders, 2 prices, fresh ids, buckets that never fill | price-time priority book, no ghosts, cancels find their orders |
| `OrderBookDisorderly` | 2 ids that may be reused, 3 records, 2 prices, quantities 1 and 2, buckets of 1, any message | map, lists, totals and pool stay sound, fills beyond zero leave nothing, orders are lost only to full buckets and reused ids |
| `Contract` | 4 ids of 2 orders each, 3 of them in one bucket of 2; 3 prices, 3 nodes | map and trees answer as promised, buckets packed, lanes nested, best price extreme |
| `OrderbookSystem` | 2 receivers, 1 start, queues of 1, 2 packets or failures, 1 failed read | counters add up, all or none, no reception after a stop, calls return, goroutines end |
| `OrderBookBestLevel` | 2 orders, 2 prices | violation: empty best levels |
| `OrderBookTradeCancel` | 2 orders, 2 prices, trades that happened | violation: an order comes back where it never was |
| `OrderbookSystemQuiet` | 1 receiver, no assumption on the feed | violation: `Stop` does not return |
| `OrderbookSystemRestart` | 1 receiver, 2 starts | violation: a restarted receiver has no socket |
| `OrderbookSystemTypes` | 1 receiver, types `N` and `J` | violation: the filter refuses what the handler handles |

Why the bounds are enough to be interesting: two slots and five messages wrap the
ring more than twice; three records on a level give a front, a middle and an end;
the quantities 1 and 2 fill an order of 1 to one below zero;
one-slot buckets fill with two ids, as eight-slot buckets do with nine; a bucket of two
slots with three ids has an order to shift and one to refuse; three prices with one node
of height 0, which a removal can take away, and the others of height 1 give every shape of
the two lanes in use;
`MaxSpinWaitGap = 1` makes both the spin and the immediate give-up reachable; `Word = 8` is
larger than every legal number, so that only a wrong subtraction wraps; with two receivers
the second can fail after the first began, and the first be closed while the second still
reads; a receiver's queue of one slot is full after one packet, and a merger's of two has room
behind the message that was chosen. The remaining bounds (`MaxHead`,
`MaxSeq`, `MaxPackets`, `MaxErrors`, `MaxQty`, the number of `Ptrs`) stop counters that the
code leaves unbounded. The hash is `OneBucket` or `MCBucket`, with collisions.

Bounds that a property should not depend on are lifted by the theorems: `OrderbookSystem`
runs with one start, `SingleProducer`, `PacketsConserved` and `ReceptionEnds` hold for any
number. The book runs have one contract, because room for three records matters more to the
lists than a second one; that contracts which share the pool do not disturb each other is in
the theorems about `MapIsSound`, `PoolIsDisjoint` and `LossesAccounted`, for any `Tokens`.

Heartbeats: `receiver.go` rejects the type `Z`, and the exchange's heartbeats carry
the number 0, which `DropOld` takes for old. In production, therefore,
`UpdateLastSeq` is not reached. `SequenceMergerReorder` gives the merger what its
interface allows (any number, any report, early or stale), so that the code is right
should the filter be mended.

Fairness. In `SequenceMerger`, `FairSpec` assumes that `processLoop` keeps taking steps. It
is a goroutine locked to its own thread that loops until `Stop`; some step of it is always
enabled, so weak fairness of the whole loop is what the Go scheduler gives. Nothing is assumed
of the network: it may stop at any time, and `QueuesDrain` is what happens then (the bounds
stop it in any case).

In `OrderbookSystem`, `FairSpec` assumes the same of every receiving goroutine (outside the
read), every `processLoop`, the monitor with its ticker, and a call of `Start` or `Stop` on its
way. Nobody has to call anything. Weak fairness is enough for the lock, although the monitor
takes it again and again: `Stop` clears the system's flag before it asks for the lock, so that
the monitor ends. `LiveFeedSpec` adds `Heartbeats`: a read that
waits ends. The protocol promises it ("Heartbeat message will be sent when there is no data
available for a few seconds", `src/Docs/MTBT_FO_NNF_PROTOCL_6.7_0.txt`:942), for every stream
that is up. `CallsReturn` needs it, as `OrderbookSystemQuiet` shows.

Deadlock is checked in every run.

## What the violations say

Each is a disagreement between the code and a comment, a test or the protocol
document, quoted in `PROJECT.json`. Emptied price levels stay in the tree and are returned as
best bid or ask. The cancellation of a trade enters market orders into the book, and restores
filled orders at the trade's price. `Stop` waits for the read of a silent stream, in the
manager's lock. A receiver that is started again has a closed socket, counts failed
reads and receives nothing. The receiver's filter refuses spread cancellations (`J`), which the
handler would apply.

More is visible in the models without a run of its own.

* The spin for small gaps has an empty body (`SpinForGap` finds nothing), so a number that
  waits behind a later one is given up. `TestSequenceOrdering` expects 1, 2, 3 and then the
  other stream's 1; the scan takes the smallest number, the other stream's 1 second.
* The exchange's heartbeats are dropped by number before their type is looked at. The filter
  accepts `H`, which the handler takes for a spread modification, and `S`, for which it has no
  case, and refuses `Z`.
* The comment above `handleTrade` (`message_handler.go:211`) says "(T/K)", and `types.go` has
  `MsgTypeSpreadTrade = 'K'`. Neither the filter nor `ProcessMessage` knows `K`: a spread trade
  reduces no order. The model has no such message either.
* `Depth` loads `head` and then `tail`: a `Dequeue` in between makes the unsigned
  difference nearly 2^64. With `Depth` in the observer's hands only, nothing but a
  printed number is wrong.
* An order whose bucket is full when it arrives rests on its level and is not in the map: no
  fill reduces it, and its cancellation, which by the protocol's FAQ 7 removes the order of that
  id, does not. A New for an id that rests leaves the earlier order in the same way.
  `OrderBookDisorderly` is full of such orders; `NoGhosts` and `CancelRemoves` are claimed of
  fresh ids and buckets that never fill only.
* `remove` of a price takes a level away whether it has orders or not; it has no caller.
* After a failed `Start` the receiver that failed keeps `running = 1`, and a second `Start` gives
  up at it, or at an earlier one, after it has set the flags of others again; a goroutine of the
  first that has not looked yet goes on with a closed socket. This is why the second half of
  `AllOrNone`, and `LoopsEnd`, hold of the first Start only. `main` gives up after it.
* After `Stop` and `Start` two `processLoop`s can run, when the old one has not looked at the flag
  in between. The queue then has two consumers. `main` does not do this; its shutdown
  sleeps 100 ms, which nothing guarantees to be enough.

## Proofs

Every theorem is for all values of the constants, from the named assumptions in the
modules.

* `SPSCRingBufferProofs`. `IndInv` strengthens `CachesAreSafe` by what each side knows
  at each point of its call: a producer at *store* has `phead = head` and
  `head < cachedTail + Size`; a consumer at *load* has `ctail = tail < cachedHead`; and
  every slot between `tail` and `head` holds an item. It is needed because the
  invariants are about counters, while the guards tested them one or more steps ago.
  `NoSlotRace` then is arithmetic: two positions less than `Size` apart are different
  slots (`SlotsDiffer`). `LoadedItemIsFront` is `ConsumerInv` together with it. The
  refinement of `BoundedFIFO` rests on the same facts: publishing `head` is `Accept`, and is
  an `Append` because the slot holds the argument; a full or an empty look decided by a fresh
  load is `Refuse` or `Nothing`; advancing `tail` is `Take`; a store into a slot changes nothing
  between the counters. The sequences are compared element by element (`ContentsIsASeq`).
* `SequenceMergerProofs`. `IndInv` is `TypeOK`, `ScanInv` (what was chosen is at the
  front of its queue; arrivals only append) and `Accounted` (below the next number each
  number was delivered or skipped, `lastAppliedSeq` is below it). The refinement of
  `OrderedDelivery` follows step by step: `DeliverInSequence` is `Deliver`, `GiveUpGap` and
  a heartbeat's gap are `Skip`, everything else stutters.
  That only lost numbers are skipped, and that a gap is counted once, hold for an `OrderlyFeed`:
  a network that keeps the order of each stream, each stream in one queue, no heartbeat that
  reports a number. It is what `main.go` builds (a receiver, a stream and a queue each) and
  `SequenceMergerInOrder` runs; the theorems name it as their hypothesis, and
  `SequenceMergerReorder` shows the merger without it. `FeedInv` is the induction: what waits is
  ahead of the stream's next number (`WaitingIsAhead`) and in order (`WaitingIsSorted`), what is
  neither waiting nor applied is lost (`NothingElseIsMissing`), and behind a declared gap a number
  arrived (`GapIsFollowed`), so that the next gap is another one (`GapsCounted`).
* `OrderBookProofs`, over `OrderBookLemmas`. The lemmas say for each operator which
  orders, fields and structures it changes, and that appending to and unlinking from
  a list, at any place, keep it listed. The inductive `Inv` is `MapIsSound`, `PoolIsDisjoint`,
  and `Listed` together (and `RestingIsOpen`, if `PositiveQuantities`). `Listed` is
  `LinksAgree` with three more: an `OrderCount` is the number of the level's orders (`Counted`), `TotalQty` their sum (`Totalled`), and the list is
  a sequence that has each of them once and that the links follow (`Threaded`). They need one
  another: a cancel may free a record because the map gives out only resting orders, a record from
  the pool may be appended because nothing links to it, and a count stays natural because it
  counts something. Links alone would not do: a ring of orders beside the list agrees with
  all of them; the thread is what excludes it. Nothing is assumed of the messages: ids may be
  reused, buckets may fill, trades may exceed the quantity, quantities may be zero or negative,
  the two sides of a trade may be one order. Only `RestingStaysOpen` has a hypothesis,
  `PositiveQuantities`, without which it is false.
  `NoGhosts` is inductive on top of `Inv` (`Mapped`) for fresh ids and `RoomyBuckets`, a slot
  for each id of a bucket: the two conditions the code does not check and the run assumes.
  `CancelsFindTheirOrder` follows: an order that rests is out of the pool, hence in the map, where
  the cancel finds it and, as the map is sound, unlinks just it (`CancelUnmaps`).
  `LossesStayAccounted` needs neither condition. Every operator but `EnterOrder` loses no order
  (`LosesNone`), since it touches one that the map gives out only; `EnterOrder` loses what `Put`
  refuses or replaces (`Accounts`). In the cancellation of a trade, what the buy side's bucket
  refused must still be without a slot after the sell side (`KeepsFull`).
  The refinement of `LimitOrderBook` holds under the same two. A book shows the
  sequences `r` (`Shows`) when at each level `r` has the ids and quantities of the orders along
  the level's thread. The thread is unique in them (the links determine it), and the walk of
  `Resting` returns it (`WalkFollowsThread`), so a book shows `Resting` and nothing else. Each
  operator then has one lemma that says what the changed book shows: the sequence with an entry
  appended (`AddOrderShows`), removed (`RemoveOrderShows`) or replaced (`ChangeQuantityShows`).
  `NoGhosts` and the soundness of the map make "the id rests in `r`" and "the map has the id" the
  same (`MappedRests`, `UnmappedRestsNot`), hence every branch of a handler the branch its
  message takes in the abstract book (`NewOrderShows`, ..., `NextShows`). Without the conditions
  it is false: `OrderBookDisorderly` has books whose orders no message can reach any more.
* `Induction` has what the library states with operator parameters, for sets: a set of naturals
  has a least element, a set with 0 and every successor has all naturals, a set of subsets that
  grows by one element has every finite set. A proof instantiates them with a comprehension. With
  them, a recursive *function* is proved right by giving a function that solves its equation
  and showing that any other solution equals it: the walk along a list (`WalkFollowsThread`), the
  sum over a set (`SomeSum`), the search along a lane (`LeaveLaneIsLast`) and down the lanes
  (`UpdateIsLast`).

* `OrderbookSystemProofs`. `IndInv` is `TypeOK` with: goroutines are `Numbered` as they begin;
  only the first one of a receiver ever reads (`OnlyFirstReads`); a socket is open for one
  goroutine at most (`OpenOnce`), and that one's flag is 1 unless `Stop` has just stored it
  (`OpenRuns`); where the manager's loop is (`InLoop`); and every call of `Start` begins at
  most one `processLoop` (`CountedStarts`). `OneProducer` alone is not inductive: that `Start`
  cannot begin a second reader rests on `OpenRuns`, hence on both halves of `Stop` happening in
  one call under the lock.
* `OrderbookSystemAccounts`. `PacketsAddUp` is inductive with `IndInv`: a step puts a packet in
  one goroutine's hand or takes it out with one count, and a goroutine that begins has none.
  `AllOrNone` follows from `AllInv`: what the loop of `Start` has achieved (`Achieved`), what the
  first one has left to do and a stop has done (`FirstTime`). `NoReceptionAfterStop` follows
  from `ReceptionInv`: a read in progress is one of an open socket or one that `Close` waits for,
  and an open socket with a goroutine belongs to a running manager or to a call whose loop
  has not come past it.
* `ContractProofs`. `BucketsPacked` is inductive with the types of the map; it makes the match of a
  search unique, for any hash and any bucket size, and the count of a bucket the number of its
  ids (`CountIsHeld`). For the trees, `Sane` is `LanesNested` with the types, one node to a price,
  finitely many nodes, and no link from a node in a lane that does not have it. In a sane tree
  each lane has one last node before a price (`LastIsUnique`, `LastExists`), the search of a
  lane ends there, because every step goes to a later one of finitely many nodes, and the search
  down the lanes has it in each (`UpdateIsLast`): a lane's last node is in the lane below, too.
  That is all `insert` and `remove` rely on: `LaneWithNode`, `LaneWithoutNode` and `LaneUntouched`
  say what they do to one lane, and `remove` unlinks in just the lanes that have the node.
  `GetIsRight` and `FoundIsTheNode` say what `get` and `find` answer; how the answers change with a
  step is the refinement of `ContractIndex`.

Only model-checked: liveness (`ArrivedIsDelivered`, `QueuesDrain`, `CallsReturn`, `LoopsEnd`,
`SystemEnds`), which is out of TLAPS's reach.

## Not modelled, and what is left

Not modelled: CPU pinning and the distribution over cores, socket options, configuration and
printing, which change no state the properties speak of; the decoder, the message and level
pools, the gap buffer and the merger's setters, which have no caller; timestamps and latency;
the bytes of payloads. The length checks in `message_handler.go` are shorter than the bytes
read; that a short message stops the handler is a hazard in the list and not in a model.
Unsynchronised plain reads (`running` in `main.go`, `GetContract`'s map) are steps of their own
where a property depends on their order; the map's internal race is outside the models.
Snapshot and tick recovery exist in the protocol and in comments only.

Left, in the order of their use:

1. Sequence numbers that wrap, without `WordAssumption`, and the ring buffer with several
   producers, as the benchmark uses it.
2. `MessageLayouts`: the length checks against the bytes read.
3. The receivers' queues feeding `SequenceMerger` directly, instead of through its network.
