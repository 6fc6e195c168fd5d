------------------------------- MODULE OrderBook -------------------------------
(***************************************************************************)
(* orderbook.MessageHandler and the structures it keeps: per contract, a   *)
(* map from order id to order and two trees of price levels, each level    *)
(* with an intrusive doubly linked list of its orders; and one pool the    *)
(* order records come from and go back to.                                 *)
(*                                                                         *)
(* Orders are records behind pointers (Ptrs), as in the code, so that a    *)
(* stale pointer or a broken link shows.  One handler goroutine applies    *)
(* the messages one at a time: an action is the whole handler.  Operators  *)
(* take the book and return the book that the Go function leaves.          *)
(* Timestamps are left out; quantities and totals stay far from their      *)
(* widths (int32 and int64) and are integers.                              *)
(***************************************************************************)
EXTENDS Integers, Sequences, FiniteSets, FiniteSetsExt, Functions

CONSTANTS Tokens,      \* contracts
          Ids, NoId,   \* order ids, and the 0 of a trade without that side
          Prices,
          Quantities,  \* what messages carry
          Ptrs, Nil,   \* order records, and the nil pointer
          Bucket,      \* the hash bucket of an id: FastHash64(id) & mask
          BucketSize,
          MaxQty,      \* bound: a trade is cancelled up to this quantity
          FreshIds     \* TRUE: the exchange sends no New for a resting order

Sides == {"Buy", "Sell"}
\* A price level of a contract's bid or ask tree.
Levels == [token : Tokens, side : Sides, price : Prices]

ASSUME NilAssumption == Nil \notin Ptrs /\ Nil \notin Levels /\ NoId \notin Ids
\* No handler looks at the sign of a quantity.
ASSUME QuantityAssumption == Quantities \subseteq Int /\ Prices \subseteq Int
ASSUME BucketAssumption == BucketSize \in Nat \ {0} /\ Ids \subseteq DOMAIN Bucket
ASSUME BoundAssumption == IsFiniteSet(Ptrs) /\ MaxQty \in Nat /\ FreshIds \in BOOLEAN

\* The zero core.Order.
BlankOrder == [id |-> NoId, token |-> Nil, side |-> Nil, price |-> 0, qty |-> 0,
               prev |-> Nil, next |-> Nil, level |-> Nil]
\* A new core.PriceLevel.
EmptyLevel == [total |-> 0, count |-> 0, first |-> Nil, last |-> Nil]

VARIABLE book
(* book.order     : the order record behind each pointer                    *)
(* book.used      : the pointers out of the pool                            *)
(* book.byId      : OrdersById of each contract, Nil for an absent id       *)
(* book.tree      : the levels that are in their tree                       *)
(* book.level     : the level record of each price                          *)
(* book.contracts : the keys of the contracts map                           *)

Init ==
  book = [order |-> [p \in Ptrs |-> BlankOrder],
          used |-> {},
          byId |-> [t \in Tokens |-> [i \in Ids |-> Nil]],
          tree |-> {},
          level |-> [k \in Levels |-> EmptyLevel],
          contracts |-> {}]
--------------------------------------------------------------------------------
(* The pool (allocator.go), the order map and the price trees (orderbook.go). *)

Free(b) == Ptrs \ b.used

\* Mutant: the record stays in the pool as well.
AllocateOrderTwice(b, o, fields) == [b EXCEPT !.order[o] = fields]

\* AllocateOrder and the assignment of the new order's fields.
AllocateOrder(b, o, fields) ==
  [b EXCEPT !.order[o] = fields, !.used = @ \union {o}]

\* The links are cleared, the other fields stay as they are in the pool.
FreeOrder(b, o) ==
  [b EXCEPT !.order[o] = [@ EXCEPT !.prev = Nil, !.next = Nil, !.level = Nil],
            !.used = @ \ {o}]

Get(b, t, i) == b.byId[t][i]

BucketFull(b, t, i) ==
  Cardinality({j \in Ids : Bucket[j] = Bucket[i] /\ Get(b, t, j) # Nil}) >= BucketSize

\* Mutant: an id that the full bucket has is refused as well.
PutWithoutReplacing(b, t, i, o) ==
  IF BucketFull(b, t, i) THEN b ELSE [b EXCEPT !.byId[t][i] = o]

\* Put reports a full bucket, and its callers ignore what it reports.
Put(b, t, i, o) ==
  IF Get(b, t, i) = Nil /\ BucketFull(b, t, i) THEN b
  ELSE [b EXCEPT !.byId[t][i] = o]

Delete(b, t, i) == [b EXCEPT !.byId[t][i] = Nil]

getContract(b, t) == [b EXCEPT !.contracts = @ \union {t}]

\* A level that is in the tree is found again, empty or not.
GetOrCreate(b, k) == [b EXCEPT !.tree = @ \union {k}]
\* getBestBid and getBestAsk: the first level of the tree.
BestBids(b, t) ==
  {k \in b.tree : /\ k.token = t /\ k.side = "Buy"
                  /\ \A j \in b.tree : j.token = t /\ j.side = "Buy" => j.price <= k.price}
BestAsks(b, t) ==
  {k \in b.tree : /\ k.token = t /\ k.side = "Sell"
                  /\ \A j \in b.tree : j.token = t /\ j.side = "Sell" => j.price >= k.price}
--------------------------------------------------------------------------------
(* The list of a level. *)

\* Mutant: at the front of the list.
AddOrderInFront(b, k, o) ==
  LET first == b.level[k].first IN
  [b EXCEPT
     !.order = [p \in Ptrs |->
                  IF p = o
                  THEN [b.order[p] EXCEPT !.level = k, !.prev = Nil, !.next = first]
                  ELSE IF p = first THEN [b.order[p] EXCEPT !.prev = o]
                  ELSE b.order[p]],
     !.level[k] = [first |-> o,
                   last |-> IF first = Nil THEN o ELSE @.last,
                   count |-> @.count + 1,
                   total |-> @.total + b.order[o].qty]]

\* Mutant: OrderCount is not incremented.
AddOrderUncounted(b, k, o) ==
  [AddOrderInFront(b, k, o) EXCEPT !.level[k].count = @ - 1]

\* At the end of the list: time priority.
AddOrderToLevel(b, k, o) ==
  LET last == b.level[k].last IN
  [b EXCEPT
     !.order = [p \in Ptrs |->
                  IF p = o
                  THEN [b.order[p] EXCEPT !.level = k, !.next = Nil, !.prev = last]
                  ELSE IF p = last THEN [b.order[p] EXCEPT !.next = o] ELSE b.order[p]],
     !.level[k] = [first |-> IF last = Nil THEN o ELSE @.first,
                   last |-> o,
                   count |-> @.count + 1,
                   total |-> @.total + b.order[o].qty]]

\* Mutant: the next order keeps its link to the removed one.
RemoveOneWay(b, o) ==
  LET k == b.order[o].level
      prev == b.order[o].prev
      next == b.order[o].next IN
  IF k = Nil THEN b
  ELSE [b EXCEPT
     !.order = [p \in Ptrs |->
                  IF p = o
                  THEN [b.order[p] EXCEPT !.level = Nil, !.next = Nil, !.prev = Nil]
                  ELSE [b.order[p] EXCEPT !.next = IF p = prev THEN next ELSE @]],
     !.level[k] = [first |-> IF prev = Nil THEN next ELSE @.first,
                   last |-> IF next = Nil THEN prev ELSE @.last,
                   count |-> @.count - 1,
                   total |-> @.total - b.order[o].qty]]

RemoveOrderFromLevel(b, o) ==
  LET k == b.order[o].level
      prev == b.order[o].prev
      next == b.order[o].next IN
  IF k = Nil THEN b
  ELSE [b EXCEPT
     !.order = [p \in Ptrs |->
                  IF p = o
                  THEN [b.order[p] EXCEPT !.level = Nil, !.next = Nil, !.prev = Nil]
                  ELSE [b.order[p] EXCEPT !.next = IF p = prev THEN next ELSE @,
                                    !.prev = IF p = next THEN prev ELSE @]],
     !.level[k] = [first |-> IF prev = Nil THEN next ELSE @.first,
                   last |-> IF next = Nil THEN prev ELSE @.last,
                   count |-> @.count - 1,
                   total |-> @.total - b.order[o].qty]]

\* Mutant: the level's total is forgotten.
ChangeOrderOnly(b, o, delta) == [b EXCEPT !.order[o].qty = @ + delta]

\* order.Quantity and, when it rests, its level's TotalQty change together.
ChangeQuantity(b, o, delta) ==
  LET k == b.order[o].level IN
  IF k = Nil THEN [b EXCEPT !.order[o].qty = @ + delta]
  ELSE [b EXCEPT !.order[o].qty = @ + delta, !.level[k].total = @ + delta]
--------------------------------------------------------------------------------
(* The handlers (message_handler.go), as functions of the book.  Where one   *)
(* needs a record from the pool, o is the record it gets.                    *)

LevelKey(t, side, price) == [token |-> t, side |-> side, price |-> price]

\* Mutant: the order is not put into the map.
EnterUnmapped(b, t, i, side, price, qty, o) ==
  LET k == LevelKey(t, side, price)
      fields == [BlankOrder EXCEPT !.id = i, !.token = t, !.side = side,
                                   !.price = price, !.qty = qty]
  IN AddOrderToLevel(GetOrCreate(AllocateOrder(b, o, fields), k), k, o)

\* A new record, into the map and at the end of its level: handleNewOrder,
\* and restoreOrderQuantity when the order is gone.
EnterOrder(b, t, i, side, price, qty, o) ==
  LET k == LevelKey(t, side, price)
      fields == [BlankOrder EXCEPT !.id = i, !.token = t, !.side = side,
                                   !.price = price, !.qty = qty]
      kept == Put(AllocateOrder(b, o, fields), t, i, o)
  IN AddOrderToLevel(GetOrCreate(kept, k), k, o)

handleNewOrder(b, t, i, side, price, qty, o) ==
  EnterOrder(getContract(b, t), t, i, side, price, qty, o)

\* The order moves to the end of the level of its new price.
ChangePrice(b, o, price) ==
  LET k == LevelKey(b.order[o].token, b.order[o].side, price)
      moved == [RemoveOrderFromLevel(b, o) EXCEPT !.order[o].price = price]
  IN AddOrderToLevel(GetOrCreate(moved, k), k, o)

\* Mutant: every modification moves the order to the end of its level.
ModifyAndRequeue(b, t, i, side, price, qty, o) ==
  LET c == getContract(b, t)
      old == Get(c, t, i)
  IN IF old = Nil THEN handleNewOrder(c, t, i, side, price, qty, o)
     ELSE ChangeQuantity(ChangePrice(c, old, price), old, qty - c.order[old].qty)

\* An unknown order is new; a known one keeps its side, whatever the message says.
handleModifyOrder(b, t, i, side, price, qty, o) ==
  LET c == getContract(b, t)
      old == Get(c, t, i)
      repriced == IF c.order[old].price # price THEN ChangePrice(c, old, price) ELSE c
  IN IF old = Nil THEN handleNewOrder(c, t, i, side, price, qty, o)
     ELSE ChangeQuantity(repriced, old, qty - c.order[old].qty)

\* Mutant: the map keeps the order.
DiscardButMapped(b, t, o) == FreeOrder(RemoveOrderFromLevel(b, o), o)

\* Off its level, out of the map, back to the pool.
Discard(b, t, o) ==
  FreeOrder(Delete(RemoveOrderFromLevel(b, o), t, b.order[o].id), o)

\* Mutant: the cancelled order stays on its level.
CancelInMapOnly(b, t, i) == Delete(getContract(b, t), t, i)

handleCancelOrder(b, t, i) ==
  LET c == getContract(b, t) IN
  IF Get(c, t, i) = Nil THEN c ELSE Discard(c, t, Get(c, t, i))

\* Mutant: an order filled to zero stays.
ReduceButKeepZero(b, t, o, qty) ==
  LET c == ChangeQuantity(b, o, -qty) IN
  IF c.order[o].qty < 0 THEN Discard(c, t, o) ELSE c

\* Mutant: only an order filled to zero goes, not one filled beyond.
ReduceButKeepOverfilled(b, t, o, qty) ==
  LET c == ChangeQuantity(b, o, -qty) IN
  IF c.order[o].qty = 0 THEN Discard(c, t, o) ELSE c

reduceOrderQuantity(b, t, o, qty) ==
  LET c == ChangeQuantity(b, o, -qty) IN
  IF c.order[o].qty <= 0 THEN Discard(c, t, o) ELSE c

\* One side of a trade; a market order has id 0 or is not in the book.
ReduceSide(b, t, i, qty) ==
  IF i = NoId THEN b
  ELSE IF Get(b, t, i) = Nil THEN b
  ELSE reduceOrderQuantity(b, t, Get(b, t, i), qty)

handleTrade(b, t, buy, sell, qty) ==
  ReduceSide(ReduceSide(getContract(b, t), t, buy, qty), t, sell, qty)

\* An order that is gone is entered again, at the price of the trade.
restoreOrderQuantity(b, t, i, qty, price, side, o) ==
  IF i = NoId THEN b
  ELSE IF Get(b, t, i) = Nil THEN EnterOrder(b, t, i, side, price, qty, o)
  ELSE ChangeQuantity(b, Get(b, t, i), qty)

\* handleTradeCancel, after the buy side.
RestoreBuy(b, t, buy, qty, price, o) ==
  restoreOrderQuantity(getContract(b, t), t, buy, qty, price, "Buy", o)

handleTradeCancel(b, t, buy, sell, qty, price, o1, o2) ==
  restoreOrderQuantity(RestoreBuy(b, t, buy, qty, price, o1), t, sell, qty, price, "Sell", o2)
--------------------------------------------------------------------------------
(* ProcessMessage: one message. *)

\* The record a handler gets from the pool for order i, if b is to have a new one.
Spare(b, t, i) == IF i # NoId /\ Get(b, t, i) = Nil THEN Free(b) ELSE {Nil}

\* N, and G for spreads.
New(t, i) ==
  /\ FreshIds => Get(book, t, i) = Nil
  /\ \E side \in Sides, price \in Prices, qty \in Quantities, o \in Free(book) :
       book' = handleNewOrder(book, t, i, side, price, qty, o)

\* M, and H.
Modify(t, i) ==
  \E side \in Sides, price \in Prices, qty \in Quantities, o \in Spare(book, t, i) :
    book' = handleModifyOrder(book, t, i, side, price, qty, o)

\* X, and J.
Cancel(t, i) == book' = handleCancelOrder(book, t, i)

\* T.
Trade(t, buy, sell) ==
  \E qty \in Quantities : book' = handleTrade(book, t, buy, sell, qty)

RoomToRestore(b, t, i, qty) ==
  i # NoId /\ Get(b, t, i) # Nil => b.order[Get(b, t, i)].qty + qty <= MaxQty

\* A trade is cancelled.  What the sell side finds, and takes from the pool, is
\* what the buy side left.
CancelTrade(t, buy, sell, qty, price) ==
  /\ RoomToRestore(book, t, buy, qty)
  /\ \E o1 \in Spare(book, t, buy) :
       LET half == RestoreBuy(book, t, buy, qty, price, o1) IN
       /\ RoomToRestore(half, t, sell, qty)
       /\ \E o2 \in Spare(half, t, sell) :
            book' = handleTradeCancel(book, t, buy, sell, qty, price, o1, o2)

\* C.
TradeCancel(t, buy, sell) ==
  \E price \in Prices, qty \in Quantities : CancelTrade(t, buy, sell, qty, price)

Next ==
  \E t \in Tokens :
    \/ \E i \in Ids : New(t, i) \/ Modify(t, i) \/ Cancel(t, i)
    \/ \E buy, sell \in Ids \union {NoId} : Trade(t, buy, sell) \/ TradeCancel(t, buy, sell)

Spec == Init /\ [][Next]_book
--------------------------------------------------------------------------------
(* Properties. *)

OrderRecords ==
  [id : Ids \union {NoId}, token : Tokens \union {Nil}, side : Sides \union {Nil},
   price : Prices \union {0}, qty : Int,
   prev : Ptrs \union {Nil}, next : Ptrs \union {Nil}, level : Levels \union {Nil}]

LevelRecords ==
  [total : Int, count : Nat, first : Ptrs \union {Nil}, last : Ptrs \union {Nil}]

TypeOK ==
  book \in [order : [Ptrs -> OrderRecords], used : SUBSET Ptrs,
            byId : [Tokens -> [Ids -> Ptrs \union {Nil}]],
            tree : SUBSET Levels, level : [Levels -> LevelRecords],
            contracts : SUBSET Tokens]

\* The records whose PriceLevel is k.
OrdersAt(k) == {o \in Ptrs : book.order[o].level = k}

\* Every order the map gives out is out of the pool, is the order of that id,
\* and rests on the level of its own side and price: what a handler unlinks,
\* resizes or frees is what the message names.
MapIsSound ==
  \A t \in Tokens, i \in Ids :
    LET o == Get(book, t, i) IN
    o # Nil => /\ o \in book.used
               /\ book.order[o].id = i /\ book.order[o].token = t
               /\ book.order[o].level =
                    LevelKey(t, book.order[o].side, book.order[o].price)

\* The lists are doubly linked: neighbours name each other and share a level,
\* and the ends are the level's FirstOrder and LastOrder.
LinksAgree ==
  /\ \A o \in Ptrs :
       LET r == book.order[o] IN
       IF r.level = Nil THEN r.prev = Nil /\ r.next = Nil
       ELSE /\ IF r.prev = Nil THEN book.level[r.level].first = o
               ELSE book.order[r.prev].next = o /\ book.order[r.prev].level = r.level
            /\ IF r.next = Nil THEN book.level[r.level].last = o
               ELSE book.order[r.next].prev = o /\ book.order[r.next].level = r.level
  /\ \A k \in Levels :
       LET l == book.level[k] IN
       /\ l.first = Nil <=> l.last = Nil
       /\ l.first # Nil => book.order[l.first].level = k /\ book.order[l.first].prev = Nil
       /\ l.last # Nil => book.order[l.last].level = k /\ book.order[l.last].next = Nil

\* No use after free: nothing rests on a level, and no level is in no tree,
\* with a record that is back in the pool.
PoolIsDisjoint ==
  \A o \in Ptrs : book.order[o].level # Nil =>
    /\ o \in book.used
    /\ book.order[o].level =
         LevelKey(book.order[o].token, book.order[o].side, book.order[o].price)
    /\ book.order[o].level \in book.tree

\* The n-th record of a level's list, walking NextOrder from FirstOrder.
Walk(k) ==
  LET step[n \in 0 .. book.level[k].count] == IF n = 0 THEN book.level[k].first
                         ELSE IF step[n - 1] = Nil THEN Nil
                         ELSE book.order[step[n - 1]].next
  IN [n \in 1 .. book.level[k].count |-> step[n - 1]]

\* OrderCount and TotalQty are the number and the sum of the orders that the
\* level's list reaches, and the list reaches every order of the level, once.
LevelsAddUp ==
  \A k \in Levels :
    LET Quantity(o) == book.order[o].qty IN
    /\ book.level[k].count = Cardinality(OrdersAt(k))
    /\ book.level[k].total = MapThenSumSet(Quantity, OrdersAt(k))
    /\ Range(Walk(k)) = OrdersAt(k)

\* What the feed has to keep to for RestingIsOpen: a New or a Modify of nothing is
\* entered like any other (message_handler.go:122, 178).
PositiveQuantities == \A qty \in Quantities : qty > 0

\* Fully filled orders are gone, overfilled ones too: whatever rests has something
\* left to trade.
RestingIsOpen == \A o \in Ptrs : book.order[o].level # Nil => book.order[o].qty > 0

\* "returns the highest bid price", "deletes a price level if empty"
\* (orderbook.go:316, 340): the best levels are levels with orders on them.
BestLevelsHaveOrders ==
  \A t \in Tokens : \A k \in BestBids(book, t) \union BestAsks(book, t) :
    book.level[k].count > 0

\* Every record out of the pool is in the map, where a cancel will find it.
\* It needs an exchange that reuses no resting id, and buckets that never fill.
NoGhosts ==
  \A o \in book.used : Get(book, book.order[o].token, book.order[o].id) = o

\* The records out of the pool that the map does not give out: no message finds them.
Lost == {o \in book.used : Get(book, book.order[o].token, book.order[o].id) # o}

\* Put had no slot for record o, or gave its slot to a New of the same id.
Refused(o) ==
  LET t == book'.order[o].token  i == book'.order[o].id IN
  Get(book', t, i) = Nil /\ BucketFull(book', t, i)
Replaced(o) ==
  LET t == book'.order[o].token  i == book'.order[o].id IN
  Get(book, t, i) = o /\ Get(book', t, i) # Nil

\* What no exchange and no bucket size excludes: an order that a handler loses was
\* refused by a full bucket or replaced under its id, and what was lost stays on
\* its level as it is, out of reach of every message.
LossesAccounted ==
  [][/\ \A o \in Lost' \ Lost : Refused(o) \/ Replaced(o)
     /\ \A o \in Lost : /\ o \in Lost'
                        /\ book'.order[o].level = book.order[o].level
                        /\ book'.order[o].qty = book.order[o].qty]_book

\* "For Order Cancel messages the client application should consider only the Order Id
\* field and accordingly remove the original order from the order book" (FAQ 7 of the
\* protocol): whenever a cancel comes, no order of its id rests after it.
CancelRemoves ==
  \A t \in Tokens, i \in Ids :
    LET after == handleCancelOrder(book, t, i) IN
    \A o \in Ptrs : after.order[o].level # Nil =>
      ~ (after.order[o].token = t /\ after.order[o].id = i)

\* The abstract book: each level's list, as the ids and quantities on it.
Resting ==
  [k \in Levels |->
     LET records == Walk(k)
     IN [n \in DOMAIN records |-> [id |-> book.order[records[n]].id,
                                    qty |-> book.order[records[n]].qty]]]

\* Under the same conditions the handlers keep price-time priority books.
LOB == INSTANCE LimitOrderBook WITH resting <- Resting
ImplementsLOB == LOB!Spec
================================================================================
