---------------------------- MODULE OrderBookProofs ----------------------------
(***************************************************************************)
(* Theorems about OrderBook.  Inv is inductive: the map gives out only     *)
(* resting orders, what rests is out of the pool, lists are linked,        *)
(* counted and summed up, and quantities are positive if those of the      *)
(* messages are.  Base leaves out the quantities, which are not positive   *)
(* between a fill to zero and the discard.  The last part is the           *)
(* refinement of LimitOrderBook: the lists show its sequences, and each    *)
(* handler is one of its messages.                                         *)
(***************************************************************************)
EXTENDS OrderBookLemmas
--------------------------------------------------------------------------------
(* Map and pool. *)

Sound(b) ==
  \A t \in Tokens, i \in Ids :
    LET o == Get(b, t, i) IN
    o # Nil => /\ o \in b.used
               /\ b.order[o].id = i /\ b.order[o].token = t
               /\ b.order[o].level = LevelKey(t, b.order[o].side, b.order[o].price)
               /\ b.order[o].level # Nil

Disjoint(b) ==
  \A o \in Ptrs : b.order[o].level # Nil =>
    /\ o \in b.used
    /\ b.order[o].level = LevelKey(b.order[o].token, b.order[o].side, b.order[o].price)
    /\ b.order[o].level \in b.tree

Base(b) == b \in Books /\ Sound(b) /\ Disjoint(b) /\ Listed(b)

\* Every order but o that rests is open.
OpenBut(b, o) == \A p \in Ptrs \ {o} : b.order[p].level # Nil => b.order[p].qty > 0
Open(b) == \A p \in Ptrs : b.order[p].level # Nil => b.order[p].qty > 0

\* What the map gives out: facts of one order.
LEMMA SoundAt ==
  ASSUME NEW b, b \in Books, Sound(b), NEW t \in Tokens, NEW i \in Ids,
         NEW o, o = Get(b, t, i), o # Nil
  PROVE  /\ o \in b.used /\ o \in Ptrs
         /\ b.order[o].id = i /\ b.order[o].token = t
         /\ b.order[o].level = LevelKey(t, b.order[o].side, b.order[o].price)
         /\ b.order[o].level # Nil
<1>1. /\ o \in b.used
      /\ b.order[o].id = i /\ b.order[o].token = t
      /\ b.order[o].level = LevelKey(t, b.order[o].side, b.order[o].price)
      /\ b.order[o].level # Nil
  BY Zenon DEF Sound
<1>2. b.used \subseteq Ptrs
  BY DEF Books
<1> QED
  BY <1>1, <1>2

\* Two maps that are the same give out the same.
LEMMA SameMap ==
  ASSUME NEW b, NEW c, c.byId = b.byId, NEW t, NEW i
  PROVE  Get(c, t, i) = Get(b, t, i)
  BY DEF Get

\* A new order from the pool.
LEMMA EnterOrderBase ==
  ASSUME NEW b, Base(b), NEW t \in Tokens, NEW i \in Ids, NEW side \in Sides,
         NEW price \in Prices, NEW qty \in Int, NEW o \in Free(b),
         NEW c, c = EnterOrder(b, t, i, side, price, qty, o)
  PROVE  /\ Base(c) /\ c.used = b.used \union {o}
         /\ \A j \in Ids \ {i} : Get(c, t, j) = Get(b, t, j)
         /\ Open(b) /\ qty > 0 => Open(c)
<1>1. b \in Books /\ Sound(b) /\ Disjoint(b) /\ Listed(b)
      /\ o \in Ptrs /\ o \notin b.used /\ b.order[o].level = Nil
  BY DEF Base, Free, Disjoint
<1>2. /\ c \in Books /\ c.used = b.used \union {o}
      /\ c.tree = b.tree \union {LevelKey(t, side, price)}
      /\ c.byId = b.byId \/ c.byId = [b.byId EXCEPT ![t][i] = o]
      /\ OnlyChanges(b, c, o)
      /\ c.order[o].id = i /\ c.order[o].token = t /\ c.order[o].side = side
      /\ c.order[o].price = price /\ c.order[o].qty = qty
      /\ c.order[o].level = LevelKey(t, side, price) /\ Listed(c)
  BY <1>1, EnterOrderEffect
<1>3. LevelKey(t, side, price) # Nil
  BY NilAssumption DEF LevelKey, Levels
<1>4. Disjoint(c)
  BY <1>1, <1>2 DEF Disjoint, OnlyChanges, SameOrder
<1>5. Sound(c)
  <2> SUFFICES ASSUME NEW u \in Tokens, NEW j \in Ids, NEW p, p = Get(c, u, j), p # Nil
               PROVE  /\ p \in c.used
                      /\ c.order[p].id = j /\ c.order[p].token = u
                      /\ c.order[p].level = LevelKey(u, c.order[p].side, c.order[p].price)
                      /\ c.order[p].level # Nil
    BY DEF Sound
  <2>1. p = Get(b, u, j) \/ (p = o /\ u = t /\ j = i)
    BY <1>1, <1>2 DEF Get, Books
  <2>2. CASE p = o /\ u = t /\ j = i
    BY <2>2, <1>2, <1>3
  <2>3. CASE p = Get(b, u, j)
    <3>1. /\ p \in b.used /\ p \in Ptrs \ {o}
          /\ b.order[p].id = j /\ b.order[p].token = u
          /\ b.order[p].level = LevelKey(u, b.order[p].side, b.order[p].price)
          /\ b.order[p].level # Nil
      BY <1>1, <2>3, SoundAt
    <3> QED
      BY <1>2, <3>1 DEF OnlyChanges, SameOrder
  <2> QED
    BY <2>1, <2>2, <2>3
<1>6. Open(b) /\ qty > 0 => Open(c)
  BY <1>2 DEF Open, OnlyChanges, SameOrder
<1>7. \A j \in Ids \ {i} : Get(c, t, j) = Get(b, t, j)
  BY <1>1, <1>2 DEF Get, Books
<1> QED
  BY <1>2, <1>4, <1>5, <1>6, <1>7 DEF Base

\* An order of the map changes its price.
LEMMA ChangePriceBase ==
  ASSUME NEW b, Base(b), NEW t \in Tokens, NEW i \in Ids, NEW o, o = Get(b, t, i),
         o # Nil, NEW price \in Prices, NEW c, c = ChangePrice(b, o, price)
  PROVE  /\ Base(c) /\ Get(c, t, i) = o /\ c.order[o].qty = b.order[o].qty
         /\ Open(b) => Open(c)
<1> DEFINE k == LevelKey(b.order[o].token, b.order[o].side, price)
<1>1. b \in Books /\ Sound(b) /\ Disjoint(b) /\ Listed(b)
  BY DEF Base
<1>2. /\ o \in b.used /\ o \in Ptrs /\ b.order[o] \in OrderRecords
      /\ b.order[o].id = i /\ b.order[o].token = t
      /\ b.order[o].level = LevelKey(t, b.order[o].side, b.order[o].price)
      /\ b.order[o].level # Nil
  <2>1. b.order[o] \in OrderRecords
    BY <1>1, SoundAt DEF Books
  <2> QED
    BY <1>1, <2>1, SoundAt
<1>3. k \in Levels /\ k # Nil
  BY <1>2, NilAssumption DEF OrderRecords, LevelKey, Levels
<1>4. k = LevelKey(b.order[o].token, b.order[o].side, price)
  OBVIOUS
<1> HIDE DEF k
<1>5. /\ c \in Books /\ c.used = b.used /\ c.tree = b.tree \union {k}
      /\ c.byId = b.byId
      /\ OnlyChanges(b, c, o)
      /\ c.order[o].id = i /\ c.order[o].token = t /\ c.order[o].side = b.order[o].side
      /\ c.order[o].price = price /\ c.order[o].qty = b.order[o].qty /\ c.order[o].level = k
      /\ Listed(c)
  BY <1>1, <1>2, <1>3, <1>4, ChangePriceEffect
<1>6. k = LevelKey(t, c.order[o].side, c.order[o].price)
  BY <1>2, <1>5 DEF k
<1>7. Disjoint(c)
  BY <1>1, <1>2, <1>5, <1>6 DEF Disjoint, OnlyChanges, SameOrder
<1>8. Sound(c)
  <2> SUFFICES ASSUME NEW u \in Tokens, NEW j \in Ids, NEW p, p = Get(c, u, j), p # Nil
               PROVE  /\ p \in c.used
                      /\ c.order[p].id = j /\ c.order[p].token = u
                      /\ c.order[p].level = LevelKey(u, c.order[p].side, c.order[p].price)
                      /\ c.order[p].level # Nil
    BY DEF Sound
  <2>1. /\ p \in b.used /\ p \in Ptrs
        /\ b.order[p].id = j /\ b.order[p].token = u
        /\ b.order[p].level = LevelKey(u, b.order[p].side, b.order[p].price)
        /\ b.order[p].level # Nil
    <3>1. p = Get(b, u, j)
      BY <1>5, SameMap
    <3> QED
      BY <1>1, <3>1, SoundAt
  <2>2. CASE p = o
    BY <1>2, <1>3, <1>5, <1>6, <2>1, <2>2
  <2>3. CASE p # o
    BY <1>5, <2>1, <2>3 DEF OnlyChanges, SameOrder
  <2> QED
    BY <2>2, <2>3
<1>9. Open(b) => Open(c)
  BY <1>2, <1>5 DEF Open, OnlyChanges, SameOrder
<1>10. Get(c, t, i) = o
  BY <1>5 DEF Get
<1> QED
  BY <1>5, <1>7, <1>8, <1>9, <1>10 DEF Base

\* An order of the map changes its quantity.
LEMMA ChangeQuantityBase ==
  ASSUME NEW b, Base(b), NEW t \in Tokens, NEW i \in Ids, NEW o, o = Get(b, t, i),
         o # Nil, NEW delta \in Int, NEW c, c = ChangeQuantity(b, o, delta)
  PROVE  /\ Base(c) /\ c.used = b.used /\ c.byId = b.byId
         /\ c.order[o].qty = b.order[o].qty + delta
         /\ Open(b) => OpenBut(c, o)
         /\ Open(b) /\ b.order[o].qty + delta > 0 => Open(c)
<1>1. b \in Books /\ Sound(b) /\ Disjoint(b) /\ Listed(b)
  BY DEF Base
<1>2. o \in Ptrs /\ b.order[o] \in OrderRecords
  BY <1>1, SoundAt DEF Books
<1>3. /\ c \in Books /\ c.used = b.used /\ c.byId = b.byId /\ c.tree = b.tree
      /\ OnlyChanges(b, c, o)
      /\ SameOrder(c.order[o], [b.order[o] EXCEPT !.qty = @ + delta]) /\ Listed(c)
  BY <1>1, <1>2, ChangeQuantityEffect
<1>4. /\ c.order[o].id = b.order[o].id /\ c.order[o].token = b.order[o].token
      /\ c.order[o].side = b.order[o].side /\ c.order[o].price = b.order[o].price
      /\ c.order[o].level = b.order[o].level /\ c.order[o].qty = b.order[o].qty + delta
  BY <1>2, <1>3 DEF SameOrder, OrderRecords
<1>5. \A p \in Ptrs :
        /\ c.order[p].id = b.order[p].id /\ c.order[p].token = b.order[p].token
        /\ c.order[p].side = b.order[p].side /\ c.order[p].price = b.order[p].price
        /\ c.order[p].level = b.order[p].level
  BY <1>3, <1>4 DEF OnlyChanges, SameOrder
<1>6. Disjoint(c)
  BY <1>1, <1>3, <1>5 DEF Disjoint
<1>7. Sound(c)
  <2> SUFFICES ASSUME NEW u \in Tokens, NEW j \in Ids, NEW p, p = Get(c, u, j), p # Nil
               PROVE  /\ p \in c.used
                      /\ c.order[p].id = j /\ c.order[p].token = u
                      /\ c.order[p].level = LevelKey(u, c.order[p].side, c.order[p].price)
                      /\ c.order[p].level # Nil
    BY DEF Sound
  <2>1. /\ p \in b.used /\ p \in Ptrs
        /\ b.order[p].id = j /\ b.order[p].token = u
        /\ b.order[p].level = LevelKey(u, b.order[p].side, b.order[p].price)
        /\ b.order[p].level # Nil
    <3>1. p = Get(b, u, j)
      BY <1>3, SameMap
    <3> QED
      BY <1>1, <3>1, SoundAt
  <2> QED
    BY <1>3, <1>5, <2>1
<1>8. Open(b) => OpenBut(c, o)
  BY <1>3 DEF Open, OpenBut, OnlyChanges, SameOrder
<1>9. Open(b) /\ b.order[o].qty + delta > 0 => Open(c)
  BY <1>4, <1>8 DEF Open, OpenBut
<1> QED
  BY <1>3, <1>4, <1>6, <1>7, <1>8, <1>9 DEF Base

\* An order of the map is discarded; it may be the one that is filled.
LEMMA DiscardBase ==
  ASSUME NEW b, Base(b), NEW t \in Tokens, NEW i \in Ids, NEW o, o = Get(b, t, i),
         o # Nil, NEW c, c = Discard(b, t, o)
  PROVE  Base(c) /\ (OpenBut(b, o) => Open(c))
<1>1. b \in Books /\ Sound(b) /\ Disjoint(b) /\ Listed(b)
  BY DEF Base
<1>2. o \in Ptrs /\ b.order[o].id = i /\ b.order[o].token = t
  BY <1>1, SoundAt
<1>3. /\ c \in Books /\ c.used = b.used \ {o} /\ c.tree = b.tree
      /\ c.byId = [b.byId EXCEPT ![t][i] = Nil]
      /\ OnlyChanges(b, c, o) /\ c.order[o].level = Nil /\ Listed(c)
  BY <1>1, <1>2, DiscardEffect
<1>4. Disjoint(c)
  BY <1>1, <1>3 DEF Disjoint, OnlyChanges, SameOrder
<1>5. Sound(c)
  <2> SUFFICES ASSUME NEW u \in Tokens, NEW j \in Ids, NEW p, p = Get(c, u, j), p # Nil
               PROVE  /\ p \in c.used
                      /\ c.order[p].id = j /\ c.order[p].token = u
                      /\ c.order[p].level = LevelKey(u, c.order[p].side, c.order[p].price)
                      /\ c.order[p].level # Nil
    BY DEF Sound
  <2>1. p = Get(b, u, j) /\ ~ (u = t /\ j = i)
    BY <1>1, <1>3 DEF Get, Books
  <2>2. /\ p \in b.used /\ p \in Ptrs
        /\ b.order[p].id = j /\ b.order[p].token = u
        /\ b.order[p].level = LevelKey(u, b.order[p].side, b.order[p].price)
        /\ b.order[p].level # Nil
    BY <1>1, <2>1, SoundAt
  <2>3. p # o
    BY <1>2, <2>1, <2>2
  <2> QED
    BY <1>3, <2>2, <2>3 DEF OnlyChanges, SameOrder
<1>6. OpenBut(b, o) => Open(c)
  BY <1>3 DEF OpenBut, Open, OnlyChanges, SameOrder
<1> QED
  BY <1>3, <1>4, <1>5, <1>6 DEF Base
--------------------------------------------------------------------------------
(* The handlers. *)

Inv(b) == Base(b) /\ (PositiveQuantities => Open(b))

\* What a message carries.
LEMMA MessageQuantity ==
  ASSUME NEW qty \in Quantities
  PROVE  qty \in Int /\ (PositiveQuantities => qty > 0)
BY QuantityAssumption DEF PositiveQuantities

\* What the map gives out is an order with a quantity.
LEMMA MappedOrder ==
  ASSUME NEW b, Inv(b), NEW t \in Tokens, NEW i \in Ids, NEW o, o = Get(b, t, i), o # Nil
  PROVE  /\ o \in Ptrs /\ b.order[o].qty \in Int
         /\ PositiveQuantities => b.order[o].qty > 0
<1>1. o \in Ptrs /\ b.order[o].level # Nil
  BY SoundAt DEF Inv, Base
<1> QED
  BY <1>1 DEF Inv, Base, Open, Books, OrderRecords

\* A new contract is empty.
LEMMA GetContractInv ==
  ASSUME NEW b, Inv(b), NEW t \in Tokens, NEW c, c = getContract(b, t)
  PROVE  Inv(c) /\ c.used = b.used /\ c.byId = b.byId /\ c.order = b.order
<1>1. b \in Books /\ Sound(b) /\ Disjoint(b) /\ Listed(b)
  BY DEF Inv, Base
<1>2. /\ c \in Books /\ c.used = b.used /\ c.byId = b.byId /\ c.order = b.order
      /\ c.tree = b.tree /\ c.level = b.level
  BY <1>1 DEF getContract, Books
<1>3. Sound(c) /\ Disjoint(c) /\ (Open(b) => Open(c))
  <2>1. Sound(c)
    <3> SUFFICES ASSUME NEW u \in Tokens, NEW j \in Ids, NEW p, p = Get(c, u, j), p # Nil
                 PROVE  /\ p \in c.used
                        /\ c.order[p].id = j /\ c.order[p].token = u
                        /\ c.order[p].level = LevelKey(u, c.order[p].side, c.order[p].price)
                        /\ c.order[p].level # Nil
      BY DEF Sound
    <3>1. p = Get(b, u, j)
      BY <1>2, SameMap
    <3> QED
      BY <1>1, <1>2, <3>1, SoundAt
  <2>2. Disjoint(c) /\ (Open(b) => Open(c))
    BY <1>1, <1>2 DEF Disjoint, Open
  <2> QED
    BY <2>1, <2>2
<1>4. SameLists(b, c)
  BY <1>2 DEF SameLists, SameLinks
<1>5. Listed(c)
  BY <1>1, <1>2, <1>4, SameListsListed
<1> QED
  BY <1>2, <1>3, <1>5 DEF Inv, Base

\* handleNewOrder, also when the id is taken or the bucket is full.
LEMMA NewOrderInv ==
  ASSUME NEW b, Inv(b), NEW t \in Tokens, NEW i \in Ids, NEW side \in Sides,
         NEW price \in Prices, NEW qty \in Quantities, NEW o \in Free(b)
  PROVE  Inv(handleNewOrder(b, t, i, side, price, qty, o))
<1> DEFINE c == getContract(b, t)
<1>1. Inv(c) /\ o \in Free(c)
  BY GetContractInv DEF Free
<1>2. qty \in Int /\ (PositiveQuantities => qty > 0)
  BY MessageQuantity
<1> HIDE DEF c
<1>3. Inv(EnterOrder(c, t, i, side, price, qty, o))
  BY <1>1, <1>2, EnterOrderBase DEF Inv
<1> QED
  BY <1>3 DEF handleNewOrder, c

\* handleModifyOrder.
LEMMA ModifyOrderInv ==
  ASSUME NEW b, Inv(b), NEW t \in Tokens, NEW i \in Ids, NEW side \in Sides,
         NEW price \in Prices, NEW qty \in Quantities, NEW o,
         Get(b, t, i) = Nil => o \in Free(b)
  PROVE  Inv(handleModifyOrder(b, t, i, side, price, qty, o))
<1> DEFINE c == getContract(b, t)
           old == Get(c, t, i)
           repriced == IF c.order[old].price # price THEN ChangePrice(c, old, price) ELSE c
           resized == ChangeQuantity(repriced, old, qty - c.order[old].qty)
<1>1. Inv(c) /\ (old = Nil => o \in Free(c))
  BY GetContractInv DEF Free, Get
<1>2. CASE old = Nil
  <2>1. Inv(handleNewOrder(c, t, i, side, price, qty, o))
    BY <1>1, <1>2, NewOrderInv
  <2> QED
    BY <1>2, <2>1 DEF handleModifyOrder
<1>3. CASE old # Nil
  <2>1. qty \in Int /\ (PositiveQuantities => qty > 0) /\ c.order[old].qty \in Int
    BY <1>1, <1>3, MappedOrder, MessageQuantity
  <2>2. handleModifyOrder(b, t, i, side, price, qty, o) = resized
    BY <1>3 DEF handleModifyOrder
  <2> HIDE DEF c
  <2>3. Inv(repriced) /\ old = Get(repriced, t, i) /\ repriced.order[old].qty = c.order[old].qty
    <3>1. CASE c.order[old].price # price
      <4> DEFINE d == ChangePrice(c, old, price)
      <4>1. /\ Base(d) /\ Get(d, t, i) = old /\ d.order[old].qty = c.order[old].qty
            /\ Open(c) => Open(d)
        BY <1>1, <1>3, ChangePriceBase DEF Inv
      <4> QED
        BY <1>1, <3>1, <4>1 DEF Inv
    <3>2. CASE c.order[old].price = price
      BY <1>1, <3>2
    <3> QED
      BY <3>1, <3>2
  <2> HIDE DEF repriced, old
  <2>4. /\ Base(resized)
        /\ Open(repriced) /\ repriced.order[old].qty + (qty - c.order[old].qty) > 0
             => Open(resized)
    BY <1>3, <2>1, <2>3, ChangeQuantityBase DEF Inv
  <2>5. Inv(resized)
    BY <2>1, <2>3, <2>4 DEF Inv
  <2> QED
    BY <2>2, <2>5
<1> QED
  BY <1>2, <1>3

\* handleCancelOrder.
LEMMA CancelOrderInv ==
  ASSUME NEW b, Inv(b), NEW t \in Tokens, NEW i \in Ids
  PROVE  Inv(handleCancelOrder(b, t, i))
<1> DEFINE c == getContract(b, t)
<1>1. Inv(c)
  BY GetContractInv
<1> HIDE DEF c
<1>2. Get(c, t, i) # Nil => Inv(Discard(c, t, Get(c, t, i)))
  BY <1>1, DiscardBase DEF Inv, Open, OpenBut
<1> QED
  BY <1>1, <1>2 DEF handleCancelOrder, c

\* One side of handleTrade, filled partly, fully or beyond.
LEMMA ReduceSideInv ==
  ASSUME NEW b, Inv(b), NEW t \in Tokens, NEW i \in Ids \union {NoId},
         NEW qty \in Quantities
  PROVE  Inv(ReduceSide(b, t, i, qty))
<1> DEFINE o == Get(b, t, i)
           c == ChangeQuantity(b, o, -qty)
<1> SUFFICES ASSUME i # NoId, o # Nil
             PROVE  Inv(reduceOrderQuantity(b, t, o, qty))
  BY DEF ReduceSide
<1>1. b.order[o].qty \in Int /\ -qty \in Int
  BY MappedOrder, QuantityAssumption
<1>2. /\ Base(c) /\ Get(c, t, i) = o /\ c.order[o].qty = b.order[o].qty + -qty
      /\ PositiveQuantities => OpenBut(c, o)
      /\ PositiveQuantities /\ b.order[o].qty + -qty > 0 => Open(c)
  <2> HIDE DEF c
  <2>1. c = ChangeQuantity(b, o, -qty)
    BY DEF c
  <2> QED
    BY <1>1, <2>1, ChangeQuantityBase DEF Inv, Get
<1>3. reduceOrderQuantity(b, t, o, qty) = IF c.order[o].qty <= 0 THEN Discard(c, t, o) ELSE c
  BY DEF reduceOrderQuantity
<1> HIDE DEF c, o
<1>4. Inv(Discard(c, t, o))
  BY <1>2, DiscardBase DEF Inv
<1> QED
  BY <1>1, <1>2, <1>3, <1>4 DEF Inv

\* handleTrade.
LEMMA TradeInv ==
  ASSUME NEW b, Inv(b), NEW t \in Tokens, NEW buy \in Ids \union {NoId},
         NEW sell \in Ids \union {NoId}, NEW qty \in Quantities
  PROVE  Inv(handleTrade(b, t, buy, sell, qty))
BY GetContractInv, ReduceSideInv DEF handleTrade

\* One side of handleTradeCancel; o is the record it takes, if it takes one.
LEMMA RestoreInv ==
  ASSUME NEW b, Inv(b), NEW t \in Tokens, NEW i \in Ids \union {NoId},
         NEW side \in Sides, NEW price \in Prices, NEW qty \in Quantities, NEW o,
         i \in Ids /\ Get(b, t, i) = Nil => o \in Free(b),
         NEW c, c = restoreOrderQuantity(b, t, i, qty, price, side, o)
  PROVE  /\ Inv(c) /\ c.used \subseteq b.used \union {o}
         /\ \A j \in Ids \ {i} : Get(c, t, j) = Get(b, t, j)
<1>1. qty \in Int /\ (PositiveQuantities => qty > 0)
  BY MessageQuantity
<1>2. CASE i = NoId
  BY <1>2 DEF restoreOrderQuantity
<1>3. CASE i # NoId /\ Get(b, t, i) = Nil
  <2>1. c = EnterOrder(b, t, i, side, price, qty, o)
    BY <1>3 DEF restoreOrderQuantity
  <2> QED
    BY <1>1, <1>3, <2>1, EnterOrderBase DEF Inv
<1>4. CASE i # NoId /\ Get(b, t, i) # Nil
  <2> DEFINE old == Get(b, t, i)
  <2>1. c = ChangeQuantity(b, old, qty)
    BY <1>4 DEF restoreOrderQuantity
  <2>2. /\ old \in Ptrs /\ b.order[old].qty \in Int
        /\ PositiveQuantities => b.order[old].qty + qty > 0
    BY <1>1, <1>4, MappedOrder
  <2>3. /\ Base(c) /\ c.used = b.used /\ c.byId = b.byId
        /\ PositiveQuantities => Open(c)
    BY <1>1, <1>4, <2>1, <2>2, ChangeQuantityBase DEF Inv
  <2> QED
    BY <2>3 DEF Inv, Get
<1> QED
  BY <1>2, <1>3, <1>4

\* The records that the two sides of a cancelled trade take from the pool; both take
\* one when it names an order twice that no bucket has room for.
Takes(b, t, buy, sell, qty, price, o1, o2) ==
  LET half == RestoreBuy(b, t, buy, qty, price, o1) IN
  /\ buy \in Ids /\ Get(b, t, buy) = Nil => o1 \in Free(b)
  /\ sell \in Ids /\ Get(half, t, sell) = Nil => o2 \in Free(half)

\* handleTradeCancel, whatever its two sides name.
LEMMA TradeCancelInv ==
  ASSUME NEW b, Inv(b), NEW t \in Tokens, NEW buy \in Ids \union {NoId},
         NEW sell \in Ids \union {NoId}, NEW price \in Prices, NEW qty \in Quantities,
         NEW o1, NEW o2, Takes(b, t, buy, sell, qty, price, o1, o2)
  PROVE  Inv(handleTradeCancel(b, t, buy, sell, qty, price, o1, o2))
<1> DEFINE c == getContract(b, t)
           d == restoreOrderQuantity(c, t, buy, qty, price, "Buy", o1)
           e == restoreOrderQuantity(d, t, sell, qty, price, "Sell", o2)
<1>1. "Buy" \in Sides /\ "Sell" \in Sides
  BY DEF Sides
<1>2. Inv(c) /\ c.used = b.used /\ c.byId = b.byId
  BY GetContractInv
<1> HIDE DEF c
<1>3. buy \in Ids /\ Get(c, t, buy) = Nil => o1 \in Free(c)
  BY <1>2 DEF Free, Get, Takes
<1>4. Inv(d)
  BY <1>1, <1>2, <1>3, RestoreInv
<1>5. sell \in Ids /\ Get(d, t, sell) = Nil => o2 \in Free(d)
  BY DEF Takes, RestoreBuy, c
<1> HIDE DEF d
<1>6. Inv(e)
  BY <1>1, <1>4, <1>5, RestoreInv
<1> QED
  BY <1>6 DEF handleTradeCancel, RestoreBuy, c, d
--------------------------------------------------------------------------------
\* The empty book.
LEMMA InitInv == Init => Inv(book)
<1> SUFFICES ASSUME Init PROVE Inv(book)
  OBVIOUS
<1>1. BlankOrder \in OrderRecords /\ BlankOrder.level = Nil
  BY DEF BlankOrder, OrderRecords
<1>2. EmptyLevel \in LevelRecordsLoose
  BY DEF EmptyLevel, LevelRecordsLoose, Refs
<1>3. book \in Books
  BY <1>1, <1>2 DEF Init, Books, Refs
<1>4. Sound(book) /\ Disjoint(book) /\ Open(book)
  BY <1>1 DEF Init, Sound, Disjoint, Open, Get
<1>5. Linked(book)
  BY DEF Init, Linked, FreeUnlinked, PrevLinked, NextLinked, EndsLinked, BlankOrder,
         EmptyLevel
<1>6. Counted(book)
  <2> SUFFICES ASSUME NEW k \in Levels
               PROVE  book.level[k].count = Cardinality(At(book, k))
    BY DEF Counted
  <2>1. At(book, k) = {}
    BY NilAssumption DEF Init, At, BlankOrder
  <2> QED
    BY <2>1, FS_EmptySet DEF Init, EmptyLevel
<1>7. ASSUME NEW k \in Levels
      PROVE  /\ Thread(book, k, << >>)
             /\ book.level[k].total = Total(book, At(book, k))
  <2>1. At(book, k) = {} /\ book.level[k] = EmptyLevel
    BY NilAssumption DEF Init, At, BlankOrder
  <2>2. Thread(book, k, << >>)
    BY <2>1 DEF Thread, EmptyLevel
  <2>3. Total(book, {}) = 0
    BY <1>3, TotalSplits
  <2> QED
    BY <2>1, <2>2, <2>3 DEF EmptyLevel
<1>8. Threaded(book) /\ Totalled(book)
  BY <1>7 DEF Threaded, Totalled
<1> QED
  BY <1>3, <1>4, <1>5, <1>6, <1>8 DEF Inv, Base, Listed, Chained

\* What TradeCancel takes from the pool.
LEMMA TradeCancelTakes ==
  ASSUME NEW t \in Tokens, NEW buy \in Ids \union {NoId}, NEW sell \in Ids \union {NoId},
         TradeCancel(t, buy, sell)
  PROVE  \E price \in Prices, qty \in Quantities : \E o1, o2 :
           /\ Takes(book, t, buy, sell, qty, price, o1, o2)
           /\ book' = handleTradeCancel(book, t, buy, sell, qty, price, o1, o2)
<1>1. PICK price \in Prices, qty \in Quantities : CancelTrade(t, buy, sell, qty, price)
  BY DEF TradeCancel
<1>2. PICK o1 \in Spare(book, t, buy) :
             \E o2 \in Spare(RestoreBuy(book, t, buy, qty, price, o1), t, sell) :
               book' = handleTradeCancel(book, t, buy, sell, qty, price, o1, o2)
  BY <1>1 DEF CancelTrade
<1>3. PICK o2 \in Spare(RestoreBuy(book, t, buy, qty, price, o1), t, sell) :
             book' = handleTradeCancel(book, t, buy, sell, qty, price, o1, o2)
  BY <1>2
<1>4. Takes(book, t, buy, sell, qty, price, o1, o2)
  BY NilAssumption DEF Takes, Spare
<1> QED
  BY <1>3, <1>4

\* Every message.
LEMMA NextInv == Inv(book) /\ [Next]_book => Inv(book')
<1> SUFFICES ASSUME Inv(book), [Next]_book PROVE Inv(book')
  OBVIOUS
<1>1. CASE UNCHANGED book
  BY <1>1
<1>2. ASSUME NEW t \in Tokens, NEW i \in Ids, New(t, i)
      PROVE  Inv(book')
  BY <1>2, NewOrderInv DEF New
<1>3. ASSUME NEW t \in Tokens, NEW i \in Ids, Modify(t, i)
      PROVE  Inv(book')
  <2>1. PICK side \in Sides, price \in Prices, qty \in Quantities, o \in Spare(book, t, i) :
               book' = handleModifyOrder(book, t, i, side, price, qty, o)
    BY <1>3 DEF Modify
  <2>2. Get(book, t, i) = Nil => o \in Free(book)
    BY NilAssumption DEF Spare
  <2> QED
    BY <2>1, <2>2, ModifyOrderInv
<1>4. ASSUME NEW t \in Tokens, NEW i \in Ids, Cancel(t, i)
      PROVE  Inv(book')
  BY <1>4, CancelOrderInv DEF Cancel
<1>5. ASSUME NEW t \in Tokens, NEW buy \in Ids \union {NoId},
             NEW sell \in Ids \union {NoId}, Trade(t, buy, sell)
      PROVE  Inv(book')
  BY <1>5, TradeInv DEF Trade
<1>6. ASSUME NEW t \in Tokens, NEW buy \in Ids \union {NoId},
             NEW sell \in Ids \union {NoId}, TradeCancel(t, buy, sell)
      PROVE  Inv(book')
  <2>1. PICK price \in Prices, qty \in Quantities : \E o1, o2 :
               /\ Takes(book, t, buy, sell, qty, price, o1, o2)
               /\ book' = handleTradeCancel(book, t, buy, sell, qty, price, o1, o2)
    BY <1>6, TradeCancelTakes
  <2>2. PICK o1, o2 :
               /\ Takes(book, t, buy, sell, qty, price, o1, o2)
               /\ book' = handleTradeCancel(book, t, buy, sell, qty, price, o1, o2)
    BY <2>1
  <2> QED
    BY <1>6, <2>1, <2>2, TradeCancelInv
<1> QED
  BY <1>1, <1>2, <1>3, <1>4, <1>5, <1>6 DEF Next

\* The inductive invariant holds.
IndInv == Inv(book)
LEMMA InvHolds == Spec => []IndInv
<1>1. Init => IndInv
  BY InitInv DEF IndInv
<1>2. IndInv /\ [Next]_book => IndInv'
  BY NextInv DEF IndInv
<1> QED
  BY <1>1, <1>2, PTL DEF Spec

\* The map gives out only orders that rest where they say: MapIsSound, of
\* the handlers under any sequence of messages.
THEOREM MapStaysSound == Spec => []MapIsSound
<1>1. IndInv => MapIsSound
  BY DEF IndInv, Inv, Base, Sound, MapIsSound
<1> QED
  BY <1>1, InvHolds, PTL

\* No record serves the pool and a price level at once: PoolIsDisjoint.
THEOREM PoolStaysDisjoint == Spec => []PoolIsDisjoint
<1>1. IndInv => PoolIsDisjoint
  BY DEF IndInv, Inv, Base, Disjoint, PoolIsDisjoint
<1> QED
  BY <1>1, InvHolds, PTL

\* When messages carry positive quantities only, which the handlers do not check,
\* none leaves an order without quantity on a level, however far a trade overfills
\* it: RestingIsOpen.
THEOREM RestingStaysOpen == ASSUME PositiveQuantities PROVE Spec => []RestingIsOpen
<1>1. IndInv => RestingIsOpen
  BY DEF IndInv, Inv, Open, RestingIsOpen
<1> QED
  BY <1>1, InvHolds, PTL

\* Handlers keep every level's list doubly linked, whatever is added to it,
\* taken from it or moved to another: LinksAgree.
THEOREM LinksStayAgreed == Spec => []LinksAgree
<1>1. IndInv => LinksAgree
  BY DEF IndInv, Inv, Base, Listed, Chained, Linked, FreeUnlinked, PrevLinked, NextLinked,
         EndsLinked, LinksAgree
<1> QED
  BY <1>1, InvHolds, PTL

\* Every record of the book keeps its type; an OrderCount is the number of the
\* level's orders, and so never negative: TypeOK.
THEOREM TypeCorrect == Spec => []TypeOK
<1>1. ASSUME IndInv
      PROVE  TypeOK
  <2>1. book \in Books /\ Counted(book)
    BY <1>1 DEF IndInv, Inv, Base, Listed, Chained
  <2>2. \A k \in Levels : book.level[k].count \in Nat
    <3> TAKE k \in Levels
    <3>1. IsFiniteSet(At(book, k))
      BY BoundAssumption, FS_Subset DEF At
    <3> QED
      BY <2>1, <3>1, FS_CardinalityType DEF Counted
  <2>3. book.level \in [Levels -> LevelRecords]
    BY <2>1, <2>2 DEF Books, LevelRecordsLoose, LevelRecords, Refs
  <2> QED
    BY <2>1, <2>3 DEF Books, TypeOK, Refs
<1> QED
  BY <1>1, InvHolds, PTL
--------------------------------------------------------------------------------
(* What a level reports. *)

\* Walking NextOrder from FirstOrder meets the orders of the level in sequence.
LEMMA WalkFollowsThread ==
  ASSUME book \in Books, Listed(book), NEW k \in Levels, NEW w, Thread(book, k, w)
  PROVE  Walk(k) = w
<1> DEFINE count == book.level[k].count
           Next1(p) == IF p = Nil THEN Nil ELSE book.order[p].next
           f == [n \in 0 .. count |-> IF n < count THEN w[n + 1] ELSE Nil]
<1>1. /\ count \in Nat /\ Nil \notin Ptrs /\ At(book, k) \subseteq Ptrs
      /\ book.level[k].first = IF count = 0 THEN Nil ELSE w[1]
  BY Counts, ThreadEnds, NilAssumption DEF Listed
<1>2. /\ w \in [1 .. count -> At(book, k)]
      /\ \A n \in 1 .. count : book.order[w[n]].next = IF n < count THEN w[n + 1] ELSE Nil
  BY DEF Thread
<1> HIDE DEF count
<1>3. f[0] = book.level[k].first
  BY <1>1
<1>4. ASSUME NEW n \in 0 .. count, n # 0
      PROVE  n - 1 \in 0 .. count /\ f[n] = Next1(f[n - 1])
  <2>1. n \in 1 .. count /\ f[n - 1] = w[n] /\ w[n] # Nil /\ n - 1 \in 0 .. count
    BY <1>1, <1>2, <1>4
  <2>2. f[n] = IF n < count THEN w[n + 1] ELSE Nil
    OBVIOUS
  <2> HIDE DEF f
  <2> QED
    BY <1>2, <2>1, <2>2
<1>5. f = [n \in 0 .. count |-> IF n = 0 THEN book.level[k].first ELSE Next1(f[n - 1])]
  <2> DEFINE g == [n \in 0 .. count |->
                     IF n = 0 THEN book.level[k].first ELSE Next1(f[n - 1])]
  <2>1. \A n \in 0 .. count : f[n] = g[n]
    <3> HIDE DEF f, Next1
    <3> QED
      BY <1>3, <1>4
  <2>2. DOMAIN f = 0 .. count /\ f = [n \in DOMAIN f |-> f[n]]
    OBVIOUS
  <2> HIDE DEF f, Next1
  <2> QED
    BY <2>1, <2>2
<1>6. PICK h : /\ h = [n \in 0 .. count |-> IF n = 0 THEN book.level[k].first
                                            ELSE IF h[n - 1] = Nil THEN Nil
                                            ELSE book.order[h[n - 1]].next]
               /\ Walk(k) = [n \in 1 .. count |-> h[n - 1]]
  <2> HIDE DEF f
  <2> QED
    BY <1>5 DEF Walk, count
<1> DEFINE N == {n \in Nat : n <= count => h[n] = f[n]}
<1>7. 0 \in N
  <2> HIDE DEF f
  <2> QED
    BY <1>1, <1>3, <1>6
<1>8. ASSUME NEW n \in Nat, n \in N
      PROVE  n + 1 \in N
  <2> SUFFICES ASSUME n + 1 <= count
               PROVE  h[n + 1] = f[n + 1]
    OBVIOUS
  <2>1. n + 1 \in 0 .. count /\ n + 1 # 0 /\ (n + 1) - 1 = n /\ n <= count
    BY <1>1
  <2>2. f[n + 1] = Next1(f[n]) /\ h[n] = f[n]
    <3> HIDE DEF f, Next1
    <3> QED
      BY <1>4, <1>8, <2>1
  <2>3. h[n + 1] = Next1(h[n])
    BY <1>6, <2>1
  <2> HIDE DEF f, Next1
  <2> QED
    BY <2>2, <2>3
<1>9. Nat \subseteq N
  <2> HIDE DEF N
  <2> QED
    BY <1>7, <1>8, NaturalSet
<1>10. ASSUME NEW n \in 1 .. count
       PROVE  h[n - 1] = w[n]
  <2>1. n - 1 \in Nat /\ n - 1 <= count /\ n - 1 < count /\ (n - 1) + 1 = n
    BY <1>1
  <2>2. h[n - 1] = f[n - 1]
    BY <1>9, <2>1
  <2>3. f[n - 1] = w[n]
    BY <1>1, <2>1
  <2> QED
    BY <2>2, <2>3
<1>11. w = [n \in 1 .. count |-> w[n]]
  BY <1>2
<1> QED
  BY <1>6, <1>10, <1>11

\* OrderCount, TotalQty and the list of a level agree with the orders that rest
\* on it, under every handler: LevelsAddUp.
THEOREM LevelsStayAddedUp == Spec => []LevelsAddUp
<1>1. ASSUME IndInv
      PROVE  LevelsAddUp
  <2>1. book \in Books /\ Listed(book)
    BY <1>1 DEF IndInv, Inv, Base
  <2> SUFFICES ASSUME NEW k \in Levels
               PROVE  LET Quantity(o) == book.order[o].qty IN
                      /\ book.level[k].count = Cardinality(OrdersAt(k))
                      /\ book.level[k].total = MapThenSumSet(Quantity, OrdersAt(k))
                      /\ Range(Walk(k)) = OrdersAt(k)
    BY DEF LevelsAddUp
  <2>2. OrdersAt(k) = At(book, k)
    BY DEF OrdersAt, At
  <2>3. book.level[k].count = Cardinality(At(book, k))
    BY <2>1, Counts DEF Listed
  <2>4. book.level[k].total = MapThenSumSet(LAMBDA o : book.order[o].qty, At(book, k))
    BY <2>1 DEF Listed, Totalled, Total
  <2>5. PICK w : Thread(book, k, w)
    BY <2>1 DEF Listed, Threaded
  <2>6. Walk(k) = w
    BY <2>1, <2>5, WalkFollowsThread
  <2>7. Range(w) = At(book, k)
    BY <2>5 DEF Thread, Range
  <2> QED
    BY <2>2, <2>3, <2>4, <2>6, <2>7
<1> QED
  BY <1>1, InvHolds, PTL
--------------------------------------------------------------------------------
(* No ghosts: a record out of the pool is where the map says.  The exchange    *)
(* reuses no id of a resting order, and no bucket has more ids than it holds.  *)

\* A bucket has a slot for each of its ids.
RoomyBuckets ==
  \A i \in Ids : LET rivals == {j \in Ids : Bucket[j] = Bucket[i]}
                 IN  IsFiniteSet(rivals) /\ Cardinality(rivals) <= BucketSize

Mapped(b) ==
  \A o \in b.used : /\ b.order[o].token \in Tokens /\ b.order[o].id \in Ids
                    /\ Get(b, b.order[o].token, b.order[o].id) = o

\* A roomy bucket takes every id that it does not have.
LEMMA RoomForNew ==
  ASSUME RoomyBuckets, NEW b, NEW t \in Tokens, NEW i \in Ids, Get(b, t, i) = Nil
  PROVE  ~ BucketFull(b, t, i)
<1> DEFINE rivals == {j \in Ids : Bucket[j] = Bucket[i]}
           taken == {j \in Ids : Bucket[j] = Bucket[i] /\ Get(b, t, j) # Nil}
<1>1. IsFiniteSet(rivals) /\ Cardinality(rivals) <= BucketSize
  BY DEF RoomyBuckets
<1>2. taken \subseteq rivals /\ i \in rivals /\ i \notin taken
  OBVIOUS
<1>3. BucketFull(b, t, i) <=> Cardinality(taken) >= BucketSize
  BY DEF BucketFull
<1> HIDE DEF rivals, taken
<1>4. taken \subseteq rivals \ {i} /\ IsFiniteSet(rivals \ {i})
      /\ Cardinality(rivals \ {i}) = Cardinality(rivals) - 1
  BY <1>1, <1>2, FS_RemoveElement
<1>5. IsFiniteSet(taken) /\ Cardinality(taken) <= Cardinality(rivals \ {i})
  BY <1>4, FS_Subset
<1>6. Cardinality(taken) \in Nat /\ Cardinality(rivals) \in Nat /\ BucketSize \in Nat
  BY <1>1, <1>5, FS_CardinalityType, BucketAssumption
<1> QED
  BY <1>1, <1>3, <1>4, <1>5, <1>6

\* EnterOrder enters the order into the map, if there is room for it.
LEMMA EnterOrderMap ==
  ASSUME NEW b \in Books, NEW t \in Tokens, NEW i \in Ids, NEW side, NEW price, NEW qty,
         NEW o \in Ptrs
  PROVE  EnterOrder(b, t, i, side, price, qty, o).byId =
           IF Get(b, t, i) = Nil /\ BucketFull(b, t, i) THEN b.byId
           ELSE [b.byId EXCEPT ![t][i] = o]
<1> DEFINE r == EnteredOrder(t, i, side, price, qty)
           k == LevelKey(t, side, price)
           allocated == AllocateOrder(b, o, r)
           kept == Put(allocated, t, i, o)
           treed == GetOrCreate(kept, k)
           c == AddOrderToLevel(treed, k, o)
           refused == Get(b, t, i) = Nil /\ BucketFull(b, t, i)
<1>1. allocated.byId = b.byId
  BY DEF AllocateOrder, Books
<1>2. refused <=> Get(allocated, t, i) = Nil /\ BucketFull(allocated, t, i)
  BY <1>1 DEF BucketFull, Get
<1>3. DOMAIN allocated = DOMAIN b /\ "byId" \in DOMAIN b
  BY DEF AllocateOrder, Books
<1> HIDE DEF allocated, refused
<1>4. kept.byId = IF refused THEN b.byId ELSE [b.byId EXCEPT ![t][i] = o]
  BY <1>1, <1>2, <1>3 DEF Put
<1>5. treed.byId = kept.byId
  BY DEF GetOrCreate
<1>6. c.byId = treed.byId
  BY DEF AddOrderToLevel
<1> QED
  BY <1>4, <1>5, <1>6 DEF EnterOrder, EnteredOrder, allocated, kept, treed, c, r, k, refused

LEMMA EnterOrderPuts ==
  ASSUME NEW b \in Books, NEW t \in Tokens, NEW i \in Ids, NEW side, NEW price, NEW qty,
         NEW o \in Ptrs, ~ BucketFull(b, t, i)
  PROVE  EnterOrder(b, t, i, side, price, qty, o).byId = [b.byId EXCEPT ![t][i] = o]
  BY EnterOrderMap

\* Mapped is about the map and the names of the orders only.
LEMMA SameNamesMapped ==
  ASSUME NEW b, NEW c, Mapped(b), c.used = b.used, c.byId = b.byId,
         \A p \in b.used : /\ c.order[p].id = b.order[p].id
                           /\ c.order[p].token = b.order[p].token
  PROVE  Mapped(c)
  BY DEF Mapped, Get

\* A new order is mapped, and no other one was of its id.
LEMMA EnterOrderMapped ==
  ASSUME RoomyBuckets, NEW b, Inv(b), Mapped(b), NEW t \in Tokens, NEW i \in Ids,
         NEW side \in Sides, NEW price \in Prices, NEW qty \in Int, NEW o \in Free(b),
         Get(b, t, i) = Nil, NEW c, c = EnterOrder(b, t, i, side, price, qty, o)
  PROVE  Mapped(c)
<1>1. /\ b \in Books /\ Listed(b) /\ o \in Ptrs /\ o \notin b.used
      /\ b.order[o].level = Nil
  BY DEF Inv, Base, Disjoint, Free
<1>2. /\ c \in Books /\ c.used = b.used \union {o}
      /\ c.tree = b.tree \union {LevelKey(t, side, price)}
      /\ c.byId = b.byId \/ c.byId = [b.byId EXCEPT ![t][i] = o]
      /\ OnlyChanges(b, c, o)
      /\ c.order[o].id = i /\ c.order[o].token = t /\ c.order[o].side = side
      /\ c.order[o].price = price /\ c.order[o].qty = qty
      /\ c.order[o].level = LevelKey(t, side, price) /\ Listed(c)
  <2>1. c = EnterOrder(b, t, i, side, price, qty, o)
    OBVIOUS
  <2> QED
    BY ONLY <1>1, <2>1, EnterOrderEffect
<1>3. c.byId = [b.byId EXCEPT ![t][i] = o]
  BY <1>1, RoomForNew, EnterOrderPuts
<1>4. b.byId \in [Tokens -> [Ids -> Refs]] /\ b.used \subseteq Ptrs
  BY <1>1 DEF Books
<1>5. ASSUME NEW p \in b.used
      PROVE  /\ c.order[p].token \in Tokens /\ c.order[p].id \in Ids
             /\ Get(c, c.order[p].token, c.order[p].id) = p
  <2>1. /\ c.order[p].token = b.order[p].token /\ c.order[p].id = b.order[p].id /\ p # Nil
    BY <1>1, <1>2, <1>4, NilAssumption DEF OnlyChanges, SameOrder
  <2> DEFINE u == b.order[p].token
             j == b.order[p].id
  <2>2. u \in Tokens /\ j \in Ids /\ b.byId[u][j] = p
    BY DEF Mapped, Get
  <2>3. ~ (u = t /\ j = i)
    BY <2>1, <2>2 DEF Get
  <2> HIDE DEF u, j
  <2>4. c.byId[u][j] = p
    BY <1>3, <1>4, <2>2, <2>3
  <2> QED
    BY <2>1, <2>2, <2>4 DEF u, j, Get
<1>6. c.byId[t][i] = o
  BY <1>3, <1>4
<1> QED
  BY <1>2, <1>5, <1>6 DEF Mapped, Get

\* Repricing and resizing an order keep its name.
LEMMA ChangePriceMapped ==
  ASSUME NEW b, Inv(b), Mapped(b), NEW o \in b.used, NEW price \in Prices,
         NEW c, c = ChangePrice(b, o, price)
  PROVE  Mapped(c)
<1> DEFINE k == LevelKey(b.order[o].token, b.order[o].side, price)
<1>1. b \in Books /\ o \in Ptrs /\ b.used \subseteq Ptrs
  BY DEF Inv, Base, Books
<1>2. o = Get(b, b.order[o].token, b.order[o].id) /\ o # Nil
      /\ b.order[o].token \in Tokens /\ b.order[o].id \in Ids
  BY <1>1, NilAssumption DEF Mapped
<1>3. b.order[o].level = LevelKey(b.order[o].token, b.order[o].side, b.order[o].price)
      /\ b.order[o].level # Nil /\ b.order[o] \in OrderRecords
  BY <1>1, <1>2, SoundAt DEF Inv, Base, Books
<1>4. k \in Levels
  BY <1>2, <1>3 DEF OrderRecords, LevelKey, Levels
<1>5. k = LevelKey(b.order[o].token, b.order[o].side, price)
  OBVIOUS
<1> HIDE DEF k
<1>6. /\ c.used = b.used /\ c.byId = b.byId /\ OnlyChanges(b, c, o)
      /\ c.order[o].id = b.order[o].id /\ c.order[o].token = b.order[o].token
  BY <1>1, <1>4, <1>5, ChangePriceEffect
<1> QED
  BY <1>1, <1>6, SameNamesMapped DEF OnlyChanges, SameOrder

LEMMA ChangeQuantityMapped ==
  ASSUME NEW b \in Books, Mapped(b), NEW o \in Ptrs, NEW delta \in Int,
         NEW c, c = ChangeQuantity(b, o, delta)
  PROVE  Mapped(c)
<1>1. /\ c.used = b.used /\ c.byId = b.byId /\ OnlyChanges(b, c, o)
      /\ SameOrder(c.order[o], [b.order[o] EXCEPT !.qty = @ + delta])
      /\ b.order[o] \in OrderRecords /\ b.used \subseteq Ptrs
  BY ChangeQuantityEffect DEF Books
<1>2. c.order[o].id = b.order[o].id /\ c.order[o].token = b.order[o].token
  BY <1>1 DEF SameOrder, OrderRecords
<1> QED
  BY <1>1, <1>2, SameNamesMapped DEF OnlyChanges, SameOrder

\* A discarded order is out of the map and out of use.
LEMMA DiscardMapped ==
  ASSUME NEW b \in Books, Mapped(b), NEW t \in Tokens, NEW o \in b.used,
         b.order[o].token = t, NEW c, c = Discard(b, t, o)
  PROVE  Mapped(c)
<1>1. /\ b.used \subseteq Ptrs /\ b.order[o].id \in Ids
      /\ b.byId \in [Tokens -> [Ids -> Refs]]
  BY DEF Books, Mapped
<1>2. /\ c.used = b.used \ {o} /\ OnlyChanges(b, c, o)
      /\ c.byId = [b.byId EXCEPT ![t][b.order[o].id] = Nil]
  <2>1. o \in Ptrs
    BY <1>1
  <2> QED
    BY <1>1, <2>1, DiscardEffect
<1> SUFFICES ASSUME NEW p \in b.used, p # o
             PROVE  /\ c.order[p].token \in Tokens /\ c.order[p].id \in Ids
                    /\ Get(c, c.order[p].token, c.order[p].id) = p
  BY <1>2 DEF Mapped
<1>3. c.order[p].token = b.order[p].token /\ c.order[p].id = b.order[p].id
  BY <1>1, <1>2 DEF OnlyChanges, SameOrder
<1> DEFINE u == b.order[p].token
           j == b.order[p].id
<1>4. u \in Tokens /\ j \in Ids /\ b.byId[u][j] = p
  BY DEF Mapped, Get
<1>5. b.byId[t][b.order[o].id] = o
  BY DEF Mapped, Get
<1> HIDE DEF u, j
<1>6. c.byId[u][j] = p
  BY <1>1, <1>2, <1>4, <1>5
<1> QED
  BY <1>3, <1>4, <1>6 DEF u, j, Get

Tidy(b) == Inv(b) /\ Mapped(b)

\* What the map gives out is in use under its name.
LEMMA MappedInUse ==
  ASSUME NEW b, Inv(b), NEW t \in Tokens, NEW i \in Ids, NEW o, o = Get(b, t, i), o # Nil
  PROVE  b \in Books /\ o \in b.used /\ o \in Ptrs /\ b.order[o].token = t
         /\ b.order[o].id = i /\ b.order[o].qty \in Int
<1>1. b \in Books /\ o \in b.used /\ o \in Ptrs /\ b.order[o].token = t /\ b.order[o].id = i
  BY SoundAt DEF Inv, Base
<1>2. b.order[o].qty \in Int
  BY MappedOrder
<1> QED
  BY <1>1, <1>2

LEMMA GetContractTidy ==
  ASSUME NEW b, Tidy(b), NEW t \in Tokens, NEW c, c = getContract(b, t)
  PROVE  Tidy(c) /\ c.used = b.used /\ c.byId = b.byId
<1>1. Inv(c) /\ c.used = b.used /\ c.byId = b.byId /\ c.order = b.order
  BY GetContractInv DEF Tidy
<1> QED
  BY <1>1, SameNamesMapped DEF Tidy

LEMMA NewOrderTidy ==
  ASSUME RoomyBuckets, NEW b, Tidy(b), NEW t \in Tokens, NEW i \in Ids, NEW side \in Sides,
         NEW price \in Prices, NEW qty \in Quantities, NEW o \in Free(b), Get(b, t, i) = Nil
  PROVE  Mapped(handleNewOrder(b, t, i, side, price, qty, o))
<1> DEFINE c == getContract(b, t)
           d == EnterOrder(c, t, i, side, price, qty, o)
<1>1. Tidy(c) /\ o \in Free(c) /\ Get(c, t, i) = Nil
  BY GetContractTidy DEF Free, Get
<1>2. qty \in Int
  BY QuantityAssumption
<1> HIDE DEF c
<1>3. Mapped(d)
  BY <1>1, <1>2, EnterOrderMapped DEF Tidy
<1> QED
  BY <1>3 DEF handleNewOrder, c

LEMMA ModifyOrderTidy ==
  ASSUME RoomyBuckets, NEW b, Tidy(b), NEW t \in Tokens, NEW i \in Ids, NEW side \in Sides,
         NEW price \in Prices, NEW qty \in Quantities, NEW o,
         Get(b, t, i) = Nil => o \in Free(b)
  PROVE  Mapped(handleModifyOrder(b, t, i, side, price, qty, o))
<1> DEFINE c == getContract(b, t)
           old == Get(c, t, i)
           priced == ChangePrice(c, old, price)
           repriced == IF c.order[old].price # price THEN priced ELSE c
           resized == ChangeQuantity(repriced, old, qty - c.order[old].qty)
<1>1. Tidy(c) /\ (old = Nil => o \in Free(c))
  BY GetContractTidy DEF Free, Get
<1>2. CASE old = Nil
  <2>1. Mapped(handleNewOrder(c, t, i, side, price, qty, o))
    BY <1>1, <1>2, NewOrderTidy
  <2> QED
    BY <1>2, <2>1 DEF handleModifyOrder
<1>3. CASE old # Nil
  <2>1. /\ c \in Books /\ old \in c.used /\ old \in Ptrs /\ qty - c.order[old].qty \in Int
    <3>1. c \in Books /\ old \in c.used /\ old \in Ptrs /\ c.order[old].qty \in Int
      BY <1>1, <1>3, MappedInUse DEF Tidy
    <3> QED
      BY <3>1, QuantityAssumption
  <2>2. handleModifyOrder(b, t, i, side, price, qty, o) = resized
    BY <1>3 DEF handleModifyOrder
  <2> HIDE DEF c, old
  <2>3. Mapped(priced)
    BY <1>1, <2>1, ChangePriceMapped DEF Tidy
  <2>4. Base(priced)
    BY <1>1, <1>3, ChangePriceBase DEF Tidy, Inv, old
  <2>5. repriced \in Books /\ Mapped(repriced)
    BY <1>1, <2>1, <2>3, <2>4 DEF Tidy, Base
  <2> HIDE DEF repriced
  <2>6. Mapped(resized)
    BY <2>1, <2>5, ChangeQuantityMapped
  <2> QED
    BY <2>2, <2>6
<1> QED
  BY <1>2, <1>3

LEMMA CancelOrderTidy ==
  ASSUME NEW b, Tidy(b), NEW t \in Tokens, NEW i \in Ids
  PROVE  Mapped(handleCancelOrder(b, t, i))
<1> DEFINE c == getContract(b, t)
           o == Get(c, t, i)
<1>1. Tidy(c)
  BY GetContractTidy
<1>2. handleCancelOrder(b, t, i) = IF o = Nil THEN c ELSE Discard(c, t, o)
  BY DEF handleCancelOrder
<1> HIDE DEF c
<1>3. ASSUME o # Nil
      PROVE  Mapped(Discard(c, t, o))
  <2>1. c \in Books /\ o \in c.used /\ c.order[o].token = t
    BY <1>1, <1>3, MappedInUse DEF Tidy
  <2> HIDE DEF o
  <2> QED
    BY <1>1, <2>1, DiscardMapped DEF Tidy
<1> QED
  BY <1>1, <1>2, <1>3 DEF Tidy

LEMMA ReduceSideTidy ==
  ASSUME NEW b, Tidy(b), NEW t \in Tokens, NEW i \in Ids \union {NoId},
         NEW qty \in Quantities
  PROVE  Tidy(ReduceSide(b, t, i, qty))
<1> DEFINE o == Get(b, t, i)
           c == ChangeQuantity(b, o, -qty)
<1>1. Inv(ReduceSide(b, t, i, qty))
  BY ReduceSideInv DEF Tidy
<1> SUFFICES ASSUME i # NoId, o # Nil
             PROVE  Mapped(reduceOrderQuantity(b, t, o, qty))
  BY <1>1 DEF ReduceSide, Tidy
<1>2. b \in Books /\ o \in b.used /\ o \in Ptrs /\ b.order[o].token = t /\ -qty \in Int
  BY MappedInUse, QuantityAssumption DEF Tidy
<1>3. reduceOrderQuantity(b, t, o, qty) = IF c.order[o].qty <= 0 THEN Discard(c, t, o) ELSE c
  BY DEF reduceOrderQuantity
<1>4. Mapped(c)
  BY <1>2, ChangeQuantityMapped DEF Tidy
<1>5. c \in Books /\ o \in c.used /\ c.order[o].token = t
  <2>1. /\ c \in Books /\ c.used = b.used
        /\ SameOrder(c.order[o], [b.order[o] EXCEPT !.qty = @ + -qty])
    BY <1>2, ChangeQuantityEffect
  <2>2. b.order[o] \in OrderRecords
    BY <1>2 DEF Books
  <2> HIDE DEF c, o
  <2> QED
    BY <1>2, <2>1, <2>2 DEF SameOrder, OrderRecords
<1> HIDE DEF c, o
<1>6. Mapped(Discard(c, t, o))
  BY <1>4, <1>5, DiscardMapped
<1> QED
  BY <1>3, <1>4, <1>6

LEMMA TradeTidy ==
  ASSUME NEW b, Tidy(b), NEW t \in Tokens, NEW buy \in Ids \union {NoId},
         NEW sell \in Ids \union {NoId}, NEW qty \in Quantities
  PROVE  Mapped(handleTrade(b, t, buy, sell, qty))
  BY GetContractTidy, ReduceSideTidy DEF handleTrade, Tidy

LEMMA RestoreTidy ==
  ASSUME RoomyBuckets, NEW b, Tidy(b), NEW t \in Tokens, NEW i \in Ids \union {NoId},
         NEW side \in Sides, NEW price \in Prices, NEW qty \in Quantities, NEW o,
         i \in Ids /\ Get(b, t, i) = Nil => o \in Free(b),
         NEW c, c = restoreOrderQuantity(b, t, i, qty, price, side, o)
  PROVE  Tidy(c)
<1>1. qty \in Int
  BY QuantityAssumption
<1>2. Inv(b) /\ Mapped(b) /\ Inv(c)
  BY RestoreInv DEF Tidy
<1>3. CASE i = NoId
  BY <1>2, <1>3 DEF restoreOrderQuantity, Tidy
<1>4. CASE i # NoId /\ Get(b, t, i) = Nil
  <2>1. c = EnterOrder(b, t, i, side, price, qty, o)
    BY <1>4 DEF restoreOrderQuantity
  <2>2. Mapped(c)
    BY <1>1, <1>2, <1>4, <2>1, EnterOrderMapped
  <2> QED
    BY <1>2, <2>2 DEF Tidy
<1>5. CASE i # NoId /\ Get(b, t, i) # Nil
  <2> DEFINE old == Get(b, t, i)
  <2>1. c = ChangeQuantity(b, old, qty)
    BY <1>5 DEF restoreOrderQuantity
  <2>2. b \in Books /\ old \in Ptrs
    BY <1>2, <1>5, MappedInUse
  <2> HIDE DEF old
  <2>3. Mapped(c)
    BY <1>1, <1>2, <2>1, <2>2, ChangeQuantityMapped
  <2> QED
    BY <1>2, <2>3 DEF Tidy
<1> QED
  BY <1>3, <1>4, <1>5

LEMMA TradeCancelTidy ==
  ASSUME RoomyBuckets, NEW b, Tidy(b), NEW t \in Tokens, NEW buy \in Ids \union {NoId},
         NEW sell \in Ids \union {NoId}, NEW price \in Prices, NEW qty \in Quantities,
         NEW o1, NEW o2, Takes(b, t, buy, sell, qty, price, o1, o2)
  PROVE  Mapped(handleTradeCancel(b, t, buy, sell, qty, price, o1, o2))
<1> DEFINE c == getContract(b, t)
           d == restoreOrderQuantity(c, t, buy, qty, price, "Buy", o1)
           e == restoreOrderQuantity(d, t, sell, qty, price, "Sell", o2)
<1>1. "Buy" \in Sides /\ "Sell" \in Sides
  BY DEF Sides
<1>2. Tidy(c) /\ c.used = b.used /\ c.byId = b.byId
  BY GetContractTidy
<1> HIDE DEF c
<1>3. buy \in Ids /\ Get(c, t, buy) = Nil => o1 \in Free(c)
  BY <1>2 DEF Free, Get, Takes
<1>4. sell \in Ids /\ Get(d, t, sell) = Nil => o2 \in Free(d)
  BY DEF Takes, RestoreBuy, c
<1>5. Tidy(d)
  BY <1>1, <1>2, <1>3, RestoreTidy
<1> HIDE DEF d
<1>6. Tidy(e)
  BY <1>1, <1>4, <1>5, RestoreTidy
<1> QED
  BY <1>6 DEF handleTradeCancel, RestoreBuy, c, d, Tidy

LEMMA NextMapped ==
  ASSUME FreshIds, RoomyBuckets, Inv(book), Mapped(book), [Next]_book
  PROVE  Mapped(book')
<1>0. Tidy(book)
  BY DEF Tidy
<1>1. CASE UNCHANGED book
  BY <1>1
<1>2. ASSUME NEW t \in Tokens, NEW i \in Ids, New(t, i)
      PROVE  Mapped(book')
  BY <1>0, <1>2, NewOrderTidy DEF New
<1>3. ASSUME NEW t \in Tokens, NEW i \in Ids, Modify(t, i)
      PROVE  Mapped(book')
  <2>1. PICK side \in Sides, price \in Prices, qty \in Quantities, o \in Spare(book, t, i) :
               book' = handleModifyOrder(book, t, i, side, price, qty, o)
    BY <1>3 DEF Modify
  <2>2. Get(book, t, i) = Nil => o \in Free(book)
    BY NilAssumption DEF Spare
  <2> QED
    BY <1>0, <2>1, <2>2, ModifyOrderTidy
<1>4. ASSUME NEW t \in Tokens, NEW i \in Ids, Cancel(t, i)
      PROVE  Mapped(book')
  BY <1>0, <1>4, CancelOrderTidy DEF Cancel
<1>5. ASSUME NEW t \in Tokens, NEW buy \in Ids \union {NoId},
             NEW sell \in Ids \union {NoId}, Trade(t, buy, sell)
      PROVE  Mapped(book')
  BY <1>0, <1>5, TradeTidy DEF Trade
<1>6. ASSUME NEW t \in Tokens, NEW buy \in Ids \union {NoId},
             NEW sell \in Ids \union {NoId}, TradeCancel(t, buy, sell)
      PROVE  Mapped(book')
  <2>1. PICK price \in Prices, qty \in Quantities : \E o1, o2 :
               /\ Takes(book, t, buy, sell, qty, price, o1, o2)
               /\ book' = handleTradeCancel(book, t, buy, sell, qty, price, o1, o2)
    BY <1>6, TradeCancelTakes
  <2>2. PICK o1, o2 :
               /\ Takes(book, t, buy, sell, qty, price, o1, o2)
               /\ book' = handleTradeCancel(book, t, buy, sell, qty, price, o1, o2)
    BY <2>1
  <2> QED
    BY <1>0, <1>6, <2>1, <2>2, TradeCancelTidy
<1> QED
  BY <1>1, <1>2, <1>3, <1>4, <1>5, <1>6 DEF Next

\* Under an exchange that reuses no resting id, and with a slot for every id of
\* a bucket, no handler loses sight of a record that it took: NoGhosts.
THEOREM NoGhostsArise == ASSUME FreshIds, RoomyBuckets PROVE Spec => []NoGhosts
<1> DEFINE Names == Mapped(book)
<1>1. Init => Names
  BY DEF Init, Mapped
<1>2. IndInv /\ Names /\ [Next]_book => Names'
  BY NextMapped DEF IndInv
<1>3. Names => NoGhosts
  BY DEF Mapped, NoGhosts
<1> QED
  BY <1>1, <1>2, <1>3, InvHolds, PTL DEF Spec

\* A cancel leaves the map without the id.
LEMMA CancelUnmaps ==
  ASSUME NEW b, Inv(b), NEW t \in Tokens, NEW i \in Ids
  PROVE  Get(handleCancelOrder(b, t, i), t, i) = Nil
<1> DEFINE c == getContract(b, t)
           o == Get(c, t, i)
           d == Discard(c, t, o)
<1>1. Inv(c)
  BY GetContractInv
<1>2. handleCancelOrder(b, t, i) = IF o = Nil THEN c ELSE d
  BY DEF handleCancelOrder
<1> HIDE DEF c
<1>3. CASE o = Nil
  BY <1>2, <1>3
<1>4. CASE o # Nil
  <2>1. c \in Books /\ o \in Ptrs /\ c.order[o].id = i
    BY <1>1, <1>4, SoundAt DEF Inv, Base
  <2> HIDE DEF o
  <2>2. d.byId = [c.byId EXCEPT ![t][i] = Nil]
    BY <2>1, DiscardEffect
  <2> HIDE DEF d
  <2>3. Get(d, t, i) = Nil
    BY <2>1, <2>2 DEF Get, Books
  <2> QED
    BY <1>2, <1>4, <2>3
<1> QED
  BY <1>3, <1>4

\* Under the same conditions a cancel, whenever it comes, leaves no order of its id on
\* any level; in a bucket that is full it may (orderbook.go:96): CancelRemoves.
THEOREM CancelsFindTheirOrder == ASSUME FreshIds, RoomyBuckets PROVE Spec => []CancelRemoves
<1> DEFINE Names == Mapped(book)
<1>1. Init => Names
  BY DEF Init, Mapped
<1>2. IndInv /\ Names /\ [Next]_book => Names'
  BY NextMapped DEF IndInv
<1>3. ASSUME IndInv, Names
      PROVE  CancelRemoves
  <2> SUFFICES ASSUME NEW t \in Tokens, NEW i \in Ids,
                      NEW after, after = handleCancelOrder(book, t, i),
                      NEW o \in Ptrs, after.order[o].level # Nil,
                      after.order[o].token = t, after.order[o].id = i
               PROVE  FALSE
    BY DEF CancelRemoves
  <2>1. Inv(after) /\ Mapped(after) /\ Get(after, t, i) = Nil
    BY <1>3, CancelOrderInv, CancelOrderTidy, CancelUnmaps DEF IndInv, Tidy
  <2>2. o \in after.used
    BY <2>1 DEF Inv, Base, Disjoint
  <2>3. Get(after, t, i) = o
    BY <2>1, <2>2 DEF Mapped
  <2> QED
    BY <2>1, <2>3, NilAssumption
<1> QED
  BY <1>1, <1>2, <1>3, InvHolds, PTL DEF Spec
--------------------------------------------------------------------------------
(* What is lost when ids are reused or buckets fill: no more than a bucket      *)
(* refuses and a New replaces.                                                  *)

Named(b) == \A o \in b.used : b.order[o].token \in Tokens /\ b.order[o].id \in Ids
Known(b) == Inv(b) /\ Named(b)

LostIn(b) == {o \in b.used : Get(b, b.order[o].token, b.order[o].id) # o}

SameLost(b, c, o) ==
  /\ c.order[o].id = b.order[o].id /\ c.order[o].token = b.order[o].token
  /\ c.order[o].level = b.order[o].level /\ c.order[o].qty = b.order[o].qty
LostStay(b, c) == \A o \in LostIn(b) : o \in LostIn(c) /\ SameLost(b, c, o)
LosesNone(b, c) == LostIn(c) \subseteq LostIn(b) /\ LostStay(b, c)

NoRoom(b, t, i) == Get(b, t, i) = Nil /\ BucketFull(b, t, i)
RefusedIn(c, o) == NoRoom(c, c.order[o].token, c.order[o].id)
ReplacedIn(b, c, o) ==
  /\ Get(b, c.order[o].token, c.order[o].id) = o
  /\ Get(c, c.order[o].token, c.order[o].id) # Nil

\* What a step may lose, and what one that has no resting id to replace may.
Accounts(b, c) ==
  LostStay(b, c) /\ \A o \in LostIn(c) \ LostIn(b) : RefusedIn(c, o) \/ ReplacedIn(b, c, o)
Refuses(b, c) ==
  LostStay(b, c) /\ \A o \in LostIn(c) \ LostIn(b) : RefusedIn(c, o)

\* An order that the map gives out is not lost.
LEMMA MappedNotLost ==
  ASSUME NEW b, Known(b), NEW t \in Tokens, NEW i \in Ids, NEW o, o = Get(b, t, i), o # Nil
  PROVE  o \notin LostIn(b)
<1>1. b.order[o].token = t /\ b.order[o].id = i
  BY MappedInUse DEF Known
<1> QED
  BY <1>1 DEF LostIn

\* Repricing and resizing an order that the map gives out lose none.
LEMMA SameNamesLoseNone ==
  ASSUME NEW b \in Books, NEW c, Named(b), NEW o \in Ptrs, o \notin LostIn(b),
         OnlyChanges(b, c, o), c.used = b.used, c.byId = b.byId,
         c.order[o].id = b.order[o].id, c.order[o].token = b.order[o].token
  PROVE  Named(c) /\ LosesNone(b, c)
<1>1. b.used \subseteq Ptrs
  BY DEF Books
<1>2. \A p \in b.used : /\ c.order[p].id = b.order[p].id
                        /\ c.order[p].token = b.order[p].token
                        /\ Get(c, c.order[p].token, c.order[p].id)
                             = Get(b, b.order[p].token, b.order[p].id)
  BY <1>1 DEF OnlyChanges, SameOrder, Get
<1>3. \A p \in b.used \ {o} : c.order[p].level = b.order[p].level
                              /\ c.order[p].qty = b.order[p].qty
  BY <1>1 DEF OnlyChanges, SameOrder
<1>4. Named(c)
  BY <1>2 DEF Named
<1>5. LostIn(c) = LostIn(b)
  BY <1>2 DEF LostIn
<1>6. LostStay(b, c)
  BY <1>2, <1>3, <1>5 DEF LostStay, SameLost, LostIn
<1> QED
  BY <1>4, <1>5, <1>6 DEF LosesNone

LEMMA ChangePriceLosesNone ==
  ASSUME NEW b, Known(b), NEW t \in Tokens, NEW i \in Ids, NEW o, o = Get(b, t, i), o # Nil,
         NEW price \in Prices, NEW c, c = ChangePrice(b, o, price)
  PROVE  Named(c) /\ LosesNone(b, c) /\ c.byId = b.byId
<1> DEFINE k == LevelKey(b.order[o].token, b.order[o].side, price)
<1>1. b \in Books /\ o \in Ptrs /\ b.order[o].token = t /\ o \notin LostIn(b)
  BY MappedInUse, MappedNotLost DEF Known
<1>2. k \in Levels
  <2>1. /\ b.order[o] \in OrderRecords /\ b.order[o].level # Nil
        /\ b.order[o].level = LevelKey(t, b.order[o].side, b.order[o].price)
    BY <1>1, SoundAt DEF Known, Inv, Base, Books
  <2> QED
    BY <1>1, <2>1 DEF OrderRecords, LevelKey, Levels
<1>3. k = LevelKey(b.order[o].token, b.order[o].side, price)
  OBVIOUS
<1> HIDE DEF k
<1>4. /\ c.used = b.used /\ c.byId = b.byId /\ OnlyChanges(b, c, o)
      /\ c.order[o].id = b.order[o].id /\ c.order[o].token = b.order[o].token
  BY <1>1, <1>2, <1>3, ChangePriceEffect
<1> QED
  BY <1>1, <1>4, SameNamesLoseNone DEF Known

LEMMA ChangeQuantityLosesNone ==
  ASSUME NEW b \in Books, Named(b), NEW o \in Ptrs, o \notin LostIn(b), NEW delta \in Int,
         NEW c, c = ChangeQuantity(b, o, delta)
  PROVE  Named(c) /\ LosesNone(b, c) /\ c.byId = b.byId
<1>1. /\ c.used = b.used /\ c.byId = b.byId /\ OnlyChanges(b, c, o)
      /\ SameOrder(c.order[o], [b.order[o] EXCEPT !.qty = @ + delta])
      /\ b.order[o] \in OrderRecords
  BY ChangeQuantityEffect DEF Books
<1>2. c.order[o].id = b.order[o].id /\ c.order[o].token = b.order[o].token
  BY <1>1 DEF SameOrder, OrderRecords
<1> QED
  BY <1>1, <1>2, SameNamesLoseNone

\* A discarded order is back in the pool, no other one leaves the map.
LEMMA DiscardLosesNone ==
  ASSUME NEW b \in Books, Named(b), NEW t \in Tokens, NEW i \in Ids, NEW o \in Ptrs,
         o = Get(b, t, i), b.order[o].token = t, b.order[o].id = i,
         NEW c, c = Discard(b, t, o)
  PROVE  Named(c) /\ LosesNone(b, c)
<1>1. /\ c.used = b.used \ {o} /\ OnlyChanges(b, c, o)
      /\ c.byId = [b.byId EXCEPT ![t][i] = Nil]
      /\ b.byId \in [Tokens -> [Ids -> Refs]] /\ b.used \subseteq Ptrs
  <2>1. /\ c.used = b.used \ {o} /\ OnlyChanges(b, c, o)
        /\ c.byId = [b.byId EXCEPT ![t][b.order[o].id] = Nil]
    BY DiscardEffect
  <2> QED
    BY <2>1 DEF Books
<1>2. ASSUME NEW p \in c.used
      PROVE  /\ p \in b.used /\ SameLost(b, c, p)
             /\ c.order[p].token \in Tokens /\ c.order[p].id \in Ids
             /\ p \in LostIn(c) <=> p \in LostIn(b)
  <2>1. p \in b.used /\ p # o /\ p # Nil /\ SameLost(b, c, p)
    BY <1>1, NilAssumption DEF OnlyChanges, SameOrder, SameLost
  <2> DEFINE u == b.order[p].token
             j == b.order[p].id
  <2>2. u \in Tokens /\ j \in Ids
    BY <2>1 DEF Named
  <2>3. c.order[p].token = u /\ c.order[p].id = j
    BY <2>1 DEF SameLost
  <2>4. b.byId[t][i] = o
    BY DEF Get
  <2> HIDE DEF u, j
  <2>5. c.byId[u][j] = p <=> b.byId[u][j] = p
    BY <1>1, <2>1, <2>2, <2>4
  <2>6. p \in LostIn(c) <=> p \in LostIn(b)
    BY <2>1, <2>3, <2>5 DEF LostIn, Get, u, j
  <2> QED
    BY <2>1, <2>2, <2>3, <2>6
<1>3. o \notin LostIn(b)
  BY DEF LostIn
<1>4. Named(c)
  BY <1>2 DEF Named
<1>5. LostIn(c) \subseteq LostIn(b)
  BY <1>2 DEF LostIn
<1>6. LostStay(b, c)
  <2> SUFFICES ASSUME NEW p \in LostIn(b)
               PROVE  p \in LostIn(c) /\ SameLost(b, c, p)
    BY DEF LostStay
  <2>1. p \in c.used
    BY <1>1, <1>3 DEF LostIn
  <2> QED
    BY <1>2, <2>1
<1> QED
  BY <1>4, <1>5, <1>6 DEF LosesNone

LEMMA LosesNoneTwice ==
  ASSUME NEW b, NEW c, NEW d, LosesNone(b, c), LosesNone(c, d)
  PROVE  LosesNone(b, d)
  BY DEF LosesNone, LostStay, SameLost

\* EnterOrder: the new order may be refused, the one of its id replaced.
LEMMA EnterOrderAccounts ==
  ASSUME NEW b, Known(b), NEW t \in Tokens, NEW i \in Ids, NEW side \in Sides,
         NEW price \in Prices, NEW qty \in Int, NEW o \in Free(b),
         NEW c, c = EnterOrder(b, t, i, side, price, qty, o)
  PROVE  /\ Named(c) /\ Accounts(b, c)
         /\ Get(b, t, i) = Nil => Refuses(b, c)
<1>1. /\ b \in Books /\ Listed(b) /\ o \in Ptrs /\ o \notin b.used
      /\ b.order[o].level = Nil
  BY DEF Known, Inv, Base, Disjoint, Free
<1>2. /\ c \in Books /\ c.used = b.used \union {o}
      /\ c.tree = b.tree \union {LevelKey(t, side, price)}
      /\ c.byId = b.byId \/ c.byId = [b.byId EXCEPT ![t][i] = o]
      /\ OnlyChanges(b, c, o)
      /\ c.order[o].id = i /\ c.order[o].token = t /\ c.order[o].side = side
      /\ c.order[o].price = price /\ c.order[o].qty = qty
      /\ c.order[o].level = LevelKey(t, side, price) /\ Listed(c)
  <2>1. c = EnterOrder(b, t, i, side, price, qty, o)
    OBVIOUS
  <2> QED
    BY ONLY <1>1, <2>1, EnterOrderEffect
<1>3. c.byId = IF NoRoom(b, t, i) THEN b.byId ELSE [b.byId EXCEPT ![t][i] = o]
  BY <1>1, EnterOrderMap DEF NoRoom
<1>4. b.byId \in [Tokens -> [Ids -> Refs]] /\ b.used \subseteq Ptrs
  BY <1>1 DEF Books
<1>5. ASSUME NEW p \in b.used
      PROVE  /\ SameLost(b, c, p) /\ p # o
             /\ b.order[p].token \in Tokens /\ b.order[p].id \in Ids
             /\ b.byId[b.order[p].token][b.order[p].id] # p
                  => c.byId[b.order[p].token][b.order[p].id] # p
             /\ b.byId[b.order[p].token][b.order[p].id] = p
                  => \/ c.byId[b.order[p].token][b.order[p].id] = p
                     \/ /\ p = Get(b, t, i) /\ p # Nil
                        /\ c.byId[b.order[p].token][b.order[p].id] = o
  <2>1. p # o /\ SameLost(b, c, p) /\ p # Nil
    BY <1>1, <1>2, <1>4, NilAssumption DEF OnlyChanges, SameOrder, SameLost
  <2> DEFINE u == b.order[p].token
             j == b.order[p].id
  <2>2. u \in Tokens /\ j \in Ids
    BY DEF Named, Known
  <2> HIDE DEF u, j
  <2>3. c.byId[u][j] = b.byId[u][j] \/ (c.byId[u][j] = o /\ u = t /\ j = i)
    BY <1>3, <1>4, <2>2
  <2>4. b.byId[u][j] # p => c.byId[u][j] # p
    BY <2>1, <2>3
  <2>5. b.byId[u][j] = p => c.byId[u][j] = p \/ (p = Get(b, t, i) /\ c.byId[u][j] = o)
    BY <2>3 DEF Get
  <2> QED
    BY <2>1, <2>2, <2>4, <2>5 DEF u, j
<1>6. Named(c)
  BY <1>2, <1>5 DEF Named, SameLost
<1>7. LostStay(b, c)
  BY <1>2, <1>5 DEF LostStay, LostIn, SameLost, Get
<1>8. o \in LostIn(c) => RefusedIn(c, o)
  <2>1. ASSUME ~ NoRoom(b, t, i)
        PROVE  c.byId[t][i] = o
    BY <1>3, <1>4, <2>1
  <2>2. ASSUME NoRoom(b, t, i)
        PROVE  NoRoom(c, t, i)
    BY <1>3, <2>2 DEF NoRoom, Get, BucketFull
  <2> QED
    BY <1>2, <2>1, <2>2 DEF LostIn, RefusedIn, Get
<1>9. ASSUME NEW p \in LostIn(c) \ LostIn(b), p # o
      PROVE  ReplacedIn(b, c, p) /\ Get(b, t, i) # Nil
  <2>1. p \in b.used
    BY <1>2, <1>9 DEF LostIn
  <2>2. b.byId[b.order[p].token][b.order[p].id] = p
    BY <2>1, <1>9 DEF LostIn, Get
  <2>3. c.byId[b.order[p].token][b.order[p].id] # p
    BY <1>5, <1>9, <2>1 DEF LostIn, Get, SameLost
  <2>4. p = Get(b, t, i) /\ p # Nil /\ c.byId[b.order[p].token][b.order[p].id] = o
    BY <1>5, <2>1, <2>2, <2>3
  <2>5. o # Nil
    BY <1>1, NilAssumption
  <2> QED
    BY <1>5, <2>1, <2>2, <2>4, <2>5 DEF ReplacedIn, Get, SameLost
<1> QED
  BY <1>6, <1>7, <1>8, <1>9 DEF Accounts, Refuses

LEMMA LosesNoneRefuses ==
  ASSUME NEW b, NEW c, LosesNone(b, c)
  PROVE  Refuses(b, c) /\ Accounts(b, c)
  BY DEF LosesNone, Refuses, Accounts

LEMMA AfterLosesNone ==
  ASSUME NEW b, NEW c, NEW d, LosesNone(b, c), c.byId = b.byId
  PROVE  /\ Accounts(c, d) => Accounts(b, d)
         /\ Refuses(c, d) => Refuses(b, d)
<1>1. LostStay(c, d) => LostStay(b, d)
  BY DEF LosesNone, LostStay, SameLost
<1>2. \A o \in LostIn(d) \ LostIn(b) : o \in LostIn(d) \ LostIn(c)
  BY DEF LosesNone
<1>3. \A o : ReplacedIn(c, d, o) => ReplacedIn(b, d, o)
  BY DEF ReplacedIn, Get
<1> QED
  BY <1>1, <1>2, <1>3 DEF Accounts, Refuses

\* The handlers.
LEMMA GetContractLosesNone ==
  ASSUME NEW b, Known(b), NEW t \in Tokens, NEW c, c = getContract(b, t)
  PROVE  Known(c) /\ LosesNone(b, c) /\ c.used = b.used /\ c.byId = b.byId
<1>1. Inv(c) /\ c.used = b.used /\ c.byId = b.byId /\ c.order = b.order
  BY GetContractInv DEF Known
<1>2. Named(c)
  BY <1>1 DEF Known, Named
<1>3. LostIn(c) = LostIn(b)
  BY <1>1 DEF LostIn, Get
<1> QED
  BY <1>1, <1>2, <1>3 DEF Known, LosesNone, LostStay, SameLost

LEMMA NewOrderAccounts ==
  ASSUME NEW b, Known(b), NEW t \in Tokens, NEW i \in Ids, NEW side \in Sides,
         NEW price \in Prices, NEW qty \in Quantities, NEW o \in Free(b),
         NEW d, d = handleNewOrder(b, t, i, side, price, qty, o)
  PROVE  Named(d) /\ Accounts(b, d)
<1> DEFINE c == getContract(b, t)
<1>1. Known(c) /\ LosesNone(b, c) /\ c.byId = b.byId /\ o \in Free(c)
  BY GetContractLosesNone DEF Free
<1>2. d = EnterOrder(c, t, i, side, price, qty, o) /\ qty \in Int
  BY MessageQuantity DEF handleNewOrder
<1> HIDE DEF c
<1>3. Named(d) /\ Accounts(c, d)
  BY <1>1, <1>2, EnterOrderAccounts
<1> QED
  BY <1>1, <1>3, AfterLosesNone

LEMMA ModifyOrderAccounts ==
  ASSUME NEW b, Known(b), NEW t \in Tokens, NEW i \in Ids, NEW side \in Sides,
         NEW price \in Prices, NEW qty \in Quantities, NEW o,
         Get(b, t, i) = Nil => o \in Free(b),
         NEW d, d = handleModifyOrder(b, t, i, side, price, qty, o)
  PROVE  Named(d) /\ Accounts(b, d)
<1> DEFINE c == getContract(b, t)
           old == Get(c, t, i)
           priced == ChangePrice(c, old, price)
           repriced == IF c.order[old].price # price THEN priced ELSE c
           delta == qty - c.order[old].qty
<1>1. Known(c) /\ LosesNone(b, c) /\ c.byId = b.byId /\ (old = Nil => o \in Free(c))
  BY GetContractLosesNone DEF Free, Get
<1>2. CASE old = Nil
  <2>1. d = handleNewOrder(c, t, i, side, price, qty, o)
    BY <1>2 DEF handleModifyOrder
  <2> HIDE DEF c
  <2>2. Named(d) /\ Accounts(c, d)
    BY <1>1, <1>2, <2>1, NewOrderAccounts
  <2> QED
    BY <1>1, <2>2, AfterLosesNone
<1>3. CASE old # Nil
  <2>1. d = ChangeQuantity(repriced, old, delta)
    BY <1>3 DEF handleModifyOrder
  <2> HIDE DEF c
  <2>2. c \in Books /\ old \in Ptrs /\ delta \in Int /\ old \notin LostIn(c)
    <3>1. c \in Books /\ old \in Ptrs /\ c.order[old].qty \in Int
      BY <1>1, <1>3, MappedInUse DEF Known
    <3> QED
      BY <1>1, <1>3, <3>1, MappedNotLost, QuantityAssumption
  <2>3. Named(priced) /\ LosesNone(c, priced) /\ priced \in Books
    <3>1. Base(priced)
      BY <1>1, <1>3, ChangePriceBase DEF Known, Inv
    <3> QED
      BY <1>1, <1>3, <3>1, ChangePriceLosesNone DEF Base
  <2>4. Named(repriced) /\ LosesNone(c, repriced) /\ repriced \in Books
    <3>1. Named(c) /\ LosesNone(c, c)
      BY <1>1 DEF Known, LosesNone, LostStay, SameLost
    <3> QED
      BY <2>2, <2>3, <3>1
  <2> HIDE DEF repriced, old, delta
  <2>5. Named(d) /\ LosesNone(repriced, d)
    BY <2>1, <2>2, <2>4, ChangeQuantityLosesNone DEF LosesNone
  <2>6. LosesNone(b, d)
    BY <1>1, <2>4, <2>5, LosesNoneTwice
  <2> QED
    BY <2>5, <2>6, LosesNoneRefuses
<1> QED
  BY <1>2, <1>3

LEMMA CancelOrderLosesNone ==
  ASSUME NEW b, Known(b), NEW t \in Tokens, NEW i \in Ids,
         NEW d, d = handleCancelOrder(b, t, i)
  PROVE  Named(d) /\ LosesNone(b, d)
<1> DEFINE c == getContract(b, t)
           o == Get(c, t, i)
<1>1. Known(c) /\ LosesNone(b, c)
  BY GetContractLosesNone
<1>2. d = IF o = Nil THEN c ELSE Discard(c, t, o)
  BY DEF handleCancelOrder
<1> HIDE DEF c
<1>3. CASE o # Nil
  <2>1. c \in Books /\ Named(c) /\ o \in Ptrs /\ c.order[o].token = t /\ c.order[o].id = i
    BY <1>1, <1>3, MappedInUse DEF Known
  <2>2. Named(d) /\ LosesNone(c, d)
    BY <1>2, <1>3, <2>1, DiscardLosesNone
  <2> QED
    BY <1>1, <2>2, LosesNoneTwice
<1> QED
  BY <1>1, <1>2, <1>3 DEF Known

LEMMA ReduceSideLosesNone ==
  ASSUME NEW b, Known(b), NEW t \in Tokens, NEW i \in Ids \union {NoId},
         NEW qty \in Quantities, NEW d, d = ReduceSide(b, t, i, qty)
  PROVE  Known(d) /\ LosesNone(b, d)
<1> DEFINE o == Get(b, t, i)
           c == ChangeQuantity(b, o, -qty)
<1>1. Inv(d)
  BY ReduceSideInv DEF Known
<1>2. CASE i = NoId \/ o = Nil
  BY <1>2 DEF ReduceSide, Known, LosesNone, LostStay, SameLost
<1>3. CASE i # NoId /\ o # Nil
  <2>1. d = IF c.order[o].qty <= 0 THEN Discard(c, t, o) ELSE c
    BY <1>3 DEF ReduceSide, reduceOrderQuantity
  <2>2. /\ b \in Books /\ o \in Ptrs /\ b.order[o].token = t /\ b.order[o].id = i
        /\ -qty \in Int /\ o \notin LostIn(b) /\ Named(b)
    BY <1>3, MappedInUse, MappedNotLost, QuantityAssumption DEF Known
  <2>3. /\ c \in Books /\ c.order[o].token = t /\ c.order[o].id = i
    <3>1. c \in Books /\ SameOrder(c.order[o], [b.order[o] EXCEPT !.qty = @ + -qty])
      BY <2>2, ChangeQuantityEffect
    <3>2. b.order[o] \in OrderRecords
      BY <2>2 DEF Books
    <3> HIDE DEF c, o
    <3> QED
      BY <2>2, <3>1, <3>2 DEF SameOrder, OrderRecords
  <2>4. Named(c) /\ LosesNone(b, c) /\ o = Get(c, t, i)
    <3>1. Named(c) /\ LosesNone(b, c) /\ c.byId = b.byId
      BY <2>2, ChangeQuantityLosesNone
    <3> QED
      BY <3>1 DEF Get
  <2> HIDE DEF c, o
  <2>5. LET e == Discard(c, t, o) IN Named(e) /\ LosesNone(c, e)
    BY <1>3, <2>2, <2>3, <2>4, DiscardLosesNone
  <2>6. LosesNone(b, Discard(c, t, o))
    BY <2>4, <2>5, LosesNoneTwice
  <2> QED
    BY <1>1, <2>1, <2>4, <2>5, <2>6 DEF Known
<1> QED
  BY <1>2, <1>3

LEMMA TradeLosesNone ==
  ASSUME NEW b, Known(b), NEW t \in Tokens, NEW buy \in Ids \union {NoId},
         NEW sell \in Ids \union {NoId}, NEW qty \in Quantities,
         NEW d, d = handleTrade(b, t, buy, sell, qty)
  PROVE  Named(d) /\ LosesNone(b, d)
<1> DEFINE c == getContract(b, t)
           half == ReduceSide(c, t, buy, qty)
<1>1. Known(c) /\ LosesNone(b, c)
  BY GetContractLosesNone
<1>2. d = ReduceSide(half, t, sell, qty)
  BY DEF handleTrade
<1> HIDE DEF c
<1>3. Known(half) /\ LosesNone(c, half)
  BY <1>1, ReduceSideLosesNone
<1> HIDE DEF half
<1>4. Known(d) /\ LosesNone(half, d)
  BY <1>2, <1>3, ReduceSideLosesNone
<1> QED
  BY <1>1, <1>3, <1>4, LosesNoneTwice DEF Known

\* What no bucket had room for stays without.
KeepsFull(b, c) == \A t \in Tokens, i \in Ids : NoRoom(b, t, i) => NoRoom(c, t, i)

LEMMA RestoreRefuses ==
  ASSUME NEW b, Known(b), NEW t \in Tokens, NEW i \in Ids \union {NoId},
         NEW side \in Sides, NEW price \in Prices, NEW qty \in Quantities, NEW o,
         i \in Ids /\ Get(b, t, i) = Nil => o \in Free(b),
         NEW c, c = restoreOrderQuantity(b, t, i, qty, price, side, o)
  PROVE  Known(c) /\ Refuses(b, c) /\ KeepsFull(b, c)
<1>1. Inv(c) /\ qty \in Int
  BY RestoreInv, MessageQuantity DEF Known
<1>2. CASE i = NoId
  BY <1>2 DEF restoreOrderQuantity, Known, Refuses, LostStay, SameLost, KeepsFull
<1>3. CASE i # NoId /\ Get(b, t, i) = Nil
  <2>1. c = EnterOrder(b, t, i, side, price, qty, o) /\ i \in Ids /\ o \in Free(b)
    BY <1>3 DEF restoreOrderQuantity
  <2>2. Named(c) /\ Refuses(b, c)
    BY <1>1, <1>3, <2>1, EnterOrderAccounts
  <2>3. b \in Books /\ o \in Ptrs /\ b.byId \in [Tokens -> [Ids -> Refs]]
    BY <2>1 DEF Known, Inv, Base, Books, Free
  <2>4. c.byId = IF BucketFull(b, t, i) THEN b.byId ELSE [b.byId EXCEPT ![t][i] = o]
    BY <1>3, <2>1, <2>3, EnterOrderMap
  <2>5. ASSUME NEW u \in Tokens, NEW j \in Ids, NoRoom(b, u, j), ~ BucketFull(b, t, i)
        PROVE  NoRoom(c, u, j)
    <3>1. u = t => Bucket[j] # Bucket[i]
      BY <2>5 DEF NoRoom, BucketFull
    <3>2. \A k \in Ids : Bucket[k] = Bucket[j] => Get(c, u, k) = Get(b, u, k)
      BY <2>1, <2>3, <2>4, <2>5, <3>1 DEF Get
    <3>3. {k \in Ids : Bucket[k] = Bucket[j] /\ Get(c, u, k) # Nil}
            = {k \in Ids : Bucket[k] = Bucket[j] /\ Get(b, u, k) # Nil}
      BY <3>2
    <3> QED
      BY <2>5, <3>2, <3>3 DEF NoRoom, BucketFull
  <2>6. KeepsFull(b, c)
    BY <2>4, <2>5 DEF KeepsFull, NoRoom, BucketFull, Get
  <2> QED
    BY <1>1, <2>2, <2>6 DEF Known
<1>4. CASE i # NoId /\ Get(b, t, i) # Nil
  <2> DEFINE old == Get(b, t, i)
  <2>1. c = ChangeQuantity(b, old, qty)
    BY <1>4 DEF restoreOrderQuantity
  <2>2. b \in Books /\ Named(b) /\ old \in Ptrs /\ old \notin LostIn(b)
    BY <1>4, MappedInUse, MappedNotLost DEF Known
  <2> HIDE DEF old
  <2>3. Named(c) /\ LosesNone(b, c) /\ c.byId = b.byId
    BY <1>1, <2>1, <2>2, ChangeQuantityLosesNone
  <2>4. KeepsFull(b, c)
    BY <2>3 DEF KeepsFull, NoRoom, BucketFull, Get
  <2> QED
    BY <1>1, <2>3, <2>4, LosesNoneRefuses DEF Known
<1> QED
  BY <1>2, <1>3, <1>4

LEMMA TradeCancelRefuses ==
  ASSUME NEW b, Known(b), NEW t \in Tokens, NEW buy \in Ids \union {NoId},
         NEW sell \in Ids \union {NoId}, NEW price \in Prices, NEW qty \in Quantities,
         NEW o1, NEW o2, Takes(b, t, buy, sell, qty, price, o1, o2),
         NEW e, e = handleTradeCancel(b, t, buy, sell, qty, price, o1, o2)
  PROVE  Named(e) /\ Refuses(b, e)
<1> DEFINE c == getContract(b, t)
           d == restoreOrderQuantity(c, t, buy, qty, price, "Buy", o1)
<1>1. "Buy" \in Sides /\ "Sell" \in Sides
  BY DEF Sides
<1>2. Known(c) /\ LosesNone(b, c) /\ c.used = b.used /\ c.byId = b.byId
  BY GetContractLosesNone
<1>3. e = restoreOrderQuantity(d, t, sell, qty, price, "Sell", o2)
  BY DEF handleTradeCancel, RestoreBuy
<1> HIDE DEF c
<1>4. buy \in Ids /\ Get(c, t, buy) = Nil => o1 \in Free(c)
  BY <1>2 DEF Free, Get, Takes
<1>5. sell \in Ids /\ Get(d, t, sell) = Nil => o2 \in Free(d)
  BY DEF Takes, RestoreBuy, c
<1>6. Known(d) /\ Refuses(c, d)
  BY <1>1, <1>2, <1>4, RestoreRefuses
<1> HIDE DEF d
<1>7. Known(e) /\ Refuses(d, e) /\ KeepsFull(d, e)
  BY <1>1, <1>3, <1>5, <1>6, RestoreRefuses
<1>8. LostStay(c, e)
  BY <1>6, <1>7 DEF Refuses, LostStay, SameLost
<1>9. ASSUME NEW o \in LostIn(e) \ LostIn(c)
      PROVE  RefusedIn(e, o)
  <2>1. CASE o \notin LostIn(d)
    BY <1>7, <1>9, <2>1 DEF Refuses
  <2>2. CASE o \in LostIn(d)
    <3>1. RefusedIn(d, o) /\ SameLost(d, e, o)
      BY <1>6, <1>7, <1>9, <2>2 DEF Refuses, LostStay
    <3>2. d.order[o].token \in Tokens /\ d.order[o].id \in Ids
      BY <1>6, <2>2 DEF Known, Named, LostIn
    <3> QED
      BY <1>7, <3>1, <3>2 DEF RefusedIn, KeepsFull, SameLost
  <2> QED
    BY <2>1, <2>2
<1>10. Refuses(c, e)
  BY <1>8, <1>9 DEF Refuses
<1> QED
  BY <1>2, <1>7, <1>10, AfterLosesNone DEF Known

LEMMA NextAccounts ==
  ASSUME Known(book), [Next]_book
  PROVE  Named(book') /\ Accounts(book, book')
<1>1. CASE UNCHANGED book
  BY <1>1 DEF Known, Accounts, LostStay, SameLost
<1>2. ASSUME NEW t \in Tokens, NEW i \in Ids, New(t, i)
      PROVE  Named(book') /\ Accounts(book, book')
  BY <1>2, NewOrderAccounts DEF New
<1>3. ASSUME NEW t \in Tokens, NEW i \in Ids, Modify(t, i)
      PROVE  Named(book') /\ Accounts(book, book')
  <2>1. PICK side \in Sides, price \in Prices, qty \in Quantities, o \in Spare(book, t, i) :
               book' = handleModifyOrder(book, t, i, side, price, qty, o)
    BY <1>3 DEF Modify
  <2>2. Get(book, t, i) = Nil => o \in Free(book)
    BY NilAssumption DEF Spare
  <2> QED
    BY <2>1, <2>2, ModifyOrderAccounts
<1>4. ASSUME NEW t \in Tokens, NEW i \in Ids, Cancel(t, i)
      PROVE  Named(book') /\ Accounts(book, book')
  BY <1>4, CancelOrderLosesNone, LosesNoneRefuses DEF Cancel
<1>5. ASSUME NEW t \in Tokens, NEW buy \in Ids \union {NoId},
             NEW sell \in Ids \union {NoId}, Trade(t, buy, sell)
      PROVE  Named(book') /\ Accounts(book, book')
  BY <1>5, TradeLosesNone, LosesNoneRefuses DEF Trade
<1>6. ASSUME NEW t \in Tokens, NEW buy \in Ids \union {NoId},
             NEW sell \in Ids \union {NoId}, TradeCancel(t, buy, sell)
      PROVE  Named(book') /\ Accounts(book, book')
  <2>1. PICK price \in Prices, qty \in Quantities : \E o1, o2 :
               /\ Takes(book, t, buy, sell, qty, price, o1, o2)
               /\ book' = handleTradeCancel(book, t, buy, sell, qty, price, o1, o2)
    BY <1>6, TradeCancelTakes
  <2>2. PICK o1, o2 :
               /\ Takes(book, t, buy, sell, qty, price, o1, o2)
               /\ book' = handleTradeCancel(book, t, buy, sell, qty, price, o1, o2)
    BY <2>1
  <2>3. Named(book') /\ Refuses(book, book')
    BY <1>6, <2>1, <2>2, TradeCancelRefuses
  <2> QED
    BY <2>3 DEF Refuses, Accounts
<1> QED
  BY <1>1, <1>2, <1>3, <1>4, <1>5, <1>6 DEF Next

\* Whatever ids are reused and whatever buckets fill, an order that a handler loses
\* was refused by a full bucket or replaced under its id, and stays on its level,
\* out of reach, as it is: LossesAccounted.
THEOREM LossesStayAccounted == Spec => LossesAccounted
<1> DEFINE Names == Named(book)
<1>1. Init => Names
  BY DEF Init, Named
<1>2. IndInv /\ Names /\ [Next]_book => Names'
  BY NextAccounts DEF IndInv, Known
<1>3. IndInv /\ Names /\ [Next]_book =>
        [/\ \A o \in Lost' \ Lost : Refused(o) \/ Replaced(o)
         /\ \A o \in Lost : /\ o \in Lost'
                            /\ book'.order[o].level = book.order[o].level
                            /\ book'.order[o].qty = book.order[o].qty]_book
  <2> SUFFICES ASSUME IndInv, Names, [Next]_book
               PROVE  /\ \A o \in Lost' \ Lost : Refused(o) \/ Replaced(o)
                      /\ \A o \in Lost : /\ o \in Lost'
                                         /\ book'.order[o].level = book.order[o].level
                                         /\ book'.order[o].qty = book.order[o].qty
    OBVIOUS
  <2>1. Accounts(book, book')
    BY NextAccounts DEF IndInv, Known
  <2>2. Lost = LostIn(book) /\ Lost' = LostIn(book')
    BY DEF Lost, LostIn
  <2>3. \A o : /\ RefusedIn(book', o) => Refused(o)
               /\ ReplacedIn(book, book', o) => Replaced(o)
    BY DEF RefusedIn, Refused, NoRoom, ReplacedIn, Replaced
  <2> QED
    BY <2>1, <2>2, <2>3 DEF Accounts, LostStay, SameLost
<1> QED
  BY <1>1, <1>2, <1>3, InvHolds, PTL DEF Spec, LossesAccounted
--------------------------------------------------------------------------------
(* What the book shows, and the abstract book: LimitOrderBook. *)

\* What the map does not have does not rest.
LEMMA UnmappedRestsNot ==
  ASSUME NEW b, Tidy(b), NEW r, Shows(b, r), NEW t \in Tokens, NEW i \in Ids,
         Get(b, t, i) = Nil
  PROVE  ~ LOB!Rests(r, t, i)
<1>1. b \in Books /\ Chained(b) /\ Disjoint(b) /\ Mapped(b)
  BY DEF Tidy, Inv, Base, Listed
<1> SUFFICES ASSUME NEW k \in Levels, k.token = t, NEW n \in DOMAIN r[k], r[k][n].id = i
             PROVE  FALSE
  BY DEF LOB!Rests, LOB!Homes, LOB!IsIn
<1>2. PICK w : Thread(b, k, w) /\ r[k] = Rows(b, k, w)
  BY DEF Shows
<1>3. /\ w[n] \in Ptrs /\ b.order[w[n]].level = k
      /\ r[k][n] = [id |-> b.order[w[n]].id, qty |-> b.order[w[n]].qty]
  <2> DEFINE count == b.level[k].count
  <2>1. /\ DOMAIN r[k] = 1 .. count
        /\ \A l \in 1 .. count :
             /\ w[l] \in Ptrs /\ b.order[w[l]].level = k
             /\ r[k][l] = [id |-> b.order[w[l]].id, qty |-> b.order[w[l]].qty]
    BY <1>1, <1>2, RowsAreEntries
  <2> QED
    BY <2>1
<1>4. b.order[w[n]].id = i /\ k # Nil
  BY <1>3, NilAssumption
<1>5. w[n] \in b.used /\ b.order[w[n]].token = t
  <2>1. w[n] \in b.used
        /\ k = LevelKey(b.order[w[n]].token, b.order[w[n]].side, b.order[w[n]].price)
    BY <1>1, <1>3, <1>4 DEF Disjoint
  <2> QED
    BY <2>1 DEF LevelKey
<1>6. Get(b, t, i) = w[n]
  BY <1>1, <1>4, <1>5 DEF Mapped
<1> QED
  BY <1>3, <1>6, NilAssumption

\* What the map has rests where its record says, and nowhere else.
LEMMA MappedRests ==
  ASSUME NEW b, Tidy(b), NEW r, Shows(b, r), NEW t \in Tokens, NEW i \in Ids,
         NEW o, o = Get(b, t, i), o # Nil, NEW k, k = b.order[o].level
  PROVE  /\ b \in Books /\ Listed(b) /\ o \in Ptrs /\ k \in Levels
         /\ k = LevelKey(t, b.order[o].side, b.order[o].price)
         /\ b.order[o].id = i /\ b.order[o].token = t
         /\ LOB!Rests(r, t, i) /\ LOB!Home(r, t, i) = k
         /\ LOB!Qty(r, t, i) = b.order[o].qty
         /\ \A n \in DOMAIN r[k] : r[k][n].id = i => n = LOB!Position(r[k], i)
         /\ \E w : Places(b, r, o, w, LOB!Position(r[k], i))
<1>1. b \in Books /\ Listed(b) /\ Chained(b) /\ Sound(b) /\ Disjoint(b) /\ Mapped(b)
  BY DEF Tidy, Inv, Base, Listed
<1>2. /\ o \in Ptrs /\ b.order[o].id = i /\ b.order[o].token = t /\ k # Nil
      /\ k = LevelKey(t, b.order[o].side, b.order[o].price)
  BY <1>1, SoundAt
<1>3. k \in Levels /\ k.token = t
  <2>1. b.order[o] \in OrderRecords
    BY <1>1, <1>2 DEF Books
  <2>2. k \in Levels
    BY <1>2, <2>1 DEF OrderRecords
  <2> QED
    BY <1>2, <2>2 DEF LevelKey
<1>4. ASSUME NEW j \in Levels, j.token = t, NEW v, Thread(b, j, v), r[j] = Rows(b, j, v),
             NEW n \in DOMAIN r[j], r[j][n].id = i
      PROVE  j = k /\ v[n] = o
  <2>1. /\ v[n] \in Ptrs /\ b.order[v[n]].level = j
        /\ r[j][n] = [id |-> b.order[v[n]].id, qty |-> b.order[v[n]].qty]
    <3> DEFINE count == b.level[j].count
    <3>1. /\ DOMAIN r[j] = 1 .. count
          /\ \A l \in 1 .. count :
               /\ v[l] \in Ptrs /\ b.order[v[l]].level = j
               /\ r[j][l] = [id |-> b.order[v[l]].id, qty |-> b.order[v[l]].qty]
      BY <1>1, <1>4, RowsAreEntries
    <3> QED
      BY <1>4, <3>1
  <2>2. b.order[v[n]].id = i /\ j # Nil
    BY <1>4, <2>1, NilAssumption
  <2>3. v[n] \in b.used /\ b.order[v[n]].token = t
    <3>1. v[n] \in b.used
          /\ j = LevelKey(b.order[v[n]].token, b.order[v[n]].side, b.order[v[n]].price)
      BY <1>1, <2>1, <2>2 DEF Disjoint
    <3> QED
      BY <1>4, <3>1 DEF LevelKey
  <2>4. Get(b, t, i) = v[n]
    BY <1>1, <2>2, <2>3 DEF Mapped
  <2> QED
    BY <2>1, <2>4
<1>5. PICK w : Thread(b, k, w) /\ r[k] = Rows(b, k, w)
  BY <1>3 DEF Shows
<1> DEFINE count == b.level[k].count
<1>6. /\ DOMAIN r[k] = 1 .. count
      /\ \A n \in 1 .. count : r[k][n] = [id |-> b.order[w[n]].id, qty |-> b.order[w[n]].qty]
  BY <1>1, <1>3, <1>5, RowsAreEntries
<1>7. PICK m \in 1 .. count : w[m] = o
  BY <1>2, <1>5 DEF Thread, At
<1>8. m \in DOMAIN r[k] /\ r[k][m].id = i /\ r[k][m].qty = b.order[o].qty
  <2>1. r[k][m] = [id |-> i, qty |-> b.order[o].qty]
    BY <1>2, <1>6, <1>7
  <2> QED
    BY <1>6, <2>1
<1>9. LOB!Homes(r, t, i) = {k}
  <2>1. k \in LOB!Homes(r, t, i)
    BY <1>3, <1>8 DEF LOB!Homes, LOB!IsIn
  <2>2. ASSUME NEW j \in LOB!Homes(r, t, i)
        PROVE  j = k
    <3>1. /\ j \in Levels /\ j.token = t
          /\ \E n \in DOMAIN r[j] : r[j][n].id = i
      BY DEF LOB!Homes, LOB!IsIn
    <3>2. PICK v : Thread(b, j, v) /\ r[j] = Rows(b, j, v)
      BY <3>1 DEF Shows
    <3> QED
      BY <1>4, <3>1, <3>2
  <2> QED
    BY <2>1, <2>2
<1>10. LOB!Home(r, t, i) = k /\ LOB!Rests(r, t, i)
  BY <1>9 DEF LOB!Home, LOB!Rests
<1>11. \A n \in DOMAIN r[k] : r[k][n].id = i => n = m
  <2> SUFFICES ASSUME NEW n \in DOMAIN r[k], r[k][n].id = i PROVE n = m
    OBVIOUS
  <2>1. w[n] = o
    BY <1>3, <1>4, <1>5
  <2>2. \A x, y \in 1 .. count : w[x] = w[y] => x = y
    BY <1>5 DEF Thread
  <2> QED
    BY <1>6, <1>7, <2>1, <2>2
<1>12. LOB!Position(r[k], i) = m
  BY <1>8, <1>11 DEF LOB!Position
<1>13. LOB!Qty(r, t, i) = b.order[o].qty
  BY <1>8, <1>10, <1>12 DEF LOB!Qty
<1>14. Places(b, r, o, w, m)
  BY <1>5, <1>7 DEF Places
<1> QED
  BY <1>1, <1>2, <1>3, <1>10, <1>11, <1>12, <1>13, <1>14
--------------------------------------------------------------------------------
(* The handlers and the messages of the abstract book. *)

\* A place is a position of what is shown.
LEMMA PlacesInRows ==
  ASSUME NEW b \in Books, Listed(b), NEW r, NEW o, NEW k \in Levels, k = b.order[o].level,
         NEW w, NEW m, Places(b, r, o, w, m)
  PROVE  r[k] \in Seq(Entries) /\ m \in 1 .. Len(r[k])
<1>1. Thread(b, k, w) /\ r[k] = Rows(b, k, w) /\ m \in 1 .. b.level[k].count /\ Chained(b)
  BY DEF Places, Listed
<1>2. Rows(b, k, w) \in Seq(Entries) /\ Len(Rows(b, k, w)) = b.level[k].count
  BY <1>1, RowsAreEntries
<1> QED
  BY <1>1, <1>2

\* What is replaced and then removed might as well be removed.
LEMMA RemoveReplaced ==
  ASSUME NEW S, NEW s \in Seq(S), NEW m \in 1 .. Len(s), NEW e \in S
  PROVE  LOB!RemoveAt(LOB!ReplaceAt(s, m, e), m) = LOB!RemoveAt(s, m)
<1> DEFINE t == [s EXCEPT ![m] = e]
<1>1. /\ t \in Seq(S) /\ Len(t) = Len(s) /\ Len(s) \in Nat
      /\ \A n \in 1 .. Len(s) : t[n] = IF n = m THEN e ELSE s[n]
  BY ExceptSeq, LenProperties
<1> HIDE DEF t
<1>2. LOB!RemoveAt(t, m) = [n \in 1 .. Len(s) - 1 |-> IF n < m THEN t[n] ELSE t[n + 1]]
  BY <1>1, RemoveAtSkips
<1>3. LOB!RemoveAt(s, m) = [n \in 1 .. Len(s) - 1 |-> IF n < m THEN s[n] ELSE s[n + 1]]
  BY <1>1, RemoveAtSkips
<1>4. ASSUME NEW n \in 1 .. Len(s) - 1
      PROVE  (IF n < m THEN t[n] ELSE t[n + 1]) = (IF n < m THEN s[n] ELSE s[n + 1])
  BY <1>1
<1> QED
  BY <1>2, <1>3, <1>4 DEF LOB!ReplaceAt, t

\* A new contract shows no more than before.
LEMMA GetContractShows ==
  ASSUME NEW b, Tidy(b), NEW t \in Tokens, NEW r, Shows(b, r),
         NEW c, c = getContract(b, t)
  PROVE  Tidy(c) /\ Shows(c, r) /\ c.used = b.used /\ c.byId = b.byId /\ c.order = b.order
<1>1. Tidy(c) /\ c.used = b.used /\ c.byId = b.byId
  BY GetContractTidy
<1>2. c.order = b.order /\ c.level = b.level
  BY DEF getContract, Tidy, Inv, Base, Books
<1>3. Shows(c, r)
  <2>1. \A k \in Levels : \A w : Thread(b, k, w) => Thread(c, k, w)
    BY <1>2 DEF Thread, At
  <2>2. \A k \in Levels : \A w : Rows(c, k, w) = Rows(b, k, w)
    BY <1>2 DEF Rows
  <2> QED
    BY <2>1, <2>2 DEF Shows
<1> QED
  BY <1>1, <1>2, <1>3

\* handleNewOrder is New.
LEMMA NewOrderShows ==
  ASSUME NEW b, Tidy(b), NEW r, Shows(b, r), NEW t \in Tokens, NEW i \in Ids,
         NEW side \in Sides, NEW price \in Prices, NEW qty \in Quantities, NEW o \in Free(b),
         Get(b, t, i) = Nil
  PROVE  Shows(handleNewOrder(b, t, i, side, price, qty, o),
               LOB!New(r, t, i, side, price, qty))
<1> DEFINE c == getContract(b, t)
           d == EnterOrder(c, t, i, side, price, qty, o)
<1>1. Tidy(c) /\ Shows(c, r) /\ c.used = b.used
  BY GetContractShows
<1> HIDE DEF c
<1>2. /\ c \in Books /\ Listed(c) /\ o \in Ptrs /\ c.order[o].level = Nil
  BY <1>1 DEF Tidy, Inv, Base, Disjoint, Free
<1>3. qty \in Int
  BY QuantityAssumption
<1>4. Shows(d, LOB!Place(r, t, side, price, i, qty))
  BY <1>1, <1>2, <1>3, EnterOrderShows
<1>5. ~ LOB!Rests(r, t, i)
  BY UnmappedRestsNot
<1> QED
  BY <1>4, <1>5 DEF handleNewOrder, c, LOB!New

\* handleCancelOrder is Cancel.
LEMMA CancelOrderShows ==
  ASSUME NEW b, Tidy(b), NEW r, Shows(b, r), NEW t \in Tokens, NEW i \in Ids
  PROVE  Shows(handleCancelOrder(b, t, i), LOB!Cancel(r, t, i))
<1> DEFINE c == getContract(b, t)
           o == Get(c, t, i)
           d == Discard(c, t, o)
<1>1. Tidy(c) /\ Shows(c, r)
  BY GetContractShows
<1>2. handleCancelOrder(b, t, i) = IF o = Nil THEN c ELSE d
  BY DEF handleCancelOrder
<1> HIDE DEF c, o
<1>3. CASE o = Nil
  <2>1. ~ LOB!Rests(r, t, i)
    BY <1>1, <1>3, UnmappedRestsNot DEF o
  <2> QED
    BY <1>1, <1>2, <1>3, <2>1 DEF LOB!Cancel
<1>4. CASE o # Nil
  <2> DEFINE k == c.order[o].level
             m == LOB!Position(r[k], i)
  <2>1. /\ c \in Books /\ Listed(c) /\ o \in Ptrs /\ k \in Levels
        /\ c.order[o].id = i /\ LOB!Rests(r, t, i) /\ LOB!Home(r, t, i) = k
        /\ \E w : Places(c, r, o, w, m)
    BY <1>1, <1>4, MappedRests DEF o
  <2>2. PICK w : Places(c, r, o, w, m)
    BY <2>1
  <2> HIDE DEF m
  <2>3. Shows(d, [r EXCEPT ![k] = LOB!RemoveAt(@, m)])
    BY <1>1, <2>1, <2>2, DiscardShows
  <2>4. LOB!Cancel(r, t, i) = [r EXCEPT ![k] = LOB!RemoveAt(@, m)]
    BY <2>1 DEF LOB!Cancel, LOB!Withdraw, m
  <2> QED
    BY <1>2, <1>4, <2>3, <2>4
<1> QED
  BY <1>3, <1>4

\* In place, or out of the book: one side of a trade.
LEMMA ReduceSideShows ==
  ASSUME NEW b, Tidy(b), NEW r, Shows(b, r), NEW t \in Tokens, NEW i \in Ids \union {NoId},
         NEW qty \in Quantities
  PROVE  Shows(ReduceSide(b, t, i, qty), LOB!Fill(r, t, i, qty))
<1>1. CASE i = NoId
  BY <1>1 DEF ReduceSide, LOB!Fill
<1>2. CASE i # NoId /\ Get(b, t, i) = Nil
  <2>1. ~ LOB!Rests(r, t, i)
    BY <1>2, UnmappedRestsNot
  <2> QED
    BY <1>2, <2>1 DEF ReduceSide, LOB!Fill
<1>3. CASE i # NoId /\ Get(b, t, i) # Nil
  <2> DEFINE o == Get(b, t, i)
             k == b.order[o].level
             m == LOB!Position(r[k], i)
             c == ChangeQuantity(b, o, -qty)
             e == [id |-> i, qty |-> b.order[o].qty - qty]
             s == [r EXCEPT ![k] = LOB!ReplaceAt(@, m, e)]
             d == Discard(c, t, o)
  <2>1. /\ b \in Books /\ Listed(b) /\ o \in Ptrs /\ k \in Levels
        /\ b.order[o].id = i /\ LOB!Rests(r, t, i) /\ LOB!Home(r, t, i) = k
        /\ LOB!Qty(r, t, i) = b.order[o].qty
        /\ \E w : Places(b, r, o, w, m)
    BY <1>3, MappedRests
  <2>2. PICK w : Places(b, r, o, w, m)
    BY <2>1
  <2>3. -qty \in Int /\ qty \in Int /\ b.order[o].qty \in Int
        /\ b.order[o].qty + -qty = b.order[o].qty - qty
    BY <1>3, MappedOrder, QuantityAssumption DEF Tidy
  <2>4. ReduceSide(b, t, i, qty) = IF c.order[o].qty <= 0 THEN d ELSE c
    BY <1>3 DEF ReduceSide, reduceOrderQuantity
  <2> HIDE DEF m, k, o, c, d
  <2>5. Shows(c, s) /\ Places(c, s, o, w, m) /\ c.order[o].level = k
    <3> DEFINE delta == -qty
    <3>1. delta \in Int /\ c = ChangeQuantity(b, o, delta) /\ k = b.order[o].level
      BY <2>3 DEF c, k
    <3>2. e = [id |-> b.order[o].id, qty |-> b.order[o].qty + delta]
      BY <2>1, <2>3
    <3> HIDE DEF delta, e
    <3>3. s = [r EXCEPT ![k] = LOB!ReplaceAt(@, m, [id |-> b.order[o].id,
                                                    qty |-> b.order[o].qty + delta])]
      BY <3>2
    <3> DEFINE f == [id |-> b.order[o].id, qty |-> b.order[o].qty + delta]
               q == [r EXCEPT ![k] = LOB!ReplaceAt(@, m, f)]
    <3>4. Shows(c, q) /\ Places(c, q, o, w, m) /\ c.order[o].level = k
      <4>1. /\ b \in Books /\ Listed(b) /\ o \in Ptrs /\ Shows(b, r) /\ k \in Levels
            /\ Places(b, r, o, w, m)
        BY <2>1, <2>2
      <4> QED
        BY ONLY <3>1, <4>1, ChangeQuantityShows
    <3> HIDE DEF s
    <3> QED
      BY <3>3, <3>4
  <2>6. /\ c \in Books /\ Listed(c) /\ c.order[o].id = i
        /\ c.order[o].qty = b.order[o].qty - qty
    <3>1. /\ c \in Books /\ SameOrder(c.order[o], [b.order[o] EXCEPT !.qty = @ + -qty])
          /\ Listed(c) /\ b.order[o] \in OrderRecords
      BY <2>1, <2>3, ChangeQuantityEffect DEF c, Books
    <3> QED
      BY <2>1, <2>3, <3>1 DEF SameOrder, OrderRecords
  <2>7. CASE b.order[o].qty > qty
    <3>1. LOB!Fill(r, t, i, qty) = s
      BY <1>3, <2>1, <2>7 DEF LOB!Fill, LOB!SetQty, m
    <3>2. ReduceSide(b, t, i, qty) = c
      BY <2>3, <2>4, <2>6, <2>7
    <3> QED
      BY <2>5, <3>1, <3>2
  <2>8. CASE ~ (b.order[o].qty > qty)
    <3>1. LOB!Fill(r, t, i, qty) = [r EXCEPT ![k] = LOB!RemoveAt(@, m)]
      BY <1>3, <2>1, <2>8 DEF LOB!Fill, LOB!Withdraw, m
    <3>2. ReduceSide(b, t, i, qty) = d
      BY <2>3, <2>4, <2>6, <2>8
    <3>3. Shows(d, [s EXCEPT ![k] = LOB!RemoveAt(@, m)])
      <4> HIDE DEF s
      <4> QED
        BY <1>3, <2>1, <2>5, <2>6, DiscardShows DEF d
    <3>4. [s EXCEPT ![k] = LOB!RemoveAt(@, m)] = [r EXCEPT ![k] = LOB!RemoveAt(@, m)]
      <4>1. LOB!RemoveAt(s[k], m) = LOB!RemoveAt(r[k], m)
        <5>1. r[k] \in Seq(Entries) /\ m \in 1 .. Len(r[k])
          BY <2>1, <2>2, PlacesInRows DEF k
        <5>2. e \in Entries
          BY <2>3 DEF Entries
        <5>3. s[k] = LOB!ReplaceAt(r[k], m, e)
          BY <2>1 DEF Shows
        <5> QED
          BY <5>1, <5>2, <5>3, RemoveReplaced
      <4> QED
        BY <4>1 DEF Shows
    <3> QED
      BY <3>1, <3>2, <3>3, <3>4
  <2> QED
    BY <2>7, <2>8
<1> QED
  BY <1>1, <1>2, <1>3

\* handleTrade is Trade: the sell side meets what the buy side left.
LEMMA TradeShows ==
  ASSUME NEW b, Tidy(b), NEW r, Shows(b, r), NEW t \in Tokens, NEW buy \in Ids \union {NoId},
         NEW sell \in Ids \union {NoId}, NEW qty \in Quantities
  PROVE  Shows(handleTrade(b, t, buy, sell, qty), LOB!Trade(r, t, buy, sell, qty))
<1> DEFINE c == getContract(b, t)
           d == ReduceSide(c, t, buy, qty)
           s == LOB!Fill(r, t, buy, qty)
<1>1. Tidy(c) /\ Shows(c, r)
  BY GetContractShows
<1> HIDE DEF c
<1>2. Tidy(d) /\ Shows(d, s)
  BY <1>1, ReduceSideTidy, ReduceSideShows
<1> HIDE DEF d, s
<1>3. Shows(ReduceSide(d, t, sell, qty), LOB!Fill(s, t, sell, qty))
  BY <1>2, ReduceSideShows
<1> QED
  BY <1>3 DEF handleTrade, LOB!Trade, c, d, s

\* In place, or entered again: one side of a trade that is cancelled.
LEMMA RestoreShows ==
  ASSUME NEW b, Tidy(b), NEW r, Shows(b, r), NEW t \in Tokens, NEW i \in Ids \union {NoId},
         NEW side \in Sides, NEW price \in Prices, NEW qty \in Quantities, NEW o,
         i \in Ids /\ Get(b, t, i) = Nil => o \in Free(b),
         NEW c, c = restoreOrderQuantity(b, t, i, qty, price, side, o)
  PROVE  Shows(c, LOB!Refill(r, t, i, side, price, qty))
<1>1. qty \in Int
  BY QuantityAssumption
<1>2. CASE i = NoId
  BY <1>2 DEF restoreOrderQuantity, LOB!Refill
<1>3. CASE i # NoId /\ Get(b, t, i) = Nil
  <2>1. ~ LOB!Rests(r, t, i)
    BY <1>3, UnmappedRestsNot
  <2>2. c = EnterOrder(b, t, i, side, price, qty, o)
    BY <1>3 DEF restoreOrderQuantity
  <2>3. /\ b \in Books /\ Listed(b) /\ o \in Ptrs /\ b.order[o].level = Nil
    BY <1>3 DEF Tidy, Inv, Base, Disjoint, Free
  <2>4. Shows(c, LOB!Place(r, t, side, price, i, qty))
    BY <1>1, <1>3, <2>2, <2>3, EnterOrderShows
  <2> QED
    BY <1>3, <2>1, <2>4 DEF LOB!Refill
<1>4. CASE i # NoId /\ Get(b, t, i) # Nil
  <2> DEFINE old == Get(b, t, i)
             k == b.order[old].level
             m == LOB!Position(r[k], i)
             e == [id |-> b.order[old].id, qty |-> b.order[old].qty + qty]
             s == [r EXCEPT ![k] = LOB!ReplaceAt(@, m, e)]
  <2>1. /\ b \in Books /\ Listed(b) /\ old \in Ptrs /\ k \in Levels
        /\ b.order[old].id = i /\ LOB!Rests(r, t, i) /\ LOB!Home(r, t, i) = k
        /\ LOB!Qty(r, t, i) = b.order[old].qty
        /\ \E w : Places(b, r, old, w, m)
    BY <1>4, MappedRests
  <2>2. PICK w : Places(b, r, old, w, m)
    BY <2>1
  <2>3. c = ChangeQuantity(b, old, qty) /\ k = b.order[old].level /\ Shows(b, r)
    BY <1>4 DEF restoreOrderQuantity
  <2>4. LOB!Refill(r, t, i, side, price, qty) = s
    BY <1>4, <2>1 DEF LOB!Refill, LOB!SetQty
  <2> HIDE DEF old, k, m
  <2>5. Shows(c, s)
    BY ONLY <1>1, <2>1, <2>2, <2>3, ChangeQuantityShows
  <2> QED
    BY <2>4, <2>5
<1> QED
  BY <1>2, <1>3, <1>4

\* handleTradeCancel is TradeCancel.
LEMMA TradeCancelShows ==
  ASSUME RoomyBuckets, NEW b, Tidy(b), NEW r, Shows(b, r), NEW t \in Tokens,
         NEW buy \in Ids \union {NoId}, NEW sell \in Ids \union {NoId},
         NEW price \in Prices, NEW qty \in Quantities,
         NEW o1, NEW o2, Takes(b, t, buy, sell, qty, price, o1, o2)
  PROVE  Shows(handleTradeCancel(b, t, buy, sell, qty, price, o1, o2),
               LOB!TradeCancel(r, t, buy, sell, price, qty))
<1> DEFINE c == getContract(b, t)
           d == restoreOrderQuantity(c, t, buy, qty, price, "Buy", o1)
           e == restoreOrderQuantity(d, t, sell, qty, price, "Sell", o2)
           s == LOB!Refill(r, t, buy, "Buy", price, qty)
<1>1. "Buy" \in Sides /\ "Sell" \in Sides
  BY DEF Sides
<1>2. Tidy(c) /\ Shows(c, r) /\ c.used = b.used /\ c.byId = b.byId
  BY GetContractShows
<1> HIDE DEF c
<1>3. buy \in Ids /\ Get(c, t, buy) = Nil => o1 \in Free(c)
  BY <1>2 DEF Free, Get, Takes
<1>4. sell \in Ids /\ Get(d, t, sell) = Nil => o2 \in Free(d)
  BY DEF Takes, RestoreBuy, c
<1>5. Tidy(d)
  BY <1>1, <1>2, <1>3, RestoreTidy
<1>6. Shows(d, s)
  BY <1>1, <1>2, <1>3, RestoreShows
<1> HIDE DEF d, s
<1>7. Shows(e, LOB!Refill(s, t, sell, "Sell", price, qty))
  BY <1>1, <1>4, <1>5, <1>6, RestoreShows
<1> QED
  BY <1>7 DEF handleTradeCancel, RestoreBuy, LOB!TradeCancel, c, d, s

\* What is appended and then replaced might as well be appended.
LEMMA ReplaceLast ==
  ASSUME NEW S, NEW s \in Seq(S), NEW e \in S, NEW f \in S
  PROVE  LOB!ReplaceAt(Append(s, e), Len(s) + 1, f) = Append(s, f)
<1> DEFINE a == Append(s, e)
           z == Append(s, f)
           t == [a EXCEPT ![Len(s) + 1] = f]
<1>1. /\ a \in Seq(S) /\ Len(a) = Len(s) + 1 /\ Len(s) \in Nat
      /\ \A n \in 1 .. Len(s) : a[n] = s[n]
  BY AppendProperties, LenProperties
<1>2. /\ z \in Seq(S) /\ Len(z) = Len(s) + 1 /\ z[Len(s) + 1] = f
      /\ \A n \in 1 .. Len(s) : z[n] = s[n]
  BY AppendProperties
<1> HIDE DEF a, z
<1>3. /\ t \in Seq(S) /\ Len(t) = Len(a)
      /\ \A n \in 1 .. Len(a) : t[n] = IF n = Len(s) + 1 THEN f ELSE a[n]
  <2>1. Len(s) + 1 \in 1 .. Len(a)
    BY <1>1
  <2> QED
    BY <1>1, <2>1, ExceptSeq
<1> HIDE DEF t
<1>4. ASSUME NEW n \in 1 .. Len(t)
      PROVE  t[n] = z[n]
  <2>1. n \in 1 .. Len(s) \/ n = Len(s) + 1
    BY <1>1, <1>3
  <2>2. n \in 1 .. Len(a)
    BY <1>3
  <2> QED
    BY <1>1, <1>2, <1>3, <2>1, <2>2
<1>5. t = z
  BY <1>1, <1>2, <1>3, <1>4, SeqEqual
<1> QED
  BY <1>5 DEF LOB!ReplaceAt, a, z, t

\* A new price: out of its level, to the end of the other one, and resized.
LEMMA AmendShows ==
  ASSUME NEW b, Tidy(b), NEW r, Shows(b, r), NEW t \in Tokens, NEW i \in Ids,
         NEW o, o = Get(b, t, i), o # Nil, NEW price \in Prices, price # b.order[o].price,
         NEW qty \in Quantities, NEW c, c = ChangePrice(b, o, price)
  PROVE  Shows(ChangeQuantity(c, o, qty - b.order[o].qty), LOB!Amend(r, t, i, price, qty))
<1> DEFINE k == b.order[o].level
           m == LOB!Position(r[k], i)
           s == [r EXCEPT ![k] = LOB!RemoveAt(@, m)]
           j == LevelKey(t, b.order[o].side, price)
           e == [id |-> i, qty |-> b.order[o].qty]
           u == [s EXCEPT ![j] = Append(@, e)]
           delta == qty - b.order[o].qty
           f == [id |-> i, qty |-> qty]
<1>1. /\ b \in Books /\ Listed(b) /\ o \in Ptrs /\ k \in Levels
      /\ k = LevelKey(t, b.order[o].side, b.order[o].price)
      /\ b.order[o].id = i /\ b.order[o].token = t
      /\ LOB!Rests(r, t, i) /\ LOB!Home(r, t, i) = k
      /\ \E w : Places(b, r, o, w, m)
  BY MappedRests
<1>2. PICK w : Places(b, r, o, w, m)
  BY <1>1
<1>3. b.order[o].qty \in Int /\ qty \in Int /\ delta \in Int
  BY MappedOrder, QuantityAssumption DEF Tidy
<1>4. j \in Levels /\ j # k /\ j.side = k.side /\ k.price # price
  <2>1. b.order[o].side \in Sides
    BY <1>1 DEF LevelKey, Levels
  <2> QED
    BY <1>1, <2>1 DEF LevelKey, Levels
<1>5. Shows(c, u)
  <2> DEFINE q == [s EXCEPT ![j] = Append(@, [id |-> b.order[o].id, qty |-> b.order[o].qty])]
  <2>1. k = b.order[o].level /\ j = LevelKey(b.order[o].token, b.order[o].side, price)
    BY <1>1
  <2>2. u = q
    BY <1>1
  <2>3. s = [r EXCEPT ![k] = LOB!RemoveAt(@, m)]
    OBVIOUS
  <2> HIDE DEF k, m, s, j, u
  <2>4. Shows(c, q)
    BY <1>1, <1>2, <1>4, <2>1, <2>3, ChangePriceShows
  <2> QED
    BY <2>2, <2>4
<1>6. Tidy(c) /\ Get(c, t, i) = o /\ c.order[o].level = j /\ c.order[o].qty = b.order[o].qty
  <2>1. /\ Base(c) /\ Get(c, t, i) = o /\ c.order[o].qty = b.order[o].qty
        /\ Open(b) => Open(c)
    BY ChangePriceBase DEF Tidy, Inv
  <2>2. o \in b.used
    BY MappedInUse DEF Tidy
  <2>3. Mapped(c)
    BY <2>2, ChangePriceMapped DEF Tidy
  <2>4. j = LevelKey(b.order[o].token, b.order[o].side, price)
    BY <1>1
  <2> HIDE DEF j
  <2>5. c.order[o].level = j
    BY <1>1, <1>4, <2>4, ChangePriceEffect
  <2> QED
    BY <2>1, <2>3, <2>5 DEF Tidy, Inv
<1> DEFINE l == LOB!Position(u[j], i)
<1>7. r[j] \in Seq(Entries) /\ s[j] = r[j] /\ e \in Entries /\ f \in Entries
  <2>1. PICK v : Thread(b, j, v) /\ r[j] = Rows(b, j, v)
    BY <1>4 DEF Shows
  <2>2. r[j] \in Seq(Entries)
    BY <1>1, <1>4, <2>1, RowsAreEntries DEF Listed
  <2> QED
    BY <1>3, <1>4, <2>2 DEF Entries, Shows
<1>8. /\ c \in Books /\ Listed(c) /\ c.order[o].id = i
      /\ \A n \in DOMAIN u[j] : u[j][n].id = i => n = l
      /\ \E v : Places(c, u, o, v, l)
  <2> HIDE DEF u, j, k
  <2> QED
    BY <1>5, <1>6, MappedRests
<1>9. u[j] = Append(r[j], e)
  BY <1>4, <1>7 DEF Shows
<1>10. l = Len(r[j]) + 1
  <2>1. /\ Append(r[j], e) \in Seq(Entries) /\ Len(Append(r[j], e)) = Len(r[j]) + 1
        /\ Append(r[j], e)[Len(r[j]) + 1] = e /\ Len(r[j]) \in Nat
    <3> HIDE DEF e, j
    <3> QED
      BY <1>7, AppendProperties, LenProperties
  <2>2. Len(r[j]) + 1 \in DOMAIN u[j]
    <3> HIDE DEF e, j
    <3>1. DOMAIN Append(r[j], e) = 1 .. Len(r[j]) + 1
      BY <2>1, LenProperties
    <3> QED
      BY <1>9, <2>1, <3>1
  <2>3. u[j][Len(r[j]) + 1].id = i
    <3>1. e.id = i
      OBVIOUS
    <3> HIDE DEF e, u, j
    <3> QED
      BY <1>9, <2>1, <3>1
  <2> HIDE DEF u, l
  <2> QED
    BY <1>8, <2>2, <2>3
<1>11. PICK v : Places(c, u, o, v, l)
  BY <1>8
<1> DEFINE g == [id |-> c.order[o].id, qty |-> c.order[o].qty + delta]
           x == [u EXCEPT ![j] = LOB!ReplaceAt(@, l, g)]
           d == ChangeQuantity(c, o, delta)
<1>12. Shows(d, x)
  <2>1. /\ delta \in Int /\ c \in Books /\ Listed(c) /\ o \in Ptrs /\ Shows(c, u)
        /\ j \in Levels /\ j = c.order[o].level /\ Places(c, u, o, v, l)
        /\ d = ChangeQuantity(c, o, delta)
    BY <1>1, <1>3, <1>4, <1>5, <1>6, <1>8, <1>11
  <2> HIDE DEF delta, u, j, l, d
  <2> QED
    BY ONLY <2>1, ChangeQuantityShows
<1>13. x = LOB!Amend(r, t, i, price, qty)
  <2>1. g = f
    <3>1. c.order[o].qty + delta = qty
      BY <1>3, <1>6
    <3>2. c.order[o].id = i
      BY <1>8
    <3> QED
      BY <3>1, <3>2
  <2>2. LOB!ReplaceAt(u[j], l, f) = Append(r[j], f)
    <3> HIDE DEF e, f, u, l, j
    <3> QED
      BY <1>7, <1>9, <1>10, ReplaceLast
  <2>3. LOB!Amend(r, t, i, price, qty) = [s EXCEPT ![j] = Append(@, f)]
    BY <1>1, <1>4 DEF LOB!Amend, LOB!Withdraw, LOB!Place, LevelKey
  <2>4. x = [s EXCEPT ![j] = Append(r[j], f)]
    <3>1. x = [u EXCEPT ![j] = Append(r[j], f)]
      BY <2>1, <2>2
    <3> HIDE DEF x, f, j, s, e
    <3> QED
      BY <3>1
  <2> QED
    BY <1>7, <2>3, <2>4
<1> QED
  BY <1>12, <1>13

\* handleModifyOrder is Modify, or New when the order is unknown.
LEMMA ModifyOrderShows ==
  ASSUME NEW b, Tidy(b), NEW r, Shows(b, r), NEW t \in Tokens, NEW i \in Ids,
         NEW side \in Sides, NEW price \in Prices, NEW qty \in Quantities, NEW o,
         Get(b, t, i) = Nil => o \in Free(b)
  PROVE  \/ Shows(handleModifyOrder(b, t, i, side, price, qty, o),
                  LOB!New(r, t, i, side, price, qty))
         \/ Shows(handleModifyOrder(b, t, i, side, price, qty, o),
                  LOB!Modify(r, t, i, price, qty))
<1> DEFINE c == getContract(b, t)
           old == Get(c, t, i)
           priced == ChangePrice(c, old, price)
           repriced == IF c.order[old].price # price THEN priced ELSE c
           resized == ChangeQuantity(repriced, old, qty - c.order[old].qty)
<1>1. Tidy(c) /\ Shows(c, r) /\ (old = Nil => o \in Free(c))
  BY GetContractShows DEF Free, Get
<1>2. CASE old = Nil
  <2>1. Shows(handleNewOrder(c, t, i, side, price, qty, o), LOB!New(r, t, i, side, price, qty))
    BY <1>1, <1>2, NewOrderShows
  <2> QED
    BY <1>2, <2>1 DEF handleModifyOrder
<1>3. CASE old # Nil
  <2> DEFINE k == c.order[old].level
             m == LOB!Position(r[k], i)
             delta == qty - c.order[old].qty
             e == [id |-> c.order[old].id, qty |-> c.order[old].qty + delta]
             s == [r EXCEPT ![k] = LOB!ReplaceAt(@, m, e)]
  <2>1. handleModifyOrder(b, t, i, side, price, qty, o) = resized
    BY <1>3 DEF handleModifyOrder
  <2> HIDE DEF c
  <2>2. old = Get(c, t, i)
    OBVIOUS
  <2>3. /\ c \in Books /\ Listed(c) /\ old \in Ptrs /\ k \in Levels
        /\ k = LevelKey(t, c.order[old].side, c.order[old].price)
        /\ c.order[old].id = i /\ LOB!Rests(r, t, i) /\ LOB!Home(r, t, i) = k
        /\ \E w : Places(c, r, old, w, m)
    BY <1>1, <1>3, MappedRests
  <2>4. c.order[old].qty \in Int /\ qty \in Int
    BY <1>1, <1>3, MappedOrder, QuantityAssumption DEF Tidy
  <2>5. LOB!Modify(r, t, i, price, qty) = LOB!Amend(r, t, i, price, qty)
    BY <2>3 DEF LOB!Modify
  <2> HIDE DEF old
  <2>6. CASE c.order[old].price # price
    <3>1. Shows(ChangeQuantity(priced, old, qty - c.order[old].qty),
                LOB!Amend(r, t, i, price, qty))
      BY <1>1, <1>3, <2>2, <2>6, AmendShows
    <3> QED
      BY <2>1, <2>5, <2>6, <3>1
  <2>7. CASE c.order[old].price = price
    <3>1. k.price = price
      BY <2>3, <2>7 DEF LevelKey
    <3>2. e = [id |-> i, qty |-> qty] /\ delta \in Int
      BY <2>3, <2>4
    <3>3. LOB!Amend(r, t, i, price, qty) = s
      BY <2>3, <3>1, <3>2 DEF LOB!Amend, LOB!SetQty
    <3>4. PICK w : Places(c, r, old, w, m)
      BY <2>3
    <3>5. resized = ChangeQuantity(c, old, delta)
      BY <2>7
    <3>6. /\ delta \in Int /\ c \in Books /\ Listed(c) /\ old \in Ptrs /\ Shows(c, r)
          /\ k \in Levels /\ k = c.order[old].level /\ Places(c, r, old, w, m)
      BY <1>1, <2>3, <3>2, <3>4
    <3> HIDE DEF delta, k, m, resized
    <3>7. Shows(resized, s)
      BY ONLY <3>5, <3>6, ChangeQuantityShows
    <3> QED
      BY <2>1, <2>5, <3>3, <3>7
  <2> QED
    BY <2>6, <2>7
<1> QED
  BY <1>2, <1>3
--------------------------------------------------------------------------------

\* Resting is what the book shows, and all that it shows.
RestingIsShown ==
  Inv(book) => Shows(book, Resting) /\ \A r : Shows(book, r) => r = Resting

LEMMA BookShowsResting == RestingIsShown
<1> SUFFICES ASSUME Inv(book)
             PROVE  Shows(book, Resting) /\ \A r : Shows(book, r) => r = Resting
  BY DEF RestingIsShown
<1>1. book \in Books /\ Listed(book) /\ Threaded(book)
  BY DEF Inv, Base, Listed
<1>2. Resting = [k \in Levels |-> Resting[k]]
  BY DEF Resting
<1>3. ASSUME NEW k \in Levels, NEW w, Thread(book, k, w)
      PROVE  Resting[k] = Rows(book, k, w)
  <2>1. Walk(k) = w
    BY <1>1, <1>3, WalkFollowsThread
  <2>2. DOMAIN w = 1 .. book.level[k].count
    BY <1>3 DEF Thread
  <2>3. Resting[k] = [n \in DOMAIN w |-> [id |-> book.order[w[n]].id,
                                          qty |-> book.order[w[n]].qty]]
    BY <2>1 DEF Resting
  <2> QED
    BY <2>2, <2>3 DEF Rows
<1>4. Shows(book, Resting)
  BY <1>1, <1>2, <1>3 DEF Shows, Threaded
<1>5. ASSUME NEW r, Shows(book, r)
      PROVE  r = Resting
  <2>1. r = [k \in Levels |-> r[k]] /\ \A k \in Levels : r[k] = Resting[k]
    BY <1>3, <1>5 DEF Shows
  <2> QED
    BY <1>2, <2>1
<1> QED
  BY <1>4, <1>5

\* The empty book shows nothing.
LEMMA InitShowsNothing == Init => LOB!Init
<1> SUFFICES ASSUME Init PROVE LOB!Init
  OBVIOUS
<1> DEFINE r == [k \in Levels |-> << >>]
<1>1. Inv(book)
  BY InitInv
<1>2. ASSUME NEW k \in Levels
      PROVE  Thread(book, k, << >>) /\ << >> = Rows(book, k, << >>)
  <2>1. At(book, k) = {} /\ book.level[k].count = 0
    BY NilAssumption DEF Init, At, BlankOrder, EmptyLevel
  <2> QED
    BY <2>1 DEF Thread, Rows
<1>3. Shows(book, r)
  BY <1>2 DEF Shows
<1> HIDE DEF r
<1>4. r = Resting
  BY <1>1, <1>3, BookShowsResting DEF RestingIsShown
<1> QED
  BY <1>4 DEF r, LOB!Init

\* Every message is one of the abstract book.
LEMMA NextShows ==
  ASSUME FreshIds, RoomyBuckets, Tidy(book), [Next]_book, Inv(book')
  PROVE  [LOB!Next]_Resting
<1>1. Shows(book, Resting)
  BY BookShowsResting DEF RestingIsShown, Tidy
<1>2. ASSUME NEW r, Shows(book', r)
      PROVE  r = Resting'
  <2>1. RestingIsShown'
    BY BookShowsResting, PTL
  <2> QED
    BY <1>2, <2>1 DEF RestingIsShown
<1>3. CASE UNCHANGED book
  <2>1. Shows(book', Resting)
    BY <1>1, <1>3
  <2> QED
    BY <1>2, <2>1
<1>4. ASSUME NEW t \in Tokens, NEW i \in Ids, New(t, i)
      PROVE  LOB!Next
  <2>1. PICK side \in Sides, price \in Prices, qty \in Quantities, o \in Free(book) :
               book' = handleNewOrder(book, t, i, side, price, qty, o)
    BY <1>4 DEF New
  <2>2. Get(book, t, i) = Nil
    BY <1>4 DEF New
  <2>3. Resting' = LOB!New(Resting, t, i, side, price, qty)
    BY <1>1, <1>2, <2>1, <2>2, NewOrderShows
  <2> QED
    BY <2>3 DEF LOB!Next, Sides
<1>5. ASSUME NEW t \in Tokens, NEW i \in Ids, Modify(t, i)
      PROVE  LOB!Next
  <2>1. PICK side \in Sides, price \in Prices, qty \in Quantities, o \in Spare(book, t, i) :
               book' = handleModifyOrder(book, t, i, side, price, qty, o)
    BY <1>5 DEF Modify
  <2>2. Get(book, t, i) = Nil => o \in Free(book)
    BY NilAssumption DEF Spare
  <2>3. \/ Resting' = LOB!New(Resting, t, i, side, price, qty)
        \/ Resting' = LOB!Modify(Resting, t, i, price, qty)
    BY <1>1, <1>2, <2>1, <2>2, ModifyOrderShows
  <2> QED
    BY <2>3 DEF LOB!Next, Sides
<1>6. ASSUME NEW t \in Tokens, NEW i \in Ids, Cancel(t, i)
      PROVE  LOB!Next
  <2>1. Resting' = LOB!Cancel(Resting, t, i)
    BY <1>1, <1>2, <1>6, CancelOrderShows DEF Cancel
  <2> QED
    BY <2>1 DEF LOB!Next
<1>7. ASSUME NEW t \in Tokens, NEW buy \in Ids \union {NoId},
             NEW sell \in Ids \union {NoId}, Trade(t, buy, sell)
      PROVE  LOB!Next
  <2>1. PICK qty \in Quantities : book' = handleTrade(book, t, buy, sell, qty)
    BY <1>7 DEF Trade
  <2>2. Resting' = LOB!Trade(Resting, t, buy, sell, qty)
    BY <1>1, <1>2, <2>1, TradeShows
  <2> QED
    BY <1>7, <2>2 DEF LOB!Next
<1>8. ASSUME NEW t \in Tokens, NEW buy \in Ids \union {NoId},
             NEW sell \in Ids \union {NoId}, TradeCancel(t, buy, sell)
      PROVE  LOB!Next
  <2>1. PICK price \in Prices, qty \in Quantities : \E o1, o2 :
               /\ Takes(book, t, buy, sell, qty, price, o1, o2)
               /\ book' = handleTradeCancel(book, t, buy, sell, qty, price, o1, o2)
    BY <1>8, TradeCancelTakes
  <2>2. PICK o1, o2 :
               /\ Takes(book, t, buy, sell, qty, price, o1, o2)
               /\ book' = handleTradeCancel(book, t, buy, sell, qty, price, o1, o2)
    BY <2>1
  <2>3. Resting' = LOB!TradeCancel(Resting, t, buy, sell, price, qty)
    BY <1>1, <1>2, <1>8, <2>1, <2>2, TradeCancelShows
  <2> QED
    BY <1>8, <2>3 DEF LOB!Next
<1> QED
  BY <1>3, <1>4, <1>5, <1>6, <1>7, <1>8 DEF Next

\* Under the same conditions as NoGhosts the handlers, with their pointers, map
\* and pool, keep the orders of each price in time priority, and no message does
\* to them what it does not say: ImplementsLOB.
THEOREM HandlersKeepPriority == ASSUME FreshIds, RoomyBuckets PROVE Spec => ImplementsLOB
<1> DEFINE Names == Mapped(book)
<1>1. Init => Names /\ LOB!Init
  BY InitShowsNothing DEF Init, Mapped
<1>2. IndInv /\ Names /\ [Next]_book => Names'
  BY NextMapped DEF IndInv
<1>3. IndInv /\ IndInv' /\ Names /\ [Next]_book => [LOB!Next]_Resting
  BY NextShows DEF IndInv, Tidy
<1> HIDE DEF Names
<1> QED
  BY <1>1, <1>2, <1>3, InvHolds, PTL DEF Spec, ImplementsLOB, LOB!Spec
================================================================================
