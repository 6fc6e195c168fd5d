--------------------------- MODULE MCOrderBookHistory --------------------------
(***************************************************************************)
(* OrderBook under an exchange that trades only what is there to trade and *)
(* cancels only trades that happened, with the history that the properties *)
(* of trade cancellation speak of.  A market order is never sent to the    *)
(* book (src/Docs/MTBT_FO_NNF_PROTOCL_6.7_0.txt, FAQ 6): its side of a     *)
(* trade names an order the book has never seen.                           *)
(***************************************************************************)
EXTENDS MCOrderBook

VARIABLES home,   \* the level where each order last rested, or Nil
          trades  \* the trades that happened and are not cancelled

Trades == [token : Tokens, buy : Ids, sell : Ids, price : Prices, qty : Quantities]

\* Order i can trade qty at this price (one order of a trade rests): it is a market order, or it rests on
\* this side at this price or a better one with enough left.
CanTrade(t, i, side, price, qty) ==
  LET o == Get(book, t, i) IN
  IF o = Nil THEN home[t][i] = Nil
  ELSE /\ book.order[o].side = side
       /\ book.order[o].qty >= qty
       /\ IF side = "Buy" THEN book.order[o].price >= price
                          ELSE book.order[o].price <= price

ExchangeTrades(x) ==
  /\ x \notin trades
  /\ x.buy # x.sell
  /\ \E i \in {x.buy, x.sell} : Get(book, x.token, i) # Nil
  /\ CanTrade(x.token, x.buy, "Buy", x.price, x.qty)
  /\ CanTrade(x.token, x.sell, "Sell", x.price, x.qty)
  /\ book' = handleTrade(book, x.token, x.buy, x.sell, x.qty)
  /\ trades' = trades \union {x}

ExchangeCancels(x) ==
  /\ x \in trades
  /\ CancelTrade(x.token, x.buy, x.sell, x.qty, x.price)
  /\ trades' = trades \ {x}

HistoryInit == /\ Init
               /\ home = [t \in Tokens |-> [i \in Ids |-> Nil]]
               /\ trades = {}

HistoryNext ==
  /\ \/ \E x \in Trades : ExchangeTrades(x) \/ ExchangeCancels(x)
     \/ /\ \E t \in Tokens, i \in Ids : New(t, i) \/ Modify(t, i) \/ Cancel(t, i)
        /\ UNCHANGED trades
  /\ home' = [t \in Tokens |-> [i \in Ids |->
                IF Get(book', t, i) = Nil THEN home[t][i]
                ELSE book'.order[Get(book', t, i)].level]]

HistorySpec == HistoryInit /\ [][HistoryNext]_<<book, home, trades>>

\* The orders that the cancellation of trade x enters again.
Recreated(x) ==
  {i \in {x.buy, x.sell} : Get(book, x.token, i) = Nil /\ Get(book', x.token, i) # Nil}

\* "Order was fully consumed - recreate it", which "restores order quantity due to
\* trade cancellation" (message_handler.go:292, 281): what a trade cancellation
\* recreates was in the book before, and rests again where it rested.
RecreatedWhereItRested ==
  [][\A x \in trades \ trades' : \A i \in Recreated(x) :
       book'.order[Get(book', x.token, i)].level = home[x.token][i]]_<<book, home, trades>>
================================================================================
