---------------------------- MODULE LimitOrderBook -----------------------------
(***************************************************************************)
(* The order book as a trader sees it: at every price of a contract, the   *)
(* resting orders in time priority.  No pointers, no maps, no pool, no     *)
(* cached totals.                                                          *)
(***************************************************************************)
EXTENDS Integers, SequencesExt

CONSTANTS Tokens, Ids, NoId, Prices, Quantities, Levels

VARIABLE resting  \* of each level, its orders [id, qty], oldest first

Init == resting = [k \in Levels |-> << >>]

IsIn(orders, i) == \E n \in DOMAIN orders : orders[n].id = i

\* The levels of contract t where order i rests: at most one.
Homes(r, t, i) == {k \in Levels : k.token = t /\ IsIn(r[k], i)}
Rests(r, t, i) == Homes(r, t, i) # {}
Home(r, t, i) == CHOOSE k \in Homes(r, t, i) : TRUE

Position(orders, i) == CHOOSE n \in DOMAIN orders : orders[n].id = i

Qty(r, t, i) == LET orders == r[Home(r, t, i)] IN orders[Position(orders, i)].qty

Place(r, t, side, price, i, qty) ==
  [r EXCEPT ![[token |-> t, side |-> side, price |-> price]] =
     Append(@, [id |-> i, qty |-> qty])]

Withdraw(r, t, i) == [r EXCEPT ![Home(r, t, i)] = RemoveAt(@, Position(@, i))]

\* In place: the order keeps its priority.
SetQty(r, t, i, qty) ==
  [r EXCEPT ![Home(r, t, i)] = ReplaceAt(@, Position(@, i), [id |-> i, qty |-> qty])]

\* A new price loses the priority, a new quantity does not.
Amend(r, t, i, price, qty) ==
  LET k == Home(r, t, i)
  IN IF k.price = price THEN SetQty(r, t, i, qty)
     ELSE Place(Withdraw(r, t, i), t, k.side, price, i, qty)

Fill(r, t, i, qty) ==
  IF i = NoId \/ ~ Rests(r, t, i) THEN r
  ELSE IF Qty(r, t, i) > qty THEN SetQty(r, t, i, Qty(r, t, i) - qty)
  ELSE Withdraw(r, t, i)

Refill(r, t, i, side, price, qty) ==
  IF i = NoId THEN r
  ELSE IF Rests(r, t, i) THEN SetQty(r, t, i, Qty(r, t, i) + qty)
  ELSE Place(r, t, side, price, i, qty)
--------------------------------------------------------------------------------
(* What each message makes of the book r. *)

New(r, t, i, side, price, qty) ==
  IF Rests(r, t, i) THEN r ELSE Place(r, t, side, price, i, qty)

Modify(r, t, i, price, qty) == IF Rests(r, t, i) THEN Amend(r, t, i, price, qty) ELSE r

Cancel(r, t, i) == IF Rests(r, t, i) THEN Withdraw(r, t, i) ELSE r

Trade(r, t, buy, sell, qty) == Fill(Fill(r, t, buy, qty), t, sell, qty)

TradeCancel(r, t, buy, sell, price, qty) ==
  Refill(Refill(r, t, buy, "Buy", price, qty), t, sell, "Sell", price, qty)

Next ==
  \E old \in {resting}, new \in {resting'}, t \in Tokens :
    \/ \E i \in Ids : new = Cancel(old, t, i)
    \/ \E i \in Ids, price \in Prices, qty \in Quantities :
         \/ new = Modify(old, t, i, price, qty)
         \/ \E side \in {"Buy", "Sell"} : new = New(old, t, i, side, price, qty)
    \/ \E buy, sell \in Ids \union {NoId}, qty \in Quantities :
         \/ new = Trade(old, t, buy, sell, qty)
         \/ \E price \in Prices : new = TradeCancel(old, t, buy, sell, price, qty)

Spec == Init /\ [][Next]_resting
================================================================================
