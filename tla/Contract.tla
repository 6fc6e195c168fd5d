-------------------------------- MODULE Contract --------------------------------
(***************************************************************************)
(* core.Contract as getContract makes it: OrdersById, Bids and Asks.  The  *)
(* handler goroutine is the only one that calls them, one call at a time.  *)
(* The levels' lists are OrderBook's.                                      *)
(***************************************************************************)
EXTENDS OrderMap, PriceTree

Sides == {"Buy", "Sell"}

VARIABLES tree,    \* Bids and Asks
          rngOdd   \* parity of rngState, which all trees of the process share

contract == <<map, tree, rngOdd>>

Init ==
  /\ MapInit
  /\ tree = [s \in Sides |-> NewPriceTree(s = "Sell")]
  /\ rngOdd = TRUE

Put(o) == put(o) /\ UNCHANGED <<tree, rngOdd>>

Delete(i) == delete(i) /\ UNCHANGED <<tree, rngOdd>>

\* Any node that is not in the tree; the one named like the price, which keeps
\* the states few.
NewNode(t, price) ==
  IF price \in Nodes \ InTree(t) THEN price ELSE CHOOSE n \in Nodes : n \notin InTree(t)

\* A new level of a price that has none.
GetOrCreate(s, price) ==
  LET t == tree[s] IN
  /\ Found(t, price) = None /\ InTree(t) # Nodes
  /\ tree' = [tree EXCEPT ![s] = insert(t, NewNode(t, price), price, randomLevel(rngOdd))]
  /\ rngOdd' = FALSE
  /\ UNCHANGED map

Remove(s, price) ==
  /\ tree' = [tree EXCEPT ![s] = remove(@, price)]
  /\ UNCHANGED <<map, rngOdd>>

Next ==
  \/ \E o \in Orders : Put(o)
  \/ \E i \in Ids : Delete(i)
  \/ \E s \in Sides, p \in Prices : GetOrCreate(s, p) \/ Remove(s, p)

Spec == Init /\ [][Next]_contract
--------------------------------------------------------------------------------
(* Properties. *)

TypeOK ==
  /\ MapTypeOK
  /\ \A s \in Sides : TreeTypeOK(tree[s])
  /\ rngOdd \in BOOLEAN

TreesNested == \A s \in Sides : LanesNested(tree[s])

\* getBestBid finds the highest bid and getBestAsk the lowest ask.
BestIsExtreme ==
  \A s \in Sides :
    LET t == tree[s] IN
    IF Best(t) = None THEN InTree(t) = {}
    ELSE \A n \in InTree(t) :
           IF s = "Buy" THEN t.price[Best(t)] >= t.price[n]
           ELSE t.price[Best(t)] <= t.price[n]

\* What get and find answer is what the map and the trees promise: the searches
\* of both, through buckets and lanes, never miss and never find another.
Index == INSTANCE ContractIndex WITH
  byId <- [i \in Ids |-> get(i)],
  levelOf <- [s \in Sides |-> [p \in Prices |-> Found(tree[s], p)]]

ImplementsIndex == Index!Spec
================================================================================
