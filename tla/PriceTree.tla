------------------------------- MODULE PriceTree -------------------------------
(***************************************************************************)
(* orderbook.PriceTree: a skip list of the price levels of one side.  A    *)
(* node of height h is linked in the lanes 0 to h; lane 0 has every node.  *)
(* Operators take the tree and return the tree the Go function leaves.     *)
(*                                                                         *)
(* A node stands for its level, too: getOrCreate makes both together.  New *)
(* ones come from Nodes, where a removed one may be used again.            *)
(***************************************************************************)
EXTENDS Integers, FiniteSets, FiniteSetsExt

CONSTANTS Prices,
          Nodes, Header, None,
          MaxLevel      \* lanes of the list, less one

Lanes == 0 .. MaxLevel

ASSUME PriceAssumption == Prices \subseteq Int
ASSUME NodeAssumption == Header \notin Nodes /\ None \notin Nodes /\ Header # None
ASSUME LaneAssumption == MaxLevel \in Nat /\ MaxLevel >= 2

(* t.maxLevel  : the highest lane in use       *)
(* t.ascending : an ask tree                   *)
(* t.price     : the price of each node        *)
(* t.forward   : the next node in each lane    *)
NewPriceTree(ascending) ==
  [maxLevel |-> 0, ascending |-> ascending,
   price |-> [n \in {} |-> 0],
   forward |-> [n \in {Header} |-> [l \in Lanes |-> None]]]

\* The nodes that have been inserted and not removed.
InTree(t) == DOMAIN t.price

\* Mutant: both trees ascend.
Ascending(t, a, b) == a < b

comparePrice(t, a, b) == IF t.ascending THEN a < b ELSE a > b

\* Where the search for price leaves a lane that it enters at node n.
LeaveLane(t, lane, n, price) ==
  LET walk[m \in InTree(t) \union {Header}] ==
        LET next == t.forward[m][lane] IN
        IF next # None /\ comparePrice(t, t.price[next], price) THEN walk[next] ELSE m
  IN  walk[n]

\* The node after which price belongs, in each lane: from the highest one down,
\* a lane is entered where the search left the one above.
Update(t, price) ==
  LET at[lane \in 0 .. t.maxLevel + 1] ==
        IF lane = t.maxLevel + 1 THEN Header
        ELSE LeaveLane(t, lane, at[lane + 1], price)
  IN  at

find(t, price) == t.forward[Update(t, price)[0]][0]

\* The node with this price, or None.
Found(t, price) ==
  LET n == find(t, price) IN IF n # None /\ t.price[n] = price THEN n ELSE None

\* Each draw of fastRandom changes the parity of rngState: odd times odd plus odd.
fastRandom(odd) == ~odd

\* The number of odd draws before an even one: an odd draw is never followed by
\* another, and the state that is left is even.
randomLevel(odd) == IF fastRandom(odd) THEN 1 ELSE 0

\* Mutant: in the lanes above the lowest, the node is linked behind the header.
InsertAtFront(t, n, price, height) ==
  LET Before(l) == IF l = 0 THEN Update(t, price)[0] ELSE Header
  IN  [t EXCEPT
         !.maxLevel = Max({@, height}),
         !.price = [m \in InTree(t) \union {n} |-> IF m = n THEN price ELSE @[m]],
         !.forward =
           [m \in DOMAIN @ \union {n} |->
              [l \in Lanes |->
                 IF m = n THEN IF l <= height THEN @[Before(l)][l] ELSE None
                 ELSE IF l <= height /\ Before(l) = m THEN n ELSE @[m][l]]]]

\* Node n is linked behind its place in every lane up to its height.
insert(t, n, price, height) ==
  LET update == Update(t, price)
      Before(l) == IF l <= t.maxLevel THEN update[l] ELSE Header
  IN  [t EXCEPT
         !.maxLevel = Max({@, height}),
         !.price = [m \in InTree(t) \union {n} |-> IF m = n THEN price ELSE @[m]],
         !.forward =
           [m \in DOMAIN @ \union {n} |->
              [l \in Lanes |->
                 IF m = n THEN IF l <= height THEN @[Before(l)][l] ELSE None
                 ELSE IF l <= height /\ Before(l) = m THEN n ELSE @[m][l]]]]

\* The node is unlinked from lane 0 up, as long as it is what the lane has there.
remove(t, price) ==
  LET update == Update(t, price)
      target == Found(t, price)
      lanes == {l \in 0 .. t.maxLevel :
                  \A k \in 0 .. l : t.forward[update[k]][k] = target}
      forward ==
        [m \in DOMAIN t.forward \ {target} |->
           [l \in Lanes |-> IF l \in lanes /\ update[l] = m
                            THEN t.forward[target][l] ELSE t.forward[m][l]]]
  IN  IF target = None THEN t
      ELSE [t EXCEPT
              !.price = [m \in InTree(t) \ {target} |-> @[m]],
              !.forward = forward,
              !.maxLevel = Max({0} \union {l \in 1 .. @ : forward[Header][l] # None})]

\* getBestBid and getBestAsk: the first node of lane 0.
Best(t) == t.forward[Header][0]
--------------------------------------------------------------------------------
(* Properties of a tree. *)

TreeTypeOK(t) ==
  /\ t.maxLevel \in Lanes /\ t.ascending \in BOOLEAN
  /\ InTree(t) \subseteq Nodes /\ t.price \in [InTree(t) -> Prices]
  /\ t.forward \in [InTree(t) \union {Header} -> [Lanes -> InTree(t) \union {None}]]

\* The nodes of a lane, from the header on.
Linked(t, lane) == {n \in InTree(t) : \E m \in DOMAIN t.forward : t.forward[m][lane] = n}

\* Every lane is sorted, and linked within the lane below; the lowest has every
\* node, once; the lanes above maxLevel are empty.
LanesNested(t) ==
  /\ Linked(t, 0) = InTree(t)
  /\ \A l \in Lanes :
       /\ l > 0 => Linked(t, l) \subseteq Linked(t, l - 1)
       /\ l > t.maxLevel => Linked(t, l) = {}
       /\ \A m \in Linked(t, l) \union {Header} :
            LET next == t.forward[m][l]
                behind == {n \in Linked(t, l) : m = Header \/ comparePrice(t, t.price[m], t.price[n])}
            IN  IF next = None THEN behind = {}
                ELSE next \in behind /\ \A n \in behind \ {next} :
                       comparePrice(t, t.price[next], t.price[n])
================================================================================
