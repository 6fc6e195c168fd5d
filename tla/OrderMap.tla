-------------------------------- MODULE OrderMap --------------------------------
(***************************************************************************)
(* orderbook.OrderMap: OrdersById of a contract.  An id belongs to the     *)
(* bucket of its hash, an array of BucketSize orders of which the first    *)
(* count are in use; deleting shifts the later ones down, and a full       *)
(* bucket refuses what is new.                                             *)
(*                                                                         *)
(* The id of an order is read through its pointer.  It is part of the      *)
(* order here: OrderBook's MapIsSound says that no id changes while the    *)
(* map holds the order.                                                    *)
(***************************************************************************)
EXTENDS Integers, FiniteSets, FiniteSetsExt

CONSTANTS Ids,
          Refs,        \* tells orders of one id apart
          Nil,
          Buckets,
          Bucket,      \* the bucket of an id: FastHash64(id) & mask
          BucketSize

Orders == [id : Ids, ref : Refs]
Slots == 0 .. BucketSize - 1

ASSUME BucketAssumption == Bucket \in [Ids -> Buckets] /\ BucketSize \in Nat \ {0}
ASSUME NilAssumption == Nil \notin Orders

VARIABLES orders,  \* the array of each bucket
          count    \* how many of its slots are in use

map == <<orders, count>>

MapInit ==
  /\ orders = [b \in Buckets |-> [s \in Slots |-> Nil]]
  /\ count = [b \in Buckets |-> 0]

\* The slots in which a search for i stops.
Matches(i) ==
  {s \in Slots : /\ s < count[Bucket[i]]
                 /\ orders[Bucket[i]][s] # Nil /\ orders[Bucket[i]][s].id = i}

get(i) == IF Matches(i) = {} THEN Nil ELSE orders[Bucket[i]][Min(Matches(i))]

\* The order of the same id is replaced where it is.
PutExisting(o) ==
  /\ Matches(o.id) # {}
  /\ orders' = [orders EXCEPT ![Bucket[o.id]][Min(Matches(o.id))] = o]
  /\ UNCHANGED count

\* Mutant: one slot more than there is room for.
PutBeyond(o) ==
  /\ Matches(o.id) = {} /\ count[Bucket[o.id]] <= BucketSize
  /\ orders' = [orders EXCEPT ![Bucket[o.id]][count[Bucket[o.id]]] = o]
  /\ count' = [count EXCEPT ![Bucket[o.id]] = @ + 1]

PutNew(o) ==
  /\ Matches(o.id) = {} /\ count[Bucket[o.id]] < BucketSize
  /\ orders' = [orders EXCEPT ![Bucket[o.id]][count[Bucket[o.id]]] = o]
  /\ count' = [count EXCEPT ![Bucket[o.id]] = @ + 1]

PutRefused(o) ==
  /\ Matches(o.id) = {} /\ count[Bucket[o.id]] = BucketSize
  /\ UNCHANGED map

put(o) == PutExisting(o) \/ PutNew(o) \/ PutRefused(o)

\* Mutant: the order is taken out, the later ones stay where they are.
ShiftNothing(array, s, n) == [array EXCEPT ![s] = Nil]

\* Mutant: the last slot in use keeps its pointer.
ShiftAndKeep(array, s, n) ==
  [t \in Slots |-> IF s <= t /\ t < n - 1 THEN array[t + 1] ELSE array[t]]

\* The array without slot s of the n in use.
Shift(array, s, n) ==
  [t \in Slots |-> IF t < s \/ t >= n THEN array[t]
                   ELSE IF t < n - 1 THEN array[t + 1] ELSE Nil]

delete(i) ==
  IF Matches(i) = {} THEN UNCHANGED map
  ELSE /\ orders' = [orders EXCEPT ![Bucket[i]] = Shift(@, Min(Matches(i)), count[Bucket[i]])]
       /\ count' = [count EXCEPT ![Bucket[i]] = @ - 1]
--------------------------------------------------------------------------------
(* Properties. *)

MapTypeOK ==
  /\ orders \in [Buckets -> [Slots -> Orders \union {Nil}]]
  /\ count \in [Buckets -> 0 .. BucketSize]

\* A bucket has no hole, no order twice and none of another bucket, and behind
\* its count no pointer to a deleted order.
BucketsPacked ==
  \A b \in Buckets, s \in Slots :
    IF s < count[b]
    THEN /\ orders[b][s] \in Orders /\ Bucket[orders[b][s].id] = b
         /\ \A t \in Slots : t < count[b] /\ orders[b][t].id = orders[b][s].id => t = s
    ELSE orders[b][s] = Nil
================================================================================
