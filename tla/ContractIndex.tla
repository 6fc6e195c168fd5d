------------------------------ MODULE ContractIndex ------------------------------
(***************************************************************************)
(* What a contract's order map and price trees promise: a map from id to   *)
(* order, limited by the room in the bucket of an id, and one level for    *)
(* each price of a side, which is the same level until it is removed.      *)
(* OrderBook relies on this: its Put, Delete and GetOrCreate are these.    *)
(***************************************************************************)
EXTENDS Naturals, FiniteSets

CONSTANTS Ids, Orders, Nil, Bucket, BucketSize, Sides, Prices, Nodes, None

VARIABLES byId,     \* the order of each id, or Nil
          levelOf   \* the level of each side and price, or None

index == <<byId, levelOf>>

Init ==
  /\ byId = [i \in Ids |-> Nil]
  /\ levelOf = [s \in Sides |-> [p \in Prices |-> None]]

BucketFull(i) ==
  Cardinality({j \in Ids : Bucket[j] = Bucket[i] /\ byId[j] # Nil}) >= BucketSize

Put(o) ==
  /\ byId' = IF byId[o.id] = Nil /\ BucketFull(o.id) THEN byId
             ELSE [byId EXCEPT ![o.id] = o]
  /\ UNCHANGED levelOf

Delete(i) ==
  /\ byId' = [byId EXCEPT ![i] = Nil]
  /\ UNCHANGED levelOf

\* A price without a level gets one that no other price of its side has.
Create(s, p) ==
  /\ levelOf[s][p] = None
  /\ \E n \in Nodes : /\ \A q \in Prices : levelOf[s][q] # n
                      /\ levelOf' = [levelOf EXCEPT ![s][p] = n]
  /\ UNCHANGED byId

Remove(s, p) ==
  /\ levelOf' = [levelOf EXCEPT ![s][p] = None]
  /\ UNCHANGED byId

Next ==
  \/ \E o \in Orders : Put(o)
  \/ \E i \in Ids : Delete(i)
  \/ \E s \in Sides, p \in Prices : Create(s, p) \/ Remove(s, p)

Spec == Init /\ [][Next]_index
================================================================================
