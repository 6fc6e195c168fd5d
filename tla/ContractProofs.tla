----------------------------- MODULE ContractProofs -----------------------------
(***************************************************************************)
(* Theorems about Contract: its order map, for any ids, hash and bucket    *)
(* size, and its price trees, for any prices, nodes and lanes.             *)
(*                                                                         *)
(* That a bucket stays packed is inductive with the types.  It makes the   *)
(* slot in which a search stops the only one of its id, so that replacing, *)
(* appending and shifting down need no case for a second match.            *)
(*                                                                         *)
(* That a tree stays Sane is inductive, too.  In a sane tree a search      *)
(* finds in each lane the last node before the price; insert and remove    *)
(* relink behind these.  Both together give the refinement.                *)
(***************************************************************************)
EXTENDS Contract, Induction

MapInv == MapTypeOK /\ BucketsPacked

\* What BucketsPacked says of one array with n slots in use.
Packed(array, n, b) ==
  \A s \in Slots :
    IF s < n
    THEN /\ array[s] \in Orders /\ Bucket[array[s].id] = b
         /\ \A t \in Slots : t < n /\ array[t].id = array[s].id => t = s
    ELSE array[s] = Nil

LEMMA PackedBuckets == BucketsPacked <=> \A b \in Buckets : Packed(orders[b], count[b], b)
BY DEF BucketsPacked, Packed

\* A search that stops does so in the one slot of its id.
LEMMA OneMatch ==
  ASSUME MapInv, NEW i \in Ids, Matches(i) # {}
  PROVE  /\ Min(Matches(i)) \in Slots
         /\ Min(Matches(i)) < count[Bucket[i]]
         /\ orders[Bucket[i]][Min(Matches(i))].id = i
<1>1. PICK m \in Matches(i) : TRUE
  OBVIOUS
<1>2. /\ m \in Slots /\ m < count[Bucket[i]] /\ orders[Bucket[i]][m].id = i
  BY <1>1 DEF Matches
<1>3. Bucket[i] \in Buckets
  BY BucketAssumption
<1>4. ASSUME NEW n \in Matches(i) PROVE n = m
  <2>1. n \in Slots /\ n < count[Bucket[i]] /\ orders[Bucket[i]][n].id = i
    BY DEF Matches
  <2> QED
    BY <1>2, <1>3, <2>1 DEF MapInv, BucketsPacked
<1>5. m <= m
  BY <1>2, BucketAssumption DEF Slots
<1>6. Min(Matches(i)) = m
  BY <1>1, <1>4, <1>5 DEF Min
<1> QED
  BY <1>2, <1>6

\* Only one bucket changes.
LEMMA OneBucket ==
  ASSUME MapInv, NEW b \in Buckets,
         NEW array \in [Slots -> Orders \union {Nil}], NEW n \in 0 .. BucketSize,
         Packed(array, n, b),
         orders' = [orders EXCEPT ![b] = array], count' = [count EXCEPT ![b] = n]
  PROVE  MapInv'
<1>1. MapTypeOK /\ \A c \in Buckets : Packed(orders[c], count[c], c)
  BY PackedBuckets DEF MapInv
<1>2. MapTypeOK'
  BY <1>1 DEF MapTypeOK
<1>3. ASSUME NEW c \in Buckets PROVE Packed(orders'[c], count'[c], c)
  <2>1. orders'[c] = (IF c = b THEN array ELSE orders[c])
        /\ count'[c] = (IF c = b THEN n ELSE count[c])
    BY <1>1 DEF MapTypeOK
  <2> QED
    BY <1>1, <2>1
<1>4. BucketsPacked'
  BY <1>3 DEF BucketsPacked, Packed
<1> QED
  BY <1>2, <1>4 DEF MapInv

LEMMA PutKeepsInv ==
  ASSUME MapInv, NEW o \in Orders, put(o)
  PROVE  MapInv'
<1> DEFINE b == Bucket[o.id]
           n == count[b]
           a == orders[b]
<1>1. /\ o.id \in Ids /\ b \in Buckets
      /\ BucketSize \in Nat \ {0}
  BY BucketAssumption DEF Orders
<1>2. /\ orders \in [Buckets -> [Slots -> Orders \union {Nil}]]
      /\ count \in [Buckets -> 0 .. BucketSize]
      /\ a \in [Slots -> Orders \union {Nil}] /\ n \in 0 .. BucketSize
  BY <1>1 DEF MapInv, MapTypeOK
<1>3. Packed(a, n, b)
  BY <1>1, PackedBuckets DEF MapInv
<1>4. CASE PutExisting(o)
  <2> DEFINE m == Min(Matches(o.id))
             new == [a EXCEPT ![m] = o]
  <2>1. m \in Slots /\ m < n /\ a[m].id = o.id
    BY <1>1, <1>4, OneMatch DEF PutExisting
  <2> HIDE DEF m
  <2>2. new \in [Slots -> Orders \union {Nil}]
    BY <1>2, <2>1
  <2>3. \A s \in Slots : new[s] = IF s = m THEN o ELSE a[s]
    BY <1>2, <2>1
  <2> HIDE DEF new
  <2>4. \A s \in Slots : s < n => new[s].id = a[s].id
    BY <2>1, <2>3
  <2>5. Packed(new, n, b)
    BY <1>1, <1>3, <2>1, <2>3, <2>4 DEF Packed
  <2>6. orders' = [orders EXCEPT ![b] = new]
    BY <1>4 DEF PutExisting, m, new
  <2>7. count' = [count EXCEPT ![b] = n]
    BY <1>1, <1>2, <1>4 DEF PutExisting
  <2> QED
    BY <1>1, <1>2, <2>2, <2>5, <2>6, <2>7, OneBucket
<1>5. CASE PutNew(o)
  <2> DEFINE new == [a EXCEPT ![n] = o]
  <2>1. Matches(o.id) = {} /\ n < BucketSize
    BY <1>5 DEF PutNew
  <2>2. n \in Slots /\ n + 1 \in 0 .. BucketSize
    BY <1>1, <1>2, <2>1 DEF Slots
  <2>3. new \in [Slots -> Orders \union {Nil}]
    BY <1>2, <2>2
  <2>4. \A s \in Slots : new[s] = IF s = n THEN o ELSE a[s]
    BY <1>2, <2>2
  <2> HIDE DEF new
  <2>5. \A s \in Slots : s < n => a[s].id # o.id
    BY <1>3, <2>1, NilAssumption DEF Matches, Packed
  <2>6. \A s \in Slots : s < n + 1 <=> s < n \/ s = n
    BY <1>1, <1>2 DEF Slots
  <2>7. ~(n < n)
    BY <1>2
  <2>8. Packed(new, n + 1, b)
    <3> SUFFICES ASSUME NEW s \in Slots
                 PROVE  IF s < n + 1
                        THEN /\ new[s] \in Orders /\ Bucket[new[s].id] = b
                             /\ \A t \in Slots :
                                  t < n + 1 /\ new[t].id = new[s].id => t = s
                        ELSE new[s] = Nil
      BY DEF Packed
    <3>1. CASE s < n
      BY <1>3, <2>4, <2>5, <2>6, <2>7, <3>1 DEF Packed
    <3>2. CASE s = n
      BY <1>3, <2>4, <2>5, <2>6, <2>7, <3>2 DEF Packed
    <3>3. CASE ~(s < n + 1)
      BY <1>3, <2>4, <2>6, <3>3 DEF Packed
    <3> QED
      BY <2>6, <3>1, <3>2, <3>3
  <2>9. orders' = [orders EXCEPT ![b] = new]
    BY <1>5 DEF PutNew, new
  <2>10. count' = [count EXCEPT ![b] = n + 1]
    BY <1>5 DEF PutNew
  <2> QED
    BY <1>1, <2>2, <2>3, <2>8, <2>9, <2>10, OneBucket
<1>6. CASE PutRefused(o)
  BY <1>6 DEF PutRefused, map, MapInv, MapTypeOK, BucketsPacked
<1> QED
  BY <1>4, <1>5, <1>6 DEF put

LEMMA DeleteKeepsInv ==
  ASSUME MapInv, NEW i \in Ids, delete(i)
  PROVE  MapInv'
<1> DEFINE b == Bucket[i]
           n == count[b]
           a == orders[b]
           m == Min(Matches(i))
           new == Shift(a, m, n)
<1>1. CASE Matches(i) = {}
  BY <1>1 DEF delete, map, MapInv, MapTypeOK, BucketsPacked
<1>2. CASE Matches(i) # {}
  <2>1. /\ b \in Buckets /\ BucketSize \in Nat \ {0}
        /\ a \in [Slots -> Orders \union {Nil}] /\ n \in 0 .. BucketSize
        /\ count \in [Buckets -> 0 .. BucketSize]
    BY BucketAssumption DEF MapInv, MapTypeOK
  <2>2. Packed(a, n, b)
    BY <2>1, PackedBuckets DEF MapInv
  <2>3. m \in Slots /\ m < n
    BY <1>2, OneMatch
  <2>4. /\ orders' = [orders EXCEPT ![b] = new]
        /\ count' = [count EXCEPT ![b] = n - 1]
    BY <1>2 DEF delete
  <2> HIDE DEF m
  <2>5. \A s \in Slots : new[s] = IF s < m \/ s >= n THEN a[s]
                                  ELSE IF s < n - 1 THEN a[s + 1] ELSE Nil
    BY DEF Shift
  <2>6. \A s \in Slots : s < n - 1 => s + 1 \in Slots /\ s + 1 < n
    BY <2>1 DEF Slots
  <2>7. new \in [Slots -> Orders \union {Nil}]
    BY <2>1, <2>6 DEF Shift
  <2> HIDE DEF new
  <2>8. Slots \subseteq Nat /\ n \in Nat /\ n - 1 \in 0 .. BucketSize /\ m \in Nat
    BY <2>1, <2>3 DEF Slots
  <2>9. \A s \in Slots : s < n - 1 => new[s] = a[IF s < m THEN s ELSE s + 1]
    BY <2>5, <2>8
  <2>10. \A s \in Slots : ~(s < n - 1) => new[s] = Nil
    <3> SUFFICES ASSUME NEW s \in Slots, ~(s < n - 1) PROVE new[s] = Nil
      OBVIOUS
    <3>1. CASE s >= n
      BY <2>2, <2>5, <2>8, <3>1 DEF Packed
    <3>2. CASE ~(s >= n)
      BY <2>3, <2>5, <2>8, <3>2
    <3> QED
      BY <3>1, <3>2
  <2>11. Packed(new, n - 1, b)
    <3> DEFINE from(s) == IF s < m THEN s ELSE s + 1
    <3>1. \A s \in Slots : s < n - 1 => from(s) \in Slots /\ from(s) < n
      BY <2>6, <2>8
    <3>2. \A s, t \in Slots : from(s) = from(t) => s = t
      BY <2>8
    <3>3. \A s \in Slots : s < n - 1 => new[s] = a[from(s)]
      BY <2>9
    <3> HIDE DEF from
    <3> SUFFICES ASSUME NEW s \in Slots, s < n - 1
                 PROVE  /\ new[s] \in Orders /\ Bucket[new[s].id] = b
                        /\ \A t \in Slots :
                             t < n - 1 /\ new[t].id = new[s].id => t = s
      BY <2>10 DEF Packed
    <3>4. new[s] \in Orders /\ Bucket[new[s].id] = b
      BY <2>2, <3>1, <3>3 DEF Packed
    <3>5. ASSUME NEW t \in Slots, t < n - 1, new[t].id = new[s].id PROVE t = s
      <4>1. from(t) = from(s)
        BY <2>2, <3>1, <3>3, <3>5 DEF Packed
      <4> QED
        BY <3>2, <4>1
    <3> QED
      BY <3>4, <3>5
  <2> QED
    BY <2>1, <2>4, <2>7, <2>8, <2>11, OneBucket
<1> QED
  BY <1>1, <1>2

LEMMA MapInvariance == Spec => []MapInv
<1>1. Init => MapInv
  <2> SUFFICES ASSUME Init PROVE MapInv
    OBVIOUS
  <2>1. BucketSize \in Nat /\ \A s \in Slots : ~(s < 0)
    BY BucketAssumption DEF Slots
  <2> QED
    BY <2>1 DEF Init, MapInit, MapInv, MapTypeOK, BucketsPacked
<1>2. MapInv /\ [Next]_contract => MapInv'
  <2> SUFFICES ASSUME MapInv, [Next]_contract PROVE MapInv'
    OBVIOUS
  <2>1. ASSUME NEW o \in Orders, Put(o) PROVE MapInv'
    BY <2>1, PutKeepsInv DEF Put
  <2>2. ASSUME NEW i \in Ids, Delete(i) PROVE MapInv'
    BY <2>2, DeleteKeepsInv DEF Delete
  <2>3. CASE UNCHANGED map
    BY <2>3 DEF map, MapInv, MapTypeOK, BucketsPacked
  <2>4. ASSUME NEW s \in Sides, NEW p \in Prices, GetOrCreate(s, p) \/ Remove(s, p)
        PROVE  UNCHANGED map
    BY <2>4 DEF GetOrCreate, Remove
  <2>5. UNCHANGED contract => UNCHANGED map
    BY DEF contract
  <2> QED
    BY <2>1, <2>2, <2>3, <2>4, <2>5 DEF Next
<1> QED
  BY <1>1, <1>2, PTL DEF Spec

\* The order map stays packed: no sequence of puts, replacements, refusals and
\* deletions leaves a hole, an order in a foreign bucket, one id twice, or a
\* pointer behind the count.
THEOREM MapStaysPacked == Spec => []BucketsPacked
<1>1. MapInv => BucketsPacked
  BY DEF MapInv
<1> QED
  BY <1>1, MapInvariance, PTL
--------------------------------------------------------------------------------
(* The price trees: what a search finds. *)

\* The type and the shape of a tree.  A node is linked in some lanes and has no
\* link in the others, and no price has two nodes.
Sane(t) ==
  /\ DOMAIN t = {"maxLevel", "ascending", "price", "forward"}
  /\ TreeTypeOK(t) /\ IsFiniteSet(InTree(t))
  /\ \A m, n \in InTree(t) : t.price[m] = t.price[n] => m = n
  /\ LanesNested(t)
  /\ \A l \in Lanes : \A m \in InTree(t) \ Linked(t, l) : t.forward[m][l] = None

Lane(t, l) == Linked(t, l) \union {Header}

\* Node m comes before price; the header comes before every price.
Precedes(t, m, price) == m = Header \/ comparePrice(t, t.price[m], price)

\* The nodes of lane l after m.
After(t, l, m) == {n \in Linked(t, l) : Precedes(t, m, t.price[n])}

\* m is the last node of lane l before price.
IsLast(t, l, price, m) ==
  /\ m \in Lane(t, l) /\ Precedes(t, m, price)
  /\ t.forward[m][l] = None \/ ~ comparePrice(t, t.price[t.forward[m][l]], price)

\* comparePrice is a strict order.
LEMMA CompareOrder ==
  ASSUME NEW t, NEW a \in Int, NEW b \in Int, NEW c \in Int
  PROVE  /\ ~ comparePrice(t, a, a)
         /\ comparePrice(t, a, b) => ~ comparePrice(t, b, a)
         /\ comparePrice(t, a, b) /\ comparePrice(t, b, c) => comparePrice(t, a, c)
         /\ a = b \/ comparePrice(t, a, b) \/ comparePrice(t, b, a)
  BY DEF comparePrice

\* What Sane says of one lane.
LEMMA LaneFacts ==
  ASSUME NEW t, Sane(t), NEW l \in Lanes
  PROVE  /\ Linked(t, l) \subseteq InTree(t) /\ Header \notin InTree(t)
         /\ None \notin InTree(t) /\ None # Header
         /\ IsFiniteSet(Linked(t, l))
         /\ \A n \in InTree(t) : t.price[n] \in Int /\ t.price[n] \in Prices
         /\ \A m \in InTree(t) \union {Header} : t.forward[m][l] \in Linked(t, l) \union {None}
         /\ \A m \in Lane(t, l) :
              LET next == t.forward[m][l] IN
              IF next = None THEN After(t, l, m) = {}
              ELSE next \in After(t, l, m) /\ \A n \in After(t, l, m) \ {next} :
                     comparePrice(t, t.price[next], t.price[n])
         /\ \A m \in InTree(t) \ Lane(t, l) : t.forward[m][l] = None
<1>1. /\ InTree(t) \subseteq Nodes /\ t.price \in [InTree(t) -> Prices]
      /\ t.forward \in [InTree(t) \union {Header} -> [Lanes -> InTree(t) \union {None}]]
  BY DEF Sane, TreeTypeOK
<1>2. Linked(t, l) \subseteq InTree(t) /\ Header \notin InTree(t)
      /\ None \notin InTree(t) /\ None # Header
  BY <1>1, NodeAssumption DEF Linked
<1>3. IsFiniteSet(Linked(t, l))
  BY <1>2, FS_Subset DEF Sane
<1>4. \A n \in InTree(t) : t.price[n] \in Int /\ t.price[n] \in Prices
  BY <1>1, PriceAssumption
<1>5. \A m \in InTree(t) \union {Header} : t.forward[m][l] \in Linked(t, l) \union {None}
  BY <1>1 DEF Linked
<1>6. \A m \in Lane(t, l) :
        LET next == t.forward[m][l] IN
        IF next = None THEN After(t, l, m) = {}
        ELSE next \in After(t, l, m) /\ \A n \in After(t, l, m) \ {next} :
               comparePrice(t, t.price[next], t.price[n])
  BY DEF Sane, LanesNested, After, Precedes, Lane
<1>7. \A m \in InTree(t) \ Lane(t, l) : t.forward[m][l] = None
  BY DEF Sane, Lane
<1> QED
  BY <1>2, <1>3, <1>4, <1>5, <1>6, <1>7

\* Of some nodes, one comes after the others.
LEMMA GreatestNode ==
  ASSUME NEW t, Sane(t), NEW S \in SUBSET InTree(t), S # {}
  PROVE  \E g \in S : \A n \in S \ {g} : comparePrice(t, t.price[n], t.price[g])
<1> DEFINE Has(T) == \E g \in T : \A n \in T \ {g} : comparePrice(t, t.price[n], t.price[g])
           P == {T \in SUBSET S : T = {} \/ Has(T)}
<1>1. IsFiniteSet(S)
  BY FS_Subset DEF Sane
<1>2. \A n \in S : t.price[n] \in Int
  BY PriceAssumption DEF Sane, TreeTypeOK
<1>3. \A m, n \in S : t.price[m] = t.price[n] => m = n
  BY DEF Sane
<1>4. ASSUME NEW T \in SUBSET S, NEW x \in S \ T, T \in P
      PROVE  T \union {x} \in P
  <2>1. CASE T = {}
    <3>1. T \union {x} = {x}
      BY <2>1
    <3>2. Has({x})
      OBVIOUS
    <3> HIDE DEF Has
    <3> QED
      BY <3>1, <3>2
  <2>2. CASE T # {}
    <3>1. PICK g \in T : \A n \in T \ {g} : comparePrice(t, t.price[n], t.price[g])
      BY <1>4, <2>2
    <3>2. x # g /\ t.price[x] # t.price[g]
      BY <1>3
    <3>3. CASE comparePrice(t, t.price[x], t.price[g])
      <4>1. \A n \in (T \union {x}) \ {g} : comparePrice(t, t.price[n], t.price[g])
        BY <3>1, <3>3
      <4>2. Has(T \union {x})
        BY <4>1
      <4> QED
        BY <4>2
    <3>4. CASE ~ comparePrice(t, t.price[x], t.price[g])
      <4>1. comparePrice(t, t.price[g], t.price[x])
        BY <1>2, <3>2, <3>4, CompareOrder
      <4>2. ASSUME NEW n \in T
            PROVE  comparePrice(t, t.price[n], t.price[x])
        <5>1. n = g \/ comparePrice(t, t.price[n], t.price[g])
          BY <3>1
        <5> QED
          BY <1>2, <4>1, <5>1, CompareOrder
      <4>3. Has(T \union {x})
        BY <4>2
      <4> QED
        BY <4>3
    <3> QED
      BY <3>3, <3>4
  <2> QED
    BY <2>1, <2>2
<1>5. S \in P
  <2>1. {} \in P
    OBVIOUS
  <2> HIDE DEF P
  <2> QED
    BY <1>1, <1>4, <2>1, FiniteSubsets
<1> QED
  BY <1>5

\* A lane has one last node before a price.
LEMMA LastIsUnique ==
  ASSUME NEW t, Sane(t), NEW l \in Lanes, NEW price \in Int,
         NEW m, IsLast(t, l, price, m), NEW n, IsLast(t, l, price, n)
  PROVE  m = n
<1>1. ASSUME NEW a, IsLast(t, l, price, a), NEW b \in After(t, l, a),
             Precedes(t, b, price)
      PROVE  FALSE
  <2> DEFINE next == t.forward[a][l]
  <2>1. next # None /\ next \in Linked(t, l) /\ b \in Linked(t, l)
        /\ (b = next \/ comparePrice(t, t.price[next], t.price[b]))
    BY <1>1, LaneFacts DEF IsLast, After
  <2>2. ~ comparePrice(t, t.price[next], price)
    BY <1>1, <2>1 DEF IsLast
  <2>3. comparePrice(t, t.price[b], price)
    BY <1>1, <2>1, LaneFacts DEF Precedes
  <2>4. t.price[next] \in Int /\ t.price[b] \in Int
    BY <2>1, LaneFacts
  <2> HIDE DEF next
  <2> QED
    BY <2>1, <2>2, <2>3, <2>4, CompareOrder
<1>2. m \in Lane(t, l) /\ n \in Lane(t, l) /\ Precedes(t, m, price) /\ Precedes(t, n, price)
  BY DEF IsLast
<1>3. n \notin After(t, l, m) /\ m \notin After(t, l, n)
  BY <1>1, <1>2
<1>4. CASE m = Header \/ n = Header
  BY <1>2, <1>3, <1>4 DEF After, Precedes, Lane
<1>5. CASE m # Header /\ n # Header
  <2>1. /\ m \in Linked(t, l) /\ n \in Linked(t, l)
        /\ m \in InTree(t) /\ n \in InTree(t)
        /\ t.price[m] \in Int /\ t.price[n] \in Int
    BY <1>2, <1>5, LaneFacts DEF Lane
  <2>2. t.price[m] = t.price[n]
    BY <1>3, <2>1, CompareOrder DEF After, Precedes
  <2> QED
    BY <2>1, <2>2 DEF Sane
<1> QED
  BY <1>4, <1>5

LEMMA LastExists ==
  ASSUME NEW t, Sane(t), NEW l \in Lanes, NEW price \in Int
  PROVE  \E m : IsLast(t, l, price, m)
<1> DEFINE S == {n \in Linked(t, l) : comparePrice(t, t.price[n], price)}
<1>1. \A n \in Linked(t, l) : n \in InTree(t) /\ t.price[n] \in Int
  BY LaneFacts
<1>2. CASE S = {}
  <2>1. t.forward[Header][l] \in Linked(t, l) \union {None}
    BY LaneFacts
  <2>2. IsLast(t, l, price, Header)
    BY <1>2, <2>1 DEF IsLast, Lane, Precedes
  <2> QED
    BY <2>2
<1>3. CASE S # {}
  <2>1. S \in SUBSET InTree(t)
    BY <1>1
  <2>2. PICK g \in S : \A n \in S \ {g} : comparePrice(t, t.price[n], t.price[g])
    <3> HIDE DEF S
    <3> QED
      BY <1>3, <2>1, GreatestNode
  <2> DEFINE next == t.forward[g][l]
  <2>3. next # None => next \in After(t, l, g)
    BY LaneFacts DEF Lane
  <2>4. next # None => ~ comparePrice(t, t.price[next], price)
    <3> SUFFICES ASSUME next # None, comparePrice(t, t.price[next], price) PROVE FALSE
      OBVIOUS
    <3>1. next \in Linked(t, l) /\ comparePrice(t, t.price[g], t.price[next])
      BY <1>1, <2>3, LaneFacts DEF After, Precedes
    <3>2. next \in S /\ t.price[g] \in Int /\ t.price[next] \in Int
      BY <1>1, <3>1
    <3>3. next # g /\ ~ comparePrice(t, t.price[next], t.price[g])
      <4> HIDE DEF next
      <4> QED
        BY <3>1, <3>2, CompareOrder
    <3> QED
      BY <2>2, <3>2, <3>3
  <2>5. IsLast(t, l, price, g)
    BY <2>4 DEF IsLast, Lane, Precedes
  <2> QED
    BY <2>5
<1> QED
  BY <1>2, <1>3

\* A search leaves the lane at its last node before the price: the recursion of
\* walk ends, for each step goes to a later node of finitely many.
LEMMA LeaveLaneIsLast ==
  ASSUME NEW t, Sane(t), NEW l \in Lanes, NEW price \in Int,
         NEW n \in Lane(t, l), Precedes(t, n, price)
  PROVE  IsLast(t, l, price, LeaveLane(t, l, n, price))
<1> DEFINE D == InTree(t) \union {Header}
           Go(m) == /\ t.forward[m][l] # None
                    /\ comparePrice(t, t.price[t.forward[m][l]], price)
<1>1. PICK last : IsLast(t, l, price, last)
  BY LastExists
<1> DEFINE W == [m \in D |-> IF Go(m) THEN last ELSE m]
<1>2. ASSUME NEW m \in D, Go(m)
      PROVE  /\ t.forward[m][l] \in Linked(t, l) /\ t.forward[m][l] \in InTree(t)
             /\ t.forward[m][l] \in D
  BY <1>2, LaneFacts
<1>3. ASSUME NEW m \in D, Go(m)
      PROVE  W[t.forward[m][l]] = last
  <2> DEFINE next == t.forward[m][l]
  <2>1. next \in Linked(t, l) /\ next \in D /\ comparePrice(t, t.price[next], price)
    BY <1>2, <1>3
  <2> HIDE DEF next
  <2>2. ~ Go(next) => IsLast(t, l, price, next)
    BY <2>1 DEF IsLast, Lane, Precedes
  <2>3. ~ Go(next) => next = last
    BY <1>1, <2>2, LastIsUnique
  <2>4. W[next] = IF Go(next) THEN last ELSE next
    BY <2>1
  <2> HIDE DEF W, Go
  <2>5. W[next] = last
    BY <2>3, <2>4
  <2> QED
    BY <2>5 DEF next
<1>4. W = [m \in D |-> IF Go(m) THEN W[t.forward[m][l]] ELSE m]
  <2> DEFINE V == [m \in D |-> IF Go(m) THEN W[t.forward[m][l]] ELSE m]
  <2>1. ASSUME NEW m \in D PROVE W[m] = V[m]
    <3>1. W[m] = IF Go(m) THEN last ELSE m
      OBVIOUS
    <3> HIDE DEF W, Go, D
    <3> QED
      BY <1>3, <3>1
  <2>2. DOMAIN W = D /\ W = [m \in DOMAIN W |-> W[m]]
    OBVIOUS
  <2> HIDE DEF W, Go, D
  <2> QED
    BY <2>1, <2>2
<1>5. PICK h : /\ h = [m \in InTree(t) \union {Header} |->
                         LET next == t.forward[m][l] IN
                         IF next # None /\ comparePrice(t, t.price[next], price)
                         THEN h[next] ELSE m]
               /\ LeaveLane(t, l, n, price) = h[n]
  <2> HIDE DEF W
  <2> QED
    BY <1>4 DEF LeaveLane
<1>6. \A m \in D : h[m] = IF Go(m) THEN h[t.forward[m][l]] ELSE m
  BY <1>5
<1>7. \A m \in D : W[m] = IF Go(m) THEN W[t.forward[m][l]] ELSE m
  <2> HIDE DEF W, Go
  <2> QED
    BY <1>4
<1>8. \A m \in D : W[m] = IF Go(m) THEN last ELSE m
  OBVIOUS
<1> HIDE DEF W, Go
<1> DEFINE Bad == {m \in InTree(t) : h[m] # W[m]}
<1>9. Bad = {}
  <2> SUFFICES ASSUME Bad # {} PROVE FALSE
    OBVIOUS
  <2>1. PICK g \in Bad : \A m \in Bad \ {g} : comparePrice(t, t.price[m], t.price[g])
    BY GreatestNode
  <2> DEFINE next == t.forward[g][l]
  <2>2. g \in D /\ g \in InTree(t) /\ Go(g) /\ h[next] # W[next]
    BY <1>6, <1>7, <2>1
  <2>3. next \in InTree(t) /\ next # None
    BY <1>2, <2>2 DEF Go
  <2>4. g \in Lane(t, l) /\ g # Header
    BY <2>2, <2>3, LaneFacts
  <2>5. next \in After(t, l, g)
    BY <2>3, <2>4, LaneFacts
  <2>6. comparePrice(t, t.price[g], t.price[next])
    BY <2>4, <2>5 DEF After, Precedes
  <2>7. t.price[g] \in Int /\ t.price[next] \in Int
    BY <2>2, <2>3, LaneFacts
  <2>8. next = g \/ comparePrice(t, t.price[next], t.price[g])
    BY <2>1, <2>2, <2>3
  <2> HIDE DEF next
  <2> QED
    BY <2>6, <2>7, <2>8, CompareOrder
<1>10. \A m \in D : h[m] = W[m]
  <2>1. Go(Header) => h[t.forward[Header][l]] = W[t.forward[Header][l]]
    BY <1>2, <1>9
  <2> QED
    BY <1>6, <1>7, <1>9, <2>1
<1>11. n \in D
  BY LaneFacts DEF Lane
<1>12. Go(n) => LeaveLane(t, l, n, price) = last
  BY <1>5, <1>8, <1>10, <1>11
<1>13. ~ Go(n) => LeaveLane(t, l, n, price) = n /\ IsLast(t, l, price, n)
  BY <1>5, <1>8, <1>10, <1>11 DEF Go, IsLast
<1> QED
  BY <1>1, <1>12, <1>13

\* Update gives, in each lane, the last node before the price: what a lane above
\* has before it, the lane below has as well.
LEMMA UpdateIsLast ==
  ASSUME NEW t, Sane(t), NEW price \in Int
  PROVE  \A l \in 0 .. t.maxLevel : l \in Lanes /\ IsLast(t, l, price, Update(t, price)[l])
<1> DEFINE top == t.maxLevel
<1>1. top \in Nat /\ \A l \in 0 .. top : l \in Lanes
  BY LaneAssumption DEF Sane, TreeTypeOK, Lanes
<1> DEFINE Last(l) == CHOOSE m : IsLast(t, l, price, m)
           U == [l \in 0 .. top + 1 |-> IF l = top + 1 THEN Header ELSE Last(l)]
<1>2. \A l \in 0 .. top : IsLast(t, l, price, Last(l))
  BY <1>1, LastExists
<1>3. ASSUME NEW l \in 0 .. top, NEW n, n = Header \/ IsLast(t, l + 1, price, n),
             n # Header => l + 1 \in Lanes
      PROVE  LeaveLane(t, l, n, price) = Last(l)
  <2>1. n \in Lane(t, l) /\ Precedes(t, n, price)
    <3>1. CASE n = Header
      BY <3>1 DEF Lane, Precedes
    <3>2. CASE n # Header
      <4>1. l + 1 > 0 /\ (l + 1) - 1 = l /\ l + 1 \in Lanes
        BY <1>1, <1>3, <3>2
      <4>2. Linked(t, l + 1) \subseteq Linked(t, l)
        BY <4>1 DEF Sane, LanesNested
      <4> QED
        BY <1>3, <3>2, <4>2 DEF IsLast, Lane
    <3> QED
      BY <3>1, <3>2
  <2>2. IsLast(t, l, price, LeaveLane(t, l, n, price))
    BY <1>1, <2>1, LeaveLaneIsLast
  <2>3. IsLast(t, l, price, Last(l))
    BY <1>2
  <2> HIDE DEF Last
  <2> QED
    BY <1>1, <2>2, <2>3, LastIsUnique
<1>4. ASSUME NEW l \in 0 .. top
      PROVE  /\ U[l] = Last(l)
             /\ l + 1 \in 0 .. top + 1
             /\ U[l + 1] = Header \/ (l + 1 \in 0 .. top /\ U[l + 1] = Last(l + 1))
  <2> HIDE DEF Last
  <2> QED
    BY <1>1
<1>5. ASSUME NEW l \in 0 .. top
      PROVE  LeaveLane(t, l, U[l + 1], price) = U[l]
  <2> HIDE DEF Last, U
  <2>1. U[l + 1] = Header \/ (l + 1 \in Lanes /\ IsLast(t, l + 1, price, U[l + 1]))
    BY <1>1, <1>2, <1>4
  <2>2. LeaveLane(t, l, U[l + 1], price) = Last(l)
    BY <1>3, <2>1
  <2> QED
    BY <1>4, <2>2
<1>6. U = [l \in 0 .. top + 1 |-> IF l = top + 1 THEN Header
                                  ELSE LeaveLane(t, l, U[l + 1], price)]
  <2> DEFINE V == [l \in 0 .. top + 1 |-> IF l = top + 1 THEN Header
                                          ELSE LeaveLane(t, l, U[l + 1], price)]
  <2>1. ASSUME NEW l \in 0 .. top + 1 PROVE U[l] = V[l]
    <3>1. l = top + 1 => U[l] = Header
      OBVIOUS
    <3>2. l # top + 1 => l \in 0 .. top
      BY <1>1
    <3> HIDE DEF U
    <3> QED
      BY <1>5, <3>1, <3>2
  <2>2. DOMAIN U = 0 .. top + 1 /\ U = [l \in DOMAIN U |-> U[l]]
    OBVIOUS
  <2> HIDE DEF U
  <2> QED
    BY <2>1, <2>2
<1> HIDE DEF U
<1>7. PICK h : /\ h = [l \in 0 .. t.maxLevel + 1 |->
                         IF l = t.maxLevel + 1 THEN Header
                         ELSE LeaveLane(t, l, h[l + 1], price)]
               /\ Update(t, price) = h
  BY <1>6 DEF Update
<1>8. /\ h[top + 1] = Header /\ U[top + 1] = Header
      /\ \A l \in 0 .. top : h[l] = LeaveLane(t, l, h[l + 1], price)
  <2>1. top + 1 \in 0 .. top + 1 /\ \A l \in 0 .. top : l \in 0 .. top + 1 /\ l # top + 1
    BY <1>1
  <2> QED
    BY <1>6, <1>7, <2>1
<1> DEFINE N == {d \in Nat : d <= top + 1 => h[top + 1 - d] = U[top + 1 - d]}
<1> HIDE DEF top
<1>9. 0 \in N
  <2>1. top + 1 - 0 = top + 1
    BY <1>1
  <2> QED
    BY <1>8, <2>1
<1>10. ASSUME NEW d \in Nat, d \in N
       PROVE  d + 1 \in N
  <2> SUFFICES ASSUME d + 1 <= top + 1
               PROVE  h[top + 1 - (d + 1)] = U[top + 1 - (d + 1)]
    OBVIOUS
  <2> DEFINE l == top + 1 - (d + 1)
  <2>1. l \in 0 .. top /\ l + 1 = top + 1 - d /\ d <= top + 1
    BY <1>1
  <2>2. h[l + 1] = U[l + 1]
    BY <1>10, <2>1
  <2> HIDE DEF l
  <2>3. h[l] = U[l]
    BY <1>5, <1>8, <2>1, <2>2
  <2> QED
    BY <2>3 DEF l
<1>11. Nat \subseteq N
  <2> HIDE DEF N
  <2> QED
    BY <1>9, <1>10, NaturalSet
<1>12. ASSUME NEW l \in 0 .. top
       PROVE  IsLast(t, l, price, h[l])
  <2>1. top + 1 - l \in Nat /\ top + 1 - l <= top + 1 /\ top + 1 - (top + 1 - l) = l
    BY <1>1
  <2>2. h[l] = U[l]
    BY <1>11, <2>1
  <2> HIDE DEF Last
  <2> QED
    BY <1>2, <1>4, <2>2
<1> QED
  BY <1>1, <1>7, <1>12 DEF top

\* Found answers the node of a price, if there is one.
LEMMA FoundIsTheNode ==
  ASSUME NEW t, Sane(t), NEW price \in Int
  PROVE  /\ Found(t, price) \in InTree(t) \union {None}
         /\ Found(t, price) # None => t.price[Found(t, price)] = price
         /\ \A n \in InTree(t) : t.price[n] = price => Found(t, price) = n
<1> DEFINE b == Update(t, price)[0]
           next == t.forward[b][0]
<1>1. 0 \in Lanes /\ 0 \in 0 .. t.maxLevel
  BY LaneAssumption DEF Sane, TreeTypeOK, Lanes
<1>2. IsLast(t, 0, price, b)
  BY <1>1, UpdateIsLast
<1>3. b \in InTree(t) \union {Header} /\ next \in InTree(t) \union {None}
  BY <1>1, <1>2, LaneFacts DEF IsLast, Lane
<1>4. Found(t, price) = IF next # None /\ t.price[next] = price THEN next ELSE None
  BY DEF Found, find
<1>5. ASSUME NEW n \in InTree(t), t.price[n] = price
      PROVE  next = n
  <2>1. n \in Linked(t, 0)
    BY DEF Sane, LanesNested
  <2>2. n \in After(t, 0, b)
    BY <1>2, <1>5, <2>1 DEF After, IsLast
  <2>3. next # None /\ (next = n \/ comparePrice(t, t.price[next], t.price[n]))
    BY <1>1, <1>2, <2>2, LaneFacts DEF IsLast
  <2>4. ~ comparePrice(t, t.price[next], price)
    BY <1>2, <2>3 DEF IsLast
  <2> QED
    BY <1>5, <2>3, <2>4
<1> HIDE DEF next
<1>6. \A n \in InTree(t) : n # None
  BY <1>1, LaneFacts
<1> QED
  BY <1>3, <1>4, <1>5, <1>6

\* A tree without nodes in lane l, or with its nodes in order.
SortedLane(t, l) ==
  /\ \A m \in Lane(t, l) :
       LET next == t.forward[m][l] IN
       IF next = None THEN After(t, l, m) = {}
       ELSE next \in After(t, l, m) /\ \A n \in After(t, l, m) \ {next} :
              comparePrice(t, t.price[next], t.price[n])
  /\ \A m \in InTree(t) \ Linked(t, l) : t.forward[m][l] = None

\* Sane again, lane by lane.
LEMMA SaneByLanes ==
  ASSUME NEW t, DOMAIN t = {"maxLevel", "ascending", "price", "forward"},
         TreeTypeOK(t), IsFiniteSet(InTree(t)),
         \A m, n \in InTree(t) : t.price[m] = t.price[n] => m = n,
         Linked(t, 0) = InTree(t),
         \A l \in Lanes : /\ l > 0 => Linked(t, l) \subseteq Linked(t, l - 1)
                          /\ l > t.maxLevel => Linked(t, l) = {}
                          /\ SortedLane(t, l)
  PROVE  Sane(t)
<1>1. ASSUME NEW l \in Lanes, NEW m \in Linked(t, l) \union {Header}
      PROVE  LET next == t.forward[m][l]
                 behind == {n \in Linked(t, l) :
                              m = Header \/ comparePrice(t, t.price[m], t.price[n])}
             IN  IF next = None THEN behind = {}
                 ELSE next \in behind /\ \A n \in behind \ {next} :
                        comparePrice(t, t.price[next], t.price[n])
  BY DEF SortedLane, Lane, After, Precedes
<1>2. LanesNested(t)
  BY <1>1 DEF LanesNested
<1> QED
  BY <1>2 DEF Sane, SortedLane

\* One node more, or less, which lane l does not have.
LEMMA LaneUntouched ==
  ASSUME NEW t, Sane(t), NEW u, NEW l \in Lanes,
         u.ascending = t.ascending,
         InTree(u) \subseteq Nodes, DOMAIN u.forward = InTree(u) \union {Header},
         Linked(t, l) \subseteq InTree(u),
         \A m \in InTree(t) \intersect InTree(u) : u.price[m] = t.price[m],
         \A m \in (InTree(t) \intersect InTree(u)) \union {Header} :
           u.forward[m][l] = t.forward[m][l],
         \A m \in InTree(u) \ InTree(t) : u.forward[m][l] = None
  PROVE  Linked(u, l) = Linked(t, l) /\ SortedLane(u, l)
<1>1. \A m \in InTree(t) \union {Header} : t.forward[m][l] \in Linked(t, l) \union {None}
  BY LaneFacts
<1>2. /\ Linked(t, l) \subseteq InTree(t) /\ None \notin InTree(t) /\ Header \notin InTree(t)
      /\ None \notin InTree(u) /\ Header \notin InTree(u)
  BY LaneFacts, NodeAssumption
<1>3. \A m \in InTree(t) \ Lane(t, l) : t.forward[m][l] = None
  BY LaneFacts
<1>4. DOMAIN t.forward = InTree(t) \union {Header}
  BY DEF Sane, TreeTypeOK
<1>5. Linked(u, l) \subseteq Linked(t, l)
  <2> SUFFICES ASSUME NEW n \in InTree(u), NEW m \in InTree(u) \union {Header},
                      u.forward[m][l] = n
               PROVE  n \in Linked(t, l)
    BY DEF Linked
  <2>1. m \in InTree(t) \union {Header}
    BY <1>2
  <2> QED
    BY <1>1, <1>2, <2>1
<1>6. Linked(t, l) \subseteq Linked(u, l)
  <2> SUFFICES ASSUME NEW n \in Linked(t, l) PROVE n \in Linked(u, l)
    OBVIOUS
  <2>1. PICK m \in InTree(t) \union {Header} : t.forward[m][l] = n
    BY <1>4 DEF Linked
  <2>2. m \in Lane(t, l)
    BY <1>2, <1>3, <2>1 DEF Lane
  <2>3. m \in (InTree(t) \intersect InTree(u)) \union {Header}
    BY <2>1, <2>2 DEF Lane
  <2>4. u.forward[m][l] = n
    BY <2>1, <2>3
  <2> QED
    BY <2>3, <2>4 DEF Linked
<1>7. Linked(u, l) = Linked(t, l) /\ Lane(u, l) = Lane(t, l)
  BY <1>5, <1>6 DEF Lane
<1>8. \A m \in Linked(t, l) : u.price[m] = t.price[m]
  BY <1>2
<1>9. \A m \in Lane(t, l) : After(u, l, m) = After(t, l, m)
  BY <1>2, <1>7, <1>8 DEF After, Precedes, comparePrice, Lane
<1>10. \A m \in Lane(t, l) : u.forward[m][l] = t.forward[m][l]
  BY <1>2 DEF Lane
<1>11. ASSUME NEW m \in Lane(u, l)
       PROVE  LET next == u.forward[m][l] IN
              IF next = None THEN After(u, l, m) = {}
              ELSE next \in After(u, l, m) /\ \A n \in After(u, l, m) \ {next} :
                     comparePrice(u, u.price[next], u.price[n])
  <2>1. After(t, l, m) \subseteq Linked(t, l)
    BY DEF After
  <2>2. LET next == t.forward[m][l] IN
        IF next = None THEN After(t, l, m) = {}
        ELSE next \in After(t, l, m) /\ \A n \in After(t, l, m) \ {next} :
               comparePrice(t, t.price[next], t.price[n])
    BY <1>7, LaneFacts
  <2> QED
    BY <1>7, <1>8, <1>9, <1>10, <2>1, <2>2 DEF comparePrice
<1>12. \A m \in InTree(u) \ Linked(u, l) : u.forward[m][l] = None
  BY <1>2, <1>3, <1>7 DEF Lane
<1> QED
  BY <1>7, <1>11, <1>12 DEF SortedLane

\* A new node behind the last one before its price.
LEMMA LaneWithNode ==
  ASSUME NEW t, Sane(t), NEW u, NEW l \in Lanes,
         NEW n \in Nodes, n \notin InTree(t), NEW price \in Prices,
         \A m \in InTree(t) : t.price[m] # price,
         NEW b, IsLast(t, l, price, b),
         u.ascending = t.ascending,
         InTree(u) = InTree(t) \union {n}, DOMAIN u.forward = InTree(u) \union {Header},
         u.price[n] = price, \A m \in InTree(t) : u.price[m] = t.price[m],
         u.forward[n][l] = t.forward[b][l],
         \A m \in InTree(t) \union {Header} :
           u.forward[m][l] = IF m = b THEN n ELSE t.forward[m][l]
  PROVE  Linked(u, l) = Linked(t, l) \union {n} /\ SortedLane(u, l)
<1>1. \A m \in InTree(t) \union {Header} : t.forward[m][l] \in Linked(t, l) \union {None}
  BY LaneFacts
<1>2. /\ Linked(t, l) \subseteq InTree(t) /\ None \notin InTree(t) /\ Header \notin InTree(t)
      /\ n # None /\ n # Header /\ None # Header /\ n \notin Linked(t, l)
  BY LaneFacts, NodeAssumption
<1>3. \A m \in InTree(t) \ Lane(t, l) : t.forward[m][l] = None
  BY LaneFacts
<1>4. DOMAIN t.forward = InTree(t) \union {Header}
  BY DEF Sane, TreeTypeOK
<1>5. b \in Lane(t, l) /\ b \in InTree(t) \union {Header} /\ Precedes(t, b, price)
  BY <1>2 DEF IsLast, Lane
<1>6. Linked(u, l) \subseteq Linked(t, l) \union {n}
  <2> SUFFICES ASSUME NEW x \in InTree(u), NEW m \in InTree(u) \union {Header},
                      u.forward[m][l] = x
               PROVE  x \in Linked(t, l) \union {n}
    BY DEF Linked
  <2> QED
    BY <1>1, <1>2, <1>5
<1>7. Linked(t, l) \union {n} \subseteq Linked(u, l)
  <2>1. n \in Linked(u, l)
    BY <1>5 DEF Linked
  <2>2. ASSUME NEW x \in Linked(t, l) PROVE x \in Linked(u, l)
    <3>1. PICK m \in InTree(t) \union {Header} : t.forward[m][l] = x
      BY <1>4 DEF Linked
    <3>2. u.forward[m][l] = x \/ u.forward[n][l] = x
      BY <3>1
    <3> QED
      BY <1>2, <3>1, <3>2 DEF Linked
  <2> QED
    BY <2>1, <2>2
<1>8. Linked(u, l) = Linked(t, l) \union {n} /\ Lane(u, l) = Lane(t, l) \union {n}
  BY <1>6, <1>7 DEF Lane
<1>9. /\ \A m \in Linked(t, l) : u.price[m] = t.price[m] /\ t.price[m] \in Int
                                 /\ t.price[m] # price
      /\ price \in Int
  BY <1>2, LaneFacts, PriceAssumption
<1>10. \A p, q : comparePrice(u, p, q) <=> comparePrice(t, p, q)
  BY DEF comparePrice
<1>11. ASSUME NEW m \in Lane(t, l)
       PROVE  After(u, l, m) = After(t, l, m) \union (IF Precedes(t, m, price) THEN {n} ELSE {})
  BY <1>2, <1>8, <1>9, <1>10 DEF After, Precedes, Lane
<1>12. After(u, l, n) = {x \in Linked(t, l) : comparePrice(t, price, t.price[x])}
  <2>1. ~ comparePrice(t, price, price)
    BY <1>9, CompareOrder
  <2> QED
    BY <1>2, <1>8, <1>9, <1>10, <2>1 DEF After, Precedes
<1> DEFINE Ordered(v, m) == IF v.forward[m][l] = None THEN After(v, l, m) = {}
                            ELSE v.forward[m][l] \in After(v, l, m)
                                 /\ \A x \in After(v, l, m) \ {v.forward[m][l]} :
                                      comparePrice(v, v.price[v.forward[m][l]], v.price[x])
<1>13. \A m \in Lane(t, l) : Ordered(t, m)
  BY LaneFacts
<1>14. \A m \in Lane(t, l) : After(t, l, m) \subseteq Linked(t, l)
  BY DEF After
<1>15. ASSUME NEW x \in After(t, l, b)
       PROVE  comparePrice(t, price, t.price[x])
  <2> DEFINE next == t.forward[b][l]
  <2>1. /\ next # None /\ next \in Linked(t, l) /\ x \in Linked(t, l)
        /\ (x = next \/ comparePrice(t, t.price[next], t.price[x]))
    BY <1>5, <1>13, <1>14
  <2>2. ~ comparePrice(t, t.price[next], price)
    BY <2>1 DEF IsLast
  <2> HIDE DEF next
  <2>3. /\ t.price[next] \in Int /\ t.price[x] \in Int /\ price \in Int
        /\ t.price[next] # price
    BY <1>9, <2>1
  <2>4. comparePrice(t, price, t.price[next])
    BY <2>2, <2>3, CompareOrder
  <2> QED
    BY <2>1, <2>3, <2>4, CompareOrder
<1>16. After(u, l, n) = After(t, l, b)
  <2>1. ASSUME NEW x \in Linked(t, l), comparePrice(t, price, t.price[x])
        PROVE  x \in After(t, l, b)
    <3>1. b # Header => b \in Linked(t, l) /\ t.price[b] \in Int
                        /\ comparePrice(t, t.price[b], price)
      BY <1>5, <1>9 DEF Lane, Precedes
    <3>2. b # Header => comparePrice(t, t.price[b], t.price[x])
      BY <1>9, <2>1, <3>1, CompareOrder
    <3> QED
      BY <3>2 DEF After, Precedes
  <2> QED
    BY <1>5, <1>12, <1>14, <1>15, <2>1
<1>17. Ordered(u, n)
  <2>1. Ordered(t, b)
    BY <1>5, <1>13
  <2>2. After(t, l, b) \subseteq Linked(t, l)
    BY <1>5, <1>14
  <2> QED
    BY <1>9, <1>10, <1>16, <2>1, <2>2
<1>18. Ordered(u, b)
  <2>1. After(u, l, b) = After(t, l, b) \union {n}
    BY <1>5, <1>11
  <2>2. u.forward[b][l] = n
    BY <1>5
  <2>3. \A x \in After(t, l, b) : u.price[x] = t.price[x]
    BY <1>5, <1>9, <1>14
  <2> QED
    BY <1>2, <1>10, <1>15, <2>1, <2>2, <2>3
<1>19. ASSUME NEW m \in Lane(t, l), m # b
       PROVE  Ordered(u, m)
  <2> DEFINE next == t.forward[m][l]
  <2>1. Ordered(t, m) /\ After(t, l, m) \subseteq Linked(t, l)
    BY <1>13, <1>14
  <2>2. u.forward[m][l] = next
    BY <1>2, <1>19 DEF Lane
  <2>3. CASE ~ Precedes(t, m, price)
    <3>1. After(u, l, m) = After(t, l, m)
      BY <1>11, <2>3
    <3> QED
      BY <1>9, <1>10, <2>1, <2>2, <3>1
  <2>4. CASE Precedes(t, m, price)
    <3>1. After(u, l, m) = After(t, l, m) \union {n}
      BY <1>11, <2>4
    <3>2. ~ IsLast(t, l, price, m)
      BY <1>9, <1>19, LastIsUnique
    <3>3. next # None /\ comparePrice(t, t.price[next], price)
      BY <2>4, <3>2 DEF IsLast
    <3> QED
      BY <1>9, <1>10, <2>1, <2>2, <3>1, <3>3
  <2> QED
    BY <2>3, <2>4
<1>20. \A m \in Lane(u, l) : Ordered(u, m)
  <2> HIDE DEF Ordered
  <2> QED
    BY <1>8, <1>17, <1>18, <1>19
<1>21. \A m \in InTree(u) \ Linked(u, l) : u.forward[m][l] = None
  BY <1>2, <1>3, <1>5, <1>8 DEF Lane
<1> QED
  BY <1>8, <1>20, <1>21 DEF SortedLane

\* In a lane that has a node, the last one before its price leads to it, and no
\* other does.
LEMMA LeadsToNode ==
  ASSUME NEW t, Sane(t), NEW l \in Lanes, NEW x \in Linked(t, l),
         NEW b, IsLast(t, l, t.price[x], b)
  PROVE  /\ b \in Lane(t, l) \ {x} /\ t.forward[b][l] = x
         /\ \A m \in InTree(t) \union {Header} : t.forward[m][l] = x => m = b
<1>1. /\ x \in InTree(t) /\ t.price[x] \in Int /\ x # None /\ x # Header
      /\ ~ comparePrice(t, t.price[x], t.price[x])
  BY LaneFacts, CompareOrder
<1>2. b \in Lane(t, l) \ {x}
  BY <1>1 DEF IsLast, Precedes
<1>3. x \in After(t, l, b)
  BY DEF After, IsLast
<1>4. t.forward[b][l] = x
  <2>1. t.forward[b][l] # None
        /\ (t.forward[b][l] = x \/ comparePrice(t, t.price[t.forward[b][l]], t.price[x]))
    BY <1>2, <1>3, LaneFacts
  <2> QED
    BY <2>1 DEF IsLast
<1>5. ASSUME NEW m \in InTree(t) \union {Header}, t.forward[m][l] = x
      PROVE  m = b
  <2>1. m \in Lane(t, l)
    BY <1>1, <1>5, LaneFacts DEF Lane
  <2>2. x \in After(t, l, m)
    BY <1>1, <1>5, <2>1, LaneFacts
  <2>3. IsLast(t, l, t.price[x], m)
    BY <1>1, <1>5, <2>1, <2>2 DEF IsLast, After
  <2> QED
    BY <1>1, <2>3, LastIsUnique
<1> QED
  BY <1>2, <1>4, <1>5

\* A node is taken out behind the last one before its price.
LEMMA LaneWithoutNode ==
  ASSUME NEW t, Sane(t), NEW u, NEW l \in Lanes, NEW x \in Linked(t, l),
         NEW b, IsLast(t, l, t.price[x], b),
         u.ascending = t.ascending,
         InTree(u) = InTree(t) \ {x}, DOMAIN u.forward = InTree(u) \union {Header},
         \A m \in InTree(u) : u.price[m] = t.price[m],
         \A m \in InTree(u) \union {Header} :
           u.forward[m][l] = IF m = b THEN t.forward[x][l] ELSE t.forward[m][l]
  PROVE  Linked(u, l) = Linked(t, l) \ {x} /\ SortedLane(u, l)
<1>1. \A m \in InTree(t) \union {Header} : t.forward[m][l] \in Linked(t, l) \union {None}
  BY LaneFacts
<1>2. /\ Linked(t, l) \subseteq InTree(t) /\ None \notin InTree(t) /\ Header \notin InTree(t)
      /\ x \in InTree(t) /\ x # None /\ x # Header /\ None # Header
  BY LaneFacts
<1>3. \A m \in InTree(t) \ Lane(t, l) : t.forward[m][l] = None
  BY LaneFacts
<1>4. DOMAIN t.forward = InTree(t) \union {Header}
  BY DEF Sane, TreeTypeOK
<1>5. /\ b \in Lane(t, l) \ {x} /\ b \in InTree(u) \union {Header} /\ t.forward[b][l] = x
      /\ \A m \in InTree(t) \union {Header} : t.forward[m][l] = x => m = b
  BY <1>2, LeadsToNode DEF Lane
<1>6. \A m \in Linked(t, l) : t.price[m] \in Int
  BY LaneFacts
<1>7. x \notin After(t, l, x)
  BY <1>2, <1>6, CompareOrder DEF After, Precedes
<1>8. t.forward[x][l] # x
  BY <1>2, <1>5
<1>9. Linked(u, l) \subseteq Linked(t, l) \ {x}
  <2> SUFFICES ASSUME NEW n \in InTree(u), NEW m \in InTree(u) \union {Header},
                      u.forward[m][l] = n
               PROVE  n \in Linked(t, l) \ {x}
    BY DEF Linked
  <2> QED
    BY <1>1, <1>2
<1>10. Linked(t, l) \ {x} \subseteq Linked(u, l)
  <2> SUFFICES ASSUME NEW n \in Linked(t, l) \ {x} PROVE n \in Linked(u, l)
    OBVIOUS
  <2>1. PICK m \in InTree(t) \union {Header} : t.forward[m][l] = n
    BY <1>4 DEF Linked
  <2>2. CASE m = x
    <3>1. u.forward[b][l] = n
      BY <1>5, <2>1, <2>2
    <3> QED
      BY <1>2, <1>5, <3>1 DEF Linked
  <2>3. CASE m # x
    <3>1. m \in InTree(u) \union {Header} /\ m # b
      BY <1>5, <2>1, <2>3
    <3>2. u.forward[m][l] = n
      BY <2>1, <3>1
    <3> QED
      BY <1>2, <3>1, <3>2 DEF Linked
  <2> QED
    BY <2>2, <2>3
<1>11. Linked(u, l) = Linked(t, l) \ {x} /\ Lane(u, l) = Lane(t, l) \ {x}
  BY <1>2, <1>9, <1>10 DEF Lane
<1>12. \A p, q : comparePrice(u, p, q) <=> comparePrice(t, p, q)
  BY DEF comparePrice
<1>13. \A m \in Lane(t, l) \ {x} : After(u, l, m) = After(t, l, m) \ {x}
  BY <1>2, <1>11, <1>12 DEF After, Precedes, Lane
<1>14. \A m \in Linked(t, l) \ {x} : u.price[m] = t.price[m]
  BY <1>2
<1> DEFINE Ordered(v, m) == IF v.forward[m][l] = None THEN After(v, l, m) = {}
                            ELSE v.forward[m][l] \in After(v, l, m)
                                 /\ \A n \in After(v, l, m) \ {v.forward[m][l]} :
                                      comparePrice(v, v.price[v.forward[m][l]], v.price[n])
<1>15. \A m \in Lane(t, l) : Ordered(t, m)
  BY LaneFacts
<1>16. \A m \in Lane(t, l) : After(t, l, m) \subseteq Linked(t, l)
  BY DEF After
<1>17. After(t, l, x) = After(t, l, b) \ {x}
  <2>1. After(t, l, b) \ {x} \subseteq After(t, l, x)
    <3>1. Ordered(t, b)
      BY <1>5, <1>15
    <3> QED
      BY <1>2, <1>5, <3>1 DEF After, Precedes
  <2>2. ASSUME NEW n \in After(t, l, x)
        PROVE  n \in After(t, l, b)
    <3>1. n \in Linked(t, l) /\ comparePrice(t, t.price[x], t.price[n])
      BY <1>2 DEF After, Precedes
    <3>2. b # Header => b \in Linked(t, l) /\ comparePrice(t, t.price[b], t.price[x])
      BY <1>5 DEF IsLast, Lane, Precedes
    <3>3. b # Header => comparePrice(t, t.price[b], t.price[n])
      BY <1>6, <3>1, <3>2, CompareOrder
    <3> QED
      BY <3>1, <3>3 DEF After, Precedes
  <2> QED
    BY <1>7, <2>1, <2>2
<1>18. Ordered(u, b)
  <2>1. After(u, l, b) = After(t, l, x) /\ u.forward[b][l] = t.forward[x][l]
    BY <1>5, <1>13, <1>17
  <2>2. Ordered(t, x) /\ After(t, l, x) \subseteq Linked(t, l) \ {x}
    BY <1>7, <1>15, <1>16 DEF Lane
  <2> QED
    BY <1>12, <1>14, <2>1, <2>2
<1>19. ASSUME NEW m \in Lane(t, l) \ {x}, m # b
       PROVE  Ordered(u, m)
  <2>1. Ordered(t, m) /\ After(t, l, m) \subseteq Linked(t, l)
    BY <1>15, <1>16
  <2>2. u.forward[m][l] = t.forward[m][l] /\ t.forward[m][l] # x
    BY <1>2, <1>5, <1>19 DEF Lane
  <2>3. After(u, l, m) = After(t, l, m) \ {x}
    BY <1>13
  <2>4. x \in After(t, l, m) => t.forward[m][l] # None
    BY <2>1
  <2> QED
    BY <1>12, <1>14, <2>1, <2>2, <2>3
<1>20. \A m \in Lane(u, l) : Ordered(u, m)
  <2> HIDE DEF Ordered
  <2> QED
    BY <1>11, <1>18, <1>19
<1>21. \A m \in InTree(u) \ Linked(u, l) : u.forward[m][l] = None
  BY <1>2, <1>3, <1>5, <1>11 DEF Lane
<1> QED
  BY <1>11, <1>20, <1>21 DEF SortedLane

\* A finite run of naturals has a greatest one, which Max returns.
LEMMA GreatestNatural ==
  ASSUME NEW k \in Nat, NEW S \in SUBSET (0 .. k), S # {}
  PROVE  Max(S) \in S /\ \A n \in S : n <= Max(S)
<1> DEFINE D == {k - n : n \in S}
<1>1. D \in SUBSET Nat /\ D # {}
  <2>1. \A n \in S : n \in 0 .. k /\ k - n \in Nat
    OBVIOUS
  <2> QED
    BY <2>1
<1>2. PICK d \in D : \A e \in D : d <= e
  <2> HIDE DEF D
  <2> QED
    BY <1>1, LeastNatural
<1>3. PICK m \in S : d = k - m
  BY <1>2
<1>4. \A n \in S : m >= n
  <2> SUFFICES ASSUME NEW n \in S PROVE m >= n
    OBVIOUS
  <2>1. d <= k - n
    BY <1>2
  <2> QED
    BY <1>3, <2>1
<1>5. Max(S) \in S /\ \A n \in S : Max(S) >= n
  BY <1>3, <1>4 DEF Max
<1> QED
  BY <1>5

\* Above the highest lane in use the header, too, is the last node.
LEMMA EmptyLane ==
  ASSUME NEW t, Sane(t), NEW l \in Lanes, l > t.maxLevel, NEW price
  PROVE  IsLast(t, l, price, Header) /\ Linked(t, l) = {}
<1>1. Linked(t, l) = {}
  BY DEF Sane, LanesNested
<1>2. t.forward[Header][l] = None
  BY <1>1, LaneFacts
<1> QED
  BY <1>1, <1>2 DEF IsLast, Lane, Precedes

\* What insert does to each field: before is the node after which the new one is
\* linked.
LEMMA InsertFields ==
  ASSUME NEW t, Sane(t), NEW n \in Nodes, n \notin InTree(t), NEW price \in Prices,
         NEW height \in Lanes
  PROVE  LET u == insert(t, n, price, height) IN
         /\ DOMAIN u = {"maxLevel", "ascending", "price", "forward"}
         /\ u.maxLevel \in Lanes /\ u.maxLevel >= t.maxLevel /\ u.maxLevel >= height
         /\ u.ascending = t.ascending
         /\ u.price = [m \in InTree(t) \union {n} |-> IF m = n THEN price ELSE t.price[m]]
         /\ InTree(u) = InTree(t) \union {n}
         /\ DOMAIN u.forward = InTree(u) \union {Header}
         /\ u.forward \in [InTree(u) \union {Header} -> [Lanes -> InTree(u) \union {None}]]
         /\ \A l \in Lanes : l <= height =>
              \E b : /\ IsLast(t, l, price, b)
                     /\ u.forward[n][l] = t.forward[b][l]
                     /\ \A m \in InTree(t) \union {Header} :
                          u.forward[m][l] = IF m = b THEN n ELSE t.forward[m][l]
         /\ \A l \in Lanes : ~ (l <= height) =>
              /\ u.forward[n][l] = None
              /\ \A m \in InTree(t) \union {Header} : u.forward[m][l] = t.forward[m][l]
<1> DEFINE u == insert(t, n, price, height)
           update == Update(t, price)
           Before(l) == IF l <= t.maxLevel THEN update[l] ELSE Header
<1>1. /\ DOMAIN t = {"maxLevel", "ascending", "price", "forward"}
      /\ t.maxLevel \in Lanes /\ t.price \in [InTree(t) -> Prices]
      /\ t.forward \in [InTree(t) \union {Header} -> [Lanes -> InTree(t) \union {None}]]
      /\ n # None /\ n # Header /\ Header \notin InTree(t) /\ price \in Int
  BY NodeAssumption, PriceAssumption DEF Sane, TreeTypeOK
<1>2. \A l \in Lanes : IsLast(t, l, price, Before(l))
  <2> SUFFICES ASSUME NEW l \in Lanes PROVE IsLast(t, l, price, Before(l))
    OBVIOUS
  <2>1. l <= t.maxLevel => l \in 0 .. t.maxLevel
    BY <1>1, LaneAssumption DEF Lanes
  <2>2. ~ (l <= t.maxLevel) => l > t.maxLevel
    BY <1>1, LaneAssumption DEF Lanes
  <2>3. CASE l <= t.maxLevel
    BY <1>1, <2>1, <2>3, UpdateIsLast
  <2>4. CASE ~ (l <= t.maxLevel)
    BY <1>1, <2>2, <2>4, EmptyLane
  <2> QED
    BY <2>3, <2>4
<1> HIDE DEF update
<1>3. u = [t EXCEPT
            !.maxLevel = Max({@, height}),
            !.price = [m \in InTree(t) \union {n} |-> IF m = n THEN price ELSE @[m]],
            !.forward =
              [m \in DOMAIN @ \union {n} |->
                 [l \in Lanes |->
                    IF m = n THEN IF l <= height THEN @[Before(l)][l] ELSE None
                    ELSE IF l <= height /\ Before(l) = m THEN n ELSE @[m][l]]]]
  BY DEF insert, update
<1> HIDE DEF u, Before
<1>4. /\ DOMAIN u = {"maxLevel", "ascending", "price", "forward"}
      /\ u.ascending = t.ascending
      /\ u.maxLevel = Max({t.maxLevel, height})
      /\ u.price = [m \in InTree(t) \union {n} |-> IF m = n THEN price ELSE t.price[m]]
      /\ u.forward =
           [m \in DOMAIN t.forward \union {n} |->
              [l \in Lanes |->
                 IF m = n THEN IF l <= height THEN t.forward[Before(l)][l] ELSE None
                 ELSE IF l <= height /\ Before(l) = m THEN n ELSE t.forward[m][l]]]
  BY <1>1, <1>3
<1>5. u.maxLevel \in Lanes /\ u.maxLevel >= t.maxLevel /\ u.maxLevel >= height
  <2>1. {t.maxLevel, height} \in SUBSET (0 .. MaxLevel) /\ MaxLevel \in Nat
    BY <1>1, LaneAssumption DEF Lanes
  <2>2. /\ Max({t.maxLevel, height}) \in {t.maxLevel, height}
        /\ \A l \in {t.maxLevel, height} : l <= Max({t.maxLevel, height})
    BY <2>1, GreatestNatural
  <2> QED
    BY <1>4, <2>1, <2>2 DEF Lanes
<1>6. InTree(u) = InTree(t) \union {n}
  BY <1>4 DEF InTree
<1>7. \A l \in Lanes : Before(l) \in InTree(t) \union {Header}
  BY <1>2, LaneFacts DEF IsLast, Lane
<1>8. \A m \in InTree(u) \union {Header} : \A l \in Lanes :
        u.forward[m][l] = IF m = n THEN IF l <= height THEN t.forward[Before(l)][l] ELSE None
                          ELSE IF l <= height /\ Before(l) = m THEN n ELSE t.forward[m][l]
  BY <1>1, <1>4, <1>6
<1>9. /\ DOMAIN u.forward = InTree(u) \union {Header}
      /\ u.forward \in [InTree(u) \union {Header} -> [Lanes -> InTree(u) \union {None}]]
  <2>1. \A m \in InTree(u) \union {Header} : \A l \in Lanes :
          u.forward[m][l] \in InTree(u) \union {None}
    BY <1>1, <1>6, <1>7, <1>8
  <2>2. DOMAIN u.forward = InTree(u) \union {Header}
    BY <1>1, <1>4, <1>6
  <2>3. \A m \in InTree(u) \union {Header} :
          u.forward[m] = [l \in Lanes |-> u.forward[m][l]]
    BY <1>1, <1>4, <1>6
  <2>4. \A m \in InTree(u) \union {Header} :
          u.forward[m] \in [Lanes -> InTree(u) \union {None}]
    BY <2>1, <2>3
  <2>5. u.forward = [m \in DOMAIN u.forward |-> u.forward[m]]
    BY <1>4
  <2> QED
    BY <2>2, <2>4, <2>5
<1>10. ASSUME NEW l \in Lanes, l <= height
       PROVE  \E b : /\ IsLast(t, l, price, b)
                     /\ u.forward[n][l] = t.forward[b][l]
                     /\ \A m \in InTree(t) \union {Header} :
                          u.forward[m][l] = IF m = b THEN n ELSE t.forward[m][l]
  <2>1. u.forward[n][l] = t.forward[Before(l)][l]
    BY <1>6, <1>8, <1>10
  <2>2. \A m \in InTree(t) \union {Header} :
          u.forward[m][l] = IF m = Before(l) THEN n ELSE t.forward[m][l]
    BY <1>1, <1>6, <1>8, <1>10
  <2> QED
    BY <1>2, <2>1, <2>2
<1>11. ASSUME NEW l \in Lanes, ~ (l <= height)
       PROVE  /\ u.forward[n][l] = None
              /\ \A m \in InTree(t) \union {Header} : u.forward[m][l] = t.forward[m][l]
  BY <1>1, <1>6, <1>8, <1>11
<1> QED
  BY <1>4, <1>5, <1>6, <1>9, <1>10, <1>11 DEF u

\* A tree with one node more is sane.
LEMMA InsertKeepsSane ==
  ASSUME NEW t, Sane(t), NEW n \in Nodes, n \notin InTree(t), NEW price \in Prices,
         Found(t, price) = None, NEW height \in Lanes
  PROVE  LET u == insert(t, n, price, height) IN
         /\ Sane(u) /\ u.ascending = t.ascending
         /\ u.price = [m \in InTree(t) \union {n} |-> IF m = n THEN price ELSE t.price[m]]
<1> DEFINE u == insert(t, n, price, height)
<1>1. /\ DOMAIN u = {"maxLevel", "ascending", "price", "forward"}
      /\ u.maxLevel \in Lanes /\ u.maxLevel >= t.maxLevel /\ u.maxLevel >= height
      /\ u.ascending = t.ascending
      /\ u.price = [m \in InTree(t) \union {n} |-> IF m = n THEN price ELSE t.price[m]]
      /\ InTree(u) = InTree(t) \union {n}
      /\ DOMAIN u.forward = InTree(u) \union {Header}
      /\ u.forward \in [InTree(u) \union {Header} -> [Lanes -> InTree(u) \union {None}]]
      /\ \A l \in Lanes : l <= height =>
           \E b : /\ IsLast(t, l, price, b)
                  /\ u.forward[n][l] = t.forward[b][l]
                  /\ \A m \in InTree(t) \union {Header} :
                       u.forward[m][l] = IF m = b THEN n ELSE t.forward[m][l]
      /\ \A l \in Lanes : ~ (l <= height) =>
           /\ u.forward[n][l] = None
           /\ \A m \in InTree(t) \union {Header} : u.forward[m][l] = t.forward[m][l]
  BY InsertFields
<1> HIDE DEF u
<1>2. /\ t.maxLevel \in Lanes /\ t.ascending \in BOOLEAN /\ InTree(t) \subseteq Nodes
      /\ t.price \in [InTree(t) -> Prices] /\ price \in Int
      /\ IsFiniteSet(InTree(t)) /\ Linked(t, 0) = InTree(t)
      /\ \A m, k \in InTree(t) : t.price[m] = t.price[k] => m = k
  BY PriceAssumption DEF Sane, TreeTypeOK, LanesNested
<1>3. \A m \in InTree(t) : t.price[m] # price
  <2> SUFFICES ASSUME NEW m \in InTree(t), t.price[m] = price PROVE FALSE
    OBVIOUS
  <2>1. m = None
    BY <1>2, FoundIsTheNode
  <2> QED
    BY <1>2, <2>1, NodeAssumption
<1>4. u.price[n] = price /\ \A m \in InTree(t) : u.price[m] = t.price[m]
  BY <1>1
<1>5. TreeTypeOK(u)
  BY <1>1, <1>2 DEF TreeTypeOK
<1>6. IsFiniteSet(InTree(u))
  BY <1>1, <1>2, FS_AddElement
<1>7. \A m, k \in InTree(u) : u.price[m] = u.price[k] => m = k
  BY <1>1, <1>2, <1>3, <1>4
<1>8. ASSUME NEW l \in Lanes, l <= height
      PROVE  Linked(u, l) = Linked(t, l) \union {n} /\ SortedLane(u, l)
  <2>1. PICK b : /\ IsLast(t, l, price, b)
                 /\ u.forward[n][l] = t.forward[b][l]
                 /\ \A m \in InTree(t) \union {Header} :
                      u.forward[m][l] = IF m = b THEN n ELSE t.forward[m][l]
    BY <1>1, <1>8
  <2> QED
    BY <1>1, <1>3, <1>4, <2>1, LaneWithNode
<1>9. ASSUME NEW l \in Lanes, ~ (l <= height)
      PROVE  Linked(u, l) = Linked(t, l) /\ SortedLane(u, l)
  <2>1. /\ InTree(u) \subseteq Nodes /\ Linked(t, l) \subseteq InTree(u)
        /\ InTree(u) \ InTree(t) = {n} /\ InTree(t) \intersect InTree(u) = InTree(t)
    BY <1>1, <1>2, LaneFacts
  <2>2. /\ u.forward[n][l] = None
        /\ \A m \in InTree(t) \union {Header} : u.forward[m][l] = t.forward[m][l]
    BY <1>1, <1>9
  <2> QED
    BY <1>1, <1>4, <2>1, <2>2, LaneUntouched
<1>10. Linked(u, 0) = InTree(u)
  <2>1. 0 \in Lanes /\ 0 <= height
    BY LaneAssumption DEF Lanes
  <2> QED
    BY <1>1, <1>2, <1>8, <2>1
<1>11. ASSUME NEW l \in Lanes, l > 0
       PROVE  Linked(u, l) \subseteq Linked(u, l - 1)
  <2>1. l - 1 \in Lanes /\ (l <= height => l - 1 <= height)
    BY <1>11, LaneAssumption DEF Lanes
  <2>2. Linked(t, l) \subseteq Linked(t, l - 1)
    BY <1>11 DEF Sane, LanesNested
  <2> QED
    BY <1>8, <1>9, <2>1, <2>2
<1>12. ASSUME NEW l \in Lanes, l > u.maxLevel
       PROVE  Linked(u, l) = {}
  <2>1. l > t.maxLevel /\ ~ (l <= height)
    BY <1>1, <1>2, <1>12, LaneAssumption DEF Lanes
  <2> QED
    BY <1>9, <2>1, EmptyLane
<1>13. Sane(u)
  BY <1>1, <1>5, <1>6, <1>7, <1>8, <1>9, <1>10, <1>11, <1>12, SaneByLanes
<1> QED
  BY <1>1, <1>13 DEF u

\* A node is linked in the lanes below its highest, too.
LEMMA LinkedBelow ==
  ASSUME NEW t, Sane(t), NEW l \in Lanes, NEW k \in 0 .. l
  PROVE  k \in Lanes /\ Linked(t, l) \subseteq Linked(t, k)
<1> DEFINE N == {d \in Nat : d <= l => Linked(t, l) \subseteq Linked(t, l - d)}
<1>1. l \in Nat /\ l <= MaxLevel /\ MaxLevel \in Nat /\ k \in Lanes
  BY LaneAssumption DEF Lanes
<1>2. 0 \in N
  <2>1. l - 0 = l
    BY <1>1
  <2> QED
    BY <2>1
<1>3. ASSUME NEW d \in Nat, d \in N
      PROVE  d + 1 \in N
  <2> SUFFICES ASSUME d + 1 <= l
               PROVE  Linked(t, l) \subseteq Linked(t, l - (d + 1))
    OBVIOUS
  <2>1. d <= l /\ l - d \in Lanes /\ l - d > 0 /\ l - (d + 1) = (l - d) - 1
    BY <1>1 DEF Lanes
  <2>2. Linked(t, l) \subseteq Linked(t, l - d)
    BY <1>3, <2>1
  <2>3. Linked(t, l - d) \subseteq Linked(t, (l - d) - 1)
    BY <2>1 DEF Sane, LanesNested
  <2> QED
    BY <2>1, <2>2, <2>3
<1>4. Nat \subseteq N
  <2> HIDE DEF N
  <2> QED
    BY <1>2, <1>3, NaturalSet
<1>5. l - k \in Nat /\ l - k <= l /\ l - (l - k) = k
  BY <1>1
<1> QED
  BY <1>1, <1>4, <1>5

\* What remove does to each field: a node is unlinked in just the lanes that have
\* it, and the highest lane in use is found from the links of the header.
LEMMA RemoveFields ==
  ASSUME NEW t, Sane(t), NEW price \in Prices, NEW x, x = Found(t, price), x # None
  PROVE  LET u == remove(t, price) IN
         /\ DOMAIN u = {"maxLevel", "ascending", "price", "forward"}
         /\ u.maxLevel \in Lanes
         /\ \A l \in Lanes : l > u.maxLevel =>
              Linked(t, l) = {} \/ u.forward[Header][l] = None
         /\ u.ascending = t.ascending
         /\ u.price = [m \in InTree(t) \ {x} |-> t.price[m]]
         /\ InTree(u) = InTree(t) \ {x}
         /\ DOMAIN u.forward = InTree(u) \union {Header}
         /\ u.forward \in [InTree(u) \union {Header} -> [Lanes -> InTree(u) \union {None}]]
         /\ \A l \in Lanes : x \in Linked(t, l) =>
              \E b : /\ IsLast(t, l, t.price[x], b)
                     /\ \A m \in InTree(u) \union {Header} :
                          u.forward[m][l] = IF m = b THEN t.forward[x][l] ELSE t.forward[m][l]
         /\ \A l \in Lanes : x \notin Linked(t, l) =>
              \A m \in InTree(u) \union {Header} : u.forward[m][l] = t.forward[m][l]
<1> DEFINE u == remove(t, price)
           update == Update(t, price)
           lanes == {l \in 0 .. t.maxLevel :
                       \A k \in 0 .. l : t.forward[update[k]][k] = x}
           top == {0} \union {l \in 1 .. t.maxLevel : u.forward[Header][l] # None}
<1>1. /\ DOMAIN t = {"maxLevel", "ascending", "price", "forward"}
      /\ t.maxLevel \in Lanes /\ t.price \in [InTree(t) -> Prices]
      /\ t.forward \in [InTree(t) \union {Header} -> [Lanes -> InTree(t) \union {None}]]
      /\ price \in Int /\ MaxLevel \in Nat /\ t.maxLevel \in Nat
      /\ \A l \in 0 .. t.maxLevel : l \in Lanes
  BY LaneAssumption, PriceAssumption DEF Sane, TreeTypeOK, Lanes
<1>2. x \in InTree(t) /\ t.price[x] = price /\ x # Header /\ Header \notin InTree(t)
  <2>1. x \in InTree(t) /\ t.price[x] = price
    BY <1>1, FoundIsTheNode
  <2> QED
    BY <2>1, NodeAssumption DEF Sane, TreeTypeOK
<1>3. \A l \in 0 .. t.maxLevel : IsLast(t, l, price, update[l])
  BY <1>1, UpdateIsLast
<1>4. u = [t EXCEPT
             !.price = [m \in InTree(t) \ {x} |-> @[m]],
             !.forward = [m \in DOMAIN t.forward \ {x} |->
                            [l \in Lanes |-> IF l \in lanes /\ update[l] = m
                                             THEN t.forward[x][l] ELSE t.forward[m][l]]],
             !.maxLevel = Max({0} \union {l \in 1 .. @ :
               [m \in DOMAIN t.forward \ {x} |->
                  [k \in Lanes |-> IF k \in lanes /\ update[k] = m
                                   THEN t.forward[x][k] ELSE t.forward[m][k]]][Header][l] # None})]
  BY DEF remove
<1> HIDE DEF u, update, lanes
<1>5. /\ DOMAIN u = {"maxLevel", "ascending", "price", "forward"}
      /\ u.ascending = t.ascending
      /\ u.price = [m \in InTree(t) \ {x} |-> t.price[m]]
      /\ u.forward = [m \in DOMAIN t.forward \ {x} |->
                        [l \in Lanes |-> IF l \in lanes /\ update[l] = m
                                         THEN t.forward[x][l] ELSE t.forward[m][l]]]
  BY <1>1, <1>4
<1>6. u.maxLevel = Max(top)
  BY <1>1, <1>4, <1>5
<1>7. InTree(u) = InTree(t) \ {x}
  BY <1>5 DEF InTree
<1>8. ASSUME NEW l \in 0 .. t.maxLevel
      PROVE  t.forward[update[l]][l] = x <=> x \in Linked(t, l)
  <2>1. l \in Lanes /\ update[l] \in InTree(t) \union {Header}
    BY <1>1, <1>3, LaneFacts DEF IsLast, Lane
  <2>2. t.forward[update[l]][l] \in Linked(t, l) \union {None}
    BY <2>1, LaneFacts
  <2>3. x \in Linked(t, l) => t.forward[update[l]][l] = x
    BY <1>2, <1>3, <2>1, LeadsToNode
  <2> QED
    BY <2>2, <2>3
<1>9. \A l \in Lanes : l \in lanes <=> x \in Linked(t, l)
  <2> SUFFICES ASSUME NEW l \in Lanes PROVE l \in lanes <=> x \in Linked(t, l)
    OBVIOUS
  <2>1. CASE l \in 0 .. t.maxLevel
    <3>1. l \in 0 .. l /\ \A k \in 0 .. l : k \in 0 .. t.maxLevel
      BY <1>1, <2>1
    <3>2. \A k \in 0 .. l : x \in Linked(t, l) => x \in Linked(t, k)
      BY LinkedBelow
    <3>3. l \in lanes <=> \A k \in 0 .. l : t.forward[update[k]][k] = x
      BY <2>1 DEF lanes
    <3>4. l \in lanes <=> \A k \in 0 .. l : x \in Linked(t, k)
      BY <1>8, <3>1, <3>3
    <3> QED
      BY <3>1, <3>2, <3>4
  <2>2. CASE l \notin 0 .. t.maxLevel
    <3>1. l > t.maxLevel
      BY <1>1, <2>2 DEF Lanes
    <3>2. x \notin Linked(t, l)
      BY <3>1, EmptyLane
    <3> QED
      BY <2>2, <3>2 DEF lanes
  <2> QED
    BY <2>1, <2>2
<1>10. \A m \in InTree(u) \union {Header} : \A l \in Lanes :
         u.forward[m][l] = IF x \in Linked(t, l) /\ update[l] = m
                           THEN t.forward[x][l] ELSE t.forward[m][l]
  BY <1>1, <1>2, <1>5, <1>7, <1>9
<1>11. ASSUME NEW l \in Lanes, x \in Linked(t, l)
       PROVE  /\ IsLast(t, l, t.price[x], update[l])
              /\ \A m \in InTree(t) \union {Header} : t.forward[m][l] = x => m = update[l]
              /\ t.forward[x][l] # x
  <2>1. l \in 0 .. t.maxLevel
    BY <1>9, <1>11 DEF lanes
  <2>2. IsLast(t, l, t.price[x], update[l])
    BY <1>2, <1>3, <2>1
  <2>3. /\ update[l] \in Lane(t, l) \ {x} /\ t.forward[update[l]][l] = x
        /\ \A m \in InTree(t) \union {Header} : t.forward[m][l] = x => m = update[l]
    BY <1>11, <2>2, LeadsToNode
  <2> QED
    BY <1>2, <2>2, <2>3
<1>12. ASSUME NEW l \in Lanes, x \notin Linked(t, l)
       PROVE  \A m \in InTree(t) \union {Header} : t.forward[m][l] # x
  BY <1>2, <1>12, LaneFacts
<1>13. /\ DOMAIN u.forward = InTree(u) \union {Header}
       /\ u.forward \in [InTree(u) \union {Header} -> [Lanes -> InTree(u) \union {None}]]
  <2>1. ASSUME NEW m \in InTree(u) \union {Header}, NEW l \in Lanes
        PROVE  u.forward[m][l] \in InTree(u) \union {None}
    <3>1. m \in InTree(t) \union {Header} /\ t.forward[m][l] \in InTree(t) \union {None}
          /\ t.forward[x][l] \in InTree(t) \union {None}
      BY <1>1, <1>2, <1>7
    <3>2. CASE x \in Linked(t, l)
      BY <1>7, <1>10, <1>11, <3>1, <3>2
    <3>3. CASE x \notin Linked(t, l)
      BY <1>7, <1>10, <1>12, <3>1, <3>3
    <3> QED
      BY <3>2, <3>3
  <2>2. DOMAIN u.forward = InTree(u) \union {Header}
    BY <1>1, <1>2, <1>5, <1>7
  <2>3. \A m \in InTree(u) \union {Header} :
          u.forward[m] = [l \in Lanes |-> u.forward[m][l]]
    BY <1>1, <1>2, <1>5, <1>7
  <2>4. \A m \in InTree(u) \union {Header} :
          u.forward[m] \in [Lanes -> InTree(u) \union {None}]
    BY <2>1, <2>3
  <2>5. u.forward = [m \in DOMAIN u.forward |-> u.forward[m]]
    BY <1>5
  <2> QED
    BY <2>2, <2>4, <2>5
<1>14. u.maxLevel \in Lanes /\ \A l \in top : l <= u.maxLevel
  <2>1. top \in SUBSET (0 .. t.maxLevel) /\ top # {}
    BY <1>1
  <2>2. Max(top) \in top /\ \A l \in top : l <= Max(top)
    <3> HIDE DEF top
    <3> QED
      BY <1>1, <2>1, GreatestNatural
  <2> HIDE DEF top
  <2> QED
    BY <1>1, <1>6, <2>1, <2>2
<1>15. ASSUME NEW l \in Lanes, l > u.maxLevel
       PROVE  Linked(t, l) = {} \/ u.forward[Header][l] = None
  <2>1. l \in Nat /\ u.maxLevel \in Nat /\ l # 0 /\ ~ (l <= u.maxLevel)
    BY <1>14, <1>15, LaneAssumption DEF Lanes
  <2>2. l \notin top
    <3> HIDE DEF top
    <3> QED
      BY <1>14, <2>1
  <2>3. CASE l \in 1 .. t.maxLevel
    BY <2>2, <2>3
  <2>4. CASE l \notin 1 .. t.maxLevel
    <3>1. l > t.maxLevel
      BY <1>1, <2>1, <2>4
    <3> QED
      BY <3>1, EmptyLane
  <2> QED
    BY <2>3, <2>4
<1>16. \A l \in Lanes : x \in Linked(t, l) =>
         \E b : /\ IsLast(t, l, t.price[x], b)
                /\ \A m \in InTree(u) \union {Header} :
                     u.forward[m][l] = IF m = b THEN t.forward[x][l] ELSE t.forward[m][l]
  <2> SUFFICES ASSUME NEW l \in Lanes, x \in Linked(t, l)
               PROVE  /\ IsLast(t, l, t.price[x], update[l])
                      /\ \A m \in InTree(u) \union {Header} :
                           u.forward[m][l] = IF m = update[l] THEN t.forward[x][l]
                                             ELSE t.forward[m][l]
    OBVIOUS
  <2>1. IsLast(t, l, t.price[x], update[l])
    BY <1>11
  <2>2. \A m \in InTree(u) \union {Header} :
          u.forward[m][l] = IF m = update[l] THEN t.forward[x][l] ELSE t.forward[m][l]
    BY <1>10
  <2> QED
    BY <2>1, <2>2
<1>17. \A l \in Lanes : x \notin Linked(t, l) =>
         \A m \in InTree(u) \union {Header} : u.forward[m][l] = t.forward[m][l]
  BY <1>10
<1> QED
  BY <1>5, <1>7, <1>13, <1>14, <1>15, <1>16, <1>17 DEF u

\* A tree with one node less is sane.
LEMMA RemoveKeepsSane ==
  ASSUME NEW t, Sane(t), NEW price \in Prices
  PROVE  LET u == remove(t, price)
             x == Found(t, price)
         IN  /\ Sane(u) /\ u.ascending = t.ascending
             /\ x = None => u = t
             /\ x # None => u.price = [m \in InTree(t) \ {x} |-> t.price[m]]
<1> DEFINE u == remove(t, price)
           x == Found(t, price)
<1>1. CASE x = None
  BY <1>1 DEF remove
<1>2. CASE x # None
  <2>1. /\ DOMAIN u = {"maxLevel", "ascending", "price", "forward"}
        /\ u.maxLevel \in Lanes
        /\ \A l \in Lanes : l > u.maxLevel =>
             Linked(t, l) = {} \/ u.forward[Header][l] = None
        /\ u.ascending = t.ascending
        /\ u.price = [m \in InTree(t) \ {x} |-> t.price[m]]
        /\ InTree(u) = InTree(t) \ {x}
        /\ DOMAIN u.forward = InTree(u) \union {Header}
        /\ u.forward \in [InTree(u) \union {Header} -> [Lanes -> InTree(u) \union {None}]]
        /\ \A l \in Lanes : x \in Linked(t, l) =>
             \E b : /\ IsLast(t, l, t.price[x], b)
                    /\ \A m \in InTree(u) \union {Header} :
                         u.forward[m][l] = IF m = b THEN t.forward[x][l] ELSE t.forward[m][l]
        /\ \A l \in Lanes : x \notin Linked(t, l) =>
             \A m \in InTree(u) \union {Header} : u.forward[m][l] = t.forward[m][l]
    BY <1>2, RemoveFields
  <2>2. /\ t.ascending \in BOOLEAN /\ InTree(t) \subseteq Nodes
        /\ t.price \in [InTree(t) -> Prices]
        /\ IsFiniteSet(InTree(t)) /\ Linked(t, 0) = InTree(t)
        /\ \A m, k \in InTree(t) : t.price[m] = t.price[k] => m = k
        /\ price \in Int
    BY PriceAssumption DEF Sane, TreeTypeOK, LanesNested
  <2>3. x \in InTree(t)
    BY <1>2, <2>2, FoundIsTheNode
  <2> HIDE DEF u, x
  <2>4. \A m \in InTree(u) : u.price[m] = t.price[m]
    BY <2>1
  <2>5. TreeTypeOK(u)
    BY <2>1, <2>2 DEF TreeTypeOK
  <2>6. IsFiniteSet(InTree(u))
    BY <2>1, <2>2, FS_Subset
  <2>7. \A m, k \in InTree(u) : u.price[m] = u.price[k] => m = k
    BY <2>1, <2>2, <2>4
  <2>8. ASSUME NEW l \in Lanes
        PROVE  Linked(u, l) = Linked(t, l) \ {x} /\ SortedLane(u, l)
    <3>1. CASE x \in Linked(t, l)
      <4>1. PICK b : /\ IsLast(t, l, t.price[x], b)
                     /\ \A m \in InTree(u) \union {Header} :
                          u.forward[m][l] = IF m = b THEN t.forward[x][l] ELSE t.forward[m][l]
        BY <2>1, <3>1
      <4>2. /\ u.ascending = t.ascending /\ InTree(u) = InTree(t) \ {x}
            /\ DOMAIN u.forward = InTree(u) \union {Header}
        BY <2>1
      <4> QED
        BY ONLY Sane(t), l \in Lanes, <2>4, <3>1, <4>1, <4>2, LaneWithoutNode
    <3>2. CASE x \notin Linked(t, l)
      <4>1. /\ InTree(u) \subseteq Nodes /\ Linked(t, l) \subseteq InTree(u)
            /\ InTree(u) \ InTree(t) = {} /\ InTree(t) \intersect InTree(u) = InTree(u)
            /\ Linked(t, l) = Linked(t, l) \ {x}
        BY <2>1, <2>2, <3>2, LaneFacts
      <4>2. \A m \in InTree(u) \union {Header} : u.forward[m][l] = t.forward[m][l]
        BY <2>1, <3>2
      <4> QED
        BY <2>1, <2>4, <4>1, <4>2, LaneUntouched
    <3> QED
      BY <3>1, <3>2
  <2>9. Linked(u, 0) = InTree(u)
    <3>1. 0 \in Lanes
      BY LaneAssumption DEF Lanes
    <3> QED
      BY <2>1, <2>2, <2>8, <3>1
  <2>10. ASSUME NEW l \in Lanes, l > 0
         PROVE  Linked(u, l) \subseteq Linked(u, l - 1)
    <3>1. l - 1 \in Lanes
      BY <2>10, LaneAssumption DEF Lanes
    <3>2. Linked(t, l) \subseteq Linked(t, l - 1)
      BY <2>10 DEF Sane, LanesNested
    <3> QED
      BY <2>8, <3>1, <3>2
  <2>11. ASSUME NEW l \in Lanes, l > u.maxLevel
         PROVE  Linked(u, l) = {}
    <3>1. CASE Linked(t, l) = {}
      BY <2>8, <3>1
    <3>2. CASE u.forward[Header][l] = None
      <4>1. After(u, l, Header) = {}
        BY <2>8, <3>2 DEF SortedLane, Lane
      <4> QED
        BY <4>1 DEF After, Precedes
    <3> QED
      BY <2>1, <2>11, <3>1, <3>2
  <2>12. Sane(u)
    BY <2>1, <2>5, <2>6, <2>7, <2>8, <2>9, <2>10, <2>11, SaneByLanes
  <2> QED
    BY <1>2, <2>1, <2>12 DEF u, x
<1> QED
  BY <1>1, <1>2

\* The tree that getContract makes.
LEMMA NewTreeIsSane ==
  ASSUME NEW ascending \in BOOLEAN
  PROVE  LET t == NewPriceTree(ascending) IN
         Sane(t) /\ t.ascending = ascending /\ InTree(t) = {}
<1> DEFINE t == NewPriceTree(ascending)
<1>1. /\ t = [maxLevel |-> 0, ascending |-> ascending, price |-> [n \in {} |-> 0],
              forward |-> [n \in {Header} |-> [l \in Lanes |-> None]]]
      /\ 0 \in Lanes
  BY LaneAssumption DEF NewPriceTree, Lanes
<1> HIDE DEF t
<1>2. /\ DOMAIN t = {"maxLevel", "ascending", "price", "forward"}
      /\ t.maxLevel = 0 /\ t.ascending = ascending
      /\ t.price = [n \in {} |-> 0] /\ t.forward = [n \in {Header} |-> [l \in Lanes |-> None]]
  BY <1>1
<1>3. InTree(t) = {} /\ \A l \in Lanes : t.forward[Header][l] = None
  BY <1>2 DEF InTree
<1>4. TreeTypeOK(t) /\ IsFiniteSet(InTree(t))
  BY <1>1, <1>2, <1>3, FS_EmptySet DEF TreeTypeOK
<1>5. \A l \in Lanes : Linked(t, l) = {} /\ SortedLane(t, l)
  BY <1>3 DEF Linked, SortedLane, Lane, After
<1>6. \A l \in Lanes : l > 0 => l - 1 \in Lanes
  BY LaneAssumption DEF Lanes
<1>7. Sane(t)
  BY <1>1, <1>2, <1>3, <1>4, <1>5, <1>6, SaneByLanes
<1> QED
  BY <1>2, <1>3, <1>7 DEF t

TreesInv ==
  /\ DOMAIN tree = Sides /\ tree = [s \in Sides |-> tree[s]]
  /\ \A s \in Sides : Sane(tree[s]) /\ tree[s].ascending = (s = "Sell")

\* A node that is not in the tree, for GetOrCreate.
LEMMA NewNodeIsFree ==
  ASSUME NEW t, InTree(t) \subseteq Nodes, InTree(t) # Nodes, NEW price
  PROVE  NewNode(t, price) \in Nodes /\ NewNode(t, price) \notin InTree(t)
BY DEF NewNode

LEMMA GetOrCreateTree ==
  ASSUME TreesInv, NEW s \in Sides, NEW p \in Prices, GetOrCreate(s, p)
  PROVE  \E n \in Nodes \ InTree(tree[s]) : \E u :
           /\ Found(tree[s], p) = None
           /\ Sane(u) /\ u.ascending = tree[s].ascending
           /\ u.price = [m \in InTree(tree[s]) \union {n} |->
                           IF m = n THEN p ELSE tree[s].price[m]]
           /\ tree' = [tree EXCEPT ![s] = u]
<1> DEFINE t == tree[s]
           n == NewNode(t, p)
           u == insert(t, n, p, randomLevel(rngOdd))
<1>1. Sane(t) /\ InTree(t) \subseteq Nodes
  BY DEF TreesInv, Sane, TreeTypeOK
<1>2. Found(t, p) = None /\ n \in Nodes /\ n \notin InTree(t) /\ tree' = [tree EXCEPT ![s] = u]
  BY <1>1, NewNodeIsFree DEF GetOrCreate
<1>3. randomLevel(rngOdd) \in Lanes
  BY LaneAssumption DEF randomLevel, Lanes
<1> HIDE DEF n
<1>4. /\ Sane(u) /\ u.ascending = t.ascending
      /\ u.price = [m \in InTree(t) \union {n} |-> IF m = n THEN p ELSE t.price[m]]
  BY <1>1, <1>2, <1>3, InsertKeepsSane
<1> HIDE DEF u, t
<1> QED
  BY <1>2, <1>4 DEF t

LEMMA RemoveTree ==
  ASSUME TreesInv, NEW s \in Sides, NEW p \in Prices, Remove(s, p)
  PROVE  \E u :
           /\ Sane(u) /\ u.ascending = tree[s].ascending
           /\ Found(tree[s], p) = None => u = tree[s]
           /\ Found(tree[s], p) # None =>
                u.price = [m \in InTree(tree[s]) \ {Found(tree[s], p)} |-> tree[s].price[m]]
           /\ tree' = [tree EXCEPT ![s] = u]
<1> DEFINE u == remove(tree[s], p)
<1>1. Sane(tree[s])
  BY DEF TreesInv
<1>2. /\ Sane(u) /\ u.ascending = tree[s].ascending
      /\ Found(tree[s], p) = None => u = tree[s]
      /\ Found(tree[s], p) # None =>
           u.price = [m \in InTree(tree[s]) \ {Found(tree[s], p)} |-> tree[s].price[m]]
  BY <1>1, RemoveKeepsSane
<1>3. tree' = [tree EXCEPT ![s] = u]
  BY DEF Remove
<1> HIDE DEF u
<1> QED
  BY <1>2, <1>3

LEMMA TreesAreSane == Spec => []TreesInv
<1>1. Init => TreesInv
  <2> SUFFICES ASSUME Init PROVE TreesInv
    OBVIOUS
  <2>1. tree = [s \in Sides |-> NewPriceTree(s = "Sell")]
    BY DEF Init
  <2>2. ASSUME NEW s \in Sides
        PROVE  Sane(tree[s]) /\ tree[s].ascending = (s = "Sell")
    <3>1. (s = "Sell") \in BOOLEAN /\ tree[s] = NewPriceTree(s = "Sell")
      BY <2>1
    <3> QED
      BY <3>1, NewTreeIsSane
  <2>3. DOMAIN tree = Sides /\ tree = [s \in Sides |-> tree[s]]
    BY <2>1
  <2> QED
    BY <2>2, <2>3 DEF TreesInv
<1>2. TreesInv /\ [Next]_contract => TreesInv'
  <2> SUFFICES ASSUME TreesInv, [Next]_contract PROVE TreesInv'
    OBVIOUS
  <2>1. ASSUME NEW s \in Sides, NEW u, Sane(u), u.ascending = tree[s].ascending,
               tree' = [tree EXCEPT ![s] = u]
        PROVE  TreesInv'
    <3>1. DOMAIN tree' = Sides /\ tree' = [r \in Sides |-> tree'[r]]
          /\ \A r \in Sides : tree'[r] = IF r = s THEN u ELSE tree[r]
      BY <2>1 DEF TreesInv
    <3>2. ASSUME NEW r \in Sides
          PROVE  Sane(tree'[r]) /\ tree'[r].ascending = (r = "Sell")
      BY <2>1, <3>1 DEF TreesInv
    <3> QED
      BY <3>1, <3>2 DEF TreesInv
  <2>2. ASSUME NEW s \in Sides, NEW p \in Prices, GetOrCreate(s, p)
        PROVE  TreesInv'
    BY <2>1, <2>2, GetOrCreateTree
  <2>3. ASSUME NEW s \in Sides, NEW p \in Prices, Remove(s, p)
        PROVE  TreesInv'
    BY <2>1, <2>3, RemoveTree
  <2>4. CASE UNCHANGED tree
    <3>1. DOMAIN tree' = Sides /\ tree' = [s \in Sides |-> tree'[s]]
      BY <2>4 DEF TreesInv
    <3>2. \A s \in Sides : Sane(tree'[s]) /\ tree'[s].ascending = (s = "Sell")
      BY <2>4 DEF TreesInv
    <3> QED
      BY <3>1, <3>2 DEF TreesInv
  <2>5. ASSUME NEW o \in Orders, Put(o) PROVE UNCHANGED tree
    BY <2>5 DEF Put
  <2>6. ASSUME NEW i \in Ids, Delete(i) PROVE UNCHANGED tree
    BY <2>6 DEF Delete
  <2>7. UNCHANGED contract => UNCHANGED tree
    BY DEF contract
  <2> QED
    BY <2>2, <2>3, <2>4, <2>5, <2>6, <2>7 DEF Next
<1> QED
  BY <1>1, <1>2, PTL DEF Spec

\* The contract keeps its types: in particular every link of a tree leads to a
\* node that is in it, and the height of a tree stays within its lanes.
THEOREM ContractTypes == Spec => []TypeOK
<1>1. Init => rngOdd \in BOOLEAN
  BY DEF Init
<1>2. rngOdd \in BOOLEAN /\ [Next]_contract => (rngOdd \in BOOLEAN)'
  BY DEF Next, contract, Put, Delete, GetOrCreate, Remove
<1>3. MapInv /\ TreesInv /\ rngOdd \in BOOLEAN => TypeOK
  BY DEF MapInv, TreesInv, Sane, TypeOK
<1> QED
  BY <1>1, <1>2, <1>3, MapInvariance, TreesAreSane, PTL DEF Spec

\* The lanes of the trees stay sorted and nested, and the lowest has every node
\* once: insert and remove relink just the right lanes, after any history, for
\* any prices and any height of the list.
THEOREM LanesStayNested == Spec => []TreesNested
<1>1. TreesInv => TreesNested
  BY DEF TreesInv, TreesNested, Sane
<1> QED
  BY <1>1, TreesAreSane, PTL

\* getBestBid and getBestAsk find the extreme price of the side.
THEOREM BestStaysExtreme == Spec => []BestIsExtreme
<1>1. TreesInv => BestIsExtreme
  <2> SUFFICES ASSUME TreesInv, NEW s \in Sides
               PROVE  LET t == tree[s] IN
                      IF Best(t) = None THEN InTree(t) = {}
                      ELSE \A n \in InTree(t) :
                             IF s = "Buy" THEN t.price[Best(t)] >= t.price[n]
                             ELSE t.price[Best(t)] <= t.price[n]
    BY DEF BestIsExtreme
  <2> DEFINE t == tree[s]
  <2>1. Sane(t) /\ t.ascending = (s = "Sell")
    BY DEF TreesInv
  <2> HIDE DEF t
  <2>2. 0 \in Lanes /\ Linked(t, 0) = InTree(t) /\ Header \in Lane(t, 0)
    BY <2>1, LaneAssumption DEF Sane, LanesNested, Lanes, Lane
  <2>3. After(t, 0, Header) = InTree(t)
    BY <2>2 DEF After, Precedes
  <2>4. IF Best(t) = None THEN InTree(t) = {}
        ELSE Best(t) \in InTree(t) /\ \A n \in InTree(t) \ {Best(t)} :
               comparePrice(t, t.price[Best(t)], t.price[n])
    BY <2>1, <2>2, <2>3, LaneFacts DEF Best
  <2>5. \A n \in InTree(t) : t.price[n] \in Int
    BY <2>1, <2>2, LaneFacts
  <2>6. ASSUME Best(t) # None, NEW n \in InTree(t)
        PROVE  IF s = "Buy" THEN t.price[Best(t)] >= t.price[n]
               ELSE t.price[Best(t)] <= t.price[n]
    <3>1. CASE n = Best(t)
      BY <2>5, <3>1
    <3>2. CASE n # Best(t)
      <4>1. comparePrice(t, t.price[Best(t)], t.price[n])
            /\ t.price[Best(t)] \in Int /\ t.price[n] \in Int
        BY <2>4, <2>5, <2>6, <3>2
      <4>2. (s = "Buy" => ~ t.ascending) /\ (s # "Buy" => t.ascending)
        BY <2>1 DEF Sides
      <4>3. CASE s = "Buy"
        BY <4>1, <4>2, <4>3 DEF comparePrice
      <4>4. CASE s # "Buy"
        BY <4>1, <4>2, <4>4 DEF comparePrice
      <4> QED
        BY <4>3, <4>4
    <3> QED
      BY <3>1, <3>2
  <2> QED
    BY <2>4, <2>6 DEF t
<1> QED
  BY <1>1, TreesAreSane, PTL
--------------------------------------------------------------------------------
(* The contract implements its index: what get and find answer. *)

\* Slot s is the one of id i.
At(i, s) ==
  s \in Slots /\ s < count[Bucket[i]] /\ orders[Bucket[i]][s].id = i

\* What get answers, by slots.
GetAnswers ==
  \A i \in Ids :
    /\ get(i) # Nil => get(i) \in Orders /\ get(i).id = i /\ \E s : At(i, s)
    /\ \A s : At(i, s) => get(i) = orders[Bucket[i]][s] /\ get(i) # Nil
    /\ Matches(i) = {} <=> get(i) = Nil

LEMMA GetIsRight == MapInv => GetAnswers
<1> SUFFICES ASSUME MapInv, NEW i \in Ids
             PROVE  /\ get(i) # Nil => get(i) \in Orders /\ get(i).id = i /\ \E s : At(i, s)
                    /\ \A s : At(i, s) => get(i) = orders[Bucket[i]][s] /\ get(i) # Nil
                    /\ Matches(i) = {} <=> get(i) = Nil
  BY DEF GetAnswers
<1>1. Bucket[i] \in Buckets /\ Nil \notin Orders
  BY BucketAssumption, NilAssumption
<1>2. \A s \in Slots : s < count[Bucket[i]] => orders[Bucket[i]][s] \in Orders
  BY <1>1 DEF MapInv, BucketsPacked
<1>3. \A s : At(i, s) <=> s \in Matches(i)
  BY <1>1, <1>2 DEF At, Matches
<1>4. \A s, r : At(i, s) /\ At(i, r) => s = r
  BY <1>1 DEF At, MapInv, BucketsPacked
<1> DEFINE m == Min(Matches(i))
<1>5. Matches(i) # {} => At(i, m)
  BY OneMatch DEF At
<1>6. get(i) = IF Matches(i) = {} THEN Nil ELSE orders[Bucket[i]][m]
  BY DEF get
<1> HIDE DEF m
<1>7. Matches(i) # {} => /\ orders[Bucket[i]][m] \in Orders /\ orders[Bucket[i]][m].id = i
                         /\ orders[Bucket[i]][m] # Nil
  BY <1>1, <1>2, <1>5 DEF At
<1>8. \A s : At(i, s) => s = m /\ Matches(i) # {}
  BY <1>3, <1>4, <1>5
<1> QED
  BY <1>5, <1>6, <1>7, <1>8

\* The count of a bucket is the number of ids it holds.
LEMMA CountIsHeld ==
  ASSUME MapInv, NEW b \in Buckets
  PROVE  Cardinality({j \in Ids : Bucket[j] = b /\ get(j) # Nil}) = count[b]
<1> DEFINE Held == {j \in Ids : Bucket[j] = b /\ get(j) # Nil}
           n == count[b]
           f == [k \in 1 .. n |-> orders[b][k - 1].id]
<1>1. GetAnswers
  BY GetIsRight
<1>2. n \in Nat /\ n <= BucketSize /\ BucketSize \in Nat
  BY BucketAssumption DEF MapInv, MapTypeOK
<1>3. \A k \in 1 .. n : k - 1 \in Slots /\ k - 1 < n
  BY <1>2 DEF Slots
<1>4. \A s \in Slots : s < n =>
        /\ orders[b][s] \in Orders /\ Bucket[orders[b][s].id] = b
        /\ \A r \in Slots : r < n /\ orders[b][r].id = orders[b][s].id => r = s
  BY DEF MapInv, BucketsPacked
<1>5. \A s \in Slots : s < n => s + 1 \in 1 .. n /\ (s + 1) - 1 = s
  BY <1>2 DEF Slots
<1>6. f \in [1 .. n -> Held]
  <2> SUFFICES ASSUME NEW k \in 1 .. n PROVE orders[b][k - 1].id \in Held
    OBVIOUS
  <2> DEFINE s == k - 1
  <2>1. s \in Slots /\ s < n
    BY <1>3
  <2> HIDE DEF s
  <2>2. orders[b][s].id \in Ids /\ Bucket[orders[b][s].id] = b
    BY <1>4, <2>1 DEF Orders
  <2>3. At(orders[b][s].id, s)
    BY <2>1, <2>2 DEF At
  <2>4. get(orders[b][s].id) # Nil
    BY <1>1, <2>2, <2>3 DEF GetAnswers
  <2> QED
    BY <2>2, <2>4 DEF s
<1>7. \A k, m \in 1 .. n : f[k] = f[m] => k = m
  <2> SUFFICES ASSUME NEW k \in 1 .. n, NEW m \in 1 .. n, f[k] = f[m] PROVE k = m
    OBVIOUS
  <2>1. k - 1 = m - 1
    BY <1>3, <1>4
  <2> QED
    BY <2>1
<1>8. \A j \in Held : \E k \in 1 .. n : f[k] = j
  <2> SUFFICES ASSUME NEW j \in Held PROVE \E k \in 1 .. n : f[k] = j
    OBVIOUS
  <2>1. PICK s : At(j, s)
    BY <1>1 DEF GetAnswers
  <2>2. s \in Slots /\ s < n /\ orders[b][s].id = j
    BY <2>1 DEF At
  <2>3. s + 1 \in 1 .. n /\ (s + 1) - 1 = s
    BY <1>5, <2>2
  <2>4. f[s + 1] = j
    BY <2>2, <2>3
  <2> QED
    BY <2>3, <2>4
<1> HIDE DEF f, Held
<1>9. DOMAIN f = 1 .. n
  BY <1>6
<1>10. f \in Bijection(1 .. n, Held)
  BY <1>6, <1>7, <1>8, <1>9 DEF Bijection, Injection, Surjection, IsInjective
<1>11. ExistsBijection(1 .. n, Held)
  BY <1>10 DEF ExistsBijection
<1>12. Cardinality(Held) = n
  BY <1>2, <1>11, FS_CountingElements
<1> QED
  BY <1>12 DEF Held

\* An id is found where it was, as long as each of its slots stays one.
LEMMA SameAnswer ==
  ASSUME GetAnswers, GetAnswers', NEW j \in Ids,
         \A s : At(j, s) => \E r : At(j, r)' /\ orders'[Bucket[j]][r] = orders[Bucket[j]][s],
         \A r : At(j, r)' => \E s : At(j, s)
  PROVE  get(j)' = get(j)
<1>1. CASE get(j) = Nil
  BY <1>1 DEF GetAnswers
<1>2. CASE get(j) # Nil
  <2>1. PICK s : At(j, s)
    BY <1>2 DEF GetAnswers
  <2>2. PICK r : At(j, r)' /\ orders'[Bucket[j]][r] = orders[Bucket[j]][s]
    BY <2>1
  <2> QED
    BY <2>1, <2>2 DEF GetAnswers
<1> QED
  BY <1>1, <1>2

\* What get answers after put.
LEMMA PutAnswers ==
  ASSUME MapInv, MapInv', NEW o \in Orders, put(o)
  PROVE  IF get(o.id) = Nil /\ count[Bucket[o.id]] >= BucketSize
         THEN \A j \in Ids : get(j)' = get(j)
         ELSE \A j \in Ids : get(j)' = IF j = o.id THEN o ELSE get(j)
<1> DEFINE b == Bucket[o.id]
           n == count[b]
<1>1. /\ GetAnswers /\ (GetAnswers)'
      /\ o.id \in Ids /\ b \in Buckets /\ BucketSize \in Nat
      /\ \A j \in Ids : Bucket[j] \in Buckets
  <2>1. GetAnswers /\ (GetAnswers)'
    BY GetIsRight, PTL
  <2> QED
    BY <2>1, BucketAssumption DEF Orders
<1>2. /\ orders \in [Buckets -> [Slots -> Orders \union {Nil}]]
      /\ count \in [Buckets -> 0 .. BucketSize] /\ n \in 0 .. BucketSize
  BY <1>1 DEF MapInv, MapTypeOK
<1>3. Matches(o.id) = {} <=> get(o.id) = Nil
  BY <1>1 DEF GetAnswers
<1>4. ASSUME NEW m \in Slots, orders' = [orders EXCEPT ![b][m] = o],
             m < n => orders[b][m].id = o.id,
             \A s \in Slots : s < count'[b] <=> s < n \/ s = m,
             \A c \in Buckets : c # b => count'[c] = count[c]
      PROVE  \A j \in Ids : get(j)' = IF j = o.id THEN o ELSE get(j)
  <2>1. \A c \in Buckets : \A s \in Slots :
          orders'[c][s] = IF c = b /\ s = m THEN o ELSE orders[c][s]
    BY <1>1, <1>2, <1>4
  <2>2. get(o.id)' = o
    <3>1. At(o.id, m)' /\ orders'[b][m] = o
      BY <1>1, <1>4, <2>1 DEF At
    <3> QED
      BY <1>1, <3>1 DEF GetAnswers
  <2>3. ASSUME NEW j \in Ids, j # o.id PROVE get(j)' = get(j)
    <3>1. ASSUME NEW s, At(j, s) PROVE At(j, s)' /\ orders'[Bucket[j]][s] = orders[Bucket[j]][s]
      BY <1>1, <1>4, <2>1, <2>3, <3>1 DEF At
    <3>2. ASSUME NEW s, At(j, s)' PROVE At(j, s)
      BY <1>1, <1>4, <2>1, <2>3, <3>2 DEF At
    <3> QED
      BY <1>1, <3>1, <3>2, SameAnswer
  <2> QED
    BY <2>2, <2>3
<1>5. CASE PutExisting(o)
  <2> DEFINE m == Min(Matches(o.id))
  <2>1. m \in Slots /\ m < n /\ orders[b][m].id = o.id
    BY <1>1, <1>5, OneMatch DEF PutExisting
  <2>2. orders' = [orders EXCEPT ![b][m] = o] /\ count' = count
    BY <1>5 DEF PutExisting
  <2> HIDE DEF m
  <2>3. \A j \in Ids : get(j)' = IF j = o.id THEN o ELSE get(j)
    BY <1>4, <2>1, <2>2
  <2> QED
    BY <1>3, <1>5, <2>3 DEF PutExisting
<1>6. CASE PutNew(o)
  <2>1. n < BucketSize /\ ~ (n >= BucketSize) /\ n \in Slots /\ ~ (n < n)
    BY <1>1, <1>2, <1>6 DEF PutNew, Slots
  <2>2. /\ orders' = [orders EXCEPT ![b][n] = o]
        /\ count' = [count EXCEPT ![b] = n + 1]
    BY <1>6 DEF PutNew
  <2>3. \A s \in Slots : s < n + 1 <=> s < n \/ s = n
    BY <1>2 DEF Slots
  <2>4. /\ count'[b] = n + 1
        /\ \A c \in Buckets : c # b => count'[c] = count[c]
    BY <1>1, <1>2, <2>2
  <2>5. \A j \in Ids : get(j)' = IF j = o.id THEN o ELSE get(j)
    <3>1. /\ n \in Slots /\ orders' = [orders EXCEPT ![b][n] = o]
          /\ n < n => orders[b][n].id = o.id
          /\ \A s \in Slots : s < count'[b] <=> s < n \/ s = n
          /\ \A c \in Buckets : c # b => count'[c] = count[c]
      BY <2>1, <2>2, <2>3, <2>4
    <3> HIDE DEF n, b
    <3> QED
      BY ONLY <1>4, <3>1
  <2> QED
    BY <2>1, <2>5
<1>7. CASE PutRefused(o)
  <2>1. get(o.id) = Nil /\ n >= BucketSize
    BY <1>1, <1>3, <1>7 DEF PutRefused
  <2>2. orders' = orders /\ count' = count
    BY <1>7 DEF PutRefused, map
  <2>3. \A j \in Ids : get(j)' = get(j)
    BY <2>2 DEF get, Matches
  <2> QED
    BY <2>1, <2>3
<1> QED
  BY <1>5, <1>6, <1>7 DEF put

\* What get answers after delete.
LEMMA DeleteAnswers ==
  ASSUME MapInv, MapInv', NEW i \in Ids, delete(i)
  PROVE  \A j \in Ids : get(j)' = IF j = i THEN Nil ELSE get(j)
<1> DEFINE b == Bucket[i]
           n == count[b]
           m == Min(Matches(i))
<1>1. /\ GetAnswers /\ (GetAnswers)'
      /\ b \in Buckets /\ BucketSize \in Nat
      /\ \A j \in Ids : Bucket[j] \in Buckets
  <2>1. GetAnswers /\ (GetAnswers)'
    BY GetIsRight, PTL
  <2> QED
    BY <2>1, BucketAssumption
<1>2. /\ orders \in [Buckets -> [Slots -> Orders \union {Nil}]]
      /\ count \in [Buckets -> 0 .. BucketSize] /\ n \in 0 .. BucketSize
  BY <1>1 DEF MapInv, MapTypeOK
<1>3. CASE Matches(i) = {}
  <2>1. orders' = orders /\ count' = count
    BY <1>3 DEF delete, map
  <2>2. \A j \in Ids : get(j)' = get(j)
    BY <2>1 DEF get, Matches
  <2> QED
    BY <1>1, <1>3, <2>2 DEF GetAnswers
<1>4. CASE Matches(i) # {}
  <2>1. m \in Slots /\ m < n /\ orders[b][m].id = i
    BY <1>4, OneMatch
  <2>2. /\ orders' = [orders EXCEPT ![b] = Shift(orders[b], m, n)]
        /\ count' = [count EXCEPT ![b] = n - 1]
    BY <1>4 DEF delete
  <2> HIDE DEF m
  <2>3. /\ \A s \in Slots : orders'[b][s] = IF s < m \/ s >= n THEN orders[b][s]
                                            ELSE IF s < n - 1 THEN orders[b][s + 1] ELSE Nil
        /\ \A c \in Buckets : c # b => orders'[c] = orders[c] /\ count'[c] = count[c]
        /\ count'[b] = n - 1
    BY <1>1, <1>2, <2>2 DEF Shift
  <2>4. /\ \A s \in Slots : s \in Nat
        /\ \A s \in Slots : s < n - 1 => s < n /\ s + 1 \in Slots /\ s + 1 < n
        /\ \A s \in Slots : s > m /\ s < n => /\ s - 1 \in Slots /\ s - 1 < n - 1
                                              /\ ~ (s - 1 < m) /\ (s - 1) + 1 = s
        /\ \A s \in Slots : s < m => s < n - 1
    BY <1>1, <1>2, <2>1 DEF Slots
  <2>5. \A s, r \in Slots : s < n /\ r < n /\ orders[b][s].id = orders[b][r].id => s = r
    BY <1>1 DEF MapInv, BucketsPacked
  <2> HIDE DEF n
  \* The order in slot s of the new array.
  <2>6. ASSUME NEW s \in Slots, s < n - 1
        PROVE  \E r \in Slots : r < n /\ r # m /\ orders'[b][s] = orders[b][r]
    <3>1. n \in Nat /\ m \in Nat /\ s \in Nat
      BY <1>2, <2>1, <2>4
    <3>2. CASE s < m
      BY <2>3, <2>4, <2>6, <3>1, <3>2
    <3>3. CASE ~ (s < m)
      <4>1. ~ (s >= n) /\ s + 1 # m
        BY <2>6, <3>1, <3>3
      <4>2. orders'[b][s] = orders[b][s + 1]
        BY <2>3, <2>6, <3>3, <4>1
      <4> QED
        BY <2>4, <2>6, <4>1, <4>2
    <3> QED
      BY <3>2, <3>3
  \* Where the order of slot s goes.
  <2>7. ASSUME NEW s \in Slots, s < n, s # m
        PROVE  \E r \in Slots : r < n - 1 /\ orders'[b][r] = orders[b][s]
    <3>1. n \in Nat /\ m \in Nat /\ s \in Nat
      BY <1>2, <2>1, <2>4
    <3>2. CASE s < m
      BY <2>3, <2>4, <3>2
    <3>3. CASE ~ (s < m)
      <4>1. s > m
        BY <2>7, <3>1, <3>3
      <4>2. s - 1 \in Slots /\ s - 1 < n - 1 /\ ~ (s - 1 < m) /\ (s - 1) + 1 = s
        BY <2>4, <2>7, <4>1
      <4>3. ~ (s - 1 >= n)
        BY <3>1, <4>2
      <4>4. orders'[b][s - 1] = orders[b][s]
        BY <2>3, <4>2, <4>3
      <4> QED
        BY <4>2, <4>4
    <3> QED
      BY <3>2, <3>3
  <2>8. get(i)' = Nil
    <3> SUFFICES ASSUME NEW s, At(i, s)' PROVE FALSE
      BY <1>1 DEF GetAnswers
    <3>1. s \in Slots /\ s < n - 1 /\ orders'[b][s].id = i
      BY <2>3 DEF At
    <3>2. PICK r \in Slots : r < n /\ r # m /\ orders'[b][s] = orders[b][r]
      BY <2>6, <3>1
    <3> QED
      BY <2>1, <2>5, <3>1, <3>2
  <2>9. ASSUME NEW j \in Ids, j # i PROVE get(j)' = get(j)
    <3>1. CASE Bucket[j] # b
      BY <1>1, <2>3, <3>1 DEF get, Matches
    <3>2. CASE Bucket[j] = b
      <4>1. ASSUME NEW s, At(j, s)
            PROVE  \E r : At(j, r)' /\ orders'[Bucket[j]][r] = orders[Bucket[j]][s]
        <5>1. s \in Slots /\ s < n /\ orders[b][s].id = j /\ s # m
          BY <2>1, <2>9, <3>2, <4>1 DEF At, n
        <5>2. PICK r \in Slots : r < n - 1 /\ orders'[b][r] = orders[b][s]
          BY <2>7, <5>1
        <5>3. At(j, r)'
          BY <2>3, <3>2, <5>1, <5>2 DEF At
        <5> QED
          BY <3>2, <5>2, <5>3
      <4>2. ASSUME NEW s, At(j, s)' PROVE \E r : At(j, r)
        <5>1. s \in Slots /\ s < n - 1 /\ orders'[b][s].id = j
          BY <2>3, <3>2, <4>2 DEF At
        <5>2. PICK r \in Slots : r < n /\ r # m /\ orders'[b][s] = orders[b][r]
          BY <2>6, <5>1
        <5>3. At(j, r)
          BY <3>2, <5>1, <5>2 DEF At, n
        <5> QED
          BY <5>3
      <4> QED
        BY <1>1, <4>1, <4>2, SameAnswer
    <3> QED
      BY <3>1, <3>2
  <2> QED
    BY <2>8, <2>9
<1> QED
  BY <1>3, <1>4

\* What find answers when a tree has a node more, or one less.
LEMMA FoundAfterInsert ==
  ASSUME NEW t, Sane(t), NEW u, Sane(u), NEW n \in Nodes, n \notin InTree(t),
         NEW p \in Prices, Found(t, p) = None,
         u.price = [m \in InTree(t) \union {n} |-> IF m = n THEN p ELSE t.price[m]]
  PROVE  \A q \in Prices : /\ Found(t, q) # n
                           /\ Found(u, q) = IF q = p THEN n ELSE Found(t, q)
<1> SUFFICES ASSUME NEW q \in Prices
             PROVE  Found(t, q) # n /\ Found(u, q) = IF q = p THEN n ELSE Found(t, q)
  OBVIOUS
<1>1. /\ InTree(u) = InTree(t) \union {n} /\ u.price[n] = p /\ n # None
      /\ \A m \in InTree(t) : u.price[m] = t.price[m] /\ m # None
      /\ q \in Int /\ p \in Int
  <2>1. InTree(u) = InTree(t) \union {n}
    BY DEF InTree
  <2> QED
    BY <2>1, NodeAssumption, PriceAssumption DEF Sane, TreeTypeOK
<1>2. /\ Found(t, q) \in InTree(t) \union {None}
      /\ Found(t, q) # None => t.price[Found(t, q)] = q
      /\ \A m \in InTree(t) : t.price[m] = q => Found(t, q) = m
  BY <1>1, FoundIsTheNode
<1>3. /\ Found(u, q) \in InTree(u) \union {None}
      /\ Found(u, q) # None => u.price[Found(u, q)] = q
      /\ \A m \in InTree(u) : u.price[m] = q => Found(u, q) = m
  BY <1>1, FoundIsTheNode
<1> QED
  BY <1>1, <1>2, <1>3

LEMMA FoundAfterRemove ==
  ASSUME NEW t, Sane(t), NEW u, Sane(u), NEW p \in Prices,
         Found(t, p) = None => u = t,
         Found(t, p) # None => u.price = [m \in InTree(t) \ {Found(t, p)} |-> t.price[m]]
  PROVE  \A q \in Prices : Found(u, q) = IF q = p THEN None ELSE Found(t, q)
<1>1. CASE Found(t, p) = None
  BY <1>1
<1>2. CASE Found(t, p) # None
  <2> DEFINE x == Found(t, p)
  <2> SUFFICES ASSUME NEW q \in Prices
               PROVE  Found(u, q) = IF q = p THEN None ELSE Found(t, q)
    OBVIOUS
  <2>1. /\ InTree(u) = InTree(t) \ {x} /\ \A m \in InTree(u) : u.price[m] = t.price[m]
        /\ \A m \in InTree(t) : m # None
        /\ q \in Int /\ p \in Int
    <3>1. InTree(u) = InTree(t) \ {x}
      BY <1>2 DEF InTree
    <3> QED
      BY <1>2, <3>1, NodeAssumption, PriceAssumption DEF Sane, TreeTypeOK
  <2>2. /\ Found(t, q) \in InTree(t) \union {None}
        /\ Found(t, q) # None => t.price[Found(t, q)] = q
        /\ \A m \in InTree(t) : t.price[m] = q => Found(t, q) = m
    BY <2>1, FoundIsTheNode
  <2>3. /\ Found(u, q) \in InTree(u) \union {None}
        /\ Found(u, q) # None => u.price[Found(u, q)] = q
        /\ \A m \in InTree(u) : u.price[m] = q => Found(u, q) = m
    BY <2>1, FoundIsTheNode
  <2>4. x \in InTree(t) /\ t.price[x] = p /\ \A m \in InTree(t) : t.price[m] = p => m = x
    BY <1>2, <2>1, FoundIsTheNode
  <2> HIDE DEF x
  <2> QED
    BY <2>1, <2>2, <2>3, <2>4
<1> QED
  BY <1>1, <1>2

\* The level functions of ContractIndex.
Level == [s \in Sides |-> [p \in Prices |-> Found(tree[s], p)]]
Order == [i \in Ids |-> get(i)]

LEMMA InitIsIndexed == Init => Index!Init
<1> SUFFICES ASSUME Init PROVE Index!Init
  OBVIOUS
<1>1. ASSUME NEW i \in Ids PROVE get(i) = Nil
  <2>1. \A s \in Slots : ~ (s < count[Bucket[i]])
    BY BucketAssumption DEF Init, MapInit, Slots
  <2> QED
    BY <2>1 DEF get, Matches
<1>2. ASSUME NEW s \in Sides, NEW p \in Prices PROVE Found(tree[s], p) = None
  <2>1. tree[s] = NewPriceTree(s = "Sell") /\ (s = "Sell") \in BOOLEAN
    BY DEF Init
  <2>2. Sane(tree[s]) /\ InTree(tree[s]) = {} /\ p \in Int
    BY <2>1, NewTreeIsSane, PriceAssumption
  <2> QED
    BY <2>2, FoundIsTheNode
<1> QED
  BY <1>1, <1>2 DEF Index!Init

LEMMA StepIsIndexed ==
  ASSUME MapInv, MapInv', TreesInv, TreesInv', [Next]_contract
  PROVE  [Index!Next]_(Index!index)
<1>1. ASSUME NEW o \in Orders, Put(o)
      PROVE  Index!Next
  <2>1. o.id \in Ids /\ Bucket[o.id] \in Buckets /\ BucketSize \in Nat
    BY BucketAssumption DEF Orders
  <2>2. put(o) /\ tree' = tree
    BY <1>1 DEF Put
  <2>3. Index!BucketFull(o.id) <=> count[Bucket[o.id]] >= BucketSize
    <3>1. {j \in Ids : Bucket[j] = Bucket[o.id] /\ [i \in Ids |-> get(i)][j] # Nil}
          = {j \in Ids : Bucket[j] = Bucket[o.id] /\ get(j) # Nil}
      OBVIOUS
    <3>2. Cardinality({j \in Ids : Bucket[j] = Bucket[o.id] /\ get(j) # Nil})
          = count[Bucket[o.id]]
      BY <2>1, CountIsHeld
    <3>3. Index!BucketFull(o.id) <=>
            Cardinality({j \in Ids : Bucket[j] = Bucket[o.id] /\ [i \in Ids |-> get(i)][j] # Nil})
            >= BucketSize
      <4>1. \A S : Index!Cardinality(S) = Cardinality(S)
        BY DEF Index!Cardinality, Cardinality
      <4> QED
        BY <4>1 DEF Index!BucketFull
    <3> QED
      BY ONLY <3>1, <3>2, <3>3
  <2>4. IF get(o.id) = Nil /\ count[Bucket[o.id]] >= BucketSize
        THEN \A j \in Ids : get(j)' = get(j)
        ELSE \A j \in Ids : get(j)' = IF j = o.id THEN o ELSE get(j)
    BY <2>2, PutAnswers
  <2>5. Order' = IF Order[o.id] = Nil /\ Index!BucketFull(o.id) THEN Order
                 ELSE [Order EXCEPT ![o.id] = o]
    BY <2>1, <2>3, <2>4 DEF Order
  <2>6. Level' = Level
    BY <2>2 DEF Level
  <2>7. Index!Put(o)
    BY <2>5, <2>6 DEF Index!Put, Order, Level
  <2> QED
    BY <2>7 DEF Index!Next
<1>2. ASSUME NEW i \in Ids, Delete(i)
      PROVE  Index!Next
  <2>1. delete(i) /\ tree' = tree
    BY <1>2 DEF Delete
  <2>2. \A j \in Ids : get(j)' = IF j = i THEN Nil ELSE get(j)
    BY <2>1, DeleteAnswers
  <2>3. Order' = [Order EXCEPT ![i] = Nil]
    BY <2>2 DEF Order
  <2>4. Level' = Level
    BY <2>1 DEF Level
  <2>5. Index!Delete(i)
    BY <2>3, <2>4 DEF Index!Delete, Order, Level
  <2> QED
    BY <2>5 DEF Index!Next
<1>3. UNCHANGED map => Order' = Order
  BY DEF Order, get, Matches, map
<1>4. ASSUME NEW s \in Sides, NEW u, tree' = [tree EXCEPT ![s] = u]
      PROVE  Level' = [Level EXCEPT ![s] = [q \in Prices |-> Found(u, q)]]
  <2> DEFINE row(t) == [q \in Prices |-> Found(t, q)]
  <2>1. \A r \in Sides : tree'[r] = IF r = s THEN u ELSE tree[r]
    BY <1>4 DEF TreesInv
  <2>2. Level' = [r \in Sides |-> row(tree'[r])] /\ Level = [r \in Sides |-> row(tree[r])]
    BY DEF Level
  <2> HIDE DEF row
  <2>3. \A r \in Sides : row(tree'[r]) = IF r = s THEN row(u) ELSE row(tree[r])
    BY <2>1
  <2>4. Level' = [Level EXCEPT ![s] = row(u)]
    BY ONLY <2>2, <2>3
  <2> QED
    BY <2>4 DEF row
<1>5. ASSUME NEW s \in Sides, NEW p \in Prices, GetOrCreate(s, p)
      PROVE  Index!Next
  <2>0. PICK n \in Nodes \ InTree(tree[s]) : \E u :
          /\ Found(tree[s], p) = None
          /\ Sane(u) /\ u.ascending = tree[s].ascending
          /\ u.price = [m \in InTree(tree[s]) \union {n} |->
                          IF m = n THEN p ELSE tree[s].price[m]]
          /\ tree' = [tree EXCEPT ![s] = u]
    BY <1>5, GetOrCreateTree
  <2>1. PICK u :
          /\ Found(tree[s], p) = None
          /\ Sane(u) /\ u.ascending = tree[s].ascending
          /\ u.price = [m \in InTree(tree[s]) \union {n} |->
                          IF m = n THEN p ELSE tree[s].price[m]]
          /\ tree' = [tree EXCEPT ![s] = u]
    BY <2>0
  <2>2. Sane(tree[s])
    BY DEF TreesInv
  <2>3. \A q \in Prices : /\ Found(tree[s], q) # n
                          /\ Found(u, q) = IF q = p THEN n ELSE Found(tree[s], q)
    BY <2>1, <2>2, FoundAfterInsert
  <2>4. Level' = [Level EXCEPT ![s][p] = n]
    <3>1. [q \in Prices |-> Found(u, q)] = [Level[s] EXCEPT ![p] = n]
      BY <2>3 DEF Level
    <3>2. Level' = [Level EXCEPT ![s] = [q \in Prices |-> Found(u, q)]]
      BY <1>4, <2>1
    <3> QED
      BY ONLY <3>1, <3>2
  <2>5. Order' = Order
    BY <1>3, <1>5 DEF GetOrCreate
  <2>6. Level[s][p] = None /\ \A q \in Prices : Level[s][q] # n
    BY <2>1, <2>3 DEF Level
  <2>7. Index!Create(s, p)
    BY <2>4, <2>5, <2>6 DEF Index!Create, Order, Level
  <2> QED
    BY <2>7 DEF Index!Next
<1>6. ASSUME NEW s \in Sides, NEW p \in Prices, Remove(s, p)
      PROVE  Index!Next
  <2>1. PICK u :
          /\ Sane(u) /\ u.ascending = tree[s].ascending
          /\ Found(tree[s], p) = None => u = tree[s]
          /\ Found(tree[s], p) # None =>
               u.price = [m \in InTree(tree[s]) \ {Found(tree[s], p)} |-> tree[s].price[m]]
          /\ tree' = [tree EXCEPT ![s] = u]
    BY <1>6, RemoveTree
  <2>2. Sane(tree[s])
    BY DEF TreesInv
  <2>3. \A q \in Prices : Found(u, q) = IF q = p THEN None ELSE Found(tree[s], q)
    BY <2>1, <2>2, FoundAfterRemove
  <2>4. Level' = [Level EXCEPT ![s][p] = None]
    <3>1. [q \in Prices |-> Found(u, q)] = [Level[s] EXCEPT ![p] = None]
      BY <2>3 DEF Level
    <3>2. Level' = [Level EXCEPT ![s] = [q \in Prices |-> Found(u, q)]]
      BY <1>4, <2>1
    <3> QED
      BY ONLY <3>1, <3>2
  <2>5. Order' = Order
    BY <1>3, <1>6 DEF Remove
  <2>6. Index!Remove(s, p)
    BY <2>4, <2>5 DEF Index!Remove, Order, Level
  <2> QED
    BY <2>6 DEF Index!Next
<1>7. CASE UNCHANGED contract
  <2>1. Order' = Order /\ Level' = Level
    BY <1>3, <1>7 DEF contract, Level
  <2> QED
    BY <2>1 DEF Index!index, Order, Level
<1> QED
  BY <1>1, <1>2, <1>5, <1>6, <1>7 DEF Next

\* The searches of the map and of the trees, through buckets and lanes, never
\* miss and never find another: the contract is a map from id to order, limited
\* by the room in the bucket of an id, and one level for each price of a side.
\* OrderBook's model of its map and levels rests on this.
THEOREM IndexRefined == Spec => ImplementsIndex
<1>1. MapInv /\ MapInv' /\ TreesInv /\ TreesInv' /\ [Next]_contract
      => [Index!Next]_(Index!index)
  BY StepIsIndexed
<1> QED
  BY <1>1, InitIsIndexed, MapInvariance, TreesAreSane, PTL
     DEF Spec, ImplementsIndex, Index!Spec
================================================================================
