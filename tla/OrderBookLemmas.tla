---------------------------- MODULE OrderBookLemmas ----------------------------
(***************************************************************************)
(* What the operators of OrderBook do to a book: which orders and fields   *)
(* change, that the lists stay doubly linked, counted and summed up, and   *)
(* which sequences of orders they show.                                    *)
(***************************************************************************)
EXTENDS OrderBook, Induction, SequenceTheorems

Refs == Ptrs \union {Nil}

\* TypeOK, but for the sign of a count.
LevelRecordsLoose == [total : Int, count : Int, first : Refs, last : Refs]
Books == [order : [Ptrs -> OrderRecords], used : SUBSET Ptrs,
          byId : [Tokens -> [Ids -> Refs]], tree : SUBSET Levels,
          level : [Levels -> LevelRecordsLoose], contracts : SUBSET Tokens]

SameOrder(r, s) ==
  /\ r.id = s.id /\ r.token = s.token /\ r.side = s.side
  /\ r.price = s.price /\ r.qty = s.qty /\ r.level = s.level

\* From b to c only order o changes, links aside.
OnlyChanges(b, c, o) == \A p \in Ptrs \ {o} : SameOrder(b.order[p], c.order[p])
--------------------------------------------------------------------------------
\* AddOrderToLevel keeps the types.
LEMMA AddOrderRecords ==
  ASSUME NEW b \in Books, NEW k \in Levels, NEW o \in Ptrs
  PROVE  AddOrderToLevel(b, k, o) \in Books
<1> DEFINE c == AddOrderToLevel(b, k, o)
           last == b.level[k].last
           order == [p \in Ptrs |->
                       IF p = o
                       THEN [b.order[p] EXCEPT !.level = k, !.next = Nil, !.prev = last]
                       ELSE IF p = last THEN [b.order[p] EXCEPT !.next = o]
                       ELSE b.order[p]]
           level == [b.level EXCEPT ![k] =
                       [first |-> IF last = Nil THEN o ELSE b.level[k].first,
                        last |-> o,
                        count |-> b.level[k].count + 1,
                        total |-> b.level[k].total + b.order[o].qty]]
<1>1. c = [b EXCEPT !.order = order, !.level = level]
  BY DEF AddOrderToLevel, Books
<1>2. ASSUME NEW p \in Ptrs PROVE order[p] \in OrderRecords
  <2>1. last \in Refs /\ b.order[p] \in OrderRecords
    BY DEF Books, LevelRecordsLoose
  <2> QED
    BY <2>1 DEF OrderRecords, Refs
<1>3. level \in [Levels -> LevelRecordsLoose]
  BY DEF Books, LevelRecordsLoose, Refs, OrderRecords
<1> QED
  BY <1>1, <1>2, <1>3 DEF Books

\* AddOrderToLevel puts o on k; no other order moves.
LEMMA AddOrderEffect ==
  ASSUME NEW b \in Books, NEW k \in Levels, NEW o \in Ptrs,
         NEW c, c = AddOrderToLevel(b, k, o)
  PROVE  /\ c \in Books /\ c.used = b.used /\ c.byId = b.byId /\ c.tree = b.tree
         /\ OnlyChanges(b, c, o)
         /\ SameOrder(c.order[o], [b.order[o] EXCEPT !.level = k])
<1>1. c \in Books
  BY AddOrderRecords
<1>2. c.used = b.used /\ c.byId = b.byId /\ c.tree = b.tree
  BY DEF AddOrderToLevel, Books
<1> DEFINE last == b.level[k].last
<1>3. \A p \in Ptrs :
        c.order[p] = IF p = o
                     THEN [b.order[p] EXCEPT !.level = k, !.next = Nil, !.prev = last]
                     ELSE IF p = last THEN [b.order[p] EXCEPT !.next = o] ELSE b.order[p]
  BY DEF AddOrderToLevel, Books
<1> HIDE DEF last
<1>4. \A p \in Ptrs : b.order[p] \in OrderRecords
  BY DEF Books
<1>5. OnlyChanges(b, c, o)
  <2> SUFFICES ASSUME NEW p \in Ptrs \ {o}
               PROVE  SameOrder(b.order[p], c.order[p])
    BY DEF OnlyChanges
  <2>1. CASE p = last
    <3>1. c.order[p] = [b.order[p] EXCEPT !.next = o]
      BY <1>3, <2>1
    <3> QED
      BY <1>4, <3>1 DEF SameOrder, OrderRecords
  <2>2. CASE p # last
    <3>1. c.order[p] = b.order[p]
      BY <1>3, <2>2
    <3> QED
      BY <3>1 DEF SameOrder
  <2> QED
    BY <2>1, <2>2
<1>6. SameOrder(c.order[o], [b.order[o] EXCEPT !.level = k])
  <2>1. c.order[o] = [b.order[o] EXCEPT !.level = k, !.next = Nil, !.prev = last]
    BY <1>3
  <2> QED
    BY <1>4, <2>1 DEF SameOrder, OrderRecords
<1> QED
  BY <1>1, <1>2, <1>5, <1>6

\* RemoveOrderFromLevel keeps the types.
LEMMA RemoveOrderRecords ==
  ASSUME NEW b \in Books, NEW o \in Ptrs
  PROVE  RemoveOrderFromLevel(b, o) \in Books
<1> DEFINE c == RemoveOrderFromLevel(b, o)
           k == b.order[o].level
           prev == b.order[o].prev
           next == b.order[o].next
           order == [p \in Ptrs |->
                  IF p = o
                  THEN [b.order[p] EXCEPT !.level = Nil, !.next = Nil, !.prev = Nil]
                  ELSE [b.order[p] EXCEPT !.next = IF p = prev THEN next ELSE @,
                                    !.prev = IF p = next THEN prev ELSE @]]
           level == [b.level EXCEPT ![k] =
                       [first |-> IF prev = Nil THEN next ELSE b.level[k].first,
                        last |-> IF next = Nil THEN prev ELSE b.level[k].last,
                        count |-> b.level[k].count - 1,
                        total |-> b.level[k].total - b.order[o].qty]]
<1> SUFFICES ASSUME k # Nil PROVE c \in Books
  BY DEF RemoveOrderFromLevel
<1>1. c = [b EXCEPT !.order = order, !.level = level]
  BY DEF RemoveOrderFromLevel, Books
<1>2. k \in Levels /\ prev \in Refs /\ next \in Refs
  BY DEF Books, OrderRecords, Refs
<1>3. ASSUME NEW p \in Ptrs PROVE order[p] \in OrderRecords
  <2>1. b.order[p] \in OrderRecords
    BY DEF Books
  <2>2. CASE p = o
    BY <2>1, <2>2 DEF OrderRecords
  <2>3. CASE p # o
    <3> DEFINE newNext == IF p = prev THEN next ELSE b.order[p].next
               newPrev == IF p = next THEN prev ELSE b.order[p].prev
    <3>1. newNext \in Refs /\ newPrev \in Refs
      BY <1>2, <2>1 DEF OrderRecords, Refs
    <3>2. order[p] = [b.order[p] EXCEPT !.next = newNext, !.prev = newPrev]
      BY <2>3
    <3> HIDE DEF newNext, newPrev, order
    <3> QED
      BY <2>1, <3>1, <3>2 DEF OrderRecords, Refs
  <2> QED
    BY <2>2, <2>3
<1>4. level \in [Levels -> LevelRecordsLoose]
  BY <1>2 DEF Books, LevelRecordsLoose, Refs, OrderRecords
<1> QED
  BY <1>1, <1>3, <1>4 DEF Books

\* RemoveOrderFromLevel takes o off its level; no other order moves.
LEMMA RemoveOrderEffect ==
  ASSUME NEW b \in Books, NEW o \in Ptrs, NEW c, c = RemoveOrderFromLevel(b, o)
  PROVE  /\ c \in Books /\ c.used = b.used /\ c.byId = b.byId /\ c.tree = b.tree
         /\ OnlyChanges(b, c, o)
         /\ SameOrder(c.order[o], [b.order[o] EXCEPT !.level = Nil])
<1>1. c \in Books
  BY RemoveOrderRecords
<1>2. c.used = b.used /\ c.byId = b.byId /\ c.tree = b.tree
  BY DEF RemoveOrderFromLevel, Books
<1>3. OnlyChanges(b, c, o)
  BY DEF RemoveOrderFromLevel, Books, OrderRecords, OnlyChanges, SameOrder
<1>4. SameOrder(c.order[o], [b.order[o] EXCEPT !.level = Nil])
  BY DEF RemoveOrderFromLevel, Books, OrderRecords, SameOrder
<1> QED
  BY <1>1, <1>2, <1>3, <1>4
--------------------------------------------------------------------------------
(* The lists. *)

At(b, k) == {o \in Ptrs : b.order[o].level = k}
Counted(b) == \A k \in Levels : b.level[k].count = Cardinality(At(b, k))

\* LinksAgree, in parts.
FreeUnlinked(b) ==
  \A o \in Ptrs : b.order[o].level = Nil => b.order[o].prev = Nil /\ b.order[o].next = Nil
PrevLinked(b) ==
  \A o \in Ptrs : b.order[o].level # Nil =>
    IF b.order[o].prev = Nil THEN b.level[b.order[o].level].first = o
    ELSE /\ b.order[b.order[o].prev].next = o
         /\ b.order[b.order[o].prev].level = b.order[o].level
NextLinked(b) ==
  \A o \in Ptrs : b.order[o].level # Nil =>
    IF b.order[o].next = Nil THEN b.level[b.order[o].level].last = o
    ELSE /\ b.order[b.order[o].next].prev = o
         /\ b.order[b.order[o].next].level = b.order[o].level
EndsLinked(b) ==
  \A k \in Levels :
    /\ b.level[k].first = Nil <=> b.level[k].last = Nil
    /\ b.level[k].first # Nil => /\ b.order[b.level[k].first].level = k
                                 /\ b.order[b.level[k].first].prev = Nil
    /\ b.level[k].last # Nil => /\ b.order[b.level[k].last].level = k
                                /\ b.order[b.level[k].last].next = Nil
Linked(b) == FreeUnlinked(b) /\ PrevLinked(b) /\ NextLinked(b) /\ EndsLinked(b)

\* The lists are linked and counted.
Chained(b) == Linked(b) /\ Counted(b)

\* b and c have the same links.
SameLinks(b, c) ==
  /\ \A o \in Ptrs : /\ c.order[o].prev = b.order[o].prev
                     /\ c.order[o].next = b.order[o].next
                     /\ c.order[o].level = b.order[o].level
  /\ \A k \in Levels : /\ c.level[k].first = b.level[k].first
                       /\ c.level[k].last = b.level[k].last
                       /\ c.level[k].count = b.level[k].count

\* Chained is about links, levels and counts only.
LEMMA SameLinksChained ==
  ASSUME NEW b \in Books, NEW c \in Books, SameLinks(b, c), Chained(b)
  PROVE  Chained(c)
<1>1. \A o \in Ptrs : /\ b.order[o].level \in Levels \union {Nil}
                      /\ b.order[o].prev \in Ptrs \union {Nil}
                      /\ b.order[o].next \in Ptrs \union {Nil}
  BY DEF Books, OrderRecords
<1>2. \A k \in Levels : b.level[k].first \in Refs /\ b.level[k].last \in Refs
  BY DEF Books, LevelRecordsLoose
<1>3. FreeUnlinked(c)
  BY DEF SameLinks, Chained, Linked, FreeUnlinked
<1>4. PrevLinked(c)
  BY <1>1 DEF SameLinks, Chained, Linked, PrevLinked
<1>5. NextLinked(c)
  BY <1>1 DEF SameLinks, Chained, Linked, NextLinked
<1>6. EndsLinked(c)
  BY <1>2 DEF SameLinks, Chained, Linked, EndsLinked, Refs
<1>7. \A k \in Levels : At(c, k) = At(b, k)
  BY DEF SameLinks, At
<1>8. Counted(c)
  BY <1>7 DEF SameLinks, Chained, Counted
<1> QED
  BY <1>3, <1>4, <1>5, <1>6, <1>8 DEF Chained, Linked

\* What AddOrderToLevel assigns.
LEMMA AddOrderFields ==
  ASSUME NEW b \in Books, NEW k \in Levels, NEW o \in Ptrs,
         NEW c, c = AddOrderToLevel(b, k, o), NEW last, last = b.level[k].last
  PROVE  /\ c.order[o].level = k /\ c.order[o].prev = last /\ c.order[o].next = Nil
         /\ \A p \in Ptrs \ {o} :
              /\ c.order[p].level = b.order[p].level /\ c.order[p].prev = b.order[p].prev
              /\ c.order[p].next = IF p = last THEN o ELSE b.order[p].next
         /\ c.level[k].first = IF last = Nil THEN o ELSE b.level[k].first
         /\ c.level[k].last = o /\ c.level[k].count = b.level[k].count + 1
         /\ c.level[k].total = b.level[k].total + b.order[o].qty
         /\ \A j \in Levels \ {k} : c.level[j] = b.level[j]
         /\ \A p \in Ptrs : c.order[p].qty = b.order[p].qty
<1>1. c.order[o].level = k /\ c.order[o].prev = last /\ c.order[o].next = Nil
  <2>1. c.order[o] = [b.order[o] EXCEPT !.level = k, !.next = Nil, !.prev = last]
    BY DEF AddOrderToLevel, Books
  <2>2. b.order[o] \in OrderRecords
    BY DEF Books
  <2> QED
    BY <2>1, <2>2 DEF OrderRecords
<1>2. \A p \in Ptrs \ {o} :
        /\ c.order[p].level = b.order[p].level /\ c.order[p].prev = b.order[p].prev
        /\ c.order[p].next = IF p = last THEN o ELSE b.order[p].next
  BY DEF AddOrderToLevel, Books, OrderRecords
<1>3. /\ c.level[k].first = IF last = Nil THEN o ELSE b.level[k].first
      /\ c.level[k].last = o /\ c.level[k].count = b.level[k].count + 1
      /\ c.level[k].total = b.level[k].total + b.order[o].qty
      /\ \A j \in Levels \ {k} : c.level[j] = b.level[j]
  BY DEF AddOrderToLevel, Books, LevelRecordsLoose
<1>4. \A p \in Ptrs : c.order[p].qty = b.order[p].qty
  <2>1. OnlyChanges(b, c, o) /\ SameOrder(c.order[o], [b.order[o] EXCEPT !.level = k])
    BY AddOrderEffect
  <2>2. b.order[o] \in OrderRecords
    BY DEF Books
  <2>3. c.order[o].qty = b.order[o].qty
    BY <2>1, <2>2 DEF SameOrder, OrderRecords
  <2> QED
    BY <2>1, <2>3 DEF OnlyChanges, SameOrder
<1> QED
  BY <1>1, <1>2, <1>3, <1>4

\* Appending a loose order keeps the lists linked and counted.
LEMMA AddOrderChained ==
  ASSUME NEW b \in Books, NEW k \in Levels, NEW o \in Ptrs, b.order[o].level = Nil,
         Chained(b), NEW c, c = AddOrderToLevel(b, k, o)
  PROVE  Chained(c)
<1> DEFINE last == b.level[k].last
<1>1. \A p \in Ptrs : /\ b.order[p].level \in Levels \union {Nil}
                      /\ b.order[p].prev \in Ptrs \union {Nil}
                      /\ b.order[p].next \in Ptrs \union {Nil}
  BY DEF Books, OrderRecords
<1>2. \A j \in Levels : /\ b.level[j].first \in Ptrs \union {Nil}
                        /\ b.level[j].last \in Ptrs \union {Nil}
                        /\ b.level[j].count \in Int
  BY DEF Books, LevelRecordsLoose, Refs
<1>3. c.order[o].level = k /\ c.order[o].prev = last /\ c.order[o].next = Nil
  BY AddOrderFields
<1>4. \A p \in Ptrs \ {o} :
        /\ c.order[p].level = b.order[p].level /\ c.order[p].prev = b.order[p].prev
        /\ c.order[p].next = IF p = last THEN o ELSE b.order[p].next
  BY AddOrderFields
<1>5. /\ c.level[k].first = IF last = Nil THEN o ELSE b.level[k].first
      /\ c.level[k].last = o /\ c.level[k].count = b.level[k].count + 1
      /\ \A j \in Levels \ {k} : c.level[j] = b.level[j]
  BY AddOrderFields
<1>6. k # Nil /\ Nil \notin Ptrs /\ Nil \notin Levels
  BY NilAssumption
<1>7. FreeUnlinked(b) /\ PrevLinked(b) /\ NextLinked(b) /\ EndsLinked(b) /\ Counted(b)
  BY DEF Chained, Linked
<1>8. last \in Ptrs \union {Nil}
      /\ (last # Nil => last # o /\ b.order[last].level = k /\ b.order[last].next = Nil)
      /\ (last = Nil => b.level[k].first = Nil)
  BY <1>2, <1>6, <1>7 DEF EndsLinked
<1> HIDE DEF last
\* Nothing points to o.
<1>9. /\ \A p \in Ptrs : b.order[p].prev # o /\ b.order[p].next # o
      /\ \A j \in Levels : b.level[j].first # o /\ b.level[j].last # o
  BY <1>1, <1>6, <1>7 DEF FreeUnlinked, PrevLinked, NextLinked, EndsLinked
<1>10. FreeUnlinked(c)
  BY <1>3, <1>4, <1>6, <1>7, <1>8 DEF FreeUnlinked
<1>11. PrevLinked(c)
  <2> SUFFICES ASSUME NEW p \in Ptrs, c.order[p].level # Nil
               PROVE  IF c.order[p].prev = Nil THEN c.level[c.order[p].level].first = p
                      ELSE /\ c.order[c.order[p].prev].next = p
                           /\ c.order[c.order[p].prev].level = c.order[p].level
    BY DEF PrevLinked
  <2>1. CASE p = o
    BY <1>3, <1>4, <1>5, <1>8, <2>1
  <2>2. CASE p # o
    <3>1. /\ c.order[p].level = b.order[p].level /\ c.order[p].prev = b.order[p].prev
          /\ b.order[p].level \in Levels /\ b.order[p].prev # o
          /\ b.order[p].prev \in Ptrs \union {Nil}
      BY <1>1, <1>4, <1>9, <2>2
    <3>2. CASE b.order[p].prev = Nil
      <4>1. b.level[b.order[p].level].first = p
        BY <1>7, <3>1, <3>2 DEF PrevLinked
      <4> QED
        BY <1>5, <1>6, <1>8, <3>1, <3>2, <4>1
    <3>3. CASE b.order[p].prev # Nil
      <4>1. /\ b.order[b.order[p].prev].next = p
            /\ b.order[b.order[p].prev].level = b.order[p].level
        BY <1>7, <3>1, <3>3 DEF PrevLinked
      <4>2. b.order[p].prev # last
        BY <1>6, <1>8, <3>3, <4>1
      <4> QED
        BY <1>4, <3>1, <3>3, <4>1, <4>2
    <3> QED
      BY <3>2, <3>3
  <2> QED
    BY <2>1, <2>2
<1>12. NextLinked(c)
  <2> SUFFICES ASSUME NEW p \in Ptrs, c.order[p].level # Nil
               PROVE  IF c.order[p].next = Nil THEN c.level[c.order[p].level].last = p
                      ELSE /\ c.order[c.order[p].next].prev = p
                           /\ c.order[c.order[p].next].level = c.order[p].level
    BY DEF NextLinked
  <2>1. CASE p = o
    BY <1>3, <1>5, <2>1
  <2>2. CASE p = last
    BY <1>3, <1>4, <1>6, <1>8, <2>2
  <2>3. CASE p # o /\ p # last
    <3>1. /\ c.order[p].level = b.order[p].level /\ c.order[p].next = b.order[p].next
          /\ b.order[p].level \in Levels /\ b.order[p].next # o
          /\ b.order[p].next \in Ptrs \union {Nil}
      BY <1>1, <1>4, <1>9, <2>3
    <3>2. CASE b.order[p].next = Nil
      <4>1. b.level[b.order[p].level].last = p
        BY <1>7, <3>1, <3>2 DEF NextLinked
      <4> QED
        BY <1>5, <2>3, <3>1, <3>2, <4>1 DEF last
    <3>3. CASE b.order[p].next # Nil
      <4>1. /\ b.order[b.order[p].next].prev = p
            /\ b.order[b.order[p].next].level = b.order[p].level
        BY <1>7, <3>1, <3>3 DEF NextLinked
      <4> QED
        BY <1>4, <3>1, <3>3, <4>1
    <3> QED
      BY <3>2, <3>3
  <2> QED
    BY <2>1, <2>2, <2>3
<1>13. EndsLinked(c)
  <2> SUFFICES ASSUME NEW j \in Levels
               PROVE  /\ c.level[j].first = Nil <=> c.level[j].last = Nil
                      /\ c.level[j].first # Nil => /\ c.order[c.level[j].first].level = j
                                                   /\ c.order[c.level[j].first].prev = Nil
                      /\ c.level[j].last # Nil => /\ c.order[c.level[j].last].level = j
                                                  /\ c.order[c.level[j].last].next = Nil
    BY DEF EndsLinked
  <2>1. /\ b.level[j].first = Nil <=> b.level[j].last = Nil
        /\ b.level[j].first # Nil => /\ b.order[b.level[j].first].level = j
                                     /\ b.order[b.level[j].first].prev = Nil
        /\ b.level[j].last # Nil => /\ b.order[b.level[j].last].level = j
                                    /\ b.order[b.level[j].last].next = Nil
        /\ b.level[j].first # o /\ b.level[j].last # o
        /\ b.level[j].first \in Ptrs \union {Nil} /\ b.level[j].last \in Ptrs \union {Nil}
    BY <1>2, <1>7, <1>9 DEF EndsLinked
  <2>2. CASE j = k
    BY <1>3, <1>4, <1>5, <1>6, <1>8, <2>1, <2>2 DEF last
  <2>3. CASE j # k
    <3>1. c.level[j].first = b.level[j].first /\ c.level[j].last = b.level[j].last
      BY <1>5, <2>3
    <3>2. b.level[j].last # Nil => b.level[j].last # last
      BY <1>8, <2>1, <2>3
    <3> QED
      BY <1>4, <2>1, <3>1, <3>2
  <2> QED
    BY <2>2, <2>3
<1>14. Counted(c)
  <2> SUFFICES ASSUME NEW j \in Levels PROVE c.level[j].count = Cardinality(At(c, j))
    BY DEF Counted
  <2>1. b.level[j].count = Cardinality(At(b, j))
    BY <1>7 DEF Counted
  <2>2. CASE j = k
    <3>1. At(c, k) = At(b, k) \union {o} /\ o \notin At(b, k)
      BY <1>3, <1>4, <1>6 DEF At
    <3>2. IsFiniteSet(At(b, k))
      BY BoundAssumption, FS_Subset DEF At
    <3>3. Cardinality(At(b, k) \union {o}) = Cardinality(At(b, k)) + 1
      BY <3>1, <3>2, FS_AddElement
    <3> QED
      BY <1>5, <2>1, <2>2, <3>1, <3>3
  <2>3. CASE j # k
    <3>1. At(c, j) = At(b, j)
      BY <1>3, <1>4, <1>6, <2>3 DEF At
    <3> QED
      BY <1>5, <2>1, <2>3, <3>1
  <2> QED
    BY <2>2, <2>3
<1> QED
  BY <1>10, <1>11, <1>12, <1>13, <1>14 DEF Chained, Linked

\* What RemoveOrderFromLevel assigns.
LEMMA RemoveOrderFields ==
  ASSUME NEW b \in Books, NEW o \in Ptrs, NEW c, c = RemoveOrderFromLevel(b, o),
         NEW k, k = b.order[o].level, k # Nil,
         NEW prev, prev = b.order[o].prev, NEW next, next = b.order[o].next
  PROVE  /\ c.order[o].level = Nil /\ c.order[o].prev = Nil /\ c.order[o].next = Nil
         /\ \A p \in Ptrs \ {o} :
              /\ c.order[p].level = b.order[p].level
              /\ c.order[p].prev = IF p = next THEN prev ELSE b.order[p].prev
              /\ c.order[p].next = IF p = prev THEN next ELSE b.order[p].next
         /\ c.level[k].first = IF prev = Nil THEN next ELSE b.level[k].first
         /\ c.level[k].last = IF next = Nil THEN prev ELSE b.level[k].last
         /\ c.level[k].count = b.level[k].count - 1
         /\ c.level[k].total = b.level[k].total - b.order[o].qty
         /\ \A j \in Levels \ {k} : c.level[j] = b.level[j]
         /\ \A p \in Ptrs : c.order[p].qty = b.order[p].qty
<1>1. \A p \in Ptrs : b.order[p].level \in Levels \union {Nil}
  BY DEF Books, OrderRecords
<1>2. c.order[o].level = Nil /\ c.order[o].prev = Nil /\ c.order[o].next = Nil
  <2>1. c.order[o] = [b.order[o] EXCEPT !.level = Nil, !.next = Nil, !.prev = Nil]
    BY DEF RemoveOrderFromLevel, Books
  <2>2. b.order[o] \in OrderRecords
    BY DEF Books
  <2> QED
    BY <2>1, <2>2 DEF OrderRecords
<1>3. \A p \in Ptrs \ {o} :
        /\ c.order[p].level = b.order[p].level
        /\ c.order[p].prev = IF p = next THEN prev ELSE b.order[p].prev
        /\ c.order[p].next = IF p = prev THEN next ELSE b.order[p].next
  <2> SUFFICES ASSUME NEW p \in Ptrs \ {o}
               PROVE  /\ c.order[p].level = b.order[p].level
                      /\ c.order[p].prev = IF p = next THEN prev ELSE b.order[p].prev
                      /\ c.order[p].next = IF p = prev THEN next ELSE b.order[p].next
    OBVIOUS
  <2> DEFINE newNext == IF p = prev THEN next ELSE b.order[p].next
             newPrev == IF p = next THEN prev ELSE b.order[p].prev
  <2>1. c.order[p] = [b.order[p] EXCEPT !.next = newNext, !.prev = newPrev]
    BY DEF RemoveOrderFromLevel, Books
  <2>2. b.order[p] \in OrderRecords
    BY DEF Books
  <2> HIDE DEF newNext, newPrev
  <2>3. /\ c.order[p].level = b.order[p].level
        /\ c.order[p].prev = newPrev /\ c.order[p].next = newNext
    BY <2>1, <2>2 DEF OrderRecords
  <2> QED
    BY <2>3 DEF newNext, newPrev
<1>4. /\ c.level[k].first = IF prev = Nil THEN next ELSE b.level[k].first
      /\ c.level[k].last = IF next = Nil THEN prev ELSE b.level[k].last
      /\ c.level[k].count = b.level[k].count - 1
      /\ c.level[k].total = b.level[k].total - b.order[o].qty
      /\ \A j \in Levels \ {k} : c.level[j] = b.level[j]
  BY <1>1 DEF RemoveOrderFromLevel, Books, LevelRecordsLoose
<1>5. \A p \in Ptrs : c.order[p].qty = b.order[p].qty
  <2>1. OnlyChanges(b, c, o) /\ SameOrder(c.order[o], [b.order[o] EXCEPT !.level = Nil])
    BY RemoveOrderEffect
  <2>2. b.order[o] \in OrderRecords
    BY DEF Books
  <2>3. c.order[o].qty = b.order[o].qty
    BY <2>1, <2>2 DEF SameOrder, OrderRecords
  <2> QED
    BY <2>1, <2>3 DEF OnlyChanges, SameOrder
<1> QED
  BY <1>2, <1>3, <1>4, <1>5

\* Unlinking an order, wherever it is, keeps the lists linked and counted.
LEMMA RemoveOrderChained ==
  ASSUME NEW b \in Books, NEW o \in Ptrs, Chained(b), NEW c, c = RemoveOrderFromLevel(b, o)
  PROVE  Chained(c)
<1> DEFINE k == b.order[o].level
           prev == b.order[o].prev
           next == b.order[o].next
<1> SUFFICES ASSUME k # Nil PROVE Chained(c)
  BY DEF RemoveOrderFromLevel
<1>1. \A p \in Ptrs : /\ b.order[p].level \in Levels \union {Nil}
                      /\ b.order[p].prev \in Ptrs \union {Nil}
                      /\ b.order[p].next \in Ptrs \union {Nil}
  BY DEF Books, OrderRecords
<1>2. \A j \in Levels : /\ b.level[j].first \in Ptrs \union {Nil}
                        /\ b.level[j].last \in Ptrs \union {Nil}
                        /\ b.level[j].count \in Int
  BY DEF Books, LevelRecordsLoose, Refs
<1>3. c.order[o].level = Nil /\ c.order[o].prev = Nil /\ c.order[o].next = Nil
  BY RemoveOrderFields
<1>4. \A p \in Ptrs \ {o} :
        /\ c.order[p].level = b.order[p].level
        /\ c.order[p].prev = IF p = next THEN prev ELSE b.order[p].prev
        /\ c.order[p].next = IF p = prev THEN next ELSE b.order[p].next
  BY RemoveOrderFields
<1>5. /\ c.level[k].first = IF prev = Nil THEN next ELSE b.level[k].first
      /\ c.level[k].last = IF next = Nil THEN prev ELSE b.level[k].last
      /\ c.level[k].count = b.level[k].count - 1
      /\ \A j \in Levels \ {k} : c.level[j] = b.level[j]
  BY RemoveOrderFields
<1>6. /\ k \in Levels /\ Nil \notin Ptrs /\ Nil \notin Levels
      /\ prev \in Ptrs \union {Nil} /\ next \in Ptrs \union {Nil}
  BY <1>1, NilAssumption
<1>7. FreeUnlinked(b) /\ PrevLinked(b) /\ NextLinked(b) /\ EndsLinked(b) /\ Counted(b)
  BY DEF Chained, Linked
<1>8. /\ IF prev = Nil THEN b.level[k].first = o
         ELSE b.order[prev].next = o /\ b.order[prev].level = k
      /\ IF next = Nil THEN b.level[k].last = o
         ELSE b.order[next].prev = o /\ b.order[next].level = k
  BY <1>7 DEF PrevLinked, NextLinked
\* Only o's neighbours point to o.
<1>9. /\ \A p \in Ptrs : b.order[p].prev = o => p = next
      /\ \A p \in Ptrs : b.order[p].next = o => p = prev
      /\ \A j \in Levels : b.level[j].first = o => j = k /\ prev = Nil
      /\ \A j \in Levels : b.level[j].last = o => j = k /\ next = Nil
  BY <1>1, <1>6, <1>7 DEF FreeUnlinked, PrevLinked, NextLinked, EndsLinked
<1>10. \A p \in Ptrs : b.order[p].level = Nil => p # prev /\ p # next
  BY <1>6, <1>8
<1> HIDE DEF prev, next, k
<1>11. o \in Ptrs /\ o # Nil /\ b.order[o].prev = prev /\ b.order[o].next = next
       /\ b.order[o].level = k
  BY <1>6 DEF prev, next, k
<1>12. FreeUnlinked(c)
  BY <1>3, <1>4, <1>7, <1>10 DEF FreeUnlinked
<1>13. PrevLinked(c)
  <2> SUFFICES ASSUME NEW p \in Ptrs, c.order[p].level # Nil
               PROVE  IF c.order[p].prev = Nil THEN c.level[c.order[p].level].first = p
                      ELSE /\ c.order[c.order[p].prev].next = p
                           /\ c.order[c.order[p].prev].level = c.order[p].level
    BY DEF PrevLinked
  <2>1. p # o /\ c.order[p].level = b.order[p].level /\ b.order[p].level \in Levels
    BY <1>1, <1>3, <1>4
  <2>2. CASE p = next
    <3>1. c.order[p].prev = prev /\ b.order[p].level = k
      BY <1>4, <1>6, <1>8, <2>1, <2>2
    <3>2. prev # o
      BY <1>9, <1>11, <2>1, <2>2
    <3> QED
      BY <1>4, <1>5, <1>6, <1>8, <2>1, <2>2, <3>1, <3>2
  <2>3. CASE p # next
    <3> DEFINE q == b.order[p].prev
    <3>1. c.order[p].prev = q /\ q \in Ptrs \union {Nil}
      BY <1>1, <1>4, <2>1, <2>3
    <3>2. CASE q = Nil
      <4>1. b.level[b.order[p].level].first = p
        BY <1>7, <2>1, <3>2 DEF PrevLinked
      <4>2. c.level[b.order[p].level].first = p
        BY <1>5, <1>8, <2>1, <4>1
      <4> QED
        BY <2>1, <3>1, <3>2, <4>2
    <3>3. CASE q # Nil
      <4>1. b.order[q].next = p /\ b.order[q].level = b.order[p].level
        BY <1>7, <2>1, <3>3 DEF PrevLinked
      <4>2. q # o /\ q # prev
        BY <1>6, <1>8, <1>9, <2>1, <2>3, <3>1, <3>3, <4>1
      <4> QED
        BY <1>4, <2>1, <3>1, <3>3, <4>1, <4>2
    <3> QED
      BY <3>2, <3>3
  <2> QED
    BY <2>2, <2>3
<1>14. NextLinked(c)
  <2> SUFFICES ASSUME NEW p \in Ptrs, c.order[p].level # Nil
               PROVE  IF c.order[p].next = Nil THEN c.level[c.order[p].level].last = p
                      ELSE /\ c.order[c.order[p].next].prev = p
                           /\ c.order[c.order[p].next].level = c.order[p].level
    BY DEF NextLinked
  <2>1. p # o /\ c.order[p].level = b.order[p].level /\ b.order[p].level \in Levels
    BY <1>1, <1>3, <1>4
  <2>2. CASE p = prev
    <3>1. c.order[p].next = next /\ b.order[p].level = k
      BY <1>4, <1>6, <1>8, <2>1, <2>2
    <3>2. next # o
      BY <1>9, <1>11, <2>1, <2>2
    <3> QED
      BY <1>4, <1>5, <1>6, <1>8, <2>1, <2>2, <3>1, <3>2
  <2>3. CASE p # prev
    <3> DEFINE q == b.order[p].next
    <3>1. c.order[p].next = q /\ q \in Ptrs \union {Nil}
      BY <1>1, <1>4, <2>1, <2>3
    <3>2. CASE q = Nil
      <4>1. b.level[b.order[p].level].last = p
        BY <1>7, <2>1, <3>2 DEF NextLinked
      <4>2. c.level[b.order[p].level].last = p
        BY <1>5, <1>8, <2>1, <4>1
      <4> QED
        BY <2>1, <3>1, <3>2, <4>2
    <3>3. CASE q # Nil
      <4>1. b.order[q].prev = p /\ b.order[q].level = b.order[p].level
        BY <1>7, <2>1, <3>3 DEF NextLinked
      <4>2. q # o /\ q # next
        BY <1>6, <1>8, <1>9, <2>1, <2>3, <3>1, <3>3, <4>1
      <4> QED
        BY <1>4, <2>1, <3>1, <3>3, <4>1, <4>2
    <3> QED
      BY <3>2, <3>3
  <2> QED
    BY <2>2, <2>3
<1>15. EndsLinked(c)
  <2> SUFFICES ASSUME NEW j \in Levels
               PROVE  /\ c.level[j].first = Nil <=> c.level[j].last = Nil
                      /\ c.level[j].first # Nil => /\ c.order[c.level[j].first].level = j
                                                   /\ c.order[c.level[j].first].prev = Nil
                      /\ c.level[j].last # Nil => /\ c.order[c.level[j].last].level = j
                                                  /\ c.order[c.level[j].last].next = Nil
    BY DEF EndsLinked
  <2> DEFINE first == b.level[j].first
             last == b.level[j].last
  <2>1. /\ first = Nil <=> last = Nil
        /\ first # Nil => b.order[first].level = j /\ b.order[first].prev = Nil
        /\ last # Nil => b.order[last].level = j /\ b.order[last].next = Nil
        /\ first = o => j = k /\ prev = Nil
        /\ last = o => j = k /\ next = Nil
        /\ first \in Ptrs \union {Nil} /\ last \in Ptrs \union {Nil}
    BY <1>2, <1>7, <1>9 DEF EndsLinked
  <2>2. first # Nil /\ first # o => c.order[first].level = j /\ c.order[first].prev = Nil
    BY <1>4, <1>6, <1>8, <1>11, <2>1
  <2>3. last # Nil /\ last # o => c.order[last].level = j /\ c.order[last].next = Nil
    BY <1>4, <1>6, <1>8, <1>11, <2>1
  <2>4. CASE j = k
    <3>1. prev = Nil /\ next # Nil => c.order[next].level = k /\ c.order[next].prev = Nil
      BY <1>4, <1>6, <1>8, <1>9, <1>11
    <3>2. next = Nil /\ prev # Nil => c.order[prev].level = k /\ c.order[prev].next = Nil
      BY <1>4, <1>6, <1>8, <1>9, <1>11
    <3> HIDE DEF first, last
    <3>3. first = b.level[k].first /\ last = b.level[k].last
      BY <2>4 DEF first, last
    <3> QED
      BY <1>5, <1>8, <1>11, <2>1, <2>2, <2>3, <2>4, <3>1, <3>2, <3>3
  <2>5. CASE j # k
    <3>1. c.level[j].first = first /\ c.level[j].last = last
      BY <1>5, <2>5
    <3> QED
      BY <2>1, <2>2, <2>3, <2>5, <3>1
  <2> QED
    BY <2>4, <2>5
<1>16. Counted(c)
  <2> SUFFICES ASSUME NEW j \in Levels PROVE c.level[j].count = Cardinality(At(c, j))
    BY DEF Counted
  <2>1. b.level[j].count = Cardinality(At(b, j))
    BY <1>7 DEF Counted
  <2>2. CASE j = k
    <3>1. At(c, k) = At(b, k) \ {o} /\ o \in At(b, k)
      BY <1>3, <1>4, <1>6, <1>11 DEF At
    <3>2. IsFiniteSet(At(b, k))
      BY BoundAssumption, FS_Subset DEF At
    <3>3. Cardinality(At(b, k) \ {o}) = Cardinality(At(b, k)) - 1
      BY <3>1, <3>2, FS_RemoveElement
    <3> QED
      BY <1>5, <2>1, <2>2, <3>1, <3>3
  <2>3. CASE j # k
    <3>1. At(c, j) = At(b, j)
      BY <1>3, <1>4, <1>6, <1>11, <2>3 DEF At
    <3> QED
      BY <1>5, <2>1, <2>3, <3>1
  <2> QED
    BY <2>2, <2>3
<1> QED
  BY <1>12, <1>13, <1>14, <1>15, <1>16 DEF Chained, Linked
--------------------------------------------------------------------------------
(* Sums of quantities.  MapThenSumSet is a recursive function on the subsets   *)
(* of its set: it exists and is unique, so any order may be split off.         *)

Total(b, S) == MapThenSumSet(LAMBDA o : b.order[o].qty, S)

One(S) == CHOOSE o \in S : TRUE

\* f sums up the subsets of S.
SumsUp(b, S, f) ==
  f = [T \in SUBSET S |-> IF T = {} THEN 0 ELSE b.order[One(T)].qty + f[T \ {One(T)}]]

LEMMA SomeOne ==
  ASSUME NEW S \in SUBSET Ptrs, S # {}
  PROVE  /\ One(S) \in S /\ IsFiniteSet(S) /\ IsFiniteSet(S \ {One(S)})
         /\ Cardinality(S) \in Nat
         /\ Cardinality(S \ {One(S)}) = Cardinality(S) - 1
<1>1. One(S) \in S
  BY DEF One
<1>2. IsFiniteSet(S)
  BY BoundAssumption, FS_Subset
<1> QED
  BY <1>1, <1>2, FS_RemoveElement, FS_CardinalityType

LEMMA SomeSum ==
  ASSUME NEW b \in Books
  PROVE  \E f : SumsUp(b, Ptrs, f)
<1> DEFINE Small(n) == {T \in SUBSET Ptrs : Cardinality(T) <= n}
           Body(T, f) == IF T = {} THEN 0 ELSE b.order[One(T)].qty + f[T \ {One(T)}]
           N == {n \in Nat : \E f : f = [T \in Small(n) |-> Body(T, f)]}
<1>1. 0 \in N
  <2> DEFINE f == [T \in Small(0) |-> 0]
  <2>1. ASSUME NEW T \in Small(0)
        PROVE  T = {}
    <3>1. T # {} => One(T) \in T /\ Cardinality(T \ {One(T)}) = Cardinality(T) - 1
                    /\ Cardinality(T) \in Nat /\ IsFiniteSet(T \ {One(T)})
      BY SomeOne
    <3>2. T # {} => Cardinality(T \ {One(T)}) \in Nat
      BY <3>1, FS_CardinalityType
    <3> QED
      BY <3>1, <3>2
  <2>2. f = [T \in Small(0) |-> Body(T, f)]
    BY <2>1
  <2> HIDE DEF f
  <2> QED
    BY <2>2
<1>2. ASSUME NEW n \in Nat, n \in N
      PROVE  n + 1 \in N
  <2>1. PICK f : f = [T \in Small(n) |-> Body(T, f)]
    BY <1>2
  <2> DEFINE g == [T \in Small(n + 1) |-> Body(T, f)]
  <2>2. ASSUME NEW T \in Small(n + 1), T # {}
        PROVE  T \ {One(T)} \in Small(n) /\ T \ {One(T)} \in Small(n + 1)
    <3>1. Cardinality(T \ {One(T)}) = Cardinality(T) - 1 /\ Cardinality(T) \in Nat
      BY <2>2, SomeOne
    <3> QED
      BY <3>1
  <2>3. ASSUME NEW T \in Small(n), T \in Small(n + 1)
        PROVE  g[T] = f[T]
    BY <2>1, <2>3
  <2>4. \A T \in Small(n + 1) : Body(T, f) = Body(T, g)
    <3> HIDE DEF g, Small
    <3> QED
      BY <2>2, <2>3
  <2>5. g = [T \in Small(n + 1) |-> Body(T, g)]
    <3> HIDE DEF Body, Small
    <3> QED
      BY <2>4
  <2>6. \E h : h = [T \in Small(n + 1) |-> Body(T, h)]
    <3> HIDE DEF g, Body, Small
    <3> QED
      BY <2>5
  <2> HIDE DEF Body, Small
  <2> QED
    BY <2>6
<1>3. Nat \subseteq N
  <2> HIDE DEF N
  <2> QED
    BY <1>1, <1>2, NaturalSet
<1>4. Cardinality(Ptrs) \in Nat /\ SUBSET Ptrs = Small(Cardinality(Ptrs))
  BY BoundAssumption, FS_Subset, FS_CardinalityType
<1>5. PICK f : f = [T \in Small(Cardinality(Ptrs)) |-> Body(T, f)]
  BY <1>3, <1>4
<1>6. f = [T \in SUBSET Ptrs |-> Body(T, f)]
  <2> HIDE DEF Small, Body
  <2> QED
    BY <1>4, <1>5
<1> QED
  BY <1>6 DEF SumsUp

LEMMA OneSum ==
  ASSUME NEW b \in Books, NEW S \in SUBSET Ptrs, NEW f, SumsUp(b, Ptrs, f),
         NEW g, SumsUp(b, S, g)
  PROVE  \A T \in SUBSET S : g[T] = f[T]
<1> DEFINE N == {n \in Nat : \A T \in SUBSET S : Cardinality(T) <= n => g[T] = f[T]}
<1>0. \A T \in SUBSET S : IsFiniteSet(T) /\ Cardinality(T) \in Nat
  BY BoundAssumption, FS_Subset, FS_CardinalityType
<1>1. g[{}] = 0 /\ f[{}] = 0
  BY DEF SumsUp
<1>2. \A T \in SUBSET S : T # {} =>
        /\ g[T] = b.order[One(T)].qty + g[T \ {One(T)}]
        /\ f[T] = b.order[One(T)].qty + f[T \ {One(T)}]
  BY DEF SumsUp
<1>3. 0 \in N
  <2>1. ASSUME NEW T \in SUBSET S, Cardinality(T) <= 0
        PROVE  T = {}
    <3>1. Cardinality(T) = 0
      BY <1>0, <2>1
    <3> QED
      BY <1>0, <3>1, FS_EmptySet
  <2> QED
    BY <1>1, <2>1
<1>4. ASSUME NEW n \in Nat, n \in N
      PROVE  n + 1 \in N
  <2>1. ASSUME NEW T \in SUBSET S, Cardinality(T) <= n + 1, T # {}
        PROVE  g[T] = f[T]
    <3>1. Cardinality(T \ {One(T)}) = Cardinality(T) - 1 /\ Cardinality(T) \in Nat
      BY <2>1, SomeOne
    <3>2. T \ {One(T)} \in SUBSET S /\ Cardinality(T \ {One(T)}) <= n
      BY <2>1, <3>1
    <3>3. g[T \ {One(T)}] = f[T \ {One(T)}]
      BY <1>4, <3>2
    <3> QED
      BY <1>2, <2>1, <3>3
  <2>2. g[{}] = f[{}]
    BY <1>1
  <2>3. \A T \in SUBSET S : Cardinality(T) <= n + 1 => g[T] = f[T]
    BY <2>1, <2>2
  <2> QED
    BY <2>3
<1>5. Nat \subseteq N
  <2> HIDE DEF N
  <2> QED
    BY <1>3, <1>4, NaturalSet
<1> QED
  BY <1>0, <1>5

\* The totals of the sets of orders are one such function.
LEMMA TotalSums ==
  ASSUME NEW b \in Books
  PROVE  \E f : SumsUp(b, Ptrs, f) /\ \A S \in SUBSET Ptrs : Total(b, S) = f[S]
<1>1. PICK f : SumsUp(b, Ptrs, f)
  BY SomeSum
<1>2. ASSUME NEW S \in SUBSET Ptrs
      PROVE  Total(b, S) = f[S]
  <2> DEFINE g == [T \in SUBSET S |-> f[T]]
  <2>1. g = [T \in SUBSET S |-> IF T = {} THEN 0
                                ELSE b.order[One(T)].qty + g[T \ {One(T)}]]
    BY <1>1 DEF SumsUp
  <2> HIDE DEF g
  <2>2. PICK h : /\ h = [T \in SUBSET S |-> IF T = {} THEN 0
                                  ELSE b.order[One(T)].qty + h[T \ {One(T)}]]
                 /\ Total(b, S) = h[S]
    BY <2>1 DEF Total, MapThenSumSet, MapThenFoldSet, One
  <2>3. SumsUp(b, S, h)
    BY <2>2 DEF SumsUp
  <2> QED
    BY <1>1, <2>2, <2>3, OneSum
<1> QED
  BY <1>1, <1>2

\* Any order may be split off a total.
LEMMA TotalSplits ==
  ASSUME NEW b \in Books
  PROVE  /\ Total(b, {}) = 0
         /\ \A S \in SUBSET Ptrs :
              /\ Total(b, S) \in Int
              /\ \A o \in S : Total(b, S) = b.order[o].qty + Total(b, S \ {o})
<1>1. PICK f : SumsUp(b, Ptrs, f) /\ \A S \in SUBSET Ptrs : Total(b, S) = f[S]
  BY TotalSums
<1>2. f[{}] = 0 /\ \A S \in SUBSET Ptrs : S # {} =>
                     f[S] = b.order[One(S)].qty + f[S \ {One(S)}]
  BY <1>1 DEF SumsUp
<1>3. \A o \in Ptrs : b.order[o].qty \in Int
  BY DEF Books, OrderRecords
<1> DEFINE Splits(S) == f[S] \in Int /\ \A o \in S : f[S] = b.order[o].qty + f[S \ {o}]
           N == {n \in Nat : \A S \in SUBSET Ptrs : Cardinality(S) <= n => Splits(S)}
<1>4. \A S \in SUBSET Ptrs : IsFiniteSet(S) /\ Cardinality(S) \in Nat
  BY BoundAssumption, FS_Subset, FS_CardinalityType
<1>5. 0 \in N
  <2>1. ASSUME NEW S \in SUBSET Ptrs, Cardinality(S) <= 0
        PROVE  S = {}
    <3>1. Cardinality(S) = 0
      BY <1>4, <2>1
    <3> QED
      BY <1>4, <3>1, FS_EmptySet
  <2> QED
    BY <1>2, <2>1
<1>6. ASSUME NEW n \in Nat, n \in N
      PROVE  n + 1 \in N
  <2>0. Splits({})
    BY <1>2
  <2> SUFFICES ASSUME NEW S \in SUBSET Ptrs, Cardinality(S) <= n + 1, S # {}
               PROVE  Splits(S)
    <3> HIDE DEF Splits
    <3> QED
      BY <2>0
  <2>1. ASSUME NEW o \in S
        PROVE  Splits(S \ {o})
    <3>1. Cardinality(S \ {o}) = Cardinality(S) - 1 /\ Cardinality(S) \in Nat
      BY <1>4, FS_RemoveElement
    <3>2. S \ {o} \in SUBSET Ptrs /\ Cardinality(S \ {o}) <= n
      BY <3>1
    <3> QED
      BY <1>6, <3>2
  <2> DEFINE p == One(S)
  <2>2. p \in S /\ f[S] = b.order[p].qty + f[S \ {p}]
    BY <1>2, SomeOne
  <2>3. f[S] \in Int
    <3>1. f[S \ {p}] \in Int /\ b.order[p].qty \in Int
      BY <1>3, <2>1, <2>2
    <3> QED
      BY <2>2, <3>1
  <2> HIDE DEF p
  <2>4. ASSUME NEW o \in S, o # p
        PROVE  f[S] = b.order[o].qty + f[S \ {o}]
    <3>1. f[S \ {p}] = b.order[o].qty + f[(S \ {p}) \ {o}]
      BY <2>1, <2>2, <2>4
    <3>2. f[S \ {o}] = b.order[p].qty + f[(S \ {o}) \ {p}]
      BY <2>1, <2>2, <2>4
    <3> DEFINE rest == (S \ {o}) \ {p}
    <3>3. f[S \ {p}] = b.order[o].qty + f[rest] /\ f[S \ {o}] = b.order[p].qty + f[rest]
      <4>1. (S \ {p}) \ {o} = rest
        OBVIOUS
      <4> QED
        BY <3>1, <3>2, <4>1
    <3>4. /\ f[S \ {p}] \in Int /\ f[S \ {o}] \in Int
          /\ b.order[o].qty \in Int /\ b.order[p].qty \in Int
      BY <1>3, <2>1, <2>2
    <3>5. f[rest] \in Int
      <4>1. Cardinality(rest) <= n
        <5>1. Cardinality(S \ {o}) = Cardinality(S) - 1 /\ Cardinality(S) \in Nat
          BY <1>4, FS_RemoveElement
        <5>2. Cardinality(rest) = Cardinality(S \ {o}) - 1
          BY <1>4, <2>2, <2>4, FS_RemoveElement
        <5> QED
          BY <5>1, <5>2
      <4>2. rest \in SUBSET Ptrs
        OBVIOUS
      <4> HIDE DEF rest
      <4> QED
        BY <1>6, <4>1, <4>2
    <3> HIDE DEF rest
    <3> QED
      BY <2>2, <3>3, <3>4, <3>5
  <2> QED
    BY <2>2, <2>3, <2>4
<1>7. Nat \subseteq N
  <2> HIDE DEF N
  <2> QED
    BY <1>5, <1>6, NaturalSet
<1>8. \A S \in SUBSET Ptrs : Splits(S)
  BY <1>4, <1>7
<1>9. \A S \in SUBSET Ptrs : \A o \in S : S \ {o} \in SUBSET Ptrs
  OBVIOUS
<1> HIDE DEF N
<1> QED
  BY <1>1, <1>2, <1>8, <1>9

\* A total depends on the quantities only.
LEMMA SameTotal ==
  ASSUME NEW b \in Books, NEW c \in Books, NEW S \in SUBSET Ptrs,
         \A o \in S : c.order[o].qty = b.order[o].qty
  PROVE  Total(c, S) = Total(b, S)
<1> DEFINE P == {T \in SUBSET S : Total(c, T) = Total(b, T)}
<1>1. {} \in P
  BY TotalSplits
<1>2. ASSUME NEW T \in SUBSET S, NEW o \in S \ T, T \in P
      PROVE  T \union {o} \in P
  <2> DEFINE U == T \union {o}
  <2>1. U \in SUBSET Ptrs /\ o \in U /\ U \ {o} = T
    OBVIOUS
  <2> HIDE DEF U
  <2>2. /\ Total(c, U) = c.order[o].qty + Total(c, T)
        /\ Total(b, U) = b.order[o].qty + Total(b, T)
    BY <2>1, TotalSplits
  <2> QED
    BY <1>2, <2>2 DEF U
<1>3. IsFiniteSet(S)
  BY BoundAssumption, FS_Subset
<1>4. S \in P
  <2> HIDE DEF P
  <2> QED
    BY <1>1, <1>2, <1>3, FiniteSubsets
<1> QED
  BY <1>4
--------------------------------------------------------------------------------
(* The lists, as sequences: w[n] is the n-th order of level k. *)

Thread(b, k, w) ==
  LET count == b.level[k].count IN
  /\ w \in [1 .. count -> At(b, k)]
  /\ \A o \in At(b, k) : \E n \in 1 .. count : w[n] = o
  /\ \A m, n \in 1 .. count : w[m] = w[n] => m = n
  /\ \A n \in 1 .. count :
       /\ b.order[w[n]].next = IF n < count THEN w[n + 1] ELSE Nil
       /\ b.order[w[n]].prev = IF n > 1 THEN w[n - 1] ELSE Nil

Threaded(b) == \A k \in Levels : \E w : Thread(b, k, w)

Totalled(b) == \A k \in Levels : b.level[k].total = Total(b, At(b, k))

Listed(b) == Chained(b) /\ Threaded(b) /\ Totalled(b)

\* b and c have the same lists, with the same quantities on them.
SameLists(b, c) ==
  /\ SameLinks(b, c)
  /\ \A k \in Levels : c.level[k].total = b.level[k].total
  /\ \A o \in Ptrs : b.order[o].level # Nil => c.order[o].qty = b.order[o].qty

\* Orders on a level are in use by that level only; counts are numbers.
LEMMA Counts ==
  ASSUME NEW b \in Books, Chained(b), NEW k \in Levels
  PROVE  /\ b.level[k].count \in Nat /\ b.level[k].count = Cardinality(At(b, k))
         /\ IsFiniteSet(At(b, k)) /\ At(b, k) \subseteq Ptrs
         /\ b.level[k].count = 0 <=> At(b, k) = {}
<1>1. At(b, k) \subseteq Ptrs /\ IsFiniteSet(At(b, k))
  BY BoundAssumption, FS_Subset DEF At
<1> QED
  BY <1>1, FS_CardinalityType, FS_EmptySet DEF Chained, Counted

\* The ends of a thread are the ends of the list.
LEMMA ThreadEnds ==
  ASSUME NEW b \in Books, Chained(b), NEW k \in Levels, NEW w, Thread(b, k, w),
         NEW count, count = b.level[k].count
  PROVE  /\ b.level[k].first = IF count = 0 THEN Nil ELSE w[1]
         /\ b.level[k].last = IF count = 0 THEN Nil ELSE w[count]
<1>1. /\ count \in Nat /\ (count = 0 <=> At(b, k) = {})
  BY Counts
<1>2. b.level[k].first \in Ptrs \union {Nil} /\ b.level[k].last \in Ptrs \union {Nil}
      /\ k # Nil
  BY NilAssumption DEF Books, LevelRecordsLoose, Refs
<1>3. CASE count = 0
  <2>1. At(b, k) = {}
    BY <1>1, <1>3
  <2> QED
    BY <1>2, <1>3, <2>1 DEF Chained, Linked, EndsLinked, At
<1>4. CASE count # 0
  <2>1. 1 \in 1 .. count /\ count \in 1 .. count
    BY <1>1, <1>4
  <2>2. /\ w[1] \in At(b, k) /\ b.order[w[1]].prev = Nil
        /\ w[count] \in At(b, k) /\ b.order[w[count]].next = Nil
    BY <2>1 DEF Thread
  <2> QED
    BY <1>2, <1>4, <2>2 DEF Chained, Linked, PrevLinked, NextLinked, At
<1> QED
  BY <1>3, <1>4

\* A thread depends on the links of its own level only.
LEMMA SameThread ==
  ASSUME NEW b, NEW c, NEW k, NEW w, Thread(b, k, w), At(c, k) = At(b, k),
         c.level[k].count = b.level[k].count,
         \A p \in At(b, k) : /\ c.order[p].next = b.order[p].next
                             /\ c.order[p].prev = b.order[p].prev
  PROVE  Thread(c, k, w)
  BY DEF Thread

\* An order that is appended is the last of its level.
LEMMA AddOrderThreaded ==
  ASSUME NEW b \in Books, NEW k \in Levels, NEW o \in Ptrs, b.order[o].level = Nil,
         Chained(b), Threaded(b), NEW w, Thread(b, k, w),
         NEW c, c = AddOrderToLevel(b, k, o)
  PROVE  /\ Threaded(c)
         /\ Thread(c, k, [n \in 1 .. b.level[k].count + 1 |->
                            IF n = b.level[k].count + 1 THEN o ELSE w[n]])
         /\ \A j \in Levels \ {k} : \A v : Thread(b, j, v) => Thread(c, j, v)
<1> DEFINE last == b.level[k].last
           count == b.level[k].count
<1>0. /\ k # Nil /\ Nil \notin Ptrs /\ last \in Ptrs \union {Nil}
      /\ (last # Nil => b.order[last].level = k)
  BY NilAssumption DEF Books, LevelRecordsLoose, Refs, Chained, Linked, EndsLinked
<1>1. /\ c.order[o].level = k /\ c.order[o].prev = last /\ c.order[o].next = Nil
      /\ \A p \in Ptrs \ {o} :
           /\ c.order[p].level = b.order[p].level /\ c.order[p].prev = b.order[p].prev
           /\ c.order[p].next = IF p = last THEN o ELSE b.order[p].next
      /\ c.level[k].count = count + 1
      /\ \A j \in Levels \ {k} : c.level[j] = b.level[j]
  BY AddOrderFields
<1>2. ASSUME NEW j \in Levels \ {k}, NEW v, Thread(b, j, v)
      PROVE  Thread(c, j, v)
  <2>1. At(c, j) = At(b, j)
    BY <1>0, <1>1, NilAssumption DEF At
  <2>2. \A p \in At(b, j) : p \in Ptrs \ {o} /\ p # last
    BY <1>0, NilAssumption DEF At
  <2> QED
    BY <1>1, <1>2, <2>1, <2>2, SameThread
<1>3. count \in Nat /\ last = IF count = 0 THEN Nil ELSE w[count]
  BY Counts, ThreadEnds
<1>4. /\ w \in [1 .. count -> At(b, k)]
      /\ \A p \in At(b, k) : \E n \in 1 .. count : w[n] = p
      /\ \A m, n \in 1 .. count : w[m] = w[n] => m = n
      /\ \A n \in 1 .. count :
           /\ b.order[w[n]].next = IF n < count THEN w[n + 1] ELSE Nil
           /\ b.order[w[n]].prev = IF n > 1 THEN w[n - 1] ELSE Nil
  BY DEF Thread
<1>5. At(c, k) = At(b, k) \union {o} /\ o \notin At(b, k)
  BY <1>0, <1>1 DEF At
<1> DEFINE v == [n \in 1 .. count + 1 |-> IF n = count + 1 THEN o ELSE w[n]]
<1>6. \A p \in At(b, k) : p \in Ptrs \ {o}
  BY <1>5 DEF At
<1> HIDE DEF last, count
<1>7. v \in [1 .. count + 1 -> At(c, k)]
  BY <1>3, <1>4, <1>5
<1>8. \A p \in At(c, k) : \E n \in 1 .. count + 1 : v[n] = p
  <2> SUFFICES ASSUME NEW p \in At(c, k) PROVE \E n \in 1 .. count + 1 : v[n] = p
    OBVIOUS
  <2>1. CASE p = o
    BY <1>3, <2>1
  <2>2. CASE p \in At(b, k)
    <3>1. PICK n \in 1 .. count : w[n] = p
      BY <1>4, <2>2
    <3>2. n \in 1 .. count + 1 /\ v[n] = w[n]
      BY <1>3
    <3> QED
      BY <3>1, <3>2
  <2> QED
    BY <1>5, <2>1, <2>2
<1>9. \A m, n \in 1 .. count + 1 : v[m] = v[n] => m = n
  <2>1. \A n \in 1 .. count : v[n] = w[n] /\ v[n] # o
    BY <1>3, <1>4, <1>5
  <2>2. v[count + 1] = o
    BY <1>3
  <2>3. \A n \in 1 .. count + 1 : n = count + 1 \/ n \in 1 .. count
    BY <1>3
  <2> HIDE DEF v
  <2> QED
    BY <1>4, <2>1, <2>2, <2>3
<1>10. ASSUME NEW n \in 1 .. count + 1
       PROVE  /\ c.order[v[n]].next = IF n < count + 1 THEN v[n + 1] ELSE Nil
              /\ c.order[v[n]].prev = IF n > 1 THEN v[n - 1] ELSE Nil
  <2>1. CASE n = count + 1
    <3>1. v[n] = o /\ (n > 1 => v[n - 1] = w[count] /\ count # 0) /\ (~ n > 1 => count = 0)
      BY <1>3, <2>1
    <3> QED
      BY <1>1, <1>3, <2>1, <3>1
  <2>2. CASE n # count + 1
    <3>1. /\ n \in 1 .. count /\ v[n] = w[n] /\ w[n] \in At(b, k)
          /\ n < count + 1 /\ n + 1 \in 1 .. count + 1
          /\ v[n + 1] = IF n = count THEN o ELSE w[n + 1]
          /\ (n > 1 => v[n - 1] = w[n - 1])
      BY <1>3, <1>4, <2>2
    <3>2. w[n] = last <=> n = count
      BY <1>3, <1>4, <3>1
    <3>3. /\ c.order[w[n]].prev = b.order[w[n]].prev
          /\ c.order[w[n]].next = IF w[n] = last THEN o ELSE b.order[w[n]].next
      BY <1>1, <1>6, <3>1
    <3>4. n # count => n < count
      BY <1>3, <3>1
    <3> HIDE DEF v
    <3> QED
      BY <1>4, <3>1, <3>2, <3>3, <3>4
  <2> QED
    BY <2>1, <2>2
<1>11. Thread(c, k, v)
  <2> HIDE DEF v
  <2> QED
    BY <1>1, <1>7, <1>8, <1>9, <1>10 DEF Thread
<1>12. Threaded(c)
  BY <1>2, <1>11 DEF Threaded
<1> QED
  BY <1>2, <1>11, <1>12 DEF count

\* An order that is unlinked leaves the others in their sequence.
LEMMA RemoveOrderThreaded ==
  ASSUME NEW b \in Books, NEW o \in Ptrs, Chained(b), Threaded(b),
         NEW k \in Levels, k = b.order[o].level, NEW w, Thread(b, k, w),
         NEW count, count = b.level[k].count, NEW m \in 1 .. count, w[m] = o,
         NEW c, c = RemoveOrderFromLevel(b, o)
  PROVE  /\ Threaded(c)
         /\ Thread(c, k, [n \in 1 .. count - 1 |-> IF n < m THEN w[n] ELSE w[n + 1]])
         /\ \A j \in Levels \ {k} : \A v : Thread(b, j, v) => Thread(c, j, v)
<1> DEFINE prev == b.order[o].prev
           next == b.order[o].next
<1>0. k # Nil /\ Nil \notin Ptrs /\ count \in Nat
  BY NilAssumption, Counts
<1>1. /\ c.order[o].level = Nil
      /\ \A p \in Ptrs \ {o} :
           /\ c.order[p].level = b.order[p].level
           /\ c.order[p].prev = IF p = next THEN prev ELSE b.order[p].prev
           /\ c.order[p].next = IF p = prev THEN next ELSE b.order[p].next
      /\ c.level[k].count = count - 1
      /\ \A j \in Levels \ {k} : c.level[j] = b.level[j]
  BY <1>0, RemoveOrderFields
<1>2. /\ w \in [1 .. count -> At(b, k)]
      /\ \A p \in At(b, k) : \E n \in 1 .. count : w[n] = p
      /\ \A l, n \in 1 .. count : w[l] = w[n] => l = n
      /\ \A n \in 1 .. count :
           /\ b.order[w[n]].next = IF n < count THEN w[n + 1] ELSE Nil
           /\ b.order[w[n]].prev = IF n > 1 THEN w[n - 1] ELSE Nil
  BY DEF Thread
<1>3. /\ next = IF m < count THEN w[m + 1] ELSE Nil
      /\ prev = IF m > 1 THEN w[m - 1] ELSE Nil
  BY <1>2
<1> HIDE DEF prev, next
<1>4. At(c, k) = At(b, k) \ {o} /\ At(b, k) \subseteq Ptrs /\ Nil \notin At(b, k)
  BY <1>0, <1>1 DEF At
<1>5. ASSUME NEW j \in Levels \ {k}, NEW v, Thread(b, j, v)
      PROVE  Thread(c, j, v)
  <2>1. At(c, j) = At(b, j)
    BY <1>0, <1>1, NilAssumption DEF At
  <2>2. \A p \in At(b, j) : p \in Ptrs \ {o} /\ p \notin At(b, k)
    BY DEF At
  <2>3. (next # Nil => next \in At(b, k)) /\ (prev # Nil => prev \in At(b, k))
    <3>1. (m < count => m + 1 \in 1 .. count) /\ (m > 1 => m - 1 \in 1 .. count)
      BY <1>0
    <3> QED
      BY <1>2, <1>3, <3>1
  <2>4. \A p \in At(b, j) : p # next /\ p # prev
    BY <1>0, <2>2, <2>3
  <2> QED
    BY <1>1, <1>5, <2>1, <2>2, <2>4, SameThread
<1>6. ASSUME NEW q \in 1 .. count, q # m
      PROVE  /\ w[q] \in Ptrs \ {o}
             /\ c.order[w[q]].next = IF q = m - 1 THEN next
                                     ELSE IF q < count THEN w[q + 1] ELSE Nil
             /\ c.order[w[q]].prev = IF q = m + 1 THEN prev
                                     ELSE IF q > 1 THEN w[q - 1] ELSE Nil
  <2>1. w[q] \in Ptrs \ {o} /\ w[q] # Nil
    <3>1. w[q] \in At(b, k) /\ w[q] # w[m]
      BY <1>2, <1>6
    <3> QED
      BY <1>4, <3>1
  <2>2. w[q] = next <=> q = m + 1
    <3>1. CASE m < count
      <4>1. m + 1 \in 1 .. count /\ next = w[m + 1]
        BY <1>0, <1>3, <3>1
      <4> QED
        BY <1>2, <4>1
    <3>2. CASE ~ (m < count)
      <4>1. next = Nil /\ q # m + 1
        BY <1>0, <1>3, <3>2
      <4> QED
        BY <2>1, <4>1
    <3> QED
      BY <3>1, <3>2
  <2>3. w[q] = prev <=> q = m - 1
    <3>1. CASE m > 1
      <4>1. m - 1 \in 1 .. count /\ prev = w[m - 1]
        BY <1>0, <1>3, <3>1
      <4> QED
        BY <1>2, <4>1
    <3>2. CASE ~ (m > 1)
      <4>1. prev = Nil /\ q # m - 1
        BY <1>0, <1>3, <3>2
      <4> QED
        BY <2>1, <4>1
    <3> QED
      BY <3>1, <3>2
  <2>4. /\ c.order[w[q]].next = IF w[q] = prev THEN next ELSE b.order[w[q]].next
        /\ c.order[w[q]].prev = IF w[q] = next THEN prev ELSE b.order[w[q]].prev
    BY <1>1, <2>1
  <2> QED
    BY <1>2, <2>1, <2>2, <2>3, <2>4
<1> DEFINE At1(n) == IF n < m THEN n ELSE n + 1
           v == [n \in 1 .. count - 1 |-> IF n < m THEN w[n] ELSE w[n + 1]]
<1>7. ASSUME NEW n \in 1 .. count - 1
      PROVE  At1(n) \in 1 .. count /\ At1(n) # m /\ v[n] = w[At1(n)]
  BY <1>0
<1>8. v \in [1 .. count - 1 -> At(c, k)]
  <2>1. ASSUME NEW n \in 1 .. count - 1
        PROVE  v[n] \in At(c, k)
    <3> DEFINE q == At1(n)
    <3>1. v[n] = w[q] /\ q \in 1 .. count /\ q # m
      BY <1>7
    <3> HIDE DEF q, v
    <3>2. w[q] \in At(b, k) /\ w[q] # w[m]
      BY <1>2, <3>1
    <3> QED
      BY <1>4, <3>1, <3>2
  <2> QED
    BY <2>1
<1>9. ASSUME NEW p \in At(c, k)
      PROVE  \E n \in 1 .. count - 1 : v[n] = p
  <2>1. PICK q \in 1 .. count : w[q] = p
    BY <1>2, <1>4
  <2>2. q # m
    BY <1>4, <2>1
  <2>3. CASE q < m
    <3>1. q \in 1 .. count - 1 /\ v[q] = p
      BY <1>0, <2>1, <2>3
    <3> QED
      BY <3>1
  <2>4. CASE q > m
    <3>1. q - 1 \in 1 .. count - 1 /\ v[q - 1] = w[(q - 1) + 1] /\ (q - 1) + 1 = q
      BY <1>0, <2>4
    <3> QED
      BY <2>1, <3>1
  <2>5. q < m \/ q > m
    BY <1>0, <2>2
  <2> HIDE DEF v
  <2> QED
    BY ONLY <2>3, <2>4, <2>5
<1>10. \A l, n \in 1 .. count - 1 : v[l] = v[n] => l = n
  <2> SUFFICES ASSUME NEW l \in 1 .. count - 1, NEW n \in 1 .. count - 1, v[l] = v[n]
               PROVE  l = n
    OBVIOUS
  <2>1. At1(l) = At1(n)
    <3> DEFINE q == At1(l)
               r == At1(n)
    <3>1. v[l] = w[q] /\ v[n] = w[r] /\ q \in 1 .. count /\ r \in 1 .. count
      BY <1>7
    <3> HIDE DEF q, r, v
    <3>2. w[q] = w[r]
      BY <3>1
    <3>3. q = r
      BY ONLY <1>2, <3>1, <3>2
    <3> QED
      BY <3>3 DEF q, r
  <2> QED
    BY <1>0, <2>1
<1>11. ASSUME NEW n \in 1 .. count - 1
       PROVE  /\ c.order[v[n]].next = IF n < count - 1 THEN v[n + 1] ELSE Nil
              /\ c.order[v[n]].prev = IF n > 1 THEN v[n - 1] ELSE Nil
  <2> DEFINE q == At1(n)
  <2>1. v[n] = w[q] /\ q \in 1 .. count /\ q # m
    BY <1>7
  <2>2. /\ c.order[w[q]].next = IF q = m - 1 THEN next
                                ELSE IF q < count THEN w[q + 1] ELSE Nil
        /\ c.order[w[q]].prev = IF q = m + 1 THEN prev
                                ELSE IF q > 1 THEN w[q - 1] ELSE Nil
    BY <1>6, <2>1
  <2>3. CASE n < m
    <3>1. q = n
      BY <2>3
    <3>2. n < count - 1 => v[n + 1] = IF n + 1 < m THEN w[n + 1] ELSE w[(n + 1) + 1]
      BY <1>0
    <3>3. n > 1 => v[n - 1] = w[n - 1]
      BY <1>0, <2>3
    <3>4. c.order[w[n]].prev = IF n > 1 THEN w[n - 1] ELSE Nil
      <4>1. n # m + 1
        BY <2>3
      <4> HIDE DEF q, v
      <4> QED
        BY <2>2, <3>1, <4>1
    <3>5. CASE n = m - 1
      <4>1. c.order[w[n]].next = next /\ (n < count - 1 <=> m < count)
            /\ ~ (n + 1 < m) /\ n + 1 = m
        <5> HIDE DEF v
        <5> QED
          BY <1>0, <2>2, <3>1, <3>5
      <4> HIDE DEF q, v
      <4> QED
        BY <1>3, <2>1, <3>1, <3>2, <3>3, <3>4, <4>1
    <3>6. CASE n # m - 1
      <4>1. c.order[w[n]].next = w[n + 1] /\ n + 1 < m /\ n < count - 1
        <5> HIDE DEF v
        <5> QED
          BY <1>0, <2>2, <2>3, <3>1, <3>6
      <4> HIDE DEF q, v
      <4> QED
        BY <2>1, <3>1, <3>2, <3>3, <3>4, <4>1
    <3> QED
      BY <3>5, <3>6
  <2>4. CASE ~ (n < m)
    <3>1. q = n + 1 /\ q # m - 1
      BY <2>4
    <3>2. n < count - 1 => v[n + 1] = w[(n + 1) + 1]
      BY <1>0, <2>4
    <3>3. n > 1 => v[n - 1] = IF n - 1 < m THEN w[n - 1] ELSE w[(n - 1) + 1]
      <4>1. n > 1 => n - 1 \in 1 .. count - 1
        BY <1>0
      <4> QED
        BY <4>1
    <3>4. c.order[w[q]].next = IF n < count - 1 THEN w[(n + 1) + 1] ELSE Nil
      <4>1. q < count <=> n < count - 1
        BY <1>0, <3>1
      <4> HIDE DEF v, q
      <4> QED
        BY <2>2, <3>1, <4>1
    <3>5. CASE n = m
      <4>1. c.order[w[q]].prev = prev /\ n - 1 < m
        <5> HIDE DEF v
        <5> QED
          BY <1>0, <2>2, <3>1, <3>5
      <4> HIDE DEF v, q
      <4> QED
        BY <1>3, <2>1, <3>2, <3>3, <3>4, <3>5, <4>1
    <3>6. CASE n # m
      <4>1. /\ c.order[w[q]].prev = w[q - 1] /\ q - 1 = n /\ n > 1 /\ ~ (n - 1 < m)
            /\ (n - 1) + 1 = n
        <5> HIDE DEF v
        <5> QED
          BY <1>0, <2>2, <2>4, <3>1, <3>6
      <4> HIDE DEF v, q
      <4> QED
        BY <2>1, <3>2, <3>3, <3>4, <4>1
    <3> QED
      BY <3>5, <3>6
  <2> QED
    BY <2>3, <2>4
<1>12. Thread(c, k, v)
  <2> HIDE DEF v
  <2>1. c.level[k].count = count - 1
    BY <1>1
  <2>2. \A p \in At(c, k) : \E n \in 1 .. count - 1 : v[n] = p
    BY <1>9
  <2>3. \A n \in 1 .. count - 1 :
          /\ c.order[v[n]].next = IF n < count - 1 THEN v[n + 1] ELSE Nil
          /\ c.order[v[n]].prev = IF n > 1 THEN v[n - 1] ELSE Nil
    BY <1>11
  <2> QED
    BY ONLY <2>1, <2>2, <2>3, <1>8, <1>10 DEF Thread
<1>13. Threaded(c)
  BY <1>5, <1>12 DEF Threaded
<1> QED
  BY <1>5, <1>12, <1>13
--------------------------------------------------------------------------------
(* Totals, and the lists with everything. *)

\* A total grows by the quantity of the order that is appended.
LEMMA AddOrderTotalled ==
  ASSUME NEW b \in Books, NEW k \in Levels, NEW o \in Ptrs, b.order[o].level = Nil,
         Totalled(b), NEW c, c = AddOrderToLevel(b, k, o)
  PROVE  Totalled(c)
<1>0. c \in Books
  BY AddOrderEffect
<1>1. /\ c.order[o].level = k
      /\ \A p \in Ptrs \ {o} : c.order[p].level = b.order[p].level
      /\ c.level[k].total = b.level[k].total + b.order[o].qty
      /\ \A j \in Levels \ {k} : c.level[j] = b.level[j]
      /\ \A p \in Ptrs : c.order[p].qty = b.order[p].qty
  BY AddOrderFields
<1>2. k # Nil /\ b.order[o].qty \in Int
  BY NilAssumption DEF Books, OrderRecords
<1> SUFFICES ASSUME NEW j \in Levels
             PROVE  c.level[j].total = Total(c, At(c, j))
  BY DEF Totalled
<1>3. At(c, j) \in SUBSET Ptrs /\ At(b, j) \in SUBSET Ptrs
      /\ b.level[j].total = Total(b, At(b, j)) /\ Total(b, At(b, j)) \in Int
  <2>1. At(c, j) \in SUBSET Ptrs /\ At(b, j) \in SUBSET Ptrs
    BY DEF At
  <2> QED
    BY <2>1, TotalSplits DEF Totalled
<1>4. Total(c, At(c, j)) = Total(b, At(c, j))
  BY <1>0, <1>1, <1>3, SameTotal
<1>5. CASE j = k
  <2>1. At(c, k) \ {o} = At(b, k) /\ o \in At(c, k)
    BY <1>1, <1>2 DEF At
  <2>2. Total(b, At(c, k)) = b.order[o].qty + Total(b, At(b, k))
    BY <1>3, <1>5, <2>1, TotalSplits
  <2> QED
    BY <1>1, <1>2, <1>3, <1>4, <1>5, <2>2
<1>6. CASE j # k
  <2>1. At(c, j) = At(b, j)
    BY <1>1, <1>6, NilAssumption DEF At
  <2> QED
    BY <1>1, <1>3, <1>4, <1>6, <2>1
<1> QED
  BY <1>5, <1>6

\* It shrinks by the quantity of the order that is unlinked.
LEMMA RemoveOrderTotalled ==
  ASSUME NEW b \in Books, NEW o \in Ptrs, Totalled(b), NEW k \in Levels,
         k = b.order[o].level, NEW c, c = RemoveOrderFromLevel(b, o)
  PROVE  Totalled(c)
<1>0. k # Nil /\ c \in Books
  BY NilAssumption, RemoveOrderEffect
<1>1. /\ c.order[o].level = Nil
      /\ \A p \in Ptrs \ {o} : c.order[p].level = b.order[p].level
      /\ c.level[k].total = b.level[k].total - b.order[o].qty
      /\ \A j \in Levels \ {k} : c.level[j] = b.level[j]
      /\ \A p \in Ptrs : c.order[p].qty = b.order[p].qty
  BY <1>0, RemoveOrderFields
<1>2. b.order[o].qty \in Int
  BY DEF Books, OrderRecords
<1> SUFFICES ASSUME NEW j \in Levels
             PROVE  c.level[j].total = Total(c, At(c, j))
  BY DEF Totalled
<1>3. At(c, j) \in SUBSET Ptrs /\ At(b, j) \in SUBSET Ptrs
      /\ b.level[j].total = Total(b, At(b, j)) /\ Total(b, At(c, j)) \in Int
  <2>1. At(c, j) \in SUBSET Ptrs /\ At(b, j) \in SUBSET Ptrs
    BY DEF At
  <2> QED
    BY <2>1, TotalSplits DEF Totalled
<1>4. Total(c, At(c, j)) = Total(b, At(c, j))
  BY <1>0, <1>1, <1>3, SameTotal
<1>5. CASE j = k
  <2>1. At(b, k) \ {o} = At(c, k) /\ o \in At(b, k)
    BY <1>0, <1>1 DEF At
  <2>2. Total(b, At(b, k)) = b.order[o].qty + Total(b, At(c, k))
    BY <1>3, <1>5, <2>1, TotalSplits
  <2> QED
    BY <1>1, <1>2, <1>3, <1>4, <1>5, <2>2
<1>6. CASE j # k
  <2>1. At(c, j) = At(b, j)
    BY <1>0, <1>1, <1>6, NilAssumption DEF At
  <2> QED
    BY <1>1, <1>3, <1>4, <1>6, <2>1
<1> QED
  BY <1>5, <1>6

\* Threads depend on the links only.
LEMMA SameLinksThreaded ==
  ASSUME NEW b \in Books, NEW c \in Books, SameLinks(b, c)
  PROVE  \A k \in Levels : \A w : Thread(b, k, w) => Thread(c, k, w)
<1> SUFFICES ASSUME NEW k \in Levels, NEW w, Thread(b, k, w) PROVE Thread(c, k, w)
  OBVIOUS
<1>1. At(c, k) = At(b, k) /\ c.level[k].count = b.level[k].count
  BY DEF SameLinks, At
<1>2. \A p \in At(b, k) : /\ c.order[p].next = b.order[p].next
                          /\ c.order[p].prev = b.order[p].prev
  BY DEF SameLinks, At
<1> QED
  BY <1>1, <1>2, SameThread

\* Listed is about links, levels, counts, totals and quantities at rest.
LEMMA SameListsListed ==
  ASSUME NEW b \in Books, NEW c \in Books, SameLists(b, c), Listed(b)
  PROVE  Listed(c)
<1>1. Chained(c)
  BY SameLinksChained DEF SameLists, Listed
<1>2. Threaded(c)
  BY SameLinksThreaded DEF SameLists, Listed, Threaded
<1>3. Totalled(c)
  <2> SUFFICES ASSUME NEW k \in Levels
               PROVE  c.level[k].total = Total(c, At(c, k))
    BY DEF Totalled
  <2>1. At(c, k) = At(b, k) /\ At(b, k) \in SUBSET Ptrs /\ k # Nil
    BY NilAssumption DEF SameLists, SameLinks, At
  <2>2. \A o \in At(b, k) : c.order[o].qty = b.order[o].qty
    BY <2>1 DEF SameLists, At
  <2>3. Total(c, At(b, k)) = Total(b, At(b, k))
    BY <2>1, <2>2, SameTotal
  <2> QED
    BY <2>1, <2>3 DEF SameLists, Listed, Totalled
<1> QED
  BY <1>1, <1>2, <1>3 DEF Listed

\* Appending a loose order keeps the lists.
LEMMA AddOrderLists ==
  ASSUME NEW b \in Books, NEW k \in Levels, NEW o \in Ptrs, b.order[o].level = Nil,
         Listed(b), NEW c, c = AddOrderToLevel(b, k, o)
  PROVE  Listed(c)
<1>1. PICK w : Thread(b, k, w)
  BY DEF Listed, Threaded
<1>2. Chained(c)
  BY AddOrderChained DEF Listed
<1>3. Threaded(c)
  BY <1>1, AddOrderThreaded DEF Listed
<1>4. Totalled(c)
  BY AddOrderTotalled DEF Listed
<1> QED
  BY <1>2, <1>3, <1>4 DEF Listed

\* Unlinking an order, wherever it is, keeps the lists.
LEMMA RemoveOrderLists ==
  ASSUME NEW b \in Books, NEW o \in Ptrs, Listed(b), NEW c, c = RemoveOrderFromLevel(b, o)
  PROVE  Listed(c)
<1> DEFINE k == b.order[o].level
<1> SUFFICES ASSUME k # Nil PROVE Listed(c)
  BY DEF RemoveOrderFromLevel
<1>1. k \in Levels /\ o \in At(b, k)
  BY DEF Books, OrderRecords, At
<1>2. PICK w : Thread(b, k, w)
  BY <1>1 DEF Listed, Threaded
<1>3. PICK m \in 1 .. b.level[k].count : w[m] = o
  BY <1>1, <1>2 DEF Thread
<1>4. Chained(c)
  BY RemoveOrderChained DEF Listed
<1>5. Threaded(c)
  <2>1. k = b.order[o].level
    OBVIOUS
  <2> HIDE DEF k
  <2> QED
    BY <1>1, <1>2, <1>3, <2>1, RemoveOrderThreaded DEF Listed
<1>6. Totalled(c)
  BY <1>1, RemoveOrderTotalled DEF Listed
<1> QED
  BY <1>4, <1>5, <1>6 DEF Listed
--------------------------------------------------------------------------------
(* What the handlers are made of. *)

EnteredOrder(t, i, side, price, qty) ==
  [BlankOrder EXCEPT !.id = i, !.token = t, !.side = side, !.price = price, !.qty = qty]

\* EnterOrder fills the record, puts it into the map, which may refuse it, and
\* appends it: d is the book before it is appended.
LEMMA EnterOrderAppends ==
  ASSUME NEW b \in Books, NEW t \in Tokens, NEW i \in Ids, NEW side \in Sides,
         NEW price \in Prices, NEW qty \in Int, NEW o \in Ptrs, b.order[o].level = Nil,
         Listed(b), NEW k, k = LevelKey(t, side, price),
         NEW c, c = EnterOrder(b, t, i, side, price, qty, o)
  PROVE  /\ k \in Levels
         /\ \E d \in Books :
              /\ d.used = b.used \union {o} /\ d.tree = b.tree \union {k}
              /\ d.byId = b.byId \/ d.byId = [b.byId EXCEPT ![t][i] = o]
              /\ OnlyChanges(b, d, o) /\ SameLists(b, d)
              /\ d.order[o] = EnteredOrder(t, i, side, price, qty)
              /\ d.order[o].level = Nil
              /\ c = AddOrderToLevel(d, k, o)
<1> DEFINE r == EnteredOrder(t, i, side, price, qty)
           allocated == AllocateOrder(b, o, r)
           kept == Put(allocated, t, i, o)
           treed == GetOrCreate(kept, k)
<1>1. k \in Levels
  BY DEF LevelKey, Levels
<1>2. r \in OrderRecords /\ r.level = Nil /\ r.prev = Nil /\ r.next = Nil
  BY QuantityAssumption DEF EnteredOrder, OrderRecords, BlankOrder
<1> HIDE DEF r
<1>3. /\ allocated \in Books /\ allocated.used = b.used \union {o}
      /\ allocated.tree = b.tree /\ allocated.byId = b.byId
      /\ allocated.order = [b.order EXCEPT ![o] = r] /\ allocated.level = b.level
  BY <1>2 DEF AllocateOrder, Books
<1> HIDE DEF allocated
<1>4. /\ kept \in Books /\ kept.used = b.used \union {o}
      /\ kept.tree = b.tree /\ kept.order = [b.order EXCEPT ![o] = r]
      /\ kept.level = b.level
      /\ kept.byId = b.byId \/ kept.byId = [b.byId EXCEPT ![t][i] = o]
  BY <1>3 DEF Put, Books, Refs
<1> HIDE DEF kept
<1>5. /\ treed \in Books /\ treed.used = b.used \union {o}
      /\ treed.tree = b.tree \union {k} /\ treed.order = [b.order EXCEPT ![o] = r]
      /\ treed.level = b.level
      /\ treed.byId = b.byId \/ treed.byId = [b.byId EXCEPT ![t][i] = o]
  BY <1>1, <1>4 DEF GetOrCreate, Books
<1>6. c = AddOrderToLevel(treed, k, o)
  BY DEF EnterOrder, r, kept, allocated, EnteredOrder
<1> HIDE DEF treed
<1>7. OnlyChanges(b, treed, o) /\ treed.order[o] = r
  BY <1>5 DEF OnlyChanges, SameOrder, Books
<1>8. SameLists(b, treed)
  <2>1. b.order[o].prev = Nil /\ b.order[o].next = Nil
    BY DEF Listed, Chained, Linked, FreeUnlinked
  <2> QED
    BY <1>2, <1>5, <2>1 DEF SameLists, SameLinks, Books
<1> QED
  BY <1>1, <1>2, <1>5, <1>6, <1>7, <1>8 DEF r

\* EnterOrder makes o the order that the message names, on its level; the map
\* may refuse it.
LEMMA EnterOrderEffect ==
  ASSUME NEW b \in Books, NEW t \in Tokens, NEW i \in Ids, NEW side \in Sides,
         NEW price \in Prices, NEW qty \in Int, NEW o \in Ptrs, b.order[o].level = Nil,
         Listed(b),
         NEW c, c = EnterOrder(b, t, i, side, price, qty, o)
  PROVE  /\ c \in Books /\ c.used = b.used \union {o}
         /\ c.tree = b.tree \union {LevelKey(t, side, price)}
         /\ c.byId = b.byId \/ c.byId = [b.byId EXCEPT ![t][i] = o]
         /\ OnlyChanges(b, c, o)
         /\ c.order[o].id = i /\ c.order[o].token = t /\ c.order[o].side = side
         /\ c.order[o].price = price /\ c.order[o].qty = qty
         /\ c.order[o].level = LevelKey(t, side, price)
         /\ Listed(c)
<1> DEFINE k == LevelKey(t, side, price)
           r == EnteredOrder(t, i, side, price, qty)
<1>1. k \in Levels
  BY DEF LevelKey, Levels
<1>2. r \in OrderRecords /\ r.id = i /\ r.token = t /\ r.side = side
      /\ r.price = price /\ r.qty = qty
  BY QuantityAssumption DEF EnteredOrder, OrderRecords, BlankOrder
<1>3. PICK d \in Books :
        /\ d.used = b.used \union {o} /\ d.tree = b.tree \union {k}
        /\ d.byId = b.byId \/ d.byId = [b.byId EXCEPT ![t][i] = o]
        /\ OnlyChanges(b, d, o) /\ SameLists(b, d)
        /\ d.order[o] = r
        /\ d.order[o].level = Nil
        /\ c = AddOrderToLevel(d, k, o)
  BY EnterOrderAppends
<1> HIDE DEF k, r
<1>4. /\ c \in Books /\ c.used = d.used /\ c.byId = d.byId /\ c.tree = d.tree
      /\ OnlyChanges(d, c, o)
      /\ SameOrder(c.order[o], [d.order[o] EXCEPT !.level = k])
  BY <1>1, <1>3, AddOrderEffect
<1>5. OnlyChanges(b, c, o)
  BY <1>3, <1>4 DEF OnlyChanges, SameOrder
<1>6. SameOrder(c.order[o], [r EXCEPT !.level = k])
  BY <1>3, <1>4
<1>7. /\ c.order[o].id = i /\ c.order[o].token = t /\ c.order[o].side = side
      /\ c.order[o].price = price /\ c.order[o].qty = qty /\ c.order[o].level = k
  BY <1>2, <1>6 DEF SameOrder, OrderRecords
<1>8. Listed(c)
  BY <1>1, <1>3, SameListsListed, AddOrderLists
<1> QED
  BY <1>3, <1>4, <1>5, <1>7, <1>8 DEF k

\* What d, the book in ChangePrice before o is appended to k, shares with the books
\* before and after.
Reprices(b, o, price, k, removed, d, c) ==
  /\ d.used = b.used /\ d.tree = b.tree \union {k} /\ d.byId = b.byId
  /\ OnlyChanges(removed, d, o) /\ SameLists(removed, d)
  /\ d.order[o].id = b.order[o].id /\ d.order[o].token = b.order[o].token
  /\ d.order[o].side = b.order[o].side /\ d.order[o].qty = b.order[o].qty
  /\ d.order[o].price = price /\ d.order[o].level = Nil
  /\ c = AddOrderToLevel(d, k, o)

\* ChangePrice unlinks o, reprices it and appends it to the level of its new
\* price: d is the book before it is appended.
LEMMA ChangePriceAppends ==
  ASSUME NEW b \in Books, NEW o \in Ptrs, NEW price \in Prices,
         NEW k \in Levels, k = LevelKey(b.order[o].token, b.order[o].side, price),
         NEW c, c = ChangePrice(b, o, price),
         NEW removed, removed = RemoveOrderFromLevel(b, o)
  PROVE  \E d \in Books : Reprices(b, o, price, k, removed, d, c)
<1> DEFINE moved == [removed EXCEPT !.order[o].price = price]
           treed == GetOrCreate(moved, k)
<1>1. /\ removed \in Books /\ removed.used = b.used /\ removed.byId = b.byId
      /\ removed.tree = b.tree /\ OnlyChanges(b, removed, o)
      /\ SameOrder(removed.order[o], [b.order[o] EXCEPT !.level = Nil])
  BY RemoveOrderEffect
<1>2. c = AddOrderToLevel(treed, k, o)
  BY DEF ChangePrice
<1>3. /\ moved \in Books /\ moved.used = b.used /\ moved.byId = b.byId
      /\ moved.tree = b.tree /\ moved.level = removed.level
      /\ moved.order = [removed.order EXCEPT ![o] =
                          [removed.order[o] EXCEPT !.price = price]]
  <2> DEFINE r == [removed.order[o] EXCEPT !.price = price]
             order == [removed.order EXCEPT ![o] = r]
  <2>1. removed.order[o] \in OrderRecords
    BY <1>1 DEF Books
  <2>2. r \in OrderRecords
    BY <2>1 DEF OrderRecords
  <2>3. moved = [removed EXCEPT !.order = order]
    BY <1>1 DEF Books
  <2> HIDE DEF r, moved
  <2>4. order \in [Ptrs -> OrderRecords]
    BY <1>1, <2>2 DEF Books
  <2>5. moved.order = order
    BY <1>1, <2>3 DEF Books
  <2> HIDE DEF order
  <2>6. /\ moved \in Books /\ moved.used = b.used /\ moved.byId = b.byId
        /\ moved.tree = b.tree /\ moved.level = removed.level
    BY <1>1, <2>3, <2>4 DEF Books
  <2> QED
    BY <2>5, <2>6 DEF order, r
<1> HIDE DEF moved
<1>4. /\ treed \in Books /\ treed.used = b.used /\ treed.byId = b.byId
      /\ treed.tree = b.tree \union {k} /\ treed.order = moved.order
      /\ treed.level = removed.level
  BY <1>3 DEF GetOrCreate, Books
<1> HIDE DEF treed
<1>5. removed.order[o] \in OrderRecords /\ b.order[o] \in OrderRecords
  BY <1>1 DEF Books
<1>6. removed.order[o].level = Nil
  BY <1>1, <1>5 DEF SameOrder, OrderRecords
<1>7. SameLists(removed, treed)
  BY <1>1, <1>3, <1>4, <1>6 DEF SameLists, SameLinks, Books, OrderRecords
<1>8. OnlyChanges(removed, treed, o)
  BY <1>1, <1>3, <1>4 DEF OnlyChanges, SameOrder, Books
<1>9. treed.order[o] = [removed.order[o] EXCEPT !.price = price]
  BY <1>1, <1>3, <1>4 DEF Books
<1>10. /\ treed.order[o].id = b.order[o].id /\ treed.order[o].token = b.order[o].token
       /\ treed.order[o].side = b.order[o].side /\ treed.order[o].qty = b.order[o].qty
       /\ treed.order[o].price = price /\ treed.order[o].level = Nil
  BY <1>1, <1>5, <1>9 DEF SameOrder, OrderRecords
<1> QED
  BY <1>2, <1>4, <1>7, <1>8, <1>10 DEF Reprices

\* ChangePrice moves o to the level of the new price.
LEMMA ChangePriceEffect ==
  ASSUME NEW b \in Books, NEW o \in Ptrs, NEW price \in Prices,
         NEW k \in Levels, k = LevelKey(b.order[o].token, b.order[o].side, price),
         NEW c, c = ChangePrice(b, o, price)
  PROVE  /\ c \in Books /\ c.used = b.used /\ c.tree = b.tree \union {k}
         /\ c.byId = b.byId
         /\ OnlyChanges(b, c, o)
         /\ c.order[o].id = b.order[o].id /\ c.order[o].token = b.order[o].token
         /\ c.order[o].side = b.order[o].side /\ c.order[o].qty = b.order[o].qty
         /\ c.order[o].price = price /\ c.order[o].level = k
         /\ Listed(b) => Listed(c)
<1> DEFINE removed == RemoveOrderFromLevel(b, o)
<1>1. removed \in Books /\ OnlyChanges(b, removed, o) /\ (Listed(b) => Listed(removed))
  BY RemoveOrderEffect, RemoveOrderLists
<1>0. PICK d \in Books : Reprices(b, o, price, k, removed, d, c)
  BY ChangePriceAppends
<1>2. /\ d.used = b.used /\ d.tree = b.tree \union {k} /\ d.byId = b.byId
      /\ OnlyChanges(removed, d, o) /\ SameLists(removed, d)
      /\ d.order[o].id = b.order[o].id /\ d.order[o].token = b.order[o].token
      /\ d.order[o].side = b.order[o].side /\ d.order[o].qty = b.order[o].qty
      /\ d.order[o].price = price /\ d.order[o].level = Nil
      /\ c = AddOrderToLevel(d, k, o)
  BY <1>0 DEF Reprices
<1> HIDE DEF removed
<1>3. /\ c \in Books /\ c.used = d.used /\ c.byId = d.byId /\ c.tree = d.tree
      /\ OnlyChanges(d, c, o)
      /\ SameOrder(c.order[o], [d.order[o] EXCEPT !.level = k])
  BY <1>2, AddOrderEffect
<1>4. OnlyChanges(b, c, o)
  <2> SUFFICES ASSUME NEW p \in Ptrs \ {o}
               PROVE  SameOrder(b.order[p], c.order[p])
    BY DEF OnlyChanges
  <2>1. SameOrder(b.order[p], removed.order[p])
    BY <1>1 DEF OnlyChanges
  <2>2. SameOrder(removed.order[p], d.order[p])
    BY <1>2 DEF OnlyChanges
  <2>3. SameOrder(d.order[p], c.order[p])
    BY <1>3 DEF OnlyChanges
  <2> QED
    BY <2>1, <2>2, <2>3 DEF SameOrder
<1>5. /\ c.order[o].id = b.order[o].id /\ c.order[o].token = b.order[o].token
      /\ c.order[o].side = b.order[o].side /\ c.order[o].qty = b.order[o].qty
      /\ c.order[o].price = price /\ c.order[o].level = k
  <2>1. d.order[o] \in OrderRecords
    BY <1>2 DEF Books
  <2> QED
    BY <1>2, <1>3, <2>1 DEF SameOrder, OrderRecords
<1>6. ASSUME Listed(b)
      PROVE  Listed(c)
  BY <1>1, <1>2, <1>6, SameListsListed, AddOrderLists
<1> QED
  BY <1>2, <1>3, <1>4, <1>5, <1>6

\* Discard clears the record that it has unlinked.
LEMMA DiscardFrees ==
  ASSUME NEW b \in Books, NEW t \in Tokens, NEW o \in Ptrs, b.order[o].id \in Ids,
         NEW c, c = Discard(b, t, o), NEW removed, removed = RemoveOrderFromLevel(b, o)
  PROVE  /\ c \in Books /\ c.used = b.used \ {o} /\ c.tree = b.tree
         /\ c.byId = [b.byId EXCEPT ![t][b.order[o].id] = Nil]
         /\ OnlyChanges(removed, c, o)
         /\ removed.order[o].level = Nil /\ c.order[o].level = Nil
         /\ Listed(b) => SameLists(removed, c)
<1> DEFINE deleted == Delete(removed, t, b.order[o].id)
<1>1. /\ removed \in Books /\ removed.used = b.used /\ removed.byId = b.byId
      /\ removed.tree = b.tree /\ OnlyChanges(b, removed, o)
      /\ SameOrder(removed.order[o], [b.order[o] EXCEPT !.level = Nil])
      /\ Listed(b) => Listed(removed)
  BY RemoveOrderEffect, RemoveOrderLists
<1>2. c = FreeOrder(deleted, o)
  BY DEF Discard
<1>3. /\ deleted \in Books /\ deleted.used = b.used /\ deleted.tree = b.tree
      /\ deleted.byId = [b.byId EXCEPT ![t][b.order[o].id] = Nil]
      /\ deleted.order = removed.order /\ deleted.level = removed.level
  BY <1>1 DEF Delete, Books, Refs
<1> HIDE DEF deleted
<1> DEFINE freed == [deleted.order[o] EXCEPT !.prev = Nil, !.next = Nil, !.level = Nil]
<1>4. /\ freed \in OrderRecords
      /\ freed.level = Nil /\ freed.prev = Nil /\ freed.next = Nil
  <2>1. deleted.order[o] \in OrderRecords
    BY <1>3 DEF Books
  <2> QED
    BY <2>1 DEF OrderRecords
<1>5. /\ c.used = deleted.used \ {o} /\ c.tree = deleted.tree /\ c.byId = deleted.byId
      /\ c.level = deleted.level
      /\ c.order = [deleted.order EXCEPT ![o] = freed]
  BY <1>2, <1>3 DEF FreeOrder, Books
<1>6. c \in Books
  <2> DEFINE order == [deleted.order EXCEPT ![o] = freed]
             used == deleted.used \ {o}
  <2>1. c = [deleted EXCEPT !.order = order, !.used = used]
    BY <1>2, <1>3 DEF FreeOrder, Books
  <2>2. order \in [Ptrs -> OrderRecords] /\ used \in SUBSET Ptrs
    BY <1>3, <1>4 DEF Books
  <2> HIDE DEF order, used
  <2> QED
    BY <1>3, <2>1, <2>2 DEF Books
<1> HIDE DEF freed
<1>7. removed.order[o].level = Nil
  <2>1. b.order[o] \in OrderRecords
    BY DEF Books
  <2> QED
    BY <1>1, <2>1 DEF SameOrder, OrderRecords
<1>8. OnlyChanges(removed, c, o) /\ c.order[o].level = Nil
  BY <1>1, <1>3, <1>4, <1>5 DEF OnlyChanges, SameOrder, Books
<1>9. ASSUME Listed(b)
      PROVE  SameLists(removed, c)
  <2>1. removed.order[o].prev = Nil /\ removed.order[o].next = Nil
    BY <1>1, <1>7, <1>9 DEF Listed, Chained, Linked, FreeUnlinked
  <2> QED
    BY <1>1, <1>3, <1>4, <1>5, <1>7, <2>1 DEF SameLists, SameLinks, Books
<1> QED
  BY <1>1, <1>3, <1>5, <1>6, <1>7, <1>8, <1>9

\* Discard takes o off its level, out of the map and out of use.
LEMMA DiscardEffect ==
  ASSUME NEW b \in Books, NEW t \in Tokens, NEW o \in Ptrs, b.order[o].id \in Ids,
         NEW c, c = Discard(b, t, o)
  PROVE  /\ c \in Books /\ c.used = b.used \ {o} /\ c.tree = b.tree
         /\ c.byId = [b.byId EXCEPT ![t][b.order[o].id] = Nil]
         /\ OnlyChanges(b, c, o) /\ c.order[o].level = Nil
         /\ Listed(b) => Listed(c)
<1> DEFINE removed == RemoveOrderFromLevel(b, o)
<1>1. removed \in Books /\ OnlyChanges(b, removed, o) /\ (Listed(b) => Listed(removed))
  BY RemoveOrderEffect, RemoveOrderLists
<1>2. /\ c \in Books /\ c.used = b.used \ {o} /\ c.tree = b.tree
      /\ c.byId = [b.byId EXCEPT ![t][b.order[o].id] = Nil]
      /\ OnlyChanges(removed, c, o)
      /\ removed.order[o].level = Nil /\ c.order[o].level = Nil
      /\ Listed(b) => SameLists(removed, c)
  BY DiscardFrees
<1> HIDE DEF removed
<1>3. OnlyChanges(b, c, o)
  BY <1>1, <1>2 DEF OnlyChanges, SameOrder
<1> QED
  BY <1>1, <1>2, <1>3, SameListsListed

\* ChangeQuantity assigns a quantity and a total; the links stay.
LEMMA ChangeQuantityFields ==
  ASSUME NEW b \in Books, NEW o \in Ptrs, NEW delta \in Int,
         NEW c, c = ChangeQuantity(b, o, delta)
  PROVE  /\ c \in Books /\ c.used = b.used /\ c.byId = b.byId /\ c.tree = b.tree
         /\ OnlyChanges(b, c, o)
         /\ SameOrder(c.order[o], [b.order[o] EXCEPT !.qty = @ + delta])
         /\ SameLinks(b, c)
         /\ \A j \in Levels :
              c.level[j].total = IF j = b.order[o].level THEN b.level[j].total + delta
                                 ELSE b.level[j].total
<1> DEFINE k == b.order[o].level
           order == [b.order EXCEPT ![o] = [b.order[o] EXCEPT !.qty = b.order[o].qty + delta]]
           level == IF k = Nil THEN b.level
                    ELSE [b.level EXCEPT ![k] =
                            [b.level[k] EXCEPT !.total = b.level[k].total + delta]]
<1>1. c = [b EXCEPT !.order = order, !.level = level]
  BY DEF ChangeQuantity, Books
<1>2. order \in [Ptrs -> OrderRecords]
  BY DEF Books, OrderRecords
<1>3. level \in [Levels -> LevelRecordsLoose]
  <2>1. \A j \in Levels : b.level[j] \in LevelRecordsLoose
    BY DEF Books
  <2>2. ASSUME k # Nil
        PROVE  k \in Levels /\ [b.level[k] EXCEPT !.total = b.level[k].total + delta]
                                 \in LevelRecordsLoose
    <3>1. k \in Levels
      BY <2>2 DEF Books, OrderRecords
    <3> QED
      BY <2>1, <3>1 DEF LevelRecordsLoose
  <2>3. b.level \in [Levels -> LevelRecordsLoose]
    BY DEF Books
  <2> QED
    BY <2>2, <2>3
<1>4. c \in Books
  <2> HIDE DEF order, level
  <2> QED
    BY <1>1, <1>2, <1>3 DEF Books
<1>5. c.used = b.used /\ c.byId = b.byId /\ c.tree = b.tree /\ c.order = order
      /\ c.level = level
  BY <1>1 DEF Books
<1>6. /\ \A p \in Ptrs \ {o} : c.order[p] = b.order[p]
      /\ c.order[o] = [b.order[o] EXCEPT !.qty = @ + delta]
  BY <1>5 DEF Books
<1>7. /\ OnlyChanges(b, c, o)
      /\ SameOrder(c.order[o], [b.order[o] EXCEPT !.qty = @ + delta])
  <2> DEFINE r == [b.order[o] EXCEPT !.qty = @ + delta]
  <2>1. c.order[o] = r
    BY <1>6
  <2> HIDE DEF r
  <2>2. SameOrder(c.order[o], r)
    BY <2>1 DEF SameOrder
  <2>3. OnlyChanges(b, c, o)
    BY <1>6 DEF OnlyChanges, SameOrder
  <2> QED
    BY <2>2, <2>3 DEF r
<1>8. SameLinks(b, c)
  <2>1. b.order[o] \in OrderRecords
    BY DEF Books
  <2>2. \A p \in Ptrs : /\ c.order[p].prev = b.order[p].prev
                        /\ c.order[p].next = b.order[p].next
                        /\ c.order[p].level = b.order[p].level
    <3>1. /\ c.order[o].prev = b.order[o].prev /\ c.order[o].next = b.order[o].next
          /\ c.order[o].level = b.order[o].level
      BY <1>6, <2>1 DEF OrderRecords
    <3> QED
      BY <1>6, <3>1
  <2>3. ASSUME NEW j \in Levels
        PROVE  /\ c.level[j].first = b.level[j].first
               /\ c.level[j].last = b.level[j].last
               /\ c.level[j].count = b.level[j].count
    <3>1. b.level[j] \in LevelRecordsLoose
      BY DEF Books
    <3>2. \/ c.level[j] = b.level[j]
          \/ c.level[j] = [b.level[j] EXCEPT !.total = b.level[j].total + delta]
      BY <1>5 DEF Books
    <3> QED
      BY <3>1, <3>2 DEF LevelRecordsLoose
  <2> QED
    BY <2>2, <2>3 DEF SameLinks
<1>9. ASSUME NEW j \in Levels
      PROVE  c.level[j].total = IF j = k THEN b.level[j].total + delta ELSE b.level[j].total
  <2>1. b.level[j] \in LevelRecordsLoose /\ j # Nil
    BY NilAssumption DEF Books
  <2>2. j = k => c.level[j] = [b.level[j] EXCEPT !.total = b.level[j].total + delta]
    BY <1>5, <2>1 DEF Books
  <2>3. j # k => c.level[j] = b.level[j]
    BY <1>5 DEF Books
  <2> QED
    BY <2>1, <2>2, <2>3 DEF LevelRecordsLoose
<1> QED
  BY <1>4, <1>5, <1>7, <1>8, <1>9

\* ChangeQuantity changes one quantity.
LEMMA ChangeQuantityEffect ==
  ASSUME NEW b \in Books, NEW o \in Ptrs, NEW delta \in Int,
         NEW c, c = ChangeQuantity(b, o, delta)
  PROVE  /\ c \in Books /\ c.used = b.used /\ c.byId = b.byId /\ c.tree = b.tree
         /\ OnlyChanges(b, c, o)
         /\ SameOrder(c.order[o], [b.order[o] EXCEPT !.qty = @ + delta])
         /\ Listed(b) => Listed(c)
<1>1. /\ c \in Books /\ c.used = b.used /\ c.byId = b.byId /\ c.tree = b.tree
      /\ OnlyChanges(b, c, o)
      /\ SameOrder(c.order[o], [b.order[o] EXCEPT !.qty = @ + delta])
      /\ SameLinks(b, c)
      /\ \A j \in Levels :
           c.level[j].total = IF j = b.order[o].level THEN b.level[j].total + delta
                              ELSE b.level[j].total
  BY ChangeQuantityFields
<1>2. ASSUME Listed(b)
      PROVE  Listed(c)
  <2>1. Chained(c) /\ Threaded(c)
    BY <1>1, <1>2, SameLinksChained, SameLinksThreaded DEF Listed, Threaded
  <2> SUFFICES ASSUME NEW j \in Levels
               PROVE  c.level[j].total = Total(c, At(c, j))
    BY <2>1 DEF Listed, Totalled
  <2> DEFINE S == At(b, j)
  <2>2. At(c, j) = S /\ S \in SUBSET Ptrs /\ j # Nil
    BY <1>1, NilAssumption DEF SameLinks, At
  <2>3. b.level[j].total = Total(b, S) /\ b.order[o].qty \in Int
    BY <1>2 DEF Listed, Totalled, Books, OrderRecords
  <2>4. c.level[j].total = IF o \in S THEN b.level[j].total + delta ELSE b.level[j].total
    BY <1>1 DEF At
  <2>5. c.order[o].qty = b.order[o].qty + delta
    <3>1. b.order[o] \in OrderRecords
      BY DEF Books
    <3> QED
      BY <1>1, <3>1 DEF SameOrder, OrderRecords
  <2> HIDE DEF S
  <2>6. CASE o \notin S
    <3>1. Total(c, S) = Total(b, S)
      BY <1>1, <2>2, <2>6, SameTotal DEF OnlyChanges, SameOrder
    <3> QED
      BY <2>2, <2>3, <2>4, <2>6, <3>1
  <2>7. CASE o \in S
    <3>1. S \ {o} \in SUBSET Ptrs
      BY <2>2
    <3>2. Total(c, S \ {o}) = Total(b, S \ {o}) /\ Total(b, S \ {o}) \in Int
      <4>1. \A p \in S \ {o} : c.order[p].qty = b.order[p].qty
        BY <1>1, <2>2 DEF OnlyChanges, SameOrder
      <4> QED
        BY <1>1, <3>1, <4>1, SameTotal, TotalSplits
    <3>3. Total(c, S) = c.order[o].qty + Total(c, S \ {o})
      BY <1>1, <2>2, <2>7, TotalSplits
    <3>4. Total(b, S) = b.order[o].qty + Total(b, S \ {o})
      BY <2>2, <2>7, TotalSplits
    <3> QED
      BY <2>2, <2>3, <2>4, <2>5, <2>7, <3>2, <3>3, <3>4
  <2> QED
    BY <2>6, <2>7
<1> QED
  BY <1>1, <1>2
--------------------------------------------------------------------------------
(* A state of LimitOrderBook: r shows book b when it has, at each level, the   *)
(* ids and quantities of the level's orders, in the sequence of a thread.      *)

Rows(b, k, w) ==
  [n \in 1 .. b.level[k].count |-> [id |-> b.order[w[n]].id, qty |-> b.order[w[n]].qty]]

Shows(b, r) ==
  /\ r = [k \in Levels |-> r[k]]
  /\ \A k \in Levels : \E w : Thread(b, k, w) /\ r[k] = Rows(b, k, w)

\* The operators of the abstract book on sequences.
LEMMA RemoveAtSkips ==
  ASSUME NEW S, NEW s \in Seq(S), NEW m \in 1 .. Len(s)
  PROVE  LOB!RemoveAt(s, m) = [n \in 1 .. Len(s) - 1 |-> IF n < m THEN s[n] ELSE s[n + 1]]
<1> DEFINE a == SubSeq(s, 1, m - 1)
           z == SubSeq(s, m + 1, Len(s))
           t == [n \in 1 .. Len(s) - 1 |-> IF n < m THEN s[n] ELSE s[n + 1]]
<1>1. Len(s) \in Nat /\ s = [n \in 1 .. Len(s) |-> s[n]] /\ \A n \in 1 .. Len(s) : s[n] \in S
  BY LenProperties, ElementOfSeq
<1>2. /\ a \in Seq(S) /\ Len(a) = m - 1 /\ \A n \in 1 .. m - 1 : a[n] = s[n]
  BY <1>1, SubSeqProperties
<1>3. /\ z \in Seq(S) /\ Len(z) = Len(s) - m
      /\ \A n \in 1 .. Len(s) - m : z[n] = s[m + n]
  BY <1>1, SubSeqProperties
<1> HIDE DEF a, z
<1>4. /\ a \o z \in Seq(S) /\ Len(a \o z) = Len(s) - 1
      /\ \A n \in 1 .. Len(s) - 1 : (a \o z)[n] = t[n]
  <2>1. /\ a \o z \in Seq(S) /\ Len(a \o z) = Len(a) + Len(z)
        /\ \A n \in 1 .. Len(a) + Len(z) : (a \o z)[n] = IF n <= Len(a) THEN a[n] ELSE z[n - Len(a)]
    BY <1>2, <1>3, ConcatProperties
  <2>2. ASSUME NEW n \in 1 .. Len(s) - 1
        PROVE  (a \o z)[n] = t[n]
    <3>1. (a \o z)[n] = IF n <= m - 1 THEN a[n] ELSE z[n - (m - 1)]
      <4>1. n \in 1 .. Len(a) + Len(z)
        BY <1>1, <1>2, <1>3
      <4>2. (a \o z)[n] = IF n <= Len(a) THEN a[n] ELSE z[n - Len(a)]
        BY <2>1, <4>1
      <4> QED
        BY <1>2, <4>2
    <3>2. n > m - 1 => z[n - (m - 1)] = s[n + 1]
      <4> SUFFICES ASSUME n > m - 1 PROVE z[n - (m - 1)] = s[n + 1]
        OBVIOUS
      <4>1. n - (m - 1) \in 1 .. Len(s) - m /\ m + (n - (m - 1)) = n + 1
        BY <1>1
      <4> QED
        BY <1>3, <4>1
    <3>3. n <= m - 1 => a[n] = s[n]
      BY <1>1, <1>2
    <3> QED
      BY <1>1, <3>1, <3>2, <3>3
  <2> QED
    BY <1>1, <1>2, <1>3, <2>1, <2>2
<1>5. t \in Seq(S) /\ Len(t) = Len(s) - 1
  <2>1. Len(s) - 1 \in Nat /\ \A n \in 1 .. Len(s) - 1 : (IF n < m THEN s[n] ELSE s[n + 1]) \in S
    BY <1>1
  <2> QED
    BY <2>1, IsASeq
<1> HIDE DEF t
<1>6. a \o z = t
  BY <1>4, <1>5, SeqEqual
<1> QED
  BY <1>6 DEF LOB!RemoveAt, a, z, t

Entries == [id : Ids \union {NoId}, qty : Int]

\* The rows of a thread are a sequence.
LEMMA RowsAreEntries ==
  ASSUME NEW b \in Books, Chained(b), NEW k \in Levels, NEW w, Thread(b, k, w),
         NEW count, count = b.level[k].count
  PROVE  /\ count \in Nat /\ Rows(b, k, w) \in Seq(Entries) /\ Len(Rows(b, k, w)) = count
         /\ DOMAIN Rows(b, k, w) = 1 .. count
         /\ \A n \in 1 .. count :
              /\ w[n] \in Ptrs /\ b.order[w[n]].level = k
              /\ Rows(b, k, w)[n] = [id |-> b.order[w[n]].id, qty |-> b.order[w[n]].qty]
<1> DEFINE e(n) == [id |-> b.order[w[n]].id, qty |-> b.order[w[n]].qty]
<1>1. count \in Nat /\ w \in [1 .. count -> At(b, k)]
  BY Counts DEF Thread
<1>2. ASSUME NEW n \in 1 .. count
      PROVE  w[n] \in Ptrs /\ b.order[w[n]].level = k /\ e(n) \in Entries
  <2>1. w[n] \in Ptrs /\ b.order[w[n]].level = k
    BY <1>1 DEF At
  <2> QED
    BY <2>1 DEF Books, OrderRecords, Entries
<1>3. Rows(b, k, w) = [n \in 1 .. count |-> e(n)]
  BY DEF Rows
<1> HIDE DEF e
<1>4. [n \in 1 .. count |-> e(n)] \in Seq(Entries)
  BY <1>1, <1>2, IsASeq
<1>5. Len([n \in 1 .. count |-> e(n)]) = count
  BY <1>1, <1>4, LenProperties
<1> QED
  BY <1>1, <1>2, <1>3, <1>4, <1>5 DEF e

\* Rows depend on the ids and quantities at rest only.
LEMMA SameRows ==
  ASSUME NEW b \in Books, NEW c, NEW k \in Levels, NEW w, Thread(b, k, w),
         c.level[k].count = b.level[k].count,
         \A p \in Ptrs : b.order[p].level = k =>
           c.order[p].id = b.order[p].id /\ c.order[p].qty = b.order[p].qty
  PROVE  Rows(c, k, w) = Rows(b, k, w)
<1> DEFINE count == b.level[k].count
<1>1. w \in [1 .. count -> At(b, k)]
  BY DEF Thread
<1>2. ASSUME NEW n \in 1 .. count
      PROVE  c.order[w[n]].id = b.order[w[n]].id /\ c.order[w[n]].qty = b.order[w[n]].qty
  BY <1>1 DEF At
<1> QED
  BY <1>2 DEF Rows

\* A step that changes one level: r changes there.
LEMMA ShowsElsewhere ==
  ASSUME NEW b \in Books, NEW c, NEW r, Shows(b, r), NEW k \in Levels,
         \A j \in Levels \ {k} : \A v : Thread(b, j, v) => Thread(c, j, v),
         \A j \in Levels \ {k} : c.level[j].count = b.level[j].count,
         \A p \in Ptrs : b.order[p].level # Nil /\ b.order[p].level # k =>
           c.order[p].id = b.order[p].id /\ c.order[p].qty = b.order[p].qty,
         NEW w, Thread(c, k, w), NEW s, s = Rows(c, k, w)
  PROVE  Shows(c, [r EXCEPT ![k] = s])
<1> DEFINE q == [r EXCEPT ![k] = s]
<1>1. r = [j \in Levels |-> r[j]]
  BY DEF Shows
<1>2. q = [j \in Levels |-> q[j]] /\ \A j \in Levels : q[j] = IF j = k THEN s ELSE r[j]
  BY <1>1
<1> HIDE DEF q
<1>3. ASSUME NEW j \in Levels, j # k
      PROVE  \E v : Thread(c, j, v) /\ q[j] = Rows(c, j, v)
  <2>1. PICK v : Thread(b, j, v) /\ r[j] = Rows(b, j, v)
    BY DEF Shows
  <2>2. \A p \in Ptrs : b.order[p].level = j =>
          c.order[p].id = b.order[p].id /\ c.order[p].qty = b.order[p].qty
    BY <1>3, NilAssumption
  <2>3. Rows(c, j, v) = Rows(b, j, v)
    BY <1>3, <2>1, <2>2, SameRows
  <2> QED
    BY <1>2, <1>3, <2>1, <2>3
<1>4. Thread(c, k, w) /\ q[k] = Rows(c, k, w)
  BY <1>2
<1>5. Shows(c, q)
  BY <1>2, <1>3, <1>4 DEF Shows
<1> QED
  BY <1>5 DEF q

\* What is appended comes last.
LEMMA AddOrderShows ==
  ASSUME NEW b \in Books, NEW k \in Levels, NEW o \in Ptrs, b.order[o].level = Nil,
         Listed(b), NEW r, Shows(b, r), NEW c, c = AddOrderToLevel(b, k, o)
  PROVE  Shows(c, [r EXCEPT ![k] = Append(@, [id |-> b.order[o].id, qty |-> b.order[o].qty])])
<1> DEFINE count == b.level[k].count
           e == [id |-> b.order[o].id, qty |-> b.order[o].qty]
<1>1. PICK w : Thread(b, k, w) /\ r[k] = Rows(b, k, w)
  BY DEF Shows
<1> DEFINE v == [n \in 1 .. count + 1 |-> IF n = count + 1 THEN o ELSE w[n]]
<1>2. Chained(b) /\ Threaded(b)
  BY DEF Listed
<1>3. /\ Thread(c, k, v)
      /\ \A j \in Levels \ {k} : \A u : Thread(b, j, u) => Thread(c, j, u)
  BY <1>1, <1>2, AddOrderThreaded
<1>4. /\ c.level[k].count = count + 1 /\ \A j \in Levels \ {k} : c.level[j] = b.level[j]
      /\ \A p \in Ptrs : c.order[p].qty = b.order[p].qty
  BY AddOrderFields
<1>5. \A p \in Ptrs : c.order[p].id = b.order[p].id
  <2>1. OnlyChanges(b, c, o) /\ SameOrder(c.order[o], [b.order[o] EXCEPT !.level = k])
        /\ b.order[o] \in OrderRecords
    BY AddOrderEffect DEF Books
  <2> QED
    BY <2>1 DEF OnlyChanges, SameOrder, OrderRecords
<1>6. /\ count \in Nat /\ r[k] \in Seq(Entries) /\ Len(r[k]) = count
      /\ \A n \in 1 .. count :
           w[n] \in Ptrs /\ r[k][n] = [id |-> b.order[w[n]].id, qty |-> b.order[w[n]].qty]
  BY <1>1, <1>2, RowsAreEntries
<1>7. e \in Entries
  BY DEF Books, OrderRecords, Entries
<1>8. Rows(c, k, v) = Append(r[k], e)
  <2>1. /\ Append(r[k], e) \in Seq(Entries) /\ Len(Append(r[k], e)) = count + 1
        /\ \A n \in 1 .. count : Append(r[k], e)[n] = r[k][n]
        /\ Append(r[k], e)[count + 1] = e
    BY <1>6, <1>7, AppendProperties
  <2>2. c \in Books /\ Chained(c)
    BY <1>2, AddOrderEffect, AddOrderChained
  <2>3. /\ Rows(c, k, v) \in Seq(Entries) /\ Len(Rows(c, k, v)) = count + 1
        /\ \A n \in 1 .. count + 1 :
             Rows(c, k, v)[n] = [id |-> c.order[v[n]].id, qty |-> c.order[v[n]].qty]
    <3> HIDE DEF v
    <3> QED
      BY <1>3, <1>4, <2>2, RowsAreEntries
  <2>4. ASSUME NEW n \in 1 .. count + 1
        PROVE  Rows(c, k, v)[n] = Append(r[k], e)[n]
    <3>1. CASE n = count + 1
      <4>1. v[n] = o
        BY <3>1
      <4> HIDE DEF v
      <4> QED
        BY <1>4, <1>5, <2>1, <2>3, <3>1, <4>1
    <3>2. CASE n # count + 1
      <4>1. n \in 1 .. count /\ v[n] = w[n]
        BY <1>6, <3>2
      <4> HIDE DEF v, e
      <4>2. /\ w[n] \in Ptrs
            /\ Append(r[k], e)[n] = [id |-> b.order[w[n]].id, qty |-> b.order[w[n]].qty]
        BY <1>6, <2>1, <4>1
      <4>3. Rows(c, k, v)[n] = [id |-> c.order[w[n]].id, qty |-> c.order[w[n]].qty]
        BY <2>3, <4>1
      <4> QED
        BY <1>4, <1>5, <4>2, <4>3
    <3> QED
      BY <3>1, <3>2
  <2> HIDE DEF v, e
  <2> QED
    BY <2>1, <2>3, <2>4, SeqEqual
<1> HIDE DEF v, e
<1>9. Shows(c, [r EXCEPT ![k] = Append(r[k], e)])
  BY <1>3, <1>4, <1>5, <1>8, ShowsElsewhere
<1>10. [r EXCEPT ![k] = Append(r[k], e)] = [r EXCEPT ![k] = Append(@, e)]
  BY DEF Shows
<1> QED
  BY <1>9, <1>10 DEF e

\* What a book shows is about its links and the orders at rest.
LEMMA SameShows ==
  ASSUME NEW b \in Books, NEW c \in Books, SameLinks(b, c), NEW o,
         b.order[o].level = Nil, OnlyChanges(b, c, o), NEW r, Shows(b, r)
  PROVE  Shows(c, r)
<1> SUFFICES ASSUME NEW k \in Levels
             PROVE  \E w : Thread(c, k, w) /\ r[k] = Rows(c, k, w)
  BY DEF Shows
<1>1. PICK w : Thread(b, k, w) /\ r[k] = Rows(b, k, w)
  BY DEF Shows
<1>2. \A p \in Ptrs : b.order[p].level = k =>
        c.order[p].id = b.order[p].id /\ c.order[p].qty = b.order[p].qty
  BY NilAssumption DEF OnlyChanges, SameOrder
<1>3. Thread(c, k, w)
  BY <1>1, SameLinksThreaded
<1>4. c.level[k].count = b.level[k].count
  BY DEF SameLinks
<1>5. Rows(c, k, w) = Rows(b, k, w)
  BY <1>1, <1>2, <1>4, SameRows
<1> QED
  BY <1>1, <1>3, <1>5

\* w is the thread of o's level that r shows, and o is its m-th.
Places(b, r, o, w, m) ==
  LET k == b.order[o].level IN
  Thread(b, k, w) /\ r[k] = Rows(b, k, w) /\ m \in 1 .. b.level[k].count /\ w[m] = o

\* What is unlinked is not shown.
LEMMA RemoveOrderShows ==
  ASSUME NEW b \in Books, NEW o \in Ptrs, Listed(b), NEW r, Shows(b, r),
         NEW k \in Levels, k = b.order[o].level, NEW w, NEW m, Places(b, r, o, w, m),
         NEW c, c = RemoveOrderFromLevel(b, o)
  PROVE  Shows(c, [r EXCEPT ![k] = LOB!RemoveAt(@, m)])
<1> DEFINE count == b.level[k].count
           v == [n \in 1 .. count - 1 |-> IF n < m THEN w[n] ELSE w[n + 1]]
           s == LOB!RemoveAt(r[k], m)
<1>1. Thread(b, k, w) /\ r[k] = Rows(b, k, w) /\ m \in 1 .. count /\ w[m] = o
  BY DEF Places
<1>2. Chained(b) /\ Threaded(b) /\ k # Nil
  BY NilAssumption DEF Listed
<1>3. /\ Thread(c, k, v)
      /\ \A j \in Levels \ {k} : \A u : Thread(b, j, u) => Thread(c, j, u)
  BY <1>1, <1>2, RemoveOrderThreaded
<1>4. /\ c.level[k].count = count - 1 /\ \A j \in Levels \ {k} : c.level[j] = b.level[j]
      /\ \A p \in Ptrs : c.order[p].qty = b.order[p].qty
  BY <1>2, RemoveOrderFields
<1>5. \A p \in Ptrs : c.order[p].id = b.order[p].id
  <2>1. OnlyChanges(b, c, o) /\ SameOrder(c.order[o], [b.order[o] EXCEPT !.level = Nil])
        /\ b.order[o] \in OrderRecords
    BY RemoveOrderEffect DEF Books
  <2> QED
    BY <2>1 DEF OnlyChanges, SameOrder, OrderRecords
<1>6. /\ count \in Nat /\ r[k] \in Seq(Entries) /\ Len(r[k]) = count
      /\ \A n \in 1 .. count :
           w[n] \in Ptrs /\ r[k][n] = [id |-> b.order[w[n]].id, qty |-> b.order[w[n]].qty]
  BY <1>1, <1>2, RowsAreEntries
<1>7. s = [n \in 1 .. count - 1 |-> IF n < m THEN r[k][n] ELSE r[k][n + 1]]
  <2>1. r[k] \in Seq(Entries) /\ m \in 1 .. Len(r[k])
    BY <1>1, <1>6
  <2>2. s = [n \in 1 .. Len(r[k]) - 1 |-> IF n < m THEN r[k][n] ELSE r[k][n + 1]]
    BY <2>1, RemoveAtSkips
  <2> QED
    BY <1>6, <2>2
<1>8. ASSUME NEW n \in 1 .. count - 1
      PROVE  s[n] = [id |-> c.order[v[n]].id, qty |-> c.order[v[n]].qty]
  <2>1. s[n] = (IF n < m THEN r[k][n] ELSE r[k][n + 1])
        /\ v[n] = (IF n < m THEN w[n] ELSE w[n + 1])
    BY <1>7
  <2> HIDE DEF s, v
  <2>2. n \in 1 .. count /\ n + 1 \in 1 .. count
    <3>1. count \in Nat /\ n \in 1 .. count - 1
      BY <1>6
    <3> HIDE DEF count
    <3> QED
      BY ONLY <3>1
  <2>3. /\ w[n] \in Ptrs /\ r[k][n] = [id |-> b.order[w[n]].id, qty |-> b.order[w[n]].qty]
        /\ w[n + 1] \in Ptrs
        /\ r[k][n + 1] = [id |-> b.order[w[n + 1]].id, qty |-> b.order[w[n + 1]].qty]
    BY <1>6, <2>2
  <2> QED
    BY <1>4, <1>5, <2>1, <2>3
<1>9. Rows(c, k, v) = s
  <2>1. s = [n \in 1 .. count - 1 |-> s[n]]
    BY <1>7
  <2> HIDE DEF s, v
  <2> QED
    BY <1>4, <1>8, <2>1 DEF Rows
<1> HIDE DEF v, s
<1>10. Shows(c, [r EXCEPT ![k] = s])
  <2>1. /\ \A j \in Levels \ {k} : c.level[j].count = b.level[j].count
        /\ \A p \in Ptrs : b.order[p].level # Nil /\ b.order[p].level # k =>
             c.order[p].id = b.order[p].id /\ c.order[p].qty = b.order[p].qty
    BY <1>4, <1>5
  <2>2. s = Rows(c, k, v) /\ Shows(b, r)
    BY <1>9
  <2> QED
    BY ONLY <1>3, <2>1, <2>2, ShowsElsewhere
<1>11. [r EXCEPT ![k] = s] = [r EXCEPT ![k] = LOB!RemoveAt(@, m)]
  BY DEF s, Shows
<1> QED
  BY <1>10, <1>11

\* A new quantity shows in place; the thread is the same.
LEMMA ChangeQuantityShows ==
  ASSUME NEW b \in Books, NEW o \in Ptrs, Listed(b), NEW r, Shows(b, r),
         NEW k \in Levels, k = b.order[o].level, NEW w, NEW m, Places(b, r, o, w, m),
         NEW delta \in Int, NEW c, c = ChangeQuantity(b, o, delta)
  PROVE  LET e == [id |-> b.order[o].id, qty |-> b.order[o].qty + delta]
             s == [r EXCEPT ![k] = LOB!ReplaceAt(@, m, e)]
         IN  Shows(c, s) /\ Places(c, s, o, w, m) /\ c.order[o].level = k
<1> DEFINE count == b.level[k].count
           e == [id |-> b.order[o].id, qty |-> b.order[o].qty + delta]
           t == LOB!ReplaceAt(r[k], m, e)
           s == [r EXCEPT ![k] = LOB!ReplaceAt(@, m, e)]
<1>1. Thread(b, k, w) /\ r[k] = Rows(b, k, w) /\ m \in 1 .. count /\ w[m] = o
  BY DEF Places
<1>2. Chained(b) /\ k # Nil
  BY NilAssumption DEF Listed
<1>3. /\ c \in Books /\ SameLinks(b, c) /\ OnlyChanges(b, c, o)
      /\ SameOrder(c.order[o], [b.order[o] EXCEPT !.qty = @ + delta])
  BY ChangeQuantityFields
<1>4. /\ Thread(c, k, w)
      /\ \A j \in Levels \ {k} : \A u : Thread(b, j, u) => Thread(c, j, u)
      /\ \A j \in Levels : c.level[j].count = b.level[j].count
  BY <1>1, <1>3, SameLinksThreaded DEF SameLinks
<1>5. /\ c.order[o].id = b.order[o].id /\ c.order[o].qty = b.order[o].qty + delta
      /\ c.order[o].level = k
  <2>1. b.order[o] \in OrderRecords
    BY DEF Books
  <2> QED
    BY <1>3, <2>1 DEF SameOrder, OrderRecords
<1>6. \A p \in Ptrs \ {o} : c.order[p].id = b.order[p].id /\ c.order[p].qty = b.order[p].qty
  BY <1>3 DEF OnlyChanges, SameOrder
<1>7. /\ count \in Nat /\ r[k] \in Seq(Entries) /\ Len(r[k]) = count
      /\ DOMAIN r[k] = 1 .. count
      /\ \A n \in 1 .. count :
           w[n] \in Ptrs /\ r[k][n] = [id |-> b.order[w[n]].id, qty |-> b.order[w[n]].qty]
  BY <1>1, <1>2, RowsAreEntries
<1> HIDE DEF e
<1>8. t = [n \in 1 .. count |-> IF n = m THEN e ELSE r[k][n]]
  <2>1. r[k] = [n \in 1 .. count |-> r[k][n]]
    BY <1>7, LenProperties
  <2> QED
    BY <1>1, <2>1 DEF LOB!ReplaceAt
<1>9. ASSUME NEW n \in 1 .. count
      PROVE  t[n] = [id |-> c.order[w[n]].id, qty |-> c.order[w[n]].qty]
  <2>1. t[n] = IF n = m THEN e ELSE r[k][n]
    BY <1>8
  <2> HIDE DEF t
  <2>2. CASE n = m
    BY <1>1, <1>5, <2>1, <2>2 DEF e
  <2>3. CASE n # m
    <3>1. w[n] # o
      BY <1>1, <2>3 DEF Thread
    <3> QED
      BY <1>6, <1>7, <2>1, <2>3, <3>1
  <2> QED
    BY <2>2, <2>3
<1>10. Rows(c, k, w) = t
  <2>1. t = [n \in 1 .. count |-> t[n]]
    BY <1>8
  <2> HIDE DEF t
  <2> QED
    BY <1>4, <1>9, <2>1 DEF Rows
<1>11. s = [r EXCEPT ![k] = t] /\ s[k] = t
  BY DEF Shows
<1> HIDE DEF t, s
<1>12. Shows(c, s)
  <2>1. \A p \in Ptrs : b.order[p].level # Nil /\ b.order[p].level # k =>
          c.order[p].id = b.order[p].id /\ c.order[p].qty = b.order[p].qty
    BY <1>6
  <2>2. /\ \A j \in Levels \ {k} : \A u : Thread(b, j, u) => Thread(c, j, u)
        /\ \A j \in Levels \ {k} : c.level[j].count = b.level[j].count
        /\ Thread(c, k, w) /\ t = Rows(c, k, w)
    BY <1>4, <1>10
  <2>3. Shows(c, [r EXCEPT ![k] = t])
    BY <2>1, <2>2, ShowsElsewhere
  <2> QED
    BY <1>11, <2>3
<1> QED
  BY <1>1, <1>4, <1>5, <1>10, <1>11, <1>12 DEF Places, s, e

\* An entered order shows at the end of its level.
LEMMA EnterOrderShows ==
  ASSUME NEW b \in Books, NEW t \in Tokens, NEW i \in Ids, NEW side \in Sides,
         NEW price \in Prices, NEW qty \in Int, NEW o \in Ptrs, b.order[o].level = Nil,
         Listed(b), NEW r, Shows(b, r), NEW c, c = EnterOrder(b, t, i, side, price, qty, o)
  PROVE  Shows(c, LOB!Place(r, t, side, price, i, qty))
<1> DEFINE k == LevelKey(t, side, price)
<1>1. /\ k \in Levels
      /\ \E d \in Books :
           /\ d.used = b.used \union {o} /\ d.tree = b.tree \union {k}
           /\ d.byId = b.byId \/ d.byId = [b.byId EXCEPT ![t][i] = o]
           /\ OnlyChanges(b, d, o) /\ SameLists(b, d)
           /\ d.order[o] = EnteredOrder(t, i, side, price, qty)
           /\ d.order[o].level = Nil
           /\ c = AddOrderToLevel(d, k, o)
  BY EnterOrderAppends
<1>2. PICK d \in Books : /\ OnlyChanges(b, d, o) /\ SameLists(b, d)
                         /\ d.order[o] = EnteredOrder(t, i, side, price, qty)
                         /\ d.order[o].level = Nil
                         /\ c = AddOrderToLevel(d, k, o)
  BY <1>1
<1>3. Shows(d, r) /\ Listed(d)
  BY <1>2, SameShows, SameListsListed DEF SameLists
<1>4. d.order[o].id = i /\ d.order[o].qty = qty
  BY <1>2 DEF EnteredOrder, BlankOrder
<1>5. Shows(c, [r EXCEPT ![k] = Append(@, [id |-> d.order[o].id, qty |-> d.order[o].qty])])
  BY <1>1, <1>2, <1>3, AddOrderShows
<1> QED
  BY <1>4, <1>5 DEF LOB!Place, LevelKey

\* A repriced order is taken out and shows at the end of its new level.
LEMMA ChangePriceShows ==
  ASSUME NEW b \in Books, NEW o \in Ptrs, Listed(b), NEW r, Shows(b, r), NEW price \in Prices,
         NEW k \in Levels, k = b.order[o].level, NEW w, NEW m, Places(b, r, o, w, m),
         NEW j \in Levels, j = LevelKey(b.order[o].token, b.order[o].side, price),
         NEW c, c = ChangePrice(b, o, price), NEW s, s = [r EXCEPT ![k] = LOB!RemoveAt(@, m)]
  PROVE  Shows(c, [s EXCEPT ![j] =
                     Append(@, [id |-> b.order[o].id, qty |-> b.order[o].qty])])
<1> DEFINE removed == RemoveOrderFromLevel(b, o)
<1>1. Shows(removed, s) /\ removed \in Books /\ Listed(removed)
  BY RemoveOrderShows, RemoveOrderEffect, RemoveOrderLists
<1>2. removed.order[o].level = Nil
  <2>1. SameOrder(removed.order[o], [b.order[o] EXCEPT !.level = Nil])
        /\ b.order[o] \in OrderRecords
    BY RemoveOrderEffect DEF Books
  <2> QED
    BY <2>1 DEF SameOrder, OrderRecords
<1>0. PICK d \in Books : Reprices(b, o, price, j, removed, d, c)
  BY ChangePriceAppends
<1>3. /\ d.used = b.used /\ d.tree = b.tree \union {j} /\ d.byId = b.byId
      /\ OnlyChanges(removed, d, o) /\ SameLists(removed, d)
      /\ d.order[o].id = b.order[o].id /\ d.order[o].token = b.order[o].token
      /\ d.order[o].side = b.order[o].side /\ d.order[o].qty = b.order[o].qty
      /\ d.order[o].price = price /\ d.order[o].level = Nil
      /\ c = AddOrderToLevel(d, j, o)
  BY <1>0 DEF Reprices
<1> HIDE DEF removed
<1>4. Shows(d, s) /\ Listed(d)
  BY <1>1, <1>2, <1>3, SameShows, SameListsListed DEF SameLists
<1>5. Shows(c, [s EXCEPT ![j] = Append(@, [id |-> d.order[o].id, qty |-> d.order[o].qty])])
  BY <1>3, <1>4, AddOrderShows
<1> QED
  BY <1>3, <1>5

\* A discarded order is not shown.
LEMMA DiscardShows ==
  ASSUME NEW b \in Books, NEW o \in Ptrs, Listed(b), NEW r, Shows(b, r),
         NEW k \in Levels, k = b.order[o].level, NEW w, NEW m, Places(b, r, o, w, m),
         NEW t \in Tokens, b.order[o].id \in Ids, NEW c, c = Discard(b, t, o)
  PROVE  Shows(c, [r EXCEPT ![k] = LOB!RemoveAt(@, m)])
<1> DEFINE removed == RemoveOrderFromLevel(b, o)
           s == [r EXCEPT ![k] = LOB!RemoveAt(@, m)]
<1>1. Shows(removed, s) /\ removed \in Books
  BY RemoveOrderShows, RemoveOrderEffect
<1>2. /\ c \in Books /\ OnlyChanges(removed, c, o) /\ removed.order[o].level = Nil
      /\ SameLinks(removed, c)
  <2>1. /\ c \in Books /\ c.used = b.used \ {o} /\ c.tree = b.tree
        /\ c.byId = [b.byId EXCEPT ![t][b.order[o].id] = Nil]
        /\ OnlyChanges(removed, c, o)
        /\ removed.order[o].level = Nil /\ c.order[o].level = Nil
        /\ Listed(b) => SameLists(removed, c)
    BY DiscardFrees
  <2> QED
    BY <2>1 DEF SameLists
<1> HIDE DEF removed, s
<1>3. Shows(c, s)
  BY <1>1, <1>2, SameShows
<1> QED
  BY <1>3 DEF s
================================================================================
