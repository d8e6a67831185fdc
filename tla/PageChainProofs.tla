-------------------------- MODULE PageChainProofs --------------------------
(***************************************************************************)
(* Proofs about the page chain, for every set of keys, every page size and *)
(* whatever an uninitialised total holds.                                  *)
(***************************************************************************)
EXTENDS PageChain, TLAPS

-----------------------------------------------------------------------------
(* Lemmas about one page *)

\* The keys of rows are compared as integers.
LEMMA KeysAreIntegers ==
    ASSUME NEW r \in Row
    PROVE  r.key \in Int
BY PageChainAssumption DEF Row

\* Half of a count of two or more leaves records on both sides.
LEMMA HalvingFacts ==
    ASSUME NEW n \in Nat, n >= 2
    PROVE  n \div 2 \in Nat /\ 1 <= n \div 2 /\ n \div 2 < n
OBVIOUS

\* Record j of the array recs after r was put at place i.
Shifted(recs, i, r, j) ==
    IF j < i THEN recs[j] ELSE IF j = i THEN r ELSE recs[j - 1]

\* Putting a record into an array of records shifts the later ones by one.
LEMMA WithRecordAtFacts ==
    ASSUME NEW recs \in Seq(Row), NEW i \in 1 .. Len(recs) + 1, NEW r \in Row
    PROVE  /\ WithRecordAt(recs, i, r) \in Seq(Row)
           /\ Len(WithRecordAt(recs, i, r)) = Len(recs) + 1
           /\ \A j \in 1 .. Len(recs) + 1 :
                 WithRecordAt(recs, i, r)[j] = Shifted(recs, i, r, j)
<1> DEFINE new == WithRecordAt(recs, i, r)
<1>1. \A j \in 1 .. Len(recs) + 1 :
         (IF j < i THEN recs[j] ELSE IF j = i THEN r ELSE recs[j - 1]) \in Row
  OBVIOUS
<1>2. new \in [1 .. Len(recs) + 1 -> Row]
  BY <1>1 DEF WithRecordAt
<1>3. Len(recs) + 1 \in Nat
  OBVIOUS
<1>4. new \in Seq(Row) /\ Len(new) = Len(recs) + 1
  BY <1>2, <1>3
<1> QED
  BY <1>4 DEF WithRecordAt, Shifted

\* A page with a record added is a page, with one record more.
LEMMA InsertedFacts ==
    ASSUME NEW page, PageOK(page), page.recs # <<>>,
           NEW i \in 1 .. Len(page.recs) + 1, NEW r \in Row
    PROVE  /\ PageOK(Inserted(page, i, r))
           /\ Len(Inserted(page, i, r).recs) = Len(page.recs) + 1
           /\ Len(page.recs) >= 1
<1>1. page.recs \in Seq(Row) /\ page.room \in Nat \ {0} /\ page.cap \in Nat \ {0}
  BY DEF PageOK
<1>2. Len(page.recs) \in Nat /\ Len(page.recs) >= 1
  BY <1>1
<1>3. /\ Inserted(page, i, r).recs = WithRecordAt(page.recs, i, r)
      /\ Inserted(page, i, r).cap = page.cap
      /\ Inserted(page, i, r).room =
            IF Len(page.recs) + 1 > page.cap THEN 2 * Len(page.recs) ELSE page.room
  BY DEF Inserted
<1>4. Inserted(page, i, r).room \in Nat \ {0}
  BY <1>1, <1>2, <1>3
<1> QED
  BY <1>1, <1>2, <1>3, <1>4, WithRecordAtFacts DEF PageOK

\* A page of two records or more is split into two pages that have records.
LEMMA HalfFacts ==
    ASSUME NEW page, PageOK(page), Len(page.recs) >= 2, NEW garbage
    PROVE  /\ Half(page) \in Nat /\ 1 <= Half(page) /\ Half(page) < Len(page.recs)
           /\ PageOK(LowerHalf(page))
           /\ PageOK(UpperHalf(page, garbage))
           /\ Len(LowerHalf(page).recs) = Half(page)
           /\ Len(UpperHalf(page, garbage).recs) = Len(page.recs) - Half(page)
<1>1. /\ page.recs \in Seq(Row) /\ Len(page.recs) \in Nat
      /\ page.room \in Nat \ {0} /\ page.cap \in Nat \ {0}
  BY DEF PageOK
<1>2. Half(page) \in Nat /\ 1 <= Half(page) /\ Half(page) < Len(page.recs)
  BY <1>1, HalvingFacts DEF Half
<1> DEFINE moved == Len(page.recs) - Half(page)
<1>3. moved \in Nat \ {0}
  BY <1>1, <1>2
<1>4. [j \in 1 .. Half(page) |-> page.recs[j]] \in [1 .. Half(page) -> Row]
  BY <1>1, <1>2
<1>5. [j \in 1 .. moved |-> page.recs[j + Half(page)]] \in [1 .. moved -> Row]
  BY <1>1, <1>2, <1>3
<1>6. LowerHalf(page).recs \in Seq(Row) /\ Len(LowerHalf(page).recs) = Half(page)
  BY <1>2, <1>4 DEF LowerHalf
<1>7. /\ UpperHalf(page, garbage).recs \in Seq(Row)
      /\ Len(UpperHalf(page, garbage).recs) = moved
  BY <1>3, <1>5 DEF UpperHalf
<1>8. PageOK(LowerHalf(page))
  BY <1>1, <1>6 DEF PageOK, LowerHalf
<1>9. PageOK(UpperHalf(page, garbage))
  BY <1>3, <1>7 DEF PageOK, UpperHalf
<1> QED
  BY <1>2, <1>6, <1>7, <1>8, <1>9

-----------------------------------------------------------------------------
(* Lemmas about the chain *)

\* Where record j of page q of a split chain was before page p was split.
FromPage(p, q) == IF q <= p THEN q ELSE q - 1

FromRecord(pages, p, q, j) == IF q = p + 1 THEN j + Half(pages[p]) ELSE j

\* A split moves records and drops none: every record comes from the place
\* given above, every place of the old chain has one in the new chain, and
\* the order of places is kept.
LEMMA SplitFacts ==
    ASSUME NEW pages, PagesOK(pages), NEW p \in DOMAIN pages,
           Len(pages[p].recs) >= 2, Overfull(pages[p]), NEW garbage
    PROVE  LET new == SplitIfFull(pages, p, garbage)
           IN  /\ Len(new) = Len(pages) + 1
               /\ DOMAIN new = 1 .. Len(pages) + 1
               /\ \A q \in DOMAIN new :
                    new[q] = IF q < p THEN pages[q]
                             ELSE IF q = p THEN LowerHalf(pages[p])
                             ELSE IF q = p + 1 THEN UpperHalf(pages[p], garbage)
                             ELSE pages[q - 1]
               /\ PagesOK(new)
<1> DEFINE new == SplitIfFull(pages, p, garbage)
<1>1. Len(pages) \in Nat /\ p \in 1 .. Len(pages) /\ DOMAIN pages = 1 .. Len(pages)
  BY DEF PagesOK
<1>2. new = [q \in 1 .. Len(pages) + 1 |->
               IF q < p THEN pages[q]
               ELSE IF q = p THEN LowerHalf(pages[p])
               ELSE IF q = p + 1 THEN UpperHalf(pages[p], garbage)
               ELSE pages[q - 1]]
  BY DEF SplitIfFull
<1>3. Len(new) = Len(pages) + 1 /\ DOMAIN new = 1 .. Len(pages) + 1
  BY <1>1, <1>2
<1>4. PageOK(pages[p])
  BY DEF PagesOK
<1>5. PageOK(LowerHalf(pages[p])) /\ PageOK(UpperHalf(pages[p], garbage))
  BY <1>4, HalfFacts
<1>6. ASSUME NEW q \in DOMAIN new PROVE PageOK(new[q])
  <2>1. q \in 1 .. Len(pages) + 1
    BY <1>3
  <2>2. CASE q < p
    BY <1>1, <1>2, <2>1, <2>2 DEF PagesOK
  <2>3. CASE q = p
    BY <1>1, <1>2, <1>5, <2>1, <2>3
  <2>4. CASE q = p + 1
    BY <1>1, <1>2, <1>5, <2>1, <2>4
  <2>5. CASE q > p + 1
    <3>1. q - 1 \in DOMAIN pages
      BY <1>1, <2>1, <2>5
    <3> QED
      BY <1>1, <1>2, <2>1, <2>5, <3>1 DEF PagesOK
  <2> QED
    BY <1>1, <2>1, <2>2, <2>3, <2>4, <2>5
<1>7. PagesOK(new)
  BY <1>1, <1>3, <1>6 DEF PagesOK
<1> QED
  BY <1>2, <1>3, <1>7

\* Every record after a split was a record before it, and the order of
\* two places is the order of the places they came from.
LEMMA SplitSources ==
    ASSUME NEW pages, PagesOK(pages), NEW p \in DOMAIN pages,
           Len(pages[p].recs) >= 2, Overfull(pages[p]), NEW garbage,
           NEW q \in DOMAIN SplitIfFull(pages, p, garbage),
           NEW j \in DOMAIN SplitIfFull(pages, p, garbage)[q].recs
    PROVE  /\ FromPage(p, q) \in DOMAIN pages
           /\ FromRecord(pages, p, q, j) \in DOMAIN pages[FromPage(p, q)].recs
           /\ SplitIfFull(pages, p, garbage)[q].recs[j] =
                pages[FromPage(p, q)].recs[FromRecord(pages, p, q, j)]
           /\ q = p => j <= Half(pages[p])
           /\ j \in Nat \ {0}
<1> DEFINE new == SplitIfFull(pages, p, garbage)
<1>1. Len(pages) \in Nat /\ p \in 1 .. Len(pages) /\ DOMAIN pages = 1 .. Len(pages)
  BY DEF PagesOK
<1>2. q \in 1 .. Len(pages) + 1
  BY SplitFacts
<1>3. new[q] = IF q < p THEN pages[q]
               ELSE IF q = p THEN LowerHalf(pages[p])
               ELSE IF q = p + 1 THEN UpperHalf(pages[p], garbage)
               ELSE pages[q - 1]
  BY SplitFacts
<1>4. PageOK(pages[p]) /\ PageOK(new[q])
  BY SplitFacts DEF PagesOK
<1>5. new[q].recs \in Seq(Row) /\ j \in 1 .. Len(new[q].recs)
  BY <1>4 DEF PageOK
<1>6. /\ Half(pages[p]) \in Nat /\ Half(pages[p]) < Len(pages[p].recs)
      /\ Len(LowerHalf(pages[p]).recs) = Half(pages[p])
      /\ Len(UpperHalf(pages[p], garbage).recs) = Len(pages[p].recs) - Half(pages[p])
      /\ pages[p].recs \in Seq(Row)
  BY <1>4, HalfFacts DEF PageOK
<1>7. CASE q < p \/ q > p + 1
  BY <1>1, <1>2, <1>3, <1>5, <1>7 DEF FromPage, FromRecord
<1>8. CASE q = p
  <2>1. new[q].recs[j] = pages[p].recs[j] /\ j \in 1 .. Half(pages[p])
    BY <1>1, <1>3, <1>5, <1>6, <1>8 DEF LowerHalf
  <2> QED
    BY <1>1, <1>5, <1>6, <1>8, <2>1 DEF FromPage, FromRecord
<1>9. CASE q = p + 1
  <2>1. j \in 1 .. (Len(pages[p].recs) - Half(pages[p]))
    BY <1>1, <1>3, <1>5, <1>6, <1>9
  <2>2. new[q].recs[j] = pages[p].recs[j + Half(pages[p])]
    BY <1>1, <1>3, <1>6, <1>9, <2>1 DEF UpperHalf
  <2>3. FromPage(p, q) = p /\ FromRecord(pages, p, q, j) = j + Half(pages[p])
    BY <1>1, <1>9 DEF FromPage, FromRecord
  <2>4. j + Half(pages[p]) \in DOMAIN pages[p].recs
    BY <1>6, <2>1
  <2> QED
    BY <1>1, <1>5, <1>9, <2>1, <2>2, <2>3, <2>4
<1> QED
  BY <1>1, <1>2, <1>7, <1>8, <1>9

\* A split keeps the order of the keys.
LEMMA SplitOrdered ==
    ASSUME NEW pages, PagesOK(pages), Ordered(pages), NEW p \in DOMAIN pages,
           Len(pages[p].recs) >= 2, Overfull(pages[p]), NEW garbage
    PROVE  Ordered(SplitIfFull(pages, p, garbage))
<1> DEFINE new == SplitIfFull(pages, p, garbage)
<1> SUFFICES ASSUME NEW q \in DOMAIN new, NEW i \in DOMAIN new[q].recs,
                    NEW t \in DOMAIN new, NEW j \in DOMAIN new[t].recs,
                    Precedes(q, i, t, j)
             PROVE  /\ new[q].recs[i].key <= new[t].recs[j].key
                    /\ RejectsDuplicates => new[q].recs[i].key # new[t].recs[j].key
  BY DEF Ordered
<1>1. Len(pages) \in Nat /\ p \in 1 .. Len(pages)
  BY DEF PagesOK
<1>2. q \in 1 .. Len(pages) + 1 /\ t \in 1 .. Len(pages) + 1
  BY SplitFacts
<1>3. Half(pages[p]) \in Nat
  BY HalfFacts DEF PagesOK
<1>4. /\ FromPage(p, q) \in DOMAIN pages
      /\ FromRecord(pages, p, q, i) \in DOMAIN pages[FromPage(p, q)].recs
      /\ new[q].recs[i] = pages[FromPage(p, q)].recs[FromRecord(pages, p, q, i)]
      /\ q = p => i <= Half(pages[p])
      /\ i \in Nat \ {0}
  BY SplitSources
<1>5. /\ FromPage(p, t) \in DOMAIN pages
      /\ FromRecord(pages, p, t, j) \in DOMAIN pages[FromPage(p, t)].recs
      /\ new[t].recs[j] = pages[FromPage(p, t)].recs[FromRecord(pages, p, t, j)]
      /\ j \in Nat \ {0}
  BY SplitSources
<1>6. Precedes(FromPage(p, q), FromRecord(pages, p, q, i),
               FromPage(p, t), FromRecord(pages, p, t, j))
  BY <1>1, <1>2, <1>3, <1>4, <1>5 DEF Precedes, FromPage, FromRecord
<1> QED
  BY <1>4, <1>5, <1>6 DEF Ordered

\* The chain after r was put before record i of page p, before any split.
WithInserted(pages, p, i, r) == [pages EXCEPT ![p] = Inserted(pages[p], i, r)]

\* The chain with a record put into page p, place by place.
LEMMA WithInsertedFacts ==
    ASSUME NEW pages, PagesOK(pages), NEW p \in DOMAIN pages, pages[p].recs # <<>>,
           NEW i \in 1 .. Len(pages[p].recs) + 1, NEW r \in Row
    PROVE  /\ PagesOK(WithInserted(pages, p, i, r))
           /\ DOMAIN WithInserted(pages, p, i, r) = DOMAIN pages
           /\ Len(WithInserted(pages, p, i, r)) = Len(pages)
           /\ Len(WithInserted(pages, p, i, r)[p].recs) = Len(pages[p].recs) + 1
           /\ Len(pages[p].recs) >= 1
           /\ \A q \in DOMAIN pages : q # p => WithInserted(pages, p, i, r)[q] = pages[q]
           /\ \A j \in 1 .. Len(pages[p].recs) + 1 :
                 WithInserted(pages, p, i, r)[p].recs[j] = Shifted(pages[p].recs, i, r, j)
<1> DEFINE new == WithInserted(pages, p, i, r)
<1>1. PageOK(pages[p]) /\ pages[p].recs \in Seq(Row)
  BY DEF PagesOK, PageOK
<1>2. /\ PageOK(Inserted(pages[p], i, r))
      /\ Len(Inserted(pages[p], i, r).recs) = Len(pages[p].recs) + 1
      /\ Len(pages[p].recs) >= 1
  BY <1>1, InsertedFacts
<1>3. /\ DOMAIN new = DOMAIN pages
      /\ new[p] = Inserted(pages[p], i, r)
      /\ \A q \in DOMAIN pages : q # p => new[q] = pages[q]
  BY DEF WithInserted
<1>4. Len(pages) \in Nat /\ DOMAIN pages = 1 .. Len(pages)
  BY DEF PagesOK
<1>5. new = [q \in 1 .. Len(pages) |-> new[q]]
  BY <1>4 DEF WithInserted
<1>6. Len(new) = Len(pages)
  BY <1>4, <1>5
<1>7. PagesOK(new)
  BY <1>2, <1>3, <1>4, <1>6 DEF PagesOK
<1>8. new[p].recs = WithRecordAt(pages[p].recs, i, r)
  BY <1>3 DEF Inserted
<1>9. \A j \in 1 .. Len(pages[p].recs) + 1 :
         new[p].recs[j] = Shifted(pages[p].recs, i, r, j)
  BY <1>1, <1>8, WithRecordAtFacts
<1>10. Len(new[p].recs) = Len(pages[p].recs) + 1
  BY <1>2, <1>3
<1> QED
  BY <1>2, <1>3, <1>6, <1>7, <1>9, <1>10

\* Every key before the new record is smaller, every key from its place on
\* is at least as large: then the keys stay in order.
LEMMA InsertedOrdered ==
    ASSUME NEW pages, PagesOK(pages), Ordered(pages), NEW p \in DOMAIN pages,
           pages[p].recs # <<>>,
           NEW i \in 1 .. Len(pages[p].recs) + 1, NEW r \in Row,
           \A q \in DOMAIN pages : \A j \in DOMAIN pages[q].recs :
              Precedes(q, j, p, i) => pages[q].recs[j].key < r.key,
           \A q \in DOMAIN pages : \A j \in DOMAIN pages[q].recs :
              ~Precedes(q, j, p, i) =>
                 /\ r.key <= pages[q].recs[j].key
                 /\ RejectsDuplicates => r.key # pages[q].recs[j].key
    PROVE  Ordered(WithInserted(pages, p, i, r))
<1> DEFINE new == WithInserted(pages, p, i, r)
           Source(q, j) == IF q = p /\ j > i THEN j - 1 ELSE j
<1>0. /\ PagesOK(new)
      /\ DOMAIN new = DOMAIN pages
      /\ Len(new) = Len(pages)
      /\ Len(new[p].recs) = Len(pages[p].recs) + 1
      /\ Len(pages[p].recs) >= 1
      /\ \A q \in DOMAIN pages : q # p => new[q] = pages[q]
      /\ \A j \in 1 .. Len(pages[p].recs) + 1 :
            new[p].recs[j] = Shifted(pages[p].recs, i, r, j)
  BY WithInsertedFacts
<1> HIDE DEF new
<1>1. /\ DOMAIN new = DOMAIN pages
      /\ DOMAIN pages = 1 .. Len(pages) /\ Len(pages) \in Nat
      /\ pages[p].recs \in Seq(Row)
  BY <1>0 DEF PagesOK, PageOK
<1>2. ASSUME NEW q \in DOMAIN new, NEW j \in DOMAIN new[q].recs
      PROVE  /\ j \in Nat \ {0}
             /\ \/ q = p /\ j = i /\ new[q].recs[j] = r
                \/ /\ ~(q = p /\ j = i)
                   /\ Source(q, j) \in DOMAIN pages[q].recs
                   /\ new[q].recs[j] = pages[q].recs[Source(q, j)]
                   /\ new[q].recs[j].key \in Int
  <2>0. new[q].recs \in Seq(Row) /\ j \in 1 .. Len(new[q].recs)
    BY <1>0 DEF PagesOK, PageOK
  <2>1. CASE q # p
    <3>1. new[q] = pages[q]
      BY <1>0, <2>1
    <3> QED
      BY <1>1, <2>0, <2>1, <3>1, KeysAreIntegers
  <2>2. CASE q = p
    <3>1. Len(new[p].recs) = Len(pages[p].recs) + 1
      BY <1>0
    <3>2. new[p].recs[j] = Shifted(pages[p].recs, i, r, j)
      BY <1>0, <2>0, <2>2, <3>1
    <3>3. new[q].recs[j] \in Row
      BY <2>0
    <3> QED
      BY <1>1, <2>0, <2>2, <3>1, <3>2, <3>3, KeysAreIntegers DEF Shifted
  <2> QED
    BY <2>1, <2>2
<1> SUFFICES ASSUME NEW q \in DOMAIN new, NEW j \in DOMAIN new[q].recs,
                    NEW t \in DOMAIN new, NEW k \in DOMAIN new[t].recs,
                    Precedes(q, j, t, k)
             PROVE  /\ new[q].recs[j].key <= new[t].recs[k].key
                    /\ RejectsDuplicates => new[q].recs[j].key # new[t].recs[k].key
  BY DEF Ordered, new
<1>3. r.key \in Int /\ i \in Nat /\ p \in Nat /\ q \in Nat /\ t \in Nat
  BY <1>1, KeysAreIntegers
<1>4. CASE q = p /\ j = i
  <2>1. ~(t = p /\ k = i)
    BY <1>3, <1>4 DEF Precedes
  <2>2. ~Precedes(t, Source(t, k), p, i)
    BY <1>2, <1>3, <1>4 DEF Precedes
  <2>3. new[q].recs[j] = r
    BY <1>2, <1>4
  <2>4. /\ t \in DOMAIN pages /\ Source(t, k) \in DOMAIN pages[t].recs
        /\ new[t].recs[k] = pages[t].recs[Source(t, k)]
    BY <1>1, <1>2, <2>1
  <2> HIDE DEF Source
  <2> QED
    BY <2>2, <2>3, <2>4
<1>5. CASE t = p /\ k = i
  <2>1. ~(q = p /\ j = i)
    BY <1>3, <1>5 DEF Precedes
  <2>2. Precedes(q, Source(q, j), p, i)
    BY <1>2, <1>3, <1>5 DEF Precedes
  <2>3. new[t].recs[k] = r
    BY <1>2, <1>5
  <2>4. /\ q \in DOMAIN pages /\ Source(q, j) \in DOMAIN pages[q].recs
        /\ new[q].recs[j] = pages[q].recs[Source(q, j)]
        /\ new[q].recs[j].key \in Int
    BY <1>1, <1>2, <2>1
  <2> HIDE DEF Source
  <2>5. new[q].recs[j].key < r.key
    BY <2>2, <2>4
  <2> QED
    BY <1>3, <2>3, <2>4, <2>5
<1>6. CASE ~(q = p /\ j = i) /\ ~(t = p /\ k = i)
  <2>1. Precedes(q, Source(q, j), t, Source(t, k))
    BY <1>2, <1>3, <1>6 DEF Precedes
  <2>2. /\ q \in DOMAIN pages /\ Source(q, j) \in DOMAIN pages[q].recs
        /\ new[q].recs[j] = pages[q].recs[Source(q, j)]
    BY <1>1, <1>2, <1>6
  <2>3. /\ t \in DOMAIN pages /\ Source(t, k) \in DOMAIN pages[t].recs
        /\ new[t].recs[k] = pages[t].recs[Source(t, k)]
    BY <1>1, <1>2, <1>6
  <2> HIDE DEF Source
  <2>4. /\ pages[q].recs[Source(q, j)].key <= pages[t].recs[Source(t, k)].key
        /\ RejectsDuplicates =>
              pages[q].recs[Source(q, j)].key # pages[t].recs[Source(t, k)].key
    BY <2>1, <2>2, <2>3 DEF Ordered
  <2> QED
    BY <2>2, <2>3, <2>4
<1> QED
  BY <1>4, <1>5, <1>6

\* The invariants that speak of single pages, for any chain of pages.
NonEmpty(pages) == \A p \in DOMAIN pages : pages[p].recs # <<>>

HaveSlots(pages) ==
    \A p \in DOMAIN pages :
        pages[p].room >= pages[p].cap => Len(pages[p].recs) <= pages[p].room

\* Splitting a page with two records or more leaves records in every page
\* and slots for all of them.
LEMMA SplitPages ==
    ASSUME NEW pages, PagesOK(pages), NonEmpty(pages), HaveSlots(pages),
           NEW p \in DOMAIN pages,
           Len(pages[p].recs) >= 2, Overfull(pages[p]), NEW garbage
    PROVE  /\ NonEmpty(SplitIfFull(pages, p, garbage))
           /\ HaveSlots(SplitIfFull(pages, p, garbage))
<1> DEFINE new == SplitIfFull(pages, p, garbage)
<1>1. /\ Len(pages) \in Nat /\ p \in 1 .. Len(pages) /\ DOMAIN pages = 1 .. Len(pages)
      /\ PageOK(pages[p])
  BY DEF PagesOK
<1>2. /\ DOMAIN new = 1 .. Len(pages) + 1
      /\ \A q \in DOMAIN new :
            new[q] = IF q < p THEN pages[q]
                     ELSE IF q = p THEN LowerHalf(pages[p])
                     ELSE IF q = p + 1 THEN UpperHalf(pages[p], garbage)
                     ELSE pages[q - 1]
  BY SplitFacts
<1> HIDE DEF new
<1>3. /\ Half(pages[p]) \in Nat /\ 1 <= Half(pages[p]) /\ Half(pages[p]) < Len(pages[p].recs)
      /\ Len(LowerHalf(pages[p]).recs) = Half(pages[p])
      /\ Len(UpperHalf(pages[p], garbage).recs) = Len(pages[p].recs) - Half(pages[p])
      /\ Len(pages[p].recs) \in Nat
  BY <1>1, HalfFacts DEF PageOK
<1>4. /\ LowerHalf(pages[p]).recs # <<>>
      /\ LowerHalf(pages[p]).room = pages[p].room
      /\ LowerHalf(pages[p]).cap = pages[p].cap
  BY <1>3 DEF LowerHalf
<1>5. /\ UpperHalf(pages[p], garbage).recs # <<>>
      /\ UpperHalf(pages[p], garbage).room = 2 * (Len(pages[p].recs) - Half(pages[p]))
  BY <1>3 DEF UpperHalf
<1>6. pages[p].room \in Nat /\ pages[p].cap \in Nat
  BY <1>1 DEF PageOK
<1>7. ASSUME NEW q \in DOMAIN new
      PROVE  /\ new[q].recs # <<>>
             /\ new[q].room >= new[q].cap => Len(new[q].recs) <= new[q].room
  <2>1. CASE q < p
    BY <1>1, <1>2, <2>1 DEF NonEmpty, HaveSlots
  <2>2. CASE q = p
    BY <1>1, <1>2, <1>3, <1>4, <1>6, <2>2 DEF HaveSlots
  <2>3. CASE q = p + 1
    BY <1>1, <1>2, <1>3, <1>5, <2>3
  <2>4. CASE q > p + 1
    <3>1. q - 1 \in DOMAIN pages /\ new[q] = pages[q - 1]
      BY <1>1, <1>2, <2>4
    <3> QED
      BY <3>1 DEF NonEmpty, HaveSlots
  <2> QED
    BY <1>1, <1>2, <2>1, <2>2, <2>3, <2>4
<1> QED
  BY <1>7 DEF NonEmpty, HaveSlots, new

\* The same for the insertion that comes before.
LEMMA InsertedPages ==
    ASSUME NEW pages, PagesOK(pages), NonEmpty(pages), HaveSlots(pages),
           NEW p \in DOMAIN pages,
           NEW i \in 1 .. Len(pages[p].recs) + 1, NEW r \in Row
    PROVE  /\ NonEmpty(WithInserted(pages, p, i, r))
           /\ HaveSlots(WithInserted(pages, p, i, r))
<1> DEFINE new == WithInserted(pages, p, i, r)
<1>1. pages[p].recs # <<>>
  BY DEF NonEmpty
<1>2. /\ DOMAIN new = DOMAIN pages
      /\ Len(new[p].recs) = Len(pages[p].recs) + 1
      /\ Len(pages[p].recs) >= 1
      /\ \A q \in DOMAIN pages : q # p => new[q] = pages[q]
  BY <1>1, WithInsertedFacts
<1>3. new[p] = Inserted(pages[p], i, r)
  BY DEF WithInserted
<1> HIDE DEF new
<1>4. /\ Len(pages[p].recs) \in Nat
      /\ pages[p].room \in Nat /\ pages[p].cap \in Nat
  BY DEF PagesOK, PageOK
<1>5. new[p].room >= new[p].cap => Len(new[p].recs) <= new[p].room
  BY <1>2, <1>3, <1>4 DEF HaveSlots, Inserted
<1>6. new[p].recs # <<>>
  BY <1>2, <1>4
<1> QED
  BY <1>2, <1>5, <1>6 DEF NonEmpty, HaveSlots, new

\* A split neither loses nor invents a row.
LEMMA SplitRows ==
    ASSUME NEW pages, PagesOK(pages), NEW p \in DOMAIN pages,
           Len(pages[p].recs) >= 2, Overfull(pages[p]), NEW garbage
    PROVE  RowsOf(SplitIfFull(pages, p, garbage)) = RowsOf(pages)
<1> DEFINE new == SplitIfFull(pages, p, garbage)
<1>1. ASSUME NEW s \in RowsOf(new) PROVE s \in RowsOf(pages)
  <2>1. PICK q \in DOMAIN new : \E j \in DOMAIN new[q].recs : s = new[q].recs[j]
    BY DEF RowsOf
  <2>2. PICK j \in DOMAIN new[q].recs : s = new[q].recs[j]
    BY <2>1
  <2>3. /\ FromPage(p, q) \in DOMAIN pages
        /\ FromRecord(pages, p, q, j) \in DOMAIN pages[FromPage(p, q)].recs
        /\ new[q].recs[j] = pages[FromPage(p, q)].recs[FromRecord(pages, p, q, j)]
    BY SplitSources
  <2> QED
    BY <2>2, <2>3 DEF RowsOf
<1>2. ASSUME NEW s \in RowsOf(pages) PROVE s \in RowsOf(new)
  <2>1. PICK q \in DOMAIN pages : \E j \in DOMAIN pages[q].recs : s = pages[q].recs[j]
    BY DEF RowsOf
  <2>2. PICK j \in DOMAIN pages[q].recs : s = pages[q].recs[j]
    BY <2>1
  <2>3. /\ Len(pages) \in Nat /\ DOMAIN pages = 1 .. Len(pages)
        /\ PageOK(pages[p]) /\ pages[p].recs \in Seq(Row)
    BY DEF PagesOK, PageOK
  <2>4. /\ DOMAIN new = 1 .. Len(pages) + 1
        /\ \A t \in DOMAIN new :
              new[t] = IF t < p THEN pages[t]
                       ELSE IF t = p THEN LowerHalf(pages[p])
                       ELSE IF t = p + 1 THEN UpperHalf(pages[p], garbage)
                       ELSE pages[t - 1]
    BY SplitFacts
  <2> HIDE DEF new
  <2>5. Half(pages[p]) \in Nat /\ Half(pages[p]) < Len(pages[p].recs)
    BY <2>3, HalfFacts
  <2>6. \E t \in DOMAIN new : \E k \in DOMAIN new[t].recs : s = new[t].recs[k]
    <3>1. CASE q < p
      BY <2>2, <2>3, <2>4, <3>1
    <3>2. CASE q > p
      <4>1. q + 1 \in DOMAIN new /\ new[q + 1] = pages[q]
        BY <2>3, <2>4, <3>2
      <4> QED
        BY <2>2, <4>1
    <3>3. CASE q = p /\ j <= Half(pages[p])
      <4>1. p \in DOMAIN new /\ new[p] = LowerHalf(pages[p])
        BY <2>3, <2>4
      <4>2. j \in 1 .. Half(pages[p])
        BY <2>2, <2>3, <2>5, <3>3
      <4>3. j \in DOMAIN LowerHalf(pages[p]).recs /\ LowerHalf(pages[p]).recs[j] = pages[p].recs[j]
        BY <4>2 DEF LowerHalf
      <4> QED
        BY <2>2, <3>3, <4>1, <4>3
    <3>4. CASE q = p /\ j > Half(pages[p])
      <4>1. p + 1 \in DOMAIN new /\ new[p + 1] = UpperHalf(pages[p], garbage)
        BY <2>3, <2>4
      <4>2. j - Half(pages[p]) \in 1 .. (Len(pages[p].recs) - Half(pages[p]))
        BY <2>2, <2>3, <2>5, <3>4
      <4>3. /\ j - Half(pages[p]) \in DOMAIN UpperHalf(pages[p], garbage).recs
            /\ UpperHalf(pages[p], garbage).recs[j - Half(pages[p])] =
                  pages[p].recs[(j - Half(pages[p])) + Half(pages[p])]
        BY <4>2 DEF UpperHalf
      <4>4. (j - Half(pages[p])) + Half(pages[p]) = j
        BY <2>2, <2>3, <2>5, <3>4
      <4> QED
        BY <2>2, <3>4, <4>1, <4>3, <4>4
    <3> QED
      BY <2>3, <2>5, <2>2, <3>1, <3>2, <3>3, <3>4
  <2> QED
    BY <2>6 DEF RowsOf, new
<1> QED
  BY <1>1, <1>2

\* Before any split, the insertion adds its row and keeps the others.
LEMMA InsertedRows ==
    ASSUME NEW pages, PagesOK(pages), NEW p \in DOMAIN pages, pages[p].recs # <<>>,
           NEW i \in 1 .. Len(pages[p].recs) + 1, NEW r \in Row
    PROVE  RowsOf(WithInserted(pages, p, i, r)) = RowsOf(pages) \cup {r}
<1> DEFINE new == WithInserted(pages, p, i, r)
<1>1. /\ PagesOK(new)
      /\ DOMAIN new = DOMAIN pages
      /\ Len(new[p].recs) = Len(pages[p].recs) + 1
      /\ \A q \in DOMAIN pages : q # p => new[q] = pages[q]
      /\ \A j \in 1 .. Len(pages[p].recs) + 1 :
            new[p].recs[j] = Shifted(pages[p].recs, i, r, j)
  BY WithInsertedFacts
<1> HIDE DEF new
<1>2. /\ pages[p].recs \in Seq(Row) /\ new[p].recs \in Seq(Row)
      /\ Len(pages[p].recs) \in Nat
      /\ DOMAIN pages[p].recs = 1 .. Len(pages[p].recs)
      /\ DOMAIN new[p].recs = 1 .. Len(pages[p].recs) + 1
  BY <1>1 DEF PagesOK, PageOK
<1>3. ASSUME NEW j \in DOMAIN new[p].recs
      PROVE  new[p].recs[j] \in RowsOf(pages) \cup {r}
  BY <1>1, <1>2 DEF RowsOf, Shifted
<1>4. ASSUME NEW j \in DOMAIN pages[p].recs
      PROVE  \E k \in DOMAIN new[p].recs : pages[p].recs[j] = new[p].recs[k]
  <2>1. CASE j < i
    BY <1>1, <1>2, <2>1 DEF Shifted
  <2>2. CASE j >= i
    <3>1. j + 1 \in DOMAIN new[p].recs /\ (j + 1) - 1 = j /\ ~(j + 1 <= i)
      BY <1>2, <2>2
    <3>2. new[p].recs[j + 1] = pages[p].recs[j]
      BY <1>1, <1>2, <2>2, <3>1 DEF Shifted
    <3> QED
      BY <3>1, <3>2
  <2> QED
    BY <1>2, <2>1, <2>2
<1>5. i \in DOMAIN new[p].recs /\ new[p].recs[i] = r
  BY <1>1, <1>2 DEF Shifted
<1>6. RowsOf(new) \subseteq RowsOf(pages) \cup {r}
  <2> SUFFICES ASSUME NEW q \in DOMAIN new, NEW j \in DOMAIN new[q].recs
               PROVE  new[q].recs[j] \in RowsOf(pages) \cup {r}
    BY DEF RowsOf
  <2>1. CASE q = p
    BY <1>3, <2>1
  <2>2. CASE q # p
    BY <1>1, <2>2 DEF RowsOf
  <2> QED
    BY <2>1, <2>2
<1>7. RowsOf(pages) \subseteq RowsOf(new)
  <2> SUFFICES ASSUME NEW q \in DOMAIN pages, NEW j \in DOMAIN pages[q].recs
               PROVE  pages[q].recs[j] \in RowsOf(new)
    BY DEF RowsOf
  <2>1. CASE q = p
    BY <1>1, <1>4, <2>1 DEF RowsOf
  <2>2. CASE q # p
    BY <1>1, <2>2 DEF RowsOf
  <2> QED
    BY <2>1, <2>2
<1>8. r \in RowsOf(new)
  BY <1>1, <1>5 DEF RowsOf
<1> QED
  BY <1>6, <1>7, <1>8 DEF new

-----------------------------------------------------------------------------
(* The inductive invariant *)

\* KeysOrdered is inductive only for a chain of proper, non-empty pages: the
\* scan then meets every key before it decides where the record goes.
IInv == TypeOK /\ NoPageEmpty /\ KeysOrdered /\ RecordsHaveSlots

ChainOK(pages) ==
    PagesOK(pages) /\ NonEmpty(pages) /\ Ordered(pages) /\ HaveSlots(pages)

\* But for the types of the others, the inductive invariant is a property of
\* the chain alone.
LEMMA IInvIsChainOK ==
    IInv <=> ChainOK(chain) /\ added \in BOOLEAN /\ ending \in {"null", "wild", "astray"}
BY DEF IInv, TypeOK, NoPageEmpty, KeysOrdered, RecordsHaveSlots, ChainOK, NonEmpty, HaveSlots

\* What Place does to a chain, when the place is the right one for the key.
LEMMA PlaceFacts ==
    ASSUME ChainOK(chain), NEW p \in DOMAIN chain,
           NEW i \in 1 .. Len(chain[p].recs) + 1, NEW r \in Row,
           \A q \in DOMAIN chain : \A j \in DOMAIN chain[q].recs :
              Precedes(q, j, p, i) => chain[q].recs[j].key < r.key,
           \A q \in DOMAIN chain : \A j \in DOMAIN chain[q].recs :
              ~Precedes(q, j, p, i) =>
                 /\ r.key <= chain[q].recs[j].key
                 /\ RejectsDuplicates => r.key # chain[q].recs[j].key,
           Place(p, i, r)
    PROVE  ChainOK(chain)' /\ RowsOf(chain)' = RowsOf(chain) \cup {r}
<1> DEFINE between == WithInserted(chain, p, i, r)
<1>1. chain[p].recs # <<>>
  BY DEF ChainOK, NonEmpty
<1>2. ChainOK(between) /\ RowsOf(between) = RowsOf(chain) \cup {r}
  BY <1>1, WithInsertedFacts, InsertedOrdered, InsertedPages, InsertedRows DEF ChainOK
<1>3. p \in DOMAIN between /\ Len(between[p].recs) >= 2
  <2>1. /\ DOMAIN between = DOMAIN chain
        /\ Len(between[p].recs) = Len(chain[p].recs) + 1
        /\ Len(chain[p].recs) >= 1
    BY <1>1, WithInsertedFacts DEF ChainOK
  <2>2. Len(chain[p].recs) \in Nat
    BY DEF ChainOK, PagesOK, PageOK
  <2> QED
    BY <2>1, <2>2
<1>4. PICK garbage \in Garbage : chain' = SplitIfFull(between, p, garbage)
  BY DEF Place, WithInserted
<1> HIDE DEF between
<1>5. CASE Overfull(between[p])
  <2>1. PagesOK(SplitIfFull(between, p, garbage))
    BY <1>2, <1>3, <1>5, SplitFacts DEF ChainOK
  <2>2. Ordered(SplitIfFull(between, p, garbage))
    BY <1>2, <1>3, <1>5, SplitOrdered DEF ChainOK
  <2>3. NonEmpty(SplitIfFull(between, p, garbage)) /\ HaveSlots(SplitIfFull(between, p, garbage))
    BY <1>2, <1>3, <1>5, SplitPages DEF ChainOK
  <2>4. RowsOf(SplitIfFull(between, p, garbage)) = RowsOf(between)
    BY <1>2, <1>3, <1>5, SplitRows DEF ChainOK
  <2>5. ChainOK(SplitIfFull(between, p, garbage))
    BY <2>1, <2>2, <2>3 DEF ChainOK
  <2>6. ChainOK(chain') /\ RowsOf(chain') = RowsOf(between)
    BY <1>4, <2>4, <2>5
  <2> QED
    BY <1>2, <2>6
<1>6. CASE ~Overfull(between[p])
  <2>1. chain' = between
    BY <1>4, <1>6 DEF SplitIfFull
  <2> QED
    BY <1>2, <2>1
<1> QED
  BY <1>5, <1>6

\* A first record makes a chain of one page.
LEMMA StartFacts ==
    ASSUME NEW r \in Row, StartChain(r)
    PROVE  ChainOK(chain)' /\ RowsOf(chain)' = {r}
<1>1. PICK garbage \in Garbage : chain' = <<FirstPage(r, garbage)>>
  BY DEF StartChain
<1>2. /\ FirstPage(r, garbage).recs = <<r>>
      /\ FirstPage(r, garbage).cap = Capacity
      /\ FirstPage(r, garbage).room = Capacity
  BY DEF FirstPage
<1>3. /\ Len(chain') = 1 /\ DOMAIN chain' = {1}
      /\ chain'[1].recs = <<r>> /\ chain'[1].cap = Capacity /\ chain'[1].room = Capacity
  BY <1>1, <1>2
<1>4. PagesOK(chain')
  <2>1. <<r>> \in Seq(Row)
    OBVIOUS
  <2>2. Capacity \in Nat \ {0}
    BY PageChainAssumption
  <2>3. PageOK(chain'[1])
    BY <1>3, <2>1, <2>2 DEF PageOK
  <2> QED
    BY <1>3, <2>3 DEF PagesOK
<1>5. NonEmpty(chain') /\ HaveSlots(chain')
  <2>1. <<r>> # <<>> /\ Len(<<r>>) = 1
    OBVIOUS
  <2>2. Capacity \in Nat \ {0}
    BY PageChainAssumption
  <2> QED
    BY <1>3, <2>1, <2>2 DEF NonEmpty, HaveSlots
<1>6. Ordered(chain')
  BY <1>3 DEF Ordered, Precedes
<1>7. RowsOf(chain') = {r}
  BY <1>3 DEF RowsOf
<1> QED
  BY <1>4, <1>5, <1>6, <1>7 DEF ChainOK

\* Where the scan stops without refusing, every key before is smaller and
\* every key from there on is larger (or equal, if duplicates pass).
LEMMA InsertBeforeFacts ==
    ASSUME ChainOK(chain), NEW r \in Row, InsertBefore(r)
    PROVE  ChainOK(chain)' /\ RowsOf(chain)' = RowsOf(chain) \cup {r}
<1>1. PICK p \in DOMAIN chain : \E i \in DOMAIN chain[p].recs :
         FirstStop(p, i, r) /\ ~Refuses(chain[p].recs[i], r) /\ Place(p, i, r)
  BY DEF InsertBefore
<1>2. PICK i \in DOMAIN chain[p].recs :
         FirstStop(p, i, r) /\ ~Refuses(chain[p].recs[i], r) /\ Place(p, i, r)
  BY <1>1
<1>3. chain[p].recs \in Seq(Row) /\ i \in 1 .. Len(chain[p].recs) + 1 /\ i \in Nat /\ p \in Nat
  BY DEF ChainOK, PagesOK, PageOK
<1>4. ASSUME NEW q \in DOMAIN chain, NEW j \in DOMAIN chain[q].recs
      PROVE  chain[q].recs[j].key \in Int /\ q \in Nat /\ j \in Nat
  <2>1. chain[q].recs \in Seq(Row) /\ q \in Nat
    BY DEF ChainOK, PagesOK, PageOK
  <2> QED
    BY <2>1, KeysAreIntegers
<1>5. r.key \in Int
  BY KeysAreIntegers
<1>6. /\ r.key <= chain[p].recs[i].key
      /\ RejectsDuplicates => r.key # chain[p].recs[i].key
  BY <1>2, <1>4, <1>5 DEF FirstStop, Stops, Refuses
<1>7. \A q \in DOMAIN chain : \A j \in DOMAIN chain[q].recs :
         Precedes(q, j, p, i) => chain[q].recs[j].key < r.key
  BY <1>2, <1>4, <1>5 DEF FirstStop, Stops
<1>8. ASSUME NEW q \in DOMAIN chain, NEW j \in DOMAIN chain[q].recs, ~Precedes(q, j, p, i)
      PROVE  /\ r.key <= chain[q].recs[j].key
             /\ RejectsDuplicates => r.key # chain[q].recs[j].key
  <2>1. CASE q = p /\ j = i
    BY <1>6, <2>1
  <2>2. CASE ~(q = p /\ j = i)
    <3>1. Precedes(p, i, q, j)
      BY <1>3, <1>4, <1>8, <2>2 DEF Precedes
    <3>2. chain[p].recs[i].key <= chain[q].recs[j].key
             /\ (RejectsDuplicates => chain[p].recs[i].key # chain[q].recs[j].key)
      BY <3>1 DEF ChainOK, Ordered
    <3> QED
      BY <1>4, <1>5, <1>6, <3>2
  <2> QED
    BY <2>1, <2>2
<1> QED
  BY <1>2, <1>3, <1>7, <1>8, PlaceFacts

\* When nothing stops the scan every key is smaller than the new one.
LEMMA AppendLastFacts ==
    ASSUME ChainOK(chain), NEW r \in Row, AppendLast(r)
    PROVE  ChainOK(chain)' /\ RowsOf(chain)' = RowsOf(chain) \cup {r}
<1> DEFINE p == Len(chain)
           i == Len(chain[p].recs) + 1
<1>1. NoStop(r) /\ Place(p, i, r) /\ p > 0
  BY DEF AppendLast
<1>2. p \in DOMAIN chain /\ DOMAIN chain = 1 .. p /\ p \in Nat
  <2>1. p \in Nat /\ DOMAIN chain = 1 .. p
    BY DEF ChainOK, PagesOK
  <2> QED
    BY <1>1, <2>1
<1>3. i \in 1 .. Len(chain[p].recs) + 1
  BY <1>2 DEF ChainOK, PagesOK, PageOK
<1>4. ASSUME NEW q \in DOMAIN chain, NEW j \in DOMAIN chain[q].recs
      PROVE  chain[q].recs[j].key < r.key /\ Precedes(q, j, p, i)
  <2>1. chain[q].recs \in Seq(Row)
    BY DEF ChainOK, PagesOK, PageOK
  <2>2. chain[q].recs[j].key \in Int /\ r.key \in Int
    BY <2>1, KeysAreIntegers
  <2>3. chain[q].recs[j].key < r.key
    BY <1>1, <2>2 DEF NoStop, Stops
  <2>4. Precedes(q, j, p, i)
    BY <1>2, <2>1 DEF Precedes
  <2> QED
    BY <2>3, <2>4
<1> QED
  BY <1>1, <1>2, <1>3, <1>4, PlaceFacts

\* Writing and reading a chain keeps its records and their places.
LEMMA ReloadFacts ==
    ASSUME ChainOK(chain), Reload
    PROVE  ChainOK(chain)' /\ RowsOf(chain)' = RowsOf(chain)
<1>1. Len(chain) \in Nat /\ DOMAIN chain = 1 .. Len(chain)
  BY DEF ChainOK, PagesOK
<1>2. chain' = [p \in 1 .. Len(chain) |->
                    [recs  |-> chain[p].recs,
                     total |-> Bytes(chain[p].recs),
                     cap   |-> Capacity,
                     room  |-> Len(chain[p].recs)]]
  BY DEF Reload
<1>3. Len(chain') = Len(chain) /\ DOMAIN chain' = DOMAIN chain
  BY <1>1, <1>2
<1>4. ASSUME NEW p \in DOMAIN chain
      PROVE  /\ chain'[p].recs = chain[p].recs
             /\ chain'[p].cap = Capacity
             /\ chain'[p].room = Len(chain[p].recs)
             /\ PageOK(chain[p])
             /\ chain[p].recs # <<>>
  BY <1>1, <1>2 DEF ChainOK, PagesOK, NonEmpty
<1>5. ASSUME NEW p \in DOMAIN chain PROVE PageOK(chain'[p])
  BY <1>4, PageChainAssumption DEF PageOK
<1>6. PagesOK(chain')
  BY <1>1, <1>3, <1>5 DEF PagesOK
<1>7. NonEmpty(chain') /\ HaveSlots(chain')
  BY <1>3, <1>4 DEF NonEmpty, HaveSlots, PageOK
<1>8. Ordered(chain')
  BY <1>3, <1>4 DEF ChainOK, Ordered
<1>9. RowsOf(chain') = RowsOf(chain)
  BY <1>3, <1>4 DEF RowsOf
<1> QED
  BY <1>6, <1>7, <1>8, <1>9 DEF ChainOK

\* A table without pages satisfies the inductive invariant.
LEMMA InitIInv == Init => IInv
<1> SUFFICES ASSUME Init PROVE IInv
  OBVIOUS
<1>1. chain = <<>> /\ added = FALSE /\ ending = "null"
  BY DEF Init
<1>2. Len(chain) = 0 /\ DOMAIN chain = {}
  BY <1>1
<1>3. ChainOK(chain)
  BY <1>2 DEF ChainOK, PagesOK, NonEmpty, Ordered, HaveSlots
<1> QED
  BY <1>1, <1>3, IInvIsChainOK

\* Every insert and every reload keep the inductive invariant.
LEMMA NextIInv == IInv /\ [Next]_vars => IInv'
<1> SUFFICES ASSUME ChainOK(chain), added \in BOOLEAN, ending \in {"null", "wild", "astray"},
                    [Next]_vars
             PROVE  ChainOK(chain)' /\ (added \in BOOLEAN)'
                    /\ (ending \in {"null", "wild", "astray"})'
  BY IInvIsChainOK, PTL
<1>1. ASSUME NEW r \in Row, Insert(r)
      PROVE  ChainOK(chain)' /\ added' \in BOOLEAN /\ ending' = ending
  <2>1. CASE StartChain(r)
    BY <1>1, <2>1, StartFacts DEF StartChain, Insert
  <2>2. CASE RefuseFirst(r)
    BY <1>1, <2>2 DEF RefuseFirst, Insert
  <2>3. CASE RefuseClash(r)
    BY <1>1, <2>3 DEF RefuseClash, Insert
  <2>4. CASE InsertBefore(r)
    BY <1>1, <2>4, InsertBeforeFacts DEF InsertBefore, Place, Insert
  <2>5. CASE AppendLast(r)
    BY <1>1, <2>5, AppendLastFacts DEF AppendLast, Place, Insert
  <2> QED
    BY <1>1, <2>1, <2>2, <2>3, <2>4, <2>5 DEF Insert
<1>2. CASE Reload
  BY <1>2, ReloadFacts DEF Reload
<1>3. CASE GoAstray
  BY <1>3 DEF GoAstray
<1>4. CASE UNCHANGED vars
  BY <1>4 DEF vars
<1> QED
  BY <1>1, <1>2, <1>3, <1>4 DEF Next

\* Every reachable chain is a list of proper pages with records, in key
\* order, in arrays that are large enough.
THEOREM Invariance == Spec => []IInv
BY InitIInv, NextIInv, PTL DEF Spec

\* The fields of every page keep their types (the total apart).
THEOREM TypeCorrect == Spec => []TypeOK
BY Invariance, PTL DEF IInv

\* The keys never decrease along the chain, across pages and splits, and
\* strictly increase when duplicates are rejected.
THEOREM KeysStayOrdered == Spec => []KeysOrdered
BY Invariance, PTL DEF IInv

\* No split leaves an empty page.
THEOREM NoPageEverEmpty == Spec => []NoPageEmpty
BY Invariance, PTL DEF IInv

\* The array of a page built in memory is never outgrown.
THEOREM SlotsSuffice == Spec => []RecordsHaveSlots
BY Invariance, PTL DEF IInv

-----------------------------------------------------------------------------
(* The pages implement the table *)

\* A row of the table is a record somewhere in the chain.
LEMMA RowsAreRecords ==
    ASSUME NEW s \in RowsOf(chain)
    PROVE  \E p \in DOMAIN chain : \E i \in DOMAIN chain[p].recs : s = chain[p].recs[i]
BY DEF RowsOf

\* A chain in key order takes a record only between the smaller keys, all
\* compared with it, and the larger ones: this is what Accept asks.
LEMMA InsertBeforeAccepts ==
    ASSUME IInv, RejectsDuplicates, NEW r \in Row, InsertBefore(r)
    PROVE  Table!Accept(r)
<1>1. ChainOK(chain)
  BY IInvIsChainOK
<1>2. PICK p \in DOMAIN chain : \E i \in DOMAIN chain[p].recs :
         FirstStop(p, i, r) /\ ~Refuses(chain[p].recs[i], r) /\ Place(p, i, r)
  BY DEF InsertBefore
<1>3. PICK i \in DOMAIN chain[p].recs :
         FirstStop(p, i, r) /\ ~Refuses(chain[p].recs[i], r) /\ Place(p, i, r)
  BY <1>2
<1>4. ASSUME NEW q \in DOMAIN chain, NEW j \in DOMAIN chain[q].recs
      PROVE  chain[q].recs[j].key \in Int /\ q \in Nat /\ j \in Nat
  <2>1. chain[q].recs \in Seq(Row) /\ q \in Nat
    BY <1>1 DEF ChainOK, PagesOK, PageOK
  <2> QED
    BY <2>1, KeysAreIntegers
<1>5. r.key \in Int
  BY KeysAreIntegers
<1>6. chain[p].recs[i].key > r.key
  BY <1>3, <1>4, <1>5 DEF FirstStop, Stops, Refuses
<1>7. ASSUME NEW s \in RowsOf(chain)
      PROVE  s.key # r.key /\ (s.key < r.key => ~SameUnique(r, s))
  <2>1. PICK q \in DOMAIN chain : \E j \in DOMAIN chain[q].recs : s = chain[q].recs[j]
    BY RowsAreRecords
  <2>2. PICK j \in DOMAIN chain[q].recs : s = chain[q].recs[j]
    BY <2>1
  <2>3. CASE Precedes(q, j, p, i)
    BY <1>3, <1>4, <1>5, <2>2, <2>3 DEF FirstStop, Stops
  <2>4. CASE q = p /\ j = i
    BY <1>4, <1>5, <1>6, <2>2, <2>4
  <2>5. CASE Precedes(p, i, q, j)
    <3>1. chain[p].recs[i].key <= chain[q].recs[j].key
      BY <1>1, <2>5 DEF ChainOK, Ordered
    <3> QED
      BY <1>4, <1>5, <1>6, <2>2, <3>1
  <2>6. Precedes(q, j, p, i) \/ (q = p /\ j = i) \/ Precedes(p, i, q, j)
    BY <1>4 DEF Precedes
  <2> QED
    BY <2>3, <2>4, <2>5, <2>6
<1>8. RowsOf(chain)' = RowsOf(chain) \cup {r}
  BY <1>1, InsertBeforeFacts
<1>9. added' = TRUE
  BY <1>3 DEF Place
<1> QED
  BY <1>7, <1>8, <1>9 DEF Table!Accept, Table!SameKey, Table!SameUnique, SameUnique

\* A record appended at the end has been compared with every row.
LEMMA AppendLastAccepts ==
    ASSUME IInv, NEW r \in Row, AppendLast(r)
    PROVE  Table!Accept(r)
<1>1. ChainOK(chain)
  BY IInvIsChainOK
<1>2. NoStop(r) /\ added' = TRUE
  BY DEF AppendLast, Place
<1>3. ASSUME NEW s \in RowsOf(chain)
      PROVE  s.key # r.key /\ ~SameUnique(r, s)
  <2>1. PICK q \in DOMAIN chain : \E j \in DOMAIN chain[q].recs : s = chain[q].recs[j]
    BY RowsAreRecords
  <2>2. PICK j \in DOMAIN chain[q].recs : s = chain[q].recs[j]
    BY <2>1
  <2>3. s \in Row
    BY <1>1, <2>2 DEF ChainOK, PagesOK, PageOK
  <2> QED
    BY <1>2, <2>2, <2>3, KeysAreIntegers DEF NoStop, Stops
<1>4. RowsOf(chain)' = RowsOf(chain) \cup {r}
  BY <1>1, AppendLastFacts
<1> QED
  BY <1>2, <1>3, <1>4 DEF Table!Accept, Table!SameKey, Table!SameUnique, SameUnique

\* The first record is accepted by the empty table.
LEMMA StartChainAccepts ==
    ASSUME NEW r \in Row, StartChain(r)
    PROVE  Table!Accept(r)
<1>1. chain = <<>> /\ added' = TRUE
  BY DEF StartChain
<1>2. RowsOf(chain) = {}
  BY <1>1 DEF RowsOf
<1>3. RowsOf(chain)' = {r}
  BY StartFacts
<1> QED
  BY <1>1, <1>2, <1>3 DEF Table!Accept

\* Both refusals leave the rows alone, for a reason the table admits.
LEMMA RefusalsRefuse ==
    ASSUME NEW r \in Row, RefuseFirst(r) \/ RefuseClash(r)
    PROVE  Table!Refuse(r)
<1>1. CASE RefuseFirst(r)
  <2>1. chain = <<>>
    BY <1>1 DEF RefuseFirst
  <2>2. RowsOf(chain) = {}
    BY <2>1 DEF RowsOf
  <2>3. added' = FALSE /\ RowsOf(chain)' = RowsOf(chain)
    BY <1>1 DEF RefuseFirst
  <2> QED
    BY <2>2, <2>3 DEF Table!Refuse
<1>2. CASE RefuseClash(r)
  <2>1. \E p \in DOMAIN chain : \E i \in DOMAIN chain[p].recs : Refuses(chain[p].recs[i], r)
    BY <1>2 DEF RefuseClash
  <2>2. \E s \in RowsOf(chain) : Refuses(s, r)
    BY <2>1 DEF RowsOf
  <2>3. \E s \in RowsOf(chain) : Table!Clash(r, s)
    BY <2>2 DEF Refuses, SameUnique, Table!Clash, Table!SameKey, Table!SameUnique
  <2>4. added' = FALSE /\ RowsOf(chain)' = RowsOf(chain)
    BY <1>2 DEF RefuseClash
  <2> QED
    BY <2>3, <2>4 DEF Table!Refuse
<1> QED
  BY <1>1, <1>2

\* The linked pages implement the ordered table, when the key type is one
\* whose duplicates are rejected: inserts add exactly their row or are
\* refused for a clash, and splits and reloads change no row.
THEOREM PagesImplementTable == RejectsDuplicates => (Spec => ImplementsTable)
<1> SUFFICES ASSUME RejectsDuplicates PROVE Spec => ImplementsTable
  OBVIOUS
<1>1. Init => Table!Init
  <2> SUFFICES ASSUME Init PROVE Table!Init
    OBVIOUS
  <2>1. chain = <<>> /\ added = FALSE
    BY DEF Init
  <2> QED
    BY <2>1 DEF Table!Init, RowsOf
<1>2. IInv /\ [Next]_vars => [Table!Next]_(Table!vars)
  <2> SUFFICES ASSUME IInv, [Next]_vars
               PROVE  Table!Next \/ UNCHANGED Table!vars
    OBVIOUS
  <2>1. ASSUME NEW r \in Row, Insert(r) PROVE Table!Next
    <3>1. r \in Table!Row
      BY DEF Row, Table!Row
    <3>2. Table!Accept(r) \/ Table!Refuse(r)
      BY <2>1, InsertBeforeAccepts, AppendLastAccepts, StartChainAccepts, RefusalsRefuse
      DEF Insert
    <3> QED
      BY <3>1, <3>2 DEF Table!Next
  <2>2. CASE Reload
    <3>1. RowsOf(chain)' = RowsOf(chain)
      BY <2>2, ReloadFacts, IInvIsChainOK
    <3>2. added' = added
      BY <2>2 DEF Reload
    <3> QED
      BY <3>1, <3>2 DEF Table!vars
  <2>3. CASE GoAstray
    BY <2>3 DEF GoAstray, Table!vars
  <2>4. CASE UNCHANGED vars
    BY <2>4 DEF vars, Table!vars
  <2> QED
    BY <2>1, <2>2, <2>3, <2>4 DEF Next
<1> QED
  BY <1>1, <1>2, Invariance, PTL DEF Spec, ImplementsTable, Table!Spec
=============================================================================
