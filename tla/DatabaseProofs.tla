-------------------------- MODULE DatabaseProofs --------------------------
(***************************************************************************)
(* Proofs about the statements of the program, for any number of tables,   *)
(* keys, columns and pages.  The first part is lemmas about the operators  *)
(* Database is built from: rows and their layouts, the order of rows,      *)
(* tables and entries that are looked up, and what the operations on the   *)
(* page buffer and the files return.                                       *)
(***************************************************************************)
EXTENDS Database, SharedFacts

Value == Keys \cup Values \cup {Null, Garbled, Zero, Unmarked, Gone}

\* Rows with different keys, as the pages of a table hold them.
Keyed(rows) == IsFiniteSet(rows) /\ \A r, s \in rows : r # s => r[1] # s[1]

RowSets == {rows \in SUBSET Row : Keyed(rows)}

\* A file that was written with no columns has rows without values.
StoredRows == RowSets \cup {{<<>>}}

-----------------------------------------------------------------------------
(* Rows *)

\* A row is a sequence of one or more values, the first of which is a key.
LEMMA RowFacts ==
    ASSUME NEW r \in Row
    PROVE  /\ r \in Seq(Value) /\ Len(r) \in 1 .. MaxColumns
           /\ r \in [1 .. Len(r) -> Value]
           /\ r[1] \in Keys \cup {Garbled}
<1>1. r[1] \in Keys \cup {Garbled}
  BY DEF Row
<1>2. PICK c \in 1 .. MaxColumns : r \in [1 .. c -> Value]
  BY DEF Row, Value
<1>3. c \in Nat /\ r \in Seq(Value) /\ Len(r) = c
  BY <1>2, DatabaseAssumption
<1> QED
  BY <1>1, <1>2, <1>3

\* What is a row.
LEMMA RowIntro ==
    ASSUME NEW c \in 1 .. MaxColumns, NEW r \in [1 .. c -> Value], r[1] \in Keys \cup {Garbled}
    PROVE  r \in Row /\ Len(r) = c
<1>1. c \in Nat /\ Len(r) = c
  BY DatabaseAssumption
<1> QED
  BY <1>1 DEF Row, Value

\* A row read with other columns is a row with the same key.
LEMMA WithColumnsFacts ==
    ASSUME NEW r \in Row \cup {<<>>}, NEW c \in 1 .. MaxColumns
    PROVE  /\ WithColumns(r, c) \in Row
           /\ Len(WithColumns(r, c)) = IF Len(r) > c THEN Len(r) ELSE c
           /\ Len(WithColumns(r, c)) >= c
           /\ WithColumns(r, c)[1] = IF r = <<>> THEN Garbled ELSE r[1]
<1>1. c \in Nat /\ 1 \in 1 .. c /\ c # 0 /\ MaxColumns \in Nat
  BY DatabaseAssumption
<1>2. r = <<>> \/ (r # <<>> /\ r \in Row /\ r \in [1 .. Len(r) -> Value] /\ Len(r) >= 1 /\ Len(r) \in Nat
                   /\ r[1] \in Keys \cup {Garbled})
  <2>1. r # <<>> => r \in Row
    OBVIOUS
  <2> QED
    BY <2>1, RowFacts
<1> DEFINE k == IF Len(r) > c THEN Len(r) ELSE c
           x(i) == IF i > Len(r) THEN Garbled ELSE IF i > c THEN BitOf(r[i]) ELSE Written(r[i])
<1>3. /\ Len(r) \in Nat /\ Len(r) <= MaxColumns
      /\ k \in 1 .. MaxColumns /\ k >= c /\ 1 \in 1 .. k /\ DOMAIN r = 1 .. Len(r)
  <2>1. Len(r) \in Nat /\ Len(r) <= MaxColumns /\ DOMAIN r = 1 .. Len(r)
    <3>1. CASE r = <<>>
      BY <1>1, <3>1
    <3>2. CASE r # <<>>
      BY <1>1, <1>2, <3>2, RowFacts
    <3> QED
      BY <3>1, <3>2
  <2> QED
    BY <1>1, <2>1
<1>4. WithColumns(r, c) = [i \in 1 .. k |-> x(i)]
  <2>1. DOMAIN r \cup 1 .. c = 1 .. k
    BY <1>1, <1>3
  <2> HIDE DEF k
  <2> QED
    BY <1>1, <2>1 DEF WithColumns
<1>5. \A i \in 1 .. k : x(i) \in Value
  <2> TAKE i \in 1 .. k
  <2>1. CASE i > Len(r)
    BY <2>1 DEF Value
  <2>2. CASE ~(i > Len(r))
    <3>1. r # <<>>
      BY <1>3, <2>2
    <3>2. i \in 1 .. Len(r)
      BY <1>3, <2>2
    <3>3. r[i] \in Value
      BY <1>2, <3>1, <3>2
    <3>4. BitOf(r[i]) \in Value /\ Written(r[i]) \in Value
      BY <3>3 DEF BitOf, Written, Value
    <3> QED
      BY <2>2, <3>4
  <2> QED
    BY <2>1, <2>2
<1>6. x(1) = IF r = <<>> THEN Garbled ELSE r[1]
  <2>1. CASE r = <<>>
    <3>1. Len(r) = 0
      BY <2>1
    <3> QED
      BY <2>1, <3>1
  <2>2. CASE r # <<>>
    <3>1. r[1] \notin {Unmarked, Gone}
      BY <1>2, <2>2, DatabaseAssumption
    <3> QED
      BY <1>1, <1>2, <2>2, <3>1 DEF Written
  <2> QED
    BY <2>1, <2>2
<1> HIDE DEF x
<1>7. [i \in 1 .. k |-> x(i)] \in [1 .. k -> Value]
  BY <1>5
<1>8. [i \in 1 .. k |-> x(i)][1] \in Keys \cup {Garbled}
  BY <1>2, <1>3, <1>6
<1> HIDE DEF k
<1>9. WithColumns(r, c) \in Row /\ Len(WithColumns(r, c)) = k
  BY <1>3, <1>4, <1>7, <1>8, RowIntro
<1>10. WithColumns(r, c)[1] = IF r = <<>> THEN Garbled ELSE r[1]
  BY <1>3, <1>4, <1>6
<1> QED
  BY <1>3, <1>9, <1>10 DEF k

\* The image of a finite set of rows is finite.
LEMMA LayoutFinite ==
    ASSUME NEW rows, IsFiniteSet(rows), NEW c
    PROVE  IsFiniteSet(Layout(rows, c))
<1> DEFINE f == [r \in rows |-> WithColumns(r, c)]
<1>1. f \in Surjection(rows, Layout(rows, c))
  BY DEF Layout, Surjection
<1> QED
  BY <1>1, FS_Surjection

\* Reading or writing pages with some columns keeps the keys and their
\* difference.
LEMMA LayoutFacts ==
    ASSUME NEW rows \in StoredRows, NEW c \in 1 .. MaxColumns
    PROVE  /\ Layout(rows, c) \in RowSets
           /\ Layout(rows, c) = {} <=> rows = {}
           /\ \A r \in Layout(rows, c) : Len(r) >= c
           /\ rows \in RowSets => KeysOf(Layout(rows, c)) = KeysOf(rows)
<1>1. rows \subseteq Row \cup {<<>>} /\ IsFiniteSet(rows)
  <2>1. IsFiniteSet({<<>>})
    BY FS_Singleton
  <2> QED
    BY <2>1 DEF StoredRows, RowSets, Keyed
<1>2. \A r \in rows : /\ WithColumns(r, c) \in Row
                      /\ Len(WithColumns(r, c)) >= c
                      /\ WithColumns(r, c)[1] = IF r = <<>> THEN Garbled ELSE r[1]
  BY <1>1, WithColumnsFacts
<1>3. IsFiniteSet(Layout(rows, c))
  BY <1>1, LayoutFinite
<1>4. CASE rows = {<<>>}
  <2>1. Layout(rows, c) = {WithColumns(<<>>, c)}
    BY <1>4 DEF Layout
  <2>2. rows \notin RowSets
    <3>1. <<>> \notin Row
      <4>1. Len(<<>>) = 0
        OBVIOUS
      <4> QED
        BY <4>1, RowFacts
    <3> QED
      BY <1>4, <3>1 DEF RowSets
  <2> QED
    BY <1>2, <1>3, <1>4, <2>1, <2>2 DEF RowSets, Keyed
<1>5. CASE rows \in RowSets
  <2>1. \A r \in rows : r \in Row /\ r # <<>>
    <3>1. \A r \in Row : Len(r) # 0
      BY RowFacts
    <3> QED
      BY <1>5, <3>1 DEF RowSets
  <2>2. \A r, s \in rows : r # s => WithColumns(r, c)[1] # WithColumns(s, c)[1]
    BY <1>2, <1>5, <2>1 DEF RowSets, Keyed
  <2>3. \A r, s \in Layout(rows, c) : r # s => r[1] # s[1]
    BY <2>2 DEF Layout
  <2>4. KeysOf(Layout(rows, c)) = KeysOf(rows)
    BY <1>2, <2>1 DEF KeysOf, Layout
  <2>5. Layout(rows, c) \subseteq Row /\ \A r \in Layout(rows, c) : Len(r) >= c
    BY <1>2 DEF Layout
  <2>6. Layout(rows, c) = {} <=> rows = {}
    BY DEF Layout
  <2> QED
    BY <1>3, <2>3, <2>4, <2>5, <2>6 DEF RowSets, Keyed
<1> QED
  BY <1>4, <1>5 DEF StoredRows

\* Nothing, or rows without values, is written with no columns.
LEMMA LayoutNoColumns ==
    ASSUME NEW rows
    PROVE  Layout(rows, 0) \in {{}, {<<>>}}
<1>1. \A r \in rows : WithColumns(r, 0) = <<>>
  BY DEF WithColumns
<1> QED
  BY <1>1 DEF Layout

\* A row with a new key can be added.
LEMMA AddedRow ==
    ASSUME NEW rows \in RowSets, NEW r \in Row, r[1] \notin KeysOf(rows)
    PROVE  rows \cup {r} \in RowSets
<1>1. IsFiniteSet(rows \cup {r})
  BY FS_AddElement DEF RowSets, Keyed
<1>2. \A s \in rows : s[1] # r[1]
  BY DEF KeysOf
<1> QED
  BY <1>1, <1>2 DEF RowSets, Keyed

\* One row, or none, is a set of rows with different keys; so is a part of one.
LEMMA SmallRowSets ==
    /\ {} \in RowSets
    /\ \A r \in Row : {r} \in RowSets
    /\ \A rows \in RowSets : \A part \in SUBSET rows : part \in RowSets
<1>1. \A r \in Row : {r} \in RowSets
  BY FS_Singleton DEF RowSets, Keyed
<1>2. \A rows \in RowSets : \A part \in SUBSET rows : IsFiniteSet(part)
  BY FS_Subset DEF RowSets, Keyed
<1> QED
  BY <1>1, <1>2, FS_EmptySet DEF RowSets, Keyed

-----------------------------------------------------------------------------
(* The order of rows *)

\* Precedes is a strict total order on rows with different keys.
LEMMA PrecedesOrders ==
    ASSUME NEW rows \in RowSets
    PROVE  OrdersStrictly({p \in rows \X rows : Precedes(p[1], p[2])}, rows)
<1>1. \A r \in rows : r[1] \in Keys \cup {Garbled} /\ (r[1] \in Keys => r[1] \in Int)
  BY RowFacts, DatabaseAssumption DEF RowSets
<1>2. \A r, s \in rows : r # s => r[1] # s[1]
  BY DEF RowSets, Keyed
<1>3. \A r \in rows : ~Precedes(r, r)
  BY <1>1 DEF Precedes
<1>4. \A r, s, u \in rows : Precedes(r, s) /\ Precedes(s, u) => Precedes(r, u)
  BY <1>1 DEF Precedes
<1>5. \A r, s \in rows : r = s \/ Precedes(r, s) \/ Precedes(s, r)
  BY <1>1, <1>2, DatabaseAssumption DEF Precedes
<1> QED
  BY <1>3, <1>4, <1>5 DEF OrdersStrictly

\* InKeyOrder is an arrangement of the rows it is given, all of them, by key.
LEMMA InKeyOrderFacts ==
    ASSUME NEW rows \in RowSets
    PROVE  LET s == InKeyOrder(rows)
           IN  /\ s \in Seq(rows) /\ Len(s) = Cardinality(rows)
               /\ \A i, j \in 1 .. Len(s) : i < j => Precedes(s[i], s[j])
               /\ \A r \in rows : \E i \in 1 .. Len(s) : s[i] = r
               /\ s = <<>> <=> rows = {}
<1> DEFINE N == Cardinality(rows)
           before == {p \in rows \X rows : Precedes(p[1], p[2])}
           s == InKeyOrder(rows)
<1>1. IsFiniteSet(rows) /\ N \in Nat
  BY FS_CardinalityType DEF RowSets, Keyed
<1>2. OrdersStrictly(before, rows)
  BY PrecedesOrders
<1>3. \E t \in [1 .. N -> rows] : \A i, j \in 1 .. N : i < j => <<t[i], t[j]>> \in before
  <2> HIDE DEF before, N
  <2> QED
    BY <1>1, <1>2, Arrangement DEF N
<1>4. \E t \in [1 .. N -> rows] : \A i, j \in DOMAIN t : i < j => Precedes(t[i], t[j])
  BY <1>3
<1>5. s \in [1 .. N -> rows] /\ \A i, j \in DOMAIN s : i < j => Precedes(s[i], s[j])
  BY <1>4 DEF InKeyOrder
<1> HIDE DEF s
<1>6. s \in Seq(rows) /\ Len(s) = N
  BY <1>1, <1>5
<1>7. s \in Injection(1 .. N, rows)
  <2>1. \A i, j \in 1 .. N : i < j => s[i] # s[j]
    <3> SUFFICES ASSUME NEW i \in 1 .. N, NEW j \in 1 .. N, i < j PROVE s[i] # s[j]
      OBVIOUS
    <3>1. s[i] \in rows /\ s[j] \in rows /\ <<s[i], s[j]>> \in before
      BY <1>5
    <3>2. <<s[j], s[j]>> \notin before
      BY <1>2, <3>1 DEF OrdersStrictly
    <3> QED
      BY <3>1, <3>2
  <2>2. \A i, j \in 1 .. N : s[i] = s[j] => i = j
    <3> SUFFICES ASSUME NEW i \in 1 .. N, NEW j \in 1 .. N, i # j PROVE s[i] # s[j]
      OBVIOUS
    <3>1. i < j \/ j < i
      BY <1>1
    <3> QED
      BY <2>1, <3>1
  <2> QED
    BY <1>5, <2>2 DEF Injection, IsInjective
<1>8. s \in Surjection(1 .. N, rows)
  <2>1. IsFiniteSet(1 .. N) /\ Cardinality(1 .. N) = N
    BY <1>1, CountUpTo
  <2> HIDE DEF N
  <2> QED
    BY <1>1, <1>7, <2>1, FS_Injection DEF N
<1>9. \A r \in rows : \E i \in 1 .. N : s[i] = r
  BY <1>8 DEF Surjection
<1>10. s = <<>> <=> rows = {}
  BY <1>1, <1>6, FS_EmptySet
<1> QED
  BY <1>1, <1>5, <1>6, <1>9, <1>10 DEF s

-----------------------------------------------------------------------------
(* Tables and pointers to them *)

\* A table has a name and one or more columns.
LEMMA TableFacts ==
    ASSUME NEW t \in Table
    PROVE  t.name \in Names /\ t.columns \in 1 .. MaxColumns
BY DEF Table

\* Pointers that lead to a table.
Sound(pointer) ==
    /\ pointer \in PointerType
    /\ IF pointer.slot = 0 THEN pointer.columns \in 1 .. MaxColumns
                           ELSE slots[pointer.slot] \in Table

\* A pointer that leads to a table leads to its columns.
LEMMA SoundFacts ==
    ASSUME NEW pointer, Sound(pointer)
    PROVE  ColumnsAt(pointer) \in 1 .. MaxColumns
BY TableFacts DEF Sound, ColumnsAt

\* The tables in use are tables, and a name that exists is found among them.
LEMMA SlotOfFacts ==
    ASSUME TypeOK, NEW n, Exists(n)
    PROVE  /\ SlotOf(n) \in 1 .. count /\ slots[SlotOf(n)].name = n
           /\ \A j \in SlotsOf(n) : SlotOf(n) <= j
           /\ slots[SlotOf(n)] \in Table
           /\ slots[SlotOf(n)].columns \in 1 .. MaxColumns
           /\ Sound(Pointer(SlotOf(n))) /\ Pointer(SlotOf(n)) # Dangling
           /\ ColumnsAt(Pointer(SlotOf(n))) = slots[SlotOf(n)].columns
<1>1. count \in 0 .. MaxTables /\ MaxTables \in Nat /\ MaxColumns \in Nat
  BY DatabaseAssumption DEF TypeOK
<1>2. SlotsOf(n) # {} /\ SlotsOf(n) \subseteq Nat
  BY <1>1 DEF Exists, SlotsOf
<1>3. \E i \in SlotsOf(n) : \A j \in SlotsOf(n) : i <= j
  BY <1>2, LeastMember
<1>4. SlotOf(n) \in SlotsOf(n) /\ \A j \in SlotsOf(n) : SlotOf(n) <= j
  BY <1>3 DEF SlotOf
<1>5. SlotOf(n) \in 1 .. count /\ slots[SlotOf(n)].name = n
  BY <1>4 DEF SlotsOf
<1>6. slots[SlotOf(n)] \in Table
  BY <1>1, <1>5 DEF TypeOK, Table
<1>7. slots[SlotOf(n)].columns \in 1 .. MaxColumns
  BY <1>6, TableFacts
<1>8. /\ Pointer(SlotOf(n)).slot = SlotOf(n) /\ SlotOf(n) # 0
      /\ Pointer(SlotOf(n)) \in PointerType
      /\ Pointer(SlotOf(n)) # Dangling
  BY <1>1, <1>5 DEF Pointer, PointerType, Dangling
<1> QED
  BY <1>4, <1>5, <1>6, <1>7, <1>8 DEF Sound, ColumnsAt

-----------------------------------------------------------------------------
(* Entries of the buffer *)

Cachable ==
    [name : Names, table : PointerType, page : RowSets \ {{}}, last_used : Nat]

\* The same but for the stamp.
Alike(e, f) == e.name = f.name /\ e.table = f.table /\ e.page = f.page

\* An entry has the fields of an entry, and can be stamped.
LEMMA CachableFacts ==
    ASSUME NEW e \in Cachable
    PROVE  /\ e.name \in Names /\ e.table \in PointerType
           /\ e.page \in RowSets /\ e.page # {} /\ e.last_used \in Nat
           /\ \A stamp \in Nat : /\ [e EXCEPT !.last_used = stamp] \in Cachable
                                 /\ [e EXCEPT !.last_used = stamp].last_used = stamp
                                 /\ Alike([e EXCEPT !.last_used = stamp], e)
BY DEF Cachable, Alike

\* Every entry of a sequence of them is one.
LEMMA CachableElement ==
    ASSUME NEW es \in Seq(Cachable), NEW i \in DOMAIN es
    PROVE  es[i] \in Cachable
OBVIOUS

\* Ranks take the place of the stamps; nothing else changes.
LEMMA RankedFacts ==
    ASSUME NEW es \in Seq(Cachable), Len(es) <= MaxPages
    PROVE  /\ Ranked(es) \in Seq(Cachable) /\ Len(Ranked(es)) = Len(es)
           /\ \A i \in 1 .. Len(es) : /\ Alike(Ranked(es)[i], es[i])
                                      /\ Ranked(es)[i].last_used \in 1 .. MaxPages
<1> DEFINE below(i) == {j \in DOMAIN es : es[j].last_used <= es[i].last_used}
           rank(i) == Cardinality(below(i))
<1>1. Len(es) \in Nat /\ DOMAIN es = 1 .. Len(es) /\ MaxPages \in Nat
  BY DatabaseAssumption
<1>2. ASSUME NEW i \in 1 .. Len(es) PROVE rank(i) \in 1 .. Len(es)
  <2>1. es[i].last_used \in Nat
    BY <1>1, CachableElement, CachableFacts
  <2>2. below(i) \in SUBSET (1 .. Len(es)) /\ i \in below(i)
    BY <1>1, <2>1
  <2>3. IsFiniteSet(1 .. Len(es)) /\ Cardinality(1 .. Len(es)) = Len(es)
    BY <1>1, CountUpTo
  <2> HIDE DEF below
  <2>4. IsFiniteSet(below(i)) /\ Cardinality(below(i)) <= Len(es)
    BY <2>2, <2>3, FS_Subset
  <2>5. Cardinality(below(i)) \in Nat /\ Cardinality(below(i)) # 0
    BY <2>2, <2>4, FS_CardinalityType, FS_EmptySet
  <2> QED
    BY <1>1, <2>4, <2>5
<1>3. Ranked(es) = [i \in 1 .. Len(es) |-> [es[i] EXCEPT !.last_used = rank(i)]]
  BY <1>1 DEF Ranked
<1> HIDE DEF rank
<1>4. ASSUME NEW i \in 1 .. Len(es)
      PROVE  /\ [es[i] EXCEPT !.last_used = rank(i)] \in Cachable
             /\ [es[i] EXCEPT !.last_used = rank(i)].last_used = rank(i)
             /\ Alike([es[i] EXCEPT !.last_used = rank(i)], es[i])
  <2>1. es[i] \in Cachable /\ rank(i) \in Nat
    BY <1>1, <1>2, CachableElement
  <2> QED
    BY <2>1, CachableFacts
<1>5. Ranked(es) \in [1 .. Len(es) -> Cachable]
  BY <1>3, <1>4
<1>6. \A i \in 1 .. Len(es) : Alike(Ranked(es)[i], es[i]) /\ Ranked(es)[i].last_used = rank(i)
  BY <1>3, <1>4
<1>7. Ranked(es) \in Seq(Cachable) /\ Len(Ranked(es)) = Len(es)
  BY <1>1, <1>5
<1>8. \A i \in 1 .. Len(es) : rank(i) \in 1 .. MaxPages
  BY <1>1, <1>2
<1> QED
  BY <1>6, <1>7, <1>8

\* Stamping one entry changes nothing else.
LEMMA StampedFacts ==
    ASSUME NEW es \in Seq(Cachable), NEW i, NEW stamp \in Nat
    PROVE  /\ Stamped(es, i, stamp) \in Seq(Cachable) /\ Len(Stamped(es, i, stamp)) = Len(es)
           /\ \A j \in 1 .. Len(es) : Alike(Stamped(es, i, stamp)[j], es[j])
<1>1. \A j \in 1 .. Len(es) : /\ es[j] \in Cachable
                              /\ [es[j] EXCEPT !.last_used = stamp] \in Cachable
                              /\ Alike([es[j] EXCEPT !.last_used = stamp], es[j])
                              /\ Alike(es[j], es[j])
  BY CachableElement, CachableFacts DEF Alike
<1>2. /\ Stamped(es, i, stamp) \in [1 .. Len(es) -> Cachable]
      /\ \A j \in 1 .. Len(es) : Alike(Stamped(es, i, stamp)[j], es[j])
  BY <1>1 DEF Stamped
<1> QED
  BY <1>2

\* Removing an entry moves the last one.
LEMMA WithoutFacts ==
    ASSUME NEW es \in Seq(Cachable), NEW i \in 1 .. Len(es), NEW stamp \in Nat
    PROVE  /\ Without(es, i, stamp) \in Seq(Cachable)
           /\ Len(Without(es, i, stamp)) = Len(es) - 1
           /\ \A j \in 1 .. Len(es) - 1 :
                 Alike(Without(es, i, stamp)[j], es[IF j = i THEN Len(es) ELSE j])
<1>0. Len(es) \in Nat /\ Len(es) - 1 \in Nat
  OBVIOUS
<1>1. \A j \in 1 .. Len(es) : /\ es[j] \in Cachable
                              /\ [es[j] EXCEPT !.last_used = stamp] \in Cachable
                              /\ Alike([es[j] EXCEPT !.last_used = stamp], es[j])
                              /\ Alike(es[j], es[j])
  BY CachableElement, CachableFacts DEF Alike
<1>2. Len(es) \in 1 .. Len(es) /\ \A j \in 1 .. Len(es) - 1 : j \in 1 .. Len(es)
  BY <1>0
<1>3. /\ Without(es, i, stamp) \in [1 .. Len(es) - 1 -> Cachable]
      /\ \A j \in 1 .. Len(es) - 1 :
            Alike(Without(es, i, stamp)[j], es[IF j = i THEN Len(es) ELSE j])
  BY <1>1, <1>2 DEF Without
<1> QED
  BY <1>0, <1>3

-----------------------------------------------------------------------------
(* Operations on the buffer and the files *)

IOType == [entries : Seq(Cachable), files : [Names -> StoredRows]]

\* The buffer has room for its entries, and their pointers lead to tables
\* unless the array of tables has moved.
IOOk(io) ==
    /\ io \in IOType
    /\ Len(io.entries) <= MaxPages
    /\ \A i \in 1 .. Len(io.entries) :
          /\ io.entries[i].last_used \in 1 .. MaxPages
          /\ io.entries[i].table = Dangling \/ Sound(io.entries[i].table)

\* A lookup finds the first entry with the name.
LEMMA EntryOfFacts ==
    ASSUME NEW io, io.entries \in Seq(Cachable), NEW n, IsCached(io, n)
    PROVE  /\ EntryOf(io, n) \in 1 .. Len(io.entries)
           /\ io.entries[EntryOf(io, n)].name = n
           /\ \A j \in 1 .. Len(io.entries) : io.entries[j].name = n => EntryOf(io, n) <= j
<1> DEFINE S == EntriesOf(io.entries, n)
<1>1. DOMAIN io.entries = 1 .. Len(io.entries)
  OBVIOUS
<1>2. S # {} /\ S \subseteq Nat
  BY <1>1 DEF IsCached, EntriesOf
<1>3. \E i \in S : \A j \in S : i <= j
  <2> HIDE DEF S
  <2> QED
    BY <1>2, LeastMember
<1>4. \E i \in DOMAIN io.entries : IsFirstEntry(io.entries, n, i)
  BY <1>3 DEF IsFirstEntry, EntriesOf
<1>5. IsFirstEntry(io.entries, n, EntryOf(io, n))
  BY <1>4 DEF EntryOf
<1> QED
  BY <1>1, <1>5 DEF IsFirstEntry, EntriesOf

\* The parts of a record of entries and files.
LEMMA IOFacts ==
    ASSUME NEW io, IOOk(io)
    PROVE  /\ io.entries \in Seq(Cachable) /\ Len(io.entries) \in 0 .. MaxPages
           /\ DOMAIN io.entries = 1 .. Len(io.entries)
           /\ io.files \in [Names -> StoredRows]
           /\ \A es : [io EXCEPT !.entries = es] = [entries |-> es, files |-> io.files]
           /\ \A fs : [io EXCEPT !.files = fs] = [entries |-> io.entries, files |-> fs]
           /\ io = [entries |-> io.entries, files |-> io.files]
BY DatabaseAssumption DEF IOOk, IOType

\* What it takes to be one.
LEMMA IOIntro ==
    ASSUME NEW es \in Seq(Cachable), Len(es) <= MaxPages,
           \A i \in 1 .. Len(es) : /\ es[i].last_used \in 1 .. MaxPages
                                   /\ es[i].table = Dangling \/ Sound(es[i].table),
           NEW fs \in [Names -> StoredRows]
    PROVE  IOOk([entries |-> es, files |-> fs])
BY DEF IOOk, IOType

\* find_in_buffer changes no entry but for its stamp.
LEMMA FoundFacts ==
    ASSUME NEW io, IOOk(io), NEW n
    PROVE  LET found == Found(io, n)
           IN  /\ IOOk(found) /\ found.files = io.files
               /\ Len(found.entries) = Len(io.entries)
               /\ \A i \in 1 .. Len(io.entries) : Alike(found.entries[i], io.entries[i])
<1> DEFINE es == io.entries
           stamped == Stamped(es, EntryOf(io, n), Len(es) + 1)
<1>1. /\ es \in Seq(Cachable) /\ Len(es) \in 0 .. MaxPages /\ MaxPages \in Nat
      /\ io.files \in [Names -> StoredRows]
      /\ \A new : [io EXCEPT !.entries = new] = [entries |-> new, files |-> io.files]
      /\ \A i \in 1 .. Len(es) : es[i].table = Dangling \/ Sound(es[i].table)
  BY IOFacts, DatabaseAssumption DEF IOOk
<1>2. CASE ~IsCached(io, n)
  BY <1>2 DEF Found, Alike
<1>3. CASE IsCached(io, n)
  <2>1. Len(es) + 1 \in Nat
    BY <1>1
  <2>2. /\ stamped \in Seq(Cachable) /\ Len(stamped) = Len(es)
        /\ \A i \in 1 .. Len(es) : Alike(stamped[i], es[i])
    BY <1>1, <2>1, StampedFacts
  <2> HIDE DEF stamped
  <2>3. Len(stamped) <= MaxPages
    BY <1>1, <2>2
  <2>4. /\ Ranked(stamped) \in Seq(Cachable) /\ Len(Ranked(stamped)) = Len(stamped)
        /\ \A i \in 1 .. Len(stamped) : /\ Alike(Ranked(stamped)[i], stamped[i])
                                        /\ Ranked(stamped)[i].last_used \in 1 .. MaxPages
    BY <2>2, <2>3, RankedFacts
  <2>5. \A i \in 1 .. Len(es) : Alike(Ranked(stamped)[i], es[i])
    BY <2>2, <2>4 DEF Alike
  <2>6. \A i \in 1 .. Len(es) : \/ Ranked(stamped)[i].table = Dangling
                                \/ Sound(Ranked(stamped)[i].table)
    BY <1>1, <2>5 DEF Alike
  <2>7. Found(io, n) = [entries |-> Ranked(stamped), files |-> io.files]
    BY <1>1, <1>3 DEF Found, stamped
  <2>8. IOOk([entries |-> Ranked(stamped), files |-> io.files])
    BY <1>1, <2>2, <2>3, <2>4, <2>6, IOIntro
  <2> QED
    BY <2>2, <2>4, <2>5, <2>7, <2>8
<1> QED
  BY <1>2, <1>3

\* remove_from_buffer: one entry less, the others as they were.
LEMMA UncachedFacts ==
    ASSUME NEW io, IOOk(io), NEW n, IsCached(io, n)
    PROVE  LET rest == Uncached(io, n)
               i == EntryOf(io, n)
           IN  /\ IOOk(rest) /\ rest.files = io.files
               /\ Len(rest.entries) = Len(io.entries) - 1
               /\ \A j \in 1 .. Len(io.entries) - 1 :
                     Alike(rest.entries[j], io.entries[IF j = i THEN Len(io.entries) ELSE j])
<1> DEFINE es == io.entries
           i == EntryOf(io, n)
           rest == Without(es, i, Len(es) + 1)
           from(j) == IF j = i THEN Len(es) ELSE j
<1>1. /\ es \in Seq(Cachable) /\ Len(es) \in 0 .. MaxPages /\ MaxPages \in Nat
      /\ io.files \in [Names -> StoredRows]
      /\ \A new : [io EXCEPT !.entries = new] = [entries |-> new, files |-> io.files]
      /\ \A j \in 1 .. Len(es) : es[j].table = Dangling \/ Sound(es[j].table)
  BY IOFacts, DatabaseAssumption DEF IOOk
<1>2. i \in 1 .. Len(es)
  BY <1>1, EntryOfFacts
<1>3. Len(es) + 1 \in Nat /\ \A j \in 1 .. Len(es) - 1 : from(j) \in 1 .. Len(es)
  BY <1>1, <1>2
<1>4. /\ rest \in Seq(Cachable) /\ Len(rest) = Len(es) - 1
      /\ \A j \in 1 .. Len(es) - 1 : Alike(rest[j], es[from(j)])
  BY <1>1, <1>2, <1>3, WithoutFacts
<1> HIDE DEF rest, from
<1>5. Len(rest) <= MaxPages
  BY <1>1, <1>4
<1>6. /\ Ranked(rest) \in Seq(Cachable) /\ Len(Ranked(rest)) = Len(rest)
      /\ \A j \in 1 .. Len(rest) : /\ Alike(Ranked(rest)[j], rest[j])
                                   /\ Ranked(rest)[j].last_used \in 1 .. MaxPages
  BY <1>4, <1>5, RankedFacts
<1>7. \A j \in 1 .. Len(es) - 1 : Alike(Ranked(rest)[j], es[from(j)])
  BY <1>4, <1>6 DEF Alike
<1>8. \A j \in 1 .. Len(rest) : \/ Ranked(rest)[j].table = Dangling
                                \/ Sound(Ranked(rest)[j].table)
  BY <1>1, <1>3, <1>4, <1>7 DEF Alike
<1>9. Uncached(io, n) = [entries |-> Ranked(rest), files |-> io.files]
  BY <1>1 DEF Uncached, rest
<1>10. IOOk([entries |-> Ranked(rest), files |-> io.files])
  BY <1>1, <1>5, <1>6, <1>8, IOIntro
<1> QED
  BY <1>4, <1>6, <1>7, <1>9, <1>10 DEF from

\* The new entry of a page.
NewEntry(io, n, pointer, page) ==
    [name |-> n, table |-> pointer, page |-> page, last_used |-> Len(io.entries) + 1]

\* A full buffer has a victim.
Victim(io) == CHOOSE i \in DOMAIN io.entries : IsVictim(io.entries, i)

LEMMA VictimFacts ==
    ASSUME NEW io, IOOk(io), IsFull(io.entries)
    PROVE  Victim(io) \in 1 .. Len(io.entries)
<1> DEFINE es == io.entries
           stamps == {es[i].last_used : i \in 1 .. Len(es)}
<1>1. /\ Len(es) \in 0 .. MaxPages /\ DOMAIN es = 1 .. Len(es)
      /\ \A i \in 1 .. Len(es) : es[i].last_used \in 1 .. MaxPages
      /\ MaxPages \in Nat \ {0} /\ StampLimit \in Nat /\ StampLimit > MaxPages + 1
  BY IOFacts, DatabaseAssumption DEF IOOk
<1>2. 1 \in 1 .. Len(es)
  BY <1>1 DEF IsFull
<1>3. stamps # {} /\ stamps \subseteq Nat
  <2>1. es[1].last_used \in stamps
    BY <1>2
  <2>2. \A i \in 1 .. Len(es) : es[i].last_used \in Nat
    BY <1>1
  <2> QED
    BY <2>1, <2>2
<1>4. PICK s \in stamps : \A r \in stamps : s <= r
  <2> HIDE DEF stamps
  <2> QED
    BY <1>3, LeastMember
<1>5. PICK i \in 1 .. Len(es) : s = es[i].last_used
  BY <1>4
<1>6. es[i].last_used < StampLimit
  BY <1>1
<1>7. \A j \in DOMAIN es : es[i].last_used <= es[j].last_used
  BY <1>1, <1>4, <1>5
<1>8. \E v \in DOMAIN es : IsVictim(es, v)
  BY <1>1, <1>6, <1>7 DEF IsVictim
<1> QED
  BY <1>1, <1>8 DEF Victim

\* add_to_buffer appends an entry, or writes the pages of another one.
LEMMA CachedFacts ==
    ASSUME NEW io, IOOk(io), NEW n \in Names, NEW pointer, Sound(pointer),
           NEW page \in RowSets \ {{}}
    PROVE  LET new == Cached(io, n, pointer, page)
               v == Victim(io)
           IN  /\ IOOk(new)
               /\ ~IsFull(io.entries) =>
                     /\ new.entries = Append(io.entries, NewEntry(io, n, pointer, page))
                     /\ new.files = io.files
               /\ IsFull(io.entries) =>
                     /\ new.entries = io.entries
                     /\ v \in 1 .. Len(io.entries)
                     /\ new.files = [io.files EXCEPT ![io.entries[v].name] =
                                        Layout(io.entries[v].page, ColumnsAt(pointer))]
<1> DEFINE es == io.entries
           e == NewEntry(io, n, pointer, page)
<1>1. /\ es \in Seq(Cachable) /\ Len(es) \in 0 .. MaxPages /\ MaxPages \in Nat
      /\ io.files \in [Names -> StoredRows]
      /\ \A new : [io EXCEPT !.entries = new] = [entries |-> new, files |-> io.files]
      /\ \A fs : [io EXCEPT !.files = fs] = [entries |-> es, files |-> fs]
      /\ \A i \in 1 .. Len(es) : /\ es[i].last_used \in 1 .. MaxPages
                                 /\ es[i].table = Dangling \/ Sound(es[i].table)
  BY IOFacts, DatabaseAssumption DEF IOOk
<1>2. CASE ~IsFull(es)
  <2>1. Len(es) + 1 <= MaxPages
    BY <1>1, <1>2 DEF IsFull
  <2>2. e \in Cachable /\ e.table = pointer /\ e.last_used = Len(es) + 1
    BY <1>1 DEF NewEntry, Cachable, Sound
  <2> HIDE DEF e
  <2>3. /\ Append(es, e) \in Seq(Cachable) /\ Len(Append(es, e)) = Len(es) + 1
        /\ \A i \in 1 .. Len(es) : Append(es, e)[i] = es[i]
        /\ Append(es, e)[Len(es) + 1] = e
    BY <1>1, <2>2
  <2>4. \A i \in 1 .. Len(es) + 1 :
           /\ Append(es, e)[i].last_used \in 1 .. MaxPages
           /\ Append(es, e)[i].table = Dangling \/ Sound(Append(es, e)[i].table)
    <3> TAKE i \in 1 .. Len(es) + 1
    <3>1. CASE i = Len(es) + 1
      <4>1. e.last_used \in 1 .. MaxPages
        BY <1>1, <2>1, <2>2
      <4> QED
        BY <2>2, <2>3, <3>1, <4>1
    <3>2. CASE i # Len(es) + 1
      <4>1. i \in 1 .. Len(es)
        BY <1>1, <3>2
      <4> QED
        BY <1>1, <2>3, <4>1
    <3> QED
      BY <3>1, <3>2
  <2>5. Cached(io, n, pointer, page) = [entries |-> Append(es, e), files |-> io.files]
    BY <1>1, <1>2 DEF Cached, NewEntry, e
  <2>6. IOOk([entries |-> Append(es, e), files |-> io.files])
    BY <1>1, <2>1, <2>3, <2>4, IOIntro
  <2> QED
    BY <1>2, <2>5, <2>6 DEF e
<1>3. CASE IsFull(es)
  <2> DEFINE v == Victim(io)
             fs == [io.files EXCEPT ![es[v].name] = Layout(es[v].page, ColumnsAt(pointer))]
  <2>1. v \in 1 .. Len(es)
    BY <1>3, VictimFacts
  <2>2. es[v].name \in Names /\ es[v].page \in RowSets
    BY <1>1, <2>1, CachableElement, CachableFacts
  <2>3. Layout(es[v].page, ColumnsAt(pointer)) \in StoredRows
    BY <2>2, SoundFacts, LayoutFacts DEF StoredRows
  <2>4. fs \in [Names -> StoredRows]
    BY <1>1, <2>2, <2>3
  <2>5. Cached(io, n, pointer, page) = [io EXCEPT !.files = fs]
    BY <1>1, <1>3 DEF Cached, Victim
  <2> HIDE DEF fs
  <2>6. Cached(io, n, pointer, page) = [entries |-> es, files |-> fs]
    BY <1>1, <2>5
  <2>7. IOOk([entries |-> es, files |-> fs])
    BY <1>1, <2>4, IOIntro
  <2> QED
    BY <1>3, <2>1, <2>6, <2>7 DEF fs
<1> QED
  BY <1>2, <1>3

\* The pages of a table are rows with different keys.
LEMMA PagesOfFacts ==
    ASSUME NEW io, IOOk(io), NEW n \in Names, NEW columns \in 1 .. MaxColumns
    PROVE  /\ PagesOf(io, n, columns) \in RowSets
           /\ IsCached(io, n) => PagesOf(io, n, columns) # {}
<1>1. io.entries \in Seq(Cachable) /\ io.files[n] \in StoredRows
  BY IOFacts
<1>2. CASE IsCached(io, n)
  <2>1. io.entries[EntryOf(io, n)] \in Cachable
    BY <1>1, <1>2, EntryOfFacts
  <2> QED
    BY <1>2, <2>1, CachableFacts DEF PagesOf
<1>3. CASE ~IsCached(io, n)
  BY <1>1, <1>3, LayoutFacts DEF PagesOf
<1> QED
  BY <1>2, <1>3

\* The first record of a table: a file, and pages to be cached.
LEMMA FirstRecordFacts ==
    ASSUME NEW io, IOOk(io), NEW n \in Names, NEW pointer, Sound(pointer), NEW r \in Row
    PROVE  LET written == [io EXCEPT !.files[n] = Layout({r}, ColumnsAt(pointer))]
           IN  /\ IOOk(written) /\ written.entries = io.entries
               /\ written.files = [io.files EXCEPT ![n] = Layout({r}, ColumnsAt(pointer))]
               /\ FirstRecord(io, n, pointer, r) = Cached(written, n, pointer, {r})
               /\ {r} \in RowSets \ {{}}
               /\ IOOk(FirstRecord(io, n, pointer, r))
<1> DEFINE fs == [io.files EXCEPT ![n] = Layout({r}, ColumnsAt(pointer))]
           written == [io EXCEPT !.files[n] = Layout({r}, ColumnsAt(pointer))]
<1>1. /\ io.entries \in Seq(Cachable) /\ Len(io.entries) <= MaxPages
      /\ io.files \in [Names -> StoredRows]
      /\ \A new : [io EXCEPT !.files = new] = [entries |-> io.entries, files |-> new]
      /\ \A i \in 1 .. Len(io.entries) :
            /\ io.entries[i].last_used \in 1 .. MaxPages
            /\ io.entries[i].table = Dangling \/ Sound(io.entries[i].table)
  BY IOFacts DEF IOOk
<1>2. {r} \in RowSets \ {{}}
  BY SmallRowSets
<1>3. Layout({r}, ColumnsAt(pointer)) \in StoredRows
  BY <1>2, SoundFacts, LayoutFacts DEF StoredRows
<1>4. fs \in [Names -> StoredRows]
  BY <1>1, <1>3
<1>5. written = [io EXCEPT !.files = fs]
  OBVIOUS
<1> HIDE DEF fs, written
<1>6. written = [entries |-> io.entries, files |-> fs]
  BY <1>1, <1>5
<1>7. IOOk(written)
  BY <1>1, <1>4, <1>6, IOIntro
<1>8. FirstRecord(io, n, pointer, r) = Cached(written, n, pointer, {r})
  BY DEF FirstRecord, written
<1>9. IOOk(Cached(written, n, pointer, {r}))
  BY <1>2, <1>7, CachedFacts
<1> QED
  BY <1>2, <1>6, <1>7, <1>8, <1>9 DEF fs, written

\* The same entries and files, but for the pages of entry k (and for stamps).
HasPages(io, new, k, page) ==
    /\ IOOk(new) /\ new.files = io.files
    /\ Len(new.entries) = Len(io.entries)
    /\ \A i \in 1 .. Len(io.entries) :
          /\ new.entries[i].name = io.entries[i].name
          /\ new.entries[i].table = io.entries[i].table
          /\ i # k => new.entries[i].page = io.entries[i].page
    /\ new.entries[k].page = page

\* add_record_to_page, when the pages are in the buffer: the row is added to
\* the pages of the entry, and nothing else changes.
LEMMA AddCachedFacts ==
    ASSUME NEW io, IOOk(io), NEW n \in Names, NEW pointer, Sound(pointer), NEW r \in Row,
           IsCached(io, n)
    PROVE  /\ EntryOf(io, n) \in 1 .. Len(io.entries)
           /\ io.entries[EntryOf(io, n)].name = n
           /\ HasPages(io, AddRecord(io, n, pointer, r), EntryOf(io, n),
                       IF Clashes(io, n, pointer, r) THEN io.entries[EntryOf(io, n)].page
                       ELSE io.entries[EntryOf(io, n)].page \cup {r})
<1> DEFINE found == Found(io, n)
           k == EntryOf(io, n)
           es == [found.entries EXCEPT ![k].page = @ \cup {r}]
<1>1. /\ IOOk(found) /\ found.files = io.files
      /\ Len(found.entries) = Len(io.entries)
      /\ \A i \in 1 .. Len(io.entries) : Alike(found.entries[i], io.entries[i])
  BY FoundFacts
<1>2. k \in 1 .. Len(io.entries) /\ io.entries[k].name = n
  BY EntryOfFacts, IOFacts
<1>3. /\ found.entries \in Seq(Cachable) /\ Len(found.entries) \in 0 .. MaxPages
      /\ DOMAIN found.entries = 1 .. Len(found.entries)
      /\ found.files \in [Names -> StoredRows]
      /\ \A new : [found EXCEPT !.entries = new] = [entries |-> new, files |-> found.files]
      /\ \A i \in 1 .. Len(found.entries) :
            /\ found.entries[i].last_used \in 1 .. MaxPages
            /\ found.entries[i].table = Dangling \/ Sound(found.entries[i].table)
  BY <1>1, IOFacts DEF IOOk
<1>4. found.entries[k] \in Cachable /\ found.entries[k].page = io.entries[k].page
  BY <1>1, <1>2, <1>3 DEF Alike
<1>5. CASE Clashes(io, n, pointer, r)
  <2>1. AddRecord(io, n, pointer, r) = found
    BY <1>5 DEF AddRecord
  <2> QED
    BY <1>1, <1>2, <1>4, <1>5, <2>1 DEF Alike, HasPages
<1>6. CASE ~Clashes(io, n, pointer, r)
  <2>1. AddRecord(io, n, pointer, r) = [found EXCEPT !.entries = es]
    BY <1>6 DEF AddRecord
  <2>2. r[1] \notin KeysOf(io.entries[k].page)
    BY <1>6 DEF Clashes, PagesOf
  <2>3. io.entries[k].page \cup {r} \in RowSets \ {{}}
    BY <1>4, <2>2, CachableFacts, AddedRow
  <2>4. /\ [found.entries[k] EXCEPT !.page = @ \cup {r}] \in Cachable
        /\ [found.entries[k] EXCEPT !.page = @ \cup {r}].page = io.entries[k].page \cup {r}
        /\ [found.entries[k] EXCEPT !.page = @ \cup {r}].name = found.entries[k].name
        /\ [found.entries[k] EXCEPT !.page = @ \cup {r}].table = found.entries[k].table
        /\ [found.entries[k] EXCEPT !.page = @ \cup {r}].last_used = found.entries[k].last_used
    BY <1>4, <2>3 DEF Cachable
  <2>5. /\ es \in Seq(Cachable) /\ Len(es) = Len(io.entries)
        /\ es[k] = [found.entries[k] EXCEPT !.page = @ \cup {r}]
        /\ \A i \in 1 .. Len(io.entries) : i # k => es[i] = found.entries[i]
    BY <1>1, <1>2, <1>3, <2>4
  <2> HIDE DEF es
  <2>6. \A i \in 1 .. Len(es) : /\ es[i].last_used = found.entries[i].last_used
                                /\ es[i].table = found.entries[i].table
                                /\ es[i].name = found.entries[i].name
    BY <2>4, <2>5
  <2>7. \A i \in 1 .. Len(es) : /\ es[i].last_used \in 1 .. MaxPages
                                /\ es[i].table = Dangling \/ Sound(es[i].table)
    BY <1>1, <1>3, <2>5, <2>6
  <2>8. IOOk([entries |-> es, files |-> found.files])
    <3>1. Len(es) <= MaxPages
      BY <1>1, <1>3, <2>5
    <3> QED
      BY <1>3, <2>5, <2>7, <3>1, IOIntro
  <2>9. AddRecord(io, n, pointer, r) = [entries |-> es, files |-> found.files]
    BY <1>3, <2>1
  <2>10. \A i \in 1 .. Len(io.entries) :
            /\ es[i].name = io.entries[i].name
            /\ es[i].table = io.entries[i].table
            /\ i # k => es[i].page = io.entries[i].page
    BY <1>1, <2>5, <2>6 DEF Alike
  <2>11. es[k].page = io.entries[k].page \cup {r}
    BY <2>4, <2>5
  <2>12. /\ IOOk(AddRecord(io, n, pointer, r))
         /\ AddRecord(io, n, pointer, r).entries = es
         /\ AddRecord(io, n, pointer, r).files = io.files
    BY <1>1, <2>8, <2>9
  <2> HIDE DEF es, found
  <2> QED
    BY <1>2, <1>6, <2>5, <2>10, <2>11, <2>12 DEF HasPages
<1> QED
  BY <1>5, <1>6

\* add_record_to_page in every case.
LEMMA AddRecordFacts ==
    ASSUME NEW io, IOOk(io), NEW n \in Names, NEW pointer, Sound(pointer), NEW r \in Row
    PROVE  IOOk(AddRecord(io, n, pointer, r))
<1> DEFINE page == PagesOf(io, n, ColumnsAt(pointer))
<1>1. page \in RowSets
  BY SoundFacts, PagesOfFacts
<1>2. CASE IsCached(io, n)
  BY <1>2, AddCachedFacts DEF HasPages
<1>3. CASE ~IsCached(io, n) /\ page = {}
  <2>1. AddRecord(io, n, pointer, r) = FirstRecord(io, n, pointer, r)
    BY <1>3 DEF AddRecord
  <2>2. IOOk(FirstRecord(io, n, pointer, r))
    BY FirstRecordFacts
  <2> QED
    BY <2>1, <2>2
<1>4. CASE ~IsCached(io, n) /\ page # {} /\ Clashes(io, n, pointer, r)
  BY <1>4 DEF AddRecord
<1>5. CASE ~IsCached(io, n) /\ page # {} /\ ~Clashes(io, n, pointer, r)
  <2>1. page \cup {r} \in RowSets \ {{}}
    BY <1>1, <1>5, AddedRow DEF Clashes
  <2>2. AddRecord(io, n, pointer, r) = Cached(io, n, pointer, page \cup {r})
    BY <1>5 DEF AddRecord
  <2> HIDE DEF page
  <2>3. IOOk(Cached(io, n, pointer, page \cup {r}))
    BY <2>1, CachedFacts
  <2> QED
    BY <2>2, <2>3
<1> HIDE DEF page
<1> QED
  BY <1>2, <1>3, <1>4, <1>5

\* Removing the entry and the file of a table.
LEMMA RemovedFacts ==
    ASSUME NEW io, IOOk(io), NEW n \in Names
    PROVE  LET rest == IF IsCached(io, n) THEN Uncached(io, n) ELSE io
           IN  /\ IOOk(rest) /\ rest.files = io.files
               /\ IOOk(Removed(io, n)) /\ Removed(io, n).entries = rest.entries
               /\ Removed(io, n).files = [io.files EXCEPT ![n] = {}]
<1> DEFINE rest == IF IsCached(io, n) THEN Uncached(io, n) ELSE io
           fs == [rest.files EXCEPT ![n] = {}]
<1>1. IOOk(rest) /\ rest.files = io.files
  BY UncachedFacts
<1>2. Uncached(io, n) = rest
  BY DEF Uncached
<1>3. Removed(io, n) = [rest EXCEPT !.files = fs]
  BY <1>2 DEF Removed
<1> HIDE DEF rest, fs
<1>4. /\ rest.entries \in Seq(Cachable) /\ Len(rest.entries) <= MaxPages
      /\ rest.files \in [Names -> StoredRows]
      /\ Removed(io, n) = [entries |-> rest.entries, files |-> fs]
      /\ \A i \in 1 .. Len(rest.entries) :
            /\ rest.entries[i].last_used \in 1 .. MaxPages
            /\ rest.entries[i].table = Dangling \/ Sound(rest.entries[i].table)
  BY <1>1, <1>3, IOFacts DEF IOOk
<1>5. fs \in [Names -> StoredRows]
  BY <1>4, SmallRowSets DEF fs, StoredRows
<1>6. IOOk(Removed(io, n))
  BY <1>4, <1>5, IOIntro
<1>7. Removed(io, n).entries = rest.entries /\ Removed(io, n).files = fs
  BY <1>4
<1>8. fs = [io.files EXCEPT ![n] = {}]
  BY <1>1 DEF fs
<1>9. /\ IOOk(rest) /\ rest.files = io.files
      /\ IOOk(Removed(io, n)) /\ Removed(io, n).entries = rest.entries
      /\ Removed(io, n).files = [io.files EXCEPT ![n] = {}]
  BY <1>1, <1>6, <1>7, <1>8
<1> QED
  BY <1>9 DEF rest

-----------------------------------------------------------------------------
(* Types.  Why they hold: a pointer always leads to a slot that holds or    *)
(* has held a table, and a statement in the middle of its rows points to a  *)
(* table that is still in use.                                              *)

TablesOK ==
    /\ up \in BOOLEAN
    /\ slots \in [1 .. MaxTables -> Table \cup {NoTable}]
    /\ room \in 0 .. MaxTables
    /\ count \in 0 .. room
    /\ \A i \in 1 .. count : slots[i] # NoTable
    /\ catalog \in Seq(Table) /\ Len(catalog) <= MaxTables

PendingOK ==
    /\ pending \in Unfinished \cup {Idle}
    /\ pending # Idle => Sound(pending.table) /\ pending.old \in RowSets
    /\ pending # Idle /\ pending.kind # "rewrite" => Exists(pending.name)
    /\ pending # Idle /\ pending.kind = "rewrite" => pending.table.slot \in 1 .. count

StoppedOK == ~up => entries = <<>> /\ pending = Idle /\ room = MaxTables

TypeInv == TablesOK /\ IOOk(IO) /\ PendingOK /\ StoppedOK

\* The parts of a statement that is not finished, and what may change in it.
LEMMA UnfinishedFacts ==
    ASSUME NEW p \in Unfinished
    PROVE  /\ p # Idle
           /\ p.kind \in {"rewrite", "add", "drop"} /\ p.name \in Names
           /\ p.table \in PointerType /\ p.columns \in 1 .. MaxColumns
           /\ p.rows \in Seq(Row) /\ p.started \in BOOLEAN
           /\ \A rows \in Seq(Row), started \in BOOLEAN :
                 LET q == [p EXCEPT !.rows = rows, !.started = started]
                 IN  /\ q \in Unfinished /\ q.table = p.table /\ q.kind = p.kind
                     /\ q.rows = rows /\ q.started = started
                     /\ q.name = p.name /\ q.columns = p.columns /\ q.old = p.old
           /\ \A rows \in Seq(Row) :
                 LET q == [p EXCEPT !.rows = rows]
                 IN  /\ q \in Unfinished /\ q.table = p.table /\ q.kind = p.kind
                     /\ q.rows = rows /\ q.started = p.started
                     /\ q.name = p.name /\ q.columns = p.columns /\ q.old = p.old
<1>1. p.kind \in {"rewrite", "add", "drop"}
  BY DEF Unfinished
<1>2. p # Idle
  BY <1>1 DEF Idle
<1> QED
  BY <1>1, <1>2 DEF Unfinished

\* Entries with pages of typed rows are typed.
LEMMA EntriesTyped ==
    ASSUME NEW es \in Seq(Cachable), \A i \in 1 .. Len(es) : es[i].last_used \in 1 .. MaxPages
    PROVE  es \in Seq(Entry)
<1>1. \A i \in 1 .. Len(es) : es[i] \in Cachable
  OBVIOUS
<1>2. \A e \in Cachable : e.last_used \in 1 .. MaxPages => e \in Entry
  <2>1. \A rows \in RowSets \ {{}} : rows \in (SUBSET Row) \ {{}}
    BY DEF RowSets
  <2> QED
    BY <2>1 DEF Cachable, Entry
<1>3. es \in [1 .. Len(es) -> Entry]
  BY <1>1, <1>2
<1> QED
  BY <1>3

\* Files have rows, or rows without values.
LEMMA FilesTyped ==
    ASSUME NEW fs \in [Names -> StoredRows]
    PROVE  fs \in [Names -> SUBSET (Row \cup {<<>>})]
BY DEF StoredRows, RowSets

\* The parts of the invariant give the types.
LEMMA TypeInvTypes == TypeInv => TypeOK
<1> SUFFICES ASSUME TypeInv PROVE TypeOK
  OBVIOUS
<1>1. /\ entries \in Seq(Cachable) /\ Len(entries) <= MaxPages
      /\ files \in [Names -> StoredRows]
      /\ \A i \in 1 .. Len(entries) : entries[i].last_used \in 1 .. MaxPages
  BY DEF TypeInv, IOOk, IO, IOType
<1>2. entries \in Seq(Entry)
  BY <1>1, EntriesTyped
<1>3. files \in [Names -> SUBSET (Row \cup {<<>>})]
  BY <1>1, FilesTyped
<1> QED
  BY <1>1, <1>2, <1>3 DEF TypeInv, TypeOK, TablesOK, PendingOK

\* The empty database.
LEMMA TypeInit == Init => TypeInv
<1> SUFFICES ASSUME Init PROVE TypeInv
  OBVIOUS
<1>1. MaxTables \in Nat
  BY DatabaseAssumption
<1>2. TablesOK
  BY <1>1 DEF Init, TablesOK, NoSlots
<1>3. IOOk(IO)
  <2>1. <<>> \in Seq(Cachable) /\ Len(<<>>) <= MaxPages /\ Len(<<>>) = 0
    BY DatabaseAssumption
  <2>2. [n \in Names |-> {}] \in [Names -> StoredRows]
    BY SmallRowSets DEF StoredRows
  <2>3. \A i \in 1 .. Len(<<>>) : FALSE
    BY <2>1
  <2> QED
    BY <2>1, <2>2, <2>3 DEF Init, IO, IOOk, IOType
<1>4. PendingOK /\ StoppedOK
  BY DEF Init, PendingOK, StoppedOK
<1> QED
  BY <1>2, <1>3, <1>4 DEF TypeInv

\* A slot that holds a table goes on holding one.
SlotsStayTables == \A i \in 1 .. MaxTables : slots[i] \in Table => slots'[i] \in Table

\* Then pointers go on leading to tables.
LEMMA SoundStays ==
    ASSUME SlotsStayTables, NEW pointer, Sound(pointer)
    PROVE  Sound(pointer)'
BY DatabaseAssumption DEF SlotsStayTables, Sound, PointerType

\* The entries and files that an operation returns become the new ones.
LEMMA SetIOFacts ==
    ASSUME NEW io, IOOk(io), SetIO(io), SlotsStayTables
    PROVE  IOOk(IO)'
<1>1. /\ io.entries \in Seq(Cachable) /\ Len(io.entries) <= MaxPages
      /\ io.files \in [Names -> StoredRows]
      /\ \A i \in 1 .. Len(io.entries) :
            /\ io.entries[i].last_used \in 1 .. MaxPages
            /\ io.entries[i].table = Dangling \/ Sound(io.entries[i].table)
  BY DEF IOOk, IOType
<1>2. entries' = io.entries /\ files' = io.files
  BY DEF SetIO
<1>3. \A i \in 1 .. Len(io.entries) :
         io.entries[i].table = Dangling \/ Sound(io.entries[i].table)'
  BY <1>1, SoundStays
<1> QED
  BY <1>1, <1>2, <1>3 DEF IOOk, IO, IOType, Sound, Dangling

\* A step of a running program keeps the invariant if its parts do.
LEMMA TypeStep ==
    ASSUME TypeInv, up, up' = up, NEW io, IOOk(io), SetIO(io), SlotsStayTables,
           TablesOK', PendingOK'
    PROVE  TypeInv'
<1>1. IOOk(IO)'
  BY SetIOFacts
<1>2. StoppedOK'
  BY DEF StoppedOK
<1> QED
  BY <1>1, <1>2 DEF TypeInv

\* The same where the tables in memory do not change.
LEMMA TypeStepTables ==
    ASSUME TypeInv, up, NEW io, IOOk(io), SetIO(io), PendingOK',
           UNCHANGED <<up, slots, count, room, catalog>>
    PROVE  TypeInv'
<1>1. TablesOK'
  BY DEF TypeInv, TablesOK
<1>2. SlotsStayTables
  BY DEF SlotsStayTables
<1> QED
  BY <1>1, <1>2, TypeStep

\* No statement is unfinished.
LEMMA PendingIdle == ASSUME pending' = Idle PROVE PendingOK'
BY DEF PendingOK

\* What a table that exists gives a statement to work with.
LEMMA TypedTable ==
    ASSUME TypeInv, NEW n \in Names, Exists(n)
    PROVE  /\ TypeOK
           /\ SlotOf(n) \in 1 .. count /\ SlotOf(n) \in 1 .. MaxTables
           /\ slots[SlotOf(n)] \in Table /\ slots[SlotOf(n)].name = n
           /\ slots[SlotOf(n)].columns \in 1 .. MaxColumns
           /\ Sound(Pointer(SlotOf(n))) /\ Pointer(SlotOf(n)).slot = SlotOf(n)
           /\ PagesOf(IO, n, slots[SlotOf(n)].columns) \in RowSets
           /\ RowsInOrder(n) \in Seq(Row)
           /\ count \in 0 .. MaxTables /\ count # 0 /\ slots[count] \in Table
<1>1. TypeOK
  BY TypeInvTypes
<1>2. /\ SlotOf(n) \in 1 .. count
      /\ slots[SlotOf(n)] \in Table /\ slots[SlotOf(n)].name = n
      /\ slots[SlotOf(n)].columns \in 1 .. MaxColumns
      /\ Sound(Pointer(SlotOf(n))) /\ Pointer(SlotOf(n)).slot = SlotOf(n)
  BY <1>1, SlotOfFacts DEF Pointer
<1>3. PagesOf(IO, n, slots[SlotOf(n)].columns) \in RowSets
  BY <1>2, PagesOfFacts DEF TypeInv
<1>4. RowsInOrder(n) \in Seq(Row)
  <2>1. RowsInOrder(n) \in Seq(PagesOf(IO, n, slots[SlotOf(n)].columns))
    BY <1>3, InKeyOrderFacts DEF RowsInOrder
  <2>2. PagesOf(IO, n, slots[SlotOf(n)].columns) \subseteq Row
    BY <1>3 DEF RowSets
  <2> QED
    BY <2>1, <2>2
<1>5. count \in 0 .. MaxTables /\ MaxTables \in Nat
  BY DatabaseAssumption DEF TypeInv, TablesOK
<1>6. count # 0 /\ count \in 1 .. MaxTables /\ SlotOf(n) \in 1 .. MaxTables /\ count \in 1 .. count
  BY <1>2, <1>5
<1>7. slots[count] \in Table
  BY <1>5, <1>6 DEF TypeInv, TablesOK
<1> QED
  BY <1>1, <1>2, <1>3, <1>4, <1>5, <1>6, <1>7

\* When the array of tables moves, pointers into it dangle, and the rest of
\* the buffer stays.
LEMMA DanglingFacts ==
    ASSUME TypeInv
    PROVE  /\ IOOk([entries |-> EntriesDangling, files |-> files])
           /\ Len(EntriesDangling) = Len(entries)
           /\ \A i \in 1 .. Len(entries) : /\ EntriesDangling[i].name = entries[i].name
                                            /\ EntriesDangling[i].page = entries[i].page
<1>1. /\ entries \in Seq(Cachable) /\ Len(entries) <= MaxPages /\ files \in [Names -> StoredRows]
      /\ \A i \in 1 .. Len(entries) : entries[i].last_used \in 1 .. MaxPages
      /\ \A i \in 1 .. Len(entries) : entries[i].table = Dangling \/ Sound(entries[i].table)
  BY DEF TypeInv, IOOk, IO, IOType
<1>2. Dangling \in PointerType
  BY DatabaseAssumption DEF Dangling, PointerType
<1>3. \A i \in 1 .. Len(entries) :
         /\ EntriesDangling[i] \in Cachable
         /\ EntriesDangling[i].name = entries[i].name
         /\ EntriesDangling[i].page = entries[i].page
         /\ EntriesDangling[i].last_used \in 1 .. MaxPages
         /\ EntriesDangling[i].table = Dangling \/ Sound(EntriesDangling[i].table)
  <2> TAKE i \in 1 .. Len(entries)
  <2>1. entries[i] \in Cachable
    BY <1>1
  <2>2. CASE entries[i].table.slot = 0
    BY <1>1, <2>1, <2>2 DEF EntriesDangling
  <2>3. CASE entries[i].table.slot # 0
    <3>1. EntriesDangling[i] = [entries[i] EXCEPT !.table = Dangling]
      BY <2>3 DEF EntriesDangling
    <3>2. /\ [entries[i] EXCEPT !.table = Dangling] \in Cachable
          /\ [entries[i] EXCEPT !.table = Dangling].table = Dangling
          /\ [entries[i] EXCEPT !.table = Dangling].last_used = entries[i].last_used
          /\ [entries[i] EXCEPT !.table = Dangling].name = entries[i].name
          /\ [entries[i] EXCEPT !.table = Dangling].page = entries[i].page
      BY <1>2, <2>1 DEF Cachable
    <3> QED
      BY <1>1, <3>1, <3>2
  <2> QED
    BY <2>2, <2>3
<1>4. /\ EntriesDangling \in [1 .. Len(entries) -> Cachable]
      /\ Len(entries) \in Nat
  BY <1>1, <1>3 DEF EntriesDangling
<1>5. EntriesDangling \in Seq(Cachable) /\ Len(EntriesDangling) = Len(entries)
  BY <1>4
<1>6. IOOk([entries |-> EntriesDangling, files |-> files])
  BY <1>1, <1>3, <1>5, IOIntro
<1> QED
  BY <1>3, <1>5, <1>6

LEMMA TypeCreate ==
    ASSUME TypeInv, NEW n \in Names, NEW columns \in NewTableColumns, CreateTable(n, columns)
    PROVE  TypeInv'
<1>1. /\ up /\ up' = up /\ pending' = Idle
      /\ count < MaxTables /\ count' = count + 1 /\ room' = count + 1
      /\ slots' = [slots EXCEPT ![count + 1] = [name |-> n, columns |-> columns]]
      /\ entries' = entries \/ entries' = EntriesDangling
      /\ files' = files /\ catalog' = catalog
  BY DEF CreateTable, Typed
<1>2. /\ count \in 0 .. MaxTables /\ MaxTables \in Nat
      /\ slots \in [1 .. MaxTables -> Table \cup {NoTable}]
      /\ \A i \in 1 .. count : slots[i] # NoTable
      /\ catalog \in Seq(Table) /\ Len(catalog) <= MaxTables
  BY DatabaseAssumption DEF TypeInv, TablesOK
<1>3. [name |-> n, columns |-> columns] \in Table /\ NoTable \notin Table
  BY DatabaseAssumption DEF Table
<1>4. TablesOK'
  BY <1>1, <1>2, <1>3 DEF TablesOK
<1>5. SlotsStayTables
  BY <1>1, <1>2, <1>3 DEF SlotsStayTables
<1>6. CASE entries' = entries
  <2>1. SetIO(IO) /\ IOOk(IO)
    BY <1>1, <1>6 DEF SetIO, IO, TypeInv
  <2> QED
    BY <1>1, <1>4, <1>5, <2>1, PendingIdle, TypeStep
<1>7. CASE entries' = EntriesDangling
  <2>6. IOOk([entries |-> EntriesDangling, files |-> files])
    BY DanglingFacts
  <2>7. SetIO([entries |-> EntriesDangling, files |-> files])
    BY <1>1, <1>7 DEF SetIO
  <2> QED
    BY <1>1, <1>4, <1>5, <2>6, <2>7, PendingIdle, TypeStep
<1> QED
  BY <1>1, <1>6, <1>7

LEMMA TypeInsert ==
    ASSUME TypeInv, NEW n \in Names, NEW rows, Insert(n, rows), rows[1] \in Row,
           Len(rows) = 1 \/ rows[2] \in Row
    PROVE  TypeInv'
<1> DEFINE pointer == Pointer(SlotOf(n))
           first == AddRecord(IO, n, pointer, rows[1])
           io == IF Len(rows) = 1 \/ Clashes(IO, n, pointer, rows[1]) THEN first
                 ELSE AddRecord(first, n, pointer, rows[2])
<1>1. /\ up /\ pending' = Idle /\ Exists(n) /\ SetIO(io)
      /\ UNCHANGED <<up, slots, count, room, catalog>>
  BY DEF Insert, Typed
<1>2. Sound(pointer) /\ IOOk(IO)
  BY <1>1, TypedTable DEF TypeInv
<1>3. IOOk(first)
  BY <1>2, AddRecordFacts
<1>4. IOOk(io)
  <2> HIDE DEF first, pointer
  <2>1. Len(rows) # 1 => IOOk(AddRecord(first, n, pointer, rows[2]))
    BY <1>2, <1>3, AddRecordFacts
  <2> QED
    BY <1>3, <2>1
<1> HIDE DEF io
<1> QED
  BY <1>1, <1>4, PendingIdle, TypeStepTables

LEMMA TypeSelect ==
    ASSUME TypeInv, NEW n \in Names, Select(n)
    PROVE  TypeInv'
<1> DEFINE pointer == Pointer(SlotOf(n))
           page == PagesOf(IO, n, ColumnsAt(pointer))
           io == IF IsCached(IO, n) THEN Found(IO, n)
                 ELSE IF page = {} THEN IO
                 ELSE Cached(IO, n, pointer, page)
<1>1. /\ up /\ pending' = Idle /\ Exists(n) /\ SetIO(io)
      /\ UNCHANGED <<up, slots, count, room, catalog>>
  BY DEF Select, Typed
<1>2. Sound(pointer) /\ IOOk(IO)
  BY <1>1, TypedTable DEF TypeInv
<1>3. page \in RowSets
  BY <1>2, SoundFacts, PagesOfFacts
<1>4. IOOk(io)
  <2> HIDE DEF page, pointer
  <2>1. IOOk(Found(IO, n))
    BY <1>2, FoundFacts
  <2>2. page # {} => IOOk(Cached(IO, n, pointer, page))
    BY <1>2, <1>3, CachedFacts
  <2> QED
    BY <1>2, <2>1, <2>2
<1> HIDE DEF io
<1> QED
  BY <1>1, <1>4, PendingIdle, TypeStepTables

\* The slots after a table was removed, and after it was put back.
LEMMA SlotsWithoutFacts ==
    ASSUME TypeInv, NEW n \in Names, Exists(n)
    PROVE  /\ SlotsWithout(n) \in [1 .. MaxTables -> Table \cup {NoTable}]
           /\ \A i \in 1 .. MaxTables : slots[i] \in Table => SlotsWithout(n)[i] \in Table
           /\ \A i \in 1 .. MaxTables :
                 i # SlotOf(n) => SlotsWithout(n)[i] = slots[i]
           /\ SlotsWithout(n)[SlotOf(n)] = slots[count]
<1>1. /\ slots \in [1 .. MaxTables -> Table \cup {NoTable}]
      /\ SlotOf(n) \in 1 .. MaxTables /\ slots[count] \in Table
  BY TypedTable DEF TypeInv, TablesOK
<1> QED
  BY <1>1 DEF SlotsWithout

LEMMA TypeDrop ==
    ASSUME TypeInv, NEW n \in Names, DropTable(n)
    PROVE  TypeInv'
<1>1. /\ up /\ pending' = Idle /\ Exists(n) /\ SetIO(Removed(IO, n))
      /\ slots' = SlotsWithout(n) /\ count' = count - 1
      /\ UNCHANGED <<up, room, catalog>>
  BY DEF DropTable, Typed
<1>2. IOOk(Removed(IO, n))
  BY RemovedFacts DEF TypeInv
<1>3. SlotsStayTables
  BY <1>1, SlotsWithoutFacts DEF SlotsStayTables
<1>4. /\ count \in 0 .. room /\ count # 0 /\ room \in 0 .. MaxTables /\ MaxTables \in Nat
      /\ \A i \in 1 .. count : slots[i] # NoTable
      /\ slots \in [1 .. MaxTables -> Table \cup {NoTable}]
  BY <1>1, TypedTable, DatabaseAssumption DEF TypeInv, TablesOK
<1>5. \A i \in 1 .. count - 1 : i \in 1 .. MaxTables /\ slots[i] \in Table
  BY <1>4
<1>6. NoTable \notin Table
  BY DatabaseAssumption DEF Table
<1>7. TablesOK'
  <2>1. count' \in 0 .. room
    BY <1>1, <1>4
  <2>2. \A i \in 1 .. count - 1 : SlotsWithout(n)[i] # NoTable
    BY <1>1, <1>5, <1>6, SlotsWithoutFacts
  <2> QED
    BY <1>1, <1>4, <2>1, <2>2, SlotsWithoutFacts DEF TypeInv, TablesOK
<1> QED
  BY <1>1, <1>2, <1>3, <1>7, PendingIdle, TypeStep

\* drop_table and add_table_to_catalog keep the tables, the pointer to the
\* slot and the entries typed.
LEMMA DropAndAddAgainFacts ==
    ASSUME TypeInv, NEW n \in Names, Exists(n), DropAndAddAgain(n)
    PROVE  /\ SlotsStayTables /\ TablesOK'
           /\ IOOk(Removed(IO, n)) /\ SetIO(Removed(IO, n)) /\ up' = up
<1> DEFINE moved == SlotsWithout(n)[SlotOf(n)]
<1>1. /\ SetIO(Removed(IO, n)) /\ room' = count
      /\ slots' = [SlotsWithout(n) EXCEPT ![count] = moved]
      /\ UNCHANGED <<up, count, catalog>>
  BY DEF DropAndAddAgain
<1>2. IOOk(Removed(IO, n))
  BY RemovedFacts DEF TypeInv
<1>3. /\ count \in 1 .. MaxTables /\ MaxTables \in Nat
      /\ \A i \in 1 .. count : slots[i] \in Table
  <2>1. /\ count \in 0 .. MaxTables /\ count # 0 /\ MaxTables \in Nat
        /\ slots \in [1 .. MaxTables -> Table \cup {NoTable}]
        /\ \A i \in 1 .. count : slots[i] # NoTable
    BY TypedTable, DatabaseAssumption DEF TypeInv, TablesOK
  <2> QED
    BY <2>1
<1>4. moved \in Table
  BY <1>3, TypedTable, SlotsWithoutFacts
<1>5. /\ slots' \in [1 .. MaxTables -> Table \cup {NoTable}]
      /\ \A i \in 1 .. MaxTables : slots[i] \in Table => slots'[i] \in Table
  BY <1>1, <1>3, <1>4, SlotsWithoutFacts
<1>6. SlotsStayTables
  BY <1>5 DEF SlotsStayTables
<1>7. NoTable \notin Table
  BY DatabaseAssumption DEF Table
<1>8. \A i \in 1 .. count : slots'[i] # NoTable
  BY <1>3, <1>5, <1>7
<1>9. TablesOK'
  BY <1>1, <1>3, <1>5, <1>8 DEF TypeInv, TablesOK
<1> QED
  BY <1>1, <1>2, <1>6, <1>9

LEMMA TypeDeleteAll ==
    ASSUME TypeInv, NEW n \in Names, DeleteAll(n)
    PROVE  TypeInv'
<1>1. up /\ pending' = Idle /\ Exists(n) /\ DropAndAddAgain(n)
  BY DEF DeleteAll, Typed
<1> QED
  BY <1>1, DropAndAddAgainFacts, PendingIdle, TypeStep

\* A delete or an update that writes its rows back.
LEMMA TypeWriteBack ==
    ASSUME TypeInv, up, NEW n \in Names, Exists(n), DropAndAddAgain(n),
           NEW rows \in Seq(Row), WriteBack(n, rows)
    PROVE  TypeInv'
<1>1. /\ SlotsStayTables /\ TablesOK' /\ up' = up
      /\ IOOk(Removed(IO, n)) /\ SetIO(Removed(IO, n))
  BY DropAndAddAgainFacts
<1>2. /\ Sound(Pointer(SlotOf(n))) /\ Pointer(SlotOf(n)).slot = SlotOf(n)
      /\ SlotOf(n) \in 1 .. MaxTables /\ SlotOf(n) \in 1 .. count /\ SlotOf(n) # 0
      /\ slots[SlotOf(n)] \in Table /\ slots[SlotOf(n)].columns \in 1 .. MaxColumns
  BY TypedTable
<1>3. slots'[SlotOf(n)] \in Table
  BY <1>1, <1>2 DEF SlotsStayTables
<1> DEFINE p == [kind |-> "rewrite", name |-> n, table |-> Pointer(SlotOf(n)),
                 columns |-> slots[SlotOf(n)].columns, rows |-> rows, started |-> FALSE,
                 old |-> {}]
<1>4. p \in Unfinished /\ p.table = Pointer(SlotOf(n)) /\ p.old = {} /\ p.kind = "rewrite"
  BY <1>2 DEF Unfinished, Sound
<1>5. pending' = p /\ count' = count
  BY DEF WriteBack, DropAndAddAgain
<1> HIDE DEF p
<1>6. /\ pending'.table \in PointerType /\ pending'.table.slot = SlotOf(n)
      /\ pending' \in Unfinished /\ pending'.old \in RowSets /\ pending'.kind = "rewrite"
  BY <1>2, <1>4, <1>5, SmallRowSets DEF Sound
<1>7. PendingOK'
  BY <1>2, <1>3, <1>5, <1>6 DEF PendingOK, Sound
<1> QED
  BY <1>1, <1>7, TypeStep

LEMMA TypeDelete ==
    ASSUME TypeInv, NEW n \in Names, NEW key, Delete(n, key)
    PROVE  TypeInv'
<1> DEFINE page == PagesOf(IO, n, slots[SlotOf(n)].columns)
           kept == {r \in page : r[1] # key}
<1>1. up /\ Exists(n) /\ DropAndAddAgain(n) /\ WriteBack(n, KeptByDelete(n, key))
  BY DEF Delete, Typed
<1>2. page \in RowSets
  BY <1>1, TypedTable
<1>3. kept \in RowSets
  BY <1>2, SmallRowSets
<1>4. InKeyOrder(kept) \in Seq(kept) /\ kept \subseteq Row
  BY <1>3, InKeyOrderFacts DEF RowSets
<1>5. InKeyOrder(kept) \in Seq(Row)
  BY <1>4
<1>6. KeptByDelete(n, key) = InKeyOrder(kept)
  BY DEF KeptByDelete
<1> QED
  BY <1>1, <1>5, <1>6, TypeWriteBack

\* A row with another value in one of its columns is a row.
LEMMA UpdatedRow ==
    ASSUME NEW r \in Row, NEW column \in Nat, NEW value \in Keys \cup Values,
           column = 1 => value \in Keys
    PROVE  [r EXCEPT ![column] = Set(@, value)] \in Row
<1>1. /\ Len(r) \in 1 .. MaxColumns /\ r \in [1 .. Len(r) -> Value]
      /\ r[1] \in Keys \cup {Garbled} /\ 1 \in 1 .. Len(r)
  BY RowFacts, DatabaseAssumption
<1>2. [r EXCEPT ![column] = Set(@, value)] \in [1 .. Len(r) -> Value]
  BY <1>1 DEF Value, Set
<1>3. [r EXCEPT ![column] = Set(@, value)][1] \in Keys \cup {Garbled}
  <2>1. r[1] \notin {Null, Unmarked} \/ r[1] \in Keys
    BY <1>1, DatabaseAssumption
  <2> QED
    BY <1>1, <2>1 DEF Set
<1> QED
  BY <1>1, <1>2, <1>3, RowIntro

LEMMA TypeUpdate ==
    ASSUME TypeInv, NEW n \in Names, NEW key, NEW column \in Nat, NEW value \in Keys \cup Values,
           column = 1 => value \in Keys, Update(n, key, column, value)
    PROVE  TypeInv'
<1> DEFINE rows == RowsInOrder(n)
           new == [i \in DOMAIN rows |->
              IF rows[i][1] = key THEN [rows[i] EXCEPT ![column] = Set(@, value)] ELSE rows[i]]
<1>1. up /\ Exists(n) /\ DropAndAddAgain(n) /\ WriteBack(n, new)
  BY DEF Update, Typed
<1>2. rows \in Seq(Row)
  BY <1>1, TypedTable
<1> HIDE DEF rows
<1>3. \A i \in DOMAIN rows : new[i] \in Row
  BY <1>2, UpdatedRow
<1>4. DOMAIN rows = 1 .. Len(rows) /\ Len(rows) \in Nat
  BY <1>2
<1>5. new \in [1 .. Len(rows) -> Row]
  BY <1>3, <1>4
<1>6. new \in Seq(Row)
  BY <1>4, <1>5
<1> HIDE DEF new
<1> QED
  BY <1>1, <1>6, TypeWriteBack

\* The first row that meets a test, if one does.
LEMMA SelectInSeqFacts ==
    ASSUME NEW S, NEW s \in Seq(S), NEW key, \E i \in 1 .. Len(s) : s[i][1] = key
    PROVE  LET k == SelectInSeq(s, LAMBDA r : r[1] = key)
           IN  /\ k \in 1 .. Len(s) /\ s[k][1] = key
               /\ \A i \in 1 .. k - 1 : s[i][1] # key
<1> DEFINE I == {i \in 1 .. Len(s) : s[i][1] = key}
<1>1. I # {} /\ I \subseteq Nat
  OBVIOUS
<1>2. \E i \in I : \A j \in I : i <= j
  <2> HIDE DEF I
  <2> QED
    BY <1>1, LeastMember
<1>3. Min(I) \in I /\ \A j \in I : Min(I) <= j
  BY <1>2 DEF Min
<1>4. SelectInSeq(s, LAMBDA r : r[1] = key) = Min(I)
  BY <1>1 DEF SelectInSeq
<1>5. \A i \in 1 .. Min(I) - 1 : i \notin I /\ i \in 1 .. Len(s)
  <2> HIDE DEF I
  <2>1. Min(I) \in 1 .. Len(s)
    BY <1>3 DEF I
  <2> QED
    BY <1>3, <2>1
<1> QED
  BY <1>3, <1>4, <1>5

LEMMA TypeRefusedUpdate ==
    ASSUME TypeInv, NEW n \in Names, NEW key, RefusedUpdate(n, key)
    PROVE  TypeInv'
<1> DEFINE rows == RowsInOrder(n)
           k == SelectInSeq(rows, LAMBDA r : r[1] = key)
           new == IF key \in KeysOf(Range(rows)) THEN SubSeq(rows, 1, k - 1) ELSE rows
<1>1. up /\ Exists(n) /\ DropAndAddAgain(n) /\ WriteBack(n, new)
  BY DEF RefusedUpdate, Typed
<1>2. rows \in Seq(Row)
  BY <1>1, TypedTable
<1> HIDE DEF rows
<1>3. CASE key \in KeysOf(Range(rows))
  <2>1. \E i \in 1 .. Len(rows) : rows[i][1] = key
    BY <1>2, <1>3 DEF KeysOf, Range
  <2>2. k \in 1 .. Len(rows)
    BY <1>2, <2>1, SelectInSeqFacts
  <2> HIDE DEF k
  <2>3. SubSeq(rows, 1, k - 1) \in Seq(Row)
    BY <1>2, <2>2
  <2>4. new \in Seq(Row)
    BY <1>3, <2>3
  <2> HIDE DEF new
  <2> QED
    BY <1>1, <2>4, TypeWriteBack
<1>4. CASE key \notin KeysOf(Range(rows))
  <2>1. new \in Seq(Row)
    BY <1>2, <1>4
  <2> HIDE DEF new
  <2> QED
    BY <1>1, <2>1, TypeWriteBack
<1> QED
  BY <1>3, <1>4

\* A statement that is not finished has rows of its own left.
LEMMA PendingRows ==
    ASSUME TypeInv, pending # Idle, pending.rows # <<>>
    PROVE  /\ pending \in Unfinished /\ Sound(pending.table)
           /\ Head(pending.rows) \in Row /\ Tail(pending.rows) \in Seq(Row)
<1>1. pending \in Unfinished /\ Sound(pending.table)
  BY DEF TypeInv, PendingOK
<1>2. pending.rows \in Seq(Row)
  BY <1>1, UnfinishedFacts
<1> QED
  BY <1>1, <1>2

LEMMA TypeRewriteRow ==
    ASSUME TypeInv, RewriteRow
    PROVE  TypeInv'
<1> DEFINE pointer == pending.table
           n == slots[pointer.slot].name
           r == Head(pending.rows)
           io == IF pending.started THEN AddRecord(IO, n, pointer, r)
                 ELSE FirstRecord(IO, n, pointer, r)
<1>1. /\ up /\ pending.kind = "rewrite" /\ pending.rows # <<>> /\ SetIO(io)
      /\ pending' = [pending EXCEPT !.rows = Tail(@), !.started = TRUE]
      /\ UNCHANGED <<up, slots, count, room, catalog>>
  BY DEF RewriteRow
<1>2. pending # Idle
  BY <1>1 DEF Idle
<1>3. /\ pending \in Unfinished /\ Sound(pointer) /\ r \in Row
      /\ Tail(pending.rows) \in Seq(Row) /\ pointer.slot \in 1 .. count
  BY <1>1, <1>2, PendingRows DEF TypeInv, PendingOK
<1>4. n \in Names
  <2>1. pointer.slot # 0
    BY <1>3 DEF TypeInv, TablesOK
  <2> QED
    BY <1>3, <2>1, TableFacts DEF Sound
<1>5. IOOk(io)
  <2> HIDE DEF n, r, pointer
  <2>1. IOOk(AddRecord(IO, n, pointer, r))
    BY <1>3, <1>4, AddRecordFacts DEF TypeInv
  <2>2. IOOk(FirstRecord(IO, n, pointer, r))
    BY <1>3, <1>4, FirstRecordFacts DEF TypeInv
  <2> QED
    BY <2>1, <2>2
<1>6. PendingOK'
  <2>1. /\ pending' \in Unfinished /\ pending'.table = pointer /\ pending'.kind = pending.kind
        /\ pending'.old = pending.old
    <3> DEFINE q == [pending EXCEPT !.rows = Tail(pending.rows), !.started = TRUE]
    <3>1. q \in Unfinished /\ q.table = pointer /\ q.kind = pending.kind /\ q.old = pending.old
      <4>1. pending \in Unfinished /\ Tail(pending.rows) \in Seq(Row)
        BY <1>3
      <4> QED
        BY ONLY <4>1 DEF Unfinished
    <3>2. pending' = q
      BY <1>1
    <3> QED
      BY <3>1, <3>2
  <2>2. pending.old \in RowSets
    BY <1>2 DEF TypeInv, PendingOK
  <2> QED
    BY <1>1, <1>3, <2>1, <2>2 DEF PendingOK, Sound
<1> HIDE DEF io
<1> QED
  BY <1>1, <1>5, <1>6, TypeStepTables

LEMMA TypeRewriteFails ==
    ASSUME TypeInv, RewriteFails
    PROVE  TypeInv'
<1>1. up /\ pending' = Idle /\ UNCHANGED <<up, slots, count, room, catalog, entries, files>>
  BY DEF RewriteFails
<1>2. SetIO(IO) /\ IOOk(IO)
  BY <1>1 DEF SetIO, IO, TypeInv
<1> QED
  BY <1>1, <1>2, PendingIdle, TypeStepTables

\* The page of a table that is in the buffer is one of rows.
LEMMA PageInBufferFacts ==
    ASSUME TypeInv, NEW n \in Names
    PROVE  PageInBuffer(n) \in RowSets
<1>1. CASE IsCached(IO, n)
  <2>1. entries[EntryOf(IO, n)].page \in RowSets
    <3>1. IO.entries \in Seq(Cachable) /\ IO.entries = entries
      BY IOFacts DEF TypeInv, IO
    <3>2. IO.entries[EntryOf(IO, n)] \in Cachable
      BY <1>1, <3>1, EntryOfFacts
    <3> QED
      BY <3>1, <3>2, CachableFacts
  <2> QED
    BY <1>1, <2>1 DEF PageInBuffer
<1>2. CASE ~IsCached(IO, n)
  BY <1>2, SmallRowSets DEF PageInBuffer
<1> QED
  BY <1>1, <1>2

\* A table is removed, to be added again with other columns.
LEMMA TypeStartAlter ==
    ASSUME TypeInv, up, NEW n \in Names, NEW kind \in {"add", "drop"}, Exists(n),
           NEW columns \in 1 .. MaxColumns, NEW rows \in Seq(Row), NEW old \in RowSets,
           StartAlter(n, kind, columns, rows, old)
    PROVE  TypeInv'
<1>1. /\ SetIO(Removed(IO, n)) /\ UNCHANGED <<up, slots, count, room, catalog>>
      /\ pending' = [kind |-> kind, name |-> n, table |-> OwnTable(columns),
                     columns |-> columns, rows |-> rows, started |-> FALSE, old |-> old]
  BY DEF StartAlter
<1>2. IOOk(Removed(IO, n))
  BY RemovedFacts DEF TypeInv
<1>3. /\ OwnTable(columns) \in PointerType /\ OwnTable(columns).slot = 0
      /\ OwnTable(columns).columns = columns
  BY DatabaseAssumption DEF OwnTable, PointerType
<1>4. /\ pending' \in Unfinished /\ pending'.table = OwnTable(columns)
      /\ pending'.kind # "rewrite" /\ pending'.old = old /\ pending'.name = n
  BY <1>1, <1>3 DEF Unfinished, RowSets
<1>5. PendingOK'
  <2>1. Exists(n)'
    BY <1>1 DEF Exists, SlotsOf
  <2> QED
    BY <1>3, <1>4, <2>1 DEF PendingOK, Sound, Exists, SlotsOf
<1> QED
  BY <1>1, <1>2, <1>5, TypeStepTables

\* A row with the value of a new column is a row with the same key.
LEMMA RowWithValueFacts ==
    ASSUME NEW r \in Row, NEW c \in 1 .. MaxColumns, c + 1 \in 1 .. MaxColumns,
           NEW value \in Values \cup {Null}
    PROVE  LET t == RowWithValue(r, c, value)
               x(i) == IF i = c + 1
                       THEN IF value = Null /\ i <= Len(r) /\ r[i] # Null THEN Unmarked ELSE value
                       ELSE IF i > Len(r) THEN Garbled
                       ELSE IF i > c THEN BitOf(r[i]) ELSE r[i]
           IN  /\ t \in Row /\ t[1] = r[1]
               /\ Len(t) = IF Len(r) > c + 1 THEN Len(r) ELSE c + 1
               /\ \A i \in 1 .. Len(t) : t[i] = x(i)
<1> DEFINE k == IF Len(r) > c + 1 THEN Len(r) ELSE c + 1
           x(i) == IF i = c + 1
                   THEN IF value = Null /\ i <= Len(r) /\ r[i] # Null THEN Unmarked ELSE value
                   ELSE IF i > Len(r) THEN Garbled
                   ELSE IF i > c THEN BitOf(r[i]) ELSE r[i]
           t == RowWithValue(r, c, value)
<1>1. /\ c \in Nat /\ c >= 1 /\ MaxColumns \in Nat /\ Len(r) \in 1 .. MaxColumns /\ Len(r) \in Nat
      /\ DOMAIN r = 1 .. Len(r) /\ \A i \in 1 .. Len(r) : r[i] \in Value
      /\ r[1] \in Keys \cup {Garbled}
  BY RowFacts, DatabaseAssumption
<1>2. k \in 1 .. MaxColumns /\ 1 \in 1 .. k
  BY <1>1
<1>3. t = [i \in 1 .. k |-> x(i)]
  <2>1. DOMAIN r \cup 1 .. c + 1 = 1 .. k
    BY <1>1
  <2> HIDE DEF k
  <2> QED
    BY <2>1 DEF RowWithValue
<1>4. \A i \in 1 .. k : x(i) \in Value
  <2> TAKE i \in 1 .. k
  <2>1. value \in Value /\ Unmarked \in Value /\ Garbled \in Value
    BY DEF Value
  <2>2. CASE i = c + 1 \/ i > Len(r)
    BY <2>1, <2>2
  <2>3. CASE ~(i = c + 1 \/ i > Len(r))
    <3>1. i \in 1 .. Len(r)
      BY <1>1, <1>2, <2>3
    <3>2. r[i] \in Value
      BY <1>1, <3>1
    <3>3. BitOf(r[i]) \in Value
      BY <3>2 DEF BitOf, Value
    <3> QED
      BY <2>3, <3>2, <3>3
  <2> QED
    BY <2>2, <2>3
<1>5. x(1) = r[1]
  BY <1>1
<1> HIDE DEF x
<1>6. t \in [1 .. k -> Value] /\ t[1] = r[1] /\ \A i \in 1 .. k : t[i] = x(i)
  BY <1>2, <1>3, <1>4, <1>5
<1> HIDE DEF t, k
<1>7. t \in Row /\ Len(t) = k
  BY <1>1, <1>2, <1>6, RowIntro
<1> QED
  BY <1>6, <1>7 DEF t, k, x

\* Tables with other columns are tables, and the saved catalog is a catalog.
LEMMA TypeColumns ==
    ASSUME TypeInv, NEW n, NEW columns \in 1 .. MaxColumns,
           slots' = SlotsWithColumns(n, columns), UNCHANGED <<up, count, room>>,
           catalog' = catalog \/ catalog' = SavedCatalog(slots')
    PROVE  SlotsStayTables /\ TablesOK'
<1>1. /\ slots \in [1 .. MaxTables -> Table \cup {NoTable}]
      /\ count \in 0 .. MaxTables /\ MaxTables \in Nat
      /\ \A i \in 1 .. count : slots[i] \in Table
  BY DatabaseAssumption DEF TypeInv, TablesOK
<1>2. NoTable \notin Table
  BY DatabaseAssumption DEF Table
<1>3. \A t \in Table : [t EXCEPT !.columns = columns] \in Table
  BY DEF Table
<1>4. SlotsOf(n) \subseteq 1 .. count
  BY DEF SlotsOf
<1>5. /\ slots' \in [1 .. MaxTables -> Table \cup {NoTable}]
      /\ \A i \in 1 .. MaxTables : slots[i] \in Table => slots'[i] \in Table
  BY <1>1, <1>3, <1>4 DEF SlotsWithColumns
<1>6. \A i \in 1 .. count : slots'[i] \in Table
  BY <1>1, <1>5
<1>7. SavedCatalog(slots') \in Seq(Table) /\ Len(SavedCatalog(slots')) <= MaxTables
  <2>1. slots' \in Seq(Table \cup {NoTable}) /\ Len(slots') = MaxTables
    BY <1>1, <1>5
  <2>2. SavedCatalog(slots') = [i \in 1 .. count |-> slots'[i]]
    BY <1>1, <2>1 DEF SavedCatalog
  <2> QED
    BY <1>1, <1>6, <2>2
<1>8. TablesOK'
  BY <1>1, <1>2, <1>5, <1>6, <1>7 DEF TypeInv, TablesOK
<1> QED
  BY <1>5, <1>8 DEF SlotsStayTables

LEMMA TypeAlterAdd ==
    ASSUME TypeInv, NEW n \in Names, NEW value \in Values \cup {Null}, AlterAdd(n, value)
    PROVE  TypeInv'
<1> DEFINE columns == slots[SlotOf(n)].columns
           rows == RowsInOrder(n)
           longer == [i \in DOMAIN rows |-> RowWithValue(rows[i], columns, value)]
<1>1. /\ up /\ pending = Idle /\ Exists(n) /\ columns < MaxColumns
      /\ \/ /\ slots' = SlotsWithColumns(n, columns + 1)
            /\ catalog' = SavedCatalog(slots')
            /\ UNCHANGED <<up, count, room, entries, files, pending>>
         \/ StartAlter(n, "add", columns + 1, longer, PageInBuffer(n))
  BY DEF AlterAdd, Typed
<1>2. columns \in 1 .. MaxColumns /\ rows \in Seq(Row)
  BY <1>1, TypedTable
<1>3. columns + 1 \in 1 .. MaxColumns
  BY <1>1, <1>2, DatabaseAssumption
<1>4. CASE slots' = SlotsWithColumns(n, columns + 1) /\ catalog' = SavedCatalog(slots')
           /\ UNCHANGED <<up, count, room, entries, files, pending>>
  <2>1. SlotsStayTables /\ TablesOK'
    BY <1>3, <1>4, TypeColumns
  <2>2. SetIO(IO) /\ IOOk(IO)
    BY <1>4 DEF SetIO, IO, TypeInv
  <2>3. PendingOK'
    BY <1>1, <1>4, PendingIdle
  <2> QED
    BY <1>1, <1>4, <2>1, <2>2, <2>3, TypeStep
<1>5. CASE StartAlter(n, "add", columns + 1, longer, PageInBuffer(n))
  <2>1. \A r \in Row : RowWithValue(r, columns, value) \in Row
    BY <1>2, <1>3, RowWithValueFacts
  <2>2. longer \in Seq(Row)
    <3> HIDE DEF rows, columns
    <3>1. DOMAIN rows = 1 .. Len(rows) /\ Len(rows) \in Nat
      BY <1>2
    <3>2. longer \in [1 .. Len(rows) -> Row]
      BY <1>2, <2>1, <3>1
    <3> QED
      BY <3>1, <3>2
  <2>3. PageInBuffer(n) \in RowSets
    BY PageInBufferFacts
  <2> HIDE DEF longer, columns
  <2> QED
    BY <1>1, <1>3, <1>5, <2>2, <2>3, TypeStartAlter
<1> QED
  BY <1>1, <1>4, <1>5

LEMMA TypeAlterDrop ==
    ASSUME TypeInv, NEW n \in Names, NEW column, AlterDrop(n, column)
    PROVE  TypeInv'
<1> DEFINE columns == slots[SlotOf(n)].columns
           rows == RowsInOrder(n)
<1>1. /\ up /\ pending = Idle /\ Exists(n) /\ column \in 2 .. columns
      /\ \/ /\ slots' = SlotsWithColumns(n, columns - 1)
            /\ UNCHANGED <<up, count, room, entries, files, catalog, pending>>
         \/ StartAlter(n, "drop", columns - 1, rows, {})
  BY DEF AlterDrop, Typed
<1>2. columns \in 1 .. MaxColumns /\ rows \in Seq(Row)
  BY <1>1, TypedTable
<1>3. columns - 1 \in 1 .. MaxColumns
  BY <1>1, <1>2, DatabaseAssumption
<1>4. CASE slots' = SlotsWithColumns(n, columns - 1)
           /\ UNCHANGED <<up, count, room, entries, files, catalog, pending>>
  <2>1. SlotsStayTables /\ TablesOK'
    BY <1>3, <1>4, TypeColumns
  <2>2. SetIO(IO) /\ IOOk(IO)
    BY <1>4 DEF SetIO, IO, TypeInv
  <2>3. PendingOK'
    BY <1>1, <1>4, PendingIdle
  <2> QED
    BY <1>1, <1>4, <2>1, <2>2, <2>3, TypeStep
<1>5. CASE StartAlter(n, "drop", columns - 1, rows, {})
  BY <1>1, <1>2, <1>3, <1>5, SmallRowSets, TypeStartAlter
<1> QED
  BY <1>1, <1>4, <1>5

LEMMA TypeAlterRow ==
    ASSUME TypeInv, AlterRow
    PROVE  TypeInv'
<1> DEFINE r == Head(pending.rows)
<1>1. /\ up /\ pending.kind \in {"add", "drop"} /\ pending.rows # <<>>
      /\ SetIO(AddRecord(IO, pending.name, pending.table, r))
      /\ pending' = [pending EXCEPT !.rows = Tail(@)]
      /\ UNCHANGED <<up, slots, count, room, catalog>>
  BY DEF AlterRow, Alters
<1>2. pending # Idle
  BY <1>1 DEF Idle
<1>3. /\ pending \in Unfinished /\ Sound(pending.table) /\ r \in Row
      /\ Tail(pending.rows) \in Seq(Row) /\ pending.name \in Names
  BY <1>1, <1>2, PendingRows, UnfinishedFacts
<1>4. IOOk(AddRecord(IO, pending.name, pending.table, r))
  BY <1>3, AddRecordFacts DEF TypeInv
<1>5. /\ pending' \in Unfinished /\ pending'.table = pending.table /\ pending'.kind = pending.kind
      /\ pending'.name = pending.name /\ pending'.old = pending.old
  <2>1. pending' = [pending EXCEPT !.rows = Tail(pending.rows)]
    BY <1>1
  <2> QED
    BY <1>3, <2>1 DEF Unfinished
<1>6. PendingOK'
  <2>1. pending.old \in RowSets /\ pending.kind # "rewrite" /\ Exists(pending.name)
    BY <1>1, <1>2 DEF TypeInv, PendingOK
  <2> QED
    BY <1>1, <1>3, <1>5, <2>1 DEF PendingOK, Sound, Exists, SlotsOf
<1> QED
  BY <1>1, <1>4, <1>6, TypeStepTables

LEMMA TypeAlterFails ==
    ASSUME TypeInv, AlterFails
    PROVE  TypeInv'
<1> DEFINE n == pending.name
           r == Head(pending.rows)
           io == IF Clashes(IO, n, pending.table, r) THEN AddRecord(IO, n, pending.table, r) ELSE IO
           new == IF pending.old = {} THEN io ELSE Cached(io, n, Pointer(SlotOf(n)), pending.old)
<1>1. /\ up /\ pending.kind \in {"add", "drop"} /\ pending.rows # <<>>
      /\ SetIO(new) /\ pending' = Idle
      /\ UNCHANGED <<up, slots, count, room, catalog>>
  BY DEF AlterFails, Alters
<1>2. pending # Idle
  BY <1>1 DEF Idle
<1>3. /\ pending \in Unfinished /\ Sound(pending.table) /\ r \in Row
      /\ n \in Names /\ pending.old \in RowSets /\ Exists(n)
  BY <1>1, <1>2, PendingRows, UnfinishedFacts DEF TypeInv, PendingOK
<1>4. IOOk(io)
  BY <1>3, AddRecordFacts DEF TypeInv
<1>5. Sound(Pointer(SlotOf(n)))
  BY <1>3, TypedTable
<1>6. IOOk(new)
  <2> HIDE DEF io, n
  <2>1. CASE pending.old = {}
    BY <1>4, <2>1
  <2>2. CASE pending.old # {}
    <3>1. pending.old \in RowSets \ {{}}
      BY <1>3, <2>2
    <3>2. IOOk(Cached(io, n, Pointer(SlotOf(n)), pending.old))
      BY <1>3, <1>4, <1>5, <3>1, CachedFacts
    <3> QED
      BY <2>2, <3>2
  <2> QED
    BY <2>1, <2>2
<1> HIDE DEF new
<1> QED
  BY <1>1, <1>6, PendingIdle, TypeStepTables

LEMMA TypeFinish ==
    ASSUME TypeInv, Finish
    PROVE  TypeInv'
<1>1. /\ up /\ pending # Idle /\ pending' = Idle
      /\ UNCHANGED <<up, count, room, entries, files>>
      /\ slots' = IF pending.kind = "rewrite" THEN slots
                  ELSE SlotsWithColumns(pending.name, pending.columns)
      /\ catalog' = IF pending.kind = "add" THEN SavedCatalog(slots') ELSE catalog
  BY DEF Finish
<1>2. pending \in Unfinished /\ pending.columns \in 1 .. MaxColumns
  BY <1>1, UnfinishedFacts DEF TypeInv, PendingOK
<1>3. SlotsStayTables /\ TablesOK'
  <2>1. CASE pending.kind = "rewrite"
    BY <1>1, <2>1 DEF TypeInv, TablesOK, SlotsStayTables
  <2>2. CASE pending.kind # "rewrite"
    <3>1. slots' = SlotsWithColumns(pending.name, pending.columns)
      BY <1>1, <2>2
    <3> QED
      BY <1>1, <1>2, <3>1, TypeColumns
  <2> QED
    BY <2>1, <2>2
<1>4. SetIO(IO) /\ IOOk(IO)
  BY <1>1 DEF SetIO, IO, TypeInv
<1> QED
  BY <1>1, <1>3, <1>4, PendingIdle, TypeStep

\* flush_buffer leaves files.
LEMMA FlushedFacts ==
    ASSUME TypeInv, NEW fs \in Flushed(IO)
    PROVE  fs \in [Names -> StoredRows]
<1>1. entries \in Seq(Cachable) /\ files \in [Names -> StoredRows]
  BY DEF TypeInv, IOOk, IO, IOType
<1>2. CASE entries = <<>>
  BY <1>1, <1>2 DEF Flushed, IO
<1>3. CASE entries # <<>>
  <2> DEFINE e == entries[1]
  <2>1. 1 \in 1 .. Len(entries) /\ e \in Cachable
    BY <1>1, <1>3
  <2>2. e.name \in Names /\ e.page \in RowSets /\ (e.table = Dangling \/ Sound(e.table))
    BY <2>1, CachableFacts DEF TypeInv, IOOk, IO
  <2>3. PICK columns \in ColumnsRead(e.table) :
           fs = [files EXCEPT ![e.name] = Layout(e.page, columns)]
    BY <1>3 DEF Flushed, IO
  <2>4. columns \in 0 .. MaxColumns
    BY <2>2, <2>3, SoundFacts, DatabaseAssumption DEF ColumnsRead
  <2>5. Layout(e.page, columns) \in StoredRows
    <3>1. CASE columns = 0
      BY <3>1, LayoutNoColumns, SmallRowSets DEF StoredRows
    <3>2. CASE columns # 0
      <4>1. columns \in 1 .. MaxColumns
        BY <2>4, <3>2, DatabaseAssumption
      <4> QED
        BY <2>2, <4>1, LayoutFacts DEF StoredRows
    <3> QED
      BY <3>1, <3>2
  <2> HIDE DEF e
  <2> QED
    BY <1>1, <2>2, <2>3, <2>5
<1> QED
  BY <1>2, <1>3

\* The end of the process forgets everything but the files and the catalog.
LEMMA TypeEnded ==
    ASSUME TypeInv, Ended, files' \in [Names -> StoredRows],
           catalog' = catalog \/ catalog' = SavedCatalog(slots)
    PROVE  TypeInv'
<1>1. /\ up' = FALSE /\ slots' = NoSlots /\ count' = 0 /\ room' = MaxTables
      /\ entries' = <<>> /\ pending' = Idle
  BY DEF Ended
<1>2. /\ slots \in [1 .. MaxTables -> Table \cup {NoTable}]
      /\ count \in 0 .. MaxTables /\ MaxTables \in Nat
      /\ \A i \in 1 .. count : slots[i] \in Table
      /\ catalog \in Seq(Table) /\ Len(catalog) <= MaxTables
  BY DatabaseAssumption DEF TypeInv, TablesOK
<1>3. catalog' \in Seq(Table) /\ Len(catalog') <= MaxTables
  <2>1. slots \in Seq(Table \cup {NoTable}) /\ Len(slots) = MaxTables
    BY <1>2
  <2>2. SavedCatalog(slots) = [i \in 1 .. count |-> slots[i]]
    BY <1>2, <2>1 DEF SavedCatalog
  <2>3. SavedCatalog(slots) \in Seq(Table) /\ Len(SavedCatalog(slots)) <= MaxTables
    BY <1>2, <2>2
  <2> QED
    BY <1>2, <2>3
<1>4. TablesOK'
  <2>1. slots' \in [1 .. MaxTables -> Table \cup {NoTable}]
    BY <1>1 DEF NoSlots
  <2>2. up' \in BOOLEAN /\ room' \in 0 .. MaxTables /\ count' \in 0 .. room'
    <3>1. room' \in 0 .. MaxTables /\ count' \in 0 .. room'
      BY <1>1, DatabaseAssumption
    <3> QED
      BY <1>1, <3>1
  <2>3. \A i \in 1 .. count' : slots'[i] # NoTable
    BY <1>1
  <2> QED
    BY <1>3, <2>1, <2>2, <2>3 DEF TablesOK
<1>5. IOOk(IO)'
  <2>1. <<>> \in Seq(Cachable) /\ Len(<<>>) <= MaxPages /\ \A i \in 1 .. Len(<<>>) : FALSE
    BY DatabaseAssumption
  <2> QED
    BY <1>1, <2>1 DEF IOOk, IO, IOType
<1>6. PendingOK' /\ StoppedOK'
  BY <1>1, PendingIdle DEF StoppedOK
<1> QED
  BY <1>4, <1>5, <1>6 DEF TypeInv

LEMMA TypeQuit ==
    ASSUME TypeInv, Quit
    PROVE  TypeInv'
BY TypeEnded, FlushedFacts DEF Quit

LEMMA TypeCrash ==
    ASSUME TypeInv, Crash
    PROVE  TypeInv'
BY TypeEnded DEF Crash, TypeInv, IOOk, IO, IOType

LEMMA TypeStart ==
    ASSUME TypeInv, Start
    PROVE  TypeInv'
<1>1. /\ ~up /\ up' = TRUE /\ count' = Len(catalog)
      /\ slots' = [i \in 1 .. MaxTables |-> IF i <= Len(catalog) THEN catalog[i] ELSE NoTable]
      /\ UNCHANGED <<room, entries, files, catalog, pending>>
  BY DEF Start
<1>2. /\ entries = <<>> /\ pending = Idle /\ room = MaxTables /\ MaxTables \in Nat
      /\ catalog \in Seq(Table) /\ Len(catalog) <= MaxTables
      /\ files \in [Names -> StoredRows]
  BY <1>1, DatabaseAssumption DEF TypeInv, TablesOK, StoppedOK, IOOk, IO, IOType
<1>3. NoTable \notin Table
  BY DatabaseAssumption DEF Table
<1>4. \A i \in 1 .. Len(catalog) : i \in 1 .. MaxTables /\ catalog[i] \in Table
  BY <1>2
<1>5. TablesOK'
  <2>1. slots' \in [1 .. MaxTables -> Table \cup {NoTable}]
    BY <1>1, <1>2, <1>4
  <2>2. Len(catalog) \in 0 .. MaxTables
    BY <1>2
  <2>3. \A i \in 1 .. count' : slots'[i] # NoTable
    BY <1>1, <1>3, <1>4
  <2>4. up' \in BOOLEAN /\ room' \in 0 .. MaxTables /\ count' \in 0 .. room'
    BY <1>1, <1>2, <2>2
  <2>5. catalog' \in Seq(Table) /\ Len(catalog') <= MaxTables
    BY <1>1, <1>2
  <2> QED
    BY <2>1, <2>3, <2>4, <2>5 DEF TablesOK
<1>6. IOOk(IO)'
  <2>1. <<>> \in Seq(Cachable) /\ Len(<<>>) <= MaxPages /\ \A i \in 1 .. Len(<<>>) : FALSE
    BY DatabaseAssumption
  <2> QED
    BY <1>1, <1>2, <2>1 DEF IOOk, IO, IOType
<1>7. PendingOK' /\ StoppedOK'
  BY <1>1, <1>2, PendingIdle DEF StoppedOK
<1> QED
  BY <1>5, <1>6, <1>7 DEF TypeInv

\* New rows are rows.
LEMMA NewRowsTyped ==
    ASSUME TypeInv, NEW n \in Names, NEW r \in TypedRows(n)
    PROVE  /\ Exists(n) /\ r \in Row
           /\ r \in NewRows(slots[SlotOf(n)].columns)
           /\ Len(r) = slots[SlotOf(n)].columns
<1>1. Exists(n) /\ r \in NewRows(slots[SlotOf(n)].columns)
  BY DEF TypedRows
<1>2. slots[SlotOf(n)].columns \in 1 .. MaxColumns
  BY <1>1, TypedTable
<1>3. r \in [1 .. slots[SlotOf(n)].columns -> Value] /\ r[1] \in Keys \cup {Garbled}
  BY <1>1 DEF NewRows, Value
<1> QED
  BY <1>1, <1>2, <1>3, RowIntro

\* Every step keeps the invariant.
LEMMA TypeNext == TypeInv /\ [Next]_vars => TypeInv'
<1> SUFFICES ASSUME TypeInv, [Next]_vars PROVE TypeInv'
  OBVIOUS
<1>1. ASSUME NEW n \in Names, NEW columns \in NewTableColumns, CreateTable(n, columns)
      PROVE  TypeInv'
  BY <1>1, TypeCreate
<1>2. ASSUME NEW n \in Names, NEW r \in TypedRows(n), Insert(n, <<r>>)
      PROVE  TypeInv'
  BY <1>2, NewRowsTyped, TypeInsert
<1>3. ASSUME NEW n \in Names, NEW r \in TypedRows(n), NEW s \in TypedRows(n), Insert(n, <<r, s>>)
      PROVE  TypeInv'
  <2>1. <<r, s>>[1] \in Row /\ <<r, s>>[2] \in Row
    BY NewRowsTyped
  <2> QED
    BY <1>3, <2>1, TypeInsert
<1>4. ASSUME NEW n \in Names, Select(n) \/ DropTable(n) \/ DeleteAll(n)
      PROVE  TypeInv'
  BY <1>4, TypeSelect, TypeDrop, TypeDeleteAll
<1>5. ASSUME NEW n \in Names, NEW key \in Keys, Delete(n, key) \/ RefusedUpdate(n, key)
      PROVE  TypeInv'
  BY <1>5, TypeDelete, TypeRefusedUpdate
<1>6. ASSUME NEW n \in Names, NEW key \in Keys, NEW new \in Keys, Update(n, key, 1, new)
      PROVE  TypeInv'
  BY <1>6, TypeUpdate
<1>7. ASSUME NEW n \in Names, NEW key \in Keys, NEW column \in 2 .. MaxColumns,
             NEW value \in Values, Update(n, key, column, value)
      PROVE  TypeInv'
  <2>1. column \in Nat /\ column # 1 /\ value \in Keys \cup Values
    BY DatabaseAssumption
  <2> QED
    BY <1>7, <2>1, TypeUpdate
<1>8. ASSUME NEW n \in Names, NEW value \in Values \cup {Null}, AlterAdd(n, value)
      PROVE  TypeInv'
  BY <1>8, TypeAlterAdd
<1>9. ASSUME NEW n \in Names, NEW column \in 2 .. MaxColumns, AlterDrop(n, column)
      PROVE  TypeInv'
  BY <1>9, TypeAlterDrop
<1>10. CASE Continue
  BY <1>10, TypeRewriteRow, TypeRewriteFails, TypeAlterRow, TypeAlterFails, TypeFinish DEF Continue
<1>11. CASE Quit \/ Crash \/ Start
  BY <1>11, TypeQuit, TypeCrash, TypeStart
<1>12. CASE UNCHANGED vars
  BY <1>12 DEF vars, TypeInv, TablesOK, IOOk, IO, IOType, PendingOK, StoppedOK, Sound, Exists,
               SlotsOf
<1>13. ASSUME NEW n \in Names, InsertRefused(n)
       PROVE  TypeInv'
  BY <1>12, <1>13 DEF InsertRefused
<1> QED
  BY <1>1, <1>2, <1>3, <1>4, <1>5, <1>6, <1>7, <1>8, <1>9, <1>10, <1>11, <1>12, <1>13 DEF Next

\* The invariant of types, in every behaviour of the program.
THEOREM TypeInvariance == Spec => []TypeInv
<1>1. Init => TypeInv
  BY TypeInit
<1>2. TypeInv /\ [Next]_vars => TypeInv'
  BY TypeNext
<1> QED
  BY <1>1, <1>2, PTL DEF Spec

\* Whatever is typed and wherever a crash comes, pointers into the array of
\* tables lead to tables, the buffer has at most max_pages entries and a row
\* has a key: the variables have their types, for every number of tables,
\* keys, columns and pages.
THEOREM TypeCorrect == Spec => []TypeOK
<1>1. TypeInv => TypeOK
  BY TypeInvTypes
<1> QED
  BY <1>1, TypeInvariance, PTL
=============================================================================
