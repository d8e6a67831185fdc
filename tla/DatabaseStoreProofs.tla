------------------------ MODULE DatabaseStoreProofs ------------------------
(***************************************************************************)
(* The statements implement TableStore: each changes the table it names,   *)
(* as it is meant to, and no other; rewriting a table loses no row, unless *)
(* its first page is refused; and <quit> followed by a restart changes     *)
(* nothing, unless a null has the bit of a dropped column.                 *)
(*                                                                         *)
(* Then what reaches the files of the tables, through crashes, restarts    *)
(* and evictions: rows stay there, and what is read from them is what was  *)
(* written.  And a table has one entry in the buffer.                      *)
(***************************************************************************)
EXTENDS DatabaseProofs

-----------------------------------------------------------------------------
(* What the buffer holds, without the order and the stamps of its entries.  *)

\* A table has one entry.
Single(io) ==
    \A i, j \in 1 .. Len(io.entries) : io.entries[i].name = io.entries[j].name => i = j

Holding(e) == [name |-> e.name, table |-> e.table, page |-> e.page]

Held(io) == {Holding(io.entries[i]) : i \in 1 .. Len(io.entries)}

\* The entries are held, and what is held is an entry.
LEMMA HeldFacts ==
    ASSUME NEW io, IOOk(io)
    PROVE  /\ \A i \in 1 .. Len(io.entries) :
                 /\ \E h \in Held(io) : h = Holding(io.entries[i]) /\ h.name = io.entries[i].name
                 /\ io.entries[i].name \in Names
           /\ \A h \in Held(io) :
                 /\ h.name \in Names /\ h.page \in RowSets /\ h.page # {}
                 /\ h.table \in PointerType /\ (h.table = Dangling \/ Sound(h.table))
           /\ \A h \in Held(io) :
                 \E i \in 1 .. Len(io.entries) :
                    /\ h = Holding(io.entries[i]) /\ h.name = io.entries[i].name
                    /\ h.table = io.entries[i].table /\ h.page = io.entries[i].page
<1>1. io.entries \in Seq(Cachable)
  BY IOFacts
<1>2. \A i \in 1 .. Len(io.entries) :
         /\ io.entries[i].name \in Names /\ io.entries[i].page \in RowSets
         /\ io.entries[i].page # {} /\ io.entries[i].table \in PointerType
         /\ io.entries[i].table = Dangling \/ Sound(io.entries[i].table)
  BY <1>1, CachableElement, CachableFacts DEF IOOk
<1>3. \A h \in Held(io) :
         \E i \in 1 .. Len(io.entries) :
            /\ h = Holding(io.entries[i]) /\ h.name = io.entries[i].name
            /\ h.table = io.entries[i].table /\ h.page = io.entries[i].page
  BY DEF Held, Holding
<1>4. \A h \in Held(io) :
         /\ h.name \in Names /\ h.page \in RowSets /\ h.page # {}
         /\ h.table \in PointerType /\ (h.table = Dangling \/ Sound(h.table))
  BY <1>2, <1>3
<1>5. \A i \in 1 .. Len(io.entries) :
         \E h \in Held(io) : h = Holding(io.entries[i]) /\ h.name = io.entries[i].name
  <2> TAKE i \in 1 .. Len(io.entries)
  <2>1. Holding(io.entries[i]) \in Held(io)
    BY DEF Held
  <2>2. Holding(io.entries[i]).name = io.entries[i].name
    BY DEF Holding
  <2> QED
    BY <2>1, <2>2
<1> QED
  BY <1>2, <1>3, <1>4, <1>5

\* A table is looked up among what is held.
LEMMA HeldLookups ==
    ASSUME NEW io, IOOk(io), Single(io)
    PROVE  /\ \A h \in Held(io) :
                 /\ IsCached(io, h.name)
                 /\ \A columns : PagesOf(io, h.name, columns) = h.page
           /\ \A n : IsCached(io, n) <=> \E h \in Held(io) : h.name = n
           /\ \A g, h \in Held(io) : g.name = h.name => g = h
           /\ \A n, columns : ~IsCached(io, n) =>
                 PagesOf(io, n, columns) = Layout(io.files[n], columns)
<1>1. io.entries \in Seq(Cachable) /\ DOMAIN io.entries = 1 .. Len(io.entries)
  BY IOFacts
<1>2. \A n : IsCached(io, n) <=> \E i \in 1 .. Len(io.entries) : io.entries[i].name = n
  BY <1>1 DEF IsCached, EntriesOf
<1>3. \A n : IsCached(io, n) <=> \E h \in Held(io) : h.name = n
  BY <1>2, HeldFacts
<1>4. \A h \in Held(io) : \A columns : PagesOf(io, h.name, columns) = h.page
  <2> TAKE h \in Held(io)
  <2> TAKE columns
  <2>1. PICK i \in 1 .. Len(io.entries) : h.name = io.entries[i].name /\ h.page = io.entries[i].page
    BY HeldFacts
  <2>2. IsCached(io, h.name)
    BY <1>3
  <2>3. EntryOf(io, h.name) \in 1 .. Len(io.entries) /\ io.entries[EntryOf(io, h.name)].name = h.name
    BY <1>1, <2>2, EntryOfFacts
  <2>4. EntryOf(io, h.name) = i
    BY <2>1, <2>3 DEF Single
  <2> QED
    BY <2>1, <2>2, <2>4 DEF PagesOf
<1>5. \A g, h \in Held(io) : g.name = h.name => g = h
  <2> SUFFICES ASSUME NEW g \in Held(io), NEW h \in Held(io), g.name = h.name PROVE g = h
    OBVIOUS
  <2>1. PICK i \in 1 .. Len(io.entries) : g = Holding(io.entries[i]) /\ g.name = io.entries[i].name
    BY HeldFacts
  <2>2. PICK j \in 1 .. Len(io.entries) : h = Holding(io.entries[j]) /\ h.name = io.entries[j].name
    BY HeldFacts
  <2> QED
    BY <2>1, <2>2 DEF Single
<1>6. \A n, columns : ~IsCached(io, n) => PagesOf(io, n, columns) = Layout(io.files[n], columns)
  BY DEF PagesOf
<1> QED
  BY <1>3, <1>4, <1>5, <1>6

\* Entries that are alike hold the same.
LEMMA HeldAlike ==
    ASSUME NEW io, NEW new, IOOk(io), IOOk(new), Single(io),
           Len(new.entries) = Len(io.entries),
           \A i \in 1 .. Len(io.entries) : Alike(new.entries[i], io.entries[i])
    PROVE  Single(new) /\ Held(new) = Held(io)
<1>1. \A i \in 1 .. Len(io.entries) : Holding(new.entries[i]) = Holding(io.entries[i])
  BY DEF Alike, Holding
<1>2. Held(new) = Held(io)
  BY <1>1 DEF Held
<1>3. Single(new)
  BY DEF Single, Alike
<1> QED
  BY <1>2, <1>3

\* There is room for another table.
LEMMA RoomForAll ==
    ASSUME NEW io, IOOk(io), Single(io), NEW n \in Names, ~IsCached(io, n),
           IsFiniteSet(Names), Cardinality(Names) <= MaxPages
    PROVE  ~IsFull(io.entries)
<1> DEFINE N == Len(io.entries)
           f == [i \in 1 .. N + 1 |-> IF i = N + 1 THEN n ELSE io.entries[i].name]
<1>1. N \in Nat /\ MaxPages \in Nat
  BY IOFacts, DatabaseAssumption
<1>2. \A i \in 1 .. N : io.entries[i].name \in Names /\ io.entries[i].name # n
  BY HeldFacts, HeldLookups
<1>3. \A i \in 1 .. N + 1 : i = N + 1 \/ i \in 1 .. N
  BY <1>1
<1>4. f \in [1 .. N + 1 -> Names]
  BY <1>2, <1>3
<1>5. \A i, j \in 1 .. N + 1 : f[i] = f[j] => i = j
  BY <1>2, <1>3 DEF Single
<1> HIDE DEF f
<1>6. f \in Injection(1 .. N + 1, Names)
  BY <1>4, <1>5 DEF Injection, IsInjective
<1>7. Cardinality(1 .. N + 1) <= Cardinality(Names)
  BY <1>6, FS_Injection
<1>8. Cardinality(1 .. N + 1) = N + 1
  BY <1>1, CountUpTo
<1>9. Cardinality(Names) \in Nat
  BY FS_CardinalityType
<1> QED
  BY <1>1, <1>7, <1>8, <1>9 DEF IsFull

\* A page is added to the buffer.
LEMMA HeldCached ==
    ASSUME NEW io, IOOk(io), Single(io), NEW n \in Names, ~IsCached(io, n),
           NEW pointer, Sound(pointer), NEW page \in RowSets \ {{}},
           IsFiniteSet(Names), Cardinality(Names) <= MaxPages
    PROVE  LET new == Cached(io, n, pointer, page)
           IN  /\ IOOk(new) /\ Single(new) /\ new.files = io.files
               /\ Held(new) = Held(io) \cup {[name |-> n, table |-> pointer, page |-> page]}
<1> DEFINE new == Cached(io, n, pointer, page)
           N == Len(io.entries)
           e == NewEntry(io, n, pointer, page)
<1>1. ~IsFull(io.entries)
  BY RoomForAll
<1>2. IOOk(new) /\ new.entries = Append(io.entries, e) /\ new.files = io.files
  <2>1. /\ IOOk(new)
        /\ ~IsFull(io.entries) =>
              /\ new.entries = Append(io.entries, NewEntry(io, n, pointer, page))
              /\ new.files = io.files
        /\ IsFull(io.entries) =>
              /\ new.entries = io.entries
              /\ Victim(io) \in 1 .. Len(io.entries)
              /\ new.files = [io.files EXCEPT ![io.entries[Victim(io)].name] =
                                 Layout(io.entries[Victim(io)].page, ColumnsAt(pointer))]
    BY CachedFacts
  <2> QED
    BY <1>1, <2>1
<1>3. N \in Nat /\ io.entries \in Seq(Cachable)
  BY IOFacts
<1>4. e.name = n /\ Holding(e) = [name |-> n, table |-> pointer, page |-> page]
  BY DEF NewEntry, Holding
<1> HIDE DEF e, new
<1>5. /\ Len(new.entries) = N + 1 /\ new.entries[N + 1] = e
      /\ \A i \in 1 .. N : new.entries[i] = io.entries[i]
  BY <1>2, <1>3
<1>6. \A i \in 1 .. N + 1 : i = N + 1 \/ i \in 1 .. N
  BY <1>3
<1>7. \A i \in 1 .. N : io.entries[i].name # n
  BY HeldFacts, HeldLookups
<1>8. Single(new)
  BY <1>4, <1>5, <1>6, <1>7 DEF Single
<1>9. Held(new) = Held(io) \cup {Holding(e)}
  <2>1. \A h : h \in Held(new) <=> \E i \in 1 .. N + 1 : h = Holding(new.entries[i])
    BY <1>5 DEF Held
  <2>2. \A h : h \in Held(io) <=> \E i \in 1 .. N : h = Holding(io.entries[i])
    BY DEF Held
  <2>3. N + 1 \in 1 .. N + 1 /\ \A i \in 1 .. N : i \in 1 .. N + 1
    BY <1>3
  <2> QED
    BY <1>5, <1>6, <2>1, <2>2, <2>3
<1> QED
  BY <1>2, <1>4, <1>8, <1>9 DEF new

\* A table is removed: nothing is held of it, and all is of the others.
LEMMA HeldRemoved ==
    ASSUME NEW io, IOOk(io), Single(io), NEW n \in Names
    PROVE  LET new == Removed(io, n)
           IN  /\ IOOk(new) /\ Single(new) /\ new.files = [io.files EXCEPT ![n] = {}]
               /\ Held(new) = {h \in Held(io) : h.name # n}
<1> DEFINE new == Removed(io, n)
           rest == IF IsCached(io, n) THEN Uncached(io, n) ELSE io
           N == Len(io.entries)
<1>1. /\ IOOk(new) /\ new.entries = rest.entries
      /\ new.files = [io.files EXCEPT ![n] = {}]
  BY RemovedFacts
<1>2. N \in Nat
  BY IOFacts
<1>3. Single(rest) /\ Held(rest) = {h \in Held(io) : h.name # n}
  <2>1. CASE ~IsCached(io, n)
    <3>1. rest = io
      BY <2>1
    <3>2. \A h \in Held(io) : h.name # n
      BY <2>1, HeldLookups
    <3> QED
      BY <3>1, <3>2
  <2>2. CASE IsCached(io, n)
    <3> DEFINE k == EntryOf(io, n)
    <3>1. /\ Len(rest.entries) = N - 1
          /\ \A j \in 1 .. N - 1 : Alike(rest.entries[j], io.entries[IF j = k THEN N ELSE j])
      BY <2>2, UncachedFacts
    <3>2. k \in 1 .. N /\ io.entries[k].name = n
      BY <2>2, EntryOfFacts, IOFacts
    <3> HIDE DEF k, rest
    <3> DEFINE from(j) == IF j = k THEN N ELSE j
    <3>3. \A j \in 1 .. N - 1 : /\ from(j) \in 1 .. N /\ from(j) # k
                                /\ rest.entries[j].name = io.entries[from(j)].name
                                /\ Holding(rest.entries[j]) = Holding(io.entries[from(j)])
      BY <1>2, <3>1, <3>2 DEF Alike, Holding
    <3>4. \A i \in 1 .. N : i # k => \E j \in 1 .. N - 1 : from(j) = i
      <4> TAKE i \in 1 .. N
      <4> HAVE i # k
      <4>1. CASE i = N
        <5>1. k \in 1 .. N - 1 /\ from(k) = i
          BY <1>2, <3>2, <4>1
        <5> QED
          BY <5>1
      <4>2. CASE i # N
        <5>1. i \in 1 .. N - 1 /\ from(i) = i
          BY <1>2, <4>2
        <5> QED
          BY <5>1
      <4> QED
        BY <4>1, <4>2
    <3>5. \A i, j \in 1 .. N - 1 : from(i) = from(j) => i = j
      BY <1>2, <3>2
    <3> HIDE DEF from
    <3>6. Single(rest)
      <4>1. \A i, j \in 1 .. N - 1 :
               rest.entries[i].name = rest.entries[j].name => from(i) = from(j)
        BY <3>3 DEF Single
      <4> QED
        BY <3>1, <3>5, <4>1 DEF Single
    <3>7. \A i \in 1 .. N : i # k <=> Holding(io.entries[i]).name # n
      <4>1. \A i \in 1 .. N : Holding(io.entries[i]).name = io.entries[i].name
        BY DEF Holding
      <4> QED
        BY <3>2, <4>1 DEF Single
    <3>8. \A h : h \in Held(rest) <=> \E j \in 1 .. N - 1 : h = Holding(rest.entries[j])
      BY <3>1 DEF Held
    <3>9. \A h : h \in Held(io) <=> \E i \in 1 .. N : h = Holding(io.entries[i])
      BY DEF Held
    <3>10. Held(rest) \subseteq {h \in Held(io) : h.name # n}
      BY <3>3, <3>7, <3>8, <3>9
    <3>11. {h \in Held(io) : h.name # n} \subseteq Held(rest)
      BY <3>3, <3>4, <3>7, <3>8, <3>9
    <3> QED
      BY <3>6, <3>10, <3>11
  <2> QED
    BY <2>1, <2>2
<1> QED
  BY <1>1, <1>3 DEF Single, Held

\* A record is added to the pages of a table that are in the buffer.
LEMMA HeldAddCached ==
    ASSUME NEW io, IOOk(io), Single(io), NEW n \in Names, NEW pointer, Sound(pointer),
           NEW r \in Row, NEW h \in Held(io), h.name = n
    PROVE  LET new == AddRecord(io, n, pointer, r)
               page == IF r[1] \in KeysOf(h.page) THEN h.page ELSE h.page \cup {r}
           IN  /\ IOOk(new) /\ Single(new) /\ new.files = io.files
               /\ Held(new) = {g \in Held(io) : g.name # n} \cup
                                 {[name |-> n, table |-> h.table, page |-> page]}
<1> DEFINE new == AddRecord(io, n, pointer, r)
           k == EntryOf(io, n)
           page == IF r[1] \in KeysOf(h.page) THEN h.page ELSE h.page \cup {r}
           N == Len(io.entries)
<1>1. IsCached(io, n) /\ \A columns : PagesOf(io, n, columns) = h.page
  BY HeldLookups
<1>2. k \in 1 .. N /\ io.entries[k].name = n
  BY <1>1, EntryOfFacts, IOFacts
<1>3. h = Holding(io.entries[k]) /\ h.table = io.entries[k].table /\ h.page = io.entries[k].page
  <2>1. PICK i \in 1 .. N : /\ h = Holding(io.entries[i]) /\ h.name = io.entries[i].name
                            /\ h.table = io.entries[i].table /\ h.page = io.entries[i].page
    BY HeldFacts
  <2>2. i = k
    BY <1>2, <2>1 DEF Single
  <2> QED
    BY <2>1, <2>2
<1>4. Clashes(io, n, pointer, r) <=> r[1] \in KeysOf(h.page)
  BY <1>1 DEF Clashes
<1>5. HasPages(io, new, k, page)
  <2>1. HasPages(io, new, k, IF Clashes(io, n, pointer, r) THEN io.entries[k].page
                             ELSE io.entries[k].page \cup {r})
    BY <1>1, AddCachedFacts
  <2> QED
    BY <1>3, <1>4, <2>1
<1> HIDE DEF new, k, page
<1>6. /\ IOOk(new) /\ new.files = io.files /\ Len(new.entries) = N
      /\ \A i \in 1 .. N : new.entries[i].name = io.entries[i].name
      /\ \A i \in 1 .. N : i # k => Holding(new.entries[i]) = Holding(io.entries[i])
      /\ Holding(new.entries[k]) = [name |-> n, table |-> h.table, page |-> page]
  BY <1>2, <1>3, <1>5 DEF HasPages, Holding
<1>7. Single(new)
  BY <1>6 DEF Single
<1>8. \A i \in 1 .. N : i # k <=> Holding(io.entries[i]).name # n
  <2>1. \A i \in 1 .. N : Holding(io.entries[i]).name = io.entries[i].name
    BY DEF Holding
  <2> QED
    BY <1>2, <2>1 DEF Single
<1>9. \A g : g \in Held(new) <=> \E i \in 1 .. N : g = Holding(new.entries[i])
  BY <1>6 DEF Held
<1>10. \A g : g \in Held(io) <=> \E i \in 1 .. N : g = Holding(io.entries[i])
  BY DEF Held
<1>11. Held(new) = {g \in Held(io) : g.name # n} \cup {Holding(new.entries[k])}
  BY <1>2, <1>6, <1>8, <1>9, <1>10
<1> QED
  BY <1>6, <1>7, <1>11 DEF new, page

\* The buffer and the files agree on the tables but one.
Others(io, new, n) ==
    \A m \in Names \ {n} :
        /\ new.files[m] = io.files[m]
        /\ IsCached(new, m) <=> IsCached(io, m)
        /\ \A columns : PagesOf(new, m, columns) = PagesOf(io, m, columns)

\* They do if what they hold agrees.
LEMMA OthersHeld ==
    ASSUME NEW io, NEW new, IOOk(io), IOOk(new), Single(io), Single(new), NEW n,
           \A m \in Names \ {n} : new.files[m] = io.files[m],
           \A h : h.name # n => (h \in Held(new) <=> h \in Held(io))
    PROVE  Others(io, new, n)
<1> SUFFICES ASSUME NEW m \in Names \ {n}
             PROVE  /\ IsCached(new, m) <=> IsCached(io, m)
                    /\ \A columns : PagesOf(new, m, columns) = PagesOf(io, m, columns)
  BY DEF Others
<1>1. IsCached(new, m) <=> IsCached(io, m)
  <2>1. IsCached(new, m) <=> \E h \in Held(new) : h.name = m
    BY HeldLookups
  <2>2. IsCached(io, m) <=> \E h \in Held(io) : h.name = m
    BY HeldLookups
  <2> QED
    BY <2>1, <2>2
<1>2. \A columns : PagesOf(new, m, columns) = PagesOf(io, m, columns)
  <2> TAKE columns
  <2>1. CASE ~IsCached(io, m)
    BY <1>1, <2>1 DEF PagesOf
  <2>2. CASE IsCached(io, m)
    <3>1. PICK h \in Held(io) : h.name = m
      BY <2>2, HeldLookups
    <3>2. h \in Held(new)
      BY <3>1
    <3>3. PagesOf(io, m, columns) = h.page
      BY <3>1, HeldLookups
    <3>4. PagesOf(new, m, columns) = h.page
      BY <3>1, <3>2, HeldLookups
    <3> QED
      BY <3>3, <3>4
  <2> QED
    BY <2>1, <2>2
<1> QED
  BY <1>1, <1>2

\* An operation on table n, that has so many columns, leaves it with these
\* pages; if it is in the buffer, with its old pointer or the one given.
Paged(io, new, n, columns, page, pointer) ==
    /\ IOOk(new) /\ Single(new)
    /\ Others(io, new, n)
    /\ PagesOf(new, n, columns) = page
    /\ \A h \in Held(new) :
          \/ h.name # n /\ h \in Held(io)
          \/ /\ h.name = n /\ h.page = page
             /\ h.table = pointer \/ \E g \in Held(io) : g.name = n /\ g.table = h.table
    /\ \/ new.files[n] = io.files[n]
       \/ \E r \in page : new.files[n] = Layout({r}, columns)

\* The pages are put into the buffer.
LEMMA PagedCached ==
    ASSUME NEW io, IOOk(io), Single(io), NEW n \in Names, ~IsCached(io, n),
           NEW pointer, Sound(pointer), NEW page \in RowSets \ {{}},
           IsFiniteSet(Names), Cardinality(Names) <= MaxPages, NEW columns
    PROVE  Paged(io, Cached(io, n, pointer, page), n, columns, page, pointer)
<1> DEFINE new == Cached(io, n, pointer, page)
           h == [name |-> n, table |-> pointer, page |-> page]
<1>1. IOOk(new) /\ Single(new) /\ new.files = io.files /\ Held(new) = Held(io) \cup {h}
  BY HeldCached
<1> HIDE DEF new
<1>2. h.name = n /\ h.table = pointer /\ h.page = page
  OBVIOUS
<1> HIDE DEF h
<1>3. \A g \in Held(io) : g.name # n
  BY HeldLookups
<1>4. Others(io, new, n)
  BY <1>1, <1>2, OthersHeld
<1>5. PagesOf(new, n, columns) = page
  BY <1>1, <1>2, HeldLookups
<1>6. \A g \in Held(new) : \/ g.name # n /\ g \in Held(io)
                           \/ g.name = n /\ g.page = page /\ g.table = pointer
  BY <1>1, <1>2, <1>3
<1> QED
  BY <1>1, <1>4, <1>5, <1>6 DEF Paged, new

\* A record is added, unless its key is there.
LEMMA PagedAdd ==
    ASSUME NEW io, IOOk(io), Single(io), NEW n \in Names, NEW pointer, Sound(pointer),
           NEW r \in Row, IsFiniteSet(Names), Cardinality(Names) <= MaxPages,
           NEW columns, columns = ColumnsAt(pointer)
    PROVE  LET page == PagesOf(io, n, columns)
           IN  /\ Clashes(io, n, pointer, r) <=> r[1] \in KeysOf(page)
               /\ Paged(io, AddRecord(io, n, pointer, r), n, columns,
                        IF r[1] \in KeysOf(page) THEN page ELSE page \cup {r}, pointer)
<1> DEFINE page == PagesOf(io, n, columns)
           new == AddRecord(io, n, pointer, r)
           pages == IF r[1] \in KeysOf(page) THEN page ELSE page \cup {r}
<1>0. Clashes(io, n, pointer, r) <=> r[1] \in KeysOf(page)
  BY DEF Clashes
<1>1. CASE IsCached(io, n)
  <2>1. PICK h \in Held(io) : h.name = n
    BY <1>1, HeldLookups
  <2>2. page = h.page
    BY <2>1, HeldLookups
  <2> DEFINE g == [name |-> n, table |-> h.table, page |-> pages]
  <2>3. /\ IOOk(new) /\ Single(new) /\ new.files = io.files
        /\ Held(new) = {f \in Held(io) : f.name # n} \cup {g}
    BY <2>1, <2>2, HeldAddCached
  <2> HIDE DEF new, pages
  <2>4. g.name = n /\ g.table = h.table /\ g.page = pages
    OBVIOUS
  <2> HIDE DEF g
  <2>5. Others(io, new, n)
    BY <2>3, <2>4, OthersHeld
  <2>6. PagesOf(new, n, columns) = pages
    BY <2>3, <2>4, HeldLookups
  <2>7. \A f \in Held(new) :
           \/ f.name # n /\ f \in Held(io)
           \/ f.name = n /\ f.page = pages /\ f.table = h.table
    BY <2>3, <2>4
  <2> QED
    BY <1>0, <2>1, <2>3, <2>5, <2>6, <2>7 DEF Paged, new, pages
<1>2. CASE ~IsCached(io, n) /\ page = {}
  <2> DEFINE written == [io EXCEPT !.files[n] = Layout({r}, ColumnsAt(pointer))]
  <2>1. /\ IOOk(written) /\ written.entries = io.entries
        /\ written.files = [io.files EXCEPT ![n] = Layout({r}, ColumnsAt(pointer))]
        /\ FirstRecord(io, n, pointer, r) = Cached(written, n, pointer, {r})
        /\ {r} \in RowSets \ {{}}
    BY ONLY IOOk(io), n \in Names, Sound(pointer), r \in Row, FirstRecordFacts
  <2>2. new = Cached(written, n, pointer, {r})
    BY <1>2, <2>1 DEF AddRecord
  <2>3. pages = {r}
    BY <1>2 DEF KeysOf
  <2> HIDE DEF written, new, pages
  <2>4. Single(written) /\ ~IsCached(written, n) /\ Held(written) = Held(io)
    BY <1>2, <2>1 DEF Single, IsCached, Held
  <2>5. Paged(written, new, n, columns, pages, pointer)
    BY <2>1, <2>2, <2>3, <2>4, PagedCached
  <2>6. io.files \in [Names -> StoredRows]
    BY IOFacts
  <2>7. \A m \in Names \ {n} : written.files[m] = io.files[m]
    BY <2>1, <2>6
  <2>8. Others(io, written, n)
    BY <2>1, <2>4, <2>7, OthersHeld
  <2>9. Others(io, new, n)
    BY <2>5, <2>8 DEF Paged, Others
  <2>10. written.files[n] = Layout({r}, columns) /\ r \in pages
    BY <2>1, <2>3, <2>6
  <2>11. new.files[n] = io.files[n] \/ \E s \in pages : new.files[n] = Layout({s}, columns)
    BY <2>5, <2>10 DEF Paged
  <2> QED
    BY <1>0, <2>4, <2>5, <2>9, <2>11 DEF Paged, new, pages
<1>3. CASE ~IsCached(io, n) /\ page # {} /\ r[1] \in KeysOf(page)
  <2>1. new = io /\ pages = page
    BY <1>0, <1>3 DEF AddRecord
  <2>2. \A h \in Held(io) : h.name # n
    BY <1>3, HeldLookups
  <2> HIDE DEF new, pages, page
  <2>3. Paged(io, new, n, columns, pages, pointer)
    BY <2>1, <2>2 DEF Paged, Others, page
  <2> QED
    BY <1>0, <2>3 DEF new, pages, page
<1>4. CASE ~IsCached(io, n) /\ page # {} /\ r[1] \notin KeysOf(page)
  <2>1. new = Cached(io, n, pointer, page \cup {r}) /\ pages = page \cup {r}
    BY <1>0, <1>4 DEF AddRecord
  <2>2. page \in RowSets
    BY SoundFacts, PagesOfFacts
  <2>3. page \cup {r} \in RowSets \ {{}}
    BY <1>4, <2>2, AddedRow
  <2> HIDE DEF new, pages, page
  <2>4. Paged(io, new, n, columns, pages, pointer)
    BY <1>4, <2>1, <2>3, PagedCached
  <2> QED
    BY <1>0, <2>4 DEF new, pages, page
<1> HIDE DEF page
<1>5. IsCached(io, n) \/ (~IsCached(io, n) /\ page = {}) \/ (~IsCached(io, n) /\ page # {})
  OBVIOUS
<1> QED
  BY <1>1, <1>2, <1>3, <1>4, <1>5 DEF page

\* The pages are read: a lookup, and what comes from the file is cached.
LEMMA PagedRead ==
    ASSUME NEW io, IOOk(io), Single(io), NEW n \in Names, NEW pointer, Sound(pointer),
           IsFiniteSet(Names), Cardinality(Names) <= MaxPages,
           NEW columns, columns = ColumnsAt(pointer)
    PROVE  LET page == PagesOf(io, n, columns)
           IN  Paged(io, IF IsCached(io, n) THEN Found(io, n)
                         ELSE IF page = {} THEN io
                         ELSE Cached(io, n, pointer, page), n, columns, page, pointer)
<1> DEFINE page == PagesOf(io, n, columns)
<1>1. CASE IsCached(io, n)
  <2> DEFINE new == Found(io, n)
  <2>1. /\ IOOk(new) /\ new.files = io.files
        /\ Len(new.entries) = Len(io.entries)
        /\ \A i \in 1 .. Len(io.entries) : Alike(new.entries[i], io.entries[i])
    BY FoundFacts
  <2> HIDE DEF new
  <2>2. Single(new) /\ Held(new) = Held(io)
    BY <2>1, HeldAlike
  <2>3. Others(io, new, n)
    BY <2>1, <2>2, OthersHeld
  <2>4. PICK h \in Held(io) : h.name = n
    BY <1>1, HeldLookups
  <2>5. page = h.page /\ PagesOf(new, n, columns) = h.page
    BY <2>1, <2>2, <2>4, HeldLookups
  <2>6. \A g \in Held(io) : g.name = n => g = h
    BY <2>4, HeldLookups
  <2> HIDE DEF page
  <2>7. Paged(io, new, n, columns, page, pointer)
    BY <2>1, <2>2, <2>3, <2>5, <2>6 DEF Paged
  <2> QED
    BY <1>1, <2>7 DEF new, page
<1>2. CASE ~IsCached(io, n) /\ page = {}
  <2>1. \A h \in Held(io) : h.name # n
    BY <1>2, HeldLookups
  <2>2. Paged(io, io, n, columns, page, pointer)
    BY <2>1 DEF Paged, Others
  <2> QED
    BY <1>2, <2>2
<1>3. CASE ~IsCached(io, n) /\ page # {}
  <2>1. page \in RowSets \ {{}}
    BY <1>3, SoundFacts, PagesOfFacts
  <2> HIDE DEF page
  <2>2. Paged(io, Cached(io, n, pointer, page), n, columns, page, pointer)
    BY <1>3, <2>1, PagedCached
  <2> QED
    BY <1>3, <2>2 DEF page
<1> HIDE DEF page
<1>4. IsCached(io, n) \/ (~IsCached(io, n) /\ page = {}) \/ (~IsCached(io, n) /\ page # {})
  OBVIOUS
<1> QED
  BY <1>1, <1>2, <1>3, <1>4 DEF page

\* One operation after another, with more rows.
LEMMA PagedTwice ==
    ASSUME NEW io, NEW first, NEW new, NEW n, NEW columns, NEW page, NEW pages, NEW pointer,
           Paged(io, first, n, columns, page, pointer),
           Paged(first, new, n, columns, pages, pointer), page \subseteq pages
    PROVE  Paged(io, new, n, columns, pages, pointer)
<1>1. Others(io, new, n)
  BY DEF Paged, Others
<1>2. \A h \in Held(new) :
          \/ h.name # n /\ h \in Held(io)
          \/ /\ h.name = n /\ h.page = pages
             /\ h.table = pointer \/ \E g \in Held(io) : g.name = n /\ g.table = h.table
  BY DEF Paged
<1>3. new.files[n] = io.files[n] \/ \E r \in pages : new.files[n] = Layout({r}, columns)
  BY DEF Paged
<1> QED
  BY <1>1, <1>2, <1>3 DEF Paged

-----------------------------------------------------------------------------
(* What is shown of a table.  Tables have different names, and each at most *)
(* one entry; a table that does not exist has left neither an entry nor a   *)
(* file; the rows in memory have the columns of their table, or more; and   *)
(* an altered table gets every row once.                                    *)

OneName == \E n \in Names : Names = {n}

\* Statements that implement TableStore: the buffer has room for every table,
\* only the last column is dropped, and a statement that drops a table to add
\* it again, or <quit>, finds one table only.
Separate ==
    /\ IsFiniteSet(Names) /\ Cardinality(Names) <= MaxPages
    /\ "crash" \notin Statements
    /\ "drop column" \in Statements => MaxColumns <= 2
    /\ \/ Statements \cap {"delete all", "delete", "update", "refused update", "quit"} = {}
       \/ OneName

NamedOnce(tables, k) == \A i, j \in 1 .. k : tables[i].name = tables[j].name => i = j

ColumnsOf(n) == slots[SlotOf(n)].columns

Current(n) == IF pending # Idle /\ pending.name = n THEN pending.columns ELSE ColumnsOf(n)

Pages(n) == PagesOf(IO, n, Current(n))

\* The rows a statement still has to write that will not be refused.
Left(rows, keys) == {r \in FirstByKey(rows) : r[1] \notin keys}

Remaining(n) ==
    IF pending # Idle /\ pending.name = n THEN Left(pending.rows, KeysOf(Pages(n))) ELSE {}

HaveKeys(rows) == \A r \in rows : r[1] \in Keys

Wide(rows, columns) == \A r \in rows : Len(r) >= columns

DistinctKeys(s) == \A i, j \in 1 .. Len(s) : s[i][1] = s[j][1] => i = j

\* What is written has no bit set for a null.
Unmixed(rows) == \A r \in rows : \A i \in 1 .. Len(r) : r[i] # Unmarked

Absent == \A n \in Names : n \notin Living => files[n] = {} /\ ~IsCached(IO, n)

RowsKept ==
    /\ \A n \in Names : files[n] \in RowSets /\ HaveKeys(files[n]) /\ Unmixed(files[n])
    /\ \A h \in Held(IO) : HaveKeys(h.page) /\ Wide(h.page, Current(h.name))

\* The page that alter_table_add may put back has the rows without the value
\* of the new column.
OldKept ==
    pending.old # {} =>
        /\ HaveKeys(pending.old) /\ Wide(pending.old, ColumnsOf(pending.name))
        /\ pending.columns = ColumnsOf(pending.name) + 1
        /\ Pages(pending.name) = {} =>
              View(pending.old, ColumnsOf(pending.name)) =
                 {Front(r) : r \in View(FirstByKey(pending.rows), pending.columns)}

PendingKept ==
    pending # Idle =>
        /\ Exists(pending.name)
        /\ \A i \in 1 .. Len(pending.rows) :
              pending.rows[i][1] \in Keys /\ Len(pending.rows[i]) >= pending.columns
        /\ pending.kind # "rewrite" =>
              /\ pending.table = OwnTable(pending.columns)
              /\ DistinctKeys(pending.rows)
              /\ \A i \in 1 .. Len(pending.rows) :
                    pending.rows[i][1] \notin KeysOf(Pages(pending.name))
              /\ OldKept
        /\ pending.kind = "rewrite" =>
              /\ OneName
              /\ pending.table = Pointer(SlotOf(pending.name))
              /\ pending.columns = ColumnsOf(pending.name)
              /\ ~pending.started => files[pending.name] = {} /\ ~IsCached(IO, pending.name)

\* <quit> writes the pages of the only table with its columns.
Described ==
    OneName => \A h \in Held(IO) : h.table # Dangling /\ ColumnsAt(h.table) = Current(h.name)

StoreInv ==
    /\ TypeInv
    /\ Single(IO) /\ NamedOnce(slots, count) /\ NamedOnce(catalog, Len(catalog))
    /\ Absent /\ RowsKept /\ PendingKept /\ Described
    /\ up \/ OneName

\* With different names, a table is looked up where it is.
SlotFact ==
    count \in Nat /\ NamedOnce(slots, count) =>
        \A i \in 1 .. count : Exists(slots[i].name) /\ SlotOf(slots[i].name) = i

LEMMA SlotIsFound == SlotFact
<1> SUFFICES ASSUME count \in Nat, NamedOnce(slots, count), NEW i \in 1 .. count
             PROVE  Exists(slots[i].name) /\ SlotOf(slots[i].name) = i
  BY DEF SlotFact
<1>1. SlotsOf(slots[i].name) = {i}
  BY DEF SlotsOf, NamedOnce
<1>2. SlotOf(slots[i].name) = i
  BY <1>1 DEF SlotOf
<1> QED
  BY <1>1, <1>2 DEF Exists

\* While the program runs, what is shown of a table is its pages and what is
\* left to write.
ViewFact ==
    up => \A n \in Names :
        Shown(n) = [columns |-> Current(n), rows |-> View(Pages(n) \cup Remaining(n), Current(n))]

LEMMA ViewIsShown == ViewFact
<1> SUFFICES ASSUME up, NEW n \in Names
             PROVE  Shown(n) = [columns |-> Current(n),
                                rows |-> View(Pages(n) \cup Remaining(n), Current(n))]
  BY DEF ViewFact
<1>1. CASE pending # Idle /\ pending.name = n
  BY <1>1 DEF Shown, Current, Pages, Remaining, Left
<1>2. CASE ~(pending # Idle /\ pending.name = n)
  BY <1>2 DEF Shown, Current, Pages, Remaining, ColumnsOf
<1> QED
  BY <1>1, <1>2

\* Both facts hold after a step, too.
LEMMA SlotIsFoundNext == SlotFact'
BY SlotIsFound, PTL

LEMMA ViewIsShownNext == ViewFact'
BY ViewIsShown, PTL

\* The tables that exist.
LEMMA LivingFacts ==
    ASSUME StoreInv, up
    PROVE  /\ \A n : n \in Living <=> Exists(n)
           /\ \A n \in Living : n \in Names /\ \E i \in 1 .. count : slots[i].name = n
<1>1. \A n : n \in Living <=> Exists(n)
  BY DEF Living, Exists, SlotsOf
<1>2. TypeOK
  BY TypeInvTypes DEF StoreInv
<1>3. \A n : Exists(n) =>
         /\ SlotOf(n) \in 1 .. count /\ slots[SlotOf(n)].name = n /\ slots[SlotOf(n)] \in Table
  BY <1>2, SlotOfFacts
<1>4. \A n : Exists(n) => n \in Names /\ \E i \in 1 .. count : slots[i].name = n
  BY <1>3, TableFacts
<1> QED
  BY <1>1, <1>4

\* The columns and the pages of a table that exists.
LEMMA CurrentFacts ==
    ASSUME StoreInv, up, NEW n \in Names, Exists(n)
    PROVE  /\ Current(n) \in 1 .. MaxColumns /\ ColumnsOf(n) \in 1 .. MaxColumns
           /\ Pages(n) \in RowSets /\ Pages(n) \subseteq Row
           /\ HaveKeys(Pages(n)) /\ Wide(Pages(n), Current(n))
           /\ IOOk(IO) /\ Single(IO)
<1>1. TypeInv /\ IOOk(IO) /\ Single(IO)
  BY DEF StoreInv, TypeInv
<1>2. ColumnsOf(n) \in 1 .. MaxColumns
  BY <1>1, TypedTable DEF ColumnsOf
<1>3. pending # Idle => pending.columns \in 1 .. MaxColumns
  BY <1>1, UnfinishedFacts DEF TypeInv, PendingOK
<1>4. Current(n) \in 1 .. MaxColumns
  BY <1>2, <1>3 DEF Current
<1>5. Pages(n) \in RowSets
  BY <1>1, <1>4, PagesOfFacts DEF Pages
<1>6. HaveKeys(Pages(n)) /\ Wide(Pages(n), Current(n))
  <2>1. CASE IsCached(IO, n)
    <3>1. PICK h \in Held(IO) : h.name = n
      BY <1>1, <2>1, HeldLookups
    <3>2. Pages(n) = h.page
      BY <1>1, <3>1, HeldLookups DEF Pages
    <3> QED
      BY <3>1, <3>2 DEF StoreInv, RowsKept
  <2>2. CASE ~IsCached(IO, n)
    <3>1. Pages(n) = Layout(files[n], Current(n)) /\ files[n] \in StoredRows /\ files[n] \in RowSets
      BY <1>1, <2>2 DEF Pages, PagesOf, IO, StoreInv, RowsKept, StoredRows
    <3>2. /\ \A r \in Pages(n) : Len(r) >= Current(n)
          /\ KeysOf(Pages(n)) = KeysOf(files[n])
      BY <1>4, <3>1, LayoutFacts
    <3>3. HaveKeys(Pages(n))
      BY <3>2 DEF KeysOf, HaveKeys, StoreInv, RowsKept
    <3>4. Wide(Pages(n), Current(n))
      BY <1>4, <3>2, DatabaseAssumption DEF Wide
    <3> QED
      BY <3>3, <3>4
  <2> QED
    BY <2>1, <2>2
<1>7. Pages(n) \subseteq Row
  BY <1>5 DEF RowSets
<1> QED
  BY <1>1, <1>2, <1>4, <1>5, <1>6, <1>7

\* What is read or written has no bit set for a null.
LEMMA LayoutUnmixed ==
    ASSUME NEW rows, rows \subseteq Row \cup {<<>>}, NEW c \in 1 .. MaxColumns
    PROVE  Unmixed(Layout(rows, c))
<1> SUFFICES ASSUME NEW r \in rows, NEW i \in 1 .. Len(WithColumns(r, c))
             PROVE  WithColumns(r, c)[i] # Unmarked
  BY DEF Unmixed, Layout
<1>1. WithColumns(r, c) \in Row
  BY WithColumnsFacts
<1>2. i \in DOMAIN WithColumns(r, c)
  BY <1>1, RowFacts
<1>3. c # 0
  BY DatabaseAssumption
<1>4. \A x : Written(x) # Unmarked /\ BitOf(x) # Unmarked
  BY DatabaseAssumption DEF Written, BitOf
<1> QED
  BY <1>2, <1>3, <1>4, DatabaseAssumption DEF WithColumns

-----------------------------------------------------------------------------
(* Steps on one table *)

\* What is shown of the other tables does not change.
OthersShown(n) == \A m \in Living \ {n} : Shown(m)' = Shown(m)

\* The entries and files that an operation returns are the new ones.
LEMMA NewIO ==
    ASSUME NEW io, IOOk(io), SetIO(io)
    PROVE  IO' = io /\ files' = io.files /\ entries' = io.entries
<1>1. io = [entries |-> io.entries, files |-> io.files]
  BY IOFacts
<1> QED
  BY <1>1 DEF IO, SetIO

\* An unfinished statement, if there is one, goes on with the same table.
GoesOn(n) ==
    \/ pending = Idle /\ pending' = Idle
    \/ /\ pending # Idle /\ pending' # Idle
       /\ pending.name = n /\ pending'.name = n
       /\ pending'.columns = pending.columns

\* Rows are read or written.
LEMMA TableStep ==
    ASSUME StoreInv, TypeInv', up, up' = up, slots' = slots, count' = count,
           catalog' = catalog, PendingKept', NEW n \in Names, Exists(n), GoesOn(n), NEW io, SetIO(io), NEW page, NEW pointer,
           Paged(IO, io, n, Current(n), page, pointer),
           HaveKeys(page), Wide(page, Current(n)), page \subseteq Row,
           OneName => pointer # Dangling /\ ColumnsAt(pointer) = Current(n)
    PROVE  /\ StoreInv' /\ Living' = Living /\ OthersShown(n)
           /\ Shown(n)' = [columns |-> Current(n),
                rows |-> View(page \cup (IF pending' = Idle THEN {}
                                           ELSE Left(pending'.rows, KeysOf(page))), Current(n))]
<1>1. IO' = io /\ files' = io.files /\ IOOk(io) /\ Single(io)
  BY NewIO DEF Paged
<1>2. Living' = Living
  BY DEF Living
<1>3. \A m : SlotOf(m)' = SlotOf(m) /\ (Exists(m)' <=> Exists(m)) /\ ColumnsOf(m)' = ColumnsOf(m)
  BY DEF SlotOf, SlotsOf, Exists, ColumnsOf
<1>4. \A m : Current(m)' = Current(m)
  BY <1>3 DEF Current, GoesOn
<1>5. \A m \in Names \ {n} : /\ Pages(m)' = Pages(m) /\ files'[m] = files[m]
                             /\ IsCached(io, m) <=> IsCached(IO, m)
  BY <1>1, <1>4 DEF Pages, Paged, Others, IO
<1>6. Pages(n)' = page
  BY <1>1, <1>4 DEF Pages, Paged
<1>7. \A m \in Names \ {n} : Remaining(m)' = {} /\ Remaining(m) = {}
  BY DEF Remaining, GoesOn
<1>8. Remaining(n)' = IF pending' = Idle THEN {} ELSE Left(pending'.rows, KeysOf(page))
  BY <1>6 DEF Remaining, GoesOn
<1>9. OthersShown(n)
  BY <1>4, <1>5, <1>7, LivingFacts, ViewIsShown, ViewIsShownNext
  DEF ViewFact, OthersShown
<1>10. Shown(n)' = [columns |-> Current(n),
                    rows |-> View(page \cup (IF pending' = Idle THEN {}
                                    ELSE Left(pending'.rows, KeysOf(page))), Current(n))]
  BY <1>4, <1>6, <1>8, ViewIsShownNext DEF ViewFact
<1>11. Single(IO)' /\ NamedOnce(slots, count)' /\ NamedOnce(catalog, Len(catalog))'
  BY <1>1 DEF StoreInv
<1>12. Absent'
  <2>1. n \in Living
    BY LivingFacts
  <2> QED
    BY <1>1, <1>2, <1>5, <2>1 DEF Absent, StoreInv
<1>13. \A h \in Held(io) : \/ h.name # n /\ h \in Held(IO)
                           \/ /\ h.name = n /\ h.page = page
                              /\ h.table = pointer \/ \E g \in Held(IO) : g.name = n /\ g.table = h.table
  BY DEF Paged
<1>14. RowsKept'
  <2>1. \A h \in Held(io) : HaveKeys(h.page) /\ Wide(h.page, Current(h.name))
    BY <1>13 DEF StoreInv, RowsKept
  <2>2. \A m \in Names \ {n} :
           files'[m] \in RowSets /\ HaveKeys(files'[m]) /\ Unmixed(files'[m])
    BY <1>5 DEF StoreInv, RowsKept
  <2>3. files'[n] \in RowSets /\ HaveKeys(files'[n]) /\ Unmixed(files'[n])
    <3>1. CASE io.files[n] = IO.files[n]
      BY <1>1, <3>1 DEF StoreInv, RowsKept, IO
    <3>2. CASE \E r \in page : io.files[n] = Layout({r}, Current(n))
      <4>1. PICK r \in page : io.files[n] = Layout({r}, Current(n))
        BY <3>2
      <4>2. r \in Row /\ r[1] \in Keys /\ {r} \in RowSets /\ {r} \in StoredRows
        BY SmallRowSets DEF HaveKeys, StoredRows
      <4>3. /\ Layout({r}, Current(n)) \in RowSets
            /\ KeysOf(Layout({r}, Current(n))) = KeysOf({r})
        BY <4>2, CurrentFacts, LayoutFacts
      <4>4. HaveKeys(Layout({r}, Current(n)))
        BY <4>2, <4>3 DEF KeysOf, HaveKeys
      <4>5. Unmixed(Layout({r}, Current(n)))
        BY <4>2, CurrentFacts, LayoutUnmixed
      <4> QED
        BY <1>1, <4>1, <4>3, <4>4, <4>5
    <3> QED
      BY <3>1, <3>2 DEF Paged
  <2> QED
    BY <1>1, <1>4, <2>1, <2>2, <2>3 DEF RowsKept
<1>15. Described'
  <2>1. OneName => \A h \in Held(io) : h.table # Dangling /\ ColumnsAt(h.table) = Current(h.name)
    BY <1>13 DEF StoreInv, Described
  <2>2. \A h : ColumnsAt(h.table)' = ColumnsAt(h.table)
    BY DEF ColumnsAt
  <2> QED
    BY <1>1, <1>4, <2>1, <2>2 DEF Described
<1>16. StoreInv'
  BY <1>11, <1>12, <1>14, <1>15 DEF StoreInv
<1> QED
  BY <1>2, <1>9, <1>10, <1>16

\* What is left of the others when a table is removed.
LEMMA RemovedOthers ==
    ASSUME IOOk(IO), Single(IO), NEW n \in Names
    PROVE  LET io == Removed(IO, n)
           IN  /\ IOOk(io) /\ Single(io) /\ Others(IO, io, n)
               /\ io.files[n] = {} /\ ~IsCached(io, n)
               /\ \A columns : PagesOf(io, n, columns) = {}
               /\ \A h \in Held(io) : h.name # n /\ h \in Held(IO)
<1> DEFINE io == Removed(IO, n)
<1>0. IOOk(IO) /\ Single(IO)
  OBVIOUS
<1>1. /\ IOOk(io) /\ Single(io) /\ io.files = [IO.files EXCEPT ![n] = {}]
      /\ Held(io) = {h \in Held(IO) : h.name # n}
  BY <1>0, HeldRemoved
<1>2. IO.files \in [Names -> StoredRows]
  BY <1>0, IOFacts
<1> HIDE DEF io
<1>3. io.files[n] = {} /\ \A m \in Names \ {n} : io.files[m] = IO.files[m]
  BY <1>1, <1>2
<1>4. Others(IO, io, n)
  BY <1>0, <1>1, <1>3, OthersHeld
<1>5. ~IsCached(io, n)
  BY <1>1, HeldLookups
<1>6. \A columns : PagesOf(io, n, columns) = {}
  BY <1>3, <1>5 DEF PagesOf, Layout
<1> QED
  BY <1>1, <1>3, <1>4, <1>5, <1>6 DEF io

\* A table is removed; it stays without rows, or a statement writes rows to it.
LEMMA RemoveStep ==
    ASSUME StoreInv, TypeInv', up, up' = up, slots' = slots, count' = count,
           catalog' = catalog, pending = Idle, PendingKept',
           NEW n \in Names, Exists(n), SetIO(Removed(IO, n)),
           pending' = Idle \/ pending'.name = n
    PROVE  /\ StoreInv' /\ Living' = Living /\ OthersShown(n)
           /\ pending' = Idle => Shown(n)' = [columns |-> ColumnsOf(n), rows |-> {}]
           /\ pending' # Idle =>
                 Shown(n)' = [columns |-> pending'.columns,
                              rows |-> View(FirstByKey(pending'.rows), pending'.columns)]
<1> DEFINE io == Removed(IO, n)
<1>1. /\ IOOk(io) /\ Single(io) /\ Others(IO, io, n)
      /\ io.files[n] = {} /\ ~IsCached(io, n)
      /\ \A columns : PagesOf(io, n, columns) = {}
      /\ \A h \in Held(io) : h.name # n /\ h \in Held(IO)
  BY RemovedOthers DEF StoreInv, TypeInv
<1> HIDE DEF io
<1>2. IO' = io /\ files' = io.files
  BY <1>1, NewIO DEF io
<1>3. Living' = Living
  BY DEF Living
<1>4. \A m : SlotOf(m)' = SlotOf(m) /\ (Exists(m)' <=> Exists(m)) /\ ColumnsOf(m)' = ColumnsOf(m)
  BY DEF SlotOf, SlotsOf, Exists, ColumnsOf
<1>5. \A m \in Names \ {n} : Current(m)' = Current(m)
  BY <1>4 DEF Current
<1>6. \A m \in Names \ {n} : /\ Pages(m)' = Pages(m) /\ files'[m] = files[m]
                             /\ IsCached(io, m) <=> IsCached(IO, m)
  BY <1>1, <1>2, <1>5 DEF Pages, Others, IO
<1>7. Pages(n)' = {}
  BY <1>1, <1>2 DEF Pages
<1>8. \A m \in Names \ {n} : Remaining(m)' = {} /\ Remaining(m) = {}
  BY DEF Remaining
<1>9. OthersShown(n)
  BY <1>5, <1>6, <1>8, LivingFacts, ViewIsShown, ViewIsShownNext
  DEF ViewFact, OthersShown
<1>10. Shown(n)' = [columns |-> Current(n)', rows |-> View({} \cup Remaining(n)', Current(n)')]
  BY <1>7, ViewIsShownNext DEF ViewFact
<1>11. ASSUME pending' = Idle PROVE Shown(n)' = [columns |-> ColumnsOf(n), rows |-> {}]
  <2>1. Current(n)' = ColumnsOf(n) /\ Remaining(n)' = {}
    BY <1>4, <1>11 DEF Current, Remaining
  <2> QED
    BY <1>10, <2>1 DEF View
<1>12. ASSUME pending' # Idle
       PROVE  Shown(n)' = [columns |-> pending'.columns,
                           rows |-> View(FirstByKey(pending'.rows), pending'.columns)]
  <2>1. Current(n)' = pending'.columns
    BY <1>12 DEF Current
  <2>2. Remaining(n)' = Left(pending'.rows, {})
    BY <1>7, <1>12 DEF Remaining, KeysOf
  <2>3. Left(pending'.rows, {}) = FirstByKey(pending'.rows)
    BY DEF Left
  <2> QED
    BY <1>10, <2>1, <2>2, <2>3
<1>13. Single(IO)' /\ NamedOnce(slots, count)' /\ NamedOnce(catalog, Len(catalog))'
  BY <1>1, <1>2 DEF StoreInv
<1>14. Absent'
  <2>1. n \in Living
    BY LivingFacts
  <2> QED
    BY <1>2, <1>3, <1>6, <2>1 DEF Absent, StoreInv
<1>15. \A h \in Held(io) : h.name \in Names \ {n}
  BY <1>1, HeldFacts
<1>16. RowsKept'
  <2>1. \A h \in Held(io) : HaveKeys(h.page) /\ Wide(h.page, Current(h.name)')
    BY <1>1, <1>5, <1>15 DEF StoreInv, RowsKept
  <2>2. \A m \in Names :
           files'[m] \in RowSets /\ HaveKeys(files'[m]) /\ Unmixed(files'[m])
    BY <1>1, <1>2, <1>6, SmallRowSets DEF StoreInv, RowsKept, HaveKeys, Unmixed
  <2> QED
    BY <1>2, <2>1, <2>2 DEF RowsKept
<1>17. Described'
  <2>1. OneName => \A h \in Held(io) : h.table # Dangling /\ ColumnsAt(h.table) = Current(h.name)'
    BY <1>1, <1>5, <1>15 DEF StoreInv, Described
  <2>2. \A h : ColumnsAt(h.table)' = ColumnsAt(h.table)
    BY DEF ColumnsAt
  <2> QED
    BY <1>2, <2>1, <2>2 DEF Described
<1>18. StoreInv'
  BY <1>13, <1>14, <1>16, <1>17 DEF StoreInv
<1> QED
  BY <1>3, <1>9, <1>11, <1>12, <1>18

-----------------------------------------------------------------------------
(* Rows that are left to write *)

\* The row is the first one with its key.
FirstAt(s, i) == \A h \in 1 .. i - 1 : s[h][1] # s[i][1]

LEMMA LeftRows ==
    ASSUME NEW s \in Seq(Row), NEW keys
    PROVE  \A r : r \in Left(s, keys) <=>
               \E i \in 1 .. Len(s) : FirstAt(s, i) /\ r = s[i] /\ r[1] \notin keys
BY DEF Left, FirstByKey, FirstAt

\* One row is written or refused, and the others are left.
LEMMA LeftNext ==
    ASSUME NEW s \in Seq(Row), s # <<>>, NEW keys
    PROVE  Left(s, keys) = Left(Tail(s), keys \cup {Head(s)[1]}) \cup
                              (IF Head(s)[1] \in keys THEN {} ELSE {Head(s)})
<1> DEFINE N == Len(s)
           t == Tail(s)
           more == keys \cup {s[1][1]}
<1>1. /\ N \in Nat /\ N >= 1 /\ t \in Seq(Row) /\ Len(t) = N - 1
      /\ \A i \in 1 .. N - 1 : t[i] = s[i + 1]
      /\ Head(s) = s[1]
  OBVIOUS
<1> HIDE DEF t, N
<1>2. \A r : r \in Left(s, keys) <=>
         \E i \in 1 .. N : FirstAt(s, i) /\ r = s[i] /\ r[1] \notin keys
  BY LeftRows DEF N
<1>3. \A r : r \in Left(t, more) <=>
         \E i \in 1 .. N - 1 : FirstAt(t, i) /\ r = t[i] /\ r[1] \notin keys /\ r[1] # s[1][1]
  <2> HIDE DEF more
  <2>1. \A r : r \in Left(t, more) <=>
           \E i \in 1 .. Len(t) : FirstAt(t, i) /\ r = t[i] /\ r[1] \notin more
    BY ONLY <1>1, LeftRows
  <2> QED
    BY <1>1, <2>1 DEF more
<1>4. FirstAt(s, 1)
  BY DEF FirstAt
<1>5. ASSUME NEW i \in 1 .. N - 1, FirstAt(t, i), t[i][1] # s[1][1]
      PROVE  i + 1 \in 1 .. N /\ FirstAt(s, i + 1) /\ t[i] = s[i + 1]
  <2>1. i + 1 \in 1 .. N /\ t[i] = s[i + 1] /\ (i + 1) - 1 = i
    BY <1>1
  <2>2. ASSUME NEW h \in 1 .. i PROVE s[h][1] # s[i + 1][1]
    <3>1. CASE h = 1
      BY <1>5, <2>1, <3>1
    <3>2. CASE h # 1
      <4>1. h - 1 \in 1 .. i - 1 /\ h - 1 \in 1 .. N - 1 /\ (h - 1) + 1 = h
        BY <1>1, <3>2
      <4>2. t[h - 1] = s[h]
        BY <1>1, <4>1
      <4>3. t[h - 1][1] # t[i][1]
        BY <1>5, <4>1 DEF FirstAt
      <4> QED
        BY <2>1, <4>2, <4>3
    <3> QED
      BY <3>1, <3>2
  <2> QED
    BY <2>1, <2>2 DEF FirstAt
<1>6. ASSUME NEW i \in 1 .. N, FirstAt(s, i), i # 1
      PROVE  i - 1 \in 1 .. N - 1 /\ FirstAt(t, i - 1) /\ t[i - 1] = s[i] /\ s[i][1] # s[1][1]
  <2>1. i - 1 \in 1 .. N - 1 /\ t[i - 1] = s[i] /\ 1 \in 1 .. i - 1
    BY <1>1, <1>6
  <2>2. ASSUME NEW h \in 1 .. (i - 1) - 1 PROVE t[h][1] # t[i - 1][1]
    <3>1. h \in 1 .. N - 1 /\ h + 1 \in 1 .. i - 1
      BY <1>1
    <3>2. t[h] = s[h + 1]
      BY <1>1, <3>1
    <3> QED
      BY <1>6, <2>1, <3>1, <3>2 DEF FirstAt
  <2>3. s[i][1] # s[1][1]
    BY <1>6, <2>1 DEF FirstAt
  <2> QED
    BY <2>1, <2>2, <2>3 DEF FirstAt
<1>7. ASSUME NEW r \in Left(s, keys) PROVE r = s[1] \/ r \in Left(t, more)
  <2>1. PICK i \in 1 .. N : FirstAt(s, i) /\ r = s[i] /\ r[1] \notin keys
    BY <1>2
  <2>2. CASE i = 1
    BY <2>1, <2>2
  <2>3. CASE i # 1
    BY <1>3, <1>6, <2>1, <2>3
  <2> QED
    BY <2>2, <2>3
<1>8. ASSUME NEW r \in Left(t, more) PROVE r \in Left(s, keys)
  <2>1. PICK i \in 1 .. N - 1 : /\ FirstAt(t, i) /\ r = t[i]
                                /\ r[1] \notin keys /\ r[1] # s[1][1]
    BY <1>3
  <2>2. i + 1 \in 1 .. N /\ FirstAt(s, i + 1) /\ t[i] = s[i + 1]
    BY <1>5, <2>1
  <2> QED
    BY <1>2, <2>1, <2>2
<1>9. s[1] \in Left(s, keys) <=> s[1][1] \notin keys
  <2>1. 1 \in 1 .. N
    BY <1>1
  <2> QED
    BY <1>2, <1>4, <2>1
<1> QED
  BY <1>1, <1>7, <1>8, <1>9 DEF t

\* A row is written: pages and rows that are left stay the same.
LEMMA WrittenNext ==
    ASSUME NEW page, NEW s \in Seq(Row), s # <<>>
    PROVE  LET r == Head(s)
               new == IF r[1] \in KeysOf(page) THEN page ELSE page \cup {r}
           IN  page \cup Left(s, KeysOf(page)) = new \cup Left(Tail(s), KeysOf(new))
<1> DEFINE r == Head(s)
           new == IF r[1] \in KeysOf(page) THEN page ELSE page \cup {r}
<1>1. KeysOf(new) = KeysOf(page) \cup {r[1]}
  BY DEF KeysOf
<1>2. Left(s, KeysOf(page)) = Left(Tail(s), KeysOf(new)) \cup
                                (IF r[1] \in KeysOf(page) THEN {} ELSE {r})
  BY <1>1, LeftNext
<1> QED
  BY <1>2

\* No row is left of none.
LEMMA NothingLeft ==
    ASSUME NEW keys
    PROVE  Left(<<>>, keys) = {}
BY DEF Left, FirstByKey

\* Rows with different keys are all written.
LEMMA AllByKey ==
    ASSUME NEW s \in Seq(Row), \A i, j \in 1 .. Len(s) : s[i][1] = s[j][1] => i = j
    PROVE  FirstByKey(s) = {s[i] : i \in 1 .. Len(s)}
<1>1. DOMAIN s = 1 .. Len(s) /\ Len(s) \in Nat
  OBVIOUS
<1>2. {j \in DOMAIN s : \A h \in 1 .. j - 1 : s[h][1] # s[j][1]} = 1 .. Len(s)
  BY <1>1
<1> QED
  BY <1>2 DEF FirstByKey

\* The rows of a table in the order of their keys have different keys.
LEMMA OrderedKeys ==
    ASSUME NEW rows \in RowSets
    PROVE  LET s == InKeyOrder(rows)
           IN  /\ s \in Seq(Row) /\ {s[i] : i \in 1 .. Len(s)} = rows
               /\ DOMAIN s = 1 .. Len(s) /\ Len(s) \in Nat
               /\ \A i \in 1 .. Len(s) : s[i] \in rows
               /\ \A i, j \in 1 .. Len(s) : s[i][1] = s[j][1] => i = j
               /\ \A i, j \in 1 .. Len(s) : i < j => Precedes(s[i], s[j])
               /\ s = <<>> <=> rows = {}
<1> DEFINE s == InKeyOrder(rows)
<1>1. /\ s \in Seq(rows)
      /\ \A i, j \in 1 .. Len(s) : i < j => Precedes(s[i], s[j])
      /\ \A r \in rows : \E i \in 1 .. Len(s) : s[i] = r
      /\ s = <<>> <=> rows = {}
  BY InKeyOrderFacts
<1> HIDE DEF s
<1>2. rows \subseteq Row /\ \A r, q \in rows : r # q => r[1] # q[1]
  BY DEF RowSets, Keyed
<1>3. s \in Seq(Row) /\ DOMAIN s = 1 .. Len(s) /\ Len(s) \in Nat
      /\ \A i \in 1 .. Len(s) : s[i] \in rows
  BY <1>1, <1>2
<1>4. \A i, j \in 1 .. Len(s) : i < j => s[i] # s[j]
  <2> SUFFICES ASSUME NEW i \in 1 .. Len(s), NEW j \in 1 .. Len(s), i < j PROVE s[i] # s[j]
    OBVIOUS
  <2>1. Precedes(s[i], s[j]) /\ s[j] \in rows
    BY <1>1, <1>3
  <2>2. ~Precedes(s[j], s[j])
    <3>1. <<s[j], s[j]>> \notin {p \in rows \X rows : Precedes(p[1], p[2])}
      BY <2>1, PrecedesOrders DEF OrdersStrictly
    <3> QED
      BY <2>1, <3>1
  <2> QED
    BY <2>1, <2>2
<1>5. \A i, j \in 1 .. Len(s) : s[i][1] = s[j][1] => i = j
  <2> SUFFICES ASSUME NEW i \in 1 .. Len(s), NEW j \in 1 .. Len(s), i # j PROVE s[i][1] # s[j][1]
    OBVIOUS
  <2>1. s[i] # s[j]
    <3>1. i < j \/ j < i
      BY <1>3
    <3> QED
      BY <1>4, <3>1
  <2> QED
    BY <1>2, <1>3, <2>1
<1>6. {s[i] : i \in 1 .. Len(s)} = rows
  BY <1>1, <1>3
<1> QED
  BY <1>1, <1>3, <1>5, <1>6 DEF s

\* What is printed of a value is the value, or null.
LEMMA SeenFacts ==
    /\ \A x \in Value : Seen(x) \in Value
    /\ \A x \in Keys \cup Values \cup {Null, Garbled, Zero} : Seen(x) = x
BY DatabaseAssumption DEF Seen, Value

\* A row with the columns of its table, or more, is printed with as many.
LEMMA PrintedRow ==
    ASSUME NEW r \in Row, NEW c \in 1 .. MaxColumns, Len(r) >= c
    PROVE  /\ Printed(r, c) = [i \in 1 .. c |-> Seen(r[i])]
           /\ Printed(r, c) \in Seq(Value) /\ Len(Printed(r, c)) = c
           /\ Printed(r, c)[1] = r[1]
<1>1. r \in [1 .. Len(r) -> Value] /\ Len(r) \in Nat /\ c \in Nat /\ 1 \in 1 .. c
  BY RowFacts, DatabaseAssumption
<1>2. \A i \in 1 .. c : i <= Len(r) /\ i \in 1 .. Len(r)
  BY <1>1
<1>3. Printed(r, c) = [i \in 1 .. c |-> Seen(r[i])]
  BY <1>2 DEF Printed
<1>4. \A i \in 1 .. c : Seen(r[i]) \in Value
  BY <1>1, <1>2, SeenFacts
<1>5. Printed(r, c) \in [1 .. c -> Value]
  BY <1>3, <1>4
<1>6. Seen(r[1]) = r[1]
  BY RowFacts, SeenFacts
<1> QED
  BY <1>1, <1>3, <1>5, <1>6

\* What is shown of pages has the keys of the pages.
LEMMA ViewKeys ==
    ASSUME NEW rows, rows \subseteq Row, NEW c \in 1 .. MaxColumns, Wide(rows, c)
    PROVE  KeysOf(View(rows, c)) = KeysOf(rows)
<1>1. \A r \in rows : Printed(r, c)[1] = r[1]
  BY PrintedRow DEF Wide
<1> QED
  BY <1>1 DEF KeysOf, View

-----------------------------------------------------------------------------
(* Steps of TableStore *)

\* A step of TableStore, or none, or what a refused page or a stale bit does.
Refines ==
    \/ Store!Next
    \/ Refused /\ Store!Lose(pending.name)
    \/ QuitWithBits /\ \E n \in Names : Store!ZeroNulls(n)
    \/ [n \in Living |-> Shown(n)]' = [n \in Living |-> Shown(n)]

\* No table is shown in another way.
LEMMA NothingShown ==
    ASSUME Living' = Living, Living \subseteq Names, NEW n \in Names,
           OthersShown(n), Shown(n)' = Shown(n)
    PROVE  Refines
<1>1. \A m \in Living : Shown(m)' = Shown(m)
  BY DEF OthersShown
<1> QED
  BY <1>1 DEF Refines

\* One table is shown with other rows.
LEMMA RowsSet ==
    ASSUME Living' = Living, Living \subseteq Names, NEW n \in Living, OthersShown(n),
           NEW c, NEW rows, NEW new,
           Shown(n) = [columns |-> c, rows |-> rows], Shown(n)' = [columns |-> c, rows |-> new]
    PROVE  Store!SetRows(n, new)
<1>1. \A m \in Living : m # n => Shown(m)' = Shown(m)
  BY DEF OthersShown
<1>2. [Shown(n) EXCEPT !.rows = new] = Shown(n)'
  OBVIOUS
<1> QED
  BY <1>1, <1>2 DEF Store!SetRows

\* The row is among the rows unless its key is.
Added(rows, r) == IF r[1] \in KeysOf(rows) THEN rows ELSE rows \cup {r}

\* The rows up to this one are inserted.
LEMMA Inserted ==
    ASSUME Living' = Living, Living \subseteq Names, NEW n \in Living, OthersShown(n),
           NEW c, NEW rows, NEW s, NEW last \in 0 .. Len(s),
           Shown(n) = [columns |-> c, rows |-> rows],
           Shown(n)' = [columns |-> c, rows |-> rows \cup {s[i] : i \in 1 .. last}],
           \A i \in 1 .. last : s[i][1] \notin KeysOf(rows) \cup {s[j][1] : j \in 1 .. i - 1},
           last < Len(s) =>
              s[last + 1][1] \in KeysOf(rows) \cup {s[j][1] : j \in 1 .. (last + 1) - 1}
    PROVE  Store!Insert(n, s)
<1>1. Store!SetRows(n, rows \cup {s[i] : i \in 1 .. last})
  BY RowsSet
<1>2. KeysOf(rows) = Store!KeysOf(rows)
  BY DEF KeysOf, Store!KeysOf
<1>3. [m \in Living |-> Shown(m)][n].rows = rows
  OBVIOUS
<1> QED
  BY ONLY <1>1, <1>2, <1>3, last \in 0 .. Len(s),
     \A i \in 1 .. last : s[i][1] \notin KeysOf(rows) \cup {s[j][1] : j \in 1 .. i - 1},
     last < Len(s) =>
         s[last + 1][1] \in KeysOf(rows) \cup {s[j][1] : j \in 1 .. (last + 1) - 1}
     DEF Store!Insert

\* A row is inserted.
LEMMA OneInserted ==
    ASSUME Living' = Living, Living \subseteq Names, NEW n \in Living, OthersShown(n),
           NEW c, NEW rows, NEW r \in NewRows(c),
           Shown(n) = [columns |-> c, rows |-> rows],
           Shown(n)' = [columns |-> c, rows |-> Added(rows, r)]
    PROVE  Refines
<1>1. Store!Insert(n, <<r>>)
  <2>1. CASE r[1] \in KeysOf(rows)
    <3>1. Added(rows, r) = rows \cup {<<r>>[i] : i \in 1 .. 0}
      BY <2>1 DEF Added
    <3>2. \A i \in 1 .. 0 : <<r>>[i][1] \notin KeysOf(rows) \cup {<<r>>[j][1] : j \in 1 .. i - 1}
      OBVIOUS
    <3>3. <<r>>[0 + 1][1] \in KeysOf(rows) \cup {<<r>>[j][1] : j \in 1 .. (0 + 1) - 1}
      BY <2>1
    <3>4. 0 \in 0 .. Len(<<r>>)
      OBVIOUS
    <3> QED
      BY <3>1, <3>2, <3>3, <3>4, Inserted
  <2>2. CASE r[1] \notin KeysOf(rows)
    <3>1. Added(rows, r) = rows \cup {<<r>>[i] : i \in 1 .. 1}
      BY <2>2 DEF Added
    <3>2. \A i \in 1 .. 1 : <<r>>[i][1] \notin KeysOf(rows) \cup {<<r>>[j][1] : j \in 1 .. i - 1}
      BY <2>2
    <3>3. 1 \in 0 .. Len(<<r>>) /\ ~(1 < Len(<<r>>))
      OBVIOUS
    <3> QED
      BY <3>1, <3>2, <3>3, Inserted
  <2> QED
    BY <2>1, <2>2
<1>2. r \in Store!NewRows(c)
  BY DEF NewRows, Store!NewRows
<1>3. /\ n \in DOMAIN [m \in Living |-> Shown(m)]
      /\ [m \in Living |-> Shown(m)][n].columns = c
  OBVIOUS
<1> QED
  BY ONLY <1>1, <1>2, <1>3 DEF Refines, Store!Next

\* Two rows are inserted, the second of them if the first one is.
LEMMA TwoInserted ==
    ASSUME Living' = Living, Living \subseteq Names, NEW n \in Living, OthersShown(n),
           NEW c, NEW rows, NEW r \in NewRows(c), NEW s \in NewRows(c),
           Shown(n) = [columns |-> c, rows |-> rows],
           Shown(n)' = [columns |-> c, rows |-> IF r[1] \in KeysOf(rows) THEN rows
                                                ELSE Added(rows \cup {r}, s)]
    PROVE  Refines
<1> DEFINE both == <<r, s>>
<1>0. Len(both) = 2 /\ both[1] = r /\ both[2] = s
  OBVIOUS
<1> HIDE DEF both
<1>1. Store!Insert(n, both)
  <2>1. CASE r[1] \in KeysOf(rows)
    <3>1. Shown(n)' = [columns |-> c, rows |-> rows \cup {both[i] : i \in 1 .. 0}]
      BY <2>1
    <3>2. \A i \in 1 .. 0 : both[i][1] \notin KeysOf(rows) \cup {both[j][1] : j \in 1 .. i - 1}
      OBVIOUS
    <3>3. both[0 + 1][1] \in KeysOf(rows) \cup {both[j][1] : j \in 1 .. (0 + 1) - 1}
      BY <1>0, <2>1
    <3>4. 0 \in 0 .. Len(both)
      BY <1>0
    <3> QED
      BY <3>1, <3>2, <3>3, <3>4, Inserted
  <2>2. CASE r[1] \notin KeysOf(rows) /\ s[1] \in KeysOf(rows \cup {r})
    <3>1. Shown(n)' = [columns |-> c, rows |-> rows \cup {both[i] : i \in 1 .. 1}]
      <4>1. {both[i] : i \in 1 .. 1} = {r}
        BY <1>0
      <4> QED
        BY <2>2, <4>1 DEF Added
    <3>2. \A i \in 1 .. 1 : both[i][1] \notin KeysOf(rows) \cup {both[j][1] : j \in 1 .. i - 1}
      BY <1>0, <2>2
    <3>3. both[1 + 1][1] \in KeysOf(rows) \cup {both[j][1] : j \in 1 .. (1 + 1) - 1}
      <4>1. s[1] \in KeysOf(rows) \/ s[1] = r[1]
        BY <2>2 DEF KeysOf
      <4> QED
        BY <1>0, <4>1
    <3>4. 1 \in 0 .. Len(both)
      BY <1>0
    <3> QED
      BY <3>1, <3>2, <3>3, <3>4, Inserted
  <2>3. CASE r[1] \notin KeysOf(rows) /\ s[1] \notin KeysOf(rows \cup {r})
    <3>0. \A i \in 1 .. 2 : i = 1 \/ i = 2
      OBVIOUS
    <3>1. Shown(n)' = [columns |-> c, rows |-> rows \cup {both[i] : i \in 1 .. 2}]
      <4>1. {both[i] : i \in 1 .. 2} = {r, s}
        BY <1>0, <3>0
      <4> QED
        BY <2>3, <4>1 DEF Added
    <3>2. \A i \in 1 .. 2 : both[i][1] \notin KeysOf(rows) \cup {both[j][1] : j \in 1 .. i - 1}
      <4>1. s[1] \notin KeysOf(rows) /\ s[1] # r[1]
        BY <2>3 DEF KeysOf
      <4> QED
        BY <1>0, <2>3, <3>0, <4>1
    <3>3. 2 \in 0 .. Len(both) /\ ~(2 < Len(both))
      BY <1>0
    <3> QED
      BY <3>1, <3>2, <3>3, Inserted
  <2> QED
    BY <2>1, <2>2, <2>3
<1>2. r \in Store!NewRows(c) /\ s \in Store!NewRows(c)
  BY DEF NewRows, Store!NewRows
<1>3. /\ n \in DOMAIN [m \in Living |-> Shown(m)]
      /\ [m \in Living |-> Shown(m)][n].columns = c
  OBVIOUS
<1> QED
  BY ONLY <1>1, <1>2, <1>3 DEF Refines, Store!Next, both

\* Rows are deleted.
LEMMA RowsChanged ==
    ASSUME Living' = Living, Living \subseteq Names, NEW n \in Living, OthersShown(n),
           NEW c, NEW rows, NEW new,
           Shown(n) = [columns |-> c, rows |-> rows], Shown(n)' = [columns |-> c, rows |-> new],
           \/ new = {}
           \/ \E key \in Keys :
                 \/ new = {r \in rows : r[1] # key}
                 \/ new = {r \in rows : key \in KeysOf(rows) => r[1] < key}
    PROVE  Refines
<1>1. Store!SetRows(n, new)
  BY RowsSet
<1>2. KeysOf(rows) = Store!KeysOf(rows)
  BY DEF KeysOf, Store!KeysOf
<1>3. /\ n \in DOMAIN [m \in Living |-> Shown(m)]
      /\ [m \in Living |-> Shown(m)][n].columns = c
      /\ [m \in Living |-> Shown(m)][n].rows = rows
  OBVIOUS
<1>4. CASE new = {}
  BY ONLY <1>1, <1>3, <1>4 DEF Refines, Store!Next, Store!DeleteAll
<1>5. ASSUME NEW key \in Keys, new = {r \in rows : r[1] # key} PROVE Refines
  <2>1. Store!Delete(n, key)
    BY ONLY <1>1, <1>3, <1>5 DEF Store!Delete
  <2> QED
    BY ONLY <1>3, <2>1, key \in Keys DEF Refines, Store!Next
<1>6. ASSUME NEW key \in Keys, new = {r \in rows : key \in KeysOf(rows) => r[1] < key}
      PROVE  Refines
  <2>1. Store!RefusedUpdate(n, key)
    BY ONLY <1>1, <1>2, <1>3, <1>6 DEF Store!RefusedUpdate
  <2> QED
    BY ONLY <1>3, <2>1, key \in Keys DEF Refines, Store!Next
<1> QED
  BY <1>4, <1>5, <1>6

\* A row with its value changed if it has the key.
Changed(r, key, column, value) ==
    IF r[1] = key THEN [r EXCEPT ![column] = Set(@, value)] ELSE r

\* A row that is shown, with its value changed.
ShownChanged(r, key, column, value) ==
    IF r[1] = key THEN [r EXCEPT ![column] = IF @ = Null THEN Null ELSE value] ELSE r

\* Rows are updated.
LEMMA RowsUpdated ==
    ASSUME Living' = Living, Living \subseteq Names, NEW n \in Living, OthersShown(n),
           NEW c, NEW rows, NEW key \in Keys, NEW k \in 2 .. c, NEW value \in Values,
           Shown(n) = [columns |-> c, rows |-> rows],
           Shown(n)' = [columns |-> c, rows |-> {ShownChanged(r, key, k, value) : r \in rows}]
    PROVE  Refines
<1>1. Store!SetRows(n, {ShownChanged(r, key, k, value) : r \in rows})
  BY RowsSet
<1>2. /\ n \in DOMAIN [m \in Living |-> Shown(m)]
      /\ [m \in Living |-> Shown(m)][n].columns = c
      /\ [m \in Living |-> Shown(m)][n].rows = rows
  OBVIOUS
<1>3. Store!Update(n, key, k, value)
  BY ONLY <1>1, <1>2 DEF Store!Update, ShownChanged
<1> QED
  BY ONLY <1>2, <1>3, key \in Keys, k \in 2 .. c, value \in Values DEF Refines, Store!Next

\* The rows among which one has got another key: of two with the same key the
\* first is kept.
Rekeyed(rows, key, new, result) ==
    LET others == {r \in rows : r[1] # key}
        moved  == {[r EXCEPT ![1] = new] : r \in {q \in rows : q[1] = key}}
    IN  \/ new \notin KeysOf(others) /\ result = others \cup moved
        \/ /\ new \in KeysOf(others)
           /\ result = others \/ result = {r \in others : r[1] # new} \cup moved

\* The key of a row is updated.
LEMMA KeyChanged ==
    ASSUME Living' = Living, Living \subseteq Names, NEW n \in Living, OthersShown(n),
           NEW c, NEW rows, NEW change, NEW key \in Keys, NEW new \in Keys,
           Shown(n) = [columns |-> c, rows |-> rows], Shown(n)' = [columns |-> c, rows |-> change],
           Rekeyed(rows, key, new, change)
    PROVE  Refines
<1> DEFINE others == {r \in rows : r[1] # key}
           moved  == {[r EXCEPT ![1] = new] : r \in {s \in rows : s[1] = key}}
<1>1. Store!SetRows(n, change)
  BY RowsSet
<1>2. \A part : KeysOf(part) = Store!KeysOf(part)
  BY DEF KeysOf, Store!KeysOf
<1>3. /\ n \in DOMAIN [m \in Living |-> Shown(m)]
      /\ [m \in Living |-> Shown(m)][n].rows = rows
  OBVIOUS
<1>5. \/ new \notin KeysOf(others) /\ change = others \cup moved
      \/ /\ new \in KeysOf(others)
         /\ change = others \/ change = {r \in others : r[1] # new} \cup moved
  BY DEF Rekeyed
<1>6. Store!UpdateKey(n, key, new)
  BY ONLY <1>1, <1>2, <1>3, <1>5 DEF Store!UpdateKey
<1> QED
  BY ONLY <1>3, <1>6, key \in Keys, new \in Keys DEF Refines, Store!Next

\* A table gets another column, or loses one.
LEMMA ColumnsChanged ==
    ASSUME Living' = Living, Living \subseteq Names, NEW n \in Living, OthersShown(n),
           NEW c, NEW rows, Shown(n) = [columns |-> c, rows |-> rows],
           \/ \E value \in Values \cup {Null} :
                 Shown(n)' = [columns |-> c + 1, rows |-> {Append(r, value) : r \in rows}]
           \/ \E k \in 2 .. c :
                 Shown(n)' = [columns |-> c - 1,
                    rows |-> {SubSeq(r, 1, k - 1) \o SubSeq(r, k + 1, Len(r)) : r \in rows}]
    PROVE  Refines
<1>1. /\ n \in DOMAIN [m \in Living |-> Shown(m)]
      /\ [m \in Living |-> Shown(m)][n] = [columns |-> c, rows |-> rows]
  OBVIOUS
<1>2. \A shown : Shown(n)' = shown =>
         [m \in Living |-> Shown(m)]' = [[m \in Living |-> Shown(m)] EXCEPT ![n] = shown]
  BY DEF OthersShown
<1>3. ASSUME NEW value \in Values \cup {Null},
             Shown(n)' = [columns |-> c + 1, rows |-> {Append(r, value) : r \in rows}]
      PROVE  Refines
  <2>1. Store!AddColumn(n, value)
    BY ONLY <1>1, <1>2, <1>3 DEF Store!AddColumn
  <2> QED
    BY ONLY <1>1, <2>1, value \in Values \cup {Null} DEF Refines, Store!Next
<1>4. ASSUME NEW k \in 2 .. c,
             Shown(n)' = [columns |-> c - 1,
                rows |-> {SubSeq(r, 1, k - 1) \o SubSeq(r, k + 1, Len(r)) : r \in rows}]
      PROVE  Refines
  <2>0. {SubSeq(r, 1, k - 1) \o SubSeq(r, k + 1, Len(r)) : r \in rows} =
           {Store!WithoutColumn(r, k) : r \in rows}
    BY Zenon DEF Store!WithoutColumn
  <2>1. Shown(n)' =
           [columns |-> [m \in Living |-> Shown(m)][n].columns - 1,
            rows |-> {Store!WithoutColumn(r, k) : r \in [m \in Living |-> Shown(m)][n].rows}]
    <3>1. /\ [m \in Living |-> Shown(m)][n].columns = c
          /\ [m \in Living |-> Shown(m)][n].rows = rows
      BY <1>1
    <3> QED
      BY ONLY <1>4, <2>0, <3>1, Zenon
  <2>2. Store!DropColumn(n, k)
    BY ONLY <1>2, <2>1 DEF Store!DropColumn
  <2> QED
    BY ONLY <1>1, <2>2, k \in 2 .. c DEF Refines, Store!Next
<1> QED
  BY <1>3, <1>4

\* A table is created.
LEMMA TableCreated ==
    ASSUME NEW n \in Names, n \notin Living, Living' = Living \cup {n}, Living \subseteq Names,
           OthersShown(n), NEW columns \in 1 .. MaxColumns,
           Shown(n)' = [columns |-> columns, rows |-> {}]
    PROVE  Refines
<1>1. \A m \in Living : m # n /\ Shown(m)' = Shown(m)
  BY DEF OthersShown
<1>2. Store!Create(n, columns)
  BY <1>1 DEF Store!Create
<1> QED
  BY ONLY <1>2, n \in Names, columns \in 1 .. MaxColumns DEF Refines, Store!Next

\* A table is dropped.
LEMMA TableDropped ==
    ASSUME NEW n \in Living, Living' = Living \ {n}, Living \subseteq Names, OthersShown(n)
    PROVE  Refines
<1>1. \A m \in Living' : m \in Living /\ Shown(m)' = Shown(m)
  BY DEF OthersShown
<1>2. Store!Drop(n)
  BY <1>1 DEF Store!Drop
<1>3. n \in DOMAIN [m \in Living |-> Shown(m)]
  OBVIOUS
<1> QED
  BY ONLY <1>2, <1>3 DEF Refines, Store!Next

\* The rows of a table are lost.
LEMMA RowsLost ==
    ASSUME Refused, Living' = Living, Living \subseteq Names, NEW n \in Living, OthersShown(n),
           n = pending.name, NEW c \in 1 .. MaxColumns, Shown(n)' = [columns |-> c, rows |-> {}]
    PROVE  Refines
<1>1. \A m \in Living : m # n => Shown(m)' = Shown(m)
  BY DEF OthersShown
<1>2. Store!Lose(n)
  BY <1>1 DEF Store!Lose
<1> QED
  BY ONLY Refused, <1>2, n = pending.name DEF Refines

-----------------------------------------------------------------------------
(* Every action *)

\* A statement is typed that is about a table.
LEMMA TypedOn ==
    ASSUME StoreInv, up, pending = Idle, NEW n \in Names, Exists(n)
    PROVE  /\ n \in Living /\ Living \subseteq Names
           /\ Current(n) = ColumnsOf(n) /\ ColumnsOf(n) \in 1 .. MaxColumns
           /\ Sound(Pointer(SlotOf(n))) /\ Pointer(SlotOf(n)) # Dangling
           /\ ColumnsAt(Pointer(SlotOf(n))) = ColumnsOf(n)
           /\ Pages(n) = PagesOf(IO, n, ColumnsOf(n))
           /\ Pages(n) \in RowSets /\ Pages(n) \subseteq Row
           /\ HaveKeys(Pages(n)) /\ Wide(Pages(n), ColumnsOf(n))
           /\ IOOk(IO) /\ Single(IO)
           /\ Shown(n) = [columns |-> ColumnsOf(n), rows |-> View(Pages(n), ColumnsOf(n))]
           /\ KeysOf(View(Pages(n), ColumnsOf(n))) = KeysOf(Pages(n))
<1>1. n \in Living /\ Living \subseteq Names
  BY LivingFacts
<1>2. Current(n) = ColumnsOf(n)
  BY DEF Current
<1>3. /\ Sound(Pointer(SlotOf(n))) /\ Pointer(SlotOf(n)) # Dangling
      /\ ColumnsAt(Pointer(SlotOf(n))) = ColumnsOf(n)
  <2>1. TypeOK
    BY TypeInvTypes DEF StoreInv
  <2> QED
    BY <2>1, SlotOfFacts DEF ColumnsOf
<1>4. /\ ColumnsOf(n) \in 1 .. MaxColumns
      /\ Pages(n) \in RowSets /\ Pages(n) \subseteq Row
      /\ HaveKeys(Pages(n)) /\ Wide(Pages(n), ColumnsOf(n))
      /\ IOOk(IO) /\ Single(IO)
  BY <1>2, CurrentFacts
<1>5. Pages(n) = PagesOf(IO, n, ColumnsOf(n))
  BY <1>2 DEF Pages
<1>6. Shown(n) = [columns |-> ColumnsOf(n), rows |-> View(Pages(n), ColumnsOf(n))]
  <2>1. Remaining(n) = {} /\ Pages(n) \cup {} = Pages(n)
    BY DEF Remaining
  <2> QED
    BY <1>2, <2>1, ViewIsShown DEF ViewFact
<1>7. KeysOf(View(Pages(n), ColumnsOf(n))) = KeysOf(Pages(n))
  BY <1>4, ViewKeys
<1> QED
  BY <1>1, <1>2, <1>3, <1>4, <1>5, <1>6, <1>7

\* A new row has the columns of its table.
LEMMA NewRow ==
    ASSUME StoreInv, NEW n \in Names, NEW r \in TypedRows(n)
    PROVE  /\ Exists(n) /\ r \in Row /\ r \in NewRows(ColumnsOf(n)) /\ r[1] \in Keys
           /\ Len(r) = ColumnsOf(n) /\ ColumnsOf(n) \in 1 .. MaxColumns
           /\ Printed(r, ColumnsOf(n)) = r
<1>1. /\ Exists(n) /\ r \in Row /\ r \in NewRows(ColumnsOf(n)) /\ Len(r) = ColumnsOf(n)
  BY NewRowsTyped DEF StoreInv, ColumnsOf
<1>2. ColumnsOf(n) \in 1 .. MaxColumns
  BY <1>1, TypedTable DEF StoreInv, ColumnsOf
<1>3. r[1] \in Keys
  BY <1>1 DEF NewRows
<1>4. Printed(r, ColumnsOf(n)) = r
  <2>1. Printed(r, ColumnsOf(n)) = [i \in 1 .. ColumnsOf(n) |-> Seen(r[i])]
    BY <1>1, <1>2, PrintedRow, DatabaseAssumption
  <2>2. \A i \in 1 .. ColumnsOf(n) : r[i] \in Keys \cup Values
    BY <1>1 DEF NewRows
  <2>3. \A i \in 1 .. ColumnsOf(n) : Seen(r[i]) = r[i]
    BY <2>2, SeenFacts
  <2>4. r = [i \in 1 .. ColumnsOf(n) |-> r[i]]
    BY <1>1, RowFacts
  <2> QED
    BY <2>1, <2>3, <2>4
<1> QED
  BY <1>1, <1>2, <1>3, <1>4

\* A row is added to the pages.
LEMMA AddedPages ==
    ASSUME NEW page, page \subseteq Row, NEW c \in 1 .. MaxColumns,
           HaveKeys(page), Wide(page, c),
           NEW r \in Row, r[1] \in Keys, Len(r) >= c
    PROVE  Added(page, r) \subseteq Row /\ HaveKeys(Added(page, r)) /\ Wide(Added(page, r), c)
BY DEF Added, HaveKeys, Wide

\* What is shown of the pages with the row.
LEMMA ShownAdded ==
    ASSUME NEW page, page \subseteq Row, NEW c \in 1 .. MaxColumns, Wide(page, c),
           NEW r, Printed(r, c) = r
    PROVE  View(Added(page, r), c) = Added(View(page, c), r)
<1>1. KeysOf(View(page, c)) = KeysOf(page)
  BY ViewKeys
<1>2. View(page \cup {r}, c) = View(page, c) \cup {r}
  BY DEF View
<1> QED
  BY <1>1, <1>2 DEF Added

\* No statement is left unfinished.
LEMMA IdleKept ==
    ASSUME pending' = Idle
    PROVE  PendingKept'
BY DEF PendingKept

\* Nothing changes.
LEMMA StoreUnchanged ==
    ASSUME StoreInv, UNCHANGED vars
    PROVE  StoreInv' /\ Refines
<1>1. /\ up' = up /\ slots' = slots /\ count' = count /\ room' = room /\ entries' = entries
      /\ files' = files /\ catalog' = catalog /\ pending' = pending
  BY DEF vars
<1>2. IO' = IO
  BY <1>1 DEF IO
<1>3. TypeInv'
  BY TypeNext DEF StoreInv
<1>4. /\ Living' = Living
      /\ \A n : /\ Current(n)' = Current(n) /\ ColumnsOf(n)' = ColumnsOf(n)
               /\ SlotOf(n)' = SlotOf(n) /\ (Exists(n)' <=> Exists(n))
  BY <1>1 DEF Living, Current, ColumnsOf, SlotOf, SlotsOf, Exists
<1>5. \A n : Shown(n)' = Shown(n)
  BY <1>1, <1>2 DEF Shown, SlotOf, SlotsOf
<1>6. Refines
  BY <1>4, <1>5 DEF Refines
<1>7. Single(IO)' /\ NamedOnce(slots, count)' /\ NamedOnce(catalog, Len(catalog))'
  BY <1>1, <1>2 DEF StoreInv
<1>8. Absent'
  BY <1>1, <1>2, <1>4 DEF StoreInv, Absent
<1>9. RowsKept'
  BY <1>1, <1>2, <1>4 DEF StoreInv, RowsKept
<1>10. PendingKept'
  <2>1. \A n : Pages(n)' = Pages(n)
    BY <1>2, <1>4 DEF Pages
  <2> QED
    BY <1>1, <1>2, <1>4, <2>1 DEF StoreInv, PendingKept, OldKept
<1>11. Described'
  <2>1. \A h : ColumnsAt(h.table)' = ColumnsAt(h.table)
    BY <1>1 DEF ColumnsAt
  <2> QED
    BY <1>2, <1>4, <2>1 DEF StoreInv, Described
<1> QED
  BY <1>1, <1>3, <1>6, <1>7, <1>8, <1>9, <1>10, <1>11 DEF StoreInv

LEMMA StoreInsertOne ==
    ASSUME Separate, StoreInv, NEW n \in Names, NEW r \in TypedRows(n), Insert(n, <<r>>)
    PROVE  StoreInv' /\ Refines
<1> DEFINE c == ColumnsOf(n)
           pointer == Pointer(SlotOf(n))
           page == Pages(n)
           new == AddRecord(IO, n, pointer, r)
           pages == Added(page, r)
<1>1. /\ up /\ up' = up /\ slots' = slots /\ count' = count /\ catalog' = catalog
      /\ pending = Idle /\ pending' = Idle /\ SetIO(new)
  BY DEF Insert, Typed
<1>2. /\ Exists(n) /\ r \in Row /\ r \in NewRows(c) /\ r[1] \in Keys
      /\ Len(r) = c /\ c \in 1 .. MaxColumns /\ Printed(r, c) = r
  BY NewRow
<1>3. /\ n \in Living /\ Living \subseteq Names
      /\ Current(n) = c
      /\ Sound(pointer) /\ pointer # Dangling /\ ColumnsAt(pointer) = c
      /\ page = PagesOf(IO, n, c)
      /\ page \in RowSets /\ page \subseteq Row /\ HaveKeys(page) /\ Wide(page, c)
      /\ IOOk(IO) /\ Single(IO)
      /\ Shown(n) = [columns |-> c, rows |-> View(page, c)]
      /\ KeysOf(View(page, c)) = KeysOf(page)
  BY <1>1, <1>2, TypedOn
<1>4. Paged(IO, new, n, c, pages, pointer)
  BY <1>2, <1>3, PagedAdd DEF Separate, Added
<1>5. TypeInv'
  <2>1. <<r>>[1] \in Row /\ Len(<<r>>) = 1
    BY <1>2
  <2> QED
    BY <2>1, TypeInsert DEF StoreInv
<1>6. PendingKept' /\ GoesOn(n)
  BY <1>1, IdleKept DEF GoesOn
<1> HIDE DEF c, pointer, page, new, pages
<1>7. pages \subseteq Row /\ HaveKeys(pages) /\ Wide(pages, c)
  <2>1. Len(r) >= c
    BY <1>2, DatabaseAssumption
  <2> QED
    BY <1>2, <1>3, <2>1, AddedPages DEF pages
<1>8. /\ StoreInv' /\ Living' = Living /\ OthersShown(n)
      /\ Shown(n)' = [columns |-> Current(n),
           rows |-> View(pages \cup (IF pending' = Idle THEN {}
                                       ELSE Left(pending'.rows, KeysOf(pages))), Current(n))]
  BY <1>1, <1>2, <1>3, <1>4, <1>5, <1>6, <1>7, TableStep
<1>9. Shown(n)' = [columns |-> c, rows |-> Added(View(page, c), r)]
  <2>1. View(pages, c) = Added(View(page, c), r)
    BY <1>2, <1>3, ShownAdded DEF pages
  <2>2. pages \cup {} = pages
    OBVIOUS
  <2> QED
    BY <1>1, <1>3, <1>8, <2>1, <2>2
<1> QED
  BY <1>2, <1>3, <1>8, <1>9, OneInserted

LEMMA StoreInsertTwo ==
    ASSUME Separate, StoreInv, NEW n \in Names, NEW r \in TypedRows(n), NEW s \in TypedRows(n),
           Insert(n, <<r, s>>)
    PROVE  StoreInv' /\ Refines
<1> DEFINE c == ColumnsOf(n)
           pointer == Pointer(SlotOf(n))
           page == Pages(n)
           first == AddRecord(IO, n, pointer, r)
           one == Added(page, r)
           clash == r[1] \in KeysOf(page)
           second == AddRecord(first, n, pointer, s)
           pages == IF clash THEN page ELSE Added(one, s)
           new == IF clash THEN first ELSE second
<1>1. /\ up /\ up' = up /\ slots' = slots /\ count' = count /\ catalog' = catalog
      /\ pending = Idle /\ pending' = Idle
      /\ SetIO(IF Clashes(IO, n, pointer, r) THEN first ELSE second)
  BY DEF Insert, Typed
<1>2. /\ Exists(n) /\ r \in Row /\ r \in NewRows(c) /\ r[1] \in Keys
      /\ Len(r) = c /\ c \in 1 .. MaxColumns /\ Printed(r, c) = r
      /\ s \in Row /\ s \in NewRows(c) /\ s[1] \in Keys
      /\ Len(s) = c /\ Printed(s, c) = s
  BY NewRow
<1>3. /\ n \in Living /\ Living \subseteq Names
      /\ Current(n) = c
      /\ Sound(pointer) /\ pointer # Dangling /\ ColumnsAt(pointer) = c
      /\ page = PagesOf(IO, n, c)
      /\ page \in RowSets /\ page \subseteq Row /\ HaveKeys(page) /\ Wide(page, c)
      /\ IOOk(IO) /\ Single(IO)
      /\ Shown(n) = [columns |-> c, rows |-> View(page, c)]
      /\ KeysOf(View(page, c)) = KeysOf(page)
  BY <1>1, <1>2, TypedOn
<1>4. Paged(IO, first, n, c, one, pointer) /\ (Clashes(IO, n, pointer, r) <=> clash)
  BY <1>2, <1>3, PagedAdd DEF Separate, Added
<1>5. TypeInv'
  <2>1. <<r, s>>[1] \in Row /\ <<r, s>>[2] \in Row
    BY <1>2
  <2> QED
    BY <2>1, TypeInsert DEF StoreInv
<1>6. PendingKept' /\ GoesOn(n)
  BY <1>1, IdleKept DEF GoesOn
<1>7. SetIO(new)
  BY <1>1, <1>4
<1> HIDE DEF c, pointer, page, first, second
<1>8. Len(r) >= c /\ Len(s) >= c /\ one \in RowSets
  <2>1. one \in RowSets
    BY <1>2, <1>3, AddedRow DEF Added
  <2> QED
    BY <1>2, <2>1, DatabaseAssumption
<1> HIDE DEF one
<1>9. one \subseteq Row /\ HaveKeys(one) /\ Wide(one, c)
  BY <1>2, <1>3, <1>8, AddedPages DEF one
<1>10. /\ pages \subseteq Row /\ HaveKeys(pages) /\ Wide(pages, c)
       /\ Paged(IO, new, n, c, pages, pointer)
  <2>1. CASE clash
    <3>1. one = page
      BY <2>1 DEF one, Added
    <3> QED
      BY <1>3, <1>4, <2>1, <3>1
  <2>2. CASE ~clash
    <3>1. IOOk(first) /\ Single(first) /\ PagesOf(first, n, c) = one
      BY <1>4 DEF Paged
    <3>2. Paged(first, second, n, c, Added(one, s), pointer)
      BY <1>2, <1>3, <3>1, PagedAdd DEF Separate, Added, second
    <3>3. Paged(IO, second, n, c, Added(one, s), pointer)
      BY <1>4, <3>2, PagedTwice DEF Added
    <3>4. /\ Added(one, s) \subseteq Row /\ HaveKeys(Added(one, s)) /\ Wide(Added(one, s), c)
      BY <1>2, <1>8, <1>9, AddedPages
    <3> QED
      BY <2>2, <3>3, <3>4
  <2> QED
    BY <2>1, <2>2
<1> HIDE DEF pages, new
<1>11. /\ StoreInv' /\ Living' = Living /\ OthersShown(n)
       /\ Shown(n)' = [columns |-> Current(n),
            rows |-> View(pages \cup (IF pending' = Idle THEN {}
                                        ELSE Left(pending'.rows, KeysOf(pages))), Current(n))]
  BY <1>1, <1>2, <1>3, <1>5, <1>6, <1>7, <1>10, TableStep
<1>12. Shown(n)' = [columns |-> c,
                    rows |-> IF r[1] \in KeysOf(View(page, c)) THEN View(page, c)
                             ELSE Added(View(page, c) \cup {r}, s)]
  <2>1. View(one, c) = Added(View(page, c), r) /\ View(Added(one, s), c) = Added(View(one, c), s)
    BY <1>2, <1>3, <1>8, <1>9, ShownAdded DEF one
  <2>2. pages \cup {} = pages
    OBVIOUS
  <2>3. View(pages, c) = IF r[1] \in KeysOf(View(page, c)) THEN View(page, c)
                           ELSE Added(View(page, c) \cup {r}, s)
    <3>1. CASE clash
      BY <1>3, <3>1 DEF pages
    <3>2. CASE ~clash
      <4>1. Added(View(page, c), r) = View(page, c) \cup {r}
        BY <1>3, <3>2 DEF Added
      <4> QED
        BY <1>3, <2>1, <3>2, <4>1 DEF pages
    <3> QED
      BY <3>1, <3>2
  <2> QED
    BY <1>1, <1>3, <1>11, <2>2, <2>3
<1> QED
  BY <1>2, <1>3, <1>11, <1>12, TwoInserted

LEMMA StoreSelect ==
    ASSUME Separate, StoreInv, NEW n \in Names, Select(n)
    PROVE  StoreInv' /\ Refines
<1> DEFINE c == ColumnsOf(n)
           pointer == Pointer(SlotOf(n))
           page == Pages(n)
           new == IF IsCached(IO, n) THEN Found(IO, n)
                  ELSE IF page = {} THEN IO
                  ELSE Cached(IO, n, pointer, page)
<1>1. /\ up /\ up' = up /\ slots' = slots /\ count' = count /\ catalog' = catalog
      /\ pending = Idle /\ pending' = Idle /\ Exists(n)
  BY DEF Select, Typed
<1>2. /\ n \in Living /\ Living \subseteq Names
      /\ Current(n) = c
      /\ Sound(pointer) /\ pointer # Dangling /\ ColumnsAt(pointer) = c
      /\ page = PagesOf(IO, n, c)
      /\ page \in RowSets /\ page \subseteq Row /\ HaveKeys(page) /\ Wide(page, c)
      /\ IOOk(IO) /\ Single(IO)
      /\ Shown(n) = [columns |-> c, rows |-> View(page, c)]
      /\ KeysOf(View(page, c)) = KeysOf(page)
  BY <1>1, TypedOn
<1> HIDE DEF page
<1>3. SetIO(new)
  BY <1>2 DEF Select
<1>4. Paged(IO, new, n, c, page, pointer)
  BY <1>2, PagedRead DEF Separate
<1>5. TypeInv'
  BY TypeSelect DEF StoreInv
<1>6. PendingKept' /\ GoesOn(n)
  BY <1>1, IdleKept DEF GoesOn
<1> HIDE DEF c, pointer, new
<1>7. /\ StoreInv' /\ Living' = Living /\ OthersShown(n)
      /\ Shown(n)' = [columns |-> Current(n),
           rows |-> View(page \cup (IF pending' = Idle THEN {}
                                      ELSE Left(pending'.rows, KeysOf(page))), Current(n))]
  BY <1>1, <1>2, <1>3, <1>4, <1>5, <1>6, TableStep
<1>8. Shown(n)' = Shown(n)
  <2>1. page \cup {} = page
    OBVIOUS
  <2> QED
    BY <1>1, <1>2, <1>7, <2>1
<1> QED
  BY <1>2, <1>7, <1>8, NothingShown

\* The first page is refused, and nothing happens.
LEMMA StoreInsertRefused ==
    ASSUME StoreInv, NEW n \in Names, InsertRefused(n)
    PROVE  StoreInv' /\ Refines
<1>1. UNCHANGED vars
  BY DEF InsertRefused
<1> QED
  BY <1>1, StoreUnchanged

\* A table that is still among the tables keeps its columns.
LEMMA ColumnsKept ==
    ASSUME count \in Nat, count' \in Nat, NamedOnce(slots, count), NamedOnce(slots, count)',
           NEW m, NEW i \in 1 .. count, slots[i].name = m,
           NEW j \in 1 .. count', slots'[j] = slots[i]
    PROVE  ColumnsOf(m)' = ColumnsOf(m) /\ Exists(m)'
<1>1. SlotOf(m) = i
  BY SlotIsFound DEF SlotFact
<1>2. SlotOf(m)' = j /\ Exists(m)'
  BY SlotIsFoundNext DEF SlotFact
<1> QED
  BY <1>1, <1>2 DEF ColumnsOf

\* Tables whose pages and columns stay are shown as before, while no statement
\* is unfinished.
LEMMA OthersStay ==
    ASSUME StoreInv, up, up' = up, pending = Idle, pending' = Idle, NEW n,
           \A m \in Living \ {n} :
              ColumnsOf(m)' = ColumnsOf(m) /\ PagesOf(IO, m, ColumnsOf(m))' = PagesOf(IO, m, ColumnsOf(m))
    PROVE  OthersShown(n) /\ \A m \in Living \ {n} : Current(m)' = Current(m)
<1>1. \A m : /\ Current(m) = ColumnsOf(m) /\ Current(m)' = ColumnsOf(m)'
             /\ Remaining(m) = {} /\ Remaining(m)' = {}
  BY DEF Current, Remaining
<1>2. \A m \in Living \ {n} : Current(m)' = Current(m) /\ Pages(m)' = Pages(m)
  BY <1>1 DEF Pages
<1> QED
  BY <1>1, <1>2, LivingFacts, ViewIsShown, ViewIsShownNext DEF ViewFact, OthersShown

LEMMA StoreDrop ==
    ASSUME Separate, StoreInv, NEW n \in Names, DropTable(n)
    PROVE  StoreInv' /\ Refines
<1> DEFINE io == Removed(IO, n)
           k == SlotOf(n)
           from(i) == IF i = k THEN count ELSE i
<1>1. /\ up /\ up' = up /\ catalog' = catalog /\ pending = Idle /\ pending' = Idle
      /\ Exists(n) /\ SetIO(io) /\ count' = count - 1 /\ slots' = SlotsWithout(n)
  BY DEF DropTable, Typed
<1>2. TypeInv' /\ TypeInv
  BY TypeDrop DEF StoreInv
<1>3. /\ k \in 1 .. count /\ k \in 1 .. MaxTables /\ slots[k].name = n
      /\ count \in 0 .. MaxTables /\ MaxTables \in Nat /\ count # 0
  BY <1>1, <1>2, TypedTable, DatabaseAssumption
<1>4. \A i \in 1 .. MaxTables : slots'[i] = slots[from(i)]
  BY <1>1, <1>2, SlotsWithoutFacts
<1>5. \A i \in 1 .. count - 1 : /\ from(i) \in 1 .. count /\ from(i) # k
                                /\ slots'[i] = slots[from(i)]
  BY <1>3, <1>4
<1>6. \A i \in 1 .. count : i # k => \E j \in 1 .. count - 1 : from(j) = i
  <2> SUFFICES ASSUME NEW i \in 1 .. count, i # k PROVE \E j \in 1 .. count - 1 : from(j) = i
    OBVIOUS
  <2>1. CASE i = count
    <3>1. k \in 1 .. count - 1 /\ from(k) = i
      BY <1>3, <2>1
    <3> QED
      BY <3>1
  <2>2. CASE i # count
    <3>1. i \in 1 .. count - 1 /\ from(i) = i
      BY <1>3, <2>2
    <3> QED
      BY <3>1
  <2> QED
    BY <2>1, <2>2
<1>7. \A i, j \in 1 .. count - 1 : from(i) = from(j) => i = j
  BY <1>3
<1> HIDE DEF from, k
<1>8. NamedOnce(slots, count) /\ NamedOnce(slots, count)'
  <2>1. NamedOnce(slots, count)
    BY DEF StoreInv
  <2>2. \A i, j \in 1 .. count - 1 : slots'[i].name = slots'[j].name => from(i) = from(j)
    BY <1>5, <2>1 DEF NamedOnce
  <2> QED
    BY <1>1, <1>7, <2>1, <2>2 DEF NamedOnce
<1>9. \A i \in 1 .. count : i # k <=> slots[i].name # n
  BY <1>3, <1>8 DEF NamedOnce
<1>10. Living' = Living \ {n}
  <2>1. \A m : m \in Living <=> \E i \in 1 .. count : slots[i].name = m
    BY <1>1 DEF Living
  <2>2. \A m : m \in Living' <=> \E i \in 1 .. count - 1 : slots'[i].name = m
    BY <1>1 DEF Living
  <2>3. ASSUME NEW m \in Living' PROVE m \in Living /\ m # n
    BY <1>5, <1>9, <2>1, <2>2
  <2>4. ASSUME NEW m \in Living, m # n PROVE m \in Living'
    BY <1>5, <1>6, <1>9, <2>1, <2>2, <2>4
  <2> QED
    BY <2>3, <2>4
<1>11. \A m \in Living \ {n} : ColumnsOf(m)' = ColumnsOf(m)
  <2> TAKE m \in Living \ {n}
  <2>1. PICK i \in 1 .. count : slots[i].name = m
    BY <1>1, LivingFacts
  <2>2. PICK j \in 1 .. count - 1 : from(j) = i
    BY <1>6, <1>9, <2>1
  <2>3. slots'[j] = slots[i] /\ j \in 1 .. count' /\ count \in Nat /\ count' \in Nat
    BY <1>1, <1>3, <1>5, <2>2
  <2> QED
    BY <1>8, <2>1, <2>3, ColumnsKept
<1>12. /\ IOOk(io) /\ Single(io) /\ Others(IO, io, n)
       /\ io.files[n] = {} /\ ~IsCached(io, n)
       /\ \A columns : PagesOf(io, n, columns) = {}
       /\ \A h \in Held(io) : h.name # n /\ h \in Held(IO)
  BY RemovedOthers DEF StoreInv, TypeInv
<1> HIDE DEF io
<1>13. IO' = io /\ files' = io.files
  BY <1>1, <1>12, NewIO
<1>14. Living \subseteq Names /\ n \in Living
  BY <1>1, LivingFacts
<1>15. OthersShown(n) /\ \A m \in Living \ {n} : Current(m)' = Current(m)
  <2>1. \A m \in Living \ {n} : PagesOf(IO, m, ColumnsOf(m))' = PagesOf(IO, m, ColumnsOf(m))
    BY <1>11, <1>12, <1>13, <1>14 DEF Others
  <2> QED
    BY <1>1, <1>11, <2>1, OthersStay
<1>16. \A h \in Held(io) : h.name \in Living \ {n} /\ h.name \in Names
  <2>1. \A h \in Held(io) : h.name \in Names /\ h.name # n /\ IsCached(IO, h.name)
    BY <1>2, <1>12, HeldFacts, HeldLookups DEF StoreInv, TypeInv
  <2> QED
    BY <2>1 DEF StoreInv, Absent
<1>17. Absent'
  BY <1>10, <1>12, <1>13 DEF StoreInv, Absent, Others, IO
<1>18. RowsKept'
  <2>1. \A h \in Held(io) : HaveKeys(h.page) /\ Wide(h.page, Current(h.name)')
    BY <1>12, <1>15, <1>16 DEF StoreInv, RowsKept
  <2>2. \A m \in Names : files'[m] \in RowSets /\ HaveKeys(files'[m]) /\ Unmixed(files'[m])
    BY <1>12, <1>13, SmallRowSets DEF StoreInv, RowsKept, HaveKeys, Unmixed, Others, IO
  <2> QED
    BY <1>13, <2>1, <2>2 DEF RowsKept
<1>19. Described'
  <2>1. OneName => Held(io) = {}
    BY <1>12, <1>16 DEF OneName
  <2> QED
    BY <1>13, <2>1 DEF Described
<1>20. StoreInv'
  BY <1>1, <1>2, <1>8, <1>12, <1>13, <1>17, <1>18, <1>19, IdleKept DEF StoreInv
<1> QED
  BY <1>10, <1>14, <1>15, <1>20, TableDropped

\* Entries with the same names and pages are looked up alike.
LEMMA SameLookups ==
    ASSUME NEW io, NEW new, IOOk(io), IOOk(new), Single(io), new.files = io.files,
           Len(new.entries) = Len(io.entries),
           \A i \in 1 .. Len(io.entries) : /\ new.entries[i].name = io.entries[i].name
                                           /\ new.entries[i].page = io.entries[i].page
    PROVE  /\ Single(new)
           /\ \A n : IsCached(new, n) <=> IsCached(io, n)
           /\ \A n, columns : PagesOf(new, n, columns) = PagesOf(io, n, columns)
           /\ \A h \in Held(new) : \E g \in Held(io) : g.name = h.name /\ g.page = h.page
<1>1. Single(new)
  BY DEF Single
<1>0. \A i \in 1 .. Len(io.entries) :
         /\ Holding(new.entries[i]).name = Holding(io.entries[i]).name
         /\ Holding(new.entries[i]).page = Holding(io.entries[i]).page
  BY DEF Holding
<1>2. \A h \in Held(new) : \E g \in Held(io) : g.name = h.name /\ g.page = h.page
  BY <1>0 DEF Held
<1>3. \A g \in Held(io) : \E h \in Held(new) : g.name = h.name /\ g.page = h.page
  BY <1>0 DEF Held
<1>4. \A n : IsCached(new, n) <=> IsCached(io, n)
  BY <1>1, <1>2, <1>3, HeldLookups
<1>5. ASSUME NEW n, NEW columns PROVE PagesOf(new, n, columns) = PagesOf(io, n, columns)
  <2>1. CASE IsCached(io, n)
    <3>1. PICK g \in Held(io) : g.name = n
      BY <2>1, HeldLookups
    <3>2. PICK h \in Held(new) : h.name = n /\ h.page = g.page
      BY <1>3, <3>1
    <3>3. PagesOf(io, n, columns) = g.page
      BY <3>1, HeldLookups
    <3>4. PagesOf(new, n, columns) = h.page
      BY <1>1, <3>2, HeldLookups
    <3> QED
      BY <3>2, <3>3, <3>4
  <2>2. CASE ~IsCached(io, n)
    BY <1>4, <2>2 DEF PagesOf
  <2> QED
    BY <2>1, <2>2
<1> QED
  BY <1>1, <1>2, <1>4, <1>5

LEMMA StoreCreate ==
    ASSUME Separate, StoreInv, NEW n \in Names, NEW columns \in NewTableColumns,
           CreateTable(n, columns)
    PROVE  StoreInv' /\ Refines
<1> DEFINE new == [name |-> n, columns |-> columns]
           N == Len(entries)
<1>1. /\ up /\ up' = up /\ catalog' = catalog /\ files' = files
      /\ pending = Idle /\ pending' = Idle
      /\ ~Exists(n) /\ count < MaxTables /\ count' = count + 1
      /\ slots' = [slots EXCEPT ![count + 1] = new]
      /\ entries' = entries \/ entries' = EntriesDangling
  BY DEF CreateTable, Typed
<1>2. TypeInv' /\ TypeInv
  BY TypeCreate DEF StoreInv
<1>3. columns \in 1 .. MaxColumns /\ MaxTables \in Nat
  BY DatabaseAssumption
<1>4. count \in Nat /\ slots \in [1 .. MaxTables -> Table \cup {NoTable}]
  BY <1>2, <1>3 DEF TypeInv, TablesOK
<1> HIDE DEF new
<1>5. /\ slots'[count + 1] = new /\ count + 1 \in 1 .. count'
      /\ \A i \in 1 .. count : slots'[i] = slots[i] /\ i \in 1 .. count'
      /\ \A i \in 1 .. count' : i = count + 1 \/ i \in 1 .. count
  BY <1>1, <1>3, <1>4
<1>6. new.name = n /\ new.columns = columns
  BY DEF new
<1>7. \A i \in 1 .. count : slots[i].name # n
  BY <1>1 DEF Exists, SlotsOf
<1>8. NamedOnce(slots, count) /\ NamedOnce(slots, count)'
  <2>1. NamedOnce(slots, count)
    BY DEF StoreInv
  <2> QED
    BY <1>5, <1>6, <1>7, <2>1 DEF NamedOnce
<1>9. Living' = Living \cup {n} /\ n \notin Living /\ Living \subseteq Names
  <2>1. \A m : m \in Living <=> \E i \in 1 .. count : slots[i].name = m
    BY <1>1 DEF Living
  <2>2. \A m : m \in Living' <=> \E i \in 1 .. count' : slots'[i].name = m
    BY <1>1 DEF Living
  <2>3. Living' = Living \cup {n}
    BY <1>5, <1>6, <2>1, <2>2
  <2>4. n \notin Living /\ Living \subseteq Names
    BY <1>1, LivingFacts
  <2> QED
    BY <2>3, <2>4
<1>10. \A m \in Living \ {n} : ColumnsOf(m)' = ColumnsOf(m)
  <2> TAKE m \in Living \ {n}
  <2>1. PICK i \in 1 .. count : slots[i].name = m
    BY <1>1, LivingFacts
  <2>2. slots'[i] = slots[i] /\ i \in 1 .. count' /\ count' \in Nat
    BY <1>1, <1>4, <1>5
  <2> QED
    BY <1>4, <1>8, <2>1, <2>2, ColumnsKept
<1>11. ColumnsOf(n)' = columns /\ count' \in Nat
  <2>1. count' \in Nat
    BY <1>1, <1>4
  <2>2. SlotOf(n)' = count + 1
    BY <1>5, <1>6, <1>8, <2>1, SlotIsFoundNext DEF SlotFact
  <2> QED
    BY <1>5, <1>6, <2>1, <2>2 DEF ColumnsOf
<1> DEFINE io == [entries |-> entries', files |-> files]
<1>12. /\ IOOk(io) /\ IOOk(IO) /\ Single(IO) /\ io.files = IO.files
       /\ Len(io.entries) = Len(IO.entries)
       /\ \A i \in 1 .. Len(IO.entries) : /\ io.entries[i].name = IO.entries[i].name
                                          /\ io.entries[i].page = IO.entries[i].page
  <2>1. IOOk(IO) /\ Single(IO)
    BY <1>2 DEF TypeInv, StoreInv
  <2>2. CASE entries' = entries
    BY <2>1, <2>2 DEF IO
  <2>3. CASE entries' = EntriesDangling
    BY <1>2, <2>1, <2>3, DanglingFacts DEF IO
  <2> QED
    BY <1>1, <2>2, <2>3
<1>13. IO' = io
  BY <1>1 DEF IO
<1> HIDE DEF io
<1>14. /\ Single(io)
       /\ \A m : IsCached(io, m) <=> IsCached(IO, m)
       /\ \A m, c : PagesOf(io, m, c) = PagesOf(IO, m, c)
       /\ \A h \in Held(io) : \E g \in Held(IO) : g.name = h.name /\ g.page = h.page
  BY <1>12, SameLookups
<1>15. OthersShown(n) /\ \A m \in Living \ {n} : Current(m)' = Current(m)
  <2>1. \A m \in Living \ {n} : PagesOf(IO, m, ColumnsOf(m))' = PagesOf(IO, m, ColumnsOf(m))
    BY <1>10, <1>13, <1>14
  <2> QED
    BY <1>1, <1>10, <2>1, OthersStay
<1>16. Shown(n)' = [columns |-> columns, rows |-> {}]
  <2>1. Current(n)' = columns /\ Remaining(n)' = {}
    BY <1>1, <1>11 DEF Current, Remaining
  <2>2. files[n] = {} /\ ~IsCached(IO, n)
    BY <1>9 DEF StoreInv, Absent
  <2>3. Pages(n)' = {}
    BY <1>12, <1>13, <1>14, <2>1, <2>2 DEF Pages, PagesOf, Layout, IO
  <2>4. View({} \cup {}, columns) = {}
    BY DEF View
  <2> QED
    BY <1>1, <2>1, <2>3, <2>4, ViewIsShownNext DEF ViewFact
<1>17. \A h \in Held(io) : h.name \in Living \ {n}
  <2>1. \A g \in Held(IO) : g.name \in Names /\ IsCached(IO, g.name)
    BY <1>12, HeldFacts, HeldLookups
  <2>2. \A g \in Held(IO) : g.name \in Living
    BY <2>1 DEF StoreInv, Absent
  <2> QED
    BY <1>9, <1>14, <2>2
<1>18. Absent'
  BY <1>1, <1>9, <1>13, <1>14 DEF StoreInv, Absent
<1>19. RowsKept'
  <2>1. \A h \in Held(io) : HaveKeys(h.page) /\ Wide(h.page, Current(h.name)')
    BY <1>14, <1>15, <1>17 DEF StoreInv, RowsKept
  <2>2. \A m \in Names : files'[m] \in RowSets /\ HaveKeys(files'[m]) /\ Unmixed(files'[m])
    BY <1>1 DEF StoreInv, RowsKept
  <2> QED
    BY <1>13, <2>1, <2>2 DEF RowsKept
<1>20. Described'
  <2>1. OneName => Held(io) = {}
    BY <1>9, <1>17 DEF OneName
  <2> QED
    BY <1>13, <2>1 DEF Described
<1>21. StoreInv'
  BY <1>1, <1>2, <1>8, <1>13, <1>14, <1>18, <1>19, <1>20, IdleKept DEF StoreInv
<1> QED
  BY <1>3, <1>9, <1>15, <1>16, <1>21, TableCreated

\* A row with one more value is shown with it.
LEMMA LongerRow ==
    ASSUME NEW r \in Row, NEW c \in 1 .. MaxColumns, c + 1 \in 1 .. MaxColumns, Len(r) >= c,
           NEW value \in Values \cup {Null}
    PROVE  LET t == RowWithValue(r, c, value)
           IN  /\ t \in Row /\ Len(t) >= c + 1 /\ t[1] = r[1]
               /\ Printed(t, c + 1) = Append(Printed(r, c), value)
<1> DEFINE t == RowWithValue(r, c, value)
           s == Printed(r, c)
<1>1. /\ c \in Nat /\ c >= 1 /\ Len(r) \in Nat
      /\ s = [i \in 1 .. c |-> Seen(r[i])] /\ s \in Seq(Value) /\ Len(s) = c
  BY RowFacts, PrintedRow, DatabaseAssumption
<1>2. /\ t \in Row /\ t[1] = r[1] /\ Len(t) >= c + 1
      /\ t[c + 1] \in {value, Unmarked} /\ (t[c + 1] = Unmarked => value = Null)
      /\ \A i \in 1 .. c : t[i] = r[i]
  <2>1. /\ t \in Row /\ t[1] = r[1]
        /\ Len(t) = IF Len(r) > c + 1 THEN Len(r) ELSE c + 1
        /\ \A i \in 1 .. Len(t) :
              t[i] = IF i = c + 1
                     THEN IF value = Null /\ i <= Len(r) /\ r[i] # Null THEN Unmarked ELSE value
                     ELSE IF i > Len(r) THEN Garbled
                     ELSE IF i > c THEN BitOf(r[i]) ELSE r[i]
    BY RowWithValueFacts
  <2> HIDE DEF t
  <2>2. c + 1 \in 1 .. Len(t) /\ \A i \in 1 .. c : i \in 1 .. Len(t) /\ i # c + 1 /\ ~(i > Len(r)) /\ ~(i > c)
    BY <1>1, <2>1
  <2>3. value # Unmarked
    BY DatabaseAssumption
  <2> QED
    BY <1>1, <2>1, <2>2, <2>3
<1> HIDE DEF t, s
<1>3. Printed(t, c + 1) = [i \in 1 .. c + 1 |-> Seen(t[i])]
  BY <1>2, PrintedRow
<1>4. Seen(t[c + 1]) = value
  <2>1. Seen(value) = value /\ Seen(Unmarked) = Null
    BY SeenFacts DEF Seen
  <2> QED
    BY <1>2, <2>1
<1>5. value \in Value
  BY DEF Value
<1>6. Append(s, value) = [i \in 1 .. c + 1 |-> IF i = c + 1 THEN value ELSE s[i]]
  BY <1>1, <1>5
<1>7. \A i \in 1 .. c + 1 : Seen(t[i]) = IF i = c + 1 THEN value ELSE s[i]
  <2> TAKE i \in 1 .. c + 1
  <2>1. CASE i = c + 1
    BY <1>4, <2>1
  <2>2. CASE i # c + 1
    <3>1. i \in 1 .. c
      BY <1>1, <2>2
    <3> QED
      BY <1>1, <1>2, <2>2, <3>1
  <2> QED
    BY <2>1, <2>2
<1> QED
  BY <1>2, <1>3, <1>6, <1>7 DEF t, s

\* Without its last value it is as it was.
LEMMA ShorterAgain ==
    ASSUME NEW s \in Seq(Value), NEW value \in Values \cup {Null}
    PROVE  Front(Append(s, value)) = s
<1>1. value \in Value
  BY DEF Value
<1> QED
  BY <1>1 DEF Front

\* A row that is shown loses its last value.
LEMMA LastColumn ==
    ASSUME NEW r \in Row, NEW c \in 2 .. MaxColumns, Len(r) >= c
    PROVE  LET s == Printed(r, c)
           IN  /\ SubSeq(s, 1, c - 1) \o SubSeq(s, c + 1, Len(s)) = Front(s)
               /\ Front(s) = Printed(r, c - 1)
<1> DEFINE s == Printed(r, c)
<1>1. /\ c \in Nat /\ c >= 2 /\ MaxColumns \in Nat /\ c \in 1 .. MaxColumns
      /\ c - 1 \in 1 .. MaxColumns /\ Len(r) \in Nat
  BY RowFacts, DatabaseAssumption
<1>2. s \in Seq(Value) /\ Len(s) = c /\ s = [i \in 1 .. c |-> Seen(r[i])]
  BY <1>1, PrintedRow
<1>3. \A i \in 1 .. c : s[i] = Seen(r[i])
  BY <1>2
<1>4. Printed(r, c - 1) = [i \in 1 .. c - 1 |-> Seen(r[i])]
  BY <1>1, PrintedRow
<1> HIDE DEF s
<1>5. SubSeq(s, c + 1, Len(s)) = <<>>
  BY <1>1, <1>2
<1>6. SubSeq(s, 1, c - 1) = [i \in 1 .. c - 1 |-> s[i]]
  BY <1>1, <1>2
<1>7. SubSeq(s, 1, c - 1) \in Seq(Value)
  BY <1>1, <1>2
<1>8. SubSeq(s, 1, c - 1) \o <<>> = SubSeq(s, 1, c - 1)
  BY <1>7
<1>9. [i \in 1 .. c - 1 |-> s[i]] = [i \in 1 .. c - 1 |-> Seen(r[i])]
  BY <1>1, <1>3
<1>10. Front(s) = SubSeq(s, 1, c - 1)
  BY <1>2 DEF Front
<1> QED
  BY <1>4, <1>5, <1>6, <1>8, <1>9, <1>10 DEF s

\* The page that may be put back, when a statement starts.
OldFits(n, columns, rows, old) ==
    old # {} =>
        /\ HaveKeys(old) /\ Wide(old, ColumnsOf(n)) /\ columns = ColumnsOf(n) + 1
        /\ View(old, ColumnsOf(n)) = {Front(r) : r \in View(FirstByKey(rows), columns)}

\* A table is altered: its rows are in memory.
LEMMA AlterStep ==
    ASSUME StoreInv, TypeInv', up, pending = Idle, NEW n \in Names, Exists(n),
           NEW kind \in {"add", "drop"}, NEW columns, NEW rows \in Seq(Row), NEW old,
           \A i \in 1 .. Len(rows) : rows[i][1] \in Keys /\ Len(rows[i]) >= columns,
           DistinctKeys(rows), OldFits(n, columns, rows, old),
           StartAlter(n, kind, columns, rows, old)
    PROVE  /\ StoreInv' /\ Living' = Living /\ OthersShown(n)
           /\ Shown(n)' = [columns |-> columns, rows |-> View(FirstByKey(rows), columns)]
<1>1. /\ SetIO(Removed(IO, n))
      /\ pending' = [kind |-> kind, name |-> n, table |-> OwnTable(columns),
                     columns |-> columns, rows |-> rows, started |-> FALSE, old |-> old]
      /\ up' = up /\ slots' = slots /\ count' = count /\ catalog' = catalog
  BY DEF StartAlter
<1>2. /\ pending'.name = n /\ pending'.columns = columns /\ pending'.rows = rows
      /\ pending'.kind # "rewrite" /\ pending'.table = OwnTable(columns)
      /\ pending'.old = old
  BY <1>1
<1>3. pending' # Idle
  <2>1. pending'.kind # Idle.kind
    BY <1>1 DEF Idle
  <2> QED
    BY <2>1
<1>4. PendingKept'
  <2>1. Exists(n)' /\ ColumnsOf(n)' = ColumnsOf(n)
    BY <1>1 DEF Exists, SlotsOf, ColumnsOf, SlotOf
  <2>2. IO' = Removed(IO, n) /\ \A c : PagesOf(Removed(IO, n), n, c) = {}
    BY <1>1, RemovedOthers, NewIO DEF StoreInv, TypeInv
  <2>3. Pages(n)' = {} /\ KeysOf(Pages(n)') = {}
    BY <2>2 DEF Pages, KeysOf
  <2>4. OldKept'
    BY <1>2, <2>1 DEF OldKept, OldFits
  <2> QED
    BY <1>2, <2>1, <2>3, <2>4 DEF PendingKept
<1> QED
  BY <1>1, <1>2, <1>3, <1>4, RemoveStep

\* A table gets its new number of columns, and the others keep theirs.
LEMMA ColumnsSet ==
    ASSUME TypeInv, NamedOnce(slots, count), NamedOnce(catalog, Len(catalog)),
           up, up' = up, NEW n \in Names, Exists(n), NEW columns,
           slots' = SlotsWithColumns(n, columns), count' = count,
           catalog' = catalog \/ catalog' = SavedCatalog(slots')
    PROVE  /\ Living' = Living /\ ColumnsOf(n)' = columns
           /\ \A m : Exists(m)' <=> Exists(m)
           /\ \A m \in Living \ {n} : ColumnsOf(m)' = ColumnsOf(m)
           /\ NamedOnce(slots, count)' /\ NamedOnce(catalog, Len(catalog))'
           /\ \A i \in 1 .. MaxTables :
                 IF i \in 1 .. count /\ slots[i].name = n
                 THEN slots'[i] = [slots[i] EXCEPT !.columns = columns]
                 ELSE slots'[i] = slots[i]
<1>1. /\ count \in 0 .. MaxTables /\ MaxTables \in Nat
      /\ slots \in [1 .. MaxTables -> Table \cup {NoTable}]
      /\ \A i \in 1 .. count : slots[i] \in Table
      /\ NamedOnce(slots, count) /\ NamedOnce(catalog, Len(catalog))
  BY DatabaseAssumption DEF TypeInv, TablesOK
<1>2. DOMAIN slots = 1 .. MaxTables
  BY <1>1
<1>3. \A i : i \in SlotsOf(n) <=> i \in 1 .. count /\ slots[i].name = n
  BY DEF SlotsOf
<1>4. \A i \in 1 .. MaxTables :
         IF i \in 1 .. count /\ slots[i].name = n
         THEN slots'[i] = [slots[i] EXCEPT !.columns = columns]
         ELSE slots'[i] = slots[i]
  BY <1>2, <1>3 DEF SlotsWithColumns
<1>5. \A i \in 1 .. count : slots'[i].name = slots[i].name /\ i \in 1 .. MaxTables
  <2> TAKE i \in 1 .. count
  <2>1. \A t \in Table : [t EXCEPT !.columns = columns].name = t.name
    BY DEF Table
  <2>2. i \in 1 .. MaxTables
    BY <1>1
  <2>3. slots'[i] = [slots[i] EXCEPT !.columns = columns] \/ slots'[i] = slots[i]
    BY <1>4, <2>2
  <2> QED
    BY <1>1, <2>1, <2>2, <2>3
<1>6. NamedOnce(slots, count)'
  BY <1>1, <1>5 DEF NamedOnce
<1>7. \A m : SlotsOf(m)' = SlotsOf(m)
  BY <1>5 DEF SlotsOf
<1>8. \A m : SlotOf(m)' = SlotOf(m) /\ (Exists(m)' <=> Exists(m))
  BY <1>7 DEF SlotOf, Exists
<1>9. Living' = Living
  BY <1>5 DEF Living
<1>10. TypeOK
  BY TypeInvTypes
<1>11. ColumnsOf(n)' = columns
  <2>1. SlotOf(n) \in 1 .. count /\ slots[SlotOf(n)].name = n /\ slots[SlotOf(n)] \in Table
    BY <1>10, SlotOfFacts
  <2>2. slots'[SlotOf(n)] = [slots[SlotOf(n)] EXCEPT !.columns = columns]
    BY <1>4, <1>5, <2>1
  <2>3. slots'[SlotOf(n)].columns = columns
    BY <2>1, <2>2 DEF Table
  <2> QED
    BY <1>8, <2>3 DEF ColumnsOf
<1>12. \A m \in Living \ {n} : ColumnsOf(m)' = ColumnsOf(m)
  <2> TAKE m \in Living \ {n}
  <2>1. Exists(m)
    BY DEF Living, Exists, SlotsOf
  <2>2. SlotOf(m) \in 1 .. count /\ slots[SlotOf(m)].name = m
    BY <1>10, <2>1, SlotOfFacts
  <2>3. slots'[SlotOf(m)] = slots[SlotOf(m)]
    BY <1>4, <1>5, <2>2
  <2> QED
    BY <1>8, <2>3 DEF ColumnsOf
<1>13. NamedOnce(catalog, Len(catalog))'
  <2>1. CASE catalog' = catalog
    BY <1>1, <2>1
  <2>2. CASE catalog' = SavedCatalog(slots')
    <3>1. DOMAIN slots' = 1 .. MaxTables
      BY <1>2 DEF SlotsWithColumns
    <3>2. SavedCatalog(slots') = [i \in 1 .. count |-> slots'[i]]
      BY <1>1, <3>1 DEF SavedCatalog
    <3>3. Len(catalog') = count /\ \A i \in 1 .. count : catalog'[i] = slots'[i]
      BY <1>1, <2>2, <3>2
    <3> QED
      BY <1>6, <3>3 DEF NamedOnce
  <2> QED
    BY <2>1, <2>2
<1> QED
  BY <1>4, <1>6, <1>8, <1>9, <1>11, <1>12, <1>13

\* A table without pages is altered at once.
LEMMA EmptyAltered ==
    ASSUME StoreInv, TypeInv', up, up' = up, pending = Idle, pending' = pending,
           NEW n \in Names, Exists(n), NEW columns, Pages(n) = {},
           slots' = SlotsWithColumns(n, columns), count' = count,
           catalog' = catalog \/ catalog' = SavedCatalog(slots'),
           entries' = entries, files' = files
    PROVE  /\ StoreInv' /\ Living' = Living /\ OthersShown(n)
           /\ Shown(n)' = [columns |-> columns, rows |-> {}]
<1>1. /\ Living' = Living /\ ColumnsOf(n)' = columns
      /\ \A m \in Living \ {n} : ColumnsOf(m)' = ColumnsOf(m)
      /\ NamedOnce(slots, count)' /\ NamedOnce(catalog, Len(catalog))'
  BY ColumnsSet DEF StoreInv
<1>2. IO' = IO
  BY DEF IO
<1>3. OthersShown(n) /\ \A m \in Living \ {n} : Current(m)' = Current(m)
  BY <1>1, <1>2, OthersStay
<1>4. IOOk(IO) /\ Single(IO) /\ Current(n) \in 1 .. MaxColumns
  BY CurrentFacts
<1>5. ~IsCached(IO, n)
  BY <1>4, PagesOfFacts DEF Pages
<1>6. files[n] = {}
  <2>1. Layout(files[n], Current(n)) = {}
    BY <1>5 DEF Pages, PagesOf, IO
  <2> QED
    BY <2>1 DEF Layout
<1>7. Shown(n)' = [columns |-> columns, rows |-> {}]
  <2>1. Current(n)' = columns /\ Remaining(n)' = {}
    BY <1>1 DEF Current, Remaining
  <2>2. Pages(n)' = {}
    BY <1>2, <1>5, <1>6, <2>1 DEF Pages, PagesOf, Layout, IO
  <2>3. View({} \cup {}, columns) = {}
    BY DEF View
  <2> QED
    BY <2>1, <2>2, <2>3, ViewIsShownNext DEF ViewFact
<1>8. \A h \in Held(IO) : h.name \in Living \ {n}
  <2>1. \A h \in Held(IO) : h.name \in Names /\ IsCached(IO, h.name)
    BY <1>4, HeldFacts, HeldLookups
  <2> QED
    BY <1>5, <2>1 DEF StoreInv, Absent
<1>9. Absent'
  BY <1>1, <1>2 DEF StoreInv, Absent
<1>10. RowsKept'
  <2>1. \A h \in Held(IO) : HaveKeys(h.page) /\ Wide(h.page, Current(h.name)')
    BY <1>3, <1>8 DEF StoreInv, RowsKept
  <2>2. \A m \in Names : files'[m] \in RowSets /\ HaveKeys(files'[m]) /\ Unmixed(files'[m])
    BY DEF StoreInv, RowsKept
  <2> QED
    BY <1>2, <2>1, <2>2 DEF RowsKept
<1>11. Described'
  <2>1. OneName => Held(IO) = {}
    BY <1>8, LivingFacts DEF OneName
  <2> QED
    BY <1>2, <2>1 DEF Described
<1>12. StoreInv'
  BY <1>1, <1>2, <1>4, <1>9, <1>10, <1>11, IdleKept DEF StoreInv
<1> QED
  BY <1>1, <1>3, <1>7, <1>12

LEMMA StoreAlterAdd ==
    ASSUME Separate, StoreInv, NEW n \in Names, NEW value \in Values \cup {Null},
           AlterAdd(n, value)
    PROVE  StoreInv' /\ Refines
<1> DEFINE c == ColumnsOf(n)
           page == Pages(n)
           s == InKeyOrder(page)
           longer == [i \in DOMAIN s |-> RowWithValue(s[i], c, value)]
           old == PageInBuffer(n)
<1>1. /\ up /\ pending = Idle /\ Exists(n) /\ c < MaxColumns
  BY DEF AlterAdd, Typed, ColumnsOf
<1>2. /\ n \in Living /\ Living \subseteq Names
      /\ c \in 1 .. MaxColumns
      /\ page = PagesOf(IO, n, c)
      /\ page \in RowSets /\ page \subseteq Row /\ HaveKeys(page) /\ Wide(page, c)
      /\ Shown(n) = [columns |-> c, rows |-> View(page, c)]
  BY <1>1, TypedOn
<1>3. c + 1 \in 1 .. MaxColumns
  BY <1>1, <1>2, DatabaseAssumption
<1>4. \/ /\ s = <<>> /\ slots' = SlotsWithColumns(n, c + 1) /\ catalog' = SavedCatalog(slots')
         /\ UNCHANGED <<up, count, room, entries, files, pending>>
      \/ StartAlter(n, "add", c + 1, longer, old)
  BY <1>2 DEF AlterAdd, RowsInOrder, ColumnsOf
<1>9. old = {} \/ old = page
  BY <1>2 DEF PageInBuffer, PagesOf, IO
<1>10. c = ColumnsOf(n)
  OBVIOUS
<1>5. TypeInv'
  BY TypeAlterAdd DEF StoreInv
<1>6. /\ s \in Seq(Row) /\ {s[i] : i \in 1 .. Len(s)} = page
      /\ DOMAIN s = 1 .. Len(s) /\ Len(s) \in Nat
      /\ \A i \in 1 .. Len(s) : s[i] \in page
      /\ \A i, j \in 1 .. Len(s) : s[i][1] = s[j][1] => i = j
      /\ \A i, j \in 1 .. Len(s) : i < j => Precedes(s[i], s[j])
      /\ s = <<>> <=> page = {}
  BY <1>2, OrderedKeys
<1> HIDE DEF c, page, s, old
<1>7. CASE /\ s = <<>> /\ slots' = SlotsWithColumns(n, c + 1) /\ catalog' = SavedCatalog(slots')
           /\ UNCHANGED <<up, count, room, entries, files, pending>>
  <2>1. /\ StoreInv' /\ Living' = Living /\ OthersShown(n)
        /\ Shown(n)' = [columns |-> c + 1, rows |-> {}]
    BY <1>1, <1>5, <1>6, <1>7, EmptyAltered DEF page
  <2>2. {Append(r, value) : r \in View(page, c)} = {}
    BY <1>6, <1>7 DEF View
  <2>3. Shown(n)' = [columns |-> c + 1, rows |-> {Append(r, value) : r \in View(page, c)}]
    BY <2>1, <2>2
  <2> QED
    BY ONLY <1>2, <2>1, <2>3, value \in Values \cup {Null}, ColumnsChanged
<1>8. CASE StartAlter(n, "add", c + 1, longer, old)
  <2>1. DOMAIN longer = 1 .. Len(s) /\ Len(longer) = Len(s)
    BY <1>6
  <2>2. \A i \in 1 .. Len(s) :
           /\ longer[i] \in Row /\ Len(longer[i]) >= c + 1 /\ longer[i][1] = s[i][1]
           /\ Printed(longer[i], c + 1) = Append(Printed(s[i], c), value)
    <3> TAKE i \in 1 .. Len(s)
    <3> DEFINE row == RowWithValue(s[i], c, value)
    <3>1. longer[i] = row
      BY <1>6
    <3>2. s[i] \in Row /\ Len(s[i]) >= c
      BY <1>2, <1>6 DEF Wide
    <3>3. /\ row \in Row /\ Len(row) >= c + 1 /\ row[1] = s[i][1]
          /\ Printed(row, c + 1) = Append(Printed(s[i], c), value)
      BY ONLY <1>2, <1>3, <3>2, value \in Values \cup {Null}, LongerRow
    <3> HIDE DEF row, longer
    <3> QED
      BY <3>1, <3>3 DEF row
  <2>3. longer \in Seq(Row)
    <3>1. longer \in [1 .. Len(s) -> Row]
      BY <1>6, <2>2
    <3> QED
      BY <1>6, <3>1
  <2> HIDE DEF longer
  <2>4. \A i \in 1 .. Len(longer) : longer[i][1] \in Keys /\ Len(longer[i]) >= c + 1
    <3>1. \A i \in 1 .. Len(s) : s[i][1] \in Keys
      BY <1>2, <1>6 DEF HaveKeys
    <3>2. c + 1 \in Int
      BY <1>3, DatabaseAssumption
    <3> QED
      BY <2>1, <2>2, <3>1, <3>2
  <2>5. DistinctKeys(longer)
    BY <1>6, <2>1, <2>2 DEF DistinctKeys
  <2>6. FirstByKey(longer) = {longer[i] : i \in 1 .. Len(s)}
    BY <2>1, <2>3, <2>5, AllByKey DEF DistinctKeys
  <2>7. View(FirstByKey(longer), c + 1) = {Append(r, value) : r \in View(page, c)}
    <3>1. View(FirstByKey(longer), c + 1) = {Printed(longer[i], c + 1) : i \in 1 .. Len(s)}
      BY <2>6 DEF View
    <3>2. {Printed(longer[i], c + 1) : i \in 1 .. Len(s)} =
             {Append(Printed(s[i], c), value) : i \in 1 .. Len(s)}
      BY <2>2
    <3>3. \A r : r \in View(page, c) <=> \E i \in 1 .. Len(s) : r = Printed(s[i], c)
      BY <1>6 DEF View
    <3>4. {Append(Printed(s[i], c), value) : i \in 1 .. Len(s)} =
             {Append(r, value) : r \in View(page, c)}
      BY <3>3
    <3> QED
      BY <3>1, <3>2, <3>4
  <2>8. OldFits(n, c + 1, longer, old)
    <3>1. View(page, c) \subseteq Seq(Value)
      BY <1>2, PrintedRow DEF Wide, View
    <3>2. \A r \in View(page, c) : Front(Append(r, value)) = r
      BY ONLY <3>1, value \in Values \cup {Null}, ShorterAgain
    <3>3. {Front(q) : q \in {Append(r, value) : r \in View(page, c)}} = View(page, c)
      BY <3>2
    <3> QED
      BY <1>2, <1>9, <1>10, <2>7, <3>3 DEF OldFits
  <2>9. /\ StoreInv' /\ Living' = Living /\ OthersShown(n)
        /\ Shown(n)' = [columns |-> c + 1, rows |-> {Append(r, value) : r \in View(page, c)}]
    BY <1>1, <1>5, <1>8, <2>3, <2>4, <2>5, <2>7, <2>8, AlterStep
  <2> QED
    BY ONLY <1>2, <2>9, value \in Values \cup {Null}, ColumnsChanged
<1> QED
  BY <1>4, <1>7, <1>8

LEMMA StoreAlterDrop ==
    ASSUME Separate, StoreInv, NEW n \in Names, NEW column \in 2 .. MaxColumns,
           AlterDrop(n, column)
    PROVE  StoreInv' /\ Refines
<1> DEFINE c == ColumnsOf(n)
           page == Pages(n)
           s == InKeyOrder(page)
<1>1. /\ up /\ pending = Idle /\ Exists(n) /\ column \in 2 .. c
      /\ column = c \/ "drop column" \in Statements
  BY DEF AlterDrop, Typed, ColumnsOf
<1>2. /\ n \in Living /\ Living \subseteq Names
      /\ c \in 1 .. MaxColumns
      /\ page = PagesOf(IO, n, c)
      /\ page \in RowSets /\ page \subseteq Row /\ HaveKeys(page) /\ Wide(page, c)
      /\ Shown(n) = [columns |-> c, rows |-> View(page, c)]
  BY <1>1, TypedOn
<1>3. column = c /\ c \in 2 .. MaxColumns /\ c - 1 \in 1 .. MaxColumns /\ c \in 2 .. c
  <2>1. c \in Nat /\ MaxColumns \in Nat /\ c <= MaxColumns
    BY <1>2, DatabaseAssumption
  <2>2. column = c \/ MaxColumns <= 2
    BY <1>1 DEF Separate
  <2> HIDE DEF c
  <2>3. column \in Nat /\ column >= 2 /\ column <= c
    <3>1. column \in 2 .. c
      BY <1>1
    <3> QED
      BY ONLY <2>1, <3>1
  <2>4. column = c
    BY ONLY <2>1, <2>2, <2>3
  <2> QED
    BY ONLY <2>1, <2>3, <2>4
<1>4. \/ /\ s = <<>> /\ slots' = SlotsWithColumns(n, c - 1)
         /\ UNCHANGED <<up, count, room, entries, files, catalog, pending>>
      \/ StartAlter(n, "drop", c - 1, s, {})
  BY <1>2 DEF AlterDrop, RowsInOrder, ColumnsOf
<1>5. TypeInv'
  BY TypeAlterDrop DEF StoreInv
<1>6. /\ s \in Seq(Row) /\ {s[i] : i \in 1 .. Len(s)} = page
      /\ DOMAIN s = 1 .. Len(s) /\ Len(s) \in Nat
      /\ \A i \in 1 .. Len(s) : s[i] \in page
      /\ \A i, j \in 1 .. Len(s) : s[i][1] = s[j][1] => i = j
      /\ \A i, j \in 1 .. Len(s) : i < j => Precedes(s[i], s[j])
      /\ s = <<>> <=> page = {}
  BY <1>2, OrderedKeys
<1> HIDE DEF c, page, s
<1> DEFINE dropped == {SubSeq(r, 1, c - 1) \o SubSeq(r, c + 1, Len(r)) : r \in View(page, c)}
<1>7. dropped = View(page, c - 1)
  <2>1. \A r \in page : r \in Row /\ Len(r) >= c
    BY <1>2 DEF Wide
  <2>2. \A r \in page :
           SubSeq(Printed(r, c), 1, c - 1) \o
              SubSeq(Printed(r, c), c + 1, Len(Printed(r, c))) = Printed(r, c - 1)
    BY ONLY <1>3, <2>1, LastColumn
  <2> QED
    BY <2>2, Zenon DEF View
<1>8. /\ StoreInv' /\ Living' = Living /\ OthersShown(n)
      /\ Shown(n)' = [columns |-> c - 1, rows |-> View(page, c - 1)]
  <2>1. CASE /\ s = <<>> /\ slots' = SlotsWithColumns(n, c - 1)
             /\ UNCHANGED <<up, count, room, entries, files, catalog, pending>>
    <3>1. /\ StoreInv' /\ Living' = Living /\ OthersShown(n)
          /\ Shown(n)' = [columns |-> c - 1, rows |-> {}]
      BY <1>1, <1>5, <1>6, <2>1, EmptyAltered DEF page
    <3>2. View(page, c - 1) = {}
      BY <1>6, <2>1 DEF View
    <3> QED
      BY <3>1, <3>2
  <2>2. CASE StartAlter(n, "drop", c - 1, s, {})
    <3>1. \A i \in 1 .. Len(s) : s[i][1] \in Keys /\ Len(s[i]) >= c - 1
      <4>1. \A r \in page : r[1] \in Keys /\ Len(r) \in Nat /\ Len(r) >= c /\ c \in Int
        BY <1>2, <1>3, RowFacts DEF HaveKeys, Wide
      <4> QED
        BY <1>6, <4>1
    <3>2. /\ StoreInv' /\ Living' = Living /\ OthersShown(n)
          /\ Shown(n)' = [columns |-> c - 1, rows |-> View(FirstByKey(s), c - 1)]
      <4>1. DistinctKeys(s) /\ OldFits(n, c - 1, s, {})
        BY <1>6 DEF DistinctKeys, OldFits
      <4> QED
        BY <1>1, <1>5, <1>6, <2>2, <3>1, <4>1, AlterStep
    <3>3. FirstByKey(s) = page
      BY <1>6, AllByKey
    <3> QED
      BY <3>2, <3>3
  <2> QED
    BY <1>4, <2>1, <2>2
<1>9. Shown(n)' = [columns |-> c - 1, rows |-> dropped]
  BY <1>7, <1>8
<1> QED
  BY ONLY <1>2, <1>3, <1>8, <1>9, ColumnsChanged

\* A row of an unfinished statement is written or refused.
LEMMA RowWritten ==
    ASSUME Separate, StoreInv, TypeInv', up, up' = up, slots' = slots, count' = count,
           catalog' = catalog, pending # Idle, pending' # Idle, pending.rows # <<>>,
           NEW n, pending.name = n, pending'.name = n,
           NEW c, pending.columns = c, pending'.columns = c,
           pending'.rows = Tail(pending.rows), PendingKept',
           NEW pointer, Sound(pointer), pointer # Dangling, ColumnsAt(pointer) = c,
           SetIO(AddRecord(IO, n, pointer, Head(pending.rows)))
    PROVE  StoreInv' /\ Refines
<1> DEFINE r == Head(pending.rows)
           page == Pages(n)
           pages == Added(page, r)
           new == AddRecord(IO, n, pointer, r)
<1>1. /\ pending \in Unfinished /\ r \in Row /\ Tail(pending.rows) \in Seq(Row)
      /\ n \in Names /\ c \in 1 .. MaxColumns /\ pending.rows \in Seq(Row)
  <2>1. pending \in Unfinished /\ r \in Row /\ Tail(pending.rows) \in Seq(Row)
    BY PendingRows DEF StoreInv
  <2>2. /\ pending.name \in Names /\ pending.columns \in 1 .. MaxColumns
        /\ pending.rows \in Seq(Row)
    BY <2>1, UnfinishedFacts
  <2> QED
    BY <2>1, <2>2
<1>2. Exists(n) /\ r[1] \in Keys /\ Len(r) >= c
  <2>1. r = pending.rows[1] /\ 1 \in 1 .. Len(pending.rows)
    BY <1>1
  <2> QED
    BY <2>1 DEF StoreInv, PendingKept
<1>3. Current(n) = c
  BY DEF Current
<1>4. /\ page \in RowSets /\ page \subseteq Row /\ HaveKeys(page) /\ Wide(page, c)
      /\ IOOk(IO) /\ Single(IO) /\ page = PagesOf(IO, n, c)
  BY <1>1, <1>2, <1>3, CurrentFacts DEF Pages
<1>5. Paged(IO, new, n, c, pages, pointer)
  BY <1>1, <1>4, PagedAdd DEF Separate, Added
<1>6. pages \subseteq Row /\ HaveKeys(pages) /\ Wide(pages, c)
  BY <1>1, <1>2, <1>4, AddedPages
<1>7. GoesOn(n) /\ SetIO(new)
  BY DEF GoesOn
<1>8. n \in Living /\ Living \subseteq Names
  BY <1>2, LivingFacts
<1>9. Shown(n) = [columns |-> c, rows |-> View(page \cup Left(pending.rows, KeysOf(page)), c)]
  <2>1. Remaining(n) = Left(pending.rows, KeysOf(page))
    BY DEF Remaining
  <2> QED
    BY <1>1, <1>3, <2>1, ViewIsShown DEF ViewFact
<1>10. page \cup Left(pending.rows, KeysOf(page)) =
          pages \cup Left(Tail(pending.rows), KeysOf(pages))
  BY <1>1, WrittenNext DEF Added
<1> HIDE DEF r, page, pages, new
<1>11. /\ StoreInv' /\ Living' = Living /\ OthersShown(n)
       /\ Shown(n)' = [columns |-> Current(n),
            rows |-> View(pages \cup (IF pending' = Idle THEN {}
                                      ELSE Left(pending'.rows, KeysOf(pages))), Current(n))]
  BY <1>1, <1>2, <1>3, <1>5, <1>6, <1>7, TableStep
<1>12. Shown(n)' = Shown(n)
  BY <1>3, <1>7, <1>9, <1>10, <1>11
<1>13. Refines
  BY ONLY <1>1, <1>8, <1>11, <1>12, NothingShown
<1> QED
  BY <1>11, <1>13

LEMMA StoreAlterRow ==
    ASSUME Separate, StoreInv, AlterRow
    PROVE  StoreInv' /\ Refines
<1>1. /\ up /\ up' = up /\ slots' = slots /\ count' = count /\ catalog' = catalog
      /\ pending.kind \in {"add", "drop"} /\ pending.rows # <<>>
      /\ SetIO(AddRecord(IO, pending.name, pending.table, Head(pending.rows)))
      /\ pending' = [pending EXCEPT !.rows = Tail(@)]
      /\ ~Clashes(IO, pending.name, pending.table, Head(pending.rows))
  BY DEF AlterRow, Alters
<1>2. TypeInv'
  BY TypeAlterRow DEF StoreInv
<1>3. pending # Idle
  BY <1>1 DEF Idle
<1>4. pending \in Unfinished /\ Sound(pending.table) /\ Tail(pending.rows) \in Seq(Row)
  BY <1>1, <1>3, PendingRows DEF StoreInv
<1>5. /\ pending'.table = pending.table /\ pending'.kind = pending.kind
      /\ pending'.rows = Tail(pending.rows)
      /\ pending'.name = pending.name /\ pending'.columns = pending.columns
      /\ pending' \in Unfinished
  <2>1. pending' = [pending EXCEPT !.rows = Tail(pending.rows)]
    BY <1>1
  <2> QED
    BY <1>4, <2>1 DEF Unfinished
<1>6. /\ pending' # Idle /\ pending.rows \in Seq(Row) /\ pending.columns \in 1 .. MaxColumns
  BY <1>4, <1>5, UnfinishedFacts
<1>7. /\ Exists(pending.name) /\ pending.table = OwnTable(pending.columns)
      /\ \A i \in 1 .. Len(pending.rows) :
            /\ pending.rows[i][1] \in Keys /\ Len(pending.rows[i]) >= pending.columns
            /\ pending.rows[i][1] \notin KeysOf(Pages(pending.name))
      /\ DistinctKeys(pending.rows) /\ OldKept
  BY <1>1, <1>3 DEF StoreInv, PendingKept
<1>8. ColumnsAt(pending.table) = pending.columns /\ pending.table # Dangling
  BY <1>6, <1>7, DatabaseAssumption DEF ColumnsAt, OwnTable, Dangling
<1>9. PICK n, c, pointer, s, r, t :
         /\ n = pending.name /\ c = pending.columns /\ pointer = pending.table
         /\ s = pending.rows /\ r = Head(s) /\ t = Tail(s)
  OBVIOUS
<1>10. /\ s \in Seq(Row) /\ Len(s) \in Nat /\ r = s[1] /\ 1 \in 1 .. Len(s) /\ r \in Row
       /\ Len(t) = Len(s) - 1
       /\ \A i \in 1 .. Len(t) : t[i] = s[i + 1] /\ i + 1 \in 1 .. Len(s) /\ i + 1 # 1
  BY <1>1, <1>6, <1>9
<1>11. n \in Names /\ c \in 1 .. MaxColumns
  BY <1>4, <1>6, <1>9, UnfinishedFacts
<1>12. /\ Current(n) = c /\ Current(n)' = c /\ ColumnsOf(n)' = ColumnsOf(n)
       /\ Exists(n)' /\ Exists(n)
  BY <1>1, <1>3, <1>5, <1>6, <1>7, <1>9 DEF Current, ColumnsOf, SlotOf, SlotsOf, Exists
<1>13. Pages(n)' = Pages(n) \cup {r}
  <2>1. Pages(n) = PagesOf(IO, n, c) /\ IOOk(IO) /\ Single(IO) /\ Pages(n) \subseteq Row
    BY <1>3, <1>11, <1>12, <1>1, CurrentFacts DEF Pages
  <2>2. r[1] \notin KeysOf(Pages(n))
    BY <1>7, <1>9, <1>10
  <2>3. Paged(IO, AddRecord(IO, n, pointer, r), n, c, Pages(n) \cup {r}, pointer)
    <3>1. Sound(pointer) /\ c = ColumnsAt(pointer) /\ r \in Row
      BY <1>4, <1>8, <1>9, <1>10
    <3> QED
      BY <1>11, <2>1, <2>2, <3>1, PagedAdd DEF Separate
  <2>4. IO' = AddRecord(IO, n, pointer, r) /\ PagesOf(AddRecord(IO, n, pointer, r), n, c) = Pages(n) \cup {r}
    BY <1>1, <1>9, <2>3, NewIO DEF Paged
  <2> QED
    BY <1>12, <2>4 DEF Pages
<1>14. PendingKept'
  <2>1. \A i \in 1 .. Len(t) : t[i][1] \in Keys /\ Len(t[i]) >= c
    BY <1>7, <1>9, <1>10
  <2>2. DistinctKeys(t)
    BY <1>7, <1>9, <1>10 DEF DistinctKeys
  <2>3. \A i \in 1 .. Len(t) : t[i][1] \notin KeysOf(Pages(n)')
    <3> TAKE i \in 1 .. Len(t)
    <3>1. t[i][1] # r[1]
      BY <1>7, <1>9, <1>10 DEF DistinctKeys
    <3>2. t[i][1] \notin KeysOf(Pages(n))
      BY <1>7, <1>9, <1>10
    <3> QED
      BY <1>13, <3>1, <3>2 DEF KeysOf
  <2>4. OldKept'
    <3>1. pending'.old = pending.old
      <4>1. pending' = [pending EXCEPT !.rows = Tail(pending.rows)]
        BY <1>1
      <4> QED
        BY ONLY <1>4, <4>1 DEF Unfinished
    <3>2. Pages(n)' # {}
      BY <1>13
    <3> QED
      BY <1>5, <1>7, <1>9, <1>12, <3>1, <3>2 DEF OldKept
  <2>5. /\ pending'.rows = t /\ pending'.columns = c /\ pending'.name = n
        /\ pending'.kind # "rewrite" /\ pending'.table = OwnTable(c)
    BY <1>1, <1>5, <1>7, <1>9
  <2> QED
    BY <1>12, <2>1, <2>2, <2>3, <2>4, <2>5 DEF PendingKept
<1> QED
  BY <1>1, <1>2, <1>3, <1>4, <1>5, <1>6, <1>8, <1>9, <1>14, RowWritten

\* A statement ends before its time: its table has these pages, and the
\* columns it had before.
LEMMA EndStep ==
    ASSUME StoreInv, TypeInv', up, up' = up, slots' = slots, count' = count,
           catalog' = catalog, pending # Idle, pending' = Idle,
           NEW n \in Names, Exists(n), pending.name = n, ~IsCached(IO, n),
           NEW io, SetIO(io), io.files = IO.files, NEW page, NEW pointer,
           Paged(IO, io, n, ColumnsOf(n), page, pointer),
           HaveKeys(page), Wide(page, ColumnsOf(n)), page \subseteq Row,
           pointer # Dangling, ColumnsAt(pointer) = ColumnsOf(n)
    PROVE  /\ StoreInv' /\ Living' = Living /\ OthersShown(n)
           /\ Shown(n)' = [columns |-> ColumnsOf(n), rows |-> View(page, ColumnsOf(n))]
<1>1. IO' = io /\ files' = files /\ IOOk(io) /\ Single(io)
  BY NewIO DEF Paged, IO
<1>2. Living' = Living
  BY DEF Living
<1>3. \A m : SlotOf(m)' = SlotOf(m) /\ (Exists(m)' <=> Exists(m)) /\ ColumnsOf(m)' = ColumnsOf(m)
  BY DEF SlotOf, SlotsOf, Exists, ColumnsOf
<1>4. /\ \A m \in Names \ {n} : Current(m)' = Current(m)
      /\ Current(n)' = ColumnsOf(n)
  BY <1>3 DEF Current
<1>5. \A m \in Names \ {n} : Pages(m)' = Pages(m) /\ (IsCached(io, m) <=> IsCached(IO, m))
  BY <1>1, <1>4 DEF Pages, Paged, Others
<1>6. Pages(n)' = page
  BY <1>1, <1>4 DEF Pages, Paged
<1>7. /\ \A m \in Names \ {n} : Remaining(m)' = {} /\ Remaining(m) = {}
      /\ Remaining(n)' = {}
  BY DEF Remaining
<1>8. OthersShown(n)
  BY <1>4, <1>5, <1>7, LivingFacts, ViewIsShown, ViewIsShownNext
  DEF ViewFact, OthersShown
<1>9. Shown(n)' = [columns |-> ColumnsOf(n), rows |-> View(page, ColumnsOf(n))]
  <2>1. page \cup {} = page
    OBVIOUS
  <2> QED
    BY <1>4, <1>6, <1>7, <2>1, ViewIsShownNext DEF ViewFact
<1>10. Single(IO)' /\ NamedOnce(slots, count)' /\ NamedOnce(catalog, Len(catalog))'
  BY <1>1 DEF StoreInv
<1>11. Absent'
  <2>1. n \in Living
    BY LivingFacts
  <2> QED
    BY <1>1, <1>2, <1>5, <2>1 DEF Absent, StoreInv
<1>12. \A h \in Held(IO) : h.name # n
  BY HeldLookups DEF StoreInv, TypeInv
<1>13. \A h \in Held(io) : \/ h.name # n /\ h.name \in Names /\ h \in Held(IO)
                           \/ h.name = n /\ h.page = page /\ h.table = pointer
  <2>1. \A h \in Held(io) : h.name \in Names
    BY <1>1, HeldFacts
  <2> QED
    BY <1>12, <2>1 DEF Paged
<1>14. RowsKept'
  <2>1. \A h \in Held(io) : HaveKeys(h.page) /\ Wide(h.page, Current(h.name)')
    BY <1>4, <1>13 DEF StoreInv, RowsKept
  <2>2. \A m \in Names :
           files'[m] \in RowSets /\ HaveKeys(files'[m]) /\ Unmixed(files'[m])
    BY <1>1 DEF StoreInv, RowsKept
  <2> QED
    BY <1>1, <2>1, <2>2 DEF RowsKept
<1>15. Described'
  <2>1. OneName => \A h \in Held(io) : h.table # Dangling /\ ColumnsAt(h.table) = Current(h.name)'
    BY <1>4, <1>13 DEF StoreInv, Described
  <2>2. \A h : ColumnsAt(h.table)' = ColumnsAt(h.table)
    BY DEF ColumnsAt
  <2> QED
    BY <1>1, <2>1, <2>2 DEF Described
<1>16. StoreInv'
  BY <1>10, <1>11, <1>14, <1>15, IdleKept DEF StoreInv
<1> QED
  BY <1>2, <1>8, <1>9, <1>16

\* No row of an altered table is refused, so it is the first page: the rows
\* are lost, or shown as before.
LEMMA StoreAlterFails ==
    ASSUME Separate, StoreInv, AlterFails
    PROVE  StoreInv' /\ Refines
<1>1. PICK n, c, k, old, pointer, r :
         /\ n = pending.name /\ c = pending.columns /\ k = ColumnsOf(n)
         /\ old = pending.old /\ pointer = pending.table /\ r = Head(pending.rows)
  OBVIOUS
<1>2. /\ up /\ up' = up /\ slots' = slots /\ count' = count /\ catalog' = catalog
      /\ pending.kind \in {"add", "drop"} /\ pending.rows # <<>> /\ pending' = Idle
      /\ Clashes(IO, n, pointer, r) \/ MakesPage(IO, n, pointer)
      /\ ~Clashes(IO, n, pointer, r) =>
            SetIO(IF old = {} THEN IO ELSE Cached(IO, n, Pointer(SlotOf(n)), old))
  BY <1>1 DEF AlterFails, Alters
<1>3. TypeInv' /\ TypeInv
  BY TypeAlterFails DEF StoreInv
<1>4. pending # Idle
  BY <1>2 DEF Idle
<1>5. /\ pending \in Unfinished /\ Sound(pointer) /\ r \in Row /\ old \in RowSets
      /\ n \in Names /\ c \in 1 .. MaxColumns /\ pending.rows \in Seq(Row)
  <2>1. /\ pending \in Unfinished /\ Sound(pending.table) /\ Head(pending.rows) \in Row
        /\ pending.old \in RowSets
    BY <1>2, <1>3, <1>4, PendingRows DEF TypeInv, PendingOK
  <2> QED
    BY <1>1, <2>1, UnfinishedFacts
<1>6. /\ Exists(n) /\ pointer = OwnTable(c)
      /\ \A i \in 1 .. Len(pending.rows) : pending.rows[i][1] \notin KeysOf(Pages(n))
      /\ OldKept
  BY <1>1, <1>2, <1>4 DEF StoreInv, PendingKept
<1>7. ColumnsAt(pointer) = c /\ Current(n) = c
  BY <1>1, <1>4, <1>5, <1>6, DatabaseAssumption DEF ColumnsAt, OwnTable, Current
<1>8. ~Clashes(IO, n, pointer, r)
  <2>1. r = pending.rows[1] /\ 1 \in 1 .. Len(pending.rows)
    BY <1>1, <1>2, <1>5
  <2>2. r[1] \notin KeysOf(Pages(n))
    BY <1>6, <2>1
  <2> QED
    BY <1>7, <2>2 DEF Clashes, Pages
<1>9. /\ SetIO(IF old = {} THEN IO ELSE Cached(IO, n, Pointer(SlotOf(n)), old))
      /\ ~IsCached(IO, n) /\ Pages(n) = {} /\ files[n] = {}
  <2>1. MakesPage(IO, n, pointer)
    BY <1>2, <1>8
  <2>2. ~IsCached(IO, n) /\ Pages(n) = {}
    BY <1>7, <2>1 DEF MakesPage, Pages
  <2>3. files[n] = {}
    BY <2>2 DEF Pages, PagesOf, Layout, IO
  <2> QED
    BY <1>2, <1>8, <2>2, <2>3
<1>10. /\ n \in Living /\ Living \subseteq Names /\ IOOk(IO) /\ Single(IO)
       /\ k \in 1 .. MaxColumns
  BY <1>1, <1>2, <1>5, <1>6, LivingFacts, CurrentFacts
<1>11. PICK own : /\ own = Pointer(SlotOf(n)) /\ Sound(own) /\ own # Dangling
                  /\ ColumnsAt(own) = k
  <2>1. TypeOK
    BY <1>3, TypeInvTypes
  <2> QED
    BY <1>1, <1>6, <2>1, SlotOfFacts DEF ColumnsOf
<1>12. IsFiniteSet(Names) /\ Cardinality(Names) <= MaxPages
  BY DEF Separate
<1>13. CASE old = {}
  <2>1. SetIO(IO) /\ IO.files = IO.files
    BY <1>9, <1>13
  <2>2. PagesOf(IO, n, k) = {}
    BY <1>9 DEF PagesOf, Layout, IO
  <2>3. Paged(IO, IO, n, k, {}, own)
    BY <1>5, <1>9, <1>10, <1>11, <1>12, <2>2, PagedRead
  <2>4. HaveKeys({}) /\ Wide({}, k) /\ {} \subseteq Row
    BY DEF HaveKeys, Wide
  <2>5. /\ StoreInv' /\ Living' = Living /\ OthersShown(n)
        /\ Shown(n)' = [columns |-> k, rows |-> View({}, k)]
    BY <1>1, <1>2, <1>3, <1>4, <1>5, <1>6, <1>9, <1>11, <2>1, <2>3, <2>4, EndStep
  <2>6. View({}, k) = {}
    BY DEF View
  <2>7. Refused
    BY DEF Refused
  <2>8. Refines
    BY ONLY <1>1, <1>10, <2>5, <2>6, <2>7, RowsLost
  <2> QED
    BY <2>5, <2>8
<1>14. CASE old # {}
  <2>0. PICK io : io = Cached(IO, n, own, old)
    OBVIOUS
  <2>1. SetIO(io)
    BY <1>9, <1>11, <1>14, <2>0
  <2>2. Paged(IO, io, n, k, old, own)
    BY <1>5, <1>9, <1>10, <1>11, <1>12, <1>14, <2>0, PagedCached
  <2>3. io.files = IO.files
    BY <1>5, <1>9, <1>10, <1>11, <1>12, <1>14, <2>0, HeldCached
  <2>4. /\ HaveKeys(old) /\ Wide(old, k) /\ old \subseteq Row /\ c = k + 1
        /\ View(old, k) = {Front(q) : q \in View(FirstByKey(pending.rows), c)}
    BY <1>1, <1>5, <1>6, <1>9, <1>14 DEF OldKept, RowSets
  <2>5. /\ StoreInv' /\ Living' = Living /\ OthersShown(n)
        /\ Shown(n)' = [columns |-> k, rows |-> View(old, k)]
    <3>1. /\ pending.name = n /\ k = ColumnsOf(n) /\ up /\ up' = up /\ slots' = slots
          /\ count' = count /\ catalog' = catalog /\ pending' = Idle
          /\ Exists(n) /\ ~IsCached(IO, n) /\ own # Dangling /\ ColumnsAt(own) = k
      BY <1>1, <1>2, <1>6, <1>9, <1>11
    <3>2. HaveKeys(old) /\ Wide(old, k) /\ old \subseteq Row
      BY <2>4
    <3> QED
      <4>1. Paged(IO, io, n, ColumnsOf(n), old, own) /\ Wide(old, ColumnsOf(n))
        BY <2>2, <3>1, <3>2
      <4>2. ColumnsAt(own) = ColumnsOf(n) /\ n \in Names
        BY <1>5, <3>1
      <4>3. /\ StoreInv' /\ Living' = Living /\ OthersShown(n)
            /\ Shown(n)' = [columns |-> ColumnsOf(n), rows |-> View(old, ColumnsOf(n))]
        BY ONLY StoreInv, <1>3, <1>4, <2>1, <2>3, <3>1, <3>2, <4>1, <4>2, EndStep
      <4> QED
        BY <3>1, <4>3
  <2> DEFINE left == FirstByKey(pending.rows)
  <2>6. Shown(n) = [columns |-> c, rows |-> View(left, c)]
    <3>1. Remaining(n) = Left(pending.rows, {})
      BY <1>1, <1>4, <1>9 DEF Remaining, KeysOf
    <3>2. Left(pending.rows, {}) = left
      BY DEF Left
    <3>3. {} \cup left = left
      OBVIOUS
    <3> QED
      BY <1>2, <1>5, <1>7, <1>9, <3>1, <3>2, <3>3, ViewIsShown DEF ViewFact
  <2>7. /\ \A q \in left : q \in Row /\ Len(q) >= c
        /\ c \in 2 .. MaxColumns /\ c - 1 = k /\ c \in 2 .. c
    <3>1. \A i \in 1 .. Len(pending.rows) : Len(pending.rows[i]) >= c
      BY <1>1, <1>4 DEF StoreInv, PendingKept
    <3>2. \A q \in left : \E i \in 1 .. Len(pending.rows) : q = pending.rows[i]
      BY <1>5 DEF FirstByKey
    <3>3. \A q \in left : q \in Row /\ Len(q) >= c
      BY <1>5, <3>1, <3>2
    <3>4. c \in 2 .. MaxColumns /\ c - 1 = k /\ c \in 2 .. c
      BY ONLY <1>5, <1>10, <2>4, DatabaseAssumption
    <3> QED
      BY <3>3, <3>4
  <2> HIDE DEF left
  <2>8. {SubSeq(q, 1, c - 1) \o SubSeq(q, c + 1, Len(q)) : q \in View(left, c)} =
           {Front(q) : q \in View(left, c)}
    <3>1. \A q \in left :
             SubSeq(Printed(q, c), 1, c - 1) \o
                SubSeq(Printed(q, c), c + 1, Len(Printed(q, c))) = Front(Printed(q, c))
      BY ONLY <2>7, LastColumn
    <3>2. \A q \in View(left, c) :
             SubSeq(q, 1, c - 1) \o SubSeq(q, c + 1, Len(q)) = Front(q)
      BY ONLY <3>1 DEF View
    <3> QED
      BY ONLY <3>2
  <2>9. Shown(n)' = [columns |-> c - 1,
           rows |-> {SubSeq(q, 1, c - 1) \o SubSeq(q, c + 1, Len(q)) : q \in View(left, c)}]
    <3>1. View(old, k) = {Front(q) : q \in View(left, c)}
      BY <2>4 DEF left
    <3> QED
      BY ONLY <2>5, <2>7, <2>8, <3>1
  <2>10. Refines
    <3>1. PICK rows : rows = View(left, c)
      OBVIOUS
    <3>2. Shown(n) = [columns |-> c, rows |-> rows]
      BY ONLY <2>6, <3>1
    <3>3. Shown(n)' = [columns |-> c - 1,
             rows |-> {SubSeq(q, 1, c - 1) \o SubSeq(q, c + 1, Len(q)) : q \in rows}]
      BY ONLY <2>9, <3>1
    <3> QED
      BY ONLY <1>10, <2>5, <2>7, <3>2, <3>3, ColumnsChanged
  <2> QED
    BY <2>5, <2>10
<1> QED
  BY <1>13, <1>14

LEMMA StoreRewriteRow ==
    ASSUME Separate, StoreInv, RewriteRow
    PROVE  StoreInv' /\ Refines
<1> DEFINE pointer == pending.table
           r == Head(pending.rows)
           m == slots[pointer.slot].name
<1>1. /\ up /\ up' = up /\ slots' = slots /\ count' = count /\ catalog' = catalog
      /\ pending.kind = "rewrite" /\ pending.rows # <<>>
      /\ SetIO(IF pending.started THEN AddRecord(IO, m, pointer, r)
               ELSE FirstRecord(IO, m, pointer, r))
      /\ pending' = [pending EXCEPT !.rows = Tail(@), !.started = TRUE]
  BY DEF RewriteRow
<1>2. TypeInv'
  BY TypeRewriteRow DEF StoreInv
<1>3. pending # Idle
  BY <1>1 DEF Idle
<1>4. pending \in Unfinished /\ Sound(pointer) /\ Tail(pending.rows) \in Seq(Row)
  BY <1>1, <1>3, PendingRows DEF StoreInv
<1>5. /\ pending'.table = pending.table /\ pending'.kind = pending.kind
      /\ pending'.rows = Tail(pending.rows) /\ pending'.started = TRUE
      /\ pending'.name = pending.name /\ pending'.columns = pending.columns
      /\ pending' \in Unfinished
  <2>1. pending' = [pending EXCEPT !.rows = Tail(pending.rows), !.started = TRUE]
    BY <1>1
  <2> QED
    BY <1>4, <2>1 DEF Unfinished
<1>6. /\ pending' # Idle /\ pending.rows \in Seq(Row) /\ pending.columns \in 1 .. MaxColumns
      /\ pending.name \in Names
  <2>1. pending' # Idle
    BY <1>5, UnfinishedFacts
  <2> QED
    BY <1>4, <2>1, UnfinishedFacts
<1>7. /\ Exists(pending.name) /\ OneName
      /\ pointer = Pointer(SlotOf(pending.name)) /\ pending.columns = ColumnsOf(pending.name)
      /\ ~pending.started => files[pending.name] = {} /\ ~IsCached(IO, pending.name)
      /\ \A i \in 1 .. Len(pending.rows) :
            pending.rows[i][1] \in Keys /\ Len(pending.rows[i]) >= pending.columns
  BY <1>1, <1>3 DEF StoreInv, PendingKept
<1>8. /\ pointer # Dangling /\ ColumnsAt(pointer) = pending.columns /\ m = pending.name
  <2>1. TypeOK
    BY TypeInvTypes DEF StoreInv
  <2>2. /\ slots[SlotOf(pending.name)].name = pending.name
        /\ Pointer(SlotOf(pending.name)) # Dangling
        /\ ColumnsAt(Pointer(SlotOf(pending.name))) = slots[SlotOf(pending.name)].columns
    BY <1>7, <2>1, SlotOfFacts
  <2>3. Pointer(SlotOf(pending.name)).slot = SlotOf(pending.name)
    BY DEF Pointer
  <2> QED
    BY <1>7, <2>2, <2>3 DEF ColumnsOf
<1>9. SetIO(AddRecord(IO, pending.name, pointer, r))
  <2>1. CASE pending.started
    BY <1>1, <1>8, <2>1
  <2>2. CASE ~pending.started
    <3>1. files[pending.name] = {} /\ ~IsCached(IO, pending.name)
      BY <1>7, <2>2
    <3>2. PagesOf(IO, pending.name, ColumnsAt(pointer)) = {}
      BY <3>1 DEF PagesOf, Layout, IO
    <3>3. AddRecord(IO, pending.name, pointer, r) = FirstRecord(IO, pending.name, pointer, r)
      BY <3>1, <3>2 DEF AddRecord
    <3> QED
      BY <1>1, <1>8, <2>2, <3>3
  <2> QED
    BY <2>1, <2>2
<1>10. PendingKept'
  <2>1. \A i \in 1 .. Len(Tail(pending.rows)) :
           /\ Tail(pending.rows)[i] = pending.rows[i + 1]
           /\ i + 1 \in 1 .. Len(pending.rows)
    BY <1>1, <1>6
  <2>2. \A n : /\ Exists(n)' <=> Exists(n)
               /\ SlotOf(n)' = SlotOf(n) /\ ColumnsOf(n)' = ColumnsOf(n)
    BY <1>1 DEF Exists, SlotOf, SlotsOf, ColumnsOf
  <2>3. PICK n : n = pending.name
    OBVIOUS
  <2>4. pending'.name = n /\ n = pending.name
    BY <1>5, <2>3
  <2>5. Exists(n)' /\ SlotOf(n)' = SlotOf(n) /\ ColumnsOf(n)' = ColumnsOf(n)
    BY <1>7, <2>2, <2>4
  <2>6. \A i \in 1 .. Len(pending'.rows) :
           pending'.rows[i][1] \in Keys /\ Len(pending'.rows[i]) >= pending'.columns
    BY <1>5, <1>7, <2>1
  <2> QED
    BY <1>1, <1>5, <1>7, <2>4, <2>5, <2>6 DEF PendingKept
<1>11. PICK n, c, p : n = pending.name /\ c = pending.columns /\ p = pending.table
  OBVIOUS
<1> QED
  BY <1>1, <1>2, <1>3, <1>4, <1>5, <1>6, <1>8, <1>9, <1>10, <1>11, RowWritten

\* The new first page is refused: the rows are lost.
LEMMA StoreRewriteFails ==
    ASSUME Separate, StoreInv, RewriteFails
    PROVE  StoreInv' /\ Refines
<1>1. PICK n, c : n = pending.name /\ c = ColumnsOf(n)
  OBVIOUS
<1>2. /\ up /\ up' = up /\ slots' = slots /\ count' = count /\ catalog' = catalog
      /\ pending.kind = "rewrite" /\ ~pending.started /\ pending' = Idle /\ SetIO(IO)
  BY DEF RewriteFails, SetIO, IO
<1>3. TypeInv' /\ TypeInv
  BY TypeRewriteFails DEF StoreInv
<1>4. pending # Idle
  BY <1>2 DEF Idle
<1>5. n \in Names
  BY <1>1, <1>3, <1>4, UnfinishedFacts DEF TypeInv, PendingOK
<1>6. Exists(n) /\ files[n] = {} /\ ~IsCached(IO, n)
  BY <1>1, <1>2, <1>4 DEF StoreInv, PendingKept
<1>7. /\ n \in Living /\ Living \subseteq Names /\ IOOk(IO) /\ Single(IO)
      /\ c \in 1 .. MaxColumns
  BY <1>1, <1>2, <1>5, <1>6, LivingFacts, CurrentFacts
<1>8. PICK own : /\ own = Pointer(SlotOf(n)) /\ Sound(own) /\ own # Dangling
                 /\ ColumnsAt(own) = c
  <2>1. TypeOK
    BY <1>3, TypeInvTypes
  <2> QED
    BY <1>1, <1>6, <2>1, SlotOfFacts DEF ColumnsOf
<1>9. PagesOf(IO, n, c) = {}
  BY <1>6 DEF PagesOf, Layout, IO
<1>10. Paged(IO, IO, n, c, {}, own)
  BY <1>5, <1>6, <1>7, <1>8, <1>9, PagedRead DEF Separate
<1>11. HaveKeys({}) /\ Wide({}, c) /\ {} \subseteq Row /\ View({}, c) = {}
  BY DEF HaveKeys, Wide, View
<1>12. /\ StoreInv' /\ Living' = Living /\ OthersShown(n)
       /\ Shown(n)' = [columns |-> c, rows |-> View({}, c)]
  BY <1>1, <1>2, <1>3, <1>4, <1>5, <1>6, <1>8, <1>10, <1>11, EndStep
<1>13. Refused
  BY DEF Refused
<1>14. Refines
  BY ONLY <1>1, <1>7, <1>11, <1>12, <1>13, RowsLost
<1> QED
  BY <1>12, <1>14

\* The last row is written: the table has its new columns, and is shown as it
\* was.
LEMMA StoreFinish ==
    ASSUME Separate, StoreInv, Finish
    PROVE  StoreInv' /\ Refines
<1>1. PICK n, c : n = pending.name /\ c = pending.columns
  OBVIOUS
<1>2. /\ up /\ up' = up /\ pending # Idle /\ pending.rows = <<>> /\ count' = count
      /\ entries' = entries /\ files' = files /\ pending' = Idle
      /\ slots' = IF pending.kind = "rewrite" THEN slots ELSE SlotsWithColumns(n, c)
      /\ catalog' = catalog \/ (pending.kind = "add" /\ catalog' = SavedCatalog(slots'))
  BY <1>1 DEF Finish
<1>3. TypeInv' /\ pending \in Unfinished
  <2>1. TypeInv'
    BY TypeFinish DEF StoreInv
  <2> QED
    BY <1>2, <2>1 DEF StoreInv, TypeInv, PendingOK
<1>4. n \in Names /\ c \in 1 .. MaxColumns /\ Exists(n)
  <2>1. pending.name \in Names /\ pending.columns \in 1 .. MaxColumns
    BY <1>3, UnfinishedFacts
  <2>2. Exists(pending.name)
    BY <1>2 DEF StoreInv, PendingKept
  <2> QED
    BY <1>1, <2>1, <2>2
<1>5. /\ Living' = Living /\ ColumnsOf(n)' = c
      /\ \A m \in Living \ {n} : ColumnsOf(m)' = ColumnsOf(m)
      /\ NamedOnce(slots, count)' /\ NamedOnce(catalog, Len(catalog))'
      /\ \A i \in 1 .. MaxTables :
            \/ slots'[i] = slots[i]
            \/ i \in 1 .. count /\ slots[i].name = n /\ slots'[i].columns = c
  <2>1. CASE pending.kind = "rewrite"
    <3>1. slots' = slots /\ catalog' = catalog
      BY <1>2, <2>1
    <3>2. \A m : ColumnsOf(m)' = ColumnsOf(m)
      BY <1>2, <3>1 DEF ColumnsOf, SlotOf, SlotsOf
    <3>3. ColumnsOf(n) = c
      BY <1>1, <1>2, <2>1 DEF StoreInv, PendingKept
    <3>4. Living' = Living
      BY <1>2, <3>1 DEF Living
    <3> QED
      BY <1>2, <3>1, <3>2, <3>3, <3>4 DEF StoreInv
  <2>2. CASE pending.kind # "rewrite"
    <3>1. /\ Living' = Living /\ ColumnsOf(n)' = c
          /\ \A m : Exists(m)' <=> Exists(m)
          /\ \A m \in Living \ {n} : ColumnsOf(m)' = ColumnsOf(m)
          /\ NamedOnce(slots, count)' /\ NamedOnce(catalog, Len(catalog))'
          /\ \A i \in 1 .. MaxTables :
                IF i \in 1 .. count /\ slots[i].name = n
                THEN slots'[i] = [slots[i] EXCEPT !.columns = c]
                ELSE slots'[i] = slots[i]
      BY <1>2, <1>4, <2>2, ColumnsSet DEF StoreInv
    <3>2. \A i \in 1 .. count : slots[i] \in Table
      BY DatabaseAssumption DEF StoreInv, TypeInv, TablesOK
    <3>3. \A t \in Table : [t EXCEPT !.columns = c].columns = c
      BY DEF Table
    <3> QED
      BY <3>1, <3>2, <3>3
  <2> QED
    BY <2>1, <2>2
<1>6. \A m \in Living : Current(m)' = Current(m) /\ Remaining(m)' = {} /\ Remaining(m) = {}
  <2>1. \A m : Current(m)' = ColumnsOf(m)' /\ Remaining(m)' = {}
    BY <1>2 DEF Current, Remaining
  <2>2. Current(n) = c /\ \A m \in Living \ {n} : Current(m) = ColumnsOf(m)
    BY <1>1, <1>2 DEF Current
  <2>3. \A m : Remaining(m) = {}
    BY <1>2, NothingLeft DEF Remaining
  <2> QED
    BY <1>5, <2>1, <2>2, <2>3
<1>7. IO' = IO /\ Living \subseteq Names /\ IOOk(IO) /\ Single(IO)
  BY <1>2, LivingFacts DEF IO, StoreInv, TypeInv
<1>8. \A m \in Living : Pages(m)' = Pages(m)
  BY <1>6, <1>7 DEF Pages
<1>9. \A m \in Living : Shown(m)' = Shown(m)
  BY <1>2, <1>6, <1>7, <1>8, ViewIsShown, ViewIsShownNext DEF ViewFact
<1>10. \A h \in Held(IO) : h.name \in Living
  <2>1. \A h \in Held(IO) : h.name \in Names /\ IsCached(IO, h.name)
    BY <1>7, HeldFacts, HeldLookups
  <2> QED
    BY <2>1 DEF StoreInv, Absent
<1>11. Absent'
  BY <1>2, <1>5, <1>7 DEF StoreInv, Absent
<1>12. RowsKept'
  <2>1. \A h \in Held(IO) : HaveKeys(h.page) /\ Wide(h.page, Current(h.name)')
    BY <1>6, <1>10 DEF StoreInv, RowsKept
  <2>2. \A m \in Names : files'[m] \in RowSets /\ HaveKeys(files'[m]) /\ Unmixed(files'[m])
    BY <1>2 DEF StoreInv, RowsKept
  <2> QED
    BY <1>7, <2>1, <2>2 DEF RowsKept
<1>13. Described'
  <2> SUFFICES ASSUME OneName, NEW h \in Held(IO)
               PROVE  h.table # Dangling /\ ColumnsAt(h.table)' = Current(h.name)'
    BY <1>7 DEF Described
  <2>1. h.table # Dangling /\ ColumnsAt(h.table) = Current(h.name)
    BY DEF StoreInv, Described
  <2>2. h.table \in PointerType /\ Sound(h.table)
    BY <1>7, <2>1, HeldFacts
  <2>3. h.name = n /\ Current(n) = c
    BY <1>1, <1>2, <1>4, <1>7, <1>10 DEF OneName, Current
  <2>4. ColumnsAt(h.table)' = ColumnsAt(h.table) \/ ColumnsAt(h.table)' = c
    <3>1. CASE h.table.slot = 0
      BY <3>1 DEF ColumnsAt
    <3>2. CASE h.table.slot # 0
      <4>1. h.table.slot \in 1 .. MaxTables
        BY <2>2, <3>2, DatabaseAssumption DEF PointerType
      <4> QED
        BY <1>5, <3>2, <4>1 DEF ColumnsAt
    <3> QED
      BY <3>1, <3>2
  <2> QED
    BY <1>6, <1>10, <2>1, <2>3, <2>4
<1>14. StoreInv'
  BY <1>2, <1>3, <1>5, <1>7, <1>11, <1>12, <1>13, IdleKept DEF StoreInv
<1>15. Refines
  BY <1>5, <1>9 DEF Refines
<1> QED
  BY <1>14, <1>15

-----------------------------------------------------------------------------
(* Statements that drop their table and add it again: with one name there   *)
(* is one table, and its slot stays.                                        *)

LEMMA OneTable ==
    ASSUME StoreInv, OneName, NEW n \in Names, Exists(n), DropAndAddAgain(n)
    PROVE  /\ SetIO(Removed(IO, n)) /\ slots' = slots
           /\ up' = up /\ count' = count /\ catalog' = catalog
<1>1. TypeInv /\ TypeOK /\ NamedOnce(slots, count) /\ \A m \in Names : m = n
  BY TypeInvTypes DEF StoreInv, OneName
<1>2. /\ SlotOf(n) \in 1 .. count /\ SlotOf(n) \in 1 .. MaxTables
      /\ count \in 0 .. MaxTables /\ count # 0
  BY <1>1, TypedTable
<1>3. MaxTables \in Nat /\ slots \in [1 .. MaxTables -> Table \cup {NoTable}]
      /\ \A i \in 1 .. count : slots[i] \in Table
  BY <1>1, DatabaseAssumption DEF TypeInv, TablesOK
<1>4. \A i \in 1 .. count : slots[i].name = n
  BY <1>1, <1>3, TableFacts
<1>5. SlotOf(n) = count
  <2>1. count \in 1 .. count
    BY <1>2
  <2> QED
    BY <1>1, <1>2, <1>4, <2>1 DEF NamedOnce
<1>6. SlotsWithout(n) = slots
  BY <1>2, <1>3, <1>5 DEF SlotsWithout
<1>7. [slots EXCEPT ![count] = slots[SlotOf(n)]] = slots
  BY <1>2, <1>3, <1>5
<1> QED
  BY <1>6, <1>7 DEF DropAndAddAgain

LEMMA StoreDeleteAll ==
    ASSUME Separate, StoreInv, NEW n \in Names, DeleteAll(n)
    PROVE  StoreInv' /\ Refines
<1>1. /\ up /\ pending = Idle /\ pending' = Idle /\ Exists(n) /\ DropAndAddAgain(n)
      /\ "delete all" \in Statements
  BY DEF DeleteAll, Typed
<1>2. OneName
  BY <1>1 DEF Separate
<1>3. /\ SetIO(Removed(IO, n)) /\ slots' = slots
      /\ up' = up /\ count' = count /\ catalog' = catalog
  BY <1>1, <1>2, OneTable
<1>4. TypeInv'
  BY TypeDeleteAll DEF StoreInv
<1>5. /\ StoreInv' /\ Living' = Living /\ OthersShown(n)
      /\ Shown(n)' = [columns |-> ColumnsOf(n), rows |-> {}]
  BY <1>1, <1>3, <1>4, IdleKept, RemoveStep
<1>6. /\ n \in Living /\ Living \subseteq Names
      /\ Shown(n) = [columns |-> ColumnsOf(n), rows |-> View(Pages(n), ColumnsOf(n))]
  BY <1>1, TypedOn
<1>7. Refines
  BY ONLY <1>5, <1>6, RowsChanged
<1> QED
  BY <1>5, <1>7

\* A table is removed to be written again with the rows in memory.
LEMMA RewriteStep ==
    ASSUME StoreInv, TypeInv', up, pending = Idle, OneName, NEW n \in Names, Exists(n),
           DropAndAddAgain(n), NEW rows, WriteBack(n, rows),
           \A i \in 1 .. Len(rows) : rows[i][1] \in Keys /\ Len(rows[i]) >= ColumnsOf(n)
    PROVE  /\ StoreInv' /\ Living' = Living /\ OthersShown(n)
           /\ Shown(n)' = [columns |-> ColumnsOf(n), rows |-> View(FirstByKey(rows), ColumnsOf(n))]
<1>1. /\ SetIO(Removed(IO, n)) /\ slots' = slots
      /\ up' = up /\ count' = count /\ catalog' = catalog
  BY OneTable
<1>2. /\ pending'.name = n /\ pending'.columns = ColumnsOf(n) /\ pending'.rows = rows
      /\ pending'.kind = "rewrite" /\ pending'.table = Pointer(SlotOf(n))
      /\ pending'.started = FALSE
  BY DEF WriteBack, ColumnsOf
<1>3. pending' # Idle
  BY <1>2 DEF Idle
<1>4. SlotOf(n)' = SlotOf(n) /\ Exists(n)' /\ ColumnsOf(n)' = ColumnsOf(n)
  BY <1>1 DEF SlotOf, SlotsOf, Exists, ColumnsOf
<1>5. files'[n] = {} /\ ~IsCached(IO', n)
  <2>1. /\ IOOk(Removed(IO, n)) /\ Removed(IO, n).files[n] = {} /\ ~IsCached(Removed(IO, n), n)
    BY RemovedOthers DEF StoreInv, TypeInv
  <2>2. IO' = Removed(IO, n) /\ files' = Removed(IO, n).files
    BY <1>1, <2>1, NewIO
  <2> QED
    BY <2>1, <2>2
<1>6. PendingKept'
  BY <1>2, <1>4, <1>5 DEF PendingKept
<1> QED
  BY <1>1, <1>2, <1>3, <1>6, RemoveStep

LEMMA StoreDelete ==
    ASSUME Separate, StoreInv, NEW n \in Names, NEW key \in Keys, Delete(n, key)
    PROVE  StoreInv' /\ Refines
<1> DEFINE c == ColumnsOf(n)
           page == Pages(n)
           kept == {r \in page : r[1] # key}
           s == InKeyOrder(kept)
<1>1. /\ up /\ pending = Idle /\ Exists(n) /\ DropAndAddAgain(n)
      /\ WriteBack(n, KeptByDelete(n, key)) /\ "delete" \in Statements
  BY DEF Delete, Typed
<1>2. OneName
  BY <1>1 DEF Separate
<1>3. /\ n \in Living /\ Living \subseteq Names
      /\ c \in 1 .. MaxColumns
      /\ page = PagesOf(IO, n, c)
      /\ page \in RowSets /\ page \subseteq Row /\ HaveKeys(page) /\ Wide(page, c)
      /\ Shown(n) = [columns |-> c, rows |-> View(page, c)]
  BY <1>1, TypedOn
<1>4. WriteBack(n, s)
  BY <1>1, <1>3 DEF KeptByDelete, ColumnsOf
<1>5. kept \in RowSets
  BY <1>3, SmallRowSets
<1>6. /\ s \in Seq(Row) /\ {s[i] : i \in 1 .. Len(s)} = kept
      /\ DOMAIN s = 1 .. Len(s) /\ Len(s) \in Nat
      /\ \A i \in 1 .. Len(s) : s[i] \in kept
      /\ \A i, j \in 1 .. Len(s) : s[i][1] = s[j][1] => i = j
      /\ \A i, j \in 1 .. Len(s) : i < j => Precedes(s[i], s[j])
      /\ s = <<>> <=> kept = {}
  BY <1>5, OrderedKeys
<1>7. TypeInv'
  BY TypeDelete DEF StoreInv
<1> HIDE DEF c, page, s
<1>8. /\ StoreInv' /\ Living' = Living /\ OthersShown(n)
      /\ Shown(n)' = [columns |-> c, rows |-> View(FirstByKey(s), c)]
  <2>1. \A i \in 1 .. Len(s) : s[i][1] \in Keys /\ Len(s[i]) >= c
    BY <1>3, <1>6 DEF HaveKeys, Wide
  <2> QED
    BY <1>1, <1>2, <1>4, <1>7, <2>1, RewriteStep DEF c
<1>9. FirstByKey(s) = kept
  BY <1>6, AllByKey
<1>10. View(kept, c) = {r \in View(page, c) : r[1] # key}
  <2>1. \A r \in page : Printed(r, c)[1] = r[1]
    BY <1>3, PrintedRow DEF Wide
  <2> QED
    BY <2>1 DEF View
<1>11. Shown(n)' = [columns |-> c, rows |-> {r \in View(page, c) : r[1] # key}]
  BY <1>8, <1>9, <1>10
<1>12. Refines
  BY ONLY <1>3, <1>8, <1>11, key \in Keys, RowsChanged
<1> QED
  BY <1>8, <1>12

LEMMA StoreRefusedUpdate ==
    ASSUME Separate, StoreInv, NEW n \in Names, NEW key \in Keys, RefusedUpdate(n, key)
    PROVE  StoreInv' /\ Refines
<1> DEFINE c == ColumnsOf(n)
           page == Pages(n)
           s == InKeyOrder(page)
           k == SelectInSeq(s, LAMBDA r : r[1] = key)
           rows == IF key \in KeysOf(Range(s)) THEN SubSeq(s, 1, k - 1) ELSE s
           kept == {r \in page : key \in KeysOf(page) => r[1] < key}
<1>1. /\ up /\ pending = Idle /\ Exists(n) /\ DropAndAddAgain(n)
      /\ "refused update" \in Statements
  BY DEF RefusedUpdate, Typed
<1>2. OneName
  BY <1>1 DEF Separate
<1>3. /\ n \in Living /\ Living \subseteq Names
      /\ c \in 1 .. MaxColumns
      /\ page = PagesOf(IO, n, c)
      /\ page \in RowSets /\ page \subseteq Row /\ HaveKeys(page) /\ Wide(page, c)
      /\ Shown(n) = [columns |-> c, rows |-> View(page, c)]
  BY <1>1, TypedOn
<1>4. WriteBack(n, rows)
  BY <1>3 DEF RefusedUpdate, RowsInOrder, ColumnsOf
<1>5. /\ s \in Seq(Row) /\ {s[i] : i \in 1 .. Len(s)} = page
      /\ DOMAIN s = 1 .. Len(s) /\ Len(s) \in Nat
      /\ \A i \in 1 .. Len(s) : s[i] \in page
      /\ \A i, j \in 1 .. Len(s) : s[i][1] = s[j][1] => i = j
      /\ \A i, j \in 1 .. Len(s) : i < j => Precedes(s[i], s[j])
      /\ s = <<>> <=> page = {}
  BY <1>3, OrderedKeys
<1>6. TypeInv'
  BY TypeRefusedUpdate DEF StoreInv
<1>7. Range(s) = page
  BY <1>5 DEF Range
<1>8. key \in KeysOf(page) =>
         k \in 1 .. Len(s) /\ s[k][1] = key /\ \A i \in 1 .. k - 1 : s[i][1] # key
  <2> SUFFICES ASSUME key \in KeysOf(page)
               PROVE  k \in 1 .. Len(s) /\ s[k][1] = key /\ \A i \in 1 .. k - 1 : s[i][1] # key
    OBVIOUS
  <2>1. \E i \in 1 .. Len(s) : s[i][1] = key
    BY <1>5 DEF KeysOf
  <2> HIDE DEF s
  <2> QED
    BY <1>5, <2>1, SelectInSeqFacts
<1> HIDE DEF c, page, s, k
<1>9. rows \in Seq(Row) /\ FirstByKey(rows) = kept /\ \A i \in 1 .. Len(rows) : rows[i] \in page
  <2>1. CASE key \notin KeysOf(page)
    <3>1. rows = s /\ kept = page
      BY <1>7, <2>1
    <3>2. FirstByKey(s) = page
      BY <1>5, AllByKey
    <3> QED
      BY <1>5, <3>1, <3>2
  <2>2. CASE key \in KeysOf(page)
    <3>1. rows = SubSeq(s, 1, k - 1) /\ kept = {r \in page : r[1] < key}
      BY <1>7, <2>2
    <3>2. /\ rows \in Seq(Row) /\ Len(rows) = k - 1
          /\ \A i \in 1 .. k - 1 : rows[i] = s[i] /\ i \in 1 .. Len(s)
      BY <1>5, <1>8, <2>2, <3>1
    <3> HIDE DEF rows
    <3>3. FirstByKey(rows) = {rows[i] : i \in 1 .. k - 1}
      <4>1. \A i, j \in 1 .. Len(rows) : rows[i][1] = rows[j][1] => i = j
        BY <1>5, <3>2
      <4> QED
        BY <3>2, <4>1, AllByKey
    <3>4. \A i \in 1 .. Len(s) : s[i][1] \in Keys /\ s[i][1] \in Int /\ key \in Int
      BY <1>3, <1>5, DatabaseAssumption DEF HaveKeys
    <3>5. \A i \in 1 .. Len(s) : i \in 1 .. k - 1 <=> s[i][1] < key
      <4> TAKE i \in 1 .. Len(s)
      <4>1. k \in 1 .. Len(s) /\ s[k][1] = key
        BY <1>8, <2>2
      <4>2. CASE i < k
        <5>1. s[i][1] < key
          BY <1>5, <3>4, <4>1, <4>2 DEF Precedes
        <5> QED
          BY <4>1, <4>2, <5>1
      <4>3. CASE i = k
        BY <3>4, <4>1, <4>3
      <4>4. CASE k < i
        <5>1. key < s[i][1]
          BY <1>5, <3>4, <4>1, <4>4 DEF Precedes
        <5> QED
          BY <3>4, <4>1, <4>4, <5>1
      <4> QED
        BY <4>1, <4>2, <4>3, <4>4
    <3>6. \A i \in 1 .. k - 1 : rows[i] \in kept
      BY <1>5, <3>1, <3>2, <3>5
    <3>7. \A r \in kept : \E i \in 1 .. k - 1 : rows[i] = r
      <4> TAKE r \in kept
      <4>1. PICK i \in 1 .. Len(s) : s[i] = r
        BY <1>5, <3>1
      <4> QED
        BY <3>1, <3>2, <3>5, <4>1
    <3> HIDE DEF kept
    <3>8. FirstByKey(rows) = kept
      BY <3>3, <3>6, <3>7
    <3>9. \A i \in 1 .. Len(rows) : rows[i] \in page
      BY <1>5, <3>2
    <3> QED
      BY <3>2, <3>8, <3>9
  <2> HIDE DEF rows, kept
  <2> QED
    BY <2>1, <2>2
<1> HIDE DEF rows, kept
<1>10. /\ StoreInv' /\ Living' = Living /\ OthersShown(n)
       /\ Shown(n)' = [columns |-> c, rows |-> View(FirstByKey(rows), c)]
  <2>1. \A i \in 1 .. Len(rows) : rows[i][1] \in Keys /\ Len(rows[i]) >= c
    BY <1>3, <1>9 DEF HaveKeys, Wide
  <2> QED
    BY <1>1, <1>2, <1>4, <1>6, <2>1, RewriteStep DEF c
<1>11. View(kept, c) = {r \in View(page, c) : key \in KeysOf(View(page, c)) => r[1] < key}
  <2>1. \A r \in page : Printed(r, c)[1] = r[1]
    BY <1>3, PrintedRow DEF Wide
  <2>2. KeysOf(View(page, c)) = KeysOf(page)
    BY <1>3, ViewKeys
  <2>3. View(kept, c) = {r \in View(page, c) : key \in KeysOf(page) => r[1] < key}
    BY <2>1 DEF View, kept
  <2> QED
    BY <2>2, <2>3
<1>12. Shown(n)' = [columns |-> c,
          rows |-> {r \in View(page, c) : key \in KeysOf(View(page, c)) => r[1] < key}]
  BY <1>9, <1>10, <1>11
<1>13. Refines
  BY ONLY <1>3, <1>10, <1>12, key \in Keys, RowsChanged
<1> QED
  BY <1>10, <1>13

\* A row with its value changed is shown with it, unless the value is null.
LEMMA ChangedRow ==
    ASSUME NEW r \in Row, NEW c \in 1 .. MaxColumns, Len(r) >= c, NEW column \in 1 .. c,
           NEW value \in Keys \cup Values, column = 1 => value \in Keys, NEW key \in Keys
    PROVE  LET t == Changed(r, key, column, value)
           IN  /\ t \in Row /\ Len(t) = Len(r)
               /\ t[1] = IF r[1] = key /\ column = 1 THEN value ELSE r[1]
               /\ Printed(t, c) = ShownChanged(Printed(r, c), key, column, value)
<1> DEFINE t == Changed(r, key, column, value)
           new == Set(r[column], value)
           e == [r EXCEPT ![column] = new]
           s == Printed(r, c)
           shown == IF s[column] = Null THEN Null ELSE value
<1>1. c \in Nat /\ column \in Nat /\ MaxColumns \in Nat
  BY DatabaseAssumption
<1>2. r \in [1 .. Len(r) -> Value] /\ Len(r) \in Nat /\ r \in Seq(Value) /\ r[1] \in Keys \cup {Garbled}
  BY RowFacts
<1>3. column \in 1 .. Len(r) /\ r[column] \in Value
  BY <1>1, <1>2
<1>4. new \in Value /\ (r[1] = key /\ column = 1 => new = value)
  <2>1. new \in {r[column], value}
    BY DEF Set
  <2>2. value \in Value
    BY DEF Value
  <2>3. r[1] = key => r[1] \notin {Null, Unmarked}
    BY DatabaseAssumption
  <2> QED
    BY <1>3, <2>1, <2>2, <2>3 DEF Set
<1>5. Seen(new) = shown
  <2>1. s = [i \in 1 .. c |-> Seen(r[i])]
    BY PrintedRow
  <2>2. s[column] = Seen(r[column])
    BY <2>1
  <2>3. Seen(value) = value
    BY SeenFacts
  <2>4. Seen(r[column]) = Null <=> r[column] \in {Null, Unmarked}
    BY DatabaseAssumption DEF Seen
  <2>5. Seen(Null) = Null /\ Seen(Unmarked) = Null
    BY SeenFacts DEF Seen
  <2> QED
    BY <2>2, <2>3, <2>4, <2>5 DEF Set
<1> HIDE DEF new, shown
<1>6. /\ Len(e) = Len(r) /\ e \in [1 .. Len(r) -> Value]
      /\ \A i \in 1 .. Len(r) : e[i] = IF i = column THEN new ELSE r[i]
  <2>1. DOMAIN e = 1 .. Len(r)
    BY <1>2
  <2>2. e \in [1 .. Len(r) -> Value]
    BY <1>2, <1>4
  <2>3. e \in Seq(Value)
    BY <1>2, <2>2
  <2>4. Len(e) = Len(r)
    BY ONLY <1>2, <2>1, <2>3
  <2> QED
    BY <1>2, <2>2, <2>4
<1>7. e \in Row /\ e = [r EXCEPT ![column] = Set(@, value)]
  BY <1>1, UpdatedRow DEF new
<1>8. s = [i \in 1 .. c |-> Seen(r[i])] /\ s[1] = r[1]
  BY PrintedRow
<1>9. Printed(e, c) = [i \in 1 .. c |-> Seen(e[i])]
  BY <1>6, <1>7, PrintedRow
<1> HIDE DEF e, s
<1>10. CASE r[1] = key
  <2>1. t = e /\ ShownChanged(s, key, column, value) = [s EXCEPT ![column] = shown]
    BY <1>7, <1>8, <1>10 DEF Changed, ShownChanged, shown
  <2>2. \A i \in 1 .. c : Seen(e[i]) = IF i = column THEN shown ELSE s[i]
    <3>1. \A i \in 1 .. c : i \in 1 .. Len(r) /\ s[i] = Seen(r[i])
      BY <1>1, <1>2, <1>8
    <3> QED
      BY <1>5, <1>6, <3>1
  <2>3. [i \in 1 .. c |-> Seen(e[i])] = [s EXCEPT ![column] = shown]
    <3>1. DOMAIN s = 1 .. c
      BY <1>8
    <3>2. [s EXCEPT ![column] = shown] = [i \in 1 .. c |-> IF i = column THEN shown ELSE s[i]]
      BY <3>1
    <3> QED
      BY <2>2, <3>2
  <2>4. e[1] = IF column = 1 THEN value ELSE r[1]
    <3>1. 1 \in 1 .. Len(r)
      BY <1>1, <1>2
    <3> QED
      BY <1>4, <1>6, <1>10, <3>1
  <2>5. Printed(e, c) = ShownChanged(s, key, column, value)
    BY <1>9, <2>1, <2>3
  <2> HIDE DEF t
  <2>6. /\ t \in Row /\ Len(t) = Len(r) /\ t[1] = (IF column = 1 THEN value ELSE r[1])
        /\ Printed(t, c) = ShownChanged(s, key, column, value)
    BY <1>6, <1>7, <2>1, <2>4, <2>5
  <2> QED
    BY <1>10, <2>6 DEF s, t
<1>11. CASE r[1] # key
  BY <1>8, <1>11 DEF Changed, ShownChanged, s
<1> QED
  BY <1>10, <1>11

\* An update changes the rows of its table, and shows what it will write.
UpdatedByRows(n, key, column, value) ==
    LET c == ColumnsOf(n)
        s == InKeyOrder(Pages(n))
        rows == [i \in 1 .. Len(s) |-> Changed(s[i], key, column, value)]
    IN  /\ up /\ pending = Idle /\ Exists(n) /\ column \in 1 .. c
        /\ rows \in Seq(Row) /\ Len(rows) = Len(s)
        /\ \A i \in 1 .. Len(s) : rows[i][1] =
              IF s[i][1] = key /\ column = 1 THEN value ELSE s[i][1]
        /\ \A r \in Pages(n) : Printed(Changed(r, key, column, value), c) =
                                  ShownChanged(Printed(r, c), key, column, value)
        /\ StoreInv' /\ Living' = Living /\ OthersShown(n)
        /\ Shown(n)' = [columns |-> c, rows |-> View(FirstByKey(rows), c)]

\* The rows of a table are changed, and the table is written again.
LEMMA UpdateStep ==
    ASSUME Separate, StoreInv, NEW n \in Names, NEW key \in Keys,
           NEW column \in Nat, NEW value \in Keys \cup Values, column = 1 => value \in Keys,
           Update(n, key, column, value)
    PROVE  UpdatedByRows(n, key, column, value)
<1> DEFINE c == ColumnsOf(n)
           page == Pages(n)
           s == InKeyOrder(page)
           rows == [i \in 1 .. Len(s) |-> Changed(s[i], key, column, value)]
<1>1. /\ up /\ pending = Idle /\ Exists(n) /\ DropAndAddAgain(n) /\ "update" \in Statements
      /\ column \in 1 .. c
  BY DEF Update, Typed, ColumnsOf
<1>2. OneName
  BY <1>1 DEF Separate
<1>3. /\ c \in 1 .. MaxColumns
      /\ page = PagesOf(IO, n, c)
      /\ page \in RowSets /\ page \subseteq Row /\ HaveKeys(page) /\ Wide(page, c)
  BY <1>1, TypedOn
<1>4. /\ s \in Seq(Row) /\ {s[i] : i \in 1 .. Len(s)} = page
      /\ DOMAIN s = 1 .. Len(s) /\ Len(s) \in Nat
      /\ \A i \in 1 .. Len(s) : s[i] \in page
      /\ \A i, j \in 1 .. Len(s) : s[i][1] = s[j][1] => i = j
      /\ \A i, j \in 1 .. Len(s) : i < j => Precedes(s[i], s[j])
      /\ s = <<>> <=> page = {}
  BY <1>3, OrderedKeys
<1>5. WriteBack(n, rows)
  BY <1>3, <1>4 DEF Update, RowsInOrder, ColumnsOf, Changed
<1>6. TypeInv'
  BY TypeUpdate DEF StoreInv
<1> HIDE DEF c, page, s
<1>7. \A r \in page : LET t == Changed(r, key, column, value)
                      IN  /\ t \in Row /\ Len(t) = Len(r)
                          /\ t[1] = IF r[1] = key /\ column = 1 THEN value ELSE r[1]
                          /\ Printed(t, c) = ShownChanged(Printed(r, c), key, column, value)
  <2> SUFFICES ASSUME NEW r \in page
               PROVE  LET t == Changed(r, key, column, value)
                      IN  /\ t \in Row /\ Len(t) = Len(r)
                          /\ t[1] = IF r[1] = key /\ column = 1 THEN value ELSE r[1]
                          /\ Printed(t, c) = ShownChanged(Printed(r, c), key, column, value)
    OBVIOUS
  <2>1. r \in Row /\ Len(r) >= c
    BY <1>3 DEF Wide
  <2> QED
    BY ONLY <1>1, <1>3, <2>1, value \in Keys \cup Values, column = 1 => value \in Keys, ChangedRow
<1>8. \A i \in 1 .. Len(s) :
         /\ rows[i] = Changed(s[i], key, column, value)
         /\ rows[i] \in Row /\ Len(rows[i]) = Len(s[i])
         /\ rows[i][1] = IF s[i][1] = key /\ column = 1 THEN value ELSE s[i][1]
  BY <1>4, <1>7
<1>9. rows \in Seq(Row) /\ Len(rows) = Len(s)
  <2>1. rows \in [1 .. Len(s) -> Row] /\ DOMAIN rows = 1 .. Len(s)
    BY <1>8
  <2> QED
    BY <1>4, <2>1
<1> HIDE DEF rows
<1>10. \A i \in 1 .. Len(rows) : rows[i][1] \in Keys /\ Len(rows[i]) >= c
  BY <1>3, <1>4, <1>8, <1>9 DEF HaveKeys, Wide
<1>11. /\ StoreInv' /\ Living' = Living /\ OthersShown(n)
       /\ Shown(n)' = [columns |-> c, rows |-> View(FirstByKey(rows), c)]
  BY <1>1, <1>2, <1>5, <1>6, <1>10, RewriteStep DEF c
<1>12. \A r \in page : Printed(Changed(r, key, column, value), c) =
                         ShownChanged(Printed(r, c), key, column, value)
  BY <1>7
<1> QED
  BY <1>1, <1>8, <1>9, <1>11, <1>12 DEF UpdatedByRows, c, page, s, rows

LEMMA StoreUpdate ==
    ASSUME Separate, StoreInv, NEW n \in Names, NEW key \in Keys,
           NEW column \in 2 .. MaxColumns, NEW value \in Values, Update(n, key, column, value)
    PROVE  StoreInv' /\ Refines
<1> DEFINE c == ColumnsOf(n)
           page == Pages(n)
           s == InKeyOrder(page)
           rows == [i \in 1 .. Len(s) |-> Changed(s[i], key, column, value)]
<1>0. column \in Nat /\ column # 1
  BY DatabaseAssumption
<1>1. /\ up /\ pending = Idle /\ Exists(n) /\ column \in 1 .. c
      /\ rows \in Seq(Row) /\ Len(rows) = Len(s)
      /\ \A i \in 1 .. Len(s) : rows[i][1] =
            IF s[i][1] = key /\ column = 1 THEN value ELSE s[i][1]
      /\ \A r \in page : Printed(Changed(r, key, column, value), c) =
                            ShownChanged(Printed(r, c), key, column, value)
      /\ StoreInv' /\ Living' = Living /\ OthersShown(n)
      /\ Shown(n)' = [columns |-> c, rows |-> View(FirstByKey(rows), c)]
  <2>1. value \in Keys \cup Values /\ (column = 1 => value \in Keys) /\ column \in Nat
    BY <1>0
  <2>2. UpdatedByRows(n, key, column, value)
    BY ONLY <2>1, Separate, StoreInv, n \in Names, key \in Keys,
       Update(n, key, column, value), UpdateStep
  <2> QED
    BY ONLY <2>2 DEF UpdatedByRows
<1>2. /\ n \in Living /\ Living \subseteq Names /\ c \in 1 .. MaxColumns /\ page \in RowSets
      /\ Shown(n) = [columns |-> c, rows |-> View(page, c)]
  BY <1>1, TypedOn
<1>3. /\ s \in Seq(Row) /\ {s[i] : i \in 1 .. Len(s)} = page
      /\ DOMAIN s = 1 .. Len(s) /\ Len(s) \in Nat
      /\ \A i \in 1 .. Len(s) : s[i] \in page
      /\ \A i, j \in 1 .. Len(s) : s[i][1] = s[j][1] => i = j
      /\ \A i, j \in 1 .. Len(s) : i < j => Precedes(s[i], s[j])
      /\ s = <<>> <=> page = {}
  BY <1>2, OrderedKeys
<1>4. \A i \in 1 .. Len(s) : rows[i] = Changed(s[i], key, column, value)
  BY <1>3
<1> HIDE DEF c, page, s, rows
<1>5. FirstByKey(rows) = {rows[i] : i \in 1 .. Len(rows)}
  <2>1. \A i \in 1 .. Len(rows) : rows[i][1] = s[i][1]
    BY <1>0, <1>1
  <2>2. \A i, j \in 1 .. Len(rows) : rows[i][1] = rows[j][1] => i = j
    BY <1>1, <1>3, <2>1
  <2> QED
    BY <1>1, <2>2, AllByKey
<1>6. View(FirstByKey(rows), c) = {ShownChanged(r, key, column, value) : r \in View(page, c)}
  <2>1. FirstByKey(rows) = {Changed(r, key, column, value) : r \in page}
    <3>1. \A r : r \in page <=> \E i \in 1 .. Len(s) : r = s[i]
      BY <1>3
    <3> QED
      BY <1>1, <1>4, <1>5, <3>1
  <2>2. View({Changed(r, key, column, value) : r \in page}, c) =
           {Printed(Changed(r, key, column, value), c) : r \in page}
    BY DEF View
  <2>3. {ShownChanged(r, key, column, value) : r \in View(page, c)} =
           {ShownChanged(Printed(r, c), key, column, value) : r \in page}
    BY DEF View
  <2>4. {Printed(Changed(r, key, column, value), c) : r \in page} =
           {ShownChanged(Printed(r, c), key, column, value) : r \in page}
    BY <1>1
  <2> QED
    BY <2>1, <2>2, <2>3, <2>4
<1>7. column \in 2 .. c
  BY <1>1, <1>2, DatabaseAssumption
<1>8. Shown(n)' = [columns |-> c,
                   rows |-> {ShownChanged(r, key, column, value) : r \in View(page, c)}]
  BY <1>1, <1>6
<1>9. Refines
  BY ONLY <1>1, <1>2, <1>7, <1>8, key \in Keys, value \in Values, RowsUpdated
<1> QED
  BY <1>1, <1>9

WithKey(r, new) == [r EXCEPT ![1] = new]

\* A key is no null, and an update replaces it.
LEMMA KeyReplaced ==
    ASSUME NEW key \in Keys, NEW new
    PROVE  /\ \A r : r[1] = key => Changed(r, key, 1, new) = WithKey(r, new)
           /\ \A r : r[1] = key => ShownChanged(r, key, 1, new) = WithKey(r, new)
<1>1. key \notin {Null, Unmarked}
  BY DatabaseAssumption
<1> QED
  BY <1>1 DEF Changed, ShownChanged, Set, WithKey

\* The definition of Rekeyed with it.
LEMMA RekeyedFacts ==
    ASSUME NEW rows, NEW key, NEW new, NEW result
    PROVE  LET others == {r \in rows : r[1] # key}
               moved  == {WithKey(r, new) : r \in {q \in rows : q[1] = key}}
           IN  Rekeyed(rows, key, new, result) <=>
                  \/ new \notin KeysOf(others) /\ result = others \cup moved
                  \/ /\ new \in KeysOf(others)
                     /\ result = others \/ result = {r \in others : r[1] # new} \cup moved
BY DEF Rekeyed, WithKey

\* Rewriting the rows of a table with the new key leaves what TableStore allows.
LEMMA FirstRekeyed ==
    ASSUME NEW page, NEW s \in Seq(Row), {s[i] : i \in 1 .. Len(s)} = page,
           \A i, j \in 1 .. Len(s) : s[i][1] = s[j][1] => i = j,
           NEW key \in Keys, NEW new, NEW t \in Seq(Row), Len(t) = Len(s),
           \A i \in 1 .. Len(s) : t[i] = Changed(s[i], key, 1, new),
           \A i \in 1 .. Len(s) : t[i][1] = IF s[i][1] = key THEN new ELSE s[i][1]
    PROVE  Rekeyed(page, key, new, FirstByKey(t))
<1> DEFINE others == {r \in page : r[1] # key}
           moved  == {WithKey(r, new) : r \in {q \in page : q[1] = key}}
           N == Len(s)
<1>1. N \in Nat /\ \A r : r \in page <=> \E i \in 1 .. N : r = s[i]
  OBVIOUS
<1>2. \A i \in 1 .. N : s[i][1] # key => t[i] = s[i]
  BY DEF Changed
<1>3. \A r : r \in others <=> \E i \in 1 .. N : r = s[i] /\ s[i][1] # key
  BY <1>1
<1>4. \A r : r \in moved <=> \E i \in 1 .. N : r = t[i] /\ s[i][1] = key
  <2>1. \A i \in 1 .. N : s[i][1] = key => t[i] = WithKey(s[i], new)
    BY KeyReplaced
  <2>2. \A r : r \in moved <=> \E q \in page : q[1] = key /\ r = WithKey(q, new)
    OBVIOUS
  <2> QED
    BY ONLY <1>1, <2>1, <2>2
<1>5. new \in KeysOf(others) <=> \E j \in 1 .. N : s[j][1] = new /\ s[j][1] # key
  BY <1>3 DEF KeysOf
<1>6. \A r : r \in FirstByKey(t) <=> \E i \in 1 .. N : FirstAt(t, i) /\ r = t[i]
  <2>1. \A r : r \in Left(t, {}) <=> \E i \in 1 .. N : FirstAt(t, i) /\ r = t[i] /\ r[1] \notin {}
    BY ONLY t \in Seq(Row), Len(t) = Len(s), LeftRows
  <2> QED
    BY <2>1 DEF Left
<1> HIDE DEF others, moved, N
<1>7. CASE new \notin KeysOf(others)
  <2>1. \A i, j \in 1 .. N : t[i][1] = t[j][1] => i = j
    BY <1>5, <1>7 DEF N
  <2>2. FirstByKey(t) = {t[i] : i \in 1 .. N}
    BY <2>1, AllByKey DEF N
  <2>3. FirstByKey(t) = others \cup moved
    BY <1>2, <1>3, <1>4, <2>2
  <2> QED
    BY <1>7, <2>3, RekeyedFacts DEF others, moved
<1>8. CASE new \in KeysOf(others) /\ \A i \in 1 .. N : s[i][1] # key
  <2>1. FirstByKey(t) = {t[i] : i \in 1 .. N}
    BY <1>8, AllByKey DEF N
  <2>2. FirstByKey(t) = others
    BY <1>2, <1>3, <1>8, <2>1
  <2> QED
    BY <1>8, <2>2, RekeyedFacts DEF others, moved
<1>9. CASE new \in KeysOf(others) /\ \E i \in 1 .. N : s[i][1] = key
  <2>1. PICK j \in 1 .. N : s[j][1] = new /\ s[j][1] # key
    BY <1>5, <1>9
  <2>2. PICK k \in 1 .. N : s[k][1] = key
    BY <1>9
  <2>3. /\ j # k /\ t[k][1] = new /\ t[j][1] = new
        /\ \A i \in 1 .. N : i # k <=> s[i][1] # key
        /\ \A i \in 1 .. N : i # j <=> s[i][1] # new
    BY <2>1, <2>2 DEF N
  <2>4. \A h, i \in 1 .. N : t[h][1] = t[i][1] => \/ h = i
                                                  \/ h = j /\ i = k
                                                  \/ h = k /\ i = j
    BY <2>1, <2>2, <2>3 DEF N
  <2>5. \A i \in 1 .. N : \A h \in 1 .. i - 1 : h \in 1 .. N /\ h < i
    BY <1>1
  <2>6. \A i \in 1 .. N : i # j /\ i # k => FirstAt(t, i)
    BY <1>1, <2>4, <2>5 DEF FirstAt
  <2>7. CASE j < k
    <3>1. FirstAt(t, j)
      BY <1>1, <2>4, <2>5, <2>7 DEF FirstAt
    <3>2. ~FirstAt(t, k)
      <4>1. j \in 1 .. k - 1
        BY <1>1, <2>7
      <4> QED
        BY <2>3, <4>1 DEF FirstAt
    <3>3. \A i \in 1 .. N : FirstAt(t, i) <=> i # k
      BY <2>6, <3>1, <3>2
    <3>4. FirstByKey(t) = others
      <4>1. \A r : r \in FirstByKey(t) <=> \E i \in 1 .. N : r = t[i] /\ i # k
        BY <1>6, <3>3
      <4>2. \A i \in 1 .. N : i # k => t[i] = s[i]
        BY <1>2, <2>3
      <4>3. \A r : r \in others <=> \E i \in 1 .. N : r = s[i] /\ i # k
        BY <1>3, <2>3
      <4>4. \A r : r \in FirstByKey(t) <=> r \in others
        BY <4>1, <4>2, <4>3
      <4> QED
        BY <4>4
    <3> QED
      BY <1>9, <3>4, RekeyedFacts DEF others, moved
  <2>8. CASE k < j
    <3>1. FirstAt(t, k)
      BY <1>1, <2>4, <2>5, <2>8 DEF FirstAt
    <3>2. ~FirstAt(t, j)
      <4>1. k \in 1 .. j - 1
        BY <1>1, <2>8
      <4> QED
        BY <2>3, <4>1 DEF FirstAt
    <3>3. \A i \in 1 .. N : FirstAt(t, i) <=> i # j
      BY <2>6, <3>1, <3>2
    <3>4. \A r : r \in {q \in others : q[1] # new} <=> \E i \in 1 .. N : r = t[i] /\ i # j /\ i # k
      BY <1>2, <1>3, <2>3
    <3>5. \A r : r \in moved <=> r = t[k]
      BY <1>4, <2>3
    <3>6. FirstByKey(t) = {r \in others : r[1] # new} \cup moved
      BY <1>6, <2>3, <3>3, <3>4, <3>5
    <3> QED
      BY <1>9, <3>6, RekeyedFacts DEF others, moved
  <2>9. j < k \/ k < j
    BY <1>1, <2>3
  <2> QED
    BY <2>7, <2>8, <2>9
<1> QED
  BY <1>7, <1>8, <1>9

\* The same is seen of the rows that are shown.
LEMMA ShownRekeyed ==
    ASSUME NEW page \in RowSets, NEW c \in 1 .. MaxColumns, Wide(page, c), NEW key \in Keys, NEW new,
           \A r \in page : Printed(Changed(r, key, 1, new), c) =
                              ShownChanged(Printed(r, c), key, 1, new),
           NEW result, Rekeyed(page, key, new, result)
    PROVE  Rekeyed(View(page, c), key, new, View(result, c))
<1> DEFINE others == {r \in page : r[1] # key}
           moved  == {WithKey(r, new) : r \in {q \in page : q[1] = key}}
           shown == View(page, c)
           otherShown == {r \in shown : r[1] # key}
           movedShown == {WithKey(r, new) : r \in {q \in shown : q[1] = key}}
<1>1. \A r \in page : Printed(r, c)[1] = r[1]
  BY PrintedRow DEF RowSets, Wide
<1>2. View(others, c) = otherShown
  BY <1>1 DEF View
<1>3. KeysOf(others) = KeysOf(otherShown)
  <2>1. \A k : k \in KeysOf(others) <=> \E r \in page : r[1] # key /\ k = r[1]
    BY DEF KeysOf
  <2>2. \A k : k \in KeysOf(otherShown) <=>
            \E r \in page : Printed(r, c)[1] # key /\ k = Printed(r, c)[1]
    BY DEF KeysOf, View
  <2> HIDE DEF others, otherShown
  <2>3. \A k : k \in KeysOf(others) <=> k \in KeysOf(otherShown)
    BY <1>1, <2>1, <2>2
  <2>4. KeysOf(others) = {k \in KeysOf(others) : TRUE} /\ KeysOf(otherShown) = {k \in KeysOf(otherShown) : TRUE}
    OBVIOUS
  <2> QED
    BY <2>3, <2>4
<1>4. View(moved, c) = movedShown
  <2>1. View(moved, c) = {Printed(WithKey(r, new), c) : r \in {q \in page : q[1] = key}}
    BY DEF View
  <2>2. {q \in shown : q[1] = key} = {Printed(r, c) : r \in {q \in page : q[1] = key}}
    BY <1>1 DEF View
  <2>3. movedShown = {WithKey(Printed(r, c), new) : r \in {q \in page : q[1] = key}}
    BY <2>2
  <2>4. \A r \in page : r[1] = key =>
           Printed(WithKey(r, new), c) = WithKey(Printed(r, c), new)
    BY <1>1, KeyReplaced
  <2>5. {Printed(WithKey(r, new), c) : r \in {q \in page : q[1] = key}} =
           {WithKey(Printed(r, c), new) : r \in {q \in page : q[1] = key}}
    BY <2>4
  <2> QED
    BY <2>1, <2>3, <2>5
<1>5. View({r \in others : r[1] # new}, c) = {r \in otherShown : r[1] # new}
  BY <1>1 DEF View
<1>6. \A a, b : View(a \cup b, c) = View(a, c) \cup View(b, c)
  BY DEF View
<1>7. \/ new \notin KeysOf(others) /\ result = others \cup moved
      \/ /\ new \in KeysOf(others)
         /\ result = others \/ result = {r \in others : r[1] # new} \cup moved
  BY RekeyedFacts
<1> HIDE DEF others, moved, otherShown, movedShown
<1>8. \/ new \notin KeysOf(otherShown) /\ View(result, c) = otherShown \cup movedShown
      \/ /\ new \in KeysOf(otherShown)
         /\ \/ View(result, c) = otherShown
            \/ View(result, c) = {r \in otherShown : r[1] # new} \cup movedShown
  BY <1>2, <1>3, <1>4, <1>5, <1>6, <1>7
<1> QED
  BY <1>8, RekeyedFacts DEF otherShown, movedShown

\* The key of a row is updated.
LEMMA StoreUpdateKey ==
    ASSUME Separate, StoreInv, NEW n \in Names, NEW key \in Keys, NEW new \in Keys,
           Update(n, key, 1, new)
    PROVE  StoreInv' /\ Refines
<1> DEFINE c == ColumnsOf(n)
           page == Pages(n)
           s == InKeyOrder(page)
           t == [i \in 1 .. Len(s) |-> Changed(s[i], key, 1, new)]
           result == View(FirstByKey(t), c)
<1>1. /\ up /\ pending = Idle /\ Exists(n) /\ 1 \in 1 .. c
      /\ t \in Seq(Row) /\ Len(t) = Len(s)
      /\ \A i \in 1 .. Len(s) : t[i][1] = IF s[i][1] = key /\ 1 = 1 THEN new ELSE s[i][1]
      /\ \A r \in page : Printed(Changed(r, key, 1, new), c) =
                            ShownChanged(Printed(r, c), key, 1, new)
      /\ StoreInv' /\ Living' = Living /\ OthersShown(n)
      /\ Shown(n)' = [columns |-> c, rows |-> View(FirstByKey(t), c)]
  <2>1. UpdatedByRows(n, key, 1, new)
    BY ONLY Separate, StoreInv, n \in Names, key \in Keys, new \in Keys,
       Update(n, key, 1, new), UpdateStep
  <2> QED
    BY ONLY <2>1 DEF UpdatedByRows
<1>2. /\ n \in Living /\ Living \subseteq Names /\ c \in 1 .. MaxColumns /\ page \in RowSets
      /\ Wide(page, c) /\ Shown(n) = [columns |-> c, rows |-> View(page, c)]
  BY <1>1, TypedOn
<1>3. /\ s \in Seq(Row) /\ {s[i] : i \in 1 .. Len(s)} = page
      /\ DOMAIN s = 1 .. Len(s) /\ Len(s) \in Nat
      /\ \A i \in 1 .. Len(s) : s[i] \in page
      /\ \A i, j \in 1 .. Len(s) : s[i][1] = s[j][1] => i = j
      /\ \A i, j \in 1 .. Len(s) : i < j => Precedes(s[i], s[j])
      /\ s = <<>> <=> page = {}
  BY <1>2, OrderedKeys
<1>4. \A i \in 1 .. Len(s) : t[i] = Changed(s[i], key, 1, new)
  BY <1>3
<1>5. \A i \in 1 .. Len(s) : t[i][1] = IF s[i][1] = key THEN new ELSE s[i][1]
  BY <1>1
<1> HIDE DEF c, page, s, t
<1>6. Rekeyed(page, key, new, FirstByKey(t))
  BY <1>1, <1>3, <1>4, <1>5, FirstRekeyed
<1>7. Rekeyed(View(page, c), key, new, result)
  BY ONLY <1>1, <1>2, <1>6, ShownRekeyed
<1>8. Shown(n)' = [columns |-> c, rows |-> result]
  BY <1>1
<1> HIDE DEF result
<1>9. Refines
  BY ONLY <1>1, <1>2, <1>7, <1>8, key \in Keys, new \in Keys, KeyChanged
<1> QED
  BY <1>1, <1>9

-----------------------------------------------------------------------------
(* <quit> and a restart *)

\* A row that is written and read again: a null whose bit is set is zero.
LEMMA PrintedAgain ==
    ASSUME NEW r \in Row, NEW c \in 1 .. MaxColumns
    PROVE  Printed(WithColumns(r, c), c) =
              [i \in 1 .. c |-> IF i > Len(r) THEN Garbled
                                ELSE IF r[i] = Unmarked THEN Zero ELSE Seen(r[i])]
<1> DEFINE w == WithColumns(r, c)
<1>1. w \in Row /\ Len(w) >= c /\ c \in Nat /\ c # 0
  BY WithColumnsFacts, DatabaseAssumption
<1>2. \A i \in 1 .. c : w[i] = IF i > Len(r) THEN Garbled ELSE Written(r[i])
  BY <1>1 DEF WithColumns
<1>3. \A x : Seen(Written(x)) = IF x = Unmarked THEN Zero ELSE Seen(x)
  <2>1. Seen(Zero) = Zero /\ Seen(Garbled) = Garbled
    BY SeenFacts
  <2> QED
    BY <2>1, DatabaseAssumption DEF Written, Seen
<1>4. Seen(Garbled) = Garbled
  BY SeenFacts
<1>5. Printed(w, c) = [i \in 1 .. c |-> Seen(w[i])]
  BY <1>1, PrintedRow
<1> HIDE DEF w
<1>6. \A i \in 1 .. c : Seen(w[i]) = IF i > Len(r) THEN Garbled
                                     ELSE IF r[i] = Unmarked THEN Zero ELSE Seen(r[i])
  BY <1>2, <1>3, <1>4
<1> QED
  BY <1>5, <1>6 DEF w

\* Rows without such nulls stay what they are.
LEMMA ViewAgain ==
    ASSUME NEW rows, rows \subseteq Row, NEW c \in 1 .. MaxColumns, Unmixed(rows)
    PROVE  View(Layout(rows, c), c) = View(rows, c)
<1>1. \A r \in rows : Printed(WithColumns(r, c), c) = Printed(r, c)
  <2> TAKE r \in rows
  <2>1. Len(r) \in Nat /\ \A i \in 1 .. Len(r) : r[i] # Unmarked
    BY RowFacts DEF Unmixed
  <2>2. \A i \in 1 .. c :
           (IF i > Len(r) THEN Garbled ELSE IF r[i] = Unmarked THEN Zero ELSE Seen(r[i])) =
           (IF i <= Len(r) THEN Seen(r[i]) ELSE Garbled)
    BY <2>1, DatabaseAssumption
  <2> QED
    BY <2>2, PrintedAgain DEF Printed
<1>2. View(Layout(rows, c), c) = {Printed(WithColumns(r, c), c) : r \in rows}
  BY DEF View, Layout
<1> QED
  BY <1>1, <1>2 DEF View

\* In the others it zeroes nulls.
MarkedAt(page, c) ==
    {p \in View(page, c) \X (2 .. c) : \E q \in page : Printed(q, c) = p[1] /\ q[p[2]] = Unmarked}

LEMMA NullsZeroed ==
    ASSUME NEW page \in RowSets, NEW c \in 1 .. MaxColumns, HaveKeys(page), Wide(page, c)
    PROVE  /\ MarkedAt(page, c) \subseteq
                 {p \in View(page, c) \X (2 .. c) : p[1][p[2]] = Null}
           /\ View(Layout(page, c), c) =
                 {Store!Zeroed(r, MarkedAt(page, c)) : r \in View(page, c)}
<1>1. /\ page \subseteq Row /\ \A r, q \in page : r[1] = q[1] => r = q
      /\ \A r \in page : r[1] \in Keys /\ Len(r) >= c /\ Len(r) \in Nat
      /\ c \in Nat
  BY RowFacts, DatabaseAssumption DEF RowSets, Keyed, HaveKeys, Wide
<1>2. \A r \in page : /\ Printed(r, c) = [i \in 1 .. c |-> Seen(r[i])]
                      /\ Printed(r, c)[1] = r[1] /\ Printed(r, c) \in View(page, c)
  BY <1>1, PrintedRow DEF View
<1>3. \A i \in 2 .. c : i \in 1 .. c
  BY <1>1
<1>4. Seen(Unmarked) = Null
  BY DEF Seen
<1>5. MarkedAt(page, c) \subseteq {p \in View(page, c) \X (2 .. c) : p[1][p[2]] = Null}
  BY <1>2, <1>3, <1>4 DEF MarkedAt
<1>6. \A r \in page : Printed(WithColumns(r, c), c) = Store!Zeroed(Printed(r, c), MarkedAt(page, c))
  <2> TAKE r \in page
  <2>1. \A i \in 1 .. c : <<Printed(r, c), i>> \in MarkedAt(page, c) <=> r[i] = Unmarked
    <3> TAKE i \in 1 .. c
    <3>1. ASSUME r[i] = Unmarked PROVE <<Printed(r, c), i>> \in MarkedAt(page, c)
      <4>1. i # 1
        BY <1>1, <3>1, DatabaseAssumption
      <4>2. i \in 2 .. c
        BY <1>1, <4>1
      <4> QED
        BY <1>2, <3>1, <4>2 DEF MarkedAt
    <3>2. ASSUME <<Printed(r, c), i>> \in MarkedAt(page, c) PROVE r[i] = Unmarked
      <4>1. PICK q \in page : Printed(q, c) = Printed(r, c) /\ q[i] = Unmarked
        BY <3>2 DEF MarkedAt
      <4>2. q[1] = r[1]
        BY <1>2, <4>1
      <4> QED
        BY <1>1, <4>1, <4>2
    <3> QED
      BY <3>1, <3>2
  <2>2. Printed(WithColumns(r, c), c) =
           [i \in 1 .. c |-> IF r[i] = Unmarked THEN Zero ELSE Seen(r[i])]
    <3>1. \A i \in 1 .. c : ~(i > Len(r))
      BY <1>1
    <3>2. \A i \in 1 .. c :
             (IF i > Len(r) THEN Garbled ELSE IF r[i] = Unmarked THEN Zero ELSE Seen(r[i])) =
             (IF r[i] = Unmarked THEN Zero ELSE Seen(r[i]))
      BY <3>1
    <3> QED
      BY <1>1, <3>2, PrintedAgain
  <2>3. Store!Zeroed(Printed(r, c), MarkedAt(page, c)) =
           [i \in 1 .. c |-> IF <<Printed(r, c), i>> \in MarkedAt(page, c) THEN Zero
                             ELSE Printed(r, c)[i]]
    <3>1. DOMAIN Printed(r, c) = 1 .. c
      BY <1>2
    <3> QED
      BY <3>1 DEF Store!Zeroed
  <2>4. \A i \in 1 .. c : Printed(r, c)[i] = Seen(r[i])
    BY <1>2
  <2> QED
    BY <2>1, <2>2, <2>3, <2>4
<1>7. View(Layout(page, c), c) = {Printed(WithColumns(r, c), c) : r \in page}
  BY DEF View, Layout
<1>8. {Store!Zeroed(r, MarkedAt(page, c)) : r \in View(page, c)} =
         {Store!Zeroed(Printed(r, c), MarkedAt(page, c)) : r \in page}
  BY DEF View
<1> QED
  BY <1>5, <1>6, <1>7, <1>8

\* Some nulls of a table have the bit of a column that was dropped.
LEMMA BitsShown ==
    ASSUME QuitWithBits, Living' = Living, Living \subseteq Names, NEW n \in Living,
           OthersShown(n), NEW c \in 1 .. MaxColumns, NEW page \in RowSets,
           HaveKeys(page), Wide(page, c),
           Shown(n) = [columns |-> c, rows |-> View(page, c)],
           Shown(n)' = [columns |-> c, rows |-> View(Layout(page, c), c)]
    PROVE  Refines
<1>1. PICK rows, nulls :
         /\ rows = View(page, c) /\ nulls = MarkedAt(page, c)
         /\ nulls \in SUBSET {p \in rows \X (2 .. c) : p[1][p[2]] = Null}
         /\ View(Layout(page, c), c) = {Store!Zeroed(r, nulls) : r \in rows}
  BY NullsZeroed
<1>2. Store!SetRows(n, {Store!Zeroed(r, nulls) : r \in rows})
  BY <1>1, RowsSet
<1>3. /\ n \in DOMAIN [m \in Living |-> Shown(m)]
      /\ [m \in Living |-> Shown(m)][n].columns = c
      /\ [m \in Living |-> Shown(m)][n].rows = rows
  BY <1>1
<1>4. Store!ZeroNulls(n)
  <2>1. \A i : i \in {p \in rows \X (2 .. c) : p[1][p[2]] = Null} <=>
               i \in {p \in [m \in Living |-> Shown(m)][n].rows \X
                            (2 .. [m \in Living |-> Shown(m)][n].columns) : p[1][p[2]] = Null}
    BY ONLY <1>3
  <2>2. nulls \in SUBSET {p \in [m \in Living |-> Shown(m)][n].rows \X
                            (2 .. [m \in Living |-> Shown(m)][n].columns) : p[1][p[2]] = Null}
    BY ONLY <1>1, <2>1
  <2>3. {Store!Zeroed(r, nulls) : r \in [m \in Living |-> Shown(m)][n].rows} =
           {Store!Zeroed(r, nulls) : r \in rows}
    BY ONLY <1>3
  <2>4. Store!SetRows(n, {Store!Zeroed(r, nulls) : r \in [m \in Living |-> Shown(m)][n].rows})
    BY ONLY <1>2, <2>3
  <2> QED
    BY ONLY <1>3, <2>2, <2>4, Zenon DEF Store!ZeroNulls
<1>5. n \in Names
  OBVIOUS
<1> QED
  BY ONLY QuitWithBits, <1>4, <1>5 DEF Refines

\* An empty buffer holds nothing.
LEMMA NothingHeld ==
    ASSUME NEW io, io.entries = <<>>
    PROVE  /\ Held(io) = {} /\ Single(io)
           /\ \A n : ~IsCached(io, n)
           /\ \A n, c : PagesOf(io, n, c) = Layout(io.files[n], c)
<1>1. \A n : ~IsCached(io, n)
  BY DEF IsCached, EntriesOf
<1> QED
  BY <1>1 DEF Held, Single, PagesOf

\* What the catalog says of a table while the program does not run.
StoppedFact ==
    ~up /\ NamedOnce(catalog, Len(catalog)) /\ DOMAIN catalog = 1 .. Len(catalog) =>
        \A i \in 1 .. Len(catalog) :
            Shown(catalog[i].name) =
                [columns |-> catalog[i].columns,
                 rows |-> View(files[catalog[i].name], catalog[i].columns)]

LEMMA StoppedIsShown == StoppedFact
<1> SUFFICES ASSUME ~up, NamedOnce(catalog, Len(catalog)), DOMAIN catalog = 1 .. Len(catalog),
                    NEW i \in 1 .. Len(catalog)
             PROVE  Shown(catalog[i].name) =
                        [columns |-> catalog[i].columns,
                         rows |-> View(files[catalog[i].name], catalog[i].columns)]
  BY DEF StoppedFact
<1>1. (CHOOSE j \in DOMAIN catalog : catalog[j].name = catalog[i].name) = i
  BY DEF NamedOnce
<1> QED
  BY <1>1 DEF Shown

LEMMA StoppedIsShownNext == StoppedFact'
BY StoppedIsShown, PTL

\* The program is left: the pages of the only table reach its file.
LEMMA StoreQuit ==
    ASSUME Separate, StoreInv, Quit
    PROVE  StoreInv' /\ Refines
<1>1. /\ up /\ pending = Idle /\ "quit" \in Statements
      /\ up' = FALSE /\ slots' = NoSlots /\ count' = 0 /\ entries' = <<>> /\ pending' = Idle
      /\ catalog' = SavedCatalog(slots) /\ files' \in Flushed(IO)
  BY DEF Quit, Typed, Ended
<1>2. OneName /\ TypeInv /\ TypeInv' /\ IOOk(IO) /\ Single(IO)
  BY <1>1, TypeQuit DEF Separate, StoreInv, TypeInv
<1>3. /\ slots \in [1 .. MaxTables -> Table \cup {NoTable}]
      /\ count \in 0 .. MaxTables /\ count \in Nat /\ MaxTables \in Nat
      /\ files \in [Names -> StoredRows] /\ entries \in Seq(Cachable)
  BY <1>2, DatabaseAssumption DEF TypeInv, TablesOK, IOOk, IOType, IO
<1>4. /\ Len(catalog') = count /\ DOMAIN catalog' = 1 .. count
      /\ \A i \in 1 .. count : catalog'[i] = slots[i]
  <2>1. slots \in Seq(Table \cup {NoTable}) /\ Len(slots) = MaxTables
    BY <1>3
  <2>2. catalog' = [i \in 1 .. count |-> slots[i]]
    BY <1>1, <1>3, <2>1 DEF SavedCatalog
  <2> QED
    BY <1>3, <2>2
<1>5. Living' = Living
  BY <1>1, <1>4 DEF Living
<1>6. NamedOnce(catalog, Len(catalog))'
  BY <1>4 DEF NamedOnce, StoreInv
<1>7. Held(IO') = {} /\ Single(IO') /\ \A n : ~IsCached(IO', n)
  <2>1. PICK io : io = IO'
    OBVIOUS
  <2>2. io.entries = <<>>
    BY <1>1, <2>1 DEF IO
  <2> QED
    BY ONLY <2>1, <2>2, NothingHeld
<1>8. PICK n \in Names : Names = {n}
  BY <1>2 DEF OneName
<1>9. /\ files'[n] \in RowSets /\ HaveKeys(files'[n]) /\ Unmixed(files'[n])
      /\ n \notin Living => files'[n] = {}
      /\ n \in Living => (Shown(n)' = Shown(n) \/ Refines)
  <2>1. CASE entries = <<>>
    <3>1. files' = files
      BY <1>1, <2>1 DEF Flushed, IO
    <3>2. /\ files[n] \in RowSets /\ HaveKeys(files[n]) /\ Unmixed(files[n])
          /\ n \notin Living => files[n] = {}
      BY DEF StoreInv, RowsKept, Absent
    <3>3. IO.entries = <<>> /\ IO.files = files
      BY <2>1 DEF IO
    <3>4. PagesOf(IO, n, ColumnsOf(n)) = Layout(files[n], ColumnsOf(n))
      BY <3>3, NothingHeld
    <3>5. CASE n \notin Living
      BY <3>1, <3>2, <3>5
    <3>6. CASE n \in Living
      <4>1. /\ Exists(n) /\ ColumnsOf(n) \in 1 .. MaxColumns
            /\ Shown(n) = [columns |-> ColumnsOf(n), rows |-> View(Pages(n), ColumnsOf(n))]
            /\ Pages(n) = PagesOf(IO, n, ColumnsOf(n))
        BY <1>1, <3>6, TypedOn, LivingFacts
      <4>2. PICK i \in 1 .. count : slots[i].name = n
        BY <1>1, <3>6, LivingFacts
      <4>3. SlotOf(n) = i
        BY <1>3, <4>2, SlotIsFound DEF SlotFact, StoreInv
      <4>4. Shown(n)' = [columns |-> ColumnsOf(n), rows |-> View(files[n], ColumnsOf(n))]
        BY <1>1, <1>4, <1>6, <3>1, <4>2, <4>3, StoppedIsShownNext DEF StoppedFact, ColumnsOf
      <4>5. View(Layout(files[n], ColumnsOf(n)), ColumnsOf(n)) = View(files[n], ColumnsOf(n))
        BY <3>2, <4>1, ViewAgain DEF RowSets
      <4> QED
        BY <3>1, <3>2, <3>4, <3>6, <4>1, <4>4, <4>5
    <3> QED
      BY <3>5, <3>6
  <2>2. CASE entries # <<>>
    <3> DEFINE e == entries[1]
               c == ColumnsOf(n)
    <3>1. 1 \in 1 .. Len(entries) /\ IO.entries = entries
      BY <1>3, <2>2 DEF IO
    <3>2. PICK h \in Held(IO) : h = Holding(e) /\ h.name = e.name
      BY <1>2, <3>1, HeldFacts
    <3>3. h.table = e.table /\ h.page = e.page
      BY <3>2 DEF Holding
    <3>4. h.name = n /\ h.page \in RowSets /\ HaveKeys(h.page) /\ Wide(h.page, Current(n))
      BY <1>2, <1>8, <3>2, HeldFacts DEF StoreInv, RowsKept
    <3>5. h.table # Dangling /\ ColumnsAt(h.table) = Current(n) /\ Current(n) = c
      BY <1>1, <1>2, <3>4 DEF StoreInv, Described, Current
    <3>6. files' = [files EXCEPT ![n] = Layout(h.page, c)]
      <4>1. e.table # Dangling /\ ColumnsAt(e.table) = c /\ e.name = n /\ e.page = h.page
        BY <3>2, <3>3, <3>4, <3>5
      <4>2. ColumnsRead(e.table) = {c}
        BY <4>1 DEF ColumnsRead
      <4>3. PICK columns \in ColumnsRead(e.table) :
               files' = [files EXCEPT ![e.name] = Layout(e.page, columns)]
        BY <1>1, <2>2 DEF Flushed, IO
      <4>4. columns = c
        BY <4>2, <4>3
      <4> HIDE DEF e, c
      <4> QED
        BY <4>1, <4>3, <4>4
    <3> HIDE DEF e, c
    <3>7. files'[n] = Layout(h.page, c)
      BY <1>3, <3>6
    <3>8. n \in Living
      <4>1. IsCached(IO, n)
        BY <1>2, <3>4, HeldLookups
      <4> QED
        BY <4>1 DEF StoreInv, Absent
    <3>9. /\ Exists(n) /\ c \in 1 .. MaxColumns
          /\ Shown(n) = [columns |-> c, rows |-> View(Pages(n), c)]
          /\ Pages(n) = PagesOf(IO, n, c)
      BY <1>1, <3>8, TypedOn, LivingFacts DEF c
    <3>10. Pages(n) = h.page
      BY <1>2, <3>4, <3>9, HeldLookups
    <3>11. PICK i \in 1 .. count : slots[i].name = n
      BY <1>1, <3>8, LivingFacts
    <3>12. SlotOf(n) = i
      BY <1>3, <3>11, SlotIsFound DEF SlotFact, StoreInv
    <3>13. Shown(n)' = [columns |-> c, rows |-> View(files'[n], c)]
      BY <1>1, <1>4, <1>6, <3>11, <3>12, StoppedIsShownNext DEF StoppedFact, ColumnsOf, c
    <3>14. /\ Layout(h.page, c) \in RowSets /\ KeysOf(Layout(h.page, c)) = KeysOf(h.page)
           /\ Unmixed(Layout(h.page, c)) /\ h.page \subseteq Row
      <4>1. h.page \in StoredRows /\ h.page \subseteq Row /\ h.page \subseteq Row \cup {<<>>}
        BY <3>4 DEF StoredRows, RowSets
      <4> QED
        BY <3>4, <3>9, <4>1, LayoutFacts, LayoutUnmixed
    <3>15. HaveKeys(Layout(h.page, c))
      BY <3>4, <3>14 DEF KeysOf, HaveKeys
    <3>16. Shown(n)' = Shown(n) \/ Refines
      <4>1. Shown(n)' = [columns |-> c, rows |-> View(Layout(h.page, c), c)]
        BY <3>7, <3>13
      <4>2. Shown(n) = [columns |-> c, rows |-> View(h.page, c)]
        BY <3>9, <3>10
      <4>3. CASE Unmixed(h.page)
        <5>1. View(Layout(h.page, c), c) = View(h.page, c)
          BY <3>9, <3>14, <4>3, ViewAgain
        <5> QED
          BY <4>1, <4>2, <5>1
      <4>4. CASE ~Unmixed(h.page)
        <5>1. PICK r \in h.page : \E v \in 1 .. Len(r) : r[v] = Unmarked
          BY <4>4 DEF Unmixed
        <5>2. Unmarked \in Range(r)
          <6>1. r \in Row /\ r \in Seq(Value)
            BY <3>14, RowFacts
          <6> QED
            BY <5>1, <6>1 DEF Range
        <5>3. r \in entries[1].page
          BY <3>3 DEF e
        <5>4. QuitWithBits
          BY <3>1, <5>2, <5>3 DEF QuitWithBits
        <5>5. OthersShown(n) /\ Living \subseteq Names
          BY <1>1, <1>8, LivingFacts DEF OthersShown
        <5>6. PICK page : page = h.page
          OBVIOUS
        <5>7. /\ page \in RowSets /\ HaveKeys(page) /\ Wide(page, c)
              /\ Shown(n) = [columns |-> c, rows |-> View(page, c)]
              /\ Shown(n)' = [columns |-> c, rows |-> View(Layout(page, c), c)]
          BY <3>4, <3>5, <4>1, <4>2, <5>6
        <5>8. c \in 1 .. MaxColumns
          BY <3>9
        <5> QED
          BY ONLY <1>5, <3>8, <5>4, <5>5, <5>7, <5>8, BitsShown
      <4> QED
        BY <4>3, <4>4
    <3> QED
      BY <3>7, <3>8, <3>14, <3>15, <3>16
  <2> QED
    BY <2>1, <2>2
<1>10. Living \subseteq Names
  BY <1>1, LivingFacts
<1>11. \A m \in Names : m = n
  BY <1>8
<1>12. Absent' /\ RowsKept'
  BY <1>5, <1>7, <1>9, <1>11 DEF Absent, RowsKept
<1>13. NamedOnce(slots, count)' /\ PendingKept' /\ Described'
  BY <1>1, <1>7 DEF NamedOnce, PendingKept, Described
<1>14. StoreInv'
  BY <1>2, <1>6, <1>7, <1>12, <1>13 DEF StoreInv
<1>15. Refines
  <2>1. CASE n \in Living /\ Shown(n)' # Shown(n)
    BY <1>9, <2>1
  <2>2. CASE n \in Living => Shown(n)' = Shown(n)
    <3>1. \A m \in Living : Shown(m)' = Shown(m)
      BY <1>10, <1>11, <2>2
    <3> QED
      BY <1>5, <3>1 DEF Refines
  <2> QED
    BY <2>1, <2>2
<1> QED
  BY <1>14, <1>15

\* The program is started: the catalog and the files are read.
LEMMA StoreStart ==
    ASSUME Separate, StoreInv, Start
    PROVE  StoreInv' /\ Refines
<1>1. /\ ~up /\ up' = TRUE /\ count' = Len(catalog)
      /\ slots' = [i \in 1 .. MaxTables |-> IF i <= Len(catalog) THEN catalog[i] ELSE NoTable]
      /\ entries' = entries /\ files' = files /\ catalog' = catalog /\ pending' = pending
  BY DEF Start
<1>2. TypeInv /\ TypeInv' /\ OneName
  BY <1>1, TypeStart DEF StoreInv
<1>3. /\ entries = <<>> /\ pending = Idle /\ MaxTables \in Nat
      /\ catalog \in Seq(Table) /\ Len(catalog) <= MaxTables
      /\ DOMAIN catalog = 1 .. Len(catalog) /\ Len(catalog) \in Nat
      /\ files \in [Names -> StoredRows]
  BY <1>1, <1>2, DatabaseAssumption DEF TypeInv, TablesOK, StoppedOK, IOOk, IO, IOType
<1>4. \A i \in 1 .. Len(catalog) : slots'[i] = catalog[i] /\ catalog[i] \in Table
  BY <1>1, <1>3
<1>5. Living' = Living
  BY <1>1, <1>3, <1>4 DEF Living
<1>6. /\ IO' = IO /\ Held(IO) = {} /\ Single(IO) /\ \A n : ~IsCached(IO, n)
      /\ \A n, c : PagesOf(IO, n, c) = Layout(files[n], c)
  <2>1. IO.entries = <<>> /\ IO.files = files
    BY <1>3 DEF IO
  <2>2. IO' = IO
    BY <1>1 DEF IO
  <2> QED
    BY <2>1, <2>2, NothingHeld
<1>7. NamedOnce(slots, count)' /\ NamedOnce(catalog, Len(catalog))'
  BY <1>1, <1>4 DEF NamedOnce, StoreInv
<1>8. Absent' /\ RowsKept' /\ PendingKept' /\ Described'
  BY <1>1, <1>3, <1>5, <1>6 DEF Absent, RowsKept, PendingKept, Described, StoreInv
<1>9. StoreInv'
  BY <1>1, <1>2, <1>6, <1>7, <1>8 DEF StoreInv
<1>10. \A n \in Living : Shown(n)' = Shown(n)
  <2> SUFFICES ASSUME NEW n \in Living PROVE Shown(n)' = Shown(n)
    OBVIOUS
  <2>1. PICK i \in 1 .. Len(catalog) : catalog[i].name = n
    BY <1>1, <1>3 DEF Living
  <2> DEFINE c == catalog[i].columns
  <2>2. n \in Names /\ c \in 1 .. MaxColumns
    BY <1>4, <2>1, TableFacts
  <2>3. Shown(n) = [columns |-> c, rows |-> View(files[n], c)]
    BY <1>1, <1>3, <2>1, StoppedIsShown DEF StoppedFact, StoreInv
  <2>4. SlotOf(n)' = i
    BY <1>1, <1>3, <1>4, <1>7, <2>1, SlotIsFoundNext DEF SlotFact
  <2>5. Current(n)' = c /\ Remaining(n)' = {}
    BY <1>1, <1>3, <1>4, <2>4 DEF Current, ColumnsOf, Remaining
  <2>6. Pages(n)' = Layout(files[n], c)
    BY <1>6, <2>5 DEF Pages
  <2>7. Shown(n)' = [columns |-> c, rows |-> View(Layout(files[n], c), c)]
    <3>1. Shown(n)' = [columns |-> Current(n)',
                       rows |-> View(Pages(n)' \cup Remaining(n)', Current(n)')]
      BY <1>1, <2>2, ViewIsShownNext DEF ViewFact
    <3> QED
      BY <2>5, <2>6, <3>1
  <2> HIDE DEF c
  <2>8. View(Layout(files[n], c), c) = View(files[n], c)
    BY <2>2, ViewAgain DEF StoreInv, RowsKept, RowSets
  <2> QED
    BY <2>3, <2>7, <2>8
<1>11. Refines
  BY <1>5, <1>10 DEF Refines
<1> QED
  BY <1>9, <1>11

-----------------------------------------------------------------------------
(* All steps *)

\* At first there is no table.
LEMMA StoreInit == Init => StoreInv /\ Store!Init
<1> SUFFICES ASSUME Init PROVE StoreInv /\ Store!Init
  OBVIOUS
<1>1. /\ up = TRUE /\ slots = NoSlots /\ count = 0 /\ entries = <<>>
      /\ files = [n \in Names |-> {}] /\ catalog = <<>> /\ pending = Idle
  BY DEF Init
<1>2. TypeInv
  BY TypeInit
<1>3. Living = {}
  BY <1>1 DEF Living
<1>4. Held(IO) = {} /\ Single(IO) /\ \A n : ~IsCached(IO, n)
  <2>1. IO.entries = <<>>
    BY <1>1 DEF IO
  <2> QED
    BY <2>1, NothingHeld
<1>5. NamedOnce(slots, count) /\ NamedOnce(catalog, Len(catalog))
  BY <1>1 DEF NamedOnce
<1>6. \A n \in Names :
         files[n] = {} /\ files[n] \in RowSets /\ HaveKeys(files[n]) /\ Unmixed(files[n])
  <2>1. {} \in RowSets
    BY SmallRowSets
  <2> QED
    BY <1>1, <2>1 DEF HaveKeys, Unmixed
<1>7. StoreInv
  BY <1>1, <1>2, <1>4, <1>5, <1>6 DEF StoreInv, Absent, RowsKept, PendingKept, Described
<1>8. Store!Init
  BY <1>3 DEF Store!Init
<1> QED
  BY <1>7, <1>8

\* Every step keeps the invariant and is a step of TableStore, or none.
LEMMA StoreNext == Separate /\ StoreInv /\ [Next]_vars => StoreInv' /\ Refines
<1> SUFFICES ASSUME Separate, StoreInv, [Next]_vars PROVE StoreInv' /\ Refines
  OBVIOUS
<1>0. TypeInv
  BY DEF StoreInv
<1>1. ASSUME NEW n \in Names, NEW columns \in NewTableColumns, CreateTable(n, columns)
      PROVE  StoreInv' /\ Refines
  BY <1>1, StoreCreate
<1>2. ASSUME NEW n \in Names, NEW r \in TypedRows(n), Insert(n, <<r>>)
      PROVE  StoreInv' /\ Refines
  <2>1. Exists(n) /\ r \in NewRows(ColumnsOf(n))
    BY <1>0, NewRowsTyped DEF ColumnsOf
  <2> QED
    BY <1>2, <2>1, StoreInsertOne
<1>3. ASSUME NEW n \in Names, NEW r \in TypedRows(n), NEW s \in TypedRows(n), Insert(n, <<r, s>>)
      PROVE  StoreInv' /\ Refines
  <2>1. Exists(n) /\ r \in NewRows(ColumnsOf(n)) /\ s \in NewRows(ColumnsOf(n))
    BY <1>0, NewRowsTyped DEF ColumnsOf
  <2> QED
    BY <1>3, <2>1, StoreInsertTwo
<1>4. ASSUME NEW n \in Names, Select(n) \/ DropTable(n) \/ DeleteAll(n)
      PROVE  StoreInv' /\ Refines
  BY <1>4, StoreSelect, StoreDrop, StoreDeleteAll
<1>5. ASSUME NEW n \in Names, NEW key \in Keys, Delete(n, key) \/ RefusedUpdate(n, key)
      PROVE  StoreInv' /\ Refines
  BY <1>5, StoreDelete, StoreRefusedUpdate
<1>6. ASSUME NEW n \in Names, NEW key \in Keys, NEW new \in Keys, Update(n, key, 1, new)
      PROVE  StoreInv' /\ Refines
  BY <1>6, StoreUpdateKey
<1>7. ASSUME NEW n \in Names, NEW key \in Keys, NEW column \in 2 .. MaxColumns,
             NEW value \in Values, Update(n, key, column, value)
      PROVE  StoreInv' /\ Refines
  BY <1>7, StoreUpdate
<1>8. ASSUME NEW n \in Names, NEW value \in Values \cup {Null}, AlterAdd(n, value)
      PROVE  StoreInv' /\ Refines
  BY <1>8, StoreAlterAdd
<1>9. ASSUME NEW n \in Names, NEW column \in 2 .. MaxColumns, AlterDrop(n, column)
      PROVE  StoreInv' /\ Refines
  BY <1>9, StoreAlterDrop
<1>10. CASE Continue
  BY <1>10, StoreRewriteRow, StoreRewriteFails, StoreAlterRow, StoreAlterFails, StoreFinish
  DEF Continue
<1>11. CASE Quit \/ Start
  BY <1>11, StoreQuit, StoreStart
<1>12. CASE Crash
  BY <1>12 DEF Crash, Separate
<1>13. CASE UNCHANGED vars
  BY <1>13, StoreUnchanged
<1>14. ASSUME NEW n \in Names, InsertRefused(n) PROVE StoreInv' /\ Refines
  BY <1>14, StoreInsertRefused
<1> QED
  BY <1>1, <1>2, <1>3, <1>4, <1>5, <1>6, <1>7, <1>8, <1>9, <1>10, <1>11, <1>12, <1>13, <1>14 DEF Next

\* Where the statements that confuse tables are kept apart (Separate), they
\* implement TableStore: every create, insert, select, delete, update, drop
\* and alter changes the table it names, as it is meant to, and no other; the
\* rows that are being written again from memory are never lost in between,
\* unless the code refuses the first page, which loses those of this table;
\* and leaving the program and starting it again changes nothing but nulls
\* that have the bit of a dropped column.  This holds for every number of
\* tables, columns, keys and values.
THEOREM StatementsImplementStore == Separate => (Spec => ImplementsStore)
<1> SUFFICES ASSUME Separate PROVE Spec => ImplementsStore
  OBVIOUS
<1>1. Init => StoreInv /\ Store!Init
  BY StoreInit
<1>2. StoreInv /\ [Next]_vars =>
         /\ StoreInv'
         /\ [\/ Store!Next
             \/ Refused /\ Store!Lose(pending.name)
             \/ QuitWithBits /\ \E n \in Names : Store!ZeroNulls(n)]_[n \in Living |-> Shown(n)]
  BY StoreNext DEF Refines
<1> QED
  BY <1>1, <1>2, PTL DEF Spec, ImplementsStore

-----------------------------------------------------------------------------
(* Rows stay in their file because the pages in the buffer, which replace   *)
(* them one day, hold the rows of the file and more; this needs one entry   *)
(* for a table and pointers that lead to one.                               *)

Covers(io, e) == Sound(e.table) /\ KeysOf(io.files[e.name]) \subseteq KeysOf(e.page)

Covered(io) ==
    /\ IOOk(io)
    /\ \A n \in Names : io.files[n] \in RowSets
    /\ \A i \in 1 .. Len(io.entries) : Covers(io, io.entries[i])
    /\ \A i, j \in 1 .. Len(io.entries) : io.entries[i].name = io.entries[j].name => i = j

\* No key is lost from a file.
Grows(io, new) == \A n \in Names : KeysOf(io.files[n]) \subseteq KeysOf(new.files[n])

\* A table is in the buffer if an entry has its name.
LEMMA CachedByName ==
    ASSUME NEW io, io.entries \in Seq(Cachable), NEW n
    PROVE  IsCached(io, n) <=> \E i \in 1 .. Len(io.entries) : io.entries[i].name = n
BY DEF IsCached, EntriesOf

\* Entries that are alike cover the same.
LEMMA CoveredAlike ==
    ASSUME NEW io, Covered(io), NEW new, IOOk(new), new.files = io.files,
           Len(new.entries) = Len(io.entries),
           \A i \in 1 .. Len(io.entries) : Alike(new.entries[i], io.entries[i])
    PROVE  Covered(new) /\ Grows(io, new)
BY DEF Covered, Covers, Alike, Grows

\* The pages of a table that are not in the buffer have the keys of its file.
LEMMA UncachedPages ==
    ASSUME NEW io, Covered(io), NEW n \in Names, NEW columns \in 1 .. MaxColumns, ~IsCached(io, n)
    PROVE  /\ PagesOf(io, n, columns) \in RowSets
           /\ KeysOf(PagesOf(io, n, columns)) = KeysOf(io.files[n])
           /\ PagesOf(io, n, columns) = {} <=> io.files[n] = {}
<1>1. io.files[n] \in RowSets /\ io.files[n] \in StoredRows
  BY DEF Covered, StoredRows
<1>2. PagesOf(io, n, columns) = Layout(io.files[n], columns)
  BY DEF PagesOf
<1> QED
  BY <1>1, <1>2, LayoutFacts

\* Pages with the rows of the file can be cached, and evict no row.
LEMMA CoveredCached ==
    ASSUME NEW io, Covered(io), NEW n \in Names, NEW pointer, Sound(pointer),
           NEW page \in RowSets \ {{}}, ~IsCached(io, n),
           KeysOf(io.files[n]) \subseteq KeysOf(page)
    PROVE  /\ Covered(Cached(io, n, pointer, page))
           /\ Grows(io, Cached(io, n, pointer, page))
<1> DEFINE new == Cached(io, n, pointer, page)
           es == io.entries
           e == NewEntry(io, n, pointer, page)
           v == Victim(io)
<1>1. /\ IOOk(new)
      /\ ~IsFull(es) => new.entries = Append(es, e) /\ new.files = io.files
      /\ IsFull(es) => /\ new.entries = es /\ v \in 1 .. Len(es)
                       /\ new.files = [io.files EXCEPT ![es[v].name] =
                                          Layout(es[v].page, ColumnsAt(pointer))]
  BY CachedFacts DEF Covered
<1>2. /\ es \in Seq(Cachable) /\ Len(es) \in Nat /\ io.files \in [Names -> StoredRows]
      /\ \A i \in 1 .. Len(es) : Covers(io, es[i]) /\ es[i].name # n
      /\ \A i, j \in 1 .. Len(es) : es[i].name = es[j].name => i = j
      /\ \A m \in Names : io.files[m] \in RowSets
  BY IOFacts, CachedByName, DatabaseAssumption DEF Covered
<1> HIDE DEF new
<1>3. CASE ~IsFull(es)
  <2>1. new.entries = Append(es, e) /\ new.files = io.files
    BY <1>1, <1>3
  <2>2. Covers(new, e) /\ e.name = n
    BY <2>1 DEF NewEntry, Covers
  <2> HIDE DEF e
  <2>3. /\ Len(new.entries) = Len(es) + 1
        /\ new.entries[Len(es) + 1] = e
        /\ \A i \in 1 .. Len(es) : new.entries[i] = es[i]
    BY <1>2, <2>1
  <2>4. \A i \in 1 .. Len(es) + 1 : i = Len(es) + 1 \/ i \in 1 .. Len(es)
    BY <1>2
  <2>5. \A i \in 1 .. Len(new.entries) : Covers(new, new.entries[i])
    BY <1>2, <2>1, <2>2, <2>3, <2>4 DEF Covers
  <2>6. \A i, j \in 1 .. Len(new.entries) : new.entries[i].name = new.entries[j].name => i = j
    BY <1>2, <2>2, <2>3, <2>4
  <2> QED
    BY <1>1, <1>2, <2>1, <2>5, <2>6 DEF Covered, Grows, new
<1>4. CASE IsFull(es)
  <2> DEFINE m == es[v].name
             written == Layout(es[v].page, ColumnsAt(pointer))
  <2>1. /\ new.entries = es /\ v \in 1 .. Len(es)
        /\ new.files = [io.files EXCEPT ![m] = written]
    BY <1>1, <1>4
  <2>2. m \in Names /\ es[v].page \in RowSets /\ es[v].page \in StoredRows
    BY <1>2, <2>1, CachableElement, CachableFacts DEF StoredRows
  <2>3. written \in RowSets /\ KeysOf(written) = KeysOf(es[v].page)
    BY <2>2, SoundFacts, LayoutFacts
  <2>4. KeysOf(io.files[m]) \subseteq KeysOf(written)
    BY <1>2, <2>1, <2>3 DEF Covers
  <2> HIDE DEF written
  <2>5. new.files[m] = written /\ \A k \in Names : k # m => new.files[k] = io.files[k]
    BY <1>2, <2>1, <2>2
  <2>6. Grows(io, new)
    BY <2>2, <2>4, <2>5 DEF Grows
  <2>7. \A k \in Names : new.files[k] \in RowSets
    BY <1>2, <2>3, <2>5
  <2>8. \A i \in 1 .. Len(es) : Covers(new, es[i])
    <3> TAKE i \in 1 .. Len(es)
    <3>1. Covers(io, es[i]) /\ es[i].name \in Names
      BY <1>2, CachableElement, CachableFacts
    <3>2. CASE i = v
      BY <2>3, <2>5, <3>1, <3>2 DEF Covers
    <3>3. CASE i # v
      <4>1. es[i].name # m
        BY <1>2, <2>1, <3>3
      <4> QED
        BY <2>5, <3>1, <4>1 DEF Covers
    <3> QED
      BY <3>2, <3>3
  <2> QED
    BY <1>1, <1>2, <2>1, <2>6, <2>7, <2>8 DEF Covered, new
<1> QED
  BY <1>3, <1>4 DEF new

\* Growing is transitive.
LEMMA GrowsOn ==
    ASSUME NEW a, NEW b, NEW c, Grows(a, b), Grows(b, c)
    PROVE  Grows(a, c)
BY DEF Grows

\* The file with the first record of a table that has none.
LEMMA CoveredWritten ==
    ASSUME NEW io, Covered(io), NEW n \in Names, NEW pointer, Sound(pointer), NEW r \in Row,
           ~IsCached(io, n), io.files[n] = {}
    PROVE  Covered([io EXCEPT !.files[n] = Layout({r}, ColumnsAt(pointer))])
<1> DEFINE new == [io EXCEPT !.files[n] = Layout({r}, ColumnsAt(pointer))]
<1>1. /\ IOOk(new) /\ new.entries = io.entries
      /\ new.files = [io.files EXCEPT ![n] = Layout({r}, ColumnsAt(pointer))]
      /\ {r} \in RowSets \ {{}}
  <2>1. IOOk(io)
    BY DEF Covered
  <2> QED
    BY <2>1, FirstRecordFacts
<1>2. Layout({r}, ColumnsAt(pointer)) \in RowSets
  BY <1>1, SoundFacts, LayoutFacts DEF StoredRows
<1>3. /\ io.entries \in Seq(Cachable) /\ io.files \in [Names -> StoredRows]
      /\ \A i \in 1 .. Len(io.entries) : io.entries[i].name # n /\ io.entries[i].name \in Names
  BY IOFacts, CachedByName, CachableElement, CachableFacts DEF Covered
<1> HIDE DEF new
<1>4. /\ new.files[n] = Layout({r}, ColumnsAt(pointer))
      /\ \A m \in Names : m # n => new.files[m] = io.files[m]
  BY <1>1, <1>3
<1>5. Covered(new)
  BY <1>1, <1>2, <1>3, <1>4 DEF Covered, Covers
<1> QED
  BY <1>5 DEF new

\* The first record of a table that has none.
LEMMA CoveredFirst ==
    ASSUME NEW io, Covered(io), NEW n \in Names, NEW pointer, Sound(pointer), NEW r \in Row,
           ~IsCached(io, n), io.files[n] = {}
    PROVE  /\ Covered(FirstRecord(io, n, pointer, r))
           /\ Grows(io, FirstRecord(io, n, pointer, r))
<1> DEFINE new == [io EXCEPT !.files[n] = Layout({r}, ColumnsAt(pointer))]
<1>1. /\ IOOk(new) /\ new.entries = io.entries
      /\ new.files = [io.files EXCEPT ![n] = Layout({r}, ColumnsAt(pointer))]
      /\ FirstRecord(io, n, pointer, r) = Cached(new, n, pointer, {r})
      /\ {r} \in RowSets \ {{}}
  <2>1. IOOk(io)
    BY DEF Covered
  <2> QED
    BY <2>1, FirstRecordFacts
<1>2. KeysOf(Layout({r}, ColumnsAt(pointer))) = KeysOf({r})
  BY <1>1, SoundFacts, LayoutFacts DEF StoredRows
<1>3. io.files \in [Names -> StoredRows]
  BY IOFacts DEF Covered
<1> HIDE DEF new
<1>4. /\ new.files[n] = Layout({r}, ColumnsAt(pointer))
      /\ \A m \in Names : m # n => new.files[m] = io.files[m]
  BY <1>1, <1>3
<1>5. Covered(new)
  BY CoveredWritten DEF new
<1>6. Grows(io, new)
  BY <1>4 DEF Grows, KeysOf
<1>7. ~IsCached(new, n)
  BY <1>1 DEF IsCached
<1>8. Covered(Cached(new, n, pointer, {r})) /\ Grows(new, Cached(new, n, pointer, {r}))
  BY <1>1, <1>2, <1>4, <1>5, <1>7, CoveredCached
<1> QED
  BY <1>1, <1>6, <1>8, GrowsOn

\* A record is added.
LEMMA CoveredAdd ==
    ASSUME NEW io, Covered(io), NEW n \in Names, NEW pointer, Sound(pointer), NEW r \in Row
    PROVE  /\ Covered(AddRecord(io, n, pointer, r))
           /\ Grows(io, AddRecord(io, n, pointer, r))
<1> DEFINE page == PagesOf(io, n, ColumnsAt(pointer))
           new == AddRecord(io, n, pointer, r)
<1>1. CASE IsCached(io, n)
  <2> DEFINE k == EntryOf(io, n)
  <2>1. HasPages(io, new, k, IF Clashes(io, n, pointer, r) THEN io.entries[k].page
                             ELSE io.entries[k].page \cup {r})
    BY <1>1, AddCachedFacts DEF Covered
  <2> HIDE DEF new, k
  <2>2. \A i \in 1 .. Len(io.entries) : KeysOf(io.entries[i].page) \subseteq KeysOf(new.entries[i].page)
    BY <2>1 DEF KeysOf, HasPages
  <2>3. \A i \in 1 .. Len(io.entries) : Covers(new, new.entries[i])
    BY <2>1, <2>2 DEF Covered, Covers, HasPages
  <2>4. Covered(new)
    BY <2>1, <2>3 DEF Covered, HasPages
  <2> QED
    BY <2>1, <2>4 DEF Grows, new, HasPages
<1>2. CASE ~IsCached(io, n)
  <2>1. /\ page \in RowSets /\ KeysOf(page) = KeysOf(io.files[n])
        /\ page = {} <=> io.files[n] = {}
    BY <1>2, SoundFacts, UncachedPages
  <2>2. new = IF page = {} THEN FirstRecord(io, n, pointer, r)
              ELSE IF Clashes(io, n, pointer, r) THEN io
              ELSE Cached(io, n, pointer, page \cup {r})
    BY <1>2 DEF AddRecord
  <2>3. ~Clashes(io, n, pointer, r) => r[1] \notin KeysOf(page)
    BY DEF Clashes
  <2> HIDE DEF page, new
  <2>4. CASE page = {}
    <3>1. Covered(FirstRecord(io, n, pointer, r)) /\ Grows(io, FirstRecord(io, n, pointer, r))
      BY <1>2, <2>1, <2>4, CoveredFirst
    <3> QED
      BY <2>2, <2>4, <3>1 DEF new
  <2>5. CASE page # {} /\ Clashes(io, n, pointer, r)
    BY <2>2, <2>5 DEF Grows, new
  <2>6. CASE page # {} /\ ~Clashes(io, n, pointer, r)
    <3>1. page \cup {r} \in RowSets \ {{}}
      BY <2>1, <2>3, <2>6, AddedRow
    <3>2. KeysOf(io.files[n]) \subseteq KeysOf(page \cup {r})
      BY <2>1 DEF KeysOf
    <3>3. /\ Covered(Cached(io, n, pointer, page \cup {r}))
          /\ Grows(io, Cached(io, n, pointer, page \cup {r}))
      BY <1>2, <3>1, <3>2, CoveredCached
    <3> QED
      BY <2>2, <2>6, <3>3 DEF new
  <2> QED
    BY <2>4, <2>5, <2>6
<1> QED
  BY <1>1, <1>2

\* What is cached of a table has the keys that were to be cached.
LEMMA CachedKeys ==
    ASSUME NEW io, Covered(io), NEW n \in Names, NEW pointer, Sound(pointer),
           NEW page \in RowSets \ {{}}, ~IsCached(io, n),
           KeysOf(io.files[n]) \subseteq KeysOf(page), NEW c \in 1 .. MaxColumns
    PROVE  KeysOf(PagesOf(Cached(io, n, pointer, page), n, c)) \subseteq KeysOf(page)
<1> DEFINE new == Cached(io, n, pointer, page)
           es == io.entries
           e == NewEntry(io, n, pointer, page)
           v == Victim(io)
<1>1. /\ IOOk(new)
      /\ ~IsFull(es) => new.entries = Append(es, e) /\ new.files = io.files
      /\ IsFull(es) => /\ new.entries = es /\ v \in 1 .. Len(es)
                       /\ new.files = [io.files EXCEPT ![es[v].name] =
                                          Layout(es[v].page, ColumnsAt(pointer))]
  BY CachedFacts DEF Covered
<1>2. /\ es \in Seq(Cachable) /\ Len(es) \in Nat /\ io.files \in [Names -> StoredRows]
      /\ \A i \in 1 .. Len(es) : es[i].name # n
  BY IOFacts, CachedByName, DatabaseAssumption DEF Covered
<1>3. Covered(new)
  BY CoveredCached
<1> HIDE DEF new
<1>4. CASE ~IsFull(es)
  <2>1. new.entries = Append(es, e) /\ e.name = n /\ e.page = page
    BY <1>1, <1>4 DEF NewEntry
  <2> HIDE DEF e
  <2>2. Len(new.entries) = Len(es) + 1 /\ new.entries[Len(es) + 1] = e
    BY <1>2, <2>1
  <2>3. new.entries \in Seq(Cachable) /\ Len(es) + 1 \in 1 .. Len(new.entries)
    BY <1>1, <1>2, <2>2, IOFacts
  <2>4. IsCached(new, n)
    BY <2>1, <2>2, <2>3, CachedByName
  <2>5. EntryOf(new, n) \in 1 .. Len(new.entries) /\ new.entries[EntryOf(new, n)].name = n
    BY <2>3, <2>4, EntryOfFacts
  <2>6. EntryOf(new, n) = Len(es) + 1
    BY <1>3, <2>1, <2>2, <2>3, <2>5 DEF Covered
  <2> QED
    BY <2>1, <2>2, <2>4, <2>6 DEF PagesOf, new
<1>5. CASE IsFull(es)
  <2>1. new.entries = es /\ new.files[n] = io.files[n]
    BY <1>1, <1>2, <1>5
  <2>2. ~IsCached(new, n)
    BY <2>1 DEF IsCached
  <2>3. KeysOf(PagesOf(new, n, c)) = KeysOf(new.files[n])
    BY <1>3, <2>2, UncachedPages
  <2> QED
    BY <2>1, <2>3 DEF new
<1> QED
  BY <1>4, <1>5

\* A record that is added brings its own key and no other.
LEMMA KeysAdded ==
    ASSUME NEW io, Covered(io), NEW n \in Names, NEW pointer, Sound(pointer), NEW r \in Row,
           NEW c \in 1 .. MaxColumns
    PROVE  KeysOf(PagesOf(AddRecord(io, n, pointer, r), n, c))
              \subseteq KeysOf(PagesOf(io, n, c)) \cup {r[1]}
<1> DEFINE page == PagesOf(io, n, ColumnsAt(pointer))
           new == AddRecord(io, n, pointer, r)
<1>1. CASE IsCached(io, n)
  <2> DEFINE k == EntryOf(io, n)
  <2>1. HasPages(io, new, k, IF Clashes(io, n, pointer, r) THEN io.entries[k].page
                             ELSE io.entries[k].page \cup {r})
    BY <1>1, AddCachedFacts DEF Covered
  <2>2. io.entries \in Seq(Cachable) /\ new.entries \in Seq(Cachable)
    BY <2>1, IOFacts DEF HasPages, Covered
  <2>3. k \in 1 .. Len(io.entries) /\ io.entries[k].name = n
    BY <1>1, <2>2, EntryOfFacts
  <2>4. PagesOf(io, n, c) = io.entries[k].page
    BY <1>1 DEF PagesOf
  <2> HIDE DEF new, k
  <2>5. /\ Len(new.entries) = Len(io.entries)
        /\ \A i \in 1 .. Len(io.entries) : new.entries[i].name = io.entries[i].name
        /\ KeysOf(new.entries[k].page) \subseteq KeysOf(io.entries[k].page) \cup {r[1]}
    BY <2>1 DEF HasPages, KeysOf
  <2>6. IsCached(new, n)
    BY <2>2, <2>3, <2>5, CachedByName
  <2>7. EntryOf(new, n) \in 1 .. Len(new.entries) /\ new.entries[EntryOf(new, n)].name = n
    BY <2>2, <2>6, EntryOfFacts
  <2>8. EntryOf(new, n) = k
    BY <2>3, <2>5, <2>7 DEF Covered
  <2> QED
    BY <2>4, <2>5, <2>6, <2>8 DEF PagesOf, new
<1>2. CASE ~IsCached(io, n)
  <2>1. /\ page \in RowSets /\ KeysOf(page) = KeysOf(io.files[n])
        /\ page = {} <=> io.files[n] = {}
        /\ KeysOf(PagesOf(io, n, c)) = KeysOf(io.files[n])
    BY <1>2, SoundFacts, UncachedPages
  <2>2. new = IF page = {} THEN FirstRecord(io, n, pointer, r)
              ELSE IF Clashes(io, n, pointer, r) THEN io
              ELSE Cached(io, n, pointer, page \cup {r})
    BY <1>2 DEF AddRecord
  <2>3. ~Clashes(io, n, pointer, r) => r[1] \notin KeysOf(page)
    BY DEF Clashes
  <2>4. KeysOf({r}) = {r[1]} /\ KeysOf(page \cup {r}) = KeysOf(page) \cup {r[1]}
    BY DEF KeysOf
  <2> HIDE DEF page, new
  <2>5. CASE page = {}
    <3> DEFINE written == [io EXCEPT !.files[n] = Layout({r}, ColumnsAt(pointer))]
    <3>1. /\ written.entries = io.entries
          /\ written.files = [io.files EXCEPT ![n] = Layout({r}, ColumnsAt(pointer))]
          /\ FirstRecord(io, n, pointer, r) = Cached(written, n, pointer, {r})
          /\ {r} \in RowSets \ {{}}
      <4>1. IOOk(io)
        BY DEF Covered
      <4> QED
        BY <4>1, FirstRecordFacts
    <3>2. Covered(written)
      BY <1>2, <2>1, <2>5, CoveredWritten
    <3>3. KeysOf(Layout({r}, ColumnsAt(pointer))) = KeysOf({r})
      BY <3>1, SoundFacts, LayoutFacts DEF StoredRows
    <3>4. io.files \in [Names -> StoredRows]
      BY IOFacts DEF Covered
    <3> HIDE DEF written
    <3>5. KeysOf(written.files[n]) = KeysOf({r})
      BY <3>1, <3>3, <3>4
    <3>6. ~IsCached(written, n)
      BY <1>2, <3>1 DEF IsCached
    <3>7. KeysOf(PagesOf(Cached(written, n, pointer, {r}), n, c)) \subseteq KeysOf({r})
      BY <3>1, <3>2, <3>5, <3>6, CachedKeys
    <3> QED
      BY <2>2, <2>4, <2>5, <3>1, <3>7 DEF new
  <2>6. CASE page # {} /\ Clashes(io, n, pointer, r)
    BY <2>2, <2>6 DEF new
  <2>7. CASE page # {} /\ ~Clashes(io, n, pointer, r)
    <3>1. page \cup {r} \in RowSets \ {{}}
      BY <2>1, <2>3, <2>7, AddedRow
    <3>2. KeysOf(PagesOf(Cached(io, n, pointer, page \cup {r}), n, c)) \subseteq KeysOf(page \cup {r})
      BY <1>2, <2>1, <2>4, <3>1, CachedKeys
    <3> QED
      BY <2>1, <2>2, <2>4, <2>7, <3>2 DEF new
  <2> QED
    BY <2>5, <2>6, <2>7
<1> QED
  BY <1>1, <1>2

\* A table is removed; the files of the others stay.
LEMMA CoveredRemoved ==
    ASSUME NEW io, Covered(io), NEW n \in Names
    PROVE  /\ Covered(Removed(io, n)) /\ ~IsCached(Removed(io, n), n)
           /\ Removed(io, n).files = [io.files EXCEPT ![n] = {}]
           /\ \A m \in Names : m # n => Removed(io, n).files[m] = io.files[m]
<1> DEFINE new == Removed(io, n)
           rest == IF IsCached(io, n) THEN Uncached(io, n) ELSE io
<1>1. /\ IOOk(new) /\ new.entries = rest.entries
      /\ new.files = [io.files EXCEPT ![n] = {}] /\ IOOk(rest)
  BY RemovedFacts DEF Covered
<1>2. /\ io.entries \in Seq(Cachable) /\ io.files \in [Names -> StoredRows]
      /\ \A i \in 1 .. Len(io.entries) : Covers(io, io.entries[i]) /\ io.entries[i].name \in Names
      /\ \A i, j \in 1 .. Len(io.entries) : io.entries[i].name = io.entries[j].name => i = j
      /\ Len(io.entries) \in Nat
      /\ \A m \in Names : io.files[m] \in RowSets
  BY IOFacts, CachableElement, CachableFacts, DatabaseAssumption DEF Covered
<1>3. /\ new.files[n] = {}
      /\ \A m \in Names : m # n => new.files[m] = io.files[m]
  BY <1>1, <1>2
\* Every entry that is left is one of the old ones, of another table.
<1>4. PICK from \in [1 .. Len(rest.entries) -> 1 .. Len(io.entries)] :
         /\ \A j \in 1 .. Len(rest.entries) : /\ Alike(rest.entries[j], io.entries[from[j]])
                                              /\ io.entries[from[j]].name # n
         /\ \A j, k \in 1 .. Len(rest.entries) : from[j] = from[k] => j = k
  <2>1. CASE ~IsCached(io, n)
    <3> DEFINE from == [j \in 1 .. Len(io.entries) |-> j]
    <3>1. \A j \in 1 .. Len(io.entries) : io.entries[j].name # n
      BY <1>2, <2>1, CachedByName
    <3>2. rest = io /\ from \in [1 .. Len(rest.entries) -> 1 .. Len(io.entries)]
      BY <2>1
    <3> QED
      BY <3>1, <3>2 DEF Alike
  <2>2. CASE IsCached(io, n)
    <3> DEFINE i == EntryOf(io, n)
               N == Len(io.entries)
               from == [j \in 1 .. N - 1 |-> IF j = i THEN N ELSE j]
    <3>1. /\ Len(rest.entries) = N - 1
          /\ \A j \in 1 .. N - 1 :
                Alike(rest.entries[j], io.entries[IF j = i THEN N ELSE j])
      BY <2>2, UncachedFacts DEF Covered
    <3>2. i \in 1 .. N /\ io.entries[i].name = n
      BY <1>2, <2>2, EntryOfFacts
    <3> HIDE DEF i, rest
    <3>3. from \in [1 .. Len(rest.entries) -> 1 .. N]
      BY <1>2, <3>1, <3>2
    <3>4. \A j \in 1 .. N - 1 : from[j] # i /\ Alike(rest.entries[j], io.entries[from[j]])
      BY <1>2, <3>1, <3>2
    <3>5. \A j, k \in 1 .. N - 1 : from[j] = from[k] => j = k
      BY <1>2, <3>2
    <3>6. \A j \in 1 .. N - 1 : from[j] \in 1 .. N
      BY <3>1, <3>3
    <3> HIDE DEF from
    <3>7. \A j \in 1 .. N - 1 : io.entries[from[j]].name # n
      BY <1>2, <3>2, <3>4, <3>6
    <3> QED
      BY <3>1, <3>3, <3>4, <3>5, <3>7
  <2> QED
    BY <2>1, <2>2
<1> HIDE DEF new, rest
<1>5. \A j \in 1 .. Len(new.entries) : /\ from[j] \in 1 .. Len(io.entries)
                                       /\ Alike(new.entries[j], io.entries[from[j]])
                                       /\ io.entries[from[j]].name # n
  BY <1>1, <1>4
<1>6. \A j \in 1 .. Len(new.entries) : Covers(new, new.entries[j]) /\ new.entries[j].name # n
  <2> TAKE j \in 1 .. Len(new.entries)
  <2> DEFINE e == io.entries[from[j]]
             f == new.entries[j]
  <2>1. Covers(io, e) /\ e.name \in Names /\ e.name # n
    BY <1>2, <1>5
  <2>2. f.name = e.name /\ f.table = e.table /\ f.page = e.page
    BY <1>5 DEF Alike
  <2> HIDE DEF e, f
  <2>3. Covers(new, f) /\ f.name # n
    BY <1>3, <2>1, <2>2 DEF Covers
  <2> QED
    BY <2>3 DEF f
<1>7. \A j, k \in 1 .. Len(new.entries) : new.entries[j].name = new.entries[k].name => j = k
  <2> TAKE j, k \in 1 .. Len(new.entries)
  <2> HAVE new.entries[j].name = new.entries[k].name
  <2>1. io.entries[from[j]].name = io.entries[from[k]].name
    BY <1>5 DEF Alike
  <2>2. from[j] = from[k]
    BY <1>2, <1>5, <2>1
  <2> QED
    BY <1>1, <1>4, <2>2
<1>8. Covered(new)
  BY <1>1, <1>2, <1>3, <1>6, <1>7, SmallRowSets DEF Covered
<1>9. ~IsCached(new, n)
  BY <1>1, <1>6, CachedByName DEF IOOk, IOType
<1> QED
  BY <1>1, <1>3, <1>8, <1>9 DEF new

-----------------------------------------------------------------------------
(* The steps of the program *)

\* A statement that has dropped a table and is about to write its first row
\* finds neither a page nor a file with rows under the name it writes to.
RewriteStarts ==
    pending # Idle /\ pending.kind = "rewrite" /\ ~pending.started =>
        LET n == slots[pending.table.slot].name
        IN  ~IsCached(IO, n) /\ files[n] = {}

\* A statement that has altered a table adds rows of different keys, and none
\* that is there: no row is refused.
AlterFresh ==
    pending # Idle /\ pending.kind # "rewrite" =>
        /\ ColumnsAt(pending.table) = pending.columns
        /\ DistinctKeys(pending.rows)
        /\ \A i \in 1 .. Len(pending.rows) :
              pending.rows[i][1] \notin KeysOf(PagesOf(IO, pending.name, pending.columns))

PendingFresh == RewriteStarts /\ AlterFresh

FileInv == TypeInv /\ Covered(IO) /\ PendingFresh

\* What is asked of a step.
RowsStay == \A n \in Names : KeysOf(files[n]) \subseteq KeysOf(files'[n]) \/ Removes(n)

\* The array of tables does not move under the entries of the buffer, and a
\* table that is rewritten from memory is the only one.
TablesFound ==
    /\ "create" \notin Statements
    /\ \/ Statements \cap {"delete", "update", "refused update"} = {}
       \/ \E n : Names = {n}

\* The entries and files that an operation returns become the new ones.
LEMMA CoveredSet ==
    ASSUME NEW io, Covered(io), SetIO(io), SlotsStayTables
    PROVE  Covered(IO)'
<1>1. IOOk(io)
  BY DEF Covered
<1>2. IOOk(IO)'
  BY <1>1, SetIOFacts
<1>3. entries' = io.entries /\ files' = io.files
  BY DEF SetIO
<1>4. \A i \in 1 .. Len(io.entries) : Sound(io.entries[i].table)'
  <2>1. \A i \in 1 .. Len(io.entries) : Sound(io.entries[i].table)
    BY DEF Covered, Covers
  <2> QED
    BY <2>1, SoundStays
<1> QED
  BY <1>2, <1>3, <1>4 DEF Covered, Covers, IO, Sound

\* A step that loses no key.
LEMMA GrowingStep ==
    ASSUME NEW io, Covered(io), SetIO(io), SlotsStayTables, Grows(IO, io)
    PROVE  Covered(IO)' /\ RowsStay
<1>1. Covered(IO)'
  BY CoveredSet
<1>2. RowsStay
  BY DEF RowsStay, Grows, SetIO, IO
<1> QED
  BY <1>1, <1>2

\* A step that removes one table.
LEMMA RemovingStep ==
    ASSUME FileInv, NEW n \in Names, SetIO(Removed(IO, n)), SlotsStayTables, Removes(n)
    PROVE  /\ Covered(IO)' /\ RowsStay
           /\ files'[n] = {} /\ ~IsCached([entries |-> entries', files |-> files'], n)
<1>1. /\ Covered(Removed(IO, n)) /\ ~IsCached(Removed(IO, n), n)
      /\ Removed(IO, n).files = [files EXCEPT ![n] = {}]
      /\ \A m \in Names : m # n => Removed(IO, n).files[m] = files[m]
  <2>1. Covered(IO) /\ IO.files = files
    BY DEF FileInv, IO
  <2> QED
    BY <2>1, CoveredRemoved
<1>2. Covered(IO)'
  BY <1>1, CoveredSet
<1>3. entries' = Removed(IO, n).entries /\ files' = Removed(IO, n).files
  BY DEF SetIO
<1>4. RowsStay
  BY <1>1, <1>3 DEF RowsStay
<1>5. files'[n] = {}
  BY <1>1, <1>3 DEF FileInv, TypeInv, IOOk, IO, IOType
<1>6. ~IsCached([entries |-> entries', files |-> files'], n)
  BY <1>1, <1>3 DEF IsCached
<1> QED
  BY <1>2, <1>4, <1>5, <1>6

\* A step without a page or a file.
LEMMA UnchangedStep ==
    ASSUME FileInv, UNCHANGED <<entries, files>>, SlotsStayTables
    PROVE  Covered(IO)' /\ RowsStay
<1>1. Covered(IO) /\ SetIO(IO) /\ Grows(IO, IO)
  BY DEF FileInv, SetIO, IO, Grows
<1> QED
  BY <1>1, GrowingStep

\* A record is added while a statement runs.
LEMMA AddingStep ==
    ASSUME FileInv, NEW io, Covered(io), Grows(IO, io), NEW n \in Names, NEW pointer,
           Sound(pointer), NEW r \in Row
    PROVE  /\ Covered(AddRecord(io, n, pointer, r))
           /\ Grows(IO, AddRecord(io, n, pointer, r))
BY CoveredAdd, GrowsOn

\* Statements that do not remove a table.
LEMMA FileCreate ==
    ASSUME FileInv, TablesFound, NEW n \in Names, NEW columns \in NewTableColumns,
           CreateTable(n, columns)
    PROVE  Covered(IO)' /\ RowsStay /\ PendingFresh'
<1>1. /\ entries = <<>> /\ pending' = Idle /\ count < MaxTables
      /\ slots' = [slots EXCEPT ![count + 1] = [name |-> n, columns |-> columns]]
      /\ entries' = entries \/ entries' = EntriesDangling
      /\ files' = files
  BY DEF CreateTable, Typed, TablesFound
<1>2. EntriesDangling = <<>>
  BY <1>1 DEF EntriesDangling
<1>3. [name |-> n, columns |-> columns] \in Table
  BY DatabaseAssumption DEF Table
<1>4. SlotsStayTables
  BY <1>1, <1>3 DEF SlotsStayTables, FileInv, TypeInv, TablesOK
<1>5. Covered(IO)' /\ RowsStay
  BY <1>1, <1>2, <1>4, UnchangedStep
<1> QED
  BY <1>1, <1>5 DEF PendingFresh, RewriteStarts, AlterFresh

LEMMA FileInsert ==
    ASSUME FileInv, NEW n \in Names, NEW rows, Insert(n, rows), rows[1] \in Row,
           Len(rows) = 1 \/ rows[2] \in Row
    PROVE  Covered(IO)' /\ RowsStay /\ PendingFresh'
<1> DEFINE pointer == Pointer(SlotOf(n))
           first == AddRecord(IO, n, pointer, rows[1])
           io == IF Len(rows) = 1 \/ Clashes(IO, n, pointer, rows[1]) THEN first
                 ELSE AddRecord(first, n, pointer, rows[2])
<1>1. pending' = Idle /\ Exists(n) /\ SetIO(io) /\ slots' = slots
  BY DEF Insert, Typed
<1>2. Sound(pointer) /\ Covered(IO) /\ Grows(IO, IO)
  BY <1>1, TypedTable DEF FileInv, Grows
<1>3. Covered(first) /\ Grows(IO, first)
  BY <1>2, AddingStep
<1>4. Covered(io) /\ Grows(IO, io)
  <2> HIDE DEF first, pointer
  <2>1. Len(rows) # 1 => /\ Covered(AddRecord(first, n, pointer, rows[2]))
                         /\ Grows(IO, AddRecord(first, n, pointer, rows[2]))
    BY <1>2, <1>3, AddingStep
  <2> QED
    BY <1>3, <2>1
<1> HIDE DEF io
<1>5. Covered(IO)' /\ RowsStay
  BY <1>1, <1>4, GrowingStep DEF SlotsStayTables
<1> QED
  BY <1>1, <1>5 DEF PendingFresh, RewriteStarts, AlterFresh

LEMMA FileSelect ==
    ASSUME FileInv, NEW n \in Names, Select(n)
    PROVE  Covered(IO)' /\ RowsStay /\ PendingFresh'
<1> DEFINE pointer == Pointer(SlotOf(n))
           page == PagesOf(IO, n, ColumnsAt(pointer))
           io == IF IsCached(IO, n) THEN Found(IO, n)
                 ELSE IF page = {} THEN IO
                 ELSE Cached(IO, n, pointer, page)
<1>1. pending' = Idle /\ Exists(n) /\ SetIO(io) /\ slots' = slots
  BY DEF Select, Typed
<1>2. /\ Sound(pointer) /\ Covered(IO) /\ Grows(IO, IO) /\ IOOk(IO)
      /\ ColumnsAt(pointer) \in 1 .. MaxColumns
  BY <1>1, TypedTable, SoundFacts DEF FileInv, Grows, TypeInv
<1>3. Covered(io) /\ Grows(IO, io)
  <2>1. CASE IsCached(IO, n)
    <3>1. Covered(Found(IO, n)) /\ Grows(IO, Found(IO, n))
      <4>1. /\ IOOk(Found(IO, n)) /\ Found(IO, n).files = IO.files
            /\ Len(Found(IO, n).entries) = Len(IO.entries)
            /\ \A i \in 1 .. Len(IO.entries) : Alike(Found(IO, n).entries[i], IO.entries[i])
        BY <1>2, FoundFacts
      <4> QED
        BY <1>2, <4>1, CoveredAlike
    <3> QED
      BY <2>1, <3>1
  <2>2. CASE ~IsCached(IO, n) /\ page = {}
    BY <1>2, <2>2
  <2>3. CASE ~IsCached(IO, n) /\ page # {}
    <3>1. page \in RowSets \ {{}} /\ KeysOf(IO.files[n]) \subseteq KeysOf(page)
      BY <1>2, <2>3, UncachedPages
    <3> HIDE DEF page, pointer
    <3>2. Covered(Cached(IO, n, pointer, page)) /\ Grows(IO, Cached(IO, n, pointer, page))
      BY <1>2, <2>3, <3>1, CoveredCached
    <3> QED
      BY <2>3, <3>2
  <2> HIDE DEF page
  <2> QED
    BY <2>1, <2>2, <2>3
<1> HIDE DEF io
<1>4. Covered(IO)' /\ RowsStay
  BY <1>1, <1>3, GrowingStep DEF SlotsStayTables
<1> QED
  BY <1>1, <1>4 DEF PendingFresh, RewriteStarts, AlterFresh

\* Statements that remove a table.
LEMMA FileDrop ==
    ASSUME FileInv, NEW n \in Names, DropTable(n)
    PROVE  Covered(IO)' /\ RowsStay /\ PendingFresh'
<1>1. /\ pending' = Idle /\ Exists(n) /\ SetIO(Removed(IO, n)) /\ slots' = SlotsWithout(n)
  BY DEF DropTable, Typed
<1>2. SlotsStayTables
  BY <1>1, SlotsWithoutFacts DEF SlotsStayTables, FileInv
<1>3. Removes(n)
  BY DEF Removes
<1>4. Covered(IO)' /\ RowsStay
  BY <1>1, <1>2, <1>3, RemovingStep
<1> QED
  BY <1>1, <1>4 DEF PendingFresh, RewriteStarts, AlterFresh

LEMMA FileDeleteAll ==
    ASSUME FileInv, NEW n \in Names, DeleteAll(n)
    PROVE  Covered(IO)' /\ RowsStay /\ PendingFresh'
<1>1. pending' = Idle /\ Exists(n) /\ DropAndAddAgain(n)
  BY DEF DeleteAll, Typed
<1>2. SlotsStayTables /\ SetIO(Removed(IO, n))
  BY <1>1, DropAndAddAgainFacts DEF FileInv
<1>3. Removes(n)
  BY DEF Removes
<1>4. Covered(IO)' /\ RowsStay
  BY <1>2, <1>3, RemovingStep
<1> QED
  BY <1>1, <1>4 DEF PendingFresh, RewriteStarts, AlterFresh

\* The only table: what it points to after it was dropped is still this one.
LEMMA FileWriteBack ==
    ASSUME FileInv, FileInv => TypeInv', NEW n \in Names, Names = {n}, Exists(n),
           DropAndAddAgain(n), NEW rows, WriteBack(n, rows), Removes(n)
    PROVE  Covered(IO)' /\ RowsStay /\ PendingFresh'
<1>1. SlotsStayTables /\ SetIO(Removed(IO, n))
  BY DropAndAddAgainFacts DEF FileInv
<1>2. /\ Covered(IO)' /\ RowsStay
      /\ files'[n] = {} /\ ~IsCached([entries |-> entries', files |-> files'], n)
  BY <1>1, RemovingStep
<1>3. pending'.table.slot = SlotOf(n)
  BY DEF WriteBack, Pointer
<1>4. SlotOf(n) \in 1 .. MaxTables /\ slots[SlotOf(n)] \in Table
  BY TypedTable DEF FileInv
<1>5. slots'[SlotOf(n)] \in Table
  BY <1>1, <1>4 DEF SlotsStayTables
<1>6. slots'[pending'.table.slot].name = n /\ pending'.kind = "rewrite"
  BY <1>3, <1>5, TableFacts DEF WriteBack
<1> QED
  BY <1>2, <1>6 DEF PendingFresh, RewriteStarts, AlterFresh, IO, IsCached

\* A table that gets other columns is removed, or has no pages.
LEMMA FileAlter ==
    ASSUME FileInv, NEW n \in Names, NEW kind \in {"add", "drop"},
           NEW columns \in 1 .. MaxColumns, NEW rows, DistinctKeys(rows), NEW old,
           StartAlter(n, kind, columns, rows, old), Removes(n)
    PROVE  Covered(IO)' /\ RowsStay /\ PendingFresh'
<1>1. /\ SetIO(Removed(IO, n)) /\ slots' = slots
      /\ pending'.kind # "rewrite" /\ pending'.name = n /\ pending'.rows = rows
      /\ pending'.columns = columns /\ pending'.table = OwnTable(columns)
  BY DEF StartAlter
<1>2. /\ Covered(IO)' /\ RowsStay
      /\ files'[n] = {} /\ ~IsCached([entries |-> entries', files |-> files'], n)
  BY <1>1, RemovingStep DEF SlotsStayTables
<1>3. ColumnsAt(OwnTable(columns))' = columns
  BY DEF ColumnsAt, OwnTable
<1>4. KeysOf(PagesOf(IO, n, columns)') = {}
  <2>1. PagesOf(IO, n, columns)' = Layout({}, columns)
    BY <1>2 DEF PagesOf, IO, IsCached
  <2> QED
    BY <2>1 DEF Layout, KeysOf
<1>5. AlterFresh'
  BY <1>1, <1>3, <1>4 DEF AlterFresh
<1> QED
  BY <1>1, <1>2, <1>5 DEF PendingFresh, RewriteStarts

\* The rows of a table in their order are fit to be added again.
LEMMA FreshRows ==
    ASSUME FileInv, NEW n \in Names, Exists(n)
    PROVE  LET rows == RowsInOrder(n)
           IN  /\ DistinctKeys(rows) /\ DOMAIN rows = 1 .. Len(rows) /\ Len(rows) \in Nat
               /\ \A i \in 1 .. Len(rows) : rows[i] \in Row
<1>1. slots[SlotOf(n)].columns \in 1 .. MaxColumns /\ IOOk(IO)
  BY TypedTable DEF FileInv, TypeInv
<1>2. PagesOf(IO, n, slots[SlotOf(n)].columns) \in RowSets
  BY <1>1, PagesOfFacts
<1> QED
  BY <1>2, OrderedKeys DEF RowsInOrder, DistinctKeys

LEMMA FileAlterAdd ==
    ASSUME FileInv, NEW n \in Names, NEW value \in Values \cup {Null}, AlterAdd(n, value)
    PROVE  Covered(IO)' /\ RowsStay /\ PendingFresh'
<1> DEFINE columns == slots[SlotOf(n)].columns
           rows == RowsInOrder(n)
           longer == [i \in DOMAIN rows |-> RowWithValue(rows[i], columns, value)]
<1>1. /\ pending = Idle /\ Exists(n) /\ columns < MaxColumns
      /\ \/ /\ slots' = SlotsWithColumns(n, columns + 1)
            /\ catalog' = SavedCatalog(slots')
            /\ UNCHANGED <<up, count, room, entries, files, pending>>
         \/ StartAlter(n, "add", columns + 1, longer, PageInBuffer(n))
  BY DEF AlterAdd, Typed
<1>2. columns \in 1 .. MaxColumns /\ columns + 1 \in 1 .. MaxColumns
  BY <1>1, TypedTable, DatabaseAssumption DEF FileInv
<1>3. Removes(n)
  BY DEF Removes
<1>6. DistinctKeys(longer)
  <2>1. /\ DistinctKeys(rows) /\ DOMAIN rows = 1 .. Len(rows) /\ Len(rows) \in Nat
        /\ \A i \in 1 .. Len(rows) : rows[i] \in Row
    BY <1>1, FreshRows
  <2>2. \A i \in 1 .. Len(rows) : RowWithValue(rows[i], columns, value)[1] = rows[i][1]
    <3> TAKE i \in 1 .. Len(rows)
    <3>1. PICK r, c : r = rows[i] /\ c = columns
      OBVIOUS
    <3>2. r \in Row /\ c \in 1 .. MaxColumns /\ c + 1 \in 1 .. MaxColumns
      BY <1>2, <2>1, <3>1
    <3>3. RowWithValue(r, c, value)[1] = r[1]
      BY <3>2, RowWithValueFacts
    <3> QED
      BY <3>1, <3>3
  <2> HIDE DEF rows
  <2>3. Len(longer) = Len(rows) /\ \A i \in 1 .. Len(rows) : longer[i][1] = rows[i][1]
    BY <2>1, <2>2
  <2> QED
    BY <2>1, <2>3 DEF DistinctKeys
<1> HIDE DEF longer, columns
<1>4. CASE StartAlter(n, "add", columns + 1, longer, PageInBuffer(n))
  BY <1>2, <1>3, <1>4, <1>6, FileAlter
<1>5. CASE /\ slots' = SlotsWithColumns(n, columns + 1)
           /\ catalog' = SavedCatalog(slots')
           /\ UNCHANGED <<up, count, room, entries, files, pending>>
  <2>1. SlotsStayTables
    BY <1>2, <1>5, TypeColumns DEF FileInv
  <2> QED
    BY <1>1, <1>5, <2>1, UnchangedStep DEF PendingFresh, RewriteStarts, AlterFresh
<1> QED
  BY <1>1, <1>4, <1>5

LEMMA FileAlterDrop ==
    ASSUME FileInv, NEW n \in Names, NEW column \in 2 .. MaxColumns, AlterDrop(n, column)
    PROVE  Covered(IO)' /\ RowsStay /\ PendingFresh'
<1> DEFINE columns == slots[SlotOf(n)].columns
<1>1. /\ pending = Idle /\ Exists(n) /\ column \in 2 .. columns
      /\ \/ /\ slots' = SlotsWithColumns(n, columns - 1)
            /\ UNCHANGED <<up, count, room, entries, files, catalog, pending>>
         \/ StartAlter(n, "drop", columns - 1, RowsInOrder(n), {})
  BY DEF AlterDrop, Typed
<1>2. columns - 1 \in 1 .. MaxColumns
  BY <1>1, TypedTable, DatabaseAssumption DEF FileInv
<1>3. Removes(n)
  BY DEF Removes
<1>6. DistinctKeys(RowsInOrder(n))
  BY <1>1, FreshRows
<1> HIDE DEF columns
<1>4. CASE StartAlter(n, "drop", columns - 1, RowsInOrder(n), {})
  BY <1>2, <1>3, <1>4, <1>6, FileAlter
<1>5. CASE /\ slots' = SlotsWithColumns(n, columns - 1)
           /\ UNCHANGED <<up, count, room, entries, files, catalog, pending>>
  <2>1. SlotsStayTables
    BY <1>2, <1>5, TypeColumns DEF FileInv
  <2> QED
    BY <1>1, <1>5, <2>1, UnchangedStep DEF PendingFresh, RewriteStarts, AlterFresh
<1> QED
  BY <1>1, <1>4, <1>5

\* The rows of a statement are written one by one.
LEMMA FileRewriteRow ==
    ASSUME FileInv, RewriteRow
    PROVE  Covered(IO)' /\ RowsStay /\ PendingFresh'
<1> DEFINE pointer == pending.table
           n == slots[pointer.slot].name
           r == Head(pending.rows)
           io == IF pending.started THEN AddRecord(IO, n, pointer, r)
                 ELSE FirstRecord(IO, n, pointer, r)
<1>1. /\ up /\ pending.kind = "rewrite" /\ pending.rows # <<>> /\ SetIO(io)
      /\ pending' = [pending EXCEPT !.rows = Tail(@), !.started = TRUE]
      /\ slots' = slots
  BY DEF RewriteRow
<1>2. pending # Idle
  BY <1>1 DEF Idle
<1>3. /\ pending \in Unfinished /\ Sound(pointer) /\ r \in Row
      /\ Tail(pending.rows) \in Seq(Row) /\ pointer.slot \in 1 .. count /\ Covered(IO)
  BY <1>1, <1>2, PendingRows DEF FileInv, TypeInv, PendingOK
<1>4. n \in Names
  <2>1. pointer.slot # 0
    BY <1>3 DEF FileInv, TypeInv, TablesOK
  <2> QED
    BY <1>3, <2>1, TableFacts DEF Sound
<1>5. Covered(io) /\ Grows(IO, io)
  <2>1. CASE pending.started
    <3> HIDE DEF n, r, pointer
    <3>1. Covered(AddRecord(IO, n, pointer, r)) /\ Grows(IO, AddRecord(IO, n, pointer, r))
      BY <1>3, <1>4, CoveredAdd
    <3> QED
      BY <2>1, <3>1
  <2>2. CASE ~pending.started
    <3>1. ~IsCached(IO, n) /\ IO.files[n] = {}
      BY <1>1, <1>2, <2>2 DEF FileInv, PendingFresh, RewriteStarts, AlterFresh, IO
    <3> HIDE DEF n, r, pointer
    <3>2. Covered(FirstRecord(IO, n, pointer, r)) /\ Grows(IO, FirstRecord(IO, n, pointer, r))
      BY <1>3, <1>4, <3>1, CoveredFirst
    <3> QED
      BY <2>2, <3>2
  <2> QED
    BY <2>1, <2>2
<1> HIDE DEF io
<1>6. Covered(IO)' /\ RowsStay
  BY <1>1, <1>5, GrowingStep DEF SlotsStayTables
<1>7. pending'.started /\ pending'.kind = "rewrite"
  BY <1>1, <1>3 DEF Unfinished
<1> QED
  BY <1>6, <1>7 DEF PendingFresh, RewriteStarts, AlterFresh

LEMMA FileAlterRow ==
    ASSUME FileInv, AlterRow
    PROVE  Covered(IO)' /\ RowsStay /\ PendingFresh'
<1> DEFINE r == Head(pending.rows)
           io == AddRecord(IO, pending.name, pending.table, r)
<1>1. /\ pending.kind \in {"add", "drop"} /\ pending.rows # <<>> /\ SetIO(io)
      /\ pending' = [pending EXCEPT !.rows = Tail(@)]
      /\ slots' = slots
  BY DEF AlterRow, Alters
<1>2. pending # Idle
  BY <1>1 DEF Idle
<1>3. /\ pending \in Unfinished /\ Sound(pending.table) /\ r \in Row
      /\ pending.name \in Names /\ Covered(IO)
  BY <1>1, <1>2, PendingRows, UnfinishedFacts DEF FileInv
<1>4. Covered(io) /\ Grows(IO, io)
  BY <1>3, CoveredAdd
<1>5. Covered(IO)' /\ RowsStay
  BY <1>1, <1>4, GrowingStep DEF SlotsStayTables
<1>6. /\ pending'.kind # "rewrite" /\ pending'.rows = Tail(pending.rows)
      /\ pending'.name = pending.name /\ pending'.table = pending.table
      /\ pending'.columns = pending.columns
  <2>1. pending' = [pending EXCEPT !.rows = Tail(pending.rows)]
    BY <1>1
  <2> QED
    BY <1>1, <1>3, <2>1 DEF Unfinished
<1>7. AlterFresh'
  <2> DEFINE n == pending.name
             c == pending.columns
             rows == pending.rows
  <2>1. /\ ColumnsAt(pending.table) = c /\ DistinctKeys(rows) /\ c \in 1 .. MaxColumns
        /\ \A i \in 1 .. Len(rows) : rows[i][1] \notin KeysOf(PagesOf(IO, n, c))
    BY <1>1, <1>2, <1>3, UnfinishedFacts DEF FileInv, PendingFresh, AlterFresh
  <2>2. ColumnsAt(pending.table)' = c
    BY <1>1, <1>6, <2>1 DEF ColumnsAt
  <2>3. rows \in Seq(Row) /\ rows # <<>>
    BY <1>1, <1>3, UnfinishedFacts
  <2>4. IO' = io
    BY <1>1, NewIO, <1>4 DEF Covered
  <2>5. KeysOf(PagesOf(io, n, c)) \subseteq KeysOf(PagesOf(IO, n, c)) \cup {r[1]}
    BY <1>3, <2>1, KeysAdded
  <2> HIDE DEF io, n, c, rows
  <2>6. Len(Tail(rows)) = Len(rows) - 1 /\ Len(rows) \in Nat
        /\ r = rows[1] /\ \A i \in 1 .. Len(Tail(rows)) : Tail(rows)[i] = rows[i + 1]
    BY <2>3 DEF rows
  <2>7. \A i \in 1 .. Len(Tail(rows)) : i + 1 \in 1 .. Len(rows) /\ i + 1 # 1 /\ 1 \in 1 .. Len(rows)
    BY <2>6
  <2>8. DistinctKeys(Tail(rows))
    BY <2>1, <2>6, <2>7 DEF DistinctKeys
  <2>9. \A i \in 1 .. Len(Tail(rows)) : Tail(rows)[i][1] \notin KeysOf(PagesOf(io, n, c))
    BY <2>1, <2>5, <2>6, <2>7 DEF DistinctKeys
  <2>10. PagesOf(IO, n, c)' = PagesOf(io, n, c)
    BY <1>6, <2>4 DEF PagesOf, n, c
  <2> QED
    BY <1>6, <2>2, <2>8, <2>9, <2>10 DEF AlterFresh, n, c, rows
<1> QED
  BY <1>5, <1>6, <1>7 DEF PendingFresh, RewriteStarts

\* The first page is refused: of a row that clashes nothing can be said, for
\* none does.  The page that was in the buffer covers a file without rows.
LEMMA FileAlterFails ==
    ASSUME FileInv, AlterFails
    PROVE  Covered(IO)' /\ RowsStay /\ PendingFresh'
<1> DEFINE n == pending.name
           r == Head(pending.rows)
           clash == Clashes(IO, n, pending.table, r)
           io == IF clash THEN AddRecord(IO, n, pending.table, r) ELSE IO
           new == IF pending.old = {} THEN io ELSE Cached(io, n, Pointer(SlotOf(n)), pending.old)
<1>1. /\ pending.kind \in {"add", "drop"} /\ pending.rows # <<>>
      /\ clash \/ MakesPage(IO, n, pending.table)
      /\ SetIO(new) /\ pending' = Idle /\ slots' = slots
  BY DEF AlterFails, Alters
<1>2. pending # Idle
  BY <1>1 DEF Idle
<1>3. /\ pending \in Unfinished /\ r \in Row /\ n \in Names /\ Exists(n)
      /\ pending.rows \in Seq(Row) /\ pending.columns \in 1 .. MaxColumns
      /\ pending.old \in RowSets /\ Covered(IO) /\ TypeInv
  BY <1>1, <1>2, PendingRows, UnfinishedFacts DEF FileInv, TypeInv, PendingOK
<1>4. Sound(Pointer(SlotOf(n)))
  BY <1>3, TypedTable
<1>5. ColumnsAt(pending.table) = pending.columns /\ ~clash
  <2>1. /\ ColumnsAt(pending.table) = pending.columns
        /\ \A i \in 1 .. Len(pending.rows) :
              pending.rows[i][1] \notin KeysOf(PagesOf(IO, n, pending.columns))
    BY <1>1, <1>2 DEF FileInv, PendingFresh, AlterFresh
  <2>2. 1 \in 1 .. Len(pending.rows) /\ r = pending.rows[1]
    BY <1>1, <1>3
  <2> QED
    BY <2>1, <2>2 DEF Clashes
<1>6. io = IO /\ ~IsCached(IO, n) /\ PagesOf(IO, n, pending.columns) = {}
  BY <1>1, <1>5 DEF MakesPage
<1>7. IO.files[n] = {}
  BY <1>3, <1>6, UncachedPages
<1> HIDE DEF io, n
<1>8. Covered(new) /\ Grows(IO, new)
  <2>1. CASE pending.old = {}
    BY <1>3, <1>6, <2>1 DEF Grows
  <2>2. CASE pending.old # {}
    <3>1. pending.old \in RowSets \ {{}} /\ KeysOf(IO.files[n]) \subseteq KeysOf(pending.old)
      BY <1>3, <1>7, <2>2 DEF KeysOf
    <3>2. /\ Covered(Cached(IO, n, Pointer(SlotOf(n)), pending.old))
          /\ Grows(IO, Cached(IO, n, Pointer(SlotOf(n)), pending.old))
      BY <1>3, <1>4, <1>6, <3>1, CoveredCached
    <3> QED
      BY <1>6, <2>2, <3>2
  <2> QED
    BY <2>1, <2>2
<1> HIDE DEF new
<1>9. Covered(IO)' /\ RowsStay
  BY <1>1, <1>8, GrowingStep DEF SlotsStayTables
<1> QED
  BY <1>1, <1>9 DEF PendingFresh, RewriteStarts, AlterFresh

LEMMA FileRewriteFails ==
    ASSUME FileInv, RewriteFails
    PROVE  Covered(IO)' /\ RowsStay /\ PendingFresh'
<1>1. pending' = Idle /\ slots' = slots /\ UNCHANGED <<entries, files>>
  BY DEF RewriteFails
<1>2. Covered(IO)' /\ RowsStay
  BY <1>1, UnchangedStep DEF SlotsStayTables
<1> QED
  BY <1>1, <1>2 DEF PendingFresh, RewriteStarts, AlterFresh

LEMMA FileFinish ==
    ASSUME FileInv, Finish
    PROVE  Covered(IO)' /\ RowsStay /\ PendingFresh'
<1>1. /\ pending # Idle /\ pending' = Idle
      /\ UNCHANGED <<up, count, room, entries, files>>
      /\ slots' = IF pending.kind = "rewrite" THEN slots
                  ELSE SlotsWithColumns(pending.name, pending.columns)
      /\ catalog' = catalog \/ catalog' = SavedCatalog(slots')
  BY DEF Finish
<1>2. pending.columns \in 1 .. MaxColumns
  BY <1>1, UnfinishedFacts DEF FileInv, TypeInv, PendingOK
<1>3. SlotsStayTables
  <2>1. CASE slots' = slots
    BY <2>1 DEF SlotsStayTables
  <2>2. CASE slots' = SlotsWithColumns(pending.name, pending.columns)
    BY <1>1, <1>2, <2>2, TypeColumns DEF FileInv
  <2> QED
    BY <1>1, <2>1, <2>2
<1> QED
  BY <1>1, <1>3, UnchangedStep DEF PendingFresh, RewriteStarts, AlterFresh

\* The end of the process: the buffer is empty.
LEMMA FileEnded ==
    ASSUME TypeInv', entries' = <<>>, pending' = Idle, \A n \in Names : files'[n] \in RowSets
    PROVE  Covered(IO)' /\ PendingFresh'
<1>1. IOOk(IO)'
  BY DEF TypeInv
<1>2. Len(entries') = 0
  OBVIOUS
<1>3. Covered(IO)'
  BY <1>1, <1>2 DEF Covered, IO
<1> QED
  BY <1>3 DEF PendingFresh, RewriteStarts, AlterFresh

\* <quit> writes the pages of one entry over the file they cover.
LEMMA FileQuit ==
    ASSUME FileInv, TypeInv', Quit
    PROVE  Covered(IO)' /\ RowsStay /\ PendingFresh'
<1>1. entries' = <<>> /\ pending' = Idle /\ files' \in Flushed(IO)
  BY DEF Quit, Ended
<1>2. /\ entries \in Seq(Cachable) /\ files \in [Names -> StoredRows]
      /\ \A m \in Names : files[m] \in RowSets
      /\ \A i \in 1 .. Len(entries) : Covers(IO, entries[i])
  BY DEF FileInv, TypeInv, IOOk, IO, IOType, Covered
<1>3. /\ \A m \in Names : files'[m] \in RowSets
      /\ \A m \in Names : KeysOf(files[m]) \subseteq KeysOf(files'[m])
  <2>1. CASE entries = <<>>
    BY <1>1, <1>2, <2>1 DEF Flushed, IO
  <2>2. CASE entries # <<>>
    <3> DEFINE e == entries[1]
    <3>1. 1 \in 1 .. Len(entries)
      BY <1>2, <2>2
    <3>2. e \in Cachable /\ Sound(e.table) /\ KeysOf(files[e.name]) \subseteq KeysOf(e.page)
      BY <1>2, <3>1 DEF Covers, IO
    <3>3. e.name \in Names /\ e.page \in RowSets
      BY <3>2, CachableFacts
    <3>4. e.table # Dangling
      BY <3>2, DatabaseAssumption DEF Sound, Dangling
    <3> DEFINE written == Layout(e.page, ColumnsAt(e.table))
    <3>5. files' = [files EXCEPT ![e.name] = written]
      BY <1>1, <2>2, <3>4 DEF Flushed, IO, ColumnsRead
    <3>6. written \in RowSets /\ KeysOf(written) = KeysOf(e.page)
      BY <3>2, <3>3, SoundFacts, LayoutFacts DEF StoredRows
    <3> HIDE DEF written, e
    <3>7. files'[e.name] = written /\ \A m \in Names : m # e.name => files'[m] = files[m]
      BY <1>2, <3>3, <3>5
    <3> QED
      BY <1>2, <3>2, <3>6, <3>7
  <2> QED
    BY <2>1, <2>2
<1>4. RowsStay
  BY <1>3 DEF RowsStay
<1> QED
  BY <1>1, <1>3, <1>4, FileEnded

LEMMA FileCrash ==
    ASSUME FileInv, TypeInv', Crash
    PROVE  Covered(IO)' /\ RowsStay /\ PendingFresh'
<1>1. entries' = <<>> /\ pending' = Idle /\ files' = files
  BY DEF Crash, Ended
<1>2. \A n \in Names : files[n] \in RowSets
  BY DEF FileInv, Covered, IO
<1> QED
  BY <1>1, <1>2, FileEnded DEF RowsStay

LEMMA FileStart ==
    ASSUME FileInv, TypeInv', Start
    PROVE  Covered(IO)' /\ RowsStay /\ PendingFresh'
<1>1. entries' = <<>> /\ pending' = Idle /\ files' = files
  BY DEF Start, FileInv, TypeInv, StoppedOK
<1>2. \A n \in Names : files[n] \in RowSets
  BY DEF FileInv, Covered, IO
<1> QED
  BY <1>1, <1>2, FileEnded DEF RowsStay

\* Every step keeps the invariant, and rows in their files.
LEMMA FileNext ==
    ASSUME TablesFound, FileInv, [Next]_vars
    PROVE  FileInv' /\ RowsStay
<1>0. TypeInv'
  BY TypeNext DEF FileInv
<1> SUFFICES Covered(IO)' /\ RowsStay /\ PendingFresh'
  BY <1>0 DEF FileInv
<1>1. ASSUME NEW n \in Names, NEW columns \in NewTableColumns, CreateTable(n, columns)
      PROVE  Covered(IO)' /\ RowsStay /\ PendingFresh'
  BY <1>1, FileCreate
<1>2. ASSUME NEW n \in Names, NEW r \in TypedRows(n), Insert(n, <<r>>)
      PROVE  Covered(IO)' /\ RowsStay /\ PendingFresh'
  BY <1>2, NewRowsTyped, FileInsert DEF FileInv
<1>3. ASSUME NEW n \in Names, NEW r \in TypedRows(n), NEW s \in TypedRows(n), Insert(n, <<r, s>>)
      PROVE  Covered(IO)' /\ RowsStay /\ PendingFresh'
  <2>1. <<r, s>>[1] \in Row /\ <<r, s>>[2] \in Row
    BY NewRowsTyped DEF FileInv
  <2> QED
    BY <1>3, <2>1, FileInsert
<1>4. ASSUME NEW n \in Names, Select(n) \/ DropTable(n) \/ DeleteAll(n)
      PROVE  Covered(IO)' /\ RowsStay /\ PendingFresh'
  BY <1>4, FileSelect, FileDrop, FileDeleteAll
<1>5. ASSUME NEW n \in Names, Exists(n), DropAndAddAgain(n), NEW rows, WriteBack(n, rows),
             Removes(n), Statements \cap {"delete", "update", "refused update"} # {}
      PROVE  Covered(IO)' /\ RowsStay /\ PendingFresh'
  <2>1. Names = {n}
    BY <1>5 DEF TablesFound
  <2> QED
    BY <1>0, <1>5, <2>1, FileWriteBack
<1>6. ASSUME NEW n \in Names, NEW key \in Keys, Delete(n, key)
      PROVE  Covered(IO)' /\ RowsStay /\ PendingFresh'
  <2>1. /\ Exists(n) /\ DropAndAddAgain(n) /\ WriteBack(n, KeptByDelete(n, key))
        /\ "delete" \in Statements /\ Removes(n)
    BY <1>6 DEF Delete, Typed, Removes
  <2> QED
    BY <1>5, <2>1
<1>7. ASSUME NEW n \in Names, NEW key \in Keys, RefusedUpdate(n, key)
      PROVE  Covered(IO)' /\ RowsStay /\ PendingFresh'
  <2>1. PICK rows : /\ Exists(n) /\ DropAndAddAgain(n) /\ WriteBack(n, rows)
                    /\ "refused update" \in Statements /\ Removes(n)
    BY <1>7 DEF RefusedUpdate, Typed, Removes
  <2> QED
    BY <1>5, <2>1
<1>8. ASSUME NEW n \in Names, NEW key \in Keys, NEW column \in 1 .. MaxColumns,
             NEW value \in Keys \cup Values, Update(n, key, column, value)
      PROVE  Covered(IO)' /\ RowsStay /\ PendingFresh'
  <2>1. PICK rows : /\ Exists(n) /\ DropAndAddAgain(n) /\ WriteBack(n, rows)
                    /\ "update" \in Statements
    BY <1>8 DEF Update, Typed
  <2>2. Removes(n)
    BY <1>8 DEF Removes
  <2> QED
    BY <1>5, <2>1, <2>2
<1>9. ASSUME NEW n \in Names, NEW key \in Keys, NEW new \in Keys, Update(n, key, 1, new)
      PROVE  Covered(IO)' /\ RowsStay /\ PendingFresh'
  <2>1. 1 \in 1 .. MaxColumns
    <3>1. Exists(n)
      BY <1>9 DEF Update
    <3> QED
      BY <3>1, TypedTable, DatabaseAssumption DEF FileInv
  <2> QED
    BY <1>8, <1>9, <2>1
<1>10. ASSUME NEW n \in Names, NEW key \in Keys, NEW column \in 2 .. MaxColumns,
              NEW value \in Values, Update(n, key, column, value)
      PROVE  Covered(IO)' /\ RowsStay /\ PendingFresh'
  <2>1. column \in 1 .. MaxColumns
    BY DatabaseAssumption
  <2> QED
    BY <1>8, <1>10, <2>1
<1>11. ASSUME NEW n \in Names, NEW value \in Values \cup {Null}, AlterAdd(n, value)
      PROVE  Covered(IO)' /\ RowsStay /\ PendingFresh'
  BY <1>11, FileAlterAdd
<1>12. ASSUME NEW n \in Names, NEW column \in 2 .. MaxColumns, AlterDrop(n, column)
      PROVE  Covered(IO)' /\ RowsStay /\ PendingFresh'
  BY <1>12, FileAlterDrop
<1>13. CASE Continue
  BY <1>13, FileRewriteRow, FileRewriteFails, FileAlterRow, FileAlterFails, FileFinish DEF Continue
<1>14. CASE Quit \/ Crash \/ Start
  BY <1>0, <1>14, FileQuit, FileCrash, FileStart
<1>15. CASE UNCHANGED vars
  <2>1. Covered(IO)' /\ RowsStay
    BY <1>15, UnchangedStep DEF vars, SlotsStayTables
  <2>2. /\ IO' = IO /\ ColumnsAt(pending.table)' = ColumnsAt(pending.table)
        /\ PagesOf(IO, pending.name, pending.columns)' = PagesOf(IO, pending.name, pending.columns)
    BY <1>15 DEF vars, IO, ColumnsAt, PagesOf, IsCached
  <2>3. RewriteStarts' /\ AlterFresh'
    BY <1>15, <2>2 DEF vars, FileInv, PendingFresh, RewriteStarts, AlterFresh, IsCached
  <2> QED
    BY <2>1, <2>3 DEF PendingFresh
<1>16. ASSUME NEW n \in Names, InsertRefused(n) PROVE Covered(IO)' /\ RowsStay /\ PendingFresh'
  BY <1>15, <1>16 DEF InsertRefused
<1> QED
  BY <1>1, <1>2, <1>3, <1>4, <1>6, <1>7, <1>9, <1>10, <1>11, <1>12, <1>13, <1>14, <1>15, <1>16 DEF Next

\* The empty database.
LEMMA FileInit == Init => FileInv
<1> SUFFICES ASSUME Init PROVE FileInv
  OBVIOUS
<1>1. TypeInv
  BY TypeInit
<1>2. Len(entries) = 0 /\ pending = Idle /\ \A n \in Names : files[n] \in RowSets
  BY SmallRowSets DEF Init
<1>3. Covered(IO)
  BY <1>1, <1>2 DEF Covered, IO, TypeInv
<1> QED
  BY <1>1, <1>2, <1>3 DEF FileInv, PendingFresh, RewriteStarts, AlterFresh

\* A row that has reached the file of its table stays there through crashes,
\* restarts, evictions and the statements on other tables, as long as no
\* table is created while pages are in the buffer, and a delete or an update
\* only if there is one table (else they write over another one).
THEOREM RowsStayStored == TablesFound => (Spec => StoredRowsStay)
<1> SUFFICES ASSUME TablesFound PROVE Spec => StoredRowsStay
  OBVIOUS
<1>1. Init => FileInv
  BY FileInit
<1>2. FileInv /\ [Next]_vars => FileInv'
  BY FileNext
<1>3. FileInv /\ [Next]_vars => [RowsStay]_vars
  BY FileNext
<1> QED
  BY <1>1, <1>2, <1>3, PTL DEF Spec, StoredRowsStay, RowsStay

-----------------------------------------------------------------------------
(* One entry for a table, although most statements that add pages to the    *)
(* buffer do not look for an entry first.                                   *)

LEMMA SingleCounts ==
    ASSUME TypeInv, Single(IO)
    PROVE  CachedOnce
<1> SUFFICES ASSUME NEW n \in Names PROVE Cardinality(EntriesOf(entries, n)) <= 1
  BY DEF CachedOnce
<1>1. entries \in Seq(Cachable)
  BY DEF TypeInv, IOOk, IOType, IO
<1>2. \A i, j \in EntriesOf(entries, n) : i = j
  BY <1>1 DEF EntriesOf, Single, IO
<1>3. CASE EntriesOf(entries, n) = {}
  BY <1>3, FS_EmptySet
<1>4. CASE EntriesOf(entries, n) # {}
  <2>1. PICK i : EntriesOf(entries, n) = {i}
    BY <1>2, <1>4
  <2> QED
    BY <2>1, FS_Singleton
<1> QED
  BY <1>3, <1>4

\* A table has one entry in the buffer, for every number of tables and rows:
\* where the statements that confuse tables are kept apart (Separate), or,
\* with crashes at any moment and a buffer of any size, where no table is
\* created while pages are cached and a delete or an update finds one table
\* (TablesFound).
THEOREM TablesCachedOnce == Separate \/ TablesFound => (Spec => []CachedOnce)
<1>1. Init => StoreInv /\ FileInv
  BY StoreInit, FileInit
<1>2. Separate /\ StoreInv /\ [Next]_vars => StoreInv'
  BY StoreNext
<1>3. TablesFound /\ FileInv /\ [Next]_vars => FileInv'
  BY FileNext
<1>4. StoreInv => CachedOnce
  BY SingleCounts DEF StoreInv
<1>5. FileInv => CachedOnce
  BY SingleCounts DEF FileInv, Covered, Single
<1>6. CASE Separate
  <2>1. StoreInv /\ [Next]_vars => StoreInv'
    BY <1>2, <1>6
  <2> QED
    BY <1>1, <1>4, <2>1, PTL DEF Spec
<1>7. CASE TablesFound
  <2>1. FileInv /\ [Next]_vars => FileInv'
    BY <1>3, <1>7
  <2> QED
    BY <1>1, <1>5, <2>1, PTL DEF Spec
<1> QED
  BY <1>6, <1>7

-----------------------------------------------------------------------------
(* No value is read where there is none.  A file may be read with the       *)
(* columns of an older catalog, or as the file of a table that the catalog  *)
(* has lost: its rows have values for all the columns that it may be read   *)
(* with, now or after a crash.                                              *)

Whole(rows) == \A r \in rows : Garbled \notin Range(r)

\* The rows have values, and not only bits, for so many columns.
Filled(rows, columns) ==
    \A r \in rows : Len(r) >= columns /\ \A i \in 1 .. columns : r[i] # Gone

\* The numbers of columns with which the file of a table may be read: those of
\* a new table, of the catalog, and of the table that there is.
Widths(n) ==
    NewTableColumns \cup
    {catalog[i].columns : i \in {j \in 1 .. Len(catalog) : catalog[j].name = n}} \cup
    (IF up /\ Exists(n) THEN {Current(n)} ELSE {})

FilesReadable ==
    \A n \in Names : /\ files[n] \in RowSets /\ Whole(files[n])
                     /\ \A c \in Widths(n) : Filled(files[n], c)

\* The tables in memory are those of the catalog, or have got more columns.
TablesGrow ==
    /\ up => /\ \A n \in Names : Exists(n) => \A c \in Widths(n) : c <= Current(n)
             /\ \A i \in 1 .. Len(catalog) : Exists(catalog[i].name)
    /\ \A i \in 1 .. Len(catalog), c \in NewTableColumns : c <= catalog[i].columns

BufferReadable ==
    \A h \in Held(IO) :
        /\ Exists(h.name) /\ h.table # Dangling /\ ColumnsAt(h.table) = Current(h.name)
        /\ h.table = Pointer(SlotOf(h.name)) \/ h.table.slot = 0
        /\ Whole(h.page) /\ Filled(h.page, Current(h.name))

\* No row that is left clashes, and the page that may be put back is one of
\* the table before it was altered, which the catalog still describes.
PendingWhole ==
    pending # Idle =>
        /\ pending.kind = "add" /\ Exists(pending.name)
        /\ pending.table = OwnTable(pending.columns)
        /\ Whole(Range(pending.rows)) /\ Filled(Range(pending.rows), pending.columns)
        /\ DistinctKeys(pending.rows)
        /\ \A i \in 1 .. Len(pending.rows) :
              pending.rows[i][1] \notin KeysOf(Pages(pending.name))
        /\ Whole(pending.old) /\ Filled(pending.old, ColumnsOf(pending.name))
        /\ \A i \in 1 .. Len(catalog) :
              catalog[i].name = pending.name => catalog[i].columns <= ColumnsOf(pending.name)
        /\ \A c \in NewTableColumns : c <= ColumnsOf(pending.name)

ReadInv ==
    /\ TypeInv
    /\ Single(IO) /\ NamedOnce(slots, count) /\ NamedOnce(catalog, Len(catalog))
    /\ FilesReadable /\ TablesGrow /\ BufferReadable /\ PendingWhole

\* Statements that never take rows or columns away, with room in the buffer for
\* every table, and new tables that are alike; a crash may come at any moment.
Growing ==
    /\ IsFiniteSet(Names) /\ Cardinality(Names) <= MaxPages
    /\ \A c, d \in NewTableColumns : c = d
    /\ Statements \subseteq
          {"create first", "insert", "select", "add column", "add null column", "quit", "crash"}

\* What is read of a row for its columns are values, and beyond them bits.
LEMMA ReadWhole ==
    ASSUME NEW r \in Row, NEW c \in 1 .. MaxColumns, Len(r) >= c, Garbled \notin Range(r),
           \A i \in 1 .. c : r[i] # Gone
    PROVE  LET t == WithColumns(r, c)
           IN  Garbled \notin Range(t) /\ Len(t) >= c /\ \A i \in 1 .. c : t[i] # Gone
<1> DEFINE t == WithColumns(r, c)
<1>1. /\ r \in [1 .. Len(r) -> Value] /\ Len(r) \in Nat /\ c \in Nat /\ c >= 1
      /\ DOMAIN r = 1 .. Len(r) /\ \A i \in 1 .. Len(r) : r[i] # Garbled
  <2>1. r \in [1 .. Len(r) -> Value] /\ Len(r) \in Nat /\ c \in Nat /\ c >= 1
    BY RowFacts, DatabaseAssumption
  <2> QED
    BY <2>1 DEF Range
<1>2. t = [i \in 1 .. Len(r) |-> IF i > c THEN BitOf(r[i]) ELSE Written(r[i])]
  <2>1. DOMAIN r \cup 1 .. c = 1 .. Len(r) /\ c # 0
    BY <1>1
  <2> QED
    BY <1>1, <2>1 DEF WithColumns
<1>3. \A x : BitOf(x) # Garbled
  BY DatabaseAssumption DEF BitOf
<1>4. \A i \in 1 .. c : Written(r[i]) # Garbled /\ Written(r[i]) # Gone
  <2> TAKE i \in 1 .. c
  <2>1. r[i] # Garbled /\ r[i] # Gone
    BY <1>1
  <2> QED
    BY <2>1, DatabaseAssumption DEF Written
<1> HIDE DEF t
<1>5. Len(t) = Len(r) /\ DOMAIN t = 1 .. Len(r)
  BY <1>1, <1>2
<1>6. \A i \in 1 .. Len(r) : t[i] = IF i > c THEN BitOf(r[i]) ELSE Written(r[i])
  BY <1>2
<1>7. \A i \in 1 .. Len(r) : t[i] # Garbled
  <2> TAKE i \in 1 .. Len(r)
  <2>1. CASE i > c
    BY <1>3, <1>6, <2>1
  <2>2. CASE ~(i > c)
    <3>1. i \in 1 .. c
      BY <1>1, <2>2
    <3> QED
      BY <1>4, <1>6, <2>2, <3>1
  <2> QED
    BY <2>1, <2>2
<1>8. \A i \in 1 .. c : t[i] # Gone
  <2>1. \A i \in 1 .. c : i \in 1 .. Len(r) /\ ~(i > c)
    BY <1>1
  <2> QED
    BY <1>4, <1>6, <2>1
<1> QED
  BY <1>5, <1>7, <1>8 DEF Range, t

\* Rows are read with their columns, or fewer.
LEMMA WholeLayout ==
    ASSUME NEW rows, rows \subseteq Row, NEW c \in 1 .. MaxColumns, Whole(rows), Filled(rows, c)
    PROVE  Whole(Layout(rows, c)) /\ Filled(Layout(rows, c), c)
<1>1. \A r \in rows :
         /\ Garbled \notin Range(WithColumns(r, c)) /\ Len(WithColumns(r, c)) >= c
         /\ \A i \in 1 .. c : WithColumns(r, c)[i] # Gone
  BY ReadWhole DEF Whole, Filled
<1>2. \A t \in Layout(rows, c) : \E r \in rows : t = WithColumns(r, c)
  BY DEF Layout
<1> HIDE DEF Layout
<1> QED
  BY <1>1, <1>2 DEF Whole, Filled

\* Rows with values for some columns have values for fewer columns.
LEMMA FewerFilled ==
    ASSUME NEW rows, rows \subseteq Row, NEW c \in Nat, NEW d \in Nat, d <= c, Filled(rows, c)
    PROVE  Filled(rows, d)
<1>1. \A r \in rows : Len(r) \in Nat
  BY RowFacts
<1>2. \A i \in 1 .. d : i \in 1 .. c
  OBVIOUS
<1> QED
  BY <1>1, <1>2 DEF Filled

\* The numbers of columns a file may be read with are numbers of columns.
LEMMA WidthsTyped ==
    ASSUME TypeInv, NEW n, up /\ Exists(n) => Current(n) \in 1 .. MaxColumns
    PROVE  \A c \in Widths(n) : c \in 1 .. MaxColumns /\ c \in Nat
<1>1. \A c \in NewTableColumns : c \in 1 .. MaxColumns
  BY DatabaseAssumption
<1>2. \A i \in 1 .. Len(catalog) : catalog[i].columns \in 1 .. MaxColumns
  BY TableFacts DEF TypeInv, TablesOK
<1>3. \A c \in Widths(n) : c \in 1 .. MaxColumns
  BY <1>1, <1>2 DEF Widths
<1> QED
  BY <1>3, DatabaseAssumption

\* What is printed of such rows are values.
LEMMA WholePrinted ==
    ASSUME NEW rows, rows \subseteq Row, NEW c \in 1 .. MaxColumns, Whole(rows), Filled(rows, c)
    PROVE  Whole(View(rows, c))
<1>1. \A r \in rows : Garbled \notin Range(Printed(r, c))
  <2> TAKE r \in rows
  <2>1. Len(r) \in Nat /\ c \in Nat /\ DOMAIN r = 1 .. Len(r) /\ Len(r) >= c
    BY RowFacts, DatabaseAssumption DEF Filled
  <2>2. \A i \in 1 .. c : i \in 1 .. Len(r) /\ r[i] # Garbled /\ r[i] # Gone
    BY <2>1 DEF Whole, Filled, Range
  <2>3. \A i \in 1 .. c : Printed(r, c)[i] = Seen(r[i])
    BY <2>1 DEF Printed
  <2>4. \A i \in 1 .. c : Seen(r[i]) # Garbled
    BY <2>2, DatabaseAssumption DEF Seen
  <2>5. DOMAIN Printed(r, c) = 1 .. c
    BY DEF Printed
  <2> QED
    BY <2>3, <2>4, <2>5 DEF Range
<1>2. \A t \in View(rows, c) : \E r \in rows : t = Printed(r, c)
  BY DEF View
<1> QED
  BY <1>1, <1>2 DEF Whole

\* A table that exists can be read.
LEMMA ReadFacts ==
    ASSUME ReadInv, up, NEW n \in Names, Exists(n)
    PROVE  /\ TypeInv /\ IOOk(IO) /\ Single(IO)
           /\ Current(n) \in 1 .. MaxColumns /\ Current(n) \in Widths(n)
           /\ Pages(n) \in RowSets /\ Pages(n) \subseteq Row
           /\ Whole(Pages(n)) /\ Filled(Pages(n), Current(n))
           /\ Pages(n) = PagesOf(IO, n, Current(n))
           /\ \A c \in Widths(n) : c <= Current(n)
           /\ pending = Idle =>
                 /\ Current(n) = ColumnsOf(n)
                 /\ Sound(Pointer(SlotOf(n))) /\ Pointer(SlotOf(n)) # Dangling
                 /\ ColumnsAt(Pointer(SlotOf(n))) = Current(n)
<1>1. TypeInv /\ TypeOK /\ IOOk(IO) /\ Single(IO)
  BY TypeInvTypes DEF ReadInv, TypeInv
<1>2. ColumnsOf(n) \in 1 .. MaxColumns
  BY <1>1, TypedTable DEF ColumnsOf
<1>3. Current(n) \in 1 .. MaxColumns
  <2>1. pending # Idle => pending.columns \in 1 .. MaxColumns
    BY <1>1, UnfinishedFacts DEF TypeInv, PendingOK
  <2> QED
    BY <1>2, <2>1 DEF Current
<1>4. Current(n) \in Widths(n)
  BY DEF Widths
<1>5. Pages(n) \in RowSets /\ Pages(n) \subseteq Row
  <2>1. Pages(n) \in RowSets
    BY <1>1, <1>3, PagesOfFacts DEF Pages
  <2> QED
    BY <2>1 DEF RowSets
<1>6. Whole(Pages(n)) /\ Filled(Pages(n), Current(n))
  <2>1. CASE IsCached(IO, n)
    <3>1. PICK h \in Held(IO) : h.name = n
      BY <1>1, <2>1, HeldLookups
    <3>2. Pages(n) = h.page
      BY <1>1, <3>1, HeldLookups DEF Pages
    <3> QED
      BY <3>1, <3>2 DEF ReadInv, BufferReadable
  <2>2. CASE ~IsCached(IO, n)
    <3>1. Pages(n) = Layout(files[n], Current(n))
      BY <2>2 DEF Pages, PagesOf, IO
    <3>2. files[n] \subseteq Row /\ Whole(files[n]) /\ Filled(files[n], Current(n))
      BY <1>4 DEF ReadInv, FilesReadable, RowSets
    <3> QED
      BY <1>3, <3>1, <3>2, WholeLayout
  <2> QED
    BY <2>1, <2>2
<1>7. \A c \in Widths(n) : c <= Current(n)
  BY DEF ReadInv, TablesGrow
<1>8. pending = Idle =>
         /\ Current(n) = ColumnsOf(n)
         /\ Sound(Pointer(SlotOf(n))) /\ Pointer(SlotOf(n)) # Dangling
         /\ ColumnsAt(Pointer(SlotOf(n))) = Current(n)
  BY <1>1, SlotOfFacts DEF ColumnsOf, Current
<1> QED
  BY <1>1, <1>3, <1>4, <1>5, <1>6, <1>7, <1>8 DEF Pages

\* Rows are read or written.
LEMMA ReadStep ==
    ASSUME ReadInv, TypeInv', up, up' = up, slots' = slots, count' = count,
           catalog' = catalog, PendingWhole', NEW n \in Names, Exists(n), GoesOn(n),
           NEW io, SetIO(io), NEW page, NEW pointer,
           Paged(IO, io, n, Current(n), page, pointer),
           page \subseteq Row, Whole(page), Filled(page, Current(n)),
           pointer # Dangling, ColumnsAt(pointer) = Current(n),
           pointer = Pointer(SlotOf(n)) \/ pointer.slot = 0
    PROVE  ReadInv'
<1>1. IO' = io /\ files' = io.files /\ Single(io)
  BY NewIO DEF Paged
<1>2. \A m : SlotOf(m)' = SlotOf(m) /\ (Exists(m)' <=> Exists(m)) /\ ColumnsOf(m)' = ColumnsOf(m)
  BY DEF SlotOf, SlotsOf, Exists, ColumnsOf
<1>3. \A m : Current(m)' = Current(m)
  BY <1>2 DEF Current, GoesOn
<1>4. \A m : Widths(m)' = Widths(m)
  BY <1>2, <1>3 DEF Widths
<1>5. TablesGrow'
  BY <1>2, <1>3, <1>4 DEF ReadInv, TablesGrow
<1>6. \A m \in Names \ {n} : files'[m] = files[m]
  BY <1>1 DEF Paged, Others, IO
<1>7. files'[n] \in RowSets /\ Whole(files'[n]) /\ \A c \in Widths(n) : Filled(files'[n], c)
  <2>1. CASE io.files[n] = IO.files[n]
    BY <1>1, <2>1 DEF ReadInv, FilesReadable, IO
  <2>2. CASE \E r \in page : io.files[n] = Layout({r}, Current(n))
    <3>1. PICK r \in page : io.files[n] = Layout({r}, Current(n))
      BY <2>2
    <3> DEFINE rows == Layout({r}, Current(n))
    <3>2. /\ Current(n) \in 1 .. MaxColumns /\ Current(n) \in Nat
          /\ \A c \in Widths(n) : c <= Current(n)
      BY ReadFacts, DatabaseAssumption
    <3>3. /\ {r} \subseteq Row /\ Whole({r}) /\ Filled({r}, Current(n))
          /\ {r} \in RowSets /\ {r} \in StoredRows
      BY SmallRowSets DEF Whole, Filled, StoredRows
    <3>4. rows \in RowSets /\ rows \subseteq Row
      <4>1. rows \in RowSets
        BY <3>2, <3>3, LayoutFacts
      <4> QED
        BY <4>1 DEF RowSets
    <3>5. Whole(rows) /\ Filled(rows, Current(n))
      BY <3>2, <3>3, WholeLayout
    <3> HIDE DEF rows
    <3>6. \A c \in Widths(n) : Filled(rows, c)
      <4>1. \A c \in Widths(n) : c \in Nat
        BY <3>2, WidthsTyped DEF ReadInv
      <4> QED
        BY <3>2, <3>4, <3>5, <4>1, FewerFilled
    <3> QED
      BY <1>1, <3>1, <3>4, <3>5, <3>6 DEF rows
  <2> QED
    BY <2>1, <2>2 DEF Paged
<1>8. FilesReadable'
  BY <1>4, <1>6, <1>7 DEF ReadInv, FilesReadable
<1>9. BufferReadable'
  <2>1. \A h \in Held(io) : \/ h.name # n /\ h \in Held(IO)
                            \/ /\ h.name = n /\ h.page = page
                               /\ h.table = pointer \/ \E g \in Held(IO) : g.name = n /\ g.table = h.table
    BY DEF Paged
  <2>2. \A h \in Held(io) :
           /\ Exists(h.name) /\ h.table # Dangling /\ ColumnsAt(h.table) = Current(h.name)
           /\ h.table = Pointer(SlotOf(h.name)) \/ h.table.slot = 0
           /\ Whole(h.page) /\ Filled(h.page, Current(h.name))
    BY <2>1 DEF ReadInv, BufferReadable
  <2>3. \A h : ColumnsAt(h.table)' = ColumnsAt(h.table)
    BY DEF ColumnsAt
  <2> QED
    BY <1>1, <1>2, <1>3, <2>2, <2>3 DEF BufferReadable
<1>10. NamedOnce(slots, count)' /\ NamedOnce(catalog, Len(catalog))' /\ Single(IO)'
  BY <1>1 DEF ReadInv
<1> QED
  BY <1>5, <1>8, <1>9, <1>10 DEF ReadInv

\* No statement is left unfinished.
LEMMA IdleWhole ==
    ASSUME pending' = Idle
    PROVE  PendingWhole'
BY DEF PendingWhole

\* A row is added to the pages.
LEMMA WholeAdded ==
    ASSUME NEW page, page \subseteq Row, NEW c, Whole(page), Filled(page, c),
           NEW r \in Row, Garbled \notin Range(r), Filled({r}, c)
    PROVE  Added(page, r) \subseteq Row /\ Whole(Added(page, r)) /\ Filled(Added(page, r), c)
BY DEF Added, Whole, Filled

\* A new row has all its values.
LEMMA NewRowWhole ==
    ASSUME ReadInv, NEW n \in Names, NEW r \in TypedRows(n)
    PROVE  /\ Exists(n) /\ r \in Row /\ Garbled \notin Range(r) /\ Len(r) = ColumnsOf(n)
           /\ ColumnsOf(n) \in Nat /\ Filled({r}, ColumnsOf(n))
<1>1. Exists(n) /\ r \in Row /\ r \in NewRows(ColumnsOf(n)) /\ Len(r) = ColumnsOf(n)
  BY NewRowsTyped DEF ReadInv, ColumnsOf
<1>2. ColumnsOf(n) \in 1 .. MaxColumns
  BY <1>1, TypedTable DEF ReadInv, ColumnsOf
<1>3. \A i \in DOMAIN r : r[i] \in Keys \cup Values
  BY <1>1 DEF NewRows
<1>4. Garbled \notin Range(r)
  BY <1>3, DatabaseAssumption DEF Range
<1>5. DOMAIN r = 1 .. ColumnsOf(n) /\ ColumnsOf(n) \in Nat
  BY <1>1, <1>2, DatabaseAssumption DEF NewRows
<1>6. Filled({r}, ColumnsOf(n))
  <2>1. \A i \in 1 .. ColumnsOf(n) : r[i] # Gone
    BY <1>3, <1>5, DatabaseAssumption
  <2> QED
    BY <1>1, <1>5, <2>1 DEF Filled
<1> QED
  BY <1>1, <1>2, <1>4, <1>5, <1>6

LEMMA ReadInsertOne ==
    ASSUME Growing, ReadInv, NEW n \in Names, NEW r \in TypedRows(n), Insert(n, <<r>>)
    PROVE  ReadInv'
<1> DEFINE c == Current(n)
           pointer == Pointer(SlotOf(n))
           page == Pages(n)
           new == AddRecord(IO, n, pointer, r)
           pages == Added(page, r)
<1>1. /\ up /\ up' = up /\ slots' = slots /\ count' = count /\ catalog' = catalog
      /\ pending = Idle /\ pending' = Idle /\ SetIO(new)
  BY DEF Insert, Typed
<1>2. Exists(n) /\ r \in Row /\ Garbled \notin Range(r) /\ Len(r) = ColumnsOf(n) /\ ColumnsOf(n) \in Nat
  BY NewRowWhole
<1>3. /\ TypeInv /\ IOOk(IO) /\ Single(IO) /\ c \in 1 .. MaxColumns /\ c = ColumnsOf(n)
      /\ page \in RowSets /\ page \subseteq Row /\ Whole(page) /\ Filled(page, c)
      /\ page = PagesOf(IO, n, c)
      /\ Sound(pointer) /\ pointer # Dangling /\ ColumnsAt(pointer) = c
  BY <1>1, <1>2, ReadFacts
<1>4. Paged(IO, new, n, c, pages, pointer)
  BY <1>2, <1>3, PagedAdd DEF Growing, Added
<1>5. TypeInv'
  <2>1. <<r>>[1] \in Row /\ Len(<<r>>) = 1
    BY <1>2
  <2> QED
    BY <1>3, <2>1, TypeInsert
<1>6. PendingWhole' /\ GoesOn(n)
  BY <1>1, IdleWhole DEF GoesOn
<1>8. pointer = Pointer(SlotOf(n))
  OBVIOUS
<1> HIDE DEF c, pointer, page, new, pages
<1>7. pages \subseteq Row /\ Whole(pages) /\ Filled(pages, c)
  <2>1. Filled({r}, c)
    BY <1>3, NewRowWhole
  <2> QED
    BY <1>2, <1>3, <2>1, WholeAdded DEF pages
<1> QED
  BY <1>1, <1>2, <1>3, <1>4, <1>5, <1>6, <1>7, <1>8, ReadStep DEF c

LEMMA ReadInsertTwo ==
    ASSUME Growing, ReadInv, NEW n \in Names, NEW r \in TypedRows(n), NEW s \in TypedRows(n),
           Insert(n, <<r, s>>)
    PROVE  ReadInv'
<1> DEFINE c == Current(n)
           pointer == Pointer(SlotOf(n))
           page == Pages(n)
           first == AddRecord(IO, n, pointer, r)
           one == Added(page, r)
           clash == r[1] \in KeysOf(page)
           second == AddRecord(first, n, pointer, s)
           pages == IF clash THEN page ELSE Added(one, s)
           new == IF clash THEN first ELSE second
<1>1. /\ up /\ up' = up /\ slots' = slots /\ count' = count /\ catalog' = catalog
      /\ pending = Idle /\ pending' = Idle
      /\ SetIO(IF Clashes(IO, n, pointer, r) THEN first ELSE second)
  BY DEF Insert, Typed
<1>2. /\ Exists(n) /\ r \in Row /\ Garbled \notin Range(r) /\ Len(r) = ColumnsOf(n)
      /\ s \in Row /\ Garbled \notin Range(s) /\ Len(s) = ColumnsOf(n) /\ ColumnsOf(n) \in Nat
  BY NewRowWhole
<1>3. /\ TypeInv /\ IOOk(IO) /\ Single(IO) /\ c \in 1 .. MaxColumns /\ c = ColumnsOf(n)
      /\ page \in RowSets /\ page \subseteq Row /\ Whole(page) /\ Filled(page, c)
      /\ page = PagesOf(IO, n, c)
      /\ Sound(pointer) /\ pointer # Dangling /\ ColumnsAt(pointer) = c
  BY <1>1, <1>2, ReadFacts
<1>4. Paged(IO, first, n, c, one, pointer) /\ (Clashes(IO, n, pointer, r) <=> clash)
  BY <1>2, <1>3, PagedAdd DEF Growing, Added
<1>5. TypeInv'
  <2>1. <<r, s>>[1] \in Row /\ <<r, s>>[2] \in Row
    BY <1>2
  <2> QED
    BY <1>3, <2>1, TypeInsert
<1>6. PendingWhole' /\ GoesOn(n)
  BY <1>1, IdleWhole DEF GoesOn
<1>7. SetIO(new)
  BY <1>1, <1>4
<1>11. pointer = Pointer(SlotOf(n))
  OBVIOUS
<1> HIDE DEF c, pointer, page, first, second
<1>8. Filled({r}, c) /\ Filled({s}, c)
  BY <1>3, NewRowWhole
<1> HIDE DEF one
<1>9. one \subseteq Row /\ Whole(one) /\ Filled(one, c)
  BY <1>2, <1>3, <1>8, WholeAdded DEF one
<1>10. /\ pages \subseteq Row /\ Whole(pages) /\ Filled(pages, c)
       /\ Paged(IO, new, n, c, pages, pointer)
  <2>1. CASE clash
    <3>1. one = page
      BY <2>1 DEF one, Added
    <3> QED
      BY <1>3, <1>4, <2>1, <3>1
  <2>2. CASE ~clash
    <3>1. IOOk(first) /\ Single(first) /\ PagesOf(first, n, c) = one
      BY <1>4 DEF Paged
    <3>2. Paged(first, second, n, c, Added(one, s), pointer)
      BY <1>2, <1>3, <3>1, PagedAdd DEF Growing, Added, second
    <3>3. Paged(IO, second, n, c, Added(one, s), pointer)
      BY <1>4, <3>2, PagedTwice DEF Added
    <3>4. Added(one, s) \subseteq Row /\ Whole(Added(one, s)) /\ Filled(Added(one, s), c)
      BY <1>2, <1>8, <1>9, WholeAdded
    <3> QED
      BY <2>2, <3>3, <3>4
  <2> QED
    BY <2>1, <2>2
<1> HIDE DEF pages, new
<1> QED
  BY <1>1, <1>2, <1>3, <1>5, <1>6, <1>7, <1>10, <1>11, ReadStep DEF c

LEMMA ReadSelect ==
    ASSUME Growing, ReadInv, NEW n \in Names, Select(n)
    PROVE  ReadInv'
<1> DEFINE c == Current(n)
           pointer == Pointer(SlotOf(n))
           page == Pages(n)
           new == IF IsCached(IO, n) THEN Found(IO, n)
                  ELSE IF page = {} THEN IO
                  ELSE Cached(IO, n, pointer, page)
<1>1. /\ up /\ up' = up /\ slots' = slots /\ count' = count /\ catalog' = catalog
      /\ pending = Idle /\ pending' = Idle /\ Exists(n)
  BY DEF Select, Typed
<1>2. /\ TypeInv /\ IOOk(IO) /\ Single(IO) /\ c \in 1 .. MaxColumns /\ c = ColumnsOf(n)
      /\ page \in RowSets /\ page \subseteq Row /\ Whole(page) /\ Filled(page, c)
      /\ page = PagesOf(IO, n, c)
      /\ Sound(pointer) /\ pointer # Dangling /\ ColumnsAt(pointer) = c
  BY <1>1, ReadFacts
<1> HIDE DEF page
<1>3. SetIO(new)
  BY <1>2 DEF Select
<1>4. Paged(IO, new, n, c, page, pointer)
  BY <1>2, PagedRead DEF Growing
<1>5. TypeInv'
  BY <1>2, TypeSelect
<1>6. PendingWhole' /\ GoesOn(n)
  BY <1>1, IdleWhole DEF GoesOn
<1>7. pointer = Pointer(SlotOf(n))
  OBVIOUS
<1> HIDE DEF pointer, new
<1> QED
  BY <1>1, <1>2, <1>3, <1>4, <1>5, <1>6, <1>7, ReadStep

\* A row of an altered table is added.
LEMMA ReadAlterRow ==
    ASSUME Growing, ReadInv, AlterRow
    PROVE  ReadInv'
<1>1. PICK n, c, rows, pointer, old :
         /\ n = pending.name /\ c = pending.columns /\ rows = pending.rows
         /\ pointer = pending.table /\ old = pending.old
  OBVIOUS
<1>2. PICK r, t : r = Head(rows) /\ t = Tail(rows)
  OBVIOUS
<1> DEFINE page == Pages(n)
           pages == Added(page, r)
           new == AddRecord(IO, n, pointer, r)
<1>3. /\ up /\ up' = up /\ slots' = slots /\ count' = count /\ catalog' = catalog
      /\ pending.kind \in {"add", "drop"} /\ rows # <<>>
      /\ SetIO(new) /\ pending' = [pending EXCEPT !.rows = t]
  BY <1>1, <1>2 DEF AlterRow, Alters
<1>4. TypeInv'
  BY TypeAlterRow DEF ReadInv
<1>5. pending # Idle
  BY <1>3 DEF Idle
<1>6. /\ pending \in Unfinished /\ Sound(pointer) /\ t \in Seq(Row) /\ r \in Row
      /\ n \in Names /\ c \in 1 .. MaxColumns /\ rows \in Seq(Row)
  BY <1>1, <1>2, <1>3, <1>5, PendingRows, UnfinishedFacts DEF ReadInv
<1>7. /\ pending'.table = pointer /\ pending'.kind = pending.kind /\ pending'.rows = t
      /\ pending'.name = n /\ pending'.columns = c /\ pending'.old = old
      /\ pending' # Idle
  <2>1. /\ pending'.table = pointer /\ pending'.kind = pending.kind /\ pending'.rows = t
        /\ pending'.name = n /\ pending'.columns = c /\ pending'.old = old
    BY <1>1, <1>3, <1>6 DEF Unfinished
  <2> QED
    BY <1>3, <2>1 DEF Idle
<1>8. /\ pending.kind = "add" /\ Exists(n) /\ pointer = OwnTable(c)
      /\ Whole(Range(rows)) /\ Filled(Range(rows), c) /\ DistinctKeys(rows)
      /\ \A i \in 1 .. Len(rows) : rows[i][1] \notin KeysOf(page)
      /\ Whole(old) /\ Filled(old, ColumnsOf(n))
      /\ \A i \in 1 .. Len(catalog) : catalog[i].name = n => catalog[i].columns <= ColumnsOf(n)
      /\ \A d \in NewTableColumns : d <= ColumnsOf(n)
  BY <1>1, <1>5 DEF ReadInv, PendingWhole
<1>9. Current(n) = c /\ Current(n)' = c
  BY <1>1, <1>5, <1>7 DEF Current
<1>10. /\ IOOk(IO) /\ Single(IO)
       /\ page \in RowSets /\ page \subseteq Row /\ Whole(page) /\ Filled(page, c)
       /\ page = PagesOf(IO, n, c)
  BY <1>3, <1>6, <1>8, <1>9, ReadFacts
<1>11. /\ ColumnsAt(pointer) = c /\ pointer # Dangling /\ pointer.slot = 0
  BY <1>6, <1>8, DatabaseAssumption DEF ColumnsAt, OwnTable, Dangling
<1>12. Paged(IO, new, n, c, pages, pointer)
  BY <1>6, <1>10, <1>11, PagedAdd DEF Growing, Added
<1>13. GoesOn(n) /\ IO' = new /\ Exists(n)' /\ ColumnsOf(n)' = ColumnsOf(n)
  <2>1. IO' = new
    BY <1>3, <1>12, NewIO DEF Paged
  <2> QED
    BY <1>1, <1>3, <1>5, <1>7, <1>8, <2>1 DEF GoesOn, Exists, SlotsOf, SlotOf, ColumnsOf
<1> HIDE DEF page, new
<1>14. Pages(n)' = pages
  BY <1>9, <1>12, <1>13 DEF Pages, Paged
<1>15. /\ Len(rows) \in Nat /\ Len(t) = Len(rows) - 1 /\ r = rows[1] /\ 1 \in 1 .. Len(rows)
       /\ \A i \in 1 .. Len(t) : /\ t[i] = rows[i + 1] /\ i + 1 \in 1 .. Len(rows) /\ i + 1 # 1
       /\ DOMAIN t = 1 .. Len(t) /\ DOMAIN rows = 1 .. Len(rows)
  BY <1>2, <1>3, <1>6
<1>16. Range(t) \subseteq Range(rows) /\ r \in Range(rows)
  BY <1>15 DEF Range
<1>17. Whole(Range(t)) /\ Filled(Range(t), c) /\ Garbled \notin Range(r) /\ Filled({r}, c)
  BY <1>8, <1>16 DEF Whole, Filled
<1>18. DistinctKeys(t)
  BY <1>8, <1>15 DEF DistinctKeys
<1>19. \A i \in 1 .. Len(t) : t[i][1] \notin KeysOf(pages)
  <2>1. KeysOf(pages) \subseteq KeysOf(page) \cup {r[1]}
    BY DEF KeysOf, Added
  <2>2. \A i \in 1 .. Len(t) : t[i][1] # r[1]
    BY <1>8, <1>15 DEF DistinctKeys
  <2> QED
    BY <1>8, <1>15, <2>1, <2>2
<1> HIDE DEF pages
<1>20. PendingWhole'
  BY <1>3, <1>7, <1>8, <1>13, <1>14, <1>17, <1>18, <1>19 DEF PendingWhole
<1>21. pages \subseteq Row /\ Whole(pages) /\ Filled(pages, c)
  BY <1>6, <1>10, <1>17, WholeAdded DEF pages
<1> QED
  BY <1>3, <1>4, <1>6, <1>8, <1>9, <1>11, <1>12, <1>13, <1>20, <1>21, ReadStep

\* The first page is refused, for no row clashes: the table has its columns as
\* the catalog knows them, and its rows if they were in the buffer.
LEMMA ReadAlterFails ==
    ASSUME Growing, ReadInv, AlterFails
    PROVE  ReadInv'
<1>1. PICK n, c, rows, pointer, old :
         /\ n = pending.name /\ c = pending.columns /\ rows = pending.rows
         /\ pointer = pending.table /\ old = pending.old
  OBVIOUS
<1>2. PICK r : r = Head(rows)
  OBVIOUS
<1> DEFINE slot == Pointer(SlotOf(n))
           io == IF Clashes(IO, n, pointer, r) THEN AddRecord(IO, n, pointer, r) ELSE IO
           new == IF old = {} THEN io ELSE Cached(io, n, slot, old)
<1>3. /\ up /\ up' = up /\ slots' = slots /\ count' = count /\ catalog' = catalog
      /\ pending.kind \in {"add", "drop"} /\ rows # <<>> /\ pending' = Idle
      /\ Clashes(IO, n, pointer, r) \/ MakesPage(IO, n, pointer)
      /\ SetIO(new)
  BY <1>1, <1>2 DEF AlterFails, Alters
<1>4. TypeInv' /\ TypeInv /\ IOOk(IO) /\ Single(IO)
  BY TypeAlterFails DEF ReadInv, TypeInv
<1>5. pending # Idle
  BY <1>3 DEF Idle
<1>6. n \in Names /\ c \in 1 .. MaxColumns /\ rows \in Seq(Row) /\ old \in RowSets
  BY <1>1, <1>3, <1>4, <1>5, PendingRows, UnfinishedFacts DEF TypeInv, PendingOK
<1>7. /\ Exists(n) /\ pointer = OwnTable(c)
      /\ \A i \in 1 .. Len(rows) : rows[i][1] \notin KeysOf(Pages(n))
      /\ Whole(old) /\ Filled(old, ColumnsOf(n))
      /\ \A i \in 1 .. Len(catalog) : catalog[i].name = n => catalog[i].columns <= ColumnsOf(n)
      /\ \A d \in NewTableColumns : d <= ColumnsOf(n)
  BY <1>1, <1>5 DEF ReadInv, PendingWhole
<1>8. ColumnsAt(pointer) = c /\ Current(n) = c
  BY <1>1, <1>5, <1>6, <1>7, DatabaseAssumption DEF ColumnsAt, OwnTable, Current
<1>9. ~Clashes(IO, n, pointer, r)
  <2>1. 1 \in 1 .. Len(rows) /\ r = rows[1]
    BY <1>2, <1>3, <1>6
  <2> QED
    BY <1>7, <1>8, <2>1 DEF Clashes, Pages
<1>10. io = IO /\ ~IsCached(IO, n) /\ PagesOf(IO, n, c) = {}
  BY <1>3, <1>8, <1>9 DEF MakesPage
<1>11. files[n] = {}
  <2>1. IO.files[n] \in RowSets /\ PagesOf(IO, n, c) = Layout(IO.files[n], c)
    BY <1>6, <1>10 DEF ReadInv, FilesReadable, IO, PagesOf
  <2> QED
    BY <1>10, <2>1 DEF IO, Layout
<1>12. Sound(slot) /\ slot # Dangling /\ ColumnsOf(n) \in 1 .. MaxColumns /\ ColumnsAt(slot) = ColumnsOf(n)
  <2>1. Sound(slot) /\ slot # Dangling /\ ColumnsOf(n) \in 1 .. MaxColumns
    BY <1>4, <1>6, <1>7, TypedTable, SlotOfFacts DEF ColumnsOf
  <2>2. ColumnsAt(slot) = ColumnsOf(n)
    BY <1>4, <1>6, <1>7, TypedTable, SlotOfFacts DEF ColumnsOf
  <2> QED
    BY <2>1, <2>2
<1> HIDE DEF io, slot
<1>13. /\ IOOk(new) /\ Single(new) /\ new.files = IO.files
       /\ \A h \in Held(new) : h \in Held(IO) \/ h = [name |-> n, table |-> slot, page |-> old]
  <2>1. CASE old = {}
    BY <1>4, <1>10, <2>1
  <2>2. CASE old # {}
    <3>1. old \in RowSets \ {{}} /\ IsFiniteSet(Names) /\ Cardinality(Names) <= MaxPages
      BY <1>6, <2>2 DEF Growing
    <3> DEFINE put == Cached(IO, n, slot, old)
    <3>2. /\ IOOk(put) /\ Single(put) /\ put.files = IO.files
          /\ Held(put) = Held(IO) \cup {[name |-> n, table |-> slot, page |-> old]}
      BY ONLY <1>4, <1>6, <1>10, <1>12, <3>1, HeldCached
    <3>3. new = put
      BY <1>10, <2>2
    <3> HIDE DEF put, new
    <3> QED
      BY <3>2, <3>3
  <2> QED
    BY <2>1, <2>2
<1> HIDE DEF new
<1>14. IO' = new /\ files' = files
  BY <1>3, <1>13, NewIO DEF IO
<1>15. \A m : SlotOf(m)' = SlotOf(m) /\ (Exists(m)' <=> Exists(m)) /\ ColumnsOf(m)' = ColumnsOf(m)
  BY <1>3 DEF SlotOf, SlotsOf, Exists, ColumnsOf
<1>16. /\ Current(n)' = ColumnsOf(n)
       /\ \A m \in Names \ {n} : Current(m)' = Current(m) /\ Widths(m)' = Widths(m)
  <2>1. \A m : Current(m)' = ColumnsOf(m)
    BY <1>3, <1>15 DEF Current
  <2>2. \A m \in Names \ {n} : Current(m)' = Current(m)
    BY <1>1, <2>1 DEF Current
  <2> QED
    BY <1>3, <1>15, <2>1, <2>2 DEF Widths
<1>17. FilesReadable'
  <2>1. \A d : Filled(files[n], d)
    BY <1>11 DEF Filled
  <2> QED
    BY <1>14, <1>16, <2>1 DEF ReadInv, FilesReadable
<1>18. TablesGrow'
  <2>1. \A d \in Widths(n)' : d <= ColumnsOf(n)
    <3>1. ColumnsOf(n) <= ColumnsOf(n)
      BY <1>12, DatabaseAssumption
    <3> QED
      BY <1>3, <1>7, <1>16, <3>1 DEF Widths
  <2>2. \A m \in Names : Exists(m)' => \A d \in Widths(m)' : d <= Current(m)'
    BY <1>3, <1>15, <1>16, <2>1 DEF ReadInv, TablesGrow
  <2> QED
    BY <1>3, <1>15, <2>2 DEF ReadInv, TablesGrow
<1>19. BufferReadable'
  <2>1. \A h : ColumnsAt(h.table)' = ColumnsAt(h.table)
    BY <1>3 DEF ColumnsAt
  <2>2. \A h \in Held(IO) : h.name # n /\ h.name \in Names
    BY <1>4, <1>10, HeldFacts, HeldLookups
  <2> SUFFICES ASSUME NEW h \in Held(new)
               PROVE  /\ Exists(h.name) /\ h.table # Dangling /\ ColumnsAt(h.table) = Current(h.name)'
                      /\ h.table = Pointer(SlotOf(h.name)) \/ h.table.slot = 0
                      /\ Whole(h.page) /\ Filled(h.page, Current(h.name)')
    BY <1>14, <1>15, <2>1 DEF BufferReadable
  <2>3. CASE h \in Held(IO)
    <3>1. /\ Exists(h.name) /\ h.table # Dangling /\ ColumnsAt(h.table) = Current(h.name)
          /\ h.table = Pointer(SlotOf(h.name)) \/ h.table.slot = 0
          /\ Whole(h.page) /\ Filled(h.page, Current(h.name))
      BY <2>3 DEF ReadInv, BufferReadable
    <3>2. Current(h.name)' = Current(h.name)
      BY <1>16, <2>2, <2>3
    <3> QED
      BY <3>1, <3>2
  <2>4. CASE h = [name |-> n, table |-> slot, page |-> old]
    <3>1. h.name = n /\ h.table = slot /\ h.page = old
      BY <2>4
    <3> QED
      BY <1>7, <1>12, <1>16, <3>1 DEF slot
  <2> QED
    BY <1>13, <2>3, <2>4
<1>20. NamedOnce(slots, count)' /\ NamedOnce(catalog, Len(catalog))' /\ Single(IO)'
  BY <1>3, <1>13, <1>14 DEF ReadInv
<1> QED
  BY <1>3, <1>4, <1>17, <1>18, <1>19, <1>20, IdleWhole DEF ReadInv

\* With an empty buffer only the files and the tables count.
LEMMA ReadEmpty ==
    ASSUME TypeInv', entries' = <<>>, pending' = Idle,
           NamedOnce(slots, count)', NamedOnce(catalog, Len(catalog))',
           FilesReadable', TablesGrow'
    PROVE  ReadInv'
<1>1. PICK io : io = IO'
  OBVIOUS
<1>2. io.entries = <<>>
  BY <1>1 DEF IO
<1>3. Held(IO') = {} /\ Single(IO')
  BY ONLY <1>1, <1>2, NothingHeld
<1>4. BufferReadable'
  BY <1>3 DEF BufferReadable
<1> QED
  BY <1>3, <1>4, IdleWhole DEF ReadInv

\* A table is created before a page is cached; its file, if there is one, was
\* left by a table like it.
LEMMA ReadCreate ==
    ASSUME Growing, ReadInv, NEW n \in Names, NEW columns \in NewTableColumns,
           CreateTable(n, columns)
    PROVE  ReadInv'
<1> DEFINE new == [name |-> n, columns |-> columns]
<1>1. /\ up /\ up' = up /\ catalog' = catalog /\ files' = files
      /\ pending = Idle /\ pending' = Idle /\ entries = <<>>
      /\ ~Exists(n) /\ count < MaxTables /\ count' = count + 1
      /\ slots' = [slots EXCEPT ![count + 1] = new]
      /\ entries' = entries \/ entries' = EntriesDangling
  BY DEF CreateTable, Typed, Growing
<1>2. TypeInv' /\ TypeInv
  BY TypeCreate DEF ReadInv
<1>3. columns \in 1 .. MaxColumns /\ MaxTables \in Nat
  BY DatabaseAssumption
<1>4. count \in Nat /\ slots \in [1 .. MaxTables -> Table \cup {NoTable}]
  BY <1>2, <1>3 DEF TypeInv, TablesOK
<1> HIDE DEF new
<1>5. /\ slots'[count + 1] = new /\ count + 1 \in 1 .. count' /\ count' \in Nat
      /\ \A i \in 1 .. count : slots'[i] = slots[i] /\ i \in 1 .. count'
      /\ \A i \in 1 .. count' : i = count + 1 \/ i \in 1 .. count
  BY <1>1, <1>3, <1>4
<1>6. new.name = n /\ new.columns = columns
  BY DEF new
<1>7. \A i \in 1 .. count : slots[i].name # n
  BY <1>1 DEF Exists, SlotsOf
<1>8. NamedOnce(slots, count) /\ NamedOnce(slots, count)' /\ NamedOnce(catalog, Len(catalog))'
  <2>1. NamedOnce(slots, count)
    BY DEF ReadInv
  <2>2. NamedOnce(catalog, Len(catalog))'
    BY <1>1 DEF ReadInv
  <2> QED
    BY <1>5, <1>6, <1>7, <2>1, <2>2 DEF NamedOnce
<1>9. entries' = <<>>
  BY <1>1 DEF EntriesDangling
<1>10. ColumnsOf(n)' = columns /\ Exists(n)'
  <2>1. SlotOf(n)' = count + 1 /\ Exists(n)'
    BY <1>5, <1>6, <1>8, SlotIsFoundNext DEF SlotFact
  <2> QED
    BY <1>5, <1>6, <2>1 DEF ColumnsOf
<1>11. \A m : Exists(m) => ColumnsOf(m)' = ColumnsOf(m) /\ Exists(m)'
  <2> SUFFICES ASSUME NEW m, Exists(m) PROVE ColumnsOf(m)' = ColumnsOf(m) /\ Exists(m)'
    OBVIOUS
  <2>1. PICK i \in 1 .. count : slots[i].name = m
    BY DEF Exists, SlotsOf
  <2>2. slots'[i] = slots[i] /\ i \in 1 .. count' /\ count' \in Nat
    BY <1>5
  <2> QED
    BY <1>4, <1>8, <2>1, <2>2, ColumnsKept
<1>12. \A m : Exists(m)' => m = n \/ Exists(m)
  BY <1>5, <1>6 DEF Exists, SlotsOf
<1>13. \A m : Current(m)' = ColumnsOf(m)' /\ Current(m) = ColumnsOf(m)
  BY <1>1 DEF Current
<1>14. \A m \in Names : m # n => Widths(m)' = Widths(m)
  BY <1>1, <1>11, <1>12, <1>13 DEF Widths
<1>15. \A i \in 1 .. Len(catalog) : Exists(catalog[i].name)
  BY <1>1 DEF ReadInv, TablesGrow
<1>16. Widths(n)' \subseteq NewTableColumns
  BY <1>1, <1>10, <1>13, <1>15 DEF Widths
<1>17. \A m : NewTableColumns \subseteq Widths(m)
  BY DEF Widths
<1>18. FilesReadable'
  BY <1>1, <1>14, <1>16, <1>17 DEF ReadInv, FilesReadable
<1>19. TablesGrow'
  <2>1. \A m \in Names : Exists(m)' => \A c \in Widths(m)' : c <= Current(m)'
    <3> SUFFICES ASSUME NEW m \in Names, Exists(m)', NEW c \in Widths(m)'
                 PROVE  c <= Current(m)'
      OBVIOUS
    <3>1. CASE m = n
      <4>1. c = columns /\ Current(m)' = columns
        BY <1>10, <1>13, <1>16, <3>1 DEF Growing
      <4> QED
        BY <1>3, <4>1, DatabaseAssumption
    <3>2. CASE m # n
      <4>1. Exists(m) /\ c \in Widths(m) /\ Current(m)' = Current(m)
        BY <1>11, <1>12, <1>13, <1>14, <3>2
      <4> QED
        BY <1>1, <4>1 DEF ReadInv, TablesGrow
    <3> QED
      BY <3>1, <3>2
  <2>2. \A i \in 1 .. Len(catalog) : Exists(catalog[i].name)'
    <3> SUFFICES ASSUME NEW i \in 1 .. Len(catalog) PROVE Exists(catalog[i].name)'
      BY <1>1
    <3>1. PICK m : m = catalog[i].name
      OBVIOUS
    <3>2. Exists(m)'
      BY <1>11, <1>15, <3>1
    <3> QED
      BY <1>1, <3>1, <3>2
  <2>3. \A i \in 1 .. Len(catalog'), c \in NewTableColumns : c <= catalog'[i].columns
    BY <1>1 DEF ReadInv, TablesGrow
  <2> QED
    BY <1>1, <2>1, <2>2, <2>3 DEF TablesGrow
<1> QED
  BY <1>1, <1>2, <1>8, <1>9, <1>18, <1>19, ReadEmpty

\* Without an unfinished statement, a saved catalog says of every table what
\* the array says.
LEMMA SavedWidths ==
    ASSUME count' \in Nat, NamedOnce(slots, count)', Len(catalog') = count',
           \A i \in 1 .. count' : catalog'[i] = slots'[i]
    PROVE  /\ NamedOnce(catalog, Len(catalog))'
           /\ \A i \in 1 .. Len(catalog') : \A m :
                 catalog'[i].name = m => Exists(m)' /\ catalog'[i].columns = ColumnsOf(m)'
<1>1. \A i \in 1 .. count' : Exists(slots[i].name)' /\ SlotOf(slots[i].name)' = i
  BY SlotIsFoundNext DEF SlotFact
<1>2. NamedOnce(catalog, Len(catalog))'
  BY DEF NamedOnce
<1>3. ASSUME NEW i \in 1 .. Len(catalog'), NEW m, catalog'[i].name = m
      PROVE  Exists(m)' /\ catalog'[i].columns = ColumnsOf(m)'
  <2>1. slots'[i].name = m /\ catalog'[i] = slots'[i] /\ i \in 1 .. count'
    BY <1>3
  <2>2. Exists(m)' /\ SlotOf(m)' = i
    BY <1>1, <2>1
  <2> QED
    BY <2>1, <2>2 DEF ColumnsOf
<1> QED
  BY <1>2, <1>3

\* A table gets more columns, in the array and in the catalog; its rows have
\* got them before, or there are none.
LEMMA ReadColumns ==
    ASSUME Growing, ReadInv, TypeInv', up, up' = up, pending' = Idle,
           NEW n \in Names, Exists(n), NEW columns \in 1 .. MaxColumns,
           slots' = SlotsWithColumns(n, columns), count' = count,
           catalog' = SavedCatalog(slots'), entries' = entries, files' = files,
           \A m \in Names \ {n} : Current(m) = ColumnsOf(m),
           Current(n) <= columns,
           Current(n) = columns \/ (files[n] = {} /\ ~IsCached(IO, n))
    PROVE  ReadInv'
<1>1. /\ TypeInv /\ NamedOnce(slots, count) /\ NamedOnce(catalog, Len(catalog))
      /\ IOOk(IO) /\ Single(IO)
  BY DEF ReadInv, TypeInv
<1>2. /\ ColumnsOf(n)' = columns
      /\ \A m : Exists(m)' <=> Exists(m)
      /\ \A m \in Living \ {n} : ColumnsOf(m)' = ColumnsOf(m)
      /\ NamedOnce(slots, count)'
      /\ \A i \in 1 .. MaxTables :
            IF i \in 1 .. count /\ slots[i].name = n
            THEN slots'[i] = [slots[i] EXCEPT !.columns = columns]
            ELSE slots'[i] = slots[i]
  BY <1>1, ColumnsSet
<1>3. \A m : Exists(m) => m \in Living
  BY DEF Exists, SlotsOf, Living
<1>4. \A m \in Names : Exists(m) => Current(m)' = IF m = n THEN columns ELSE Current(m)
  BY <1>2, <1>3 DEF Current
<1>5. /\ Len(catalog') = count' /\ count' \in Nat
      /\ \A i \in 1 .. count' : catalog'[i] = slots'[i]
  <2>1. /\ slots' \in [1 .. MaxTables -> Table \cup {NoTable}] /\ MaxTables \in Nat
        /\ count' \in 0 .. MaxTables /\ count' \in Nat
    BY DatabaseAssumption DEF TypeInv, TablesOK
  <2>2. slots' \in Seq(Table \cup {NoTable}) /\ Len(slots') = MaxTables
    BY <2>1
  <2>3. catalog' = [i \in 1 .. count' |-> slots'[i]]
    BY <2>1, <2>2 DEF SavedCatalog
  <2> QED
    BY <2>1, <2>3
<1>6. /\ NamedOnce(catalog, Len(catalog))'
      /\ \A i \in 1 .. Len(catalog') : \A m :
            catalog'[i].name = m => Exists(m)' /\ catalog'[i].columns = ColumnsOf(m)'
  BY <1>2, <1>5, SavedWidths
<1>7. \A m : Current(m)' = ColumnsOf(m)'
  BY DEF Current
<1>8. \A m \in Names : \A c \in Widths(m)' :
         c \in NewTableColumns \/ (Exists(m)' /\ c = Current(m)')
  BY <1>6, <1>7 DEF Widths
<1>9. \A m : NewTableColumns \subseteq Widths(m) /\ (Exists(m) => Current(m) \in Widths(m))
  BY DEF Widths
<1>10. FilesReadable'
  <2> SUFFICES ASSUME NEW m \in Names
               PROVE  files[m] \in RowSets /\ Whole(files[m]) /\ \A c \in Widths(m)' : Filled(files[m], c)
    BY DEF FilesReadable
  <2>1. files[m] \in RowSets /\ Whole(files[m]) /\ \A c \in Widths(m) : Filled(files[m], c)
    BY DEF ReadInv, FilesReadable
  <2>2. CASE m # n \/ Current(n) = columns
    BY <1>2, <1>4, <1>8, <1>9, <2>1, <2>2
  <2>3. CASE files[m] = {}
    BY <2>1, <2>3 DEF Filled
  <2> QED
    BY <2>2, <2>3
<1>11. \A m \in Names : Exists(m) => \A c \in NewTableColumns : c <= Current(m)'
  <2> SUFFICES ASSUME NEW m \in Names, Exists(m), NEW c \in NewTableColumns PROVE c <= Current(m)'
    OBVIOUS
  <2>1. c <= Current(m) /\ Current(m) \in 1 .. MaxColumns
    BY <1>9, ReadFacts
  <2>2. c \in 1 .. MaxColumns /\ MaxColumns \in Nat
    BY DatabaseAssumption
  <2> QED
    BY <1>4, <2>1, <2>2
<1>12. TablesGrow'
  <2>1. \A m \in Names : Exists(m)' => \A c \in Widths(m)' : c <= Current(m)'
    <3> SUFFICES ASSUME NEW m \in Names, Exists(m)', NEW c \in Widths(m)' PROVE c <= Current(m)'
      OBVIOUS
    <3>1. CASE c \in NewTableColumns
      BY <1>2, <1>11, <3>1
    <3>2. CASE c = Current(m)'
      <4>1. Current(m)' \in 1 .. MaxColumns
        BY <1>2, <1>4, ReadFacts
      <4> QED
        BY <3>2, <4>1, DatabaseAssumption
    <3> QED
      BY <1>8, <3>1, <3>2
  <2>2. \A i \in 1 .. Len(catalog') : \A m :
           catalog'[i].name = m => Exists(m)' /\ m \in Names /\ catalog'[i].columns = Current(m)'
    <3>1. \A i \in 1 .. Len(catalog') : catalog'[i].name \in Names
      BY TableFacts DEF TypeInv, TablesOK
    <3> QED
      BY <1>6, <1>7, <3>1
  <2>3. \A i \in 1 .. Len(catalog') : \A c \in NewTableColumns : c <= catalog'[i].columns
    BY <1>2, <1>11, <2>2
  <2>4. \A i \in 1 .. Len(catalog') : Exists(catalog[i].name)'
    BY <2>2
  <2> QED
    BY <2>1, <2>3, <2>4 DEF TablesGrow
<1>13. IO' = IO
  BY DEF IO
<1>14. BufferReadable'
  <2> SUFFICES ASSUME NEW h \in Held(IO)
               PROVE  /\ Exists(h.name)' /\ h.table # Dangling
                      /\ ColumnsAt(h.table)' = Current(h.name)'
                      /\ h.table = Pointer(SlotOf(h.name))' \/ h.table.slot = 0
                      /\ Whole(h.page) /\ Filled(h.page, Current(h.name)')
    BY <1>13 DEF BufferReadable
  <2>1. /\ Exists(h.name) /\ h.table # Dangling /\ ColumnsAt(h.table) = Current(h.name)
        /\ h.table = Pointer(SlotOf(h.name)) \/ h.table.slot = 0
        /\ Whole(h.page) /\ Filled(h.page, Current(h.name))
    BY DEF ReadInv, BufferReadable
  <2>2. h.name \in Names /\ IsCached(IO, h.name)
    BY <1>1, HeldFacts, HeldLookups
  <2>3. PICK m \in Names : m = h.name
    BY <2>2
  <2>4. Current(m)' = Current(m) /\ Exists(m)'
    BY <1>2, <1>4, <2>1, <2>2, <2>3
  <2>5. SlotOf(m)' = SlotOf(m)
    <3>1. \A i \in 1 .. count : slots'[i].name = slots[i].name
      <4>1. \A t \in Table : [t EXCEPT !.columns = columns].name = t.name
        BY DEF Table
      <4>2. /\ \A i \in 1 .. count : slots[i] \in Table
            /\ \A i \in 1 .. count : i \in 1 .. MaxTables
        BY <1>1, DatabaseAssumption DEF TypeInv, TablesOK
      <4> QED
        BY <1>2, <4>1, <4>2
    <3>2. SlotsOf(m)' = SlotsOf(m)
      BY <3>1 DEF SlotsOf
    <3> QED
      BY <3>2 DEF SlotOf
  <2>6. ColumnsAt(h.table)' = Current(m)'
    <3>1. CASE h.table.slot = 0
      BY <2>1, <2>3, <2>4, <3>1 DEF ColumnsAt
    <3>2. CASE h.table.slot # 0
      <4>1. h.table = Pointer(SlotOf(m))
        BY <2>1, <2>3, <3>2
      <4>2. ColumnsAt(h.table)' = slots'[SlotOf(m)].columns
        BY <3>2, <4>1 DEF ColumnsAt, Pointer
      <4> QED
        BY <1>7, <2>5, <4>2 DEF ColumnsOf
    <3> QED
      BY <3>1, <3>2
  <2>7. h.table = Pointer(SlotOf(h.name))' \/ h.table.slot = 0
    BY <2>1, <2>3, <2>5
  <2> QED
    BY <2>1, <2>3, <2>4, <2>6, <2>7
<1>15. PendingWhole'
  BY IdleWhole
<1> QED
  BY <1>1, <1>2, <1>6, <1>10, <1>12, <1>13, <1>14, <1>15 DEF ReadInv

\* A table that is altered has its rows in memory, with all their values.
LEMMA ReadStartAlter ==
    ASSUME Growing, ReadInv, TypeInv', up, pending = Idle, NEW n \in Names, Exists(n),
           NEW columns \in 1 .. MaxColumns, Current(n) <= columns, NEW rows \in Seq(Row),
           Whole(Range(rows)), Filled(Range(rows), columns), DistinctKeys(rows),
           NEW old, Whole(old), Filled(old, Current(n)),
           StartAlter(n, "add", columns, rows, old)
    PROVE  ReadInv'
<1> DEFINE io == Removed(IO, n)
<1>1. /\ IOOk(io) /\ Single(io) /\ Others(IO, io, n) /\ io.files[n] = {}
      /\ \A d : PagesOf(io, n, d) = {}
      /\ \A h \in Held(io) : h.name # n /\ h \in Held(IO)
      /\ IOOk(IO) /\ TypeInv
  BY RemovedOthers DEF ReadInv, TypeInv
<1>2. /\ SetIO(io) /\ up' = up /\ slots' = slots /\ count' = count /\ catalog' = catalog
      /\ pending' = [kind |-> "add", name |-> n, table |-> OwnTable(columns),
                     columns |-> columns, rows |-> rows, started |-> FALSE, old |-> old]
  BY DEF StartAlter
<1> HIDE DEF io
<1>3. IO' = io /\ files' = io.files
  BY <1>1, <1>2, NewIO
<1>4. pending' # Idle
  <2>1. pending'.kind # Idle.kind
    BY <1>2 DEF Idle
  <2> QED
    BY <2>1
<1>5. \A m : SlotOf(m)' = SlotOf(m) /\ (Exists(m)' <=> Exists(m)) /\ ColumnsOf(m)' = ColumnsOf(m)
  BY <1>2 DEF SlotOf, SlotsOf, Exists, ColumnsOf
<1>6. \A m \in Names : Current(m)' = IF m = n THEN columns ELSE Current(m)
  BY <1>2, <1>4, <1>5 DEF Current
<1>7. \A m \in Names \ {n} : Widths(m)' = Widths(m) /\ files'[m] = files[m]
  BY <1>1, <1>2, <1>3, <1>5, <1>6 DEF Widths, Others, IO
<1>8. \A c \in Widths(n)' : c = columns \/ c \in Widths(n)
  BY <1>2, <1>6 DEF Widths
<1>9. FilesReadable'
  <2>1. files'[n] \in RowSets /\ Whole(files'[n]) /\ \A c : Filled(files'[n], c)
    BY <1>1, <1>3, SmallRowSets DEF Whole, Filled
  <2>2. \A m \in Names \ {n} : /\ files'[m] \in RowSets /\ Whole(files'[m])
                               /\ \A c \in Widths(m)' : Filled(files'[m], c)
    BY <1>7 DEF ReadInv, FilesReadable
  <2> QED
    BY <2>1, <2>2 DEF FilesReadable
<1>10. TablesGrow'
  <2>1. \A m \in Names : Exists(m)' => \A c \in Widths(m)' : c <= Current(m)'
    <3> SUFFICES ASSUME NEW m \in Names, Exists(m)', NEW c \in Widths(m)' PROVE c <= Current(m)'
      OBVIOUS
    <3>1. Exists(m) /\ \A d \in Widths(m) : d <= Current(m)
      BY <1>5, ReadFacts
    <3>2. CASE m # n
      BY <1>6, <1>7, <3>1, <3>2
    <3>3. CASE m = n
      <4>1. Current(n)' = columns /\ Current(n) \in 1 .. MaxColumns /\ Current(n) \in Widths(n)
        BY <1>6, ReadFacts
      <4>2. c = columns \/ c <= Current(n)
        BY <1>8, <3>1, <3>3
      <4>3. MaxColumns \in Nat /\ \A d \in Widths(n) : d \in Nat
        <5>1. \A d \in NewTableColumns : d \in Nat
          BY DatabaseAssumption
        <5>2. \A i \in 1 .. Len(catalog) : catalog[i].columns \in Nat
          BY <1>1, TableFacts, DatabaseAssumption DEF TypeInv, TablesOK
        <5>3. MaxColumns \in Nat /\ Current(n) \in Nat
          BY <4>1, DatabaseAssumption
        <5> QED
          BY <5>1, <5>2, <5>3 DEF Widths
      <4>4. columns \in Nat /\ Current(n) \in Nat /\ (c = columns \/ c \in Nat)
        BY <1>8, <3>3, <4>1, <4>3
      <4> QED
        BY <3>3, <4>1, <4>2, <4>4
    <3> QED
      BY <3>2, <3>3
  <2> QED
    BY <1>2, <1>5, <2>1 DEF ReadInv, TablesGrow
<1>11. BufferReadable'
  <2>1. \A h \in Held(io) : h.name \in Names \ {n}
    BY <1>1, HeldFacts
  <2>2. \A h : ColumnsAt(h.table)' = ColumnsAt(h.table)
    BY <1>2 DEF ColumnsAt
  <2>3. \A h \in Held(io) :
           /\ Exists(h.name) /\ h.table # Dangling /\ ColumnsAt(h.table) = Current(h.name)
           /\ h.table = Pointer(SlotOf(h.name)) \/ h.table.slot = 0
           /\ Whole(h.page) /\ Filled(h.page, Current(h.name))
    BY <1>1 DEF ReadInv, BufferReadable
  <2> QED
    BY <1>3, <1>5, <1>6, <2>1, <2>2, <2>3 DEF BufferReadable
<1>12. PendingWhole'
  <2>1. /\ pending'.kind = "add" /\ pending'.name = n /\ pending'.rows = rows
        /\ pending'.table = OwnTable(columns) /\ pending'.columns = columns
        /\ pending'.old = old
    BY <1>2
  <2>2. Pages(n)' = {}
    BY <1>1, <1>3 DEF Pages
  <2>3. Current(n) = ColumnsOf(n) /\ ColumnsOf(n)' = ColumnsOf(n) /\ Exists(n)'
    BY <1>5 DEF Current
  <2>4. \A d \in Widths(n) : d <= ColumnsOf(n)
    BY <2>3 DEF ReadInv, TablesGrow
  <2>5. /\ \A i \in 1 .. Len(catalog) : catalog[i].name = n => catalog[i].columns <= ColumnsOf(n)
        /\ \A d \in NewTableColumns : d <= ColumnsOf(n)
    BY <2>4 DEF Widths
  <2> QED
    BY <1>2, <2>1, <2>2, <2>3, <2>5 DEF PendingWhole, KeysOf
<1>13. Single(IO)' /\ NamedOnce(slots, count)' /\ NamedOnce(catalog, Len(catalog))'
  BY <1>1, <1>2, <1>3 DEF ReadInv
<1> QED
  BY <1>9, <1>10, <1>11, <1>12, <1>13 DEF ReadInv

\* A row gets a value for a new column.
LEMMA LongerWhole ==
    ASSUME NEW r \in Row, NEW c \in 1 .. MaxColumns, c + 1 \in 1 .. MaxColumns,
           NEW value \in Values \cup {Null},
           Len(r) >= c, Garbled \notin Range(r), \A i \in 1 .. c : r[i] # Gone
    PROVE  LET t == RowWithValue(r, c, value)
           IN  /\ t \in Row /\ t[1] = r[1] /\ Garbled \notin Range(t)
               /\ Len(t) >= c + 1 /\ \A i \in 1 .. c + 1 : t[i] # Gone
<1> DEFINE t == RowWithValue(r, c, value)
<1>1. /\ t \in Row /\ t[1] = r[1]
      /\ Len(t) = IF Len(r) > c + 1 THEN Len(r) ELSE c + 1
      /\ \A i \in 1 .. Len(t) :
            t[i] = IF i = c + 1
                   THEN IF value = Null /\ i <= Len(r) /\ r[i] # Null THEN Unmarked ELSE value
                   ELSE IF i > Len(r) THEN Garbled
                   ELSE IF i > c THEN BitOf(r[i]) ELSE r[i]
  BY RowWithValueFacts
<1>2. /\ Len(r) \in Nat /\ c \in Nat /\ c >= 1
      /\ DOMAIN r = 1 .. Len(r) /\ \A i \in 1 .. Len(r) : r[i] # Garbled
  <2>1. r \in [1 .. Len(r) -> Value] /\ Len(r) \in Nat /\ c \in Nat /\ c >= 1
    BY RowFacts, DatabaseAssumption
  <2> QED
    BY <2>1 DEF Range
<1>3. value # Garbled /\ value # Gone /\ Unmarked # Garbled /\ Unmarked # Gone
  BY DatabaseAssumption
<1>4. \A x : BitOf(x) # Garbled
  BY DatabaseAssumption DEF BitOf
<1> HIDE DEF t
<1>5. DOMAIN t = 1 .. Len(t) /\ Len(t) \in Nat /\ Len(t) >= c + 1
  BY <1>1, <1>2, RowFacts
<1>6. \A i \in 1 .. Len(t) : t[i] # Garbled
  <2> TAKE i \in 1 .. Len(t)
  <2>1. CASE i = c + 1
    BY <1>1, <1>3, <2>1
  <2>2. CASE i # c + 1
    <3>1. i \in 1 .. Len(r)
      BY <1>1, <1>2, <2>2
    <3>2. t[i] = IF i > c THEN BitOf(r[i]) ELSE r[i]
      BY <1>1, <1>2, <2>2, <3>1
    <3> QED
      BY <1>2, <1>4, <3>1, <3>2
  <2> QED
    BY <2>1, <2>2
<1>7. \A i \in 1 .. c + 1 : t[i] # Gone
  <2> TAKE i \in 1 .. c + 1
  <2>1. i \in 1 .. Len(t)
    BY <1>2, <1>5
  <2>2. CASE i = c + 1
    BY <1>1, <1>3, <2>1, <2>2
  <2>3. CASE i # c + 1
    <3>1. i \in 1 .. c /\ ~(i > c) /\ ~(i > Len(r))
      BY <1>2, <2>3
    <3>2. t[i] = r[i]
      BY <1>1, <2>1, <2>3, <3>1
    <3> QED
      BY <3>1, <3>2
  <2> QED
    BY <2>2, <2>3
<1> QED
  BY <1>1, <1>5, <1>6, <1>7 DEF Range, t

\* A column is added.
LEMMA ReadAlterAdd ==
    ASSUME Growing, ReadInv, NEW n \in Names, NEW value \in Values \cup {Null},
           AlterAdd(n, value)
    PROVE  ReadInv'
<1> DEFINE c == ColumnsOf(n)
           page == Pages(n)
           s == InKeyOrder(page)
           longer == [i \in DOMAIN s |-> RowWithValue(s[i], c, value)]
           old == PageInBuffer(n)
<1>1. /\ up /\ pending = Idle /\ Exists(n) /\ c < MaxColumns
  BY DEF AlterAdd, Typed, ColumnsOf
<1>2. /\ TypeInv /\ IOOk(IO) /\ Single(IO) /\ c \in 1 .. MaxColumns /\ c = Current(n)
      /\ page = PagesOf(IO, n, c)
      /\ page \in RowSets /\ page \subseteq Row /\ Whole(page) /\ Filled(page, c)
  BY <1>1, ReadFacts
<1>3. c + 1 \in 1 .. MaxColumns /\ Current(n) <= c + 1
  BY <1>1, <1>2, DatabaseAssumption
<1>4. \/ /\ s = <<>> /\ slots' = SlotsWithColumns(n, c + 1) /\ catalog' = SavedCatalog(slots')
         /\ UNCHANGED <<up, count, room, entries, files, pending>>
      \/ StartAlter(n, "add", c + 1, longer, old)
  BY <1>2 DEF AlterAdd, RowsInOrder, ColumnsOf
<1>5. TypeInv'
  BY <1>2, TypeAlterAdd
<1>6. /\ s \in Seq(Row) /\ DOMAIN s = 1 .. Len(s) /\ Len(s) \in Nat
      /\ \A i \in 1 .. Len(s) : s[i] \in page
      /\ \A i, j \in 1 .. Len(s) : s[i][1] = s[j][1] => i = j
      /\ s = <<>> <=> page = {}
  BY <1>2, OrderedKeys
<1>9. Whole(old) /\ Filled(old, c)
  <2>1. CASE IsCached(IO, n)
    <3>1. old = page
      BY <1>2, <2>1 DEF PageInBuffer, PagesOf, IO
    <3> QED
      BY <1>2, <3>1
  <2>2. CASE ~IsCached(IO, n)
    BY <2>2 DEF PageInBuffer, Whole, Filled
  <2> QED
    BY <2>1, <2>2
<1> HIDE DEF c, page, s, old
<1>7. CASE /\ s = <<>> /\ slots' = SlotsWithColumns(n, c + 1) /\ catalog' = SavedCatalog(slots')
           /\ UNCHANGED <<up, count, room, entries, files, pending>>
  <2>1. PagesOf(IO, n, c) = {}
    BY <1>2, <1>6, <1>7
  <2>2. ~IsCached(IO, n)
    BY <1>2, <2>1, PagesOfFacts
  <2>3. files[n] = {}
    <3>1. Layout(files[n], c) = {}
      BY <2>1, <2>2 DEF PagesOf, IO
    <3> QED
      BY <3>1 DEF Layout
  <2>4. \A m : Current(m) = ColumnsOf(m)
    BY <1>1 DEF Current
  <2> QED
    BY <1>1, <1>3, <1>5, <1>7, <2>2, <2>3, <2>4, ReadColumns
<1>8. CASE StartAlter(n, "add", c + 1, longer, old)
  <2>1. /\ DOMAIN longer = 1 .. Len(s) /\ Len(longer) = Len(s)
        /\ \A i \in 1 .. Len(s) : longer[i] = RowWithValue(s[i], c, value)
    BY <1>6
  <2> HIDE DEF longer
  <2>2. \A i \in 1 .. Len(s) :
           /\ longer[i] \in Row /\ longer[i][1] = s[i][1] /\ Garbled \notin Range(longer[i])
           /\ Len(longer[i]) >= c + 1 /\ \A k \in 1 .. c + 1 : longer[i][k] # Gone
    <3> TAKE i \in 1 .. Len(s)
    <3>1. PICK r : r = s[i]
      OBVIOUS
    <3>2. r \in Row /\ Len(r) >= c /\ Garbled \notin Range(r) /\ \A k \in 1 .. c : r[k] # Gone
      BY <1>2, <1>6, <3>1 DEF Whole, Filled
    <3>3. PICK t : t = RowWithValue(r, c, value)
      OBVIOUS
    <3>4. /\ t \in Row /\ t[1] = r[1] /\ Garbled \notin Range(t)
          /\ Len(t) >= c + 1 /\ \A k \in 1 .. c + 1 : t[k] # Gone
      BY ONLY <1>2, <1>3, <3>2, <3>3, value \in Values \cup {Null}, LongerWhole
    <3> QED
      BY <2>1, <3>1, <3>3, <3>4
  <2>3. longer \in Seq(Row)
    <3>1. longer \in [1 .. Len(s) -> Row]
      <4>1. longer = [i \in 1 .. Len(s) |-> longer[i]]
        BY <1>6 DEF longer
      <4> QED
        BY <2>2, <4>1
    <3> QED
      BY <1>6, <3>1
  <2>4. \A r \in Range(longer) : \E i \in 1 .. Len(s) : r = longer[i]
    BY <2>1 DEF Range
  <2>5. Whole(Range(longer)) /\ Filled(Range(longer), c + 1)
    BY <2>2, <2>4 DEF Whole, Filled
  <2>6. DistinctKeys(longer)
    BY <1>6, <2>1, <2>2 DEF DistinctKeys
  <2> QED
    BY <1>1, <1>2, <1>3, <1>5, <1>8, <1>9, <2>3, <2>5, <2>6, ReadStartAlter
<1> QED
  BY <1>4, <1>7, <1>8

\* The new column reaches the array and the catalog.
LEMMA ReadFinish ==
    ASSUME Growing, ReadInv, Finish
    PROVE  ReadInv'
<1>1. PICK n, c : n = pending.name /\ c = pending.columns
  OBVIOUS
<1>2. /\ up /\ up' = up /\ pending # Idle /\ count' = count
      /\ entries' = entries /\ files' = files /\ pending' = Idle
      /\ pending.kind = "add" /\ Exists(n)
  BY <1>1 DEF Finish, ReadInv, PendingWhole
<1>3. slots' = SlotsWithColumns(n, c) /\ catalog' = SavedCatalog(slots')
  BY <1>1, <1>2 DEF Finish
<1>4. n \in Names /\ c \in 1 .. MaxColumns /\ TypeInv'
  <2>1. pending \in Unfinished
    BY <1>2 DEF ReadInv, TypeInv, PendingOK
  <2>2. pending.name \in Names /\ pending.columns \in 1 .. MaxColumns
    BY <2>1, UnfinishedFacts
  <2>3. TypeInv'
    BY TypeFinish DEF ReadInv
  <2> QED
    BY <1>1, <2>2, <2>3
<1>5. Current(n) = c /\ \A m \in Names \ {n} : Current(m) = ColumnsOf(m)
  BY <1>1, <1>2 DEF Current
<1>6. Current(n) <= c
  BY <1>4, <1>5, DatabaseAssumption
<1> QED
  BY <1>2, <1>3, <1>4, <1>5, <1>6, ReadColumns

\* The program is left: a page is written with the columns of its table.
LEMMA ReadQuit ==
    ASSUME Growing, ReadInv, Quit
    PROVE  ReadInv'
<1>1. /\ up /\ pending = Idle
      /\ up' = FALSE /\ slots' = NoSlots /\ count' = 0 /\ entries' = <<>> /\ pending' = Idle
      /\ catalog' = SavedCatalog(slots) /\ files' \in Flushed(IO)
  BY DEF Quit, Typed, Ended
<1>2. TypeInv /\ TypeInv' /\ IOOk(IO) /\ Single(IO) /\ NamedOnce(slots, count)
  BY TypeQuit DEF ReadInv, TypeInv
<1>3. /\ slots \in [1 .. MaxTables -> Table \cup {NoTable}] /\ \A i \in 1 .. count : slots[i] \in Table
      /\ count \in 0 .. MaxTables /\ count \in Nat /\ MaxTables \in Nat
      /\ files \in [Names -> StoredRows] /\ entries \in Seq(Cachable)
  BY <1>2, DatabaseAssumption DEF TypeInv, TablesOK, IOOk, IOType, IO
<1>4. /\ Len(catalog') = count /\ DOMAIN catalog' = 1 .. count
      /\ \A i \in 1 .. count : catalog'[i] = slots[i]
  <2>1. slots \in Seq(Table \cup {NoTable}) /\ Len(slots) = MaxTables
    BY <1>3
  <2>2. catalog' = [i \in 1 .. count |-> slots[i]]
    BY <1>1, <1>3, <2>1 DEF SavedCatalog
  <2> QED
    BY <1>3, <2>2
<1>5. \A i \in 1 .. count : \A m : slots[i].name = m =>
         m \in Names /\ Exists(m) /\ slots[i].columns = Current(m)
  <2>1. \A i \in 1 .. count : Exists(slots[i].name) /\ SlotOf(slots[i].name) = i
    BY <1>2, <1>3, SlotIsFound DEF SlotFact
  <2>2. \A m : Current(m) = ColumnsOf(m)
    BY <1>1 DEF Current
  <2>3. \A i \in 1 .. count : slots[i].name \in Names
    BY <1>3, TableFacts
  <2> QED
    BY <2>1, <2>2, <2>3 DEF ColumnsOf
<1>6. \A m : NewTableColumns \subseteq Widths(m) /\ (Exists(m) => Current(m) \in Widths(m))
  BY <1>1 DEF Widths
<1>7. \A m \in Names : Widths(m)' \subseteq Widths(m)
  BY <1>1, <1>4, <1>5, <1>6 DEF Widths
<1>8. \A m \in Names : /\ files'[m] \in RowSets /\ Whole(files'[m])
                       /\ \A c \in Widths(m) : Filled(files'[m], c)
  <2>1. CASE entries = <<>>
    <3>1. files' = files
      BY <1>1, <2>1 DEF Flushed, IO
    <3> QED
      BY <3>1 DEF ReadInv, FilesReadable
  <2>2. CASE entries # <<>>
    <3> DEFINE e == entries[1]
    <3>1. 1 \in 1 .. Len(entries) /\ IO.entries = entries
      BY <1>3, <2>2 DEF IO
    <3>2. PICK h \in Held(IO) : h = Holding(e) /\ h.name = e.name
      BY <1>2, <3>1, HeldFacts
    <3>3. h.table = e.table /\ h.page = e.page
      BY <3>2 DEF Holding
    <3>4. h.name \in Names /\ h.page \in RowSets /\ h.page \subseteq Row
      BY <1>2, <3>2, HeldFacts DEF RowSets
    <3>5. /\ Exists(h.name) /\ h.table # Dangling /\ ColumnsAt(h.table) = Current(h.name)
          /\ Whole(h.page) /\ Filled(h.page, Current(h.name))
      BY DEF ReadInv, BufferReadable
    <3>6. PICK n, c : n \in Names /\ n = h.name /\ c = Current(n)
      BY <3>4
    <3>7. files' = [files EXCEPT ![n] = Layout(h.page, c)]
      <4>1. e.table # Dangling /\ ColumnsAt(e.table) = c /\ e.name = n /\ e.page = h.page
        BY <3>2, <3>3, <3>5, <3>6
      <4>2. ColumnsRead(e.table) = {c}
        BY <4>1 DEF ColumnsRead
      <4>3. PICK columns \in ColumnsRead(e.table) :
               files' = [files EXCEPT ![e.name] = Layout(e.page, columns)]
        BY <1>1, <2>2 DEF Flushed, IO
      <4>4. columns = c
        BY <4>2, <4>3
      <4> HIDE DEF e
      <4> QED
        BY <4>1, <4>3, <4>4
    <3> HIDE DEF e
    <3>8. c \in 1 .. MaxColumns /\ c \in Nat /\ \A d \in Widths(n) : d <= c
      BY <1>1, <3>5, <3>6, ReadFacts, DatabaseAssumption
    <3>9. Layout(h.page, c) \in RowSets
      BY <3>4, <3>8, LayoutFacts DEF StoredRows
    <3>10. Whole(Layout(h.page, c)) /\ Filled(Layout(h.page, c), c)
      BY <3>4, <3>5, <3>6, <3>8, WholeLayout
    <3> DEFINE rows == Layout(h.page, c)
    <3>11. files'[n] = rows /\ \A m \in Names \ {n} : files'[m] = files[m]
      BY <1>3, <3>6, <3>7
    <3> HIDE DEF rows
    <3>12. rows \in RowSets /\ rows \subseteq Row /\ Whole(rows) /\ Filled(rows, c)
      BY <3>9, <3>10 DEF rows, RowSets
    <3>13. \A d \in Widths(n) : Filled(rows, d)
      <4>1. \A d \in Widths(n) : d \in Nat
        BY <1>2, <3>6, <3>8, WidthsTyped
      <4> QED
        BY <3>8, <3>12, <4>1, FewerFilled
    <3> QED
      BY <3>11, <3>12, <3>13 DEF ReadInv, FilesReadable
  <2> QED
    BY <2>1, <2>2
<1>9. FilesReadable'
  BY <1>7, <1>8 DEF FilesReadable
<1>10. TablesGrow'
  <2>1. \A i \in 1 .. count : \A c \in NewTableColumns : c <= slots[i].columns
    BY <1>1, <1>5, <1>6, ReadFacts
  <2> QED
    BY <1>1, <1>4, <2>1 DEF TablesGrow
<1>11. NamedOnce(slots, count)' /\ NamedOnce(catalog, Len(catalog))'
  BY <1>1, <1>2, <1>4 DEF NamedOnce
<1> QED
  BY <1>1, <1>2, <1>9, <1>10, <1>11, ReadEmpty

\* The program dies: files and catalog stay.
LEMMA ReadCrash ==
    ASSUME Growing, ReadInv, Crash
    PROVE  ReadInv'
<1>1. /\ up' = FALSE /\ slots' = NoSlots /\ count' = 0 /\ entries' = <<>> /\ pending' = Idle
      /\ catalog' = catalog /\ files' = files
  BY DEF Crash, Ended
<1>2. TypeInv'
  BY TypeCrash DEF ReadInv
<1>3. \A m : Widths(m)' \subseteq Widths(m)
  BY <1>1 DEF Widths
<1>4. FilesReadable'
  BY <1>1, <1>3 DEF ReadInv, FilesReadable
<1>5. TablesGrow'
  BY <1>1 DEF ReadInv, TablesGrow
<1>6. NamedOnce(slots, count)' /\ NamedOnce(catalog, Len(catalog))'
  BY <1>1 DEF ReadInv, NamedOnce
<1> QED
  BY <1>1, <1>2, <1>4, <1>5, <1>6, ReadEmpty

\* The program starts: the tables are those of the catalog.
LEMMA ReadStart ==
    ASSUME Growing, ReadInv, Start
    PROVE  ReadInv'
<1>1. /\ ~up /\ up' = TRUE /\ count' = Len(catalog)
      /\ slots' = [i \in 1 .. MaxTables |-> IF i <= Len(catalog) THEN catalog[i] ELSE NoTable]
      /\ entries' = entries /\ files' = files /\ catalog' = catalog /\ pending' = pending
  BY DEF Start
<1>2. TypeInv /\ TypeInv'
  BY <1>1, TypeStart DEF ReadInv
<1>3. /\ entries = <<>> /\ pending = Idle /\ MaxTables \in Nat
      /\ catalog \in Seq(Table) /\ Len(catalog) <= MaxTables
      /\ DOMAIN catalog = 1 .. Len(catalog) /\ Len(catalog) \in Nat
  BY <1>1, <1>2, DatabaseAssumption DEF TypeInv, TablesOK, StoppedOK
<1>4. \A i \in 1 .. Len(catalog) : slots'[i] = catalog[i] /\ catalog[i] \in Table
  BY <1>1, <1>3
<1>5. NamedOnce(slots, count)' /\ NamedOnce(catalog, Len(catalog))'
  BY <1>1, <1>4 DEF NamedOnce, ReadInv
<1>6. \A i \in 1 .. Len(catalog) : \A m : catalog[i].name = m =>
         Exists(m)' /\ catalog[i].columns = Current(m)'
  <2>1. \A i \in 1 .. Len(catalog') : \A m :
           catalog'[i].name = m => Exists(m)' /\ catalog'[i].columns = ColumnsOf(m)'
    BY <1>1, <1>3, <1>4, <1>5, SavedWidths
  <2>2. \A m : Current(m)' = ColumnsOf(m)'
    BY <1>1, <1>3 DEF Current
  <2> QED
    BY <1>1, <2>1, <2>2
<1>7. \A m : Exists(m)' => \E i \in 1 .. Len(catalog) : catalog[i].name = m
  BY <1>1, <1>4 DEF Exists, SlotsOf
<1>8. \A m : Widths(m)' \subseteq Widths(m)
  BY <1>1, <1>6, <1>7 DEF Widths
<1>9. FilesReadable'
  BY <1>1, <1>8 DEF ReadInv, FilesReadable
<1>10. TablesGrow'
  <2>1. \A i \in 1 .. Len(catalog) : \A c \in NewTableColumns : c <= catalog[i].columns
    BY DEF ReadInv, TablesGrow
  <2>2. \A m \in Names : Exists(m)' => \A c \in Widths(m)' : c <= Current(m)'
    <3> SUFFICES ASSUME NEW m \in Names, Exists(m)', NEW c \in Widths(m)' PROVE c <= Current(m)'
      OBVIOUS
    <3>1. PICK i \in 1 .. Len(catalog) : catalog[i].name = m
      BY <1>7
    <3>2. Current(m)' = catalog[i].columns /\ Current(m)' \in Nat
      BY <1>3, <1>4, <1>6, <3>1, TableFacts, DatabaseAssumption
    <3>3. c \in NewTableColumns \/ c = Current(m)'
      BY <1>1, <1>6 DEF Widths
    <3> QED
      BY <2>1, <3>2, <3>3
  <2>3. \A i \in 1 .. Len(catalog) : Exists(catalog[i].name)'
    <3> SUFFICES ASSUME NEW i \in 1 .. Len(catalog) PROVE Exists(catalog[i].name)'
      OBVIOUS
    <3>1. PICK m : m = catalog[i].name
      OBVIOUS
    <3>2. Exists(m)'
      BY <1>6, <3>1
    <3> QED
      BY <1>1, <3>1, <3>2
  <2> QED
    BY <1>1, <2>1, <2>2, <2>3 DEF TablesGrow
<1> QED
  BY <1>1, <1>2, <1>3, <1>5, <1>9, <1>10, ReadEmpty

\* The empty database.
LEMMA ReadInit == Init => ReadInv
<1> SUFFICES ASSUME Init PROVE ReadInv
  OBVIOUS
<1>1. TypeInv
  BY TypeInit
<1>2. /\ up /\ entries = <<>> /\ pending = Idle /\ count = 0
      /\ Len(catalog) = 0 /\ \A n \in Names : files[n] = {}
  BY DEF Init
<1>3. Held(IO) = {} /\ Single(IO)
  <2>1. IO.entries = <<>>
    BY <1>2 DEF IO
  <2> QED
    BY <2>1, NothingHeld
<1>4. \A n : ~Exists(n)
  BY <1>2 DEF Exists, SlotsOf
<1>5. NamedOnce(slots, count) /\ NamedOnce(catalog, Len(catalog))
  BY <1>2 DEF NamedOnce
<1>6. FilesReadable
  BY <1>2, SmallRowSets DEF FilesReadable, Whole, Filled
<1>7. TablesGrow
  BY <1>2, <1>4 DEF TablesGrow
<1> QED
  BY <1>1, <1>2, <1>3, <1>5, <1>6, <1>7 DEF ReadInv, BufferReadable, PendingWhole

\* Every step of these statements, and every crash and restart between them.
LEMMA ReadNext == Growing /\ ReadInv /\ [Next]_vars => ReadInv'
<1> SUFFICES ASSUME Growing, ReadInv, [Next]_vars PROVE ReadInv'
  OBVIOUS
<1>1. ASSUME NEW n \in Names, NEW columns \in NewTableColumns, CreateTable(n, columns)
      PROVE  ReadInv'
  BY <1>1, ReadCreate
<1>2. ASSUME NEW n \in Names, NEW r \in TypedRows(n), Insert(n, <<r>>)
      PROVE  ReadInv'
  BY <1>2, ReadInsertOne
<1>3. ASSUME NEW n \in Names, NEW r \in TypedRows(n), NEW s \in TypedRows(n), Insert(n, <<r, s>>)
      PROVE  ReadInv'
  BY <1>3, ReadInsertTwo
<1>4. ASSUME NEW n \in Names, Select(n)
      PROVE  ReadInv'
  BY <1>4, ReadSelect
<1>5. ASSUME NEW n \in Names, NEW value \in Values \cup {Null}, AlterAdd(n, value)
      PROVE  ReadInv'
  BY <1>5, ReadAlterAdd
<1>6. \A n : ~DropTable(n) /\ ~DeleteAll(n)
  BY DEF Growing, DropTable, DeleteAll, Typed
<1>7. \A n, key : ~Delete(n, key) /\ ~RefusedUpdate(n, key)
  BY DEF Growing, Delete, RefusedUpdate, Typed
<1>8. \A n, key, column, value : ~Update(n, key, column, value)
  BY DEF Growing, Update, Typed
<1>9. \A n, column : ~AlterDrop(n, column)
  BY DEF Growing, AlterDrop, Typed
<1>10. CASE Continue
  <2>1. ~RewriteRow /\ ~RewriteFails
    <3>1. ASSUME pending.kind = "rewrite" PROVE FALSE
      <4>1. pending # Idle
        BY <3>1 DEF Idle
      <4> QED
        BY <3>1, <4>1 DEF ReadInv, PendingWhole
    <3> QED
      BY <3>1 DEF RewriteRow, RewriteFails
  <2> QED
    BY <1>10, <2>1, ReadAlterRow, ReadAlterFails, ReadFinish DEF Continue
<1>11. CASE Quit \/ Crash \/ Start
  BY <1>11, ReadQuit, ReadCrash, ReadStart
<1>13. \A n : InsertRefused(n) => UNCHANGED vars
  BY DEF InsertRefused
<1>12. CASE UNCHANGED vars
  <2>1. IO' = IO /\ TypeInv'
    BY <1>12, TypeNext DEF IO, vars, ReadInv
  <2>2. \A m : SlotOf(m)' = SlotOf(m) /\ (Exists(m)' <=> Exists(m)) /\ ColumnsOf(m)' = ColumnsOf(m)
    BY <1>12 DEF SlotOf, SlotsOf, Exists, ColumnsOf, vars
  <2>3. \A m : Current(m)' = Current(m)
    BY <1>12, <2>2 DEF Current, vars
  <2>4. \A m : Widths(m)' = Widths(m)
    BY <1>12, <2>2, <2>3 DEF Widths, vars
  <2>5. FilesReadable' /\ TablesGrow'
    BY <1>12, <2>2, <2>3, <2>4 DEF ReadInv, FilesReadable, TablesGrow, vars
  <2>6. BufferReadable'
    BY <1>12, <2>1, <2>2, <2>3 DEF ReadInv, BufferReadable, ColumnsAt, vars
  <2>7. PendingWhole'
    <3>1. pending' = pending /\ catalog' = catalog
      BY <1>12 DEF vars
    <3>2. Exists(pending.name)' <=> Exists(pending.name)
      BY <2>2, <3>1
    <3>3. Pages(pending.name)' = Pages(pending.name)
      BY <2>1, <2>3, <3>1 DEF Pages
    <3>4. ColumnsOf(pending.name)' = ColumnsOf(pending.name)
      BY <2>2, <3>1
    <3> QED
      BY <3>1, <3>2, <3>3, <3>4 DEF ReadInv, PendingWhole
  <2> QED
    BY <1>12, <2>1, <2>5, <2>6, <2>7 DEF ReadInv, vars
<1> QED
  BY <1>1, <1>2, <1>3, <1>4, <1>5, <1>6, <1>7, <1>8, <1>9, <1>10, <1>11, <1>12, <1>13 DEF Next

\* What a table shows has all its values.
LEMMA ReadShown == ReadInv => NothingGarbled
<1> SUFFICES ASSUME ReadInv, NEW n \in Names
             PROVE  /\ \A r \in files[n] : Garbled \notin Range(r)
                    /\ n \in Living => \A r \in Shown(n).rows : Garbled \notin Range(r)
  BY DEF NothingGarbled
<1>1. files[n] \subseteq Row /\ Whole(files[n]) /\ \A c \in Widths(n) : Filled(files[n], c)
  BY DEF ReadInv, FilesReadable, RowSets
<1>2. CASE up /\ n \in Living
  <2>1. Exists(n)
    BY <1>2 DEF Living, Exists, SlotsOf
  <2> DEFINE c == Current(n)
  <2>2. c \in 1 .. MaxColumns /\ Pages(n) \subseteq Row /\ Whole(Pages(n)) /\ Filled(Pages(n), c)
    BY <1>2, <2>1, ReadFacts
  <2>3. Remaining(n) \subseteq Row /\ Whole(Remaining(n)) /\ Filled(Remaining(n), c)
    <3>1. CASE pending # Idle /\ pending.name = n
      <4>1. pending.rows \in Seq(Row)
        <5>1. pending \in Unfinished
          BY <3>1 DEF ReadInv, TypeInv, PendingOK
        <5> QED
          BY <5>1, UnfinishedFacts
      <4>2. Whole(Range(pending.rows)) /\ Filled(Range(pending.rows), c)
        BY <3>1 DEF ReadInv, PendingWhole, Current
      <4>3. Range(pending.rows) \subseteq Row
        BY <4>1 DEF Range
      <4>4. Remaining(n) \subseteq Range(pending.rows)
        BY <3>1, <4>1 DEF Remaining, Left, FirstByKey, Range
      <4> QED
        BY <4>2, <4>3, <4>4 DEF Whole, Filled
    <3>2. CASE ~(pending # Idle /\ pending.name = n)
      BY <3>2 DEF Remaining, Whole, Filled
    <3> QED
      BY <3>1, <3>2
  <2>4. Shown(n).rows = View(Pages(n) \cup Remaining(n), c)
    BY <1>2, ViewIsShown DEF ViewFact
  <2> DEFINE rows == Pages(n) \cup Remaining(n)
  <2> HIDE DEF c
  <2>5. rows \subseteq Row /\ Whole(rows) /\ Filled(rows, c)
    BY <2>2, <2>3 DEF Whole, Filled
  <2> HIDE DEF rows
  <2>6. Whole(View(rows, c))
    BY <2>2, <2>5, WholePrinted
  <2> QED
    BY <1>1, <2>4, <2>6 DEF Whole, rows
<1>3. CASE ~up /\ n \in Living
  <2>1. DOMAIN catalog = 1 .. Len(catalog) /\ \A i \in 1 .. Len(catalog) : catalog[i] \in Table
    BY DEF ReadInv, TypeInv, TablesOK
  <2>2. PICK i \in 1 .. Len(catalog) : catalog[i].name = n
    BY <1>3, <2>1 DEF Living
  <2>3. Shown(n).rows = View(files[n], catalog[i].columns)
    <3>1. NamedOnce(catalog, Len(catalog))
      BY DEF ReadInv
    <3>2. Shown(n) = [columns |-> catalog[i].columns, rows |-> View(files[n], catalog[i].columns)]
      BY <1>3, <2>1, <2>2, <3>1, StoppedIsShown DEF StoppedFact
    <3> QED
      BY <3>2
  <2>4. catalog[i].columns \in 1 .. MaxColumns /\ catalog[i].columns \in Widths(n)
    BY <2>1, <2>2, TableFacts DEF Widths
  <2>5. Whole(View(files[n], catalog[i].columns))
    BY <1>1, <2>4, WholePrinted
  <2> QED
    BY <1>1, <2>3, <2>5 DEF Whole
<1> QED
  BY <1>1, <1>2, <1>3 DEF Whole

\* No value is read or written where there is none, as long as statements only
\* add columns and rows, tables are created before pages are cached, all new
\* tables have the same number of columns and the buffer has room for every
\* table: whatever catalog a crash leaves beside whatever files.
THEOREM NoValueGarbled == Growing => (Spec => []NothingGarbled)
<1> SUFFICES ASSUME Growing PROVE Spec => []NothingGarbled
  OBVIOUS
<1>1. Init => ReadInv
  BY ReadInit
<1>2. ReadInv /\ [Next]_vars => ReadInv'
  BY ReadNext
<1>3. ReadInv => NothingGarbled
  BY ReadShown
<1> QED
  BY <1>1, <1>2, <1>3, PTL DEF Spec
=============================================================================
