---------------------------- MODULE SelectProofs ----------------------------
(***************************************************************************)
(* Proofs about Select, for any tables, pages, conditions and orders: its  *)
(* types, the order of the records, the pairs of a join, that a condition  *)
(* is parsed as it is meant or rejected, and that what is printed is the   *)
(* answer to the query.                                                    *)
(***************************************************************************)
EXTENDS Select, ConditionProofs

-----------------------------------------------------------------------------
(* Joins: the columns, the rows and the pages of a joined table *)

LEMMA ColumnsBesideFacts ==
    ASSUME NEW name, NEW columns, NEW others, IsColumns(columns)
    PROVE  LET q == ColumnsBeside(name, columns, others)
           IN  /\ IsSequence(q) /\ Len(q) = Len(columns)
               /\ \A i \in 1 .. Len(columns) : IsColumn(q[i]) /\ q[i].type = columns[i].type
<1> DEFINE q == ColumnsBeside(name, columns, others)
           n == Len(columns)
<1>1. DOMAIN columns = 1 .. n /\ n \in Nat
  BY SequenceFacts DEF IsColumns
<1>2. \A i \in 1 .. n : q[i] = IF HasColumn(others, columns[i].name)
                                THEN Qualified(name, columns[i]) ELSE columns[i]
  BY <1>1 DEF ColumnsBeside
<1>3. IsSequence(q) /\ Len(q) = n
  <2> HIDE DEF n
  <2>1. q = [i \in 1 .. n |-> q[i]] /\ DOMAIN q = 1 .. n
    BY <1>1 DEF ColumnsBeside
  <2> HIDE DEF q
  <2>2. Len(q) = n
    BY <1>1, <2>1
  <2> QED
    BY <1>1, <2>1, <2>2 DEF IsSequence
<1>4. ASSUME NEW i \in 1 .. n PROVE IsColumn(q[i]) /\ q[i].type = columns[i].type
  <2>1. PICK c : c = columns[i]
    OBVIOUS
  <2>2. c = [name |-> c.name, type |-> c.type] /\ IsColumn(c)
    BY <2>1 DEF IsColumns, IsColumn
  <2>3. PICK x, t : c = [name |-> x, type |-> t] /\ t = c.type
    BY <2>2
  <2>4. PICK z : z = name \o "." \o c.name
    OBVIOUS
  <2>5. Qualified(name, c) = [c EXCEPT !.name = z]
    BY <2>4 DEF Qualified
  <2>6. [c EXCEPT !.name = z] = [name |-> z, type |-> t]
    BY <2>3
  <2>7. IsColumn(Qualified(name, c)) /\ Qualified(name, c).type = c.type
    BY <2>2, <2>3, <2>5, <2>6 DEF IsColumn
  <2> HIDE DEF q
  <2> QED
    BY <1>2, <2>1, <2>2, <2>7
<1> QED
  BY <1>3, <1>4

\* The columns of the left table and those of the right one follow that of
\* the number, with the types they have.
JoinsColumns(columns, l, r) ==
    /\ IsColumns(columns) /\ Len(columns) = 1 + Len(l) + Len(r)
    /\ columns[1].type = "INTEGER"
    /\ \A i \in 1 .. Len(l) : columns[1 + i].type = l[i].type
    /\ \A i \in 1 .. Len(r) : columns[1 + Len(l) + i].type = r[i].type

LEMMA JoinedColumnsFacts ==
    ASSUME NEW left, NEW right, IsColumns(catalog[left]), IsColumns(catalog[right])
    PROVE  JoinsColumns(JoinedColumns(left, right), catalog[left], catalog[right])
<1> DEFINE l == catalog[left]
           r == catalog[right]
           first == <<[name |-> " ", type |-> "INTEGER"]>>
           lq == ColumnsBeside(left, l, r)
           rq == ColumnsBeside(right, r, l)
<1>1. JoinedColumns(left, right) = (first \o lq) \o rq
  BY DEF JoinedColumns
<1>3. /\ IsSequence(lq) /\ Len(lq) = Len(l)
      /\ \A i \in 1 .. Len(l) : IsColumn(lq[i]) /\ lq[i].type = l[i].type
  BY ColumnsBesideFacts
<1>4. /\ IsSequence(rq) /\ Len(rq) = Len(r)
      /\ \A i \in 1 .. Len(r) : IsColumn(rq[i]) /\ rq[i].type = r[i].type
  BY ColumnsBesideFacts
<1>5. IsSequence(first) /\ Len(first) = 1 /\ IsColumn(first[1]) /\ first[1].type = "INTEGER"
  <2>1. IsColumn([name |-> " ", type |-> "INTEGER"])
    BY DEF IsColumn
  <2> QED
    BY <2>1, SingleSequence
<1>6. Len(l) \in Nat /\ Len(r) \in Nat
  BY SequenceFacts DEF IsColumns
<1> HIDE DEF first, lq, rq, l, r
<1>7. /\ IsSequence(first \o lq) /\ Len(first \o lq) = 1 + Len(l)
      /\ (first \o lq)[1] = first[1]
      /\ \A i \in 1 .. Len(l) : (first \o lq)[1 + i] = lq[i]
  <2>1. /\ IsSequence(first \o lq) /\ Len(first \o lq) = Len(first) + Len(lq)
        /\ \A i \in 1 .. Len(first) : (first \o lq)[i] = first[i]
        /\ \A i \in 1 .. Len(lq) : (first \o lq)[Len(first) + i] = lq[i]
    <3>1. IsSequence(first) /\ IsSequence(lq)
      BY <1>3, <1>5
    <3> QED
      BY ONLY <3>1, ConcatFacts
  <2> QED
    BY <1>3, <1>5, <2>1
<1> DEFINE columns == (first \o lq) \o rq
<1>8. /\ IsSequence(columns) /\ Len(columns) = 1 + Len(l) + Len(r)
      /\ \A i \in 1 .. 1 + Len(l) : columns[i] = (first \o lq)[i]
      /\ \A i \in 1 .. Len(r) : columns[1 + Len(l) + i] = rq[i]
  <2>1. /\ IsSequence(columns) /\ Len(columns) = Len(first \o lq) + Len(rq)
        /\ \A i \in 1 .. Len(first \o lq) : columns[i] = (first \o lq)[i]
        /\ \A i \in 1 .. Len(rq) : columns[Len(first \o lq) + i] = rq[i]
    <3> DEFINE fl == first \o lq
    <3>1. IsSequence(fl) /\ IsSequence(rq)
      BY <1>4, <1>7
    <3> HIDE DEF fl
    <3>2. /\ IsSequence(fl \o rq) /\ Len(fl \o rq) = Len(fl) + Len(rq)
          /\ \A i \in 1 .. Len(fl) : (fl \o rq)[i] = fl[i]
          /\ \A i \in 1 .. Len(rq) : (fl \o rq)[Len(fl) + i] = rq[i]
      BY ONLY <3>1, ConcatFacts
    <3> QED
      BY <3>2 DEF fl
  <2> QED
    BY <1>4, <1>7, <2>1
<1> HIDE DEF columns
<1>9. /\ columns[1] = first[1]
      /\ \A i \in 1 .. Len(l) : columns[1 + i] = lq[i]
  <2>1. 1 \in 1 .. 1 + Len(l) /\ \A i \in 1 .. Len(l) : 1 + i \in 1 .. 1 + Len(l)
    BY <1>6
  <2> QED
    BY <1>7, <1>8, <2>1
<1>10. ASSUME NEW i \in 1 .. Len(columns) PROVE IsColumn(columns[i])
  <2>1. CASE i = 1
    BY <1>5, <1>9, <2>1
  <2>2. CASE i > 1 /\ i <= 1 + Len(l)
    <3>1. i - 1 \in 1 .. Len(l) /\ i = 1 + (i - 1)
      BY <1>6, <2>2
    <3> QED
      BY <1>3, <1>9, <3>1
  <2>3. CASE i > 1 + Len(l)
    <3>1. i - (1 + Len(l)) \in 1 .. Len(r) /\ i = 1 + Len(l) + (i - (1 + Len(l)))
      BY <1>6, <1>8, <2>3
    <3> QED
      BY <1>4, <1>8, <3>1
  <2> QED
    BY <1>6, <1>8, <2>1, <2>2, <2>3
<1>11. columns # <<>>
  BY <1>6, <1>8
<1>12. IsColumns(columns)
  BY <1>8, <1>10, <1>11 DEF IsColumns
<1>13. columns = JoinedColumns(left, right)
  BY <1>1 DEF columns
<1> QED
  BY <1>3, <1>4, <1>5, <1>8, <1>9, <1>12, <1>13 DEF l, r, JoinsColumns

\* A row with as many values as its table has columns.
LEMMA RowSequence ==
    ASSUME NEW r, NEW columns, NEW w, IsColumns(columns), IsRow(r, columns, w)
    PROVE  IsSequence(r) /\ Len(r) = Len(columns)
BY SequenceFacts DEF IsColumns, IsRow, IsSequence

Numbered(c, x, y) == <<c>> \o (x \o y)

\* Its row: the number, then a row of the left and one of the right table.
LEMMA JoinedRow ==
    ASSUME NEW left, NEW right, IsColumns(catalog[left]), IsColumns(catalog[right]),
           NEW w, NEW x, NEW y, IsRow(x, catalog[left], w), IsRow(y, catalog[right], w),
           NEW c \in Int
    PROVE  /\ IsRow(Numbered(c, x, y), JoinedColumns(left, right), w)
           /\ \A v : v = x \o y => Tail(Numbered(c, x, y)) = v
<1> DEFINE l == catalog[left]
           r == catalog[right]
           columns == JoinedColumns(left, right)
           row == <<c>> \o (x \o y)
<1>1. /\ IsColumns(columns) /\ Len(columns) = 1 + Len(l) + Len(r)
      /\ columns[1].type = "INTEGER"
      /\ \A i \in 1 .. Len(l) : columns[1 + i].type = l[i].type
      /\ \A i \in 1 .. Len(r) : columns[1 + Len(l) + i].type = r[i].type
  <2>1. JoinsColumns(columns, l, r)
    BY JoinedColumnsFacts
  <2> QED
    BY <2>1 DEF JoinsColumns
<1>2. Len(l) \in Nat /\ Len(r) \in Nat
  BY SequenceFacts DEF IsColumns
<1>3. IsSequence(x) /\ Len(x) = Len(l) /\ IsSequence(y) /\ Len(y) = Len(r)
  BY RowSequence
<1>4. /\ \A i \in 1 .. Len(l) : (x[i] = Unset /\ ~w) \/ x[i] \in ValuesOf(l[i].type)
      /\ \A i \in 1 .. Len(r) : (y[i] = Unset /\ ~w) \/ y[i] \in ValuesOf(r[i].type)
  BY DEF IsRow
<1>5. c \in ValuesOf("INTEGER")
  BY DEF ValuesOf, IsText
<1> HIDE DEF l, r, columns
<1>6. /\ IsSequence(x \o y) /\ Len(x \o y) = Len(l) + Len(r)
      /\ \A i \in 1 .. Len(l) : (x \o y)[i] = x[i]
      /\ \A i \in 1 .. Len(r) : (x \o y)[Len(l) + i] = y[i]
  BY <1>3, ConcatFacts
<1>7. IsSequence(<<c>>) /\ Len(<<c>>) = 1 /\ <<c>>[1] = c
  BY SingleSequence
<1>8. /\ IsSequence(row) /\ Len(row) = 1 + Len(l) + Len(r)
      /\ row[1] = c
      /\ \A i \in 1 .. Len(l) + Len(r) : row[1 + i] = (x \o y)[i]
  BY <1>2, <1>6, <1>7, ConcatFacts
<1> HIDE DEF row
<1>9. /\ \A i \in 1 .. Len(l) : row[1 + i] = x[i]
      /\ \A i \in 1 .. Len(r) : row[1 + Len(l) + i] = y[i]
  <2>1. \A i \in 1 .. Len(l) : i \in 1 .. Len(l) + Len(r)
    BY <1>2
  <2>2. \A i \in 1 .. Len(r) : Len(l) + i \in 1 .. Len(l) + Len(r) /\ 1 + Len(l) + i = 1 + (Len(l) + i)
    BY <1>2
  <2> QED
    BY <1>6, <1>8, <2>1, <2>2
<1>10. ASSUME NEW i \in 1 .. Len(columns)
       PROVE  (row[i] = Unset /\ ~w) \/ row[i] \in ValuesOf(columns[i].type)
  <2>1. CASE i = 1
    BY <1>1, <1>5, <1>8, <2>1
  <2>2. CASE i > 1 /\ i <= 1 + Len(l)
    <3>1. i - 1 \in 1 .. Len(l) /\ i = 1 + (i - 1)
      BY <1>2, <2>2
    <3> QED
      BY <1>1, <1>4, <1>9, <3>1
  <2>3. CASE i > 1 + Len(l)
    <3>1. i - (1 + Len(l)) \in 1 .. Len(r) /\ i = 1 + Len(l) + (i - (1 + Len(l)))
      BY <1>1, <1>2, <2>3
    <3> QED
      BY <1>1, <1>4, <1>9, <3>1
  <2> QED
    BY <1>1, <1>2, <2>1, <2>2, <2>3
<1>11. row = [i \in 1 .. Len(columns) |-> row[i]]
  BY <1>1, <1>8 DEF IsSequence
<1>12. Tail(row) = x \o y
  <2> DEFINE t == x \o y
  <2>1. t \in Seq(Range(t)) /\ Len(t) = Len(l) + Len(r)
    BY <1>6, SequenceFacts
  <2>2. row \in Seq(Range(row)) /\ Len(row) \in Nat /\ Len(row) # 0
    BY <1>2, <1>8, SequenceFacts
  <2> HIDE DEF t
  <2>3. Tail(row) = [i \in 1 .. Len(row) - 1 |-> row[i + 1]]
    <3>1. PICK S : row \in Seq(S)
      BY <2>2
    <3>2. row # <<>>
      BY <2>2
    <3>3. Tail(row) \in Seq(S) /\ Len(Tail(row)) = Len(row) - 1
          /\ \A i \in 1 .. Len(row) - 1 : Tail(row)[i] = row[i + 1]
      BY <3>1, <3>2, <2>2
    <3>4. IsSequence(Tail(row))
      BY <3>3, SequenceOf
    <3>5. \A u : IsSequence(u) => u = [i \in 1 .. Len(u) |-> u[i]]
      BY DEF IsSequence
    <3>6. Tail(row) = [i \in 1 .. Len(Tail(row)) |-> Tail(row)[i]]
      BY <3>4, <3>5
    <3> QED
      BY <2>2, <3>3, <3>6
  <2>4. t = [i \in 1 .. Len(l) + Len(r) |-> t[i]]
    BY <2>1
  <2>5. Len(row) - 1 = Len(l) + Len(r) /\ \A i \in 1 .. Len(l) + Len(r) : row[i + 1] = t[i]
    <3>1. \A i \in 1 .. Len(l) + Len(r) : 1 + i = i + 1
      BY <1>2
    <3>2. \A i \in 1 .. Len(l) + Len(r) : row[1 + i] = t[i]
      BY <1>8 DEF t
    <3> QED
      BY <1>2, <1>8, <3>1, <3>2
  <2>6. Tail(row) = t
    BY <2>3, <2>4, <2>5
  <2> QED
    BY <2>6 DEF t
<1> QED
  BY <1>10, <1>11, <1>12 DEF IsRow, row, columns, Numbered

Pairs(A, B) == {r \o s : r \in A, s \in B}

LEMMA PairsMember ==
    ASSUME NEW A, NEW B, NEW v
    PROVE  v \in Pairs(A, B) <=> \E r \in A, s \in B : v = r \o s
BY DEF Pairs

PairsWith(r, B) == {r \o s : s \in B}

LEMMA PairsOfOne ==
    ASSUME NEW r, NEW B, NEW v
    PROVE  v \in PairsWith(r, B) <=> \E s \in B : v = r \o s
BY DEF PairsWith

AllSequences(rows, n) == \A r \in rows : IsSequence(r) /\ Len(r) = n

\* Pairs whose left parts are equally long are equal part by part.
LEMMA ConcatCancels ==
    ASSUME NEW r, NEW s, NEW u, NEW v, IsSequence(r), IsSequence(s), IsSequence(u), IsSequence(v),
           Len(r) = Len(u), r \o s = u \o v
    PROVE  r = u /\ s = v
<1>1. /\ Len(r \o s) = Len(r) + Len(s)
      /\ \A i \in 1 .. Len(r) : (r \o s)[i] = r[i]
      /\ \A i \in 1 .. Len(s) : (r \o s)[Len(r) + i] = s[i]
  BY ONLY IsSequence(r), IsSequence(s), ConcatFacts
<1>2. /\ Len(u \o v) = Len(u) + Len(v)
      /\ \A i \in 1 .. Len(u) : (u \o v)[i] = u[i]
      /\ \A i \in 1 .. Len(v) : (u \o v)[Len(u) + i] = v[i]
  BY ConcatFacts
<1>3. Len(r) \in Nat /\ Len(s) \in Nat /\ Len(v) \in Nat
  BY SequenceFacts
<1>4. Len(s) = Len(v)
  BY <1>1, <1>2, <1>3
<1>5. /\ r = [i \in 1 .. Len(r) |-> r[i]] /\ u = [i \in 1 .. Len(u) |-> u[i]]
      /\ s = [i \in 1 .. Len(s) |-> s[i]] /\ v = [i \in 1 .. Len(v) |-> v[i]]
  BY DEF IsSequence
<1>6. \A i \in 1 .. Len(r) : r[i] = u[i]
  BY <1>1, <1>2
<1>7. \A i \in 1 .. Len(s) : s[i] = v[i]
  BY <1>1, <1>2, <1>4
<1>8. r = u
  BY <1>5, <1>6
<1>9. s = v
  BY <1>4, <1>5, <1>7
<1> QED
  BY <1>8, <1>9

\* The pairs of one row and a page.
RowPairs(r, y) == [m \in DOMAIN y |-> r \o y[m]]

LEMMA RowPairsFacts ==
    ASSUME NEW r, NEW y, IsSequence(y)
    PROVE  IsSequence(RowPairs(r, y)) /\ Range(RowPairs(r, y)) = PairsWith(r, Range(y))
<1> DEFINE t == RowPairs(r, y)
<1>1. t = [m \in DOMAIN y |-> t[m]] /\ \A m \in DOMAIN y : t[m] = r \o y[m]
  BY DEF RowPairs
<1>2. DOMAIN t = DOMAIN y
  BY <1>1
<1> HIDE DEF t
<1>3. IsSequence(t)
  BY <1>1, MappedSequence
<1>4. Range(t) = PairsWith(r, Range(y))
  <2>1. ASSUME NEW v PROVE v \in Range(t) <=> v \in PairsWith(r, Range(y))
    <3>1. v \in Range(t) <=> \E m \in DOMAIN y : v = r \o y[m]
      BY <1>1, <1>2 DEF Range
    <3>2. v \in PairsWith(r, Range(y)) <=> \E s \in Range(y) : v = r \o s
      BY PairsOfOne
    <3> QED
      BY <3>1, <3>2 DEF Range
  <2> QED
    BY <2>1
<1> QED
  BY <1>3, <1>4 DEF t

LEMMA PairsOfPagesFacts ==
    ASSUME NEW x, NEW y, IsSequence(x), IsSequence(y)
    PROVE  /\ IsSequence(PairsOfPages(x, y))
           /\ Range(PairsOfPages(x, y)) = Pairs(Range(x), Range(y))
<1> DEFINE ss == [n \in DOMAIN x |-> RowPairs(x[n], y)]
<1>1. PairsOfPages(x, y) = FlattenSeq(ss)
  BY DEF PairsOfPages, RowPairs
<1>2. DOMAIN x = 1 .. Len(x) /\ Len(x) \in Nat
  BY SequenceFacts
<1>3. IsSequence(ss) /\ Len(ss) = Len(x) /\ \A n \in 1 .. Len(x) : ss[n] = RowPairs(x[n], y)
  <2>1. ss = [n \in DOMAIN x |-> ss[n]] /\ \A n \in 1 .. Len(x) : ss[n] = RowPairs(x[n], y)
    BY <1>2
  <2> HIDE DEF ss
  <2> QED
    BY <2>1, MappedSequence
<1> HIDE DEF ss
<1>4. \A n \in 1 .. Len(ss) : IsSequence(ss[n]) /\ Range(ss[n]) = PairsWith(x[n], Range(y))
  BY <1>3, RowPairsFacts
<1>5. IsSequence(FlattenSeq(ss)) /\ Range(FlattenSeq(ss)) = UNION {Range(ss[n]) : n \in 1 .. Len(ss)}
  BY <1>3, <1>4, FlattenSequence
<1>6. Range(x) = {x[n] : n \in 1 .. Len(x)}
  BY <1>2 DEF Range
<1>7. UNION {Range(ss[n]) : n \in 1 .. Len(ss)} = Pairs(Range(x), Range(y))
  <2> DEFINE U == UNION {Range(ss[n]) : n \in 1 .. Len(ss)}
  <2>1. ASSUME NEW v \in U PROVE v \in Pairs(Range(x), Range(y))
    <3>1. PICK n \in 1 .. Len(ss) : v \in Range(ss[n])
      OBVIOUS
    <3>2. PICK s \in Range(y) : v = x[n] \o s
      <4>1. v \in PairsWith(x[n], Range(y))
        BY <1>4, <3>1
      <4> QED
        BY <4>1 DEF PairsWith
    <3> QED
      BY <1>3, <1>6, <3>2, PairsMember
  <2>2. ASSUME NEW v \in Pairs(Range(x), Range(y)) PROVE v \in U
    <3>1. PICK r \in Range(x), s \in Range(y) : v = r \o s
      BY PairsMember
    <3>2. PICK n \in 1 .. Len(ss) : r = x[n]
      BY <1>3, <1>6
    <3>3. v \in PairsWith(x[n], Range(y))
      BY <3>1, <3>2 DEF PairsWith
    <3> QED
      BY <1>4, <3>2, <3>3
  <2> QED
    BY <2>1, <2>2
<1> QED
  BY <1>1, <1>5, <1>7

LEMMA PairsOfPagesOnce ==
    ASSUME NEW x, NEW y, IsSequence(x), IsSequence(y), IsInjective(x), IsInjective(y),
           NEW a, NEW b, AllSequences(Range(x), a), AllSequences(Range(y), b)
    PROVE  IsInjective(PairsOfPages(x, y))
<1> DEFINE ss == [n \in DOMAIN x |-> RowPairs(x[n], y)]
<1>1. PairsOfPages(x, y) = FlattenSeq(ss)
  BY DEF PairsOfPages, RowPairs
<1>2. DOMAIN x = 1 .. Len(x) /\ Len(x) \in Nat /\ DOMAIN y = 1 .. Len(y)
  BY SequenceFacts
<1>3. IsSequence(ss) /\ Len(ss) = Len(x) /\ \A n \in 1 .. Len(x) : ss[n] = RowPairs(x[n], y)
  <2>1. ss = [n \in DOMAIN x |-> ss[n]] /\ \A n \in 1 .. Len(x) : ss[n] = RowPairs(x[n], y)
    BY <1>2
  <2> HIDE DEF ss
  <2> QED
    BY <2>1, MappedSequence
<1> HIDE DEF ss
<1>4. \A n \in 1 .. Len(ss) : IsSequence(ss[n]) /\ Range(ss[n]) = PairsWith(x[n], Range(y))
  BY <1>3, RowPairsFacts
<1>5. \A r, u \in Range(x) : \A s, v \in Range(y) : r \o s = u \o v => r = u /\ s = v
  BY ConcatCancels DEF AllSequences
<1>6. \A n \in DOMAIN x : x[n] \in Range(x)
  BY DEF Range
<1>7. \A m \in DOMAIN y : y[m] \in Range(y)
  BY DEF Range
<1>8. ASSUME NEW n \in 1 .. Len(ss) PROVE IsInjective(ss[n])
  <2>1. DOMAIN ss[n] = DOMAIN y /\ \A m \in DOMAIN y : ss[n][m] = x[n] \o y[m]
    BY <1>3 DEF RowPairs
  <2>2. ASSUME NEW k \in DOMAIN y, NEW m \in DOMAIN y, ss[n][k] = ss[n][m] PROVE k = m
    <3>1. y[k] = y[m]
      <4>1. x[n] \in Range(x) /\ y[k] \in Range(y) /\ y[m] \in Range(y)
        BY <1>2, <1>3, <1>6, <1>7
      <4>2. x[n] \o y[k] = x[n] \o y[m]
        BY <2>1, <2>2
      <4> QED
        BY ONLY <1>5, <4>1, <4>2
    <3> QED
      BY <3>1 DEF IsInjective
  <2> QED
    BY <2>1, <2>2 DEF IsInjective
<1>9. ASSUME NEW n \in 1 .. Len(ss), NEW k \in 1 .. Len(ss), NEW v \in Range(ss[n]), v \in Range(ss[k])
      PROVE  n = k
  <2>1. PICK s \in Range(y) : v = x[n] \o s
    <3>1. v \in PairsWith(x[n], Range(y))
      BY <1>4
    <3> QED
      BY <3>1 DEF PairsWith
  <2>2. PICK t \in Range(y) : v = x[k] \o t
    <3>1. v \in PairsWith(x[k], Range(y))
      BY <1>4, <1>9
    <3> QED
      BY <3>1 DEF PairsWith
  <2>3. x[n] = x[k]
    <3>1. x[n] \in Range(x) /\ x[k] \in Range(x)
      BY <1>2, <1>3, <1>6
    <3> QED
      BY <1>5, <2>1, <2>2, <3>1
  <2> QED
    BY <1>2, <1>3, <2>3 DEF IsInjective
<1>10. Apart(ss)
  BY <1>8, <1>9 DEF Apart
<1>11. IsInjective(FlattenSeq(ss))
  BY <1>3, <1>4, <1>10, FlattenInjective
<1> QED
  BY <1>1, <1>11

\* The pairs of a page of the left table and some pages of the right one.
PagePairs(x, q) == FlattenSeq([j \in DOMAIN q |-> PairsOfPages(x, q[j])])

LEMMA PagePairsFacts ==
    ASSUME NEW x, IsSequence(x), NEW q, IsNested(q)
    PROVE  /\ IsSequence(PagePairs(x, q))
           /\ Range(PagePairs(x, q)) = Pairs(Range(x), Range(FlattenSeq(q)))
<1> DEFINE ss == [j \in DOMAIN q |-> PairsOfPages(x, q[j])]
           U == UNION {Range(ss[j]) : j \in 1 .. Len(ss)}
<1>1. IsSequence(q) /\ DOMAIN q = 1 .. Len(q) /\ \A j \in 1 .. Len(q) : IsSequence(q[j])
  BY SequenceFacts DEF IsNested
<1>2. IsSequence(ss) /\ Len(ss) = Len(q) /\ \A j \in 1 .. Len(q) : ss[j] = PairsOfPages(x, q[j])
  <2>1. ss = [j \in DOMAIN q |-> ss[j]] /\ \A j \in 1 .. Len(q) : ss[j] = PairsOfPages(x, q[j])
    BY <1>1
  <2> HIDE DEF ss
  <2> QED
    BY <1>1, <2>1, MappedSequence
<1>3. PagePairs(x, q) = FlattenSeq(ss)
  BY DEF PagePairs
<1> HIDE DEF ss
<1>4. \A j \in 1 .. Len(q) : IsSequence(ss[j]) /\ Range(ss[j]) = Pairs(Range(x), Range(q[j]))
  BY <1>1, <1>2, PairsOfPagesFacts
<1>5. IsSequence(FlattenSeq(ss)) /\ Range(FlattenSeq(ss)) = U
  BY <1>2, <1>4, FlattenSequence
<1>6. Range(FlattenSeq(q)) = UNION {Range(q[j]) : j \in 1 .. Len(q)}
  BY <1>1, FlattenSequence
<1>7. ASSUME NEW v \in U PROVE v \in Pairs(Range(x), Range(FlattenSeq(q)))
  <2>1. PICK j \in 1 .. Len(q) : v \in Pairs(Range(x), Range(q[j]))
    BY <1>2, <1>4
  <2>2. PICK r \in Range(x), s \in Range(q[j]) : v = r \o s
    <3>1. PICK B : B = Range(q[j])
      OBVIOUS
    <3>2. v \in Pairs(Range(x), B)
      BY <2>1, <3>1
    <3>3. \E r \in Range(x), s \in B : v = r \o s
      BY <3>2, PairsMember
    <3> QED
      BY <3>1, <3>3
  <2>3. s \in Range(FlattenSeq(q))
    BY <1>6, <2>2
  <2> QED
    BY <2>2, <2>3 DEF Pairs
<1>8. ASSUME NEW v \in Pairs(Range(x), Range(FlattenSeq(q))) PROVE v \in U
  <2>1. PICK r \in Range(x), s \in Range(FlattenSeq(q)) : v = r \o s
    BY DEF Pairs
  <2>2. PICK j \in 1 .. Len(q) : s \in Range(q[j])
    BY <1>6, <2>1
  <2>3. v \in Pairs(Range(x), Range(q[j]))
    BY <2>1, <2>2 DEF Pairs
  <2> QED
    BY <1>2, <1>4, <2>3
<1> QED
  BY <1>3, <1>5, <1>7, <1>8

LEMMA PagePairsOnce ==
    ASSUME NEW x, IsSequence(x), IsInjective(x), NEW q, IsNested(q), IsInjective(FlattenSeq(q)),
           NEW a, NEW b, AllSequences(Range(x), a), AllSequences(Range(FlattenSeq(q)), b)
    PROVE  IsInjective(PagePairs(x, q))
<1> DEFINE ss == [j \in DOMAIN q |-> PairsOfPages(x, q[j])]
<1>1. IsSequence(q) /\ DOMAIN q = 1 .. Len(q) /\ \A j \in 1 .. Len(q) : IsSequence(q[j])
  BY SequenceFacts DEF IsNested
<1>2. IsSequence(ss) /\ Len(ss) = Len(q) /\ \A j \in 1 .. Len(q) : ss[j] = PairsOfPages(x, q[j])
  <2>1. ss = [j \in DOMAIN q |-> ss[j]] /\ \A j \in 1 .. Len(q) : ss[j] = PairsOfPages(x, q[j])
    BY <1>1
  <2> HIDE DEF ss
  <2> QED
    BY <1>1, <2>1, MappedSequence
<1>3. PagePairs(x, q) = FlattenSeq(ss)
  BY DEF PagePairs
<1> HIDE DEF ss
<1>4. \A j \in 1 .. Len(q) : IsSequence(ss[j]) /\ Range(ss[j]) = Pairs(Range(x), Range(q[j]))
  BY <1>1, <1>2, PairsOfPagesFacts
<1>5. Range(FlattenSeq(q)) = UNION {Range(q[j]) : j \in 1 .. Len(q)}
  BY <1>1, FlattenSequence
<1>6. Apart(q)
  BY <1>1, FlattenInjective
<1>7. \A j \in 1 .. Len(q) : IsInjective(q[j]) /\ AllSequences(Range(q[j]), b)
  BY <1>5, <1>6 DEF Apart, AllSequences
<1>8. \A j \in 1 .. Len(q) : IsInjective(ss[j])
  BY <1>1, <1>2, <1>7, PairsOfPagesOnce
<1>9. ASSUME NEW j \in 1 .. Len(q), NEW k \in 1 .. Len(q), NEW v \in Range(ss[j]), v \in Range(ss[k])
      PROVE  j = k
  <2>1. v \in Pairs(Range(x), Range(q[j])) /\ v \in Pairs(Range(x), Range(q[k]))
    BY <1>4, <1>9
  <2>2. PICK r \in Range(x), s \in Range(q[j]) : v = r \o s
    <3>1. PICK B : B = Range(q[j])
      OBVIOUS
    <3>2. v \in Pairs(Range(x), B)
      BY <2>1, <3>1
    <3>3. \E r \in Range(x), s \in B : v = r \o s
      BY <3>2, PairsMember
    <3> QED
      BY <3>1, <3>3
  <2>3. PICK u \in Range(x), t \in Range(q[k]) : v = u \o t
    <3>1. PICK B : B = Range(q[k])
      OBVIOUS
    <3>2. v \in Pairs(Range(x), B)
      BY <2>1, <3>1
    <3>3. \E u \in Range(x), t \in B : v = u \o t
      BY <3>2, PairsMember
    <3> QED
      BY <3>1, <3>3
  <2>4. /\ IsSequence(r) /\ IsSequence(s) /\ IsSequence(u) /\ IsSequence(t) /\ Len(r) = Len(u)
        /\ r \o s = u \o t
    BY <1>7, <2>2, <2>3 DEF AllSequences
  <2>5. s = t
    BY ONLY <2>4, ConcatCancels
  <2> QED
    BY <1>6, <2>2, <2>3, <2>5 DEF Apart
<1>10. Apart(ss)
  BY <1>2, <1>8, <1>9 DEF Apart
<1>11. IsInjective(FlattenSeq(ss))
  BY <1>2, <1>4, <1>10, FlattenInjective
<1> QED
  BY <1>3, <1>11

\* The pages that a page of the left table meets are all or the last one.
LEMMA RightPagesFacts ==
    ASSUME NEW p2, IsNested(p2), p2 # <<>>, NEW i
    PROVE  LET q == RightPages(i, p2)
           IN  /\ IsNested(q)
               /\ Range(FlattenSeq(q)) \subseteq Range(FlattenSeq(p2))
               /\ i = 1 => q = p2
               /\ IsInjective(FlattenSeq(p2)) => IsInjective(FlattenSeq(q))
<1>1. CASE i = 1
  BY <1>1 DEF RightPages
<1>2. CASE i # 1
  <2> DEFINE x == p2[Len(p2)]
  <2>1. IsSequence(p2) /\ Len(p2) \in Nat /\ Len(p2) # 0 /\ \A j \in 1 .. Len(p2) : IsSequence(p2[j])
    BY SequenceFacts DEF IsNested
  <2>2. Len(p2) \in 1 .. Len(p2) /\ IsSequence(x)
    BY <2>1
  <2>3. RightPages(i, p2) = <<x>>
    BY <1>2 DEF RightPages, Last
  <2> HIDE DEF x
  <2>4. IsSequence(<<x>>) /\ Len(<<x>>) = 1 /\ <<x>>[1] = x
    BY SingleSequence
  <2>5. IsNested(<<x>>)
    BY <2>2, <2>4 DEF IsNested
  <2>6. Range(FlattenSeq(<<x>>)) = UNION {Range(<<x>>[j]) : j \in 1 .. Len(<<x>>)}
    BY <2>2, <2>4, FlattenSequence
  <2>7. Range(FlattenSeq(<<x>>)) = Range(x)
    <3>1. PICK t : t = <<x>>
      OBVIOUS
    <3>2. Len(t) = 1 /\ t[1] = x
      BY <2>4, <3>1
    <3>3. Range(FlattenSeq(t)) = UNION {Range(t[j]) : j \in 1 .. Len(t)}
      BY <2>6, <3>1
    <3>4. \A j \in 1 .. Len(t) : t[j] = x
      BY <3>2
    <3>5. 1 \in 1 .. Len(t)
      BY <3>2
    <3>6. Range(FlattenSeq(t)) = Range(x)
      BY <3>2, <3>3, <3>4, <3>5
    <3> QED
      BY <3>1, <3>6
  <2>8. Range(FlattenSeq(p2)) = UNION {Range(p2[j]) : j \in 1 .. Len(p2)}
    BY <2>1, FlattenSequence
  <2>9. Range(x) \subseteq Range(FlattenSeq(p2))
    BY <2>2, <2>8 DEF x
  <2>10. ASSUME IsInjective(FlattenSeq(p2)) PROVE IsInjective(FlattenSeq(<<x>>))
    <3>1. IsInjective(x)
      BY <2>1, <2>2, <2>10, FlattenInjective DEF Apart, x
    <3>2. Apart(<<x>>)
      BY <2>4, <3>1 DEF Apart
    <3> QED
      BY <2>2, <2>4, <3>2, FlattenInjective
  <2> QED
    BY <1>2, <2>3, <2>5, <2>7, <2>9, <2>10
<1> QED
  BY <1>1, <1>2

\* The pairs of a join in the order of its loops.
LoopPairs(p1, p2) == FlattenSeq([i \in DOMAIN p1 |-> PagePairs(p1[i], RightPages(i, p2))])

\* They are pairs of rows of both tables, each once, and all of them if the left
\* table has one page.
LEMMA LoopPairsFacts ==
    ASSUME NEW p1, IsNested(p1), NEW p2, IsNested(p2), p2 # <<>>
    PROVE  LET A == Range(FlattenSeq(p1))
               B == Range(FlattenSeq(p2))
               pairs == LoopPairs(p1, p2)
           IN  /\ IsSequence(pairs)
               /\ Range(pairs) \subseteq Pairs(A, B)
               /\ Len(p1) <= 1 => Range(pairs) = Pairs(A, B)
               /\ \A a, b : /\ AllSequences(A, a) /\ AllSequences(B, b)
                            /\ IsInjective(FlattenSeq(p1)) /\ IsInjective(FlattenSeq(p2))
                            => IsInjective(pairs)
<1> DEFINE A == Range(FlattenSeq(p1))
           B == Range(FlattenSeq(p2))
           C(i) == Range(FlattenSeq(RightPages(i, p2)))
           ss == [i \in DOMAIN p1 |-> PagePairs(p1[i], RightPages(i, p2))]
           n == Len(p1)
<1>1. IsSequence(p1) /\ DOMAIN p1 = 1 .. n /\ n \in Nat /\ \A i \in 1 .. n : IsSequence(p1[i])
  BY SequenceFacts DEF IsNested
<1>2. IsSequence(ss) /\ Len(ss) = n /\ \A i \in 1 .. n : ss[i] = PagePairs(p1[i], RightPages(i, p2))
  <2>1. ss = [i \in DOMAIN p1 |-> ss[i]]
        /\ \A i \in 1 .. n : ss[i] = PagePairs(p1[i], RightPages(i, p2))
    BY <1>1
  <2> HIDE DEF ss
  <2> QED
    BY <1>1, <2>1, MappedSequence
<1>3. LoopPairs(p1, p2) = FlattenSeq(ss)
  BY DEF LoopPairs
<1> HIDE DEF ss
<1>4. \A i \in 1 .. n : /\ IsNested(RightPages(i, p2)) /\ C(i) \subseteq B
                        /\ i = 1 => RightPages(i, p2) = p2
                        /\ IsInjective(FlattenSeq(p2)) => IsInjective(FlattenSeq(RightPages(i, p2)))
  BY RightPagesFacts
<1> HIDE DEF n
<1>5. \A i \in 1 .. n : IsSequence(ss[i]) /\ Range(ss[i]) = Pairs(Range(p1[i]), C(i))
  BY <1>1, <1>2, <1>4, PagePairsFacts
<1>6. IsSequence(FlattenSeq(ss)) /\ Range(FlattenSeq(ss)) = UNION {Range(ss[i]) : i \in 1 .. n}
  BY <1>2, <1>5, FlattenSequence
<1>7. A = UNION {Range(p1[i]) : i \in 1 .. n}
  BY <1>1, FlattenSequence DEF n
<1>8. ASSUME NEW v \in Range(FlattenSeq(ss)) PROVE v \in Pairs(A, B)
  <2>1. PICK i \in 1 .. n : v \in Pairs(Range(p1[i]), C(i))
    BY <1>5, <1>6
  <2>2. PICK D, E : D = Range(p1[i]) /\ E = C(i)
    OBVIOUS
  <2>3. \E r \in D, s \in E : v = r \o s
    BY <2>1, <2>2, PairsMember
  <2>4. D \subseteq A /\ E \subseteq B
    BY <1>4, <1>7, <2>2
  <2> QED
    BY <2>3, <2>4, PairsMember
<1>9. ASSUME n <= 1, NEW v \in Pairs(A, B) PROVE v \in Range(FlattenSeq(ss))
  <2>1. PICK r \in A, s \in B : v = r \o s
    BY PairsMember
  <2>2. 1 \in 1 .. n /\ r \in Range(p1[1])
    BY <1>1, <1>7, <1>9, <2>1
  <2>3. Range(ss[1]) = Pairs(Range(p1[1]), B)
    BY <1>4, <1>5, <2>2
  <2>4. v \in Pairs(Range(p1[1]), B)
    BY <2>1, <2>2, PairsMember
  <2> QED
    BY <1>6, <2>2, <2>3, <2>4
<1>10. ASSUME NEW a, NEW b, AllSequences(A, a), AllSequences(B, b),
              IsInjective(FlattenSeq(p1)), IsInjective(FlattenSeq(p2))
       PROVE  IsInjective(FlattenSeq(ss))
  <2>1. Apart(p1)
    BY <1>1, <1>10, FlattenInjective DEF n
  <2>2. \A i \in 1 .. n : /\ IsInjective(p1[i]) /\ AllSequences(Range(p1[i]), a)
                          /\ AllSequences(C(i), b) /\ IsInjective(FlattenSeq(RightPages(i, p2)))
    BY <1>4, <1>7, <1>10, <2>1 DEF Apart, AllSequences, n
  <2>3. \A i \in 1 .. n : IsInjective(ss[i])
    BY <1>1, <1>2, <1>4, <2>2, PagePairsOnce
  <2>4. ASSUME NEW i \in 1 .. n, NEW k \in 1 .. n, NEW v \in Range(ss[i]), v \in Range(ss[k])
        PROVE  i = k
    <3>1. v \in Pairs(Range(p1[i]), C(i)) /\ v \in Pairs(Range(p1[k]), C(k))
      BY <1>5, <2>4
    <3>2. PICK D, E, F, G : D = Range(p1[i]) /\ E = C(i) /\ F = Range(p1[k]) /\ G = C(k)
      OBVIOUS
    <3>3. PICK r \in D, s \in E : v = r \o s
      <4>1. v \in Pairs(D, E)
        BY <3>1, <3>2
      <4> QED
        BY ONLY <4>1, PairsMember
    <3>4. PICK u \in F, t \in G : v = u \o t
      <4>1. v \in Pairs(F, G)
        BY <3>1, <3>2
      <4> QED
        BY ONLY <4>1, PairsMember
    <3>5. /\ IsSequence(r) /\ IsSequence(s) /\ IsSequence(u) /\ IsSequence(t) /\ Len(r) = Len(u)
          /\ r \o s = u \o t
      BY <2>2, <3>2, <3>3, <3>4 DEF AllSequences
    <3>6. r = u /\ s = t
      BY ONLY <3>5, ConcatCancels
    <3> QED
      BY <2>1, <3>2, <3>3, <3>4, <3>6 DEF Apart, n
  <2>5. Apart(ss)
    BY <1>2, <2>3, <2>4 DEF Apart
  <2> QED
    BY <1>2, <1>5, <2>5, FlattenInjective
<1>11. Range(FlattenSeq(ss)) \subseteq Pairs(A, B)
  BY <1>8
<1>12. n <= 1 => Range(FlattenSeq(ss)) = Pairs(A, B)
  BY <1>9, <1>11
<1> HIDE DEF A, B
<1>13. \A a, b : /\ AllSequences(A, a) /\ AllSequences(B, b)
                 /\ IsInjective(FlattenSeq(p1)) /\ IsInjective(FlattenSeq(p2))
                 => IsInjective(FlattenSeq(ss))
  BY <1>10
<1> QED
  BY <1>3, <1>6, <1>11, <1>12, <1>13 DEF n, A, B

\* The rows of a join are numbered.
LEMMA JoinedRowsFacts ==
    ASSUME NEW p1, IsNested(p1), NEW p2, IsNested(p2), p2 # <<>>
    PROVE  /\ IsSequence(JoinedRows(p1, p2)) /\ Len(JoinedRows(p1, p2)) = Len(LoopPairs(p1, p2))
           /\ \A c \in 1 .. Len(JoinedRows(p1, p2)) :
                 JoinedRows(p1, p2)[c] = <<c - 1>> \o LoopPairs(p1, p2)[c]
<1> DEFINE pairs == LoopPairs(p1, p2)
           rows == [c \in DOMAIN pairs |-> <<c - 1>> \o pairs[c]]
<1>1. JoinedRows(p1, p2) = rows
  BY DEF JoinedRows, LoopPairs, PagePairs
<1>2. IsSequence(pairs)
  BY LoopPairsFacts
<1> HIDE DEF pairs
<1>3. DOMAIN pairs = 1 .. Len(pairs)
  BY <1>2, SequenceFacts
<1>4. rows = [c \in DOMAIN pairs |-> rows[c]] /\ \A c \in 1 .. Len(pairs) : rows[c] = <<c - 1>> \o pairs[c]
  BY <1>3
<1> HIDE DEF rows
<1>5. IsSequence(rows) /\ Len(rows) = Len(pairs)
  BY <1>2, <1>4, MappedSequence
<1> QED
  BY <1>1, <1>4, <1>5 DEF pairs

\* What is left of some rows: each at most once, and all if none is refused.
LEMMA WithoutFacts ==
    ASSUME NEW rows, IsSequence(rows), NEW refused
    PROVE  LET kept == Without(rows, refused)
           IN  /\ IsSequence(kept)
               /\ \E from \in [1 .. Len(kept) -> 1 .. Len(rows)] :
                     /\ \A k \in 1 .. Len(kept) : kept[k] = rows[from[k]]
                     /\ \A k, l \in 1 .. Len(kept) : from[k] = from[l] => k = l
                     /\ refused = {} => \A c \in 1 .. Len(rows) : \E k \in 1 .. Len(kept) : from[k] = c
<1> DEFINE ss == [c \in DOMAIN rows |-> IF c \in refused THEN <<>> ELSE <<rows[c]>>]
           n == Len(rows)
           kept == Without(rows, refused)
<1>1. DOMAIN rows = 1 .. n /\ n \in Nat
  BY SequenceFacts
<1>2. /\ IsSequence(ss) /\ Len(ss) = n
      /\ \A c \in 1 .. n : ss[c] = IF c \in refused THEN <<>> ELSE <<rows[c]>>
  <2>1. ss = [c \in DOMAIN rows |-> ss[c]]
        /\ \A c \in 1 .. n : ss[c] = IF c \in refused THEN <<>> ELSE <<rows[c]>>
    BY <1>1
  <2> HIDE DEF ss
  <2> QED
    BY <2>1, MappedSequence
<1>3. kept = FlattenSeq(ss)
  BY DEF Without
<1> HIDE DEF ss, kept
<1>4. \A c \in 1 .. n : /\ IsSequence(ss[c]) /\ Len(ss[c]) \in {0, 1}
                        /\ Len(ss[c]) = 1 => ss[c][1] = rows[c]
                        /\ c \notin refused => Len(ss[c]) = 1
  <2> SUFFICES ASSUME NEW c \in 1 .. n
               PROVE  /\ IsSequence(ss[c]) /\ Len(ss[c]) \in {0, 1}
                      /\ Len(ss[c]) = 1 => ss[c][1] = rows[c]
                      /\ c \notin refused => Len(ss[c]) = 1
    OBVIOUS
  <2>1. CASE c \in refused
    <3>1. ss[c] = <<>> /\ IsSequence(<<>>) /\ Len(<<>>) = 0
      BY <1>2, <2>1 DEF IsSequence
    <3> QED
      BY <2>1, <3>1
  <2>2. CASE c \notin refused
    <3>1. PICK v : v = rows[c]
      OBVIOUS
    <3>2. ss[c] = <<v>> /\ IsSequence(<<v>>) /\ Len(<<v>>) = 1 /\ <<v>>[1] = v
      BY <1>2, <2>2, <3>1, SingleSequence
    <3> QED
      BY <3>1, <3>2
  <2> QED
    BY <2>1, <2>2
<1>5. PICK at : Arranged(kept, at, n, ss)
  BY <1>2, <1>3, <1>4, FlattenFacts
<1> DEFINE from == [k \in 1 .. Len(kept) |-> at[k][1]]
<1>6. ASSUME NEW k \in 1 .. Len(kept)
      PROVE  at[k] = <<at[k][1], 1>> /\ at[k][1] \in 1 .. n /\ kept[k] = rows[at[k][1]]
  <2>1. at[k] \in Places(ss, n) /\ kept[k] = ss[at[k][1]][at[k][2]]
    BY <1>5 DEF Arranged
  <2>2. at[k] = <<at[k][1], at[k][2]>> /\ at[k][1] \in 1 .. n /\ at[k][2] \in 1 .. Len(ss[at[k][1]])
    BY <2>1 DEF Places
  <2>3. at[k][2] = 1 /\ Len(ss[at[k][1]]) = 1
    <3>1. PICK c \in 1 .. n : c = at[k][1]
      BY <2>2
    <3>2. Len(ss[c]) \in {0, 1} /\ at[k][2] \in 1 .. Len(ss[c])
      BY <1>4, <2>2, <3>1
    <3>3. Len(ss[c]) = 1 /\ at[k][2] = 1
      <4>1. PICK m, j : m = Len(ss[c]) /\ j = at[k][2]
        OBVIOUS
      <4>2. m = 0 \/ m = 1
        BY <3>2, <4>1
      <4>3. j \in 1 .. m
        BY <3>2, <4>1
      <4>4. m = 1 /\ j = 1
        BY ONLY <4>2, <4>3
      <4> QED
        BY <4>1, <4>4
    <3> QED
      BY <3>1, <3>3
  <2> QED
    BY <1>4, <2>1, <2>2, <2>3
<1>7. from \in [1 .. Len(kept) -> 1 .. n]
  BY <1>6
<1>8. \A k \in 1 .. Len(kept) : kept[k] = rows[from[k]]
  BY <1>6
<1>9. ASSUME NEW k \in 1 .. Len(kept), NEW l \in 1 .. Len(kept), from[k] = from[l] PROVE k = l
  <2>1. at[k] = at[l]
    BY <1>6, <1>9
  <2> QED
    BY <1>5, <2>1 DEF Arranged
<1>10. ASSUME refused = {}, NEW c \in 1 .. n PROVE \E k \in 1 .. Len(kept) : from[k] = c
  <2>1. <<c, 1>> \in Places(ss, n)
    BY <1>1, <1>4, <1>10 DEF Places
  <2>2. PICK k \in 1 .. Len(kept) : at[k] = <<c, 1>>
    BY <1>5, <2>1 DEF Arranged
  <2> QED
    BY <2>2
<1>11. IsSequence(kept)
  BY <1>5 DEF Arranged
<1> HIDE DEF from
<1> QED
  BY <1>7, <1>8, <1>9, <1>10, <1>11 DEF kept

-----------------------------------------------------------------------------
(* What tables, buffer and files hold *)

\* The rows of the pages of a table have a value for every column.
LEMMA PagesFacts ==
    ASSUME NEW columns, IsColumns(columns), NEW pages, NEW w, IsPages(pages, columns, w)
    PROVE  /\ IsNested(pages) /\ IsSequence(FlattenSeq(pages))
           /\ \A r \in Range(FlattenSeq(pages)) : IsRow(r, columns, w)
           /\ AllSequences(Range(FlattenSeq(pages)), Len(columns))
<1>1. IsNested(pages)
  BY DEF IsPages, IsNested
<1>2. /\ IsSequence(FlattenSeq(pages))
      /\ Range(FlattenSeq(pages)) = UNION {Range(pages[i]) : i \in 1 .. Len(pages)}
  BY <1>1, FlattenSequence DEF IsNested
<1>3. ASSUME NEW r \in Range(FlattenSeq(pages)) PROVE IsRow(r, columns, w)
  <2>1. PICK i \in 1 .. Len(pages) : r \in Range(pages[i])
    BY <1>2
  <2>2. DOMAIN pages[i] = 1 .. Len(pages[i])
    BY SequenceFacts DEF IsPages
  <2>3. PICK k \in 1 .. Len(pages[i]) : r = pages[i][k]
    BY <2>1, <2>2 DEF Range
  <2> QED
    BY <2>3 DEF IsPages
<1>4. AllSequences(Range(FlattenSeq(pages)), Len(columns))
  BY <1>3, RowSequence DEF AllSequences
<1> QED
  BY <1>1, <1>2, <1>3, <1>4

LEMMA NoPages ==
    ASSUME NEW columns, NEW w
    PROVE  IsPages(<<>>, columns, w)
BY DEF IsPages, IsSequence

LEMMA OnePage ==
    ASSUME NEW columns, NEW w, NEW rows, IsSequence(rows),
           \A k \in 1 .. Len(rows) : IsRow(rows[k], columns, w)
    PROVE  IsPages(<<rows>>, columns, w) /\ <<rows>> # <<>>
<1>1. PICK t : t = <<rows>>
  OBVIOUS
<1>2. IsSequence(t) /\ Len(t) = 1 /\ t[1] = rows
  BY <1>1, SingleSequence
<1>3. IsPages(t, columns, w)
  <2>1. \A p \in 1 .. Len(t) : t[p] = rows
    BY <1>2
  <2> QED
    BY <1>2, <2>1 DEF IsPages
<1> QED
  BY <1>1, <1>3

\* What is read with other columns has values of their types, or none.
LEMMA ReadAsFacts ==
    ASSUME NEW columns, IsColumns(columns), NEW others, IsColumns(others),
           NEW pages, NEW w, IsPages(pages, columns, w)
    PROVE  IsPages(ReadAs(pages, columns, others), others, FALSE)
<1> DEFINE value(r, i) ==
               IF \A j \in 1 .. i : j \in DOMAIN columns /\ columns[j].type = others[j].type
               THEN r[i] ELSE Unset
           row(r) == [i \in DOMAIN others |-> value(r, i)]
           new == ReadAs(pages, columns, others)
           n == Len(pages)
<1>1. new = [p \in DOMAIN pages |-> [k \in DOMAIN pages[p] |-> row(pages[p][k])]]
  BY DEF ReadAs
<1>2. /\ IsSequence(pages) /\ DOMAIN pages = 1 .. n /\ n \in Nat
      /\ \A p \in 1 .. n : /\ IsSequence(pages[p]) /\ DOMAIN pages[p] = 1 .. Len(pages[p])
                           /\ \A k \in 1 .. Len(pages[p]) : IsRow(pages[p][k], columns, w)
  BY SequenceFacts DEF IsPages
<1>3. DOMAIN columns = 1 .. Len(columns) /\ DOMAIN others = 1 .. Len(others) /\ Len(others) \in Nat
  BY SequenceFacts DEF IsColumns
<1>4. ASSUME NEW r, IsRow(r, columns, w) PROVE IsRow(row(r), others, FALSE)
  <2>1. row(r) = [i \in 1 .. Len(others) |-> row(r)[i]]
    BY <1>3
  <2>2. ASSUME NEW i \in 1 .. Len(others)
        PROVE  row(r)[i] = Unset \/ row(r)[i] \in ValuesOf(others[i].type)
    <3>1. row(r)[i] = value(r, i)
      BY <1>3
    <3>2. CASE \A j \in 1 .. i : j \in DOMAIN columns /\ columns[j].type = others[j].type
      <4>1. i \in 1 .. i
        BY <1>3
      <4>2. i \in 1 .. Len(columns) /\ columns[i].type = others[i].type
        BY <1>3, <3>2, <4>1
      <4>3. r[i] = Unset \/ r[i] \in ValuesOf(columns[i].type)
        BY <1>4, <4>2 DEF IsRow
      <4>4. row(r)[i] = r[i]
        BY <3>1, <3>2
      <4> HIDE DEF row
      <4> QED
        BY <4>2, <4>3, <4>4
    <3>3. CASE ~\A j \in 1 .. i : j \in DOMAIN columns /\ columns[j].type = others[j].type
      BY <3>1, <3>3
    <3> QED
      BY <3>2, <3>3
  <2> HIDE DEF row
  <2> QED
    BY <2>1, <2>2 DEF IsRow
<1> HIDE DEF row, value
<1>5. IsSequence(new) /\ Len(new) = n /\ \A p \in 1 .. n : new[p] = [k \in DOMAIN pages[p] |-> row(pages[p][k])]
  <2>1. new = [p \in DOMAIN pages |-> new[p]]
        /\ \A p \in 1 .. n : new[p] = [k \in DOMAIN pages[p] |-> row(pages[p][k])]
    BY <1>1, <1>2
  <2> HIDE DEF new
  <2> QED
    BY <1>2, <2>1, MappedSequence
<1> HIDE DEF new
<1>6. ASSUME NEW p \in 1 .. n
      PROVE  /\ IsSequence(new[p])
             /\ \A k \in 1 .. Len(new[p]) : IsRow(new[p][k], others, FALSE)
  <2>1. PICK s, t : s = pages[p] /\ t = new[p]
    OBVIOUS
  <2>2. t = [k \in DOMAIN s |-> row(s[k])] /\ IsSequence(s) /\ DOMAIN s = 1 .. Len(s)
    BY <1>2, <1>5, <2>1
  <2>3. t = [k \in DOMAIN s |-> t[k]] /\ \A k \in 1 .. Len(s) : t[k] = row(s[k])
    BY <2>2
  <2>4. IsSequence(t) /\ Len(t) = Len(s)
    BY <2>2, <2>3, MappedSequence
  <2> QED
    BY <1>2, <1>4, <2>1, <2>3, <2>4
<1> QED
  BY <1>5, <1>6 DEF IsPages, new

\* Every entry has pages, which fit the columns of its table, and so do files.
BufferFits(io, columns, w) ==
    \A n \in DOMAIN io : /\ io[n].page # <<>>
                         /\ n \in DOMAIN columns => IsPages(io[n].page, columns[n], w)

FilesFit(io, columns, w) ==
    \A n \in DOMAIN io : n \in DOMAIN columns => IsPages(io[n], columns[n], w)

\* Pages that are cached fit if those that were read do, and nothing else
\* changes.
LEMMA LoadedFacts ==
    ASSUME NEW io, NEW columns, NEW w, BufferFits(io, columns, w), NEW n, NEW path, NEW pages,
           n \in DOMAIN columns => IsPages(pages, columns[n], w)
    PROVE  LET new == Loaded(io, n, path, pages)
           IN  /\ BufferFits(new, columns, w)
               /\ DOMAIN io \subseteq DOMAIN new /\ \A m \in DOMAIN io : new[m] = io[m]
               /\ DOMAIN new \subseteq DOMAIN io \cup {n}
               /\ PageIn(new, n) = IF n \in DOMAIN io THEN io[n].page ELSE pages
               /\ n \in DOMAIN columns => IsPages(PageIn(new, n), columns[n], w)
<1> DEFINE new == Loaded(io, n, path, pages)
<1>1. CASE n \in DOMAIN io \/ pages = <<>>
  <2>1. new = io
    BY <1>1 DEF Loaded
  <2> HIDE DEF new
  <2>2. PageIn(new, n) = IF n \in DOMAIN io THEN io[n].page ELSE pages
    BY <1>1, <2>1 DEF PageIn
  <2>3. n \in DOMAIN columns => IsPages(PageIn(new, n), columns[n], w)
    BY <2>2 DEF BufferFits
  <2> QED
    BY <2>1, <2>2, <2>3 DEF new
<1>2. CASE ~(n \in DOMAIN io \/ pages = <<>>)
  <2> DEFINE e == [page |-> pages, path |-> path]
  <2>1. e.page = pages
    OBVIOUS
  <2> HIDE DEF e
  <2>2. new = [z \in DOMAIN io \cup {n} |-> IF z = n THEN e ELSE io[z]]
    BY <1>2 DEF Loaded, With, e
  <2> HIDE DEF new
  <2>3. DOMAIN new = DOMAIN io \cup {n} /\ new[n] = e /\ \A z \in DOMAIN io : new[z] = io[z]
    BY <1>2, <2>2
  <2>4. BufferFits(new, columns, w)
    BY <1>2, <2>1, <2>3 DEF BufferFits
  <2>5. PageIn(new, n) = pages
    BY <2>1, <2>3 DEF PageIn
  <2> QED
    BY <1>2, <2>3, <2>4, <2>5 DEF new
<1> QED
  BY <1>1, <1>2

Ordered == query.orderBy # ""

StoreFits ==
    /\ \A n \in DOMAIN catalog : IsColumns(catalog[n])
    /\ BufferFits(buffer, catalog, Ordered)
    /\ FilesFit(files, catalog, Ordered)

LEMMA FileFits ==
    ASSUME StoreFits, NEW n \in DOMAIN catalog
    PROVE  IsPages(FileOf(n), catalog[n], Ordered)
BY NoPages DEF FileOf, StoreFits, FilesFit

\* The first table of a join as it is held.
PagesAt(n) == IF n \in DOMAIN buffer THEN buffer[n].page ELSE FileOf(n)

SourcesFit(s, left, right) ==
    /\ BufferFits(s.io, catalog, Ordered) /\ DOMAIN buffer \subseteq DOMAIN s.io
    /\ IsPages(s.p1, catalog[left], Ordered) /\ IsPages(s.p2, catalog[right], Ordered)
    /\ ReadsFiles => s.p1 = FileOf(left) /\ s.p2 = FileOf(right)
    /\ DOMAIN s.io \subseteq DOMAIN buffer \cup {left, right}
    /\ ~ReadsFiles => /\ s.p1 = PagesAt(left)
                      /\ right \in DOMAIN buffer => s.p2 = buffer[right].page
                      /\ right = left => s.p2 = s.p1

\* What a join reads has values for the columns of its tables.
LEMMA SourcesFacts ==
    ASSUME StoreFits, NEW left \in DOMAIN catalog, NEW right \in DOMAIN catalog,
           Ordered => right \in DOMAIN buffer
    PROVE  SourcesFit(SourcesOf(left, right), left, right)
<1> DEFINE s == SourcesOf(left, right)
           read == ReadAs(FileOf(left), catalog[left], catalog[right])
           io1 == Loaded(buffer, left, left, FileOf(left))
           io2 == Loaded(io1, right, left, read)
<1>1. IsPages(FileOf(left), catalog[left], Ordered) /\ IsPages(FileOf(right), catalog[right], Ordered)
  BY FileFits
<1>2. BufferFits(buffer, catalog, Ordered) /\ IsColumns(catalog[left]) /\ IsColumns(catalog[right])
  BY DEF StoreFits
<1>3. CASE ReadsFiles
  <2>1. s.io = buffer /\ s.p1 = FileOf(left) /\ s.p2 = FileOf(right)
    BY <1>3 DEF SourcesOf
  <2> HIDE DEF s
  <2>2. SourcesFit(s, left, right)
    BY <1>1, <1>2, <1>3, <2>1 DEF SourcesFit
  <2> QED
    BY <2>2 DEF s
<1>4. CASE ~ReadsFiles
  <2>1. s.io = io2 /\ s.p1 = PageIn(io1, left) /\ s.p2 = PageIn(io2, right)
    BY <1>4 DEF SourcesOf
  <2> HIDE DEF s
  <2>2. /\ BufferFits(io1, catalog, Ordered)
        /\ DOMAIN buffer \subseteq DOMAIN io1 /\ \A m \in DOMAIN buffer : io1[m] = buffer[m]
        /\ PageIn(io1, left) = IF left \in DOMAIN buffer THEN buffer[left].page ELSE FileOf(left)
        /\ IsPages(PageIn(io1, left), catalog[left], Ordered)
        /\ DOMAIN io1 \subseteq DOMAIN buffer \cup {left}
    BY <1>1, <1>2, LoadedFacts
  <2> HIDE DEF io1
  <2>3. right \notin DOMAIN io1 => ~Ordered /\ IsPages(read, catalog[right], FALSE)
    BY <1>1, <1>2, <2>2, ReadAsFacts
  <2>4. \A w, pages : BufferFits(io1, catalog, w)
                         /\ (IsPages(pages, catalog[right], w) \/ right \in DOMAIN io1)
                         => LET new == Loaded(io1, right, left, pages)
                            IN  /\ BufferFits(new, catalog, w) /\ DOMAIN io1 \subseteq DOMAIN new
                                /\ DOMAIN new \subseteq DOMAIN io1 \cup {right}
                                /\ PageIn(new, right) = IF right \in DOMAIN io1 THEN io1[right].page ELSE pages
                                /\ IsPages(PageIn(new, right), catalog[right], w)
    <3> SUFFICES ASSUME NEW w, NEW pages, BufferFits(io1, catalog, w),
                        IsPages(pages, catalog[right], w) \/ right \in DOMAIN io1
                 PROVE  LET new == Loaded(io1, right, left, pages)
                        IN  /\ BufferFits(new, catalog, w) /\ DOMAIN io1 \subseteq DOMAIN new
                            /\ DOMAIN new \subseteq DOMAIN io1 \cup {right}
                            /\ PageIn(new, right) = IF right \in DOMAIN io1 THEN io1[right].page ELSE pages
                            /\ IsPages(PageIn(new, right), catalog[right], w)
      OBVIOUS
    <3> DEFINE new == Loaded(io1, right, left, pages)
    <3>1. CASE right \in DOMAIN io1
      <4>1. new = io1
        BY <3>1 DEF Loaded
      <4> HIDE DEF new
      <4>2. PageIn(new, right) = io1[right].page
        BY <3>1, <4>1 DEF PageIn
      <4>3. IsPages(PageIn(new, right), catalog[right], w)
        BY <3>1, <4>2 DEF BufferFits
      <4> QED
        BY <3>1, <4>1, <4>2, <4>3 DEF new
    <3>2. CASE right \notin DOMAIN io1
      BY <3>2, LoadedFacts
    <3> QED
      BY <3>1, <3>2
  <2>5. /\ BufferFits(io2, catalog, Ordered) /\ DOMAIN io1 \subseteq DOMAIN io2
        /\ DOMAIN io2 \subseteq DOMAIN io1 \cup {right}
        /\ PageIn(io2, right) = IF right \in DOMAIN io1 THEN io1[right].page ELSE read
        /\ IsPages(PageIn(io2, right), catalog[right], Ordered)
    <3>1. IsPages(read, catalog[right], Ordered) \/ right \in DOMAIN io1
      <4>1. CASE right \in DOMAIN io1
        BY <4>1
      <4>2. CASE right \notin DOMAIN io1
        <5>1. PICK w : w = Ordered
          OBVIOUS
        <5>2. w = FALSE
          BY <2>3, <4>2, <5>1 DEF Ordered
        <5> QED
          BY <2>3, <4>2, <5>1, <5>2
      <4> QED
        BY <4>1, <4>2
    <3> HIDE DEF read
    <3> QED
      BY <2>2, <2>4, <3>1
  <2>6. right = left => PageIn(io2, right) = PageIn(io1, left)
    <3> SUFFICES ASSUME right = left PROVE PageIn(io2, right) = PageIn(io1, left)
      OBVIOUS
    <3>1. CASE right \in DOMAIN io1
      BY <2>5, <3>1 DEF PageIn
    <3>2. CASE right \notin DOMAIN io1
      <4>1. PageIn(io1, left) = <<>>
        BY <3>2 DEF PageIn
      <4>2. FileOf(left) = <<>>
        BY <2>2, <3>2, <4>1
      <4>3. read = <<>>
        BY <4>2 DEF ReadAs
      <4> QED
        BY <2>5, <3>2, <4>1, <4>3
    <3> QED
      BY <3>1, <3>2
  <2>7. right \in DOMAIN buffer => PageIn(io2, right) = buffer[right].page
    BY <2>2, <2>5
  <2>8. SourcesFit(s, left, right)
    BY <1>4, <2>1, <2>2, <2>5, <2>6, <2>7 DEF SourcesFit, PagesAt
  <2> QED
    BY <2>8 DEF s
<1> QED
  BY <1>3, <1>4

-----------------------------------------------------------------------------
(* One join of the tables so far with the next one *)

\* The rows of a join: without their numbers, the pairs of the loops.
Joins(rows, p1, p2) ==
    /\ IsSequence(rows)
    /\ p2 = <<>> => Len(rows) = 0
    /\ p2 # <<>> => /\ Len(rows) = Len(LoopPairs(p1, p2))
                    /\ \A c \in 1 .. Len(rows) : Tail(rows[c]) = LoopPairs(p1, p2)[c]

\* The rows have a value for every column of the joined table; without their
\* numbers they are the pairs of the loops.
LEMMA JoinedRowsFit ==
    ASSUME NEW left, NEW right, IsColumns(catalog[left]), IsColumns(catalog[right]), NEW w,
           NEW p1, IsPages(p1, catalog[left], w), NEW p2, IsPages(p2, catalog[right], w)
    PROVE  /\ Joins(JoinedRows(p1, p2), p1, p2)
           /\ \A c \in 1 .. Len(JoinedRows(p1, p2)) :
                 IsRow(JoinedRows(p1, p2)[c], JoinedColumns(left, right), w)
<1> DEFINE rows == JoinedRows(p1, p2)
           pairs == LoopPairs(p1, p2)
           A == Range(FlattenSeq(p1))
           B == Range(FlattenSeq(p2))
<1>1. /\ IsNested(p1) /\ \A r \in A : IsRow(r, catalog[left], w)
      /\ IsNested(p2) /\ \A r \in B : IsRow(r, catalog[right], w)
  BY PagesFacts
<1>2. CASE p2 = <<>>
  <2>1. rows = <<>>
    BY <1>2 DEF JoinedRows
  <2>2. IsSequence(<<>>) /\ Len(<<>>) = 0
    BY DEF IsSequence
  <2> HIDE DEF rows
  <2>3. IsSequence(rows) /\ Len(rows) = 0
    BY <2>1, <2>2
  <2>4. \A c \in 1 .. Len(rows) : FALSE
    BY <2>3
  <2> QED
    BY <1>2, <2>3, <2>4 DEF rows, Joins
<1>3. CASE p2 # <<>>
  <2>1. IsSequence(pairs) /\ Range(pairs) \subseteq Pairs(A, B)
    BY <1>1, <1>3, LoopPairsFacts
  <2>2. /\ IsSequence(rows) /\ Len(rows) = Len(pairs)
        /\ \A c \in 1 .. Len(rows) : rows[c] = <<c - 1>> \o pairs[c]
    BY <1>1, <1>3, JoinedRowsFacts
  <2> HIDE DEF rows, pairs, A, B
  <2>3. Len(rows) \in Nat /\ DOMAIN pairs = 1 .. Len(pairs)
    BY <2>1, <2>2, SequenceFacts
  <2>4. ASSUME NEW c \in 1 .. Len(rows)
        PROVE  IsRow(rows[c], JoinedColumns(left, right), w) /\ Tail(rows[c]) = pairs[c]
    <3>1. pairs[c] \in Pairs(A, B)
      BY <2>1, <2>2, <2>3 DEF Range
    <3>2. PICK r \in A, s \in B : pairs[c] = r \o s
      BY <3>1, PairsMember
    <3>3. PICK d : d = c - 1 /\ d \in Int
      BY <2>3
    <3>4. rows[c] = <<d>> \o (r \o s)
      BY <2>2, <3>2, <3>3
    <3>5. IsRow(r, catalog[left], w) /\ IsRow(s, catalog[right], w)
      BY <1>1, <3>2
    <3>6. IsRow(Numbered(d, r, s), JoinedColumns(left, right), w)
      BY <3>3, <3>5, JoinedRow
    <3>7. \A v : v = r \o s => Tail(Numbered(d, r, s)) = v
      BY <3>3, <3>5, JoinedRow
    <3> QED
      BY <3>2, <3>4, <3>6, <3>7 DEF Numbered
  <2> QED
    BY <1>3, <2>2, <2>4 DEF rows, pairs, Joins
<1> QED
  BY <1>2, <1>3

\* What a file holds of a join that is made again.
OldRows(name) == IF name \in DOMAIN Dropped(files, name) THEN FlattenSeq(files[name]) ELSE <<>>

\* The step: what is kept of the rows is all that the store has of the joined
\* table, but for the rows of a file without a table, and nothing else changes
\* but that the two tables may be cached.
JoinedAs(left, name, s, refused) ==
    LET old == OldRows(name)
        merged == Merged(old, JoinedRows(s.p1, s.p2), refused)
    IN  /\ files' = IF old # <<>> \/ merged = <<>> THEN Dropped(files, name)
                    ELSE With(Dropped(files, name), name, <<<<merged[1]>>>>)
        /\ buffer' = Loaded(Dropped(s.io, name), name, name,
                            IF merged = old THEN <<>> ELSE <<merged>>)
        /\ clean' = (clean /\ refused = {})
        /\ catalog' = With(Dropped(catalog, name), name, JoinedColumns(left, Right))
        /\ tables' = [name |-> name, joined |-> tables.joined + 1]

LEMMA JoinSteps ==
    ASSUME Join
    PROVE  \E refused : JoinedAs(tables.name, JoinedName(tables.name, Right),
                                 SourcesOf(tables.name, Right), refused)
BY DEF Join, JoinedAs, OldRows

LEMMA DroppedFacts ==
    ASSUME NEW f, NEW n
    PROVE  /\ DOMAIN Dropped(f, n) = IF n \in DOMAIN catalog THEN DOMAIN f \ {n} ELSE DOMAIN f
           /\ \A m \in DOMAIN Dropped(f, n) : Dropped(f, n)[m] = f[m]
BY DEF Dropped, Restrict

\* What is left of rows that all have some property has it, too.
LEMMA WithoutMembers ==
    ASSUME NEW rows, IsSequence(rows), NEW refused
    PROVE  IsSequence(Without(rows, refused)) /\ Range(Without(rows, refused)) \subseteq Range(rows)
<1>1. PICK kept : kept = Without(rows, refused)
  OBVIOUS
<1>2. PICK from \in [1 .. Len(kept) -> 1 .. Len(rows)] : \A k \in 1 .. Len(kept) : kept[k] = rows[from[k]]
  BY <1>1, WithoutFacts
<1>3. IsSequence(kept)
  BY <1>1, WithoutFacts
<1>4. DOMAIN kept = 1 .. Len(kept) /\ DOMAIN rows = 1 .. Len(rows)
  BY <1>3, SequenceFacts
<1> QED
  BY <1>1, <1>2, <1>3, <1>4 DEF Range

\* Without a file there are the new rows.
LEMMA MergedNew ==
    ASSUME NEW rows, IsSequence(rows), NEW refused
    PROVE  Merged(<<>>, rows, refused) = Without(rows, refused)
<1>1. PICK old : old = <<>>
  OBVIOUS
<1>2. IsSequence(old) /\ Len(old) = 0 /\ DOMAIN old = {} /\ Range(old) = {}
  BY <1>1, EmptySequence, SequenceFacts DEF IsSequence
<1>3. Displaced(old, rows) = rows
  <2>1. Displaced(old, rows) = [c \in DOMAIN rows |-> rows[c]]
    BY <1>2 DEF Displaced
  <2>2. rows = [c \in 1 .. Len(rows) |-> rows[c]] /\ DOMAIN rows = 1 .. Len(rows)
    BY SequenceFacts DEF IsSequence
  <2> QED
    BY <2>1, <2>2
<1>4. refused \ Taken(old) = refused
  BY <1>2 DEF Taken
<1>5. PICK kept, rest : /\ kept = Without(rows, refused)
                        /\ rest = Without(old, {n \in DOMAIN old : old[n][1] < Len(rows)})
  OBVIOUS
<1>6. IsSequence(kept) /\ IsSequence(rest) /\ Range(rest) = {}
  BY <1>2, <1>5, WithoutMembers
<1>7. Len(rest) = 0
  <2>1. DOMAIN rest = 1 .. Len(rest) /\ Len(rest) \in Nat
    BY <1>6, SequenceFacts
  <2>2. DOMAIN rest = {}
    BY <1>6 DEF Range
  <2> QED
    BY <2>1, <2>2
<1>8. Merged(old, rows, refused) = kept \o rest
  BY <1>3, <1>4, <1>5 DEF Merged
<1>9. kept \o rest = kept
  <2>1. /\ IsSequence(kept \o rest) /\ Len(kept \o rest) = Len(kept) + Len(rest)
        /\ \A i \in 1 .. Len(kept) : (kept \o rest)[i] = kept[i]
    BY <1>6, ConcatFacts
  <2>2. Len(kept) \in Nat
    BY <1>6, SequenceFacts
  <2>3. PICK s : s = kept \o rest
    OBVIOUS
  <2>4. IsSequence(s) /\ Len(s) = Len(kept) /\ \A i \in 1 .. Len(s) : s[i] = kept[i]
    BY <1>7, <2>1, <2>2, <2>3
  <2>5. s = kept
    BY <1>6, <2>4, SameSequence
  <2> QED
    BY <2>3, <2>5
<1> QED
  BY <1>1, <1>5, <1>8, <1>9

\* The rows of a file and the new ones are all there is.
LEMMA MergedMembers ==
    ASSUME NEW old, IsSequence(old), NEW rows, IsSequence(rows), NEW refused
    PROVE  /\ IsSequence(Merged(old, rows, refused))
           /\ Range(Merged(old, rows, refused)) \subseteq Range(old) \cup Range(rows)
<1>1. PICK d : d = Displaced(old, rows)
  OBVIOUS
<1>2. IsSequence(d) /\ Range(d) \subseteq Range(old) \cup Range(rows)
  <2>1. DOMAIN rows = 1 .. Len(rows) /\ Len(rows) \in Nat
    BY SequenceFacts
  <2>2. d = [c \in DOMAIN rows |-> d[c]]
    BY <1>1 DEF Displaced
  <2>3. IsSequence(d) /\ Len(d) = Len(rows)
    BY <2>1, <2>2, MappedSequence
  <2>4. ASSUME NEW c \in DOMAIN rows PROVE d[c] \in Range(old) \cup Range(rows)
    <3> DEFINE same == {o \in Range(old) : o[1] = c - 1}
    <3>1. d[c] = IF same = {} THEN rows[c] ELSE CHOOSE o \in same : TRUE
      BY <1>1 DEF Displaced
    <3>2. same # {} => (CHOOSE o \in same : TRUE) \in same
      OBVIOUS
    <3>3. same \subseteq Range(old)
      OBVIOUS
    <3> HIDE DEF same
    <3> QED
      BY <3>1, <3>2, <3>3 DEF Range
  <2> QED
    BY <2>1, <2>3, <2>4, SequenceFacts DEF Range
<1>3. PICK a, b : /\ a = Without(d, refused \ Taken(old))
                  /\ b = Without(old, {n \in DOMAIN old : old[n][1] < Len(rows)})
  OBVIOUS
<1>4. /\ IsSequence(a) /\ Range(a) \subseteq Range(d)
      /\ IsSequence(b) /\ Range(b) \subseteq Range(old)
  BY <1>2, <1>3, WithoutMembers
<1>5. Merged(old, rows, refused) = a \o b
  BY <1>1, <1>3 DEF Merged
<1>6. IsSequence(a \o b)
  BY <1>4, ConcatFacts
<1>7. Range(a \o b) \subseteq Range(a) \cup Range(b)
  <2>1. PICK s : s = a \o b
    OBVIOUS
  <2>2. /\ IsSequence(s) /\ Len(s) = Len(a) + Len(b)
        /\ \A i \in 1 .. Len(a) : s[i] = a[i]
        /\ \A i \in 1 .. Len(b) : s[Len(a) + i] = b[i]
    BY <1>4, <2>1, ConcatFacts
  <2>3. /\ Len(a) \in Nat /\ Len(b) \in Nat /\ DOMAIN s = 1 .. Len(s)
        /\ DOMAIN a = 1 .. Len(a) /\ DOMAIN b = 1 .. Len(b)
    BY <1>4, <2>2, SequenceFacts
  <2>4. ASSUME NEW i \in DOMAIN s PROVE s[i] \in Range(a) \cup Range(b)
    <3>1. CASE i \in 1 .. Len(a)
      BY <2>2, <2>3, <3>1 DEF Range
    <3>2. CASE i \notin 1 .. Len(a)
      <4>1. i - Len(a) \in 1 .. Len(b) /\ Len(a) + (i - Len(a)) = i
        BY <2>2, <2>3, <3>2
      <4> QED
        BY <2>2, <2>3, <4>1 DEF Range
    <3> QED
      BY <3>1, <3>2
  <2> QED
    BY <2>1, <2>4 DEF Range
<1> QED
  BY <1>2, <1>4, <1>5, <1>6, <1>7

\* The pages of a table with some rows.
AsPages(rows) == IF rows = <<>> THEN <<>> ELSE <<rows>>

LEMMA JoinFits ==
    ASSUME StoreFits, input' = input,
           tables.name \in DOMAIN catalog, Right \in DOMAIN catalog, Ordered => Right \in DOMAIN buffer,
           NEW name, NEW s, SourcesFit(s, tables.name, Right),
           DOMAIN buffer \subseteq DOMAIN catalog,
           name \in DOMAIN files \ DOMAIN catalog =>
               IsPages(files[name], JoinedColumns(tables.name, Right), Ordered),
           NEW refused, JoinedAs(tables.name, name, s, refused)
    PROVE  /\ StoreFits'
           /\ DOMAIN catalog' = DOMAIN catalog \cup {name}
           /\ DOMAIN buffer \subseteq DOMAIN buffer' \cup {name}
           /\ DOMAIN buffer' \subseteq DOMAIN catalog'
           /\ DOMAIN files' \subseteq DOMAIN files \cup {name}
           /\ \A n \in DOMAIN files' : n # name => files'[n] = files[n]
           /\ name \notin DOMAIN files \ DOMAIN catalog =>
                 PagesAt(name)' = AsPages(Without(JoinedRows(s.p1, s.p2), refused))
<1> DEFINE left == tables.name
           rows == JoinedRows(s.p1, s.p2)
           old == OldRows(name)
           kept == Merged(old, rows, refused)
           columns == JoinedColumns(left, Right)
           w == Ordered
           pages == IF kept = old THEN <<>> ELSE <<kept>>
<1>1. IsColumns(catalog[left]) /\ IsColumns(catalog[Right]) /\ IsColumns(columns)
  BY JoinedColumnsFacts DEF StoreFits, JoinsColumns
<1>2. /\ BufferFits(s.io, catalog, w) /\ DOMAIN buffer \subseteq DOMAIN s.io
      /\ IsPages(s.p1, catalog[left], w) /\ IsPages(s.p2, catalog[Right], w)
  BY DEF SourcesFit
<1>3. IsSequence(rows) /\ \A c \in 1 .. Len(rows) : IsRow(rows[c], columns, w)
  BY <1>1, <1>2, JoinedRowsFit DEF Joins
<1>old. /\ IsSequence(old) /\ \A r \in Range(old) : IsRow(r, columns, w)
        /\ name \notin DOMAIN files \ DOMAIN catalog => old = <<>>
        /\ name \notin DOMAIN files => old = <<>>
  <2>1. name \in DOMAIN Dropped(files, name) <=> name \in DOMAIN files \ DOMAIN catalog
    BY DroppedFacts
  <2>2. CASE name \in DOMAIN files \ DOMAIN catalog
    <3>1. old = FlattenSeq(files[name])
      BY <2>1, <2>2 DEF OldRows
    <3>2. IsPages(files[name], columns, w)
      BY <2>2
    <3> HIDE DEF old, columns, w
    <3> QED
      BY <1>1, <2>2, <3>1, <3>2, PagesFacts
  <2>3. CASE name \notin DOMAIN files \ DOMAIN catalog
    <3>1. old = <<>>
      BY <2>1, <2>3 DEF OldRows
    <3> HIDE DEF old
    <3> QED
      BY <3>1, EmptySequence DEF IsSequence
  <2> QED
    BY <2>2, <2>3
<1> HIDE DEF rows, columns, w, old
<1>4. /\ files' = IF old # <<>> \/ kept = <<>> THEN Dropped(files, name)
                  ELSE With(Dropped(files, name), name, <<<<kept[1]>>>>)
      /\ buffer' = Loaded(Dropped(s.io, name), name, name, pages)
      /\ catalog' = With(Dropped(catalog, name), name, columns)
  BY DEF JoinedAs, rows, columns, old
<1>5. IsSequence(kept) /\ \A k \in 1 .. Len(kept) : IsRow(kept[k], columns, w)
  <2>1. IsSequence(kept) /\ Range(kept) \subseteq Range(old) \cup Range(rows)
    BY <1>3, <1>old, MergedMembers
  <2>2. DOMAIN kept = 1 .. Len(kept) /\ DOMAIN rows = 1 .. Len(rows)
    BY <1>3, <2>1, SequenceFacts
  <2>3. \A r \in Range(rows) : IsRow(r, columns, w)
    BY <1>3, <2>2 DEF Range
  <2>4. \A k \in 1 .. Len(kept) : kept[k] \in Range(kept)
    BY <2>2 DEF Range
  <2> HIDE DEF kept
  <2> QED
    BY <1>old, <2>1, <2>3, <2>4
<1>new. old = <<>> => kept = Without(rows, refused)
  BY <1>3, MergedNew
<1> HIDE DEF kept
<1>6. kept # <<>> => 1 \in 1 .. Len(kept)
  BY <1>5, SequenceFacts
<1>7. DOMAIN catalog' = DOMAIN catalog \cup {name} /\ catalog'[name] = columns
      /\ \A n \in DOMAIN catalog : n # name => catalog'[n] = catalog[n]
  <2>1. /\ DOMAIN Dropped(catalog, name) = DOMAIN catalog \ {name}
        /\ \A n \in DOMAIN catalog \ {name} : Dropped(catalog, name)[n] = catalog[n]
    <3>1. DOMAIN Dropped(catalog, name) = DOMAIN catalog \ {name}
      BY DroppedFacts
    <3>2. \A n \in DOMAIN Dropped(catalog, name) : Dropped(catalog, name)[n] = catalog[n]
      BY DroppedFacts
    <3> QED
      BY ONLY <3>1, <3>2
  <2>2. /\ DOMAIN catalog' = DOMAIN Dropped(catalog, name) \cup {name} /\ catalog'[name] = columns
        /\ \A m \in DOMAIN Dropped(catalog, name) : m # name => catalog'[m] = Dropped(catalog, name)[m]
    <3>1. PICK f : f = Dropped(catalog, name)
      OBVIOUS
    <3>2. catalog' = With(f, name, columns)
      BY <1>4, <3>1
    <3>3. /\ DOMAIN With(f, name, columns) = DOMAIN f \cup {name} /\ With(f, name, columns)[name] = columns
          /\ \A m \in DOMAIN f : m # name => With(f, name, columns)[m] = f[m]
      BY DEF With
    <3> QED
      BY ONLY <3>1, <3>2, <3>3
  <2> QED
    BY <2>1, <2>2
<1>8. IsPages(pages, columns, w)
  BY <1>5, NoPages, OnePage
<1>9. kept # <<>> => IsPages(<<<<kept[1]>>>>, columns, w)
  <2> SUFFICES ASSUME kept # <<>> PROVE IsPages(<<<<kept[1]>>>>, columns, w)
    OBVIOUS
  <2>1. PICK r : r = kept[1] /\ IsRow(r, columns, w)
    BY <1>5, <1>6
  <2>2. PICK t : t = <<r>>
    OBVIOUS
  <2>3. IsSequence(t) /\ Len(t) = 1 /\ t[1] = r
    BY <2>2, SingleSequence
  <2>4. \A k \in 1 .. Len(t) : IsRow(t[k], columns, w)
    BY <2>1, <2>3
  <2>5. IsPages(<<t>>, columns, w)
    BY <2>3, <2>4, OnePage
  <2> QED
    BY <2>1, <2>2, <2>5
<1>io. DOMAIN s.io \subseteq DOMAIN catalog
  BY DEF SourcesFit
<1>10. /\ DOMAIN Dropped(s.io, name) = DOMAIN s.io \ {name}
       /\ \A n \in DOMAIN s.io \ {name} : Dropped(s.io, name)[n] = s.io[n]
       /\ DOMAIN Dropped(files, name) = IF name \in DOMAIN catalog THEN DOMAIN files \ {name} ELSE DOMAIN files
       /\ \A n \in DOMAIN Dropped(files, name) : Dropped(files, name)[n] = files[n]
  <2>1. DOMAIN Dropped(s.io, name) = DOMAIN s.io \ {name}
    BY <1>io, DroppedFacts
  <2>2. \A n \in DOMAIN Dropped(s.io, name) : Dropped(s.io, name)[n] = s.io[n]
    BY DroppedFacts
  <2>3. DOMAIN Dropped(files, name) = IF name \in DOMAIN catalog THEN DOMAIN files \ {name} ELSE DOMAIN files
    BY DroppedFacts
  <2>4. \A n \in DOMAIN Dropped(files, name) : Dropped(files, name)[n] = files[n]
    BY DroppedFacts
  <2> QED
    BY ONLY <2>1, <2>2, <2>3, <2>4
<1>11. BufferFits(Dropped(s.io, name), catalog', w)
  BY <1>2, <1>7, <1>10 DEF BufferFits
<1>12. /\ BufferFits(buffer', catalog', w)
       /\ DOMAIN Dropped(s.io, name) \subseteq DOMAIN buffer'
       /\ DOMAIN buffer' \subseteq DOMAIN Dropped(s.io, name) \cup {name}
       /\ PageIn(buffer', name) = pages
  <2>1. name \notin DOMAIN Dropped(s.io, name)
    BY <1>10
  <2>2. name \in DOMAIN catalog' => IsPages(pages, catalog'[name], w)
    BY <1>7, <1>8
  <2> HIDE DEF pages
  <2> QED
    BY <1>4, <1>11, <2>1, <2>2, LoadedFacts
<1>13. FilesFit(files', catalog', w)
  <2>1. CASE old # <<>> \/ kept = <<>>
    <3>1. files' = Dropped(files, name)
      BY <1>4, <2>1
    <3>2. name \in DOMAIN Dropped(files, name) => IsPages(files[name], columns, w)
      BY <1>10 DEF columns, w
    <3> QED
      BY <1>7, <1>10, <3>1, <3>2 DEF FilesFit, StoreFits, w
  <2>2. CASE ~(old # <<>> \/ kept = <<>>)
    <3>1. /\ DOMAIN files' = DOMAIN Dropped(files, name) \cup {name}
          /\ files'[name] = <<<<kept[1]>>>>
          /\ \A m \in DOMAIN Dropped(files, name) : m # name => files'[m] = Dropped(files, name)[m]
      <4>1. PICK f, v : f = Dropped(files, name) /\ v = <<<<kept[1]>>>>
        OBVIOUS
      <4>2. files' = With(f, name, v)
        BY <1>4, <2>2, <4>1
      <4>3. /\ DOMAIN With(f, name, v) = DOMAIN f \cup {name} /\ With(f, name, v)[name] = v
            /\ \A m \in DOMAIN f : m # name => With(f, name, v)[m] = f[m]
        BY DEF With
      <4> QED
        BY ONLY <4>1, <4>2, <4>3
    <3> QED
      BY <1>7, <1>9, <1>10, <2>2, <3>1 DEF FilesFit, StoreFits, w
  <2> QED
    BY <2>1, <2>2
<1>14. Ordered' = w
  BY DEF Ordered, query, w
<1>15. \A n \in DOMAIN catalog' : IsColumns(catalog'[n])
  BY <1>1, <1>7 DEF StoreFits
<1>16. StoreFits'
  BY <1>12, <1>13, <1>14, <1>15 DEF StoreFits
<1>17. DOMAIN buffer \subseteq DOMAIN buffer' \cup {name}
  BY <1>2, <1>10, <1>12
<1>18. ASSUME name \notin DOMAIN files \ DOMAIN catalog PROVE PagesAt(name)' = pages
  <2>1. CASE name \in DOMAIN buffer'
    BY <1>12, <2>1 DEF PagesAt, PageIn
  <2>2. CASE name \notin DOMAIN buffer'
    <3>1. pages = <<>>
      BY <1>12, <2>2 DEF PageIn
    <3>2. kept = <<>>
      <4>1. old = <<>>
        BY <1>old, <1>18
      <4> QED
        BY <1>5, <3>1, <4>1, OnePage
    <3>3. name \notin DOMAIN files'
      BY <1>4, <1>10, <1>18, <3>2
    <3> QED
      BY <2>2, <3>1, <3>3 DEF PagesAt, FileOf
  <2> QED
    BY <2>1, <2>2
<1>19. name \notin DOMAIN files \ DOMAIN catalog =>
           PagesAt(name)' = AsPages(Without(rows, refused))
  <2>1. name \notin DOMAIN files \ DOMAIN catalog => old = <<>> /\ kept = Without(rows, refused)
    BY <1>old, <1>new
  <2> QED
    BY <1>18, <2>1 DEF AsPages
<1>20. /\ DOMAIN files' \subseteq DOMAIN files \cup {name}
       /\ \A n \in DOMAIN files' : n # name => files'[n] = files[n]
  <2>1. CASE files' = Dropped(files, name)
    BY <1>10, <2>1
  <2>2. CASE files' = With(Dropped(files, name), name, <<<<kept[1]>>>>)
    <3>1. PICK f, v : f = Dropped(files, name) /\ v = <<<<kept[1]>>>>
      OBVIOUS
    <3>2. files' = With(f, name, v)
      BY <2>2, <3>1
    <3>3. /\ DOMAIN With(f, name, v) = DOMAIN f \cup {name}
          /\ \A m \in DOMAIN f : m # name => With(f, name, v)[m] = f[m]
      BY DEF With
    <3> QED
      BY <1>10, <3>1, <3>2, <3>3
  <2> QED
    BY <1>4, <2>1, <2>2
<1>21. DOMAIN buffer' \subseteq DOMAIN catalog'
  BY <1>7, <1>io, <1>10, <1>12
<1> QED
  BY <1>7, <1>16, <1>17, <1>19, <1>20, <1>21 DEF rows

-----------------------------------------------------------------------------
(* Sorting *)

\* A part of a sequence.
LEMMA PartFacts ==
    ASSUME NEW s, IsSequence(s), NEW a \in Nat \ {0}, NEW b \in Nat, a <= b + 1, b <= Len(s)
    PROVE  /\ IsSequence(SubSeq(s, a, b)) /\ Len(SubSeq(s, a, b)) = b + 1 - a
           /\ \A i \in 1 .. b + 1 - a : SubSeq(s, a, b)[i] = s[a + i - 1]
<1>1. PICK S : s \in Seq(S) /\ Len(s) \in Nat
  BY SequenceFacts
<1>2. SubSeq(s, a, b) \in Seq(S)
  <2>1. \A i \in a .. b : s[i] \in S
    BY <1>1
  <2> QED
    BY <1>1, <2>1
<1>3. Len(SubSeq(s, a, b)) = b + 1 - a /\ \A i \in 1 .. b + 1 - a : SubSeq(s, a, b)[i] = s[a + i - 1]
  BY <1>1
<1> QED
  BY <1>2, <1>3, SequenceOf

\* A sequence of m members, then one of k.
Follows(u, s, m, t, k) ==
    IsSequence(s) /\ IsSequence(t) /\ m = Len(s) /\ k = Len(t) /\ u = s \o t

HasParts(u, s, m, t, k) ==
    /\ IsSequence(u) /\ Len(u) = m + k
    /\ \A i \in 1 .. m : u[i] = s[i]
    /\ \A i \in m + 1 .. m + k : u[i] = t[i - m]

LEMMA ConcatParts ==
    ASSUME NEW s, NEW t, NEW m, NEW k, NEW u, Follows(u, s, m, t, k)
    PROVE  HasParts(u, s, m, t, k)
<1>1. /\ IsSequence(s \o t) /\ Len(s \o t) = Len(s) + Len(t)
      /\ \A i \in 1 .. Len(s) : (s \o t)[i] = s[i]
      /\ \A i \in 1 .. Len(t) : (s \o t)[Len(s) + i] = t[i]
  BY ConcatFacts DEF Follows
<1>2. m = Len(s) /\ k = Len(t) /\ u = s \o t /\ m \in Nat /\ k \in Nat
  BY SequenceFacts DEF Follows
<1>3. ASSUME NEW i \in m + 1 .. m + k PROVE u[i] = t[i - m]
  <2>1. i - m \in 1 .. k /\ m + (i - m) = i
    BY <1>2
  <2>2. u[m + (i - m)] = t[i - m]
    BY <1>1, <1>2, <2>1
  <2> QED
    BY <2>1, <2>2
<1> QED
  BY <1>1, <1>2, <1>3 DEF HasParts

Smaller(records, n, i) == CompareRecords(records[n], records[i]) < 0

\* Where record n goes.
IsPlace(records, n, p) ==
    /\ p \in 1 .. n
    /\ \A i \in p .. n - 1 : Smaller(records, n, i)
    /\ p > 1 => ~Smaller(records, n, p - 1)

LEMMA PlaceExists ==
    ASSUME NEW records, NEW n \in Nat \ {0}
    PROVE  \E p : IsPlace(records, n, p)
<1> DEFINE S == {p \in 1 .. n : \A i \in p .. n - 1 : Smaller(records, n, i)}
<1>1. n \in S /\ S \subseteq Nat
  OBVIOUS
<1>2. PICK p \in S : \A q \in S : p <= q
  BY <1>1, LeastMember
<1>3. ASSUME p > 1, Smaller(records, n, p - 1) PROVE FALSE
  <2>1. p - 1 \in 1 .. n
    BY <1>3
  <2>2. \A i \in p - 1 .. n - 1 : Smaller(records, n, i)
    <3>1. \A i \in p - 1 .. n - 1 : i = p - 1 \/ i \in p .. n - 1
      BY <2>1
    <3> QED
      BY <1>2, <1>3, <3>1
  <2>3. p - 1 \in S
    BY <2>1, <2>2
  <2> HIDE DEF S
  <2> QED
    BY <1>1, <1>2, <2>3
<1> QED
  BY <1>2, <1>3 DEF IsPlace

\* Record n is at its place, and those it has passed are one place further.
MovedTo(records, n, p, new) ==
    /\ IsSequence(new) /\ Len(new) = Len(records)
    /\ \A i \in 1 .. p - 1 : new[i] = records[i]
    /\ new[p] = records[n]
    /\ \A i \in p + 1 .. n : new[i] = records[i - 1]
    /\ \A i \in n + 1 .. Len(records) : new[i] = records[i]

LEMMA MovedFacts ==
    ASSUME NEW records, IsSequence(records), NEW n \in 1 .. Len(records)
    PROVE  \E p : IsPlace(records, n, p) /\ MovedTo(records, n, p, Moved(records, n))
<1> DEFINE smaller(i) == CompareRecords(records[n], records[i]) < 0
           place == CHOOSE p \in 1 .. n : /\ \A i \in p .. n - 1 : smaller(i)
                                          /\ p > 1 => ~smaller(p - 1)
           l == Len(records)
           x == records[n]
           left == RemoveAt(records, n)
           new == InsertAt(left, place, x)
<1>1. Moved(records, n) = new
  BY DEF Moved
<1>2. IsPlace(records, n, place)
  <2>1. \E p \in 1 .. n : /\ \A i \in p .. n - 1 : smaller(i)
                          /\ p > 1 => ~smaller(p - 1)
    <3>1. n \in Nat \ {0}
      BY SequenceFacts
    <3>2. PICK p : IsPlace(records, n, p)
      BY <3>1, PlaceExists
    <3> QED
      BY <3>2 DEF IsPlace, Smaller
  <2>2. /\ place \in 1 .. n /\ \A i \in place .. n - 1 : smaller(i)
        /\ place > 1 => ~smaller(place - 1)
    BY <2>1
  <2> HIDE DEF place
  <2> QED
    BY <2>2 DEF IsPlace, Smaller
<1>3. PICK p \in 1 .. n : p = place
  BY <1>2 DEF IsPlace
<1> HIDE DEF place, smaller
<1>4. l \in Nat /\ n \in Nat /\ n <= l /\ 1 <= n /\ p \in Nat
  BY SequenceFacts
<1> HIDE DEF l
<1>5. /\ IsSequence(left) /\ Len(left) = l - 1
      /\ \A i \in 1 .. n - 1 : left[i] = records[i]
      /\ \A i \in n .. l - 1 : left[i] = records[i + 1]
  <2> DEFINE a == SubSeq(records, 1, n - 1)
             b == SubSeq(records, n + 1, l)
  <2>1. /\ IsSequence(a) /\ Len(a) = n - 1
        /\ \A i \in 1 .. n - 1 : a[i] = records[i]
    BY <1>4, PartFacts DEF l
  <2>2. /\ IsSequence(b) /\ Len(b) = l - n
        /\ \A i \in 1 .. l - n : b[i] = records[n + i]
    BY <1>4, PartFacts DEF l
  <2>3. left = a \o b
    BY DEF RemoveAt, l
  <2> HIDE DEF a, b, left
  <2>4. PICK m, k : m = n - 1 /\ k = l - n
    OBVIOUS
  <2>5. /\ IsSequence(left) /\ Len(left) = m + k
        /\ \A i \in 1 .. m : left[i] = a[i]
        /\ \A i \in m + 1 .. m + k : left[i] = b[i - m]
    <3>1. Follows(left, a, m, b, k)
      BY <2>1, <2>2, <2>3, <2>4 DEF Follows
    <3> QED
      BY <3>1, ConcatParts DEF HasParts
  <2>6. ASSUME NEW i \in n .. l - 1 PROVE left[i] = records[i + 1]
    <3>1. i \in m + 1 .. m + k /\ i - m \in 1 .. l - n /\ n + (i - m) = i + 1
      BY <1>4, <2>4
    <3> QED
      BY <2>2, <2>5, <3>1
  <2> QED
    BY <1>4, <2>1, <2>4, <2>5, <2>6
<1> HIDE DEF left
<1> DEFINE a == SubSeq(left, 1, p - 1)
           b == SubSeq(left, p, l - 1)
           s == <<x>>
<1>6. /\ IsSequence(a) /\ Len(a) = p - 1
      /\ \A i \in 1 .. p - 1 : a[i] = left[i]
  <2>1. /\ 1 \in Nat \ {0} /\ p - 1 \in Nat /\ 1 <= (p - 1) + 1 /\ p - 1 <= Len(left)
        /\ (p - 1) + 1 - 1 = p - 1 /\ \A i \in 1 .. p - 1 : 1 + i - 1 = i
    BY <1>4, <1>5
  <2> QED
    BY <1>5, <2>1, PartFacts
<1>7. /\ IsSequence(b) /\ Len(b) = l - p
      /\ \A i \in 1 .. l - p : b[i] = left[p + i - 1]
  <2>1. p \in Nat \ {0} /\ l - 1 \in Nat /\ p <= (l - 1) + 1 /\ l - 1 <= Len(left)
        /\ (l - 1) + 1 - p = l - p
    BY <1>4, <1>5
  <2> QED
    BY <1>5, <2>1, PartFacts
<1>8. IsSequence(s) /\ Len(s) = 1 /\ s[1] = x
  BY SingleSequence
<1>9. new = (a \o s) \o b
  BY <1>3, <1>5 DEF InsertAt
<1> HIDE DEF a, b, s, new, x
<1>10. /\ IsSequence(a \o s) /\ Len(a \o s) = p
       /\ \A i \in 1 .. p - 1 : (a \o s)[i] = left[i]
       /\ (a \o s)[p] = x
  <2>1. PICK m, k, u : m = p - 1 /\ k = 1 /\ u = a \o s
    OBVIOUS
  <2>2. /\ IsSequence(u) /\ Len(u) = m + k
        /\ \A i \in 1 .. m : u[i] = a[i]
        /\ \A i \in m + 1 .. m + k : u[i] = s[i - m]
    <3>1. Follows(u, a, m, s, k)
      BY <1>6, <1>8, <2>1 DEF Follows
    <3> QED
      BY <3>1, ConcatParts DEF HasParts
  <2>3. m + k = p /\ p \in m + 1 .. m + k /\ p - m = 1
    BY <1>4, <2>1
  <2>4. u[p] = x
    BY <1>8, <2>2, <2>3
  <2> QED
    BY <1>6, <2>1, <2>2, <2>3, <2>4
<1>11. PICK as : as = a \o s
  OBVIOUS
<1>12. /\ IsSequence(new) /\ Len(new) = p + (l - p)
       /\ \A i \in 1 .. p : new[i] = as[i]
       /\ \A i \in p + 1 .. p + (l - p) : new[i] = b[i - p]
  <2>1. PICK k : k = l - p
    OBVIOUS
  <2>2. IsSequence(as) /\ p = Len(as) /\ k = Len(b) /\ new = as \o b
    BY <1>7, <1>9, <1>10, <1>11, <2>1
  <2> HIDE DEF b, new
  <2> QED
    <3>1. Follows(new, as, p, b, k)
      BY <1>7, <2>2 DEF Follows
    <3>2. HasParts(new, as, p, b, k)
      BY <3>1, ConcatParts
    <3> QED
      BY <2>1, <3>2 DEF HasParts
<1>13. /\ \A i \in 1 .. p - 1 : new[i] = left[i]
       /\ new[p] = x
  <2>1. p \in 1 .. p /\ \A i \in 1 .. p - 1 : i \in 1 .. p
    BY <1>4
  <2> QED
    BY <1>10, <1>11, <1>12, <2>1
<1>14. ASSUME NEW i \in p + 1 .. l PROVE new[i] = left[i - 1]
  <2>1. i - p \in 1 .. l - p /\ i \in p + 1 .. p + (l - p) /\ p + (i - p) - 1 = i - 1
    BY <1>4
  <2> QED
    BY <1>7, <1>12, <2>1
<1>15. MovedTo(records, n, p, new)
  <2>1. \A i \in 1 .. p - 1 : new[i] = records[i]
    BY <1>4, <1>5, <1>13
  <2>2. \A i \in p + 1 .. n : new[i] = records[i - 1]
    <3>1. \A i \in p + 1 .. n : i \in p + 1 .. l /\ i - 1 \in 1 .. n - 1
      BY <1>4
    <3> QED
      BY <1>5, <1>14, <3>1
  <2>3. \A i \in n + 1 .. l : new[i] = records[i]
    <3>1. \A i \in n + 1 .. l : i \in p + 1 .. l /\ i - 1 \in n .. l - 1 /\ (i - 1) + 1 = i
      BY <1>4
    <3> QED
      BY <1>5, <1>14, <3>1
  <2> QED
    BY <1>4, <1>12, <1>13, <2>1, <2>2, <2>3 DEF MovedTo, l, x
<1> QED
  BY <1>1, <1>2, <1>3, <1>15 DEF new

LEMMA MovedMembers ==
    ASSUME NEW records, IsSequence(records), NEW n \in 1 .. Len(records)
    PROVE  /\ IsSequence(Moved(records, n)) /\ Len(Moved(records, n)) = Len(records)
           /\ Range(Moved(records, n)) \subseteq Range(records)
<1>1. PICK p : IsPlace(records, n, p) /\ MovedTo(records, n, p, Moved(records, n))
  BY MovedFacts
<1>2. PICK new, l : new = Moved(records, n) /\ l = Len(records)
  OBVIOUS
<1>3. MovedTo(records, n, p, new)
  BY <1>1, <1>2
<1>4. /\ IsSequence(new) /\ Len(new) = l /\ DOMAIN new = 1 .. l
      /\ DOMAIN records = 1 .. l /\ l \in Nat /\ n \in 1 .. l /\ p \in 1 .. n
  BY <1>1, <1>2, <1>3, SequenceFacts DEF MovedTo, IsPlace
<1>5. ASSUME NEW i \in 1 .. l PROVE \E j \in 1 .. l : new[i] = records[j]
  <2>1. CASE i \in 1 .. p - 1
    BY <1>3, <2>1 DEF MovedTo
  <2>2. CASE i = p
    BY <1>3, <1>4, <2>2 DEF MovedTo
  <2>3. CASE i \in p + 1 .. n
    <3>1. i - 1 \in 1 .. l
      BY <1>4, <2>3
    <3> QED
      BY <1>3, <2>3, <3>1 DEF MovedTo
  <2>4. CASE i \in n + 1 .. l
    BY <1>2, <1>3, <2>4 DEF MovedTo
  <2> QED
    BY <1>4, <2>1, <2>2, <2>3, <2>4
<1>6. ASSUME NEW v \in Range(new) PROVE v \in Range(records)
  <2>1. PICK i \in 1 .. l : v = new[i]
    BY <1>4 DEF Range
  <2>2. PICK j \in 1 .. l : v = records[j]
    BY <1>5, <2>1
  <2> QED
    BY <1>4, <2>2 DEF Range
<1> QED
  BY <1>2, <1>4, <1>6

-----------------------------------------------------------------------------
(* The types: the invariant *)

\* The files without a table are those that were there.
Orphans ==
    /\ tables.joined = 1 => catalog = input.catalog
    /\ \A n \in DOMAIN files \ DOMAIN catalog :
          n \in DOMAIN input.files \ DOMAIN input.catalog /\ files[n] = input.files[n]

Shapes ==
    /\ Orphans
    /\ stage \in {"parse", "join", "filter", "sort", "done", "refused", "crashed"}
    /\ clean \in BOOLEAN
    /\ input \in Inputs
    /\ DOMAIN input.catalog \subseteq DOMAIN catalog
    /\ StoreFits
    /\ DOMAIN buffer \subseteq DOMAIN catalog
    /\ tables.joined \in 1 .. Len(query.names)

\* The tables so far are known, and if records are to be ordered the others
\* are cached.
Joining ==
    /\ stage = "parse" => tables = [name |-> query.names[1], joined |-> 1]
    /\ tables.joined = 1 => tables.name = query.names[1]
    /\ stage \in {"join", "filter", "sort", "done"} => tables.name \in DOMAIN catalog
    /\ Ordered /\ stage \in {"parse", "join"} =>
          \A k \in tables.joined + 1 .. Len(query.names) : query.names[k] \in DOMAIN buffer

\* The records are rows of the table that is read, and those chosen are some of
\* those that have been looked at.
Records ==
    /\ IsSequence(page)
    /\ \A k \in 1 .. Len(page) : IsRow(page[k], catalog[tables.name], Ordered)
    /\ stage \in {"parse", "join"} => page = <<>>
    /\ page # <<>> => tables.name \in DOMAIN catalog
    /\ IsSequence(chosen) /\ Range(chosen) \subseteq Range(page) /\ Len(chosen) <= Len(page)
    /\ position \in 0 .. Len(page)
    /\ stage = "filter" => Len(chosen) <= position
    /\ stage = "sort" => position <= Len(chosen)

TypeInv == Shapes /\ Joining /\ Records

LEMMA TypeInvTypes ==
    ASSUME TypeInv
    PROVE  TypeOK
<1>1. \A n \in DOMAIN buffer : buffer[n].page # <<>>
  BY DEF TypeInv, Shapes, StoreFits, BufferFits
<1>2. ASSUME NEW i \in DOMAIN page PROVE Len(page[i]) = Len(catalog[tables.name])
  <2>1. i \in 1 .. Len(page) /\ page # <<>>
    BY <1>2, SequenceFacts, EmptySequence DEF TypeInv, Records
  <2>2. IsRow(page[i], catalog[tables.name], Ordered) /\ IsColumns(catalog[tables.name])
    BY <2>1 DEF TypeInv, Records, Shapes, StoreFits
  <2> QED
    BY <2>2, RowSequence
<1>3. position \in 0 .. Len(IF stage = "sort" THEN chosen ELSE page)
  <2>1. Len(chosen) \in Nat /\ Len(page) \in Nat
    BY SequenceFacts DEF TypeInv, Records
  <2> QED
    BY <2>1 DEF TypeInv, Records
<1> QED
  BY <1>1, <1>2, <1>3 DEF TypeInv, TypeOK, Shapes, Records

LEMMA InitTypeInv == Init => TypeInv
<1> SUFFICES ASSUME Init PROVE TypeInv
  OBVIOUS
<1>1. PICK i \in Inputs : input = i
  BY DEF Init
<1>2. WellFormed(i)
  BY SelectAssumption
<1> DEFINE q == i.query
<1>3. query = q /\ Ordered = (q.orderBy # "")
  BY <1>1 DEF query, Ordered
<1>4. /\ catalog = i.catalog /\ files = i.files /\ buffer = i.buffer /\ stage = "parse" /\ clean = TRUE
      /\ tables = [name |-> q.names[1], joined |-> 1] /\ page = <<>> /\ position = 0 /\ chosen = <<>>
  BY <1>1, <1>3 DEF Init
<1>5. IsSequence(q.names) /\ q.names # <<>> /\ Len(q.names) \in Nat \ {0}
  <2>1. IsSequence(q.names) /\ q.names # <<>>
    BY <1>2 DEF WellFormed
  <2>2. \A s : IsSequence(s) /\ Len(s) = 0 => s = <<>>
    BY DEF IsSequence
  <2> QED
    BY <2>1, <2>2, SequenceFacts
<1>6. StoreFits
  BY <1>2, <1>3, <1>4 DEF WellFormed, StoreFits, BufferFits, FilesFit
<1>7. Shapes
  <2>1. tables.joined = 1 /\ 1 \in 1 .. Len(q.names)
    BY <1>4, <1>5
  <2>2. Orphans /\ DOMAIN buffer \subseteq DOMAIN catalog
    BY <1>1, <1>2, <1>4 DEF Orphans, WellFormed
  <2> QED
    BY <1>1, <1>3, <1>4, <1>6, <2>1, <2>2 DEF Shapes
<1>8. Joining
  <2>1. Ordered => \A k \in 2 .. Len(q.names) : q.names[k] \in DOMAIN buffer
    BY <1>2, <1>3, <1>4 DEF WellFormed
  <2>2. tables.joined + 1 = 2
    BY <1>4
  <2> QED
    BY <1>3, <1>4, <2>1, <2>2 DEF Joining
<1>9. Records
  BY <1>4, EmptySequence DEF Records
<1> QED
  BY <1>7, <1>8, <1>9 DEF TypeInv

\* What a step that leaves the store alone keeps.
LEMMA StoreKept ==
    ASSUME Shapes, UNCHANGED <<input, catalog, files, buffer, tables>>,
           stage' \in {"parse", "join", "filter", "sort", "done", "refused", "crashed"},
           clean' \in BOOLEAN
    PROVE  Shapes' /\ query' = query /\ Ordered' = Ordered
<1>1. query' = query /\ Ordered' = Ordered
  BY DEF query, Ordered
<1>2. StoreFits'
  BY <1>1 DEF Shapes, StoreFits, BufferFits, FilesFit
<1>3. Orphans'
  BY DEF Shapes, Orphans
<1> QED
  BY <1>1, <1>2, <1>3 DEF Shapes

LEMMA ParseTypes ==
    ASSUME TypeInv, Parse
    PROVE  TypeInv'
<1>1. /\ stage = "parse" /\ stage' \in {"join", "refused", "crashed"} /\ clean' \in BOOLEAN
      /\ stage' = "join" => query.names[1] \in DOMAIN catalog
      /\ UNCHANGED <<input, catalog, files, buffer, tables, page, position, chosen, printed>>
  BY DEF Parse
<1>2. Shapes' /\ query' = query /\ Ordered' = Ordered
  BY <1>1, StoreKept DEF TypeInv
<1>3. tables.name = query.names[1]
  BY <1>1 DEF TypeInv, Joining
<1>4. Joining'
  BY <1>1, <1>2, <1>3 DEF TypeInv, Joining
<1>5. Records'
  BY <1>1, <1>2 DEF TypeInv, Records
<1> QED
  BY <1>2, <1>4, <1>5 DEF TypeInv

LEMMA JoinUnknownTypes ==
    ASSUME TypeInv, JoinUnknown
    PROVE  TypeInv'
<1>1. /\ stage = "join" /\ stage' = "crashed" /\ clean' \in BOOLEAN
      /\ UNCHANGED <<input, catalog, files, buffer, clean, parsed, tables, page, position, chosen, printed>>
  BY DEF JoinUnknown, TypeInv, Shapes
<1>2. Shapes' /\ query' = query /\ Ordered' = Ordered
  BY <1>1, StoreKept DEF TypeInv
<1>3. Joining'
  BY <1>1, <1>2 DEF TypeInv, Joining
<1>4. Records'
  BY <1>1, <1>2 DEF TypeInv, Records
<1> QED
  BY <1>2, <1>3, <1>4 DEF TypeInv

\* A file of the join without a table has the columns of the join.
LEMMA OrphanFits ==
    ASSUME Shapes, tables.name = query.names[1] \/ tables.joined # 1, tables.joined < Len(query.names),
           JoinedName(tables.name, Right) \in DOMAIN files \ DOMAIN catalog
    PROVE  IsPages(files[JoinedName(tables.name, Right)], JoinedColumns(tables.name, Right), Ordered)
<1>1. PICK l, r, n : l = tables.name /\ r = Right /\ n = JoinedName(l, r)
  OBVIOUS
<1>2. n \in DOMAIN input.files \ DOMAIN input.catalog /\ files[n] = input.files[n]
  BY <1>1 DEF Shapes, Orphans
<1>3. IsOrphan(input, n)
  BY <1>2, SelectAssumption DEF WellFormed, Shapes
<1>4. PICK m, j : m = Len(input.query.names) /\ j = tables.joined
  OBVIOUS
<1>5. m = 2 /\ j \in 1 .. m /\ j < m
  BY <1>3, <1>4 DEF IsOrphan, Shapes, query
<1>6. j = 1
  BY ONLY <1>5
<1>7. catalog = input.catalog /\ l = input.query.names[1] /\ r = input.query.names[2]
  BY <1>1, <1>4, <1>6 DEF Shapes, Orphans, Right, query
<1>8. JoinedColumns(l, r) = ColumnsRead(input)
  BY <1>4, <1>5, <1>7 DEF JoinedColumns, ColumnsRead
<1>9. PICK columns, w : columns = ColumnsRead(input) /\ w = Ordered
  OBVIOUS
<1>10. IsPages(input.files[n], columns, w)
  BY <1>3, <1>9 DEF IsOrphan, Ordered, query
<1> QED
  BY <1>1, <1>2, <1>8, <1>9, <1>10

LEMMA JoinTypes ==
    ASSUME TypeInv, Join
    PROVE  TypeInv'
<1> DEFINE left == tables.name
           name == JoinedName(left, Right)
           j == tables.joined
           s == SourcesOf(left, Right)
<1>1. /\ stage = "join" /\ j < Len(query.names) /\ Right \in DOMAIN catalog
      /\ UNCHANGED <<input, stage, parsed, page, position, chosen, printed>>
  BY DEF Join
<1>2. PICK refused : JoinedAs(left, name, s, refused)
  BY JoinSteps
<1>3. /\ StoreFits /\ left \in DOMAIN catalog /\ j \in 1 .. Len(query.names)
      /\ clean \in BOOLEAN /\ input \in Inputs /\ DOMAIN input.catalog \subseteq DOMAIN catalog
  BY <1>1 DEF TypeInv, Shapes, Joining
<1>4. query' = query /\ Ordered' = Ordered
  BY <1>1 DEF query, Ordered
<1>5. Len(query.names) \in Nat
  <2>1. WellFormed(input)
    BY <1>3, SelectAssumption
  <2> QED
    BY <2>1, SequenceFacts DEF WellFormed, query
<1>6. Ordered => Right \in DOMAIN buffer
  <2>1. j + 1 \in j + 1 .. Len(query.names)
    BY <1>1, <1>3, <1>5
  <2> QED
    BY <1>1, <2>1 DEF TypeInv, Joining, Right
<1>7. SourcesFit(s, left, Right)
  <2>1. PICK r : r = Right
    OBVIOUS
  <2>2. PICK l : l = left
    OBVIOUS
  <2>3. SourcesFit(SourcesOf(l, r), l, r)
    BY <1>1, <1>3, <1>6, <2>1, <2>2, SourcesFacts
  <2> QED
    BY <2>1, <2>2, <2>3
<1>8. PICK n : n = name
  OBVIOUS
<1>9. PICK t : t = s
  OBVIOUS
<1> HIDE DEF s, name
<1>10. /\ StoreFits' /\ DOMAIN catalog' = DOMAIN catalog \cup {n}
       /\ DOMAIN buffer \subseteq DOMAIN buffer' \cup {n}
       /\ DOMAIN buffer' \subseteq DOMAIN catalog'
       /\ DOMAIN files' \subseteq DOMAIN files \cup {n}
       /\ \A m \in DOMAIN files' : m # n => files'[m] = files[m]
  <2>1. SourcesFit(t, tables.name, Right) /\ JoinedAs(tables.name, n, t, refused)
    BY <1>2, <1>7, <1>8, <1>9
  <2>2. DOMAIN buffer \subseteq DOMAIN catalog
    BY DEF TypeInv, Shapes
  <2>3. n \in DOMAIN files \ DOMAIN catalog => IsPages(files[n], JoinedColumns(left, Right), Ordered)
    BY <1>1, <1>8, OrphanFits DEF TypeInv, Joining, name
  <2> QED
    BY <1>1, <1>3, <1>6, <2>1, <2>2, <2>3, JoinFits
<1>11. tables' = [name |-> n, joined |-> j + 1] /\ clean' \in BOOLEAN
  BY <1>2, <1>8 DEF JoinedAs
<1>12. tables'.name = n /\ tables'.joined = j + 1 /\ j + 1 \in 1 .. Len(query.names)
  BY <1>1, <1>3, <1>5, <1>11
<1>orphans. Orphans'
  <2>1. j + 1 # 1
    BY <1>3, <1>5
  <2>2. ASSUME NEW m \in DOMAIN files' \ DOMAIN catalog'
        PROVE  m \in DOMAIN input.files \ DOMAIN input.catalog /\ files'[m] = input.files[m]
    BY <1>10 DEF TypeInv, Shapes, Orphans
  <2> QED
    BY <1>1, <1>12, <2>1, <2>2 DEF Orphans
<1>13. Shapes'
  BY <1>1, <1>3, <1>4, <1>10, <1>11, <1>12, <1>orphans DEF TypeInv, Shapes
<1>14. Joining'
  <2>1. ASSUME Ordered, NEW k \in (j + 1) + 1 .. Len(query.names)
        PROVE  query.names[k] \in DOMAIN buffer'
    <3>1. k \in j + 1 .. Len(query.names) /\ k \in 2 .. Len(query.names) /\ k > 2
      BY <1>3, <1>5
    <3>2. query.names[k] \in DOMAIN buffer
      BY <1>1, <2>1, <3>1 DEF TypeInv, Joining
    <3>3. WellFormed(input)
      BY <1>3, SelectAssumption
    <3>4. query.names[k] # JoinedName(left, Right)
      BY <2>1, <3>1, <3>3 DEF WellFormed, query, Ordered
    <3> QED
      BY <1>8, <1>10, <3>2, <3>4 DEF name
  <2>2. j + 1 # 1
    BY <1>3, <1>5
  <2> QED
    BY <1>1, <1>4, <1>10, <1>12, <2>1, <2>2 DEF Joining
<1>15. Records'
  <2>1. page = <<>>
    BY <1>1 DEF TypeInv, Records
  <2> QED
    BY <1>1, <1>4, <2>1, EmptySequence DEF TypeInv, Records
<1> QED
  BY <1>13, <1>14, <1>15 DEF TypeInv

LEMMA LoadTypes ==
    ASSUME TypeInv, Load
    PROVE  TypeInv'
<1> DEFINE n == tables.name
<1>1. /\ stage = "join" /\ stage' = "filter"
      /\ buffer' = Loaded(buffer, n, n, FileOf(n))
      /\ page' = FlattenSeq(PageIn(buffer', n))
      /\ UNCHANGED <<input, catalog, files, clean, parsed, tables, position, chosen, printed>>
  BY DEF Load
<1>2. query' = query /\ Ordered' = Ordered
  BY <1>1 DEF query, Ordered
<1>3. /\ StoreFits /\ n \in DOMAIN catalog /\ page = <<>>
  BY <1>1 DEF TypeInv, Shapes, Joining, Records
<1>4. PICK m, w : m = n /\ w = Ordered
  OBVIOUS
<1>5. /\ BufferFits(buffer', catalog, w) /\ IsPages(PageIn(buffer', m), catalog[m], w)
  <2>1. IsPages(FileOf(m), catalog[m], w) /\ BufferFits(buffer, catalog, w)
    BY <1>3, <1>4, FileFits DEF StoreFits
  <2>2. PICK b, f, c : b = buffer /\ f = FileOf(m) /\ c = catalog
    OBVIOUS
  <2>3. BufferFits(b, c, w) /\ IsPages(f, c[m], w) /\ buffer' = Loaded(b, m, m, f) /\ m \in DOMAIN c
    BY <1>1, <1>3, <1>4, <2>1, <2>2
  <2>4. BufferFits(Loaded(b, m, m, f), c, w) /\ IsPages(PageIn(Loaded(b, m, m, f), m), c[m], w)
    BY <2>3, LoadedFacts
  <2> QED
    BY <2>2, <2>3, <2>4
<1>6. StoreFits'
  BY <1>1, <1>2, <1>4, <1>5 DEF TypeInv, Shapes, StoreFits, FilesFit
<1>7. Shapes'
  <2>1. Orphans'
    BY <1>1 DEF TypeInv, Shapes, Orphans
  <2>2. DOMAIN buffer' \subseteq DOMAIN catalog
    BY <1>1, <1>3 DEF TypeInv, Shapes, Loaded, With
  <2> QED
    BY <1>1, <1>2, <1>6, <2>1, <2>2 DEF TypeInv, Shapes
<1>8. Joining'
  BY <1>1, <1>2, <1>3 DEF TypeInv, Joining
<1>9. /\ IsSequence(page') /\ \A r \in Range(page') : IsRow(r, catalog[m], w)
  <2>1. IsColumns(catalog[m])
    BY <1>3, <1>4 DEF StoreFits
  <2>2. PICK pages : pages = PageIn(buffer', m)
    OBVIOUS
  <2>3. IsPages(pages, catalog[m], w) /\ page' = FlattenSeq(pages)
    BY <1>1, <1>4, <1>5, <2>2
  <2> QED
    BY <2>1, <2>3, PagesFacts
<1>10. Len(page') \in Nat /\ \A k \in 1 .. Len(page') : page'[k] \in Range(page')
  BY <1>9, SequenceFacts DEF Range
<1>11. /\ IsSequence(chosen) /\ Range(chosen) \subseteq Range(page) /\ Len(chosen) <= Len(page)
       /\ position \in 0 .. Len(page)
  BY DEF TypeInv, Records
<1>12. /\ Len(page) = 0 /\ Range(page) = {} /\ Len(chosen) \in Nat
  BY <1>3, <1>11, EmptySequence, SequenceFacts
<1>13. Records'
  <2>1. Len(chosen) = 0 /\ position = 0 /\ Range(chosen) = {}
    BY <1>11, <1>12
  <2> QED
    BY <1>1, <1>2, <1>3, <1>4, <1>9, <1>10, <1>11, <2>1 DEF Records
<1> QED
  BY <1>7, <1>8, <1>13 DEF TypeInv

LEMMA FilterTypes ==
    ASSUME TypeInv, Filter
    PROVE  TypeInv'
<1> DEFINE r == page[position + 1]
<1>1. /\ stage = "filter" /\ position < Len(page) /\ position' = position + 1
      /\ stage' \in {"filter", "crashed"}
      /\ chosen' \in {chosen, Append(chosen, r)}
      /\ UNCHANGED <<input, catalog, files, buffer, clean, parsed, tables, page, printed>>
  BY DEF Filter
<1>2. Shapes' /\ query' = query /\ Ordered' = Ordered
  BY <1>1, StoreKept DEF TypeInv, Shapes
<1>3. Joining'
  BY <1>1, <1>2 DEF TypeInv, Joining
<1>4. /\ IsSequence(page) /\ IsSequence(chosen) /\ Range(chosen) \subseteq Range(page)
      /\ Len(chosen) <= position /\ position \in 0 .. Len(page)
      /\ Len(page) \in Nat /\ Len(chosen) \in Nat /\ DOMAIN page = 1 .. Len(page)
  BY <1>1, SequenceFacts DEF TypeInv, Records
<1>5. position + 1 \in 1 .. Len(page)
  BY <1>1, <1>4
<1>6. r \in Range(page)
  BY <1>4, <1>5 DEF Range
<1> HIDE DEF r
<1>7. /\ IsSequence(chosen') /\ Range(chosen') \subseteq Range(page)
      /\ Len(chosen') \in {Len(chosen), Len(chosen) + 1}
  <2>1. CASE chosen' = chosen
    BY <1>4, <2>1
  <2>2. CASE chosen' = Append(chosen, r)
    <3>1. PICK s : s = chosen
      OBVIOUS
    <3>2. /\ IsSequence(Append(s, r)) /\ Len(Append(s, r)) = Len(s) + 1
          /\ Range(Append(s, r)) \subseteq Range(s) \cup {r}
      BY <1>4, <3>1, AppendFacts
    <3> QED
      BY <1>4, <1>6, <2>2, <3>1, <3>2
  <2> QED
    BY <1>1, <2>1, <2>2
<1>8. Records'
  BY <1>1, <1>2, <1>4, <1>5, <1>7 DEF TypeInv, Records
<1> QED
  BY <1>2, <1>3, <1>8 DEF TypeInv

LEMMA CollectedTypes ==
    ASSUME TypeInv, Collected
    PROVE  TypeInv'
<1>1. /\ stage = "filter" /\ stage' = "sort" /\ position' = 0
      /\ UNCHANGED <<input, catalog, files, buffer, clean, parsed, tables, page, chosen, printed>>
  BY DEF Collected
<1>2. Shapes' /\ query' = query /\ Ordered' = Ordered
  BY <1>1, StoreKept DEF TypeInv, Shapes
<1>3. Joining'
  BY <1>1, <1>2 DEF TypeInv, Joining
<1>4. Len(page) \in Nat /\ Len(chosen) \in Nat
  BY SequenceFacts DEF TypeInv, Records
<1>5. Records'
  BY <1>1, <1>2, <1>4 DEF TypeInv, Records
<1> QED
  BY <1>2, <1>3, <1>5 DEF TypeInv

LEMMA SortTypes ==
    ASSUME TypeInv, Sort
    PROVE  TypeInv'
<1>1. /\ stage = "sort" /\ position < Len(chosen) /\ position' = position + 1
      /\ chosen' = Moved(chosen, position + 1)
      /\ UNCHANGED <<input, catalog, files, buffer, stage, clean, parsed, tables, page, printed>>
  BY DEF Sort
<1>2. Shapes' /\ query' = query /\ Ordered' = Ordered
  BY <1>1, StoreKept DEF TypeInv, Shapes
<1>3. Joining'
  BY <1>1, <1>2 DEF TypeInv, Joining
<1>4. /\ IsSequence(page) /\ IsSequence(chosen) /\ Range(chosen) \subseteq Range(page)
      /\ Len(chosen) <= Len(page) /\ position \in 0 .. Len(page)
      /\ Len(page) \in Nat /\ Len(chosen) \in Nat
  BY <1>1, SequenceFacts DEF TypeInv, Records
<1>5. position + 1 \in 1 .. Len(chosen)
  BY <1>1, <1>4
<1>6. IsSequence(chosen') /\ Len(chosen') = Len(chosen) /\ Range(chosen') \subseteq Range(chosen)
  <2>1. PICK s, n : s = chosen /\ n = position + 1
    OBVIOUS
  <2>2. IsSequence(Moved(s, n)) /\ Len(Moved(s, n)) = Len(s) /\ Range(Moved(s, n)) \subseteq Range(s)
    BY <1>4, <1>5, <2>1, MovedMembers
  <2> QED
    BY <1>1, <2>1, <2>2
<1>7. Records'
  BY <1>1, <1>2, <1>4, <1>5, <1>6 DEF TypeInv, Records
<1> QED
  BY <1>2, <1>3, <1>7 DEF TypeInv

LEMMA OutputTypes ==
    ASSUME TypeInv, Output
    PROVE  TypeInv'
<1>1. /\ stage \in {"filter", "sort"} /\ stage' = "done" /\ clean' \in BOOLEAN
      /\ UNCHANGED <<input, catalog, files, buffer, parsed, tables, page, position, chosen>>
  BY DEF Output, TypeInv, Shapes
<1>2. Shapes' /\ query' = query /\ Ordered' = Ordered
  BY <1>1, StoreKept DEF TypeInv, Shapes
<1>3. Joining'
  BY <1>1, <1>2 DEF TypeInv, Joining
<1>4. Records'
  BY <1>1, <1>2 DEF TypeInv, Records
<1> QED
  BY <1>2, <1>3, <1>4 DEF TypeInv

LEMMA NothingTypes ==
    ASSUME TypeInv, UNCHANGED vars
    PROVE  TypeInv'
<1>1. UNCHANGED <<input, catalog, files, buffer, stage, clean, parsed, tables, page, position, chosen>>
  BY DEF vars
<1>2. Shapes' /\ query' = query /\ Ordered' = Ordered
  BY <1>1, StoreKept DEF TypeInv, Shapes
<1>3. Joining'
  BY <1>1, <1>2 DEF TypeInv, Joining
<1>4. Records'
  BY <1>1, <1>2 DEF TypeInv, Records
<1> QED
  BY <1>2, <1>3, <1>4 DEF TypeInv

\* What a select reads, joins, caches, chooses and sorts are always rows with
\* a value of its type for every column of the table that is read.
THEOREM TypeInvariance == Spec => []TypeInv
<1>1. Init => TypeInv
  BY InitTypeInv
<1>2. TypeInv /\ [Next]_vars => TypeInv'
  <2> SUFFICES ASSUME TypeInv, [Next]_vars PROVE TypeInv'
    OBVIOUS
  <2>1. CASE Parse
    BY <2>1, ParseTypes
  <2>2. CASE JoinUnknown
    BY <2>2, JoinUnknownTypes
  <2>3. CASE Join
    BY <2>3, JoinTypes
  <2>4. CASE Load
    BY <2>4, LoadTypes
  <2>5. CASE Filter
    BY <2>5, FilterTypes
  <2>6. CASE Collected
    BY <2>6, CollectedTypes
  <2>7. CASE Sort
    BY <2>7, SortTypes
  <2>8. CASE Output
    BY <2>8, OutputTypes
  <2>9. CASE Finished \/ UNCHANGED vars
    BY <2>9, NothingTypes DEF Finished
  <2> QED
    BY <2>1, <2>2, <2>3, <2>4, <2>5, <2>6, <2>7, <2>8, <2>9 DEF Next
<1> QED
  BY <1>1, <1>2, PTL DEF Spec

\* The variables keep their shapes, whatever tables a join takes and whatever
\* the statement asks for.
THEOREM TypeCorrect == Spec => []TypeOK
<1>1. TypeInv => TypeOK
  BY TypeInvTypes
<1> QED
  BY <1>1, TypeInvariance, PTL

-----------------------------------------------------------------------------
(* The order of what is printed *)

\* The last column of a name is one column.
LEMMA NamedColumn ==
    ASSUME NEW columns, IsColumns(columns), NEW name, HasColumn(columns, name)
    PROVE  \E i \in DOMAIN columns : i \in ColumnsNamed(columns, name)
<1> DEFINE named == {i \in DOMAIN columns : columns[i].name = name}
           n == Len(columns)
           S == {b \in 1 .. n : \A j \in named : j <= b}
<1>1. DOMAIN columns = 1 .. n /\ n \in Nat
  BY SequenceFacts DEF IsColumns
<1>2. PICK h \in named : TRUE
  BY DEF HasColumn
<1>3. h \in 1 .. n /\ n \in S /\ S \subseteq Nat
  BY <1>1, <1>2
<1>4. PICK b \in S : \A c \in S : b <= c
  BY <1>3, LeastMember
<1>5. ASSUME b \notin named PROVE FALSE
  <2>1. \A j \in named : j <= b /\ j \in Nat /\ j # b
    BY <1>1, <1>4, <1>5
  <2>2. b \in Nat /\ b <= n
    BY <1>3, <1>4
  <2>3. \A j \in named : j <= b - 1
    BY <2>1, <2>2
  <2>4. b - 1 \in 1 .. n
    BY <1>2, <1>3, <2>2, <2>3
  <2>5. b - 1 \in S
    BY <2>3, <2>4
  <2>6. b <= b - 1
    BY <1>4, <2>5
  <2> QED
    BY <2>2, <2>6
<1>6. b \in named /\ \A j \in named : j <= b
  BY <1>4, <1>5
<1> QED
  BY <1>6 DEF ColumnsNamed

LEMMA ColumnOfFacts ==
    ASSUME IsColumns(catalog[tables.name]), NEW name
    PROVE  ColumnOf(name) \in 1 .. Len(catalog[tables.name])
<1>1. PICK columns : columns = catalog[tables.name]
  OBVIOUS
<1>2. IsColumns(columns) /\ DOMAIN columns = 1 .. Len(columns) /\ Len(columns) \in Nat /\ Len(columns) # 0
  <2>1. IsColumns(columns) /\ IsSequence(columns) /\ columns # <<>>
    BY <1>1 DEF IsColumns
  <2>2. \A s : IsSequence(s) /\ Len(s) = 0 => s = <<>>
    BY DEF IsSequence
  <2> QED
    BY <2>1, <2>2, SequenceFacts
<1>3. \E i \in DOMAIN columns : IF HasColumn(columns, name) THEN i \in ColumnsNamed(columns, name) ELSE i = 1
  <2>1. CASE HasColumn(columns, name)
    BY <1>2, <2>1, NamedColumn
  <2>2. CASE ~HasColumn(columns, name)
    <3>1. 1 \in DOMAIN columns
      BY <1>2
    <3> QED
      BY <2>2, <3>1
  <2> QED
    BY <2>1, <2>2
<1>4. ColumnOf(name) = CHOOSE i \in DOMAIN columns :
          IF HasColumn(columns, name) THEN i \in ColumnsNamed(columns, name) ELSE i = 1
  BY <1>1 DEF ColumnOf
<1>5. ColumnOf(name) \in DOMAIN columns
  BY <1>3, <1>4
<1> QED
  BY <1>1, <1>2, <1>5

OrderColumn == ColumnOf(query.orderBy)

OrderType == catalog[tables.name][OrderColumn].type

\* Two values one after the other: doubles only to the whole number, integers
\* only if they are small enough for their difference.
InOrder(v, w) ==
    CASE OrderType = "DOUBLE"  -> v - w < 10
      [] OrderType = "INTEGER" -> 2 * v \in -IntLimit .. IntLimit - 1 /\ 2 * w \in -IntLimit .. IntLimit - 1
                                  => v <= w
      [] OrderType = "BOOL"    -> v <= w
      [] IsText(OrderType)     -> Rank(v) <= Rank(w)

LEMMA SmallNumbers ==
    ASSUME NEW x \in Int, -IntLimit <= x, x < IntLimit
    PROVE  Wrap(x) = x
<1>1. IntLimit \in Nat \ {0}
  BY SelectAssumption
<1> DEFINE m == 2 * IntLimit
           y == x + IntLimit
<1>2. m \in Nat /\ m > 0 /\ y \in Nat /\ y < m
  BY <1>1
<1>3. y % m = y
  <2> HIDE DEF m, y
  <2> QED
    BY <1>2
<1>4. Wrap(x) = (y % m) - IntLimit
  BY DEF Wrap
<1> QED
  BY <1>1, <1>3, <1>4

LEMMA RankFacts ==
    ASSUME NEW v \in Range(Strings)
    PROVE  Rank(v) \in Nat
<1>1. DOMAIN Strings = 1 .. Len(Strings)
  BY SelectAssumption, SequenceFacts
<1>2. \E i \in DOMAIN Strings : Strings[i] = v
  BY DEF Range
<1>3. Rank(v) \in DOMAIN Strings
  BY <1>2 DEF Rank
<1> QED
  BY <1>1, <1>3

\* compare_records says in which order two records may be.
LEMMA ComparedInOrder ==
    ASSUME IsColumns(catalog[tables.name]),
           NEW r, IsRow(r, catalog[tables.name], TRUE), NEW s, IsRow(s, catalog[tables.name], TRUE)
    PROVE  IF CompareRecords(r, s) < 0 THEN InOrder(r[OrderColumn], s[OrderColumn])
           ELSE InOrder(s[OrderColumn], r[OrderColumn])
<1>1. PICK i, t : i = OrderColumn /\ t = OrderType
  OBVIOUS
<1>2. i \in 1 .. Len(catalog[tables.name]) /\ t = catalog[tables.name][i].type
  BY <1>1, ColumnOfFacts DEF OrderColumn, OrderType
<1>3. /\ t \in {"INTEGER", "DOUBLE", "BOOL", "CHAR", "VARCHAR"}
      /\ r[i] \in ValuesOf(t) /\ s[i] \in ValuesOf(t)
  BY <1>2 DEF IsColumns, IsColumn, IsRow
<1>4. PICK v, w : v = r[i] /\ w = s[i]
  OBVIOUS
<1>5. CompareRecords(r, s) = CASE t = "INTEGER" -> Wrap(v - w)
                               [] t = "DOUBLE"  -> Truncate(v - w)
                               [] t = "BOOL"    -> IF v = 1 THEN 1 ELSE -1
                               [] IsText(t)     -> Rank(v) - Rank(w)
  BY <1>1, <1>4 DEF CompareRecords, OrderColumn, OrderType
<1>6. PICK c : c = CompareRecords(r, s)
  OBVIOUS
<1>7. IF c < 0 THEN InOrder(v, w) ELSE InOrder(w, v)
  <2>1. CASE t = "INTEGER"
    <3>0. \A x, y \in Int : InOrder(x, y) <=>
                        (2 * x \in -IntLimit .. IntLimit - 1 /\ 2 * y \in -IntLimit .. IntLimit - 1 => x <= y)
      BY <1>1, <2>1 DEF InOrder, IsText
    <3>1. v \in Int /\ w \in Int /\ c = Wrap(v - w) /\ IntLimit \in Nat
      BY <1>3, <1>4, <1>5, <1>6, <2>1, SelectAssumption DEF ValuesOf, IsText
    <3>2. CASE 2 * v \in -IntLimit .. IntLimit - 1 /\ 2 * w \in -IntLimit .. IntLimit - 1
      <4>1. v - w \in Int /\ -IntLimit <= v - w /\ v - w < IntLimit
        BY <3>1, <3>2
      <4>2. c = v - w
        BY <3>1, <4>1, SmallNumbers
      <4>3. IF c < 0 THEN v <= w ELSE w <= v
        BY <3>1, <4>2
      <4> QED
        BY <3>0, <3>1, <4>3
    <3>3. CASE ~(2 * v \in -IntLimit .. IntLimit - 1 /\ 2 * w \in -IntLimit .. IntLimit - 1)
      BY <3>0, <3>1, <3>3
    <3> QED
      BY <3>1, <3>2, <3>3
  <2>2. CASE t = "DOUBLE"
    <3>1. v \in Int /\ w \in Int /\ c = Truncate(v - w)
      BY <1>3, <1>4, <1>5, <1>6, <2>2 DEF ValuesOf, IsText
    <3>2. IF c < 0 THEN v - w < 10 ELSE w - v < 10
      BY <3>1 DEF Truncate
    <3>3. \A x, y \in Int : InOrder(x, y) <=> x - y < 10
      BY <1>1, <2>2 DEF InOrder, IsText
    <3> QED
      BY <3>1, <3>2, <3>3
  <2>3. CASE t = "BOOL"
    <3>1. v \in 0 .. 1 /\ w \in 0 .. 1 /\ c = IF v = 1 THEN 1 ELSE -1
      BY <1>3, <1>4, <1>5, <1>6, <2>3 DEF ValuesOf, IsText
    <3>2. IF c < 0 THEN v <= w ELSE w <= v
      BY <3>1
    <3>3. \A x, y \in Int : InOrder(x, y) <=> x <= y
      BY <1>1, <2>3 DEF InOrder, IsText
    <3> QED
      BY <3>1, <3>2, <3>3
  <2>4. CASE IsText(t)
    <3>1. v \in Range(Strings) /\ w \in Range(Strings)
      BY <1>3, <1>4, <2>4 DEF ValuesOf
    <3>2. c = Rank(v) - Rank(w)
      BY <1>5, <1>6, <2>4 DEF IsText
    <3>3. Rank(v) \in Nat /\ Rank(w) \in Nat
      BY <3>1, RankFacts
    <3>4. IF c < 0 THEN Rank(v) <= Rank(w) ELSE Rank(w) <= Rank(v)
      BY <3>2, <3>3
    <3>5. \A x, y : InOrder(x, y) <=> Rank(x) <= Rank(y)
      BY <1>1, <2>4 DEF InOrder, IsText
    <3> QED
      BY <3>4, <3>5
  <2> QED
    BY <1>3, <2>1, <2>2, <2>3, <2>4 DEF IsText
<1> QED
  BY <1>1, <1>4, <1>6, <1>7

SortedTo(records, m) ==
    \A k \in 1 .. m - 1 : InOrder(records[k][OrderColumn], records[k + 1][OrderColumn])

\* A turn of the sort puts one more record in order.
LEMMA MovedInOrder ==
    ASSUME IsColumns(catalog[tables.name]),
           NEW records, IsSequence(records),
           \A k \in 1 .. Len(records) : IsRow(records[k], catalog[tables.name], TRUE),
           NEW n \in 1 .. Len(records), SortedTo(records, n - 1)
    PROVE  SortedTo(Moved(records, n), n)
<1>1. PICK p : IsPlace(records, n, p) /\ MovedTo(records, n, p, Moved(records, n))
  BY MovedFacts
<1>2. PICK new, l : new = Moved(records, n) /\ l = Len(records)
  OBVIOUS
<1>3. /\ l \in Nat /\ n \in 1 .. l /\ p \in 1 .. n
      /\ \A i \in 1 .. p - 1 : new[i] = records[i]
      /\ new[p] = records[n]
      /\ \A i \in p + 1 .. n : new[i] = records[i - 1]
  BY <1>1, <1>2, SequenceFacts DEF MovedTo, IsPlace
<1>4. \A a, b \in 1 .. l : IF Smaller(records, a, b)
                           THEN InOrder(records[a][OrderColumn], records[b][OrderColumn])
                           ELSE InOrder(records[b][OrderColumn], records[a][OrderColumn])
  <2> SUFFICES ASSUME NEW a \in 1 .. l, NEW b \in 1 .. l
               PROVE  IF Smaller(records, a, b)
                      THEN InOrder(records[a][OrderColumn], records[b][OrderColumn])
                      ELSE InOrder(records[b][OrderColumn], records[a][OrderColumn])
    OBVIOUS
  <2>1. PICK r, s : r = records[a] /\ s = records[b]
    OBVIOUS
  <2>2. IsRow(r, catalog[tables.name], TRUE) /\ IsRow(s, catalog[tables.name], TRUE)
    BY <1>2, <2>1
  <2>3. IF CompareRecords(r, s) < 0 THEN InOrder(r[OrderColumn], s[OrderColumn])
        ELSE InOrder(s[OrderColumn], r[OrderColumn])
    BY <2>2, ComparedInOrder
  <2> QED
    BY <2>1, <2>3 DEF Smaller
<1>5. ASSUME NEW k \in 1 .. n - 1
      PROVE  InOrder(new[k][OrderColumn], new[k + 1][OrderColumn])
  <2>1. CASE k + 1 < p
    <3>1. k \in 1 .. p - 1 /\ k + 1 \in 1 .. p - 1 /\ k \in 1 .. (n - 1) - 1
      BY <1>3, <2>1
    <3>2. new[k] = records[k] /\ new[k + 1] = records[k + 1]
      BY <1>3, <3>1
    <3> QED
      BY <3>1, <3>2 DEF SortedTo
  <2>2. CASE k + 1 = p
    <3>1. k \in 1 .. p - 1 /\ p > 1 /\ p - 1 = k /\ k \in 1 .. l
      BY <1>3, <2>2
    <3>2. ~Smaller(records, n, k)
      BY <1>1, <3>1 DEF IsPlace
    <3>3. new[k] = records[k] /\ new[k + 1] = records[n]
      BY <1>3, <2>2, <3>1
    <3> QED
      BY <1>3, <1>4, <3>1, <3>2, <3>3
  <2>3. CASE k = p
    <3>1. p \in p .. n - 1 /\ k + 1 \in p + 1 .. n /\ (k + 1) - 1 = p /\ p \in 1 .. l
      BY <1>3, <2>3
    <3>2. Smaller(records, n, p)
      BY <1>1, <3>1 DEF IsPlace
    <3>3. new[k] = records[n] /\ new[k + 1] = records[p]
      BY <1>3, <2>3, <3>1
    <3> QED
      BY <1>3, <1>4, <3>1, <3>2, <3>3
  <2>4. CASE k > p
    <3>1. /\ k \in p + 1 .. n /\ k + 1 \in p + 1 .. n /\ (k + 1) - 1 = k
          /\ k - 1 \in 1 .. (n - 1) - 1 /\ (k - 1) + 1 = k
      BY <1>3, <2>4
    <3>2. new[k] = records[k - 1] /\ new[k + 1] = records[k]
      BY <1>3, <3>1
    <3>3. InOrder(records[k - 1][OrderColumn], records[(k - 1) + 1][OrderColumn])
      BY <3>1 DEF SortedTo
    <3> QED
      BY <3>1, <3>2, <3>3
  <2> QED
    BY <1>3, <2>1, <2>2, <2>3, <2>4
<1> QED
  BY <1>2, <1>5 DEF SortedTo

\* What has been sorted is in order; everything is when the records are
\* printed.
SortInv ==
    Ordered => /\ stage = "sort" => SortedTo(chosen, position)
               /\ stage = "done" => SortedTo(chosen, Len(chosen))

LEMMA OrderKept ==
    ASSUME query' = query, tables' = tables, catalog' = catalog
    PROVE  OrderColumn' = OrderColumn /\ OrderType' = OrderType
<1>1. OrderColumn' = OrderColumn
  BY DEF OrderColumn, ColumnOf, HasColumn, ColumnsNamed
<1> QED
  BY <1>1 DEF OrderType

\* While the table and the order are the same, so are the records in order.
LEMMA SortedKept ==
    ASSUME query' = query, tables' = tables, catalog' = catalog, NEW records, NEW m
    PROVE  SortedTo(records, m)' = SortedTo(records, m)
BY OrderKept DEF SortedTo, InOrder

LEMMA SortStep ==
    ASSUME TypeInv, SortInv, [Next]_vars
    PROVE  SortInv'
<1>1. CASE Parse \/ JoinUnknown \/ Join \/ Load \/ Filter
  <2>1. input' = input /\ stage' \notin {"sort", "done"}
    BY <1>1 DEF Parse, JoinUnknown, Join, Load, Filter
  <2> QED
    BY <2>1 DEF SortInv
<1>2. CASE Collected
  <2>1. stage' = "sort" /\ position' = 0
    BY <1>2 DEF Collected
  <2> QED
    BY <2>1 DEF SortInv, SortedTo
<1>3. CASE Sort
  <2>1. /\ stage = "sort" /\ stage' = "sort" /\ position < Len(chosen) /\ position' = position + 1
        /\ chosen' = Moved(chosen, position + 1)
        /\ UNCHANGED <<input, catalog, tables>>
    BY <1>3 DEF Sort
  <2>2. query' = query /\ Ordered' = Ordered
    BY <2>1 DEF query, Ordered
  <2>3. ASSUME Ordered PROVE SortedTo(chosen, position)' 
    <3>1. PICK s, n : s = chosen /\ n = position + 1
      OBVIOUS
    <3>2. /\ IsSequence(s) /\ Range(s) \subseteq Range(page) /\ IsSequence(page)
          /\ \A k \in 1 .. Len(page) : IsRow(page[k], catalog[tables.name], TRUE)
          /\ tables.name \in DOMAIN catalog
      BY <2>1, <2>3, <3>1 DEF TypeInv, Records, Joining
    <3>3. IsColumns(catalog[tables.name])
      BY <3>2 DEF TypeInv, Shapes, StoreFits
    <3>4. \A k \in 1 .. Len(s) : IsRow(s[k], catalog[tables.name], TRUE)
      <4>1. DOMAIN s = 1 .. Len(s) /\ DOMAIN page = 1 .. Len(page)
        BY <3>2, SequenceFacts
      <4>2. ASSUME NEW k \in 1 .. Len(s) PROVE IsRow(s[k], catalog[tables.name], TRUE)
        <5>1. s[k] \in Range(page)
          BY <3>2, <4>1 DEF Range
        <5>2. PICK j \in 1 .. Len(page) : s[k] = page[j]
          BY <4>1, <5>1 DEF Range
        <5> QED
          BY <3>2, <5>2
      <4> QED
        BY <4>2
    <3>5. n \in 1 .. Len(s) /\ n - 1 = position
      <4>1. position \in Nat /\ Len(s) \in Nat
        BY <3>2, SequenceFacts DEF TypeInv, Records
      <4> QED
        BY <2>1, <3>1, <4>1
    <3>6. SortedTo(s, n - 1)
      BY <2>1, <2>3, <3>1, <3>5 DEF SortInv
    <3>7. SortedTo(Moved(s, n), n)
      BY <3>2, <3>3, <3>4, <3>5, <3>6, MovedInOrder
    <3>8. PICK t : t = Moved(s, n)
      OBVIOUS
    <3>9. SortedTo(t, n)' = SortedTo(t, n)
      BY <2>1, <2>2, SortedKept
    <3>10. chosen' = t /\ position' = n
      BY <2>1, <3>1, <3>8
    <3> QED
      BY <3>7, <3>8, <3>9, <3>10 DEF SortedTo
  <2> QED
    BY <2>1, <2>2, <2>3 DEF SortInv
<1>4. CASE Output
  <2>1. /\ stage' = "done" /\ UNCHANGED <<input, catalog, tables, chosen>>
        /\ Ordered => stage = "sort" /\ position = Len(chosen)
    BY <1>4 DEF Output, Ordered
  <2>2. query' = query /\ Ordered' = Ordered
    BY <2>1 DEF query, Ordered
  <2>3. PICK s : s = chosen
    OBVIOUS
  <2>4. SortedTo(s, Len(s))' = SortedTo(s, Len(s))
    BY <2>1, <2>2, SortedKept
  <2>5. Ordered => SortedTo(s, Len(s))
    BY <2>1, <2>3 DEF SortInv
  <2>6. Ordered => SortedTo(chosen, Len(chosen))'
    BY <2>1, <2>3, <2>4, <2>5 DEF SortedTo
  <2> QED
    BY <2>1, <2>2, <2>6 DEF SortInv
<1>5. CASE Finished \/ UNCHANGED vars
  <2>1. UNCHANGED <<input, catalog, tables, chosen, stage, position>>
    BY <1>5 DEF Finished, vars
  <2>2. query' = query /\ Ordered' = Ordered
    BY <2>1 DEF query, Ordered
  <2>3. PICK s, m : s = chosen /\ m = position
    OBVIOUS
  <2>4. SortedTo(s, Len(s))' = SortedTo(s, Len(s)) /\ SortedTo(s, m)' = SortedTo(s, m)
    BY <2>1, <2>2, SortedKept
  <2> QED
    BY <2>1, <2>2, <2>3, <2>4 DEF SortInv, SortedTo
<1> QED
  BY <1>1, <1>2, <1>3, <1>4, <1>5 DEF Next

LEMMA SortedPrinted ==
    ASSUME TypeInv, SortInv
    PROVE  PrintedInOrder
<1> SUFFICES ASSUME stage = "done", query.orderBy # "" PROVE PrintedInOrder
  BY DEF PrintedInOrder
<1> DEFINE i == ColumnOf(query.orderBy)
           type == catalog[tables.name][i].type
           value(n) == IF IsText(type) THEN Rank(chosen[n][i]) ELSE chosen[n][i]
<1>1. /\ IsSequence(chosen) /\ Len(chosen) \in Nat /\ DOMAIN chosen = 1 .. Len(chosen)
      /\ IsSequence(page) /\ DOMAIN page = 1 .. Len(page) /\ Range(chosen) \subseteq Range(page)
      /\ \A k \in 1 .. Len(page) : IsRow(page[k], catalog[tables.name], TRUE)
      /\ IsColumns(catalog[tables.name])
  BY SequenceFacts DEF TypeInv, Records, Joining, Shapes, StoreFits, Ordered
<1>2. i \in 1 .. Len(catalog[tables.name]) /\ i = OrderColumn /\ type = OrderType
  BY <1>1, ColumnOfFacts DEF OrderColumn, OrderType
<1>3. type \in {"INTEGER", "DOUBLE", "BOOL", "CHAR", "VARCHAR"}
  BY <1>1, <1>2 DEF IsColumns, IsColumn
<1>4. \A n \in 1 .. Len(chosen) - 1 : InOrder(chosen[n][i], chosen[n + 1][i])
  BY <1>2 DEF SortInv, SortedTo, Ordered
<1> HIDE DEF i, type
<1>5. \A n \in 1 .. Len(chosen) : chosen[n][i] \in ValuesOf(type) /\ chosen[n] \in Range(chosen)
  <2> SUFFICES ASSUME NEW n \in 1 .. Len(chosen)
               PROVE  chosen[n][i] \in ValuesOf(type) /\ chosen[n] \in Range(chosen)
    OBVIOUS
  <2>1. chosen[n] \in Range(chosen)
    BY <1>1 DEF Range
  <2>2. PICK k \in 1 .. Len(page) : chosen[n] = page[k]
    BY <1>1, <2>1 DEF Range
  <2>3. IsRow(chosen[n], catalog[tables.name], TRUE)
    BY <1>1, <2>2
  <2> QED
    BY <1>2, <2>1, <2>3 DEF IsRow, type
<1>6. ASSUME NEW n \in 1 .. Len(chosen) - 1
      PROVE  CASE type = "DOUBLE"  -> value(n) - value(n + 1) < 10
               [] type = "INTEGER" -> Close(i) => value(n) <= value(n + 1)
               [] OTHER            -> value(n) <= value(n + 1)
  <2>1. PICK v, w : v = chosen[n][i] /\ w = chosen[n + 1][i]
    OBVIOUS
  <2>2. n \in 1 .. Len(chosen) /\ n + 1 \in 1 .. Len(chosen)
    <3>1. PICK l : l = Len(chosen)
      OBVIOUS
    <3>2. l \in Nat /\ n \in 1 .. l - 1
      BY <1>1, <3>1
    <3>3. n \in 1 .. l /\ n + 1 \in 1 .. l
      BY ONLY <3>2
    <3> QED
      BY <3>1, <3>3
  <2>3. v \in ValuesOf(type) /\ w \in ValuesOf(type) /\ InOrder(v, w)
    BY <1>4, <1>5, <2>1, <2>2
  <2>4. CASE IsText(type)
    <3>1. Rank(v) <= Rank(w)
      BY <1>2, <2>3, <2>4 DEF InOrder, IsText
    <3>2. value(n) = Rank(v) /\ value(n + 1) = Rank(w)
      BY <2>1, <2>4
    <3> QED
      BY <2>4, <3>1, <3>2 DEF IsText
  <2>5. CASE type = "DOUBLE"
    <3>1. v \in Int /\ w \in Int /\ value(n) = v /\ value(n + 1) = w
      BY <2>1, <2>3, <2>5 DEF ValuesOf, IsText
    <3>2. v - w < 10
      BY <1>2, <2>3, <2>5, <3>1 DEF InOrder, IsText
    <3> QED
      BY <2>5, <3>1, <3>2
  <2>6. CASE type = "BOOL"
    <3>0. v \in 0 .. 1 /\ w \in 0 .. 1
      BY <2>3, <2>6 DEF ValuesOf, IsText
    <3>1. v \in Int /\ w \in Int /\ value(n) = v /\ value(n + 1) = w
      <4>1. ~IsText(type)
        BY <2>6 DEF IsText
      <4>2. value(n) = v /\ value(n + 1) = w
        BY <2>1, <4>1
      <4>3. v \in Int /\ w \in Int
        BY ONLY <3>0
      <4> QED
        BY <4>2, <4>3
    <3>2. v <= w
      BY <1>2, <2>3, <2>6, <3>1 DEF InOrder, IsText
    <3> QED
      BY <2>6, <3>1, <3>2
  <2>7. CASE type = "INTEGER"
    <3>1. v \in Int /\ w \in Int /\ value(n) = v /\ value(n + 1) = w
      BY <2>1, <2>3, <2>7 DEF ValuesOf, IsText
    <3>2. Close(i) => 2 * v \in -IntLimit .. IntLimit - 1 /\ 2 * w \in -IntLimit .. IntLimit - 1
      BY <1>5, <2>1, <2>2 DEF Close
    <3>3. Close(i) => v <= w
      BY <1>2, <2>3, <2>7, <3>1, <3>2 DEF InOrder, IsText
    <3> QED
      BY <2>7, <3>1, <3>3
  <2> QED
    BY <1>3, <2>4, <2>5, <2>6, <2>7 DEF IsText
<1> HIDE DEF value
<1>7. \A n \in 1 .. Len(chosen) - 1 :
         CASE type = "DOUBLE"  -> value(n) - value(n + 1) < 10
           [] type = "INTEGER" -> Close(i) => value(n) <= value(n + 1)
           [] OTHER            -> value(n) <= value(n + 1)
  BY <1>6
<1> QED
  BY <1>7 DEF PrintedInOrder, i, type, value

\* Whatever the tables and the order, records are printed in the order of
\* their column: integers if none of their differences overflows, doubles to
\* the whole number that compare_records makes of a difference.
THEOREM OrderedOutput == Spec => []PrintedInOrder
<1>1. Init => SortInv
  BY DEF Init, SortInv
<1>2. TypeInv /\ SortInv /\ [Next]_vars => SortInv'
  BY SortStep
<1>3. TypeInv /\ SortInv => PrintedInOrder
  BY SortedPrinted
<1> QED
  BY <1>1, <1>2, <1>3, TypeInvariance, PTL DEF Spec

-----------------------------------------------------------------------------
(* The pairs of a join *)

\* Rows that are pairs behind their numbers, each once.
Paired(rows) == [c \in DOMAIN rows |-> Tail(rows[c])]

PairedOnce(rows, A, B) == IsInjective(Paired(rows)) /\ Range(Paired(rows)) \subseteq Pairs(A, B)

LEMMA JoinedOnce ==
    ASSUME NEW p1, IsNested(p1), NEW p2, IsNested(p2), NEW a, NEW b,
           AllSequences(Range(FlattenSeq(p1)), a), AllSequences(Range(FlattenSeq(p2)), b),
           IsInjective(FlattenSeq(p1)), IsInjective(FlattenSeq(p2)),
           NEW rows, Joins(rows, p1, p2)
    PROVE  /\ PairedOnce(rows, Range(FlattenSeq(p1)), Range(FlattenSeq(p2)))
           /\ Len(p1) <= 1 => Range(Paired(rows)) = Pairs(Range(FlattenSeq(p1)), Range(FlattenSeq(p2)))
<1> DEFINE A == Range(FlattenSeq(p1))
           B == Range(FlattenSeq(p2))
           v == Paired(rows)
<1>1. IsSequence(rows) /\ DOMAIN rows = 1 .. Len(rows) /\ Len(rows) \in Nat
  BY SequenceFacts DEF Joins
<1>2. DOMAIN v = 1 .. Len(rows) /\ \A c \in 1 .. Len(rows) : v[c] = Tail(rows[c])
  BY <1>1 DEF Paired
<1> HIDE DEF v
<1>3. CASE p2 = <<>>
  <2>1. DOMAIN v = {}
    BY <1>1, <1>2, <1>3 DEF Joins
  <2>2. B = {}
    BY <1>3, FlattenOne, EmptySequence
  <2>3. IsInjective(v) /\ Range(v) = {}
    BY <2>1 DEF IsInjective, Range
  <2>4. Pairs(A, B) = {}
    <3> HIDE DEF A, B
    <3> QED
      BY <2>2 DEF Pairs
  <2> QED
    BY <2>3, <2>4 DEF PairedOnce, v
<1>4. CASE p2 # <<>>
  <2> DEFINE pairs == LoopPairs(p1, p2)
  <2>1. /\ IsSequence(pairs) /\ Range(pairs) \subseteq Pairs(A, B) /\ IsInjective(pairs)
        /\ Len(p1) <= 1 => Range(pairs) = Pairs(A, B)
    BY <1>4, LoopPairsFacts
  <2>2. Len(rows) = Len(pairs) /\ \A c \in 1 .. Len(rows) : v[c] = pairs[c]
    BY <1>2, <1>4 DEF Joins
  <2> HIDE DEF pairs, A, B
  <2>3. DOMAIN pairs = DOMAIN v /\ \A c \in DOMAIN v : v[c] = pairs[c]
    BY <1>2, <2>1, <2>2, SequenceFacts
  <2>4. IsInjective(v) /\ Range(v) = Range(pairs)
    BY <2>1, <2>3 DEF IsInjective, Range
  <2> QED
    BY <2>1, <2>4 DEF PairedOnce, A, B, v
<1> QED
  BY <1>3, <1>4

\* What is kept of the rows is paired once as well.
LEMMA KeptOnce ==
    ASSUME NEW rows, IsSequence(rows), NEW A, NEW B, PairedOnce(rows, A, B), NEW refused
    PROVE  /\ PairedOnce(Without(rows, refused), A, B)
           /\ refused = {} => Range(Paired(Without(rows, refused))) = Range(Paired(rows))
<1>1. PICK kept : kept = Without(rows, refused)
  OBVIOUS
<1>2. PICK from \in [1 .. Len(kept) -> 1 .. Len(rows)] :
         /\ IsSequence(kept)
         /\ \A k \in 1 .. Len(kept) : kept[k] = rows[from[k]]
         /\ \A k, l \in 1 .. Len(kept) : from[k] = from[l] => k = l
         /\ refused = {} => \A c \in 1 .. Len(rows) : \E k \in 1 .. Len(kept) : from[k] = c
  BY <1>1, WithoutFacts
<1> DEFINE v == Paired(rows)
           w == Paired(kept)
<1>3. DOMAIN rows = 1 .. Len(rows) /\ DOMAIN kept = 1 .. Len(kept)
  BY <1>2, SequenceFacts
<1>4. /\ DOMAIN v = 1 .. Len(rows) /\ \A c \in 1 .. Len(rows) : v[c] = Tail(rows[c])
      /\ DOMAIN w = 1 .. Len(kept) /\ \A k \in 1 .. Len(kept) : w[k] = Tail(kept[k])
  BY <1>3 DEF Paired
<1>5. IsInjective(v) /\ Range(v) \subseteq Pairs(A, B)
  BY DEF PairedOnce
<1> HIDE DEF v, w
<1>6. \A k \in 1 .. Len(kept) : w[k] = v[from[k]] /\ from[k] \in 1 .. Len(rows)
  <2> TAKE k \in 1 .. Len(kept)
  <2>1. PICK c \in 1 .. Len(rows) : c = from[k]
    OBVIOUS
  <2>2. kept[k] = rows[c]
    BY <1>2, <2>1
  <2> QED
    BY <1>4, <2>1, <2>2
<1>7. IsInjective(w)
  BY <1>2, <1>4, <1>5, <1>6 DEF IsInjective
<1>8. Range(w) \subseteq Range(v)
  BY <1>4, <1>6 DEF Range
<1>9. refused = {} => Range(w) = Range(v)
  <2> SUFFICES ASSUME refused = {}, NEW x \in Range(v) PROVE x \in Range(w)
    BY <1>8
  <2>1. PICK c \in 1 .. Len(rows) : x = v[c]
    BY <1>4 DEF Range
  <2>2. PICK k \in 1 .. Len(kept) : from[k] = c
    BY <1>2
  <2> QED
    BY <1>4, <1>6, <2>1, <2>2 DEF Range
<1> QED
  BY <1>1, <1>5, <1>7, <1>8, <1>9 DEF PairedOnce, v, w

\* JoinPairsOnce, of any rows.
PairsOnce(rows) ==
    LET values == [i \in DOMAIN rows |-> Values(rows[i])]
    IN  /\ IsInjective(values)
        /\ Range(values) \subseteq Product
        /\ clean /\ (OneLeftPage \/ Len(query.names) = 1) => Range(values) = Product

JoinInv ==
    /\ stage \in {"parse", "join"} /\ tables.joined = 1 =>
          /\ tables.name = query.names[1]
          /\ buffer = input.buffer /\ files = input.files /\ catalog = input.catalog
    /\ stage = "join" /\ tables.joined # 1 /\ ReadsWhatIsHeld =>
          PairsOnce(FlattenSeq(PagesAt(tables.name)))
    /\ Loads /\ ReadsWhatIsHeld => PairsOnce(page)

LEMMA InputKept ==
    ASSUME input' = input
    PROVE  /\ query' = query /\ Product' = Product
           /\ ReadsWhatIsHeld' = ReadsWhatIsHeld /\ OneLeftPage' = OneLeftPage
<1>1. query' = query
  BY DEF query
<1>2. /\ \A n : InFile(input, n)' = InFile(input, n)
      /\ \A n : HeldPages(input, n)' = HeldPages(input, n) /\ Held(n)' = Held(n)
      /\ ReadsFiles' = ReadsFiles
  BY <1>1 DEF InFile, HeldPages, Held, ReadsFiles
<1>3. Product' = Product
  <2>1. PICK q1, q2 : q1 = query.names[1] /\ q2 = query.names[2]
    OBVIOUS
  <2>2. PICK a, b : a = Held(q1) /\ b = Held(q2)
    OBVIOUS
  <2>3. Held(query.names[1])' = a /\ Held(query.names[2])' = b
    <3>1. Held(q1)' = a /\ Held(q2)' = b /\ query'.names[1] = q1 /\ query'.names[2] = q2
      BY <1>1, <1>2, <2>1, <2>2
    <3>2. Held(query.names[1])' = Held(q1)' /\ Held(query.names[2])' = Held(q2)'
      BY <3>1 DEF Held, HeldPages, InFile
    <3> QED
      BY <3>1, <3>2
  <2>4. Product = IF Len(query.names) = 1 THEN Range(a) ELSE {r \o s : r \in Range(a), s \in Range(b)}
    BY <2>1, <2>2 DEF Product
  <2>5. Product' = IF Len(query'.names) = 1 THEN Range(a) ELSE {r \o s : r \in Range(a), s \in Range(b)}
    BY <2>3 DEF Product
  <2> QED
    BY <1>1, <2>4, <2>5
<1>4. ReadsWhatIsHeld' = ReadsWhatIsHeld
  BY <1>1, <1>2 DEF ReadsWhatIsHeld
<1>5. OneLeftPage' = OneLeftPage
  BY <1>1, <1>2 DEF OneLeftPage
<1> QED
  BY <1>1, <1>3, <1>4, <1>5

\* Nothing that was not initialised has made a difference before.
LEMMA OutputClean ==
    ASSUME Output
    PROVE  clean' => clean
<1>1. clean' = clean \/ clean' = FALSE
  BY DEF Output
<1> QED
  BY <1>1

LEMMA PairsKept ==
    ASSUME input' = input, clean' => clean, NEW rows
    PROVE  PairsOnce(rows) => PairsOnce(rows)'
BY InputKept DEF PairsOnce, Values

\* A table by itself is read as it is held.
LEMMA OneTable ==
    ASSUME Len(query.names) = 1, IsInjective(Held(query.names[1])),
           NEW rows, rows = Held(query.names[1])
    PROVE  PairsOnce(rows)
<1> DEFINE values == [i \in DOMAIN rows |-> Values(rows[i])]
<1>1. \A r : Values(r) = r
  BY DEF Values
<1>2. DOMAIN values = DOMAIN rows /\ \A i \in DOMAIN rows : values[i] = rows[i]
  BY <1>1
<1> HIDE DEF values
<1>3. IsInjective(values) /\ Range(values) = Range(rows)
  BY <1>2 DEF IsInjective, Range
<1>4. Product = Range(rows)
  BY DEF Product
<1> QED
  BY <1>3, <1>4 DEF PairsOnce, values

\* Two tables, of which the join has read what they hold.
OfTwoTables(rows) ==
    /\ Len(query.names) = 2
    /\ PairedOnce(rows, Range(Held(query.names[1])), Range(Held(query.names[2])))
    /\ clean /\ OneLeftPage => Range(Paired(rows)) =
           Pairs(Range(Held(query.names[1])), Range(Held(query.names[2])))

LEMMA TwoTablesJoined == \A rows : OfTwoTables(rows) => PairsOnce(rows)
<1> SUFFICES ASSUME NEW rows, OfTwoTables(rows) PROVE PairsOnce(rows)
  OBVIOUS
<1>1. \A r : Values(r) = Tail(r)
  BY DEF Values, OfTwoTables
<1>2. Paired(rows) = [i \in DOMAIN rows |-> Values(rows[i])]
  BY <1>1 DEF Paired
<1>3. Product = Pairs(Range(Held(query.names[1])), Range(Held(query.names[2])))
  BY DEF Product, Pairs, OfTwoTables
<1> QED
  BY <1>2, <1>3 DEF PairsOnce, PairedOnce, OfTwoTables

LEMMA TwoTablesJoinedNext == (\A rows : OfTwoTables(rows) => PairsOnce(rows))'
BY TwoTablesJoined, PTL

LEMMA HeldOnce ==
    ASSUME TwoTables, input \in Inputs, NEW n \in DOMAIN input.catalog
    PROVE  IsInjective(Held(n))
BY DEF TwoTables, Held

\* The join reads what the two tables hold.
LEMMA SourcesHeld ==
    ASSUME NEW left, NEW right, left = query.names[1], right = query.names[2],
           buffer = input.buffer, files = input.files, Len(query.names) = 2, ReadsWhatIsHeld,
           NEW s, SourcesFit(s, left, right)
    PROVE  /\ FlattenSeq(s.p1) = Held(left) /\ FlattenSeq(s.p2) = Held(right)
           /\ OneLeftPage => Len(s.p1) <= 1
<1>1. \A n : FileOf(n) = InFile(input, n) /\ PagesAt(n) = HeldPages(input, n)
  BY DEF FileOf, InFile, PagesAt, HeldPages
<1>2. CASE ReadsFiles
  <2>1. s.p1 = InFile(input, left) /\ s.p2 = InFile(input, right)
    BY <1>1, <1>2 DEF SourcesFit
  <2>2. \A k \in 1 .. 2 : FlattenSeq(InFile(input, query.names[k])) = Held(query.names[k])
    BY <1>2 DEF ReadsWhatIsHeld
  <2>3. FlattenSeq(InFile(input, left)) = Held(left) /\ FlattenSeq(InFile(input, right)) = Held(right)
    <3>1. 1 \in 1 .. 2 /\ 2 \in 1 .. 2
      OBVIOUS
    <3> QED
      BY <2>2, <3>1
  <2>4. OneLeftPage => Len(s.p1) <= 1
    BY <1>2, <2>1 DEF OneLeftPage
  <2> QED
    BY <2>1, <2>3, <2>4
<1>3. CASE ~ReadsFiles
  <2>1. s.p1 = HeldPages(input, left)
    BY <1>1, <1>3 DEF SourcesFit
  <2>2. right \in DOMAIN buffer \/ right = left
    BY <1>3 DEF ReadsWhatIsHeld
  <2>3. s.p2 = HeldPages(input, right)
    BY <1>3, <2>1, <2>2 DEF SourcesFit, HeldPages
  <2>4. OneLeftPage => Len(s.p1) <= 1
    BY <1>3, <2>1 DEF OneLeftPage
  <2> QED
    BY <2>1, <2>3, <2>4 DEF Held
<1> QED
  BY <1>2, <1>3

AtMostTwo == \A i \in Inputs : Len(i.query.names) <= 2

LEMMA NamesFacts ==
    ASSUME AtMostTwo, TypeInv
    PROVE  /\ Len(query.names) \in {1, 2} /\ tables.joined \in {1, 2}
           /\ tables.joined <= Len(query.names)
<1>1. WellFormed(input) /\ Len(input.query.names) <= 2
  BY SelectAssumption DEF TypeInv, Shapes, AtMostTwo
<1>2. Len(query.names) \in Nat /\ Len(query.names) <= 2 /\ tables.joined \in 1 .. Len(query.names)
  BY <1>1, SequenceFacts DEF WellFormed, query, TypeInv, Shapes
<1>3. PICK n, j : n = Len(query.names) /\ j = tables.joined
  OBVIOUS
<1>4. n \in Nat /\ n <= 2 /\ j \in 1 .. n
  BY <1>2, <1>3
<1>5. n \in {1, 2} /\ j \in {1, 2} /\ j <= n
  BY ONLY <1>4
<1> QED
  BY <1>3, <1>5

LEMMA JoinJoins ==
    ASSUME TwoTables, TypeInv, JoinInv, Join
    PROVE  JoinInv'
<1> DEFINE left == tables.name
           j == tables.joined
<1>1. /\ stage = "join" /\ j < Len(query.names) /\ Right \in DOMAIN catalog
      /\ UNCHANGED <<input, stage, parsed, page, position, chosen, printed>>
  BY DEF Join
<1>2. Len(query.names) = 2 /\ j = 1
  <2>1. PICK n, m : n = Len(query.names) /\ m = j
    OBVIOUS
  <2>2. n \in {1, 2} /\ m \in {1, 2} /\ m < n
    BY <1>1, <2>1, NamesFacts DEF TwoTables, AtMostTwo
  <2>3. n = 2 /\ m = 1
    BY ONLY <2>2
  <2> QED
    BY <2>1, <2>3
<1>3. /\ left = query.names[1] /\ Right = query.names[2]
      /\ buffer = input.buffer /\ files = input.files /\ catalog = input.catalog
  BY <1>1, <1>2 DEF JoinInv, Right
<1>4. PICK l, r, name, s : l = left /\ r = Right /\ name = JoinedName(left, Right) /\ s = SourcesOf(left, Right)
  OBVIOUS
<1>5. PICK refused : JoinedAs(left, name, s, refused)
  BY <1>4, JoinSteps
<1>6. StoreFits /\ l \in DOMAIN catalog /\ r \in DOMAIN catalog /\ input \in Inputs
  BY <1>1, <1>4 DEF TypeInv, Shapes, Joining
<1>7. Ordered => Right \in DOMAIN buffer
  <2>1. 2 \in j + 1 .. Len(query.names)
    BY <1>2
  <2> QED
    BY <1>1, <1>3, <2>1 DEF TypeInv, Joining
<1>8. SourcesFit(s, l, r)
  <2>1. SourcesFit(SourcesOf(l, r), l, r)
    BY <1>4, <1>6, <1>7, SourcesFacts
  <2> QED
    BY <1>4, <2>1
<1> DEFINE rows == JoinedRows(s.p1, s.p2)
           kept == Without(rows, refused)
<1>9. /\ ReadsWhatIsHeld => PagesAt(name)' = AsPages(kept)
      /\ tables'.name = name /\ tables'.joined = 2
      /\ clean' = (clean /\ refused = {})
  <2>1. SourcesFit(s, tables.name, Right) /\ tables.name \in DOMAIN catalog
    BY <1>4, <1>6, <1>8
  <2>2. ReadsWhatIsHeld => PagesAt(name)' = AsPages(kept)
    <3>1. ReadsWhatIsHeld => name \notin DOMAIN files \ DOMAIN catalog
      BY <1>2, <1>3 DEF ReadsWhatIsHeld
    <3>2. name \in DOMAIN files \ DOMAIN catalog => IsPages(files[name], JoinedColumns(left, Right), Ordered)
      BY <1>1, <1>3, <1>4, OrphanFits DEF TypeInv
    <3>3. DOMAIN buffer \subseteq DOMAIN catalog
      BY DEF TypeInv, Shapes
    <3>4. name \notin DOMAIN files \ DOMAIN catalog => PagesAt(name)' = AsPages(kept)
      <4>1. /\ input' = input /\ tables.name \in DOMAIN catalog /\ Right \in DOMAIN catalog
            /\ JoinedAs(tables.name, name, s, refused)
        BY <1>1, <1>4, <1>5, <1>6
      <4> QED
        BY <1>6, <1>7, <2>1, <3>2, <3>3, <4>1, JoinFits
    <3> QED
      BY <3>1, <3>4
  <2>3. tables' = [name |-> name, joined |-> j + 1] /\ clean' = (clean /\ refused = {})
    BY <1>5 DEF JoinedAs
  <2> QED
    BY <1>2, <2>2, <2>3
<1>10. ASSUME ReadsWhatIsHeld PROVE FlattenSeq(PagesAt(tables.name))' = kept
  <2>1. FlattenSeq(PagesAt(name)') = kept
    <3> HIDE DEF kept
    <3> QED
      BY <1>9, <1>10, FlattenOne DEF AsPages
  <2>2. PagesAt(tables.name)' = PagesAt(name)'
    BY <1>9 DEF PagesAt, FileOf
  <2> QED
    BY <2>1, <2>2
<1>11. ASSUME ReadsWhatIsHeld PROVE PairsOnce(kept)'
  <2> DEFINE A == Range(Held(l))
             B == Range(Held(r))
  <2>1. /\ FlattenSeq(s.p1) = Held(l) /\ FlattenSeq(s.p2) = Held(r)
        /\ OneLeftPage => Len(s.p1) <= 1
    BY <1>2, <1>3, <1>4, <1>8, <1>11, SourcesHeld
  <2>2. PICK w : w = Ordered
    OBVIOUS
  <2>3. /\ IsPages(s.p1, catalog[l], w) /\ IsPages(s.p2, catalog[r], w)
        /\ IsColumns(catalog[l]) /\ IsColumns(catalog[r])
    BY <1>6, <1>8, <2>2 DEF SourcesFit, StoreFits
  <2>4. PICK p1, p2 : p1 = s.p1 /\ p2 = s.p2
    OBVIOUS
  <2>5. PICK a, b : /\ IsNested(p1) /\ IsNested(p2)
                    /\ AllSequences(Range(FlattenSeq(p1)), a) /\ AllSequences(Range(FlattenSeq(p2)), b)
    BY <2>3, <2>4, PagesFacts
  <2>6. IsInjective(FlattenSeq(p1)) /\ IsInjective(FlattenSeq(p2))
    BY <1>3, <1>6, <2>1, <2>4, HeldOnce
  <2>7. PICK x : x = JoinedRows(p1, p2)
    OBVIOUS
  <2>8. Joins(x, p1, p2)
    <3>1. IsPages(p1, catalog[l], w) /\ IsPages(p2, catalog[r], w)
      BY <2>3, <2>4
    <3>2. Joins(JoinedRows(p1, p2), p1, p2)
      BY <2>3, <3>1, JoinedRowsFit
    <3> QED
      BY <2>7, <3>2
  <2>9. /\ PairedOnce(x, Range(FlattenSeq(p1)), Range(FlattenSeq(p2)))
        /\ Len(p1) <= 1 => Range(Paired(x)) = Pairs(Range(FlattenSeq(p1)), Range(FlattenSeq(p2)))
    BY <2>5, <2>6, <2>8, JoinedOnce
  <2>10. /\ PairedOnce(x, A, B)
         /\ OneLeftPage => Range(Paired(x)) = Pairs(A, B)
    BY <2>1, <2>4, <2>9
  <2>11. PICK k : k = Without(x, refused)
    OBVIOUS
  <2> HIDE DEF A, B
  <2>12. PairedOnce(k, A, B) /\ (refused = {} => Range(Paired(k)) = Range(Paired(x)))
    BY <2>8, <2>10, <2>11, KeptOnce DEF Joins
  <2>13. clean' /\ OneLeftPage => Range(Paired(k)) = Pairs(A, B)
    BY <1>9, <2>10, <2>12
  <2>14. query' = query /\ OneLeftPage' = OneLeftPage
    BY <1>1, InputKept
  <2>15. Held(query.names[1])' = Held(l) /\ Held(query.names[2])' = Held(r)
    BY <1>1, <1>3, <1>4, <2>14 DEF Held, HeldPages, InFile
  <2>16. OfTwoTables(k)'
    BY <1>2, <2>12, <2>13, <2>14, <2>15 DEF OfTwoTables, A, B
  <2>17. PairsOnce(k)'
    BY <2>16, TwoTablesJoinedNext
  <2>18. k = kept
    BY <2>4, <2>7, <2>11
  <2> HIDE DEF kept
  <2> QED
    BY <2>17, <2>18 DEF PairsOnce
<1>12. ReadsWhatIsHeld' = ReadsWhatIsHeld
  BY <1>1, InputKept
<1> HIDE DEF kept
<1> QED
  BY <1>1, <1>9, <1>10, <1>11, <1>12 DEF JoinInv, Loads, PairsOnce

LEMMA LoadJoins ==
    ASSUME TwoTables, TypeInv, JoinInv, Load
    PROVE  JoinInv'
<1> DEFINE n == tables.name
<1>1. /\ stage = "join" /\ stage' = "filter" /\ tables.joined = Len(query.names)
      /\ buffer' = Loaded(buffer, n, n, FileOf(n))
      /\ page' = FlattenSeq(PageIn(buffer', n))
      /\ UNCHANGED <<input, catalog, files, clean, parsed, tables, position, chosen, printed>>
  BY DEF Load
<1>2. n \in DOMAIN catalog /\ input \in Inputs
  BY <1>1 DEF TypeInv, Shapes, Joining
<1>3. PageIn(buffer', n) = PagesAt(n)
  BY <1>1 DEF Loaded, With, PageIn, PagesAt
<1>4. PICK rows : rows = page'
  OBVIOUS
<1>5. rows = FlattenSeq(PagesAt(n))
  BY <1>1, <1>3, <1>4
<1>6. ASSUME ReadsWhatIsHeld PROVE PairsOnce(rows)
  <2>1. CASE tables.joined = 1
    <3>1. n = query.names[1] /\ buffer = input.buffer /\ files = input.files /\ catalog = input.catalog
      BY <1>1, <2>1 DEF JoinInv
    <3>2. rows = Held(n)
      BY <1>5, <3>1 DEF PagesAt, FileOf, Held, HeldPages, InFile
    <3>3. IsInjective(Held(n))
      BY <1>2, <3>1, HeldOnce
    <3> QED
      BY <1>1, <2>1, <3>1, <3>2, <3>3, OneTable
  <2>2. CASE tables.joined # 1
    BY <1>1, <1>5, <1>6, <2>2 DEF JoinInv
  <2> QED
    BY <2>1, <2>2
<1>7. ReadsWhatIsHeld' = ReadsWhatIsHeld /\ (PairsOnce(rows) => PairsOnce(rows)')
  BY <1>1, InputKept, PairsKept
<1>8. ReadsWhatIsHeld => PairsOnce(page)'
  BY <1>4, <1>6, <1>7 DEF PairsOnce
<1> QED
  BY <1>1, <1>7, <1>8 DEF JoinInv

\* The other steps leave what was joined as it is.
LEMMA OthersJoin ==
    ASSUME TwoTables, TypeInv, JoinInv,
           Parse \/ JoinUnknown \/ Filter \/ Collected \/ Sort \/ Output \/ Finished \/ UNCHANGED vars
    PROVE  JoinInv'
<1>1. UNCHANGED <<input, catalog, files, buffer, tables, page>>
  BY DEF Parse, JoinUnknown, Filter, Collected, Sort, Output, Finished, vars
<1>2. PICK rows : rows = page
  OBVIOUS
<1>3. ReadsWhatIsHeld' = ReadsWhatIsHeld /\ query' = query
  BY <1>1, InputKept
<1>4. CASE Parse
  <2>1. stage = "parse" /\ stage' \in {"join", "refused", "crashed"}
    BY <1>4 DEF Parse
  <2>2. tables.joined = 1
    BY <2>1 DEF TypeInv, Joining
  <2> QED
    BY <1>1, <1>3, <2>1, <2>2 DEF JoinInv, Loads
<1>5. CASE JoinUnknown
  <2>1. stage' = "crashed"
    BY <1>5 DEF JoinUnknown
  <2> QED
    BY <2>1 DEF JoinInv, Loads
<1>6. CASE Filter \/ Collected \/ Sort \/ Output
  <2>1. Loads /\ stage' \in {"filter", "sort", "done", "crashed"} /\ (clean' => clean)
    <3>1. Loads /\ stage' \in {"filter", "sort", "done", "crashed"}
      BY <1>6 DEF Filter, Collected, Sort, Output, Loads
    <3>2. clean' => clean
      <4>1. CASE Output
        BY <4>1, OutputClean
      <4>2. CASE Filter \/ Collected \/ Sort
        BY <4>2 DEF Filter, Collected, Sort
      <4> QED
        BY <1>6, <4>1, <4>2
    <3> QED
      BY <3>1, <3>2
  <2>2. PairsOnce(rows) => PairsOnce(rows)'
    BY <1>1, <2>1, PairsKept
  <2>3. ReadsWhatIsHeld => PairsOnce(page)'
    BY <1>1, <1>2, <2>1, <2>2 DEF JoinInv, PairsOnce
  <2> QED
    BY <1>3, <2>1, <2>3 DEF JoinInv
<1>7. CASE Finished \/ UNCHANGED vars
  <2>1. stage' = stage /\ clean' = clean
    BY <1>7 DEF Finished, vars
  <2>2. PICK joined : joined = FlattenSeq(PagesAt(tables.name))
    OBVIOUS
  <2>3. (PairsOnce(rows) => PairsOnce(rows)') /\ (PairsOnce(joined) => PairsOnce(joined)')
    BY <1>1, <2>1, PairsKept
  <2>4. FlattenSeq(PagesAt(tables.name))' = joined
    BY <1>1, <2>2 DEF PagesAt, FileOf
  <2>5. stage = "join" /\ tables.joined # 1 /\ ReadsWhatIsHeld => PairsOnce(FlattenSeq(PagesAt(tables.name)))'
    BY <2>2, <2>3, <2>4 DEF JoinInv, PairsOnce
  <2>6. Loads /\ ReadsWhatIsHeld => PairsOnce(page)'
    BY <1>1, <1>2, <2>3 DEF JoinInv, PairsOnce
  <2>7. Loads' = Loads
    BY <2>1 DEF Loads
  <2> QED
    BY <1>1, <1>3, <2>1, <2>5, <2>6, <2>7 DEF JoinInv
<1> QED
  BY <1>4, <1>5, <1>6, <1>7

\* From the table that is read first to the pages of the join: what was there
\* when the statement was typed is what is paired, each pair once.
THEOREM JoinsWhatIsHeld ==
    ASSUME TwoTables
    PROVE  Spec => []JoinInv
<1>1. Init => JoinInv
  BY DEF Init, JoinInv, Loads, query
<1>2. TypeInv /\ JoinInv /\ [Next]_vars => JoinInv'
  <2> SUFFICES ASSUME TypeInv, JoinInv, [Next]_vars PROVE JoinInv'
    OBVIOUS
  <2>1. CASE Join
    BY <2>1, JoinJoins
  <2>2. CASE Load
    BY <2>2, LoadJoins
  <2>3. CASE Parse \/ JoinUnknown \/ Filter \/ Collected \/ Sort \/ Output \/ Finished \/ UNCHANGED vars
    BY <2>3, OthersJoin
  <2> QED
    BY <2>1, <2>2, <2>3 DEF Next
<1> QED
  BY <1>1, <1>2, TypeInvariance, PTL DEF Spec

\* Whatever two tables a select joins, on whatever pages their rows are: if it
\* reads what they hold, the join has pairs of their rows, none twice, and all
\* of them when the left table has one page and no row is refused.
THEOREM PairsJoinedOnce ==
    ASSUME TwoTables
    PROVE  Spec => []JoinPairsOnce
<1>1. JoinInv => JoinPairsOnce
  BY DEF JoinInv, JoinPairsOnce, PairsOnce
<1> QED
  BY <1>1, JoinsWhatIsHeld, PTL

-----------------------------------------------------------------------------
(* The condition: what is parsed of a text that the buffer held nothing     *)
(* before.                                                                  *)

ParseInv == Parses => parsed = ParseConditional(Tokens(Text(<<>>)))

LEMMA ParseKept ==
    ASSUME ParseInv, UNCHANGED <<input, parsed>>, Parses' => Parses
    PROVE  ParseInv'
<1>1. Text(<<>>)' = Text(<<>>)
  BY DEF Text, query
<1> QED
  BY <1>1 DEF ParseInv

LEMMA ParseParses ==
    ASSUME Parse
    PROVE  ParseInv'
<1>1. PICK leftover : /\ parsed' = ParseConditional(Tokens(Text(leftover)))
                      /\ clean' = (leftover = <<>> \/ query.alternatives = <<>>)
  BY DEF Parse
<1>2. input' = input
  BY DEF Parse
<1>3. clean' => Text(leftover) = Text(<<>>)
  <2>1. CASE leftover = <<>>
    BY <2>1
  <2>2. CASE query.alternatives = <<>>
    BY <2>2 DEF Text
  <2> QED
    BY <1>1, <2>1, <2>2
<1>4. Text(<<>>)' = Text(<<>>)
  BY <1>2 DEF Text, query
<1> QED
  BY <1>1, <1>3, <1>4 DEF ParseInv, Parses

\* As long as nothing that was not initialised has made a difference, what is
\* parsed is the text of the condition.
THEOREM ParsesText == Spec => []ParseInv
<1>1. Init => ParseInv
  BY DEF Init, ParseInv, Parses
<1>2. TypeInv /\ ParseInv /\ [Next]_vars => ParseInv'
  <2> SUFFICES ASSUME TypeInv, ParseInv, [Next]_vars PROVE ParseInv'
    OBVIOUS
  <2>1. CASE Parse
    BY <2>1, ParseParses
  <2>2. CASE Join
    <3>1. PICK refused : JoinedAs(tables.name, JoinedName(tables.name, Right),
                                  SourcesOf(tables.name, Right), refused)
      BY <2>2, JoinSteps
    <3>2. clean' = (clean /\ refused = {})
      BY <3>1 DEF JoinedAs
    <3>3. stage = "join" /\ UNCHANGED <<input, parsed>>
      BY <2>2 DEF Join
    <3>4. Parses' => Parses
      BY <3>2, <3>3 DEF Parses
    <3> QED
      BY <3>3, <3>4, ParseKept
  <2>3. CASE JoinUnknown \/ Load \/ Filter \/ Collected \/ Sort \/ Output \/ Finished \/ UNCHANGED vars
    <3>1. UNCHANGED <<input, parsed>> /\ (stage' = "parse" \/ stage # "parse" \/ stage' = stage)
      BY <2>3 DEF JoinUnknown, Load, Filter, Collected, Sort, Output, Finished, vars
    <3>clean. clean' => clean
      <4>1. CASE Output
        BY <4>1, OutputClean
      <4>2. CASE JoinUnknown \/ Load \/ Filter \/ Collected \/ Sort \/ Finished \/ UNCHANGED vars
        BY <4>2 DEF JoinUnknown, Load, Filter, Collected, Sort, Finished, vars
      <4> QED
        BY <2>3, <4>1, <4>2
    <3>2. Parses' => Parses
      BY <3>1, <3>clean DEF Parses
    <3> QED
      BY <3>1, <3>2, ParseKept
  <2> QED
    BY <2>1, <2>2, <2>3 DEF Next
<1> QED
  BY <1>1, <1>2, TypeInvariance, PTL DEF Spec

\* What is parsed is what is meant, by rows of which it is known what the
\* tests say.
LEMMA ParsedAsMeant ==
    ASSUME AsksOfColumns, input \in Inputs, ParseInv, Parses, Unspaced(query.alternatives),
           NEW read, NEW W,
           query.alternatives # <<>> => TestsAnswered(query.alternatives, query.columns, read, W)
    PROVE  /\ Understood(query.alternatives) =>
                 /\ IsProper(parsed)
                 /\ \A row \in W : Evaluate(parsed.tree, read, row) = Outcome(Meant(row))
           /\ ~Understood(query.alternatives) => ~IsProper(parsed)
<1>1. PICK alternatives, columns, p : alternatives = query.alternatives /\ columns = query.columns /\ p = parsed
  OBVIOUS
<1>2. CASE alternatives = <<>>
  <2>1. p = ParseConditional(Tokens(<<Word("true")>>))
    BY <1>1, <1>2 DEF ParseInv, Text
  <2>2. IsProper(p) /\ \A row : Evaluate(p.tree, read, row) = Outcome(TRUE)
    BY <2>1, TruthParsed
  <2>3. Understood(alternatives)
    <3>1. Len(alternatives) = 0
      BY <1>2, EmptySequence
    <3> QED
      BY <1>1, <3>1 DEF Understood
  <2>4. \A row : Meant(row)
    BY <1>1, <1>2 DEF Meant
  <2> QED
    BY <1>1, <2>2, <2>3, <2>4 DEF Outcome
<1>3. CASE alternatives # <<>>
  <2>1. IsMeant(alternatives, columns) /\ Unspaced(alternatives)
    BY <1>1, <1>3 DEF AsksOfColumns, query
  <2>2. IsSequence(Spelling(alternatives, columns))
    BY <2>1, ConditionSpelt
  <2>3. p = ParseConditional(Tokens(Spelling(alternatives, columns)))
    <3>1. Text(<<>>) = <<>> \o Spelling(alternatives, columns)
      BY <1>1, <1>3 DEF Text
    <3>2. <<>> \o Spelling(alternatives, columns) = Spelling(alternatives, columns)
      BY <2>2, ConcatEmpty
    <3> QED
      BY <1>1, <3>1, <3>2 DEF ParseInv
  <2>4. TestsAnswered(alternatives, columns, read, W)
    BY <1>1, <1>3
  <2>5. /\ Understood(alternatives) =>
              /\ IsProper(p)
              /\ Answers(p.tree, read, W, {row \in W : Meaning(alternatives, columns, row)})
        /\ ~Understood(alternatives) => ~IsProper(p)
    BY <2>1, <2>3, <2>4, ConditionParsed
  <2>6. \A row : Meant(row) <=> Meaning(alternatives, columns, row)
    BY <1>1, <1>3 DEF Meant
  <2>7. ASSUME Understood(alternatives), NEW row \in W
        PROVE  Evaluate(p.tree, read, row) = Outcome(Meant(row))
    <3>1. Evaluate(p.tree, read, row) = Outcome(row \in {r \in W : Meaning(alternatives, columns, r)})
      BY <2>5, <2>7 DEF Answers
    <3>2. row \in {r \in W : Meaning(alternatives, columns, r)} <=> Meant(row)
      BY <2>6
    <3> QED
      BY <3>1, <3>2 DEF Outcome
  <2> QED
    BY <1>1, <2>5, <2>7
<1> QED
  BY <1>2, <1>3

\* A condition of any number of alternatives and tests of which only the first
\* alternative has an "and", without spaces around its relations, is parsed
\* into a tree without a NULL.
THEOREM UnderstoodParsed ==
    ASSUME AsksOfColumns
    PROVE  Spec => []UnderstoodIsParsed
<1>1. TypeInv /\ ParseInv => UnderstoodIsParsed
  <2> SUFFICES ASSUME TypeInv, ParseInv, Parses, Understood(query.alternatives)
               PROVE  IsProper(parsed)
    BY DEF UnderstoodIsParsed
  <2>1. input \in Inputs /\ Unspaced(query.alternatives)
    BY DEF TypeInv, Shapes, Understood
  <2>2. TestsAnswered(query.alternatives, query.columns, query.columns, {})
    <3>1. \A i \in 1 .. Len(query.alternatives) : \A j \in 1 .. Len(query.alternatives[i]) :
              IsLeaf(NodeOf(query.alternatives[i][j], query.columns))
      BY NodeIsLeaf
    <3> QED
      BY <3>1 DEF TestsAnswered, LeafAnswers
  <2> QED
    BY <2>1, <2>2, ParsedAsMeant
<1> QED
  BY <1>1, TypeInvariance, ParsesText, PTL

-----------------------------------------------------------------------------
(* The columns of the table that is read are those that the query is about. *)

ColumnsInv ==
    /\ stage \in {"parse", "join"} /\ tables.joined = 1 =>
          tables.name = query.names[1] /\ catalog = input.catalog
    /\ stage = "join" \/ Loads =>
          /\ \A k \in 1 .. tables.joined : query.names[k] \in DOMAIN input.catalog
          /\ tables.joined = Len(query.names) => catalog[tables.name] = ColumnsRead(input)
    /\ Loads => tables.joined = Len(query.names)

LEMMA JoinColumns ==
    ASSUME AtMostTwo, TypeInv, ColumnsInv, Join
    PROVE  ColumnsInv'
<1> DEFINE left == tables.name
           j == tables.joined
<1>1. stage = "join" /\ stage' = stage /\ input' = input /\ j < Len(query.names) /\ Right \in DOMAIN catalog
  BY DEF Join
<1>2. Len(query.names) = 2 /\ j = 1
  <2>1. PICK n, m : n = Len(query.names) /\ m = j
    OBVIOUS
  <2>2. n \in {1, 2} /\ m \in {1, 2} /\ m < n
    BY <1>1, <2>1, NamesFacts
  <2>3. n = 2 /\ m = 1
    BY ONLY <2>2
  <2> QED
    BY <2>1, <2>3
<1>3. /\ left = query.names[1] /\ Right = query.names[2] /\ catalog = input.catalog
      /\ query.names[1] \in DOMAIN input.catalog
  <2>1. 1 \in 1 .. j
    BY <1>2
  <2> QED
    BY <1>1, <1>2, <2>1 DEF ColumnsInv, Right
<1>4. PICK name : name = JoinedName(left, Right)
  OBVIOUS
<1>5. PICK refused : JoinedAs(left, name, SourcesOf(left, Right), refused)
  BY <1>4, JoinSteps
<1>6. /\ catalog' = With(Dropped(catalog, name), name, JoinedColumns(left, Right))
      /\ tables' = [name |-> name, joined |-> j + 1]
  BY <1>5 DEF JoinedAs
<1>7. tables'.name = name /\ tables'.joined = 2
  BY <1>2, <1>6
<1>8. JoinedColumns(left, Right) = ColumnsRead(input)
  <2>1. PICK l, r : l = left /\ r = Right
    OBVIOUS
  <2>2. Len(input.query.names) = 2 /\ input.query.names[1] = l /\ input.query.names[2] = r
    BY <1>2, <1>3, <2>1 DEF query
  <2>3. JoinedColumns(l, r) = ColumnsRead(input)
    BY <1>3, <2>2 DEF JoinedColumns, ColumnsRead
  <2> QED
    BY <2>1, <2>3
<1>9. catalog'[name] = ColumnsRead(input)
  <2>1. PICK columns, f : columns = JoinedColumns(left, Right) /\ f = Dropped(catalog, name)
    OBVIOUS
  <2>2. With(f, name, columns)[name] = columns
    BY DEF With
  <2> QED
    BY <1>6, <1>8, <2>1, <2>2
<1>10. query' = query /\ ColumnsRead(input)' = ColumnsRead(input)
  BY <1>1 DEF query, ColumnsRead
<1>11. \A k \in 1 .. 2 : query.names[k] \in DOMAIN input.catalog
  <2>1. \A k \in 1 .. 2 : k = 1 \/ k = 2
    OBVIOUS
  <2> QED
    BY <1>1, <1>3, <2>1
<1> QED
  BY <1>1, <1>2, <1>7, <1>9, <1>10, <1>11 DEF ColumnsInv, Loads

LEMMA OtherColumns ==
    ASSUME TypeInv, ColumnsInv,
           Parse \/ JoinUnknown \/ Load \/ Filter \/ Collected \/ Sort \/ Output \/ Finished \/ UNCHANGED vars
    PROVE  ColumnsInv'
<1>1. UNCHANGED <<input, catalog, tables>>
  BY DEF Parse, JoinUnknown, Load, Filter, Collected, Sort, Output, Finished, vars
<1>2. query' = query /\ ColumnsRead(input)' = ColumnsRead(input)
  BY <1>1 DEF query, ColumnsRead
<1>3. CASE Parse
  <2>1. stage = "parse" /\ stage' \in {"join", "refused", "crashed"}
        /\ (stage' = "join" => query.names[1] \in DOMAIN catalog)
    BY <1>3 DEF Parse
  <2>2. tables.joined = 1 /\ tables.name = query.names[1] /\ catalog = input.catalog
    BY <2>1 DEF TypeInv, Joining, ColumnsInv
  <2>3. \A k \in 1 .. tables.joined : k = 1
    BY <2>2
  <2>4. tables.joined = Len(query.names) => catalog[tables.name] = ColumnsRead(input)
    BY <2>2 DEF ColumnsRead, query
  <2> QED
    BY <1>1, <1>2, <2>1, <2>2, <2>3, <2>4 DEF ColumnsInv, Loads
<1>4. CASE JoinUnknown \/ Load \/ Filter \/ Collected \/ Sort \/ Output
  <2>1. /\ stage = "join" \/ Loads
        /\ stage' \in {"filter", "sort", "done", "crashed"}
        /\ stage' = "crashed" \/ tables.joined = Len(query.names)
    BY <1>4 DEF ColumnsInv, JoinUnknown, Load, Filter, Collected, Sort, Output, Loads
  <2> QED
    BY <1>1, <1>2, <2>1 DEF ColumnsInv, Loads
<1>5. CASE Finished \/ UNCHANGED vars
  <2>1. stage' = stage
    BY <1>5 DEF Finished, vars
  <2> QED
    BY <1>1, <1>2, <2>1 DEF ColumnsInv, Loads
<1> QED
  BY <1>3, <1>4, <1>5

\* The columns that the records are read by are those of the tables that the
\* statement names, as they were when it was typed.
THEOREM ReadsItsColumns ==
    ASSUME AtMostTwo
    PROVE  Spec => []ColumnsInv
<1>1. Init => ColumnsInv
  BY DEF Init, ColumnsInv, Loads, query
<1>2. TypeInv /\ ColumnsInv /\ [Next]_vars => ColumnsInv'
  <2> SUFFICES ASSUME TypeInv, ColumnsInv, [Next]_vars PROVE ColumnsInv'
    OBVIOUS
  <2>1. CASE Join
    BY <2>1, JoinColumns
  <2>2. CASE Parse \/ JoinUnknown \/ Load \/ Filter \/ Collected \/ Sort \/ Output \/ Finished \/ UNCHANGED vars
    BY <2>2, OtherColumns
  <2> QED
    BY <2>1, <2>2 DEF Next
<1> QED
  BY <1>1, <1>2, TypeInvariance, PTL DEF Spec

\* What is supposed of the statements: what they ask is of their tables.
OfTheirTables == AsksOfColumns /\ \A i \in Inputs : IsOfItsTables(i)

\* The records are read by the columns that the query is about, and its tests
\* can be answered.
ReadsAsAsked(columns) ==
    /\ columns = query.columns /\ IsSequence(columns) /\ columns # <<>>
    /\ \A c \in 1 .. Len(columns) : columns[c].type \in {"INTEGER", "DOUBLE", "BOOL", "CHAR", "VARCHAR"}
    /\ TablesKnown(input)
    /\ \A i \in 1 .. Len(query.alternatives) : \A j \in 1 .. Len(query.alternatives[i]) :
          query.alternatives # <<>> =>
              /\ query.alternatives[i][j] \in TestsOf(query.alternatives)
              /\ IsTest(query.alternatives[i][j], columns) /\ IsAnswerable(query.alternatives[i][j], columns)

LEMMA ReadAsAsked ==
    ASSUME OfTheirTables, TypeInv, ColumnsInv, Loads
    PROVE  ReadsAsAsked(catalog[tables.name])
<1>1. PICK columns, alternatives : columns = catalog[tables.name] /\ alternatives = query.alternatives
  OBVIOUS
<1>2. input \in Inputs /\ IsOfItsTables(input) /\ tables.name \in DOMAIN catalog
  BY DEF OfTheirTables, TypeInv, Shapes, Joining, Loads
<1>3. IsColumns(columns)
  BY <1>1, <1>2 DEF TypeInv, Shapes, StoreFits
<1>4. TablesKnown(input) /\ columns = ColumnsRead(input)
  BY <1>1 DEF ColumnsInv, Loads, TablesKnown, query
<1>5. columns = query.columns /\ \A test \in TestsOf(alternatives) : IsAnswerable(test, columns)
  BY <1>1, <1>2, <1>4 DEF IsOfItsTables, query
<1>6. \A c \in 1 .. Len(columns) : columns[c].type \in {"INTEGER", "DOUBLE", "BOOL", "CHAR", "VARCHAR"}
  BY <1>3 DEF IsColumns, IsColumn
<1>7. ASSUME alternatives # <<>>, NEW i \in 1 .. Len(alternatives), NEW j \in 1 .. Len(alternatives[i])
      PROVE  /\ alternatives[i][j] \in TestsOf(alternatives)
             /\ IsTest(alternatives[i][j], columns)
  <2>1. IsMeant(alternatives, columns)
    BY <1>1, <1>2, <1>5, <1>7 DEF OfTheirTables, AsksOfColumns, query
  <2>2. IsTests(alternatives[i], columns) /\ DOMAIN alternatives = 1 .. Len(alternatives)
    BY <2>1, SequenceFacts DEF IsMeant
  <2>3. DOMAIN alternatives[i] = 1 .. Len(alternatives[i]) /\ IsTest(alternatives[i][j], columns)
    BY <2>2, SequenceFacts DEF IsTests
  <2>4. alternatives[i][j] \in Range(alternatives[i])
    BY <2>3 DEF Range
  <2> QED
    BY <2>2, <2>3, <2>4 DEF TestsOf
<1> QED
  BY <1>1, <1>3, <1>4, <1>5, <1>6, <1>7 DEF ReadsAsAsked, IsColumns

\* A condition without spaces around its relations is rejected, as a tree with
\* a NULL or by a crash, or its tree answers for every record that has only
\* values as the condition is meant, on a table or on a join.
THEOREM NothingMisread ==
    ASSUME OfTheirTables
    PROVE  Spec => []NeverMisread
<1>1. TypeInv /\ ParseInv /\ ColumnsInv => NeverMisread
  <2> SUFFICES ASSUME TypeInv, ParseInv, ColumnsInv,
                      Parses, Loads, IsProper(parsed), Unspaced(query.alternatives),
                      NEW i \in DOMAIN page, Unset \notin Range(page[i])
               PROVE  Evaluate(parsed.tree, catalog[tables.name], page[i]) = Outcome(Meant(page[i]))
    BY DEF NeverMisread
  <2>1. PICK columns, row : columns = catalog[tables.name] /\ row = page[i]
    OBVIOUS
  <2>2. ReadsAsAsked(columns)
    BY <2>1, ReadAsAsked
  <2>3. \A c \in 1 .. Len(columns) : row[c] # Unset
    <3>1. i \in 1 .. Len(page) /\ IsRow(row, columns, Ordered)
      BY <2>1, SequenceFacts DEF TypeInv, Records
    <3>2. DOMAIN row = 1 .. Len(columns)
      BY <3>1 DEF IsRow
    <3> QED
      BY <2>1, <3>2 DEF Range
  <2>4. query.alternatives # <<>> => TestsAnswered(query.alternatives, query.columns, columns, {row})
    <3> SUFFICES ASSUME query.alternatives # <<>>
                 PROVE  TestsAnswered(query.alternatives, columns, columns, {row})
      BY <2>2 DEF ReadsAsAsked
    <3>1. PICK alternatives : alternatives = query.alternatives
      OBVIOUS
    <3>2. IsMeant(alternatives, columns)
      BY <2>2, <3>1 DEF OfTheirTables, AsksOfColumns, query, TypeInv, Shapes, ReadsAsAsked
    <3>3. ASSUME NEW k \in 1 .. Len(alternatives), NEW j \in 1 .. Len(alternatives[k])
          PROVE  /\ IsAnswerable(alternatives[k][j], columns)
                 /\ \A r \in {row} : FindsValues(alternatives[k][j], r)
      <4>1. PICK test : test = alternatives[k][j]
        OBVIOUS
      <4>2. IsAnswerable(test, columns) /\ IsTest(test, columns)
        BY <2>2, <3>1, <4>1 DEF ReadsAsAsked
      <4>3. FindsValues(test, row)
        BY <2>3, <4>2 DEF IsTest, FindsValues
      <4> QED
        BY <4>1, <4>2, <4>3
    <3>4. /\ IsSequence(columns)
          /\ \A c \in 1 .. Len(columns) : columns[c].type \in {"INTEGER", "DOUBLE", "BOOL", "CHAR", "VARCHAR"}
      BY <2>2 DEF ReadsAsAsked
    <3> QED
      BY <3>1, <3>2, <3>3, <3>4, AllTestsAnswered
  <2>5. /\ Understood(query.alternatives) =>
              \A r \in {row} : Evaluate(parsed.tree, columns, r) = Outcome(Meant(r))
        /\ ~Understood(query.alternatives) => ~IsProper(parsed)
    <3>1. AsksOfColumns /\ input \in Inputs
      BY DEF OfTheirTables, TypeInv, Shapes
    <3> QED
      BY <2>4, <3>1, ParsedAsMeant
  <2> QED
    BY <2>1, <2>5
<1>2. AtMostTwo
  BY DEF OfTheirTables, AtMostTwo, IsOfItsTables
<1> QED
  BY <1>1, <1>2, TypeInvariance, ParsesText, ReadsItsColumns, PTL

-----------------------------------------------------------------------------
(* The answer: the records that pass, in any order, and each once.          *)

\* The place that a record at place i comes from when record n goes to p.
CameFrom(n, p, i) == IF i = p THEN n ELSE IF i \in p + 1 .. n THEN i - 1 ELSE i

MovesEach(records, n, p, l, new) ==
    /\ \A i \in 1 .. l : CameFrom(n, p, i) \in 1 .. l /\ new[i] = records[CameFrom(n, p, i)]
    /\ \A i, k \in 1 .. l : CameFrom(n, p, i) = CameFrom(n, p, k) => i = k
    /\ \A j \in 1 .. l : \E i \in 1 .. l : CameFrom(n, p, i) = j

LEMMA MovedFrom ==
    ASSUME NEW records, NEW new, NEW n, NEW p, NEW l, l = Len(records), l \in Nat,
           n \in 1 .. l, p \in 1 .. n, MovedTo(records, n, p, new)
    PROVE  MovesEach(records, n, p, l, new)
<1>1. ASSUME NEW i \in 1 .. l PROVE CameFrom(n, p, i) \in 1 .. l /\ new[i] = records[CameFrom(n, p, i)]
  <2>1. CASE i = p
    BY <2>1 DEF CameFrom, MovedTo
  <2>2. CASE i \in p + 1 .. n
    <3>1. i # p /\ i - 1 \in 1 .. l /\ CameFrom(n, p, i) = i - 1
      BY <2>2 DEF CameFrom
    <3> QED
      BY <2>2, <3>1 DEF MovedTo
  <2>3. CASE i \in 1 .. p - 1 \/ i \in n + 1 .. l
    <3>1. CameFrom(n, p, i) = i
      BY <2>3 DEF CameFrom
    <3> QED
      BY <2>3, <3>1 DEF MovedTo
  <2> QED
    BY <2>1, <2>2, <2>3
<1>2. \A i, k \in 1 .. l : CameFrom(n, p, i) = CameFrom(n, p, k) => i = k
  BY DEF CameFrom
<1>3. ASSUME NEW j \in 1 .. l PROVE \E i \in 1 .. l : CameFrom(n, p, i) = j
  <2>1. CASE j = n
    <3>1. p \in 1 .. l /\ CameFrom(n, p, p) = j
      BY <2>1 DEF CameFrom
    <3> QED
      BY <3>1
  <2>2. CASE j \in p .. n - 1
    <3>1. j + 1 \in 1 .. l /\ CameFrom(n, p, j + 1) = j
      BY <2>2 DEF CameFrom
    <3> QED
      BY <3>1
  <2>3. CASE j \in 1 .. p - 1 \/ j \in n + 1 .. l
    <3>1. CameFrom(n, p, j) = j
      BY <2>3 DEF CameFrom
    <3> QED
      BY <3>1
  <2> QED
    BY <2>1, <2>2, <2>3
<1> QED
  BY <1>1, <1>2, <1>3 DEF MovesEach

\* Moving a record loses none and copies none.
LEMMA MovedOnlyMoves ==
    ASSUME NEW records, IsSequence(records), NEW n \in 1 .. Len(records)
    PROVE  /\ Range(Moved(records, n)) = Range(records)
           /\ IsInjective(records) => IsInjective(Moved(records, n))
<1>1. PICK p : IsPlace(records, n, p) /\ MovedTo(records, n, p, Moved(records, n))
  BY MovedFacts
<1>2. PICK new, l : new = Moved(records, n) /\ l = Len(records)
  OBVIOUS
<1>3. MovedTo(records, n, p, new) /\ l \in Nat /\ n \in 1 .. l /\ p \in 1 .. n
  BY <1>1, <1>2, SequenceFacts DEF IsPlace
<1>4. DOMAIN new = 1 .. l /\ DOMAIN records = 1 .. l
  BY <1>2, <1>3, SequenceFacts DEF MovedTo
<1>5. /\ \A i \in 1 .. l : CameFrom(n, p, i) \in 1 .. l /\ new[i] = records[CameFrom(n, p, i)]
      /\ \A i, k \in 1 .. l : CameFrom(n, p, i) = CameFrom(n, p, k) => i = k
      /\ \A j \in 1 .. l : \E i \in 1 .. l : CameFrom(n, p, i) = j
  <2>1. MovesEach(records, n, p, l, new)
    BY <1>2, <1>3, MovedFrom
  <2> QED
    BY <2>1 DEF MovesEach
<1>6. Range(new) = Range(records)
  <2>1. ASSUME NEW v \in Range(new) PROVE v \in Range(records)
    BY <1>4, <1>5 DEF Range
  <2>2. ASSUME NEW v \in Range(records) PROVE v \in Range(new)
    <3>1. PICK j \in 1 .. l : v = records[j]
      BY <1>4 DEF Range
    <3>2. PICK i \in 1 .. l : CameFrom(n, p, i) = j
      BY <1>5
    <3>3. new[i] = v
      BY <1>5, <3>1, <3>2
    <3> QED
      BY <1>4, <3>3 DEF Range
  <2> QED
    BY <2>1, <2>2
<1>7. ASSUME IsInjective(records) PROVE IsInjective(new)
  <2>1. ASSUME NEW i \in 1 .. l, NEW k \in 1 .. l, new[i] = new[k] PROVE i = k
    <3>1. records[CameFrom(n, p, i)] = records[CameFrom(n, p, k)]
      BY <1>5, <2>1
    <3>2. CameFrom(n, p, i) = CameFrom(n, p, k)
      BY <1>4, <1>5, <1>7, <3>1 DEF IsInjective
    <3> QED
      BY <1>5, <3>2
  <2> QED
    BY <1>4, <2>1 DEF IsInjective
<1> QED
  BY <1>2, <1>6, <1>7

\* What passes is added at the end, once.
LEMMA AppendedOnce ==
    ASSUME NEW s, IsSequence(s), IsInjective(s), NEW r, r \notin Range(s)
    PROVE  IsInjective(Append(s, r)) /\ Range(Append(s, r)) = Range(s) \cup {r}
<1>1. PICK t, l : t = Append(s, r) /\ l = Len(s)
  OBVIOUS
<1>2. l \in Nat /\ DOMAIN s = 1 .. l
  BY <1>1, SequenceFacts
<1>3. /\ IsSequence(t) /\ Len(t) = l + 1 /\ DOMAIN t = 1 .. l + 1
      /\ \A i \in 1 .. l : t[i] = s[i]
      /\ t[l + 1] = r
  <2>1. /\ IsSequence(t) /\ Len(t) = l + 1
        /\ \A i \in 1 .. l : t[i] = s[i]
        /\ t[l + 1] = r
    BY <1>1, AppendFacts
  <2> QED
    BY <2>1, SequenceFacts
<1>4. ASSUME NEW i \in 1 .. l + 1, NEW k \in 1 .. l + 1, t[i] = t[k] PROVE i = k
  <2>1. \A m \in 1 .. l : t[m] \in Range(s) /\ t[m] # r
    BY <1>2, <1>3 DEF Range
  <2>2. CASE i \in 1 .. l /\ k \in 1 .. l
    BY <1>2, <1>3, <1>4, <2>2 DEF IsInjective
  <2>3. CASE i = l + 1 \/ k = l + 1
    <3>1. i = l + 1 \/ i \in 1 .. l
      BY <1>2
    <3>2. k = l + 1 \/ k \in 1 .. l
      BY <1>2
    <3> QED
      BY <1>3, <1>4, <2>1, <2>3, <3>1, <3>2
  <2> QED
    BY <1>2, <2>2, <2>3
<1>5. IsInjective(t)
  BY <1>3, <1>4 DEF IsInjective
<1>6. Range(t) = Range(s) \cup {r}
  <2>1. \A i \in 1 .. l + 1 : i = l + 1 \/ i \in 1 .. l
    BY <1>2
  <2>2. \A i \in 1 .. l : i \in 1 .. l + 1
    BY <1>2
  <2>3. l + 1 \in 1 .. l + 1
    BY <1>2
  <2> QED
    BY <1>2, <1>3, <2>1, <2>2, <2>3 DEF Range
<1> QED
  BY <1>1, <1>5, <1>6

LEMMA TailFacts ==
    ASSUME NEW s, IsSequence(s), NEW n, n = Len(s), n > 0
    PROVE  /\ IsSequence(Tail(s)) /\ Len(Tail(s)) = n - 1
           /\ \A i \in 1 .. n - 1 : Tail(s)[i] = s[i + 1]
<1>1. s \in Seq(Range(s)) /\ n \in Nat
  BY SequenceFacts
<1>2. PICK S : s \in Seq(S)
  BY <1>1
<1>3. s # <<>>
  BY EmptySequence
<1>4. Tail(s) \in Seq(S) /\ Len(Tail(s)) = n - 1 /\ \A i \in 1 .. n - 1 : Tail(s)[i] = s[i + 1]
  BY <1>1, <1>2, <1>3
<1>5. IsSequence(Tail(s))
  BY <1>4, SequenceOf
<1> QED
  BY <1>4, <1>5

\* A row of the product with a number, if it is one of a join.
AsRead(r) == IF Len(query.names) = 1 THEN r ELSE <<0>> \o r

ReadBack(row, n) ==
    /\ Values(AsRead(Values(row))) = Values(row)
    /\ \A c \in 1 .. n : IsOfTable(input, c) =>
          AsRead(Values(row))[c] = row[c] /\ row[c] \in Range(Values(row))

\* But for its number a row of a join is that of the product.
LEMMA RowReadBack ==
    ASSUME NEW row, NEW n, IsSequence(row), n = Len(row), n > 0
    PROVE  ReadBack(row, n)
<1>1. n \in Nat /\ DOMAIN row = 1 .. n
  BY SequenceFacts
<1>2. CASE Len(query.names) = 1
  <2>1. Values(row) = row /\ AsRead(row) = row
    BY <1>2 DEF Values, AsRead
  <2>2. \A c \in 1 .. n : row[c] \in Range(row)
    BY <1>1 DEF Range
  <2> QED
    BY <2>1, <2>2 DEF ReadBack
<1>3. CASE Len(query.names) # 1
  <2>1. PICK t, zero, s : t = Tail(row) /\ zero = <<0>> /\ s = zero \o t
    OBVIOUS
  <2>2. Values(row) = t /\ AsRead(t) = s /\ Values(s) = Tail(s)
    BY <1>3, <2>1 DEF Values, AsRead
  <2>3. IsSequence(t) /\ Len(t) = n - 1 /\ \A i \in 1 .. n - 1 : t[i] = row[i + 1]
    BY <2>1, TailFacts
  <2>4. IsSequence(zero) /\ Len(zero) = 1
    BY <2>1, SingleSequence
  <2>5. /\ IsSequence(s) /\ Len(s) = Len(zero) + Len(t)
        /\ \A i \in 1 .. Len(t) : s[Len(zero) + i] = t[i]
    BY <2>1, <2>3, <2>4, ConcatFacts
  <2>6. Len(s) = n /\ \A i \in 1 .. n - 1 : s[1 + i] = t[i]
    BY <1>1, <2>3, <2>4, <2>5
  <2>7. IsSequence(Tail(s)) /\ Len(Tail(s)) = n - 1 /\ \A i \in 1 .. n - 1 : Tail(s)[i] = s[i + 1]
    BY <2>5, <2>6, TailFacts
  <2>8. Tail(s) = t
    <3>1. PICK u : u = Tail(s)
      OBVIOUS
    <3>2. IsSequence(u) /\ Len(u) = Len(t) /\ \A i \in 1 .. Len(u) : u[i] = t[i]
      BY <1>1, <2>3, <2>6, <2>7, <3>1
    <3> QED
      BY <2>3, <3>1, <3>2, SameSequence
  <2>9. ASSUME NEW c \in 1 .. n, IsOfTable(input, c) PROVE s[c] = row[c] /\ row[c] \in Range(t)
    <3>1. c # 1
      BY <1>3, <2>9 DEF IsOfTable, query
    <3>2. PICK i : i = c - 1
      OBVIOUS
    <3>3. i \in 1 .. n - 1 /\ 1 + i = c /\ i + 1 = c
      BY <1>1, <3>1, <3>2
    <3>4. s[c] = t[i] /\ t[i] = row[c]
      BY <2>3, <2>6, <3>3
    <3>5. i \in DOMAIN t
      BY <2>3, <3>3, SequenceFacts
    <3> QED
      BY <3>4, <3>5 DEF Range
  <2> QED
    BY <2>2, <2>8, <2>9 DEF ReadBack
<1> QED
  BY <1>2, <1>3

\* What is supposed of the statements that AnswersQuery is proved of.
PlainStatements == OfTheirTables /\ TwoTables /\ \A i \in Inputs : IsPlain(i)

LEMMA HeldWritten ==
    ASSUME input \in Inputs, IsPlain(input), TablesKnown(input), NEW n \in DOMAIN input.catalog
    PROVE  \A r \in Range(Held(n)) : IsSequence(r) /\ Unset \notin Range(r)
<1>1. WellFormed(input)
  BY SelectAssumption
<1>2. PICK w, columns, pages : w = Ordered /\ columns = input.catalog[n] /\ pages = HeldPages(input, n)
  OBVIOUS
<1>3. IsColumns(columns) /\ IsPages(pages, columns, w)
  <2>1. IsPages(<<>>, columns, w)
    BY NoPages
  <2> QED
    BY <1>1, <1>2, <2>1 DEF WellFormed, HeldPages, InFile, Ordered, query
<1>4. AllSequences(Range(FlattenSeq(pages)), Len(columns))
  BY <1>3, PagesFacts
<1> QED
  BY <1>2, <1>4 DEF AllSequences, Held, IsPlain

LEMMA ProductWritten ==
    ASSUME input \in Inputs, IsPlain(input), TablesKnown(input), Len(query.names) \in {1, 2}
    PROVE  \A r \in Product : Unset \notin Range(r)
<1>1. PICK a, b : a = query.names[1] /\ b = query.names[2]
  OBVIOUS
<1>2. CASE Len(query.names) = 1
  <2>1. a \in DOMAIN input.catalog
    BY <1>1, <1>2 DEF TablesKnown, query
  <2>2. PICK held : held = Range(Held(a))
    OBVIOUS
  <2>3. Product = held
    BY <1>1, <1>2, <2>2 DEF Product
  <2>4. \A r \in held : Unset \notin Range(r)
    BY <2>1, <2>2, HeldWritten
  <2> QED
    BY <2>3, <2>4
<1>3. CASE Len(query.names) = 2
  <2>1. a \in DOMAIN input.catalog /\ b \in DOMAIN input.catalog
    BY <1>1, <1>3 DEF TablesKnown, query
  <2>2. Product = {r \o s : r \in Range(Held(a)), s \in Range(Held(b))}
    BY <1>1, <1>3 DEF Product
  <2>3. ASSUME NEW r \in Range(Held(a)), NEW s \in Range(Held(b)) PROVE Unset \notin Range(r \o s)
    <3>1. IsSequence(r) /\ Unset \notin Range(r) /\ IsSequence(s) /\ Unset \notin Range(s)
      BY <2>1, HeldWritten
    <3>2. PICK u : u = r \o s
      OBVIOUS
    <3>3. /\ IsSequence(u) /\ Len(u) = Len(r) + Len(s)
          /\ \A i \in 1 .. Len(r) : u[i] = r[i]
          /\ \A i \in 1 .. Len(s) : u[Len(r) + i] = s[i]
      BY <3>1, <3>2, ConcatFacts
    <3>4. /\ DOMAIN u = 1 .. Len(u) /\ DOMAIN r = 1 .. Len(r) /\ DOMAIN s = 1 .. Len(s)
          /\ Len(r) \in Nat /\ Len(s) \in Nat
      BY <3>1, <3>3, SequenceFacts
    <3>5. ASSUME NEW i \in 1 .. Len(u) PROVE u[i] # Unset
      <4>1. CASE i \in 1 .. Len(r)
        BY <3>1, <3>3, <3>4, <4>1 DEF Range
      <4>2. CASE i \notin 1 .. Len(r)
        <5>1. PICK j : j = i - Len(r)
          OBVIOUS
        <5>2. j \in 1 .. Len(s) /\ Len(r) + j = i
          BY <3>3, <3>4, <4>2, <5>1
        <5>3. u[i] = s[j]
          BY <3>3, <5>2
        <5> QED
          BY <3>1, <3>4, <5>2, <5>3 DEF Range
      <4> QED
        BY <4>1, <4>2
    <3> QED
      BY <3>2, <3>4, <3>5 DEF Range
  <2>4. ASSUME NEW u \in Product PROVE Unset \notin Range(u)
    <3>1. PICK r \in Range(Held(a)), s \in Range(Held(b)) : u = r \o s
      BY <2>2
    <3>2. PICK x, y : x = r /\ y = s
      OBVIOUS
    <3>3. Unset \notin Range(x \o y)
      BY <2>3, <3>2
    <3> QED
      BY <3>1, <3>2, <3>3
  <2> QED
    BY <2>4
<1> QED
  BY <1>2, <1>3

\* The query can be answered from the records alone.
Clear ==
    /\ clean /\ ReadsWhatIsHeld /\ Understood(query.alternatives)
    /\ OneLeftPage \/ Len(query.names) = 1

PageAnswers ==
    /\ IsInjective(page) /\ IsSequence(page)
    /\ Product = {Values(page[k]) : k \in 1 .. Len(page)}
    /\ \A k, l \in 1 .. Len(page) : Values(page[k]) = Values(page[l]) => k = l
    /\ \A k \in 1 .. Len(page) :
          /\ IsSequence(page[k]) /\ Len(page[k]) = Len(catalog[tables.name]) /\ Len(page[k]) > 0
          /\ Evaluate(parsed.tree, catalog[tables.name], page[k]) = Outcome(Meant(page[k]))
          /\ Meant(AsRead(Values(page[k]))) <=> Meant(page[k])

LEMMA PageIsAnswered ==
    ASSUME PlainStatements, TypeInv, ParseInv, JoinInv, ColumnsInv, Clear, Loads
    PROVE  PageAnswers
<1>1. PICK columns, alternatives : columns = catalog[tables.name] /\ alternatives = query.alternatives
  OBVIOUS
<1>2. /\ input \in Inputs /\ IsPlain(input) /\ TablesKnown(input) /\ IsSequence(page)
      /\ ReadsAsAsked(columns)
  <2>1. ReadsAsAsked(catalog[tables.name])
    BY ReadAsAsked DEF PlainStatements
  <2> QED
    BY <1>1, <2>1 DEF PlainStatements, TypeInv, Shapes, Records, ReadsAsAsked
<1>3. PICK m : m = Len(page)
  OBVIOUS
<1>4. m \in Nat /\ DOMAIN page = 1 .. m
  BY <1>2, <1>3, SequenceFacts
<1>5. PICK values : values = [i \in DOMAIN page |-> Values(page[i])]
  OBVIOUS
<1>6. IsInjective(values) /\ Range(values) = Product
  BY <1>5 DEF Clear, JoinInv, PairsOnce
<1>7. DOMAIN values = 1 .. m /\ \A k \in 1 .. m : values[k] = Values(page[k])
  BY <1>4, <1>5
<1>8. \A k, l \in 1 .. m : Values(page[k]) = Values(page[l]) => k = l
  BY <1>6, <1>7 DEF IsInjective
<1>9. IsInjective(page)
  BY <1>4, <1>8 DEF IsInjective
<1>10. Product = {Values(page[k]) : k \in 1 .. m}
  BY <1>6, <1>7 DEF Range
<1>11. ASSUME NEW k \in 1 .. m
       PROVE  IsSequence(page[k]) /\ Len(page[k]) = Len(columns) /\ Len(page[k]) > 0
  <2>1. IsRow(page[k], columns, Ordered) /\ tables.name \in DOMAIN catalog
    BY <1>1, <1>3 DEF TypeInv, Records, Joining, Loads
  <2>2. IsColumns(columns)
    BY <1>1, <2>1 DEF TypeInv, Shapes, StoreFits
  <2>3. IsSequence(page[k]) /\ Len(page[k]) = Len(columns)
    BY <2>1, <2>2, RowSequence
  <2>4. Len(columns) # 0 /\ Len(columns) \in Nat
    BY <2>2, SequenceFacts, EmptyOnly DEF IsColumns
  <2> QED
    BY <2>3, <2>4
<1>12. \A k \in 1 .. m : ReadBack(page[k], Len(columns))
  BY <1>11, RowReadBack
<1>13. Len(query.names) \in {1, 2}
  BY NamesFacts DEF PlainStatements, TwoTables, AtMostTwo
<1>14. \A k \in 1 .. m : Unset \notin Range(Values(page[k]))
  <2>1. \A r \in Product : Unset \notin Range(r)
    BY <1>2, <1>13, ProductWritten
  <2> QED
    BY <1>10, <2>1
<1>15. ASSUME NEW k \in 1 .. m, alternatives # <<>>,
              NEW i \in 1 .. Len(alternatives), NEW j \in 1 .. Len(alternatives[i])
       PROVE  /\ FindsValues(alternatives[i][j], page[k])
              /\ SameForTest(alternatives[i][j], AsRead(Values(page[k])), page[k])
  <2>1. PICK test, row, n : test = alternatives[i][j] /\ row = page[k] /\ n = Len(columns)
    OBVIOUS
  <2>2. test \in TestsOf(alternatives) /\ IsTest(test, columns)
    BY <1>1, <1>2, <1>15, <2>1 DEF ReadsAsAsked
  <2>3. test.kind # "truth" =>
           IsOfTable(input, test.column) /\ (test.kind = "column" => IsOfTable(input, test.value))
    BY <1>1, <1>2, <2>2 DEF IsPlain, query
  <2>4. test.kind # "truth" =>
           test.column \in 1 .. n /\ (test.kind = "column" => test.value \in 1 .. n)
    BY <2>1, <2>2 DEF IsTest
  <2>5. \A c \in 1 .. n : IsOfTable(input, c) => AsRead(Values(row))[c] = row[c] /\ row[c] # Unset
    BY <1>12, <1>14, <2>1 DEF ReadBack
  <2> QED
    BY <2>1, <2>3, <2>4, <2>5 DEF FindsValues, SameForTest
<1>16. alternatives # <<>> => IsMeant(alternatives, columns)
  BY <1>1, <1>2 DEF PlainStatements, OfTheirTables, AsksOfColumns, ReadsAsAsked, query
<1>17. \A k \in 1 .. m : Meant(AsRead(Values(page[k]))) <=> Meant(page[k])
  <2>1. CASE alternatives = <<>>
    BY <1>1, <2>1 DEF Meant
  <2>2. CASE alternatives # <<>>
    <3>1. ASSUME NEW k \in 1 .. m
          PROVE  Meaning(alternatives, columns, AsRead(Values(page[k]))) <=> Meaning(alternatives, columns, page[k])
      <4>1. \A i \in 1 .. Len(alternatives) : \A j \in 1 .. Len(alternatives[i]) :
               SameForTest(alternatives[i][j], AsRead(Values(page[k])), page[k])
        BY <1>15, <2>2
      <4> QED
        BY <1>16, <2>2, <4>1, MeaningForBoth
    <3>2. columns = query.columns
      BY <1>2 DEF ReadsAsAsked
    <3> QED
      BY <1>1, <2>2, <3>1, <3>2 DEF Meant
  <2> QED
    BY <2>1, <2>2
<1>18. ASSUME NEW k \in 1 .. m
       PROVE  Evaluate(parsed.tree, columns, page[k]) = Outcome(Meant(page[k]))
  <2>1. PICK row : row = page[k]
    OBVIOUS
  <2>2. query.alternatives # <<>> => TestsAnswered(query.alternatives, query.columns, columns, {row})
    <3> SUFFICES ASSUME alternatives # <<>>
                 PROVE  TestsAnswered(alternatives, columns, columns, {row})
      BY <1>1, <1>2 DEF ReadsAsAsked
    <3>1. /\ IsSequence(columns)
          /\ \A c \in 1 .. Len(columns) : columns[c].type \in {"INTEGER", "DOUBLE", "BOOL", "CHAR", "VARCHAR"}
      BY <1>2 DEF ReadsAsAsked
    <3>2. \A i \in 1 .. Len(alternatives) : \A j \in 1 .. Len(alternatives[i]) :
             /\ IsAnswerable(alternatives[i][j], columns)
             /\ \A r \in {row} : FindsValues(alternatives[i][j], r)
      BY <1>1, <1>2, <1>15, <2>1 DEF ReadsAsAsked
    <3> QED
      BY <1>16, <3>1, <3>2, AllTestsAnswered
  <2>3. Understood(query.alternatives) =>
            \A r \in {row} : Evaluate(parsed.tree, columns, r) = Outcome(Meant(r))
    <3>1. AsksOfColumns /\ input \in Inputs /\ Parses /\ Unspaced(query.alternatives)
      BY <1>2 DEF PlainStatements, OfTheirTables, Parses, Clear, Loads, Understood
    <3> QED
      BY <2>2, <3>1, ParsedAsMeant
  <2> QED
    BY <2>1, <2>3 DEF Clear
<1> QED
  BY <1>1, <1>2, <1>3, <1>8, <1>9, <1>10, <1>11, <1>17, <1>18 DEF PageAnswers

\* Of the first n records those that pass.
Passed(n) == {page[k] : k \in {l \in 1 .. n : Meant(page[l])}}

\* How many have been looked at.
LookedAt == IF stage = "filter" THEN position ELSE Len(page)

AnswerInv == Clear /\ Loads => IsInjective(chosen) /\ Range(chosen) = Passed(LookedAt)

LEMMA QueryKept ==
    ASSUME input' = input
    PROVE  /\ clean' = clean => Clear' = Clear
           /\ (clean' => clean) => (Clear' => Clear)
           /\ \A row : Meant(row)' = Meant(row)
           /\ page' = page => \A n : Passed(n)' = Passed(n)
<1>1. query' = query /\ ReadsWhatIsHeld' = ReadsWhatIsHeld /\ OneLeftPage' = OneLeftPage
  BY InputKept
<1>2. \A row : Meant(row)' = Meant(row)
  BY <1>1 DEF Meant
<1>3. page' = page => \A n : Passed(n)' = Passed(n)
  BY <1>1 DEF Passed, Meant
<1> QED
  BY <1>1, <1>2, <1>3 DEF Clear

LEMMA PassedNext ==
    ASSUME NEW n \in Nat
    PROVE  Passed(0) = {} /\ Passed(n + 1) =
               IF Meant(page[n + 1]) THEN Passed(n) \cup {page[n + 1]} ELSE Passed(n)
<1>1. Passed(0) = {}
  BY DEF Passed
<1>2. \A k : k \in 1 .. n + 1 <=> k \in 1 .. n \/ k = n + 1
  OBVIOUS
<1>3. CASE Meant(page[n + 1])
  <2>1. {l \in 1 .. n + 1 : Meant(page[l])} = {l \in 1 .. n : Meant(page[l])} \cup {n + 1}
    BY <1>2, <1>3
  <2> QED
    BY <1>1, <1>3, <2>1 DEF Passed
<1>4. CASE ~Meant(page[n + 1])
  <2>1. {l \in 1 .. n + 1 : Meant(page[l])} = {l \in 1 .. n : Meant(page[l])}
    BY <1>2, <1>4
  <2> QED
    BY <1>1, <1>4, <2>1 DEF Passed
<1> QED
  BY <1>3, <1>4

LEMMA FilterAnswers ==
    ASSUME PlainStatements, TypeInv, ParseInv, JoinInv, ColumnsInv, AnswerInv, Filter
    PROVE  AnswerInv'
<1>1. /\ stage = "filter" /\ position < Len(page) /\ position' = position + 1
      /\ UNCHANGED <<input, clean, page>> /\ stage' \in {"filter", "crashed"} /\ Loads
  BY DEF Filter, Loads
<1>2. PICK outcome \in Evaluate(parsed.tree, catalog[tables.name], page[position + 1]) :
         chosen' = IF outcome = "yes" THEN Append(chosen, page[position + 1]) ELSE chosen
  BY DEF Filter
<1> SUFFICES ASSUME Clear, stage' = "filter"
             PROVE  IsInjective(chosen') /\ Range(chosen') = Passed(position + 1)
  BY <1>1, QueryKept DEF AnswerInv, Loads, LookedAt
<1>3. PageAnswers
  BY <1>1, PageIsAnswered
<1>4. PICK n, row, s : n = position /\ row = page[position + 1] /\ s = chosen
  OBVIOUS
<1>5. n \in Nat /\ n < Len(page) /\ Len(page) \in Nat /\ n + 1 \in 1 .. Len(page) /\ IsSequence(s)
  BY <1>1, <1>4, SequenceFacts DEF TypeInv, Records
<1>6. IsInjective(s) /\ Range(s) = Passed(n)
  BY <1>1, <1>4 DEF AnswerInv, LookedAt
<1>7. outcome \in Outcome(Meant(row))
  <2>1. Evaluate(parsed.tree, catalog[tables.name], page[n + 1]) = Outcome(Meant(page[n + 1]))
    BY <1>3, <1>5 DEF PageAnswers
  <2> QED
    BY <1>2, <1>4, <2>1
<1>8. Passed(n + 1) = IF Meant(row) THEN Passed(n) \cup {row} ELSE Passed(n)
  BY <1>4, <1>5, PassedNext
<1>9. CASE Meant(row)
  <2>1. outcome = "yes" /\ chosen' = Append(s, row)
    BY <1>2, <1>4, <1>7, <1>9 DEF Outcome
  <2>2. row \notin Range(s)
    <3> SUFFICES ASSUME row \in Passed(n) PROVE FALSE
      BY <1>6
    <3>1. PICK k \in 1 .. n : row = page[k]
      BY DEF Passed
    <3>2. k \in 1 .. Len(page) /\ k # n + 1 /\ page[k] = page[n + 1]
      BY <1>4, <1>5, <3>1
    <3>3. DOMAIN page = 1 .. Len(page) /\ IsInjective(page)
      BY <1>3, SequenceFacts DEF PageAnswers
    <3> QED
      BY <1>5, <3>2, <3>3 DEF IsInjective
  <2>3. IsInjective(Append(s, row)) /\ Range(Append(s, row)) = Range(s) \cup {row}
    BY <1>5, <1>6, <2>2, AppendedOnce
  <2> QED
    BY <1>4, <1>6, <1>8, <1>9, <2>1, <2>3
<1>10. CASE ~Meant(row)
  <2>1. outcome = "no" /\ chosen' = s
    BY <1>2, <1>4, <1>7, <1>10 DEF Outcome
  <2> QED
    BY <1>4, <1>6, <1>8, <1>10, <2>1
<1> QED
  BY <1>9, <1>10

LEMMA LoadAnswers ==
    ASSUME TypeInv, Load
    PROVE  AnswerInv'
<1>1. stage = "join" /\ stage' = "filter" /\ UNCHANGED <<position, chosen>>
  BY DEF Load
<1>2. page = <<>>
  BY <1>1 DEF TypeInv, Records
<1>3. position \in 0 .. Len(page) /\ IsSequence(chosen) /\ Len(chosen) <= Len(page)
  BY DEF TypeInv, Records
<1>4. Len(page) = 0 /\ Len(chosen) \in Nat
  BY <1>2, <1>3, EmptySequence, SequenceFacts
<1>5. position = 0 /\ Len(chosen) = 0
  BY <1>3, <1>4
<1>6. chosen = <<>>
  BY <1>3, <1>5, EmptyOnly
<1>7. Range(chosen) = {} /\ DOMAIN chosen = {}
  <2>1. DOMAIN chosen = 1 .. 0
    BY <1>3, <1>5, SequenceFacts
  <2> QED
    BY <1>6, <2>1, EmptySequence
<1>8. Passed(0)' = {}
  BY DEF Passed
<1> QED
  BY <1>1, <1>5, <1>7, <1>8 DEF AnswerInv, LookedAt, IsInjective

LEMMA SortAnswers ==
    ASSUME TypeInv, AnswerInv, Sort
    PROVE  AnswerInv'
<1>1. /\ stage = "sort" /\ stage' = "sort" /\ position < Len(chosen)
      /\ chosen' = Moved(chosen, position + 1) /\ UNCHANGED <<input, clean, page>>
  BY DEF Sort
<1>2. PICK s, n : s = chosen /\ n = position + 1
  OBVIOUS
<1>3. IsSequence(s) /\ n \in 1 .. Len(s)
  <2>1. IsSequence(s) /\ position \in 0 .. Len(page)
    BY <1>2 DEF TypeInv, Records
  <2>2. Len(s) \in Nat
    BY <2>1, SequenceFacts
  <2> QED
    BY <1>1, <1>2, <2>1, <2>2
<1>4. Range(Moved(s, n)) = Range(s) /\ (IsInjective(s) => IsInjective(Moved(s, n)))
  BY <1>3, MovedOnlyMoves
<1>5. Clear' = Clear /\ Passed(Len(page))' = Passed(Len(page))
  <2>1. PICK l : l = Len(page)
    OBVIOUS
  <2>2. Clear' = Clear /\ Passed(l)' = Passed(l) /\ Len(page)' = l
    BY <1>1, <2>1, QueryKept
  <2> QED
    BY <2>1, <2>2 DEF Passed
<1> QED
  BY <1>1, <1>2, <1>4, <1>5 DEF AnswerInv, LookedAt, Loads

LEMMA OtherAnswers ==
    ASSUME TypeInv, AnswerInv,
           Parse \/ JoinUnknown \/ Join \/ Collected \/ Output \/ Finished \/ UNCHANGED vars
    PROVE  AnswerInv'
<1>1. CASE Parse \/ JoinUnknown \/ Join
  <2>1. ~Loads'
    BY <1>1 DEF Parse, JoinUnknown, Join, Loads
  <2> QED
    BY <2>1 DEF AnswerInv
<1>2. CASE Collected \/ Output \/ Finished \/ UNCHANGED vars
  <2>1. UNCHANGED <<input, page, chosen>> /\ (Loads' => Loads) /\ (clean' => clean)
    <3>1. UNCHANGED <<input, page, chosen>> /\ (Loads' => Loads)
      BY <1>2 DEF Collected, Output, Finished, vars, Loads
    <3>2. clean' => clean
      <4>1. CASE Output
        BY <4>1, OutputClean
      <4>2. CASE Collected \/ Finished \/ UNCHANGED vars
        BY <4>2 DEF Collected, Finished, vars
      <4> QED
        BY <1>2, <4>1, <4>2
    <3> QED
      BY <3>1, <3>2
  <2>2. LookedAt' = LookedAt
    BY <1>2 DEF Collected, Output, Finished, vars, LookedAt
  <2>3. PICK n : n = LookedAt
    OBVIOUS
  <2>4. (Clear' => Clear) /\ Passed(n)' = Passed(n)
    BY <2>1, QueryKept
  <2>5. Passed(LookedAt)' = Passed(n)
    BY <2>2, <2>3, <2>4 DEF Passed
  <2> QED
    BY <2>1, <2>3, <2>4, <2>5 DEF AnswerInv
<1> QED
  BY <1>1, <1>2

\* What is printed is what is shown of the records that are chosen.
PrintInv == stage = "done" /\ clean => printed = Shown

LEMMA PrintStep ==
    ASSUME PrintInv, [Next]_vars
    PROVE  PrintInv'
<1>1. CASE Output
  <2>1. (clean' => printed' = Shown) /\ UNCHANGED <<input, chosen, catalog, tables>>
    BY <1>1 DEF Output
  <2>2. Shown' = Shown
    BY <2>1 DEF Shown, ColumnOf, query
  <2> QED
    BY <2>1, <2>2 DEF PrintInv
<1>2. CASE Finished \/ UNCHANGED vars
  <2>1. UNCHANGED <<input, chosen, catalog, tables, stage, printed, clean>>
    BY <1>2 DEF Finished, vars
  <2>2. Shown' = Shown
    BY <2>1 DEF Shown, ColumnOf, query
  <2> QED
    BY <2>1, <2>2 DEF PrintInv
<1>3. CASE Parse \/ JoinUnknown \/ Join \/ Load \/ Filter \/ Collected \/ Sort
  <2>1. stage' # "done"
    BY <1>3 DEF Parse, JoinUnknown, Join, Load, Filter, Collected, Sort
  <2> QED
    BY <2>1 DEF PrintInv
<1> QED
  BY <1>1, <1>2, <1>3 DEF Next

FirstNamed(columns, name) == CHOOSE i \in DOMAIN columns : columns[i].name = name

\* An attribute that is asked for is printed from the column that has its name.
LEMMA AttributeFound ==
    ASSUME PlainStatements, input \in Inputs, ReadsAsAsked(catalog[tables.name]),
           ~query.star, NEW a \in DOMAIN query.attributes
    PROVE  \E c \in 1 .. Len(catalog[tables.name]) :
               /\ ColumnOf(query.attributes[a]) = c /\ FirstNamed(query.columns, query.attributes[a]) = c
               /\ IsOfTable(input, c)
<1>1. PICK columns, name : columns = catalog[tables.name] /\ name = query.attributes[a]
  OBVIOUS
<1>2. /\ IsPlain(input) /\ TablesKnown(input) /\ columns = query.columns /\ IsSequence(columns)
      /\ DOMAIN columns = 1 .. Len(columns) /\ Len(columns) \in Nat
  BY <1>1, SequenceFacts DEF PlainStatements, ReadsAsAsked
<1>3. PICK c \in DOMAIN columns :
         columns[c].name = name /\ OnlyColumn(columns, c) /\ IsOfTable(input, c)
  BY <1>1, <1>2 DEF IsPlain, query
<1>4. \A i \in DOMAIN columns : columns[i].name = name <=> i = c
  BY <1>2, <1>3 DEF OnlyColumn
<1>5. FirstNamed(columns, name) = c
  BY <1>3, <1>4 DEF FirstNamed
<1>6. HasColumn(columns, name)
  BY <1>3 DEF HasColumn
<1>7. ColumnsNamed(columns, name) = {c}
  BY <1>2, <1>3, NamedOnly
<1>8. ColumnOf(name) = CHOOSE i \in DOMAIN columns :
          IF HasColumn(columns, name) THEN i \in ColumnsNamed(columns, name) ELSE i = 1
  BY <1>1 DEF ColumnOf
<1>9. \A i \in DOMAIN columns :
         (IF HasColumn(columns, name) THEN i \in ColumnsNamed(columns, name) ELSE i = 1) <=> i = c
  BY <1>6, <1>7
<1>10. ColumnOf(name) = c
  <2>1. PICK d : d = ColumnOf(name)
    OBVIOUS
  <2>2. d \in DOMAIN columns /\ d = c
    BY <1>3, <1>8, <1>9, <2>1
  <2> QED
    BY <2>1, <2>2
<1> QED
  BY <1>1, <1>2, <1>3, <1>5, <1>10

\* The rows of the product that meet the condition.
AnswerRows == {r \in Product : Meant(AsRead(r))}

ShowsAnswer(l) ==
    /\ l = Len(chosen) /\ l \in Nat /\ DOMAIN chosen = 1 .. l
    /\ AnswerRows = {Values(chosen[c]) : c \in 1 .. l}
    /\ \A c, d \in 1 .. l : Values(chosen[c]) = Values(chosen[d]) => c = d
    /\ \A c \in 1 .. l : ReadBack(chosen[c], Len(catalog[tables.name]))

\* The records that are chosen are the answer.
LEMMA ChosenAnswer ==
    ASSUME TypeInv, PageAnswers, IsInjective(chosen), Range(chosen) = Passed(Len(page))
    PROVE  ShowsAnswer(Len(chosen))
<1>1. PICK l, m : l = Len(chosen) /\ m = Len(page)
  OBVIOUS
<1>2. /\ IsSequence(chosen) /\ l \in Nat /\ DOMAIN chosen = 1 .. l
      /\ m \in Nat /\ DOMAIN page = 1 .. m
  BY <1>1, SequenceFacts DEF TypeInv, Records
<1>3. \A c \in 1 .. l : \E k \in 1 .. m : chosen[c] = page[k] /\ Meant(page[k])
  <2> TAKE c \in 1 .. l
  <2>1. chosen[c] \in Passed(m)
    BY <1>1, <1>2 DEF Range
  <2> QED
    BY <2>1 DEF Passed
<1>4. \A k \in 1 .. m : Meant(page[k]) => \E c \in 1 .. l : chosen[c] = page[k]
  <2> TAKE k \in 1 .. m
  <2> HAVE Meant(page[k])
  <2>1. page[k] \in Passed(m)
    BY DEF Passed
  <2> QED
    BY <1>1, <1>2, <2>1 DEF Range
<1>5. /\ Product = {Values(page[k]) : k \in 1 .. m}
      /\ \A k, j \in 1 .. m : Values(page[k]) = Values(page[j]) => k = j
      /\ \A k \in 1 .. m : Meant(AsRead(Values(page[k]))) <=> Meant(page[k])
      /\ \A k \in 1 .. m : IsSequence(page[k]) /\ Len(page[k]) = Len(catalog[tables.name]) /\ Len(page[k]) > 0
  BY <1>1 DEF PageAnswers
<1>6. AnswerRows = {Values(chosen[c]) : c \in 1 .. l}
  <2>1. ASSUME NEW r \in AnswerRows PROVE r \in {Values(chosen[c]) : c \in 1 .. l}
    <3>1. PICK k \in 1 .. m : r = Values(page[k])
      BY <1>5 DEF AnswerRows
    <3>2. Meant(page[k])
      BY <1>5, <3>1 DEF AnswerRows
    <3>3. PICK c \in 1 .. l : chosen[c] = page[k]
      BY <1>4, <3>2
    <3> QED
      BY <3>1, <3>3
  <2>2. ASSUME NEW c \in 1 .. l PROVE Values(chosen[c]) \in AnswerRows
    <3>1. PICK k \in 1 .. m : chosen[c] = page[k] /\ Meant(page[k])
      BY <1>3
    <3>2. Values(page[k]) \in Product /\ Meant(AsRead(Values(page[k])))
      BY <1>5, <3>1
    <3> QED
      BY <3>1, <3>2 DEF AnswerRows
  <2> QED
    BY <2>1, <2>2
<1>7. ASSUME NEW c \in 1 .. l, NEW d \in 1 .. l, Values(chosen[c]) = Values(chosen[d]) PROVE c = d
  <2>1. PICK k \in 1 .. m : chosen[c] = page[k]
    BY <1>3
  <2>2. PICK j \in 1 .. m : chosen[d] = page[j]
    BY <1>3
  <2>3. k = j
    BY <1>5, <1>7, <2>1, <2>2
  <2>4. chosen[c] = chosen[d]
    BY <2>1, <2>2, <2>3
  <2> QED
    BY <1>2, <2>4 DEF IsInjective
<1>8. ASSUME NEW c \in 1 .. l PROVE ReadBack(chosen[c], Len(catalog[tables.name]))
  <2>1. PICK k \in 1 .. m : chosen[c] = page[k]
    BY <1>3
  <2> QED
    BY <1>5, <2>1, RowReadBack
<1> QED
  BY <1>1, <1>2, <1>6, <1>7, <1>8 DEF ShowsAnswer

\* As many as there are places, if no two places hold the same.
LEMMA CountOnce ==
    ASSUME NEW l \in Nat, NEW g, DOMAIN g = 1 .. l, g = [c \in 1 .. l |-> g[c]],
           NEW S, S = {g[c] : c \in 1 .. l}, \A c, d \in 1 .. l : g[c] = g[d] => c = d
    PROVE  Cardinality(S) = l
<1>1. g \in [1 .. l -> S]
  OBVIOUS
<1>2. IsInjective(g) /\ \A t \in S : \E c \in 1 .. l : g[c] = t
  BY DEF IsInjective
<1>3. g \in Bijection(1 .. l, S)
  BY <1>1, <1>2 DEF Bijection, Injection, Surjection
<1> QED
  BY <1>3, FS_CountingElements DEF ExistsBijection

\* What a row prints, but for the number of a row of a join.
Prints(r) == IF query.star THEN Values(r) ELSE r

PrintsAnswer ==
    /\ Len(printed) = Cardinality(AnswerRows)
    /\ {Prints(r) : r \in Range(printed)} = {Prints(Projection(AsRead(r))) : r \in AnswerRows}

\* A row prints the same whether it is read as one of the product or of the
\* table.
LEMMA RowPrinted ==
    ASSUME PlainStatements, input \in Inputs, ReadsAsAsked(catalog[tables.name]),
           NEW row, ReadBack(row, Len(catalog[tables.name]))
    PROVE  Prints(Projection(AsRead(Values(row)))) =
               IF query.star THEN Values(row)
               ELSE [a \in DOMAIN query.attributes |-> row[ColumnOf(query.attributes[a])]]
<1>1. PICK r, n : r = AsRead(Values(row)) /\ n = Len(catalog[tables.name])
  OBVIOUS
<1>2. Values(r) = Values(row) /\ \A c \in 1 .. n : IsOfTable(input, c) => r[c] = row[c]
  BY <1>1 DEF ReadBack
<1>3. CASE query.star
  BY <1>1, <1>2, <1>3 DEF Prints, Projection
<1>4. CASE ~query.star
  <2>1. ASSUME NEW a \in DOMAIN query.attributes
        PROVE  r[FirstNamed(query.columns, query.attributes[a])] = row[ColumnOf(query.attributes[a])]
    <3>1. PICK c \in 1 .. n : /\ ColumnOf(query.attributes[a]) = c
                              /\ FirstNamed(query.columns, query.attributes[a]) = c
                              /\ IsOfTable(input, c)
      BY <1>1, <1>4, AttributeFound
    <3> QED
      BY <1>2, <3>1
  <2>2. Projection(r) = [a \in DOMAIN query.attributes |-> r[FirstNamed(query.columns, query.attributes[a])]]
    BY <1>4 DEF Projection, FirstNamed
  <2> QED
    BY <1>1, <1>4, <2>1, <2>2 DEF Prints
<1> QED
  BY <1>3, <1>4

\* The records that are chosen print the answer.
LEMMA AnswerPrinted ==
    ASSUME PlainStatements, TypeInv, ColumnsInv, Loads, NEW l, ShowsAnswer(l), printed = Shown
    PROVE  PrintsAnswer
<1>1. input \in Inputs /\ ReadsAsAsked(catalog[tables.name])
  BY ReadAsAsked DEF PlainStatements, TypeInv, Shapes
<1>2. /\ l = Len(chosen) /\ l \in Nat /\ DOMAIN chosen = 1 .. l
      /\ AnswerRows = {Values(chosen[c]) : c \in 1 .. l}
      /\ \A c, d \in 1 .. l : Values(chosen[c]) = Values(chosen[d]) => c = d
      /\ \A c \in 1 .. l : ReadBack(chosen[c], Len(catalog[tables.name]))
  BY DEF ShowsAnswer
<1>3. Cardinality(AnswerRows) = l
  <2>1. PICK g : g = [c \in 1 .. l |-> Values(chosen[c])]
    OBVIOUS
  <2>2. /\ DOMAIN g = 1 .. l /\ g = [c \in 1 .. l |-> g[c]]
        /\ \A c \in 1 .. l : g[c] = Values(chosen[c])
    BY <2>1
  <2>3. AnswerRows = {g[c] : c \in 1 .. l} /\ \A c, d \in 1 .. l : g[c] = g[d] => c = d
    BY <1>2, <2>2
  <2> QED
    BY <1>2, <2>2, <2>3, CountOnce
<1>4. DOMAIN printed = 1 .. l /\ Len(printed) = l
  <2>1. CASE query.star
    BY <1>2, <2>1 DEF Shown
  <2>2. CASE ~query.star
    <3>1. PICK asked : asked = [c \in 1 .. l |->
               [a \in DOMAIN query.attributes |-> chosen[c][ColumnOf(query.attributes[a])]]]
      OBVIOUS
    <3>2. printed = asked
      BY <1>2, <2>2, <3>1 DEF Shown
    <3>3. DOMAIN asked = 1 .. l /\ Len(asked) = l
      BY <1>2, <3>1
    <3> QED
      BY <3>2, <3>3
  <2> QED
    BY <2>1, <2>2
<1>5. ASSUME NEW c \in 1 .. l
      PROVE  Prints(printed[c]) = Prints(Projection(AsRead(Values(chosen[c]))))
  <2>1. Prints(printed[c]) =
            IF query.star THEN Values(chosen[c])
            ELSE [a \in DOMAIN query.attributes |-> chosen[c][ColumnOf(query.attributes[a])]]
    BY <1>2 DEF Prints, Shown
  <2>2. PICK row : row = chosen[c]
    OBVIOUS
  <2>3. ReadBack(row, Len(catalog[tables.name]))
    BY <1>2, <2>2
  <2> QED
    BY <1>1, <2>1, <2>2, <2>3, RowPrinted
<1>6. ASSUME NEW r \in Range(printed)
      PROVE  \E s \in AnswerRows : Prints(r) = Prints(Projection(AsRead(s)))
  <2>1. PICK c \in 1 .. l : r = printed[c]
    BY <1>4 DEF Range
  <2> QED
    BY <1>2, <1>5, <2>1
<1>7. ASSUME NEW s \in AnswerRows
      PROVE  \E r \in Range(printed) : Prints(r) = Prints(Projection(AsRead(s)))
  <2>1. PICK c \in 1 .. l : s = Values(chosen[c])
    BY <1>2
  <2>2. printed[c] \in Range(printed)
    BY <1>4 DEF Range
  <2> QED
    BY <1>5, <2>1, <2>2
<1>8. {Prints(r) : r \in Range(printed)} = {Prints(Projection(AsRead(r))) : r \in AnswerRows}
  BY <1>6, <1>7
<1> QED
  BY <1>3, <1>4, <1>8 DEF PrintsAnswer

\* The answer is printed when the statement is done.
LEMMA DonePrintsAnswer ==
    ASSUME PlainStatements, TypeInv, ParseInv, JoinInv, ColumnsInv, AnswerInv, PrintInv,
           Clear, stage = "done"
    PROVE  PrintsAnswer
<1>1. Loads /\ printed = Shown /\ LookedAt = Len(page)
  BY DEF Loads, PrintInv, LookedAt, Clear
<1>2. PageAnswers
  BY <1>1, PageIsAnswered
<1>3. IsInjective(chosen) /\ Range(chosen) = Passed(Len(page))
  BY <1>1 DEF AnswerInv
<1>4. ShowsAnswer(Len(chosen))
  BY <1>2, <1>3, ChosenAnswer
<1> QED
  BY <1>1, <1>4, AnswerPrinted

\* A select on a table, or on two tables that it joins, prints what is asked
\* for of their rows, or pairs of rows, that meet the condition, of each once,
\* ordered or not: if nothing is left in the buffer of the condition, no row
\* of the join is refused, the condition is one that the parser understands,
\* the tables are read as they are held, and the left one has one page.
THEOREM QueryAnswered ==
    ASSUME PlainStatements
    PROVE  Spec => []AnswersQuery
<1>1. Init => AnswerInv /\ PrintInv
  BY DEF Init, AnswerInv, PrintInv, Loads
<1>2. /\ TypeInv /\ ParseInv /\ JoinInv /\ ColumnsInv /\ AnswerInv /\ PrintInv /\ [Next]_vars
      => AnswerInv' /\ PrintInv'
  <2> SUFFICES ASSUME TypeInv, ParseInv, JoinInv, ColumnsInv, AnswerInv, PrintInv, [Next]_vars
               PROVE  AnswerInv' /\ PrintInv'
    OBVIOUS
  <2>1. ASSUME Filter PROVE AnswerInv'
    BY <2>1, FilterAnswers
  <2>2. ASSUME Load PROVE AnswerInv'
    BY <2>2, LoadAnswers
  <2>3. ASSUME Sort PROVE AnswerInv'
    BY <2>3, SortAnswers
  <2>4. ASSUME Parse \/ JoinUnknown \/ Join \/ Collected \/ Output \/ Finished \/ UNCHANGED vars
        PROVE  AnswerInv'
    BY <2>4, OtherAnswers
  <2>5. PrintInv'
    BY PrintStep
  <2> QED
    BY <2>1, <2>2, <2>3, <2>4, <2>5 DEF Next
<1>3. TypeInv /\ ParseInv /\ JoinInv /\ ColumnsInv /\ AnswerInv /\ PrintInv => AnswersQuery
  <2> SUFFICES ASSUME TypeInv, ParseInv, JoinInv, ColumnsInv, AnswerInv, PrintInv,
                      Clear, stage = "done"
               PROVE  PrintsAnswer
    BY DEF AnswersQuery, Clear, PrintsAnswer, Prints, AnswerRows, AsRead
  <2> QED
    BY DonePrintsAnswer
<1>4. TwoTables /\ AtMostTwo
  BY DEF PlainStatements, TwoTables, AtMostTwo
<1>5. (Spec => []TypeInv) /\ (Spec => []ParseInv)
  BY TypeInvariance, ParsesText
<1>6. (Spec => []JoinInv) /\ (Spec => []ColumnsInv)
  BY <1>4, JoinsWhatIsHeld, ReadsItsColumns
<1> QED
  BY <1>1, <1>2, <1>3, <1>5, <1>6, PTL DEF Spec
=============================================================================
