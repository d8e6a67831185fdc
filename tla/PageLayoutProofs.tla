------------------------- MODULE PageLayoutProofs -------------------------
(***************************************************************************)
(* Proofs about PageLayout, for any tables, rows and sizes of a page: what *)
(* is written to the file of a table is read back.                         *)
(***************************************************************************)
EXTENDS PageLayout, SharedFacts

-----------------------------------------------------------------------------
(* Sums *)

Sums(s, f, n) == s = [i \in 0 .. n |-> IF i = 0 THEN 0 ELSE s[i - 1] + f[i]]

LEMMA SumsAt ==
    ASSUME NEW s, NEW f, NEW n \in Nat, Sums(s, f, n)
    PROVE  s[0] = 0 /\ \A i \in 1 .. n : s[i] = s[i - 1] + f[i]
<1>1. \A i \in 0 .. n : s[i] = IF i = 0 THEN 0 ELSE s[i - 1] + f[i]
  BY DEF Sums
<1> QED
  BY <1>1

LEMMA SumsExist ==
    ASSUME NEW f, NEW n \in Nat
    PROVE  \E s : Sums(s, f, n)
<1> DEFINE Bad == {m \in Nat : ~\E s : Sums(s, f, m)}
<1> SUFFICES ASSUME Bad # {} PROVE FALSE
  OBVIOUS
<1>1. PICK m \in Bad : \A l \in Bad : m <= l
  BY LeastMember
<1>2. m \in Nat /\ ~\E s : Sums(s, f, m)
  OBVIOUS
<1>3. m # 0
  <2>1. Sums([i \in 0 .. 0 |-> 0], f, 0)
    BY DEF Sums
  <2> QED
    BY <1>2, <2>1
<1>4. m - 1 \in Nat /\ m - 1 \notin Bad
  BY <1>1, <1>2, <1>3
<1>5. PICK s : Sums(s, f, m - 1)
  BY <1>4
<1> DEFINE g == [i \in 0 .. m |-> IF i < m THEN s[i] ELSE s[m - 1] + f[m]]
<1>6. ASSUME NEW i \in 0 .. m PROVE g[i] = IF i = 0 THEN 0 ELSE g[i - 1] + f[i]
  <2>1. s[0] = 0 /\ \A j \in 1 .. m - 1 : s[j] = s[j - 1] + f[j]
    BY <1>4, <1>5, SumsAt
  <2>2. \A j \in 0 .. m - 1 : g[j] = s[j]
    BY <1>2
  <2>3. g[m] = s[m - 1] + f[m]
    BY <1>2
  <2> HIDE DEF g
  <2>4. CASE i = 0
    BY <1>2, <1>3, <2>1, <2>2, <2>4
  <2>5. CASE i = m
    <3>1. m - 1 \in 0 .. m - 1
      BY <1>2, <1>3
    <3> QED
      BY <1>3, <2>2, <2>3, <2>5, <3>1
  <2>6. CASE i # 0 /\ i # m
    <3>1. i \in 1 .. m - 1 /\ i \in 0 .. m - 1 /\ i - 1 \in 0 .. m - 1
      BY <1>2, <2>6
    <3> QED
      BY <2>1, <2>2, <2>6, <3>1
  <2> QED
    BY <2>4, <2>5, <2>6
<1>7. Sums(g, f, m)
  <2>1. g = [i \in 0 .. m |-> g[i]]
    OBVIOUS
  <2> HIDE DEF g
  <2> QED
    BY <1>6, <2>1 DEF Sums
<1> QED
  BY <1>2, <1>7

LEMMA SumsAgree ==
    ASSUME NEW s, NEW h, NEW f, NEW m \in Nat, NEW n \in Nat, m <= n, Sums(s, f, m), Sums(h, f, n)
    PROVE  s[m] = h[m]
<1> DEFINE Bad == {i \in 0 .. m : s[i] # h[i]}
<1> SUFFICES ASSUME Bad # {} PROVE FALSE
  OBVIOUS
<1>1. Bad \subseteq Nat
  OBVIOUS
<1>2. PICK i \in Bad : \A l \in Bad : i <= l
  BY <1>1, LeastMember
<1>3. s[0] = 0 /\ h[0] = 0
  BY SumsAt
<1>4. i \in 1 .. m /\ s[i] # h[i]
  BY <1>3
<1>5. i - 1 \in 0 .. m /\ i - 1 \notin Bad
  BY <1>2, <1>4
<1>6. s[i] = s[i - 1] + f[i] /\ h[i] = h[i - 1] + f[i]
  BY <1>4, SumsAt
<1> QED
  BY <1>4, <1>5, <1>6

LEMMA SumIs ==
    ASSUME NEW f, NEW n \in Nat
    PROVE  \E s : Sums(s, f, n) /\ SumTo(f, n) = s[n]
<1> DEFINE F == CHOOSE s : s = [i \in 0 .. n |-> IF i = 0 THEN 0 ELSE s[i - 1] + f[i]]
<1>1. SumTo(f, n) = F[n]
  BY DEF SumTo
<1>2. \E s : s = [i \in 0 .. n |-> IF i = 0 THEN 0 ELSE s[i - 1] + f[i]]
  BY SumsExist DEF Sums
<1>3. Sums(F, f, n)
  BY <1>2 DEF Sums
<1> QED
  BY <1>1, <1>3

\* A sum of one more.
LEMMA SumNext ==
    ASSUME NEW f, NEW n \in Nat
    PROVE  SumTo(f, 0) = 0 /\ SumTo(f, n + 1) = SumTo(f, n) + f[n + 1]
<1>1. PICK s : Sums(s, f, n) /\ SumTo(f, n) = s[n]
  BY SumIs
<1>2. PICK h : Sums(h, f, n + 1) /\ SumTo(f, n + 1) = h[n + 1]
  BY SumIs
<1>3. PICK z : Sums(z, f, 0) /\ SumTo(f, 0) = z[0]
  BY SumIs
<1>4. h[n + 1] = h[n] + f[n + 1]
  <2>1. n + 1 \in 1 .. n + 1 /\ n + 1 \in Nat
    OBVIOUS
  <2>2. h[n + 1] = h[(n + 1) - 1] + f[n + 1]
    BY <1>2, <2>1, SumsAt
  <2> QED
    BY <2>2
<1>5. s[n] = h[n]
  BY <1>1, <1>2, SumsAgree
<1> QED
  BY <1>1, <1>2, <1>3, <1>4, <1>5, SumsAt

\* Sums of natural numbers grow, and are compared member by member.
LEMMA SumNatural ==
    ASSUME NEW f, NEW n \in Nat, \A i \in 1 .. n : f[i] \in Nat
    PROVE  \A i \in 0 .. n : SumTo(f, i) \in Nat
<1> DEFINE Bad == {i \in 0 .. n : SumTo(f, i) \notin Nat}
<1> SUFFICES ASSUME Bad # {} PROVE FALSE
  OBVIOUS
<1>1. PICK i \in Bad : \A l \in Bad : i <= l
  <2>1. Bad \subseteq Nat
    OBVIOUS
  <2> QED
    BY <2>1, LeastMember
<1>2. i \in 1 .. n /\ SumTo(f, i) \notin Nat
  BY SumNext
<1>3. i - 1 \in Nat /\ i - 1 \notin Bad /\ i - 1 \in 0 .. n
  BY <1>1, <1>2
<1>4. SumTo(f, (i - 1) + 1) = SumTo(f, i - 1) + f[(i - 1) + 1]
  BY <1>3, SumNext
<1>5. (i - 1) + 1 = i
  BY <1>2
<1> QED
  BY <1>2, <1>3, <1>4, <1>5

LEMMA SumGrows ==
    ASSUME NEW f, NEW n \in Nat, \A i \in 1 .. n : f[i] \in Nat, NEW i \in 0 .. n, NEW j \in i .. n
    PROVE  SumTo(f, i) <= SumTo(f, j)
<1> DEFINE Bad == {k \in i .. n : ~(SumTo(f, i) <= SumTo(f, k))}
<1> SUFFICES ASSUME Bad # {} PROVE FALSE
  OBVIOUS
<1>1. PICK k \in Bad : \A l \in Bad : k <= l
  <2>1. Bad \subseteq Nat
    OBVIOUS
  <2> QED
    BY <2>1, LeastMember
<1>2. \A l \in 0 .. n : SumTo(f, l) \in Nat
  BY SumNatural
<1>3. k \in i .. n /\ ~(SumTo(f, i) <= SumTo(f, k)) /\ k # i
  BY <1>2
<1>4. k - 1 \in Nat /\ k - 1 \notin Bad /\ k - 1 \in i .. n /\ k - 1 \in 0 .. n
  BY <1>1, <1>3
<1>5. SumTo(f, (k - 1) + 1) = SumTo(f, k - 1) + f[(k - 1) + 1]
  BY <1>4, SumNext
<1>6. (k - 1) + 1 = k /\ f[k] \in Nat
  BY <1>3
<1>7. SumTo(f, k - 1) \in Nat /\ SumTo(f, i) \in Nat /\ SumTo(f, i) <= SumTo(f, k - 1)
  BY <1>2, <1>4
<1> QED
  BY <1>3, <1>5, <1>6, <1>7

LEMMA SumCompared ==
    ASSUME NEW f, NEW g, NEW n \in Nat, \A i \in 1 .. n : f[i] \in Nat /\ g[i] \in Nat /\ f[i] <= g[i]
    PROVE  \A i \in 0 .. n : SumTo(f, i) <= SumTo(g, i)
<1> DEFINE Bad == {i \in 0 .. n : ~(SumTo(f, i) <= SumTo(g, i))}
<1> SUFFICES ASSUME Bad # {} PROVE FALSE
  OBVIOUS
<1>1. PICK i \in Bad : \A l \in Bad : i <= l
  <2>1. Bad \subseteq Nat
    OBVIOUS
  <2> QED
    BY <2>1, LeastMember
<1>2. i \in 1 .. n /\ ~(SumTo(f, i) <= SumTo(g, i))
  BY SumNext
<1>3. i - 1 \in Nat /\ i - 1 \notin Bad /\ i - 1 \in 0 .. n
  BY <1>1, <1>2
<1>4. SumTo(f, (i - 1) + 1) = SumTo(f, i - 1) + f[(i - 1) + 1] /\ SumTo(g, (i - 1) + 1) = SumTo(g, i - 1) + g[(i - 1) + 1]
  BY <1>3, SumNext
<1>5. (i - 1) + 1 = i
  BY <1>2
<1>6. SumTo(f, i - 1) \in Nat /\ SumTo(g, i - 1) \in Nat
  BY <1>3, SumNatural
<1> QED
  BY <1>2, <1>3, <1>4, <1>5, <1>6

\* A sum depends on no more than what is summed.
LEMMA SumSame ==
    ASSUME NEW f, NEW g, NEW n \in Nat, \A i \in 1 .. n : f[i] = g[i]
    PROVE  \A i \in 0 .. n : SumTo(f, i) = SumTo(g, i)
<1> DEFINE Bad == {i \in 0 .. n : SumTo(f, i) # SumTo(g, i)}
<1> SUFFICES ASSUME Bad # {} PROVE FALSE
  OBVIOUS
<1>1. PICK i \in Bad : \A l \in Bad : i <= l
  <2>1. Bad \subseteq Nat
    OBVIOUS
  <2> QED
    BY <2>1, LeastMember
<1>2. i \in 1 .. n /\ SumTo(f, i) # SumTo(g, i)
  BY SumNext
<1>3. i - 1 \in Nat /\ i - 1 \notin Bad /\ i - 1 \in 0 .. n
  BY <1>1, <1>2
<1>4. SumTo(f, (i - 1) + 1) = SumTo(f, i - 1) + f[(i - 1) + 1] /\ SumTo(g, (i - 1) + 1) = SumTo(g, i - 1) + g[(i - 1) + 1]
  BY <1>3, SumNext
<1>5. (i - 1) + 1 = i
  BY <1>2
<1> QED
  BY <1>2, <1>3, <1>4, <1>5

\* Every number up to a sum falls into one of what is summed.
LEMMA SumFinds ==
    ASSUME NEW f, NEW m \in Nat, \A i \in 1 .. m : f[i] \in Nat, NEW n \in 1 .. SumTo(f, m)
    PROVE  \E i \in 1 .. m : \E k \in 1 .. f[i] : n = SumTo(f, i - 1) + k
<1> DEFINE Good == {i \in 0 .. m : n <= SumTo(f, i)}
<1>1. \A i \in 0 .. m : SumTo(f, i) \in Nat
  BY SumNatural
<1>2. m \in Good /\ Good \subseteq Nat
  BY <1>1
<1>3. PICK i \in Good : \A l \in Good : i <= l
  BY <1>2, LeastMember
<1>4. i \in 1 .. m /\ n <= SumTo(f, i)
  BY SumNext
<1>5. i - 1 \in 0 .. m /\ i - 1 \notin Good /\ i - 1 \in Nat
  BY <1>3, <1>4
<1>6. SumTo(f, (i - 1) + 1) = SumTo(f, i - 1) + f[(i - 1) + 1] /\ (i - 1) + 1 = i
  BY <1>5, SumNext
<1>7. SumTo(f, i - 1) < n /\ SumTo(f, i - 1) \in Nat /\ f[i] \in Nat
  BY <1>1, <1>4, <1>5
<1>8. n - SumTo(f, i - 1) \in 1 .. f[i] /\ n = SumTo(f, i - 1) + (n - SumTo(f, i - 1))
  BY <1>4, <1>6, <1>7
<1> QED
  BY <1>4, <1>8

-----------------------------------------------------------------------------
(* What FlattenSeq makes of a sequence of sequences: each lies behind those  *)
(* before it.                                                                *)

Lens(ss) == [i \in 1 .. Len(ss) |-> Len(ss[i])]

Offset(ss, i) == SumTo(Lens(ss), i)

IsNested(ss) == IsSequence(ss) /\ \A i \in 1 .. Len(ss) : IsSequence(ss[i])

\* f is the first m of them.
Lies(f, m, ss) ==
    /\ IsSequence(f)
    /\ Len(f) = Offset(ss, m)
    /\ \A i \in 1 .. m : \A k \in 1 .. Len(ss[i]) : f[Offset(ss, i - 1) + k] = ss[i][k]

LEMMA OffsetFacts ==
    ASSUME NEW ss, IsNested(ss)
    PROVE  /\ Len(ss) \in Nat
           /\ Offset(ss, 0) = 0
           /\ \A i \in 0 .. Len(ss) : Offset(ss, i) \in Nat
           /\ \A i \in 1 .. Len(ss) : /\ Len(ss[i]) \in Nat
                                      /\ Offset(ss, i) = Offset(ss, i - 1) + Len(ss[i])
           /\ \A i \in 0 .. Len(ss) : \A j \in i .. Len(ss) : Offset(ss, i) <= Offset(ss, j)
<1>1. Len(ss) \in Nat
  BY DEF IsNested, IsSequence
<1>2. \A i \in 1 .. Len(ss) : Len(ss[i]) \in Nat
  BY DEF IsNested, IsSequence
<1>3. \A i \in 1 .. Len(ss) : Lens(ss)[i] = Len(ss[i])
  BY DEF Lens
<1> DEFINE n == Len(ss)
           f == Lens(ss)
<1> HIDE DEF n, f
<1>4. n \in Nat /\ \A i \in 1 .. n : f[i] \in Nat
  BY <1>1, <1>2, <1>3 DEF n, f
<1>5. \A i \in 0 .. n : SumTo(f, i) \in Nat
  BY <1>4, SumNatural
<1>6. \A i \in 0 .. n : \A j \in i .. n : SumTo(f, i) <= SumTo(f, j)
  BY <1>4, SumGrows
<1>7. ASSUME NEW i \in 1 .. n PROVE SumTo(f, i) = SumTo(f, i - 1) + f[i]
  <2>1. i - 1 \in Nat /\ (i - 1) + 1 = i
    BY <1>4
  <2>2. SumTo(f, (i - 1) + 1) = SumTo(f, i - 1) + f[(i - 1) + 1]
    BY <2>1, SumNext
  <2> QED
    BY <2>1, <2>2
<1>8. SumTo(f, 0) = 0
  BY SumNext
<1> QED
  BY <1>1, <1>2, <1>3, <1>5, <1>6, <1>7, <1>8 DEF n, f, Offset

Joins(u, s, t) == u = s \o t

HasParts(u, s, t) ==
    /\ IsSequence(u) /\ Len(u) = Len(s) + Len(t)
    /\ \A i \in 1 .. Len(s) : u[i] = s[i]
    /\ \A i \in 1 .. Len(t) : u[Len(s) + i] = t[i]

LEMMA JoinedParts ==
    ASSUME NEW s, NEW t, NEW u, IsSequence(s), IsSequence(t), Joins(u, s, t)
    PROVE  HasParts(u, s, t)
BY ConcatFacts DEF Joins, HasParts

LEMMA LiesNext ==
    ASSUME NEW ss, IsNested(ss), NEW m \in 1 .. Len(ss), NEW f, Lies(f, m - 1, ss)
    PROVE  Lies(f \o ss[m], m, ss)
<1>1. Len(ss) \in Nat /\ m \in Nat
  BY OffsetFacts
<1>2. /\ Offset(ss, m) = Offset(ss, m - 1) + Len(ss[m])
      /\ Len(ss[m]) \in Nat /\ Offset(ss, m - 1) \in Nat
  BY <1>1, OffsetFacts
<1>3. IsSequence(f) /\ IsSequence(ss[m]) /\ Len(f) = Offset(ss, m - 1)
  BY DEF Lies, IsNested
<1>4. PICK g : g = f \o ss[m]
  OBVIOUS
<1>5. /\ IsSequence(g) /\ Len(g) = Len(f) + Len(ss[m])
      /\ \A i \in 1 .. Len(f) : g[i] = f[i]
      /\ \A i \in 1 .. Len(ss[m]) : g[Len(f) + i] = ss[m][i]
  <2>1. Joins(g, f, ss[m])
    BY <1>4 DEF Joins
  <2>2. HasParts(g, f, ss[m])
    BY <1>3, <2>1, JoinedParts
  <2> QED
    BY <2>2 DEF HasParts
<1>6. ASSUME NEW i \in 1 .. m, NEW k \in 1 .. Len(ss[i])
      PROVE  g[Offset(ss, i - 1) + k] = ss[i][k]
  <2>1. CASE i = m
    BY <1>3, <1>5, <2>1
  <2>2. CASE i # m
    <3>1. i \in 1 .. m - 1 /\ i \in 1 .. Len(ss) /\ i \in 0 .. Len(ss) /\ m - 1 \in i .. Len(ss) /\ i - 1 \in 0 .. Len(ss)
      BY <1>1, <2>2
    <3>2. Offset(ss, i) = Offset(ss, i - 1) + Len(ss[i]) /\ Offset(ss, i - 1) \in Nat /\ Len(ss[i]) \in Nat
      BY <3>1, OffsetFacts
    <3>3. Offset(ss, i) <= Offset(ss, m - 1)
      BY <3>1, OffsetFacts
    <3>4. Offset(ss, i - 1) + k \in 1 .. Len(f)
      BY <1>2, <1>3, <3>2, <3>3
    <3>5. f[Offset(ss, i - 1) + k] = ss[i][k]
      BY <3>1 DEF Lies
    <3> QED
      BY <1>5, <3>4, <3>5
  <2> QED
    BY <2>1, <2>2
<1> QED
  BY <1>2, <1>3, <1>4, <1>5, <1>6 DEF Lies

\* FlattenSeq is all of them.
LEMMA FlattenIs ==
    ASSUME NEW ss, Len(ss) \in Nat \ {0}
    PROVE  \E f : Flattens(f, Len(ss), ss) /\ FlattenSeq(ss) = f[Len(ss)]
<1> DEFINE F == CHOOSE f : f = [i \in 1 .. Len(ss) |-> IF i = 1 THEN ss[i] ELSE f[i - 1] \o ss[i]]
<1>1. FlattenSeq(ss) = F[Len(ss)]
  BY DEF FlattenSeq
<1>2. \E f : f = [i \in 1 .. Len(ss) |-> IF i = 1 THEN ss[i] ELSE f[i - 1] \o ss[i]]
  BY FlattenExists DEF Flattens
<1>3. Flattens(F, Len(ss), ss)
  BY <1>2 DEF Flattens
<1> QED
  BY <1>1, <1>3

LEMMA FlattenLies ==
    ASSUME NEW ss, IsNested(ss)
    PROVE  Lies(FlattenSeq(ss), Len(ss), ss)
<1> DEFINE n == Len(ss)
<1>1. n \in Nat
  BY OffsetFacts
<1>2. CASE n = 0
  <2>1. FlattenSeq(ss) = ss
    BY <1>2 DEF FlattenSeq
  <2>2. IsSequence(ss) /\ Len(ss) = 0 /\ Offset(ss, 0) = 0
    BY <1>2, OffsetFacts DEF IsNested
  <2> QED
    BY <1>2, <2>1, <2>2 DEF Lies
<1>3. CASE n # 0
  <2>1. PICK f : Flattens(f, n, ss) /\ FlattenSeq(ss) = f[n]
    BY <1>1, <1>3, FlattenIs
  <2>2. n \in Nat /\ n >= 1
    BY <1>1, <1>3
  <2>3. \A i \in 1 .. n : IsSequence(ss[i])
    BY DEF IsNested
  <2>4. Lies(ss[1], 1, ss)
    <3>1. 1 \in 1 .. n
      BY <2>2
    <3>2. Offset(ss, 1) = Offset(ss, 0) + Len(ss[1]) /\ Offset(ss, 0) = 0 /\ Len(ss[1]) \in Nat
      <4>1. Offset(ss, 1) = Offset(ss, 1 - 1) + Len(ss[1]) /\ Len(ss[1]) \in Nat
        BY <3>1, OffsetFacts
      <4> QED
        BY <4>1, OffsetFacts
    <3>3. \A i \in 1 .. 1 : i = 1 /\ i - 1 = 0
      OBVIOUS
    <3>4. \A k \in 1 .. Len(ss[1]) : 0 + k = k
      BY <3>2
    <3> QED
      BY <2>3, <3>1, <3>2, <3>3, <3>4 DEF Lies
  <2> HIDE DEF n
  <2>5. \A i \in 1 .. n : f[i] = IF i = 1 THEN ss[i] ELSE f[i - 1] \o ss[i]
    BY <2>1 DEF Flattens
  <2> DEFINE Bad == {m \in 1 .. n : ~Lies(f[m], m, ss)}
  <2>6. Bad = {}
    <3> SUFFICES ASSUME Bad # {} PROVE FALSE
      OBVIOUS
    <3>1. PICK m \in Bad : \A l \in Bad : m <= l
      <4>1. Bad \subseteq Nat
        BY <2>2
      <4> QED
        BY <4>1, LeastMember
    <3>2. m \in 1 .. n /\ ~Lies(f[m], m, ss)
      OBVIOUS
    <3>3. m # 1
      BY <2>2, <2>4, <2>5, <3>2
    <3>4. m - 1 \in 1 .. n /\ m - 1 \notin Bad
      BY <2>2, <3>1, <3>2, <3>3
    <3>5. Lies(f[m - 1], m - 1, ss) /\ f[m] = f[m - 1] \o ss[m]
      BY <2>5, <3>2, <3>3, <3>4
    <3>6. m \in 1 .. Len(ss)
      BY <3>2 DEF n
    <3> QED
      BY <3>2, <3>5, <3>6, LiesNext
  <2>7. Lies(f[n], n, ss)
    BY <2>2, <2>6
  <2> QED
    BY <2>1, <2>7 DEF n
<1> QED
  BY <1>2, <1>3

\* Every member of it is a member of one of the sequences.
LEMMA FlattenPlaces ==
    ASSUME NEW ss, IsNested(ss), NEW n \in 1 .. Len(FlattenSeq(ss))
    PROVE  \E i \in 1 .. Len(ss) : \E k \in 1 .. Len(ss[i]) :
              n = Offset(ss, i - 1) + k /\ FlattenSeq(ss)[n] = ss[i][k]
<1>1. Lies(FlattenSeq(ss), Len(ss), ss)
  BY FlattenLies
<1>2. Len(ss) \in Nat /\ \A i \in 1 .. Len(ss) : Len(ss[i]) \in Nat /\ Lens(ss)[i] = Len(ss[i])
  BY OffsetFacts DEF Lens
<1>3. n \in 1 .. SumTo(Lens(ss), Len(ss))
  BY <1>1 DEF Lies, Offset
<1>4. \A i \in 1 .. Len(ss) : Lens(ss)[i] \in Nat
  BY <1>2
<1>5. PICK i \in 1 .. Len(ss) : \E k \in 1 .. Lens(ss)[i] : n = SumTo(Lens(ss), i - 1) + k
  BY <1>2, <1>3, <1>4, SumFinds
<1>8. PICK k \in 1 .. Lens(ss)[i] : n = SumTo(Lens(ss), i - 1) + k
  BY <1>5
<1>6. k \in 1 .. Len(ss[i]) /\ n = Offset(ss, i - 1) + k
  BY <1>2, <1>8 DEF Offset
<1>7. FlattenSeq(ss)[n] = ss[i][k]
  BY <1>1, <1>6 DEF Lies
<1> QED
  BY <1>6, <1>7

-----------------------------------------------------------------------------
(* Records and their bytes.  A record is as valid tuples are, and as they    *)
(* are read again: without a BOOL that has a value, its size enough for its  *)
(* values.                                                                   *)

IsValue(a, v) ==
    /\ a.type # "BOOL"
    /\ a.type \in {"CHAR", "VARCHAR"} => IsText(a, v)
    /\ a.type = "VARCHAR" => v # Garbled

Fields == {"bitmap", "nulls", "values", "size"}

IsRecord(r) ==
    /\ DOMAIN r = Fields
    /\ r.nulls \subseteq DOMAIN table
    /\ r.bitmap = DOMAIN table \ r.nulls
    /\ DOMAIN r.values = DOMAIN table
    /\ \A j \in DOMAIN table \ r.nulls : IsValue(table[j], r.values[j])
    /\ r.size \in Nat /\ SizeOf(r.values, r.nulls) <= r.size

AttributeBytes(r, j) ==
    IF j \in r.nulls THEN DefaultBytes(table[j]) ELSE ValueBytes(table[j], r.values[j])

Lengths(values, nulls) == [i \in DOMAIN table |-> Length(table[i], values[i], i \in nulls)]

LEMMA MapSequence ==
    ASSUME NEW n \in Nat, NEW f, f = [k \in 1 .. n |-> f[k]]
    PROVE  IsSequence(f) /\ Len(f) = n /\ DOMAIN f = 1 .. n
<1>1. DOMAIN f = 1 .. n
  OBVIOUS
<1>2. f \in [1 .. n -> {f[k] : k \in 1 .. n}]
  OBVIOUS
<1>3. f \in Seq({f[k] : k \in 1 .. n}) /\ Len(f) = n
  BY <1>2
<1> QED
  BY <1>1, <1>3 DEF IsSequence

LEMMA TableFacts ==
    ASSUME table \in Tables
    PROVE  /\ IsSequence(table) /\ Len(table) \in Nat /\ DOMAIN table = 1 .. Len(table)
           /\ \A j \in DOMAIN table : table[j].type \in Types /\ table[j].len \in Nat
<1> DEFINE Attribute == [type : Types, len : Nat]
<1>1. \A a \in Attribute : a.type \in Types /\ a.len \in Nat
  OBVIOUS
<1>2. table \in Seq(Attribute)
  BY PageLayoutAssumption
<1> HIDE DEF Attribute
<1>3. PICK t : t = table
  OBVIOUS
<1>4. /\ IsSequence(t) /\ Len(t) \in Nat /\ DOMAIN t = 1 .. Len(t)
      /\ \A i \in 1 .. Len(t) : t[i] \in Attribute
  BY <1>2, <1>3, SequenceOf
<1> QED
  BY <1>1, <1>3, <1>4

LEMMA BytesFacts ==
    ASSUME NEW kind, NEW value, NEW n \in Nat
    PROVE  /\ IsSequence(Bytes(kind, value, n)) /\ Len(Bytes(kind, value, n)) = n
           /\ \A k \in 1 .. n : Bytes(kind, value, n)[k] = Byte(kind, value, k)
BY MapSequence DEF Bytes

LEMMA TextFacts ==
    ASSUME NEW text, IsSequence(text)
    PROVE  /\ IsSequence(TextBytes(text)) /\ Len(TextBytes(text)) = Len(text)
           /\ \A k \in 1 .. Len(text) : TextBytes(text)[k] = Byte("char", text[k], 1)
<1>1. Len(text) \in Nat /\ DOMAIN text = 1 .. Len(text)
  BY SequenceFacts
<1>2. TextBytes(text) = [k \in 1 .. Len(text) |-> Byte("char", text[k], 1)]
  BY <1>1 DEF TextBytes
<1> QED
  BY <1>1, <1>2, MapSequence

LEMMA PaddedFacts ==
    ASSUME NEW text, NEW n \in Nat
    PROVE  /\ IsSequence(Padded(text, n)) /\ Len(Padded(text, n)) = n
           /\ Padded(Padded(text, n), n) = Padded(text, n)
<1>1. IsSequence(Padded(text, n)) /\ Len(Padded(text, n)) = n
  BY MapSequence DEF Padded
<1>2. \A s : Len(s) = n /\ s = [k \in 1 .. n |-> s[k]] => Padded(s, n) = s
  BY DEF Padded
<1>3. Padded(text, n) = [k \in 1 .. n |-> Padded(text, n)[k]]
  BY <1>1 DEF IsSequence
<1> QED
  BY <1>1, <1>2, <1>3

LEMMA LengthNatural ==
    ASSUME table \in Tables, NEW values, NEW nulls, NEW j \in DOMAIN table,
           j \notin nulls => IsValue(table[j], values[j])
    PROVE  Length(table[j], values[j], j \in nulls) \in Nat
<1>1. table[j].type \in Types /\ table[j].len \in Nat
  BY TableFacts
<1>2. j \notin nulls /\ table[j].type = "VARCHAR" => Len(values[j]) \in Nat
  BY DEF IsValue, IsText, IsSequence
<1> QED
  BY <1>1, <1>2 DEF Length, Types, IntSize, DoubleSize

LEMMA AttributeFacts ==
    ASSUME table \in Tables, NEW r, IsRecord(r), NEW j \in DOMAIN table
    PROVE  /\ IsSequence(AttributeBytes(r, j))
           /\ Len(AttributeBytes(r, j)) = Length(table[j], r.values[j], j \in r.nulls)
           /\ Length(table[j], r.values[j], j \in r.nulls) \in Nat
<1>1. table[j].type \in Types /\ table[j].len \in Nat
  BY TableFacts
<1>2. j \notin r.nulls => IsValue(table[j], r.values[j])
  BY DEF IsRecord
<1>3. Length(table[j], r.values[j], j \in r.nulls) \in Nat
  BY <1>2, LengthNatural
<1> DEFINE Whole(s, n) == IsSequence(s) /\ Len(s) = n
<1>4. /\ \A n : Whole(IntBytes(n), 4)
      /\ \A n : Whole(Bytes("double", n, DoubleSize), 8)
      /\ Whole(Bytes("memory", 0, table[j].len), table[j].len)
  <2>1. IntSize = 4 /\ DoubleSize = 8 /\ 4 \in Nat /\ 8 \in Nat
    BY DEF IntSize, DoubleSize
  <2>2. \A n : Whole(Bytes("int", n, 4), 4)
    BY <2>1, BytesFacts
  <2>3. \A n : Whole(Bytes("double", n, 8), 8)
    BY <2>1, BytesFacts
  <2>4. Whole(Bytes("memory", 0, table[j].len), table[j].len)
    BY <1>1, BytesFacts
  <2> QED
    BY <2>1, <2>2, <2>3, <2>4 DEF IntBytes
<1>5. CASE j \in r.nulls
  <2>1. Length(table[j], r.values[j], j \in r.nulls) = Length(table[j], r.values[j], TRUE)
    BY <1>5
  <2>2. Whole(DefaultBytes(table[j]), Length(table[j], r.values[j], TRUE))
    <3> HIDE DEF Whole
    <3> QED
      BY <1>1, <1>4 DEF DefaultBytes, Length, Types, IntSize, DoubleSize
  <2> QED
    BY <1>3, <1>5, <2>1, <2>2 DEF AttributeBytes
<1>6. CASE j \notin r.nulls
  <2> DEFINE v == r.values[j]
  <2>1. Length(table[j], v, j \in r.nulls) = Length(table[j], v, FALSE)
    BY <1>6 DEF Length
  <2>2. table[j].type = "CHAR" => Whole(TextBytes(Padded(v, table[j].len)), table[j].len)
    BY <1>1, PaddedFacts, TextFacts
  <2>3. table[j].type = "VARCHAR" => Whole(IntBytes(Len(v)) \o TextBytes(v), 4 + Len(v))
    <3> SUFFICES ASSUME table[j].type = "VARCHAR"
                 PROVE  Whole(IntBytes(Len(v)) \o TextBytes(v), 4 + Len(v))
      OBVIOUS
    <3>1. IsSequence(v)
      BY <1>2, <1>6 DEF IsValue, IsText
    <3>2. Whole(TextBytes(v), Len(v)) /\ Whole(IntBytes(Len(v)), 4)
      BY <1>4, <3>1, TextFacts
    <3>3. PICK x, y : x = IntBytes(Len(v)) /\ y = TextBytes(v)
      OBVIOUS
    <3>4. IsSequence(x) /\ IsSequence(y) /\ Len(x) = 4 /\ Len(y) = Len(v)
      BY <3>2, <3>3
    <3>5. IsSequence(x \o y) /\ Len(x \o y) = Len(x) + Len(y)
      BY <3>4, ConcatFacts
    <3> QED
      BY <3>3, <3>4, <3>5
  <2>4. Whole(ValueBytes(table[j], v), Length(table[j], v, FALSE))
    <3>1. table[j].type # "BOOL"
      BY <1>2, <1>6 DEF IsValue
    <3> HIDE DEF Whole, v
    <3> QED
      BY <1>1, <1>4, <2>2, <2>3, <3>1 DEF ValueBytes, Length, Types, IntSize, DoubleSize
  <2> QED
    BY <1>3, <1>6, <2>1, <2>4 DEF AttributeBytes
<1> QED
  BY <1>5, <1>6

\* How many bytes of a record are before attribute j.
Before(r, j) == IntSize + SumTo(Lengths(r.values, r.nulls), j - 1)

LEMMA BeforeFacts ==
    ASSUME table \in Tables, NEW r, IsRecord(r)
    PROVE  /\ \A j \in 1 .. Len(table) + 1 : Before(r, j) \in Nat /\ IntSize <= Before(r, j)
           /\ Before(r, 1) = IntSize
           /\ \A j \in DOMAIN table :
                 Before(r, j + 1) = Before(r, j) + Length(table[j], r.values[j], j \in r.nulls)
           /\ Before(r, Len(table) + 1) = SizeOf(r.values, r.nulls)
<1> DEFINE n == Len(table)
           f == Lengths(r.values, r.nulls)
<1>1. n \in Nat /\ DOMAIN table = 1 .. n
  BY TableFacts
<1>2. \A j \in 1 .. n : f[j] = Length(table[j], r.values[j], j \in r.nulls) /\ f[j] \in Nat
  BY <1>1, AttributeFacts DEF Lengths
<1> HIDE DEF n, f
<1>3. \A j \in 0 .. n : SumTo(f, j) \in Nat
  BY <1>1, <1>2, SumNatural
<1>4. \A j \in 1 .. n + 1 : j - 1 \in 0 .. n
  BY <1>1
<1>5. ASSUME NEW j \in 1 .. n PROVE SumTo(f, (j + 1) - 1) = SumTo(f, j - 1) + f[j]
  <2>1. j - 1 \in Nat /\ (j - 1) + 1 = j /\ (j + 1) - 1 = j
    BY <1>1
  <2>2. SumTo(f, (j - 1) + 1) = SumTo(f, j - 1) + f[(j - 1) + 1]
    BY <2>1, SumNext
  <2> QED
    BY <2>1, <2>2
<1>6. SumTo(f, 1 - 1) = 0
  BY SumNext
<1>7. \A j \in 1 .. n + 1 : Before(r, j) \in Nat /\ IntSize <= Before(r, j)
  BY <1>3, <1>4 DEF Before, IntSize, f
<1>8. Before(r, 1) = IntSize
  BY <1>6 DEF Before, IntSize, f
<1>9. ASSUME NEW j \in 1 .. n
      PROVE  Before(r, j + 1) = Before(r, j) + Length(table[j], r.values[j], j \in r.nulls)
  <2>1. j - 1 \in 0 .. n /\ SumTo(f, j - 1) \in Nat /\ f[j] \in Nat
    BY <1>1, <1>2, <1>3
  <2>2. Before(r, j + 1) = IntSize + SumTo(f, (j + 1) - 1) /\ Before(r, j) = IntSize + SumTo(f, j - 1)
    BY DEF Before, f
  <2> QED
    BY <1>2, <1>5, <2>1, <2>2 DEF IntSize
<1>10. Before(r, n + 1) = SizeOf(r.values, r.nulls)
  <2>1. (n + 1) - 1 = n
    BY <1>1
  <2> QED
    BY <2>1 DEF Before, SizeOf, Lengths, n
<1> QED
  BY <1>1, <1>7, <1>8, <1>9, <1>10 DEF n

\* The bytes of a record: its bitmap, then attribute after attribute.
LEMMA RecordBytesFacts ==
    ASSUME table \in Tables, NEW r, IsRecord(r)
    PROVE  /\ IsSequence(RecordBytes(r))
           /\ Len(RecordBytes(r)) = SizeOf(r.values, r.nulls)
           /\ \A k \in 1 .. IntSize : RecordBytes(r)[k] = Byte("bitmap", r.bitmap, k)
           /\ \A j \in DOMAIN table : \A k \in 1 .. Length(table[j], r.values[j], j \in r.nulls) :
                 RecordBytes(r)[Before(r, j) + k] = AttributeBytes(r, j)[k]
<1> DEFINE n == Len(table)
           g == Lengths(r.values, r.nulls)
<1>1. n \in Nat /\ DOMAIN table = 1 .. n
  BY TableFacts
<1>2. PICK ss : ss = [i \in DOMAIN table |-> AttributeBytes(r, i)]
  OBVIOUS
<1>3. PICK b : b = Bytes("bitmap", r.bitmap, IntSize)
  OBVIOUS
<1>4. PICK t : t = FlattenSeq(ss)
  OBVIOUS
<1>5. RecordBytes(r) = b \o t
  <2>1. ss = [i \in DOMAIN table |-> IF i \in r.nulls THEN DefaultBytes(table[i])
                                     ELSE ValueBytes(table[i], r.values[i])]
    BY <1>2 DEF AttributeBytes
  <2> QED
    BY <1>3, <1>4, <2>1 DEF RecordBytes
<1>6. /\ IsSequence(b) /\ Len(b) = 4
      /\ \A k \in 1 .. 4 : b[k] = Byte("bitmap", r.bitmap, k)
  <2>1. IntSize = 4 /\ 4 \in Nat
    BY DEF IntSize
  <2> QED
    BY <1>3, <2>1, BytesFacts
<1>7. \A j \in 1 .. n : /\ IsSequence(AttributeBytes(r, j))
                        /\ Len(AttributeBytes(r, j)) = g[j] /\ g[j] \in Nat
                        /\ g[j] = Length(table[j], r.values[j], j \in r.nulls)
  BY <1>1, AttributeFacts DEF Lengths
<1> HIDE DEF g, n
<1>8. Len(ss) = n /\ IsSequence(ss)
  BY <1>1, <1>2, MapSequence
<1>9. IsNested(ss) /\ \A j \in 1 .. n : ss[j] = AttributeBytes(r, j)
  BY <1>1, <1>2, <1>7, <1>8 DEF IsNested
<1>10. \A j \in 0 .. n : Offset(ss, j) = SumTo(g, j)
  <2>1. \A j \in 1 .. n : Lens(ss)[j] = g[j]
    BY <1>7, <1>8, <1>9 DEF Lens
  <2> QED
    BY <1>1, <2>1, SumSame DEF Offset
<1>11. Lies(t, n, ss)
  BY <1>4, <1>8, <1>9, FlattenLies
<1>12. \A j \in 0 .. n : SumTo(g, j) \in Nat
  BY <1>1, <1>7, SumNatural
<1>13. IsSequence(t) /\ Len(t) = SumTo(g, n) /\ n \in 0 .. n
  BY <1>1, <1>10, <1>11 DEF Lies
<1>14. PICK u : u = b \o t
  OBVIOUS
<1>15. /\ IsSequence(u) /\ Len(u) = 4 + Len(t)
       /\ \A i \in 1 .. 4 : u[i] = b[i]
       /\ \A i \in 1 .. Len(t) : u[4 + i] = t[i]
  <2>1. IsSequence(b) /\ IsSequence(t)
    BY <1>6, <1>13
  <2>2. /\ IsSequence(u) /\ Len(u) = Len(b) + Len(t)
        /\ \A i \in 1 .. Len(b) : u[i] = b[i]
        /\ \A i \in 1 .. Len(t) : u[Len(b) + i] = t[i]
    <3>1. HasParts(u, b, t)
      BY <1>14, <2>1, JoinedParts DEF Joins
    <3> QED
      BY <3>1 DEF HasParts
  <2> QED
    BY <1>6, <2>2
<1>16. SizeOf(r.values, r.nulls) = 4 + SumTo(g, n)
  BY DEF SizeOf, Lengths, IntSize, g, n
<1>17. ASSUME NEW j \in 1 .. n, NEW k \in 1 .. g[j]
       PROVE  u[Before(r, j) + k] = AttributeBytes(r, j)[k]
  <2>1. Before(r, j) = 4 + SumTo(g, j - 1)
    BY DEF Before, IntSize, g
  <2>2. j - 1 \in 0 .. n /\ j \in 0 .. n /\ n \in j .. n
    BY <1>1
  <2>3. t[SumTo(g, j - 1) + k] = AttributeBytes(r, j)[k]
    <3>1. k \in 1 .. Len(ss[j])
      BY <1>7, <1>9
    <3>2. t[Offset(ss, j - 1) + k] = ss[j][k]
      BY <1>11, <3>1 DEF Lies
    <3> QED
      BY <1>9, <1>10, <2>2, <3>2
  <2>4. SumTo(g, j) = SumTo(g, j - 1) + g[j]
    <3>1. j - 1 \in Nat /\ (j - 1) + 1 = j
      BY <1>1
    <3>2. SumTo(g, (j - 1) + 1) = SumTo(g, j - 1) + g[(j - 1) + 1]
      BY <3>1, SumNext
    <3> QED
      BY <3>1, <3>2
  <2>5. SumTo(g, j) <= SumTo(g, n)
    BY <1>1, <1>7, <2>2, SumGrows
  <2>6. SumTo(g, j - 1) \in Nat /\ SumTo(g, n) \in Nat /\ g[j] \in Nat /\ k \in Nat
    BY <1>7, <1>12, <1>13, <2>2
  <2>7. SumTo(g, j - 1) + k \in 1 .. Len(t)
    BY <1>13, <2>4, <2>5, <2>6
  <2>8. u[4 + (SumTo(g, j - 1) + k)] = t[SumTo(g, j - 1) + k]
    BY <1>15, <2>7
  <2>9. Before(r, j) + k = 4 + (SumTo(g, j - 1) + k)
    BY <2>1, <2>6
  <2> QED
    BY <2>3, <2>8, <2>9
<1>18. IntSize = 4
  BY DEF IntSize
<1>19. RecordBytes(r) = u
  BY <1>5, <1>14
<1>20. \A j \in DOMAIN table : \A k \in 1 .. Length(table[j], r.values[j], j \in r.nulls) :
          u[Before(r, j) + k] = AttributeBytes(r, j)[k]
  BY <1>1, <1>7, <1>17
<1>21. \A k \in 1 .. IntSize : u[k] = Byte("bitmap", r.bitmap, k)
  BY <1>6, <1>15, <1>18
<1> QED
  BY <1>13, <1>15, <1>16, <1>19, <1>20, <1>21

-----------------------------------------------------------------------------
(* Pages and the places of their records.  Everything that is written for a  *)
(* page stays within it, and nothing is written over.                        *)

IsPage(page) ==
    /\ IsSequence(page) /\ page # <<>>
    /\ \A i \in 1 .. Len(page) : IsRecord(page[i])
    /\ Fits(page)

IsChain(chain) == IsSequence(chain) /\ \A p \in 1 .. Len(chain) : IsPage(chain[p])

LEMMA PageFacts ==
    ASSUME NEW page, IsPage(page)
    PROVE  Len(page) \in Nat /\ Len(page) >= 1 /\ DOMAIN page = 1 .. Len(page)
<1>1. Len(page) \in Nat /\ DOMAIN page = 1 .. Len(page)
  BY SequenceFacts DEF IsPage
<1>2. Len(page) # 0
  <2>1. IsSequence(page) /\ page # <<>>
    BY DEF IsPage
  <2> QED
    BY <2>1, SequenceFacts
<1> QED
  BY <1>1, <1>2

LEMMA PlaceFacts ==
    ASSUME NEW page, IsPage(page)
    PROVE  /\ \A i \in 0 .. Len(page) : Place(page, i) \in Nat /\ Header + IntSize * Len(page) <= Place(page, i)
           /\ Place(page, 0) = PageSize
           /\ \A i \in 1 .. Len(page) : Place(page, i - 1) = Place(page, i) + page[i].size
           /\ \A i \in 0 .. Len(page) : \A j \in i .. Len(page) : Place(page, j) <= Place(page, i)
<1> DEFINE n == Len(page)
           f == [k \in DOMAIN page |-> page[k].size]
<1>1. n \in Nat /\ DOMAIN page = 1 .. n
  BY PageFacts
<1>2. \A i \in 1 .. n : f[i] = page[i].size /\ f[i] \in Nat
  BY <1>1 DEF IsPage, IsRecord
<1>3. 8 + 4 * n + SumTo(f, n) <= PageSize /\ PageSize \in Nat
  BY PageLayoutAssumption DEF IsPage, Fits, Header, IntSize
<1>4. \A i : Place(page, i) = PageSize - SumTo(f, i)
  BY DEF Place
<1> HIDE DEF n, f
<1>5. \A i \in 0 .. n : SumTo(f, i) \in Nat
  BY <1>1, <1>2, SumNatural
<1>6. \A i \in 0 .. n : \A j \in i .. n : SumTo(f, i) <= SumTo(f, j)
  BY <1>1, <1>2, SumGrows
<1>7. \A i \in 0 .. n : SumTo(f, i) <= SumTo(f, n) /\ n \in 0 .. n
  BY <1>1, <1>6
<1>8. ASSUME NEW i \in 1 .. n PROVE SumTo(f, i) = SumTo(f, i - 1) + f[i]
  <2>1. i - 1 \in Nat /\ (i - 1) + 1 = i
    BY <1>1
  <2>2. SumTo(f, (i - 1) + 1) = SumTo(f, i - 1) + f[(i - 1) + 1]
    BY <2>1, SumNext
  <2> QED
    BY <2>1, <2>2
<1>9. ASSUME NEW i \in 0 .. n
      PROVE  Place(page, i) \in Nat /\ Header + IntSize * n <= Place(page, i)
  <2>1. SumTo(f, i) \in Nat /\ SumTo(f, n) \in Nat /\ SumTo(f, i) <= SumTo(f, n)
    BY <1>5, <1>7
  <2>2. 8 + 4 * n <= PageSize - SumTo(f, i) /\ PageSize - SumTo(f, i) \in Nat
    BY <1>1, <1>3, <2>1
  <2> QED
    BY <1>4, <2>2 DEF Header, IntSize
<1>10. Place(page, 0) = PageSize
  BY <1>3, <1>4, SumNext
<1>11. ASSUME NEW i \in 1 .. n PROVE Place(page, i - 1) = Place(page, i) + page[i].size
  <2>1. i \in 0 .. n /\ i - 1 \in 0 .. n
    BY <1>1
  <2> QED
    BY <1>2, <1>3, <1>4, <1>5, <1>8, <2>1
<1>12. ASSUME NEW i \in 0 .. n, NEW j \in i .. n PROVE Place(page, j) <= Place(page, i)
  <2>1. j \in 0 .. n /\ SumTo(f, i) <= SumTo(f, j)
    BY <1>1, <1>6
  <2> QED
    BY <1>3, <1>4, <1>5, <2>1
<1> QED
  BY <1>9, <1>10, <1>11, <1>12 DEF n

\* Where page p begins.
Start(p) == (p - 1) * PageSize

LEMMA StartFacts ==
    ASSUME NEW p \in Nat \ {0}
    PROVE  /\ Start(p) \in Nat /\ Start(1) = 0 /\ Start(p + 1) = Start(p) + PageSize
           /\ \A q \in Nat : p < q => Start(p) + PageSize <= Start(q)
<1>1. PageSize \in Nat
  BY PageLayoutAssumption
<1> DEFINE P == PageSize
<1> HIDE DEF P
<1>2. P \in Nat
  BY <1>1 DEF P
<1>3. \A a, b \in Nat : a * P \in Nat /\ (a + b) * P = a * P + b * P
  BY <1>2
<1>4. 0 * P = 0 /\ 1 * P = P
  BY <1>2
<1>5. (p - 1) * P \in Nat /\ ((p + 1) - 1) * P = (p - 1) * P + P
  <2>1. p - 1 \in Nat /\ (p + 1) - 1 = (p - 1) + 1 /\ 1 \in Nat
    OBVIOUS
  <2> QED
    BY <1>3, <1>4, <2>1
<1>6. ASSUME NEW q \in Nat, p < q PROVE (p - 1) * P + P <= (q - 1) * P
  <2>1. p - 1 \in Nat /\ p \in Nat /\ p = (p - 1) + 1 /\ 1 \in Nat /\ q - 1 - p \in Nat /\ q - 1 = p + (q - 1 - p)
    BY <1>6
  <2>2. p * P = (p - 1) * P + P
    BY <1>3, <1>4, <2>1
  <2>3. (q - 1) * P = p * P + (q - 1 - p) * P /\ (q - 1 - p) * P \in Nat
    BY <1>3, <2>1
  <2>4. p * P \in Nat
    BY <1>3, <2>1
  <2> QED
    BY <2>2, <2>3, <2>4
<1>7. (1 - 1) * P = 0
  BY <1>4
<1> QED
  BY <1>5, <1>6, <1>7 DEF Start, P

-----------------------------------------------------------------------------
(* The calls of fwrite *)

HeaderWrite(chain, p) ==
    At(Start(p), IntBytes(IF p < Len(chain) THEN 1 ELSE 37) \o IntBytes(Len(chain[p])))

OffsetWrite(chain, p, i) ==
    At(Start(p) + IntSize + IntSize * i, IntBytes(Place(chain[p], i)))

RecordWrite(chain, p, i) == At(Start(p) + Place(chain[p], i), RecordBytes(chain[p][i]))

IsWrite(chain, p, w) ==
    \/ w = HeaderWrite(chain, p)
    \/ \E i \in 1 .. Len(chain[p]) : w = OffsetWrite(chain, p, i) \/ w = RecordWrite(chain, p, i)

\* v is in the sequence s.
Holds(s, v) == \E n \in 1 .. Len(s) : s[n] = v

LEMMA FlattenHolds ==
    ASSUME NEW ss, IsNested(ss)
    PROVE  /\ IsSequence(FlattenSeq(ss))
           /\ \A v : Holds(FlattenSeq(ss), v) <=> \E i \in 1 .. Len(ss) : Holds(ss[i], v)
<1> DEFINE f == FlattenSeq(ss)
<1>1. Lies(f, Len(ss), ss)
  BY FlattenLies
<1>2. IsSequence(f) /\ Len(f) = Offset(ss, Len(ss))
  BY <1>1 DEF Lies
<1>3. ASSUME NEW v, Holds(f, v) PROVE \E i \in 1 .. Len(ss) : Holds(ss[i], v)
  <2>1. PICK n \in 1 .. Len(f) : f[n] = v
    BY <1>3 DEF Holds
  <2>2. \E i \in 1 .. Len(ss) : \E k \in 1 .. Len(ss[i]) : f[n] = ss[i][k]
    BY <2>1, FlattenPlaces
  <2> QED
    BY <2>1, <2>2 DEF Holds
<1>4. ASSUME NEW v, NEW i \in 1 .. Len(ss), Holds(ss[i], v) PROVE Holds(f, v)
  <2>1. PICK k \in 1 .. Len(ss[i]) : ss[i][k] = v
    BY <1>4 DEF Holds
  <2>2. f[Offset(ss, i - 1) + k] = v
    BY <1>1, <2>1 DEF Lies
  <2>3. Len(ss) \in Nat
    BY OffsetFacts
  <2>4. i - 1 \in 0 .. Len(ss) /\ i \in 0 .. Len(ss) /\ Len(ss) \in i .. Len(ss)
    BY <2>3
  <2>5. /\ Offset(ss, i) = Offset(ss, i - 1) + Len(ss[i]) /\ Len(ss[i]) \in Nat
        /\ Offset(ss, i - 1) \in Nat /\ Offset(ss, Len(ss)) \in Nat
        /\ Offset(ss, i) <= Offset(ss, Len(ss))
    BY <2>3, <2>4, OffsetFacts
  <2>6. Offset(ss, i - 1) + k \in 1 .. Len(f)
    BY <1>2, <2>5
  <2> QED
    BY <2>2, <2>6 DEF Holds
<1> HIDE DEF f
<1>5. IsSequence(f) /\ \A v : Holds(f, v) <=> \E i \in 1 .. Len(ss) : Holds(ss[i], v)
  BY <1>2, <1>3, <1>4
<1> QED
  BY <1>5 DEF f

LEMMA PageWritesFacts ==
    ASSUME NEW chain, IsChain(chain), NEW p \in 1 .. Len(chain)
    PROVE  /\ IsSequence(PageWrites(chain, p))
           /\ \A w : Holds(PageWrites(chain, p), w) <=> IsWrite(chain, p, w)
<1> DEFINE page == chain[p]
           n == Len(page)
<1>1. n \in Nat /\ DOMAIN page = 1 .. n
  BY PageFacts DEF IsChain
<1>2. PICK ss : ss = [i \in DOMAIN page |-> <<OffsetWrite(chain, p, i), RecordWrite(chain, p, i)>>]
  OBVIOUS
<1>3. PICK h : h = <<HeaderWrite(chain, p)>>
  OBVIOUS
<1>4. PICK t : t = FlattenSeq(ss)
  OBVIOUS
<1>5. Joins(PageWrites(chain, p), h, t)
  BY <1>2, <1>3, <1>4 DEF Joins, PageWrites, HeaderWrite, OffsetWrite, RecordWrite, Start
<1> HIDE DEF n
<1>6. Len(ss) = n /\ IsSequence(ss)
  BY <1>1, <1>2, MapSequence
<1>7. \A i \in 1 .. n : ss[i] = <<OffsetWrite(chain, p, i), RecordWrite(chain, p, i)>>
  BY <1>1, <1>2
<1>8. \A a, b : IsSequence(<<a, b>>) /\ \A v : Holds(<<a, b>>, v) <=> v = a \/ v = b
  <2> TAKE a, b
  <2>1. Len(<<a, b>>) = 2 /\ <<a, b>>[1] = a /\ <<a, b>>[2] = b /\ <<a, b>> = [i \in 1 .. 2 |-> <<a, b>>[i]]
    OBVIOUS
  <2>2. \A i \in 1 .. 2 : i = 1 \/ i = 2
    OBVIOUS
  <2> QED
    BY <2>1, <2>2 DEF Holds, IsSequence
<1>18. ASSUME NEW i \in 1 .. n
       PROVE  /\ IsSequence(ss[i])
              /\ \A v : Holds(ss[i], v) <=> v = OffsetWrite(chain, p, i) \/ v = RecordWrite(chain, p, i)
  <2>1. PICK a, b : a = OffsetWrite(chain, p, i) /\ b = RecordWrite(chain, p, i)
    OBVIOUS
  <2>2. ss[i] = <<a, b>>
    BY <1>7, <2>1
  <2>3. IsSequence(ss[i]) /\ \A v : Holds(ss[i], v) <=> v = a \/ v = b
    BY <1>8, <2>2
  <2> QED
    BY <2>1, <2>3
<1>9. IsNested(ss)
  BY <1>6, <1>18 DEF IsNested
<1>10. IsSequence(t) /\ \A v : Holds(t, v) <=> \E i \in 1 .. n : Holds(ss[i], v)
  BY <1>4, <1>6, <1>9, FlattenHolds
<1>11. \A v : Holds(t, v) <=> \E i \in 1 .. n : v = OffsetWrite(chain, p, i) \/ v = RecordWrite(chain, p, i)
  BY <1>10, <1>18
<1>12. IsSequence(h) /\ Len(h) = 1 /\ h[1] = HeaderWrite(chain, p)
  BY <1>3, SingleSequence
<1>13. PICK u : u = PageWrites(chain, p)
  OBVIOUS
<1>14. HasParts(u, h, t)
  BY <1>5, <1>10, <1>12, <1>13, JoinedParts
<1>15. Len(t) \in Nat /\ Len(u) = 1 + Len(t) /\ u[1] = h[1] /\ \A i \in 1 .. Len(t) : u[1 + i] = t[i]
  BY <1>10, <1>12, <1>14 DEF HasParts, IsSequence
<1>16. ASSUME NEW w PROVE Holds(u, w) <=> w = HeaderWrite(chain, p) \/ Holds(t, w)
  <2>1. \A i \in 1 .. Len(u) : i = 1 \/ (i - 1 \in 1 .. Len(t) /\ u[i] = t[i - 1])
    <3> TAKE i \in 1 .. Len(u)
    <3>1. i # 1 => i - 1 \in 1 .. Len(t) /\ 1 + (i - 1) = i
      BY <1>15
    <3> QED
      BY <1>15, <3>1
  <2>2. 1 \in 1 .. Len(u) /\ \A i \in 1 .. Len(t) : 1 + i \in 1 .. Len(u)
    BY <1>15
  <2> QED
    BY <1>12, <1>15, <2>1, <2>2 DEF Holds
<1>17. IsSequence(u)
  BY <1>14 DEF HasParts
<1> QED
  BY <1>11, <1>13, <1>16, <1>17 DEF IsWrite, n

\* What is written, all pages one after the other.
Writes(chain) == FlattenSeq([p \in DOMAIN chain |-> PageWrites(chain, p)])

LEMMA WritesFacts ==
    ASSUME NEW chain, IsChain(chain)
    PROVE  /\ IsSequence(Writes(chain))
           /\ \A w : Holds(Writes(chain), w) <=> \E p \in 1 .. Len(chain) : IsWrite(chain, p, w)
<1>1. Len(chain) \in Nat /\ DOMAIN chain = 1 .. Len(chain)
  BY SequenceFacts DEF IsChain
<1>2. PICK ss : ss = [p \in DOMAIN chain |-> PageWrites(chain, p)]
  OBVIOUS
<1>3. IsSequence(ss) /\ Len(ss) = Len(chain) /\ \A p \in 1 .. Len(chain) : ss[p] = PageWrites(chain, p)
  BY <1>1, <1>2, MapSequence
<1>4. IsNested(ss)
  BY <1>3, PageWritesFacts DEF IsNested
<1>5. /\ IsSequence(FlattenSeq(ss))
      /\ \A w : Holds(FlattenSeq(ss), w) <=> \E p \in 1 .. Len(chain) : Holds(ss[p], w)
  BY <1>3, <1>4, FlattenHolds
<1>6. Writes(chain) = FlattenSeq(ss)
  BY <1>2 DEF Writes
<1> QED
  BY <1>3, <1>5, <1>6, PageWritesFacts

\* Where each of them begins and ends.
LEMMA WriteExtents ==
    ASSUME table \in Tables, NEW chain, IsChain(chain), NEW p \in 1 .. Len(chain)
    PROVE  /\ HeaderWrite(chain, p).at = Start(p)
           /\ IsSequence(HeaderWrite(chain, p).bytes) /\ Len(HeaderWrite(chain, p).bytes) = 8
           /\ \A i \in 1 .. Len(chain[p]) :
                 /\ OffsetWrite(chain, p, i).at = Start(p) + 4 + 4 * i
                 /\ IsSequence(OffsetWrite(chain, p, i).bytes) /\ Len(OffsetWrite(chain, p, i).bytes) = 4
                 /\ RecordWrite(chain, p, i).at = Start(p) + Place(chain[p], i)
                 /\ IsSequence(RecordWrite(chain, p, i).bytes)
                 /\ Place(chain[p], i) + Len(RecordWrite(chain, p, i).bytes) <= Place(chain[p], i - 1)
<1>1. \A n : IsSequence(IntBytes(n)) /\ Len(IntBytes(n)) = 4
  <2>1. IntSize = 4 /\ 4 \in Nat
    BY DEF IntSize
  <2> QED
    BY <2>1, BytesFacts DEF IntBytes
<1>2. \A a, b : At(a, b).at = a /\ At(a, b).bytes = b
  BY DEF At
<1>3. /\ HeaderWrite(chain, p).at = Start(p)
      /\ IsSequence(HeaderWrite(chain, p).bytes) /\ Len(HeaderWrite(chain, p).bytes) = 8
  <2>1. PICK x, y : x = IntBytes(IF p < Len(chain) THEN 1 ELSE 37) /\ y = IntBytes(Len(chain[p]))
    OBVIOUS
  <2>2. IsSequence(x) /\ IsSequence(y) /\ Len(x) = 4 /\ Len(y) = 4
    BY <1>1, <2>1
  <2>3. PICK u : u = x \o y
    OBVIOUS
  <2>4. HasParts(u, x, y)
    BY <2>2, <2>3, JoinedParts DEF Joins
  <2>5. IsSequence(u) /\ Len(u) = 8
    BY <2>2, <2>4 DEF HasParts
  <2>6. HeaderWrite(chain, p) = At(Start(p), u)
    BY <2>1, <2>3 DEF HeaderWrite
  <2> QED
    BY <1>2, <2>5, <2>6
<1>4. ASSUME NEW i \in 1 .. Len(chain[p])
      PROVE  /\ OffsetWrite(chain, p, i).at = Start(p) + 4 + 4 * i
             /\ IsSequence(OffsetWrite(chain, p, i).bytes) /\ Len(OffsetWrite(chain, p, i).bytes) = 4
  BY <1>1, <1>2 DEF OffsetWrite, IntSize
<1>5. ASSUME NEW i \in 1 .. Len(chain[p])
      PROVE  /\ RecordWrite(chain, p, i).at = Start(p) + Place(chain[p], i)
             /\ IsSequence(RecordWrite(chain, p, i).bytes)
             /\ Place(chain[p], i) + Len(RecordWrite(chain, p, i).bytes) <= Place(chain[p], i - 1)
  <2>1. IsPage(chain[p]) /\ IsRecord(chain[p][i])
    BY DEF IsChain, IsPage
  <2>2. PICK r : r = chain[p][i]
    OBVIOUS
  <2>3. IsSequence(RecordBytes(r)) /\ Len(RecordBytes(r)) = SizeOf(r.values, r.nulls)
    BY <2>1, <2>2, RecordBytesFacts
  <2>4. SizeOf(r.values, r.nulls) <= r.size /\ r.size \in Nat
    BY <2>1, <2>2 DEF IsRecord
  <2>5. Len(chain[p]) \in Nat
    BY <2>1, PageFacts
  <2>6. Place(chain[p], i) \in Nat /\ Place(chain[p], i - 1) = Place(chain[p], i) + chain[p][i].size
    <3>1. i \in 0 .. Len(chain[p])
      BY <2>5
    <3> QED
      BY <2>1, <3>1, PlaceFacts
  <2>7. Len(RecordBytes(r)) \in Nat
    BY <2>3 DEF IsSequence
  <2>8. Place(chain[p], i) + Len(RecordBytes(r)) <= Place(chain[p], i - 1)
    BY <2>2, <2>3, <2>4, <2>6, <2>7
  <2>9. RecordWrite(chain, p, i) = At(Start(p) + Place(chain[p], i), RecordBytes(r))
    BY <2>2 DEF RecordWrite
  <2> QED
    BY <1>2, <2>3, <2>8, <2>9
<1> QED
  BY <1>3, <1>4, <1>5

Covers(w, n) == n \in w.at .. w.at + Len(w.bytes) - 1

LEMMA WriteFacts ==
    ASSUME table \in Tables, NEW chain, IsChain(chain), NEW p \in 1 .. Len(chain), NEW w, IsWrite(chain, p, w)
    PROVE  /\ w.at \in Nat /\ IsSequence(w.bytes) /\ Len(w.bytes) \in Nat
           /\ Start(p) <= w.at /\ w.at + Len(w.bytes) <= Start(p) + PageSize
<1>1. Len(chain) \in Nat /\ p \in Nat \ {0}
  BY SequenceFacts DEF IsChain
<1>2. Start(p) \in Nat /\ PageSize \in Nat
  BY <1>1, StartFacts, PageLayoutAssumption
<1>3. IsPage(chain[p])
  BY DEF IsChain
<1> DEFINE n == Len(chain[p])
<1>4. n \in Nat /\ n >= 1
  BY <1>3, PageFacts
<1> HIDE DEF n
<1>5. \A i \in 0 .. n : Place(chain[p], i) \in Nat /\ 8 + 4 * n <= Place(chain[p], i) /\ Place(chain[p], i) <= PageSize
  <2>1. \A i \in 0 .. n : 0 \in 0 .. n /\ i \in 0 .. n
    BY <1>4
  <2> QED
    BY <1>3, <1>4, <2>1, PlaceFacts DEF n, Header, IntSize
<1>6. CASE w = HeaderWrite(chain, p)
  <2>1. w.at = Start(p) /\ IsSequence(w.bytes) /\ Len(w.bytes) = 8
    BY <1>6, WriteExtents
  <2>2. 0 \in 0 .. n
    BY <1>4
  <2>3. 8 <= PageSize
    BY <1>2, <1>4, <1>5, <2>2
  <2> QED
    BY <1>2, <2>1, <2>3
<1>7. ASSUME NEW i \in 1 .. n, w = OffsetWrite(chain, p, i)
      PROVE  /\ w.at \in Nat /\ IsSequence(w.bytes) /\ Len(w.bytes) \in Nat
             /\ Start(p) <= w.at /\ w.at + Len(w.bytes) <= Start(p) + PageSize
  <2>1. w.at = Start(p) + 4 + 4 * i /\ IsSequence(w.bytes) /\ Len(w.bytes) = 4
    BY <1>7, WriteExtents DEF n
  <2>2. 8 + 4 * n <= PageSize
    <3>1. n \in 0 .. n
      BY <1>4
    <3> QED
      BY <1>2, <1>4, <1>5, <3>1
  <2> QED
    BY <1>2, <1>4, <2>1, <2>2
<1>8. ASSUME NEW i \in 1 .. n, w = RecordWrite(chain, p, i)
      PROVE  /\ w.at \in Nat /\ IsSequence(w.bytes) /\ Len(w.bytes) \in Nat
             /\ Start(p) <= w.at /\ w.at + Len(w.bytes) <= Start(p) + PageSize
  <2>1. /\ w.at = Start(p) + Place(chain[p], i) /\ IsSequence(w.bytes)
        /\ Place(chain[p], i) + Len(w.bytes) <= Place(chain[p], i - 1)
    BY <1>8, WriteExtents DEF n
  <2>2. i \in 0 .. n /\ i - 1 \in 0 .. n
    BY <1>4
  <2>3. Len(w.bytes) \in Nat
    BY <2>1 DEF IsSequence
  <2>4. Place(chain[p], i) \in Nat /\ Place(chain[p], i - 1) \in Nat /\ Place(chain[p], i - 1) <= PageSize
    BY <1>5, <2>2
  <2> QED
    BY <1>2, <2>1, <2>3, <2>4
<1> QED
  BY <1>6, <1>7, <1>8 DEF IsWrite, n

\* No byte is written twice.
LEMMA WritesApart ==
    ASSUME table \in Tables, NEW chain, IsChain(chain),
           NEW p \in 1 .. Len(chain), NEW v, IsWrite(chain, p, v),
           NEW q \in 1 .. Len(chain), NEW w, IsWrite(chain, q, w),
           NEW n \in Int, Covers(v, n), Covers(w, n)
    PROVE  v = w
<1>1. Len(chain) \in Nat /\ p \in Nat \ {0} /\ q \in Nat \ {0}
  BY SequenceFacts DEF IsChain
<1>2. Start(p) \in Nat /\ Start(q) \in Nat /\ PageSize \in Nat
  BY <1>1, StartFacts, PageLayoutAssumption
<1>3. /\ v.at \in Nat /\ Len(v.bytes) \in Nat /\ Start(p) <= v.at /\ v.at + Len(v.bytes) <= Start(p) + PageSize
      /\ w.at \in Nat /\ Len(w.bytes) \in Nat /\ Start(q) <= w.at /\ w.at + Len(w.bytes) <= Start(q) + PageSize
  BY WriteFacts
<1>4. v.at <= n /\ n < v.at + Len(v.bytes) /\ w.at <= n /\ n < w.at + Len(w.bytes)
  BY <1>3 DEF Covers
<1>5. p = q
  <2>1. p < q => Start(p) + PageSize <= Start(q)
    BY <1>1, StartFacts
  <2>2. q < p => Start(q) + PageSize <= Start(p)
    BY <1>1, StartFacts
  <2> QED
    BY <1>1, <1>2, <1>3, <1>4, <2>1, <2>2
<1> DEFINE m == Len(chain[p])
           s == Start(p)
<1>6. IsPage(chain[p]) /\ m \in Nat
  BY PageFacts DEF IsChain
<1> HIDE DEF m, s
<1>7. /\ \A i \in 0 .. m : Place(chain[p], i) \in Nat /\ 8 + 4 * m <= Place(chain[p], i)
      /\ \A i \in 0 .. m : \A j \in i .. m : Place(chain[p], j) <= Place(chain[p], i)
  BY <1>6, PlaceFacts DEF m, Header, IntSize
<1> DEFINE IsHeader(x) == x = HeaderWrite(chain, p) /\ x.at = s /\ Len(x.bytes) = 8
           IsOffset(x, i) == x = OffsetWrite(chain, p, i) /\ x.at = s + 4 + 4 * i /\ Len(x.bytes) = 4
           IsBody(x, i) == /\ x = RecordWrite(chain, p, i) /\ x.at = s + Place(chain[p], i)
                           /\ Place(chain[p], i) + Len(x.bytes) <= Place(chain[p], i - 1)
<1>8. ASSUME NEW x, IsWrite(chain, p, x)
      PROVE  IsHeader(x) \/ \E i \in 1 .. m : IsOffset(x, i) \/ IsBody(x, i)
  BY <1>8, WriteExtents DEF IsWrite, m, s
<1>9. s \in Nat /\ \A i \in 1 .. m : i \in 0 .. m /\ i - 1 \in 0 .. m
  BY <1>2, <1>6 DEF s
<1>10. ASSUME NEW x, NEW y, NEW i \in 1 .. m, IsBody(x, i), x.at <= n, n < x.at + Len(x.bytes), Len(x.bytes) \in Nat,
              y.at <= n, n < y.at + Len(y.bytes)
       PROVE  ~IsHeader(y) /\ \A j \in 1 .. m : ~IsOffset(y, j)
  <2>1. 8 + 4 * m <= n - s
    BY <1>6, <1>7, <1>9, <1>10
  <2>2. IsHeader(y) => n - s < 8
    BY <1>9, <1>10
  <2>3. \A j \in 1 .. m : IsOffset(y, j) => n - s < 8 + 4 * j /\ j <= m
    BY <1>6, <1>9, <1>10
  <2> QED
    BY <1>6, <1>9, <2>1, <2>2, <2>3
<1>11. ASSUME NEW x, NEW y, NEW i \in 1 .. m, NEW j \in 1 .. m, IsBody(x, i), IsBody(y, j),
              x.at <= n, n < x.at + Len(x.bytes), Len(x.bytes) \in Nat,
              y.at <= n, n < y.at + Len(y.bytes), Len(y.bytes) \in Nat
       PROVE  ~(i < j)
  <2> SUFFICES ASSUME i < j PROVE FALSE
    OBVIOUS
  <2>1. j - 1 \in i .. m /\ i \in 0 .. m /\ j \in 0 .. m /\ j - 1 \in 0 .. m
    BY <1>6
  <2>2. Place(chain[p], j - 1) <= Place(chain[p], i)
    BY <1>7, <2>1
  <2>3. Place(chain[p], j - 1) \in Nat /\ Place(chain[p], i) \in Nat /\ Place(chain[p], j) \in Nat
    BY <1>7, <2>1
  <2>4. s + Place(chain[p], i) <= n /\ n < s + Place(chain[p], j) + Len(y.bytes)
    BY <1>11
  <2>5. Place(chain[p], j) + Len(y.bytes) <= Place(chain[p], j - 1)
    BY <1>11
  <2> QED
    BY <1>9, <1>11, <2>2, <2>3, <2>4, <2>5
<1>12. CASE IsHeader(v)
  <2>1. n - s < 8
    BY <1>4, <1>9, <1>12
  <2>2. \A j \in 1 .. m : IsOffset(w, j) => 8 <= n - s
    BY <1>4, <1>6, <1>9
  <2>3. \A j \in 1 .. m : ~IsBody(w, j)
    <3> SUFFICES ASSUME NEW j \in 1 .. m, IsBody(w, j) PROVE FALSE
      OBVIOUS
    <3> QED
      BY <1>3, <1>4, <1>10, <1>12
  <2>4. IsHeader(w)
    BY <1>5, <1>8, <1>9, <2>1, <2>2, <2>3
  <2> QED
    BY <1>12, <2>4
<1>13. ASSUME NEW i \in 1 .. m, IsOffset(v, i) PROVE v = w
  <2>1. 4 + 4 * i <= n - s /\ n - s < 8 + 4 * i
    BY <1>4, <1>6, <1>9, <1>13
  <2>2. ~IsHeader(w)
    <3>1. IsHeader(w) => n - s < 8
      BY <1>4, <1>9
    <3>2. 8 <= 4 + 4 * i /\ 4 + 4 * i \in Nat
      BY <1>6
    <3>3. n - s \in Int
      BY <1>9
    <3> QED
      BY <2>1, <3>1, <3>2, <3>3
  <2>3. \A j \in 1 .. m : ~IsBody(w, j)
    <3> SUFFICES ASSUME NEW j \in 1 .. m, IsBody(w, j) PROVE FALSE
      OBVIOUS
    <3> QED
      BY <1>3, <1>4, <1>10, <1>13
  <2>4. PICK j \in 1 .. m : IsOffset(w, j)
    BY <1>5, <1>8, <2>2, <2>3
  <2>5. 4 + 4 * j <= n - s /\ n - s < 8 + 4 * j
    BY <1>4, <1>6, <1>9, <2>4
  <2>6. i = j
    BY <1>6, <1>9, <2>1, <2>5
  <2> QED
    BY <1>13, <2>4, <2>6
<1>14. ASSUME NEW i \in 1 .. m, IsBody(v, i) PROVE v = w
  <2>1. ~IsHeader(w) /\ \A j \in 1 .. m : ~IsOffset(w, j)
    BY <1>3, <1>4, <1>10, <1>14
  <2>2. PICK j \in 1 .. m : IsBody(w, j)
    BY <1>5, <1>8, <2>1
  <2>3. ~(i < j)
    BY <1>3, <1>4, <1>11, <1>14, <2>2
  <2>4. ~(j < i)
    BY <1>3, <1>4, <1>11, <1>14, <2>2
  <2>5. i = j
    BY <1>6, <2>3, <2>4
  <2> QED
    BY <1>14, <2>2, <2>5
<1> QED
  BY <1>8, <1>12, <1>13, <1>14

-----------------------------------------------------------------------------
(* The file: every byte that was written is in it. *)

LEMMA GreatestMember ==
    ASSUME NEW n \in Nat, NEW S, S \subseteq 1 .. n, S # {}
    PROVE  Max(S) \in S
<1> DEFINE T == {n - x : x \in S}
<1>1. T \subseteq Nat /\ T # {}
  <2>1. \A x \in S : n - x \in Nat
    <3> TAKE x \in S
    <3>1. x \in 1 .. n
      OBVIOUS
    <3> QED
      BY <3>1
  <2>2. PICK x \in S : TRUE
    OBVIOUS
  <2>3. n - x \in T
    OBVIOUS
  <2> QED
    BY <2>1, <2>3
<1>2. PICK t \in T : \A u \in T : t <= u
  BY <1>1, LeastMember
<1>3. PICK x \in S : t = n - x
  BY <1>2
<1>4. \A y \in S : x >= y
  <2> TAKE y \in S
  <2>1. n - y \in T
    OBVIOUS
  <2>2. t <= n - y
    BY <1>2, <2>1
  <2>3. x \in Int /\ y \in Int
    OBVIOUS
  <2> HIDE DEF T
  <2> QED
    BY <1>3, <2>2, <2>3
<1>5. \E x1 \in S : \A y \in S : x1 >= y
  BY <1>4
<1> QED
  BY <1>5 DEF Max

LEMMA ImageSize ==
    ASSUME table \in Tables, NEW chain, IsChain(chain), chain # <<>>
    PROVE  DOMAIN Image(chain) = 0 .. Start(Len(chain) + 1) - 1 /\ Start(Len(chain) + 1) \in Nat /\ Len(chain) >= 1
           /\ Image(chain) = Written(Writes(chain), Start(Len(chain) + 1))
<1> DEFINE n == Len(chain)
           writes == Writes(chain)
           ends == {writes[w].at + Len(writes[w].bytes) : w \in DOMAIN writes}
<1>1. IsSequence(chain)
  BY DEF IsChain
<1>2. n \in Nat /\ n >= 1
  <2>1. n \in Nat /\ n # 0
    BY <1>1, SequenceFacts
  <2> QED
    BY <2>1
<1> HIDE DEF n
<1>3. Start(n + 1) \in Nat /\ PageSize * n = Start(n + 1)
  <2>1. n + 1 \in Nat \ {0} /\ (n + 1) - 1 = n /\ PageSize \in Nat
    BY <1>2, PageLayoutAssumption
  <2> QED
    BY <1>2, <2>1, StartFacts DEF Start
<1>4. ASSUME NEW e \in ends PROVE e \in Nat /\ e <= Start(n + 1)
  <2>1. PICK w \in DOMAIN writes : e = writes[w].at + Len(writes[w].bytes)
    OBVIOUS
  <2>2. DOMAIN writes = 1 .. Len(writes)
    BY WritesFacts, SequenceFacts
  <2>3. Holds(writes, writes[w])
    BY <2>1, <2>2 DEF Holds
  <2>4. PICK p \in 1 .. n : IsWrite(chain, p, writes[w])
    BY <2>3, WritesFacts DEF n
  <2>5. PICK v : v = writes[w]
    OBVIOUS
  <2>6. v.at \in Nat /\ Len(v.bytes) \in Nat /\ v.at + Len(v.bytes) <= Start(p) + PageSize
    BY <2>4, <2>5, WriteFacts DEF n
  <2>7. p \in Nat \ {0} /\ n + 1 \in Nat /\ p < n + 1
    BY <1>2
  <2>8. Start(p) + PageSize <= Start(n + 1) /\ Start(p) \in Nat
    BY <2>7, StartFacts
  <2>9. PageSize \in Nat
    BY PageLayoutAssumption
  <2> HIDE DEF writes, ends
  <2> QED
    BY <1>3, <2>1, <2>5, <2>6, <2>8, <2>9
<1> HIDE DEF ends
<1>5. Max(ends \cup {PageSize * n}) = Start(n + 1)
  <2> DEFINE S == ends \cup {PageSize * n}
             m == Start(n + 1)
  <2>1. m \in S /\ \A y \in S : y \in Nat /\ m >= y
    BY <1>3, <1>4
  <2>2. \A x \in S : (\A y \in S : x >= y) => x = m
    BY <2>1
  <2> HIDE DEF S, m
  <2>3. Max(S) = m
    BY <2>1, <2>2 DEF Max
  <2> QED
    BY <2>3 DEF S, m
<1>6. Image(chain) = Written(writes, Start(n + 1))
  BY <1>5 DEF Image, Writes, ends, n
<1>7. DOMAIN Image(chain) = 0 .. Start(n + 1) - 1
  BY <1>6 DEF Written
<1> QED
  BY <1>2, <1>3, <1>6, <1>7 DEF n

LEMMA ImageHas ==
    ASSUME table \in Tables, NEW chain, IsChain(chain), chain # <<>>,
           NEW p \in 1 .. Len(chain), NEW w, IsWrite(chain, p, w), NEW k \in 1 .. Len(w.bytes)
    PROVE  w.at + k - 1 \in DOMAIN Image(chain) /\ Image(chain)[w.at + k - 1] = w.bytes[k]
<1> DEFINE writes == Writes(chain)
           size == Start(Len(chain) + 1)
           n == w.at + k - 1
           last == {i \in DOMAIN writes : n \in writes[i].at .. writes[i].at + Len(writes[i].bytes) - 1}
<1>1. Image(chain) = Written(writes, size) /\ DOMAIN Image(chain) = 0 .. size - 1 /\ size \in Nat
  BY ImageSize
<1>2. IsSequence(writes) /\ DOMAIN writes = 1 .. Len(writes) /\ Len(writes) \in Nat
  BY WritesFacts, SequenceFacts
<1>3. /\ w.at \in Nat /\ Len(w.bytes) \in Nat /\ IsSequence(w.bytes)
      /\ w.at + Len(w.bytes) <= Start(p) + PageSize
  BY WriteFacts
<1>4. Start(p) + PageSize <= size /\ Start(p) \in Nat /\ PageSize \in Nat
  <2>1. Len(chain) \in Nat
    BY SequenceFacts DEF IsChain
  <2>2. p \in Nat \ {0} /\ Len(chain) + 1 \in Nat /\ p < Len(chain) + 1
    BY <2>1
  <2> QED
    BY <2>2, StartFacts, PageLayoutAssumption
<1> HIDE DEF writes, size
<1>5. n \in 0 .. size - 1 /\ Covers(w, n) /\ n \in Int
  BY <1>1, <1>3, <1>4 DEF Covers
<1>6. Holds(writes, w)
  BY WritesFacts DEF writes
<1>7. PICK i \in DOMAIN writes : writes[i] = w
  BY <1>2, <1>6 DEF Holds
<1>8. i \in last
  BY <1>5, <1>7 DEF Covers
<1>9. last # {} /\ last \subseteq 1 .. Len(writes)
  BY <1>2, <1>8
<1>10. Max(last) \in last
  <2> HIDE DEF last
  <2> QED
    BY <1>2, <1>9, GreatestMember
<1>11. writes[Max(last)] = w
  <2>1. PICK m : m = Max(last)
    OBVIOUS
  <2>2. m \in DOMAIN writes /\ n \in writes[m].at .. writes[m].at + Len(writes[m].bytes) - 1
    BY <1>10, <2>1
  <2>3. PICK v : v = writes[m]
    OBVIOUS
  <2>4. Holds(writes, v) /\ Covers(v, n)
    BY <1>2, <2>2, <2>3 DEF Holds, Covers
  <2>5. PICK q \in 1 .. Len(chain) : IsWrite(chain, q, v)
    BY <2>4, WritesFacts DEF writes
  <2> HIDE DEF n
  <2>6. v = w
    BY <1>5, <2>4, <2>5, WritesApart
  <2> QED
    BY <2>1, <2>3, <2>6
<1>12. Written(writes, size)[n] = IF last = {} THEN Byte("zero", 0, 1)
                                 ELSE writes[Max(last)].bytes[n - writes[Max(last)].at + 1]
  BY <1>5 DEF Written
<1>13. Written(writes, size)[n] = w.bytes[n - w.at + 1]
  <2> HIDE DEF last
  <2> QED
    BY <1>9, <1>11, <1>12
<1>14. n - w.at + 1 = k
  BY <1>3
<1> QED
  BY <1>1, <1>5, <1>13, <1>14

-----------------------------------------------------------------------------
(* Reading.  What lies at a position of the file is read as it was written.  *)

Stored(position, bytes) ==
    \A k \in 1 .. Len(bytes) :
        position + k - 1 \in DOMAIN file /\ file[position + k - 1] = bytes[k]

LEMMA ValueRead ==
    ASSUME NEW kind, NEW value, NEW n \in Nat \ {0}, NEW position \in Int,
           Stored(position, Bytes(kind, value, n))
    PROVE  ValueAt(kind, position, n) = value
<1>1. \A k \in 1 .. n : position + k - 1 \in DOMAIN file /\ file[position + k - 1] = Byte(kind, value, k)
  BY BytesFacts DEF Stored
<1>2. file[position] = Byte(kind, value, 1)
  <2>1. 1 \in 1 .. n /\ position + 1 - 1 = position
    OBVIOUS
  <2> QED
    BY <1>1, <2>1
<1>3. \A k : Byte(kind, value, k).kind = kind /\ Byte(kind, value, k).value = value /\ Byte(kind, value, k).part = k
  BY DEF Byte
<1> QED
  BY <1>1, <1>2, <1>3 DEF ValueAt

LEMMA TextRead ==
    ASSUME NEW text, IsSequence(text), NEW position \in Int, Stored(position, TextBytes(text))
    PROVE  TextAt(position, Len(text)) = text
<1> DEFINE n == Len(text)
<1>1. n \in Nat /\ text = [k \in 1 .. n |-> text[k]]
  BY DEF IsSequence
<1>2. \A k \in 1 .. n : position + k - 1 \in DOMAIN file /\ file[position + k - 1] = Byte("char", text[k], 1)
  BY TextFacts DEF Stored
<1> HIDE DEF n
<1>7. \A v : Byte("char", v, 1).kind = "char" /\ Byte("char", v, 1).value = v
  BY DEF Byte
<1>3. ASSUME NEW k \in position .. position + n - 1
      PROVE  k \in DOMAIN file /\ file[k].kind = "char"
  <2>1. k - position + 1 \in 1 .. n /\ position + (k - position + 1) - 1 = k
    BY <1>1
  <2>2. k \in DOMAIN file /\ file[k] = Byte("char", text[k - position + 1], 1)
    BY <1>2, <2>1
  <2> QED
    BY <1>7, <2>2
<1>4. \A k \in 1 .. n : file[position + k - 1].value = text[k]
  BY <1>2, <1>7
<1>5. TextAt(position, n) = [k \in 1 .. n |-> file[position + k - 1].value]
  BY <1>3 DEF TextAt
<1>6. [k \in 1 .. n |-> file[position + k - 1].value] = text
  BY <1>1, <1>4
<1> QED
  BY <1>5, <1>6 DEF n

\* The two parts of what is put together.
LEMMA StoredParts ==
    ASSUME NEW position \in Int, NEW s, NEW t, NEW u, IsSequence(s), IsSequence(t), Joins(u, s, t), Stored(position, u)
    PROVE  Stored(position, s) /\ Stored(position + Len(s), t)
<1>1. HasParts(u, s, t)
  BY JoinedParts
<1>2. Len(s) \in Nat /\ Len(t) \in Nat /\ Len(u) = Len(s) + Len(t)
  BY <1>1 DEF HasParts, IsSequence
<1>3. Stored(position, s)
  <2>1. \A k \in 1 .. Len(s) : k \in 1 .. Len(u) /\ u[k] = s[k]
    BY <1>1, <1>2 DEF HasParts
  <2> QED
    BY <2>1 DEF Stored
<1>4. Stored(position + Len(s), t)
  <2> SUFFICES ASSUME NEW k \in 1 .. Len(t)
               PROVE  /\ position + Len(s) + k - 1 \in DOMAIN file
                      /\ file[position + Len(s) + k - 1] = t[k]
    BY DEF Stored
  <2>1. Len(s) + k \in 1 .. Len(u) /\ u[Len(s) + k] = t[k]
    BY <1>1, <1>2 DEF HasParts
  <2>2. position + (Len(s) + k) - 1 = position + Len(s) + k - 1
    BY <1>2
  <2>3. position + (Len(s) + k) - 1 \in DOMAIN file /\ file[position + (Len(s) + k) - 1] = u[Len(s) + k]
    BY <2>1 DEF Stored
  <2> QED
    BY <2>1, <2>2, <2>3
<1> QED
  BY <1>3, <1>4

\* A CHAR comes back with the spaces behind it.
Reread(a, v) == IF a.type = "CHAR" THEN Padded(v, a.len) ELSE v

LEMMA AttributeRead ==
    ASSUME table \in Tables, NEW r, IsRecord(r), NEW j \in DOMAIN table, NEW position \in Int,
           Stored(position, AttributeBytes(r, j))
    PROVE  /\ Read(table[j], position).next = position + Length(table[j], r.values[j], j \in r.nulls)
           /\ j \notin r.nulls => Read(table[j], position).value = Reread(table[j], r.values[j])
<1> DEFINE a == table[j]
           v == r.values[j]
<1>1. a.type \in Types /\ a.len \in Nat
  BY TableFacts
<1>2. Garbled \notin Int /\ position # Garbled
  BY PageLayoutAssumption
<1>3. j \notin r.nulls => IsValue(a, v)
  BY DEF IsRecord
<1>4. IntSize = 4 /\ DoubleSize = 8 /\ 4 \in Nat \ {0} /\ 8 \in Nat \ {0}
  BY DEF IntSize, DoubleSize
<1>5. \A n : Stored(position, IntBytes(n)) => IntAt(position) = n
  BY <1>4, ValueRead DEF IntBytes, IntAt
<1> HIDE DEF a, v
<1>6. CASE a.type = "INTEGER"
  <2>1. Read(a, position) = [value |-> IntAt(position), next |-> position + IntSize]
    BY <1>2, <1>6 DEF Read
  <2>2. j \notin r.nulls => IntAt(position) = v
    <3>1. j \notin r.nulls => AttributeBytes(r, j) = IntBytes(v)
      BY <1>6 DEF AttributeBytes, ValueBytes, a, v
    <3> QED
      BY <1>5, <3>1
  <2>3. Length(a, v, j \in r.nulls) = IntSize /\ Reread(a, v) = v
    BY <1>6 DEF Length, Reread
  <2> QED
    BY <2>1, <2>2, <2>3 DEF a, v
<1>7. CASE a.type = "BOOL"
  <2>1. Read(a, position) = [value |-> IntAt(position), next |-> position + IntSize]
    BY <1>2, <1>7 DEF Read
  <2>2. j \in r.nulls
    BY <1>3, <1>7 DEF IsValue
  <2>3. Length(a, v, j \in r.nulls) = IntSize
    BY <1>7 DEF Length
  <2> QED
    BY <2>1, <2>2, <2>3 DEF a, v
<1>8. CASE a.type = "DOUBLE"
  <2>1. Read(a, position) = [value |-> ValueAt("double", position, DoubleSize), next |-> position + DoubleSize]
    BY <1>2, <1>8 DEF Read
  <2>2. j \notin r.nulls => ValueAt("double", position, DoubleSize) = v
    <3>1. j \notin r.nulls => AttributeBytes(r, j) = Bytes("double", v, DoubleSize)
      BY <1>8 DEF AttributeBytes, ValueBytes, a, v
    <3> QED
      BY <1>4, <3>1, ValueRead
  <2>3. Length(a, v, j \in r.nulls) = DoubleSize /\ Reread(a, v) = v
    BY <1>8 DEF Length, Reread
  <2> QED
    BY <2>1, <2>2, <2>3 DEF a, v
<1>9. CASE a.type = "CHAR"
  <2>1. Read(a, position) = [value |-> TextAt(position, a.len), next |-> position + a.len]
    BY <1>2, <1>9 DEF Read
  <2>2. j \notin r.nulls => TextAt(position, a.len) = Padded(v, a.len)
    <3>1. j \notin r.nulls => AttributeBytes(r, j) = TextBytes(Padded(v, a.len))
      BY <1>9 DEF AttributeBytes, ValueBytes, a, v
    <3>2. IsSequence(Padded(v, a.len)) /\ Len(Padded(v, a.len)) = a.len
      BY <1>1, PaddedFacts DEF a
    <3>3. PICK text : text = Padded(v, a.len)
      OBVIOUS
    <3>4. j \notin r.nulls => Stored(position, TextBytes(text))
      BY <3>1, <3>3
    <3> QED
      BY <3>2, <3>3, <3>4, TextRead
  <2>3. Length(a, v, j \in r.nulls) = a.len /\ Reread(a, v) = Padded(v, a.len)
    BY <1>9 DEF Length, Reread
  <2> QED
    BY <2>1, <2>2, <2>3 DEF a, v
<1>10. CASE a.type = "VARCHAR"
  <2>1. IntAt(position) # Garbled =>
          Read(a, position) = [value |-> TextAt(position + IntSize, IntAt(position)),
                               next |-> position + IntSize + IntAt(position)]
    BY <1>2, <1>10 DEF Read
  <2>2. CASE j \in r.nulls
    <3>1. AttributeBytes(r, j) = IntBytes(0)
      BY <1>10, <2>2 DEF AttributeBytes, DefaultBytes, a
    <3>2. IntAt(position) = 0 /\ 0 # Garbled
      BY <1>2, <1>5, <3>1
    <3>3. Length(a, v, j \in r.nulls) = IntSize + 0
      BY <1>10, <2>2 DEF Length
    <3> QED
      BY <1>4, <2>1, <2>2, <3>2, <3>3 DEF a, v
  <2>3. CASE j \notin r.nulls
    <3>1. IsSequence(v) /\ Len(v) \in Nat
      BY <1>3, <1>10, <2>3 DEF IsValue, IsText, IsSequence
    <3>2. PICK x, y, u : x = IntBytes(Len(v)) /\ y = TextBytes(v) /\ u = AttributeBytes(r, j)
      OBVIOUS
    <3>3. Joins(u, x, y)
      BY <1>10, <2>3, <3>2 DEF AttributeBytes, ValueBytes, Joins, a, v
    <3>4. IsSequence(x) /\ Len(x) = 4 /\ IsSequence(y)
      <4>1. IsSequence(x) /\ Len(x) = 4
        BY <1>4, <3>2, BytesFacts DEF IntBytes
      <4>2. IsSequence(y)
        BY <3>1, <3>2, TextFacts
      <4> QED
        BY <4>1, <4>2
    <3>5. Stored(position, x) /\ Stored(position + 4, y)
      BY <3>2, <3>3, <3>4, StoredParts
    <3>6. IntAt(position) = Len(v) /\ Len(v) # Garbled
      BY <1>2, <1>5, <3>1, <3>2, <3>5
    <3>7. TextAt(position + 4, Len(v)) = v
      <4>1. position + 4 \in Int
        OBVIOUS
      <4> QED
        BY <3>1, <3>2, <3>5, <4>1, TextRead
    <3>8. Length(a, v, j \in r.nulls) = IntSize + Len(v) /\ Reread(a, v) = v
      BY <1>10, <2>3 DEF Length, Reread
    <3>9. position + IntSize + Len(v) = position + (IntSize + Len(v))
      BY <1>4, <3>1
    <3>10. Read(a, position) = [value |-> TextAt(position + IntSize, Len(v)), next |-> position + IntSize + Len(v)]
      BY <2>1, <3>6
    <3>11. Read(a, position).value = v /\ Read(a, position).next = position + Length(a, v, j \in r.nulls)
      BY <1>4, <3>7, <3>8, <3>9, <3>10
    <3> QED
      BY <3>8, <3>11 DEF a, v
  <2> QED
    BY <2>2, <2>3
<1> QED
  BY <1>1, <1>6, <1>7, <1>8, <1>9, <1>10 DEF Types


\* A part of what is stored is stored, behind what comes before it.
LEMMA StoredWithin ==
    ASSUME NEW position \in Int, NEW b, Len(b) \in Nat, Stored(position, b),
           NEW o \in Nat, NEW s, Len(s) \in Nat, o + Len(s) <= Len(b),
           \A k \in 1 .. Len(s) : b[o + k] = s[k]
    PROVE  Stored(position + o, s)
<1> SUFFICES ASSUME NEW k \in 1 .. Len(s)
             PROVE  position + o + k - 1 \in DOMAIN file /\ file[position + o + k - 1] = s[k]
  BY DEF Stored
<1>1. o + k \in 1 .. Len(b) /\ position + (o + k) - 1 = position + o + k - 1
  OBVIOUS
<1>2. position + (o + k) - 1 \in DOMAIN file /\ file[position + (o + k) - 1] = b[o + k]
  BY <1>1 DEF Stored
<1> QED
  BY <1>1, <1>2

\* The attributes of a record are read one after the other.
Reads(f, position, n) ==
    f = [i \in 0 .. n |-> IF i = 0 THEN [value |-> Null, next |-> position + IntSize]
                          ELSE Read(table[i], f[i - 1].next)]

LEMMA ReadsExist ==
    ASSUME NEW position, NEW n \in Nat
    PROVE  \E f : Reads(f, position, n)
<1> DEFINE Bad == {m \in Nat : ~\E f : Reads(f, position, m)}
           first == [value |-> Null, next |-> position + IntSize]
<1> SUFFICES ASSUME Bad # {} PROVE FALSE
  OBVIOUS
<1>1. PICK m \in Bad : \A l \in Bad : m <= l
  BY LeastMember
<1>2. m \in Nat /\ ~\E f : Reads(f, position, m)
  OBVIOUS
<1>3. m # 0
  <2>1. Reads([i \in 0 .. 0 |-> first], position, 0)
    BY DEF Reads
  <2> QED
    BY <1>2, <2>1
<1>4. m - 1 \in Nat /\ m - 1 \notin Bad
  BY <1>1, <1>2, <1>3
<1>5. PICK f : Reads(f, position, m - 1)
  BY <1>4
<1> DEFINE g == [i \in 0 .. m |-> IF i < m THEN f[i] ELSE Read(table[m], f[m - 1].next)]
<1> HIDE DEF first
<1>6. ASSUME NEW i \in 0 .. m PROVE g[i] = IF i = 0 THEN first ELSE Read(table[i], g[i - 1].next)
  <2>1. \A j \in 0 .. m - 1 : f[j] = IF j = 0 THEN first ELSE Read(table[j], f[j - 1].next)
    BY <1>5 DEF Reads, first
  <2>2. \A j \in 0 .. m - 1 : g[j] = f[j]
    BY <1>2
  <2>3. g[m] = Read(table[m], f[m - 1].next)
    BY <1>2
  <2> HIDE DEF g
  <2>4. CASE i = m
    <3>1. m - 1 \in 0 .. m - 1
      BY <1>2, <1>3
    <3> QED
      BY <1>3, <2>2, <2>3, <2>4, <3>1
  <2>5. CASE i # m
    <3>1. i \in 0 .. m - 1 /\ (i # 0 => i - 1 \in 0 .. m - 1)
      BY <1>2, <2>5
    <3> QED
      BY <2>1, <2>2, <3>1
  <2> QED
    BY <2>4, <2>5
<1>7. Reads(g, position, m)
  <2>1. g = [i \in 0 .. m |-> g[i]]
    OBVIOUS
  <2> HIDE DEF g
  <2> QED
    BY <1>6, <2>1 DEF Reads, first
<1> QED
  BY <1>2, <1>7

LEMMA RecordAtIs ==
    ASSUME table \in Tables, NEW position
    PROVE  \E f : /\ Reads(f, position, Len(table))
                  /\ LET bitmap == ValueAt("bitmap", position, IntSize)
                         nulls == DOMAIN table \ Bits(bitmap)
                         values == [i \in DOMAIN table |-> f[i].value]
                         sized == \A i \in DOMAIN table :
                                     table[i].type = "VARCHAR" => i \in nulls \/ values[i] # Garbled
                     IN  RecordAt(position, {}) =
                            [bitmap |-> bitmap, nulls |-> nulls, values |-> values,
                             size |-> IF sized THEN SizeOf(values, nulls) ELSE Garbled]
<1> DEFINE n == Len(table)
           F == CHOOSE f : f = [i \in 0 .. n |-> IF i = 0 THEN [value |-> Null, next |-> position + IntSize]
                                                 ELSE Read(table[i], f[i - 1].next)]
<1>1. n \in Nat
  BY TableFacts
<1>2. \E f : f = [i \in 0 .. n |-> IF i = 0 THEN [value |-> Null, next |-> position + IntSize]
                                   ELSE Read(table[i], f[i - 1].next)]
  BY <1>1, ReadsExist DEF Reads
<1>3. Reads(F, position, n)
  BY <1>2 DEF Reads
<1>4. \A S : S \cup {} = S
  OBVIOUS
<1> WITNESS F
<1>5. LET bitmap == ValueAt("bitmap", position, IntSize)
          nulls == (DOMAIN table \ Bits(bitmap)) \cup {}
          values == [i \in DOMAIN table |-> F[i].value]
          sized == \A i \in DOMAIN table :
                      table[i].type = "VARCHAR" => i \in nulls \/ values[i] # Garbled
      IN  RecordAt(position, {}) =
             [bitmap |-> bitmap, nulls |-> nulls, values |-> values,
              size |-> IF sized THEN SizeOf(values, nulls) ELSE Garbled]
  BY DEF RecordAt
<1> HIDE DEF F
<1> QED
  BY <1>3, <1>4, <1>5

\* What is read of a record: all but the values of attributes that are null.
IsRead(x, r) ==
    /\ DOMAIN x = Fields
    /\ x.bitmap = r.bitmap /\ x.nulls = r.nulls
    /\ DOMAIN x.values = DOMAIN table
    /\ \A j \in DOMAIN table \ r.nulls : x.values[j] = Reread(table[j], r.values[j])
    /\ x.size = SizeOf(x.values, x.nulls)


LEMMA RereadFacts ==
    ASSUME NEW a, a.len \in Nat, NEW v
    PROVE  /\ IsValue(a, v) => IsValue(a, Reread(a, v))
           /\ \A null : Length(a, Reread(a, v), null) = Length(a, v, null)
           /\ \A original : SameText(a, v, original) => SameText(a, Reread(a, v), original)
<1>1. IsSequence(Padded(v, a.len)) /\ Len(Padded(v, a.len)) = a.len
  BY PaddedFacts
<1>2. a.len <= a.len
  OBVIOUS
<1>3. IsValue(a, v) => IsValue(a, Reread(a, v))
  BY <1>1, <1>2 DEF IsValue, IsText, Reread
<1>4. \A null : Length(a, Reread(a, v), null) = Length(a, v, null)
  BY DEF Length, Reread
<1>5. ASSUME NEW original, SameText(a, v, original) PROVE SameText(a, Reread(a, v), original)
  <2>1. CASE a.type = "CHAR" /\ v = original
    BY <2>1 DEF SameText, Reread
  <2>2. CASE a.type = "CHAR" /\ v = Padded(original, a.len)
    BY <2>2, PaddedFacts DEF SameText, Reread
  <2>3. CASE a.type # "CHAR"
    BY <1>5, <2>3 DEF SameText, Reread
  <2> QED
    BY <1>5, <2>1, <2>2, <2>3 DEF SameText
<1> QED
  BY <1>3, <1>4, <1>5

\* Equal values have equal sizes.
LEMMA SizeSame ==
    ASSUME table \in Tables, NEW values, NEW others, NEW nulls,
           \A j \in DOMAIN table :
              Length(table[j], values[j], j \in nulls) = Length(table[j], others[j], j \in nulls)
    PROVE  SizeOf(values, nulls) = SizeOf(others, nulls)
<1> DEFINE n == Len(table)
           f == [i \in DOMAIN table |-> Length(table[i], values[i], i \in nulls)]
           g == [i \in DOMAIN table |-> Length(table[i], others[i], i \in nulls)]
<1>1. n \in Nat /\ DOMAIN table = 1 .. n
  BY TableFacts
<1>2. f = g
  OBVIOUS
<1>3. SizeOf(values, nulls) = IntSize + SumTo(f, n) /\ SizeOf(others, nulls) = IntSize + SumTo(g, n)
  BY DEF SizeOf
<1> HIDE DEF f, g
<1> QED
  BY <1>2, <1>3

\* A null attribute has the same length whatever its value.
LEMMA NullLength ==
    ASSUME NEW a, NEW v, NEW w
    PROVE  Length(a, v, TRUE) = Length(a, w, TRUE)
BY DEF Length

\* A record that was read is a record, as long as what was written.
LEMMA ReadIsRecord ==
    ASSUME table \in Tables, NEW r, IsRecord(r), NEW x, IsRead(x, r)
    PROVE  IsRecord(x) /\ x.size = SizeOf(r.values, r.nulls) /\ x.size <= r.size
<1>1. \A j \in DOMAIN table : table[j].len \in Nat
  BY TableFacts
<1>2. ASSUME NEW j \in DOMAIN table \ r.nulls PROVE IsValue(table[j], x.values[j])
  <2>1. IsValue(table[j], r.values[j])
    BY DEF IsRecord
  <2> QED
    BY <1>1, <2>1, RereadFacts DEF IsRead
<1>3. ASSUME NEW j \in DOMAIN table
      PROVE  Length(table[j], x.values[j], j \in r.nulls) = Length(table[j], r.values[j], j \in r.nulls)
  <2>1. CASE j \in r.nulls
    <3>1. (j \in r.nulls) = TRUE
      BY <2>1
    <3> QED
      BY <3>1, NullLength
  <2>2. CASE j \notin r.nulls
    BY <1>1, <2>2, RereadFacts DEF IsRead
  <2> QED
    BY <2>1, <2>2
<1>4. SizeOf(x.values, r.nulls) = SizeOf(r.values, r.nulls)
  BY <1>3, SizeSame
<1>5. SizeOf(r.values, r.nulls) \in Nat
  <2>1. Len(table) + 1 \in 1 .. Len(table) + 1
    BY TableFacts
  <2> QED
    BY <2>1, BeforeFacts
<1>6. SizeOf(r.values, r.nulls) <= r.size
  BY DEF IsRecord
<1>7. x.size = SizeOf(r.values, r.nulls) /\ x.nulls = r.nulls /\ x.bitmap = r.bitmap
  BY <1>4 DEF IsRead
<1>8. x.size \in Nat /\ SizeOf(x.values, x.nulls) <= x.size
  BY <1>4, <1>5, <1>7
<1>9. DOMAIN x.values = DOMAIN table /\ DOMAIN x = Fields
  BY DEF IsRead
<1>10. IsRecord(x)
  BY <1>2, <1>7, <1>8, <1>9 DEF IsRecord
<1> QED
  BY <1>6, <1>7, <1>10

\* A record is read as it was written.
LEMMA RecordRead ==
    ASSUME table \in Tables, NEW r, IsRecord(r), NEW position \in Int, Stored(position, RecordBytes(r))
    PROVE  IsRead(RecordAt(position, {}), r)
<1> DEFINE n == Len(table)
<1>1. n \in Nat /\ DOMAIN table = 1 .. n
  BY TableFacts
<1>2. PICK f : /\ Reads(f, position, n)
               /\ LET bitmap == ValueAt("bitmap", position, IntSize)
                      nulls == DOMAIN table \ Bits(bitmap)
                      values == [i \in DOMAIN table |-> f[i].value]
                      sized == \A i \in DOMAIN table :
                                  table[i].type = "VARCHAR" => i \in nulls \/ values[i] # Garbled
                  IN  RecordAt(position, {}) =
                         [bitmap |-> bitmap, nulls |-> nulls, values |-> values,
                          size |-> IF sized THEN SizeOf(values, nulls) ELSE Garbled]
  BY RecordAtIs
<1>3. PICK b : b = RecordBytes(r)
  OBVIOUS
<1>4. /\ IsSequence(b) /\ Len(b) = SizeOf(r.values, r.nulls) /\ Len(b) \in Nat
      /\ \A k \in 1 .. IntSize : b[k] = Byte("bitmap", r.bitmap, k)
      /\ \A j \in 1 .. n : \A k \in 1 .. Length(table[j], r.values[j], j \in r.nulls) :
            b[Before(r, j) + k] = AttributeBytes(r, j)[k]
  <2>1. IsSequence(b)
    BY <1>3, RecordBytesFacts
  <2> QED
    BY <1>1, <1>3, <2>1, RecordBytesFacts DEF IsSequence
<1>5. /\ \A j \in 1 .. n + 1 : Before(r, j) \in Nat /\ 4 <= Before(r, j)
      /\ Before(r, 1) = 4
      /\ \A j \in 1 .. n : Before(r, j + 1) = Before(r, j) + Length(table[j], r.values[j], j \in r.nulls)
      /\ Before(r, n + 1) = Len(b)
  BY <1>1, <1>4, BeforeFacts DEF IntSize
<1>6. IntSize = 4
  BY DEF IntSize
<1> HIDE DEF n
<1>7. ValueAt("bitmap", position, IntSize) = r.bitmap
  <2>1. PICK s : s = Bytes("bitmap", r.bitmap, 4)
    OBVIOUS
  <2>2. Len(s) = 4 /\ \A k \in 1 .. 4 : s[k] = Byte("bitmap", r.bitmap, k)
    <3>1. 4 \in Nat
      OBVIOUS
    <3> QED
      BY <2>1, <3>1, BytesFacts
  <2>3. 4 <= Len(b)
    <3>1. n + 1 \in 1 .. n + 1
      BY <1>1
    <3> QED
      BY <1>5, <3>1
  <2>4. \A k \in 1 .. 4 : b[0 + k] = s[k]
    BY <1>4, <1>6, <2>2
  <2>5. Stored(position + 0, s)
    <3>1. 0 + Len(s) <= Len(b) /\ Len(s) \in Nat /\ 0 \in Nat
      BY <2>2, <2>3
    <3>2. \A k \in 1 .. Len(s) : b[0 + k] = s[k]
      BY <2>2, <2>4
    <3>3. Stored(position, b)
      BY <1>3
    <3> QED
      BY <1>4, <3>1, <3>2, <3>3, StoredWithin
  <2>6. position + 0 = position /\ 4 \in Nat \ {0}
    OBVIOUS
  <2> QED
    BY <1>6, <2>1, <2>5, <2>6, ValueRead
<1>8. ASSUME NEW j \in 1 .. n
      PROVE  Stored(position + Before(r, j), AttributeBytes(r, j))
  <2>1. PICK s : s = AttributeBytes(r, j)
    OBVIOUS
  <2>2. Len(s) = Length(table[j], r.values[j], j \in r.nulls) /\ Len(s) \in Nat
    BY <1>1, <2>1, AttributeFacts
  <2>3. Before(r, j) + Len(s) = Before(r, j + 1) /\ Before(r, j) \in Nat /\ Before(r, j + 1) \in Nat
    <3>1. j \in 1 .. n + 1 /\ j + 1 \in 1 .. n + 1
      BY <1>1
    <3> QED
      BY <1>5, <2>2, <3>1
  <2>4. Before(r, j + 1) <= Len(b)
    <3>1. IsRecord(r)
      OBVIOUS
    <3> DEFINE Good == {i \in Nat : i <= n /\ ~(Before(r, (n + 1) - i) <= Len(b))}
    <3>2. Good = {}
      <4> SUFFICES ASSUME Good # {} PROVE FALSE
        OBVIOUS
      <4>1. Good \subseteq Nat
        OBVIOUS
      <4>2. PICK i \in Good : \A l \in Good : i <= l
        BY <4>1, LeastMember
      <4>3. i \in Nat /\ i <= n /\ ~(Before(r, (n + 1) - i) <= Len(b))
        OBVIOUS
      <4>4. i # 0
        <5>1. (n + 1) - 0 = n + 1
          BY <1>1
        <5> QED
          BY <1>4, <1>5, <4>3, <5>1
      <4>5. i - 1 \in Nat /\ i - 1 <= n /\ i - 1 \notin Good
        BY <1>1, <4>2, <4>3, <4>4
      <4>6. Before(r, (n + 1) - (i - 1)) <= Len(b)
        BY <4>5
      <4> DEFINE m == (n + 1) - i
      <4>7. m \in 1 .. n /\ (n + 1) - (i - 1) = m + 1
        BY <1>1, <4>3, <4>4
      <4> HIDE DEF m
      <4>8. Before(r, m + 1) = Before(r, m) + Length(table[m], r.values[m], m \in r.nulls)
        BY <1>5, <4>7
      <4>9. Length(table[m], r.values[m], m \in r.nulls) \in Nat
        BY <1>1, <4>7, AttributeFacts
      <4>10. m \in 1 .. n + 1 /\ Before(r, m) \in Nat
        BY <1>1, <1>5, <4>7
      <4>11. ~(Before(r, m) <= Len(b))
        BY <4>3 DEF m
      <4> QED
        BY <1>4, <4>6, <4>7, <4>8, <4>9, <4>10, <4>11
    <3>3. n - j \in Nat /\ n - j <= n /\ (n + 1) - (n - j) = j + 1
      BY <1>1
    <3> QED
      BY <3>2, <3>3
  <2>5. Stored(position, b)
    BY <1>3
  <2>6. \A k \in 1 .. Len(s) : b[Before(r, j) + k] = s[k]
    BY <1>4, <2>1, <2>2
  <2> QED
    BY <1>4, <2>1, <2>2, <2>3, <2>4, <2>5, <2>6, StoredWithin
<1>9. f[0].next = position + Before(r, 1) /\ \A i \in 1 .. n : f[i] = Read(table[i], f[i - 1].next)
  <2>1. \A i \in 0 .. n : f[i] = IF i = 0 THEN [value |-> Null, next |-> position + IntSize]
                                 ELSE Read(table[i], f[i - 1].next)
    BY <1>2 DEF Reads
  <2>2. 0 \in 0 .. n /\ \A i \in 1 .. n : i \in 0 .. n /\ i # 0
    BY <1>1
  <2>3. f[0] = [value |-> Null, next |-> position + IntSize]
    BY <2>1, <2>2
  <2>4. \A i \in 1 .. n : f[i] = Read(table[i], f[i - 1].next)
    BY <2>1, <2>2
  <2> QED
    BY <1>5, <1>6, <2>3, <2>4
<1>10. ASSUME NEW j \in 1 .. n, f[j - 1].next = position + Before(r, j)
       PROVE  /\ f[j].next = position + Before(r, j + 1)
              /\ j \notin r.nulls => f[j].value = Reread(table[j], r.values[j])
  <2>1. j \in DOMAIN table /\ j \in 1 .. n + 1 /\ j + 1 \in 1 .. n + 1
    BY <1>1
  <2>2. Before(r, j) \in Nat /\ Before(r, j + 1) = Before(r, j) + Length(table[j], r.values[j], j \in r.nulls)
    BY <1>5, <2>1
  <2>3. PICK o : o = position + Before(r, j)
    OBVIOUS
  <2>4. o \in Int /\ Stored(o, AttributeBytes(r, j))
    BY <1>8, <2>2, <2>3
  <2>5. /\ Read(table[j], o).next = o + Length(table[j], r.values[j], j \in r.nulls)
        /\ j \notin r.nulls => Read(table[j], o).value = Reread(table[j], r.values[j])
    BY <2>1, <2>4, AttributeRead
  <2>6. f[j] = Read(table[j], o)
    BY <1>9, <1>10, <2>3
  <2>7. Length(table[j], r.values[j], j \in r.nulls) \in Nat
    BY <2>1, AttributeFacts
  <2>8. o + Length(table[j], r.values[j], j \in r.nulls) = position + Before(r, j + 1)
    BY <2>2, <2>3, <2>7
  <2> QED
    BY <2>5, <2>6, <2>8
<1>11. \A j \in 0 .. n : f[j].next = position + Before(r, j + 1)
  <2> DEFINE Bad == {j \in 0 .. n : f[j].next # position + Before(r, j + 1)}
  <2> SUFFICES ASSUME Bad # {} PROVE FALSE
    OBVIOUS
  <2>1. Bad \subseteq Nat
    OBVIOUS
  <2>2. PICK j \in Bad : \A l \in Bad : j <= l
    BY <2>1, LeastMember
  <2>3. j \in 0 .. n /\ f[j].next # position + Before(r, j + 1)
    OBVIOUS
  <2>4. j # 0
    <3>1. 0 + 1 = 1
      OBVIOUS
    <3> QED
      BY <1>9, <2>3, <3>1
  <2>5. j \in 1 .. n /\ j - 1 \in 0 .. n /\ j - 1 \notin Bad /\ (j - 1) + 1 = j
    BY <1>1, <2>2, <2>3, <2>4
  <2>6. f[j - 1].next = position + Before(r, j)
    BY <2>5
  <2> QED
    BY <1>10, <2>3, <2>5, <2>6
<1>12. \A j \in 1 .. n : j \notin r.nulls => f[j].value = Reread(table[j], r.values[j])
  <2> TAKE j \in 1 .. n
  <2>1. j - 1 \in 0 .. n /\ (j - 1) + 1 = j
    BY <1>1
  <2>2. f[j - 1].next = position + Before(r, j)
    BY <1>11, <2>1
  <2> QED
    BY <1>10, <2>2
<1> DEFINE values == [i \in DOMAIN table |-> f[i].value]
<1>13. DOMAIN table \ Bits(r.bitmap) = r.nulls
  <2>1. r.bitmap = DOMAIN table \ r.nulls /\ r.nulls \subseteq DOMAIN table
    BY DEF IsRecord
  <2>2. r.bitmap \in SUBSET DOMAIN table
    BY <2>1
  <2>3. r.bitmap # Garbled
    BY <2>2, PageLayoutAssumption
  <2>4. Bits(r.bitmap) = r.bitmap
    BY <2>3 DEF Bits
  <2> QED
    BY <2>1, <2>4
<1>14. DOMAIN values = DOMAIN table /\ \A j \in DOMAIN table : values[j] = f[j].value
  OBVIOUS
<1>15. RecordAt(position, {}) =
          [bitmap |-> r.bitmap, nulls |-> r.nulls, values |-> values,
           size |-> IF \A i \in DOMAIN table : table[i].type = "VARCHAR" => i \in r.nulls \/ values[i] # Garbled
                    THEN SizeOf(values, r.nulls) ELSE Garbled]
  BY <1>2, <1>7, <1>13
<1> HIDE DEF values
<1>16. \A j \in DOMAIN table \ r.nulls : values[j] = Reread(table[j], r.values[j])
  BY <1>1, <1>12, <1>14
<1>17. ASSUME NEW i \in DOMAIN table, table[i].type = "VARCHAR", i \notin r.nulls
       PROVE  values[i] # Garbled
  <2>1. IsValue(table[i], r.values[i])
    BY <1>17 DEF IsRecord
  <2>2. Reread(table[i], r.values[i]) = r.values[i]
    BY <1>17 DEF Reread
  <2> QED
    BY <1>16, <1>17, <2>1, <2>2 DEF IsValue
<1>18. RecordAt(position, {}) = [bitmap |-> r.bitmap, nulls |-> r.nulls, values |-> values,
                                size |-> SizeOf(values, r.nulls)]
  BY <1>15, <1>17
<1>19. DOMAIN RecordAt(position, {}) = Fields
  BY <1>18 DEF Fields
<1> QED
  BY <1>14, <1>16, <1>18, <1>19 DEF IsRead


-----------------------------------------------------------------------------
(* What write_page_to_file wrote is what read_page_from_file reads. *)

LEMMA WriteStored ==
    ASSUME table \in Tables, NEW chain, IsChain(chain), chain # <<>>, file = Image(chain),
           NEW p \in 1 .. Len(chain), NEW w, IsWrite(chain, p, w)
    PROVE  Stored(w.at, w.bytes)
BY ImageHas DEF Stored

\* The mark and the number of the records of a page.
LEMMA HeaderRead ==
    ASSUME table \in Tables, NEW chain, IsChain(chain), chain # <<>>, file = Image(chain),
           NEW p \in 1 .. Len(chain)
    PROVE  /\ IntAt(Start(p)) = IF p < Len(chain) THEN 1 ELSE 37
           /\ IntAt(Start(p) + IntSize) = Len(chain[p])
<1>1. Len(chain) \in Nat /\ p \in Nat \ {0}
  BY SequenceFacts DEF IsChain
<1>2. Start(p) \in Nat
  BY <1>1, StartFacts
<1>3. PICK w : w = HeaderWrite(chain, p)
  OBVIOUS
<1>4. Stored(w.at, w.bytes)
  BY <1>3, WriteStored DEF IsWrite
<1>5. PICK m, n : m = (IF p < Len(chain) THEN 1 ELSE 37) /\ n = Len(chain[p])
  OBVIOUS
<1>6. PICK x, y, u : x = IntBytes(m) /\ y = IntBytes(n) /\ u = w.bytes
  OBVIOUS
<1>7. w.at = Start(p) /\ Joins(u, x, y)
  BY <1>3, <1>5, <1>6 DEF HeaderWrite, At, Joins
<1>8. IntSize = 4 /\ 4 \in Nat /\ 4 \in Nat \ {0}
  BY DEF IntSize
<1>9. IsSequence(x) /\ IsSequence(y) /\ Len(x) = 4
  BY <1>6, <1>8, BytesFacts DEF IntBytes
<1>10. Stored(Start(p), x) /\ Stored(Start(p) + 4, y)
  <2>1. Stored(Start(p), u) /\ Start(p) \in Int
    BY <1>2, <1>4, <1>6, <1>7
  <2> QED
    BY <1>7, <1>9, <2>1, StoredParts
<1>11. \A position \in Int : \A v : Stored(position, IntBytes(v)) => IntAt(position) = v
  BY <1>8, ValueRead DEF IntBytes, IntAt
<1>12. IntAt(Start(p)) = m /\ IntAt(Start(p) + 4) = n
  BY <1>2, <1>6, <1>10, <1>11
<1> QED
  BY <1>5, <1>8, <1>12

LEMMA OffsetRead ==
    ASSUME table \in Tables, NEW chain, IsChain(chain), chain # <<>>, file = Image(chain),
           NEW p \in 1 .. Len(chain), NEW i \in 1 .. Len(chain[p])
    PROVE  /\ IntAt(Start(p) + IntSize + IntSize * i) = Place(chain[p], i)
           /\ IsRead(RecordAt(Start(p) + Place(chain[p], i), {}), chain[p][i])
<1>1. Len(chain) \in Nat /\ p \in Nat \ {0}
  BY SequenceFacts DEF IsChain
<1>2. Start(p) \in Nat
  BY <1>1, StartFacts
<1>3. IsPage(chain[p]) /\ IsRecord(chain[p][i])
  BY DEF IsChain, IsPage
<1>4. Len(chain[p]) \in Nat /\ i \in 0 .. Len(chain[p]) /\ i \in Nat
  BY <1>3, PageFacts
<1>5. Place(chain[p], i) \in Nat
  BY <1>3, <1>4, PlaceFacts
<1>6. \A a, b : At(a, b).at = a /\ At(a, b).bytes = b
  BY DEF At
<1>7. IntSize = 4 /\ 4 \in Nat \ {0}
  BY DEF IntSize
<1>8. IntAt(Start(p) + IntSize + IntSize * i) = Place(chain[p], i)
  <2>1. Stored(Start(p) + IntSize + IntSize * i, IntBytes(Place(chain[p], i)))
    <3>1. PICK w : w = OffsetWrite(chain, p, i)
      OBVIOUS
    <3>2. Stored(w.at, w.bytes)
      BY <3>1, WriteStored DEF IsWrite
    <3> QED
      BY <1>6, <3>1, <3>2 DEF OffsetWrite
  <2>2. PICK o : o = Start(p) + IntSize + IntSize * i
    OBVIOUS
  <2>3. o \in Int
    BY <1>2, <1>4, <1>7, <2>2
  <2> QED
    BY <1>7, <2>1, <2>2, <2>3, ValueRead DEF IntBytes, IntAt
<1>9. IsRead(RecordAt(Start(p) + Place(chain[p], i), {}), chain[p][i])
  <2>1. Stored(Start(p) + Place(chain[p], i), RecordBytes(chain[p][i]))
    <3>1. PICK w : w = RecordWrite(chain, p, i)
      OBVIOUS
    <3>2. Stored(w.at, w.bytes)
      BY <3>1, WriteStored DEF IsWrite
    <3> QED
      BY <1>6, <3>1, <3>2 DEF RecordWrite
  <2>2. PICK o, r : o = Start(p) + Place(chain[p], i) /\ r = chain[p][i]
    OBVIOUS
  <2>3. o \in Int
    BY <1>2, <1>5, <2>2
  <2> QED
    BY <1>3, <2>1, <2>2, <2>3, RecordRead
<1> QED
  BY <1>8, <1>9

\* Pages that are longer than nothing divide a file evenly.
LEMMA PagesCounted ==
    ASSUME NEW n \in Nat, NEW size \in Nat \ {0}
    PROVE  (n * size) \div size = n
<1>1. n * size \in Int
  OBVIOUS
<1>2. \A q, r \in Int : n * size = size * q + r /\ 0 <= r /\ r < size => q = n
  <2> SUFFICES ASSUME NEW q \in Int, NEW r \in Int, n * size = size * q + r, 0 <= r, r < size
               PROVE  q = n
    OBVIOUS
  <2>1. (n - q) * size = r
    OBVIOUS
  <2>2. n - q >= 1 => (n - q) * size >= size
    OBVIOUS
  <2>3. n - q <= -1 => (n - q) * size <= -size
    OBVIOUS
  <2> QED
    BY <2>1, <2>2, <2>3
<1> QED
  BY <1>1, <1>2

\* The pages that are read are those that were written, record by record.
AreRead(read, chain) ==
    /\ IsSequence(read) /\ Len(read) = Len(chain)
    /\ \A p \in 1 .. Len(chain) :
          /\ IsSequence(read[p]) /\ Len(read[p]) = Len(chain[p])
          /\ \A i \in 1 .. Len(chain[p]) : IsRead(read[p][i], chain[p][i])

LEMMA PagesRead ==
    ASSUME table \in Tables, NEW chain, IsChain(chain), chain # <<>>, file = Image(chain)
    PROVE  AreRead(PagesInFile({}), chain)
<1> DEFINE N == Len(chain)
           count == Cardinality(DOMAIN file) \div PageSize
           IsLast(n) == ~(IntAt(Start(n)) = 1) /\ \A m \in 1 .. n - 1 : IntAt(Start(m)) = 1
           last == CHOOSE n \in 1 .. count : IsLast(n)
           RecordIn(p, i) == RecordAt(Start(p) + IntAt(Start(p) + IntSize + IntSize * i), {})
           PageIn(p) == [i \in 1 .. IntAt(Start(p) + IntSize) |-> RecordIn(p, i)]
<1>1. N \in Nat /\ N >= 1 /\ Start(N + 1) \in Nat /\ DOMAIN file = 0 .. Start(N + 1) - 1
  <2>1. N \in Nat
    BY SequenceFacts DEF IsChain
  <2> QED
    BY <2>1, ImageSize
<1>2. count = N
  <2>1. PageSize \in Nat \ {0}
    <3>1. IsPage(chain[1]) /\ 1 \in 1 .. Len(chain)
      BY <1>1 DEF IsChain
    <3>2. 0 \in 0 .. Len(chain[1]) /\ Len(chain[1]) \in Nat
      BY <3>1, PageFacts
    <3>3. Place(chain[1], 0) = PageSize /\ 8 + 4 * Len(chain[1]) <= Place(chain[1], 0)
      BY <3>1, <3>2, PlaceFacts DEF Header, IntSize
    <3> QED
      BY <3>2, <3>3, PageLayoutAssumption
  <2>2. Start(N + 1) = N * PageSize
    <3>1. (N + 1) - 1 = N
      BY <1>1
    <3> QED
      BY <3>1 DEF Start
  <2> HIDE DEF N
  <2>3. PICK k : k = Start(N + 1)
    OBVIOUS
  <2>4. Cardinality(0 .. k - 1) = k
    <3>1. k \in Nat
      BY <1>1, <2>3
    <3>2. k - 1 \in Int /\ 0 \in Int
      BY <3>1
    <3>3. Cardinality(0 .. k - 1) = IF 0 > k - 1 THEN 0 ELSE (k - 1) - 0 + 1
      BY <3>2, FS_Interval
    <3> QED
      BY <3>1, <3>3
  <2>5. Cardinality(DOMAIN file) = N * PageSize
    BY <1>1, <2>2, <2>3, <2>4
  <2> QED
    BY <1>1, <2>1, <2>5, PagesCounted
<1> HIDE DEF count
<1>3. \A p \in 1 .. N : /\ IntAt(Start(p)) = IF p < N THEN 1 ELSE 37
                        /\ IntAt(Start(p) + IntSize) = Len(chain[p])
  BY HeaderRead
<1> HIDE DEF N
<1>4. last = N
  <2>1. N \in 1 .. count /\ IsLast(N)
    <3>1. \A m \in 1 .. N - 1 : m \in 1 .. N /\ m < N
      BY <1>1
    <3>2. N \in 1 .. N /\ ~(N < N)
      BY <1>1
    <3> QED
      BY <1>2, <1>3, <3>1, <3>2
  <2>2. ASSUME NEW n \in 1 .. count, IsLast(n) PROVE n = N
    <3>1. n \in 1 .. N
      BY <1>2
    <3>2. ~(n < N)
      BY <1>3, <2>2, <3>1
    <3> QED
      BY <1>1, <3>1, <3>2
  <2> HIDE DEF IsLast
  <2>3. last \in 1 .. count /\ IsLast(last)
    BY <2>1
  <2> HIDE DEF last
  <2> QED
    BY <2>2, <2>3
<1>5. PagesInFile({}) = [p \in 1 .. last |-> PageIn(p)]
  <2>1. \A p, i : {f[3] : f \in {g \in {} : g[1] = p /\ g[2] = i}} = {}
    OBVIOUS
  <2>2. PagesInFile({}) =
          [p \in 1 .. last |-> [i \in 1 .. IntAt(Start(p) + IntSize) |->
             RecordAt(Start(p) + IntAt(Start(p) + IntSize + IntSize * i),
                      {f[3] : f \in {g \in {} : g[1] = p /\ g[2] = i}})]]
    BY DEF PagesInFile, Start, last, IsLast, count
  <2> HIDE DEF last
  <2> QED
    BY <2>1, <2>2
<1> HIDE DEF last, PageIn
<1>6. PICK read : read = PagesInFile({})
  OBVIOUS
<1>7. IsSequence(read) /\ Len(read) = N /\ \A p \in 1 .. N : read[p] = PageIn(p)
  <2>1. read = [p \in 1 .. N |-> PageIn(p)]
    BY <1>4, <1>5, <1>6
  <2> QED
    BY <1>1, <2>1, MapSequence
<1>8. ASSUME NEW p \in 1 .. N
      PROVE  /\ IsSequence(read[p]) /\ Len(read[p]) = Len(chain[p])
             /\ \A i \in 1 .. Len(chain[p]) : IsRead(read[p][i], chain[p][i])
  <2>1. Len(chain[p]) \in Nat
    BY PageFacts DEF IsChain, N
  <2>2. PICK page : page = PageIn(p)
    OBVIOUS
  <2>3. page = [i \in 1 .. Len(chain[p]) |-> RecordIn(p, i)]
    BY <1>3, <2>2 DEF PageIn
  <2> HIDE DEF RecordIn
  <2>4. IsSequence(page) /\ Len(page) = Len(chain[p]) /\ \A i \in 1 .. Len(chain[p]) : page[i] = RecordIn(p, i)
    BY <2>1, <2>3, MapSequence
  <2>5. \A i \in 1 .. Len(chain[p]) : IsRead(RecordIn(p, i), chain[p][i])
    BY OffsetRead DEF RecordIn, N
  <2> QED
    BY <1>7, <2>2, <2>4, <2>5
<1> QED
  BY <1>6, <1>7, <1>8 DEF AreRead, N

\* They are pages again.
LEMMA ReadIsChain ==
    ASSUME table \in Tables, NEW chain, IsChain(chain), NEW read, AreRead(read, chain)
    PROVE  IsChain(read)
<1>1. Len(chain) \in Nat
  BY SequenceFacts DEF IsChain
<1>2. ASSUME NEW p \in 1 .. Len(chain) PROVE IsPage(read[p])
  <2>1. IsPage(chain[p])
    BY DEF IsChain
  <2>2. PICK page, r : page = chain[p] /\ r = read[p]
    OBVIOUS
  <2>3. /\ IsSequence(r) /\ Len(r) = Len(page)
        /\ \A i \in 1 .. Len(page) : IsRead(r[i], page[i])
    BY <2>2 DEF AreRead
  <2>4. Len(page) \in Nat /\ Len(page) >= 1 /\ DOMAIN page = 1 .. Len(page)
    BY <2>1, <2>2, PageFacts
  <2>5. DOMAIN r = 1 .. Len(page)
    BY <2>3, SequenceFacts
  <2>6. \A i \in 1 .. Len(page) : /\ IsRecord(page[i]) /\ IsRecord(r[i])
                                  /\ page[i].size \in Nat /\ r[i].size \in Nat /\ r[i].size <= page[i].size
    <3> TAKE i \in 1 .. Len(page)
    <3>1. IsRecord(page[i])
      BY <2>1, <2>2 DEF IsPage
    <3>2. IsRecord(r[i]) /\ r[i].size <= page[i].size
      BY <2>3, <3>1, ReadIsRecord
    <3> QED
      BY <3>1, <3>2 DEF IsRecord
  <2>7. Fits(r)
    <3> DEFINE f == [k \in DOMAIN r |-> r[k].size]
               g == [k \in DOMAIN page |-> page[k].size]
               n == Len(page)
    <3>1. \A i \in 1 .. n : f[i] \in Nat /\ g[i] \in Nat /\ f[i] <= g[i]
      BY <2>4, <2>5, <2>6
    <3>2. Header + IntSize * n + SumTo(g, n) <= PageSize
      BY <2>1, <2>2 DEF IsPage, Fits
    <3> HIDE DEF f, g, n
    <3>3. n \in Nat /\ n \in 0 .. n
      BY <2>4 DEF n
    <3>4. SumTo(f, n) <= SumTo(g, n)
      BY <3>1, <3>3, SumCompared
    <3>5. SumTo(f, n) \in Nat /\ SumTo(g, n) \in Nat
      BY <3>1, <3>3, SumNatural
    <3>6. Header + IntSize * n + SumTo(f, n) <= PageSize
      BY <3>2, <3>3, <3>4, <3>5, PageLayoutAssumption DEF Header, IntSize
    <3> QED
      BY <2>3, <3>6 DEF Fits, f, n
  <2>8. r # <<>>
    <3>1. Len(r) # 0
      BY <2>3, <2>4
    <3> QED
      BY <3>1
  <2> QED
    BY <2>2, <2>3, <2>6, <2>7, <2>8 DEF IsPage
<1> QED
  BY <1>2 DEF IsChain, AreRead


-----------------------------------------------------------------------------
(* More about sequences: changing a member, taking the first ones.           *)

Changes(t, s, i, v) == t = [s EXCEPT ![i] = v]

LEMMA ExceptFacts ==
    ASSUME NEW s, IsSequence(s), NEW i \in 1 .. Len(s), NEW v, NEW t, Changes(t, s, i, v)
    PROVE  /\ IsSequence(t) /\ Len(t) = Len(s)
           /\ t[i] = v /\ \A k \in 1 .. Len(s) : k # i => t[k] = s[k]
<1>1. Len(s) \in Nat /\ DOMAIN s = 1 .. Len(s)
  BY SequenceFacts
<1>2. t = [s EXCEPT ![i] = v]
  BY DEF Changes
<1>3. DOMAIN t = 1 .. Len(s) /\ t = [k \in 1 .. Len(s) |-> t[k]]
  BY <1>1, <1>2
<1>4. IsSequence(t) /\ Len(t) = Len(s)
  BY <1>1, <1>3, MapSequence
<1>5. t[i] = v /\ \A k \in 1 .. Len(s) : k # i => t[k] = s[k]
  BY <1>1, <1>2
<1> QED
  BY <1>4, <1>5

LEMMA FirstFacts ==
    ASSUME NEW s, IsSequence(s), NEW m \in 0 .. Len(s)
    PROVE  /\ IsSequence(SubSeq(s, 1, m)) /\ Len(SubSeq(s, 1, m)) = m
           /\ \A k \in 1 .. m : SubSeq(s, 1, m)[k] = s[k]
<1>1. s \in Seq(Range(s)) /\ Len(s) \in Nat
  BY SequenceFacts
<1>2. PICK t : t = SubSeq(s, 1, m)
  OBVIOUS
<1>3. t \in Seq(Range(s)) /\ Len(t) = m /\ \A k \in 1 .. m : t[k] = s[k]
  BY <1>1, <1>2
<1>4. IsSequence(t)
  BY <1>3, SequenceOf
<1> QED
  BY <1>2, <1>3, <1>4

-----------------------------------------------------------------------------
(* The tuples of a table have an input for every attribute. *)

Allowed(i) == Inputs(table[i]) \ (IF i = 1 THEN {Null} ELSE {})

IsTupleTo(t, n) == IsSequence(t) /\ Len(t) = n /\ \A i \in 1 .. n : t[i] \in Allowed(i)

Longer(S, m) == {Append(t, v) : t \in S, v \in Inputs(table[m]) \ (IF m = 1 THEN {Null} ELSE {})}

TupleSets(f, n) == f = [m \in 0 .. n |-> IF m = 0 THEN {<<>>} ELSE Longer(f[m - 1], m)]

LEMMA TupleSetsExist ==
    ASSUME NEW n \in Nat
    PROVE  \E f : TupleSets(f, n)
<1> DEFINE Bad == {m \in Nat : ~\E f : TupleSets(f, m)}
<1> SUFFICES ASSUME Bad # {} PROVE FALSE
  OBVIOUS
<1>1. PICK m \in Bad : \A l \in Bad : m <= l
  BY LeastMember
<1>2. m \in Nat /\ ~\E f : TupleSets(f, m)
  OBVIOUS
<1>3. m # 0
  <2>1. TupleSets([i \in 0 .. 0 |-> {<<>>}], 0)
    BY DEF TupleSets
  <2> QED
    BY <1>2, <2>1
<1>4. m - 1 \in Nat /\ m - 1 \notin Bad
  BY <1>1, <1>2, <1>3
<1>5. PICK f : TupleSets(f, m - 1)
  BY <1>4
<1>8. \A k \in 0 .. m - 1 : f[k] = IF k = 0 THEN {<<>>} ELSE Longer(f[k - 1], k)
  BY <1>5 DEF TupleSets
<1> DEFINE g == [i \in 0 .. m |-> IF i < m THEN f[i] ELSE Longer(f[m - 1], m)]
<1>6. ASSUME NEW i \in 0 .. m PROVE g[i] = IF i = 0 THEN {<<>>} ELSE Longer(g[i - 1], i)
  <2>1. \A j \in 0 .. m - 1 : g[j] = f[j]
    BY <1>2
  <2>2. g[m] = Longer(f[m - 1], m)
    BY <1>2
  <2> HIDE DEF g
  <2>3. CASE i = m
    <3>1. m - 1 \in 0 .. m - 1
      BY <1>2, <1>3
    <3> QED
      BY <1>3, <2>1, <2>2, <2>3, <3>1
  <2>4. CASE i # m
    <3>1. i \in 0 .. m - 1 /\ (i # 0 => i - 1 \in 0 .. m - 1)
      BY <1>2, <2>4
    <3> QED
      BY <1>8, <2>1, <3>1
  <2> QED
    BY <2>3, <2>4
<1>7. TupleSets(g, m)
  <2>1. g = [i \in 0 .. m |-> g[i]]
    OBVIOUS
  <2> HIDE DEF g
  <2> QED
    BY <1>6, <2>1 DEF TupleSets
<1> QED
  BY <1>2, <1>7

LEMMA TuplesAre ==
    ASSUME table \in Tables, NEW t
    PROVE  t \in Tuples <=> IsTupleTo(t, Len(table))
<1> DEFINE n == Len(table)
           F == CHOOSE f : f = [m \in 0 .. n |-> IF m = 0 THEN {<<>>} ELSE Longer(f[m - 1], m)]
<1>1. n \in Nat
  BY TableFacts
<1>2. Tuples = F[n]
  BY DEF Tuples, Longer
<1>3. TupleSets(F, n)
  <2>1. \E f : f = [m \in 0 .. n |-> IF m = 0 THEN {<<>>} ELSE Longer(f[m - 1], m)]
    BY <1>1, TupleSetsExist DEF TupleSets
  <2> QED
    BY <2>1 DEF TupleSets
<1> HIDE DEF F, n
<1>4. F[0] = {<<>>} /\ \A m \in 1 .. n : F[m] = Longer(F[m - 1], m)
  <2>1. \A m \in 0 .. n : F[m] = IF m = 0 THEN {<<>>} ELSE Longer(F[m - 1], m)
    BY <1>3 DEF TupleSets
  <2>2. 0 \in 0 .. n /\ \A m \in 1 .. n : m \in 0 .. n /\ m # 0
    BY <1>1
  <2> QED
    BY <2>1, <2>2
<1>9. \A S, m, s : s \in Longer(S, m) <=> \E u \in S, v \in Allowed(m) : s = Append(u, v)
  BY DEF Longer, Allowed
<1> DEFINE Right(m) == \A s : s \in F[m] <=> IsTupleTo(s, m)
           Bad == {m \in 0 .. n : ~Right(m)}
<1>5. Right(0)
  <2>1. \A s : IsSequence(s) /\ Len(s) = 0 => s = <<>>
    <3> TAKE s
    <3> HAVE IsSequence(s) /\ Len(s) = 0
    <3>1. IsSequence(<<>>) /\ Len(<<>>) = 0
      BY DEF IsSequence
    <3> QED
      BY <3>1, SameSequence
  <2>2. IsTupleTo(<<>>, 0)
    BY DEF IsTupleTo, IsSequence
  <2> QED
    BY <1>4, <2>1, <2>2 DEF IsTupleTo
<1>6. ASSUME NEW m \in 1 .. n, Right(m - 1) PROVE Right(m)
  <2>1. m \in Nat /\ m - 1 \in Nat /\ (m - 1) + 1 = m
    BY <1>1
  <2>2. ASSUME NEW s, s \in F[m] PROVE IsTupleTo(s, m)
    <3>1. PICK u \in F[m - 1], v \in Allowed(m) : s = Append(u, v)
      BY <1>4, <1>9, <2>2
    <3>2. IsSequence(u) /\ Len(u) = m - 1 /\ \A i \in 1 .. m - 1 : u[i] \in Allowed(i)
      BY <1>6, <3>1 DEF IsTupleTo
    <3>3. IsSequence(s) /\ Len(s) = m /\ s[m] = v /\ \A i \in 1 .. m - 1 : s[i] = u[i]
      BY <2>1, <3>1, <3>2, AppendFacts
    <3>4. \A i \in 1 .. m : i = m \/ i \in 1 .. m - 1
      BY <2>1
    <3> QED
      BY <3>1, <3>2, <3>3, <3>4 DEF IsTupleTo
  <2>3. ASSUME NEW s, IsTupleTo(s, m) PROVE s \in F[m]
    <3>1. IsSequence(s) /\ Len(s) = m /\ \A i \in 1 .. m : s[i] \in Allowed(i)
      BY <2>3 DEF IsTupleTo
    <3>2. PICK u : u = SubSeq(s, 1, m - 1)
      OBVIOUS
    <3>3. IsSequence(u) /\ Len(u) = m - 1 /\ \A i \in 1 .. m - 1 : u[i] = s[i]
      <4>1. m - 1 \in 0 .. Len(s)
        BY <2>1, <3>1
      <4> QED
        BY <3>1, <3>2, <4>1, FirstFacts
    <3>4. u \in F[m - 1]
      <4>1. \A i \in 1 .. m - 1 : i \in 1 .. m
        BY <2>1
      <4> QED
        BY <1>6, <3>1, <3>3, <4>1 DEF IsTupleTo
    <3>5. Append(u, s[m]) = s
      <4>1. PICK w : w = Append(u, s[m])
        OBVIOUS
      <4>2. IsSequence(w) /\ Len(w) = m /\ w[m] = s[m] /\ \A i \in 1 .. m - 1 : w[i] = u[i]
        BY <2>1, <3>3, <4>1, AppendFacts
      <4>3. \A i \in 1 .. m : i = m \/ i \in 1 .. m - 1
        BY <2>1
      <4>4. \A i \in 1 .. Len(w) : w[i] = s[i]
        BY <3>3, <4>2, <4>3
      <4> QED
        BY <3>1, <4>1, <4>2, <4>4, SameSequence
    <3>6. s[m] \in Allowed(m)
      BY <2>1, <3>1
    <3> QED
      BY <1>4, <1>9, <3>4, <3>5, <3>6
  <2> QED
    BY <2>2, <2>3
<1> HIDE DEF Right
<1>7. Bad = {}
  <2> SUFFICES ASSUME Bad # {} PROVE FALSE
    OBVIOUS
  <2>1. Bad \subseteq Nat
    OBVIOUS
  <2>2. PICK m \in Bad : \A l \in Bad : m <= l
    BY <2>1, LeastMember
  <2>3. m \in 1 .. n
    <3>1. m \in 0 .. n /\ ~Right(m)
      OBVIOUS
    <3> QED
      BY <1>5, <3>1
  <2>4. m - 1 \in 0 .. n /\ m - 1 \notin Bad
    BY <1>1, <2>2, <2>3
  <2> QED
    BY <1>6, <2>3, <2>4
<1>8. Right(n)
  <2>1. n \in 0 .. n
    BY <1>1
  <2> QED
    BY <1>7, <2>1
<1> QED
  BY <1>2, <1>8 DEF Right, n


-----------------------------------------------------------------------------
(* The records of pages and the rows they stand for. *)

Matches(record, row) ==
    \A i \in DOMAIN table :
       IF row[i] = Null THEN i \in record.nulls
       ELSE i \notin record.nulls /\ SameText(table[i], record.values[i], row[i])

\* The records on all pages.
Count(chain) == Offset(chain, Len(chain))

AreRows(chain, list) ==
    \A p \in 1 .. Len(chain) : \A i \in 1 .. Len(chain[p]) :
       Matches(chain[p][i], list[Offset(chain, p - 1) + i])

LEMMA ChainFacts ==
    ASSUME NEW chain, IsChain(chain)
    PROVE  /\ IsNested(chain) /\ Len(chain) \in Nat /\ DOMAIN chain = 1 .. Len(chain)
           /\ Count(chain) \in Nat
           /\ \A p \in 1 .. Len(chain) : \A i \in 1 .. Len(chain[p]) :
                 /\ Len(chain[p]) \in Nat /\ Offset(chain, p - 1) \in Nat
                 /\ Offset(chain, p - 1) + i \in 1 .. Count(chain)
<1>1. IsNested(chain)
  BY DEF IsChain, IsPage, IsNested
<1>2. Len(chain) \in Nat /\ DOMAIN chain = 1 .. Len(chain)
  BY SequenceFacts DEF IsChain
<1>3. Count(chain) \in Nat
  <2>1. Len(chain) \in 0 .. Len(chain)
    BY <1>2
  <2> QED
    BY <1>1, <2>1, OffsetFacts DEF Count
<1>4. ASSUME NEW p \in 1 .. Len(chain), NEW i \in 1 .. Len(chain[p])
      PROVE  /\ Len(chain[p]) \in Nat /\ Offset(chain, p - 1) \in Nat
             /\ Offset(chain, p - 1) + i \in 1 .. Count(chain)
  <2>1. p - 1 \in 0 .. Len(chain) /\ p \in 0 .. Len(chain) /\ Len(chain) \in p .. Len(chain)
    BY <1>2
  <2>2. /\ Offset(chain, p - 1) \in Nat /\ Len(chain[p]) \in Nat
        /\ Offset(chain, p) = Offset(chain, p - 1) + Len(chain[p])
        /\ Offset(chain, p) <= Count(chain)
    BY <1>1, <2>1, OffsetFacts DEF Count
  <2> QED
    BY <1>3, <2>2
<1> QED
  BY <1>1, <1>2, <1>3, <1>4

\* Pages of the same lengths have the same offsets.
LEMMA OffsetSame ==
    ASSUME NEW chain, NEW other, NEW m \in Nat, m <= Len(chain), m <= Len(other),
           Len(chain) \in Nat, Len(other) \in Nat, \A p \in 1 .. m : Len(chain[p]) = Len(other[p])
    PROVE  \A i \in 0 .. m : Offset(chain, i) = Offset(other, i)
<1>1. \A p \in 1 .. m : Lens(chain)[p] = Lens(other)[p]
  BY DEF Lens
<1> QED
  BY <1>1, SumSame DEF Offset

\* The rows behind the records do not matter.
LEMMA AreRowsOf ==
    ASSUME NEW chain, IsChain(chain), NEW list, NEW other, AreRows(chain, list),
           \A n \in 1 .. Count(chain) : other[n] = list[n]
    PROVE  AreRows(chain, other)
BY ChainFacts DEF AreRows

\* A record on a new page.
LEMMA PageAdded ==
    ASSUME NEW chain, IsChain(chain), NEW list, IsSequence(list), AreRows(chain, list), Count(chain) = Len(list),
           NEW r, IsRecord(r), Fits(<<r>>), NEW row, Matches(r, row)
    PROVE  /\ IsChain(Append(chain, <<r>>)) /\ AreRows(Append(chain, <<r>>), Append(list, row))
           /\ Count(Append(chain, <<r>>)) = Len(list) + 1 /\ Append(chain, <<r>>) # <<>>
<1> DEFINE n == Len(chain)
<1>1. /\ IsSequence(chain) /\ IsNested(chain) /\ n \in Nat /\ Count(chain) \in Nat
      /\ \A p \in 1 .. n : Len(chain[p]) \in Nat
  BY ChainFacts, OffsetFacts DEF IsChain
<1>2. PICK page : page = <<r>>
  OBVIOUS
<1>3. IsSequence(page) /\ Len(page) = 1 /\ page[1] = r
  BY <1>2, SingleSequence
<1>4. IsPage(page)
  <2>1. \A i \in 1 .. 1 : i = 1
    OBVIOUS
  <2>2. page # <<>>
    BY <1>2
  <2> QED
    BY <1>2, <1>3, <2>1, <2>2 DEF IsPage
<1>5. PICK d : d = Append(chain, page)
  OBVIOUS
<1> HIDE DEF n
<1>6. IsSequence(d) /\ Len(d) = n + 1 /\ d[n + 1] = page /\ \A p \in 1 .. n : d[p] = chain[p]
  BY <1>1, <1>5, AppendFacts DEF n
<1>7. PICK all : all = Append(list, row)
  OBVIOUS
<1>8. Len(list) \in Nat /\ all[Len(list) + 1] = row /\ \A k \in 1 .. Len(list) : all[k] = list[k]
  BY <1>7, AppendFacts DEF IsSequence
<1>9. \A p \in 1 .. n + 1 : p = n + 1 \/ p \in 1 .. n
  BY <1>1
<1>10. IsChain(d)
  BY <1>4, <1>6, <1>9 DEF IsChain, n
<1>11. \A p \in 0 .. n : Offset(d, p) = Offset(chain, p)
  <2>1. n <= Len(d) /\ n <= Len(chain) /\ Len(d) \in Nat /\ Len(chain) \in Nat
    BY <1>1, <1>6 DEF n
  <2> QED
    BY <1>1, <1>6, <2>1, OffsetSame
<1>12. Offset(d, n) = Len(list) /\ Count(d) = Len(list) + 1
  <2>1. n \in 0 .. n /\ n + 1 \in 1 .. Len(d) /\ (n + 1) - 1 = n
    BY <1>1, <1>6
  <2>2. Offset(d, n) = Len(list)
    BY <1>11, <2>1 DEF Count, n
  <2>3. IsNested(d)
    BY <1>10, ChainFacts
  <2>4. Offset(d, n + 1) = Offset(d, (n + 1) - 1) + Len(d[n + 1])
    BY <2>1, <2>3, OffsetFacts
  <2> QED
    BY <1>3, <1>6, <2>1, <2>2, <2>4 DEF Count
<1>13. ASSUME NEW p \in 1 .. n + 1, NEW i \in 1 .. Len(d[p])
       PROVE  Matches(d[p][i], all[Offset(d, p - 1) + i])
  <2>1. CASE p = n + 1
    <3>1. i = 1 /\ p - 1 = n
      <4>1. Len(d[p]) = 1
        BY <1>3, <1>6, <2>1
      <4>2. i \in 1 .. 1 /\ p - 1 = n
        BY <1>1, <2>1, <4>1
      <4> QED
        BY <4>2
    <3> QED
      BY <1>3, <1>6, <1>8, <1>12, <2>1, <3>1
  <2>2. CASE p # n + 1
    <3>1. p \in 1 .. n /\ p - 1 \in 0 .. n
      BY <1>1, <1>9, <2>2
    <3>2. d[p] = chain[p] /\ Offset(d, p - 1) = Offset(chain, p - 1)
      BY <1>6, <1>11, <3>1
    <3>3. Offset(chain, p - 1) + i \in 1 .. Len(list)
      BY <3>1, <3>2, ChainFacts DEF n
    <3>4. Matches(chain[p][i], list[Offset(chain, p - 1) + i])
      BY <3>1, <3>2 DEF AreRows, n
    <3> QED
      BY <1>8, <3>2, <3>3, <3>4
  <2> QED
    BY <2>1, <2>2
<1>14. AreRows(d, all)
  BY <1>6, <1>13 DEF AreRows
<1>15. d # <<>>
  BY <1>1, <1>6
<1> QED
  BY <1>2, <1>5, <1>7, <1>10, <1>12, <1>14, <1>15

\* A record on the last page.
LEMMA RecordAdded ==
    ASSUME NEW chain, IsChain(chain), chain # <<>>,
           NEW list, IsSequence(list), AreRows(chain, list), Count(chain) = Len(list),
           NEW r, IsRecord(r), Fits(Append(Last(chain), r)), NEW row, Matches(r, row),
           NEW d, Changes(d, chain, Len(chain), Append(chain[Len(chain)], r))
    PROVE  IsChain(d) /\ AreRows(d, Append(list, row)) /\ Count(d) = Len(list) + 1 /\ d # <<>>
<1> DEFINE n == Len(chain)
<1>1. /\ IsSequence(chain) /\ IsNested(chain) /\ n \in Nat /\ Count(chain) \in Nat /\ DOMAIN chain = 1 .. n
      /\ \A p \in 1 .. n : Len(chain[p]) \in Nat
  BY ChainFacts, OffsetFacts DEF IsChain
<1>2. n >= 1
  <2>1. n # 0
    BY <1>1
  <2> QED
    BY <1>1, <2>1
<1> HIDE DEF n
<1>3. PICK old, page : old = chain[n] /\ page = Append(old, r)
  OBVIOUS
<1>4. IsPage(old) /\ n \in 1 .. n
  BY <1>1, <1>2, <1>3 DEF IsChain, n
<1>5. IsSequence(old) /\ Len(old) \in Nat
  BY <1>4, PageFacts DEF IsPage
<1>6. IsSequence(page) /\ Len(page) = Len(old) + 1 /\ page[Len(old) + 1] = r /\ \A i \in 1 .. Len(old) : page[i] = old[i]
  BY <1>3, <1>5, AppendFacts
<1>7. \A i \in 1 .. Len(old) + 1 : i = Len(old) + 1 \/ i \in 1 .. Len(old)
  BY <1>5
<1>8. IsPage(page)
  <2>1. Fits(page)
    BY <1>3 DEF Last, n
  <2>2. page # <<>>
    BY <1>5, <1>6
  <2>3. \A i \in 1 .. Len(page) : IsRecord(page[i])
    BY <1>4, <1>6, <1>7 DEF IsPage
  <2> QED
    BY <1>6, <2>1, <2>2, <2>3 DEF IsPage
<1>9. IsSequence(d) /\ Len(d) = n /\ d[n] = page /\ \A p \in 1 .. n : p # n => d[p] = chain[p]
  <2>1. n = Len(chain)
    BY DEF n
  <2>2. Changes(d, chain, n, page)
    BY <1>3, <2>1
  <2>3. n \in 1 .. Len(chain)
    BY <1>4, <2>1
  <2>4. IsSequence(d) /\ Len(d) = Len(chain) /\ d[n] = page /\ \A p \in 1 .. Len(chain) : p # n => d[p] = chain[p]
    BY <1>1, <2>2, <2>3, ExceptFacts
  <2> QED
    BY <2>1, <2>4
<1>10. PICK all : all = Append(list, row)
  OBVIOUS
<1>11. Len(list) \in Nat /\ all[Len(list) + 1] = row /\ \A k \in 1 .. Len(list) : all[k] = list[k]
  BY <1>10, AppendFacts DEF IsSequence
<1>12. IsChain(d)
  BY <1>8, <1>9 DEF IsChain, n
<1>13. \A p \in 0 .. n - 1 : Offset(d, p) = Offset(chain, p)
  <2>4. Len(d) = n /\ Len(chain) = n
    BY <1>9 DEF n
  <2>5. PICK m : m = n - 1
    OBVIOUS
  <2>1. m \in Nat /\ m <= Len(d) /\ m <= Len(chain) /\ Len(d) \in Nat /\ Len(chain) \in Nat
    BY <1>1, <1>2, <2>4, <2>5
  <2>2. \A p \in 1 .. m : p \in 1 .. n /\ p # n
    BY <1>1, <2>5
  <2>3. \A p \in 1 .. m : Len(d[p]) = Len(chain[p])
    BY <1>9, <2>2
  <2>6. \A p \in 0 .. m : Offset(d, p) = Offset(chain, p)
    BY <2>1, <2>3, OffsetSame
  <2> QED
    BY <2>5, <2>6
<1>14. Offset(d, n - 1) + Len(old) = Len(list) /\ Count(d) = Len(list) + 1
  <2>1. n - 1 \in 0 .. n - 1 /\ n \in 1 .. n /\ n - 1 \in 0 .. n
    BY <1>1, <1>2
  <2>2. Offset(chain, n) = Offset(chain, n - 1) + Len(old) /\ Offset(chain, n - 1) \in Nat
    BY <1>1, <1>3, <2>1, OffsetFacts DEF n
  <2>3. Offset(chain, n) = Len(list)
    BY DEF Count, n
  <2>4. IsNested(d)
    BY <1>12, ChainFacts
  <2>5. Offset(d, n) = Offset(d, n - 1) + Len(page)
    BY <1>9, <2>1, <2>4, OffsetFacts
  <2>6. Count(d) = Offset(d, n)
    BY <1>9 DEF Count
  <2>7. Offset(d, n - 1) = Offset(chain, n - 1)
    BY <1>13, <2>1
  <2>8. Len(page) = Len(old) + 1 /\ Len(old) \in Nat
    BY <1>5, <1>6
  <2> QED
    BY <2>2, <2>3, <2>5, <2>6, <2>7, <2>8
<1>15. ASSUME NEW p \in 1 .. n, NEW i \in 1 .. Len(d[p])
       PROVE  Matches(d[p][i], all[Offset(d, p - 1) + i])
  <2>1. p - 1 \in 0 .. n - 1
    BY <1>1
  <2>2. Offset(d, p - 1) = Offset(chain, p - 1)
    BY <1>13, <2>1
  <2>3. CASE p = n /\ i = Len(old) + 1
    <3>1. Offset(d, n - 1) + (Len(old) + 1) = Len(list) + 1
      <4>1. Offset(chain, n - 1) \in Nat
        <5>1. n - 1 \in 0 .. n
          BY <1>1, <1>2
        <5> QED
          BY <1>1, <5>1, OffsetFacts DEF n
      <4>2. n - 1 \in 0 .. n - 1
        BY <1>1, <1>2
      <4>3. Offset(d, n - 1) \in Nat
        BY <1>13, <4>1, <4>2
      <4>4. PICK o, m, l : o = Offset(d, n - 1) /\ m = Len(old) /\ l = Len(list)
        OBVIOUS
      <4>5. o \in Nat /\ m \in Nat /\ l \in Nat /\ o + m = l
        BY <1>5, <1>11, <1>14, <4>3, <4>4
      <4>6. o + (m + 1) = l + 1
        BY <4>5
      <4> QED
        BY <4>4, <4>6
    <3> QED
      BY <1>6, <1>9, <1>11, <2>3, <3>1
  <2>4. CASE ~(p = n /\ i = Len(old) + 1)
    <3>1. i \in 1 .. Len(chain[p]) /\ d[p][i] = chain[p][i]
      BY <1>3, <1>6, <1>7, <1>9, <2>4
    <3>2. Offset(chain, p - 1) + i \in 1 .. Len(list)
      BY <3>1, ChainFacts DEF n
    <3>3. Matches(chain[p][i], list[Offset(chain, p - 1) + i])
      BY <3>1 DEF AreRows, n
    <3> QED
      BY <1>11, <2>2, <3>1, <3>2, <3>3
  <2> QED
    BY <2>3, <2>4
<1>16. AreRows(d, all)
  BY <1>9, <1>15 DEF AreRows
<1>17. d # <<>>
  BY <1>2, <1>9
<1> QED
  BY <1>10, <1>12, <1>14, <1>16, <1>17


-----------------------------------------------------------------------------
(* Records that are made, changed and read again stand for their rows. *)

LEMMA SizeNatural ==
    ASSUME table \in Tables, NEW values, NEW nulls,
           \A j \in DOMAIN table \ nulls : IsValue(table[j], values[j])
    PROVE  SizeOf(values, nulls) \in Nat
<1> DEFINE n == Len(table)
           f == [i \in DOMAIN table |-> Length(table[i], values[i], i \in nulls)]
<1>1. n \in Nat /\ DOMAIN table = 1 .. n
  BY TableFacts
<1>2. \A i \in 1 .. n : f[i] \in Nat
  BY <1>1, LengthNatural
<1>3. SizeOf(values, nulls) = 4 + SumTo(f, n)
  BY DEF SizeOf, IntSize
<1> HIDE DEF f, n
<1>4. SumTo(f, n) \in Nat
  <2>1. n \in 0 .. n
    BY <1>1
  <2> QED
    BY <1>1, <1>2, <2>1, SumNatural
<1> QED
  BY <1>3, <1>4

\* An input that is not null is a value of its attribute.
LEMMA InputIsValue ==
    ASSUME table \in Tables, NEW j \in DOMAIN table, table[j].type # "BOOL",
           NEW value \in Inputs(table[j]) \ {Null}
    PROVE  IsValue(table[j], value)
BY PageLayoutAssumption DEF IsValue

LEMMA ValidIsRecord ==
    ASSUME table \in Tables, NEW tuple \in Tuples,
           \A i \in DOMAIN table : table[i].type = "BOOL" => tuple[i] = Null
    PROVE  IsRecord(Valid(tuple, Clean)) /\ Matches(Valid(tuple, Clean), tuple)
<1> DEFINE r == Valid(tuple, Clean)
           present == {i \in DOMAIN table : tuple[i] # Null}
           values == [i \in DOMAIN table |-> tuple[i]]
           nulls == DOMAIN table \ present
<1>1. \A i \in DOMAIN table : tuple[i] \in Inputs(table[i])
  <2>1. IsTupleTo(tuple, Len(table)) /\ DOMAIN table = 1 .. Len(table)
    BY TuplesAre, TableFacts
  <2> QED
    BY <2>1 DEF IsTupleTo, Allowed
<1>2. r = Record(present, nulls, values)
  <2>1. Clean.flags = {} /\ Clean.tails = {}
    BY DEF Clean
  <2>2. \A i : InMemory(table[i], tuple[i], i \in {}) = tuple[i]
    BY DEF InMemory
  <2>3. [i \in DOMAIN table |-> InMemory(table[i], tuple[i], i \in Clean.tails)] = values
    BY <2>1, <2>2
  <2>4. (DOMAIN table \ present) \cup Clean.flags = nulls
    BY <2>1
  <2>5. r = Record(present, (DOMAIN table \ present) \cup Clean.flags,
                   [i \in DOMAIN table |-> InMemory(table[i], tuple[i], i \in Clean.tails)])
    BY DEF Valid
  <2> QED
    BY <2>3, <2>4, <2>5
<1> HIDE DEF r
<1>3. /\ r.bitmap = present /\ r.nulls = nulls /\ r.values = values /\ r.size = SizeOf(values, nulls)
      /\ DOMAIN r = Fields
  BY <1>2 DEF Record, Fields
<1>4. \A i \in DOMAIN table \ nulls : IsValue(table[i], values[i])
  <2> TAKE i \in DOMAIN table \ nulls
  <2>1. tuple[i] # Null /\ values[i] = tuple[i] /\ table[i].type # "BOOL"
    OBVIOUS
  <2>2. tuple[i] \in Inputs(table[i]) \ {Null}
    BY <1>1, <2>1
  <2> QED
    BY <2>1, <2>2, InputIsValue
<1>5. SizeOf(values, nulls) \in Nat
  <2> HIDE DEF values, nulls
  <2> QED
    BY <1>4, SizeNatural
<1>6. SizeOf(r.values, r.nulls) <= r.size /\ r.size \in Nat
  <2> HIDE DEF values, nulls
  <2> QED
    BY <1>3, <1>5
<1>7. nulls \subseteq DOMAIN table /\ present = DOMAIN table \ nulls /\ DOMAIN values = DOMAIN table
  OBVIOUS
<1>8. IsRecord(r)
  <2> HIDE DEF values, nulls, present
  <2> QED
    BY <1>3, <1>4, <1>6, <1>7 DEF IsRecord
<1>9. Matches(r, tuple)
  <2> SUFFICES ASSUME NEW i \in DOMAIN table
               PROVE  IF tuple[i] = Null THEN i \in r.nulls
                      ELSE i \notin r.nulls /\ SameText(table[i], r.values[i], tuple[i])
    BY DEF Matches
  <2>1. r.values[i] = tuple[i]
    BY <1>3
  <2>2. SameText(table[i], tuple[i], tuple[i])
    BY DEF SameText
  <2>3. i \in r.nulls <=> tuple[i] = Null
    BY <1>3
  <2> QED
    BY <2>1, <2>2, <2>3
<1> QED
  BY <1>8, <1>9 DEF r

\* The row after an update of attribute j.
Changed(row, j, value, null) == IF null THEN row ELSE [row EXCEPT ![j] = value]

LEMMA UpdatedIsRecord ==
    ASSUME table \in Tables, NEW r, IsRecord(r), NEW j \in DOMAIN table,
           NEW value \in Inputs(table[j]) \ {Null},
           Length(table[j], value, j \in r.nulls) <= Length(table[j], r.values[j], j \in r.nulls)
    PROVE  IsRecord(ValueSet(r, j, value)) /\ ValueSet(r, j, value).size = r.size
<1>1. PICK x : x = ValueSet(r, j, value)
  OBVIOUS
<1>2. PICK old, new : old = r.values /\ new = [old EXCEPT ![j] = value]
  OBVIOUS
<1>3. /\ x.bitmap = r.bitmap /\ x.nulls = r.nulls /\ x.size = r.size /\ x.values = new
      /\ DOMAIN x = Fields
  <2>1. DOMAIN r = Fields
    BY DEF IsRecord
  <2>2. x = [r EXCEPT !.values = new]
    BY <1>1, <1>2 DEF ValueSet
  <2> QED
    BY <2>1, <2>2 DEF Fields
<1>4. DOMAIN old = DOMAIN table
  BY <1>2 DEF IsRecord
<1>5. DOMAIN new = DOMAIN table /\ new[j] = value /\ \A i \in DOMAIN table : i # j => new[i] = old[i]
  BY <1>2, <1>4
<1>6. \A i \in DOMAIN table \ r.nulls : IsValue(table[i], old[i]) /\ IsValue(table[i], new[i])
  <2> TAKE i \in DOMAIN table \ r.nulls
  <2>1. IsValue(table[i], old[i])
    BY <1>2 DEF IsRecord
  <2>2. CASE i = j
    <3>1. table[j].type # "BOOL"
      BY <2>1, <2>2 DEF IsValue
    <3> QED
      BY <1>5, <2>1, <2>2, <3>1, InputIsValue
  <2> QED
    BY <1>5, <2>1, <2>2
<1> DEFINE n == Len(table)
           f == [i \in DOMAIN table |-> Length(table[i], new[i], i \in r.nulls)]
           g == [i \in DOMAIN table |-> Length(table[i], old[i], i \in r.nulls)]
<1>7. n \in Nat /\ DOMAIN table = 1 .. n
  BY TableFacts
<1>8. \A i \in 1 .. n : f[i] \in Nat /\ g[i] \in Nat /\ f[i] <= g[i]
  <2> TAKE i \in 1 .. n
  <2>1. i \in DOMAIN table /\ f[i] = Length(table[i], new[i], i \in r.nulls)
        /\ g[i] = Length(table[i], old[i], i \in r.nulls)
    BY <1>7
  <2>2. f[i] \in Nat /\ g[i] \in Nat
    BY <1>6, <2>1, LengthNatural
  <2>3. f[i] <= g[i]
    <3>1. CASE i = j
      BY <1>2, <1>5, <2>1, <3>1
    <3>2. CASE i # j
      <4>1. f[i] = g[i]
        BY <1>5, <2>1, <3>2
      <4> HIDE DEF f, g
      <4> QED
        BY <2>2, <4>1
    <3> QED
      BY <3>1, <3>2
  <2> QED
    BY <2>2, <2>3
<1>9. SizeOf(new, r.nulls) = 4 + SumTo(f, n) /\ SizeOf(old, r.nulls) = 4 + SumTo(g, n)
  BY DEF SizeOf, IntSize
<1> HIDE DEF f, g, n
<1>10. SizeOf(new, r.nulls) <= SizeOf(old, r.nulls) /\ SizeOf(new, r.nulls) \in Nat /\ SizeOf(old, r.nulls) \in Nat
  <2>1. n \in 0 .. n
    BY <1>7
  <2>2. SumTo(f, n) <= SumTo(g, n)
    BY <1>7, <1>8, <2>1, SumCompared
  <2>3. SumTo(f, n) \in Nat /\ SumTo(g, n) \in Nat
    BY <1>7, <1>8, <2>1, SumNatural
  <2> QED
    BY <1>9, <2>2, <2>3
<1>11. r.size \in Nat /\ SizeOf(old, r.nulls) <= r.size
  BY <1>2 DEF IsRecord
<1>12. SizeOf(x.values, x.nulls) <= x.size /\ x.size \in Nat
  BY <1>3, <1>10, <1>11
<1>13. x.nulls \subseteq DOMAIN table /\ x.bitmap = DOMAIN table \ x.nulls
  BY <1>3 DEF IsRecord
<1>14. \A i \in DOMAIN table \ x.nulls : IsValue(table[i], x.values[i])
  BY <1>3, <1>6
<1>15. IsRecord(x)
  BY <1>3, <1>5, <1>12, <1>13, <1>14 DEF IsRecord
<1> QED
  BY <1>1, <1>3, <1>15

LEMMA UpdatedMatches ==
    ASSUME table \in Tables, NEW r, IsRecord(r), NEW j \in DOMAIN table,
           NEW value \in Inputs(table[j]) \ {Null},
           NEW row, DOMAIN row = DOMAIN table, Matches(r, row)
    PROVE  Matches(ValueSet(r, j, value), Changed(row, j, value, j \in r.nulls))
<1>1. PICK x : x = ValueSet(r, j, value)
  OBVIOUS
<1>2. PICK old, new : old = r.values /\ new = [old EXCEPT ![j] = value]
  OBVIOUS
<1>3. x.nulls = r.nulls /\ x.values = new
  <2>1. DOMAIN r = Fields
    BY DEF IsRecord
  <2>2. x = [r EXCEPT !.values = new]
    BY <1>1, <1>2 DEF ValueSet
  <2> QED
    BY <2>1, <2>2 DEF Fields
<1>4. DOMAIN old = DOMAIN table
  BY <1>2 DEF IsRecord
<1>5. new[j] = value /\ \A i \in DOMAIN table : i # j => new[i] = old[i]
  BY <1>2, <1>4
<1>6. PICK y : y = Changed(row, j, value, j \in r.nulls)
  OBVIOUS
<1>7. \A i \in DOMAIN table : y[i] = IF i = j /\ j \notin r.nulls THEN value ELSE row[i]
  BY <1>6 DEF Changed
<1>8. SameText(table[j], value, value)
  BY DEF SameText
<1>9. ASSUME NEW i \in DOMAIN table
      PROVE  IF y[i] = Null THEN i \in x.nulls ELSE i \notin x.nulls /\ SameText(table[i], x.values[i], y[i])
  <2>1. IF row[i] = Null THEN i \in r.nulls ELSE i \notin r.nulls /\ SameText(table[i], old[i], row[i])
    BY <1>2 DEF Matches
  <2>2. CASE i = j
    BY <1>3, <1>5, <1>7, <1>8, <2>1, <2>2
  <2>3. CASE i # j
    BY <1>3, <1>5, <1>7, <2>1, <2>3
  <2> QED
    BY <2>2, <2>3
<1>10. Matches(x, y)
  BY <1>9 DEF Matches
<1> QED
  BY <1>1, <1>6, <1>10

LEMMA ReadMatches ==
    ASSUME table \in Tables, NEW r, NEW x, IsRead(x, r), NEW row, Matches(r, row)
    PROVE  Matches(x, row)
<1> SUFFICES ASSUME NEW i \in DOMAIN table
             PROVE  IF row[i] = Null THEN i \in x.nulls
                    ELSE i \notin x.nulls /\ SameText(table[i], x.values[i], row[i])
  BY DEF Matches
<1>1. IF row[i] = Null THEN i \in r.nulls ELSE i \notin r.nulls /\ SameText(table[i], r.values[i], row[i])
  BY DEF Matches
<1>2. x.nulls = r.nulls /\ (i \notin r.nulls => x.values[i] = Reread(table[i], r.values[i]))
  BY DEF IsRead
<1>3. SameText(table[i], r.values[i], row[i]) => SameText(table[i], Reread(table[i], r.values[i]), row[i])
  <2>1. table[i].len \in Nat
    BY TableFacts
  <2> QED
    BY <2>1, RereadFacts
<1> QED
  BY <1>1, <1>2, <1>3


LEMMA PositionsApart ==
    ASSUME NEW chain, IsChain(chain),
           NEW p \in 1 .. Len(chain), NEW i \in 1 .. Len(chain[p]),
           NEW q \in 1 .. Len(chain), NEW k \in 1 .. Len(chain[q]), p < q
    PROVE  Offset(chain, p - 1) + i < Offset(chain, q - 1) + k
<1>1. IsNested(chain) /\ Len(chain) \in Nat
  BY ChainFacts
<1>2. p - 1 \in 0 .. Len(chain) /\ p \in 0 .. Len(chain) /\ q - 1 \in 0 .. Len(chain) /\ q - 1 \in p .. Len(chain)
  BY <1>1
<1>3. PICK a, b, c : a = Offset(chain, p - 1) /\ b = Offset(chain, p) /\ c = Offset(chain, q - 1)
  OBVIOUS
<1>4. a \in Nat /\ b \in Nat /\ c \in Nat /\ b <= c
  BY <1>1, <1>2, <1>3, OffsetFacts
<1>5. b = a + Len(chain[p]) /\ Len(chain[p]) \in Nat /\ Len(chain[q]) \in Nat
  BY <1>1, <1>3, OffsetFacts
<1>6. a + i < c + k
  BY <1>4, <1>5
<1> QED
  BY <1>3, <1>6

LEMMA RecordChanged ==
    ASSUME NEW chain, IsChain(chain),
           NEW list, AreRows(chain, list),
           NEW p \in 1 .. Len(chain), NEW i \in 1 .. Len(chain[p]),
           NEW x, IsRecord(x), x.size = chain[p][i].size,
           NEW page, Changes(page, chain[p], i, x), NEW d, Changes(d, chain, p, page),
           NEW all, Matches(x, all[Offset(chain, p - 1) + i]),
           \A n \in 1 .. Count(chain) : n # Offset(chain, p - 1) + i => all[n] = list[n]
    PROVE  IsChain(d) /\ AreRows(d, all) /\ Count(d) = Count(chain) /\ d # <<>>
<1> DEFINE n == Len(chain)
<1>1. n \in Nat /\ IsSequence(chain) /\ IsPage(chain[p])
  BY ChainFacts DEF IsChain
<1>2. PICK old : old = chain[p]
  OBVIOUS
<1>3. IsPage(old) /\ IsSequence(old) /\ Len(old) \in Nat /\ Len(old) >= 1 /\ DOMAIN old = 1 .. Len(old)
  BY <1>1, <1>2, PageFacts DEF IsPage
<1>4. IsSequence(page) /\ Len(page) = Len(old) /\ page[i] = x /\ \A k \in 1 .. Len(old) : k # i => page[k] = old[k]
  BY <1>2, <1>3, ExceptFacts
<1>5. DOMAIN page = 1 .. Len(old)
  BY <1>4, SequenceFacts
<1>6. Fits(page)
  <2> DEFINE f == [k \in DOMAIN page |-> page[k].size]
             g == [k \in DOMAIN old |-> old[k].size]
  <2>1. \A k \in 1 .. Len(old) : page[k].size = old[k].size
    <3> TAKE k \in 1 .. Len(old)
    <3>1. k = i => page[k].size = old[k].size
      BY <1>2, <1>4
    <3> QED
      BY <1>4, <3>1
  <2>2. f = g
    BY <1>3, <1>5, <2>1
  <2>3. Header + IntSize * Len(old) + SumTo(g, Len(old)) <= PageSize
    BY <1>3 DEF IsPage, Fits
  <2> HIDE DEF f, g
  <2>4. Header + IntSize * Len(page) + SumTo(f, Len(page)) <= PageSize
    BY <1>4, <2>2, <2>3
  <2> QED
    BY <2>4 DEF Fits, f
<1>7. IsPage(page)
  <2>1. page # <<>>
    BY <1>3, <1>4
  <2>2. \A k \in 1 .. Len(page) : IsRecord(page[k])
    BY <1>3, <1>4 DEF IsPage
  <2> QED
    BY <1>4, <1>6, <2>1, <2>2 DEF IsPage
<1>8. IsSequence(d) /\ Len(d) = n /\ d[p] = page /\ \A q \in 1 .. n : q # p => d[q] = chain[q]
  BY <1>1, ExceptFacts
<1> HIDE DEF n
<1>9. IsChain(d)
  BY <1>7, <1>8 DEF IsChain, n
<1>10. \A q \in 1 .. n : Len(d[q]) = Len(chain[q])
  BY <1>2, <1>4, <1>8
<1>11. \A q \in 0 .. n : Offset(d, q) = Offset(chain, q)
  <2>1. n <= Len(d) /\ n <= Len(chain) /\ Len(d) \in Nat /\ Len(chain) \in Nat
    BY <1>1, <1>8 DEF n
  <2> QED
    BY <1>1, <1>10, <2>1, OffsetSame
<1>12. Count(d) = Count(chain)
  <2>1. n \in 0 .. n
    BY <1>1
  <2> QED
    BY <1>8, <1>11, <2>1 DEF Count, n
<1>13. ASSUME NEW q \in 1 .. n, NEW k \in 1 .. Len(d[q])
       PROVE  Matches(d[q][k], all[Offset(d, q - 1) + k])
  <2>1. k \in 1 .. Len(chain[q]) /\ Offset(d, q - 1) = Offset(chain, q - 1)
    <3>1. q - 1 \in 0 .. n
      BY <1>1
    <3> QED
      BY <1>10, <1>11, <3>1
  <2>2. CASE q = p /\ k = i
    BY <1>4, <1>8, <2>1, <2>2
  <2>3. CASE ~(q = p /\ k = i)
    <3>1. d[q][k] = chain[q][k]
      BY <1>2, <1>4, <1>8, <2>1, <2>3
    <3>2. Offset(chain, q - 1) + k \in 1 .. Count(chain)
      BY <2>1, ChainFacts DEF n
    <3>3. Offset(chain, q - 1) + k # Offset(chain, p - 1) + i
      <4>1. Offset(chain, q - 1) \in Nat /\ Offset(chain, p - 1) \in Nat /\ p \in 1 .. n
        BY <2>1, ChainFacts DEF n
      <4>2. CASE q = p
        BY <2>3, <4>1, <4>2
      <4>3. CASE q < p
        <5>1. Offset(chain, q - 1) + k < Offset(chain, p - 1) + i
          BY <2>1, <4>3, PositionsApart DEF n
        <5> QED
          BY <4>1, <5>1
      <4>4. CASE p < q
        <5>1. Offset(chain, p - 1) + i < Offset(chain, q - 1) + k
          BY <2>1, <4>4, PositionsApart DEF n
        <5> QED
          BY <4>1, <5>1
      <4> QED
        BY <4>1, <4>2, <4>3, <4>4
    <3>4. Matches(chain[q][k], list[Offset(chain, q - 1) + k])
      BY <2>1 DEF AreRows, n
    <3> QED
      BY <2>1, <3>1, <3>2, <3>3, <3>4
  <2> QED
    BY <2>2, <2>3
<1>14. AreRows(d, all)
  BY <1>8, <1>13 DEF AreRows
<1>15. d # <<>>
  <2>1. n >= 1
    BY <1>1 DEF n
  <2> QED
    BY <1>8, <2>1
<1> QED
  BY <1>9, <1>12, <1>14, <1>15

\* The first record is kept.
LEMMA FirstKept ==
    ASSUME NEW chain, IsChain(chain), chain # <<>>, NEW list, AreRows(chain, list)
    PROVE  /\ IsChain(<<<<chain[1][1]>>>>) /\ AreRows(<<<<chain[1][1]>>>>, list)
           /\ Count(<<<<chain[1][1]>>>>) = 1 /\ <<<<chain[1][1]>>>> # <<>>
           /\ Count(chain) >= 1
<1>1. Len(chain) \in Nat /\ 1 \in 1 .. Len(chain) /\ IsNested(chain)
  <2>1. Len(chain) \in Nat /\ IsSequence(chain) /\ IsNested(chain)
    BY ChainFacts DEF IsChain
  <2>2. Len(chain) # 0
    BY <2>1
  <2> QED
    BY <2>1, <2>2
<1>2. PICK old : old = chain[1]
  OBVIOUS
<1>3. IsPage(old) /\ Len(old) \in Nat /\ 1 \in 1 .. Len(old) /\ DOMAIN old = 1 .. Len(old)
  BY <1>1, <1>2, PageFacts DEF IsChain
<1>4. PICK x, page, d : x = old[1] /\ page = <<x>> /\ d = <<page>>
  OBVIOUS
<1>5. IsSequence(page) /\ Len(page) = 1 /\ page[1] = x /\ IsSequence(d) /\ Len(d) = 1 /\ d[1] = page
  BY <1>4, SingleSequence
<1>6. IsRecord(x)
  BY <1>3, <1>4 DEF IsPage
<1>7. Fits(page)
  <2> DEFINE f == [k \in DOMAIN page |-> page[k].size]
             g == [k \in DOMAIN old |-> old[k].size]
             m == Len(old)
  <2>1. 1 \in DOMAIN page
    BY <1>5, SequenceFacts
  <2>2. f[1] = x.size /\ x.size \in Nat /\ g[1] = x.size
    BY <1>3, <1>4, <1>5, <1>6, <2>1 DEF IsRecord
  <2>3. \A k \in 1 .. m : g[k] \in Nat
    BY <1>3 DEF IsPage, IsRecord
  <2>4. 8 + 4 * m + SumTo(g, m) <= PageSize /\ PageSize \in Nat
    BY <1>3, PageLayoutAssumption DEF IsPage, Fits, Header, IntSize
  <2>7. m \in Nat /\ m >= 1
    BY <1>3
  <2> HIDE DEF f, g, m
  <2>5. SumTo(f, 1) = x.size /\ SumTo(g, 1) = x.size
    <3>1. 0 \in Nat /\ 0 + 1 = 1
      OBVIOUS
    <3>2. SumTo(f, 0) = 0 /\ SumTo(f, 0 + 1) = SumTo(f, 0) + f[0 + 1]
      BY <3>1, SumNext
    <3>3. SumTo(g, 0) = 0 /\ SumTo(g, 0 + 1) = SumTo(g, 0) + g[0 + 1]
      BY <3>1, SumNext
    <3> QED
      BY <2>2, <3>1, <3>2, <3>3
  <2>6. SumTo(g, 1) <= SumTo(g, m) /\ SumTo(g, m) \in Nat
    <3>1. 1 \in 0 .. m /\ m \in 1 .. m /\ m \in 0 .. m
      BY <2>7
    <3> QED
      BY <2>3, <2>7, <3>1, SumGrows, SumNatural
  <2>8. 8 + 4 * 1 + SumTo(f, 1) <= PageSize
    BY <2>2, <2>4, <2>5, <2>6, <2>7
  <2> QED
    BY <1>5, <2>8 DEF Fits, Header, IntSize, f
<1>8. \A k \in 1 .. 1 : k = 1 /\ k - 1 = 0
  OBVIOUS
<1>9. IsPage(page)
  <2>1. page # <<>>
    BY <1>4
  <2> QED
    BY <1>5, <1>6, <1>7, <1>8, <2>1 DEF IsPage
<1>10. IsChain(d)
  BY <1>5, <1>8, <1>9 DEF IsChain
<1>11. Offset(d, 0) = 0 /\ Offset(chain, 0) = 0
  BY <1>1, <1>10, ChainFacts, OffsetFacts
<1>12. Count(d) = 1
  <2>1. IsNested(d) /\ 1 \in 1 .. Len(d)
    BY <1>5, <1>10, ChainFacts
  <2>2. Offset(d, 1) = Offset(d, 1 - 1) + Len(d[1])
    BY <2>1, OffsetFacts
  <2>3. 1 - 1 = 0 /\ 0 + 1 = 1
    OBVIOUS
  <2>4. Offset(d, 1) = 1
    BY <1>5, <1>11, <2>2, <2>3
  <2> QED
    BY <1>5, <2>4 DEF Count
<1>13. Matches(x, list[0 + 1])
  <2>1. Matches(chain[1][1], list[Offset(chain, 1 - 1) + 1])
    BY <1>1, <1>2, <1>3 DEF AreRows
  <2> QED
    BY <1>2, <1>4, <1>11, <2>1
<1>14. AreRows(d, list)
  <2> SUFFICES ASSUME NEW p \in 1 .. Len(d), NEW i \in 1 .. Len(d[p])
               PROVE  Matches(d[p][i], list[Offset(d, p - 1) + i])
    BY DEF AreRows
  <2>1. p = 1 /\ p - 1 = 0
    BY <1>5, <1>8
  <2>2. i = 1
    BY <1>5, <1>8, <2>1
  <2> QED
    BY <1>5, <1>11, <1>13, <2>1, <2>2
<1>15. Count(chain) >= 1
  <2>1. Offset(chain, 1 - 1) + 1 \in 1 .. Count(chain) /\ Count(chain) \in Nat
    BY <1>1, <1>2, <1>3, ChainFacts
  <2> QED
    BY <2>1
<1>16. d # <<>>
  BY <1>4
<1> QED
  BY <1>2, <1>4, <1>10, <1>12, <1>14, <1>15, <1>16

\* What was read stands for the rows that were written.
LEMMA ReadRows ==
    ASSUME table \in Tables, NEW chain, IsChain(chain), NEW read, AreRead(read, chain), NEW list, AreRows(chain, list)
    PROVE  AreRows(read, list) /\ Count(read) = Count(chain)
<1> DEFINE n == Len(chain)
<1>1. n \in Nat /\ IsChain(read) /\ Len(read) = n
  BY ChainFacts, ReadIsChain DEF AreRead
<1>2. \A p \in 1 .. n : Len(read[p]) = Len(chain[p])
  BY DEF AreRead
<1> HIDE DEF n
<1>3. \A p \in 0 .. n : Offset(read, p) = Offset(chain, p)
  <2>1. n <= Len(read) /\ n <= Len(chain) /\ Len(read) \in Nat /\ Len(chain) \in Nat
    BY <1>1 DEF n
  <2> QED
    BY <1>1, <1>2, <2>1, OffsetSame
<1>4. Count(read) = Count(chain)
  <2>1. n \in 0 .. n
    BY <1>1
  <2> QED
    BY <1>1, <1>3, <2>1 DEF Count, n
<1>5. ASSUME NEW p \in 1 .. n, NEW i \in 1 .. Len(read[p])
      PROVE  Matches(read[p][i], list[Offset(read, p - 1) + i])
  <2>1. i \in 1 .. Len(chain[p]) /\ p - 1 \in 0 .. n
    BY <1>1, <1>2
  <2>2. IsRead(read[p][i], chain[p][i])
    BY <2>1 DEF AreRead, n
  <2>3. Matches(chain[p][i], list[Offset(chain, p - 1) + i])
    BY <2>1 DEF AreRows, n
  <2> QED
    BY <1>3, <2>1, <2>2, <2>3, ReadMatches
<1> QED
  BY <1>1, <1>4, <1>5 DEF AreRows


-----------------------------------------------------------------------------
(* The invariant: as long as nothing has spoilt them, the pages in memory    *)
(* and those in the file stand for the rows, the file for their beginning,   *)
(* and the file is what was written last.                                    *)

Kept ==
    /\ IsChain(pages) /\ IsChain(written)
    /\ IsSequence(rows) /\ \A n \in 1 .. Len(rows) : rows[n] \in Tuples
    /\ file = <<>> => written = <<>>
    /\ file # <<>> => written # <<>> /\ file = Image(written)
    /\ AreRows(written, rows) /\ Count(written) <= Len(rows)
    /\ AreRows(pages, rows)
    /\ pages # <<>> => Count(pages) = Len(rows)
    /\ pages = <<>> => Count(written) = Len(rows)

LayoutInv ==
    /\ table \in Tables
    /\ sound \in BOOLEAN
    /\ sound => Kept

\* What depends on the table alone is the same before and after a step.
LEMMA TableSame ==
    ASSUME table' = table
    PROVE  /\ \A c : IsChain(c)' <=> IsChain(c)
           /\ \A c : Image(c)' = Image(c)
           /\ \A c, l : AreRows(c, l)' <=> AreRows(c, l)
           /\ Tuples' = Tuples
<1>1. ASSUME NEW CONSTANT v, NEW CONSTANT n PROVE SizeOf(v, n)' = SizeOf(v, n)
  BY DEF SizeOf, Length, IntSize, SumTo
<1>2. ASSUME NEW CONSTANT r PROVE IsRecord(r)' <=> IsRecord(r)
  BY <1>1 DEF IsRecord
<1>3. ASSUME NEW CONSTANT page PROVE IsPage(page)' <=> IsPage(page)
  BY <1>2 DEF IsPage
<1>4. ASSUME NEW CONSTANT c PROVE IsChain(c)' <=> IsChain(c)
  BY <1>3 DEF IsChain
<1>5. ASSUME NEW CONSTANT r PROVE RecordBytes(r)' = RecordBytes(r)
  BY DEF RecordBytes
<1>6. ASSUME NEW CONSTANT c, NEW CONSTANT p PROVE PageWrites(c, p)' = PageWrites(c, p)
  BY <1>5 DEF PageWrites
<1>7. ASSUME NEW CONSTANT c PROVE Image(c)' = Image(c)
  BY <1>6 DEF Image
<1>8. ASSUME NEW CONSTANT r, NEW CONSTANT row PROVE Matches(r, row)' <=> Matches(r, row)
  BY DEF Matches
<1>9. ASSUME NEW CONSTANT c, NEW CONSTANT l PROVE AreRows(c, l)' <=> AreRows(c, l)
  BY <1>8 DEF AreRows
<1>10. Tuples' = Tuples
  BY DEF Tuples
<1> QED
  BY <1>4, <1>7, <1>9, <1>10


LEMMA NoPages ==
    IsChain(<<>>) /\ Count(<<>>) = 0 /\ \A list : AreRows(<<>>, list)
<1>1. IsSequence(<<>>) /\ Len(<<>>) = 0
  BY DEF IsSequence
<1>2. \A p : p \notin 1 .. 0
  OBVIOUS
<1>3. IsChain(<<>>)
  BY <1>1, <1>2 DEF IsChain
<1>4. Count(<<>>) = 0
  <2>1. Offset(<<>>, 0) = 0
    BY <1>3, ChainFacts, OffsetFacts
  <2> QED
    BY <1>1, <2>1 DEF Count
<1> QED
  BY <1>1, <1>2, <1>3, <1>4 DEF AreRows

LEMMA LayoutInvInit ==
    ASSUME Init
    PROVE  LayoutInv
<1>1. /\ table \in Tables /\ rows = <<>> /\ pages = <<>> /\ file = <<>> /\ written = <<>> /\ sound = TRUE
  BY DEF Init
<1>2. IsSequence(<<>>) /\ Len(<<>>) = 0
  BY DEF IsSequence
<1>3. \A n : n \notin 1 .. 0
  OBVIOUS
<1>4. Kept
  BY <1>1, <1>2, <1>3, NoPages DEF Kept
<1> QED
  BY <1>1, <1>4 DEF LayoutInv

\* The parts of Kept after a step, with the table of before.
LEMMA KeptNext ==
    ASSUME table' = table,
           IsChain(pages'), IsChain(written'),
           IsSequence(rows'), \A n \in 1 .. Len(rows') : rows'[n] \in Tuples,
           file' = <<>> => written' = <<>>,
           file' # <<>> => written' # <<>> /\ file' = Image(written'),
           AreRows(written', rows'), Count(written') <= Len(rows'),
           AreRows(pages', rows'),
           pages' # <<>> => Count(pages') = Len(rows'),
           pages' = <<>> => Count(written') = Len(rows')
    PROVE  Kept'
<1>1. IsChain(pages)' /\ IsChain(written)'
  BY TableSame
<1>2. (file # <<>> => written # <<>> /\ file = Image(written))'
  BY TableSame
<1>3. AreRows(written, rows)' /\ AreRows(pages, rows)'
  BY TableSame
<1>4. (\A n \in 1 .. Len(rows) : rows[n] \in Tuples)'
  BY TableSame
<1> QED
  BY <1>1, <1>2, <1>3, <1>4 DEF Kept

LEMMA KeptAdd ==
    ASSUME table \in Tables, sound, Kept, NoBools', Add, sound'
    PROVE  Kept'
<1>1. /\ pages = <<>> => file = <<>>
      /\ table' = table /\ file' = file /\ written' = written
  BY DEF Add
<1>15. PICK tuple \in Tuples : \E stale \in StaleMemory(tuple) :
         /\ rows' = Append(rows, tuple)
         /\ sound' = (sound /\ stale = Clean)
         /\ \E r \in {Valid(tuple, stale)} :
               \/ /\ pages # <<>>
                  /\ Fits(Append(Last(pages), r))
                  /\ pages' = [pages EXCEPT ![Len(pages)] = Append(@, r)]
               \/ Fits(<<r>>) /\ pages' = Append(pages, <<r>>)
  BY DEF Add
<1>2. /\ rows' = Append(rows, tuple)
      /\ \E r \in {Valid(tuple, Clean)} :
            \/ /\ pages # <<>>
               /\ Fits(Append(Last(pages), r))
               /\ pages' = [pages EXCEPT ![Len(pages)] = Append(@, r)]
            \/ Fits(<<r>>) /\ pages' = Append(pages, <<r>>)
  BY <1>15
<1>3. PICK r : /\ r = Valid(tuple, Clean)
               /\ \/ /\ pages # <<>>
                     /\ Fits(Append(Last(pages), r))
                     /\ Changes(pages', pages, Len(pages), Append(pages[Len(pages)], r))
                  \/ Fits(<<r>>) /\ pages' = Append(pages, <<r>>)
  BY <1>2 DEF Changes
<1>4. /\ IsChain(pages) /\ IsChain(written) /\ IsSequence(rows) /\ \A n \in 1 .. Len(rows) : rows[n] \in Tuples
      /\ AreRows(written, rows) /\ Count(written) <= Len(rows) /\ AreRows(pages, rows)
  BY DEF Kept
<1>5. Count(pages) = Len(rows)
  <2>1. CASE pages = <<>>
    BY <1>1, <2>1, NoPages DEF Kept
  <2> QED
    BY <2>1 DEF Kept
<1>6. /\ IsSequence(rows') /\ Len(rows') = Len(rows) + 1 /\ rows'[Len(rows) + 1] = tuple
      /\ \A n \in 1 .. Len(rows) : rows'[n] = rows[n]
  BY <1>2, <1>4, AppendFacts
<1>7. Len(rows) \in Nat /\ DOMAIN rows' = 1 .. Len(rows) + 1
  BY <1>4, <1>6, SequenceFacts
<1>8. \A i \in DOMAIN table : table[i].type = "BOOL" => tuple[i] = Null
  <2>1. Len(rows) + 1 \in DOMAIN rows'
    BY <1>7
  <2> QED
    BY <1>1, <1>6, <2>1 DEF NoBools
<1>9. IsRecord(r) /\ Matches(r, tuple)
  BY <1>3, <1>8, ValidIsRecord
<1>10. IsChain(pages') /\ AreRows(pages', rows') /\ Count(pages') = Len(rows) + 1 /\ pages' # <<>>
  <2>1. CASE /\ pages # <<>> /\ Fits(Append(Last(pages), r))
             /\ Changes(pages', pages, Len(pages), Append(pages[Len(pages)], r))
    BY <1>2, <1>4, <1>5, <1>9, <2>1, RecordAdded
  <2>2. CASE Fits(<<r>>) /\ pages' = Append(pages, <<r>>)
    BY <1>2, <1>4, <1>5, <1>9, <2>2, PageAdded
  <2> QED
    BY <1>3, <2>1, <2>2
<1>11. \A n \in 1 .. Len(rows') : rows'[n] \in Tuples
  <2>1. \A n \in 1 .. Len(rows') : n = Len(rows) + 1 \/ n \in 1 .. Len(rows)
    BY <1>6, <1>7
  <2> QED
    BY <1>4, <1>6, <2>1
<1>12. Count(written) \in Nat
  BY <1>4, ChainFacts
<1>13. AreRows(written', rows') /\ Count(written') <= Len(rows')
  <2>1. \A n \in 1 .. Count(written) : n \in 1 .. Len(rows)
    BY <1>4, <1>7, <1>12
  <2>2. \A n \in 1 .. Count(written) : rows'[n] = rows[n]
    BY <1>6, <2>1
  <2>3. AreRows(written, rows')
    BY <1>4, <2>2, AreRowsOf
  <2> QED
    BY <1>1, <1>4, <1>6, <1>7, <1>12, <2>3
<1>14. /\ file' = <<>> => written' = <<>>
       /\ file' # <<>> => written' # <<>> /\ file' = Image(written')
  BY <1>1 DEF Kept
<1> QED
  BY <1>1, <1>4, <1>6, <1>10, <1>11, <1>13, <1>14, KeptNext

LEMMA ImageNotEmpty ==
    ASSUME table \in Tables, NEW chain, IsChain(chain), chain # <<>>
    PROVE  Image(chain) # <<>>
<1>1. 1 \in 1 .. Len(chain)
  <2>1. Len(chain) \in Nat /\ Len(chain) >= 1
    BY ImageSize, SequenceFacts DEF IsChain
  <2> QED
    BY <2>1
<1>2. PICK w : w = HeaderWrite(chain, 1)
  OBVIOUS
<1>3. IsWrite(chain, 1, w) /\ 1 \in 1 .. Len(w.bytes)
  <2>1. IsWrite(chain, 1, w)
    BY <1>2 DEF IsWrite
  <2>2. Len(w.bytes) = 8
    BY <1>1, <1>2, WriteExtents
  <2> QED
    BY <2>1, <2>2
<1>4. w.at + 1 - 1 \in DOMAIN Image(chain)
  BY <1>1, <1>3, ImageHas
<1>5. DOMAIN <<>> = {}
  OBVIOUS
<1> QED
  BY <1>4, <1>5

LEMMA KeptWrite ==
    ASSUME table \in Tables, Kept, Write
    PROVE  Kept'
<1>1. /\ pages # <<>> /\ file' = Image(pages) /\ written' = pages /\ pages' = <<>>
      /\ table' = table /\ rows' = rows
  BY DEF Write
<1>2. /\ IsChain(pages) /\ IsSequence(rows) /\ \A n \in 1 .. Len(rows) : rows[n] \in Tuples
      /\ AreRows(pages, rows) /\ Count(pages) = Len(rows)
  BY <1>1 DEF Kept
<1>3. Len(rows) \in Nat
  BY <1>2 DEF IsSequence
<1>4. IsChain(pages') /\ AreRows(pages', rows')
  BY <1>1, NoPages
<1>5. Count(written') = Len(rows') /\ Count(written') <= Len(rows')
  BY <1>1, <1>2, <1>3
<1>6. file' # <<>>
  BY <1>1, <1>2, ImageNotEmpty
<1> QED
  BY <1>1, <1>2, <1>4, <1>5, <1>6, KeptNext

LEMMA KeptRead ==
    ASSUME table \in Tables, Kept, ReadPages, sound'
    PROVE  Kept'
<1>1. /\ pages = <<>> /\ file # <<>>
      /\ table' = table /\ rows' = rows /\ file' = file /\ written' = written
  BY DEF ReadPages
<1>2. pages' = PagesInFile({})
  <2>1. \E stale, ends : pages' = PagesInFile(stale) /\ sound' = (sound /\ ends /\ stale = {})
    BY DEF ReadPages
  <2> QED
    BY <2>1
<1>3. /\ IsChain(written) /\ IsSequence(rows) /\ \A n \in 1 .. Len(rows) : rows[n] \in Tuples
      /\ AreRows(written, rows) /\ Count(written) = Len(rows) /\ Count(written) <= Len(rows)
      /\ written # <<>> /\ file = Image(written)
  BY <1>1 DEF Kept
<1>4. AreRead(pages', written)
  BY <1>2, <1>3, PagesRead
<1>5. IsChain(pages') /\ AreRows(pages', rows) /\ Count(pages') = Len(rows)
  BY <1>3, <1>4, ReadIsChain, ReadRows
<1>6. pages' # <<>>
  <2>1. Len(written) # 0
    BY <1>3, SequenceFacts DEF IsChain
  <2>2. Len(pages') = Len(written)
    BY <1>4 DEF AreRead
  <2> QED
    BY <2>1, <2>2
<1> QED
  BY <1>1, <1>3, <1>5, <1>6, KeptNext

LEMMA KeptCrash ==
    ASSUME table \in Tables, Kept, Crash
    PROVE  Kept'
<1>1. /\ pages' = <<>> /\ rows' = SubSeq(rows, 1, Len(FlattenSeq(written)))
      /\ table' = table /\ file' = file /\ written' = written
  BY DEF Crash
<1>2. /\ IsChain(written) /\ IsSequence(rows) /\ \A n \in 1 .. Len(rows) : rows[n] \in Tuples
      /\ AreRows(written, rows) /\ Count(written) <= Len(rows)
  BY DEF Kept
<1>3. Len(FlattenSeq(written)) = Count(written) /\ Count(written) \in Nat /\ Len(rows) \in Nat
  <2>1. IsNested(written) /\ Count(written) \in Nat
    BY <1>2, ChainFacts
  <2> QED
    BY <1>2, <2>1, FlattenLies DEF Lies, Count, IsSequence
<1>4. /\ IsSequence(rows') /\ Len(rows') = Count(written)
      /\ \A n \in 1 .. Count(written) : rows'[n] = rows[n]
  <2>1. Count(written) \in 0 .. Len(rows)
    BY <1>2, <1>3
  <2> QED
    BY <1>1, <1>2, <1>3, <2>1, FirstFacts
<1>5. \A n \in 1 .. Len(rows') : rows'[n] \in Tuples
  <2>1. \A n \in 1 .. Count(written) : n \in 1 .. Len(rows)
    BY <1>2, <1>3
  <2> QED
    BY <1>2, <1>4, <2>1
<1>6. AreRows(written', rows') /\ Count(written') <= Len(rows') /\ Count(written') = Len(rows')
  <2>1. AreRows(written, rows')
    BY <1>2, <1>4, AreRowsOf
  <2> QED
    BY <1>1, <1>3, <1>4, <2>1
<1>7. IsChain(pages') /\ AreRows(pages', rows')
  BY <1>1, NoPages
<1>8. /\ file' = <<>> => written' = <<>>
      /\ file' # <<>> => written' # <<>> /\ file' = Image(written')
  BY <1>1 DEF Kept
<1> QED
  BY <1>1, <1>2, <1>4, <1>5, <1>6, <1>7, <1>8, KeptNext


\* A row stays a row of the table.
LEMMA ChangedTuple ==
    ASSUME table \in Tables, NEW row \in Tuples, NEW j \in DOMAIN table,
           NEW value \in Inputs(table[j]) \ {Null}, NEW null
    PROVE  DOMAIN row = DOMAIN table /\ Changed(row, j, value, null) \in Tuples
<1>1. IsSequence(row) /\ Len(row) = Len(table) /\ \A i \in 1 .. Len(table) : row[i] \in Allowed(i)
  BY TuplesAre DEF IsTupleTo
<1>2. DOMAIN row = 1 .. Len(table) /\ DOMAIN table = 1 .. Len(table)
  BY <1>1, SequenceFacts, TableFacts
<1>3. PICK y : y = [row EXCEPT ![j] = value]
  OBVIOUS
<1>4. IsSequence(y) /\ Len(y) = Len(table) /\ y[j] = value /\ \A i \in 1 .. Len(table) : i # j => y[i] = row[i]
  <2>1. Changes(y, row, j, value)
    BY <1>3 DEF Changes
  <2>2. j \in 1 .. Len(row)
    BY <1>1, <1>2
  <2> QED
    BY <1>1, <2>1, <2>2, ExceptFacts
<1>5. value \in Allowed(j)
  BY DEF Allowed
<1>6. \A i \in 1 .. Len(table) : y[i] \in Allowed(i)
  BY <1>1, <1>4, <1>5
<1>7. y \in Tuples
  BY <1>4, <1>6, TuplesAre DEF IsTupleTo
<1> QED
  BY <1>2, <1>3, <1>7 DEF Changed

LEMMA KeptUpdate ==
    ASSUME table \in Tables, Kept, Update, sound'
    PROVE  Kept'
<1>1. pages # <<>> /\ table' = table /\ written' = <<<<pages'[1][1]>>>> /\ file' = Image(written')
  BY DEF Update
<1>2. /\ IsChain(pages) /\ IsSequence(rows) /\ \A n \in 1 .. Len(rows) : rows[n] \in Tuples
      /\ AreRows(pages, rows) /\ Count(pages) = Len(rows)
  BY <1>1 DEF Kept
<1>3. PICK p \in DOMAIN pages, j \in DOMAIN table : \E i \in DOMAIN pages[p] :
      \E value \in Inputs(table[j]) \ {Null} :
         LET n == Len(FlattenSeq(SubSeq(pages, 1, p - 1))) + i
             r == pages[p][i]
         IN \E tail \in NewTails(j, value) :
             /\ j # 1
             /\ pages' = [pages EXCEPT ![p][i] = ValueSet(@, j, InMemory(table[j], value, tail))]
             /\ rows' = IF j \in r.nulls THEN rows ELSE [rows EXCEPT ![n][j] = value]
             /\ sound' = (sound /\ ~tail /\ Length(table[j], value, j \in r.nulls)
                                      <= Length(table[j], r.values[j], j \in r.nulls))
  BY DEF Update
<1>4. PICK i \in DOMAIN pages[p] : \E value \in Inputs(table[j]) \ {Null} :
         LET n == Len(FlattenSeq(SubSeq(pages, 1, p - 1))) + i
             r == pages[p][i]
         IN \E tail \in NewTails(j, value) :
             /\ j # 1
             /\ pages' = [pages EXCEPT ![p][i] = ValueSet(@, j, InMemory(table[j], value, tail))]
             /\ rows' = IF j \in r.nulls THEN rows ELSE [rows EXCEPT ![n][j] = value]
             /\ sound' = (sound /\ ~tail /\ Length(table[j], value, j \in r.nulls)
                                      <= Length(table[j], r.values[j], j \in r.nulls))
  BY <1>3
<1>5. PICK value \in Inputs(table[j]) \ {Null} :
         LET n == Len(FlattenSeq(SubSeq(pages, 1, p - 1))) + i
             r == pages[p][i]
         IN \E tail \in NewTails(j, value) :
             /\ j # 1
             /\ pages' = [pages EXCEPT ![p][i] = ValueSet(@, j, InMemory(table[j], value, tail))]
             /\ rows' = IF j \in r.nulls THEN rows ELSE [rows EXCEPT ![n][j] = value]
             /\ sound' = (sound /\ ~tail /\ Length(table[j], value, j \in r.nulls)
                                      <= Length(table[j], r.values[j], j \in r.nulls))
  BY <1>4
<1>6. PICK n, r : n = Len(FlattenSeq(SubSeq(pages, 1, p - 1))) + i /\ r = pages[p][i]
  OBVIOUS
<1>7. /\ pages' = [pages EXCEPT ![p][i] = ValueSet(@, j, value)]
      /\ rows' = IF j \in r.nulls THEN rows ELSE [rows EXCEPT ![n][j] = value]
      /\ Length(table[j], value, j \in r.nulls) <= Length(table[j], r.values[j], j \in r.nulls)
  <2>1. PICK tail \in NewTails(j, value) :
          /\ pages' = [pages EXCEPT ![p][i] = ValueSet(@, j, InMemory(table[j], value, tail))]
          /\ rows' = IF j \in r.nulls THEN rows ELSE [rows EXCEPT ![n][j] = value]
          /\ sound' = (sound /\ ~tail /\ Length(table[j], value, j \in r.nulls)
                                   <= Length(table[j], r.values[j], j \in r.nulls))
    BY <1>5, <1>6
  <2>2. InMemory(table[j], value, tail) = value
    BY <2>1 DEF InMemory
  <2> QED
    BY <2>1, <2>2
<1>8. Len(pages) \in Nat /\ p \in 1 .. Len(pages) /\ IsNested(pages) /\ IsSequence(pages)
  BY <1>2, ChainFacts DEF IsChain
<1>9. IsPage(pages[p]) /\ i \in 1 .. Len(pages[p]) /\ IsRecord(r)
  <2>1. IsPage(pages[p])
    BY <1>2, <1>8 DEF IsChain
  <2>2. i \in 1 .. Len(pages[p])
    BY <2>1, PageFacts
  <2> QED
    BY <1>6, <2>1, <2>2 DEF IsPage
<1>10. n = Offset(pages, p - 1) + i
  <2>1. PICK ss : ss = SubSeq(pages, 1, p - 1)
    OBVIOUS
  <2>2. p - 1 \in 0 .. Len(pages) /\ p - 1 \in Nat
    BY <1>8
  <2>3. IsSequence(ss) /\ Len(ss) = p - 1 /\ \A q \in 1 .. p - 1 : ss[q] = pages[q]
    BY <1>8, <2>1, <2>2, FirstFacts
  <2>4. IsNested(ss)
    <3>1. \A q \in 1 .. p - 1 : q \in 1 .. Len(pages)
      BY <1>8
    <3> QED
      BY <1>8, <2>3, <3>1 DEF IsNested
  <2>5. Len(FlattenSeq(ss)) = Offset(ss, p - 1)
    BY <2>3, <2>4, FlattenLies DEF Lies
  <2>6. PICK m : m = p - 1
    OBVIOUS
  <2>7. \A q \in 0 .. m : Offset(ss, q) = Offset(pages, q)
    <3>1. m \in Nat /\ m <= Len(ss) /\ m <= Len(pages) /\ Len(ss) \in Nat
      BY <1>8, <2>2, <2>3, <2>6
    <3>2. \A q \in 1 .. m : Len(ss[q]) = Len(pages[q])
      BY <2>3, <2>6
    <3> QED
      BY <1>8, <3>1, <3>2, OffsetSame
  <2>8. m \in 0 .. m
    BY <2>2, <2>6
  <2> QED
    BY <1>6, <2>1, <2>5, <2>6, <2>7, <2>8
<1>11. n \in 1 .. Len(rows) /\ DOMAIN rows = 1 .. Len(rows) /\ Len(rows) \in Nat
  BY <1>2, <1>8, <1>9, <1>10, ChainFacts, SequenceFacts
<1>12. PICK row, x, page : /\ row = rows[n] /\ x = ValueSet(r, j, value)
                          /\ page = [pages[p] EXCEPT ![i] = x]
  OBVIOUS
<1>13. row \in Tuples /\ DOMAIN row = DOMAIN table
  BY <1>2, <1>11, <1>12, ChangedTuple
<1>14. PICK new : new = Changed(row, j, value, j \in r.nulls)
  OBVIOUS
<1>15. new \in Tuples
  BY <1>13, <1>14, ChangedTuple
<1>16. IsSequence(rows') /\ Len(rows') = Len(rows) /\ rows'[n] = new /\ \A k \in 1 .. Len(rows) : k # n => rows'[k] = rows[k]
  <2>1. CASE j \in r.nulls
    BY <1>2, <1>7, <1>12, <1>14, <2>1 DEF Changed
  <2>2. CASE j \notin r.nulls
    <3>1. new = [row EXCEPT ![j] = value]
      BY <1>14, <2>2 DEF Changed
    <3>2. rows' = [rows EXCEPT ![n] = new]
      BY <1>7, <1>11, <1>12, <2>2, <3>1
    <3>3. Changes(rows', rows, n, new)
      BY <3>2 DEF Changes
    <3> QED
      BY <1>2, <1>11, <3>3, ExceptFacts
  <2> QED
    BY <2>1, <2>2
<1>17. IsRecord(x) /\ x.size = r.size
  BY <1>7, <1>9, <1>12, UpdatedIsRecord
<1>18. Matches(x, new)
  <2>1. Matches(r, row)
    BY <1>2, <1>6, <1>8, <1>9, <1>10, <1>12 DEF AreRows
  <2> QED
    BY <1>9, <1>12, <1>13, <1>14, <2>1, UpdatedMatches
<1>19. Changes(page, pages[p], i, x) /\ Changes(pages', pages, p, page)
  <2>1. pages' = [pages EXCEPT ![p] = page]
    BY <1>6, <1>7, <1>12
  <2> QED
    BY <1>12, <2>1 DEF Changes
<1>20. IsChain(pages') /\ AreRows(pages', rows') /\ Count(pages') = Count(pages) /\ pages' # <<>>
  <2>1. Matches(x, rows'[Offset(pages, p - 1) + i])
    BY <1>10, <1>16, <1>18
  <2>2. \A k \in 1 .. Count(pages) : k # Offset(pages, p - 1) + i => rows'[k] = rows[k]
    BY <1>2, <1>10, <1>16
  <2>3. x.size = pages[p][i].size
    BY <1>6, <1>17
  <2>4. PICK chain, list, d, all : chain = pages /\ list = rows /\ d = pages' /\ all = rows'
    OBVIOUS
  <2>5. /\ IsChain(chain) /\ AreRows(chain, list) /\ p \in 1 .. Len(chain) /\ i \in 1 .. Len(chain[p])
        /\ IsRecord(x) /\ x.size = chain[p][i].size
        /\ Changes(page, chain[p], i, x) /\ Changes(d, chain, p, page)
    BY <1>2, <1>8, <1>9, <1>17, <1>19, <2>3, <2>4
  <2>6. Matches(x, all[Offset(chain, p - 1) + i])
    BY <2>1, <2>4
  <2>7. \A k \in 1 .. Count(chain) : k # Offset(chain, p - 1) + i => all[k] = list[k]
    BY <2>2, <2>4
  <2>8. IsChain(d) /\ AreRows(d, all) /\ Count(d) = Count(chain) /\ d # <<>>
    BY <2>5, <2>6, <2>7, RecordChanged
  <2> QED
    BY <2>4, <2>8
<1>21. /\ IsChain(written') /\ AreRows(written', rows') /\ Count(written') = 1 /\ written' # <<>>
       /\ Count(pages') >= 1
  BY <1>1, <1>20, FirstKept
<1>22. Count(written') <= Len(rows')
  BY <1>2, <1>11, <1>16, <1>20, <1>21
<1>23. \A k \in 1 .. Len(rows') : rows'[k] \in Tuples
  BY <1>2, <1>11, <1>15, <1>16
<1>24. file' # <<>>
  BY <1>1, <1>21, ImageNotEmpty
<1>25. Count(pages') = Len(rows')
  BY <1>2, <1>16, <1>20
<1> QED
  BY <1>1, <1>16, <1>20, <1>21, <1>22, <1>23, <1>24, <1>25, KeptNext


LEMMA LayoutInvNext ==
    ASSUME LayoutInv, NoBools', [Next]_vars
    PROVE  LayoutInv'
<1>1. table \in Tables /\ sound \in BOOLEAN /\ (sound => Kept)
  BY DEF LayoutInv
<1>2. CASE UNCHANGED vars
  <2>1. /\ table' = table /\ rows' = rows /\ pages' = pages /\ file' = file
        /\ written' = written /\ sound' = sound
    BY <1>2 DEF vars
  <2>2. ASSUME sound PROVE Kept'
    <3>1. Kept
      BY <1>1, <2>2
    <3> QED
      BY <2>1, <3>1, KeptNext DEF Kept
  <2> QED
    BY <1>1, <2>1, <2>2 DEF LayoutInv
<1>3. ASSUME Add PROVE LayoutInv'
  <2>1. table' = table /\ sound' \in BOOLEAN /\ (sound' => sound)
    BY <1>1, <1>3 DEF Add
  <2>2. sound' => Kept'
    BY <1>1, <1>3, <2>1, KeptAdd
  <2> QED
    BY <1>1, <2>1, <2>2 DEF LayoutInv
<1>4. ASSUME Write PROVE LayoutInv'
  <2>1. table' = table /\ sound' = sound
    BY <1>4 DEF Write
  <2>2. sound' => Kept'
    BY <1>1, <1>4, <2>1, KeptWrite
  <2> QED
    BY <1>1, <2>1, <2>2 DEF LayoutInv
<1>5. ASSUME ReadPages PROVE LayoutInv'
  <2>1. table' = table /\ sound' \in BOOLEAN /\ (sound' => sound)
    BY <1>1, <1>5 DEF ReadPages
  <2>2. sound' => Kept'
    BY <1>1, <1>5, <2>1, KeptRead
  <2> QED
    BY <1>1, <2>1, <2>2 DEF LayoutInv
<1>6. ASSUME Update PROVE LayoutInv'
  <2>1. table' = table /\ sound' \in BOOLEAN /\ (sound' => sound)
    BY <1>1, <1>6 DEF Update
  <2>2. sound' => Kept'
    BY <1>1, <1>6, <2>1, KeptUpdate
  <2> QED
    BY <1>1, <2>1, <2>2 DEF LayoutInv
<1>7. ASSUME Crash PROVE LayoutInv'
  <2>1. table' = table /\ sound' = sound
    BY <1>7 DEF Crash
  <2>2. sound' => Kept'
    BY <1>1, <1>7, <2>1, KeptCrash
  <2> QED
    BY <1>1, <2>1, <2>2 DEF LayoutInv
<1> QED
  BY <1>2, <1>3, <1>4, <1>5, <1>6, <1>7 DEF Next

LEMMA LayoutInvariance == Spec /\ []NoBools => []LayoutInv
<1>1. Init => LayoutInv
  BY LayoutInvInit
<1>2. LayoutInv /\ NoBools' /\ [Next]_vars => LayoutInv'
  BY LayoutInvNext
<1> QED
  BY <1>1, <1>2, PTL DEF Spec

-----------------------------------------------------------------------------
(* What follows from it *)

LEMMA InvRows ==
    ASSUME LayoutInv
    PROVE  RowsPreserved
<1> SUFFICES ASSUME pages # <<>>, sound
             PROVE  LET records == FlattenSeq(pages)
                    IN  /\ Len(records) = Len(rows)
                        /\ \A n \in DOMAIN rows : \A i \in DOMAIN table :
                              IF rows[n][i] = Null THEN i \in records[n].nulls
                              ELSE i \notin records[n].nulls
                                   /\ SameText(table[i], records[n].values[i], rows[n][i])
  BY DEF RowsPreserved
<1>1. IsChain(pages) /\ IsSequence(rows) /\ AreRows(pages, rows) /\ Count(pages) = Len(rows)
  BY DEF LayoutInv, Kept
<1>2. IsNested(pages) /\ DOMAIN rows = 1 .. Len(rows)
  BY <1>1, ChainFacts, SequenceFacts
<1>3. Len(FlattenSeq(pages)) = Len(rows)
  BY <1>1, <1>2, FlattenLies DEF Lies, Count
<1>4. ASSUME NEW n \in DOMAIN rows PROVE Matches(FlattenSeq(pages)[n], rows[n])
  <2>1. n \in 1 .. Len(FlattenSeq(pages))
    BY <1>2, <1>3
  <2>2. PICK p \in 1 .. Len(pages) : \E k \in 1 .. Len(pages[p]) :
           n = Offset(pages, p - 1) + k /\ FlattenSeq(pages)[n] = pages[p][k]
    BY <1>2, <2>1, FlattenPlaces
  <2>3. PICK k \in 1 .. Len(pages[p]) :
           n = Offset(pages, p - 1) + k /\ FlattenSeq(pages)[n] = pages[p][k]
    BY <2>2
  <2> QED
    BY <1>1, <2>3 DEF AreRows
<1> QED
  BY <1>3, <1>4 DEF Matches

LEMMA InvRoundTrip ==
    ASSUME LayoutInv, sound
    PROVE  RoundTrip
<1> SUFFICES ASSUME file # <<>>, NEW read, read = PagesInFile({})
             PROVE  /\ Len(read) = Len(written)
                    /\ \A p \in DOMAIN written :
                         /\ Len(read[p]) = Len(written[p])
                         /\ \A i \in DOMAIN written[p] :
                               /\ ~(Excess(written[p][i]) > 0)
                               /\ read[p][i].bitmap = written[p][i].bitmap
                               /\ \A j \in DOMAIN table \ written[p][i].nulls :
                                     SameText(table[j], read[p][i].values[j], written[p][i].values[j])
  BY DEF RoundTrip
<1>1. table \in Tables /\ IsChain(written) /\ written # <<>> /\ file = Image(written)
  BY DEF LayoutInv, Kept
<1>2. AreRead(read, written)
  BY <1>1, PagesRead
<1>3. DOMAIN written = 1 .. Len(written)
  BY <1>1, ChainFacts
<1>4. ASSUME NEW p \in 1 .. Len(written)
      PROVE  /\ Len(read[p]) = Len(written[p])
             /\ \A i \in DOMAIN written[p] :
                   /\ ~(Excess(written[p][i]) > 0)
                   /\ read[p][i].bitmap = written[p][i].bitmap
                   /\ \A j \in DOMAIN table \ written[p][i].nulls :
                         SameText(table[j], read[p][i].values[j], written[p][i].values[j])
  <2>1. Len(read[p]) = Len(written[p]) /\ DOMAIN written[p] = 1 .. Len(written[p])
    BY <1>1, <1>2, PageFacts DEF AreRead, IsChain
  <2>2. ASSUME NEW i \in 1 .. Len(written[p])
        PROVE  /\ ~(Excess(written[p][i]) > 0)
               /\ read[p][i].bitmap = written[p][i].bitmap
               /\ \A j \in DOMAIN table \ written[p][i].nulls :
                     SameText(table[j], read[p][i].values[j], written[p][i].values[j])
    <3>1. PICK w, x : w = written[p][i] /\ x = read[p][i]
      OBVIOUS
    <3>2. IsRecord(w) /\ IsRead(x, w)
      BY <1>1, <1>2, <2>2, <3>1 DEF IsChain, IsPage, AreRead
    <3>3. ~(Excess(w) > 0)
      <4>1. Len(RecordBytes(w)) = SizeOf(w.values, w.nulls) /\ IsSequence(RecordBytes(w))
        BY <1>1, <3>2, RecordBytesFacts
      <4>2. Len(RecordBytes(w)) \in Nat /\ w.size \in Nat /\ Len(RecordBytes(w)) <= w.size
        BY <3>2, <4>1 DEF IsRecord, IsSequence
      <4> QED
        BY <4>2 DEF Excess
    <3>4. x.bitmap = w.bitmap
      BY <3>2 DEF IsRead
    <3>5. ASSUME NEW j \in DOMAIN table \ w.nulls
          PROVE  SameText(table[j], x.values[j], w.values[j])
      <4>1. x.values[j] = Reread(table[j], w.values[j])
        BY <3>2 DEF IsRead
      <4>2. table[j].len \in Nat
        BY <1>1, TableFacts
      <4>3. SameText(table[j], w.values[j], w.values[j])
        BY DEF SameText
      <4> QED
        BY <4>1, <4>2, <4>3, RereadFacts
    <3> QED
      BY <3>1, <3>3, <3>4, <3>5
  <2> QED
    BY <2>1, <2>2
<1> QED
  BY <1>2, <1>3, <1>4 DEF AreRead

LEMMA InvTypes ==
    ASSUME LayoutInv, sound
    PROVE  TypeOK
<1>1. /\ table \in Tables /\ sound \in BOOLEAN /\ IsChain(pages) /\ IsChain(written)
      /\ IsSequence(rows) /\ \A n \in 1 .. Len(rows) : rows[n] \in Tuples
  BY DEF LayoutInv, Kept
<1>2. rows \in Seq(Tuples)
  <2> DEFINE n == Len(rows)
  <2>1. n \in Nat /\ rows = [i \in 1 .. n |-> rows[i]]
    BY <1>1 DEF IsSequence
  <2> HIDE DEF n
  <2>2. rows \in [1 .. n -> Tuples]
    BY <1>1, <2>1 DEF n
  <2> QED
    BY <2>1, <2>2
<1>3. ASSUME NEW p \in DOMAIN pages, NEW i \in DOMAIN pages[p]
      PROVE  /\ DOMAIN pages[p][i].values = DOMAIN table
             /\ pages[p][i].nulls \subseteq DOMAIN table
             /\ pages[p][i].bitmap \subseteq DOMAIN table
             /\ pages[p][i].size >= SizeOf(pages[p][i].values, pages[p][i].nulls)
  <2>1. IsPage(pages[p])
    BY <1>1, ChainFacts DEF IsChain
  <2>2. PICK r : r = pages[p][i]
    OBVIOUS
  <2>3. IsRecord(r)
    BY <2>1, <2>2, PageFacts DEF IsPage
  <2>4. SizeOf(r.values, r.nulls) \in Nat
    BY <1>1, <2>3, SizeNatural DEF IsRecord
  <2> QED
    BY <2>2, <2>3, <2>4 DEF IsRecord
<1>4. ASSUME NEW p \in DOMAIN written
      PROVE  Place(written[p], Len(written[p])) >= Header + IntSize * Len(written[p])
  <2>1. PICK page : page = written[p]
    OBVIOUS
  <2>2. IsPage(page)
    BY <1>1, <2>1, ChainFacts DEF IsChain
  <2>3. Len(page) \in Nat /\ Len(page) \in 0 .. Len(page)
    BY <2>2, PageFacts
  <2>4. Place(page, Len(page)) \in Nat /\ Header + IntSize * Len(page) <= Place(page, Len(page))
    BY <2>2, <2>3, PlaceFacts
  <2> QED
    BY <2>1, <2>3, <2>4 DEF Header, IntSize
<1> QED
  BY <1>1, <1>2, <1>3, <1>4 DEF TypeOK

-----------------------------------------------------------------------------
(* The theorems.  A BOOL that is not null is longer in the file than the     *)
(* record has room for: they are about tables whose rows never have one.     *)

\* write_page_to_file and read_page_from_file, however often they follow one
\* another and whatever is added, updated or lost in between, keep every row
\* that is not lost, with its nulls and its values.
THEOREM FileKeepsRows == Spec /\ []NoBools => []RowsPreserved
<1>1. LayoutInv => RowsPreserved
  BY InvRows
<1> QED
  BY <1>1, LayoutInvariance, PTL

\* At every moment the file reads as what was written last: page by page, record
\* by record and attribute by attribute, for any table, number of pages and size
\* of a page.  This is so until an update makes a record longer than its size.
THEOREM FileReadsAsWritten == Spec /\ []NoBools => [](sound => RoundTrip)
<1>1. LayoutInv /\ sound => RoundTrip
  BY InvRoundTrip
<1> QED
  BY <1>1, LayoutInvariance, PTL

\* The records have room for their values and stay behind the offsets of their
\* page (is_page_overfull), also after they were read again.
THEOREM RecordsFit == Spec /\ []NoBools => [](sound => TypeOK)
<1>1. LayoutInv /\ sound => TypeOK
  BY InvTypes
<1> QED
  BY <1>1, LayoutInvariance, PTL
=============================================================================
