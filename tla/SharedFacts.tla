---------------------------- MODULE SharedFacts ----------------------------
(***************************************************************************)
(* Facts that the proofs about several modules share.  Of ordered sets: a  *)
(* least member exists, and a finite set can be arranged in order.  Of     *)
(* sequences: what they are put together from.                             *)
(***************************************************************************)
EXTENDS Sequence, FiniteSets, FunctionTheorems, FiniteSetTheorems, WellFoundedInduction, TLAPS

\* A set of natural numbers that is not empty has a smallest member.
LEMMA LeastMember ==
    ASSUME NEW S, S \subseteq Nat, S # {}
    PROVE  \E n \in S : \A m \in S : n <= m
<1> DEFINE less == {ss \in Nat \X Nat : ss[1] < ss[2]}
<1>1. IsWellFoundedOn(less, Nat)
  BY NatLessThanWellFounded DEF OpToRel
<1>2. \A m, n \in Nat : m < n => <<m, n>> \in less
  OBVIOUS
<1> HIDE DEF less
<1>3. PICK n \in S : \A m \in S : <<m, n>> \notin less
  BY <1>1, WFMin
<1>4. ASSUME NEW m \in S PROVE n <= m
  <2>1. m \in Nat /\ n \in Nat
    OBVIOUS
  <2>2. ~(m < n)
    BY <1>2, <1>3, <2>1
  <2> QED
    BY <2>1, <2>2
<1> QED
  BY <1>4

\* There are n numbers from 1 to n.
LEMMA CountUpTo ==
    ASSUME NEW n \in Nat
    PROVE  IsFiniteSet(1 .. n) /\ Cardinality(1 .. n) = n
BY FS_Interval

\* A strict total order on a set, as a set of pairs.
OrdersStrictly(before, S) ==
    /\ \A x \in S : <<x, x>> \notin before
    /\ \A x, y, z \in S : <<x, y>> \in before /\ <<y, z>> \in before => <<x, z>> \in before
    /\ \A x, y \in S : x = y \/ <<x, y>> \in before \/ <<y, x>> \in before

\* The members of a finite set can be arranged in such an order: member x
\* comes behind as many others as there are before it.
LEMMA Arrangement ==
    ASSUME NEW S, IsFiniteSet(S), NEW before, OrdersStrictly(before, S)
    PROVE  \E s \in [1 .. Cardinality(S) -> S] :
              \A i, j \in 1 .. Cardinality(S) : i < j => <<s[i], s[j]>> \in before
<1> DEFINE N == Cardinality(S)
           Below(x) == {y \in S : <<y, x>> \in before}
           rank == [x \in S |-> Cardinality(Below(x)) + 1]
<1>1. N \in Nat
  BY FS_CardinalityType
<1>2. \A x \in S : IsFiniteSet(Below(x)) /\ Cardinality(Below(x)) \in Nat
  BY FS_Subset, FS_CardinalityType
<1>3. ASSUME NEW x \in S PROVE Cardinality(Below(x)) + 1 \in 1 .. N
  <2>1. Below(x) \in SUBSET (S \ {x})
    BY DEF OrdersStrictly
  <2>2. IsFiniteSet(S \ {x}) /\ Cardinality(S \ {x}) = N - 1
    BY FS_RemoveElement
  <2>3. Cardinality(Below(x)) <= N - 1
    BY <2>1, <2>2, FS_Subset
  <2> HIDE DEF Below
  <2> QED
    BY <1>1, <1>2, <2>3
<1>4. ASSUME NEW x \in S, NEW y \in S, <<x, y>> \in before
      PROVE  Cardinality(Below(x)) < Cardinality(Below(y))
  <2>1. Below(x) \in SUBSET Below(y) /\ x \in Below(y) /\ x \notin Below(x)
    BY <1>4 DEF OrdersStrictly
  <2>2. /\ Cardinality(Below(x)) <= Cardinality(Below(y))
        /\ Cardinality(Below(y)) = Cardinality(Below(x)) => Below(y) = Below(x)
    BY <1>2, <2>1, FS_Subset
  <2> HIDE DEF Below
  <2> QED
    BY <1>2, <2>1, <2>2
<1>5. /\ rank \in [S -> 1 .. N]
      /\ \A x, y \in S : <<x, y>> \in before => rank[x] < rank[y]
  <2> HIDE DEF N, Below
  <2>1. \A x \in S : Cardinality(Below(x)) + 1 \in 1 .. N
    BY <1>3
  <2>2. rank \in [S -> 1 .. N]
    BY <2>1
  <2>3. \A x \in S : rank[x] = Cardinality(Below(x)) + 1
    OBVIOUS
  <2>4. \A x, y \in S : <<x, y>> \in before => Cardinality(Below(x)) < Cardinality(Below(y))
    BY <1>4
  <2>5. ASSUME NEW x \in S, NEW y \in S, <<x, y>> \in before
        PROVE  rank[x] < rank[y]
    <3>1. Cardinality(Below(x)) < Cardinality(Below(y))
      BY <2>4, <2>5
    <3> QED
      BY <1>2, <2>3, <3>1
  <2> QED
    BY <2>2, <2>5
<1> HIDE DEF rank
<1>6. rank \in Injection(S, 1 .. N)
  <2>1. \A x, y \in S : rank[x] = rank[y] => x = y
    <3> SUFFICES ASSUME NEW x \in S, NEW y \in S, x # y PROVE rank[x] # rank[y]
      OBVIOUS
    <3>1. rank[x] \in 1 .. N /\ rank[y] \in 1 .. N
      BY <1>5
    <3>2. <<x, y>> \in before \/ <<y, x>> \in before
      BY DEF OrdersStrictly
    <3> QED
      BY <1>1, <1>5, <3>1, <3>2
  <2> QED
    BY <1>5, <2>1 DEF Injection, IsInjective
<1>7. rank \in Surjection(S, 1 .. N)
  <2>1. IsFiniteSet(1 .. N) /\ Cardinality(1 .. N) = N
    BY <1>1, CountUpTo
  <2> QED
    BY <1>6, <2>1, FS_Injection
<1>8. \A i \in 1 .. N : \E x \in S : rank[x] = i
  BY <1>7 DEF Surjection
<1> DEFINE s == [i \in 1 .. N |-> CHOOSE x \in S : rank[x] = i]
<1>9. \A i \in 1 .. N : s[i] \in S /\ rank[s[i]] = i
  BY <1>8
<1>10. s \in [1 .. N -> S]
  BY <1>9
<1>11. ASSUME NEW i \in 1 .. N, NEW j \in 1 .. N, i < j
       PROVE  <<s[i], s[j]>> \in before
  <2> HIDE DEF s
  <2>1. s[i] \in S /\ s[j] \in S /\ rank[s[i]] = i /\ rank[s[j]] = j
    BY <1>9
  <2>2. <<s[j], s[i]>> \notin before
    BY <1>5, <1>11, <2>1
  <2>3. s[i] # s[j]
    BY <1>11, <2>1
  <2> QED
    BY <2>1, <2>2, <2>3 DEF OrdersStrictly
<1> HIDE DEF s
<1> QED
  BY <1>10, <1>11

-----------------------------------------------------------------------------
(* Sequences *)

\* A sequence is one of its own members.
LEMMA SequenceFacts ==
    ASSUME NEW s, IsSequence(s)
    PROVE  s \in Seq(Range(s)) /\ Len(s) \in Nat /\ DOMAIN s = 1 .. Len(s)
<1>1. Len(s) \in Nat /\ s = [i \in 1 .. Len(s) |-> s[i]]
  BY DEF IsSequence
<1> DEFINE n == Len(s)
<1> HIDE DEF n
<1>2. n \in Nat /\ s = [i \in 1 .. n |-> s[i]]
  BY <1>1 DEF n
<1>3. DOMAIN s = 1 .. n
  BY <1>2
<1>4. \A i \in 1 .. n : s[i] \in Range(s)
  BY <1>3 DEF Range
<1>5. s \in [1 .. n -> Range(s)]
  BY <1>2, <1>4
<1> QED
  BY <1>2, <1>3, <1>5 DEF n

LEMMA SingleSequence ==
    ASSUME NEW v
    PROVE  IsSequence(<<v>>) /\ Len(<<v>>) = 1 /\ <<v>>[1] = v
BY DEF IsSequence

LEMMA SequenceOf ==
    ASSUME NEW S, NEW s \in Seq(S)
    PROVE  IsSequence(s) /\ Len(s) \in Nat /\ DOMAIN s = 1 .. Len(s) /\ \A i \in 1 .. Len(s) : s[i] \in S
BY DEF IsSequence

\* A sequence is given by its length and its members.
LEMMA SameSequence ==
    ASSUME NEW s, NEW t, IsSequence(s), IsSequence(t), Len(s) = Len(t), \A i \in 1 .. Len(s) : s[i] = t[i]
    PROVE  s = t
<1>1. s = [i \in 1 .. Len(s) |-> s[i]] /\ t = [i \in 1 .. Len(t) |-> t[i]]
  BY DEF IsSequence
<1> DEFINE n == Len(s)
<1>2. [i \in 1 .. n |-> s[i]] = [i \in 1 .. n |-> t[i]]
  OBVIOUS
<1> QED
  BY <1>1, <1>2

LEMMA AppendFacts ==
    ASSUME NEW s, IsSequence(s), NEW v
    PROVE  /\ IsSequence(Append(s, v)) /\ Len(Append(s, v)) = Len(s) + 1
           /\ \A i \in 1 .. Len(s) : Append(s, v)[i] = s[i]
           /\ Append(s, v)[Len(s) + 1] = v
           /\ Range(Append(s, v)) \subseteq Range(s) \cup {v}
<1> DEFINE S == Range(s) \cup {v}
<1>1. s \in Seq(Range(s)) /\ Len(s) \in Nat
  BY SequenceFacts
<1>2. s \in Seq(S) /\ v \in S
  BY <1>1
<1> HIDE DEF S
<1>3. Append(s, v) \in Seq(S) /\ Len(Append(s, v)) = Len(s) + 1
  BY <1>2
<1>4. PICK t : t = Append(s, v)
  OBVIOUS
<1>5. IsSequence(t) /\ DOMAIN t = 1 .. Len(t) /\ \A i \in 1 .. Len(t) : t[i] \in S
  BY <1>3, <1>4, SequenceOf
<1>6. Range(t) \subseteq S
  BY <1>5 DEF Range
<1>7. \A i \in 1 .. Len(s) : Append(s, v)[i] = s[i]
  BY <1>2
<1>8. Append(s, v)[Len(s) + 1] = v
  BY <1>2
<1> QED
  BY <1>3, <1>4, <1>5, <1>6, <1>7, <1>8 DEF S

\* Two sequences one after the other.
LEMMA ConcatFacts ==
    ASSUME NEW s, NEW t, IsSequence(s), IsSequence(t)
    PROVE  /\ IsSequence(s \o t) /\ Len(s \o t) = Len(s) + Len(t)
           /\ \A i \in 1 .. Len(s) : (s \o t)[i] = s[i]
           /\ \A i \in 1 .. Len(t) : (s \o t)[Len(s) + i] = t[i]
<1> DEFINE S == Range(s) \cup Range(t)
<1>1. s \in Seq(S) /\ t \in Seq(S)
  <2>1. s \in Seq(Range(s)) /\ t \in Seq(Range(t))
    BY SequenceFacts
  <2> QED
    BY <2>1
<1> HIDE DEF S
<1>2. s \o t \in Seq(S) /\ Len(s \o t) = Len(s) + Len(t)
  BY <1>1
<1>3. IsSequence(s \o t)
  BY <1>2, SequenceOf
<1>4. \A i \in 1 .. Len(s) : (s \o t)[i] = s[i]
  BY <1>1
<1>5. \A i \in 1 .. Len(t) : (s \o t)[Len(s) + i] = t[i]
  BY <1>1
<1> QED
  BY <1>2, <1>3, <1>4, <1>5

\* The first m of the sequences in ss, put together.
Flattens(f, m, ss) ==
    f = [i \in 1 .. m |-> IF i = 1 THEN ss[i] ELSE f[i - 1] \o ss[i]]

LEMMA FlattenExists ==
    ASSUME NEW ss, NEW n \in Nat
    PROVE  \E f : Flattens(f, n, ss)
<1> DEFINE Bad == {m \in Nat : ~\E f : Flattens(f, m, ss)}
<1> SUFFICES ASSUME Bad # {} PROVE FALSE
  OBVIOUS
<1>1. PICK m \in Bad : \A l \in Bad : m <= l
  BY LeastMember
<1>2. m \in Nat /\ ~\E f : Flattens(f, m, ss)
  OBVIOUS
<1>3. m # 0
  <2>1. Flattens([i \in 1 .. 0 |-> ss[i]], 0, ss)
    BY DEF Flattens
  <2> QED
    BY <1>2, <2>1
<1>4. m - 1 \in Nat /\ m - 1 \notin Bad
  BY <1>1, <1>2, <1>3
<1>5. PICK f : Flattens(f, m - 1, ss)
  BY <1>4
<1> DEFINE g == [i \in 1 .. m |-> IF i < m THEN f[i] ELSE IF i = 1 THEN ss[i] ELSE f[i - 1] \o ss[i]]
<1>6. \A i \in 1 .. m : g[i] = IF i = 1 THEN ss[i] ELSE g[i - 1] \o ss[i]
  <2> TAKE i \in 1 .. m
  <2>1. i > 1 => i - 1 \in 1 .. m - 1
    BY <1>2
  <2>2. \A j \in 1 .. m - 1 : f[j] = IF j = 1 THEN ss[j] ELSE f[j - 1] \o ss[j]
    BY <1>5 DEF Flattens
  <2>3. \A j \in 1 .. m - 1 : g[j] = f[j]
    BY <1>2
  <2>4. g[m] = IF m = 1 THEN ss[m] ELSE f[m - 1] \o ss[m]
    BY <1>2, <1>3
  <2> HIDE DEF g
  <2>5. CASE i = m
    BY <1>2, <2>1, <2>3, <2>4, <2>5
  <2>6. CASE i # m
    <3>1. i \in 1 .. m - 1
      BY <1>2, <2>6
    <3> QED
      BY <1>2, <2>1, <2>2, <2>3, <3>1
  <2> QED
    BY <2>5, <2>6
<1>7. Flattens(g, m, ss)
  <2>1. g = [i \in 1 .. m |-> g[i]]
    OBVIOUS
  <2> HIDE DEF g
  <2> QED
    BY <1>6, <2>1 DEF Flattens
<1> QED
  BY <1>2, <1>7
=============================================================================
