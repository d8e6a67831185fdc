-------------------------- MODULE ConditionProofs --------------------------
(***************************************************************************)
(* Proofs about Condition: a condition that the parser understands gives a *)
(* tree, and a tree answers as the condition is meant, for any number of   *)
(* alternatives and tests, any columns and any row.                        *)
(***************************************************************************)
EXTENDS Condition, SharedFacts

-----------------------------------------------------------------------------
(* Sequences.  What FlattenSeq makes of a sequence of sequences: every      *)
(* member once, each at a place of its own.                                 *)

\* A function on the domain of a sequence is a sequence.
LEMMA MappedSequence ==
    ASSUME NEW s, IsSequence(s), NEW t, t = [i \in DOMAIN s |-> t[i]]
    PROVE  IsSequence(t) /\ Len(t) = Len(s) /\ DOMAIN t = 1 .. Len(s)
<1>1. DOMAIN s = 1 .. Len(s) /\ Len(s) \in Nat
  BY SequenceFacts
<1>2. DOMAIN t = 1 .. Len(s) /\ Len(t) = Len(s)
  BY <1>1
<1> QED
  BY <1>1, <1>2 DEF IsSequence

LEMMA EmptySequence == IsSequence(<<>>) /\ Len(<<>>) = 0 /\ Range(<<>>) = {}
<1>1. DOMAIN <<>> = {}
  OBVIOUS
<1> QED
  BY <1>1 DEF IsSequence, Range

\* FlattenSeq is the last of them.
LEMMA FlattenIs ==
    ASSUME NEW ss, IsSequence(ss), ss # <<>>
    PROVE  \E f : Flattens(f, Len(ss), ss) /\ FlattenSeq(ss) = f[Len(ss)]
<1> DEFINE F == CHOOSE f : f = [i \in 1 .. Len(ss) |-> IF i = 1 THEN ss[i] ELSE f[i - 1] \o ss[i]]
<1>1. Len(ss) \in Nat /\ Len(ss) # 0
  BY SequenceFacts
<1>2. FlattenSeq(ss) = F[Len(ss)]
  BY <1>1 DEF FlattenSeq
<1>3. \E f : f = [i \in 1 .. Len(ss) |-> IF i = 1 THEN ss[i] ELSE f[i - 1] \o ss[i]]
  BY <1>1, FlattenExists DEF Flattens
<1>4. Flattens(F, Len(ss), ss)
  BY <1>3 DEF Flattens
<1> QED
  BY <1>2, <1>4


\* The places of the members of the first m sequences.
Places(ss, m) == {p \in Nat \X Nat : p[1] \in 1 .. m /\ p[2] \in 1 .. Len(ss[p[1]])}

\* Member k of s is the member of ss at place at[k]; no place is missing and
\* none is taken twice.
Arranged(s, at, m, ss) ==
    /\ IsSequence(s)
    /\ at \in [1 .. Len(s) -> Places(ss, m)]
    /\ \A k \in 1 .. Len(s) : s[k] = ss[at[k][1]][at[k][2]]
    /\ \A k, l \in 1 .. Len(s) : at[k] = at[l] => k = l
    /\ \A p \in Places(ss, m) : \E k \in 1 .. Len(s) : at[k] = p

LEMMA ArrangedFirst ==
    ASSUME NEW ss, IsSequence(ss[1])
    PROVE  \E at : Arranged(ss[1], at, 1, ss)
<1> DEFINE s == ss[1]
           at == [k \in 1 .. Len(s) |-> <<1, k>>]
<1>1. Len(s) \in Nat
  BY SequenceFacts
<1>2. \A k \in 1 .. Len(s) : <<1, k>> \in Places(ss, 1)
  BY <1>1 DEF Places
<1>3. \A p \in Places(ss, 1) : p[2] \in 1 .. Len(s) /\ p = <<1, p[2]>>
  BY DEF Places
<1>4. Arranged(s, at, 1, ss)
  BY <1>1, <1>2, <1>3 DEF Arranged
<1> QED
  BY <1>4

LEMMA ArrangedNext ==
    ASSUME NEW ss, NEW m \in Nat, NEW s, NEW at, Arranged(s, at, m, ss), IsSequence(ss[m + 1])
    PROVE  \E new : Arranged(s \o ss[m + 1], new, m + 1, ss)
<1> DEFINE t == ss[m + 1]
           a == Len(s)
           b == Len(t)
           new == [k \in 1 .. a + b |-> IF k <= a THEN at[k] ELSE <<m + 1, k - a>>]
<1>1. a \in Nat /\ b \in Nat /\ IsSequence(s) /\ IsSequence(t)
  BY SequenceFacts DEF Arranged
<1>2. /\ IsSequence(s \o t) /\ Len(s \o t) = a + b
      /\ \A i \in 1 .. a : (s \o t)[i] = s[i]
      /\ \A i \in 1 .. b : (s \o t)[a + i] = t[i]
  BY <1>1, ConcatFacts
<1>3. /\ at \in [1 .. a -> Places(ss, m)]
      /\ \A k \in 1 .. a : s[k] = ss[at[k][1]][at[k][2]]
      /\ \A k, l \in 1 .. a : at[k] = at[l] => k = l
      /\ \A p \in Places(ss, m) : \E k \in 1 .. a : at[k] = p
  BY DEF Arranged
<1>4. \A p \in Places(ss, m) : p \in Places(ss, m + 1) /\ p[1] # m + 1
  BY DEF Places
<1>5. \A j \in 1 .. b : <<m + 1, j>> \in Places(ss, m + 1)
  BY <1>1 DEF Places
<1>6. \A p \in Places(ss, m + 1) :
            p \in Places(ss, m) \/ (p[2] \in 1 .. b /\ p = <<m + 1, p[2]>>)
  BY DEF Places
<1>7. /\ \A k \in 1 .. a : k \in 1 .. a + b /\ new[k] = at[k]
      /\ \A j \in 1 .. b : a + j \in 1 .. a + b /\ new[a + j] = <<m + 1, j>>
      /\ \A k \in 1 .. a + b : k \in 1 .. a \/ (k - a \in 1 .. b /\ k = a + (k - a))
  <2> HIDE DEF a, b
  <2> QED
    BY <1>1
<1>8. new \in [1 .. a + b -> Places(ss, m + 1)]
  <2>1. ASSUME NEW k \in 1 .. a + b PROVE new[k] \in Places(ss, m + 1)
    <3>1. CASE k \in 1 .. a
      <4>1. new[k] = at[k] /\ at[k] \in Places(ss, m)
        BY <1>3, <1>7, <3>1
      <4> QED
        BY <1>4, <4>1
    <3>2. CASE k - a \in 1 .. b
      <4>1. new[k] = <<m + 1, k - a>>
        BY <1>1, <1>7, <3>2
      <4> QED
        BY <1>5, <3>2, <4>1
    <3> QED
      BY <1>7, <3>1, <3>2
  <2>2. new = [k \in 1 .. a + b |-> new[k]]
    OBVIOUS
  <2> HIDE DEF new
  <2> QED
    BY <2>1, <2>2
<1> HIDE DEF new, a, b, t
<1>9. ASSUME NEW k \in 1 .. a + b PROVE (s \o t)[k] = ss[new[k][1]][new[k][2]]
  <2>1. CASE k \in 1 .. a
    BY <1>2, <1>3, <1>7, <2>1
  <2>2. CASE k - a \in 1 .. b
    <3>1. new[k] = <<m + 1, k - a>> /\ (s \o t)[k] = t[k - a]
      BY <1>1, <1>2, <1>7, <2>2
    <3>2. new[k][1] = m + 1 /\ new[k][2] = k - a
      BY <3>1
    <3> QED
      BY <3>1, <3>2 DEF t
  <2> QED
    BY <1>7, <2>1, <2>2
<1>10. ASSUME NEW k \in 1 .. a + b, NEW l \in 1 .. a + b, new[k] = new[l] PROVE k = l
  <2>1. \A i \in 1 .. a : new[i][1] # m + 1
    BY <1>3, <1>4, <1>7
  <2>2. \A i \in 1 .. a + b : i \in 1 .. a \/ new[i] = <<m + 1, i - a>>
    BY <1>1, <1>7
  <2>3. CASE k \in 1 .. a
    <3>1. l \in 1 .. a
      BY <1>10, <2>1, <2>2, <2>3
    <3> QED
      BY <1>3, <1>7, <1>10, <2>3, <3>1
  <2>4. CASE k \notin 1 .. a
    <3>1. new[k] = <<m + 1, k - a>> /\ l \notin 1 .. a
      BY <1>10, <2>1, <2>2, <2>4
    <3>2. new[l] = <<m + 1, l - a>>
      BY <2>2, <3>1
    <3>3. new[k][2] = k - a /\ new[l][2] = l - a
      BY <3>1, <3>2
    <3> QED
      BY <1>1, <1>10, <3>3
  <2> QED
    BY <2>3, <2>4
<1>11. ASSUME NEW p \in Places(ss, m + 1) PROVE \E k \in 1 .. a + b : new[k] = p
  <2>1. CASE p \in Places(ss, m)
    BY <1>3, <1>7, <2>1
  <2>2. CASE p[2] \in 1 .. b /\ p = <<m + 1, p[2]>>
    BY <1>7, <2>2
  <2> QED
    BY <1>6, <2>1, <2>2
<1>12. Arranged(s \o t, new, m + 1, ss)
  BY <1>2, <1>8, <1>9, <1>10, <1>11 DEF Arranged
<1> QED
  BY <1>12 DEF t

\* The members of the sequences, each once, are the members of what
\* FlattenSeq makes of them.
LEMMA FlattenFacts ==
    ASSUME NEW ss, IsSequence(ss), \A i \in 1 .. Len(ss) : IsSequence(ss[i])
    PROVE  \E at : Arranged(FlattenSeq(ss), at, Len(ss), ss)
<1> DEFINE n == Len(ss)
<1>1. n \in Nat
  BY SequenceFacts
<1>2. CASE ss = <<>>
  <2>1. FlattenSeq(ss) = <<>> /\ n = 0
    BY <1>2 DEF FlattenSeq
  <2>2. Places(ss, 0) = {}
    BY DEF Places
  <2>3. Arranged(<<>>, <<>>, 0, ss)
    BY <2>2 DEF Arranged, IsSequence
  <2> QED
    BY <2>1, <2>3
<1>3. CASE ss # <<>>
  <2>1. PICK f : Flattens(f, n, ss) /\ FlattenSeq(ss) = f[n]
    BY <1>3, FlattenIs
  <2>2. n >= 1 /\ n \in Nat
    BY <1>1, <1>3, SequenceFacts
  <2> HIDE DEF n
  <2>3. \A i \in 1 .. n : f[i] = IF i = 1 THEN ss[i] ELSE f[i - 1] \o ss[i]
    BY <2>1 DEF Flattens
  <2>4. \A i \in 1 .. n : IsSequence(ss[i])
    BY DEF n
  <2> DEFINE Bad == {m \in 1 .. n : ~\E at : Arranged(f[m], at, m, ss)}
  <2>5. Bad = {}
    <3> SUFFICES ASSUME Bad # {} PROVE FALSE
      OBVIOUS
    <3>0. Bad \subseteq Nat
      BY <2>2
    <3>1. PICK m \in Bad : \A l \in Bad : m <= l
      BY <3>0, LeastMember
    <3>2. m \in 1 .. n /\ ~\E at : Arranged(f[m], at, m, ss)
      OBVIOUS
    <3>3. m # 1
      <4>1. 1 \in 1 .. n /\ f[1] = ss[1]
        BY <2>2, <2>3
      <4>2. \E at : Arranged(ss[1], at, 1, ss)
        BY <2>4, <4>1, ArrangedFirst
      <4> QED
        BY <3>2, <4>1, <4>2
    <3>4. m - 1 \in 1 .. n /\ m - 1 \in Nat /\ (m - 1) + 1 = m /\ m - 1 \notin Bad
      BY <2>2, <3>1, <3>2, <3>3
    <3> DEFINE k == m - 1
    <3>5. PICK at : Arranged(f[k], at, k, ss)
      BY <3>4
    <3>6. f[m] = f[k] \o ss[m] /\ IsSequence(ss[m]) /\ k \in Nat /\ k + 1 = m
      BY <2>3, <2>4, <3>2, <3>3, <3>4
    <3> HIDE DEF k, Bad
    <3>7. IsSequence(ss[k + 1])
      BY <3>6
    <3>8. \E new : Arranged(f[k] \o ss[k + 1], new, k + 1, ss)
      BY <3>5, <3>6, <3>7, ArrangedNext
    <3> QED
      BY <3>2, <3>6, <3>8
  <2>6. \E at : Arranged(f[n], at, n, ss)
    BY <2>2, <2>5
  <2> QED
    BY <2>1, <2>6 DEF n
<1> QED
  BY <1>2, <1>3


LEMMA FlattenSequence ==
    ASSUME NEW ss, IsSequence(ss), \A i \in 1 .. Len(ss) : IsSequence(ss[i])
    PROVE  /\ IsSequence(FlattenSeq(ss))
           /\ Range(FlattenSeq(ss)) = UNION {Range(ss[i]) : i \in 1 .. Len(ss)}
<1> DEFINE f == FlattenSeq(ss)
           n == Len(ss)
<1>1. PICK at : Arranged(f, at, n, ss)
  BY FlattenFacts
<1>2. IsSequence(f) /\ DOMAIN f = 1 .. Len(f) /\ n \in Nat
  BY <1>1, SequenceFacts DEF Arranged
<1>3. \A i \in 1 .. n : DOMAIN ss[i] = 1 .. Len(ss[i]) /\ Len(ss[i]) \in Nat
  BY SequenceFacts
<1> HIDE DEF f, n
<1>4. ASSUME NEW v \in Range(f) PROVE \E i \in 1 .. n : v \in Range(ss[i])
  <2>1. PICK k \in 1 .. Len(f) : v = f[k]
    BY <1>2 DEF Range
  <2>2. at[k] \in Places(ss, n) /\ v = ss[at[k][1]][at[k][2]]
    BY <1>1, <2>1 DEF Arranged
  <2>3. at[k][1] \in 1 .. n /\ at[k][2] \in 1 .. Len(ss[at[k][1]])
    BY <2>2 DEF Places
  <2> QED
    BY <1>3, <2>2, <2>3 DEF Range
<1>5. ASSUME NEW i \in 1 .. n, NEW v \in Range(ss[i]) PROVE v \in Range(f)
  <2>1. PICK j \in 1 .. Len(ss[i]) : v = ss[i][j]
    BY <1>3 DEF Range
  <2>2. <<i, j>> \in Places(ss, n)
    BY <1>2, <1>3 DEF Places
  <2>3. PICK k \in 1 .. Len(f) : at[k] = <<i, j>>
    BY <1>1, <2>2 DEF Arranged
  <2>4. f[k] = v
    BY <1>1, <2>1, <2>3 DEF Arranged
  <2> QED
    BY <1>2, <2>4 DEF Range
<1>6. Range(f) = UNION {Range(ss[i]) : i \in 1 .. n}
  BY <1>4, <1>5
<1> QED
  BY <1>2, <1>6 DEF f, n

\* Nothing is twice in it exactly if nothing is twice in one of the sequences,
\* or in two of them.
Apart(ss) ==
    /\ \A i \in 1 .. Len(ss) : IsInjective(ss[i])
    /\ \A i, k \in 1 .. Len(ss) : \A v \in Range(ss[i]) : v \in Range(ss[k]) => i = k

LEMMA FlattenInjective ==
    ASSUME NEW ss, IsSequence(ss), \A i \in 1 .. Len(ss) : IsSequence(ss[i])
    PROVE  IsInjective(FlattenSeq(ss)) <=> Apart(ss)
<1> DEFINE f == FlattenSeq(ss)
           n == Len(ss)
<1>1. PICK at : Arranged(f, at, n, ss)
  BY FlattenFacts
<1>2. DOMAIN f = 1 .. Len(f) /\ n \in Nat
  BY <1>1, SequenceFacts DEF Arranged
<1>3. \A i \in 1 .. n : DOMAIN ss[i] = 1 .. Len(ss[i]) /\ Len(ss[i]) \in Nat
  BY SequenceFacts
<1> HIDE DEF f
<1>4. \A i \in 1 .. n : \A j \in 1 .. Len(ss[i]) : \E k \in 1 .. Len(f) : at[k] = <<i, j>> /\ f[k] = ss[i][j]
  <2> SUFFICES ASSUME NEW i \in 1 .. n, NEW j \in 1 .. Len(ss[i])
               PROVE  \E k \in 1 .. Len(f) : at[k] = <<i, j>> /\ f[k] = ss[i][j]
    OBVIOUS
  <2>1. <<i, j>> \in Places(ss, n)
    BY <1>2, <1>3 DEF Places
  <2>2. PICK k \in 1 .. Len(f) : at[k] = <<i, j>>
    BY <1>1, <2>1 DEF Arranged
  <2> QED
    BY <1>1, <2>2 DEF Arranged
<1>5. ASSUME IsInjective(f) PROVE Apart(ss)
  <2>1. ASSUME NEW i \in 1 .. n, NEW k \in 1 .. n, NEW j \in 1 .. Len(ss[i]),
               NEW l \in 1 .. Len(ss[k]), ss[i][j] = ss[k][l]
        PROVE  i = k /\ j = l
    <3>1. PICK a \in 1 .. Len(f) : at[a] = <<i, j>> /\ f[a] = ss[i][j]
      BY <1>4
    <3>2. PICK b \in 1 .. Len(f) : at[b] = <<k, l>> /\ f[b] = ss[k][l]
      BY <1>4
    <3>3. a = b
      BY <1>2, <1>5, <2>1, <3>1, <3>2 DEF IsInjective
    <3> QED
      BY <3>1, <3>2, <3>3
  <2>2. ASSUME NEW i \in 1 .. n PROVE IsInjective(ss[i])
    BY <1>3, <2>1 DEF IsInjective
  <2>3. ASSUME NEW i \in 1 .. n, NEW k \in 1 .. n, NEW v \in Range(ss[i]), v \in Range(ss[k])
        PROVE  i = k
    <3>1. PICK j \in 1 .. Len(ss[i]) : v = ss[i][j]
      BY <1>3 DEF Range
    <3>2. PICK l \in 1 .. Len(ss[k]) : v = ss[k][l]
      BY <1>3, <2>3 DEF Range
    <3> QED
      BY <2>1, <3>1, <3>2
  <2> QED
    BY <2>2, <2>3 DEF Apart
<1>6. ASSUME Apart(ss), NEW k \in 1 .. Len(f), NEW l \in 1 .. Len(f), f[k] = f[l]
      PROVE  k = l
  <2>1. /\ at[k] \in Places(ss, n) /\ f[k] = ss[at[k][1]][at[k][2]]
        /\ at[l] \in Places(ss, n) /\ f[l] = ss[at[l][1]][at[l][2]]
    BY <1>1 DEF Arranged
  <2>2. /\ at[k] = <<at[k][1], at[k][2]>> /\ at[k][1] \in 1 .. n
        /\ at[k][2] \in 1 .. Len(ss[at[k][1]])
        /\ at[l] = <<at[l][1], at[l][2]>> /\ at[l][1] \in 1 .. n
        /\ at[l][2] \in 1 .. Len(ss[at[l][1]])
    BY <2>1 DEF Places
  <2>3. at[k][1] = at[l][1]
    <3>1. f[k] \in Range(ss[at[k][1]]) /\ f[l] \in Range(ss[at[l][1]])
      BY <1>3, <2>1, <2>2 DEF Range
    <3> QED
      BY <1>6, <2>2, <3>1 DEF Apart
  <2>4. at[k][2] = at[l][2]
    <3>1. PICK i \in 1 .. n : i = at[k][1] /\ i = at[l][1]
      BY <2>2, <2>3
    <3>2. IsInjective(ss[i]) /\ DOMAIN ss[i] = 1 .. Len(ss[i])
      BY <1>3, <1>6 DEF Apart
    <3>3. at[k][2] \in DOMAIN ss[i] /\ at[l][2] \in DOMAIN ss[i]
      BY <2>2, <3>1, <3>2
    <3>4. ss[i][at[k][2]] = ss[i][at[l][2]]
      BY <1>6, <2>1, <3>1
    <3> QED
      BY <3>2, <3>3, <3>4 DEF IsInjective
  <2>5. at[k] = at[l]
    BY <2>2, <2>3, <2>4
  <2> QED
    BY <1>1, <2>5 DEF Arranged
<1> QED
  BY <1>2, <1>5, <1>6 DEF IsInjective, f

LEMMA FlattenOne ==
    ASSUME NEW s
    PROVE  FlattenSeq(<<s>>) = s /\ FlattenSeq(<<>>) = <<>>
<1>1. PICK ss : ss = <<s>>
  OBVIOUS
<1>2. IsSequence(ss) /\ Len(ss) = 1 /\ ss[1] = s
  BY <1>1, SingleSequence
<1>3. ss # <<>>
  BY <1>2, EmptySequence
<1>4. PICK f : Flattens(f, Len(ss), ss) /\ FlattenSeq(ss) = f[Len(ss)]
  BY <1>2, <1>3, FlattenIs
<1>5. f[1] = s
  BY <1>2, <1>4 DEF Flattens
<1>6. FlattenSeq(<<>>) = <<>>
  BY DEF FlattenSeq
<1> QED
  BY <1>1, <1>2, <1>4, <1>5, <1>6

\* A sequence of sequences.
IsNested(ss) == IsSequence(ss) /\ \A i \in 1 .. Len(ss) : IsSequence(ss[i])

LEMMA EmptyOnly ==
    ASSUME NEW s, IsSequence(s), Len(s) = 0
    PROVE  s = <<>>
BY EmptySequence, SameSequence

LEMMA ConcatEmpty ==
    ASSUME NEW s, IsSequence(s)
    PROVE  s \o <<>> = s /\ <<>> \o s = s
<1>1. s \in Seq(Range(s))
  BY SequenceFacts
<1> QED
  BY <1>1

LEMMA ConcatAssociative ==
    ASSUME NEW r, NEW s, NEW t, IsSequence(r), IsSequence(s), IsSequence(t)
    PROVE  (r \o s) \o t = r \o (s \o t)
<1> DEFINE S == Range(r) \cup Range(s) \cup Range(t)
<1>1. r \in Seq(S) /\ s \in Seq(S) /\ t \in Seq(S)
  <2>1. r \in Seq(Range(r)) /\ s \in Seq(Range(s)) /\ t \in Seq(Range(t))
    BY SequenceFacts
  <2> QED
    BY <2>1
<1> HIDE DEF S
<1> QED
  BY <1>1

\* Putting one more sequence to the others.
LEMMA FlattenMore ==
    ASSUME NEW ss, IsNested(ss), NEW t, IsSequence(t)
    PROVE  FlattenSeq(ss \o <<t>>) = FlattenSeq(ss) \o t
<1>0. IsSequence(ss) /\ Len(ss) \in Nat
  BY SequenceFacts DEF IsNested
<1>1. CASE ss = <<>>
  <2>1. ss \o <<t>> = <<t>> /\ FlattenSeq(ss) = <<>>
    BY <1>1, SingleSequence, ConcatEmpty, FlattenOne
  <2> QED
    BY <2>1, FlattenOne, ConcatEmpty
<1>2. CASE ss # <<>>
  <2> DEFINE n == Len(ss)
             all == ss \o <<t>>
  <2>1. n \in Nat /\ n >= 1
    BY <1>0, <1>2, EmptyOnly
  <2>2. /\ IsSequence(all) /\ Len(all) = n + 1
        /\ \A i \in 1 .. n : all[i] = ss[i]
        /\ all[n + 1] = t
    <3>1. IsSequence(<<t>>) /\ Len(<<t>>) = 1 /\ <<t>>[1] = t
      BY SingleSequence
    <3>2. PICK one : one = <<t>>
      OBVIOUS
    <3>3. /\ IsSequence(ss \o one) /\ Len(ss \o one) = Len(ss) + Len(one)
          /\ \A i \in 1 .. Len(ss) : (ss \o one)[i] = ss[i]
          /\ \A i \in 1 .. Len(one) : (ss \o one)[Len(ss) + i] = one[i]
      BY <1>0, <3>1, <3>2, ConcatFacts
    <3> QED
      BY <1>0, <3>1, <3>2, <3>3
  <2> HIDE DEF all
  <2>3. all # <<>>
    BY <2>1, <2>2, EmptySequence
  <2>4. PICK f : Flattens(f, n, ss) /\ FlattenSeq(ss) = f[n]
    BY <1>0, <1>2, FlattenIs
  <2>5. PICK g : Flattens(g, n + 1, all) /\ FlattenSeq(all) = g[n + 1]
    BY <2>2, <2>3, FlattenIs
  <2> HIDE DEF n
  <2>6. \A i \in 1 .. n : f[i] = IF i = 1 THEN ss[i] ELSE f[i - 1] \o ss[i]
    BY <2>4 DEF Flattens
  <2>7. \A i \in 1 .. n + 1 : g[i] = IF i = 1 THEN all[i] ELSE g[i - 1] \o all[i]
    BY <2>5 DEF Flattens
  <2> DEFINE Bad == {i \in 1 .. n : g[i] # f[i]}
  <2>8. Bad = {}
    <3> SUFFICES ASSUME Bad # {} PROVE FALSE
      OBVIOUS
    <3>1. Bad \subseteq Nat
      BY <2>1
    <3>2. PICK i \in Bad : \A k \in Bad : i <= k
      BY <3>1, LeastMember
    <3>3. i \in 1 .. n /\ g[i] # f[i] /\ i \in 1 .. n + 1
      BY <2>1, <3>2
    <3>4. CASE i = 1
      BY <2>2, <2>6, <2>7, <3>3, <3>4
    <3>5. CASE i # 1
      <4>1. i - 1 \in 1 .. n /\ i - 1 \notin Bad
        BY <2>1, <3>2, <3>3, <3>5
      <4>2. g[i - 1] = f[i - 1]
        BY <4>1
      <4> QED
        BY <2>2, <2>6, <2>7, <3>3, <3>5, <4>2
    <3> QED
      BY <3>4, <3>5
  <2>9. g[n] = f[n] /\ g[n + 1] = g[n] \o t
    <3>1. n \in 1 .. n /\ n + 1 \in 1 .. n + 1 /\ n + 1 # 1 /\ (n + 1) - 1 = n
      BY <2>1
    <3> QED
      BY <2>2, <2>7, <2>8, <3>1
  <2> QED
    BY <2>4, <2>5, <2>9 DEF all
<1> QED
  BY <1>1, <1>2

LEMMA NestedFacts ==
    ASSUME NEW ss, IsNested(ss)
    PROVE  IsSequence(ss) /\ Len(ss) \in Nat /\ IsSequence(FlattenSeq(ss))
BY SequenceFacts, FlattenSequence DEF IsNested

LEMMA NestedConcat ==
    ASSUME NEW ss, IsNested(ss), NEW tt, IsNested(tt)
    PROVE  IsNested(ss \o tt)
<1>1. /\ IsSequence(ss) /\ IsSequence(tt) /\ Len(ss) \in Nat /\ Len(tt) \in Nat
      /\ \A i \in 1 .. Len(ss) : IsSequence(ss[i])
      /\ \A i \in 1 .. Len(tt) : IsSequence(tt[i])
  BY SequenceFacts DEF IsNested
<1>2. PICK all : all = ss \o tt
  OBVIOUS
<1>3. /\ IsSequence(all) /\ Len(all) = Len(ss) + Len(tt)
      /\ \A i \in 1 .. Len(ss) : all[i] = ss[i]
      /\ \A i \in 1 .. Len(tt) : all[Len(ss) + i] = tt[i]
  BY <1>1, <1>2, ConcatFacts
<1>4. ASSUME NEW i \in 1 .. Len(all) PROVE IsSequence(all[i])
  <2>1. CASE i \in 1 .. Len(ss)
    BY <1>1, <1>3, <2>1
  <2>2. CASE i \notin 1 .. Len(ss)
    <3>1. i - Len(ss) \in 1 .. Len(tt) /\ i = Len(ss) + (i - Len(ss))
      BY <1>1, <1>3, <2>2
    <3>2. all[i] = tt[i - Len(ss)]
      BY <1>3, <3>1
    <3> QED
      BY <1>1, <3>1, <3>2
  <2> QED
    BY <2>1, <2>2
<1> QED
  BY <1>2, <1>3, <1>4 DEF IsNested

\* A sequence that is not empty has a last member behind the others.
LEMMA FrontAndLast ==
    ASSUME NEW t, IsSequence(t), NEW n \in Nat, Len(t) = n + 1
    PROVE  \E u : /\ IsSequence(u) /\ Len(u) = n
                  /\ \A i \in 1 .. n : u[i] = t[i]
                  /\ t = u \o <<t[n + 1]>>
<1> DEFINE u == [i \in 1 .. n |-> t[i]]
<1>1. IsSequence(u) /\ Len(u) = n /\ \A i \in 1 .. n : u[i] = t[i]
  BY DEF IsSequence
<1> HIDE DEF u
<1>2. PICK v, one : v = t[n + 1] /\ one = <<v>>
  OBVIOUS
<1>3. IsSequence(one) /\ Len(one) = 1 /\ one[1] = v
  BY <1>2, SingleSequence
<1>4. /\ IsSequence(u \o one) /\ Len(u \o one) = n + 1
      /\ \A i \in 1 .. n : (u \o one)[i] = u[i]
      /\ (u \o one)[n + 1] = one[1]
  <2>1. /\ IsSequence(u \o one) /\ Len(u \o one) = Len(u) + Len(one)
        /\ \A i \in 1 .. Len(u) : (u \o one)[i] = u[i]
        /\ \A i \in 1 .. Len(one) : (u \o one)[Len(u) + i] = one[i]
    <3>1. IsSequence(u) /\ IsSequence(one)
      BY <1>1, <1>3
    <3> QED
      BY <3>1, ConcatFacts
  <2>2. 1 \in 1 .. Len(one)
    BY <1>3
  <2> QED
    BY <1>1, <1>3, <2>1, <2>2
<1>5. ASSUME NEW i \in 1 .. n + 1 PROVE (u \o one)[i] = t[i]
  <2>1. CASE i \in 1 .. n
    BY <1>1, <1>4, <2>1
  <2>2. CASE i = n + 1
    <3>1. (u \o one)[n + 1] = v
      BY <1>3, <1>4
    <3> QED
      BY <1>2, <2>2, <3>1
  <2>3. i \in 1 .. n \/ i = n + 1
    OBVIOUS
  <2> QED
    BY <2>1, <2>2, <2>3
<1>6. t = u \o one
  BY <1>4, <1>5, SameSequence
<1> QED
  BY <1>1, <1>2, <1>6

LEMMA FlattenConcat ==
    ASSUME NEW ss, IsNested(ss), NEW tt, IsNested(tt)
    PROVE  FlattenSeq(ss \o tt) = FlattenSeq(ss) \o FlattenSeq(tt)
<1> DEFINE Right(t) == FlattenSeq(ss \o t) = FlattenSeq(ss) \o FlattenSeq(t)
           Bad == {n \in Nat : \E t : IsNested(t) /\ Len(t) = n /\ ~Right(t)}
<1>1. Bad = {}
  <2> SUFFICES ASSUME Bad # {} PROVE FALSE
    OBVIOUS
  <2>1. PICK n \in Bad : \A k \in Bad : n <= k
    BY LeastMember
  <2>2. PICK t : IsNested(t) /\ Len(t) = n /\ ~Right(t)
    BY <2>1
  <2>3. n \in Nat /\ IsSequence(ss) /\ IsSequence(FlattenSeq(ss)) /\ IsSequence(t)
    BY <2>1, <2>2, NestedFacts
  <2>4. CASE n = 0
    <3>1. t = <<>>
      BY <2>2, <2>3, <2>4, EmptyOnly
    <3>2. ss \o t = ss /\ FlattenSeq(t) = <<>>
      BY <2>3, <3>1, ConcatEmpty, FlattenOne
    <3>3. Right(t)
      BY <2>3, <3>2, ConcatEmpty
    <3> QED
      BY <2>2, <3>3
  <2>5. CASE n # 0
    <3>1. n - 1 \in Nat /\ n - 1 \notin Bad /\ (n - 1) + 1 = n
      BY <2>1, <2>3, <2>5
    <3>2. PICK v, m : v = t[n] /\ m = n - 1
      OBVIOUS
    <3>3. PICK u : /\ IsSequence(u) /\ Len(u) = n - 1
                   /\ \A i \in 1 .. n - 1 : u[i] = t[i]
                   /\ t = u \o <<v>>
      <4>1. m \in Nat /\ m + 1 = n /\ Len(t) = m + 1
        BY <2>2, <3>1, <3>2
      <4>2. \E u : /\ IsSequence(u) /\ Len(u) = m
                   /\ \A i \in 1 .. m : u[i] = t[i]
                   /\ t = u \o <<t[m + 1]>>
        BY <2>3, <4>1, FrontAndLast
      <4> QED
        BY <3>2, <4>1, <4>2
    <3>4. \A i \in 1 .. n : IsSequence(t[i])
      BY <2>2 DEF IsNested
    <3>5. IsNested(u) /\ IsSequence(v)
      <4>1. n \in 1 .. n /\ \A i \in 1 .. n - 1 : i \in 1 .. n
        BY <2>3, <2>5
      <4> QED
        BY <3>2, <3>3, <3>4, <4>1 DEF IsNested
    <3>6. Right(u)
      BY <3>1, <3>3, <3>5
    <3>7. IsSequence(FlattenSeq(u)) /\ IsSequence(<<v>>) /\ IsSequence(u) /\ IsNested(ss \o u)
      BY <3>5, NestedFacts, NestedConcat, SingleSequence
    <3>8. FlattenSeq(t) = FlattenSeq(u) \o v
      BY <3>3, <3>5, FlattenMore
    <3>9. ss \o t = (ss \o u) \o <<v>>
      BY <2>3, <3>3, <3>7, ConcatAssociative
    <3>10. FlattenSeq(ss \o t) = FlattenSeq(ss \o u) \o v
      BY <3>5, <3>7, <3>9, FlattenMore
    <3>11. (FlattenSeq(ss) \o FlattenSeq(u)) \o v = FlattenSeq(ss) \o (FlattenSeq(u) \o v)
      BY <2>3, <3>5, <3>7, ConcatAssociative
    <3>12. Right(t)
      BY <3>6, <3>8, <3>10, <3>11
    <3> QED
      BY <2>2, <3>12
  <2> QED
    BY <2>4, <2>5
<1>2. Len(tt) \in Nat
  BY NestedFacts
<1> QED
  BY <1>1, <1>2

-----------------------------------------------------------------------------
(* Tokens.  In a text without spaces around relations every item that is    *)
(* not a space is a token.                                                  *)

TokenOf(item) == IF item.kind = "space" THEN <<>> ELSE <<item>>

Stripped(text) == FlattenSeq([i \in DOMAIN text |-> TokenOf(text[i])])

IsItems(text) == IsSequence(text) /\ \A i \in 1 .. Len(text) : text[i] = Item(text[i].kind, text[i].text)



IsPart(item) == item.kind \in {"word", "number"}

\* No two words, or numbers, stand side by side, and relations are behind one.
Regular(text) ==
    /\ IsItems(text)
    /\ \A i \in 1 .. Len(text) : text[i].kind \in {"word", "number", "string", "relation", "space"}
    /\ \A i \in 1 .. Len(text) :
          /\ text[i].kind = "relation" => i > 1 /\ IsPart(text[i - 1])
          /\ i > 1 /\ IsPart(text[i]) => ~IsPart(text[i - 1])

LEMMA TokensAreItems ==
    ASSUME NEW text, Regular(text)
    PROVE  Tokens(text) = Stripped(text)
<1>1. IsSequence(text) /\ Len(text) \in Nat /\ DOMAIN text = 1 .. Len(text)
  BY SequenceFacts DEF Regular, IsItems
<1>2. ASSUME NEW i \in 1 .. Len(text) PROVE PushedAt(text, i) = TokenOf(text[i])
  <2>1. CASE IsPart(text[i])
    <3>1. InToken(text, i)
      BY <1>1, <2>1 DEF InToken, IsPart
    <3>2. ~InToken(text, i + 1) /\ ~InToken(text, i - 1)
      BY <1>1, <2>1 DEF InToken, IsPart, Regular
    <3>3. PushedAt(text, i) = <<TokenTo(text, i)>>
      BY <2>1, <3>1, <3>2 DEF PushedAt, IsPart
    <3> DEFINE First(j) == (\A k \in j .. i : InToken(text, k)) /\ ~InToken(text, j - 1)
    <3>4. i \in 1 .. i /\ First(i)
      BY <1>1, <3>1, <3>2
    <3>5. \A j \in 1 .. i : First(j) => j = i
      <4> SUFFICES ASSUME NEW j \in 1 .. i, First(j), j # i PROVE FALSE
        OBVIOUS
      <4>1. i - 1 \in j .. i
        BY <1>1
      <4> QED
        BY <3>2, <4>1
    <3>6. (CHOOSE j \in 1 .. i : First(j)) = i
      BY <3>4, <3>5
    <3>7. TokenTo(text, i) =
             Item(text[i].kind, FlattenSeq([k \in 1 .. i - i + 1 |-> text[i + k - 1].text]))
      <4> DEFINE From(first) ==
                    Item(text[first].kind,
                         FlattenSeq([k \in 1 .. i - first + 1 |-> text[first + k - 1].text]))
      <4>1. TokenTo(text, i) = From(CHOOSE j \in 1 .. i : First(j))
        BY DEF TokenTo
      <4>2. TokenTo(text, i) = From(i)
        <5> HIDE DEF From, First
        <5> QED
          BY <3>6, <4>1
      <4> QED
        BY <4>2
    <3>8. [k \in 1 .. i - i + 1 |-> text[i + k - 1].text] = <<text[i].text>>
      <4> DEFINE one == [k \in 1 .. i - i + 1 |-> text[i + k - 1].text]
      <4>1. i - i + 1 = 1 /\ i + 1 - 1 = i
        BY <1>1
      <4>2. one = [k \in 1 .. 1 |-> text[i + k - 1].text]
        BY <4>1
      <4>3. Len(one) = 1 /\ one[1] = text[i].text /\ IsSequence(one)
        BY <4>1, <4>2 DEF IsSequence
      <4> HIDE DEF one
      <4>4. PICK two : two = <<text[i].text>>
        OBVIOUS
      <4>5. IsSequence(two) /\ Len(two) = 1 /\ two[1] = text[i].text
        BY <4>4, SingleSequence
      <4>6. one = two
        BY <4>3, <4>5, SameSequence
      <4> QED
        BY <4>4, <4>6 DEF one
    <3>9. TokenTo(text, i) = Item(text[i].kind, text[i].text)
      BY <3>7, <3>8, FlattenOne
    <3> QED
      BY <2>1, <3>3, <3>9 DEF TokenOf, IsPart, Regular, IsItems
  <2>2. CASE ~IsPart(text[i])
    <3>1. ~InToken(text, i)
      BY <2>2 DEF InToken, IsPart
    <3>2. text[i].kind \in {"string", "relation", "space"}
      BY <2>2 DEF IsPart, Regular
    <3>3. text[i].kind = "relation" => InToken(text, i - 1)
      BY <1>1 DEF Regular, InToken, IsPart
    <3> QED
      BY <3>1, <3>2, <3>3 DEF PushedAt, TokenOf
  <2> QED
    BY <2>1, <2>2
<1>3. [i \in DOMAIN text |-> PushedAt(text, i)] = [i \in DOMAIN text |-> TokenOf(text[i])]
  BY <1>1, <1>2
<1> QED
  BY <1>3 DEF Tokens, Stripped

\* The tokens of two texts one after the other, and of one item.
LEMMA StrippedConcat ==
    ASSUME NEW s, NEW t, IsSequence(s), IsSequence(t)
    PROVE  Stripped(s \o t) = Stripped(s) \o Stripped(t) /\ IsSequence(Stripped(s))
<1> DEFINE Map(u) == [i \in DOMAIN u |-> TokenOf(u[i])]
<1>1. ASSUME NEW u, IsSequence(u)
      PROVE  /\ IsNested(Map(u)) /\ Len(Map(u)) = Len(u)
             /\ \A i \in 1 .. Len(u) : Map(u)[i] = TokenOf(u[i])
  <2>1. PICK m : m = Map(u)
    OBVIOUS
  <2>2. DOMAIN u = 1 .. Len(u)
    BY <1>1, SequenceFacts
  <2>3. \A i \in 1 .. Len(u) : m[i] = TokenOf(u[i])
    BY <2>1, <2>2
  <2>4. IsSequence(m) /\ Len(m) = Len(u)
    <3>1. m = [i \in DOMAIN u |-> m[i]]
      BY <2>1
    <3> QED
      BY <1>1, <3>1, MappedSequence
  <2>5. \A i \in 1 .. Len(u) : IsSequence(TokenOf(u[i]))
    BY SingleSequence, EmptySequence DEF TokenOf
  <2> QED
    BY <2>1, <2>3, <2>4, <2>5 DEF IsNested
<1>2. /\ IsSequence(s \o t) /\ Len(s \o t) = Len(s) + Len(t)
      /\ \A i \in 1 .. Len(s) : (s \o t)[i] = s[i]
      /\ \A i \in 1 .. Len(t) : (s \o t)[Len(s) + i] = t[i]
  BY ConcatFacts
<1>3. \A u : Stripped(u) = FlattenSeq(Map(u))
  BY DEF Stripped
<1> HIDE DEF Map
<1>4. PICK a, b, c : a = Map(s) /\ b = Map(t) /\ c = Map(s \o t)
  OBVIOUS
<1>5. IsNested(a) /\ IsNested(b) /\ IsNested(c) /\ Len(s) \in Nat /\ Len(t) \in Nat
  BY <1>1, <1>2, <1>4, SequenceFacts
<1>6. IsSequence(a) /\ IsSequence(b) /\ IsSequence(c) /\ Len(a) = Len(s) /\ Len(b) = Len(t) /\ Len(c) = Len(s) + Len(t)
  BY <1>1, <1>2, <1>4, <1>5 DEF IsNested
<1>7. /\ IsSequence(a \o b) /\ Len(a \o b) = Len(a) + Len(b)
      /\ \A i \in 1 .. Len(a) : (a \o b)[i] = a[i]
      /\ \A i \in 1 .. Len(b) : (a \o b)[Len(a) + i] = b[i]
  BY <1>6, ConcatFacts
<1>8. ASSUME NEW i \in 1 .. Len(c) PROVE c[i] = (a \o b)[i]
  <2>0. c[i] = TokenOf((s \o t)[i])
    BY <1>1, <1>2, <1>4, <1>6
  <2>1. CASE i \in 1 .. Len(s)
    <3>1. c[i] = TokenOf(s[i]) /\ a[i] = TokenOf(s[i])
      BY <1>1, <1>2, <1>4, <2>0, <2>1
    <3> QED
      BY <1>6, <1>7, <2>1, <3>1
  <2>2. CASE i \notin 1 .. Len(s)
    <3>1. PICK k : k = i - Len(s)
      OBVIOUS
    <3>2. k \in 1 .. Len(t) /\ i = Len(s) + k
      BY <1>5, <1>6, <2>2, <3>1
    <3>3. (s \o t)[i] = t[k] /\ b[k] = TokenOf(t[k]) /\ (a \o b)[i] = b[k]
      BY <1>1, <1>2, <1>4, <1>6, <1>7, <3>2
    <3> QED
      BY <2>0, <3>3
  <2> QED
    BY <2>1, <2>2
<1>9. c = a \o b
  BY <1>6, <1>7, <1>8, SameSequence
<1>10. FlattenSeq(c) = FlattenSeq(a) \o FlattenSeq(b) /\ IsSequence(FlattenSeq(a))
  BY <1>5, <1>9, FlattenConcat, NestedFacts
<1> QED
  BY <1>3, <1>4, <1>10

LEMMA StrippedOne ==
    ASSUME NEW item
    PROVE  Stripped(<<item>>) = TokenOf(item)
<1>1. PICK one : one = <<item>>
  OBVIOUS
<1>2. IsSequence(one) /\ Len(one) = 1 /\ one[1] = item /\ DOMAIN one = 1 .. 1
  BY <1>1, SingleSequence, SequenceFacts
<1>3. PICK m : m = [i \in DOMAIN one |-> TokenOf(one[i])]
  OBVIOUS
<1>4. m = [i \in DOMAIN one |-> m[i]] /\ m[1] = TokenOf(item)
  BY <1>2, <1>3
<1>5. IsSequence(m) /\ Len(m) = 1
  BY <1>2, <1>4, MappedSequence
<1>6. PICK two : two = <<TokenOf(item)>>
  OBVIOUS
<1>7. IsSequence(two) /\ Len(two) = 1 /\ two[1] = TokenOf(item)
  BY <1>6, SingleSequence
<1>8. m = two
  BY <1>4, <1>5, <1>7, SameSequence
<1>9. FlattenSeq(m) = TokenOf(item)
  BY <1>6, <1>8, FlattenOne
<1> QED
  BY <1>1, <1>3, <1>9 DEF Stripped

\* Texts one after the other, with a space between them.
LEMMA RegularConcat ==
    ASSUME NEW s, NEW t, Regular(s), Regular(t),
           \/ Len(t) > 0 /\ t[1].kind = "space"
           \/ Len(s) > 0 /\ s[Len(s)].kind = "space"
    PROVE  Regular(s \o t)
<1>1. IsSequence(s) /\ IsSequence(t) /\ Len(s) \in Nat /\ Len(t) \in Nat
  BY SequenceFacts DEF Regular, IsItems
<1>2. PICK u : u = s \o t
  OBVIOUS
<1>3. /\ IsSequence(u) /\ Len(u) = Len(s) + Len(t)
      /\ \A i \in 1 .. Len(s) : u[i] = s[i]
      /\ \A i \in 1 .. Len(t) : u[Len(s) + i] = t[i]
  BY <1>1, <1>2, ConcatFacts
<1>4. PICK a, b : a = Len(s) /\ b = Len(t)
  OBVIOUS
<1>5. /\ a \in Nat /\ b \in Nat /\ Len(u) = a + b
      /\ \A i \in 1 .. a : u[i] = s[i]
      /\ \A i \in a + 1 .. a + b : i - a \in 1 .. b /\ u[i] = t[i - a]
  <2>1. \A i \in a + 1 .. a + b : i - a \in 1 .. b /\ i = a + (i - a)
    BY <1>1, <1>4
  <2>2. \A i \in a + 1 .. a + b : u[i] = t[i - a]
    BY <1>3, <1>4, <2>1
  <2> QED
    BY <1>1, <1>3, <1>4, <2>1, <2>2
<1> DEFINE Good(i, w) ==
             /\ w[i] = Item(w[i].kind, w[i].text)
             /\ w[i].kind \in {"word", "number", "string", "relation", "space"}
             /\ w[i].kind = "relation" => i > 1 /\ IsPart(w[i - 1])
             /\ i > 1 /\ IsPart(w[i]) => ~IsPart(w[i - 1])
<1>6. (\A i \in 1 .. a : Good(i, s)) /\ (\A i \in 1 .. b : Good(i, t))
  BY <1>4 DEF Regular, IsItems
<1>7. ASSUME NEW i \in 1 .. a + b PROVE Good(i, u)
  <2>1. CASE i \in 1 .. a
    <3>1. u[i] = s[i] /\ (i > 1 => u[i - 1] = s[i - 1])
      BY <1>5, <2>1
    <3> QED
      BY <1>6, <2>1, <3>1
  <2>2. CASE i \in a + 2 .. a + b
    <3>1. PICK k : k = i - a
      OBVIOUS
    <3>2. k \in 1 .. b /\ k > 1 /\ i > 1 /\ i - 1 \in a + 1 .. a + b /\ (i - 1) - a = k - 1
      BY <1>5, <2>2, <3>1
    <3>3. u[i] = t[k] /\ u[i - 1] = t[k - 1]
      BY <1>5, <2>2, <3>1, <3>2
    <3> QED
      BY <1>6, <3>2, <3>3
  <2>3. CASE i = a + 1
    <3>1. b > 0 /\ 1 \in 1 .. b /\ u[i] = t[1] /\ i \in a + 1 .. a + b /\ i - a = 1
      BY <1>5, <2>3
    <3>2. Good(1, t)
      BY <1>6, <3>1
    <3>3. t[1].kind # "relation"
      BY <3>2
    <3>4. i > 1 => a \in 1 .. a /\ i - 1 = a /\ u[i - 1] = s[a]
      BY <1>5, <2>3
    <3>5. i > 1 /\ IsPart(u[i]) => ~IsPart(u[i - 1])
      BY <1>4, <2>3, <3>1, <3>4 DEF IsPart
    <3> QED
      BY <3>1, <3>2, <3>3, <3>5
  <2> QED
    BY <1>5, <2>1, <2>2, <2>3
<1> QED
  BY <1>2, <1>3, <1>5, <1>7 DEF Regular, IsItems

\* Tokens put together with a word between them: B[j] is what the first j give.
Spells(B, n, word, parts) ==
    /\ B[1] = parts[1]
    /\ \A j \in 2 .. n : B[j] = B[j - 1] \o (<<Word(word)>> \o parts[j])
    /\ \A j \in 1 .. n : IsSequence(B[j])

Separator(word) == <<Space, Word(word), Space>>

Separates(s, word) ==
    /\ Regular(s) /\ IsSequence(s) /\ Len(s) = 3
    /\ s[1].kind = "space" /\ s[Len(s)].kind = "space"
    /\ Stripped(s) = <<Word(word)>>

LEMMA SeparatorFacts ==
    ASSUME NEW word
    PROVE  Separates(Separator(word), word)
<1> DEFINE w == Word(word)
<1>1. PICK s : s = <<Space, w, Space>>
  OBVIOUS
<1>2. Len(s) = 3 /\ s[1] = Space /\ s[2] = w /\ s[3] = Space /\ DOMAIN s = 1 .. 3
  BY <1>1
<1>3. IsSequence(s)
  BY <1>1 DEF IsSequence
<1>4. Space.kind = "space" /\ w.kind = "word" /\ Space = Item(Space.kind, Space.text) /\ w = Item(w.kind, w.text)
  BY DEF Space, Word, Item
<1> HIDE DEF w
<1>5. Regular(s)
  BY <1>2, <1>3, <1>4 DEF Regular, IsItems, IsPart
<1>6. Stripped(s) = <<w>>
  <2>1. PICK x, y : x = <<Space>> /\ y = <<w>>
    OBVIOUS
  <2>2. IsSequence(x) /\ IsSequence(y) /\ IsSequence(x \o y)
    BY <2>1, SingleSequence, ConcatFacts
  <2>3. s = (x \o y) \o x
    BY <1>1, <2>1
  <2>4. Stripped(s) = (Stripped(x) \o Stripped(y)) \o Stripped(x)
    <3>1. PICK z : z = x \o y
      OBVIOUS
    <3>2. Stripped(z) = Stripped(x) \o Stripped(y)
      BY <2>2, <3>1, StrippedConcat
    <3>3. Stripped(z \o x) = Stripped(z) \o Stripped(x)
      BY <2>2, <3>1, StrippedConcat
    <3> QED
      BY <2>3, <3>1, <3>2, <3>3
  <2>5. Stripped(x) = <<>> /\ Stripped(y) = <<w>>
    BY <1>4, <2>1, StrippedOne DEF TokenOf
  <2> QED
    BY <2>1, <2>2, <2>4, <2>5, ConcatEmpty
<1> QED
  BY <1>1, <1>2, <1>3, <1>4, <1>5, <1>6 DEF Separator, Separates, w

LEMMA SpellWithTokens ==
    ASSUME NEW word, NEW texts, IsNested(texts), NEW n \in Nat, n >= 1, Len(texts) = n,
           \A i \in 1 .. n : Regular(texts[i])
    PROVE  /\ Regular(SpellWith(word, texts))
           /\ \E B : /\ Spells(B, n, word, [j \in 1 .. n |-> Stripped(texts[j])])
                     /\ Stripped(SpellWith(word, texts)) = B[n]
<1> DEFINE sep == Separator(word)
           part(i) == IF i = 1 THEN texts[i] ELSE sep \o texts[i]
           parts == [i \in 1 .. n |-> part(i)]
<1>1. IsSequence(texts) /\ DOMAIN texts = 1 .. n /\ \A i \in 1 .. n : IsSequence(texts[i])
  BY SequenceFacts DEF IsNested
<1>2. SpellWith(word, texts) = FlattenSeq(parts)
  BY <1>1 DEF SpellWith, Separator
<1>3. Separates(sep, word)
  BY SeparatorFacts
<1> HIDE DEF sep
<1>4. 1 \in 1 .. n /\ parts[1] = texts[1]
      /\ \A i \in 2 .. n : i \in 1 .. n /\ parts[i] = sep \o texts[i]
  OBVIOUS
<1>5. IsSequence(parts) /\ Len(parts) = n /\ parts # <<>>
  <2>1. PICK p : p = parts
    OBVIOUS
  <2>2. p = [i \in DOMAIN texts |-> p[i]]
    BY <1>1, <2>1
  <2>3. IsSequence(p) /\ Len(p) = n
    BY <1>1, <2>2, MappedSequence
  <2>4. p # <<>>
    BY <2>3, EmptySequence
  <2> QED
    BY <2>1, <2>3, <2>4
<1> HIDE DEF parts
<1>6. PICK f : Flattens(f, n, parts) /\ FlattenSeq(parts) = f[n]
  BY <1>5, FlattenIs
<1>7. \A i \in 1 .. n : f[i] = IF i = 1 THEN parts[i] ELSE f[i - 1] \o parts[i]
  BY <1>6 DEF Flattens
<1>8. ASSUME NEW i \in 2 .. n
      PROVE  /\ Regular(parts[i]) /\ Len(parts[i]) > 0 /\ parts[i][1].kind = "space"
             /\ Stripped(parts[i]) = <<Word(word)>> \o Stripped(texts[i])
  <2>1. parts[i] = sep \o texts[i] /\ Regular(texts[i]) /\ IsSequence(texts[i])
    BY <1>1, <1>4
  <2>2. PICK t : t = texts[i]
    OBVIOUS
  <2>3. IsSequence(sep) /\ IsSequence(t) /\ Len(t) \in Nat /\ Regular(t) /\ Len(sep) = 3
    BY <1>3, <2>1, <2>2, SequenceFacts DEF Separates
  <2>4. Len(sep \o t) = Len(sep) + Len(t) /\ \A k \in 1 .. Len(sep) : (sep \o t)[k] = sep[k]
    BY <2>3, ConcatFacts
  <2>5. Regular(sep \o t)
    <3>1. Regular(sep) /\ Len(sep) > 0 /\ sep[Len(sep)].kind = "space"
      BY <1>3 DEF Separates
    <3> QED
      BY <2>3, <3>1, RegularConcat
  <2>6. Stripped(sep \o t) = Stripped(sep) \o Stripped(t)
    BY <2>3, StrippedConcat
  <2>7. (sep \o t)[1].kind = "space"
    <3>1. 1 \in 1 .. Len(sep)
      BY <2>3
    <3> QED
      BY <1>3, <2>4, <3>1 DEF Separates
  <2>8. Len(sep \o t) > 0 /\ Stripped(sep) = <<Word(word)>>
    BY <1>3, <2>3, <2>4 DEF Separates
  <2> QED
    BY <2>1, <2>2, <2>5, <2>6, <2>7, <2>8
<1>9. f[1] = texts[1] /\ \A i \in 2 .. n : f[i] = f[i - 1] \o parts[i]
  <2>1. f[1] = parts[1]
    BY <1>4, <1>7
  <2>2. \A i \in 2 .. n : i \in 1 .. n /\ i # 1
    OBVIOUS
  <2> QED
    BY <1>4, <1>7, <2>1, <2>2
<1> DEFINE Bad == {i \in 1 .. n : ~Regular(f[i])}
<1>10. Bad = {}
  <2> SUFFICES ASSUME Bad # {} PROVE FALSE
    OBVIOUS
  <2>1. Bad \subseteq Nat
    OBVIOUS
  <2>2. PICK i \in Bad : \A k \in Bad : i <= k
    BY <2>1, LeastMember
  <2>3. i \in 1 .. n /\ ~Regular(f[i])
    BY <2>2
  <2>4. i # 1
    BY <1>9, <2>3
  <2>5. i \in 2 .. n /\ i - 1 \in 1 .. n /\ i - 1 \notin Bad
    BY <2>2, <2>3, <2>4
  <2>6. Regular(f[i - 1])
    BY <2>5
  <2>7. Regular(f[i - 1] \o parts[i])
    BY <1>8, <2>5, <2>6, RegularConcat
  <2> QED
    BY <1>9, <2>3, <2>5, <2>7
<1>11. \A i \in 1 .. n : Regular(f[i])
  BY <1>10
<1> HIDE DEF Bad
<1> DEFINE B == [j \in 1 .. n |-> Stripped(f[j])]
           strips == [j \in 1 .. n |-> Stripped(texts[j])]
<1>12. Spells(B, n, word, strips)
  <2>1. B[1] = strips[1]
    BY <1>9
  <2>2. ASSUME NEW j \in 2 .. n PROVE B[j] = B[j - 1] \o (<<Word(word)>> \o strips[j])
    <3>1. j \in 1 .. n /\ j - 1 \in 1 .. n
      OBVIOUS
    <3>2. IsSequence(f[j - 1]) /\ IsSequence(parts[j])
      BY <1>8, <1>11, <3>1 DEF Regular, IsItems
    <3>3. Stripped(f[j - 1] \o parts[j]) = Stripped(f[j - 1]) \o Stripped(parts[j])
      BY <3>2, StrippedConcat
    <3>4. B[j] = Stripped(f[j]) /\ B[j - 1] = Stripped(f[j - 1]) /\ strips[j] = Stripped(texts[j])
      BY <3>1
    <3> QED
      BY <1>8, <1>9, <3>3, <3>4
  <2>3. ASSUME NEW j \in 1 .. n PROVE IsSequence(B[j])
    <3>1. IsSequence(f[j])
      BY <1>11 DEF Regular, IsItems
    <3> QED
      BY <3>1, StrippedConcat
  <2> HIDE DEF B, strips
  <2> QED
    BY <2>1, <2>2, <2>3 DEF Spells
<1>13. B[n] = Stripped(FlattenSeq(parts)) /\ Regular(FlattenSeq(parts))
  BY <1>6, <1>11
<1> HIDE DEF B
<1> QED
  BY <1>2, <1>12, <1>13

-----------------------------------------------------------------------------
(* The parser.  What its functions return on the first n tokens is given by *)
(* what they return on fewer.                                               *)

\* Every test takes a token.
LEMMA ParseTestTakes ==
    ASSUME NEW t, NEW n \in Nat
    PROVE  LET p == ParseTest(t, n) IN p.left \in 0 .. n /\ (n > 0 => p.left < n)
<1>1. CASE n = 0
  BY <1>1 DEF ParseTest, Parsed
<1>2. CASE n # 0
  BY <1>2 DEF ParseTest, Parsed, Crashed
<1> QED
  BY <1>1, <1>2

AndAt(t, f, n) ==
    LET test == ParseTest(t, n)
    IN  IF Stops(test) THEN test
        ELSE IF t[test.left] = Word("and") THEN Joined("and", f[test.left - 1], test.tree)
        ELSE Parsed(test.tree, test.left - 1)

ParsesAnd(f, t, m) == f = [n \in 0 .. m |-> AndAt(t, f, n)]

\* Only what is parsed of fewer tokens is looked at.
LEMMA AndLooksBefore ==
    ASSUME NEW t, NEW n \in Nat, NEW f, NEW g, \A k \in 0 .. n - 1 : f[k] = g[k]
    PROVE  AndAt(t, f, n) = AndAt(t, g, n)
<1>1. PICK test : test = ParseTest(t, n)
  OBVIOUS
<1>2. test.left \in 0 .. n /\ (n > 0 => test.left < n)
  BY <1>1, ParseTestTakes
<1>3. CASE Stops(test)
  BY <1>1, <1>3 DEF AndAt
<1>4. CASE ~Stops(test)
  <2>1. test.left # 0
    BY <1>4 DEF Stops
  <2>2. test.left - 1 \in 0 .. n - 1
    BY <1>2, <2>1
  <2>3. f[test.left - 1] = g[test.left - 1]
    BY <2>2
  <2> QED
    BY <1>1, <2>3 DEF AndAt
<1> QED
  BY <1>3, <1>4

LEMMA AndExists ==
    ASSUME NEW t, NEW m \in Nat
    PROVE  \E f : ParsesAnd(f, t, m)
<1> DEFINE Bad == {n \in Nat : ~\E f : ParsesAnd(f, t, n)}
<1> SUFFICES ASSUME Bad # {} PROVE FALSE
  OBVIOUS
<1>1. PICK n \in Bad : \A l \in Bad : n <= l
  BY LeastMember
<1>2. n \in Nat /\ ~\E f : ParsesAnd(f, t, n)
  OBVIOUS
<1> DEFINE Next1(f) == [i \in 0 .. n |-> IF i < n THEN f[i] ELSE AndAt(t, f, n)]
<1>3. ASSUME NEW f, n > 0 => ParsesAnd(f, t, n - 1)
      PROVE  ParsesAnd(Next1(f), t, n)
  <2>1. PICK g : g = Next1(f)
    OBVIOUS
  <2>2. /\ g = [i \in 0 .. n |-> g[i]]
        /\ \A i \in 0 .. n : g[i] = IF i < n THEN f[i] ELSE AndAt(t, f, n)
    BY <2>1
  <2>3. \A k \in 0 .. n - 1 : g[k] = f[k]
    BY <1>2, <2>2
  <2>4. ASSUME NEW i \in 0 .. n PROVE g[i] = AndAt(t, g, i)
    <3>1. i \in Nat /\ \A k \in 0 .. i - 1 : f[k] = g[k]
      BY <1>2, <2>3
    <3>2. AndAt(t, f, i) = AndAt(t, g, i)
      BY <3>1, AndLooksBefore
    <3>3. CASE i = n
      BY <2>2, <3>2, <3>3
    <3>4. CASE i # n
      <4>1. i \in 0 .. n - 1 /\ n > 0
        BY <1>2, <3>4
      <4>2. f[i] = AndAt(t, f, i)
        BY <1>3, <4>1 DEF ParsesAnd
      <4> QED
        BY <2>3, <3>2, <4>1, <4>2
    <3> QED
      BY <3>3, <3>4
  <2>5. ParsesAnd(g, t, n)
    BY <2>2, <2>4 DEF ParsesAnd
  <2> QED
    BY <2>1, <2>5
<1>4. CASE n = 0
  <2>1. ParsesAnd(Next1(t), t, n)
    BY <1>3, <1>4
  <2> HIDE DEF Next1
  <2> QED
    BY <1>2, <2>1
<1>5. CASE n # 0
  <2>1. n - 1 \in Nat /\ n - 1 \notin Bad
    BY <1>1, <1>2, <1>5
  <2>2. PICK f : ParsesAnd(f, t, n - 1)
    BY <2>1
  <2>3. \E g : ParsesAnd(g, t, n)
    BY <1>3, <2>2
  <2> QED
    BY <1>2, <2>3
<1> QED
  BY <1>4, <1>5

LEMMA AndParses ==
    ASSUME NEW t, IsSequence(t)
    PROVE  \A n \in 0 .. Len(t) : ParseAnd(t)[n] = AndAt(t, ParseAnd(t), n)
<1> DEFINE F == CHOOSE f : f = [n \in 0 .. Len(t) |->
                    LET test == ParseTest(t, n)
                    IN  IF Stops(test) THEN test
                        ELSE IF t[test.left] = Word("and")
                        THEN Joined("and", f[test.left - 1], test.tree)
                        ELSE Parsed(test.tree, test.left - 1)]
<1>1. ParseAnd(t) = F
  BY DEF ParseAnd
<1>2. \E f : f = [n \in 0 .. Len(t) |->
                    LET test == ParseTest(t, n)
                    IN  IF Stops(test) THEN test
                        ELSE IF t[test.left] = Word("and")
                        THEN Joined("and", f[test.left - 1], test.tree)
                        ELSE Parsed(test.tree, test.left - 1)]
  BY SequenceFacts, AndExists DEF ParsesAnd, AndAt
<1>3. ParsesAnd(F, t, Len(t))
  BY <1>2 DEF ParsesAnd, AndAt
<1> HIDE DEF F
<1> QED
  BY <1>1, <1>3 DEF ParsesAnd

\* What is left over is less than there was.
LEMMA AndLeft ==
    ASSUME NEW t, IsSequence(t)
    PROVE  \A n \in 0 .. Len(t) : ParseAnd(t)[n].left \in 0 .. n
<1> DEFINE P == ParseAnd(t)
           Bad == {n \in 0 .. Len(t) : P[n].left \notin 0 .. n}
<1>1. \A n \in 0 .. Len(t) : P[n] = AndAt(t, P, n)
  BY AndParses
<1> HIDE DEF P
<1>2. Bad = {}
  <2> SUFFICES ASSUME Bad # {} PROVE FALSE
    OBVIOUS
  <2>1. Bad \subseteq Nat
    OBVIOUS
  <2>2. PICK n \in Bad : \A l \in Bad : n <= l
    BY <2>1, LeastMember
  <2>3. n \in 0 .. Len(t) /\ n \in Nat /\ Len(t) \in Nat /\ P[n].left \notin 0 .. n
    BY <2>2, SequenceFacts
  <2>4. PICK test : test = ParseTest(t, n)
    OBVIOUS
  <2>5. test.left \in 0 .. n /\ (n > 0 => test.left < n)
    BY <2>3, <2>4, ParseTestTakes
  <2>6. P[n] = AndAt(t, P, n)
    BY <1>1, <2>3
  <2>7. CASE Stops(test)
    BY <2>3, <2>4, <2>5, <2>6, <2>7 DEF AndAt
  <2>8. CASE ~Stops(test)
    <3>1. test.left # 0
      BY <2>8 DEF Stops
    <3>2. PICK k : k = test.left - 1
      OBVIOUS
    <3>3. k \in 0 .. Len(t) /\ k < n /\ k \in 0 .. n /\ k \notin Bad /\ k \in Nat
      BY <2>2, <2>3, <2>5, <3>1, <3>2
    <3>4. P[k].left \in 0 .. k
      BY <3>3
    <3>5. CASE t[test.left] = Word("and")
      <4>1. P[n] = Joined("and", P[k], test.tree)
        BY <2>4, <2>6, <2>8, <3>2, <3>5 DEF AndAt
      <4>2. P[n].left \in {0, P[k].left}
        BY <4>1 DEF Joined, Crashed, Parsed
      <4> QED
        BY <2>3, <3>3, <3>4, <4>2
    <3>6. CASE t[test.left] # Word("and")
      <4>1. P[n] = Parsed(test.tree, k)
        BY <2>4, <2>6, <2>8, <3>2, <3>6 DEF AndAt
      <4>2. P[n].left = k
        BY <4>1 DEF Parsed
      <4> QED
        BY <2>3, <3>3, <4>2
    <3> QED
      BY <3>5, <3>6
  <2> QED
    BY <2>7, <2>8
<1> QED
  BY <1>2 DEF P

OrAt(t, f, n) ==
    LET test == ParseTest(t, n)
        conjunction == Joined("and", ParseAnd(t)[test.left - 1], test.tree)
    IN  IF Stops(test) THEN test
        ELSE IF t[test.left] = Word("or") THEN Joined("or", f[test.left - 1], test.tree)
        ELSE IF t[test.left] # Word("and") THEN Parsed(NoTree, test.left - 1)
        ELSE IF Stops(conjunction) THEN conjunction
        ELSE IF t[conjunction.left] = Word("or")
        THEN Joined("or", f[conjunction.left - 1], conjunction.tree)
        ELSE Parsed(NoTree, conjunction.left - 1)

ParsesOr(f, t, m) == f = [n \in 0 .. m |-> OrAt(t, f, n)]

LEMMA OrLooksBefore ==
    ASSUME NEW t, IsSequence(t), NEW n \in 0 .. Len(t), NEW f, NEW g, \A k \in 0 .. n - 1 : f[k] = g[k]
    PROVE  OrAt(t, f, n) = OrAt(t, g, n)
<1>1. PICK test : test = ParseTest(t, n)
  OBVIOUS
<1>2. test.left \in 0 .. n /\ (n > 0 => test.left < n) /\ n \in Nat /\ Len(t) \in Nat
  BY <1>1, ParseTestTakes, SequenceFacts
<1>3. CASE Stops(test)
  BY <1>1, <1>3 DEF OrAt
<1>4. CASE ~Stops(test)
  <2>1. test.left # 0
    BY <1>4 DEF Stops
  <2>2. test.left - 1 \in 0 .. n - 1 /\ test.left - 1 \in 0 .. Len(t)
    BY <1>2, <2>1
  <2>3. f[test.left - 1] = g[test.left - 1]
    BY <2>2
  <2>4. PICK conjunction : conjunction = Joined("and", ParseAnd(t)[test.left - 1], test.tree)
    OBVIOUS
  <2>5. ~Stops(conjunction) => f[conjunction.left - 1] = g[conjunction.left - 1]
    <3> SUFFICES ASSUME ~Stops(conjunction) PROVE f[conjunction.left - 1] = g[conjunction.left - 1]
      OBVIOUS
    <3>1. conjunction.left \in {0, ParseAnd(t)[test.left - 1].left}
      BY <2>4 DEF Joined, Crashed, Parsed
    <3>2. ParseAnd(t)[test.left - 1].left \in 0 .. test.left - 1
      BY <2>2, AndLeft
    <3>3. conjunction.left # 0
      BY DEF Stops
    <3>4. conjunction.left - 1 \in 0 .. n - 1
      BY <1>2, <2>2, <3>1, <3>2, <3>3
    <3> QED
      BY <3>4
  <2> QED
    BY <1>1, <2>3, <2>4, <2>5 DEF OrAt
<1> QED
  BY <1>3, <1>4

LEMMA OrExists ==
    ASSUME NEW t, IsSequence(t)
    PROVE  \E f : ParsesOr(f, t, Len(t))
<1> DEFINE Bad == {n \in 0 .. Len(t) : ~\E f : ParsesOr(f, t, n)}
<1>0. Len(t) \in Nat
  BY SequenceFacts
<1>1. Bad = {}
  <2> SUFFICES ASSUME Bad # {} PROVE FALSE
    OBVIOUS
  <2>0. Bad \subseteq Nat
    OBVIOUS
  <2>1. PICK n \in Bad : \A l \in Bad : n <= l
    BY <2>0, LeastMember
  <2>2. n \in Nat /\ n \in 0 .. Len(t) /\ ~\E f : ParsesOr(f, t, n)
    BY <2>1
  <2> DEFINE Next1(f) == [i \in 0 .. n |-> IF i < n THEN f[i] ELSE OrAt(t, f, n)]
  <2>3. ASSUME NEW f, n > 0 => ParsesOr(f, t, n - 1)
        PROVE  ParsesOr(Next1(f), t, n)
    <3>1. PICK g : g = Next1(f)
      OBVIOUS
    <3>2. /\ g = [i \in 0 .. n |-> g[i]]
          /\ \A i \in 0 .. n : g[i] = IF i < n THEN f[i] ELSE OrAt(t, f, n)
      BY <3>1
    <3>3. \A k \in 0 .. n - 1 : g[k] = f[k]
      BY <2>2, <3>2
    <3>4. ASSUME NEW i \in 0 .. n PROVE g[i] = OrAt(t, g, i)
      <4>1. i \in 0 .. Len(t) /\ \A k \in 0 .. i - 1 : f[k] = g[k]
        BY <1>0, <2>2, <3>3
      <4>2. OrAt(t, f, i) = OrAt(t, g, i)
        BY <4>1, OrLooksBefore
      <4>3. CASE i = n
        BY <3>2, <4>2, <4>3
      <4>4. CASE i # n
        <5>1. i \in 0 .. n - 1 /\ n > 0
          BY <2>2, <4>4
        <5>2. f[i] = OrAt(t, f, i)
          BY <2>3, <5>1 DEF ParsesOr
        <5> QED
          BY <3>3, <4>2, <5>1, <5>2
      <4> QED
        BY <4>3, <4>4
    <3>5. ParsesOr(g, t, n)
      BY <3>2, <3>4 DEF ParsesOr
    <3> QED
      BY <3>1, <3>5
  <2>4. CASE n = 0
    <3>1. ParsesOr(Next1(t), t, n)
      BY <2>3, <2>4
    <3> HIDE DEF Next1
    <3> QED
      BY <2>2, <3>1
  <2>5. CASE n # 0
    <3>1. n - 1 \in 0 .. Len(t) /\ n - 1 \notin Bad
      BY <1>0, <2>1, <2>2, <2>5
    <3>2. PICK f : ParsesOr(f, t, n - 1)
      BY <3>1
    <3>3. ParsesOr(Next1(f), t, n)
      BY <2>3, <3>2
    <3> HIDE DEF Next1
    <3> QED
      BY <2>2, <3>3
  <2> QED
    BY <2>4, <2>5
<1> QED
  BY <1>0, <1>1

LEMMA OrParses ==
    ASSUME NEW t, IsSequence(t)
    PROVE  \A n \in 0 .. Len(t) : ParseOr(t)[n] = OrAt(t, ParseOr(t), n)
<1> DEFINE F == CHOOSE f : f = [n \in 0 .. Len(t) |->
                    LET test == ParseTest(t, n)
                        conjunction == Joined("and", ParseAnd(t)[test.left - 1], test.tree)
                    IN  IF Stops(test) THEN test
                        ELSE IF t[test.left] = Word("or")
                        THEN Joined("or", f[test.left - 1], test.tree)
                        ELSE IF t[test.left] # Word("and") THEN Parsed(NoTree, test.left - 1)
                        ELSE IF Stops(conjunction) THEN conjunction
                        ELSE IF t[conjunction.left] = Word("or")
                        THEN Joined("or", f[conjunction.left - 1], conjunction.tree)
                        ELSE Parsed(NoTree, conjunction.left - 1)]
<1>1. ParseOr(t) = F
  BY DEF ParseOr
<1>2. \E f : ParsesOr(f, t, Len(t))
  BY OrExists
<1>3. ParsesOr(F, t, Len(t))
  BY <1>2 DEF ParsesOr, OrAt
<1> HIDE DEF F
<1> QED
  BY <1>1, <1>3 DEF ParsesOr

-----------------------------------------------------------------------------
(* Where tokens lie: s is in t behind the first b tokens.                   *)

Lies(t, b, s) ==
    /\ b \in Nat /\ b + Len(s) <= Len(t)
    /\ \A k \in 1 .. Len(s) : t[b + k] = s[k]

LEMMA LiesConcat ==
    ASSUME NEW t, IsSequence(t), NEW b, NEW r, NEW s, IsSequence(r), IsSequence(s), Lies(t, b, r \o s)
    PROVE  Lies(t, b, r) /\ Lies(t, b + Len(r), s)
<1>1. Len(r) \in Nat /\ Len(s) \in Nat /\ Len(t) \in Nat
  BY SequenceFacts
<1>2. PICK u : u = r \o s
  OBVIOUS
<1>3. /\ Len(u) = Len(r) + Len(s)
      /\ \A i \in 1 .. Len(r) : u[i] = r[i]
      /\ \A i \in 1 .. Len(s) : u[Len(r) + i] = s[i]
  BY <1>2, ConcatFacts
<1>4. b \in Nat /\ b + Len(u) <= Len(t) /\ \A k \in 1 .. Len(u) : t[b + k] = u[k]
  BY <1>2 DEF Lies
<1>5. PICK m, n : m = Len(r) /\ n = Len(s)
  OBVIOUS
<1>6. \A k \in 1 .. m : t[b + k] = r[k]
  <2>1. \A k \in 1 .. m : k \in 1 .. m + n
    BY <1>1, <1>5
  <2> QED
    BY <1>3, <1>4, <1>5, <2>1
<1>7. \A k \in 1 .. n : t[(b + m) + k] = s[k]
  <2>1. \A k \in 1 .. n : m + k \in 1 .. m + n /\ (b + m) + k = b + (m + k)
    BY <1>1, <1>4, <1>5
  <2> QED
    BY <1>3, <1>4, <1>5, <2>1
<1> QED
  BY <1>1, <1>3, <1>4, <1>5, <1>6, <1>7 DEF Lies

\* A text that is a condition's whole lies at its beginning.
LEMMA LiesWhole ==
    ASSUME NEW t, IsSequence(t)
    PROVE  Lies(t, 0, t)
BY SequenceFacts DEF Lies

\* Of tokens put together with a word between them, what the first j give lies
\* where they do, and behind it the word and the next tokens.
LieSpelt(t, b, B, n, word, parts) ==
    /\ \A j \in 1 .. n : Lies(t, b, B[j])
    /\ \A j \in 2 .. n : /\ t[b + Len(B[j - 1]) + 1] = Word(word)
                         /\ Lies(t, b + Len(B[j - 1]) + 1, parts[j])
                         /\ Len(B[j]) = Len(B[j - 1]) + 1 + Len(parts[j])

LEMMA LiesSpelt ==
    ASSUME NEW B, NEW n \in Nat, n >= 1, NEW word, NEW parts, Spells(B, n, word, parts),
           \A j \in 1 .. n : IsSequence(parts[j]),
           NEW t, IsSequence(t), NEW b, Lies(t, b, B[n])
    PROVE  LieSpelt(t, b, B, n, word, parts)
<1>1. ASSUME NEW j \in 2 .. n, Lies(t, b, B[j])
      PROVE  /\ Lies(t, b, B[j - 1])
             /\ t[b + Len(B[j - 1]) + 1] = Word(word)
             /\ Lies(t, b + Len(B[j - 1]) + 1, parts[j])
             /\ Len(B[j]) = Len(B[j - 1]) + 1 + Len(parts[j])
  <2>1. PICK r, w, s : r = B[j - 1] /\ w = <<Word(word)>> /\ s = parts[j]
    OBVIOUS
  <2>2. B[j] = r \o (w \o s)
    BY <2>1 DEF Spells
  <2>3. IsSequence(r) /\ IsSequence(s)
    <3>1. j - 1 \in 1 .. n /\ j \in 1 .. n
      OBVIOUS
    <3> QED
      BY <2>1, <3>1 DEF Spells
  <2>4. IsSequence(w) /\ Len(w) = 1 /\ w[1] = Word(word)
    BY <2>1, SingleSequence
  <2>5. PICK u : u = w \o s
    OBVIOUS
  <2>6. IsSequence(u) /\ Len(u) = Len(w) + Len(s)
    BY <2>3, <2>4, <2>5, ConcatFacts
  <2>7. Lies(t, b, r) /\ Lies(t, b + Len(r), u)
    BY <1>1, <2>2, <2>3, <2>5, <2>6, LiesConcat
  <2>8. Lies(t, b + Len(r), w) /\ Lies(t, (b + Len(r)) + 1, s)
    BY <2>3, <2>4, <2>5, <2>7, LiesConcat
  <2>9. t[(b + Len(r)) + 1] = w[1]
    BY <2>4, <2>8 DEF Lies
  <2>10. Len(r \o u) = Len(r) + Len(u)
    BY <2>3, <2>6, ConcatFacts
  <2>11. Len(r) \in Nat /\ Len(s) \in Nat
    BY <2>3, SequenceFacts
  <2>12. Len(B[j]) = Len(r) + 1 + Len(s)
    <3>1. Len(B[j]) = Len(r \o u)
      BY <2>1, <2>2, <2>5
    <3> QED
      BY <2>4, <2>6, <2>10, <2>11, <3>1
  <2>13. t[b + Len(r) + 1] = Word(word)
    BY <2>1, <2>4, <2>9
  <2> QED
    BY <2>1, <2>7, <2>8, <2>12, <2>13
<1> DEFINE Bad == {k \in Nat : k < n /\ ~Lies(t, b, B[n - k])}
<1>2. Bad = {}
  <2> SUFFICES ASSUME Bad # {} PROVE FALSE
    OBVIOUS
  <2>1. PICK k \in Bad : \A l \in Bad : k <= l
    BY LeastMember
  <2>2. k \in Nat /\ k < n /\ ~Lies(t, b, B[n - k])
    BY <2>1
  <2>3. k # 0
    BY <2>2
  <2>4. k - 1 \in Nat /\ k - 1 < n /\ k - 1 \notin Bad
    BY <2>1, <2>2, <2>3
  <2>5. PICK j : j = n - (k - 1)
    OBVIOUS
  <2>6. j \in 2 .. n /\ j - 1 = n - k /\ Lies(t, b, B[j])
    BY <2>2, <2>3, <2>4, <2>5
  <2> QED
    BY <1>1, <2>2, <2>6
<1>3. \A j \in 1 .. n : Lies(t, b, B[j])
  <2>1. \A k \in Nat : k < n => Lies(t, b, B[n - k])
    BY <1>2
  <2> HIDE DEF Bad
  <2> TAKE j \in 1 .. n
  <2>2. n - j \in Nat /\ n - j < n /\ n - (n - j) = j
    OBVIOUS
  <2>3. Lies(t, b, B[n - (n - j)])
    BY <2>1, <2>2
  <2> QED
    BY <2>2, <2>3
<1>4. \A j \in 2 .. n : j \in 1 .. n
  OBVIOUS
<1> QED
  BY <1>1, <1>3, <1>4 DEF LieSpelt

-----------------------------------------------------------------------------
(* A test of a condition: its tokens, and the node that the parser makes of *)
(* them.                                                                    *)

RightToken(test, columns) ==
    IF test.kind = "value" THEN ValueToken(columns[test.column].type, test.value)
    ELSE Word(columns[test.value].name)

NodeOf(test, columns) ==
    IF test.kind = "truth" THEN [node |-> "truth", token |-> Word(test.value)]
    ELSE [node |-> "test", left |-> Word(columns[test.column].name), relation |-> test.relation,
          right |-> RightToken(test, columns)]

\* The parser makes the node of the tokens wherever they lie; they do not end
\* with an "or".
TakesTest(s, node) ==
    /\ IsSequence(s) /\ Len(s) > 0 /\ s[Len(s)] # Word("or")
    /\ \A t, b : IsSequence(t) /\ Lies(t, b, s) => ParseTest(t, b + Len(s)) = Parsed(<<node>>, b)

LEMMA TruthSpelt ==
    ASSUME NEW test, NEW columns, IsTest(test, columns), test.kind = "truth"
    PROVE  /\ Regular(SpellTest(test, columns))
           /\ TakesTest(Stripped(SpellTest(test, columns)), NodeOf(test, columns))
<1>1. PICK w, s : w = Word(test.value) /\ s = <<w>>
  OBVIOUS
<1>2. IsSequence(s) /\ Len(s) = 1 /\ s[1] = w
  BY <1>1, SingleSequence
<1>3. /\ SpellTest(test, columns) = s /\ NodeOf(test, columns) = [node |-> "truth", token |-> w]
      /\ test.value \in {"true", "false"}
  BY <1>1 DEF SpellTest, NodeOf, IsTest
<1>4. w = Item("word", test.value) /\ w.kind = "word" /\ w = Item(w.kind, w.text) /\ w.text = test.value
  BY <1>1 DEF Word, Item
<1>5. Regular(s)
  BY <1>2, <1>4 DEF Regular, IsItems, IsPart
<1>6. Stripped(s) = s
  BY <1>1, <1>4, StrippedOne DEF TokenOf
<1>7. IsTruth(w) /\ w # Word("or")
  <2>1. Word("or").text = "or"
    BY DEF Word, Item
  <2> QED
    BY <1>1, <1>3, <1>4, <2>1 DEF IsTruth
<1>8. ASSUME NEW t, NEW b, IsSequence(t), Lies(t, b, s)
      PROVE  ParseTest(t, b + Len(s)) = Parsed(<<[node |-> "truth", token |-> w]>>, b)
  <2>1. b \in Nat /\ t[b + 1] = w
    BY <1>2, <1>8 DEF Lies
  <2>2. b + Len(s) = b + 1 /\ b + 1 # 0 /\ (b + 1) - 1 = b
    BY <1>2, <2>1
  <2> QED
    BY <1>7, <2>1, <2>2 DEF ParseTest
<1>9. PICK node : node = [node |-> "truth", token |-> w]
  OBVIOUS
<1>10. TakesTest(s, node)
  BY <1>2, <1>7, <1>8, <1>9 DEF TakesTest
<1> QED
  BY <1>3, <1>5, <1>6, <1>9, <1>10

LEMMA RightTokenFacts ==
    ASSUME NEW test, NEW columns, IsTest(test, columns), test.kind # "truth", NEW r, r = RightToken(test, columns)
    PROVE  /\ r.kind \in {"word", "number", "string"} /\ r = Item(r.kind, r.text)
           /\ ~IsTruth(r) /\ r # Word("or")
           /\ test.kind = "value" => IsConstant(r)
<1>1. PICK c, d : c = columns[test.column].type /\ d = columns[test.value].name
  OBVIOUS
<1>2. Word("true") = Item("word", "true") /\ Word("false") = Item("word", "false") /\ Word("or") = Item("word", "or")
  BY DEF Word
<1>3. CASE test.kind = "value"
  <2>1. \E kind, text : kind \in {"number", "string"} /\ r = Item(kind, text)
    BY <1>3 DEF RightToken, ValueToken
  <2>2. PICK kind, text : kind \in {"number", "string"} /\ r = Item(kind, text)
    BY <2>1
  <2>3. r.kind = kind /\ r.text = text
    BY <2>2 DEF Item
  <2>4. r.kind # "word"
    BY <2>2, <2>3
  <2>5. \A text1 : Item("word", text1).kind = "word"
    BY DEF Item
  <2> QED
    BY <1>2, <2>2, <2>3, <2>4, <2>5 DEF IsTruth, IsConstant
<1>4. CASE test.kind = "column"
  <2>1. r = Item("word", d) /\ d \notin {"true", "false", "or"}
    BY <1>1, <1>4 DEF RightToken, IsTest, Word
  <2>2. r.kind = "word" /\ r.text = d /\ \A text : Item("word", text).text = text
    BY <2>1 DEF Item
  <2> QED
    BY <1>2, <1>4, <2>1, <2>2 DEF IsTruth
<1> QED
  BY <1>3, <1>4 DEF IsTest

LEMMA ComparisonSpelt ==
    ASSUME NEW test, NEW columns, IsTest(test, columns), test.kind # "truth", test.spaced = FALSE
    PROVE  /\ Regular(SpellTest(test, columns))
           /\ TakesTest(Stripped(SpellTest(test, columns)), NodeOf(test, columns))
<1>1. PICK l, rel, r : l = Word(columns[test.column].name) /\ rel = Item("relation", test.relation) /\ r = RightToken(test, columns)
  OBVIOUS
<1>2. PICK x, y, z : x = <<l>> /\ y = <<rel>> /\ z = <<r>>
  OBVIOUS
<1>3. /\ IsSequence(x) /\ IsSequence(y) /\ IsSequence(z)
      /\ Len(x) = 1 /\ Len(y) = 1 /\ Len(z) = 1
      /\ x[1] = l /\ y[1] = rel /\ z[1] = r
  BY <1>2, SingleSequence
<1>4. PICK xy : xy = x \o y
  OBVIOUS
<1>5. PICK s : s = xy \o z
  OBVIOUS
<1>6. IsSequence(xy) /\ Len(xy) = 2 /\ xy[1] = l /\ xy[2] = rel
  <2>1. /\ IsSequence(xy) /\ Len(xy) = Len(x) + Len(y)
        /\ \A i \in 1 .. Len(x) : xy[i] = x[i]
        /\ \A i \in 1 .. Len(y) : xy[Len(x) + i] = y[i]
    <3>1. IsSequence(x) /\ IsSequence(y)
      BY <1>3
    <3> QED
      BY <1>4, <3>1, ConcatFacts
  <2>2. 1 \in 1 .. Len(x) /\ 1 \in 1 .. Len(y) /\ Len(x) + 1 = 2
    BY <1>3
  <2> QED
    BY <1>3, <2>1, <2>2
<1>7. IsSequence(s) /\ Len(s) = 3 /\ s[1] = l /\ s[2] = rel /\ s[3] = r
  <2>1. /\ IsSequence(s) /\ Len(s) = Len(xy) + Len(z)
        /\ \A i \in 1 .. Len(xy) : s[i] = xy[i]
        /\ \A i \in 1 .. Len(z) : s[Len(xy) + i] = z[i]
    <3>1. IsSequence(xy) /\ IsSequence(z)
      BY <1>3, <1>6
    <3> QED
      BY <1>5, <3>1, ConcatFacts
  <2>2. 1 \in 1 .. Len(xy) /\ 2 \in 1 .. Len(xy) /\ 1 \in 1 .. Len(z) /\ Len(xy) + 1 = 3
    BY <1>3, <1>6
  <2> QED
    BY <1>3, <1>6, <2>1, <2>2
<1>8. SpellTest(test, columns) = s
  <2>1. SpellTest(test, columns) = x \o <<>> \o y \o <<>> \o z
    BY <1>1, <1>2 DEF SpellTest, RightToken
  <2>2. x \o <<>> = x /\ xy \o <<>> = xy
    BY <1>3, <1>6, ConcatEmpty
  <2> QED
    BY <1>4, <1>5, <2>1, <2>2
<1>9. /\ l.kind = "word" /\ l = Item(l.kind, l.text)
      /\ rel.kind = "relation" /\ rel = Item(rel.kind, rel.text) /\ rel.text = test.relation
  BY <1>1 DEF Word, Item
<1>10. /\ r.kind \in {"word", "number", "string"} /\ r = Item(r.kind, r.text)
       /\ ~IsTruth(r) /\ r # Word("or")
  BY <1>1, RightTokenFacts
<1>11. Regular(s)
  BY <1>7, <1>9, <1>10 DEF Regular, IsItems, IsPart
<1>12. Stripped(s) = s
  <2>1. Stripped(x) = x /\ Stripped(y) = y /\ Stripped(z) = z
    BY <1>2, <1>9, <1>10, StrippedOne DEF TokenOf
  <2>2. Stripped(xy) = Stripped(x) \o Stripped(y) /\ Stripped(s) = Stripped(xy) \o Stripped(z)
    BY <1>3, <1>4, <1>5, <1>6, StrippedConcat
  <2> QED
    BY <1>4, <1>5, <2>1, <2>2
<1>13. PICK node : node = [node |-> "test", left |-> l, relation |-> rel.text, right |-> r]
  OBVIOUS
<1>14. NodeOf(test, columns) = node
  BY <1>1, <1>9, <1>13 DEF NodeOf
<1>15. ASSUME NEW t, NEW b, IsSequence(t), Lies(t, b, s)
       PROVE  ParseTest(t, b + Len(s)) = Parsed(<<node>>, b)
  <2>1. PICK n : n = b + 3
    OBVIOUS
  <2>2. b \in Nat /\ t[b + 1] = l /\ t[b + 2] = rel /\ t[b + 3] = r
    <3>1. 1 \in 1 .. Len(s) /\ 2 \in 1 .. Len(s) /\ 3 \in 1 .. Len(s)
      BY <1>7
    <3> QED
      BY <1>7, <1>15, <3>1 DEF Lies
  <2>3. n # 0 /\ n # 1 /\ n # 2 /\ n - 1 = b + 2 /\ n - 2 = b + 1 /\ n - 3 = b
    BY <2>1, <2>2
  <2>4. t[n] = r /\ t[n - 1] = rel /\ t[n - 2] = l
    BY <2>1, <2>2, <2>3
  <2>5. ~IsTruth(t[n]) /\ t[n - 1].kind = "relation" /\ ~IsConstant(t[n - 2]) /\ t[n - 2].kind # "string"
    BY <1>9, <1>10, <2>4 DEF IsConstant
  <2>6. ParseTest(t, n) = Parsed(<<[node |-> "test", left |-> t[n - 2], relation |-> t[n - 1].text, right |-> t[n]]>>, n - 3)
    BY <2>3, <2>5 DEF ParseTest
  <2>7. ParseTest(t, n) = Parsed(<<node>>, b)
    BY <1>13, <2>3, <2>4, <2>6
  <2> QED
    BY <1>7, <2>1, <2>7
<1>16. TakesTest(s, node)
  BY <1>7, <1>10, <1>15 DEF TakesTest
<1> QED
  BY <1>8, <1>11, <1>12, <1>14, <1>16

-----------------------------------------------------------------------------
(* Trees.  Those of the conditions that are understood have only tests as   *)
(* right parts.                                                             *)

IsLeaf(node) == node.node \in {"truth", "test"}

IsTree(tree) ==
    /\ IsSequence(tree) /\ Len(tree) > 0
    /\ \A i \in 1 .. Len(tree) :
          IsLeaf(tree[i]) \/ (tree[i].node \in {"and", "or"} /\ tree[i].right = 1 /\ i >= 3)

LeafOutcome(node, columns, row) ==
    IF node.node = "truth" THEN Outcome(node.token.text = "true") ELSE Test(node, columns, row)

\* The outcome at node i, from those at the nodes before it.
OutcomeAt(tree, columns, row, f, i) ==
    LET node == tree[i]
        left == f[i - 1 - node.right]
    IN  CASE node.node = "truth" -> Outcome(node.token.text = "true")
          [] node.node = "test"  -> Test(node, columns, row)
          [] node.node = "null"  -> {"crash"}
          [] node.node = "and"   -> Then(left, "yes", f[i - 1])
          [] node.node = "or"    -> Then(left, "no", f[i - 1])

Evaluates(f, tree, columns, row, m) ==
    f = [i \in 1 .. m |-> OutcomeAt(tree, columns, row, f, i)]

LEMMA OutcomeLooksBefore ==
    ASSUME NEW tree, IsTree(tree), NEW columns, NEW row, NEW i \in 1 .. Len(tree),
           NEW f, NEW g, \A k \in 1 .. i - 1 : f[k] = g[k]
    PROVE  OutcomeAt(tree, columns, row, f, i) = OutcomeAt(tree, columns, row, g, i)
<1>1. PICK node : node = tree[i]
  OBVIOUS
<1>2. IsLeaf(node) \/ (node.node \in {"and", "or"} /\ node.right = 1 /\ i >= 3)
  BY <1>1 DEF IsTree
<1>3. CASE IsLeaf(node)
  BY <1>1, <1>3 DEF OutcomeAt, IsLeaf
<1>4. CASE ~IsLeaf(node)
  <2>1. node.right = 1 /\ i - 1 \in 1 .. i - 1 /\ i - 1 - 1 \in 1 .. i - 1
    BY <1>2, <1>4
  <2>2. f[i - 1] = g[i - 1] /\ f[i - 1 - node.right] = g[i - 1 - node.right]
    BY <2>1
  <2> QED
    BY <1>1, <2>2 DEF OutcomeAt
<1> QED
  BY <1>3, <1>4

LEMMA OutcomesExist ==
    ASSUME NEW tree, IsTree(tree), NEW columns, NEW row
    PROVE  \E f : Evaluates(f, tree, columns, row, Len(tree))
<1> DEFINE Bad == {n \in 0 .. Len(tree) : ~\E f : Evaluates(f, tree, columns, row, n)}
<1>0. Len(tree) \in Nat
  BY SequenceFacts DEF IsTree
<1>1. Bad = {}
  <2> SUFFICES ASSUME Bad # {} PROVE FALSE
    OBVIOUS
  <2>0. Bad \subseteq Nat
    OBVIOUS
  <2>1. PICK n \in Bad : \A l \in Bad : n <= l
    BY <2>0, LeastMember
  <2>2. n \in Nat /\ n \in 0 .. Len(tree) /\ ~\E f : Evaluates(f, tree, columns, row, n)
    BY <2>1
  <2> DEFINE Next1(f) == [i \in 1 .. n |-> IF i < n THEN f[i] ELSE OutcomeAt(tree, columns, row, f, n)]
  <2>3. ASSUME NEW f, n > 0 => Evaluates(f, tree, columns, row, n - 1)
        PROVE  Evaluates(Next1(f), tree, columns, row, n)
    <3>1. PICK g : g = Next1(f)
      OBVIOUS
    <3>2. /\ g = [i \in 1 .. n |-> g[i]]
          /\ \A i \in 1 .. n : g[i] = IF i < n THEN f[i] ELSE OutcomeAt(tree, columns, row, f, n)
      BY <3>1
    <3>3. \A k \in 1 .. n - 1 : g[k] = f[k]
      BY <2>2, <3>2
    <3>4. ASSUME NEW i \in 1 .. n PROVE g[i] = OutcomeAt(tree, columns, row, g, i)
      <4>1. i \in 1 .. Len(tree) /\ \A k \in 1 .. i - 1 : f[k] = g[k]
        BY <1>0, <2>2, <3>3
      <4>2. OutcomeAt(tree, columns, row, f, i) = OutcomeAt(tree, columns, row, g, i)
        BY <4>1, OutcomeLooksBefore
      <4>3. CASE i = n
        BY <3>2, <4>2, <4>3
      <4>4. CASE i # n
        <5>1. i \in 1 .. n - 1 /\ n > 0
          BY <2>2, <4>4
        <5>2. f[i] = OutcomeAt(tree, columns, row, f, i)
          BY <2>3, <5>1 DEF Evaluates
        <5> QED
          BY <3>3, <4>2, <5>1, <5>2
      <4> QED
        BY <4>3, <4>4
    <3>5. Evaluates(g, tree, columns, row, n)
      BY <3>2, <3>4 DEF Evaluates
    <3> QED
      BY <3>1, <3>5
  <2>4. CASE n = 0
    <3>1. Evaluates(Next1(tree), tree, columns, row, n)
      BY <2>3, <2>4
    <3> HIDE DEF Next1
    <3> QED
      BY <2>2, <3>1
  <2>5. CASE n # 0
    <3>1. n - 1 \in 0 .. Len(tree) /\ n - 1 \notin Bad
      BY <1>0, <2>1, <2>2, <2>5
    <3>2. PICK f : Evaluates(f, tree, columns, row, n - 1)
      BY <3>1
    <3>3. Evaluates(Next1(f), tree, columns, row, n)
      BY <2>3, <3>2
    <3> HIDE DEF Next1
    <3> QED
      BY <2>2, <3>3
  <2> QED
    BY <2>4, <2>5
<1> QED
  BY <1>0, <1>1

\* The outcome of a tree is that at its last node.
LEMMA OutcomeOf ==
    ASSUME NEW tree, IsTree(tree), NEW columns, NEW row
    PROVE  \E f : /\ \A i \in 1 .. Len(tree) : f[i] = OutcomeAt(tree, columns, row, f, i)
                  /\ Evaluate(tree, columns, row) = f[Len(tree)]
<1>1. DOMAIN tree = 1 .. Len(tree)
  BY SequenceFacts DEF IsTree
<1> DEFINE F == CHOOSE f : f = [i \in DOMAIN tree |->
                    LET node == tree[i]
                        left == f[i - 1 - node.right]
                    IN  CASE node.node = "truth" -> Outcome(node.token.text = "true")
                          [] node.node = "test"  -> Test(node, columns, row)
                          [] node.node = "null"  -> {"crash"}
                          [] node.node = "and"   -> Then(left, "yes", f[i - 1])
                          [] node.node = "or"    -> Then(left, "no", f[i - 1])]
<1>2. Evaluate(tree, columns, row) = F[Len(tree)]
  BY DEF Evaluate
<1>3. \E f : f = [i \in DOMAIN tree |->
                    LET node == tree[i]
                        left == f[i - 1 - node.right]
                    IN  CASE node.node = "truth" -> Outcome(node.token.text = "true")
                          [] node.node = "test"  -> Test(node, columns, row)
                          [] node.node = "null"  -> {"crash"}
                          [] node.node = "and"   -> Then(left, "yes", f[i - 1])
                          [] node.node = "or"    -> Then(left, "no", f[i - 1])]
  <2>1. PICK D : D = DOMAIN tree /\ D = 1 .. Len(tree)
    BY <1>1
  <2>2. \E f : Evaluates(f, tree, columns, row, Len(tree))
    BY OutcomesExist
  <2>3. \E f : f = [i \in D |-> OutcomeAt(tree, columns, row, f, i)]
    BY <2>1, <2>2 DEF Evaluates
  <2> QED
    BY <2>1, <2>3 DEF OutcomeAt
<1>4. Evaluates(F, tree, columns, row, Len(tree))
  BY <1>1, <1>3 DEF Evaluates, OutcomeAt
<1> HIDE DEF F
<1>5. \A i \in 1 .. Len(tree) : F[i] = OutcomeAt(tree, columns, row, F, i)
  BY <1>4 DEF Evaluates
<1> QED
  BY <1>2, <1>5

LEMMA LeafTree ==
    ASSUME NEW leaf, IsLeaf(leaf)
    PROVE  /\ IsTree(<<leaf>>)
           /\ \A columns, row : Evaluate(<<leaf>>, columns, row) = LeafOutcome(leaf, columns, row)
<1>1. PICK tree : tree = <<leaf>>
  OBVIOUS
<1>2. IsSequence(tree) /\ Len(tree) = 1 /\ tree[1] = leaf
  BY <1>1, SingleSequence
<1>3. IsTree(tree)
  BY <1>2 DEF IsTree
<1>4. ASSUME NEW columns, NEW row
      PROVE  Evaluate(tree, columns, row) = LeafOutcome(leaf, columns, row)
  <2>1. PICK f : /\ \A i \in 1 .. Len(tree) : f[i] = OutcomeAt(tree, columns, row, f, i)
                 /\ Evaluate(tree, columns, row) = f[Len(tree)]
    BY <1>3, OutcomeOf
  <2>2. Evaluate(tree, columns, row) = OutcomeAt(tree, columns, row, f, 1)
    BY <1>2, <2>1
  <2> QED
    BY <1>2, <2>2 DEF OutcomeAt, LeafOutcome, IsLeaf
<1> QED
  BY <1>1, <1>3, <1>4

Needs(op) == IF op = "and" THEN "yes" ELSE "no"

JoinedTree(tree, leaf, op) == tree \o <<leaf>> \o <<[node |-> op, right |-> 1]>>

\* A test joined to a tree is evaluated if the tree's outcome asks for it.
LEMMA JoinedTreeFacts ==
    ASSUME NEW tree, IsTree(tree), NEW leaf, IsLeaf(leaf), NEW op \in {"and", "or"}
    PROVE  /\ IsTree(JoinedTree(tree, leaf, op))
           /\ \A columns, row :
                 Evaluate(JoinedTree(tree, leaf, op), columns, row)
                     = Then(Evaluate(tree, columns, row), Needs(op), LeafOutcome(leaf, columns, row))
<1>1. PICK node : node = [node |-> op, right |-> 1]
  OBVIOUS
<1>2. PICK x, y : x = <<leaf>> /\ y = <<node>>
  OBVIOUS
<1>3. /\ IsSequence(x) /\ Len(x) = 1 /\ x[1] = leaf
      /\ IsSequence(y) /\ Len(y) = 1 /\ y[1] = node
  BY <1>2, SingleSequence
<1>4. IsSequence(tree) /\ Len(tree) > 0 /\ Len(tree) \in Nat
  BY SequenceFacts DEF IsTree
<1>5. PICK m : m = Len(tree)
  OBVIOUS
<1>6. PICK tx : tx = tree \o x
  OBVIOUS
<1>7. PICK all : all = tx \o y
  OBVIOUS
<1>8. IsSequence(tx) /\ Len(tx) = m + 1 /\ (\A i \in 1 .. m : tx[i] = tree[i]) /\ tx[m + 1] = leaf
  <2>1. /\ IsSequence(tx) /\ Len(tx) = Len(tree) + Len(x)
        /\ \A i \in 1 .. Len(tree) : tx[i] = tree[i]
        /\ \A i \in 1 .. Len(x) : tx[Len(tree) + i] = x[i]
    <3>1. IsSequence(tree) /\ IsSequence(x)
      BY <1>3, <1>4
    <3> QED
      BY <1>6, <3>1, ConcatFacts
  <2>2. 1 \in 1 .. Len(x)
    BY <1>3
  <2> QED
    BY <1>3, <1>5, <2>1, <2>2
<1>9. /\ IsSequence(all) /\ Len(all) = m + 2
      /\ \A i \in 1 .. m : all[i] = tree[i]
      /\ all[m + 1] = leaf /\ all[m + 2] = node
  <2>1. /\ IsSequence(all) /\ Len(all) = Len(tx) + Len(y)
        /\ \A i \in 1 .. Len(tx) : all[i] = tx[i]
        /\ \A i \in 1 .. Len(y) : all[Len(tx) + i] = y[i]
    <3>1. IsSequence(tx) /\ IsSequence(y)
      BY <1>3, <1>8
    <3> QED
      BY <1>7, <3>1, ConcatFacts
  <2>2. 1 \in 1 .. Len(y) /\ m + 1 \in 1 .. Len(tx) /\ (\A i \in 1 .. m : i \in 1 .. Len(tx)) /\ Len(tx) + 1 = m + 2
    BY <1>3, <1>4, <1>5, <1>8
  <2>3. Len(all) = m + 2
    BY <1>3, <1>4, <1>5, <1>8, <2>1
  <2> QED
    BY <1>3, <1>8, <2>1, <2>2, <2>3
<1>10. all = JoinedTree(tree, leaf, op)
  BY <1>1, <1>2, <1>6, <1>7 DEF JoinedTree
<1>11. node.node = op /\ node.right = 1
  BY <1>1
<1>12. IsTree(all)
  <2>1. ASSUME NEW i \in 1 .. m + 2
        PROVE  IsLeaf(all[i]) \/ (all[i].node \in {"and", "or"} /\ all[i].right = 1 /\ i >= 3)
    <3>1. CASE i \in 1 .. m
      BY <1>5, <1>9, <3>1 DEF IsTree
    <3>2. CASE i = m + 1
      BY <1>9, <3>2
    <3>3. CASE i = m + 2
      BY <1>4, <1>5, <1>9, <1>11, <3>3
    <3> QED
      BY <1>4, <1>5, <3>1, <3>2, <3>3
  <2> QED
    BY <1>4, <1>5, <1>9, <2>1 DEF IsTree
<1>13. ASSUME NEW columns, NEW row
       PROVE  Evaluate(all, columns, row)
                  = Then(Evaluate(tree, columns, row), Needs(op), LeafOutcome(leaf, columns, row))
  <2>1. PICK f : /\ \A i \in 1 .. Len(all) : f[i] = OutcomeAt(all, columns, row, f, i)
                 /\ Evaluate(all, columns, row) = f[Len(all)]
    BY <1>12, OutcomeOf
  <2>2. PICK g : /\ \A i \in 1 .. m : g[i] = OutcomeAt(tree, columns, row, g, i)
                 /\ Evaluate(tree, columns, row) = g[m]
    BY <1>5, OutcomeOf
  <2> DEFINE Bad == {i \in 1 .. m : f[i] # g[i]}
  <2>3. Bad = {}
    <3> SUFFICES ASSUME Bad # {} PROVE FALSE
      OBVIOUS
    <3>1. Bad \subseteq Nat
      OBVIOUS
    <3>2. PICK i \in Bad : \A k \in Bad : i <= k
      BY <3>1, LeastMember
    <3>3. i \in 1 .. m /\ f[i] # g[i] /\ i \in 1 .. Len(all)
      BY <1>4, <1>5, <1>9, <3>2
    <3>4. \A k \in 1 .. i - 1 : f[k] = g[k]
      <4> TAKE k \in 1 .. i - 1
      <4>1. k \in 1 .. m /\ ~(i <= k)
        BY <1>4, <1>5, <3>3
      <4> QED
        BY <3>2, <4>1
    <3>5. OutcomeAt(tree, columns, row, f, i) = OutcomeAt(tree, columns, row, g, i)
      BY <1>5, <3>3, <3>4, OutcomeLooksBefore
    <3>6. OutcomeAt(all, columns, row, f, i) = OutcomeAt(tree, columns, row, f, i)
      BY <1>9, <3>3 DEF OutcomeAt
    <3> QED
      BY <2>1, <2>2, <3>3, <3>5, <3>6
  <2>4. f[m] = g[m]
    <3>1. m \in 1 .. m
      BY <1>4, <1>5
    <3> QED
      BY <2>3, <3>1
  <2>5. f[m + 1] = LeafOutcome(leaf, columns, row)
    <3>1. m + 1 \in 1 .. Len(all)
      BY <1>4, <1>5, <1>9
    <3>2. f[m + 1] = OutcomeAt(all, columns, row, f, m + 1)
      BY <2>1, <3>1
    <3> QED
      BY <1>9, <3>2 DEF OutcomeAt, LeafOutcome, IsLeaf
  <2>6. f[m + 2] = Then(f[m], Needs(op), f[m + 1])
    <3>1. m + 2 \in 1 .. Len(all) /\ (m + 2) - 1 = m + 1 /\ (m + 2) - 1 - 1 = m
      BY <1>4, <1>5, <1>9
    <3>2. f[m + 2] = OutcomeAt(all, columns, row, f, m + 2)
      BY <2>1, <3>1
    <3>3. all[m + 2].node = op /\ all[m + 2].right = 1
      BY <1>9, <1>11
    <3>4. CASE op = "and"
      <4>1. OutcomeAt(all, columns, row, f, m + 2) = Then(f[(m + 2) - 1 - 1], "yes", f[(m + 2) - 1])
        BY <3>3, <3>4 DEF OutcomeAt
      <4> QED
        BY <3>1, <3>2, <3>4, <4>1 DEF Needs
    <3>5. CASE op = "or"
      <4>1. OutcomeAt(all, columns, row, f, m + 2) = Then(f[(m + 2) - 1 - 1], "no", f[(m + 2) - 1])
        BY <3>3, <3>5 DEF OutcomeAt
      <4> QED
        BY <3>1, <3>2, <3>5, <4>1 DEF Needs
    <3> QED
      BY <3>4, <3>5
  <2> QED
    BY <1>9, <2>1, <2>2, <2>4, <2>5, <2>6
<1> QED
  BY <1>10, <1>12, <1>13

\* The tree says yes of the rows of W that are in `yes`, and no of the others.
Answers(tree, columns, W, yes) ==
    IsTree(tree) /\ \A row \in W : Evaluate(tree, columns, row) = Outcome(row \in yes)

LeafAnswers(leaf, columns, W, yes) ==
    IsLeaf(leaf) /\ \A row \in W : LeafOutcome(leaf, columns, row) = Outcome(row \in yes)

LEMMA LeafTreeAnswers ==
    ASSUME NEW leaf, NEW columns, NEW W, NEW yes, LeafAnswers(leaf, columns, W, yes)
    PROVE  Answers(<<leaf>>, columns, W, yes)
BY LeafTree DEF LeafAnswers, Answers

LEMMA JoinedTreeAnswers ==
    ASSUME NEW tree, NEW leaf, NEW columns, NEW W, NEW a, NEW b,
           Answers(tree, columns, W, a), LeafAnswers(leaf, columns, W, b)
    PROVE  /\ Answers(JoinedTree(tree, leaf, "and"), columns, W, a \cap b)
           /\ Answers(JoinedTree(tree, leaf, "or"), columns, W, a \cup b)
<1>1. IsTree(tree) /\ IsLeaf(leaf)
  BY DEF Answers, LeafAnswers
<1>2. /\ IsTree(JoinedTree(tree, leaf, "and")) /\ IsTree(JoinedTree(tree, leaf, "or"))
      /\ \A row : /\ Evaluate(JoinedTree(tree, leaf, "and"), columns, row)
                        = Then(Evaluate(tree, columns, row), "yes", LeafOutcome(leaf, columns, row))
                  /\ Evaluate(JoinedTree(tree, leaf, "or"), columns, row)
                        = Then(Evaluate(tree, columns, row), "no", LeafOutcome(leaf, columns, row))
  BY <1>1, JoinedTreeFacts DEF Needs
<1>3. \A S : /\ Then({"yes"}, "yes", S) = S /\ Then({"no"}, "yes", S) = {"no"}
             /\ Then({"yes"}, "no", S) = {"yes"} /\ Then({"no"}, "no", S) = S
  BY DEF Then
<1>4. ASSUME NEW row \in W
      PROVE  /\ Evaluate(JoinedTree(tree, leaf, "and"), columns, row) = Outcome(row \in a \cap b)
             /\ Evaluate(JoinedTree(tree, leaf, "or"), columns, row) = Outcome(row \in a \cup b)
  <2>1. Evaluate(tree, columns, row) = Outcome(row \in a) /\ LeafOutcome(leaf, columns, row) = Outcome(row \in b)
    BY DEF Answers, LeafAnswers
  <2>2. CASE row \in a
    <3>1. Evaluate(tree, columns, row) = {"yes"}
      BY <2>1, <2>2 DEF Outcome
    <3>2. Outcome(row \in a \cap b) = Outcome(row \in b) /\ Outcome(row \in a \cup b) = {"yes"}
      BY <2>2 DEF Outcome
    <3> QED
      BY <1>2, <1>3, <2>1, <3>1, <3>2
  <2>3. CASE row \notin a
    <3>1. Evaluate(tree, columns, row) = {"no"}
      BY <2>1, <2>3 DEF Outcome
    <3>2. Outcome(row \in a \cap b) = {"no"} /\ Outcome(row \in a \cup b) = Outcome(row \in b)
      BY <2>3 DEF Outcome
    <3> QED
      BY <1>2, <1>3, <2>1, <3>1, <3>2
  <2> QED
    BY <2>2, <2>3
<1> QED
  BY <1>2, <1>4 DEF Answers

-----------------------------------------------------------------------------
(* What is parsed of the tokens of an alternative.                          *)

LEMMA JoinedParsed ==
    ASSUME NEW op, NEW tree, NEW leaf, NEW left
    PROVE  Joined(op, Parsed(tree, left), <<leaf>>) = Parsed(JoinedTree(tree, leaf, op), left)
<1>1. PICK x : x = <<leaf>>
  OBVIOUS
<1>2. Len(x) = 1
  BY <1>1, SingleSequence
<1>3. PICK p : p = Parsed(tree, left)
  OBVIOUS
<1>4. p.crash = FALSE /\ p.tree = tree /\ p.left = left
  BY <1>3 DEF Parsed
<1>5. Joined(op, p, x) = Parsed(tree \o x \o <<[node |-> op, right |-> 1]>>, left)
  BY <1>2, <1>4 DEF Joined
<1> QED
  BY <1>1, <1>3, <1>5 DEF JoinedTree

LEMMA Words ==
    /\ Word("and") # Word("or") /\ \A x, y : Parsed(x, y).tree = x /\ Parsed(x, y).left = y
    /\ \A x, y : Parsed(x, y).crash = FALSE
    /\ \A x, y : Stops(Parsed(x, y)) <=> y = 0
<1>1. Word("and").text = "and" /\ Word("or").text = "or"
  BY DEF Word, Item
<1>2. \A x, y : Parsed(x, y).tree = x /\ Parsed(x, y).left = y /\ Parsed(x, y).crash = FALSE
  BY DEF Parsed
<1>3. \A x, y : Stops(Parsed(x, y)) <=> y = 0
  BY <1>2 DEF Stops
<1> QED
  BY <1>1, <1>2, <1>3

\* The tokens of the tests of an alternative, with an "and" between them.
IsAlternative(B, n, parts, nodes) ==
    /\ n \in Nat /\ n >= 1
    /\ Spells(B, n, "and", parts)
    /\ \A j \in 1 .. n : TakesTest(parts[j], nodes[j])

\* The rows of W that pass the first j tests.
Pass(v, j, W) == {row \in W : \A l \in 1 .. j : row \in v[l]}

Answered(nodes, n, columns, W, v) == \A j \in 1 .. n : LeafAnswers(nodes[j], columns, W, v[j])

LEMMA PassFacts ==
    ASSUME NEW v, NEW W, NEW n \in Nat, \A j \in 1 .. n : v[j] \subseteq W
    PROVE  /\ n >= 1 => Pass(v, 1, W) = v[1]
           /\ \A j \in 2 .. n : Pass(v, j, W) = Pass(v, j - 1, W) \cap v[j]
<1>1. n >= 1 => Pass(v, 1, W) = v[1]
  <2>1. n >= 1 => 1 \in 1 .. n
    OBVIOUS
  <2>2. \A l \in 1 .. 1 : l = 1
    OBVIOUS
  <2> QED
    BY <2>1, <2>2 DEF Pass
<1>2. ASSUME NEW j \in 2 .. n PROVE Pass(v, j, W) = Pass(v, j - 1, W) \cap v[j]
  <2>1. /\ \A l \in 1 .. j : l = j \/ l \in 1 .. j - 1
        /\ \A l \in 1 .. j - 1 : l \in 1 .. j
        /\ j \in 1 .. j
    OBVIOUS
  <2> QED
    BY <2>1 DEF Pass
<1> QED
  BY <1>1, <1>2

\* What is parsed of a test behind another one.
TestsParse(t, b, B, n, nodes) ==
    /\ b \in Nat /\ Len(B[1]) \in Nat
    /\ \A j \in 1 .. n : b + Len(B[j]) \in 0 .. Len(t)
    /\ ParseTest(t, b + Len(B[1])) = Parsed(<<nodes[1]>>, b)
    /\ \A j \in 2 .. n :
          /\ ParseTest(t, b + Len(B[j])) = Parsed(<<nodes[j]>>, b + Len(B[j - 1]) + 1)
          /\ b + Len(B[j - 1]) + 1 # 0 /\ (b + Len(B[j - 1]) + 1) - 1 = b + Len(B[j - 1])
          /\ t[b + Len(B[j - 1]) + 1] = Word("and")

LEMMA TestParsed ==
    ASSUME NEW t, IsSequence(t), NEW B, NEW n, NEW parts, NEW nodes, IsAlternative(B, n, parts, nodes),
           NEW b, Lies(t, b, B[n])
    PROVE  TestsParse(t, b, B, n, nodes)
<1>1. n \in Nat /\ n >= 1 /\ Spells(B, n, "and", parts) /\ \A j \in 1 .. n : IsSequence(parts[j])
  BY DEF IsAlternative, TakesTest
<1>2. /\ \A j \in 1 .. n : Lies(t, b, B[j])
      /\ \A j \in 2 .. n : /\ t[b + Len(B[j - 1]) + 1] = Word("and")
                           /\ Lies(t, b + Len(B[j - 1]) + 1, parts[j])
                           /\ Len(B[j]) = Len(B[j - 1]) + 1 + Len(parts[j])
  <2>1. LieSpelt(t, b, B, n, "and", parts)
    BY <1>1, LiesSpelt
  <2> QED
    BY <2>1 DEF LieSpelt
<1>3. b \in Nat /\ Len(t) \in Nat /\ \A j \in 1 .. n : Len(B[j]) \in Nat
  BY <1>1, SequenceFacts DEF Lies, Spells
<1>4. ParseTest(t, b + Len(B[1])) = Parsed(<<nodes[1]>>, b)
  <2>1. 1 \in 1 .. n /\ B[1] = parts[1]
    BY <1>1 DEF Spells
  <2> QED
    BY <1>2, <2>1 DEF IsAlternative, TakesTest
<1>5. ASSUME NEW j \in 2 .. n
      PROVE  /\ ParseTest(t, b + Len(B[j])) = Parsed(<<nodes[j]>>, b + Len(B[j - 1]) + 1)
             /\ b + Len(B[j - 1]) + 1 # 0 /\ (b + Len(B[j - 1]) + 1) - 1 = b + Len(B[j - 1])
  <2>1. j \in 1 .. n /\ j - 1 \in 1 .. n
    BY <1>1
  <2>2. PICK c, p, e : c = b + Len(B[j - 1]) + 1 /\ p = parts[j] /\ e = Len(B[j - 1])
    OBVIOUS
  <2>3. Lies(t, c, p) /\ TakesTest(p, nodes[j])
    BY <1>2, <2>1, <2>2 DEF IsAlternative
  <2>4. ParseTest(t, c + Len(p)) = Parsed(<<nodes[j]>>, c)
    BY <2>3 DEF TakesTest
  <2>5. e \in Nat /\ Len(p) \in Nat /\ Len(B[j]) = e + 1 + Len(p)
    BY <1>1, <1>2, <1>3, <2>1, <2>2, SequenceFacts
  <2>6. c = b + e + 1 /\ b \in Nat
    BY <1>3, <2>2
  <2>7. b + Len(B[j]) = c + Len(p)
    <3>1. PICK x, y : x = Len(B[j]) /\ y = Len(p)
      OBVIOUS
    <3>2. b \in Nat /\ e \in Nat /\ y \in Nat /\ x = e + 1 + y /\ c = b + e + 1
      BY <2>5, <2>6, <3>1
    <3>3. b + x = c + y
      BY ONLY <3>2
    <3> QED
      BY <3>1, <3>3
  <2>8. c # 0 /\ c - 1 = b + e
    BY ONLY <2>5, <2>6
  <2> QED
    BY <2>2, <2>4, <2>7, <2>8
<1>6. \A j \in 1 .. n : b + Len(B[j]) \in 0 .. Len(t)
  BY <1>2, <1>3 DEF Lies
<1>7. 1 \in 1 .. n
  BY <1>1
<1> QED
  BY <1>2, <1>3, <1>4, <1>5, <1>6, <1>7 DEF TestsParse

\* What the rest is: a token before the tests, an "or", is lost.
RestBefore(b) == IF b = 0 THEN 0 ELSE b - 1

LEMMA AlternativeAnd ==
    ASSUME NEW t, IsSequence(t), NEW B, NEW n, NEW parts, NEW nodes, IsAlternative(B, n, parts, nodes),
           NEW b, Lies(t, b, B[n]), b = 0 \/ t[b] = Word("or"),
           NEW columns, NEW W, NEW v, Answered(nodes, n, columns, W, v), \A j \in 1 .. n : v[j] \subseteq W
    PROVE  \A j \in 1 .. n : \E tree :
              /\ ParseAnd(t)[b + Len(B[j])] = Parsed(tree, RestBefore(b))
              /\ Answers(tree, columns, W, Pass(v, j, W))
<1> DEFINE P == ParseAnd(t)
           Good(j) == \E tree : /\ P[b + Len(B[j])] = Parsed(tree, RestBefore(b))
                                /\ Answers(tree, columns, W, Pass(v, j, W))
           Bad == {j \in 1 .. n : ~Good(j)}
<1>1. n \in Nat /\ n >= 1
  BY DEF IsAlternative
<1>2. /\ b \in Nat /\ Len(B[1]) \in Nat
      /\ \A j \in 1 .. n : b + Len(B[j]) \in 0 .. Len(t)
      /\ ParseTest(t, b + Len(B[1])) = Parsed(<<nodes[1]>>, b)
      /\ \A j \in 2 .. n :
            /\ ParseTest(t, b + Len(B[j])) = Parsed(<<nodes[j]>>, b + Len(B[j - 1]) + 1)
            /\ b + Len(B[j - 1]) + 1 # 0 /\ (b + Len(B[j - 1]) + 1) - 1 = b + Len(B[j - 1])
            /\ t[b + Len(B[j - 1]) + 1] = Word("and")
  <2>1. TestsParse(t, b, B, n, nodes)
    BY TestParsed
  <2> QED
    BY <2>1 DEF TestsParse
<1>3. \A m \in 0 .. Len(t) : P[m] = AndAt(t, P, m)
  BY AndParses
<1>4. /\ Pass(v, 1, W) = v[1]
      /\ \A j \in 2 .. n : Pass(v, j, W) = Pass(v, j - 1, W) \cap v[j]
  BY <1>1, PassFacts
<1> HIDE DEF P
<1>5. Good(1)
  <2>1. PICK e : e = b + Len(B[1])
    OBVIOUS
  <2>2. 1 \in 1 .. n /\ e \in 0 .. Len(t)
    BY <1>1, <1>2, <2>1
  <2>3. P[e] = AndAt(t, P, e) /\ ParseTest(t, e) = Parsed(<<nodes[1]>>, b)
    BY <1>2, <1>3, <2>1, <2>2
  <2>4. P[e] = Parsed(<<nodes[1]>>, RestBefore(b))
    <3>1. CASE b = 0
      BY <2>3, <3>1, Words DEF AndAt, RestBefore
    <3>2. CASE b # 0
      <4>1. t[b] # Word("and")
        BY <3>2, Words
      <4> QED
        BY <2>3, <3>2, <4>1, Words DEF AndAt, RestBefore
    <3> QED
      BY <3>1, <3>2
  <2>5. Answers(<<nodes[1]>>, columns, W, v[1])
    BY <2>2, LeafTreeAnswers DEF Answered
  <2> QED
    BY <1>4, <2>1, <2>4, <2>5
<1>6. ASSUME NEW j \in 2 .. n, Good(j - 1) PROVE Good(j)
  <2>1. PICK e, d, c : e = b + Len(B[j]) /\ d = b + Len(B[j - 1]) /\ c = d + 1
    OBVIOUS
  <2>2. j \in 1 .. n /\ e \in 0 .. Len(t)
    BY <1>1, <1>2, <2>1
  <2>3. /\ P[e] = AndAt(t, P, e) /\ ParseTest(t, e) = Parsed(<<nodes[j]>>, c)
        /\ c # 0 /\ c - 1 = d /\ t[c] = Word("and")
    BY <1>2, <1>3, <2>1, <2>2
  <2>4. PICK tree : P[d] = Parsed(tree, RestBefore(b)) /\ Answers(tree, columns, W, Pass(v, j - 1, W))
    BY <1>6, <2>1
  <2>5. P[e] = Joined("and", P[d], <<nodes[j]>>)
    BY <2>3, Words DEF AndAt
  <2>6. P[e] = Parsed(JoinedTree(tree, nodes[j], "and"), RestBefore(b))
    BY <2>4, <2>5, JoinedParsed
  <2>7. Answers(JoinedTree(tree, nodes[j], "and"), columns, W, Pass(v, j - 1, W) \cap v[j])
    BY <2>2, <2>4, JoinedTreeAnswers DEF Answered
  <2> QED
    BY <1>4, <2>1, <2>6, <2>7
<1> HIDE DEF Good
<1>7. Bad = {}
  <2> SUFFICES ASSUME Bad # {} PROVE FALSE
    OBVIOUS
  <2>1. Bad \subseteq Nat
    OBVIOUS
  <2>2. PICK j \in Bad : \A k \in Bad : j <= k
    BY <2>1, LeastMember
  <2>3. j \in 1 .. n /\ ~Good(j)
    BY <2>2
  <2>4. j # 1
    BY <1>5, <2>3
  <2>5. j \in 2 .. n /\ j - 1 \in 1 .. n /\ j - 1 \notin Bad
    BY <1>1, <2>2, <2>3, <2>4
  <2>6. Good(j - 1)
    BY <2>5
  <2> QED
    BY <1>6, <2>3, <2>5, <2>6
<1>8. \A j \in 1 .. n : Good(j)
  BY <1>7
<1> QED
  BY <1>8 DEF Good, P

\* The tokens of an alternative end with those of a test.
LEMMA AlternativeEnds ==
    ASSUME NEW B, NEW n, NEW parts, NEW nodes, IsAlternative(B, n, parts, nodes), NEW s, s = B[n]
    PROVE  IsSequence(s) /\ Len(s) \in Nat /\ Len(s) > 0 /\ s[Len(s)] # Word("or")
<1>1. n \in Nat /\ n >= 1 /\ Spells(B, n, "and", parts) /\ \A j \in 1 .. n : IsSequence(parts[j])
  BY DEF IsAlternative, TakesTest
<1>2. n \in 1 .. n /\ IsSequence(s)
  BY <1>1 DEF Spells
<1>3. Lies(s, 0, B[n])
  BY <1>2, LiesWhole
<1>4. LieSpelt(s, 0, B, n, "and", parts)
  BY <1>1, <1>2, <1>3, LiesSpelt
<1>5. PICK p : p = parts[n]
  OBVIOUS
<1>6. IsSequence(p) /\ Len(p) \in Nat /\ Len(p) > 0 /\ p[Len(p)] # Word("or") /\ Len(p) \in 1 .. Len(p)
  <2>1. TakesTest(p, nodes[n])
    BY <1>2, <1>5 DEF IsAlternative
  <2> QED
    BY <2>1, SequenceFacts DEF TakesTest
<1>7. CASE n = 1
  BY <1>1, <1>5, <1>6, <1>7 DEF Spells
<1>8. CASE n # 1
  <2>1. n \in 2 .. n /\ n - 1 \in 1 .. n
    BY <1>1, <1>8
  <2>2. PICK e : e = Len(B[n - 1])
    OBVIOUS
  <2>3. e \in Nat
    <3>1. IsSequence(B[n - 1])
      BY <1>1, <2>1 DEF Spells
    <3> QED
      BY <2>2, <3>1, SequenceFacts
  <2>4. Lies(s, 0 + e + 1, p) /\ Len(s) = e + 1 + Len(p)
    BY <1>4, <1>5, <2>1, <2>2 DEF LieSpelt
  <2>5. s[(0 + e + 1) + Len(p)] = p[Len(p)]
    BY <1>6, <2>4 DEF Lies
  <2>6. (0 + e + 1) + Len(p) = Len(s) /\ Len(s) \in Nat /\ Len(s) > 0
    BY <1>6, <2>3, <2>4
  <2> QED
    BY <1>2, <1>6, <2>5, <2>6
<1> QED
  BY <1>7, <1>8

\* What is parsed of an alternative: the first one gives its tree; a single
\* test is joined to what is parsed before it; several tests behind another
\* alternative are given up, for the "or" that is looked for is lost.
OrTaken(P, t, b, e, n, nodes, columns, W, yes) ==
    /\ b = 0 => \E tree : P[e] = Parsed(tree, 0) /\ Answers(tree, columns, W, yes)
    /\ b > 0 /\ n = 1 => P[e] = Joined("or", P[b - 1], <<nodes[1]>>)
    /\ b > 1 /\ n # 1 /\ t[b - 1] # Word("or") => P[e] = Parsed(NoTree, (b - 1) - 1)

LEMMA AlternativeOr ==
    ASSUME NEW t, IsSequence(t), NEW B, NEW n, NEW parts, NEW nodes, IsAlternative(B, n, parts, nodes),
           NEW b, Lies(t, b, B[n]), b = 0 \/ t[b] = Word("or"),
           NEW columns, NEW W, NEW v, Answered(nodes, n, columns, W, v), \A j \in 1 .. n : v[j] \subseteq W,
           NEW e, e = b + Len(B[n])
    PROVE  OrTaken(ParseOr(t), t, b, e, n, nodes, columns, W, Pass(v, n, W))
<1> DEFINE P == ParseOr(t)
<1>1. n \in Nat /\ n >= 1 /\ 1 \in 1 .. n /\ n \in 1 .. n
  BY DEF IsAlternative
<1>2. /\ b \in Nat /\ Len(B[1]) \in Nat
      /\ \A j \in 1 .. n : b + Len(B[j]) \in 0 .. Len(t)
      /\ ParseTest(t, b + Len(B[1])) = Parsed(<<nodes[1]>>, b)
      /\ \A j \in 2 .. n :
            /\ ParseTest(t, b + Len(B[j])) = Parsed(<<nodes[j]>>, b + Len(B[j - 1]) + 1)
            /\ b + Len(B[j - 1]) + 1 # 0 /\ (b + Len(B[j - 1]) + 1) - 1 = b + Len(B[j - 1])
            /\ t[b + Len(B[j - 1]) + 1] = Word("and")
  <2>1. TestsParse(t, b, B, n, nodes)
    BY TestParsed
  <2> QED
    BY <2>1 DEF TestsParse
<1>3. e \in 0 .. Len(t) /\ P[e] = OrAt(t, P, e)
  <2>1. e \in 0 .. Len(t)
    BY <1>1, <1>2
  <2>2. \A m \in 0 .. Len(t) : P[m] = OrAt(t, P, m)
    BY OrParses
  <2> QED
    BY <2>1, <2>2
<1> HIDE DEF P
<1>4. CASE n = 1
  <2>1. ParseTest(t, e) = Parsed(<<nodes[1]>>, b)
    BY <1>2, <1>4
  <2>2. CASE b = 0
    <3>1. P[e] = Parsed(<<nodes[1]>>, 0)
      BY <1>3, <2>1, <2>2, Words DEF OrAt
    <3>2. Answers(<<nodes[1]>>, columns, W, v[1])
      BY <1>1, LeafTreeAnswers DEF Answered
    <3>3. Pass(v, 1, W) = v[1]
      BY <1>1, PassFacts
    <3> QED
      BY <1>4, <2>2, <3>1, <3>2, <3>3 DEF P, OrTaken
  <2>3. CASE b # 0
    <3>1. P[e] = Joined("or", P[b - 1], <<nodes[1]>>)
      BY <1>3, <2>1, <2>3, Words DEF OrAt
    <3> QED
      BY <1>4, <2>3, <3>1 DEF P, OrTaken
  <2> QED
    BY <2>2, <2>3
<1>5. CASE n # 1
  <2>1. n \in 2 .. n /\ n - 1 \in 1 .. n
    BY <1>1, <1>5
  <2>2. PICK d, c : d = b + Len(B[n - 1]) /\ c = d + 1
    OBVIOUS
  <2>3. ParseTest(t, e) = Parsed(<<nodes[n]>>, c) /\ c # 0 /\ c - 1 = d /\ t[c] = Word("and")
    BY <1>2, <2>1, <2>2
  <2>4. PICK tree : /\ ParseAnd(t)[d] = Parsed(tree, RestBefore(b))
                    /\ Answers(tree, columns, W, Pass(v, n - 1, W))
    <3>1. \A j \in 1 .. n : \E tree :
             /\ ParseAnd(t)[b + Len(B[j])] = Parsed(tree, RestBefore(b))
             /\ Answers(tree, columns, W, Pass(v, j, W))
      BY AlternativeAnd
    <3> QED
      BY <2>1, <2>2, <3>1
  <2>5. PICK all : all = JoinedTree(tree, nodes[n], "and")
    OBVIOUS
  <2>6. Joined("and", ParseAnd(t)[d], <<nodes[n]>>) = Parsed(all, RestBefore(b))
    BY <2>4, <2>5, JoinedParsed
  <2>7. Answers(all, columns, W, Pass(v, n, W))
    <3>1. Pass(v, n, W) = Pass(v, n - 1, W) \cap v[n]
      BY <1>1, <2>1, PassFacts
    <3>2. Answers(all, columns, W, Pass(v, n - 1, W) \cap v[n])
      BY <1>1, <2>4, <2>5, JoinedTreeAnswers DEF Answered
    <3> QED
      BY <3>1, <3>2
  <2>8. P[e] = LET conjunction == Parsed(all, RestBefore(b))
               IN  IF Stops(conjunction) THEN conjunction
                   ELSE IF t[conjunction.left] = Word("or")
                   THEN Joined("or", P[conjunction.left - 1], conjunction.tree)
                   ELSE Parsed(NoTree, conjunction.left - 1)
    BY <1>3, <2>3, <2>6, Words DEF OrAt
  <2>9. CASE b = 0
    <3>1. P[e] = Parsed(all, 0)
      BY <2>8, <2>9, Words DEF RestBefore
    <3> QED
      BY <1>5, <2>7, <2>9, <3>1 DEF P, OrTaken
  <2>10. CASE b # 0
    <3>1. b > 1 /\ t[b - 1] # Word("or") => P[e] = Parsed(NoTree, (b - 1) - 1)
      BY <1>2, <2>8, <2>10, Words DEF RestBefore
    <3> QED
      BY <1>5, <2>10, <3>1 DEF P, OrTaken
  <2> QED
    BY <2>9, <2>10
<1> QED
  BY <1>4, <1>5

-----------------------------------------------------------------------------
(* What is parsed of a condition.                                           *)

\* A tree in which the parser has left a NULL.
IsBroken(parsed) ==
    \/ parsed.crash
    \/ IsSequence(parsed.tree) /\ \E i \in 1 .. Len(parsed.tree) : parsed.tree[i].node = "null"

LEMMA BrokenNotProper ==
    ASSUME NEW parsed, IsBroken(parsed)
    PROVE  ~IsProper(parsed)
<1>1. CASE parsed.crash
  BY <1>1 DEF IsProper
<1>2. CASE ~parsed.crash
  <2>1. PICK tree : tree = parsed.tree
    OBVIOUS
  <2>2. IsSequence(tree) /\ \E i \in 1 .. Len(tree) : tree[i].node = "null"
    BY <1>2, <2>1 DEF IsBroken
  <2>3. DOMAIN tree = 1 .. Len(tree)
    BY <2>2, SequenceFacts
  <2> QED
    BY <2>1, <2>2, <2>3 DEF IsProper
<1> QED
  BY <1>1, <1>2

LEMMA TreeIsProper ==
    ASSUME NEW tree, IsTree(tree), NEW left
    PROVE  IsProper(Parsed(tree, left))
<1>1. DOMAIN tree = 1 .. Len(tree)
  BY SequenceFacts DEF IsTree
<1> QED
  BY <1>1, Words DEF IsProper, IsTree, IsLeaf

LEMMA NothingIsBroken ==
    ASSUME NEW left
    PROVE  IsBroken(Parsed(NoTree, left))
<1>1. PICK null : null = [node |-> "null"]
  OBVIOUS
<1>2. PICK tree : tree = <<null>>
  OBVIOUS
<1>3. IsSequence(tree) /\ Len(tree) = 1 /\ tree[1] = null /\ null.node = "null"
  BY <1>1, <1>2, SingleSequence
<1>4. Parsed(NoTree, left).tree = tree
  BY <1>1, <1>2, Words DEF NoTree
<1> QED
  BY <1>3, <1>4 DEF IsBroken

LEMMA JoinedIsBroken ==
    ASSUME NEW left, IsBroken(left), NEW op, NEW leaf
    PROVE  IsBroken(Joined(op, left, <<leaf>>))
<1>1. CASE left.crash
  BY <1>1 DEF Joined, Crashed, IsBroken
<1>2. CASE ~left.crash
  <2>1. PICK tree, x, y : tree = left.tree /\ x = <<leaf>> /\ y = <<[node |-> op, right |-> Len(x)]>>
    OBVIOUS
  <2>2. IsSequence(tree) /\ IsSequence(x) /\ IsSequence(y)
    BY <1>2, <2>1, SingleSequence DEF IsBroken
  <2>3. PICK i \in 1 .. Len(tree) : tree[i].node = "null"
    BY <1>2, <2>1 DEF IsBroken
  <2>4. PICK tx : tx = tree \o x
    OBVIOUS
  <2>5. IsSequence(tx) /\ Len(tx) = Len(tree) + Len(x) /\ \A k \in 1 .. Len(tree) : tx[k] = tree[k]
    BY <2>2, <2>4, ConcatFacts
  <2>6. PICK all : all = tx \o y
    OBVIOUS
  <2>7. IsSequence(all) /\ Len(all) = Len(tx) + Len(y) /\ \A k \in 1 .. Len(tx) : all[k] = tx[k]
    <3>1. IsSequence(tx) /\ IsSequence(y)
      BY <2>2, <2>5
    <3> QED
      BY <2>6, <3>1, ConcatFacts
  <2>8. Len(tree) \in Nat /\ Len(x) \in Nat /\ Len(y) \in Nat
    BY <2>2, SequenceFacts
  <2>9. i \in 1 .. Len(tx) /\ i \in 1 .. Len(all)
    BY <2>5, <2>7, <2>8
  <2>10. all[i].node = "null"
    BY <2>3, <2>5, <2>7, <2>9
  <2>11. Joined(op, left, x).tree = all
    BY <1>2, <2>1, <2>4, <2>6, Words DEF Joined
  <2> QED
    BY <2>1, <2>7, <2>9, <2>10, <2>11 DEF IsBroken
<1> QED
  BY <1>1, <1>2

\* The tokens of m alternatives with an "or" between them.  Those of
\* alternative i are B[i][n[i]].
IsCondition(C, m, B, n, parts, nodes) ==
    /\ m \in Nat /\ m >= 1
    /\ Spells(C, m, "or", [i \in 1 .. m |-> B[i][n[i]]])
    /\ \A i \in 1 .. m : IsAlternative(B[i], n[i], parts[i], nodes[i])

Singles(n, k) == \A i \in 2 .. k : n[i] = 1

\* The rows that pass all tests of one of the first k alternatives.
PassOne(v, n, k, W) == {row \in W : \E i \in 1 .. k : row \in Pass(v[i], n[i], W)}

LEMMA PassOneFacts ==
    ASSUME NEW v, NEW n, NEW W
    PROVE  /\ PassOne(v, n, 1, W) = Pass(v[1], n[1], W)
           /\ \A k \in Nat : k >= 2 => PassOne(v, n, k, W) = PassOne(v, n, k - 1, W) \cup Pass(v[k], n[k], W)
<1>1. PassOne(v, n, 1, W) = Pass(v[1], n[1], W)
  <2>1. \A i : i \in 1 .. 1 <=> i = 1
    OBVIOUS
  <2> QED
    BY <2>1 DEF PassOne, Pass
<1>2. ASSUME NEW k \in Nat, k >= 2
      PROVE  PassOne(v, n, k, W) = PassOne(v, n, k - 1, W) \cup Pass(v[k], n[k], W)
  <2>1. \A i : i \in 1 .. k <=> i \in 1 .. k - 1 \/ i = k
    BY <1>2
  <2> QED
    BY <2>1 DEF PassOne, Pass
<1> QED
  BY <1>1, <1>2

AllAnswered(m, nodes, n, columns, W, v) ==
    \A i \in 1 .. m : Answered(nodes[i], n[i], columns, W, v[i]) /\ \A j \in 1 .. n[i] : v[i][j] \subseteq W

\* What is parsed of the first k alternatives, in a condition of which they are
\* a part: their tree, if the others than the first are single tests, and else
\* nothing that is used.
LEMMA AlternativesParsed ==
    ASSUME NEW t, NEW C, NEW m, NEW B, NEW n, NEW parts, NEW nodes, IsCondition(C, m, B, n, parts, nodes),
           t = C[m],
           NEW columns, NEW W, NEW v, AllAnswered(m, nodes, n, columns, W, v)
    PROVE  \A k \in 1 .. m :
              /\ Singles(n, k) => \E tree : /\ ParseOr(t)[Len(C[k])] = Parsed(tree, 0)
                                            /\ Answers(tree, columns, W, PassOne(v, n, k, W))
              /\ ~Singles(n, k) => IsBroken(ParseOr(t)[Len(C[k])])
<1> DEFINE P == ParseOr(t)
           Right(k) == \E tree : /\ P[Len(C[k])] = Parsed(tree, 0)
                                 /\ Answers(tree, columns, W, PassOne(v, n, k, W))
           Good(k) == /\ Singles(n, k) => Right(k)
                      /\ ~Singles(n, k) => IsBroken(P[Len(C[k])])
           whole == [i \in 1 .. m |-> B[i][n[i]]]
           Bad == {k \in 1 .. m : ~Good(k)}
<1>1. m \in Nat /\ m >= 1 /\ 1 \in 1 .. m /\ m \in 1 .. m /\ Spells(C, m, "or", whole)
  BY DEF IsCondition
<1>2. \A i \in 1 .. m : IsAlternative(B[i], n[i], parts[i], nodes[i]) /\ whole[i] = B[i][n[i]]
  BY DEF IsCondition
<1> HIDE DEF whole
<1>3. ASSUME NEW i \in 1 .. m
      PROVE  IsSequence(whole[i]) /\ Len(whole[i]) \in Nat /\ Len(whole[i]) > 0
             /\ whole[i][Len(whole[i])] # Word("or")
  <2>1. PICK s : s = B[i][n[i]]
    OBVIOUS
  <2>2. IsAlternative(B[i], n[i], parts[i], nodes[i]) /\ whole[i] = s
    BY <1>2, <2>1
  <2>3. IsSequence(s) /\ Len(s) \in Nat /\ Len(s) > 0 /\ s[Len(s)] # Word("or")
    BY <2>1, <2>2, AlternativeEnds
  <2> QED
    BY <2>2, <2>3
<1>4. IsSequence(t) /\ Len(t) \in Nat /\ Lies(t, 0, C[m])
  <2>1. IsSequence(t)
    BY <1>1 DEF Spells
  <2> QED
    BY <2>1, LiesWhole, SequenceFacts
<1>5. LieSpelt(t, 0, C, m, "or", whole)
  BY <1>1, <1>3, <1>4, LiesSpelt
<1>6. \A k \in 1 .. m : Len(C[k]) \in Nat /\ Lies(t, 0, C[k])
  BY <1>1, <1>5, SequenceFacts DEF Spells, LieSpelt
<1>7. C[1] = whole[1]
  BY <1>1 DEF Spells
<1>8. \A k \in 2 .. m : /\ t[0 + Len(C[k - 1]) + 1] = Word("or")
                        /\ Lies(t, 0 + Len(C[k - 1]) + 1, whole[k])
                        /\ Len(C[k]) = Len(C[k - 1]) + 1 + Len(whole[k])
  BY <1>5 DEF LieSpelt
\* The first k end with the token that alternative k ends with.
<1>9. ASSUME NEW k \in 1 .. m PROVE Len(C[k]) > 0 /\ t[Len(C[k])] # Word("or")
  <2>1. PICK w : w = whole[k]
    OBVIOUS
  <2>2. Len(w) \in Nat /\ Len(w) > 0 /\ w[Len(w)] # Word("or") /\ Len(w) \in 1 .. Len(w)
    BY <1>3, <2>1
  <2>3. CASE k = 1
    <3>1. t[0 + Len(w)] = w[Len(w)] /\ C[k] = w
      BY <1>6, <1>7, <2>1, <2>2, <2>3 DEF Lies
    <3> QED
      BY <2>2, <3>1
  <2>4. CASE k # 1
    <3>1. k \in 2 .. m /\ k - 1 \in 1 .. m
      BY <1>1, <2>4
    <3>2. PICK d : d = Len(C[k - 1])
      OBVIOUS
    <3>3. d \in Nat /\ Lies(t, 0 + d + 1, w) /\ Len(C[k]) = d + 1 + Len(w)
      BY <1>6, <1>8, <2>1, <3>1, <3>2
    <3>4. t[(0 + d + 1) + Len(w)] = w[Len(w)]
      BY <2>2, <3>3 DEF Lies
    <3>5. (0 + d + 1) + Len(w) = Len(C[k]) /\ Len(C[k]) > 0
      BY <2>2, <3>3
    <3> QED
      BY <2>2, <3>4, <3>5
  <2> QED
    BY <2>3, <2>4
<1>10. Good(1)
  <2>1. PICK s, e : s = B[1][n[1]] /\ e = 0 + Len(s)
    OBVIOUS
  <2>2. whole[1] = s /\ C[1] = s /\ IsAlternative(B[1], n[1], parts[1], nodes[1]) /\ Lies(t, 0, s)
    BY <1>1, <1>2, <1>6, <1>7, <2>1
  <2>3. Answered(nodes[1], n[1], columns, W, v[1]) /\ \A j \in 1 .. n[1] : v[1][j] \subseteq W
    BY <1>1 DEF AllAnswered
  <2>4. \E tree : P[e] = Parsed(tree, 0) /\ Answers(tree, columns, W, Pass(v[1], n[1], W))
    <3>1. Lies(t, 0, B[1][n[1]]) /\ e = 0 + Len(B[1][n[1]])
      BY <2>1, <2>2
    <3>2. PICK bb, nn, pp, nd, vv : bb = B[1] /\ nn = n[1] /\ pp = parts[1] /\ nd = nodes[1] /\ vv = v[1]
      OBVIOUS
    <3>3. /\ IsAlternative(bb, nn, pp, nd) /\ Lies(t, 0, bb[nn]) /\ e = 0 + Len(bb[nn])
          /\ Answered(nd, nn, columns, W, vv) /\ \A j \in 1 .. nn : vv[j] \subseteq W
      BY <2>2, <2>3, <3>1, <3>2
    <3>4. OrTaken(P, t, 0, e, nn, nd, columns, W, Pass(vv, nn, W))
      BY <1>4, <3>3, AlternativeOr
    <3> HIDE DEF P
    <3> QED
      BY <3>2, <3>4 DEF OrTaken
  <2>5. e = Len(C[1])
    BY <1>1, <1>6, <2>1, <2>2
  <2>6. Singles(n, 1)
    BY DEF Singles
  <2> HIDE DEF P
  <2> QED
    BY <2>4, <2>5, <2>6, PassOneFacts
<1>11. ASSUME NEW k \in 2 .. m, Good(k - 1) PROVE Good(k)
  <2>0. k \in 1 .. m /\ k - 1 \in 1 .. m /\ k \in Nat /\ k >= 2
    BY <1>1
  <2>1. PICK s, d, b, e : s = B[k][n[k]] /\ d = Len(C[k - 1]) /\ b = d + 1 /\ e = b + Len(s)
    OBVIOUS
  <2>2. whole[k] = s /\ IsAlternative(B[k], n[k], parts[k], nodes[k])
    BY <1>2, <2>0, <2>1
  <2>3. d \in Nat /\ d > 0 /\ t[d] # Word("or")
    BY <1>6, <1>9, <2>0, <2>1
  <2>4. b > 1 /\ b > 0 /\ b # 0 /\ b - 1 = d
    BY <2>1, <2>3
  <2>5. t[b] = Word("or") /\ Lies(t, b, s) /\ Len(C[k]) = d + 1 + Len(s)
    <3>1. 0 + Len(C[k - 1]) + 1 = b
      BY <2>1, <2>3
    <3> QED
      BY <1>8, <2>1, <2>2, <3>1
  <2>6. e = Len(C[k])
    BY <2>1, <2>5
  <2>7. Answered(nodes[k], n[k], columns, W, v[k]) /\ \A j \in 1 .. n[k] : v[k][j] \subseteq W
    BY <2>0 DEF AllAnswered
  <2>8. /\ n[k] = 1 => P[e] = Joined("or", P[d], <<nodes[k][1]>>)
        /\ n[k] # 1 => P[e] = Parsed(NoTree, d - 1)
    <3>1. Lies(t, b, B[k][n[k]]) /\ e = b + Len(B[k][n[k]])
      BY <2>1, <2>5
    <3>2. PICK bb, nn, pp, nd, vv : bb = B[k] /\ nn = n[k] /\ pp = parts[k] /\ nd = nodes[k] /\ vv = v[k]
      OBVIOUS
    <3>3. /\ IsAlternative(bb, nn, pp, nd) /\ Lies(t, b, bb[nn]) /\ e = b + Len(bb[nn]) /\ t[b] = Word("or")
          /\ Answered(nd, nn, columns, W, vv) /\ \A j \in 1 .. nn : vv[j] \subseteq W
      BY <2>2, <2>5, <2>7, <3>1, <3>2
    <3>4. OrTaken(P, t, b, e, nn, nd, columns, W, Pass(vv, nn, W))
      BY <1>4, <3>3, AlternativeOr
    <3> HIDE DEF P
    <3> QED
      BY <2>3, <2>4, <3>2, <3>4 DEF OrTaken
  <2> HIDE DEF P
  <2>9. Singles(n, k) <=> Singles(n, k - 1) /\ n[k] = 1
    <3>1. \A i : i \in 2 .. k <=> i \in 2 .. k - 1 \/ i = k
      BY <2>0
    <3> QED
      BY <3>1 DEF Singles
  <2>10. CASE Singles(n, k)
    <3>1. PICK tree : P[d] = Parsed(tree, 0) /\ Answers(tree, columns, W, PassOne(v, n, k - 1, W))
      BY <1>11, <2>1, <2>9, <2>10
    <3>2. P[e] = Parsed(JoinedTree(tree, nodes[k][1], "or"), 0)
      BY <2>8, <2>9, <2>10, <3>1, JoinedParsed
    <3>3. LeafAnswers(nodes[k][1], columns, W, v[k][1])
      <4>1. 1 \in 1 .. n[k]
        BY <2>9, <2>10
      <4> QED
        BY <2>7, <4>1 DEF Answered
    <3>4. Answers(JoinedTree(tree, nodes[k][1], "or"), columns, W, PassOne(v, n, k - 1, W) \cup v[k][1])
      BY <3>1, <3>3, JoinedTreeAnswers
    <3>5. Pass(v[k], n[k], W) = v[k][1]
      <4>1. n[k] = 1 /\ \A j \in 1 .. 1 : v[k][j] \subseteq W
        BY <2>7, <2>9, <2>10
      <4> QED
        BY <4>1, PassFacts
    <3>6. PassOne(v, n, k, W) = PassOne(v, n, k - 1, W) \cup v[k][1]
      <4>1. PassOne(v, n, k, W) = PassOne(v, n, k - 1, W) \cup Pass(v[k], n[k], W)
        BY <2>0, PassOneFacts
      <4> QED
        BY <3>5, <4>1
    <3> QED
      BY <2>6, <2>10, <3>2, <3>4, <3>6
  <2>11. CASE ~Singles(n, k)
    <3>1. CASE n[k] # 1
      BY <2>6, <2>8, <2>11, <3>1, NothingIsBroken
    <3>2. CASE n[k] = 1
      <4>1. IsBroken(P[d])
        BY <1>11, <2>1, <2>9, <2>11, <3>2
      <4> QED
        BY <2>6, <2>8, <2>11, <3>2, <4>1, JoinedIsBroken
    <3> QED
      BY <3>1, <3>2
  <2> QED
    BY <2>10, <2>11
<1> HIDE DEF Good
<1>12. Bad = {}
  <2> SUFFICES ASSUME Bad # {} PROVE FALSE
    OBVIOUS
  <2>1. Bad \subseteq Nat
    OBVIOUS
  <2>2. PICK k \in Bad : \A l \in Bad : k <= l
    BY <2>1, LeastMember
  <2>3. k \in 1 .. m /\ ~Good(k)
    BY <2>2
  <2>4. k # 1
    BY <1>10, <2>3
  <2>5. k \in 2 .. m /\ k - 1 \in 1 .. m /\ k - 1 \notin Bad
    BY <1>1, <2>2, <2>3, <2>4
  <2>6. Good(k - 1)
    BY <2>5
  <2> QED
    BY <1>11, <2>3, <2>5, <2>6
<1>13. \A k \in 1 .. m : Good(k)
  BY <1>12
<1> QED
  BY <1>13 DEF Good

-----------------------------------------------------------------------------
(* From a condition to what is parsed of its text.                          *)

TestTexts(alternative, columns) == [j \in DOMAIN alternative |-> SpellTest(alternative[j], columns)]

PartsOf(alternative, columns) ==
    [j \in 1 .. Len(alternative) |-> Stripped(SpellTest(alternative[j], columns))]

NodesOf(alternative, columns) == [j \in 1 .. Len(alternative) |-> NodeOf(alternative[j], columns)]

\* B gives the tokens of the first tests of an alternative.
Tells(B, alternative, columns) ==
    /\ IsAlternative(B, Len(alternative), PartsOf(alternative, columns), NodesOf(alternative, columns))
    /\ Stripped(SpellWith("and", TestTexts(alternative, columns))) = B[Len(alternative)]

LEMMA AlternativeSpelt ==
    ASSUME NEW alternative, NEW columns, IsTests(alternative, columns),
           \A j \in 1 .. Len(alternative) : ~alternative[j].spaced
    PROVE  /\ Regular(SpellWith("and", TestTexts(alternative, columns)))
           /\ \E B : Tells(B, alternative, columns)
<1>1. PICK n : n = Len(alternative)
  OBVIOUS
<1>2. n \in Nat /\ n >= 1 /\ IsSequence(alternative) /\ DOMAIN alternative = 1 .. n
  BY <1>1, SequenceFacts DEF IsTests
<1>3. PICK texts : texts = TestTexts(alternative, columns)
  OBVIOUS
<1>4. /\ IsSequence(texts) /\ Len(texts) = n
      /\ \A j \in 1 .. n : texts[j] = SpellTest(alternative[j], columns)
  <2>1. texts = [j \in DOMAIN alternative |-> texts[j]] /\ \A j \in 1 .. n : texts[j] = SpellTest(alternative[j], columns)
    BY <1>2, <1>3 DEF TestTexts
  <2> QED
    BY <1>1, <1>2, <2>1, MappedSequence
<1>5. ASSUME NEW j \in 1 .. n
      PROVE  Regular(texts[j]) /\ TakesTest(Stripped(texts[j]), NodeOf(alternative[j], columns))
  <2>1. PICK test : test = alternative[j]
    OBVIOUS
  <2>2. IsTest(test, columns) /\ test.spaced = FALSE /\ texts[j] = SpellTest(test, columns)
    BY <1>1, <1>4, <2>1 DEF IsTests
  <2>3. Regular(SpellTest(test, columns)) /\ TakesTest(Stripped(SpellTest(test, columns)), NodeOf(test, columns))
    BY <2>2, TruthSpelt, ComparisonSpelt
  <2> QED
    BY <2>1, <2>2, <2>3
<1>6. IsNested(texts)
  BY <1>4, <1>5 DEF IsNested, Regular, IsItems
<1>7. /\ Regular(SpellWith("and", texts))
      /\ \E B : /\ Spells(B, n, "and", [j \in 1 .. n |-> Stripped(texts[j])])
                /\ Stripped(SpellWith("and", texts)) = B[n]
  BY <1>2, <1>4, <1>5, <1>6, SpellWithTokens
<1>8. PICK parts, nodes : parts = PartsOf(alternative, columns) /\ nodes = NodesOf(alternative, columns)
  OBVIOUS
<1>9. [j \in 1 .. n |-> Stripped(texts[j])] = parts
  BY <1>1, <1>4, <1>8 DEF PartsOf
<1>10. \A j \in 1 .. n : parts[j] = Stripped(texts[j]) /\ nodes[j] = NodeOf(alternative[j], columns)
  BY <1>1, <1>4, <1>8 DEF PartsOf, NodesOf
<1>11. PICK B : Spells(B, n, "and", parts) /\ Stripped(SpellWith("and", texts)) = B[n]
  BY <1>7, <1>9
<1>12. IsAlternative(B, n, parts, nodes)
  BY <1>2, <1>5, <1>10, <1>11 DEF IsAlternative
<1>13. Tells(B, alternative, columns)
  BY <1>1, <1>3, <1>8, <1>11, <1>12 DEF Tells
<1> QED
  BY <1>3, <1>7, <1>13

LengthsOf(alternatives) == [i \in 1 .. Len(alternatives) |-> Len(alternatives[i])]

AllParts(alternatives, columns) == [i \in 1 .. Len(alternatives) |-> PartsOf(alternatives[i], columns)]

AllNodes(alternatives, columns) == [i \in 1 .. Len(alternatives) |-> NodesOf(alternatives[i], columns)]

LEMMA ConditionSpelt ==
    ASSUME NEW alternatives, NEW columns, IsMeant(alternatives, columns), Unspaced(alternatives)
    PROVE  /\ IsSequence(Spelling(alternatives, columns))
           /\ \E C, B : /\ IsCondition(C, Len(alternatives), B, LengthsOf(alternatives),
                                       AllParts(alternatives, columns), AllNodes(alternatives, columns))
                        /\ Tokens(Spelling(alternatives, columns)) = C[Len(alternatives)]
<1>1. PICK m : m = Len(alternatives)
  OBVIOUS
<1>2. m \in Nat /\ m >= 1 /\ IsSequence(alternatives) /\ DOMAIN alternatives = 1 .. m
  BY <1>1, SequenceFacts DEF IsMeant
<1>3. \A i \in 1 .. m : IsTests(alternatives[i], columns)
  BY <1>1 DEF IsMeant
<1>4. \A i \in 1 .. m : \A j \in 1 .. Len(alternatives[i]) : ~alternatives[i][j].spaced
  <2>1. \A i \in 1 .. m : DOMAIN alternatives[i] = 1 .. Len(alternatives[i])
    BY <1>3, SequenceFacts DEF IsTests
  <2> QED
    BY <1>2, <2>1 DEF Unspaced
<1> DEFINE Text(i) == SpellWith("and", TestTexts(alternatives[i], columns))
<1>5. \A i \in 1 .. m : Regular(Text(i)) /\ \E B : Tells(B, alternatives[i], columns)
  BY <1>3, <1>4, AlternativeSpelt
<1> DEFINE B == [i \in 1 .. m |-> CHOOSE b : Tells(b, alternatives[i], columns)]
<1>6. \A i \in 1 .. m : Tells(B[i], alternatives[i], columns)
  BY <1>5
<1> HIDE DEF B
<1>7. PICK texts : texts = [i \in DOMAIN alternatives |-> Text(i)]
  OBVIOUS
<1>8. IsSequence(texts) /\ Len(texts) = m /\ \A i \in 1 .. m : texts[i] = Text(i)
  <2>1. texts = [i \in DOMAIN alternatives |-> texts[i]] /\ \A i \in 1 .. m : texts[i] = Text(i)
    BY <1>2, <1>7
  <2> QED
    BY <1>1, <1>2, <2>1, MappedSequence
<1>9. Spelling(alternatives, columns) = SpellWith("or", texts) \o <<Space>>
  BY <1>7 DEF Spelling, TestTexts
<1> HIDE DEF Text
<1>10. IsNested(texts) /\ \A i \in 1 .. m : Regular(texts[i])
  BY <1>5, <1>8 DEF IsNested, Regular, IsItems
<1>11. PICK C : /\ Spells(C, m, "or", [i \in 1 .. m |-> Stripped(texts[i])])
                /\ Stripped(SpellWith("or", texts)) = C[m]
                /\ Regular(SpellWith("or", texts))
  BY <1>2, <1>8, <1>10, SpellWithTokens
<1>12. PICK n, parts, nodes : /\ n = LengthsOf(alternatives)
                              /\ parts = AllParts(alternatives, columns)
                              /\ nodes = AllNodes(alternatives, columns)
  OBVIOUS
<1>13. ASSUME NEW i \in 1 .. m
       PROVE  IsAlternative(B[i], n[i], parts[i], nodes[i]) /\ Stripped(texts[i]) = B[i][n[i]]
  <2>1. /\ n[i] = Len(alternatives[i])
        /\ parts[i] = PartsOf(alternatives[i], columns)
        /\ nodes[i] = NodesOf(alternatives[i], columns)
    BY <1>1, <1>12 DEF LengthsOf, AllParts, AllNodes
  <2>2. texts[i] = SpellWith("and", TestTexts(alternatives[i], columns))
    BY <1>8 DEF Text
  <2> QED
    BY <1>6, <2>1, <2>2 DEF Tells
<1>14. [i \in 1 .. m |-> Stripped(texts[i])] = [i \in 1 .. m |-> B[i][n[i]]]
  BY <1>13
<1>15. IsCondition(C, m, B, n, parts, nodes)
  BY <1>2, <1>11, <1>13, <1>14 DEF IsCondition
<1>16. Tokens(Spelling(alternatives, columns)) = C[m] /\ IsSequence(Spelling(alternatives, columns))
  <2>1. PICK text, gap : text = SpellWith("or", texts) /\ gap = <<Space>>
    OBVIOUS
  <2>2. IsSequence(gap) /\ Len(gap) = 1 /\ gap[1] = Space
    BY <2>1, SingleSequence
  <2>3. Space.kind = "space" /\ Space = Item(Space.kind, Space.text)
    BY DEF Space, Item
  <2>4. Regular(gap) /\ Len(gap) > 0 /\ gap[1].kind = "space"
    BY <2>2, <2>3 DEF Regular, IsItems, IsPart
  <2>5. Regular(text) /\ IsSequence(text)
    BY <1>11, <2>1 DEF Regular, IsItems
  <2>6. Regular(text \o gap) /\ IsSequence(text \o gap)
    <3>1. Regular(text \o gap)
      BY <2>4, <2>5, RegularConcat
    <3> QED
      BY <3>1 DEF Regular, IsItems
  <2>7. Tokens(text \o gap) = Stripped(text \o gap)
    BY <2>6, TokensAreItems
  <2>8. Stripped(text \o gap) = Stripped(text) \o Stripped(gap) /\ IsSequence(Stripped(text))
    BY <2>2, <2>5, StrippedConcat
  <2>9. Stripped(gap) = <<>>
    BY <2>1, <2>3, StrippedOne DEF TokenOf
  <2>10. Stripped(text) \o <<>> = Stripped(text)
    BY <2>8, ConcatEmpty
  <2> QED
    BY <1>9, <1>11, <2>1, <2>6, <2>7, <2>8, <2>9, <2>10
<1> QED
  BY <1>1, <1>12, <1>15, <1>16

\* Each test of the condition is answered as it is meant.
TestsAnswered(alternatives, columns, read, W) ==
    \A i \in 1 .. Len(alternatives) : \A j \in 1 .. Len(alternatives[i]) :
        LeafAnswers(NodeOf(alternatives[i][j], columns), read, W,
                    {row \in W : Holds(alternatives[i][j], columns, row)})

\* The parser understands what is Understood, and then its tree answers as the
\* condition is meant; of what it does not understand it makes no tree.
LEMMA ConditionParsed ==
    ASSUME NEW alternatives, NEW columns, IsMeant(alternatives, columns), Unspaced(alternatives),
           NEW read, NEW W, TestsAnswered(alternatives, columns, read, W),
           NEW p, p = ParseConditional(Tokens(Spelling(alternatives, columns)))
    PROVE  /\ Understood(alternatives) =>
                 /\ IsProper(p)
                 /\ Answers(p.tree, read, W, {row \in W : Meaning(alternatives, columns, row)})
           /\ ~Understood(alternatives) => ~IsProper(p)
<1>1. PICK m, n, parts, nodes : /\ m = Len(alternatives) /\ n = LengthsOf(alternatives)
                                /\ parts = AllParts(alternatives, columns)
                                /\ nodes = AllNodes(alternatives, columns)
  OBVIOUS
<1>2. m \in Nat /\ m >= 1 /\ m \in 1 .. m /\ IsSequence(alternatives) /\ DOMAIN alternatives = 1 .. m
  BY <1>1, SequenceFacts DEF IsMeant
<1>3. \A i \in 1 .. m : n[i] = Len(alternatives[i]) /\ DOMAIN alternatives[i] = 1 .. n[i] /\ n[i] \in Nat
  BY <1>1, <1>2, SequenceFacts DEF LengthsOf, IsMeant, IsTests
<1>4. PICK C, B : /\ IsCondition(C, m, B, n, parts, nodes)
                  /\ Tokens(Spelling(alternatives, columns)) = C[m]
  BY <1>1, ConditionSpelt
<1>5. PICK t : t = C[m]
  OBVIOUS
<1> DEFINE Yes(i, j) == {row \in W : Holds(alternatives[i][j], columns, row)}
<1>6. PICK v : v = [i \in 1 .. m |-> [j \in 1 .. n[i] |-> Yes(i, j)]]
  OBVIOUS
<1>7. \A i \in 1 .. m : \A j \in 1 .. n[i] : v[i][j] = Yes(i, j) /\ v[i][j] \subseteq W
  BY <1>6
<1>8. AllAnswered(m, nodes, n, read, W, v)
  <2> SUFFICES ASSUME NEW i \in 1 .. m PROVE Answered(nodes[i], n[i], read, W, v[i])
    BY <1>7 DEF AllAnswered
  <2>1. nodes[i] = NodesOf(alternatives[i], columns)
    BY <1>1 DEF AllNodes
  <2>2. ASSUME NEW j \in 1 .. n[i] PROVE LeafAnswers(nodes[i][j], read, W, v[i][j])
    <3>1. nodes[i][j] = NodeOf(alternatives[i][j], columns)
      BY <1>3, <2>1 DEF NodesOf
    <3>2. LeafAnswers(NodeOf(alternatives[i][j], columns), read, W, Yes(i, j))
      BY <1>1, <1>3 DEF TestsAnswered
    <3> QED
      BY <1>7, <3>1, <3>2
  <2> QED
    BY <2>2 DEF Answered
<1>9. PICK e : e = Len(C[m])
  OBVIOUS
<1>10. /\ Singles(n, m) => \E tree : /\ ParseOr(t)[e] = Parsed(tree, 0)
                                     /\ Answers(tree, read, W, PassOne(v, n, m, W))
       /\ ~Singles(n, m) => IsBroken(ParseOr(t)[e])
  <2>1. \A k \in 1 .. m :
              /\ Singles(n, k) => \E tree : /\ ParseOr(t)[Len(C[k])] = Parsed(tree, 0)
                                            /\ Answers(tree, read, W, PassOne(v, n, k, W))
              /\ ~Singles(n, k) => IsBroken(ParseOr(t)[Len(C[k])])
    BY <1>4, <1>5, <1>8, AlternativesParsed
  <2> QED
    BY <1>2, <1>9, <2>1
<1>11. p = ParseOr(t)[e]
  BY <1>4, <1>5, <1>9 DEF ParseConditional
<1>12. Understood(alternatives) <=> Singles(n, m)
  <2>1. \A i \in 2 .. m : n[i] = Len(alternatives[i])
    BY <1>2, <1>3
  <2> QED
    BY <1>1, <2>1 DEF Understood, Singles
<1>13. PassOne(v, n, m, W) = {row \in W : Meaning(alternatives, columns, row)}
  <2>1. ASSUME NEW row \in W
        PROVE  (\E i \in 1 .. m : row \in Pass(v[i], n[i], W)) <=> Meaning(alternatives, columns, row)
    <3>1. \A i \in 1 .. m : \A j \in 1 .. n[i] : row \in v[i][j] <=> Holds(alternatives[i][j], columns, row)
      BY <1>7
    <3>2. \A i \in 1 .. m : row \in Pass(v[i], n[i], W) <=> \A j \in 1 .. n[i] : Holds(alternatives[i][j], columns, row)
      BY <3>1 DEF Pass
    <3>3. Meaning(alternatives, columns, row) <=>
             \E i \in 1 .. m : \A j \in 1 .. n[i] : Holds(alternatives[i][j], columns, row)
      BY <1>2, <1>3 DEF Meaning
    <3> QED
      BY <3>2, <3>3
  <2> QED
    BY <2>1 DEF PassOne
<1>14. CASE Understood(alternatives)
  <2>1. PICK tree : p = Parsed(tree, 0) /\ Answers(tree, read, W, PassOne(v, n, m, W))
    BY <1>10, <1>11, <1>12, <1>14
  <2>2. p.tree = tree /\ IsProper(p)
    BY <2>1, TreeIsProper, Words DEF Answers
  <2> QED
    BY <1>13, <1>14, <2>1, <2>2
<1>15. CASE ~Understood(alternatives)
  BY <1>10, <1>11, <1>12, <1>15, BrokenNotProper
<1> QED
  BY <1>14, <1>15

-----------------------------------------------------------------------------
(* A test answers as it is meant.                                           *)

LEMMA NamedOnly ==
    ASSUME NEW columns, IsSequence(columns), NEW c, OnlyColumn(columns, c)
    PROVE  ColumnsNamed(columns, columns[c].name) = {c}
<1>1. DOMAIN columns = 1 .. Len(columns) /\ Len(columns) \in Nat
  BY SequenceFacts
<1>2. c \in 1 .. Len(columns) /\ \A k \in 1 .. Len(columns) : columns[k].name = columns[c].name <=> k = c
  BY DEF OnlyColumn
<1>3. c <= c
  BY <1>2
<1> QED
  BY <1>1, <1>2, <1>3 DEF ColumnsNamed

LEMMA ConstantRead ==
    ASSUME NEW test, NEW columns, test.kind = "value", IsAnswerable(test, columns),
           NEW type, type = columns[test.column].type,
           type \in {"INTEGER", "DOUBLE", "BOOL", "CHAR", "VARCHAR"}
    PROVE  Constant(type, ValueToken(type, test.value).text) = test.value
<1>1. CASE type \in {"INTEGER", "DOUBLE"}
  BY <1>1 DEF IsAnswerable
<1>2. CASE type = "BOOL"
  <2>1. test.value \in {0, 1}
    BY <1>2 DEF IsAnswerable
  <2>2. ValueToken(type, test.value).text = IF test.value = 1 THEN "true" ELSE "false"
    BY <1>2 DEF ValueToken, Item
  <2> QED
    BY <1>2, <2>1, <2>2 DEF Constant
<1>3. CASE type \in {"CHAR", "VARCHAR"}
  BY <1>3 DEF Constant, ValueToken, Item
<1> QED
  BY <1>1, <1>2, <1>3

\* The test finds a value in each column that it looks at.
FindsValues(test, row) ==
    test.kind # "truth" => /\ row[test.column] # Unset
                           /\ test.kind = "column" => row[test.value] # Unset

LEMMA TestAnswered ==
    ASSUME NEW columns, IsSequence(columns), NEW test, IsTest(test, columns), IsAnswerable(test, columns),
           \A c \in 1 .. Len(columns) : columns[c].type \in {"INTEGER", "DOUBLE", "BOOL", "CHAR", "VARCHAR"},
           NEW row, FindsValues(test, row)
    PROVE  LeafOutcome(NodeOf(test, columns), columns, row) = Outcome(Holds(test, columns, row))
<1>1. CASE test.kind = "truth"
  <2>1. PICK node : node = [node |-> "truth", token |-> Word(test.value)]
    OBVIOUS
  <2>2. node.node = "truth" /\ node.token.text = test.value
    BY <2>1 DEF Word, Item
  <2>3. NodeOf(test, columns) = node
    BY <1>1, <2>1 DEF NodeOf
  <2>4. LeafOutcome(node, columns, row) = Outcome(test.value = "true")
    BY <2>2 DEF LeafOutcome
  <2>5. Holds(test, columns, row) <=> test.value = "true"
    BY <1>1 DEF Holds
  <2> QED
    BY <2>3, <2>4, <2>5 DEF Outcome
<1>2. CASE test.kind # "truth"
  <2>1. PICK c, type, r, l : /\ c = test.column /\ type = columns[c].type
                             /\ r = RightToken(test, columns) /\ l = Word(columns[c].name)
    OBVIOUS
  <2>2. PICK node : node = [node |-> "test", left |-> l, relation |-> test.relation, right |-> r]
    OBVIOUS
  <2>3. /\ NodeOf(test, columns) = node /\ node.node = "test"
        /\ node.left = l /\ node.right = r /\ node.relation = test.relation
    BY <1>2, <2>1, <2>2 DEF NodeOf
  <2>4. l.kind = "word" /\ l.text = columns[c].name /\ ~IsConstant(l)
    BY <2>1 DEF Word, Item, IsConstant
  <2>5. OnlyColumn(columns, c) /\ c \in 1 .. Len(columns)
    BY <1>2, <2>1 DEF IsAnswerable, OnlyColumn
  <2>6. ColumnsNamed(columns, l.text) = {c}
    BY <2>4, <2>5, NamedOnly
  <2>7. (CHOOSE i \in {c} : TRUE) = c
    OBVIOUS
  <2>8. LeafOutcome(node, columns, row) = Test(node, columns, row)
    BY <2>3 DEF LeafOutcome
  <2>9. row[c] # Unset
    BY <1>2, <2>1 DEF FindsValues
  <2>10. CASE test.kind = "value"
    <3>1. IsConstant(r) /\ r = ValueToken(type, test.value)
      BY <1>2, <2>1, <2>10, RightTokenFacts DEF RightToken
    <3>2. Constant(type, r.text) = test.value /\ test.value # Unset
      <4>1. type \in {"INTEGER", "DOUBLE", "BOOL", "CHAR", "VARCHAR"}
        BY <2>1, <2>5
      <4> QED
        BY <1>2, <2>1, <2>10, <3>1, <4>1, ConstantRead DEF IsAnswerable
    <3>3. Test(node, columns, row) = Outcome(Compare(type, row[c], test.relation, test.value))
      BY <2>1, <2>3, <2>4, <2>6, <2>7, <2>9, <3>1, <3>2 DEF Test
    <3>4. Holds(test, columns, row) = Compare(type, row[c], test.relation, test.value)
      BY <2>1, <2>10 DEF Holds
    <3> QED
      BY <2>3, <2>8, <3>3, <3>4
  <2>11. CASE test.kind = "column"
    <3>1. PICK d : d = test.value
      OBVIOUS
    <3>2. r = Word(columns[d].name) /\ OnlyColumn(columns, d) /\ SameField(columns[d].type, type)
      BY <2>1, <2>11, <3>1 DEF RightToken, IsAnswerable
    <3>3. r.text = columns[d].name /\ ~IsConstant(r)
      BY <3>2 DEF Word, Item, IsConstant
    <3>4. ColumnsNamed(columns, r.text) = {d} /\ row[d] # Unset
      BY <2>11, <3>1, <3>2, <3>3, NamedOnly DEF FindsValues
    <3>5. (CHOOSE i \in {d} : TRUE) = d
      OBVIOUS
    <3>6. Test(node, columns, row) = Outcome(Compare(type, row[c], test.relation, row[d]))
      <4>1. \E i \in {d} : {row[c], row[i]} \cap {Unset} = {} /\ SameField(columns[i].type, type)
        BY <2>9, <3>2, <3>4
      <4> QED
        BY <2>1, <2>3, <2>4, <2>6, <2>7, <3>3, <3>4, <3>5, <4>1 DEF Test
    <3>7. Holds(test, columns, row) = Compare(type, row[c], test.relation, row[d])
      BY <2>1, <2>11, <3>1 DEF Holds
    <3> QED
      BY <2>3, <2>8, <3>6, <3>7
  <2> QED
    BY <1>2, <2>10, <2>11 DEF IsTest
<1> QED
  BY <1>1, <1>2


\* A test looks at its columns only.
SameForTest(test, row, other) ==
    test.kind # "truth" => /\ row[test.column] = other[test.column]
                           /\ test.kind = "column" => row[test.value] = other[test.value]

LEMMA HoldsForBoth ==
    ASSUME NEW columns, NEW test, IsTest(test, columns), NEW row, NEW other, SameForTest(test, row, other)
    PROVE  Holds(test, columns, row) = Holds(test, columns, other)
BY DEF SameForTest, IsTest, Holds

LEMMA MeaningForBoth ==
    ASSUME NEW columns, NEW alternatives, IsMeant(alternatives, columns), NEW row, NEW other,
           \A i \in 1 .. Len(alternatives) : \A j \in 1 .. Len(alternatives[i]) :
               SameForTest(alternatives[i][j], row, other)
    PROVE  Meaning(alternatives, columns, row) <=> Meaning(alternatives, columns, other)
<1>1. DOMAIN alternatives = 1 .. Len(alternatives)
  BY SequenceFacts DEF IsMeant
<1>2. ASSUME NEW i \in 1 .. Len(alternatives)
      PROVE  /\ DOMAIN alternatives[i] = 1 .. Len(alternatives[i])
             /\ \A j \in 1 .. Len(alternatives[i]) : IsTest(alternatives[i][j], columns)
  BY SequenceFacts DEF IsMeant, IsTests
<1>3. \A i \in 1 .. Len(alternatives) : \A j \in 1 .. Len(alternatives[i]) :
         Holds(alternatives[i][j], columns, row) = Holds(alternatives[i][j], columns, other)
  BY <1>2, HoldsForBoth
<1> QED
  BY <1>1, <1>2, <1>3 DEF Meaning

\* Every node that is made of a test is a leaf of the tree.
LEMMA NodeIsLeaf ==
    ASSUME NEW test, NEW columns
    PROVE  IsLeaf(NodeOf(test, columns))
<1>1. CASE test.kind = "truth"
  BY <1>1 DEF NodeOf, IsLeaf
<1>2. CASE test.kind # "truth"
  BY <1>2 DEF NodeOf, IsLeaf
<1> QED
  BY <1>1, <1>2

LEMMA AllTestsAnswered ==
    ASSUME NEW columns, IsSequence(columns),
           \A c \in 1 .. Len(columns) : columns[c].type \in {"INTEGER", "DOUBLE", "BOOL", "CHAR", "VARCHAR"},
           NEW alternatives, IsMeant(alternatives, columns), NEW W,
           \A i \in 1 .. Len(alternatives) : \A j \in 1 .. Len(alternatives[i]) :
               /\ IsAnswerable(alternatives[i][j], columns)
               /\ \A row \in W : FindsValues(alternatives[i][j], row)
    PROVE  TestsAnswered(alternatives, columns, columns, W)
<1> SUFFICES ASSUME NEW i \in 1 .. Len(alternatives), NEW j \in 1 .. Len(alternatives[i])
             PROVE  LeafAnswers(NodeOf(alternatives[i][j], columns), columns, W,
                                {row \in W : Holds(alternatives[i][j], columns, row)})
  BY DEF TestsAnswered
<1>1. PICK test : test = alternatives[i][j]
  OBVIOUS
<1>2. IsTest(test, columns) /\ IsAnswerable(test, columns) /\ \A row \in W : FindsValues(test, row)
  BY <1>1 DEF IsMeant, IsTests
<1>3. ASSUME NEW row \in W
      PROVE  LeafOutcome(NodeOf(test, columns), columns, row)
                = Outcome(row \in {r \in W : Holds(test, columns, r)})
  <2>1. LeafOutcome(NodeOf(test, columns), columns, row) = Outcome(Holds(test, columns, row))
    BY <1>2, TestAnswered
  <2>2. row \in {r \in W : Holds(test, columns, r)} <=> Holds(test, columns, row)
    OBVIOUS
  <2> QED
    BY <2>1, <2>2 DEF Outcome
<1> QED
  BY <1>1, <1>3, NodeIsLeaf DEF LeafAnswers

\* The condition of a select without where.
LEMMA TruthParsed ==
    ASSUME NEW p, p = ParseConditional(Tokens(<<Word("true")>>))
    PROVE  IsProper(p) /\ \A columns, row : Evaluate(p.tree, columns, row) = Outcome(TRUE)
<1>1. PICK w, text : w = Word("true") /\ text = <<w>>
  OBVIOUS
<1>2. w.kind = "word" /\ w.text = "true" /\ w = Item(w.kind, w.text)
  BY <1>1 DEF Word, Item
<1>3. IsSequence(text) /\ Len(text) = 1 /\ text[1] = w
  BY <1>1, SingleSequence
<1>4. Regular(text)
  BY <1>2, <1>3 DEF Regular, IsItems, IsPart
<1>5. Tokens(text) = text
  <2>1. Tokens(text) = Stripped(text)
    BY <1>4, TokensAreItems
  <2>2. Stripped(text) = TokenOf(w)
    BY <1>1, StrippedOne
  <2> QED
    BY <1>1, <1>2, <2>1, <2>2 DEF TokenOf
<1>6. PICK leaf : leaf = [node |-> "truth", token |-> w]
  OBVIOUS
<1>7. ParseTest(text, 1) = Parsed(<<leaf>>, 0)
  <2>1. IsTruth(text[1])
    BY <1>1, <1>3 DEF IsTruth
  <2> QED
    BY <1>3, <1>6, <2>1 DEF ParseTest
<1>8. Stops(Parsed(<<leaf>>, 0))
  BY Words
<1>9. ParseOr(text)[1] = OrAt(text, ParseOr(text), 1)
  <2>1. 1 \in 0 .. Len(text)
    BY <1>3
  <2> QED
    BY <1>3, <2>1, OrParses
<1>10. OrAt(text, ParseOr(text), 1) = Parsed(<<leaf>>, 0)
  BY <1>7, <1>8 DEF OrAt
<1>11. p = Parsed(<<leaf>>, 0)
  BY <1>1, <1>3, <1>5, <1>9, <1>10 DEF ParseConditional
<1>12. IsLeaf(leaf)
  BY <1>6 DEF IsLeaf
<1>13. IsTree(<<leaf>>) /\ \A columns, row : Evaluate(<<leaf>>, columns, row) = LeafOutcome(leaf, columns, row)
  BY <1>12, LeafTree
<1>14. \A columns, row : LeafOutcome(leaf, columns, row) = Outcome(TRUE)
  BY <1>2, <1>6 DEF LeafOutcome
<1>15. p.tree = <<leaf>>
  BY <1>11, Words
<1> QED
  BY <1>11, <1>13, <1>14, <1>15, TreeIsProper
=============================================================================
