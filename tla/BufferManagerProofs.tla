------------------------ MODULE BufferManagerProofs ------------------------
(***************************************************************************)
(* Proofs about the page buffer, for any number of tables and entries and  *)
(* any number of calls.                                                    *)
(***************************************************************************)
EXTENDS BufferManager, SharedFacts

\* An entry of the array has the fields of an entry.
LEMMA EntryFields ==
    ASSUME NEW es \in Seq(Entry), NEW j \in DOMAIN es
    PROVE  /\ es[j] \in Entry
           /\ es[j].name \in Names /\ es[j].page \in Pages /\ es[j].last_used \in Nat
<1>1. es[j] \in Entry
  OBVIOUS
<1> QED
  BY <1>1 DEF Entry

\* Stamping an entry changes nothing else of it.
LEMMA StampedEntry ==
    ASSUME NEW e \in Entry, NEW stamp \in Nat
    PROVE  /\ [e EXCEPT !.last_used = stamp] \in Entry
           /\ [e EXCEPT !.last_used = stamp].name = e.name
           /\ [e EXCEPT !.last_used = stamp].last_used = stamp
BY DEF Entry

\* The stamp of a new or touched entry is larger than every other one: this
\* is why stamps stay distinct, and it needs every stamp to be at most the
\* counter.
IInv == TypeOK /\ StampsDistinct

\* The empty buffer satisfies the inductive invariant.
LEMMA InitIInv == Init => IInv
BY BufferAssumption DEF Init, IInv, TypeOK, StampsDistinct

\* A hit keeps the inductive invariant.
LEMMA StampedFacts ==
    ASSUME IInv, Called, NEW i \in DOMAIN entries, entries' = Stamped(entries, i, counter + 1),
           UNCHANGED files, running' \in BOOLEAN
    PROVE  IInv'
<1>1. /\ counter \in Nat /\ counter' = counter + 1
      /\ entries \in Seq(Entry) /\ Len(entries) <= MaxPages
  BY DEF IInv, TypeOK, Called
<1>2. \A j \in DOMAIN entries :
         /\ [entries[j] EXCEPT !.last_used = counter + 1] \in Entry
         /\ [entries[j] EXCEPT !.last_used = counter + 1].name = entries[j].name
         /\ [entries[j] EXCEPT !.last_used = counter + 1].last_used = counter + 1
  <2> TAKE j \in DOMAIN entries
  <2>1. entries[j] \in Entry
    BY <1>1, EntryFields
  <2>2. counter + 1 \in Nat
    BY <1>1
  <2> QED
    BY <2>1, <2>2, StampedEntry
<1>3. entries' \in [1 .. Len(entries) -> Entry]
  BY <1>1, <1>2, EntryFields DEF Stamped
<1>4. entries' \in Seq(Entry) /\ Len(entries') = Len(entries) /\ DOMAIN entries' = DOMAIN entries
  BY <1>1, <1>3
<1>5. \A j \in DOMAIN entries :
         /\ entries'[j].name = entries[j].name
         /\ entries'[j].last_used = IF j = i THEN counter + 1 ELSE entries[j].last_used
         /\ entries[j].last_used \in Nat
  BY <1>1, <1>2, EntryFields DEF Stamped
<1>6. TypeOK'
  BY <1>1, <1>4 DEF IInv, TypeOK
<1>7. StampsDistinct'
  <2>1. \A j, k \in DOMAIN entries :
           /\ entries[j].last_used <= counter
           /\ j # k => entries[j].last_used # entries[k].last_used
    BY DEF IInv, StampsDistinct
  <2>2. \A j \in DOMAIN entries : entries'[j].last_used <= counter'
    BY <1>1, <1>5, <2>1
  <2>3. \A j, k \in DOMAIN entries :
           j # k => entries'[j].last_used # entries'[k].last_used
    BY <1>1, <1>5, <2>1
  <2> QED
    BY <1>4, <2>2, <2>3 DEF StampsDistinct
<1> QED
  BY <1>6, <1>7 DEF IInv

\* Adding a page keeps it.
LEMMA AddKeeps ==
    ASSUME IInv, NEW n \in Names, NEW p \in Pages, AddToFreeSlot(n, p)
    PROVE  IInv'
<1>1. /\ counter \in Nat /\ counter' = counter + 1
      /\ entries \in Seq(Entry) /\ Len(entries) + 1 <= MaxPages
      /\ entries' = Append(entries, NewEntry(n, p))
      /\ MaxPages \in Nat
  BY BufferAssumption DEF IInv, TypeOK, AddToFreeSlot, Called, IsFull
<1>2. /\ NewEntry(n, p) \in Entry /\ NewEntry(n, p).name = n
      /\ NewEntry(n, p).last_used = counter + 1
  BY <1>1 DEF NewEntry, Entry
<1>3. /\ entries' \in Seq(Entry) /\ Len(entries') = Len(entries) + 1
      /\ \A j \in 1 .. Len(entries) : entries'[j] = entries[j]
      /\ entries'[Len(entries) + 1] = NewEntry(n, p)
      /\ DOMAIN entries' = 1 .. Len(entries) + 1
      /\ DOMAIN entries = 1 .. Len(entries)
  BY <1>1, <1>2
<1>4. \A j \in DOMAIN entries : entries[j].last_used \in Nat
  BY <1>1, EntryFields
<1>5. TypeOK'
  BY <1>1, <1>3 DEF IInv, TypeOK, AddToFreeSlot
<1>6. StampsDistinct'
  BY <1>1, <1>2, <1>3, <1>4 DEF IInv, StampsDistinct
<1> QED
  BY <1>5, <1>6 DEF IInv

\* A removal keeps it, though the last entry moves and gets a new stamp.
LEMMA WithoutFacts ==
    ASSUME IInv, Called, NEW i \in DOMAIN entries, entries' = Without(entries, i, counter + 1),
           UNCHANGED files, running' \in BOOLEAN
    PROVE  IInv'
<1> DEFINE last == Len(entries)
<1>1. /\ counter \in Nat /\ counter' = counter + 1
      /\ entries \in Seq(Entry) /\ Len(entries) <= MaxPages
      /\ last \in Nat \ {0} /\ DOMAIN entries = 1 .. last
  BY DEF IInv, TypeOK, Called
<1>2. /\ [entries[last] EXCEPT !.last_used = counter + 1] \in Entry
      /\ [entries[last] EXCEPT !.last_used = counter + 1].name = entries[last].name
      /\ [entries[last] EXCEPT !.last_used = counter + 1].last_used = counter + 1
  <2>1. last \in DOMAIN entries
    BY <1>1
  <2>2. entries[last] \in Entry
    BY <1>1, <2>1, EntryFields
  <2>3. counter + 1 \in Nat
    BY <1>1
  <2> QED
    BY <2>2, <2>3, StampedEntry
<1>3. entries' \in [1 .. last - 1 -> Entry]
  BY <1>1, <1>2, EntryFields DEF Without
<1>4. entries' \in Seq(Entry) /\ Len(entries') = last - 1 /\ DOMAIN entries' = 1 .. last - 1
  <2>1. last - 1 \in Nat
    BY <1>1
  <2> HIDE DEF last
  <2> QED
    BY <1>3, <2>1
<1>5. \A j \in 1 .. last - 1 :
         /\ entries'[j].name = IF j = i THEN entries[last].name ELSE entries[j].name
         /\ entries'[j].last_used = IF j = i THEN counter + 1 ELSE entries[j].last_used
         /\ entries[j].last_used \in Nat
  BY <1>1, <1>2, EntryFields DEF Without
<1>6. TypeOK'
  BY <1>1, <1>4, BufferAssumption DEF IInv, TypeOK
<1>7. StampsDistinct'
  <2>1. \A j, k \in 1 .. last :
           /\ entries[j].last_used <= counter
           /\ j # k => entries[j].last_used # entries[k].last_used
    BY <1>1 DEF IInv, StampsDistinct
  <2>2. \A j \in 1 .. last - 1 : j \in 1 .. last
    BY <1>1
  <2>3. \A j \in 1 .. last - 1 : entries'[j].last_used <= counter'
    BY <1>1, <1>5, <2>1, <2>2
  <2>4. \A j, k \in 1 .. last - 1 :
           j # k => entries'[j].last_used # entries'[k].last_used
    BY <1>1, <1>5, <2>1, <2>2
  <2> QED
    BY <1>4, <2>3, <2>4 DEF StampsDistinct
<1> QED
  BY <1>6, <1>7 DEF IInv

\* Calls that leave the entries alone and stamp nothing.
LEMMA UntouchedFacts ==
    ASSUME IInv, Called, UNCHANGED entries,
           files' \in [Names -> Pages \cup {NoPage}], running' \in BOOLEAN
    PROVE  IInv'
<1>1. /\ counter \in Nat /\ counter' = counter + 1
      /\ entries \in Seq(Entry) /\ entries' = entries
  BY DEF IInv, TypeOK, Called
<1>2. TypeOK'
  BY <1>1 DEF IInv, TypeOK
<1>3. \A i \in DOMAIN entries : entries[i].last_used \in Nat
  BY <1>1, EntryFields
<1>4. StampsDistinct'
  BY <1>1, <1>3 DEF IInv, StampsDistinct
<1> QED
  BY <1>2, <1>4 DEF IInv

\* A page is written to the file of the table whose entry holds it.
LEMMA WriteFacts ==
    ASSUME TypeOK, NEW i \in DOMAIN entries
    PROVE  [files EXCEPT ![entries[i].name] = entries[i].page] \in [Names -> Pages \cup {NoPage}]
<1>1. entries[i].name \in Names /\ entries[i].page \in Pages
  BY EntryFields DEF TypeOK
<1> QED
  BY <1>1 DEF TypeOK

\* Every call keeps the inductive invariant.
LEMMA NextIInv == IInv /\ [Next]_vars => IInv'
<1> SUFFICES ASSUME IInv, [Next]_vars PROVE IInv'
  OBVIOUS
<1>0. files \in [Names -> Pages \cup {NoPage}] /\ running \in BOOLEAN /\ entries \in Seq(Entry)
  BY DEF IInv, TypeOK
<1>1. ASSUME NEW n \in Names, Find(n) PROVE IInv'
  <2>1. CASE UNCHANGED entries
    BY <1>0, <1>1, <2>1, UntouchedFacts DEF Find
  <2>2. CASE \E i \in DOMAIN entries : entries' = Stamped(entries, i, counter + 1)
    BY <1>0, <1>1, <2>2, StampedFacts DEF Find
  <2> QED
    BY <1>1, <2>1, <2>2 DEF Find
<1>2. ASSUME NEW n \in Names, Remove(n) PROVE IInv'
  <2>1. CASE UNCHANGED entries
    BY <1>0, <1>2, <2>1, UntouchedFacts DEF Remove
  <2>2. CASE \E i \in DOMAIN entries : entries' = Without(entries, i, counter + 1)
    BY <1>0, <1>2, <2>2, WithoutFacts DEF Remove
  <2> QED
    BY <1>2, <2>1, <2>2 DEF Remove
<1>3. ASSUME NEW n \in Names, NEW p \in Pages, AddToFreeSlot(n, p) PROVE IInv'
  BY <1>3, AddKeeps
<1>4. ASSUME NEW n \in Names, NEW p \in Pages, AddToFull(n, p) PROVE IInv'
  <2>1. files' \in [Names -> Pages \cup {NoPage}]
    BY <1>4, WriteFacts DEF AddToFull, IsVictim, IInv
  <2> QED
    BY <1>0, <1>4, <2>1, UntouchedFacts DEF AddToFull
<1>5. ASSUME NEW n \in Names, AddWithoutVictim(n) PROVE IInv'
  BY <1>0, <1>5, UntouchedFacts DEF AddWithoutVictim
<1>6. CASE Flush
  <2>1. files' \in [Names -> Pages \cup {NoPage}]
    <3>1. CASE entries = <<>>
      BY <1>0, <1>6, <3>1 DEF Flush
    <3>2. CASE entries # <<>>
      <4>1. 1 \in DOMAIN entries
        BY <1>0, <3>2
      <4> QED
        BY <1>6, <3>2, <4>1, WriteFacts DEF Flush, IInv
    <3> QED
      BY <3>1, <3>2
  <2> QED
    BY <1>6, <2>1, UntouchedFacts DEF Flush
<1>7. CASE UNCHANGED vars
  BY <1>7 DEF vars, IInv, TypeOK, StampsDistinct
<1> QED
  BY <1>1, <1>2, <1>3, <1>4, <1>5, <1>6, <1>7 DEF Next

\* The inductive invariant holds in every reachable state.
LEMMA Invariance == Spec => []IInv
BY InitIInv, NextIInv, PTL DEF Spec

\* The buffer is always an array of at most max_pages entries.
THEOREM TypeCorrect == Spec => []TypeOK
BY Invariance, PTL DEF IInv

\* The least recently used entry is always determined.
THEOREM StampsStayDistinct == Spec => []StampsDistinct
BY Invariance, PTL DEF IInv

\* add_to_buffer dereferences NULL only after StampLimit calls or when the
\* buffer has no entries at all.
THEOREM VictimFound == Spec => []NoCrashBelowLimit
<1>1. IInv => NoCrashBelowLimit
  <2> SUFFICES ASSUME IInv, MaxPages > 0, counter < StampLimit, IsFull(entries)
               PROVE  \E i \in DOMAIN entries : IsVictim(entries, i)
    BY DEF NoCrashBelowLimit
  <2>1. entries \in Seq(Entry) /\ counter \in Nat /\ StampLimit \in Nat /\ MaxPages \in Nat
    BY BufferAssumption DEF IInv, TypeOK
  <2>2. 1 \in DOMAIN entries
    BY <2>1 DEF IsFull
  <2> DEFINE stamps == {entries[i].last_used : i \in DOMAIN entries}
  <2>3. stamps \subseteq Nat /\ stamps # {}
    BY <2>1, <2>2, EntryFields
  <2> HIDE DEF stamps
  <2>4. PICK s \in stamps : \A t \in stamps : s <= t
    BY <2>3, LeastMember
  <2>5. PICK i \in DOMAIN entries : s = entries[i].last_used
    BY DEF stamps
  <2>6. entries[i].last_used < StampLimit
    BY <2>1, EntryFields DEF IInv, StampsDistinct
  <2> QED
    BY <2>4, <2>5, <2>6 DEF IsVictim, stamps
<1> QED
  BY <1>1, Invariance, PTL

\* The entry i is in the buffer after the step, wherever it is.
Stays(i) ==
    \E j \in DOMAIN entries' :
        /\ entries'[j].name = entries[i].name
        /\ entries'[j].page = entries[i].page

\* Of the calls of remove_from_buffer, only the one for its table takes an
\* entry away.
LEMMA RemovalKeepsOthers ==
    ASSUME IInv, NEW n \in Names, Remove(n), NEW i \in DOMAIN entries
    PROVE  Remove(entries[i].name) \/ Stays(i)
<1>1. entries \in Seq(Entry) /\ counter + 1 \in Nat
  BY DEF IInv, TypeOK
<1>2. CASE UNCHANGED entries
  BY <1>2 DEF Stays
<1>3. ASSUME NEW k \in DOMAIN entries, IsFirstEntry(entries, n, k),
             entries' = Without(entries, k, counter + 1)
      PROVE  Remove(entries[i].name) \/ Stays(i)
  <2> DEFINE last == Len(entries)
             moved == [entries[last] EXCEPT !.last_used = counter + 1]
  <2>1. /\ last \in Nat \ {0} /\ DOMAIN entries = 1 .. last
        /\ i \in 1 .. last /\ k \in 1 .. last
    BY <1>1, <1>3
  <2>2. entries' = [j \in 1 .. last - 1 |-> IF j = k THEN moved ELSE entries[j]]
    BY <1>3 DEF Without
  <2>3. moved.name = entries[last].name /\ moved.page = entries[last].page
    <3>1. last \in DOMAIN entries
      BY <2>1
    <3>2. entries[last] \in Entry
      BY <1>1, <3>1, EntryFields
    <3> QED
      BY <3>2 DEF Entry
  <2> HIDE DEF last, moved
  <2>4. CASE i = k
    <3>1. entries[i].name = n
      BY <1>3, <2>4 DEF IsFirstEntry, EntriesOf
    <3> QED
      BY <3>1
  <2>5. CASE i # k /\ i # last
    <3>1. i \in 1 .. last - 1
      BY <2>1, <2>5
    <3> QED
      BY <2>2, <2>5, <3>1 DEF Stays
  <2>6. CASE i # k /\ i = last
    <3>1. k \in 1 .. last - 1
      BY <2>1, <2>6
    <3> QED
      BY <2>2, <2>3, <2>6, <3>1 DEF Stays
  <2> QED
    BY <2>4, <2>5, <2>6
<1> QED
  BY <1>2, <1>3 DEF Remove

\* Whatever is called, an entry leaves the buffer only when its own table is
\* removed.
THEOREM OthersStay == Spec => OnlyRemovedLeave
<1>1. ASSUME IInv, Next, NEW i \in DOMAIN entries
      PROVE  Remove(entries[i].name) \/ Stays(i)
  <2>0. entries \in Seq(Entry) /\ counter + 1 \in Nat
    BY <1>1 DEF IInv, TypeOK
  <2>1. CASE UNCHANGED entries
    BY <1>1, <2>1 DEF Stays
  <2>2. ASSUME NEW n \in Names, Find(n) PROVE Stays(i)
    <3>1. CASE UNCHANGED entries
      BY <1>1, <3>1 DEF Stays
    <3>2. ASSUME NEW k \in DOMAIN entries, entries' = Stamped(entries, k, counter + 1)
          PROVE  Stays(i)
      <4>1. entries[i] \in Entry
        BY <1>1, <2>0, EntryFields
      <4>2. /\ [entries[i] EXCEPT !.last_used = counter + 1].name = entries[i].name
            /\ [entries[i] EXCEPT !.last_used = counter + 1].page = entries[i].page
        BY <4>1 DEF Entry
      <4>3. /\ i \in DOMAIN entries'
            /\ entries'[i] = entries[i]
               \/ entries'[i] = [entries[i] EXCEPT !.last_used = counter + 1]
        BY <1>1, <2>0, <3>2 DEF Stamped
      <4> QED
        BY <4>2, <4>3 DEF Stays
    <3> QED
      BY <2>2, <3>1, <3>2 DEF Find
  <2>3. ASSUME NEW n \in Names, Remove(n) PROVE Remove(entries[i].name) \/ Stays(i)
    BY <1>1, <2>3, RemovalKeepsOthers
  <2>4. ASSUME NEW n \in Names, NEW p \in Pages, AddToFreeSlot(n, p) PROVE Stays(i)
    <3>1. /\ entries' = Append(entries, NewEntry(n, p))
          /\ NewEntry(n, p) \in Entry
      BY <2>0, <2>4 DEF AddToFreeSlot, NewEntry, Entry
    <3>2. i \in DOMAIN entries' /\ entries'[i] = entries[i]
      BY <1>1, <2>0, <3>1
    <3> QED
      BY <3>2 DEF Stays
  <2>5. ASSUME NEW n \in Names, NEW p \in Pages, AddToFull(n, p) PROVE UNCHANGED entries
    BY <2>5 DEF AddToFull
  <2>6. ASSUME NEW n \in Names, AddWithoutVictim(n) PROVE UNCHANGED entries
    BY <2>6 DEF AddWithoutVictim
  <2>7. CASE Flush
    BY <2>1, <2>7 DEF Flush
  <2> QED
    BY <1>1, <2>1, <2>2, <2>3, <2>4, <2>5, <2>6, <2>7 DEF Next
<1>2. IInv /\ [Next]_vars =>
        [\A i \in DOMAIN entries :
            \/ Remove(entries[i].name)
            \/ \E j \in DOMAIN entries' :
                  /\ entries'[j].name = entries[i].name
                  /\ entries'[j].page = entries[i].page]_vars
  BY <1>1 DEF Stays
<1> QED
  BY <1>2, Invariance, PTL DEF Spec, OnlyRemovedLeave
=============================================================================
