----------------------------- MODULE PageLayout -----------------------------
(***************************************************************************)
(* The bytes of a table's file: how a tuple becomes a record               *)
(* (check_valid_parsed_tuple), how write_page_to_file lays out the records *)
(* of linked pages and how read_page_from_file takes them apart (page.c).  *)
(*                                                                         *)
(* A page starts with a mark for the next page, the number of its records  *)
(* and their offsets; records are put before one another from its end.     *)
(* Which page a record goes to is the subject of PageChain: here it is the *)
(* last one or a new one, and a page never outgrows PageSize.              *)
(***************************************************************************)
EXTENDS Sequence, FiniteSets, SequencesExt

CONSTANTS
    Tables,     \* the tables: sequences of attributes [type, len]
    Inputs(_),  \* the texts of an attribute, as the values they stand for
    Null,       \* the value null
    Garbled,    \* what is read from bytes that were not written as such a value
    PageSize,
    MaxRecords  \* bound of the model on the records of a table

Types == {"INTEGER", "DOUBLE", "BOOL", "CHAR", "VARCHAR"}

\* Texts are as long as an attribute allows at most.
IsText(a, value) == IsSequence(value) /\ Len(value) <= a.len

ASSUME PageLayoutAssumption ==
    /\ PageSize \in Nat /\ MaxRecords \in Nat
    /\ Garbled \notin Int /\ \A t \in Tables : \A bits \in SUBSET DOMAIN t : bits # Garbled
    /\ Tables \subseteq Seq([type : Types, len : Nat])
    /\ \A t \in Tables : \A i \in DOMAIN t : \A value \in Inputs(t[i]) \ {Null} :
          t[i].type \in {"CHAR", "VARCHAR"} => IsText(t[i], value) /\ value # Garbled

VARIABLES
    table,      \* its attributes
    rows,       \* the tuples that were added, in their order
    pages,      \* the records in memory
    file,       \* the bytes of the file, empty if there is none
    written,    \* the pages as they were written last
    sound       \* so far no memory that was not initialised has made a difference,
                \* and no update has made a record longer than its size

vars == <<table, rows, pages, file, written, sound>>

IntSize == 4

DoubleSize == 8

Header == 2 * IntSize

-----------------------------------------------------------------------------
(* Records: the attributes whose bit is set, those whose is_null is true,   *)
(* the values, and the size.                                                *)

\* Mutant: a null VARCHAR takes no space.
LengthNullFree(a, value, null) ==
    CASE a.type = "INTEGER" -> IntSize
      [] a.type = "DOUBLE"  -> DoubleSize
      [] a.type = "BOOL"    -> IntSize
      [] a.type = "CHAR"    -> a.len
      [] a.type = "VARCHAR" -> IF null THEN 0 ELSE IntSize + Len(value)

\* The bytes that calculate_record_size counts for an attribute.
Length(a, value, null) ==
    CASE a.type = "INTEGER" -> IntSize
      [] a.type = "DOUBLE"  -> DoubleSize
      [] a.type = "BOOL"    -> IntSize
      [] a.type = "CHAR"    -> a.len
      [] a.type = "VARCHAR" -> IntSize + (IF null THEN 0 ELSE Len(value))

SumTo(f, n) == LET sum[i \in 0 .. n] == IF i = 0 THEN 0 ELSE sum[i - 1] + f[i] IN sum[n]

\* calculate_record_size
SizeOf(values, nulls) ==
    IntSize + SumTo([i \in DOMAIN table |-> Length(table[i], values[i], i \in nulls)], Len(table))

Record(bitmap, nulls, values) ==
    [bitmap |-> bitmap, nulls |-> nulls, values |-> values, size |-> SizeOf(values, nulls)]

\* A CHAR ends at its full length only: the bytes behind a short text may not
\* be zero (tail).
InMemory(a, value, tail) ==
    IF tail THEN value \o [k \in 1 .. a.len - Len(value) |-> "?"] ELSE value

\* check_valid_parsed_tuple.  is_null is set for nulls only: of the other
\* attributes, the flags in stale happen to be true.
Valid(tuple, stale) ==
    LET present == {i \in DOMAIN table : tuple[i] # Null}
    IN  Record(present,
               (DOMAIN table \ present) \cup stale.flags,
               [i \in DOMAIN table |-> InMemory(table[i], tuple[i], i \in stale.tails)])

-----------------------------------------------------------------------------
(* Bytes.  A byte knows the kind and the value it is a part of.             *)

Byte(kind, value, part) == [kind |-> kind, value |-> value, part |-> part]

Bytes(kind, value, n) == [k \in 1 .. n |-> Byte(kind, value, k)]

IntBytes(n) == Bytes("int", n, IntSize)

TextBytes(text) == [k \in DOMAIN text |-> Byte("char", text[k], 1)]

Padded(text, n) == [k \in 1 .. n |-> IF k <= Len(text) THEN text[k] ELSE " "]

\* The value of an attribute that is null.  For CHAR it is the bytes of a
\* pointer and what follows it on the stack.
DefaultBytes(a) ==
    CASE a.type \in {"INTEGER", "BOOL", "VARCHAR"} -> IntBytes(0)
      [] a.type = "DOUBLE" -> Bytes("double", 0, DoubleSize)
      [] a.type = "CHAR"   -> Bytes("memory", 0, a.len)

\* A BOOL is written with what follows it in Attribute_Values: the length is
\* that of a double.
ValueBytes(a, value) ==
    CASE a.type = "INTEGER" -> IntBytes(value)
      [] a.type = "DOUBLE"  -> Bytes("double", value, DoubleSize)
      [] a.type = "BOOL"    -> IntBytes(value) \o Bytes("memory", 0, DoubleSize - IntSize)
      [] a.type = "CHAR"    -> TextBytes(Padded(value, a.len))
      [] a.type = "VARCHAR" -> IntBytes(Len(value)) \o TextBytes(value)

RecordBytes(r) ==
    Bytes("bitmap", r.bitmap, IntSize) \o
        FlattenSeq([i \in DOMAIN table |-> IF i \in r.nulls THEN DefaultBytes(table[i])
                                           ELSE ValueBytes(table[i], r.values[i])])

-----------------------------------------------------------------------------
(* write_page_to_file *)

\* Where record i of a page is put: before record i - 1.
Place(page, i) == PageSize - SumTo([k \in DOMAIN page |-> page[k].size], i)

At(position, bytes) == [at |-> position, bytes |-> bytes]

\* The calls of fwrite for page p, in their order.
PageWrites(chain, p) ==
    LET start == (p - 1) * PageSize
        page == chain[p]
    IN  <<At(start, IntBytes(IF p < Len(chain) THEN 1 ELSE 37) \o IntBytes(Len(page)))>> \o
        FlattenSeq([i \in DOMAIN page |->
            <<At(start + IntSize + IntSize * i, IntBytes(Place(page, i))),
              At(start + Place(page, i), RecordBytes(page[i]))>>])

\* What the file holds after them: at each position what was written last.
Written(writes, size) ==
    LET last(n) == {w \in DOMAIN writes : n \in writes[w].at .. writes[w].at + Len(writes[w].bytes) - 1}
    IN  [n \in 0 .. size - 1 |->
            IF last(n) = {} THEN Byte("zero", 0, 1)
            ELSE LET w == Max(last(n)) IN writes[w].bytes[n - writes[w].at + 1]]

\* What is written behind the last page makes the file longer.
Image(chain) ==
    LET writes == FlattenSeq([p \in DOMAIN chain |-> PageWrites(chain, p)])
        ends == {writes[w].at + Len(writes[w].bytes) : w \in DOMAIN writes}
    IN  Written(writes, Max(ends \cup {PageSize * Len(chain)}))

-----------------------------------------------------------------------------
(* read_page_from_file *)

\* The value whose n bytes are at a position, if these are its bytes.
ValueAt(kind, position, n) ==
    LET whole == \A k \in 1 .. n :
                    /\ position + k - 1 \in DOMAIN file
                    /\ file[position + k - 1].kind = kind
                    /\ file[position + k - 1].part = k
                    /\ file[position + k - 1].value = file[position].value
    IN  IF whole THEN file[position].value ELSE Garbled

IntAt(position) == ValueAt("int", position, IntSize)

TextAt(position, n) ==
    IF \A k \in position .. position + n - 1 : k \in DOMAIN file /\ file[k].kind = "char"
    THEN [k \in 1 .. n |-> file[position + k - 1].value]
    ELSE Garbled

\* A value, and the position behind it.
Read(a, position) ==
    LET length == IntAt(position)
    IN  IF position = Garbled THEN [value |-> Garbled, next |-> Garbled]
        ELSE CASE a.type \in {"INTEGER", "BOOL"} ->
                    [value |-> IntAt(position), next |-> position + IntSize]
               [] a.type = "DOUBLE" ->
                    [value |-> ValueAt("double", position, DoubleSize), next |-> position + DoubleSize]
               [] a.type = "CHAR" ->
                    [value |-> TextAt(position, a.len), next |-> position + a.len]
               [] a.type = "VARCHAR" ->
                    IF length = Garbled THEN [value |-> Garbled, next |-> Garbled]
                    ELSE [value |-> TextAt(position + IntSize, length),
                          next |-> position + IntSize + length]

\* Mutant: the first attribute has bit 1.
BitsShifted(bitmap) == {i \in DOMAIN table : i + 1 \in bitmap}

Bits(bitmap) == IF bitmap = Garbled THEN DOMAIN table ELSE bitmap

\* The record at a position; flags are those that happen to be true.  What a
\* bitmap says that was overwritten is not looked at any more.
RecordAt(position, flags) ==
    LET read[i \in 0 .. Len(table)] ==
            IF i = 0 THEN [value |-> Null, next |-> position + IntSize]
            ELSE Read(table[i], read[i - 1].next)
        bitmap == ValueAt("bitmap", position, IntSize)
        nulls == (DOMAIN table \ Bits(bitmap)) \cup flags
        values == [i \in DOMAIN table |-> read[i].value]
        sized == \A i \in DOMAIN table :
                    table[i].type = "VARCHAR" => i \in nulls \/ values[i] # Garbled
    IN  [bitmap |-> bitmap, nulls |-> nulls, values |-> values,
         size |-> IF sized THEN SizeOf(values, nulls) ELSE Garbled]

\* The pages up to the first whose mark is not 1; stale holds the flags that
\* happen to be true, as page, record and attribute.
PagesInFile(stale) ==
    LET start(p) == (p - 1) * PageSize
        marked(p) == IntAt(start(p)) = 1
        last == CHOOSE n \in 1 .. Cardinality(DOMAIN file) \div PageSize :
                    ~marked(n) /\ \A m \in 1 .. n - 1 : marked(m)
        records(p) == 1 .. IntAt(start(p) + IntSize)
        offset(p, i) == IntAt(start(p) + IntSize + IntSize * i)
    IN  [p \in 1 .. last |-> [i \in records(p) |->
            RecordAt(start(p) + offset(p, i), {f[3] : f \in {g \in stale : g[1] = p /\ g[2] = i}})]]

-----------------------------------------------------------------------------
(* The file of a table is read when its pages are asked for and not in      *)
(* memory; the pages leave the memory by being written.                     *)

Init ==
    /\ table \in Tables
    /\ rows = <<>>
    /\ pages = <<>>
    /\ file = <<>>
    /\ written = <<>>
    /\ sound = TRUE

\* The first attribute is the primary key.
Tuples ==
    LET tuples[n \in 0 .. Len(table)] ==
            IF n = 0 THEN {<<>>}
            ELSE {Append(t, v) : t \in tuples[n - 1],
                                 v \in Inputs(table[n]) \ (IF n = 1 THEN {Null} ELSE {})}
    IN  tuples[Len(table)]

\* Mutant: the offsets are not counted.
FitsWithoutOffsets(page) ==
    Header + SumTo([k \in DOMAIN page |-> page[k].size], Len(page)) <= PageSize

\* is_page_overfull
Fits(page) ==
    Header + IntSize * Len(page) + SumTo([k \in DOMAIN page |-> page[k].size], Len(page)) <= PageSize

Clean == [flags |-> {}, tails |-> {}]

\* The memory of one attribute makes a difference at most, and in one record:
\* a bound of the model.
StaleMemory(tuple) ==
    LET present == {i \in DOMAIN table : tuple[i] # Null}
        short == {i \in present : table[i].type = "CHAR" /\ Len(tuple[i]) < table[i].len}
    IN  {Clean} \cup (IF sound THEN {[Clean EXCEPT !.flags = {i}] : i \in present}
                                    \cup {[Clean EXCEPT !.tails = {i}] : i \in short}
                      ELSE {})

IsWhole(record) ==
    /\ record.bitmap # Garbled
    /\ record.size # Garbled
    /\ \A i \in DOMAIN table \ record.nulls : record.values[i] # Garbled

\* Pages with values that were overwritten are not followed further.
AllWhole == \A p \in DOMAIN pages : \A i \in DOMAIN pages[p] : IsWhole(pages[p][i])

\* The record goes to the last page or to a new one.
Add ==
    /\ Len(rows) < MaxRecords
    /\ pages = <<>> => file = <<>>
    /\ AllWhole
    /\ \E tuple \in Tuples : \E stale \in StaleMemory(tuple) :
          /\ rows' = Append(rows, tuple)
          /\ sound' = (sound /\ stale = Clean)
          /\ \E r \in {Valid(tuple, stale)} :
                \/ /\ pages # <<>>
                   /\ Fits(Append(Last(pages), r))
                   /\ pages' = [pages EXCEPT ![Len(pages)] = Append(@, r)]
                \/ Fits(<<r>>) /\ pages' = Append(pages, <<r>>)
    /\ UNCHANGED <<table, file, written>>

Write ==
    /\ pages # <<>>
    /\ AllWhole
    /\ file' = Image(pages)
    /\ written' = pages
    /\ pages' = <<>>
    /\ UNCHANGED <<table, rows, sound>>

WrittenValues ==
    UNION {{p} \X (DOMAIN written[p]) \X (DOMAIN table) : p \in DOMAIN written}

\* The next_page of the last page is never set: in new memory it may not be
\* NULL (~ends).  What is found behind it is not followed further.
ReadPages ==
    /\ pages = <<>>
    /\ file # <<>>
    /\ \E stale \in {{}} \cup (IF sound THEN {{value} : value \in WrittenValues} ELSE {}) :
       \E ends \in BOOLEAN :
          /\ pages' = PagesInFile(stale)
          /\ sound' = (sound /\ ends /\ stale = {})
    /\ UNCHANGED <<table, rows, file, written>>

\* The value is set, but not its null flag, its bit, or the size.
ValueSet(r, j, value) == [r EXCEPT !.values[j] = value]

\* Only a CHAR shorter than its attribute leaves bytes of new memory behind it.
NewTails(j, value) ==
    {FALSE} \cup {tail \in {sound} : table[j].type = "CHAR" /\ Len(value) < table[j].len}

\* update_where: a record is changed, then all are written back; the file has
\* the first one.  A null stays one.
Update ==
    /\ pages # <<>>
    /\ AllWhole
    /\ \E p \in DOMAIN pages, j \in DOMAIN table : \E i \in DOMAIN pages[p] :
       \E value \in Inputs(table[j]) \ {Null} :
       LET n == Len(FlattenSeq(SubSeq(pages, 1, p - 1))) + i
           r == pages[p][i]
       IN \E tail \in NewTails(j, value) :
           /\ j # 1
           /\ pages' = [pages EXCEPT ![p][i] = ValueSet(@, j, InMemory(table[j], value, tail))]
           /\ rows' = IF j \in r.nulls THEN rows ELSE [rows EXCEPT ![n][j] = value]
           /\ sound' = (sound /\ ~tail /\ Length(table[j], value, j \in r.nulls)
                                              <= Length(table[j], r.values[j], j \in r.nulls))
    /\ written' = <<<<pages'[1][1]>>>>
    /\ file' = Image(written')
    /\ UNCHANGED table

\* The process ends; rows that were added since the pages were written are lost.
Crash ==
    /\ pages # <<>>
    /\ pages' = <<>>
    /\ rows' = SubSeq(rows, 1, Len(FlattenSeq(written)))
    /\ UNCHANGED <<table, file, written, sound>>

Next == Add \/ Write \/ ReadPages \/ Update \/ Crash

Spec == Init /\ [][Next]_vars
-----------------------------------------------------------------------------
(* Correctness *)

\* The records have room for their values, and the records of a page stay
\* behind its offsets.
TypeOK ==
    /\ table \in Tables
    /\ rows \in Seq(Tuples)
    /\ sound \in BOOLEAN
    /\ \A p \in DOMAIN pages : \A i \in DOMAIN pages[p] :
          LET r == pages[p][i]
          IN  /\ DOMAIN r.values = DOMAIN table
              /\ r.nulls \subseteq DOMAIN table
              /\ IsWhole(r) /\ sound => r.bitmap \subseteq DOMAIN table /\ r.size >= SizeOf(r.values, r.nulls)
    /\ sound => \A p \in DOMAIN written :
          Place(written[p], Len(written[p])) >= Header + IntSize * Len(written[p])

\* The attributes of a record that are written as a BOOL with a value.
WideBools(record) == {i \in DOMAIN table \ record.nulls : table[i].type = "BOOL"}

SameText(a, value, original) ==
    IF a.type = "CHAR" THEN value \in {original, Padded(original, a.len)} ELSE value = original

Excess(record) == Len(RecordBytes(record)) - record.size

\* What is read from a file is what was written to it, a CHAR padded, but for
\* the attributes behind a BOOL that is not null; for a record that the next
\* one on the page has been written over; and for a record at the end of a page
\* that the next page has been written over.  The two happen only to records
\* longer than their size: of the same kind, or updated to a longer VARCHAR.
RoundTrip ==
    file # <<>> =>
        LET read == PagesInFile({})
        IN  /\ Len(read) = Len(written)
            /\ \A p \in DOMAIN written :
                 /\ Len(read[p]) = Len(written[p])
                 /\ \A i \in DOMAIN written[p] :
                       LET w == written[p][i]
                           r == read[p][i]
                           over == i < Len(written[p]) /\ Excess(written[p][i + 1]) > 0
                           behind == i = 1 /\ p < Len(written) /\ Excess(w) > 0
                       IN  /\ Excess(w) > 0 => WideBools(w) # {} \/ w.size < SizeOf(w.values, w.nulls)
                           /\ ~over /\ ~behind =>
                                /\ r.bitmap = w.bitmap
                                /\ \A j \in DOMAIN table \ w.nulls :
                                     (\A k \in WideBools(w) : j <= k) =>
                                         SameText(table[j], r.values[j], w.values[j])

\* The rows have no BOOL with a value.
NoBools ==
    \A n \in DOMAIN rows : \A i \in DOMAIN table : table[i].type = "BOOL" => rows[n][i] = Null

\* Whatever is written, read, added to and lost: without a BOOL that is not
\* null, and if nothing has spoilt them, the records in memory are the
\* rows that were added, a CHAR padded once at most.
RowsPreserved ==
    pages # <<>> /\ sound /\ NoBools
    => LET records == FlattenSeq(pages)
       IN  /\ Len(records) = Len(rows)
           /\ \A n \in DOMAIN rows : \A i \in DOMAIN table :
                 IF rows[n][i] = Null THEN i \in records[n].nulls
                 ELSE i \notin records[n].nulls
                      /\ SameText(table[i], records[n].values[i], rows[n][i])
=============================================================================
