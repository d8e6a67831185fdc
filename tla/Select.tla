------------------------------- MODULE Select -------------------------------
(***************************************************************************)
(* One select statement (parse_select and the functions it calls in        *)
(* query_processor.c and page.c): the condition is parsed, the tables are  *)
(* joined one after the other, the pages of the last one are loaded, their *)
(* records filtered, ordered and printed.                                  *)
(*                                                                         *)
(* A page is a sequence of rows, a row a sequence of values; pages are as  *)
(* they are read back, `files` holds them for every table that has a file  *)
(* and `buffer` for every table that is cached, with the file the page is  *)
(* to be written to.  The buffer has room (Database has one that is full). *)
(*                                                                         *)
(* `clean` says that memory that was not initialised held nothing that     *)
(* makes a difference.  groupby, which is read and ignored, is left out.   *)
(***************************************************************************)
EXTENDS Condition, Sequence

CONSTANTS
    Inputs,     \* records of the catalog, the files, the buffer and a query:
                \* [names, star, attributes, columns, alternatives, orderBy]
    Leftovers,  \* what the buffer for the condition may hold before
    MaxRefused, \* bound of the model on the rows of a join that are refused
    IntLimit    \* 2^31

-----------------------------------------------------------------------------
(* What a statement finds: tables with columns, pages with a value of its   *)
(* type for every column, or none that was ever written.                    *)

JoinedName(left, right) == "*" \o left \o "," \o right

IsColumn(c) ==
    /\ c = [name |-> c.name, type |-> c.type]
    /\ c.type \in {"INTEGER", "DOUBLE", "BOOL", "CHAR", "VARCHAR"}

IsColumns(columns) ==
    /\ IsSequence(columns) /\ columns # <<>>
    /\ \A i \in 1 .. Len(columns) : IsColumn(columns[i])

ValuesOf(type) ==
    IF IsText(type) THEN Range(Strings) ELSE IF type = "BOOL" THEN 0 .. 1 ELSE Int

IsRow(r, columns, written) ==
    /\ r = [i \in 1 .. Len(columns) |-> r[i]]
    /\ \A i \in 1 .. Len(columns) :
          (r[i] = Unset /\ ~written) \/ r[i] \in ValuesOf(columns[i].type)

IsPages(pages, columns, written) ==
    /\ IsSequence(pages)
    /\ \A p \in 1 .. Len(pages) :
          /\ IsSequence(pages[p])
          /\ \A k \in 1 .. Len(pages[p]) : IsRow(pages[p][k], columns, written)

Qualified(name, column) == [column EXCEPT !.name = name \o "." \o @]

HasColumn(columns, name) == \E i \in DOMAIN columns : columns[i].name = name

\* A name that both tables have is qualified.
ColumnsBeside(name, columns, others) ==
    [i \in DOMAIN columns |->
        IF HasColumn(others, columns[i].name) THEN Qualified(name, columns[i]) ELSE columns[i]]

TablesKnown(i) == \A k \in 1 .. Len(i.query.names) : i.query.names[k] \in DOMAIN i.catalog

\* The columns of the table that is read: one, or the join of two.
ColumnsRead(i) ==
    LET left == i.query.names[1]
        right == i.query.names[2]
        columns == i.catalog
    IN  IF Len(i.query.names) = 1 THEN columns[left]
        ELSE <<[name |-> " ", type |-> "INTEGER"]>>
                \o ColumnsBeside(left, columns[left], columns[right])
                \o ColumnsBeside(right, columns[right], columns[left])

\* A file without a table is that of a join whose catalog was never written,
\* as the program crashed: the join of the two tables that are asked for.
IsOrphan(i, n) ==
    /\ Len(i.query.names) = 2 /\ n = JoinedName(i.query.names[1], i.query.names[2])
    /\ TablesKnown(i)
    /\ IsPages(i.files[n], ColumnsRead(i), i.query.orderBy # "")
    /\ \A p \in DOMAIN i.files[n] : \A k \in DOMAIN i.files[n][p] : i.files[n][p][k][1] \in Nat

\* Values that were never written have no order: what is ordered has only
\* values, and its right tables, which are not joins, are cached (else they
\* are read from the file of the left one).
WellFormed(i) ==
    LET q == i.query
        ordered == q.orderBy # ""
    IN  /\ IsSequence(q.names) /\ q.names # <<>>
        /\ DOMAIN i.buffer \subseteq DOMAIN i.catalog
        /\ \A n \in DOMAIN i.files \ DOMAIN i.catalog : IsOrphan(i, n)
        /\ \A n \in DOMAIN i.catalog :
              /\ IsColumns(i.catalog[n])
              /\ n \in DOMAIN i.files => IsPages(i.files[n], i.catalog[n], ordered)
              /\ n \in DOMAIN i.buffer => IsPages(i.buffer[n].page, i.catalog[n], ordered)
        /\ \A n \in DOMAIN i.buffer : i.buffer[n].page # <<>>
        /\ ordered => \A k \in 2 .. Len(q.names) :
              /\ q.names[k] \in DOMAIN i.buffer
              /\ k > 2 => \A left, right : q.names[k] # JoinedName(left, right)

ASSUME SelectAssumption ==
    /\ IntLimit \in Nat \ {0} /\ MaxRefused \in Nat
    /\ IsSequence(Strings) /\ Numbers \subseteq Nat
    /\ \A i \in Inputs : WellFormed(i)

VARIABLES
    input,      \* the statement, and what there was when it was typed
    catalog,    \* the columns of every table
    files,
    buffer,
    stage,      \* how far the statement is
    clean,
    parsed,     \* the condition
    tables,     \* the table that is read, or has been joined so far: its name,
                \* and how many names it stands for
    page,       \* the pages that are printed
    position,   \* how many records have been looked at, or sorted
    chosen,     \* the records that have passed
    printed     \* the values of each, once they are printed

vars == <<input, catalog, files, buffer, stage, clean, parsed, tables, page, position,
          chosen, printed>>

query == input.query

Init ==
    /\ input \in Inputs
    /\ catalog = input.catalog
    /\ files = input.files
    /\ buffer = input.buffer
    /\ stage = "parse"
    /\ clean = TRUE
    /\ parsed = Parsed(NoTree, 0)
    /\ tables = [name |-> query.names[1], joined |-> 1]
    /\ page = <<>>
    /\ position = 0
    /\ chosen = <<>>
    /\ printed = <<>>

\* Mutant: a table that is dropped stays there.
Undropped(f, name) == f

\* drop_table, of the catalog, the files or the buffer: nothing is dropped of
\* a table that the catalog does not have.
Dropped(f, name) ==
    IF name \in DOMAIN catalog THEN Restrict(f, DOMAIN f \ {name}) ELSE f

With(f, x, y) == [z \in DOMAIN f \cup {x} |-> IF z = x THEN y ELSE f[z]]

-----------------------------------------------------------------------------
(* Joins *)

\* Mutant: the number of the row is not an attribute.
JoinedColumnsBare(left, right) ==
    ColumnsBeside(left, catalog[left], catalog[right])
        \o ColumnsBeside(right, catalog[right], catalog[left])

\* The number of the row comes first.
JoinedColumns(left, right) ==
    <<[name |-> " ", type |-> "INTEGER"]>>
        \o ColumnsBeside(left, catalog[left], catalog[right])
        \o ColumnsBeside(right, catalog[right], catalog[left])

\* Mutant: the inner loop stops before the last page.
RightPagesShort(i, p2) == IF i = 1 THEN SubSeq(p2, 1, Len(p2) - 1) ELSE <<Last(p2)>>

\* The inner pages are not reset: only the first page of the left table meets
\* all of them.
RightPages(i, p2) == IF i = 1 THEN p2 ELSE <<Last(p2)>>

PairsOfPages(x, y) ==
    FlattenSeq([n \in DOMAIN x |-> [m \in DOMAIN y |-> x[n] \o y[m]]])

\* join_two_tables_block_nested
JoinedRows(p1, p2) ==
    LET pairs == FlattenSeq([i \in DOMAIN p1 |-> FlattenSeq(
                    [j \in DOMAIN RightPages(i, p2) |-> PairsOfPages(p1[i], RightPages(i, p2)[j])])])
    IN  IF p2 = <<>> THEN <<>> ELSE [c \in DOMAIN pairs |-> <<c - 1>> \o pairs[c]]

Without(rows, refused) ==
    FlattenSeq([c \in DOMAIN rows |-> IF c \in refused THEN <<>> ELSE <<rows[c]>>])

\* A row of a file that has the number of a new one takes its place.
Displaced(old, rows) ==
    [c \in DOMAIN rows |->
        LET same == {o \in Range(old) : o[1] = c - 1}
        IN  IF same = {} THEN rows[c] ELSE CHOOSE o \in same : TRUE]

Taken(old) == {c \in Nat : \E o \in Range(old) : o[1] = c - 1}

\* The rows of a file and the new ones, in the order of their numbers; a new
\* row with the number of an old one is a duplicate.
Merged(old, rows, refused) ==
    Without(Displaced(old, rows), refused \ Taken(old))
        \o Without(old, {n \in DOMAIN old : old[n][1] < Len(rows)})

\* The rows of a file read as records of other columns: values are where they
\* were as long as the fields before them have the same types.
ReadAs(pages, columns, others) ==
    LET value(r, i) ==
            IF \A j \in 1 .. i : j \in DOMAIN columns /\ columns[j].type = others[j].type
            THEN r[i] ELSE Unset
    IN  [p \in DOMAIN pages |-> [k \in DOMAIN pages[p] |->
            [i \in DOMAIN others |-> value(pages[p][k], i)]]]

FileOf(name) == IF name \in DOMAIN files THEN files[name] ELSE <<>>

\* The pages as the variants of select get them: from the buffer, else from a
\* file, which they then cache.
Loaded(io, name, path, pages) ==
    IF name \in DOMAIN io \/ pages = <<>> THEN io
    ELSE With(io, name, [page |-> pages, path |-> path])

PageIn(io, name) == IF name \in DOMAIN io THEN io[name].page ELSE <<>>

\* select_where_projection_product reads both tables from their files.
ReadsFiles == ~query.star /\ query.orderBy = ""

-----------------------------------------------------------------------------
(* The stages *)

\* The buffer of the condition is appended to as it is, but for a select
\* without where.
Text(leftover) ==
    IF query.alternatives = <<>> THEN <<Word("true")>>
    ELSE leftover \o Spelling(query.alternatives, query.columns)

Parse ==
    /\ stage = "parse"
    /\ \E leftover \in Leftovers : \E text \in {Text(leftover)} :
       \E tokens \in {Tokens(text)} :
          /\ parsed' = ParseConditional(tokens)
          /\ clean' = (leftover = <<>> \/ query.alternatives = <<>>)
    /\ stage' = IF parsed'.crash THEN "crashed"
                ELSE IF query.names[1] \in DOMAIN catalog THEN "join" ELSE "refused"
    /\ UNCHANGED <<input, catalog, files, buffer, tables, page, position, chosen, printed>>

Right == query.names[tables.joined + 1]

\* The right table is looked for after the pages of the left one have been
\* cached; that it does not exist goes unnoticed.
JoinUnknown ==
    /\ stage = "join"
    /\ tables.joined < Len(query.names)
    /\ Right \notin DOMAIN catalog
    /\ stage' = "crashed"
    /\ UNCHANGED <<input, catalog, files, buffer, clean, parsed, tables, page,
                   position, chosen, printed>>

\* Every variant but ReadsFiles reads the file of the left table for the right
\* one if that is not cached, and caches it under the name of the right one.
SourcesOf(left, right) ==
    LET io1 == Loaded(buffer, left, left, FileOf(left))
        io2 == Loaded(io1, right, left, ReadAs(FileOf(left), catalog[left], catalog[right]))
    IN  IF ReadsFiles
        THEN [io |-> buffer, p1 |-> FileOf(left), p2 |-> FileOf(right)]
        ELSE [io |-> io2, p1 |-> PageIn(io1, left), p2 |-> PageIn(io2, right)]

\* A join of the same tables that the catalog has is dropped; the rows of one
\* that it does not have are still in the file, and the new ones go between
\* them.  A row is refused if its size, or the number of unique attributes of
\* the joined table, is not what it should be: neither is initialised.
Join ==
    LET left == tables.name
        name == JoinedName(left, Right)
    IN  /\ stage = "join"
        /\ tables.joined < Len(query.names)
        /\ Right \in DOMAIN catalog
        /\ \E sources \in {SourcesOf(left, Right)} :
           \E rows \in {JoinedRows(sources.p1, sources.p2)} :
           \E refused \in kSubset(MaxRefused, DOMAIN rows) \cup {{}} :
           \E old \in {IF name \in DOMAIN Dropped(files, name) THEN FlattenSeq(files[name]) ELSE <<>>} :
           \E merged \in {Merged(old, rows, refused)} :
              /\ files' = IF old # <<>> \/ merged = <<>> THEN Dropped(files, name)
                          ELSE With(Dropped(files, name), name, <<<<merged[1]>>>>)
              /\ buffer' = Loaded(Dropped(sources.io, name), name, name,
                                  IF merged = old THEN <<>> ELSE <<merged>>)
              /\ clean' = (clean /\ refused = {})
        /\ catalog' = With(Dropped(catalog, name), name, JoinedColumns(left, Right))
        /\ tables' = [name |-> name, joined |-> tables.joined + 1]
        /\ UNCHANGED <<input, stage, parsed, page, position, chosen, printed>>

Load ==
    /\ stage = "join"
    /\ tables.joined = Len(query.names)
    /\ buffer' = Loaded(buffer, tables.name, tables.name, FileOf(tables.name))
    /\ page' = FlattenSeq(PageIn(buffer', tables.name))
    /\ stage' = "filter"
    /\ UNCHANGED <<input, catalog, files, clean, parsed, tables, position, chosen, printed>>

\* One record.  Ordering copies the records that pass into blocks that are too
\* small for them, which the allocator may find out.
Filter ==
    /\ stage = "filter"
    /\ position < Len(page)
    /\ position' = position + 1
    /\ \E outcome \in Evaluate(parsed.tree, catalog[tables.name], page[position + 1]) :
          /\ stage' \in IF outcome = "crash" THEN {"crashed"}
                        ELSE IF query.orderBy # "" /\ chosen # <<>> THEN {stage, "crashed"}
                        ELSE {stage}
          /\ chosen' = IF outcome = "yes" THEN Append(chosen, page[position + 1]) ELSE chosen
    /\ UNCHANGED <<input, catalog, files, buffer, clean, parsed, tables, page, printed>>

\* int
Wrap(x) == ((x + IntLimit) % (2 * IntLimit)) - IntLimit

\* A double converted to an int, in tenths: towards zero.
Truncate(tenths) == IF tenths < 0 THEN -((-tenths) \div 10) ELSE tenths \div 10

\* The column of a name, the last if there are several, or the first column.
ColumnOf(name) ==
    LET columns == catalog[tables.name]
    IN  CHOOSE i \in DOMAIN columns :
            IF HasColumn(columns, name) THEN i \in ColumnsNamed(columns, name) ELSE i = 1

\* compare_records
CompareRecords(r, s) ==
    LET i == ColumnOf(query.orderBy)
        type == catalog[tables.name][i].type
    IN  CASE type = "INTEGER" -> Wrap(r[i] - s[i])
          [] type = "DOUBLE"  -> Truncate(r[i] - s[i])
          [] type = "BOOL"    -> IF r[i] = 1 THEN 1 ELSE -1
          [] IsText(type)     -> Rank(r[i]) - Rank(s[i])

\* Mutant: a record moves at most one place.
MovedOnce(records, n) ==
    IF n > 1 /\ CompareRecords(records[n], records[n - 1]) < 0
    THEN [records EXCEPT ![n - 1] = records[n], ![n] = records[n - 1]]
    ELSE records

\* Record n has moved to the front while it is smaller than its neighbour.
Moved(records, n) ==
    LET smaller(i) == CompareRecords(records[n], records[i]) < 0
        place == CHOOSE p \in 1 .. n : /\ \A i \in p .. n - 1 : smaller(i)
                                       /\ p > 1 => ~smaller(p - 1)
    IN  InsertAt(RemoveAt(records, n), place, records[n])

Collected ==
    /\ stage = "filter"
    /\ position = Len(page)
    /\ query.orderBy # ""
    /\ stage' = "sort"
    /\ position' = 0
    /\ UNCHANGED <<input, catalog, files, buffer, clean, parsed, tables, page, chosen, printed>>

\* Mutant: the next record is looked at only if one was moved.
SortWhileMoving ==
    /\ stage = "sort"
    /\ position < Len(chosen)
    /\ chosen' = Moved(chosen, position + 1)
    /\ position' = IF chosen' = chosen THEN position ELSE position + 1
    /\ UNCHANGED <<input, catalog, files, buffer, stage, clean, parsed, tables, page, printed>>

\* One turn of insertion_sort_records.
Sort ==
    /\ stage = "sort"
    /\ position < Len(chosen)
    /\ position' = position + 1
    /\ chosen' = Moved(chosen, position + 1)
    /\ UNCHANGED <<input, catalog, files, buffer, stage, clean, parsed, tables, page, printed>>

\* The values of the attributes that are asked for.
Shown ==
    IF query.star THEN chosen
    ELSE [n \in DOMAIN chosen |->
             [a \in DOMAIN query.attributes |-> chosen[n][ColumnOf(query.attributes[a])]]]

\* A value is printed as null if its flag says so, which nothing may have set:
\* as a bound of the model, one value at most.
Output ==
    /\ IF query.orderBy = "" THEN stage = "filter" /\ position = Len(page)
       ELSE stage = "sort" /\ position = Len(chosen)
    /\ \/ printed' = Shown /\ UNCHANGED clean
       \/ \E n \in DOMAIN Shown : \E a \in DOMAIN Shown[n] :
             printed' = [Shown EXCEPT ![n][a] = Unset] /\ clean' = FALSE
    /\ stage' = "done"
    /\ UNCHANGED <<input, catalog, files, buffer, parsed, tables, page, position, chosen>>

\* The statement is over: the program takes the next one, or it has crashed.
Over == stage \in {"done", "refused", "crashed"}

Finished == Over /\ UNCHANGED vars

Next == Parse \/ JoinUnknown \/ Join \/ Load \/ Filter \/ Collected \/ Sort \/ Output \/ Finished

\* The statement runs without waiting for anyone.
Spec == Init /\ [][Next]_vars /\ WF_vars(Next)
-----------------------------------------------------------------------------
(* Correctness *)

\* The variables keep the shapes of what they stand for; a table that is
\* cached has a page.
TypeOK ==
    /\ stage \in {"parse", "join", "filter", "sort", "done", "refused", "crashed"}
    /\ clean \in BOOLEAN
    /\ DOMAIN input.catalog \subseteq DOMAIN catalog
    /\ tables.joined \in 1 .. Len(query.names)
    /\ \A n \in DOMAIN buffer : buffer[n].page # <<>>
    /\ position \in 0 .. Len(IF stage = "sort" THEN chosen ELSE page)
    /\ stage = "filter" => Len(chosen) <= position
    /\ \A i \in DOMAIN page : Len(page[i]) = Len(catalog[tables.name])

Parses == stage # "parse" /\ clean

Meant(row) ==
    query.alternatives = <<>> \/ Meaning(query.alternatives, query.columns, row)

Loads == stage \in {"filter", "sort", "done"}

\* A condition without spaces around its relations, in which only the first
\* alternative has an "and", gives a tree without a NULL.
UnderstoodIsParsed ==
    Parses /\ Understood(query.alternatives) => IsProper(parsed)

\* The parser rejects the conditions it does not understand: without spaces
\* around its relations, a condition is never read in another way than it is
\* meant.
NeverMisread ==
    Parses /\ Loads /\ IsProper(parsed) /\ Unspaced(query.alternatives) =>
        \A i \in DOMAIN page : Unset \notin Range(page[i]) =>
            Evaluate(parsed.tree, catalog[tables.name], page[i])
                = Outcome(Meant(page[i]))

\* What a table has in its file, and what it holds, when a statement is typed.
InFile(i, n) == IF n \in DOMAIN i.files THEN i.files[n] ELSE <<>>

HeldPages(i, n) == IF n \in DOMAIN i.buffer THEN i.buffer[n].page ELSE InFile(i, n)

Held(n) == FlattenSeq(HeldPages(input, n))

Product ==
    IF Len(query.names) = 1 THEN Range(Held(query.names[1]))
    ELSE {r \o s : r \in Range(Held(query.names[1])), s \in Range(Held(query.names[2]))}

Values(row) == IF Len(query.names) = 1 THEN row ELSE Tail(row)

\* The variants read what the tables hold: the plain projection if nothing in
\* the buffer is newer than its file, the others if the right table is cached;
\* a join, if a crash has left no file of an older one without its table.
ReadsWhatIsHeld ==
    \/ Len(query.names) = 1
    \/ /\ DOMAIN input.files \subseteq DOMAIN input.catalog
       /\ IF ReadsFiles
          THEN \A k \in 1 .. 2 : FlattenSeq(InFile(input, query.names[k])) = Held(query.names[k])
          ELSE query.names[2] \in DOMAIN input.buffer \cup {query.names[1]}

OneLeftPage ==
    Len(IF ReadsFiles THEN InFile(input, query.names[1]) ELSE HeldPages(input, query.names[1])) <= 1

\* Statements on one or two tables, which hold each row once.
TwoTables ==
    \A i \in Inputs : /\ Len(i.query.names) <= 2
                      /\ \A n \in DOMAIN i.catalog : IsInjective(FlattenSeq(HeldPages(i, n)))

\* A join has pairs of rows of its tables, none twice, and all of them when the
\* left table has one page.
JoinPairsOnce ==
    Loads /\ ReadsWhatIsHeld =>
        LET rows == [i \in DOMAIN page |-> Values(page[i])]
        IN  /\ IsInjective(rows)
            /\ Range(rows) \subseteq Product
            /\ clean /\ (OneLeftPage \/ Len(query.names) = 1) => Range(rows) = Product

\* The values of the attributes by their first column, which is the only one
\* but in the join of a table with itself.
Projection(row) ==
    IF query.star THEN row
    ELSE [a \in DOMAIN query.attributes |->
             row[CHOOSE i \in DOMAIN query.columns :
                     query.columns[i].name = query.attributes[a]]]

\* A select prints what is asked for of the rows of its tables, or of the
\* pairs of a join, that meet the condition, and of each once.
AnswersQuery ==
    /\ stage = "done" /\ clean /\ ReadsWhatIsHeld /\ Understood(query.alternatives)
    /\ OneLeftPage \/ Len(query.names) = 1
    => LET asRead(r) == IF Len(query.names) = 1 THEN r ELSE <<0>> \o r
           answer == {r \in Product : Meant(asRead(r))}
           shown(r) == IF query.star THEN Values(r) ELSE r
       IN  /\ Len(printed) = Cardinality(answer)
           /\ {shown(r) : r \in Range(printed)} =
                  {shown(Projection(asRead(r))) : r \in answer}

\* The conditions are about columns.
AsksOfColumns ==
    \A i \in Inputs : \/ i.query.alternatives = <<>>
                      \/ IsMeant(i.query.alternatives, i.query.columns)

TestsOf(alternatives) == UNION {Range(alternatives[i]) : i \in DOMAIN alternatives}

\* A statement on one table or two, whose tests are of columns that these have.
IsOfItsTables(i) ==
    /\ Len(i.query.names) <= 2
    /\ TablesKnown(i) =>
          /\ i.query.columns = ColumnsRead(i)
          /\ \A test \in TestsOf(i.query.alternatives) : IsAnswerable(test, i.query.columns)

\* The first column of a join is the number of the row.
IsOfTable(i, c) == Len(i.query.names) = 1 \/ c # 1

\* Its tables hold no value that was never written, and it tests and asks for
\* their columns by names that are the only ones.
IsPlain(i) ==
    TablesKnown(i) =>
        /\ \A n \in DOMAIN i.catalog : \A r \in Range(FlattenSeq(HeldPages(i, n))) : Unset \notin Range(r)
        /\ \A test \in TestsOf(i.query.alternatives) : test.kind # "truth" =>
              IsOfTable(i, test.column) /\ (test.kind = "column" => IsOfTable(i, test.value))
        /\ ~i.query.star => \A a \in DOMAIN i.query.attributes : \E c \in DOMAIN i.query.columns :
              /\ i.query.columns[c].name = i.query.attributes[a]
              /\ OnlyColumn(i.query.columns, c) /\ IsOfTable(i, c)

\* Integers whose differences are integers.
Close(i) == \A r \in Range(chosen) : 2 * r[i] \in -IntLimit .. IntLimit - 1

\* Records are printed in the order of the column, which is the first if the
\* table has none of that name.  For doubles, whose differences are rounded,
\* no record comes directly before one that is less by 1 or more.
PrintedInOrder ==
    stage = "done" /\ query.orderBy # "" =>
        LET i == ColumnOf(query.orderBy)
            type == catalog[tables.name][i].type
            value(n) == IF IsText(type) THEN Rank(chosen[n][i]) ELSE chosen[n][i]
        IN  \A n \in 1 .. Len(chosen) - 1 :
                CASE type = "DOUBLE"  -> value(n) - value(n + 1) < 10
                  [] type = "INTEGER" -> Close(i) => value(n) <= value(n + 1)
                  [] OTHER            -> value(n) <= value(n + 1)

\* Every select comes to its end, or crashes.
Terminates == <>Over
=============================================================================
