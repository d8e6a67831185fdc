------------------------------ MODULE Database ------------------------------
(***************************************************************************)
(* The statements of the program working together (query_processor.c,      *)
(* catalog.c, main.c and the record operations of page.c): the array of    *)
(* tables in memory, the page buffer, the file of every table and the      *)
(* catalog file, with <quit>, a restart, and a crash between any two       *)
(* steps.                                                                  *)
(*                                                                         *)
(* The pages of a table are the set of its rows (PageChain shows that they *)
(* implement one).  A row is a sequence of values; its first value is the  *)
(* primary key, an INTEGER.  Columns are told apart by their position.  A  *)
(* file has no description of its columns: it is read and written with as  *)
(* many columns as the Table structure at hand says, and a value that was  *)
(* not there is Garbled.  A file that does not exist has no rows (no page  *)
(* without records is ever written).                                       *)
(*                                                                         *)
(* Every record carries a bitmap of the columns that are not null.  Its    *)
(* bits outlive the columns they were set for: a row may be longer than    *)
(* the table has columns, and what it has there are its bits.              *)
(***************************************************************************)
EXTENDS BufferArray, FiniteSets, SequencesExt

CONSTANTS
    Names,
    Keys,
    Values,
    Null,
    Garbled,        \* what is read where nothing was written
    Zero,           \* what is written for a null: 0, FALSE or no text
    Unmarked,       \* a null whose bit is set, left from a column that was dropped
    Gone,           \* a bit that is set, without a value
    MaxTables,      \* bound of the model on the array of tables
    MaxColumns,     \* bound of the model
    NewTableColumns,\* numbers of columns of a new table
    Statements,     \* the kinds of statement that are typed
    NoTable

ASSUME DatabaseAssumption ==
    /\ Keys \subseteq Int
    /\ Null \notin Keys \cup Values
    /\ Garbled \notin Keys \cup Values \cup {Null, Zero}
    /\ Unmarked \notin Keys \cup Values \cup {Null, Garbled, Zero}
    /\ Gone \notin Keys \cup Values \cup {Null, Garbled, Zero, Unmarked}
    /\ MaxPages \in Nat \ {0}
    /\ MaxTables \in Nat
    /\ MaxColumns \in Nat
    /\ NewTableColumns \subseteq 1 .. MaxColumns
    /\ StampLimit \in Nat /\ StampLimit > MaxPages + 1
    /\ NoTable \notin [name : Names, columns : 1 .. MaxColumns]

VARIABLES
    up,         \* is the process running?
    slots,      \* schema->tables, with what is left behind num_tables
    count,      \* schema->num_tables
    room,       \* for how many tables the array is allocated
    entries,    \* the page buffer
    files,      \* what the file of each table holds
    catalog,    \* what the catalog file holds
    pending     \* the statement that has removed a table and not yet written it again

vars == <<up, slots, count, room, entries, files, catalog, pending>>

Table == [name : Names, columns : 1 .. MaxColumns]

NoSlots == [i \in 1 .. MaxTables |-> NoTable]

Idle == [kind |-> "idle"]

Init ==
    /\ up = TRUE
    /\ slots = NoSlots
    /\ count = 0
    /\ room = MaxTables
    /\ entries = <<>>
    /\ files = [n \in Names |-> {}]
    /\ catalog = <<>>
    /\ pending = Idle

-----------------------------------------------------------------------------
(* Tables in memory *)

SlotsOf(n) == {i \in 1 .. count : slots[i].name = n}

Exists(n) == SlotsOf(n) # {}

\* get_table: the first table with the name.
SlotOf(n) == CHOOSE i \in SlotsOf(n) : \A j \in SlotsOf(n) : i <= j

\* A pointer to a Table is a slot of the array, or 0 for one of its own that
\* alter_table_add and alter_table_drop have made.
Pointer(i) == [slot |-> i, columns |-> 0]

OwnTable(columns) == [slot |-> 0, columns |-> columns]

\* A pointer into an array that realloc has moved and freed.
Dangling == [slot |-> 0, columns |-> 0]

ColumnsAt(pointer) ==
    IF pointer.slot = 0 THEN pointer.columns ELSE slots[pointer.slot].columns

\* What may be read through a pointer: of freed memory, any number.
ColumnsRead(pointer) ==
    IF pointer = Dangling THEN 0 .. MaxColumns ELSE {ColumnsAt(pointer)}

-----------------------------------------------------------------------------
(* Rows, files and the buffer.  An operator takes the entries and the files *)
(* as a record and returns them changed.                                    *)

KeysOf(rows) == {r[1] : r \in rows}

\* The order of the primary key; a key that was never written comes last.
Precedes(r, s) == r[1] \in Keys /\ (s[1] \in Keys => r[1] < s[1])

InKeyOrder(rows) ==
    CHOOSE s \in [1 .. Cardinality(rows) -> rows] :
        \A i, j \in DOMAIN s : i < j => Precedes(s[i], s[j])

\* A bitmap decides what is null when a file is read; in memory every value
\* has a flag of its own.  A null is written as Zero, and where its bit is
\* set that is what it has become.
Written(x) == IF x = Unmarked THEN Zero ELSE IF x = Gone THEN Garbled ELSE x

BitOf(x) == IF x = Null THEN Null ELSE Gone

\* A row, and rows, as they are read or written by a Table with so many
\* columns: the bits of further columns stay.
WithColumns(r, columns) ==
    IF columns = 0 THEN <<>>
    ELSE [i \in DOMAIN r \cup 1 .. columns |->
            IF i > Len(r) THEN Garbled
            ELSE IF i > columns THEN BitOf(r[i]) ELSE Written(r[i])]

Layout(rows, columns) == {WithColumns(r, columns) : r \in rows}

\* A row, and rows, as they are printed.
Seen(x) == IF x = Unmarked THEN Null ELSE IF x = Gone THEN Garbled ELSE x

Printed(r, columns) ==
    [i \in 1 .. columns |-> IF i <= Len(r) THEN Seen(r[i]) ELSE Garbled]

View(rows, columns) == {Printed(r, columns) : r \in rows}

\* Stamps matter by their order alone: keep them as ranks 1 .. Len(es).
Ranked(es) ==
    [i \in DOMAIN es |-> [es[i] EXCEPT !.last_used =
        Cardinality({j \in DOMAIN es : es[j].last_used <= es[i].last_used})]]

IsCached(io, n) == EntriesOf(io.entries, n) # {}

EntryOf(io, n) == CHOOSE i \in DOMAIN io.entries : IsFirstEntry(io.entries, n, i)

\* find_in_buffer
Found(io, n) ==
    IF IsCached(io, n)
    THEN [io EXCEPT !.entries = Ranked(Stamped(@, EntryOf(io, n), Len(@) + 1))]
    ELSE io

\* remove_from_buffer
Uncached(io, n) ==
    IF IsCached(io, n)
    THEN [io EXCEPT !.entries = Ranked(Without(@, EntryOf(io, n), Len(@) + 1))]
    ELSE io

\* add_to_buffer.  A full buffer writes its victim, with the columns of the
\* table that is being added, and does not take the new page.
Cached(io, n, pointer, page) ==
    IF IsFull(io.entries)
    THEN LET e == io.entries[CHOOSE i \in DOMAIN io.entries : IsVictim(io.entries, i)]
         IN  [io EXCEPT !.files[e.name] = Layout(e.page, ColumnsAt(pointer))]
    ELSE [io EXCEPT !.entries =
            Append(@, [name |-> n, table |-> pointer, page |-> page, last_used |-> Len(@) + 1])]

\* Mutant: the file is not read.
PagesInBuffer(io, n, columns) ==
    IF IsCached(io, n) THEN io.entries[EntryOf(io, n)].page ELSE {}

\* The pages of a table: from the buffer, else from its file.
PagesOf(io, n, columns) ==
    IF IsCached(io, n) THEN io.entries[EntryOf(io, n)].page
                       ELSE Layout(io.files[n], columns)

\* The record starts the table: its page goes to the file and the buffer.
FirstRecord(io, n, pointer, r) ==
    Cached([io EXCEPT !.files[n] = Layout({r}, ColumnsAt(pointer))], n, pointer, {r})

Clashes(io, n, pointer, r) == r[1] \in KeysOf(PagesOf(io, n, ColumnsAt(pointer)))

\* add_record_to_page.  What it changes in a page that is not in the buffer
\* is in memory only.
AddRecord(io, n, pointer, r) ==
    LET page == PagesOf(io, n, ColumnsAt(pointer))
    IN  IF IsCached(io, n)
        THEN LET found == Found(io, n)
             IN  IF Clashes(io, n, pointer, r) THEN found
                 ELSE [found EXCEPT !.entries[EntryOf(io, n)].page = @ \cup {r}]
        ELSE IF page = {} THEN FirstRecord(io, n, pointer, r)
        ELSE IF Clashes(io, n, pointer, r) THEN io
        ELSE Cached(io, n, pointer, page \cup {r})

\* Adding a record makes the first page of the table.  Its total of bytes is
\* not initialised before the size of the record is added, and the page may
\* be refused as overfull.
MakesPage(io, n, pointer) ==
    ~IsCached(io, n) /\ PagesOf(io, n, ColumnsAt(pointer)) = {}

IO == [entries |-> entries, files |-> files]

SetIO(io) ==
    /\ entries' = io.entries
    /\ files' = io.files

-----------------------------------------------------------------------------
(* Statements.  A statement that removes a table and writes its rows again  *)
(* does so row by row: a crash may come before each.                        *)

Typed(statement) ==
    /\ up
    /\ pending = Idle
    /\ statement \in Statements

\* What the entries are after the array has been moved.
EntriesDangling ==
    [i \in 1 .. Len(entries) |->
        IF entries[i].table.slot = 0 THEN entries[i]
        ELSE [entries[i] EXCEPT !.table = Dangling]]

\* The array is reallocated for exactly its tables; it may move when it grows.
CreateTable(n, columns) ==
    /\ Typed("create") \/ (Typed("create first") /\ entries = <<>>)
    /\ ~Exists(n)
    /\ count < MaxTables
    /\ slots' = [slots EXCEPT ![count + 1] = [name |-> n, columns |-> columns]]
    /\ count' = count + 1
    /\ room' = count + 1
    /\ \/ UNCHANGED entries
       \/ count + 1 > room /\ entries' = EntriesDangling
    /\ UNCHANGED <<up, files, catalog, pending>>

\* Records, one or two of them, are added until one is refused.
Insert(n, rows) ==
    LET pointer == Pointer(SlotOf(n))
        first == AddRecord(IO, n, pointer, rows[1])
    IN  /\ Typed("insert")
        /\ Exists(n)
        /\ SetIO(IF Len(rows) = 1 \/ Clashes(IO, n, pointer, rows[1]) THEN first
                 ELSE AddRecord(first, n, pointer, rows[2]))
        /\ UNCHANGED <<up, slots, count, room, catalog, pending>>

\* The first page is refused, and nothing has been done.
InsertRefused(n) ==
    /\ Typed("insert")
    /\ Exists(n)
    /\ MakesPage(IO, n, Pointer(SlotOf(n)))
    /\ UNCHANGED vars

\* A select caches the pages it reads.
Select(n) ==
    LET pointer == Pointer(SlotOf(n))
        page == PagesOf(IO, n, ColumnsAt(pointer))
    IN  /\ Typed("select")
        /\ Exists(n)
        /\ SetIO(IF IsCached(IO, n) THEN Found(IO, n)
                 ELSE IF page = {} THEN IO
                 ELSE Cached(IO, n, pointer, page))
        /\ UNCHANGED <<up, slots, count, room, catalog, pending>>

\* Mutant: the entry stays in the buffer.
RemovedFileOnly(io, n) == [io EXCEPT !.files[n] = {}]

\* Entry and file of a table are removed.
Removed(io, n) == [Uncached(io, n) EXCEPT !.files[n] = {}]

\* Mutant: the last table is not moved.
SlotsKeptInPlace(n) == slots

\* Mutant: the slot behind the last table is moved.
SlotsFromBehind(n) == [slots EXCEPT ![SlotOf(n)] = slots[count + 1]]

\* drop_table moves the last table into the slot of the one it removes.
SlotsWithout(n) == [slots EXCEPT ![SlotOf(n)] = slots[count]]

DropTable(n) ==
    /\ Typed("drop")
    /\ Exists(n)
    /\ SetIO(Removed(IO, n))
    /\ slots' = SlotsWithout(n)
    /\ count' = count - 1
    /\ UNCHANGED <<up, room, catalog, pending>>

\* drop_table, then add_table_to_catalog of what original_table points to by
\* now: the table that was moved into the slot.  The array never grows here.
DropAndAddAgain(n) ==
    /\ SetIO(Removed(IO, n))
    /\ slots' = [SlotsWithout(n) EXCEPT ![count] = SlotsWithout(n)[SlotOf(n)]]
    /\ room' = count
    /\ UNCHANGED <<up, count, catalog>>

DeleteAll(n) ==
    /\ Typed("delete all")
    /\ Exists(n)
    /\ DropAndAddAgain(n)
    /\ UNCHANGED pending

\* The rows that a delete keeps, or an update has changed, are written back
\* by delete_where and update_where in the order of the old pages.
WriteBack(n, rows) ==
    pending' = [kind |-> "rewrite", name |-> n, table |-> Pointer(SlotOf(n)),
                columns |-> slots[SlotOf(n)].columns, rows |-> rows, started |-> FALSE,
                old |-> {}]

RowsInOrder(n) == InKeyOrder(PagesOf(IO, n, slots[SlotOf(n)].columns))

KeptByDelete(n, key) ==
    InKeyOrder({r \in PagesOf(IO, n, slots[SlotOf(n)].columns) : r[1] # key})

Delete(n, key) ==
    /\ Typed("delete")
    /\ Exists(n)
    /\ DropAndAddAgain(n)
    /\ WriteBack(n, KeptByDelete(n, key))

\* An update sets a value and not the flag or the bit: a null stays one.
Set(x, value) == IF x \in {Null, Unmarked} THEN x ELSE value

Update(n, key, column, value) ==
    LET rows == RowsInOrder(n)
    IN  /\ Typed("update")
        /\ Exists(n)
        /\ column \in 1 .. slots[SlotOf(n)].columns
        /\ DropAndAddAgain(n)
        /\ WriteBack(n, [i \in DOMAIN rows |->
              IF rows[i][1] = key THEN [rows[i] EXCEPT ![column] = Set(@, value)] ELSE rows[i]])

\* An update with a value of the wrong type ends at the first row that meets
\* the condition; that row and those after it are not written back.
RefusedUpdate(n, key) ==
    LET rows == RowsInOrder(n)
        meets(r) == r[1] = key
    IN  /\ Typed("refused update")
        /\ Exists(n)
        /\ DropAndAddAgain(n)
        /\ WriteBack(n, IF key \in KeysOf(Range(rows))
                        THEN SubSeq(rows, 1, SelectInSeq(rows, meets) - 1) ELSE rows)

\* Mutant: a row that is refused is tried again.
RewriteRowUntilAdded ==
    LET pointer == pending.table
        n == slots[pointer.slot].name
        r == Head(pending.rows)
    IN  /\ up
        /\ pending.kind = "rewrite"
        /\ pending.rows # <<>>
        /\ SetIO(IF pending.started THEN AddRecord(IO, n, pointer, r)
                 ELSE FirstRecord(IO, n, pointer, r))
        /\ pending' = IF pending.started /\ Clashes(IO, n, pointer, r) THEN pending
                      ELSE [pending EXCEPT !.rows = Tail(@), !.started = TRUE]
        /\ UNCHANGED <<up, slots, count, room, catalog>>

\* The first row makes a new file and a new page; the others are added, and
\* nothing happens if one is refused.
RewriteRow ==
    LET pointer == pending.table
        n == slots[pointer.slot].name
        r == Head(pending.rows)
    IN  /\ up
        /\ pending.kind = "rewrite"
        /\ pending.rows # <<>>
        /\ SetIO(IF pending.started THEN AddRecord(IO, n, pointer, r)
                 ELSE FirstRecord(IO, n, pointer, r))
        /\ pending' = [pending EXCEPT !.rows = Tail(@), !.started = TRUE]
        /\ UNCHANGED <<up, slots, count, room, catalog>>

\* The new first page is refused: the statement ends with the table removed.
RewriteFails ==
    /\ up
    /\ pending.kind = "rewrite"
    /\ pending.rows # <<>>
    /\ ~pending.started
    /\ pending' = Idle
    /\ UNCHANGED <<up, slots, count, room, entries, files, catalog>>

\* Every table with the name gets the new number of columns.
SlotsWithColumns(n, columns) ==
    [i \in DOMAIN slots |->
        IF i \in SlotsOf(n) THEN [slots[i] EXCEPT !.columns = columns] ELSE slots[i]]

SavedCatalog(tables) == SubSeq(tables, 1, count)

\* The rows of an altered table are added to it again as new rows.
StartAlter(n, kind, columns, rows, old) ==
    /\ SetIO(Removed(IO, n))
    /\ pending' = [kind |-> kind, name |-> n, table |-> OwnTable(columns),
                   columns |-> columns, rows |-> rows, started |-> FALSE, old |-> old]
    /\ UNCHANGED <<up, slots, count, room, catalog>>

\* Mutant: the new value comes behind those of columns that were dropped.
RowWithValueAtEnd(r, columns, value) == Append(r, value)

\* A row with the value of a new column.  The bit of a value is set; that of a
\* null is as it was.
RowWithValue(r, columns, value) ==
    [i \in DOMAIN r \cup 1 .. columns + 1 |->
        IF i = columns + 1
        THEN IF value = Null /\ i <= Len(r) /\ r[i] # Null THEN Unmarked ELSE value
        ELSE IF i > Len(r) THEN Garbled
        ELSE IF i > columns THEN BitOf(r[i]) ELSE r[i]]

\* What remove_from_buffer returns: the page of the table, if it was there.
PageInBuffer(n) == IF IsCached(IO, n) THEN entries[EntryOf(IO, n)].page ELSE {}

\* A table without pages changes in the array (and in the catalog) at once.
AlterAdd(n, value) ==
    LET columns == slots[SlotOf(n)].columns
        rows == RowsInOrder(n)
    IN  /\ Typed(IF value = Null THEN "add null column" ELSE "add column")
        /\ Exists(n)
        /\ columns < MaxColumns
        /\ \/ /\ rows = <<>>
              /\ slots' = SlotsWithColumns(n, columns + 1)
              /\ catalog' = SavedCatalog(slots')
              /\ UNCHANGED <<up, count, room, entries, files, pending>>
           \/ /\ rows # <<>>
              /\ StartAlter(n, "add", columns + 1,
                    [i \in DOMAIN rows |-> RowWithValue(rows[i], columns, value)],
                    PageInBuffer(n))

\* The row without the column is built, but the old row is added, with its
\* values and its bitmap.
AlterDrop(n, column) ==
    LET columns == slots[SlotOf(n)].columns
        rows == RowsInOrder(n)
    IN  /\ Exists(n)
        /\ column \in 2 .. columns
        /\ Typed("drop column") \/ (Typed("drop last column") /\ column = columns)
        /\ \/ /\ rows = <<>>
              /\ slots' = SlotsWithColumns(n, columns - 1)
              /\ UNCHANGED <<up, count, room, entries, files, catalog, pending>>
           \/ rows # <<>> /\ StartAlter(n, "drop", columns - 1, rows, {})

Alters == up /\ pending.kind \in {"add", "drop"} /\ pending.rows # <<>>

AlterRow ==
    /\ Alters
    /\ ~Clashes(IO, pending.name, pending.table, Head(pending.rows))
    /\ SetIO(AddRecord(IO, pending.name, pending.table, Head(pending.rows)))
    /\ pending' = [pending EXCEPT !.rows = Tail(@)]
    /\ UNCHANGED <<up, slots, count, room, catalog>>

\* A row is refused, or the first page: the statement ends.  The columns stay
\* as they were, and alter_table_add puts the page that was in the buffer back.
AlterFails ==
    LET n == pending.name
        clash == Clashes(IO, n, pending.table, Head(pending.rows))
        io == IF clash THEN AddRecord(IO, n, pending.table, Head(pending.rows)) ELSE IO
    IN  /\ Alters
        /\ clash \/ MakesPage(IO, n, pending.table)
        /\ SetIO(IF pending.old = {} THEN io ELSE Cached(io, n, Pointer(SlotOf(n)), pending.old))
        /\ pending' = Idle
        /\ UNCHANGED <<up, slots, count, room, catalog>>

\* The new columns reach the array, and of alter_table_add the catalog, after
\* the last row.
Finish ==
    /\ up
    /\ pending # Idle
    /\ pending.rows = <<>>
    /\ slots' = IF pending.kind = "rewrite" THEN slots
                ELSE SlotsWithColumns(pending.name, pending.columns)
    /\ catalog' = IF pending.kind = "add" THEN SavedCatalog(slots') ELSE catalog
    /\ pending' = Idle
    /\ UNCHANGED <<up, count, room, entries, files>>

-----------------------------------------------------------------------------
(* The end of the process and its restart *)

Ended ==
    /\ up' = FALSE
    /\ slots' = NoSlots
    /\ count' = 0
    /\ room' = MaxTables
    /\ entries' = <<>>
    /\ pending' = Idle

\* Mutant: the page is written with the columns of the first table.
FlushedByFirstTable(io) ==
    IF io.entries = <<>> THEN {io.files}
    ELSE {[io.files EXCEPT ![io.entries[1].name] =
            Layout(io.entries[1].page, slots[1].columns)]}

\* flush_buffer writes the first entry and then loses its way (BufferManager):
\* what the files may hold then.
Flushed(io) ==
    IF io.entries = <<>> THEN {io.files}
    ELSE {[io.files EXCEPT ![io.entries[1].name] = Layout(io.entries[1].page, columns)] :
            columns \in ColumnsRead(io.entries[1].table)}

Quit ==
    /\ Typed("quit")
    /\ catalog' = SavedCatalog(slots)
    /\ files' \in Flushed(IO)
    /\ Ended

Crash ==
    /\ up
    /\ "crash" \in Statements
    /\ Ended
    /\ UNCHANGED <<files, catalog>>

\* restart_database and read_catalog, which allocates 100 tables: as many as
\* the model has.
Start ==
    /\ ~up
    /\ up' = TRUE
    /\ slots' = [i \in 1 .. MaxTables |-> IF i <= Len(catalog) THEN catalog[i] ELSE NoTable]
    /\ count' = Len(catalog)
    /\ UNCHANGED <<room, entries, files, catalog, pending>>

Continue == RewriteRow \/ RewriteFails \/ AlterRow \/ AlterFails \/ Finish

NewRows(columns) ==
    {r \in [1 .. columns -> Keys \cup Values] :
        r[1] \in Keys /\ \A i \in 2 .. columns : r[i] \in Values}

TypedRows(n) == IF Exists(n) THEN NewRows(slots[SlotOf(n)].columns) ELSE {}

Next ==
    \/ \E n \in Names :
          \/ \E columns \in NewTableColumns : CreateTable(n, columns)
          \/ \E r \in TypedRows(n) : Insert(n, <<r>>)
          \/ \E r, s \in TypedRows(n) : Insert(n, <<r, s>>)
          \/ InsertRefused(n)
          \/ Select(n)
          \/ DropTable(n)
          \/ DeleteAll(n)
          \/ \E key \in Keys :
                \/ Delete(n, key)
                \/ RefusedUpdate(n, key)
                \/ \E new \in Keys : Update(n, key, 1, new)
                \/ \E column \in 2 .. MaxColumns, value \in Values : Update(n, key, column, value)
          \/ \E value \in Values \cup {Null} : AlterAdd(n, value)
          \/ \E column \in 2 .. MaxColumns : AlterDrop(n, column)
    \/ Continue
    \/ Quit
    \/ Crash
    \/ Start

\* A statement, once it is typed, waits for nothing; the next one may never be
\* typed.
Spec == Init /\ [][Next]_vars /\ WF_vars(Continue)

-----------------------------------------------------------------------------
(* Correctness *)

Row ==
    LET values == Keys \cup Values \cup {Null, Garbled, Zero, Unmarked, Gone}
    IN  {r \in UNION {[1 .. c -> values] : c \in 1 .. MaxColumns} : r[1] \in Keys \cup {Garbled}}

PointerType == [slot : 0 .. MaxTables, columns : 0 .. MaxColumns]

Entry ==
    [name : Names, table : PointerType, page : (SUBSET Row) \ {{}}, last_used : 1 .. MaxPages]

Unfinished ==
    [kind : {"rewrite", "add", "drop"}, name : Names, table : PointerType,
     columns : 1 .. MaxColumns, rows : Seq(Row), started : BOOLEAN, old : SUBSET Row]

\* The variables have the types of the structures and files they stand for,
\* and the buffer is an array of at most max_pages entries with pages.  Every
\* row has a key, but for what is written through a dangling pointer.
TypeOK ==
    /\ up \in BOOLEAN
    /\ slots \in [1 .. MaxTables -> Table \cup {NoTable}]
    /\ room \in 0 .. MaxTables
    /\ count \in 0 .. room
    /\ \A i \in 1 .. count : slots[i] # NoTable
    /\ entries \in Seq(Entry) /\ Len(entries) <= MaxPages
    /\ files \in [Names -> SUBSET (Row \cup {<<>>})]
    /\ catalog \in Seq(Table) /\ Len(catalog) <= MaxTables
    /\ pending \in Unfinished \cup {Idle}

\* Of rows with the same key the first is kept.
FirstByKey(rows) ==
    {rows[i] : i \in {j \in DOMAIN rows : \A h \in 1 .. j - 1 : rows[h][1] # rows[j][1]}}

\* What a table holds for the one who types: while the program runs, the
\* pages in the buffer or else in the file, read with the columns of the
\* table; in the middle of a statement, also the rows that it still has to
\* write; while the program does not run, the file read with the columns in
\* the catalog.
Shown(n) ==
    IF up
    THEN IF pending # Idle /\ pending.name = n
         THEN LET done == PagesOf(IO, n, pending.columns)
                  left == {r \in FirstByKey(pending.rows) : r[1] \notin KeysOf(done)}
              IN  [columns |-> pending.columns, rows |-> View(done \cup left, pending.columns)]
         ELSE LET columns == slots[SlotOf(n)].columns
              IN  [columns |-> columns, rows |-> View(PagesOf(IO, n, columns), columns)]
    ELSE LET i == CHOOSE j \in DOMAIN catalog : catalog[j].name = n
         IN  [columns |-> catalog[i].columns, rows |-> View(files[n], catalog[i].columns)]

Living ==
    IF up THEN {slots[i].name : i \in 1 .. count} ELSE {catalog[i].name : i \in DOMAIN catalog}

\* The statements do what TableStore says: each changes the table it names,
\* in the way it is meant to, and no other.  Rewriting a table from memory
\* loses nothing, unless its first page is refused: then it loses the rows of
\* this table and no other.  <quit> followed by a restart changes nothing,
\* unless a null has the bit of a dropped column: alter_table_add "should
\* insert nulls to records" and is to "UPDATE BIT MAP", but these are zeroes
\* afterwards.
Store == INSTANCE TableStore WITH tables <- [n \in Living |-> Shown(n)]

Refused == RewriteFails \/ AlterFails

QuitWithBits ==
    Quit /\ \E i \in 1 .. Len(entries) : \E r \in entries[i].page : Unmarked \in Range(r)

ImplementsStore ==
    /\ Store!Init
    /\ [][\/ Store!Next
          \/ Refused /\ Store!Lose(pending.name)
          \/ QuitWithBits /\ \E n \in Names : Store!ZeroNulls(n)]_[n \in Living |-> Shown(n)]

\* A table has one entry in the buffer: the statements that add pages without
\* looking for an entry first have all removed it, unless the table they write
\* to is another than the one they have removed (RewritesItsTable).
CachedOnce ==
    \A n \in Names : Cardinality(EntriesOf(entries, n)) <= 1

\* Every statement comes to its end, whatever rows are refused on the way, or
\* the process ends.
StatementsEnd == pending # Idle ~> pending = Idle

\* Statements that remove the file of their table.
Removes(n) ==
    \/ DropTable(n)
    \/ DeleteAll(n)
    \/ \E key \in Keys : Delete(n, key) \/ RefusedUpdate(n, key)
    \/ \E key \in Keys : \E column \in 1 .. MaxColumns, value \in Keys \cup Values :
          Update(n, key, column, value)
    \/ \E value \in Values \cup {Null} : AlterAdd(n, value)
    \/ \E column \in 2 .. MaxColumns : AlterDrop(n, column)

\* A row that has reached the file of its table stays there: through every
\* crash and restart, every eviction and every statement on other tables,
\* until a statement on its own table removes the file.
StoredRowsStay ==
    [][\A n \in Names : KeysOf(files[n]) \subseteq KeysOf(files'[n]) \/ Removes(n)]_vars

\* Files and catalog are written at different times; after a crash a file
\* may be read with the columns of an older catalog, and a page in the buffer
\* outlives the Table that described it.  Still no value is read or written
\* where there is none, as long as no pointer dangles, the buffer is not full
\* and a file left by a table the catalog has lost is found by one like it.
NothingGarbled ==
    \A n \in Names :
        /\ \A r \in files[n] : Garbled \notin Range(r)
        /\ n \in Living => \A r \in Shown(n).rows : Garbled \notin Range(r)

\* Claimed, not kept: parse_delete and parse_update_table say of the table
\* they have dropped "we still have reference to it tho via original_table".
RewritesItsTable ==
    pending.kind = "rewrite" => slots[pending.table.slot].name = pending.name

\* Claimed, not kept: <quit> says it is to "flush page buffer and write to
\* disk".
QuitSavesPages ==
    [][Quit => \A n \in Living : Shown(n)' = Shown(n)]_vars

\* Claimed, not kept: "Inserting more than one value at a time now works".
InsertsAllRows ==
    [][\A n \in Names : \A r, s \in TypedRows(n) :
          Insert(n, <<r, s>>) => Store!Insert(n, <<r, s>>)]_vars
=============================================================================
