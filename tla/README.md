# A verification of the Group8QL database

The program is a small single-user database: it reads statements from a prompt,
keeps the rows of every table in linked pages, caches them in a page buffer and
writes them to one file per table, next to a catalog file that describes the
tables. It is one thread without timers or network. What is hard about it is
state that exists in several places at once (array of tables, buffer, table
files, catalog), statements that tear a table down and build it again, pointers
kept across such steps, the end of the process between two writes, and arrays
at their limits.

## Inventory

| Component | Code | State | Operations | Correct when |
|---|---|---|---|---|
| Page storage | `page.c` 3-630, 1295-1355 | pages linked by `next_page`; records, count, capacity and byte total of each | `insert_record_to_page`, `make_new_page_if_full`, `read_page_from_file`, `write_page_to_file` | the chain is ordered by primary key, loses and copies nothing, fits its pages and its arrays |
| Page buffer | `page.c` 1357-1470 | array of entries (table, first page, `last_used`), `curr_pages`, `counter` | find, add, remove, flush | the least recently used entry is determined, nothing else is disturbed, and statements that add without a lookup leave one entry per table |
| Statements | `query_processor.c`, `page.c` 375-451, 670-834 | none of their own | create, insert, select, delete, update, alter, drop, `<quit>` | each changes only the table it names, as TableStore says |
| Catalog | `catalog.c`, `table.h` | array of tables (`schema->tables`, `num_tables`), catalog file | `get_table`, `add_table_to_catalog`, `drop_table`, `alter_table_*`, `read_catalog`, `write_schemas_to_catalog` | files are read with the columns they were written with |
| Process | `main.c`, `process` | – | start, loop, `<quit>` | `<quit>` and a restart change nothing that is shown |
| Conditions | `conditional_parser.c`, `record.c` | token stack, tree | `parseConditional`, `evaluateCondition` | a condition is rejected or means what its text says; a usual one is not rejected |
| B+ tree | `bplus_tree.c` | nodes | insert, find, remove; no statement calls them | – |
| Joins, order by | `page.c` 878-1275, `query_processor.c` 503-790 | a derived table | nested-loop join, sorted printing | all pairs, each once; in order; what is asked for of the rows that meet the condition |
| Validation | `page.c` 3-91, `query_processor.c` 241-300 | – | `parse_tuple`, `check_valid_parsed_tuple` | ill-typed rows are refused before anything is added |
| Byte layout | `page.c` 3-373, 1295-1328 | file of a table | `check_valid_parsed_tuple`, `calculate_record_size`, `write_page_to_file`, `read_page_from_file` | what is read back is what was written |
| Display, string helpers | `display.c`, `parse_utils.c` | – | printing | – |

Statements call the record operations of `page.c`, which look the first page of
their table up in the buffer, else in its file. The buffer evicts by writing a
file. The catalog's drop and alter functions remove the entry and the file of a
table; entries keep pointers into the array of tables. The trees of the B+ tree
component are created with their tables, but no statement inserts into them. A
select of several tables joins them into a new table, which gets an entry in
the catalog, the buffer and a file like any other and stays there.

`PROJECT.json` lists the hazards at their lines.

## Modules

**OrderedTable** (abstract): the rows of one table. An insert adds exactly its
row or is refused for a reason.

**PageChain** implements it: the linked pages. `chain[p].recs`, `total`, `cap` and
`room` are `records`, `total_bytes_from_records`, `record_capacity` and the number of
slots really allocated. `Insert` is `add_record_to_page` and `insert_record_to_page`
including the split at their end; its disjuncts are the ways in which the scan can
end. `FirstStop` says at which record it stops: the first that clashes or that the new
record is not greater than. A fresh total is any member of `Garbage`, because `malloc`
does not clear it: so a first record may be refused, and a new page may be split at
once or much too late. `Reload` is a write followed by a read; it is disabled for a
page whose records would overwrite its offsets. `read_page_from_file` never sets the
`next_page` of the last page: `ending` is "null" or "wild" after it, and a scan that
nothing stops, or a write, then goes behind the last page (`GoAstray`), where the
process ends. `RejectsDuplicates` distinguishes the key types (INTEGER, DOUBLE) for
which a duplicate is refused from those (BOOL, CHAR, VARCHAR) for which it is only
reported. A write behind a records array that was read from a file is taken to
succeed.

**BufferArray** has the operations on the array of entries (find, stamp, remove
by moving the last entry, full, victim). **BufferManager** is the buffer by
itself, one action for each function: `Find`, `AddToFreeSlot`, `AddToFull` and
`AddWithoutVictim` for the three outcomes of `add_to_buffer`, `Remove`,
`Flush`. The functions are called in any order: `delete_where`, `update_where` and
`alter_table` add a page without a lookup, so that a table may get a second entry.
That the statements leave each table one is a property of Database (`CachedOnce`).
Pages are opaque. `AddToFull` writes the victim and does *not* take
the new page, which is what the code does. `Flush` ends the process after one
entry, because the loop increments `b`: on a 64-bit build with glibc the
`curr_pages` it then reads is the upper half of the size of the next chunk, 0.

**TableStore** (abstract): what the statements promise: named tables, each with a
number of columns and a set of rows; `<quit>` and restart are stuttering. A null
stays one through an update (`update_where` never clears the flag or sets the bit).
`Lose` and `ZeroNulls` are what no statement is meant to do: `ImplementsStore` allows
them for two kinds of step only, see below.

**Database** implements it where the code does: `slots`, `count` and `room` are
`schema->tables` (with what is left behind `num_tables`), `num_tables` and the
allocated size; `entries` the buffer, over the operators of BufferArray; `files`
and `catalog` the two kinds of file; `up` whether the process runs. Each
statement is an action. Statements that remove their table and write it again
(delete, update, alter) are several, `pending` holding the rows that are left, so
that a `Crash` can come after any of them: `Delete`/`Update` then one `RewriteRow`
for each row (`delete_where`, `update_where`), `AlterAdd`/`AlterDrop` then
`AlterRow`, and `Finish`. `RefusedUpdate` is an update with a value of the wrong
type: the table has been dropped, `update_where` returns at the first row that
meets the condition, and that row and those behind it are gone. TableStore has an
action of that name, which says what is left.
A pointer to a table is a slot of the array: after `drop_table` has moved the
last table, the slot holds another one, which is what `DropAndAddAgain` adds
back. `realloc` may move the array when it grows; pointers into it are then
`Dangling`. A file does not describe its columns: `Layout` reads or writes rows
with the columns of the table at hand, a value that is not there being
`Garbled`. Stamps are kept as ranks, their order being all that matters.

Every record has a bitmap of the columns that are not null, and in memory a flag for
each of them as well. The bits outlive their columns: `alter_table_drop` adds the old
record with its bits, `alter_table_add` copies the bitmap and sets a bit for a value
but clears none for a null. So a row may be longer than its table has columns; behind
them it has bits (`Gone` or `Null`). A null whose bit is set is `Unmarked`: it is shown as
null (`View`), written as 0, and read as `Zero` (`Layout`, `Written`). An update sets the
value and neither flag nor bit: a null stays one (`Set`).

The total of a first page is not initialised, so that `is_page_overfull` may refuse it.
An insert has then done nothing (`InsertRefused`), a delete or an update has lost the rows
that it tore down (`RewriteFails`), and an alter gives up with the columns as they were
(`AlterFails`; `alter_table_add` puts the page that was in the buffer back, `pending.old`,
without a lookup).

`Select` also stands for `display info`, and, taken once for each table, for
`display schema`: both cache pages in the same way.

**Condition**: the text of a condition as a sequence of items (words, numbers,
strings, relations, spaces), its tokens, the three parsing functions on the
stack of tokens, and the evaluation of the tree. A tree is a sequence in postfix
order, so that parser and evaluation are recursive functions on numbers. A
parser returns the tree, the number of tokens left on the stack, and whether it
popped from below the stack or wrote to a literal. The outcome of an evaluation
is a set, because `evaluateTest` may compare values that were never written.
`Meaning` is the reference: some alternative all of whose tests hold.

**Select**: one select from its text to its output, over Condition. The stages
are those of `parse_select` and the variant it calls: `Parse`, a `Join` for each
further table, `Load`, one `Filter` for each record, one `Sort` for each turn of
the insertion sort, `Output`. `ReadsFiles` is the variant that reads both tables
from their files; the others look into the buffer and read a right table that is
not cached from the file of the *left* one (`SourcesOf`), with the columns of the
right one (`ReadAs`). `JoinedRows` is the nested loop whose inner pages are not
reset. An older join of the same tables is dropped if the catalog has it (`Dropped`). If
a crash has left its file without an entry in the catalog (`IsOrphan`), `drop_table`
touches nothing, and the new rows go between those of the file, the ones whose number
is taken being refused (`Merged`). `clean` remembers whether memory that was never
initialised has mattered: the condition buffer to which `parse_select` appends; the size
and the number of unique attributes of a joined row, for which it may be refused; and
the `is_null` flag of a value, for which `Output` may print null in its place.

**PageLayout**: the bytes of a table's file. A byte knows of which value it is
which part, so that a value can be read only from all of its bytes; anything
else is `Garbled`. `Valid` makes a record of a tuple, `Image` is the file after
the calls of `fwrite`, the later over the earlier, `PagesInFile` what
`read_page_from_file` makes of it. `Add`, `Write`, `ReadPages`, `Update` and
`Crash` are what happens to a table between memory and file; on which page a
record comes is PageChain's subject, but that a record fits on a page, a new one
too, is a guard of `Add`: nothing keeps a table from having longer ones. `sound` remembers
whether memory that was never written has mattered, or an update has made a VARCHAR
longer than the size of its record. That memory is a flag, the tail of a CHAR that was
added or updated to a short text (`StaleMemory`, `NewTails`), and the `next_page` of the
last page that was read (`ends`). An update of a null leaves it null.

Database decides which pages are where, PageChain how records are distributed
over them, PageLayout how they become bytes, and Select what is answered from
them. They are separate specifications with the same names for the same things:
composing their state spaces would multiply them without an interaction that is
not in Database already.

The MC modules hold the bounds; the Proofs modules and SharedFacts the proofs.
Sequence says of a value that it is a sequence, without a set its members are in:
the values of Select and PageLayout are of several kinds. A definition
preceded by "Mutant:" is a plausible mistake in the definition after it, which
the property named in `PROJECT.json` detects; nothing else uses it.

### What Database leaves out

* Conditions are `key = k`; the primary key is the first column, an INTEGER.
  Other columns have one type; nulls appear only in added columns, not in the rows
  of an insert (PageLayout has these).
* Unique attributes (PageChain has one), `notnull`, default values by type.
* An update without `where` is parsed, and then nothing is done: no action.
* Joins, and the table that a join leaves in catalog, buffer and file: they are in
  Select, where the buffer has room.
* The flags `is_null`, which `check_valid_parsed_tuple` does not set for values
  that are there, are taken to be false (PageLayout has them).
* The `next_page` of the last page that was read is taken to be NULL (PageChain and
  PageLayout have both cases). Where it is not, the process follows a wild pointer; the
  run with crashes has its end at every step.
* A pointer that dangles reads any number of columns (`ColumnsRead`), so that what
  is written through one is one of several layouts (`Flushed`). What else the
  process may do then is not modelled.
* An insert has one row or two.

## Runs

| Run | Result | Shows |
|---|---|---|
| `pagechain` | passes | the chain is ordered by key across pages, no page is empty, records have slots, and the pages implement OrderedTable |
| `pagechain_fit` | violated | a page outgrows `page_size` |
| `pagechain_unique` | violated | a unique attribute is not unique |
| `buffer` | passes | stamps distinct, only what is removed leaves, a victim is found below the limit, whatever is added twice |
| `database_one_table` | passes | every statement on one table, refused ones and refused first pages too, `<quit>` and restart implement TableStore but for the two exceptions that `ImplementsStore` names; the table is cached once; every statement ends |
| `database_two_tables` | passes | create, insert, select, drop and alter of either table, refused first pages too, leave the other alone |
| `database_crash` | passes | stored rows survive crashes and other statements, nothing garbled |
| `delete_alias` | violated | delete rewrites the wrong table |
| `quit_flush` | violated | `<quit>` loses every page but the first in the buffer |
| `insert_full` | violated | inserts into a full buffer are lost |
| `select` | passes | usual conditions are parsed, none with unsigned constants is misread, joins have every pair once, what is asked for is printed, in order, and the statement ends |
| `layout` | passes | what is written is read back but behind and before a BOOL with a value; rows survive writes, reads, updates and crashes while no uninitialised memory matters |

Bounds. PageChain: five keys, four unique values, records of 8 bytes in pages of 34,
so that a page holds two; five rows give up to five pages and splits in the first, a
middle and the last page; capacity 1 instead of 20 makes reallocation happen; garbage
is 0 or a whole page, the two ways a comparison with the page size can be wrong.
BufferManager: three tables for two entries, `StampLimit` 7 instead of 99999999 and a
counter up to 10, so that the search for a victim does fail; `CounterBound` is the
only bound in the guards. Database: one table with three keys, new with two columns
and up to three, in a buffer of two, so that a second entry of the table would find
room, or two tables with two keys and up to two columns in a buffer of two;
`MaxTables` and `MaxColumns` bound the guards. Three columns are enough to drop one
with a value and add another whose null has its bit. Two tables suffice for a drop to
move "the last" one, two entries for a removal to move one. Select: conditions of one
to three tests in every grouping, of six tests (three types, an attribute on the
right, `false`, one with spaces); a table of three rows on two pages; two tables of
two rows on no, one or two pages, only in a file, cached, or cached and ahead of the
file, alone, after an older join of them, or after a crash that left the file of one;
three records with three or four values of each type to order. `MaxRefused` (one row
of a join refused), one value printed as null and `IntLimit` (4 for 2^31, so that
differences overflow) are the bounds. PageLayout: tables of three attributes, in which
each type comes before and behind others, and rows with and without nulls; `PageSize`
56 is filled to the byte by two records with a DOUBLE and an INTEGER, while two with
two DOUBLEs need two pages; `MaxRecords` 2 gives each record a neighbour on its page
or the next.

What the passing runs of Database exclude, because the code does not do it right:

* `ImplementsStore` allows two kinds of step that no statement is meant to take. A
  statement whose first page is refused may lose the rows of its own table, and no
  others (`Refused`, with `Lose` of `pending.name`). A `<quit>` while a null in the
  buffer has the bit of a dropped column (`QuitWithBits`) may make zeroes of nulls and
  change nothing else (`ZeroNulls`), although `catalog.c:451` has "should insert nulls
  to records" and `catalog.c:521` "UPDATE BIT MAP".
* `database_one_table` drops only the last column: `alter_table_drop` adds the
  old record, which keeps all its values, so that these shift under another column.
* `database_two_tables` has no delete or update, which take the other table for
  theirs (`delete_alias`), no `<quit>` (`quit_flush`) and a buffer with room for
  both tables (`insert_full`).
* `database_crash` creates tables only while no page is cached (otherwise
  pointers may dangle), always with one column (a table created again under the
  name of an orphaned file takes its rows over: with more columns they would be
  garbled) and has no statement that removes columns.

What `select` states under a condition, because the code does not keep it
otherwise:

* Relations with spaces around them push an empty token, and only the first
  alternative may have an `and` (`Understood`, `Unspaced`): the token that ends a
  group of tests is lost, so that the parser then misses the `or`. It rejects
  such a condition, giving a NULL that no caller looks for; what matters is that
  it never misreads one (`NeverMisread`).
* `ReadsWhatIsHeld`: the projection reads files that may be older than the buffer
  (or not be there at all, for a table that is only cached), the others read the
  file of the left table for the right one.
* `TwoTables`: what `JoinPairsOnce` says is about statements on at most two tables,
  each of which holds a row once, as a primary key gives it (`MCSelect` has this as
  an ASSUME). A further join would have the numbers of the first among its values.
* A join is complete if its left table has one page.
* `WellFormed`: when the rows are ordered, right tables are cached. Otherwise they
  are read with the columns of another table, and what is then compared may never
  have been written, so that there is no order to speak of.
* Integers that are ordered lie within half the range, and doubles, whose
  difference is cut to an integer, may be out of order by less than 1 from one to
  the next.
* A join whose name is that of a file that a crash has left answers with rows of that
  file: `ReadsWhatIsHeld` excludes it, the run has it (`AfterCrash`).
* `NeverMisread` is about conditions with unsigned constants. A negative one is taken for
  the name of a column, because `isdigit` is asked of its sign (`conditional_parser.c:282`
  and `314`), and compared with a value that was never written: it *is* misread.
* The rows have no nulls that were inserted; a null comes only from a flag that nothing
  has set.
* `clean`, see above.

Two arrays of the code have no bound in Select: the condition buffer of 250 bytes and
`records[256]` of a select with an order. The inputs are smaller than both.

What `layout` states under a condition: a BOOL with a value is written with eight
bytes and read with four, so that attributes behind it are shifted and the record
written before it, or the page behind, is overwritten (`RoundTrip` says of which
values this is true; `RowsPreserved` is about tables without such a value and runs
in which `sound` holds).

Deadlock is checked but in the runs of BufferManager and PageChain, where the process
may end: it flushes the buffer, or follows a pointer that was never written.

### Fairness

The program is one thread that waits only for its user, who may stop typing at
any time: no fairness is assumed of the statements themselves, of `<quit>`, of a
restart or of a crash. A statement that has been typed runs on without waiting.
So Database has `WF_vars(Continue)`, on the actions that write a torn down table
again: `StatementsEnd` says that this comes to its end whatever keys clash on
the way. Select, which is one statement, has `WF_vars(Next)`: `Terminates`
says that it is over at some time. The other modules state no fairness.

## Proofs

`PageChainProofs` (every set of keys, page size, capacity, garbage):

* `Invariance`: the inductive invariant. `KeysOrdered` and the others are not
  inductive by themselves: an insert keeps the order because the scan has passed
  every smaller record (`FirstStop`), which needs the types of the pages, and
  slots suffice only because capacities are positive and `room` doubles from a
  count that is at least the capacity. Each action is a composition of two
  operators, inserting into one page and splitting one, and the lemmas are about
  these: the position of every record after each of them, hence order, slots and
  set of rows.
* `TypeCorrect`, `KeysStayOrdered`, `NoPageEverEmpty`, `SlotsSuffice`.
* `PagesImplementTable`: if duplicates are rejected, `Spec` implies
  `OrderedTable`'s, by the mapping `rows <- RowsOf(chain)`. A split or a reload is
  a stutter on the rows. For the other key types it is false: the duplicate is
  added.

`BufferManagerProofs` (every number of names, pages, entries, every limit): the
invariant is `TypeOK /\ StampsDistinct`, where `StampsDistinct`
carries `last_used <= counter`, which makes the stamp of the next call new.
`TypeCorrect`, `StampsStayDistinct`, `VictimFound` (the
existence of a minimum of finitely many stamps, by the well-founded order of the
natural numbers), `OthersStay` (an action property).

The proofs about Database hold for every number of tables, columns, keys, values
and pages in the buffer. They are in two modules, of which `DatabaseStoreProofs`
extends the other.
The first part of `DatabaseProofs` states, of each operation on the buffer and on
the array of tables, what it returns and what it leaves alone. `SharedFacts`, which
the proofs about Select and PageLayout use too, has what the library states only
through induction over data: a set of naturals that is not empty has a least
member, and a finite set can be arranged in an order; and what sequences without a
set of members are put together from.

* `DatabaseProofs`: `TypeInvariance` and `TypeCorrect`. `TypeOK` is not inductive: a
  statement in the middle of its rows reads `slots[pending.table.slot]`, which is a
  table only because a slot behind `num_tables` still holds one, and because the
  statement that is rewriting still has its table. `TypeInv` adds that every pointer
  is `Sound` (dangling, or a slot that holds or has held a table), that the
  pointer of a rewriting statement is one of the tables in use, and what a
  process that does not run has (`StoppedOK`).
* `DatabaseStoreProofs`: `StatementsImplementStore`, that Database implements
  TableStore but for the two exceptions above, step by step: a statement that tears
  its table down maps to one step of TableStore at its beginning, each row it writes
  again and its end to stutters, a refused first page to `Lose` of its table. The
  mapping shows, in the middle of a statement, what is written and what is left
  (`Shown`); so the proof needs of `StoreInv` that the rows left have keys and enough
  columns (`PendingKept`), that the buffer and the files have no page of a table that
  does not exist (`Absent`), else a created table would not be empty, that no table is
  twice in array, catalog or buffer, and that cached pages have at least the columns
  of their table (`RowsKept`), else a null would be shown where a value is. For
  `<quit>` it needs what a row becomes when it is written with its bits and read again
  (`ViewAgain`: the same if no null has a bit that is set).
* `TablesCachedOnce`, `CachedOnce` for the tables of which a statement writes to the one
  that it has removed. It is a consequence of both invariants: after a removal the
  statement has to find its own page or none.
* The second part of `DatabaseStoreProofs`: `RowsStayStored`, the action property, and
  `NoValueGarbled`. The first needs that a page in the buffer has every key of the
  file that it will replace one day (`Covered`), which is the reason why evictions,
  flushes and crashes lose nothing; a rewriting statement finds neither page nor file
  (`RewriteStarts`), and no row of an alter is refused for its key (`AlterFresh`). The
  second needs that a file can be read with each number of columns that it may be read
  with, now or after a crash at any moment (`Widths`: of the catalog, of the table in
  memory, of a new table), so that a table in memory has never fewer columns than the
  catalog says (`TablesGrow`), and that no row has a bit without a value where it is
  read (`Filled`); the rows and the old page of an alter that is not over are of the
  same kind (`PendingWhole`).

`ConditionProofs` (any number of alternatives and tests, any columns and rows) has
the lemmas about Condition that `SelectProofs` builds on.

* Its first part is about sequences: `FlattenSeq` is a recursive function, and the
  facts about it follow from the least number of sequences for which one would be
  false (`FlattenExists`): every member of every sequence comes at one place
  (`FlattenFacts`), and two places have different members if the sequences share
  none (`FlattenInjective`). Rows of a join, loops over pages, refused rows, the
  text of a page, the text of a condition and its tokens are all made with it.
* Tokens: in a text without spaces around relations every item but the spaces is a
  token (`TokensAreItems`), so that the tokens of a condition are those of its
  tests, one behind another, with the words between (`ConditionSpelt`).
* The parser: `ParseAnd` and `ParseOr` are recursive functions of the number of
  tokens that are left. That the function that each of them chooses exists is again
  shown by the least number for which it does not (`AndExists`, `OrExists`), and
  then each call is what its body says of smaller ones (`AndParses`, `OrParses`).
  Nothing is left to an induction principle: what is said of all alternatives
  (`AlternativesParsed`) is proved by a counterexample with the fewest tests or
  alternatives.
* What is parsed (`ConditionParsed`): of a condition that is `Understood` a tree all of
  whose right parts are tests, without a NULL; of any other without spaces around its
  relations one with a NULL or a crash, because the parser, which comes from the end
  of the text, loses the "or" before an alternative with an "and".
* What it answers: a tree all of whose right parts are tests answers by its tests
  (`OutcomeOf`, `JoinedTreeAnswers`), and a test as it is meant (`TestAnswered`), for a
  row that has the values it looks at.

`SelectProofs` (every set of inputs that are `WellFormed`: any tables, pages, rows,
conditions and orders).

* `TypeInvariance` and `TypeCorrect`. `TypeOK` alone is not inductive: what is
  filtered is a row of the joined table only because every cached page and every
  file fits the columns of its table (`StoreFits`), through the join that drops an
  older table of the name it is about to use, and through a file that is read with
  the columns of another table (`ReadAsFacts`). That ordered records have values to
  compare needs the right tables in the buffer at every join (`Joining`).
* `OrderedOutput`: `SortInv`, the first `position` records are in order. A turn
  moves one record before the first run of larger ones (`MovedFacts`), and order
  between neighbours suffices: it holds for each type by what its comparison
  does (`ComparedInOrder`: for a BOOL it never gives 0; the difference of two
  integers that are close does not overflow; a double differs by less than 1).
* `PairsJoinedOnce`: `JoinInv`, that the table joined last, unless a crash has left a
  file of its name, has pairs of rows held by the two tables when the statement was
  typed, each once, and all of them when the loop that does not reset its inner pages
  has one outer page and no row was refused (`LoopPairsFacts`, `KeptOnce`,
  `SourcesHeld`). Rows of one table are told apart from those of the other in a pair
  because all rows of a table are equally long (`ConcatCancels`). What the proof
  found: `ReadsWhatIsHeld` had counted a table that is cached and has no file as up to
  date, for which the property is false. The invariant is a theorem of its own,
  `JoinsWhatIsHeld`.
* `UnderstoodParsed`: the tree is that of the text that is meant (`ParseInv`, theorem
  `ParsesText`), unless the buffer of the condition held something; the rest is
  `ConditionParsed`.
* `NothingMisread`: the tree also has to be evaluated with the columns that the
  query is about. `ColumnsInv` (theorem `ReadsItsColumns`) says that the table that
  is read last has the columns of the table named, or those of the two named, as
  they were when the statement was typed, although a join drops an older table of
  its name.
* `QueryAnswered`: the three invariants together with `AnswerInv` and `PrintInv`.
  `AnswersQuery` speaks of the end only, where neither the records that have not
  been looked at nor the order they were put in can be seen. `AnswerInv`: what is
  chosen are the rows that meet the condition among those looked at, each once,
  which a turn of the sort keeps (`MovedOnlyMoves`). Then the page has the rows of
  the product, each once (`JoinInv`), the tree tells which meet the condition
  (`PageIsAnswered`), the number that a join puts before its rows is neither tested
  nor asked for (`RowReadBack`), the values asked for are in the columns of their
  names (`AttributeFound`), and there are as many as the answer has (`CountOnce`).

`PageLayoutProofs` (any tables of the five types, any texts, page size and number
of records): the bytes of a file are followed from `fwrite` to `fread`.

* Sizes and places are sums, bytes of a record the concatenation of those of its
  attributes; both are recursive functions, and the facts about them are proved by
  the least counterexample (`SumsExist`, the lemmas on offsets in nested
  sequences). Each attribute of a record then has its own stretch of bytes, as long
  as `calculate_record_size` has counted.
* A page that `Fits` has its header, its offsets and its records one behind another,
  so that no byte of a file is written twice (`WritesApart`): what is last at
  a place is what was put there (`ImageHas`). Without this a later `fwrite` might have
  the say.
* Reading follows the marks from page to page, the offsets to the records and the
  lengths from attribute to attribute, and finds the chain again, a CHAR padded
  (`PagesCounted`, `RecordRead`, `ReadIsChain`).
* `LayoutInvariance`: while `sound` holds (until memory that was never written makes a
  difference, or a VARCHAR outgrows its record), the pages in memory and the pages of the
  file stand for the rows, the latter for their beginning, and the file is the
  `Image` of what was written last (`LayoutInv`). `RowsPreserved` speaks only of pages
  that are in memory; it is not inductive, because it says nothing of the file that
  the next `ReadPages` takes them from, nor of how many rows a crash leaves.
  `RowsPreserved` and `TypeOK` follow, `RoundTrip` from the file being an image.
* `FileKeepsRows`, `FileReadsAsWritten`, `RecordsFit`: under `[]NoBools`, that no row
  ever has a BOOL with a value, because such a record is longer in the file than
  the size it was given, so that bytes are written twice. The last two are about
  moments when `sound` holds. What the proof found: a record that is longer than
  a page was put on a new one (now a guard); a page that was read, updated and
  written again may outgrow `PageSize` after an update to a longer VARCHAR, so that
  the last conjunct of `TypeOK` had to be about `sound` runs; and a null CHAR, which is
  read as the memory it was written from, does not make a record unreadable.

The assumptions are those named in the modules (`PageChainAssumption`,
`BufferAssumption`, `DatabaseAssumption`, `SelectAssumption`,
`PageLayoutAssumption`): types of the constants, a positive capacity, a `StampLimit`
above the number of entries, statements on tables whose pages fit their columns,
texts no longer than their attribute, `Garbled` no value. Some theorems have a
hypothesis on the constants, because without it the code does not do what they
say; the runs meet it, and every part of it is a finding, a hazard or a bound named
above:

* `Separate` (`StatementsImplementStore`): the buffer has room for all tables
  (`insert_full`), no crash, and if there is more than one table, no delete, update
  (`delete_alias`) or `<quit>` (`quit_flush`); a column is dropped only from behind or
  there are at most two (`alter_table_drop` adds the old record).
* `TablesFound` (`RowsStayStored`; `Separate` or `TablesFound` for
  `TablesCachedOnce`): tables are created before pages are cached, otherwise pointers
  dangle; delete and update only if there is one table.
* `Growing` (`NoValueGarbled`): statements that add; tables are created before
  pages are cached, all with the same number of columns, because a new table takes
  over a file which the catalog does not know; room in the buffer.
* `TwoTables` (`PairsJoinedOnce`): see above.
* `AsksOfColumns` (`UnderstoodParsed`): a condition has tests, they are of columns,
  and none is against a column named "true", "false" or "or", which the parser would
  take for the word. `MCConditions` has TLC evaluate it for the inputs of the run, and
  the next one.
* `OfTheirTables` (`NothingMisread`): besides, the columns are those of the one or
  two tables, and a test has one meaning: its columns have names of their own; a
  value is one that its text stands for (a whole number of `Numbers`, 0 or 1 for a
  BOOL, whose text is "true" or "false"); two columns that are compared are of one
  kind, because a value of another kind is read from a field of the record that was
  never written.
* `PlainStatements` (`QueryAnswered`): besides, `TwoTables`; no value that is tested
  or printed was never written; and the names asked for are of one column each, not
  of the number of the row. `MCPlain` has TLC evaluate it for the inputs of the run;
  those that do not meet it ask for a column of the join of a table with itself,
  where both columns have the same name. `AnswersQuery` is only checked for these.

Only model-checked:

* `StatementsEnd` and `Terminates`, liveness under fairness.
* `AnswersQuery` of a projection of the join of a table with itself, see above.
* What `RoundTrip` says of files with a BOOL that is not null, of which attributes
  before it and which neighbours are spared, and of runs that are not `sound`;
  `TypeOK` of PageLayout in these.

## Not modelled

* The B+ tree. No statement inserts, finds or removes. The trees are created by
  `init_BPlusTree(n, true, false)` (`main.c:110`, `catalog.c:318`), the root not a
  leaf, so that the second insert would follow a Record as if it were a node.
* The bytes of the catalog file, and what it says of constraints and defaults.
* `groupby`, which is read and ignored; `merge_sort_records`, `check_enough_space`,
  `select_all`, `select_all_where`, `select_where_projection` and `write_catalog`,
  which nothing calls.
* The grammar of create, alter and insert, the reading of characters into
  `command[500]`, printing but for what a select prints, string helpers.
* What happens after a write to memory that is not the program's: the models stop
  there ("crashed") or, for the records array of a page that was read, take the
  write to have succeeded.

## Plan

1. (done) PageChain, BufferManager, Database and their abstract specifications;
   proofs of the first two.
2. (done) Condition and Select; PageLayout; Database row by row, with updates that
   are refused, and liveness.
3. (done) Proofs about Database: types, that statements implement TableStore, that
   stored rows stay and are read as they were written.
4. (done) Proofs about Condition and Select: types, that records are printed in
   order, that a join has every pair once, that a condition is parsed as it is meant
   or rejected, that what is printed is the answer.
5. (done) Proofs about PageLayout: that a page that fits keeps its records behind
   its offsets, that a file is read as it was written, that rows survive.
6. Proofs about files with a BOOL that is not null: which bytes the longer record
   takes from its neighbour. `AnswersQuery` of joins of more than two tables, whose
   rows have the numbers of the first join among their values.
7. A table that is read with defaults and constraints; columns dropped in the
   middle.
