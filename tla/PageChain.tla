----------------------------- MODULE PageChain -----------------------------
(***************************************************************************)
(* The linked pages that hold the rows of one table (page.c): how a record *)
(* finds its place, when it is refused, and how a page that has outgrown   *)
(* its size is split.  The chain is what the page buffer caches; Reload is *)
(* a write of the chain to its file followed by a read.                    *)
(*                                                                         *)
(* A record is reduced to its primary key, the value of one further        *)
(* attribute (declared unique when HasUnique holds) and its size.  The     *)
(* page fields kept are the records, total_bytes_from_records, the field   *)
(* record_capacity and the number of slots really allocated for records.   *)
(* malloc does not clear memory: a total that is read before it is written *)
(* starts from any member of Garbage, and a pointer that is never written  *)
(* may point anywhere.                                                     *)
(***************************************************************************)
EXTENDS Integers, Sequences

CONSTANTS
    Keys, Uniqs, Sizes, HasUnique,
    RejectsDuplicates,  \* TRUE: INTEGER and DOUBLE keys; FALSE: BOOL, CHAR, VARCHAR
    MaxSize,            \* page_size
    Capacity,           \* record_capacity of a first page and of a page read back (20)
    Garbage             \* values an uninitialised int may hold

ASSUME PageChainAssumption ==
    /\ Keys \subseteq Int
    /\ Sizes \subseteq Nat
    /\ HasUnique \in BOOLEAN
    /\ RejectsDuplicates \in BOOLEAN
    /\ MaxSize \in Nat
    /\ Capacity \in Nat \ {0}
    /\ Garbage \subseteq Int /\ Garbage # {}

VARIABLES
    chain,  \* the pages from first_page along next_page; <<>> before the first record
    added,  \* did the last insert return a page (rather than NULL)?
    ending  \* the next_page of the last page: "null", "wild" if it is not, or
            \* "astray" once a wild pointer has been followed

vars == <<chain, added, ending>>

Row == [key : Keys, uniq : Uniqs, size : Sizes]

HeaderSize == 8     \* next-page flag and number of records
OffsetSize == 4     \* one offset per record

Init ==
    /\ chain = <<>>
    /\ added = FALSE
    /\ ending = "null"

-----------------------------------------------------------------------------
(* One page *)

\* is_page_overfull compares the recorded total, not the records themselves.
Overfull(page) ==
    HeaderSize + page.total + OffsetSize * Len(page.recs) > MaxSize

WithRecordAt(recs, i, r) ==
    [j \in 1 .. Len(recs) + 1 |->
        IF j < i THEN recs[j] ELSE IF j = i THEN r ELSE recs[j - 1]]

\* Mutant: the array is reallocated one record too late.
InsertedLateRealloc(page, i, r) ==
    [recs  |-> WithRecordAt(page.recs, i, r),
     total |-> page.total + r.size,
     cap   |-> page.cap,
     room  |-> IF Len(page.recs) > page.cap THEN 2 * Len(page.recs) ELSE page.room]

\* The array is reallocated only when the count outgrows record_capacity,
\* and record_capacity itself is never updated.
Inserted(page, i, r) ==
    [recs  |-> WithRecordAt(page.recs, i, r),
     total |-> page.total + r.size,
     cap   |-> page.cap,
     room  |-> IF Len(page.recs) + 1 > page.cap THEN 2 * Len(page.recs) ELSE page.room]

\* Mutant: half of the records before the insertion.
HalfOfOldCount(page) == (Len(page.recs) - 1) \div 2

Half(page) == Len(page.recs) \div 2

\* The first half stays.  Its total is not reduced.
LowerHalf(page) ==
    [recs  |-> [j \in 1 .. Half(page) |-> page.recs[j]],
     total |-> page.total,
     cap   |-> page.cap,
     room  |-> page.room]

\* Mutant: the new array is sized one record too early.
UpperHalfSizedEarly(page, garbage) ==
    LET moved == Len(page.recs) - Half(page)
    IN  [recs  |-> [j \in 1 .. moved |-> page.recs[j + Half(page)]],
         total |-> garbage,
         cap   |-> 2 * (moved - 1),
         room  |-> 2 * (moved - 1)]

\* The rest moves to a new page, whose total is never initialised.
UpperHalf(page, garbage) ==
    LET moved == Len(page.recs) - Half(page)
    IN  [recs  |-> [j \in 1 .. moved |-> page.recs[j + Half(page)]],
         total |-> garbage,
         cap   |-> 2 * moved,
         room  |-> 2 * moved]

\* Mutant: the new page is not linked to the page that followed.
SplitUnlinksRest(pages, p, garbage) ==
    IF Overfull(pages[p])
    THEN [q \in 1 .. p + 1 |->
            IF q < p THEN pages[q]
            ELSE IF q = p THEN LowerHalf(pages[p])
            ELSE UpperHalf(pages[p], garbage)]
    ELSE pages

\* make_new_page_if_full on page p of the chain.
SplitIfFull(pages, p, garbage) ==
    IF Overfull(pages[p])
    THEN [q \in 1 .. Len(pages) + 1 |->
            IF q < p THEN pages[q]
            ELSE IF q = p THEN LowerHalf(pages[p])
            ELSE IF q = p + 1 THEN UpperHalf(pages[p], garbage)
            ELSE pages[q - 1]]
    ELSE pages

-----------------------------------------------------------------------------
(* Inserting a record *)

SameUnique(r, s) == HasUnique /\ r.uniq = s.uniq

\* The scan leaves its loop at the first record s that clashes with r or
\* that r is not greater than.
Stops(s, r) == s.key >= r.key \/ SameUnique(r, s)

\* Mutant: an equal key is reported, but the scan goes on to insert.
RefusesUniqueOnly(s, r) == SameUnique(r, s)

\* At that record, does the scan return NULL?
Refuses(s, r) == (RejectsDuplicates /\ s.key = r.key) \/ SameUnique(r, s)

Precedes(q, j, p, i) == q < p \/ (q = p /\ j < i)

FirstStop(p, i, r) ==
    /\ Stops(chain[p].recs[i], r)
    /\ \A q \in DOMAIN chain : \A j \in DOMAIN chain[q].recs :
          Precedes(q, j, p, i) => ~Stops(chain[q].recs[j], r)

NoStop(r) ==
    \A q \in DOMAIN chain : \A j \in DOMAIN chain[q].recs : ~Stops(chain[q].recs[j], r)

\* Put r before record i of page p, then split the page if it is overfull.
Place(p, i, r) ==
    /\ \E garbage \in Garbage :
          chain' = SplitIfFull([chain EXCEPT ![p] = Inserted(chain[p], i, r)], p, garbage)
    /\ added' = TRUE

FirstPage(r, garbage) ==
    [recs |-> <<r>>, total |-> garbage + r.size, cap |-> Capacity, room |-> Capacity]

\* No file and no buffered page: the record starts the table ...
StartChain(r) ==
    /\ chain = <<>>
    /\ \E garbage \in Garbage :
          /\ ~Overfull(FirstPage(r, garbage))
          /\ chain' = <<FirstPage(r, garbage)>>
    /\ added' = TRUE

\* ... unless it seems larger than a page.
RefuseFirst(r) ==
    /\ chain = <<>>
    /\ \E garbage \in Garbage : Overfull(FirstPage(r, garbage))
    /\ added' = FALSE
    /\ UNCHANGED chain

RefuseClash(r) ==
    /\ \E p \in DOMAIN chain : \E i \in DOMAIN chain[p].recs :
          FirstStop(p, i, r) /\ Refuses(chain[p].recs[i], r)
    /\ added' = FALSE
    /\ UNCHANGED chain

InsertBefore(r) ==
    \E p \in DOMAIN chain : \E i \in DOMAIN chain[p].recs :
        /\ FirstStop(p, i, r)
        /\ ~Refuses(chain[p].recs[i], r)
        /\ Place(p, i, r)

\* No record stops the scan: append to the last page.
AppendLast(r) ==
    /\ Len(chain) > 0
    /\ ending = "null"
    /\ NoStop(r)
    /\ Place(Len(chain), Len(chain[Len(chain)].recs) + 1, r)

\* A page made by a split takes over the next_page of the one it is split from.
Insert(r) ==
    /\ ending # "astray"
    /\ \/ StartChain(r)
       \/ RefuseFirst(r)
       \/ RefuseClash(r)
       \/ InsertBefore(r)
       \/ AppendLast(r)
    /\ UNCHANGED ending

-----------------------------------------------------------------------------
(* Writing the chain to its file and reading it back *)

Bytes(recs) ==
    LET sum[n \in 0 .. Len(recs)] == IF n = 0 THEN 0 ELSE sum[n - 1] + recs[n].size
    IN  sum[Len(recs)]

\* Records are written from the end of the page downwards: in a page that
\* satisfies Fits they do not reach the offsets.
Fits(page) == HeaderSize + Bytes(page.recs) + OffsetSize * Len(page.recs) <= MaxSize

\* Totals are recomputed; the array holds exactly the records read although
\* record_capacity says Capacity.  When a page does not fit, its records
\* overwrite its offsets and what is read back is beyond this module.  The
\* next_page of the last page read is not set.
Reload ==
    /\ Len(chain) > 0
    /\ ending = "null"
    /\ \A p \in DOMAIN chain : Fits(chain[p])
    /\ chain' = [p \in 1 .. Len(chain) |->
                    [recs  |-> chain[p].recs,
                     total |-> Bytes(chain[p].recs),
                     cap   |-> Capacity,
                     room  |-> Len(chain[p].recs)]]
    /\ ending' \in {"null", "wild"}
    /\ UNCHANGED added

\* A scan that nothing stops, or a write, goes on behind the last page.  What
\* it does there is undefined; here the process comes to its end.
GoAstray ==
    /\ ending = "wild"
    /\ ending' = "astray"
    /\ UNCHANGED <<chain, added>>

Next ==
    \/ \E r \in Row : Insert(r)
    \/ Reload
    \/ GoAstray

Spec == Init /\ [][Next]_vars

-----------------------------------------------------------------------------
(* Correctness *)

\* The chain is a sequence of pages with the fields described above.  The
\* total is an int that may never have been written: it has no type here.
PageOK(page) ==
    /\ page.recs \in Seq(Row)
    /\ page.cap \in Nat \ {0}
    /\ page.room \in Nat \ {0}

PagesOK(pages) ==
    /\ Len(pages) \in Nat
    /\ DOMAIN pages = 1 .. Len(pages)
    /\ \A p \in DOMAIN pages : PageOK(pages[p])

TypeOK ==
    /\ PagesOK(chain)
    /\ added \in BOOLEAN
    /\ ending \in {"null", "wild", "astray"}

Ordered(pages) ==
    \A p \in DOMAIN pages : \A i \in DOMAIN pages[p].recs :
    \A q \in DOMAIN pages : \A j \in DOMAIN pages[q].recs :
        Precedes(p, i, q, j) =>
            /\ pages[p].recs[i].key <= pages[q].recs[j].key
            /\ RejectsDuplicates => pages[p].recs[i].key # pages[q].recs[j].key

\* Read from the first page to the last, the primary keys never decrease;
\* for the key types whose duplicates are rejected they strictly increase.
\* The scan of insert_record_to_page stops at the first larger key and
\* relies on this across page boundaries and splits.
KeysOrdered == Ordered(chain)

\* A split never leaves an empty page, though a page whose total is stale is
\* split again at every insert: the new record was counted in first.
NoPageEmpty == \A p \in DOMAIN chain : chain[p].recs # <<>>

\* The rows of the table, forgetting pages, order and totals.
RowsOf(pages) ==
    UNION {{pages[p].recs[i] : i \in DOMAIN pages[p].recs} : p \in DOMAIN pages}

\* The pages implement the table they stand for: an insert adds its row and
\* keeps every other one, or is refused for a reason and changes nothing;
\* splitting, writing and reading move rows but neither lose nor copy them.
Table == INSTANCE OrderedTable WITH rows <- RowsOf(chain), added <- added

ImplementsTable == Table!Spec

\* A page that was built in memory never holds more records than slots were
\* allocated for it, although record_capacity is not updated by realloc.
\* (A page read from a file has fewer slots than record_capacity.)
RecordsHaveSlots ==
    \A p \in DOMAIN chain :
        chain[p].room >= chain[p].cap => Len(chain[p].recs) <= chain[p].room

\* Claimed, not kept: page.h calls max_size the "maxsize of page in bytes" and
\* total_bytes_from_records the "total bytes the records make up".  A page
\* made by a split counts only what is inserted after it, and outgrows its
\* size in the file.
PagesFit == \A p \in DOMAIN chain : Fits(chain[p])

\* Claimed, not kept: attribute_types.h declares unique as "if must be
\* unique".  The scan stops at the first larger key, so that the rows behind
\* it are never compared.
UniqueValuesDistinct ==
    HasUnique =>
        \A r, s \in RowsOf(chain) : r.uniq = s.uniq => r = s
=============================================================================
