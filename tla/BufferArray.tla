---------------------------- MODULE BufferArray ----------------------------
(***************************************************************************)
(* The array of entries of the page buffer (struct bufferm in page.h): how *)
(* an entry is found, stamped, removed and chosen as the victim when the   *)
(* array is full.  An entry has a name (of its table), a page and a stamp  *)
(* last_used; the modules that use the array add what else they need.      *)
(***************************************************************************)
EXTENDS Integers, Sequences

CONSTANTS
    MaxPages,       \* max_pages
    StampLimit      \* 99999999, where the search for a victim starts

EntriesOf(entries, name) == {i \in DOMAIN entries : entries[i].name = name}

\* Lookups take the first entry with the name of the table.
IsFirstEntry(entries, name, i) ==
    /\ i \in EntriesOf(entries, name)
    /\ \A j \in EntriesOf(entries, name) : i <= j

\* A hit stamps the entry.
Stamped(entries, i, stamp) ==
    [j \in 1 .. Len(entries) |->
        IF j = i THEN [entries[j] EXCEPT !.last_used = stamp] ELSE entries[j]]

\* Mutant: the array is shortened, but the last entry is not moved.
WithoutMovingLast(entries, i, stamp) ==
    [j \in 1 .. Len(entries) - 1 |->
        IF j = i THEN [entries[j] EXCEPT !.last_used = stamp] ELSE entries[j]]

\* A removal moves the last entry into the hole and stamps it.
Without(entries, i, stamp) ==
    [j \in 1 .. Len(entries) - 1 |->
        IF j = i THEN [entries[Len(entries)] EXCEPT !.last_used = stamp] ELSE entries[j]]

\* Mutant: one entry too many.
IsOverfull(entries) == Len(entries) > MaxPages

IsFull(entries) == Len(entries) + 1 > MaxPages

\* Mutant: the entry is compared with itself.
IsVictimStrictly(entries, i) ==
    /\ i \in DOMAIN entries
    /\ entries[i].last_used < StampLimit
    /\ \A j \in DOMAIN entries : entries[i].last_used < entries[j].last_used

\* The entry with the lowest stamp below the limit.
IsVictim(entries, i) ==
    /\ i \in DOMAIN entries
    /\ entries[i].last_used < StampLimit
    /\ \A j \in DOMAIN entries : entries[i].last_used <= entries[j].last_used
=============================================================================
