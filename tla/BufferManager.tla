--------------------------- MODULE BufferManager ---------------------------
(***************************************************************************)
(* The page buffer (struct bufferm and its functions in page.c): an array  *)
(* of at most max_pages entries, each caching the first page of a table    *)
(* and stamped with the value of a counter that every call increments.     *)
(*                                                                         *)
(* This is the buffer by itself, under any order of calls: delete_where,   *)
(* update_where and alter_table add a page without looking for the table,  *)
(* so a table may be cached more than once.                                *)
(***************************************************************************)
EXTENDS BufferArray

CONSTANTS
    Names,          \* names of tables
    Pages,          \* first pages (pointers to chains)
    NoPage,         \* what a file that was never written holds
    CounterBound    \* bound of the model: no call once counter has reached it

ASSUME BufferAssumption ==
    /\ NoPage \notin Pages
    /\ MaxPages \in Nat
    /\ StampLimit \in Nat
    /\ CounterBound \in Nat

VARIABLES
    counter,    \* incremented by every call
    entries,    \* the first curr_pages entries of the array
    files,      \* the page last written to the file of each table
    running     \* FALSE once the process has ended

vars == <<counter, entries, files, running>>

Init ==
    /\ counter = 1
    /\ entries = <<>>
    /\ files = [n \in Names |-> NoPage]
    /\ running = TRUE

Called ==
    /\ running
    /\ counter < CounterBound
    /\ counter' = counter + 1

Find(n) ==
    /\ Called
    /\ \/ EntriesOf(entries, n) = {} /\ UNCHANGED entries
       \/ \E i \in DOMAIN entries :
             /\ IsFirstEntry(entries, n, i)
             /\ entries' = Stamped(entries, i, counter + 1)
    /\ UNCHANGED <<files, running>>

\* Mutant: the new entry carries the stamp of the previous call.
OldStampEntry(n, p) == [name |-> n, page |-> p, last_used |-> counter]

NewEntry(n, p) == [name |-> n, page |-> p, last_used |-> counter + 1]

AddToFreeSlot(n, p) ==
    /\ Called
    /\ ~IsFull(entries)
    /\ entries' = Append(entries, NewEntry(n, p))
    /\ UNCHANGED <<files, running>>

\* A full buffer writes its least recently used page to that page's file.
\* The entry stays and the new page is not cached.
AddToFull(n, p) ==
    /\ Called
    /\ IsFull(entries)
    /\ \E i \in DOMAIN entries :
          /\ IsVictim(entries, i)
          /\ files' = [files EXCEPT ![entries[i].name] = entries[i].page]
    /\ UNCHANGED <<entries, running>>

\* No stamp is below the limit: to_remove is still NULL and is dereferenced.
AddWithoutVictim(n) ==
    /\ Called
    /\ IsFull(entries)
    /\ \A i \in DOMAIN entries : ~IsVictim(entries, i)
    /\ running' = FALSE
    /\ UNCHANGED <<entries, files>>

Remove(n) ==
    /\ Called
    /\ \/ EntriesOf(entries, n) = {} /\ UNCHANGED entries
       \/ \E i \in DOMAIN entries :
             /\ IsFirstEntry(entries, n, i)
             /\ entries' = Without(entries, i, counter + 1)
    /\ UNCHANGED <<files, running>>

\* The loop of flush_buffer increments b instead of i: after the first entry
\* it reads curr_pages beyond the structure, and ends.
Flush ==
    /\ Called
    /\ files' = IF entries = <<>> THEN files
                ELSE [files EXCEPT ![entries[1].name] = entries[1].page]
    /\ running' = FALSE
    /\ UNCHANGED entries

Next ==
    \/ \E n \in Names :
          \/ Find(n)
          \/ Remove(n)
          \/ AddWithoutVictim(n)
          \/ \E p \in Pages : AddToFreeSlot(n, p) \/ AddToFull(n, p)
    \/ Flush

Spec == Init /\ [][Next]_vars

-----------------------------------------------------------------------------
(* Correctness *)

Entry == [name : Names, page : Pages, last_used : Nat]

\* The buffer is an array of at most max_pages entries.
TypeOK ==
    /\ counter \in Nat
    /\ entries \in Seq(Entry)
    /\ Len(entries) <= MaxPages
    /\ files \in [Names -> Pages \cup {NoPage}]
    /\ running \in BOOLEAN

\* No two entries ever carry the same stamp, though removing an entry stamps
\* another one and misses advance the counter: the least recently used entry
\* that add_to_buffer looks for is determined.
StampsDistinct ==
    \A i, j \in DOMAIN entries :
        /\ entries[i].last_used <= counter
        /\ i # j => entries[i].last_used # entries[j].last_used

\* A removal moves another entry, but only the table it names leaves the
\* buffer, and the others keep their pages.  No other call evicts anything.
OnlyRemovedLeave ==
    [][\A i \in DOMAIN entries :
          \/ Remove(entries[i].name)
          \/ \E j \in DOMAIN entries' :
                /\ entries'[j].name = entries[i].name
                /\ entries'[j].page = entries[i].page]_vars

\* While the counter is below the limit a full buffer finds its victim, and
\* the process survives.
NoCrashBelowLimit ==
    MaxPages > 0 /\ counter < StampLimit /\ IsFull(entries) =>
        \E i \in DOMAIN entries : IsVictim(entries, i)
=============================================================================
