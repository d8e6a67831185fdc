---------------------------- MODULE OrderedTable ----------------------------
(***************************************************************************)
(* What the storage of one table promises to the statements above it: a    *)
(* set of rows with at most one row per primary key.  An insert either     *)
(* adds exactly its row or changes nothing.  It may be refused only if the *)
(* table already holds a row that clashes with the new one, or if it would *)
(* start the table (a first row is refused when it does not fit a page).   *)
(*                                                                         *)
(* PageChain, the linked pages of page.c, implements this specification.   *)
(***************************************************************************)
EXTENDS Integers

CONSTANTS
    Keys,           \* values of the primary key (integers)
    Uniqs,          \* values of one further attribute
    Sizes,          \* record sizes in bytes (natural numbers)
    HasUnique       \* is that attribute declared unique?

VARIABLES
    rows,           \* the rows of the table
    added           \* did the last insert add its row?

vars == <<rows, added>>

Row == [key : Keys, uniq : Uniqs, size : Sizes]

SameKey(r, s) == r.key = s.key

SameUnique(r, s) == HasUnique /\ r.uniq = s.uniq

Clash(r, s) == SameKey(r, s) \/ SameUnique(r, s)

TypeOK ==
    /\ rows \subseteq Row
    /\ added \in BOOLEAN

Init ==
    /\ rows = {}
    /\ added = FALSE

\* The key must be new, and no row with a smaller key may hold the same
\* value of a unique attribute.  (Rows with larger keys are not looked at:
\* the storage promises no more than this about unique attributes.)
Accept(r) ==
    /\ \A s \in rows : ~SameKey(r, s)
    /\ \A s \in rows : s.key < r.key => ~SameUnique(r, s)
    /\ rows' = rows \cup {r}
    /\ added' = TRUE

Refuse(r) ==
    /\ rows = {} \/ \E s \in rows : Clash(r, s)
    /\ added' = FALSE
    /\ UNCHANGED rows

Next == \E r \in Row : Accept(r) \/ Refuse(r)

Spec == Init /\ [][Next]_vars
=============================================================================
