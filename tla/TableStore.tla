----------------------------- MODULE TableStore -----------------------------
(***************************************************************************)
(* What the statements promise to the person who types them: named tables  *)
(* with a number of columns and a set of rows, changed by one statement at *)
(* a time.  Pages, buffer, files and the catalog do not exist here, and    *)
(* leaving the program with <quit> and starting it again changes nothing.  *)
(*                                                                         *)
(* A row is a sequence of values, the first of which is its primary key.   *)
(***************************************************************************)
EXTENDS Integers, Sequences

CONSTANTS
    Names,          \* names of tables
    MaxColumns,     \* bound of the model
    Keys,           \* values of the primary key
    Values,         \* values of the other columns
    Null,           \* the value of a column added without a default
    Zero            \* another value that is typed for no column

VARIABLE tables     \* a function from the names of the existing tables

NewRows(columns) ==
    {r \in [1 .. columns -> Keys \cup Values] :
        r[1] \in Keys /\ \A i \in 2 .. columns : r[i] \in Values}

KeysOf(rows) == {r[1] : r \in rows}

Init == tables = [n \in {} |-> <<>>]

Create(n, columns) ==
    /\ n \notin DOMAIN tables
    /\ tables' = [m \in DOMAIN tables \cup {n} |->
                    IF m = n THEN [columns |-> columns, rows |-> {}] ELSE tables[m]]

Drop(n) ==
    tables' = [m \in DOMAIN tables \ {n} |-> tables[m]]

SetRows(n, rows) ==
    tables' = [tables EXCEPT ![n].rows = rows]

\* Rows are added in the order in which they are given, until one of them has
\* a key that is taken.
Insert(n, rows) ==
    \E last \in 0 .. Len(rows) :
        LET taken(i) == KeysOf(tables[n].rows) \cup {rows[j][1] : j \in 1 .. i - 1}
        IN  /\ \A i \in 1 .. last : rows[i][1] \notin taken(i)
            /\ last < Len(rows) => rows[last + 1][1] \in taken(last + 1)
            /\ SetRows(n, tables[n].rows \cup {rows[i] : i \in 1 .. last})

Delete(n, key) ==
    SetRows(n, {r \in tables[n].rows : r[1] # key})

DeleteAll(n) ==
    SetRows(n, {})

\* An update does not fill in a null.
Update(n, key, column, value) ==
    SetRows(n, {IF r[1] = key
                THEN [r EXCEPT ![column] = IF @ = Null THEN Null ELSE value] ELSE r :
                r \in tables[n].rows})

\* Two rows cannot share a key: if the new key is taken, one of them is lost.
UpdateKey(n, key, new) ==
    LET others == {r \in tables[n].rows : r[1] # key}
        moved  == {[r EXCEPT ![1] = new] : r \in {s \in tables[n].rows : s[1] = key}}
    IN  \/ new \notin KeysOf(others) /\ SetRows(n, others \cup moved)
        \/ /\ new \in KeysOf(others)
           /\ \/ SetRows(n, others)
              \/ SetRows(n, {r \in others : r[1] # new} \cup moved)

\* What is left by an update with a value of the wrong type, which ought to
\* change nothing: if a row has the key, it is lost with all greater ones.
RefusedUpdate(n, key) ==
    SetRows(n, {r \in tables[n].rows : key \in KeysOf(tables[n].rows) => r[1] < key})

AddColumn(n, value) ==
    tables' = [tables EXCEPT ![n] =
        [columns |-> @.columns + 1, rows |-> {Append(r, value) : r \in @.rows}]]

WithoutColumn(row, c) ==
    SubSeq(row, 1, c - 1) \o SubSeq(row, c + 1, Len(row))

DropColumn(n, c) ==
    tables' = [tables EXCEPT ![n] =
        [columns |-> @.columns - 1, rows |-> {WithoutColumn(r, c) : r \in @.rows}]]

\* No statement is meant to do this: the rows of the table are lost, and with
\* them what the statement was to do to its columns.
Lose(n) ==
    /\ n \in DOMAIN tables
    /\ \E columns \in 1 .. MaxColumns :
          tables' = [tables EXCEPT ![n] = [columns |-> columns, rows |-> {}]]

\* Nor this: some nulls of the table are zeroes from now on.
Zeroed(r, nulls) == [i \in DOMAIN r |-> IF <<r, i>> \in nulls THEN Zero ELSE r[i]]

ZeroNulls(n) ==
    /\ n \in DOMAIN tables
    /\ LET rows == tables[n].rows
           places == {p \in rows \X (2 .. tables[n].columns) : p[1][p[2]] = Null}
       IN  \E nulls \in SUBSET places : SetRows(n, {Zeroed(r, nulls) : r \in rows})

Next ==
    \/ \E n \in Names, columns \in 1 .. MaxColumns : Create(n, columns)
    \/ \E n \in DOMAIN tables :
          \/ Drop(n)
          \/ DeleteAll(n)
          \/ \E key \in Keys : Delete(n, key) \/ RefusedUpdate(n, key)
          \/ \E r \in NewRows(tables[n].columns) : Insert(n, <<r>>)
          \/ \E r, s \in NewRows(tables[n].columns) : Insert(n, <<r, s>>)
          \/ \E key \in Keys, c \in 2 .. tables[n].columns, value \in Values :
                Update(n, key, c, value)
          \/ \E key, new \in Keys : UpdateKey(n, key, new)
          \/ \E value \in Values \cup {Null} : AddColumn(n, value)
          \/ \E c \in 2 .. tables[n].columns : DropColumn(n, c)

Spec == Init /\ [][Next]_tables
=============================================================================
