----------------------------- MODULE MCDatabase -----------------------------
(***************************************************************************)
(* Bounds for model checking Database.                                     *)
(***************************************************************************)
EXTENDS Database

CONSTANTS t1, t2, v1

OneName == {t1}
TwoNames == {t1, t2}
ThreeKeys == 1 .. 3
TwoKeys == 1 .. 2
OneValue == {v1}
MCMaxTables == 2
MCStampLimit == 10

\* A table on its own, with everything but a crash.  Only the last column is
\* dropped: the rows keep all their values when another one is (AlterDrop).
OneTableStatements ==
    {"create", "insert", "select", "drop", "delete all", "delete", "update", "refused update",
     "add column", "add null column", "drop last column", "quit"}

\* Two tables in a buffer that has room for both.  A statement that drops a
\* table and adds it again is left out: it mistakes the other table for it
\* (RewritesItsTable).  With MaxColumns = 2 a dropped column is the last one.
TwoTableStatements ==
    {"create", "insert", "select", "drop", "add column", "add null column", "drop column"}

\* Statements that never take rows or columns away, and a crash.  Tables are
\* created before a page is cached: the entries of the buffer point into the
\* array of tables, which moves when it grows.
GrowingStatements ==
    {"create first", "insert", "select", "add column", "add null column", "quit", "crash"}

InsertStatements == {"create", "insert"}
DeleteStatements == {"create", "insert", "delete"}

QuitStatements == {"create first", "insert", "quit"}
=============================================================================
