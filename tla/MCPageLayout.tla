---------------------------- MODULE MCPageLayout ----------------------------
(***************************************************************************)
(* Bounds for model checking PageLayout: tables with an INTEGER key and    *)
(* two others, rows with one value or two and null for each of these.  Two *)
(* records with a DOUBLE and an INTEGER fill a page to the byte, two with  *)
(* two DOUBLEs do not fit.                                                 *)
(***************************************************************************)
EXTENDS PageLayout

CONSTANTS null, garbled

Attribute(type) == [type |-> type, len |-> 2]

MCTables ==
    {<<Attribute("INTEGER"), Attribute(t[1]), Attribute(t[2])>> : t \in
        {<<"DOUBLE", "DOUBLE">>, <<"DOUBLE", "INTEGER">>, <<"CHAR", "VARCHAR">>, <<"VARCHAR", "INTEGER">>,
         <<"INTEGER", "BOOL">>, <<"BOOL", "CHAR">>, <<"BOOL", "VARCHAR">>, <<"BOOL", "BOOL">>}}

\* A DOUBLE is a number of tenths.
MCInputs(a) ==
    {Null} \cup CASE a.type = "INTEGER" -> {7}
                  [] a.type = "DOUBLE"  -> {15}
                  [] a.type = "BOOL"    -> {1}
                  [] a.type = "CHAR"    -> {<<"a">>}
                  [] a.type = "VARCHAR" -> {<<"a">>, <<"a", "b">>}

MCPageSize == 56
=============================================================================
