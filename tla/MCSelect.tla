------------------------------ MODULE MCSelect ------------------------------
(***************************************************************************)
(* Bounds for model checking Select: conditions of up to three tests on a  *)
(* table of one page; two tables joined by every variant, from the buffer  *)
(* and from files, with one page, two pages or none; and tables ordered by *)
(* a column of every type.                                                 *)
(***************************************************************************)
EXTENDS Select

CONSTANT unset

MCStrings == <<"", "1", "2", "false", "true", "x", "y">>
MCNumbers == 0 .. 9
MCLeftovers == {<<>>, <<Word("junk")>>}
MCIntLimit == 4

Column(name, type) == [name |-> name, type |-> type]

Cache(pages, path) == [page |-> pages, path |-> path]

\* A projection is on the last column and the first that is not a number.
Query(names, star, columns, alternatives, orderBy) ==
    [names |-> names, star |-> star,
     attributes |-> <<columns[Len(columns)].name, columns[Min({2, Len(columns)})].name>>,
     columns |-> columns, alternatives |-> alternatives, orderBy |-> orderBy]

-----------------------------------------------------------------------------
(* Conditions *)

TColumns == <<Column("k", "INTEGER"), Column("s", "VARCHAR"), Column("f", "BOOL")>>

TPages == <<<< <<1, "x", 1>>, <<2, "y", 1>> >>, << <<3, "x", 0>> >>>>

Compared(column, relation, value, spaced) ==
    [kind |-> "value", column |-> column, relation |-> relation, value |-> value,
     spaced |-> spaced]

Tests ==
    {Compared(1, ">=", 2, FALSE), Compared(2, "=", "x", FALSE), Compared(3, "!=", 1, FALSE),
     Compared(1, "<", 2, TRUE),
     [kind |-> "column", column |-> 1, relation |-> "<", value |-> 1, spaced |-> FALSE],
     [kind |-> "truth", value |-> "false", spaced |-> FALSE]}

Alternatives(lengths) ==
    {a \in [1 .. Len(lengths) -> UNION {[1 .. n -> Tests] : n \in Range(lengths)}] :
        \A i \in DOMAIN lengths : Len(a[i]) = lengths[i]}

Shapes == {<<1>>, <<2>>, <<3>>, <<1, 1>>, <<1, 2>>, <<2, 1>>, <<1, 1, 1>>}

ConditionInputs ==
    {[catalog |-> [n \in {"t"} |-> TColumns], files |-> [n \in {"t"} |-> TPages],
      buffer |-> [n \in {} |-> Cache(<<>>, "")],
      query |-> Query(<<"t">>, TRUE, TColumns, a, "")]
        : a \in UNION {Alternatives(shape) : shape \in Shapes}}

-----------------------------------------------------------------------------
(* Joins.  The buffer may be ahead of the file.  A join is ordered only if   *)
(* its right table is cached: values that were never written have no order. *)

Tables == [a |-> <<Column("k", "INTEGER"), Column("m", "INTEGER")>>,
           b |-> <<Column("k", "INTEGER"), Column("s", "CHAR")>>]

Contents(n) ==
    LET r == IF n = "a" THEN <<1, 2>> ELSE <<1, "x">>
        s == IF n = "a" THEN <<2, 1>> ELSE <<2, "x">>
    IN  {<<>>, << <<r, s>> >>, << <<r>>, <<s>> >>}

\* What is cached and what is in the file.
Copies(n) ==
    LET written == Contents(n) \ {<<>>}
    IN  {[cached |-> <<>>, file |-> pages] : pages \in Contents(n)}
        \cup {[cached |-> pages, file |-> pages] : pages \in written}
        \cup {[cached |-> pages, file |-> <<SubSeq(pages[1], 1, 1)>>] : pages \in written}

JoinColumns(names) ==
    IF names = <<"a", "b">>
    THEN <<Column(" ", "INTEGER"), Column("a.k", "INTEGER"), Column("m", "INTEGER"),
           Column("b.k", "INTEGER"), Column("s", "CHAR")>>
    ELSE <<Column(" ", "INTEGER"), Column("a.k", "INTEGER"), Column("a.m", "INTEGER"),
           Column("a.k", "INTEGER"), Column("a.m", "INTEGER")>>

SameKey == [kind |-> "column", column |-> 2, relation |-> "=", value |-> 4, spaced |-> FALSE]

JoinQueries ==
    {Query(<<"a", "b">>, star, JoinColumns(<<"a", "b">>), where, orderBy) :
        star \in BOOLEAN, where \in {<<>>, <<<<SameKey>>>>}, orderBy \in {"", "s"}}
    \cup {Query(<<"a", "a">>, star, JoinColumns(<<"a", "a">>), <<>>, "") : star \in BOOLEAN}
    \cup {Query(names, TRUE, Tables.a, <<>>, "") : names \in {<<"a", "z">>, <<"z">>}}

Stored(copies) ==
    [files |-> [n \in {m \in {"a", "b"} : copies[m].file # <<>>} |-> copies[n].file],
     buffer |-> [n \in {m \in {"a", "b"} : copies[m].cached # <<>>} |->
                    Cache(copies[n].cached, n)]]

\* The tables have been joined before, when they had one other row each.
OlderJoin ==
    LET name == "*a,b"
        row == <<0, 1, 1, 1, "y">>
    IN  [catalog |-> Tables @@ [n \in {name} |-> JoinColumns(<<"a", "b">>)],
         files |-> [n \in {name} |-> <<<<row>>>>],
         buffer |-> [n \in {name} |-> Cache(<<<<row>>>>, name)]]

AfterJoin(i) ==
    [catalog |-> OlderJoin.catalog, query |-> i.query,
     files |-> i.files @@ OlderJoin.files, buffer |-> i.buffer @@ OlderJoin.buffer]

\* The program crashed after it had joined the tables, when these had other
\* rows: the file of the join is there, and no table for it.
AfterCrash(i) ==
    LET row(n) == <<n, 1, 1, 1, "y">>
    IN  [i EXCEPT !.files = @ @@ [n \in {"*a,b"} |-> << <<row(0)>>, <<row(2), row(4)>> >>]]

JoinInputs ==
    {[catalog |-> Tables, query |-> q] @@ Stored([a |-> a, b |-> b]) :
        q \in {j \in JoinQueries : j.orderBy = ""}, a \in Copies("a"), b \in Copies("b")}
    \cup
    {[catalog |-> Tables, query |-> q] @@ Stored([a |-> a, b |-> b]) :
        q \in {j \in JoinQueries : j.orderBy # ""}, a \in Copies("a"),
        b \in {c \in Copies("b") : c.cached # <<>>}}

-----------------------------------------------------------------------------
(* Orders *)

SortValues(type) ==
    CASE type = "INTEGER" -> {-3, -1, 1, 2}
      [] type = "DOUBLE"  -> {4, 10, 15, 21}
      [] type = "BOOL"    -> {0, 1}
      [] OTHER            -> {"", "x", "y"}

SortInputs ==
    UNION {LET columns == <<Column("k", "INTEGER"), Column("v", type)>>
           IN  {[catalog |-> [n \in {"t"} |-> columns],
                 files |-> [n \in {"t"} |-> <<[i \in 1 .. 3 |-> <<i - 2, values[i]>>]>>],
                 buffer |-> [n \in {} |-> Cache(<<>>, "")],
                 query |-> Query(<<"t">>, star, columns, <<>>, orderBy)]
                   : values \in [1 .. 3 -> SortValues(type)], star \in BOOLEAN,
                     orderBy \in {"v", "unknown"}}
           : type \in {"INTEGER", "DOUBLE", "BOOL", "CHAR"}}

MCInputs ==
    ConditionInputs \cup JoinInputs \cup SortInputs
        \cup UNION {{AfterJoin(i), AfterCrash(i)} :
                        i \in {j \in JoinInputs : j.query.names = <<"a", "b">>}}

\* JoinPairsOnce is about tables that hold each row once.
ASSUME MCTables == TwoTables

\* What the proofs suppose of the inputs: the projection of a join of a table
\* with itself is the only one that asks for names that two columns have.
ASSUME MCConditions ==
    AsksOfColumns /\ \A i \in MCInputs : IsOfItsTables(i)

ASSUME MCPlain ==
    \A i \in MCInputs : IsPlain(i) \/ (i.query.names = <<"a", "a">> /\ ~i.query.star)
=============================================================================
