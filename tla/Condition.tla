----------------------------- MODULE Condition ------------------------------
(***************************************************************************)
(* Conditions of select, delete and update: the tokens of their text, the  *)
(* parser that takes them from a stack, last token first                   *)
(* (conditional_parser.c), and the evaluation of the tree on a record      *)
(* (record.c), with what a condition means as the reference.               *)
(*                                                                         *)
(* A text is a sequence of items: words, numbers, string constants,        *)
(* relations and spaces.  Relations within a string constant, numbers with *)
(* a sign and exponents are left out.                                      *)
(***************************************************************************)
EXTENDS Integers, SequencesExt, Sequence

CONSTANTS
    Strings,    \* the texts that are compared, in the order of strcmp
    Numbers,    \* the numbers that are written in conditions
    Unset       \* a value that was never written

Item(kind, text) == [kind |-> kind, text |-> text]

Word(text) == Item("word", text)

Space == Item("space", " ")

Nothing == Word("")

-----------------------------------------------------------------------------
(* Tokens *)

InToken(text, i) == i \in DOMAIN text /\ text[i].kind \in {"word", "number"}

\* The token whose last part is item i.  Words without a space between them
\* are one token, of the kind of its first character.
TokenTo(text, i) ==
    LET first == CHOOSE j \in 1 .. i : /\ \A k \in j .. i : InToken(text, k)
                                      /\ ~InToken(text, j - 1)
    IN  Item(text[first].kind, FlattenSeq([k \in 1 .. i - first + 1 |-> text[first + k - 1].text]))

\* A space, a string or the end of the text pushes the token before it if
\* there is one; a relation pushes it even if it is empty.
PushedAt(text, i) ==
    CASE InToken(text, i)           -> IF InToken(text, i + 1) THEN <<>> ELSE <<TokenTo(text, i)>>
      [] text[i].kind = "string"   -> <<text[i]>>
      [] text[i].kind = "relation" -> IF InToken(text, i - 1) THEN <<text[i]>>
                                      ELSE <<Nothing, text[i]>>
      [] text[i].kind = "space"    -> <<>>

\* getTokensFromConditionalString
Tokens(text) == FlattenSeq([i \in DOMAIN text |-> PushedAt(text, i)])

-----------------------------------------------------------------------------
(* The parser.  A tree is written in postfix order, left part first; a node *)
(* with two parts knows the length of the right one.  What a function       *)
(* returns is its tree, the number of tokens that are still on the stack,   *)
(* and whether it has followed a pointer from below the stack or written to *)
(* a literal.                                                               *)

NoTree == <<[node |-> "null"]>>

Parsed(tree, left) == [tree |-> tree, left |-> left, crash |-> FALSE]

Crashed == [tree |-> NoTree, left |-> 0, crash |-> TRUE]

\* Mutant: false is taken for an attribute.
IsTrue(token) == token = Word("true")

IsTruth(token) == token \in {Word("true"), Word("false")}

IsConstant(token) == token.kind \in {"string", "number"}

\* parseTestConditional on the first n tokens.
ParseTest(t, n) ==
    IF n = 0 THEN Parsed(NoTree, 0)
    ELSE IF IsTruth(t[n]) THEN Parsed(<<[node |-> "truth", token |-> t[n]]>>, n - 1)
    ELSE IF n = 1 THEN Crashed
    ELSE IF t[n - 1].kind # "relation" THEN Parsed(NoTree, n - 2)
    ELSE IF n = 2 THEN Crashed
    ELSE IF IsConstant(t[n - 2]) /\ ~IsConstant(t[n]) THEN Parsed(NoTree, n - 3)
    ELSE IF t[n - 2].kind = "string" THEN Crashed
    ELSE Parsed(<<[node |-> "test", left |-> t[n - 2], relation |-> t[n - 1].text,
                   right |-> t[n]]>>, n - 3)

Stops(parsed) == parsed.crash \/ parsed.left = 0

\* The node over what is parsed first (right) and what is parsed then (left).
Joined(node, left, right) ==
    IF left.crash THEN Crashed
    ELSE Parsed(left.tree \o right \o <<[node |-> node, right |-> Len(right)]>>, left.left)

\* parseAndConditional: a token that is not "and" ends it and is lost.
ParseAnd(t) ==
    LET parse[n \in 0 .. Len(t)] ==
            LET test == ParseTest(t, n)
            IN  IF Stops(test) THEN test
                ELSE IF t[test.left] = Word("and")
                THEN Joined("and", parse[test.left - 1], test.tree)
                ELSE Parsed(test.tree, test.left - 1)
    IN  parse

\* Mutant: after an "and" the rest of the condition is not looked at.
ParseOrShort(t) ==
    LET parse[n \in 0 .. Len(t)] ==
            LET test == ParseTest(t, n)
            IN  IF Stops(test) THEN test
                ELSE IF t[test.left] = Word("or")
                THEN Joined("or", parse[test.left - 1], test.tree)
                ELSE IF t[test.left] = Word("and")
                THEN Joined("and", ParseAnd(t)[test.left - 1], test.tree)
                ELSE Parsed(NoTree, test.left - 1)
    IN  parse

\* parseOrConditional.  After an "and" part it wants another "or", which the
\* "and" part may have taken already.
ParseOr(t) ==
    LET parse[n \in 0 .. Len(t)] ==
            LET test == ParseTest(t, n)
                conjunction == Joined("and", ParseAnd(t)[test.left - 1], test.tree)
            IN  IF Stops(test) THEN test
                ELSE IF t[test.left] = Word("or")
                THEN Joined("or", parse[test.left - 1], test.tree)
                ELSE IF t[test.left] # Word("and") THEN Parsed(NoTree, test.left - 1)
                ELSE IF Stops(conjunction) THEN conjunction
                ELSE IF t[conjunction.left] = Word("or")
                THEN Joined("or", parse[conjunction.left - 1], conjunction.tree)
                ELSE Parsed(NoTree, conjunction.left - 1)
    IN  parse

\* parseConditional, when it has the tokens.
ParseConditional(t) == ParseOr(t)[Len(t)]

\* No caller looks for a NULL.
IsProper(parsed) ==
    ~parsed.crash /\ \A i \in DOMAIN parsed.tree : parsed.tree[i].node # "null"

-----------------------------------------------------------------------------
(* Evaluation.  The outcome is a set: more than one is possible where the   *)
(* code uses a value that was never written.                                *)

\* atoi
IntegerIn(text) ==
    IF \E n \in Numbers : ToString(n) = text
    THEN CHOOSE n \in Numbers : ToString(n) = text
    ELSE 0

IsText(type) == type \in {"CHAR", "VARCHAR"}

\* Values of the types are kept in the same field of Attribute_Values.
SameField(type1, type2) == type1 = type2 \/ (IsText(type1) /\ IsText(type2))

Rank(text) == CHOOSE i \in DOMAIN Strings : Strings[i] = text

\* compareIntegers, compareBools, compareDoubles, compareStrings
Compare(type, a, relation, b) ==
    LET x == IF IsText(type) THEN Rank(a) ELSE a
        y == IF IsText(type) THEN Rank(b) ELSE b
    IN  CASE relation = "="  -> x = y
          [] relation = "!=" -> x # y
          [] relation = "<"  -> type # "BOOL" /\ x < y
          [] relation = ">"  -> type # "BOOL" /\ x > y
          [] relation = "<=" -> type # "BOOL" /\ x <= y
          [] relation = ">=" -> type # "BOOL" /\ x >= y

Outcome(holds) == {IF holds THEN "yes" ELSE "no"}

AnyAnswer == {"yes", "no"}

\* The answer when one of the values was never written: strcmp may go astray.
OutcomeUnset(type, relation) ==
    CASE IsText(type) -> AnyAnswer \cup {"crash"}
      [] type = "BOOL" /\ relation \notin {"=", "!="} -> Outcome(FALSE)
      [] OTHER -> AnyAnswer

\* The loops over the attributes go on after they have found the name.
ColumnsNamed(columns, name) ==
    LET named == {i \in DOMAIN columns : columns[i].name = name}
    IN  {i \in named : \A j \in named : j <= i}

\* A double is kept in tenths.
Constant(type, text) ==
    CASE type = "INTEGER" -> IntegerIn(text)
      [] type = "DOUBLE"  -> 10 * IntegerIn(text)
      [] type = "BOOL"    -> CASE text = "true" -> 1 [] text = "false" -> 0 [] OTHER -> Unset
      [] OTHER            -> text

\* evaluateTest
Test(test, columns, row) ==
    LET l == ColumnsNamed(columns, test.left.text)
        r == ColumnsNamed(columns, test.right.text)
        type == columns[CHOOSE i \in l : TRUE].type
        a == row[CHOOSE i \in l : TRUE]
        c == Constant(type, test.right.text)
    IN  IF IsConstant(test.left)
        THEN Outcome(Compare("CHAR", test.left.text, test.relation, test.right.text))
        ELSE IF l = {} THEN AnyAnswer \cup {"crash"}
        ELSE IF IsConstant(test.right)
        THEN IF c = Unset THEN AnyAnswer
             ELSE IF a = Unset THEN OutcomeUnset(type, test.relation)
             ELSE Outcome(Compare(type, a, test.relation, c))
        ELSE IF \E i \in r : /\ {a, row[i]} \cap {Unset} = {}
                             /\ SameField(columns[i].type, type)
        THEN Outcome(Compare(type, a, test.relation, row[CHOOSE i \in r : TRUE]))
        ELSE OutcomeUnset(type, test.relation)

\* && and || on outcomes: the left part first, the right part if it must be.
Then(left, needsRight, right) ==
    (left \ {needsRight}) \cup (IF needsRight \in left THEN right ELSE {})

\* evaluateCondition
Evaluate(tree, columns, row) ==
    LET outcome[i \in DOMAIN tree] ==
            LET node == tree[i]
                left == outcome[i - 1 - node.right]
            IN  CASE node.node = "truth" -> Outcome(node.token.text = "true")
                  [] node.node = "test"  -> Test(node, columns, row)
                  [] node.node = "null"  -> {"crash"}
                  [] node.node = "and"   -> Then(left, "yes", outcome[i - 1])
                  [] node.node = "or"    -> Then(left, "no", outcome[i - 1])
    IN  outcome[Len(tree)]

-----------------------------------------------------------------------------
(* What a condition is to mean.  It is a sequence of alternatives, each a   *)
(* sequence of tests of a column against a value or another column, or the  *)
(* word true or false.                                                      *)

ValueToken(type, value) ==
    CASE type = "INTEGER" -> Item("number", ToString(value))
      [] type = "DOUBLE"  -> Item("number", ToString(value \div 10))
      [] type = "BOOL"    -> Item("string", IF value = 1 THEN "true" ELSE "false")
      [] OTHER            -> Item("string", value)

SpellTest(test, columns) ==
    LET gap == IF test.spaced THEN <<Space>> ELSE <<>>
        name(i) == Word(columns[i].name)
        right == IF test.kind = "value"
                 THEN ValueToken(columns[test.column].type, test.value)
                 ELSE name(test.value)
    IN  IF test.kind = "truth" THEN <<Word(test.value)>>
        ELSE <<name(test.column)>> \o gap \o <<Item("relation", test.relation)>>
                \o gap \o <<right>>

\* The words of the command are put together again with a space after each.
SpellWith(word, texts) ==
    FlattenSeq([i \in DOMAIN texts |->
        IF i = 1 THEN texts[i] ELSE <<Space, Word(word), Space>> \o texts[i]])

Spelling(alternatives, columns) ==
    SpellWith("or", [i \in DOMAIN alternatives |->
        SpellWith("and", [j \in DOMAIN alternatives[i] |->
            SpellTest(alternatives[i][j], columns)])]) \o <<Space>>

Holds(test, columns, row) ==
    CASE test.kind = "truth" -> test.value = "true"
      [] test.kind = "value" ->
            Compare(columns[test.column].type, row[test.column], test.relation, test.value)
      [] test.kind = "column" ->
            Compare(columns[test.column].type, row[test.column], test.relation, row[test.value])

Meaning(alternatives, columns, row) ==
    \E i \in DOMAIN alternatives : \A j \in DOMAIN alternatives[i] :
        Holds(alternatives[i][j], columns, row)

Unspaced(alternatives) ==
    \A i \in DOMAIN alternatives : \A j \in DOMAIN alternatives[i] : ~alternatives[i][j].spaced

\* The conditions the parser understands: only the first alternative may be
\* several tests, and relations have no spaces around them.
Understood(alternatives) ==
    /\ Unspaced(alternatives)
    /\ \A i \in 2 .. Len(alternatives) : Len(alternatives[i]) = 1

-----------------------------------------------------------------------------
(* Conditions about the columns of a table.                                 *)

\* A test of a column of the table, and not against a column whose name is a
\* word of the language.
IsTest(test, columns) ==
    \/ test.kind = "truth" /\ test.value \in {"true", "false"}
    \/ test.kind = "value" /\ test.column \in 1 .. Len(columns)
    \/ /\ test.kind = "column" /\ test.column \in 1 .. Len(columns) /\ test.value \in 1 .. Len(columns)
       /\ columns[test.value].name \notin {"true", "false", "or"}

IsTests(alternative, columns) ==
    /\ IsSequence(alternative) /\ Len(alternative) > 0
    /\ \A j \in 1 .. Len(alternative) :
          IsTest(alternative[j], columns) /\ alternative[j].spaced \in BOOLEAN

\* A condition of one test or more, of columns that there are.
IsMeant(alternatives, columns) ==
    /\ IsSequence(alternatives) /\ Len(alternatives) > 0
    /\ \A i \in 1 .. Len(alternatives) : IsTests(alternatives[i], columns)

OnlyColumn(columns, c) ==
    c \in 1 .. Len(columns) /\ \A k \in 1 .. Len(columns) : columns[k].name = columns[c].name => k = c

\* Its columns have names of their own, and it compares with a value that its
\* text stands for, or with a column whose values are kept in the same field.
IsAnswerable(test, columns) ==
    test.kind # "truth" =>
        LET type == columns[test.column].type
        IN  /\ OnlyColumn(columns, test.column)
            /\ test.kind = "value" =>
                  /\ test.value # Unset
                  /\ type = "BOOL" => test.value \in 0 .. 1
                  /\ type \in {"INTEGER", "DOUBLE"} => Constant(type, ValueToken(type, test.value).text) = test.value
            /\ test.kind = "column" =>
                  OnlyColumn(columns, test.value) /\ SameField(columns[test.value].type, type)
=============================================================================
