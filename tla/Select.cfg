\* One select, from its condition to its output.
CONSTANTS
    unset = unset
    Unset = unset
    Strings <- MCStrings
    Numbers <- MCNumbers
    Inputs <- MCInputs
    Leftovers <- MCLeftovers
    MaxRefused = 1
    IntLimit <- MCIntLimit
SPECIFICATION Spec
INVARIANTS
    TypeOK
    UnderstoodIsParsed
    NeverMisread
    JoinPairsOnce
    AnswersQuery
    PrintedInOrder
PROPERTY Terminates
