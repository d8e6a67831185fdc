\* Up to two records of every table, on one page or two.
CONSTANTS
    null = null
    garbled = garbled
    Null = null
    Garbled = garbled
    Tables <- MCTables
    Inputs <- MCInputs
    PageSize <- MCPageSize
    MaxRecords = 2
SPECIFICATION Spec
INVARIANTS
    TypeOK
    RoundTrip
    RowsPreserved
