\* One table: every statement, <quit> and restarts.
CONSTANTS
    t1 = t1
    t2 = t2
    v1 = v1
    Null = null
    Garbled = garbled
    Zero = zero
    Unmarked = unmarked
    Gone = gone
    NoTable = noTable
    Names <- OneName
    Keys <- ThreeKeys
    Values <- OneValue
    MaxTables = 2
    MaxColumns = 3
    NewTableColumns = {2}
    MaxPages = 2
    StampLimit <- MCStampLimit
    Statements <- OneTableStatements
SPECIFICATION Spec
INVARIANTS
    TypeOK
    CachedOnce
PROPERTIES
    ImplementsStore
    StatementsEnd
