\* Do inserts work when the buffer is full?
CONSTANTS
    t1 = t1
    t2 = t2
    v1 = v1
    Null = null
    Garbled = garbled
    Zero = zero
    Unmarked = unmarked
    Gone = gone
    NoTable = noTable
    Names <- TwoNames
    Keys <- TwoKeys
    Values <- OneValue
    MaxTables = 2
    MaxColumns = 2
    NewTableColumns = {1}
    MaxPages = 1
    StampLimit <- MCStampLimit
    Statements <- InsertStatements
SPECIFICATION Spec
PROPERTY InsertsAllRows
