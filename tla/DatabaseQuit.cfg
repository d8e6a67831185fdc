\* Does <quit> write every page in the buffer?
CONSTANTS
    t1 = t1
    t2 = t2
    v1 = v1
    Null = null
    Garbled = garbled
    Zero = zero
    Unmarked = unmarked
    Gone = gone
    NoTable = noTable
    Names <- TwoNames
    Keys <- TwoKeys
    Values <- OneValue
    MaxTables = 2
    MaxColumns = 2
    NewTableColumns = {1}
    MaxPages = 2
    StampLimit <- MCStampLimit
    Statements <- QuitStatements
SPECIFICATION Spec
PROPERTY QuitSavesPages
