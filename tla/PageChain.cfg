\* Pages of a table with an INTEGER key and a unique attribute.
CONSTANTS
    Keys <- MCKeys
    Uniqs <- MCUniqs
    Sizes <- MCSizes
    HasUnique = TRUE
    RejectsDuplicates = TRUE
    MaxSize <- MCMaxSize
    Capacity <- MCCapacity
    Garbage <- MCGarbage
SPECIFICATION Spec
INVARIANTS
    TypeOK
    KeysOrdered
    NoPageEmpty
    RecordsHaveSlots
PROPERTY ImplementsTable
\* A process that has followed a wild pointer has ended.
CHECK_DEADLOCK FALSE
