\* Do pages fit in page_size? Pages of a table with an INTEGER key and a unique attribute.
CONSTANTS
    Keys <- MCKeys
    Uniqs <- MCUniqs
    Sizes <- MCSizes
    HasUnique = TRUE
    RejectsDuplicates = TRUE
    MaxSize <- MCMaxSize
    Capacity <- MCCapacity
    Garbage <- MCGarbage
SPECIFICATION Spec
INVARIANT PagesFit
