\* Three tables sharing a buffer of two entries.
CONSTANTS
    t1 = t1
    t2 = t2
    t3 = t3
    p1 = p1
    p2 = p2
    noPage = noPage
    Names <- MCNames
    Pages <- MCPages
    NoPage <- noPage
    MaxPages <- MCMaxPages
    StampLimit <- MCStampLimit
    CounterBound <- MCCounterBound
SPECIFICATION Spec
INVARIANTS
    TypeOK
    StampsDistinct
    NoCrashBelowLimit
PROPERTY OnlyRemovedLeave
\* The process ends when it flushes the buffer or dereferences NULL.
CHECK_DEADLOCK FALSE
