SPECIFICATION FairScanSpec
CONSTANTS
    none = none
    g1 = g1
    g2 = g2
    c1 = c1
    s1 = s1
    s2 = s2
    Procs <- MCProcs
    Caller <- MCCaller
    Sets <- MCSets
    Elems <- MCElems
    Buckets <- MCBuckets
    Mixes <- MCMixes
    Start <- MCStart
    Menus <- MCMenus
INVARIANTS TypeOK AnswersAreJustified
PROPERTIES EveryOperationIsAtomic EveryCallReturns
\* The goroutines stop after their calls: EveryCallReturns says that none stops
\* inside one.
CHECK_DEADLOCK FALSE
