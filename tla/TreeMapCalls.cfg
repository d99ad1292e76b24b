SPECIFICATION FairSpec
CONSTANTS
    g1 = g1
    g2 = g2
    c1 = c1
    none = none
    Procs <- MCProcs
    Caller <- MCCaller
    Keys <- MCKeys
    Values <- MCValues
    Start <- MCStart
    Menus <- MCMenus
INVARIANT TypeOK
INVARIANT CallbackIsUpToDate
INVARIANT RankIsPosition
PROPERTY EveryCallIsAtomic
PROPERTY EveryCallReturns
\* The goroutines stop after their calls: EveryCallReturns says that none stops
\* inside one.
CHECK_DEADLOCK FALSE
