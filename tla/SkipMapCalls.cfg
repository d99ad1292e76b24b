SPECIFICATION FairScanSpec
CONSTANTS
    none = none
    g1 = g1
    g2 = g2
    c1 = c1
    Procs <- MCProcs
    Caller <- MCCaller
    Keys <- MCKeys
    Values <- MCValues
    Start <- MCStart
    Menus <- MCMenus
INVARIANTS TypeOK AnswersAreJustified
PROPERTIES EveryCallKeepsItsPromise ExactUnlessRaced EveryCallReturns
\* The goroutines stop after their calls: EveryCallReturns says that none stops
\* inside one.
CHECK_DEADLOCK FALSE
