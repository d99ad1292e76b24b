SPECIFICATION Spec
CONSTANTS
    g1 = g1
    g2 = g2
    c1 = c1
    none = none
    Procs <- MCProcs
    Caller <- MCCaller
    Values <- MCValues
    Start <- MCStart
    Menus <- PanicMenus
    Panicking <- FuncPanics
PROPERTY EveryCallIsAtomic
