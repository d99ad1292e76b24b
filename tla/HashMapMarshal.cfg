SPECIFICATION ScanSpec
CONSTANTS
    g1 = g1
    g2 = g2
    c1 = c1
    none = none
    Procs <- MCProcs
    Caller <- MCCaller
    Keys <- MCKeys
    Bucket <- MCBucket
    Values <- MCValues
    Zero = 0
    Start <- MCStart
    Menus <- MarshalMenus
INVARIANT MarshalIsSnapshot
