CONSTANTS
    head = head
    tail = tail
    nil = nil
    g1 = g1
    g2 = g2
    g3 = g3
    Procs = {g1, g2, g3}
    Scheduled = {g1, g2}
    Values <- MCValues
    Initial <- Start
    MaxCells = 12
    Menus <- ReadMenus
SPECIFICATION FairWatchedSpec
INVARIANT AnswersAreJustified
PROPERTY ScheduledFinish
