SPECIFICATION AllSpec
CONSTANTS
    Values <- MCValues
    zero = 0
    Given <- MCGiven
    MaxSize = 5
INVARIANT TypeOK
INVARIANT RingSound
INVARIANT StructuresAreSound
PROPERTY ImplementsDeque
PROPERTY ContractsAreKept
