CONSTANTS
    Slots <- MCSlots
    Values <- MCValues
    Nodes <- MCNodes
    MaxLists <- MCMaxLists
    MaxBatch = 2
    NumParams = 2
    ClientParam = 1
    NumChunks = 2
    Nil = Nil
    ConnectionMayDrop = FALSE
    ClientOutpacesSetup = FALSE
    ClientReorders = FALSE
    MaxCalls = 2
    ResultWaitRace = FALSE
SPECIFICATION Spec
INVARIANT InputsFresh
CHECK_DEADLOCK FALSE
