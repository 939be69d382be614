CONSTANTS
    Slots <- MCSlots
    Values <- MCValues
    Nodes <- MCNodes
    MaxLists <- MCMaxLists
    MaxBatch = 2
    NumParams = 2
    ClientParam = 1
    NumChunks = 2
    Nil = Nil
    ConnectionMayDrop = FALSE
    ClientOutpacesSetup = TRUE
    ClientReorders = FALSE
    MaxCalls = 1
    ResultWaitRace = FALSE
SPECIFICATION Spec
INVARIANT InputsBound
CHECK_DEADLOCK FALSE
