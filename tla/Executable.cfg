CONSTANTS
    Slots <- MCSlots
    Values <- MCValues
    Nodes <- MCNodes
    MaxLists <- MCMaxLists
    MaxBatch = 2
    NumParams = 2
    ClientParam = 1
    NumChunks = 2
    ConnectionMayDrop = TRUE
    Nil = Nil
    ClientOutpacesSetup = FALSE
    ClientReorders = FALSE
    MaxCalls = 2
    ResultWaitRace = FALSE
SPECIFICATION FairClientSpec
INVARIANTS TypeOK NodeCorrect InputsBound
PROPERTIES CallTerminates Refinement
CHECK_DEADLOCK FALSE
