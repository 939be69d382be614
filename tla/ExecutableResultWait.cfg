CONSTANTS
    Slots <- MCSlots
    Values <- MCValues
    Nodes <- MCNodes
    MaxLists <- MCMaxLists
    MaxBatch = 2
    NumParams = 2
    ClientParam = 1
    NumChunks = 2
    ConnectionMayDrop = FALSE
    Nil = Nil
    ClientOutpacesSetup = FALSE
    ClientReorders = FALSE
    MaxCalls = 1
    ResultWaitRace = TRUE
SPECIFICATION FairClientSpec
PROPERTY CallTerminates
CHECK_DEADLOCK FALSE
