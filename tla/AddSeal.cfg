\* Unpacked real tensors, non-empty plaintexts, lazy_mod off.
CONSTANTS
    TopLevel <- MCTopLevel
    Slots <- MCSlots
    BatchSize = 1
    Vals <- MCVals
    PlainSizes = {1}
    InputLevels <- MCInputLevels
    LazyMod = FALSE
    ComplexPacking = FALSE
SPECIFICATION Spec
INVARIANT TypeOK
INVARIANT AddCorrect
INVARIANT NoKernelFault
INVARIANT OperandsKeepValues
CHECK_DEADLOCK FALSE
