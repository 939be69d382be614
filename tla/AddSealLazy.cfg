\* Unpacked real tensors with lazy_mod on (LAZY_MOD=true).
CONSTANTS
    TopLevel <- MCTopLevel
    Slots <- MCSlots
    BatchSize = 1
    Vals <- MCVals
    PlainSizes = {1}
    InputLevels <- MCInputLevels
    LazyMod = TRUE
    ComplexPacking = FALSE
SPECIFICATION Spec
CHECK_DEADLOCK FALSE
INVARIANT AddCorrect
