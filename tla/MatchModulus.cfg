\* The operations of the enabled test cases (mod-switching), and multiplications
\* each followed by a rescale.
CONSTANTS
    TopLevel <- MCTopLevel
    Plain <- MCPlain
    Ops = {"ModSwitch", "MultiplyRescale"}
SPECIFICATION Spec
INVARIANT TypeOK
INVARIANT MatchedAreAddable
INVARIANT MatchPreservesPlain
CHECK_DEADLOCK FALSE
