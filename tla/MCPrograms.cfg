SPECIFICATION MCSpec
CONSTANTS
    SIZE = 4
    Argument <- SmallArguments
    Inputs <- AllInputs
    Str = {george, prashaant, ajay, karthik}
    None = None
    Buckets = 3
    Memory = {"zero", "wild"}
    Lost = {TRUE, FALSE}
INVARIANTS
    ResultsRight
    MergeInv
    IndexOnce
    ArraysRight
    TreeRight
PROPERTIES
    EndsOrMissesSignal
    OthersKept
    ImplementsSet
\* The programs end, or main sleeps for ever.
CHECK_DEADLOCK FALSE
