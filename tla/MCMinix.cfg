SPECIFICATION MCSpec
CONSTANTS
    NInodes = 3
    Word = 2
    TableSize = 1
    Behind = 1
    ZoneBlocks = 2
    NBufs = 4
    NSlots = 2
    Shapes <- SmallShapes
    None = None
    Proc = {p1, p2}
    File <- SomeFiles
    NFilps = 2
    Room = 2
    MaxCalls = 2
    Shell = {s1, s2}
    Dir = {h, d}
    Nowhere = nowhere
    Login = h
    NoWord = none
    Typed <- SomeWords
    MaxEntries = 1
INVARIANTS
    AllTypesOK
    RequestFindsInode
PROPERTIES
    ReportEnds
    CallsOfTool
    AliasesStay
\* The servers may stop; the files and the calls of the model are used up.
CHECK_DEADLOCK FALSE
