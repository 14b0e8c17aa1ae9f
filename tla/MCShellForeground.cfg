SPECIFICATION FairSpec
CONSTANTS
    NumProc = 3
    Line = {"command", "exit", "RedirOut", "IfThenElse"}
    Key = {"INT", "TSTP"}
    MaxLines = 2
    MaxKeys = 1
INVARIANTS
    OneReader
PROPERTIES
    WaitEnds
    FrozenForGood
\* The shell ends, or waits for somebody to type.
CHECK_DEADLOCK FALSE
