SPECIFICATION Spec
CONSTANTS
    NumProc = 3
    Line = {"command", "exit", "blank", "Background", "Pipe", "RedirIn", "RedirOut", "IfThenElse"}
    Key = {"INT", "TSTP"}
    MaxLines = 2
    MaxKeys = 1
INVARIANTS
    RecordedMeansReaped
    ForegroundFinished
    LoopInv
    ZombieOnlyOfSeveral
PROPERTIES
    EndMissedOnlyBefore
\* The shell ends, or waits for somebody to type.
CHECK_DEADLOCK FALSE
