SPECIFICATION Spec
CONSTANTS
    NumProc = 3
    Line = {"IfThenElse", "exit"}
    Key = {}
    MaxLines = 2
    MaxKeys = 0
INVARIANTS
    OneBranch
\* The shell ends, or waits for somebody to type.
CHECK_DEADLOCK FALSE
