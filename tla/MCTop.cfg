SPECIFICATION Spec
INVARIANTS
    TopPrintsNoRun
\* The programs end.
CHECK_DEADLOCK FALSE
