SPECIFICATION MCSpec
CONSTANTS
    NumRounds = 3
    AllowSpurious = TRUE
INVARIANTS
    SmokersInv
    NeverStuck
PROPERTIES
    Ends
    ImplementsTurns
\* The return of main ends a run.
CHECK_DEADLOCK FALSE
