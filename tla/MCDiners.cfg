SPECIFICATION MCFairSpec
CONSTANTS
    NumPhilosophers = 4
    NumRounds = 2
    NumChairs = 3
INVARIANTS
    NeighboursExclude
    StuckOnlyInCircularWait
    NeverStuckWithChairs
PROPERTIES
    EndsOrCircularWait
    EndsWithChairs
    ImplementsDiners
\* The circular wait and the return of main end a run.
CHECK_DEADLOCK FALSE
