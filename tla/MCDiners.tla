------------------------------ MODULE MCDiners ------------------------------
(***************************************************************************)
(* Both dining philosophers programs in one state graph: a run is one of   *)
(* diners_pblm_sem.c (withChairs) or one of diners_pblm.c, whose semaphore *)
(* never changes because it has none.                                      *)
(***************************************************************************)
EXTENDS DinersSem

VARIABLE withChairs   \* which of the two programs runs

Plain == INSTANCE Diners

MCInit == Init /\ withChairs \in BOOLEAN

MCNext == /\ UNCHANGED withChairs
          /\ \/ withChairs /\ Next
             \/ ~withChairs /\ Plain!Next /\ UNCHANGED chairs

MCVars == <<vars, withChairs>>

MCSpec == MCInit /\ [][MCNext]_MCVars

\* The scheduler keeps running some thread that can run; nothing more.
MCFairSpec == MCSpec /\ WF_MCVars(MCNext)

-----------------------------------------------------------------------------
(* Properties                                                               *)

\* In neither program two neighbours eat at the same time.
NeighboursExclude == Plain!NeighboursExclude

\* diners_pblm.c stops for ever only in the circular wait.
StuckOnlyInCircularWait == Plain!StuckOnlyInCircularWait

\* Every run of either program ends or reaches the circular wait.
EndsOrCircularWait == Plain!EndsOrCircularWait

\* With the chairs there is always a thread that can make its next call.
NeverStuckWithChairs == withChairs => NeverStuck

\* With the chairs every run ends, whatever order the threads run in.
EndsWithChairs == withChairs => Ends
=============================================================================
