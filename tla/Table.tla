-------------------------------- MODULE Table --------------------------------
(***************************************************************************)
(* What the two dining philosophers programs have in common: the seats     *)
(* around the table and the chopsticks between them.                       *)
(*                                                                         *)
(* An operator marked "mutant" is a wrong version of the definition after  *)
(* it: no specification uses it, and a property that matters fails when it *)
(* takes that definition's place.  So in every module of this project.     *)
(***************************************************************************)
EXTENDS Integers

CONSTANTS NumPhilosophers,   \* NUM_PHILOSOPHERS = NUM_CHOPSTICKS, 5 in the code
          NumRounds          \* NUM_ROUNDS, 5 in the code

ASSUME DinersAssumption == /\ NumPhilosophers \in Nat /\ NumPhilosophers >= 2
                           /\ NumRounds \in Nat \ {0}

Phil == 0..(NumPhilosophers - 1)

\* The owner of a mutex nobody has locked.
Free == -1

RightNoWrap(p) == IF p + 1 < NumPhilosophers THEN p + 1 ELSE p   \* mutant

Right(p) == (p + 1) % NumPhilosophers
=============================================================================
