---------------------------- MODULE Diners_proofs ----------------------------
(***************************************************************************)
(* Proofs about Diners for every number of philosophers and rounds.        *)
(*                                                                         *)
(* The inductive invariant is DinersInv: types, the chopsticks accounted   *)
(* for by the positions of the philosophers, and Stage, which says how far *)
(* main and the rounds have come.                                          *)
(***************************************************************************)
EXTENDS Diners, WellFoundedInduction, TLAPS

-----------------------------------------------------------------------------
(* Positions 0..n-1 arranged in a ring                                       *)

\* Every non-empty set of natural numbers has a least element.
LEMMA LeastNatural ==
    ASSUME NEW S \in SUBSET Nat, S # {}
    PROVE  \E x \in S : \A y \in S : x <= y
<1> DEFINE R == OpToRel(<, Nat)
<1>1. \E x \in S : \A y \in S : ~(<<y, x>> \in R)
  <2>1. IsWellFoundedOn(R, Nat)
    BY NatLessThanWellFounded
  <2> HIDE DEF R
  <2> QED  BY <2>1, WFMin
<1>2. PICK x \in S : \A y \in S : ~(<<y, x>> \in R)
  BY <1>1
<1>3. \A y \in S : ~(y < x)
  BY <1>2 DEF OpToRel
<1> QED  BY <1>3

\* A non-empty set of positions that contains the successor of each of its
\* members contains every position.
LEMMA RingInduction ==
    ASSUME NEW n \in Nat, n >= 1, NEW S \in SUBSET (0..(n-1)), S # {},
           \A i \in S : (i + 1 < n => i + 1 \in S) /\ (i + 1 = n => 0 \in S)
    PROVE  S = 0..(n-1)
<1>1. 0 \in S
  <2> SUFFICES ASSUME 0 \notin S PROVE FALSE
    OBVIOUS
  <2>1. PICK i \in S : TRUE
    OBVIOUS
  <2> DEFINE Above == {d \in Nat : i + d \notin S}
  <2>2. n - i \in Above
    OBVIOUS
  <2>3. PICK d \in Above : \A e \in Above : d <= e
    BY <2>2, LeastNatural
  <2>4. d # 0
    OBVIOUS
  <2>5. d - 1 \in Nat /\ d - 1 \notin Above
    BY <2>3, <2>4
  <2>6. i + (d - 1) \in S
    BY <2>5
  <2>7. i + d \in S \/ 0 \in S
    BY <2>6
  <2> QED  BY <2>3, <2>7
<1>2. SUFFICES ASSUME NEW j \in 0..(n-1), j \notin S PROVE FALSE
  OBVIOUS
<1> DEFINE Missing == {k \in Nat : k <= j /\ k \notin S}
<1>3. j \in Missing /\ Missing \subseteq Nat
  BY <1>2
<1>4. PICK k \in Missing : \A e \in Missing : k <= e
  BY <1>3, LeastNatural
<1>5. k - 1 \in Nat /\ k - 1 \notin Missing
  BY <1>1, <1>4
<1>6. k - 1 \in S
  BY <1>5
<1> QED  BY <1>4, <1>6

-----------------------------------------------------------------------------
(* The invariant and the chopsticks                                          *)

\* Philosophers are born in order; the joined ones have returned; a
\* philosopher has finished all its rounds exactly when it has returned.
Stage ==
    /\ main = "create" => \A p \in Phil : pc[p] = "unborn" <=> p >= next
    /\ main = "join" => /\ \A p \in Phil : pc[p] # "unborn"
                        /\ \A p \in Phil : p < next => pc[p] = "done"
    /\ main = "success" => \A p \in Phil : pc[p] = "done"
    /\ \A p \in Phil : pc[p] = "done" <=> count[p] = NumRounds

\* The inductive invariant.
DinersInv == TypeOK /\ ChopsticksAccounted /\ Stage

\* The chopstick to the right is the next one, or the first one for the last.
LEMMA RightIs ==
    ASSUME NEW p \in Phil
    PROVE  /\ Right(p) \in Phil /\ Right(p) # p
           /\ p + 1 < NumPhilosophers => Right(p) = p + 1
           /\ p + 1 = NumPhilosophers => Right(p) = 0
BY DinersAssumption DEF Phil, Right

\* Two philosophers never have the same right chopstick.
LEMMA RightInjective ==
    ASSUME NEW p \in Phil, NEW q \in Phil, Right(p) = Right(q)
    PROVE  p = q
BY RightIs, DinersAssumption DEF Phil

-----------------------------------------------------------------------------
(* The invariant is inductive                                                *)

\* The invariant holds before main has created a philosopher.
LEMMA InitInv == Init => DinersInv
<1> SUFFICES ASSUME Init PROVE DinersInv
  OBVIOUS
<1>1. TypeOK
  BY DinersAssumption DEF Init, TypeOK, PhilState, Phil, Free
<1>2. ChopsticksAccounted
  BY DinersAssumption DEF Init, ChopsticksAccounted, HoldsLeft, HoldsRight, Phil, Free
<1>3. Stage
  BY DinersAssumption DEF Init, Stage, Phil
<1> QED  BY <1>1, <1>2, <1>3 DEF DinersInv

\* Every library call of diners_pblm.c keeps the types.
LEMMA TypeStep == TypeOK /\ Stage /\ [Next]_vars => TypeOK'
<1> SUFFICES ASSUME TypeOK, Stage, [Next]_vars PROVE TypeOK'
  OBVIOUS
<1> USE DEF TypeOK, PhilState
<1>1. CASE Create
  BY <1>1, DinersAssumption DEF Create, Phil
<1>2. CASE CreateFails
  BY <1>2 DEF CreateFails
<1>3. CASE Join
  BY <1>3, DinersAssumption DEF Join, Phil
<1>4. ASSUME NEW p \in Phil, Philosopher(p) PROVE TypeOK'
  <2> USE DEF Goto
  <2>1. CASE Think(p)
    BY <2>1 DEF Think
  <2>2. CASE TakeLeft(p)
    BY <2>2 DEF TakeLeft, Lock
  <2>3. CASE TakeRight(p)
    BY <2>3, RightIs DEF TakeRight, Lock
  <2>4. CASE Eat(p)
    BY <2>4 DEF Eat
  <2>5. CASE DropRight(p)
    BY <2>5, RightIs DEF DropRight, Unlock
  <2>6. CASE DropLeft(p)
    <3>1. count[p] + 1 \in 0..NumRounds
      BY <2>6, DinersAssumption DEF DropLeft, Stage
    <3>2. AfterRound(count[p] + 1) \in PhilState
      BY DEF AfterRound
    <3> QED  BY <2>6, <3>1, <3>2 DEF DropLeft, Unlock
  <2> QED  BY <1>4, <2>1, <2>2, <2>3, <2>4, <2>5, <2>6 DEF Philosopher
<1>5. CASE UNCHANGED vars
  BY <1>5 DEF vars
<1> QED  BY <1>1, <1>2, <1>3, <1>4, <1>5 DEF Next

\* Every call keeps the philosophers in step with the loops of main.
LEMMA StageStep == TypeOK /\ Stage /\ [Next]_vars => Stage'
<1> SUFFICES ASSUME TypeOK, Stage, [Next]_vars PROVE Stage'
  OBVIOUS
<1> USE DEF TypeOK, Stage
<1>1. CASE Create
  <2>1. pc[next] = "unborn" /\ count[next] # NumRounds
    BY <1>1 DEF Create, Phil
  <2>2. \A p \in Phil : pc'[p] = "unborn" <=> p >= next + 1
    BY <1>1 DEF Create, Phil
  <2>3. \A p \in Phil : pc'[p] = "done" <=> count'[p] = NumRounds
    BY <1>1, <2>1 DEF Create
  <2> QED  BY <1>1, <2>2, <2>3, DinersAssumption DEF Create, Phil
<1>2. CASE CreateFails
  BY <1>2 DEF CreateFails
<1>3. CASE Join
  <2>1. \A p \in Phil : p < next + 1 => pc[p] = "done"
    BY <1>3 DEF Join, Phil
  <2> QED  BY <1>3, <2>1, DinersAssumption DEF Join, Phil
<1>4. ASSUME NEW p \in Phil, Philosopher(p) PROVE Stage'
  <2>1. Running /\ pc[p] \notin {"unborn", "done"} /\ main' = main /\ next' = next
    BY <1>4 DEF Philosopher, Think, TakeLeft, TakeRight, Eat, DropRight, DropLeft, Goto
  <2>2. pc' = [pc EXCEPT ![p] = pc'[p]] /\ pc'[p] # "unborn"
    BY <1>4 DEF Philosopher, Think, TakeLeft, TakeRight, Eat, DropRight, DropLeft,
                Goto, AfterRound
  <2>3. \A q \in Phil : pc'[q] = "done" <=> count'[q] = NumRounds
    <3>1. CASE DropLeft(p)
      BY <3>1, DinersAssumption DEF DropLeft, Goto, AfterRound
    <3>2. CASE ~DropLeft(p)
      BY <1>4, <3>2 DEF Philosopher, Think, TakeLeft, TakeRight, Eat, DropRight, Goto
    <3> QED  BY <3>1, <3>2
  <2> QED  BY <2>1, <2>2, <2>3 DEF Running
<1>5. CASE UNCHANGED vars
  BY <1>5 DEF vars
<1> QED  BY <1>1, <1>2, <1>3, <1>4, <1>5 DEF Next

\* A chopstick changes hands only by the lock and unlock calls of the
\* philosophers on either side of it.
LEMMA ChopsticksStep ==
    TypeOK /\ Stage /\ ChopsticksAccounted /\ [Next]_vars => ChopsticksAccounted'
<1> SUFFICES ASSUME TypeOK, Stage, ChopsticksAccounted, [Next]_vars
             PROVE  ChopsticksAccounted'
  OBVIOUS
<1> USE DEF TypeOK, ChopsticksAccounted, HoldsLeft, HoldsRight
<1>1. CASE Create
  <2>1. pc[next] = "unborn"
    BY <1>1 DEF Create, Stage, Phil
  <2> QED  BY <1>1, <2>1 DEF Create
<1>2. CASE CreateFails
  BY <1>2 DEF CreateFails
<1>3. CASE Join
  BY <1>3 DEF Join
<1>4. ASSUME NEW p \in Phil, Philosopher(p) PROVE ChopsticksAccounted'
  <2> USE DEF Goto
  <2>0. Free \notin Phil
    BY DEF Free, Phil
  <2>1. CASE Think(p)
    BY <2>1 DEF Think
  <2>2. CASE TakeLeft(p)
    BY <2>2, <2>0, RightIs DEF TakeLeft, Lock
  <2>3. CASE TakeRight(p)
    BY <2>3, <2>0, RightIs, RightInjective DEF TakeRight, Lock
  <2>4. CASE Eat(p)
    BY <2>4 DEF Eat
  <2>5. CASE DropRight(p)
    BY <2>5, <2>0, RightIs, RightInjective DEF DropRight, Unlock
  <2>6. CASE DropLeft(p)
    BY <2>6, <2>0, RightIs DEF DropLeft, Unlock, AfterRound
  <2> QED  BY <1>4, <2>1, <2>2, <2>3, <2>4, <2>5, <2>6 DEF Philosopher
<1>5. CASE UNCHANGED vars
  BY <1>5 DEF vars
<1> QED  BY <1>1, <1>2, <1>3, <1>4, <1>5 DEF Next

\* DinersInv holds in every state of every run.
THEOREM Invariance == Spec => []DinersInv
<1>1. DinersInv /\ [Next]_vars => DinersInv'
  BY TypeStep, StageStep, ChopsticksStep DEF DinersInv
<1> QED  BY <1>1, InitInv, PTL DEF Spec

\* The variables of the program keep their types.
THEOREM TypeCorrect == Spec => []TypeOK
<1>1. DinersInv => TypeOK
  BY DEF DinersInv
<1> QED  BY <1>1, Invariance, PTL

\* A chopstick is locked exactly by the philosopher whose position in
\* philosopher_fn says so.
THEOREM Accounted == Spec => []ChopsticksAccounted
<1>1. DinersInv => ChopsticksAccounted
  BY DEF DinersInv
<1> QED  BY <1>1, Invariance, PTL

-----------------------------------------------------------------------------
(* What follows from the invariant                                           *)

\* Two neighbours that both ate would both own the chopstick between them.
LEMMA ExclusionFromInv == DinersInv => NeighboursExclude
<1> SUFFICES ASSUME DinersInv, NEW p \in Phil,
                    pc[p] = "eat", pc[Right(p)] = "eat"
             PROVE  FALSE
  BY DEF NeighboursExclude
<1>1. mutex[Right(p)] = p /\ mutex[Right(p)] = Right(p)
  BY RightIs DEF DinersInv, ChopsticksAccounted, HoldsLeft, HoldsRight
<1> QED  BY <1>1, RightIs

\* Neighbours never eat at the same time.
THEOREM Exclusion == Spec => []NeighboursExclude
BY ExclusionFromInv, Invariance, PTL

\* In a stuck state whoever has not returned waits for its second chopstick,
\* and so does its right neighbour: the wait goes round the whole ring.
LEMMA StuckFromInv == DinersInv => StuckOnlyInCircularWait
<1> SUFFICES ASSUME DinersInv, Stuck PROVE CircularWait
  BY DEF StuckOnlyInCircularWait
<1> USE DEF DinersInv, TypeOK
<1> DEFINE Waiting == {p \in Phil : pc[p] = "right"}
<1>1. \A p \in Phil : ~HoldsRight(p) /\ (HoldsLeft(p) <=> p \in Waiting)
  BY DEF Stuck, Blocked, HoldsRight, HoldsLeft
<1>2. \A p \in Phil : pc[p] # "left"
  <2> SUFFICES ASSUME NEW p \in Phil, pc[p] = "left" PROVE FALSE
    OBVIOUS
  <2>1. PICK q \in Phil : mutex[p] = q
    BY DEF Stuck, Blocked
  <2>2. p = q /\ HoldsLeft(q)
    BY <1>1, <2>1 DEF ChopsticksAccounted
  <2> QED  BY <2>2 DEF HoldsLeft
<1>3. \A p \in Phil : p \in Waiting \/ pc[p] = "done"
  BY <1>2 DEF Stuck, Blocked, Stage
<1>4. next \in Waiting
  BY <1>3 DEF Stuck
<1>5. ASSUME NEW p \in Waiting PROVE Right(p) \in Waiting
  <2>1. PICK q \in Phil : mutex[Right(p)] = q
    BY RightIs DEF Stuck, Blocked
  <2>2. Right(p) = q /\ HoldsLeft(q)
    BY <1>1, <2>1, RightIs DEF ChopsticksAccounted
  <2> QED  BY <1>1, <2>2
<1>6. Waiting = Phil
  <2>1. \A p \in Waiting : /\ p + 1 < NumPhilosophers => p + 1 \in Waiting
                           /\ p + 1 = NumPhilosophers => 0 \in Waiting
    BY <1>5, RightIs
  <2>2. Waiting # {} /\ Waiting \in SUBSET (0..(NumPhilosophers - 1))
    BY <1>4 DEF Phil
  <2>3. NumPhilosophers \in Nat /\ NumPhilosophers >= 1
    BY DinersAssumption
  <2> HIDE DEF Waiting
  <2>4. Waiting = 0..(NumPhilosophers - 1)
    BY ONLY <2>1, <2>2, <2>3, RingInduction
  <2> QED  BY <2>4 DEF Phil
<1>7. \A p \in Phil : mutex[p] = p
  BY <1>1, <1>6 DEF ChopsticksAccounted
<1> QED  BY <1>6, <1>7 DEF CircularWait

\* The circular wait is the only way the program stops before main returns.
THEOREM OnlyCircularWait == Spec => []StuckOnlyInCircularWait
BY StuckFromInv, Invariance, PTL

\* When main returns 0 everybody has returned, so the rounds are complete and
\* no position holds a chopstick.
LEMMA SuccessFromInv == DinersInv => SuccessMeansAllAte
<1> SUFFICES ASSUME DinersInv, main = "success"
             PROVE  /\ \A p \in Phil : count[p] = NumRounds
                    /\ \A c \in Phil : mutex[c] = Free
  BY DEF SuccessMeansAllAte
<1>1. \A p \in Phil : pc[p] = "done"
  BY DEF DinersInv, Stage
<1>2. \A p \in Phil : count[p] = NumRounds
  BY <1>1 DEF DinersInv, Stage
<1>3. \A c \in Phil : mutex[c] \notin Phil
  BY <1>1 DEF DinersInv, ChopsticksAccounted, HoldsLeft, HoldsRight
<1> QED  BY <1>2, <1>3 DEF DinersInv, TypeOK

\* main returns 0 only after every round of every philosopher.
THEOREM Success == Spec => []SuccessMeansAllAte
BY SuccessFromInv, Invariance, PTL
=============================================================================
