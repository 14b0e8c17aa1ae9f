--------------------------- MODULE DinersSem_proofs ---------------------------
(***************************************************************************)
(* Proofs about DinersSem for every number of philosophers, rounds and     *)
(* chairs: the semaphore counts the empty chairs, the program never stops  *)
(* before main returns, and it implements the program without chairs.      *)
(* MCDiners runs this program or the other; what holds of both is proved   *)
(* of its specification too.                                               *)
(***************************************************************************)
EXTENDS MCDiners, FiniteSetTheorems, TLAPS

\* The lemmas proved with diners_pblm.c.
BareProofs == INSTANCE Diners_proofs WITH pc <- BarePc, count <- BareCount

\* The same about the program without chairs, when it is the one that runs.
PlainProofs == INSTANCE Diners_proofs

\* As in Diners_proofs: philosophers are born in order, the joined ones have
\* returned, and a philosopher has finished its rounds when it has returned.
Stage ==
    /\ main = "create" => \A p \in Phil : pc[p] = "unborn" <=> p >= next
    /\ main = "join" => /\ \A p \in Phil : pc[p] # "unborn"
                        /\ \A p \in Phil : p < next => pc[p] = "done"
    /\ main = "success" => \A p \in Phil : pc[p] = "done"
    /\ \A p \in Phil : pc[p] = "done" <=> count[p] = NumRounds

\* The inductive invariant.
SemInv == TypeOK /\ ChopsticksAccounted /\ Stage /\ ChairsAccounted

\* The chopstick to the right is the next one, or the first one for the last.
LEMMA RightIs ==
    ASSUME NEW p \in Phil
    PROVE  /\ Right(p) \in Phil /\ Right(p) # p
           /\ p + 1 < NumPhilosophers => Right(p) = p + 1
           /\ p + 1 = NumPhilosophers => Right(p) = 0
BY DinersAssumption, DinersSemAssumption DEF Phil, Right

\* Two philosophers never have the same right chopstick.
LEMMA RightInjective ==
    ASSUME NEW p \in Phil, NEW q \in Phil, Right(p) = Right(q)
    PROVE  p = q
BY RightIs, DinersAssumption, DinersSemAssumption DEF Phil

\* Every set of philosophers is finite.
LEMMA SeatedFinite ==
    /\ IsFiniteSet(Seated) /\ Cardinality(Seated) \in Nat
    /\ IsFiniteSet(Phil) /\ Cardinality(Phil) = NumPhilosophers
<1>1. IsFiniteSet(Phil) /\ Cardinality(Phil) = NumPhilosophers
  BY FS_Interval, DinersAssumption, DinersSemAssumption DEF Phil
<1>2. Seated \in SUBSET Phil
  BY DEF Seated
<1>3. IsFiniteSet(Seated)
  BY <1>1, <1>2, FS_Subset
<1> QED  BY <1>1, <1>3, FS_CardinalityType

-----------------------------------------------------------------------------
(* The invariant                                                             *)

\* The invariant holds before main has created a philosopher.
LEMMA InitInv == Init => SemInv
<1> SUFFICES ASSUME Init PROVE SemInv
  OBVIOUS
<1>1. TypeOK
  BY DinersAssumption, DinersSemAssumption DEF Init, TypeOK, PhilState, Phil, Free
<1>2. ChopsticksAccounted
  BY DinersAssumption, DinersSemAssumption DEF Init, ChopsticksAccounted, HoldsLeft, HoldsRight, Phil, Free
<1>3. Stage
  BY DinersAssumption, DinersSemAssumption DEF Init, Stage, Phil
<1>4. ChairsAccounted
  <2>1. Seated = {}
    BY DEF Init, Seated
  <2> QED  BY <2>1, FS_EmptySet, DinersAssumption, DinersSemAssumption DEF Init, ChairsAccounted
<1> QED  BY <1>1, <1>2, <1>3, <1>4 DEF SemInv

\* A chair is taken by the philosopher that sits down and freed by the one
\* that stands up; no other step changes who is seated.
LEMMA ChairsStep == SemInv /\ [Next]_vars => ChairsAccounted'
<1> SUFFICES ASSUME SemInv, [Next]_vars PROVE ChairsAccounted'
  OBVIOUS
<1> USE DEF SemInv, TypeOK
<1>0. /\ chairs + Cardinality(Seated) = NumChairs
      /\ IsFiniteSet(Seated) /\ Cardinality(Seated) \in Nat
      /\ chairs \in Nat /\ NumChairs \in Nat
  BY SeatedFinite, DinersAssumption, DinersSemAssumption DEF ChairsAccounted
<1>a. ASSUME Seated' = Seated, chairs' = chairs PROVE ChairsAccounted'
  BY <1>0, <1>a DEF ChairsAccounted
<1>1. CASE Create
  <2>1. pc[next] = "unborn"
    BY <1>1 DEF Create, Stage, Phil
  <2> QED  BY <1>1, <2>1, <1>a DEF Create, Seated
<1>2. CASE CreateFails \/ Join \/ UNCHANGED vars
  BY <1>2, <1>a DEF CreateFails, Join, vars, Seated
<1>3. ASSUME NEW p \in Phil, Philosopher(p) PROVE ChairsAccounted'
  <2>1. CASE Think(p) \/ TakeLeft(p) \/ TakeRight(p) \/ Eat(p) \/ DropRight(p) \/ DropLeft(p)
    BY <2>1, <1>a DEF Think, TakeLeft, TakeRight, Eat, DropRight, DropLeft, Goto, Seated
  <2>2. CASE Sit(p)
    <3>1. p \notin Seated /\ Seated' = Seated \cup {p}
      BY <2>2 DEF Sit, Goto, Seated
    <3>2. Cardinality(Seated') = Cardinality(Seated) + 1
      BY <1>0, <3>1, FS_AddElement
    <3> QED  BY <1>0, <2>2, <3>2 DEF Sit, ChairsAccounted
  <2>3. CASE Stand(p)
    <3>1. p \in Seated /\ Seated' = Seated \ {p}
      BY <2>3 DEF Stand, Goto, Seated, AfterRound
    <3>2. Cardinality(Seated') = Cardinality(Seated) - 1
      BY <1>0, <3>1, FS_RemoveElement
    <3> QED  BY <1>0, <2>3, <3>2 DEF Stand, ChairsAccounted
  <2> QED  BY <1>3, <2>1, <2>2, <2>3 DEF Philosopher
<1> QED  BY <1>1, <1>2, <1>3 DEF Next

\* Every library call of diners_pblm_sem.c keeps the types; in particular no
\* sem_post lifts the semaphore above the number of chairs.
LEMMA TypeStep == SemInv /\ [Next]_vars => TypeOK'
<1> SUFFICES ASSUME SemInv, [Next]_vars PROVE TypeOK'
  OBVIOUS
<1> USE DEF SemInv, TypeOK, PhilState
<1>1. CASE Create
  BY <1>1, DinersAssumption, DinersSemAssumption DEF Create, Phil
<1>2. CASE CreateFails
  BY <1>2 DEF CreateFails
<1>3. CASE Join
  BY <1>3, DinersAssumption, DinersSemAssumption DEF Join, Phil
<1>4. ASSUME NEW p \in Phil, Philosopher(p) PROVE TypeOK'
  <2> USE DEF Goto
  <2>1. CASE Think(p)
    BY <2>1 DEF Think
  <2>2. CASE Sit(p)
    BY <2>2, DinersAssumption, DinersSemAssumption DEF Sit
  <2>3. CASE TakeLeft(p)
    BY <2>3 DEF TakeLeft, Lock
  <2>4. CASE TakeRight(p)
    BY <2>4, RightIs DEF TakeRight, Lock
  <2>5. CASE Eat(p)
    BY <2>5 DEF Eat
  <2>6. CASE DropRight(p)
    BY <2>6, RightIs DEF DropRight, Unlock
  <2>7. CASE DropLeft(p)
    BY <2>7 DEF DropLeft, Unlock
  <2>8. CASE Stand(p)
    <3>1. count[p] + 1 \in 0..NumRounds
      BY <2>8, DinersAssumption, DinersSemAssumption DEF Stand, Stage
    <3>2. AfterRound(count[p] + 1) \in PhilState
      BY DEF AfterRound
    <3>3. p \in Seated
      BY <2>8 DEF Stand, Seated
    <3>4. Cardinality(Seated) # 0
      BY <3>3, SeatedFinite, FS_EmptySet
    <3>5. chairs + 1 \in 0..NumChairs
      BY <3>4, SeatedFinite, DinersAssumption, DinersSemAssumption DEF ChairsAccounted
    <3> QED  BY <2>8, <3>1, <3>2, <3>5 DEF Stand
  <2> QED  BY <1>4, <2>1, <2>2, <2>3, <2>4, <2>5, <2>6, <2>7, <2>8 DEF Philosopher
<1>5. CASE UNCHANGED vars
  BY <1>5 DEF vars
<1> QED  BY <1>1, <1>2, <1>3, <1>4, <1>5 DEF Next

\* Every call keeps the philosophers in step with the loops of main.
LEMMA StageStep == SemInv /\ [Next]_vars => Stage'
<1> SUFFICES ASSUME SemInv, [Next]_vars PROVE Stage'
  OBVIOUS
<1> USE DEF SemInv, TypeOK, Stage
<1>1. CASE Create
  <2>1. pc[next] = "unborn" /\ count[next] # NumRounds
    BY <1>1 DEF Create, Phil
  <2>2. \A p \in Phil : pc'[p] = "unborn" <=> p >= next + 1
    BY <1>1 DEF Create, Phil
  <2>3. \A p \in Phil : pc'[p] = "done" <=> count'[p] = NumRounds
    BY <1>1, <2>1 DEF Create
  <2> QED  BY <1>1, <2>2, <2>3, DinersAssumption, DinersSemAssumption DEF Create, Phil
<1>2. CASE CreateFails
  BY <1>2 DEF CreateFails
<1>3. CASE Join
  <2>1. \A p \in Phil : p < next + 1 => pc[p] = "done"
    BY <1>3 DEF Join, Phil
  <2> QED  BY <1>3, <2>1, DinersAssumption, DinersSemAssumption DEF Join, Phil
<1>4. ASSUME NEW p \in Phil, Philosopher(p) PROVE Stage'
  <2> USE DEF Philosopher, Think, Sit, TakeLeft, TakeRight, Eat, DropRight, DropLeft, Goto
  <2>1. Running /\ pc[p] \notin {"unborn", "done"} /\ main' = main /\ next' = next
    BY <1>4 DEF Stand
  <2>2. pc' = [pc EXCEPT ![p] = pc'[p]] /\ pc'[p] # "unborn"
    BY <1>4 DEF Stand, AfterRound
  <2>3. \A q \in Phil : pc'[q] = "done" <=> count'[q] = NumRounds
    <3>1. CASE Stand(p)
      BY <3>1, DinersAssumption, DinersSemAssumption DEF Stand, AfterRound
    <3>2. CASE ~Stand(p)
      BY <1>4, <3>2
    <3> QED  BY <3>1, <3>2
  <2> QED  BY <2>1, <2>2, <2>3 DEF Running
<1>5. CASE UNCHANGED vars
  BY <1>5 DEF vars
<1> QED  BY <1>1, <1>2, <1>3, <1>4, <1>5 DEF Next

\* A chopstick changes hands only by the lock and unlock calls of the
\* philosophers on either side of it.
LEMMA ChopsticksStep == SemInv /\ [Next]_vars => ChopsticksAccounted'
<1> SUFFICES ASSUME SemInv, [Next]_vars PROVE ChopsticksAccounted'
  OBVIOUS
<1> USE DEF SemInv, TypeOK, ChopsticksAccounted, HoldsLeft, HoldsRight
<1>1. CASE Create
  <2>1. pc[next] = "unborn"
    BY <1>1 DEF Create, Stage, Phil
  <2> QED  BY <1>1, <2>1 DEF Create
<1>2. CASE CreateFails
  BY <1>2 DEF CreateFails
<1>3. CASE Join
  BY <1>3 DEF Join
<1>4. ASSUME NEW p \in Phil, Philosopher(p) PROVE ChopsticksAccounted'
  <2> USE DEF Goto
  <2>0. Free \notin Phil
    BY DEF Free, Phil
  <2>1. CASE Think(p)
    BY <2>1 DEF Think
  <2>2. CASE Sit(p)
    BY <2>2 DEF Sit
  <2>3. CASE TakeLeft(p)
    BY <2>3, <2>0, RightIs DEF TakeLeft, Lock
  <2>4. CASE TakeRight(p)
    BY <2>4, <2>0, RightIs, RightInjective DEF TakeRight, Lock
  <2>5. CASE Eat(p)
    BY <2>5 DEF Eat
  <2>6. CASE DropRight(p)
    BY <2>6, <2>0, RightIs, RightInjective DEF DropRight, Unlock
  <2>7. CASE DropLeft(p)
    BY <2>7, <2>0, RightIs DEF DropLeft, Unlock
  <2>8. CASE Stand(p)
    BY <2>8 DEF Stand, AfterRound
  <2> QED  BY <1>4, <2>1, <2>2, <2>3, <2>4, <2>5, <2>6, <2>7, <2>8 DEF Philosopher
<1>5. CASE UNCHANGED vars
  BY <1>5 DEF vars
<1> QED  BY <1>1, <1>2, <1>3, <1>4, <1>5 DEF Next

\* SemInv holds in every state of every run.
THEOREM Invariance == Spec => []SemInv
<1>1. SemInv /\ [Next]_vars => SemInv'
  BY TypeStep, StageStep, ChopsticksStep, ChairsStep DEF SemInv
<1> QED  BY <1>1, InitInv, PTL DEF Spec

\* The variables of the program keep their types; in particular the value of
\* the semaphore never exceeds the number of chairs.
THEOREM TypeCorrect == Spec => []TypeOK
<1>1. SemInv => TypeOK
  BY DEF SemInv
<1> QED  BY <1>1, Invariance, PTL

\* The semaphore counts the empty chairs.
THEOREM Chairs == Spec => []ChairsAccounted
<1>1. SemInv => ChairsAccounted
  BY DEF SemInv
<1> QED  BY <1>1, Invariance, PTL

-----------------------------------------------------------------------------
(* The program never stops before main returns                               *)

\* If nobody can move, either somebody waits for a second chopstick and then
\* all do, with more philosophers seated than there are chairs; or nobody is
\* seated, all chairs are empty, and the one main waits for can sit down.
LEMMA NeverStuckFromInv == SemInv => NeverStuck
<1> SUFFICES ASSUME SemInv, Stuck PROVE FALSE
  BY DEF NeverStuck
<1> USE DEF SemInv, TypeOK
<1> DEFINE Waiting == {p \in Phil : pc[p] = "right"}
<1>1. \A p \in Phil : ~HoldsRight(p) /\ (HoldsLeft(p) <=> p \in Waiting)
  BY DEF Stuck, Blocked, HoldsRight, HoldsLeft
<1>2. \A p \in Phil : pc[p] # "left"
  <2> SUFFICES ASSUME NEW p \in Phil, pc[p] = "left" PROVE FALSE
    OBVIOUS
  <2>1. PICK q \in Phil : mutex[p] = q
    BY DEF Stuck, Blocked
  <2>2. p = q /\ HoldsLeft(q)
    BY <1>1, <2>1 DEF ChopsticksAccounted
  <2> QED  BY <2>2 DEF HoldsLeft
<1>3. \A p \in Phil : \/ p \in Waiting
                      \/ pc[p] = "done"
                      \/ pc[p] = "chair" /\ chairs = 0
  <2>1. \A p \in Phil : pc[p] # "unborn"
    BY DEF Stuck, Stage
  <2> QED  BY <1>2, <2>1 DEF Stuck, Blocked
<1>4. Seated = Waiting
  BY <1>3 DEF Seated
<1>5. CASE Waiting = {}
  <2>1. chairs = NumChairs
    BY <1>4, <1>5, FS_EmptySet, DinersAssumption, DinersSemAssumption DEF ChairsAccounted
  <2>2. next \in Phil /\ pc[next] # "done" /\ next \notin Waiting
    BY <1>5 DEF Stuck
  <2>3. chairs = 0
    BY <1>3, <2>2
  <2> QED  BY <2>1, <2>3, DinersAssumption, DinersSemAssumption
<1>6. CASE Waiting # {}
  <2>1. ASSUME NEW p \in Waiting PROVE Right(p) \in Waiting
    <3>1. PICK q \in Phil : mutex[Right(p)] = q
      BY RightIs DEF Stuck, Blocked
    <3>2. Right(p) = q /\ HoldsLeft(q)
      BY <1>1, <3>1, RightIs DEF ChopsticksAccounted
    <3> QED  BY <1>1, <3>2
  <2>2. \A p \in Waiting : /\ p + 1 < NumPhilosophers => p + 1 \in Waiting
                           /\ p + 1 = NumPhilosophers => 0 \in Waiting
    BY <2>1, RightIs
  <2>3. Waiting \in SUBSET (0..(NumPhilosophers - 1))
    BY DEF Phil
  <2>4. NumPhilosophers \in Nat /\ NumPhilosophers >= 1
    BY DinersAssumption, DinersSemAssumption
  <2> HIDE DEF Waiting
  <2>5. Waiting = 0..(NumPhilosophers - 1)
    BY ONLY <1>6, <2>2, <2>3, <2>4, BareProofs!RingInduction,
       DinersAssumption, DinersSemAssumption
  <2>6. Cardinality(Seated) = NumPhilosophers
    BY <1>4, <2>5, SeatedFinite DEF Phil
  <2> QED  BY <2>6, DinersAssumption, DinersSemAssumption DEF ChairsAccounted
<1> QED  BY <1>5, <1>6

\* With fewer chairs than philosophers some thread can always go on.
THEOREM NoDeadlock == Spec => []NeverStuck
BY NeverStuckFromInv, Invariance, PTL

\* The invariant of the program that runs.
EitherInv == IF withChairs THEN SemInv ELSE PlainProofs!DinersInv

\* Every step of run diners keeps it.
LEMMA EitherInvariance == MCSpec => []EitherInv
<1>1. MCInit => EitherInv
  <2>1. Init => PlainProofs!Init
    BY DEF Init, PlainProofs!Init, Phil, PlainProofs!Phil, Free, PlainProofs!Free
  <2>2. PlainProofs!Init => PlainProofs!DinersInv
    BY PlainProofs!InitInv, DinersAssumption
  <2> QED  BY <2>1, <2>2, InitInv DEF MCInit, EitherInv
<1>2. EitherInv /\ [MCNext]_MCVars => EitherInv'
  <2> SUFFICES ASSUME EitherInv, [MCNext]_MCVars PROVE EitherInv'
    OBVIOUS
  <2>0. withChairs' = withChairs
    BY DEF MCNext, MCVars
  <2>1. CASE withChairs
    <3>1. SemInv /\ [Next]_vars
      BY <2>1 DEF EitherInv, MCNext, MCVars
    <3>2. SemInv'
      BY <3>1, TypeStep, StageStep, ChopsticksStep, ChairsStep DEF SemInv
    <3> QED  BY <2>0, <2>1, <3>2 DEF EitherInv
  <2>2. CASE ~withChairs
    <3>1. Plain!Next => PlainProofs!Next
      BY DEF Plain!Next, PlainProofs!Next, Plain!Create, PlainProofs!Create,
             Plain!CreateFails, PlainProofs!CreateFails,
             Plain!Join, PlainProofs!Join,
             Plain!Philosopher, PlainProofs!Philosopher,
             Plain!Think, PlainProofs!Think,
             Plain!TakeLeft, PlainProofs!TakeLeft,
             Plain!TakeRight, PlainProofs!TakeRight,
             Plain!Eat, PlainProofs!Eat,
             Plain!DropRight, PlainProofs!DropRight,
             Plain!DropLeft, PlainProofs!DropLeft,
             Plain!Goto, PlainProofs!Goto, Plain!Lock, PlainProofs!Lock,
             Plain!Unlock, PlainProofs!Unlock,
             Plain!AfterRound, PlainProofs!AfterRound,
             Plain!Running, PlainProofs!Running, Plain!Phil, PlainProofs!Phil,
             Plain!Right, PlainProofs!Right, Plain!Free, PlainProofs!Free
    <3>2. UNCHANGED vars => UNCHANGED PlainProofs!vars
      BY DEF vars, PlainProofs!vars
    <3>3. PlainProofs!DinersInv /\ [PlainProofs!Next]_(PlainProofs!vars)
      BY <2>2, <3>1, <3>2 DEF EitherInv, MCNext, MCVars
    <3>4. PlainProofs!DinersInv'
      BY <3>3, PlainProofs!TypeStep, PlainProofs!StageStep,
         PlainProofs!ChopsticksStep, DinersAssumption
         DEF PlainProofs!DinersInv
    <3> QED  BY <2>0, <2>2, <3>4 DEF EitherInv
  <2> QED  BY <2>1, <2>2
<1> QED  BY <1>1, <1>2, PTL DEF MCSpec

\* Whichever program runs, neighbours never eat at the same time.
THEOREM EitherExclusion == MCSpec => []NeighboursExclude
<1>1. ASSUME SemInv PROVE NeighboursExclude
  <2> SUFFICES ASSUME NEW p \in Phil, pc[p] = "eat", pc[Right(p)] = "eat"
               PROVE  FALSE
    BY DEF NeighboursExclude, Plain!NeighboursExclude, Phil, Plain!Phil,
           Right, Plain!Right
  <2>1. Right(p) \in Phil /\ Right(p) # p
    BY RightIs
  <2>2. mutex[Right(p)] = p /\ mutex[Right(p)] = Right(p)
    BY <1>1, <2>1 DEF SemInv, ChopsticksAccounted, HoldsLeft, HoldsRight
  <2> QED  BY <2>1, <2>2
<1>2. PlainProofs!DinersInv => NeighboursExclude
  BY PlainProofs!ExclusionFromInv, DinersAssumption
     DEF NeighboursExclude, Plain!NeighboursExclude, PlainProofs!NeighboursExclude,
         Plain!Phil, PlainProofs!Phil, Plain!Right, PlainProofs!Right
<1>3. EitherInv => NeighboursExclude
  BY <1>1, <1>2 DEF EitherInv
<1> QED  BY <1>3, EitherInvariance, PTL

\* Whichever program runs, it stops for ever only in the circular wait: the
\* one with chairs never does.
THEOREM EitherCircularWait == MCSpec => []StuckOnlyInCircularWait
<1>1. ASSUME SemInv PROVE StuckOnlyInCircularWait
  <2> SUFFICES ASSUME Plain!Stuck PROVE FALSE
    BY DEF StuckOnlyInCircularWait, Plain!StuckOnlyInCircularWait
  <2>1. Stuck
    BY DEF Plain!Stuck, Plain!Blocked, Stuck, Blocked, Phil, Plain!Phil,
           Right, Plain!Right, Free, Plain!Free
  <2> QED  BY <1>1, <2>1, NeverStuckFromInv DEF NeverStuck
<1>2. PlainProofs!DinersInv => StuckOnlyInCircularWait
  BY PlainProofs!StuckFromInv, DinersAssumption
     DEF StuckOnlyInCircularWait, Plain!StuckOnlyInCircularWait,
         PlainProofs!StuckOnlyInCircularWait, Plain!Stuck, PlainProofs!Stuck,
         Plain!Blocked, PlainProofs!Blocked, Plain!CircularWait, PlainProofs!CircularWait,
         Plain!Phil, PlainProofs!Phil, Plain!Right, PlainProofs!Right,
         Plain!Free, PlainProofs!Free
<1>3. EitherInv => StuckOnlyInCircularWait
  BY <1>1, <1>2 DEF EitherInv
<1> QED  BY <1>3, EitherInvariance, PTL

\* With the chairs some thread can always go on.
THEOREM NoDeadlockWithChairs == MCSpec => []NeverStuckWithChairs
<1>1. EitherInv => NeverStuckWithChairs
  BY NeverStuckFromInv DEF EitherInv, NeverStuckWithChairs
<1> QED  BY <1>1, EitherInvariance, PTL

-----------------------------------------------------------------------------
(* The chairs only restrict the schedule                                     *)

\* The initial state, seen without chairs, is that of diners_pblm.c.
LEMMA InitRefines == Init => Bare!Init
<1> SUFFICES ASSUME Init PROVE Bare!Init
  OBVIOUS
<1>1. BarePc = [p \in Phil |-> "unborn"]
  BY DEF Init, BarePc
<1>2. BareCount = [p \in Phil |-> 0]
  BY DEF Init, BareCount
<1> QED  BY <1>1, <1>2 DEF Init, Bare!Init, Phil, Bare!Phil, Free, Bare!Free

\* Every call, seen without chairs, is a call of diners_pblm.c or no call at
\* all: sem_wait is hidden, sem_post has been counted by the last unlock.
LEMMA StepRefines == SemInv /\ [Next]_vars => [Bare!Next]_Bare!vars
<1> SUFFICES ASSUME SemInv, [Next]_vars PROVE [Bare!Next]_Bare!vars
  OBVIOUS
<1> USE DEF SemInv, TypeOK
<1>1. CASE Create
  <2>1. pc[next] = "unborn"
    BY <1>1 DEF Create, Stage, Phil
  <2>2. BarePc' = [BarePc EXCEPT ![next] = "think"] /\ BareCount' = BareCount
    BY <1>1, <2>1 DEF Create, BarePc, BareCount
  <2> QED  BY <1>1, <2>2 DEF Create, Bare!Create, Bare!Next
<1>2. CASE CreateFails
  BY <1>2 DEF CreateFails, Bare!CreateFails, Bare!Next, BarePc, BareCount
<1>3. CASE Join
  <2>1. BarePc[next] = "done" /\ BarePc' = BarePc /\ BareCount' = BareCount
    BY <1>3 DEF Join, BarePc, BareCount
  <2> QED  BY <1>3, <2>1 DEF Join, Bare!Join, Bare!Next
<1>4. ASSUME NEW p \in Phil, Philosopher(p) PROVE [Bare!Next]_Bare!vars
  <2>0. p \in Bare!Phil
    BY DEF Phil, Bare!Phil
  <2> USE DEF Goto
  <2>1. CASE Think(p)
    <3>1. BareCount' = BareCount /\ BarePc[p] = "think" /\ BarePc' = [BarePc EXCEPT ![p] = "left"]
      BY <2>1 DEF Think, BarePc, BareCount
    <3>2. Bare!Think(p)
      BY <2>1, <3>1 DEF Think, Bare!Think, Bare!Goto, Bare!Running, Running
    <3> QED  BY <2>0, <3>2 DEF Bare!Next, Bare!Philosopher
  <2>2. CASE Sit(p)
    <3>1. BareCount' = BareCount /\ BarePc' = BarePc
      BY <2>2 DEF Sit, BarePc, BareCount
    <3> QED  BY <2>2, <3>1 DEF Sit, Bare!vars
  <2>3. CASE TakeLeft(p)
    <3>1. BareCount' = BareCount /\ BarePc[p] = "left" /\ BarePc' = [BarePc EXCEPT ![p] = "right"]
      BY <2>3 DEF TakeLeft, BarePc, BareCount
    <3>2. Bare!TakeLeft(p)
      BY <2>3, <3>1 DEF TakeLeft, Bare!TakeLeft, Bare!Goto, Bare!Running, Running,
                        Lock, Bare!Lock, Free, Bare!Free
    <3> QED  BY <2>0, <3>2 DEF Bare!Next, Bare!Philosopher
  <2>4. CASE TakeRight(p)
    <3>1. BareCount' = BareCount /\ BarePc[p] = "right" /\ BarePc' = [BarePc EXCEPT ![p] = "eat"]
      BY <2>4 DEF TakeRight, BarePc, BareCount
    <3>2. Bare!TakeRight(p)
      BY <2>4, <3>1 DEF TakeRight, Bare!TakeRight, Bare!Goto, Bare!Running, Running,
                        Lock, Bare!Lock, Free, Bare!Free, Right, Bare!Right
    <3> QED  BY <2>0, <3>2 DEF Bare!Next, Bare!Philosopher
  <2>5. CASE Eat(p)
    <3>1. BareCount' = BareCount /\ BarePc[p] = "eat" /\ BarePc' = [BarePc EXCEPT ![p] = "dropRight"]
      BY <2>5 DEF Eat, BarePc, BareCount
    <3>2. Bare!Eat(p)
      BY <2>5, <3>1 DEF Eat, Bare!Eat, Bare!Goto, Bare!Running, Running
    <3> QED  BY <2>0, <3>2 DEF Bare!Next, Bare!Philosopher
  <2>6. CASE DropRight(p)
    <3>1. BareCount' = BareCount /\ BarePc[p] = "dropRight" /\ BarePc' = [BarePc EXCEPT ![p] = "dropLeft"]
      BY <2>6 DEF DropRight, BarePc, BareCount
    <3>2. Bare!DropRight(p)
      BY <2>6, <3>1 DEF DropRight, Bare!DropRight, Bare!Goto, Bare!Running, Running,
                        Unlock, Bare!Unlock, Free, Bare!Free, Right, Bare!Right
    <3> QED  BY <2>0, <3>2 DEF Bare!Next, Bare!Philosopher
  <2>7. CASE DropLeft(p)
    <3>1. BarePc[p] = "dropLeft" /\ BareCount[p] = count[p]
      BY <2>7 DEF DropLeft, BarePc, BareCount
    <3>2. BareCount' = [BareCount EXCEPT ![p] = count[p] + 1]
      BY <2>7 DEF DropLeft, BareCount
    <3>3. BarePc' = [BarePc EXCEPT ![p] = AfterRound(count[p] + 1)]
      BY <2>7 DEF DropLeft, BarePc
    <3>4. Bare!DropLeft(p)
      BY <2>7, <3>1, <3>2, <3>3 DEF DropLeft, Bare!DropLeft, Bare!Goto, Bare!Running, Running,
                        Unlock, Bare!Unlock, Free, Bare!Free, AfterRound, Bare!AfterRound
    <3> QED  BY <2>0, <3>4 DEF Bare!Next, Bare!Philosopher
  <2>8. CASE Stand(p)
    <3>1. pc'[p] = AfterRound(count[p] + 1) /\ pc'[p] # "stand" /\ pc'[p] # "chair"
      BY <2>8 DEF Stand, AfterRound
    <3>2. BareCount' = BareCount
      BY <2>8, <3>1 DEF Stand, BareCount
    <3>3. BarePc' = BarePc
      BY <2>8, <3>1 DEF Stand, BarePc
    <3> QED  BY <2>8, <3>2, <3>3 DEF Stand, Bare!vars
  <2> QED  BY <1>4, <2>1, <2>2, <2>3, <2>4, <2>5, <2>6, <2>7, <2>8 DEF Philosopher
<1>5. CASE UNCHANGED vars
  BY <1>5 DEF vars, Bare!vars, BarePc, BareCount
<1> QED  BY <1>1, <1>2, <1>3, <1>4, <1>5 DEF Next

\* Every run of this program is one of diners_pblm.c.
THEOREM Refinement == Spec => ImplementsDiners
BY InitRefines, StepRefines, Invariance, PTL DEF Spec, ImplementsDiners, Bare!Spec

\* When main returns 0 everybody has eaten all its rounds and no chopstick is
\* held.
LEMMA SuccessFromInv == SemInv => SuccessMeansAllAte
<1> SUFFICES ASSUME SemInv, main = "success"
             PROVE  /\ \A p \in Phil : BareCount[p] = NumRounds
                    /\ \A c \in Phil : mutex[c] = Free
  BY DEF SuccessMeansAllAte, Bare!SuccessMeansAllAte, Phil, Bare!Phil, Free, Bare!Free
<1>1. \A p \in Phil : pc[p] = "done" /\ count[p] = NumRounds
  BY DEF SemInv, Stage
<1>2. \A p \in Phil : BareCount[p] = NumRounds
  BY <1>1 DEF BareCount
<1>3. \A c \in Phil : mutex[c] \notin Phil
  BY <1>1 DEF SemInv, ChopsticksAccounted, HoldsLeft, HoldsRight
<1> QED  BY <1>2, <1>3 DEF SemInv, TypeOK

\* main returns 0 only after every round of every philosopher.
THEOREM Success == Spec => []SuccessMeansAllAte
BY SuccessFromInv, Invariance, PTL
=============================================================================
