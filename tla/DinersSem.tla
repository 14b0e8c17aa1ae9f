------------------------------ MODULE DinersSem ------------------------------
(***************************************************************************)
(* Diners_pblm_sem/diners_pblm_sem.c: the dining philosophers with a       *)
(* counting semaphore of chairs in front of the chopsticks.  The chairs    *)
(* are one fewer than the philosophers, which rules the circular wait of   *)
(* Diners out.  The module also states that this program implements the    *)
(* one without chairs.                                                     *)
(*                                                                         *)
(* Actions are the program's library calls, as in Diners.  The semaphore   *)
(* is external: sem_wait waits for a positive value and decrements it,     *)
(* sem_post increments it.                                                 *)
(***************************************************************************)
EXTENDS Table, FiniteSets

CONSTANT NumChairs   \* the literal 4 of sem_init(&four_chairs, 0, 4)

ASSUME DinersSemAssumption == NumChairs \in Nat \ {0} /\ NumChairs < NumPhilosophers

VARIABLES main, next, pc, count, mutex,   \* as in Diners
          chairs                          \* value of the semaphore four_chairs

vars == <<main, next, pc, count, mutex, chairs>>

Running == main \in {"create", "join"}

Init == /\ main = "create"
        /\ next = 0
        /\ pc = [p \in Phil |-> "unborn"]
        /\ count = [p \in Phil |-> 0]
        /\ mutex = [c \in Phil |-> Free]
        /\ chairs = NumChairs

-----------------------------------------------------------------------------
(* main *)

Create == /\ main = "create"
          /\ pc' = [pc EXCEPT ![next] = "think"]
          /\ IF next + 1 < NumPhilosophers
             THEN main' = main /\ next' = next + 1
             ELSE main' = "join" /\ next' = 0
          /\ UNCHANGED <<count, mutex, chairs>>

CreateFails == /\ main = "create"
               /\ main' = "failure"
               /\ UNCHANGED <<next, pc, count, mutex, chairs>>

Join == /\ main = "join"
        /\ pc[next] = "done"
        /\ IF next + 1 < NumPhilosophers
           THEN main' = main /\ next' = next + 1
           ELSE main' = "success" /\ next' = next
        /\ UNCHANGED <<pc, count, mutex, chairs>>

-----------------------------------------------------------------------------
(* philosopher_fn *)

Goto(p, from, to) == /\ Running
                     /\ pc[p] = from
                     /\ pc' = [pc EXCEPT ![p] = to]
                     /\ UNCHANGED <<main, next>>

LockNoWait(p, c) == mutex' = [mutex EXCEPT ![c] = p]            \* mutant

Lock(p, c) == mutex[c] = Free /\ mutex' = [mutex EXCEPT ![c] = p]
Unlock(c)  == mutex' = [mutex EXCEPT ![c] = Free]

Think(p) == Goto(p, "think", "chair") /\ UNCHANGED <<count, mutex, chairs>>

SitUncounted(p) == /\ Goto(p, "chair", "left")                 \* mutant
                   /\ chairs > 0
                   /\ UNCHANGED <<count, mutex, chairs>>

\* sem_wait
Sit(p) == /\ Goto(p, "chair", "left")
          /\ chairs > 0 /\ chairs' = chairs - 1
          /\ UNCHANGED <<count, mutex>>

TakeLeft(p) == /\ Goto(p, "left", "right")
               /\ Lock(p, p)
               /\ UNCHANGED <<count, chairs>>

TakeRight(p) == /\ Goto(p, "right", "eat")
                /\ Lock(p, Right(p))
                /\ UNCHANGED <<count, chairs>>

Eat(p) == Goto(p, "eat", "dropRight") /\ UNCHANGED <<count, mutex, chairs>>

DropRight(p) == /\ Goto(p, "dropRight", "dropLeft")
                /\ Unlock(Right(p))
                /\ UNCHANGED <<count, chairs>>

DropLeft(p) == /\ Goto(p, "dropLeft", "stand")
               /\ Unlock(p)
               /\ UNCHANGED <<count, chairs>>

AfterRound(n) == IF n < NumRounds THEN "think" ELSE "done"

StandNoPost(p) == /\ Goto(p, "stand", AfterRound(count[p] + 1))  \* mutant
                  /\ count' = [count EXCEPT ![p] = @ + 1]
                  /\ UNCHANGED <<mutex, chairs>>

\* sem_post, count++ and the test of the for loop.
Stand(p) == /\ Goto(p, "stand", AfterRound(count[p] + 1))
            /\ count' = [count EXCEPT ![p] = @ + 1]
            /\ chairs' = chairs + 1
            /\ UNCHANGED mutex

Philosopher(p) == \/ Think(p) \/ Sit(p) \/ TakeLeft(p) \/ TakeRight(p)
                  \/ Eat(p) \/ DropRight(p) \/ DropLeft(p) \/ Stand(p)

Next == \/ Create \/ CreateFails \/ Join
        \/ \E p \in Phil : Philosopher(p)

Spec == Init /\ [][Next]_vars

\* The scheduler keeps running some thread that can run; nothing more.
FairSpec == Spec /\ WF_vars(Next)

-----------------------------------------------------------------------------
(* Properties *)

PhilState == {"unborn", "think", "chair", "left", "right", "eat",
              "dropRight", "dropLeft", "stand", "done"}

\* Every variable keeps its type: no philosopher eats more rounds than the loop
\* allows, and sem_post never lifts the semaphore above the number of chairs.
TypeOK == /\ main \in {"create", "join", "success", "failure"}
          /\ next \in Phil
          /\ pc \in [Phil -> PhilState]
          /\ count \in [Phil -> 0..NumRounds]
          /\ mutex \in [Phil -> Phil \cup {Free}]
          /\ chairs \in 0..NumChairs

HoldsLeft(p)  == pc[p] \in {"right", "eat", "dropRight", "dropLeft"}
HoldsRight(p) == pc[p] \in {"eat", "dropRight"}

\* Every chopstick that is locked is locked by the philosopher whose position
\* in philosopher_fn says so, and the chairs do not change this.
ChopsticksAccounted ==
    \A c \in Phil, p \in Phil :
        (mutex[c] = p) <=> \/ c = p /\ HoldsLeft(p)
                           \/ c = Right(p) /\ HoldsRight(p)

Seated == {p \in Phil : pc[p] \in {"left", "right", "eat", "dropRight",
                                   "dropLeft", "stand"}}

\* The semaphore counts the empty chairs: whatever order the philosophers
\* sit and stand in, no sem_post is lost and none is repeated, so at most
\* NumChairs of them compete for chopsticks.
ChairsAccounted == chairs + Cardinality(Seated) = NumChairs

Blocked(p) == \/ pc[p] \in {"unborn", "done"}
              \/ pc[p] = "chair" /\ chairs = 0
              \/ pc[p] = "left" /\ mutex[p] # Free
              \/ pc[p] = "right" /\ mutex[Right(p)] # Free

Stuck == /\ main = "join" /\ pc[next] # "done"
         /\ \A p \in Phil : Blocked(p)

\* With fewer chairs than philosophers the program cannot stop before main
\* returns: some thread can always make its next call.
NeverStuck == ~Stuck

\* Every run ends, however the scheduler picks among the threads that can run.
Ends == <>~Running

-----------------------------------------------------------------------------
(* The chairs only restrict the schedule: seen without the semaphore, this  *)
(* program is diners_pblm.c.  A philosopher waiting for a chair is one that *)
(* has not locked yet; one that has put its chopsticks back but not stood   *)
(* up yet has finished its round.                                           *)

BarePc == [p \in Phil |-> CASE pc[p] = "chair" -> "left"
                            [] pc[p] = "stand" -> AfterRound(count[p] + 1)
                            [] OTHER -> pc[p]]

BareCount == [p \in Phil |-> IF pc[p] = "stand" THEN count[p] + 1 ELSE count[p]]

Bare == INSTANCE Diners WITH pc <- BarePc, count <- BareCount

\* Every step of this program is a step of diners_pblm.c or leaves it alone.
ImplementsDiners == Bare!Spec

\* Hence main returns 0 only after everybody has eaten all its rounds.
SuccessMeansAllAte == Bare!SuccessMeansAllAte
=============================================================================
