------------------------------- MODULE Diners -------------------------------
(***************************************************************************)
(* Diners_pblm/diners_pblm.c: dining philosophers, one pthread each.       *)
(* Every philosopher takes the chopstick of its own number first and the   *)
(* one to its right second, so the program can stop for ever; the module   *)
(* states that the circular wait is the only way it can.                   *)
(*                                                                         *)
(* One action is one library call of the program (lock, unlock, create,    *)
(* join) or one iteration of its loops.  The pthread library is external:  *)
(* a mutex is its owner, pthread_create may fail, pthread_join waits for   *)
(* the thread to return.  Returning from main ends every thread.           *)
(***************************************************************************)
EXTENDS Table

VARIABLES main,     \* main: "create" loop, "join" loop, "success" or "failure"
          next,     \* main: the loop variable i
          pc,       \* pc[p]: what philosopher p does next
          count,    \* count[p]: rounds philosopher p has finished
          mutex     \* mutex[c]: the philosopher that holds chopstick c, or Free

vars == <<main, next, pc, count, mutex>>

Running == main \in {"create", "join"}

Init == /\ main = "create"
        /\ next = 0
        /\ pc = [p \in Phil |-> "unborn"]
        /\ count = [p \in Phil |-> 0]
        /\ mutex = [c \in Phil |-> Free]

-----------------------------------------------------------------------------
(* main *)

\* pthread_create: the new thread starts in philosopher_fn.
Create == /\ main = "create"
          /\ pc' = [pc EXCEPT ![next] = "think"]
          /\ IF next + 1 < NumPhilosophers
             THEN main' = main /\ next' = next + 1
             ELSE main' = "join" /\ next' = 0
          /\ UNCHANGED <<count, mutex>>

\* pthread_create fails: main returns 1 and the process ends.
CreateFails == /\ main = "create"
               /\ main' = "failure"
               /\ UNCHANGED <<next, pc, count, mutex>>

\* pthread_join of the threads in order of creation; after the last, return 0.
Join == /\ main = "join"
        /\ pc[next] = "done"
        /\ IF next + 1 < NumPhilosophers
           THEN main' = main /\ next' = next + 1
           ELSE main' = "success" /\ next' = next
        /\ UNCHANGED <<pc, count, mutex>>

-----------------------------------------------------------------------------
(* philosopher_fn *)

Goto(p, from, to) == /\ Running
                     /\ pc[p] = from
                     /\ pc' = [pc EXCEPT ![p] = to]
                     /\ UNCHANGED <<main, next>>

LockNoWait(p, c) == mutex' = [mutex EXCEPT ![c] = p]            \* mutant

Lock(p, c) == mutex[c] = Free /\ mutex' = [mutex EXCEPT ![c] = p]
Unlock(c)  == mutex' = [mutex EXCEPT ![c] = Free]

Think(p) == Goto(p, "think", "left") /\ UNCHANGED <<count, mutex>>

TakeLeft(p) == Goto(p, "left", "right") /\ Lock(p, p) /\ UNCHANGED count

TakeRight(p) == Goto(p, "right", "eat") /\ Lock(p, Right(p)) /\ UNCHANGED count

Eat(p) == Goto(p, "eat", "dropRight") /\ UNCHANGED <<count, mutex>>

DropRightForgotten(p) == /\ Goto(p, "dropRight", "dropLeft")    \* mutant
                         /\ UNCHANGED <<count, mutex>>

DropRight(p) == /\ Goto(p, "dropRight", "dropLeft")
                /\ Unlock(Right(p))
                /\ UNCHANGED count

AfterRound(n) == IF n < NumRounds THEN "think" ELSE "done"

\* The last unlock of the body, count++ and the test of the for loop.
DropLeft(p) == /\ Goto(p, "dropLeft", AfterRound(count[p] + 1))
               /\ count' = [count EXCEPT ![p] = @ + 1]
               /\ Unlock(p)

Philosopher(p) == \/ Think(p) \/ TakeLeft(p) \/ TakeRight(p)
                  \/ Eat(p) \/ DropRight(p) \/ DropLeft(p)

Next == \/ Create \/ CreateFails \/ Join
        \/ \E p \in Phil : Philosopher(p)

Spec == Init /\ [][Next]_vars

\* The scheduler keeps running some thread that can run; nothing more.
FairSpec == Spec /\ WF_vars(Next)

-----------------------------------------------------------------------------
(* Properties *)

PhilState == {"unborn", "think", "left", "right", "eat",
              "dropRight", "dropLeft", "done"}

\* Every variable keeps its type: no philosopher eats more rounds than the loop
\* allows, and only philosophers own chopsticks.
TypeOK == /\ main \in {"create", "join", "success", "failure"}
          /\ next \in Phil
          /\ pc \in [Phil -> PhilState]
          /\ count \in [Phil -> 0..NumRounds]
          /\ mutex \in [Phil -> Phil \cup {Free}]

HoldsLeft(p)  == pc[p] \in {"right", "eat", "dropRight", "dropLeft"}
HoldsRight(p) == pc[p] \in {"eat", "dropRight"}

\* Every chopstick that is locked is locked by the philosopher whose
\* position in philosopher_fn says so: no unlock releases a mutex of
\* another thread, and none is left locked by a thread that has returned.
ChopsticksAccounted ==
    \A c \in Phil, p \in Phil :
        (mutex[c] = p) <=> \/ c = p /\ HoldsLeft(p)
                           \/ c = Right(p) /\ HoldsRight(p)

\* Two neighbours never eat at the same time.
NeighboursExclude ==
    \A p \in Phil : ~(pc[p] = "eat" /\ pc[Right(p)] = "eat")

\* The circular wait: every philosopher has its left chopstick and waits in
\* the second pthread_mutex_lock.
CircularWait == \A p \in Phil : pc[p] = "right" /\ mutex[p] = p

\* No call of any thread can return: each philosopher that runs waits for a
\* chopstick that is taken, and main waits for a thread that has not returned.
Blocked(p) == \/ pc[p] \in {"unborn", "done"}
              \/ pc[p] = "left" /\ mutex[p] # Free
              \/ pc[p] = "right" /\ mutex[Right(p)] # Free

Stuck == /\ main = "join" /\ pc[next] # "done"
         /\ \A p \in Phil : Blocked(p)

\* The program stops for ever only in the circular wait: no other
\* combination of held and awaited chopsticks blocks everybody.
StuckOnlyInCircularWait == Stuck => CircularWait

\* Every run ends: main returns, or the circular wait is reached.
EndsOrCircularWait == <>(~Running \/ CircularWait)

\* main returns 0 only after every philosopher ate in every round and put
\* both chopsticks back.
SuccessMeansAllAte ==
    main = "success" => /\ \A p \in Phil : count[p] = NumRounds
                        /\ \A c \in Phil : mutex[c] = Free
=============================================================================
