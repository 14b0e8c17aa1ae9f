----------------------------- MODULE ArrayMerge -----------------------------
(***************************************************************************)
(* The threaded merge, array_merge_thread/array_merge_thread.c.  main      *)
(* creates one thread for each element of two sorted arrays and waits on a  *)
(* condition variable, once for each, until the thread has read its index; *)
(* the thread finds the position of its element in the merged array.       *)
(*                                                                         *)
(* A thread is always in one of few places: the search of an element in    *)
(* immutable arrays is one step, whose result is a position, Endless if it *)
(* never ends, or Wild if it depends on memory that nobody wrote.  arr3 is *)
(* a function on the positions that were written.                          *)
(*                                                                         *)
(* Operators marked "mutant" are wrong versions of the definition after    *)
(* them: the specification does not use them.                              *)
(***************************************************************************)
EXTENDS Integers, SequencesExt

CONSTANT Inputs       \* two arrays, sorted sequences of integers, and whether
                      \* pthread_cond_wait may wake up spuriously

\* What is assumed of it.
MergeAssumption == Inputs \subseteq Seq(Int) \X Seq(Int) \X BOOLEAN

\* The program asks for sorted arrays: its search is of no use in others.
Ascending(a) == \A j, k \in DOMAIN a : j < k => a[j] <= a[k]
SortedAssumption == \A in \in Inputs : Ascending(in[1]) /\ Ascending(in[2])

VARIABLES arr1, arr2, arr3,
          spurious,  \* there are spurious wakeups in this run
          count,     \* the index the next thread reads
          mutex,     \* the owner of mutex_var: a thread, or Main or Nobody
          at,        \* where main is
          i,         \* i of main
          pc,        \* pc[t]: where thread t is
          index      \* index[t]: temp_cnt of thread t

vars == <<arr1, arr2, arr3, spurious, count, mutex, at, i, pc, index>>

Size     == Len(arr1) + Len(arr2)
Thread   == 0..(Size - 1)
Main     == -1
Nobody   == -2
Wild     == -1
Endless  == -2

Init == /\ \E in \in Inputs : arr1 = in[1] /\ arr2 = in[2] /\ spurious = in[3]
        /\ arr3 = <<>>
        /\ count = 0 /\ mutex = Nobody
        /\ at = "create" /\ i = 0
        /\ pc = [t \in Thread |-> "none"]
        /\ index = [t \in Thread |-> 0]

data == <<arr1, arr2, arr3, spurious>>

-----------------------------------------------------------------------------
(* The position of an element in the merged array *)

Mine(k)  == IF k < Len(arr1) THEN arr1 ELSE arr2
Other(k) == IF k < Len(arr1) THEN arr2 ELSE arr1
Cnt(k)   == IF k < Len(arr1) THEN k ELSE k - Len(arr1)

\* lower, upper and middle of the search; middle is Wild before it is set.
Bounds(a) == [lower : 0..(Len(a) - 1), upper : 0..(Len(a) - 1), middle : Wild..(Len(a) - 1)]

\* A result of the search: what middle is in the end, or what prevents that.
Search(x, a) ==
    LET loop[s \in Bounds(a)] ==
            LET m == (s.upper + s.lower) \div 2
            IN  IF s.upper <= s.lower THEN s.middle
                ELSE IF x > a[m + 1] /\ x < a[m + 2] THEN m
                ELSE IF x < a[m + 1]
                THEN loop[[lower |-> s.lower, upper |-> m, middle |-> m]]
                ELSE IF x > a[m + 1]
                THEN loop[[lower |-> m + 1, upper |-> s.upper, middle |-> m]]
                ELSE Endless
    IN  loop[[lower |-> 0, upper |-> Len(a) - 1, middle |-> Wild]]

PositionAfter(x, cnt, a) ==                                         \* mutant
    IF a = <<>> THEN {cnt, Wild}
    ELSE IF x < a[1] THEN {cnt}
    ELSE IF x > a[Len(a)] THEN {Len(a) + cnt}
    ELSE LET m == Search(x, a) IN {IF m >= 0 THEN cnt + m ELSE m}

\* Beyond an empty array there is memory with anything in it.
Position(x, cnt, a) ==
    IF a = <<>> THEN {cnt, Wild}
    ELSE IF x < a[1] THEN {cnt}
    ELSE IF x > a[Len(a)] THEN {Len(a) + cnt}
    ELSE LET m == Search(x, a) IN {IF m >= 0 THEN cnt + m + 1 ELSE m}

-----------------------------------------------------------------------------
(* main *)

Ended == at \in {"done", "failed", "undefined"}

Create == /\ at = "create" /\ i < Size
          /\ pc' = [pc EXCEPT ![i] = "lock"]
          /\ at' = "lock"
          /\ UNCHANGED <<data, count, mutex, i, index>>

CreateFails == /\ at = "create" /\ i < Size
               /\ at' = "failed"
               /\ UNCHANGED <<data, count, mutex, i, pc, index>>

SleepNot == /\ at = "lock" /\ mutex = Nobody                         \* mutant
            /\ at' = "woken"
            /\ UNCHANGED <<data, count, mutex, i, pc, index>>

\* Lock and wait; the wait gives the mutex back.
Sleep == /\ at = "lock" /\ mutex = Nobody
         /\ at' = "asleep"
         /\ UNCHANGED <<data, count, mutex, i, pc, index>>

SpuriousWakeup == /\ spurious /\ at = "asleep"
                  /\ at' = "woken"
                  /\ UNCHANGED <<data, count, mutex, i, pc, index>>

\* The wait returns with the mutex, count is incremented, the mutex unlocked.
Count == /\ at = "woken" /\ mutex = Nobody
         /\ count' = count + 1 /\ i' = i + 1
         /\ at' = "create"
         /\ UNCHANGED <<data, mutex, pc, index>>

Join == /\ at = "create" /\ i >= Size
        /\ \A t \in Thread : pc[t] = "ended"
        /\ at' = "done"
        /\ UNCHANGED <<data, count, mutex, i, pc, index>>

-----------------------------------------------------------------------------
(* threadfunc *)

Lock(t) == /\ ~Ended /\ pc[t] = "lock" /\ mutex = Nobody
           /\ mutex' = t
           /\ index' = [index EXCEPT ![t] = count]
           /\ pc' = [pc EXCEPT ![t] = "signal"]
           /\ UNCHANGED <<data, count, at, i>>

\* Nobody hears the signal unless main sleeps.
Signal(t) == /\ ~Ended /\ pc[t] = "signal"
             /\ at' = IF at = "asleep" THEN "woken" ELSE at
             /\ pc' = [pc EXCEPT ![t] = "unlock"]
             /\ UNCHANGED <<data, count, mutex, i, index>>

KeepLocked(t) == /\ ~Ended /\ pc[t] = "unlock"                       \* mutant
                 /\ pc' = [pc EXCEPT ![t] = "place"]
                 /\ UNCHANGED <<data, count, mutex, at, i, index>>

Unlock(t) == /\ ~Ended /\ pc[t] = "unlock"
             /\ mutex' = Nobody
             /\ pc' = [pc EXCEPT ![t] = "place"]
             /\ UNCHANGED <<data, count, at, i, index>>

\* With an index beyond the last element the element is not in the array.
Place(t) ==
    /\ ~Ended /\ pc[t] = "place"
    /\ LET k == index[t]
       IN  IF k \notin Thread
           THEN at' = "undefined" /\ UNCHANGED <<arr3, pc>>
           ELSE \E pos \in Position(Mine(k)[Cnt(k) + 1], Cnt(k), Other(k)) :
                  \/ /\ pos = Endless
                     /\ pc' = [pc EXCEPT ![t] = "search"]
                     /\ UNCHANGED <<at, arr3>>
                  \/ /\ pos \notin Thread \cup {Endless}
                     /\ at' = "undefined"
                     /\ UNCHANGED <<pc, arr3>>
                  \/ /\ pos \in Thread
                     /\ arr3' = [p \in DOMAIN arr3 \cup {pos} |->
                                   IF p = pos THEN Mine(k)[Cnt(k) + 1] ELSE arr3[p]]
                     /\ pc' = [pc EXCEPT ![t] = "ended"]
                     /\ UNCHANGED at
    /\ UNCHANGED <<arr1, arr2, spurious, count, mutex, i, index>>

ThreadStep(t) == Lock(t) \/ Signal(t) \/ Unlock(t) \/ Place(t)
MainStep == Create \/ CreateFails \/ Sleep \/ Count \/ Join
Next == MainStep \/ SpuriousWakeup \/ \E t \in Thread : ThreadStep(t)

Spec == Init /\ [][Next]_vars

\* The scheduler runs every thread.
Threads == UNION {0..(Len(in[1]) + Len(in[2]) - 1) : in \in Inputs}
FairSpec == Spec /\ WF_vars(MainStep)
                 /\ \A t \in Threads : WF_vars(t \in Thread /\ ThreadStep(t))

-----------------------------------------------------------------------------
(* Properties *)

\* Every variable keeps its type; main never holds the mutex over a step.
TypeOK == /\ <<arr1, arr2, spurious>> \in Inputs
          /\ DOMAIN arr3 \subseteq Thread /\ \A k \in DOMAIN arr3 : arr3[k] \in Int
          /\ count \in 0..Size /\ i = count
          /\ mutex \in Thread \cup {Nobody}
          /\ at \in {"create", "lock", "asleep", "woken", "done", "failed", "undefined"}
          /\ pc \in [Thread -> {"none", "lock", "signal", "unlock", "place", "search", "ended"}]
          /\ index \in [Thread -> 0..Size]

\* Without spurious wakeups every thread that has an index has one of its own,
\* although main and the threads share a counter that is read and incremented
\* in different critical sections.
Indexed(t) == pc[t] \notin {"none", "lock"}
IndexOnce == ~spurious => \A t \in Thread : Indexed(t) => index[t] = t

\* main sleeps for ever only if the thread it waits for had signalled before.
Stuck == at = "asleep" /\ \A t \in Thread : pc[t] \notin {"lock", "signal"}

\* The search ends for every element that is not in the other array too.
Values(a) == {a[k] : k \in DOMAIN a}
SearchEnds == \A t \in Thread : pc[t] = "search" =>
                  LET k == index[t] IN Mine(k)[Cnt(k) + 1] \in Values(Other(k))

\* The values of the arrays, and where one of them may be in both together.
Distinct == Values(arr1) \cap Values(arr2) = {}
Less(a, v) == {k \in DOMAIN a : a[k] < v}
NotMore(a, v) == {k \in DOMAIN a : a[k] <= v}
Belongs(v, k) == /\ Cardinality(Less(arr1, v)) + Cardinality(Less(arr2, v)) <= k
                 /\ k < Cardinality(NotMore(arr1, v)) + Cardinality(NotMore(arr2, v))
\* Whatever is in the merged array, with spurious wakeups or without, is where
\* it belongs: as many smaller elements are before it as there are, and only
\* elements that are not greater.
PlacedRight == Distinct => \A k \in DOMAIN arr3 : Belongs(arr3[k], k)

\* Without spurious wakeups and without common elements main prints the two
\* arrays merged.
Merged == ~spurious /\ Distinct /\ at = "done"
              => DOMAIN arr3 = Thread /\ \A k \in Thread : Belongs(arr3[k], k)

\* Memory that is not the arrays' is only used after a spurious wakeup or if an
\* array has less than two elements.
DefinedElsewhere == at = "undefined" => spurious \/ Len(arr1) < 2 \/ Len(arr2) < 2

\* What holds at every step: searches end, and what is written is right.
MergeInv == TypeOK /\ SearchEnds /\ PlacedRight /\ Merged /\ DefinedElsewhere

\* Without common elements the program ends or main has missed the signal of
\* the thread it has just created.
EndsOrMissesSignal == Distinct => <>(Ended \/ Stuck)
=============================================================================
