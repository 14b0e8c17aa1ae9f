------------------------------- MODULE MatMul -------------------------------
(***************************************************************************)
(* The threaded matrix multiplication, Mat_Mul_Threads/mat_mul.c: main     *)
(* creates the threads 1 to num_threads - 1, computes slice 0 itself and   *)
(* joins.  A row of the product is computed in one step; C[r] is the set of *)
(* the slices that have computed row r since init_matrix.                  *)
(*                                                                         *)
(* Operators marked "mutant" are wrong versions of the definition after    *)
(* them: the specification does not use them.                              *)
(***************************************************************************)
EXTENDS Integers

CONSTANTS SIZE,         \* the number of rows
          Argument      \* what atoi may make of the argument

ASSUME MatMulAssumption == SIZE \in Nat \ {0} /\ Argument \subseteq Int

VARIABLES num_threads,
          at,    \* where main is
          i,     \* i of main
          next,  \* next[s]: the row that slice s computes next; -1 before it starts
          C      \* C[r]: who has computed row r

vars == <<num_threads, at, i, next, C>>

Row   == 0..(SIZE - 1)

\* Slice 0 exists whatever num_threads is: main computes it.
Slice == {0} \cup 1..(num_threads - 1)

BoundEven(s) == s * (SIZE \div num_threads)                         \* mutant

\* (s*SIZE)/num_threads; C divides towards zero.
Bound(s) == IF num_threads > 0 THEN (s * SIZE) \div num_threads
            ELSE -((s * SIZE) \div (-num_threads))

Init == /\ num_threads \in Argument
        /\ at = "create" /\ i = 1
        /\ next = [s \in Slice |-> -1]
        /\ C = [r \in Row |-> {}]

-----------------------------------------------------------------------------
(* main *)

Create == /\ at = "create" /\ i < num_threads
          /\ next' = [next EXCEPT ![i] = Bound(i)]
          /\ i' = i + 1
          /\ UNCHANGED <<num_threads, at, C>>

\* exit ends the threads that run.
CreateFails == /\ at = "create" /\ i < num_threads
               /\ at' = "failed"
               /\ UNCHANGED <<num_threads, i, next, C>>

\* main calls multiply(0); with no threads that divides by zero.
Multiply0 == /\ at = "create" /\ i >= num_threads
             /\ IF num_threads = 0
                THEN at' = "crashed" /\ UNCHANGED next
                ELSE at' = "multiply" /\ next' = [next EXCEPT ![0] = Bound(0)]
             /\ UNCHANGED <<num_threads, i, C>>

Finished(s) == next[s] >= Bound(s + 1)

EndMultiply0 == /\ at = "multiply" /\ Finished(0)
                /\ at' = "join" /\ i' = 0
                /\ UNCHANGED <<num_threads, next, C>>

\* threads[0] was never written: pthread_join is given what malloc left there
\* and refuses it or follows it.
Join0 == /\ at = "join" /\ i = 0 /\ i < num_threads
         /\ \/ i' = 1 /\ UNCHANGED at
            \/ at' = "crashed" /\ UNCHANGED i
         /\ UNCHANGED <<num_threads, next, C>>

Join == /\ at = "join" /\ i > 0 /\ i < num_threads
        /\ Finished(i)
        /\ i' = i + 1
        /\ UNCHANGED <<num_threads, at, next, C>>

Finish == /\ at = "join" /\ i >= num_threads
          /\ at' = "done"
          /\ UNCHANGED <<num_threads, i, next, C>>

-----------------------------------------------------------------------------
(* multiply *)

Ended == at \in {"done", "failed", "crashed"}

ComputeRow(s) == /\ ~Ended /\ next[s] >= 0 /\ ~Finished(s)
                 /\ C' = [C EXCEPT ![next[s]] = @ \cup {s}]
                 /\ next' = [next EXCEPT ![s] = @ + 1]
                 /\ UNCHANGED <<num_threads, at, i>>

Main == \/ Create \/ CreateFails \/ Multiply0 \/ EndMultiply0 \/ Join0 \/ Join \/ Finish
Next == Main \/ \E s \in Slice : ComputeRow(s)

Spec == Init /\ [][Next]_vars

-----------------------------------------------------------------------------
(* Properties *)

\* Every variable keeps its type; a thread stays within the matrix.
TypeOK == /\ num_threads \in Argument
          /\ at \in {"create", "multiply", "join", "done", "failed", "crashed"}
          /\ i \in Nat
          /\ next \in [Slice -> -1..SIZE]
          /\ C \in [Row -> SUBSET Slice]

\* No row is computed by two threads, which would add up in the same element
\* at the same time, also when num_threads does not divide SIZE or exceeds it.
RowOfOneSlice == \A r \in Row : \A s, t \in C[r] : s = t

\* With at least one thread, main prints the product only when every row has
\* been computed, however the threads are scheduled.
DoneMeansProduct == at = "done" /\ num_threads > 0 => \A r \in Row : C[r] # {}
=============================================================================
