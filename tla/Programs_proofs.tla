------------------------- MODULE Programs_proofs -------------------------
(***************************************************************************)
(* Proofs about the programs of MCPrograms, and of what they are together. *)
(* MatMul, for every matrix size and every number of threads: the slices   *)
(* partition the rows, each row is computed once, and all of them before   *)
(* main prints.  ArrayMerge, for sorted arrays of every length: every      *)
(* thread takes an index of its own if nothing wakes up spuriously, the    *)
(* search finds the place of its element, and nothing is written where it  *)
(* does not belong.  Numbers: what patten_matching.c prints is what should *)
(* be, and top.c prints no run of digits up to 999.                        *)
(* HashTable, for every set of strings, number of buckets and hash         *)
(* function: no string is in it twice, and on zeroed memory it is a set.   *)
(***************************************************************************)
EXTENDS MCPrograms, TLAPS, WellFoundedInduction, NaturalsInduction, SequenceTheorems,
        FiniteSetTheorems

-----------------------------------------------------------------------------
(* Induction: the theorems of the library that have a set for a predicate *)

\* A non-empty set of natural numbers has a least member.
LEMMA LeastNatural ==
    ASSUME NEW S \in SUBSET Nat, S # {}
    PROVE  \E x \in S : \A y \in S : x <= y
<1> DEFINE R == OpToRel(<, Nat)
<1>1. \E x \in S : \A y \in S : ~(<<y, x>> \in R)
  <2>1. IsWellFoundedOn(R, Nat)
    BY NatLessThanWellFounded
  <2> HIDE DEF R
  <2> QED  BY <2>1, WFMin
<1>2. PICK x \in S : \A y \in S : ~(<<y, x>> \in R)
  BY <1>1
<1>3. \A y \in S : ~(y < x)
  BY <1>2 DEF OpToRel
<1> QED  BY <1>3

\* What is right for 0 and for the successor of whatever it is right for, is right.
LEMMA NaturalStep ==
    ASSUME NEW S \in SUBSET Nat, 0 \in S, \A n \in S : n + 1 \in S
    PROVE  S = Nat
<1> SUFFICES ASSUME Nat \ S # {} PROVE FALSE
  OBVIOUS
<1>1. PICK x \in Nat \ S : \A y \in Nat \ S : x <= y
  BY LeastNatural
<1>2. x - 1 \in Nat /\ x - 1 \in S
  BY <1>1
<1> QED  BY <1>1, <1>2

-----------------------------------------------------------------------------
(* The slices *)

\* Division of natural numbers.
LEMMA Division ==
    ASSUME NEW a \in Nat, NEW n \in Nat \ {0}
    PROVE  a \div n \in Nat /\ n * (a \div n) <= a /\ a < n * (a \div n) + n
OBVIOUS

\* It keeps the order.
LEMMA DivisionOrder ==
    ASSUME NEW a \in Nat, NEW b \in Nat, NEW n \in Nat \ {0}, a <= b
    PROVE  a \div n <= b \div n
OBVIOUS

\* Multiplication keeps the order.
LEMMA ProductOrder ==
    ASSUME NEW a \in Nat, NEW b \in Nat, NEW n \in Nat, a <= b
    PROVE  a * n <= b * n
OBVIOUS

\* The bounds are numbers in order.
LEMMA BoundOrder ==
    ASSUME num_threads \in Nat \ {0}, NEW s \in Nat, NEW t \in Nat, s <= t
    PROVE  Bound(s) \in Nat /\ Bound(s) <= Bound(t)
<1>1. s * SIZE \in Nat /\ t * SIZE \in Nat /\ s * SIZE <= t * SIZE
  BY MatMulAssumption, ProductOrder
<1> QED  BY <1>1, Division, DivisionOrder DEF Bound

\* The first bound and the last one.
LEMMA BoundEnds ==
    ASSUME num_threads \in Nat \ {0}
    PROVE  Bound(0) = 0 /\ Bound(num_threads) = SIZE
<1>1. 0 * SIZE = 0 /\ 0 \div num_threads = 0
  BY MatMulAssumption
<1>2. (num_threads * SIZE) \div num_threads = SIZE
  <2>1. num_threads * SIZE \in Nat
    BY MatMulAssumption
  <2> DEFINE q == (num_threads * SIZE) \div num_threads
  <2>2. /\ q \in Nat /\ num_threads * q <= num_threads * SIZE
        /\ num_threads * SIZE < num_threads * q + num_threads
    BY <2>1, Division
  <2> HIDE DEF q
  <2>3. q <= SIZE /\ SIZE < q + 1
    BY <2>2, MatMulAssumption
  <2> QED  BY <2>2, <2>3, MatMulAssumption DEF q
<1> QED  BY <1>1, <1>2 DEF Bound

\* The rows of a slice are rows of the matrix.
LEMMA BoundRange ==
    ASSUME num_threads \in Nat \ {0}, NEW s \in 0..num_threads
    PROVE  Bound(s) \in 0..SIZE
BY BoundOrder, BoundEnds, MatMulAssumption

\* Two slices share no row.
LEMMA SlicesDisjoint ==
    ASSUME num_threads \in Nat \ {0}, NEW s \in Nat, NEW t \in Nat, NEW r \in Int,
           Bound(s) <= r, r < Bound(s + 1), Bound(t) <= r, r < Bound(t + 1)
    PROVE  s = t
<1>1. /\ Bound(s) \in Nat /\ Bound(t) \in Nat
      /\ Bound(s + 1) \in Nat /\ Bound(t + 1) \in Nat
  BY BoundOrder
<1>2. s < t => Bound(s + 1) <= Bound(t)
  BY BoundOrder
<1>3. t < s => Bound(t + 1) <= Bound(s)
  BY BoundOrder
<1> QED  BY <1>1, <1>2, <1>3

\* Every row belongs to a slice: r to the largest s for which the quotient
\* (s * SIZE) \div num_threads has not passed r.
LEMMA SlicesCover ==
    ASSUME num_threads \in Nat \ {0}, NEW r \in Row
    PROVE  \E s \in Slice : Bound(s) <= r /\ r < Bound(s + 1)
<1> DEFINE a == (r + 1) * num_threads - 1
           s == a \div SIZE
<1>1. r \in Nat /\ r + 1 <= SIZE /\ SIZE \in Nat \ {0}
  BY MatMulAssumption DEF Row
<1>2. a \in Nat
  BY <1>1
<1>3. s \in Nat /\ SIZE * s <= a /\ a < SIZE * s + SIZE
  BY <1>1, <1>2, Division
<1> HIDE DEF s
<1>4. s * SIZE < (r + 1) * num_threads /\ (r + 1) * num_threads <= (s + 1) * SIZE
  BY <1>1, <1>2, <1>3
<1>5. Bound(s) <= r
  <2>1. s * SIZE \in Nat
    BY <1>1, <1>3
  <2>2. /\ Bound(s) \in Nat /\ num_threads * Bound(s) <= s * SIZE
    BY <2>1, Division DEF Bound
  <2>3. num_threads * Bound(s) < num_threads * (r + 1)
    BY <1>1, <1>4, <2>1, <2>2
  <2> QED  BY <1>1, <2>2, <2>3
<1>6. r < Bound(s + 1)
  <2>1. (s + 1) * SIZE \in Nat
    BY <1>1, <1>3
  <2>2. Bound(s + 1) \in Nat /\ (s + 1) * SIZE < num_threads * Bound(s + 1) + num_threads
    <3> DEFINE m == (s + 1) * SIZE
    <3>1. Bound(s + 1) = m \div num_threads
      BY DEF Bound
    <3>2. m \in Nat
      BY <2>1
    <3> HIDE DEF m
    <3>3. m \div num_threads \in Nat /\ m < num_threads * (m \div num_threads) + num_threads
      BY <3>2, Division
    <3> QED  BY <3>1, <3>3 DEF m
  <2>3. num_threads * (r + 1) < num_threads * (Bound(s + 1) + 1)
    <3> DEFINE b == Bound(s + 1)
               m == (s + 1) * SIZE
    <3>1. num_threads * (b + 1) = num_threads * b + num_threads
      BY <2>2
    <3>2. num_threads * (r + 1) = (r + 1) * num_threads
      BY <1>1
    <3>3. (r + 1) * num_threads <= m /\ m < num_threads * b + num_threads
      BY <1>4, <2>2
    <3>4. (r + 1) * num_threads \in Nat /\ num_threads * b \in Nat /\ m \in Nat
      BY <1>1, <2>1, <2>2
    <3> HIDE DEF b, m
    <3>5. num_threads * (r + 1) < num_threads * (b + 1)
      BY <3>1, <3>2, <3>3, <3>4
    <3> QED  BY <3>5 DEF b
  <2> QED  BY <1>1, <2>2, <2>3
<1>7. s < num_threads
  <2>1. (r + 1) * num_threads <= SIZE * num_threads
    BY <1>1, ProductOrder
  <2>2. s * SIZE < num_threads * SIZE
    BY <1>1, <1>3, <1>4, <2>1
  <2> QED  BY <1>1, <1>3, <2>2
<1>8. s \in Slice
  BY <1>3, <1>7 DEF Slice
<1> QED  BY <1>5, <1>6, <1>8

-----------------------------------------------------------------------------
(* The inductive invariant *)

\* A slice that has been started has computed its rows up to next and no others.
Computed == \A r \in Row, s \in Slice :
                s \in C[r] <=> next[s] # -1 /\ Bound(s) <= r /\ r < next[s]

\* The next row of a slice is between its bounds.
Within == \A s \in Slice :
              \/ next[s] = -1
              \/ /\ Bound(s) <= next[s]
                 /\ num_threads > 0 => next[s] <= Bound(s + 1)

\* Where main is, the slices that have been waited for are finished.
Waited == /\ at = "create" => i >= 1 /\ \A s \in Slice : (s = 0 \/ s >= i) => next[s] = -1
          /\ at \in {"join", "done"} => Finished(0)
          /\ at = "join" => \A s \in 1..(i - 1) : s \in Slice => Finished(s)
          /\ at = "done" => \A s \in Slice : Finished(s)
          /\ num_threads = 0 => at \in {"create", "failed", "crashed"}

Inv == TypeOK /\ Computed /\ Within /\ Waited

\* What a number of threads means for the first bounds.
LEMMA FewThreads ==
    ASSUME num_threads \in Int, num_threads < 0
    PROVE  Slice = {0} /\ Bound(0) = 0 /\ Bound(1) \in Int /\ Bound(1) <= 0
<1>1. 0 * SIZE = 0 /\ 1 * SIZE = SIZE /\ SIZE \in Nat
  BY MatMulAssumption
<1>2. 0 \div (-num_threads) = 0 /\ SIZE \div (-num_threads) \in Nat
  BY <1>1, Division
<1> QED  BY <1>1, <1>2 DEF Slice, Bound

\* The bounds of the slices that exist.
LEMMA SliceBounds ==
    ASSUME num_threads \in Nat \ {0}, NEW s \in Slice
    PROVE  Bound(s) \in 0..SIZE /\ Bound(s + 1) \in 0..SIZE /\ Bound(s) <= Bound(s + 1)
<1>1. s \in 0..num_threads /\ s + 1 \in 0..num_threads
  BY DEF Slice
<1> QED  BY <1>1, BoundRange, BoundOrder

\* The invariant holds at the start.
LEMMA InvInit == Init => Inv
<1> SUFFICES ASSUME Init PROVE Inv
  OBVIOUS
<1>1. TypeOK
  BY MatMulAssumption DEF Init, TypeOK, Slice
<1> QED  BY <1>1 DEF Init, Inv, Computed, Within, Waited

\* Every step preserves the invariant.
LEMMA InvNext == Inv /\ [Next]_vars => Inv'
<1> SUFFICES ASSUME Inv, [Next]_vars PROVE Inv'
  OBVIOUS
<1>0. /\ TypeOK /\ Computed /\ Within /\ Waited
      /\ num_threads \in Int /\ SIZE \in Nat \ {0}
  BY MatMulAssumption DEF Inv, TypeOK
<1>1. num_threads' = num_threads
  BY DEF Next, Main, Create, CreateFails, Multiply0, EndMultiply0, Join0, Join, Finish,
         ComputeRow, vars
<1>2. Slice' = Slice /\ \A s \in Int : Bound(s)' = Bound(s)
  BY <1>1 DEF Slice, Bound
<1>3. \A s \in Slice : s \in Int /\ s + 1 \in Int /\ 0 \in Slice
  BY <1>0 DEF Slice
<1>4. Row' = Row
  BY DEF Row
\* A slice that starts: what main does when it creates it, or calls it.
<1>5. ASSUME NEW s \in Slice, num_threads # 0, next[s] = -1,
             next' = [next EXCEPT ![s] = Bound(s)], UNCHANGED C
      PROVE  next' \in [Slice -> -1..SIZE] /\ Computed' /\ Within'
  <2>1. /\ Bound(s) \in 0..SIZE
        /\ num_threads > 0 => Bound(s) <= Bound(s + 1)
    BY <1>0, <1>5, SliceBounds, FewThreads DEF Slice
  <2>2. next' \in [Slice -> -1..SIZE]
    BY <1>0, <1>5, <2>1 DEF TypeOK
  <2>3. Computed'
    <3> SUFFICES ASSUME NEW r \in Row, NEW t \in Slice
                 PROVE  t \in C[r] <=> next'[t] # -1 /\ Bound(t) <= r /\ r < next'[t]
      BY <1>2, <1>3, <1>4, <1>5 DEF Computed
    <3>1. CASE t = s
      BY <1>0, <1>5, <2>1, <3>1 DEF Computed, TypeOK, Row
    <3>2. CASE t # s
      BY <1>0, <1>5, <3>2 DEF Computed, TypeOK
    <3> QED  BY <3>1, <3>2
  <2>4. Within'
    <3> SUFFICES ASSUME NEW t \in Slice
                 PROVE  \/ next'[t] = -1
                        \/ /\ Bound(t) <= next'[t]
                           /\ num_threads > 0 => next'[t] <= Bound(t + 1)
      BY <1>1, <1>2, <1>3 DEF Within
    <3>1. CASE t = s
      BY <1>0, <1>5, <2>1, <3>1 DEF TypeOK
    <3>2. CASE t # s
      BY <1>0, <1>5, <3>2 DEF Within, TypeOK
    <3> QED  BY <3>1, <3>2
  <2> QED  BY <2>2, <2>3, <2>4
\* A step of main that leaves the slices alone.
<1>6. ASSUME UNCHANGED <<next, C>>
      PROVE  /\ next' \in [Slice -> -1..SIZE] /\ Computed' /\ Within'
             /\ \A s \in Slice : Finished(s)' <=> Finished(s)
  <2>1. Computed'
    BY <1>0, <1>2, <1>3, <1>4, <1>6 DEF Computed
  <2>2. Within'
    BY <1>0, <1>1, <1>2, <1>3, <1>6 DEF Within
  <2>3. \A s \in Slice : Finished(s)' <=> Finished(s)
    BY <1>2, <1>3, <1>6 DEF Finished
  <2> QED  BY <1>0, <1>6, <2>1, <2>2, <2>3 DEF TypeOK
<1>7. CASE Create
  <2>1. i \in Slice /\ num_threads # 0 /\ next[i] = -1
    BY <1>0, <1>7 DEF Create, Waited, TypeOK, Slice
  <2>2. next' \in [Slice -> -1..SIZE] /\ Computed' /\ Within'
    BY <1>5, <1>7, <2>1 DEF Create
  <2>3. TypeOK'
    BY <1>0, <1>1, <1>2, <1>4, <1>7, <2>2 DEF TypeOK, Create
  <2>4. Waited'
    BY <1>0, <1>1, <1>2, <1>3, <1>7, <2>1 DEF Waited, Create, TypeOK
  <2> QED  BY <2>2, <2>3, <2>4 DEF Inv
<1>8. CASE Multiply0
  <2>1. CASE num_threads = 0
    <3>1. UNCHANGED <<next, C>> /\ at' = "crashed" /\ i' = i
      BY <1>8, <2>1 DEF Multiply0
    <3>2. TypeOK' /\ Waited'
      BY <1>0, <1>1, <1>2, <1>4, <1>6, <3>1 DEF TypeOK, Waited
    <3> QED  BY <1>6, <3>1, <3>2 DEF Inv
  <2>2. CASE num_threads # 0
    <3>1. /\ next' = [next EXCEPT ![0] = Bound(0)] /\ at' = "multiply"
          /\ UNCHANGED <<i, C>> /\ at = "create"
      BY <1>8, <2>2 DEF Multiply0
    <3>2. next[0] = -1
      BY <1>0, <1>3, <3>1 DEF Waited, Slice
    <3>3. next' \in [Slice -> -1..SIZE] /\ Computed' /\ Within'
      BY <1>5, <2>2, <3>1, <3>2 DEF Slice
    <3>4. TypeOK' /\ Waited'
      BY <1>0, <1>1, <1>2, <1>4, <2>2, <3>1, <3>3 DEF TypeOK, Waited
    <3> QED  BY <3>3, <3>4 DEF Inv
  <2> QED  BY <2>1, <2>2
<1>9. CASE CreateFails
  <2>1. UNCHANGED <<next, C, i>> /\ at' = "failed"
    BY <1>9 DEF CreateFails
  <2>2. TypeOK' /\ Waited'
    BY <1>0, <1>1, <1>2, <1>4, <1>6, <2>1 DEF TypeOK, Waited
  <2> QED  BY <1>6, <2>1, <2>2 DEF Inv
<1>10. CASE EndMultiply0
  <2>1. /\ UNCHANGED <<next, C>> /\ at = "multiply" /\ at' = "join" /\ i' = 0
        /\ Finished(0)
    BY <1>10 DEF EndMultiply0
  <2>2. TypeOK'
    BY <1>0, <1>1, <1>2, <1>4, <1>6, <2>1 DEF TypeOK
  <2>3. Finished(0)' /\ num_threads # 0
    BY <1>0, <1>3, <1>6, <2>1 DEF Slice, Waited
  <2>4. Waited'
    BY <1>1, <2>1, <2>3 DEF Waited
  <2> QED  BY <1>6, <2>1, <2>2, <2>4 DEF Inv
<1>11. CASE Join0
  <2>1. /\ UNCHANGED <<next, C>> /\ at = "join" /\ i = 0
        /\ \/ i' = 1 /\ at' = at
           \/ at' = "crashed" /\ i' = i
    BY <1>11 DEF Join0
  <2>2. TypeOK'
    BY <1>0, <1>1, <1>2, <1>4, <1>6, <2>1 DEF TypeOK
  <2>3. Finished(0)' /\ num_threads # 0
    BY <1>0, <1>3, <1>6, <2>1 DEF Slice, Waited
  <2>4. Waited'
    BY <1>1, <2>1, <2>3 DEF Waited
  <2> QED  BY <1>6, <2>1, <2>2, <2>4 DEF Inv
<1>12. CASE Join
  <2>1. /\ UNCHANGED <<next, C, at>> /\ at = "join" /\ i' = i + 1
        /\ i > 0 /\ i < num_threads /\ Finished(i)
    BY <1>12 DEF Join
  <2>2. TypeOK'
    BY <1>0, <1>1, <1>2, <1>4, <1>6, <2>1 DEF TypeOK
  <2>3. Finished(0)' /\ num_threads # 0
    BY <1>0, <1>3, <1>6, <2>1 DEF Slice, Waited
  <2>4. ASSUME NEW s \in 1..i, s \in Slice PROVE Finished(s)'
    <3>1. Finished(s)
      BY <1>0, <2>1, <2>4 DEF Waited, TypeOK
    <3> QED  BY <1>6, <2>1, <2>4, <3>1
  <2>5. Waited'
    BY <1>0, <1>1, <1>2, <2>1, <2>3, <2>4 DEF Waited, TypeOK
  <2> QED  BY <1>6, <2>1, <2>2, <2>5 DEF Inv
<1>13. CASE Finish
  <2>1. /\ UNCHANGED <<next, C, i>> /\ at = "join" /\ at' = "done" /\ i >= num_threads
    BY <1>13 DEF Finish
  <2>2. TypeOK'
    BY <1>0, <1>1, <1>2, <1>4, <1>6, <2>1 DEF TypeOK
  <2>3. Finished(0)' /\ num_threads # 0
    BY <1>0, <1>3, <1>6, <2>1 DEF Slice, Waited
  <2>4. ASSUME NEW s \in Slice PROVE Finished(s)'
    <3>1. Finished(s)
      BY <1>0, <2>1 DEF Waited, Slice, TypeOK
    <3> QED  BY <1>6, <2>1, <3>1
  <2>5. Waited'
    BY <1>1, <1>2, <2>1, <2>3, <2>4 DEF Waited
  <2> QED  BY <1>6, <2>1, <2>2, <2>5 DEF Inv
<1>14. ASSUME NEW s \in Slice, ComputeRow(s) PROVE Inv'
  <2>1. /\ next[s] \in -1..SIZE /\ next[s] >= 0 /\ ~Finished(s)
        /\ at \notin {"done", "failed", "crashed"}
        /\ C' = [C EXCEPT ![next[s]] = @ \cup {s}]
        /\ next' = [next EXCEPT ![s] = @ + 1]
        /\ UNCHANGED <<at, i>>
    BY <1>0, <1>14 DEF ComputeRow, TypeOK, Ended
  <2>2. num_threads \in Nat \ {0}
    <3>1. num_threads # 0
      <4> SUFFICES ASSUME num_threads = 0 PROVE FALSE
        OBVIOUS
      <4>1. s = 0 /\ at = "create"
        BY <1>0, <2>1 DEF Slice, Waited
      <4> QED  BY <1>0, <2>1, <4>1 DEF Waited
    <3>2. ~(num_threads < 0)
      <4> SUFFICES ASSUME num_threads < 0 PROVE FALSE
        BY <1>0
      <4>1. s = 0 /\ Bound(1) \in Int /\ Bound(1) <= 0
        BY <1>0, FewThreads
      <4> QED  BY <2>1, <4>1 DEF Finished
    <3> QED  BY <1>0, <3>1, <3>2
  <2>3. /\ Bound(s) \in 0..SIZE /\ Bound(s + 1) \in 0..SIZE
        /\ Bound(s) <= next[s] /\ next[s] < Bound(s + 1)
    <3>1. Bound(s) \in 0..SIZE /\ Bound(s + 1) \in 0..SIZE
      BY <2>2, BoundRange DEF Slice
    <3>2. Bound(s) <= next[s]
      BY <1>0, <2>1 DEF Within
    <3> QED  BY <2>1, <3>1, <3>2 DEF Finished
  <2>4. next[s] \in Row
    BY <1>0, <2>1, <2>3 DEF Row
  <2>5. TypeOK'
    BY <1>0, <1>1, <1>2, <1>4, <2>1, <2>3, <2>4 DEF TypeOK
  <2>6. Computed'
    <3> SUFFICES ASSUME NEW r \in Row, NEW t \in Slice
                 PROVE  t \in C'[r] <=> next'[t] # -1 /\ Bound(t) <= r /\ r < next'[t]
      BY <1>2, <1>3, <1>4 DEF Computed
    <3>1. t \in C[r] <=> next[t] # -1 /\ Bound(t) <= r /\ r < next[t]
      BY <1>0 DEF Computed
    <3>2. C'[r] = IF r = next[s] THEN C[r] \cup {s} ELSE C[r]
      BY <1>0, <2>1, <2>4 DEF TypeOK
    <3>3. CASE t = s
      <4>1. next'[t] = next[s] + 1
        BY <1>0, <2>1, <3>3 DEF TypeOK
      <4>2. r \in Int
        BY <1>0 DEF Row
      <4> QED  BY <2>1, <2>3, <3>1, <3>2, <3>3, <4>1, <4>2
    <3>4. CASE t # s
      <4>1. next'[t] = next[t]
        BY <1>0, <2>1, <3>4 DEF TypeOK
      <4> QED  BY <3>1, <3>2, <3>4, <4>1
    <3> QED  BY <3>3, <3>4
  <2>7. Within'
    <3> SUFFICES ASSUME NEW t \in Slice
                 PROVE  \/ next'[t] = -1
                        \/ /\ Bound(t) <= next'[t]
                           /\ num_threads > 0 => next'[t] <= Bound(t + 1)
      BY <1>1, <1>2, <1>3 DEF Within
    <3>1. CASE t = s
      BY <1>0, <2>1, <2>3, <3>1 DEF TypeOK
    <3>2. CASE t # s
      BY <1>0, <2>1, <3>2 DEF Within, TypeOK
    <3> QED  BY <3>1, <3>2
  <2>8. ASSUME NEW t \in Slice, Finished(t) PROVE Finished(t)'
    <3>1. t # s
      BY <2>1, <2>8
    <3>2. next'[t] = next[t]
      BY <1>0, <2>1, <3>1 DEF TypeOK
    <3> QED  BY <1>2, <1>3, <2>8, <3>2 DEF Finished
  <2>9. ASSUME NEW t \in Slice, next[t] = -1 PROVE next'[t] = -1
    BY <1>0, <2>1, <2>9 DEF TypeOK
  <2>10. Waited'
    <3>1. at = "create" => i' >= 1 /\ \A t \in Slice : (t = 0 \/ t >= i) => next'[t] = -1
      BY <1>0, <2>1, <2>9 DEF Waited
    <3>2. at \in {"join", "done"} => Finished(0)'
      BY <1>0, <1>3, <2>8 DEF Waited, Slice
    <3>3. at = "join" => \A t \in 1..(i - 1) : t \in Slice => Finished(t)'
      BY <1>0, <2>8 DEF Waited
    <3> QED  BY <1>1, <1>2, <2>1, <2>2, <3>1, <3>2, <3>3 DEF Waited
  <2> QED  BY <2>5, <2>6, <2>7, <2>10 DEF Inv
<1>15. CASE UNCHANGED vars
  <2>1. UNCHANGED <<num_threads, at, i, next, C>>
    BY <1>15 DEF vars
  <2>2. TypeOK'
    BY <1>0, <1>2, <1>4, <2>1 DEF TypeOK
  <2>3. Finished(0)' <=> Finished(0)
    BY <1>6, <2>1 DEF Slice
  <2>4. Waited'
    BY <1>0, <1>2, <1>6, <2>1, <2>3 DEF Waited
  <2> QED  BY <1>6, <2>1, <2>2, <2>4 DEF Inv
<1> QED  BY <1>7, <1>8, <1>9, <1>10, <1>11, <1>12, <1>13, <1>14, <1>15 DEF Next, Main

-----------------------------------------------------------------------------
(* The theorems *)

\* Every reachable state satisfies the invariant.
LEMMA Invariance == Spec => []Inv
BY InvInit, InvNext, PTL DEF Spec

\* Types, for every size and number of threads: no thread leaves the matrix.
THEOREM TypeCorrect == Spec => []TypeOK
BY Invariance, PTL DEF Inv

\* No row is computed twice, for every size and number of threads.
THEOREM OneSlicePerRow == Spec => []RowOfOneSlice
<1>1. Inv => RowOfOneSlice
  <2> SUFFICES ASSUME Inv, NEW r \in Row, NEW s \in C[r], NEW t \in C[r] PROVE s = t
    BY DEF RowOfOneSlice
  <2>1. s \in Slice /\ t \in Slice
    BY DEF Inv, TypeOK
  <2>2. CASE num_threads > 0
    <3>1. num_threads \in Nat \ {0} /\ s \in Nat /\ t \in Nat /\ r \in Int
      BY <2>1, <2>2, MatMulAssumption DEF Inv, TypeOK, Slice, Row
    <3>2. /\ Bound(s) \in 0..SIZE /\ Bound(t) \in 0..SIZE
          /\ Bound(s + 1) \in 0..SIZE /\ Bound(t + 1) \in 0..SIZE
      BY <2>1, <3>1, SliceBounds
    <3>3. next[s] \in -1..SIZE /\ next[t] \in -1..SIZE
      BY <2>1 DEF Inv, TypeOK
    <3>4. /\ next[s] # -1 /\ Bound(s) <= r /\ r < next[s]
          /\ next[t] # -1 /\ Bound(t) <= r /\ r < next[t]
      BY <2>1 DEF Inv, Computed
    <3>5. next[s] <= Bound(s + 1) /\ next[t] <= Bound(t + 1)
      BY <2>1, <2>2, <3>4 DEF Inv, Within
    <3>6. r < Bound(s + 1) /\ r < Bound(t + 1)
      BY <3>1, <3>2, <3>3, <3>4, <3>5, MatMulAssumption
    <3> QED  BY <3>1, <3>4, <3>6, SlicesDisjoint
  <2>3. CASE ~(num_threads > 0)
    BY <2>1, <2>3, MatMulAssumption DEF Slice, Inv, TypeOK
  <2> QED  BY <2>2, <2>3
<1> QED  BY <1>1, Invariance, PTL

\* Once all rows are computed the product is complete.
LEMMA ProductDone == Inv => DoneMeansProduct
<1> SUFFICES ASSUME Inv, at = "done", num_threads > 0, NEW r \in Row PROVE C[r] # {}
  BY DEF DoneMeansProduct
<1>1. num_threads \in Nat \ {0}
  BY MatMulAssumption DEF Inv, TypeOK
<1>2. PICK s \in Slice : Bound(s) <= r /\ r < Bound(s + 1)
  BY <1>1, SlicesCover
<1>3. Finished(s) /\ next[s] \in -1..SIZE /\ Bound(s + 1) \in 0..SIZE /\ r \in Nat
  BY <1>1, SliceBounds, MatMulAssumption DEF Inv, Waited, TypeOK, Row
<1>4. next[s] # -1 /\ r < next[s]
  BY <1>2, <1>3, MatMulAssumption DEF Finished
<1> QED  BY <1>2, <1>4 DEF Inv, Computed

\* main prints a complete product, for every size and number of threads.
THEOREM CompleteProduct == Spec => []DoneMeansProduct
BY ProductDone, Invariance, PTL

-----------------------------------------------------------------------------
(* The digits *)

\* The numbers whose digits are looked at.
Printed == 0..2999
TwoDigit == 10..99
ThreeDigit == 100..999
FourDigit == 1000..2999

\* What the definition of Digits says of a function f.
Digit1(f, n) == IF n < 10 THEN <<n>> ELSE Append(f[n \div 10], n % 10)

\* There is such a function: on 0..n, for one n after the other.
LEMMA DigitsExist == \E f : f = [n \in Printed |-> Digit1(f, n)]
<1> DEFINE Good(n) == \E f : f = [k \in 0..n |-> Digit1(f, k)]
           S == {n \in Nat : Good(n)}
<1>1. Good(0)
  <2> DEFINE g == [k \in 0..0 |-> <<k>>]
  <2>1. g = [k \in 0..0 |-> Digit1(g, k)]
    BY DEF Digit1
  <2> QED  BY <2>1
<1>2. ASSUME NEW n \in Nat, Good(n) PROVE Good(n + 1)
  <2>1. PICK f : f = [k \in 0..n |-> Digit1(f, k)]
    BY <1>2
  <2> DEFINE g == [k \in 0..(n + 1) |-> IF k \in 0..n THEN f[k] ELSE Digit1(f, k)]
  <2>2. ASSUME NEW k \in 0..(n + 1) PROVE g[k] = Digit1(f, k)
    BY <2>1
  <2>3. ASSUME NEW k \in 0..(n + 1) PROVE Digit1(f, k) = Digit1(g, k)
    <3>1. k < 10 \/ k \div 10 \in 0..n
      OBVIOUS
    <3>2. k < 10 \/ g[k \div 10] = f[k \div 10]
      BY <3>1
    <3> HIDE DEF g
    <3> QED  BY <3>2 DEF Digit1
  <2>4. g = [k \in 0..(n + 1) |-> g[k]]
    OBVIOUS
  <2> HIDE DEF g
  <2>5. g = [k \in 0..(n + 1) |-> Digit1(g, k)]
    BY <2>2, <2>3, <2>4
  <2> QED  BY <2>5
<1> HIDE DEF Good
<1>3. 0 \in S /\ \A n \in S : n + 1 \in S
  BY <1>1, <1>2
<1>4. S = Nat
  BY <1>3, NaturalStep
<1>5. \A n \in Nat : Good(n)
  BY <1>4
<1>6. Good(2999)
  BY ONLY <1>5
<1> QED  BY <1>6, Zenon DEF Good, Printed

\* A function defined by itself has the values it is defined to have.
LEMMA Digit1Applied ==
    ASSUME NEW S, NEW f, f = [k \in S |-> Digit1(f, k)], NEW n \in S
    PROVE  f[n] = Digit1(f, n)
BY Zenon

\* Digits is such a function.
LEMMA DigitsIs == ASSUME NEW n \in Printed PROVE Digit!Digits[n] = Digit1(Digit!Digits, n)
<1> DEFINE Right(f) == f = [k \in Printed |-> Digit1(f, k)]
           D == CHOOSE f : Right(f)
<1>1. Digit!Digits = D
  BY DEF Digit!Digits, Digit1, Printed
<1>2. Right(D)
  <2>1. \E f : Right(f)
    BY DigitsExist, Zenon
  <2> HIDE DEF Right
  <2> QED  BY <2>1, Zenon
<1> HIDE DEF D
<1>3. D[n] = Digit1(D, n)
  BY <1>2, Digit1Applied, Zenon
<1> QED  BY <1>1, <1>3, Zenon

\* What division by ten leaves of a number, and its last digit.
LEMMA LastDigit ==
    ASSUME NEW n \in Nat
    PROVE  /\ n \div 10 \in Nat /\ n % 10 \in 0..9
           /\ n = 10 * (n \div 10) + (n % 10)
OBVIOUS

\* A number of one digit, and one of more.
LEMMA OneDigit ==
    ASSUME NEW n \in 0..9
    PROVE  LET s == Digit!Digits[n] IN s \in Seq(0..9) /\ Len(s) = 1 /\ s[1] = n
<1>1. n \in Printed /\ n < 10
  BY DEF Printed
<1>2. Digit!Digits[n] = Digit1(Digit!Digits, n)
  BY <1>1, DigitsIs
<1>3. Digit!Digits[n] = <<n>>
  BY <1>1, <1>2 DEF Digit1
<1> QED  BY <1>3

\* A number of several digits is the number before its last digit, and that digit.
LEMMA AppendsLast ==
    ASSUME NEW f, NEW n, ~(n < 10)
    PROVE  Digit1(f, n) = Append(f[n \div 10], n % 10)
BY Zenon DEF Digit1

\* The digits of a number are those of the number without the last one, and it.
LEMMA MoreDigits ==
    ASSUME NEW n \in Printed, n >= 10
    PROVE  n % 10 \in 0..9 /\ Digit!Digits[n] = Append(Digit!Digits[n \div 10], n % 10)
<1>1. n \in Nat /\ n % 10 \in 0..9 /\ ~(n < 10)
  BY LastDigit DEF Printed
<1>2. Digit1(Digit!Digits, n) = Append(Digit!Digits[n \div 10], n % 10)
  BY <1>1, AppendsLast
<1> QED  BY <1>1, <1>2, DigitsIs

\* A digit behind a sequence of digits leaves those before where they are.
LEMMA AppendedDigit ==
    ASSUME NEW r \in Seq(0..9), NEW o \in 0..9
    PROVE  /\ Append(r, o) \in Seq(0..9) /\ Len(Append(r, o)) = Len(r) + 1
           /\ \A k \in 1..Len(r) : Append(r, o)[k] = r[k]
           /\ Append(r, o)[Len(r) + 1] = o
BY AppendProperties

\* The digits of numbers with two, three and four.
LEMMA TwoDigitsAre ==
    ASSUME NEW n \in TwoDigit
    PROVE  LET s == Digit!Digits[n]
           IN  s \in Seq(0..9) /\ Len(s) = 2 /\ s[1] = n \div 10 /\ s[2] = n % 10
<1> DEFINE m == n \div 10
<1>1. n \in Printed /\ n >= 10 /\ m \in 0..9
  BY LastDigit DEF Printed, TwoDigit, ThreeDigit, FourDigit
<1> DEFINE o == n % 10
           s == Digit!Digits[n]
           r == Digit!Digits[m]
<1>2. o \in 0..9 /\ s = Append(r, o) /\ m = n \div 10 /\ o = n % 10
  BY <1>1, MoreDigits, Zenon
<1> HIDE DEF m, o
<1>3. r \in Seq(0..9) /\ Len(r) = 1 /\ r[1] = m
  BY <1>1, OneDigit, Zenon
<1> HIDE DEF s, r
<1>4. /\ Append(r, o) \in Seq(0..9) /\ Len(Append(r, o)) = Len(r) + 1
      /\ \A k \in 1..Len(r) : Append(r, o)[k] = r[k]
      /\ Append(r, o)[Len(r) + 1] = o
  BY <1>2, <1>3, AppendedDigit, Zenon
<1>5. s \in Seq(0..9) /\ Len(s) = 2 /\ s[1] = m /\ s[2] = o
  BY <1>2, <1>3, <1>4
<1> QED  BY <1>2, <1>5 DEF s, m, o

\* Those of three.
LEMMA ThreeDigitsAre ==
    ASSUME NEW n \in ThreeDigit
    PROVE  LET s == Digit!Digits[n]
               m == n \div 10
           IN  /\ s \in Seq(0..9) /\ Len(s) = 3
               /\ s[1] = m \div 10 /\ s[2] = m % 10 /\ s[3] = n % 10
<1> DEFINE m == n \div 10
<1>1. n \in Printed /\ n >= 10 /\ m \in TwoDigit
  BY LastDigit DEF Printed, TwoDigit, ThreeDigit, FourDigit
<1> DEFINE o == n % 10
           s == Digit!Digits[n]
           r == Digit!Digits[m]
<1>2. o \in 0..9 /\ s = Append(r, o) /\ m = n \div 10 /\ o = n % 10
  BY <1>1, MoreDigits, Zenon
<1> HIDE DEF m, o
<1>3. r \in Seq(0..9) /\ Len(r) = 2 /\ r[1] = m \div 10 /\ r[2] = m % 10
  BY <1>1, TwoDigitsAre, Zenon
<1> HIDE DEF s, r
<1>4. /\ Append(r, o) \in Seq(0..9) /\ Len(Append(r, o)) = Len(r) + 1
      /\ \A k \in 1..Len(r) : Append(r, o)[k] = r[k]
      /\ Append(r, o)[Len(r) + 1] = o
  BY <1>2, <1>3, AppendedDigit, Zenon
<1>5. /\ s \in Seq(0..9) /\ Len(s) = 3
      /\ s[1] = m \div 10 /\ s[2] = m % 10 /\ s[3] = o
  BY <1>2, <1>3, <1>4
<1> QED  BY <1>2, <1>5 DEF s, m, o

\* The part of this that four digits rest on.
LEMMA ThreeDigitsLength ==
    ASSUME NEW n \in ThreeDigit
    PROVE  Digit!Digits[n] \in Seq(0..9) /\ Len(Digit!Digits[n]) = 3
BY ThreeDigitsAre, Zenon

\* Those of four.
LEMMA FourDigitsAre ==
    ASSUME NEW n \in FourDigit
    PROVE  LET s == Digit!Digits[n] IN s \in Seq(0..9) /\ Len(s) = 4
<1> DEFINE m == n \div 10
<1>1. n \in Printed /\ n >= 10 /\ m \in ThreeDigit
  <2>1. n \in 1000..2999
    BY DEF FourDigit
  <2>2. m \in 100..999
    <3>1. m \in Nat /\ n % 10 \in 0..9 /\ n = 10 * m + (n % 10)
      BY <2>1, LastDigit
    <3> DEFINE o == n % 10
    <3> HIDE DEF m, o
    <3>2. m \in Nat /\ o \in 0..9 /\ n = 10 * m + o
      BY <3>1 DEF o
    <3> QED  BY ONLY <2>1, <3>2
  <2>3. n \in 0..2999 /\ n >= 10
    BY <2>1
  <2> HIDE DEF m
  <2> QED  BY <2>2, <2>3 DEF Printed, ThreeDigit
<1> DEFINE o == n % 10
           s == Digit!Digits[n]
           r == Digit!Digits[m]
<1>2. o \in 0..9 /\ s = Append(r, o) /\ m = n \div 10 /\ o = n % 10
  BY <1>1, MoreDigits, Zenon
<1> HIDE DEF m, o
<1>3. r \in Seq(0..9) /\ Len(r) = 3
  BY <1>1, ThreeDigitsLength, Zenon
<1> HIDE DEF s, r
<1>4. /\ Append(r, o) \in Seq(0..9) /\ Len(Append(r, o)) = Len(r) + 1
      /\ \A k \in 1..Len(r) : Append(r, o)[k] = r[k]
      /\ Append(r, o)[Len(r) + 1] = o
  BY <1>2, <1>3, AppendedDigit, Zenon
<1>5. s \in Seq(0..9) /\ Len(s) = 4
  BY <1>2, <1>3, <1>4
<1> QED  BY <1>5 DEF s

-----------------------------------------------------------------------------
(* The strings that are searched *)

\* What is at a place of the strings.
LEMMA PartUp ==
    ASSUME NEW l \in 2..4, NEW k \in 0..(10 - l)
    PROVE  LET part == SubSeq(Digit!base_string1, k + 1, k + l)
           IN  DOMAIN part = 1..l /\ \A n \in 1..l : part[n] = k + n - 1
BY DEF Digit!base_string1

\* The second string descends.
LEMMA PartDown ==
    ASSUME NEW l \in 2..4, NEW k \in 0..(10 - l)
    PROVE  LET part == SubSeq(Digit!base_string2, k + 1, k + l)
           IN  DOMAIN part = 1..l /\ \A n \in 1..l : part[n] = 10 - (k + n)
BY DEF Digit!base_string2

\* Both strings have the ten digits.
LEMMA Lengths == Len(Digit!base_string1) = 10 /\ Len(Digit!base_string2) = 10
BY DEF Digit!base_string1, Digit!base_string2

\* A sequence of two to four digits is in the first string if each is one more
\* than the one before, in the second if each is one less.
LEMMA FoundUp ==
    ASSUME NEW s \in Seq(0..9), Len(s) \in 2..4
    PROVE  Digit!strstr(Digit!base_string1, s)
           <=> \A n \in 1..(Len(s) - 1) : s[n + 1] = s[n] + 1
<1> DEFINE l == Len(s)
           part(k) == SubSeq(Digit!base_string1, k + 1, k + l)
           up == \A n \in 1..(l - 1) : s[n + 1] = s[n] + 1
<1>1. l \in 2..4 /\ DOMAIN s = 1..l /\ \A n \in 1..l : s[n] \in 0..9
  OBVIOUS
<1>2. Digit!strstr(Digit!base_string1, s) <=> \E k \in 0..(10 - l) : part(k) = s
  BY Lengths DEF Digit!strstr
<1>3. ASSUME NEW k \in 0..(10 - l)
      PROVE  DOMAIN part(k) = 1..l /\ \A n \in 1..l : part(k)[n] = k + n - 1
  BY <1>1, PartUp
<1>4. ASSUME NEW k \in 0..(10 - l) PROVE part(k) = [n \in 1..l |-> part(k)[n]]
  BY <1>1
<1>5. s = [n \in 1..l |-> s[n]]
  BY <1>1
<1> HIDE DEF l, part
<1>6. ASSUME NEW k \in 0..(10 - l), part(k) = s PROVE up
  <2>1. \A n \in 1..l : s[n] = k + n - 1
    BY <1>3, <1>6
  <2> QED  BY <1>1, <2>1
<1>7. ASSUME up PROVE \E k \in 0..(10 - l) : part(k) = s
  <2> DEFINE k == s[1]
  <2>1. \A n \in 1..l : s[n] = k + n - 1
    BY <1>1, <1>7
  <2>2. k \in 0..(10 - l)
    BY ONLY <1>1, <2>1
  <2>3. part(k) = s
    BY <1>1, <1>3, <1>4, <1>5, <2>1, <2>2
  <2> QED  BY <2>2, <2>3
<1> QED  BY <1>2, <1>6, <1>7 DEF l

\* The same of the second string.
LEMMA FoundDown ==
    ASSUME NEW s \in Seq(0..9), Len(s) \in 2..4
    PROVE  Digit!strstr(Digit!base_string2, s)
           <=> \A n \in 1..(Len(s) - 1) : s[n + 1] = s[n] + (-1)
<1> DEFINE l == Len(s)
           part(k) == SubSeq(Digit!base_string2, k + 1, k + l)
           down == \A n \in 1..(l - 1) : s[n + 1] = s[n] + (-1)
<1>1. l \in 2..4 /\ DOMAIN s = 1..l /\ \A n \in 1..l : s[n] \in 0..9
  OBVIOUS
<1>2. Digit!strstr(Digit!base_string2, s) <=> \E k \in 0..(10 - l) : part(k) = s
  BY Lengths DEF Digit!strstr
<1>3. ASSUME NEW k \in 0..(10 - l)
      PROVE  DOMAIN part(k) = 1..l /\ \A n \in 1..l : part(k)[n] = 10 - (k + n)
  BY <1>1, PartDown
<1>4. ASSUME NEW k \in 0..(10 - l) PROVE part(k) = [n \in 1..l |-> part(k)[n]]
  BY <1>1
<1>5. s = [n \in 1..l |-> s[n]]
  BY <1>1
<1> HIDE DEF l, part
<1>6. ASSUME NEW k \in 0..(10 - l), part(k) = s PROVE down
  <2>1. \A n \in 1..l : s[n] = 10 - (k + n)
    BY <1>3, <1>6
  <2> QED  BY <1>1, <2>1
<1>7. ASSUME down PROVE \E k \in 0..(10 - l) : part(k) = s
  <2> DEFINE k == 9 - s[1]
  <2>1. \A n \in 1..l : s[n] = 10 - (k + n)
    <3>1. 1 \in 1..l /\ 2 \in 1..l /\ s[1] \in 0..9 /\ k \in 0..9
      BY <1>1
    <3>2. s[1] = 9 - k /\ s[2] = 8 - k
      BY <1>1, <1>7, <3>1
    <3>3. l >= 3 => s[3] = 7 - k
      BY <1>1, <1>7, <3>2
    <3>4. l >= 4 => s[4] = 6 - k
      BY <1>1, <1>7, <3>3
    <3> HIDE DEF k
    <3> QED  BY ONLY <1>1, <3>1, <3>2, <3>3, <3>4
  <2>2. k \in 0..(10 - l)
    <3>1. l \in 1..l /\ 1 \in 1..l
      BY <1>1
    <3>2. s[l] \in 0..9 /\ s[l] = 10 - (k + l) /\ s[1] \in 0..9
      BY <1>1, <2>1, <3>1
    <3> QED  BY <1>1, <3>2
  <2>3. part(k) = s
    BY <1>1, <1>3, <1>4, <1>5, <2>1, <2>2
  <2> QED  BY <2>2, <2>3
<1> QED  BY <1>2, <1>6, <1>7 DEF l

\* A member of a sequence of digits is one.
LEMMA EachADigit == ASSUME NEW s \in Seq(0..9) PROVE \A k \in 1..Len(s) : s[k] \in 0..9
OBVIOUS

\* The numbers of the loops have two, three or four digits.
LEMMA DigitsOfAll ==
    ASSUME NEW n, n \in TwoDigit \/ n \in ThreeDigit \/ n \in FourDigit
    PROVE  LET s == Digit!Digits[n]
           IN  s \in Seq(0..9) /\ (Len(s) = 2 \/ Len(s) = 3 \/ Len(s) = 4)
BY TwoDigitsAre, ThreeDigitsLength, FourDigitsAre, Zenon

\* A run is a sequence whose digits go up, or down.
LEMMA RunGoes ==
    ASSUME NEW n
    PROVE  Digit!Run(n) <=>
               \/ \A k \in 1..(Len(Digit!Digits[n]) - 1) :
                      Digit!Digits[n][k + 1] = Digit!Digits[n][k] + 1
               \/ \A k \in 1..(Len(Digit!Digits[n]) - 1) :
                      Digit!Digits[n][k + 1] = Digit!Digits[n][k] + (-1)
BY DEF Digit!Run

\* patten_matching.c matches the numbers whose digits are a run.
LEMMA MatchesRuns ==
    ASSUME NEW n, n \in TwoDigit \/ n \in ThreeDigit \/ n \in FourDigit
    PROVE  Digit!match_string(n) <=> Digit!Run(n)
<1> DEFINE s == Digit!Digits[n]
<1>1. s \in Seq(0..9) /\ Len(s) \in 2..4
  BY DigitsOfAll
<1>2. Digit!match_string(n) <=> \/ Digit!strstr(Digit!base_string1, s)
                                \/ Digit!strstr(Digit!base_string2, s)
  BY DEF Digit!match_string
<1>3. Digit!Run(n) <=> \/ \A k \in 1..(Len(s) - 1) : s[k + 1] = s[k] + 1
                       \/ \A k \in 1..(Len(s) - 1) : s[k + 1] = s[k] + (-1)
  BY RunGoes
<1> HIDE DEF s
<1> QED  BY <1>1, <1>2, <1>3, FoundUp, FoundDown

\* Runs of two and of three digits.
LEMMA RunsOfTwo ==
    ASSUME NEW n \in TwoDigit, NEW m, m = n \div 10, NEW o, o = n % 10
    PROVE  Digit!Run(n) <=> o = m + 1 \/ o = m - 1
<1> DEFINE s == Digit!Digits[n]
<1>1. s \in Seq(0..9) /\ Len(s) = 2 /\ s[1] = m /\ s[2] = o
  BY TwoDigitsAre, Zenon
<1>2. Digit!Run(n) <=> \/ \A k \in 1..(Len(s) - 1) : s[k + 1] = s[k] + 1
                       \/ \A k \in 1..(Len(s) - 1) : s[k + 1] = s[k] + (-1)
  BY RunGoes
<1> HIDE DEF s
<1>3. m \in 0..9 /\ o \in 0..9
  <2>1. \A k \in 1..Len(s) : s[k] \in 0..9
    BY <1>1, EachADigit, Zenon
  <2> QED  BY ONLY <1>1, <2>1
<1>4. Digit!Run(n) <=> s[2] = s[1] + 1 \/ s[2] = s[1] + (-1)
  BY ONLY <1>1, <1>2
<1> QED  BY ONLY <1>1, <1>3, <1>4

\* Runs of three.
LEMMA RunsOfThree ==
    ASSUME NEW n \in ThreeDigit, NEW m, m = n \div 10,
           NEW h, h = m \div 10, NEW d, d = m % 10, NEW o, o = n % 10
    PROVE  Digit!Run(n) <=> \/ o = d + 1 /\ d = h + 1
                            \/ o = d - 1 /\ d = h - 1
<1> DEFINE s == Digit!Digits[n]
<1>1. s \in Seq(0..9) /\ Len(s) = 3 /\ s[1] = h /\ s[2] = d /\ s[3] = o
  BY ThreeDigitsAre, Zenon
<1>2. Digit!Run(n) <=> \/ \A k \in 1..(Len(s) - 1) : s[k + 1] = s[k] + 1
                       \/ \A k \in 1..(Len(s) - 1) : s[k + 1] = s[k] + (-1)
  BY RunGoes
<1> HIDE DEF s
<1>3. h \in 0..9 /\ d \in 0..9 /\ o \in 0..9
  <2>1. \A k \in 1..Len(s) : s[k] \in 0..9
    BY <1>1, EachADigit, Zenon
  <2> QED  BY ONLY <1>1, <2>1
<1>4. Digit!Run(n) <=> \/ s[2] = s[1] + 1 /\ s[3] = s[2] + 1
                       \/ s[2] = s[1] + (-1) /\ s[3] = s[2] + (-1)
  BY ONLY <1>1, <1>2
<1> QED  BY ONLY <1>1, <1>3, <1>4

-----------------------------------------------------------------------------
(* The programs *)

\* The numbers start as they should.
LEMMA NumbersInit == Digit!Init => Digit!NumbersRight
<1> SUFFICES ASSUME Digit!Init PROVE Digit!NumbersRight
  OBVIOUS
<1>1. 0 \in Digit!Shorter(31)
  BY DEF Digit!Shorter
<1> QED  BY <1>1 DEF Digit!Init, Digit!NumbersRight, Digit!TypeOK, Digit!PatternPrintsRest,
                     Digit!TopLeavesShortRunsOut

\* What a number can become the next one can become too.
LEMMA ShorterNext ==
    ASSUME NEW n \in Nat, NEW k, k \in Digit!Shorter(n)
    PROVE  k \in Digit!Shorter(n + 1)
<1>1. n \div 10 \in Nat /\ n \div 10 <= (n + 1) \div 10 /\ (n + 1) \div 10 \in Nat
  OBVIOUS
<1> QED  BY <1>1 DEF Digit!Shorter

\* A digit less, or one more less.
LEMMA ShorterIs ==
    ASSUME NEW n \in Nat
    PROVE  /\ n \div 10 \in Digit!Shorter(n)
           /\ \A k \in Digit!Shorter(n) : k \in Nat /\ k \div 10 \in Digit!Shorter(n)
<1>1. n \div 10 \in Nat
  OBVIOUS
<1>2. ASSUME NEW k \in Nat PROVE k \div 10 \in Nat /\ k \div 10 <= k
  OBVIOUS
<1> DEFINE m == n \div 10
<1>3. Digit!Shorter(n) = 0..m
  BY DEF Digit!Shorter
<1> HIDE DEF m
<1> QED  BY <1>1, <1>2, <1>3 DEF m

\* What a step leaves of the variables.
LEMMA NumbersGo ==
    ASSUME Digit!TypeOK, number < 3000, NEW left \in BOOLEAN, Digit!Goes(left),
           digits' \in Digit!Shorter(number)
    PROVE  /\ Digit!TypeOK' /\ program' = program /\ number' = number + 1
           /\ last'.num = number /\ (last'.printed <=> ~left)
<1>1. /\ number' = number + 1 /\ program' = program /\ last' = [num |-> number, printed |-> ~left]
      /\ number \in 31..3000
  BY DEF Digit!Goes, Digit!TypeOK
<1>2. last' = [num |-> number, printed |-> ~left]
  BY <1>1
<1>6. last'.num = number
  BY ONLY <1>2
<1>7. last'.printed <=> ~left
  BY ONLY <1>2, left \in BOOLEAN
<1>8. last'.printed \in BOOLEAN
  BY ONLY <1>2, left \in BOOLEAN
<1>3. number' \in 31..3000 /\ last'.num = number' - 1
  BY <1>1, <1>6
<1>4. digits' \in Digit!Shorter(number')
  BY <1>1, ShorterNext
<1>5. Digit!TypeOK'
  BY <1>3, <1>4, <1>8 DEF Digit!TypeOK
<1> QED  BY <1>1, <1>5, <1>6, <1>7

\* A turn of patten_matching.c prints a number just if its digits run up or down.
LEMMA MatchKeeps == ASSUME Digit!NumbersRight, Digit!Match PROVE Digit!NumbersRight'
<1> DEFINE left == Digit!match_string(number)
<1>1. /\ Digit!TypeOK /\ number \in 31..2999 /\ number < 3000 /\ left \in BOOLEAN
      /\ Digit!Goes(left) /\ program = "pattern"
      /\ digits' = digits
  BY DEF Digit!NumbersRight, Digit!Match, Digit!match_string
<1>2. digits' \in Digit!Shorter(number)
  BY <1>1 DEF Digit!TypeOK
<1> HIDE DEF left
<1>3. /\ Digit!TypeOK' /\ program' = program /\ number' = number + 1
      /\ last'.num = number /\ (last'.printed <=> ~left)
  BY <1>1, <1>2, NumbersGo
<1>4. left <=> Digit!Run(number)
  <2>1. number \in TwoDigit \/ number \in ThreeDigit \/ number \in FourDigit
    BY <1>1 DEF TwoDigit, ThreeDigit, FourDigit
  <2> QED  BY <2>1, MatchesRuns DEF left
<1>5. last'.printed <=> ~Digit!Run(last'.num)
  BY <1>3, <1>4
<1>6. Digit!PatternPrintsRest'
  BY <1>5 DEF Digit!PatternPrintsRest
<1>7. Digit!TopLeavesShortRunsOut'
  BY <1>1, <1>3 DEF Digit!TopLeavesShortRunsOut
<1> QED  BY <1>3, <1>6, <1>7 DEF Digit!NumbersRight

\* A turn of the first loop of top.c does so for two digits, which it takes apart.
LEMMA TwoDigitsKeeps == ASSUME Digit!NumbersRight, Digit!TwoDigits PROVE Digit!NumbersRight'
<1> DEFINE m == number \div 10
           o == number % 10
           left == m = o + 1 \/ m = o - 1
<1>1. number \in 31..99 /\ number \in TwoDigit /\ m \in 0..9 /\ o \in 0..9 /\ m % 10 = m
  BY DEF Digit!TwoDigits, TwoDigit
<1>2. Digit!TypeOK /\ program = "top" /\ digits' = m /\ Digit!Goes(left)
  <2>1. /\ digits' = m
        /\ Digit!Goes(m % 10 = o + 1 \/ m % 10 = o + (-1))
    BY DEF Digit!TwoDigits, Digit!Near
  <2>2. (m % 10 = o + 1 \/ m % 10 = o + (-1)) = left
    BY <1>1
  <2> QED  BY <2>1, <2>2 DEF Digit!NumbersRight, Digit!TwoDigits
<1>3. Digit!Run(number) <=> o = m + 1 \/ o = m - 1
  BY <1>1, RunsOfTwo
<1> HIDE DEF o
<1>4. left <=> Digit!Run(number)
  BY <1>1, <1>3
<1>5. left \in BOOLEAN /\ number < 3000 /\ digits' \in Digit!Shorter(number)
  BY <1>1, <1>2, ShorterIs
<1> HIDE DEF left, m
<1>6. /\ Digit!TypeOK' /\ program' = program
      /\ last'.num = number /\ (last'.printed <=> ~left)
  BY <1>2, <1>5, NumbersGo
<1>7. last'.printed <=> ~Digit!Run(last'.num)
  BY <1>4, <1>6
<1>8. Digit!PatternPrintsRest' /\ Digit!TopLeavesShortRunsOut'
  BY <1>7 DEF Digit!PatternPrintsRest, Digit!TopLeavesShortRunsOut
<1> QED  BY <1>6, <1>8 DEF Digit!NumbersRight

\* One of the last loop, for four.
LEMMA FourDigitsKeeps == ASSUME Digit!NumbersRight, Digit!FourDigits PROVE Digit!NumbersRight'
<1>1. Digit!TypeOK /\ program = "top" /\ number \in 1000..2999 /\ digits \in Digit!Shorter(number)
  BY DEF Digit!NumbersRight, Digit!FourDigits, Digit!TypeOK
<1> DEFINE m0 == [temp |-> number % 10, i |-> digits \div 10]
           d  == IF Digit!Near(m0, 1) THEN 1 ELSE -1
           m1 == IF Digit!Near(m0, d) THEN Digit!Off(m0) ELSE m0
           m2 == IF Digit!Near(m0, d) /\ Digit!Near(m1, d) THEN Digit!Off(m1) ELSE m1
           left == Digit!Near(m0, d) /\ Digit!Near(m1, d) /\ Digit!Near(m2, d)
<1>2. digits' = m2.i /\ Digit!Goes(left)
  BY DEF Digit!FourDigits
<1>3. left \in BOOLEAN
  BY DEF Digit!Near
<1>4. m2.i \in Digit!Shorter(number)
  <2> DEFINE fits(k) == k \in Digit!Shorter(number)
  <2>1. ASSUME NEW k, fits(k) PROVE fits(k \div 10)
    <3>1. number \in Nat
      BY <1>1
    <3> QED  BY <2>1, <3>1, ShorterIs, Zenon
  <2> HIDE DEF fits
  <2>2. fits(digits)
    BY <1>1 DEF fits
  <2>3. fits(m0.i)
    BY <2>1, <2>2
  <2>4. fits(m1.i)
    BY <2>1, <2>3 DEF Digit!Off
  <2>5. fits(m2.i)
    <3> HIDE DEF m1
    <3> QED  BY <2>1, <2>4 DEF Digit!Off
  <2> HIDE DEF m2
  <2> QED  BY <2>5 DEF fits
<1> HIDE DEF left, m2
<1>5. digits' \in Digit!Shorter(number) /\ number < 3000
  BY <1>1, <1>2, <1>4
<1>6. /\ Digit!TypeOK' /\ program' = program /\ last'.num = number
  BY <1>1, <1>2, <1>3, <1>5, NumbersGo
<1>7. ~(last'.num \in 31..999) /\ ~(program' = "pattern")
  <2>1. number > 999
    BY <1>1
  <2>2. last'.num > 999
    BY <1>6, <2>1
  <2>3. ASSUME last'.num \in 31..999 PROVE FALSE
    BY <2>2, <2>3
  <2>4. program' # "pattern"
    BY <1>1, <1>6
  <2> QED  BY <2>3, <2>4
<1>8. Digit!PatternPrintsRest' /\ Digit!TopLeavesShortRunsOut'
  BY <1>7 DEF Digit!PatternPrintsRest, Digit!TopLeavesShortRunsOut
<1> QED  BY <1>6, <1>8 DEF Digit!NumbersRight

\* One of the loop between them, for three.
LEMMA ThreeDigitsKeeps == ASSUME Digit!NumbersRight, Digit!ThreeDigits PROVE Digit!NumbersRight'
<1> DEFINE m == number \div 10
           h == m \div 10
           d == m % 10
           o == number % 10
           m0 == [temp |-> o, i |-> m]
           m1 == IF Digit!Near(m0, 1) THEN Digit!Off(m0) ELSE m0
           m2 == IF Digit!Near(m1, -1) THEN Digit!Off(m1) ELSE m1
           down == Digit!Near(m0, 1) /\ Digit!Near(m1, 1)
           up   == Digit!Near(m1, -1) /\ Digit!Near(m2, -1)
           left == down \/ up
<1>1. /\ number \in 100..999 /\ number \in ThreeDigit
      /\ m \in Nat /\ h \in 0..9 /\ d \in 0..9 /\ o \in 0..9 /\ h % 10 = h /\ h \div 10 = 0
  <2>1. number \in 100..999
    BY DEF Digit!ThreeDigits
  <2>2. m \in 10..99 /\ o \in 0..9
    BY <2>1
  <2>3. h \in 0..9 /\ d \in 0..9
    <3> HIDE DEF m
    <3> QED  BY <2>2
  <2>4. h % 10 = h /\ h \div 10 = 0
    <3> HIDE DEF h
    <3> QED  BY <2>3
  <2> HIDE DEF m, h, d, o
  <2> QED  BY <2>1, <2>2, <2>3, <2>4 DEF ThreeDigit
<1>2. /\ Digit!TypeOK /\ program = "top" /\ Digit!Goes(left)
      /\ digits' = IF down THEN m1.i ELSE m2.i
  BY DEF Digit!ThreeDigits, Digit!NumbersRight
<1>3. m1 = (IF d = o + 1 THEN [temp |-> d, i |-> h] ELSE m0) /\ (Digit!Near(m0, 1) <=> d = o + 1)
  BY DEF Digit!Near, Digit!Off
<1>4. m1.i \in Digit!Shorter(number) /\ m2.i \in Digit!Shorter(number)
  <2> DEFINE fits(k) == k \in Digit!Shorter(number)
  <2>1. fits(m) /\ \A k : fits(k) => fits(k \div 10)
    BY <1>1, ShorterIs
  <2> HIDE DEF fits
  <2>2. fits(m1.i)
    BY <1>3, <2>1
  <2>3. fits(m2.i)
    <3> HIDE DEF m1
    <3> QED  BY <2>1, <2>2 DEF Digit!Off
  <2> HIDE DEF m1, m2
  <2> QED  BY <2>2, <2>3 DEF fits
<1>5. Digit!Run(number) => left
  <2>1. Digit!Run(number) <=> \/ o = d + 1 /\ d = h + 1
                              \/ o = d - 1 /\ d = h - 1
    BY <1>1, RunsOfThree
  <2>2. ASSUME o = d + 1, d = h + 1 PROVE up
    <3>1. m1 = m0
      BY <1>1, <1>3, <2>2
    <3>2. Digit!Near(m1, -1)
      BY <1>1, <2>2, <3>1 DEF Digit!Near
    <3>3. m2 = [temp |-> d, i |-> h]
      BY <3>1, <3>2 DEF Digit!Off
    <3>4. Digit!Near(m2, -1)
      BY <1>1, <2>2, <3>3 DEF Digit!Near
    <3> QED  BY <3>2, <3>4
  <2>3. ASSUME o = d - 1, d = h - 1 PROVE down
    <3>1. d = o + 1 /\ m1 = [temp |-> d, i |-> h]
      BY <1>1, <1>3, <2>3
    <3>2. Digit!Near(m1, 1)
      BY <1>1, <2>3, <3>1 DEF Digit!Near
    <3> QED  BY <1>3, <3>1, <3>2
  <2> HIDE DEF up, down, o, d, h
  <2> QED  BY <2>1, <2>2, <2>3
<1>6. left \in BOOLEAN
  BY DEF Digit!Near
<1> HIDE DEF left, down, m1, m2
<1>7. digits' \in Digit!Shorter(number) /\ number < 3000
  BY <1>1, <1>2, <1>4
<1>8. /\ Digit!TypeOK' /\ program' = program
      /\ last'.num = number /\ (last'.printed <=> ~left)
  BY <1>2, <1>6, <1>7, NumbersGo
<1>9. Digit!Run(last'.num) => ~last'.printed
  BY <1>5, <1>8
<1>10. ~(last'.num < 100)
  BY <1>1, <1>8
<1>11. Digit!PatternPrintsRest' /\ Digit!TopLeavesShortRunsOut'
  BY <1>2, <1>8, <1>9, <1>10 DEF Digit!PatternPrintsRest, Digit!TopLeavesShortRunsOut
<1> QED  BY <1>8, <1>11 DEF Digit!NumbersRight

\* Every step of the two programs keeps what they have printed right.
LEMMA NumbersNext == Digit!NumbersRight /\ [Digit!Next]_(Digit!vars) => Digit!NumbersRight'
<1>1. CASE UNCHANGED Digit!vars
  BY <1>1 DEF Digit!vars, Digit!NumbersRight, Digit!TypeOK, Digit!PatternPrintsRest,
              Digit!TopLeavesShortRunsOut
<1> QED  BY <1>1, TwoDigitsKeeps, ThreeDigitsKeeps, FourDigitsKeeps, MatchKeeps DEF Digit!Next

\* patten_matching.c prints exactly the numbers whose digits are no run, and top.c
\* no number up to 999 whose digits are one.
THEOREM NumbersSafe == Digit!Spec => []Digit!NumbersRight
BY NumbersInit, NumbersNext, PTL DEF Digit!Spec

-----------------------------------------------------------------------------
(* The threaded merge *)

\* The part of the types that the proof needs.
MergeTypes ==
    /\ Merge!Size \in Nat /\ count \in Nat /\ turn = count
    /\ where \in {"create", "lock", "asleep", "woken", "done", "failed", "undefined"}
    /\ pc \in [Merge!Thread -> {"none", "lock", "signal", "unlock", "place", "search", "ended"}]
    /\ index \in [Merge!Thread -> Nat]

\* main is turn threads ahead: those before turn have signalled, those after turn do
\* not exist, and thread turn has signalled if main has been woken.
MergeTurns ==
    \A t \in Merge!Thread :
        /\ t < turn => pc[t] \notin {"none", "lock", "signal"}
        /\ t > turn => pc[t] = "none"
        /\ t = turn /\ where \in {"create", "done"} => pc[t] = "none"
        /\ t = turn /\ where = "woken" => pc[t] \notin {"none", "lock", "signal"}
        /\ t = turn /\ where \in {"lock", "asleep"} => pc[t] # "none"

\* The invariant of a run without spurious wakeups.
MergeRight == MergeTypes /\ MergeTurns /\ Merge!IndexOnce

\* Nothing is claimed of a run with spurious wakeups, and a run stays what it is.
MergeIInv == spurious \in BOOLEAN /\ (~spurious => MergeRight)

\* The invariant of the merge holds at the start.
LEMMA MergeInit == ASSUME Merge!Init PROVE MergeIInv
<1>1. Merge!Size \in Nat /\ spurious \in BOOLEAN
  <2>1. PICK in \in Inputs : arr1 = in[1] /\ arr2 = in[2] /\ spurious = in[3]
    BY DEF Merge!Init
  <2>2. arr1 \in Seq(Int) /\ arr2 \in Seq(Int) /\ spurious \in BOOLEAN
    BY <2>1, MergeAssumption DEF Merge!MergeAssumption
  <2>3. Len(arr1) \in Nat /\ Len(arr2) \in Nat
    BY <2>2
  <2> QED  BY <2>2, <2>3 DEF Merge!Size
<1> QED  BY <1>1 DEF Merge!Init, MergeIInv, MergeRight, MergeTypes, MergeTurns,
                     Merge!IndexOnce, Merge!Indexed, Merge!Thread

\* Every step of a run without spurious wakeups preserves MergeRight.
LEMMA MergeNext == ~spurious /\ MergeRight /\ [Merge!Next]_(Merge!vars) => MergeRight'
<1> SUFFICES ASSUME ~spurious, MergeRight, [Merge!Next]_(Merge!vars) PROVE MergeRight'
  OBVIOUS
<1> USE DEF MergeRight, MergeTypes, MergeTurns, Merge!IndexOnce, Merge!Indexed
<1>1. UNCHANGED <<arr1, arr2>>
  BY DEF Merge!Next, Merge!MainStep, Merge!ThreadStep, Merge!Create, Merge!CreateFails,
         Merge!Sleep, Merge!SpuriousWakeup, Merge!Count, Merge!Join, Merge!Lock, Merge!Signal,
         Merge!Unlock, Merge!Place, Merge!data, Merge!vars
<1>2. Merge!Size' = Merge!Size /\ Merge!Thread' = Merge!Thread /\ Merge!Thread \subseteq Nat
  BY <1>1 DEF Merge!Size, Merge!Thread
<1>3. CASE Merge!Create
  <2>1. turn \in Merge!Thread
    BY <1>3 DEF Merge!Create, Merge!Thread
  <2> QED  BY <1>2, <1>3, <2>1 DEF Merge!Create
<1>4. CASE Merge!CreateFails
  BY <1>2, <1>4 DEF Merge!CreateFails
<1>5. CASE Merge!Sleep
  BY <1>2, <1>5 DEF Merge!Sleep
<1>6. CASE Merge!SpuriousWakeup
  BY <1>6 DEF Merge!SpuriousWakeup
<1>7. CASE Merge!Count
  BY <1>2, <1>7 DEF Merge!Count
<1>8. CASE Merge!Join
  BY <1>2, <1>8 DEF Merge!Join
<1>9. ASSUME NEW t \in Merge!Thread, Merge!Lock(t) PROVE MergeRight'
  <2>1. t = turn
    BY <1>2, <1>9 DEF Merge!Lock
  <2> QED  BY <1>2, <1>9, <2>1 DEF Merge!Lock
<1>10. ASSUME NEW t \in Merge!Thread, Merge!Signal(t) PROVE MergeRight'
  <2>1. t = turn
    BY <1>2, <1>10 DEF Merge!Signal
  <2> QED  BY <1>2, <1>10, <2>1 DEF Merge!Signal
<1>11. ASSUME NEW t \in Merge!Thread, Merge!Unlock(t) PROVE MergeRight'
  BY <1>2, <1>11 DEF Merge!Unlock
<1>12. ASSUME NEW t \in Merge!Thread, Merge!Place(t) PROVE MergeRight'
  <2>1. /\ UNCHANGED <<count, turn, index>> /\ (where' = where \/ where' = "undefined")
        /\ pc[t] = "place"
        /\ \/ UNCHANGED pc
           \/ pc' = [pc EXCEPT ![t] = "search"]
           \/ pc' = [pc EXCEPT ![t] = "ended"]
    BY <1>12 DEF Merge!Place
  <2> QED  BY <1>2, <2>1
<1>13. CASE UNCHANGED Merge!vars
  BY <1>2, <1>13 DEF Merge!vars
<1> QED  BY <1>3, <1>4, <1>5, <1>6, <1>7, <1>8, <1>9, <1>10, <1>11, <1>12, <1>13
         DEF Merge!Next, Merge!MainStep, Merge!ThreadStep

\* No step changes what kind of run it is.
LEMMA MergeKindStays == [Merge!Next]_(Merge!vars) => spurious' = spurious
  BY DEF Merge!Next, Merge!MainStep, Merge!ThreadStep, Merge!Create, Merge!CreateFails,
         Merge!Sleep, Merge!SpuriousWakeup, Merge!Count, Merge!Join, Merge!Lock, Merge!Signal,
         Merge!Unlock, Merge!Place, Merge!data, Merge!vars

-----------------------------------------------------------------------------
(* The search *)

\* The middle of the bounds, the halves, and how far the bounds are apart.
Mid(s)   == (s.upper + s.lower) \div 2
Below(s) == [lower |-> s.lower, upper |-> Mid(s), middle |-> Mid(s)]
Above(s) == [lower |-> Mid(s) + 1, upper |-> s.upper, middle |-> Mid(s)]
Width(s) == s.upper - s.lower

\* What a turn of the loop makes of them, if a function f tells what the next ones do.
Turn(f, x, a, s) ==
    IF s.upper <= s.lower THEN s.middle
    ELSE IF x > a[Mid(s) + 1] /\ x < a[Mid(s) + 2] THEN Mid(s)
    ELSE IF x < a[Mid(s) + 1] THEN f[Below(s)]
    ELSE IF x > a[Mid(s) + 1] THEN f[Above(s)]
    ELSE Merge!Endless

\* The middle of two numbers is between them, and below the upper one.
LEMMA Middle ==
    ASSUME NEW l \in Nat, NEW u \in Nat, l < u
    PROVE  (u + l) \div 2 \in Nat /\ l <= (u + l) \div 2 /\ (u + l) \div 2 < u
OBVIOUS

\* What bounds are.
LEMMA BoundsAre ==
    ASSUME NEW a \in Seq(Int)
    PROVE  /\ Len(a) \in Nat
           /\ \A s \in Merge!Bounds(a) :
                 /\ s.lower \in 0..(Len(a) - 1) /\ s.upper \in 0..(Len(a) - 1)
                 /\ s.middle \in -1..(Len(a) - 1)
                 /\ Width(s) \in Int /\ Width(s) + Len(a) \in Nat /\ Width(s) <= Len(a)
           /\ \A l, u \in 0..(Len(a) - 1) : \A m \in -1..(Len(a) - 1) :
                 [lower |-> l, upper |-> u, middle |-> m] \in Merge!Bounds(a)
<1>1. Len(a) \in Nat
  OBVIOUS
<1>2. ASSUME NEW s \in Merge!Bounds(a)
      PROVE  /\ s.lower \in 0..(Len(a) - 1) /\ s.upper \in 0..(Len(a) - 1)
             /\ s.middle \in -1..(Len(a) - 1)
  BY DEF Merge!Bounds, Merge!Wild
<1>3. ASSUME NEW s \in Merge!Bounds(a)
      PROVE  Width(s) \in Int /\ Width(s) + Len(a) \in Nat /\ Width(s) <= Len(a)
  BY <1>1, <1>2 DEF Width
<1>4. \A l, u \in 0..(Len(a) - 1) : \A m \in -1..(Len(a) - 1) :
          [lower |-> l, upper |-> u, middle |-> m] \in Merge!Bounds(a)
  BY DEF Merge!Bounds, Merge!Wild
<1> QED  BY <1>1, <1>2, <1>3, <1>4

\* The halves are bounds that are closer together.
LEMMA Halves ==
    ASSUME NEW a \in Seq(Int), NEW s \in Merge!Bounds(a), s.lower < s.upper
    PROVE  /\ Mid(s) \in 0..(Len(a) - 2) /\ s.lower <= Mid(s) /\ Mid(s) < s.upper
           /\ Below(s) \in Merge!Bounds(a) /\ Width(Below(s)) < Width(s)
           /\ Below(s).lower = s.lower /\ Below(s).upper = Mid(s) /\ Below(s).middle = Mid(s)
           /\ Above(s) \in Merge!Bounds(a) /\ Width(Above(s)) < Width(s)
           /\ Above(s).lower = Mid(s) + 1 /\ Above(s).upper = s.upper /\ Above(s).middle = Mid(s)
<1>1. Len(a) \in Nat /\ s.lower \in 0..(Len(a) - 1) /\ s.upper \in 0..(Len(a) - 1)
  BY BoundsAre
<1>2. s.lower \in Nat /\ s.upper \in Nat
  BY <1>1
<1>3. Mid(s) \in Nat /\ s.lower <= Mid(s) /\ Mid(s) < s.upper
  BY <1>2, Middle DEF Mid
<1>4. /\ Mid(s) \in 0..(Len(a) - 2) /\ Mid(s) \in 0..(Len(a) - 1)
      /\ Mid(s) + 1 \in 0..(Len(a) - 1) /\ Mid(s) \in -1..(Len(a) - 1)
  BY <1>1, <1>3
<1>5. Below(s) \in Merge!Bounds(a) /\ Above(s) \in Merge!Bounds(a)
  BY <1>1, <1>4, BoundsAre DEF Below, Above
<1>6. /\ Below(s).lower = s.lower /\ Below(s).upper = Mid(s) /\ Below(s).middle = Mid(s)
      /\ Above(s).lower = Mid(s) + 1 /\ Above(s).upper = s.upper /\ Above(s).middle = Mid(s)
  BY DEF Below, Above
<1>7. Width(Below(s)) < Width(s) /\ Width(Above(s)) < Width(s)
  BY <1>2, <1>3, <1>6 DEF Width
<1> QED  BY <1>3, <1>4, <1>5, <1>6, <1>7

\* What is right of bounds if it is right of all that are closer together, is right.
LEMMA SearchInduction ==
    ASSUME NEW a \in Seq(Int), NEW S \in SUBSET Merge!Bounds(a),
           \A s \in Merge!Bounds(a) :
               (\A t \in Merge!Bounds(a) : Width(t) < Width(s) => t \in S) => s \in S
    PROVE  S = Merge!Bounds(a)
<1> SUFFICES ASSUME Merge!Bounds(a) \ S # {} PROVE FALSE
  OBVIOUS
<1> DEFINE w(s) == Width(s) + Len(a)
           W == {w(s) : s \in Merge!Bounds(a) \ S}
<1>1. Len(a) \in Nat /\ \A s \in Merge!Bounds(a) : Width(s) \in Int /\ w(s) \in Nat
  BY BoundsAre
<1>2. W \in SUBSET Nat /\ W # {}
  <2>1. \A n \in W : n \in Nat
    BY <1>1
  <2>2. PICK s \in Merge!Bounds(a) : s \notin S
    OBVIOUS
  <2>3. w(s) \in W
    BY <2>2
  <2> HIDE DEF W
  <2> QED  BY <2>1, <2>3
<1>3. PICK n \in W : \A k \in W : n <= k
  <2> HIDE DEF W
  <2> QED  BY <1>2, LeastNatural
<1>4. PICK s \in Merge!Bounds(a) \ S : n = w(s)
  BY <1>3
<1>5. ASSUME NEW t \in Merge!Bounds(a), Width(t) < Width(s), t \notin S PROVE FALSE
  <2>1. w(t) \in W
    BY <1>5
  <2>2. w(s) <= w(t)
    BY <1>3, <1>4, <2>1
  <2> QED  BY <1>1, <1>4, <1>5, <2>2
<1> QED  BY <1>4, <1>5

\* There is a function that is what the loop makes of bounds: for bounds that are
\* near, then for ones that are farther apart.
LEMMA LoopExists ==
    ASSUME NEW a \in Seq(Int), NEW x
    PROVE  \E f : f = [s \in Merge!Bounds(a) |-> Turn(f, x, a, s)]
<1> DEFINE Near(n) == {s \in Merge!Bounds(a) : Width(s) <= n}
           Good(n) == \E f : f = [s \in Near(n) |-> Turn(f, x, a, s)]
           S == {n \in Nat : Good(n)}
<1>0. \A s \in Merge!Bounds(a) : /\ Width(s) \in Int /\ Width(s) <= Len(a) /\ Len(a) \in Nat
                                 /\ s.lower \in Int /\ s.upper \in Int
  BY BoundsAre
<1>1. Good(0)
  <2> DEFINE g == [s \in Near(0) |-> s.middle]
  <2>1. \A s \in Near(0) : s.upper <= s.lower
    BY <1>0 DEF Width
  <2>2. \A s \in Near(0) : Turn(g, x, a, s) = s.middle
    <3> HIDE DEF g, Near
    <3> QED  BY <2>1 DEF Turn
  <2>3. g = [s \in Near(0) |-> Turn(g, x, a, s)]
    <3> HIDE DEF Near
    <3>1. g = [s \in Near(0) |-> s.middle]
      OBVIOUS
    <3> HIDE DEF g
    <3> QED  BY <2>2, <3>1
  <2> QED  BY <2>3
<1>2. ASSUME NEW n \in Nat, Good(n) PROVE Good(n + 1)
  <2>1. PICK f : f = [s \in Near(n) |-> Turn(f, x, a, s)]
    BY <1>2
  <2> DEFINE g == [s \in Near(n + 1) |-> Turn(f, x, a, s)]
  <2>2. Near(n) \subseteq Near(n + 1)
    BY <1>0
  <2>3. \A s \in Near(n) : f[s] = Turn(f, x, a, s)
    <3> HIDE DEF Near
    <3> QED  BY <2>1, Zenon
  <2>4. \A s \in Near(n) : g[s] = f[s]
    <3> HIDE DEF Near
    <3> QED  BY <2>2, <2>3
  <2>5. ASSUME NEW s \in Near(n + 1) PROVE Turn(f, x, a, s) = Turn(g, x, a, s)
    <3> HIDE DEF g
    <3>1. CASE s.upper <= s.lower
      BY <3>1 DEF Turn
    <3>2. CASE ~(s.upper <= s.lower)
      <4>1. s.lower < s.upper /\ s \in Merge!Bounds(a) /\ Width(s) <= n + 1
        BY <1>0, <3>2
      <4>2. Below(s) \in Near(n) /\ Above(s) \in Near(n)
        <5>1. /\ Below(s) \in Merge!Bounds(a) /\ Width(Below(s)) < Width(s)
              /\ Above(s) \in Merge!Bounds(a) /\ Width(Above(s)) < Width(s)
          BY <4>1, Halves
        <5>2. Width(Below(s)) <= n /\ Width(Above(s)) <= n
          BY <1>0, <4>1, <5>1
        <5> QED  BY <5>1, <5>2
      <4>3. g[Below(s)] = f[Below(s)] /\ g[Above(s)] = f[Above(s)]
        <5> HIDE DEF Near
        <5> QED  BY <2>4, <4>2
      <4> QED  BY <4>3 DEF Turn
    <3> QED  BY <3>1, <3>2
  <2>6. g = [s \in Near(n + 1) |-> Turn(f, x, a, s)]
    OBVIOUS
  <2> HIDE DEF g, Near
  <2>7. g = [s \in Near(n + 1) |-> Turn(g, x, a, s)]
    BY <2>5, <2>6
  <2> QED  BY <2>7
<1>3. Near(Len(a)) = Merge!Bounds(a) /\ Len(a) \in Nat
  BY <1>0
<1> HIDE DEF Good, Near
<1>4. 0 \in S /\ \A n \in S : n + 1 \in S
  BY <1>1, <1>2
<1>5. S = Nat
  BY <1>4, NaturalStep
<1>6. Good(Len(a))
  BY <1>3, <1>5
<1>7. \E f : f = [s \in Near(Len(a)) |-> Turn(f, x, a, s)]
  BY <1>6 DEF Good
<1> QED  BY <1>3, <1>7

\* A function defined by itself has the values it is defined to have.
LEMMA TurnApplied ==
    ASSUME NEW x, NEW a, NEW S, NEW f, f = [s \in S |-> Turn(f, x, a, s)], NEW s \in S
    PROVE  f[s] = Turn(f, x, a, s)
BY Zenon

\* The loop, and where it begins.
Loop(x, a) == CHOOSE f : f = [s \in Merge!Bounds(a) |-> Turn(f, x, a, s)]
First(a) == [lower |-> 0, upper |-> Len(a) - 1, middle |-> Merge!Wild]

\* The search is this loop from its beginning.
LEMMA SearchIsLoop ==
    ASSUME NEW a \in Seq(Int), NEW x
    PROVE  /\ Merge!Search(x, a) = Loop(x, a)[First(a)]
           /\ \A s \in Merge!Bounds(a) : Loop(x, a)[s] = Turn(Loop(x, a), x, a, s)
<1> DEFINE Right(f) == f = [s \in Merge!Bounds(a) |-> Turn(f, x, a, s)]
           L == CHOOSE f : Right(f)
<1>1. Merge!Search(x, a) = L[First(a)]
  BY DEF Merge!Search, Turn, Mid, Below, Above, First
<1>2. Right(L)
  <2>1. \E f : Right(f)
    BY LoopExists, Zenon
  <2> HIDE DEF Right
  <2> QED  BY <2>1, Zenon
<1>3. L = Loop(x, a)
  BY DEF Loop
<1> HIDE DEF L
<1>4. \A s \in Merge!Bounds(a) : L[s] = Turn(L, x, a, s)
  BY <1>2, TurnApplied, Zenon
<1> QED  BY <1>1, <1>3, <1>4, Zenon

\* What one turn may return, with the halves as facts about the rest of the loop.
LEMMA LoopTurns ==
    ASSUME NEW a \in Seq(Int), NEW x \in Int, NEW s \in Merge!Bounds(a)
    PROVE  LET m == Mid(s)
               r(t) == Loop(x, a)[t]
           IN  IF s.lower < s.upper
               THEN \/ a[m + 1] < x /\ x < a[m + 2] /\ r(s) = m
                    \/ x < a[m + 1] /\ r(s) = r(Below(s))
                    \/ a[m + 1] < x /\ ~(x < a[m + 2]) /\ r(s) = r(Above(s))
                    \/ x = a[m + 1] /\ r(s) = -2
               ELSE r(s) = s.middle
<1> DEFINE m == Mid(s)
           L == Loop(x, a)
<1>1. L[s] = Turn(L, x, a, s)
  BY SearchIsLoop
<1>2. s.lower \in Int /\ s.upper \in Int
  BY BoundsAre
<1> HIDE DEF L
<1>3. CASE s.lower < s.upper
  <2>1. m \in 0..(Len(a) - 2) /\ Len(a) \in Nat
    BY <1>3, Halves
  <2>2. a[m + 1] \in Int /\ a[m + 2] \in Int
    <3>1. m + 1 \in 1..Len(a) /\ m + 2 \in 1..Len(a)
      BY <2>1
    <3> HIDE DEF m
    <3> QED  BY <3>1
  <2>3. L[s] = IF x > a[m + 1] /\ x < a[m + 2] THEN m
               ELSE IF x < a[m + 1] THEN L[Below(s)]
               ELSE IF x > a[m + 1] THEN L[Above(s)]
               ELSE -2
    BY <1>1, <1>2, <1>3 DEF Turn, Merge!Endless
  <2> HIDE DEF m
  <2> QED  BY <1>3, <2>2, <2>3 DEF m, L
<1>4. CASE ~(s.lower < s.upper)
  <2>1. L[s] = s.middle
    BY <1>1, <1>2, <1>4 DEF Turn
  <2> QED  BY <1>4, <2>1 DEF L
<1> QED  BY <1>3, <1>4

\* Without a turn left the loop returns the last middle.
LEMMA LoopStops ==
    ASSUME NEW a \in Seq(Int), NEW x \in Int, NEW s \in Merge!Bounds(a), ~(s.lower < s.upper)
    PROVE  Loop(x, a)[s] = s.middle
BY LoopTurns

\* The loop starts with bounds.
LEMMA FirstIsBounds ==
    ASSUME NEW a \in Seq(Int), a # <<>>
    PROVE  /\ First(a) \in Merge!Bounds(a) /\ Len(a) \in Nat /\ Len(a) >= 1
           /\ First(a).lower = 0 /\ First(a).upper = Len(a) - 1 /\ First(a).middle = -1
<1>1. Len(a) \in Nat /\ Len(a) >= 1
  OBVIOUS
<1>2. 0 \in 0..(Len(a) - 1) /\ Len(a) - 1 \in 0..(Len(a) - 1) /\ -1 \in -1..(Len(a) - 1)
  BY <1>1
<1>3. First(a) \in Merge!Bounds(a)
  BY <1>2, BoundsAre DEF First, Merge!Wild
<1> QED  BY <1>1, <1>3 DEF First, Merge!Wild

\* The search ends with a place that has a next one, never ends for an element of the
\* array, or has not begun because there is only one element.
LEMMA SearchRange ==
    ASSUME NEW a \in Seq(Int), a # <<>>, NEW x \in Int
    PROVE  \/ Merge!Search(x, a) \in 0..(Len(a) - 2)
           \/ Merge!Search(x, a) = -2 /\ x \in Merge!Values(a)
           \/ Merge!Search(x, a) = -1 /\ Len(a) = 1
<1> DEFINE r(s) == Loop(x, a)[s]
           right(n) == n \in 0..(Len(a) - 2) \/ (n = -2 /\ x \in Merge!Values(a))
           S == {s \in Merge!Bounds(a) :
                    s.lower < s.upper \/ s.middle \in 0..(Len(a) - 2) => right(r(s))}
<1>1. ASSUME NEW s \in Merge!Bounds(a),
             \A t \in Merge!Bounds(a) : Width(t) < Width(s) => t \in S
      PROVE  s \in S
  <2>1. CASE s.lower < s.upper
    <3>1. /\ Mid(s) \in 0..(Len(a) - 2)
          /\ Below(s) \in S /\ Below(s).middle = Mid(s)
          /\ Above(s) \in S /\ Above(s).middle = Mid(s)
      BY <1>1, <2>1, Halves
    <3>2. right(r(Below(s))) /\ right(r(Above(s)))
      <4> HIDE DEF r, right
      <4> QED  BY <3>1
    <3>3. right(Mid(s))
      BY <3>1
    <3>4. x = a[Mid(s) + 1] => right(-2)
      <4>1. Mid(s) + 1 \in DOMAIN a
        BY <3>1
      <4> QED  BY <4>1 DEF Merge!Values
    <3>5. \/ r(s) = Mid(s) \/ r(s) = r(Below(s)) \/ r(s) = r(Above(s))
          \/ x = a[Mid(s) + 1] /\ r(s) = -2
      BY <2>1, LoopTurns
    <3> HIDE DEF r, right
    <3> QED  BY <3>2, <3>3, <3>4, <3>5
  <2>2. CASE ~(s.lower < s.upper)
    <3>1. r(s) = s.middle
      BY <2>2, LoopStops
    <3> HIDE DEF r
    <3> QED  BY <2>2, <3>1
  <2> QED  BY <2>1, <2>2
<1>2. S = Merge!Bounds(a)
  <2>1. S \in SUBSET Merge!Bounds(a)
    OBVIOUS
  <2> HIDE DEF S
  <2> QED  BY <1>1, <2>1, SearchInduction
<1>3. Merge!Search(x, a) = r(First(a))
  BY SearchIsLoop
<1>4. /\ First(a) \in Merge!Bounds(a) /\ Len(a) \in Nat /\ Len(a) >= 1
      /\ First(a).lower = 0 /\ First(a).upper = Len(a) - 1 /\ First(a).middle = -1
  BY FirstIsBounds
<1>5. CASE Len(a) = 1
  <2>1. ~(First(a).lower < First(a).upper)
    BY <1>4, <1>5
  <2>2. Loop(x, a)[First(a)] = First(a).middle
    BY ONLY <1>4, <2>1, LoopStops, x \in Int, a \in Seq(Int)
  <2> QED  BY <1>3, <1>4, <1>5, <2>2
<1>6. CASE Len(a) # 1
  <2>1. First(a).lower < First(a).upper
    <3>1. 0 < Len(a) - 1
      <4> DEFINE n == Len(a)
      <4>1. n \in Nat /\ n >= 1 /\ n # 1
        BY <1>4, <1>6
      <4> HIDE DEF n
      <4>2. 0 < n - 1
        BY <4>1
      <4> QED  BY <4>2 DEF n
    <3> QED  BY <1>4, <3>1
  <2>2. right(r(First(a)))
    <3> HIDE DEF right, r
    <3> QED  BY <1>2, <1>4, <2>1
  <2> QED  BY <1>3, <2>2
<1> QED  BY <1>5, <1>6

\* In a sorted array, between whose ends an element is that is not in it, the search
\* finds the place before which it belongs.
LEMMA SearchFinds ==
    ASSUME NEW a \in Seq(Int), a # <<>>, NEW x \in Int, Merge!Ascending(a),
           x \notin Merge!Values(a), a[1] < x, x < a[Len(a)]
    PROVE  LET m == Merge!Search(x, a)
           IN  m \in 0..(Len(a) - 2) /\ a[m + 1] < x /\ x < a[m + 2]
<1> DEFINE r(s) == Loop(x, a)[s]
           found(n) == n \in 0..(Len(a) - 2) /\ a[n + 1] < x /\ x < a[n + 2]
           S == {s \in Merge!Bounds(a) :
                    a[s.lower + 1] < x /\ x < a[s.upper + 1] => found(r(s))}
<1>0. Len(a) \in Nat /\ DOMAIN a = 1..Len(a) /\ \A k \in 1..Len(a) : a[k] \in Int /\ a[k] # x
  BY DEF Merge!Values
<1>1. ASSUME NEW s \in Merge!Bounds(a),
             \A t \in Merge!Bounds(a) : Width(t) < Width(s) => t \in S
      PROVE  s \in S
  <2> SUFFICES ASSUME a[s.lower + 1] < x, x < a[s.upper + 1] PROVE found(r(s))
    OBVIOUS
  <2>1. s.lower < s.upper
    <3>1. s.lower + 1 \in 1..Len(a) /\ s.upper + 1 \in 1..Len(a) /\ s.lower \in Int /\ s.upper \in Int
      <4>1. /\ Len(a) \in Nat /\ s.lower \in 0..(Len(a) - 1) /\ s.upper \in 0..(Len(a) - 1)
        BY BoundsAre
      <4> QED  BY ONLY <4>1
    <3>2. a[s.lower + 1] \in Int /\ a[s.upper + 1] \in Int
      BY <1>0, <3>1
    <3>3. ASSUME s.upper < s.lower PROVE FALSE
      <4>1. a[s.upper + 1] <= a[s.lower + 1]
        BY <1>0, <3>1, <3>3 DEF Merge!Ascending
      <4> QED  BY <3>2, <4>1
    <3>4. s.upper # s.lower
      BY <3>2
    <3> QED  BY <3>1, <3>3, <3>4
  <2>2. /\ Mid(s) \in 0..(Len(a) - 2)
        /\ Below(s) \in S /\ Below(s).lower = s.lower /\ Below(s).upper = Mid(s)
        /\ Above(s) \in S /\ Above(s).lower = Mid(s) + 1 /\ Above(s).upper = s.upper
    BY <1>1, <2>1, Halves
  <2> DEFINE m == Mid(s)
  <2>3. m + 1 \in 1..Len(a) /\ m + 2 \in 1..Len(a) /\ (m + 1) + 1 = m + 2
    <3>1. Len(a) \in Nat /\ m \in 0..(Len(a) - 2)
      BY <1>0, <2>2
    <3> HIDE DEF m
    <3> QED  BY ONLY <3>1
  <2>4. a[m + 1] \in Int /\ a[m + 2] \in Int /\ a[m + 1] # x /\ a[m + 2] # x
    BY <1>0, <2>3
  <2>5. \/ a[m + 1] < x /\ x < a[m + 2] /\ r(s) = m
        \/ x < a[m + 1] /\ r(s) = r(Below(s))
        \/ a[m + 1] < x /\ ~(x < a[m + 2]) /\ r(s) = r(Above(s))
        \/ x = a[m + 1] /\ r(s) = -2
    BY <2>1, LoopTurns
  <2>6. CASE a[m + 1] < x /\ x < a[m + 2] /\ r(s) = m
    BY <2>2, <2>6
  <2>7. CASE x < a[m + 1] /\ r(s) = r(Below(s))
    <3>1. a[Below(s).lower + 1] < x /\ x < a[Below(s).upper + 1]
      BY <2>2, <2>7
    <3>2. found(r(Below(s)))
      <4> HIDE DEF r, found
      <4> QED  BY <2>2, <3>1
    <3> QED  BY <2>7, <3>2
  <2>8. CASE a[m + 1] < x /\ ~(x < a[m + 2]) /\ r(s) = r(Above(s))
    <3>1. a[Above(s).lower + 1] < x /\ x < a[Above(s).upper + 1]
      <4>1. a[m + 2] < x
        BY <2>4, <2>8
      <4>2. a[Above(s).lower + 1] = a[m + 2] /\ a[Above(s).upper + 1] = a[s.upper + 1]
        BY <2>2, <2>3
      <4> QED  BY <4>1, <4>2
    <3>2. found(r(Above(s)))
      <4> HIDE DEF r, found
      <4> QED  BY <2>2, <3>1
    <3> QED  BY <2>8, <3>2
  <2> QED  BY <2>4, <2>5, <2>6, <2>7, <2>8
<1>2. S = Merge!Bounds(a)
  <2>1. S \in SUBSET Merge!Bounds(a)
    OBVIOUS
  <2> HIDE DEF S
  <2> QED  BY <1>1, <2>1, SearchInduction
<1>3. Merge!Search(x, a) = r(First(a))
  BY SearchIsLoop
<1>4. /\ First(a) \in S /\ Len(a) >= 1
      /\ First(a).lower = 0 /\ First(a).upper = Len(a) - 1
  BY <1>2, FirstIsBounds
<1>5. a[First(a).lower + 1] < x /\ x < a[First(a).upper + 1]
  <2>1. First(a).lower + 1 = 1 /\ First(a).upper + 1 = Len(a)
    BY <1>0, <1>4
  <2> QED  BY <2>1
<1>6. found(r(First(a)))
  <2> HIDE DEF r, found
  <2> QED  BY <1>4, <1>5
<1> HIDE DEF r
<1> QED  BY <1>3, <1>6

-----------------------------------------------------------------------------
(* The position of an element *)

\* The first q elements of an array are less than a value, the others greater.
Splits(a, v, q) == /\ q \in 0..Len(a)
                   /\ \A k \in 1..Len(a) : IF k <= q THEN a[k] < v ELSE v < a[k]

\* A value between two neighbours, or beyond an end, splits a sorted array.
LEMMA SplitsBetween ==
    ASSUME NEW a \in Seq(Int), Merge!Ascending(a), NEW v \in Int,
           NEW m \in 0..(Len(a) - 2), a[m + 1] < v, v < a[m + 2]
    PROVE  Splits(a, v, m + 1)
<1>1. Len(a) \in Nat /\ DOMAIN a = 1..Len(a) /\ m + 1 \in 1..Len(a) /\ m + 2 \in 1..Len(a)
  OBVIOUS
<1>2. \A k \in 1..Len(a) : a[k] \in Int
  OBVIOUS
<1>3. \A j, k \in 1..Len(a) : j < k => a[j] <= a[k]
  BY <1>1 DEF Merge!Ascending
<1>4. ASSUME NEW k \in 1..Len(a) PROVE IF k <= m + 1 THEN a[k] < v ELSE v < a[k]
  <2>1. a[k] \in Int /\ a[m + 1] \in Int /\ a[m + 2] \in Int /\ k \in Int /\ m \in Int
    BY <1>1, <1>2
  <2>2. CASE k <= m + 1
    <3>1. k = m + 1 \/ k < m + 1
      BY <2>1, <2>2
    <3>2. a[k] <= a[m + 1]
      BY <1>1, <1>3, <2>1, <3>1
    <3> QED  BY <2>1, <2>2, <3>2
  <2>3. CASE ~(k <= m + 1)
    <3>1. k = m + 2 \/ m + 2 < k
      BY <2>1, <2>3
    <3>2. a[m + 2] <= a[k]
      BY <1>1, <1>3, <2>1, <3>1
    <3> QED  BY <2>1, <2>3, <3>2
  <2> QED  BY <2>2, <2>3
<1>5. m + 1 \in 0..Len(a)
  BY <1>1
<1> QED  BY <1>4, <1>5 DEF Splits

\* A value before the array splits it at 0.
LEMMA SplitsBefore ==
    ASSUME NEW a \in Seq(Int), Merge!Ascending(a), NEW v \in Int, a # <<>> => v < a[1]
    PROVE  Splits(a, v, 0)
<1>1. Len(a) \in Nat /\ DOMAIN a = 1..Len(a) /\ (a # <<>> => Len(a) >= 1)
  OBVIOUS
<1>2. \A k \in 1..Len(a) : a[k] \in Int
  OBVIOUS
<1>3. ASSUME NEW k \in 1..Len(a) PROVE v < a[k]
  <2>1. a # <<>> /\ 1 \in 1..Len(a) /\ k \in Int /\ 1 <= k
    BY <1>1
  <2>2. a[1] <= a[k]
    <3>1. CASE k = 1
      BY <1>2, <2>1, <3>1
    <3>2. CASE 1 < k
      BY <1>1, <2>1, <3>2 DEF Merge!Ascending
    <3> QED  BY <2>1, <3>1, <3>2
  <2> QED  BY <1>2, <2>1, <2>2
<1> QED  BY <1>1, <1>3 DEF Splits

\* A value after it splits it at its length.
LEMMA SplitsAfter ==
    ASSUME NEW a \in Seq(Int), Merge!Ascending(a), NEW v \in Int, a # <<>>, a[Len(a)] < v
    PROVE  Splits(a, v, Len(a))
<1>1. Len(a) \in Nat /\ DOMAIN a = 1..Len(a) /\ Len(a) \in 1..Len(a)
  OBVIOUS
<1>2. \A k \in 1..Len(a) : a[k] \in Int
  OBVIOUS
<1> DEFINE n == Len(a)
<1>3. n \in Nat /\ n \in 1..n /\ a[n] < v
  BY <1>1
<1>4. \A j, k \in 1..n : j < k => a[j] <= a[k]
  BY <1>1 DEF Merge!Ascending
<1>5. \A k \in 1..n : a[k] \in Int
  BY <1>2
<1>6. n \in 0..Len(a)
  BY <1>1
<1> HIDE DEF n
<1>7. ASSUME NEW k \in 1..n PROVE k <= n /\ a[k] < v
  <2>1. k \in Int /\ (k = n \/ k < n)
    BY <1>3
  <2>2. a[k] <= a[n]
    BY <1>3, <1>4, <1>5, <2>1
  <2> QED  BY <1>3, <1>5, <2>1, <2>2
<1> QED  BY <1>6, <1>7 DEF Splits, n

\* The position of a value in two arrays is its place in its own, and the number of
\* elements of the other that are before it; without such, or memory to read, an end.
LEMMA PositionRange ==
    ASSUME NEW a \in Seq(Int), NEW x \in Int, NEW c \in Nat, NEW pos \in Merge!Position(x, c, a)
    PROVE  \/ pos \in c..(c + Len(a))
           \/ pos = -2 /\ x \in Merge!Values(a)
           \/ pos = -1 /\ Len(a) < 2
<1>0. Len(a) \in Nat
  OBVIOUS
<1>1. CASE a = <<>>
  BY <1>1 DEF Merge!Position, Merge!Wild
<1>2. CASE a # <<>> /\ (x < a[1] \/ x > a[Len(a)])
  <2>1. pos = c \/ pos = Len(a) + c
    BY <1>2 DEF Merge!Position
  <2> QED  BY <1>0, <2>1
<1>3. CASE a # <<>> /\ ~(x < a[1] \/ x > a[Len(a)])
  <2> DEFINE m == Merge!Search(x, a)
  <2>1. pos = IF m >= 0 THEN c + m + 1 ELSE m
    BY <1>3 DEF Merge!Position
  <2>2. \/ m \in 0..(Len(a) - 2)
        \/ m = -2 /\ x \in Merge!Values(a)
        \/ m = -1 /\ Len(a) = 1
    BY <1>3, SearchRange
  <2> DEFINE n == Len(a)
  <2> HIDE DEF m, n
  <2>3. CASE m \in 0..(n - 2)
    <3>1. n \in Nat
      BY <1>0 DEF n
    <3>2. pos \in c..(c + n)
      BY <2>1, <2>3, <3>1
    <3> QED  BY <3>2 DEF n
  <2>4. CASE m = -2 /\ x \in Merge!Values(a)
    BY <2>1, <2>4
  <2>5. CASE m = -1 /\ Len(a) = 1
    <3>1. pos = -1
      BY <2>1, <2>5
    <3> QED  BY <2>5, <3>1
  <2> QED  BY <2>2, <2>3, <2>4, <2>5 DEF n
<1> QED  BY <1>1, <1>2, <1>3

\* A position that is a number is one that the value splits the other array at.
LEMMA PositionSplits ==
    ASSUME NEW a \in Seq(Int), Merge!Ascending(a), NEW x \in Int, NEW c \in Nat,
           x \notin Merge!Values(a), NEW pos \in Merge!Position(x, c, a), pos \in Nat
    PROVE  \E q \in 0..Len(a) : pos = c + q /\ Splits(a, x, q)
<1>0. Len(a) \in Nat
  OBVIOUS
<1>1. CASE a = <<>>
  <2>1. pos = c
    BY <1>1 DEF Merge!Position, Merge!Wild
  <2>2. Splits(a, x, 0)
    BY <1>1, SplitsBefore
  <2> QED  BY <1>0, <2>1, <2>2
<1>2. CASE a # <<>>
  <2>0. 1 \in DOMAIN a /\ Len(a) \in DOMAIN a /\ a[1] \in Int /\ a[Len(a)] \in Int
    BY <1>2
  <2>1. CASE x < a[1]
    <3>1. pos = c
      BY <1>2, <2>1 DEF Merge!Position
    <3>2. Splits(a, x, 0)
      BY <2>1, SplitsBefore
    <3> QED  BY <1>0, <3>1, <3>2
  <2>2. CASE ~(x < a[1]) /\ x > a[Len(a)]
    <3>1. pos = Len(a) + c
      BY <1>2, <2>2 DEF Merge!Position
    <3>2. Splits(a, x, Len(a))
      BY <1>2, <2>2, SplitsAfter
    <3>3. pos = c + Len(a) /\ Len(a) \in 0..Len(a)
      BY <1>0, <3>1
    <3> QED  BY <3>2, <3>3
  <2>3. CASE ~(x < a[1]) /\ ~(x > a[Len(a)])
    <3>1. x # a[1] /\ x # a[Len(a)]
      BY <2>0 DEF Merge!Values
    <3>2. a[1] < x /\ x < a[Len(a)]
      BY <2>0, <2>3, <3>1
    <3> DEFINE m == Merge!Search(x, a)
    <3>3. m \in 0..(Len(a) - 2) /\ a[m + 1] < x /\ x < a[m + 2]
      BY <1>2, <3>2, SearchFinds
    <3>4. pos = IF m >= 0 THEN c + m + 1 ELSE m
      BY <1>2, <2>3 DEF Merge!Position
    <3> HIDE DEF m
    <3>5. Splits(a, x, m + 1)
      BY <3>3, SplitsBetween
    <3>6. pos = c + (m + 1) /\ m + 1 \in 0..Len(a)
      BY <1>0, <3>3, <3>4
    <3> QED  BY <3>5, <3>6
  <2> QED  BY <2>1, <2>2, <2>3
<1> QED  BY <1>1, <1>2

\* How many elements are less than a value, or not greater.
LEMMA CardinalityIs == \A S : Merge!Cardinality(S) = Cardinality(S)
BY DEF Merge!Cardinality, Cardinality

\* The first n numbers are n.
LEMMA UpTo == ASSUME NEW n \in Nat PROVE IsFiniteSet(1..n) /\ Cardinality(1..n) = n
<1>1. IsFiniteSet(1..n) /\ Cardinality(1..n) = IF 1 > n THEN 0 ELSE n - 1 + 1
  BY FS_Interval
<1> QED  BY <1>1

\* Where a value splits an array, as many elements are less as are not greater.
LEMMA SplitCounts ==
    ASSUME NEW a \in Seq(Int), NEW v \in Int, NEW q, Splits(a, v, q)
    PROVE  /\ q \in Nat
           /\ Merge!Less(a, v) = 1..q /\ Merge!NotMore(a, v) = 1..q
           /\ Cardinality(Merge!Less(a, v)) = q /\ Cardinality(Merge!NotMore(a, v)) = q
<1>1. Len(a) \in Nat /\ DOMAIN a = 1..Len(a) /\ q \in 0..Len(a) /\ q \in Nat
  BY DEF Splits
<1>2. \A k \in 1..Len(a) : a[k] \in Int /\ (IF k <= q THEN a[k] < v ELSE v < a[k])
  BY DEF Splits
<1>3. \A k \in 1..Len(a) : (a[k] < v <=> k <= q) /\ (a[k] <= v <=> k <= q)
  BY <1>2
<1>4. Merge!Less(a, v) = 1..q /\ Merge!NotMore(a, v) = 1..q
  BY <1>1, <1>3 DEF Merge!Less, Merge!NotMore
<1>5. Cardinality(1..q) = q
  BY <1>1, UpTo
<1> QED  BY <1>1, <1>4, <1>5

\* In its own array at most those before an element are less, and more are not greater.
LEMMA OwnCounts ==
    ASSUME NEW a \in Seq(Int), Merge!Ascending(a), NEW c \in 0..(Len(a) - 1)
    PROVE  /\ Cardinality(Merge!Less(a, a[c + 1])) \in 0..c
           /\ Cardinality(Merge!NotMore(a, a[c + 1])) \in Nat
           /\ Cardinality(Merge!NotMore(a, a[c + 1])) > c
<1> DEFINE v == a[c + 1]
           less == Merge!Less(a, v)
           more == Merge!NotMore(a, v)
<1>1. Len(a) \in Nat /\ DOMAIN a = 1..Len(a) /\ c \in Nat /\ c + 1 \in 1..Len(a)
  OBVIOUS
<1>2. \A k \in 1..Len(a) : a[k] \in Int
  OBVIOUS
<1>3. less \in SUBSET (1..c)
  <2> SUFFICES ASSUME NEW k \in 1..Len(a), a[k] < v PROVE k \in 1..c
    BY <1>1 DEF Merge!Less
  <2>1. k < c + 1
    <3>1. ASSUME c + 1 < k PROVE FALSE
      <4>1. a[c + 1] <= a[k]
        BY <1>1, <3>1 DEF Merge!Ascending
      <4> QED  BY <1>1, <1>2, <4>1
    <3>2. k # c + 1
      BY <1>1, <1>2
    <3> QED  BY <1>1, <3>1, <3>2
  <2> QED  BY <1>1, <2>1
<1>4. 1..(c + 1) \in SUBSET more /\ more \in SUBSET (1..Len(a))
  <2>1. ASSUME NEW k \in 1..(c + 1) PROVE k \in more
    <3>1. k \in 1..Len(a) /\ (k = c + 1 \/ k < c + 1)
      BY <1>1
    <3>2. a[k] <= v
      BY <1>1, <1>2, <3>1 DEF Merge!Ascending
    <3> QED  BY <1>1, <3>1, <3>2 DEF Merge!NotMore
  <2> QED  BY <1>1, <2>1 DEF Merge!NotMore
<1> HIDE DEF less, more
<1>5. IsFiniteSet(1..c) /\ Cardinality(1..c) = c
  BY <1>1, UpTo
<1>6. IsFiniteSet(less) /\ Cardinality(less) <= c
  BY <1>3, <1>5, FS_Subset
<1>7. IsFiniteSet(1..(c + 1)) /\ Cardinality(1..(c + 1)) = c + 1
  BY <1>1, UpTo
<1>8. IsFiniteSet(1..Len(a))
  BY <1>1, UpTo
<1>9. IsFiniteSet(more)
  BY <1>4, <1>8, FS_Subset
<1>10. c + 1 <= Cardinality(more)
  BY <1>4, <1>7, <1>9, FS_Subset
<1>11. Cardinality(less) \in Nat /\ Cardinality(more) \in Nat
  BY <1>6, <1>9, FS_CardinalityType
<1> QED  BY <1>1, <1>6, <1>10, <1>11 DEF less, more

\* Elements less than a value are some of an array.
LEMMA LessFinite ==
    ASSUME NEW a \in Seq(Int), NEW v
    PROVE  /\ Merge!Less(a, v) \in SUBSET (1..Len(a))
           /\ IsFiniteSet(Merge!Less(a, v)) /\ Cardinality(Merge!Less(a, v)) \in Nat
<1>1. Len(a) \in Nat /\ Merge!Less(a, v) \in SUBSET (1..Len(a))
  BY DEF Merge!Less
<1>2. IsFiniteSet(Merge!Less(a, v))
  BY <1>1, UpTo, FS_Subset
<1> QED  BY <1>1, <1>2, FS_CardinalityType

\* Where an element of an array belongs among those of another one.
Rank(a, c, b) == c + Cardinality(Merge!Less(b, a[c + 1]))

\* It keeps the order of the array.
LEMMA RankOrder ==
    ASSUME NEW a \in Seq(Int), NEW b \in Seq(Int), Merge!Ascending(a),
           NEW c \in 0..(Len(a) - 1), NEW d \in 0..(Len(a) - 1), c < d
    PROVE  Rank(a, c, b) \in Nat /\ Rank(a, d, b) \in Nat /\ Rank(a, c, b) < Rank(a, d, b)
<1>1. c \in Nat /\ d \in Nat /\ c + 1 \in 1..Len(a) /\ d + 1 \in 1..Len(a) /\ DOMAIN a = 1..Len(a)
  OBVIOUS
<1>2. a[c + 1] \in Int /\ a[d + 1] \in Int /\ a[c + 1] <= a[d + 1]
  BY <1>1 DEF Merge!Ascending
<1>3. Merge!Less(b, a[c + 1]) \in SUBSET Merge!Less(b, a[d + 1])
  <2>1. \A k \in DOMAIN b : b[k] \in Int
    OBVIOUS
  <2> QED  BY <1>2, <2>1 DEF Merge!Less
<1> DEFINE p == Cardinality(Merge!Less(b, a[c + 1]))
           q == Cardinality(Merge!Less(b, a[d + 1]))
<1>4. p \in Nat /\ q \in Nat /\ p <= q
  BY <1>3, LessFinite, FS_Subset
<1>5. Rank(a, c, b) = c + p /\ Rank(a, d, b) = d + q
  BY DEF Rank
<1> HIDE DEF p, q
<1> QED  BY <1>1, <1>4, <1>5

\* And that of elements of both.
LEMMA RankBefore ==
    ASSUME NEW a \in Seq(Int), NEW b \in Seq(Int), Merge!Ascending(a), Merge!Ascending(b),
           NEW c \in 0..(Len(a) - 1), NEW d \in 0..(Len(b) - 1), a[c + 1] < b[d + 1]
    PROVE  Rank(a, c, b) \in Nat /\ Rank(b, d, a) \in Nat /\ Rank(a, c, b) < Rank(b, d, a)
<1>1. /\ c \in Nat /\ d \in Nat /\ c + 1 \in 1..Len(a) /\ d + 1 \in 1..Len(b)
      /\ DOMAIN a = 1..Len(a) /\ DOMAIN b = 1..Len(b) /\ Len(a) \in Nat /\ Len(b) \in Nat
  OBVIOUS
<1>2. (\A k \in 1..Len(a) : a[k] \in Int) /\ (\A k \in 1..Len(b) : b[k] \in Int)
  OBVIOUS
<1>0. /\ \A j, k \in 1..Len(a) : j < k => a[j] <= a[k]
      /\ \A j, k \in 1..Len(b) : j < k => b[j] <= b[k]
  BY <1>1 DEF Merge!Ascending
<1>3. Merge!Less(b, a[c + 1]) \in SUBSET (1..d)
  <2> SUFFICES ASSUME NEW k \in 1..Len(b), b[k] < a[c + 1] PROVE k \in 1..d
    BY <1>1 DEF Merge!Less
  <2>1. k < d + 1
    <3>1. ASSUME d + 1 <= k PROVE FALSE
      <4>1. CASE d + 1 = k
        BY <1>1, <1>2, <4>1
      <4>2. CASE d + 1 # k
        <5>1. d + 1 < k
          BY <1>1, <3>1, <4>2
        <5>2. b[d + 1] <= b[k]
          BY <1>0, <1>1, <5>1
        <5>3. a[c + 1] \in Int /\ b[d + 1] \in Int /\ b[k] \in Int
          BY <1>1, <1>2
        <5> QED  BY <5>2, <5>3
      <4> QED  BY <4>1, <4>2
    <3> QED  BY <1>1, <3>1
  <2> QED  BY <1>1, <2>1
<1>4. 1..(c + 1) \in SUBSET Merge!Less(a, b[d + 1])
  <2> SUFFICES ASSUME NEW k \in 1..(c + 1) PROVE k \in 1..Len(a) /\ a[k] < b[d + 1]
    BY <1>1 DEF Merge!Less
  <2>1. k \in 1..Len(a) /\ (k = c + 1 \/ k < c + 1)
    BY <1>1
  <2>2. a[k] <= a[c + 1]
    <3>1. CASE k = c + 1
      BY <1>1, <1>2, <3>1
    <3>2. CASE k < c + 1
      BY <1>0, <1>1, <2>1, <3>2
    <3> QED  BY <2>1, <3>1, <3>2
  <2>3. a[c + 1] \in Int /\ b[d + 1] \in Int /\ a[k] \in Int
    BY <1>1, <1>2, <2>1
  <2> QED  BY <2>1, <2>2, <2>3
<1> DEFINE p == Cardinality(Merge!Less(b, a[c + 1]))
           q == Cardinality(Merge!Less(a, b[d + 1]))
<1>5. p \in Nat /\ p <= d
  BY <1>1, <1>3, LessFinite, UpTo, FS_Subset
<1>6. q \in Nat /\ c + 1 <= q
  <2>1. c + 1 \in Nat
    BY <1>1
  <2>2. Cardinality(1..(c + 1)) = c + 1
    BY <2>1, UpTo
  <2> QED  BY <1>4, <2>2, LessFinite, FS_Subset
<1>7. Rank(a, c, b) = c + p /\ Rank(b, d, a) = d + q
  BY DEF Rank
<1> HIDE DEF p, q
<1> QED  BY <1>1, <1>5, <1>6, <1>7

\* The arrays, as the program asks for them.
SortedArrays == /\ arr1 \in Seq(Int) /\ arr2 \in Seq(Int)
                /\ Merge!Ascending(arr1) /\ Merge!Ascending(arr2)

\* The element of a thread, and where it belongs.
Element(k) == Merge!Mine(k)[Merge!Cnt(k) + 1]
Belonging(k) == Rank(Merge!Mine(k), Merge!Cnt(k), Merge!Other(k))

\* A thread's element is one of a sorted array, and the other array is sorted too.
LEMMA ThreadArrays ==
    ASSUME SortedArrays, NEW k \in Merge!Thread
    PROVE  /\ Merge!Mine(k) \in Seq(Int) /\ Merge!Other(k) \in Seq(Int)
           /\ Merge!Ascending(Merge!Mine(k)) /\ Merge!Ascending(Merge!Other(k))
           /\ Merge!Cnt(k) \in 0..(Len(Merge!Mine(k)) - 1) /\ Merge!Cnt(k) \in Nat
           /\ Element(k) \in Int /\ Element(k) \in Merge!Values(Merge!Mine(k))
           /\ Len(Merge!Mine(k)) + Len(Merge!Other(k)) = Merge!Size
           /\ Merge!Size \in Nat /\ Len(Merge!Mine(k)) \in Nat /\ Len(Merge!Other(k)) \in Nat
<1> DEFINE n == Len(arr1)
           m == Len(arr2)
<1>0. n \in Nat /\ m \in Nat /\ k \in 0..(n + m - 1) /\ Merge!Size = n + m
  BY DEF SortedArrays, Merge!Thread, Merge!Size
<1>1. CASE k < n
  <2>1. Merge!Mine(k) = arr1 /\ Merge!Other(k) = arr2 /\ Merge!Cnt(k) = k
    BY <1>1 DEF Merge!Mine, Merge!Other, Merge!Cnt
  <2>2. k \in 0..(n - 1) /\ k \in Nat /\ k + 1 \in DOMAIN arr1
    BY <1>0, <1>1 DEF SortedArrays
  <2>3. arr1[k + 1] \in Int /\ arr1[k + 1] \in Merge!Values(arr1)
    BY <2>2 DEF SortedArrays, Merge!Values
  <2> QED  BY <1>0, <2>1, <2>2, <2>3 DEF SortedArrays, Element
<1>2. CASE ~(k < n)
  <2>1. Merge!Mine(k) = arr2 /\ Merge!Other(k) = arr1 /\ Merge!Cnt(k) = k - n
    BY <1>2 DEF Merge!Mine, Merge!Other, Merge!Cnt
  <2>2. k - n \in 0..(m - 1) /\ k - n \in Nat /\ (k - n) + 1 \in DOMAIN arr2
    BY <1>0, <1>2 DEF SortedArrays
  <2>3. arr2[(k - n) + 1] \in Int /\ arr2[(k - n) + 1] \in Merge!Values(arr2)
    BY <2>2 DEF SortedArrays, Merge!Values
  <2>4. m + n = n + m
    BY <1>0
  <2> QED  BY <1>0, <2>1, <2>2, <2>3, <2>4 DEF SortedArrays, Element
<1> QED  BY <1>1, <1>2

\* A position that a thread finds is where its element belongs.
LEMMA PlaceBelongs ==
    ASSUME SortedArrays, Merge!Distinct, NEW k \in Merge!Thread,
           NEW pos \in Merge!Position(Element(k), Merge!Cnt(k), Merge!Other(k)),
           pos \in Merge!Thread
    PROVE  pos = Belonging(k) /\ Merge!Belongs(Element(k), pos)
<1> DEFINE a == Merge!Mine(k)
           b == Merge!Other(k)
           c == Merge!Cnt(k)
           v == Element(k)
<1>1. /\ a \in Seq(Int) /\ b \in Seq(Int) /\ Merge!Ascending(a) /\ Merge!Ascending(b)
      /\ c \in 0..(Len(a) - 1) /\ c \in Nat /\ v \in Int /\ v \in Merge!Values(a) /\ v = a[c + 1]
  BY ThreadArrays DEF Element
<1>2. v \notin Merge!Values(b)
  <2>1. \/ a = arr1 /\ b = arr2
        \/ a = arr2 /\ b = arr1
    BY DEF Merge!Mine, Merge!Other
  <2> HIDE DEF a, b, v
  <2> QED  BY <1>1, <2>1 DEF Merge!Distinct
<1>3. pos \in Nat /\ pos \in Merge!Position(v, c, b)
  BY DEF Merge!Thread
<1> HIDE DEF a, b, c, v
<1>4. PICK q \in 0..Len(b) : pos = c + q /\ Splits(b, v, q)
  BY <1>1, <1>2, <1>3, PositionSplits
<1> DEFINE la == Cardinality(Merge!Less(a, v))
           lb == Cardinality(Merge!Less(b, v))
           ma == Cardinality(Merge!NotMore(a, v))
           mb == Cardinality(Merge!NotMore(b, v))
<1>5. q \in Nat /\ lb = q /\ mb = q
  BY <1>1, <1>4, SplitCounts
<1>6. la \in 0..c /\ ma \in Nat /\ ma > c
  BY <1>1, OwnCounts
<1>7. la + lb <= pos /\ pos < ma + mb /\ la + lb = lb + la /\ ma + mb = mb + ma
  <2> HIDE DEF la, lb, ma, mb
  <2> QED  BY <1>1, <1>4, <1>5, <1>6
<1>8. \/ a = arr1 /\ b = arr2
      \/ a = arr2 /\ b = arr1
  BY DEF Merge!Mine, Merge!Other, a, b
<1>9. Merge!Belongs(v, pos)
  BY <1>7, <1>8, CardinalityIs DEF Merge!Belongs
<1>10. pos = Rank(a, c, b)
  BY <1>1, <1>4, <1>5 DEF Rank
<1> QED  BY <1>9, <1>10 DEF Belonging, a, b, c, v

\* No two threads' elements belong to one place.
LEMMA BelongingOnce ==
    ASSUME SortedArrays, Merge!Distinct, NEW j \in Merge!Thread, NEW k \in Merge!Thread,
           Belonging(j) = Belonging(k)
    PROVE  j = k
<1> DEFINE n == Len(arr1)
           m == Len(arr2)
           first(t) == Merge!Mine(t) = arr1 /\ Merge!Other(t) = arr2 /\ Merge!Cnt(t) = t
                       /\ t \in 0..(n - 1)
           second(t) == Merge!Mine(t) = arr2 /\ Merge!Other(t) = arr1 /\ Merge!Cnt(t) = t - n
                        /\ t - n \in 0..(m - 1)
<1>1. /\ arr1 \in Seq(Int) /\ arr2 \in Seq(Int) /\ n \in Nat /\ m \in Nat
      /\ Merge!Ascending(arr1) /\ Merge!Ascending(arr2)
  BY DEF SortedArrays
<1>2. ASSUME NEW t \in Merge!Thread PROVE first(t) \/ second(t)
  <2>1. t \in 0..(n + m - 1)
    BY DEF Merge!Thread, Merge!Size
  <2>2. CASE t < n
    BY <1>1, <2>1, <2>2 DEF Merge!Mine, Merge!Other, Merge!Cnt
  <2>3. CASE ~(t < n)
    BY <1>1, <2>1, <2>3 DEF Merge!Mine, Merge!Other, Merge!Cnt
  <2> QED  BY <2>2, <2>3
<1>3. j \in Int /\ k \in Int
  BY DEF Merge!Thread
\* Elements of different arrays.
<1>4. ASSUME NEW s \in Merge!Thread, NEW t \in Merge!Thread, first(s), second(t)
      PROVE  Belonging(s) # Belonging(t)
  <2> DEFINE v == arr1[s + 1]
             w == arr2[(t - n) + 1]
  <2>1. v \in Int /\ w \in Int /\ v \in Merge!Values(arr1) /\ w \in Merge!Values(arr2)
    <3>1. Element(s) = v /\ Element(t) = w
      BY <1>4 DEF Element
    <3> QED  BY <1>4, <3>1, ThreadArrays
  <2>2. v < w \/ w < v
    <3>1. v # w
      BY <2>1 DEF Merge!Distinct
    <3> HIDE DEF v, w
    <3> QED  BY <2>1, <3>1
  <2>3. Belonging(s) = Rank(arr1, s, arr2) /\ Belonging(t) = Rank(arr2, t - n, arr1)
    BY <1>4 DEF Belonging
  <2>4. s \in 0..(Len(arr1) - 1) /\ t - n \in 0..(Len(arr2) - 1)
    BY <1>4
  <2>5. CASE v < w
    <3>1. /\ Rank(arr1, s, arr2) \in Nat /\ Rank(arr2, t - n, arr1) \in Nat
          /\ Rank(arr1, s, arr2) < Rank(arr2, t - n, arr1)
      BY <1>1, <2>4, <2>5, RankBefore
    <3> QED  BY <2>3, <3>1
  <2>6. CASE w < v
    <3>1. /\ Rank(arr2, t - n, arr1) \in Nat /\ Rank(arr1, s, arr2) \in Nat
          /\ Rank(arr2, t - n, arr1) < Rank(arr1, s, arr2)
      BY <1>1, <2>4, <2>6, RankBefore
    <3> QED  BY <2>3, <3>1
  <2> QED  BY <2>2, <2>5, <2>6
\* Elements of one.
<1>5. ASSUME NEW s \in Merge!Thread, NEW t \in Merge!Thread, s < t,
             \/ first(s) /\ first(t)
             \/ second(s) /\ second(t)
      PROVE  Belonging(s) # Belonging(t)
  <2>1. s \in Int /\ t \in Int
    BY DEF Merge!Thread
  <2>2. CASE first(s) /\ first(t)
    <3>1. Belonging(s) = Rank(arr1, s, arr2) /\ Belonging(t) = Rank(arr1, t, arr2)
      BY <2>2 DEF Belonging
    <3>2. s \in 0..(Len(arr1) - 1) /\ t \in 0..(Len(arr1) - 1)
      BY <2>2
    <3>3. /\ Rank(arr1, s, arr2) \in Nat /\ Rank(arr1, t, arr2) \in Nat
          /\ Rank(arr1, s, arr2) < Rank(arr1, t, arr2)
      BY <1>1, <1>5, <3>2, RankOrder
    <3> QED  BY <3>1, <3>3
  <2>3. CASE second(s) /\ second(t)
    <3>1. Belonging(s) = Rank(arr2, s - n, arr1) /\ Belonging(t) = Rank(arr2, t - n, arr1)
      BY <2>3 DEF Belonging
    <3>2. s - n \in 0..(Len(arr2) - 1) /\ t - n \in 0..(Len(arr2) - 1) /\ s - n < t - n
      BY <1>1, <1>5, <2>1, <2>3
    <3>3. /\ Rank(arr2, s - n, arr1) \in Nat /\ Rank(arr2, t - n, arr1) \in Nat
          /\ Rank(arr2, s - n, arr1) < Rank(arr2, t - n, arr1)
      BY <1>1, <3>2, RankOrder
    <3> QED  BY <3>1, <3>3
  <2> QED  BY <1>5, <2>2, <2>3
<1> HIDE DEF first, second
<1>6. CASE j < k
  BY <1>2, <1>4, <1>5, <1>6
<1>7. CASE k < j
  BY <1>2, <1>4, <1>5, <1>7
<1> QED  BY <1>3, <1>6, <1>7
-----------------------------------------------------------------------------
(* The invariant of the merge in all runs *)

\* The thread that main waits for is one, and those it has not come to do not exist.
MergeAhead ==
    /\ where \in {"lock", "asleep", "woken"} => turn < Merge!Size
    /\ \A t \in Merge!Thread : t > turn \/ (t = turn /\ where = "create") => pc[t] = "none"

\* A thread that has ended has written its element where it belongs, and all have when
\* main is done.
MergeWritten == Merge!Distinct => \A t \in Merge!Thread : pc[t] = "ended" =>
                    \E k \in Merge!Thread : index[t] = k /\ Belonging(k) \in DOMAIN arr3
MergeJoined == where = "done" => \A t \in Merge!Thread : pc[t] = "ended"

\* The parts that are only about what threads find, and all of it.
MergeFound == /\ Merge!SearchEnds /\ Merge!PlacedRight /\ Merge!DefinedElsewhere
              /\ MergeWritten /\ MergeJoined
MergeStrong == Merge!TypeOK /\ MergeAhead /\ MergeIInv /\ MergeFound

\* The arrays are sorted, and the threads natural numbers.
LEMMA MergeArrays ==
    ASSUME Merge!TypeOK
    PROVE  SortedArrays /\ Merge!Size \in Nat /\ Merge!Thread \in SUBSET Nat
<1>1. arr1 \in Seq(Int) /\ arr2 \in Seq(Int)
  BY MergeAssumption DEF Merge!TypeOK, Merge!MergeAssumption
<1>2. Merge!Ascending(arr1) /\ Merge!Ascending(arr2)
  <2> DEFINE in == <<arr1, arr2, spurious>>
  <2>1. in \in Inputs
    BY DEF Merge!TypeOK
  <2>2. Merge!Ascending(in[1]) /\ Merge!Ascending(in[2])
    BY <2>1, MergeAssumption DEF Merge!SortedAssumption
  <2> QED  BY <2>2
<1>3. Len(arr1) \in Nat /\ Len(arr2) \in Nat
  BY <1>1
<1> QED  BY <1>1, <1>2, <1>3 DEF SortedArrays, Merge!Size, Merge!Thread

\* It holds at the start.
LEMMA MergeStart == ASSUME Merge!Init PROVE MergeStrong
<1>1. PICK in \in Inputs : arr1 = in[1] /\ arr2 = in[2] /\ spurious = in[3]
  BY DEF Merge!Init
<1>2. in = <<arr1, arr2, spurious>> /\ arr1 \in Seq(Int) /\ arr2 \in Seq(Int)
  BY <1>1, MergeAssumption DEF Merge!MergeAssumption
<1>3. Merge!Size \in Nat /\ 0 \in 0..Merge!Size
  <2>1. Len(arr1) \in Nat /\ Len(arr2) \in Nat
    BY <1>2
  <2> QED  BY <2>1 DEF Merge!Size
<1>4. DOMAIN arr3 = {}
  BY DEF Merge!Init
<1>5. Merge!TypeOK
  BY <1>1, <1>2, <1>3, <1>4 DEF Merge!Init, Merge!TypeOK
<1>6. MergeAhead
  BY DEF Merge!Init, MergeAhead
<1>7. MergeFound
  BY <1>4 DEF Merge!Init, MergeFound, Merge!SearchEnds, Merge!PlacedRight,
              Merge!DefinedElsewhere, MergeWritten, MergeJoined
<1> QED  BY <1>5, <1>6, <1>7, MergeInit DEF MergeStrong

\* No step changes the arrays, and so where elements are and belong.
LEMMA MergeStays ==
    ASSUME [Merge!Next]_(Merge!vars)
    PROVE  /\ arr1' = arr1 /\ arr2' = arr2 /\ spurious' = spurious
           /\ Merge!Size' = Merge!Size /\ Merge!Thread' = Merge!Thread
           /\ Merge!Distinct' = Merge!Distinct
           /\ \A k : /\ Merge!Mine(k)' = Merge!Mine(k) /\ Merge!Other(k)' = Merge!Other(k)
                     /\ Merge!Cnt(k)' = Merge!Cnt(k) /\ Belonging(k)' = Belonging(k)
           /\ \A v, k : Merge!Belongs(v, k)' = Merge!Belongs(v, k)
<1>1. arr1' = arr1 /\ arr2' = arr2 /\ spurious' = spurious
  BY DEF Merge!Next, Merge!MainStep, Merge!ThreadStep, Merge!Create, Merge!CreateFails,
         Merge!Sleep, Merge!SpuriousWakeup, Merge!Count, Merge!Join, Merge!Lock, Merge!Signal,
         Merge!Unlock, Merge!Place, Merge!data, Merge!vars
<1>2. Merge!Size' = Merge!Size /\ Merge!Thread' = Merge!Thread
  BY <1>1 DEF Merge!Size, Merge!Thread
<1>3. Merge!Distinct' = Merge!Distinct
  BY <1>1 DEF Merge!Distinct
<1>4. ASSUME NEW k
      PROVE  /\ Merge!Mine(k)' = Merge!Mine(k) /\ Merge!Other(k)' = Merge!Other(k)
             /\ Merge!Cnt(k)' = Merge!Cnt(k) /\ Belonging(k)' = Belonging(k)
  <2>1. /\ Merge!Mine(k)' = Merge!Mine(k) /\ Merge!Other(k)' = Merge!Other(k)
        /\ Merge!Cnt(k)' = Merge!Cnt(k)
    BY <1>1 DEF Merge!Mine, Merge!Other, Merge!Cnt
  <2> QED  BY <2>1 DEF Belonging
<1>5. ASSUME NEW v, NEW k PROVE Merge!Belongs(v, k)' = Merge!Belongs(v, k)
  BY <1>1 DEF Merge!Belongs
<1> QED  BY <1>1, <1>2, <1>3, <1>4, <1>5

\* What threads have found stays right when none of them finds anything.
LEMMA MergeQuiet ==
    ASSUME MergeStrong, [Merge!Next]_(Merge!vars), arr3' = arr3,
           \A t \in Merge!Thread : pc'[t] \in {"search", "ended"} =>
               pc'[t] = pc[t] /\ index'[t] = index[t],
           \A t \in Merge!Thread : pc[t] = "ended" => pc'[t] = "ended",
           where' = "undefined" => where = "undefined",
           where' = "done" => where = "done" \/ \A t \in Merge!Thread : pc[t] = "ended"
    PROVE  MergeFound'
<1>1. Merge!SearchEnds'
  BY MergeStays DEF MergeStrong, MergeFound, Merge!SearchEnds, Merge!Values
<1>2. Merge!PlacedRight'
  BY MergeStays DEF MergeStrong, MergeFound, Merge!PlacedRight
<1>3. Merge!DefinedElsewhere'
  BY MergeStays DEF MergeStrong, MergeFound, Merge!DefinedElsewhere
<1>4. MergeWritten'
  <2>1. /\ Merge!Distinct' = Merge!Distinct /\ Merge!Thread' = Merge!Thread
        /\ \A k : Belonging(k)' = Belonging(k)
    BY MergeStays
  <2>2. MergeWritten
    BY DEF MergeStrong, MergeFound
  <2> SUFFICES ASSUME Merge!Distinct, NEW t \in Merge!Thread, pc'[t] = "ended"
               PROVE  \E k \in Merge!Thread : index'[t] = k /\ Belonging(k)' \in DOMAIN arr3
    BY <2>1 DEF MergeWritten
  <2>3. PICK k \in Merge!Thread : index[t] = k /\ Belonging(k) \in DOMAIN arr3
    BY <2>2 DEF MergeWritten
  <2>4. index'[t] = k /\ Belonging(k)' \in DOMAIN arr3
    BY <2>1, <2>3
  <2> QED  BY <2>4
<1>5. MergeJoined'
  BY MergeStays DEF MergeStrong, MergeFound, MergeJoined
<1> QED  BY <1>1, <1>2, <1>3, <1>4, <1>5 DEF MergeFound

\* The steps of main, and those of a thread but the last.
LEMMA MergeOrdinary ==
    ASSUME MergeStrong, [Merge!Next]_(Merge!vars),
           \/ Merge!MainStep \/ Merge!SpuriousWakeup \/ UNCHANGED Merge!vars
           \/ \E t \in Merge!Thread : Merge!Lock(t) \/ Merge!Signal(t) \/ Merge!Unlock(t)
    PROVE  Merge!TypeOK' /\ MergeAhead' /\ MergeFound'
<1>0. /\ Merge!TypeOK /\ MergeAhead /\ Merge!Size \in Nat /\ Merge!Thread \in SUBSET Nat
      /\ <<arr1, arr2, spurious>>' \in Inputs
      /\ Merge!Size' = Merge!Size /\ Merge!Thread' = Merge!Thread
  BY MergeArrays, MergeStays DEF MergeStrong, Merge!TypeOK
<1> USE DEF MergeAhead, Merge!TypeOK, Merge!Nobody
<1> DEFINE Quiet ==
        /\ arr3' = arr3
        /\ \A t \in Merge!Thread : pc'[t] \in {"search", "ended"} =>
               pc'[t] = pc[t] /\ index'[t] = index[t]
        /\ \A t \in Merge!Thread : pc[t] = "ended" => pc'[t] = "ended"
        /\ where' = "undefined" => where = "undefined"
        /\ where' = "done" => where = "done" \/ \A t \in Merge!Thread : pc[t] = "ended"
<1>1. CASE Merge!Create
  <2>1. turn \in Merge!Thread /\ pc[turn] = "none"
    BY <1>0, <1>1 DEF Merge!Create, Merge!Thread
  <2>2. Merge!TypeOK' /\ MergeAhead'
    BY <1>0, <1>1, <2>1 DEF Merge!Create, Merge!data
  <2>3. Quiet
    BY <1>0, <1>1, <2>1 DEF Merge!Create, Merge!data
  <2> QED  BY <2>2, <2>3, MergeQuiet
<1>2. CASE Merge!CreateFails
  <2>1. Merge!TypeOK' /\ MergeAhead'
    BY <1>0, <1>2 DEF Merge!CreateFails, Merge!data
  <2>2. Quiet
    BY <1>0, <1>2 DEF Merge!CreateFails, Merge!data
  <2> QED  BY <2>1, <2>2, MergeQuiet
<1>3. CASE Merge!Sleep
  <2>1. Merge!TypeOK' /\ MergeAhead'
    BY <1>0, <1>3 DEF Merge!Sleep, Merge!data
  <2>2. Quiet
    BY <1>0, <1>3 DEF Merge!Sleep, Merge!data
  <2> QED  BY <2>1, <2>2, MergeQuiet
<1>4. CASE Merge!SpuriousWakeup
  <2>1. Merge!TypeOK' /\ MergeAhead'
    BY <1>0, <1>4 DEF Merge!SpuriousWakeup, Merge!data
  <2>2. Quiet
    BY <1>0, <1>4 DEF Merge!SpuriousWakeup, Merge!data
  <2> QED  BY <2>1, <2>2, MergeQuiet
<1>5. CASE Merge!Count
  <2>1. turn < Merge!Size /\ turn + 1 \in 0..Merge!Size
    BY <1>0, <1>5 DEF Merge!Count
  <2>2. Merge!TypeOK' /\ MergeAhead'
    BY <1>0, <1>5, <2>1 DEF Merge!Count, Merge!data
  <2>3. Quiet
    BY <1>0, <1>5 DEF Merge!Count, Merge!data
  <2> QED  BY <2>2, <2>3, MergeQuiet
<1>6. CASE Merge!Join
  <2>1. Merge!TypeOK' /\ MergeAhead'
    BY <1>0, <1>6 DEF Merge!Join, Merge!data
  <2>2. Quiet
    BY <1>0, <1>6 DEF Merge!Join, Merge!data
  <2> QED  BY <2>1, <2>2, MergeQuiet
<1>7. CASE UNCHANGED Merge!vars
  <2>1. Merge!TypeOK' /\ MergeAhead'
    BY <1>0, <1>7 DEF Merge!vars
  <2>2. Quiet
    BY <1>0, <1>7 DEF Merge!vars
  <2> QED  BY <2>1, <2>2, MergeQuiet
<1>8. ASSUME NEW t \in Merge!Thread, Merge!Lock(t)
      PROVE  Merge!TypeOK' /\ MergeAhead' /\ MergeFound'
  <2>1. Merge!TypeOK' /\ MergeAhead'
    BY <1>0, <1>8 DEF Merge!Lock, Merge!data
  <2>2. Quiet
    BY <1>0, <1>8 DEF Merge!Lock, Merge!data
  <2> QED  BY <2>1, <2>2, MergeQuiet
<1>9. ASSUME NEW t \in Merge!Thread, Merge!Signal(t)
      PROVE  Merge!TypeOK' /\ MergeAhead' /\ MergeFound'
  <2>1. Merge!TypeOK' /\ MergeAhead'
    BY <1>0, <1>9 DEF Merge!Signal, Merge!data
  <2>2. Quiet
    BY <1>0, <1>9 DEF Merge!Signal, Merge!data
  <2> QED  BY <2>1, <2>2, MergeQuiet
<1>10. ASSUME NEW t \in Merge!Thread, Merge!Unlock(t)
       PROVE  Merge!TypeOK' /\ MergeAhead' /\ MergeFound'
  <2>1. Merge!TypeOK' /\ MergeAhead'
    BY <1>0, <1>10 DEF Merge!Unlock, Merge!data
  <2>2. Quiet
    BY <1>0, <1>10 DEF Merge!Unlock, Merge!data
  <2> QED  BY <2>1, <2>2, MergeQuiet
<1> QED  BY <1>1, <1>2, <1>3, <1>4, <1>5, <1>6, <1>7, <1>8, <1>9, <1>10 DEF Merge!MainStep

\* The last step of a thread, which finds the position of its element.
LEMMA MergePlaces ==
    ASSUME MergeStrong, [Merge!Next]_(Merge!vars), NEW t \in Merge!Thread, Merge!Place(t)
    PROVE  Merge!TypeOK' /\ MergeAhead' /\ MergeFound'
<1> DEFINE k == index[t]
<1>0. /\ Merge!TypeOK /\ MergeAhead /\ MergeFound /\ SortedArrays
      /\ Merge!Size \in Nat /\ Merge!Thread \in SUBSET Nat
      /\ <<arr1, arr2, spurious>>' \in Inputs
      /\ arr1' = arr1 /\ arr2' = arr2 /\ spurious' = spurious
      /\ Merge!Size' = Merge!Size /\ Merge!Thread' = Merge!Thread
  BY MergeArrays, MergeStays DEF MergeStrong, Merge!TypeOK
<1>1. /\ pc[t] = "place" /\ where \notin {"done", "failed", "undefined"}
      /\ UNCHANGED <<spurious, count, mutex, turn, index>>
  BY DEF Merge!Place, Merge!Ended
<1>2. ~spurious => k \in Merge!Thread
  BY <1>1 DEF MergeStrong, MergeIInv, MergeRight, Merge!IndexOnce, Merge!Indexed
\* What is left as it was, and what the step changes.
<1>3. ASSUME where' \in {where, "undefined"}, pc' = pc \/ pc' = [pc EXCEPT ![t] = "search"]
                                               \/ pc' = [pc EXCEPT ![t] = "ended"],
             DOMAIN arr3' \subseteq Merge!Thread, \A p \in DOMAIN arr3' : arr3'[p] \in Int
      PROVE  Merge!TypeOK' /\ MergeAhead'
  BY <1>0, <1>1, <1>3 DEF Merge!TypeOK, MergeAhead, Merge!Nobody
<1> DEFINE Undefined == /\ where' = "undefined" /\ arr3' = arr3 /\ pc' = pc
                        /\ spurious \/ Len(arr1) < 2 \/ Len(arr2) < 2
           Endless   == /\ pc' = [pc EXCEPT ![t] = "search"] /\ where' = where /\ arr3' = arr3
                        /\ k \in Merge!Thread /\ Element(k) \in Merge!Values(Merge!Other(k))
           Writes(p) == /\ arr3' = [q \in DOMAIN arr3 \cup {p} |->
                                       IF q = p THEN Element(k) ELSE arr3[q]]
                        /\ pc' = [pc EXCEPT ![t] = "ended"] /\ where' = where
                        /\ k \in Merge!Thread /\ p \in Merge!Thread /\ Element(k) \in Int
                        /\ Merge!Distinct => p = Belonging(k) /\ Merge!Belongs(Element(k), p)
<1>4. Undefined \/ Endless \/ \E p \in Merge!Thread : Writes(p)
  <2>1. CASE k \notin Merge!Thread
    <3>1. where' = "undefined" /\ arr3' = arr3 /\ pc' = pc
      BY <2>1 DEF Merge!Place
    <3> QED  BY <1>2, <2>1, <3>1
  <2>2. CASE k \in Merge!Thread
    <3> DEFINE c == Merge!Cnt(k)
               b == Merge!Other(k)
               n == Len(Merge!Mine(k))
               m == Len(b)
    <3>1. PICK pos \in Merge!Position(Element(k), c, b) :
              \/ pos = Merge!Endless /\ pc' = [pc EXCEPT ![t] = "search"] /\ UNCHANGED <<where, arr3>>
              \/ /\ pos \notin Merge!Thread \cup {Merge!Endless}
                 /\ where' = "undefined" /\ UNCHANGED <<pc, arr3>>
              \/ /\ pos \in Merge!Thread
                 /\ arr3' = [q \in DOMAIN arr3 \cup {pos} |-> IF q = pos THEN Element(k) ELSE arr3[q]]
                 /\ pc' = [pc EXCEPT ![t] = "ended"] /\ where' = where
      BY <2>2 DEF Merge!Place, Element
    <3>2. /\ b \in Seq(Int) /\ Element(k) \in Int /\ c \in 0..(n - 1) /\ c \in Nat
          /\ n \in Nat /\ m \in Nat /\ n + m = Merge!Size
      BY <1>0, <2>2, ThreadArrays
    <3>3. \/ pos \in c..(c + m)
          \/ pos = -2 /\ Element(k) \in Merge!Values(b)
          \/ pos = -1 /\ m < 2
      BY <3>2, PositionRange
    <3>4. b = arr1 \/ b = arr2
      BY DEF Merge!Other
    <3>5. pos \in c..(c + m) => pos \in Merge!Thread
      <4> HIDE DEF c, b, n, m
      <4>1. pos \in c..(c + m) => pos \in 0..(n + m - 1)
        BY <3>2
      <4> QED  BY <3>2, <4>1 DEF Merge!Thread
    <3>6. CASE pos \in Merge!Thread
      <4>1. Merge!Distinct => pos = Belonging(k) /\ Merge!Belongs(Element(k), pos)
        BY <1>0, <2>2, <3>6, PlaceBelongs
      <4>2. pos # Merge!Endless
        BY <1>0, <3>6 DEF Merge!Endless
      <4>3. Writes(pos)
        BY <2>2, <3>1, <3>2, <3>6, <4>1, <4>2
      <4> QED  BY <3>6, <4>3
    <3>7. CASE pos \notin Merge!Thread /\ pos = -2
      <4>1. Element(k) \in Merge!Values(b)
        BY <3>3, <3>5, <3>7
      <4>2. Endless
        BY <2>2, <3>1, <3>7, <4>1 DEF Merge!Endless
      <4> QED  BY <4>2
    <3>8. CASE pos \notin Merge!Thread /\ pos # -2
      <4>1. m < 2
        BY <3>3, <3>5, <3>8
      <4>2. Len(arr1) < 2 \/ Len(arr2) < 2
        BY <3>4, <4>1
      <4>3. Undefined
        BY <3>1, <3>8, <4>2 DEF Merge!Endless
      <4> QED  BY <4>3
    <3> QED  BY <3>6, <3>7, <3>8
  <2> QED  BY <2>1, <2>2
<1>5. CASE Undefined
  <2>1. Merge!TypeOK' /\ MergeAhead'
    BY <1>0, <1>3, <1>5 DEF Merge!TypeOK
  <2>2. Merge!DefinedElsewhere'
    BY <1>0, <1>5 DEF Merge!DefinedElsewhere
  <2>3. Merge!SearchEnds'
    BY <1>0, <1>1, <1>5, MergeStays DEF MergeFound, Merge!SearchEnds, Merge!Values
  <2>4. Merge!PlacedRight'
    BY <1>0, <1>5, MergeStays DEF MergeFound, Merge!PlacedRight
  <2>5. MergeWritten' /\ MergeJoined'
    BY <1>0, <1>1, <1>5, MergeStays DEF MergeFound, MergeWritten, MergeJoined
  <2> QED  BY <2>1, <2>2, <2>3, <2>4, <2>5 DEF MergeFound
<1>6. CASE Endless
  <2>1. Merge!TypeOK' /\ MergeAhead'
    BY <1>0, <1>3, <1>6 DEF Merge!TypeOK
  <2>2. Merge!DefinedElsewhere'
    BY <1>0, <1>6 DEF MergeFound, Merge!DefinedElsewhere
  <2>3. Merge!SearchEnds'
    <3>1. /\ \A x : /\ Merge!Mine(x)' = Merge!Mine(x) /\ Merge!Other(x)' = Merge!Other(x)
                    /\ Merge!Cnt(x)' = Merge!Cnt(x)
      BY MergeStays
    <3> SUFFICES ASSUME NEW s \in Merge!Thread, pc'[s] = "search", NEW x, x = index'[s]
                 PROVE  Merge!Mine(x)'[Merge!Cnt(x)' + 1] \in Merge!Values(Merge!Other(x)')
      BY <1>0 DEF Merge!SearchEnds, Merge!Values
    <3>2. x = index[s]
      BY <1>1
    <3>3. Merge!Mine(x)[Merge!Cnt(x) + 1] \in Merge!Values(Merge!Other(x))
      <4>1. CASE s = t
        BY <1>6, <3>2, <4>1 DEF Element
      <4>2. CASE s # t
        BY <1>0, <1>6, <3>2, <4>2 DEF MergeFound, Merge!SearchEnds, Merge!TypeOK
      <4> QED  BY <4>1, <4>2
    <3> QED  BY <3>1, <3>3
  <2>4. Merge!PlacedRight'
    BY <1>0, <1>6, MergeStays DEF MergeFound, Merge!PlacedRight
  <2>5. MergeWritten'
    <3> SUFFICES ASSUME Merge!Distinct, NEW s \in Merge!Thread, pc'[s] = "ended"
                 PROVE  \E x \in Merge!Thread : index'[s] = x /\ Belonging(x)' \in DOMAIN arr3'
      BY <1>0, MergeStays DEF MergeWritten
    <3>1. pc[s] = "ended"
      BY <1>0, <1>1, <1>6 DEF Merge!TypeOK
    <3>2. PICK x \in Merge!Thread : index[s] = x /\ Belonging(x) \in DOMAIN arr3
      BY <1>0, <3>1 DEF MergeFound, MergeWritten
    <3>3. index'[s] = x /\ Belonging(x)' \in DOMAIN arr3'
      BY <1>1, <1>6, <3>2, MergeStays
    <3> QED  BY <3>3
  <2>6. MergeJoined'
    BY <1>0, <1>1, <1>6 DEF MergeFound, MergeJoined, Merge!TypeOK
  <2> QED  BY <2>1, <2>2, <2>3, <2>4, <2>5, <2>6 DEF MergeFound
<1>7. ASSUME NEW p \in Merge!Thread, Writes(p) PROVE Merge!TypeOK' /\ MergeAhead' /\ MergeFound'
  <2>1. Merge!TypeOK' /\ MergeAhead'
    <3>1. DOMAIN arr3' = DOMAIN arr3 \cup {p} /\ \A q \in DOMAIN arr3' : arr3'[q] \in Int
      BY <1>0, <1>7 DEF Merge!TypeOK
    <3>2. DOMAIN arr3' \subseteq Merge!Thread
      BY <1>0, <3>1 DEF Merge!TypeOK
    <3> QED  BY <1>3, <1>7, <3>1, <3>2
  <2>2. Merge!DefinedElsewhere'
    BY <1>0, <1>7 DEF MergeFound, Merge!DefinedElsewhere
  <2>3. Merge!SearchEnds'
    <3>1. \A s \in Merge!Thread : pc'[s] = "search" => pc[s] = "search"
      BY <1>0, <1>7 DEF Merge!TypeOK
    <3> QED  BY <1>0, <1>1, <3>1, MergeStays DEF MergeFound, Merge!SearchEnds, Merge!Values
  <2>4. Merge!PlacedRight'
    <3> SUFFICES ASSUME Merge!Distinct, NEW q \in DOMAIN arr3'
                 PROVE  Merge!Belongs(arr3'[q], q)
      BY MergeStays DEF Merge!PlacedRight
    <3>1. CASE q = p
      BY <1>7, <3>1
    <3>2. CASE q # p
      BY <1>0, <1>7, <3>2 DEF MergeFound, Merge!PlacedRight
    <3> QED  BY <3>1, <3>2
  <2>5. MergeWritten'
    <3> SUFFICES ASSUME Merge!Distinct, NEW s \in Merge!Thread, pc'[s] = "ended"
                 PROVE  \E x \in Merge!Thread : index'[s] = x /\ Belonging(x)' \in DOMAIN arr3'
      BY <1>0, MergeStays DEF MergeWritten
    <3>1. /\ DOMAIN arr3' = DOMAIN arr3 \cup {p} /\ \A x : Belonging(x)' = Belonging(x)
          /\ index' = index
      BY <1>1, <1>7, MergeStays
    <3>2. CASE s = t
      <4>1. PICK x \in Merge!Thread : index'[s] = x /\ Belonging(x) = p
        BY <1>7, <3>1, <3>2
      <4>2. Belonging(x)' \in DOMAIN arr3'
        BY <3>1, <4>1
      <4> QED  BY <4>1, <4>2
    <3>3. CASE s # t
      <4>1. pc[s] = "ended"
        BY <1>0, <1>7, <3>3 DEF Merge!TypeOK
      <4>2. PICK x \in Merge!Thread : index[s] = x /\ Belonging(x) \in DOMAIN arr3
        BY <1>0, <4>1 DEF MergeFound, MergeWritten
      <4>3. index'[s] = x /\ Belonging(x)' \in DOMAIN arr3'
        BY <3>1, <4>2
      <4> QED  BY <4>3
    <3> QED  BY <3>2, <3>3
  <2>6. MergeJoined'
    BY <1>0, <1>1, <1>7 DEF MergeFound, MergeJoined, Merge!TypeOK
  <2> QED  BY <2>1, <2>2, <2>3, <2>4, <2>5, <2>6 DEF MergeFound
<1> QED  BY <1>4, <1>5, <1>6, <1>7

\* Every step preserves the invariant.
LEMMA MergeKeeps == MergeStrong /\ [Merge!Next]_(Merge!vars) => MergeStrong'
<1> SUFFICES ASSUME MergeStrong, [Merge!Next]_(Merge!vars) PROVE MergeStrong'
  OBVIOUS
<1>1. MergeIInv'
  BY MergeNext, MergeKindStays DEF MergeStrong, MergeIInv
<1>2. CASE \E t \in Merge!Thread : Merge!Place(t)
  BY <1>1, <1>2, MergePlaces DEF MergeStrong
<1>3. CASE ~ \E t \in Merge!Thread : Merge!Place(t)
  BY <1>1, <1>3, MergeOrdinary DEF MergeStrong, Merge!Next, Merge!ThreadStep
<1> QED  BY <1>2, <1>3

\* With every thread's element where it belongs no place is left over.
LEMMA MergeGives == ASSUME MergeStrong PROVE MergeInv /\ IndexOnce
<1>1. IndexOnce
  BY DEF MergeStrong, MergeIInv, MergeRight, IndexOnce, Merge!IndexOnce
<1>2. Merge!Merged
  <2> SUFFICES ASSUME ~spurious, Merge!Distinct, where = "done"
               PROVE  DOMAIN arr3 = Merge!Thread
    BY DEF MergeStrong, MergeFound, Merge!Merged, Merge!PlacedRight
  <2> DEFINE T == Merge!Thread
             D == DOMAIN arr3
             f == [t \in T |-> Belonging(t)]
  <2>1. SortedArrays /\ Merge!Size \in Nat /\ D \subseteq T
    BY MergeArrays DEF MergeStrong, Merge!TypeOK
  <2>2. IsFiniteSet(T)
    BY <2>1, FS_Interval DEF Merge!Thread
  <2>3. ASSUME NEW t \in T PROVE Belonging(t) \in D
    <3>1. pc[t] = "ended"
      BY DEF MergeStrong, MergeFound, MergeJoined
    <3>2. index[t] = t
      BY <1>1, <3>1 DEF IndexOnce, Merge!IndexOnce, Merge!Indexed
    <3> QED  BY <3>1, <3>2 DEF MergeStrong, MergeFound, MergeWritten
  <2>4. \A s, t \in T : Belonging(s) = Belonging(t) => s = t
    BY <2>1, BelongingOnce
  <2>5. IsFiniteSet(D) /\ Cardinality(D) <= Cardinality(T)
    BY <2>1, <2>2, FS_Subset
  <2>6. f \in [T -> D] /\ \A s, t \in T : f[s] = f[t] => s = t
    BY <2>3, <2>4
  <2> HIDE DEF T, D, f
  <2>7. Cardinality(T) <= Cardinality(D)
    BY <2>2, <2>5, <2>6, FS_Injection DEF ExistsInjection, Injection, IsInjective
  <2>8. D = T
    BY <2>1, <2>2, <2>5, <2>7, FS_Subset, FS_CardinalityType
  <2> QED  BY <2>8 DEF D, T
<1> QED  BY <1>1, <1>2 DEF MergeStrong, MergeFound, MergeInv, Merge!MergeInv

\* The threaded merge alone does so, for sorted arrays of every length.
THEOREM MergeAlone == Merge!Spec => [](MergeInv /\ IndexOnce)
<1>1. Merge!Init => MergeStrong
  BY MergeStart
<1>2. MergeStrong => MergeInv /\ IndexOnce
  BY MergeGives
<1> QED  BY <1>1, <1>2, MergeKeeps, PTL DEF Merge!Spec

-----------------------------------------------------------------------------
(* Lists of the hash table *)

\* What a node can hold.
Entry == Str \cup {None, "wild"}

\* A list with a node before it.
LEMMA Prepended ==
    ASSUME NEW S, NEW l \in Seq(S), NEW c \in S
    PROVE  /\ <<c>> \o l \in Seq(S)
           /\ DOMAIN (<<c>> \o l) = 1..(Len(l) + 1) /\ DOMAIN l = 1..Len(l) /\ Len(l) \in Nat
           /\ Len(<<c>> \o l) = Len(l) + 1
           /\ (<<c>> \o l)[1] = c
           /\ \A k \in 1..Len(l) : (<<c>> \o l)[k + 1] = l[k]
OBVIOUS

\* A place in it but the first is one of the list.
LEMMA PrependedPlaces ==
    ASSUME NEW S, NEW l \in Seq(S), NEW c \in S, NEW k \in DOMAIN (<<c>> \o l)
    PROVE  \/ k = 1 /\ (<<c>> \o l)[k] = c
           \/ k - 1 \in DOMAIN l /\ (<<c>> \o l)[k] = l[k - 1]
<1>1. k \in 1..(Len(l) + 1) /\ DOMAIN l = 1..Len(l) /\ Len(l) \in Nat
  BY Prepended
<1>2. CASE k = 1
  BY <1>2, Prepended
<1>3. CASE k # 1
  <2>1. k - 1 \in 1..Len(l) /\ (k - 1) + 1 = k
    BY <1>1, <1>3
  <2>2. (<<c>> \o l)[(k - 1) + 1] = l[k - 1]
    BY <2>1, Prepended
  <2> QED  BY <1>1, <2>1, <2>2
<1> QED  BY <1>2, <1>3

\* If what is put before a list is not in it, no two nodes are equal if they were not.
LEMMA PrependedOnce ==
    ASSUME NEW S, NEW l \in Seq(S), NEW c \in S,
           \A j, k \in DOMAIN l : l[j] = l[k] => j = k, \A k \in DOMAIN l : l[k] # c,
           NEW j \in DOMAIN (<<c>> \o l), NEW k \in DOMAIN (<<c>> \o l),
           (<<c>> \o l)[j] = (<<c>> \o l)[k]
    PROVE  j = k
<1> DEFINE p == <<c>> \o l
<1>1. j \in Int /\ k \in Int
  BY Prepended
<1>2. \/ j = 1 /\ p[j] = c
      \/ j - 1 \in DOMAIN l /\ p[j] = l[j - 1]
  BY PrependedPlaces
<1>3. \/ k = 1 /\ p[k] = c
      \/ k - 1 \in DOMAIN l /\ p[k] = l[k - 1]
  BY PrependedPlaces
<1> HIDE DEF p
<1>4. p[j] = p[k]
  BY DEF p
<1> QED  BY <1>1, <1>2, <1>3, <1>4

\* Walk stops at the first node that is the string, or that has none to read.
LEMMA WalkStops ==
    ASSUME NEW S, NEW list \in Seq(S), NEW s
    PROVE  \/ /\ \A k \in DOMAIN list : list[k] \notin {s, None, "wild"}
              /\ Hash!Walk(list, s) = "NULL"
           \/ \E k \in DOMAIN list :
                 /\ list[k] \in {s, None, "wild"}
                 /\ \A n \in DOMAIN list : list[n] \in {s, None, "wild"} => k <= n
                 /\ Hash!Walk(list, s) = IF list[k] = s THEN "found"
                                         ELSE IF list[k] = None THEN "stops" ELSE "wild"
<1> DEFINE stopping == {k \in DOMAIN list : list[k] \in {s, None, "wild"}}
           least(k) == \A n \in stopping : k <= n
           k0 == CHOOSE k \in stopping : least(k)
           ends(x) == IF x = s THEN "found" ELSE IF x = None THEN "stops" ELSE "wild"
<1>1. Hash!Walk(list, s) = IF stopping = {} THEN "NULL" ELSE ends(list[k0])
  BY DEF Hash!Walk
<1>2. CASE stopping = {}
  BY <1>1, <1>2
<1>3. CASE stopping # {}
  <2>1. stopping \in SUBSET Nat
    OBVIOUS
  <2>2. \E k \in stopping : least(k)
    <3> HIDE DEF stopping
    <3> QED  BY <1>3, <2>1, LeastNatural
  <2>3. k0 \in stopping /\ least(k0)
    <3> HIDE DEF stopping, least
    <3> QED  BY <2>2
  <2>4. Hash!Walk(list, s) = ends(list[k0])
    <3> HIDE DEF k0, stopping, ends
    <3> QED  BY <1>1, <1>3
  <2> HIDE DEF k0
  <2> QED  BY <2>3, <2>4
<1> QED  BY <1>2, <1>3

-----------------------------------------------------------------------------
(* The hash table *)

\* A table has a list for every bucket.
Lists == table # None => table \in [Hash!Bucket -> Seq(Entry)]

\* A string is only in its own bucket, and no two nodes of a list are equal.
Once == table # None =>
            \A b \in Hash!Bucket :
                /\ \A s \in Hash!Strings(b) : hash[s] = b
                /\ \A j, k \in DOMAIN table[b] : table[b][j] = table[b][k] => j = k

\* Without a table the last call was one that has freed it, or failed to create one.
NothingReturned == table = None => answer \in {None, "NULL"}

HashInv == Hash!TypeOK /\ Lists /\ Once /\ NothingReturned

\* The invariant is more than what the run checks.
LEMMA HashInvGives == HashInv => Hash!TableRight
BY DEF HashInv, Once, Hash!TableRight, Hash!StringsOnce, Hash!Live

\* What the assumptions say of the constants, with the names used here.
LEMMA HashFacts ==
    /\ Buckets \in Nat /\ Buckets > 0 /\ 0 \in Hash!Bucket
    /\ None # "wild" /\ None \notin Str /\ "wild" \notin Str /\ None \notin SUBSET Str
    /\ None \notin [Hash!Bucket -> Seq(Entry)]
<1>1. Buckets \in Nat /\ Buckets > 0 /\ 0 \in Hash!Bucket
  BY HashAssumption DEF Hash!HashTableAssumption, Hash!Bucket
<1>2. None # "wild" /\ None \notin Str /\ "wild" \notin Str /\ None \notin SUBSET Str
  BY HashAssumption DEF Hash!HashTableAssumption
<1>3. None \notin [Hash!Bucket -> Seq(Entry)]
  <2>1. None \notin [0..(Buckets - 1) -> Seq(Str \cup {None, "wild"})]
    <3>1. Hash!HashTableAssumption
      BY HashAssumption
    <3> QED  BY ONLY <3>1, ZenonT(40) DEF Hash!HashTableAssumption
  <2> QED  BY <2>1, Zenon DEF Hash!Bucket, Entry
<1> QED  BY <1>1, <1>2, <1>3, Zenon

\* No table is made at the start.
LEMMA HashInit == Hash!Init => HashInv
BY DEF Hash!Init, HashInv, Hash!TypeOK, Lists, Once, NothingReturned

\* A string is added where no node is the string, nor without one.
LEMMA NewIs ==
    ASSUME HashInv, table # None, NEW s \in Str, Hash!New(s)
    PROVE  \A k \in DOMAIN table[hash[s]] : table[hash[s]][k] \notin {s, None}
<1> DEFINE h == hash[s]
           list == table[h]
           w == Hash!Walk(list, s)
<1>1. h \in Hash!Bucket
  BY DEF HashInv, Hash!TypeOK
<1>2. list \in Seq(Entry)
  BY <1>1 DEF HashInv, Lists
<1>3. \A k \in DOMAIN list : list[k] = "wild" => h = 0 /\ k = Len(list)
  BY <1>1, HashFacts DEF HashInv, Hash!TypeOK
<1>4. w = "NULL" \/ w = "wild"
  BY DEF Hash!New, Hash!Outcomes
<1>5. DOMAIN list = 1..Len(list) /\ Len(list) \in Nat
  BY <1>2
<1> HIDE DEF w, list, h
<1>6. \A k \in DOMAIN list : list[k] \notin {s, None}
  <2>1. CASE \A k \in DOMAIN list : list[k] \notin {s, None, "wild"}
    BY <2>1
  <2>2. CASE \E k \in DOMAIN list :
                /\ list[k] \in {s, None, "wild"}
                /\ \A n \in DOMAIN list : list[n] \in {s, None, "wild"} => k <= n
                /\ w = IF list[k] = s THEN "found" ELSE IF list[k] = None THEN "stops" ELSE "wild"
    <3>1. PICK k \in DOMAIN list :
                /\ list[k] \in {s, None, "wild"}
                /\ \A n \in DOMAIN list : list[n] \in {s, None, "wild"} => k <= n
                /\ w = IF list[k] = s THEN "found" ELSE IF list[k] = None THEN "stops" ELSE "wild"
      BY <2>2
    <3>2. list[k] = "wild" /\ list[k] # s /\ list[k] # None
      BY <1>4, <3>1
    <3>3. k = Len(list)
      BY <1>3, <3>2
    <3>4. ASSUME NEW n \in DOMAIN list, list[n] \in {s, None} PROVE FALSE
      <4>1. k <= n
        BY <3>1, <3>4
      <4>2. n = k
        BY <1>5, <3>3, <4>1
      <4> QED  BY <3>2, <3>4, <4>2
    <3> QED  BY <3>4
  <2> QED  BY <1>2, <2>1, <2>2, WalkStops DEF w
<1> QED  BY <1>6 DEF list, h

\* What an added node changes.
LEMMA LinkedIs ==
    ASSUME HashInv, table # None, NEW s \in Str, NEW copy, copy \in {s, None},
           table' = Hash!Linked(s, copy)
    PROVE  /\ hash[s] \in Hash!Bucket /\ copy \in Entry /\ table[hash[s]] \in Seq(Entry)
           /\ table' \in [Hash!Bucket -> Seq(Entry)]
           /\ table'[hash[s]] = <<copy>> \o table[hash[s]]
           /\ \A b \in Hash!Bucket : b # hash[s] => table'[b] = table[b]
<1>1. hash[s] \in Hash!Bucket /\ table \in [Hash!Bucket -> Seq(Entry)] /\ copy \in Entry
  BY DEF HashInv, Hash!TypeOK, Lists, Entry
<1> DEFINE longer == <<copy>> \o table[hash[s]]
<1>2. table' = [table EXCEPT ![hash[s]] = longer]
  BY DEF Hash!Linked
<1>3. table[hash[s]] \in Seq(Entry) /\ longer \in Seq(Entry)
  BY <1>1, Prepended
<1> HIDE DEF longer
<1>4. /\ table' \in [Hash!Bucket -> Seq(Entry)] /\ table'[hash[s]] = longer
      /\ \A b \in Hash!Bucket : b # hash[s] => table'[b] = table[b]
  BY <1>1, <1>2, <1>3
<1> QED  BY <1>1, <1>3, <1>4 DEF longer

\* With it every list is as it should be.
LEMMA LinkedKeeps ==
    ASSUME HashInv, table # None, NEW s \in Str, Hash!New(s), NEW copy, copy \in {s, None},
           table' = Hash!Linked(s, copy), UNCHANGED <<hash, stopped>>
    PROVE  HashInv'
<1> DEFINE h == hash[s]
           list == table[h]
           longer == <<copy>> \o list
<1>1. /\ h \in Hash!Bucket /\ copy \in Entry /\ list \in Seq(Entry)
      /\ table' \in [Hash!Bucket -> Seq(Entry)] /\ table'[h] = longer
      /\ \A b \in Hash!Bucket : b # h => table'[b] = table[b]
  BY LinkedIs
<1>2. \A k \in DOMAIN list : list[k] # copy
  BY NewIs
<1>3. /\ hash' = hash /\ stopped' = stopped /\ hash \in [Str -> Hash!Bucket] /\ stopped \in BOOLEAN
      /\ \A b \in Hash!Bucket : \A k \in DOMAIN table[b] :
              \/ table[b][k] \in Str \cup {None}
              \/ table[b][k] = "wild" /\ b = 0 /\ k = Len(table[0])
      /\ \A b \in Hash!Bucket :
              /\ \A x \in Hash!Strings(b) : hash[x] = b
              /\ \A j, k \in DOMAIN table[b] : table[b][j] = table[b][k] => j = k
  BY DEF HashInv, Hash!TypeOK, Once
<1>4. /\ Len(longer) = Len(list) + 1
      /\ \A k \in DOMAIN longer : k \in Int
      /\ \A k \in DOMAIN longer :
            \/ k = 1 /\ longer[k] = copy
            \/ k - 1 \in DOMAIN list /\ longer[k] = list[k - 1]
      /\ \A j, k \in DOMAIN longer : longer[j] = longer[k] => j = k
  <2>1. Len(longer) = Len(list) + 1 /\ \A k \in DOMAIN longer : k \in Int
    BY <1>1, Prepended
  <2>2. \A k \in DOMAIN longer : \/ k = 1 /\ longer[k] = copy
                                 \/ k - 1 \in DOMAIN list /\ longer[k] = list[k - 1]
    BY <1>1, PrependedPlaces
  <2>3. \A j, k \in DOMAIN list : list[j] = list[k] => j = k
    BY <1>1, <1>3
  <2>4. ASSUME NEW j \in DOMAIN longer, NEW k \in DOMAIN longer, longer[j] = longer[k] PROVE j = k
    <3>1. copy \in Entry /\ list \in Seq(Entry)
      BY <1>1
    <3> HIDE DEF list
    <3> QED  BY ONLY <1>2, <2>3, <2>4, <3>1, PrependedOnce, Zenon
  <2> QED  BY <2>1, <2>2, <2>4
<1>5. ASSUME NEW b \in Hash!Bucket, NEW k \in DOMAIN table'[b]
      PROVE  \/ table'[b][k] \in Str \cup {None}
             \/ table'[b][k] = "wild" /\ b = 0 /\ k = Len(table'[0])
  <2> HIDE DEF longer, h
  <2>1. CASE b = h
    <3>1. CASE k = 1 /\ longer[k] = copy
      BY <1>1, <2>1, <3>1
    <3>2. CASE k - 1 \in DOMAIN list /\ longer[k] = list[k - 1]
      <4>1. CASE list[k - 1] \in Str \cup {None}
        BY <1>1, <2>1, <3>2, <4>1
      <4>2. CASE list[k - 1] = "wild" /\ h = 0 /\ k - 1 = Len(table[0])
        <5>1. k = Len(list) + 1
          BY <1>1, <1>4, <2>1, <4>2
        <5> QED  BY <1>1, <1>4, <2>1, <3>2, <4>2, <5>1
      <4> QED  BY <1>1, <1>3, <3>2, <4>1, <4>2
    <3> QED  BY <1>1, <1>4, <2>1, <3>1, <3>2
  <2>2. CASE b # h
    <3>1. table'[b] = table[b] /\ (b = 0 => table'[0] = table[0])
      BY <1>1, <2>2
    <3> QED  BY <1>3, <3>1
  <2> QED  BY <2>1, <2>2
<1>6. ASSUME NEW b \in Hash!Bucket
      PROVE  /\ \A x \in Hash!Strings(b)' : hash'[x] = b
             /\ \A j, k \in DOMAIN table'[b] : table'[b][j] = table'[b][k] => j = k
  <2> HIDE DEF longer, h
  <2>1. CASE b = h
    <3>1. ASSUME NEW x \in Hash!Strings(b)' PROVE hash'[x] = b
      <4>1. PICK k \in DOMAIN longer : longer[k] = x
        BY <1>1, <2>1 DEF Hash!Strings, Hash!ToSet
      <4>2. CASE x = copy
        <5>1. x = s
          BY <4>2, HashFacts DEF Hash!Strings
        <5> QED  BY <1>3, <2>1, <5>1 DEF h
      <4>3. CASE k - 1 \in DOMAIN list /\ x = list[k - 1]
        <5>1. x \in Hash!Strings(b)
          BY <2>1, <4>3 DEF Hash!Strings, Hash!ToSet
        <5> QED  BY <1>3, <5>1
      <4> QED  BY <1>4, <4>1, <4>2, <4>3
    <3> QED  BY <1>1, <1>4, <2>1, <3>1
  <2>2. CASE b # h
    <3>1. table'[b] = table[b] /\ Hash!Strings(b)' = Hash!Strings(b)
      BY <1>1, <2>2 DEF Hash!Strings
    <3> QED  BY <1>3, <3>1
  <2> QED  BY <2>1, <2>2
<1>7. table' # None
  BY <1>1, HashFacts
<1> HIDE DEF longer, list, h
<1>8. Hash!TypeOK'
  BY <1>3, <1>5 DEF Hash!TypeOK
<1>9. Lists' /\ NothingReturned'
  BY <1>1, <1>7 DEF Lists, NothingReturned
<1>10. Once'
  BY <1>6 DEF Once
<1> QED  BY <1>8, <1>9, <1>10 DEF HashInv

\* Without a new node nothing can go wrong.
LEMMA HashSame ==
    ASSUME HashInv, UNCHANGED <<hash, table>>, stopped' \in BOOLEAN,
           table = None => answer' \in {None, "NULL"}
    PROVE  HashInv'
BY DEF HashInv, Hash!TypeOK, Lists, Once, NothingReturned, Hash!Strings

\* A new table has empty lists, but the first may end nowhere.
LEMMA CreateMakes ==
    ASSUME HashInv, Hash!Create
    PROVE  /\ table' \in [Hash!Bucket -> {<<>>, <<"wild">>}]
           /\ \A b \in Hash!Bucket : table'[b] = <<"wild">> => b = 0
           /\ table' \in [Hash!Bucket -> Seq(Entry)]
<1>1. PICK m \in Memory :
          table' = [b \in Hash!Bucket |-> IF b = 0 /\ m = "wild" THEN <<"wild">> ELSE <<>>]
  BY DEF Hash!Create
<1>2. <<"wild">> \in Seq(Entry) /\ <<>> \in Seq(Entry) /\ <<"wild">> # <<>>
  BY DEF Entry
<1> QED  BY <1>1, <1>2

\* That is a right table.
LEMMA CreateKeeps == ASSUME HashInv, Hash!Create PROVE HashInv'
<1>1. /\ table' \in [Hash!Bucket -> {<<>>, <<"wild">>}]
      /\ \A b \in Hash!Bucket : table'[b] = <<"wild">> => b = 0
      /\ table' \in [Hash!Bucket -> Seq(Entry)]
  BY CreateMakes
<1>2. /\ hash' = hash /\ stopped' = stopped /\ answer' = None
      /\ hash \in [Str -> Hash!Bucket] /\ stopped \in BOOLEAN
  BY DEF HashInv, Hash!TypeOK, Hash!Create
<1>3. ASSUME NEW b \in Hash!Bucket, NEW k \in DOMAIN table'[b]
      PROVE  b = 0 /\ table'[b] = <<"wild">> /\ table'[b][k] = "wild" /\ k = 1 /\ Len(table'[0]) = 1
  <2>1. table'[b] = <<"wild">>
    <3>1. DOMAIN <<>> = {}
      OBVIOUS
    <3> QED  BY <1>1, <1>3, <3>1
  <2>2. b = 0
    BY <1>1, <2>1
  <2> QED  BY <1>3, <2>1, <2>2
<1>4. Hash!TypeOK'
  BY <1>2, <1>3 DEF Hash!TypeOK
<1>5. \A b \in Hash!Bucket : Hash!Strings(b)' = {}
  BY <1>3, HashFacts DEF Hash!Strings, Hash!ToSet
<1>6. Once'
  BY <1>3, <1>5 DEF Once
<1>7. Lists' /\ NothingReturned'
  BY <1>1, <1>2 DEF Lists, NothingReturned
<1> QED  BY <1>4, <1>6, <1>7 DEF HashInv

\* Every call keeps the table right, and so does a crash.
LEMMA HashNext == HashInv /\ [Hash!Next]_(Hash!vars) => HashInv'
<1> SUFFICES ASSUME HashInv, [Hash!Next]_(Hash!vars) PROVE HashInv'
  OBVIOUS
<1> USE DEF Hash!Stop
<1>0. stopped \in BOOLEAN /\ (table = None => answer \in {None, "NULL"})
  BY DEF HashInv, Hash!TypeOK, NothingReturned
<1>1. CASE Hash!CreateFails
  BY <1>0, <1>1, HashSame DEF Hash!CreateFails
<1>2. CASE Hash!Create
  BY <1>2, CreateKeeps
<1>3. CASE Hash!free_table
  <2>1. CASE table' = None
    <3>1. hash' = hash /\ stopped' \in BOOLEAN /\ answer' = None
      BY <1>0, <1>3, <2>1 DEF Hash!free_table
    <3> QED  BY <2>1, <3>1 DEF HashInv, Hash!TypeOK, Lists, Once, NothingReturned
  <2>2. CASE table' # None
    <3>1. Hash!Stop /\ table # None
      BY <1>3, <2>2 DEF Hash!free_table
    <3> QED  BY <3>1, HashSame
  <2> QED  BY <2>1, <2>2
<1>4. CASE Hash!HeapDestroyed
  BY <1>4, HashSame DEF Hash!HeapDestroyed
<1>5. ASSUME NEW s \in Str, Hash!lookup_string(s) PROVE HashInv'
  <2>1. table # None /\ hash' = hash /\ table' = table /\ stopped' \in BOOLEAN
    BY <1>0, <1>5 DEF Hash!lookup_string
  <2> QED  BY <2>1, HashSame
<1>6. ASSUME NEW s \in Str, Hash!add_string(s) PROVE HashInv'
  <2>1. CASE \E copy \in {s, None} : /\ Hash!New(s) /\ table' = Hash!Linked(s, copy)
                                     /\ UNCHANGED <<hash, stopped>>
    <3>1. table # None
      BY <1>6 DEF Hash!add_string
    <3> QED  BY <2>1, <3>1, LinkedKeeps
  <2>2. CASE table # None /\ hash' = hash /\ table' = table /\ stopped' \in BOOLEAN
    BY <2>2, HashSame
  <2> QED  BY <1>0, <1>6, <2>1, <2>2 DEF Hash!add_string
<1>7. CASE UNCHANGED Hash!vars
  BY <1>0, <1>7, HashSame DEF Hash!vars
<1> QED  BY <1>1, <1>2, <1>3, <1>4, <1>5, <1>6, <1>7 DEF Hash!Next

\* What a step keeps of every bucket but 0.
StringsKept == table # None /\ table' # None =>
    \A b \in Hash!Bucket :
        b # 0 => Hash!Strings(b) \subseteq {s \in Str : s \in Hash!ToSet(table'[b])}

\* No call takes a string from a bucket but 0 unless it frees the table.
LEMMA StepKeepsOthers == HashInv /\ [Hash!Next]_(Hash!vars) => StringsKept
<1> SUFFICES ASSUME HashInv, [Hash!Next]_(Hash!vars), table # None, table' # None
             PROVE  \A b \in Hash!Bucket :
                        Hash!Strings(b) \subseteq {s \in Str : s \in Hash!ToSet(table'[b])}
  BY DEF StringsKept
<1>1. CASE table' = table
  BY <1>1 DEF Hash!Strings
<1>2. CASE \E s \in Str : \E copy \in {s, None} : table' = Hash!Linked(s, copy)
  <2>1. PICK s \in Str : \E c \in {s, None} : table' = Hash!Linked(s, c)
    BY <1>2
  <2>2. PICK copy \in {s, None} : table' = Hash!Linked(s, copy)
    BY <2>1
  <2> DEFINE h == hash[s]
             list == table[h]
  <2>3. /\ h \in Hash!Bucket /\ copy \in Entry /\ list \in Seq(Entry)
        /\ table'[h] = <<copy>> \o list
        /\ \A b \in Hash!Bucket : b # h => table'[b] = table[b]
    BY <2>2, LinkedIs
  <2> HIDE DEF h
  <2>4. ASSUME NEW x \in Hash!Strings(h) PROVE x \in Str /\ x \in Hash!ToSet(<<copy>> \o list)
    <3>1. x \in Str /\ \E k \in DOMAIN list : list[k] = x
      BY DEF Hash!Strings, Hash!ToSet
    <3>2. PICK k \in DOMAIN list : list[k] = x
      BY <3>1
    <3> HIDE DEF list
    <3>3. k \in 1..Len(list) /\ k + 1 \in DOMAIN (<<copy>> \o list) /\ (<<copy>> \o list)[k + 1] = x
      BY <2>3, <3>2, Prepended
    <3> QED  BY <3>1, <3>3 DEF Hash!ToSet
  <2> HIDE DEF list
  <2> QED  BY <2>3, <2>4 DEF Hash!Strings
<1>3. table' = table \/ \E s \in Str : \E copy \in {s, None} : table' = Hash!Linked(s, copy)
  BY DEF Hash!Next, Hash!vars, Hash!CreateFails, Hash!Create, Hash!free_table, Hash!HeapDestroyed,
         Hash!lookup_string, Hash!add_string, Hash!Stop
<1> QED  BY <1>1, <1>2, <1>3

\* A step on zeroed memory without failures is one of the hash table.
LEMMA SetIsHash == Set!Next => Hash!Next
<1> SUFFICES ASSUME Set!Next PROVE Hash!Next
  OBVIOUS
<1>1. CASE Set!CreateFails
  BY <1>1 DEF Set!CreateFails, Hash!CreateFails, Hash!Next
<1>2. CASE Set!Create
  BY <1>2, HashAssumption DEF Set!Create, Hash!Create, Set!Bucket, Hash!Bucket, Hash!Next
<1>3. CASE Set!free_table
  BY <1>3 DEF Set!free_table, Hash!free_table, Set!Stop, Hash!Stop, Set!ToSet, Hash!ToSet, Hash!Next
<1>4. CASE Set!HeapDestroyed
  BY <1>4 DEF Set!HeapDestroyed
<1>5. \A s \in Str : Set!Outcomes(s) = Hash!Outcomes(s)
  BY DEF Set!Outcomes, Hash!Outcomes, Set!Walk, Hash!Walk
<1>6. ASSUME NEW s \in Str, Set!lookup_string(s) PROVE Hash!Next
  <2>1. Hash!lookup_string(s)
    BY <1>5, <1>6 DEF Set!lookup_string, Hash!lookup_string, Set!Stop, Hash!Stop
  <2> QED  BY <2>1 DEF Hash!Next
<1>7. ASSUME NEW s \in Str, Set!add_string(s) PROVE Hash!Next
  <2>1. Hash!add_string(s)
    BY <1>5, <1>7, HashAssumption
    DEF Set!add_string, Hash!add_string, Set!Stop, Hash!Stop, Set!New, Hash!New, Set!Linked, Hash!Linked
  <2> QED  BY <2>1 DEF Hash!Next
<1> QED  BY <1>1, <1>2, <1>3, <1>4, <1>6, <1>7 DEF Set!Next

-----------------------------------------------------------------------------
(* The set of strings *)

\* In the table of "set" every node has its string.
AllStrings == running = "set" /\ table # None =>
                  \A b \in Hash!Bucket : \A k \in DOMAIN table[b] : table[b][k] \in Str

\* The set it stands for.
Members == UNION {Hash!Strings(b) : b \in Hash!Bucket}
TheSet == IF running = "set" /\ table # None THEN Members ELSE None
TheAnswer == IF running = "set" /\ ~(answer = "NULL" /\ table = None) THEN answer ELSE None

\* What is seen of the table of "set" is that set, and so it is after a step.
SeenIsSet ==
    /\ TheSet = IF OfSet(table) = None THEN None
                ELSE UNION {SetSeen!Strings(b) : b \in SetSeen!Bucket}
    /\ TheAnswer = IF OfSet(answer) = "NULL" /\ OfSet(table) = None THEN None ELSE OfSet(answer)

\* It is that in every state,
LEMMA Seen == SeenIsSet
<1> DEFINE union == UNION {SetSeen!Strings(b) : b \in SetSeen!Bucket}
<1>1. TheAnswer = IF OfSet(answer) = "NULL" /\ OfSet(table) = None THEN None ELSE OfSet(answer)
  BY DEF TheAnswer, OfSet
<1>2. ASSUME running = "set", table # None PROVE union = Members /\ OfSet(table) = table
  <2>1. OfSet(table) = table
    BY <1>2 DEF OfSet
  <2>2. \A b : SetSeen!Strings(b) = Hash!Strings(b)
    BY <2>1 DEF SetSeen!Strings, Hash!Strings, SetSeen!ToSet, Hash!ToSet
  <2>3. SetSeen!Bucket = Hash!Bucket
    BY DEF SetSeen!Bucket, Hash!Bucket
  <2> QED  BY <2>1, <2>2, <2>3 DEF Members
<1> HIDE DEF union
<1>3. TheSet = IF OfSet(table) = None THEN None ELSE union
  BY <1>2 DEF TheSet, OfSet
<1> QED  BY <1>1, <1>3 DEF SeenIsSet, union

\* and in the next one.
LEMMA SeenNext == SeenIsSet'
BY Seen, PTL

\* What a walk through the list of a string finds.
LEMMA SetOutcome ==
    ASSUME HashInv, AllStrings, running = "set", table # None, NEW s \in Str
    PROVE  Hash!Outcomes(s) = {IF s \in Members THEN "found" ELSE "NULL"}
<1> DEFINE h == hash[s]
           list == table[h]
           w == Hash!Walk(list, s)
<1>1. h \in Hash!Bucket /\ list \in Seq(Entry)
  BY DEF HashInv, Hash!TypeOK, Lists
<1>2. \A k \in DOMAIN list : list[k] \in Str
  BY <1>1 DEF AllStrings
<1>3. s \in Members <=> s \in Hash!Strings(h)
  BY <1>1 DEF HashInv, Once, Members
<1>4. s \in Members <=> \E k \in DOMAIN list : list[k] = s
  BY <1>3 DEF Hash!Strings, Hash!ToSet
<1>5. Hash!Outcomes(s) = IF w = "wild" THEN {"found", "NULL", "stops"} ELSE {w}
  BY DEF Hash!Outcomes
<1>6. \/ /\ \A k \in DOMAIN list : list[k] \notin {s, None, "wild"}
         /\ w = "NULL"
      \/ \E k \in DOMAIN list :
            /\ list[k] \in {s, None, "wild"}
            /\ w = IF list[k] = s THEN "found" ELSE IF list[k] = None THEN "stops" ELSE "wild"
  BY <1>1, WalkStops
<1> HIDE DEF w, list, h
<1>7. w = IF s \in Members THEN "found" ELSE "NULL"
  BY <1>2, <1>4, <1>6, HashFacts
<1> QED  BY <1>5, <1>7

\* A string added to the table is added to the set.
LEMMA SetLinked ==
    ASSUME HashInv, AllStrings, running = "set", table # None, running' = "set",
           NEW s \in Str, table' = Hash!Linked(s, s)
    PROVE  AllStrings' /\ Members' = Members \cup {s} /\ table' # None
<1>0. PICK h \in Hash!Bucket : h = hash[s]
  BY DEF HashInv, Hash!TypeOK
<1> DEFINE list == table[h]
           longer == <<s>> \o list
<1>1. /\ h \in Hash!Bucket /\ s \in Entry /\ list \in Seq(Entry)
      /\ table' \in [Hash!Bucket -> Seq(Entry)] /\ table'[h] = longer
      /\ \A b \in Hash!Bucket : b # h => table'[b] = table[b]
  BY <1>0, LinkedIs
<1>2. \A b \in Hash!Bucket : \A k \in DOMAIN table[b] : table[b][k] \in Str
  BY DEF AllStrings
<1>3. /\ \A k \in DOMAIN longer :
            \/ k = 1 /\ longer[k] = s
            \/ k - 1 \in DOMAIN list /\ longer[k] = list[k - 1]
      /\ 1 \in DOMAIN longer /\ longer[1] = s
      /\ \A k \in DOMAIN list : k + 1 \in DOMAIN longer /\ longer[k + 1] = list[k]
  <2>1. \A k \in DOMAIN longer :
            \/ k = 1 /\ longer[k] = s
            \/ k - 1 \in DOMAIN list /\ longer[k] = list[k - 1]
    BY <1>1, PrependedPlaces
  <2> HIDE DEF list
  <2> QED  BY <1>1, <2>1, Prepended
<1> HIDE DEF longer
<1>4. \A b \in Hash!Bucket : \A k \in DOMAIN table'[b] : table'[b][k] \in Str
  <2>1. \A k \in DOMAIN longer : longer[k] \in Str
    BY <1>1, <1>2, <1>3
  <2> HIDE DEF list
  <2> QED  BY <1>1, <1>2, <2>1
<1>5. Hash!Strings(h)' = Hash!Strings(h) \cup {s}
  <2>1. ASSUME NEW x \in Hash!Strings(h)' PROVE x \in Hash!Strings(h) \cup {s}
    <3>1. x \in Str /\ \E k \in DOMAIN longer : longer[k] = x
      BY <1>1, <2>1 DEF Hash!Strings, Hash!ToSet
    <3>2. x = s \/ \E k \in DOMAIN list : list[k] = x
      BY <1>3, <3>1
    <3> QED  BY <3>1, <3>2 DEF Hash!Strings, Hash!ToSet
  <2>2. ASSUME NEW x \in Hash!Strings(h) PROVE x \in Hash!Strings(h)'
    <3>1. PICK k \in DOMAIN list : list[k] = x
      BY DEF Hash!Strings, Hash!ToSet
    <3>2. x \in Str
      BY DEF Hash!Strings
    <3>3. k + 1 \in DOMAIN longer /\ longer[k + 1] = x
      BY <1>3, <3>1
    <3> HIDE DEF list
    <3> QED  BY <1>1, <3>2, <3>3 DEF Hash!Strings, Hash!ToSet
  <2>3. s \in Hash!Strings(h)'
    BY <1>1, <1>3 DEF Hash!Strings, Hash!ToSet
  <2> QED  BY <2>1, <2>2, <2>3
<1>6. \A b \in Hash!Bucket : b # h => Hash!Strings(b)' = Hash!Strings(b)
  BY <1>1 DEF Hash!Strings
<1> HIDE DEF list
<1>7. Members' = Members \cup {s}
  BY <1>1, <1>5, <1>6 DEF Members
<1> QED  BY <1>1, <1>4, <1>7, HashFacts DEF AllStrings

\* Creating the table on zeroed memory gives the empty set.
LEMMA SetCreates ==
    ASSUME HashInv, running' = "set", Set!Create
    PROVE  AllStrings' /\ Members' = {} /\ table' # None
<1>1. table' = [b \in Hash!Bucket |-> <<>>]
  BY DEF Set!Create, Set!Bucket, Hash!Bucket
<1>2. \A b \in Hash!Bucket : table'[b] = <<>> /\ DOMAIN table'[b] = {}
  BY <1>1
<1>3. \A b \in Hash!Bucket : Hash!Strings(b)' = {}
  BY <1>2 DEF Hash!Strings, Hash!ToSet
<1>4. table' \in [Hash!Bucket -> Seq(Entry)]
  BY <1>1
<1> QED  BY <1>2, <1>3, <1>4, HashFacts DEF AllStrings, Members

\* What a step of "set" does to the set, and to the answer.
SetGoes ==
    \/ TheSet = None /\ TheSet' = {} /\ TheAnswer' = None
    \/ TheSet # None /\ TheSet' = None /\ TheAnswer' = None
    \/ \E s \in Str :
          \/ TheSet # None /\ s \in TheSet /\ TheAnswer' = "STR_EXISTS" /\ TheSet' = TheSet
          \/ TheSet # None /\ s \notin TheSet /\ TheAnswer' = "SUCCESS" /\ TheSet' = TheSet \cup {s}
          \/ TheSet # None /\ s \notin TheSet /\ TheAnswer' = "MEM_ERROR" /\ TheSet' = TheSet
          \/ /\ TheSet # None /\ TheSet' = TheSet
             /\ TheAnswer' = IF s \in TheSet THEN "found" ELSE "NULL"
    \/ TheSet' = TheSet /\ TheAnswer' = TheAnswer

\* Every call on zeroed memory is one of the set, or leaves it as it is.
LEMMA SetStepGoes ==
    ASSUME HashInv, AllStrings, running = "set", running' = "set", Set!Next
    PROVE  SetGoes /\ AllStrings'
<1>1. /\ table # None => TheSet = Members /\ TheSet # None /\ TheAnswer = answer
      /\ table = None => TheSet = None /\ TheAnswer = None
  <2>1. Members \in SUBSET Str
    BY DEF Members, Hash!Strings
  <2>2. Members # None
    BY <2>1, HashFacts
  <2> QED  BY <2>2 DEF TheSet, TheAnswer, HashInv, NothingReturned
<1>2. /\ table' # None => TheSet' = Members' /\ TheAnswer' = answer'
      /\ table' = None => TheSet' = None
      /\ table' = None /\ answer' \in {None, "NULL"} => TheAnswer' = None
  BY DEF TheSet, TheAnswer
<1>3. table' = table => AllStrings' /\ Members' = Members
  BY DEF AllStrings, Members, Hash!Strings
<1>4. CASE Set!CreateFails
  BY <1>1, <1>2, <1>3, <1>4 DEF Set!CreateFails, SetGoes
<1>5. CASE Set!Create
  <2>1. table = None /\ answer' = None
    BY <1>5 DEF Set!Create
  <2> QED  BY <1>1, <1>2, <1>5, <2>1, SetCreates DEF SetGoes
<1>6. CASE Set!free_table
  <2>1. 0 \in Hash!Bucket /\ table # None
    BY <1>6, HashFacts DEF Set!free_table
  <2>2. "wild" \notin Set!ToSet(table[0])
    BY <2>1, HashFacts DEF AllStrings, Set!ToSet
  <2>3. table' = None /\ answer' = None
    BY <1>6, <2>2 DEF Set!free_table
  <2>4. AllStrings'
    BY <2>3 DEF AllStrings
  <2> QED  BY <1>1, <1>2, <2>1, <2>3, <2>4 DEF SetGoes
<1>7. CASE Set!HeapDestroyed
  BY <1>7 DEF Set!HeapDestroyed
<1>8. ASSUME NEW s \in Str, table # None
      PROVE  Set!Outcomes(s) = {IF s \in Members THEN "found" ELSE "NULL"}
  <2>1. Set!Outcomes(s) = Hash!Outcomes(s)
    BY DEF Set!Outcomes, Hash!Outcomes, Set!Walk, Hash!Walk
  <2> QED  BY <1>8, <2>1, SetOutcome
<1>9. ASSUME NEW s \in Str, Set!lookup_string(s) PROVE SetGoes /\ AllStrings'
  <2>1. table # None
    BY <1>9 DEF Set!lookup_string
  <2>2. table' = table /\ answer' = IF s \in Members THEN "found" ELSE "NULL"
    BY <1>8, <1>9, <2>1 DEF Set!lookup_string
  <2>3. TheSet = Members /\ TheSet # None /\ TheSet' = TheSet /\ TheAnswer' = answer' /\ AllStrings'
    BY <1>1, <1>2, <1>3, <2>1, <2>2
  <2> HIDE DEF TheSet, TheAnswer, Members
  <2> QED  BY <2>2, <2>3 DEF SetGoes
<1>10. ASSUME NEW s \in Str, Set!add_string(s) PROVE SetGoes /\ AllStrings'
  <2>1. table # None /\ Set!Outcomes(s) = {IF s \in Members THEN "found" ELSE "NULL"}
    BY <1>8, <1>10 DEF Set!add_string
  <2>2. \/ s \in Members /\ answer' = "STR_EXISTS" /\ table' = table
        \/ s \notin Members /\ answer' = "MEM_ERROR" /\ table' = table
        \/ s \notin Members /\ answer' = "SUCCESS" /\ table' = Hash!Linked(s, s)
    BY <1>10, <2>1 DEF Set!add_string, Set!New, Set!Linked, Hash!Linked
  <2>3. CASE table' = table
    <3>1. TheSet = Members /\ TheSet # None /\ TheSet' = TheSet /\ TheAnswer' = answer' /\ AllStrings'
      BY <1>1, <1>2, <1>3, <2>1, <2>3
    <3>2. \/ s \in Members /\ answer' = "STR_EXISTS"
          \/ s \notin Members /\ answer' = "MEM_ERROR"
          \/ s \notin Members /\ answer' = "SUCCESS" /\ table' = Hash!Linked(s, s)
      BY <2>2
    <3>3. CASE s \notin Members /\ answer' = "SUCCESS" /\ table' = Hash!Linked(s, s)
      BY <1>1, <1>2, <2>1, <3>3, SetLinked DEF SetGoes
    <3> QED  BY <3>1, <3>2, <3>3 DEF SetGoes
  <2>4. CASE s \notin Members /\ answer' = "SUCCESS" /\ table' = Hash!Linked(s, s)
    BY <1>1, <1>2, <2>1, <2>4, SetLinked DEF SetGoes
  <2> QED  BY <2>2, <2>3, <2>4
<1> QED  BY <1>4, <1>5, <1>6, <1>7, <1>9, <1>10 DEF Set!Next

\* That is a step of the set.
LEMMA SetGoesOn ==
    ASSUME SetGoes
    PROVE  [SetSeen!IsStringSet!Next]_<<
              IF OfSet(table) = None THEN None
              ELSE UNION {SetSeen!Strings(b) : b \in SetSeen!Bucket},
              IF OfSet(answer) = "NULL" /\ OfSet(table) = None THEN None ELSE OfSet(answer)>>
BY Seen, SeenNext
DEF SetGoes, SeenIsSet, SetSeen!IsStringSet!Next, SetSeen!IsStringSet!Create, SetSeen!IsStringSet!Free,
    SetSeen!IsStringSet!Add, SetSeen!IsStringSet!Lookup
-----------------------------------------------------------------------------
(* The programs together *)

\* The invariants of the parts, which all hold whichever program runs.
AllInv == Inv /\ MergeStrong /\ Digit!NumbersRight /\ HashInv /\ AllStrings

\* Every part starts in an initial state of its own, and every step is one of a part
\* and leaves the others as they are.
LEMMA Parts == MCInit => Init /\ Merge!Init /\ Digit!Init /\ Hash!Init
BY DEF MCInit, ProductIdle, MergeIdle, NumbersIdle, HashIdle, OthersIdle

\* So is every step one of each part, or none.
LEMMA PartsStep ==
    ASSUME [MCNext]_all
    PROVE  /\ [Next]_vars /\ [Merge!Next]_(Merge!vars) /\ [Digit!Next]_(Digit!vars)
           /\ [Hash!Next]_(Hash!vars)
           /\ running' = running
           /\ (running = "set" /\ Set!Next) \/ UNCHANGED Hash!vars \/ running # "set"
<1> USE DEF Merge!vars, Digit!vars, Hash!vars, merging, numbers, tables
<1>1. CASE ProductStep
  BY <1>1 DEF ProductStep
<1>2. CASE MergeStep
  BY <1>2 DEF MergeStep, Others
<1>3. CASE NumbersStep
  BY <1>3 DEF NumbersStep
<1>4. CASE HashStep
  BY <1>4 DEF HashStep
<1>5. CASE SetStep
  BY <1>5, SetIsHash DEF SetStep
<1>6. CASE SortStep
  BY <1>6 DEF SortStep
<1>7. CASE TreeStep
  BY <1>7 DEF TreeStep
<1>8. CASE UNCHANGED all
  BY <1>8 DEF all
<1> QED  BY <1>1, <1>2, <1>3, <1>4, <1>5, <1>6, <1>7, <1>8 DEF MCNext

\* A step of the table that is not one of "set" is none that the set sees.
LEMMA SetOrNot ==
    ASSUME AllInv, [MCNext]_all
    PROVE  /\ AllStrings'
           /\ \/ SetGoes
              \/ TheSet' = TheSet /\ TheAnswer' = TheAnswer
<1>1. CASE running = "set" /\ Set!Next
  BY <1>1, PartsStep, SetStepGoes DEF AllInv
<1>2. CASE UNCHANGED Hash!vars
  BY <1>2, PartsStep
  DEF AllInv, AllStrings, TheSet, TheAnswer, Members, Hash!Strings, Hash!Bucket, Hash!vars
<1>3. CASE running # "set"
  BY <1>3, PartsStep DEF AllStrings, TheSet, TheAnswer
<1> QED  BY <1>1, <1>2, <1>3, PartsStep

\* All invariants hold at the start,
LEMMA AllStart == MCInit => AllInv
<1> SUFFICES ASSUME MCInit PROVE AllInv
  OBVIOUS
<1>1. Init /\ Merge!Init /\ Digit!Init /\ Hash!Init
  BY Parts
<1>2. AllStrings
  BY <1>1 DEF Hash!Init, AllStrings
<1> QED  BY <1>1, <1>2, InvInit, MergeStart, NumbersInit, HashInit DEF AllInv

\* after every step,
LEMMA AllNext == AllInv /\ [MCNext]_all => AllInv'
<1> SUFFICES ASSUME AllInv, [MCNext]_all PROVE AllInv'
  OBVIOUS
<1>1. /\ [Next]_vars /\ [Merge!Next]_(Merge!vars) /\ [Digit!Next]_(Digit!vars)
      /\ [Hash!Next]_(Hash!vars)
  BY PartsStep
<1>2. Inv'
  BY <1>1, InvNext DEF AllInv
<1>3. MergeStrong'
  BY <1>1, MergeKeeps DEF AllInv
<1>4. Digit!NumbersRight'
  BY <1>1, NumbersNext DEF AllInv
<1>5. HashInv'
  BY <1>1, HashNext DEF AllInv
<1> QED  BY <1>2, <1>3, <1>4, <1>5, SetOrNot DEF AllInv

\* and so always.
LEMMA AllAlways == MCSpec => []AllInv
BY AllStart, AllNext, PTL DEF MCSpec

\* What is proved of a program alone is true of it here.
THEOREM EachForItself == MCSpec => Spec /\ Merge!Spec /\ Digit!Spec /\ Hash!Spec
BY Parts, PartsStep, PTL DEF MCSpec, Spec, Merge!Spec, Digit!Spec, Hash!Spec

-----------------------------------------------------------------------------
(* Their properties *)

\* The product that main prints is complete, patten_matching.c prints every number but
\* the runs of digits and top.c no run up to 999, and a string is in the table once, in
\* its bucket: for every size and every string.
THEOREM ProgramsRight == MCSpec => []ResultsRight
<1>1. AllInv => ResultsRight
  BY HashInvGives, ProductDone DEF AllInv, ResultsRight
<1> QED  BY <1>1, AllAlways, PTL

\* The threaded merge of sorted arrays of every length: searches end for elements of one
\* array, what is written is where it belongs, and without spurious wakeups and common
\* elements all of it is written before main prints.
THEOREM MergeCorrect == MCSpec => []MergeInv
<1>1. AllInv => MergeInv
  BY MergeGives DEF AllInv
<1> QED  BY <1>1, AllAlways, PTL

\* Without spurious wakeups no two threads place the same element.
THEOREM IndexesOnce == MCSpec => []IndexOnce
<1>1. AllInv => IndexOnce
  BY MergeGives DEF AllInv
<1> QED  BY <1>1, AllAlways, PTL

\* A string of a bucket but 0 stays until the table is freed, whatever else fails.
THEOREM StringsStay == MCSpec => OthersKept
<1>1. AllInv /\ [MCNext]_all => [StringsKept]_(Hash!vars)
  BY PartsStep, StepKeepsOthers DEF AllInv
<1>2. MCSpec => [][StringsKept]_(Hash!vars)
  BY <1>1, AllAlways, PTL DEF MCSpec
<1> QED  BY <1>2, PTL DEF OthersKept, Hash!OthersKept, StringsKept

\* On zeroed memory, if _strdup does not fail, the hash table is a set of strings.
THEOREM TableIsSet == MCSpec => ImplementsSet
<1>1. MCInit => SetSeen!IsStringSet!Init
  BY Parts, Seen DEF SeenIsSet, TheSet, TheAnswer, Hash!Init, SetSeen!IsStringSet!Init
<1>2. AllInv /\ [MCNext]_all => SetGoes
  BY SetOrNot DEF SetGoes
<1>3. MCSpec => [][SetSeen!IsStringSet!Next]_<<
              IF OfSet(table) = None THEN None
              ELSE UNION {SetSeen!Strings(b) : b \in SetSeen!Bucket},
              IF OfSet(answer) = "NULL" /\ OfSet(table) = None THEN None ELSE OfSet(answer)>>
  BY <1>2, SetGoesOn, AllAlways, PTL DEF MCSpec
<1> QED  BY <1>1, <1>3, PTL DEF MCSpec, ImplementsSet, SetSeen!ImplementsSet, SetSeen!IsStringSet!Spec
=============================================================================
