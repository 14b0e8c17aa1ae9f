----------------------------- MODULE MCPrograms -----------------------------
(* Models of ArrayMerge, MatMul, Numbers, HashTable, Sorting and BinTree,    *)
(* programs that have nothing in common: a behaviour is one of the program  *)
(* chosen in `running`, and the others stay in one initial state of theirs. *)
(*                                                                         *)
(* The arrays to merge are small ones of all kinds, longer ones that the    *)
(* search takes several turns for, and the smallest with spurious wakeups;  *)
(* mat_mul.c has no thread, a negative number, fewer threads than rows, as  *)
(* many, or more.  The number programs run to their end.  The hash table    *)
(* has four strings in three buckets; as "set" its memory is zeroed and     *)
(* _strdup does not fail.  The arrays to sort have up to five numbers out   *)
(* of four, for a heap of four and a method that looks at four; the trees   *)
(* have five nodes over four values.                                        *)
EXTENDS MatMul, Sequences

CONSTANTS Inputs,     \* of ArrayMerge
          Str, None, Buckets, Memory, Lost  \* of HashTable (Buckets is its Size)

VARIABLES running,
          arr1, arr2, arr3, spurious, count, mutex, where, turn, pc, index, \* ArrayMerge
          program, number, digits, last,   \* Numbers
          hash, table, answer, stopped,    \* HashTable
          arr, arrB, sorter, sorted,       \* Sorting
          nodes, met, reply, alive         \* BinTree

merging == <<arr1, arr2, arr3, spurious, count, mutex, where, turn, pc, index>>
numbers == <<program, number, digits, last>>
tables  == <<hash, table, answer, stopped>>
sorting == <<arr, arrB, sorter, sorted>>
trees   == <<nodes, met, reply, alive>>
all     == <<running, vars, merging, numbers, tables, sorting, trees>>

Merge == INSTANCE ArrayMerge WITH at <- where, i <- turn
Digit == INSTANCE Numbers WITH j <- number, i <- digits
Hash  == INSTANCE HashTable WITH Size <- Buckets, ret <- answer
Set   == INSTANCE HashTable WITH
            Size <- Buckets, Memory <- {"zero"}, Lost <- {FALSE}, ret <- answer

\* The table of "set", and one that is never made in the other behaviours.
OfSet(v) == IF running = "set" THEN v ELSE None
SetSeen == INSTANCE HashTable WITH
              Size <- Buckets, Memory <- {"zero"}, Lost <- {FALSE},
              table <- OfSet(table), ret <- OfSet(answer)

Sort == INSTANCE Sorting WITH
            Value <- -1..2, MaxLen <- 5, MaxLen2 <- 2, MAX <- 4, Fixed <- 4,
            Header <- {17, 33}, Junk <- 99,
            arr2 <- arrB, program <- sorter, out <- sorted
Tree == INSTANCE BinTree WITH Value <- 1..4, MaxNode <- 5, out <- met, ret <- reply

ASSUME MergeAssumption == Merge!MergeAssumption /\ Merge!SortedAssumption

\* Memory may be zeroed and _strdup may succeed: a table of "set" is one of "hash".
ASSUME HashAssumption == Hash!HashTableAssumption /\ "zero" \in Memory /\ FALSE \in Lost

-----------------------------------------------------------------------------
(* The instances. *)

SmallArguments == -1..6

\* The sorted arrays of up to n elements.
Sorteds(values, n) ==
    {a \in UNION {[1..k -> values] : k \in 0..n} :
        \A j \in DOMAIN a : j > 1 => a[j - 1] <= a[j]}

\* Two arrays of up to two elements each, which may have common elements.
SmallInputs == Sorteds(1..3, 2) \X Sorteds(1..3, 2)

\* One array of one element at most.
FewInputs == Sorteds(1..3, 1) \X Sorteds(1..3, 2)

\* One element before, in every gap of, and after longer arrays.
LongInputs == {<<x>> : x \in {1, 3, 5, 7, 9}}
              \X {<<2, 4, 6>>, <<2, 4, 6, 8>>, <<2, 2, 6>>, <<2, 4, 4, 8>>}

AllInputs == {<<in[1], in[2], FALSE>> : in \in SmallInputs \cup LongInputs}
             \cup {<<in[1], in[2], TRUE>> : in \in FewInputs}

-----------------------------------------------------------------------------

ProductIdle == Init /\ \A n \in Argument : num_threads <= n
MergeIdle   == Merge!Init /\ arr1 = <<>> /\ arr2 = <<>> /\ ~spurious
NumbersIdle == Digit!Init /\ program = "top"
HashIdle    == Hash!Init /\ hash = [s \in Str |-> 0]

SortIdle    == Sort!Init /\ arr = <<>>
OthersIdle  == ProductIdle /\ MergeIdle /\ NumbersIdle /\ HashIdle

MCInit == /\ Tree!Init
          /\ \/ running = "product" /\ Init /\ MergeIdle /\ NumbersIdle /\ HashIdle /\ SortIdle
             \/ running = "merge" /\ ProductIdle /\ Merge!Init /\ NumbersIdle /\ HashIdle /\ SortIdle
             \/ running = "numbers" /\ ProductIdle /\ MergeIdle /\ Digit!Init /\ HashIdle /\ SortIdle
             \/ /\ running \in {"hash", "set"}
                /\ ProductIdle /\ MergeIdle /\ NumbersIdle /\ Hash!Init /\ SortIdle
             \/ running = "sorting" /\ OthersIdle /\ Sort!Init
             \/ running = "tree" /\ OthersIdle /\ SortIdle

ProductStep == /\ running = "product" /\ Next
               /\ UNCHANGED <<running, merging, numbers, tables, sorting, trees>>
Others      == <<running, vars, numbers, tables, sorting, trees>>
MergeStep   == running = "merge" /\ Merge!Next /\ UNCHANGED Others
NumbersStep == /\ running = "numbers" /\ Digit!Next
               /\ UNCHANGED <<running, vars, merging, tables, sorting, trees>>
HashStep    == /\ running = "hash" /\ Hash!Next
               /\ UNCHANGED <<running, vars, merging, numbers, sorting, trees>>
SetStep     == /\ running = "set" /\ Set!Next
               /\ UNCHANGED <<running, vars, merging, numbers, sorting, trees>>
SortStep    == /\ running = "sorting" /\ Sort!Next
               /\ UNCHANGED <<running, vars, merging, numbers, tables, trees>>
TreeStep    == /\ running = "tree" /\ Tree!Next
               /\ UNCHANGED <<running, vars, merging, numbers, tables, sorting>>

MCNext == ProductStep \/ MergeStep \/ NumbersStep \/ HashStep \/ SetStep \/ SortStep \/ TreeStep

\* The fairness of ArrayMerge: the scheduler runs every thread.
MCSpec == /\ MCInit /\ [][MCNext]_all
          /\ WF_all(running = "merge" /\ Merge!MainStep /\ UNCHANGED Others)
          /\ \A t \in Merge!Threads :
                WF_all(running = "merge" /\ t \in Merge!Thread /\ Merge!ThreadStep(t)
                       /\ UNCHANGED Others)

-----------------------------------------------------------------------------
(* The properties of the instances, under their names. *)

\* A product that is printed is complete, patten_matching.c leaves out the runs of
\* digits and top.c those up to 999, and a hash table holds no string twice.
ResultsRight == DoneMeansProduct /\ Digit!NumbersRight /\ Hash!TableRight

\* Searches end for elements of one array, and what is written is right.
MergeInv == Merge!MergeInv

\* Without spurious wakeups every thread takes an index of its own.
IndexOnce == Merge!IndexOnce

\* Without common elements the merge ends, or main has missed a signal.
EndsOrMissesSignal == running = "merge" => Merge!EndsOrMissesSignal

\* What is added to a bucket but 0 is found until the table is freed.
OthersKept == Hash!OthersKept

\* On zeroed memory the table is a set of strings.
ImplementsSet == SetSeen!ImplementsSet

\* The programs sort, remove duplicates and intersect wherever their loops leave
\* the arrays.
ArraysRight == Sort!ArraysRight

\* The tree is a search tree, and printed, searched and freed as one.
TreeRight == Tree!TreeRight
=============================================================================
