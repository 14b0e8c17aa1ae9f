------------------------------- MODULE Sorting ------------------------------
(***************************************************************************)
(* The programs that sort an array or compare two: MergeSort/mergesort.c,   *)
(* Heap/main.c, InsertionSort/Insertion_sort.cpp, the two methods of        *)
(* duplicate_removal_method_1.c and array_intersection.cpp.  A C array of   *)
(* length n is a function on 0..n-1, an allocated one starts with Junk and  *)
(* has a word of the allocator before it, at -1.                           *)
(*                                                                         *)
(* Operators marked "mutant" are wrong versions of the definition after    *)
(* them: the specification does not use them.                              *)
(***************************************************************************)
EXTENDS Integers, Sequences, FiniteSets, SequencesExt, FiniteSetsExt

CONSTANTS Value,    \* the numbers in the input
          MaxLen,   \* the longest input
          MaxLen2,  \* the longest second array
          MAX,      \* the length of the array of Heap/main.c, 10
          Fixed,    \* how many elements rm_duplicate looks at, 15
          Header,   \* what the word of the allocator may be
          Junk      \* what malloc leaves in memory

VARIABLES arr,     \* the input, a sequence
          arr2,    \* the second array of array_intersection.cpp, or what
                   \* rm_duplicate finds behind its array
          program, \* which program has run, "none" before, "undefined" when it
                   \* has damaged memory that is not its own and may do anything
          out      \* the sequence it writes, or rm_duplicate returns

Array(s)     == [i \in 0..(Len(s) - 1) |-> s[i + 1]]
Allocated(h, s) == [i \in -1..(Len(s) - 1) |-> IF i = -1 THEN h ELSE s[i + 1]]
Whole(a)     == [i \in 1..(Max(DOMAIN a \cup {-1}) + 1) |-> a[i - 1]]
Overwrite(a, l, s) == [i \in DOMAIN a |-> IF i \in l..(l + Len(s) - 1) THEN s[i - l + 1] ELSE a[i]]
Swap(a, i, j) == [a EXCEPT ![i] = a[j], ![j] = a[i]]
Numbered(n)  == [i \in 1..n |-> i]

\* The merges of m_sort(left, right), and of msort, in their order.
Merges[left \in 0..MaxLen, right \in -1..MaxLen] ==
    IF right <= left THEN <<>>
    ELSE LET mid == (left + right) \div 2
         IN  Merges[left, mid] \o Merges[mid + 1, right]
             \o <<[left |-> left, mid |-> mid + 1, right |-> right]>>

\* The three loops of merge, one turn after the other: what they write from the
\* two halves of a part, where once means equal elements give one.
Merged(a, part, once) ==
    LET turn(m, k) ==
            LET inLeft  == m.left < part.mid
                inRight == m.mid <= part.right
                both    == once /\ inLeft /\ inRight /\ a[m.left] = a[m.mid]
                takes   == both \/ (inLeft /\ (~inRight \/ a[m.left] < a[m.mid]))
            IN  IF ~inLeft /\ ~inRight THEN m
                ELSE [out  |-> Append(m.out, a[IF takes THEN m.left ELSE m.mid]),
                      left |-> IF takes THEN m.left + 1 ELSE m.left,
                      mid  |-> IF takes /\ ~both THEN m.mid ELSE m.mid + 1]
    IN  FoldLeft(turn, [out |-> <<>>, left |-> part.left, mid |-> part.mid],
                 Numbered(part.right - part.left + 1)).out

-----------------------------------------------------------------------------
(* mergesort.c; m is [numbers, temp]. *)

\* The copy back runs once too often: numbers[left-1] is overwritten as well,
\* which is the word of the allocator when left is 0.
merge(m, part) ==
    LET temp == Overwrite(m.temp, part.left, Merged(m.numbers, part, FALSE))
    IN  [temp    |-> temp,
         numbers |-> [i \in DOMAIN temp |-> IF i \in (part.left - 1)..part.right THEN temp[i]
                                            ELSE m.numbers[i]]]

\* h and t are the words of the allocator before numbers and before temp.
mergeSort(s, h, t) ==
    FoldLeft(merge, [numbers |-> Allocated(h, s),
                     temp    |-> Allocated(t, [i \in DOMAIN s |-> Junk])],
             Merges[0, Len(s) - 1])

-----------------------------------------------------------------------------
(* Heap/main.c *)

Largest(a, i, n) ==
    LET l == 2*i + 1
        r == 2*i + 2
        m == IF l < n /\ a[l] > a[i] THEN l ELSE i
    IN  IF r < n /\ a[r] > a[m] THEN r ELSE m

\* It calls itself with the larger child, which n calls end for certain.
max_heapify(a, i, n) ==
    LET call(m, k) == [a |-> Swap(m.a, m.i, Largest(m.a, m.i, n)), i |-> Largest(m.a, m.i, n)]
    IN  FoldLeft(call, [a |-> a, i |-> i], Numbered(n)).a

\* for (i = n/2; i >= 0; i--)
build_max_heap(a, n) ==
    FoldLeft(LAMBDA b, i : max_heapify(b, i, n), a,
             [k \in 1..(n \div 2 + 1) |-> n \div 2 - k + 1])

heapsort(s) ==
    LET n == Len(s)
    IN  FoldLeft(LAMBDA b, i : max_heapify(Swap(b, 0, i), 0, i),
                 build_max_heap(Array(s), n), [k \in 1..(n - 1) |-> n - k])

-----------------------------------------------------------------------------
(* Insertion_sort.cpp *)

\* The swaps take the element at key down, past every larger one.
Sink(a, key) ==
    LET to == Min({k \in 0..key : \A j \in k..(key - 1) : a[j] > a[key]})
    IN  [i \in DOMAIN a |-> IF i = to THEN a[key]
                            ELSE IF i \in (to + 1)..key THEN a[i - 1] ELSE a[i]]

InsertionSort(s) == FoldLeft(Sink, Array(s), Numbered(Len(s) - 1))

-----------------------------------------------------------------------------
(* duplicate_removal_method_1.c *)

Kept(a, l, s, r) == Overwrite(a, l, s)                                \* mutant

\* The duplicates of this merge make room for zeros at the end of the part.
Filled(a, l, s, r) == Overwrite(a, l, s \o [i \in 1..(r - l + 1 - Len(s)) |-> 0])

dupless_mergesort(s) ==
    FoldLeft(LAMBDA a, part : Filled(a, part.left, Merged(a, part, TRUE), part.right),
             Array(s), Merges[0, Len(s) - 1])

\* One element more is looked at than there are, a 0 of calloc.
check_duplicate(a, num, count) == \E i \in 0..count : a[i] = num

\* Fixed elements are looked at, however many there are: s has so many.
rm_duplicate(s) ==
    LET step(m, num) == IF check_duplicate(m.temp, num, m.j) THEN m
                        ELSE [temp |-> [m.temp EXCEPT ![m.j] = num], j |-> m.j + 1]
    IN  FoldLeft(step, [temp |-> [i \in 0..(Fixed - 1) |-> IF i = 0 THEN s[1] ELSE 0], j |-> 1],
                 Tail(s)).temp

-----------------------------------------------------------------------------
(* array_intersection.cpp: a map from the numbers of an array to how often *)
(* they occur, for each array, and the smaller of the two.                 *)

Times(s) == [v \in Range(s) |-> Cardinality({i \in DOMAIN s : s[i] = v})]

Common(m1, m2) == [v \in DOMAIN m1 \cap DOMAIN m2 |-> Min({m1[v], m2[v]})]

\* The order of an unordered_map is any.
Intersection(s, t) ==
    LET m3 == Common(Times(s), Times(t))
    IN  FoldLeft(LAMBDA o, v : o \o [i \in 1..m3[v] |-> v], <<>>, SetToSeq(DOMAIN m3))

-----------------------------------------------------------------------------

Input(max) == UNION {[1..n -> Value] : n \in 0..max}

Init == arr \in Input(MaxLen) /\ arr2 = <<>> /\ program = "none" /\ out = <<>>

Run(p, t, o) == /\ program = "none"
                /\ program' = p /\ arr2' = t /\ out' = o
                /\ UNCHANGED arr

\* mergesort.c writes the array temp, Insertion_sort.cpp its array.
RunMergeSort ==
    \E h, t \in Header :
        LET m == mergeSort(arr, h, t)
        IN  \/ Run("merge", <<>>, Whole(m.temp))
            \/ m.numbers[-1] # h /\ Run("undefined", <<>>, <<>>)

\* The array has MAX elements, and nobody looks how many are read.
RunHeapSort == \/ Run("heap", <<>>, Whole(heapsort(arr)))
               \/ Len(arr) > MAX /\ Run("undefined", <<>>, <<>>)

RunInsertionSort == Run("insertion", <<>>, Whole(InsertionSort(arr)))
RunDupless       == Run("dupless", <<>>, Whole(dupless_mergesort(arr)))

\* METHOD1 is not what is compiled: main would write arr as it is, and drop what
\* rm_duplicate returns.  That reads on behind an array that is shorter.
RunRmDuplicate ==
    \E behind \in [1..Max({0, Fixed - Len(arr)}) -> Value \cup {Junk}] :
        Run("first method", behind, Whole(rm_duplicate(SubSeq(arr \o behind, 1, Fixed))))

RunIntersection  == \E t \in Input(MaxLen2) : Run("intersection", t, Intersection(arr, t))

Next == \/ RunMergeSort \/ RunHeapSort \/ RunInsertionSort
        \/ RunDupless \/ RunRmDuplicate \/ RunIntersection

Spec == Init /\ [][Next]_<<arr, arr2, program, out>>

-----------------------------------------------------------------------------
(* Properties *)

Count(s, v) == Cardinality({i \in DOMAIN s : s[i] = v})
Ascending(s) == \A i, j \in DOMAIN s : i < j => s[i] <= s[j]
Rearranged(s, t) == \A v \in Range(s) \cup Range(t) : Count(s, v) = Count(t, v)

\* What a program writes is made of the numbers it reads and of the zeros of
\* calloc; the memory of malloc only shows when mergesort.c has one number,
\* which it does not copy to the array it writes, and behind a short array.
TypeOK == /\ arr \in Input(MaxLen)
          /\ \/ out \in Seq(Value \cup {0})
             \/ program = "merge" /\ Len(arr) = 1 /\ out = <<Junk>>
             \/ program = "first method" /\ Len(arr) < Fixed /\ out \in Seq(Value \cup {0, Junk})
          /\ program = "undefined" => Len(arr) > 1

\* The three sorting programs write the input in ascending order, as long as
\* they have not damaged other memory: mergesort.c can with any two numbers,
\* Heap/main.c with more than MAX.  mergesort.c does so although every merge
\* overwrites the element before its part: the merges before have left that
\* element in temp.
SortsInput == program \in {"merge", "heap", "insertion"} /\ (program = "merge" => Len(arr) # 1)
                  => Ascending(out) /\ Rearranged(arr, out)

\* The zeros that fill a part up after a merge come into the middle of the array
\* in the next one, which then merges arrays that are not sorted.  Even so the
\* numbers other than 0 come out in ascending order, every one of them once.
DuplessRemovesDuplicates ==
    program = "dupless" =>
        LET numbers == SelectSeq(out, LAMBDA v : v # 0)
        IN  /\ \A k \in 1..(Len(numbers) - 1) : numbers[k] < numbers[k + 1]
            /\ Range(numbers) = Range(arr) \ {0}
            /\ Len(out) = Len(arr)

\* rm_duplicate returns every number it looks at once, in the order of their
\* first occurrences, and fills up with zeros; a 0 that is not first counts as
\* there.  It looks at Fixed numbers, whatever the input has.
FirstMethodKeepsFirsts ==
    program = "first method" =>
        LET read   == SubSeq(arr \o arr2, 1, Fixed)
            firsts == SelectSeq([i \in 1..Fixed |-> <<i, read[i]>>],
                          LAMBDA p : /\ \A k \in 1..(p[1] - 1) : read[k] # p[2]
                                     /\ p[2] = 0 => p[1] = 1)
        IN  out = [i \in 1..Fixed |-> IF i <= Len(firsts) THEN firsts[i][2] ELSE 0]

\* The intersection has every number as often as the array that has it less.
IntersectionIsMinimum ==
    program = "intersection" =>
        \A v \in Value : Count(out, v) = Min({Count(arr, v), Count(arr2, v)})

\* What the programs write, as far as it is right.
ArraysRight == /\ TypeOK /\ SortsInput
               /\ DuplessRemovesDuplicates /\ FirstMethodKeepsFirsts
               /\ IntersectionIsMinimum
=============================================================================
