------------------------------- MODULE Numbers ------------------------------
(***************************************************************************)
(* The two programs of Inc_Dec_Number_problem, which print the numbers from *)
(* 30 to 3000 but those whose digits go up, or down, by one: top.c looks at *)
(* the digits in three loops, one for each length, patten_matching.c        *)
(* searches the number in "0123456789" and in "9876543210".                 *)
(***************************************************************************)
EXTENDS Integers, Sequences, SequencesExt

VARIABLES program, \* "top" or "pattern"
          j,       \* the number the program comes to next
          i,       \* i of top.c, what is left of a number
          last     \* the number before, and whether it was printed

vars == <<program, j, i, last>>

Init == /\ program \in {"top", "pattern"}
        /\ j = 31 /\ i = 0
        /\ last = [num |-> 30, printed |-> FALSE]

Goes(left) == /\ last' = [num |-> j, printed |-> ~left]
              /\ j' = j + 1
              /\ UNCHANGED program

-----------------------------------------------------------------------------
(* top.c; m is temp, the last digit taken off, and i, the digits before it. *)

Near(m, d) == m.i % 10 = m.temp + d
Off(m)     == [temp |-> m.i % 10, i |-> m.i \div 10]

TwoDigits == /\ program = "top" /\ j \in 31..99
             /\ LET m == [temp |-> j % 10, i |-> j \div 10]
                IN  i' = m.i /\ Goes(Near(m, 1) \/ Near(m, -1))

\* The test for digits that go up is made on what the first has left.
ThreeDigits ==
    /\ program = "top" /\ j \in 100..999
    /\ LET m0 == [temp |-> j % 10, i |-> j \div 10]
           m1 == IF Near(m0, 1) THEN Off(m0) ELSE m0
           m2 == IF Near(m1, -1) THEN Off(m1) ELSE m1
           down == Near(m0, 1) /\ Near(m1, 1)
           up   == Near(m1, -1) /\ Near(m2, -1)
       IN  /\ i' = IF down THEN m1.i ELSE m2.i
           /\ Goes(down \/ up)

\* i is not set to the number: it is what the loop before has left, over and over.
FourDigits ==
    /\ program = "top" /\ j \in 1000..2999
    /\ LET m0 == [temp |-> j % 10, i |-> i \div 10]
           d  == IF Near(m0, 1) THEN 1 ELSE -1
           m1 == IF Near(m0, d) THEN Off(m0) ELSE m0
           m2 == IF Near(m0, d) /\ Near(m1, d) THEN Off(m1) ELSE m1
       IN  /\ i' = m2.i
           /\ Goes(Near(m0, d) /\ Near(m1, d) /\ Near(m2, d))

-----------------------------------------------------------------------------
(* patten_matching.c *)

Digits[n \in 0..2999] == IF n < 10 THEN <<n>> ELSE Append(Digits[n \div 10], n % 10)

strstr(s, t) == \E k \in 0..(Len(s) - Len(t)) : SubSeq(s, k + 1, k + Len(t)) = t

base_string1 == [k \in 1..10 |-> k - 1]
base_string2 == [k \in 1..10 |-> 10 - k]

match_string(num) == strstr(base_string1, Digits[num]) \/ strstr(base_string2, Digits[num])

Match == /\ program = "pattern" /\ j \in 31..2999
         /\ Goes(match_string(j))
         /\ UNCHANGED i

Next == TwoDigits \/ ThreeDigits \/ FourDigits \/ Match
Spec == Init /\ [][Next]_vars

-----------------------------------------------------------------------------
(* Properties *)

\* The numbers whose digits are neighbours, all in one direction.
Run(num) == \E d \in {1, -1} :
                \A k \in 1..(Len(Digits[num]) - 1) : Digits[num][k + 1] = Digits[num][k] + d

\* What a number can become when digits are taken off.
Shorter(num) == 0..(num \div 10)

\* Every variable stays in the range of the loops; i of top.c never has more
\* digits than the number.
TypeOK == /\ j \in 31..3000 /\ i \in Shorter(j)
          /\ last.num = j - 1 /\ last.printed \in BOOLEAN

\* patten_matching.c prints a number exactly when its digits are no run: what it
\* searches has four digits at most, and no run is longer than its strings.
PatternPrintsRest ==
    program = "pattern" /\ j > 31 => (last.printed <=> ~Run(last.num))

\* Up to 999 top.c leaves every run out, though one test works on what the other
\* has left of the number, and of two digits nothing else.
TopLeavesShortRunsOut ==
    program = "top" /\ last.num \in 31..999 =>
        /\ Run(last.num) => ~last.printed
        /\ last.num < 100 => (last.printed <=> ~Run(last.num))

\* What is right of the numbers printed: those of patten_matching.c, and those of
\* the first two loops of top.c.
NumbersRight == TypeOK /\ PatternPrintsRest /\ TopLeavesShortRunsOut

\* "FOLLOWING NOT ALLOWED ##123,234,345,1234,2345##increasing order" (top.c:11):
\* top.c prints no run, whatever its length.
TopPrintsNoRun == program = "top" /\ Run(last.num) => ~last.printed
=============================================================================
