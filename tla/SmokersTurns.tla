---------------------------- MODULE SmokersTurns ----------------------------
(***************************************************************************)
(* What the cigarette smokers program promises: the agent and the smokers  *)
(* take turns.  The agent puts one pair on an empty table, the smoker that *)
(* needs this pair takes it, and only then does the next pair appear, in   *)
(* the order tobacco and paper, match and paper, tobacco and match.        *)
(***************************************************************************)
EXTENDS Integers

CONSTANT NumRounds

VARIABLES served,    \* pairs put on the table so far
          onTable,   \* is the last of them still there?
          taken      \* taken[k]: pairs of kind k taken so far

vars == <<served, onTable, taken>>

Kind == 0..2

Init == served = 0 /\ onTable = FALSE /\ taken = [k \in Kind |-> 0]

Put == /\ ~onTable /\ served < 3 * NumRounds
       /\ served' = served + 1
       /\ onTable' = TRUE
       /\ UNCHANGED taken

Take == /\ onTable
        /\ onTable' = FALSE
        /\ taken' = [taken EXCEPT ![(served - 1) % 3] = @ + 1]
        /\ UNCHANGED served

Spec == Init /\ [][Put \/ Take]_vars
=============================================================================
