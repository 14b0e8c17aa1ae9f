----------------------------- MODULE MCSmokers ------------------------------
(* Model of Smokers: three rounds, with spurious wakeups and, where        *)
(* `strict` has been chosen, with a library that never makes use of them,  *)
(* which is Smokers with AllowSpurious = FALSE.                            *)
EXTENDS Smokers

VARIABLE strict

MCInit == Init /\ strict \in BOOLEAN
MCNext == Next /\ (strict => ~SpuriousWakeup) /\ UNCHANGED strict

MCSpec == /\ MCInit /\ [][MCNext]_<<vars, strict>>
          /\ WF_vars(Next /\ ~SpuriousWakeup)

\* What the turns are about; nothing, where wakeups may be spurious.
Served  == IF strict THEN Put(0) + Put(1) + Put(2) ELSE 0
OnTable == strict /\ \E x \in Ingredient : table[x] > 0
Smoked  == [k \in Kind |-> IF strict THEN Taken(k) ELSE 0]

Turns == INSTANCE SmokersTurns WITH served <- Served, onTable <- OnTable, taken <- Smoked

\* Without spurious wakeups each pair appears on an empty table, and its own
\* smoker takes it before the agent serves the next.
ImplementsTurns == Turns!Spec
=============================================================================
