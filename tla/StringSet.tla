------------------------------ MODULE StringSet -----------------------------
(***************************************************************************)
(* What a hash table of strings promises its caller: a set, with answers   *)
(* that tell whether a string is in it.  Running out of memory may keep a  *)
(* string out of it.                                                       *)
(***************************************************************************)
CONSTANTS Str, None

VARIABLES set,   \* None before it is created
          answer \* what the last call returned

Init == set = None /\ answer = None

Create == set = None /\ set' = {} /\ answer' = None

Add(s) == /\ set # None
          /\ \/ s \in set /\ answer' = "STR_EXISTS" /\ set' = set
             \/ s \notin set /\ answer' = "SUCCESS" /\ set' = set \cup {s}
             \/ s \notin set /\ answer' = "MEM_ERROR" /\ set' = set

Lookup(s) == /\ set # None
             /\ answer' = IF s \in set THEN "found" ELSE "NULL"
             /\ set' = set

Free == set # None /\ set' = None /\ answer' = None

Next == Create \/ Free \/ \E s \in Str : Add(s) \/ Lookup(s)

Spec == Init /\ [][Next]_<<set, answer>>
=============================================================================
