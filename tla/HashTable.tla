------------------------------ MODULE HashTable -----------------------------
(***************************************************************************)
(* The hash table of strings of Basic Datastructures/Hashtable, for any    *)
(* order of calls and any hash function.  hash_table_create sets           *)
(* table[size], ..., table[1]: the list of bucket 0 begins with what was in *)
(* the memory, and a pointer behind the table is overwritten.              *)
(*                                                                         *)
(* Operators marked "mutant" are wrong versions of the definition after    *)
(* them: the specification does not use them.                              *)
(***************************************************************************)
EXTENDS Integers, Sequences, SequencesExt

CONSTANTS Str,      \* strings
          Size,     \* table_size
          Memory,   \* the memory of the table may be "zero", with nothing in use
                    \* behind it, or "wild"
          Lost,     \* whether _strdup may fail: a subset of BOOLEAN
          None

\* What is assumed of the constants; None is no table, and no set of strings.
HashTableAssumption ==
    /\ Size \in Nat \ {0} /\ Str \cap {None, "wild"} = {}
    /\ None # "wild" /\ \A strings \in SUBSET Str : None # strings
    /\ None \notin [0..(Size - 1) -> Seq(Str \cup {None, "wild"})]

VARIABLES hash,   \* the hash function: only which strings share a bucket matters
          table,  \* table[b]: the strings of a list, the last added first, or
                  \* None; "wild" at its end where the list ends nowhere
          ret,    \* what the last call returned
          stopped \* a crash, an endless walk, or a heap found destroyed

vars == <<hash, table, ret, stopped>>

Bucket == 0..(Size - 1)

Init == /\ hash \in [Str -> Bucket]
        /\ table = None /\ ret = None /\ stopped = FALSE

\* malloc fails, or table_size < 1.
CreateFails == /\ ~stopped /\ table = None
               /\ ret' = "NULL" /\ UNCHANGED <<hash, table, stopped>>

Create == /\ ~stopped /\ table = None
          /\ \E m \in Memory :
                table' = [b \in Bucket |-> IF b = 0 /\ m = "wild" THEN <<"wild">> ELSE <<>>]
          /\ ret' = None
          /\ UNCHANGED <<hash, stopped>>

FirstOnly(list, s) == IF list = <<>> THEN "NULL"                             \* mutant
                      ELSE IF list[1] = s THEN "found" ELSE "NULL"

\* strcmp reads every string from the first to one that is equal; a node whose
\* _strdup failed has none to read.  What a wild pointer leads to may be anything.
Walk(list, s) ==
    LET at == {k \in DOMAIN list : list[k] \in {s, None, "wild"}}
    IN  IF at = {} THEN "NULL"
        ELSE LET first == list[CHOOSE k \in at : \A n \in at : k <= n]
             IN  IF first = s THEN "found" ELSE IF first = None THEN "stops" ELSE "wild"

Outcomes(s) == LET w == Walk(table[hash[s]], s)
               IN  IF w = "wild" THEN {"found", "NULL", "stops"} ELSE {w}

Stop == stopped' = TRUE /\ UNCHANGED <<hash, table, ret>>

lookup_string(s) ==
    /\ ~stopped /\ table # None
    /\ \E o \in Outcomes(s) :
          \/ o = "stops" /\ Stop
          \/ o # "stops" /\ ret' = o /\ UNCHANGED <<hash, table, stopped>>

New(s) == "NULL" \in Outcomes(s)

LinkedAlone(s, copy) == [table EXCEPT ![hash[s]] = <<copy>>]                 \* mutant
Linked(s, copy) == [table EXCEPT ![hash[s]] = <<copy>> \o @]

add_string(s) ==
    /\ ~stopped /\ table # None
    /\ \/ "stops" \in Outcomes(s) /\ Stop
       \/ "found" \in Outcomes(s) /\ ret' = "STR_EXISTS" /\ UNCHANGED <<hash, table, stopped>>
       \/ New(s) /\ ret' = "MEM_ERROR" /\ UNCHANGED <<hash, table, stopped>>
       \/ /\ New(s)
          /\ \E lost \in Lost : table' = Linked(s, IF lost THEN None ELSE s)
          /\ ret' = "SUCCESS"
          /\ UNCHANGED <<hash, stopped>>

\* Following the wild pointer of bucket 0 the walk stops, or ends by chance.
free_table ==
    /\ ~stopped /\ table # None
    /\ \/ table' = None /\ ret' = None /\ UNCHANGED <<hash, stopped>>
       \/ "wild" \in ToSet(table[0]) /\ Stop

\* What was behind the table is overwritten by create: the heap may show it in
\* any later call.
HeapDestroyed == /\ ~stopped /\ table # None /\ "wild" \in Memory
                 /\ Stop

Next == \/ CreateFails \/ Create \/ free_table \/ HeapDestroyed
        \/ \E s \in Str : lookup_string(s) \/ add_string(s)

Spec == Init /\ [][Next]_vars

-----------------------------------------------------------------------------
(* Properties *)

Strings(b) == ToSet(table[b]) \cap Str
Live == table # None /\ ~stopped

\* Every variable stays in its domain, and what is wild stays the end of bucket 0.
TypeOK == /\ hash \in [Str -> Bucket] /\ stopped \in BOOLEAN
          /\ table # None => \A b \in Bucket : \A k \in DOMAIN table[b] :
                \/ table[b][k] \in Str \cup {None}
                \/ table[b][k] = "wild" /\ b = 0 /\ k = Len(table[0])

\* However many buckets strings share and whatever failed: no string is in the
\* table twice, none in another bucket than its own, and no list has two nodes
\* without a string, so that nodes never outnumber the strings and buckets.
StringsOnce ==
    Live => \A b \in Bucket :
        /\ \A s \in Strings(b) : hash[s] = b
        /\ \A j, k \in DOMAIN table[b] : table[b][j] = table[b][k] => j = k

\* The strings of every bucket but 0 can be relied upon: what is added is found
\* until the table is freed, wild as the memory was.
OthersKept ==
    [][ table # None /\ table' # None =>
          \A b \in Bucket : b # 0 => Strings(b) \subseteq {s \in Str : s \in ToSet(table'[b])}
    ]_vars

\* On zeroed memory whose neighbour is not in use, and if _strdup does not fail,
\* the table is a set of strings.
IsStringSet ==
    INSTANCE StringSet WITH
        set <- IF table = None THEN None ELSE UNION {Strings(b) : b \in Bucket},
        answer <- IF ret = "NULL" /\ table = None THEN None ELSE ret
ImplementsSet == IsStringSet!Spec

\* Every string is where it belongs, once.
TableRight == TypeOK /\ StringsOnce
=============================================================================
