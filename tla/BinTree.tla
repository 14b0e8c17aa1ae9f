------------------------------- MODULE BinTree -------------------------------
(***************************************************************************)
(* The binary search tree of Basic Datastructures/BinaryTree/test.c, for any *)
(* order of calls.  A node is allocated by every insert that succeeds; its   *)
(* address is its number, 0 is NULL.  The tree's own recursion is that of    *)
(* functions over the addresses.                                            *)
(***************************************************************************)
EXTENDS Integers, Sequences, SequencesExt, FiniteSets

CONSTANTS Value,  \* the values inserted
          MaxNode \* bound: nodes allocated

VARIABLES nodes,  \* nodes[a]: data, lefttree and righttree of the node at a
          out,    \* the addresses the last call printed, or freed
          ret,    \* the address search returned: Junk for an undefined one
          alive   \* "yes"; "deleted" after deletetree; "crashed"

vars == <<nodes, out, ret, alive>>

Junk == -1

Init == nodes = <<>> /\ out = <<>> /\ ret = 0 /\ alive = "yes"

Address == 1..Len(nodes)

\* The tree of main: the first node that was inserted.
root == IF nodes = <<>> THEN 0 ELSE 1

\* The subtree of a that belongs to a value: to the right of its equals.
Child(a, val) == IF val < nodes[a].data THEN nodes[a].lefttree ELSE nodes[a].righttree

\* The node insert(a, val) puts a new one under.
Parent(val) ==
    LET last[a \in Address] == IF Child(a, val) = 0 THEN a ELSE last[Child(a, val)]
    IN  last[root]

Linked(a, val, new) ==
    IF val < nodes[a].data THEN [nodes EXCEPT ![a].lefttree = new]
                           ELSE [nodes EXCEPT ![a].righttree = new]

Insert(val) == /\ alive = "yes" /\ Len(nodes) < MaxNode
               /\ nodes' = Append(IF root = 0 THEN nodes ELSE Linked(Parent(val), val, Len(nodes) + 1),
                                  [data |-> val, lefttree |-> 0, righttree |-> 0])
               /\ out' = <<>> /\ ret' = 0
               /\ UNCHANGED alive

\* malloc fails and its result is used.
InsertCrashes == /\ alive = "yes" /\ Len(nodes) < MaxNode
                 /\ alive' = "crashed"
                 /\ UNCHANGED <<nodes, out, ret>>

-----------------------------------------------------------------------------
(* The orders in which the nodes of the tree below each address are met. *)

Preorder ==
    LET order[a \in 0..Len(nodes)] ==
            IF a = 0 THEN <<>>
            ELSE <<a>> \o order[nodes[a].lefttree] \o order[nodes[a].righttree]
    IN  order

Inorder ==
    LET order[a \in 0..Len(nodes)] ==
            IF a = 0 THEN <<>>
            ELSE order[nodes[a].lefttree] \o <<a>> \o order[nodes[a].righttree]
    IN  order

\* print_postorder goes on with print_inorder below the root.
Postorder == IF root = 0 THEN <<>>
             ELSE Inorder[nodes[root].lefttree] \o Inorder[nodes[root].righttree] \o <<root>>

FreedTooEarly ==                                                     \* mutant
    LET order[a \in 0..Len(nodes)] ==
            IF a = 0 THEN <<>>
            ELSE order[nodes[a].lefttree] \o <<a>> \o order[nodes[a].righttree]
    IN  order

Freed ==
    LET order[a \in 0..Len(nodes)] ==
            IF a = 0 THEN <<>>
            ELSE order[nodes[a].lefttree] \o order[nodes[a].righttree] \o <<a>>
    IN  order

Says(addresses) == /\ alive = "yes"
                   /\ out' = addresses /\ ret' = 0
                   /\ UNCHANGED <<nodes, alive>>

print_preorder  == Says(Preorder[root])
print_inorder   == Says(Inorder[root])
print_postorder == Says(Postorder)

\* root goes on pointing at freed memory: nothing may be called after it.
DeleteTree == /\ alive = "yes"
              /\ out' = Freed[root] /\ ret' = 0 /\ alive' = "deleted"
              /\ UNCHANGED nodes

-----------------------------------------------------------------------------
(* search *)

\* The nodes search(a, val) comes to.
Visited(val) ==
    LET path[a \in 0..Len(nodes)] ==
            IF a = 0 THEN <<>>
            ELSE IF nodes[a].data = val THEN <<a>>
            ELSE <<a>> \o path[Child(a, val)]
    IN  path[root]

\* What a search below the root found is not returned: the caller gets whatever
\* the register of the result holds, which may be what was found.
Search(val) ==
    LET v == Visited(val)
        found == IF v # <<>> /\ nodes[Last(v)].data = val THEN Last(v) ELSE 0
    IN  /\ alive = "yes"
        /\ out' = v
        /\ ret' \in IF root = 0 \/ nodes[root].data = val THEN {found} ELSE {found, Junk}
        /\ UNCHANGED <<nodes, alive>>

Next == \/ \E val \in Value : Insert(val) \/ Search(val)
        \/ InsertCrashes
        \/ print_preorder \/ print_inorder \/ print_postorder
        \/ DeleteTree

Spec == Init /\ [][Next]_vars

-----------------------------------------------------------------------------
(* Properties *)

\* Every variable stays in its domain, and every node is met once in every order:
\* no insert loses one.
TypeOK == /\ \A a \in Address : /\ nodes[a].data \in Value
                                /\ {nodes[a].lefttree, nodes[a].righttree} \subseteq {0} \cup (a + 1..Len(nodes))
          /\ out \in Seq(Address) /\ ret \in {0, Junk} \cup Address
          /\ alive \in {"yes", "deleted", "crashed"}
          /\ \A o \in {Preorder[root], Inorder[root], Postorder, Freed[root]} :
                Len(o) = Len(nodes) /\ Range(o) = Address

\* print_inorder prints the values inserted in ascending order, equal ones in
\* the order of their insertion.
InorderSorts ==
    LET o == Inorder[root]
    IN  \A k \in 1..(Len(o) - 1) :
            \/ nodes[o[k]].data < nodes[o[k + 1]].data
            \/ nodes[o[k]].data = nodes[o[k + 1]].data /\ o[k] < o[k + 1]

\* search says "Node not found" exactly when the value was never inserted, and
\* what it comes to is the first of equal values.
SearchComesToIt ==
    \A val \in Value :
        LET v == Visited(val)
            equal == {a \in Address : nodes[a].data = val}
        IN  IF equal = {} THEN v = <<>> \/ nodes[Last(v)].data # val
            ELSE v # <<>> /\ Last(v) \in equal /\ \A a \in equal : Last(v) <= a

\* deletetree frees every node once, and none before what hangs below it, which
\* it would read after it was freed.
FreesFromBelow ==
    alive = "deleted" =>
        /\ Len(out) = Len(nodes) /\ Range(out) = Address
        /\ \A j, k \in DOMAIN out :
              out[k] \in {nodes[out[j]].lefttree, nodes[out[j]].righttree} => k < j

\* The tree is a search tree, and printed, searched and freed as one.
TreeRight == TypeOK /\ InorderSorts /\ SearchComesToIt /\ FreesFromBelow
=============================================================================
