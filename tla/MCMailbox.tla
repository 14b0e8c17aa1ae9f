----------------------------- MODULE MCMailbox ------------------------------
(* Models of Mailbox with two processes, by what malloc leaves in fresh      *)
(* memory.  `wild`: anything, and one mailbox.  `stale`: a list head may     *)
(* point to a node of p1; two mailboxes.  `zeroed`: every list begins empty; *)
(* two mailboxes, whose names may be followed by stale bytes.                *)
EXTENDS Mailbox, TLC

CONSTANTS p1, p2, t1, t2, a

VARIABLE heap

\* What _rcvList may hold: nobody, one receiver, two.
SomeReceivers == {<<>>, <<p2>>, <<p2, p1>>}

\* List heads in fresh memory: empty, or a pointer to a node of p1, or to
\* nothing valid.
WildHeap == {<<>>, <<p1>>, <<Bad>>}

OneBox   == INSTANCE Mailbox WITH MaxMailboxes <- 1, NameTail <- {t1}
TwoBoxes == INSTANCE Mailbox WITH FreshHead <- {<<>>, <<p1>>}, NameTail <- {t1},
                Receivers <- {<<>>}
Zeroed   == INSTANCE Mailbox WITH FreshHead <- {<<>>}

MCInit == Init /\ heap \in {"wild", "stale", "zeroed"}
MCNext == /\ \/ heap = "wild" /\ OneBox!Next
             \/ heap = "stale" /\ TwoBoxes!Next
             \/ heap = "zeroed" /\ Zeroed!Next
          /\ UNCHANGED heap

MCSpec == MCInit /\ [][MCNext]_<<vars, heap>>

\* On a zeroed heap PM neither hangs nor follows a pointer to freed or wild
\* memory, and nothing can stop it before the first mailbox is opened: what
\* remains is NULL, in do_closeMailbox on the empty lists or in getMailbox.
ZeroedHeapStops == heap = "zeroed" /\ pm # "up" => pm = "crashed" /\ mailboxes # <<>>

\* "Append a user process to the sender or receiver list", says mailbox.c of
\* listAppend, and the demo of GRSMalbox_README.txt has two processes send and
\* receive through a mailbox they opened.  A call that closes a mailbox empties
\* none of its lists, so every mailbox has a sender or a receiver listed.
OpenersListed == \A i \in DOMAIN mailboxes :
                    mailboxes[i].senders # <<>> \/ mailboxes[i].receivers # <<>>

\* Mailbox names are only compared with each other.
NameSymmetry == Permutations(Name)
=============================================================================
