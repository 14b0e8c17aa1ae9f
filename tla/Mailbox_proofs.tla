--------------------------- MODULE Mailbox_proofs ---------------------------
(***************************************************************************)
(* Proofs about Mailbox for any number of processes, names and messages,   *)
(* and whatever malloc leaves in fresh memory.                             *)
(***************************************************************************)
EXTENDS MCMailbox, SequenceTheorems, WellFoundedInduction, TLAPS

-----------------------------------------------------------------------------
(* Searches and chains *)

\* The least of a non-empty set of positions is one of them and below the others.
LEMMA MinOfPositions ==
    ASSUME NEW n \in Nat, NEW I \in SUBSET (1..n), I # {}
    PROVE  Min(I) \in I /\ \A i \in I : Min(I) <= i
<1>1. IsWellFoundedOn(OpToRel(<, Nat), Nat)
  BY NatLessThanWellFounded
<1>2. \E x \in I : \A y \in I : ~(<<y, x>> \in OpToRel(<, Nat))
  <2> DEFINE R == OpToRel(<, Nat)
  <2>1. IsWellFoundedOn(R, Nat)
    BY <1>1
  <2> HIDE DEF R
  <2>2. I \subseteq Nat
    OBVIOUS
  <2>3. \E x \in I : \A y \in I : ~(<<y, x>> \in R)
    BY <2>1, <2>2, WFMin
  <2> QED  BY <2>3 DEF R
<1>3. \A x, y \in Nat : ~(<<y, x>> \in OpToRel(<, Nat)) => x <= y
  BY DEF OpToRel
<1>4. \E x \in I : \A y \in I : x <= y
  <2>1. I \subseteq Nat
    OBVIOUS
  <2> QED  BY <1>2, <1>3, <2>1
<1> QED  BY <1>4 DEF Min

\* Removing one element of a sequence leaves one less, and the first one in
\* place unless it is the one removed.
LEMMA RemoveAtProperties ==
    ASSUME NEW S, NEW s \in Seq(S), NEW k \in 1..Len(s)
    PROVE  /\ RemoveAt(s, k) \in Seq(S)
           /\ Len(RemoveAt(s, k)) = Len(s) - 1
           /\ k > 1 => RemoveAt(s, k)[1] = s[1]
<1> DEFINE before == SubSeq(s, 1, k - 1)
           after == SubSeq(s, k + 1, Len(s))
<1>1. Len(s) \in Nat /\ k \in Int
  OBVIOUS
<1>2. before \in Seq(S) /\ Len(before) = k - 1 /\ (k > 1 => before[1] = s[1])
  BY <1>1
<1>3. after \in Seq(S) /\ Len(after) = Len(s) - k
  BY <1>1
<1>4. RemoveAt(s, k) = before \o after
  BY DEF RemoveAt
<1> HIDE DEF before, after
<1>5. /\ before \o after \in Seq(S)
      /\ Len(before \o after) = Len(before) + Len(after)
      /\ \A i \in 1..(Len(before) + Len(after)) :
            (before \o after)[i] = IF i <= Len(before) THEN before[i] ELSE after[i - Len(before)]
  BY <1>2, <1>3, ConcatProperties
<1>6. k > 1 => (before \o after)[1] = s[1]
  BY <1>1, <1>2, <1>3, <1>5
<1> QED  BY <1>1, <1>2, <1>3, <1>4, <1>5, <1>6

\* The way along a chain ends at a node of the process or of wild memory.
LEMMA WalkProperties ==
    ASSUME NEW chain \in Seq(Proc \cup {Bad}), NEW p \in Proc
    PROVE  /\ Walk(chain, p) \in -1..Len(chain)
           /\ Walk(chain, p) > 0 => chain[Walk(chain, p)] = p
           /\ Walk(chain, p) # -1 /\ chain # <<>> => chain[1] # Bad
           /\ Walk(chain, p) = 0 => \A i \in 1..Len(chain) : chain[i] \notin {p, Bad}
<1> DEFINE I == {i \in 1..Len(chain) : chain[i] \in {p, Bad}}
           m == IF I # {} THEN Min(I) ELSE 0
<1>1. Walk(chain, p) = IF m > 0 /\ chain[m] = Bad THEN -1 ELSE m
  BY DEF Walk, SelectInSeq
<1>2. Len(chain) \in Nat /\ I \in SUBSET (1..Len(chain))
  OBVIOUS
<1>3. I # {} => m \in I /\ \A i \in I : m <= i
  <2> SUFFICES ASSUME I # {} PROVE Min(I) \in I /\ \A i \in I : Min(I) <= i
    OBVIOUS
  <2> HIDE DEF I
  <2> QED  BY <1>2, MinOfPositions
<1>4. Bad \notin Proc
  BY MailboxAssumption
<1>5. \A i \in 1..Len(chain) : i \in I <=> chain[i] \in {p, Bad}
  OBVIOUS
<1>6. CASE I = {}
  BY <1>1, <1>2, <1>5, <1>6
<1>7. CASE I # {}
  <2>1. m \in 1..Len(chain) /\ chain[m] \in {p, Bad} /\ \A i \in I : m <= i
    BY <1>3, <1>5, <1>7
  <2>2. chain # <<>> /\ chain[1] = Bad => m = 1
    BY <1>2, <1>5, <2>1
  <2> HIDE DEF m, I
  <2> QED  BY <1>1, <1>2, <1>4, <2>1, <2>2
<1> QED  BY <1>6, <1>7

\* Unlink never leaves an empty chain, and what it leaves begins as before or
\* with the node it freed.
LEMMA UnlinkProperties ==
    ASSUME NEW chain \in Seq(Proc \cup {Bad}), chain # <<>>, NEW p \in Proc,
           Walk(chain, p) # -1
    PROVE  /\ Unlink(chain, p) \in Seq(Proc \cup {Bad})
           /\ Unlink(chain, p) # <<>>
           /\ Unlink(chain, p)[1] \in {chain[1], Bad}
<1>1. CASE chain[1] = p
  BY <1>1 DEF Unlink
<1>2. CASE chain[1] # p /\ ~\E i \in 1..Len(chain) : chain[i] = p
  BY <1>2 DEF Unlink, RemoveFirst
<1>3. CASE chain[1] # p /\ \E i \in 1..Len(chain) : chain[i] = p
  <2> DEFINE I == {i \in 1..Len(chain) : chain[i] = p}
  <2>1. Len(chain) \in Nat /\ I \in SUBSET (1..Len(chain)) /\ I # {}
    BY <1>3
  <2>2. Unlink(chain, p) = RemoveAt(chain, Min(I))
    BY <1>3, <2>1 DEF Unlink, RemoveFirst, SelectInSeq
  <2>3. Min(I) \in I
    <3> HIDE DEF I
    <3> QED  BY <2>1, MinOfPositions
  <2>4. Min(I) \in 1..Len(chain) /\ Min(I) > 1
    BY <1>3, <2>1, <2>3
  <2> HIDE DEF I
  <2>5. /\ RemoveAt(chain, Min(I)) \in Seq(Proc \cup {Bad})
        /\ Len(RemoveAt(chain, Min(I))) = Len(chain) - 1
        /\ RemoveAt(chain, Min(I))[1] = chain[1]
    BY <2>4, RemoveAtProperties
  <2>6. Len(RemoveAt(chain, Min(I))) # 0
    BY <2>1, <2>4, <2>5
  <2> QED  BY <2>2, <2>5, <2>6
<1> QED  BY <1>1, <1>2, <1>3

\* ListAppend keeps the first node, and appends nothing to an empty list.
LEMMA ListAppendProperties ==
    ASSUME NEW chain \in Seq(Proc \cup {Bad}), NEW p \in Proc
    PROVE  /\ ListAppend(chain, p) \in Seq(Proc \cup {Bad})
           /\ chain # <<>> => ListAppend(chain, p) # <<>> /\ ListAppend(chain, p)[1] = chain[1]
BY DEF ListAppend

-----------------------------------------------------------------------------
(* Mailboxes and searches *)

Box == [id : Nat, name : NameRead, owner : Chain, senders : Chain,
        receivers : Chain, messages : Seq(Message \cup {Bad})]

\* One list of a mailbox is replaced and the rest of it stays.
LEMMA BoxWith ==
    ASSUME NEW box \in Box, NEW chain \in Chain
    PROVE  /\ [box EXCEPT !.owner = chain] \in Box
           /\ [box EXCEPT !.senders = chain] \in Box
           /\ [box EXCEPT !.receivers = chain] \in Box
BY DEF Box

\* The fields of a mailbox one of whose lists was replaced.
LEMMA WithOwner ==
    ASSUME NEW box \in Box, NEW v
    PROVE  /\ [box EXCEPT !.owner = v].owner = v
           /\ [box EXCEPT !.owner = v].id = box.id
           /\ [box EXCEPT !.owner = v].name = box.name
           /\ [box EXCEPT !.owner = v].senders = box.senders
           /\ [box EXCEPT !.owner = v].receivers = box.receivers
           /\ [box EXCEPT !.owner = v].messages = box.messages
BY DEF Box

\* (the same)
LEMMA WithSenders ==
    ASSUME NEW box \in Box, NEW v
    PROVE  /\ [box EXCEPT !.senders = v].senders = v
           /\ [box EXCEPT !.senders = v].id = box.id
           /\ [box EXCEPT !.senders = v].name = box.name
           /\ [box EXCEPT !.senders = v].owner = box.owner
           /\ [box EXCEPT !.senders = v].receivers = box.receivers
           /\ [box EXCEPT !.senders = v].messages = box.messages
BY DEF Box

\* (the same)
LEMMA WithReceivers ==
    ASSUME NEW box \in Box, NEW v
    PROVE  /\ [box EXCEPT !.receivers = v].receivers = v
           /\ [box EXCEPT !.receivers = v].id = box.id
           /\ [box EXCEPT !.receivers = v].name = box.name
           /\ [box EXCEPT !.receivers = v].owner = box.owner
           /\ [box EXCEPT !.receivers = v].senders = box.senders
           /\ [box EXCEPT !.receivers = v].messages = box.messages
BY DEF Box

\* (the same)
LEMMA WithMessages ==
    ASSUME NEW box \in Box, NEW queue \in Seq(Message \cup {Bad})
    PROVE  /\ [box EXCEPT !.messages = queue] \in Box
           /\ [box EXCEPT !.messages = queue].messages = queue
           /\ [box EXCEPT !.messages = queue].id = box.id
           /\ [box EXCEPT !.messages = queue].name = box.name
           /\ [box EXCEPT !.messages = queue].senders = box.senders
BY DEF Box

\* A mailbox is replaced and the others stay.
LEMMA ReplaceBox ==
    ASSUME NEW boxes \in Seq(Box), NEW i \in DOMAIN boxes, NEW box \in Box
    PROVE  /\ [boxes EXCEPT ![i] = box] \in Seq(Box)
           /\ Len([boxes EXCEPT ![i] = box]) = Len(boxes)
           /\ \A j \in DOMAIN boxes : [boxes EXCEPT ![i] = box][j] = IF j = i THEN box ELSE boxes[j]
<1>1. Len(boxes) \in Nat /\ DOMAIN boxes = 1..Len(boxes)
  OBVIOUS
<1> QED  BY <1>1, ExceptSeq

\* What the searches by id and by name find, or that there is nothing to find.
LEMMA FindProperties ==
    ASSUME mailboxes \in Seq(Box), NEW key
    PROVE  /\ FindById(key) \in 0..Len(mailboxes) /\ FindByName(key) \in 0..Len(mailboxes)
           /\ FindById(key) # 0 => mailboxes[FindById(key)].id = key
           /\ FindByName(key) # 0 => mailboxes[FindByName(key)].name = key
           /\ FindById(key) = 0 => \A i \in DOMAIN mailboxes : mailboxes[i].id # key
           /\ FindByName(key) = 0 => \A i \in DOMAIN mailboxes : mailboxes[i].name # key
<1> DEFINE I == {i \in 1..Len(mailboxes) : mailboxes[i].id = key}
           N == {i \in 1..Len(mailboxes) : mailboxes[i].name = key}
<1>1. Len(mailboxes) \in Nat /\ DOMAIN mailboxes = 1..Len(mailboxes)
  OBVIOUS
<1>2. FindById(key) = IF I # {} THEN Min(I) ELSE 0
  BY DEF FindById, SelectInSeq
<1>3. FindByName(key) = IF N # {} THEN Min(N) ELSE 0
  BY DEF FindByName, SelectInSeq
<1>4. I # {} => Min(I) \in I
  <2> I \in SUBSET (1..Len(mailboxes))
    OBVIOUS
  <2> HIDE DEF I
  <2> QED  BY <1>1, MinOfPositions
<1>5. N # {} => Min(N) \in N
  <2> N \in SUBSET (1..Len(mailboxes))
    OBVIOUS
  <2> HIDE DEF N
  <2> QED  BY <1>1, MinOfPositions
<1> QED  BY <1>1, <1>2, <1>3, <1>4, <1>5

-----------------------------------------------------------------------------
(* The inductive invariant and the kinds of steps *)

IInv == /\ TypeOK /\ NamesAndIdsUnique /\ lastId = Len(mailboxes)
        /\ QueuesInv /\ ContextsInv /\ OneContext /\ NeverUnblocked

Replies == {"none", "id", "OK", "ERROR", "EGENERIC", "EINTR", "unset"}
Modes == {"up", "crashed", "hung", "undefined"}

Replied == reply' \in Replies /\ UNCHANGED <<pm, suspended>>

\* A step that changes neither mailboxes nor contexts: a refusal, an interrupt
\* or the end of PM.
Quiet == /\ UNCHANGED <<mailboxes, lastId, blocked>>
         /\ suspended' \subseteq suspended
         /\ pm' \in Modes /\ reply' \in Replies

\* The lists of processes of mailbox i change, but for the first of its senders.
Lists(i, box) ==
    /\ mailboxes' = [mailboxes EXCEPT ![i] = box]
    /\ box.id = mailboxes[i].id /\ box.name = mailboxes[i].name
    /\ box.messages = mailboxes[i].messages
    /\ mailboxes[i].senders # <<>> =>
          box.senders # <<>> /\ box.senders[1] \in {mailboxes[i].senders[1], Bad}
    /\ UNCHANGED <<lastId, blocked>>
    /\ Replied

\* A mailbox with a new name is made.
Creates(box) ==
    /\ mailboxes' = Append(mailboxes, box)
    /\ box.id = lastId /\ box.messages \in {<<>>, <<Bad>>}
    /\ \A i \in DOMAIN mailboxes : mailboxes[i].name # box.name
    /\ lastId < MaxMailboxes /\ lastId' = lastId + 1
    /\ UNCHANGED blocked
    /\ Replied

\* A message of the first sender joins the queue of the first mailbox.
Queues(m) ==
    /\ mailboxes # <<>> /\ mailboxes[1].senders # <<>> /\ mailboxes[1].senders[1] = m.sender
    /\ ~Wild(mailboxes[1].messages) /\ HasRoom(mailboxes[1].messages)
    /\ mailboxes' = [mailboxes EXCEPT ![1].messages = Append(@, m)]
    /\ UNCHANGED <<lastId, blocked>>
    /\ Replied

\* A receiver leaves the list of message j of the first mailbox.
Reads(j, left) ==
    /\ mailboxes # <<>> /\ j \in DOMAIN mailboxes[1].messages
    /\ mailboxes[1].messages[j] \in Message \ {Bad}
    /\ mailboxes' = [mailboxes EXCEPT ![1].messages[j].receivers = left]
    /\ UNCHANGED <<lastId, blocked>>
    /\ Replied

\* The first sender of the first mailbox is suspended, and nobody else is.
Suspends(p, context) ==
    /\ mailboxes # <<>> /\ mailboxes[1].senders # <<>> /\ mailboxes[1].senders[1] = p
    /\ Len(mailboxes[1].messages) >= MaxMessages
    /\ context.who = p /\ context.mailbox = 0 /\ ~context.unblocked
    /\ blocked = <<>> /\ blocked' = <<context>>
    /\ suspended' = suspended \cup {p}
    /\ UNCHANGED <<pm, mailboxes, lastId, reply>>

SavedContext == [who : Proc, mailbox : Id, text : Text, unblocked : BOOLEAN]

\* Every step is of one of these kinds.
Kinds ==
    \/ Quiet
    \/ \E i \in DOMAIN mailboxes, box \in Box : Lists(i, box)
    \/ \E box \in Box : Creates(box)
    \/ \E m \in Message : Queues(m)
    \/ \E j \in Nat, left \in Chain : Reads(j, left)
    \/ \E p \in Proc, context \in SavedContext : Suspends(p, context)

\* The types, field by field, under short names.
LEMMA Types ==
    ASSUME TypeOK
    PROVE  /\ mailboxes \in Seq(Box) /\ Len(mailboxes) \in Nat
           /\ DOMAIN mailboxes = 1..Len(mailboxes)
           /\ blocked \in Seq(SavedContext) /\ Len(blocked) \in Nat
           /\ DOMAIN blocked = 1..Len(blocked)
           /\ \A i \in DOMAIN mailboxes : mailboxes[i] \in Box
<1>1. mailboxes \in Seq(Box)
  BY DEF TypeOK, Box
<1>2. blocked \in Seq(SavedContext)
  BY DEF TypeOK, SavedContext
<1>3. ASSUME NEW S, NEW s \in Seq(S)
      PROVE  Len(s) \in Nat /\ DOMAIN s = 1..Len(s) /\ \A i \in DOMAIN s : s[i] \in S
  OBVIOUS
<1> QED  BY <1>1, <1>2, <1>3, Zenon

\* With one saved context at most a process has it or there is none of its own;
\* while it does not dangle no context is deleted.
LEMMA ContextProperties ==
    ASSUME TypeOK, OneContext, NEW p \in Proc
    PROVE  /\ Context(p) = IF blocked # <<>> /\ blocked[1].who = p THEN 1 ELSE 0
           /\ ~ContextDangles(p) => Contexts(p) = blocked
<1> DEFINE I == {k \in 1..Len(blocked) : blocked[k].who = p}
<1>1. Context(p) = IF I # {} THEN Min(I) ELSE 0
  BY DEF Context, SelectInSeq
<1>2. Len(blocked) \in {0, 1} /\ (blocked = <<>> <=> Len(blocked) = 0)
  BY Types DEF OneContext
<1>3. I \in SUBSET (1..Len(blocked)) /\ Len(blocked) \in Nat
  BY <1>2
<1>4. I # {} => Min(I) \in I
  <2> HIDE DEF I
  <2> QED  BY <1>3, MinOfPositions
<1>5. Context(p) = IF blocked # <<>> /\ blocked[1].who = p THEN 1 ELSE 0
  BY <1>1, <1>2, <1>4
<1> QED  BY <1>5 DEF ContextDangles, Contexts

\* Reply and Stop set what they name and nothing else that the kinds look at.
LEMMA ReplyIsReplied == ASSUME NEW result \in Replies, Reply(result) PROVE Replied
BY DEF Reply, Replied

LEMMA StopIsQuiet ==
    ASSUME TypeOK, NEW how \in Modes, Stop(how)
    PROVE  Quiet
BY DEF Stop, Quiet, TypeOK, Replies

LEMMA ReplyIsQuiet ==
    ASSUME TypeOK, NEW result \in Replies, Reply(result), UNCHANGED <<mailboxes, lastId, blocked>>
    PROVE  Quiet
BY DEF Reply, Quiet, TypeOK, Modes

\* do_openMailbox refuses, or a process joins a list, or a mailbox is made.
LEMMA OpenKinds == ASSUME IInv, NEW p \in Proc, Open(p) PROVE Kinds
<1> PICK name \in NameRead, create \in BOOLEAN, write \in BOOLEAN :
          \/ OpenFails(p, name, create, write)
          \/ OpenExisting(p, name, create, write)
          \/ OpenNew(p, name, create, write)
  BY DEF Open
<1> USE DEF IInv
<1>1. CASE OpenFails(p, name, create, write)
  BY <1>1, ReplyIsQuiet DEF OpenFails, Kinds, Replies
<1>2. CASE OpenExisting(p, name, create, write)
  <2> DEFINE i == FindByName(name)
             box == mailboxes[i]
             listed == IF write THEN box.senders ELSE box.receivers
  <2>1. i \in DOMAIN mailboxes /\ box \in Box
    BY <1>2, Types, FindProperties DEF OpenExisting
  <2>2. box.senders \in Chain /\ box.receivers \in Chain
    BY <2>1 DEF Box
  <2>3. CASE Wild(listed)
    BY <1>2, <2>3, StopIsQuiet DEF OpenExisting, Kinds, Modes
  <2>4. CASE ~Wild(listed)
    <3> HIDE DEF i
    <3> DEFINE new == IF write THEN [box EXCEPT !.senders = ListAppend(@, p)]
                               ELSE [box EXCEPT !.receivers = ListAppend(@, p)]
    <3>1. /\ ListAppend(box.senders, p) \in Chain /\ ListAppend(box.receivers, p) \in Chain
          /\ box.senders # <<>> => /\ ListAppend(box.senders, p) # <<>>
                                   /\ ListAppend(box.senders, p)[1] = box.senders[1]
      BY <2>2, ListAppendProperties DEF Chain
    <3>2. mailboxes' = [mailboxes EXCEPT ![i] = new]
      BY <1>2, <2>4 DEF OpenExisting, i
    <3>3. UNCHANGED <<lastId, blocked>> /\ Replied
      BY <1>2, <2>4, ReplyIsReplied DEF OpenExisting, Replies, i
    <3>4. new \in Box
      BY <2>1, <3>1, BoxWith DEF Box
    <3>5. /\ new.id = box.id /\ new.name = box.name /\ new.messages = box.messages
          /\ box.senders # <<>> => new.senders # <<>> /\ new.senders[1] \in {box.senders[1], Bad}
      BY <2>1, <3>1 DEF Box
    <3> HIDE DEF new
    <3>6. Lists(i, new)
      BY <3>2, <3>3, <3>5 DEF Lists
    <3> QED  BY <2>1, <3>4, <3>6 DEF Kinds
  <2> QED  BY <2>3, <2>4
<1>3. CASE OpenNew(p, name, create, write)
  <2> PICK owner \in FreshHead, senders \in FreshHead, receivers \in FreshHead,
           messages \in FreshHead \cap {<<>>, <<Bad>>} :
          IF Wild(owner) \/ Wild(IF write THEN senders ELSE receivers)
          THEN Stop("undefined")
          ELSE /\ mailboxes' = Append(mailboxes,
                    [id |-> lastId, name |-> name,
                     owner     |-> ListAppend(owner, p),
                     senders   |-> IF write THEN ListAppend(senders, p) ELSE senders,
                     receivers |-> IF write THEN receivers ELSE ListAppend(receivers, p),
                     messages  |-> messages])
               /\ lastId' = lastId + 1
               /\ Reply("id")
               /\ UNCHANGED blocked
    BY <1>3 DEF OpenNew
  <2>1. CASE Wild(owner) \/ Wild(IF write THEN senders ELSE receivers)
    BY <2>1, StopIsQuiet DEF Kinds, Modes
  <2>2. CASE ~(Wild(owner) \/ Wild(IF write THEN senders ELSE receivers))
    <3> DEFINE new == [id |-> lastId, name |-> name,
                       owner     |-> ListAppend(owner, p),
                       senders   |-> IF write THEN ListAppend(senders, p) ELSE senders,
                       receivers |-> IF write THEN receivers ELSE ListAppend(receivers, p),
                       messages  |-> messages]
    <3>1. owner \in Chain /\ senders \in Chain /\ receivers \in Chain
      BY MailboxAssumption DEF Chain
    <3>2. /\ ListAppend(owner, p) \in Chain /\ ListAppend(senders, p) \in Chain
          /\ ListAppend(receivers, p) \in Chain
      BY <3>1, ListAppendProperties DEF Chain
    <3>3. /\ lastId \in Nat
          /\ messages \in {<<>>, <<Bad>>}
          /\ messages \in Seq(Message \cup {Bad})
      <4>1. lastId \in Nat
        BY Types, Zenon
      <4>2. <<>> \in Seq(Message \cup {Bad}) /\ <<Bad>> \in Seq(Message \cup {Bad})
        OBVIOUS
      <4> QED  BY <4>1, <4>2, Zenon
    <3>4. new.id = lastId /\ new.name = name /\ new.messages = messages
      OBVIOUS
    <3>9. new \in Box
      <4> HIDE DEF Chain, Message
      <4> QED  BY <3>1, <3>2, <3>3, Zenon DEF Box
    <3>5. \A i \in DOMAIN mailboxes : mailboxes[i].name # name
      BY <1>3, Types, FindProperties DEF OpenNew
    <3>6. lastId < MaxMailboxes
      BY <1>3, MailboxAssumption, Types DEF OpenNew, Full
    <3>7. mailboxes' = Append(mailboxes, new) /\ lastId' = lastId + 1 /\ UNCHANGED blocked /\ Replied
      BY <2>2, ReplyIsReplied DEF Replies
    <3> HIDE DEF new
    <3>8. Creates(new)
      BY <3>3, <3>4, <3>5, <3>6, <3>7 DEF Creates
    <3> QED  BY <3>9, <3>8 DEF Kinds
  <2> QED  BY <2>1, <2>2
<1> QED  BY <1>1, <1>2, <1>3

\* getMailbox never returns anything but a place in the list.
LEMMA GetMailboxProperties ==
    ASSUME TypeOK, NEW id, GetMailbox(id) # 0
    PROVE  /\ GetMailbox(id) \in DOMAIN mailboxes
           /\ mailboxes[GetMailbox(id)] \in Box
<1>1. /\ FindById(id) \in 0..Len(mailboxes) /\ DOMAIN mailboxes = 1..Len(mailboxes)
      /\ Len(mailboxes) \in Nat
  BY Types, FindProperties
<1>2. GetMailbox(id) \in DOMAIN mailboxes
  BY <1>1 DEF GetMailbox
<1> QED  BY <1>2, Types

\* do_closeMailbox ends PM, refuses, or takes the process off three lists.
LEMMA CloseKinds == ASSUME IInv, NEW p \in Proc, Close(p) PROVE Kinds
<1> USE DEF IInv
<1> PICK id \in Id : NotFound(p, id) \/ CloseFound(p, id) \/ CloseStops(p, id)
  BY DEF Close
<1>1. CASE NotFound(p, id)
  BY <1>1, ReplyIsQuiet DEF NotFound, Kinds, Replies
<1>2. CASE CloseStops(p, id)
  BY <1>2, StopIsQuiet DEF CloseStops, Kinds, Modes
<1>3. CASE CloseFound(p, id)
  <2> DEFINE i == GetMailbox(id)
             box == mailboxes[i]
             owner == IF box.owner # <<>> /\ box.owner[1] = p THEN <<>> ELSE box.owner
             b1 == [box EXCEPT !.owner = owner]
             b2 == [b1 EXCEPT !.receivers = Unlink(box.receivers, p)]
             new == [b2 EXCEPT !.senders = Unlink(box.senders, p)]
             Gone == /\ box.receivers # <<>> /\ Walk(box.receivers, p) # -1
                     /\ box.senders # <<>> /\ Walk(box.senders, p) # -1
  <2>1. i \in DOMAIN mailboxes /\ box \in Box
    BY <1>3, GetMailboxProperties DEF CloseFound
  <2>2. CASE ~Gone
    <3>1. \E how \in Modes : Stop(how)
      BY <1>3, <2>2 DEF CloseFound, Fault, Modes
    <3> QED  BY <3>1, StopIsQuiet DEF Kinds
  <2>3. CASE Gone
    <3>1. box.owner \in Chain /\ box.receivers \in Chain /\ box.senders \in Chain
      BY <2>1 DEF Box
    <3>2. /\ Unlink(box.receivers, p) \in Chain
          /\ Unlink(box.senders, p) \in Chain /\ Unlink(box.senders, p) # <<>>
          /\ Unlink(box.senders, p)[1] \in {box.senders[1], Bad}
      BY <2>3, <3>1, UnlinkProperties DEF Chain
    <3>3. owner \in Chain
      BY <3>1 DEF Chain
    <3>4. b1 \in Box
      <4> HIDE DEF owner
      <4> QED  BY <2>1, <3>3, BoxWith
    <3>5. b2 \in Box
      <4> HIDE DEF b1
      <4> QED  BY <3>2, <3>4, BoxWith
    <3>6. new \in Box
      <4> HIDE DEF b2
      <4> QED  BY <3>2, <3>5, BoxWith
    <3>7. /\ new.id = box.id /\ new.name = box.name /\ new.messages = box.messages
          /\ new.senders = Unlink(box.senders, p)
      <4>1. /\ b1.id = box.id /\ b1.name = box.name /\ b1.messages = box.messages
        <5> HIDE DEF owner, box
        <5> QED  BY <2>1, WithOwner
      <4>2. /\ b2.id = b1.id /\ b2.name = b1.name /\ b2.messages = b1.messages
        <5> HIDE DEF b1, box
        <5> QED  BY <3>4, WithReceivers
      <4>3. /\ new.id = b2.id /\ new.name = b2.name /\ new.messages = b2.messages
            /\ new.senders = Unlink(box.senders, p)
        <5> HIDE DEF b2, box
        <5> QED  BY <3>5, WithSenders
      <4> QED  BY <4>1, <4>2, <4>3
    <3>8. /\ mailboxes' = [mailboxes EXCEPT
                             ![i].owner     = IF @ # <<>> /\ @[1] = p THEN <<>> ELSE @,
                             ![i].receivers = Unlink(@, p),
                             ![i].senders   = Unlink(@, p)]
          /\ UNCHANGED <<lastId, blocked>> /\ Reply("OK")
      <4> HIDE DEF i
      <4> QED  BY <1>3, <2>3 DEF CloseFound, Fault, i
    <3>9. mailboxes' = [mailboxes EXCEPT ![i] = new]
      <4>1. b1.receivers = box.receivers /\ b2.senders = box.senders
        <5>1. b1.receivers = box.receivers /\ b1.senders = box.senders
          <6> HIDE DEF owner, box
          <6> QED  BY <2>1, WithOwner
        <5>2. b2.senders = b1.senders
          <6> HIDE DEF b1, box
          <6> QED  BY <3>4, WithReceivers
        <5> QED  BY <5>1, <5>2
      <4> DEFINE m1 == [mailboxes EXCEPT ![i].owner = IF @ # <<>> /\ @[1] = p THEN <<>> ELSE @]
                 m2 == [m1 EXCEPT ![i].receivers = Unlink(@, p)]
                 m3 == [m2 EXCEPT ![i].senders = Unlink(@, p)]
      <4>2. m1 = [mailboxes EXCEPT ![i] = b1]
        OBVIOUS
      <4>3. m2 = [mailboxes EXCEPT ![i] = b2]
        <5>1. m1[i] = b1
          BY <2>1, <4>2
        <5>2. m2 = [m1 EXCEPT ![i] = b2]
          <6> HIDE DEF m1, b1, box
          <6> QED  BY <4>1, <5>1
        <5> HIDE DEF m1, m2, b1, b2
        <5> QED  BY <2>1, <4>2, <5>2
      <4>4. m3 = [mailboxes EXCEPT ![i] = new]
        <5>1. m2[i] = b2
          <6> HIDE DEF m2, b2
          <6> QED  BY <2>1, <4>3
        <5>2. m3 = [m2 EXCEPT ![i] = new]
          <6> HIDE DEF m2, b2, box
          <6> QED  BY <4>1, <5>1
        <5> HIDE DEF m2, m3, b2, new
        <5> QED  BY <2>1, <4>3, <5>2
      <4>5. mailboxes' = m3
        BY <3>8, ZenonT(40)
      <4> QED  BY <4>4, <4>5
    <3>10. Replied
      BY <3>8, ReplyIsReplied DEF Replies
    <3> HIDE DEF new
    <3>11. Lists(i, new)
      BY <3>2, <3>7, <3>8, <3>9, <3>10 DEF Lists
    <3> QED  BY <2>1, <3>6, <3>11 DEF Kinds
  <2> QED  BY <2>2, <2>3
<1> QED  BY <1>1, <1>2, <1>3

\* do_depositMessage ends PM, refuses, queues a message in the first mailbox or
\* suspends the first of its senders.
LEMMA DepositKinds == ASSUME IInv, NEW p \in Proc, Deposit(p) PROVE Kinds
<1> USE DEF IInv
<1> PICK id \in Id : \/ DepositRefused(p, id) \/ DepositStops(p, id)
                     \/ \E text \in Text : \/ DepositQueued(p, id, text)
                                           \/ DepositSuspended(p, id, text)
  BY DEF Deposit
<1>1. CASE DepositRefused(p, id)
  BY <1>1, ContextProperties, ReplyIsQuiet DEF DepositRefused, Kinds, Replies
<1>2. CASE DepositStops(p, id)
  <2>1. \E how \in Modes : Stop(how)
    BY <1>2 DEF DepositStops, Modes
  <2> QED  BY <2>1, StopIsQuiet DEF Kinds
<1>3. ASSUME NEW text \in Text, ~ContextDangles(p), ValidSender(p, id), Reaches(FindById(id))
      PROVE  /\ FindById(id) = 1 /\ 1 \in DOMAIN mailboxes /\ mailboxes # <<>>
             /\ mailboxes[1].senders # <<>> /\ mailboxes[1].senders[1] = p
             /\ id = 0
             /\ blocked = <<>> /\ Contexts(p) = <<>>
             /\ Request(p, id, text) = [who |-> p, mailbox |-> id, text |-> text, unblocked |-> FALSE]
  <2>1. FindById(id) = 1 /\ 1 \in 0..Len(mailboxes) /\ mailboxes[1].id = id
    BY <1>3, Types, FindProperties DEF Reaches
  <2>2. 1 \in DOMAIN mailboxes /\ mailboxes # <<>>
    BY <2>1, Types
  <2>3. mailboxes[1].senders # <<>> /\ mailboxes[1].senders[1] = p
    BY <1>3, <2>1 DEF ValidSender, Senders
  <2>4. id = 0
    <3>1. \A i \in DOMAIN mailboxes : mailboxes[i].id = i - 1
      BY DEF NamesAndIdsUnique
    <3> QED  BY <2>1, <2>2, <3>1
  <2>5. Context(p) = 0
    BY <1>3, ContextProperties DEF ContextDangles
  <2>6. blocked = <<>>
    <3> SUFFICES ASSUME blocked # <<>> PROVE FALSE
      OBVIOUS
    <3>1. 1 \in DOMAIN blocked
      BY Types
    <3>2. mailboxes[1].senders[1] \in {blocked[1].who, Bad}
      BY <3>1 DEF ContextsInv, BeginsWith
    <3>3. blocked[1].who = p
      BY <2>3, <3>2, MailboxAssumption
    <3> QED  BY <2>5, <3>3, ContextProperties
  <2> QED  BY <2>1, <2>2, <2>3, <2>4, <2>5, <2>6 DEF Contexts, Request
<1>4. ASSUME NEW text \in Text, DepositQueued(p, id, text) PROVE Kinds
  <2>1. /\ ~ContextDangles(p) /\ ValidSender(p, id) /\ Reaches(FindById(id))
        /\ blocked' = Contexts(p) /\ Reply("unset") /\ UNCHANGED lastId
    BY <1>4 DEF DepositQueued
  <2>2. /\ FindById(id) = 1 /\ 1 \in DOMAIN mailboxes /\ mailboxes # <<>>
        /\ mailboxes[1].senders # <<>> /\ mailboxes[1].senders[1] = p
        /\ UNCHANGED blocked
        /\ Request(p, id, text).text = text
    BY <1>3, <2>1
  <2>3. ~Wild(mailboxes[1].messages) /\ HasRoom(mailboxes[1].messages)
    BY <1>4, <2>2 DEF DepositQueued
  <2>4. PICK receivers \in Receivers, head \in FreshHead :
            mailboxes' = [mailboxes EXCEPT ![1].messages = Append(@,
                     [sender |-> p, text |-> text,
                      receivers |-> IF receivers = <<>> \/ head = <<>>
                                    THEN head \o receivers
                                    ELSE <<head[1]>> \o receivers])]
    <3> DEFINE i == FindById(id)
               r == Request(p, id, text)
    <3>1. PICK receivers \in Receivers, head \in FreshHead :
              mailboxes' = [mailboxes EXCEPT ![i].messages = Append(@,
                       [sender |-> p, text |-> r.text,
                        receivers |-> IF receivers = <<>> \/ head = <<>>
                                      THEN head \o receivers
                                      ELSE <<head[1]>> \o receivers])]
      BY <1>4, Zenon DEF DepositQueued
    <3>2. i = 1 /\ r.text = text
      BY <2>2
    <3> QED  BY <3>1, <3>2, Zenon
  <2> DEFINE list == IF receivers = <<>> \/ head = <<>> THEN head \o receivers
                                                        ELSE <<head[1]>> \o receivers
             m == [sender |-> p, text |-> text, receivers |-> list]
  <2>5. list \in Chain
    <3>1. receivers \in Seq(Proc \cup {Bad}) /\ head \in Seq(Proc \cup {Bad})
      BY MailboxAssumption
    <3>2. head # <<>> => <<head[1]>> \in Seq(Proc \cup {Bad})
      BY <3>1
    <3> QED  BY <3>1, <3>2, ConcatProperties DEF Chain
  <2> HIDE DEF list
  <2>6. m \in Message /\ m.sender = p
    BY <2>5 DEF Message
  <2>7. mailboxes' = [mailboxes EXCEPT ![1].messages = Append(@, m)]
    BY <2>4 DEF list
  <2> HIDE DEF m
  <2>8. Queues(m)
    BY <2>1, <2>2, <2>3, <2>6, <2>7, ReplyIsReplied DEF Queues, Replies
  <2> QED  BY <2>6, <2>8 DEF Kinds
<1>5. ASSUME NEW text \in Text, DepositSuspended(p, id, text) PROVE Kinds
  <2> DEFINE r == [who |-> p, mailbox |-> id, text |-> text, unblocked |-> FALSE]
             context == [r EXCEPT !.unblocked = FALSE]
  <2>1. ~ContextDangles(p) /\ ValidSender(p, id) /\ Reaches(FindById(id))
    BY <1>5 DEF DepositSuspended
  <2>2. /\ FindById(id) = 1 /\ 1 \in DOMAIN mailboxes /\ mailboxes # <<>>
        /\ mailboxes[1].senders # <<>> /\ mailboxes[1].senders[1] = p
        /\ id = 0 /\ blocked = <<>> /\ Contexts(p) = <<>>
        /\ Request(p, id, text) = r
    BY <1>3, <2>1
  <2>3. blocked' = <<context>>
    <3>1. blocked' = Append(<<>>, context)
      <4> HIDE DEF r
      <4> QED  BY <1>5, <2>2 DEF DepositSuspended
    <3> QED  BY <3>1
  <2>4. Len(mailboxes[1].messages) >= MaxMessages
    <3>1. Len(mailboxes[1].messages) \in Nat
      BY <2>2, Types DEF Box
    <3> QED  BY <1>5, <2>2, <3>1, MailboxAssumption DEF DepositSuspended, HasRoom
  <2>5. suspended' = suspended \cup {p} /\ UNCHANGED <<pm, mailboxes, lastId, reply>>
    BY <1>5 DEF DepositSuspended
  <2>6. context \in SavedContext /\ context.who = p /\ context.mailbox = 0 /\ ~context.unblocked
    <3>1. r \in SavedContext /\ r.who = p /\ r.mailbox = 0
      BY <2>2 DEF SavedContext
    <3> HIDE DEF r
    <3> QED  BY <3>1 DEF SavedContext
  <2> HIDE DEF context
  <2>7. Suspends(p, context)
    BY <2>2, <2>3, <2>4, <2>5, <2>6 DEF Suspends
  <2> QED  BY <2>6, <2>7 DEF Kinds
<1> QED  BY <1>1, <1>2, <1>4, <1>5

\* do_retrieveMessage ends PM, refuses, or takes the process off the list of a
\* message of the first mailbox, which is not empty afterwards.
LEMMA RetrieveKinds == ASSUME IInv, NEW p \in Proc, Retrieve(p) PROVE Kinds
<1> USE DEF IInv
<1> PICK id \in Id : \/ NotFound(p, id) \/ RetrieveRefused(p, id)
                     \/ RetrieveText(p, id) \/ RetrieveStops(p, id)
  BY DEF Retrieve
<1>1. CASE NotFound(p, id)
  BY <1>1, ReplyIsQuiet DEF NotFound, Kinds, Replies
<1>2. CASE RetrieveRefused(p, id)
  BY <1>2, ReplyIsQuiet DEF RetrieveRefused, Kinds, Replies
<1>3. CASE RetrieveStops(p, id)
  <2>1. \E how \in Modes : Stop(how)
    BY <1>3 DEF RetrieveStops, Modes
  <2> QED  BY <2>1, StopIsQuiet DEF Kinds
<1>4. CASE RetrieveText(p, id)
  <2> DEFINE i == GetMailbox(id)
             queue == mailboxes[i].messages
             j == FirstFor(queue, p)
             left == Unlink(queue[j].receivers, p)
  <2>1. i \in DOMAIN mailboxes /\ queue \in Seq(Message \cup {Bad})
    BY <1>4, GetMailboxProperties DEF RetrieveText, Box
  <2>2. j # 0 /\ WalkMessage(queue[j], p) > 0
    BY <1>4 DEF RetrieveText
  <2>3. j \in DOMAIN queue
    <3> HIDE DEF queue
    <3> DEFINE J == {k \in 1..Len(queue) : WalkMessage(queue[k], p) # 0}
    <3>1. j = IF J # {} THEN Min(J) ELSE 0
      BY DEF FirstFor, SelectInSeq
    <3>2. J \in SUBSET (1..Len(queue)) /\ Len(queue) \in Nat
      BY <2>1
    <3>3. J # {} => Min(J) \in J
      <4> HIDE DEF J
      <4> QED  BY <3>2, MinOfPositions
    <3> QED  BY <2>1, <2>2, <3>1, <3>3
  <2> HIDE DEF j
  <2>4. queue[j] # Bad /\ queue[j] \in Message /\ Walk(queue[j].receivers, p) > 0
    <3> HIDE DEF queue
    <3>1. queue[j] # Bad /\ Walk(queue[j].receivers, p) > 0
      BY <2>2 DEF WalkMessage
    <3> QED  BY <2>1, <2>3, <3>1
  <2>5. i = 1
    <3> SUFFICES ASSUME i # 1 PROVE FALSE
      OBVIOUS
    <3>1. queue \in {<<>>, <<Bad>>}
      <4> HIDE DEF i
      <4> QED  BY <2>1 DEF QueuesInv, QueueRight
    <3> HIDE DEF queue
    <3> QED  BY <2>3, <2>4, <3>1
  <2>6. /\ left \in Chain /\ left # <<>>
    <3> HIDE DEF queue
    <3>1. queue[j].receivers \in Seq(Proc \cup {Bad})
      BY <2>4 DEF Message, Chain
    <3>2. queue[j].receivers # <<>> /\ Walk(queue[j].receivers, p) # -1
      <4>1. Len(queue[j].receivers) # 0
        BY <2>4, <3>1, WalkProperties
      <4> QED  BY <2>4, <4>1
    <3> QED  BY <3>1, <3>2, UnlinkProperties DEF Chain
  <2> HIDE DEF left
  <2>7. /\ mailboxes' = [mailboxes EXCEPT ![1].messages[j].receivers = left]
        /\ UNCHANGED <<lastId, blocked>> /\ Reply("OK")
    <3> HIDE DEF i, queue
    <3> QED  BY <1>4, <2>5, <2>6 DEF RetrieveText, i, queue, j, left
  <2>8. Reads(j, left)
    <3>1. mailboxes # <<>>
      BY <2>1, <2>5, Types
    <3> QED  BY <2>3, <2>4, <2>5, <2>7, <3>1, ReplyIsReplied DEF Reads, Replies
  <2>9. j \in Nat
    BY <2>1, <2>3
  <2> QED  BY <2>6, <2>8, <2>9 DEF Kinds
<1> QED  BY <1>1, <1>2, <1>3, <1>4

\* Every step is of one of the kinds.
LEMMA NextKinds == ASSUME IInv, [Next]_vars PROVE Kinds
<1> USE DEF IInv
<1>1. CASE UNCHANGED vars
  BY <1>1 DEF vars, TypeOK, Modes, Replies, Quiet, Kinds
<1>2. ASSUME NEW p \in Proc, GetReceiverList(p) PROVE Kinds
  BY <1>2, ReplyIsQuiet, StopIsQuiet DEF GetReceiverList, Kinds, Replies, Modes
<1>3. ASSUME NEW p \in Proc, Interrupt(p) PROVE Kinds
  BY <1>3 DEF Interrupt, TypeOK, Quiet, Kinds, Replies, Modes
<1> QED  BY <1>1, <1>2, <1>3, OpenKinds, CloseKinds, DepositKinds, RetrieveKinds DEF Next

-----------------------------------------------------------------------------
(* The invariant is inductive *)

\* Mailbox i becomes box, whose queue is as QueuesInv wants it and no shorter.
Replaces(i, box) ==
    /\ mailboxes' = [mailboxes EXCEPT ![i] = box]
    /\ box.id = mailboxes[i].id /\ box.name = mailboxes[i].name
    /\ mailboxes[i].senders # <<>> =>
          box.senders # <<>> /\ box.senders[1] \in {mailboxes[i].senders[1], Bad}
    /\ Len(mailboxes[i].messages) <= Len(box.messages) /\ Len(box.messages) <= MaxMessages
    /\ i # 1 => box.messages \in {<<>>, <<Bad>>}
    /\ i = 1 /\ ~Wild(box.messages) =>
          \A j \in DOMAIN box.messages :
              /\ box.messages[j].sender = box.messages[1].sender
              /\ box.senders # <<>> /\ box.senders[1] \in {box.messages[j].sender, Bad}
    /\ UNCHANGED <<lastId, blocked>>
    /\ Replied

\* Such a step preserves the invariant.
LEMMA ReplacesInv ==
    ASSUME IInv, NEW i \in DOMAIN mailboxes, NEW box \in Box, Replaces(i, box)
    PROVE  IInv'
<1> USE DEF IInv
<1>1. /\ mailboxes \in Seq(Box) /\ Len(mailboxes) \in Nat /\ DOMAIN mailboxes = 1..Len(mailboxes)
      /\ blocked \in Seq(SavedContext)
  BY Types
<1>2. /\ mailboxes' \in Seq(Box) /\ Len(mailboxes') = Len(mailboxes)
      /\ \A k \in DOMAIN mailboxes : mailboxes'[k] = IF k = i THEN box ELSE mailboxes[k]
  BY <1>1, ReplaceBox DEF Replaces
<1>3. DOMAIN mailboxes' = DOMAIN mailboxes /\ (mailboxes' = <<>> <=> mailboxes = <<>>)
  BY <1>1, <1>2
<1>4. UNCHANGED <<pm, lastId, blocked, suspended>> /\ reply' \in Replies
  BY DEF Replaces, Replied
<1>5. TypeOK'
  <2>1. TypeOK' <=> /\ pm' \in Modes /\ mailboxes' \in Seq(Box) /\ lastId' \in 0..MaxMailboxes
                    /\ blocked' \in Seq(SavedContext) /\ suspended' \subseteq Proc /\ reply' \in Replies
    BY DEF TypeOK, Modes, Box, SavedContext, Replies
  <2>2. pm \in Modes /\ lastId \in 0..MaxMailboxes /\ suspended \subseteq Proc
    BY DEF TypeOK, Modes
  <2> QED  BY <1>1, <1>2, <1>4, <2>1, <2>2, Zenon
<1>6. \A k \in DOMAIN mailboxes : /\ mailboxes'[k].id = mailboxes[k].id
                                  /\ mailboxes'[k].name = mailboxes[k].name
  BY <1>2, Zenon DEF Replaces
<1>7. NamesAndIdsUnique'
  BY <1>3, <1>6 DEF NamesAndIdsUnique
<1>8. \A p : BeginsWith(p) => BeginsWith(p)'
  <2> SUFFICES ASSUME NEW p, BeginsWith(p) PROVE BeginsWith(p)'
    OBVIOUS
  <2>1. 1 \in DOMAIN mailboxes
    BY <1>1 DEF BeginsWith
  <2>2. /\ mailboxes[1].senders # <<>> => mailboxes'[1].senders # <<>>
        /\ mailboxes[1].senders # <<>> => mailboxes'[1].senders[1] \in {mailboxes[1].senders[1], Bad}
    BY <1>2, <2>1, Zenon DEF Replaces
  <2> QED  BY <1>3, <2>2, Zenon DEF BeginsWith
<1>9. QueuesInv'
  <2> SUFFICES ASSUME NEW k \in DOMAIN mailboxes PROVE QueueRight(k)'
    BY <1>3 DEF QueuesInv
  <2>1. CASE k = i
    <3>1. mailboxes'[k] = box
      BY <1>2, <2>1, Zenon
    <3>2. mailboxes' # <<>>
      BY <1>1, <1>3
    <3>3. k = 1 => \A q : box.senders # <<>> /\ box.senders[1] \in {q, Bad} => BeginsWith(q)'
      BY <3>1, <3>2, Zenon DEF BeginsWith
    <3>4. /\ Len(box.messages) <= MaxMessages
          /\ k # 1 => box.messages \in {<<>>, <<Bad>>}
          /\ k = 1 /\ ~Wild(box.messages) =>
                \A j \in DOMAIN box.messages : /\ box.messages[j].sender = box.messages[1].sender
                                               /\ BeginsWith(box.messages[j].sender)'
      BY <2>1, <3>3, Zenon DEF Replaces
    <3> QED  BY <3>1, <3>4, Zenon DEF QueueRight
  <2>2. CASE k # i
    <3>1. mailboxes'[k] = mailboxes[k]
      BY <1>2, <2>2, Zenon
    <3>2. QueueRight(k)
      BY DEF QueuesInv
    <3> QED  BY <1>8, <3>1, <3>2, Zenon DEF QueueRight
  <2> QED  BY <2>1, <2>2
<1>10. ContextsInv'
  <2>1. ASSUME NEW j \in DOMAIN blocked
        PROVE  /\ BeginsWith(blocked[j].who)' /\ blocked'[j].mailbox = 0
               /\ Len(mailboxes'[1].messages) = MaxMessages
    <3>1. /\ BeginsWith(blocked[j].who) /\ blocked[j].mailbox = 0
          /\ Len(mailboxes[1].messages) = MaxMessages
      BY DEF ContextsInv
    <3>2. 1 \in DOMAIN mailboxes
      BY <1>1, <3>1 DEF BeginsWith
    <3>3. BeginsWith(blocked[j].who)'
      BY <1>4, <1>8, <3>1 DEF BeginsWith
    <3>4. Len(mailboxes'[1].messages) = MaxMessages
      <4>1. CASE i = 1
        <5>1. Len(box.messages) \in Nat
          BY DEF Box
        <5>2. mailboxes'[1] = box /\ Len(box.messages) = MaxMessages
          <6>1. MaxMessages <= Len(box.messages) /\ Len(box.messages) <= MaxMessages
            BY <3>1, <4>1 DEF Replaces
          <6> QED  BY <1>2, <3>2, <4>1, <5>1, <6>1, MailboxAssumption
        <5> QED  BY <5>2
      <4>2. CASE i # 1
        BY <1>2, <3>1, <3>2, <4>2
      <4> QED  BY <4>1, <4>2
    <3> QED  BY <1>4, <3>1, <3>3, <3>4
  <2>2. \A p \in suspended' : blocked' # <<>> /\ blocked'[1].who = p
    BY <1>4 DEF ContextsInv
  <2> QED  BY <1>4, <2>1, <2>2 DEF ContextsInv
<1>11. OneContext' /\ NeverUnblocked' /\ (lastId = Len(mailboxes))'
  BY <1>2, <1>4 DEF OneContext, NeverUnblocked
<1> QED  BY <1>5, <1>7, <1>9, <1>10, <1>11

\* A change of the lists of processes is such a step.
LEMMA ListsReplaces ==
    ASSUME IInv, NEW i \in DOMAIN mailboxes, NEW box \in Box, Lists(i, box)
    PROVE  Replaces(i, box)
<1>1. mailboxes[i] \in Box /\ DOMAIN mailboxes = 1..Len(mailboxes) /\ Len(mailboxes) \in Nat
  BY Types DEF IInv
<1>2. box.messages = mailboxes[i].messages /\ Len(box.messages) \in Nat
  BY <1>1 DEF Lists, Box
<1>3. QueueRight(i)
  BY DEF IInv, QueuesInv
<1>4. ASSUME NEW q, i = 1, BeginsWith(q)
      PROVE  box.senders # <<>> /\ box.senders[1] \in {q, Bad}
  BY <1>4, Zenon DEF BeginsWith, Lists
<1>5. /\ Len(box.messages) <= MaxMessages
      /\ i # 1 => box.messages \in {<<>>, <<Bad>>}
      /\ i = 1 /\ ~Wild(box.messages) =>
            \A j \in DOMAIN box.messages :
                /\ box.messages[j].sender = box.messages[1].sender
                /\ box.senders # <<>> /\ box.senders[1] \in {box.messages[j].sender, Bad}
  BY <1>2, <1>3, <1>4, Zenon DEF QueueRight
<1>6. Len(mailboxes[i].messages) <= Len(box.messages)
  BY <1>2
<1> QED  BY <1>5, <1>6, Zenon DEF Replaces, Lists

\* So is a message that joins the queue.
LEMMA QueuesReplaces ==
    ASSUME IInv, NEW m \in Message, Queues(m)
    PROVE  \E box \in Box : Replaces(1, box) /\ box.messages = Append(mailboxes[1].messages, m)
<1> DEFINE old == mailboxes[1]
           box == [old EXCEPT !.messages = Append(@, m)]
<1>1. 1 \in DOMAIN mailboxes /\ old \in Box
  BY Types DEF IInv, Queues
<1>2. /\ old.messages \in Seq(Message \cup {Bad}) /\ Len(old.messages) \in Nat
      /\ DOMAIN old.messages = 1..Len(old.messages)
  BY <1>1 DEF Box
<1> HIDE DEF old
<1>3. /\ Append(old.messages, m) \in Seq(Message \cup {Bad})
      /\ Len(Append(old.messages, m)) = Len(old.messages) + 1
      /\ DOMAIN Append(old.messages, m) = 1..(Len(old.messages) + 1)
      /\ Append(old.messages, m)[Len(old.messages) + 1] = m
      /\ \A j \in 1..Len(old.messages) : Append(old.messages, m)[j] = old.messages[j]
  BY <1>2
<1>4. /\ box \in Box /\ box.messages = Append(old.messages, m)
      /\ box.id = old.id /\ box.name = old.name /\ box.senders = old.senders
  BY <1>1, <1>3, WithMessages
<1> HIDE DEF box
<1>5. mailboxes' = [mailboxes EXCEPT ![1] = box] /\ UNCHANGED <<lastId, blocked>> /\ Replied
  BY Zenon DEF Queues, box, old
<1>6. Len(old.messages) < MaxMessages /\ ~Wild(old.messages)
  BY DEF Queues, HasRoom, old
<1>7. old.senders # <<>> /\ old.senders[1] = m.sender /\ m.sender # Bad
  BY MailboxAssumption DEF Queues, old, Message
<1>8. \A j \in DOMAIN old.messages : old.messages[j].sender = m.sender
  <2>1. QueueRight(1)
    BY <1>1 DEF IInv, QueuesInv
  <2>2. \A j \in DOMAIN old.messages : BeginsWith(old.messages[j].sender)
    BY <1>6, <2>1 DEF QueueRight, old
  <2> QED  BY <1>7, <2>2 DEF BeginsWith, old
<1>9. \A j \in DOMAIN box.messages : box.messages[j].sender = m.sender
  <2> SUFFICES ASSUME NEW j \in 1..(Len(old.messages) + 1)
               PROVE  Append(old.messages, m)[j].sender = m.sender
    BY <1>3, <1>4
  <2>1. CASE j \in 1..Len(old.messages)
    BY <1>2, <1>3, <1>8, <2>1
  <2>2. CASE j = Len(old.messages) + 1
    BY <1>3, <2>2
  <2> QED  BY <1>2, <2>1, <2>2
<1>10. box.messages[1].sender = m.sender
  BY <1>2, <1>3, <1>4, <1>9
<1>11. Len(old.messages) <= Len(box.messages) /\ Len(box.messages) <= MaxMessages
  BY <1>2, <1>3, <1>4, <1>6, MailboxAssumption
<1>12. Replaces(1, box)
  BY <1>4, <1>5, <1>7, <1>9, <1>10, <1>11, Zenon DEF Replaces, old
<1> QED  BY <1>4, <1>12 DEF old

\* And a receiver that leaves the list of a message.
LEMMA ReadsReplaces ==
    ASSUME IInv, NEW j \in Nat, NEW left \in Chain, Reads(j, left)
    PROVE  \E box \in Box :
              /\ Replaces(1, box)
              /\ DOMAIN box.messages = DOMAIN mailboxes[1].messages
              /\ \A k \in DOMAIN box.messages : k # j => box.messages[k] = mailboxes[1].messages[k]
              /\ box.messages[j].sender = mailboxes[1].messages[j].sender
              /\ box.messages[j].text = mailboxes[1].messages[j].text
<1> DEFINE old == mailboxes[1]
           queue == old.messages
           m == [queue[j] EXCEPT !.receivers = left]
           new == [queue EXCEPT ![j] = m]
           box == [old EXCEPT !.messages = new]
<1>1. 1 \in DOMAIN mailboxes /\ old \in Box
  BY Types DEF IInv, Reads
<1>2. /\ queue \in Seq(Message \cup {Bad}) /\ Len(queue) \in Nat
      /\ DOMAIN queue = 1..Len(queue)
  BY <1>1 DEF Box
<1>3. j \in 1..Len(queue) /\ queue[j] \in Message /\ queue[j] # Bad
  BY <1>2 DEF Reads
<1> HIDE DEF queue, old
<1>4. m \in Message /\ m.sender = queue[j].sender /\ m.text = queue[j].text
  BY <1>3 DEF Message
<1> HIDE DEF m
<1>5. /\ new \in Seq(Message \cup {Bad}) /\ Len(new) = Len(queue)
      /\ \A k \in 1..Len(queue) : new[k] = IF k = j THEN m ELSE queue[k]
  BY <1>2, <1>3, <1>4, ExceptSeq
<1>6. DOMAIN new = DOMAIN queue
  BY <1>2
<1> HIDE DEF new
<1>7. /\ box \in Box /\ box.messages = new
      /\ box.id = old.id /\ box.name = old.name /\ box.senders = old.senders
  BY <1>1, <1>5, WithMessages
<1> HIDE DEF box
<1>8. UNCHANGED <<lastId, blocked>> /\ Replied
      /\ mailboxes' = [mailboxes EXCEPT ![1].messages[j].receivers = left]
  BY DEF Reads
<1>9. mailboxes' = [mailboxes EXCEPT ![1] = box]
  BY <1>8, Zenon DEF box, old, new, queue, m
<1>10. QueueRight(1)
  BY <1>1 DEF IInv, QueuesInv
<1>11. Len(new) <= MaxMessages /\ Len(old.messages) <= Len(new)
  BY <1>2, <1>5, <1>10 DEF QueueRight, queue, old
<1>12. ASSUME ~Wild(new)
       PROVE  \A k \in DOMAIN new : /\ new[k].sender = new[1].sender
                                    /\ BeginsWith(new[k].sender)
  <2>1. \A k \in 1..Len(queue) : queue[k] # Bad
    BY <1>2, <1>3, <1>5, <1>12 DEF Wild, Contains
  <2>2. ~Wild(queue)
    BY <2>1 DEF Wild, Contains
  <2>3. \A k \in DOMAIN queue : /\ queue[k].sender = queue[1].sender
                                /\ BeginsWith(queue[k].sender)
    BY <1>10, <2>2 DEF QueueRight, queue, old
  <2>4. \A k \in DOMAIN queue : new[k].sender = queue[k].sender
    BY <1>2, <1>4, <1>5
  <2>5. DOMAIN queue # {} => 1 \in DOMAIN queue
    BY <1>2
  <2> QED  BY <1>6, <2>3, <2>4, <2>5
<1>13. Replaces(1, box)
  BY <1>7, <1>8, <1>9, <1>11, <1>12, Zenon DEF Replaces, BeginsWith, old
<1> QED  BY <1>2, <1>3, <1>4, <1>5, <1>6, <1>7, <1>13 DEF queue, old

\* A new mailbox preserves the invariant.
LEMMA CreatesInv ==
    ASSUME IInv, NEW box \in Box, Creates(box)
    PROVE  IInv'
<1> USE DEF IInv
<1>1. /\ mailboxes \in Seq(Box) /\ Len(mailboxes) \in Nat /\ DOMAIN mailboxes = 1..Len(mailboxes)
      /\ blocked \in Seq(SavedContext)
  BY Types
<1> DEFINE n == Len(mailboxes) + 1
<1>2. /\ mailboxes' \in Seq(Box) /\ Len(mailboxes') = n /\ DOMAIN mailboxes' = 1..n
      /\ \A k \in DOMAIN mailboxes : mailboxes'[k] = mailboxes[k]
      /\ mailboxes'[n] = box
  BY <1>1 DEF Creates
<1>3. UNCHANGED <<pm, blocked, suspended>> /\ reply' \in Replies
  BY DEF Creates, Replied
<1>4. \A k \in DOMAIN mailboxes' : k \in DOMAIN mailboxes \/ k = n
  BY <1>1, <1>2
<1>5. TypeOK'
  <2>1. TypeOK' <=> /\ pm' \in Modes /\ mailboxes' \in Seq(Box) /\ lastId' \in 0..MaxMailboxes
                    /\ blocked' \in Seq(SavedContext) /\ suspended' \subseteq Proc /\ reply' \in Replies
    BY DEF TypeOK, Modes, Box, SavedContext, Replies
  <2>2. pm \in Modes /\ suspended \subseteq Proc
    BY DEF TypeOK, Modes
  <2>3. lastId' \in 0..MaxMailboxes
    BY <1>1, MailboxAssumption DEF Creates
  <2> QED  BY <1>1, <1>2, <1>3, <2>1, <2>2, <2>3, Zenon
<1>6. NamesAndIdsUnique'
  <2>1. box.id = n - 1 /\ \A k \in DOMAIN mailboxes : mailboxes[k].name # box.name
    BY <1>1 DEF Creates
  <2>2. \A k \in DOMAIN mailboxes' : mailboxes'[k].id = k - 1
    BY <1>2, <1>4, <2>1 DEF NamesAndIdsUnique
  <2>3. \A k, l \in DOMAIN mailboxes' : mailboxes'[k].name = mailboxes'[l].name => k = l
    <3>1. \A k, l \in DOMAIN mailboxes : mailboxes[k].name = mailboxes[l].name => k = l
      BY DEF NamesAndIdsUnique
    <3> HIDE DEF n
    <3> QED  BY <1>2, <1>4, <2>1, <3>1, Zenon
  <2> QED  BY <2>2, <2>3 DEF NamesAndIdsUnique
<1>7. \A p : BeginsWith(p) => BeginsWith(p)' /\ mailboxes'[1] = mailboxes[1]
  BY <1>1, <1>2 DEF BeginsWith
<1>8. QueuesInv'
  <2> SUFFICES ASSUME NEW k \in DOMAIN mailboxes' PROVE QueueRight(k)'
    BY DEF QueuesInv
  <2>1. CASE k \in DOMAIN mailboxes
    <3>1. mailboxes'[k] = mailboxes[k]
      BY <1>2, <2>1, Zenon
    <3>2. QueueRight(k)
      BY <2>1 DEF QueuesInv
    <3> QED  BY <1>7, <3>1, <3>2, Zenon DEF QueueRight
  <2>2. CASE k = n
    <3>1. mailboxes'[k].messages \in {<<>>, <<Bad>>}
      BY <1>2, <2>2 DEF Creates
    <3>2. Len(mailboxes'[k].messages) <= MaxMessages
      <4>1. Len(<<>>) = 0 /\ Len(<<Bad>>) = 1 /\ 0 <= MaxMessages /\ 1 <= MaxMessages
        BY MailboxAssumption
      <4> QED  BY <3>1, <4>1, Zenon
    <3>3. ~Wild(mailboxes'[k].messages) => DOMAIN mailboxes'[k].messages = {}
      BY <3>1 DEF Wild, Contains
    <3> QED  BY <3>1, <3>2, <3>3, Zenon DEF QueueRight
  <2> QED  BY <1>4, <2>1, <2>2
<1>9. ContextsInv'
  BY <1>3, <1>7 DEF ContextsInv
<1>10. OneContext' /\ NeverUnblocked' /\ (lastId = Len(mailboxes))'
  BY <1>2, <1>3 DEF OneContext, NeverUnblocked, Creates
<1> QED  BY <1>5, <1>6, <1>8, <1>9, <1>10

\* A process that goes to sleep preserves the invariant.
LEMMA SuspendsInv ==
    ASSUME IInv, NEW p \in Proc, NEW context \in SavedContext, Suspends(p, context)
    PROVE  IInv'
<1> USE DEF IInv
<1>1. UNCHANGED <<pm, mailboxes, lastId, reply>> /\ blocked = <<>> /\ blocked' = <<context>>
      /\ suspended' = suspended \cup {p}
  BY DEF Suspends
<1>2. /\ blocked' \in Seq(SavedContext) /\ Len(blocked') = 1 /\ DOMAIN blocked' = {1}
      /\ blocked'[1] = context
  BY <1>1
<1>3. TypeOK'
  <2>1. TypeOK' <=> /\ pm' \in Modes /\ mailboxes' \in Seq(Box) /\ lastId' \in 0..MaxMailboxes
                    /\ blocked' \in Seq(SavedContext) /\ suspended' \subseteq Proc /\ reply' \in Replies
    BY DEF TypeOK, Modes, Box, SavedContext, Replies
  <2>2. /\ pm \in Modes /\ mailboxes \in Seq(Box) /\ lastId \in 0..MaxMailboxes
        /\ suspended \subseteq Proc /\ reply \in Replies
    BY DEF TypeOK, Modes, Box, Replies
  <2> QED  BY <1>1, <1>2, <2>1, <2>2, Zenon
<1>4. NamesAndIdsUnique' /\ QueuesInv' /\ (lastId = Len(mailboxes))'
  BY <1>1 DEF NamesAndIdsUnique, QueuesInv, QueueRight, BeginsWith
<1>5. Len(mailboxes[1].messages) = MaxMessages
  <2>1. 1 \in DOMAIN mailboxes /\ mailboxes[1] \in Box
    BY Types DEF Suspends
  <2>2. QueueRight(1) /\ Len(mailboxes[1].messages) \in Nat
    BY <2>1 DEF QueuesInv, Box
  <2> QED  BY <2>2, MailboxAssumption DEF QueueRight, Suspends
<1>6. ContextsInv'
  BY <1>1, <1>2, <1>5 DEF ContextsInv, BeginsWith, Suspends
<1>7. OneContext' /\ NeverUnblocked'
  BY <1>2 DEF OneContext, NeverUnblocked, Suspends
<1> QED  BY <1>3, <1>4, <1>6, <1>7

\* A quiet step preserves the invariant.
LEMMA QuietInv == ASSUME IInv, Quiet PROVE IInv'
<1> USE DEF IInv
<1>1. UNCHANGED <<mailboxes, lastId, blocked>> /\ suspended' \subseteq suspended
  BY DEF Quiet
<1>2. TypeOK'
  BY DEF TypeOK, Quiet, Modes, Replies
<1>3. /\ NamesAndIdsUnique' /\ QueuesInv' /\ (lastId = Len(mailboxes))'
      /\ OneContext' /\ NeverUnblocked'
  BY <1>1 DEF NamesAndIdsUnique, QueuesInv, QueueRight, BeginsWith, OneContext, NeverUnblocked
<1>4. ContextsInv'
  BY <1>1 DEF ContextsInv, BeginsWith
<1> QED  BY <1>2, <1>3, <1>4

\* The invariant holds at the start.
LEMMA InvInit == Init => IInv
<1> SUFFICES ASSUME Init PROVE IInv
  OBVIOUS
<1>1. TypeOK
  BY MailboxAssumption DEF Init, TypeOK
<1>2. NamesAndIdsUnique /\ QueuesInv /\ ContextsInv /\ NeverUnblocked /\ OneContext
  BY DEF Init, NamesAndIdsUnique, QueuesInv, ContextsInv, NeverUnblocked, OneContext
<1>3. lastId = Len(mailboxes)
  BY DEF Init
<1> QED  BY <1>1, <1>2, <1>3 DEF IInv

\* Every step preserves it.
LEMMA InvNext == IInv /\ [Next]_vars => IInv'
<1> SUFFICES ASSUME IInv, [Next]_vars PROVE IInv'
  OBVIOUS
<1>1. Kinds
  BY NextKinds
<1>2. ASSUME NEW i \in DOMAIN mailboxes, NEW box \in Box, Lists(i, box) PROVE IInv'
  BY <1>2, ListsReplaces, ReplacesInv
<1>3. mailboxes # <<>> => 1 \in DOMAIN mailboxes
  BY Types DEF IInv
<1>4. ASSUME NEW m \in Message, Queues(m) PROVE IInv'
  BY <1>3, <1>4, QueuesReplaces, ReplacesInv DEF Queues
<1>5. ASSUME NEW j \in Nat, NEW left \in Chain, Reads(j, left) PROVE IInv'
  BY <1>3, <1>5, ReadsReplaces, ReplacesInv DEF Reads
<1> QED  BY <1>1, <1>2, <1>4, <1>5, QuietInv, CreatesInv, SuspendsInv DEF Kinds

-----------------------------------------------------------------------------
(* The theorems *)

\* The inductive invariant of the mailbox calls.
THEOREM Invariance == Spec => []IInv
BY InvInit, InvNext, PTL DEF Spec

\* Every variable keeps its type, and ids stay below MAX_MAILBOX_COUNT.
THEOREM TypeCorrect == Spec => []TypeOK
<1>1. IInv => TypeOK
  BY DEF IInv
<1> QED  BY <1>1, Invariance, PTL

\* Names are never given twice and ids are places in the list, whatever the
\* buffers hold after the names that are read.
THEOREM NamesAndIds == Spec => []NamesAndIdsUnique
<1>1. IInv => NamesAndIdsUnique
  BY DEF IInv
<1> QED  BY <1>1, Invariance, PTL

\* isAnySenderUnblocked never finds anything, so PM never resumes a deposit.
THEOREM NobodyResumed == Spec => []NeverUnblocked
<1>1. IInv => NeverUnblocked
  BY DEF IInv
<1> QED  BY <1>1, Invariance, PTL

\* The queue is bounded, and a process sleeps only while the queue is full.
THEOREM QueueBounded == Spec => []MailboxInv
<1>1. IInv => MailboxInv
  <2> SUFFICES ASSUME IInv PROVE CapacityRespected /\ SleepersHaveNoRoom
    BY DEF IInv, MailboxInv
  <2> USE DEF IInv
  <2>1. CapacityRespected
    BY DEF QueuesInv, QueueRight, CapacityRespected
  <2>2. ASSUME NEW p \in suspended
        PROVE  /\ Context(p) # 0
               /\ Len(mailboxes[FindById(blocked[Context(p)].mailbox)].messages) = MaxMessages
    <3>1. p \in Proc /\ blocked # <<>> /\ blocked[1].who = p
      BY DEF TypeOK, ContextsInv
    <3>2. Context(p) = 1 /\ 1 \in DOMAIN blocked
      BY <3>1, ContextProperties, Types
    <3>3. blocked[1].mailbox = 0 /\ mailboxes # <<>> /\ Len(mailboxes[1].messages) = MaxMessages
      BY <3>2 DEF ContextsInv, BeginsWith
    <3>4. \A i \in DOMAIN mailboxes : mailboxes[i].id = i - 1
      BY DEF NamesAndIdsUnique
    <3>5. 1 \in DOMAIN mailboxes /\ DOMAIN mailboxes = 1..Len(mailboxes) /\ Len(mailboxes) \in Nat
      BY <3>3, Types
    <3>6. FindById(0) = 1
      <4>1. /\ FindById(0) \in 0..Len(mailboxes)
            /\ FindById(0) # 0 => mailboxes[FindById(0)].id = 0
            /\ FindById(0) = 0 => \A i \in DOMAIN mailboxes : mailboxes[i].id # 0
        BY Types, FindProperties
      <4> QED  BY <3>4, <3>5, <4>1
    <3> QED  BY <3>2, <3>3, <3>6
  <2> QED  BY <2>1, <2>2 DEF SleepersHaveNoRoom
<1> QED  BY <1>1, Invariance, PTL

\* Messages are only queued in the first mailbox, by one process.
THEOREM OneSender == Spec => []OneSenderOneQueue
<1>1. IInv => OneSenderOneQueue
  <2> SUFFICES ASSUME IInv, NEW i \in DOMAIN mailboxes, ~Wild(mailboxes[i].messages),
                      NEW j \in DOMAIN mailboxes[i].messages
               PROVE  i = 1 /\ mailboxes[i].messages[j].sender = mailboxes[i].messages[1].sender
    BY DEF OneSenderOneQueue
  <2>1. QueueRight(i)
    BY DEF IInv, QueuesInv
  <2>2. i = 1
    <3>1. mailboxes[i].messages \in {<<>>, <<Bad>>} => FALSE
      BY DEF Wild, Contains
    <3> QED  BY <2>1, <3>1 DEF QueueRight
  <2> QED  BY <2>1, <2>2 DEF QueueRight
<1> QED  BY <1>1, Invariance, PTL

\* A queued message stays in its place, with its text and its sender.
THEOREM QueueStays == Spec => QueueKept
<1> DEFINE Kept(i) ==
        \A j \in DOMAIN mailboxes[i].messages : mailboxes[i].messages[j] # Bad =>
            /\ j \in DOMAIN mailboxes'[i].messages
            /\ mailboxes'[i].messages[j].text = mailboxes[i].messages[j].text
            /\ mailboxes'[i].messages[j].sender = mailboxes[i].messages[j].sender
           Step == \A i \in DOMAIN mailboxes : Kept(i)
<1>1. IInv /\ [Next]_vars => [Step]_vars
  <2> SUFFICES ASSUME IInv, [Next]_vars, NEW i \in DOMAIN mailboxes PROVE Kept(i)
    OBVIOUS
  <2>1. ASSUME mailboxes'[i].messages = mailboxes[i].messages PROVE Kept(i)
    BY <2>1, Zenon
  <2>2. /\ mailboxes \in Seq(Box) /\ DOMAIN mailboxes = 1..Len(mailboxes) /\ Len(mailboxes) \in Nat
        /\ mailboxes[i] \in Box
    BY Types DEF IInv
  <2>3. mailboxes # <<>> => 1 \in DOMAIN mailboxes
    BY <2>2
  <2>4. CASE Quiet
    BY <2>1, <2>4 DEF Quiet
  <2>5. ASSUME NEW k \in DOMAIN mailboxes, NEW box \in Box, Lists(k, box) PROVE Kept(i)
    <3>1. mailboxes'[i] = IF i = k THEN box ELSE mailboxes[i]
      BY <2>2, <2>5, ReplaceBox DEF Lists
    <3> QED  BY <2>1, <2>5, <3>1 DEF Lists
  <2>6. ASSUME NEW box \in Box, Creates(box) PROVE Kept(i)
    <3>1. mailboxes'[i] = mailboxes[i]
      BY <2>2, <2>6 DEF Creates
    <3> QED  BY <2>1, <3>1
  <2>7. ASSUME NEW m \in Message, Queues(m) PROVE Kept(i)
    <3>1. PICK box \in Box : Replaces(1, box) /\ box.messages = Append(mailboxes[1].messages, m)
      BY <2>7, QueuesReplaces
    <3>2. mailboxes'[i] = IF i = 1 THEN box ELSE mailboxes[i]
      BY <2>2, <2>3, <2>7, <3>1, ReplaceBox DEF Replaces, Queues
    <3>3. CASE i = 1
      <4> DEFINE queue == mailboxes[1].messages
      <4>1. queue \in Seq(Message \cup {Bad})
        BY <2>2, <3>3 DEF Box
      <4>2. \A j \in DOMAIN queue : j \in DOMAIN Append(queue, m) /\ Append(queue, m)[j] = queue[j]
        <5> HIDE DEF queue
        <5> QED  BY <4>1
      <4>3. mailboxes'[i].messages = Append(queue, m)
        BY <3>1, <3>2, <3>3
      <4> QED  BY <3>3, <4>2, <4>3, Zenon
    <3>4. CASE i # 1
      BY <2>1, <3>2, <3>4
    <3> QED  BY <3>3, <3>4
  <2>8. ASSUME NEW j \in Nat, NEW left \in Chain, Reads(j, left) PROVE Kept(i)
    <3>1. PICK box \in Box :
              /\ Replaces(1, box)
              /\ DOMAIN box.messages = DOMAIN mailboxes[1].messages
              /\ \A k \in DOMAIN box.messages : k # j => box.messages[k] = mailboxes[1].messages[k]
              /\ box.messages[j].sender = mailboxes[1].messages[j].sender
              /\ box.messages[j].text = mailboxes[1].messages[j].text
      BY <2>8, ReadsReplaces
    <3>2. mailboxes'[i] = IF i = 1 THEN box ELSE mailboxes[i]
      BY <2>2, <2>3, <2>8, <3>1, ReplaceBox DEF Replaces, Reads
    <3>3. CASE i = 1
      BY <3>1, <3>2, <3>3, Zenon
    <3>4. CASE i # 1
      BY <2>1, <3>2, <3>4
    <3> QED  BY <3>3, <3>4
  <2>9. ASSUME NEW p \in Proc, NEW context \in SavedContext, Suspends(p, context) PROVE Kept(i)
    BY <2>1, <2>9 DEF Suspends
  <2> HIDE DEF Kept
  <2> QED  BY <2>4, <2>5, <2>6, <2>7, <2>8, <2>9, NextKinds DEF Kinds
<1> QED  BY <1>1, Invariance, PTL DEF Spec, QueueKept

-----------------------------------------------------------------------------
(* The zeroed heap *)

\* A mailbox that nobody was given access to.
EmptyBox == [id : Nat, name : Zeroed!NameRead, owner : {<<>>}, senders : {<<>>},
             receivers : {<<>>}, messages : {<<>>}]

\* Every list of every mailbox is empty, nobody sleeps, and PM is up or has
\* followed a NULL pointer.
ZeroedInv == /\ mailboxes \in Seq(EmptyBox)
             /\ lastId \in Nat
             /\ blocked = <<>> /\ suspended = {}
             /\ pm \in {"up", "crashed"} /\ (pm # "up" => mailboxes # <<>>)

\* The lists of each mailbox are empty.
LEMMA EmptyLists ==
    ASSUME mailboxes \in Seq(EmptyBox)
    PROVE  \A i \in DOMAIN mailboxes :
              /\ mailboxes[i].owner = <<>> /\ mailboxes[i].senders = <<>>
              /\ mailboxes[i].receivers = <<>> /\ mailboxes[i].messages = <<>>
<1>1. \A i \in DOMAIN mailboxes : mailboxes[i] \in EmptyBox
  OBVIOUS
<1> QED  BY <1>1 DEF EmptyBox

\* Searches find the place of a mailbox with empty lists, or nothing.
LEMMA ZeroedFind ==
    ASSUME mailboxes \in Seq(EmptyBox), NEW id
    PROVE  /\ Zeroed!FindById(id) # 0 => Zeroed!FindById(id) \in DOMAIN mailboxes
           /\ Zeroed!GetMailbox(id) # 0 => Zeroed!GetMailbox(id) \in DOMAIN mailboxes
<1> DEFINE I == {i \in 1..Len(mailboxes) : mailboxes[i].id = id}
<1>1. Len(mailboxes) \in Nat /\ DOMAIN mailboxes = 1..Len(mailboxes)
  OBVIOUS
<1>2. Zeroed!FindById(id) = IF I # {} THEN Min(I) ELSE 0
  BY DEF Zeroed!FindById, Zeroed!SelectInSeq, Zeroed!Min, Min
<1>3. I # {} => Min(I) \in 1..Len(mailboxes)
  <2> I \in SUBSET (1..Len(mailboxes))
    OBVIOUS
  <2> HIDE DEF I
  <2> QED  BY <1>1, MinOfPositions
<1>4. Zeroed!FindById(id) # 0 => Zeroed!FindById(id) \in DOMAIN mailboxes
  <2> HIDE DEF I
  <2> QED  BY <1>1, <1>2, <1>3
<1> QED  BY <1>4 DEF Zeroed!GetMailbox

\* The mailbox getMailbox returns, if any, has no sender and no receiver, and
\* the one found by its id neither.
LEMMA ZeroedEmpty ==
    ASSUME mailboxes \in Seq(EmptyBox), NEW id
    PROVE  /\ Zeroed!GetMailbox(id) # 0 =>
                  mailboxes # <<>> /\ mailboxes[Zeroed!GetMailbox(id)].receivers = <<>>
           /\ Zeroed!Senders(id) = <<>> /\ Zeroed!ReceiversOf(id) = <<>>
<1>1. ASSUME Zeroed!GetMailbox(id) # 0
      PROVE  mailboxes # <<>> /\ mailboxes[Zeroed!GetMailbox(id)].receivers = <<>>
  BY <1>1, ZeroedFind, EmptyLists
<1>2. Zeroed!Senders(id) = <<>> /\ Zeroed!ReceiversOf(id) = <<>>
  <2>1. CASE Zeroed!FindById(id) = 0
    BY <2>1 DEF Zeroed!Senders, Zeroed!ReceiversOf
  <2>2. CASE Zeroed!FindById(id) # 0
    <3>1. Zeroed!FindById(id) \in DOMAIN mailboxes
      BY <2>2, ZeroedFind
    <3>2. /\ mailboxes[Zeroed!FindById(id)].senders = <<>>
          /\ mailboxes[Zeroed!FindById(id)].receivers = <<>>
      BY <3>1, EmptyLists
    <3> QED  BY <2>2, <3>2 DEF Zeroed!Senders, Zeroed!ReceiversOf
  <2> QED  BY <2>1, <2>2
<1> QED  BY <1>1, <1>2

\* Nothing is found along an empty list, and a list head that is NULL keeps it so.
LEMMA ZeroedChains == /\ \A q : Zeroed!Walk(<<>>, q) = 0
                      /\ \A q : Zeroed!ListAppend(<<>>, q) = <<>>
                      /\ ~Zeroed!Wild(<<>>)
<1>1. \A q : Zeroed!Walk(<<>>, q) = 0
  <2> TAKE q
  <2>1. {i \in 1..Len(<<>>) : <<>>[i] \in {q, Bad}} = {}
    OBVIOUS
  <2> QED  BY <2>1 DEF Zeroed!Walk, Zeroed!SelectInSeq
<1>2. ~Zeroed!Wild(<<>>)
  BY DEF Zeroed!Wild, Zeroed!Contains
<1> QED  BY <1>1, <1>2 DEF Zeroed!ListAppend

\* A mailbox with empty lists may join the list of mailboxes.
LEMMA ZeroedOpenNew ==
    ASSUME ZeroedInv, NEW p \in Proc, NEW name \in Zeroed!NameRead,
           NEW create \in BOOLEAN, NEW write \in BOOLEAN,
           Zeroed!OpenNew(p, name, create, write)
    PROVE  ZeroedInv'
<1> USE DEF ZeroedInv
<1> DEFINE new == [id |-> lastId, name |-> name, owner |-> <<>>,
                   senders |-> <<>>, receivers |-> <<>>, messages |-> <<>>]
<1>1. /\ mailboxes' = Append(mailboxes, new)
      /\ lastId' = lastId + 1 /\ UNCHANGED <<pm, suspended, blocked>>
  BY ZeroedChains DEF Zeroed!OpenNew, Zeroed!Reply, Zeroed!Stop
<1>2. new \in EmptyBox
  BY DEF EmptyBox
<1> HIDE DEF new
<1>3. pm = "up"
  BY DEF Zeroed!OpenNew, Zeroed!Call
<1>4. mailboxes' \in Seq(EmptyBox)
  BY <1>1, <1>2
<1> QED  BY <1>1, <1>3, <1>4

\* Opening an existing mailbox adds nobody to it.
LEMMA ZeroedOpenExisting ==
    ASSUME ZeroedInv, NEW p \in Proc, NEW name \in Zeroed!NameRead,
           NEW create \in BOOLEAN, NEW write \in BOOLEAN,
           Zeroed!OpenExisting(p, name, create, write)
    PROVE  ZeroedInv'
<1> USE DEF ZeroedInv
<1> DEFINE i == Zeroed!FindByName(name)
           I == {k \in 1..Len(mailboxes) : mailboxes[k].name = name}
<1>1. i = IF I # {} THEN Min(I) ELSE 0
  BY DEF Zeroed!FindByName, Zeroed!SelectInSeq, Zeroed!Min, Min
<1>2. i # 0
  BY DEF Zeroed!OpenExisting
<1>3. i \in 1..Len(mailboxes)
  <2>1. I \in SUBSET (1..Len(mailboxes)) /\ Len(mailboxes) \in Nat
    OBVIOUS
  <2> HIDE DEF I
  <2> QED  BY <1>1, <1>2, <2>1, MinOfPositions
<1>4. mailboxes[i].senders = <<>> /\ mailboxes[i].receivers = <<>>
  <2> HIDE DEF i
  <2> QED  BY <1>3, EmptyLists
<1>5. /\ mailboxes' = IF write THEN [mailboxes EXCEPT ![i].senders = Zeroed!ListAppend(@, p)]
                      ELSE [mailboxes EXCEPT ![i].receivers = Zeroed!ListAppend(@, p)]
      /\ UNCHANGED <<pm, suspended, lastId, blocked>>
  <2>1. ~Zeroed!Wild(IF write THEN mailboxes[i].senders ELSE mailboxes[i].receivers)
    BY <1>4, ZeroedChains
  <2> QED  BY <2>1 DEF Zeroed!OpenExisting, Zeroed!Reply
<1>6. mailboxes[i] \in EmptyBox
  BY <1>3
<1> DEFINE box == mailboxes[i]
<1>7. [box EXCEPT !.senders = <<>>] \in EmptyBox /\ [box EXCEPT !.receivers = <<>>] \in EmptyBox
  BY <1>6 DEF EmptyBox
<1>8. \/ mailboxes' = [mailboxes EXCEPT ![i] = [box EXCEPT !.senders = <<>>]]
      \/ mailboxes' = [mailboxes EXCEPT ![i] = [box EXCEPT !.receivers = <<>>]]
  <2>1. Zeroed!ListAppend(mailboxes[i].senders, p) = <<>> /\ Zeroed!ListAppend(mailboxes[i].receivers, p) = <<>>
    BY <1>4, ZeroedChains
  <2> HIDE DEF i
  <2> QED  BY <1>5, <2>1, Zenon
<1>9. mailboxes' \in Seq(EmptyBox) /\ (mailboxes # <<>> => mailboxes' # <<>>)
  <2> HIDE DEF i, box
  <2>1. PICK m \in EmptyBox : mailboxes' = [mailboxes EXCEPT ![i] = m]
    BY <1>7, <1>8
  <2>2. mailboxes \in Seq(EmptyBox)
    OBVIOUS
  <2> HIDE DEF ZeroedInv
  <2> QED  BY <1>3, <2>1, <2>2
<1> QED  BY <1>5, <1>9

\* Every step of PM on a zeroed heap keeps it so.
LEMMA ZeroedStep == ZeroedInv /\ Zeroed!Next => ZeroedInv'
<1> SUFFICES ASSUME ZeroedInv, NEW p \in Proc,
                    \/ Zeroed!Open(p) \/ Zeroed!Close(p) \/ Zeroed!Deposit(p)
                    \/ Zeroed!Retrieve(p) \/ Zeroed!GetReceiverList(p) \/ Zeroed!Interrupt(p)
             PROVE  ZeroedInv'
  BY DEF Zeroed!Next
<1> USE DEF Zeroed!Call, Zeroed!Reply, Zeroed!Stop
<1>1. ASSUME UNCHANGED <<mailboxes, lastId, blocked>>,
             \/ UNCHANGED <<pm, suspended>>
             \/ Zeroed!Stop("crashed") /\ mailboxes # <<>>
      PROVE  ZeroedInv'
  BY <1>1 DEF ZeroedInv
<1>2. mailboxes \in Seq(EmptyBox) /\ blocked = <<>> /\ suspended = {}
  BY DEF ZeroedInv
<1>3. \A id : Zeroed!GetMailboxCrashes(id) => mailboxes # <<>>
  BY DEF Zeroed!GetMailboxCrashes
<1>4. ASSUME Zeroed!Open(p) PROVE ZeroedInv'
  <2>1. PICK name \in Zeroed!NameRead, create \in BOOLEAN, write \in BOOLEAN :
            \/ Zeroed!OpenFails(p, name, create, write)
            \/ Zeroed!OpenExisting(p, name, create, write)
            \/ Zeroed!OpenNew(p, name, create, write)
    BY <1>4 DEF Zeroed!Open
  <2>2. CASE Zeroed!OpenFails(p, name, create, write)
    BY <1>1, <2>2 DEF Zeroed!OpenFails
  <2> QED  BY <2>1, <2>2, ZeroedOpenExisting, ZeroedOpenNew
<1>5. ASSUME Zeroed!Close(p) PROVE ZeroedInv'
  <2>1. PICK id \in Zeroed!Id :
            Zeroed!NotFound(p, id) \/ Zeroed!CloseFound(p, id) \/ Zeroed!CloseStops(p, id)
    BY <1>5 DEF Zeroed!Close
  <2>2. CASE Zeroed!NotFound(p, id)
    BY <1>1, <2>2 DEF Zeroed!NotFound
  <2>3. CASE Zeroed!CloseFound(p, id)
    <3>1. mailboxes # <<>> /\ mailboxes[Zeroed!GetMailbox(id)].receivers = <<>>
      BY <1>2, <2>3, ZeroedEmpty DEF Zeroed!CloseFound
    <3> QED  BY <1>1, <2>3, <3>1 DEF Zeroed!CloseFound, Zeroed!Fault
  <2>4. CASE Zeroed!CloseStops(p, id)
    BY <1>1, <1>3, <2>4 DEF Zeroed!CloseStops
  <2> QED  BY <2>1, <2>2, <2>3, <2>4
<1>6. ASSUME Zeroed!Deposit(p) PROVE ZeroedInv'
  <2>1. PICK id \in Zeroed!Id :
            \/ Zeroed!DepositRefused(p, id) \/ Zeroed!DepositStops(p, id)
            \/ \E text \in Text : \/ Zeroed!DepositQueued(p, id, text)
                                     \/ Zeroed!DepositSuspended(p, id, text)
    BY <1>6 DEF Zeroed!Deposit
  <2>2. Zeroed!Senders(id) = <<>>
    BY <1>2, ZeroedEmpty
  <2>3. Zeroed!Context(p) = 0
    <3>1. {i \in 1..Len(<<>>) : blocked[i].who = p} = {}
      OBVIOUS
    <3> QED  BY <1>2, <3>1 DEF Zeroed!Context, Zeroed!SelectInSeq
  <2>4. ~Zeroed!DepositStops(p, id)
    BY <2>2, <2>3 DEF Zeroed!DepositStops, Zeroed!ContextDangles, Zeroed!ValidSender
  <2>5. Zeroed!DepositRefused(p, id)
    BY <2>1, <2>2, <2>4 DEF Zeroed!DepositQueued, Zeroed!DepositSuspended, Zeroed!ValidSender
  <2> QED  BY <1>1, <2>3, <2>5 DEF Zeroed!DepositRefused, Zeroed!Contexts
<1>7. ASSUME Zeroed!Retrieve(p) PROVE ZeroedInv'
  <2>1. PICK id \in Zeroed!Id :
            \/ Zeroed!NotFound(p, id) \/ Zeroed!RetrieveRefused(p, id)
            \/ Zeroed!RetrieveText(p, id) \/ Zeroed!RetrieveStops(p, id)
    BY <1>7 DEF Zeroed!Retrieve
  <2>2. ASSUME Zeroed!GetMailbox(id) # 0
        PROVE  Zeroed!Walk(mailboxes[Zeroed!GetMailbox(id)].receivers, p) = 0
    BY <1>2, <2>2, ZeroedEmpty, ZeroedChains
  <2>3. CASE Zeroed!NotFound(p, id)
    BY <1>1, <2>3 DEF Zeroed!NotFound
  <2>4. CASE Zeroed!RetrieveRefused(p, id)
    BY <1>1, <2>4 DEF Zeroed!RetrieveRefused
  <2>5. CASE Zeroed!RetrieveText(p, id)
    BY <2>2, <2>5 DEF Zeroed!RetrieveText
  <2>6. CASE Zeroed!RetrieveStops(p, id)
    <3>1. Zeroed!GetMailboxCrashes(id) /\ Zeroed!Stop("crashed")
      BY <2>2, <2>6 DEF Zeroed!RetrieveStops
    <3> QED  BY <1>1, <1>3, <3>1
  <2> QED  BY <2>1, <2>3, <2>4, <2>5, <2>6
<1>8. ASSUME Zeroed!GetReceiverList(p) PROVE ZeroedInv'
  <2>1. PICK id \in Zeroed!Id :
            IF Zeroed!ReceiversOf(id) = <<>>
            THEN Zeroed!Reply("OK") /\ UNCHANGED <<mailboxes, lastId, blocked>>
            ELSE Zeroed!Stop("undefined")
    BY <1>8 DEF Zeroed!GetReceiverList
  <2>2. Zeroed!ReceiversOf(id) = <<>>
    BY <1>2, ZeroedEmpty
  <2> QED  BY <1>1, <2>1, <2>2
<1>9. ASSUME Zeroed!Interrupt(p) PROVE ZeroedInv'
  BY <1>2, <1>9 DEF Zeroed!Interrupt
<1> QED  BY <1>4, <1>5, <1>6, <1>7, <1>8, <1>9

\* On a zeroed heap PM can only stop by following NULL, after a mailbox has
\* been opened: no list ever gets an element and nobody sleeps.
THEOREM ZeroedHeapHolds == MCSpec => []ZeroedHeapStops
<1> DEFINE Inv == heap = "zeroed" => ZeroedInv
<1>1. MCInit => Inv
  BY DEF MCInit, Init, ZeroedInv
<1>2. Inv /\ [MCNext]_<<vars, heap>> => Inv'
  <2> SUFFICES ASSUME Inv, [MCNext]_<<vars, heap>> PROVE Inv'
    OBVIOUS
  <2>1. CASE UNCHANGED <<vars, heap>>
    BY <2>1 DEF vars, ZeroedInv
  <2>2. CASE MCNext
    <3>1. heap' = heap /\ (heap = "zeroed" => Zeroed!Next)
      BY <2>2 DEF MCNext
    <3> QED  BY <3>1, ZeroedStep
  <2> QED  BY <2>1, <2>2
<1>3. Inv => ZeroedHeapStops
  BY DEF ZeroedHeapStops, ZeroedInv
<1> QED  BY <1>1, <1>2, <1>3, PTL DEF MCSpec
=============================================================================
