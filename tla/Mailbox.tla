------------------------------ MODULE Mailbox -------------------------------
(***************************************************************************)
(* The mailbox calls of the MINIX process manager (PM), servers/pm/mailbox.c *)
(* of Minix_Mailbox_implementation, and the part of PM's main loop that    *)
(* serves them.  PM is one process: it takes one message, runs the handler *)
(* to its end and replies, so a handler is one action.  A handler that     *)
(* does not reply leaves its caller suspended.                             *)
(*                                                                         *)
(* The code builds its lists in memory that malloc does not initialise and *)
(* goes on using nodes it has freed.  A list head in fresh memory holds    *)
(* one of FreshHead: the empty list alone when the heap is zeroed.  A      *)
(* pointer to freed or wild memory is the node Bad at the end of a chain.  *)
(* To follow it is undefined behaviour: PM is then "undefined" and nothing *)
(* is claimed of what it does.  "crashed" is a NULL pointer followed,      *)
(* "hung" a loop that never ends.                                          *)
(*                                                                         *)
(* Outside the model: names longer than the buffers of mailbox.c and empty *)
(* names or messages; malloc running out of memory; calls of PM that are   *)
(* not about mailboxes, except the signal that interrupts a suspended call;*)
(* processes that exit and leave their slot of mproc to another.           *)
(*                                                                         *)
(* Operators marked "mutant" are wrong versions of the definition after    *)
(* them: the specification does not use them, and a property that matters  *)
(* fails when one takes that definition's place.                           *)
(***************************************************************************)
EXTENDS Integers, SequencesExt

CONSTANTS Proc,          \* processes; a process is its pid and its slot who_p
          Name,          \* mailbox names the processes use
          NameTail,      \* what may follow the name in do_openMailbox's buffer
          Text,          \* message texts
          Receivers,     \* what do_depositMessage may find in _rcvList
          FreshHead,     \* what a NODE list head in fresh memory may hold
          Bad,           \* the target of a pointer to freed or wild memory
          MaxMailboxes,  \* MAX_MAILBOX_COUNT
          MaxMessages,   \* MAX_MESSAGE_IN_MAILBOX
          MaxChain       \* bound of the model: openers that join a list at most

ASSUME MailboxAssumption ==
    /\ MaxMailboxes \in Nat \ {0} /\ MaxMessages \in Nat \ {0}
    /\ MaxChain \in Nat
    /\ Bad \notin Proc
    /\ FreshHead \subseteq Seq(Proc \cup {Bad}) /\ <<>> \in FreshHead
    /\ Receivers \subseteq Seq(Proc)

VARIABLES pm,          \* "up", or how PM stopped
          mailboxes,   \* g_mailbox: the list of mailboxes
          lastId,      \* g_last_mailbox_id
          blocked,     \* g_blockedSenders: the saved contexts
          suspended,   \* processes that wait for the reply to a call
          reply        \* the result of the last reply PM sent

vars == <<pm, mailboxes, lastId, blocked, suspended, reply>>

\* Ids a process may pass: those returned, unknown ones and ERROR.
Id == -1..MaxMailboxes

Init == /\ pm = "up" /\ mailboxes = <<>> /\ lastId = 0 /\ blocked = <<>>
        /\ suspended = {} /\ reply = "none"

-----------------------------------------------------------------------------
(* PM's main loop *)

\* A process that is not suspended sends a call and PM receives it.
Call(p) == pm = "up" /\ p \notin suspended

\* setreply and sendreply
Reply(result) == reply' = result /\ UNCHANGED <<pm, suspended>>

Stop(how) == /\ pm' = how
             /\ UNCHANGED <<mailboxes, lastId, blocked, suspended, reply>>

\* The signal code of PM ends the call of a process in SIGSUSPENDED with
\* EINTR.  It knows nothing of g_blockedSenders.
Interrupt(p) == /\ pm = "up" /\ p \in suspended
                /\ suspended' = suspended \ {p}
                /\ reply' = "EINTR"
                /\ UNCHANGED <<pm, mailboxes, lastId, blocked>>

-----------------------------------------------------------------------------
(* Lists of processes *)

Wild(chain) == Contains(chain, Bad)

\* The first node of p on the way along the chain; 0 if there is none, -1 if
\* the way leads through freed or wild memory first.
Walk(chain, p) ==
    LET i == SelectInSeq(chain, LAMBDA q : q \in {p, Bad})
    IN  IF i > 0 /\ chain[i] = Bad THEN -1 ELSE i

\* Given a NULL head, listAppend sets its own parameter only.
ListAppend(chain, p) == IF chain = <<>> THEN <<>> ELSE Append(chain, p)

UnlinkHead(chain, p) == RemoveFirst(chain, p)                       \* mutant

\* A node of p leaves the chain.  If it is the first one it is freed, but the
\* head still points to it.
Unlink(chain, p) == IF chain[1] = p THEN <<Bad>> ELSE RemoveFirst(chain, p)

-----------------------------------------------------------------------------
(* Lists of mailboxes *)

FindByName(name) == SelectInSeq(mailboxes, LAMBDA m : m.name = name)
FindById(id)     == SelectInSeq(mailboxes, LAMBDA m : m.id = id)

\* getMailbox tests for the end of the list one node early: it never looks
\* at the last of several mailboxes, and past the only one it follows NULL.
GetMailbox(id) == LET i == FindById(id)
                  IN  IF i = 1 \/ i < Len(mailboxes) THEN i ELSE 0

GetMailboxUntested(id) == Len(mailboxes) <= 1 /\ FindById(id) = 0   \* mutant

GetMailboxCrashes(id) == Len(mailboxes) = 1 /\ FindById(id) = 0

-----------------------------------------------------------------------------
(* do_openMailbox.  fetchMessage copies strlen bytes and reports the missing *)
(* NUL, which the caller ignores: the name is the bytes copied and whatever  *)
(* follows them in the buffer on the stack.                                  *)

Full == Len(mailboxes) >= MaxMailboxes

\* The names do_openMailbox may read.
NameRead == Name \X NameTail

OpenFails(p, name, create, write) ==
    /\ Call(p)
    /\ IF create THEN Full ELSE FindByName(name) = 0
    /\ Reply("ERROR")
    /\ UNCHANGED <<mailboxes, lastId, blocked>>

OpenExisting(p, name, create, write) ==
    LET i == FindByName(name)
        m == mailboxes[i]
        listed == IF write THEN m.senders ELSE m.receivers
    IN  /\ Call(p)
        /\ i # 0 /\ ~(create /\ Full)
        /\ Len(listed) <= MaxChain
        /\ IF Wild(listed) THEN Stop("undefined")
           ELSE /\ mailboxes' =
                     IF write THEN [mailboxes EXCEPT ![i].senders = ListAppend(@, p)]
                              ELSE [mailboxes EXCEPT ![i].receivers = ListAppend(@, p)]
                /\ Reply("id")
                /\ UNCHANGED <<lastId, blocked>>

OpenNewUnchecked(p, name, create, write) ==                         \* mutant
    /\ Call(p) /\ create
    /\ mailboxes' = Append(mailboxes,
                           [id |-> lastId, name |-> name, owner |-> <<>>,
                            senders |-> <<>>, receivers |-> <<>>, messages |-> <<>>])
    /\ lastId' = lastId + 1
    /\ Reply("id")
    /\ UNCHANGED blocked

\* malloc leaves the four lists of the new mailbox as it found them.
OpenNew(p, name, create, write) ==
    /\ Call(p)
    /\ create /\ ~Full /\ FindByName(name) = 0
    /\ \E owner, senders, receivers \in FreshHead, messages \in FreshHead \cap {<<>>, <<Bad>>} :
          IF Wild(owner) \/ Wild(IF write THEN senders ELSE receivers)
          THEN Stop("undefined")
          ELSE /\ mailboxes' = Append(mailboxes,
                    [id |-> lastId, name |-> name,
                     owner     |-> ListAppend(owner, p),
                     senders   |-> IF write THEN ListAppend(senders, p) ELSE senders,
                     receivers |-> IF write THEN receivers ELSE ListAppend(receivers, p),
                     messages  |-> messages])
               /\ lastId' = lastId + 1
               /\ Reply("id")
               /\ UNCHANGED blocked

Open(p) == \E name \in NameRead, create, write \in BOOLEAN :
              \/ OpenFails(p, name, create, write)
              \/ OpenExisting(p, name, create, write)
              \/ OpenNew(p, name, create, write)

-----------------------------------------------------------------------------
(* do_closeMailbox *)

NotFound(p, id) == /\ Call(p)
                   /\ GetMailbox(id) = 0 /\ ~GetMailboxCrashes(id)
                   /\ Reply("ERROR")
                   /\ UNCHANGED <<mailboxes, lastId, blocked>>

\* How deleteProcess fails: it follows the head before it tests for the end.
Fault(chain, p) == IF chain = <<>> THEN "crashed"
                   ELSE IF Walk(chain, p) = -1 THEN "undefined" ELSE "none"

\* removeProcess.  deleteProcess needs a first node in both lists, so neither
\* is empty afterwards and updateMailbox never frees the mailbox.
CloseFound(p, id) ==
    LET i == GetMailbox(id)
        m == mailboxes[i]
        fault == IF Fault(m.receivers, p) # "none" THEN Fault(m.receivers, p)
                 ELSE Fault(m.senders, p)
    IN  /\ Call(p)
        /\ i # 0
        /\ IF fault # "none" THEN Stop(fault)
           ELSE /\ mailboxes' =
                     [mailboxes EXCEPT
                        ![i].owner     = IF @ # <<>> /\ @[1] = p THEN <<>> ELSE @,
                        ![i].receivers = Unlink(@, p),
                        ![i].senders   = Unlink(@, p)]
                /\ Reply("OK")
                /\ UNCHANGED <<lastId, blocked>>

CloseStops(p, id) == /\ Call(p)
                     /\ GetMailboxCrashes(id)
                     /\ Stop("crashed")

Close(p) == \E id \in Id : NotFound(p, id) \/ CloseFound(p, id) \/ CloseStops(p, id)

-----------------------------------------------------------------------------
(* do_depositMessage.  isSenderBlocked: the caller has a saved context if an *)
(* earlier deposit of its slot was suspended and then interrupted.  The text *)
(* is then that of the earlier deposit, the mailbox that of the new one.     *)

Context(p) == SelectInSeq(blocked, LAMBDA b : b.who = p)

\* deleteSender frees the first entry without moving g_blockedSenders; the
\* main loop follows this pointer before it receives the next call.
ContextDangles(p) == Context(p) = 1

Contexts(p) == IF Context(p) = 0 THEN blocked ELSE RemoveAt(blocked, Context(p))
Request(p, id, text) == IF Context(p) = 0
                        THEN [who |-> p, mailbox |-> id, text |-> text, unblocked |-> FALSE]
                        ELSE blocked[Context(p)]

Senders(id) == IF FindById(id) = 0 THEN <<>> ELSE mailboxes[FindById(id)].senders

\* isValidSender compares the first sender only: its loop does not advance.
ValidSender(p, id) == Senders(id) # <<>> /\ Senders(id)[1] = p

ReachesAny(i) == i # 0                                              \* mutant

\* The search for the mailbox does not advance either and hangs at the first
\* mailbox when another one is meant.
Reaches(i) == i = 1

DepositRefused(p, id) == /\ Call(p) /\ ~ContextDangles(p)
                         /\ Senders(id) = <<>>
                         /\ blocked' = Contexts(p)
                         /\ Reply("EGENERIC")
                         /\ UNCHANGED <<mailboxes, lastId>>

\* The length given to sys_datacopy is a pointer: the copy fails and leaves
\* _rcvList as it was, or it overruns the stack.
DepositStops(p, id) ==
    /\ Call(p)
    /\ \/ ContextDangles(p) /\ Stop("undefined")
       \/ /\ ~ContextDangles(p)
          /\ Senders(id) # <<>> /\ Senders(id)[1] # p
          /\ Stop(IF Senders(id)[1] = Bad THEN "undefined" ELSE "hung")
       \/ /\ ~ContextDangles(p)
          /\ ValidSender(p, id)
          /\ \/ Stop("undefined")
             \/ ~Reaches(FindById(id)) /\ Stop("hung")

CapacityOffByOne(queue) == Len(queue) <= MaxMessages                \* mutant

HasRoom(queue) == Len(queue) < MaxMessages

\* The receivers found in _rcvList are appended to the message's own list,
\* whose head is uninitialised: of what it points to, the first node stays.
DepositQueued(p, id, text) ==
    LET i == FindById(id)
        queue == mailboxes[i].messages
        r == Request(p, id, text)
    IN  /\ Call(p) /\ ~ContextDangles(p)
        /\ ValidSender(p, id) /\ Reaches(i)
        /\ ~Wild(queue) /\ HasRoom(queue)
        /\ \E receivers \in Receivers, head \in FreshHead :
              /\ Wild(head) => receivers = <<>>
              /\ mailboxes' = [mailboxes EXCEPT ![i].messages = Append(@,
                     [sender |-> p, text |-> r.text,
                      receivers |-> IF receivers = <<>> \/ head = <<>>
                                    THEN head \o receivers
                                    ELSE <<head[1]>> \o receivers])]
        /\ blocked' = Contexts(p)
        /\ Reply("unset")     \* the function ends without a return
        /\ UNCHANGED lastId

\* The mailbox is full: saveContext, and no reply.
DepositSuspended(p, id, text) ==
    LET i == FindById(id)
        queue == mailboxes[i].messages
        r == Request(p, id, text)
    IN  /\ Call(p) /\ ~ContextDangles(p)
        /\ ValidSender(p, id) /\ Reaches(i)
        /\ ~Wild(queue) /\ ~HasRoom(queue)
        /\ blocked' = Append(Contexts(p), [r EXCEPT !.unblocked = FALSE])
        /\ suspended' = suspended \cup {p}
        /\ UNCHANGED <<pm, mailboxes, lastId, reply>>

Deposit(p) == \E id \in Id :
                 \/ DepositRefused(p, id) \/ DepositStops(p, id)
                 \/ \E text \in Text : \/ DepositQueued(p, id, text)
                                       \/ DepositSuspended(p, id, text)

-----------------------------------------------------------------------------
(* do_retrieveMessage *)

WalkMessage(m, p) == IF m = Bad THEN -1 ELSE Walk(m.receivers, p)

\* The first message on whose list the way to p ends or breaks off.
FirstFor(queue, p) == SelectInSeq(queue, LAMBDA m : WalkMessage(m, p) # 0)

RetrieveRefused(p, id) == LET i == GetMailbox(id)
                          IN  /\ Call(p)
                              /\ i # 0 /\ Walk(mailboxes[i].receivers, p) = 0
                              /\ Reply("ERROR")
                              /\ UNCHANGED <<mailboxes, lastId, blocked>>

\* unblockSender
Unblocked(id) == [b \in DOMAIN blocked |->
                    [blocked[b] EXCEPT !.unblocked = @ \/ blocked[b].mailbox = id]]

\* retrieveMessage copies the text, takes p off the message's list and, if
\* the list is empty then, removes the message and wakes the senders.
RetrieveText(p, id) ==
    LET i == GetMailbox(id)
        queue == mailboxes[i].messages
        j == FirstFor(queue, p)
        left == Unlink(queue[j].receivers, p)
    IN  /\ Call(p)
        /\ i # 0 /\ Walk(mailboxes[i].receivers, p) > 0
        /\ j # 0 /\ WalkMessage(queue[j], p) > 0
        /\ IF left = <<>>
           THEN /\ mailboxes' = [mailboxes EXCEPT ![i].messages = RemoveAt(@, j)]
                /\ blocked' = Unblocked(id)
           ELSE /\ mailboxes' = [mailboxes EXCEPT ![i].messages[j].receivers = left]
                /\ UNCHANGED blocked
        /\ Reply("OK")
        /\ UNCHANGED lastId

\* _tmp is uninitialised.  If it happens not to be NULL only the first
\* message is looked at, and what it points to is returned unless that
\* message is for p.  If it is NULL and no message is for p, NULL is.
RetrieveStops(p, id) ==
    LET i == GetMailbox(id)
        queue == mailboxes[i].messages
        j == FirstFor(queue, p)
    IN  /\ Call(p)
        /\ \/ GetMailboxCrashes(id) /\ Stop("crashed")
           \/ /\ i # 0 /\ Walk(mailboxes[i].receivers, p) = -1
              /\ Stop("undefined")
           \/ /\ i # 0 /\ Walk(mailboxes[i].receivers, p) > 0
              /\ \/ j = 0 /\ Stop("crashed")
                 \/ j # 1 /\ Stop("undefined")
                 \/ j # 0 /\ WalkMessage(queue[j], p) = -1 /\ Stop("undefined")

Retrieve(p) == \E id \in Id :
                  \/ NotFound(p, id) \/ RetrieveRefused(p, id)
                  \/ RetrieveText(p, id) \/ RetrieveStops(p, id)

-----------------------------------------------------------------------------
(* do_getReceiverList: its loop over the receivers does not advance and      *)
(* overruns the array on the stack, so only an empty list is ever returned.  *)

ReceiversOf(id) == IF FindById(id) = 0 THEN <<>> ELSE mailboxes[FindById(id)].receivers

GetReceiverList(p) == \E id \in Id :
    /\ Call(p)
    /\ IF ReceiversOf(id) = <<>>
       THEN Reply("OK") /\ UNCHANGED <<mailboxes, lastId, blocked>>
       ELSE Stop("undefined")

-----------------------------------------------------------------------------
Next == \E p \in Proc : \/ Open(p) \/ Close(p) \/ Deposit(p)
                        \/ Retrieve(p) \/ GetReceiverList(p) \/ Interrupt(p)

Spec == Init /\ [][Next]_vars

-----------------------------------------------------------------------------
(* Properties.  All of them are about PM while it is up: a stopped PM takes  *)
(* no step.                                                                  *)

Chain == Seq(Proc \cup {Bad})
Message == [sender : Proc, text : Text, receivers : Chain]

\* Every variable keeps its type, and ids stay below the number of mailboxes
\* the process manager allows.
TypeOK ==
    /\ pm \in {"up", "crashed", "hung", "undefined"}
    /\ mailboxes \in Seq([id : Nat, name : NameRead, owner : Chain,
                         senders : Chain, receivers : Chain,
                         messages : Seq(Message \cup {Bad})])
    /\ lastId \in 0..MaxMailboxes
    /\ blocked \in Seq([who : Proc, mailbox : Id, text : Text, unblocked : BOOLEAN])
    /\ suspended \subseteq Proc
    /\ reply \in {"none", "id", "OK", "ERROR", "EGENERIC", "EINTR", "unset"}

\* Two mailboxes never hold the same string as name, and an id is the
\* mailbox's place in the list: an id returned once never means another one.
NamesAndIdsUnique ==
    \A i, j \in DOMAIN mailboxes : /\ mailboxes[i].id = i - 1
                                   /\ mailboxes[i].name = mailboxes[j].name => i = j

\* No mailbox holds more than MAX_MESSAGE_IN_MAILBOX messages, whatever mix of
\* deposits, suspensions and interrupted deposits leads there.
CapacityRespected == \A i \in DOMAIN mailboxes : Len(mailboxes[i].messages) <= MaxMessages

\* The loops that do not advance leave one mailbox and one sender working: a
\* message is only ever queued in the first mailbox, always by the process
\* its list of senders began with.
OneSenderOneQueue ==
    \A i \in DOMAIN mailboxes : ~Wild(mailboxes[i].messages) =>
        \A j \in DOMAIN mailboxes[i].messages :
            /\ i = 1
            /\ mailboxes[i].messages[j].sender = mailboxes[i].messages[1].sender

\* A queued message is never removed, replaced or overtaken, not even when
\* its last receiver has read it.
QueueKept ==
    [][\A i \in DOMAIN mailboxes : \A j \in DOMAIN mailboxes[i].messages :
          mailboxes[i].messages[j] # Bad =>
              /\ j \in DOMAIN mailboxes'[i].messages
              /\ mailboxes'[i].messages[j].text = mailboxes[i].messages[j].text
              /\ mailboxes'[i].messages[j].sender = mailboxes[i].messages[j].sender]_vars

\* A process that waits for its deposit has its context saved, and the
\* mailbox it waits for is still full: no room is left unused by a sleeper.
SleepersHaveNoRoom ==
    \A p \in suspended : /\ Context(p) # 0
                         /\ Len(mailboxes[FindById(blocked[Context(p)].mailbox)].messages)
                                = MaxMessages

\* No saved context is ever marked unblocked: isAnySenderUnblocked is always
\* false, and the branch of the main loop that resumes a deposit is never taken.
NeverUnblocked == \A b \in DOMAIN blocked : ~blocked[b].unblocked

\* There is never more than one saved context, so the one deleteSender
\* deletes is always the first, the case in which it leaves its list broken.
OneContext == Len(blocked) <= 1

\* The senders of the first mailbox once began with p, and nobody took p's place.
BeginsWith(p) == /\ mailboxes # <<>> /\ mailboxes[1].senders # <<>>
                 /\ mailboxes[1].senders[1] \in {p, Bad}

\* What is in a queue: at most MaxMessages messages, in the first mailbox all from
\* the process its senders began with, in others nothing made by PM.
QueueRight(i) ==
    LET queue == mailboxes[i].messages
    IN  /\ Len(queue) <= MaxMessages
        /\ i # 1 => queue \in {<<>>, <<Bad>>}
        /\ i = 1 /\ ~Wild(queue) =>
              \A j \in DOMAIN queue : /\ queue[j].sender = queue[1].sender
                                      /\ BeginsWith(queue[j].sender)

QueuesInv == \A i \in DOMAIN mailboxes : QueueRight(i)

\* A saved context is that of a deposit in the first mailbox, by the process its
\* senders began with, and the mailbox is full; who sleeps has the first context.
ContextsInv ==
    /\ \A b \in DOMAIN blocked : /\ BeginsWith(blocked[b].who)
                                 /\ blocked[b].mailbox = 0
                                 /\ Len(mailboxes[1].messages) = MaxMessages
    /\ \A p \in suspended : blocked # <<>> /\ blocked[1].who = p

\* What holds of one mailbox in every state of PM: its queue is bounded, nobody
\* sleeps while there is room, and one process sleeps at most; with it, why.
MailboxInv == /\ TypeOK /\ CapacityRespected /\ SleepersHaveNoRoom /\ OneContext
              /\ QueuesInv /\ ContextsInv
=============================================================================
