------------------------------ MODULE Smokers -------------------------------
(***************************************************************************)
(* Smoker_pblm/smokers_pblm.c: one agent thread and three smoker threads.  *)
(* The agent puts pairs of ingredients on the table and after each one     *)
(* waits on a condition variable; the smoker of that kind, released by a   *)
(* semaphore of its own, takes the pair and signals the condition.         *)
(*                                                                         *)
(* The agent calls pthread_cond_wait once and tests nothing afterwards, so *)
(* any wakeup lets it go on.  POSIX allows wakeups that nobody signalled;  *)
(* AllowSpurious says whether the library makes use of this.               *)
(*                                                                         *)
(* One action is one library call, serve_ or consume_ call of the program. *)
(* The pthread library is external: a mutex is its owner, a semaphore its  *)
(* value; pthread_cond_wait releases the mutex and waits in one step, and  *)
(* pthread_cond_signal is lost when nobody waits.  Operators marked        *)
(* "mutant" are wrong versions of the definition after them, as in Diners. *)
(***************************************************************************)
EXTENDS Integers

CONSTANTS NumRounds,      \* ROUNDS, 5 in the code
          AllowSpurious   \* may pthread_cond_wait return without a signal?

ASSUME SmokersAssumption == NumRounds \in Nat \ {0} /\ AllowSpurious \in BOOLEAN

VARIABLES main,     \* main: "create", "join", "success" or "failure"
          next,     \* main: threads created, or joined; the agent is the first
          agent,    \* what the agent does next
          round,    \* agent_fn: the loop variable i
          kind,     \* agent_fn: the pair it serves in this round, in program order
          smoker,   \* smoker[k]: what smoker k does next
          smoked,   \* smoked[k]: the loop variable i of smoker k
          sem,      \* sem[k]: value of tob_paper, match_paper, tob_match
          table,    \* the counters tobacco, match, paper
          mutex     \* owner of table_mutex

agentVars  == <<agent, round, kind>>
smokerVars == <<smoker, smoked>>
vars == <<main, next, agentVars, smokerVars, sem, table, mutex>>

Kind == 0..2      \* 0 tobacco and paper, 1 match and paper, 2 tobacco and match
Ingredient == {"tobacco", "match", "paper"}
Pair(k) == CASE k = 0 -> {"tobacco", "paper"}
             [] k = 1 -> {"match", "paper"}
             [] k = 2 -> {"tobacco", "match"}

Free == -1
Agent == 3        \* as owner of the mutex; smoker k is k

Running == main \in {"create", "join"}

Init == /\ main = "create" /\ next = 0
        /\ agent = "unborn" /\ round = 0 /\ kind = 0
        /\ smoker = [k \in Kind |-> "unborn"]
        /\ smoked = [k \in Kind |-> 0]
        /\ sem = [k \in Kind |-> 0]
        /\ table = [x \in Ingredient |-> 0]
        /\ mutex = Free

-----------------------------------------------------------------------------
(* main *)

CreateAgent == /\ main = "create" /\ next = 0
               /\ agent' = "lock" /\ next' = 1
               /\ UNCHANGED <<main, round, kind, smokerVars, sem, table, mutex>>

CreateSmoker == /\ main = "create" /\ next > 0
                /\ smoker' = [smoker EXCEPT ![next - 1] = "wait"]
                /\ IF next < 3 THEN main' = main /\ next' = next + 1
                               ELSE main' = "join" /\ next' = 0
                /\ UNCHANGED <<agentVars, smoked, sem, table, mutex>>

\* pthread_create fails: main returns 1 or 2 and the process ends.
CreateFails == /\ main = "create" /\ main' = "failure"
               /\ UNCHANGED <<next, agentVars, smokerVars, sem, table, mutex>>

\* The agent is joined first, then the smokers; then main returns 0.
Join == /\ main = "join"
        /\ IF next = 0 THEN agent = "done" ELSE smoker[next - 1] = "done"
        /\ IF next < 3 THEN main' = main /\ next' = next + 1
                       ELSE main' = "success" /\ next' = next
        /\ UNCHANGED <<agentVars, smokerVars, sem, table, mutex>>

-----------------------------------------------------------------------------
(* agent_fn *)

AgentGoto(from, to) == /\ Running /\ agent = from /\ agent' = to
                       /\ UNCHANGED <<main, next, smokerVars>>

AgentLock == /\ AgentGoto("lock", "serve")
             /\ mutex = Free /\ mutex' = Agent
             /\ UNCHANGED <<round, kind, sem, table>>

\* serve_tob_paper, serve_match_paper, serve_tob_match
Serve == /\ AgentGoto("serve", "post")
         /\ table' = [x \in Ingredient |->
                         IF x \in Pair(kind) THEN table[x] + 1 ELSE table[x]]
         /\ UNCHANGED <<round, kind, sem, mutex>>

PostNext == /\ AgentGoto("post", "wait")                         \* mutant
            /\ sem' = [sem EXCEPT ![(kind + 1) % 3] = @ + 1]
            /\ UNCHANGED <<round, kind, table, mutex>>

Post == /\ AgentGoto("post", "wait")
        /\ sem' = [sem EXCEPT ![kind] = @ + 1]
        /\ UNCHANGED <<round, kind, table, mutex>>

WaitUnlocksFirst == /\ Running /\ agent = "wait"                 \* mutant
                    /\ IF mutex = Agent
                       THEN mutex' = Free /\ UNCHANGED agent
                       ELSE agent' = "asleep" /\ UNCHANGED mutex
                    /\ UNCHANGED <<main, next, round, kind, smokerVars, sem, table>>

Wait == /\ AgentGoto("wait", "asleep")
        /\ mutex' = Free
        /\ UNCHANGED <<round, kind, sem, table>>

SpuriousWakeup == /\ AllowSpurious
                  /\ AgentGoto("asleep", "relock")
                  /\ UNCHANGED <<round, kind, sem, table, mutex>>

\* pthread_cond_wait takes the mutex back and returns, whoever woke it up.
Relock == /\ mutex = Free /\ mutex' = Agent
          /\ IF kind < 2 THEN AgentGoto("relock", "serve") /\ kind' = kind + 1
                         ELSE AgentGoto("relock", "unlock") /\ UNCHANGED kind
          /\ UNCHANGED <<round, sem, table>>

AgentUnlock == /\ AgentGoto("unlock", IF round + 1 < NumRounds THEN "lock" ELSE "done")
               /\ mutex' = Free
               /\ round' = round + 1 /\ kind' = 0
               /\ UNCHANGED <<sem, table>>

-----------------------------------------------------------------------------
(* smoker_fn *)

SmokerGoto(k, from, to) == /\ Running /\ smoker[k] = from
                           /\ smoker' = [smoker EXCEPT ![k] = to]
                           /\ UNCHANGED <<main, next, round, kind>>

SemWait(k) == /\ SmokerGoto(k, "wait", "lock")
              /\ sem[k] > 0 /\ sem' = [sem EXCEPT ![k] = @ - 1]
              /\ UNCHANGED <<agent, smoked, table, mutex>>

SmokerLock(k) == /\ SmokerGoto(k, "lock", "consume")
                 /\ mutex = Free /\ mutex' = k
                 /\ UNCHANGED <<agent, smoked, sem, table>>

ConsumeServed(k) == /\ SmokerGoto(k, "consume", "signal")         \* mutant
                    /\ table' = [x \in Ingredient |->
                                    IF x \in Pair(kind) THEN table[x] - 1 ELSE table[x]]
                    /\ UNCHANGED <<agent, smoked, sem, mutex>>

\* consume_tob_paper, consume_match_paper, consume_tob_match
Consume(k) == /\ SmokerGoto(k, "consume", "signal")
              /\ table' = [x \in Ingredient |->
                              IF x \in Pair(k) THEN table[x] - 1 ELSE table[x]]
              /\ UNCHANGED <<agent, smoked, sem, mutex>>

SignalForgotten(k) == /\ SmokerGoto(k, "signal", "unlock")       \* mutant
                      /\ UNCHANGED <<agent, smoked, sem, table, mutex>>

Signal(k) == /\ SmokerGoto(k, "signal", "unlock")
             /\ agent' = IF agent = "asleep" THEN "relock" ELSE agent
             /\ UNCHANGED <<smoked, sem, table, mutex>>

SmokerUnlock(k) == /\ SmokerGoto(k, "unlock",
                           IF smoked[k] + 1 < NumRounds THEN "wait" ELSE "done")
                   /\ smoked' = [smoked EXCEPT ![k] = @ + 1]
                   /\ mutex' = Free
                   /\ UNCHANGED <<agent, sem, table>>

-----------------------------------------------------------------------------
AgentStep == \/ AgentLock \/ Serve \/ Post \/ Wait
             \/ SpuriousWakeup \/ Relock \/ AgentUnlock

Smoker(k) == \/ SemWait(k) \/ SmokerLock(k) \/ Consume(k)
             \/ Signal(k) \/ SmokerUnlock(k)

Next == \/ CreateAgent \/ CreateSmoker \/ CreateFails \/ Join
        \/ AgentStep
        \/ \E k \in Kind : Smoker(k)

Spec == Init /\ [][Next]_vars

\* The scheduler keeps running some thread that can run.  Nothing promises a
\* spurious wakeup.
FairSpec == Spec /\ WF_vars(Next /\ ~SpuriousWakeup)

-----------------------------------------------------------------------------
(* Properties *)

\* Every variable keeps its type; the ingredients on the table are never
\* fewer than none.
TypeOK == /\ main \in {"create", "join", "success", "failure"}
          /\ next \in 0..3
          /\ agent \in {"unborn", "lock", "serve", "post", "wait", "asleep",
                        "relock", "unlock", "done"}
          /\ round \in 0..NumRounds
          /\ kind \in Kind
          /\ smoker \in [Kind -> {"unborn", "wait", "lock", "consume",
                                  "signal", "unlock", "done"}]
          /\ smoked \in [Kind -> 0..NumRounds]
          /\ sem \in [Kind -> 0..NumRounds]
          /\ table \in [Ingredient -> Nat]
          /\ mutex \in Kind \cup {Agent, Free}

\* table_mutex belongs to the thread whose position says so: the agent gives
\* it up only in pthread_cond_wait and pthread_mutex_unlock.
MutexAccounted ==
    /\ mutex = Agent <=> agent \in {"serve", "post", "wait", "unlock"}
    /\ \A k \in Kind : mutex = k <=> smoker[k] \in {"consume", "signal", "unlock"}

Bit(b) == IF b THEN 1 ELSE 0

\* Pairs of kind k put on the table and not taken from it: announced by the
\* semaphore, about to be announced, or seen by the smoker but not taken yet.
Outstanding(k) == sem[k] + Bit(agent = "post" /\ kind = k)
                         + Bit(smoker[k] \in {"lock", "consume"})

\* The three counters of ingredients are at all times those of the pairs
\* outstanding: a smoker never takes what is not on the table, whichever
\* wakeups the agent gets.
TableAccounted ==
    /\ table["tobacco"] = Outstanding(0) + Outstanding(2)
    /\ table["match"]   = Outstanding(1) + Outstanding(2)
    /\ table["paper"]   = Outstanding(0) + Outstanding(1)

\* Pairs of kind k the agent has put on the table so far, and pairs smoker k took.
Put(k) == round + Bit(k < kind \/ (k = kind /\ agent \in {"post", "wait", "asleep",
                                                          "relock", "unlock"}))
Taken(k) == smoked[k] + Bit(smoker[k] \in {"signal", "unlock"})

\* Every pair put on the table is taken once, by its smoker.
PairsAccounted == \A k \in Kind : Put(k) = Taken(k) + Outstanding(k)

\* How far main and the loops have come.
Stage ==
    /\ main = "create" => /\ agent = "unborn" <=> next = 0
                          /\ \A k \in Kind : smoker[k] = "unborn" <=> k + 1 >= next
    /\ main = "join" => /\ agent # "unborn"
                        /\ next > 0 => agent = "done"
                        /\ \A k \in Kind : /\ smoker[k] # "unborn"
                                           /\ k + 1 < next => smoker[k] = "done"
    /\ main = "success" => agent = "done" /\ \A k \in Kind : smoker[k] = "done"
    /\ agent = "done" <=> round = NumRounds
    /\ agent \in {"unborn", "lock", "done"} => kind = 0
    /\ agent = "unlock" => kind = 2
    /\ \A k \in Kind : smoker[k] = "done" <=> smoked[k] = NumRounds

\* The strengthening of NoLostWakeup: the smoker of the pair just announced has
\* still to signal already when the agent is about to wait.
SignalToCome == agent \in {"wait", "asleep"} =>
                    sem[kind] > 0 \/ smoker[kind] \in {"lock", "consume", "signal"}

\* What holds at every step of the program, as far as it is needed to show the
\* rest: an inductive invariant.  Threads and loops are in step, the mutex, the
\* table and the pairs are accounted for, and the signal the agent needs is to come.
SmokersInv == /\ TypeOK /\ Stage /\ MutexAccounted
              /\ TableAccounted /\ PairsAccounted /\ SignalToCome

\* The agent never sleeps through the signal meant for it: while it sleeps
\* the smoker of the pair just served has still to signal.
NoLostWakeup == agent = "asleep" =>
                    sem[kind] > 0 \/ smoker[kind] \in {"lock", "consume", "signal"}

\* No thread can make its next call although main has not returned.
AgentBlocked == \/ agent \in {"unborn", "asleep", "done"}
                \/ agent \in {"lock", "relock"} /\ mutex # Free
SmokerBlocked(k) == \/ smoker[k] \in {"unborn", "done"}
                    \/ smoker[k] = "wait" /\ sem[k] = 0
                    \/ smoker[k] = "lock" /\ mutex # Free
MainBlocked == main = "join" /\ IF next = 0 THEN agent # "done"
                                            ELSE smoker[next - 1] # "done"

\* The four threads never wait for one another for ever.
NeverStuck == ~(MainBlocked /\ AgentBlocked /\ \A k \in Kind : SmokerBlocked(k))

\* Every run of the program ends.
Ends == <>~Running

\* main returns 0 only when every smoker has had all its pairs, nothing is
\* left on the table and no semaphore has a post left.
SuccessMeansAllSmoked ==
    main = "success" => /\ \A k \in Kind : smoked[k] = NumRounds /\ sem[k] = 0
                        /\ \A x \in Ingredient : table[x] = 0

=============================================================================
