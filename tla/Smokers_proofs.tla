--------------------------- MODULE Smokers_proofs ---------------------------
(***************************************************************************)
(* Proofs about Smokers for every number of rounds, with and without       *)
(* spurious wakeups.                                                       *)
(***************************************************************************)
EXTENDS MCSmokers, TLAPS

\* There are three kinds of pairs, and the numbers that stand for the owners of
\* table_mutex are distinct.
LEMMA KindIs == Kind = {0, 1, 2} /\ Agent \notin Kind /\ Free \notin Kind /\ Agent # Free
BY DEF Kind, Agent, Free

\* The invariant holds before main has created a thread.
LEMMA InitInv == Init => SmokersInv
<1> SUFFICES ASSUME Init PROVE SmokersInv
  OBVIOUS
<1> USE SmokersAssumption DEF Init
<1>1. TypeOK
  BY DEF TypeOK, Kind, Ingredient
<1>2. Stage
  BY DEF Stage, Kind
<1>3. MutexAccounted
  BY DEF MutexAccounted, Kind, Agent, Free
<1>4. TableAccounted
  BY DEF TableAccounted, Outstanding, Bit, Kind, Ingredient
<1>5. PairsAccounted
  BY DEF PairsAccounted, Put, Taken, Outstanding, Bit, Kind
<1>6. SignalToCome
  BY DEF SignalToCome
<1> QED  BY <1>1, <1>2, <1>3, <1>4, <1>5, <1>6 DEF SmokersInv

\* Every call keeps the threads in step with the loops of main and their own.
LEMMA StageStep == SmokersInv /\ [Next]_vars => Stage'
<1> SUFFICES ASSUME SmokersInv, [Next]_vars PROVE Stage'
  OBVIOUS
<1> USE SmokersAssumption, KindIs DEF SmokersInv, TypeOK, Stage
<1>1. CASE CreateAgent
  BY <1>1 DEF CreateAgent, smokerVars
<1>2. CASE CreateSmoker
  BY <1>2 DEF CreateSmoker, agentVars
<1>3. CASE CreateFails
  BY <1>3 DEF CreateFails, agentVars, smokerVars
<1>4. CASE Join
  BY <1>4 DEF Join, agentVars, smokerVars
<1>5. CASE AgentStep
  BY <1>5 DEF AgentStep, AgentLock, Serve, Post, Wait, SpuriousWakeup, Relock,
              AgentUnlock, AgentGoto, Running, smokerVars
<1>6. ASSUME NEW k \in Kind, Smoker(k) PROVE Stage'
  BY <1>6 DEF Smoker, SemWait, SmokerLock, Consume, Signal, SmokerUnlock, SmokerGoto, Running
<1>7. CASE UNCHANGED vars
  BY <1>7 DEF vars, agentVars, smokerVars
<1> QED  BY <1>1, <1>2, <1>3, <1>4, <1>5, <1>6, <1>7 DEF Next

\* table_mutex changes hands only where agent_fn and smoker_fn lock and unlock
\* it, or wait on the condition variable.
LEMMA MutexStep == SmokersInv /\ [Next]_vars => MutexAccounted'
<1> SUFFICES ASSUME SmokersInv, [Next]_vars PROVE MutexAccounted'
  OBVIOUS
<1> USE SmokersAssumption, KindIs DEF SmokersInv, TypeOK, MutexAccounted
<1>1. CASE CreateAgent
  BY <1>1 DEF CreateAgent, smokerVars, Stage
<1>2. CASE CreateSmoker
  <2>1. smoker[next - 1] = "unborn"
    BY <1>2 DEF CreateSmoker, Stage, Kind
  <2> QED  BY <1>2, <2>1 DEF CreateSmoker, agentVars
<1>3. CASE CreateFails
  BY <1>3 DEF CreateFails, agentVars, smokerVars
<1>4. CASE Join
  BY <1>4 DEF Join, agentVars, smokerVars
<1>5. CASE AgentStep
  BY <1>5 DEF AgentStep, AgentLock, Serve, Post, Wait, SpuriousWakeup, Relock,
              AgentUnlock, AgentGoto, smokerVars
<1>6. ASSUME NEW k \in Kind, Smoker(k) PROVE MutexAccounted'
  BY <1>6 DEF Smoker, SemWait, SmokerLock, Consume, Signal, SmokerUnlock, SmokerGoto
<1>7. CASE UNCHANGED vars
  BY <1>7 DEF vars, agentVars, smokerVars
<1> QED  BY <1>1, <1>2, <1>3, <1>4, <1>5, <1>6, <1>7 DEF Next

\* serve_ and consume_ change the counters by one pair, which the semaphore
\* or the place of a thread in the code accounts for.
LEMMA TableStep == SmokersInv /\ [Next]_vars => TableAccounted'
<1> SUFFICES ASSUME SmokersInv, [Next]_vars PROVE TableAccounted'
  OBVIOUS
<1> USE SmokersAssumption, KindIs DEF SmokersInv, TypeOK, TableAccounted, Outstanding, Bit
<1>1. CASE CreateAgent
  BY <1>1 DEF CreateAgent, smokerVars, Stage
<1>2. CASE CreateSmoker
  <2>1. next - 1 \in Kind /\ smoker[next - 1] = "unborn"
    BY <1>2 DEF CreateSmoker, Stage, Kind
  <2> QED  BY <1>2, <2>1 DEF CreateSmoker, agentVars
<1>3. CASE CreateFails
  BY <1>3 DEF CreateFails, agentVars, smokerVars
<1>4. CASE Join
  BY <1>4 DEF Join, agentVars, smokerVars
<1>5. CASE AgentStep
  <2> USE DEF AgentGoto, smokerVars
  <2>1. CASE Serve
    BY <2>1 DEF Serve, Pair, Ingredient
  <2>2. CASE Post
    BY <2>2 DEF Post
  <2>3. CASE ~Serve /\ ~Post
    BY <1>5, <2>3 DEF AgentStep, AgentLock, Wait, SpuriousWakeup, Relock, AgentUnlock
  <2> QED  BY <2>1, <2>2, <2>3
<1>6. ASSUME NEW k \in Kind, Smoker(k) PROVE TableAccounted'
  <2> USE DEF SmokerGoto
  <2>1. CASE SemWait(k)
    BY <2>1 DEF SemWait
  <2>2. CASE Consume(k)
    BY <2>2 DEF Consume, Pair, Ingredient
  <2>3. CASE SmokerLock(k) \/ Signal(k) \/ SmokerUnlock(k)
    BY <2>3 DEF SmokerLock, Signal, SmokerUnlock
  <2> QED  BY <1>6, <2>1, <2>2, <2>3 DEF Smoker
<1>7. CASE UNCHANGED vars
  BY <1>7 DEF vars, agentVars, smokerVars
<1> QED  BY <1>1, <1>2, <1>3, <1>4, <1>5, <1>6, <1>7 DEF Next

\* No call loses or repeats a pair on its way from the agent to the smoker.
LEMMA PairsStep == SmokersInv /\ [Next]_vars => PairsAccounted'
<1> SUFFICES ASSUME SmokersInv, [Next]_vars PROVE PairsAccounted'
  OBVIOUS
<1> USE SmokersAssumption, KindIs
    DEF SmokersInv, TypeOK, PairsAccounted, Put, Taken, Outstanding, Bit
<1>1. CASE CreateAgent
  BY <1>1 DEF CreateAgent, smokerVars, Stage
<1>2. CASE CreateSmoker
  <2>1. next - 1 \in Kind /\ smoker[next - 1] = "unborn"
    BY <1>2 DEF CreateSmoker, Stage, Kind
  <2> QED  BY <1>2, <2>1 DEF CreateSmoker, agentVars
<1>3. CASE CreateFails
  BY <1>3 DEF CreateFails, agentVars, smokerVars
<1>4. CASE Join
  BY <1>4 DEF Join, agentVars, smokerVars
<1>5. CASE AgentStep
  <2> USE DEF AgentGoto, smokerVars
  <2>1. CASE Serve \/ Post
    BY <2>1 DEF Serve, Post
  <2>2. CASE Relock
    BY <2>2 DEF Relock
  <2>3. CASE AgentUnlock
    BY <2>3 DEF AgentUnlock, Stage
  <2>4. CASE AgentLock \/ Wait \/ SpuriousWakeup
    BY <2>4 DEF AgentLock, Wait, SpuriousWakeup
  <2> QED  BY <1>5, <2>1, <2>2, <2>3, <2>4 DEF AgentStep
<1>6. ASSUME NEW k \in Kind, Smoker(k) PROVE PairsAccounted'
  <2> USE DEF SmokerGoto
  <2>1. CASE SemWait(k)
    BY <2>1 DEF SemWait
  <2>2. CASE Consume(k)
    BY <2>2 DEF Consume
  <2>3. CASE SmokerUnlock(k)
    BY <2>3 DEF SmokerUnlock
  <2>4. CASE SmokerLock(k) \/ Signal(k)
    BY <2>4 DEF SmokerLock, Signal
  <2> QED  BY <1>6, <2>1, <2>2, <2>3, <2>4 DEF Smoker
<1>7. CASE UNCHANGED vars
  BY <1>7 DEF vars, agentVars, smokerVars
<1> QED  BY <1>1, <1>2, <1>3, <1>4, <1>5, <1>6, <1>7 DEF Next

\* While the agent is about to wait it owns the mutex, so no smoker is between
\* its lock and its unlock; once it sleeps every signal wakes it up.
LEMMA SignalStep == SmokersInv /\ [Next]_vars => SignalToCome'
<1> SUFFICES ASSUME SmokersInv, [Next]_vars PROVE SignalToCome'
  OBVIOUS
<1> USE KindIs DEF SmokersInv, TypeOK, SignalToCome
<1>1. CASE CreateAgent
  BY <1>1 DEF CreateAgent, smokerVars
<1>2. CASE CreateSmoker
  <2>1. next - 1 \in Kind /\ smoker[next - 1] = "unborn"
    BY <1>2 DEF CreateSmoker, Stage, Kind
  <2> QED  BY <1>2, <2>1 DEF CreateSmoker, agentVars
<1>3. CASE CreateFails
  BY <1>3 DEF CreateFails, agentVars, smokerVars
<1>4. CASE Join
  BY <1>4 DEF Join, agentVars, smokerVars
<1>5. CASE AgentStep
  BY <1>5 DEF AgentStep, AgentLock, Serve, Post, Wait, SpuriousWakeup, Relock,
              AgentUnlock, AgentGoto, smokerVars
<1>6. ASSUME NEW k \in Kind, Smoker(k) PROVE SignalToCome'
  <2> USE DEF SmokerGoto
  <2>1. CASE SemWait(k)
    BY <2>1 DEF SemWait
  <2>2. CASE SmokerLock(k) \/ Consume(k)
    BY <2>2 DEF SmokerLock, Consume
  <2>3. CASE Signal(k)
    BY <2>3 DEF Signal, MutexAccounted
  <2>4. CASE SmokerUnlock(k)
    BY <2>4 DEF SmokerUnlock
  <2> QED  BY <1>6, <2>1, <2>2, <2>3, <2>4 DEF Smoker
<1>7. CASE UNCHANGED vars
  BY <1>7 DEF vars, agentVars, smokerVars
<1> QED  BY <1>1, <1>2, <1>3, <1>4, <1>5, <1>6, <1>7 DEF Next

\* Every action keeps the types: a smoker that takes has something to take, and
\* no counter passes the number of rounds.
LEMMA TypeStep == SmokersInv /\ [Next]_vars => TypeOK'
<1> SUFFICES ASSUME SmokersInv, [Next]_vars PROVE TypeOK'
  OBVIOUS
<1> USE SmokersAssumption, KindIs DEF SmokersInv, TypeOK
<1>1. CASE CreateAgent
  BY <1>1 DEF CreateAgent, smokerVars
<1>2. CASE CreateSmoker
  BY <1>2 DEF CreateSmoker, agentVars
<1>3. CASE CreateFails
  BY <1>3 DEF CreateFails, agentVars, smokerVars
<1>4. CASE Join
  BY <1>4 DEF Join, agentVars, smokerVars
<1>5. CASE AgentStep
  <2> USE DEF AgentGoto, smokerVars
  <2>1. CASE Serve
    BY <2>1 DEF Serve, Ingredient
  <2>2. CASE Post
    <3>1. sem[kind] + 1 \in 0..NumRounds
      <4>1. Put(kind) = Taken(kind) + Outstanding(kind)
        BY DEF PairsAccounted
      <4>2. Put(kind) \in 0..NumRounds
        BY <2>2 DEF Post, Put, Bit, Stage
      <4>3. Taken(kind) \in Nat
        BY DEF Taken, Bit
      <4>4. Outstanding(kind) = sem[kind] + 1 + Bit(smoker[kind] \in {"lock", "consume"})
        BY <2>2 DEF Post, Outstanding, Bit
      <4> QED  BY <4>1, <4>2, <4>3, <4>4 DEF Bit
    <3> QED  BY <2>2, <3>1 DEF Post
  <2>3. CASE AgentLock \/ Wait \/ SpuriousWakeup \/ Relock
    BY <2>3 DEF AgentLock, Wait, SpuriousWakeup, Relock, Kind
  <2>4. CASE AgentUnlock
    BY <2>4 DEF AgentUnlock, Stage
  <2> QED  BY <1>5, <2>1, <2>2, <2>3, <2>4 DEF AgentStep
<1>6. ASSUME NEW k \in Kind, Smoker(k) PROVE TypeOK'
  <2> USE DEF SmokerGoto
  <2>1. CASE Consume(k)
    <3>1. \A j \in Kind : Outstanding(j) \in Nat
      BY DEF Outstanding, Bit
    <3>2. Outstanding(k) >= 1
      BY <2>1 DEF Consume, Outstanding, Bit
    <3>3. CASE k = 0
      BY <3>1, <3>2, <3>3, <2>1 DEF Consume, Pair, Ingredient, TableAccounted
    <3>4. CASE k = 1
      BY <3>1, <3>2, <3>4, <2>1 DEF Consume, Pair, Ingredient, TableAccounted
    <3>5. CASE k = 2
      BY <3>1, <3>2, <3>5, <2>1 DEF Consume, Pair, Ingredient, TableAccounted
    <3> QED  BY <3>3, <3>4, <3>5
  <2>2. CASE SmokerUnlock(k)
    BY <2>2 DEF SmokerUnlock, Stage
  <2>3. CASE SemWait(k) \/ SmokerLock(k) \/ Signal(k)
    BY <2>3 DEF SemWait, SmokerLock, Signal
  <2> QED  BY <1>6, <2>1, <2>2, <2>3 DEF Smoker
<1>7. CASE UNCHANGED vars
  BY <1>7 DEF vars, agentVars, smokerVars
<1> QED  BY <1>1, <1>2, <1>3, <1>4, <1>5, <1>6, <1>7 DEF Next

-----------------------------------------------------------------------------
\* The inductive invariant holds in every reachable state.
THEOREM Invariance == Spec => []SmokersInv
<1>1. SmokersInv /\ [Next]_vars => SmokersInv'
  BY TypeStep, StageStep, MutexStep, TableStep, PairsStep, SignalStep DEF SmokersInv
<1> QED  BY InitInv, <1>1, PTL DEF Spec

\* smokers_pblm.c keeps its types: no semaphore is posted more often than the
\* loops run, no ingredient is taken that was not served.
THEOREM TypeCorrect == Spec => []TypeOK
BY Invariance, PTL DEF SmokersInv

\* table_mutex is held by the thread whose position in the code says so.
THEOREM MutexOwned == Spec => []MutexAccounted
BY Invariance, PTL DEF SmokersInv

\* The ingredient counters are those of the pairs served and not yet consumed.
THEOREM NothingTakenTwice == Spec => [](TableAccounted /\ PairsAccounted)
BY Invariance, PTL DEF SmokersInv

\* pthread_cond_signal is never lost: the agent sleeps only while the smoker it
\* waits for has still to signal.
THEOREM SignalNotLost == Spec => []NoLostWakeup
<1>1. SmokersInv => NoLostWakeup
  BY DEF SmokersInv, SignalToCome, NoLostWakeup
<1> QED  BY Invariance, <1>1, PTL

\* The agent and the three smokers never wait for one another for ever.
THEOREM NoDeadlock == Spec => []NeverStuck
<1>1. SmokersInv => NeverStuck
  <2> SUFFICES ASSUME SmokersInv, MainBlocked, AgentBlocked,
                      \A k \in Kind : SmokerBlocked(k)
               PROVE FALSE
    BY DEF NeverStuck
  <2> USE SmokersAssumption, KindIs DEF SmokersInv, TypeOK
  <2>1. mutex = Free
    BY DEF MutexAccounted, AgentBlocked, SmokerBlocked
  <2>2. ASSUME NEW k \in Kind
        PROVE  smoker[k] = "done" \/ (smoker[k] = "wait" /\ sem[k] = 0)
    <3>1. SmokerBlocked(k) /\ smoker[k] # "unborn"
      BY DEF MainBlocked, Stage
    <3> QED  BY <2>1, <3>1 DEF SmokerBlocked
  <2>3. agent \in {"asleep", "done"}
    BY <2>1 DEF AgentBlocked, MainBlocked, Stage
  <2>4. ASSUME NEW k \in Kind, smoker[k] = "done" PROVE Taken(k) = NumRounds
    BY <2>4 DEF Stage, Taken, Bit
  <2>5. CASE agent = "asleep"
    <3>1. sem[kind] > 0 /\ smoker[kind] = "done"
      BY <2>2, <2>5 DEF SignalToCome
    <3>2. Taken(kind) = NumRounds
      BY <2>4, <3>1
    <3>3. Outstanding(kind) \in Nat \ {0}
      BY <3>1 DEF Outstanding, Bit
    <3>4. Put(kind) \in 0..NumRounds
      BY <2>5 DEF Put, Bit, Stage
    <3>5. Put(kind) = Taken(kind) + Outstanding(kind)
      BY DEF PairsAccounted
    <3> QED  BY <3>2, <3>3, <3>4, <3>5
  <2>6. CASE agent = "done"
    <3>1. PICK k \in Kind : smoker[k] # "done"
      BY <2>6 DEF MainBlocked, Stage, Kind
    <3>2. Outstanding(k) = 0
      BY <2>2, <2>6, <3>1 DEF Outstanding, Bit
    <3>3. Put(k) = NumRounds
      BY <2>6 DEF Put, Bit, Stage, Kind
    <3>4. Taken(k) = smoked[k]
      BY <2>2, <3>1 DEF Taken, Bit
    <3> QED  BY <3>1, <3>2, <3>3, <3>4 DEF PairsAccounted, Stage
  <2> QED  BY <2>3, <2>5, <2>6
<1> QED  BY Invariance, <1>1, PTL

\* main returns 0 only when every pair was smoked and the table is empty.
THEOREM Success == Spec => []SuccessMeansAllSmoked
<1>1. SmokersInv => SuccessMeansAllSmoked
  <2> SUFFICES ASSUME SmokersInv, main = "success"
               PROVE  /\ \A k \in Kind : smoked[k] = NumRounds /\ sem[k] = 0
                      /\ \A x \in Ingredient : table[x] = 0
    BY DEF SuccessMeansAllSmoked
  <2> USE SmokersAssumption, KindIs DEF SmokersInv, TypeOK
  <2>1. agent = "done" /\ kind = 0 /\ round = NumRounds
    BY DEF Stage
  <2>2. \A k \in Kind : smoker[k] = "done" /\ smoked[k] = NumRounds
    BY DEF Stage
  <2>3. \A k \in Kind : Put(k) = NumRounds /\ Taken(k) = NumRounds
    BY <2>1, <2>2 DEF Put, Taken, Bit, Kind
  <2>4. \A k \in Kind : Outstanding(k) = 0 /\ Outstanding(k) = sem[k]
    BY <2>1, <2>2, <2>3 DEF PairsAccounted, Outstanding, Bit
  <2>5. \A x \in Ingredient : table[x] = 0
    BY <2>4 DEF TableAccounted, Ingredient
  <2> QED  BY <2>2, <2>4, <2>5
<1> QED  BY Invariance, <1>1, PTL

-----------------------------------------------------------------------------
(* Strict turns at the table.  Without spurious wakeups the agent goes on    *)
(* only after the smoker it has served has signalled.                        *)

\* Where no wakeup is spurious, the one pair that is on its way is the one the
\* agent has served last, until its smoker has signalled.
OnePair == strict =>
    \A k \in Kind : Outstanding(k) + Bit(smoker[k] = "signal")
                        = Bit(k = kind /\ agent \in {"post", "wait", "asleep"})

\* No pair is on its way at the start.
LEMMA OnePairInit == Init => OnePair
BY KindIs DEF Init, OnePair, Outstanding, Bit

\* The smoker that is about to signal is the one the agent sleeps for.
LEMMA SignalledOne ==
    ASSUME SmokersInv, OnePair, strict, NEW k \in Kind, smoker[k] = "signal"
    PROVE  agent = "asleep" /\ k = kind
<1>1. Outstanding(k) \in Nat
  BY DEF SmokersInv, TypeOK, Outstanding, Bit
<1>2. k = kind /\ agent \in {"post", "wait", "asleep"}
  BY <1>1 DEF OnePair, Bit
<1>3. mutex = k
  BY DEF SmokersInv, MutexAccounted
<1> QED  BY <1>2, <1>3, KindIs DEF SmokersInv, MutexAccounted

\* The wakeups that count come from the smoker that was served, so the next pair
\* finds the table empty.
LEMMA OnePairStep ==
    ASSUME SmokersInv, OnePair, MCNext
    PROVE  OnePair'
<1> SUFFICES ASSUME strict PROVE OnePair'
  BY DEF OnePair, MCNext
<1> USE KindIs DEF SmokersInv, TypeOK, OnePair, Outstanding, Bit
<1>1. Next /\ ~SpuriousWakeup /\ strict' = strict
  BY DEF MCNext
<1>2. CASE CreateAgent
  BY <1>1, <1>2 DEF CreateAgent, smokerVars, Stage
<1>3. CASE CreateSmoker
  <2>1. next - 1 \in Kind /\ smoker[next - 1] = "unborn"
    BY <1>3 DEF CreateSmoker, Stage, Kind
  <2> QED  BY <1>1, <1>3, <2>1 DEF CreateSmoker, agentVars
<1>4. CASE CreateFails
  BY <1>1, <1>4 DEF CreateFails, agentVars, smokerVars
<1>5. CASE Join
  BY <1>1, <1>5 DEF Join, agentVars, smokerVars
<1>6. CASE AgentStep
  <2> USE DEF AgentGoto, smokerVars
  <2>1. CASE AgentLock \/ Serve
    BY <1>1, <2>1 DEF AgentLock, Serve
  <2>2. CASE Post
    BY <1>1, <2>2 DEF Post
  <2>3. CASE Wait
    BY <1>1, <2>3 DEF Wait
  <2>4. CASE Relock
    BY <1>1, <2>4 DEF Relock, Kind
  <2>5. CASE AgentUnlock
    BY <1>1, <2>5 DEF AgentUnlock
  <2> QED  BY <1>1, <1>6, <2>1, <2>2, <2>3, <2>4, <2>5 DEF AgentStep
<1>7. ASSUME NEW k \in Kind, Smoker(k) PROVE OnePair'
  <2> USE DEF SmokerGoto
  <2>1. CASE SemWait(k)
    BY <1>1, <2>1 DEF SemWait
  <2>2. CASE SmokerLock(k)
    BY <1>1, <2>2 DEF SmokerLock
  <2>3. CASE Consume(k)
    BY <1>1, <2>3 DEF Consume
  <2>4. CASE Signal(k)
    <3>1. agent = "asleep" /\ k = kind
      BY <2>4, SignalledOne DEF Signal
    <3> QED  BY <1>1, <2>4, <3>1 DEF Signal
  <2>5. CASE SmokerUnlock(k)
    BY <1>1, <2>5 DEF SmokerUnlock
  <2> QED  BY <1>7, <2>1, <2>2, <2>3, <2>4, <2>5 DEF Smoker
<1> QED  BY <1>1, <1>2, <1>3, <1>4, <1>5, <1>6, <1>7 DEF Next

\* The number of pairs served, with the agent's program as the measure.
LEMMA ServedIs ==
    ASSUME TypeOK
    PROVE  /\ Put(0) + Put(1) + Put(2) = 3 * round + kind
                  + Bit(agent \in {"post", "wait", "asleep", "relock", "unlock"})
BY KindIs DEF TypeOK, Put, Bit

\* Something is on the table when a pair is outstanding.
LEMMA OnTableIs ==
    ASSUME SmokersInv
    PROVE  (\E x \in Ingredient : table[x] > 0) <=> \E k \in Kind : Outstanding(k) > 0
<1>1. \A k \in Kind : Outstanding(k) \in Nat
  BY DEF SmokersInv, TypeOK, Outstanding, Bit
<1> HIDE DEF Outstanding
<1>2. (\E x \in Ingredient : table[x] > 0)
          <=> table["tobacco"] > 0 \/ table["match"] > 0 \/ table["paper"] > 0
  BY DEF Ingredient
<1>3. (\E k \in Kind : Outstanding(k) > 0)
          <=> Outstanding(0) > 0 \/ Outstanding(1) > 0 \/ Outstanding(2) > 0
  BY KindIs
<1>4. Outstanding(0) \in Nat /\ Outstanding(1) \in Nat /\ Outstanding(2) \in Nat
  BY <1>1, KindIs
<1>5. TableAccounted
  BY DEF SmokersInv
<1> QED  BY <1>2, <1>3, <1>4, <1>5 DEF TableAccounted

\* The three values SmokersTurns sees, in a run without spurious wakeups.
LEMMA TurnsSeen ==
    SmokersInv /\ OnePair /\ strict =>
           /\ Served = 3 * round + kind
                  + Bit(agent \in {"post", "wait", "asleep", "relock", "unlock"})
           /\ OnTable <=> /\ agent \in {"post", "wait", "asleep"}
                          /\ smoker[kind] # "signal"
           /\ Smoked = [k \in Kind |-> Taken(k)]
<1> SUFFICES ASSUME SmokersInv, OnePair, strict
             PROVE  /\ Served = 3 * round + kind
                           + Bit(agent \in {"post", "wait", "asleep", "relock", "unlock"})
                    /\ OnTable <=> /\ agent \in {"post", "wait", "asleep"}
                                   /\ smoker[kind] # "signal"
                    /\ Smoked = [k \in Kind |-> Taken(k)]
  OBVIOUS
<1>1. OnTable <=> \E k \in Kind : Outstanding(k) > 0
  BY OnTableIs DEF OnTable
<1>2. \A k \in Kind : Outstanding(k) \in Nat
  BY DEF SmokersInv, TypeOK, Outstanding, Bit
<1>3. (\E k \in Kind : Outstanding(k) > 0)
          <=> agent \in {"post", "wait", "asleep"} /\ smoker[kind] # "signal"
  <2> HIDE DEF Outstanding
  <2> QED  BY <1>2 DEF SmokersInv, TypeOK, OnePair, Bit
<1> QED  BY <1>1, <1>3, ServedIs DEF SmokersInv, Served, Smoked

\* Serving is putting a pair on an empty table, consuming is taking it, and no
\* other call is about the table.
LEMMA TurnsStep ==
    ASSUME SmokersInv, OnePair, SmokersInv', OnePair', MCNext
    PROVE  [Turns!Put \/ Turns!Take]_(Turns!vars)
<1>1. CASE ~strict
  BY <1>1 DEF MCNext, Served, OnTable, Smoked, Turns!vars
<1> SUFFICES ASSUME strict PROVE [Turns!Put \/ Turns!Take]_(Turns!vars)
  BY <1>1
<1>2. Next /\ ~SpuriousWakeup /\ strict' = strict
  BY DEF MCNext
<1> DEFINE Busy == Bit(agent \in {"post", "wait", "asleep", "relock", "unlock"})
           There == agent \in {"post", "wait", "asleep"} /\ smoker[kind] # "signal"
           Goal == [Turns!Put \/ Turns!Take]_(Turns!vars)
<1>3. /\ Served = 3 * round + kind + Busy
      /\ OnTable = There
      /\ Smoked = [k \in Kind |-> Taken(k)]
  BY TurnsSeen, Zenon DEF OnTable
<1>4. /\ Served' = 3 * round' + kind' + Busy'
      /\ OnTable' = There'
      /\ Smoked' = [k \in Kind |-> Taken(k)']
  <2>1. (SmokersInv /\ OnePair /\ strict =>
            /\ Served = 3 * round + kind + Busy
            /\ OnTable <=> There
            /\ Smoked = [k \in Kind |-> Taken(k)])'
    BY TurnsSeen, PTL
  <2> QED  BY <1>2, <2>1 DEF OnTable
<1> SUFFICES Goal
  OBVIOUS
<1> HIDE DEF Goal
<1>5. ASSUME 3 * round' + kind' + Busy' = 3 * round + kind + Busy, (There' <=> There),
             \A k \in Kind : Taken(k)' = Taken(k)
      PROVE  Goal
  <2>1. Smoked' = Smoked
    BY <1>3, <1>4, <1>5
  <2> QED  BY <1>3, <1>4, <1>5, <2>1 DEF Goal, Turns!vars
<1> USE KindIs
<1>t. TypeOK
  BY DEF SmokersInv
<1>s. Stage /\ MutexAccounted
  BY DEF SmokersInv
<1>6. CASE CreateAgent \/ CreateFails \/ Join
  <2>1. UNCHANGED <<round, kind, smoker, smoked>>
    BY <1>6 DEF CreateAgent, CreateFails, Join, agentVars, smokerVars
  <2>2. agent' = agent \/ (agent = "unborn" /\ agent' = "lock")
    BY <1>6, <1>s DEF CreateAgent, CreateFails, Join, agentVars, Stage
  <2>3. \A k \in Kind : Taken(k)' = Taken(k)
    BY <2>1 DEF Taken
  <2>4. Busy' = Busy /\ (There' <=> There)
    BY <2>1, <2>2 DEF Bit
  <2> QED  BY <1>5, <2>1, <2>3, <2>4
<1>7. CASE CreateSmoker
  <2>1. /\ next - 1 \in Kind /\ smoker[next - 1] = "unborn"
        /\ smoker' = [smoker EXCEPT ![next - 1] = "wait"]
        /\ UNCHANGED <<round, kind, agent, smoked>>
    BY <1>7, <1>t, <1>s DEF CreateSmoker, agentVars, TypeOK, Stage, Kind
  <2>2. \A k \in Kind : Taken(k)' = Taken(k)
    BY <1>t, <2>1 DEF TypeOK, Taken
  <2>3. Busy' = Busy /\ (There' <=> There)
    BY <1>t, <2>1 DEF TypeOK, Bit
  <2> QED  BY <1>5, <2>1, <2>2, <2>3
<1>8. CASE AgentStep
  <2> USE DEF AgentGoto
  <2>1. UNCHANGED <<smoker, smoked>>
    BY <1>8 DEF AgentStep, AgentLock, Serve, Post, Wait, SpuriousWakeup, Relock,
                AgentUnlock, smokerVars
  <2>2. \A k \in Kind : Taken(k)' = Taken(k)
    BY <2>1 DEF Taken
  <2>3. CASE AgentLock \/ Post \/ Wait
    <3>1. UNCHANGED <<round, kind>> /\ Busy' = Busy /\ (There' <=> There)
      BY <2>1, <2>3 DEF AgentLock, Post, Wait, Bit
    <3> QED  BY <1>5, <2>2, <3>1
  <2>4. CASE Relock
    <3>1. Busy = 1 /\ round' = round /\ (There' <=> There)
      BY <2>1, <2>4 DEF Relock, Bit
    <3>2. \/ kind' = kind + 1 /\ Busy' = 0
          \/ kind' = kind /\ Busy' = 1
      BY <2>4 DEF Relock, Bit
    <3>3. 3 * round \in Int /\ kind \in Int
      BY <1>t, SmokersAssumption DEF TypeOK, Kind
    <3>4. 3 * round' + kind' + Busy' = 3 * round + kind + Busy
      <4>1. 3 * round' = 3 * round /\ Busy = 1
        BY <3>1
      <4> HIDE DEF Busy
      <4>2. CASE kind' = kind + 1 /\ Busy' = 0
        BY <3>3, <4>1, <4>2
      <4>3. CASE kind' = kind /\ Busy' = 1
        BY <3>3, <4>1, <4>3
      <4> QED  BY <3>2, <4>2, <4>3
    <3> QED  BY <1>5, <2>2, <3>1, <3>4
  <2>5. CASE AgentUnlock
    <3>1. Busy = 1 /\ Busy' = 0 /\ kind = 2 /\ kind' = 0 /\ (There' <=> There)
      BY <1>s, <2>1, <2>5 DEF AgentUnlock, Bit, Stage
    <3>2. round' = round + 1 /\ round \in Nat
      BY <1>t, <2>5, SmokersAssumption DEF AgentUnlock, TypeOK
    <3> QED  BY <1>5, <2>2, <3>1, <3>2
  <2>6. CASE Serve
    <3>1. ~There /\ Busy = 0 /\ There' /\ Busy' = 1 /\ UNCHANGED <<round, kind>>
      BY <1>t, <1>s, <2>1, <2>6 DEF Serve, Bit, TypeOK, MutexAccounted
    <3>2. 3 * round + kind < 3 * NumRounds
      BY <1>t, <1>s, <2>6, SmokersAssumption DEF Serve, Stage, TypeOK, Kind
    <3>3. Smoked' = Smoked
      BY <1>3, <1>4, <2>2
    <3>4. Served' = Served + 1 /\ Served < 3 * NumRounds
      BY <1>t, <1>3, <1>4, <3>1, <3>2, SmokersAssumption DEF TypeOK, Kind
    <3> QED  BY <1>3, <1>4, <3>1, <3>3, <3>4 DEF Goal, Turns!Put
  <2> QED  BY <1>2, <1>8, <2>3, <2>4, <2>5, <2>6 DEF AgentStep
<1>9. ASSUME NEW k \in Kind, Smoker(k) PROVE Goal
  <2> USE DEF SmokerGoto
  <2>1. CASE SemWait(k) \/ SmokerLock(k) \/ SmokerUnlock(k)
    <3>1. UNCHANGED <<round, kind, agent>> /\ (There' <=> There)
      BY <1>t, <2>1 DEF SemWait, SmokerLock, SmokerUnlock, TypeOK
    <3>2. \A j \in Kind : Taken(j)' = Taken(j)
      BY <1>t, <2>1 DEF SemWait, SmokerLock, SmokerUnlock, Taken, Bit, TypeOK
    <3> QED  BY <1>5, <3>1, <3>2
  <2>2. CASE Signal(k)
    <3>1. agent = "asleep" /\ k = kind
      BY <2>2, SignalledOne DEF Signal
    <3>2. UNCHANGED <<round, kind>> /\ ~There /\ ~There' /\ Busy' = Busy
      BY <1>t, <2>2, <3>1 DEF Signal, Bit, TypeOK
    <3>3. \A j \in Kind : Taken(j)' = Taken(j)
      BY <1>t, <2>2 DEF Signal, Taken, Bit, TypeOK
    <3> QED  BY <1>5, <3>2, <3>3
  <2>3. CASE Consume(k)
    <3>1. k = kind /\ agent \in {"post", "wait", "asleep"}
      BY <1>t, <2>3 DEF Consume, OnePair, Outstanding, Bit, TypeOK
    <3>2. There /\ ~There' /\ Busy = 1 /\ Busy' = 1 /\ UNCHANGED <<round, kind>>
      BY <1>t, <2>3, <3>1 DEF Consume, Bit, TypeOK
    <3>3. Served' = Served /\ (Served - 1) % 3 = k
      BY <1>t, <1>3, <1>4, <3>1, <3>2, SmokersAssumption DEF TypeOK
    <3>4. \A j \in Kind : Taken(j)' = IF j = k THEN Taken(j) + 1 ELSE Taken(j)
      BY <1>t, <2>3 DEF Consume, Taken, Bit, TypeOK
    <3>5. Smoked' = [Smoked EXCEPT ![k] = @ + 1]
      <4> HIDE DEF Taken
      <4> QED  BY <1>3, <1>4, <3>4
    <3> QED  BY <1>3, <1>4, <3>2, <3>3, <3>5 DEF Goal, Turns!Take
  <2> QED  BY <1>9, <2>1, <2>2, <2>3 DEF Smoker
<1> QED  BY <1>2, <1>6, <1>7, <1>8, <1>9 DEF Next

\* Without spurious wakeups the program implements strict turns at the table.
THEOREM TakesTurns == MCSpec => ImplementsTurns
<1> DEFINE Inv == SmokersInv /\ OnePair
<1>1. MCInit => Inv
  BY InitInv, OnePairInit DEF MCInit
<1>2. Inv /\ [MCNext]_<<vars, strict>> => Inv'
  <2> SUFFICES ASSUME Inv, [MCNext]_<<vars, strict>> PROVE Inv'
    OBVIOUS
  <2>1. [Next]_vars
    BY DEF MCNext
  <2>2. SmokersInv'
    BY <2>1, TypeStep, StageStep, MutexStep, TableStep, PairsStep, SignalStep DEF SmokersInv
  <2>3. CASE MCNext
    BY <2>2, <2>3, OnePairStep
  <2>4. CASE UNCHANGED <<vars, strict>>
    BY <2>2, <2>4 DEF vars, agentVars, smokerVars, OnePair, Outstanding
  <2> QED  BY <2>3, <2>4
<1>3. MCInit => Turns!Init
  BY KindIs, SmokersAssumption
     DEF MCInit, Init, Turns!Init, Served, OnTable, Smoked, Put, Taken, Bit, Turns!Kind, Kind
<1>4. Inv /\ Inv' /\ [MCNext]_<<vars, strict>> => [Turns!Put \/ Turns!Take]_(Turns!vars)
  <2> SUFFICES ASSUME Inv, Inv', [MCNext]_<<vars, strict>>
               PROVE  [Turns!Put \/ Turns!Take]_(Turns!vars)
    OBVIOUS
  <2>1. CASE MCNext
    BY <2>1, TurnsStep
  <2>2. CASE UNCHANGED <<vars, strict>>
    BY <2>2 DEF vars, agentVars, smokerVars, Served, OnTable, Smoked, Put, Taken, Turns!vars
  <2> QED  BY <2>1, <2>2
<1> QED  BY <1>1, <1>2, <1>3, <1>4, PTL DEF MCSpec, ImplementsTurns, Turns!Spec
=============================================================================
