-------------------------- MODULE FsRequests_proofs -------------------------
(***************************************************************************)
(* Proofs about FsRequests for every number of threads, servers and slots. *)
(***************************************************************************)
EXTENDS FsRequests, FiniteSetTheorems, FunctionTheorems, TLAPS

\* Every function of request.c makes two grants at most.
LEMMA RequestGrants ==
    ASSUME NEW r \in Request
    PROVE  r.grants \in Seq(Grants) /\ Len(r.grants) \in 0..2
<1> DEFINE Good(x) == x.grants \in Seq(Grants) /\ Len(x.grants) \in 0..2
<1>0. \A m \in Memory : /\ Grant(m, R) \in Grants /\ Grant(m, W) \in Grants
                        /\ Grant(m, R \cup W) \in Grants
  BY DEF Grants
<1>1. \A c : /\ Good(Shape(<<>>, c))
             /\ \A g \in Grants : Good(Shape(<<g>>, c))
             /\ \A g, h \in Grants : Good(Shape(<<g, h>>, c))
  BY DEF Shape
<1> HIDE DEF Good
<1>2. \A x \in Plain : Good(x)
  BY <1>0, <1>1 DEF Plain
<1>3. \A x \in OnName : Good(x)
  BY <1>0, <1>1 DEF OnName, Memory
<1>4. \A x \in FillUser : Good(x)
  BY <1>0, <1>1 DEF FillUser, Memory
<1>5. \A x \in req_breadwrite \cup req_readwrite : Good(x)
  BY <1>0, <1>1 DEF req_breadwrite, req_readwrite, ReadOrWrite, Memory
<1>6. \A x \in req_create : Good(x)
  BY <1>0, <1>1 DEF req_create, Memory
<1>7. \A x \in req_getdents \cup req_rdlink : Good(x)
  BY <1>0, <1>1 DEF req_getdents, req_rdlink, Memory
<1>8. \A x \in req_lookup : Good(x)
  BY <1>0, <1>1 DEF req_lookup, Memory
<1>9. \A x \in req_rename \cup req_slink : Good(x)
  BY <1>0, <1>1 DEF req_rename, req_slink, Memory
<1>10. \A x \in req_stat : Good(x)
  BY <1>0, <1>1, <1>4 DEF req_stat, Memory
<1>11. Good(r)
  BY <1>2, <1>3, <1>4, <1>5, <1>6, <1>7, <1>8, <1>9, <1>10
     DEF Request, req_blockinfo, req_chmod, req_chown, req_flush, req_fstatfs, req_statvfs,
     req_ftrunc, req_inhibread, req_link, req_mkdir, req_mknod, req_mountpoint, req_newnode,
     req_newdriver, req_putnode, req_readsuper, req_rmdir, req_sync, req_unlink, req_unmount,
     req_utime
<1> QED  BY <1>11 DEF Good

-----------------------------------------------------------------------------

\* The request of a thread asks for what its process is now, and its grants are
\* in as many slots.
RequestsFit ==
    \A t \in Thread : task[t] # None =>
        /\ Matches(t, task[t].req)
        /\ Len(task[t].ids) = Len(task[t].req.grants)
        /\ \A i, j \in DOMAIN task[t].ids : task[t].ids[i] = task[t].ids[j] => i = j

IInv == TypeOK /\ RequestsFit /\ GrantsOfRequests

\* Every grant a function made is revoked by it: its process has not changed its
\* groups since.
LEMMA RevokedAll ==
    ASSUME IInv, NEW t \in Thread, task[t] # None
    PROVE  Revoked(t) = Held(t)
<1> DEFINE k == task[t]
<1>1. k \in Task /\ k.req \in Request /\ Len(k.ids) = Len(k.req.grants) /\ k.ids \in Seq(Slot)
  BY DEF IInv, TypeOK, RequestsFit, Task
<1>2. Held(t) = {k.ids[i] : i \in DOMAIN k.ids}
  BY DEF IInv, GrantsOfRequests
<1>3. CASE k.req \notin req_lookup
  BY <1>2, <1>3 DEF Revoked
<1>4. CASE k.req \in req_lookup
  <2>1. Len(k.req.grants) = 2 <=> t \in groups
    BY <1>4 DEF IInv, RequestsFit, Matches
  <2>2. Len(k.req.grants) \in {1, 2}
    BY <1>4 DEF req_lookup, Shape
  <2>3. t \notin groups => DOMAIN k.ids = {1}
    BY <1>1, <2>1, <2>2
  <2> QED  BY <1>2, <1>4, <2>3 DEF Revoked
<1> QED  BY <1>3, <1>4

\* The invariant holds before the first request.
LEMMA InitOk == Init => IInv
<1> SUFFICES ASSUME Init PROVE IInv
  OBVIOUS
<1>1. TypeOK
  BY DEF Init, TypeOK
<1>2. RequestsFit
  BY DEF Init, RequestsFit
<1>3. GrantsOfRequests
  BY DEF Init, GrantsOfRequests, Held
<1> QED  BY <1>1, <1>2, <1>3 DEF IInv

\* A request that is sent makes its grants in free slots, and disturbs no other.
LEMMA SendOk ==
    ASSUME IInv, NEW t \in Thread, NEW r \in Request, NEW f \in Server, Send(t, r, f)
    PROVE  IInv'
<1> DEFINE n == Len(r.grants)
<1>0. n \in 0..2 /\ r.grants \in Seq(Grants)
  BY RequestGrants
<1>1. PICK ids \in Slots(n) :
          /\ grant' = [s \in Slot |->
                 IF \E i \in DOMAIN ids : ids[i] = s
                 THEN [to |-> f, by |-> t, what |-> r.grants[CHOOSE i \in DOMAIN ids : ids[i] = s]]
                 ELSE grant[s]]
          /\ task' = [task EXCEPT ![t] = [req |-> r, to |-> f, ids |-> ids, reply |-> None]]
  BY DEF Send
<1>2. /\ ids \in [1..n -> Free] /\ Free \subseteq Slot /\ \A s \in Free : grant[s] = None
      /\ \A j, k \in 1..n : ids[j] = ids[k] => j = k
  BY <1>1 DEF Slots, Free
<1>3. ids \in Seq(Slot) /\ Len(ids) = n /\ DOMAIN ids = 1..n
  BY <1>0, <1>2
<1>4. /\ TypeOK /\ groups' = groups /\ panicked' = panicked /\ Matches(t, r)
      /\ task[t] = None
  BY DEF IInv, Send, Calls
<1> DEFINE k == [req |-> r, to |-> f, ids |-> ids, reply |-> None]
<1>5. k \in Task /\ k # None /\ task'[t] = k /\ \A u \in Thread \ {t} : task'[u] = task[u]
  BY <1>1, <1>3, <1>4, NoneAssumption DEF Task, TypeOK
<1>6. \A i \in 1..n : grant'[ids[i]] = [to |-> f, by |-> t, what |-> r.grants[i]]
  <2> SUFFICES ASSUME NEW i \in 1..n
               PROVE  grant'[ids[i]] = [to |-> f, by |-> t, what |-> r.grants[i]]
    OBVIOUS
  <2>1. (CHOOSE j \in DOMAIN ids : ids[j] = ids[i]) = i
    BY <1>2, <1>3
  <2> QED  BY <1>1, <1>2, <1>3, <2>1
<1>7. \A s \in Slot : s \notin {ids[i] : i \in 1..n} => grant'[s] = grant[s]
  BY <1>1, <1>3
<1>8. \A i \in 1..n : [to |-> f, by |-> t, what |-> r.grants[i]] \in GrantOf
  BY <1>0 DEF GrantOf
<1>9. TypeOK'
  <2>1. task' \in [Thread -> Task \cup {None}]
    BY <1>1, <1>4, <1>5 DEF TypeOK
  <2>2. \A i \in 1..n : grant'[ids[i]] \in GrantOf
    BY <1>6, <1>8
  <2>3. \A s \in Slot : grant[s] \in GrantOf \cup {None}
    BY <1>4 DEF TypeOK
  <2> HIDE DEF k, n
  <2>4. \A s \in Slot : grant'[s] \in GrantOf \cup {None}
    BY <1>7, <2>2, <2>3
  <2>5. grant' \in [Slot -> GrantOf \cup {None}]
    BY <1>1, <2>4
  <2>6. result' \in [Thread -> {None, "OK", "error", "gone"}]
    BY <1>4 DEF Send, TypeOK
  <2> QED  BY <1>4, <2>1, <2>5, <2>6 DEF TypeOK
<1>10. RequestsFit'
  <2>1. \A u \in Thread : \A q : Matches(u, q)' <=> Matches(u, q)
    BY <1>4 DEF Matches
  <2>2. k.req = r /\ k.ids = ids
    OBVIOUS
  <2> HIDE DEF k
  <2> SUFFICES ASSUME NEW u \in Thread, task'[u] # None
               PROVE  /\ Matches(u, task'[u].req)
                      /\ Len(task'[u].ids) = Len(task'[u].req.grants)
                      /\ \A i, j \in DOMAIN task'[u].ids : task'[u].ids[i] = task'[u].ids[j] => i = j
    BY <2>1 DEF RequestsFit
  <2>3. CASE u = t
    BY <1>2, <1>3, <1>4, <1>5, <2>2, <2>3
  <2>4. CASE u # t
    BY <1>5, <2>4 DEF IInv, RequestsFit
  <2> QED  BY <2>3, <2>4
<1>11. GrantsOfRequests'
  <2> DEFINE Mine == {ids[i] : i \in 1..n}
  <2>1. k.req = r /\ k.ids = ids /\ k.to = f
    OBVIOUS
  <2>2. \A i \in 1..n : grant'[ids[i]] # None /\ grant'[ids[i]].by = t
    <3>1. \A i \in 1..n : grant'[ids[i]] \in GrantOf
      BY <1>6, <1>8
    <3>2. ASSUME NEW i \in 1..n PROVE grant'[ids[i]].by = t
      <4>1. grant'[ids[i]] = [to |-> f, by |-> t, what |-> r.grants[i]]
        BY <1>6
      <4> QED  BY <4>1
    <3> QED  BY <3>1, <3>2, NoneAssumption
  <2>3. \A u \in Thread : Held(u) \cap Mine = {}
    BY <1>2 DEF Held
  <2>4. Held(t) = {}
    BY <1>4 DEF IInv, GrantsOfRequests
  <2>5. Held(t)' = Mine
    BY <1>2, <1>7, <2>2, <2>4 DEF Held
  <2>6. \A u \in Thread \ {t} : Held(u)' = Held(u)
    BY <1>2, <1>7, <2>2, <2>3 DEF Held
  <2> HIDE DEF k, Mine
  <2> SUFFICES ASSUME NEW u \in Thread
               PROVE /\ task'[u] = None => Held(u)' = {}
                     /\ task'[u] # None =>
                           /\ Held(u)' = {task'[u].ids[i] : i \in DOMAIN task'[u].ids}
                           /\ \A i \in DOMAIN task'[u].ids :
                                 grant'[task'[u].ids[i]] = [to |-> task'[u].to, by |-> u,
                                                            what |-> task'[u].req.grants[i]]
    BY DEF GrantsOfRequests
  <2>7. CASE u = t
    BY <1>3, <1>5, <1>6, <2>1, <2>5, <2>7 DEF Mine
  <2>8. CASE u # t
    <3>1. task'[u] = task[u] /\ Held(u)' = Held(u)
      BY <1>5, <2>6, <2>8
    <3>2. \A s \in Held(u) : grant'[s] = grant[s]
      BY <1>7, <2>3 DEF Mine, Held
    <3> QED  BY <3>1, <3>2 DEF IInv, GrantsOfRequests
  <2> QED  BY <2>7, <2>8
<1> QED  BY <1>9, <1>10, <1>11 DEF IInv

\* An answer changes nothing but the reply of its request.
LEMMA AnswerOk ==
    ASSUME IInv, NEW t \in Thread, Answer(t)
    PROVE  IInv'
<1>1. PICK a \in {"OK", "error", "gone"} : task' = [task EXCEPT ![t].reply = a]
  BY DEF Answer
<1>2. TypeOK /\ UNCHANGED <<grant, groups, result, panicked>> /\ task[t] # None /\ task[t] \in Task
  BY DEF IInv, Answer, TypeOK
<1>3. [task[t] EXCEPT !.reply = a] \in Task
  BY <1>2 DEF Task
<1>4. /\ task'[t] \in Task /\ task'[t] # None /\ task'[t].req = task[t].req
      /\ task'[t].ids = task[t].ids /\ task'[t].to = task[t].to
  BY <1>1, <1>2, <1>3, NoneAssumption DEF TypeOK, Task
<1>5. \A u \in Thread \ {t} : task'[u] = task[u]
  BY <1>1, <1>2 DEF TypeOK
<1>6. TypeOK'
  BY <1>1, <1>2, <1>3 DEF TypeOK
<1>7. RequestsFit'
  BY <1>2, <1>4, <1>5 DEF IInv, RequestsFit, Matches
<1>8. GrantsOfRequests'
  <2>1. \A u \in Thread : Held(u)' = Held(u)
    BY <1>2 DEF Held
  <2> QED  BY <1>2, <1>4, <1>5, <2>1 DEF IInv, GrantsOfRequests
<1> QED  BY <1>6, <1>7, <1>8 DEF IInv

\* A function that returns or ends VFS has left no grant of its own and taken no
\* other's.
LEMMA ReturnOk ==
    ASSUME IInv, NEW t \in Thread, Return(t) \/ AssertFails(t)
    PROVE  IInv'
<1>1. /\ TypeOK /\ task[t] # None /\ groups' = groups
      /\ task' = [task EXCEPT ![t] = None]
      /\ grant' = [s \in Slot |-> IF s \in Held(t) THEN None ELSE grant[s]]
  BY RevokedAll DEF IInv, Return, AssertFails, GoesOn
<1>2. task'[t] = None /\ \A u \in Thread \ {t} : task'[u] = task[u]
  BY <1>1 DEF TypeOK
<1>3. TypeOK'
  <2>1. task[t] \in Task /\ task[t].reply # None
    BY <1>1 DEF Return, AssertFails, GoesOn, TypeOK
  <2>2. task[t].reply \in {"OK", "error", "gone"}
    BY <2>1 DEF Task
  <2>3. result' \in [Thread -> {None, "OK", "error", "gone"}]
    BY <1>1, <2>2 DEF Return, AssertFails, TypeOK
  <2>4. panicked' \in {"no", "slots", "name", "position", "version"}
    BY <1>1 DEF Return, AssertFails, TypeOK
  <2> QED  BY <1>1, <2>3, <2>4 DEF TypeOK
<1>4. RequestsFit'
  BY <1>1, <1>2 DEF IInv, RequestsFit, Matches
<1>5. Held(t)' = {} /\ \A u \in Thread \ {t} : Held(u)' = Held(u)
  BY <1>1 DEF Held
<1>6. \A u \in Thread \ {t} : \A s \in Held(u) : grant'[s] = grant[s]
  BY <1>1 DEF Held
<1>7. GrantsOfRequests'
  <2> SUFFICES ASSUME NEW u \in Thread
               PROVE /\ task'[u] = None => Held(u)' = {}
                     /\ task'[u] # None =>
                           /\ Held(u)' = {task'[u].ids[i] : i \in DOMAIN task'[u].ids}
                           /\ \A i \in DOMAIN task'[u].ids :
                                 grant'[task'[u].ids[i]] = [to |-> task'[u].to, by |-> u,
                                                            what |-> task'[u].req.grants[i]]
    BY DEF GrantsOfRequests
  <2>1. CASE u = t
    BY <1>2, <1>5, <2>1
  <2>2. CASE u # t
    BY <1>2, <1>5, <1>6, <2>2 DEF IInv, GrantsOfRequests
  <2> QED  BY <2>1, <2>2
<1> QED  BY <1>3, <1>4, <1>7 DEF IInv

\* A process between two calls has no request that could ask for its groups.
LEMMA GroupsOk ==
    ASSUME IInv, NEW t \in Thread, SetGroups(t)
    PROVE  IInv'
<1>1. /\ TypeOK /\ task[t] = None /\ UNCHANGED <<task, grant, result, panicked>>
      /\ groups' \in {groups \cup {t}, groups \ {t}}
  BY DEF IInv, SetGroups
<1>2. TypeOK'
  BY <1>1 DEF TypeOK
<1>3. RequestsFit'
  BY <1>1 DEF IInv, RequestsFit, Matches
<1>4. GrantsOfRequests'
  BY <1>1 DEF IInv, GrantsOfRequests, Held
<1> QED  BY <1>2, <1>3, <1>4 DEF IInv

\* The panic stops VFS and changes nothing else.
LEMMA PanicOk ==
    ASSUME IInv, NEW t \in Thread, NEW r \in Request, Panic(t, r)
    PROVE  IInv'
<1>1. /\ TypeOK /\ UNCHANGED <<task, grant, groups, result>>
      /\ panicked' \in {"slots", "name", "position"}
  BY DEF IInv, Panic
<1>2. TypeOK'
  BY <1>1 DEF TypeOK
<1>3. RequestsFit'
  BY <1>1 DEF IInv, RequestsFit, Matches
<1>4. GrantsOfRequests'
  BY <1>1 DEF IInv, GrantsOfRequests, Held
<1> QED  BY <1>2, <1>3, <1>4 DEF IInv

\* IInv is inductive.
LEMMA StepOk == IInv /\ [Next]_vars => IInv'
<1> SUFFICES ASSUME IInv, [Next]_vars PROVE IInv'
  OBVIOUS
<1>1. ASSUME NEW t \in Thread, NEW r \in Request, NEW f \in Server, Send(t, r, f) PROVE IInv'
  BY <1>1, SendOk
<1>2. ASSUME NEW t \in Thread, NEW r \in Request, Panic(t, r) PROVE IInv'
  BY <1>2, PanicOk
<1>3. ASSUME NEW t \in Thread, Answer(t) PROVE IInv'
  BY <1>3, AnswerOk
<1>4. ASSUME NEW t \in Thread, Return(t) \/ AssertFails(t) PROVE IInv'
  BY <1>4, ReturnOk
<1>5. ASSUME NEW t \in Thread, SetGroups(t) PROVE IInv'
  BY <1>5, GroupsOk
<1>6. CASE UNCHANGED vars
  <2>1. TypeOK'
    BY <1>6 DEF vars, IInv, TypeOK
  <2>2. RequestsFit'
    BY <1>6 DEF vars, IInv, RequestsFit, Matches
  <2>3. GrantsOfRequests'
    BY <1>6 DEF vars, IInv, GrantsOfRequests, Held
  <2> QED  BY <2>1, <2>2, <2>3 DEF IInv
<1> QED  BY <1>1, <1>2, <1>3, <1>4, <1>5, <1>6 DEF Next

\* All slots but the free ones are held by threads with a request, two by each at
\* most.
LEMMA UsedSlots ==
    ASSUME IInv
    PROVE  Cardinality(Slot) <= Cardinality(Free) + 2 * Cardinality(Busy)
<1> DEFINE Used == Slot \ Free
           Pairs == Busy \X (1..2)
           At(s) == CHOOSE i \in 1..2 : i \in DOMAIN task[grant[s].by].ids
                                       /\ task[grant[s].by].ids[i] = s
           place == [s \in Used |-> <<grant[s].by, At(s)>>]
<1>1. ASSUME NEW s \in Used
      PROVE  /\ grant[s].by \in Busy /\ At(s) \in 1..2
             /\ task[grant[s].by].ids[At(s)] = s
  <2>1. grant[s] # None /\ grant[s] \in GrantOf
    BY <1>1 DEF Free, IInv, TypeOK
  <2>2. grant[s].by \in Thread /\ s \in Held(grant[s].by)
    BY <1>1, <2>1 DEF GrantOf, Held
  <2> DEFINE u == grant[s].by
  <2>3. u \in Busy /\ task[u] # None /\ task[u] \in Task
    BY <2>2 DEF IInv, GrantsOfRequests, TypeOK, Busy
  <2>4. /\ Len(task[u].ids) \in 0..2 /\ task[u].ids \in Seq(Slot)
    BY <2>2, <2>3, RequestGrants DEF IInv, RequestsFit, Task
  <2>5. DOMAIN task[u].ids \subseteq 1..2
    BY <2>4
  <2>6. \E i \in 1..2 : i \in DOMAIN task[u].ids /\ task[u].ids[i] = s
    BY <2>2, <2>3, <2>5 DEF IInv, GrantsOfRequests
  <2> QED  BY <2>2, <2>3, <2>6
<1> HIDE DEF At
<1>2. place \in [Used -> Pairs]
  BY <1>1
<1>3. ASSUME NEW s1 \in Used, NEW s2 \in Used, place[s1] = place[s2]
      PROVE  s1 = s2
  BY <1>1, <1>3
<1>4. place \in Injection(Used, Pairs)
  BY <1>2, <1>3 DEF Injection, IsInjective
<1> HIDE DEF place
<1>5. IsFiniteSet(Busy) /\ Cardinality(Busy) \in Nat
  BY FsRequestsAssumption, FS_Subset, FS_CardinalityType DEF Busy
<1>6. IsFiniteSet(1..2) /\ Cardinality(1..2) = 2
  <2>1. IsFiniteSet(1..2) /\ Cardinality(1..2) = IF 1 > 2 THEN 0 ELSE 2 - 1 + 1
    <3>1. 1 \in Int /\ 2 \in Int
      OBVIOUS
    <3> QED  BY <3>1, FS_Interval, Zenon
  <2> QED  BY <2>1
<1>7. IsFiniteSet(Pairs) /\ Cardinality(Pairs) = Cardinality(Busy) * 2
  BY <1>5, <1>6, FS_Product
<1> HIDE DEF Pairs
<1>8. Cardinality(Used) <= Cardinality(Pairs)
  BY <1>4, <1>7, FS_Injection
<1>9. Free \subseteq Slot /\ IsFiniteSet(Free) /\ Cardinality(Free) \in Nat
  BY FsRequestsAssumption, FS_Subset, FS_CardinalityType DEF Free
<1>10. Cardinality(Used) = Cardinality(Slot) - Cardinality(Free)
  <2>1. Slot \cap Free = Free
    BY <1>9
  <2> QED  BY <2>1, FsRequestsAssumption, FS_Difference
<1>11. Cardinality(Slot) \in Nat
  BY FsRequestsAssumption, FS_CardinalityType
<1> QED  BY <1>5, <1>7, <1>8, <1>9, <1>10, <1>11

\* The thread that panics has no request, and another one than held would do.
LEMMA PanicStep ==
    IInv /\ PanicsOnlyWhenHeld /\ [Next]_vars => PanicsOnlyWhenHeld'
<1> SUFFICES ASSUME IInv, PanicsOnlyWhenHeld, [Next]_vars, panicked' = "slots"
             PROVE  PanicsOnlyWhenHeld'
  BY DEF PanicsOnlyWhenHeld
<1>1. CASE panicked = "slots"
  <2>1. task' = task
    BY <1>1 DEF Next, vars, Send, Calls, Panic, Answer, Return, AssertFails, GoesOn, SetGroups
  <2> QED  BY <1>1, <2>1 DEF PanicsOnlyWhenHeld, Busy
<1>2. CASE panicked # "slots"
  <2>1. PICK t \in Thread, r \in Request : Panic(t, r)
    BY <1>2 DEF Next, vars, Send, Answer, Return, AssertFails, SetGroups
  <2>2. Cardinality(Free) < Len(r.grants) /\ task[t] = None /\ task' = task
    BY <2>1 DEF Panic, Calls
  <2>3. Cardinality(Slot) <= Cardinality(Free) + 2 * Cardinality(Busy)
    BY UsedSlots
  <2>4. /\ Cardinality(Free) \in Nat /\ Cardinality(Busy) \in Nat
        /\ Cardinality(Slot) \in Nat
    BY FsRequestsAssumption, FS_Subset, FS_CardinalityType DEF Free, Busy
  <2>5. PICK m \in 0..2 : m = Len(r.grants)
    BY RequestGrants
  <2>6. Cardinality(Slot) <= 2 * Cardinality(Busy) + 1
    <3>1. Cardinality(Free) < m
      BY <2>2, <2>5
    <3> QED  BY <3>1, <2>3, <2>4
  <2>7. Busy' = Busy
    BY <2>2 DEF Busy
  <2> QED  BY <2>2, <2>6, <2>7 DEF PanicsOnlyWhenHeld
<1> QED  BY <1>1, <1>2

\* IInv holds of every behaviour.
LEMMA Invariant == Spec => []IInv
BY InitOk, StepOk, PTL DEF Spec

\* Every variable stays in the domain the code gives it (TypeOK).
THEOREM TypeCorrect == Spec => []TypeOK
<1>1. IInv => TypeOK
  BY DEF IInv
<1> QED  BY <1>1, Invariant, PTL

\* No grant outlives its request and none is revoked before (GrantsOfRequests).
THEOREM GrantsOutliveNothing == Spec => []GrantsOfRequests
<1>1. IInv => GrantsOfRequests
  BY DEF IInv
<1> QED  BY <1>1, Invariant, PTL

\* When VFS panics for want of a slot, live requests hold the slots
\* (PanicsOnlyWhenHeld).
THEOREM NothingLeftBehind == Spec => []PanicsOnlyWhenHeld
<1>1. Init => PanicsOnlyWhenHeld
  BY DEF Init, PanicsOnlyWhenHeld
<1> QED  BY <1>1, PanicStep, Invariant, PTL DEF Spec

\* With two slots for every thread VFS never panics for want of a slot.
THEOREM SlotsSuffice ==
    Spec => [](Cardinality(Slot) >= 2 * Cardinality(Thread) => panicked # "slots")
<1>1. PanicsOnlyWhenHeld => (Cardinality(Slot) >= 2 * Cardinality(Thread) => panicked # "slots")
  <2> SUFFICES ASSUME PanicsOnlyWhenHeld, panicked = "slots"
               PROVE  ~(Cardinality(Slot) >= 2 * Cardinality(Thread))
    OBVIOUS
  <2>1. PICK t \in Thread : /\ task[t] = None
                            /\ Cardinality(Slot) <= 2 * Cardinality(Busy) + 1
    BY DEF PanicsOnlyWhenHeld
  <2>2. /\ IsFiniteSet(Thread \ {t})
        /\ Cardinality(Thread \ {t}) = Cardinality(Thread) - 1
    BY FsRequestsAssumption, FS_RemoveElement
  <2>3. Busy \subseteq Thread \ {t}
    BY <2>1 DEF Busy
  <2>4. Cardinality(Busy) <= Cardinality(Thread) - 1
    BY <2>2, <2>3, FS_Subset
  <2>5. /\ Cardinality(Busy) \in Nat /\ Cardinality(Thread) \in Nat
        /\ Cardinality(Slot) \in Nat
    BY <2>2, <2>3, FsRequestsAssumption, FS_Subset, FS_CardinalityType
  <2> QED  BY <2>1, <2>4, <2>5
<1> QED  BY <1>1, NothingLeftBehind, PTL
=============================================================================
