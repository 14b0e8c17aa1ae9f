----------------------------- MODULE FsRequests -----------------------------
(***************************************************************************)
(* The requests of VFS to the file servers, vfs/request.c of fileinfo: a    *)
(* function req_x grants the server the memory its request is about, sends *)
(* the request, and when the answer is there revokes the grants and returns. *)
(* VFS runs a function until it waits for the answer in fs_sendrec, where   *)
(* other threads run.  What the messages hold, and what a function copies   *)
(* from an answer to its caller, is outside the model.                      *)
(*                                                                         *)
(* Operators marked "mutant" are wrong versions of the definition after    *)
(* them: the specification does not use them.                              *)
(***************************************************************************)
EXTENDS Integers, Sequences, FiniteSets

CONSTANTS Thread,   \* the worker threads of VFS, and the processes they work for
          Server,   \* file servers
          Slot,     \* the grant table of VFS
          None

ASSUME FsRequestsAssumption == /\ IsFiniteSet(Thread) /\ IsFiniteSet(Slot)
                               /\ None \notin Server

VARIABLES task,    \* task[t]: the request of thread t; None between requests
          grant,   \* grant[s]: the grant in slot s
          groups,  \* the threads whose process is in several groups
          result,  \* result[t]: what the last function of t returned; None while it runs
          panicked \* "no", or what VFS has ended itself for

vars == <<task, grant, groups, result, panicked>>

-----------------------------------------------------------------------------
(* What the functions differ in: grants, the memory and the access granted *)
(* one after the other; tests, what the function panics about besides the  *)
(* grants.  Direct grants are on memory of VFS itself: its path buffers    *)
(* and, for "credentials" and "status", the stack of the thread.           *)

Grant(memory, access) == [memory |-> memory, access |-> access]
R == {"read"}
W == {"write"}
Memory == {"name", "newname", "path", "user", "directory", "credentials", "status"}
Grants == {Grant(m, a) : m \in Memory, a \in {R, W, R \cup W}}

Shape(gs, tests) == [grants |-> gs, tests |-> tests]
Plain    == {Shape(<<>>, "nothing")}
OnName   == {Shape(<<Grant("name", R)>>, "nothing")}
FillUser == {Shape(<<Grant("user", W)>>, "nothing")}

\* Reading grants the server writing, and the other way round.
ReadOrWrite(tests) == {Shape(<<Grant("user", a)>>, tests) : a \in {R, W}}

req_blockinfo  == Plain
req_breadwrite == ReadOrWrite("nothing")
req_chmod      == Plain
req_chown      == Plain
req_create     == {Shape(<<Grant("name", R)>>, "name")}
req_flush      == Plain
req_fstatfs    == FillUser
req_statvfs    == FillUser
req_ftrunc     == Plain
req_getdents   == {Shape(<<Grant(m, W)>>, "nothing") : m \in {"directory", "user"}}
req_inhibread  == Plain
req_link       == OnName

\* The second grant is for a process in several groups.
req_lookup     == {Shape(<<Grant("path", R \cup W)>>, "nothing"),
                   Shape(<<Grant("path", R \cup W), Grant("credentials", R)>>, "nothing")}
req_mkdir      == OnName
req_mknod      == OnName
req_mountpoint == Plain
req_newnode    == Plain
req_newdriver  == OnName
req_putnode    == Plain
req_rdlink     == {Shape(<<Grant(m, W)>>, "nothing") : m \in {"path", "user"}}
req_readsuper  == OnName
req_readwrite  == ReadOrWrite("position")
req_rename     == {Shape(<<Grant("name", R), Grant("newname", R)>>, "nothing")}
req_rmdir      == OnName
req_slink      == {Shape(<<Grant("name", R), Grant("user", R)>>, "nothing")}

\* The status goes to the user, or to the stack when it has to be converted.
req_stat       == FillUser \cup {Shape(<<Grant("status", W)>>, "version")}
req_sync       == Plain
req_unlink     == OnName
req_unmount    == Plain
req_utime      == Plain

Request == UNION {req_blockinfo, req_breadwrite, req_chmod, req_chown, req_create,
    req_flush, req_fstatfs, req_statvfs, req_ftrunc, req_getdents, req_inhibread,
    req_link, req_lookup, req_mkdir, req_mknod, req_mountpoint, req_newnode,
    req_newdriver, req_putnode, req_rdlink, req_readsuper, req_readwrite,
    req_rename, req_rmdir, req_slink, req_stat, req_sync, req_unlink,
    req_unmount, req_utime}

Task     == [req : Request, to : Server, ids : Seq(Slot), reply : {None, "OK", "error", "gone"}]
GrantOf  == [to : Server, by : Thread, what : Grants]

ASSUME NoneAssumption == None \notin Task /\ None \notin GrantOf

-----------------------------------------------------------------------------

Init == /\ task = [t \in Thread |-> None]
        /\ grant = [s \in Slot |-> None]
        /\ groups \in SUBSET Thread
        /\ result = [t \in Thread |-> None]
        /\ panicked = "no"

Free == {s \in Slot : grant[s] = None}

\* The slots of i grants, made in turn.
Slots(i) == {f \in [1..i -> Free] : \A j, k \in 1..i : f[j] = f[k] => j = k}

\* rfp->fp_ngroups > 0.
Matches(t, r) == r \in req_lookup => (Len(r.grants) = 2 <=> t \in groups)

\* A thread without a request calls a function.
Calls(t, r) == panicked = "no" /\ task[t] = None /\ Matches(t, r)

\* A function makes its grants, fills in the message and sends it.
Send(t, r, f) ==
    /\ Calls(t, r)
    /\ \E ids \in Slots(Len(r.grants)) :
          /\ grant' = [s \in Slot |->
                 IF \E i \in DOMAIN ids : ids[i] = s
                 THEN [to |-> f, by |-> t, what |-> r.grants[CHOOSE i \in DOMAIN ids : ids[i] = s]]
                 ELSE grant[s]]
          /\ task' = [task EXCEPT ![t] = [req |-> r, to |-> f, ids |-> ids, reply |-> None]]
    /\ result' = [result EXCEPT ![t] = None]
    /\ UNCHANGED <<groups, panicked>>

\* VFS ends itself, for want of a slot for a grant or, before any grant, because
\* a name to create begins with '/' or a position is too large.
Panic(t, r) == /\ Calls(t, r)
               /\ \/ Cardinality(Free) < Len(r.grants) /\ panicked' = "slots"
                  \/ r.tests \in {"name", "position"} /\ panicked' = r.tests
               /\ UNCHANGED <<task, grant, groups, result>>

\* fs_sendrec: the server answers, or is gone and the message is as it was sent.
Answer(t) == /\ panicked = "no" /\ task[t] # None /\ task[t].reply = None
             /\ \E a \in {"OK", "error", "gone"} : task' = [task EXCEPT ![t].reply = a]
             /\ UNCHANGED <<grant, groups, result, panicked>>

RevokedFirst(t) == {task[t].ids[i] : i \in DOMAIN task[t].ids \cap {1}}       \* mutant

RevokedOnSuccess(t) == IF task[t].reply # "OK" THEN {}                        \* mutant
                       ELSE {task[t].ids[i] : i \in DOMAIN task[t].ids}

\* req_lookup asks again whether there is a second grant.
Revoked(t) ==
    LET ids == task[t].ids
    IN  IF task[t].req \in req_lookup
        THEN {ids[i] : i \in IF t \in groups THEN DOMAIN ids ELSE {1}}
        ELSE {ids[i] : i \in DOMAIN ids}

\* The thread goes on after the answer and revokes its grants.
GoesOn(t) == /\ panicked = "no" /\ task[t] # None /\ task[t].reply # None
             /\ grant' = [s \in Slot |-> IF s \in Revoked(t) THEN None ELSE grant[s]]
             /\ task' = [task EXCEPT ![t] = None]
             /\ UNCHANGED groups

\* req_stat has a status on its stack to convert.
Converts(t) == task[t].req.tests = "version" /\ task[t].reply = "OK"

\* The function returns.  sys_vircopy of a converted status may fail.
Return(t) == /\ GoesOn(t)
             /\ \E r \in {task[t].reply} \cup (IF Converts(t) THEN {"error"} ELSE {}) :
                   result' = [result EXCEPT ![t] = r]
             /\ UNCHANGED panicked

\* The caller of req_stat asked for a version of struct stat that there is not.
AssertFails(t) == /\ GoesOn(t) /\ Converts(t)
                  /\ panicked' = "version"
                  /\ UNCHANGED result

\* setgroups of a process: it does not make another call of VFS meanwhile.
SetGroups(t) == /\ panicked = "no" /\ task[t] = None
                /\ groups' \in {groups \cup {t}, groups \ {t}}
                /\ UNCHANGED <<task, grant, result, panicked>>

Next == \E t \in Thread :
           \/ \E r \in Request, f \in Server : Send(t, r, f)
           \/ \E r \in Request : Panic(t, r)
           \/ Answer(t) \/ Return(t) \/ AssertFails(t) \/ SetGroups(t)

Spec == Init /\ [][Next]_vars

-----------------------------------------------------------------------------
(* Properties *)

Held(t) == {s \in Slot : grant[s] # None /\ grant[s].by = t}

\* Every variable stays in the domain the code gives it.
TypeOK == /\ task \in [Thread -> Task \cup {None}]
          /\ grant \in [Slot -> GrantOf \cup {None}]
          /\ groups \subseteq Thread
          /\ result \in [Thread -> {None, "OK", "error", "gone"}]
          /\ panicked \in {"no", "slots", "name", "position", "version"}

\* A server can touch memory through a grant only while the request the grant
\* was made for is with it: no grant outlives its request, whose paths and
\* stack VFS uses for something else then, and none is revoked before.
GrantsOfRequests ==
    \A t \in Thread :
        /\ task[t] = None => Held(t) = {}
        /\ task[t] # None =>
              /\ Held(t) = {task[t].ids[i] : i \in DOMAIN task[t].ids}
              /\ \A i \in DOMAIN task[t].ids :
                    grant[task[t].ids[i]] = [to |-> task[t].to, by |-> t,
                                             what |-> task[t].req.grants[i]]

\* VFS panics for want of a slot only while the slots are held by requests of
\* other threads, two by each: no function leaves a grant behind on any path.
Busy == {t \in Thread : task[t] # None}
PanicsOnlyWhenHeld ==
    panicked = "slots" =>
        \E t \in Thread : /\ task[t] = None
                          /\ Cardinality(Slot) <= 2 * Cardinality(Busy) + 1
=============================================================================
