------------------------------ MODULE FileInfo ------------------------------
(***************************************************************************)
(* fileinfo: the tool and its library (stat, FILEINFO, BLOCKINFO), the two *)
(* handlers in VFS (do_fileinfo, do_blockinfo) and the one in MFS            *)
(* (fs_blockinfo), while other processes open, share, close and remove the *)
(* files.  do_fileinfo runs in one piece; do_blockinfo waits for MFS twice, *)
(* in eat_path and in req_blockinfo, and other processes go on meanwhile.   *)
(*                                                                         *)
(* Operators marked "mutant" are wrong versions of the definition after    *)
(* them: the specification does not use them.                              *)
(***************************************************************************)
EXTENDS Integers, FiniteSets, FiniteSetsExt

CONSTANTS Proc,      \* the processes beside the one that runs the tool
          Inode,     \* the files, each an inode of a device: dev and nr
          NFilps,    \* NR_FILPS
          Room,      \* how many process numbers fit in pids
          MaxCalls,  \* how often the tool is run
          None

\* What is assumed of the constants.
FileInfoAssumption == /\ NFilps \in Nat \ {0} /\ Room \in Nat /\ MaxCalls \in Nat
                      /\ IsFiniteSet(Proc) /\ None \notin Inode

VARIABLES filp,    \* filp[f]: the inode of filp_vno; None where it is NULL
          fds,     \* fds[p]: the filps process p has open
          named,   \* the inodes that have a name
          table,   \* the inodes MFS has in its table, of which VFS has a vnode
          at,      \* where the tool and the handlers it calls are
          ino,     \* the inode they are about
          pids,    \* what the tool prints as PID
          vnode,   \* vp of do_blockinfo while it has a reference
          locked,  \* the inodes whose vnode and mount eat_path has locked for reading
          taken,   \* the mounts some call has to itself
          calls

vars == <<filp, fds, named, table, at, ino, pids, vnode, locked, taken, calls>>
files == <<filp, fds, named, table>>

Filp  == 1..NFilps
Mount == {i.dev : i \in Inode}

Init == /\ filp = [f \in Filp |-> None]
        /\ fds = [p \in Proc |-> {}]
        /\ named = Inode /\ table = {}
        /\ at = "run" /\ ino = None /\ pids = {} /\ vnode = None
        /\ locked = {} /\ taken = {} /\ calls = 0

Up == at # "down"

-----------------------------------------------------------------------------
(* The other processes.  Their calls lock a vnode they open or close in a   *)
(* way that goes with readers.                                              *)

\* put_vnode.  The last reference to i goes when no filp and no call uses it:
\* VFS then waits until nobody reads the vnode, and lets go of the inode.
PutNode(i, fl, vn) ==
    IF vn = i \/ \E f \in Filp : fl[f] = i THEN table' = table
    ELSE i \notin locked /\ table' = table \ {i}

Open(p, i) == /\ Up /\ i \in named
              /\ \E f \in Filp : filp[f] = None
              /\ LET f == Min({g \in Filp : filp[g] = None})
                 IN  /\ filp' = [filp EXCEPT ![f] = i]
                     /\ fds' = [fds EXCEPT ![p] = @ \cup {f}]
              /\ table' = table \cup {i}
              /\ UNCHANGED <<named, at, ino, pids, vnode, locked, taken, calls>>

\* A child shares the filps of its parent.
Fork(p, c) == /\ Up /\ fds[c] = {} /\ fds[p] # {}
              /\ fds' = [fds EXCEPT ![c] = fds[p]]
              /\ UNCHANGED <<filp, named, table, at, ino, pids, vnode, locked, taken, calls>>

Close(p, f) == /\ Up /\ f \in fds[p]
               /\ fds' = [fds EXCEPT ![p] = @ \ {f}]
               /\ filp' = IF \E q \in Proc \ {p} : f \in fds[q] THEN filp
                          ELSE [filp EXCEPT ![f] = None]
               /\ PutNode(filp[f], filp', vnode)
               /\ UNCHANGED <<named, at, ino, pids, vnode, locked, taken, calls>>

Remove(i) == /\ Up /\ i \in named
             /\ named' = named \ {i}
             /\ UNCHANGED <<filp, fds, table, at, ino, pids, vnode, locked, taken, calls>>

\* A call that needs a mount to itself gets it when nobody reads it.
TakeMount(m) == /\ Up /\ m \notin taken
                /\ \A i \in locked : i.dev # m
                /\ taken' = taken \cup {m}
                /\ UNCHANGED <<files, at, ino, pids, vnode, locked, calls>>

LeaveMount(m) == /\ Up /\ m \in taken
                 /\ taken' = taken \ {m}
                 /\ UNCHANGED <<files, at, ino, pids, vnode, locked, calls>>

Others == \/ \E p \in Proc : \/ \E i \in Inode : Open(p, i)
                             \/ \E c \in Proc \ {p} : Fork(p, c)
                             \/ \E f \in Filp : Close(p, f)
          \/ \E i \in Inode : Remove(i)
          \/ \E m \in Mount : TakeMount(m) \/ LeaveMount(m)

-----------------------------------------------------------------------------
(* fileinfo *)

\* stat of the name; for a file that is not there the tool ends.
Stat(i) == /\ at = "run" /\ calls < MaxCalls
           /\ calls' = calls + 1
           /\ ino' = i /\ pids' = {}
           /\ at' = IF i \in named THEN "list" ELSE "run"
           /\ UNCHANGED <<files, vnode, locked, taken>>

\* do_fileinfo is given the number and not the device.
Matching == {f \in Filp : filp[f] # None /\ filp[f].nr = ino.nr}

HoldersOfNext(f) == {p \in Proc : f + 1 \in fds[p]}                    \* mutant

Holders(f) == {p \in Proc : f \in fds[p]}

\* The filps the loop of do_fileinfo comes to.
Visited == {f \in Filp : \A g \in Matching : f <= g}

Listed == IF Matching = {} THEN {} ELSE Holders(Min(Matching))

\* A free filp has no vnode: what VFS reads through NULL may end it, be another
\* number, or be this inode's number, which ends the loop; no process has it open.
DoFileinfo ==
    /\ at = "list"
    /\ \/ /\ pids' = Listed
          /\ at' = IF Cardinality(Listed) > Room THEN "down" ELSE "listed"
       \/ /\ \E f \in Visited : filp[f] = None
          /\ pids' = {} /\ at' \in {"listed", "down"}
    /\ UNCHANGED <<files, ino, vnode, locked, taken, calls>>

EatPathPut == /\ at = "listed" /\ ino.dev \notin taken                 \* mutant
              /\ IF ino \in named
                 THEN locked' = locked \cup {ino} /\ at' = "request"
                 ELSE at' = "run" /\ UNCHANGED locked
              /\ UNCHANGED <<filp, fds, named, table, vnode, ino, pids, taken, calls>>

\* do_blockinfo up to the request: eat_path takes the two read locks it is told
\* to take and gives the vnode of the name, or none.
EatPath == /\ at = "listed" /\ ino.dev \notin taken
           /\ IF ino \in named
              THEN /\ vnode' = ino /\ table' = table \cup {ino}
                   /\ locked' = locked \cup {ino} /\ at' = "request"
              ELSE /\ at' = "run" /\ UNCHANGED <<vnode, table, locked>>
           /\ UNCHANGED <<filp, fds, named, ino, pids, taken, calls>>

\* find_inode has no inode to give when it is not in the table of MFS.
FsBlockinfo == /\ at = "request"
               /\ at' = IF ino \in table THEN "answer" ELSE "down"
               /\ UNCHANGED <<files, ino, pids, vnode, locked, taken, calls>>

\* put_vnode is all that follows: the locks eat_path has taken stay.  Where
\* nobody has the file open it waits for the reader do_blockinfo itself is.
PutVnode == /\ at = "answer"
            /\ PutNode(ino, filp, None)
            /\ vnode' = None /\ at' = "run"
            /\ UNCHANGED <<filp, fds, named, ino, pids, locked, taken, calls>>

Tool == \/ \E i \in Inode : Stat(i)
        \/ DoFileinfo \/ EatPath \/ FsBlockinfo \/ PutVnode

Next == Others \/ Tool
Spec == Init /\ [][Next]_vars

-----------------------------------------------------------------------------
(* Properties *)

\* Every variable stays in the domain the code gives it, and VFS keeps every
\* filp that some process has open.
TypeOK == /\ filp \in [Filp -> Inode \cup {None}]
          /\ fds \in [Proc -> SUBSET {f \in Filp : filp[f] # None}]
          /\ named \subseteq Inode /\ table \subseteq Inode
          /\ at \in {"run", "list", "listed", "request", "answer", "down"}
          /\ ino \in Inode \cup {None} /\ pids \subseteq Proc
          /\ vnode \in {None, ino} /\ locked \subseteq Inode /\ calls \in 0..MaxCalls
          /\ taken \subseteq Mount

\* Whoever the tool lists has a file with that inode number open, of whichever
\* device, and processes are only listed together when one has inherited the
\* open file from the other.
ListsOneOpening ==
    [][at = "list" /\ at' = "listed" =>
          \E f \in Filp : \A p \in pids' : f \in fds[p] /\ filp[f].nr = ino.nr]_vars

\* fs_blockinfo finds the inode in the table of MFS and not a null pointer,
\* whoever removes the file and closes it between the lookup and the request:
\* the vnode do_blockinfo has still refers to it.
RequestFindsInode == at = "request" => ino \in table

\* Once blockinfo has found a file its two locks stay for good: no call gets the
\* mount to itself, and VFS never lets go of the inode, not even of a removed one.
LocksStay == [][\A i \in locked : i \in locked' /\ i \in table' /\ i.dev \notin taken']_vars

\* What the two calls leave behind: a list of one opening, and the locks.
CallsOfTool == ListsOneOpening /\ LocksStay
=============================================================================
