------------------------------ MODULE MCMinix -------------------------------
(* Models of Fragmentation, FileInfo and ShellAlias, three additions to     *)
(* MINIX that do not interact: a behaviour is one of the program chosen in  *)
(* `running`, and the others stay in one initial state of theirs.           *)
(*                                                                         *)
(* The disks of Fragmentation have words of two bits and a table of one     *)
(* number; its files lack a zone, or have an indirect block without a hole. *)
(* Of the three files of FileInfo two have the same number on two devices.  *)
EXTENDS Fragmentation

CONSTANTS Proc, File, NFilps, Room, MaxCalls,                  \* of FileInfo
          Shell, Typed, Dir, Nowhere, Login, NoWord, MaxEntries \* of ShellAlias

VARIABLES running,
          filp, fds, named, table, where, ino, pids, vnode, locked, taken, calls,
          profile, exists, entries, pc, home, dir, def

info    == <<filp, fds, named, table, where, ino, pids, vnode, locked, taken, calls>>
aliases == <<profile, exists, entries, pc, home, dir, def>>
all     == <<running, vars, info, aliases>>

SmallShapes == {[hole |-> FALSE, indirect |-> TRUE,  sparse |-> FALSE],
                [hole |-> TRUE,  indirect |-> FALSE, sparse |-> TRUE]}

SomeFiles == {[dev |-> 1, nr |-> 1], [dev |-> 2, nr |-> 1], [dev |-> 1, nr |-> 2]}

\* The words of the aliases.
SomeWords == {"cd", "alias"}

Info == INSTANCE FileInfo WITH Inode <- File, at <- where
Alias == INSTANCE ShellAlias WITH Word <- Typed

ASSUME FileInfoAssumption == Info!FileInfoAssumption
ASSUME AliasAssumption == Alias!AliasAssumption

-----------------------------------------------------------------------------

FragIdle  == /\ Init
             /\ bits = {} /\ unsized = {} /\ ~rootFs
             /\ \A i, j \in Inode : file[i] = file[j] /\ file[i].hole
AliasIdle == /\ Alias!Init
             /\ exists = {} /\ dir = [s \in Shell |-> Login]
             /\ profile = [d \in Dir |-> "absent"]

MCInit == /\ Info!Init
          /\ \/ running = "fragmentation" /\ Init /\ AliasIdle
             \/ running = "fileinfo" /\ FragIdle /\ AliasIdle
             \/ running = "alias" /\ FragIdle /\ Alias!Init

FragStep  == /\ running = "fragmentation" /\ Next
             /\ UNCHANGED <<running, info, aliases>>
InfoStep  == /\ running = "fileinfo" /\ Info!Next
             /\ UNCHANGED <<running, vars, aliases>>
AliasStep == /\ running = "alias" /\ Alias!Next
             /\ UNCHANGED <<running, vars, info>>

MCNext == FragStep \/ InfoStep \/ AliasStep

\* The fairness of Fragmentation: MFS runs until it waits for the next call.
MCSpec == /\ MCInit /\ [][MCNext]_all
          /\ WF_all(running = "fragmentation" /\ Work /\ UNCHANGED <<running, info, aliases>>)

-----------------------------------------------------------------------------
(* The properties of the instances, under their names. *)

\* Every variable of the three programs stays in its domain.
AllTypesOK == TypeOK /\ Info!TypeOK /\ Alias!TypeOK

\* fs_blockinfo finds the inode in the table of MFS, whoever removes the file.
RequestFindsInode == Info!RequestFindsInode

\* Processes are only listed together when they share one opening of a file of
\* that number; once blockinfo has found a file, no call gets its mount to
\* itself any more and the inode stays in the table of MFS.
CallsOfTool == Info!CallsOfTool

\* A word loses its alias only while there is no file in the shell's home, and
\* once no word means alias in any shell no definition is made any more.
AliasesStay == Alias!AliasesStay
=============================================================================
