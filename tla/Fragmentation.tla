---------------------------- MODULE Fragmentation ---------------------------
(***************************************************************************)
(* The fragmentation reports added to the MINIX file server: grsExtFrag of *)
(* ext_frag.c, grsIntFrag, grsIntFragFile and grsIntFragDir of int_frag.c, *)
(* with get_frag and get_internal_frag.  MFS takes one call at a time: it   *)
(* reads the inode bitmap into a table of inode numbers, word by word, then *)
(* looks at the inodes of the table, one step for each.  Files change       *)
(* between calls.                                                          *)
(*                                                                         *)
(* A file is what the reports read of its inode: hole, one of the first    *)
(* seven zones is NO_ZONE; indirect, zone 7 is there; sparse, one of the   *)
(* entries read in block zone 7 is NO_ZONE.  NO_ZONE is 0.                 *)
(*                                                                         *)
(* Operators marked "mutant" are wrong versions of the definition after    *)
(* them: the specification does not use them.                              *)
(***************************************************************************)
EXTENDS Integers, Sequences, FiniteSets

CONSTANTS NInodes,    \* s_ninodes
          Word,       \* the bits of a bitmap word, 32
          TableSize,  \* the length of in_numb, 100
          Behind,     \* how many words behind in_numb may not be 0
          ZoneBlocks, \* the blocks of a zone, 2^s_log_zone_size
          NBufs,      \* the buffers of the block cache
          NSlots,     \* the free slots of the inode table
          Shapes,     \* what files look like
          None

ASSUME FragmentationAssumption ==
    /\ NInodes \in Nat \ {0} /\ Word \in Nat \ {0} /\ TableSize \in Nat \ {0} /\ Behind \in Nat
    /\ ZoneBlocks \in Nat \ {0} /\ NBufs \in Nat /\ NSlots \in Nat
    /\ Shapes \subseteq [hole: BOOLEAN, indirect: BOOLEAN, sparse: BOOLEAN]

VARIABLES bits,      \* the inode bitmap, the set of its bits that are set
          file,      \* file[i]: the shape of inode i
          unsized,   \* the blocks of zone 0 whose buffer has b_bytes = 0
          rootFs,    \* VFS asks this MFS to resolve every path
          call,      \* the call MFS works on
          at,        \* where MFS is in it
          in_numb, n,
          looked,    \* the inodes the call has looked at
          held,      \* the inodes of the table with a reference, by get_inode
          pinned,    \* the blocks of the cache in use, by get_block
          b,         \* the bit the scan is at, then the block the endless loop is at
          ext        \* the counters min, max and avg of the external report

vars == <<bits, file, unsized, rootFs, call, at, in_numb, n, looked, held,
          pinned, b, ext>>

Inode    == 1..NInodes
Zero     == [min |-> 0, max |-> 0, avg |-> 0]
ZoneZero == 0..ZoneBlocks - 1

\* START_BLOCK.
MapBlock == 2

\* The block of i_zone[7]; without one it is block 0.
IndirectBlock(i) == IF file[i].indirect THEN (i + MapBlock) * ZoneBlocks ELSE 0

\* Blocks that cannot all be got: get_block finds every buffer in use.
Exhausted(blocks) == Cardinality(pinned \cup blocks) > NBufs
Full(i) == i \notin held /\ Cardinality(held) = NSlots

\* The disk and the globals when MFS starts.
Init == /\ bits \in SUBSET (0..NInodes)
        /\ file \in [Inode -> Shapes]
        /\ unsized \in SUBSET ZoneZero
        /\ rootFs \in BOOLEAN
        /\ call = None /\ at = "ready"
        /\ in_numb = <<>> /\ n = 1 /\ looked = {}
        /\ held = {} /\ pinned = {} /\ b = 0
        /\ ext = Zero

disk == <<bits, file, unsized, rootFs>>

\* Between calls a file is made, removed, written. Bit 0 is no file's.
Change(i) == /\ at = "ready"
             /\ \/ bits' = bits \cup {i} /\ file' \in {[file EXCEPT ![i] = s] : s \in Shapes}
                \/ i \in bits /\ bits' = bits \ {i} /\ file' = file
             /\ UNCHANGED <<unsized, rootFs, call, at, in_numb, n, looked, held,
                            pinned, b, ext>>

-----------------------------------------------------------------------------
(* grsExtFrag, grsIntFrag: the scan of the bitmap. *)

\* With one block in a zone there is no report.  The blocks of the map, one in
\* the model, stay in use.
Scan(c) == /\ at = "ready"
           /\ call' = c
           /\ IF ZoneBlocks = 1 THEN at' = "reply" /\ UNCHANGED pinned
              ELSE /\ pinned' = pinned \cup {MapBlock}
                   /\ at' = IF Exhausted({MapBlock}) THEN "down" ELSE "scan"
           /\ UNCHANGED <<disk, in_numb, n, looked, held, b, ext>>

GrsExtFrag == Scan("external")
GrsIntFrag == Scan("internal")

\* More inodes than in_numb has room for are written past its end: the server
\* dies of it or goes on.
List(i) == \/ Len(in_numb) < TableSize /\ in_numb' = Append(in_numb, i) /\ UNCHANGED at
           \/ Len(in_numb) = TableSize /\ at' \in {"scan", "down"} /\ UNCHANGED in_numb

\* The word that begins with bit b: (k & (1 << i)) == 1 holds for its bit 0 only.
ScanWord == /\ at = "scan" /\ b <= NInodes
            /\ IF b \in bits THEN List(b) ELSE UNCHANGED <<in_numb, at>>
            /\ b' = b + Word
            /\ UNCHANGED <<disk, call, n, looked, held, pinned, ext>>

ScanEnds == /\ at = "scan" /\ b > NInodes
            /\ at' = "inodes" /\ n' = 1 /\ b' = 0
            /\ UNCHANGED <<disk, call, in_numb, looked, held, pinned, ext>>

\* What in_numb[n] is: zeros follow the numbers, and after the end of the
\* table the loop reads whatever is there.
Entry == IF n <= Len(in_numb) THEN {in_numb[n]}
         ELSE IF n \notin TableSize + 1..TableSize + Behind THEN {0} ELSE {0} \cup Inode

-----------------------------------------------------------------------------
(* The report on the whole file system: one inode of the table. *)

\* get_inode: without a free slot the server dies of the null pointer.
GetInode(i) == /\ held' = held \cup {i}
               /\ looked' = looked \cup {i}

\* get_frag, lines 57 to 65: the maximum is compared with the minimum.
Count(c, f) ==
    LET min == IF c.min = 0 \/ f < c.min THEN f ELSE c.min
        max == IF c.max = 0 \/ f > min THEN f ELSE c.max
    IN  IF f = 0 THEN c ELSE [min |-> min, max |-> max, avg |-> (max + min) \div 2]

\* Only a zone that is NO_ZONE is looked at, and it is zone 0.
Examine(i) == /\ GetInode(i)
              /\ IF file[i].hole
                 THEN /\ pinned' = pinned \cup ZoneZero
                      /\ at' = IF Full(i) \/ Exhausted(ZoneZero) THEN "down" ELSE at
                      /\ ext' = Count(ext, Cardinality(unsized))
                 ELSE /\ at' = IF Full(i) THEN "down" ELSE at
                      /\ UNCHANGED <<pinned, ext>>
              /\ n' = n + 1
              /\ UNCHANGED <<disk, call, in_numb, b>>

ExamineExternal == /\ at = "inodes" /\ call = "external"
                   /\ \E i \in Entry \ {0} : Examine(i)

\* The blocks from b to b + num, where b grows: get_internal_frag does not return,
\* and the counters of the internal report are never counted.
Read(i) == /\ GetInode(i)
           /\ pinned' = pinned \cup {IndirectBlock(i)}
           /\ at' = IF Full(i) \/ Exhausted({IndirectBlock(i)}) THEN "down"
                    ELSE IF file[i].sparse /\ ZoneBlocks > 1 THEN "loop"
                    ELSE IF call = "internal" THEN "inodes" ELSE "reply"
           /\ b' = 0

ExamineInternal == /\ at = "inodes" /\ call = "internal"
                   /\ \E i \in Entry \ {0} : Read(i)
                   /\ n' = n + 1
                   /\ UNCHANGED <<disk, call, in_numb, ext>>

LoopSameBlock == /\ at = "loop"                                     \* mutant
                 /\ pinned' = pinned \cup {b}
                 /\ at' = IF Exhausted({b}) THEN "down" ELSE at
                 /\ UNCHANGED <<disk, call, in_numb, n, looked, held, b, ext>>

Loop == /\ at = "loop"
        /\ pinned' = pinned \cup {b}
        /\ at' = IF Exhausted({b}) THEN "down" ELSE at
        /\ b' = b + 1
        /\ UNCHANGED <<disk, call, in_numb, n, looked, held, ext>>

\* The first 0 ends the list: the counters are printed.
ListEnds == /\ at = "inodes" /\ 0 \in Entry
            /\ at' = "reply"
            /\ UNCHANGED <<disk, call, in_numb, n, looked, held, pinned, b, ext>>

-----------------------------------------------------------------------------
(* The report on a file or a directory. *)

\* A name of 20 characters or more is copied past the end of _fname.
GrsIntFragFile == /\ at = "ready"
                  /\ call' = "file"
                  /\ at' \in {"stat", "down"}
                  /\ UNCHANGED <<disk, in_numb, n, looked, held, pinned, b, ext>>

\* stat is answered after VFS has looked the path up: by a request to this MFS,
\* which waits for the answer, when it serves the root.  The inode number is
\* one of whichever file system the path is in.
StatFails == /\ at = "stat" /\ ~rootFs
             /\ at' = "reply"
             /\ UNCHANGED <<disk, call, in_numb, n, looked, held, pinned, b, ext>>

StatAnswers == /\ at = "stat" /\ ~rootFs
               /\ \E i \in Inode : Read(i)
               /\ UNCHANGED <<disk, call, in_numb, n, ext>>

\* Nothing but a message to the console.
GrsIntFragDir == /\ at = "ready"
                 /\ call' = "directory" /\ at' = "reply"
                 /\ UNCHANGED <<disk, in_numb, n, looked, held, pinned, b, ext>>

\* The caller goes on, with what the handler has returned.
Reply == /\ at = "reply"
         /\ at' = "ready" /\ call' = None
         /\ in_numb' = <<>> /\ n' = 1 /\ looked' = {} /\ b' = 0
         /\ UNCHANGED <<disk, held, pinned, ext>>

-----------------------------------------------------------------------------

Work == \/ ScanWord \/ ScanEnds \/ ExamineExternal \/ ExamineInternal \/ Loop
        \/ ListEnds \/ StatFails \/ StatAnswers \/ Reply

Next == \/ \E i \in Inode : Change(i)
        \/ GrsExtFrag \/ GrsIntFrag \/ GrsIntFragFile \/ GrsIntFragDir
        \/ Work

Spec     == Init /\ [][Next]_vars

\* MFS runs until it waits for the next call.
FairSpec == Spec /\ WF_vars(Work)

-----------------------------------------------------------------------------
(* Properties *)

\* Every variable stays in the domain the code gives it; what is read of the
\* bitmap always fits the table.
TypeOK == /\ bits \subseteq 0..NInodes /\ file \in [Inode -> Shapes]
          /\ unsized \subseteq ZoneZero /\ rootFs \in BOOLEAN
          /\ call \in {None, "external", "internal", "file", "directory"}
          /\ at \in {"ready", "scan", "inodes", "loop", "stat", "reply", "down"}
          /\ in_numb \in Seq(0..NInodes) /\ Len(in_numb) <= TableSize
          /\ n \in Nat /\ looked \subseteq Inode /\ held \subseteq Inode
          /\ pinned \subseteq Nat /\ b \in Nat
          /\ ext \in [min: Nat, max: Nat, avg: Nat]

\* On a disk where bit 0 of the inode map is set, as it always is because no
\* file has inode 0, the scan lists 0 first and the second loop of grsExtFrag
\* and grsIntFrag ends at it: neither looks at a single inode.
ReservedBitHidesAll == 0 \in bits /\ call \in {"external", "internal"} => looked = {}

\* Where an inode is looked at, it is the first of a word of the bitmap
\* (ext_frag.c:128, int_frag.c:241), unless the list has run past its table.
OnlyFirstOfWord ==
    call \in {"external", "internal"} /\ n <= TableSize + 1 =>
        \A i \in looked : i % Word = 0

\* The three numbers of the external report are one number, the count for zone
\* 0, whatever the files are: get_frag is only called with NO_ZONE.
ExternalIsOneNumber == /\ ext.min = ext.max /\ ext.avg = ext.min
                       /\ ext.min \in {0, Cardinality(unsized)}

\* What the scans find, and what the external report can say.
ReportsMissFiles == ReservedBitHidesAll /\ OnlyFirstOfWord /\ ExternalIsOneNumber

\* "Print External fragmentation report for the whole FS", "Print Internal
\* fragmentation report for all the files in the FS", says filefrag.c of the two
\* calls: when one of them returns, on a disk with more than one block in a
\* zone, it has looked at every inode in use.
ReportsOnAllFiles ==
    0 \in bits /\ ZoneBlocks > 1 /\ call \in {"external", "internal"} /\ at = "reply" =>
        bits \ {0} \subseteq looked

\* A report ends, with an answer or with the end of the server: get_internal_frag,
\* which has no end of its own, uses up the buffers.  Only the stat of a server
\* that serves the root itself (int_frag.c:109) is never answered.
Busy == at \in {"scan", "inodes", "loop", "stat"}
StatOfRoot == at = "stat" /\ rootFs
ReportEnds == (Busy /\ ~StatOfRoot) ~> (at \in {"ready", "down"})
=============================================================================
