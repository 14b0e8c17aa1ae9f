---------------------------- MODULE Minix_proofs ----------------------------
(***************************************************************************)
(* Proofs about three additions to MINIX, the fragmentation reports of MFS *)
(* (Fragmentation), fileinfo (FileInfo, here Info) and the aliases of the   *)
(* shell (ShellAlias, here Alias), for every value of their constants.     *)
(***************************************************************************)
EXTENDS MCMinix, FiniteSetTheorems, SequenceTheorems, WellFoundedInduction, TLAPS

\* A set of numbers that is not empty has a least element.
LEMMA LeastNumber ==
    ASSUME NEW S \in SUBSET Nat, S # {}
    PROVE  \E x \in S : \A y \in S : x <= y
<1> DEFINE R == OpToRel(<, Nat)
<1>1. IsWellFoundedOn(R, Nat)
  BY NatLessThanWellFounded
<1>2. \A x, y \in Nat : <<y, x>> \notin R => x <= y
  BY DEF OpToRel
<1> HIDE DEF R
<1>3. \E x \in S : \A y \in S : <<y, x>> \notin R
  BY <1>1, WFMin
<1> QED  BY <1>2, <1>3

-----------------------------------------------------------------------------
(* The fragmentation reports. *)

\* The reports on the whole file system.
Reports == {"external", "internal"}

\* Where MFS is in a call and what it has of it: between calls nothing is left
\* of the last one, and only reports on the whole file system have a list.
InCall == /\ n >= 1
          /\ at = "ready" => call = None /\ looked = {} /\ in_numb = <<>> /\ b = 0
          /\ at = "stat" => call = "file"
          /\ at \in {"scan", "inodes"} => call \in Reports

\* The scan is at the first bit of a word and lists nothing but such bits.
BeginsWord(m) == \E k \in Nat : m = k * Word
FirstBits == /\ at = "scan" => BeginsWord(b) /\ looked = {}
             /\ \A k \in 1..Len(in_numb) : BeginsWord(in_numb[k])

\* When bit 0 is set, 0 is listed first, and the loop over the list stays at it.
ZeroFirst ==
    /\ at = "scan" /\ b = 0 => in_numb = <<>>
    /\ 0 \in bits /\ ((at = "scan" /\ b > 0) \/ at = "inodes")
          => in_numb # <<>> /\ in_numb[1] = 0
    /\ 0 \in bits /\ at = "inodes" => n = 1

\* The inductive invariant of the reports.
FragInv == /\ TypeOK /\ InCall /\ FirstBits /\ ZeroFirst
           /\ ReportsMissFiles

\* The scan begins at a word and goes on to the next one; the number of the first
\* bit of a word is a multiple of the length of a word.
LEMMA WordBegins ==
    /\ BeginsWord(0)
    /\ \A m \in Nat : BeginsWord(m) => BeginsWord(m + Word) /\ m % Word = 0
<1>1. \A k \in Nat : \A w \in Nat \ {0} :
          (k * w) % w = 0 /\ k * w + w = (k + 1) * w /\ 0 * w = 0
  OBVIOUS
<1>2. Word \in Nat \ {0}
  BY FragmentationAssumption
<1>3. BeginsWord(0)
  BY <1>1, <1>2, 0 \in Nat DEF BeginsWord
<1>4. ASSUME NEW m \in Nat, BeginsWord(m) PROVE BeginsWord(m + Word) /\ m % Word = 0
  <2>1. PICK k \in Nat : m = k * Word
    BY <1>4 DEF BeginsWord
  <2>2. k + 1 \in Nat /\ m + Word = (k + 1) * Word /\ m % Word = 0
    BY <1>1, <1>2, <2>1
  <2> QED  BY <2>2 DEF BeginsWord
<1> QED  BY <1>3, <1>4

\* The count for zone 0 is a number.
LEMMA CountIsNat == TypeOK => Cardinality(unsized) \in Nat
<1>1. IsFiniteSet(ZoneZero)
  BY FragmentationAssumption, FS_Interval DEF ZoneZero
<1> QED  BY <1>1, FS_Subset, FS_CardinalityType DEF TypeOK

\* Counting the same number again leaves the three numbers one number.
LEMMA CountSame ==
    ASSUME NEW f \in Nat, NEW c \in [min: Nat, max: Nat, avg: Nat],
           c.min = c.max, c.avg = c.min, c.min \in {0, f}
    PROVE  /\ Count(c, f) \in [min: Nat, max: Nat, avg: Nat]
           /\ Count(c, f).min = Count(c, f).max
           /\ Count(c, f).avg = Count(c, f).min
           /\ Count(c, f).min \in {0, f}
<1>1. CASE f = 0
  BY <1>1 DEF Count
<1>2. CASE f # 0
  <2>1. Count(c, f) = [min |-> f, max |-> f, avg |-> (f + f) \div 2]
    BY <1>2 DEF Count
  <2>2. (f + f) \div 2 = f
    OBVIOUS
  <2> QED  BY <2>1, <2>2
<1> QED  BY <1>1, <1>2

\* The reports start with it.
LEMMA FragInit == Init => FragInv
<1> SUFFICES ASSUME Init PROVE FragInv
  OBVIOUS
<1> USE FragmentationAssumption DEF Init
<1>1. TypeOK
  BY DEF TypeOK, Zero
<1>2. InCall /\ FirstBits /\ ZeroFirst
  BY DEF InCall, FirstBits, ZeroFirst
<1>3. ReportsMissFiles
  BY DEF ReportsMissFiles, ReservedBitHidesAll, OnlyFirstOfWord, ExternalIsOneNumber, Zero
<1> QED  BY <1>1, <1>2, <1>3 DEF FragInv

\* What MFS may do next, with the two reports on the whole file system as one.
LEMMA FragActions ==
    ASSUME [Next]_vars, NEW Goal,
           UNCHANGED vars => Goal,
           \A i \in Inode : Change(i) => Goal,
           \A c \in Reports : Scan(c) => Goal,
           ScanWord => Goal, ScanEnds => Goal, ExamineExternal => Goal,
           ExamineInternal => Goal, Loop => Goal, ListEnds => Goal,
           GrsIntFragFile => Goal, StatFails => Goal, StatAnswers => Goal,
           GrsIntFragDir => Goal, Reply => Goal
    PROVE  Goal
BY DEF Next, Work, GrsExtFrag, GrsIntFrag, Reports

\* The numbers in the list are numbers of inodes, and so is what is read as one.
LEMMA EntryIsInode == TypeOK /\ n >= 1 => Entry \ {0} \subseteq Inode
<1> SUFFICES ASSUME TypeOK, n >= 1 PROVE Entry \ {0} \subseteq Inode
  OBVIOUS
<1>1. CASE n <= Len(in_numb)
  <2>1. in_numb[n] \in 0..NInodes
    <3>1. in_numb \in Seq(0..NInodes) /\ n \in 1..Len(in_numb)
      BY <1>1 DEF TypeOK
    <3> QED  BY <3>1, FragmentationAssumption
  <2> QED  BY <1>1, <2>1, FragmentationAssumption DEF Entry, Inode
<1>2. CASE ~(n <= Len(in_numb))
  BY <1>2 DEF Entry
<1> QED  BY <1>1, <1>2

\* Reading the blocks of a file of the table.
LEMMA ReadTypes ==
    ASSUME TypeOK, NEW i \in Inode, Read(i)
    PROVE  /\ held' \subseteq Inode /\ looked' \subseteq Inode /\ pinned' \subseteq Nat
           /\ at' \in {"down", "loop", "inodes", "reply"} /\ b' = 0
           /\ at' = "inodes" => call = "internal"
<1>1. IndirectBlock(i) \in Nat
  <2>1. \A k \in Nat : k * ZoneBlocks \in Nat
    BY FragmentationAssumption
  <2> QED  BY <2>1, FragmentationAssumption DEF IndirectBlock, Inode, MapBlock
<1> QED  BY <1>1 DEF TypeOK, Read, GetInode

\* Every call of MFS keeps the types.
LEMMA FragTypes == FragInv /\ [Next]_vars => TypeOK'
<1> SUFFICES ASSUME FragInv, [Next]_vars PROVE TypeOK'
  OBVIOUS
<1>a. TypeOK /\ InCall
  BY DEF FragInv
<1>1. ASSUME NEW i \in Inode, Change(i) PROVE TypeOK'
  <2>1. bits' \subseteq 0..NInodes /\ file' \in [Inode -> Shapes]
    <3>1. i \in 0..NInodes
      BY FragmentationAssumption DEF Inode
    <3>2. bits' \in {bits \cup {i}, bits \ {i}} /\ file' \in {file} \cup {[file EXCEPT ![i] = s] : s \in Shapes}
      BY <1>1 DEF Change
    <3> QED  BY <1>a, <3>1, <3>2 DEF TypeOK
  <2> QED  BY <1>a, <1>1, <2>1 DEF TypeOK, Change, ZoneZero, Inode
<1>2. ASSUME NEW c \in Reports, Scan(c) PROVE TypeOK'
  <2>1. pinned' \subseteq Nat
    <3>1. \A x \in pinned' : x \in pinned \/ x = 2
      BY <1>2 DEF Scan, MapBlock
    <3>2. \A x \in pinned : x \in Nat
      BY <1>a DEF TypeOK
    <3> QED  BY <3>1, <3>2
  <2>2. at' \in {"reply", "down", "scan"} /\ call' \in Reports
    BY <1>2 DEF Scan
  <2> QED  BY <1>a, <1>2, <2>1, <2>2 DEF TypeOK, Scan, Reports, disk
<1>3. CASE ScanWord
  <2>1. in_numb' \in Seq(0..NInodes) /\ Len(in_numb') <= TableSize
    <3>1. b \in 0..NInodes
      BY <1>a, <1>3, FragmentationAssumption DEF TypeOK, ScanWord
    <3>2. CASE Len(in_numb) < TableSize /\ in_numb' = Append(in_numb, b)
      BY <1>a, <3>1, <3>2, FragmentationAssumption DEF TypeOK
    <3>3. CASE in_numb' = in_numb
      BY <1>a, <3>3 DEF TypeOK
    <3> QED  BY <1>3, <3>2, <3>3 DEF ScanWord, List
  <2>2. b' \in Nat /\ at' \in {at, "scan", "down"}
    BY <1>a, <1>3, FragmentationAssumption DEF TypeOK, ScanWord, List
  <2> QED  BY <1>a, <1>3, <2>1, <2>2 DEF TypeOK, ScanWord, disk
<1>4. CASE ScanEnds
  BY <1>a, <1>4 DEF TypeOK, ScanEnds, disk
<1>5. CASE ExamineExternal
  <2>1. PICK i \in Inode : Examine(i)
    BY <1>a, <1>5, EntryIsInode DEF ExamineExternal, InCall
  <2>2. ext' \in [min: Nat, max: Nat, avg: Nat]
    BY <1>a, <2>1, CountIsNat, CountSame DEF FragInv, ReportsMissFiles, ExternalIsOneNumber,
       Examine, TypeOK
  <2>3. pinned' \subseteq Nat
    <3>1. ZoneZero \subseteq Nat
      BY FragmentationAssumption DEF ZoneZero
    <3> QED  BY <1>a, <2>1, <3>1 DEF TypeOK, Examine
  <2>4. at' \in {at, "down"} /\ held' \subseteq Inode /\ looked' \subseteq Inode /\ n' \in Nat
    BY <1>a, <2>1 DEF TypeOK, Examine, GetInode
  <2> QED  BY <1>a, <2>1, <2>2, <2>3, <2>4 DEF TypeOK, Examine, disk
<1>6. CASE ExamineInternal
  <2>1. PICK i \in Inode : Read(i)
    BY <1>a, <1>6, EntryIsInode DEF ExamineInternal, InCall
  <2> QED  BY <1>a, <1>6, <2>1, ReadTypes DEF TypeOK, ExamineInternal, disk
<1>7. CASE Loop
  BY <1>a, <1>7 DEF TypeOK, Loop, disk
<1>8. CASE ListEnds
  BY <1>a, <1>8 DEF TypeOK, ListEnds, disk
<1>9. CASE GrsIntFragFile
  BY <1>a, <1>9 DEF TypeOK, GrsIntFragFile, disk
<1>10. CASE StatFails
  BY <1>a, <1>10 DEF TypeOK, StatFails, disk
<1>11. CASE StatAnswers
  <2>1. PICK i \in Inode : Read(i)
    BY <1>11 DEF StatAnswers
  <2> QED  BY <1>a, <1>11, <2>1, ReadTypes DEF TypeOK, StatAnswers, disk
<1>12. CASE GrsIntFragDir
  BY <1>a, <1>12 DEF TypeOK, GrsIntFragDir, disk
<1>13. CASE Reply
  BY <1>a, <1>13, FragmentationAssumption DEF TypeOK, Reply, disk
<1>14. CASE UNCHANGED vars
  BY <1>a, <1>14 DEF TypeOK, vars
<1> DEFINE Goal == TypeOK'
<1> HIDE DEF Goal
<1> SUFFICES Goal
  BY DEF Goal
<1> QED  BY <1>1, <1>2, <1>3, <1>4, <1>5, <1>6, <1>7, <1>8, <1>9, <1>10, <1>11, <1>12, <1>13,
         <1>14, FragActions DEF Goal
\* Every call of MFS keeps what it knows of its place in the call.
LEMMA FragCalls == FragInv /\ [Next]_vars => InCall'
<1> SUFFICES ASSUME FragInv, [Next]_vars PROVE InCall'
  OBVIOUS
<1>a. InCall /\ n \in Nat
  BY DEF FragInv, TypeOK
<1>1. ASSUME NEW i \in Inode, Change(i) PROVE InCall'
  BY <1>a, <1>1 DEF InCall, Change, disk
<1>2. ASSUME NEW c \in Reports, Scan(c) PROVE InCall'
  BY <1>a, <1>2 DEF InCall, Scan, disk
<1>3. CASE ScanWord
  BY <1>a, <1>3 DEF InCall, ScanWord, List, disk
<1>4. CASE ScanEnds
  BY <1>a, <1>4 DEF InCall, ScanEnds, disk
<1>5. CASE ExamineExternal
  BY <1>a, <1>5 DEF InCall, ExamineExternal, Examine, disk
<1>6. CASE ExamineInternal
  BY <1>a, <1>6 DEF InCall, ExamineInternal, Read, Reports, disk
<1>7. CASE Loop
  BY <1>a, <1>7 DEF InCall, Loop, disk
<1>8. CASE ListEnds
  BY <1>a, <1>8 DEF InCall, ListEnds, disk
<1>9. CASE GrsIntFragFile
  BY <1>a, <1>9 DEF InCall, GrsIntFragFile, disk
<1>10. CASE StatFails
  BY <1>a, <1>10 DEF InCall, StatFails, disk
<1>11. CASE StatAnswers
  BY <1>a, <1>11 DEF InCall, StatAnswers, Read, Reports, disk
<1>12. CASE GrsIntFragDir
  BY <1>a, <1>12 DEF InCall, GrsIntFragDir, disk
<1>13. CASE Reply
  BY <1>a, <1>13 DEF InCall, Reply, disk
<1>14. CASE UNCHANGED vars
  BY <1>a, <1>14 DEF InCall, vars
<1> DEFINE Goal == InCall'
<1> HIDE DEF Goal
<1> SUFFICES Goal
  BY DEF Goal
<1> QED  BY <1>1, <1>2, <1>3, <1>4, <1>5, <1>6, <1>7, <1>8, <1>9, <1>10, <1>11, <1>12, <1>13,
         <1>14, FragActions DEF Goal

\* The list stays one of beginnings of words, 0 first when bit 0 is set.
LEMMA FragLists == FragInv /\ [Next]_vars => FirstBits' /\ ZeroFirst'
<1> DEFINE Goal == FirstBits' /\ ZeroFirst'
<1> SUFFICES ASSUME FragInv, [Next]_vars PROVE Goal
  OBVIOUS
<1>a. InCall /\ FirstBits /\ ZeroFirst /\ n \in Nat /\ b \in Nat
  BY DEF FragInv, TypeOK
<1>b. ReservedBitHidesAll
  BY DEF FragInv, ReportsMissFiles
<1>1. ASSUME NEW i \in Inode, Change(i) PROVE Goal
  BY <1>a, <1>1 DEF InCall, FirstBits, ZeroFirst, Change
<1>2. ASSUME NEW c \in Reports, Scan(c) PROVE Goal
  BY <1>a, <1>2, WordBegins DEF InCall, FirstBits, ZeroFirst, Scan, disk
<1>3. CASE ScanWord
  <2>0. in_numb \in Seq(0..NInodes) /\ TableSize \in Nat \ {0} /\ Word \in Nat \ {0}
        /\ BeginsWord(b) /\ at = "scan"
    BY <1>a, <1>3, FragmentationAssumption DEF FragInv, TypeOK, ScanWord, FirstBits
  <2>1. BeginsWord(b') /\ b' > 0 /\ b' \in Nat
    BY <1>a, <1>3, <2>0, WordBegins DEF ScanWord
  <2>2. CASE in_numb' = Append(in_numb, b)
    <3>1. Len(in_numb') = Len(in_numb) + 1 /\ in_numb'[Len(in_numb) + 1] = b
          /\ \A k \in 1..Len(in_numb) : in_numb'[k] = in_numb[k]
      BY <2>0, <2>2, <1>a
    <3>2. \A k \in 1..Len(in_numb') : BeginsWord(in_numb'[k])
      BY <1>a, <2>0, <3>1 DEF FirstBits
    <3>3. in_numb' # <<>> /\ in_numb'[1] = IF in_numb = <<>> THEN b ELSE in_numb[1]
      BY <2>0, <2>2, <3>1
    <3>4. 0 \in bits => in_numb'[1] = 0
      BY <1>a, <2>0, <3>3 DEF ZeroFirst
    <3> QED  BY <1>a, <1>3, <2>0, <2>1, <3>2, <3>3, <3>4 DEF ScanWord, FirstBits, ZeroFirst, List, disk
  <2>3. CASE in_numb' = in_numb
    <3>1. b = 0 /\ 0 \in bits => in_numb # <<>>
      BY <1>3, <2>0, <2>3 DEF ScanWord, List
    <3>2. 0 \in bits => in_numb' # <<>> /\ in_numb'[1] = 0
      BY <1>a, <2>0, <2>3, <3>1 DEF ZeroFirst
    <3> QED  BY <1>a, <1>3, <2>0, <2>1, <2>3, <3>2 DEF ScanWord, List, FirstBits, ZeroFirst, disk
  <2> QED  BY <1>3, <2>2, <2>3 DEF ScanWord, List
<1>4. CASE ScanEnds
  BY <1>a, <1>4, FragmentationAssumption DEF FirstBits, ZeroFirst, ScanEnds, disk
<1>5. CASE ExamineExternal
  BY <1>a, <1>5 DEF FirstBits, ZeroFirst, ExamineExternal, Examine, Entry, disk
<1>6. CASE ExamineInternal
  BY <1>a, <1>6 DEF FirstBits, ZeroFirst, ExamineInternal, Read, Entry, disk
<1>7. CASE Loop
  BY <1>a, <1>7 DEF FirstBits, ZeroFirst, Loop, disk
<1>8. CASE ListEnds
  BY <1>a, <1>8 DEF FirstBits, ZeroFirst, ListEnds, disk
<1>9. CASE GrsIntFragFile
  BY <1>a, <1>9 DEF FirstBits, ZeroFirst, GrsIntFragFile, disk
<1>10. CASE StatFails
  BY <1>a, <1>10 DEF FirstBits, ZeroFirst, StatFails, disk
<1>11. CASE StatAnswers
  BY <1>a, <1>11 DEF InCall, FirstBits, ZeroFirst, StatAnswers, Read, disk
<1>12. CASE GrsIntFragDir
  BY <1>a, <1>12 DEF FirstBits, ZeroFirst, GrsIntFragDir, disk
<1>13. CASE Reply
  BY <1>a, <1>13 DEF FirstBits, ZeroFirst, Reply, disk
<1>14. CASE UNCHANGED vars
  BY <1>a, <1>14 DEF FirstBits, ZeroFirst, vars
<1> HIDE DEF Goal
<1> SUFFICES Goal
  OBVIOUS
<1> QED  BY <1>1, <1>2, <1>3, <1>4, <1>5, <1>6, <1>7, <1>8, <1>9, <1>10, <1>11, <1>12, <1>13,
         <1>14, FragActions

\* The two scans only look at beginnings of words, or at nothing at all.
LEMMA FragLooks == FragInv /\ [Next]_vars => ReservedBitHidesAll' /\ OnlyFirstOfWord'
<1> DEFINE Goal == ReservedBitHidesAll' /\ OnlyFirstOfWord'
<1> SUFFICES ASSUME FragInv, [Next]_vars PROVE Goal
  OBVIOUS
<1>a. InCall /\ FirstBits /\ ZeroFirst /\ n \in Nat /\ TableSize \in Nat
  BY FragmentationAssumption DEF FragInv, TypeOK
<1>b. ReservedBitHidesAll /\ OnlyFirstOfWord
  BY DEF FragInv, ReportsMissFiles
<1>c. ASSUME NEW i \in Entry \ {0}, at = "inodes", looked' = looked \cup {i}, n' = n + 1,
             UNCHANGED <<bits, call>>
      PROVE  Goal
  <2>1. 0 \notin bits
    BY <1>a, <1>c DEF ZeroFirst, Entry
  <2>2. n + 1 <= TableSize + 1 => i % Word = 0
    <3> SUFFICES ASSUME n <= TableSize PROVE i % Word = 0
      BY <1>a
    <3>1. n <= Len(in_numb) /\ i = in_numb[n]
      BY <1>a DEF Entry
    <3>2. in_numb \in Seq(0..NInodes) /\ n \in 1..Len(in_numb)
      BY <1>a, <3>1 DEF FragInv, TypeOK, InCall
    <3>3. i \in Nat /\ BeginsWord(i)
      BY <1>a, <3>1, <3>2, FragmentationAssumption DEF FirstBits
    <3> QED  BY <3>3, WordBegins
  <2> QED  BY <1>a, <1>b, <1>c, <2>1, <2>2 DEF ReservedBitHidesAll, OnlyFirstOfWord
<1>1. ASSUME NEW i \in Inode, Change(i) PROVE Goal
  BY <1>a, <1>1 DEF InCall, ReservedBitHidesAll, OnlyFirstOfWord, Change
<1>2. ASSUME NEW c \in Reports, Scan(c) PROVE Goal
  BY <1>a, <1>2 DEF InCall, ReservedBitHidesAll, OnlyFirstOfWord, Scan
<1>3. CASE ScanWord
  BY <1>b, <1>3 DEF ReservedBitHidesAll, OnlyFirstOfWord, ScanWord, disk
<1>4. CASE ScanEnds
  BY <1>a, <1>4 DEF FirstBits, ReservedBitHidesAll, OnlyFirstOfWord, ScanEnds, disk
<1>5. CASE ExamineExternal
  BY <1>5, <1>c DEF ExamineExternal, Examine, GetInode, disk
<1>6. CASE ExamineInternal
  BY <1>6, <1>c DEF ExamineInternal, Read, GetInode, disk
<1>7. CASE Loop
  BY <1>b, <1>7 DEF ReservedBitHidesAll, OnlyFirstOfWord, Loop, disk
<1>8. CASE ListEnds
  BY <1>b, <1>8 DEF ReservedBitHidesAll, OnlyFirstOfWord, ListEnds, disk
<1>9. CASE GrsIntFragFile
  BY <1>9 DEF ReservedBitHidesAll, OnlyFirstOfWord, GrsIntFragFile
<1>10. CASE StatFails
  BY <1>b, <1>10 DEF ReservedBitHidesAll, OnlyFirstOfWord, StatFails, disk
<1>11. CASE StatAnswers
  BY <1>a, <1>11 DEF InCall, ReservedBitHidesAll, OnlyFirstOfWord, StatAnswers, disk
<1>12. CASE GrsIntFragDir
  BY <1>12 DEF ReservedBitHidesAll, OnlyFirstOfWord, GrsIntFragDir
<1>13. CASE Reply
  BY <1>13 DEF ReservedBitHidesAll, OnlyFirstOfWord, Reply
<1>14. CASE UNCHANGED vars
  BY <1>b, <1>14 DEF ReservedBitHidesAll, OnlyFirstOfWord, vars
<1> HIDE DEF Goal
<1> SUFFICES Goal
  OBVIOUS
<1> QED  BY <1>1, <1>2, <1>3, <1>4, <1>5, <1>6, <1>7, <1>8, <1>9, <1>10, <1>11, <1>12, <1>13,
         <1>14, FragActions

\* The counters stay one number.
LEMMA FragCounts == FragInv /\ [Next]_vars => ExternalIsOneNumber'
<1> DEFINE Goal == ExternalIsOneNumber'
<1> SUFFICES ASSUME FragInv, [Next]_vars PROVE Goal
  OBVIOUS
<1>a. ExternalIsOneNumber
  BY DEF FragInv, ReportsMissFiles
<1>b. (UNCHANGED <<unsized, ext>>) => Goal
  BY <1>a DEF ExternalIsOneNumber
<1>1. ASSUME NEW i \in Inode, Change(i) PROVE Goal
  BY <1>b, <1>1 DEF Change
<1>2. ASSUME NEW c \in Reports, Scan(c) PROVE Goal
  BY <1>b, <1>2 DEF Scan, disk
<1>3. CASE ExamineExternal
  <2>1. PICK i : Examine(i)
    BY <1>3 DEF ExamineExternal
  <2>2. CASE UNCHANGED ext
    BY <1>b, <2>1, <2>2 DEF Examine, disk
  <2>3. CASE ext' = Count(ext, Cardinality(unsized))
    <3>1. Cardinality(unsized) \in Nat /\ ext \in [min: Nat, max: Nat, avg: Nat]
      BY CountIsNat DEF FragInv, TypeOK
    <3>2. UNCHANGED unsized
      BY <2>1 DEF Examine, disk
    <3> QED  BY <1>a, <2>3, <3>1, <3>2, CountSame DEF ExternalIsOneNumber
  <2> QED  BY <2>1, <2>2, <2>3 DEF Examine
<1> HIDE DEF Goal
<1> SUFFICES Goal
  OBVIOUS
<1>4. (ScanWord \/ ScanEnds \/ ExamineInternal \/ Loop \/ ListEnds) => Goal
  BY <1>b DEF ScanWord, ScanEnds, ExamineInternal, Loop, ListEnds, disk
<1>5. (GrsIntFragFile \/ StatFails \/ StatAnswers \/ GrsIntFragDir \/ Reply) => Goal
  BY <1>b DEF GrsIntFragFile, StatFails, StatAnswers, GrsIntFragDir, Reply, disk
<1>6. (UNCHANGED vars) => Goal
  BY <1>b DEF vars
<1> QED  BY <1>1, <1>2, <1>3, <1>4, <1>5, <1>6, FragActions

\* Every call of MFS keeps the invariant.
LEMMA FragStepKeeps == FragInv /\ [Next]_vars => FragInv'
BY FragTypes, FragCalls, FragLists, FragLooks, FragCounts
   DEF FragInv, ReportsMissFiles

\* How much of a disk the reports about it miss (ext_frag.c, int_frag.c), however
\* large it is and whatever is on it: everything when bit 0 of the bitmap is set,
\* all but the first inode of a word otherwise, and the three numbers of the
\* external report are one count, of the blocks of zone 0.
THEOREM ReportsMiss == Spec => []ReportsMissFiles
<1>1. FragInv => ReportsMissFiles
  BY DEF FragInv
<1> QED  BY FragInit, FragStepKeeps, <1>1, PTL DEF Spec
-----------------------------------------------------------------------------
(* fileinfo. *)

\* Whatever a filp refers to is in the table of MFS.
OpenInTable == \A f \in Info!Filp : filp[f] # None => filp[f] \in table

\* do_blockinfo has a vnode from eat_path to put_vnode, and it is in the table.
VnodeHeld == /\ where \in {"list", "listed", "request", "answer"} => ino # None
             /\ where \in {"run", "list", "listed"} => vnode = None
             /\ where \in {"request", "answer"} => vnode = ino
             /\ vnode # None => vnode \in table

\* What eat_path has locked is in the table, and nobody has its mount to himself.
Stuck == \A i \in locked : i \in table /\ i.dev \notin taken

\* The inductive invariant of fileinfo.
InfoInv == Info!TypeOK /\ OpenInTable /\ VnodeHeld /\ Stuck

\* The least of the filps that are of a kind.
LEMMA LeastFilp ==
    ASSUME NEW S \in SUBSET Info!Filp, S # {}
    PROVE  Info!Min(S) \in S
<1>1. S \in SUBSET Nat
  BY DEF Info!Filp
<1>2. \E x \in S : \A y \in S : x <= y
  BY <1>1, LeastNumber
<1> QED  BY <1>2 DEF Info!Min

\* fileinfo starts with it.
LEMMA InfoInit == Info!Init => InfoInv
BY FileInfoAssumption DEF Info!Init, InfoInv, Info!TypeOK, OpenInTable, VnodeHeld, Stuck,
   Info!FileInfoAssumption, Info!Filp

\* A process that opens a file.
LEMMA OpenKeeps ==
    ASSUME InfoInv, NEW p \in Proc, NEW i \in File, Info!Open(p, i)
    PROVE  InfoInv'
<1> DEFINE free == {g \in Info!Filp : filp[g] = None}
           f == Info!Min(free)
<1>1. /\ f \in Info!Filp /\ filp[f] = None
      /\ filp' = [filp EXCEPT ![f] = i]
      /\ fds' = [fds EXCEPT ![p] = @ \cup {f}]
  BY LeastFilp DEF Info!Open
<1>2. i # None
  BY FileInfoAssumption DEF Info!FileInfoAssumption
<1> HIDE DEF f
<1>3. Info!TypeOK'
  <2>1. filp' \in [Info!Filp -> File \cup {None}]
    BY <1>1 DEF InfoInv, Info!TypeOK
  <2>2. fds' \in [Proc -> SUBSET {g \in Info!Filp : filp'[g] # None}]
    BY <1>1, <1>2 DEF InfoInv, Info!TypeOK
  <2> QED  BY <2>1, <2>2 DEF InfoInv, Info!TypeOK, Info!Open
<1>4. OpenInTable'
  BY <1>1 DEF InfoInv, Info!TypeOK, OpenInTable, Info!Open
<1>5. VnodeHeld' /\ Stuck'
  BY DEF InfoInv, VnodeHeld, Stuck, Info!Open
<1> QED  BY <1>3, <1>4, <1>5 DEF InfoInv

\* A process that closes a file: the vnode goes with the last filp that refers
\* to it, unless blockinfo has it.
LEMMA CloseKeeps ==
    ASSUME InfoInv, NEW p \in Proc, NEW f \in Info!Filp, Info!Close(p, f)
    PROVE  InfoInv'
<1>1. CASE \E q \in Proc \ {p} : f \in fds[q]
  <2>1. filp' = filp /\ table' = table
    <3>1. filp' = filp
      BY <1>1 DEF Info!Close
    <3> QED  BY <3>1 DEF Info!Close, Info!PutNode
  <2>2. fds' \in [Proc -> SUBSET {g \in Info!Filp : filp'[g] # None}]
    BY <2>1 DEF InfoInv, Info!TypeOK, Info!Close
  <2>3. Info!TypeOK'
    BY <2>1, <2>2 DEF InfoInv, Info!TypeOK, Info!Close
  <2>4. OpenInTable' /\ VnodeHeld' /\ Stuck'
    BY <2>1 DEF InfoInv, OpenInTable, VnodeHeld, Stuck, Info!Close
  <2> QED  BY <2>3, <2>4 DEF InfoInv
<1>2. CASE ~\E q \in Proc \ {p} : f \in fds[q]
  <2>1. filp' = [filp EXCEPT ![f] = None]
    BY <1>2 DEF Info!Close
  <2>2. fds' \in [Proc -> SUBSET {g \in Info!Filp : filp'[g] # None}]
    <3>1. \A q \in Proc : f \notin fds'[q] /\ fds'[q] \subseteq fds[q]
      BY <1>2 DEF InfoInv, Info!TypeOK, Info!Close
    <3>2. fds' \in [Proc -> SUBSET Info!Filp]
      BY DEF InfoInv, Info!TypeOK, Info!Close
    <3>3. \A q \in Proc : \A g \in fds'[q] : filp'[g] # None
      BY <2>1, <3>1 DEF InfoInv, Info!TypeOK
    <3> QED  BY <3>2, <3>3
  <2>3. table' \subseteq table /\ \A i \in locked : i \in table => i \in table'
    BY DEF Info!Close, Info!PutNode
  <2>4. Info!TypeOK'
    <3>1. filp' \in [Info!Filp -> File \cup {None}]
      BY <2>1 DEF InfoInv, Info!TypeOK
    <3> QED  BY <2>2, <2>3, <3>1 DEF InfoInv, Info!TypeOK, Info!Close
  <2>5. \A i \in table : (vnode = i \/ \E g \in Info!Filp : filp'[g] = i) => i \in table'
    BY DEF Info!Close, Info!PutNode
  <2>6. OpenInTable'
    BY <2>1, <2>5 DEF InfoInv, Info!TypeOK, OpenInTable
  <2>7. VnodeHeld' /\ Stuck'
    BY <2>3, <2>5 DEF InfoInv, VnodeHeld, Stuck, Info!Close
  <2> QED  BY <2>4, <2>6, <2>7 DEF InfoInv
<1> QED  BY <1>1, <1>2
\* Every other step of the processes and of the tool.
LEMMA InfoStepKeeps == InfoInv /\ [Info!Next]_(Info!vars) => InfoInv'
<1> SUFFICES ASSUME InfoInv, [Info!Next]_(Info!vars) PROVE InfoInv'
  OBVIOUS
<1>a. /\ Info!TypeOK /\ OpenInTable /\ VnodeHeld /\ Stuck
      /\ None \notin File /\ MaxCalls \in Nat
  BY FileInfoAssumption DEF InfoInv, Info!FileInfoAssumption
<1>1. ASSUME NEW p \in Proc, NEW i \in File, Info!Open(p, i) PROVE InfoInv'
  BY <1>1, OpenKeeps
<1>2. ASSUME NEW p \in Proc, NEW f \in Info!Filp, Info!Close(p, f) PROVE InfoInv'
  BY <1>2, CloseKeeps
<1>3. ASSUME NEW p \in Proc, NEW c \in Proc, Info!Fork(p, c) PROVE InfoInv'
  BY <1>a, <1>3 DEF InfoInv, Info!TypeOK, OpenInTable, VnodeHeld, Stuck, Info!Fork
<1>4. ASSUME NEW i \in File, Info!Remove(i) PROVE InfoInv'
  BY <1>a, <1>4 DEF InfoInv, Info!TypeOK, OpenInTable, VnodeHeld, Stuck, Info!Remove
<1>5. ASSUME NEW m \in Info!Mount, Info!TakeMount(m) \/ Info!LeaveMount(m) PROVE InfoInv'
  BY <1>a, <1>5 DEF InfoInv, Info!TypeOK, OpenInTable, VnodeHeld, Stuck, Info!TakeMount,
     Info!LeaveMount, Info!files
<1>6. ASSUME NEW i \in File, Info!Stat(i) PROVE InfoInv'
  BY <1>a, <1>6 DEF InfoInv, Info!TypeOK, OpenInTable, VnodeHeld, Stuck, Info!Stat, Info!files
<1>7. CASE Info!DoFileinfo
  <2>1. pids' \subseteq Proc /\ where' \in {"listed", "down"}
    BY <1>7 DEF Info!DoFileinfo, Info!Listed, Info!Holders
  <2> QED  BY <1>a, <1>7, <2>1 DEF InfoInv, Info!TypeOK, OpenInTable, VnodeHeld, Stuck,
           Info!DoFileinfo, Info!files
<1>8. CASE Info!EatPath
  BY <1>a, <1>8 DEF InfoInv, Info!TypeOK, OpenInTable, VnodeHeld, Stuck, Info!EatPath
<1>9. CASE Info!FsBlockinfo
  BY <1>a, <1>9 DEF InfoInv, Info!TypeOK, OpenInTable, VnodeHeld, Stuck, Info!FsBlockinfo,
     Info!files
<1>10. CASE Info!PutVnode
  <2>1. /\ table' \subseteq table /\ \A i \in locked : i \in table => i \in table'
        /\ \A i \in table : (\E g \in Info!Filp : filp[g] = i) => i \in table'
    BY <1>10 DEF Info!PutVnode, Info!PutNode
  <2> QED  BY <1>a, <1>10, <2>1 DEF InfoInv, Info!TypeOK, OpenInTable, VnodeHeld, Stuck,
           Info!PutVnode
<1>11. CASE UNCHANGED Info!vars
  BY <1>a, <1>11 DEF InfoInv, Info!TypeOK, OpenInTable, VnodeHeld, Stuck, Info!vars
<1> DEFINE Goal == InfoInv'
<1> HIDE DEF Goal
<1> SUFFICES Goal
  BY DEF Goal
<1> QED  BY <1>1, <1>2, <1>3, <1>4, <1>5, <1>6, <1>7, <1>8, <1>9, <1>10, <1>11
         DEF Goal, Info!Next, Info!Others, Info!Tool

\* The invariant holds of every behaviour of fileinfo.
LEMMA InfoRight == Info!Spec => []InfoInv
BY InfoInit, InfoStepKeeps, PTL DEF Info!Spec

\* fs_blockinfo finds the inode in the table of MFS and not a null pointer
\* (blockinfo.c, find_inode), for any number of processes, files and filps.
THEOREM FindsInode == Info!Spec => []RequestFindsInode
<1>1. InfoInv => RequestFindsInode
  BY DEF InfoInv, VnodeHeld, RequestFindsInode, Info!RequestFindsInode
<1> QED  BY <1>1, InfoRight, PTL

\* do_fileinfo lists the processes of one filp that refers to a file of that
\* number, and whoever it lists has inherited that opening.
LEMMA ListsOne ==
    ASSUME InfoInv, Info!Next, where = "list", where' = "listed"
    PROVE  \E f \in Info!Filp : \A p \in pids' : f \in fds[p] /\ filp[f].nr = ino.nr
<1>1. Info!DoFileinfo
  BY DEF Info!Next, Info!Others, Info!Tool, Info!Open, Info!Fork, Info!Close, Info!Remove,
     Info!TakeMount, Info!LeaveMount, Info!Stat, Info!EatPath, Info!FsBlockinfo,
     Info!PutVnode
<1>2. CASE pids' = {}
  <2>1. 1 \in Info!Filp
    BY FileInfoAssumption DEF Info!FileInfoAssumption, Info!Filp
  <2> QED  BY <1>2, <2>1
<1>3. CASE pids' # {}
  <2>1. Info!Matching # {} /\ pids' = Info!Holders(Info!Min(Info!Matching))
    BY <1>1, <1>3 DEF Info!DoFileinfo, Info!Listed
  <2>2. Info!Min(Info!Matching) \in Info!Matching
    BY <2>1, LeastFilp DEF Info!Matching
  <2> QED  BY <2>1, <2>2 DEF Info!Holders, Info!Matching
<1> QED  BY <1>2, <1>3

\* A read lock that eat_path has taken is never given back.
LEMMA LocksKept == Info!Next => locked \subseteq locked'
BY DEF Info!Next, Info!Others, Info!Tool, Info!Open, Info!Fork, Info!Close, Info!Remove,
   Info!TakeMount, Info!LeaveMount, Info!Stat, Info!DoFileinfo, Info!EatPath,
   Info!FsBlockinfo, Info!PutVnode

\* What the two calls of the tool leave behind (vfs/fileinfo.c): a list of one
\* opening, whichever device it is on, and read locks of the vnode and of the mount
\* that nobody gives back, so that the inode never leaves the table of MFS and no
\* call has the mount to itself again.
THEOREM CallsLeave == Info!Spec => CallsOfTool
<1> DEFINE OneOpening == where = "list" /\ where' = "listed" =>
               \E f \in Info!Filp : \A p \in pids' : f \in fds[p] /\ filp[f].nr = ino.nr
           Stay == \A i \in locked : i \in locked' /\ i \in table' /\ i.dev \notin taken'
<1>1. InfoInv /\ [Info!Next]_(Info!vars) => [OneOpening]_(Info!vars)
  BY ListsOne
<1>2. InfoInv /\ InfoInv' /\ [Info!Next]_(Info!vars) => [Stay]_(Info!vars)
  BY LocksKept DEF InfoInv, Stuck
<1>3. Info!Spec => [][OneOpening]_(Info!vars)
  BY <1>1, InfoRight, PTL DEF Info!Spec
<1>4. Info!Spec => [][Stay]_(Info!vars)
  BY <1>2, InfoRight, PTL DEF Info!Spec
<1> QED  BY <1>3, <1>4, PTL
         DEF CallsOfTool, Info!CallsOfTool, Info!ListsOneOpening, Info!LocksStay
-----------------------------------------------------------------------------
(* The aliases of the shell. *)

\* Where a file has a definition of a word, Find gives the first one.
LEMMA FindFirst ==
    ASSUME NEW f \in Seq(Alias!Pair), NEW w \in Typed
    PROVE  \/ /\ \A i \in DOMAIN f : f[i].name # w
              /\ Alias!Find(f, w) = NoWord
           \/ \E i \in DOMAIN f : /\ f[i].name = w
                                  /\ \A j \in DOMAIN f : f[j].name = w => i <= j
                                  /\ Alias!Find(f, w) = f[i].value
<1> DEFINE hits == {i \in DOMAIN f : f[i].name = w}
<1>1. Alias!Find(f, w) = IF hits = {} THEN NoWord
                         ELSE f[CHOOSE i \in hits : \A j \in hits : i <= j].value
  BY DEF Alias!Find
<1>2. hits \subseteq Nat
  OBVIOUS
<1>3. CASE hits = {}
  BY <1>1, <1>3
<1>4. CASE hits # {}
  <2>1. \E i \in hits : \A j \in hits : i <= j
    BY <1>2, <1>4, LeastNumber
  <2>2. PICK i \in hits : /\ \A j \in hits : i <= j
                          /\ i = CHOOSE k \in hits : \A j \in hits : k <= j
    BY <2>1
  <2> QED  BY <1>1, <1>4, <2>2
<1> QED  BY <1>3, <1>4

\* A further definition does not change what a defined word stands for.
LEMMA FindKept ==
    ASSUME NEW f \in Seq(Alias!Pair), NEW e \in Alias!Pair, NEW w \in Typed,
           Alias!Find(f, w) # NoWord
    PROVE  Alias!Find(Append(f, e), w) = Alias!Find(f, w)
<1> DEFINE g == Append(f, e)
<1>1. PICK i \in DOMAIN f : /\ f[i].name = w
                            /\ \A j \in DOMAIN f : f[j].name = w => i <= j
                            /\ Alias!Find(f, w) = f[i].value
  BY FindFirst
<1>2. /\ g \in Seq(Alias!Pair) /\ DOMAIN f = 1..Len(f) /\ DOMAIN g = 1..Len(f) + 1
      /\ Len(f) \in Nat /\ \A j \in 1..Len(f) : g[j] = f[j]
  OBVIOUS
<1>3. i \in DOMAIN g /\ g[i].name = w /\ g[i].value = f[i].value
  BY <1>1, <1>2
<1> HIDE DEF g
<1>4. PICK k \in DOMAIN g : /\ g[k].name = w
                            /\ \A j \in DOMAIN g : g[j].name = w => k <= j
                            /\ Alias!Find(g, w) = g[k].value
  BY <1>2, <1>3, FindFirst
<1>5. k = i
  <2>1. k <= i
    BY <1>3, <1>4
  <2>2. k \in 1..Len(f)
    BY <1>1, <1>2, <1>4, <2>1
  <2>3. i <= k
    BY <1>1, <1>2, <1>4, <2>2
  <2> QED  BY <1>2, <1>1, <2>1, <2>2, <2>3
<1> QED  BY <1>1, <1>3, <1>4, <1>5 DEF g

\* Until it has read a profile, a shell is at home where its user is.
AtLogin == \A s \in Shell : pc[s] = "start" => home[s] = Login

\* The inductive invariant of the aliases.
AliasInv == Alias!TypeOK /\ AtLogin

\* The shells start with it.
LEMMA AliasInit == Alias!Init => AliasInv
<1> SUFFICES ASSUME Alias!Init PROVE AliasInv
  OBVIOUS
<1>1. entries \in [Dir -> Seq(Alias!Pair)]
  <2>1. \A e \in Alias!Pair : <<e>> \in Seq(Alias!Pair)
    OBVIOUS
  <2>2. ASSUME NEW d \in Dir PROVE entries[d] \in Seq(Alias!Pair)
    <3>1. entries[d] \in {<<>>} \cup {<<e>> : e \in Alias!Pair}
      BY DEF Alias!Init
    <3>2. entries[d] = <<>> \/ \E e \in Alias!Pair : entries[d] = <<e>>
      BY <3>1
    <3>3. CASE entries[d] = <<>>
      BY <3>3
    <3>4. CASE \E e \in Alias!Pair : entries[d] = <<e>>
      BY <2>1, <3>4
    <3> QED  BY <3>2, <3>3, <3>4
  <2>3. entries = [d \in Dir |-> entries[d]]
    BY DEF Alias!Init
  <2> QED  BY <2>2, <2>3
<1>2. Alias!TypeOK
  BY <1>1, AliasAssumption DEF Alias!Init, Alias!TypeOK, Alias!Path, Alias!AliasAssumption
<1> QED  BY <1>2 DEF AliasInv, AtLogin, Alias!Init

\* Every step of a shell keeps it.
LEMMA AliasStepKeeps == AliasInv /\ [Alias!Next]_(Alias!vars) => AliasInv'
<1> SUFFICES ASSUME AliasInv, [Alias!Next]_(Alias!vars) PROVE AliasInv'
  OBVIOUS
<1>a. Alias!TypeOK /\ AtLogin /\ Login \in Dir
  BY AliasAssumption DEF AliasInv, Alias!AliasAssumption
<1>1. CASE UNCHANGED Alias!vars
  BY <1>a, <1>1 DEF AliasInv, AtLogin, Alias!TypeOK, Alias!vars
<1>2. ASSUME NEW s \in Shell, Alias!Start(s) PROVE AliasInv'
  <2> DEFINE found == IF profile[home[s]] # "absent" THEN profile[home[s]] ELSE profile[dir[s]]
  <2>1. home[s] \in Dir /\ dir[s] \in Dir
    BY <1>a, <1>2 DEF AtLogin, Alias!Start, Alias!TypeOK
  <2>2. found \in Alias!Path
    BY <1>a, <1>2, <2>1 DEF Alias!TypeOK, Alias!Start
  <2>3. CASE /\ pc' = [pc EXCEPT ![s] = "ready"]
             /\ home' = [home EXCEPT ![s] = found]
             /\ dir' = IF found \in Dir THEN [dir EXCEPT ![s] = found] ELSE dir
    <3>1. home' \in [Shell -> Alias!Path] /\ dir' \in [Shell -> Dir]
      BY <1>a, <2>2, <2>3 DEF Alias!TypeOK
    <3> QED  BY <1>a, <1>2, <2>3, <3>1 DEF AliasInv, AtLogin, Alias!TypeOK, Alias!Start
  <2>4. CASE pc' = [pc EXCEPT ![s] = "crashed"] /\ UNCHANGED <<home, dir>>
    BY <1>a, <1>2, <2>4 DEF AliasInv, AtLogin, Alias!TypeOK, Alias!Start
  <2> QED  BY <1>2, <2>3, <2>4 DEF Alias!Start
<1>3. ASSUME NEW s \in Shell, Alias!StartWithoutProfile(s) PROVE AliasInv'
  <2>1. home[s] \in Dir
    BY <1>a, <1>3 DEF AtLogin, Alias!StartWithoutProfile
  <2>2. dir' \in [Shell -> Dir]
    BY <1>a, <1>3, <2>1 DEF Alias!TypeOK, Alias!StartWithoutProfile
  <2>3. pc' = [pc EXCEPT ![s] = "ready"] \/ pc' = [pc EXCEPT ![s] = "crashed"]
    BY <1>3 DEF Alias!StartWithoutProfile
  <2> QED  BY <1>a, <1>3, <2>2, <2>3 DEF AliasInv, AtLogin, Alias!TypeOK, Alias!StartWithoutProfile
<1>4. ASSUME NEW s \in Shell, NEW path \in Dir, Alias!ChangeDirectory(s, path) PROVE AliasInv'
  BY <1>a, <1>4 DEF AliasInv, AtLogin, Alias!TypeOK, Alias!ChangeDirectory
<1>5. ASSUME NEW s \in Shell, NEW pair \in Alias!Pair, Alias!SetAlias(s, pair) PROVE AliasInv'
  BY <1>a, <1>5 DEF AliasInv, AtLogin, Alias!TypeOK, Alias!SetAlias, Alias!CanOpen
<1>6. ASSUME NEW s \in Shell, Alias!AppendPair(s) PROVE AliasInv'
  <2>1. home[s] \in exists /\ def[s] \in Alias!Pair /\ home[s] \in Dir
    BY <1>a, <1>6 DEF AliasInv, AtLogin, Alias!TypeOK, Alias!AppendPair
  <2>2. entries' = [entries EXCEPT ![home[s]] = Append(@, def[s])]
    BY <1>a, <1>6 DEF Alias!AppendPair
  <2>3. Append(entries[home[s]], def[s]) \in Seq(Alias!Pair)
    BY <1>a, <2>1 DEF Alias!TypeOK
  <2>4. entries' \in [Dir -> Seq(Alias!Pair)] /\ \A d \in Dir \ exists : entries'[d] = entries[d]
    BY <1>a, <2>1, <2>2, <2>3 DEF Alias!TypeOK
  <2> QED  BY <1>a, <1>6, <2>4 DEF AliasInv, AtLogin, Alias!TypeOK, Alias!AppendPair
<1>7. ASSUME NEW s \in Shell, Alias!SetAliasCrashes(s) PROVE AliasInv'
  BY <1>a, <1>7 DEF AliasInv, AtLogin, Alias!TypeOK, Alias!SetAliasCrashes
<1> QED  BY <1>1, <1>2, <1>3, <1>4, <1>5, <1>6, <1>7 DEF Alias!Next

\* The types hold of every behaviour of the shells.
LEMMA AliasTypes == Alias!Spec => []Alias!TypeOK
<1>1. AliasInv => Alias!TypeOK
  BY DEF AliasInv
<1> QED  BY <1>1, AliasInit, AliasStepKeeps, PTL DEF Alias!Spec

\* A file that is there stays, and what it says of a word stays.
LEMMA FilesStay ==
    ASSUME Alias!TypeOK, Alias!Next, NEW d \in exists, NEW w \in Typed,
           Alias!Find(entries[d], w) # NoWord
    PROVE  d \in exists' /\ Alias!Find(entries'[d], w) = Alias!Find(entries[d], w)
<1>1. PICK s \in Shell : \/ Alias!Start(s) \/ Alias!StartWithoutProfile(s)
                         \/ \E path \in Dir : Alias!ChangeDirectory(s, path)
                         \/ \E pair \in Alias!Pair : Alias!SetAlias(s, pair)
                         \/ Alias!AppendPair(s) \/ Alias!SetAliasCrashes(s)
  BY DEF Alias!Next
<1>2. exists \subseteq exists'
  BY <1>1 DEF Alias!Start, Alias!StartWithoutProfile, Alias!ChangeDirectory, Alias!SetAlias,
     Alias!AppendPair, Alias!SetAliasCrashes
<1>3. CASE entries' = entries
  BY <1>2, <1>3
<1>4. CASE Alias!AppendPair(s)
  <2>1. entries[d] \in Seq(Alias!Pair) /\ def[s] \in Alias!Pair /\ home[s] \in Dir /\ d \in Dir
        /\ entries \in [Dir -> Seq(Alias!Pair)]
    BY <1>4 DEF Alias!TypeOK, Alias!AppendPair
  <2>2. entries'[d] = entries[d] \/ entries'[d] = Append(entries[d], def[s])
    BY <1>4, <2>1 DEF Alias!AppendPair
  <2> QED  BY <1>2, <2>1, <2>2, FindKept
<1> QED  BY <1>1, <1>3, <1>4 DEF Alias!Start, Alias!StartWithoutProfile, Alias!ChangeDirectory,
         Alias!SetAlias, Alias!SetAliasCrashes

\* A running shell does not change its home.
LEMMA HomeStays ==
    ASSUME Alias!TypeOK, Alias!Next, NEW s \in Shell, Alias!Running(s)
    PROVE  home'[s] = home[s]
BY DEF Alias!TypeOK, Alias!Next, Alias!Running, Alias!Start, Alias!StartWithoutProfile,
   Alias!ChangeDirectory, Alias!SetAlias, Alias!AppendPair, Alias!SetAliasCrashes

\* A shell loses an alias only while there is no file in its home, and only
\* when it changes the directory or the file appears.
LEMMA LosesOnlyThen ==
    ASSUME Alias!TypeOK, Alias!Next, NEW s \in Shell, NEW w \in Typed,
           Alias!Running(s), Alias!AliasLost(s, w)
    PROVE  /\ home[s] \notin exists
           /\ dir'[s] # dir[s] \/ home[s] \in exists'
<1>1. Alias!Alias(s, w) # NoWord /\ Alias!Alias(s, w)' # Alias!Alias(s, w)
  BY DEF Alias!AliasLost
<1>2. home'[s] = home[s]
  BY HomeStays
<1>3. home[s] \notin exists
  BY <1>1, <1>2, FilesStay DEF Alias!Alias
<1>4. ASSUME dir'[s] = dir[s], home[s] \notin exists' PROVE FALSE
  BY <1>1, <1>2, <1>3, <1>4, FilesStay DEF Alias!Alias
<1> QED  BY <1>3, <1>4

\* Once no word means alias in any shell, only the directories still change,
\* and they do not count for a shell with a file in its home.
LEMMA MuteStays == Alias!TypeOK /\ Alias!Next /\ Alias!Mute => Alias!Mute'
<1> SUFFICES ASSUME Alias!TypeOK, Alias!Next, Alias!Mute PROVE Alias!Mute'
  OBVIOUS
<1>1. \A s \in Shell : pc[s] \in {"crashed", "ready"} /\ ~Alias!Given(s, "alias")
  BY DEF Alias!Mute, Alias!Given
<1>2. PICK s \in Shell, path \in Dir : Alias!ChangeDirectory(s, path)
  BY <1>1 DEF Alias!Next, Alias!Start, Alias!StartWithoutProfile, Alias!SetAlias,
     Alias!AppendPair, Alias!SetAliasCrashes
<1>3. /\ UNCHANGED <<exists, entries, pc, home>> /\ home[s] \in exists
      /\ \A t \in Shell \ {s} : dir'[t] = dir[t]
  BY <1>2 DEF Alias!ChangeDirectory, Alias!Given, Alias!Mute, Alias!TypeOK
<1>4. \A t \in Shell, w \in Typed : Alias!Meaning(t, w)' = Alias!Meaning(t, w)
  BY <1>3 DEF Alias!Meaning, Alias!Alias
<1> QED  BY <1>3, <1>4 DEF Alias!Mute

\* Definitions are for ever (grsAlias.c): a defined word keeps its alias in
\* every shell that has a file in its home, and the definition that forbids
\* further definitions stays as well; for any number of shells and words.
THEOREM DefinitionsStay == Alias!Spec => AliasesStay
<1> DEFINE Lasts == \A s \in Shell, w \in Typed : Alias!Running(s) /\ Alias!AliasLost(s, w) =>
                        /\ home[s] \notin exists
                        /\ dir'[s] # dir[s] \/ home[s] \in exists'
           Mutes == Alias!Mute => Alias!Mute'
<1>1. Alias!TypeOK /\ [Alias!Next]_(Alias!vars) => [Lasts]_(Alias!vars)
  BY LosesOnlyThen
<1>2. Alias!TypeOK /\ [Alias!Next]_(Alias!vars) => [Mutes]_(Alias!vars)
  BY MuteStays
<1>3. Alias!Spec => [][Lasts]_(Alias!vars)
  BY <1>1, AliasTypes, PTL DEF Alias!Spec
<1>4. Alias!Spec => [][Mutes]_(Alias!vars)
  BY <1>2, AliasTypes, PTL DEF Alias!Spec
<1> QED  BY <1>3, <1>4, PTL
         DEF AliasesStay, Alias!AliasesStay, Alias!AliasesLast, Alias!MuteForGood
-----------------------------------------------------------------------------
(* The three side by side. *)

\* In a behaviour of the three programs each behaves as its own specification
\* says, so that what is proved of it alone is true of the behaviour.
THEOREM EachForItself == MCSpec => Spec /\ Info!Spec /\ Alias!Spec
<1>1. MCInit => Init /\ Info!Init /\ Alias!Init
  BY DEF MCInit, FragIdle, AliasIdle
<1>2. [MCNext]_all => [Next]_vars
  BY DEF MCNext, FragStep, InfoStep, AliasStep, all
<1>3. [MCNext]_all => [Info!Next]_(Info!vars)
  BY DEF MCNext, FragStep, InfoStep, AliasStep, all, info, Info!vars
<1>4. [MCNext]_all => [Alias!Next]_(Alias!vars)
  BY DEF MCNext, FragStep, InfoStep, AliasStep, all, aliases, Alias!vars
<1> QED  BY <1>1, <1>2, <1>3, <1>4, PTL DEF MCSpec, Spec, Info!Spec, Alias!Spec

\* The variables of the three programs stay in their domains, whatever the
\* constants are.
THEOREM AllTyped == MCSpec => []AllTypesOK
<1>1. FragInv /\ InfoInv /\ AliasInv => AllTypesOK
  BY DEF FragInv, InfoInv, AliasInv, AllTypesOK
<1>2. Spec => []FragInv
  BY FragInit, FragStepKeeps, PTL DEF Spec
<1>3. Alias!Spec => []AliasInv
  BY AliasInit, AliasStepKeeps, PTL DEF Alias!Spec
<1> QED  BY <1>1, <1>2, <1>3, InfoRight, EachForItself, PTL
=============================================================================
