# TLA+ models of GJWorks

GJWorks is a collection of C programs: classic concurrency exercises with POSIX
threads, three additions to the MINIX 3 operating system (a mailbox service in
the process manager, a shell, two file-system reports) and a few small
algorithms.  This directory holds TLA+ models of the parts whose correctness
depends on order, on what several actors do, or on long sequences of calls; the
TLC models that check them; and TLAPS proofs of the results that hold for every
number of threads, rounds, processes, requests and slots.

## 1. Inventory

### Thread programs

| program | state | operations | interaction | correct when |
|---|---|---|---|---|
| `Diners_pblm` | one mutex per chopstick, a loop counter per thread | create, join; think, lock left, lock right, eat, unlock right, unlock left | threads share the mutexes; main waits in `pthread_join` | neighbours exclude each other; nothing but the circular wait can stop it |
| `Diners_pblm_sem` | the same and the semaphore `four_chairs` | the same, between `sem_wait` and `sem_post` | the same | as above, and it always ends |
| `Smoker_pblm` | counters of three ingredients, three semaphores, `table_mutex`, `condition_var` | agent: lock, serve, post, cond_wait, unlock; smoker: sem_wait, lock, consume, cond_signal, unlock | semaphores announce a pair, the condition variable its removal | no signal is lost, no pair taken twice, it ends |
| `array_merge_thread` | `count`, a mutex and a condition variable, three arrays | one thread per element ranks it in the other array | main hands every thread its index through `count` and the condition variable | every element lands at a place of its own, in order |
| `Mat_Mul_Threads` | three matrices, `num_threads` | slices of rows | threads share only the matrices | the slices cover every row once |

The hard parts are the interleavings, wakeups that nobody sent or that arrive too
early, and failing `pthread_create` (returning from `main` ends every thread).

### MINIX mailbox

`servers/pm/mailbox.c` adds five system calls to the process manager (PM): open,
close, deposit, retrieve, and the list of receivers.  State: the list of mailboxes
with their lists of owners, senders, receivers and messages; the last id; the
contexts of senders suspended on a full mailbox.  User processes reach it through
the wrappers in `lib/libc/sys-minix/mailbox.c` and block until PM replies.  PM is
one process that handles one message at a time, so there is no interleaving
inside a handler.  What is hard is the order of calls of several processes, the
suspended deposit (PM answers others before it), the signal that interrupts it,
and what the code does with memory it never initialised or has freed.  Correct
would mean: access only for those who opened, messages in order and each to all
its receivers once, bounded queues, a suspended sender resumed when there is room.

### GRS shell

`grsParser.c` reads lines and splits them, `grsProcess.c` forks, waits and keeps the
table of background processes, which its SIGCHLD handler updates; `grsMain.c` has
the SIGINT handler and reads the profile; `grsIfThenElse.c`, `grsRedirection.c`,
`grsPipes.c` and `grsAlias.c` are commands built on the first two.  Hard: signals
between any two steps, several children per signal, two `waitpid` that compete,
error paths that leave signals blocked, descriptors open or a second shell running.

### Filefrag

`servers/mfs/ext_frag.c` and `int_frag.c` scan the inode bitmap and keep a minimum,
maximum and average.  The tool `fileinfo.c` asks `vfs/fileinfo.c` for the processes that
have a file open, and through it `mfs/blockinfo.c` for its extents; `vfs/request.c`
makes the requests of VFS to the file servers, with the memory grants they need.  Hard:
locks, buffers and grants taken and not given back, files that change while a request is
with MFS, a server that calls itself, and the boundaries of the scans.

### Algorithms

Merge sort, heap sort, insertion sort, a binary tree, a hash table, two ways to remove
duplicates, an array intersection and two filters of numbers: sequential, no state
between calls but in the tree and the table, correct when they compute what they say.
What is hard in them are the ends of arrays and tables, and what an element has become
by the time the next step reads it.

## 2. What is modelled

| module | models | status |
|---|---|---|
| `Table` | what the two diners programs share: the seats and the chopsticks between them | complete |
| `Diners` | `Diners_pblm/diners_pblm.c` | complete |
| `DinersSem` | `Diners_pblm_sem/diners_pblm_sem.c`; implements `Diners` | complete |
| `Smokers` | `Smoker_pblm/smokers_pblm.c`; implements `SmokersTurns` | complete |
| `SmokersTurns` | what the smokers' program promises: strict turns at the table | abstract |
| `ArrayMerge` | `array_merge_thread.c`: main, the threads, the search | complete |
| `MatMul` | `Mat_Mul_Threads/mat_mul.c` | complete |
| `Mailbox` | `servers/pm/mailbox.c` and what PM's main loop does for it | complete, within section 6 |
| `Shell` | `grsParser.c`, `grsProcess.c`, the SIGINT handler of `grsMain.c`, `grsIfThenElse.c`, `grsRedirection.c`, `grsPipes.c` | complete, within section 6 |
| `ShellAlias` | `grsAlias.c`, the built-in commands, `loadProfile` and `setCwd` of `grsMain.c` | complete |
| `Fragmentation` | `mfs/ext_frag.c`, `mfs/int_frag.c` | complete |
| `FileInfo` | the tool `fileinfo.c`, `vfs/fileinfo.c`, `mfs/blockinfo.c` | all but the block numbers |
| `FsRequests` | `vfs/request.c` | the grants, the request and every way a function ends; not what messages hold |
| `Sorting` | `mergesort.c`, `Heap/main.c`, `Insertion_sort.cpp`, `duplicate_removal_method_1.c` (both methods), `array_intersection.cpp` | complete |
| `Numbers` | `top.c`, `patten_matching.c` | complete |
| `BinTree` | `BinaryTree/test.c` | complete |
| `HashTable` | the hash table of strings; implements `StringSet` on zeroed memory | complete |
| `StringSet` | what a table of strings promises | abstract |
| `*_proofs` | theorems: `Diners_proofs`, `DinersSem_proofs`, `Smokers_proofs`, `Mailbox_proofs`, `Shell_proofs`, `FsRequests_proofs`, `Programs_proofs` (`MatMul`, `ArrayMerge`, `Numbers`, `HashTable`), `Minix_proofs` (`Fragmentation`, `FileInfo`, `ShellAlias`) | see section 5 |
| `MC*` | TLC instances, see section 3 | |

An operator marked `\* mutant` is a wrong version of the definition that follows it.
No specification uses it.  Put in that definition's place it breaks a property of a
run, which shows that the run looks at the behaviour in question.

### Thread programs

One action is one library call of the program, together with the local steps up to the
next one (`count++` and the test of the `for` loop belong to the call before).  `pc`,
`agent` and `smoker` say what a thread does next; `main`, `at` and `next` stand for the
loops of `main`.  A mutex is its owner, a semaphore its value.  When `main` returns or
fails no thread moves any more: that ends the process.  `CreateFails` is the error path
of `pthread_create` at any of the creations.

In `Smokers`, `Wait` gives the mutex up and sleeps in one step, as
`pthread_cond_wait` promises, `Signal` moves a sleeping agent to `"relock"` and is lost
otherwise, and `SpuriousWakeup` moves it there without a signal if `AllowSpurious`.
The agent's program serves the next pair after any wakeup: the code has no loop
around `pthread_cond_wait`.

In `ArrayMerge` the same call of `main` is `Sleep`, `Count` is what follows it, and
`Signal` wakes main only if it sleeps; `spurious` is fixed at the start.  `Place` is the
ranking of one element.  `Search` follows the binary search on arrays that do not change,
so it is a value: a position, `Endless` (no branch applies to an equal element), or
`Wild` (the middle that was never set, or memory behind an empty array).  `arr3` is a
function on the places that were written.

In `MatMul` a row is one step, `C[r]` the set of slices that have computed it, so that a
row computed twice can be seen.  `Bound` divides as C does, towards zero, and the
argument may be zero or negative.  `Join0` is the `pthread_join` of the thread that was
never created.

### Mailbox

A handler is one action (or several, one for each way it ends): `Open`, `Close`,
`Deposit`, `Retrieve`, `GetReceiverList`; `Interrupt` is the signal code of PM that ends
a suspended call.  A list of `NODE`s is a sequence of processes; what the code does with
such a list is kept to the letter:

* `ListAppend`: given an empty list, `listAppend` changes its own parameter only.
* `Unlink`: a first node that is removed is freed and stays the head of the list.  A
  pointer to freed memory is the node `Bad`.
* `FreshHead`: the list heads of a new `MAILBOX` or `MESSAGE` hold what `malloc` left
  there: all zero, a pointer to an old node, or anything.
* `GetMailbox`: the `do`/`while` that never compares the last of several mailboxes.
* `ValidSender`, `Reaches`: loops that do not advance and so see only the first node.
* `NameRead`: the name without its NUL and what follows it on PM's stack.
* `Context`, `ContextDangles`: the saved contexts, and the freed first one.

`pm` says how PM ended, if it did: `"crashed"` by following NULL, `"hung"` in a loop,
`"undefined"` after following a pointer to no valid node or overrunning the stack.
After that nothing is claimed; every property is about PM while it is up.

### Shell

`Shell` is about processes and signals.  A process that runs the shell's code has a stack
of frames, one for each active `grsCmdLoop`: the SIGINT handler calls `grsCmdLoop` in the
middle of whatever was going on, and `fork` copies the whole stack.  A frame holds where
the loop is, the kind of line it executes, the child it waits for and who called
`grsSpawnProcess`.  Each action ends with a system call; signals that are not blocked are
delivered before the next one, and one of each kind is remembered while it is blocked.
Whether a `waitpid` that a handler interrupts goes on is not the shell's to say: `restarts`
is chosen at the start, TRUE as BSD and Linux do after `signal()`, FALSE as the process
manager of MINIX does, where it fails with EINTR (`WaitInterrupted`).

A node of `bgprocs` is linked first (`Link`) and filled afterwards (`Fill`), with SIGCHLD
open in between, and its status is never initialised.  So an entry is "junk" until the
handler stores a status in it; while its pid is not stored the handler may take it for the
child it has reaped ("stray"), or follow its `next` and crash (`HandlerCrash`).  `merged[p]`
counts the children of `p` that ended while a SIGCHLD was pending for it: what the handler,
which reaps one child for a signal, cannot catch up with.

| code | actions |
|---|---|
| `grsCmdLoop`, `grsFillCmd`, `grsCmdExec` | `ReadLine`, `EndOfFile`, `Exit`, `Crash`, `RunCommand`, `RunBackground`, `LineFails` |
| `grsSpawnProcess` | `BuiltIn`, `Fork`, `ForkFails`, `ChildUnblock`, `ChildReset`, `Exec`, `ExecFails`, `Link`, `Fill`, `WaitSleeps`, `WaitReturns`, `WaitFails`, `WaitInterrupted`, `Unblock` |
| `grsIfThenElse`, redirection | `RunIf`, `RunBranch`, `BranchInvalid`, `Redirect`, `CommandDone` |
| `handle_signal`, `childSignalHandler` | `Interrupt`, `Confirm`, `Decline`, `ChildSignal`, `HandlerCrash` |
| the system and the user | `Type`, `Kill`, `Suspend`, `Continue`, `ProgramExit` |

`ShellAlias` is about files that several shells share: `Alias` is the lookup, first in
the home and else in the current directory; `SetAlias` opens the file, `AppendPair` is the
`fclose` that fills it, with other shells in between; `Start` and `StartWithoutProfile`
are `loadProfile` with `setCwd`.  `loadProfile` copies name and value into arrays that lack
the byte for the NUL: a start may crash of it.

### Filefrag

`Fragmentation` scans the bitmap word by word and takes the reports inode by inode: `Scan`
gets the block of the map, `ScanWord` adds to `in_numb` (where `TableSize` may be passed)
until `ScanEnds`; the first 0 ends the list.  `ExamineExternal` and `ExamineInternal` are the two
loops, `Loop` is `get_internal_frag`'s loop that has no end of its own.  `pinned` and `held`
are the buffers and inodes that were taken and never put back; when there are none left
the server is `"down"`.  `Change` is any change of the files between two calls.

`FileInfo` composes the tool with `Open`, `Fork`, `Close` and `Remove` of other processes
and with calls that need a mount for themselves (`TakeMount`, `LeaveMount`).  A file is a
device and an inode number.  `DoFileinfo` runs in one piece, as VFS does, and compares the
number only, so it may list the processes of another device's file; `do_blockinfo` is
`EatPath`, `FsBlockinfo` and `PutVnode`, with the others in between, because VFS waits for
MFS twice.  `locked` are the files whose vnode and mount `eat_path` has locked for reading,
which nobody unlocks.  What that blocks: whoever wants the mount for itself, and the last
`put_vnode` of the vnode (`PutNode`), which locks it for itself before it lets go of the
inode.  Opening and closing lock a vnode in a way that goes with readers.

In `FsRequests` a function `req_x` is what distinguishes it from the others: the grants it
makes, in order, with their memory and access, and what it tests before or after.  `Send`
makes the grants, `Answer` is the server's, `Return` revokes them; other threads run in
between.  `Panic` is VFS ending itself: a `cpf_grant_*` that finds no slot, a name that
begins with '/' (`request.c:160`), a position that is too large (`request.c:780`);
`AssertFails` is the assertion of `req_stat` on the version it converts to, and `Return` of
`req_stat` may fail in `sys_vircopy` though the server has answered OK.  `req_lookup` asks
twice whether there is a second grant, before it sends and when it revokes; `SetGroups`
changes the answer between requests of the process.

### Algorithms

In `Sorting` one step runs one program on one input; the programs are folds of their loops
over C arrays (functions on `0..n-1`), with what they write outside a range or never write.
The merges of `mergesort.c` copy one element too many back, which for the first part is the
word of the allocator before the array: the array has an index -1, and when that word
changes the program is "undefined".  `Heap/main.c` is so with more numbers than its array
holds.  `rm_duplicate` is not compiled (`METHOD1` is commented out; with it `main` would write
the array as it is and drop the result): modelled is what the function returns, including
that it reads a fixed number of elements, behind shorter arrays too.
`Numbers` takes one turn of a loop per step.  `BinTree` and `HashTable` take any calls in
any order: a tree is its nodes with their pointers, a node's address the number of its
insertion, and what `search` returns from below the root is undefined; the table's hash
function is any function, bucket 0 begins with what was in memory.

## 3. The runs

| run | bounds | shows |
|---|---|---|
| `diners` | 4 philosophers, 2 rounds; no chairs, or 3 | in both programs neighbours exclude each other, stuck only in the circular wait, the run ends or reaches it; with chairs never stuck, always ends, implements `Diners` |
| `smokers` | 3 rounds, with and without spurious wakeups | the inductive invariant (no lost signal, no pair taken twice), never stuck, always ends; without spurious wakeups implements `SmokersTurns` by the mapping `Served`, `OnTable`, `Smoked` |
| `mailbox` | 2 processes, 2 messages, 1 text; a wild heap with 1 mailbox and 3 lists of receivers, which tell messages apart, a stale one with 2 mailboxes, a zeroed one with 2 mailboxes and 2 tails; names symmetric | queue bounded and kept, one saved context at most, sleepers have no room, nobody is ever unblocked; only the first mailbox and one sender ever work; names and ids unique; where PM can stop on a zeroed heap |
| `mailbox_open` | as `mailbox` | a counterexample: a mailbox that is open and has nobody on its lists |
| `shell` | 3 processes, 2 lines of any kind, 1 key | the table of background processes, foreground waits, zombies, the state of nested command loops |
| `shell_foreground` | 3 processes, 2 lines without `&`, 1 key; fair | one reader of the terminal, waits for the dead end, Ctrl-Z freezes |
| `shell_branch` | 3 processes, 2 lines with `if` | a counterexample: both branches of an `if` are run |
| `fs_requests` | 2 threads, 2 servers, 3 slots, every function; threads, servers and slots symmetric | grants live as long as their requests; panic for want of a slot only when others hold the slots |
| `minix` | 3 inodes, words of 2 bits, a table of 1 with 1 word behind it, 4 buffers, 2 inode slots; 2 processes, 3 files on 2 devices, 2 filps, 2 calls; 2 shells, 2 directories, 2 words, 1 definition per file | `Fragmentation` (types, the end of reports), `FileInfo`, `ShellAlias` |
| `filefrag` | as `minix` | a counterexample: a report on the file system that did not look at an inode in use |
| `programs` | arrays to merge of up to 2 elements out of 3, single elements against arrays of 3 and 4, spurious wakeups on the smallest; 4 rows and -1 to 6 threads; all numbers of the two number programs; 4 strings in 3 buckets; arrays to sort of up to 5 numbers out of 4, a heap of 4; trees of 5 nodes over 4 values | `ArrayMerge`: indices, places, result, end; `MatMul`: the product is complete; `Numbers`; `HashTable`, which implements `StringSet`; `Sorting`; `BinTree` |
| `top` | `Numbers` to its end | a counterexample: `top.c` prints a run of digits |

`MCMinix` and `MCPrograms` hold several programs that have nothing to do with one another.
A variable `running`, chosen at the start, says which of them a behaviour is of; the
others stay in one initial state.  Every property of theirs is the property of the
instance, under its name.  `MCDiners` does the same for the two programs (`withChairs`),
`MCSmokers` for a library with and without spurious wakeups (`strict`), `MCMailbox` for what
is in the heap (`heap`).  The type invariants and the smaller invariants of a module are
conjuncts of one (`MailboxInv`, `LoopInv`, `MergeInv`, `AllTypesOK`, `CallsOfTool`,
`ResultsRight`, `ArraysRight`, `TreeRight`); where a theorem proves them they are not checked
once more.

Four philosophers are enough for two to eat at once and for a chain of waiting
philosophers that is not the whole ring; a second round lets a fast one come back
while its neighbours are in the first.  Three rounds let a smoker be two pairs
behind after spurious wakeups.  In `Mailbox` the interesting numbers are none, the
first, the last and one more than the limit, which two processes, two mailboxes and
two messages give; `MaxChain` bounds how many processes join a list that exists
already.  In `Shell` three processes are the shell and two children, or a shell, the
second shell a failed exec leaves behind, and a child of either; two lines let the first
decide what the second meets, and one key falls into any place of both.  In
`FsRequests` three slots are one too few for two threads that need two each, so that
`Panic` for want of a slot happens, and happens only then.  In `FileInfo` two of the files have
one number on two devices.  The search of `ArrayMerge` takes two turns from
three elements on; its equal elements, empty arrays and single elements are among the
small inputs.  Merges of `Sorting` read what an earlier merge has left from three
elements on, and put zeros in the middle from four on.

Deadlock checking is off because the programs end, and the servers may stop.  States in
which a thread program cannot go on are excluded by `NeverStuck`, or characterised by
`StuckOnlyInCircularWait` and `EndsOrMissesSignal`, instead.

### Fairness

`FairSpec` of `Diners`, `DinersSem` and `Smokers` adds `WF_vars(Next)`: as long as some
thread can make its next call, some thread does.  No fairness among threads is needed,
because the loops are bounded: every step brings the program nearer to its end.  In
`Smokers` the fairness leaves `SpuriousWakeup` out, so that no property rests on a wakeup
that nobody sent.  In `ArrayMerge` a thread may search for ever, so main and each thread
have weak fairness of their own: the scheduler runs every thread.  In `Shell` every
process is scheduled and programs end (`WF_vars(Step(p))`); the user need not type
anything.  In `Fragmentation` MFS goes on with a call it has begun (`WF_vars(Work)`);
nobody need call it.  The other runs are about safety alone.

## 4. What the runs found

* `diners_pblm.c` can stop for ever, and only in the circular wait.  The chairs of
  `diners_pblm_sem.c` remove exactly that; they allow nothing the first program does
  not.  The literal 4 in `sem_init` is the assumption `NumChairs < NumPhilosophers`.
* `smokers_pblm.c` ends correctly even with spurious wakeups, although its agent tests
  nothing after `pthread_cond_wait`; but the strict turns at the table are lost then.
* `array_merge_thread.c` may sleep for ever if the new thread signals before main waits
  (`EndsOrMissesSignal`); a spurious wakeup lets two threads take one index (which is why
  `IndexOnce` is about runs without them); an element of both arrays may be
  searched for ever.  Distinct elements that are placed are placed right (`MergeInv`).
* The slices of `mat_mul.c` cover every row for any positive number of threads
  (`DoneMeansProduct`, a part of `ResultsRight`), once (`OneSlicePerRow`), although main joins a thread it never
  created: that join may crash, but does not let it print too early.
* `mailbox.c` works, in a very narrow sense, only on a heap that is not zeroed.  With a
  zeroed heap an opened mailbox admits nobody: `mailbox_open` shows it against the comment
  of `listAppend` (`mailbox.c:95`).  All that PM can do then is to crash on NULL, after the
  first open (`ZeroedHeapStops`).  With stale list heads one sender can fill the first
  mailbox (`OneSenderOneQueue`); messages are read but never removed (`QueueKept`), so a
  full mailbox stays full, a suspended sender is never resumed (`SleepersHaveNoRoom`,
  `NeverUnblocked`), and the code in PM's main loop that would resume it is dead.
* A status that the handler has stored for the pid of an entry is that of a reaped process
  (`RecordedMeansReaped`); nothing is said of a status nobody has stored, which the listing
  prints as it finds it.  An end is missed only if SIGCHLD comes before the pid is in the
  table (`EndMissedOnlyBefore`), which may also crash the shell.  A shell has no more zombies
  than children that ended while an earlier SIGCHLD was pending, and the one whose signal is
  to be handled (`ZombieOnlyOfSeveral`).
* Where interrupted calls are restarted no foreground wait returns before its child is dead
  (`ForegroundFinished`).  Where they are not, as on MINIX, the end of a background process
  ends it early: the shell takes the next line while the command runs.  Every wait for a
  dead child ends, although the handler competes for it (`WaitEnds`).
* Ctrl-Z while a foreground command runs stops the command and not the shell, which waits
  on: neither ever continues, where calls are restarted (`FrozenForGood`).
* After a failed `execvp` the child goes on as a second shell.  It runs the else branch of
  an `if` while the parent runs the then branch: `shell_branch` shows it against the
  comment in `grsIfThenElse.c:16`.  The parent alone never runs an else branch
  (`ElseOnlyInChild`), since an exit status is never -1.  Without background commands
  the two shells still never read the terminal at once, where calls are restarted (`OneReader`).
* After a built-in command the prompt is deaf to Ctrl-C (`DeafAtPrompt`); a Ctrl-C during a
  redirected command gives a prompt that reads or writes the file
  (`RedirectedPromptIsNested`) and may turn a pending line into a plain command
  (`FlagOfThisLineOrNone`).
* An alias changes only while there is no file in the shell's home; once no word means
  `alias` in any shell no definition is ever made again (`AliasesStay`): an alias for
  `alias` locks everybody out, because aliases are looked up before built-in commands.
* The fragmentation reports do not look at the files: `filefrag` shows it against the
  comments of `filefrag.c:9` and `:10`.  The bit of inode 0 ends the list before it begins;
  without it only the first inode of each word would be looked at; and the three numbers of
  the external report are one (`ReportsMissFiles`, proved).  The reports end, because the
  loop without an end uses up the buffers; the report on a file never ends when MFS serves
  the root, because its `stat` comes back to it (`ReportEnds`).
* `fileinfo` lists the processes of one opening of a file with that number, not of all, and
  maybe of a file of another device (`ListsOneOpening`).  `do_blockinfo` always finds its
  inode, whoever removes the file (`RequestFindsInode`), but leaves the locks on mount and
  vnode for good (`LocksStay`): no call gets the mount for itself again, and the last close
  of the file waits for ever.
* `request.c` gives back every grant on every path (`GrantsOfRequests`), so for want of a slot
  VFS panics only when requests in progress hold the slots; two slots for each thread
  suffice (`SlotsSuffice`).
* `mergesort.c` sorts although each merge overwrites the element before its part, as long as
  the word before the whole array bears it, and except that one number alone is never
  copied; the duplicate removal by merging removes them although zeros come into the middle
  of its parts (`ArraysRight`).
* `top.c` leaves out every run of two or three digits; its third loop works on what the
  second left, and prints 1234 and 2345: `top` shows it against `top.c:11`.
* The tree stays a search tree and is freed from below (`TreeRight`).  The hash table can be
  relied upon in every bucket but 0 (`OthersKept`), and is a set on zeroed memory
  (`ImplementsSet`).

## 5. What is proved

TLAPS checks the following for every value of the constants that the `ASSUME`s allow.

**Diners** (any number of philosophers of at least two, any number of rounds): `TypeOK`,
`ChopsticksAccounted`, `NeighboursExclude`, `StuckOnlyInCircularWait`,
`SuccessMeansAllAte`.  The inductive invariant `DinersInv` is `TypeOK`,
`ChopsticksAccounted` and `Stage`, which ties the loops of main to the places of the
philosophers: `ChopsticksAccounted` needs it, or a philosopher born twice would forget
the chopsticks it holds.  That a stuck state is the circular wait is an argument around
the ring: a philosopher blocked on its right chopstick has a right neighbour that holds
it, and since that one is blocked too it holds it as its left one and waits for its own
right; the lemma `RingInduction` carries this to everybody, and `LeastNatural` gives
induction without an induction theorem.

**DinersSem** (any number of chairs below that of philosophers): the same with
`ChairsAccounted`, `NeverStuck` and the refinement of `Diners`.  Of run `diners`, whose
behaviours are those of either program, `EitherInv` is the invariant: `SemInv` or `DinersInv`.  `SemInv` adds
`ChairsAccounted`: in the circular wait everybody would be seated, more than the
semaphore lets in.  The refinement maps a philosopher waiting for a chair to one that is
about to lock, and one that has not yet stood up to one that has finished its round.
`RingInduction` is cited through the instance of `Diners_proofs` under that mapping.

**Smokers** (any number of rounds, with and without spurious wakeups): `SmokersInv`, which
run `smokers` checks as it stands, and from it `NoLostWakeup`, `NeverStuck`,
`SuccessMeansAllSmoked`.  It consists of `TypeOK`, `MutexAccounted`, `TableAccounted`,
`PairsAccounted`, `Stage` and `SignalToCome`, the form of `NoLostWakeup` that covers the
agent that is about to wait: it then owns the mutex, so the smoker that has been posted
cannot have signalled yet.  If everybody were stuck, the sleeping agent's pair would be
one more than its smoker has rounds, which `PairsAccounted` excludes.
`TakesTurns` is the refinement of `SmokersTurns` by the behaviours without spurious
wakeups.  It rests on `OnePair`: the one pair that is on its way, or whose smoker has yet to
signal, is the one the agent has served last and waits for.  So the agent serves only when
the table is empty, a smoker takes only what has been served last, and every other step
leaves `Served`, `OnTable` and `Smoked` alone.  With spurious wakeups `OnePair` is false.

**MatMul** (any number of rows, any arguments): `TypeOK`, `RowOfOneSlice`
(`OneSlicePerRow`), `DoneMeansProduct`.  The arithmetic is in lemmas: `Division` characterises `\div`,
`BoundOrder` says that the bounds of the slices grow, `SlicesDisjoint` and `SlicesCover` that
every row is between two neighbouring ones: it belongs to the largest slice whose bound
has not passed it, which a division finds.  The invariant adds to `TypeOK` that a slice has computed exactly the rows from
its bound to where it is (`Computed`), stays between its bounds (`Within`), and that main
has waited for those it has joined (`Waited`).

**ArrayMerge** (sorted arrays of any length, of any integers): `IndexOnce` and `MergeInv`.  The
first holds because at most one thread at a time has not read its index, which is
`MergeTurns`: those before `i` have signalled and those after it do not exist.  `count` equals
`i`, and main goes on only after a signal, which a thread sends after it has read
`count`.  With spurious wakeups that is false, hence `MergeIInv` only speaks of runs without.
The rest is about what a thread finds:

* The search is a loop whose bounds come closer together.  `LoopExists` builds the recursive
  function for bounds that are near and then for ones that are farther apart,
  `SearchInduction` proves facts about it in the same order.  So the search returns the middle
  of two neighbours, or never ends and then for an element of the other array, or has not
  begun because there is one element (`SearchRange`); for an element of one array only, the
  neighbours are those it belongs between (`SearchFinds`).
* `PositionSplits` says that a position is where the element splits the other array, and
  `PlaceBelongs` that this is where it belongs, counting the smaller elements of both.
  Different threads' elements belong to different places (`BelongingOnce`).
* The invariant `MergeStrong` adds to `MergeInv` that a thread that has ended has written the
  element of its index where it belongs (`MergeWritten`).  When main is done all have; with
  `IndexOnce` they are as many elements as there are places, none of which is then left over,
  and the result is the merged array.

**Numbers** (the programs have no parameter): `NumbersRight`, which gives what both programs
print up to any point of their run: all of `patten_matching.c`, the numbers below 1000 of `top.c`.  The digits of a number are a recursive function;
`DigitsExist` and `MoreDigits` unfold it, and `FoundUp` and `FoundDown` say that the strings of the
code have exactly the runs of two to four digits in them.

**HashTable** (any strings, number of buckets, hash function and memory): `TableRight`,
`OthersKept` and `ImplementsSet`.  `HashInv` adds that no list has two nodes without a string.
A node is added only where the walk has come to the end of its list or into wild memory,
which only bucket 0 has (`NewIs`).  In behaviours of "set" all nodes are strings of the
table (`AllStrings`), and every call is one of `StringSet`, or fails to create it (`SetStepGoes`).

These four are proved of their own steps; in run `programs` one of them moves and the others
stand still (`PartsStep`), so that `AllInv`, all their invariants together, is one of the run.

**Mailbox** (any numbers of processes, mailboxes, messages and texts; any heap, stale or
wild): `TypeOK`, `NamesAndIdsUnique`, `NeverUnblocked`, `MailboxInv`, `OneSenderOneQueue` and the
action property `QueueKept`.  The invariant `IInv` is the types, ids that equal positions, at
most one saved context, and two facts about pointers, which `MailboxInv` contains so that the
runs check them too:

* `QueuesInv`: only the first mailbox has messages other than the freed node, and all of
  them are of the sender its list of senders begins with (`BeginsWith`).  That list keeps its
  first process: `ListAppend` gives a list that is not empty a new end, and `Unlink` leaves a
  freed first node where it is.
* `ContextsInv`: a saved context is of that same sender and for the first mailbox, which
  is full; nothing is ever removed, so it stays full and nobody is resumed.

The handlers are sorted into `Kinds` first (a mailbox is replaced or created, a context
saved, or nothing that counts changes), so that the invariant is proved once for each kind
and not once for each way a handler ends.  `ZeroedHeapHolds` is about the specification of run
`mailbox`, whose heap may be zeroed: all lists stay empty then (`ZeroedInv`).

**Shell** (any number of processes, lines and keys): every invariant and every action
property the runs check.  `TypeOK` says that only a process that runs the shell's code has
frames, `RecordedMeansReaped` that also in the copies of the table that `fork` makes a stored
status is that of a reaped process.  For the rest the invariant `IInv` is `TypeOK`,
`LoopsInv` and `FamilyRight`, all parts of `LoopInv`, which run `shell` checks:

* `FramesRight`, `MaskRight`, `FlagRight`, `StdioRight` and `ChildrenRight` let the stack of
  command loops account for the blocked signals, the flag of the line, the redirection and
  the children of a process.  A loop below the innermost has been interrupted where Ctrl-C
  is not blocked, so what it has saved never holds SIGINT, and the mask is right again when
  the loop above it ends.
* `FamilyRight`: who is stopped lives; whoever exists and has a parent has a live one;
  tables name processes that exist; zombies are accounted for by `merged` and the pending
  SIGCHLD.

From it follow `LoopInv`, `ForegroundFinished` and `ZombieOnlyOfSeveral`, and the action
properties `EndMissedOnlyBefore` and `FrozenForGood`: a shell that waits for a stopped child
can only run its SIGCHLD handler or go to sleep, and neither lets the child go on.
`ForegroundFinished`, `OneReader` and `FrozenForGood` speak of systems that restart calls
(`restarts`).  `OneReader` is proved for lines without `&`, which is how run
`shell_foreground` checks it, from `OneHangs`: one live process at most does not wait for a live child.  `fork` passes this part on
to the child, and the child's end gives it back.  The steps are sorted into `Kinds` here too.

**FsRequests** (any finite numbers of threads, servers and slots): `TypeOK`,
`GrantsOfRequests`, `PanicsOnlyWhenHeld`, and `SlotsSuffice`: with two slots for every thread
VFS never panics for want of a slot.  The invariant adds `RequestsFit`: a request has as many slots as grants,
and the two answers that `req_lookup` gets about groups are the same, because a process
does not call VFS twice at a time.  That used slots are at most two for each busy thread
is a counting argument: every one of them is the image of a thread and 1 or 2.

**Fragmentation** (disks, tables, caches and files of any size): `TypeOK` and
`ReportsMissFiles` (theorem `ReportsMiss`).  `FragInv` adds what MFS knows in the middle of a call: the scan is
at the first bit of a word and lists nothing but such bits (`FirstBits`); when bit 0 is
set 0 is listed first, and the loop over the list never gets past it (`ZeroFirst`); between
calls nothing is left of the last list (`InCall`).  That the external report is one number is
`CountSame`: counting the same number again changes nothing.

**FileInfo** (any numbers of processes, files, devices and filps): `TypeOK`,
`RequestFindsInode` and both action properties in `CallsOfTool`.  `InfoInv` adds to `TypeOK`
that whatever a filp refers to is in the table (`OpenInTable`), that `do_blockinfo` has the
vnode from `eat_path` to `put_vnode` (`VnodeHeld`), and that what is locked is in the table and
its mount is nobody's alone (`Stuck`).  The inode is found because the last `put_vnode` of a
removed file takes away only what has no filp and no vnode left; the locks stay because
nothing gives them back, and what they keep out are exactly the steps that would end `Stuck`.

**ShellAlias** (any numbers of shells, words and directories): `TypeOK` and `AliasesStay`.  The
lemma `FindKept` says that a further definition at the end of a file does not change what a
defined word stands for, `FilesStay` that nothing but such definitions happens to a file.
`TypeOK` is not inductive alone: a shell that has not started must still have the home of
its user (`AtLogin`), or it would look for a profile in a directory that does not exist.

These three are proved of their own specifications; `EachForItself` says that the behaviours
of run `minix` are behaviours of all three, and `AllTyped` is `AllTypesOK` of that run.

The proofs assume what the `ASSUME`s of the modules say and nothing else, but for the two
hypotheses named above: lines without `&` in `ReadsAlone`, two slots for every thread in
`SlotsSuffice`.

Only model-checked:

* liveness (`Ends` of the smokers, `EndsOrCircularWait`, `EndsWithChairs`, `EndsOrMissesSignal`,
  `WaitEnds`, `ReportEnds`), since fairness and ENABLED are out of the prover's reach;
* `Sorting` and `BinTree` (`ArraysRight`, `TreeRight`), folds over sequences and recursive
  functions over trees, whose results for every input need induction over that data.  What
  `ArrayMerge` and `Numbers` compute recursively is written as recursive functions on numbers
  and records of numbers, for which `LeastNatural` and `NaturalStep` give induction.

## 6. What is not modelled, and why

* Printing, sleeping and the text of messages.
* In `Mailbox`: names longer than the buffers, empty names and texts, `malloc` returning
  NULL, processes that exit and leave their slot to another, and list heads that point
  into a list in use.  After PM has followed a dangling pointer (`"undefined"`) nothing more is
  explored.
* The rest of the process manager: MINIX's own code, met only as `Call`, `Reply` and
  `Interrupt`.  `unblockSystemCalls` is left out because nothing can make it run.
* In `Shell`: lines that begin with a separator or have more words than the arrays hold,
  pids used again, the descriptor `grsRedirection.c:36` leaves open, and `grsCheckBgProcs`, which
  nothing calls.
* In `FileInfo`: the block numbers that `fs_blockinfo` goes through; it does not report what
  it counts in them.  In `FsRequests`: what messages and
  answers contain, and which answers are copied to the caller.
* `grsApplicationProgram`, the mailbox demo and its test program, `filefrag.c`: they make
  calls one after the other and keep no state that others see.
* MINIX headers and tables: declarations with an entry added.

## 7. Plan

1. Proofs: the loops of `Sorting` as recursive functions on pairs of bounds in place of the
   folds, as the search of `ArrayMerge` has it.
2. `Shell` and `ShellAlias` composed: a line whose word is looked up when it is dispatched, so
   that an alias decides what kind of command runs.
3. Processes that exit and leave their slot of PM to another one in `Mailbox`.
