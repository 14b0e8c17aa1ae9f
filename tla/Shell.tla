------------------------------- MODULE Shell --------------------------------
(***************************************************************************)
(* The processes of the GRS shell, Minix_shell/GRS_Source_Code: the command *)
(* loop (grsParser.c), fork, exec and wait (grsProcess.c), the handlers of *)
(* SIGINT (grsMain.c) and SIGCHLD, and the commands built on them: if/then/ *)
(* else (grsIfThenElse.c), redirection (grsRedirection.c), pipes           *)
(* (grsPipes.c).                                                           *)
(*                                                                         *)
(* A process that runs the shell's code has a stack of frames, one for each *)
(* active grsCmdLoop with the command it is executing: handle_signal calls *)
(* grsCmdLoop, and fork copies the whole stack.  A step ends with a system *)
(* call.  Signals that are not blocked are delivered before the next step; *)
(* one of each kind is remembered while it is blocked, and a signal is     *)
(* blocked while its handler runs.  Whether a call that a handler          *)
(* interrupts is restarted depends on the system: BSD and Linux do after   *)
(* signal(), the process manager of MINIX does not.  All processes are in  *)
(* the terminal's foreground group: no child has a group of its own.       *)
(*                                                                         *)
(* A line is known by the separator in it (grsFillCmd sets one flag, the   *)
(* header assumes one kind per line); whether its command is a built-in,   *)
(* exists or fails is a choice.  Lines that begin with a separator or have *)
(* more words than the arrays hold, and pids used again, are left out.     *)
(*                                                                         *)
(* Operators marked "mutant" are wrong versions of the definition after    *)
(* them: the specification does not use them.                              *)
(***************************************************************************)
EXTENDS Integers, FiniteSets, SequencesExt

CONSTANTS NumProc,     \* the limit of processes; 1 is the shell that is started
          Line,        \* the kinds of lines that are typed
          Key,         \* the signals typed at the terminal
          MaxLines,    \* bound of the model: lines typed
          MaxKeys      \* bound of the model: signals typed

ASSUME ShellAssumption ==
    /\ NumProc \in Nat \ {0} /\ MaxLines \in Nat /\ MaxKeys \in Nat
    /\ Line \subseteq {"command", "exit", "blank", "Background", "Pipe", "RedirIn",
                       "RedirOut", "IfThenElse"}
    /\ Key \subseteq {"INT", "TSTP"}

Pid == 1..NumProc

VARIABLES status,    \* status[p]: what p is; "shell" while it runs the shell's code
          code,      \* code[p]: the exit status of p
          parent,    \* parent[p]: the parent of p; 0 is init
          stack,     \* stack[p]: the active command loops of p, innermost last
          masked,    \* masked[p]: the signals p blocks
          pending,   \* pending[p]: the signals sent to p and not yet delivered
          confirms,  \* the processes whose handler of SIGINT is handle_signal
          stopped,   \* the processes stopped by SIGTSTP
          table,     \* table[p]: the list bgprocs of p
          flag,      \* flag[p]: grsGlobalFlags of p
          stdio,     \* stdio[p]: the redirection of p's descriptors 0 and 1
          lines,     \* the number of lines typed
          keys,      \* the number of signals typed
          restarts,  \* whether the system restarts the calls that it interrupts
          branches,  \* history: <<line, branch>> for every branch that was run
          merged     \* history: merged[p] children of p ended with SIGCHLD pending

user == <<lines, keys, restarts>>
vars == <<status, code, merged, parent, stack, masked, pending, confirms, stopped,
          table, flag, stdio, user, branches>>

\* What no process changes by steps of its own in the shell's code.
system == <<status, code, merged, parent, pending, confirms, stopped, table, user>>

Separator == {"Background", "Pipe", "RedirIn", "RedirOut", "IfThenElse"}

Prompt == [at |-> "prompt", line |-> "none", number |-> 0, cont |-> "line",
           child |-> 0, ret |-> 0, last |-> "none", saved |-> {}]

Init == /\ status  = [p \in Pid |-> IF p = 1 THEN "shell" ELSE "unused"]
        /\ code    = [p \in Pid |-> 0]
        /\ parent  = [p \in Pid |-> 0]
        /\ stack   = [p \in Pid |-> IF p = 1 THEN <<Prompt>> ELSE <<>>]
        /\ masked  = [p \in Pid |-> {}]
        /\ pending = [p \in Pid |-> {}]
        /\ confirms = {1}
        /\ stopped = {}
        /\ table   = [p \in Pid |-> <<>>]
        /\ flag    = [p \in Pid |-> "none"]
        /\ stdio   = [p \in Pid |-> "terminal"]
        /\ lines = 0 /\ keys = 0 /\ restarts \in BOOLEAN
        /\ branches = {} /\ merged = [p \in Pid |-> 0]

-----------------------------------------------------------------------------
(* Processes *)

Alive(p)    == status[p] \in {"shell", "program"}
Children(p) == {c \in Pid : parent[c] = p /\ (Alive(c) \/ status[c] = "zombie")}
Zombies(p)  == {c \in Children(p) : status[c] = "zombie"}
Deliverable(p) == pending[p] \ masked[p]

\* p takes its next step in the shell's code.
Runs(p) == status[p] = "shell" /\ p \notin stopped /\ Deliverable(p) = {}

Top(p)   == Last(stack[p])
At(p, place) == Runs(p) /\ Top(p).at = place
SetTop(p, frame) == stack' = [stack EXCEPT ![p][Len(stack[p])] = frame]
Goto(p, place)   == SetTop(p, [Top(p) EXCEPT !.at = place])

\* SIGCHLD is sent to the parent of p; a parent that is not a shell ignores it.
TellParent(p, now) == IF parent[p] \in Pid /\ status[parent[p]] = "shell"
                      THEN [now EXCEPT ![parent[p]] = @ \cup {"CHLD"}] ELSE now

\* One more child of p's parent shares a SIGCHLD that is pending already.
Merged(p, now) == IF parent[p] \in Pid /\ "CHLD" \in pending[parent[p]]
                  THEN [now EXCEPT ![parent[p]] = @ + 1] ELSE now

\* p ends.  init reaps what has no parent in the model any more.
Terminate(p, result) ==
    /\ status' = [q \in Pid |->
                    IF q = p THEN IF parent[p] = 0 THEN "reaped" ELSE "zombie"
                    ELSE IF q \in Zombies(p) THEN "reaped" ELSE status[q]]
    /\ parent' = [q \in Pid |-> IF q \in Children(p) THEN 0 ELSE parent[q]]
    /\ code'    = [code EXCEPT ![p] = result]
    /\ merged'  = Merged(p, [merged EXCEPT ![p] = 0])
    /\ stack'   = [stack EXCEPT ![p] = <<>>]
    /\ masked'  = [masked EXCEPT ![p] = {}]
    /\ pending' = TellParent(p, [pending EXCEPT ![p] = {}])
    /\ confirms' = confirms \ {p}
    /\ stopped' = stopped \ {p}
    /\ table'   = [table EXCEPT ![p] = <<>>]
    /\ flag'    = [flag EXCEPT ![p] = "none"]
    /\ stdio'   = [stdio EXCEPT ![p] = "terminal"]
    /\ UNCHANGED <<user, branches>>

-----------------------------------------------------------------------------
(* grsCmdLoop *)

\* The terminal belongs to the group until the shell that was started ends.
Terminal == status[1] \in {"shell", "program"}

\* getchar up to the newline, and grsFillCmd.
ReadLine(p, line) ==
    /\ At(p, "prompt") /\ Terminal /\ lines < MaxLines
    /\ lines' = lines + 1
    /\ SetTop(p, [Top(p) EXCEPT !.at = "dispatch", !.line = line, !.number = lines + 1])
    /\ flag' = [flag EXCEPT ![p] = IF line \in Separator THEN line ELSE "none"]
    /\ UNCHANGED <<status, code, merged, parent, masked, pending, confirms, stopped,
                   table, stdio, keys, restarts, branches>>

\* End of file ends the loop.  The first loop returns to main, the others to
\* handle_signal, and the kernel restores the mask of before the signal.
EndOfFile(p) ==
    /\ At(p, "prompt")
    /\ IF Len(stack[p]) = 1 THEN Terminate(p, 0)
       ELSE /\ stack'  = [stack EXCEPT ![p] = Front(@)]
            /\ masked' = [masked EXCEPT ![p] = Top(p).saved]
            /\ UNCHANGED <<system, flag, stdio, branches>>

\* The line is done: grsFreeArgv, grsClearFlags and the next prompt.
NextPrompt(p) == [Prompt EXCEPT !.last = Top(p).last, !.saved = Top(p).saved]

LineDone(p) == /\ SetTop(p, NextPrompt(p))
               /\ flag' = [flag EXCEPT ![p] = "none"]

SpawnUnmasked(p, cont) ==                                           \* mutant
    SetTop(p, [Top(p) EXCEPT !.at = "spawn", !.cont = cont]) /\ UNCHANGED masked

\* grsSpawnProcess up to its first sigprocmask.
Spawn(p, cont) ==
    /\ SetTop(p, [Top(p) EXCEPT !.at = "spawn", !.cont = cont])
    /\ masked' = [masked EXCEPT ![p] = @ \cup {"INT", "TSTP"}]

\* A line is dispatched by the flags alone.
Selected(p, f) == At(p, "dispatch") /\ flag[p] = f

Exit(p) == Selected(p, "none") /\ Top(p).line = "exit" /\ Terminate(p, 0)

\* A blank line is a NULL command, and grsPipeHandle appends to a string
\* literal: the process is killed by SIGSEGV.
Crash(p) == /\ \/ Selected(p, "none") /\ Top(p).line = "blank"
               \/ Selected(p, "Pipe")
            /\ Terminate(p, 0)

RunCommand(p) == /\ Selected(p, "none") /\ Top(p).line \notin {"exit", "blank"}
                 /\ Spawn(p, "line")
                 /\ UNCHANGED <<system, flag, stdio, branches>>

RunBackground(p) == /\ Selected(p, "Background")
                    /\ Spawn(p, "background")
                    /\ UNCHANGED <<system, flag, stdio, branches>>

\* grs_output_redirect and grs_input_redirect; the file may fail to open.
Redirect(p) == \E f \in {"RedirIn", "RedirOut"} :
                  /\ Selected(p, f)
                  /\ Spawn(p, "redirect")
                  /\ stdio' = [stdio EXCEPT ![p] = f]
                  /\ UNCHANGED <<system, flag, branches>>

\* grsIfThenElse runs its condition.
RunIf(p) == /\ Selected(p, "IfThenElse")
            /\ Spawn(p, "if")
            /\ UNCHANGED <<system, flag, stdio, branches>>

\* A file that does not open, a pipe of one command, an ill-formed if.
LineFails(p) == /\ \E f \in {"RedirIn", "RedirOut", "Pipe", "IfThenElse"} : Selected(p, f)
                /\ LineDone(p)
                /\ UNCHANGED <<system, masked, stdio, branches>>

-----------------------------------------------------------------------------
(* grsSpawnProcess *)

\* cd, pwd and alias return at once, with the signals blocked.
BuiltIn(p) == /\ At(p, "spawn")
              /\ SetTop(p, [Top(p) EXCEPT !.at = "return", !.ret = 0, !.last = "builtin"])
              /\ UNCHANGED <<system, masked, flag, stdio, branches>>

Unused == {c \in Pid : status[c] = "unused"}

\* The parent after fork returned child, -1 if it failed.
Forked(p, child) == [Top(p) EXCEPT !.child = child, !.last = "external",
                        !.at = IF Top(p).cont = "background" THEN "record" ELSE "wait"]

\* The child c is a copy of p; signals sent to p before are not pending for it.
ForkChild(p, c) ==
    LET copy(f) == [f EXCEPT ![c] = f[p]]
    IN  /\ status' = [status EXCEPT ![c] = "shell"]
        /\ parent' = [parent EXCEPT ![c] = p]
        /\ stack'  = [stack EXCEPT
                         ![p][Len(stack[p])] = Forked(p, c),
                         ![c] = [stack[p] EXCEPT ![Len(stack[p])] =
                                    [Top(p) EXCEPT !.at = "born", !.last = "external"]]]
        /\ masked' = copy(masked) /\ table' = copy(table)
        /\ flag' = copy(flag) /\ stdio' = copy(stdio)
        /\ confirms' = IF p \in confirms THEN confirms \cup {c} ELSE confirms
        /\ UNCHANGED <<code, merged, pending, stopped, user, branches>>

Fork(p) == /\ At(p, "spawn")
           /\ \E c \in Unused : (\A q \in Unused : c <= q) /\ ForkChild(p, c)

\* fork fails at the limit of processes; its -1 is taken for a pid.
ForkFails(p) == /\ At(p, "spawn") /\ Unused = {}
                /\ SetTop(p, Forked(p, -1))
                /\ UNCHANGED <<system, masked, flag, stdio, branches>>

\* The child unblocks the signals and then takes the default actions back.
ChildUnblock(p) == /\ At(p, "born")
                   /\ Goto(p, "unblocked")
                   /\ masked' = [masked EXCEPT ![p] = @ \ {"INT", "TSTP"}]
                   /\ UNCHANGED <<system, flag, stdio, branches>>

ChildReset(p) == /\ At(p, "unblocked")
                 /\ Goto(p, "exec")
                 /\ confirms' = confirms \ {p}
                 /\ UNCHANGED <<status, code, merged, parent, masked, pending, stopped,
                                table, flag, stdio, user, branches>>

Exec(p) == /\ At(p, "exec")
           /\ status' = [status EXCEPT ![p] = "program"]
           /\ stack'  = [stack EXCEPT ![p] = <<>>]
           /\ table'  = [table EXCEPT ![p] = <<>>]
           /\ flag'   = [flag EXCEPT ![p] = "none"]
           /\ stdio'  = [stdio EXCEPT ![p] = "terminal"]
           /\ confirms' = confirms \ {p}
           /\ UNCHANGED <<code, merged, parent, masked, pending, stopped, user, branches>>

\* execvp returns: so does grsSpawnProcess, in the child.
ExecFails(p) == /\ At(p, "exec")
                /\ SetTop(p, [Top(p) EXCEPT !.at = "return", !.ret = -1])
                /\ UNCHANGED <<system, masked, flag, stdio, branches>>

\* A new node is linked into bgprocs while nothing is stored in it
Link(p) == /\ At(p, "record")
           /\ Goto(p, "fill")
           /\ table' = [table EXCEPT ![p] = Append(@, [pid |-> 0, status |-> "junk"])]
           /\ UNCHANGED <<status, code, merged, parent, masked, pending, confirms, stopped,
                          flag, stdio, user, branches>>

\* and gets its pid then; its status is not initialised.
Filled(entries, c) == [i \in DOMAIN entries |->
                         IF entries[i].pid = 0 THEN [entries[i] EXCEPT !.pid = c]
                         ELSE entries[i]]

Fill(p) == /\ At(p, "fill")
           /\ Goto(p, "unblock")
           /\ table' = [table EXCEPT ![p] = Filled(@, Top(p).child)]
           /\ UNCHANGED <<status, code, merged, parent, masked, pending, confirms, stopped,
                          flag, stdio, user, branches>>

\* waitpid for the foreground child; waitpid(-1) waits for any.
Awaited(p) == IF Top(p).child = -1 THEN Children(p) ELSE Children(p) \cap {Top(p).child}

WaitPolls(p) == /\ At(p, "wait")                                     \* mutant
                /\ Awaited(p) # {} /\ Awaited(p) \cap Zombies(p) = {}
                /\ SetTop(p, [Top(p) EXCEPT !.at = "unblock", !.ret = 255])
                /\ UNCHANGED <<system, masked, flag, stdio, branches>>

WaitSleeps(p) == /\ At(p, "wait")
                 /\ Awaited(p) # {} /\ Awaited(p) \cap Zombies(p) = {}
                 /\ Goto(p, "waiting")
                 /\ UNCHANGED <<system, masked, flag, stdio, branches>>

\* A call that sleeps may return before the SIGCHLD that came with it is
\* handled.
WaitReady(p) == \/ At(p, "wait")
                \/ status[p] = "shell" /\ p \notin stopped /\ Top(p).at = "waiting"

WaitReturns(p) == /\ WaitReady(p)
                  /\ \E c \in Awaited(p) \cap Zombies(p) :
                        /\ status' = [status EXCEPT ![c] = "reaped"]
                        /\ SetTop(p, [Top(p) EXCEPT !.at = "unblock", !.ret = code[c]])
                  /\ UNCHANGED <<code, merged, parent, masked, pending, confirms, stopped,
                                 table, flag, stdio, user, branches>>

WaitFailsEarly(p) == /\ At(p, "wait") /\ Awaited(p) = {}            \* mutant
                     /\ SetTop(p, [Top(p) EXCEPT !.at = "unblock", !.ret = 255])
                     /\ UNCHANGED <<system, masked, flag, stdio, branches>>

\* There is no such child (any more): status is still -1.
WaitFails(p) == /\ WaitReady(p) /\ Awaited(p) = {}
                /\ SetTop(p, [Top(p) EXCEPT !.at = "unblock", !.ret = 255])
                /\ UNCHANGED <<system, masked, flag, stdio, branches>>

UnblockStop(p) == /\ At(p, "unblock")                               \* mutant
                  /\ Goto(p, "return")
                  /\ masked' = [masked EXCEPT ![p] = @ \ {"TSTP"}]
                  /\ UNCHANGED <<system, flag, stdio, branches>>

Unblock(p) == /\ At(p, "unblock")
              /\ Goto(p, "return")
              /\ masked' = [masked EXCEPT ![p] = @ \ {"INT", "TSTP"}]
              /\ UNCHANGED <<system, flag, stdio, branches>>

-----------------------------------------------------------------------------
(* What the callers of grsSpawnProcess do with the value returned *)

\* grs_output_redirect and grs_input_redirect restore the descriptor.
CommandDone(p) == /\ At(p, "return") /\ Top(p).cont # "if"
                  /\ LineDone(p)
                  /\ stdio' = IF Top(p).cont = "redirect"
                              THEN [stdio EXCEPT ![p] = "terminal"] ELSE stdio
                  /\ UNCHANGED <<system, masked, branches>>

Branch(p) == IF Top(p).ret = -1 THEN "else" ELSE "then"

RunBranch(p) == /\ At(p, "return") /\ Top(p).cont = "if"
                /\ Spawn(p, Branch(p))
                /\ branches' = branches \cup {<<Top(p).number, Branch(p)>>}
                /\ UNCHANGED <<system, flag, stdio>>

\* The branch does not begin with its keyword.
BranchInvalid(p) == /\ At(p, "return") /\ Top(p).cont = "if"
                    /\ LineDone(p)
                    /\ UNCHANGED <<system, masked, stdio, branches>>

-----------------------------------------------------------------------------
(* Signals *)

\* A key of the terminal sends its signal to every process of the group.
Type(key) == /\ Terminal /\ keys < MaxKeys
             /\ keys' = keys + 1
             /\ pending' = [p \in Pid |-> IF Alive(p) THEN pending[p] \cup {key} ELSE pending[p]]
             /\ UNCHANGED <<status, code, merged, parent, stack, masked, confirms, stopped,
                            table, flag, stdio, lines, restarts, branches>>

Receives(p, s) == Alive(p) /\ p \notin stopped /\ s \in Deliverable(p)

\* handle_signal asks for confirmation, with SIGINT blocked.
Interrupt(p) ==
    /\ Receives(p, "INT") /\ p \in confirms
    /\ pending' = [pending EXCEPT ![p] = @ \ {"INT"}]
    /\ stack'   = [stack EXCEPT ![p] = Append(@, [Prompt EXCEPT !.at = "confirm",
                                                               !.saved = masked[p]])]
    /\ masked'  = [masked EXCEPT ![p] = @ \cup {"INT"}]
    /\ UNCHANGED <<status, code, merged, parent, confirms, stopped, table, flag, stdio, user, branches>>

\* Whoever has the default action dies; WEXITSTATUS of that is 0.
Kill(p) == Receives(p, "INT") /\ p \notin confirms /\ Terminate(p, 0)

\* The answer to "Are you sure?": exit, or another grsCmdLoop.
Confirm(p) == At(p, "confirm") /\ Terminate(p, 0)

Decline(p) == /\ At(p, "confirm")
              /\ Goto(p, "prompt")
              /\ flag' = [flag EXCEPT ![p] = "none"]
              /\ UNCHANGED <<system, masked, stdio, branches>>

\* SIGTSTP has its default action everywhere.  SIGCHLD tells the parent.
Suspend(p) == /\ Receives(p, "TSTP")
              /\ pending' = TellParent(p, [pending EXCEPT ![p] = @ \ {"TSTP"}])
              /\ stopped' = stopped \cup {p}
              /\ UNCHANGED <<status, code, merged, parent, stack, masked, confirms,
                             table, flag, stdio, user, branches>>

\* The process that started the shell sees it stop and continues its group;
\* SIGCONT discards pending stop signals.
Continue == /\ 1 \in stopped
            /\ stopped' = {}
            /\ pending' = [p \in Pid |-> pending[p] \ {"TSTP"}]
            /\ UNCHANGED <<status, code, merged, parent, stack, masked, confirms,
                           table, flag, stdio, user, branches>>

InTable(p, c) == \E i \in DOMAIN table[p] : table[p][i].pid = c

EndedAll(entries, c) ==                                             \* mutant
    [i \in DOMAIN entries |-> [entries[i] EXCEPT !.status = "exit"]]

EndedFirst(entries, c) ==                                           \* mutant
    [i \in DOMAIN entries |-> IF i = 1 /\ entries[i].pid = c
                              THEN [entries[i] EXCEPT !.status = "exit"] ELSE entries[i]]

\* The entry of c gets its status; there is one at most.
Ended(entries, c) == [i \in DOMAIN entries |->
                        IF entries[i].pid = c THEN [entries[i] EXCEPT !.status = "exit"]
                        ELSE entries[i]]

\* The pid of a node that is not filled in is what was in that memory: it may be
\* equal to c, and the status of c goes there.
Stray(entries) == [i \in DOMAIN entries |->
                     IF entries[i].pid = 0 THEN [entries[i] EXCEPT !.status = "stray"]
                     ELSE entries[i]]

HandleKnown(p) ==                                                   \* mutant
    /\ pending' = [pending EXCEPT ![p] = @ \ {"CHLD"}]
    /\ \/ /\ \A c \in Zombies(p) : ~InTable(p, c)
          /\ UNCHANGED <<status, table>>
       \/ \E c \in Zombies(p) :
             /\ InTable(p, c)
             /\ status' = [status EXCEPT ![c] = "reaped"]
             /\ table'  = [table EXCEPT ![p] = Ended(@, c)]

\* childSignalHandler reaps one child at most and looks for it in bgprocs.  If
\* none has ended it looks for 0 or -1, and a status that it stores is junk.
Handle(p) ==
    /\ pending' = [pending EXCEPT ![p] = @ \ {"CHLD"}]
    /\ \/ /\ Zombies(p) = {}
          /\ UNCHANGED <<status, table>>
       \/ \E c \in Zombies(p) :
             /\ status' = [status EXCEPT ![c] = "reaped"]
             /\ \/ table' = [table EXCEPT ![p] = Ended(@, c)]
                \/ /\ Top(p).at = "fill" /\ ~InTable(p, c)
                   /\ table' = [table EXCEPT ![p] = Stray(@)]

GetsChild(p)  == status[p] = "shell" /\ Receives(p, "CHLD")
Interrupts(p) == Top(p).at = "waiting" /\ ~restarts

ChildSignal(p) ==
    /\ GetsChild(p) /\ ~Interrupts(p)
    /\ Handle(p)
    /\ UNCHANGED <<code, merged, parent, stack, masked, confirms, stopped, flag, stdio,
                   user, branches>>

\* After the handler waitpid fails with EINTR: status is still -1.
WaitInterrupted(p) ==
    /\ GetsChild(p) /\ Interrupts(p)
    /\ Handle(p)
    /\ SetTop(p, [Top(p) EXCEPT !.at = "unblock", !.ret = 255])
    /\ UNCHANGED <<code, merged, parent, masked, confirms, stopped, flag, stdio, user, branches>>

\* The handler follows the next of a node that is not filled in: SIGSEGV.
HandlerCrash(p) ==
    /\ GetsChild(p) /\ Top(p).at = "fill"
    /\ Zombies(p) = {} \/ \E c \in Zombies(p) : ~InTable(p, c)
    /\ Terminate(p, 0)

\* A program ends and succeeds or fails.
ProgramExit(p) == /\ status[p] = "program" /\ p \notin stopped /\ Deliverable(p) = {}
                  /\ \E result \in {0, 1} : Terminate(p, result)

-----------------------------------------------------------------------------
\* What p does without waiting for somebody to type.
Step(p) ==
    \/ Exit(p) \/ Crash(p) \/ RunCommand(p) \/ RunBackground(p) \/ Redirect(p)
    \/ RunIf(p) \/ LineFails(p)
    \/ BuiltIn(p) \/ Fork(p) \/ ForkFails(p) \/ ChildUnblock(p) \/ ChildReset(p)
    \/ Exec(p) \/ ExecFails(p) \/ Link(p) \/ Fill(p)
    \/ WaitSleeps(p) \/ WaitReturns(p) \/ WaitFails(p) \/ Unblock(p)
    \/ CommandDone(p) \/ RunBranch(p) \/ BranchInvalid(p)
    \/ Interrupt(p) \/ Kill(p) \/ Suspend(p)
    \/ ChildSignal(p) \/ WaitInterrupted(p) \/ HandlerCrash(p)
    \/ ProgramExit(p)

UserStep(p) == \/ \E line \in Line : ReadLine(p, line)
               \/ EndOfFile(p) \/ Confirm(p) \/ Decline(p)

Next == \/ \E p \in Pid : Step(p) \/ UserStep(p)
        \/ \E key \in Key : Type(key)
        \/ Continue

Spec == Init /\ [][Next]_vars

\* Processes are scheduled and programs end; the user may type nothing.
FairSpec == Spec /\ \A p \in Pid : WF_vars(Step(p))

-----------------------------------------------------------------------------
(* Properties *)

Place == {"prompt", "dispatch", "spawn", "record", "fill", "wait", "waiting", "unblock",
          "return", "born", "unblocked", "exec", "confirm"}
Frame == [at : Place, line : Line \cup {"none"}, number : 0..MaxLines,
          cont : {"line", "background", "redirect", "if", "then", "else"},
          child : Pid \cup {0, -1}, ret : {-1, 0, 1, 255},
          last : {"none", "builtin", "external"}, saved : SUBSET {"INT", "TSTP"}]

Shells == {p \in Pid : status[p] = "shell"}
Entry == [pid : Pid \cup {0, -1}, status : {"junk", "exit", "stray"}]

\* Every variable keeps its type; only a process that runs the shell's code
\* has frames.
TypeOK ==
    /\ status \in [Pid -> {"unused", "shell", "program", "zombie", "reaped"}]
    /\ code \in [Pid -> {0, 1}] /\ parent \in [Pid -> Pid \cup {0}]
    /\ stack \in [Pid -> Seq(Frame)]
    /\ \A p \in Pid : stack[p] = <<>> <=> status[p] # "shell"
    /\ masked \in [Pid -> SUBSET {"INT", "TSTP"}]
    /\ pending \in [Pid -> SUBSET {"INT", "TSTP", "CHLD"}]
    /\ confirms \subseteq Shells /\ stopped \subseteq Pid
    /\ table \in [Pid -> Seq(Entry)]
    /\ flag \in [Pid -> Separator \cup {"none"}]
    /\ stdio \in [Pid -> {"terminal", "RedirIn", "RedirOut"}]
    /\ lines \in 0..MaxLines /\ keys \in 0..MaxKeys /\ restarts \in BOOLEAN
    /\ merged \in [Pid -> Nat]
    /\ branches \subseteq (0..MaxLines) \X {"then", "else"}

\* Where the handler has found the pid of a background process in a table and
\* stored its status there, that process is reaped, whoever of the handler and
\* the foreground wait came first and whichever shell the table was copied from.
\* It is not so for a status that nobody stored, or that came before the pid.
RecordedMeansReaped ==
    \A p \in Pid : \A i \in DOMAIN table[p] :
        table[p][i].status = "exit" => table[p][i].pid \in Pid /\ status[table[p][i].pid] = "reaped"

\* Where interrupted calls are restarted the shell does not go on while its
\* foreground process lives, although handlers interrupt the wait and reap
\* processes themselves.
ForegroundFinished ==
    restarts => \A p \in Shells : \A i \in DOMAIN stack[p] :
        LET f == stack[p][i]
        IN  f.at \in {"unblock", "return"} /\ f.cont # "background" /\ f.child \in Pid
                => status[f.child] = "reaped"

\* Without background commands, and where interrupted calls are restarted, one
\* process at most reads the terminal, even though a failed exec and an early
\* Ctrl-C make further shells.
Readers == {p \in Shells : Top(p).at \in {"prompt", "confirm"}}
OneReader == restarts => Readers = {} \/ \E p \in Pid : Readers = {p}

\* A shell is deaf to Ctrl-C at its prompt exactly if the last command was a
\* built-in, or no command followed the Ctrl-C that started this loop.
DeafAtPrompt ==
    \A p \in Shells : Top(p).at = "prompt" =>
        (("INT" \in masked[p]) <=>
            \/ Top(p).last = "builtin"
            \/ Top(p).last = "none" /\ Len(stack[p]) > 1)

\* A prompt whose input or output is redirected belongs to the loop of a
\* Ctrl-C that was typed during a redirected command.
RedirectedPromptIsNested ==
    \A p \in Shells : Top(p).at = "prompt" /\ stdio[p] # "terminal" =>
        \E i \in 1..(Len(stack[p]) - 1) : stack[p][i].cont = "redirect"

WaitsFor(p, c) == /\ p \in Shells
                  /\ Top(p).at \in {"wait", "waiting"} /\ Top(p).child = c
WaitsForDead(p) == \E c \in Pid : WaitsFor(p, c) /\ ~Alive(c)

\* A foreground wait for a child that is dead ends, also when the handler has
\* reaped it first.
WaitEnds == \A p \in Pid : WaitsForDead(p) ~> ~WaitsForDead(p)

\* If Ctrl-Z stops the command that the first shell waits for, and interrupted
\* calls are restarted, the shell never takes the stop signal that it blocks:
\* nobody is told, nobody continues them.
Frozen == /\ restarts /\ 1 \notin stopped /\ \E c \in stopped : WaitsFor(1, c)
FrozenForGood == [][Frozen => Frozen']_vars

\* The shell that was started never runs an else branch: its grsSpawnProcess
\* returns an exit status of 0 to 255 and never the -1 that grsIfThenElse
\* looks for.  Only the copy that a failed execvp leaves behind runs it.
ElseOnlyInChild == \A i \in DOMAIN stack[1] : stack[1][i].cont # "else"

\* A line is dispatched for what it is, or as a plain command when the loop of
\* a Ctrl-C in between has cleared the flags: never as another kind of line
\* that was typed in that loop.
FlagOfThisLineOrNone ==
    \A p \in Shells : Top(p).at = "dispatch" => flag[p] \in {"none", Top(p).line}

\* childSignalHandler reaps one child for a SIGCHLD.  A shell leaves no more
\* zombies behind than children of its ended while an earlier SIGCHLD was
\* pending, besides the one whose signal is still to be handled.
ZombieOnlyOfSeveral ==
    \A p \in Shells :
        Cardinality(Zombies(p)) <= merged[p] + (IF "CHLD" \in pending[p] THEN 1 ELSE 0)

\* Once a background process is in the table of its shell its end is recorded
\* when it is reaped, unless a failed fork has made the foreground wait take
\* any child: what is missed is missed before its pid is in the table.
EndMissedOnlyBefore ==
    [][\A p \in Shells : \A c \in Zombies(p) :
          status'[c] = "reaped" /\ parent'[c] = p /\ InTable(p, c) /\ Top(p).child # -1 =>
              \E i \in DOMAIN table'[p] : table'[p][i] = [pid |-> c, status |-> "exit"]]_vars

\* grsIfThenElse executes Cmd2 if Cmd failed, "Otherwise it extracts Cmd1":
\* one branch of each if.
OneBranch == \A n \in 1..MaxLines : ~({<<n, "then">>, <<n, "else">>} \subseteq branches)
-----------------------------------------------------------------------------
(* Why they hold *)

\* The places of a loop between the two calls of sigprocmask, those after it
\* has forked or been forked, and those of a copy that has not exec'ed.
Blocking  == {"spawn", "born", "record", "fill", "wait", "waiting", "unblock"}
AfterFork == {"born", "unblocked", "exec", "record", "fill", "wait", "waiting", "unblock"}
OfCopies  == {"born", "unblocked", "exec"}
Waiting   == {"record", "fill", "wait", "waiting"}

\* What a loop has done so far that is at some place.
FrameRight(f) == /\ f.at \in {"prompt", "dispatch", "confirm"} => f.cont = "line" /\ f.child = 0
                 /\ f.at \in AfterFork => f.last = "external"
                 /\ f.at \in {"record", "fill"} => f.cont = "background"
                 /\ f.at = "return" => f.last # "none"
                 /\ f.at = "confirm" => f.last = "none"
                 /\ "INT" \notin f.saved

\* The loop with frame f, the i-th of its process, does not hear a Ctrl-C.
Deaf(f, i) == f.at \in Blocking \/ f.last = "builtin" \/ (f.last = "none" /\ i > 1)

\* A loop is interrupted only where it hears Ctrl-C.
FramesRight(p) == \A i \in DOMAIN stack[p] : /\ FrameRight(stack[p][i])
                                             /\ i # Len(stack[p]) => ~Deaf(stack[p][i], i)

\* The innermost loop accounts for the mask
MaskRight(p) == /\ "INT" \in masked[p] <=> Deaf(Top(p), Len(stack[p]))
                /\ Top(p).at \in Blocking => "TSTP" \in masked[p]

\* and for the flags;
FlagRight(p) == /\ Top(p).at = "prompt" => flag[p] = "none"
                /\ Top(p).at = "dispatch" => flag[p] \in {"none", Top(p).line}

\* some loop accounts for a redirected descriptor.
StdioRight(p) == stdio[p] # "terminal" => \E i \in DOMAIN stack[p] : stack[p][i].cont = "redirect"

\* A loop waits for a child of its own process that is not in the table; after
\* a wait that is not interrupted that child is reaped, whatever the loop does next.
ChildRight(p, f) ==
    f.child \in Pid =>
        IF f.at \in Waiting
        THEN /\ parent[f.child] = p /\ status[f.child] # "unused"
             /\ f.at \in {"wait", "waiting"} => ~InTable(p, f.child)
        ELSE restarts /\ f.cont # "background" => status[f.child] = "reaped"
ChildrenRight(p) == \A i \in DOMAIN stack[p] : ChildRight(p, stack[p][i])

\* No loop of the first shell runs in a copy made by fork, and only in such a copy
\* does grsSpawnProcess return -1.
OriginalFrame(f) == f.at \notin OfCopies /\ f.ret # -1 /\ f.cont # "else"
OriginalRight == status[1] # "unused" /\ \A i \in DOMAIN stack[1] : OriginalFrame(stack[1][i])

\* What is stopped lives, and so do the parents of what is not reaped; the tables
\* hold processes that have existed.
Exists(c)   == Alive(c) \/ status[c] = "zombie"
StoppedLive == \A c \in stopped : Alive(c)
ParentsLive == \A c \in Pid : parent[c] \in Pid /\ Exists(c) => Alive(parent[c])
TablesKnown == \A p \in Pid : \A i \in DOMAIN table[p] :
                  table[p][i].pid \in Pid => status[table[p][i].pid] # "unused"

FamilyRight == StoppedLive /\ ParentsLive /\ TablesKnown /\ ZombieOnlyOfSeveral

\* What the command loops of every shell keep to, those that a Ctrl-C starts in
\* the middle of a line included; with it, why.
LoopInv == /\ TypeOK
           /\ DeafAtPrompt /\ RedirectedPromptIsNested
           /\ FlagOfThisLineOrNone /\ ElseOnlyInChild
           /\ \A p \in Shells : /\ FramesRight(p) /\ MaskRight(p) /\ FlagRight(p)
                                /\ StdioRight(p) /\ ChildrenRight(p)
           /\ OriginalRight /\ FamilyRight
=============================================================================
