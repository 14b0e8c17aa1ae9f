---------------------------- MODULE Shell_proofs ----------------------------
(***************************************************************************)
(* Proofs about Shell for every number of processes, lines and keys.       *)
(***************************************************************************)
EXTENDS Shell, FiniteSetTheorems, TLAPS

\* The innermost loop of a process that runs the shell's code.
LEMMA TopFrame ==
    ASSUME TypeOK, NEW p \in Pid, status[p] = "shell"
    PROVE  /\ Len(stack[p]) \in Nat \ {0}
           /\ Top(p) = stack[p][Len(stack[p])]
           /\ Top(p) \in Frame
           /\ stack[p] \in Seq(Frame)
<1>1. stack[p] \in Seq(Frame) /\ stack[p] # <<>>
  BY DEF TypeOK
<1>2. Len(stack[p]) \in Nat \ {0}
  BY <1>1
<1> QED  BY <1>1, <1>2 DEF Top, Last

\* What a wait may return.
Returned == {-1, 0, 1, 255}

\* A frame that moves to another place.
LEMMA FrameAt ==
    ASSUME NEW f \in Frame, NEW at \in Place
    PROVE  [f EXCEPT !.at = at] \in Frame
BY DEF Frame

\* One field of a frame after the other is set: the kind of the last command,
LEMMA SetLast ==
    ASSUME NEW f \in Frame, NEW last \in {"none", "builtin", "external"}
    PROVE  [f EXCEPT !.last = last] \in Frame
BY DEF Frame

\* the value returned,
LEMMA SetRet ==
    ASSUME NEW f \in Frame, NEW ret \in Returned
    PROVE  [f EXCEPT !.ret = ret] \in Frame
BY DEF Frame, Returned

\* the caller,
LEMMA SetCont ==
    ASSUME NEW f \in Frame, NEW cont \in {"line", "background", "redirect", "if", "then", "else"}
    PROVE  [f EXCEPT !.cont = cont] \in Frame
BY DEF Frame

\* the child,
LEMMA SetChild ==
    ASSUME NEW f \in Frame, NEW child \in Pid \cup {0, -1}
    PROVE  [f EXCEPT !.child = child] \in Frame
BY DEF Frame

\* the line,
LEMMA SetLine ==
    ASSUME NEW f \in Frame, NEW line \in Line \cup {"none"}
    PROVE  [f EXCEPT !.line = line] \in Frame
BY DEF Frame

\* what was blocked before,
LEMMA SetSaved ==
    ASSUME NEW f \in Frame, NEW saved \in SUBSET {"INT", "TSTP"}
    PROVE  [f EXCEPT !.saved = saved] \in Frame
BY DEF Frame

\* its number.
LEMMA SetNumber ==
    ASSUME NEW f \in Frame, NEW number \in 0..MaxLines
    PROVE  [f EXCEPT !.number = number] \in Frame
BY DEF Frame

\* A frame that moves on with a value returned.
LEMMA FrameRet ==
    ASSUME NEW f \in Frame, NEW at \in Place, NEW ret \in Returned
    PROVE  [f EXCEPT !.at = at, !.ret = ret] \in Frame
<1> DEFINE f1 == [f EXCEPT !.at = at]
<1>1. f1 \in Frame
  BY FrameAt
<1> DEFINE f2 == [f1 EXCEPT !.ret = ret]
<1>2. f2 \in Frame
  BY SetRet, <1>1
<1>3. [f EXCEPT !.at = at, !.ret = ret] = f2
  OBVIOUS
<1> QED  BY <1>2, <1>3, Zenon

\* A frame that begins to run a command.
LEMMA FrameCont ==
    ASSUME NEW f \in Frame, NEW at \in Place,
           NEW cont \in {"line", "background", "redirect", "if", "then", "else"}
    PROVE  [f EXCEPT !.at = at, !.cont = cont] \in Frame
<1> DEFINE f1 == [f EXCEPT !.at = at]
<1>1. f1 \in Frame
  BY FrameAt
<1> DEFINE f2 == [f1 EXCEPT !.cont = cont]
<1>2. f2 \in Frame
  BY SetCont, <1>1
<1>3. [f EXCEPT !.at = at, !.cont = cont] = f2
  OBVIOUS
<1> QED  BY <1>2, <1>3, Zenon

\* A frame after fork, in the child and in the parent, or after a built-in.
LEMMA FrameLast ==
    ASSUME NEW f \in Frame, NEW at \in Place, NEW last \in {"builtin", "external"}
    PROVE  [f EXCEPT !.at = at, !.last = last] \in Frame
<1> DEFINE f1 == [f EXCEPT !.at = at]
<1>1. f1 \in Frame
  BY FrameAt
<1> DEFINE f2 == [f1 EXCEPT !.last = last]
<1>2. f2 \in Frame
  BY SetLast, <1>1
<1>3. [f EXCEPT !.at = at, !.last = last] = f2
  OBVIOUS
<1> QED  BY <1>2, <1>3, Zenon

\* A frame after a built-in command.
LEMMA FrameBuiltIn ==
    ASSUME NEW f \in Frame, NEW at \in Place
    PROVE  [f EXCEPT !.at = at, !.ret = 0, !.last = "builtin"] \in Frame
<1> DEFINE f1 == [f EXCEPT !.at = at]
<1>1. f1 \in Frame
  BY FrameAt
<1> DEFINE f2 == [f1 EXCEPT !.ret = 0]
<1>2. f2 \in Frame
  <2>1. 0 \in Returned
    BY DEF Returned
  <2> QED  BY SetRet, <1>1, <2>1
<1> DEFINE f3 == [f2 EXCEPT !.last = "builtin"]
<1>3. f3 \in Frame
  BY SetLast, <1>2
<1>4. [f EXCEPT !.at = at, !.ret = 0, !.last = "builtin"] = f3
  OBVIOUS
<1> QED  BY <1>3, <1>4, Zenon

\* A frame that has a child to wait for.
LEMMA FrameChild ==
    ASSUME NEW f \in Frame, NEW at \in Place, NEW child \in Pid \cup {-1}
    PROVE  [f EXCEPT !.child = child, !.last = "external", !.at = at] \in Frame
<1> DEFINE f1 == [f EXCEPT !.child = child]
<1>1. f1 \in Frame
  BY SetChild
<1> DEFINE f2 == [f1 EXCEPT !.last = "external"]
<1>2. f2 \in Frame
  BY SetLast, <1>1
<1> DEFINE f3 == [f2 EXCEPT !.at = at]
<1>3. f3 \in Frame
  BY FrameAt, <1>2
<1>4. [f EXCEPT !.child = child, !.last = "external", !.at = at] = f3
  OBVIOUS
<1> QED  BY <1>3, <1>4, Zenon

\* A frame with the line just typed.
LEMMA FrameLine ==
    ASSUME NEW f \in Frame, NEW at \in Place, NEW line \in Line, NEW n \in 0..MaxLines
    PROVE  [f EXCEPT !.at = at, !.line = line, !.number = n] \in Frame
<1> DEFINE f1 == [f EXCEPT !.at = at]
<1>1. f1 \in Frame
  BY FrameAt
<1> DEFINE f2 == [f1 EXCEPT !.line = line]
<1>2. f2 \in Frame
  BY SetLine, <1>1
<1> DEFINE f3 == [f2 EXCEPT !.number = n]
<1>3. f3 \in Frame
  BY SetNumber, <1>2
<1>4. [f EXCEPT !.at = at, !.line = line, !.number = n] = f3
  OBVIOUS
<1> QED  BY <1>3, <1>4, Zenon

\* The frame of a shell that has forked.
LEMMA FrameForked ==
    ASSUME NEW p \in Pid, Top(p) \in Frame, NEW child \in Pid \cup {-1}
    PROVE  Forked(p, child) \in Frame
<1> DEFINE at == IF Top(p).cont = "background" THEN "record" ELSE "wait"
<1>1. at \in Place
  BY DEF Place
<1>2. Forked(p, child) = [Top(p) EXCEPT !.child = child, !.last = "external", !.at = at]
  BY DEF Forked
<1> HIDE DEF at
<1>3. \A f \in Frame : [f EXCEPT !.child = child, !.last = "external", !.at = at] \in Frame
  BY <1>1, FrameChild
<1> QED  BY <1>2, <1>3, Zenon

\* Numbers and places of the frame of a prompt, which is a frame.
LEMMA PromptFrame == "prompt" \in Place /\ 0 \in 0..MaxLines /\ Prompt \in Frame
<1>1. "prompt" \in Place
  BY DEF Place
<1>2. 0 \in 0..MaxLines
  BY ShellAssumption
<1>3. {} \in SUBSET {"INT", "TSTP"} /\ 0 \in Pid \cup {0, -1}
  OBVIOUS
<1> QED  BY <1>1, <1>2, <1>3 DEF Prompt, Frame

\* The frame of the next prompt.
LEMMA NextPromptFrame == ASSUME NEW p \in Pid, Top(p) \in Frame PROVE NextPrompt(p) \in Frame
<1>1. /\ Top(p).last \in {"none", "builtin", "external"}
      /\ Top(p).saved \in SUBSET {"INT", "TSTP"}
  BY DEF Frame
<1> DEFINE f == [Prompt EXCEPT !.last = Top(p).last]
<1>2. f \in Frame
  BY <1>1, PromptFrame, SetLast
<1>3. [f EXCEPT !.saved = Top(p).saved] \in Frame
  BY <1>1, <1>2, SetSaved
<1>4. NextPrompt(p) = [f EXCEPT !.saved = Top(p).saved]
  BY DEF NextPrompt
<1> QED  BY <1>3, <1>4, Zenon

\* A step of the innermost loop leaves the stacks well-formed.
LEMMA SetTopStack ==
    ASSUME TypeOK, NEW p \in Pid, status[p] = "shell", NEW f \in Frame, SetTop(p, f)
    PROVE  /\ stack' \in [Pid -> Seq(Frame)]
           /\ \A q \in Pid : stack'[q] = <<>> <=> status[q] # "shell"
           /\ \A q \in Pid : Len(stack'[q]) = Len(stack[q])
           /\ stack'[p][Len(stack[p])] = f
           /\ \A q \in Pid : q # p => stack'[q] = stack[q]
           /\ \A i \in 1..(Len(stack[p]) - 1) : stack'[p][i] = stack[p][i]
<1>1. Len(stack[p]) \in Nat \ {0} /\ stack[p] \in Seq(Frame) /\ stack \in [Pid -> Seq(Frame)]
  BY TopFrame DEF TypeOK
<1> DEFINE t == [stack[p] EXCEPT ![Len(stack[p])] = f]
<1>2. stack' = [stack EXCEPT ![p] = t]
  BY <1>1 DEF SetTop
<1>3. t \in Seq(Frame) /\ Len(t) = Len(stack[p]) /\ t # <<>>
  BY <1>1
<1>4. t[Len(stack[p])] = f /\ \A i \in 1..(Len(stack[p]) - 1) : t[i] = stack[p][i]
  BY <1>1
<1> HIDE DEF t
<1> QED  BY <1>1, <1>2, <1>3, <1>4 DEF TypeOK

\* Init gives every variable its type.
LEMMA InitType == Init => TypeOK
<1> SUFFICES ASSUME Init PROVE TypeOK
  OBVIOUS
<1>1. Prompt \in Frame
  BY PromptFrame
<1>2. stack \in [Pid -> Seq(Frame)]
  BY <1>1 DEF Init
<1>3. \A p \in Pid : stack[p] = <<>> <=> status[p] # "shell"
  BY DEF Init
<1>4. status \in [Pid -> {"unused", "shell", "program", "zombie", "reaped"}]
  BY DEF Init
<1>5. table \in [Pid -> Seq(Entry)] /\ parent \in [Pid -> Pid \cup {0}] /\ code \in [Pid -> {0, 1}]
  BY DEF Init
<1>6. masked \in [Pid -> SUBSET {"INT", "TSTP"}] /\ pending \in [Pid -> SUBSET {"INT", "TSTP", "CHLD"}]
  BY DEF Init
<1>7. confirms \subseteq Pid /\ lines \in 0..MaxLines /\ keys \in 0..MaxKeys
  BY ShellAssumption DEF Init, Pid
<1> QED  BY <1>2, <1>3, <1>4, <1>5, <1>6, <1>7 DEF Init, TypeOK, Shells

\* The end of a process leaves every variable with its type.
LEMMA TerminateType ==
    ASSUME TypeOK, NEW p \in Pid, NEW result \in {0, 1}, Terminate(p, result)
    PROVE  TypeOK'
<1> USE DEF TypeOK, Terminate, user
<1>1. status' \in [Pid -> {"unused", "shell", "program", "zombie", "reaped"}]
  OBVIOUS
<1>2. stack' \in [Pid -> Seq(Frame)]
  OBVIOUS
<1>3. \A q \in Pid : stack'[q] = <<>> <=> status'[q] # "shell"
  BY DEF Zombies
<1>4. pending' \in [Pid -> SUBSET {"INT", "TSTP", "CHLD"}]
  BY DEF TellParent
<1>5. parent' \in [Pid -> Pid \cup {0}] /\ code' \in [Pid -> {0, 1}]
  OBVIOUS
<1>6. masked' \in [Pid -> SUBSET {"INT", "TSTP"}] /\ table' \in [Pid -> Seq(Entry)]
  OBVIOUS
<1>7. flag' \in [Pid -> Separator \cup {"none"}] /\ stdio' \in [Pid -> {"terminal", "RedirIn", "RedirOut"}]
  OBVIOUS
<1>8. confirms' \subseteq Shells'
  BY DEF Zombies, Shells
<1>9. merged' \in [Pid -> Nat]
  <2>1. PICK now : now = [merged EXCEPT ![p] = 0]
    OBVIOUS
  <2>2. now \in [Pid -> Nat] /\ merged' = Merged(p, now)
    BY <2>1
  <2>3. CASE merged' = now
    BY <2>2, <2>3
  <2>4. CASE parent[p] \in Pid /\ merged' = [now EXCEPT ![parent[p]] = @ + 1]
    <3>1. \A q \in Pid : now[q] \in Nat /\ now[q] + 1 \in Nat
      <4> HIDE DEF TypeOK, Terminate
      <4> QED  BY <2>2
    <3> HIDE DEF TypeOK, Terminate
    <3> QED  BY <2>2, <2>4, <3>1
  <2> QED  BY <2>2, <2>3, <2>4 DEF Merged
<1> QED  BY <1>1, <1>2, <1>3, <1>4, <1>5, <1>6, <1>7, <1>8, <1>9

\* Steps of the innermost loop that change, besides its frame, masks, flags,
\* descriptors and the branches only.
LEMMA OwnStepType ==
    ASSUME TypeOK, NEW p \in Pid, status[p] = "shell", NEW f \in Frame, SetTop(p, f),
           UNCHANGED <<status, code, merged, parent, pending, stopped, user, table>>,
           confirms' \subseteq confirms,
           masked' \in [Pid -> SUBSET {"INT", "TSTP"}],
           flag' \in [Pid -> Separator \cup {"none"}],
           stdio' \in [Pid -> {"terminal", "RedirIn", "RedirOut"}],
           branches' \subseteq (0..MaxLines) \X {"then", "else"}
    PROVE  TypeOK'
BY SetTopStack DEF TypeOK, user, Shells

\* The line a frame works on is one that was typed.
LEMMA TopNumber == ASSUME TypeOK, NEW p \in Pid, status[p] = "shell" PROVE Top(p).number \in 0..MaxLines
BY TopFrame DEF Frame

\* The handler and the shell keep the entries of the table.
LEMMA EntriesType ==
    ASSUME NEW entries \in Seq(Entry), NEW c \in Pid \cup {0, -1}
    PROVE  /\ Ended(entries, c) \in Seq(Entry) /\ DOMAIN Ended(entries, c) = DOMAIN entries
           /\ Stray(entries) \in Seq(Entry) /\ DOMAIN Stray(entries) = DOMAIN entries
           /\ Filled(entries, c) \in Seq(Entry) /\ DOMAIN Filled(entries, c) = DOMAIN entries
           /\ \A i \in DOMAIN entries : entries[i] \in Entry
<1>1. \A i \in DOMAIN entries : entries[i] \in Entry
  OBVIOUS
<1>2. \A i \in DOMAIN entries : /\ [entries[i] EXCEPT !.status = "exit"] \in Entry
                                /\ [entries[i] EXCEPT !.status = "stray"] \in Entry
                                /\ [entries[i] EXCEPT !.pid = c] \in Entry
  BY <1>1 DEF Entry
<1>3. DOMAIN entries = 1..Len(entries) /\ Len(entries) \in Nat
  OBVIOUS
<1>4. \A t : DOMAIN t = 1..Len(entries) /\ t = [i \in DOMAIN t |-> t[i]]
             /\ (\A i \in DOMAIN entries : t[i] \in Entry) => t \in Seq(Entry)
  BY <1>3
<1>5. Ended(entries, c) \in Seq(Entry)
  BY <1>1, <1>2, <1>3, <1>4 DEF Ended
<1>6. Stray(entries) \in Seq(Entry)
  BY <1>1, <1>2, <1>3, <1>4 DEF Stray
<1>7. Filled(entries, c) \in Seq(Entry)
  BY <1>1, <1>2, <1>3, <1>4 DEF Filled
<1> QED  BY <1>1, <1>5, <1>6, <1>7 DEF Ended, Stray, Filled

\* What the entries of t say that those of s do not: the end of c.
Tells(s, t, c) == \A i \in DOMAIN t : t[i].status = "exit" =>
                     \/ i \in DOMAIN s /\ s[i].pid = t[i].pid /\ s[i].status = "exit"
                     \/ t[i].pid = c

\* The handler of SIGCHLD reaps a zombie if there is one, tells the table of its end
\* only, and that if it is there.
Handles(p, c, t) ==
    /\ c \in Pid /\ status[c] = "zombie" /\ parent[c] = p
    /\ status' = [status EXCEPT ![c] = "reaped"]
    /\ t \in Seq(Entry) /\ table' = [table EXCEPT ![p] = t]
    /\ DOMAIN t = DOMAIN table[p] /\ \A i \in DOMAIN t : t[i].pid = table[p][i].pid
    /\ Tells(table[p], t, c)
    /\ InTable(p, c) => \E i \in DOMAIN t : t[i] = [pid |-> c, status |-> "exit"]

LEMMA HandleEffect ==
    ASSUME TypeOK, NEW p \in Pid, Handle(p)
    PROVE  /\ pending' = [pending EXCEPT ![p] = @ \ {"CHLD"}]
           /\ \/ Zombies(p) = {} /\ UNCHANGED <<status, table>>
              \/ \E c, t : c \in Zombies(p) /\ Handles(p, c, t)
<1>1. table[p] \in Seq(Entry)
  BY DEF TypeOK
<1>2. ASSUME NEW c \in Zombies(p), status' = [status EXCEPT ![c] = "reaped"],
             table' = [table EXCEPT ![p] = Ended(@, c)]
      PROVE  Handles(p, c, Ended(table[p], c))
  <2>1. c \in Pid /\ status[c] = "zombie" /\ parent[c] = p
    BY DEF Zombies, Children
  <2>2. /\ Ended(table[p], c) \in Seq(Entry) /\ DOMAIN Ended(table[p], c) = DOMAIN table[p]
        /\ \A i \in DOMAIN table[p] : table[p][i] \in Entry
    BY <1>1, <2>1, EntriesType
  <2>3. \A i \in DOMAIN table[p] :
           /\ Ended(table[p], c)[i].pid = table[p][i].pid
           /\ table[p][i].pid = c => Ended(table[p], c)[i] = [pid |-> c, status |-> "exit"]
           /\ table[p][i].pid # c => Ended(table[p], c)[i] = table[p][i]
    BY <2>2 DEF Ended, Entry
  <2>4. Tells(table[p], Ended(table[p], c), c)
    BY <2>2, <2>3 DEF Tells
  <2> QED  BY <1>2, <2>1, <2>2, <2>3, <2>4 DEF Handles, InTable
<1>3. ASSUME NEW c \in Zombies(p), status' = [status EXCEPT ![c] = "reaped"],
             table' = [table EXCEPT ![p] = Stray(@)], ~InTable(p, c)
      PROVE  Handles(p, c, Stray(table[p]))
  <2>1. c \in Pid /\ status[c] = "zombie" /\ parent[c] = p
    BY DEF Zombies, Children
  <2>2. /\ Stray(table[p]) \in Seq(Entry) /\ DOMAIN Stray(table[p]) = DOMAIN table[p]
        /\ \A i \in DOMAIN table[p] : table[p][i] \in Entry
    BY <1>1, <2>1, EntriesType
  <2>3. \A i \in DOMAIN table[p] :
           /\ Stray(table[p])[i].pid = table[p][i].pid
           /\ Stray(table[p])[i].status = "exit" => table[p][i].status = "exit"
    BY <2>2 DEF Stray, Entry
  <2>4. Tells(table[p], Stray(table[p]), c)
    BY <2>2, <2>3 DEF Tells
  <2> QED  BY <1>3, <2>1, <2>2, <2>3, <2>4 DEF Handles
<1> QED  BY <1>2, <1>3 DEF Handle

\* Every step that waits for nobody to type keeps the types.
LEMMA StepType == ASSUME TypeOK, NEW p \in Pid, Step(p) PROVE TypeOK'
<1> USE DEF system, user, At, Runs, Selected
<1>1. CASE Exit(p) \/ Crash(p) \/ Kill(p) \/ HandlerCrash(p) \/ ProgramExit(p)
  BY <1>1, TerminateType DEF Exit, Crash, Kill, HandlerCrash, ProgramExit
<1>2. CASE RunCommand(p)
  <2>1. status[p] = "shell" /\ SetTop(p, [Top(p) EXCEPT !.at = "spawn", !.cont = "line"])
    BY <1>2 DEF RunCommand, Spawn
  <2>2. [Top(p) EXCEPT !.at = "spawn", !.cont = "line"] \in Frame
    <3>1. Top(p) \in Frame /\ "spawn" \in Place
      BY <2>1, TopFrame DEF Place
    <3> QED  BY <3>1, FrameCont, Zenon
  <2> QED  BY <1>2, <2>1, <2>2, OwnStepType, Zenon DEF RunCommand, Spawn, TypeOK
<1>3. CASE RunBackground(p)
  <2>1. status[p] = "shell" /\ SetTop(p, [Top(p) EXCEPT !.at = "spawn", !.cont = "background"])
    BY <1>3 DEF RunBackground, Spawn
  <2>2. [Top(p) EXCEPT !.at = "spawn", !.cont = "background"] \in Frame
    <3>1. Top(p) \in Frame /\ "spawn" \in Place
      BY <2>1, TopFrame DEF Place
    <3> QED  BY <3>1, FrameCont, Zenon
  <2> QED  BY <1>3, <2>1, <2>2, OwnStepType, Zenon DEF RunBackground, Spawn, TypeOK
<1>4. CASE Redirect(p)
  <2>1. status[p] = "shell" /\ SetTop(p, [Top(p) EXCEPT !.at = "spawn", !.cont = "redirect"])
    BY <1>4 DEF Redirect, Spawn
  <2>2. [Top(p) EXCEPT !.at = "spawn", !.cont = "redirect"] \in Frame
    <3>1. Top(p) \in Frame /\ "spawn" \in Place
      BY <2>1, TopFrame DEF Place
    <3> QED  BY <3>1, FrameCont, Zenon
  <2>3. stdio' \in [Pid -> {"terminal", "RedirIn", "RedirOut"}]
    BY <1>4 DEF Redirect, TypeOK
  <2>4. masked' \in [Pid -> SUBSET {"INT", "TSTP"}]
    BY <1>4 DEF Redirect, Spawn, TypeOK
  <2>5. /\ UNCHANGED <<status, code, merged, parent, pending, stopped, user, table, confirms>>
        /\ flag' \in [Pid -> Separator \cup {"none"}]
        /\ UNCHANGED branches
    BY <1>4 DEF Redirect, Spawn, TypeOK
  <2> QED  BY <2>1, <2>2, <2>3, <2>4, <2>5, OwnStepType, Zenon DEF TypeOK
<1>5. CASE RunIf(p)
  <2>1. status[p] = "shell" /\ SetTop(p, [Top(p) EXCEPT !.at = "spawn", !.cont = "if"])
    BY <1>5 DEF RunIf, Spawn
  <2>2. [Top(p) EXCEPT !.at = "spawn", !.cont = "if"] \in Frame
    <3>1. Top(p) \in Frame /\ "spawn" \in Place
      BY <2>1, TopFrame DEF Place
    <3> QED  BY <3>1, FrameCont, Zenon
  <2> QED  BY <1>5, <2>1, <2>2, OwnStepType, Zenon DEF RunIf, Spawn, TypeOK
<1>6. CASE LineFails(p)
  <2>1. status[p] = "shell" /\ SetTop(p, NextPrompt(p))
    BY <1>6 DEF LineFails, LineDone
  <2>2. NextPrompt(p) \in Frame
    BY <2>1, TopFrame, NextPromptFrame
  <2> QED  BY <1>6, <2>1, <2>2, OwnStepType DEF LineFails, LineDone, TypeOK
<1>7. CASE BuiltIn(p)
  <2>1. status[p] = "shell" /\ SetTop(p, [Top(p) EXCEPT !.at = "return", !.ret = 0, !.last = "builtin"])
    BY <1>7 DEF BuiltIn
  <2>2. [Top(p) EXCEPT !.at = "return", !.ret = 0, !.last = "builtin"] \in Frame
    <3>1. Top(p) \in Frame /\ "return" \in Place
      BY <2>1, TopFrame DEF Place
    <3> QED  BY <3>1, FrameBuiltIn
  <2> QED  BY <1>7, <2>1, <2>2, OwnStepType DEF BuiltIn, TypeOK
<1>8. CASE Fork(p)
  <2>1. PICK c \in Unused : ForkChild(p, c)
    BY <1>8 DEF Fork
  <2>2. c \in Pid /\ c # p /\ status[p] = "shell" /\ stack[c] = <<>>
    BY <1>8, <2>1 DEF Fork, Unused, TypeOK
  <2> DEFINE mine   == [stack[p] EXCEPT ![Len(stack[p])] = Forked(p, c)]
             theirs == [stack[p] EXCEPT ![Len(stack[p])] =
                          [Top(p) EXCEPT !.at = "born", !.last = "external"]]
  <2>3. Forked(p, c) \in Frame
    BY <2>2, TopFrame, FrameForked
  <2>4. [Top(p) EXCEPT !.at = "born", !.last = "external"] \in Frame
    <3>1. Top(p) \in Frame /\ "born" \in Place
      BY <2>2, TopFrame DEF Place
    <3> QED  BY <3>1, FrameLast
  <2>5. /\ mine \in Seq(Frame) /\ mine # <<>>
        /\ theirs \in Seq(Frame) /\ theirs # <<>>
    BY <2>2, <2>3, <2>4, TopFrame
  <2>6. stack' = [stack EXCEPT ![p] = mine, ![c] = theirs]
    BY <2>1, <2>2 DEF ForkChild, TypeOK
  <2> HIDE DEF mine, theirs
  <2>7. stack' \in [Pid -> Seq(Frame)]
    BY <2>2, <2>5, <2>6 DEF TypeOK
  <2>8. \A q \in Pid : stack'[q] = <<>> <=> status'[q] # "shell"
    BY <2>1, <2>2, <2>5, <2>6 DEF ForkChild, TypeOK
  <2>9. status' = [status EXCEPT ![c] = "shell"] /\ parent' = [parent EXCEPT ![c] = p]
    BY <2>1 DEF ForkChild
  <2>10. /\ masked' \in [Pid -> SUBSET {"INT", "TSTP"}] /\ table' \in [Pid -> Seq(Entry)]
         /\ flag' \in [Pid -> Separator \cup {"none"}]
         /\ stdio' \in [Pid -> {"terminal", "RedirIn", "RedirOut"}]
    <3> HIDE DEF Entry, Separator
    <3> QED  BY <2>1, <2>2 DEF ForkChild, TypeOK
  <2>11. confirms' \subseteq Shells'
    BY <2>1, <2>2, <2>9 DEF ForkChild, TypeOK, Shells
  <2>12. /\ status' \in [Pid -> {"unused", "shell", "program", "zombie", "reaped"}]
         /\ parent' \in [Pid -> Pid \cup {0}]
    BY <2>2, <2>9 DEF TypeOK
  <2> QED  BY <2>1, <2>7, <2>8, <2>10, <2>11, <2>12 DEF ForkChild, TypeOK
<1>9. CASE ForkFails(p)
  <2>1. status[p] = "shell" /\ SetTop(p, Forked(p, -1))
    BY <1>9 DEF ForkFails
  <2>2. Forked(p, -1) \in Frame
    BY <2>1, TopFrame, FrameForked
  <2> QED  BY <1>9, <2>1, <2>2, OwnStepType DEF ForkFails, TypeOK
<1>10. CASE ChildUnblock(p)
  <2>1. status[p] = "shell" /\ SetTop(p, [Top(p) EXCEPT !.at = "unblocked"])
    BY <1>10 DEF ChildUnblock, Goto
  <2>2. [Top(p) EXCEPT !.at = "unblocked"] \in Frame
    <3>1. Top(p) \in Frame /\ "unblocked" \in Place
      BY <2>1, TopFrame DEF Place
    <3> QED  BY <3>1, FrameAt
  <2> QED  BY <1>10, <2>1, <2>2, OwnStepType DEF ChildUnblock, Goto, TypeOK
<1>11. CASE ChildReset(p)
  <2>1. status[p] = "shell" /\ SetTop(p, [Top(p) EXCEPT !.at = "exec"])
    BY <1>11 DEF ChildReset, Goto
  <2>2. [Top(p) EXCEPT !.at = "exec"] \in Frame
    <3>1. Top(p) \in Frame /\ "exec" \in Place
      BY <2>1, TopFrame DEF Place
    <3> QED  BY <3>1, FrameAt
  <2> QED  BY <1>11, <2>1, <2>2, OwnStepType DEF ChildReset, Goto, TypeOK
<1>12. CASE Exec(p)
  BY <1>12 DEF Exec, TypeOK, Shells
<1>13. CASE ExecFails(p)
  <2>1. status[p] = "shell" /\ SetTop(p, [Top(p) EXCEPT !.at = "return", !.ret = -1])
    BY <1>13 DEF ExecFails
  <2>2. [Top(p) EXCEPT !.at = "return", !.ret = -1] \in Frame
    <3>1. Top(p) \in Frame /\ "return" \in Place /\ -1 \in Returned
      BY <2>1, TopFrame DEF Place, Returned
    <3> QED  BY <3>1, FrameRet
  <2> QED  BY <1>13, <2>1, <2>2, OwnStepType DEF ExecFails, TypeOK
<1>14. CASE Link(p) \/ Fill(p)
  <2>1. PICK at \in {"fill", "unblock"} : SetTop(p, [Top(p) EXCEPT !.at = at])
    BY <1>14 DEF Link, Fill, Goto
  <2>2. status[p] = "shell" /\ at \in Place
    BY <1>14 DEF Link, Fill, Place
  <2>3. [Top(p) EXCEPT !.at = at] \in Frame
    BY <2>2, TopFrame, FrameAt
  <2>4. table' \in [Pid -> Seq(Entry)]
    <3>1. [pid |-> 0, status |-> "junk"] \in Entry
      BY DEF Entry
    <3>2. Top(p).child \in Pid \cup {0, -1}
      BY <2>2, TopFrame DEF Frame
    <3>3. Filled(table[p], Top(p).child) \in Seq(Entry) /\ table[p] \in Seq(Entry)
      BY <3>2, EntriesType DEF TypeOK
    <3>4. PICK e \in Entry, t \in Seq(Entry) :
             /\ table' = [table EXCEPT ![p] = Append(@, e)] \/ table' = [table EXCEPT ![p] = t]
      BY <1>14, <3>1, <3>3 DEF Link, Fill
    <3>5. Append(table[p], e) \in Seq(Entry) /\ table \in [Pid -> Seq(Entry)]
      BY <3>3 DEF TypeOK
    <3> QED  BY <3>4, <3>5
  <2>5. UNCHANGED <<status, code, merged, parent, masked, pending, confirms, stopped, flag,
                    stdio, user, branches>>
    BY <1>14 DEF Link, Fill
  <2>6. stack' \in [Pid -> Seq(Frame)] /\ \A q \in Pid : stack'[q] = <<>> <=> status[q] # "shell"
    BY <2>1, <2>2, <2>3, SetTopStack
  <2> QED  BY <2>4, <2>5, <2>6 DEF TypeOK, Shells, user
<1>15. CASE WaitSleeps(p)
  <2>1. status[p] = "shell" /\ SetTop(p, [Top(p) EXCEPT !.at = "waiting"])
    BY <1>15 DEF WaitSleeps, Goto
  <2>2. [Top(p) EXCEPT !.at = "waiting"] \in Frame
    <3>1. Top(p) \in Frame /\ "waiting" \in Place
      BY <2>1, TopFrame DEF Place
    <3> QED  BY <3>1, FrameAt
  <2> QED  BY <1>15, <2>1, <2>2, OwnStepType DEF WaitSleeps, Goto, TypeOK
<1>16. CASE WaitReturns(p)
  <2>1. status[p] = "shell"
    BY <1>16 DEF WaitReturns, WaitReady
  <2>2. PICK c \in Pid : /\ status[c] = "zombie"
                         /\ status' = [status EXCEPT ![c] = "reaped"]
                         /\ SetTop(p, [Top(p) EXCEPT !.at = "unblock", !.ret = code[c]])
    BY <1>16 DEF WaitReturns, Zombies, Children
  <2>3. [Top(p) EXCEPT !.at = "unblock", !.ret = code[c]] \in Frame
    <3>1. code[c] \in Returned
      BY DEF TypeOK, Returned
    <3>2. Top(p) \in Frame /\ "unblock" \in Place
      BY <2>1, TopFrame DEF Place
    <3> QED  BY <3>1, <3>2, FrameRet
  <2>4. status[c] # "shell" /\ \A q \in Pid : status'[q] = "shell" <=> status[q] = "shell"
    BY <2>2 DEF TypeOK
  <2>5. status' \in [Pid -> {"unused", "shell", "program", "zombie", "reaped"}]
    BY <2>2 DEF TypeOK
  <2> QED  BY <1>16, <2>1, <2>2, <2>3, <2>4, <2>5, SetTopStack DEF WaitReturns, TypeOK, Shells
<1>17. CASE WaitFails(p)
  <2>1. status[p] = "shell" /\ SetTop(p, [Top(p) EXCEPT !.at = "unblock", !.ret = 255])
    BY <1>17 DEF WaitFails, WaitReady
  <2>2. [Top(p) EXCEPT !.at = "unblock", !.ret = 255] \in Frame
    <3>1. Top(p) \in Frame /\ "unblock" \in Place /\ 255 \in Returned
      BY <2>1, TopFrame DEF Place, Returned
    <3> QED  BY <3>1, FrameRet
  <2> QED  BY <1>17, <2>1, <2>2, OwnStepType DEF WaitFails, WaitReady, TypeOK
<1>18. CASE Unblock(p)
  <2>1. status[p] = "shell" /\ SetTop(p, [Top(p) EXCEPT !.at = "return"])
    BY <1>18 DEF Unblock, Goto
  <2>2. [Top(p) EXCEPT !.at = "return"] \in Frame
    <3>1. Top(p) \in Frame /\ "return" \in Place
      BY <2>1, TopFrame DEF Place
    <3> QED  BY <3>1, FrameAt
  <2> QED  BY <1>18, <2>1, <2>2, OwnStepType DEF Unblock, Goto, TypeOK
<1>19. CASE CommandDone(p)
  <2>1. status[p] = "shell" /\ SetTop(p, NextPrompt(p))
    BY <1>19 DEF CommandDone, LineDone
  <2>2. NextPrompt(p) \in Frame
    BY <2>1, TopFrame, NextPromptFrame
  <2> QED  BY <1>19, <2>1, <2>2, OwnStepType DEF CommandDone, LineDone, TypeOK
<1>20. CASE RunBranch(p)
  <2>1. status[p] = "shell" /\ SetTop(p, [Top(p) EXCEPT !.at = "spawn", !.cont = Branch(p)])
    BY <1>20 DEF RunBranch, Spawn
  <2>2. [Top(p) EXCEPT !.at = "spawn", !.cont = Branch(p)] \in Frame
    BY <2>1, TopFrame, FrameCont, Zenon DEF Place, Branch
  <2>3. branches' \subseteq (0..MaxLines) \X {"then", "else"}
    <3>1. Top(p).number \in 0..MaxLines /\ Branch(p) \in {"then", "else"}
      BY <2>1, TopNumber DEF Branch
    <3> QED  BY <1>20, <3>1 DEF RunBranch, TypeOK
  <2>4. masked' \in [Pid -> SUBSET {"INT", "TSTP"}]
    BY <1>20 DEF RunBranch, Spawn, TypeOK
  <2> QED  BY <1>20, <2>1, <2>2, <2>3, <2>4, OwnStepType, Zenon DEF RunBranch, TypeOK
<1>21. CASE BranchInvalid(p)
  <2>1. status[p] = "shell" /\ SetTop(p, NextPrompt(p))
    BY <1>21 DEF BranchInvalid, LineDone
  <2>2. NextPrompt(p) \in Frame
    BY <2>1, TopFrame, NextPromptFrame
  <2> QED  BY <1>21, <2>1, <2>2, OwnStepType DEF BranchInvalid, LineDone, TypeOK
<1>22. CASE Interrupt(p)
  <2> DEFINE f == [Prompt EXCEPT !.at = "confirm", !.saved = masked[p]]
  <2>1. f \in Frame
    <3>1. masked[p] \in SUBSET {"INT", "TSTP"} /\ "confirm" \in Place
      BY DEF TypeOK, Place
    <3> QED  BY <3>1, PromptFrame DEF Frame
  <2>2. status[p] = "shell"
    BY <1>22 DEF Interrupt, TypeOK, Shells
  <2> HIDE DEF f
  <2>3. /\ stack[p] \in Seq(Frame) /\ Append(stack[p], f) \in Seq(Frame)
        /\ Append(stack[p], f) # <<>>
    <3>1. stack[p] \in Seq(Frame)
      BY DEF TypeOK
    <3>2. Len(Append(stack[p], f)) = Len(stack[p]) + 1 /\ Len(stack[p]) \in Nat
      BY <3>1
    <3> QED  BY <2>1, <3>1, <3>2
  <2>4. stack' = [stack EXCEPT ![p] = Append(stack[p], f)]
    BY <1>22 DEF Interrupt, f
  <2>5. /\ stack' \in [Pid -> Seq(Frame)]
        /\ \A q \in Pid : stack'[q] = <<>> <=> status[q] # "shell"
    BY <2>2, <2>3, <2>4 DEF TypeOK
  <2> QED  BY <1>22, <2>5 DEF Interrupt, TypeOK, Shells
<1>23. CASE Suspend(p)
  BY <1>23 DEF Suspend, TellParent, TypeOK, Shells
<1>24. CASE ChildSignal(p) \/ WaitInterrupted(p)
  <2>1. Handle(p) /\ status[p] = "shell"
    BY <1>24 DEF ChildSignal, WaitInterrupted, GetsChild
  <2>2. /\ pending' \in [Pid -> SUBSET {"INT", "TSTP", "CHLD"}]
        /\ status' \in [Pid -> {"unused", "shell", "program", "zombie", "reaped"}]
        /\ \A q \in Pid : status'[q] = "shell" <=> status[q] = "shell"
        /\ table' \in [Pid -> Seq(Entry)]
    <3>1. pending' \in [Pid -> SUBSET {"INT", "TSTP", "CHLD"}]
      <4>1. pending' = [pending EXCEPT ![p] = @ \ {"CHLD"}]
        BY <2>1, HandleEffect
      <4> QED  BY <4>1 DEF TypeOK
    <3>2. CASE UNCHANGED <<status, table>>
      BY <3>1, <3>2 DEF TypeOK
    <3>3. CASE \E c, t : Handles(p, c, t)
      <4>1. PICK c \in Pid, t \in Seq(Entry) :
               /\ status[c] = "zombie" /\ status' = [status EXCEPT ![c] = "reaped"]
               /\ table' = [table EXCEPT ![p] = t]
        BY <3>3 DEF Handles
      <4>2. \A q \in Pid : status'[q] = IF q = c THEN "reaped" ELSE status[q]
        BY <4>1 DEF TypeOK
      <4>3. status' \in [Pid -> {"unused", "shell", "program", "zombie", "reaped"}]
        BY <4>1 DEF TypeOK
      <4>4. table' \in [Pid -> Seq(Entry)]
        BY <4>1 DEF TypeOK
      <4> QED  BY <3>1, <4>1, <4>2, <4>3, <4>4
    <3> QED  BY <2>1, <3>2, <3>3, HandleEffect
  <2>3. CASE ChildSignal(p)
    BY <2>2, <2>3 DEF ChildSignal, TypeOK, Shells
  <2>4. CASE WaitInterrupted(p)
    <3>1. Top(p) \in Frame /\ "unblock" \in Place /\ 255 \in Returned
      BY <2>1, TopFrame DEF Place, Returned
    <3>2. [Top(p) EXCEPT !.at = "unblock", !.ret = 255] \in Frame
      BY <3>1, FrameRet
    <3>3. SetTop(p, [Top(p) EXCEPT !.at = "unblock", !.ret = 255])
      BY <2>4 DEF WaitInterrupted
    <3> QED  BY <2>1, <2>2, <2>4, <3>2, <3>3, SetTopStack DEF WaitInterrupted, TypeOK, Shells
  <2> QED  BY <1>24, <2>3, <2>4
<1> QED  BY <1>1, <1>2, <1>3, <1>4, <1>5, <1>6, <1>7, <1>8, <1>9, <1>10, <1>11, <1>12, <1>13,
            <1>14, <1>15, <1>16, <1>17, <1>18, <1>19, <1>20, <1>21, <1>22, <1>23, <1>24
         DEF Step

\* What the user does at a prompt keeps the types.
LEMMA UserStepType == ASSUME TypeOK, NEW p \in Pid, UserStep(p) PROVE TypeOK'
<1> USE DEF system, user, At, Runs
<1>1. CASE \E line \in Line : ReadLine(p, line)
  <2>1. PICK line \in Line : ReadLine(p, line)
    BY <1>1
  <2> DEFINE f == [Top(p) EXCEPT !.at = "dispatch", !.line = line, !.number = lines + 1]
  <2>2. status[p] = "shell" /\ SetTop(p, f)
    BY <2>1 DEF ReadLine
  <2>3. lines + 1 \in 0..MaxLines
    BY <2>1, ShellAssumption DEF ReadLine, TypeOK
  <2>4. f \in Frame
    BY <2>2, <2>3, TopFrame, FrameLine DEF Place
  <2>5. flag' \in [Pid -> Separator \cup {"none"}]
    BY <2>1 DEF ReadLine, TypeOK
  <2> HIDE DEF f
  <2>6. /\ stack' \in [Pid -> Seq(Frame)]
        /\ \A q \in Pid : stack'[q] = <<>> <=> status[q] # "shell"
    BY <2>2, <2>4, SetTopStack
  <2>7. /\ lines' \in 0..MaxLines
        /\ UNCHANGED <<status, code, merged, parent, masked, pending, confirms, stopped,
                       table, stdio, keys, restarts, branches>>
    BY <2>1, <2>3 DEF ReadLine
  <2> QED  BY <2>5, <2>6, <2>7 DEF TypeOK, Shells
<1>2. CASE EndOfFile(p)
  <2>1. CASE Len(stack[p]) = 1
    BY <1>2, <2>1, TerminateType DEF EndOfFile
  <2>2. CASE Len(stack[p]) # 1
    <3>1. status[p] = "shell"
      BY <1>2 DEF EndOfFile
    <3>2. /\ Front(stack[p]) \in Seq(Frame) /\ Front(stack[p]) # <<>>
          /\ Top(p).saved \in SUBSET {"INT", "TSTP"}
      <4>1. stack[p] \in Seq(Frame) /\ Len(stack[p]) \in Nat \ {0} /\ Top(p) \in Frame
        BY <3>1, TopFrame
      <4>2. Front(stack[p]) \in Seq(Frame) /\ Len(Front(stack[p])) = Len(stack[p]) - 1
        <5>1. Front(stack[p]) = [i \in 1..(Len(stack[p]) - 1) |-> stack[p][i]]
          BY <4>1 DEF Front
        <5>2. \A i \in 1..(Len(stack[p]) - 1) : stack[p][i] \in Frame
          BY <4>1
        <5> QED  BY <4>1, <5>1, <5>2
      <4>3. Top(p).saved \in SUBSET {"INT", "TSTP"}
        BY <4>1 DEF Frame
      <4>4. Front(stack[p]) # <<>>
        <5>1. \A t : t = <<>> => Len(t) = 0
          OBVIOUS
        <5>2. Len(Front(stack[p])) # 0
          BY <2>2, <4>1, <4>2
        <5> QED  BY <5>1, <5>2
      <4> QED  BY <4>2, <4>3, <4>4
    <3>3. /\ stack' \in [Pid -> Seq(Frame)]
          /\ \A q \in Pid : stack'[q] = <<>> <=> status[q] # "shell"
          /\ masked' \in [Pid -> SUBSET {"INT", "TSTP"}]
      <4>1. /\ stack' = [stack EXCEPT ![p] = Front(stack[p])]
            /\ masked' = [masked EXCEPT ![p] = Top(p).saved]
        BY <1>2, <2>2 DEF EndOfFile
      <4> QED  BY <3>1, <3>2, <4>1 DEF TypeOK
    <3> QED  BY <1>2, <2>2, <3>3 DEF EndOfFile, TypeOK, Shells
  <2> QED  BY <2>1, <2>2
<1>3. CASE Confirm(p)
  BY <1>3, TerminateType DEF Confirm
<1>4. CASE Decline(p)
  <2>1. status[p] = "shell" /\ SetTop(p, [Top(p) EXCEPT !.at = "prompt"])
    BY <1>4 DEF Decline, Goto
  <2>2. [Top(p) EXCEPT !.at = "prompt"] \in Frame
    <3>1. Top(p) \in Frame /\ "prompt" \in Place
      BY <2>1, TopFrame DEF Place
    <3> QED  BY <3>1, FrameAt
  <2> QED  BY <1>4, <2>1, <2>2, OwnStepType DEF Decline, TypeOK
<1> QED  BY <1>1, <1>2, <1>3, <1>4 DEF UserStep

\* A key and SIGCONT keep the types.
LEMMA TerminalType ==
    ASSUME TypeOK, Continue \/ \E key \in Key : Type(key)
    PROVE  TypeOK'
<1>1. CASE Continue
  BY <1>1 DEF Continue, TypeOK, user, Shells
<1>2. CASE \E key \in Key : Type(key)
  <2>1. PICK key \in Key : Type(key)
    BY <1>2
  <2>2. keys' \in 0..MaxKeys
    BY <2>1, ShellAssumption DEF Type, TypeOK
  <2>3. pending' \in [Pid -> SUBSET {"INT", "TSTP", "CHLD"}]
    <3>1. key \in {"INT", "TSTP", "CHLD"} /\ pending \in [Pid -> SUBSET {"INT", "TSTP", "CHLD"}]
      BY ShellAssumption DEF TypeOK
    <3> QED  BY <2>1, <3>1 DEF Type
  <2> QED  BY <2>1, <2>2, <2>3 DEF Type, TypeOK, Shells
<1> QED  BY <1>1, <1>2

\* The types hold for every number of processes, lines and keys.
THEOREM TypeCorrect == Spec => []TypeOK
<1>1. TypeOK /\ [Next]_vars => TypeOK'
  <2> SUFFICES ASSUME TypeOK, [Next]_vars PROVE TypeOK'
    OBVIOUS
  <2>1. CASE UNCHANGED vars
    BY <2>1 DEF vars, user, TypeOK, Shells
  <2> QED  BY <2>1, StepType, UserStepType, TerminalType DEF Next
<1> QED  BY <1>1, InitType, PTL DEF Spec

-----------------------------------------------------------------------------
(* What is reaped stays reaped, so the tables remain true.                 *)

\* Every step of Next leaves a reaped process reaped.
LEMMA ReapedStays ==
    ASSUME TypeOK, Next, NEW c \in Pid, status[c] = "reaped"
    PROVE  status'[c] = "reaped"
<1>1. ASSUME NEW p \in Pid, NEW result, Terminate(p, result), Alive(p) PROVE status'[c] = "reaped"
  BY <1>1 DEF Terminate, Alive
<1>2. ASSUME NEW p \in Pid, Step(p) PROVE status'[c] = "reaped"
  <2> USE DEF system, At, Runs, Selected, Receives
  <2>1. CASE Exit(p) \/ Crash(p) \/ Kill(p) \/ HandlerCrash(p) \/ ProgramExit(p)
    BY <1>1, <2>1 DEF Exit, Crash, Kill, HandlerCrash, GetsChild, ProgramExit, Alive
  <2>2. CASE RunCommand(p) \/ RunBackground(p) \/ Redirect(p) \/ RunIf(p) \/ LineFails(p)
    BY <2>2 DEF RunCommand, RunBackground, Redirect, RunIf, LineFails
  <2>3. CASE Fork(p)
    BY <2>3 DEF Fork, ForkChild, Unused, TypeOK
  <2>4. CASE BuiltIn(p) \/ ForkFails(p) \/ ChildUnblock(p) \/ ChildReset(p) \/ ExecFails(p)
             \/ Link(p) \/ Fill(p) \/ WaitSleeps(p) \/ WaitFails(p) \/ Unblock(p) \/ CommandDone(p)
             \/ RunBranch(p) \/ BranchInvalid(p) \/ Interrupt(p) \/ Suspend(p)
    BY <2>4 DEF BuiltIn, ForkFails, ChildUnblock, ChildReset, ExecFails, Link, Fill, WaitSleeps,
                WaitFails, Unblock, CommandDone, RunBranch, BranchInvalid, Interrupt, Suspend
  <2>5. CASE Exec(p)
    BY <2>5 DEF Exec
  <2>6. CASE WaitReturns(p)
    BY <2>6 DEF WaitReturns, Zombies, Children, TypeOK
  <2>7. CASE ChildSignal(p) \/ WaitInterrupted(p)
    <3>1. Handle(p)
      BY <2>7 DEF ChildSignal, WaitInterrupted
    <3>2. ASSUME NEW d, NEW t, Handles(p, d, t) PROVE status'[c] = "reaped"
      BY <3>2 DEF Handles, TypeOK
    <3> QED  BY <3>1, <3>2, HandleEffect
  <2> QED  BY <1>2, <2>1, <2>2, <2>3, <2>4, <2>5, <2>6, <2>7 DEF Step
<1>3. ASSUME NEW p \in Pid, UserStep(p) PROVE status'[c] = "reaped"
  BY <1>1, <1>3 DEF UserStep, ReadLine, EndOfFile, Confirm, Decline, At, Runs, Alive, system
<1>4. CASE Continue \/ \E key \in Key : Type(key)
  BY <1>4 DEF Continue, Type
<1> QED  BY <1>2, <1>3, <1>4 DEF Next

\* Init has empty tables.
LEMMA RecordedInit == Init => RecordedMeansReaped
BY DEF Init, RecordedMeansReaped

\* A table changes only by an entry of which nothing is known, by the pid of such an
\* entry, by the handler that has just reaped the process of the entry, by being
\* copied or dropped.
LEMMA RecordedNext == TypeOK /\ RecordedMeansReaped /\ Next => RecordedMeansReaped'
<1> SUFFICES ASSUME TypeOK, RecordedMeansReaped, Next PROVE RecordedMeansReaped'
  OBVIOUS
<1> DEFINE Good(entries) == \A i \in DOMAIN entries :
              entries[i].status = "exit" => entries[i].pid \in Pid /\ status'[entries[i].pid] = "reaped"
<1>1. \A q \in Pid : Good(table[q])
  BY ReapedStays DEF RecordedMeansReaped
<1>2. SUFFICES \A q \in Pid : Good(table'[q])
  BY DEF RecordedMeansReaped
<1>3. Good(<<>>)
  OBVIOUS
<1>4. CASE UNCHANGED table
  BY <1>1, <1>4
<1>5. CASE \E p \in Pid : table' = [table EXCEPT ![p] = <<>>]
  BY <1>1, <1>3, <1>5 DEF TypeOK
<1>6. CASE \E p, c \in Pid : table' = [table EXCEPT ![c] = table[p]]
  BY <1>1, <1>6 DEF TypeOK
<1>7. CASE \E p \in Pid : Link(p)
  <2>1. PICK p \in Pid : table' = [table EXCEPT ![p] = Append(@, [pid |-> 0, status |-> "junk"])]
    BY <1>7 DEF Link
  <2>2. PICK e : e = [pid |-> 0, status |-> "junk"]
    OBVIOUS
  <2>3. table[p] \in Seq(Entry) /\ e.status # "exit"
    BY <2>2 DEF TypeOK
  <2>4. /\ DOMAIN Append(table[p], e) = DOMAIN table[p] \cup {Len(table[p]) + 1}
        /\ \A i \in DOMAIN table[p] : Append(table[p], e)[i] = table[p][i]
        /\ Append(table[p], e)[Len(table[p]) + 1] = e
    BY <2>3
  <2>5. Good(Append(table[p], e))
    BY <1>1, <2>3, <2>4
  <2> QED  BY <1>1, <2>1, <2>2, <2>5 DEF TypeOK
<1>8. CASE \E p \in Pid : Fill(p)
  <2>1. PICK p \in Pid : Fill(p)
    BY <1>8
  <2>5. PICK c : c = Top(p).child /\ table' = [table EXCEPT ![p] = Filled(@, c)]
    BY <2>1 DEF Fill
  <2>2. /\ DOMAIN Filled(table[p], c) = DOMAIN table[p]
        /\ \A i \in DOMAIN table[p] : table[p][i] \in Entry
    BY DEF Filled, TypeOK
  <2>3. ASSUME NEW i \in DOMAIN table[p], Filled(table[p], c)[i].status = "exit"
        PROVE  Filled(table[p], c)[i] = table[p][i]
    <3>1. table[p][i].status = "exit"
      BY <2>2, <2>3 DEF Filled, Entry
    <3>2. table[p][i].pid # 0
      BY <1>1, <3>1 DEF Pid
    <3> QED  BY <3>2 DEF Filled
  <2>4. Good(Filled(table[p], c))
    BY <1>1, <2>2, <2>3
  <2> QED  BY <1>1, <2>4, <2>5 DEF TypeOK
<1>12. CASE \E p \in Pid : ChildSignal(p) \/ WaitInterrupted(p)
  <2>1. PICK p \in Pid : Handle(p)
    BY <1>12 DEF ChildSignal, WaitInterrupted
  <2>2. CASE UNCHANGED table
    BY <1>4, <2>2
  <2>3. CASE \E c, t : Handles(p, c, t)
    <3>1. PICK c, t : Handles(p, c, t)
      BY <2>3
    <3>2. /\ c \in Pid /\ status'[c] = "reaped" /\ table' = [table EXCEPT ![p] = t]
          /\ Tells(table[p], t, c)
      BY <3>1 DEF Handles, TypeOK
    <3>3. Good(t)
      BY <1>1, <3>2 DEF Tells
    <3> QED  BY <1>1, <3>2, <3>3 DEF TypeOK
  <2> QED  BY <2>1, <2>2, <2>3, HandleEffect
<1>9. ASSUME NEW p \in Pid, Step(p), ~Link(p), ~Fill(p), ~ChildSignal(p), ~WaitInterrupted(p)
      PROVE  \/ UNCHANGED table
             \/ table' = [table EXCEPT ![p] = <<>>]
             \/ \E c \in Pid : table' = [table EXCEPT ![c] = table[p]]
  <2> USE DEF system
  <2>1. CASE Exit(p) \/ Crash(p) \/ Kill(p) \/ HandlerCrash(p) \/ ProgramExit(p) \/ Exec(p)
    BY <2>1 DEF Exit, Crash, Kill, HandlerCrash, ProgramExit, Exec, Terminate
  <2>2. CASE RunCommand(p) \/ RunBackground(p) \/ Redirect(p) \/ RunIf(p) \/ LineFails(p)
    BY <2>2 DEF RunCommand, RunBackground, Redirect, RunIf, LineFails
  <2>3. CASE Fork(p)
    BY <2>3 DEF Fork, ForkChild, Unused
  <2>4. CASE BuiltIn(p) \/ ForkFails(p) \/ ChildUnblock(p) \/ ChildReset(p) \/ ExecFails(p)
             \/ WaitSleeps(p) \/ WaitReturns(p) \/ WaitFails(p) \/ Unblock(p) \/ CommandDone(p)
             \/ RunBranch(p) \/ BranchInvalid(p) \/ Interrupt(p) \/ Suspend(p)
    BY <2>4 DEF BuiltIn, ForkFails, ChildUnblock, ChildReset, ExecFails, WaitSleeps, WaitReturns,
                WaitFails, Unblock, CommandDone, RunBranch, BranchInvalid, Interrupt, Suspend
  <2> QED  BY <1>9, <2>1, <2>2, <2>3, <2>4 DEF Step
<1>10. ASSUME NEW p \in Pid, UserStep(p)
       PROVE  UNCHANGED table \/ table' = [table EXCEPT ![p] = <<>>]
  <2>1. CASE \E line \in Line : ReadLine(p, line)
    BY <2>1 DEF ReadLine
  <2>2. CASE EndOfFile(p)
    BY <2>2 DEF EndOfFile, Terminate, system
  <2>3. CASE Confirm(p) \/ Decline(p)
    BY <2>3 DEF Confirm, Decline, Terminate, system
  <2> QED  BY <1>10, <2>1, <2>2, <2>3 DEF UserStep
<1>11. ASSUME Continue \/ \E key \in Key : Type(key) PROVE UNCHANGED table
  BY <1>11 DEF Continue, Type
<1> QED  BY <1>4, <1>5, <1>6, <1>7, <1>8, <1>9, <1>10, <1>11, <1>12 DEF Next

\* What the handler has stored for a process in a table is true, for every number of
\* processes, lines and keys.
THEOREM TablesTrue == Spec => []RecordedMeansReaped
<1>1. TypeOK /\ RecordedMeansReaped /\ [Next]_vars => RecordedMeansReaped'
  <2>1. TypeOK /\ RecordedMeansReaped /\ UNCHANGED vars => RecordedMeansReaped'
    BY DEF vars, RecordedMeansReaped
  <2> QED  BY <2>1, RecordedNext
<1> QED  BY <1>1, RecordedInit, TypeCorrect, PTL DEF Spec
-----------------------------------------------------------------------------
(* The command loops.  A step of p changes its own stack only, or copies it to *)
(* a process that had none.                                                 *)

Loops(p) == /\ FramesRight(p) /\ MaskRight(p) /\ FlagRight(p)
            /\ StdioRight(p) /\ ChildrenRight(p)

LoopsInv == (\A p \in Shells : Loops(p)) /\ OriginalRight

\* What p's step leaves of the other processes.
OthersKeep(p) == \A q \in Pid \ {p} : /\ stack'[q] = stack[q] /\ masked'[q] = masked[q]
                                      /\ flag'[q] = flag[q] /\ stdio'[q] = stdio[q]

\* No process that has existed is unused again, or not reaped any more.
Ages == /\ \A c \in Pid : /\ status[c] # "unused" => status'[c] # "unused"
                          /\ status[c] = "reaped" => status'[c] = "reaped"
        /\ restarts' = restarts

\* q stays the parent of its children, and of none it has forked makes an entry.
KeepsChildren(q) == \A c \in Pid : status[c] # "unused" =>
                        /\ parent[c] = q => parent'[c] = q
                        /\ ~InTable(q, c) => ~InTable(q, c)'

\* The frame g that takes the place of the innermost loop of p, in r, is right for
\* the mask, the flags and the descriptors of r and the processes after the step.
Suits(p, r, g) ==
    /\ g \in Frame /\ FrameRight(g)
    /\ "INT" \in masked'[r] <=> Deaf(g, Len(stack[p]))
    /\ g.at \in Blocking => "TSTP" \in masked'[r]
    /\ g.at = "prompt" => flag'[r] = "none"
    /\ g.at = "dispatch" => flag'[r] \in {"none", g.line}
    /\ stdio'[r] # "terminal" =>
          g.cont = "redirect" \/ (stdio[p] # "terminal" /\ Top(p).cont # "redirect")
    /\ ChildRight(r, g)'

\* The innermost loop of p goes on with such a frame; it begins a background command
\* only if the flags say so.
Moves(p, g) == /\ status[p] = "shell" /\ SetTop(p, g) /\ Suits(p, p, g)
               /\ p = 1 => OriginalFrame(g)
               /\ g.at = "spawn" /\ g.cont = "background" => flag[p] = "Background"

\* What holds of a child stays so while the world ages.
LEMMA ChildStays ==
    ASSUME Ages, NEW q \in Pid, NEW r \in Pid, NEW f, ChildRight(q, f),
           f.at \notin Waiting \/ (KeepsChildren(q) /\ r = q)
    PROVE  ChildRight(r, f)'
<1>1. CASE f.at \notin Waiting
  BY <1>1 DEF ChildRight, Ages
<1>2. CASE f.at \in Waiting /\ KeepsChildren(q) /\ r = q
  BY <1>2 DEF ChildRight, Ages, KeepsChildren
<1> QED  BY <1>1, <1>2

\* A process that the step leaves alone keeps its loops right.
LEMMA LoopsStay ==
    ASSUME TypeOK, Ages, NEW q \in Pid, status[q] = "shell", Loops(q), KeepsChildren(q),
           stack'[q] = stack[q], masked'[q] = masked[q], flag'[q] = flag[q], stdio'[q] = stdio[q]
    PROVE  Loops(q)'
<1>1. FramesRight(q)'
  BY DEF Loops, FramesRight
<1>2. MaskRight(q)' /\ FlagRight(q)'
  BY DEF Loops, MaskRight, FlagRight, Top
<1>3. StdioRight(q)'
  BY DEF Loops, StdioRight
<1>4. ChildrenRight(q)'
  <2>1. \A i \in DOMAIN stack[q] : ChildRight(q, stack[q][i])
    BY DEF Loops, ChildrenRight
  <2>2. \A i \in DOMAIN stack[q] : ChildRight(q, stack[q][i])'
    BY <2>1, ChildStays
  <2> QED  BY <2>2 DEF ChildrenRight
<1> QED  BY <1>1, <1>2, <1>3, <1>4 DEF Loops

\* The loops of p are right, in p or in its copy r, when the innermost one goes on
\* with a frame that suits.
LEMMA LoopsGoOn ==
    ASSUME TypeOK, Ages, NEW p \in Pid, status[p] = "shell", Loops(p), NEW r \in Pid, NEW g,
           Suits(p, r, g), stack'[r] = [stack[p] EXCEPT ![Len(stack[p])] = g]
    PROVE  Loops(r)'
<1> DEFINE n == Len(stack[p])
<1>1. /\ n \in Nat \ {0} /\ DOMAIN stack[p] = 1..n /\ Top(p) = stack[p][n]
      /\ stack[p] \in Seq(Frame)
  BY TopFrame
<1>2. /\ Len(stack'[r]) = n /\ DOMAIN stack'[r] = 1..n
      /\ stack'[r][n] = g
      /\ \A i \in 1..n : i # n => stack'[r][i] = stack[p][i]
  BY <1>1 DEF Suits
<1>3. Top(r)' = g
  BY <1>1, <1>2 DEF Top, Last
<1> HIDE DEF n
<1>4. FramesRight(r)'
  BY <1>1, <1>2 DEF Loops, FramesRight, Suits, n
<1>5. MaskRight(r)'
  BY <1>2, <1>3 DEF Suits, MaskRight, n
<1>6. FlagRight(r)'
  BY <1>3 DEF Suits, FlagRight
<1>7. StdioRight(r)'
  BY <1>1, <1>2 DEF Loops, StdioRight, Suits
<1>8. ChildrenRight(r)'
  <2> SUFFICES ASSUME NEW i \in 1..n PROVE ChildRight(r, stack[r][i])'
    BY <1>2 DEF ChildrenRight
  <2>1. CASE i = n
    BY <1>2, <2>1 DEF Suits
  <2>2. CASE i # n
    <3>1. PICK f : f = stack[p][i]
      OBVIOUS
    <3>2. f.at \notin Waiting /\ ChildRight(p, f)
      BY <1>1, <2>2, <3>1 DEF Loops, FramesRight, ChildrenRight, Deaf, Waiting, Blocking, n
    <3>3. ChildRight(r, f)'
      BY <3>2, ChildStays
    <3> QED  BY <1>2, <2>2, <3>1, <3>3
  <2> QED  BY <2>1, <2>2
<1> QED  BY <1>4, <1>5, <1>6, <1>7, <1>8 DEF Loops

\* So the loops of p are right when its innermost one moves on.
LEMMA LoopsMove ==
    ASSUME TypeOK, Ages, NEW p \in Pid, Loops(p), NEW g, Moves(p, g)
    PROVE  Loops(p)'
<1>1. stack'[p] = [stack[p] EXCEPT ![Len(stack[p])] = g]
  BY DEF Moves, SetTop, TypeOK
<1> QED  BY <1>1, LoopsGoOn DEF Moves

\* What is right of the innermost loop of a process.
LEMMA TopRight ==
    ASSUME TypeOK, NEW p \in Pid, status[p] = "shell", Loops(p)
    PROVE  /\ Top(p) \in Frame
           /\ FrameRight(Top(p)) /\ ChildRight(p, Top(p))
           /\ "INT" \in masked[p] <=> Deaf(Top(p), Len(stack[p]))
           /\ Top(p).at \in Blocking => "TSTP" \in masked[p]
           /\ OriginalRight /\ p = 1 => OriginalFrame(Top(p))
<1>1. /\ Len(stack[p]) \in DOMAIN stack[p] /\ Top(p) = stack[p][Len(stack[p])]
      /\ Top(p) \in Frame
  BY TopFrame
<1> QED  BY <1>1 DEF Loops, FramesRight, ChildrenRight, MaskRight, OriginalRight

\* A loop reads a line.
LEMMA ReadLineMoves ==
    ASSUME TypeOK, NEW p \in Pid, Loops(p), OriginalRight, NEW line \in Line, ReadLine(p, line)
    PROVE  \E g : Moves(p, g)
<1>1. PICK f : f = Top(p)
  OBVIOUS
<1>2. PICK g : g = [f EXCEPT !.at = "dispatch", !.line = line, !.number = lines + 1]
  OBVIOUS
<1>3. /\ status[p] = "shell" /\ f.at = "prompt" /\ SetTop(p, g)
      /\ UNCHANGED <<status, masked, stdio>>
      /\ flag' = [flag EXCEPT ![p] = IF line \in Separator THEN line ELSE "none"]
  BY <1>1, <1>2 DEF ReadLine, At, Runs
<1>4. /\ f \in Frame /\ FrameRight(f)
      /\ "INT" \in masked[p] <=> Deaf(f, Len(stack[p]))
      /\ p = 1 => OriginalFrame(f)
  BY <1>1, <1>3, TopRight
<1>5. g \in Frame
  <2>1. lines + 1 \in 0..MaxLines /\ "dispatch" \in Place
    BY ShellAssumption DEF ReadLine, TypeOK, Place
  <2> QED  BY <1>2, <1>4, <2>1, FrameLine
<1>6. /\ g.at = "dispatch" /\ g.line = line /\ g.cont = f.cont /\ g.child = f.child
      /\ g.ret = f.ret /\ g.last = f.last /\ g.saved = f.saved
  BY <1>2, <1>4 DEF Frame
<1>7. FrameRight(g) /\ g.cont = "line" /\ f.cont = "line"
  BY <1>3, <1>4, <1>6 DEF FrameRight, AfterFork
<1>8. ("INT" \in masked'[p] <=> Deaf(g, Len(stack[p]))) /\ g.at \notin Blocking
  BY <1>3, <1>4, <1>6 DEF Deaf, Blocking
<1>9. flag'[p] \in {"none", line}
  BY <1>3 DEF TypeOK
<1>10. p = 1 => OriginalFrame(g)
  BY <1>4, <1>6, <1>7 DEF OriginalFrame, OfCopies
<1>11. ChildRight(p, g)'
  BY <1>3, <1>4, <1>6 DEF ChildRight, FrameRight, Pid
<1> QED  BY <1>3, <1>1, <1>5, <1>6, <1>7, <1>8, <1>9, <1>10, <1>11 DEF Moves, Suits

\* A loop blocks the signals and begins to run a command.
LEMMA SpawnMoves ==
    ASSUME TypeOK, NEW p \in Pid, status[p] = "shell", Loops(p), OriginalRight,
           NEW cont \in {"line", "background", "redirect", "if", "then", "else"},
           Top(p).at \in {"dispatch", "return"}, Spawn(p, cont), UNCHANGED <<status, parent, restarts>>,
           Top(p).at = "return" => Top(p).cont = "if",
           UNCHANGED stdio \/ cont = "redirect",
           p = 1 => cont # "else", cont = "background" => flag[p] = "Background"
    PROVE  \E g : Moves(p, g)
<1>1. PICK f : f = Top(p)
  OBVIOUS
<1>2. PICK g : g = [f EXCEPT !.at = "spawn", !.cont = cont]
  OBVIOUS
<1>3. SetTop(p, g) /\ {"INT", "TSTP"} \subseteq masked'[p]
  BY <1>1, <1>2 DEF Spawn, TypeOK
<1>4. /\ f \in Frame /\ FrameRight(f) /\ ChildRight(p, f)
      /\ p = 1 => OriginalFrame(f)
  BY <1>1, TopRight, Zenon
<1>5. g \in Frame
  <2>1. "spawn" \in Place
    BY DEF Place
  <2> QED  BY <1>2, <1>4, <2>1, FrameCont, Zenon
<1>6. /\ g.at = "spawn" /\ g.line = f.line /\ g.cont = cont /\ g.child = f.child
      /\ g.ret = f.ret /\ g.last = f.last /\ g.saved = f.saved
  BY <1>2, <1>4 DEF Frame
<1>7. FrameRight(g)
  BY <1>4, <1>6 DEF FrameRight, AfterFork
<1>8. ("INT" \in masked'[p] <=> Deaf(g, Len(stack[p]))) /\ "TSTP" \in masked'[p]
  BY <1>3, <1>6 DEF Deaf, Blocking
<1>9. p = 1 => OriginalFrame(g)
  BY <1>4, <1>6 DEF OriginalFrame, OfCopies
<1>10. f.cont \in {"line", "if"}
  BY <1>1, <1>4 DEF FrameRight
<1>11. ChildRight(p, g)'
  <2>1. f.child \in Pid /\ restarts => status[f.child] = "reaped"
    BY <1>1, <1>4, <1>10 DEF ChildRight, FrameRight, Waiting, Pid
  <2> QED  BY <1>6, <2>1 DEF ChildRight, Waiting
<1> QED  BY <1>1, <1>3, <1>5, <1>6, <1>7, <1>8, <1>9, <1>10, <1>11 DEF Moves, Suits

\* A loop is done with its line.
LEMMA LineDoneMoves ==
    ASSUME TypeOK, NEW p \in Pid, status[p] = "shell", Loops(p), OriginalRight,
           Top(p).at \in {"dispatch", "return"}, LineDone(p), UNCHANGED <<status, masked>>,
           (UNCHANGED stdio /\ Top(p).cont # "redirect") \/ stdio'[p] = "terminal"
    PROVE  \E g : Moves(p, g)
<1>1. PICK f : f = Top(p)
  OBVIOUS
<1>2. PICK g : g = NextPrompt(p)
  OBVIOUS
<1>3. SetTop(p, g) /\ flag'[p] = "none"
  BY <1>2 DEF LineDone, TypeOK
<1>4. /\ f \in Frame /\ FrameRight(f)
      /\ "INT" \in masked[p] <=> Deaf(f, Len(stack[p]))
  BY <1>1, TopRight, Zenon
<1>5. g \in Frame
  BY <1>1, <1>2, <1>4, NextPromptFrame
<1>6. /\ g.at = "prompt" /\ g.cont = "line" /\ g.child = 0
      /\ g.ret = 0 /\ g.last = f.last /\ g.saved = f.saved
  BY <1>1, <1>2 DEF NextPrompt, Prompt
<1>7. FrameRight(g)
  BY <1>4, <1>6 DEF FrameRight, AfterFork
<1>8. ("INT" \in masked'[p] <=> Deaf(g, Len(stack[p]))) /\ g.at \notin Blocking
  BY <1>1, <1>4, <1>6 DEF Deaf, Blocking
<1>9. OriginalFrame(g) /\ ChildRight(p, g)'
  BY <1>6 DEF OriginalFrame, OfCopies, ChildRight, Pid
<1> QED  BY <1>1, <1>3, <1>5, <1>6, <1>7, <1>8, <1>9 DEF Moves, Suits

\* A built-in command returns.
LEMMA BuiltInMoves ==
    ASSUME TypeOK, NEW p \in Pid, Loops(p), OriginalRight, BuiltIn(p)
    PROVE  \E g : Moves(p, g)
<1>1. PICK f : f = Top(p)
  OBVIOUS
<1>2. PICK g : g = [f EXCEPT !.at = "return", !.ret = 0, !.last = "builtin"]
  OBVIOUS
<1>3. /\ status[p] = "shell" /\ f.at = "spawn" /\ SetTop(p, g)
      /\ UNCHANGED <<status, masked, stdio, restarts>>
  BY <1>1, <1>2 DEF BuiltIn, At, Runs, system, user
<1>4. /\ f \in Frame /\ FrameRight(f) /\ ChildRight(p, f)
      /\ "INT" \in masked[p] <=> Deaf(f, Len(stack[p]))
      /\ p = 1 => OriginalFrame(f)
  BY <1>1, <1>3, TopRight, Zenon
<1>5. g \in Frame
  <2>1. "return" \in Place
    BY DEF Place
  <2> QED  BY <1>2, <1>4, <2>1, FrameBuiltIn, Zenon
<1>6. /\ g.at = "return" /\ g.line = f.line /\ g.cont = f.cont /\ g.child = f.child
      /\ g.ret = 0 /\ g.last = "builtin" /\ g.saved = f.saved
  BY <1>2, <1>4 DEF Frame
<1>7. FrameRight(g)
  BY <1>4, <1>6 DEF FrameRight, AfterFork
<1>8. ("INT" \in masked'[p] <=> Deaf(g, Len(stack[p]))) /\ g.at \notin Blocking
  BY <1>3, <1>4, <1>6 DEF Deaf, Blocking
<1>9. p = 1 => OriginalFrame(g)
  BY <1>4, <1>6 DEF OriginalFrame, OfCopies
<1>10. ChildRight(p, g)'
  BY <1>3, <1>4, <1>6 DEF ChildRight, Waiting
<1> QED  BY <1>1, <1>3, <1>5, <1>6, <1>7, <1>8, <1>9, <1>10 DEF Moves, Suits

\* The frame of a loop that has forked, whether it has a child or not.
LEMMA ForkedRight ==
    ASSUME NEW p \in Pid, Top(p) \in Frame, FrameRight(Top(p)), NEW child \in Pid \cup {-1},
           NEW g, g = Forked(p, child)
    PROVE  /\ g \in Frame /\ FrameRight(g)
           /\ g.at \in {"wait", "record"} /\ g.child = child
           /\ g.cont = Top(p).cont /\ g.ret = Top(p).ret
<1>1. PICK f : f = Top(p)
  OBVIOUS
<1>2. PICK at : at = IF f.cont = "background" THEN "record" ELSE "wait"
  OBVIOUS
<1>3. g \in Frame
  BY FrameForked
<1>4. g = [f EXCEPT !.child = child, !.last = "external", !.at = at]
  BY <1>1, <1>2 DEF Forked
<1>5. /\ g.at = at /\ g.line = f.line /\ g.cont = f.cont /\ g.child = child
      /\ g.ret = f.ret /\ g.last = "external" /\ g.saved = f.saved
  BY <1>1, <1>4 DEF Frame
<1>6. FrameRight(g)
  BY <1>1, <1>2, <1>5 DEF FrameRight
<1> QED  BY <1>1, <1>2, <1>3, <1>5, <1>6

\* fork fails.
LEMMA ForkFailsMoves ==
    ASSUME TypeOK, NEW p \in Pid, Loops(p), OriginalRight, ForkFails(p)
    PROVE  \E g : Moves(p, g)
<1>1. PICK f : f = Top(p)
  OBVIOUS
<1>2. PICK g : g = Forked(p, -1)
  OBVIOUS
<1>3. /\ status[p] = "shell" /\ f.at = "spawn" /\ SetTop(p, g)
      /\ UNCHANGED <<status, masked, stdio>>
  BY <1>1, <1>2 DEF ForkFails, At, Runs, system, user
<1>4. /\ f \in Frame /\ FrameRight(f)
      /\ "INT" \in masked[p] <=> Deaf(f, Len(stack[p]))
      /\ f.at \in Blocking => "TSTP" \in masked[p]
      /\ p = 1 => OriginalFrame(f)
  BY <1>1, <1>3, TopRight, Zenon
<1>5. /\ g \in Frame /\ FrameRight(g)
      /\ g.at \in {"wait", "record"} /\ g.child = -1
      /\ g.cont = f.cont /\ g.ret = f.ret
  BY <1>1, <1>2, <1>4, ForkedRight
<1>6. ("INT" \in masked'[p] <=> Deaf(g, Len(stack[p]))) /\ "TSTP" \in masked'[p]
  BY <1>3, <1>4, <1>5 DEF Deaf, Blocking
<1>7. p = 1 => OriginalFrame(g)
  BY <1>4, <1>5 DEF OriginalFrame, OfCopies
<1>8. ChildRight(p, g)'
  BY <1>5 DEF ChildRight, Pid
<1> QED  BY <1>1, <1>3, <1>5, <1>6, <1>7, <1>8 DEF Moves, Suits

\* A loop goes on to a place without another change of its frame, and with the same
\* processes and descriptors.
LEMMA GotoMoves ==
    ASSUME TypeOK, NEW p \in Pid, status[p] = "shell", Loops(p), OriginalRight,
           NEW at \in Place, Goto(p, at), UNCHANGED <<status, parent, stdio, restarts>>,
           FrameRight([Top(p) EXCEPT !.at = at]), at \notin {"dispatch", "spawn"},
           "INT" \in masked'[p] <=> Deaf([Top(p) EXCEPT !.at = at], Len(stack[p])),
           at \in Blocking => "TSTP" \in masked'[p], at = "prompt" => flag'[p] = "none",
           p = 1 => at \notin OfCopies,
           Top(p).at \in Waiting => at \in Waiting \/ Top(p).cont = "background",
           at \in Waiting => at # "record" /\ Top(p).at \in Waiting,
           at \in {"wait", "waiting"} => UNCHANGED table /\ Top(p).at \in {"wait", "waiting"}
    PROVE  \E g : Moves(p, g)
<1>1. PICK f : f = Top(p)
  OBVIOUS
<1>2. PICK g : g = [f EXCEPT !.at = at]
  OBVIOUS
<1>3. SetTop(p, g)
  BY <1>1, <1>2 DEF Goto
<1>4. /\ f \in Frame /\ ChildRight(p, f)
      /\ p = 1 => OriginalFrame(f)
  BY <1>1, TopRight, Zenon
<1>5. g \in Frame
  BY <1>2, <1>4, FrameAt
<1>6. /\ g.at = at /\ g.line = f.line /\ g.cont = f.cont /\ g.child = f.child
      /\ g.ret = f.ret /\ g.last = f.last /\ g.saved = f.saved
  BY <1>2, <1>4 DEF Frame
<1>7. FrameRight(g) /\ ("INT" \in masked'[p] <=> Deaf(g, Len(stack[p])))
  BY <1>1, <1>2
<1>8. p = 1 => OriginalFrame(g)
  BY <1>4, <1>6 DEF OriginalFrame
<1>9. ChildRight(p, g)'
  BY <1>1, <1>4, <1>6 DEF ChildRight, InTable
<1> QED  BY <1>1, <1>3, <1>5, <1>6, <1>7, <1>8, <1>9 DEF Moves, Suits

\* What changing the place of a frame does to it.
LEMMA PlaceOnly ==
    ASSUME NEW f \in Frame, NEW at
    PROVE  LET g == [f EXCEPT !.at = at]
           IN  /\ g.at = at /\ g.line = f.line /\ g.cont = f.cont /\ g.child = f.child
               /\ g.ret = f.ret /\ g.last = f.last /\ g.saved = f.saved
BY DEF Frame

\* The child unblocks the signals.
LEMMA ChildUnblockMoves ==
    ASSUME TypeOK, NEW p \in Pid, Loops(p), OriginalRight, ChildUnblock(p)
    PROVE  \E g : Moves(p, g)
<1>1. PICK g : g = [Top(p) EXCEPT !.at = "unblocked"]
  OBVIOUS
<1>2. /\ status[p] = "shell" /\ Top(p).at = "born" /\ Goto(p, "unblocked")
      /\ UNCHANGED <<status, parent, flag, stdio, restarts>>
      /\ masked' = [masked EXCEPT ![p] = @ \ {"INT", "TSTP"}]
  BY DEF ChildUnblock, At, Runs, system, user
<1>3. /\ Top(p) \in Frame /\ FrameRight(Top(p))
      /\ p = 1 => OriginalFrame(Top(p))
  BY <1>2, TopRight, Zenon
<1>4. /\ g.at = "unblocked" /\ g.line = Top(p).line /\ g.cont = Top(p).cont
      /\ g.last = Top(p).last /\ g.saved = Top(p).saved
  BY <1>1, <1>3, PlaceOnly
<1>5. FrameRight(g) /\ ~Deaf(g, Len(stack[p])) /\ p # 1
  BY <1>2, <1>3, <1>4 DEF FrameRight, Deaf, AfterFork, Blocking, OriginalFrame, OfCopies
<1>6. "INT" \notin masked'[p]
  BY <1>2 DEF TypeOK
<1> QED  BY <1>1, <1>2, <1>5, <1>6, GotoMoves DEF Place, Blocking, Waiting

\* The child takes the default actions back.
LEMMA ChildResetMoves ==
    ASSUME TypeOK, NEW p \in Pid, Loops(p), OriginalRight, ChildReset(p)
    PROVE  \E g : Moves(p, g)
<1>1. PICK g : g = [Top(p) EXCEPT !.at = "exec"]
  OBVIOUS
<1>2. /\ status[p] = "shell" /\ Top(p).at = "unblocked" /\ Goto(p, "exec")
      /\ UNCHANGED <<status, parent, flag, stdio, masked, restarts>>
  BY DEF ChildReset, At, Runs, user
<1>3. /\ Top(p) \in Frame /\ FrameRight(Top(p))
      /\ "INT" \in masked[p] <=> Deaf(Top(p), Len(stack[p]))
      /\ p = 1 => OriginalFrame(Top(p))
  BY <1>2, TopRight, Zenon
<1>4. /\ g.at = "exec" /\ g.line = Top(p).line /\ g.cont = Top(p).cont
      /\ g.last = Top(p).last /\ g.saved = Top(p).saved
  BY <1>1, <1>3, PlaceOnly
<1>5. FrameRight(g) /\ (Deaf(g, Len(stack[p])) <=> Deaf(Top(p), Len(stack[p]))) /\ p # 1
  BY <1>2, <1>3, <1>4 DEF FrameRight, Deaf, AfterFork, Blocking, OriginalFrame, OfCopies
<1> QED  BY <1>1, <1>2, <1>3, <1>5, GotoMoves DEF Place, Blocking, Waiting

\* The parent links a node for a background process
LEMMA LinkMoves ==
    ASSUME TypeOK, NEW p \in Pid, Loops(p), OriginalRight, Link(p)
    PROVE  \E g : Moves(p, g)
<1>1. PICK g : g = [Top(p) EXCEPT !.at = "fill"]
  OBVIOUS
<1>2. /\ status[p] = "shell" /\ Top(p).at = "record" /\ Goto(p, "fill")
      /\ UNCHANGED <<status, parent, flag, stdio, masked, restarts>>
  BY DEF Link, At, Runs, user
<1>3. /\ Top(p) \in Frame /\ FrameRight(Top(p))
      /\ "INT" \in masked[p] <=> Deaf(Top(p), Len(stack[p]))
      /\ Top(p).at \in Blocking => "TSTP" \in masked[p]
  BY <1>2, TopRight, Zenon
<1>4. /\ g.at = "fill" /\ g.line = Top(p).line /\ g.cont = Top(p).cont
      /\ g.last = Top(p).last /\ g.saved = Top(p).saved
  BY <1>1, <1>3, PlaceOnly
<1>5. FrameRight(g) /\ (Deaf(g, Len(stack[p])) <=> Deaf(Top(p), Len(stack[p])))
  BY <1>2, <1>3, <1>4 DEF FrameRight, Deaf, AfterFork, Blocking
<1>6. Top(p).cont = "background" /\ "TSTP" \in masked[p]
  BY <1>2, <1>3 DEF FrameRight, Blocking
<1> QED  BY <1>1, <1>2, <1>3, <1>5, <1>6, GotoMoves DEF Place, Blocking, Waiting, OfCopies

\* and fills it in.
LEMMA FillMoves ==
    ASSUME TypeOK, NEW p \in Pid, Loops(p), OriginalRight, Fill(p)
    PROVE  \E g : Moves(p, g)
<1>1. PICK g : g = [Top(p) EXCEPT !.at = "unblock"]
  OBVIOUS
<1>2. /\ status[p] = "shell" /\ Top(p).at = "fill" /\ Goto(p, "unblock")
      /\ UNCHANGED <<status, parent, flag, stdio, masked, restarts>>
  BY DEF Fill, At, Runs, user
<1>3. /\ Top(p) \in Frame /\ FrameRight(Top(p))
      /\ "INT" \in masked[p] <=> Deaf(Top(p), Len(stack[p]))
      /\ Top(p).at \in Blocking => "TSTP" \in masked[p]
  BY <1>2, TopRight, Zenon
<1>4. /\ g.at = "unblock" /\ g.line = Top(p).line /\ g.cont = Top(p).cont
      /\ g.last = Top(p).last /\ g.saved = Top(p).saved
  BY <1>1, <1>3, PlaceOnly
<1>5. FrameRight(g) /\ (Deaf(g, Len(stack[p])) <=> Deaf(Top(p), Len(stack[p])))
  BY <1>2, <1>3, <1>4 DEF FrameRight, Deaf, AfterFork, Blocking
<1>6. Top(p).cont = "background" /\ "TSTP" \in masked[p]
  BY <1>2, <1>3 DEF FrameRight, Blocking
<1> QED  BY <1>1, <1>2, <1>3, <1>5, <1>6, GotoMoves DEF Place, Blocking, Waiting, OfCopies

\* The wait begins to sleep.
LEMMA WaitSleepsMoves ==
    ASSUME TypeOK, NEW p \in Pid, Loops(p), OriginalRight, WaitSleeps(p)
    PROVE  \E g : Moves(p, g)
<1>1. PICK g : g = [Top(p) EXCEPT !.at = "waiting"]
  OBVIOUS
<1>2. /\ status[p] = "shell" /\ Top(p).at = "wait" /\ Goto(p, "waiting")
      /\ UNCHANGED <<status, parent, flag, stdio, masked, table, restarts>>
  BY DEF WaitSleeps, At, Runs, system, user
<1>3. /\ Top(p) \in Frame /\ FrameRight(Top(p))
      /\ "INT" \in masked[p] <=> Deaf(Top(p), Len(stack[p]))
      /\ Top(p).at \in Blocking => "TSTP" \in masked[p]
  BY <1>2, TopRight, Zenon
<1>4. /\ g.at = "waiting" /\ g.line = Top(p).line /\ g.cont = Top(p).cont
      /\ g.last = Top(p).last /\ g.saved = Top(p).saved
  BY <1>1, <1>3, PlaceOnly
<1>5. FrameRight(g) /\ (Deaf(g, Len(stack[p])) <=> Deaf(Top(p), Len(stack[p])))
  BY <1>2, <1>3, <1>4 DEF FrameRight, Deaf, AfterFork, Blocking
<1>6. "TSTP" \in masked[p]
  BY <1>2, <1>3 DEF Blocking
<1> QED  BY <1>1, <1>2, <1>3, <1>5, <1>6, GotoMoves DEF Place, Blocking, Waiting, OfCopies

\* The parent unblocks the signals.
LEMMA UnblockMoves ==
    ASSUME TypeOK, NEW p \in Pid, Loops(p), OriginalRight, Unblock(p)
    PROVE  \E g : Moves(p, g)
<1>1. PICK g : g = [Top(p) EXCEPT !.at = "return"]
  OBVIOUS
<1>2. /\ status[p] = "shell" /\ Top(p).at = "unblock" /\ Goto(p, "return")
      /\ UNCHANGED <<status, parent, flag, stdio, restarts>>
      /\ masked' = [masked EXCEPT ![p] = @ \ {"INT", "TSTP"}]
  BY DEF Unblock, At, Runs, system, user
<1>3. Top(p) \in Frame /\ FrameRight(Top(p))
  BY <1>2, TopRight, Zenon
<1>4. /\ g.at = "return" /\ g.line = Top(p).line /\ g.cont = Top(p).cont
      /\ g.last = Top(p).last /\ g.saved = Top(p).saved
  BY <1>1, <1>3, PlaceOnly
<1>5. FrameRight(g) /\ ~Deaf(g, Len(stack[p]))
  BY <1>2, <1>3, <1>4 DEF FrameRight, Deaf, AfterFork, Blocking
<1>6. "INT" \notin masked'[p]
  BY <1>2 DEF TypeOK
<1> QED  BY <1>1, <1>2, <1>5, <1>6, GotoMoves DEF Place, Blocking, Waiting, OfCopies

\* The user does not confirm: another loop begins.
LEMMA DeclineMoves ==
    ASSUME TypeOK, NEW p \in Pid, Loops(p), OriginalRight, Decline(p)
    PROVE  \E g : Moves(p, g)
<1>1. PICK g : g = [Top(p) EXCEPT !.at = "prompt"]
  OBVIOUS
<1>2. /\ status[p] = "shell" /\ Top(p).at = "confirm" /\ Goto(p, "prompt")
      /\ UNCHANGED <<status, parent, stdio, masked, restarts>>
      /\ flag' = [flag EXCEPT ![p] = "none"]
  BY DEF Decline, At, Runs, system, user
<1>3. /\ Top(p) \in Frame /\ FrameRight(Top(p))
      /\ "INT" \in masked[p] <=> Deaf(Top(p), Len(stack[p]))
  BY <1>2, TopRight, Zenon
<1>4. /\ g.at = "prompt" /\ g.line = Top(p).line /\ g.cont = Top(p).cont
      /\ g.child = Top(p).child /\ g.last = Top(p).last /\ g.saved = Top(p).saved
  BY <1>1, <1>3, PlaceOnly
<1>5. FrameRight(g) /\ (Deaf(g, Len(stack[p])) <=> Deaf(Top(p), Len(stack[p])))
  BY <1>2, <1>3, <1>4 DEF FrameRight, Deaf, AfterFork, Blocking
<1>6. flag'[p] = "none"
  BY <1>2 DEF TypeOK
<1> QED  BY <1>1, <1>2, <1>3, <1>5, <1>6, GotoMoves DEF Place, Blocking, Waiting, OfCopies

\* A loop goes on to a place with a value returned to it.
LEMMA RetMoves ==
    ASSUME TypeOK, NEW p \in Pid, status[p] = "shell", Loops(p), OriginalRight,
           NEW at \in {"return", "unblock"}, NEW ret \in Returned, p = 1 => ret # -1,
           SetTop(p, [Top(p) EXCEPT !.at = at, !.ret = ret]),
           UNCHANGED <<masked, stdio>>, Top(p).at \in AfterFork,
           Top(p).at \in Blocking <=> at = "unblock",
           restarts' /\ Top(p).child \in Pid /\ Top(p).cont # "background"
              => status'[Top(p).child] = "reaped"
    PROVE  \E g : Moves(p, g)
<1>1. PICK f : f = Top(p)
  OBVIOUS
<1>2. PICK g : g = [f EXCEPT !.at = at, !.ret = ret]
  OBVIOUS
<1>3. SetTop(p, g)
  BY <1>1, <1>2
<1>4. /\ f \in Frame /\ FrameRight(f)
      /\ "INT" \in masked[p] <=> Deaf(f, Len(stack[p]))
      /\ f.at \in Blocking => "TSTP" \in masked[p]
      /\ p = 1 => OriginalFrame(f)
  BY <1>1, TopRight, Zenon
<1>5. g \in Frame
  <2>1. at \in Place
    BY DEF Place
  <2> QED  BY <1>2, <1>4, <2>1, FrameRet, Zenon
<1>6. /\ g.at = at /\ g.line = f.line /\ g.cont = f.cont /\ g.child = f.child
      /\ g.ret = ret /\ g.last = f.last /\ g.saved = f.saved
  BY <1>2, <1>4 DEF Frame
<1>7. FrameRight(g) /\ f.last = "external"
  BY <1>1, <1>4, <1>6 DEF FrameRight
<1>8. /\ Deaf(g, Len(stack[p])) <=> Deaf(f, Len(stack[p]))
      /\ at \in Blocking <=> f.at \in Blocking
  BY <1>1, <1>4, <1>6, <1>7 DEF Deaf, Blocking
<1>9. p = 1 => OriginalFrame(g)
  BY <1>4, <1>6 DEF OriginalFrame, OfCopies
<1>10. ChildRight(p, g)'
  BY <1>1, <1>6 DEF ChildRight, Waiting
<1> QED  BY <1>1, <1>3, <1>4, <1>5, <1>6, <1>7, <1>8, <1>9, <1>10 DEF Moves, Suits

\* execvp fails.
LEMMA ExecFailsMoves ==
    ASSUME TypeOK, NEW p \in Pid, Loops(p), OriginalRight, ExecFails(p)
    PROVE  \E g : Moves(p, g)
<1>1. /\ status[p] = "shell" /\ Top(p).at = "exec"
      /\ SetTop(p, [Top(p) EXCEPT !.at = "return", !.ret = -1])
      /\ UNCHANGED <<status, masked, stdio, restarts>>
  BY DEF ExecFails, At, Runs, system, user
<1>2. ChildRight(p, Top(p)) /\ p # 1
  BY <1>1, TopRight DEF OriginalFrame, OfCopies
<1>3. restarts' /\ Top(p).child \in Pid /\ Top(p).cont # "background"
         => status'[Top(p).child] = "reaped"
  BY <1>1, <1>2 DEF ChildRight, Waiting
<1>4. -1 \in Returned /\ Top(p).at \in AfterFork /\ Top(p).at \notin Blocking
  BY <1>1 DEF Returned, AfterFork, Blocking
<1> QED  BY <1>1, <1>2, <1>3, <1>4, RetMoves

\* The wait returns.
LEMMA WaitReturnsMoves ==
    ASSUME TypeOK, NEW p \in Pid, Loops(p), OriginalRight, WaitReturns(p)
    PROVE  \E g : Moves(p, g)
<1>1. PICK c \in Awaited(p) \cap Zombies(p) :
         /\ status' = [status EXCEPT ![c] = "reaped"]
         /\ SetTop(p, [Top(p) EXCEPT !.at = "unblock", !.ret = code[c]])
  BY DEF WaitReturns
<1>2. /\ status[p] = "shell" /\ Top(p).at \in {"wait", "waiting"}
      /\ UNCHANGED <<masked, stdio>>
  BY DEF WaitReturns, WaitReady, At, Runs
<1>3. c \in Pid /\ status[c] = "zombie" /\ code[c] \in {0, 1}
  BY <1>1 DEF Zombies, Children, TypeOK
<1>4. status'[c] = "reaped"
  BY <1>1, <1>3 DEF TypeOK
<1>5. Top(p).child \in Pid => c = Top(p).child
  BY <1>1 DEF Awaited, Pid
<1>6. code[c] \in Returned /\ code[c] # -1 /\ Top(p).at \in AfterFork /\ Top(p).at \in Blocking
  BY <1>2, <1>3 DEF Returned, AfterFork, Blocking
<1> QED  BY <1>1, <1>2, <1>4, <1>5, <1>6, RetMoves

\* The wait fails: the handler of SIGCHLD has reaped the child.
LEMMA WaitFailsMoves ==
    ASSUME TypeOK, NEW p \in Pid, Loops(p), OriginalRight, WaitFails(p)
    PROVE  \E g : Moves(p, g)
<1>1. /\ status[p] = "shell" /\ Top(p).at \in {"wait", "waiting"} /\ Awaited(p) = {}
      /\ SetTop(p, [Top(p) EXCEPT !.at = "unblock", !.ret = 255])
      /\ UNCHANGED <<status, masked, stdio>>
  BY DEF WaitFails, WaitReady, At, Runs, system, user
<1>2. ChildRight(p, Top(p))
  BY <1>1, TopRight
<1>3. Top(p).child \in Pid => status[Top(p).child] = "reaped"
  <2> SUFFICES ASSUME Top(p).child \in Pid PROVE status[Top(p).child] = "reaped"
    OBVIOUS
  <2>1. parent[Top(p).child] = p /\ status[Top(p).child] # "unused"
    BY <1>1, <1>2 DEF ChildRight, Waiting
  <2>2. Top(p).child \notin Children(p)
    BY <1>1 DEF Awaited, Pid
  <2> QED  BY <2>1, <2>2 DEF Children, Alive, TypeOK
<1>4. 255 \in Returned /\ 255 # -1 /\ Top(p).at \in AfterFork /\ Top(p).at \in Blocking
  BY <1>1 DEF Returned, AfterFork, Blocking
<1>5. Top(p).child \in Pid => status'[Top(p).child] = "reaped"
  BY <1>1, <1>3
<1>6. UNCHANGED <<masked, stdio>> /\ "unblock" \in {"return", "unblock"}
  BY <1>1
<1>7. Top(p).at \in Blocking <=> "unblock" = "unblock"
  BY <1>4
<1>8. /\ status[p] = "shell" /\ 255 # -1
      /\ SetTop(p, [Top(p) EXCEPT !.at = "unblock", !.ret = 255])
  BY <1>1
<1> QED  BY <1>4, <1>5, <1>6, <1>7, <1>8, RetMoves

\* The wait is interrupted.
LEMMA WaitInterruptedMoves ==
    ASSUME TypeOK, NEW p \in Pid, Loops(p), OriginalRight, WaitInterrupted(p)
    PROVE  \E g : Moves(p, g)
<1>1. /\ status[p] = "shell" /\ Top(p).at = "waiting" /\ ~restarts'
      /\ SetTop(p, [Top(p) EXCEPT !.at = "unblock", !.ret = 255])
      /\ UNCHANGED <<masked, stdio>>
  BY DEF WaitInterrupted, Interrupts, GetsChild, user
<1>2. 255 \in Returned /\ 255 # -1 /\ Top(p).at \in AfterFork /\ Top(p).at \in Blocking
  BY <1>1 DEF Returned, AfterFork, Blocking
<1>3. "unblock" \in {"return", "unblock"} /\ (Top(p).at \in Blocking <=> "unblock" = "unblock")
  BY <1>2
<1> QED  BY <1>1, <1>2, <1>3, RetMoves

\* A line is dispatched: its command is run.
LEMMA DispatchMoves ==
    ASSUME TypeOK, NEW p \in Pid, Loops(p), OriginalRight,
           RunCommand(p) \/ RunBackground(p) \/ Redirect(p) \/ RunIf(p)
    PROVE  \E g : Moves(p, g)
<1>1. /\ status[p] = "shell" /\ Top(p).at = "dispatch" /\ UNCHANGED <<status, parent, restarts>>
      /\ \E cont \in {"line", "background", "redirect", "if"} :
            /\ Spawn(p, cont) /\ (UNCHANGED stdio \/ cont = "redirect")
            /\ cont = "background" => flag[p] = "Background"
  BY DEF RunCommand, RunBackground, Redirect, RunIf, Selected, At, Runs, system, user
<1>2. PICK cont \in {"line", "background", "redirect", "if"} :
         /\ Spawn(p, cont) /\ (UNCHANGED stdio \/ cont = "redirect")
         /\ cont = "background" => flag[p] = "Background"
  BY <1>1
<1> QED  BY <1>1, <1>2, SpawnMoves

\* The branch of an if is run.
LEMMA RunBranchMoves ==
    ASSUME TypeOK, NEW p \in Pid, Loops(p), OriginalRight, RunBranch(p)
    PROVE  \E g : Moves(p, g)
<1>1. /\ status[p] = "shell" /\ Top(p).at = "return" /\ Top(p).cont = "if"
      /\ UNCHANGED <<status, parent, stdio, restarts>> /\ Spawn(p, Branch(p))
  BY DEF RunBranch, At, Runs, system, user
<1>2. p = 1 => OriginalFrame(Top(p))
  BY <1>1, TopRight
<1>3. Branch(p) \in {"then", "else"} /\ (p = 1 => Branch(p) # "else")
  BY <1>2 DEF Branch, OriginalFrame
<1> QED  BY <1>1, <1>3, SpawnMoves

\* A line is done.
LEMMA DoneMoves ==
    ASSUME TypeOK, NEW p \in Pid, Loops(p), OriginalRight,
           LineFails(p) \/ CommandDone(p) \/ BranchInvalid(p)
    PROVE  \E g : Moves(p, g)
<1>1. /\ status[p] = "shell" /\ Top(p).at \in {"dispatch", "return"} /\ LineDone(p)
      /\ UNCHANGED <<status, masked>>
  BY DEF LineFails, CommandDone, BranchInvalid, Selected, At, Runs, system, user
<1>2. FrameRight(Top(p))
  BY <1>1, TopRight
<1>3. CASE LineFails(p)
  <2>1. UNCHANGED stdio /\ Top(p).cont # "redirect"
    BY <1>2, <1>3 DEF LineFails, Selected, At, FrameRight
  <2> QED  BY <1>1, <2>1, LineDoneMoves
<1>4. CASE CommandDone(p)
  <2>1. (UNCHANGED stdio /\ Top(p).cont # "redirect") \/ stdio'[p] = "terminal"
    BY <1>4 DEF CommandDone, TypeOK
  <2> QED  BY <1>1, <2>1, LineDoneMoves
<1>5. CASE BranchInvalid(p)
  <2>1. UNCHANGED stdio /\ Top(p).cont # "redirect"
    BY <1>5 DEF BranchInvalid
  <2> QED  BY <1>1, <2>1, LineDoneMoves
<1> QED  BY <1>3, <1>4, <1>5

\* The steps of p that end or replace the shell's code,
Leaves(p) == (\E result : Terminate(p, result)) \/ Exec(p)

\* those that leave its stack alone,
Stands(p) == Suspend(p) \/ ChildSignal(p)

\* those of its innermost loop,
Advances(p) == \/ \E line \in Line : ReadLine(p, line)
               \/ RunCommand(p) \/ RunBackground(p) \/ Redirect(p) \/ RunIf(p)
               \/ LineFails(p) \/ CommandDone(p) \/ BranchInvalid(p) \/ RunBranch(p)
               \/ BuiltIn(p) \/ ForkFails(p)
               \/ ChildUnblock(p) \/ ChildReset(p) \/ ExecFails(p) \/ Link(p) \/ Fill(p)
               \/ WaitSleeps(p) \/ WaitReturns(p) \/ WaitFails(p) \/ WaitInterrupted(p)
               \/ Unblock(p) \/ Decline(p)

\* and those that end a loop that a Ctrl-C has begun.
Pops(p) == EndOfFile(p) /\ Len(stack[p]) # 1

\* Every step of p is one of these, a fork, or a Ctrl-C; who leaves was alive.
LEMMA Kinds ==
    ASSUME NEW p \in Pid, Step(p) \/ UserStep(p)
    PROVE  \/ Leaves(p) /\ Alive(p)
           \/ Stands(p) \/ Advances(p) \/ Pops(p) \/ Fork(p) \/ Interrupt(p)
<1>1. ASSUME Step(p) PROVE \/ Leaves(p) /\ Alive(p)
                           \/ Stands(p) \/ Advances(p) \/ Fork(p) \/ Interrupt(p)
  <2>1. Exit(p) \/ Crash(p) \/ Kill(p) \/ HandlerCrash(p) \/ ProgramExit(p) \/ Exec(p)
           => Leaves(p) /\ Alive(p)
    BY DEF Exit, Crash, Kill, HandlerCrash, GetsChild, ProgramExit, Exec, Leaves, Alive,
           Selected, At, Runs, Receives
  <2> QED  BY <1>1, <2>1, Zenon DEF Step, Stands, Advances
<1>2. ASSUME UserStep(p) PROVE (Leaves(p) /\ Alive(p)) \/ Advances(p) \/ Pops(p)
  <2>1. Confirm(p) => Leaves(p) /\ Alive(p)
    BY DEF Confirm, Leaves, Alive, At, Runs
  <2>2. EndOfFile(p) => (Leaves(p) /\ Alive(p)) \/ Pops(p)
    BY DEF EndOfFile, Leaves, Alive, At, Runs, Pops
  <2> QED  BY <1>2, <2>1, <2>2, Zenon DEF UserStep, Advances
<1> QED  BY <1>1, <1>2

\* A step of the innermost loop moves it.
LEMMA AdvancesMoves ==
    ASSUME TypeOK, NEW p \in Pid, Loops(p), OriginalRight, Advances(p)
    PROVE  \E g : Moves(p, g)
BY ReadLineMoves, DispatchMoves, DoneMoves, RunBranchMoves, BuiltInMoves, ForkFailsMoves,
   ChildUnblockMoves, ChildResetMoves, ExecFailsMoves, LinkMoves, FillMoves, WaitSleepsMoves,
   WaitReturnsMoves, WaitFailsMoves, WaitInterruptedMoves, UnblockMoves, DeclineMoves, Zenon DEF Advances

\* Which processes the entries t of p name: those of its table, and what the loop
\* puts there.
Names(p, t) == \A i \in DOMAIN t : t[i].pid \in Pid =>
                  InTable(p, t[i].pid) \/ (Top(p).at = "fill" /\ t[i].pid = Top(p).child)

\* What such a step may do to the other variables: an entry of the table for the
\* child of the loop, and the reaping of one child of p.
LEMMA AdvancesSystem ==
    ASSUME TypeOK, NEW p \in Pid, Advances(p)
    PROVE  /\ UNCHANGED <<parent, stopped, merged, restarts>> /\ status[p] = "shell"
           /\ pending' = pending \/ WaitInterrupted(p)
           /\ \/ UNCHANGED status
              \/ \E c \in Zombies(p) : status' = [status EXCEPT ![c] = "reaped"]
           /\ \E t : table' = [table EXCEPT ![p] = t] /\ Names(p, t)
<1> USE DEF system, user, At, Runs, Selected
<1>1. table' = table => \E t : table' = [table EXCEPT ![p] = t] /\ Names(p, t)
  <2>1. Names(p, table[p])
    BY DEF Names, InTable
  <2> QED  BY <2>1 DEF TypeOK
<1>2. CASE \E line \in Line : ReadLine(p, line)
  BY <1>1, <1>2 DEF ReadLine
<1>3. CASE RunCommand(p) \/ RunBackground(p) \/ Redirect(p) \/ RunIf(p)
  BY <1>1, <1>3 DEF RunCommand, RunBackground, Redirect, RunIf
<1>4. CASE LineFails(p) \/ CommandDone(p) \/ BranchInvalid(p) \/ RunBranch(p)
  BY <1>1, <1>4 DEF LineFails, CommandDone, BranchInvalid, RunBranch
<1>5. CASE BuiltIn(p) \/ ForkFails(p) \/ ChildUnblock(p) \/ ChildReset(p) \/ ExecFails(p)
  BY <1>1, <1>5 DEF BuiltIn, ForkFails, ChildUnblock, ChildReset, ExecFails
<1>6. CASE Link(p)
  <2>1. PICK e : e = [pid |-> 0, status |-> "junk"]
    OBVIOUS
  <2>2. /\ table[p] \in Seq(Entry) /\ e.pid \notin Pid
        /\ table' = [table EXCEPT ![p] = Append(table[p], e)]
    BY <1>6, <2>1 DEF Link, TypeOK, Pid
  <2>3. /\ DOMAIN Append(table[p], e) = DOMAIN table[p] \cup {Len(table[p]) + 1}
        /\ \A i \in DOMAIN table[p] : Append(table[p], e)[i] = table[p][i]
        /\ Append(table[p], e)[Len(table[p]) + 1] = e
    BY <2>2
  <2>4. Names(p, Append(table[p], e))
    BY <2>2, <2>3 DEF Names, InTable
  <2> QED  BY <1>6, <2>2, <2>4 DEF Link
<1>7. CASE Fill(p)
  <2>1. /\ table' = [table EXCEPT ![p] = Filled(table[p], Top(p).child)]
        /\ Top(p).at = "fill"
    BY <1>7 DEF Fill, TypeOK
  <2>2. \A i \in DOMAIN table[p] : table[p][i] \in Entry
    BY DEF TypeOK
  <2>3. Names(p, Filled(table[p], Top(p).child))
    BY <2>1, <2>2 DEF Names, Filled, InTable, Entry
  <2> QED  BY <1>7, <2>1, <2>3 DEF Fill
<1>8. CASE WaitReturns(p)
  <2>1. UNCHANGED <<parent, pending, stopped, table, merged, restarts>> /\ status[p] = "shell"
    BY <1>8 DEF WaitReturns, WaitReady
  <2>2. \E c \in Zombies(p) : status' = [status EXCEPT ![c] = "reaped"]
    BY <1>8 DEF WaitReturns
  <2> QED  BY <1>1, <2>1, <2>2
<1>9. CASE WaitInterrupted(p)
  <2>1. UNCHANGED <<parent, stopped, merged, restarts>> /\ status[p] = "shell" /\ Handle(p)
    BY <1>9 DEF WaitInterrupted, GetsChild
  <2>2. CASE \E c, t : c \in Zombies(p) /\ Handles(p, c, t)
    <3>1. PICK c, t : c \in Zombies(p) /\ Handles(p, c, t)
      BY <2>2
    <3>2. Names(p, t)
      BY <3>1 DEF Handles, Names, InTable
    <3> QED  BY <1>9, <2>1, <3>1, <3>2 DEF Handles
  <2> QED  BY <1>1, <1>9, <2>1, <2>2, HandleEffect
<1>10. CASE WaitSleeps(p) \/ WaitFails(p) \/ Unblock(p) \/ Decline(p)
  BY <1>1, <1>10 DEF WaitSleeps, WaitFails, WaitReady, Unblock, Decline
<1> QED  BY <1>2, <1>3, <1>4, <1>5, <1>6, <1>7, <1>8, <1>9, <1>10 DEF Advances

\* Of that, what concerns the processes.
LEMMA AdvancesStatus ==
    ASSUME TypeOK, NEW p \in Pid, Advances(p)
    PROVE  /\ UNCHANGED <<parent, stopped, merged, restarts>> /\ status[p] = "shell"
           /\ \/ UNCHANGED status
              \/ \E c \in Zombies(p) : status' = [status EXCEPT ![c] = "reaped"]
BY AdvancesSystem

\* A step of the innermost loop leaves the other processes' loops alone.
LEMMA AdvancesOthers ==
    ASSUME TypeOK, NEW p \in Pid, Advances(p), NEW q \in Pid, q # p
    PROVE  stack'[q] = stack[q] /\ masked'[q] = masked[q] /\ flag'[q] = flag[q] /\ stdio'[q] = stdio[q]
<1> USE DEF SetTop, Goto, LineDone, Spawn, TypeOK
<1>1. CASE \E line \in Line : ReadLine(p, line)
  BY <1>1 DEF ReadLine
<1>2. CASE RunCommand(p) \/ RunBackground(p) \/ Redirect(p) \/ RunIf(p)
  BY <1>2 DEF RunCommand, RunBackground, Redirect, RunIf
<1>3. CASE LineFails(p) \/ CommandDone(p) \/ BranchInvalid(p) \/ RunBranch(p)
  BY <1>3 DEF LineFails, CommandDone, BranchInvalid, RunBranch
<1>4. CASE BuiltIn(p) \/ ForkFails(p) \/ ChildUnblock(p) \/ ChildReset(p) \/ ExecFails(p)
  BY <1>4 DEF BuiltIn, ForkFails, ChildUnblock, ChildReset, ExecFails
<1>5. CASE Link(p) \/ Fill(p) \/ WaitReturns(p) \/ WaitInterrupted(p)
  BY <1>5 DEF Link, Fill, WaitReturns, WaitInterrupted
<1>6. CASE WaitSleeps(p) \/ WaitFails(p) \/ Unblock(p) \/ Decline(p)
  BY <1>6 DEF WaitSleeps, WaitFails, Unblock, Decline
<1> QED  BY <1>1, <1>2, <1>3, <1>4, <1>5, <1>6 DEF Advances

\* Both steps that leave a process its stack leave the rest as well,
LEMMA StandsSystem ==
    ASSUME TypeOK, NEW p \in Pid, Stands(p)
    PROVE  /\ UNCHANGED <<parent, stack, masked, flag, stdio, merged, restarts>> /\ Alive(p)
           /\ \/ Suspend(p) /\ UNCHANGED <<status, table>>
              \/ /\ status[p] = "shell" /\ UNCHANGED stopped
                 /\ pending' = [pending EXCEPT ![p] = @ \ {"CHLD"}]
                 /\ \/ Zombies(p) = {} /\ UNCHANGED <<status, table>>
                    \/ \E c, t : c \in Zombies(p) /\ Handles(p, c, t)
<1>1. CASE Suspend(p)
  BY <1>1 DEF Suspend, user, Receives
<1>2. CASE ChildSignal(p)
  BY <1>2, HandleEffect DEF ChildSignal, GetsChild, user, Alive
<1> QED  BY <1>1, <1>2 DEF Stands

\* but for the reaping of a child.
LEMMA StandsStatus ==
    ASSUME TypeOK, NEW p \in Pid, Stands(p)
    PROVE  \/ UNCHANGED status
           \/ \E c \in Zombies(p) : status' = [status EXCEPT ![c] = "reaped"]
BY StandsSystem DEF Handles

\* Every step leaves the loops of the other shells alone.
LEMMA OthersKept ==
    ASSUME TypeOK, NEW p \in Pid, Step(p) \/ UserStep(p), NEW q \in Pid, q # p, status[q] = "shell"
    PROVE  stack'[q] = stack[q] /\ masked'[q] = masked[q] /\ flag'[q] = flag[q] /\ stdio'[q] = stdio[q]
<1>1. CASE Leaves(p)
  BY <1>1 DEF Leaves, Terminate, Exec, TypeOK
<1>2. CASE Stands(p)
  BY <1>2, StandsSystem
<1>3. CASE Advances(p)
  BY <1>3, AdvancesOthers
<1>4. CASE Pops(p)
  BY <1>4 DEF Pops, EndOfFile, TypeOK
<1>5. CASE Fork(p)
  BY <1>5 DEF Fork, ForkChild, Unused, TypeOK
<1>6. CASE Interrupt(p)
  BY <1>6 DEF Interrupt, TypeOK
<1> QED  BY <1>1, <1>2, <1>3, <1>4, <1>5, <1>6, Kinds

\* No process gets younger: Terminate and the waits make zombies and reap them,
LEMMA AgesNext == ASSUME TypeOK, Next PROVE Ages
<1> USE DEF Ages
<1>1. ASSUME NEW p \in Pid, Step(p) \/ UserStep(p) PROVE Ages
  <2>1. CASE Leaves(p) /\ Alive(p)
    <3>1. ASSUME NEW result, Terminate(p, result) PROVE Ages
      BY <2>1, <3>1 DEF Terminate, Alive, Zombies, user
    <3>2. CASE Exec(p)
      BY <3>2, TypeOK DEF Exec, At, Runs, TypeOK, user
    <3> QED  BY <2>1, <3>1, <3>2 DEF Leaves
  <2>2. ASSUME restarts' = restarts,
               UNCHANGED status \/ \E c \in Zombies(p) : status' = [status EXCEPT ![c] = "reaped"]
        PROVE  Ages
    BY <2>2 DEF Zombies, Children, TypeOK
  <2>3. CASE Stands(p)
    BY <2>2, <2>3, StandsSystem, StandsStatus
  <2>4. CASE Advances(p)
    BY <2>2, <2>4, AdvancesStatus
  <2>5. CASE Pops(p)
    BY <2>2, <2>5 DEF Pops, EndOfFile, system, user
  <2>6. CASE Fork(p)
    BY <2>6 DEF Fork, ForkChild, Unused, TypeOK, user
  <2>7. CASE Interrupt(p)
    BY <2>2, <2>7 DEF Interrupt, user
  <2> QED  BY <1>1, <2>1, <2>3, <2>4, <2>5, <2>6, <2>7, Kinds
<1>2. CASE Continue \/ \E key \in Key : Type(key)
  BY <1>2 DEF Continue, Type, user
<1> QED  BY <1>1, <1>2 DEF Next

\* The handler of SIGCHLD adds no entry.
LEMMA HandlesKeeps ==
    ASSUME TypeOK, NEW p \in Pid, NEW c, NEW t, Handles(p, c, t)
    PROVE  \A q, d \in Pid : InTable(q, d)' <=> InTable(q, d)
<1>1. table'[p] = t /\ \A q \in Pid : q # p => table'[q] = table[q]
  BY DEF Handles, TypeOK
<1>2. DOMAIN t = DOMAIN table[p] /\ \A i \in DOMAIN t : t[i].pid = table[p][i].pid
  BY DEF Handles
<1> QED  BY <1>1, <1>2 DEF InTable

\* Steps of p leave the children of the others alone, and those that leave its stack
\* alone also its own.
LEMMA StepKeepsChildren ==
    ASSUME TypeOK, NEW p \in Pid, Step(p) \/ UserStep(p),
           NEW q \in Pid, status[q] = "shell", q # p \/ Stands(p)
    PROVE  KeepsChildren(q)
<1>1. CASE Leaves(p) /\ q # p
  <2>1. table'[q] = table[q]
    BY <1>1 DEF Leaves, Terminate, Exec, TypeOK
  <2>2. \A c \in Pid : parent[c] = q => parent'[c] = q
    BY <1>1 DEF Leaves, Terminate, Exec, Children
  <2> QED  BY <2>1, <2>2 DEF KeepsChildren, InTable
<1>2. CASE Stands(p)
  <2>1. CASE UNCHANGED <<parent, table>>
    BY <2>1 DEF KeepsChildren, InTable
  <2>2. CASE UNCHANGED parent /\ \E c, t : Handles(p, c, t)
    BY <2>2, HandlesKeeps DEF KeepsChildren
  <2> QED  BY <1>2, <2>1, <2>2, StandsSystem
<1>3. CASE Advances(p) /\ q # p
  <2>1. UNCHANGED parent /\ \E t : table' = [table EXCEPT ![p] = t]
    BY <1>3, AdvancesSystem
  <2>2. table'[q] = table[q]
    BY <1>3, <2>1 DEF TypeOK
  <2> QED  BY <2>1, <2>2 DEF KeepsChildren, InTable
<1>4. CASE Pops(p)
  BY <1>4 DEF Pops, EndOfFile, system, KeepsChildren, InTable
<1>5. CASE Fork(p)
  <2>1. PICK c \in Unused : ForkChild(p, c)
    BY <1>5 DEF Fork
  <2>2. table'[q] = table[q] /\ \A d \in Pid : status[d] # "unused" => parent'[d] = parent[d]
    BY <2>1 DEF ForkChild, Unused, TypeOK
  <2> QED  BY <2>2 DEF KeepsChildren, InTable
<1>6. CASE Interrupt(p)
  BY <1>6 DEF Interrupt, KeepsChildren, InTable
<1> QED  BY <1>1, <1>2, <1>3, <1>4, <1>5, <1>6, Kinds

\* The loops of p stay right where a Ctrl-C begins another: it was heard.
LEMMA InterruptLoops ==
    ASSUME TypeOK, Ages, NEW p \in Pid, Loops(p), Interrupt(p)
    PROVE  Loops(p)'
<1> DEFINE n == Len(stack[p])
<1>1. PICK g : g = [Prompt EXCEPT !.at = "confirm", !.saved = masked[p]]
  OBVIOUS
<1>2. /\ status[p] = "shell" /\ "INT" \notin masked[p]
      /\ stack' = [stack EXCEPT ![p] = Append(@, g)]
      /\ masked'[p] = masked[p] \cup {"INT"}
      /\ UNCHANGED <<flag, stdio>>
  BY <1>1 DEF Interrupt, Receives, Deliverable, TypeOK, Shells
<1>3. /\ g.at = "confirm" /\ g.cont = "line" /\ g.child = 0 /\ g.last = "none" /\ g.saved = masked[p]
  BY <1>1 DEF Prompt
<1>4. /\ n \in Nat \ {0} /\ DOMAIN stack[p] = 1..n /\ Top(p) = stack[p][n]
  BY <1>2, TopFrame
<1>5. /\ Len(stack'[p]) = n + 1 /\ DOMAIN stack'[p] = 1..(n + 1)
      /\ stack'[p][n + 1] = g /\ \A i \in 1..n : stack'[p][i] = stack[p][i]
  <2>1. stack[p] \in Seq(Frame) /\ stack'[p] = Append(stack[p], g)
    BY <1>2 DEF TypeOK
  <2> QED  BY <1>4, <2>1
<1>6. Top(p)' = g
  BY <1>5 DEF Top, Last
<1>7. \A i \in 1..n : FrameRight(stack[p][i]) /\ ChildRight(p, stack[p][i]) /\ ~Deaf(stack[p][i], i)
  BY <1>2, <1>4 DEF Loops, FramesRight, ChildrenRight, MaskRight
<1> HIDE DEF n
<1>8. FramesRight(p)'
  <2>1. FrameRight(g)
    BY <1>2, <1>3 DEF FrameRight, AfterFork
  <2> QED  BY <1>4, <1>5, <1>7, <2>1 DEF FramesRight
<1>9. MaskRight(p)' /\ FlagRight(p)'
  <2>1. Deaf(g, n + 1) /\ g.at \notin Blocking /\ g.at \notin {"prompt", "dispatch"}
    BY <1>3, <1>4 DEF Deaf, Blocking
  <2> QED  BY <1>2, <1>5, <1>6, <2>1 DEF MaskRight, FlagRight
<1>10. StdioRight(p)'
  <2>1. stdio[p] # "terminal" => \E i \in 1..n : stack[p][i].cont = "redirect"
    BY <1>4 DEF Loops, StdioRight
  <2> QED  BY <1>2, <1>4, <1>5, <2>1 DEF StdioRight
<1>11. ChildrenRight(p)'
  <2>1. ChildRight(p, g)'
    BY <1>3 DEF ChildRight, Pid
  <2>2. ASSUME NEW i \in 1..n PROVE ChildRight(p, stack[p][i])'
    <3>1. PICK f : f = stack[p][i]
      OBVIOUS
    <3>2. ChildRight(p, f)'
      BY <1>7, <3>1, ChildStays DEF Deaf, Waiting, Blocking
    <3> QED  BY <1>5, <3>1, <3>2
  <2> QED  BY <1>4, <1>5, <2>1, <2>2 DEF ChildrenRight
<1> QED  BY <1>8, <1>9, <1>10, <1>11 DEF Loops

\* When such a loop ends the mask is what it was before the Ctrl-C.
LEMMA PopLoops ==
    ASSUME TypeOK, Ages, NEW p \in Pid, Loops(p), Pops(p)
    PROVE  Loops(p)'
<1> DEFINE n == Len(stack[p])
<1>1. /\ status[p] = "shell" /\ Top(p).at = "prompt" /\ n # 1
      /\ stack' = [stack EXCEPT ![p] = Front(@)]
      /\ masked'[p] = Top(p).saved
      /\ UNCHANGED <<flag, stdio>>
  <2>1. /\ status[p] = "shell" /\ Top(p).at = "prompt" /\ n # 1
        /\ stack' = [stack EXCEPT ![p] = Front(@)]
        /\ masked' = [masked EXCEPT ![p] = Top(p).saved]
        /\ UNCHANGED <<flag, stdio>>
    BY DEF Pops, EndOfFile, At, Runs
  <2> QED  BY <2>1 DEF TypeOK
<1>2. /\ n \in Nat /\ n > 1 /\ DOMAIN stack[p] = 1..n /\ Top(p) = stack[p][n]
  <2>1. n \in Nat \ {0} /\ Top(p) = stack[p][n] /\ stack[p] \in Seq(Frame)
    BY <1>1, TopFrame, Zenon
  <2>2. DOMAIN stack[p] = 1..n
    BY <2>1
  <2>3. n # 1
    BY <1>1, Zenon
  <2> HIDE DEF n
  <2>4. n \in Nat /\ n > 1
    BY <2>1, <2>3
  <2> QED  BY <2>1, <2>2, <2>4
<1>3. /\ Len(stack'[p]) = n - 1 /\ DOMAIN stack'[p] = 1..(n - 1)
      /\ \A i \in 1..(n - 1) : stack'[p][i] = stack[p][i]
  <2>1. stack'[p] = [i \in 1..(n - 1) |-> stack[p][i]]
    BY <1>1 DEF Front, TypeOK
  <2> QED  BY <1>2, <2>1
<1>4. Top(p)' = stack[p][n - 1]
  BY <1>2, <1>3 DEF Top, Last
<1>5. \A i \in 1..(n - 1) : FrameRight(stack[p][i]) /\ ChildRight(p, stack[p][i]) /\ ~Deaf(stack[p][i], i)
  BY <1>2 DEF Loops, FramesRight, ChildrenRight
<1>6. FrameRight(Top(p)) /\ flag[p] = "none"
  BY <1>1, <1>2 DEF Loops, FramesRight, FlagRight
<1> HIDE DEF n
<1>7. FramesRight(p)'
  BY <1>2, <1>3, <1>5 DEF FramesRight
<1>8. MaskRight(p)' /\ FlagRight(p)'
  <2>1. ~Deaf(stack[p][n - 1], n - 1) /\ "INT" \notin masked'[p]
    BY <1>1, <1>2, <1>5, <1>6 DEF FrameRight
  <2>2. stack[p][n - 1].at \notin Blocking
    BY <2>1 DEF Deaf
  <2> QED  BY <1>1, <1>3, <1>4, <1>6, <2>1, <2>2 DEF MaskRight, FlagRight
<1>9. StdioRight(p)'
  <2>1. stdio[p] # "terminal" => \E i \in 1..n : stack[p][i].cont = "redirect"
    BY <1>2 DEF Loops, StdioRight
  <2>2. stack[p][n].cont = "line"
    BY <1>1, <1>2, <1>6 DEF FrameRight
  <2> QED  BY <1>1, <1>2, <1>3, <2>1, <2>2 DEF StdioRight
<1>10. ChildrenRight(p)'
  <2>1. ASSUME NEW i \in 1..(n - 1) PROVE ChildRight(p, stack[p][i])'
    <3>1. PICK f : f = stack[p][i]
      OBVIOUS
    <3>2. ChildRight(p, f)'
      BY <1>5, <3>1, ChildStays DEF Deaf, Waiting, Blocking
    <3> QED  BY <1>3, <3>1, <3>2
  <2> QED  BY <1>2, <1>3, <2>1 DEF ChildrenRight
<1> QED  BY <1>7, <1>8, <1>9, <1>10 DEF Loops

\* fork: the loops of the parent and of the child, who is not the first shell.
LEMMA ForkLoops ==
    ASSUME TypeOK, FamilyRight, OriginalRight, Ages, NEW p \in Pid, Loops(p), At(p, "spawn"),
           NEW c \in Unused, ForkChild(p, c)
    PROVE  /\ Loops(p)' /\ Loops(c)' /\ c # 1 /\ c # p
           /\ p = 1 => \E g : OriginalFrame(g) /\ stack'[p] = [stack[p] EXCEPT ![Len(stack[p])] = g]
<1>1. PICK f : f = Top(p)
  OBVIOUS
<1>2. PICK g : g = Forked(p, c)
  OBVIOUS
<1>3. PICK h : h = [f EXCEPT !.at = "born", !.last = "external"]
  OBVIOUS
<1>4. /\ c \in Pid /\ status[c] = "unused" /\ c # p /\ c # 1
      /\ status[p] = "shell" /\ f.at = "spawn"
  BY <1>1 DEF Unused, OriginalRight, At, Runs
<1>5. /\ stack'[p] = [stack[p] EXCEPT ![Len(stack[p])] = g]
      /\ stack'[c] = [stack[p] EXCEPT ![Len(stack[p])] = h]
  <2>1. stack' = [stack EXCEPT ![p][Len(stack[p])] = g, ![c] = [stack[p] EXCEPT ![Len(stack[p])] = h]]
    BY <1>1, <1>2, <1>3 DEF ForkChild
  <2> QED  BY <1>4, <2>1 DEF TypeOK
<1>6. /\ masked'[p] = masked[p] /\ flag'[p] = flag[p] /\ stdio'[p] = stdio[p]
      /\ masked'[c] = masked[p] /\ flag'[c] = flag[p] /\ stdio'[c] = stdio[p]
      /\ table'[p] = table[p] /\ parent'[c] = p /\ status'[c] = "shell"
  BY <1>4 DEF ForkChild, TypeOK
<1>7. /\ f \in Frame /\ FrameRight(f) /\ ChildRight(p, f)
      /\ "INT" \in masked[p] /\ "TSTP" \in masked[p]
      /\ p = 1 => OriginalFrame(f)
  BY <1>1, <1>4, TopRight DEF Deaf, Blocking
<1>8. /\ g \in Frame /\ FrameRight(g)
      /\ g.at \in {"wait", "record"} /\ g.child = c
      /\ g.cont = f.cont /\ g.ret = f.ret
  BY <1>1, <1>2, <1>4, <1>7, ForkedRight
<1>9. Suits(p, p, g)
  <2>1. ~InTable(p, c)'
    BY <1>4, <1>6 DEF FamilyRight, TablesKnown, InTable
  <2>2. ChildRight(p, g)'
    BY <1>6, <1>8, <2>1 DEF ChildRight, Waiting
  <2>3. Deaf(g, Len(stack[p])) /\ g.at \notin {"prompt", "dispatch"}
    BY <1>8 DEF Deaf, Blocking
  <2> QED  BY <1>1, <1>6, <1>7, <1>8, <2>2, <2>3 DEF Suits
<1>10. h \in Frame
  <2>1. "born" \in Place
    BY DEF Place
  <2> QED  BY <1>3, <1>7, <2>1, FrameLast, Zenon
<1>11. /\ h.at = "born" /\ h.cont = f.cont /\ h.child = f.child
       /\ h.last = "external" /\ h.saved = f.saved
  BY <1>3, <1>7 DEF Frame
<1>12. Suits(p, c, h)
  <2>1. FrameRight(h) /\ Deaf(h, Len(stack[p])) /\ h.at \notin {"prompt", "dispatch"}
    BY <1>7, <1>11 DEF FrameRight, Deaf, Blocking
  <2>2. ChildRight(p, f) /\ f.at \notin Waiting /\ h.at \notin Waiting
    BY <1>4, <1>7, <1>11 DEF Waiting
  <2>3. ChildRight(c, h)'
    BY <1>11, <2>2 DEF ChildRight, Ages
  <2> QED  BY <1>1, <1>6, <1>7, <1>10, <1>11, <2>1, <2>3 DEF Suits
<1>13. Loops(p)'
  BY <1>4, <1>5, <1>9, LoopsGoOn
<1>14. Loops(c)'
  BY <1>4, <1>5, <1>12, LoopsGoOn
<1>15. p = 1 => OriginalFrame(g)
  BY <1>7, <1>8 DEF OriginalFrame, OfCopies
<1> QED  BY <1>4, <1>5, <1>13, <1>14, <1>15

\* No step but fork makes a process run the shell's code.
LEMMA NoNewShell ==
    ASSUME TypeOK, NEW p \in Pid, Leaves(p) \/ Stands(p) \/ Advances(p) \/ Pops(p) \/ Interrupt(p),
           NEW q \in Pid, status'[q] = "shell"
    PROVE  status[q] = "shell"
<1>1. CASE Leaves(p)
  <2>1. ASSUME NEW result, Terminate(p, result)
        PROVE  status'[q] \in {"reaped", "zombie", status[q]}
    BY <2>1 DEF Terminate
  <2>2. CASE Exec(p)
    BY <2>2 DEF Exec, TypeOK
  <2> QED  BY <1>1, <2>1, <2>2 DEF Leaves
<1>2. CASE Stands(p)
  BY <1>2, StandsStatus DEF TypeOK
<1>3. CASE Advances(p)
  BY <1>3, AdvancesStatus DEF TypeOK
<1>4. CASE Pops(p) \/ Interrupt(p)
  BY <1>4 DEF Pops, EndOfFile, Interrupt, system
<1> QED  BY <1>1, <1>2, <1>3, <1>4

\* fork makes the child run it.
LEMMA NewShell ==
    ASSUME TypeOK, NEW p \in Pid, Step(p) \/ UserStep(p),
           NEW q \in Pid, status[q] # "shell", status'[q] = "shell"
    PROVE  At(p, "spawn") /\ q \in Unused /\ ForkChild(p, q)
<1>1. CASE Fork(p)
  BY <1>1 DEF Fork, ForkChild, Unused, TypeOK
<1> QED  BY <1>1, NoNewShell, Kinds

\* Who leaves runs the shell's code no more.
LEMMA LeavesShell ==
    ASSUME TypeOK, NEW p \in Pid, Leaves(p)
    PROVE  status'[p] # "shell" /\ stack'[p] = <<>>
BY DEF Leaves, Terminate, Exec, TypeOK

\* A step of a shell keeps its own loops right.
LEMMA OwnLoops ==
    ASSUME TypeOK, FamilyRight, OriginalRight, Ages, NEW p \in Pid, Step(p) \/ UserStep(p),
           status[p] = "shell", Loops(p), status'[p] = "shell"
    PROVE  Loops(p)'
<1>1. ~Leaves(p)
  BY LeavesShell
<1>2. CASE Stands(p)
  <2>1. KeepsChildren(p)
    BY <1>2, StepKeepsChildren
  <2>2. stack'[p] = stack[p] /\ masked'[p] = masked[p] /\ flag'[p] = flag[p] /\ stdio'[p] = stdio[p]
    BY <1>2, StandsSystem
  <2> QED  BY <2>1, <2>2, LoopsStay
<1>3. CASE Advances(p)
  <2>1. PICK g : Moves(p, g)
    BY <1>3, AdvancesMoves
  <2> QED  BY <2>1, LoopsMove
<1>4. CASE Pops(p)
  BY <1>4, PopLoops
<1>5. CASE Fork(p)
  <2>1. PICK c \in Unused : At(p, "spawn") /\ ForkChild(p, c)
    BY <1>5 DEF Fork
  <2> QED  BY <2>1, ForkLoops
<1>6. CASE Interrupt(p)
  BY <1>6, InterruptLoops
<1> QED  BY <1>1, <1>2, <1>3, <1>4, <1>5, <1>6, Kinds

\* Every step of a process keeps the loops of all shells right.
LEMMA LoopsStep ==
    ASSUME TypeOK, FamilyRight, LoopsInv, Ages, NEW p \in Pid, Step(p) \/ UserStep(p),
           NEW q \in Pid, status'[q] = "shell"
    PROVE  Loops(q)'
<1>1. OriginalRight /\ \A r \in Pid : status[r] = "shell" => Loops(r)
  BY DEF LoopsInv, Shells
<1>2. CASE status[q] = "shell" /\ q = p
  BY <1>1, <1>2, OwnLoops
<1>3. CASE status[q] = "shell" /\ q # p
  <2>1. KeepsChildren(q)
    BY <1>3, StepKeepsChildren
  <2>2. stack'[q] = stack[q] /\ masked'[q] = masked[q] /\ flag'[q] = flag[q] /\ stdio'[q] = stdio[q]
    BY <1>3, OthersKept
  <2> QED  BY <1>1, <1>3, <2>1, <2>2, LoopsStay
<1>4. CASE status[q] # "shell"
  <2>1. At(p, "spawn") /\ q \in Unused /\ ForkChild(p, q)
    BY <1>4, NewShell
  <2>2. Loops(p)
    BY <1>1, <2>1 DEF At, Runs
  <2> QED  BY <1>1, <2>1, <2>2, ForkLoops
<1> QED  BY <1>2, <1>3, <1>4

\* No step puts a loop of a copy on the stack of the first shell.
LEMMA OriginalStep ==
    ASSUME TypeOK, TypeOK', FamilyRight, LoopsInv, Ages, NEW p \in Pid, Step(p) \/ UserStep(p)
    PROVE  OriginalRight'
<1> DEFINE Good(s) == \A i \in DOMAIN s : OriginalFrame(s[i])
<1>1. /\ 1 \in Pid /\ status[1] # "unused" /\ Good(stack[1])
      /\ OriginalRight /\ \A r \in Pid : status[r] = "shell" => Loops(r)
  BY ShellAssumption DEF LoopsInv, OriginalRight, Pid, Shells
<1>2. SUFFICES Good(stack'[1])
  BY <1>1 DEF OriginalRight, Ages
<1>3. CASE status'[1] # "shell"
  BY <1>1, <1>3 DEF TypeOK
<1>4. CASE status'[1] = "shell" /\ status[1] # "shell"
  BY <1>1, <1>4, NewShell DEF Unused
<1>5. CASE status[1] = "shell" /\ p # 1
  <2>1. stack'[1] = stack[1]
    BY <1>1, <1>5, OthersKept
  <2> QED  BY <1>1, <2>1
<1>6. CASE status'[1] = "shell" /\ status[1] = "shell" /\ p = 1
  <2> DEFINE n == Len(stack[1])
  <2>1. n \in Nat \ {0} /\ DOMAIN stack[1] = 1..n /\ stack[1] \in Seq(Frame)
    BY <1>1, <1>6, TopFrame
  <2>2. ASSUME NEW g, OriginalFrame(g), stack'[1] = [stack[1] EXCEPT ![n] = g] PROVE Good(stack'[1])
    BY <1>1, <2>1, <2>2
  <2>3. ~Leaves(1)
    BY <1>1, <1>6, LeavesShell
  <2>4. CASE Stands(1)
    <3>1. stack'[1] = stack[1]
      BY <1>1, <2>4, StandsSystem
    <3> QED  BY <1>1, <3>1
  <2>5. CASE Advances(1)
    <3>1. PICK g : Moves(1, g)
      BY <1>1, <1>6, <2>5, AdvancesMoves
    <3>2. stack'[1] = [stack[1] EXCEPT ![n] = g] /\ OriginalFrame(g)
      BY <1>1, <3>1 DEF Moves, SetTop, TypeOK
    <3> QED  BY <2>2, <3>2
  <2>6. CASE Pops(1)
    <3>1. stack' = [stack EXCEPT ![1] = Front(@)]
      BY <2>6 DEF Pops, EndOfFile
    <3>2. stack'[1] = [i \in 1..(n - 1) |-> stack[1][i]]
      BY <1>1, <3>1 DEF Front, TypeOK
    <3> QED  BY <1>1, <2>1, <3>2
  <2>7. CASE Fork(1)
    <3>1. PICK c \in Unused : At(1, "spawn") /\ ForkChild(1, c)
      BY <2>7 DEF Fork
    <3> QED  BY <1>1, <1>6, <2>2, <3>1, ForkLoops
  <2>8. CASE Interrupt(1)
    <3>1. PICK g : g = [Prompt EXCEPT !.at = "confirm", !.saved = masked[1]]
      OBVIOUS
    <3>2. stack'[1] = Append(stack[1], g)
      BY <1>1, <2>8, <3>1 DEF Interrupt, TypeOK
    <3>3. OriginalFrame(g)
      BY <3>1 DEF Prompt, OriginalFrame, OfCopies
    <3> QED  BY <1>1, <2>1, <3>2, <3>3
  <2> QED  BY <1>1, <1>6, <2>3, <2>4, <2>5, <2>6, <2>7, <2>8, Kinds
<1> QED  BY <1>3, <1>4, <1>5, <1>6

\* The four parts of FamilyRight.  What is stopped lives: nobody becomes a zombie
\* while it is stopped without leaving the set.
LEMMA StoppedStep ==
    ASSUME TypeOK, StoppedLive, NEW p \in Pid, Step(p) \/ UserStep(p)
    PROVE  StoppedLive'
<1> USE DEF StoppedLive
<1>1. CASE Leaves(p) /\ Alive(p)
  <2>1. ASSUME NEW result, Terminate(p, result) PROVE StoppedLive'
    <3>1. stopped' = stopped \ {p} /\ \A c \in stopped : c \notin Zombies(p)
      BY <2>1 DEF Terminate, Zombies, Alive
    <3>2. \A c \in Pid : c # p /\ c \notin Zombies(p) => status'[c] = status[c]
      BY <2>1 DEF Terminate
    <3> QED  BY <3>1, <3>2 DEF Alive, TypeOK
  <2>2. CASE Exec(p)
    BY <2>2 DEF Exec, Alive, TypeOK
  <2> QED  BY <1>1, <2>1, <2>2 DEF Leaves
<1>2. CASE Stands(p)
  <2>1. Alive(p) /\ stopped' \subseteq stopped \cup {p}
    <3>1. Suspend(p) => stopped' \subseteq stopped \cup {p}
      BY DEF Suspend
    <3> QED  BY <1>2, <3>1, StandsSystem
  <2>2. UNCHANGED status \/ \E c \in Zombies(p) : status' = [status EXCEPT ![c] = "reaped"]
    BY <1>2, StandsStatus
  <2> QED  BY <2>1, <2>2 DEF Zombies, Alive, TypeOK
<1>3. CASE Advances(p)
  BY <1>3, AdvancesStatus DEF Zombies, Alive, TypeOK
<1>4. CASE Pops(p) \/ Interrupt(p)
  BY <1>4 DEF Pops, EndOfFile, Interrupt, system, Alive
<1>5. CASE Fork(p)
  BY <1>5 DEF Fork, ForkChild, Unused, Alive, TypeOK
<1> QED  BY <1>1, <1>2, <1>3, <1>4, <1>5, Kinds

\* Parents live: who ends leaves its children to init.
LEMMA ParentsStep ==
    ASSUME TypeOK, ParentsLive, NEW p \in Pid, Step(p) \/ UserStep(p)
    PROVE  ParentsLive'
<1> USE DEF ParentsLive
<1>1. CASE Leaves(p) /\ Alive(p)
  <2>1. ASSUME NEW result, Terminate(p, result) PROVE ParentsLive'
    <3> SUFFICES ASSUME NEW c \in Pid, parent'[c] \in Pid, Exists(c)' PROVE Alive(parent[c])'
      OBVIOUS
    <3>1. c \notin Children(p) /\ parent'[c] = parent[c]
      BY <2>1 DEF Terminate, Pid
    <3>2. Exists(c)
      BY <1>1, <2>1 DEF Terminate, Exists, Alive
    <3>3. Alive(parent[c]) /\ parent[c] # p
      BY <3>1, <3>2 DEF Children, Exists
    <3>4. parent[c] \notin Zombies(p)
      BY <3>3 DEF Zombies, Alive
    <3> QED  BY <2>1, <3>1, <3>3, <3>4 DEF Terminate, Alive
  <2>2. CASE Exec(p)
    BY <2>2, <1>1 DEF Exec, Exists, Alive, TypeOK
  <2> QED  BY <1>1, <2>1, <2>2 DEF Leaves
<1>2. ASSUME UNCHANGED parent, UNCHANGED status \/ \E c \in Zombies(p) : status' = [status EXCEPT ![c] = "reaped"]
      PROVE  ParentsLive'
  BY <1>2 DEF Zombies, Children, Exists, Alive, TypeOK
<1>3. CASE Stands(p)
  BY <1>2, <1>3, StandsSystem, StandsStatus
<1>4. CASE Advances(p)
  BY <1>2, <1>4, AdvancesStatus
<1>5. CASE Pops(p) \/ Interrupt(p)
  BY <1>2, <1>5 DEF Pops, EndOfFile, Interrupt, system
<1>6. CASE Fork(p)
  <2>1. PICK c \in Unused : ForkChild(p, c)
    BY <1>6 DEF Fork
  <2>2. /\ c \in Pid /\ status[c] = "unused" /\ Alive(p) /\ c # p
        /\ status' = [status EXCEPT ![c] = "shell"] /\ parent' = [parent EXCEPT ![c] = p]
    BY <1>6, <2>1 DEF Fork, ForkChild, Unused, At, Runs, Alive
  <2>3. \A d \in Pid : d # c => status'[d] = status[d] /\ parent'[d] = parent[d]
    BY <2>2
  <2>4. status'[c] = "shell" /\ parent'[c] = p
    BY <2>2 DEF TypeOK
  <2> QED  BY <2>2, <2>3, <2>4 DEF Exists, Alive
<1> QED  BY <1>1, <1>3, <1>4, <1>5, <1>6, Kinds

\* The tables hold what has existed: what a loop records it has forked.
LEMMA TablesStep ==
    ASSUME TypeOK, TablesKnown, Ages, NEW p \in Pid, Step(p) \/ UserStep(p),
           status[p] = "shell" => Loops(p)
    PROVE  TablesKnown'
<1> DEFINE Good(entries) == \A i \in DOMAIN entries :
              entries[i].pid \in Pid => status'[entries[i].pid] # "unused"
<1>1. \A q \in Pid : Good(table[q])
  BY DEF TablesKnown, Ages
<1>2. SUFFICES \A q \in Pid : Good(table'[q])
  BY DEF TablesKnown
<1>3. CASE UNCHANGED table
  BY <1>1, <1>3
<1>4. CASE Leaves(p)
  <2>1. table' = [table EXCEPT ![p] = <<>>] /\ Good(<<>>)
    BY <1>4 DEF Leaves, Terminate, Exec
  <2> QED  BY <1>1, <2>1 DEF TypeOK
<1>5. ASSUME NEW s, table' = [table EXCEPT ![p] = s], Names(p, s), status[p] = "shell"
      PROVE  \A q \in Pid : Good(table'[q])
  <2>1. Top(p).at = "fill" /\ Top(p).child \in Pid => status'[Top(p).child] # "unused"
    BY <1>5, TopRight DEF ChildRight, Waiting, Ages
  <2>2. Good(s)
    BY <1>1, <1>5, <2>1 DEF Names, InTable
  <2> QED  BY <1>1, <1>5, <2>2 DEF TypeOK
<1>6. CASE Stands(p) \/ Advances(p)
  <2>1. CASE Stands(p) /\ \E c, s : Handles(p, c, s)
    <3>1. PICK c, s : Handles(p, c, s)
      BY <2>1
    <3>2. table' = [table EXCEPT ![p] = s] /\ Names(p, s)
      BY <3>1 DEF Handles, Names, InTable
    <3>3. status[p] = "shell" \/ UNCHANGED table
      BY <2>1, StandsSystem
    <3> QED  BY <1>3, <1>5, <3>2, <3>3
  <2>2. CASE Advances(p)
    BY <1>5, <2>2, AdvancesSystem
  <2> QED  BY <1>3, <1>6, <2>1, <2>2, StandsSystem
<1>7. CASE Pops(p) \/ Interrupt(p)
  BY <1>3, <1>7 DEF Pops, EndOfFile, Interrupt, system
<1>8. CASE Fork(p)
  <2>1. PICK c \in Pid : table' = [table EXCEPT ![c] = table[p]]
    BY <1>8 DEF Fork, ForkChild, Unused
  <2> QED  BY <1>1, <2>1 DEF TypeOK
<1> QED  BY <1>4, <1>6, <1>7, <1>8, Kinds

\* ZombieOnlyOfSeveral for the shell q.
Bound(q) == Cardinality(Zombies(q)) <= merged[q] + (IF "CHLD" \in pending[q] THEN 1 ELSE 0)

\* The zombies can be counted.
LEMMA ZombiesFinite ==
    ASSUME NEW q
    PROVE  /\ IsFiniteSet(Zombies(q)) /\ Cardinality(Zombies(q)) \in Nat
           /\ IsFiniteSet(Zombies(q)') /\ Cardinality(Zombies(q)') \in Nat
<1>1. IsFiniteSet(Pid)
  BY ShellAssumption, FS_Interval DEF Pid
<1>2. Zombies(q) \in SUBSET Pid /\ Zombies(q)' \in SUBSET Pid
  BY DEF Zombies, Children
<1>3. IsFiniteSet(Zombies(q)) /\ IsFiniteSet(Zombies(q)')
  BY <1>1, <1>2, FS_Subset
<1> QED  BY <1>3, FS_CardinalityType

\* A shell that loses no SIGCHLD and gets no zombie stays within the bound.
LEMMA ZombiesStay ==
    ASSUME TypeOK, NEW q \in Pid, Bound(q), Zombies(q)' \subseteq Zombies(q),
           merged'[q] = merged[q], "CHLD" \in pending[q] => "CHLD" \in pending'[q]
    PROVE  Bound(q)'
<1>1. Cardinality(Zombies(q)') <= Cardinality(Zombies(q))
  BY ZombiesFinite, FS_Subset
<1>2. merged[q] \in Nat /\ Cardinality(Zombies(q)) \in Nat /\ Cardinality(Zombies(q)') \in Nat
  BY ZombiesFinite DEF TypeOK
<1> HIDE DEF Zombies
<1> QED  BY <1>1, <1>2 DEF Bound

\* Its handler reaps a zombie if there is one.
LEMMA ZombiesHandled ==
    ASSUME TypeOK, NEW q \in Pid, Bound(q), Handle(q), UNCHANGED <<parent, merged>>
    PROVE  Bound(q)'
<1>1. merged[q] \in Nat /\ merged'[q] = merged[q] /\ Cardinality(Zombies(q)) \in Nat
  BY ZombiesFinite DEF TypeOK
<1>2. CASE Zombies(q) = {} /\ UNCHANGED status
  <2>1. Zombies(q)' = {}
    BY <1>2 DEF Zombies, Children, Alive
  <2>2. Cardinality(Zombies(q)') = 0
    BY <2>1, FS_EmptySet
  <2> QED  BY <1>1, <2>2 DEF Bound
<1>3. CASE \E c, t : c \in Zombies(q) /\ Handles(q, c, t)
  <2>1. PICK c \in Zombies(q) : status' = [status EXCEPT ![c] = "reaped"]
    BY <1>3 DEF Handles
  <2>2. Zombies(q)' = Zombies(q) \ {c}
    BY <2>1 DEF Zombies, Children, Alive, TypeOK
  <2>3. Cardinality(Zombies(q)') = Cardinality(Zombies(q)) - 1
    BY <2>1, <2>2, ZombiesFinite, FS_RemoveElement
  <2> QED  BY <1>1, <2>3 DEF Bound
<1> QED  BY <1>2, <1>3, HandleEffect

\* Who ends makes a zombie of its parent more, and tells it or is counted.
LEMMA ZombiesEnd ==
    ASSUME TypeOK, NEW q \in Pid, status[q] = "shell", Bound(q),
           NEW p \in Pid, p # q, NEW result, Terminate(p, result)
    PROVE  Bound(q)'
<1>1. /\ merged[q] \in Nat /\ pending[q] \in SUBSET {"INT", "TSTP", "CHLD"}
      /\ Cardinality(Zombies(q)) \in Nat /\ Cardinality(Zombies(q)') \in Nat
  BY ZombiesFinite DEF TypeOK
<1>2. \A c \in Pid : c # p /\ parent'[c] = q /\ status'[c] = "zombie" => c \in Zombies(q)
  BY DEF Terminate, Zombies, Children, Pid
<1>3. CASE parent[p] = q
  <2>1. "CHLD" \in pending'[q]
    BY <1>3 DEF Terminate, TellParent, TypeOK
  <2>2. merged'[q] = merged[q] + (IF "CHLD" \in pending[q] THEN 1 ELSE 0)
    BY <1>1, <1>3 DEF Terminate, Merged, TypeOK
  <2>3. Zombies(q)' \in SUBSET (Zombies(q) \cup {p})
    BY <1>2 DEF Zombies, Children
  <2>4. Cardinality(Zombies(q)') <= Cardinality(Zombies(q)) + 1
    <3>1. /\ IsFiniteSet(Zombies(q) \cup {p})
          /\ Cardinality(Zombies(q) \cup {p}) <= Cardinality(Zombies(q)) + 1
          /\ Cardinality(Zombies(q) \cup {p}) \in Nat
      <4>1. IsFiniteSet(Zombies(q) \cup {p})
        BY ZombiesFinite, FS_AddElement
      <4>2. Cardinality(Zombies(q) \cup {p}) <= Cardinality(Zombies(q)) + 1
        <5>1. Cardinality(Zombies(q) \cup {p}) =
                 IF p \in Zombies(q) THEN Cardinality(Zombies(q)) ELSE Cardinality(Zombies(q)) + 1
          BY ZombiesFinite, FS_AddElement
        <5> QED  BY <1>1, <5>1
      <4> QED  BY <4>1, <4>2, FS_CardinalityType
    <3>2. Cardinality(Zombies(q)') <= Cardinality(Zombies(q) \cup {p})
      BY <2>3, <3>1, FS_Subset
    <3> QED  BY <1>1, <3>1, <3>2
  <2> QED  BY <1>1, <2>1, <2>2, <2>4 DEF Bound
<1>4. CASE parent[p] # q
  <2>1. parent'[p] # q \/ p \in Zombies(q)
    BY <1>4 DEF Terminate, Pid
  <2>2. Zombies(q)' \subseteq Zombies(q)
    BY <1>2, <2>1 DEF Zombies, Children
  <2>3. merged'[q] = merged[q]
    BY <1>4 DEF Terminate, Merged, TypeOK
  <2>4. "CHLD" \in pending[q] => "CHLD" \in pending'[q]
    BY <1>4 DEF Terminate, TellParent, TypeOK
  <2> QED  BY <2>2, <2>3, <2>4, ZombiesStay
<1> QED  BY <1>3, <1>4

\* Nothing else makes a zombie or takes a SIGCHLD away.
LEMMA ZombiesStep ==
    ASSUME TypeOK, ParentsLive, ZombieOnlyOfSeveral, NEW p \in Pid, Step(p) \/ UserStep(p)
    PROVE  ZombieOnlyOfSeveral'
<1> SUFFICES ASSUME NEW q \in Pid, status'[q] = "shell" PROVE Bound(q)'
  BY DEF ZombieOnlyOfSeveral, Shells, Bound
<1>1. status[q] = "shell" => Bound(q)
  BY DEF ZombieOnlyOfSeveral, Shells, Bound
<1>2. ASSUME status[q] = "shell", UNCHANGED <<parent, merged>>,
             "CHLD" \in pending[q] => "CHLD" \in pending'[q],
             UNCHANGED status \/ \E c \in Zombies(p) : status' = [status EXCEPT ![c] = "reaped"]
      PROVE  Bound(q)'
  <2>1. Zombies(q)' \subseteq Zombies(q)
    BY <1>2 DEF Zombies, Children, Alive, TypeOK
  <2> QED  BY <1>1, <1>2, <2>1, ZombiesStay
<1>3. CASE Leaves(p)
  <2>1. q # p /\ status[q] = "shell"
    BY <1>3, LeavesShell, NoNewShell
  <2>2. CASE Exec(p)
    <3>1. Zombies(q)' \subseteq Zombies(q)
      BY <2>1, <2>2 DEF Exec, Zombies, Children, Alive, TypeOK
    <3> QED  BY <1>1, <2>1, <2>2, <3>1, ZombiesStay DEF Exec
  <2> QED  BY <1>1, <1>3, <2>1, <2>2, ZombiesEnd DEF Leaves
<1>4. CASE Stands(p)
  <2>1. status[q] = "shell" /\ UNCHANGED <<parent, merged>>
    BY <1>4, NoNewShell, StandsSystem
  <2>2. CASE Suspend(p)
    <3>1. "CHLD" \in pending[q] => "CHLD" \in pending'[q]
      BY <2>2 DEF Suspend, TellParent, TypeOK
    <3> QED  BY <1>2, <1>4, <2>1, <3>1, StandsStatus
  <2>3. CASE ChildSignal(p) /\ q # p
    <3>1. "CHLD" \in pending[q] => "CHLD" \in pending'[q]
      BY <2>3 DEF ChildSignal, Handle, TypeOK
    <3> QED  BY <1>2, <1>4, <2>1, <3>1, StandsStatus
  <2>4. CASE ChildSignal(p) /\ q = p
    BY <1>1, <2>1, <2>4, ZombiesHandled DEF ChildSignal
  <2> QED  BY <1>4, <2>2, <2>3, <2>4 DEF Stands
<1>5. CASE Advances(p)
  <2>1. status[q] = "shell" /\ UNCHANGED <<parent, merged>>
    BY <1>5, NoNewShell, AdvancesStatus
  <2>2. CASE WaitInterrupted(p) /\ q = p
    BY <1>1, <2>1, <2>2, ZombiesHandled DEF WaitInterrupted
  <2>3. CASE WaitInterrupted(p) /\ q # p
    <3>1. "CHLD" \in pending[q] => "CHLD" \in pending'[q]
      BY <2>3 DEF WaitInterrupted, Handle, TypeOK
    <3> QED  BY <1>2, <1>5, <2>1, <3>1, AdvancesStatus
  <2>4. CASE UNCHANGED pending
    BY <1>2, <1>5, <2>1, <2>4, AdvancesStatus
  <2> QED  BY <1>5, <2>2, <2>3, <2>4, AdvancesSystem
<1>6. CASE Pops(p) \/ Interrupt(p)
  <2>1. status[q] = "shell" /\ UNCHANGED <<status, parent, merged>>
    BY <1>6 DEF Pops, EndOfFile, Interrupt, system
  <2>2. "CHLD" \in pending[q] => "CHLD" \in pending'[q]
    <3>1. CASE Pops(p)
      BY <3>1 DEF Pops, EndOfFile, system
    <3>2. CASE Interrupt(p)
      BY <3>2 DEF Interrupt, TypeOK
    <3> QED  BY <1>6, <3>1, <3>2
  <2> QED  BY <1>2, <2>1, <2>2
<1>7. CASE Fork(p)
  <2>1. PICK c \in Unused : ForkChild(p, c)
    BY <1>7 DEF Fork
  <2>2. /\ c \in Pid /\ status[c] = "unused" /\ UNCHANGED <<pending, merged>>
        /\ status'[c] = "shell" /\ parent'[c] = p
        /\ \A d \in Pid : d # c => status'[d] = status[d] /\ parent'[d] = parent[d]
    BY <2>1 DEF ForkChild, Unused, TypeOK
  <2>3. Zombies(q)' \subseteq Zombies(q)
    BY <2>2 DEF Zombies, Children
  <2>4. CASE q = c
    <3>1. Zombies(q)' = {}
      BY <2>2, <2>3, <2>4 DEF Zombies, Children, ParentsLive, Exists, Alive
    <3>2. Cardinality(Zombies(q)') = 0 /\ merged'[q] \in Nat
      BY <2>2, <3>1, FS_EmptySet DEF TypeOK
    <3> QED  BY <3>2 DEF Bound
  <2>5. CASE q # c
    BY <1>1, <2>2, <2>3, <2>5, ZombiesStay
  <2> QED  BY <2>4, <2>5
<1> QED  BY <1>3, <1>4, <1>5, <1>6, <1>7, Kinds

\* The inductive invariant of the shells.
IInv == TypeOK /\ LoopsInv /\ FamilyRight

\* The first shell begins with one loop at its prompt.
LEMMA InitIInv == Init => IInv
<1> SUFFICES ASSUME Init PROVE IInv
  OBVIOUS
<1>1. TypeOK
  BY InitType
<1>2. 1 \in Pid /\ status[1] = "shell" /\ stack[1] = <<Prompt>> /\ \A p \in Pid : p # 1 => status[p] = "unused"
  BY ShellAssumption DEF Init, Pid
<1>3. FrameRight(Prompt) /\ OriginalFrame(Prompt) /\ Prompt.at = "prompt" /\ Prompt.last = "none"
  BY DEF Prompt, FrameRight, OriginalFrame, AfterFork, OfCopies
<1>4. Len(stack[1]) = 1 /\ DOMAIN stack[1] = {1} /\ stack[1][1] = Prompt
  BY <1>2
<1>5. Loops(1)
  <2>1. Top(1) = Prompt
    BY <1>4 DEF Top, Last
  <2>2. FramesRight(1) /\ StdioRight(1)
    BY <1>2, <1>3, <1>4 DEF FramesRight, StdioRight, Init
  <2>3. MaskRight(1) /\ FlagRight(1)
    BY <1>2, <1>3, <1>4, <2>1 DEF MaskRight, FlagRight, Deaf, Blocking, Init
  <2>4. ChildrenRight(1)
    BY <1>4 DEF ChildrenRight, ChildRight, Prompt, Pid
  <2> QED  BY <2>2, <2>3, <2>4 DEF Loops
<1>6. LoopsInv
  BY <1>2, <1>3, <1>4, <1>5 DEF LoopsInv, OriginalRight, Shells
<1>7. FamilyRight
  <2>1. \A p \in Pid : Zombies(p) = {} /\ table[p] = <<>> /\ parent[p] \notin Pid
    BY DEF Zombies, Children, Init, Pid
  <2>2. StoppedLive /\ ParentsLive
    BY <2>1 DEF StoppedLive, ParentsLive, Init
  <2>3. TablesKnown
    BY <2>1 DEF TablesKnown
  <2>4. ZombieOnlyOfSeveral
    <3>1. \A p \in Pid : Cardinality(Zombies(p)) = 0 /\ merged[p] = 0 /\ pending[p] = {}
      BY <2>1, FS_EmptySet DEF Init
    <3> QED  BY <3>1 DEF ZombieOnlyOfSeveral, Shells
  <2> QED  BY <2>2, <2>3, <2>4 DEF FamilyRight
<1> QED  BY <1>1, <1>6, <1>7 DEF IInv

\* Keys and SIGCONT change neither the loops nor what there is of processes.
LEMMA TerminalIInv ==
    ASSUME IInv, Continue \/ \E key \in Key : Type(key)
    PROVE  IInv'
<1>1. /\ UNCHANGED <<status, parent, stack, masked, table, flag, stdio, merged, restarts>>
      /\ stopped' \subseteq stopped
  BY DEF Continue, Type, user
<1>2. TypeOK /\ TypeOK' /\ Ages
  BY <1>1, TerminalType DEF IInv, Ages
<1>3. LoopsInv'
  <2>1. \A q \in Pid : KeepsChildren(q)
    BY <1>1 DEF KeepsChildren, InTable
  <2>2. \A q \in Pid : status[q] = "shell" => Loops(q)'
    BY <1>1, <1>2, <2>1, LoopsStay DEF IInv, LoopsInv, Shells
  <2>3. OriginalRight'
    BY <1>1 DEF IInv, LoopsInv, OriginalRight
  <2> QED  BY <1>1, <2>2, <2>3 DEF LoopsInv, Shells
<1>4. StoppedLive' /\ ParentsLive' /\ TablesKnown'
  BY <1>1 DEF IInv, FamilyRight, StoppedLive, ParentsLive, TablesKnown, Exists, Alive
<1>5. \A q \in Pid : "CHLD" \in pending[q] => "CHLD" \in pending'[q]
  <2>1. CASE Continue
    BY <2>1 DEF Continue
  <2>2. CASE \E key \in Key : Type(key)
    BY <2>2 DEF Type
  <2> QED  BY <2>1, <2>2
<1>6. ZombieOnlyOfSeveral'
  <2>1. \A q \in Pid : Zombies(q)' = Zombies(q)
    BY <1>1 DEF Zombies, Children, Alive
  <2>2. ASSUME NEW q \in Pid, status[q] = "shell" PROVE Bound(q)'
    <3>1. Bound(q)
      BY <2>2 DEF IInv, FamilyRight, ZombieOnlyOfSeveral, Shells, Bound
    <3> QED  BY <1>1, <1>2, <1>5, <2>1, <3>1, ZombiesStay
  <2> QED  BY <1>1, <2>2 DEF ZombieOnlyOfSeveral, Shells, Bound
<1> QED  BY <1>2, <1>3, <1>4, <1>6 DEF IInv, FamilyRight

\* Every step keeps the invariant.
LEMMA NextIInv == IInv /\ [Next]_vars => IInv'
<1> SUFFICES ASSUME IInv, [Next]_vars PROVE IInv'
  OBVIOUS
<1>1. CASE UNCHANGED vars
  <2>1. TypeOK'
    BY <1>1 DEF IInv, TypeOK, vars, user, Shells
  <2>2. LoopsInv'
    <3>1. Ages /\ \A q \in Pid : KeepsChildren(q)
      BY <1>1 DEF Ages, KeepsChildren, InTable, vars, user
    <3>2. UNCHANGED <<status, stack, masked, flag, stdio>>
      BY <1>1 DEF vars
    <3>3. \A q \in Pid : status[q] = "shell" => Loops(q)'
      BY <3>1, <3>2, LoopsStay DEF IInv, LoopsInv, Shells
    <3>4. OriginalRight'
      BY <3>2 DEF IInv, LoopsInv, OriginalRight
    <3> QED  BY <3>2, <3>3, <3>4 DEF LoopsInv, Shells
  <2>3. FamilyRight'
    BY <1>1 DEF IInv, FamilyRight, StoppedLive, ParentsLive, TablesKnown, ZombieOnlyOfSeveral,
                Exists, Alive, Zombies, Children, Shells, vars
  <2> QED  BY <2>1, <2>2, <2>3 DEF IInv
<1>2. CASE \E p \in Pid : Step(p) \/ UserStep(p)
  <2>1. PICK p \in Pid : Step(p) \/ UserStep(p)
    BY <1>2
  <2>2. /\ TypeOK /\ LoopsInv /\ FamilyRight
        /\ StoppedLive /\ ParentsLive /\ TablesKnown /\ ZombieOnlyOfSeveral
    BY DEF IInv, FamilyRight
  <2>3. Next
    BY <2>1 DEF Next
  <2>4. TypeOK' /\ Ages
    BY <2>1, <2>2, <2>3, StepType, UserStepType, AgesNext
  <2>5. \A q \in Pid : status'[q] = "shell" => Loops(q)'
    BY <2>1, <2>2, <2>4, LoopsStep
  <2>6. OriginalRight'
    BY <2>1, <2>2, <2>4, OriginalStep
  <2>7. LoopsInv'
    BY <2>5, <2>6 DEF LoopsInv, Shells
  <2>8. StoppedLive' /\ ParentsLive' /\ ZombieOnlyOfSeveral'
    BY <2>1, <2>2, <2>4, StoppedStep, ParentsStep, ZombiesStep
  <2>9. TablesKnown'
    <3>1. status[p] = "shell" => Loops(p)
      BY <2>2 DEF LoopsInv, Shells
    <3> QED  BY <2>1, <2>2, <2>4, <3>1, TablesStep
  <2> QED  BY <2>4, <2>7, <2>8, <2>9 DEF IInv, FamilyRight
<1>3. CASE Continue \/ \E key \in Key : Type(key)
  BY <1>3, TerminalIInv
<1> QED  BY <1>1, <1>2, <1>3 DEF Next

\* The loops of a shell account for its mask, its flags, its descriptors and its
\* children in every state, for every number of processes, lines and keys.
THEOREM LoopsRight == Spec => []IInv
BY InitIInv, NextIInv, PTL DEF Spec

\* What the command loops keep to follows from it.
LEMMA LoopInvHolds == IInv => LoopInv
<1> SUFFICES ASSUME IInv PROVE LoopInv
  OBVIOUS
<1>1. /\ TypeOK /\ OriginalRight /\ FamilyRight
      /\ \A p \in Pid : status[p] = "shell" => Loops(p)
  BY DEF IInv, LoopsInv, Shells
<1>2. \A p \in Shells : FramesRight(p) /\ MaskRight(p) /\ FlagRight(p) /\ StdioRight(p) /\ ChildrenRight(p)
  BY <1>1 DEF Loops, Shells
<1>3. \A p \in Shells : /\ Len(stack[p]) \in Nat \ {0} /\ DOMAIN stack[p] = 1..Len(stack[p])
                        /\ Top(p) = stack[p][Len(stack[p])]
  BY <1>1, TopFrame DEF Shells
<1>4. DeafAtPrompt
  BY <1>2, <1>3 DEF DeafAtPrompt, MaskRight, Deaf, Blocking
<1>5. RedirectedPromptIsNested
  <2> SUFFICES ASSUME NEW p \in Shells, Top(p).at = "prompt", stdio[p] # "terminal"
               PROVE  \E i \in 1..(Len(stack[p]) - 1) : stack[p][i].cont = "redirect"
    BY DEF RedirectedPromptIsNested
  <2>1. PICK i \in 1..Len(stack[p]) : stack[p][i].cont = "redirect"
    BY <1>2, <1>3 DEF StdioRight
  <2>2. Top(p).cont = "line"
    BY <1>2, <1>3 DEF FramesRight, FrameRight
  <2>3. i # Len(stack[p])
    BY <1>3, <2>1, <2>2
  <2>4. Len(stack[p]) \in Nat
    BY <1>3
  <2>5. i \in 1..(Len(stack[p]) - 1)
    BY <2>3, <2>4
  <2> QED  BY <2>1, <2>5
<1>6. FlagOfThisLineOrNone
  BY <1>2 DEF FlagOfThisLineOrNone, FlagRight
<1>7. ElseOnlyInChild
  BY <1>1 DEF ElseOnlyInChild, OriginalRight, OriginalFrame
<1> QED  BY <1>1, <1>2, <1>4, <1>5, <1>6, <1>7 DEF LoopInv

\* A shell hears Ctrl-C at its prompt, dispatches its lines and has its descriptors
\* redirected as LoopInv says, for every number of processes, lines and keys.
THEOREM LoopsKept == Spec => []LoopInv
BY LoopsRight, LoopInvHolds, PTL

\* Where interrupted calls are restarted the shell goes on only when its foreground
\* process has been reaped: what the handler reaps meanwhile is no child that a loop
\* still waits for.
THEOREM ForegroundDone == Spec => []ForegroundFinished
<1>1. IInv => ForegroundFinished
  BY DEF IInv, LoopsInv, Loops, ChildrenRight, ChildRight, Waiting, ForegroundFinished
<1> QED  BY <1>1, LoopsRight, PTL

\* A shell leaves no more zombies than ends that shared a SIGCHLD, and the one whose
\* signal is pending.
THEOREM ZombiesShared == Spec => []ZombieOnlyOfSeveral
<1>1. IInv => ZombieOnlyOfSeveral
  BY DEF IInv, FamilyRight
<1> QED  BY <1>1, LoopsRight, PTL

-----------------------------------------------------------------------------
(* Who is told of an end, and who is not.                                  *)

\* Of the steps of a loop only the wait reaps, or the handler that interrupts it.
LEMMA OnlyWaitReaps ==
    ASSUME NEW p \in Pid, Advances(p)
    PROVE  UNCHANGED status \/ WaitReturns(p) \/ WaitInterrupted(p)
BY DEF Advances, ReadLine, RunCommand, RunBackground, Redirect, RunIf, LineFails, CommandDone,
       BranchInvalid, RunBranch, BuiltIn, ForkFails, ChildUnblock, ChildReset, ExecFails, Link,
       Fill, WaitSleeps, WaitFails, Unblock, Decline, system

\* A shell reaps a process of its table without a note of it only in a wait for any
\* child, which a failed fork causes: the child of another wait is not in the table.
THEOREM EndsRecorded == Spec => EndMissedOnlyBefore
<1> DEFINE Missed(p, c) == /\ status'[c] = "reaped" /\ parent'[c] = p
                           /\ InTable(p, c) /\ Top(p).child # -1
           Noted(p, c)  == \E i \in DOMAIN table'[p] :
                              table'[p][i] = [pid |-> c, status |-> "exit"]
<1>1. ASSUME IInv, Next, NEW p \in Shells, NEW c \in Zombies(p), Missed(p, c)
      PROVE  Noted(p, c)
  <2>1. /\ p \in Pid /\ status[p] = "shell" /\ c \in Pid /\ status[c] = "zombie" /\ parent[c] = p
        /\ TypeOK /\ Loops(p)
    BY <1>1 DEF Shells, Zombies, Children, IInv, LoopsInv
  <2>2. PICK r \in Pid : Step(r) \/ UserStep(r)
    BY <1>1, <2>1 DEF Next, Continue, Type
  <2>3. ~(Leaves(r) /\ Alive(r))
    <3>1. ASSUME NEW result, Terminate(r, result), Alive(r) PROVE FALSE
      <4>1. c # r /\ c \in Children(r)
        BY <1>1, <2>1, <3>1 DEF Terminate, Alive, Zombies
      <4>2. parent'[c] = 0
        BY <2>1, <3>1, <4>1 DEF Terminate
      <4> QED  BY <1>1, <2>1, <4>2 DEF Pid
    <3>2. ~Exec(r)
      BY <1>1, <2>1 DEF Exec, TypeOK
    <3> QED  BY <3>1, <3>2 DEF Leaves
  <2>4. ASSUME NEW d, NEW t, Handles(r, d, t) PROVE Noted(p, c)
    <3>1. d = c /\ r = p
      BY <1>1, <2>1, <2>4 DEF Handles, TypeOK
    <3>2. table'[p] = t
      BY <2>1, <2>4, <3>1 DEF Handles, TypeOK
    <3> QED  BY <1>1, <2>4, <3>1, <3>2 DEF Handles
  <2>5. CASE Stands(r) \/ Advances(r)
    <3>1. CASE Stands(r)
      <4>1. status' # status
        BY <1>1, <2>1
      <4> QED  BY <2>1, <2>4, <3>1, <4>1, StandsSystem
    <3>2. CASE WaitInterrupted(r)
      <4>1. status' # status
        BY <1>1, <2>1
      <4> QED  BY <2>1, <2>4, <3>2, <4>1, HandleEffect DEF WaitInterrupted
    <3>3. CASE WaitReturns(r)
      <4>1. PICK d \in Awaited(r) \cap Zombies(r) : status' = [status EXCEPT ![d] = "reaped"]
        BY <3>3 DEF WaitReturns
      <4>2. d = c /\ r = p
        BY <1>1, <2>1, <4>1 DEF Zombies, Children, TypeOK
      <4>3. Top(p).child = c
        BY <1>1, <4>1, <4>2 DEF Awaited
      <4>4. Top(p).at \in {"wait", "waiting"}
        BY <3>3, <4>2 DEF WaitReturns, WaitReady, At
      <4>5. ~InTable(p, c)
        BY <2>1, <4>3, <4>4, TopRight DEF ChildRight, Waiting
      <4> QED  BY <1>1, <4>5
    <3> QED  BY <1>1, <2>1, <2>5, <3>1, <3>2, <3>3, OnlyWaitReaps
  <2>6. ~Pops(r) /\ ~Interrupt(r)
    BY <1>1, <2>1 DEF Pops, EndOfFile, Interrupt, system
  <2>7. ~Fork(r)
    BY <1>1, <2>1 DEF Fork, ForkChild, Unused, TypeOK
  <2> QED  BY <2>2, <2>3, <2>5, <2>6, <2>7, Kinds
<1>2. ASSUME IInv, UNCHANGED vars, NEW p \in Shells, NEW c \in Zombies(p) PROVE ~Missed(p, c)
  BY <1>2 DEF vars, Zombies, Children, TypeOK
<1>3. IInv /\ [Next]_vars =>
        [\A p \in Shells : \A c \in Zombies(p) :
           status'[c] = "reaped" /\ parent'[c] = p /\ InTable(p, c) /\ Top(p).child # -1 =>
             \E i \in DOMAIN table'[p] : table'[p][i] = [pid |-> c, status |-> "exit"]]_vars
  BY <1>1, <1>2
<1> QED  BY <1>3, LoopsRight, PTL DEF Spec, EndMissedOnlyBefore

-----------------------------------------------------------------------------
(* Ctrl-Z during a foreground command.                                     *)

\* Who is stopped takes no step.
LEMMA StoppedRests == ASSUME NEW p \in Pid, Step(p) \/ UserStep(p) PROVE p \notin stopped
<1> USE DEF At, Runs, Selected, Receives, WaitReady, GetsChild
<1>1. CASE Exit(p) \/ Crash(p) \/ Kill(p) \/ ProgramExit(p) \/ Exec(p) \/ Fork(p)
  BY <1>1 DEF Exit, Crash, Kill, ProgramExit, Exec, Fork
<1>2. CASE RunCommand(p) \/ RunBackground(p) \/ Redirect(p) \/ RunIf(p) \/ LineFails(p)
  BY <1>2 DEF RunCommand, RunBackground, Redirect, RunIf, LineFails
<1>3. CASE BuiltIn(p) \/ ForkFails(p) \/ ChildUnblock(p) \/ ChildReset(p) \/ ExecFails(p)
           \/ Link(p) \/ Fill(p) \/ WaitSleeps(p) \/ WaitReturns(p) \/ WaitFails(p) \/ Unblock(p)
  BY <1>3 DEF BuiltIn, ForkFails, ChildUnblock, ChildReset, ExecFails, Link, Fill, WaitSleeps,
              WaitReturns, WaitFails, Unblock
<1>4. CASE CommandDone(p) \/ RunBranch(p) \/ BranchInvalid(p) \/ Interrupt(p) \/ Suspend(p)
           \/ ChildSignal(p) \/ WaitInterrupted(p) \/ HandlerCrash(p)
  BY <1>4 DEF CommandDone, RunBranch, BranchInvalid, Interrupt, Suspend, ChildSignal,
              WaitInterrupted, HandlerCrash
<1>5. CASE UserStep(p)
  BY <1>5 DEF UserStep, ReadLine, EndOfFile, Confirm, Decline
<1> QED  BY <1>1, <1>2, <1>3, <1>4, <1>5 DEF Step

\* A shell that waits for a child that lives, in calls that are restarted, can only
\* begin to sleep and handle SIGCHLD: it blocks the other signals.
LEMMA WaitingSteps ==
    ASSUME IInv, restarts, NEW p \in Pid, Step(p) \/ UserStep(p), NEW c \in Pid, WaitsFor(p, c), Alive(c)
    PROVE  WaitSleeps(p) \/ ChildSignal(p)
<1>1. /\ status[p] = "shell" /\ Top(p).at \in {"wait", "waiting"} /\ Top(p).child = c
      /\ TypeOK /\ Loops(p) /\ c # -1
  BY DEF WaitsFor, Shells, IInv, LoopsInv, Pid
<1>2. /\ ChildRight(p, Top(p))
      /\ "INT" \in masked[p] /\ "TSTP" \in masked[p]
  BY <1>1, TopRight DEF Deaf, Blocking
<1>3. Awaited(p) = {c} /\ c \notin Zombies(p)
  <2>1. parent[c] = p
    BY <1>1, <1>2 DEF ChildRight, Waiting
  <2> QED  BY <1>1, <2>1 DEF Awaited, Children, Zombies, Alive
<1>4. ~Receives(p, "INT") /\ ~Receives(p, "TSTP")
  BY <1>2 DEF Receives, Deliverable
<1>5. ~WaitReturns(p) /\ ~WaitFails(p)
  BY <1>3 DEF WaitReturns, WaitFails
<1>6. ASSUME UserStep(p) PROVE FALSE
  BY <1>1, <1>6 DEF UserStep, ReadLine, EndOfFile, Confirm, Decline, At
<1> USE DEF Selected, At
<1>7. ~Exit(p) /\ ~Crash(p) /\ ~RunCommand(p) /\ ~RunBackground(p) /\ ~Redirect(p) /\ ~RunIf(p)
  BY <1>1 DEF Exit, Crash, RunCommand, RunBackground, Redirect, RunIf
<1>8. ~LineFails(p) /\ ~BuiltIn(p) /\ ~Fork(p) /\ ~ForkFails(p) /\ ~ChildUnblock(p)
  BY <1>1 DEF LineFails, BuiltIn, Fork, ForkFails, ChildUnblock
<1>9. ~ChildReset(p) /\ ~Exec(p) /\ ~ExecFails(p) /\ ~Link(p) /\ ~Fill(p) /\ ~Unblock(p)
  BY <1>1 DEF ChildReset, Exec, ExecFails, Link, Fill, Unblock
<1>10. ~CommandDone(p) /\ ~RunBranch(p) /\ ~BranchInvalid(p) /\ ~ProgramExit(p)
  BY <1>1 DEF CommandDone, RunBranch, BranchInvalid, ProgramExit
<1>11. ~Interrupt(p) /\ ~Kill(p) /\ ~Suspend(p)
  BY <1>4 DEF Interrupt, Kill, Suspend
<1>12. ~WaitInterrupted(p) /\ ~HandlerCrash(p)
  BY <1>1 DEF WaitInterrupted, Interrupts, HandlerCrash
<1> QED  BY <1>5, <1>6, <1>7, <1>8, <1>9, <1>10, <1>11, <1>12, Zenon DEF Step

\* It waits on.
LEMMA WaitingStays ==
    ASSUME IInv, restarts, NEW p \in Pid, Step(p) \/ UserStep(p), NEW q \in Pid, NEW c \in Pid,
           WaitsFor(q, c), Alive(c)
    PROVE  WaitsFor(q, c)'
<1>1. /\ status[q] = "shell" /\ Top(q).at \in {"wait", "waiting"} /\ Top(q).child = c /\ TypeOK
  BY DEF WaitsFor, Shells, IInv
<1>2. CASE p # q
  <2>1. stack'[q] = stack[q]
    BY <1>1, <1>2, OthersKept
  <2>2. TypeOK'
    BY <1>1, StepType, UserStepType
  <2>3. status'[q] = "shell"
    BY <1>1, <2>1, <2>2 DEF TypeOK
  <2> QED  BY <1>1, <2>1, <2>3 DEF WaitsFor, Shells, Top
<1>3. CASE p = q
  <2>1. CASE WaitSleeps(p)
    <3>1. PICK g : g = [Top(p) EXCEPT !.at = "waiting"]
      OBVIOUS
    <3>2. Top(p) \in Frame /\ Len(stack[p]) \in Nat \ {0} /\ stack[p] \in Seq(Frame)
      BY <1>1, <1>3, TopFrame
    <3>3. g.at = "waiting" /\ g.child = Top(p).child
      BY <3>1, <3>2, PlaceOnly
    <3>4. stack'[p] = [stack[p] EXCEPT ![Len(stack[p])] = g] /\ status' = status
      BY <1>1, <2>1, <3>1 DEF WaitSleeps, Goto, SetTop, system, TypeOK
    <3>5. Top(p)' = g
      BY <3>2, <3>4 DEF Top, Last
    <3> QED  BY <1>1, <1>3, <3>3, <3>4, <3>5 DEF WaitsFor, Shells
  <2>2. CASE ChildSignal(p)
    <3>1. status'[p] = "shell" /\ stack' = stack
      BY <1>1, <1>3, <2>2, StandsSystem, StandsStatus DEF Stands, Zombies, TypeOK
    <3> QED  BY <1>1, <1>3, <3>1 DEF WaitsFor, Shells, Top
  <2> QED  BY <1>3, <2>1, <2>2, WaitingSteps
<1> QED  BY <1>2, <1>3

\* The first shell does not see the stop signal that it blocks, so nobody continues
\* the command it waits for.
THEOREM FreezesForGood == Spec => FrozenForGood
<1>1. ASSUME IInv, Next, Frozen PROVE Frozen'
  <2>1. PICK c \in stopped : WaitsFor(1, c)
    BY <1>1 DEF Frozen
  <2>2. /\ c \in Pid /\ 1 \in Pid /\ 1 \notin stopped /\ Alive(c) /\ TypeOK /\ restarts
    <3>1. 1 \in Pid /\ 1 \notin stopped /\ restarts
      BY <1>1, ShellAssumption DEF Frozen, Pid
    <3>2. TypeOK /\ StoppedLive
      BY <1>1 DEF IInv, FamilyRight
    <3> QED  BY <2>1, <3>1, <3>2 DEF TypeOK, StoppedLive
  <2>3. ~Continue
    BY <2>2 DEF Continue
  <2>4. CASE \E key \in Key : Type(key)
    <3>1. UNCHANGED <<status, stack, stopped, restarts>>
      BY <2>4 DEF Type
    <3> QED  BY <1>1, <3>1 DEF Frozen, WaitsFor, Shells, Top
  <2>5. CASE \E p \in Pid : Step(p) \/ UserStep(p)
    <3>1. PICK p \in Pid : Step(p) \/ UserStep(p)
      BY <2>5
    <3>2. p # c
      BY <2>1, <3>1, StoppedRests
    <3>3. stopped' = stopped \/ stopped' = stopped \ {p} \/ (stopped' = stopped \cup {p} /\ Suspend(p))
      <4>1. CASE Leaves(p)
        BY <4>1 DEF Leaves, Terminate, Exec
      <4>2. CASE Stands(p)
        BY <2>2, <4>2, StandsSystem DEF Suspend
      <4>3. CASE Advances(p)
        BY <2>2, <4>3, AdvancesStatus
      <4>4. CASE Pops(p) \/ Fork(p) \/ Interrupt(p)
        BY <4>4 DEF Pops, EndOfFile, Fork, ForkChild, Interrupt, system
      <4> QED  BY <3>1, <4>1, <4>2, <4>3, <4>4, Kinds
    <3>4. p = 1 => WaitSleeps(1) \/ ChildSignal(1)
      BY <1>1, <2>1, <2>2, <3>1, WaitingSteps
    <3>5. c \in stopped' /\ 1 \notin stopped'
      <4>1. p = 1 => UNCHANGED stopped
        BY <3>4 DEF WaitSleeps, ChildSignal, system
      <4> QED  BY <2>1, <2>2, <3>2, <3>3, <4>1
    <3>6. WaitsFor(1, c)'
      BY <1>1, <2>1, <2>2, <3>1, WaitingStays
    <3>7. restarts'
      BY <1>1, <2>2, AgesNext DEF Ages
    <3> QED  BY <2>2, <3>5, <3>6, <3>7 DEF Frozen
  <2> QED  BY <1>1, <2>3, <2>4, <2>5 DEF Next
<1>2. IInv /\ [Next]_vars => [Frozen => Frozen']_vars
  BY <1>1
<1> QED  BY <1>2, LoopsRight, PTL DEF Spec, FrozenForGood

-----------------------------------------------------------------------------
(* One reader of the terminal.  Who is alive and does not wait for a process *)
(* that is: forks pass this on from parent to child, and ends back.        *)

Hanging(p) == /\ Alive(p)
              /\ p \in Shells /\ Top(p).at \in {"wait", "waiting"} =>
                    Top(p).child \notin Pid \/ ~Alive(Top(p).child)

OneHangs == \A p, q \in Pid : Hanging(p) /\ Hanging(q) => p = q

\* No command is put in the background.
NoBackground == \A p \in Shells : /\ flag[p] # "Background"
                                  /\ Top(p).at = "spawn" => Top(p).cont # "background"

\* The flags of a process are those of the line it has read, or none.
LEMMA AdvancesFlags ==
    ASSUME TypeOK, NEW p \in Pid, Advances(p)
    PROVE  flag'[p] \in Line \cup {"none", flag[p]}
<1> USE DEF LineDone
<1>1. CASE \E line \in Line : ReadLine(p, line)
  <2>1. PICK line \in Line : ReadLine(p, line)
    BY <1>1
  <2>2. flag' = [flag EXCEPT ![p] = IF line \in Separator THEN line ELSE "none"]
    BY <2>1 DEF ReadLine
  <2> QED  BY <2>2 DEF TypeOK
<1>2. CASE RunCommand(p) \/ RunBackground(p) \/ Redirect(p) \/ RunIf(p) \/ RunBranch(p)
  BY <1>2 DEF RunCommand, RunBackground, Redirect, RunIf, RunBranch
<1>3. CASE LineFails(p) \/ CommandDone(p) \/ BranchInvalid(p) \/ Decline(p)
  BY <1>3 DEF LineFails, CommandDone, BranchInvalid, Decline, TypeOK
<1>4. CASE BuiltIn(p) \/ ForkFails(p) \/ ChildUnblock(p) \/ ChildReset(p) \/ ExecFails(p)
  BY <1>4 DEF BuiltIn, ForkFails, ChildUnblock, ChildReset, ExecFails
<1>5. CASE Link(p) \/ Fill(p) \/ Unblock(p)
           \/ WaitReturns(p) \/ WaitSleeps(p) \/ WaitFails(p) \/ WaitInterrupted(p)
  BY <1>5 DEF Link, Fill, WaitReturns, WaitSleeps, WaitFails, WaitInterrupted, Unblock
<1> QED  BY <1>1, <1>2, <1>3, <1>4, <1>5 DEF Advances

\* A copy and the innermost loop of a process after a step.
LEMMA NewTop ==
    ASSUME TypeOK, NEW p \in Pid, status[p] = "shell", NEW r \in Pid, NEW g,
           stack'[r] = [stack[p] EXCEPT ![Len(stack[p])] = g]
    PROVE  Top(r)' = g
<1>1. Len(stack[p]) \in Nat \ {0} /\ stack[p] \in Seq(Frame)
  BY TopFrame
<1> QED  BY <1>1 DEF Top, Last

\* Without the separator & no line puts a command in the background.
LEMMA NoBackgroundStep ==
    ASSUME "Background" \notin Line, IInv, IInv', NoBackground,
           NEW p \in Pid, Step(p) \/ UserStep(p)
    PROVE  NoBackground'
<1> SUFFICES ASSUME NEW q \in Pid, status'[q] = "shell"
             PROVE  /\ flag'[q] # "Background"
                    /\ (Top(q).at)' = "spawn" => (Top(q).cont)' # "background"
  BY DEF NoBackground, Shells
<1>1. /\ TypeOK /\ OriginalRight
      /\ \A r \in Pid : status[r] = "shell" =>
            /\ Loops(r) /\ flag[r] # "Background"
            /\ Top(r).at = "spawn" => Top(r).cont # "background"
  BY DEF IInv, LoopsInv, NoBackground, Shells
<1>2. CASE status[q] = "shell" /\ q # p
  <2>1. stack'[q] = stack[q] /\ flag'[q] = flag[q]
    BY <1>1, <1>2, OthersKept
  <2> QED  BY <1>1, <1>2, <2>1 DEF Top
<1>3. CASE status[q] # "shell"
  <2>1. At(p, "spawn") /\ q \in Unused /\ ForkChild(p, q)
    BY <1>1, <1>3, NewShell
  <2>2. status[p] = "shell" /\ q # p /\ flag'[q] = flag[p]
    <3>1. status[p] = "shell" /\ q # p
      BY <1>3, <2>1 DEF At, Runs
    <3>2. flag' = [flag EXCEPT ![q] = flag[p]]
      BY <2>1 DEF ForkChild
    <3> QED  BY <1>1, <3>1, <3>2 DEF TypeOK
  <2>3. PICK h : h = [Top(p) EXCEPT !.at = "born", !.last = "external"]
    OBVIOUS
  <2>4. h.at = "born"
    <3>1. Top(p) \in Frame
      BY <1>1, <2>2, TopFrame
    <3> QED  BY <2>3, <3>1 DEF Frame
  <2>5. stack'[q] = [stack[p] EXCEPT ![Len(stack[p])] = h]
    <3>1. PICK t : t = [stack[p] EXCEPT ![Len(stack[p])] = h]
      OBVIOUS
    <3>2. PICK g : g = Forked(p, q)
      OBVIOUS
    <3>3. stack' = [stack EXCEPT ![p][Len(stack[p])] = g, ![q] = t]
      BY <2>1, <2>3, <3>1, <3>2 DEF ForkChild
    <3> QED  BY <1>1, <2>2, <3>1, <3>3 DEF TypeOK
  <2>6. Top(q)' = h
    <3>1. Len(stack[p]) \in Nat \ {0} /\ stack[p] \in Seq(Frame)
      BY <1>1, <2>2, TopFrame
    <3> QED  BY <2>5, <3>1 DEF Top, Last
  <2> QED  BY <1>1, <2>2, <2>4, <2>6
<1>4. CASE status[p] = "shell" /\ q = p
  <2>1. CASE Stands(p)
    <3>1. stack'[p] = stack[p] /\ flag'[p] = flag[p]
      BY <1>1, <2>1, StandsSystem
    <3> QED  BY <1>1, <1>4, <3>1 DEF Top
  <2>2. CASE Advances(p)
    <3>1. PICK g : Moves(p, g)
      BY <1>1, <1>4, <2>2, AdvancesMoves
    <3>2. stack'[p] = [stack[p] EXCEPT ![Len(stack[p])] = g]
      BY <1>1, <3>1 DEF Moves, SetTop, TypeOK
    <3>3. Top(p)' = g
      BY <1>1, <1>4, <3>2, NewTop
    <3>4. flag'[p] # "Background"
      BY <1>1, <1>4, <2>2, AdvancesFlags
    <3> QED  BY <1>1, <1>4, <3>1, <3>3, <3>4 DEF Moves
  <2>3. CASE Pops(p)
    <3>1. flag'[p] = flag[p] /\ "INT" \notin masked'[p]
      <4>1. /\ UNCHANGED flag /\ masked' = [masked EXCEPT ![p] = Top(p).saved]
        BY <2>3 DEF Pops, EndOfFile
      <4>2. FrameRight(Top(p))
        BY <1>1, <1>4, TopRight
      <4> QED  BY <1>1, <4>1, <4>2 DEF FrameRight, TypeOK
    <3>2. MaskRight(p)'
      BY <1>4 DEF IInv, LoopsInv, Loops, Shells
    <3>3. (Top(p).at)' # "spawn"
      BY <3>1, <3>2 DEF MaskRight, Deaf, Blocking
    <3> QED  BY <1>1, <1>4, <3>1, <3>3
  <2>4. CASE Fork(p)
    <3>1. PICK c \in Unused : ForkChild(p, c)
      BY <2>4 DEF Fork
    <3>2. PICK g : g = Forked(p, c)
      OBVIOUS
    <3>3. c \in Pid /\ c # p /\ flag'[p] = flag[p]
      BY <1>1, <1>4, <3>1 DEF Unused, ForkChild, TypeOK
    <3>4. stack'[p] = [stack[p] EXCEPT ![Len(stack[p])] = g]
      <4>1. PICK t : stack' = [stack EXCEPT ![p][Len(stack[p])] = g, ![c] = t]
        BY <3>1, <3>2 DEF ForkChild
      <4> QED  BY <1>1, <3>3, <4>1 DEF TypeOK
    <3>5. Top(p)' = g
      BY <1>1, <1>4, <3>4, NewTop
    <3>6. g.at \in {"wait", "record"}
      <4>1. Top(p) \in Frame /\ FrameRight(Top(p)) /\ c \in Pid \cup {-1}
        BY <1>1, <1>4, <3>3, TopRight
      <4> QED  BY <3>2, <4>1, ForkedRight
    <3> QED  BY <1>1, <1>4, <3>3, <3>5, <3>6
  <2>5. CASE Interrupt(p)
    <3>1. PICK g : g = [Prompt EXCEPT !.at = "confirm", !.saved = masked[p]]
      OBVIOUS
    <3>2. stack'[p] = Append(stack[p], g) /\ flag' = flag
      BY <1>1, <2>5, <3>1 DEF Interrupt, TypeOK
    <3>3. g.at = "confirm"
      BY <3>1 DEF Prompt
    <3>4. Len(stack[p]) \in Nat \ {0} /\ stack[p] \in Seq(Frame)
      BY <1>1, <1>4, TopFrame
    <3>5. Top(p)' = g
      BY <3>2, <3>4 DEF Top, Last
    <3> QED  BY <1>1, <1>4, <3>2, <3>3, <3>5
  <2>6. ~Leaves(p)
    BY <1>1, <1>4, LeavesShell
  <2> QED  BY <2>1, <2>2, <2>3, <2>4, <2>5, <2>6, Kinds
<1> QED  BY <1>2, <1>3, <1>4

\* Only who ends, in a step of its own, is alive no more; only fork makes a process
\* alive.
LEMMA LivesOn ==
    ASSUME TypeOK, NEW p \in Pid, Step(p) \/ UserStep(p), NEW q \in Pid
    PROVE  /\ Alive(q) => Alive(q)' \/ (q = p /\ Leaves(p) /\ ~Exec(p))
           /\ Alive(q)' /\ ~Fork(p) => Alive(q)
           /\ Alive(q)' /\ q # p /\ status[q] # "unused" => Alive(q)
<1>1. CASE Leaves(p) /\ Alive(p)
  <2>1. ASSUME NEW result, Terminate(p, result)
        PROVE  /\ q # p => (Alive(q)' <=> Alive(q))
               /\ q = p => ~Alive(q)'
    BY <2>1 DEF Terminate, Alive, Zombies
  <2>2. CASE Exec(p)
    BY <1>1, <2>2 DEF Exec, Alive, TypeOK
  <2> QED  BY <1>1, <2>1, <2>2 DEF Leaves
<1>2. CASE Stands(p)
  BY <1>2, StandsStatus DEF Zombies, Alive, TypeOK
<1>3. CASE Advances(p)
  <2>1. UNCHANGED status \/ \E c \in Zombies(p) : status' = [status EXCEPT ![c] = "reaped"]
    BY <1>3, AdvancesStatus
  <2> QED  BY <2>1 DEF Zombies, Alive, TypeOK
<1>4. CASE Pops(p) \/ Interrupt(p)
  BY <1>4 DEF Pops, EndOfFile, Interrupt, system, Alive
<1>5. CASE Fork(p)
  <2>1. PICK c \in Unused : status' = [status EXCEPT ![c] = "shell"]
    BY <1>5 DEF Fork, ForkChild
  <2> QED  BY <1>5, <2>1 DEF Unused, Alive, TypeOK
<1> QED  BY <1>1, <1>2, <1>3, <1>4, <1>5, Kinds

\* Who takes a step is alive.
LEMMA ActorAlive == ASSUME TypeOK, NEW p \in Pid, Step(p) \/ UserStep(p) PROVE Alive(p)
<1>1. CASE Stands(p)
  BY <1>1, StandsSystem
<1>2. CASE Advances(p)
  BY <1>2, AdvancesStatus DEF Alive
<1>3. CASE Pops(p) \/ Fork(p)
  BY <1>3 DEF Pops, EndOfFile, Fork, At, Runs, Alive
<1>4. CASE Interrupt(p)
  BY <1>4 DEF Interrupt, Receives
<1> QED  BY <1>1, <1>2, <1>3, <1>4, Kinds

\* Who does not hang waits for a process that lives.
LEMMA WaitsOrHangs ==
    ASSUME NEW q \in Pid, Alive(q), ~Hanging(q)
    PROVE  \E c \in Pid : WaitsFor(q, c) /\ Alive(c)
BY DEF Hanging, WaitsFor

\* Who takes a step that is not of a wait hangs.
LEMMA ActorHangs ==
    ASSUME IInv, restarts, NEW p \in Pid, Step(p) \/ UserStep(p)
    PROVE  Hanging(p) \/ WaitSleeps(p) \/ ChildSignal(p)
<1>1. Alive(p)
  BY ActorAlive DEF IInv
<1> QED  BY <1>1, WaitsOrHangs, WaitingSteps

\* Waits for a process that goes on living go on.
LEMMA HangsBefore ==
    ASSUME IInv, restarts, NEW p \in Pid, Step(p) \/ UserStep(p), NEW q \in Pid, Alive(q), Hanging(q)',
           q = p => ~Leaves(p)
    PROVE  Hanging(q) \/ (Leaves(p) /\ ~Exec(p) /\ WaitsFor(q, p))
<1> SUFFICES ASSUME ~Hanging(q) PROVE Leaves(p) /\ ~Exec(p) /\ WaitsFor(q, p)
  OBVIOUS
<1>1. PICK c \in Pid : WaitsFor(q, c) /\ Alive(c)
  BY WaitsOrHangs
<1>2. TypeOK /\ status[q] = "shell"
  BY <1>1 DEF IInv, WaitsFor, Shells
<1>3. WaitsFor(q, c)'
  <2>1. WaitsFor(q, c)' \/ Leaves(q)
    BY <1>1, WaitingStays
  <2>2. CASE q = p
    BY <2>1, <2>2
  <2>3. CASE q # p
    <3>1. stack'[q] = stack[q] /\ TypeOK'
      BY <1>2, <2>3, OthersKept, StepType, UserStepType
    <3>2. status'[q] = "shell"
      BY <1>2, <3>1 DEF TypeOK
    <3> QED  BY <1>1, <3>1, <3>2 DEF WaitsFor, Shells, Top
  <2> QED  BY <2>2, <2>3
<1>4. ~Alive(c)'
  BY <1>3 DEF Hanging, WaitsFor
<1>5. c = p /\ Leaves(p) /\ ~Exec(p)
  BY <1>1, <1>2, <1>4, LivesOn
<1> QED  BY <1>1, <1>5

\* At most one process hangs, where calls are restarted.
LEMMA OneHangsStep ==
    ASSUME IInv, restarts, NoBackground, OneHangs, NEW p \in Pid, Step(p) \/ UserStep(p)
    PROVE  OneHangs'
<1>1. /\ TypeOK /\ \A r \in Pid : status[r] = "shell" => Loops(r)
  BY DEF IInv, LoopsInv, Shells
<1>2. Leaves(p) => Hanging(p)
  <2>1. WaitSleeps(p) \/ ChildSignal(p) => status'[p] = "shell"
    <3>1. CASE WaitSleeps(p)
      BY <3>1 DEF WaitSleeps, At, Runs, system, user
    <3>2. CASE ChildSignal(p)
      <4>1. status[p] = "shell" /\ stack' = stack
        BY <3>2 DEF ChildSignal, GetsChild
      <4>2. TypeOK'
        BY <1>1, StepType, UserStepType
      <4>3. status'[p] = "shell"
        BY <1>1, <4>1, <4>2 DEF TypeOK
      <4> QED  BY <4>3
    <3> QED  BY <3>1, <3>2
  <2> QED  BY <1>1, <2>1, ActorHangs, LeavesShell
<1>3. CASE ~Fork(p) /\ (Leaves(p) => Exec(p))
  <2>1. ASSUME NEW q \in Pid, Hanging(q)' PROVE Hanging(q)
    <3>1. Alive(q)
      BY <1>1, <1>3, <2>1, LivesOn DEF Hanging
    <3>2. CASE q = p /\ Leaves(p)
      BY <1>2, <3>2
    <3> QED  BY <1>3, <2>1, <3>1, <3>2, HangsBefore
  <2> QED  BY <2>1 DEF OneHangs
<1>4. CASE Leaves(p) /\ ~Exec(p)
  <2>1. PICK result : Terminate(p, result)
    BY <1>4 DEF Leaves
  <2>2. ~Alive(p)' /\ ~Fork(p)
    <3>1. ~Alive(p)'
      BY <2>1 DEF Terminate, Alive
    <3>2. CASE Fork(p)
      <4>1. PICK c \in Unused : At(p, "spawn") /\ status' = [status EXCEPT ![c] = "shell"]
        BY <3>2 DEF Fork, ForkChild
      <4>2. p # c /\ status[p] = "shell"
        BY <4>1 DEF At, Runs, Unused
      <4>3. status'[p] = "shell"
        BY <1>1, <4>1, <4>2 DEF TypeOK
      <4> QED  BY <3>1, <4>3 DEF Alive
    <3> QED  BY <3>1, <3>2
  <2>3. ASSUME NEW q \in Pid, Hanging(q)' PROVE q = parent[p]
    <3>1. Alive(q) /\ q # p
      BY <1>1, <2>2, <2>3, LivesOn DEF Hanging
    <3>2. ~Hanging(q)
      BY <1>2, <1>4, <3>1 DEF OneHangs
    <3>3. WaitsFor(q, p)
      BY <2>3, <3>1, <3>2, HangsBefore
    <3>4. status[q] = "shell" /\ Top(q).at \in {"wait", "waiting"} /\ Top(q).child = p
      BY <3>3 DEF WaitsFor, Shells
    <3>5. ChildRight(q, Top(q))
      BY <1>1, <3>4, TopRight
    <3> QED  BY <3>4, <3>5 DEF ChildRight, Waiting
  <2> QED  BY <2>3 DEF OneHangs
<1>5. CASE Fork(p)
  <2>1. PICK c \in Unused : At(p, "spawn") /\ ForkChild(p, c)
    BY <1>5 DEF Fork
  <2>2. PICK g : g = Forked(p, c)
    OBVIOUS
  <2>3. /\ c \in Pid /\ c # p /\ status[c] = "unused" /\ status[p] = "shell" /\ Top(p).at = "spawn"
    BY <2>1 DEF Unused, At, Runs
  <2>4. stack'[p] = [stack[p] EXCEPT ![Len(stack[p])] = g]
    <3>1. PICK t : stack' = [stack EXCEPT ![p][Len(stack[p])] = g, ![c] = t]
      BY <2>1, <2>2 DEF ForkChild
    <3> QED  BY <1>1, <2>3, <3>1 DEF TypeOK
  <2>5. Top(p)' = g
    BY <1>1, <2>3, <2>4, NewTop
  <2>6. g.at = "wait" /\ g.child = c
    <3>1. /\ Top(p) \in Frame /\ FrameRight(Top(p)) /\ c \in Pid \cup {-1}
          /\ Top(p).cont # "background"
      BY <1>1, <2>3, TopRight DEF NoBackground, Shells
    <3>2. /\ FrameRight(g) /\ g.at \in {"wait", "record"} /\ g.child = c
          /\ g.cont = Top(p).cont
      BY <2>2, <3>1, ForkedRight
    <3> QED  BY <3>1, <3>2 DEF FrameRight
  <2>7. ~Hanging(p)'
    <3>1. status' = [status EXCEPT ![c] = "shell"]
      BY <2>1 DEF ForkChild
    <3>2. status'[c] = "shell" /\ status'[p] = "shell"
      BY <1>1, <2>3, <3>1 DEF TypeOK
    <3> QED  BY <2>3, <2>5, <2>6, <3>2 DEF Hanging, Alive, Shells
  <2>8. ASSUME NEW q \in Pid, Hanging(q)' PROVE q = c
    <3> SUFFICES ASSUME q # c PROVE FALSE
      OBVIOUS
    <3>1. q # p
      BY <2>7, <2>8
    <3>2. Alive(q)
      <4>1. status' = [status EXCEPT ![c] = "shell"]
        BY <2>1 DEF ForkChild
      <4> QED  BY <1>1, <2>3, <2>8, <4>1 DEF Hanging, Alive, TypeOK
    <3>3. ~Leaves(p)
      <4>1. status'[p] = "shell"
        BY <1>1, <2>1, <2>3 DEF ForkChild, TypeOK
      <4> QED  BY <1>1, <4>1, LeavesShell
    <3>4. Hanging(q)
      BY <2>8, <3>2, <3>3, HangsBefore
    <3>5. Hanging(p)
      BY <2>3 DEF Hanging, Alive
    <3> QED  BY <3>1, <3>4, <3>5 DEF OneHangs
  <2> QED  BY <2>8 DEF OneHangs
<1> QED  BY <1>3, <1>4, <1>5

\* Without background commands, and where interrupted calls are restarted, there is
\* one reader of the terminal, for every number of processes, lines and keys: who reads waits for no process that lives.
THEOREM ReadsAlone == ASSUME "Background" \notin Line PROVE Spec => []OneReader
<1> DEFINE Inv == IInv /\ NoBackground /\ (restarts => OneHangs)
<1>1. Init => Inv
  <2> SUFFICES ASSUME Init PROVE Inv
    OBVIOUS
  <2>1. IInv
    BY InitIInv
  <2>2. /\ \A p \in Pid : p # 1 => ~Alive(p) /\ p \notin Shells
        /\ 1 \in Pid /\ Top(1) = Prompt /\ flag[1] = "none"
    <3>1. 1 \in Pid /\ stack[1] = <<Prompt>> /\ \A p \in Pid : p # 1 => status[p] = "unused"
      BY ShellAssumption DEF Init, Pid
    <3>2. Top(1) = Prompt
      BY <3>1 DEF Top, Last
    <3> QED  BY <3>1, <3>2 DEF Init, Alive, Shells
  <2>3. OneHangs
    BY <2>2 DEF OneHangs, Hanging
  <2>4. NoBackground
    <3>1. Prompt.at # "spawn"
      BY DEF Prompt
    <3>2. \A p \in Shells : p = 1
      BY <2>2 DEF Shells
    <3> QED  BY <2>2, <3>1, <3>2 DEF NoBackground
  <2> QED  BY <2>1, <2>3, <2>4
<1>2. Inv /\ [Next]_vars => Inv'
  <2> SUFFICES ASSUME Inv, [Next]_vars PROVE Inv'
    OBVIOUS
  <2>1. IInv'
    BY NextIInv
  <2>2. CASE \E p \in Pid : Step(p) \/ UserStep(p)
    <3>1. restarts' = restarts
      BY <2>2, AgesNext DEF IInv, Ages, Next
    <3> QED  BY <2>1, <2>2, <3>1, NoBackgroundStep, OneHangsStep
  <2>3. CASE UNCHANGED <<status, stack, flag, restarts>>
    BY <2>1, <2>3 DEF NoBackground, OneHangs, Hanging, Alive, Shells, Top
  <2>4. CASE UNCHANGED vars \/ Continue \/ \E key \in Key : Type(key)
    BY <2>3, <2>4 DEF vars, user, Continue, Type
  <2> QED  BY <2>2, <2>4 DEF Next
<1>3. Inv => OneReader
  <2> SUFFICES ASSUME Inv PROVE OneReader
    OBVIOUS
  <2>1. \A p \in Readers : p \in Pid /\ Hanging(p)
    BY DEF Readers, Shells, Hanging, Alive
  <2>2. restarts => \A p, q \in Readers : p = q
    BY <2>1 DEF OneHangs
  <2> QED  BY <2>1, <2>2 DEF OneReader
<1> QED  BY <1>1, <1>2, <1>3, PTL DEF Spec
=============================================================================
