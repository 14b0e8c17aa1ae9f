----------------------------- MODULE ShellAlias -----------------------------
(***************************************************************************)
(* Aliases and directories of the GRS shell: grsAlias.c, the built-in       *)
(* commands of grsSpawnProcess, loadProfile and setCwd.  Several shells    *)
(* share the files grs.aliases, of which each reads the one of its home or, *)
(* while there is none, the one of the directory it is in.                 *)
(*                                                                         *)
(* A file is the sequence of its definitions.  grsSetAlias writes the line  *)
(* that grsGetCmdAlias reads back as the same pair: both words come from   *)
(* parseCmd, which leaves no space in them.                                *)
(***************************************************************************)
EXTENDS Integers, SequencesExt

CONSTANTS Shell,       \* the shells that are started
          Word,        \* the words that are typed and defined
          Dir,         \* the directories
          Nowhere,     \* a path that does not exist
          Login,       \* the home of whoever starts the shells
          NoWord,      \* no such word
          MaxEntries   \* bound of the model: definitions in one file

\* What is assumed of the constants.
AliasAssumption == /\ {"cd", "alias"} \subseteq Word /\ Login \in Dir
                   /\ Nowhere \notin Dir /\ NoWord \notin Word
                   /\ MaxEntries \in Nat

Path == Dir \cup {Nowhere}
Pair == [name : Word, value : Word]

VARIABLES profile,   \* profile[d]: "absent", or what grs.profile of d makes HOME
          exists,    \* the directories with a file grs.aliases
          entries,   \* entries[d]: the definitions in it
          pc,        \* pc[s]: "start", "ready", "append" or "crashed"
          home,      \* home[s]: HOME in the environment of s
          dir,       \* dir[s]: the directory s is in
          def        \* def[s]: the pair of the last alias command of s

vars == <<profile, exists, entries, pc, home, dir, def>>
NoPair == [name |-> NoWord, value |-> NoWord]

Init == /\ profile \in [Dir -> Path \cup {"absent"}]
        /\ exists \in SUBSET Dir
        /\ entries \in [Dir -> {<<>>} \cup {<<e>> : e \in Pair}]
        /\ \A d \in Dir \ exists : entries[d] = <<>>
        /\ pc   = [s \in Shell |-> "start"]
        /\ home = [s \in Shell |-> Login]
        /\ dir \in [Shell -> Dir]
        /\ def  = [s \in Shell |-> NoPair]

-----------------------------------------------------------------------------
(* Looking up *)

\* The first line of a file that defines w.
Find(file, w) ==
    LET hits == {i \in DOMAIN file : file[i].name = w}
    IN  IF hits = {} THEN NoWord
        ELSE file[CHOOSE i \in hits : \A j \in hits : i <= j].value

\* grsGetCmdAlias: the file in the home, if not the one in the directory.
Alias(s, w) == IF home[s] \in exists THEN Find(entries[home[s]], w)
               ELSE IF dir[s] \in exists THEN Find(entries[dir[s]], w) ELSE NoWord

\* The command that a word stands for; what it is is tested after that.
Meaning(s, w) == IF Alias(s, w) = NoWord THEN w ELSE Alias(s, w)

-----------------------------------------------------------------------------
(* Steps of shell s *)

\* loadProfile and setCwd.  The name and the value of a line are trimmed into
\* arrays that lack the byte for the NUL, which may end the shell.
Start(s) ==
    LET found == IF profile[home[s]] # "absent" THEN profile[home[s]] ELSE profile[dir[s]]
    IN  /\ pc[s] = "start" /\ found # "absent"
        /\ \/ /\ pc'   = [pc EXCEPT ![s] = "ready"]
              /\ home' = [home EXCEPT ![s] = found]
              /\ dir'  = IF found \in Dir THEN [dir EXCEPT ![s] = found] ELSE dir
           \/ /\ pc'   = [pc EXCEPT ![s] = "crashed"]
              /\ UNCHANGED <<home, dir>>
        /\ UNCHANGED <<profile, exists, entries, def>>

\* Without a profile the stream is not initialised: it may be NULL.
StartWithoutProfile(s) ==
    /\ pc[s] = "start" /\ profile[home[s]] = "absent" /\ profile[dir[s]] = "absent"
    /\ \/ /\ pc' = [pc EXCEPT ![s] = "ready"]
          /\ dir' = [dir EXCEPT ![s] = home[s]]
       \/ /\ pc' = [pc EXCEPT ![s] = "crashed"] /\ UNCHANGED dir
    /\ UNCHANGED <<profile, exists, entries, home, def>>

\* s is given a line whose first word means command.
Given(s, command) == pc[s] = "ready" /\ \E w \in Word : Meaning(s, w) = command

ChangeDirectory(s, path) == /\ Given(s, "cd") /\ path \in Dir
                            /\ dir' = [dir EXCEPT ![s] = path]
                            /\ UNCHANGED <<profile, exists, entries, pc, home, def>>

CanOpen(s) == home[s] \in Dir

SetAliasUnchecked(s, pair) ==                                       \* mutant
    /\ Given(s, "alias")
    /\ CanOpen(s) => Len(entries[home[s]]) < MaxEntries
    /\ def' = [def EXCEPT ![s] = pair]
    /\ pc' = [pc EXCEPT ![s] = "append"] /\ exists' = exists \cup {home[s]}
    /\ UNCHANGED <<profile, entries, home, dir>>

\* grsSetAlias creates the file and fills it when it closes it.
SetAlias(s, pair) ==
    /\ Given(s, "alias")
    /\ CanOpen(s) => Len(entries[home[s]]) < MaxEntries
    /\ def' = [def EXCEPT ![s] = pair]
    /\ IF CanOpen(s) THEN pc' = [pc EXCEPT ![s] = "append"] /\ exists' = exists \cup {home[s]}
       ELSE UNCHANGED <<pc, exists>>
    /\ UNCHANGED <<profile, entries, home, dir>>

AppendTruncating(s) ==                                              \* mutant
    /\ pc[s] = "append"
    /\ pc' = [pc EXCEPT ![s] = "ready"]
    /\ entries' = [entries EXCEPT ![home[s]] = <<def[s]>>]
    /\ UNCHANGED <<profile, exists, home, dir, def>>

AppendPair(s) ==
    /\ pc[s] = "append"
    /\ pc' = [pc EXCEPT ![s] = "ready"]
    /\ entries' = [entries EXCEPT ![home[s]] = Append(@, def[s])]
    /\ UNCHANGED <<profile, exists, home, dir, def>>

\* alias without an argument, without "=" or with nothing after it.
SetAliasCrashes(s) == /\ Given(s, "alias")
                      /\ pc' = [pc EXCEPT ![s] = "crashed"]
                      /\ UNCHANGED <<profile, exists, entries, home, dir, def>>

Next == \E s \in Shell :
            \/ Start(s) \/ StartWithoutProfile(s)
            \/ \E path \in Dir : ChangeDirectory(s, path)
            \/ \E pair \in Pair : SetAlias(s, pair)
            \/ AppendPair(s) \/ SetAliasCrashes(s)

Spec == Init /\ [][Next]_vars

-----------------------------------------------------------------------------
(* Properties *)

\* Every variable keeps its type; only existing files have definitions, and a
\* shell is about to fill a file only in a home that exists.
TypeOK == /\ profile \in [Dir -> Path \cup {"absent"}]
          /\ exists \subseteq Dir
          /\ entries \in [Dir -> Seq(Pair)]
          /\ \A d \in Dir \ exists : entries[d] = <<>>
          /\ pc \in [Shell -> {"start", "ready", "append", "crashed"}]
          /\ home \in [Shell -> Path] /\ dir \in [Shell -> Dir]
          /\ def \in [Shell -> Pair \cup {NoPair}]
          /\ \A s \in Shell : pc[s] = "append" => home[s] \in exists /\ def[s] \in Pair

Running(s) == pc[s] \in {"ready", "append"}

\* A word loses or changes its alias in a running shell only while there is no
\* file in its home: when it changes the directory, or when anybody defines
\* the first alias there.  From then on no command of any shell ever changes
\* what an aliased word means.
AliasLost(s, w) == Alias(s, w) # NoWord /\ Alias(s, w)' # Alias(s, w)
AliasesLast ==
    [][\A s \in Shell, w \in Word : Running(s) /\ AliasLost(s, w) =>
          /\ home[s] \notin exists
          /\ dir'[s] # dir[s] \/ home[s] \in exists']_vars

\* Aliases are looked up before the built-in commands.  Once no word means
\* alias in any shell, because each has a file in its home that says so and
\* has run the last definition, no definition is ever made again.
Mute == \A s \in Shell : /\ pc[s] = "crashed" \/ (pc[s] = "ready" /\ home[s] \in exists)
                         /\ \A w \in Word : Meaning(s, w) # "alias"
MuteForGood == [][Mute => Mute']_vars

\* Definitions are for ever, also the one that forbids further definitions.
AliasesStay == AliasesLast /\ MuteForGood
=============================================================================
