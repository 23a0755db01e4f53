-------------------------------- MODULE GetSh --------------------------------
(***************************************************************************)
(* The lookup of a user's shell inside a container: cmd/getsh/main.go.     *)
(*                                                                         *)
(* A system has two trees, the one getsh runs in (Here) and the one its    *)
(* root argument names (Given); each has a set of executable paths and an  *)
(* /etc/passwd.  environ is the SHELL of the process pid, or Unset.        *)
(***************************************************************************)
EXTENDS Sequences, SequencesExt

CONSTANT heuristicCommonShellLookup  \* the sequence of well-known shells

Here  == "here"
Given == "given"
Empty == ""           \* a path or a shell field that is the empty string
Unset == "unset"      \* no SHELL in the environment, or no such process
Fail  == "exit 1"     \* getsh prints nothing and fails

\* root = strings.TrimSuffix(root, "/") trims the variable, not the argument: it stays
\* empty and every lookup is in the tree getsh runs in.
TreeOf(args) == Here

uidOf(args) == IF Len(args) >= 2 THEN args[2] ELSE 0

\* os.Stat of an empty path fails; of a root followed by one it finds a directory.
isExecutable(sys, tree, path) == path # Empty /\ path \in sys[tree].executable

\* A line with fewer than seven fields is skipped; the first match decides.
shellFromPasswd(sys, tree, uid) ==
  LET passwd == sys[tree].passwd
      hits   == {i \in 1..Len(passwd) : passwd[i].complete /\ passwd[i].uid = uid}
  IN  IF hits = {} THEN Empty ELSE passwd[Min(hits)].shell

\* The environment is used when SHELL is empty, and then names no executable.
shellFromEnv(sys, tree) ==
  IF sys.environ = Empty /\ isExecutable(sys, tree, sys.environ) THEN sys.environ ELSE Fail

\* Mutant: the login shell is printed without looking at it.
passwdShellBlind(sys, tree, uid) ==
  LET shell == shellFromPasswd(sys, tree, uid)
  IN  IF shell # Empty THEN shell ELSE Fail

\* The login shell, when it can be run.
passwdShell(sys, tree, uid) ==
  LET shell == shellFromPasswd(sys, tree, uid)
  IN  IF shell # Empty /\ isExecutable(sys, tree, shell) THEN shell ELSE Fail

\* The first well-known shell that can be run.
heuristicShell(sys, tree) ==
  LET found == SelectSeq(heuristicCommonShellLookup, LAMBDA sh : isExecutable(sys, tree, sh))
  IN  IF found = << >> THEN Fail ELSE Head(found)

\* main: the first of the three that gives an answer.
main(sys, args) ==
  LET tree    == TreeOf(args)
      answers == <<shellFromEnv(sys, tree), passwdShell(sys, tree, uidOf(args)),
                   heuristicShell(sys, tree)>>
      given   == SelectSeq(answers, LAMBDA a : a # Fail)
  IN  IF given = << >> THEN Fail ELSE Head(given)
------------------------------------------------------------------------------
\* What getsh prints can be run in the tree it looked at, whatever passwd says; it
\* fails only if no well-known shell is there; and a login shell that can be run is
\* never passed over for a well-known one.
ShellRuns(sys, args) ==
  LET shell == main(sys, args)
      login == shellFromPasswd(sys, Here, uidOf(args))
      known == ToSet(heuristicCommonShellLookup)
  IN  /\ shell = Fail \/ shell \in sys[Here].executable
      /\ shell = Fail => known \cap sys[Here].executable = {}
      /\ login \in sys[Here].executable => shell = login

\* "USAGE getsh [root] [userid] [pid]": with a root, the shell that is printed is one
\* of that root.
ShellIsUnderRoot(sys, args) ==
  Len(args) >= 1 /\ main(sys, args) # Fail => main(sys, args) \in sys[Given].executable
==============================================================================
