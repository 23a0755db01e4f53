------------------------------- MODULE MCPure -------------------------------
(***************************************************************************)
(* The pure functions on bounded inputs.  The state is one input: an exec  *)
(* line that is typed symbol by symbol, a container image with the         *)
(* arguments of getsh, or a pair of remote addresses.                      *)
(***************************************************************************)
EXTENDS SplitArgs, GetSh, RateKey

CONSTANTS
  MaxLine,   \* the longest exec line
  MaxPasswd  \* the most lines of /etc/passwd

VARIABLE input

Symbols == {Space, Quote, "sh", "-c", "x"}

Bash == "/bin/bash"
Dash == "/bin/dash"
Nu   == "/opt/nu"

WellKnown == <<Bash, Dash>>
Users == [complete : BOOLEAN, uid : {0, 1}, shell : {Empty, Dash, Nu}]
Calls == {<< >>, <<"root">>, <<"root", 1>>}

Words1 == {<<0>>, <<1>>}
Words2 == {<<7, 7>>}   \* not the length of an address
Words4 == {<<a, b, c, d>> : a \in {0, 1}, b \in {0, 1}, c \in {0, MappedWord}, d \in {0, 1}}
Addrs  == [net : {"tcp", "other"}, parses : BOOLEAN,
           ip : {NoIP} \cup Words1 \cup Words2 \cup Words4]

Bare == [executable |-> {}, passwd |-> << >>]

Init ==
  \/ input = [kind |-> "line", line |-> << >>]
  \/ \E args \in Calls, env \in {Unset, Empty, Nu} :
       input = [kind |-> "image", args |-> args,
                sys |-> [here |-> Bare, given |-> Bare, environ |-> env]]
  \/ \E a \in Addrs : input = [kind |-> "peers", a |-> a, b |-> a]

Type ==
  /\ input.kind = "line"
  /\ Len(input.line) < MaxLine
  /\ \E ch \in Symbols : input' = [input EXCEPT !.line = Append(@, ch)]

Install ==
  /\ input.kind = "image"
  /\ \E tree \in {Here, Given}, path \in {Bash, Dash, Nu} :
       /\ path \notin input.sys[tree].executable
       /\ input' = [input EXCEPT !.sys[tree].executable = @ \cup {path}]

AddUser ==
  /\ input.kind = "image"
  /\ Len(input.sys[Here].passwd) < MaxPasswd
  /\ \E user \in Users : input' = [input EXCEPT !.sys[Here].passwd = Append(@, user)]

Meet ==
  /\ input.kind = "peers"
  /\ \E b \in Addrs \ {input.b} : input' = [input EXCEPT !.b = b]

Next == Type \/ Install \/ AddUser \/ Meet

Spec == Init /\ [][Next]_input
------------------------------------------------------------------------------
\* Every exec line is split as the reference says (splitArgs).
SplitCorrect == input.kind = "line" => SplitAgrees(input.line)

\* On every image getsh prints a shell that runs, the user's own if it does.
ShellCorrect == input.kind = "image" => ShellRuns(input.sys, input.args)

\* Any two connections share a bucket exactly when they should (Hasher.FromConn).
KeysCorrect == input.kind = "peers" => KeysAgree(input.a, input.b)

\* "USAGE getsh [root] [userid] [pid]" (cmd/getsh/main.go): the shell getsh prints for
\* a root can be run in it.
RootIsHonoured == input.kind = "image" => ShellIsUnderRoot(input.sys, input.args)
==============================================================================
