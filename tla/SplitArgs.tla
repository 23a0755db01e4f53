------------------------------ MODULE SplitArgs ------------------------------
(***************************************************************************)
(* How the command line of an exec request becomes the argument vector of  *)
(* the remote process: splitArgs of internal/k8s/shell.go.                 *)
(*                                                                         *)
(* A line is a sequence of symbols: Space, Quote, and symbols that stand   *)
(* for runs of other characters.  An argument is a sequence of symbols.    *)
(***************************************************************************)
EXTENDS Integers, SequencesExt

Space == " "
Quote == "'"
Sh    == <<"sh">>
DashC == <<"-c">>

\* What the scan carries from one character to the next.
Blank == [args |-> << >>, current |-> << >>, inQuotes |-> FALSE]

\* args = append(args, current), unless current is empty.
Flush(s) ==
  IF s.current = << >> THEN s
  ELSE [s EXCEPT !.args = Append(@, s.current), !.current = << >>]

\* Mutant: a space splits inside quotes too.
ScanBlind(s, ch) ==
  CASE ch = Quote -> [s EXCEPT !.inQuotes = ~@]
    [] ch = Space -> Flush(s)
    [] OTHER      -> [s EXCEPT !.current = Append(@, ch)]

Scan(s, ch) ==
  CASE ch = Quote                 -> [s EXCEPT !.inQuotes = ~@]
    [] ch = Space /\ ~s.inQuotes  -> Flush(s)
    [] OTHER                      -> [s EXCEPT !.current = Append(@, ch)]

\* strings.Join(args, " ")
Join(args) ==
  FoldLeft(LAMBDA text, arg : IF text = << >> THEN arg ELSE text \o <<Space>> \o arg,
           << >>, args)

\* Where "sh -c" is followed by something.
Scripts(args) ==
  {i \in 1..(Len(args) - 2) : args[i] = Sh /\ args[i + 1] = DashC}

\* Everything after the first "sh -c" becomes one argument.
Combine(args) ==
  IF Scripts(args) = {} THEN args
  ELSE LET i == Min(Scripts(args))
       IN  SubSeq(args, 1, i + 1) \o <<Join(SubSeq(args, i + 2, Len(args)))>>

splitArgs(line) == Combine(Flush(FoldLeft(Scan, Blank, line)).args)
------------------------------------------------------------------------------
(* The reference: where the line is cut, said without a scan. *)

Quotes(line, i) == {j \in 1..i : line[j] = Quote}

\* The spaces with an even number of quotes before them, and the two ends.
Cuts(line) ==
  {0, Len(line) + 1} \cup
  {i \in 1..Len(line) : line[i] = Space /\ Cardinality(Quotes(line, i)) % 2 = 0}

\* What stands between neighbouring cuts, without its quotes and when not empty.
Words(line) ==
  LET cuts    == SelectSeq([i \in 1..(Len(line) + 2) |-> i - 1],
                           LAMBDA i : i \in Cuts(line))
      Word(i) == SelectSeq(SubSeq(line, cuts[i] + 1, cuts[i + 1] - 1),
                           LAMBDA ch : ch # Quote)
  IN  SelectSeq([i \in 1..(Len(cuts) - 1) |-> Word(i)], LAMBDA w : w # << >>)

\* splitArgs cuts the line into its words and drops or reorders nothing; a word is
\* merged with its successors only behind an "sh -c", which is then followed by one
\* argument.
SplitAgrees(line) ==
  LET words == Words(line)
      args  == splitArgs(line)
  IN  /\ Join(args) = Join(words)
      /\ Scripts(words) = {} => args = words
      /\ \A i \in Scripts(words) : Len(args) <= i + 2
      /\ \A i \in 1..(Len(args) - 1) : args[i] = words[i]
==============================================================================
