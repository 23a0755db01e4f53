------------------------------ MODULE MCSession ------------------------------
(* Small instances of Session: one in which the client sends up to one       *)
(* request more of every kind than the code can always absorb, and one in    *)
(* which it sends a resize more than resizeCh holds and nothing else.        *)
EXTENDS Session

OverBudget ==
  [k \in Kinds |-> IF k = "resize" THEN 3 ELSE IF k = "other" THEN 1 ELSE 2]

ResizeBudget == [k \in Kinds |-> IF k = "resize" THEN 3 ELSE 0]
==============================================================================
