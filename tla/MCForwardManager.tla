--------------------------- MODULE MCForwardManager ---------------------------
(* Three concurrent Forward calls on one tunnel.                             *)
EXTENDS ForwardManager

CONSTANTS f1, f2, f3

ThreeCalls == {f1, f2, f3}
==============================================================================
