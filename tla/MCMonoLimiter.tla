---------------------------- MODULE MCMonoLimiter ----------------------------
(* Intervals of three units leave room for fractions of a token, a wait of   *)
(* two for the mutex for readings that are out of order.                      *)
EXTENDS MonoLimiter
==============================================================================
