----------------------------- MODULE MCAdmission -----------------------------
(* Four connections, a queue of one and one worker: the queue fills while the *)
(* run loop waits for the slot.                                               *)
EXTENDS Admission

CONSTANTS c1, c2, c3, c4

FourConns == {c1, c2, c3, c4}
==============================================================================
