----------------------------- MODULE LeakyBucket -----------------------------
(***************************************************************************)
(* What a pre-auth rate limiter promises for one key, whatever its         *)
(* algorithm: every connection it grants pours Cost units of time into a   *)
(* bucket that holds Capacity, and the bucket leaks one unit per unit of   *)
(* time.  RedisLimiter and MonoLimiter implement it.                       *)
(***************************************************************************)
EXTENDS Integers

CONSTANTS
  Cost,     \* the time one connection is worth
  Capacity  \* the time the bucket holds

VARIABLES
  clock,
  level,    \* what is in the bucket
  since,    \* when the observed window began
  granted   \* connections granted in the window

vars == <<clock, level, since, granted>>

Init ==
  /\ clock \in Nat
  /\ level = 0
  /\ since = clock
  /\ granted = 0

\* A connection may cost more than its share, never less.
Admit ==
  /\ level' \in (level + Cost)..Capacity
  /\ granted' = granted + 1
  /\ UNCHANGED <<clock, since>>

Leak ==
  /\ clock' = clock + 1
  /\ level' = IF level > 0 THEN level - 1 ELSE 0
  /\ UNCHANGED <<since, granted>>

\* The observer starts a new window.
Observe ==
  /\ since' = clock
  /\ granted' = 0
  /\ UNCHANGED <<clock, level>>

Next == Admit \/ Leak \/ Observe

Spec == Init /\ [][Next]_vars
------------------------------------------------------------------------------
\* In a window of any length, begun at any moment, the connections granted are worth
\* no more than the length of the window and one full bucket.
RateBound == granted * Cost <= (clock - since) + Capacity

TypeOK ==
  /\ clock \in Nat
  /\ level \in 0..Capacity
  /\ since \in 0..clock
  /\ granted \in Nat

\* What was granted in the window is still in the bucket or has leaked since the
\* window began.
Accounted == granted * Cost <= (clock - since) + level
==============================================================================
