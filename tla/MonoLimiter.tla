----------------------------- MODULE MonoLimiter -----------------------------
(***************************************************************************)
(* The rate limiter of the dev profile for one key: the token bucket of    *)
(* internal/ratelimit/mono_limiter.go.  Allow reads the clock, waits for   *)
(* the mutex, and decides with a reading up to Delay old.  The program has *)
(* one caller, the acceptor goroutine; the mutex allows any number, whose  *)
(* readings may reach the bucket out of order, and so does the module.     *)
(*                                                                         *)
(* Tokens are counted in units of time, one token being Interval units, so *)
(* that the fractions of a token the code keeps as a float are integers.   *)
(***************************************************************************)
EXTENDS Integers

CONSTANTS
  Interval,  \* 1 / rate
  Burst,     \* limit.burst
  TTL,       \* limit.ttl
  Delay,     \* bound on the wait for the mutex
  Horizon    \* bound on time

\* The defaults are rate 1.2, burst 12, ttl 30 s.
ASSUME MonoAssumption ==
  /\ Interval \in Nat \ {0}
  /\ Burst \in Nat \ {0}
  /\ TTL \in Nat
  /\ Delay \in Nat
  /\ Horizon \in Nat
  /\ TTL >= Burst * Interval

Full == Burst * Interval

VARIABLES
  now,      \* the clock
  known,    \* the key has a bucket
  credit,   \* bucket.tokens, in units of time
  last,     \* bucket.last
  ideal,    \* history: the level of a bucket that is refilled continuously
  since,    \* history: when the observed window began
  granted,  \* history: connections granted in the window
  promise   \* history: when the last denial told its caller to come back, or -1

bucket == <<known, credit, last>>
vars   == <<now, known, credit, last, ideal, since, granted, promise>>

Init ==
  /\ now = Delay
  /\ known = FALSE
  /\ credit = 0
  /\ last = 0
  /\ ideal = Full
  /\ since = Delay
  /\ granted = 0
  /\ promise = -1

Least(a, b) == IF a <= b THEN a ELSE b

\* The readings a caller may decide with once it holds the mutex.
Readings == (now - Delay)..now

\* Allow up to the refill: a new or expired bucket is full, and time is turned into
\* tokens only when it is worth at least one.
Fresh(t) == ~known \/ t - last > TTL

\* Mutant: the token that is due at this very moment is not refilled.
RefillsLate(t) == ~Fresh(t) /\ t - last > Interval

Refills(t) == ~Fresh(t) /\ t - last >= Interval

\* Mutant: time worth less than a token is counted at every call.
LevelAnyTime(t) ==
  IF Fresh(t) THEN Full ELSE Least(credit + t - last, Full)

Level(t) ==
  IF Fresh(t) THEN Full
  ELSE IF Refills(t) THEN Least(credit + t - last, Full)
  ELSE credit

\* Mutant: last moves although the elapsed time bought nothing.
LastAlways(t) == t

Last(t) == IF Fresh(t) \/ Refills(t) THEN t ELSE last

Grant(t) ==
  /\ Level(t) >= Interval
  /\ known' = TRUE
  /\ credit' = Level(t) - Interval
  /\ last' = Last(t)
  /\ ideal' = ideal - Interval
  /\ granted' = granted + 1
  /\ promise' = -1
  /\ UNCHANGED <<now, since>>

\* RetryAfter is the time the missing part of the token is worth.
Deny(t) ==
  /\ Level(t) < Interval
  /\ known' = TRUE
  /\ credit' = Level(t)
  /\ last' = Last(t)
  /\ promise' = t + (Interval - Level(t))
  /\ UNCHANGED <<now, ideal, since, granted>>

Tick ==
  /\ now < Horizon
  /\ now' = now + 1
  /\ ideal' = Least(ideal + 1, Full)
  /\ UNCHANGED <<bucket, since, granted, promise>>

\* The observer starts a new window; the limiter does not see it.
Observe ==
  /\ since' = now
  /\ granted' = 0
  /\ UNCHANGED <<now, bucket, ideal, promise>>

Next ==
  \/ \E t \in Readings : Grant(t)
  \/ \E t \in Readings : Deny(t)
  \/ Tick
  \/ Observe

Spec == Init /\ [][Next]_vars
------------------------------------------------------------------------------
(* Properties. *)

TypeOK ==
  /\ now \in Nat
  /\ known \in BOOLEAN
  /\ credit \in 0..Full
  /\ last \in 0..now
  /\ ideal \in Int
  /\ since \in 0..now
  /\ granted \in Nat
  /\ promise \in Nat \cup {-1}

\* Refilling in steps of a token, with readings out of order, neither loses nor
\* invents credit: what the bucket holds, with the time not yet turned into tokens,
\* is never behind a bucket that is refilled continuously, and ahead of it by less
\* than one token and the wait for the mutex.
TracksIdeal ==
  LET held == IF Fresh(now) \/ Refills(now) THEN Level(now) ELSE credit + now - last
  IN  held - ideal \in 0..(Interval - 1 + Delay)

\* RetryAfter comes from the missing part of a token while the refill waits for a
\* whole one: a caller that comes back may be denied again, but only within one
\* interval (and one wait for the mutex) of the time it was told.
DenialIsBrief ==
  \A t \in Readings :
    promise >= 0 /\ t >= promise + (Interval - 1) + Delay => Level(t) >= Interval

\* The bucket of time the granted connections fill.
Bucket == INSTANCE LeakyBucket WITH
  Cost     <- Interval,
  Capacity <- Full + (Interval - 1) + Delay,
  clock    <- now,
  level    <- Full - ideal

\* The token bucket is a leaky bucket one token, less a unit, larger than its burst.
Implements == Bucket!Spec
==============================================================================
