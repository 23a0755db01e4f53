----------------------------- MODULE RedisLimiter -----------------------------
(***************************************************************************)
(* The pre-auth rate limiter of the prod profile for one key: the Allow of *)
(* internal/ratelimit/redis_limiter.go, called by several replicas, and    *)
(* the script gcra.lua that Redis runs atomically on the key's entry.      *)
(*                                                                         *)
(* Time is counted in units that divide the interval between two tokens.   *)
(* A caller reads its own clock before the script runs: that reading is    *)
(* off Redis' clock by at most Skew (clock difference and latency).  The   *)
(* entry expires on Redis' clock.                                          *)
(***************************************************************************)
EXTENDS Integers

CONSTANTS
  Interval,  \* 1e9 / rate, the time one connection costs
  Burst,     \* limit.burst
  TTL,       \* limit.ttl, the PX of the SET
  Skew,      \* bound on |a caller's reading - Redis' clock|
  Horizon,   \* bound on time
  MaxOpened  \* bound on the decisions taken without an answer of Redis

\* The defaults are rate 1.2, burst 12, ttl 30 s: 30 s covers 10 s of debt and 20 s
\* of skew.
ASSUME LimiterAssumption ==
  /\ Interval \in Nat \ {0}
  /\ Burst \in Nat \ {0}
  /\ TTL \in Nat
  /\ Skew \in Nat
  /\ Horizon \in Nat
  /\ MaxOpened \in Nat
  /\ TTL >= Burst * Interval + 2 * Skew

VARIABLES
  now,      \* Redis' clock
  tat,      \* the value last stored: the theoretical arrival time
  expires,  \* when the stored value expires; nothing is stored at first
  since,    \* history: when the observed window began
  granted,  \* history: connections the script granted in the window
  opened,   \* history: connections allowed because no answer came
  promise   \* history: when the last denial told its caller to come back, or -1

window == <<since, granted, opened>>
vars   == <<now, tat, expires, since, granted, opened, promise>>

Init ==
  /\ now = Skew
  /\ tat = 0
  /\ expires = 0
  /\ since = Skew
  /\ granted = 0
  /\ opened = 0
  /\ promise = -1

Later(a, b) == IF a >= b THEN a ELSE b

\* The readings a caller may pass as ARGV[3].
Clocks == (now - Skew)..(now + Skew)

\* GET: an expired entry reads as none, and none reads as the caller's clock.
Stored(t) == IF now < expires THEN tat ELSE t

\* Mutant: the debt is forgotten, the next arrival counts from the caller's clock.
NewTatNoDebt(t) == t + Interval

NewTat(t) == Later(Stored(t), t) + Interval

\* Mutant: one connection more than the burst.
AllowAtLoose(t) == NewTat(t) - (Burst + 1) * Interval

AllowAt(t) == NewTat(t) - Burst * Interval

\* Mutant: the entry lives as long as one token, not as long as the debt.
GrantShortTTL(t) ==
  /\ t >= AllowAt(t)
  /\ tat' = NewTat(t)
  /\ expires' = now + Interval
  /\ granted' = granted + 1
  /\ promise' = -1
  /\ UNCHANGED <<now, since, opened>>

\* The script grants and stores, whether or not its answer arrives.
Grant(t) ==
  /\ t >= AllowAt(t)
  /\ tat' = NewTat(t)
  /\ expires' = now + TTL
  /\ granted' = granted + 1
  /\ promise' = -1
  /\ UNCHANGED <<now, since, opened>>

\* Mutant: the wait is measured from the stored value and forgets the new token.
DenyShort(t) ==
  /\ t < AllowAt(t)
  /\ promise' = AllowAt(t) - Interval
  /\ UNCHANGED <<now, tat, expires, window>>

\* The script denies and nothing is stored; RetryAfter = AllowAt(t) - t.
Deny(t) ==
  /\ t < AllowAt(t)
  /\ promise' = AllowAt(t)
  /\ UNCHANGED <<now, tat, expires, window>>

\* Redis fails before the script ran, or its denial is lost: the caller allows.
FailOpen ==
  /\ opened < MaxOpened
  /\ opened' = opened + 1
  /\ UNCHANGED <<now, tat, expires, since, granted, promise>>

Tick ==
  /\ now < Horizon
  /\ now' = now + 1
  /\ UNCHANGED <<tat, expires, window, promise>>

\* The observer starts a new window; the limiter does not see it.
Observe ==
  /\ since' = now
  /\ granted' = 0
  /\ opened' = 0
  /\ UNCHANGED <<now, tat, expires, promise>>

Next ==
  \/ \E t \in Clocks : Grant(t)
  \/ \E t \in Clocks : Deny(t)
  \/ FailOpen
  \/ Tick
  \/ Observe

Spec == Init /\ [][Next]_vars
------------------------------------------------------------------------------
(* Properties. *)

TypeOK ==
  /\ now \in Nat
  /\ tat \in Nat
  /\ expires \in Nat
  /\ since \in Skew..now
  /\ granted \in Nat
  /\ opened \in 0..MaxOpened
  /\ promise \in Nat \cup {-1}

\* In a window of any length, begun at any moment, the script grants at most one
\* connection per interval beyond the burst; clocks that disagree add two skews of
\* time, an entry that expires adds nothing.
RateBound ==
  granted * Interval <= (now - since) + Burst * Interval + 2 * Skew

\* A caller denied earlier that comes back when it was told to, with nothing granted
\* in between, is granted: RetryAfter is long enough.
RetryAfterSuffices ==
  promise >= 0 /\ promise \in Clocks => promise >= AllowAt(promise)

\* No step lowers the stored arrival time: neither a slow clock nor an expired entry
\* gives a debt back.
DebtIsKept == [][tat' >= tat]_vars

\* The bucket the stored arrival time stands for, as the slowest clock sees it.
Bucket == INSTANCE LeakyBucket WITH
  Cost     <- Interval,
  Capacity <- Burst * Interval + 2 * Skew,
  clock    <- now,
  level    <- Later(0, tat + Skew - now)

\* The script, called from replicas whose clocks disagree and with an entry that
\* expires, is a leaky bucket: no denial, lost answer or expiry empties it.
Implements == Bucket!Spec
==============================================================================
