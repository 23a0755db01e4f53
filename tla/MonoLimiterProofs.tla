-------------------------- MODULE MonoLimiterProofs --------------------------
(***************************************************************************)
(* The in-memory limiter's bounds for every rate, burst, ttl and wait for  *)
(* the mutex that satisfy MonoAssumption, on behaviours of any length.     *)
(***************************************************************************)
EXTENDS MonoLimiter, TLAPS

\* What the bucket holds with the time not yet turned into tokens, uncapped.
Raw == credit + now - last

\* A clock that has run for a whole wait has only readings that are times.
ClockOK == now >= Delay

\* The bucket never loses credit: it is not behind the ideal one.
NotBehind ==
  /\ ideal <= Full
  /\ known => ideal <= Raw
  /\ ~known => ideal = Full

\* The bucket invents less than a token and what the oldest reading is worth.
NotAhead == known => ideal >= Least(Full, Raw - (Interval - 1) - Delay)

\* What a denied caller was told is at most a wait before its token is due.
PromiseOK ==
  promise >= 0 =>
    /\ known
    /\ credit < Interval
    /\ promise >= last + Interval - credit - Delay

\* The inductive invariant.
IInv == TypeOK /\ ClockOK /\ NotBehind /\ NotAhead /\ PromiseOK

\* One token costs no more than the burst, and the ttl outlives a full bucket.
LEMMA FullFacts == Full \in Nat /\ Interval <= Full /\ Full <= TTL
<1>1. Burst * Interval \in Nat /\ Interval <= Burst * Interval
  BY MonoAssumption
<1> QED
  BY <1>1, MonoAssumption DEF Full

\* What a caller with reading t finds in the bucket, and what it leaves of the time.
LEMMA BucketFacts ==
  ASSUME TypeOK, ClockOK, NEW t \in Readings
  PROVE  /\ t \in Nat /\ t <= now /\ now <= t + Delay
         /\ Level(t) \in 0..Full
         /\ Last(t) \in 0..now
         /\ Last(t) <= t + Delay
         /\ Level(t) < Interval => known
<1>1. t \in Nat /\ t <= now /\ now <= t + Delay
  BY MonoAssumption DEF TypeOK, ClockOK, Readings
<1>2. Level(t) \in 0..Full /\ (Level(t) < Interval => known)
  BY <1>1, FullFacts, MonoAssumption DEF TypeOK, Level, Fresh, Refills, Least
<1>3. Last(t) \in 0..now
  BY <1>1 DEF TypeOK, Last
<1> QED
  BY <1>1, <1>2, <1>3, MonoAssumption DEF TypeOK

\* Turning the time up to reading t into tokens neither loses nor invents any: what
\* the bucket then holds is still bounded on both sides by the ideal one.
LEMMA RefillFacts ==
  ASSUME TypeOK, ClockOK, NotBehind, NotAhead, NEW t \in Readings
  PROVE  /\ ideal <= Level(t) + now - Last(t)
         /\ ideal >= Level(t) + now - Last(t) - (Interval - 1) - Delay
<1> USE FullFacts, MonoAssumption DEF TypeOK, NotBehind, NotAhead, Raw, Least
<1> HIDE DEF Full
<1>1. t \in Nat /\ t <= now /\ now <= t + Delay
  BY BucketFacts
<1>2. CASE Fresh(t)
  BY <1>1, <1>2 DEF Fresh, Level, Last
<1>3. CASE Refills(t)
  BY <1>1, <1>3 DEF Fresh, Refills, Level, Last
<1>4. CASE ~Fresh(t) /\ ~Refills(t)
  BY <1>1, <1>4 DEF Fresh, Refills, Level, Last
<1> QED
  BY <1>2, <1>3, <1>4

\* A bucket that does not exist is full.
LEMMA InitIInv == Init => IInv
<1> SUFFICES ASSUME Init PROVE IInv
  OBVIOUS
<1> USE FullFacts, MonoAssumption DEF Init
<1> HIDE DEF Full
<1>1. known \in BOOLEAN /\ ~known
  OBVIOUS
<1>2. TypeOK
  BY <1>1 DEF TypeOK
<1>3. ClockOK /\ NotBehind /\ NotAhead /\ PromiseOK
  BY <1>1 DEF ClockOK, NotBehind, NotAhead, PromiseOK
<1> QED
  BY <1>2, <1>3 DEF IInv

\* Every decision, tick and new window preserves the bounds.
LEMMA IInvStep == IInv /\ [Next]_vars => IInv'
<1> SUFFICES ASSUME IInv, [Next]_vars
             PROVE  IInv'
  OBVIOUS
<1> USE FullFacts, MonoAssumption
        DEF IInv, TypeOK, ClockOK, NotBehind, NotAhead, PromiseOK, Raw, Least, bucket
<1> HIDE DEF Full
<1>1. ASSUME NEW t \in Readings, Grant(t)
      PROVE  IInv'
  <2>1. /\ Level(t) \in 0..Full /\ Last(t) \in 0..now
        /\ ideal <= Level(t) + now - Last(t)
        /\ ideal >= Level(t) + now - Last(t) - (Interval - 1) - Delay
    BY BucketFacts, RefillFacts
  <2>2. /\ Level(t) >= Interval
        /\ known' = TRUE /\ credit' = Level(t) - Interval /\ last' = Last(t)
        /\ ideal' = ideal - Interval /\ granted' = granted + 1 /\ promise' = -1
        /\ UNCHANGED <<now, since>>
    BY <1>1 DEF Grant
  <2> QED
    BY <2>1, <2>2
<1>2. ASSUME NEW t \in Readings, Deny(t)
      PROVE  IInv'
  <2>1. /\ t \in Nat /\ Level(t) \in 0..Full /\ Last(t) \in 0..now /\ Last(t) <= t + Delay
        /\ ideal <= Level(t) + now - Last(t)
        /\ ideal >= Level(t) + now - Last(t) - (Interval - 1) - Delay
    BY BucketFacts, RefillFacts
  <2>2. /\ Level(t) < Interval
        /\ known' = TRUE /\ credit' = Level(t) /\ last' = Last(t)
        /\ promise' = t + (Interval - Level(t))
        /\ UNCHANGED <<now, ideal, since, granted>>
    BY <1>2 DEF Deny
  <2> QED
    BY <2>1, <2>2
<1>3. CASE Tick
  BY <1>3 DEF Tick
<1>4. CASE Observe
  BY <1>4 DEF Observe
<1>5. CASE UNCHANGED vars
  BY <1>5 DEF vars
<1> QED
  BY <1>1, <1>2, <1>3, <1>4, <1>5 DEF Next

\* The conjunction is an invariant.
LEMMA Inductive == Spec => []IInv
BY InitIInv, IInvStep, PTL DEF Spec

\* The bucket's state keeps its type: no decision takes a token that is not there.
THEOREM TypeCorrect == Spec => []TypeOK
BY Inductive, PTL DEF IInv

\* Allow follows the continuously refilled bucket, whatever the order of the readings.
THEOREM TracksCorrect == Spec => []TracksIdeal
<1>1. IInv => TracksIdeal
  <2> SUFFICES ASSUME IInv PROVE TracksIdeal
    OBVIOUS
  <2> USE FullFacts, MonoAssumption
          DEF IInv, TypeOK, NotBehind, NotAhead, Raw, Least, TracksIdeal
  <2> HIDE DEF Full
  <2>1. CASE Fresh(now)
    BY <2>1 DEF Fresh, Level
  <2>2. CASE Refills(now)
    BY <2>2 DEF Fresh, Refills, Level
  <2>3. CASE ~Fresh(now) /\ ~Refills(now)
    BY <2>3 DEF Fresh, Refills
  <2> QED
    BY <2>1, <2>2, <2>3
<1> QED
  BY <1>1, Inductive, PTL

\* A caller that was denied is served within an interval and a wait of its RetryAfter.
THEOREM DenialCorrect == Spec => []DenialIsBrief
<1>1. IInv => DenialIsBrief
  <2> SUFFICES ASSUME IInv, NEW t \in Readings,
                      promise >= 0, t >= promise + (Interval - 1) + Delay
               PROVE  Level(t) >= Interval
    BY DEF DenialIsBrief
  <2>1. t \in Nat /\ t - last >= Interval
    BY BucketFacts, MonoAssumption DEF IInv, TypeOK, PromiseOK
  <2> HIDE DEF Full
  <2> QED
    BY <2>1, FullFacts, MonoAssumption DEF IInv, TypeOK, Level, Fresh, Refills, Least
<1> QED
  BY <1>1, Inductive, PTL

\* Every decision of Allow is a step of the leaky bucket or leaves it alone.
THEOREM ImplementsBucket == Spec => Implements
<1> USE FullFacts, MonoAssumption
<1> HIDE DEF Full
<1>1. Init => Bucket!Init
  BY DEF Init, Bucket!Init
<1>2. IInv => ideal + (Interval - 1) + Delay >= 0
  <2> SUFFICES ASSUME IInv PROVE ideal + (Interval - 1) + Delay >= 0
    OBVIOUS
  <2> QED
    BY DEF IInv, TypeOK, NotBehind, NotAhead, Raw, Least
<1>3. IInv' => (ideal + (Interval - 1) + Delay >= 0)'
  BY <1>2, PTL
<1>4. IInv /\ IInv' /\ [Next]_vars => [Bucket!Next]_(Bucket!vars)
  <2> SUFFICES ASSUME IInv, IInv', [Next]_vars
               PROVE  [Bucket!Next]_(Bucket!vars)
    OBVIOUS
  <2>1. ASSUME NEW t \in Readings, Grant(t)
        PROVE  Bucket!Admit
    <3>1. known' = TRUE /\ ideal' = ideal - Interval /\ granted' = granted + 1
          /\ UNCHANGED <<now, since>>
      BY <2>1 DEF Grant
    <3>2. ideal \in Int
      BY DEF IInv, TypeOK
    <3>3. ideal' + (Interval - 1) + Delay >= 0
      BY <1>3
    <3>4. Full - ideal' \in ((Full - ideal) + Interval)..(Full + (Interval - 1) + Delay)
      BY <3>1, <3>2, <3>3
    <3> QED
      BY <3>1, <3>4 DEF Bucket!Admit
  <2>2. ASSUME NEW t \in Readings, Deny(t)
        PROVE  UNCHANGED Bucket!vars
    BY <2>2 DEF Deny, Bucket!vars
  <2>3. ASSUME Tick PROVE Bucket!Leak
    BY <2>3 DEF Tick, bucket, Bucket!Leak, Least, IInv, TypeOK, NotBehind
  <2>4. ASSUME Observe PROVE Bucket!Observe
    BY <2>4 DEF Observe, Bucket!Observe
  <2>5. CASE UNCHANGED vars
    BY <2>5 DEF vars, Bucket!vars
  <2> QED
    BY <2>1, <2>2, <2>3, <2>4, <2>5 DEF Next, Bucket!Next
<1> QED
  BY <1>1, <1>4, Inductive, PTL DEF Spec, Implements, Bucket!Spec

\* What was granted in the window is still missing from the ideal bucket or has been
\* refilled since the window began.
Accounted == granted * Interval <= (now - since) + (Full - ideal)

\* The rate of the connections that Allow grants, in any window: what a leaky bucket
\* promises, for the capacity of this one.
THEOREM RateCorrect == Spec => []Bucket!RateBound
<1> DEFINE Charge == granted * Interval
<1> USE FullFacts, MonoAssumption
<1>1. Init => Accounted
  BY DEF Init, Accounted
<1>2. IInv /\ Accounted /\ [Next]_vars => Accounted'
  <2> SUFFICES ASSUME IInv, Accounted, [Next]_vars
               PROVE  Accounted'
    OBVIOUS
  <2> HIDE DEF Full
  <2>1. /\ now \in Nat /\ since \in 0..now /\ ideal \in Int /\ ideal <= Full
        /\ Full \in Nat /\ Interval \in Nat /\ granted \in Nat
    BY DEF IInv, TypeOK, NotBehind
  <2>2. Charge \in Nat /\ Charge <= (now - since) + (Full - ideal)
    BY <2>1 DEF Accounted
  <2>3. SUFFICES Charge' <= (now' - since') + (Full - ideal')
    BY DEF Accounted
  <2>4. ASSUME NEW t \in Readings, Grant(t)
        PROVE  Charge' <= (now' - since') + (Full - ideal')
    <3>1. Charge' = Charge + Interval
      BY <2>1, <2>4 DEF Grant
    <3>2. ideal' = ideal - Interval /\ UNCHANGED <<now, since>>
      BY <2>4 DEF Grant
    <3> HIDE DEF Charge
    <3> QED
      BY <2>1, <2>2, <3>1, <3>2
  <2>5. CASE Tick
    <3>1. Charge' = Charge
      BY <2>5 DEF Tick
    <3> HIDE DEF Charge
    <3> QED
      BY <2>1, <2>2, <2>5, <3>1 DEF Tick, Least
  <2>6. CASE Observe
    <3>1. Charge' = 0
      BY <2>1, <2>6 DEF Observe
    <3> HIDE DEF Charge
    <3> QED
      BY <2>1, <2>6, <3>1 DEF Observe
  <2>7. CASE (\E t \in Readings : Deny(t)) \/ UNCHANGED vars
    <3>1. Charge' = Charge /\ UNCHANGED <<now, since, ideal>>
      BY <2>7 DEF Deny, vars
    <3> HIDE DEF Charge
    <3> QED
      BY <2>2, <3>1
  <2> QED
    BY <2>4, <2>5, <2>6, <2>7 DEF Next
<1>3. IInv /\ Accounted => Bucket!RateBound
  <2> SUFFICES ASSUME IInv, Accounted
               PROVE  Bucket!RateBound
    OBVIOUS
  <2> HIDE DEF Full
  <2>1. Charge \in Int /\ Charge <= (now - since) + (Full - ideal)
    BY DEF Accounted, IInv, TypeOK
  <2> HIDE DEF Charge
  <2>2. Full - ideal <= Full + (Interval - 1) + Delay
    BY DEF IInv, TypeOK, NotBehind, NotAhead, Raw, Least
  <2>3. Charge <= (now - since) + (Full + (Interval - 1) + Delay)
    BY <2>1, <2>2 DEF IInv, TypeOK
  <2> QED
    BY <2>3 DEF Bucket!RateBound, Charge
<1> QED
  BY <1>1, <1>2, <1>3, Inductive, PTL DEF Spec
==============================================================================
