-------------------------- MODULE RedisLimiterProofs --------------------------
(***************************************************************************)
(* The limiter's bounds for every rate, burst, skew and ttl that satisfy   *)
(* LimiterAssumption, on behaviours of any length.                         *)
(***************************************************************************)
EXTENDS RedisLimiter, RateKey, SequenceTheorems, TLAPS

Debt == Burst * Interval   \* burst_offset: the debt that is tolerated

\* An entry outlives the debt it records: once it is gone, no caller's clock can be
\* behind the arrival time it held.
MemoryOK ==
  /\ expires <= now + TTL
  /\ tat = 0 \/ tat + TTL <= expires + Skew + Debt

\* Every grant of the window pushed the arrival time by an interval.
ChargeOK == granted > 0 => granted * Interval <= tat - since + Skew

\* What a denied caller was told is not before the stored debt is paid.
PromiseOK == promise >= 0 => promise >= tat + Interval - Debt

\* The inductive invariant.
IInv == TypeOK /\ MemoryOK /\ ChargeOK /\ PromiseOK

\* One token costs no more than the burst allows.
LEMMA DebtFacts == Debt \in Nat /\ Interval <= Debt /\ TTL >= Debt + 2 * Skew
<1>1. Burst * Interval \in Nat /\ Interval <= Burst * Interval
  BY LimiterAssumption
<1> QED
  BY <1>1, LimiterAssumption DEF Debt

\* One grant more charges one interval more.
LEMMA Charge ==
  ASSUME NEW n \in Nat
  PROVE  n * Interval \in Nat /\ (n + 1) * Interval = n * Interval + Interval
BY LimiterAssumption

\* The new arrival time is at least an interval after the stored one, expired or not,
\* and after the caller's clock.
LEMMA NewTatFacts ==
  ASSUME TypeOK, MemoryOK, NEW t \in Clocks
  PROVE  /\ t \in Nat
         /\ NewTat(t) \in Nat
         /\ NewTat(t) >= tat + Interval
         /\ NewTat(t) >= t + Interval
         /\ AllowAt(t) = NewTat(t) - Debt
         /\ now >= expires => NewTat(t) = t + Interval
<1>1. t \in Nat /\ t >= now - Skew
  BY LimiterAssumption DEF TypeOK, Clocks
<1>2. now >= expires => t >= tat
  BY <1>1, DebtFacts, LimiterAssumption DEF TypeOK, MemoryOK
<1> QED
  BY <1>1, <1>2, LimiterAssumption DEF TypeOK, NewTat, Later, Stored, AllowAt, Debt

\* A window begins within the bounds.
LEMMA InitIInv == Init => IInv
BY LimiterAssumption, DebtFacts
   DEF Init, IInv, TypeOK, MemoryOK, ChargeOK, PromiseOK

\* Every decision, tick and new window preserves the bounds.
LEMMA IInvStep == IInv /\ [Next]_vars => IInv'
<1> SUFFICES ASSUME IInv, [Next]_vars
             PROVE  IInv'
  OBVIOUS
<1> USE LimiterAssumption, DebtFacts
        DEF IInv, TypeOK, MemoryOK, ChargeOK, PromiseOK, window
<1>1. ASSUME NEW t \in Clocks, Grant(t)
      PROVE  IInv'
  <2>1. /\ t \in Nat /\ NewTat(t) \in Nat
        /\ NewTat(t) >= tat + Interval /\ NewTat(t) >= t + Interval
        /\ NewTat(t) <= t + Debt
    BY <1>1, NewTatFacts DEF Grant
  <2>2. now - Skew <= t /\ t <= now + Skew
    BY DEF Clocks
  <2>3. /\ tat' = NewTat(t) /\ expires' = now + TTL /\ granted' = granted + 1
        /\ promise' = -1 /\ UNCHANGED <<now, since, opened>>
    BY <1>1 DEF Grant
  <2>4. TypeOK' /\ MemoryOK' /\ PromiseOK'
    BY <2>1, <2>2, <2>3
  <2>5. ChargeOK'
    <3>1. granted' * Interval = granted * Interval + Interval /\ granted * Interval \in Nat
      BY <2>3, Charge
    <3>2. CASE granted = 0
      <4>1. granted * Interval = 0
        BY <3>2
      <4> QED
        BY <2>1, <2>2, <2>3, <3>1, <4>1
    <3>3. CASE granted > 0
      BY <2>1, <2>3, <3>1, <3>3
    <3> QED
      BY <3>2, <3>3
  <2> QED
    BY <2>4, <2>5
<1>2. ASSUME NEW t \in Clocks, Deny(t)
      PROVE  IInv'
  <2>1. /\ t \in Nat /\ NewTat(t) \in Nat /\ NewTat(t) >= tat + Interval
        /\ AllowAt(t) = NewTat(t) - Debt
    BY NewTatFacts
  <2>2. t < AllowAt(t) /\ promise' = AllowAt(t) /\ UNCHANGED <<now, tat, expires, window>>
    BY <1>2 DEF Deny
  <2> QED
    BY <2>1, <2>2
<1>3. CASE FailOpen
  BY <1>3 DEF FailOpen
<1>4. CASE Tick
  BY <1>4 DEF Tick
<1>5. CASE Observe
  BY <1>5 DEF Observe
<1>6. CASE UNCHANGED vars
  BY <1>6 DEF vars
<1> QED
  BY <1>1, <1>2, <1>3, <1>4, <1>5, <1>6 DEF Next

\* The conjunction is an invariant.
LEMMA Inductive == Spec => []IInv
BY InitIInv, IInvStep, PTL DEF Spec

\* The limiter's state keeps its type for every parameter.
THEOREM TypeCorrect == Spec => []TypeOK
BY Inductive, PTL DEF IInv

\* The rate holds in every window, for every burst, skew and sufficient ttl.
THEOREM RateCorrect == Spec => []RateBound
<1>1. IInv => RateBound
  <2> SUFFICES ASSUME IInv PROVE RateBound
    OBVIOUS
  <2>1. granted * Interval \in Nat
    BY Charge DEF IInv, TypeOK
  <2>2. CASE granted = 0
    <3>1. granted * Interval = 0
      BY <2>2, LimiterAssumption
    <3> QED
      BY <3>1, DebtFacts, LimiterAssumption DEF IInv, TypeOK, RateBound, Debt
  <2>3. CASE granted > 0
    <3>1. granted * Interval <= now - since + Debt + 2 * Skew
      BY <2>1, <2>3, DebtFacts, LimiterAssumption
         DEF IInv, TypeOK, MemoryOK, ChargeOK
    <3> QED
      BY <3>1 DEF RateBound, Debt
  <2> QED
    BY <2>2, <2>3 DEF IInv, TypeOK
<1> QED
  BY <1>1, Inductive, PTL

\* The RetryAfter of a denial is long enough.
THEOREM RetryCorrect == Spec => []RetryAfterSuffices
<1>1. IInv => RetryAfterSuffices
  BY DebtFacts, LimiterAssumption
     DEF IInv, TypeOK, MemoryOK, PromiseOK, RetryAfterSuffices, Clocks, AllowAt,
         NewTat, Later, Stored, Debt
<1> QED
  BY <1>1, Inductive, PTL

\* No step of any caller, and no expiry, gives a debt back.
THEOREM DebtCorrect == Spec => DebtIsKept
<1>1. IInv /\ [Next]_vars => [tat' >= tat]_vars
  <2> SUFFICES ASSUME IInv, Next PROVE tat' >= tat
    OBVIOUS
  <2>1. ASSUME NEW t \in Clocks, Grant(t)
        PROVE  tat' >= tat
    BY <2>1, NewTatFacts, LimiterAssumption DEF IInv, TypeOK, Grant
  <2> QED
    BY <2>1 DEF Next, Deny, FailOpen, Tick, Observe, IInv, TypeOK
<1> QED
  BY <1>1, Inductive, PTL DEF Spec, DebtIsKept

\* The script implements the leaky bucket: every step of any caller is a step of the
\* bucket or leaves it alone.
THEOREM ImplementsBucket == Spec => Implements
<1> DEFINE Level == Later(0, tat + Skew - now)
<1>1. Init => Bucket!Init
  BY LimiterAssumption DEF Init, Bucket!Init, Later
<1>2. IInv /\ [Next]_vars => [Bucket!Next]_(Bucket!vars)
  <2> SUFFICES ASSUME IInv, [Next]_vars
               PROVE  [Bucket!Next]_(Bucket!vars)
    OBVIOUS
  <2>1. ASSUME NEW t \in Clocks, Grant(t)
        PROVE  Bucket!Admit
    <3>1. /\ t \in Nat /\ now - Skew <= t /\ t <= now + Skew
          /\ NewTat(t) \in Nat
          /\ NewTat(t) >= tat + Interval /\ NewTat(t) >= t + Interval
          /\ NewTat(t) <= t + Debt
      BY <2>1, NewTatFacts, DebtFacts, LimiterAssumption
         DEF Clocks, Grant, IInv, TypeOK
    <3>2. tat' = NewTat(t) /\ granted' = granted + 1 /\ UNCHANGED <<now, since>>
      BY <2>1 DEF Grant
    <3>3. Level + Interval <= Level' /\ Level' <= Debt + 2 * Skew
      BY <3>1, <3>2, DebtFacts, LimiterAssumption DEF Later, IInv, TypeOK
    <3>4. Level \in Int /\ Level' \in Int
      BY <3>1, <3>2, LimiterAssumption DEF Later, IInv, TypeOK
    <3>5. Level' \in (Level + Interval)..(Debt + 2 * Skew)
      BY <3>3, <3>4, DebtFacts, LimiterAssumption
    <3> QED
      BY <3>2, <3>5 DEF Bucket!Admit, Debt
  <2>2. ASSUME NEW t \in Clocks, Deny(t)
        PROVE  UNCHANGED Bucket!vars
    BY <2>2 DEF Deny, window, Bucket!vars, Later
  <2>3. CASE FailOpen
    BY <2>3 DEF FailOpen, Bucket!vars, Later
  <2>4. ASSUME Tick PROVE Bucket!Leak
    BY <2>4, LimiterAssumption DEF Tick, window, Bucket!Leak, Later, IInv, TypeOK
  <2>5. ASSUME Observe PROVE Bucket!Observe
    BY <2>5 DEF Observe, Bucket!Observe, Later
  <2>6. CASE UNCHANGED vars
    BY <2>6 DEF vars, Bucket!vars, Later
  <2> QED
    BY <2>1, <2>2, <2>3, <2>4, <2>5, <2>6 DEF Next, Bucket!Next
<1> QED
  BY <1>1, <1>2, Inductive, PTL DEF Spec, Implements, Bucket!Spec
------------------------------------------------------------------------------
(***************************************************************************)
(* The key whose connections the limiter counts (RateKey), for addresses   *)
(* of any words; a 32-bit word is one of them.                             *)
(***************************************************************************)
Address ==
  [net : {"tcp", "ip", "other"}, parses : BOOLEAN, ip : Seq(Nat)]

\* What is not empty is a key.
LEMMA NotNil ==
  /\ \A w : <<w>> # << >>
  /\ \A v, w : <<v, w, 0, 0>> # << >>
OBVIOUS

\* The four kinds of address, with the key and the IPv4 host of each.
LEMMA AddressKinds ==
  ASSUME NEW ip \in Seq(Nat)
  PROVE  \/ /\ Len(ip) = 1
            /\ normalizeIP(ip) = <<ip[1]>> /\ Host4(ip) = ip[1] /\ ip[1] \in Nat
         \/ /\ Len(ip) = 4 /\ IsMapped(ip)
            /\ normalizeIP(ip) = <<ip[4]>> /\ Host4(ip) = ip[4] /\ ip[4] \in Nat
         \/ /\ Len(ip) = 4 /\ ~IsMapped(ip)
            /\ normalizeIP(ip) = <<ip[1], ip[2], 0, 0>> /\ Host4(ip) = -1
            /\ ip[1] \in Nat /\ ip[2] \in Nat
         \/ /\ Len(ip) \notin {1, 4}
            /\ normalizeIP(ip) = NoIP
<1>1. CASE Len(ip) = 1
  <2>1. ip = <<ip[1]>> /\ ip # << >> /\ ip[1] \in Nat
    BY <1>1
  <2>2. To4(ip) = ip
    BY <1>1 DEF To4, IsMapped
  <2> QED
    BY <1>1, <2>1, <2>2 DEF normalizeIP, Host4, NoIP
<1>2. CASE Len(ip) = 4
  <2>1. ip[1] \in Nat /\ ip[2] \in Nat /\ ip[4] \in Nat
    <3>1. 1 \in 1..Len(ip) /\ 2 \in 1..Len(ip) /\ 4 \in 1..Len(ip)
      BY <1>2
    <3> QED
      BY <3>1, ElementOfSeq
  <2>2. CASE IsMapped(ip)
    <3>1. To4(ip) = <<ip[4]>>
      BY <1>2, <2>2 DEF To4
    <3>2. normalizeIP(ip) = <<ip[4]>>
      BY <1>2, <3>1, NotNil DEF normalizeIP, NoIP
    <3> QED
      BY <1>2, <2>1, <2>2, <3>2 DEF Host4
  <2>3. CASE ~IsMapped(ip)
    <3>1. To4(ip) = NoIP
      BY <1>2, <2>3 DEF To4
    <3> QED
      BY <1>2, <2>1, <2>3, <3>1 DEF normalizeIP, Host4
  <2> QED
    BY <2>2, <2>3
<1>3. CASE Len(ip) \notin {1, 4}
  <2>1. To4(ip) = NoIP
    BY <1>3 DEF To4, IsMapped
  <2> QED
    BY <1>3, <2>1 DEF normalizeIP
<1> QED
  BY <1>1, <1>2, <1>3

\* The /64 of an IPv6 address is its first two words.
LEMMA Slash64 ==
  ASSUME NEW p \in Seq(Nat), NEW q \in Seq(Nat), Len(p) = 4, Len(q) = 4
  PROVE  SubSeq(p, 1, 2) = SubSeq(q, 1, 2) <=> p[1] = q[1] /\ p[2] = q[2]
<1>1. ASSUME NEW s \in Seq(Nat), Len(s) = 4
      PROVE  /\ SubSeq(s, 1, 2) \in Seq(Nat) /\ Len(SubSeq(s, 1, 2)) = 2
             /\ SubSeq(s, 1, 2)[1] = s[1] /\ SubSeq(s, 1, 2)[2] = s[2]
  <2>1. \A i \in 1..2 : i \in 1..Len(s)
    BY <1>1
  <2>2. \A i \in 1..2 : s[i] \in Nat
    BY <2>1, ElementOfSeq
  <2> QED
    BY <2>2, SubSeqProperties
<1>2. p[1] = q[1] /\ p[2] = q[2] => SubSeq(p, 1, 2) = SubSeq(q, 1, 2)
  BY <1>1, SeqEqual
<1> QED
  BY <1>1, <1>2

\* Two addresses with a key have the same one exactly when the same client is behind
\* them.
LEMMA KeyIsClient ==
  ASSUME NEW p \in Seq(Nat), NEW q \in Seq(Nat),
         normalizeIP(p) # NoIP, normalizeIP(q) # NoIP
  PROVE  normalizeIP(p) = normalizeIP(q) <=> SameClient(p, q)
<1> DEFINE Four(s, w) == normalizeIP(s) = <<w>> /\ Host4(s) = w /\ w \in Nat
           Six(s) == /\ Len(s) = 4 /\ s[1] \in Nat /\ s[2] \in Nat
                     /\ normalizeIP(s) = <<s[1], s[2], 0, 0>> /\ Host4(s) = -1
<1>1. /\ (\E w \in Nat : Four(p, w)) \/ Six(p)
      /\ (\E w \in Nat : Four(q, w)) \/ Six(q)
  BY AddressKinds
<1>2. ASSUME NEW v \in Nat, NEW w \in Nat, Four(p, v), Four(q, w)
      PROVE  normalizeIP(p) = normalizeIP(q) <=> SameClient(p, q)
  BY <1>2 DEF SameClient
<1>3. ASSUME NEW s \in Seq(Nat), NEW t \in Seq(Nat), NEW w \in Nat, Four(s, w), Six(t)
      PROVE  normalizeIP(s) # normalizeIP(t) /\ Host4(s) # Host4(t) /\ Host4(s) >= 0
  <2>1. <<w>> # <<t[1], t[2], 0, 0>>
    OBVIOUS
  <2> QED
    BY <1>3, <2>1
<1>4. CASE Six(p) /\ Six(q)
  <2>1. normalizeIP(p) = normalizeIP(q) <=> p[1] = q[1] /\ p[2] = q[2]
    BY <1>4
  <2> QED
    BY <1>4, <2>1, Slash64 DEF SameClient
<1> HIDE DEF Four, Six
<1> QED
  BY <1>1, <1>2, <1>3, <1>4 DEF SameClient

\* Connections share a bucket exactly when they come from the same IPv4 host, however
\* its address is written, or from the same IPv6 /64, for any two remote addresses.
THEOREM KeysAgreeForAll == \A a, b \in Address : KeysAgree(a, b)
<1> SUFFICES ASSUME NEW a \in Address, NEW b \in Address
             PROVE  KeysAgree(a, b)
  OBVIOUS
<1>1. \A c \in Address :
        /\ c.ip \in Seq(Nat)
        /\ FromConn(c) # NoIP => FromConn(c) = normalizeIP(c.ip)
        /\ c.net # "other" => FromConn(c) = normalizeIP(c.ip)
  <2>1. normalizeIP(NoIP) = NoIP
    BY DEF normalizeIP, To4, IsMapped, NoIP
  <2> QED
    BY <2>1 DEF Address, FromConn, extractIP, Parsed
<1>2. FromConn(a) # NoIP /\ FromConn(b) # NoIP =>
        (FromConn(a) = FromConn(b) <=> SameClient(a.ip, b.ip))
  BY <1>1, KeyIsClient
<1>3. a.net # "other" /\ Len(a.ip) \in {1, 4} => FromConn(a) # NoIP
  <2>1. Len(a.ip) \in {1, 4} => normalizeIP(a.ip) # NoIP
    BY <1>1, AddressKinds, NotNil DEF NoIP
  <2> QED
    BY <1>1, <2>1
<1> QED
  BY <1>2, <1>3 DEF KeysAgree
==============================================================================
