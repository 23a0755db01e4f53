---------------------------- MODULE StartupProofs ----------------------------
(***************************************************************************)
(* Safety of the start, from the command line to a serving process, for    *)
(* both profiles, any cluster and any number of requests served.           *)
(***************************************************************************)
EXTENDS Startup, TLAPS

BaseTypeOK ==
  /\ step \in Nat
  /\ pending \subseteq Names
  /\ held \in [Registries -> [Names -> Nat]]
  /\ exported = held
  /\ value \in Seq(Int)
  /\ running \in [Kinds -> Nat]
  /\ counted \in [Names -> Int]

\* The collectors of the registry that Config makes: they exist, and no two names
\* share one.
CollectorsOK ==
  /\ \A n \in Names : held["profile"][n] \in 0..Len(value)
  /\ \A n, m \in Names :
       held["profile"][n] # 0 /\ held["profile"][n] = held["profile"][m] => n = m

\* A collector says what was counted under its name; nothing is counted before there
\* is one.
CountsOK ==
  \A n \in Names :
    IF held["profile"][n] = 0 THEN counted[n] = 0
    ELSE value[held["profile"][n]] = counted[n]

\* What the loops have registered, and where the registry has been handed on to.
RegisteredOK ==
  /\ phase = "sshd metrics" =>
       \A n \in SSHdNames \ pending : held["profile"][n] # 0
  /\ phase = "k8s metrics" =>
       \A n \in Names \ pending : held["profile"][n] # 0
  /\ phase \in {"new", "serving"} =>
       /\ \A n \in Names : held["profile"][n] # 0
       /\ wired.handler = "profile"
       /\ wired.probe = "profile"
  /\ phase \in {"new", "serving"} => DOMAIN wired = {"sshd", "handler", "probe"}
  /\ phase = "serving" => wired.sshd = "profile"

\* What the permission check has found so far.
GrantedOK ==
  /\ phase = "permissions" => step <= 7 /\ \A i \in 1..step : Required[i] \in grants
  /\ phase \in {"sshd metrics", "k8s metrics", "new", "serving"} =>
       Permissions \subseteq grants

IInv ==
  BaseTypeOK /\ CollectorsOK /\ CountsOK /\ RegisteredOK /\ GrantedOK /\ NothingMissing

\* Registering a name gives it a collector of its own unless it has one.
LEMMA RegisterFacts ==
  ASSUME BaseTypeOK, CollectorsOK, CountsOK, NEW n \in Names,
         Register("profile", n), UNCHANGED counted
  PROVE  /\ held' \in [Registries -> [Names -> Nat]]
         /\ exported' = held'
         /\ value' \in Seq(Int)
         /\ CollectorsOK'
         /\ CountsOK'
         /\ held'["profile"][n] # 0
         /\ \A m \in Names : held["profile"][m] # 0 => held'["profile"][m] # 0
<1> USE DEF BaseTypeOK
<1>0. "profile" \in Registries
  BY DEF Registries
<1>1. CASE held["profile"][n] # 0
  <2>1. UNCHANGED <<held, exported, value>>
    BY <1>1 DEF Register, registry
  <2> QED
    BY <1>1, <2>1 DEF CollectorsOK, CountsOK
<1>2. CASE held["profile"][n] = 0
  <2> DEFINE c == Len(value) + 1
  <2>1. /\ value' = Append(value, 0)
        /\ held' = [held EXCEPT !["profile"][n] = c]
        /\ exported' = held'
    BY <1>0, <1>2 DEF Register
  <2>2. c \in Nat /\ c > Len(value) /\ c # 0
    OBVIOUS
  <2>3. /\ held'["profile"][n] = c
        /\ \A m \in Names \ {n} : held'["profile"][m] = held["profile"][m]
    BY <1>0, <2>1
  <2>4. /\ value' \in Seq(Int) /\ Len(value') = c /\ value'[c] = 0
        /\ \A i \in 1..Len(value) : value'[i] = value[i]
    BY <2>1
  <2> HIDE DEF c
  <2>5. held' \in [Registries -> [Names -> Nat]]
    BY <1>0, <2>1, <2>2
  <2>6. CollectorsOK'
    <3>1. \A m \in Names : held'["profile"][m] \in 0..Len(value')
      <4> SUFFICES ASSUME NEW m \in Names
                   PROVE  held'["profile"][m] \in 0..c
        BY <2>4
      <4>1. held["profile"][m] \in 0..Len(value) /\ Len(value) \in Nat
        BY DEF CollectorsOK
      <4>2. CASE m = n
        BY <2>2, <2>3, <4>2
      <4>3. CASE m # n
        BY <2>2, <2>3, <4>1, <4>3
      <4> QED
        BY <4>2, <4>3
    <3>2. \A m \in Names : held["profile"][m] # c
      BY <2>2 DEF CollectorsOK
    <3>3. ASSUME NEW l \in Names, NEW m \in Names, held'["profile"][l] # 0,
                 held'["profile"][l] = held'["profile"][m]
          PROVE  l = m
      <4>1. CASE l = n \/ m = n
        BY <2>3, <3>2, <3>3, <4>1
      <4>2. CASE l # n /\ m # n
        BY <2>3, <3>3, <4>2 DEF CollectorsOK
      <4> QED
        BY <4>1, <4>2
    <3> QED
      BY <3>1, <3>3 DEF CollectorsOK
  <2>7. CountsOK'
    <3> SUFFICES ASSUME NEW m \in Names, held'["profile"][m] # 0
                 PROVE  value'[held'["profile"][m]] = counted[m]
      BY <2>2, <2>3 DEF CountsOK
    <3>1. CASE m = n
      BY <1>2, <2>3, <2>4, <3>1 DEF CountsOK
    <3>2. CASE m # n
      <4>1. held["profile"][m] \in 1..Len(value)
        BY <2>3, <3>2 DEF CollectorsOK
      <4> QED
        BY <2>3, <2>4, <3>2, <4>1 DEF CountsOK
    <3> QED
      BY <3>1, <3>2
  <2> QED
    BY <2>1, <2>2, <2>3, <2>4, <2>5, <2>6, <2>7
<1> QED
  BY <1>1, <1>2

\* A lookup of a registered name finds its collector, and changes no other name's.
LEMMA BumpFacts ==
  ASSUME BaseTypeOK, CollectorsOK, CountsOK, NEW n \in Names, NEW d \in Int,
         held["profile"][n] # 0, Bump("profile", n, d), UNCHANGED held,
         counted' = [counted EXCEPT ![n] = @ + d]
  PROVE  /\ value' \in Seq(Int)
         /\ counted' \in [Names -> Int]
         /\ UNCHANGED missing
         /\ CollectorsOK'
         /\ CountsOK'
<1> USE DEF BaseTypeOK
<1> DEFINE c == held["profile"][n]
<1>1. c \in 1..Len(value)
  BY DEF CollectorsOK
<1>2. value' = [value EXCEPT ![c] = @ + d] /\ UNCHANGED missing
  BY DEF Bump
<1>3. value[c] = counted[n]
  BY DEF CountsOK
<1> HIDE DEF c
<1>4. /\ value' \in Seq(Int)
      /\ Len(value') = Len(value)
      /\ value'[c] = counted[n] + d
      /\ \A i \in 1..Len(value) : i # c => value'[i] = value[i]
  BY <1>1, <1>2, <1>3
<1>5. counted'[n] = counted[n] + d /\ \A m \in Names \ {n} : counted'[m] = counted[m]
  OBVIOUS
<1>6. CountsOK'
  <2> SUFFICES ASSUME NEW m \in Names
               PROVE  IF held["profile"][m] = 0 THEN counted'[m] = 0
                      ELSE value'[held["profile"][m]] = counted'[m]
    BY DEF CountsOK
  <2>1. CASE m = n
    BY <1>1, <1>4, <1>5, <2>1 DEF c
  <2>2. CASE m # n /\ held["profile"][m] # 0
    <3>1. held["profile"][m] \in 1..Len(value) /\ held["profile"][m] # c
      BY <2>2 DEF CollectorsOK, c
    <3> QED
      BY <1>4, <1>5, <2>2, <3>1 DEF CountsOK
  <2>3. CASE m # n /\ held["profile"][m] = 0
    BY <1>5, <2>3 DEF CountsOK
  <2> QED
    BY <2>1, <2>2, <2>3
<1>7. CollectorsOK'
  BY <1>4 DEF CollectorsOK
<1> QED
  BY <1>2, <1>4, <1>6, <1>7

\* The calls of every kind of request are among the permissions that were asked for.
LEMMA KindFacts ==
  ASSUME NEW kind \in Kinds
  PROVE  GaugeOf(kind) \in Names /\ CallsOf(kind) \subseteq Permissions
BY DEF Kinds, GaugeOf, CallsOf, Names, SSHdNames, K8sNames, Permissions

\* RunE and Config up to the first registration.
LEMMA ConfigStep ==
  ASSUME IInv,
         Get \/ Configure \/ FailConfig \/ Permit \/ Permitted
  PROVE  IInv'
<1> USE DEF IInv, BaseTypeOK, registry, served, NothingMissing
<1>1. UNCHANGED <<held, exported, value, wired, grants, running, counted, missing>>
  BY DEF Get, Configure, FailConfig, Permit, Permitted
<1>2. CollectorsOK' /\ CountsOK'
  BY <1>1 DEF CollectorsOK, CountsOK
<1>3. Len(Required) = 7
  BY DEF Required
<1>4. step' \in Nat /\ pending' \subseteq Names
  <2>1. step' \in {step, step + 1, 0}
    BY DEF Get, Configure, FailConfig, Permit, Permitted
  <2>2. pending' \in {pending, SSHdNames}
    BY DEF Get, Configure, FailConfig, Permit, Permitted
  <2> QED
    BY <2>1, <2>2 DEF Names
<1>5. RegisteredOK'
  BY <1>1 DEF RegisteredOK, Get, Configure, FailConfig, Permit, Permitted
<1>6. GrantedOK'
  <2>1. CASE Get \/ FailConfig
    BY <1>1, <2>1 DEF GrantedOK, Get, FailConfig
  <2>2. CASE Configure
    <3>1. \/ phase' = "config"
          \/ phase' = "permissions" /\ step' = 0
      BY <2>2 DEF Configure
    <3>2. phase' = "permissions" => step' <= 7
      BY <3>1
    <3>3. phase' = "permissions" => \A i \in 1..step' : Required[i] \in grants'
      BY <3>1
    <3>4. phase' \notin {"sshd metrics", "k8s metrics", "new", "serving"}
      BY <3>1
    <3> QED
      BY <3>2, <3>3, <3>4 DEF GrantedOK
  <2>3. CASE Permit
    <3>1. \/ phase' = "exited"
          \/ phase' = "permissions" /\ step' = step + 1 /\ Required[step + 1] \in grants
      BY <2>3 DEF Permit
    <3>2. phase = "permissions" /\ step < 7
      BY <1>3, <2>3 DEF Permit
    <3>3. \A i \in 1..(step + 1) : i \in 1..step \/ i = step + 1
      OBVIOUS
    <3>4. phase' = "permissions" => step' <= 7
      BY <3>1, <3>2
    <3>5. phase' = "permissions" => \A i \in 1..step' : Required[i] \in grants'
      BY <1>1, <3>1, <3>2, <3>3 DEF GrantedOK
    <3>6. phase' \notin {"sshd metrics", "k8s metrics", "new", "serving"}
      BY <3>1
    <3> QED
      BY <3>4, <3>5, <3>6 DEF GrantedOK
  <2>4. CASE Permitted
    <3>1. \A i \in 1..7 : Required[i] \in grants
      BY <1>3, <2>4 DEF GrantedOK, Permitted
    <3>2. Permissions \subseteq grants
      <4> DEFINE r == Required
      <4>1. /\ r[1] \in grants /\ r[2] \in grants /\ r[3] \in grants /\ r[4] \in grants
            /\ r[5] \in grants /\ r[6] \in grants /\ r[7] \in grants
        BY <3>1
      <4> QED
        BY <4>1 DEF Required, Permissions
    <3> QED
      BY <1>1, <2>4, <3>2 DEF GrantedOK, Permitted
  <2> QED
    BY <2>1, <2>2, <2>3, <2>4
<1> QED
  BY <1>1, <1>2, <1>4, <1>5, <1>6

\* The registrations and what becomes of the registry.
LEMMA MetricsStep ==
  ASSUME IInv,
         \/ \E n \in Names : RegisterOne(n)
         \/ RegisterK8s \/ New \/ Start
  PROVE  IInv'
<1> USE DEF IInv, BaseTypeOK, served, NothingMissing
<1>1. ASSUME NEW n \in Names, RegisterOne(n)
      PROVE  IInv'
  <2>1. UNCHANGED <<phase, step, wired, grants, running, counted, missing>>
    BY <1>1 DEF RegisterOne
  <2>2. pending' = pending \ {n}
    BY <1>1 DEF RegisterOne
  <2>3. Register("profile", n)
    BY <1>1 DEF RegisterOne, Target, Registering, RegisteredOK
  <2>4. /\ held' \in [Registries -> [Names -> Nat]]
        /\ exported' = held'
        /\ value' \in Seq(Int)
        /\ CollectorsOK'
        /\ CountsOK'
        /\ held'["profile"][n] # 0
        /\ \A m \in Names : held["profile"][m] # 0 => held'["profile"][m] # 0
    BY <2>1, <2>3, RegisterFacts
  <2>5. RegisteredOK'
    BY <2>1, <2>2, <2>4 DEF RegisteredOK, Names
  <2>6. GrantedOK'
    BY <2>1 DEF GrantedOK
  <2> QED
    BY <2>1, <2>2, <2>4, <2>5, <2>6
<1>2. CASE RegisterK8s \/ New \/ Start
  <2>1. UNCHANGED <<step, held, exported, value, grants, running, counted, missing>>
    BY <1>2 DEF RegisterK8s, New, Start, registry
  <2>2. CollectorsOK' /\ CountsOK'
    BY <2>1 DEF CollectorsOK, CountsOK
  <2>3. pending' \subseteq Names
    BY <1>2 DEF RegisterK8s, New, Start, Names
  <2>4. RegisteredOK'
    <3>1. CASE RegisterK8s
      BY <2>1, <3>1 DEF RegisteredOK, RegisterK8s, Names
    <3>2. CASE New
      BY <2>1, <3>2 DEF RegisteredOK, New
    <3>3. CASE Start
      BY <2>1, <3>3 DEF RegisteredOK, Start
    <3> QED
      BY <1>2, <3>1, <3>2, <3>3
  <2>5. GrantedOK'
    BY <1>2, <2>1 DEF GrantedOK, RegisterK8s, New, Start
  <2> QED
    BY <2>1, <2>2, <2>3, <2>4, <2>5
<1> QED
  BY <1>1, <1>2

\* Serving.
LEMMA ServingStep ==
  ASSUME IInv,
         \/ \E n \in SSHdNames : LogIn(n)
         \/ \E kind \in Kinds : Begin(kind) \/ End(kind)
  PROVE  IInv'
<1> USE DEF IInv, BaseTypeOK, NothingMissing
<1>1. /\ phase = "serving"
      /\ UNCHANGED <<phase, step, pending, held, exported, wired, grants>>
  BY DEF LogIn, Begin, End
<1>2. /\ \A n \in Names : held["profile"][n] # 0
      /\ wired.handler = "profile" /\ wired.sshd = "profile"
  BY <1>1 DEF RegisteredOK
<1>3. RegisteredOK' /\ GrantedOK'
  BY <1>1 DEF RegisteredOK, GrantedOK
<1>4. ASSUME NEW n \in SSHdNames, LogIn(n)
      PROVE  IInv'
  <2>1. n \in Names /\ 1 \in Int
    BY DEF Names
  <2>2. Bump("profile", n, 1) /\ counted' = [counted EXCEPT ![n] = @ + 1]
    BY <1>2, <1>4 DEF LogIn
  <2>3. UNCHANGED running
    BY <1>4 DEF LogIn
  <2> QED
    BY <1>1, <1>2, <1>3, <2>1, <2>2, <2>3, BumpFacts
<1>5. ASSUME NEW kind \in Kinds, Begin(kind)
      PROVE  IInv'
  <2>1. GaugeOf(kind) \in Names /\ 1 \in Int
    BY KindFacts
  <2>2. CallsOf(kind) \subseteq grants
    BY <1>1, KindFacts DEF GrantedOK
  <2>3. /\ running' = [running EXCEPT ![kind] = @ + 1]
        /\ counted' = [counted EXCEPT ![GaugeOf(kind)] = @ + 1]
        /\ Bump("profile", GaugeOf(kind), 1)
    BY <1>2, <1>5, <2>2 DEF Begin
  <2>4. running' \in [Kinds -> Nat]
    BY <2>3
  <2> QED
    BY <1>1, <1>2, <1>3, <2>1, <2>3, <2>4, BumpFacts
<1>6. ASSUME NEW kind \in Kinds, End(kind)
      PROVE  IInv'
  <2> DEFINE d == 0 - 1
  <2>1. GaugeOf(kind) \in Names /\ d \in Int
    BY KindFacts
  <2>2. /\ running[kind] > 0
        /\ running' = [running EXCEPT ![kind] = @ - 1]
    BY <1>6 DEF End
  <2>3. Bump("profile", GaugeOf(kind), d)
    <3>1. -1 = d
      OBVIOUS
    <3> QED
      BY <1>2, <1>6, <3>1 DEF End
  <2>4. counted' = [counted EXCEPT ![GaugeOf(kind)] = @ + d]
    <3>1. counted' = [counted EXCEPT ![GaugeOf(kind)] = @ - 1]
      BY <1>6 DEF End
    <3>2. counted[GaugeOf(kind)] - 1 = counted[GaugeOf(kind)] + d
      BY <2>1
    <3> QED
      BY <3>1, <3>2
  <2>5. running' \in [Kinds -> Nat]
    BY <2>2
  <2> HIDE DEF d
  <2> QED
    BY <1>1, <1>2, <1>3, <2>1, <2>3, <2>4, <2>5, BumpFacts
<1> QED
  BY <1>4, <1>5, <1>6

LEMMA Inductive == Spec => []IInv
<1>1. Init => IInv
  <2> SUFFICES ASSUME Init
               PROVE  IInv
    OBVIOUS
  <2> USE DEF Init
  <2>1. BaseTypeOK
    BY DEF BaseTypeOK
  <2>2. \A n \in Names : held["profile"][n] = 0 /\ counted[n] = 0
    BY DEF Registries
  <2>3. CollectorsOK
    BY <2>1, <2>2 DEF CollectorsOK, BaseTypeOK
  <2>4. CountsOK
    BY <2>2 DEF CountsOK
  <2> QED
    BY <2>1, <2>3, <2>4 DEF IInv, RegisteredOK, GrantedOK, NothingMissing
<1>2. IInv /\ [Next]_vars => IInv'
  <2>1. ASSUME IInv, UNCHANGED vars
        PROVE  IInv'
    <3>1. UNCHANGED <<phase, step, pending, held, exported, value, wired, grants,
                      running, counted, missing>>
      BY <2>1 DEF vars
    <3> QED
      BY <2>1, <3>1 DEF IInv, BaseTypeOK, CollectorsOK, CountsOK, RegisteredOK,
                        GrantedOK, NothingMissing
  <2> QED
    BY <2>1, ConfigStep, MetricsStep, ServingStep DEF Next
<1> QED
  BY <1>1, <1>2, PTL DEF Spec

\* No lookup of a metric panics and no call of a handler is refused, however many
\* requests are served: the start has registered and asked for all that they use.
THEOREM NothingMissingCorrect == Spec => []NothingMissing
<1>1. IInv => NothingMissing
  BY DEF IInv
<1> QED
  BY <1>1, Inductive, PTL

\* What a scrape reads is what sshd and the handler counted, although the names of sshd
\* are registered twice.
THEOREM ScrapeCorrect == Spec => []ScrapeAgrees
<1>1. IInv => ScrapeAgrees
  BY DEF IInv, BaseTypeOK, CountsOK, RegisteredOK, ScrapeAgrees
<1> QED
  BY <1>1, Inductive, PTL
==============================================================================
