-------------------------- MODULE IdentitySyncProofs --------------------------
(***************************************************************************)
(* Safety of the identity sync for any users, keys, interval, slack and    *)
(* length of a pass that satisfy SyncAssumption, whatever fails.           *)
(***************************************************************************)
EXTENDS IdentitySync, TLAPS

\* The ticker and the pass: a pass begins when its tick fires, ends before the next
\* one, and the keys that are settled were stored by a pass one interval ago at most.
ClockOK ==
  /\ syncer = "down" => ~pending /\ settled = {}
  /\ syncer = "idle" /\ pending => next = now + Interval
  /\ syncer = "idle" /\ ~pending => now < next
  /\ syncer = "pass" => ~pending /\ next = begun + Interval /\ now <= begun + MaxPass
  /\ syncer = "idle" /\ settled # {} =>
       /\ pending => now = begun + Interval
       /\ ~pending => next = begun + Interval

\* What the pass has still to store is in MongoDB or left it since the pass began.
TodoOK ==
  \A p \in todo :
    /\ p \in db \/ left[p] >= begun
    /\ p[2] \in steady => p \in db

\* An entry whose user lost the key expires within a pass and a ttl of the loss.
EntryOK ==
  \A k \in Keys :
    /\ expires[k] <= now + TTL
    /\ cache[k] # NoUser =>
         /\ <<cache[k], k>> \in Pairs
         /\ \/ <<cache[k], k>> \in db
            \/ expires[k] <= left[<<cache[k], k>>] + MaxPass + TTL

\* The entry of k names an owner of k and lives until t.
Fresh(k, t) == <<cache[k], k>> \in db /\ expires[k] >= t

\* A key that nothing has happened to since the pass began, and one of whose owners
\* has been dealt with, was stored in this pass.
StoredOK ==
  \A k \in steady :
    syncer = "pass" /\ (clean \/ k \in settled) /\ (\E p \in db \ todo : p[2] = k)
      => Fresh(k, begun + TTL)

\* A settled key has an entry that outlives its turn in the next pass.
SettledOK ==
  \A k \in settled :
    /\ syncer = "idle" => Fresh(k, begun + TTL)
    /\ syncer = "pass" => Fresh(k, begun + Slack) /\ k \in steady

\* The inductive invariant.
IInv == TypeOK /\ ClockOK /\ TodoOK /\ EntryOK /\ StoredOK /\ SettledOK

\* The parts of a pair.
LEMMA PairFacts ==
  ASSUME NEW p \in Pairs
  PROVE  p[1] \in Users /\ p[2] \in Keys /\ p = <<p[1], p[2]>>
BY SyncAssumption

\* The ttl is longer than the interval and the slack longer than a pass.
LEMMA TTLFacts == TTL \in Nat /\ TTL = Interval + Slack /\ TTL > Interval /\ Slack > MaxPass
BY SyncAssumption DEF TTL

\* Types.
LEMMA TypeStep ==
  ASSUME TypeOK, [Next]_vars
  PROVE  TypeOK'
<1> USE SyncAssumption DEF TypeOK, mongo, redis, ticker
<1>1. CASE Tick
  <2>1. next' \in Nat
    BY <1>1 DEF Tick
  <2>2. pending' \in BOOLEAN
    <3>1. pending' = TRUE \/ pending' = pending
      BY <1>1 DEF Tick
    <3> QED
      BY <3>1
  <2> QED
    BY <1>1, <2>1, <2>2 DEF Tick
<1>2. ASSUME NEW p \in Pairs, Change(p)
      PROVE  TypeOK'
  <2>1. db' \subseteq Pairs /\ todo' \subseteq Pairs /\ (syncer # "pass" => todo' = {})
    BY <1>2 DEF Change
  <2>2. left' \in [Pairs -> {-1} \cup 0..now]
    BY <1>2 DEF Change
  <2> QED
    BY <1>2, <2>1, <2>2 DEF Change
<1>3. CASE Kill \/ FailFind
  <2>1. pending' \in BOOLEAN /\ clean' \in BOOLEAN
    BY <1>3 DEF Kill, FailFind, Down
  <2> QED
    BY <1>3, <2>1 DEF Kill, FailFind, Down
<1>4. CASE Restart
  BY <1>4 DEF Restart
<1>5. CASE BeginPass
  <2>1. pending' \in BOOLEAN /\ clean' \in BOOLEAN
    BY <1>5 DEF BeginPass
  <2> QED
    BY <1>5, <2>1 DEF BeginPass
<1>6. ASSUME NEW p \in Pairs, Store(p)
      PROVE  TypeOK'
  <2>1. p[1] \in Users /\ p[2] \in Keys
    BY PairFacts
  <2> QED
    BY <1>6, <2>1, TTLFacts DEF Store, Lifetime
<1>7. ASSUME NEW p \in Pairs, Skip(p)
      PROVE  TypeOK'
  <2>1. clean' \in BOOLEAN
    BY <1>7 DEF Skip
  <2> QED
    BY <1>7, <2>1 DEF Skip
<1>8. CASE CutShort
  <2>1. clean' \in BOOLEAN
    BY <1>8 DEF CutShort
  <2> QED
    BY <1>8, <2>1 DEF CutShort
<1>9. CASE EndPass
  BY <1>9 DEF EndPass
<1>10. CASE UNCHANGED vars
  BY <1>10 DEF vars
<1> QED
  BY <1>1, <1>2, <1>3, <1>4, <1>5, <1>6, <1>7, <1>8, <1>9, <1>10 DEF Next

\* The ticker.
LEMMA ClockStep ==
  ASSUME TypeOK, ClockOK, [Next]_vars
  PROVE  ClockOK'
<1> USE SyncAssumption DEF TypeOK, ClockOK, mongo, redis, ticker
<1>1. CASE Tick
  BY <1>1 DEF Tick
<1>2. ASSUME NEW p \in Pairs, Change(p) \/ Store(p) \/ Skip(p)
      PROVE  ClockOK'
  <2>1. settled' \subseteq settled /\ UNCHANGED <<now, syncer, next, pending, begun>>
    BY <1>2 DEF Change, Store, Skip
  <2> QED
    BY <2>1
<1>3. CASE Kill \/ FailFind
  BY <1>3 DEF Kill, FailFind, Down
<1>4. CASE Restart
  BY <1>4 DEF Restart
<1>5. CASE BeginPass
  BY <1>5 DEF BeginPass
<1>6. CASE CutShort
  BY <1>6 DEF CutShort
<1>7. CASE EndPass
  BY <1>7 DEF EndPass
<1>8. CASE UNCHANGED vars
  BY <1>8 DEF vars
<1> QED
  BY <1>1, <1>2, <1>3, <1>4, <1>5, <1>6, <1>7, <1>8 DEF Next

\* What is still to be stored.
LEMMA TodoStep ==
  ASSUME TypeOK, TodoOK, [Next]_vars
  PROVE  TodoOK'
<1> USE SyncAssumption DEF TypeOK, TodoOK, mongo, redis, ticker
<1>1. ASSUME NEW p \in Pairs, Change(p)
      PROVE  TodoOK'
  <2>1. UNCHANGED begun /\ steady' = steady \ {p[2]}
    BY <1>1 DEF Change
  <2>2. CASE p \in db
    <3>1. db' = db \ {p} /\ todo' \subseteq todo /\ left' = [left EXCEPT ![p] = now]
      BY <1>1, <2>2 DEF Change
    <3>2. left'[p] = now /\ \A q \in Pairs \ {p} : left'[q] = left[q]
      BY <3>1
    <3> QED
      BY <2>1, <3>1, <3>2
  <2>3. CASE p \notin db
    <3>1. db' = db \cup {p} /\ todo' \subseteq todo \cup {p} /\ left' = left
      BY <1>1, <2>3 DEF Change
    <3> QED
      BY <2>1, <3>1
  <2> QED
    BY <2>2, <2>3
<1>2. ASSUME NEW p \in Pairs, Store(p) \/ Skip(p)
      PROVE  TodoOK'
  <2>1. todo' \subseteq todo /\ UNCHANGED <<db, left, begun, steady>>
    BY <1>2 DEF Store, Skip
  <2> QED
    BY <2>1
<1>3. CASE Kill \/ FailFind \/ CutShort
  <2>1. todo' = {}
    BY <1>3 DEF Kill, FailFind, Down, CutShort
  <2> QED
    BY <2>1
<1>4. CASE BeginPass
  BY <1>4 DEF BeginPass
<1>5. CASE Tick \/ Restart \/ EndPass \/ UNCHANGED vars
  <2>1. UNCHANGED <<todo, db, left, begun, steady>>
    BY <1>5 DEF Tick, Restart, EndPass, vars
  <2> QED
    BY <2>1
<1> QED
  BY <1>1, <1>2, <1>3, <1>4, <1>5 DEF Next

\* The entries of Redis.
LEMMA EntryStep ==
  ASSUME TypeOK, ClockOK, TodoOK, EntryOK, [Next]_vars
  PROVE  EntryOK'
<1> USE SyncAssumption, TTLFacts DEF TypeOK, mongo, redis, ticker
<1>1. ASSUME NEW p \in Pairs, Change(p)
      PROVE  EntryOK'
  <2>1. UNCHANGED <<now, cache, expires>>
    BY <1>1 DEF Change
  <2>2. CASE p \in db
    <3>1. db' = db \ {p} /\ left' = [left EXCEPT ![p] = now]
      BY <1>1, <2>2 DEF Change
    <3>2. left'[p] = now /\ \A q \in Pairs \ {p} : left'[q] = left[q]
      BY <3>1
    <3> SUFFICES ASSUME NEW k \in Keys, cache[k] # NoUser
                 PROVE  \/ <<cache[k], k>> \in db'
                        \/ expires[k] <= left'[<<cache[k], k>>] + MaxPass + TTL
      BY <2>1 DEF EntryOK
    <3> DEFINE q == <<cache[k], k>>
    <3>3. q \in Pairs /\ expires[k] <= now + TTL
      BY DEF EntryOK
    <3>4. CASE q = p
      BY <3>2, <3>3, <3>4
    <3>5. CASE q # p
      <4>1. q \in db \/ expires[k] <= left[q] + MaxPass + TTL
        BY DEF EntryOK
      <4> HIDE DEF q
      <4>2. q \in db' \/ expires[k] <= left'[q] + MaxPass + TTL
        BY <3>1, <3>2, <3>3, <3>5, <4>1
      <4> QED
        BY <4>2 DEF q
    <3> QED
      BY <3>4, <3>5
  <2>3. CASE p \notin db
    <3>1. db' = db \cup {p} /\ left' = left
      BY <1>1, <2>3 DEF Change
    <3> QED
      BY <2>1, <3>1 DEF EntryOK
  <2> QED
    BY <2>2, <2>3
<1>2. ASSUME NEW p \in Pairs, Store(p)
      PROVE  EntryOK'
  <2>1. p[1] \in Users /\ p[2] \in Keys /\ p = <<p[1], p[2]>>
    BY PairFacts
  <2>2. UNCHANGED <<now, db, left>>
    BY <1>2 DEF Store
  <2>3. cache'[p[2]] = p[1] /\ expires'[p[2]] = now + TTL
    BY <1>2, <2>1 DEF Store, Lifetime
  <2>4. \A k \in Keys \ {p[2]} : cache'[k] = cache[k] /\ expires'[k] = expires[k]
    BY <1>2 DEF Store
  <2>5. p \in db \/ now + TTL <= left[p] + MaxPass + TTL
    <3>1. syncer = "pass" /\ (p \in db \/ left[p] >= begun)
      BY <1>2 DEF Store, TodoOK
    <3>2. now <= begun + MaxPass
      BY <3>1 DEF ClockOK
    <3>3. left[p] \in Int
      OBVIOUS
    <3> QED
      BY <3>1, <3>2, <3>3
  <2> SUFFICES ASSUME NEW k \in Keys
               PROVE  /\ expires'[k] <= now + TTL
                      /\ cache'[k] # NoUser =>
                           /\ <<cache'[k], k>> \in Pairs
                           /\ \/ <<cache'[k], k>> \in db
                              \/ expires'[k] <= left[<<cache'[k], k>>] + MaxPass + TTL
    BY <2>2 DEF EntryOK
  <2>6. CASE k = p[2]
    <3>1. <<cache'[k], k>> = p /\ expires'[k] = now + TTL
      BY <2>1, <2>3, <2>6
    <3> QED
      BY <2>5, <3>1
  <2>7. CASE k # p[2]
    BY <2>4, <2>7 DEF EntryOK
  <2> QED
    BY <2>6, <2>7
<1>3. CASE Tick
  <2>1. now' = now + 1 /\ UNCHANGED <<db, left, cache, expires>>
    BY <1>3 DEF Tick
  <2> QED
    BY <2>1 DEF EntryOK
<1>4. ASSUME NEW p \in Pairs, Skip(p)
      PROVE  EntryOK'
  BY <1>4 DEF Skip, EntryOK
<1>5. CASE Kill \/ FailFind \/ CutShort \/ BeginPass \/ Restart \/ EndPass \/ UNCHANGED vars
  <2>1. UNCHANGED <<now, db, left, cache, expires>>
    BY <1>5 DEF Kill, FailFind, Down, CutShort, BeginPass, Restart, EndPass, vars
  <2> QED
    BY <2>1 DEF EntryOK
<1> QED
  BY <1>1, <1>2, <1>3, <1>4, <1>5 DEF Next

\* What the pass has stored.
LEMMA StoredStep ==
  ASSUME TypeOK, ClockOK, TodoOK, StoredOK, [Next]_vars
  PROVE  StoredOK'
<1> USE SyncAssumption, TTLFacts DEF TypeOK, mongo, redis, ticker
<1>1. ASSUME NEW p \in Pairs, Change(p)
      PROVE  StoredOK'
  <2>1. UNCHANGED <<cache, expires, syncer, begun, clean>>
    BY <1>1 DEF Change
  <2>2. steady' = steady \ {p[2]} /\ settled' = settled \ {p[2]}
    BY <1>1 DEF Change
  <2>3. \A q \in Pairs \ {p} : (q \in db' <=> q \in db) /\ (q \in todo' <=> q \in todo)
    BY <1>1 DEF Change
  <2>4. db' \subseteq Pairs
    BY <1>1 DEF Change
  <2> SUFFICES ASSUME NEW k \in steady', syncer = "pass", clean \/ k \in settled',
                      NEW q \in db' \ todo', q[2] = k
               PROVE  <<cache[k], k>> \in db' /\ expires[k] >= begun + TTL
    BY <2>1 DEF StoredOK, Fresh
  <2>5. k \in steady /\ k # p[2] /\ (clean \/ k \in settled)
    BY <2>2
  <2>6. q \in db \ todo
    BY <2>3, <2>4, <2>5
  <2>7. Fresh(k, begun + TTL)
    BY <2>5, <2>6 DEF StoredOK
  <2>8. <<cache[k], k>> # p
    BY <2>5
  <2> QED
    BY <2>3, <2>7, <2>8 DEF Fresh
<1>2. ASSUME NEW p \in Pairs, Store(p)
      PROVE  StoredOK'
  <2>1. p[1] \in Users /\ p[2] \in Keys /\ p = <<p[1], p[2]>>
    BY PairFacts
  <2>2. UNCHANGED <<now, db, syncer, begun, steady, clean, settled>> /\ todo' = todo \ {p}
    BY <1>2 DEF Store
  <2>3. cache'[p[2]] = p[1] /\ expires'[p[2]] = now + TTL
    BY <1>2, <2>1 DEF Store, Lifetime
  <2>4. \A k \in Keys \ {p[2]} : cache'[k] = cache[k] /\ expires'[k] = expires[k]
    BY <1>2 DEF Store
  <2> SUFFICES ASSUME NEW k \in steady, syncer = "pass", clean \/ k \in settled,
                      NEW q \in db \ todo', q[2] = k
               PROVE  <<cache'[k], k>> \in db /\ expires'[k] >= begun + TTL
    BY <2>2 DEF StoredOK, Fresh
  <2>5. CASE k = p[2]
    <3>1. p \in db
      BY <1>2, <2>5 DEF Store, TodoOK
    <3>2. <<cache'[k], k>> = p /\ expires'[k] = now + TTL
      BY <2>1, <2>3, <2>5
    <3> QED
      BY <3>1, <3>2
  <2>6. CASE k # p[2]
    <3>1. q \in db \ todo
      BY <2>2, <2>6
    <3>2. Fresh(k, begun + TTL)
      BY <3>1 DEF StoredOK
    <3> QED
      BY <2>4, <2>6, <3>2 DEF Fresh
  <2> QED
    BY <2>5, <2>6
<1>3. ASSUME NEW p \in Pairs, Skip(p)
      PROVE  StoredOK'
  <2>1. /\ clean' = FALSE
        /\ settled' = settled \ {p[2]}
        /\ todo' = todo \ {p}
        /\ UNCHANGED <<db, cache, expires, syncer, begun, steady>>
    BY <1>3 DEF Skip
  <2> SUFFICES ASSUME NEW k \in steady, syncer = "pass", k \in settled', NEW q \in db \ todo',
                      q[2] = k
               PROVE  Fresh(k, begun + TTL)
    BY <2>1 DEF StoredOK, Fresh
  <2>2. k \in settled /\ q \in db \ todo
    BY <2>1
  <2> QED
    BY <2>2 DEF StoredOK
<1>4. CASE CutShort
  <2>1. clean' = FALSE /\ settled' = {}
    BY <1>4 DEF CutShort
  <2> QED
    BY <2>1 DEF StoredOK
<1>5. CASE BeginPass
  <2>1. db' \ todo' = {}
    BY <1>5 DEF BeginPass
  <2> QED
    BY <2>1 DEF StoredOK
<1>6. CASE Kill \/ FailFind \/ Restart \/ EndPass
  <2>1. syncer' # "pass"
    BY <1>6 DEF Kill, FailFind, Down, Restart, EndPass
  <2> QED
    BY <2>1 DEF StoredOK
<1>7. CASE Tick \/ UNCHANGED vars
  <2>1. UNCHANGED <<db, todo, cache, expires, syncer, begun, steady, clean, settled>>
    BY <1>7 DEF Tick, vars
  <2> QED
    BY <2>1 DEF StoredOK, Fresh
<1> QED
  BY <1>1, <1>2, <1>3, <1>4, <1>5, <1>6, <1>7 DEF Next

\* The settled keys.
LEMMA SettledStep ==
  ASSUME TypeOK, ClockOK, TodoOK, StoredOK, SettledOK, [Next]_vars
  PROVE  SettledOK'
<1> USE SyncAssumption, TTLFacts DEF TypeOK, mongo, redis, ticker
<1>1. ASSUME NEW p \in Pairs, Change(p)
      PROVE  SettledOK'
  <2>1. UNCHANGED <<cache, expires, syncer, begun>>
    BY <1>1 DEF Change
  <2>2. steady' = steady \ {p[2]} /\ settled' = settled \ {p[2]}
    BY <1>1 DEF Change
  <2>3. \A q \in db : q # p => q \in db'
    BY <1>1 DEF Change
  <2>4. \A k \in settled' : k \in settled /\ k # p[2] /\ <<cache[k], k>> # p
    BY <2>2
  <2> QED
    BY <2>1, <2>2, <2>3, <2>4 DEF SettledOK, Fresh
<1>2. ASSUME NEW p \in Pairs, Store(p)
      PROVE  SettledOK'
  <2>1. p[1] \in Users /\ p[2] \in Keys /\ p = <<p[1], p[2]>>
    BY PairFacts
  <2>2. UNCHANGED <<now, db, syncer, begun, steady, settled>> /\ syncer = "pass"
    BY <1>2 DEF Store
  <2>3. cache'[p[2]] = p[1] /\ expires'[p[2]] = now + TTL
    BY <1>2, <2>1 DEF Store, Lifetime
  <2>4. \A k \in Keys \ {p[2]} : cache'[k] = cache[k] /\ expires'[k] = expires[k]
    BY <1>2 DEF Store
  <2> SUFFICES ASSUME NEW k \in settled
               PROVE  <<cache'[k], k>> \in db /\ expires'[k] >= begun + Slack /\ k \in steady
    BY <2>2 DEF SettledOK, Fresh
  <2>5. Fresh(k, begun + Slack) /\ k \in steady
    BY <2>2 DEF SettledOK
  <2>6. CASE k = p[2]
    <3>1. p \in db
      BY <1>2, <2>5, <2>6 DEF Store, TodoOK
    <3>2. <<cache'[k], k>> = p /\ expires'[k] = now + TTL
      BY <2>1, <2>3, <2>6
    <3> QED
      BY <2>5, <3>1, <3>2
  <2>7. CASE k # p[2]
    BY <2>4, <2>5, <2>7 DEF Fresh
  <2> QED
    BY <2>6, <2>7
<1>3. ASSUME NEW p \in Pairs, Skip(p)
      PROVE  SettledOK'
  <2>1. settled' \subseteq settled /\ UNCHANGED <<db, cache, expires, syncer, begun, steady>>
    BY <1>3 DEF Skip
  <2> QED
    BY <2>1 DEF SettledOK, Fresh
<1>4. CASE Kill \/ FailFind \/ CutShort \/ Restart
  <2>1. settled' = {}
    BY <1>4 DEF Kill, FailFind, Down, CutShort, Restart, ClockOK
  <2> QED
    BY <2>1 DEF SettledOK
<1>5. CASE BeginPass
  <2>1. /\ syncer = "idle" /\ pending
        /\ syncer' = "pass" /\ begun' = now /\ steady' = Keys
        /\ UNCHANGED <<db, cache, expires, settled>>
    BY <1>5 DEF BeginPass
  <2> SUFFICES ASSUME NEW k \in settled
               PROVE  <<cache[k], k>> \in db /\ expires[k] >= now + Slack /\ k \in Keys
    BY <2>1 DEF SettledOK, Fresh
  <2>2. now = begun + Interval
    BY <2>1 DEF ClockOK
  <2>3. Fresh(k, begun + TTL)
    BY <2>1 DEF SettledOK
  <2> QED
    BY <2>2, <2>3 DEF Fresh
<1>6. CASE EndPass
  <2>1. /\ syncer = "pass" /\ todo = {} /\ syncer' = "idle"
        /\ UNCHANGED <<db, cache, expires, begun>>
        /\ settled' = settled \cup {k \in steady : clean /\ Owned(k)}
    BY <1>6 DEF EndPass
  <2> SUFFICES ASSUME NEW k \in settled'
               PROVE  Fresh(k, begun + TTL)
    BY <2>1 DEF SettledOK, Fresh
  <2>2. CASE k \in settled
    <3>1. <<cache[k], k>> \in db \ todo /\ k \in steady
      BY <2>1, <2>2 DEF SettledOK, Fresh
    <3>2. <<cache[k], k>>[2] = k
      OBVIOUS
    <3> QED
      BY <2>1, <2>2, <3>1, <3>2 DEF StoredOK
  <2>3. CASE k \in steady /\ clean /\ Owned(k)
    BY <2>1, <2>3 DEF StoredOK, Owned
  <2> QED
    BY <2>1, <2>2, <2>3
<1>7. CASE Tick \/ UNCHANGED vars
  <2>1. UNCHANGED <<db, cache, expires, syncer, begun, steady, settled>>
    BY <1>7 DEF Tick, vars
  <2> QED
    BY <2>1 DEF SettledOK, Fresh
<1> QED
  BY <1>1, <1>2, <1>3, <1>4, <1>5, <1>6, <1>7 DEF Next

LEMMA InitIInv == Init => IInv
<1> SUFFICES ASSUME Init
             PROVE  IInv
  OBVIOUS
<1> USE SyncAssumption, TTLFacts DEF Init
<1>1. pending \in BOOLEAN /\ clean \in BOOLEAN
  OBVIOUS
<1>2. TypeOK
  BY <1>1 DEF TypeOK
<1>3. ClockOK /\ TodoOK /\ EntryOK /\ StoredOK /\ SettledOK
  BY DEF ClockOK, TodoOK, EntryOK, StoredOK, SettledOK
<1> QED
  BY <1>2, <1>3 DEF IInv

LEMMA Inductive == Spec => []IInv
<1>1. IInv /\ [Next]_vars => IInv'
  BY TypeStep, ClockStep, TodoStep, EntryStep, StoredStep, SettledStep DEF IInv
<1> QED
  BY InitIInv, <1>1, PTL DEF Spec

\* Every variable keeps its type; only a running pass has something left to store.
THEOREM TypeCorrect == Spec => []TypeOK
<1>1. IInv => TypeOK
  BY DEF IInv
<1> QED
  BY <1>1, Inductive, PTL

\* A revoked key stops working a pass and a ttl after it was revoked at the latest,
\* whatever the ttl, however the changes fall into passes and whatever fails: nothing
\* deletes an entry, so its lifetime and the age of what a pass stores must bound it.
THEOREM RevocationCorrect == Spec => []RevocationBound
<1>1. IInv => RevocationBound
  <2> SUFFICES ASSUME IInv, NEW k \in Keys, Authenticate(k) # NoUser
               PROVE  \/ <<Authenticate(k), k>> \in db
                      \/ now < left[<<Authenticate(k), k>>] + MaxPass + TTL
    BY DEF RevocationBound
  <2>1. Authenticate(k) = cache[k] /\ now < expires[k] /\ cache[k] # NoUser
    BY DEF Authenticate, Live
  <2>2. <<cache[k], k>> \in Pairs
    BY <2>1 DEF IInv, EntryOK
  <2>3. \/ <<cache[k], k>> \in db
        \/ expires[k] <= left[<<cache[k], k>>] + MaxPass + TTL
    BY <2>1 DEF IInv, EntryOK
  <2>4. now \in Nat /\ expires[k] \in Nat /\ left[<<cache[k], k>>] \in Int
    BY <2>2 DEF IInv, TypeOK
  <2> QED
    BY <2>1, <2>3, <2>4, TTLFacts, SyncAssumption
<1> QED
  BY <1>1, Inductive, PTL

\* A key that keeps its owners works without a gap for as long as no pass fails: its
\* entry outlives the interval by the slack, and its turn in the next pass comes
\* within that slack, wherever the key stands in the pass.
THEOREM NoGapCorrect == Spec => []NoGap
<1>1. IInv => NoGap
  <2> SUFFICES ASSUME IInv, NEW k \in settled
               PROVE  <<Authenticate(k), k>> \in db
    BY DEF NoGap
  <2> USE SyncAssumption, TTLFacts DEF IInv, TypeOK
  <2>1. <<cache[k], k>> \in db /\ now < expires[k]
    <3>1. CASE syncer = "idle"
      <4>1. Fresh(k, begun + TTL)
        BY <3>1 DEF SettledOK
      <4>2. now <= begun + Interval
        BY <3>1 DEF ClockOK
      <4> QED
        BY <4>1, <4>2 DEF Fresh
    <3>2. CASE syncer = "pass"
      <4>1. Fresh(k, begun + Slack)
        BY <3>2 DEF SettledOK
      <4>2. now <= begun + MaxPass
        BY <3>2 DEF ClockOK
      <4> QED
        BY <4>1, <4>2 DEF Fresh
    <3>3. syncer # "down"
      BY DEF ClockOK
    <3> QED
      BY <3>1, <3>2, <3>3
  <2> QED
    BY <2>1 DEF Authenticate, Live
<1> QED
  BY <1>1, Inductive, PTL

\* A key begins to work as a user only when a pass stores the pair it found: time and
\* restarts only take keys away, and what the pass lists left MongoDB, if at all, after
\* the pass began.
THEOREM NoRevivalCorrect == Spec => NoRevival
<1> DEFINE Begins(k, u) == u # NoUser /\ u # Authenticate(k)
           Found(k, u)  == \/ <<u, k>> \in db
                           \/ syncer = "pass" /\ left[<<u, k>>] >= begun
           NothingBack == \A k \in Keys :
             Begins(k, Authenticate(k)') => Found(k, Authenticate(k)')
<1>1. ASSUME IInv, [Next]_vars
      PROVE  NothingBack
  <2>0. IInv
    BY <1>1
  <2> USE <2>0 DEF IInv, TypeOK
  <2>1. CASE Tick
    <3>1. UNCHANGED redis /\ now' = now + 1 /\ now \in Nat
      BY <2>1 DEF Tick
    <3>2. ASSUME NEW k \in Keys
          PROVE  Authenticate(k)' \in {NoUser, Authenticate(k)}
      BY <3>1 DEF redis, Authenticate, Live
    <3> QED
      BY <3>2
  <2>2. ASSUME NEW p \in Pairs, Store(p)
        PROVE  NothingBack
    <3> SUFFICES ASSUME NEW k \in Keys, Begins(k, Authenticate(k)')
                 PROVE  Found(k, Authenticate(k)')
      OBVIOUS
    <3>1. p \in todo /\ p[2] \in Keys /\ p = <<p[1], p[2]>> /\ UNCHANGED now
      BY <2>2, PairFacts DEF Store
    <3>2. CASE k # p[2]
      <4>1. cache'[k] = cache[k] /\ expires'[k] = expires[k]
        BY <2>2, <3>2 DEF Store
      <4> QED
        BY <3>1, <4>1 DEF Authenticate, Live
    <3>3. CASE k = p[2]
      <4>1. cache'[k] = p[1]
        BY <2>2, <3>1, <3>3 DEF Store
      <4>2. Authenticate(k)' = p[1]
        BY <4>1 DEF Authenticate
      <4>3. p \in db \/ left[p] >= begun
        BY <3>1 DEF TodoOK
      <4>4. syncer = "pass"
        BY <3>1
      <4> QED
        BY <3>1, <3>3, <4>2, <4>3, <4>4
    <3> QED
      BY <3>2, <3>3
  <2>3. CASE \/ \E p \in Pairs : Change(p) \/ Skip(p)
             \/ Kill \/ Restart \/ BeginPass \/ FailFind \/ CutShort \/ EndPass
             \/ UNCHANGED vars
    <3>1. UNCHANGED <<now, cache, expires>>
      BY <2>3 DEF Change, Skip, Kill, Restart, BeginPass, FailFind, Down, CutShort, EndPass,
                  redis, vars
    <3> QED
      BY <3>1 DEF Authenticate, Live
  <2> QED
    BY <1>1, <2>1, <2>2, <2>3 DEF Next
<1>2. IInv /\ [Next]_vars =>
        [\A k \in Keys :
           LET u == Authenticate(k)'
           IN  u # NoUser /\ u # Authenticate(k) =>
                 \/ <<u, k>> \in db
                 \/ syncer = "pass" /\ left[<<u, k>>] >= begun]_vars
  BY <1>1
<1> QED
  BY <1>2, Inductive, PTL DEF Spec, NoRevival
==============================================================================
