---------------------------- MODULE IdentitySync ----------------------------
(***************************************************************************)
(* How identities reach the authenticator: the periodic syncer of          *)
(* internal/workers/syncdb copies every user's public keys from MongoDB to *)
(* Redis with a ttl, and RedisPublicKeyAuthenticator reads them there.     *)
(*                                                                         *)
(* Nothing deletes an entry: a key that was removed from its user stops    *)
(* working when its entry expires, and a key that stays works only as long *)
(* as every pass comes in time.  A pass reads documents in batches, so a   *)
(* change made during a pass may or may not be seen by it.                 *)
(***************************************************************************)
EXTENDS Integers, FiniteSets

CONSTANTS
  Users, Keys,
  Pairs,       \* the <<user, key>> pairs that may occur in MongoDB
  NoUser,      \* no identity
  Interval,    \* the ticker's period
  Slack,       \* 5 s: what the ttl adds to the interval
  MaxPass,     \* bound on the time a pass takes
  MaxChanges,  \* bound on the changes made to MongoDB
  Horizon      \* bound on time

\* A pass is assumed to be shorter than the slack, and so than the interval.
ASSUME SyncAssumption ==
  /\ Pairs \subseteq Users \X Keys
  /\ NoUser \notin Users
  /\ Interval \in Nat \ {0}
  /\ Slack \in Nat
  /\ MaxPass \in Nat
  /\ MaxPass < Slack
  /\ MaxPass < Interval
  /\ MaxChanges \in Nat
  /\ Horizon \in Nat

TTL == Interval + Slack

VARIABLES
  now,      \* the clock of Redis and of the syncer
  db,       \* MongoDB: the pairs it holds
  cache,    \* Redis: cache[k] = the user last stored under k
  expires,  \* expires[k]: when that entry expires
  syncer,   \* "idle", "pass", or "down" (the process is not running)
  next,     \* when the ticker fires next
  pending,  \* the ticker's channel holds a tick
  begun,    \* when the pass began
  todo,     \* the pairs the pass has still to store
  left,     \* history: left[p] = when pair p last left MongoDB, -1 if never
  steady,   \* history: the keys whose owners did not change since the pass began
  clean,    \* history: nothing of this pass failed so far
  settled,  \* history: keys that a clean pass stored and that did not change since
  changes   \* history: changes made so far

mongo   == <<db, left, changes>>
redis   == <<cache, expires>>
ticker  == <<next, pending>>
vars    == <<now, db, cache, expires, syncer, next, pending, begun, todo,
             left, steady, clean, settled, changes>>

Init ==
  /\ now = 0
  /\ db \in SUBSET Pairs
  /\ cache = [k \in Keys |-> NoUser]
  /\ expires = [k \in Keys |-> 0]
  /\ syncer = "idle"
  /\ next = Interval
  /\ pending = FALSE
  /\ begun = 0
  /\ todo = {}
  /\ left = [p \in Pairs |-> -1]
  /\ steady = {}
  /\ clean = FALSE
  /\ settled = {}
  /\ changes = 0

Live(k) == now < expires[k]

\* RedisPublicKeyAuthenticator.Authenticate.
Authenticate(k) == IF Live(k) THEN cache[k] ELSE NoUser

Owned(k) == \E p \in db : p[2] = k
------------------------------------------------------------------------------
(* The environment. *)

\* Time does not pass while a tick waits for an idle syncer, nor beyond the bound on
\* a pass.  A tick that finds the ticker's channel full is dropped.
Tick ==
  /\ now < Horizon
  /\ ~(syncer = "idle" /\ pending)
  /\ syncer = "pass" => now < begun + MaxPass
  /\ now' = now + 1
  /\ IF syncer # "down" /\ now + 1 = next
     THEN pending' = TRUE /\ next' = next + Interval
     ELSE UNCHANGED ticker
  /\ UNCHANGED <<mongo, redis, syncer, begun, todo, steady, clean, settled>>

\* A user gains or loses a key.  The running pass may have read the document or not.
Change(p) ==
  /\ changes < MaxChanges
  /\ changes' = changes + 1
  /\ IF p \in db
     THEN /\ db' = db \ {p}
          /\ left' = [left EXCEPT ![p] = now]
          /\ todo' \in {todo, todo \ {p}}
     ELSE /\ db' = db \cup {p}
          /\ UNCHANGED left
          /\ todo' \in {todo, IF syncer = "pass" THEN todo \cup {p} ELSE todo}
  /\ steady' = steady \ {p[2]}
  /\ settled' = settled \ {p[2]}
  /\ UNCHANGED <<now, redis, syncer, ticker, begun, clean>>

\* The process ends, on a signal, a kill, or an error of Find.
Down ==
  /\ syncer' = "down"
  /\ todo' = {}
  /\ pending' = FALSE
  /\ clean' = FALSE
  /\ settled' = {}
  /\ UNCHANGED <<now, mongo, redis, next, begun, steady>>

Kill ==
  /\ syncer # "down"
  /\ Down

\* A new process: its first pass comes after a whole interval.
Restart ==
  /\ syncer = "down"
  /\ syncer' = "idle"
  /\ next' = now + Interval
  /\ UNCHANGED <<now, mongo, redis, pending, begun, todo, steady, clean, settled>>
------------------------------------------------------------------------------
(* The syncer. *)

\* Mutant: the pass also renews what Redis was given by an earlier one.
BeginPassRenewing ==
  /\ syncer = "idle"
  /\ pending
  /\ pending' = FALSE
  /\ syncer' = "pass"
  /\ begun' = now
  /\ todo' = db \cup {p \in Pairs : cache[p[2]] = p[1]}
  /\ steady' = Keys
  /\ clean' = TRUE
  /\ UNCHANGED <<now, mongo, redis, next, settled>>

\* Find succeeds and the pass begins.
BeginPass ==
  /\ syncer = "idle"
  /\ pending
  /\ pending' = FALSE
  /\ syncer' = "pass"
  /\ begun' = now
  /\ todo' = db
  /\ steady' = Keys
  /\ clean' = TRUE
  /\ UNCHANGED <<now, mongo, redis, next, settled>>

\* Find fails: Start returns its error and main exits.
FailFind ==
  /\ syncer = "idle"
  /\ pending
  /\ Down

\* Mutant: an entry that never expires.
LifetimeForever == Horizon

\* Mutant: an entry that lives just until the next pass begins.
LifetimeInterval == Interval

Lifetime == TTL

\* One public key of one user is stored.
Store(p) ==
  /\ p \in todo
  /\ todo' = todo \ {p}
  /\ cache' = [cache EXCEPT ![p[2]] = p[1]]
  /\ expires' = [expires EXCEPT ![p[2]] = now + Lifetime]
  /\ UNCHANGED <<now, mongo, syncer, ticker, begun, steady, clean, settled>>

\* The document does not decode, the key does not parse, or Set fails: logged only.
Skip(p) ==
  /\ p \in todo
  /\ todo' = todo \ {p}
  /\ clean' = FALSE
  /\ settled' = settled \ {p[2]}
  /\ UNCHANGED <<now, mongo, redis, syncer, ticker, begun, steady>>

\* Mutant: the cursor's error leaves the loop with the rest still listed.
CutShortKeep ==
  /\ syncer = "pass"
  /\ todo # {}
  /\ syncer' = "idle"
  /\ clean' = FALSE
  /\ settled' = {}
  /\ UNCHANGED <<now, mongo, redis, ticker, begun, todo, steady>>

\* cursor.Next returns FALSE on an error as at the end; cursor.Err is not looked at.
CutShort ==
  /\ syncer = "pass"
  /\ todo # {}
  /\ todo' = {}
  /\ clean' = FALSE
  /\ settled' = {}
  /\ UNCHANGED <<now, mongo, redis, syncer, ticker, begun, steady>>

EndPass ==
  /\ syncer = "pass"
  /\ todo = {}
  /\ syncer' = "idle"
  /\ settled' = settled \cup {k \in steady : clean /\ Owned(k)}
  /\ UNCHANGED <<now, mongo, redis, ticker, begun, todo, steady, clean>>

Next ==
  \/ Tick
  \/ \E p \in Pairs : Change(p)
  \/ Kill
  \/ Restart
  \/ BeginPass
  \/ FailFind
  \/ \E p \in Pairs : Store(p)
  \/ \E p \in Pairs : Skip(p)
  \/ CutShort
  \/ EndPass

Spec == Init /\ [][Next]_vars
------------------------------------------------------------------------------
(* Properties. *)

TypeOK ==
  /\ now \in Nat
  /\ db \subseteq Pairs
  /\ cache \in [Keys -> Users \cup {NoUser}]
  /\ expires \in [Keys -> Nat]
  /\ syncer \in {"idle", "pass", "down"}
  /\ next \in Nat
  /\ pending \in BOOLEAN
  /\ begun \in 0..now
  /\ todo \subseteq Pairs
  /\ syncer # "pass" => todo = {}
  /\ left \in [Pairs -> {-1} \cup 0..now]
  /\ steady \subseteq Keys
  /\ clean \in BOOLEAN
  /\ settled \subseteq Keys
  /\ changes \in 0..MaxChanges

\* A key authenticates only as a user that has it, or that lost it less than a ttl and
\* a pass ago: a revoked key stops working, whatever fails in between.
RevocationBound ==
  \A k \in Keys :
    LET u == Authenticate(k)
    IN  u # NoUser => \/ <<u, k>> \in db
                      \/ now < left[<<u, k>>] + MaxPass + TTL

\* A key begins to authenticate as a user only from a pass that found it with that user:
\* one revoked before the running pass began is not brought back, by no restart, late
\* store or change of hands of a shared key.
NoRevival ==
  [][\A k \in Keys :
       LET u == Authenticate(k)'
       IN  u # NoUser /\ u # Authenticate(k) =>
             \/ <<u, k>> \in db
             \/ syncer = "pass" /\ left[<<u, k>>] >= begun]_vars

\* A key that a clean pass has stored authenticates without a gap for as long as no
\* pass fails and its owners stay the same: the slack covers the drift of its turn in
\* the pass.
NoGap == \A k \in settled : <<Authenticate(k), k>> \in db
==============================================================================
