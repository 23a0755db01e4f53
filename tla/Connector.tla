------------------------------ MODULE Connector ------------------------------
(***************************************************************************)
(* One SSH connection: Handle of internal/sshd/connector.go with the       *)
(* identity that publicKeyCallback leaves in the permissions, the group of *)
(* at most perConnGoroutineCap goroutines, and the map of k8s tunnels.     *)
(*                                                                         *)
(* A session goroutine is module Session and a forward goroutine is a call *)
(* of module ForwardManager; here each one only runs and ends, or, if it   *)
(* is a session whose client overdraws Session's budget, parks for ever.   *)
(***************************************************************************)
EXTENDS Integers, FiniteSets

CONSTANTS
  Channels,  \* the channels the client may open
  Dests,     \* destinations of direct-tcpip channels, the keys of forwarded
  Cap        \* perConnGoroutineCap: 10

ASSUME ConnectorAssumption ==
  /\ IsFiniteSet(Channels)
  /\ IsFiniteSet(Dests)
  /\ "session" \notin Dests /\ "none" \notin Dests
  /\ Cap \in Nat \ {0}

VARIABLES
  phase,      \* "handshake", "loop", "dial", "spawn", "close", "wait", "returned"
  identity,   \* [user, host]: whether UserID and RequestedHostname are not empty
  failedAuth, \* PodshFailedAuth
  goodAuth,   \* PodshSuccessfulAuth
  at,         \* at[c]: what became of channel c
  want,       \* want[c]: "session", the destination of c, or "none"
  forwarded,  \* the destinations in the map forwarded
  open,       \* the destinations whose tunnel is open
  slots,      \* slots of the errgroup that are taken
  global,     \* handleGlobalReqs is running
  gone,       \* the connection is lost: chans and reqs are closed
  ctxDone     \* the server context is done

auth == <<identity, failedAuth, goodAuth>>
ends == <<gone, ctxDone>>
vars == <<phase, identity, failedAuth, goodAuth, at, want, forwarded, open, slots,
          global, gone, ctxDone>>

Init ==
  /\ phase = "handshake"
  /\ identity = [user |-> FALSE, host |-> FALSE]
  /\ failedAuth = 0
  /\ goodAuth = 0
  /\ at = [c \in Channels |-> "unopened"]
  /\ want = [c \in Channels |-> "none"]
  /\ forwarded = {}
  /\ open = {}
  /\ slots = 0
  /\ global = FALSE
  /\ gone = FALSE
  /\ ctxDone = FALSE

Move(c, place) == at' = [at EXCEPT ![c] = place]
------------------------------------------------------------------------------
(* Authentication. *)

\* The handshake fails: no key is known, the client leaves, or 10 s have passed.
FailHandshake ==
  /\ phase = "handshake"
  /\ failedAuth' = failedAuth + 1
  /\ phase' = "returned"
  /\ UNCHANGED <<identity, goodAuth, at, want, forwarded, open, slots, global, ends>>

\* SetDeadline fails on a connection that is already closed.
FailDeadline ==
  /\ phase = "handshake"
  /\ phase' = "returned"
  /\ UNCHANGED <<auth, at, want, forwarded, open, slots, global, ends>>

\* Mutant: the requested host is not looked at.
PermittedAnyHost(id) == id.user

\* An identity without a user id, or a login without a deployment name, is refused.
Permitted(id) == id.user /\ id.host

\* encodeIdentity and decodeIdentity around the permissions: the user id survives the
\* wire form, and one that cannot be written or read decodes to no identity at all.
Decoded(user, readable) == user /\ readable

\* A known key.  The identity stored under it is decoded, and the login name is the
\* requested host.  The goroutine for global requests is the first of the group.
Authenticate(user, readable, host) ==
  LET id == [user |-> Decoded(user, readable), host |-> host]
  IN  /\ phase = "handshake"
      /\ ~gone
      /\ identity' = id
      /\ IF Permitted(id)
         THEN /\ goodAuth' = goodAuth + 1
              /\ phase' = "loop"
              /\ slots' = slots + 1
              /\ global' = TRUE
              /\ UNCHANGED failedAuth
         ELSE /\ failedAuth' = failedAuth + 1
              /\ phase' = "returned"
              /\ UNCHANGED <<goodAuth, slots, global>>
      /\ UNCHANGED <<at, want, forwarded, open, ends>>
------------------------------------------------------------------------------
(* The channel loop. *)

TakeSession(c) ==
  /\ phase = "loop"
  /\ at[c] = "unopened"
  /\ Move(c, "pending")
  /\ want' = [want EXCEPT ![c] = "session"]
  /\ phase' = "spawn"
  /\ UNCHANGED <<auth, forwarded, open, slots, global, ends>>

\* The tunnel of a destination is looked up; it is dialled once.
TakeDirect(c, d) ==
  /\ phase = "loop"
  /\ at[c] = "unopened"
  /\ Move(c, "pending")
  /\ want' = [want EXCEPT ![c] = d]
  /\ phase' = IF d \in forwarded THEN "spawn" ELSE "dial"
  /\ UNCHANGED <<auth, forwarded, open, slots, global, ends>>

\* An unknown channel type, or a direct-tcpip payload that does not parse.
RejectChannel(c) ==
  /\ phase = "loop"
  /\ at[c] = "unopened"
  /\ Move(c, "rejected")
  /\ UNCHANGED <<phase, auth, want, forwarded, open, slots, global, ends>>

\* OpenTunnel fails: no pod, or the dial fails.
FailTunnel(c) ==
  /\ phase = "dial"
  /\ at[c] = "pending"
  /\ Move(c, "rejected")
  /\ phase' = "loop"
  /\ UNCHANGED <<auth, want, forwarded, open, slots, global, ends>>

\* Mutant: the new tunnel is not put into the map.
OpenTunnelForget(c) ==
  /\ phase = "dial"
  /\ at[c] = "pending"
  /\ open' = open \cup {want[c]}
  /\ phase' = "spawn"
  /\ UNCHANGED <<auth, at, want, forwarded, slots, global, ends>>

OpenTunnel(c) ==
  /\ phase = "dial"
  /\ at[c] = "pending"
  /\ forwarded' = forwarded \cup {want[c]}
  /\ open' = open \cup {want[c]}
  /\ phase' = "spawn"
  /\ UNCHANGED <<auth, at, want, slots, global, ends>>

\* channel.Accept fails on a lost connection; the loop goes on.
FailAccept(c) ==
  /\ phase = "spawn"
  /\ at[c] = "pending"
  /\ gone
  /\ Move(c, "rejected")
  /\ phase' = "loop"
  /\ UNCHANGED <<auth, want, forwarded, open, slots, global, ends>>

\* Mutant: eg.Go without the limit.
SpawnUnlimited(c) ==
  /\ phase = "spawn"
  /\ at[c] = "pending"
  /\ Move(c, "running")
  /\ slots' = slots + 1
  /\ phase' = "loop"
  /\ UNCHANGED <<auth, want, forwarded, open, global, ends>>

\* The channel is accepted and TryGo starts its goroutine; without a slot the client
\* gets exit-status 1 and the channel is closed.
Spawn(c) ==
  /\ phase = "spawn"
  /\ at[c] = "pending"
  /\ IF slots < Cap
     THEN Move(c, "running") /\ slots' = slots + 1
     ELSE Move(c, "closed") /\ slots' = slots
  /\ phase' = "loop"
  /\ UNCHANGED <<auth, want, forwarded, open, global, ends>>

\* Mutant: the loop's end goes straight to eg.Wait, the tunnels are closed after it.
ExitLoopWaitFirst ==
  /\ phase = "loop"
  /\ ctxDone \/ gone
  /\ phase' = IF slots = 0 THEN "close" ELSE "loop"
  /\ UNCHANGED <<auth, at, want, forwarded, open, slots, global, ends>>

\* The context is done, or chans is closed.
ExitLoop ==
  /\ phase = "loop"
  /\ ctxDone \/ gone
  /\ phase' = "close"
  /\ UNCHANGED <<auth, at, want, forwarded, open, slots, global, ends>>

\* fw.Close, once per entry of the map.
CloseTunnel(d) ==
  /\ phase = "close"
  /\ d \in forwarded \cap open
  /\ open' = open \ {d}
  /\ UNCHANGED <<phase, auth, at, want, forwarded, slots, global, ends>>

TunnelsClosed ==
  /\ phase = "close"
  /\ forwarded \cap open = {}
  /\ phase' = "wait"
  /\ UNCHANGED <<auth, at, want, forwarded, open, slots, global, ends>>

\* Mutant: the connection is closed under the goroutines of the group.
ReturnEarly ==
  /\ phase = "wait"
  /\ phase' = "returned"
  /\ gone' = TRUE
  /\ UNCHANGED <<auth, at, want, forwarded, open, slots, global, ctxDone>>

\* eg.Wait, and the deferred closes of the connection.
Return ==
  /\ phase = "wait"
  /\ slots = 0
  /\ phase' = "returned"
  /\ gone' = TRUE
  /\ UNCHANGED <<auth, at, want, forwarded, open, slots, global, ctxDone>>
------------------------------------------------------------------------------
(* The goroutines of the group. *)

\* Mutant: the goroutine's slot is not given back.
EndChannelKeepSlot(c) ==
  /\ at[c] = "running"
  /\ Move(c, "closed")
  /\ UNCHANGED <<phase, auth, want, forwarded, open, slots, global, ends>>

\* The session or the forward is over: an exit-status is sent and the channel closed.
EndChannel(c) ==
  /\ at[c] = "running"
  /\ Move(c, "closed")
  /\ slots' = slots - 1
  /\ UNCHANGED <<phase, auth, want, forwarded, open, global, ends>>

\* The request loop of a session sends on a full resizeCh or exec channel that nothing
\* reads any more (Session!Overdrawn): no context reaches it there and it never ends.
Park(c) ==
  /\ at[c] = "running"
  /\ want[c] = "session"
  /\ Move(c, "parked")
  /\ UNCHANGED <<phase, auth, want, forwarded, open, slots, global, ends>>

\* Mutant: only the end of reqs is watched.
EndGlobalOnHangup ==
  /\ global
  /\ gone
  /\ global' = FALSE
  /\ slots' = slots - 1
  /\ UNCHANGED <<phase, auth, at, want, forwarded, open, ends>>

\* handleGlobalReqs answers requests until reqs is closed or the context is done.
EndGlobal ==
  /\ global
  /\ gone \/ ctxDone
  /\ global' = FALSE
  /\ slots' = slots - 1
  /\ UNCHANGED <<phase, auth, at, want, forwarded, open, ends>>

Hangup ==
  /\ ~gone
  /\ gone' = TRUE
  /\ UNCHANGED <<phase, auth, at, want, forwarded, open, slots, global, ctxDone>>

Shutdown ==
  /\ ~ctxDone
  /\ ctxDone' = TRUE
  /\ UNCHANGED <<phase, auth, at, want, forwarded, open, slots, global, gone>>
------------------------------------------------------------------------------
\* The dial of a tunnel, which has neither a context nor a timeout.
DialStep == \E c \in Channels : FailTunnel(c) \/ OpenTunnel(c)

HandleStep ==
  \/ FailHandshake
  \/ FailDeadline
  \/ \E user, readable, host \in BOOLEAN : Authenticate(user, readable, host)
  \/ \E c \in Channels : FailAccept(c) \/ Spawn(c)
  \/ ExitLoop
  \/ \E d \in Dests : CloseTunnel(d)
  \/ TunnelsClosed
  \/ Return

Next ==
  \/ HandleStep
  \/ DialStep
  \/ \E c \in Channels : TakeSession(c) \/ RejectChannel(c)
  \/ \E c \in Channels, d \in Dests : TakeDirect(c, d)
  \/ \E c \in Channels : EndChannel(c) \/ Park(c)
  \/ EndGlobal
  \/ Hangup
  \/ Shutdown

Spec == Init /\ [][Next]_vars

(***************************************************************************)
(* Handle and its goroutines step when they can, and the handshake ends    *)
(* within its deadline.  A channel's goroutine that is not parked ends     *)
(* once the context is done, and a forward also when the connection is     *)
(* gone (SessionEnds, CallsEnd).  A session whose program ignores the end  *)
(* of its input need not end before the context is done, and a parked one  *)
(* never ends.  Nothing makes the API server answer a dial: the liveness   *)
(* properties say where they depend on it.                                 *)
(***************************************************************************)
Fairness ==
  /\ WF_vars(HandleStep)
  /\ WF_vars(EndGlobal)
  /\ \A c \in Channels :
       WF_vars((ctxDone \/ (gone /\ want[c] \in Dests)) /\ EndChannel(c))

FairSpec == Spec /\ Fairness
------------------------------------------------------------------------------
(* Properties. *)

TypeOK ==
  /\ phase \in {"handshake", "loop", "dial", "spawn", "close", "wait", "returned"}
  /\ identity \in [user : BOOLEAN, host : BOOLEAN]
  /\ failedAuth \in 0..1
  /\ goodAuth \in 0..1
  /\ at \in [Channels -> {"unopened", "pending", "running", "parked", "rejected", "closed"}]
  /\ want \in [Channels -> Dests \cup {"session", "none"}]
  /\ forwarded \subseteq Dests
  /\ open \subseteq Dests
  /\ slots \in 0..Cap
  /\ global \in BOOLEAN
  /\ gone \in BOOLEAN
  /\ ctxDone \in BOOLEAN

\* The channels whose goroutine has not ended.
Running == {c \in Channels : at[c] \in {"running", "parked"}}

\* The group's slots are exactly its goroutines: a channel that ended, was rejected or
\* found no slot keeps none, so a connection never starves itself of goroutines.
SlotsExact == slots = Cardinality(Running) + (IF global THEN 1 ELSE 0)

\* A channel is served, and a tunnel opened, only for a user id that asked for a
\* deployment, and such a connection was counted as a success.
ServedIsPermitted ==
  Running # {} \/ open # {} => identity.user /\ identity.host /\ goodAuth = 1

\* When Handle has returned, on whichever path, every goroutine of its group is over,
\* every slot given back and every tunnel closed.  What its handlers started outside the
\* group is not meant: the terminal-size goroutine of a shell stays (see Session).
HandleReleases ==
  phase = "returned" => Running = {} /\ open = {} /\ slots = 0

\* The connection as a task group: its channels are the tasks.
GroupStage ==
  CASE phase = "handshake"                 -> "idle"
    [] phase \in {"loop", "dial", "spawn"} -> "open"
    [] phase \in {"close", "wait"}         -> "draining"
    [] phase = "returned"                  -> "closed"

ChannelTask(c) ==
  CASE at[c] \in {"unopened", "pending"} -> "fresh"
    [] at[c] \in {"running", "parked"}   -> "running"
    [] at[c] \in {"rejected", "closed"}  -> "over"

Group == INSTANCE TaskGroup WITH
  Tasks <- Channels,
  Limit <- Cap,
  stage <- GroupStage,
  task  <- [c \in Channels |-> ChannelTask(c)]

\* A channel is served at most once, never after Handle stopped taking channels, with
\* at most Cap of them at a time, and Handle returns over no running one.
Implements == Group!Spec

\* No dial of the channel loop waits for ever for the API server.
DialsAnswered == []<>(phase # "dial")

\* A connection that is gone releases its tunnels, even when one of its sessions never
\* ends, provided its dials are answered.
TunnelsReleased == DialsAnswered => (gone ~> open = {})

\* A cancelled server gets every Handle back whose dials are answered and of whose
\* sessions none is parked: eg.Wait would wait for that one for ever.
HandleReturns ==
  DialsAnswered => (ctxDone ~> \/ phase = "returned"
                               \/ \E c \in Channels : at[c] = "parked")
==============================================================================
