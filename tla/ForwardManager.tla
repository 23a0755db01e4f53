---------------------------- MODULE ForwardManager ----------------------------
(***************************************************************************)
(* The streams of one SPDY tunnel: ForwardManager of internal/k8s, shared  *)
(* by the Forward calls of the direct-tcpip channels of one connection and *)
(* closed once by Handle when its channel loop is over.                    *)
(*                                                                         *)
(* A Forward call checks closed, draws an id, opens its two streams, and   *)
(* then waits; its clean-up runs once, in the call itself or in the        *)
(* goroutine that watches the context.  What happens under fm.mu is one    *)
(* step; what happens between two critical sections interleaves.           *)
(***************************************************************************)
EXTENDS Integers, FiniteSets

CONSTANT Calls   \* the Forward calls made on this tunnel

ASSUME CallsAssumption == IsFiniteSet(Calls)

VARIABLES
  pc,          \* pc[c]: where call c is in Forward
  id,          \* id[c]: its request id, 0 before it has one
  once,        \* once[c]: its closeAll: "fresh", "torn" (streams closed), "done"
  ended,       \* ended[c]: one of its three helper goroutines has a result
  active,      \* fm.activeStreams: the keys <<id, stream type>>
  reqID,       \* fm.reqID
  closed,      \* fm.closed; the SPDY connection is closed in the same section
  streamGauge, \* PodshK8sActiveTunnelStreams
  tunnelGauge, \* PodshK8sActiveTunnelForwards, as far as this tunnel counts
  ctxDone,     \* the server context is done
  gone,        \* the client's connection is gone: its channels read EOF
  lost         \* the SPDY connection to the pod has died; nobody is told

world  == <<ctxDone, gone, lost>>
shared == <<active, reqID, closed, streamGauge, tunnelGauge, world>>
vars   == <<pc, id, once, ended, active, reqID, closed, streamGauge,
            tunnelGauge, ctxDone, gone, lost>>

StreamsOf(n) == {<<n, "error">>, <<n, "data">>}

\* NewForwardManager has dialled and counted the tunnel.
Init ==
  /\ pc = [c \in Calls |-> "new"]
  /\ id = [c \in Calls |-> 0]
  /\ once = [c \in Calls |-> "fresh"]
  /\ ended = [c \in Calls |-> FALSE]
  /\ active = {}
  /\ reqID = 0
  /\ closed = FALSE
  /\ streamGauge = 0
  /\ tunnelGauge = 1
  /\ ctxDone = FALSE
  /\ gone = FALSE
  /\ lost = FALSE

Goto(c, label) == pc' = [pc EXCEPT ![c] = label]
------------------------------------------------------------------------------
(* Forward. *)

Check(c) ==
  /\ pc[c] = "new"
  /\ Goto(c, IF closed THEN "done" ELSE "checked")
  /\ UNCHANGED <<id, once, ended, shared>>

\* Mutant: the id is the number of open streams, not an atomic counter.
NumberByActive(c) ==
  /\ pc[c] = "checked"
  /\ reqID' = reqID + 1
  /\ id' = [id EXCEPT ![c] = Cardinality(active) + 1]
  /\ Goto(c, "numbered")
  /\ UNCHANGED <<once, ended, active, closed, streamGauge, tunnelGauge, world>>

\* atomic.AddUint64, outside the lock.
Number(c) ==
  /\ pc[c] = "checked"
  /\ reqID' = reqID + 1
  /\ id' = [id EXCEPT ![c] = reqID + 1]
  /\ Goto(c, "numbered")
  /\ UNCHANGED <<once, ended, active, closed, streamGauge, tunnelGauge, world>>

\* Both streams are opened.  closed is not read again: the SPDY connection, which
\* closes gracefully, may still accept them unless it has died.
OpenStreams(c) ==
  /\ pc[c] = "numbered"
  /\ ~lost
  /\ active' = active \cup StreamsOf(id[c])
  /\ Goto(c, "created")
  /\ UNCHANGED <<id, once, ended, reqID, closed, streamGauge, tunnelGauge, world>>

\* Mutant: the error stream stays registered when the data stream fails.
FailStreamsKeep(c) ==
  /\ pc[c] = "numbered"
  /\ active' \in {active, active \cup {<<id[c], "error">>}}
  /\ Goto(c, "done")
  /\ UNCHANGED <<id, once, ended, reqID, closed, streamGauge, tunnelGauge, world>>

\* CreateStream fails: nothing was registered, or the error stream is closed and
\* deleted again before the lock is released.
FailStreams(c) ==
  /\ pc[c] = "numbered"
  /\ Goto(c, "done")
  /\ UNCHANGED <<id, once, ended, shared>>

\* The gauge is raised and the watcher and the three helpers start.
Start(c) ==
  /\ pc[c] = "created"
  /\ streamGauge' = streamGauge + 1
  /\ Goto(c, "waiting")
  /\ UNCHANGED <<id, once, ended, active, reqID, closed, tunnelGauge, world>>

\* A copy or the read of the error stream ends, whatever the reason.
EndHelper(c) ==
  /\ pc[c] = "waiting"
  /\ ~ended[c]
  /\ ended' = [ended EXCEPT ![c] = TRUE]
  /\ UNCHANGED <<pc, id, once, shared>>

\* Mutant: the final select does not wait for the context.
SelectHelpersOnly(c) ==
  /\ pc[c] = "waiting"
  /\ ended[c] /\ ~ctxDone
  /\ Goto(c, "closing")
  /\ UNCHANGED <<id, once, ended, shared>>

\* The final select.
Select(c) ==
  /\ pc[c] = "waiting"
  /\ ended[c] \/ ctxDone
  /\ Goto(c, "closing")
  /\ UNCHANGED <<id, once, ended, shared>>

\* Mutant: closeAll without sync.Once.
TeardownAgain(c) ==
  /\ once[c] # "torn"
  /\ pc[c] = "closing" \/ (pc[c] = "waiting" /\ ctxDone)
  /\ active' = active \ StreamsOf(id[c])
  /\ once' = [once EXCEPT ![c] = "torn"]
  /\ UNCHANGED <<pc, id, ended, reqID, closed, streamGauge, tunnelGauge, world>>

\* closeAll up to its unlock, in the call after the select or in the watcher as soon
\* as the context is done.
Teardown(c) ==
  /\ once[c] = "fresh"
  /\ pc[c] = "closing" \/ (pc[c] = "waiting" /\ ctxDone)
  /\ active' = active \ StreamsOf(id[c])
  /\ once' = [once EXCEPT ![c] = "torn"]
  /\ UNCHANGED <<pc, id, ended, reqID, closed, streamGauge, tunnelGauge, world>>

\* The deferred Dec runs after the unlock.
Uncount(c) ==
  /\ once[c] = "torn"
  /\ once' = [once EXCEPT ![c] = "done"]
  /\ streamGauge' = streamGauge - 1
  /\ UNCHANGED <<pc, id, ended, active, reqID, closed, tunnelGauge, world>>

\* once.Do returns only when the function it ran has returned.
Return(c) ==
  /\ pc[c] = "closing"
  /\ once[c] = "done"
  /\ Goto(c, "done")
  /\ UNCHANGED <<id, once, ended, shared>>
------------------------------------------------------------------------------
(* Handle and its surroundings. *)

Shutdown ==
  /\ ~ctxDone
  /\ ctxDone' = TRUE
  /\ UNCHANGED <<pc, id, once, ended, active, reqID, closed, streamGauge, tunnelGauge,
                 gone, lost>>

Hangup ==
  /\ ~gone
  /\ gone' = TRUE
  /\ UNCHANGED <<pc, id, once, ended, active, reqID, closed, streamGauge, tunnelGauge,
                 ctxDone, lost>>

\* The connection to the pod dies: Handle keeps the tunnel and goes on using it.
Lose ==
  /\ ~lost
  /\ lost' = TRUE
  /\ UNCHANGED <<pc, id, once, ended, active, reqID, closed, streamGauge, tunnelGauge,
                 ctxDone, gone>>

\* Mutant: Close without closeOnce.
CloseAgain ==
  /\ ctxDone \/ gone
  /\ closed' = TRUE
  /\ active' = {}
  /\ tunnelGauge' = tunnelGauge - 1
  /\ UNCHANGED <<pc, id, once, ended, reqID, streamGauge, world>>

\* Close, under closeOnce.  Handle calls it when its loop has ended.
Close ==
  /\ ctxDone \/ gone
  /\ ~closed
  /\ closed' = TRUE
  /\ active' = {}
  /\ tunnelGauge' = tunnelGauge - 1
  /\ UNCHANGED <<pc, id, once, ended, reqID, streamGauge, world>>
------------------------------------------------------------------------------
CallStep(c) ==
  \/ Check(c) \/ Number(c) \/ OpenStreams(c) \/ FailStreams(c) \/ Start(c)
  \/ Select(c) \/ Teardown(c) \/ Uncount(c) \/ Return(c)

Next ==
  \/ \E c \in Calls : CallStep(c)
  \/ \E c \in Calls : EndHelper(c)
  \/ Shutdown
  \/ Hangup
  \/ Lose
  \/ Close

Spec == Init /\ [][Next]_vars

(***************************************************************************)
(* Goroutines that can step do; CreateStream returns (spdystream bounds    *)
(* its wait); a copy from a connection that is gone or dead ends; Handle   *)
(* closes the tunnel after its loop.  A copy between live connections need *)
(* never end.                                                              *)
(***************************************************************************)
Fairness ==
  /\ \A c \in Calls : /\ WF_vars(CallStep(c))
                       /\ WF_vars((gone \/ lost) /\ EndHelper(c))
  /\ WF_vars(Close)

FairSpec == Spec /\ Fairness
------------------------------------------------------------------------------
(* Properties. *)

Labels == {"new", "checked", "numbered", "created", "waiting", "closing", "done"}

TypeOK ==
  /\ pc \in [Calls -> Labels]
  /\ id \in [Calls -> Nat]
  /\ once \in [Calls -> {"fresh", "torn", "done"}]
  /\ ended \in [Calls -> BOOLEAN]
  /\ active \subseteq Nat \X {"error", "data"}
  /\ reqID \in Nat
  /\ closed \in BOOLEAN
  /\ streamGauge \in Nat
  /\ tunnelGauge \in 0..1
  /\ ctxDone \in BOOLEAN
  /\ gone \in BOOLEAN
  /\ lost \in BOOLEAN

\* A call that opened its streams and has not torn them down.
Holding(c) == pc[c] \in {"created", "waiting", "closing"} /\ once[c] = "fresh"

\* While the tunnel is open, a call that holds streams finds both of them in
\* activeStreams: no other call's clean-up or registration touched its keys.
HoldersKeepStreams ==
  ~closed => \A c \in Calls : Holding(c) => StreamsOf(id[c]) \subseteq active

\* A call that returned, on whichever path, left no stream behind in activeStreams,
\* not even when it opened its streams after Close had emptied the map.
NoStreamLeak ==
  \A c \in Calls : pc[c] = "done" => StreamsOf(id[c]) \cap active = {}

\* The gauge counts the calls between their Inc and their Dec: closeAll runs in two
\* goroutines and counts once.
GaugeExact ==
  streamGauge = Cardinality({c \in Calls : /\ pc[c] \in {"waiting", "closing"}
                                           /\ once[c] # "done"})

\* When the server stops or the client is gone every Forward returns, so that the
\* eg.Wait of Handle does; and the calls on a tunnel that has died, which Handle goes
\* on handing out, return too and give their slots back.
CallsEnd == (ctxDone \/ gone \/ lost) ~> \A c \in Calls : pc[c] = "done"
==============================================================================
