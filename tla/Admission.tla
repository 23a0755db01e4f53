------------------------------ MODULE Admission ------------------------------
(***************************************************************************)
(* The server process from Start to its exit: ListenAndServe of            *)
(* internal/sshd/listen.go, the tarpit of internal/tarpit/tarpit.go, the   *)
(* probe server of pkg/metrics that Start runs beside it, and what Handle  *)
(* means to them: it runs in a goroutine of the errgroup, ends with or     *)
(* without an error, and closes its connection.                            *)
(*                                                                         *)
(* The acceptor goroutine decides one connection at a time.  A denied one  *)
(* goes to the tarpit's bounded queue; the tarpit's run loop hands it to a *)
(* worker when a slot of the semaphore is free; the worker holds it for    *)
(* its delay and closes it.                                                *)
(***************************************************************************)
EXTENDS Integers, Sequences, FiniteSets, SequencesExt

CONSTANTS
  Conns,       \* the connections that clients open
  JobsCap,     \* capacity of the tarpit's queue: 1000 in NewTarpit
  MaxWorkers   \* capacity of its semaphore: 10 in New

ASSUME AdmissionAssumption ==
  /\ IsFiniteSet(Conns)
  /\ JobsCap \in Nat
  /\ MaxWorkers \in Nat \ {0}

VARIABLES
  at,        \* at[c]: who has connection c
  acceptor,  \* "accept", "decide" (a connection is in its hands) or "exited"
  jobs,      \* the tarpit's queue
  run,       \* the tarpit's run loop: "select", "sem" or "exited"
  sem,       \* slots of the semaphore that are taken
  serve,     \* ListenAndServe: "bind", "select", "wait" (in eg.Wait) or "returned"
  firstErr,  \* the error the errgroup keeps: "none", "failed" or "canceled"
  probe,     \* the probe server: "serving", "draining" (in Shutdown) or "exited"
  status,    \* the process: "running", or its exit status "ok" or "error"
  ctxDone    \* the server context is done

process == <<serve, probe, status, ctxDone>>
vars    == <<at, acceptor, jobs, run, sem, serve, firstErr, probe, status, ctxDone>>

\* NewTarpit starts the run loop.
InitTarpit ==
  /\ jobs = <<>>
  /\ run = "select"
  /\ sem = 0

\* The server is built, its tarpit with it, and Start was called.
Init ==
  /\ InitTarpit
  /\ at = [c \in Conns |-> "client"]
  /\ acceptor = "accept"
  /\ serve = "bind"
  /\ firstErr = "none"
  /\ probe = "serving"
  /\ status = "running"
  /\ ctxDone = FALSE

Move(c, place) == at' = [at EXCEPT ![c] = place]

\* errgroup keeps the first error only.
Keep(err) == firstErr' = IF firstErr = "none" THEN err ELSE firstErr

\* The listener is closed by ListenAndServe when it sees the context done.
ListenerOpen == serve = "select"
------------------------------------------------------------------------------
(* The acceptor. *)

Accept(c) ==
  /\ acceptor = "accept"
  /\ ListenerOpen
  /\ at[c] = "client"
  /\ Move(c, "deciding")
  /\ acceptor' = "decide"
  /\ UNCHANGED <<jobs, run, sem, firstErr, process>>

\* Mutant: a cancelled acceptor returns nil.
StopAcceptingQuietly ==
  /\ acceptor = "accept"
  /\ serve # "bind"
  /\ ctxDone
  /\ acceptor' = "exited"
  /\ UNCHANGED <<at, jobs, run, sem, firstErr, process>>

\* Accept fails, on the closed listener or otherwise, when the context is done; an
\* earlier failure is logged and the loop goes on.
StopAccepting ==
  /\ acceptor = "accept"
  /\ serve # "bind"
  /\ ctxDone
  /\ acceptor' = "exited"
  /\ Keep("canceled")
  /\ UNCHANGED <<at, jobs, run, sem, process>>

\* No key, or a denial without a delay.
Refuse(c) ==
  /\ at[c] = "deciding"
  /\ Move(c, "closed")
  /\ acceptor' = "accept"
  /\ UNCHANGED <<jobs, run, sem, firstErr, process>>

\* The limiter denies and says how long: the tarpit is to have the connection.
Deny(c) ==
  /\ at[c] = "deciding"
  /\ Move(c, "denied")
  /\ UNCHANGED <<acceptor, jobs, run, sem, firstErr, process>>

\* Mutant: Add waits for room in the queue.
AddBlocking(c) ==
  /\ at[c] = "denied"
  /\ Len(jobs) < JobsCap
  /\ Move(c, "queued")
  /\ jobs' = Append(jobs, c)
  /\ acceptor' = "accept"
  /\ UNCHANGED <<run, sem, firstErr, process>>

\* Mutant: Add without a bound.
AddUnbounded(c) ==
  /\ at[c] = "denied"
  /\ Move(c, "queued")
  /\ jobs' = Append(jobs, c)
  /\ acceptor' = "accept"
  /\ UNCHANGED <<run, sem, firstErr, process>>

\* The tarpit's Add closes what it has no room for.
Add(c) ==
  /\ at[c] = "denied"
  /\ IF Len(jobs) < JobsCap
     THEN Move(c, "queued") /\ jobs' = Append(jobs, c)
     ELSE Move(c, "closed") /\ jobs' = jobs
  /\ acceptor' = "accept"
  /\ UNCHANGED <<run, sem, firstErr, process>>

\* eg.TryGo: the group has no limit, so it always starts the handler.
StartHandler(c) ==
  /\ at[c] = "deciding"
  /\ Move(c, "handler")
  /\ acceptor' = "accept"
  /\ UNCHANGED <<jobs, run, sem, firstErr, process>>

\* Handle returns; context.Canceled does not count as an error.
EndHandler(c, failed) ==
  /\ at[c] = "handler"
  /\ Move(c, "closed")
  /\ IF failed THEN Keep("failed") ELSE firstErr' = firstErr
  /\ UNCHANGED <<acceptor, jobs, run, sem, process>>

\* Handle waits for ever, for a session that is parked (Connector!Park) or for a dial
\* that is not answered.
Stick(c) ==
  /\ at[c] = "handler"
  /\ Move(c, "stuck")
  /\ UNCHANGED <<acceptor, jobs, run, sem, firstErr, process>>
------------------------------------------------------------------------------
(* The tarpit. *)

TakeJob ==
  /\ run = "select"
  /\ jobs # <<>>
  /\ jobs' = Tail(jobs)
  /\ Move(Head(jobs), "slot")
  /\ run' = "sem"
  /\ UNCHANGED <<acceptor, sem, firstErr, process>>

StartDelay(c) ==
  /\ run = "sem"
  /\ at[c] = "slot"
  /\ sem < MaxWorkers
  /\ sem' = sem + 1
  /\ Move(c, "delay")
  /\ run' = "select"
  /\ UNCHANGED <<acceptor, jobs, firstErr, process>>

\* The job in hand and the queue stay as they are: nobody closes them any more.
StopTarpit ==
  /\ run \in {"select", "sem"}
  /\ ctxDone
  /\ run' = "exited"
  /\ UNCHANGED <<at, acceptor, jobs, sem, firstErr, process>>

\* Mutant: the slot is not given back.
EndDelayKeepSlot(c) ==
  /\ at[c] = "delay"
  /\ Move(c, "closed")
  /\ UNCHANGED <<acceptor, jobs, run, sem, firstErr, process>>

\* The timer fires or the context is done.
EndDelay(c) ==
  /\ at[c] = "delay"
  /\ Move(c, "closed")
  /\ sem' = sem - 1
  /\ UNCHANGED <<acceptor, jobs, run, firstErr, process>>
------------------------------------------------------------------------------
(* ListenAndServe and its surroundings. *)

Shutdown ==
  /\ ~ctxDone
  /\ ctxDone' = TRUE
  /\ UNCHANGED <<at, acceptor, jobs, run, sem, serve, firstErr, probe, status>>

\* net.Listen succeeds; the acceptor starts.
Listen ==
  /\ serve = "bind"
  /\ serve' = "select"
  /\ UNCHANGED <<at, acceptor, jobs, run, sem, firstErr, probe, status, ctxDone>>

\* net.Listen fails.
FailListen ==
  /\ serve = "bind"
  /\ serve' = "returned"
  /\ acceptor' = "exited"
  /\ Keep("failed")
  /\ UNCHANGED <<at, jobs, run, sem, probe, status, ctxDone>>

\* The context is done, or the acceptor is, which it is only after the context.
CloseListener ==
  /\ serve = "select"
  /\ ctxDone
  /\ serve' = "wait"
  /\ UNCHANGED <<at, acceptor, jobs, run, sem, firstErr, probe, status, ctxDone>>

\* Mutant: only the acceptor is waited for.
ReturnEarly ==
  /\ serve = "wait"
  /\ acceptor = "exited"
  /\ serve' = "returned"
  /\ UNCHANGED <<at, acceptor, jobs, run, sem, firstErr, probe, status, ctxDone>>

\* eg.Wait: the acceptor and every handler it started are over.
Return ==
  /\ serve = "wait"
  /\ acceptor = "exited"
  /\ \A c \in Conns : at[c] \notin {"handler", "stuck"}
  /\ serve' = "returned"
  /\ UNCHANGED <<at, acceptor, jobs, run, sem, firstErr, probe, status, ctxDone>>
------------------------------------------------------------------------------
(* The probe server and Start. *)

Probe(place) ==
  /\ probe' = place
  /\ UNCHANGED <<at, acceptor, jobs, run, sem, serve, firstErr, status, ctxDone>>

\* Its address is taken, say.  The error waits in errg for Start to ask for it.
FailProbe == probe = "serving" /\ Probe("exited")

\* Shutdown has no deadline: it waits for every request that is being answered.
StopProbe == probe = "serving" /\ ctxDone /\ Probe("draining")

EndProbe == probe = "draining" /\ Probe("exited")

\* RunE forgives a cancellation; main exits with 1 for any other error.
ExitStatus(err) == IF err = "failed" THEN "error" ELSE "ok"

\* Start returns the error of ListenAndServe, and waits for the probe server only if
\* there is none.  With the process everything it holds is gone: its connections are
\* closed by the system.
Exit ==
  /\ status = "running"
  /\ serve = "returned"
  /\ firstErr # "none" \/ probe = "exited"
  /\ status' = ExitStatus(firstErr)
  /\ at' = [c \in Conns |-> IF at[c] = "client" THEN "client" ELSE "closed"]
  /\ jobs' = <<>>
  /\ run' = "exited"
  /\ sem' = 0
  /\ probe' = "exited"
  /\ UNCHANGED <<acceptor, serve, firstErr, ctxDone>>
------------------------------------------------------------------------------
Decide(c) == Refuse(c) \/ Deny(c) \/ StartHandler(c)

TarpitStep == TakeJob \/ StopTarpit \/ \E c \in Conns : StartDelay(c)

ServeStep == StopAccepting \/ Listen \/ FailListen \/ CloseListener \/ Return \/ Exit

ProbeStep == FailProbe \/ StopProbe \/ EndProbe

Next ==
  \/ \E c \in Conns : Accept(c)
  \/ \E c \in Conns : Decide(c)
  \/ \E c \in Conns : Add(c)
  \/ \E c \in Conns, failed \in BOOLEAN : EndHandler(c, failed)
  \/ \E c \in Conns : Stick(c)
  \/ TarpitStep
  \/ \E c \in Conns : EndDelay(c)
  \/ Shutdown
  \/ ServeStep
  \/ ProbeStep

Spec == Init /\ [][Next]_vars

(***************************************************************************)
(* Goroutines that can step do, the limiter answers, a delay ends, and a   *)
(* Handle that is not stuck returns once the context is done: that is what *)
(* HandleReturns of module Connector states.  Handle need not return       *)
(* earlier, clients need not connect, and a request to the probe server    *)
(* need never end.                                                         *)
(***************************************************************************)
Fairness ==
  /\ WF_vars(ServeStep)
  /\ WF_vars(TarpitStep)
  /\ \A c \in Conns : /\ WF_vars(Decide(c))
                      /\ WF_vars(Add(c))
                      /\ WF_vars(EndDelay(c))
                      /\ WF_vars(ctxDone /\ \E failed \in BOOLEAN : EndHandler(c, failed))

FairSpec == Spec /\ Fairness
------------------------------------------------------------------------------
(* Properties. *)

TypeOK ==
  /\ at \in [Conns -> {"client", "deciding", "denied", "handler", "stuck", "queued",
                      "slot", "delay", "closed"}]
  /\ acceptor \in {"accept", "decide", "exited"}
  /\ jobs \in Seq(Conns) /\ Len(jobs) <= JobsCap
  /\ run \in {"select", "sem", "exited"}
  /\ sem \in 0..MaxWorkers
  /\ serve \in {"bind", "select", "wait", "returned"}
  /\ firstErr \in {"none", "failed", "canceled"}
  /\ probe \in {"serving", "draining", "exited"}
  /\ status \in {"running", "ok", "error"}
  /\ ctxDone \in BOOLEAN

\* Every tarpitted connection is in one place: queued once, in the run loop's hands,
\* or held by a worker that has a slot.
TarpitExact ==
  /\ ToSet(jobs) = {c \in Conns : at[c] = "queued"}
  /\ Len(jobs) = Cardinality({c \in Conns : at[c] = "queued"})
  /\ sem = Cardinality({c \in Conns : at[c] = "delay"})
  /\ run = "select" => \A c \in Conns : at[c] # "slot"

\* The server as a task group: the handlers of its connections are the tasks.  The
\* group is open until the acceptor exits, which may be after eg.Wait was called.
GroupStage ==
  CASE serve = "bind"        -> "idle"
    [] serve = "returned"    -> "closed"
    [] serve \in {"select", "wait"} ->
         IF acceptor = "exited" THEN "draining" ELSE "open"

HandlerTask(c) ==
  IF at[c] \in {"handler", "stuck"} THEN "running"
  ELSE IF at[c] \in {"client", "deciding"} THEN "fresh" ELSE "over"

Group == INSTANCE TaskGroup WITH
  Tasks <- Conns,
  Limit <- Cardinality(Conns),
  stage <- GroupStage,
  task  <- [c \in Conns |-> HandlerTask(c)]

\* A connection gets at most one handler, none once the tarpit has it, and
\* ListenAndServe returns over no running handler, even though the acceptor may start
\* one while eg.Wait is waiting.
Implements == Group!Spec

\* ListenAndServe returns only with an error, a cancellation if nothing else failed, so
\* Start never waits for the probe server, whose Shutdown has no deadline.
NeverReturnsNil == serve = "returned" => firstErr # "none"

\* A denied connection is closed in the end, however full the tarpit was when it came.
\* What the tarpit still has when the server stops is closed by the process' exit alone:
\* it stays open when another connection's handler is stuck and there is no exit.
DeniedIsClosed ==
  \A c \in Conns :
    at[c] \in {"denied", "queued", "slot", "delay"} ~>
      \/ at[c] = "closed"
      \/ /\ at[c] \in {"queued", "slot"} /\ run = "exited"
         /\ \E d \in Conns : at[d] = "stuck"

\* A cancelled process exits unless a handler is stuck, whatever the acceptor and the
\* tarpit were doing and even when a request to the probe server never ends: Start does
\* not wait for it, because the acceptor always reports the cancellation.
ProcessExits ==
  ctxDone ~> status # "running" \/ \E c \in Conns : at[c] = "stuck"
==============================================================================
