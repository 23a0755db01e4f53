-------------------------------- MODULE Agent --------------------------------
(***************************************************************************)
(* SFTP over an ephemeral container: HandleSFTP of internal/k8s/sftp.go    *)
(* and ensureAgentContainer and waitForAgentReady of internal/k8s/agent.go,*)
(* run by several sessions for the same pod.                               *)
(*                                                                         *)
(* Each session reads the pod, patches the agent container in when it saw  *)
(* none, polls the container's status once a second, and executes the sftp *)
(* server in it.  Between two of these calls other sessions, the kubelet   *)
(* and the owner of the pod act.                                           *)
(***************************************************************************)
EXTENDS Integers, FiniteSets

CONSTANT Sessions   \* the sessions that ask for sftp

ASSUME AgentAssumption == IsFiniteSet(Sessions)

VARIABLES
  pc,        \* pc[s]: "resolve", "get", "patch", "wait", "exec", "stream", "ok", "failed"
  agents,    \* how many agent containers the pod's spec lists
  ran,       \* history: the agent's container has been running
  status,    \* the agent's status: "none", "running", "exited", or "blank" (terminated
             \* without a reason)
  podGone,   \* the pod was deleted
  sftpGauge, \* PodshK8sActiveSFTPStreams
  ctxDone    \* the server context is done

vars == <<pc, agents, ran, status, podGone, sftpGauge, ctxDone>>

Init ==
  /\ pc = [s \in Sessions |-> "resolve"]
  /\ agents = 0
  /\ ran = FALSE
  /\ status = "none"
  /\ podGone = FALSE
  /\ sftpGauge = 0
  /\ ctxDone = FALSE

Goto(s, label) == pc' = [pc EXCEPT ![s] = label]
------------------------------------------------------------------------------
(* A session. *)

\* Resolve, reading the pod, the patch, a poll and the executor can each fail: the API
\* refuses, the pod is gone or the context is done.  The error is returned.
Fail(s) ==
  /\ pc[s] \in {"resolve", "get", "patch", "wait", "exec"}
  /\ Goto(s, "failed")
  /\ UNCHANGED <<agents, ran, status, podGone, sftpGauge, ctxDone>>

Resolve(s) ==
  /\ pc[s] = "resolve"
  /\ ~podGone
  /\ Goto(s, "get")
  /\ UNCHANGED <<agents, ran, status, podGone, sftpGauge, ctxDone>>

\* An agent that is listed is not looked at any further.
GetPod(s) ==
  /\ pc[s] = "get"
  /\ ~podGone
  /\ Goto(s, IF agents > 0 THEN "wait" ELSE "patch")
  /\ UNCHANGED <<agents, ran, status, podGone, sftpGauge, ctxDone>>

\* A strategic merge patch merges containers by name: a second patch, made from a read
\* that saw no agent, meets the first one's container.
Patch(s) ==
  /\ pc[s] = "patch"
  /\ ~podGone
  /\ agents' = IF agents = 0 THEN 1 ELSE agents
  /\ Goto(s, "wait")
  /\ UNCHANGED <<ran, status, podGone, sftpGauge, ctxDone>>

\* Mutant: only a running container ends the wait.
PollRunningOnly(s) ==
  /\ pc[s] = "wait"
  /\ ~podGone
  /\ status = "running"
  /\ Goto(s, "exec")
  /\ UNCHANGED <<agents, ran, status, podGone, sftpGauge, ctxDone>>

\* Mutant: a container with any status is ready.
PollAnyStatus(s) ==
  /\ pc[s] = "wait"
  /\ ~podGone
  /\ status # "none"
  /\ Goto(s, "exec")
  /\ UNCHANGED <<agents, ran, status, podGone, sftpGauge, ctxDone>>

\* A poll that ends the wait.  Without a status, or terminated without a reason, the
\* session waits for the next tick.
Poll(s) ==
  /\ pc[s] = "wait"
  /\ ~podGone
  /\ \/ status = "running" /\ Goto(s, "exec")
     \/ status = "exited" /\ Goto(s, "failed")
  /\ UNCHANGED <<agents, ran, status, podGone, sftpGauge, ctxDone>>

\* The agent may have exited since the poll: the stream then fails once begun.
Exec(s) ==
  /\ pc[s] = "exec"
  /\ sftpGauge' = sftpGauge + 1
  /\ Goto(s, "stream")
  /\ UNCHANGED <<agents, ran, status, podGone, ctxDone>>

EndStream(s, err) ==
  /\ pc[s] = "stream"
  /\ Goto(s, IF err THEN "failed" ELSE "ok")
  /\ sftpGauge' = sftpGauge - 1
  /\ UNCHANGED <<agents, ran, status, podGone, ctxDone>>
------------------------------------------------------------------------------
(* The cluster. *)

StartAgent ==
  /\ agents > 0
  /\ ~podGone
  /\ status = "none"
  /\ status' = "running"
  /\ ran' = TRUE
  /\ UNCHANGED <<pc, agents, podGone, sftpGauge, ctxDone>>

\* An ephemeral container is never restarted; one whose image cannot run ends at once.
StopAgent ==
  /\ agents > 0
  /\ ~podGone
  /\ status \in {"none", "running"}
  /\ status' \in {"exited", "blank"}
  /\ UNCHANGED <<pc, agents, ran, podGone, sftpGauge, ctxDone>>

DeletePod ==
  /\ ~podGone
  /\ podGone' = TRUE
  /\ UNCHANGED <<pc, agents, ran, status, sftpGauge, ctxDone>>

Shutdown ==
  /\ ~ctxDone
  /\ ctxDone' = TRUE
  /\ UNCHANGED <<pc, agents, ran, status, podGone, sftpGauge>>
------------------------------------------------------------------------------
SessionStep(s) == Resolve(s) \/ GetPod(s) \/ Patch(s) \/ Poll(s) \/ Exec(s)

Next ==
  \/ \E s \in Sessions : SessionStep(s)
  \/ \E s \in Sessions : Fail(s)
  \/ \E s \in Sessions, err \in BOOLEAN : EndStream(s, err)
  \/ StartAgent
  \/ StopAgent
  \/ DeletePod
  \/ Shutdown

Spec == Init /\ [][Next]_vars

(***************************************************************************)
(* A session steps when it can, fails when the pod is gone or the context  *)
(* is done, and its stream ends when what carries it ended.  The kubelet   *)
(* need not start the agent, and a stream may last.                        *)
(***************************************************************************)
Fairness ==
  \A s \in Sessions :
    /\ WF_vars(SessionStep(s))
    /\ WF_vars((podGone \/ ctxDone) /\ Fail(s))
    /\ WF_vars((podGone \/ ctxDone \/ status # "running") /\ EndStream(s, TRUE))

FairSpec == Spec /\ Fairness
------------------------------------------------------------------------------
(* Properties. *)

TypeOK ==
  /\ pc \in [Sessions -> {"resolve", "get", "patch", "wait", "exec", "stream",
                          "ok", "failed"}]
  /\ agents \in Nat
  /\ ran \in BOOLEAN
  /\ status \in {"none", "running", "exited", "blank"}
  /\ podGone \in BOOLEAN
  /\ sftpGauge \in 0..Cardinality(Sessions)
  /\ ctxDone \in BOOLEAN

\* Sessions that all saw a pod without an agent create one between them, and a session
\* opens its stream only when that one's container has been running: neither another
\* session's patch nor a container that ended without ever running is taken for it.
StreamAfterRunning ==
  \A s \in Sessions : pc[s] \in {"exec", "stream", "ok"} => agents = 1 /\ ran

\* Once the agent is known to have exited, the pod is gone or the server stops, no
\* session keeps waiting.
SessionsSettle ==
  (status = "exited" \/ podGone \/ ctxDone) ~>
    \A s \in Sessions : pc[s] \in {"ok", "failed"}
==============================================================================
