------------------------------- MODULE Session -------------------------------
(***************************************************************************)
(* One SSH session channel: handleSessionCh and the goroutine that runs it *)
(* (internal/sshd/connector.go), with the shell, exec and sftp handlers of *)
(* internal/k8s reduced to "resolve a target, then stream until it ends".  *)
(*                                                                         *)
(* Two goroutines share four Go channels.  The request loop receives the   *)
(* client's requests and feeds shell, sftp, exec and resizeCh; the worker  *)
(* waits for the first program, the 2 s timer or the server context, runs  *)
(* one program and cancels the child context.  The loop returns only after *)
(* eg.Wait(), then the caller sends an exit-status and closes the channel. *)
(***************************************************************************)
EXTENDS Integers, Sequences

CONSTANTS ResizeCap,   \* capacity of resizeCh: 8 in NewSession
          Budget       \* Budget[k]: how many requests of kind k the client may send

Programs == {"shell", "exec", "sftp"}

\* "resize" is pty-req or window-change; "other" is every request that is only
\* answered: env, an unknown type or subsystem, a payload that does not parse.
Kinds == Programs \cup {"resize", "other"}

ASSUME SessionAssumption ==
  /\ ResizeCap \in Nat \ {0}
  /\ Budget \in [Kinds -> Nat]

VARIABLES
  sent,      \* sent[k]: requests of kind k received by the loop so far
  reqsOpen,  \* the client has not closed the channel or lost the connection
  ctxDone,   \* the server context is cancelled
  loop,      \* request loop: "select", a kind being handled, "join" or "drain"
             \* (in eg.Wait), "returned", or "panic"
  worker,    \* worker goroutine: "select", "resolve", "stream", "done"
  prog,      \* the program the worker picked, or "none"
  failed,    \* the worker returned an error
  childDone, \* cancel() was called on the child context
  shell,     \* the channel sess.shell is closed
  sftp,      \* the channel sess.sftp is closed
  execq,     \* commands buffered in sess.exec, whose capacity is 1
  resizeq,   \* events buffered in sess.resizeCh
  resizer,   \* the stream's terminal-size goroutine is reading resizeCh
  statuses   \* exit-status requests the client received, in order

client  == <<sent, reqsOpen>>
chans   == <<shell, sftp, execq, resizeq>>
control == <<worker, prog, failed, childDone, resizer>>
vars    == <<sent, reqsOpen, ctxDone, loop, worker, prog, failed, childDone,
             shell, sftp, execq, resizeq, resizer, statuses>>

Init ==
  /\ sent = [k \in Kinds |-> 0]
  /\ reqsOpen = TRUE
  /\ ctxDone = FALSE
  /\ loop = "select"
  /\ worker = "select"
  /\ prog = "none"
  /\ failed = FALSE
  /\ childDone = FALSE
  /\ shell = FALSE
  /\ sftp = FALSE
  /\ execq = 0
  /\ resizeq = 0
  /\ resizer = FALSE
  /\ statuses = <<>>

\* ch.SendRequest("exit-status"): reaches the client while it holds the channel open.
Deliver(code) == IF reqsOpen THEN Append(statuses, code) ELSE statuses

ExitCode(err) == IF err THEN 1 ELSE 0

\* A panic of the request loop ends the process, and with it every goroutine.
Alive == loop # "panic"
------------------------------------------------------------------------------
(* The environment. *)

\* The client closes the channel or disappears; requests it sent may still be buffered.
Hangup ==
  /\ Alive
  /\ reqsOpen
  /\ reqsOpen' = FALSE
  /\ UNCHANGED <<sent, ctxDone, loop, control, chans, statuses>>

Shutdown ==
  /\ Alive
  /\ ~ctxDone
  /\ ctxDone' = TRUE
  /\ UNCHANGED <<client, loop, control, chans, statuses>>
------------------------------------------------------------------------------
(* The request loop.  A send on a full Go channel is an action that is not *)
(* enabled: the loop stays in that case of the switch.                     *)

TakeRequest(k) ==
  /\ loop = "select"
  /\ sent[k] < Budget[k]
  /\ sent' = [sent EXCEPT ![k] = @ + 1]
  /\ loop' = k
  /\ UNCHANGED <<reqsOpen, ctxDone, control, chans, statuses>>

QueueResize ==
  /\ loop = "resize"
  /\ resizeq < ResizeCap
  /\ resizeq' = resizeq + 1
  /\ loop' = "select"
  /\ UNCHANGED <<client, ctxDone, control, shell, sftp, execq, statuses>>

\* Mutant: the second shell request closes the channel again.
CloseShellTwice ==
  /\ loop = "shell"
  /\ shell' = TRUE
  /\ loop' = IF shell THEN "panic" ELSE "select"
  /\ UNCHANGED <<client, ctxDone, control, sftp, execq, resizeq, statuses>>

\* The first shell request closes the channel, a later one is only refused.
CloseShell ==
  /\ loop = "shell"
  /\ shell' = TRUE
  /\ loop' = "select"
  /\ UNCHANGED <<client, ctxDone, control, sftp, execq, resizeq, statuses>>

QueueExec ==
  /\ loop = "exec"
  /\ execq = 0
  /\ execq' = 1
  /\ loop' = "select"
  /\ UNCHANGED <<client, ctxDone, control, shell, sftp, resizeq, statuses>>

\* close() of a closed Go channel panics.
CloseSftp ==
  /\ loop = "sftp"
  /\ sftp' = TRUE
  /\ loop' = IF sftp THEN "panic" ELSE "select"
  /\ UNCHANGED <<client, ctxDone, control, shell, execq, resizeq, statuses>>

ReplyOnly ==
  /\ loop = "other"
  /\ loop' = "select"
  /\ UNCHANGED <<client, ctxDone, control, chans, statuses>>

SeeCancel ==
  /\ loop = "select"
  /\ childDone \/ ctxDone
  /\ loop' = "join"
  /\ UNCHANGED <<client, ctxDone, control, chans, statuses>>

SeeClosed ==
  /\ loop = "select"
  /\ ~reqsOpen
  /\ loop' = "drain"
  /\ UNCHANGED <<client, ctxDone, control, chans, statuses>>

\* Mutant: the error of eg.Wait() is dropped.
ReturnCtxErrOnly ==
  /\ loop \in {"join", "drain"}
  /\ worker = "done"
  /\ statuses' = Deliver(ExitCode(loop = "join" /\ ctxDone))
  /\ loop' = "returned"
  /\ UNCHANGED <<client, ctxDone, control, chans>>

\* eg.Wait() returns; after a cancellation ctx.Err() is joined to its error.
\* The calling goroutine sends the exit status and closes the channel.
Return ==
  /\ loop \in {"join", "drain"}
  /\ worker = "done"
  /\ LET err == failed \/ (loop = "join" /\ ctxDone)
     IN  statuses' = Deliver(ExitCode(err))
  /\ loop' = "returned"
  /\ UNCHANGED <<client, ctxDone, control, chans>>
------------------------------------------------------------------------------
(* The worker. *)

PickShell ==
  /\ Alive
  /\ worker = "select"
  /\ shell
  /\ worker' = "resolve"
  /\ prog' = "shell"
  /\ UNCHANGED <<client, ctxDone, loop, failed, childDone, resizer, chans, statuses>>

PickExec ==
  /\ Alive
  /\ worker = "select"
  /\ execq = 1
  /\ execq' = 0
  /\ worker' = "resolve"
  /\ prog' = "exec"
  /\ UNCHANGED <<client, ctxDone, loop, failed, childDone, resizer,
                 shell, sftp, resizeq, statuses>>

PickSftp ==
  /\ Alive
  /\ worker = "select"
  /\ sftp
  /\ worker' = "resolve"
  /\ prog' = "sftp"
  /\ UNCHANGED <<client, ctxDone, loop, failed, childDone, resizer, chans, statuses>>

\* Mutant: the worker gives up without its deferred cancel().
GiveUpNoCancel ==
  /\ Alive
  /\ worker = "select"
  /\ worker' = "done"
  /\ failed' = TRUE
  /\ UNCHANGED <<client, ctxDone, loop, prog, childDone, resizer, chans, statuses>>

\* The 2 s timer fires, or the server context is done: no program is run.
GiveUp ==
  /\ Alive
  /\ worker = "select"
  /\ worker' = "done"
  /\ failed' = TRUE
  /\ childDone' = TRUE
  /\ UNCHANGED <<client, ctxDone, loop, prog, resizer, chans, statuses>>

\* The target is resolved and the stream starts; only a shell's stream is given
\* the resize queue.
StartStream ==
  /\ Alive
  /\ worker = "resolve"
  /\ worker' = "stream"
  /\ resizer' = (prog = "shell")
  /\ UNCHANGED <<client, ctxDone, loop, prog, failed, childDone, chans, statuses>>

\* Mutant: only the error of the send is returned, the command's is lost.
FinishSendErrOnly(err) ==
  /\ worker' = "done"
  /\ childDone' = TRUE
  /\ failed' = IF prog = "exec" THEN ~reqsOpen ELSE err
  /\ statuses' = IF prog = "exec" THEN Deliver(ExitCode(err)) ELSE statuses
  /\ UNCHANGED <<client, ctxDone, loop, prog, resizer, chans>>

\* The handler returns.  After an exec the worker itself sends an exit status and
\* joins the error of that send.
Finish(err) ==
  /\ worker' = "done"
  /\ childDone' = TRUE
  /\ failed' = (err \/ (prog = "exec" /\ ~reqsOpen))
  /\ statuses' = IF prog = "exec" THEN Deliver(ExitCode(err)) ELSE statuses
  /\ UNCHANGED <<client, ctxDone, loop, prog, resizer, chans>>

\* Resolve, the agent or the executor fails, or the context ends them.
FailResolve ==
  /\ Alive
  /\ worker = "resolve"
  /\ Finish(TRUE)

EndStream(err) ==
  /\ Alive
  /\ worker = "stream"
  /\ Finish(err)

\* Mutant: the queue is read without waiting for an event.
TakeResizeEmpty ==
  /\ Alive
  /\ resizer
  /\ resizeq' = resizeq - 1
  /\ UNCHANGED <<client, ctxDone, loop, control, shell, sftp, execq, statuses>>

\* resizeQueue.Next.  resizeCh is never closed, so this goroutine never ends.
TakeResize ==
  /\ Alive
  /\ resizer
  /\ resizeq > 0
  /\ resizeq' = resizeq - 1
  /\ UNCHANGED <<client, ctxDone, loop, control, shell, sftp, execq, statuses>>
------------------------------------------------------------------------------
LoopStep ==
  \/ QueueResize \/ CloseShell \/ QueueExec \/ CloseSftp \/ ReplyOnly
  \/ SeeCancel \/ SeeClosed \/ Return

PickStep == PickShell \/ PickExec \/ PickSftp \/ GiveUp

Next ==
  \/ Hangup
  \/ Shutdown
  \/ \E k \in Kinds : TakeRequest(k)
  \/ LoopStep
  \/ PickStep
  \/ StartStream
  \/ FailResolve
  \/ \E err \in BOOLEAN : EndStream(err)
  \/ TakeResize

Spec == Init /\ [][Next]_vars

(***************************************************************************)
(* Goroutines that can step do (the Go scheduler), the timer fires, and a  *)
(* handler whose context is done returns.  Nothing is assumed about the    *)
(* client, nor about a program's end while the context is live.            *)
(***************************************************************************)
Fairness ==
  /\ WF_vars(LoopStep)
  /\ WF_vars(PickStep)
  /\ WF_vars(TakeResize)
  /\ WF_vars(ctxDone /\ (FailResolve \/ EndStream(TRUE)))

FairSpec == Spec /\ Fairness
------------------------------------------------------------------------------
(* Properties. *)

TypeOK ==
  /\ sent \in [Kinds -> Nat]
  /\ reqsOpen \in BOOLEAN
  /\ ctxDone \in BOOLEAN
  /\ loop \in Kinds \cup {"select", "join", "drain", "returned", "panic"}
  /\ worker \in {"select", "resolve", "stream", "done"}
  /\ prog \in Programs \cup {"none"}
  /\ failed \in BOOLEAN
  /\ childDone \in BOOLEAN
  /\ shell \in BOOLEAN
  /\ sftp \in BOOLEAN
  /\ execq \in 0..1
  /\ resizeq \in 0..ResizeCap
  /\ resizer \in BOOLEAN
  /\ statuses \in Seq({0, 1})

\* An exit-status 0 reaches the client only for a program that ran and succeeded:
\* not after a timeout, a failed resolve or a request that was accepted too late.
ZeroStatusMeansSuccess ==
  \A i \in DOMAIN statuses :
    statuses[i] = 0 => worker = "done" /\ prog # "none" /\ ~failed

\* An exec channel receives two exit statuses, one from the worker and one from
\* its caller.  They agree unless the server was shutting down.
StatusesAgree ==
  ~ctxDone => \A i, j \in DOMAIN statuses : statuses[i] = statuses[j]

\* The request loop parks on a full channel only after more resizes than resizeCh holds
\* or a second exec, and closes a closed channel only at a second sftp, whatever the
\* worker does meanwhile: nothing less, and no repeated shell, stops a session.
LoopNeverStuck ==
  /\ loop = "resize" /\ resizeq = ResizeCap => sent["resize"] > ResizeCap
  /\ loop = "exec" /\ execq = 1 => sent["exec"] > 1
  /\ loop = "panic" => sent["sftp"] > 1

\* The client has sent more than the code can always absorb.
Overdrawn == sent["resize"] > ResizeCap \/ sent["exec"] > 1 \/ sent["sftp"] > 1

\* Once the worker is done or the server stops, the session returns and its goroutine
\* slot is released, unless its client overdraws.
SessionEnds == (ctxDone \/ worker = "done") ~> loop = "returned" \/ Overdrawn

\* A session that timed out before any program ran is over.
TimedOutSessionEnds == (worker = "done" /\ prog = "none") ~> loop = "returned"
==============================================================================
