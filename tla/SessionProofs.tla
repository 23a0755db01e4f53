---------------------------- MODULE SessionProofs ----------------------------
(***************************************************************************)
(* Safety of one session channel for every capacity of resizeCh and every  *)
(* number of requests of each kind.                                        *)
(***************************************************************************)
EXTENDS Session, TLAPS

One(b) == IF b THEN 1 ELSE 0

\* Whatever sits in a Go channel, or is on its way there, was sent by the client.
CountsOK ==
  /\ \A k \in Kinds : sent[k] <= Budget[k]
  /\ resizeq + One(loop = "resize") <= sent["resize"]
  /\ execq + One(loop = "exec") <= sent["exec"]
  /\ One(sftp) + One(loop = "sftp") <= sent["sftp"]
  /\ loop = "panic" => sent["sftp"] >= 2

\* No status precedes the end of the worker, and a status tells how it ended.
StatusOK ==
  /\ worker = "select" <=> (worker # "done" /\ prog = "none")
  /\ worker # "done" => statuses = <<>>
  /\ worker = "done" /\ prog = "none" => failed
  /\ \A i \in DOMAIN statuses : statuses[i] = 0 => ~failed
  /\ ~ctxDone => \A i \in DOMAIN statuses : statuses[i] = ExitCode(failed)

\* The inductive invariant.
IInv == TypeOK /\ CountsOK /\ StatusOK

\* The client's view after an exit-status request: nothing else than that code is new.
LEMMA DeliverFacts ==
  ASSUME statuses \in Seq({0, 1}), NEW c \in {0, 1}
  PROVE  /\ Deliver(c) \in Seq({0, 1})
         /\ \A i \in DOMAIN Deliver(c) :
              \/ Deliver(c)[i] = c
              \/ i \in DOMAIN statuses /\ Deliver(c)[i] = statuses[i]
BY DEF Deliver

\* The five kinds of request, without the sets they are collected in.
LEMMA KindFacts ==
  /\ "resize" \in Kinds /\ "exec" \in Kinds /\ "sftp" \in Kinds
  /\ "select" \notin Kinds /\ "panic" \notin Kinds
BY DEF Kinds, Programs

\* The initial state satisfies the inductive invariant.
LEMMA InitIInv == Init => IInv
<1> SUFFICES ASSUME Init PROVE IInv
  OBVIOUS
<1>1. TypeOK
  <2>1. sent \in [Kinds -> Nat]
    BY DEF Init
  <2>2. resizeq \in 0..ResizeCap /\ execq \in 0..1 /\ statuses \in Seq({0, 1})
    BY SessionAssumption DEF Init
  <2>3. reqsOpen \in BOOLEAN /\ ctxDone \in BOOLEAN /\ failed \in BOOLEAN
        /\ childDone \in BOOLEAN /\ shell \in BOOLEAN /\ sftp \in BOOLEAN
        /\ resizer \in BOOLEAN
    BY DEF Init
  <2> QED
    BY <2>1, <2>2, <2>3 DEF Init, TypeOK
<1>2. CountsOK
  <2>1. \A k \in Kinds : sent[k] = 0 /\ Budget[k] \in Nat
    BY SessionAssumption DEF Init
  <2>2. loop = "select" /\ resizeq = 0 /\ execq = 0 /\ sftp = FALSE
    BY DEF Init
  <2> QED
    BY <2>1, <2>2, KindFacts DEF CountsOK, One
<1>3. StatusOK
  BY DEF Init, StatusOK
<1> QED
  BY <1>1, <1>2, <1>3 DEF IInv

\* Every step of the loop, the worker and the client keeps every variable in its type.
LEMMA TypeStep ==
  ASSUME TypeOK, CountsOK, [Next]_vars
  PROVE  TypeOK'
<1> USE SessionAssumption DEF TypeOK, client, chans, control
<1>1. CASE Hangup \/ Shutdown
  <2>1. CASE Hangup
    BY <2>1 DEF Hangup
  <2>2. CASE Shutdown
    BY <2>2 DEF Shutdown
  <2> QED
    BY <1>1, <2>1, <2>2
<1>2. ASSUME NEW k \in Kinds, TakeRequest(k)
      PROVE  TypeOK'
  BY <1>2 DEF TakeRequest
<1>3. CASE QueueResize \/ CloseShell \/ QueueExec \/ CloseSftp
  <2>1. CASE QueueResize
    BY <2>1 DEF QueueResize
  <2>2. CASE CloseShell
    BY <2>2 DEF CloseShell
  <2>3. CASE QueueExec
    BY <2>3 DEF QueueExec
  <2>4. CASE CloseSftp
    BY <2>4 DEF CloseSftp
  <2> QED
    BY <1>3, <2>1, <2>2, <2>3, <2>4
<1>4. CASE ReplyOnly \/ SeeCancel \/ SeeClosed
  BY <1>4 DEF ReplyOnly, SeeCancel, SeeClosed
<1>5. CASE Return
  <2>1. ExitCode(failed \/ (loop = "join" /\ ctxDone)) \in {0, 1}
    BY DEF ExitCode
  <2> QED
    BY <1>5, <2>1, DeliverFacts DEF Return
<1>6. CASE PickStep \/ StartStream \/ TakeResize
  <2>1. CASE PickShell
    BY <2>1 DEF PickShell, Programs
  <2>2. CASE PickExec
    BY <2>2 DEF PickExec, Programs
  <2>3. CASE PickSftp
    BY <2>3 DEF PickSftp, Programs
  <2>4. CASE GiveUp
    BY <2>4 DEF GiveUp
  <2>5. CASE StartStream
    BY <2>5 DEF StartStream
  <2>6. CASE TakeResize
    BY <2>6 DEF TakeResize
  <2> QED
    BY <1>6, <2>1, <2>2, <2>3, <2>4, <2>5, <2>6 DEF PickStep
<1>7. ASSUME NEW err \in BOOLEAN, Finish(err)
      PROVE  TypeOK'
  <2>1. ExitCode(err) \in {0, 1}
    BY DEF ExitCode
  <2> QED
    BY <1>7, <2>1, DeliverFacts DEF Finish
<1>8. CASE UNCHANGED vars
  BY <1>8 DEF vars
<1> QED
  BY <1>1, <1>2, <1>3, <1>4, <1>5, <1>6, <1>7, <1>8
     DEF Next, LoopStep, FailResolve, EndStream

\* The channels never hold more than was sent, whichever goroutine steps.
LEMMA CountsStep ==
  ASSUME TypeOK, CountsOK, [Next]_vars
  PROVE  CountsOK'
<1> USE SessionAssumption
    DEF TypeOK, CountsOK, One, Kinds, Programs, client, chans, control
<1>1. CASE Hangup \/ Shutdown
  <2>1. UNCHANGED <<sent, loop, resizeq, execq, sftp>>
    BY <1>1, Zenon DEF Hangup, Shutdown
  <2> QED
    BY <2>1
<1>2. ASSUME NEW k \in Kinds, TakeRequest(k)
      PROVE  CountsOK'
  <2>1. /\ loop = "select"
        /\ sent[k] < Budget[k]
        /\ sent' = [sent EXCEPT ![k] = @ + 1]
        /\ loop' = k
        /\ UNCHANGED <<resizeq, execq, sftp>>
    BY <1>2, Zenon DEF TakeRequest
  <2>2. \A j \in Kinds : sent'[j] = IF j = k THEN sent[j] + 1 ELSE sent[j]
    BY <2>1
  <2>3. \A j \in Kinds : sent'[j] <= Budget[j]
    BY <2>1, <2>2
  <2>4. /\ resizeq' + One(loop' = "resize") <= sent'["resize"]
        /\ execq' + One(loop' = "exec") <= sent'["exec"]
        /\ One(sftp') + One(loop' = "sftp") <= sent'["sftp"]
        /\ loop' # "panic"
    BY <2>1, <2>2
  <2> QED
    BY <2>3, <2>4
<1>3. CASE QueueResize \/ CloseShell \/ QueueExec
  <2>1. CASE QueueResize
    BY <2>1 DEF QueueResize
  <2>2. CASE CloseShell
    BY <2>2 DEF CloseShell
  <2>3. CASE QueueExec
    BY <2>3 DEF QueueExec
  <2> QED
    BY <1>3, <2>1, <2>2, <2>3
<1>4. CASE CloseSftp
  BY <1>4 DEF CloseSftp
<1>5. CASE ReplyOnly \/ SeeCancel \/ SeeClosed \/ Return
  <2>1. /\ UNCHANGED <<sent, resizeq, execq, sftp>>
        /\ loop' \in {"select", "join", "drain", "returned"}
    BY <1>5 DEF ReplyOnly, SeeCancel, SeeClosed, Return
  <2>2. CASE loop' = "select"
    BY <2>1, <2>2
  <2>3. CASE loop' # "select"
    BY <2>1, <2>3
  <2> QED
    BY <2>2, <2>3
<1>6. CASE PickStep \/ StartStream
  <2>1. CASE PickShell
    BY <2>1 DEF PickShell
  <2>2. CASE PickExec
    BY <2>2 DEF PickExec
  <2>3. CASE PickSftp
    BY <2>3 DEF PickSftp
  <2>4. CASE GiveUp
    BY <2>4 DEF GiveUp
  <2>5. CASE StartStream
    BY <2>5 DEF StartStream
  <2> QED
    BY <1>6, <2>1, <2>2, <2>3, <2>4, <2>5 DEF PickStep
<1>7. CASE TakeResize
  BY <1>7 DEF TakeResize
<1>8. ASSUME NEW err \in BOOLEAN, Finish(err)
      PROVE  CountsOK'
  BY <1>8 DEF Finish
<1>9. CASE UNCHANGED vars
  BY <1>9 DEF vars
<1> QED
  BY <1>1, <1>2, <1>3, <1>4, <1>5, <1>6, <1>7, <1>8, <1>9
     DEF Next, LoopStep, FailResolve, EndStream

\* Every status that is sent agrees with the worker's result.
LEMMA StatusStep ==
  ASSUME TypeOK, StatusOK, [Next]_vars
  PROVE  StatusOK'
<1> USE DEF TypeOK, StatusOK, ExitCode, Kinds, Programs, client, chans, control
<1>1. CASE Hangup \/ Shutdown
  BY <1>1 DEF Hangup, Shutdown
<1>2. ASSUME NEW k \in Kinds, TakeRequest(k)
      PROVE  StatusOK'
  BY <1>2 DEF TakeRequest
<1>3. CASE QueueResize \/ CloseShell \/ QueueExec \/ CloseSftp \/ ReplyOnly
           \/ SeeCancel \/ SeeClosed \/ TakeResize
  BY <1>3 DEF QueueResize, CloseShell, QueueExec, CloseSftp, ReplyOnly,
              SeeCancel, SeeClosed, TakeResize
<1>4. CASE Return
  <2> DEFINE code == ExitCode(failed \/ (loop = "join" /\ ctxDone))
  <2>1. /\ code \in {0, 1}
        /\ code = 0 => ~failed
        /\ ~ctxDone => code = ExitCode(failed)
    OBVIOUS
  <2>2. statuses' = Deliver(code)
    BY <1>4 DEF Return
  <2>3. UNCHANGED <<worker, prog, failed, ctxDone>> /\ worker = "done"
    BY <1>4 DEF Return
  <2> HIDE DEF code
  <2>4. \A i \in DOMAIN statuses' :
          \/ statuses'[i] = code
          \/ i \in DOMAIN statuses /\ statuses'[i] = statuses[i]
    BY <2>1, <2>2, DeliverFacts
  <2> QED
    BY <2>1, <2>3, <2>4
<1>5. CASE PickStep \/ StartStream
  BY <1>5 DEF PickStep, PickShell, PickExec, PickSftp, GiveUp, StartStream
<1>6. ASSUME NEW err \in BOOLEAN, Finish(err), worker \in {"resolve", "stream"}
      PROVE  StatusOK'
  BY <1>6 DEF Finish, Deliver
<1>7. CASE UNCHANGED vars
  BY <1>7 DEF vars
<1> QED
  BY <1>1, <1>2, <1>3, <1>4, <1>5, <1>6, <1>7
     DEF Next, LoopStep, FailResolve, EndStream

\* The conjunction is inductive.
LEMMA Inductive == Spec => []IInv
<1>1. IInv /\ [Next]_vars => IInv'
  BY TypeStep, CountsStep, StatusStep DEF IInv
<1> QED
  BY <1>1, InitIInv, PTL DEF Spec

\* handleSessionCh and its channels keep their types for every budget.
THEOREM TypeCorrect == Spec => []TypeOK
BY Inductive, PTL DEF IInv

\* A client is told 0 only for a program that ran and succeeded.
THEOREM ZeroStatusCorrect == Spec => []ZeroStatusMeansSuccess
<1>1. IInv => ZeroStatusMeansSuccess
  BY DEF IInv, StatusOK, TypeOK, ZeroStatusMeansSuccess
<1> QED
  BY <1>1, Inductive, PTL

\* The worker's status and its caller's agree while the server is not stopping.
THEOREM StatusesCorrect == Spec => []StatusesAgree
<1>1. IInv => StatusesAgree
  BY DEF IInv, StatusOK, StatusesAgree
<1> QED
  BY <1>1, Inductive, PTL

\* For every capacity and whatever the client sends: the loop parks only on a resize
\* beyond the capacity or a second exec, and panics only at a second sftp.
THEOREM NeverStuck == Spec => []LoopNeverStuck
<1>1. IInv => LoopNeverStuck
  BY SessionAssumption
     DEF IInv, TypeOK, CountsOK, One, LoopNeverStuck, Kinds, Programs
<1> QED
  BY <1>1, Inductive, PTL
==============================================================================
