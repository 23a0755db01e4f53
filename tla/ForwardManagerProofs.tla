------------------------- MODULE ForwardManagerProofs -------------------------
(***************************************************************************)
(* Safety of one tunnel for any finite number of concurrent Forward calls. *)
(***************************************************************************)
EXTENDS ForwardManager, FiniteSetTheorems, TLAPS

Counted == {c \in Calls : pc[c] \in {"waiting", "closing"} /\ once[c] # "done"}

\* Ids are drawn once, from a counter that only grows, and belong to one call.
IdsOK ==
  /\ \A c \in Calls : id[c] <= reqID
  /\ \A c \in Calls : pc[c] \in {"new", "checked"} => id[c] = 0
  /\ \A c \in Calls : pc[c] \in Labels \ {"new", "checked", "done"} => id[c] # 0
  /\ \A c, d \in Calls : id[c] = id[d] /\ id[c] # 0 => c = d

\* Clean-up begins after the call began to wait, and a call returns after it.
OnceOK ==
  \A c \in Calls :
    /\ pc[c] \in Labels \ {"waiting", "closing", "done"} => once[c] = "fresh"
    /\ once[c] = "torn" => pc[c] \in {"waiting", "closing"}

\* A registered stream belongs to a call that still holds it.
OwnedOK ==
  \A n \in Nat, k \in {"error", "data"} :
    <<n, k>> \in active => \E c \in Calls : Holding(c) /\ id[c] = n

\* The shapes of the two variables that are not functions of the calls.
TunnelOK ==
  /\ tunnelGauge \in 0..1
  /\ tunnelGauge = 0 <=> closed

BaseTypeOK ==
  /\ pc \in [Calls -> Labels]
  /\ id \in [Calls -> Nat]
  /\ once \in [Calls -> {"fresh", "torn", "done"}]
  /\ ended \in [Calls -> BOOLEAN]
  /\ active \subseteq Nat \X {"error", "data"}
  /\ reqID \in Nat
  /\ closed \in BOOLEAN
  /\ ctxDone \in BOOLEAN
  /\ gone \in BOOLEAN
  /\ lost \in BOOLEAN

\* The inductive invariant.
IInv ==
  BaseTypeOK /\ TunnelOK /\ IdsOK /\ OnceOK /\ OwnedOK /\ HoldersKeepStreams /\ GaugeExact

\* Every step of Forward, Close and their surroundings keeps the types.
LEMMA BaseStep ==
  ASSUME BaseTypeOK, TunnelOK, [Next]_vars
  PROVE  BaseTypeOK' /\ TunnelOK'
<1> USE DEF BaseTypeOK, TunnelOK, shared, world, Goto, Labels
<1>1. ASSUME NEW c \in Calls, CallStep(c)
      PROVE  BaseTypeOK' /\ TunnelOK'
  <2>1. CASE Check(c)
    BY <2>1 DEF Check
  <2>2. CASE Number(c)
    BY <2>2 DEF Number
  <2>3. CASE OpenStreams(c)
    BY <2>3 DEF OpenStreams, StreamsOf
  <2>4. CASE FailStreams(c)
    BY <2>4 DEF FailStreams
  <2>5. CASE Start(c)
    BY <2>5 DEF Start
  <2>6. CASE Select(c)
    BY <2>6 DEF Select
  <2>7. CASE Teardown(c)
    BY <2>7 DEF Teardown, StreamsOf
  <2>8. CASE Uncount(c)
    BY <2>8 DEF Uncount
  <2>9. CASE Return(c)
    BY <2>9 DEF Return
  <2> QED
    BY <1>1, <2>1, <2>2, <2>3, <2>4, <2>5, <2>6, <2>7, <2>8, <2>9 DEF CallStep
<1>2. ASSUME NEW c \in Calls, EndHelper(c)
      PROVE  BaseTypeOK' /\ TunnelOK'
  BY <1>2 DEF EndHelper
<1>3. CASE Shutdown
  BY <1>3 DEF Shutdown
<1>4. CASE Hangup
  BY <1>4 DEF Hangup
<1>5. CASE Lose
  BY <1>5 DEF Lose
<1>6. CASE Close
  BY <1>6 DEF Close
<1>7. CASE UNCHANGED vars
  BY <1>7 DEF vars
<1> QED
  BY <1>1, <1>2, <1>3, <1>4, <1>5, <1>6, <1>7 DEF Next

\* The steps that touch neither pc, id, once, active nor closed.
QuietStep ==
  \/ \E c \in Calls : EndHelper(c)
  \/ Shutdown
  \/ Hangup
  \/ Lose
  \/ UNCHANGED vars

\* A helper that ends, a shutdown, a hangup and a lost connection leave the streams and ids alone.
LEMMA QuietFacts ==
  ASSUME QuietStep
  PROVE  UNCHANGED <<pc, id, once, active, reqID, closed, streamGauge>>
BY DEF QuietStep, EndHelper, Shutdown, Hangup, Lose, shared, world, vars

\* The atomic counter never hands out an id twice, and closeAll is never early.
LEMMA IdsStep ==
  ASSUME BaseTypeOK, IdsOK, OnceOK, [Next]_vars
  PROVE  IdsOK' /\ OnceOK'
<1> USE DEF BaseTypeOK, IdsOK, OnceOK, shared, world, Goto, Labels
<1>1. ASSUME NEW c \in Calls, CallStep(c)
      PROVE  IdsOK' /\ OnceOK'
  <2>1. CASE Check(c)
    BY <2>1 DEF Check
  <2>2. CASE Number(c)
    <3>1. /\ pc[c] = "checked" /\ once' = once
          /\ \A d \in Calls : id'[d] = IF d = c THEN reqID + 1 ELSE id[d]
          /\ \A d \in Calls : pc'[d] = IF d = c THEN "numbered" ELSE pc[d]
          /\ reqID' = reqID + 1
      BY <2>2 DEF Number
    <3>2. reqID \in Nat /\ \A d \in Calls : id[d] \in Nat
      OBVIOUS
    <3> QED
      BY <3>1, <3>2
  <2>3. CASE OpenStreams(c)
    BY <2>3 DEF OpenStreams
  <2>4. CASE FailStreams(c)
    BY <2>4 DEF FailStreams
  <2>5. CASE Start(c)
    BY <2>5 DEF Start
  <2>6. CASE Select(c)
    BY <2>6 DEF Select
  <2>7. CASE Teardown(c)
    BY <2>7 DEF Teardown
  <2>8. CASE Uncount(c)
    BY <2>8 DEF Uncount
  <2>9. CASE Return(c)
    BY <2>9 DEF Return
  <2> QED
    BY <1>1, <2>1, <2>2, <2>3, <2>4, <2>5, <2>6, <2>7, <2>8, <2>9 DEF CallStep
<1>2. CASE QuietStep
  BY <1>2, QuietFacts
<1>3. CASE Close
  BY <1>3 DEF Close
<1> QED
  BY <1>1, <1>2, <1>3 DEF Next, QuietStep

\* What a step changes about the streams held and the streams registered.
LEMMA StreamsStep ==
  ASSUME BaseTypeOK, IdsOK, OnceOK, OwnedOK, HoldersKeepStreams, [Next]_vars
  PROVE  OwnedOK' /\ HoldersKeepStreams'
<1> USE DEF BaseTypeOK, OwnedOK, HoldersKeepStreams, Holding, StreamsOf, shared, world, Goto
<1>1. ASSUME NEW c \in Calls, Check(c) \/ FailStreams(c) \/ Number(c)
      PROVE  OwnedOK' /\ HoldersKeepStreams'
  <2>1. /\ active' = active /\ once' = once /\ closed' = closed
        /\ \A d \in Calls : d # c => pc'[d] = pc[d] /\ id'[d] = id[d]
        /\ ~Holding(c) /\ ~Holding(c)'
    BY <1>1 DEF Check, FailStreams, Number
  <2> QED
    BY <2>1
<1>2. ASSUME NEW c \in Calls, OpenStreams(c)
      PROVE  OwnedOK' /\ HoldersKeepStreams'
  <2>1. /\ active' = active \cup StreamsOf(id[c]) /\ once' = once /\ closed' = closed
        /\ id' = id /\ pc[c] = "numbered" /\ pc'[c] = "created"
        /\ \A d \in Calls : d # c => pc'[d] = pc[d]
    BY <1>2 DEF OpenStreams
  <2>2. once[c] = "fresh"
    BY <2>1 DEF OnceOK, Labels
  <2> QED
    BY <2>1, <2>2
<1>3. ASSUME NEW c \in Calls, Start(c) \/ Select(c)
      PROVE  OwnedOK' /\ HoldersKeepStreams'
  <2>1. /\ active' = active /\ once' = once /\ closed' = closed /\ id' = id
        /\ \A d \in Calls : Holding(d)' <=> Holding(d)
    BY <1>3 DEF Start, Select
  <2> QED
    BY <2>1
<1>4. ASSUME NEW c \in Calls, Teardown(c)
      PROVE  OwnedOK' /\ HoldersKeepStreams'
  <2>1. /\ active' = active \ StreamsOf(id[c]) /\ pc' = pc /\ closed' = closed
        /\ id' = id /\ once'[c] = "torn" /\ pc[c] \in {"waiting", "closing"}
        /\ \A d \in Calls : d # c => once'[d] = once[d]
    BY <1>4 DEF Teardown
  <2>2. \A d \in Calls : d # c => id[d] # id[c]
    BY <2>1 DEF IdsOK, Labels
  <2> QED
    BY <2>1, <2>2
<1>5. ASSUME NEW c \in Calls, Uncount(c) \/ Return(c)
      PROVE  OwnedOK' /\ HoldersKeepStreams'
  <2>1. /\ active' = active /\ closed' = closed /\ id' = id
        /\ \A d \in Calls : Holding(d)' <=> Holding(d)
    BY <1>5 DEF Uncount, Return
  <2> QED
    BY <2>1
<1>6. CASE QuietStep
  BY <1>6, QuietFacts
<1>7. CASE Close
  BY <1>7 DEF Close
<1> QED
  BY <1>1, <1>2, <1>3, <1>4, <1>5, <1>6, <1>7 DEF Next, CallStep, QuietStep

\* Sets of calls are finite, as FiniteSetTheorems asks.
LEMMA CountedFinite == IsFiniteSet(Counted) /\ IsFiniteSet(Counted')
BY CallsAssumption, FS_Subset DEF Counted

\* The gauge follows the set of counted calls element by element.
LEMMA GaugeStep ==
  ASSUME BaseTypeOK, OnceOK, GaugeExact, [Next]_vars
  PROVE  GaugeExact'
<1> USE DEF BaseTypeOK, Counted, shared, world, Goto
<1>0. streamGauge = Cardinality(Counted)
  BY DEF GaugeExact
<1> SUFFICES streamGauge' = Cardinality(Counted')
  BY DEF GaugeExact
<1>1. ASSUME NEW c \in Calls, Start(c)
      PROVE  streamGauge' = Cardinality(Counted')
  <2>1. c \notin Counted /\ Counted' = Counted \cup {c}
    BY <1>1 DEF Start, OnceOK, Labels
  <2>2. streamGauge' = streamGauge + 1
    BY <1>1 DEF Start
  <2> HIDE DEF Counted
  <2> QED
    BY <1>0, <2>1, <2>2, CountedFinite, FS_AddElement
<1>2. ASSUME NEW c \in Calls, Uncount(c)
      PROVE  streamGauge' = Cardinality(Counted')
  <2>1. c \in Counted /\ Counted' = Counted \ {c}
    BY <1>2 DEF Uncount, OnceOK
  <2>2. streamGauge' = streamGauge - 1
    BY <1>2 DEF Uncount
  <2> HIDE DEF Counted
  <2> QED
    BY <1>0, <2>1, <2>2, CountedFinite, FS_RemoveElement
<1>3. ASSUME NEW c \in Calls,
             \/ Check(c) \/ Number(c) \/ OpenStreams(c) \/ FailStreams(c)
             \/ Select(c) \/ Teardown(c) \/ Return(c)
      PROVE  streamGauge' = Cardinality(Counted')
  <2>1. Counted' = Counted
    BY <1>3 DEF Check, Number, OpenStreams, FailStreams, Select, Teardown, Return
  <2>2. streamGauge' = streamGauge
    BY <1>3 DEF Check, Number, OpenStreams, FailStreams, Select, Teardown, Return
  <2> QED
    BY <1>0, <2>1, <2>2
<1>4. CASE QuietStep \/ Close
  <2>1. Counted' = Counted /\ streamGauge' = streamGauge
    BY <1>4, QuietFacts DEF Close
  <2> QED
    BY <1>0, <2>1
<1> QED
  BY <1>1, <1>2, <1>3, <1>4 DEF Next, CallStep, QuietStep

\* A fresh tunnel satisfies the inductive invariant.
LEMMA InitIInv == Init => IInv
<1> SUFFICES ASSUME Init PROVE IInv
  OBVIOUS
<1>1. BaseTypeOK /\ TunnelOK
  <2>1. "new" \in Labels
    BY DEF Labels
  <2>2. pc \in [Calls -> Labels] /\ id \in [Calls -> Nat]
        /\ once \in [Calls -> {"fresh", "torn", "done"}] /\ ended \in [Calls -> BOOLEAN]
    BY <2>1 DEF Init
  <2>3. reqID \in Nat /\ tunnelGauge \in 0..1 /\ tunnelGauge # 0
    BY DEF Init
  <2>4. ~closed /\ active = {}
    BY DEF Init
  <2>5. closed \in BOOLEAN /\ ctxDone \in BOOLEAN /\ gone \in BOOLEAN /\ lost \in BOOLEAN
    BY DEF Init
  <2> QED
    BY <2>2, <2>3, <2>4, <2>5 DEF BaseTypeOK, TunnelOK
<1>2. IdsOK /\ OnceOK
  BY DEF Init, IdsOK, OnceOK, Labels
<1>3. OwnedOK /\ HoldersKeepStreams
  BY DEF Init, OwnedOK, HoldersKeepStreams, Holding
<1>4. GaugeExact
  <2>1. {c \in Calls : pc[c] \in {"waiting", "closing"} /\ once[c] # "done"} = {}
    BY DEF Init
  <2> QED
    BY <2>1, FS_EmptySet DEF Init, GaugeExact
<1> QED
  BY <1>1, <1>2, <1>3, <1>4 DEF IInv

\* The conjunction is inductive.
LEMMA Inductive == Spec => []IInv
<1>1. IInv /\ [Next]_vars => IInv'
  BY BaseStep, IdsStep, StreamsStep, GaugeStep DEF IInv
<1> QED
  BY <1>1, InitIInv, PTL DEF Spec

\* Type correctness; that the gauge is never negative needs the count.
THEOREM TypeCorrect == Spec => []TypeOK
<1>1. IInv => TypeOK
  <2> SUFFICES ASSUME IInv PROVE TypeOK
    OBVIOUS
  <2>1. streamGauge \in Nat
    BY CountedFinite, FS_CardinalityType DEF IInv, GaugeExact, Counted
  <2> QED
    BY <2>1 DEF IInv, BaseTypeOK, TunnelOK, TypeOK
<1> QED
  BY <1>1, Inductive, PTL

\* No Forward call disturbs the streams of another while the tunnel is open.
THEOREM HoldersCorrect == Spec => []HoldersKeepStreams
BY Inductive, PTL DEF IInv

\* No Forward call leaves a registered stream behind, Close or not.
THEOREM NoLeak == Spec => []NoStreamLeak
<1>1. IInv => NoStreamLeak
  <2> SUFFICES ASSUME IInv, NEW c \in Calls, pc[c] = "done",
                      NEW k \in {"error", "data"}, <<id[c], k>> \in active
               PROVE  FALSE
    BY DEF NoStreamLeak, StreamsOf
  <2>1. PICK d \in Calls : Holding(d) /\ id[d] = id[c]
    BY DEF IInv, OwnedOK, BaseTypeOK
  <2>2. id[d] # 0 /\ pc[d] # "done"
    BY <2>1 DEF IInv, IdsOK, Holding, Labels
  <2> QED
    BY <2>1, <2>2 DEF IInv, IdsOK
<1> QED
  BY <1>1, Inductive, PTL

\* The stream gauge is exact however clean-ups and calls interleave.
THEOREM GaugeCorrect == Spec => []GaugeExact
BY Inductive, PTL DEF IInv
------------------------------------------------------------------------------
(***************************************************************************)
(* The other handler of the package that raises a gauge around a stream:   *)
(* sftp through the agent container, for any finite number of sessions     *)
(* under the same server context.                                          *)
(***************************************************************************)
CONSTANT Sessions
VARIABLES sftp, agents, ran, status, podGone, sftpGauge

A == INSTANCE Agent WITH pc <- sftp

Streaming == {s \in Sessions : sftp[s] = "stream"}

AgentTypeOK ==
  /\ sftp \in [Sessions -> {"resolve", "get", "patch", "wait", "exec", "stream",
                            "ok", "failed"}]
  /\ agents \in 0..1
  /\ ran \in BOOLEAN
  /\ status \in {"none", "running", "exited", "blank"}
  /\ podGone \in BOOLEAN
  /\ ctxDone \in BOOLEAN

\* A session that waits has seen the container or has patched it in; nothing removes it.
WaitOK == \A s \in Sessions : sftp[s] = "wait" => agents = 1

\* A container whose status is running has been running; only then does a wait end well.
RanOK == status = "running" => ran

\* The gauge counts the streams.
SftpGaugeExact == sftpGauge = Cardinality(Streaming)

AgentInv == AgentTypeOK /\ WaitOK /\ RanOK /\ A!StreamAfterRunning /\ SftpGaugeExact

\* A session that does not touch the gauge does not change the set of streams.
LEMMA StreamingKept ==
  ASSUME AgentTypeOK, NEW s \in Sessions, sftp[s] # "stream",
         NEW label, label # "stream", sftp' = [sftp EXCEPT ![s] = label]
  PROVE  Streaming' = Streaming
BY DEF AgentTypeOK, Streaming

\* One step of one session.
LEMMA SftpStep ==
  ASSUME IsFiniteSet(Sessions), AgentInv, NEW s \in Sessions,
         A!SessionStep(s) \/ A!Fail(s) \/ \E err \in BOOLEAN : A!EndStream(s, err)
  PROVE  AgentInv'
<1> USE DEF AgentInv, AgentTypeOK, WaitOK, RanOK, A!StreamAfterRunning, A!Goto
<1>1. IsFiniteSet(Streaming)
  BY FS_Subset DEF Streaming
<1>2. CASE A!Resolve(s) \/ A!GetPod(s) \/ A!Patch(s) \/ A!Poll(s) \/ A!Fail(s)
  <2>1. UNCHANGED sftpGauge
    BY <1>2 DEF A!Resolve, A!GetPod, A!Patch, A!Poll, A!Fail
  <2>2. Streaming' = Streaming
    BY <1>2 DEF A!Resolve, A!GetPod, A!Patch, A!Poll, A!Fail, Streaming
  <2>3. SftpGaugeExact'
    BY <2>1, <2>2 DEF SftpGaugeExact
  <2>4. AgentTypeOK'
    BY <1>2 DEF A!Resolve, A!GetPod, A!Patch, A!Poll, A!Fail
  <2>5. WaitOK' /\ RanOK' /\ A!StreamAfterRunning'
    BY <1>2 DEF A!Resolve, A!GetPod, A!Patch, A!Poll, A!Fail
  <2> QED
    BY <2>3, <2>4, <2>5
<1>3. CASE A!Exec(s)
  <2>1. Streaming' = Streaming \cup {s} /\ s \notin Streaming
    BY <1>3 DEF A!Exec, Streaming
  <2>2. Cardinality(Streaming') = Cardinality(Streaming) + 1
    BY <1>1, <2>1, FS_AddElement
  <2>3. SftpGaugeExact'
    BY <1>3, <2>2 DEF A!Exec, SftpGaugeExact
  <2>4. AgentTypeOK' /\ WaitOK' /\ RanOK' /\ A!StreamAfterRunning'
    BY <1>3 DEF A!Exec
  <2> QED
    BY <2>3, <2>4
<1>4. ASSUME NEW err \in BOOLEAN, A!EndStream(s, err)
      PROVE  AgentInv'
  <2>1. Streaming' = Streaming \ {s} /\ s \in Streaming
    BY <1>4 DEF A!EndStream, Streaming
  <2>2. Cardinality(Streaming') = Cardinality(Streaming) - 1
    BY <1>1, <2>1, FS_RemoveElement
  <2>3. SftpGaugeExact'
    BY <1>4, <2>2 DEF A!EndStream, SftpGaugeExact
  <2>4. AgentTypeOK' /\ WaitOK' /\ RanOK' /\ A!StreamAfterRunning'
    BY <1>4 DEF A!EndStream
  <2> QED
    BY <2>3, <2>4
<1> QED
  BY <1>2, <1>3, <1>4 DEF A!SessionStep

\* The cluster's steps leave the sessions alone.
LEMMA ClusterStep ==
  ASSUME AgentInv,
         A!StartAgent \/ A!StopAgent \/ A!DeletePod \/ A!Shutdown \/ UNCHANGED A!vars
  PROVE  AgentInv'
<1> USE DEF AgentInv, AgentTypeOK, WaitOK, RanOK, A!StreamAfterRunning, A!StartAgent,
            A!StopAgent, A!DeletePod, A!Shutdown, A!vars
<1>1. podGone' \in BOOLEAN
  OBVIOUS
<1>2. ctxDone' \in BOOLEAN
  OBVIOUS
<1>3. UNCHANGED <<sftp, agents, sftpGauge>>
  OBVIOUS
<1>4. status' \in {"none", "running", "exited", "blank"}
  OBVIOUS
<1>5. ran' \in BOOLEAN
  OBVIOUS
<1>6. (ran => ran') /\ (status' = "running" => ran')
  OBVIOUS
<1>7. SftpGaugeExact'
  BY <1>3 DEF SftpGaugeExact, Streaming
<1> QED
  BY <1>1, <1>2, <1>3, <1>4, <1>5, <1>6, <1>7

LEMMA AgentInductive ==
  ASSUME IsFiniteSet(Sessions)
  PROVE  A!Spec => []AgentInv
<1>1. A!Init => AgentInv
  <2> SUFFICES ASSUME A!Init
               PROVE  AgentInv
    OBVIOUS
  <2>1. Streaming = {}
    BY DEF A!Init, Streaming
  <2>2. SftpGaugeExact
    BY <2>1, FS_EmptySet DEF A!Init, SftpGaugeExact
  <2>3. podGone \in BOOLEAN /\ ctxDone \in BOOLEAN /\ ran \in BOOLEAN
    BY DEF A!Init
  <2> QED
    BY <2>2, <2>3 DEF A!Init, AgentInv, AgentTypeOK, WaitOK, RanOK,
                       A!StreamAfterRunning
<1>2. AgentInv /\ [A!Next]_A!vars => AgentInv'
  BY SftpStep, ClusterStep DEF A!Next
<1> QED
  BY <1>1, <1>2, PTL DEF A!Spec

\* Every variable of the sftp handler keeps its type: the gauge of open streams stays
\* between zero and the number of sessions, however streams end.
THEOREM AgentTypeCorrect ==
  ASSUME IsFiniteSet(Sessions)
  PROVE  A!Spec => []A!TypeOK
<1>1. AgentInv => A!TypeOK
  <2> SUFFICES ASSUME AgentInv
               PROVE  A!TypeOK
    OBVIOUS
  <2>1. IsFiniteSet(Streaming) /\ Cardinality(Streaming) <= Cardinality(Sessions)
    BY FS_Subset DEF Streaming
  <2>2. Cardinality(Streaming) \in Nat /\ Cardinality(Sessions) \in Nat
    BY <2>1, FS_CardinalityType
  <2>3. sftpGauge \in 0..Cardinality(Sessions)
    BY <2>1, <2>2 DEF AgentInv, SftpGaugeExact
  <2>4. A!Cardinality(Sessions) = Cardinality(Sessions)
    BY DEF A!Cardinality, Cardinality
  <2>5. agents \in Nat
    BY DEF AgentInv, AgentTypeOK
  <2> QED
    BY <2>3, <2>4, <2>5 DEF AgentInv, AgentTypeOK, A!TypeOK
<1> QED
  BY <1>1, AgentInductive, PTL

\* However many sessions find a pod without an agent at once, one agent is created, and
\* none of them streams unless its container has been running; one that ended before it
\* ever ran lets nobody through.
THEOREM AgentRunsFirst ==
  ASSUME IsFiniteSet(Sessions)
  PROVE  A!Spec => []A!StreamAfterRunning
<1>1. AgentInv => A!StreamAfterRunning
  BY DEF AgentInv
<1> QED
  BY <1>1, AgentInductive, PTL
==============================================================================
