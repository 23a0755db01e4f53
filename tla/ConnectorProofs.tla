--------------------------- MODULE ConnectorProofs ---------------------------
(***************************************************************************)
(* Safety of one connection for any finite sets of channels and            *)
(* destinations and any cap on its goroutines.                             *)
(***************************************************************************)
EXTENDS Connector, FiniteSetTheorems, TLAPS

\* The phases in which Handle serves an identity it has let through.
Serving == {"loop", "dial", "spawn", "close", "wait"}

\* Before Handle serves, nothing was counted, started or opened.
FreshOK ==
  phase = "handshake" =>
    failedAuth = 0 /\ goodAuth = 0 /\ slots = 0 /\ ~global /\ Running = {} /\ forwarded = {}

\* The gate: what is served was let through.
GateOK == phase \in Serving => identity.user /\ identity.host /\ goodAuth = 1

\* Only the channel that Handle has in its hands is pending, and a dial is for a
\* destination.
PendingOK ==
  /\ \A c \in Channels :
       at[c] = "pending" => \/ phase = "spawn"
                            \/ phase = "dial" /\ want[c] \in Dests
  /\ \A c, d \in Channels : at[c] = "pending" /\ at[d] = "pending" => c = d

\* Every open tunnel is in the map, where Handle finds it when it closes them all.
TunnelsOK ==
  /\ open \subseteq forwarded
  /\ phase \in {"wait", "returned"} => open = {}

\* Handle returns without goroutines.
ReturnOK == phase = "returned" => slots = 0

\* The inductive invariant.
IInv ==
  TypeOK /\ SlotsExact /\ FreshOK /\ GateOK /\ PendingOK /\ TunnelsOK /\ ReturnOK

\* The channel goroutines are finitely many, as FiniteSetTheorems asks.
LEMMA RunningFinite ==
  /\ IsFiniteSet(Running)
  /\ IsFiniteSet(Running')
  /\ Cardinality(Running) \in Nat
BY ConnectorAssumption, FS_Subset, FS_CardinalityType DEF Running

\* A slot is held for every goroutine, so one that ends has a slot to give back.
LEMMA SlotHeld ==
  ASSUME TypeOK, SlotsExact
  PROVE  /\ Running # {} => slots >= 1
         /\ global => slots >= 1
         /\ slots = 0 => Running = {} /\ ~global
<1>1. Running # {} => Cardinality(Running) >= 1
  BY RunningFinite, FS_EmptySet
<1>2. CASE global
  <2>1. slots = Cardinality(Running) + 1
    BY <1>2 DEF SlotsExact
  <2> QED
    BY <1>2, <2>1, RunningFinite
<1>3. CASE ~global
  <2>1. slots = Cardinality(Running) + 0
    BY <1>3 DEF SlotsExact
  <2> QED
    BY <1>1, <1>3, <2>1, RunningFinite
<1> QED
  BY <1>2, <1>3

\* The steps that start or end no goroutine.
QuietStep ==
  \/ FailHandshake
  \/ FailDeadline
  \/ \E c \in Channels :
       \/ FailTunnel(c) \/ OpenTunnel(c) \/ FailAccept(c)
       \/ TakeSession(c) \/ RejectChannel(c) \/ Park(c)
  \/ \E c \in Channels, d \in Dests : TakeDirect(c, d)
  \/ \E d \in Dests : CloseTunnel(d)
  \/ ExitLoop \/ TunnelsClosed \/ Return \/ Hangup \/ Shutdown
  \/ UNCHANGED vars

\* They leave the goroutines and the slots as they are.
LEMMA QuietFacts ==
  ASSUME TypeOK, QuietStep
  PROVE  Running' = Running /\ slots' = slots /\ global' = global
<1> USE DEF TypeOK, Running, Move, auth, ends
<1>1. ASSUME NEW c \in Channels,
             \/ FailTunnel(c) \/ OpenTunnel(c) \/ FailAccept(c)
             \/ TakeSession(c) \/ RejectChannel(c) \/ Park(c)
      PROVE  Running' = Running /\ slots' = slots /\ global' = global
  BY <1>1 DEF FailTunnel, OpenTunnel, FailAccept, TakeSession, RejectChannel, Park
<1>2. ASSUME NEW c \in Channels, NEW d \in Dests, TakeDirect(c, d)
      PROVE  Running' = Running /\ slots' = slots /\ global' = global
  BY <1>2 DEF TakeDirect
<1> QED
  BY <1>1, <1>2
     DEF QuietStep, FailHandshake, FailDeadline, CloseTunnel, ExitLoop, TunnelsClosed,
         Return, Hangup, Shutdown, vars

\* Slots follow goroutines one by one.
LEMMA SlotsStep ==
  ASSUME TypeOK, SlotsExact, FreshOK, [Next]_vars
  PROVE  SlotsExact'
<1> USE DEF TypeOK, Move, auth, ends
<1>1. CASE QuietStep
  BY <1>1, QuietFacts DEF SlotsExact
<1>2. ASSUME NEW u \in BOOLEAN, NEW r \in BOOLEAN, NEW h \in BOOLEAN, Authenticate(u, r, h)
      PROVE  SlotsExact'
  <2>1. Running' = Running
    BY <1>2 DEF Authenticate, Running
  <2>2. CASE phase' = "loop"
    <3>1. slots' = slots + 1 /\ global' /\ ~global
      BY <1>2, <2>2 DEF Authenticate, FreshOK
    <3> QED
      BY <2>1, <3>1, RunningFinite DEF SlotsExact
  <2>3. CASE phase' # "loop"
    <3>1. slots' = slots /\ global' = global
      BY <1>2, <2>3 DEF Authenticate
    <3> QED
      BY <2>1, <3>1 DEF SlotsExact
  <2> QED
    BY <2>2, <2>3
<1>3. ASSUME NEW c \in Channels, Spawn(c)
      PROVE  SlotsExact'
  <2>1. CASE slots < Cap
    <3>1. c \notin Running /\ Running' = Running \cup {c}
      BY <1>3, <2>1 DEF Spawn, Running
    <3>2. slots' = slots + 1 /\ global' = global
      BY <1>3, <2>1 DEF Spawn
    <3>3. Cardinality(Running') = Cardinality(Running) + 1
      BY <3>1, RunningFinite, FS_AddElement
    <3> QED
      BY <3>2, <3>3, RunningFinite DEF SlotsExact
  <2>2. CASE ~(slots < Cap)
    <3>1. Running' = Running /\ slots' = slots /\ global' = global
      BY <1>3, <2>2 DEF Spawn, Running
    <3> QED
      BY <3>1 DEF SlotsExact
  <2> QED
    BY <2>1, <2>2
<1>4. ASSUME NEW c \in Channels, EndChannel(c)
      PROVE  SlotsExact'
  <2>1. c \in Running /\ Running' = Running \ {c}
    BY <1>4 DEF EndChannel, Running
  <2>2. slots' = slots - 1 /\ global' = global
    BY <1>4 DEF EndChannel
  <2>3. Cardinality(Running') = Cardinality(Running) - 1
    BY <2>1, RunningFinite, FS_RemoveElement
  <2> QED
    BY <2>2, <2>3, RunningFinite DEF SlotsExact
<1>5. CASE EndGlobal
  <2>1. slots' = slots - 1 /\ global /\ ~global' /\ Running' = Running
    BY <1>5 DEF EndGlobal, Running
  <2> QED
    BY <2>1, RunningFinite DEF SlotsExact
<1> QED
  BY <1>1, <1>2, <1>3, <1>4, <1>5 DEF Next, HandleStep, DialStep, QuietStep

\* Types: the group never takes more than Cap slots nor gives back more than it took,
\* and a connection is counted once.
LEMMA TypeStep ==
  ASSUME TypeOK, SlotsExact, FreshOK, PendingOK, [Next]_vars
  PROVE  TypeOK'
<1> USE ConnectorAssumption DEF TypeOK, Move, auth, ends
<1>1. CASE FailHandshake \/ FailDeadline
  BY <1>1 DEF FailHandshake, FailDeadline, FreshOK
<1>2. ASSUME NEW u \in BOOLEAN, NEW r \in BOOLEAN, NEW h \in BOOLEAN, Authenticate(u, r, h)
      PROVE  TypeOK'
  <2>1. identity' \in [user : BOOLEAN, host : BOOLEAN]
    BY <1>2 DEF Authenticate, Decoded
  <2>2. global' \in BOOLEAN
    BY <1>2 DEF Authenticate
  <2>3. /\ phase' \in {"loop", "returned"}
        /\ slots' \in {0, 1} /\ goodAuth' \in 0..1 /\ failedAuth' \in 0..1
        /\ UNCHANGED <<at, want, forwarded, open, ends>>
    BY <1>2 DEF Authenticate, FreshOK
  <2> QED
    BY <2>1, <2>2, <2>3
<1>3. ASSUME NEW c \in Channels,
             FailTunnel(c) \/ FailAccept(c) \/ RejectChannel(c) \/ Park(c)
      PROVE  TypeOK'
  BY <1>3 DEF FailTunnel, FailAccept, RejectChannel, Park
<1>4. ASSUME NEW c \in Channels, OpenTunnel(c)
      PROVE  TypeOK'
  BY <1>4 DEF OpenTunnel, PendingOK
<1>5. ASSUME NEW c \in Channels, Spawn(c)
      PROVE  TypeOK'
  BY <1>5 DEF Spawn
<1>6. ASSUME NEW c \in Channels, TakeSession(c)
      PROVE  TypeOK'
  BY <1>6 DEF TakeSession
<1>7. ASSUME NEW c \in Channels, NEW d \in Dests, TakeDirect(c, d)
      PROVE  TypeOK'
  BY <1>7 DEF TakeDirect
<1>8. ASSUME NEW c \in Channels, EndChannel(c)
      PROVE  TypeOK'
  <2>1. slots >= 1
    BY <1>8, SlotHeld DEF EndChannel, Running
  <2> QED
    BY <1>8, <2>1 DEF EndChannel
<1>9. CASE EndGlobal
  <2>1. slots >= 1
    BY <1>9, SlotHeld DEF EndGlobal
  <2>2. global' \in BOOLEAN
    BY <1>9 DEF EndGlobal
  <2>3. slots' = slots - 1 /\ UNCHANGED <<phase, auth, at, want, forwarded, open, ends>>
    BY <1>9 DEF EndGlobal
  <2> QED
    BY <2>1, <2>2, <2>3
<1>10. ASSUME NEW d \in Dests, CloseTunnel(d)
       PROVE  TypeOK'
  BY <1>10 DEF CloseTunnel
<1>11. CASE ExitLoop \/ TunnelsClosed \/ Return \/ Hangup \/ Shutdown
  BY <1>11 DEF ExitLoop, TunnelsClosed, Return, Hangup, Shutdown
<1>12. CASE UNCHANGED vars
  BY <1>12 DEF vars
<1> QED
  BY <1>1, <1>2, <1>3, <1>4, <1>5, <1>6, <1>7, <1>8, <1>9, <1>10, <1>11, <1>12
     DEF Next, HandleStep, DialStep

\* Handle's order of business: the gate, one channel at a time, tunnels before the
\* wait, and a return when the group is empty.
LEMMA HandleOrder ==
  ASSUME IInv, [Next]_vars
  PROVE  FreshOK' /\ GateOK' /\ PendingOK' /\ TunnelsOK' /\ ReturnOK'
<1> DEFINE Order == FreshOK /\ GateOK /\ PendingOK /\ TunnelsOK /\ ReturnOK
<1> USE DEF IInv, TypeOK, FreshOK, GateOK, PendingOK, TunnelsOK, ReturnOK, Serving,
            Move, auth, ends
<1>0. slots = 0 => Running = {} /\ ~global
  BY SlotHeld
<1>1. CASE FailHandshake \/ FailDeadline
  BY <1>1 DEF FailHandshake, FailDeadline
<1>2. ASSUME NEW u \in BOOLEAN, NEW r \in BOOLEAN, NEW h \in BOOLEAN, Authenticate(u, r, h)
      PROVE  Order'
  BY <1>2 DEF Authenticate, Permitted
<1>3. ASSUME NEW c \in Channels,
             FailTunnel(c) \/ FailAccept(c) \/ RejectChannel(c) \/ TakeSession(c) \/ Park(c)
      PROVE  Order'
  BY <1>3 DEF FailTunnel, FailAccept, RejectChannel, TakeSession, Park, Running
<1>4. ASSUME NEW c \in Channels, OpenTunnel(c)
      PROVE  Order'
  BY <1>4 DEF OpenTunnel
<1>5. ASSUME NEW c \in Channels, Spawn(c)
      PROVE  Order'
  BY <1>5 DEF Spawn
<1>6. ASSUME NEW c \in Channels, NEW d \in Dests, TakeDirect(c, d)
      PROVE  Order'
  BY <1>6 DEF TakeDirect
<1>7. ASSUME NEW c \in Channels, EndChannel(c)
      PROVE  Order'
  BY <1>0, <1>7 DEF EndChannel, Running
<1>8. CASE EndGlobal
  BY <1>0, <1>8 DEF EndGlobal
<1>9. ASSUME NEW d \in Dests, CloseTunnel(d)
      PROVE  Order'
  BY <1>9 DEF CloseTunnel
<1>10. CASE ExitLoop \/ TunnelsClosed \/ Return \/ Hangup \/ Shutdown
  BY <1>10 DEF ExitLoop, TunnelsClosed, Return, Hangup, Shutdown, Running
<1>11. CASE UNCHANGED vars
  BY <1>11 DEF vars, Running
<1> QED
  BY <1>1, <1>2, <1>3, <1>4, <1>5, <1>6, <1>7, <1>8, <1>9, <1>10, <1>11
     DEF Next, HandleStep, DialStep

\* A connection that was just accepted satisfies the inductive invariant.
LEMMA InitIInv == Init => IInv
<1> SUFFICES ASSUME Init PROVE IInv
  OBVIOUS
<1>1. ~global /\ global \in BOOLEAN /\ gone \in BOOLEAN /\ ctxDone \in BOOLEAN
  BY DEF Init
<1>2. /\ at \in [Channels -> {"unopened", "pending", "running", "parked", "rejected", "closed"}]
      /\ want \in [Channels -> Dests \cup {"session", "none"}]
      /\ identity \in [user : BOOLEAN, host : BOOLEAN]
  BY DEF Init
<1>3. TypeOK
  BY <1>1, <1>2, ConnectorAssumption DEF Init, TypeOK
<1>4. Running = {}
  BY DEF Init, Running
<1>5. SlotsExact
  BY <1>1, <1>4, FS_EmptySet DEF Init, SlotsExact
<1>6. FreshOK /\ GateOK /\ PendingOK /\ TunnelsOK /\ ReturnOK
  BY <1>1, <1>4 DEF Init, FreshOK, GateOK, PendingOK, TunnelsOK, ReturnOK, Serving
<1> QED
  BY <1>3, <1>5, <1>6 DEF IInv

\* The conjunction is inductive.
LEMMA Inductive == Spec => []IInv
<1>1. IInv /\ [Next]_vars => IInv'
  BY SlotsStep, TypeStep, HandleOrder DEF IInv
<1> QED
  BY <1>1, InitIInv, PTL DEF Spec

\* The connection's state keeps its type: Handle never runs more than
\* perConnGoroutineCap goroutines and counts the connection once.
THEOREM TypeCorrect == Spec => []TypeOK
BY Inductive, PTL DEF IInv

\* The group's slots are exactly its goroutines, for any cap.
THEOREM SlotsCorrect == Spec => []SlotsExact
BY Inductive, PTL DEF IInv

\* Handle serves nobody that its identity gate did not let through.
THEOREM ServedCorrect == Spec => []ServedIsPermitted
<1>1. IInv => ServedIsPermitted
  <2> SUFFICES ASSUME IInv, Running # {} \/ open # {}
               PROVE  identity.user /\ identity.host /\ goodAuth = 1
    BY DEF ServedIsPermitted
  <2>1. phase # "handshake"
    BY DEF IInv, FreshOK, TunnelsOK
  <2>2. phase # "returned"
    BY SlotHeld DEF IInv, TunnelsOK, ReturnOK
  <2>3. phase \in Serving
    BY <2>1, <2>2 DEF IInv, TypeOK, Serving
  <2> QED
    BY <2>3 DEF IInv, GateOK
<1> QED
  BY <1>1, Inductive, PTL

\* When Handle returns, on whichever path, its group is empty and its tunnels closed.
THEOREM ReleasesCorrect == Spec => []HandleReleases
<1>1. IInv => HandleReleases
  BY SlotHeld DEF IInv, TunnelsOK, ReturnOK, HandleReleases
<1> QED
  BY <1>1, Inductive, PTL
------------------------------------------------------------------------------
(* The connection implements TaskGroup. *)

\* What becomes of the channels as tasks, all of them together.
ChannelTasks == [c \in Channels |-> ChannelTask(c)]

\* A channel that changes hands is the only task that may change.
LEMMA MoveTask ==
  ASSUME TypeOK, NEW c \in Channels, NEW place, Move(c, place)
  PROVE  /\ \/ place = "pending" /\ at[c] = "unopened"
            \/ place = "parked" /\ at[c] = "running"
            => ChannelTasks' = ChannelTasks
         /\ place = "running" => ChannelTasks' = [ChannelTasks EXCEPT ![c] = "running"]
         /\ place \in {"rejected", "closed"} =>
              ChannelTasks' = [ChannelTasks EXCEPT ![c] = "over"]
BY DEF TypeOK, Move, ChannelTasks, ChannelTask

\* The tasks that run are the channels that run.
LEMMA BusyIsRunning ==
  ASSUME TypeOK
  PROVE  /\ Group!Busy = Running
         /\ Group!Cardinality(Running) = Cardinality(Running)
<1>1. \A c \in Channels : ChannelTask(c) = "running" <=> at[c] \in {"running", "parked"}
  BY DEF ChannelTask, TypeOK
<1>2. Group!Busy = Running
  BY <1>1 DEF Group!Busy, Running
<1> QED
  BY <1>2 DEF Group!Cardinality, Cardinality

\* A new connection is a group that is not open yet.
LEMMA InitGroup == Init => Group!Init
BY DEF Init, Group!Init, GroupStage, ChannelTask

\* Every step of the connection is a step of the group or leaves it alone.
LEMMA StepGroup ==
  ASSUME IInv, [Next]_vars
  PROVE  [Group!Next]_(Group!vars)
<1> DEFINE Step == [Group!Next]_(Group!vars)
<1> USE DEF IInv, TypeOK, auth, ends
<1>1. CASE FailHandshake \/ FailDeadline
  <2>1. GroupStage = "idle" /\ GroupStage' = "closed" /\ ChannelTasks' = ChannelTasks
    BY <1>1 DEF FailHandshake, FailDeadline, GroupStage, ChannelTasks, ChannelTask
  <2>2. Running = {}
    BY <1>1 DEF FreshOK, FailHandshake, FailDeadline
  <2> QED
    BY <2>1, <2>2, BusyIsRunning DEF Group!Close, Group!Next, ChannelTasks
<1>2. ASSUME NEW u \in BOOLEAN, NEW r \in BOOLEAN, NEW h \in BOOLEAN, Authenticate(u, r, h)
      PROVE  Step
  <2>1. GroupStage = "idle" /\ GroupStage' \in {"open", "closed"}
    BY <1>2 DEF Authenticate, GroupStage
  <2>2. ChannelTasks' = ChannelTasks
    BY <1>2 DEF Authenticate, ChannelTasks, ChannelTask
  <2>3. Running = {}
    BY <1>2 DEF FreshOK, Authenticate
  <2> QED
    BY <2>1, <2>2, <2>3, BusyIsRunning
       DEF Group!Open, Group!Close, Group!Next, ChannelTasks
<1>3. ASSUME NEW c \in Channels, FailTunnel(c) \/ FailAccept(c) \/ RejectChannel(c)
      PROVE  Step
  <2>1. /\ Move(c, "rejected")
        /\ at[c] \in {"unopened", "pending"}
        /\ GroupStage = "open" /\ GroupStage' = "open"
    BY <1>3 DEF FailTunnel, FailAccept, RejectChannel, GroupStage
  <2>2. ChannelTasks[c] = "fresh"
    BY <2>1 DEF ChannelTasks, ChannelTask
  <2>3. ChannelTasks' = [ChannelTasks EXCEPT ![c] = "over"]
    BY <2>1, MoveTask
  <2> QED
    BY <2>1, <2>2, <2>3 DEF Group!TurnAway, Group!Next, ChannelTasks
<1>4. ASSUME NEW c \in Channels,
             TakeSession(c) \/ Park(c) \/ \E d \in Dests : TakeDirect(c, d)
      PROVE  Step
  <2>1. /\ \/ Move(c, "pending") /\ at[c] = "unopened"
           \/ Move(c, "parked") /\ at[c] = "running"
        /\ GroupStage' = GroupStage
    BY <1>4 DEF TakeSession, TakeDirect, Park, GroupStage
  <2>2. ChannelTasks' = ChannelTasks
    BY <2>1, MoveTask
  <2> QED
    BY <2>1, <2>2 DEF Group!vars, ChannelTasks
<1>5. ASSUME NEW c \in Channels, Spawn(c)
      PROVE  Step
  <2>1. at[c] = "pending" /\ GroupStage = "open" /\ GroupStage' = "open"
    BY <1>5 DEF Spawn, GroupStage
  <2>2. ChannelTasks[c] = "fresh"
    BY <2>1 DEF ChannelTasks, ChannelTask
  <2>3. CASE slots < Cap
    <3>1. Cardinality(Running) < Cap
      BY <2>3, RunningFinite, ConnectorAssumption DEF SlotsExact
    <3>2. ChannelTasks' = [ChannelTasks EXCEPT ![c] = "running"]
      BY <1>5, <2>3, MoveTask DEF Spawn
    <3> QED
      BY <2>1, <2>2, <3>1, <3>2, BusyIsRunning DEF Group!Start, Group!Next, ChannelTasks
  <2>4. CASE ~(slots < Cap)
    <3>1. ChannelTasks' = [ChannelTasks EXCEPT ![c] = "over"]
      BY <1>5, <2>4, MoveTask DEF Spawn
    <3> QED
      BY <2>1, <2>2, <3>1 DEF Group!TurnAway, Group!Next, ChannelTasks
  <2> QED
    BY <2>3, <2>4
<1>6. ASSUME NEW c \in Channels, EndChannel(c)
      PROVE  Step
  <2>1. ChannelTasks[c] = "running" /\ GroupStage' = GroupStage
    BY <1>6 DEF EndChannel, ChannelTasks, ChannelTask, GroupStage
  <2>2. ChannelTasks' = [ChannelTasks EXCEPT ![c] = "over"]
    BY <1>6, MoveTask DEF EndChannel
  <2> QED
    BY <2>1, <2>2 DEF Group!Finish, Group!Next, ChannelTasks
<1>7. CASE ExitLoop
  <2>1. GroupStage = "open" /\ GroupStage' = "draining" /\ ChannelTasks' = ChannelTasks
    BY <1>7 DEF ExitLoop, GroupStage, ChannelTasks, ChannelTask
  <2> QED
    BY <2>1 DEF Group!Drain, Group!Next, ChannelTasks
<1>8. CASE Return
  <2>1. GroupStage = "draining" /\ GroupStage' = "closed" /\ ChannelTasks' = ChannelTasks
    BY <1>8 DEF Return, GroupStage, ChannelTasks, ChannelTask
  <2>2. Running = {}
    BY <1>8, SlotHeld DEF Return
  <2> QED
    BY <2>1, <2>2, BusyIsRunning DEF Group!Close, Group!Next, ChannelTasks
<1>9. CASE \/ \E c \in Channels : OpenTunnel(c)
           \/ \E d \in Dests : CloseTunnel(d)
           \/ TunnelsClosed \/ EndGlobal \/ Hangup \/ Shutdown \/ UNCHANGED vars
  <2>1. GroupStage' = GroupStage /\ ChannelTasks' = ChannelTasks
    BY <1>9 DEF OpenTunnel, CloseTunnel, TunnelsClosed, EndGlobal, Hangup, Shutdown, vars,
                GroupStage, ChannelTasks, ChannelTask
  <2> QED
    BY <2>1 DEF Group!vars, ChannelTasks
<1> QED
  BY <1>1, <1>2, <1>3, <1>4, <1>5, <1>6, <1>7, <1>8, <1>9 DEF Next, HandleStep, DialStep

\* Handle keeps the promise of a task group, for any channels and any cap: a channel is
\* served at most once, none is started once Handle stops taking them, at most Cap run,
\* and Handle returns over no running one.
THEOREM ImplementsGroup == Spec => Implements
<1>1. IInv /\ [Next]_vars => [Group!Next]_(Group!vars)
  BY StepGroup
<1> QED
  BY <1>1, InitGroup, Inductive, PTL DEF Spec, Implements, Group!Spec
==============================================================================
