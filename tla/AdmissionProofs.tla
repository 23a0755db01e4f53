--------------------------- MODULE AdmissionProofs ---------------------------
(***************************************************************************)
(* Safety of the acceptor and the tarpit for any finite set of connections *)
(* and any capacity of the queue and of the semaphore.                     *)
(***************************************************************************)
EXTENDS Admission, FiniteSetTheorems, TLAPS

Queued  == {c \in Conns : at[c] = "queued"}
Delayed == {c \in Conns : at[c] = "delay"}

\* No connection is in the queue twice.
Distinct(s) == \A i, j \in 1..Len(s) : s[i] = s[j] => i = j

\* The queue holds exactly the queued connections, each once.
QueueOK ==
  /\ Distinct(jobs)
  /\ ToSet(jobs) = Queued
  /\ Len(jobs) = Cardinality(Queued)

\* Every taken slot of the semaphore is a connection that is being delayed.
SemOK == sem = Cardinality(Delayed)

\* The run loop has at most one connection in its hands, and none while it selects.
HandOK ==
  /\ run = "select" => \A c \in Conns : at[c] # "slot"
  /\ \A c, d \in Conns : at[c] = "slot" /\ at[d] = "slot" => c = d

\* The acceptor decides the one connection it has in its hands, and exits with empty
\* hands, when it has reported an error.
InHand(c) == at[c] \in {"deciding", "denied"}

AcceptorOK ==
  /\ \A c \in Conns : InHand(c) => acceptor = "decide"
  /\ \A c, d \in Conns : InHand(c) /\ InHand(d) => c = d
  /\ acceptor = "exited" => firstErr # "none"

\* Before it listens the server has no connection, and when it returns the acceptor and
\* the handlers are over.
ServeOK ==
  /\ serve = "bind" => acceptor = "accept" /\ \A c \in Conns : at[c] = "client"
  /\ serve = "returned" => /\ acceptor = "exited"
                           /\ \A c \in Conns : at[c] \notin {"handler", "stuck"}

\* The inductive invariant.
IInv == TypeOK /\ QueueOK /\ SemOK /\ HandOK /\ AcceptorOK /\ ServeOK

\* The sets that are counted are finite, as FiniteSetTheorems asks.
LEMMA Finite ==
  /\ IsFiniteSet(Queued) /\ IsFiniteSet(Queued')
  /\ IsFiniteSet(Delayed) /\ IsFiniteSet(Delayed')
  /\ Cardinality(Queued) \in Nat /\ Cardinality(Delayed) \in Nat
BY AdmissionAssumption, FS_Subset, FS_CardinalityType DEF Queued, Delayed

\* A connection that is not in the queue may join it.
LEMMA AppendFacts ==
  ASSUME NEW S, NEW s \in Seq(S), NEW e \in S, Distinct(s), e \notin ToSet(s)
  PROVE  /\ Append(s, e) \in Seq(S)
         /\ Len(Append(s, e)) = Len(s) + 1
         /\ Distinct(Append(s, e))
         /\ ToSet(Append(s, e)) = ToSet(s) \cup {e}
<1>1. /\ Append(s, e) \in Seq(S) /\ Len(Append(s, e)) = Len(s) + 1 /\ Len(s) \in Nat
      /\ DOMAIN s = 1..Len(s) /\ DOMAIN Append(s, e) = 1..(Len(s) + 1)
      /\ \A i \in 1..(Len(s) + 1) :
           Append(s, e)[i] = IF i = Len(s) + 1 THEN e ELSE s[i]
  OBVIOUS
<1>2. \A i \in 1..Len(s) : s[i] # e
  BY <1>1 DEF ToSet
<1>3. Distinct(Append(s, e))
  BY <1>1, <1>2 DEF Distinct
<1>4. ToSet(Append(s, e)) = ToSet(s) \cup {e}
  BY <1>1 DEF ToSet
<1> QED
  BY <1>1, <1>3, <1>4

\* The first of the queue leaves it, and the rest stays.
LEMMA TailFacts ==
  ASSUME NEW S, NEW s \in Seq(S), s # <<>>, Distinct(s)
  PROVE  /\ Head(s) \in S /\ Head(s) \in ToSet(s)
         /\ Tail(s) \in Seq(S)
         /\ Len(Tail(s)) = Len(s) - 1
         /\ Distinct(Tail(s))
         /\ ToSet(Tail(s)) = ToSet(s) \ {Head(s)}
<1>1. /\ Tail(s) \in Seq(S) /\ Len(Tail(s)) = Len(s) - 1 /\ Len(s) \in Nat /\ Len(s) # 0
      /\ DOMAIN s = 1..Len(s) /\ DOMAIN Tail(s) = 1..(Len(s) - 1)
      /\ Head(s) = s[1] /\ s[1] \in S
      /\ \A i \in 1..(Len(s) - 1) : Tail(s)[i] = s[i + 1]
  OBVIOUS
<1>2. Distinct(Tail(s))
  BY <1>1 DEF Distinct
<1>3. ToSet(Tail(s)) \subseteq ToSet(s) \ {Head(s)}
  BY <1>1 DEF ToSet, Distinct
<1>4. ASSUME NEW e \in ToSet(s) \ {Head(s)}
      PROVE  e \in ToSet(Tail(s))
  <2>1. PICK i \in 1..Len(s) : e = s[i]
    BY <1>1 DEF ToSet
  <2>2. i - 1 \in 1..(Len(s) - 1) /\ Tail(s)[i - 1] = s[i]
    BY <1>1, <2>1
  <2> QED
    BY <1>1, <2>1, <2>2 DEF ToSet
<1>5. Head(s) \in ToSet(s)
  BY <1>1 DEF ToSet
<1> QED
  BY <1>1, <1>2, <1>3, <1>4, <1>5

\* The steps that neither put a connection into the tarpit nor take one out.
QuietStep ==
  \/ \E c \in Conns : Accept(c) \/ Decide(c) \/ Stick(c)
  \/ \E c \in Conns, failed \in BOOLEAN : EndHandler(c, failed)
  \/ StopTarpit \/ Shutdown \/ ProbeStep
  \/ StopAccepting \/ Listen \/ FailListen \/ CloseListener \/ Return
  \/ UNCHANGED vars

\* They leave the tarpit as it is; the run loop may exit.
LEMMA QuietFacts ==
  ASSUME TypeOK, QuietStep
  PROVE  /\ jobs' = jobs /\ sem' = sem
         /\ run' = run \/ run' = "exited"
         /\ \A c \in Conns : \A place \in {"queued", "slot", "delay"} :
              at'[c] = place <=> at[c] = place
<1> USE DEF TypeOK, Move, process
<1>1. ASSUME NEW c \in Conns, Accept(c) \/ Decide(c) \/ Stick(c)
      PROVE  /\ jobs' = jobs /\ sem' = sem /\ run' = run
             /\ \A d \in Conns : \A place \in {"queued", "slot", "delay"} :
                  at'[d] = place <=> at[d] = place
  BY <1>1 DEF Accept, Decide, Refuse, Deny, StartHandler, Stick
<1>2. ASSUME NEW c \in Conns, NEW failed \in BOOLEAN, EndHandler(c, failed)
      PROVE  /\ jobs' = jobs /\ sem' = sem /\ run' = run
             /\ \A d \in Conns : \A place \in {"queued", "slot", "delay"} :
                  at'[d] = place <=> at[d] = place
  BY <1>2 DEF EndHandler
<1>3. CASE \/ StopTarpit \/ Shutdown \/ ProbeStep
           \/ StopAccepting \/ Listen \/ FailListen \/ CloseListener \/ Return
  BY <1>3 DEF StopTarpit, Shutdown, ProbeStep, FailProbe, StopProbe, EndProbe, Probe,
              StopAccepting, Listen, FailListen, CloseListener, Return
<1>4. CASE UNCHANGED vars
  BY <1>4 DEF vars
<1> QED
  BY <1>1, <1>2, <1>3, <1>4 DEF QuietStep

\* Types: the semaphore never gives back more than it took, the queue never grows
\* beyond its capacity.
LEMMA TypeStep ==
  ASSUME TypeOK, QueueOK, SemOK, [Next]_vars
  PROVE  TypeOK'
<1> USE AdmissionAssumption DEF TypeOK, Move, Keep, process
<1>1. ASSUME NEW c \in Conns, Accept(c) \/ Decide(c) \/ Stick(c)
      PROVE  TypeOK'
  BY <1>1 DEF Accept, Decide, Refuse, Deny, StartHandler, Stick
<1>2. ASSUME NEW c \in Conns, NEW failed \in BOOLEAN, EndHandler(c, failed)
      PROVE  TypeOK'
  BY <1>2 DEF EndHandler
<1>3. ASSUME NEW c \in Conns, Add(c)
      PROVE  TypeOK'
  <2>1. CASE Len(jobs) < JobsCap
    BY <1>3, <2>1 DEF Add
  <2>2. CASE ~(Len(jobs) < JobsCap)
    BY <1>3, <2>2 DEF Add
  <2> QED
    BY <2>1, <2>2
<1>4. CASE TakeJob
  <2>1. Head(jobs) \in Conns /\ Tail(jobs) \in Seq(Conns) /\ Len(Tail(jobs)) = Len(jobs) - 1
    BY <1>4, TailFacts DEF TakeJob, QueueOK
  <2>2. Len(Tail(jobs)) <= JobsCap
    BY <2>1
  <2> QED
    BY <1>4, <2>1, <2>2 DEF TakeJob
<1>5. ASSUME NEW c \in Conns, StartDelay(c)
      PROVE  TypeOK'
  BY <1>5 DEF StartDelay
<1>6. ASSUME NEW c \in Conns, EndDelay(c)
      PROVE  TypeOK'
  <2>1. c \in Delayed
    BY <1>6 DEF EndDelay, Delayed
  <2>2. sem # 0
    BY <2>1, Finite, FS_EmptySet DEF SemOK
  <2> QED
    BY <1>6, <2>2 DEF EndDelay
<1>7. CASE StopTarpit \/ Shutdown
  BY <1>7 DEF StopTarpit, Shutdown
<1>8. CASE ProbeStep
  BY <1>8 DEF ProbeStep, FailProbe, StopProbe, EndProbe, Probe
<1>9. CASE StopAccepting \/ Listen \/ FailListen \/ CloseListener \/ Return
  BY <1>9 DEF StopAccepting, Listen, FailListen, CloseListener, Return
<1>10. CASE Exit
  BY <1>10 DEF Exit, ExitStatus
<1>11. CASE UNCHANGED vars
  BY <1>11 DEF vars
<1> QED
  BY <1>1, <1>2, <1>3, <1>4, <1>5, <1>6, <1>7, <1>8, <1>9, <1>10, <1>11
     DEF Next, TarpitStep, ServeStep

\* The queue, the semaphore and the run loop's hands follow the connections.
LEMMA TarpitSteps ==
  ASSUME IInv, [Next]_vars
  PROVE  QueueOK' /\ SemOK' /\ HandOK'
<1> USE DEF IInv, TypeOK, Move
<1>1. CASE QuietStep
  <2>1. Queued' = Queued /\ Delayed' = Delayed /\ jobs' = jobs /\ sem' = sem
    BY <1>1, QuietFacts DEF Queued, Delayed
  <2>2. HandOK'
    BY <1>1, QuietFacts DEF HandOK
  <2> QED
    BY <2>1, <2>2 DEF QueueOK, SemOK
<1>2. ASSUME NEW c \in Conns, Add(c)
      PROVE  QueueOK' /\ SemOK' /\ HandOK'
  <2>1. Delayed' = Delayed /\ sem' = sem
    BY <1>2 DEF Add, Delayed
  <2>2. HandOK'
    BY <1>2 DEF Add, HandOK
  <2>3. CASE Len(jobs) < JobsCap
    <3>1. c \notin Queued /\ Queued' = Queued \cup {c} /\ jobs' = Append(jobs, c)
      BY <1>2, <2>3 DEF Add, Queued
    <3>2. Cardinality(Queued') = Cardinality(Queued) + 1
      BY <3>1, Finite, FS_AddElement
    <3>3. /\ Len(jobs') = Len(jobs) + 1 /\ Distinct(jobs')
          /\ ToSet(jobs') = ToSet(jobs) \cup {c}
      BY <3>1, AppendFacts DEF QueueOK
    <3> QED
      BY <2>1, <2>2, <3>1, <3>2, <3>3 DEF QueueOK, SemOK, Distinct
  <2>4. CASE ~(Len(jobs) < JobsCap)
    <3>1. Queued' = Queued /\ jobs' = jobs
      BY <1>2, <2>4 DEF Add, Queued
    <3> QED
      BY <2>1, <2>2, <3>1 DEF QueueOK, SemOK
  <2> QED
    BY <2>3, <2>4
<1>3. CASE TakeJob
  <2> DEFINE h == Head(jobs)
  <2>1. /\ h \in Conns /\ h \in ToSet(jobs)
        /\ Len(Tail(jobs)) = Len(jobs) - 1
        /\ Distinct(Tail(jobs))
        /\ ToSet(Tail(jobs)) = ToSet(jobs) \ {h}
    BY <1>3, TailFacts DEF TakeJob, QueueOK
  <2>2. /\ jobs' = Tail(jobs) /\ run = "select" /\ run' = "sem" /\ sem' = sem
        /\ at' = [at EXCEPT ![h] = "slot"]
    BY <1>3 DEF TakeJob
  <2> HIDE DEF h
  <2>3. h \in Queued
    BY <2>1 DEF QueueOK
  <2>4. Queued' = Queued \ {h} /\ Delayed' = Delayed
    BY <2>1, <2>2, <2>3 DEF Queued, Delayed
  <2>5. Cardinality(Queued') = Cardinality(Queued) - 1
    BY <2>3, <2>4, Finite, FS_RemoveElement
  <2>6. HandOK'
    BY <2>1, <2>2 DEF HandOK
  <2> QED
    BY <2>1, <2>2, <2>4, <2>5, <2>6 DEF QueueOK, SemOK, Distinct
<1>4. ASSUME NEW c \in Conns, StartDelay(c)
      PROVE  QueueOK' /\ SemOK' /\ HandOK'
  <2>1. /\ c \notin Delayed /\ Delayed' = Delayed \cup {c} /\ sem' = sem + 1
        /\ Queued' = Queued /\ jobs' = jobs
    BY <1>4 DEF StartDelay, Delayed, Queued
  <2>2. Cardinality(Delayed') = Cardinality(Delayed) + 1
    BY <2>1, Finite, FS_AddElement
  <2>3. HandOK'
    BY <1>4 DEF StartDelay, HandOK
  <2> QED
    BY <2>1, <2>2, <2>3 DEF QueueOK, SemOK
<1>5. ASSUME NEW c \in Conns, EndDelay(c)
      PROVE  QueueOK' /\ SemOK' /\ HandOK'
  <2>1. /\ c \in Delayed /\ Delayed' = Delayed \ {c} /\ sem' = sem - 1
        /\ Queued' = Queued /\ jobs' = jobs
    BY <1>5 DEF EndDelay, Delayed, Queued
  <2>2. Cardinality(Delayed') = Cardinality(Delayed) - 1
    BY <2>1, Finite, FS_RemoveElement
  <2>3. HandOK'
    BY <1>5 DEF EndDelay, HandOK
  <2> QED
    BY <2>1, <2>2, <2>3 DEF QueueOK, SemOK
<1>6. CASE Exit
  <2>1. Queued' = {} /\ Delayed' = {}
    BY <1>6 DEF Exit, Queued, Delayed
  <2>2. jobs' = <<>> /\ sem' = 0 /\ HandOK'
    BY <1>6 DEF Exit, HandOK
  <2>3. ToSet(<<>>) = {} /\ Distinct(<<>>) /\ Len(<<>>) = 0
    BY DEF ToSet, Distinct
  <2> QED
    BY <2>1, <2>2, <2>3, FS_EmptySet DEF QueueOK, SemOK, Distinct
<1> QED
  BY <1>1, <1>2, <1>3, <1>4, <1>5, <1>6 DEF Next, TarpitStep, ServeStep, QuietStep

\* The acceptor's hands, and the order in which ListenAndServe's goroutines end.
LEMMA ServeSteps ==
  ASSUME IInv, [Next]_vars
  PROVE  AcceptorOK' /\ ServeOK'
<1> USE DEF IInv, TypeOK, AcceptorOK, ServeOK, InHand, Move, Keep, process
<1>1. ASSUME NEW c \in Conns, Accept(c)
      PROVE  AcceptorOK' /\ ServeOK'
  BY <1>1 DEF Accept, ListenerOpen
<1>2. ASSUME NEW c \in Conns, Decide(c) \/ Add(c)
      PROVE  AcceptorOK' /\ ServeOK'
  <2>1. InHand(c) /\ acceptor = "decide" /\ UNCHANGED <<serve, firstErr>>
    BY <1>2 DEF Decide, Refuse, Deny, StartHandler, Add
  <2>2. \A d \in Conns \ {c} : ~InHand(d) /\ at'[d] = at[d]
    BY <1>2, <2>1 DEF Decide, Refuse, Deny, StartHandler, Add
  <2>3. serve \in {"select", "wait"}
    BY <2>1
  <2>4. CASE Deny(c)
    BY <2>1, <2>2, <2>3, <2>4 DEF Deny
  <2>5. CASE Refuse(c) \/ StartHandler(c) \/ Add(c)
    <3>1. acceptor' = "accept" /\ at'[c] \in {"closed", "handler", "queued"}
      BY <2>5 DEF Refuse, StartHandler, Add
    <3>2. \A d \in Conns : at'[d] \notin {"deciding", "denied"}
      BY <2>2, <3>1
    <3>3. AcceptorOK'
      BY <3>1, <3>2
    <3>4. serve' \notin {"bind", "returned"}
      BY <2>1, <2>3
    <3>5. ServeOK'
      BY <3>4
    <3> QED
      BY <3>3, <3>5
  <2> QED
    BY <1>2, <2>4, <2>5 DEF Decide
<1>3. ASSUME NEW c \in Conns,
             Stick(c) \/ \E failed \in BOOLEAN : EndHandler(c, failed)
      PROVE  AcceptorOK' /\ ServeOK'
  BY <1>3 DEF Stick, EndHandler
<1>4. CASE TakeJob
  <2> DEFINE h == Head(jobs)
  <2>1. h \in ToSet(jobs)
    BY <1>4, TailFacts DEF TakeJob, QueueOK
  <2>2. h \in Conns /\ at[h] = "queued"
    BY <2>1 DEF QueueOK, Queued
  <2>3. at' = [at EXCEPT ![h] = "slot"] /\ UNCHANGED <<acceptor, serve, firstErr>>
    BY <1>4 DEF TakeJob
  <2> HIDE DEF h
  <2> QED
    BY <2>2, <2>3
<1>5. ASSUME NEW c \in Conns, StartDelay(c) \/ EndDelay(c)
      PROVE  AcceptorOK' /\ ServeOK'
  BY <1>5 DEF StartDelay, EndDelay
<1>6. CASE StopTarpit \/ Shutdown \/ ProbeStep
  BY <1>6 DEF StopTarpit, Shutdown, ProbeStep, FailProbe, StopProbe, EndProbe, Probe
<1>7. CASE StopAccepting \/ Listen \/ FailListen \/ CloseListener \/ Return
  BY <1>7 DEF StopAccepting, Listen, FailListen, CloseListener, Return
<1>8. CASE Exit
  BY <1>8 DEF Exit
<1>9. CASE UNCHANGED vars
  BY <1>9 DEF vars
<1> QED
  BY <1>1, <1>2, <1>3, <1>4, <1>5, <1>6, <1>7, <1>8, <1>9
     DEF Next, TarpitStep, ServeStep

\* A server that was just started satisfies the inductive invariant.
LEMMA InitIInv == Init => IInv
<1> SUFFICES ASSUME Init PROVE IInv
  OBVIOUS
<1> USE DEF Init, InitTarpit
<1>1. ctxDone \in BOOLEAN
  OBVIOUS
<1>2. TypeOK
  BY <1>1, AdmissionAssumption DEF TypeOK
<1>3. Queued = {} /\ Delayed = {}
  BY DEF Queued, Delayed
<1>4. ToSet(<<>>) = {} /\ Distinct(<<>>) /\ Len(<<>>) = 0
  BY DEF ToSet, Distinct
<1>5. QueueOK /\ SemOK
  BY <1>3, <1>4, FS_EmptySet DEF QueueOK, SemOK
<1>6. HandOK /\ AcceptorOK /\ ServeOK
  BY DEF HandOK, AcceptorOK, ServeOK, InHand
<1> QED
  BY <1>2, <1>5, <1>6 DEF IInv

\* The conjunction is inductive.
LEMMA Inductive == Spec => []IInv
<1>1. IInv /\ [Next]_vars => IInv'
  BY TypeStep, TarpitSteps, ServeSteps DEF IInv
<1> QED
  BY <1>1, InitIInv, PTL DEF Spec

\* The process' state keeps its type: queue and semaphore stay within their capacity.
THEOREM TypeCorrect == Spec => []TypeOK
BY Inductive, PTL DEF IInv

\* The tarpit loses no connection and no slot, for every capacity of its queue and
\* its semaphore, until the process exits.
THEOREM TarpitCorrect == Spec => []TarpitExact
<1>1. IInv => TarpitExact
  BY DEF IInv, QueueOK, SemOK, HandOK, Queued, Delayed, TarpitExact
<1> QED
  BY <1>1, Inductive, PTL

\* ListenAndServe ends with an error on every path, so Start never waits for the probe
\* server.
THEOREM ErrorReported == Spec => []NeverReturnsNil
<1>1. IInv => NeverReturnsNil
  BY DEF IInv, AcceptorOK, ServeOK, NeverReturnsNil
<1> QED
  BY <1>1, Inductive, PTL
------------------------------------------------------------------------------
(* The server implements TaskGroup. *)

\* What becomes of the connections' handlers as tasks, all of them together.
HandlerTasks == [c \in Conns |-> HandlerTask(c)]

\* A connection that changes hands is the only task that may change.
LEMMA MoveTask ==
  ASSUME TypeOK, NEW c \in Conns, NEW place, Move(c, place)
  PROVE  /\ place = "deciding" /\ at[c] = "client" => HandlerTasks' = HandlerTasks
         /\ place = "stuck" /\ at[c] = "handler" => HandlerTasks' = HandlerTasks
         /\ place = "handler" => HandlerTasks' = [HandlerTasks EXCEPT ![c] = "running"]
         /\ place \in {"denied", "closed"} =>
              HandlerTasks' = [HandlerTasks EXCEPT ![c] = "over"]
         /\ ( /\ place \in {"queued", "slot", "delay", "closed"}
              /\ at[c] \in {"denied", "queued", "slot", "delay"} )
            => HandlerTasks' = HandlerTasks
<1>1. \A d \in Conns : HandlerTask(d)' = IF d = c THEN HandlerTask(c)' ELSE HandlerTask(d)
  BY DEF TypeOK, Move, HandlerTask
<1>2. at'[c] = place
  BY DEF TypeOK, Move
<1>3. /\ place = "deciding" /\ at[c] = "client" => HandlerTask(c)' = HandlerTask(c)
      /\ place = "stuck" /\ at[c] = "handler" => HandlerTask(c)' = HandlerTask(c)
      /\ place = "handler" => HandlerTask(c)' = "running"
      /\ place \in {"denied", "closed"} => HandlerTask(c)' = "over"
      /\ ( /\ place \in {"queued", "slot", "delay", "closed"}
           /\ at[c] \in {"denied", "queued", "slot", "delay"} )
         => HandlerTask(c)' = HandlerTask(c)
  BY <1>2 DEF HandlerTask
<1> QED
  BY <1>1, <1>3 DEF HandlerTasks

\* The tasks that run are the handlers that run, and there is room for one more.
LEMMA BusyFacts ==
  ASSUME TypeOK
  PROVE  /\ Group!Busy = {c \in Conns : at[c] \in {"handler", "stuck"}}
         /\ \A c \in Conns : at[c] \notin {"handler", "stuck"} =>
              Group!Cardinality(Group!Busy) < Cardinality(Conns)
<1> DEFINE H == {c \in Conns : at[c] \in {"handler", "stuck"}}
<1>1. \A c \in Conns : HandlerTask(c) = "running" <=> at[c] \in {"handler", "stuck"}
  BY DEF HandlerTask
<1>2. Group!Busy = H
  BY <1>1 DEF Group!Busy
<1>3. Group!Cardinality(H) = Cardinality(H)
  BY DEF Group!Cardinality, Cardinality
<1>4. ASSUME NEW c \in Conns, at[c] \notin {"handler", "stuck"}
      PROVE  Cardinality(H) < Cardinality(Conns)
  <2>1. H \in SUBSET Conns /\ H # Conns
    BY <1>4
  <2>2. /\ Cardinality(H) <= Cardinality(Conns) /\ Cardinality(H) # Cardinality(Conns)
        /\ Cardinality(H) \in Nat /\ Cardinality(Conns) \in Nat
    BY <2>1, AdmissionAssumption, FS_Subset, FS_CardinalityType
  <2> QED
    BY <2>2
<1> QED
  BY <1>2, <1>3, <1>4

\* A server that was just started is a group that is not open yet.
LEMMA InitGroup == Init => Group!Init
BY DEF Init, Group!Init, GroupStage, HandlerTask

\* Every step of the server is a step of the group or leaves it alone.
LEMMA StepGroup ==
  ASSUME IInv, [Next]_vars
  PROVE  [Group!Next]_(Group!vars)
<1> DEFINE Step == [Group!Next]_(Group!vars)
<1> USE DEF IInv, TypeOK, process
<1>1. ASSUME NEW c \in Conns, InHand(c)
      PROVE  GroupStage = "open"
  BY <1>1 DEF AcceptorOK, ServeOK, InHand, GroupStage
<1>2. ASSUME NEW c \in Conns, Accept(c)
      PROVE  Step
  <2>1. GroupStage' = GroupStage
    BY <1>2 DEF Accept, ListenerOpen, GroupStage
  <2>2. HandlerTasks' = HandlerTasks
    BY <1>2, MoveTask DEF Accept
  <2> QED
    BY <2>1, <2>2 DEF Group!vars, HandlerTasks
<1>3. ASSUME NEW c \in Conns, Decide(c)
      PROVE  Step
  <2>1. /\ at[c] = "deciding" /\ UNCHANGED serve
        /\ acceptor' \in {"accept", "decide"}
    BY <1>3 DEF Decide, Refuse, Deny, StartHandler, AcceptorOK, InHand
  <2>2. GroupStage = "open" /\ GroupStage' = "open"
    BY <1>1, <2>1 DEF InHand, GroupStage
  <2>3. HandlerTasks[c] = "fresh"
    BY <2>1 DEF HandlerTasks, HandlerTask
  <2>4. CASE Refuse(c) \/ Deny(c)
    <3>1. HandlerTasks' = [HandlerTasks EXCEPT ![c] = "over"]
      BY <2>4, MoveTask DEF Refuse, Deny
    <3> QED
      BY <2>2, <2>3, <3>1 DEF Group!TurnAway, Group!Next, HandlerTasks
  <2>5. CASE StartHandler(c)
    <3>1. HandlerTasks' = [HandlerTasks EXCEPT ![c] = "running"]
      BY <2>5, MoveTask DEF StartHandler
    <3>2. Group!Cardinality(Group!Busy) < Cardinality(Conns)
      BY <2>1, BusyFacts
    <3> QED
      BY <2>2, <2>3, <3>1, <3>2 DEF Group!Start, Group!Next, HandlerTasks
  <2> QED
    BY <1>3, <2>4, <2>5 DEF Decide
<1>4. ASSUME NEW c \in Conns, Add(c)
      PROVE  Step
  <2>1. GroupStage = "open" /\ GroupStage' = "open"
    BY <1>1, <1>4 DEF Add, InHand, GroupStage
  <2>2. HandlerTasks' = HandlerTasks
    BY <1>4, MoveTask DEF Add
  <2> QED
    BY <2>1, <2>2 DEF Group!vars, HandlerTasks
<1>5. ASSUME NEW c \in Conns, NEW failed \in BOOLEAN, EndHandler(c, failed)
      PROVE  Step
  <2>1. GroupStage' = GroupStage /\ HandlerTasks[c] = "running"
    BY <1>5 DEF EndHandler, GroupStage, HandlerTasks, HandlerTask
  <2>2. HandlerTasks' = [HandlerTasks EXCEPT ![c] = "over"]
    BY <1>5, MoveTask DEF EndHandler
  <2> QED
    BY <2>1, <2>2 DEF Group!Finish, Group!Next, HandlerTasks
<1>6. CASE TakeJob
  <2>1. Head(jobs) \in Conns /\ Head(jobs) \in ToSet(jobs)
    BY <1>6, TailFacts DEF TakeJob, QueueOK
  <2>2. at[Head(jobs)] = "queued"
    BY <2>1 DEF QueueOK, Queued
  <2>3. GroupStage' = GroupStage
    BY <1>6 DEF TakeJob, GroupStage
  <2>4. HandlerTasks' = HandlerTasks
    BY <1>6, <2>1, <2>2, MoveTask DEF TakeJob
  <2> QED
    BY <2>3, <2>4 DEF Group!vars, HandlerTasks
<1>7. ASSUME NEW c \in Conns, StartDelay(c) \/ EndDelay(c)
      PROVE  Step
  <2>1. GroupStage' = GroupStage
    BY <1>7 DEF StartDelay, EndDelay, GroupStage
  <2>2. HandlerTasks' = HandlerTasks
    BY <1>7, MoveTask DEF StartDelay, EndDelay
  <2> QED
    BY <2>1, <2>2 DEF Group!vars, HandlerTasks
<1>8. CASE StopAccepting
  <2>1. GroupStage = "open" /\ GroupStage' = "draining" /\ HandlerTasks' = HandlerTasks
    BY <1>8 DEF StopAccepting, ServeOK, GroupStage, HandlerTasks, HandlerTask
  <2> QED
    BY <2>1 DEF Group!Drain, Group!Next, HandlerTasks
<1>9. CASE Listen
  <2>1. GroupStage = "idle" /\ GroupStage' = "open" /\ HandlerTasks' = HandlerTasks
    BY <1>9 DEF Listen, ServeOK, GroupStage, HandlerTasks, HandlerTask
  <2> QED
    BY <2>1 DEF Group!Open, Group!Next, HandlerTasks
<1>10. CASE FailListen \/ Return
  <2>1. /\ GroupStage \in {"idle", "draining"} /\ GroupStage' = "closed"
        /\ HandlerTasks' = HandlerTasks
    BY <1>10 DEF FailListen, Return, GroupStage, HandlerTasks, HandlerTask
  <2>2. Group!Busy = {}
    BY <1>10, BusyFacts DEF FailListen, Return, ServeOK
  <2> QED
    BY <2>1, <2>2 DEF Group!Close, Group!Next, HandlerTasks
<1>11. CASE Exit
  <2>1. GroupStage' = GroupStage
    BY <1>11 DEF Exit, GroupStage
  <2>2. \A c \in Conns : at[c] \notin {"deciding", "handler", "stuck"}
    BY <1>11 DEF Exit, AcceptorOK, ServeOK, InHand
  <2>3. HandlerTasks' = HandlerTasks
    BY <1>11, <2>2 DEF Exit, HandlerTasks, HandlerTask
  <2> QED
    BY <2>1, <2>3 DEF Group!vars, HandlerTasks
<1>12. ASSUME NEW c \in Conns, Stick(c)
       PROVE  Step
  <2>1. GroupStage' = GroupStage
    BY <1>12 DEF Stick, GroupStage
  <2>2. HandlerTasks' = HandlerTasks
    BY <1>12, MoveTask DEF Stick
  <2> QED
    BY <2>1, <2>2 DEF Group!vars, HandlerTasks
<1>13. CASE StopTarpit \/ CloseListener \/ Shutdown \/ ProbeStep \/ UNCHANGED vars
  <2>1. GroupStage' = GroupStage /\ HandlerTasks' = HandlerTasks
    BY <1>13 DEF StopTarpit, CloseListener, Shutdown, ProbeStep, FailProbe, StopProbe,
                 EndProbe, Probe, vars, GroupStage, HandlerTasks, HandlerTask
  <2> QED
    BY <2>1 DEF Group!vars, HandlerTasks
<1> QED
  BY <1>2, <1>3, <1>4, <1>5, <1>6, <1>7, <1>8, <1>9, <1>10, <1>11, <1>12,
     <1>13
     DEF Next, TarpitStep, ServeStep

\* ListenAndServe keeps the promise of a task group, for any connections and any
\* capacity of the tarpit: a connection gets at most one handler, none before it listens
\* or once the acceptor is over, and ListenAndServe returns over no running one.
THEOREM ImplementsGroup == Spec => Implements
<1>1. IInv /\ [Next]_vars => [Group!Next]_(Group!vars)
  BY StepGroup
<1> QED
  BY <1>1, InitGroup, Inductive, PTL DEF Spec, Implements, Group!Spec
------------------------------------------------------------------------------
(***************************************************************************)
(* The limiter that the acceptor asks: whatever implements LeakyBucket, as *)
(* RedisLimiter and MonoLimiter do, bounds the connections of one key that *)
(* pass to Handle.                                                         *)
(***************************************************************************)
CONSTANTS Cost, Capacity
VARIABLES clock, level, since, granted

Bucket == INSTANCE LeakyBucket

\* What the specification promises bounds the rate: a limiter that implements it
\* grants at most the burst and one connection per interval.
THEOREM BucketBoundsRate ==
  ASSUME Cost \in Nat, Capacity \in Nat
  PROVE  Bucket!Spec => []Bucket!RateBound
<1> DEFINE Charge == granted * Cost
<1>1. Bucket!Init => Bucket!TypeOK /\ Bucket!Accounted
  BY DEF Bucket!Init, Bucket!TypeOK, Bucket!Accounted
<1>2. Bucket!TypeOK /\ [Bucket!Next]_(Bucket!vars) => Bucket!TypeOK'
  BY DEF Bucket!TypeOK, Bucket!Next, Bucket!vars, Bucket!Admit, Bucket!Leak, Bucket!Observe
<1>3. Bucket!TypeOK /\ Bucket!TypeOK' /\ Bucket!Accounted /\ [Bucket!Next]_(Bucket!vars)
        => Bucket!Accounted'
  <2> SUFFICES ASSUME Bucket!TypeOK, Bucket!TypeOK', Bucket!Accounted,
                      [Bucket!Next]_(Bucket!vars)
               PROVE  Bucket!Accounted'
    OBVIOUS
  <2>1. Charge \in Nat /\ Charge <= (clock - since) + level
    BY DEF Bucket!TypeOK, Bucket!Accounted
  <2>2. SUFFICES Charge' <= (clock' - since') + level'
    BY DEF Bucket!Accounted
  <2> HIDE DEF Charge
  <2>3. CASE Bucket!Admit
    <3>1. Charge' = Charge + Cost
      BY <2>3 DEF Charge, Bucket!Admit, Bucket!TypeOK
    <3>2. level' >= level + Cost /\ clock' = clock /\ since' = since
      BY <2>3 DEF Bucket!Admit, Bucket!TypeOK
    <3>3. level \in Int /\ level' \in Int /\ clock - since \in Int
      BY DEF Bucket!TypeOK
    <3> QED
      BY <2>1, <3>1, <3>2, <3>3
  <2>4. CASE Bucket!Leak
    <3>1. Charge' = Charge
      BY <2>4 DEF Charge, Bucket!Leak
    <3> QED
      BY <2>1, <2>4, <3>1 DEF Bucket!Leak, Bucket!TypeOK
  <2>5. CASE Bucket!Observe
    <3>1. Charge' = 0
      BY <2>5 DEF Charge, Bucket!Observe
    <3> QED
      BY <2>5, <3>1 DEF Bucket!Observe, Bucket!TypeOK
  <2>6. CASE UNCHANGED Bucket!vars
    BY <2>1, <2>6 DEF Bucket!vars, Charge
  <2> QED
    BY <2>3, <2>4, <2>5, <2>6 DEF Bucket!Next
<1>4. Bucket!TypeOK /\ Bucket!Accounted => Bucket!RateBound
  <2> SUFFICES ASSUME Bucket!TypeOK, Bucket!Accounted PROVE Bucket!RateBound
    OBVIOUS
  <2>1. Charge \in Nat /\ Charge <= (clock - since) + level
    BY DEF Bucket!TypeOK, Bucket!Accounted
  <2>2. SUFFICES Charge <= (clock - since) + Capacity
    BY DEF Bucket!RateBound
  <2> QED
    BY <2>1 DEF Bucket!TypeOK
<1> QED
  BY <1>1, <1>2, <1>3, <1>4, PTL DEF Bucket!Spec
==============================================================================
