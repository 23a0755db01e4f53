------------------------------ MODULE TaskGroup ------------------------------
(***************************************************************************)
(* What the errgroups of the server are there for: an owner opens a group, *)
(* tasks are started in it up to a limit, and the owner returns when none  *)
(* is left.  Connector implements it with a connection's channels,         *)
(* Admission with the server's connections.                                *)
(***************************************************************************)
EXTENDS Naturals, FiniteSets

CONSTANTS
  Tasks,
  Limit  \* how many tasks may run at a time

VARIABLES
  stage,  \* "idle", "open", "draining" or "closed"
  task    \* task[t]: "fresh", "running" or "over"

vars == <<stage, task>>

Init ==
  /\ stage = "idle"
  /\ task = [t \in Tasks |-> "fresh"]

Busy == {t \in Tasks : task[t] = "running"}

Open ==
  /\ stage = "idle"
  /\ stage' = "open"
  /\ UNCHANGED task

\* A task starts once, while the group is open and has room for it.
Start(t) ==
  /\ stage = "open"
  /\ task[t] = "fresh"
  /\ Cardinality(Busy) < Limit
  /\ task' = [task EXCEPT ![t] = "running"]
  /\ UNCHANGED stage

\* A task that is turned away never starts.
TurnAway(t) ==
  /\ stage = "open"
  /\ task[t] = "fresh"
  /\ task' = [task EXCEPT ![t] = "over"]
  /\ UNCHANGED stage

Finish(t) ==
  /\ task[t] = "running"
  /\ task' = [task EXCEPT ![t] = "over"]
  /\ UNCHANGED stage

Drain ==
  /\ stage = "open"
  /\ stage' = "draining"
  /\ UNCHANGED task

\* The owner returns: it never opened the group, or nothing is left in it.
Close ==
  /\ stage \in {"idle", "draining"}
  /\ Busy = {}
  /\ stage' = "closed"
  /\ UNCHANGED task

Next ==
  \/ Open
  \/ \E t \in Tasks : Start(t) \/ TurnAway(t) \/ Finish(t)
  \/ Drain
  \/ Close

Spec == Init /\ [][Next]_vars
==============================================================================
