--------------------------- MODULE TaskLifecycle ---------------------------
(***************************************************************************)
(* What the scheduler of src/src/execution.rs promises about tasks, with   *)
(* no queue, channel, clock or report: a task is admitted after its        *)
(* dependencies, runs only when they all succeeded and a slot is free, is  *)
(* retried a bounded number of times, and reaches one final state.         *)
(***************************************************************************)
EXTENDS Naturals, FiniteSets

CONSTANTS
  Task,
  Deps,        \* [Task -> SUBSET Task]
  MaxAttempts, \* [Task -> Nat]
  Slots        \* tasks that may run at the same time

VARIABLES
  state,   \* [Task -> a TaskState, or Absent]
  attempt  \* [Task -> Nat], executions started so far

lifecycle == <<state, attempt>>

Final == {"Succeeded", "Failed", "Cancelled", "TimedOut", "Skipped"}

Init ==
  /\ state = [t \in Task |-> "Absent"]
  /\ attempt = [t \in Task |-> 0]

Move(t, from, to) ==
  /\ state[t] \in from
  /\ state' = [state EXCEPT ![t] = to]

Admit(t) ==
  /\ Move(t, {"Absent"}, "Pending")
  /\ \A d \in Deps[t] : state[d] # "Absent"
  /\ UNCHANGED attempt

MakeReady(t) ==
  /\ Move(t, {"Pending"}, "Ready")
  /\ \A d \in Deps[t] : state[d] = "Succeeded"
  /\ UNCHANGED attempt

Execute(t) ==
  /\ Move(t, {"Ready"}, "Running")
  /\ \A d \in Deps[t] : state[d] = "Succeeded"
  /\ Cardinality({u \in Task : state[u] = "Running"}) < Slots
  /\ attempt' = [attempt EXCEPT ![t] = @ + 1]

Retry(t) ==
  /\ Move(t, {"Running"}, "Pending")
  /\ attempt[t] < MaxAttempts[t]
  /\ UNCHANGED attempt

Finish(t, outcome) == Move(t, {"Running"}, outcome) /\ UNCHANGED attempt

Skip(t) == Move(t, {"Pending", "Ready"}, "Skipped") /\ UNCHANGED attempt

\* Several tasks at once run out of time, or are cancelled.
Abandon(S, from, to) ==
  /\ \A t \in S : state[t] \in from
  /\ state' = [t \in Task |-> IF t \in S THEN to ELSE state[t]]
  /\ UNCHANGED attempt

Next ==
  \/ \E t \in Task : Admit(t) \/ MakeReady(t) \/ Execute(t) \/ Retry(t) \/ Skip(t)
  \/ \E t \in Task, o \in {"Succeeded", "Failed", "Cancelled"} : Finish(t, o)
  \/ \E S \in SUBSET Task : \/ Abandon(S, {"Running"}, "TimedOut")
                            \/ Abandon(S, {"Running"}, "Cancelled")
                            \/ Abandon(S, {"Pending", "Ready"}, "Cancelled")

Spec == Init /\ [][Next]_lifecycle
=============================================================================
