----------------------------- MODULE Scheduler -----------------------------
(***************************************************************************)
(* The bounded task scheduler of src/src/execution.rs: admission, the      *)
(* priority queue, the dispatch window with its per-kind caps, worker      *)
(* threads reporting over a channel, retries, task timeouts, and the       *)
(* shutdown that the global deadline or a cancellation triggers.           *)
(*                                                                         *)
(* Scheduler::run() is one thread; `pc` names the point of its loop.  Each *)
(* point at which the code reads the clock or the external cancellation    *)
(* flag (is_global_expired) is a step of its own, so that both can change  *)
(* between any two reads.  Time is abstract: `clock` is the state of the   *)
(* global window, `overdue` the running tasks past their own timeout,      *)
(* `delayed` the tasks whose retry delay has not elapsed.  Workers, the    *)
(* clock, the external flag and the scope guard are the environment.       *)
(***************************************************************************)
EXTENDS Integers, Sequences, FiniteSets, SequencesExt

CONSTANTS
  Task,          \* task ids; their order as numbers is the BTreeMap key order
  TaskKind,      \* TaskKind values
  Registered,    \* the kinds a module is registered for
  ModuleName,    \* module names, the keys of the per-module budgets
  Kind,          \* [Task -> TaskKind]
  Module,        \* [Task -> ModuleName]
  Priority,      \* [Task -> Nat]
  Deps,          \* [Task -> SUBSET Task]
  MaxAttempts,   \* [Task -> Nat], retry_policy.max_attempts
  Plan,          \* the lowered plan: the initial tasks in admission order
  FollowUps,     \* [Task -> Seq(Task)], the decision engine's proposals
  Slots,         \* effective_concurrency
  KindLimit,     \* [TaskKind -> Nat], the constants of kind_concurrency_cap
  Capacity,      \* TaskQueue capacity
  MaxTasks, MaxRetries, MaxEvidence,        \* BudgetLimits
  ModuleMaxTasks, ModuleMaxRetries,         \* BudgetLimits.per_module
  EvidenceSizes, \* the evidence volumes an output can have
  Outcome,       \* the answers the modules may give
  Flippable,     \* tasks whose scope answer may change to "no"
  CallerCancels, \* tasks the embedding caller may cancel before run()
  CallerStops    \* may the caller use request_shutdown/cancel_all/drain_pending

ASSUME SchedulerAssumption ==
  /\ Task \subseteq Nat /\ IsFiniteSet(Task)
  /\ Registered \subseteq TaskKind
  /\ Kind \in [Task -> TaskKind]
  /\ Module \in [Task -> ModuleName]
  /\ Priority \in [Task -> Nat]
  /\ Deps \in [Task -> SUBSET Task]
  /\ MaxAttempts \in [Task -> Nat]
  /\ Plan \in Seq(Task)
  /\ FollowUps \in [Task -> Seq(Task)]
  /\ Slots \in Nat \ {0}
  /\ KindLimit \in [TaskKind -> Nat \ {0}]
  /\ Capacity \in Nat \ {0}
  /\ MaxTasks \in Nat /\ MaxRetries \in Nat /\ MaxEvidence \in Nat
  /\ ModuleMaxTasks \in [ModuleName -> Nat]
  /\ ModuleMaxRetries \in [ModuleName -> Nat]
  /\ EvidenceSizes \subseteq Nat
  /\ Outcome \subseteq {"ok", "cancelled", "retryable", "fatal"}
  /\ Flippable \subseteq Task
  /\ CallerCancels \subseteq Task
  /\ CallerStops \in BOOLEAN

Terminal == {"Succeeded", "Failed", "Cancelled", "TimedOut", "Skipped"}
TaskState == {"Pending", "Ready", "Running"} \cup Terminal
\* "Absent" stands for a task id that is not a key of Scheduler::tasks.
RecordState == TaskState \cup {"Absent"}

Reason == {"Completed", "UserCancelled", "GlobalDeadline", "TaskBudget",
           "RetryBudget", "EvidenceBudget"}

Worker == [task : Task, attempt : Nat]
Message == [task : Task, attempt : Nat, outcome : Outcome]

VARIABLES
  pc,          \* where Scheduler::run (or the admission before it) stands
  state,       \* [Task -> RecordState], the task records
  attempt,     \* task.attempt
  retryCount,  \* task.retry_count
  queue,       \* TaskQueue, in pop order
  queued,      \* the tasks whose record has queued = true
  deferred,    \* the tasks stashed by the current dispatch window
  window,      \* window_dispatched: dispatches of this window by kind
  candidates,  \* promote_ready_tasks: candidates still to be looked at
  proposals,   \* tasks still to be admitted (plan, or follow-ups)
  draining,    \* the deadline path of run() has been entered
  active,      \* worker slots in use
  workers,     \* worker threads that have not sent their result
  inbox,       \* results in the channel
  listed,      \* the report lists each task was pushed to, in order
  termination, \* TerminationReason
  notAdmitted, \* tasks_not_admitted
  acceptedTasks, retries, evidenceBytes, moduleTasks, moduleRetries, \* BudgetLedger
  clock,       \* global window: open, closing (a retry may no longer fit), passed
  external,    \* the externally owned cancellation flag
  gcancel,     \* global_cancel
  delayed,     \* tasks with ready_at in the future
  overdue,     \* running tasks past their timeout
  permitted    \* the tasks the scope guard permits

control == <<pc, draining>>
records == <<state, attempt, retryCount>>
queueVars == <<queue, queued, deferred, window, candidates>>
report == <<listed, termination, notAdmitted>>
threads == <<workers, inbox>>
ledger == <<acceptedTasks, retries, evidenceBytes, moduleTasks, moduleRetries>>
environment == <<clock, external, permitted>>
vars == <<pc, state, attempt, retryCount, queue, queued, deferred, window,
          candidates, proposals, draining, active, workers, inbox, listed,
          termination, notAdmitted, acceptedTasks, retries, evidenceBytes, moduleTasks,
          moduleRetries, clock, external, gcancel, delayed, overdue, permitted>>

Admitted == {t \in Task : state[t] # "Absent"}
Running == {t \in Task : state[t] = "Running"}
RunningOf(k) == {t \in Running : Kind[t] = k}

NoWindow == [k \in TaskKind |-> 0]

Init ==
  /\ pc = "admit"
  /\ state = [t \in Task |-> "Absent"]
  /\ attempt = [t \in Task |-> 0]
  /\ retryCount = [t \in Task |-> 0]
  /\ queue = <<>> /\ queued = {} /\ deferred = <<>>
  /\ window = NoWindow /\ candidates = {}
  /\ proposals = Plan
  /\ draining = FALSE /\ active = 0
  /\ workers = {} /\ inbox = {}
  /\ listed = [t \in Task |-> <<>>]
  /\ termination = "Completed" /\ notAdmitted = 0
  /\ acceptedTasks = 0 /\ retries = 0 /\ evidenceBytes = 0
  /\ moduleTasks = [m \in ModuleName |-> 0]
  /\ moduleRetries = [m \in ModuleName |-> 0]
  /\ clock = "open" /\ external = FALSE /\ gcancel = FALSE
  /\ delayed = {} /\ overdue = {} /\ permitted = Task

-----------------------------------------------------------------------------
(* is_global_expired: its answer, and the broadcast it makes on the way.   *)

Expired == external \/ clock = "passed" \/ gcancel
Poll == gcancel' = IF external THEN TRUE ELSE gcancel

\* Mutant: the guard on the first reason is inverted.
TruncateInverted(reason) ==
  termination' = IF termination # "Completed" THEN reason ELSE termination

\* The first truncation reason wins.
Truncate(reason) ==
  termination' = IF termination = "Completed" THEN reason ELSE termination

-----------------------------------------------------------------------------
(* BudgetLedger::admit and Scheduler::add_task.                            *)

LedgerAdmitsTask(t) ==
  acceptedTasks < MaxTasks /\ moduleTasks[Module[t]] < ModuleMaxTasks[Module[t]]

LedgerAdmitsRetry(t) ==
  retries < MaxRetries /\ moduleRetries[Module[t]] < ModuleMaxRetries[Module[t]]

ChargeTask(t) ==
  /\ acceptedTasks' = acceptedTasks + 1
  /\ moduleTasks' = [moduleTasks EXCEPT ![Module[t]] = @ + 1]
  /\ UNCHANGED <<retries, evidenceBytes, moduleRetries>>

ChargeRetry(t) ==
  /\ retries' = retries + 1
  /\ moduleRetries' = [moduleRetries EXCEPT ![Module[t]] = @ + 1]
  /\ UNCHANGED <<acceptedTasks, evidenceBytes, moduleTasks>>

\* Mutant: a task id that is already a key is admitted again.
AddVerdictReadmits(t) ==
  IF t \notin permitted THEN "out_of_scope"
  ELSE IF \E d \in Deps[t] : state[d] = "Absent" THEN "unknown_dependency"
  ELSE IF Expired THEN "expired"
  ELSE IF ~LedgerAdmitsTask(t) THEN "task_budget"
  ELSE "admitted"

AddVerdict(t) ==
  IF t \notin permitted THEN "out_of_scope"
  ELSE IF state[t] # "Absent" THEN "duplicate"
  ELSE IF \E d \in Deps[t] : state[d] = "Absent" THEN "unknown_dependency"
  ELSE IF Expired THEN "expired"
  ELSE IF ~LedgerAdmitsTask(t) THEN "task_budget"
  ELSE "admitted"

AddTask(t) ==
  /\ \/ /\ AddVerdict(t) \in {"out_of_scope", "duplicate", "unknown_dependency"}
        /\ UNCHANGED <<state, ledger, notAdmitted, termination, gcancel>>
     \/ /\ AddVerdict(t) = "expired"
        /\ Poll
        /\ notAdmitted' = notAdmitted + 1
        /\ Truncate(IF gcancel \/ external THEN "UserCancelled" ELSE "GlobalDeadline")
        /\ UNCHANGED <<state, ledger>>
     \/ /\ AddVerdict(t) = "task_budget"
        /\ notAdmitted' = notAdmitted + 1
        /\ Truncate("TaskBudget")
        /\ UNCHANGED <<state, ledger, gcancel>>
     \/ /\ AddVerdict(t) = "admitted"
        /\ state' = [state EXCEPT ![t] = "Pending"]
        /\ ChargeTask(t)
        /\ UNCHANGED <<notAdmitted, termination, gcancel>>
  /\ UNCHANGED <<attempt, retryCount, delayed, overdue, listed, active, threads,
                 queueVars, environment>>

-----------------------------------------------------------------------------
(* Before run(): the plan is admitted task by task (run.rs).  A budget or  *)
(* deadline refusal keeps the admitted prefix, any other refusal fails     *)
(* the scan.  The caller, who still owns the scheduler, may cancel.        *)

AdmitInitial ==
  /\ pc = "admit" /\ proposals # <<>>
  /\ AddTask(Head(proposals))
  /\ proposals' = Tail(proposals)
  /\ pc' = IF AddVerdict(Head(proposals)) \in {"admitted", "expired", "task_budget"}
           THEN "admit" ELSE "aborted"
  /\ UNCHANGED draining

\* run() opens a fresh wall-clock window and keeps an earlier shutdown.
StartRun ==
  /\ pc = "admit" /\ proposals = <<>>
  /\ pc' = "top" /\ clock' = "open"
  /\ IF gcancel THEN Truncate("UserCancelled") ELSE UNCHANGED termination
  /\ UNCHANGED <<draining, records, queueVars, proposals, active, threads, listed,
                 notAdmitted, ledger, external, permitted, gcancel, delayed, overdue>>

CancelPending(S) ==
  state' = [t \in Task |-> IF t \in S /\ state[t] \in {"Pending", "Ready"}
                           THEN "Cancelled" ELSE state[t]]

CancelTask(t) ==
  /\ pc = "admit" /\ t \in CallerCancels \cap Admitted
  /\ CancelPending({t})
  /\ UNCHANGED <<control, attempt, retryCount, queueVars, proposals, active, threads,
                 report, ledger, environment, gcancel, delayed, overdue>>

DrainPending ==
  /\ pc = "admit" /\ CallerStops
  /\ CancelPending(Task)
  /\ UNCHANGED <<control, attempt, retryCount, queueVars, proposals, active, threads,
                 report, ledger, environment, gcancel, delayed, overdue>>

CancelAll ==
  /\ pc = "admit" /\ CallerStops
  /\ CancelPending(Task)
  /\ IF \E t \in Admitted : state[t] \notin Terminal
     THEN Truncate("UserCancelled") ELSE UNCHANGED termination
  /\ gcancel' = TRUE
  /\ UNCHANGED <<control, attempt, retryCount, queueVars, proposals, active, threads,
                 listed, notAdmitted, ledger, environment, delayed, overdue>>

RequestShutdown ==
  /\ pc = "admit" /\ CallerStops
  /\ gcancel' = TRUE
  /\ Truncate("UserCancelled")
  /\ UNCHANGED <<control, records, queueVars, proposals, active, threads, listed,
                 notAdmitted, ledger, environment, delayed, overdue>>

-----------------------------------------------------------------------------
(* The top of the loop: the deadline gate and shutdown_for_deadline.       *)

Top ==
  /\ pc = "top"
  /\ Poll
  /\ pc' = IF Expired THEN "shutdown" ELSE "promote"
  /\ UNCHANGED <<draining, records, queueVars, proposals, active, threads, report,
                 ledger, environment, delayed, overdue>>

Unstarted == {t \in Task : state[t] \in {"Pending", "Ready"}}

Shutdown ==
  /\ pc = "shutdown"
  /\ Truncate(IF gcancel /\ clock # "passed" THEN "UserCancelled" ELSE "GlobalDeadline")
  /\ gcancel' = TRUE
  /\ state' = [t \in Task |-> IF t \in Unstarted THEN "Cancelled" ELSE state[t]]
  /\ listed' = [t \in Task |-> IF t \in Unstarted /\ "Cancelled" \notin ToSet(listed[t])
                               THEN Append(listed[t], "Cancelled") ELSE listed[t]]
  /\ queue' = <<>>
  /\ pc' = "drain" /\ draining' = TRUE
  /\ UNCHANGED <<attempt, retryCount, queued, deferred, window, candidates, proposals,
                 active, threads, notAdmitted, ledger, environment, delayed, overdue>>

\* The counter is freed by saturating subtraction.
Freed(n) == IF n <= active THEN active - n ELSE 0

\* Every worker has been reaped, or the cleanup allowance is used up.
ForceStragglers ==
  /\ pc = "drain"
  /\ state' = [t \in Task |-> IF t \in Running THEN "Cancelled" ELSE state[t]]
  /\ listed' = [t \in Task |-> IF t \in Running /\ "Cancelled" \notin ToSet(listed[t])
                               THEN Append(listed[t], "Cancelled") ELSE listed[t]]
  /\ active' = Freed(Cardinality(Running))
  /\ overdue' = {}
  /\ pc' = "sweep"
  /\ UNCHANGED <<draining, attempt, retryCount, queueVars, proposals, threads,
                 termination, notAdmitted, ledger, environment, gcancel, delayed>>

\* Mutant: the sweep lists every terminal task, listed before or not.
SweepEverything ==
  /\ pc = "sweep"
  /\ listed' = [t \in Task |-> IF state[t] \in Terminal THEN Append(listed[t], state[t])
                               ELSE listed[t]]
  /\ pc' = "done"
  /\ UNCHANGED <<draining, records, queueVars, proposals, active, threads, termination,
                 notAdmitted, ledger, environment, gcancel, delayed, overdue>>

\* The final sweep lists the terminal tasks no earlier step has listed.
Sweep ==
  /\ pc = "sweep"
  /\ listed' = [t \in Task |->
                  IF state[t] \in Terminal /\ state[t] \notin ToSet(listed[t])
                  THEN Append(listed[t], state[t]) ELSE listed[t]]
  /\ pc' = "done"
  /\ UNCHANGED <<draining, records, queueVars, proposals, active, threads, termination,
                 notAdmitted, ledger, environment, gcancel, delayed, overdue>>

-----------------------------------------------------------------------------
(* TaskQueue: a bounded heap, highest priority first and FIFO among equal  *)
(* priorities, kept here in pop order.                                     *)

\* Mutant: one entry too many.
QueueFullLate == Len(queue) > Capacity

QueueFull == Len(queue) >= Capacity

\* Mutant: FIFO, whatever the priorities.
SlotAtBack(t) == Len(queue) + 1

\* Where t goes: behind every entry of at least its priority.
Slot(t) == 1 + Cardinality({i \in DOMAIN queue : Priority[queue[i]] >= Priority[t]})

Push(t) ==
  queue' = [i \in 1 .. Len(queue) + 1 |->
              IF i < Slot(t) THEN queue[i] ELSE IF i = Slot(t) THEN t ELSE queue[i - 1]]

-----------------------------------------------------------------------------
(* promote_ready_tasks: Pending tasks whose delay has elapsed, in task-id  *)
(* order, until the queue is full.                                         *)

\* Mutant: a task is a candidate before its retry delay has elapsed.
StartPromoteEarly ==
  /\ pc = "promote"
  /\ Poll
  /\ IF Expired
     THEN candidates' = {} /\ pc' = "dispatch"
     ELSE /\ candidates' = {t \in Task : state[t] = "Pending" /\ t \notin queued}
          /\ pc' = "promoting"
  /\ UNCHANGED <<draining, records, queue, queued, deferred, window, proposals, active,
                 threads, report, ledger, environment, delayed, overdue>>

StartPromote ==
  /\ pc = "promote"
  /\ Poll
  /\ IF Expired
     THEN candidates' = {} /\ pc' = "dispatch"
     ELSE /\ candidates' = {t \in Task : state[t] = "Pending" /\ t \notin queued
                                         /\ t \notin delayed}
          /\ pc' = "promoting"
  /\ UNCHANGED <<draining, records, queue, queued, deferred, window, proposals, active,
                 threads, report, ledger, environment, delayed, overdue>>

DependencyFailed(t) == \E d \in Deps[t] : state[d] \in Terminal \ {"Succeeded"}
\* Mutant: a dependency that has merely started counts as met.
DependenciesStarted(t) == \A d \in Deps[t] : state[d] \in {"Running", "Succeeded"}

DependenciesMet(t) == \A d \in Deps[t] : state[d] = "Succeeded"

Promote(t) ==
  /\ pc = "promoting" /\ t \in candidates
  /\ \A u \in candidates : t <= u
  /\ \/ /\ DependencyFailed(t) \/ (DependenciesMet(t) /\ t \notin permitted)
        /\ state' = [state EXCEPT ![t] = "Skipped"]
        /\ candidates' = candidates \ {t}
        /\ UNCHANGED <<queue, queued>>
     \/ /\ ~DependencyFailed(t) /\ ~DependenciesMet(t)
        /\ candidates' = candidates \ {t}
        /\ UNCHANGED <<state, queue, queued>>
     \/ /\ DependenciesMet(t) /\ t \in permitted /\ ~QueueFull
        /\ Push(t)
        /\ queued' = queued \cup {t}
        /\ state' = [state EXCEPT ![t] = "Ready"]
        /\ candidates' = candidates \ {t}
     \/ /\ DependenciesMet(t) /\ t \in permitted /\ QueueFull
        /\ candidates' = {}
        /\ UNCHANGED <<state, queue, queued>>
  /\ UNCHANGED <<control, attempt, retryCount, deferred, window, proposals, active,
                 threads, report, ledger, environment, gcancel, delayed, overdue>>

EndPromote ==
  /\ pc = "promoting" /\ candidates = {}
  /\ pc' = "dispatch"
  /\ UNCHANGED <<draining, records, queueVars, proposals, active, threads, report,
                 ledger, environment, gcancel, delayed, overdue>>

-----------------------------------------------------------------------------
(* The dispatch window: pop until the slots are full, the queue is empty   *)
(* or the run has expired.  A popped task is deferred to the end of the    *)
(* window, dropped, skipped, or started.                                   *)

KindCap(k) == IF KindLimit[k] < Slots THEN KindLimit[k] ELSE Slots

NotYetReady(t) == state[t] \notin Terminal /\ t \in delayed
\* Mutant: off by one.
KindOverCap(t) == Cardinality(RunningOf(Kind[t])) > KindCap(Kind[t])

KindAtCap(t) == Cardinality(RunningOf(Kind[t])) >= KindCap(Kind[t])

\* The window already started two tasks of this kind, and a task of another
\* kind was deferred or the queue still holds any task at all.
YieldsForFairness(t) ==
  /\ window[Kind[t]] >= 2
  /\ \/ \E i \in DOMAIN deferred : Kind[deferred[i]] # Kind[t]
     \/ Tail(queue) # <<>>
  /\ Slots > 1

MustDefer(t) == NotYetReady(t) \/ KindAtCap(t) \/ YieldsForFairness(t)

\* Mutant: the window is not a deadline gate.
WindowOpenLate == pc = "dispatch" /\ active < Slots /\ queue # <<>>

WindowOpen ==
  /\ pc = "dispatch" /\ active < Slots
  /\ ~Expired
  /\ queue # <<>>

\* Mutant: the deferred task keeps its queued mark.
DeferKeepsQueued ==
  /\ WindowOpen
  /\ MustDefer(Head(queue))
  /\ deferred' = Append(deferred, Head(queue))
  /\ queue' = Tail(queue)
  /\ UNCHANGED <<control, records, queued, window, candidates, proposals, active, threads,
                 report, ledger, environment, gcancel, delayed, overdue>>

Defer ==
  /\ WindowOpen
  /\ MustDefer(Head(queue))
  /\ deferred' = Append(deferred, Head(queue))
  /\ queued' = queued \ {Head(queue)}
  /\ queue' = Tail(queue)
  /\ UNCHANGED <<control, records, window, candidates, proposals, active, threads,
                 report, ledger, environment, gcancel, delayed, overdue>>

\* Mutant: the scope of a queued task is trusted at dispatch.
AcceptedUnscoped(t) == Kind[t] \in Registered

\* The scope guard is asked again, and the module looked up, at dispatch.
Accepted(t) == t \in permitted /\ Kind[t] \in Registered

\* The popped task is already over, or no longer accepted.
DropPopped ==
  /\ WindowOpen
  /\ LET t == Head(queue) IN
       /\ ~MustDefer(t)
       /\ state[t] \in Terminal \/ ~Accepted(t)
       /\ IF state[t] \in Terminal THEN UNCHANGED <<state, listed>>
          ELSE /\ state' = [state EXCEPT ![t] = "Skipped"]
               /\ listed' = [listed EXCEPT ![t] = Append(@, "Skipped")]
       /\ queued' = queued \ {t}
  /\ queue' = Tail(queue)
  /\ UNCHANGED <<control, attempt, retryCount, deferred, window, candidates, proposals,
                 active, threads, termination, notAdmitted, ledger, environment, gcancel,
                 delayed, overdue>>

Start ==
  /\ WindowOpen
  /\ LET t == Head(queue) IN
       /\ ~MustDefer(t) /\ state[t] \notin Terminal
       /\ Accepted(t)
       /\ state' = [state EXCEPT ![t] = "Running"]
       /\ attempt' = [attempt EXCEPT ![t] = @ + 1]
       /\ workers' = workers \cup {[task |-> t, attempt |-> attempt[t] + 1]}
       /\ window' = [window EXCEPT ![Kind[t]] = @ + 1]
       /\ queued' = queued \ {t}
  /\ queue' = Tail(queue)
  /\ active' = active + 1
  /\ UNCHANGED <<control, retryCount, deferred, candidates, proposals, inbox, report,
                 ledger, environment, gcancel, delayed, overdue>>

CloseWindow ==
  /\ pc = "dispatch"
  /\ active >= Slots \/ Expired \/ queue = <<>>
  /\ IF active < Slots THEN Poll ELSE UNCHANGED gcancel
  /\ pc' = "requeue"
  /\ UNCHANGED <<draining, records, queueVars, proposals, active, threads, report,
                 ledger, environment, delayed, overdue>>

\* A deferred task that is still Ready goes back to the queue, or, if the
\* queue is saturated, back to Pending.
Requeue ==
  /\ pc = "requeue" /\ deferred # <<>>
  /\ LET t == Head(deferred) IN
       IF state[t] # "Ready" THEN UNCHANGED <<state, queue, queued>>
       ELSE IF QueueFull
       THEN /\ state' = [state EXCEPT ![t] = "Pending"]
            /\ queued' = queued \ {t}
            /\ UNCHANGED queue
       ELSE /\ Push(t)
            /\ queued' = queued \cup {t}
            /\ UNCHANGED state
  /\ deferred' = Tail(deferred)
  /\ UNCHANGED <<control, attempt, retryCount, window, candidates, proposals, active,
                 threads, report, ledger, environment, gcancel, delayed, overdue>>

\* With no slot in use the run is over, or sleeps and starts over.
EndWindow ==
  /\ pc = "requeue" /\ deferred = <<>>
  /\ window' = NoWindow
  /\ pc' = IF active > 0 THEN "wait"
           ELSE IF \A t \in Admitted : state[t] \in Terminal THEN "sweep" ELSE "top"
  /\ UNCHANGED <<draining, records, queue, queued, deferred, candidates, proposals,
                 active, threads, report, ledger, environment, gcancel, delayed, overdue>>

-----------------------------------------------------------------------------
(* The wait for a worker result, and handle_worker_result.  A result is    *)
(* live when its task is still Running in the same attempt; any other is   *)
(* the late result of a reaped worker and is discarded.                    *)

Live(m) == state[m.task] = "Running" /\ attempt[m.task] = m.attempt
Receiving == pc = "wait" \/ (pc = "drain" /\ active > 0)

\* Mutant: the late result of a reaped worker frees its slot a second time.
DiscardStaleFreesSlot(m) ==
  /\ Receiving /\ m \in inbox /\ ~Live(m)
  /\ inbox' = inbox \ {m}
  /\ active' = Freed(1)
  /\ pc' = IF draining THEN "drain" ELSE "top"
  /\ UNCHANGED <<draining, records, queueVars, proposals, workers, report,
                 ledger, environment, gcancel, delayed, overdue>>

DiscardStale(m) ==
  /\ Receiving /\ m \in inbox /\ ~Live(m)
  /\ inbox' = inbox \ {m}
  /\ pc' = IF draining THEN "drain" ELSE "top"
  /\ UNCHANGED <<draining, records, queueVars, proposals, active, workers, report,
                 ledger, environment, gcancel, delayed, overdue>>

\* A live result frees its slot; the deadline is polled once, before it is looked at.
Receive(m) ==
  /\ Receiving /\ m \in inbox /\ Live(m)
  /\ inbox' = inbox \ {m}
  /\ active' = Freed(1)
  /\ overdue' = overdue \ {m.task}
  /\ Poll
  /\ UNCHANGED <<draining, attempt, queueVars, workers, environment>>

\* Mutant: the task is reported before its state is set.
EndWithOldState(t, s) ==
  /\ state' = [state EXCEPT ![t] = s]
  /\ listed' = [listed EXCEPT ![t] = Append(@, state[t])]
  /\ UNCHANGED <<retryCount, delayed>>

EndWith(t, s) ==
  /\ state' = [state EXCEPT ![t] = s]
  /\ listed' = [listed EXCEPT ![t] = Append(@, s)]
  /\ UNCHANGED <<retryCount, delayed>>

Continue == pc' = IF draining THEN "drain" ELSE "top"

\* Mutant: the evidence is charged before the limit is checked.
ResultOverflowsCharged(m, bytes) ==
  /\ m.outcome = "ok" /\ Receive(m)
  /\ evidenceBytes + bytes > MaxEvidence
  /\ evidenceBytes' = evidenceBytes + bytes
  /\ EndWith(m.task, "Succeeded")
  /\ Truncate("EvidenceBudget")
  /\ notAdmitted' = notAdmitted + 1
  /\ Continue
  /\ UNCHANGED <<acceptedTasks, retries, moduleTasks, moduleRetries, proposals>>

\* The output would exceed the evidence budget: it is kept without its
\* evidence and no follow-up is asked for.
ResultOverflows(m, bytes) ==
  /\ m.outcome = "ok" /\ Receive(m)
  /\ evidenceBytes + bytes > MaxEvidence
  /\ EndWith(m.task, "Succeeded")
  /\ Truncate("EvidenceBudget")
  /\ notAdmitted' = notAdmitted + 1
  /\ Continue
  /\ UNCHANGED <<ledger, proposals>>

ResultSucceeds(m, bytes) ==
  /\ m.outcome = "ok" /\ Receive(m)
  /\ evidenceBytes + bytes <= MaxEvidence
  /\ evidenceBytes' = evidenceBytes + bytes
  /\ UNCHANGED <<acceptedTasks, retries, moduleTasks, moduleRetries>>
  /\ EndWith(m.task, "Succeeded")
  /\ IF Expired
     THEN Truncate("GlobalDeadline") /\ Continue /\ UNCHANGED proposals
     ELSE /\ proposals' = FollowUps[m.task]
          /\ pc' = "followups"
          /\ UNCHANGED termination
  /\ UNCHANGED notAdmitted

ResultCancelled(m) ==
  /\ m.outcome = "cancelled" /\ Receive(m)
  /\ EndWith(m.task, "Cancelled")
  /\ Continue
  /\ UNCHANGED <<proposals, termination, notAdmitted, ledger>>

\* Mutant: one attempt too many.
MayRetryOnceMore(m) == m.outcome = "retryable" /\ attempt[m.task] <= MaxAttempts[m.task]

MayRetry(m) == m.outcome = "retryable" /\ attempt[m.task] < MaxAttempts[m.task]

\* No retry is scheduled past the deadline, nor when the delay no longer fits.
ResultTooLateToRetry(m) ==
  /\ MayRetry(m) /\ Receive(m)
  /\ Expired \/ clock # "open"
  /\ EndWith(m.task, "Cancelled")
  /\ Truncate("GlobalDeadline")
  /\ Continue
  /\ UNCHANGED <<proposals, notAdmitted, ledger>>

\* Mutant: a retry is scheduled although the run has expired.
ResultRetriesLate(m) ==
  /\ MayRetry(m) /\ Receive(m)
  /\ LedgerAdmitsRetry(m.task)
  /\ ChargeRetry(m.task)
  /\ retryCount' = [retryCount EXCEPT ![m.task] = @ + 1]
  /\ state' = [state EXCEPT ![m.task] = "Pending"]
  /\ delayed' = delayed \cup {m.task}
  /\ Continue
  /\ UNCHANGED <<proposals, report>>

ResultRetries(m) ==
  /\ MayRetry(m) /\ Receive(m)
  /\ ~Expired
  /\ LedgerAdmitsRetry(m.task)
  /\ ChargeRetry(m.task)
  /\ retryCount' = [retryCount EXCEPT ![m.task] = @ + 1]
  /\ state' = [state EXCEPT ![m.task] = "Pending"]
  /\ delayed' = delayed \cup {m.task}
  /\ Continue
  /\ UNCHANGED <<proposals, report>>

ResultRetryBudget(m) ==
  /\ MayRetry(m) /\ Receive(m)
  /\ ~Expired
  /\ ~LedgerAdmitsRetry(m.task)
  /\ EndWith(m.task, "Failed")
  /\ Truncate("RetryBudget")
  /\ Continue
  /\ UNCHANGED <<proposals, notAdmitted, ledger>>

ResultFails(m) ==
  /\ m.outcome \in {"retryable", "fatal"} /\ ~MayRetry(m) /\ Receive(m)
  /\ EndWith(m.task, "Failed")
  /\ Continue
  /\ UNCHANGED <<proposals, termination, notAdmitted, ledger>>

HandleResult(m) ==
  \/ \E bytes \in EvidenceSizes : ResultOverflows(m, bytes) \/ ResultSucceeds(m, bytes)
  \/ ResultCancelled(m)
  \/ ResultTooLateToRetry(m)
  \/ ResultRetries(m)
  \/ ResultRetryBudget(m)
  \/ ResultFails(m)

\* Each proposal is preceded by a poll; once expired, one refusal is counted
\* and the rest of the proposals is forgotten.
NextFollowUp ==
  /\ pc = "followups"
  /\ IF proposals = <<>>
     THEN Continue /\ UNCHANGED <<proposals, notAdmitted, termination, gcancel>>
     ELSE /\ Poll
          /\ IF Expired
             THEN /\ notAdmitted' = notAdmitted + 1
                  /\ Truncate("GlobalDeadline")
                  /\ proposals' = <<>>
                  /\ Continue
             ELSE pc' = "followup_add" /\ UNCHANGED <<proposals, notAdmitted, termination>>
  /\ UNCHANGED <<draining, records, queueVars, active, threads, listed, ledger,
                 environment, delayed, overdue>>

\* Best effort: whatever the verdict, the next proposal follows.
AdmitFollowUp ==
  /\ pc = "followup_add" /\ proposals # <<>>
  /\ AddTask(Head(proposals))
  /\ proposals' = Tail(proposals)
  /\ pc' = "followups"
  /\ UNCHANGED draining

\* Mutant: a task past its timeout goes back to Pending while its worker lives.
WaitTimesOutRetries ==
  /\ pc = "wait" /\ inbox = {}
  /\ Poll
  /\ pc' = "top"
  /\ state' = [t \in Task |-> IF t \in overdue THEN "Pending" ELSE state[t]]
  /\ active' = Freed(Cardinality(overdue))
  /\ overdue' = {}
  /\ UNCHANGED <<draining, attempt, retryCount, queueVars, proposals, threads, report,
                 ledger, environment, delayed>>

\* Mutant: the reaped tasks keep their slots.
WaitTimesOutLeaks ==
  /\ pc = "wait" /\ inbox = {}
  /\ Poll
  /\ pc' = "top"
  /\ state' = [t \in Task |-> IF t \in overdue THEN "TimedOut" ELSE state[t]]
  /\ listed' = [t \in Task |-> IF t \in overdue THEN Append(listed[t], "TimedOut")
                               ELSE listed[t]]
  /\ overdue' = {}
  /\ UNCHANGED <<draining, attempt, retryCount, queueVars, proposals, active, threads,
                 termination, notAdmitted, ledger, environment, delayed>>

\* The wait timed out on an empty channel: all overdue tasks are reaped at once.
WaitTimesOut ==
  /\ pc = "wait" /\ inbox = {}
  /\ Poll
  /\ pc' = "top"
  /\ IF Expired THEN UNCHANGED <<state, listed, active, overdue>>
     ELSE /\ state' = [t \in Task |-> IF t \in overdue THEN "TimedOut" ELSE state[t]]
          /\ listed' = [t \in Task |-> IF t \in overdue THEN Append(listed[t], "TimedOut")
                                       ELSE listed[t]]
          /\ active' = Freed(Cardinality(overdue))
          /\ overdue' = {}
  /\ UNCHANGED <<draining, attempt, retryCount, queueVars, proposals, threads,
                 termination, notAdmitted, ledger, environment, delayed>>

-----------------------------------------------------------------------------
(* The environment.  A worker answers once or, if its module panics, never;  *)
(* it answers Cancelled only when its token, the global deadline or its own *)
(* deadline told it to stop.                                                *)

InRun == pc \notin {"admit", "sweep", "done", "aborted"}

ToldToStop(w) == gcancel \/ clock = "passed" \/ w.task \in overdue \/ ~Live(w)

WorkerAnswers(w, outcome) ==
  /\ InRun /\ w \in workers
  /\ outcome = "cancelled" => ToldToStop(w)
  /\ workers' = workers \ {w}
  /\ inbox' = inbox \cup {[task |-> w.task, attempt |-> w.attempt, outcome |-> outcome]}
  /\ UNCHANGED <<control, records, queueVars, proposals, active, report, ledger,
                 environment, gcancel, delayed, overdue>>

WorkerPanics(w) ==
  /\ InRun /\ w \in workers
  /\ workers' = workers \ {w}
  /\ UNCHANGED <<control, records, queueVars, proposals, active, inbox, report, ledger,
                 environment, gcancel, delayed, overdue>>

TaskTimeoutElapses(t) ==
  /\ InRun /\ state[t] = "Running" /\ t \notin overdue
  /\ overdue' = overdue \cup {t}
  /\ UNCHANGED <<control, records, queueVars, proposals, active, threads, report,
                 ledger, environment, gcancel, delayed>>

RetryDelayElapses(t) ==
  /\ InRun /\ t \in delayed
  /\ delayed' = delayed \ {t}
  /\ UNCHANGED <<control, records, queueVars, proposals, active, threads, report,
                 ledger, environment, gcancel, overdue>>

ClockTicks ==
  /\ pc \notin {"sweep", "done", "aborted"} /\ clock # "passed"
  /\ clock' = IF clock = "open" THEN "closing" ELSE "passed"
  /\ UNCHANGED <<control, records, queueVars, proposals, active, threads, report,
                 ledger, external, permitted, gcancel, delayed, overdue>>

ExternalCancel ==
  /\ pc \notin {"sweep", "done", "aborted"} /\ ~external
  /\ external' = TRUE
  /\ UNCHANGED <<control, records, queueVars, proposals, active, threads, report,
                 ledger, clock, permitted, gcancel, delayed, overdue>>

ScopeNarrows(t) ==
  /\ pc \notin {"sweep", "done", "aborted"} /\ t \in Flippable \cap permitted
  /\ permitted' = permitted \ {t}
  /\ UNCHANGED <<control, records, queueVars, proposals, active, threads, report,
                 ledger, clock, external, gcancel, delayed, overdue>>

\* The run has returned (or admission failed the scan).
Returned == pc \in {"done", "aborted"} /\ UNCHANGED vars

-----------------------------------------------------------------------------

Receives == \E m \in inbox : DiscardStale(m) \/ HandleResult(m)

Step ==
  \/ AdmitInitial \/ StartRun
  \/ Top \/ Shutdown \/ ForceStragglers \/ Sweep
  \/ StartPromote \/ (\E t \in Task : Promote(t)) \/ EndPromote
  \/ Defer \/ DropPopped \/ Start \/ CloseWindow \/ Requeue \/ EndWindow
  \/ Receives \/ NextFollowUp \/ AdmitFollowUp \/ WaitTimesOut

Caller == (\E t \in Task : CancelTask(t)) \/ DrainPending \/ CancelAll \/ RequestShutdown

Environment ==
  \/ \E w \in workers : WorkerPanics(w) \/ \E o \in Outcome : WorkerAnswers(w, o)
  \/ \E t \in Task : TaskTimeoutElapses(t) \/ RetryDelayElapses(t) \/ ScopeNarrows(t)
  \/ ClockTicks \/ ExternalCancel

Next == Step \/ Caller \/ Environment \/ Returned

Spec == Init /\ [][Next]_vars

\* The run() thread keeps running, and time passes: a started task reaches its
\* own timeout and a retry delay elapses.  Neither the global deadline, nor a
\* cancellation, nor any answer of a worker is assumed.
FairSpec ==
  /\ Spec
  /\ WF_vars(Step)
  /\ \A t \in Task : WF_vars(TaskTimeoutElapses(t)) /\ WF_vars(RetryDelayElapses(t))

-----------------------------------------------------------------------------
(* Properties.                                                             *)

ProgramPoint == {"admit", "aborted", "top", "shutdown", "drain", "sweep", "done",
                 "promote", "promoting", "dispatch", "requeue", "wait", "followups",
                 "followup_add"}

\* Type correctness of the scheduler's state.
TypeOK ==
  /\ pc \in ProgramPoint /\ draining \in BOOLEAN
  /\ state \in [Task -> RecordState]
  /\ attempt \in [Task -> Nat] /\ retryCount \in [Task -> Nat]
  /\ queue \in Seq(Task) /\ deferred \in Seq(Task) /\ proposals \in Seq(Task)
  /\ queued \subseteq Task /\ candidates \subseteq Task
  /\ window \in [TaskKind -> Nat]
  /\ active \in Nat
  /\ workers \subseteq Worker /\ inbox \subseteq Message
  /\ listed \in [Task -> Seq(Terminal)]
  /\ termination \in Reason /\ notAdmitted \in Nat
  /\ acceptedTasks \in Nat /\ retries \in Nat /\ evidenceBytes \in Nat
  /\ moduleTasks \in [ModuleName -> Nat] /\ moduleRetries \in [ModuleName -> Nat]
  /\ clock \in {"open", "closing", "passed"}
  /\ external \in BOOLEAN /\ gcancel \in BOOLEAN
  /\ delayed \subseteq Task /\ overdue \subseteq Task /\ permitted \subseteq Task

\* The slot counter of run() is exactly the number of Running tasks, through
\* answers, timeouts, late answers and the drain, and never exceeds the
\* effective concurrency.
SlotAccounting == active = Cardinality(Running) /\ active <= Slots

\* No scan class ever holds more slots than its kind_concurrency_cap.
KindCapsRespected == \A k \in TaskKind : Cardinality(RunningOf(k)) <= KindCap(k)

\* Slots are neither leaked nor freed twice, in all or by kind.
SlotsWithinCaps == SlotAccounting /\ KindCapsRespected

\* No task is lost or doubled between the queue and the dispatch window: the
\* Ready tasks are exactly the queued and the deferred ones, each once, and
\* `queued` marks exactly the queued ones.  A shutdown has emptied the queue.
ReadyIffStored ==
  /\ IsInjective(queue) /\ IsInjective(deferred)
  /\ ToSet(queue) \cap ToSet(deferred) = {}
  /\ {t \in Task : state[t] = "Ready"} = ToSet(queue) \cup ToSet(deferred)
  /\ ~draining => queued = ToSet(queue)
  /\ deferred # <<>> => pc \in {"dispatch", "requeue"}

\* The dispatch window never overfills the queue: what it popped always fits
\* back, so the "if saturated anyway" branch of the requeue is never needed.
RequeueFits == Len(queue) + Len(deferred) <= Capacity

\* What is Ready is stored once, and there is always room for it.
QueueExact == ReadyIffStored /\ RequeueFits

\* The queue is ordered by priority, whatever was deferred and requeued.
QueueOrdered ==
  \A i, j \in DOMAIN queue : i < j => Priority[queue[i]] >= Priority[queue[j]]

\* A queued task is one whose retry delay has elapsed: a retry waiting for its
\* delay never blocks the head of the queue.
QueueHoldsNoDelayed == ToSet(queue) \cap delayed = {}

\* At most one answer per task is under way (thread or message), and while the
\* task is Running it is the answer of the current attempt: a late answer of a
\* reaped worker can never be taken for a later attempt's.
OneAnswerPerAttempt ==
  /\ \A w \in workers, m \in inbox : w.task # m.task
  /\ \A w1, w2 \in workers : w1.task = w2.task => w1 = w2
  /\ \A m1, m2 \in inbox : m1.task = m2.task => m1 = m2
  /\ \A w \in workers \cup inbox :
       w.attempt = attempt[w.task] /\ state[w.task] \notin {"Absent", "Pending", "Ready"}

\* One pair for every retry that was scheduled for a task of S.
RetriesOf(S) == UNION {{t} \X (1 .. retryCount[t]) : t \in S}
TasksOf(m) == {t \in Task : Module[t] = m}

\* The ledger charges exactly what was admitted and retried, per module too,
\* within the limits: a refused proposal never consumes budget.
LedgerExact ==
  /\ acceptedTasks = Cardinality(Admitted) /\ acceptedTasks <= MaxTasks
  /\ retries = Cardinality(RetriesOf(Task)) /\ retries <= MaxRetries
  /\ evidenceBytes <= MaxEvidence
  /\ \A m \in ModuleName :
       /\ moduleTasks[m] = Cardinality(Admitted \cap TasksOf(m))
       /\ moduleTasks[m] <= ModuleMaxTasks[m]
       /\ moduleRetries[m] = Cardinality(RetriesOf(TasksOf(m)))
       /\ moduleRetries[m] <= ModuleMaxRetries[m]

\* A task starts at most max_attempts times, and one more time than it was
\* charged a retry.
AttemptsBounded ==
  \A t \in Task :
    /\ attempt[t] <= (IF MaxAttempts[t] > 1 THEN MaxAttempts[t] ELSE 1)
    /\ attempt[t] \in {retryCount[t], retryCount[t] + 1}

\* Attempts, their answers and the retries that wait agree with each other.
AttemptsExact == OneAnswerPerAttempt /\ AttemptsBounded /\ QueueHoldsNoDelayed

\* Whatever has ever started had all of its dependencies succeed first.
DependenciesFirst ==
  \A t \in Task : attempt[t] > 0 => \A d \in Deps[t] : state[d] = "Succeeded"

\* Tasks are taken in the order of their dependencies and priorities.
OrderKept == DependenciesFirst /\ QueueOrdered

\* Once the shutdown has cancelled the queue, nothing new becomes pending: no
\* retry is scheduled and no follow-up is admitted while stragglers answer.
DrainAdmitsNothing == draining => Unstarted = {} /\ pc # "followup_add"

\* run() returns with every admitted task in a terminal state, reported in
\* exactly one list, the one of its state.
ReportedOnce ==
  pc = "done" => \A t \in Task :
                   listed[t] = IF t \in Admitted THEN <<state[t]>> ELSE <<>>

\* Every admitted task is reported in exactly one list, after its dependencies
\* and in the order of the queue.
RunExact == ReportedOnce /\ OrderKept

\* A report that says Completed hides no truncation: every refused task was
\* refused for scope or duplication, and no admitted task was cancelled before
\* it ever ran, save by the caller.
CompletedMeansWhole ==
  pc = "done" /\ termination = "Completed" =>
    /\ notAdmitted = 0
    /\ \A t \in Task : state[t] = "Cancelled" => attempt[t] > 0 \/ t \in CallerCancels
                                                \/ CallerStops

\* The scheduler implements the life cycle it promises: dependencies first, at
\* most Slots running, bounded retries, and a terminal state that is final.
Lifecycle == INSTANCE TaskLifecycle
ImplementsLifecycle == Lifecycle!Spec

\* A task starts only while the scope guard still permits it, although it was
\* permitted when it was queued.
StartsInScope ==
  [][\A t \in Task : state[t] # "Running" /\ state'[t] = "Running" => t \in permitted]_vars

\* After the run has expired nothing starts, is admitted or is retried.
ExpiredStartsNothing ==
  [][Expired /\ pc # "admit" =>
       /\ Admitted' = Admitted
       /\ \A t \in Task : attempt'[t] = attempt[t] /\ retryCount'[t] = retryCount[t]]_vars

\* What may not start any more does not: out of scope, or out of time.
StartsAllowed == StartsInScope /\ ExpiredStartsNothing

\* run() returns, even if neither the deadline nor a cancellation ever comes
\* and workers panic or never answer.
RunEnds == <>(pc \in {"done", "aborted"})

-----------------------------------------------------------------------------
(* A claim of the source's own comments that the code does not keep.       *)

\* execution.rs, external_cancel: an external cancellation has "UserCancelled
\* semantics"; GlobalDeadline is reported only when the window was closing.
DeadlineVerdictIsTrue ==
  [][termination = "Completed" /\ termination' = "GlobalDeadline" => clock # "open"]_vars
=============================================================================
