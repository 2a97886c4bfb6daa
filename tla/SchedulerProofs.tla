-------------------------- MODULE SchedulerProofs --------------------------
(***************************************************************************)
(* Theorems about Scheduler, for every plan, dependency graph, budget and  *)
(* number of slots: its queue and its slots are exact; every step is a     *)
(* step of the life cycle of TaskLifecycle; and the attempts, the answers, *)
(* the ledger and the report agree with the states of the tasks.           *)
(***************************************************************************)
EXTENDS Scheduler, QueueLemmas, FiniteSetTheorems, TLAPS

-----------------------------------------------------------------------------
(* The queue.                                                              *)

\* An entry pushed into the queue lands between its first and one past its
\* last position.
LEMMA SlotRange ==
  ASSUME queue \in Seq(Task), NEW t \in Task
  PROVE  Slot(t) \in 1 .. Len(queue) + 1
<1> DEFINE ahead == {i \in DOMAIN queue : Priority[queue[i]] >= Priority[t]}
<1>1. Len(queue) \in Nat /\ DOMAIN queue = 1 .. Len(queue)
  OBVIOUS
<1>2. IsFiniteSet(1 .. Len(queue)) /\ Cardinality(1 .. Len(queue)) = Len(queue)
  BY <1>1, FS_Interval
<1>3. ahead \in SUBSET (1 .. Len(queue))
  BY <1>1
<1>4. IsFiniteSet(ahead) /\ Cardinality(ahead) <= Len(queue)
  BY <1>2, <1>3, FS_Subset
<1>5. Cardinality(ahead) \in Nat
  BY <1>4, FS_CardinalityType
<1> QED
  BY <1>1, <1>4, <1>5 DEF Slot

\* A push keeps the queue a sequence of tasks, one longer.
LEMMA PushType ==
  ASSUME queue \in Seq(Task), NEW t \in Task, Push(t)
  PROVE  queue' \in Seq(Task) /\ Len(queue') = Len(queue) + 1
  BY SlotRange DEF Push
-----------------------------------------------------------------------------
(* Type correctness.                                                       *)

\* What add_task may do to the task table, the ledger and the verdict.
LEMMA AddTaskType ==
  ASSUME TypeOK, NEW t \in Task, AddTask(t)
  PROVE  /\ state' \in [Task -> RecordState]
         /\ acceptedTasks' \in Nat /\ moduleTasks' \in [ModuleName -> Nat]
         /\ UNCHANGED <<retries, evidenceBytes, moduleRetries>>
         /\ notAdmitted' \in Nat
         /\ termination' \in Reason
         /\ gcancel' \in BOOLEAN
<1>1. termination' \in Reason
  BY DEF TypeOK, AddTask, Truncate, Reason
<1>2. state' \in [Task -> RecordState]
  BY DEF TypeOK, AddTask, RecordState, TaskState
<1>3. /\ acceptedTasks \in Nat /\ moduleTasks \in [ModuleName -> Nat]
      /\ Module[t] \in ModuleName
  BY SchedulerAssumption DEF TypeOK, SchedulerAssumption
<1>4. ChargeTask(t) \/ UNCHANGED ledger
  BY DEF AddTask
<1>5. acceptedTasks' \in Nat /\ moduleTasks' \in [ModuleName -> Nat]
  BY <1>3, <1>4 DEF ChargeTask, ledger
<1>6. UNCHANGED <<retries, evidenceBytes, moduleRetries>>
  BY <1>4 DEF ChargeTask, ledger
<1>7. notAdmitted' \in Nat
  BY DEF TypeOK, AddTask
<1>8. gcancel' \in BOOLEAN
  BY DEF TypeOK, AddTask, Poll
<1> QED
  BY <1>1, <1>2, <1>5, <1>6, <1>7, <1>8

\* The entry popped from a non-empty queue is a task, and what stays is a queue.
LEMMA PopType ==
  ASSUME NEW q \in Seq(Task), q # <<>>
  PROVE  /\ Head(q) \in Task /\ Tail(q) \in Seq(Task)
         /\ Len(q) \in Nat /\ Len(q) > 0 /\ Len(Tail(q)) = Len(q) - 1
  OBVIOUS

\* Freeing slots never takes the counter below zero.
LEMMA FreedType ==
  ASSUME TypeOK
  PROVE  \A n \in Nat : Freed(n) \in Nat
  BY DEF Freed, TypeOK

\* Reaping a set of tasks keeps the slot counter a natural number.
LEMMA ReapType ==
  ASSUME TypeOK, NEW S \in SUBSET Task
  PROVE  IsFiniteSet(S) /\ Cardinality(S) \in Nat /\ Freed(Cardinality(S)) \in Nat
  BY FS_CardinalityType, FS_Subset, FreedType, SchedulerAssumption DEF SchedulerAssumption

\* A worker's result is about a task, and freeing its slot is well typed.
LEMMA ReceiveType ==
  ASSUME TypeOK, NEW m, Receive(m)
  PROVE  /\ m.task \in Task /\ m \in inbox
         /\ inbox' \subseteq Message /\ active' \in Nat
         /\ overdue' \subseteq Task /\ gcancel' \in BOOLEAN
         /\ draining' = draining /\ attempt' = attempt /\ queue' = queue
         /\ queued' = queued /\ deferred' = deferred /\ window' = window
         /\ candidates' = candidates /\ workers' = workers /\ clock' = clock
         /\ external' = external /\ permitted' = permitted
  BY FreedType DEF Receive, TypeOK, Message, Poll, queueVars, environment

\* Recording a task's final state is well typed.
LEMMA EndWithType ==
  ASSUME TypeOK, NEW t \in Task, NEW s \in Terminal, EndWith(t, s)
  PROVE  /\ state' \in [Task -> RecordState]
         /\ listed' \in [Task -> Seq(Terminal)]
         /\ retryCount' = retryCount /\ delayed' = delayed
  BY DEF EndWith, TypeOK, RecordState, TaskState

\* Handling a worker's result keeps the state well typed.
LEMMA ResultType ==
  ASSUME TypeOK, NEW m, HandleResult(m)
  PROVE  TypeOK'
<1> USE DEF report, ledger
<1>t. "Succeeded" \in Terminal /\ "Cancelled" \in Terminal /\ "Failed" \in Terminal
  BY DEF Terminal
<1>c. Continue => pc' \in ProgramPoint
  BY DEF Continue, ProgramPoint
<1>1. ASSUME NEW bytes \in EvidenceSizes, ResultOverflows(m, bytes) PROVE TypeOK'
  <2>1. Receive(m) /\ EndWith(m.task, "Succeeded") /\ Continue
    BY <1>1 DEF ResultOverflows
  <2>2. termination' \in Reason /\ notAdmitted' \in Nat
    BY <1>1 DEF ResultOverflows, Truncate, Reason, TypeOK
  <2> QED
    BY <1>1, <1>t, <1>c, <2>1, <2>2, ReceiveType, EndWithType DEF ResultOverflows, TypeOK
<1>2. ASSUME NEW bytes \in EvidenceSizes, ResultSucceeds(m, bytes) PROVE TypeOK'
  <2>1. Receive(m) /\ EndWith(m.task, "Succeeded")
    BY <1>2 DEF ResultSucceeds
  <2>2. m.task \in Task
    BY <2>1, ReceiveType
  <2>3. FollowUps[m.task] \in Seq(Task) /\ bytes \in Nat
    BY <2>2, SchedulerAssumption DEF SchedulerAssumption
  <2>4. termination' \in Reason
    BY <1>2 DEF ResultSucceeds, Truncate, Reason, TypeOK
  <2>5. pc' \in ProgramPoint
    BY <1>2, <1>c DEF ResultSucceeds, ProgramPoint
  <2>6. proposals' \in Seq(Task) /\ evidenceBytes' \in Nat
    BY <1>2, <2>3 DEF ResultSucceeds, TypeOK
  <2> QED
    BY <1>2, <1>t, <2>1, <2>4, <2>5, <2>6, ReceiveType, EndWithType DEF ResultSucceeds, TypeOK
<1>3. ASSUME ResultCancelled(m) PROVE TypeOK'
  BY <1>3, <1>t, <1>c, ReceiveType, EndWithType DEF ResultCancelled, TypeOK
<1>4. ASSUME ResultTooLateToRetry(m) PROVE TypeOK'
  <2>1. termination' \in Reason
    BY <1>4 DEF ResultTooLateToRetry, Truncate, Reason, TypeOK
  <2> QED
    BY <1>4, <1>t, <1>c, <2>1, ReceiveType, EndWithType DEF ResultTooLateToRetry, TypeOK
<1>5. ASSUME ResultRetries(m) PROVE TypeOK'
  <2>1. Receive(m) /\ ChargeRetry(m.task) /\ m.task \in Task
    BY <1>5, ReceiveType DEF ResultRetries
  <2>2. Module[m.task] \in ModuleName
    BY <2>1, SchedulerAssumption DEF SchedulerAssumption
  <2>3. retries' \in Nat /\ moduleRetries' \in [ModuleName -> Nat]
    BY <2>1, <2>2 DEF ChargeRetry, TypeOK
  <2>4. acceptedTasks' = acceptedTasks /\ evidenceBytes' = evidenceBytes
        /\ moduleTasks' = moduleTasks
    BY <2>1 DEF ChargeRetry
  <2>5. state' \in [Task -> RecordState] /\ retryCount' \in [Task -> Nat]
    BY <1>5, <2>1 DEF ResultRetries, TypeOK, RecordState, TaskState
  <2>6. delayed' \subseteq Task
    BY <1>5, <2>1 DEF ResultRetries, TypeOK
  <2> QED
    BY <1>5, <1>c, <2>1, <2>3, <2>4, <2>5, <2>6, ReceiveType DEF ResultRetries, TypeOK
<1>6. ASSUME ResultRetryBudget(m) PROVE TypeOK'
  <2>1. termination' \in Reason
    BY <1>6 DEF ResultRetryBudget, Truncate, Reason, TypeOK
  <2> QED
    BY <1>6, <1>t, <1>c, <2>1, ReceiveType, EndWithType DEF ResultRetryBudget, TypeOK
<1>7. ASSUME ResultFails(m) PROVE TypeOK'
  BY <1>7, <1>t, <1>c, ReceiveType, EndWithType DEF ResultFails, TypeOK
<1> QED
  BY <1>1, <1>2, <1>3, <1>4, <1>5, <1>6, <1>7 DEF HandleResult

\* The initial state is well typed.
LEMMA InitType == Init => TypeOK
<1> SUFFICES ASSUME Init PROVE TypeOK
  OBVIOUS
<1>1. Plan \in Seq(Task)
  BY SchedulerAssumption DEF SchedulerAssumption
<1>2. state \in [Task -> RecordState]
  BY DEF Init, RecordState
<1>3. pc \in ProgramPoint /\ termination \in Reason
  BY DEF Init, ProgramPoint, Reason
<1>4. window \in [TaskKind -> Nat]
  BY DEF Init, NoWindow
<1>5. listed \in [Task -> Seq(Terminal)]
  BY DEF Init
<1>6. /\ attempt \in [Task -> Nat] /\ retryCount \in [Task -> Nat]
      /\ moduleTasks \in [ModuleName -> Nat] /\ moduleRetries \in [ModuleName -> Nat]
  BY DEF Init
<1>7. queue \in Seq(Task) /\ deferred \in Seq(Task) /\ proposals \in Seq(Task)
  BY <1>1 DEF Init
<1>8. /\ notAdmitted \in Nat /\ acceptedTasks \in Nat /\ retries \in Nat
      /\ evidenceBytes \in Nat /\ active \in Nat
  BY DEF Init
<1>9. /\ draining \in BOOLEAN /\ clock \in {"open", "closing", "passed"}
      /\ external \in BOOLEAN /\ gcancel \in BOOLEAN
  BY DEF Init
<1>10. /\ queued \subseteq Task /\ candidates \subseteq Task /\ workers \subseteq Worker
       /\ inbox \subseteq Message /\ delayed \subseteq Task /\ overdue \subseteq Task
       /\ permitted \subseteq Task
  BY DEF Init
<1> QED
  BY <1>2, <1>3, <1>4, <1>5, <1>6, <1>7, <1>8, <1>9, <1>10 DEF TypeOK

\* Every step of the scheduler, of its caller and of the environment keeps the
\* state well typed.
LEMMA NextType == TypeOK /\ [Next]_vars => TypeOK'
<1> SUFFICES ASSUME TypeOK, [Next]_vars PROVE TypeOK'
  OBVIOUS
<1> USE DEF control, records, queueVars, report, threads, ledger, environment
<1>1. CASE AdmitInitial
  <2>1. Head(proposals) \in Task /\ Tail(proposals) \in Seq(Task)
    BY <1>1 DEF AdmitInitial, TypeOK
  <2>2. AddTask(Head(proposals))
    BY <1>1 DEF AdmitInitial
  <2> QED
    BY <1>1, <2>1, <2>2, AddTaskType DEF AdmitInitial, AddTask, TypeOK, ProgramPoint
<1>2. CASE StartRun
  BY <1>2 DEF StartRun, TypeOK, Truncate, Reason, ProgramPoint
<1>3. CASE \E t \in Task : CancelTask(t)
  BY <1>3 DEF CancelTask, CancelPending, TypeOK, RecordState, TaskState, Terminal
<1>4. CASE DrainPending
  BY <1>4 DEF DrainPending, CancelPending, TypeOK, RecordState, TaskState, Terminal
<1>5. CASE CancelAll
  BY <1>5 DEF CancelAll, CancelPending, TypeOK, RecordState, TaskState, Terminal, Truncate,
              Reason
<1>6. CASE RequestShutdown
  BY <1>6 DEF RequestShutdown, TypeOK, Truncate, Reason
<1>7. CASE Top
  BY <1>7 DEF Top, TypeOK, Poll, ProgramPoint
<1>8. CASE Shutdown
  BY <1>8 DEF Shutdown, TypeOK, Truncate, Reason, ProgramPoint, RecordState, TaskState,
              Terminal
<1>9. CASE ForceStragglers
  <2>1. active' \in Nat
    BY <1>9, ReapType DEF ForceStragglers, Running
  <2>2. state' \in [Task -> RecordState] /\ listed' \in [Task -> Seq(Terminal)]
    BY <1>9 DEF ForceStragglers, TypeOK, RecordState, TaskState, Terminal
  <2> QED
    BY <1>9, <2>1, <2>2 DEF ForceStragglers, TypeOK, ProgramPoint
<1>10. CASE Sweep
  BY <1>10 DEF Sweep, TypeOK, ProgramPoint, Terminal
<1>11. CASE StartPromote
  BY <1>11 DEF StartPromote, TypeOK, ProgramPoint, Poll
<1>12. CASE \E t \in Task : Promote(t)
  BY <1>12, PushType DEF Promote, TypeOK, RecordState, TaskState, Terminal
<1>13. CASE EndPromote
  BY <1>13 DEF EndPromote, TypeOK, ProgramPoint
<1>14. CASE Defer
  <2>1. Head(queue) \in Task /\ Tail(queue) \in Seq(Task)
    BY <1>14, PopType DEF Defer, WindowOpen, TypeOK
  <2>2. queue' \in Seq(Task) /\ queued' \subseteq Task /\ deferred' \in Seq(Task)
    BY <1>14, <2>1 DEF Defer, TypeOK
  <2> QED
    BY <1>14, <2>2 DEF Defer, TypeOK
<1>15. CASE DropPopped
  <2>1. Head(queue) \in Task /\ Tail(queue) \in Seq(Task)
    BY <1>15, PopType DEF DropPopped, WindowOpen, TypeOK
  <2>2. state' \in [Task -> RecordState]
    BY <1>15, <2>1 DEF DropPopped, TypeOK, RecordState, TaskState, Terminal
  <2>t. "Skipped" \in Terminal
    BY DEF Terminal
  <2>4. listed' \in [Task -> Seq(Terminal)]
    <3>1. Append(listed[Head(queue)], "Skipped") \in Seq(Terminal)
      BY <2>1, <2>t DEF TypeOK
    <3>2. \/ listed' = listed
          \/ listed' = [listed EXCEPT ![Head(queue)] = Append(listed[Head(queue)], "Skipped")]
      BY <1>15 DEF DropPopped
    <3> QED
      BY <3>1, <3>2 DEF TypeOK
  <2>3. queue' \in Seq(Task) /\ queued' \subseteq Task
    BY <1>15, <2>1 DEF DropPopped, TypeOK
  <2> QED
    BY <1>15, <2>2, <2>3, <2>4 DEF DropPopped, TypeOK
<1>16. CASE Start
  <2>1. Head(queue) \in Task /\ Tail(queue) \in Seq(Task)
    BY <1>16, PopType DEF Start, WindowOpen, TypeOK
  <2>2. state' \in [Task -> RecordState]
    BY <1>16, <2>1 DEF Start, TypeOK, RecordState, TaskState
  <2>3. attempt' \in [Task -> Nat] /\ workers' \subseteq Worker
    <3>1. attempt' = [attempt EXCEPT ![Head(queue)] = @ + 1]
          /\ workers' = workers \cup {[task |-> Head(queue), attempt |-> attempt[Head(queue)] + 1]}
      BY <1>16 DEF Start
    <3>2. attempt \in [Task -> Nat] /\ workers \subseteq Worker
      BY DEF TypeOK
    <3>3. attempt[Head(queue)] + 1 \in Nat
      BY <2>1, <3>2
    <3> QED
      BY <2>1, <3>1, <3>2, <3>3 DEF Worker
  <2>4. Kind[Head(queue)] \in TaskKind
    BY <2>1, SchedulerAssumption DEF SchedulerAssumption
  <2>5. window' \in [TaskKind -> Nat]
    <3>1. window \in [TaskKind -> Nat]
      BY DEF TypeOK
    <3>2. window' = [window EXCEPT ![Kind[Head(queue)]] = @ + 1]
      BY <1>16 DEF Start
    <3>3. window[Kind[Head(queue)]] + 1 \in Nat
      BY <2>4, <3>1
    <3> QED
      BY <2>4, <3>1, <3>2, <3>3
  <2>6. queue' \in Seq(Task) /\ queued' \subseteq Task /\ active' \in Nat
    BY <1>16, <2>1 DEF Start, TypeOK
  <2> QED
    BY <1>16, <2>2, <2>3, <2>5, <2>6 DEF Start, TypeOK
<1>17. CASE CloseWindow
  BY <1>17 DEF CloseWindow, TypeOK, ProgramPoint, Poll
<1>18. CASE Requeue
  <2>1. Head(deferred) \in Task /\ Tail(deferred) \in Seq(Task)
    BY <1>18, PopType DEF Requeue, TypeOK
  <2>2. state' \in [Task -> RecordState]
    BY <1>18, <2>1 DEF Requeue, TypeOK, RecordState, TaskState
  <2>3. queue' \in Seq(Task) /\ queued' \subseteq Task
    BY <1>18, <2>1, PushType DEF Requeue, TypeOK
  <2>4. deferred' \in Seq(Task)
    BY <1>18, <2>1 DEF Requeue
  <2> QED
    BY <1>18, <2>2, <2>3, <2>4 DEF Requeue, TypeOK
<1>19. CASE EndWindow
  BY <1>19 DEF EndWindow, TypeOK, ProgramPoint, NoWindow
<1>20. CASE Receives
  BY <1>20, ResultType DEF Receives, DiscardStale, TypeOK, ProgramPoint
<1>21. CASE NextFollowUp
  <2>1. pc' \in ProgramPoint
    BY <1>21 DEF NextFollowUp, Continue, ProgramPoint
  <2>2. termination' \in Reason /\ gcancel' \in BOOLEAN
    BY <1>21 DEF NextFollowUp, TypeOK, Truncate, Reason, Poll
  <2>3. notAdmitted' \in {notAdmitted, notAdmitted + 1} /\ proposals' \in {proposals, <<>>}
    BY <1>21 DEF NextFollowUp
  <2>4. notAdmitted' \in Nat /\ proposals' \in Seq(Task)
    <3>1. notAdmitted \in Nat /\ proposals \in Seq(Task) /\ <<>> \in Seq(Task)
      BY DEF TypeOK
    <3>2. notAdmitted' \in Nat
      BY <2>3, <3>1
    <3>3. proposals' = proposals \/ proposals' = <<>>
      BY <2>3
    <3> QED
      BY <3>1, <3>2, <3>3
  <2> QED
    BY <1>21, <2>1, <2>2, <2>4 DEF NextFollowUp, TypeOK
<1>22. CASE AdmitFollowUp
  BY <1>22, AddTaskType, PopType DEF AdmitFollowUp, TypeOK, AddTask, ProgramPoint
<1>23. CASE WaitTimesOut
  <2>2. active' \in Nat /\ overdue' \subseteq Task
    BY <1>23, ReapType DEF WaitTimesOut, TypeOK
  <2>3. pc' \in ProgramPoint /\ gcancel' \in BOOLEAN
    BY <1>23 DEF WaitTimesOut, ProgramPoint, Poll, TypeOK
  <2>a. CASE Expired
    BY <1>23, <2>a, <2>3 DEF WaitTimesOut, TypeOK
  <2>b. CASE ~Expired
    <3>1. state' \in [Task -> RecordState]
      BY <1>23, <2>b DEF WaitTimesOut, TypeOK, RecordState, TaskState, Terminal
    <3>2. "TimedOut" \in Terminal
      BY DEF Terminal
    <3>3. listed' \in [Task -> Seq(Terminal)]
      <4>1. \A t \in Task : listed[t] \in Seq(Terminal)
                           /\ Append(listed[t], "TimedOut") \in Seq(Terminal)
        BY <3>2 DEF TypeOK
      <4>2. listed' = [t \in Task |-> IF t \in overdue THEN Append(listed[t], "TimedOut")
                                     ELSE listed[t]]
        BY <1>23, <2>b DEF WaitTimesOut
      <4> QED
        BY <4>1, <4>2
    <3> QED
      BY <1>23, <2>2, <2>3, <3>1, <3>3 DEF WaitTimesOut, TypeOK
  <2> QED
    BY <2>a, <2>b
<1>24. CASE Environment
  <2>1. CASE \E w \in workers : WorkerPanics(w)
    BY <2>1 DEF WorkerPanics, TypeOK
  <2>2. CASE \E w \in workers, o \in Outcome : WorkerAnswers(w, o)
    <3>1. PICK w \in workers, o \in Outcome : WorkerAnswers(w, o)
      BY <2>2
    <3>2. [task |-> w.task, attempt |-> w.attempt, outcome |-> o] \in Message
      BY DEF TypeOK, Worker, Message
    <3>3. workers' \subseteq Worker /\ inbox' \subseteq Message
      BY <3>1, <3>2 DEF WorkerAnswers, TypeOK
    <3> QED
      BY <3>1, <3>3 DEF WorkerAnswers, TypeOK
  <2>3. CASE \E t \in Task : TaskTimeoutElapses(t)
    BY <2>3 DEF TaskTimeoutElapses, TypeOK
  <2>4. CASE \E t \in Task : RetryDelayElapses(t)
    BY <2>4 DEF RetryDelayElapses, TypeOK
  <2>5. CASE \E t \in Task : ScopeNarrows(t)
    BY <2>5 DEF ScopeNarrows, TypeOK
  <2>6. CASE ClockTicks
    BY <2>6 DEF ClockTicks, TypeOK
  <2>7. CASE ExternalCancel
    BY <2>7 DEF ExternalCancel, TypeOK
  <2> QED
    BY <1>24, <2>1, <2>2, <2>3, <2>4, <2>5, <2>6, <2>7 DEF Environment
<1>25. CASE Returned \/ UNCHANGED vars
  BY <1>25 DEF Returned, vars, TypeOK
<1> QED
  BY <1>1, <1>2, <1>3, <1>4, <1>5, <1>6, <1>7, <1>8, <1>9, <1>10, <1>11, <1>12, <1>13,
     <1>14, <1>15, <1>16, <1>17, <1>18, <1>19, <1>20, <1>21, <1>22, <1>23, <1>24, <1>25
  DEF Next, Step, Caller

\* The scheduler's state is well typed in every behaviour.
THEOREM TypeCorrect == Spec => []TypeOK
<1> QED
  BY InitType, NextType, PTL DEF Spec

-----------------------------------------------------------------------------
(* The queue and the dispatch window.                                      *)

\* A push adds exactly the pushed task to a queue without repetition.
LEMMA PushElements ==
  ASSUME queue \in Seq(Task), NEW t \in Task, Push(t),
         t \notin ToSet(queue), IsInjective(queue)
  PROVE  ToSet(queue') = ToSet(queue) \cup {t} /\ IsInjective(queue')
<1> DEFINE n == Len(queue) + 1
           s == Slot(t)
           at(i) == IF i < s THEN i ELSE i - 1
<1>1. n \in Nat /\ s \in 1 .. n /\ DOMAIN queue = 1 .. n - 1 /\ n > 0
  BY SlotRange
<1>2. DOMAIN queue' = 1 .. n
  BY <1>1 DEF Push
<1>3. queue'[s] = t
  BY <1>1 DEF Push
<1>4. \A i \in 1 .. n : i # s => at(i) \in 1 .. n - 1 /\ queue'[i] = queue[at(i)]
  BY <1>1 DEF Push
<1>5. ASSUME NEW j \in 1 .. n - 1 PROVE \E i \in 1 .. n : queue'[i] = queue[j]
  <2>1. CASE j < s
    BY <1>1, <1>4, <2>1
  <2>2. CASE ~ (j < s)
    <3>1. j + 1 \in 1 .. n /\ j + 1 # s /\ at(j + 1) = j
      BY <1>1, <2>2
    <3> QED
      BY <1>4, <3>1
  <2> QED
    BY <2>1, <2>2
<1> HIDE DEF s, n
<1>6. ToSet(queue') \subseteq ToSet(queue) \cup {t}
  BY <1>1, <1>2, <1>3, <1>4 DEF ToSet
<1>7. ToSet(queue) \cup {t} \subseteq ToSet(queue')
  BY <1>1, <1>2, <1>3, <1>5 DEF ToSet
<1>8. ASSUME NEW i \in 1 .. n, NEW j \in 1 .. n, queue'[i] = queue'[j] PROVE i = j
  <2>1. \A k \in 1 .. n : k # s => queue'[k] # t
    BY <1>1, <1>4 DEF ToSet
  <2>2. CASE i = s \/ j = s
    BY <1>3, <1>8, <2>1, <2>2
  <2>3. CASE i # s /\ j # s
    BY <1>1, <1>4, <1>8, <2>3 DEF IsInjective
  <2> QED
    BY <2>2, <2>3
<1> QED
  BY <1>2, <1>6, <1>7, <1>8 DEF IsInjective

ReadyTasks == {t \in Task : state[t] = "Ready"}
Stored == ToSet(queue) \cup ToSet(deferred)

\* The strengthening of ReadyIffStored, DrainAdmitsNothing and RequeueFits that
\* is inductive: what a promotion pass still has to look at is Pending, and a
\* shutdown, once entered, is never left and keeps the token cancelled.
QueueInv ==
  /\ IsInjective(queue) /\ IsInjective(deferred)
  /\ ToSet(queue) \cap ToSet(deferred) = {}
  /\ ReadyTasks = Stored
  /\ ~draining => queued = ToSet(queue)
  /\ deferred # <<>> => pc \in {"dispatch", "requeue"}
  /\ Len(queue) + Len(deferred) <= Capacity
  /\ \A t \in candidates : state[t] = "Pending"
  /\ candidates # {} => pc = "promoting"
  /\ draining => gcancel /\ Unstarted = {} /\ pc \in {"drain", "sweep", "done"}
  /\ pc = "drain" => draining
  /\ pc \in {"admit", "aborted"} => queue = <<>> /\ \A t \in Task : attempt[t] = 0
                                 /\ state[t] # "Running"

\* What the properties of the queue say follows from the invariant.
LEMMA QueueInvImplies == QueueInv => ReadyIffStored /\ DrainAdmitsNothing /\ RequeueFits
  BY DEF QueueInv, ReadyIffStored, DrainAdmitsNothing, RequeueFits, ReadyTasks, Stored

\* Nothing is stored before the first task is admitted.
LEMMA InitQueue == Init => QueueInv
  BY EmptyElements, SchedulerAssumption
  DEF Init, QueueInv, ReadyTasks, Stored, SchedulerAssumption

\* A step that leaves the queue, the window and the promotion pass alone and
\* makes no task Ready or un-Ready keeps the invariant.
LEMMA QueueFrame ==
  ASSUME TypeOK, QueueInv,
         UNCHANGED <<queue, queued, deferred, candidates, draining>>,
         ReadyTasks' = ReadyTasks,
         candidates # {} => pc' = pc /\ state' = state,
         deferred # <<>> => pc' = pc,
         draining => gcancel' /\ Unstarted' = {} /\ pc' \in {"drain", "sweep", "done"},
         pc' = "drain" => draining,
         pc' \in {"admit", "aborted"} =>
           pc = "admit" /\ attempt' = attempt /\ \A t \in Task : state'[t] # "Running"
  PROVE  QueueInv'
  BY DEF QueueInv, Stored, ToSet, IsInjective

\* Only a Running task can be past its timeout.
OverdueRunning == overdue \subseteq Running

\* Every step keeps the invariant of the queue.
LEMMA NextQueue == TypeOK /\ TypeOK' /\ QueueInv /\ OverdueRunning /\ [Next]_vars => QueueInv'
<1> SUFFICES ASSUME TypeOK, TypeOK', QueueInv, OverdueRunning, [Next]_vars PROVE QueueInv'
  OBVIOUS
<1> USE DEF control, records, queueVars, report, threads, ledger, environment
<1>a. ASSUME NEW t \in Task, AddTask(t)
      PROVE  /\ ReadyTasks' = ReadyTasks /\ UNCHANGED <<queue, queued, deferred, candidates>>
             /\ attempt' = attempt
             /\ \A u \in Task : state'[u] = "Running" => state[u] = "Running"
  <2>1. state' = state \/ (state[t] = "Absent" /\ state' = [state EXCEPT ![t] = "Pending"])
    BY <1>a DEF AddTask, AddVerdict
  <2>2. \A u \in Task : state'[u] \in {"Ready", "Running"} \/ state[u] \in {"Ready", "Running"}
                       => state'[u] = state[u]
    BY <2>1 DEF TypeOK
  <2> QED
    BY <1>a, <2>2 DEF AddTask, ReadyTasks
<1>1. CASE AdmitInitial
  <2>1. Head(proposals) \in Task
    BY <1>1, PopType DEF AdmitInitial, TypeOK
  <2> QED
    BY <1>1, <1>a, <2>1, QueueFrame DEF AdmitInitial, QueueInv
<1>2. CASE StartRun
  BY <1>2, QueueFrame DEF StartRun, QueueInv, ReadyTasks
<1>3. CASE Caller
  BY <1>3, EmptyElements, QueueFrame DEF Caller, CancelTask, DrainPending, CancelAll, RequestShutdown, QueueInv,
     Stored, CancelPending, ReadyTasks
<1>7. CASE Top
  BY <1>7, QueueFrame DEF Top, QueueInv, ReadyTasks
<1>8. CASE Shutdown
  BY <1>8, EmptyElements, SchedulerAssumption DEF Shutdown, QueueInv, ReadyTasks, Unstarted,
     SchedulerAssumption, Stored
<1>9. CASE ForceStragglers
  BY <1>9, QueueFrame DEF ForceStragglers, QueueInv, ReadyTasks, Unstarted, Running, TypeOK
<1>10. CASE Sweep
  BY <1>10, QueueFrame DEF Sweep, QueueInv, ReadyTasks, Unstarted
<1>11. CASE StartPromote
  BY <1>11 DEF StartPromote, QueueInv, ReadyTasks, Stored
<1>12. CASE \E t \in Task : Promote(t)
  <2> PICK t \in Task : Promote(t)
    BY <1>12
  <2>1. pc = "promoting" /\ pc' = pc /\ ~draining /\ UNCHANGED <<draining, deferred>>
        /\ deferred = <<>> /\ state[t] = "Pending" /\ candidates' \subseteq candidates \ {t}
    BY DEF Promote, QueueInv
  <2>2. ToSet(deferred) = {}
    BY <2>1, EmptyElements
  <2>3. CASE UNCHANGED <<queue, queued>>
    <3>1. state' \in {state, [state EXCEPT ![t] = "Skipped"]}
          \/ (Push(t) /\ queued' = queued \cup {t})
      BY DEF Promote
    <3>2. CASE Push(t)
      BY <2>3, <3>2, PushType DEF TypeOK
    <3>3. CASE state' \in {state, [state EXCEPT ![t] = "Skipped"]}
      <4>1. \A u \in Task : u # t => state'[u] = state[u]
        BY <3>3 DEF TypeOK
      <4>2. state'[t] # "Ready"
        BY <3>3, <2>1 DEF TypeOK
      <4>3. ReadyTasks' = ReadyTasks
        BY <2>1, <4>1, <4>2 DEF ReadyTasks
      <4>4. \A u \in candidates' : state'[u] = "Pending"
        BY <2>1, <4>1 DEF QueueInv, TypeOK
      <4> QED
        BY <2>1, <2>3, <4>3, <4>4 DEF QueueInv, Stored
    <3> QED
      BY <3>1, <3>2, <3>3
  <2>4. CASE Push(t) /\ queued' = queued \cup {t} /\ ~QueueFull
             /\ state' = [state EXCEPT ![t] = "Ready"]
    <3>1. t \notin ToSet(queue)
      BY <2>1 DEF QueueInv, ReadyTasks, Stored
    <3>2. ToSet(queue') = ToSet(queue) \cup {t} /\ IsInjective(queue')
      BY <2>4, <3>1, PushElements DEF QueueInv, TypeOK
    <3>3. ReadyTasks' = ReadyTasks \cup {t}
      BY <2>4 DEF ReadyTasks, TypeOK
    <3>4. Len(queue') = Len(queue) + 1 /\ Len(queue) \in Nat /\ Len(deferred) = 0
      BY <2>1, <2>4, PushType DEF TypeOK
    <3>5. Len(queue') + Len(deferred') <= Capacity
      BY <2>1, <2>4, <3>4, SchedulerAssumption DEF QueueFull, SchedulerAssumption
    <3>6. \A u \in candidates' : state'[u] = "Pending"
      BY <2>1, <2>4 DEF QueueInv, TypeOK
    <3>7. queued' = ToSet(queue') /\ ReadyTasks' = Stored'
      BY <2>1, <2>2, <2>4, <3>2, <3>3 DEF QueueInv, Stored
    <3> QED
      BY <2>1, <2>2, <3>2, <3>5, <3>6, <3>7, EmptyElements DEF QueueInv
  <2> QED
    BY <2>3, <2>4 DEF Promote
<1>13. CASE EndPromote
  BY <1>13, QueueFrame DEF EndPromote, QueueInv, ReadyTasks, Unstarted
<1>p. ASSUME queue # <<>>, queue' = Tail(queue)
      PROVE  /\ Head(queue) \in Task /\ Head(queue) \in ToSet(queue)
             /\ state[Head(queue)] = "Ready"
             /\ ToSet(queue') = ToSet(queue) \ {Head(queue)} /\ IsInjective(queue')
             /\ Len(queue) \in Nat /\ Len(queue') = Len(queue) - 1
  <2>1. Head(queue) \in ToSet(queue)
        /\ ToSet(queue') = ToSet(queue) \ {Head(queue)} /\ IsInjective(queue')
    BY <1>p, TailElements DEF TypeOK, QueueInv
  <2>2. state[Head(queue)] = "Ready"
    BY <2>1 DEF QueueInv, ReadyTasks, Stored
  <2> QED
    BY <1>p, <2>1, <2>2, PopType DEF TypeOK
<1>14. CASE Defer
  <2> DEFINE t == Head(queue)
  <2>1. pc = "dispatch" /\ pc' = pc /\ queue # <<>> /\ queue' = Tail(queue)
        /\ deferred' = Append(deferred, t) /\ queued' = queued \ {t}
        /\ UNCHANGED <<state, draining, candidates>>
    BY <1>14 DEF Defer, WindowOpen
  <2>2. t \in Task /\ t \in ToSet(queue) /\ Len(queue) \in Nat
        /\ ToSet(queue') = ToSet(queue) \ {t} /\ IsInjective(queue')
        /\ Len(queue') = Len(queue) - 1
    BY <2>1, <1>p
  <2> HIDE DEF t
  <2>3. t \notin ToSet(deferred)
    BY <2>2 DEF QueueInv
  <2>4. ToSet(deferred') = ToSet(deferred) \cup {t} /\ IsInjective(deferred')
        /\ Len(deferred') = Len(deferred) + 1
    BY <2>1, <2>2, <2>3, AppendElements DEF QueueInv, TypeOK
  <2>5. Stored' = Stored /\ ReadyTasks' = ReadyTasks
        /\ ToSet(queue') \cap ToSet(deferred') = {}
    BY <2>1, <2>2, <2>4 DEF Stored, ReadyTasks, QueueInv
  <2>6. Len(deferred) \in Nat /\ Capacity \in Nat
    BY SchedulerAssumption DEF SchedulerAssumption, TypeOK
  <2>7. Len(queue') + Len(deferred') <= Capacity
    BY <2>2, <2>4, <2>6 DEF QueueInv
  <2>8. ~draining' => queued' = ToSet(queue')
    BY <2>1, <2>2 DEF QueueInv
  <2> QED
    BY <2>1, <2>2, <2>4, <2>5, <2>7, <2>8 DEF QueueInv
<1>d. ASSUME pc = "dispatch", pc' = pc, queue # <<>>, queue' = Tail(queue),
             queued' = queued \ {Head(queue)}, UNCHANGED <<deferred, draining, candidates>>,
             NEW s, s # "Ready", state' = [state EXCEPT ![Head(queue)] = s]
      PROVE  QueueInv'
  <2> DEFINE t == Head(queue)
  <2>1. t \in Task /\ t \in ToSet(queue) /\ Len(queue) \in Nat
        /\ ToSet(queue') = ToSet(queue) \ {t} /\ IsInjective(queue')
        /\ Len(queue') = Len(queue) - 1
    BY <1>d, <1>p
  <2>2. ReadyTasks' = ReadyTasks \ {t}
    BY <1>d, <2>1 DEF ReadyTasks, TypeOK
  <2> HIDE DEF t
  <2>3. t \notin ToSet(deferred)
    BY <2>1 DEF QueueInv
  <2>4. Stored' = Stored \ {t}
    BY <1>d, <2>1, <2>3 DEF Stored
  <2>5. Len(deferred) \in Nat /\ Capacity \in Nat
    BY SchedulerAssumption DEF SchedulerAssumption, TypeOK
  <2>6. Len(queue') + Len(deferred') <= Capacity
    BY <1>d, <2>1, <2>5 DEF QueueInv
  <2>7. ~draining' => queued' = ToSet(queue')
    BY <1>d, <2>1 DEF QueueInv, t
  <2>8. candidates' = {} /\ ~draining'
    BY <1>d DEF QueueInv
  <2> QED
    BY <1>d, <2>1, <2>2, <2>4, <2>6, <2>7, <2>8 DEF QueueInv
<1>15. CASE DropPopped
  <2>1. pc = "dispatch" /\ queue # <<>> /\ queue' = Tail(queue)
    BY <1>15 DEF DropPopped, WindowOpen
  <2>2. state[Head(queue)] \notin Terminal
    BY <2>1, <1>p DEF Terminal
  <2>3. state' = [state EXCEPT ![Head(queue)] = "Skipped"]
    BY <1>15, <2>2 DEF DropPopped
  <2> QED
    BY <1>15, <1>d, <2>1, <2>3 DEF DropPopped
<1>16. CASE Start
  <2>1. pc = "dispatch" /\ queue # <<>> /\ queue' = Tail(queue)
    BY <1>16 DEF Start, WindowOpen
  <2> QED
    BY <1>16, <1>d, <2>1 DEF Start
<1>17. CASE CloseWindow
  BY <1>17 DEF CloseWindow, QueueInv, ReadyTasks, Stored
<1>18. CASE Requeue
  <2> DEFINE t == Head(deferred)
  <2>1. pc = "requeue" /\ pc' = pc /\ deferred # <<>> /\ deferred' = Tail(deferred)
        /\ UNCHANGED <<candidates, draining>> /\ candidates = {} /\ ~draining
    BY <1>18 DEF Requeue, QueueInv
  <2>2. t \in Task /\ t \in ToSet(deferred) /\ Len(deferred') = Len(deferred) - 1
        /\ ToSet(deferred') = ToSet(deferred) \ {t} /\ IsInjective(deferred')
        /\ Len(deferred) \in Nat /\ Len(queue) \in Nat /\ Capacity \in Nat /\ Len(deferred) > 0
    BY <2>1, TailElements, PopType, SchedulerAssumption
    DEF TypeOK, QueueInv, SchedulerAssumption
  <2>3. state[t] = "Ready" /\ t \notin ToSet(queue)
    BY <2>2 DEF QueueInv, ReadyTasks, Stored
  <2>4. ~QueueFull
    BY <2>2 DEF QueueInv, QueueFull
  <2>5. Push(t) /\ queued' = queued \cup {t} /\ state' = state
    BY <1>18, <2>3, <2>4 DEF Requeue
  <2> HIDE DEF t
  <2>6. ToSet(queue') = ToSet(queue) \cup {t} /\ IsInjective(queue')
        /\ Len(queue') = Len(queue) + 1
    BY <2>2, <2>3, <2>5, PushElements, PushType DEF TypeOK, QueueInv
  <2>7. Stored' = Stored /\ ReadyTasks' = ReadyTasks
        /\ ToSet(queue') \cap ToSet(deferred') = {}
    BY <2>2, <2>5, <2>6 DEF Stored, ReadyTasks, QueueInv
  <2>8. Len(queue') + Len(deferred') <= Capacity
    BY <2>2, <2>6 DEF QueueInv
  <2>9. queued' = ToSet(queue')
    BY <2>1, <2>5, <2>6 DEF QueueInv
  <2> QED
    BY <2>1, <2>2, <2>6, <2>7, <2>8, <2>9 DEF QueueInv
<1>19. CASE EndWindow
  BY <1>19, QueueFrame DEF EndWindow, QueueInv, ReadyTasks
<1>20. CASE Receives
  <2> PICK m \in inbox : DiscardStale(m) \/ HandleResult(m)
    BY <1>20 DEF Receives
  <2>0. pc \in {"wait", "drain"} /\ candidates = {} /\ deferred = <<>>
        /\ UNCHANGED <<queue, queued, deferred, candidates, draining>>
    BY DEF DiscardStale, HandleResult, ResultOverflows, ResultSucceeds, ResultCancelled,
           ResultTooLateToRetry, ResultRetries, ResultRetryBudget, ResultFails, Receive,
           Receiving, QueueInv
  <2>1. CASE DiscardStale(m)
    BY <2>0, <2>1, QueueFrame DEF DiscardStale, QueueInv, ReadyTasks, Unstarted
  <2>2. CASE HandleResult(m)
    <3>1. Receive(m) /\ m.task \in Task /\ state[m.task] = "Running"
          /\ (gcancel => gcancel')
      BY <2>2, ReceiveType
      DEF HandleResult, ResultOverflows, ResultSucceeds, ResultCancelled,
          ResultTooLateToRetry, ResultRetries, ResultRetryBudget, ResultFails, Receive, Live,
          Poll
    <3>2. PICK s \in {"Succeeded", "Failed", "Cancelled", "Pending"} :
            /\ state' = [state EXCEPT ![m.task] = s]
            /\ s = "Pending" => ~gcancel
      BY <2>2 DEF HandleResult, ResultOverflows, ResultSucceeds, ResultCancelled,
           ResultTooLateToRetry, ResultRetries, ResultRetryBudget, ResultFails, EndWith, Expired
    <3>3. \/ Continue
          \/ pc' = "followups" /\ ~gcancel
      BY <2>2 DEF HandleResult, ResultOverflows, ResultSucceeds, ResultCancelled,
           ResultTooLateToRetry, ResultRetries, ResultRetryBudget, ResultFails, Expired
    <3>4. ReadyTasks' = ReadyTasks
      BY <3>1, <3>2 DEF ReadyTasks, TypeOK
    <3>5. draining => gcancel' /\ Unstarted' = {} /\ pc' = "drain"
      BY <3>1, <3>2, <3>3 DEF QueueInv, Unstarted, Continue, TypeOK
    <3> QED
      BY <2>0, <3>3, <3>4, <3>5, QueueFrame DEF Continue
  <2> QED
    BY <2>1, <2>2
<1>21. CASE NextFollowUp
  BY <1>21, QueueFrame DEF NextFollowUp, QueueInv, ReadyTasks, Continue, Unstarted
<1>22. CASE AdmitFollowUp
  <2>1. Head(proposals) \in Task
    BY <1>22, PopType DEF AdmitFollowUp, TypeOK
  <2> QED
    BY <1>22, <1>a, <2>1, QueueFrame DEF AdmitFollowUp, QueueInv
<1>23. CASE WaitTimesOut
  BY <1>23, QueueFrame DEF WaitTimesOut, QueueInv, OverdueRunning, Running, ReadyTasks
<1>24. CASE Environment
  BY <1>24 DEF Environment, WorkerPanics, WorkerAnswers, TaskTimeoutElapses, RetryDelayElapses, ScopeNarrows,
     ClockTicks, ExternalCancel, QueueInv, ReadyTasks, Stored, Unstarted
<1>25. CASE Returned \/ UNCHANGED vars
  BY <1>25 DEF Returned, vars, QueueInv, ReadyTasks, Stored, Unstarted
<1> QED
  BY <1>1, <1>2, <1>3, <1>7, <1>8, <1>9, <1>10, <1>11, <1>12, <1>13,
     <1>14, <1>15, <1>16, <1>17, <1>18, <1>19, <1>20, <1>21, <1>22, <1>23, <1>24, <1>25
  DEF Next, Step

-----------------------------------------------------------------------------
(* Slots.                                                                  *)

\* The strengthening of SlotAccounting and KindCapsRespected.
SlotInv == OverdueRunning /\ SlotAccounting /\ KindCapsRespected

\* No slot is in use before run().
LEMMA InitSlots == Init => SlotInv
<1> SUFFICES ASSUME Init PROVE SlotInv
  OBVIOUS
<1>1. Running = {} /\ \A k : RunningOf(k) = {}
  BY DEF Init, Running, RunningOf
<1>2. Cardinality({}) = 0
  BY FS_EmptySet
<1>3. Slots \in Nat /\ \A k \in TaskKind : KindLimit[k] \in Nat
  BY SchedulerAssumption DEF SchedulerAssumption
<1>4. overdue \subseteq Running /\ active = 0 /\ 0 <= Slots
  BY <1>3 DEF Init
<1>5. ASSUME NEW k \in TaskKind PROVE Cardinality(RunningOf(k)) <= KindCap(k)
  BY <1>1, <1>2, <1>3 DEF KindCap
<1> QED
  BY <1>1, <1>2, <1>4, <1>5 DEF SlotInv, OverdueRunning, SlotAccounting, KindCapsRespected

\* Any set of tasks is finite, and fewer Running tasks take fewer slots.
LEMMA RunningFinite ==
  /\ IsFiniteSet(Running) /\ Cardinality(Running) \in Nat
  /\ \A k : IsFiniteSet(RunningOf(k)) /\ Cardinality(RunningOf(k)) \in Nat
  BY FS_CardinalityType, FS_Subset, SchedulerAssumption DEF SchedulerAssumption, Running, RunningOf

\* A step after which fewer tasks are Running, and the counter went down by as
\* many, keeps the invariant.
LEMMA SlotsFreed ==
  ASSUME TypeOK, SlotInv, NEW S \in SUBSET Running,
         Running' = Running \ S, active' = Freed(Cardinality(S)),
         overdue' \subseteq Running'
  PROVE  SlotInv'
<1>1. IsFiniteSet(S) /\ Cardinality(S) \in Nat
      /\ Cardinality(Running \ S) = Cardinality(Running) - Cardinality(S)
  <2>1. IsFiniteSet(S) /\ Cardinality(S) \in Nat
    BY RunningFinite, FS_Subset, FS_CardinalityType
  <2>2. Running \cap S = S
    OBVIOUS
  <2>3. Cardinality(Running \ S) = Cardinality(Running) - Cardinality(Running \cap S)
    BY <2>1, RunningFinite, FS_Difference
  <2> QED
    BY <2>1, <2>2, <2>3
<1>f. Cardinality(S) <= active /\ active' = active - Cardinality(S)
  BY <1>1, RunningFinite, FS_Subset DEF SlotInv, SlotAccounting, Freed
<1>2. SlotAccounting'
  BY <1>1, <1>f, RunningFinite, SchedulerAssumption
  DEF SlotInv, SlotAccounting, SchedulerAssumption
<1>3. ASSUME NEW k \in TaskKind PROVE Cardinality(RunningOf(k)') <= KindCap(k)
  <2>1. RunningOf(k)' \subseteq RunningOf(k)
    BY DEF RunningOf
  <2>2. Cardinality(RunningOf(k)') \in Nat /\ Cardinality(RunningOf(k)') <= Cardinality(RunningOf(k))
    BY <2>1, RunningFinite, FS_Subset, FS_CardinalityType
  <2>3. KindCap(k) \in Nat
    BY SchedulerAssumption DEF KindCap, SchedulerAssumption
  <2> QED
    BY <2>2, <2>3, RunningFinite DEF SlotInv, KindCapsRespected
<1> QED
  BY <1>2, <1>3 DEF SlotInv, KindCapsRespected, OverdueRunning, KindCap

\* A step that starts and ends no task keeps the invariant.
LEMMA SlotsUnchanged ==
  ASSUME TypeOK, SlotInv, Running' = Running, active' = active, overdue' \subseteq Running
  PROVE  SlotInv'
  BY DEF SlotInv, SlotAccounting, KindCapsRespected, OverdueRunning, KindCap, RunningOf

\* The popped task that Start looks at is Ready.
LEMMA HeadIsReady ==
  ASSUME TypeOK, QueueInv, queue # <<>>
  PROVE  Head(queue) \in Task /\ state[Head(queue)] = "Ready"
  BY PopType, TailElements DEF TypeOK, QueueInv, ReadyTasks, Stored

\* Every step keeps the slot counter exact and the caps respected.
LEMMA NextSlots == TypeOK /\ QueueInv /\ SlotInv /\ [Next]_vars => SlotInv'
<1> SUFFICES ASSUME TypeOK, QueueInv, SlotInv, [Next]_vars PROVE SlotInv'
  OBVIOUS
<1> USE DEF control, records, queueVars, report, threads, ledger, environment
<1>o. overdue \subseteq Running
  BY DEF SlotInv, OverdueRunning
<1>a. ASSUME NEW t \in Task, AddTask(t) PROVE SlotInv'
  <2>1. state' = state \/ (state[t] = "Absent" /\ state' = [state EXCEPT ![t] = "Pending"])
    BY <1>a DEF AddTask, AddVerdict
  <2>2. Running' = Running
    BY <2>1 DEF Running, TypeOK
  <2> QED
    BY <1>a, <1>o, <2>2, SlotsUnchanged DEF AddTask
<1>u. ASSUME UNCHANGED <<state, active, overdue>> PROVE SlotInv'
  BY <1>u, <1>o, SlotsUnchanged DEF Running
<1>1. CASE AdmitInitial \/ AdmitFollowUp
  BY <1>1, <1>a, PopType DEF AdmitInitial, AdmitFollowUp, TypeOK
<1>2. CASE StartRun \/ Top \/ Sweep \/ StartPromote \/ EndPromote \/ Defer \/ CloseWindow
           \/ EndWindow \/ NextFollowUp
  BY <1>2, <1>u DEF StartRun, Top, Sweep, StartPromote, EndPromote, Defer, CloseWindow,
                    EndWindow, NextFollowUp
<1>3. CASE Caller
  <2>1. state' = state \/ \E S : CancelPending(S)
    BY <1>3 DEF Caller, CancelTask, DrainPending, CancelAll, RequestShutdown
  <2>2. Running' = Running
    BY <2>1 DEF CancelPending, Running
  <2> QED
    BY <1>3, <1>o, <2>2, SlotsUnchanged
    DEF Caller, CancelTask, DrainPending, CancelAll, RequestShutdown
<1>4. CASE Shutdown
  <2>1. Running' = Running
    BY <1>4 DEF Shutdown, Running, Unstarted
  <2> QED
    BY <1>4, <1>o, <2>1, SlotsUnchanged DEF Shutdown
<1>5. CASE ForceStragglers
  BY <1>5, SlotsFreed DEF ForceStragglers, Running
<1>6. CASE \E t \in Task : Promote(t)
  <2> PICK t \in Task : Promote(t)
    BY <1>6
  <2>1. state[t] = "Pending"
    BY DEF Promote, QueueInv
  <2>2. state' = state \/ \E s \in {"Skipped", "Ready"} : state' = [state EXCEPT ![t] = s]
    BY DEF Promote
  <2>3. Running' = Running
    BY <2>1, <2>2 DEF Running, TypeOK
  <2> QED
    BY <1>o, <2>3, SlotsUnchanged DEF Promote
<1>7. CASE DropPopped
  <2>1. Head(queue) \in Task /\ state[Head(queue)] = "Ready"
    BY <1>7, HeadIsReady DEF DropPopped, WindowOpen
  <2>2. state' = state \/ state' = [state EXCEPT ![Head(queue)] = "Skipped"]
    BY <1>7 DEF DropPopped
  <2>3. Running' = Running
    BY <2>1, <2>2 DEF Running, TypeOK
  <2> QED
    BY <1>7, <1>o, <2>3, SlotsUnchanged DEF DropPopped
<1>8. CASE Start
  <2> DEFINE t == Head(queue)
  <2>1. t \in Task /\ state[t] = "Ready"
    BY <1>8, HeadIsReady DEF Start, WindowOpen
  <2>2. state' = [state EXCEPT ![t] = "Running"] /\ active' = active + 1 /\ active < Slots
        /\ overdue' = overdue /\ ~KindAtCap(t)
    BY <1>8 DEF Start, WindowOpen, MustDefer
  <2> HIDE DEF t
  <2>3. t \notin Running /\ Running' = Running \cup {t}
    BY <2>1, <2>2 DEF Running, TypeOK
  <2>4. Cardinality(Running') = Cardinality(Running) + 1
    BY <2>3, RunningFinite, FS_AddElement
  <2>5. SlotAccounting'
    BY <2>2, <2>4, RunningFinite, SchedulerAssumption
    DEF SlotInv, SlotAccounting, SchedulerAssumption
  <2>6. ASSUME NEW k \in TaskKind PROVE Cardinality(RunningOf(k)') <= KindCap(k)
    <3>1. CASE k # Kind[t]
      BY <2>3, <3>1 DEF RunningOf, SlotInv, KindCapsRespected
    <3>2. CASE k = Kind[t]
      <4>1. t \notin RunningOf(k) /\ RunningOf(k)' = RunningOf(k) \cup {t}
        BY <2>3, <3>2 DEF RunningOf
      <4>2. Cardinality(RunningOf(k)') = Cardinality(RunningOf(k)) + 1
        BY <4>1, RunningFinite, FS_AddElement
      <4>3. KindCap(k) \in Nat
        BY SchedulerAssumption DEF KindCap, SchedulerAssumption
      <4> QED
        BY <2>2, <3>2, <4>2, <4>3, RunningFinite DEF KindAtCap
    <3> QED
      BY <3>1, <3>2
  <2> QED
    BY <1>o, <2>2, <2>3, <2>5, <2>6 DEF SlotInv, KindCapsRespected, OverdueRunning, KindCap
<1>9. CASE Requeue
  <2>1. Head(deferred) \in Task
    BY <1>9, PopType DEF Requeue, TypeOK
  <2>2. state' = state
        \/ (state[Head(deferred)] = "Ready" /\ state' = [state EXCEPT ![Head(deferred)] = "Pending"])
    BY <1>9 DEF Requeue
  <2>3. Running' = Running
    BY <2>1, <2>2 DEF Running, TypeOK
  <2> QED
    BY <1>9, <1>o, <2>3, SlotsUnchanged DEF Requeue
<1>10. CASE Receives
  <2> PICK m \in inbox : DiscardStale(m) \/ HandleResult(m)
    BY <1>10 DEF Receives
  <2>1. CASE DiscardStale(m)
    BY <1>u, <2>1 DEF DiscardStale
  <2>2. CASE HandleResult(m)
    <3>1. Receive(m) /\ m.task \in Task /\ m.task \in Running
      BY <2>2, ReceiveType
      DEF HandleResult, ResultOverflows, ResultSucceeds, ResultCancelled,
          ResultTooLateToRetry, ResultRetries, ResultRetryBudget, ResultFails, Receive, Live,
          Running
    <3>2. PICK s \in {"Succeeded", "Failed", "Cancelled", "Pending"} :
            state' = [state EXCEPT ![m.task] = s]
      BY <2>2 DEF HandleResult, ResultOverflows, ResultSucceeds, ResultCancelled,
           ResultTooLateToRetry, ResultRetries, ResultRetryBudget, ResultFails, EndWith
    <3>3. Running' = Running \ {m.task}
      BY <3>1, <3>2 DEF Running, TypeOK
    <3>4. active' = Freed(1) /\ overdue' = overdue \ {m.task}
      BY <3>1 DEF Receive
    <3>5. Cardinality({m.task}) = 1
      BY FS_Singleton
    <3> QED
      BY <1>o, <3>1, <3>3, <3>4, <3>5, SlotsFreed
  <2> QED
    BY <2>1, <2>2
<1>11. CASE WaitTimesOut
  <2>1. CASE Expired
    BY <1>11, <1>u, <2>1 DEF WaitTimesOut
  <2>2. CASE ~Expired
    <3>1. active' = Freed(Cardinality(overdue)) /\ overdue' = {}
      BY <1>11, <2>2 DEF WaitTimesOut
    <3>2. Running' = Running \ overdue
      BY <1>11, <1>o, <2>2 DEF WaitTimesOut, Running
    <3> QED
      BY <1>o, <3>1, <3>2, SlotsFreed
  <2> QED
    BY <2>1, <2>2
<1>12. CASE Environment
  <2>1. UNCHANGED <<state, active>>
    BY <1>12 DEF Environment, WorkerPanics, WorkerAnswers, TaskTimeoutElapses,
      RetryDelayElapses, ScopeNarrows, ClockTicks, ExternalCancel
  <2>2. overdue' \subseteq Running
    BY <1>12, <1>o DEF Environment, WorkerPanics, WorkerAnswers, TaskTimeoutElapses,
      RetryDelayElapses, ScopeNarrows, ClockTicks, ExternalCancel, Running
  <2>3. Running' = Running
    BY <2>1 DEF Running
  <2> QED
    BY <2>1, <2>2, <2>3, SlotsUnchanged
<1>13. CASE Returned \/ UNCHANGED vars
  BY <1>13, <1>u DEF Returned, vars
<1> QED
  BY <1>1, <1>2, <1>3, <1>4, <1>5, <1>6, <1>7, <1>8, <1>9, <1>10, <1>11, <1>12, <1>13
  DEF Next, Step

\* The inductive invariant behind the theorems below.
SafetyInv == TypeOK /\ QueueInv /\ SlotInv

\* Every behaviour of the scheduler satisfies it.
LEMMA SafetyHolds == Spec => []SafetyInv
<1>1. Init => SafetyInv
  BY InitType, InitQueue, InitSlots DEF SafetyInv
<1>2. SafetyInv /\ [Next]_vars => SafetyInv'
  BY NextType, NextQueue, NextSlots DEF SafetyInv, SlotInv
<1> QED
  BY <1>1, <1>2, PTL DEF Spec

\* The slot counter of run() is the number of Running tasks and never exceeds
\* the effective concurrency, for every plan and every interleaving.
LEMMA SlotsExact == Spec => []SlotAccounting
<1>1. SafetyInv => SlotAccounting
  BY DEF SafetyInv, SlotInv
<1> QED
  BY <1>1, SafetyHolds, PTL

\* No scan class ever holds more slots than its cap.
LEMMA KindCapsHold == Spec => []KindCapsRespected
<1>1. SafetyInv => KindCapsRespected
  BY DEF SafetyInv, SlotInv
<1> QED
  BY <1>1, SafetyHolds, PTL

\* No task is lost or doubled between the queue and the dispatch window.
LEMMA NoTaskLost == Spec => []ReadyIffStored
<1>1. SafetyInv => ReadyIffStored
  BY QueueInvImplies DEF SafetyInv
<1> QED
  BY <1>1, SafetyHolds, PTL

\* What the dispatch window popped always fits back into the queue.
LEMMA RequeueAlwaysFits == Spec => []RequeueFits
<1>1. SafetyInv => RequeueFits
  BY QueueInvImplies DEF SafetyInv
<1> QED
  BY <1>1, SafetyHolds, PTL

\* Slots are neither leaked nor freed twice, in all or by kind, whatever late
\* answers, timeouts and panics do.
THEOREM SlotsStayWithinCaps == Spec => []SlotsWithinCaps
<1>1. SlotsWithinCaps <=> SlotAccounting /\ KindCapsRespected
  BY DEF SlotsWithinCaps
<1> QED
  BY <1>1, SlotsExact, KindCapsHold, PTL

\* What is Ready is stored exactly once, and what was popped fits back.
THEOREM QueueIsExact == Spec => []QueueExact
<1>1. QueueExact <=> ReadyIffStored /\ RequeueFits
  BY DEF QueueExact
<1> QED
  BY <1>1, NoTaskLost, RequeueAlwaysFits, PTL

\* A shutdown admits and retries nothing while stragglers answer.
THEOREM DrainIsFinal == Spec => []DrainAdmitsNothing
<1>1. SafetyInv => DrainAdmitsNothing
  BY QueueInvImplies DEF SafetyInv
<1> QED
  BY <1>1, SafetyHolds, PTL

-----------------------------------------------------------------------------
(* Every step is a move of the life cycle.                                 *)

\* What is Ready has its dependencies met, whatever happened since it was queued.
ReadyMet == \A t \in Task : state[t] = "Ready" => DependenciesMet(t)

\* The moves of a task, with what they do to its retry counter and what they
\* ask of the rest of the scheduler.
Move ==
  \/ UNCHANGED <<state, attempt, retryCount>>
  \/ \E t \in Task :
       /\ UNCHANGED retryCount
       /\ \/ Lifecycle!Admit(t) /\ ~Expired /\ ChargeTask(t)
          \/ Lifecycle!MakeReady(t) /\ t \in candidates
          \/ Lifecycle!Execute(t) /\ ~Expired /\ t \in permitted
          \/ Lifecycle!Skip(t)
  \/ \E t \in Task, o \in {"Succeeded", "Failed", "Cancelled"} :
       Lifecycle!Finish(t, o) /\ UNCHANGED retryCount
  \/ \E t \in Task :
       Lifecycle!Retry(t) /\ ~Expired /\ retryCount' = [retryCount EXCEPT ![t] = @ + 1]
  \/ \E S \in SUBSET Task :
       /\ UNCHANGED retryCount
       /\ \/ Lifecycle!Abandon(S, {"Running"}, "TimedOut")
          \/ Lifecycle!Abandon(S, {"Running"}, "Cancelled")
          \/ Lifecycle!Abandon(S, {"Pending", "Ready"}, "Cancelled")

\* add_task admits a new task after its dependencies, or changes no task.
LEMMA AddTaskMoves ==
  ASSUME NEW t \in Task, AddTask(t)
  PROVE  \/ UNCHANGED <<state, attempt, retryCount>>
         \/ Lifecycle!Admit(t) /\ UNCHANGED retryCount /\ ~Expired /\ ChargeTask(t)
  BY DEF AddTask, AddVerdict, Lifecycle!Admit, Lifecycle!Move

\* What the caller cancels before run() had not started.
LEMMA CancelMoves ==
  ASSUME NEW S \in SUBSET Task, CancelPending(S)
  PROVE  \E R \in SUBSET S :
           /\ \A t \in R : state[t] \in {"Pending", "Ready"}
           /\ state' = [t \in Task |-> IF t \in R THEN "Cancelled" ELSE state[t]]
<1> DEFINE R == {t \in S : state[t] \in {"Pending", "Ready"}}
<1>1. R \in SUBSET S /\ \A t \in R : state[t] \in {"Pending", "Ready"}
  OBVIOUS
<1>2. state' = [t \in Task |-> IF t \in R THEN "Cancelled" ELSE state[t]]
  BY DEF CancelPending
<1> HIDE DEF R
<1> QED
  BY <1>1, <1>2

\* A worker's live result ends its task, or returns it to Pending for a retry.
LEMMA ResultMoves ==
  ASSUME TypeOK, NEW m, HandleResult(m)
  PROVE  /\ Receive(m) /\ m \in inbox /\ m.task \in Task /\ state[m.task] = "Running"
         /\ attempt' = attempt
         /\ \/ \E o \in {"Succeeded", "Failed", "Cancelled"} :
                 /\ state' = [state EXCEPT ![m.task] = o]
                 /\ listed' = [listed EXCEPT ![m.task] = Append(@, o)]
                 /\ retryCount' = retryCount /\ delayed' = delayed
                 /\ UNCHANGED <<retries, moduleRetries>>
            \/ /\ state' = [state EXCEPT ![m.task] = "Pending"]
               /\ retryCount' = [retryCount EXCEPT ![m.task] = @ + 1]
               /\ delayed' = delayed \cup {m.task}
               /\ attempt[m.task] < MaxAttempts[m.task] /\ ~Expired
               /\ UNCHANGED <<listed, termination, notAdmitted>>
               /\ LedgerAdmitsRetry(m.task) /\ ChargeRetry(m.task)
  BY ReceiveType DEF HandleResult, ResultOverflows, ResultSucceeds, ResultCancelled, ResultTooLateToRetry,
     ResultRetries, ResultRetryBudget, ResultFails, Receive, Live, MayRetry, report, ledger, EndWith

\* Every step of the scheduler is a move of the life cycle.
LEMMA StepMoves ==
  ASSUME TypeOK, QueueInv, SlotInv, ReadyMet, [Next]_vars
  PROVE  Move
<1> USE DEF control, records, queueVars, report, threads, ledger, environment
<1>1. CASE AdmitInitial \/ AdmitFollowUp
  BY <1>1, AddTaskMoves, PopType DEF AdmitInitial, AdmitFollowUp, TypeOK, Move
<1>2. CASE StartRun \/ Top \/ Sweep \/ StartPromote \/ EndPromote \/ Defer \/ CloseWindow
           \/ EndWindow \/ NextFollowUp \/ Environment \/ Returned \/ UNCHANGED vars
  BY <1>2 DEF StartRun, Top, Sweep, StartPromote, EndPromote, Defer, CloseWindow,
    EndWindow, NextFollowUp, Environment, WorkerPanics, WorkerAnswers, TaskTimeoutElapses,
    RetryDelayElapses, ScopeNarrows, ClockTicks, ExternalCancel, Returned, vars, Move
<1>3. CASE Caller
  <2>1. attempt' = attempt /\ retryCount' = retryCount
    BY <1>3 DEF Caller, CancelTask, DrainPending, CancelAll, RequestShutdown
  <2>2. state' = state \/ \E S \in SUBSET Task : CancelPending(S)
    BY <1>3 DEF Caller, CancelTask, DrainPending, CancelAll, RequestShutdown
  <2>3. CASE \E S \in SUBSET Task : CancelPending(S)
    BY <2>1, <2>3, CancelMoves DEF Lifecycle!Abandon, Move
  <2> QED
    BY <2>1, <2>2, <2>3 DEF Move
<1>4. CASE Shutdown
  BY <1>4 DEF Shutdown, Unstarted, Lifecycle!Abandon, Move
<1>5. CASE ForceStragglers
  BY <1>5 DEF ForceStragglers, Running, Lifecycle!Abandon, Move
<1>6. CASE \E t \in Task : Promote(t)
  BY <1>6 DEF Promote, QueueInv, Move, DependenciesMet, Lifecycle!MakeReady, Lifecycle!Skip, Lifecycle!Move
<1>7. CASE DropPopped
  BY <1>7, HeadIsReady DEF DropPopped, WindowOpen, Move, Lifecycle!Skip, Lifecycle!Move
<1>8. CASE Start
  BY <1>8, HeadIsReady DEF Start, WindowOpen, Accepted, ReadyMet, DependenciesMet, SlotInv, SlotAccounting,
     Running, Lifecycle!Move, Lifecycle!Execute, Lifecycle!Cardinality, Cardinality, Move
<1>9. CASE Requeue
  BY <1>9, PopType, SchedulerAssumption DEF Requeue, TypeOK, SchedulerAssumption, QueueInv, QueueFull, Move
<1>10. CASE Receives
  BY <1>10, ResultMoves DEF Receives, DiscardStale, Move, Lifecycle!Finish, Lifecycle!Retry, Lifecycle!Move
<1>11. CASE WaitTimesOut
  BY <1>11 DEF WaitTimesOut, Move, SlotInv, OverdueRunning, Running, Lifecycle!Abandon
<1> QED
  BY <1>1, <1>2, <1>3, <1>4, <1>5, <1>6, <1>7, <1>8, <1>9, <1>10, <1>11 DEF Next, Step

-----------------------------------------------------------------------------
(* What a move means for one task, and what every move keeps.              *)

Unmoved(t) ==
  state'[t] = state[t] /\ attempt'[t] = attempt[t] /\ retryCount'[t] = retryCount[t]

\* What one task may go through in one step.
TaskMoves(t) ==
  \/ Unmoved(t)
  \/ /\ state[t] = "Absent" /\ state'[t] = "Pending" /\ ~Expired
     /\ acceptedTasks' = acceptedTasks + 1
     /\ attempt'[t] = attempt[t] /\ retryCount'[t] = retryCount[t]
  \/ /\ state[t] = "Pending" /\ state'[t] = "Ready" /\ DependenciesMet(t) /\ t \in candidates
     /\ attempt'[t] = attempt[t] /\ retryCount'[t] = retryCount[t]
  \/ /\ state[t] = "Ready" /\ state'[t] = "Running" /\ DependenciesMet(t)
     /\ ~Expired /\ t \in permitted
     /\ attempt'[t] = attempt[t] + 1 /\ retryCount'[t] = retryCount[t]
  \/ /\ state[t] = "Running" /\ state'[t] = "Pending" /\ ~Expired
     /\ attempt[t] < MaxAttempts[t]
     /\ attempt'[t] = attempt[t] /\ retryCount'[t] = retryCount[t] + 1
  \/ /\ state[t] \in {"Pending", "Ready", "Running"} /\ state'[t] \in Terminal
     /\ attempt'[t] = attempt[t] /\ retryCount'[t] = retryCount[t]

\* A move moves each task in one of these ways.
LEMMA MoveOfTask ==
  ASSUME TypeOK, Move, NEW t \in Task
  PROVE  TaskMoves(t)
<1> USE DEF TaskMoves, Unmoved, Lifecycle!Move
<1>0. /\ state \in [Task -> RecordState] /\ attempt \in [Task -> Nat]
      /\ retryCount \in [Task -> Nat]
  BY DEF TypeOK
<1>1. CASE UNCHANGED <<state, attempt, retryCount>>
  BY <1>1
<1>2. ASSUME NEW u \in Task, UNCHANGED retryCount, Lifecycle!Admit(u), ~Expired, ChargeTask(u)
      PROVE TaskMoves(t)
  BY <1>0, <1>2 DEF Lifecycle!Admit, ChargeTask
<1>3. ASSUME NEW u \in Task, UNCHANGED retryCount, Lifecycle!MakeReady(u), u \in candidates
      PROVE TaskMoves(t)
  BY <1>0, <1>3 DEF Lifecycle!MakeReady, DependenciesMet
<1>4. ASSUME NEW u \in Task, UNCHANGED retryCount, Lifecycle!Execute(u), ~Expired, u \in permitted
      PROVE TaskMoves(t)
  BY <1>0, <1>4 DEF Lifecycle!Execute, DependenciesMet
<1>5. ASSUME NEW u \in Task, UNCHANGED retryCount, Lifecycle!Skip(u)
      PROVE TaskMoves(t)
  BY <1>0, <1>5 DEF Lifecycle!Skip, Terminal
<1>6. ASSUME NEW u \in Task, NEW o \in {"Succeeded", "Failed", "Cancelled"},
             Lifecycle!Finish(u, o), UNCHANGED retryCount
      PROVE TaskMoves(t)
  BY <1>0, <1>6 DEF Lifecycle!Finish, Terminal
<1>7. ASSUME NEW u \in Task, Lifecycle!Retry(u), ~Expired,
             retryCount' = [retryCount EXCEPT ![u] = @ + 1]
      PROVE TaskMoves(t)
  BY <1>0, <1>7 DEF Lifecycle!Retry
<1>8. ASSUME NEW S \in SUBSET Task, UNCHANGED retryCount,
             \/ Lifecycle!Abandon(S, {"Running"}, "TimedOut")
             \/ Lifecycle!Abandon(S, {"Running"}, "Cancelled")
             \/ Lifecycle!Abandon(S, {"Pending", "Ready"}, "Cancelled")
      PROVE TaskMoves(t)
  BY <1>0, <1>8 DEF Lifecycle!Abandon, Terminal
<1> QED
  BY <1>1, <1>2, <1>3, <1>4, <1>5, <1>6, <1>7, <1>8 DEF Move

\* A task that runs at all runs once.
Allowed(t) == IF MaxAttempts[t] > 1 THEN MaxAttempts[t] ELSE 1

\* The attempts of a task by its state: one for every retry, and one more
\* from the moment the last of them has started.
AttemptsByState ==
  \A t \in Task :
    /\ state[t] = "Absent" => attempt[t] = 0 /\ retryCount[t] = 0
    /\ state[t] \in {"Pending", "Ready"} => attempt[t] = retryCount[t] /\ attempt[t] < Allowed(t)
    /\ state[t] = "Running" => attempt[t] = retryCount[t] + 1
    /\ attempt[t] <= Allowed(t)
    /\ attempt[t] \in {retryCount[t], retryCount[t] + 1}

MoveInv == ReadyMet /\ DependenciesFirst /\ AttemptsByState

\* Nothing has moved at first.
LEMMA InitMoves == Init => MoveInv
  BY SchedulerAssumption
  DEF Init, MoveInv, ReadyMet, DependenciesFirst, AttemptsByState, Allowed, SchedulerAssumption

\* Success is final, so dependencies that were met stay met.
LEMMA MetStaysMet ==
  ASSUME \A t \in Task : TaskMoves(t), NEW t \in Task, DependenciesMet(t)
  PROVE  DependenciesMet(t)'
  BY SchedulerAssumption DEF SchedulerAssumption, DependenciesMet, TaskMoves, Unmoved

\* Every move keeps them all.
LEMMA NextMoves ==
  ASSUME TypeOK, TypeOK', MoveInv, \A t \in Task : TaskMoves(t)
  PROVE  MoveInv'
<1>1. ASSUME NEW t \in Task PROVE state'[t] = "Ready" => DependenciesMet(t)'
  BY MetStaysMet DEF TaskMoves, Unmoved, Terminal, MoveInv, ReadyMet
<1>2. ASSUME NEW t \in Task PROVE attempt'[t] > 0 => DependenciesMet(t)'
  BY MetStaysMet DEF TypeOK, TaskMoves, Unmoved, MoveInv, DependenciesFirst, DependenciesMet
<1>3. AttemptsByState'
  <2> SUFFICES ASSUME NEW t \in Task
      PROVE /\ state'[t] = "Absent" => attempt'[t] = 0 /\ retryCount'[t] = 0
            /\ state'[t] \in {"Pending", "Ready"} =>
                 attempt'[t] = retryCount'[t] /\ attempt'[t] < Allowed(t)
            /\ state'[t] = "Running" => attempt'[t] = retryCount'[t] + 1
            /\ attempt'[t] <= Allowed(t)
            /\ attempt'[t] \in {retryCount'[t], retryCount'[t] + 1}
    BY DEF AttemptsByState, Allowed
  <2>1. /\ TaskMoves(t) /\ attempt[t] \in Nat /\ retryCount[t] \in Nat
        /\ MaxAttempts[t] \in Nat
    BY SchedulerAssumption DEF TypeOK, SchedulerAssumption
  <2>2. Allowed(t) \in Nat /\ MaxAttempts[t] <= Allowed(t) /\ 0 < Allowed(t)
    BY <2>1 DEF Allowed
  <2>3. /\ state[t] = "Absent" => attempt[t] = 0 /\ retryCount[t] = 0
        /\ state[t] \in {"Pending", "Ready"} =>
             attempt[t] = retryCount[t] /\ attempt[t] < Allowed(t)
        /\ state[t] = "Running" => attempt[t] = retryCount[t] + 1
        /\ attempt[t] <= Allowed(t)
        /\ attempt[t] \in {retryCount[t], retryCount[t] + 1}
    BY DEF MoveInv, AttemptsByState
  <2> QED
    BY <2>1, <2>2, <2>3 DEF TaskMoves, Unmoved, Terminal
<1> QED
  BY <1>1, <1>2, <1>3 DEF MoveInv, ReadyMet, DependenciesFirst, DependenciesMet

\* The invariants of the scheduler's tables, and what every move keeps.
TaskInv == SafetyInv /\ MoveInv

\* In a reachable state, every step moves each task as the life cycle allows.
LEMMA StepMovesTasks ==
  ASSUME TaskInv, [Next]_vars
  PROVE  Move /\ \A t \in Task : TaskMoves(t)
  BY StepMoves, MoveOfTask DEF TaskInv, SafetyInv, MoveInv

\* The invariant of the tasks holds,
LEMMA TasksHold == Spec => []TaskInv
<1>1. Init => TaskInv
  BY InitType, InitQueue, InitSlots, InitMoves DEF TaskInv, SafetyInv
<1>2. TaskInv /\ [Next]_vars => TaskInv'
  BY NextMoves, NextQueue, NextSlots, NextType, StepMovesTasks DEF TaskInv, SafetyInv, SlotInv
<1> QED
  BY <1>1, <1>2, PTL DEF Spec

\* The scheduler implements the life cycle it promises: every step is a step
\* of the life cycle or leaves the tasks alone.
THEOREM SchedulerImplementsLifecycle == Spec => ImplementsLifecycle
<1>1. Init => Lifecycle!Init
  BY DEF Init, Lifecycle!Init
<1>2. TaskInv /\ [Next]_vars => [Lifecycle!Next]_(Lifecycle!lifecycle)
  BY StepMovesTasks DEF Lifecycle!lifecycle, Move, Lifecycle!Next
<1> QED
  BY <1>1, <1>2, TasksHold, PTL DEF Spec, ImplementsLifecycle, Lifecycle!Spec

-----------------------------------------------------------------------------
(* Attempts, their answers and the delays of the retries.                  *)

\* A step that starts nothing, retries nothing and leaves the channel alone
\* keeps every answer the one of its task's attempt.
LEMMA AnswersFrame ==
  ASSUME TypeOK, OneAnswerPerAttempt, \A t \in Task : TaskMoves(t),
         workers' \cup inbox' \subseteq workers \cup inbox,
         workers' \subseteq workers, inbox' \subseteq inbox,
         UNCHANGED <<attempt, retryCount>>
  PROVE  OneAnswerPerAttempt'
<1>1. ASSUME NEW w \in workers \cup inbox
      PROVE  w.attempt = attempt'[w.task] /\ state'[w.task] \notin {"Absent", "Pending", "Ready"}
  <2>1. w.task \in Task
    BY DEF TypeOK, Worker, Message
  <2>2. w.attempt = attempt[w.task] /\ state[w.task] \notin {"Absent", "Pending", "Ready"}
    BY DEF OneAnswerPerAttempt
  <2>3. TaskMoves(w.task) /\ retryCount[w.task] \in Nat
    BY <2>1 DEF TypeOK
  <2> QED
    BY <2>2, <2>3 DEF TaskMoves, Unmoved, Terminal
<1> QED
  BY <1>1 DEF OneAnswerPerAttempt

\* An answer is sent, received, or lost; only a start adds one.
LEMMA NextAnswers ==
  ASSUME TaskInv, TypeOK', OneAnswerPerAttempt, [Next]_vars
  PROVE  OneAnswerPerAttempt'
<1> USE DEF control, records, queueVars, report, threads, ledger, environment
<1>m. TypeOK /\ \A t \in Task : TaskMoves(t)
  BY StepMovesTasks DEF TaskInv, SafetyInv
<1>1. CASE Start
  <2> DEFINE t == Head(queue)
             w == [task |-> t, attempt |-> attempt[t] + 1]
  <2>1. t \in Task /\ state[t] = "Ready"
    BY <1>1, HeadIsReady DEF Start, WindowOpen, TaskInv, SafetyInv
  <2>2. /\ state' = [state EXCEPT ![t] = "Running"]
        /\ attempt' = [attempt EXCEPT ![t] = @ + 1]
        /\ workers' = workers \cup {w} /\ inbox' = inbox
    BY <1>1 DEF Start
  <2>3. /\ attempt \in [Task -> Nat] /\ state \in [Task -> RecordState]
        /\ \A a \in workers \cup inbox : a.task \in Task
    BY <1>m DEF TypeOK, Worker, Message
  <2>4. w.task = t /\ w.attempt = attempt[t] + 1
    OBVIOUS
  <2> HIDE DEF t, w
  <2>5. \A a \in workers \cup inbox : a.task # t
    BY <2>1 DEF OneAnswerPerAttempt
  <2>6. w.attempt = attempt'[w.task] /\ state'[w.task] = "Running"
    BY <2>1, <2>2, <2>3, <2>4
  <2>7. ASSUME NEW a \in workers \cup inbox
        PROVE  a.attempt = attempt'[a.task] /\ state'[a.task] \notin {"Absent", "Pending", "Ready"}
    BY <2>2, <2>3, <2>5 DEF OneAnswerPerAttempt
  <2> QED
    BY <2>2, <2>4, <2>5, <2>6, <2>7 DEF OneAnswerPerAttempt
<1>2. CASE \E w \in workers, o \in Outcome : WorkerAnswers(w, o)
  BY <1>2 DEF WorkerAnswers, OneAnswerPerAttempt
<1>3. CASE \E m \in inbox : HandleResult(m)
  <2> PICK m \in inbox : HandleResult(m)
    BY <1>3
  <2>1. m.task \in Task /\ Receive(m) /\ attempt' = attempt
    BY <1>m, ResultMoves
  <2>2. workers' = workers /\ inbox' = inbox \ {m}
    BY <2>1 DEF Receive
  <2>3. \A u \in Task : u # m.task => state'[u] = state[u]
    <3>1. \E s : state' = [state EXCEPT ![m.task] = s]
      BY <1>m, ResultMoves
    <3> QED
      BY <1>m, <3>1 DEF TypeOK
  <2>4. \A a \in workers' \cup inbox' : a.task # m.task /\ a.task \in Task
    BY <1>m, <2>2 DEF OneAnswerPerAttempt, TypeOK, Worker, Message
  <2> QED
    BY <2>1, <2>2, <2>3, <2>4 DEF OneAnswerPerAttempt
<1>4. CASE ~Start /\ (~\E w \in workers, o \in Outcome : WorkerAnswers(w, o))
           /\ ~\E m \in inbox : HandleResult(m)
  <2>1. workers' \subseteq workers /\ inbox' \subseteq inbox
    BY <1>4 DEF Next, Step, AdmitInitial, AdmitFollowUp, AddTask, StartRun, Top, Shutdown,
      ForceStragglers, Sweep, StartPromote, Promote, EndPromote, Defer, DropPopped,
      CloseWindow, Requeue, EndWindow, Receives, DiscardStale, NextFollowUp, WaitTimesOut,
      Caller, CancelTask, DrainPending, CancelAll, RequestShutdown, Environment,
      WorkerPanics, TaskTimeoutElapses, RetryDelayElapses, ScopeNarrows, ClockTicks,
      ExternalCancel, Returned, vars
  <2>2. UNCHANGED <<attempt, retryCount>>
    BY <1>4 DEF Next, Step, AdmitInitial, AdmitFollowUp, AddTask, StartRun, Top, Shutdown,
      ForceStragglers, Sweep, StartPromote, Promote, EndPromote, Defer, DropPopped,
      CloseWindow, Requeue, EndWindow, Receives, DiscardStale, NextFollowUp, WaitTimesOut,
      Caller, CancelTask, DrainPending, CancelAll, RequestShutdown, Environment,
      WorkerPanics, TaskTimeoutElapses, RetryDelayElapses, ScopeNarrows, ClockTicks,
      ExternalCancel, Returned, vars
  <2> QED
    BY <1>m, <2>1, <2>2, AnswersFrame
<1> QED
  BY <1>1, <1>2, <1>3, <1>4

\* What is Ready, or may become Ready next, has no delay left to wait for.
NoDelayedReady ==
  /\ \A t \in Task : state[t] = "Ready" => t \notin delayed
  /\ candidates \cap delayed = {}

\* What a step may do to the candidates and the delays.
LEMMA DelaySteps ==
  ASSUME TypeOK, [Next]_vars
  PROVE  \/ candidates' \subseteq candidates /\ delayed' \subseteq delayed
         \/ candidates' \cap delayed = {} /\ delayed' = delayed /\ state' = state
         \/ \E t \in Task : /\ candidates' = candidates /\ delayed' = delayed \cup {t}
                            /\ state[t] = "Running" /\ state'[t] = "Pending"
<1> USE DEF control, records, queueVars, report, threads, ledger, environment
<1>1. CASE StartPromote
  BY <1>1 DEF StartPromote
<1>2. CASE \E m \in inbox : HandleResult(m)
  <2> PICK m \in inbox : HandleResult(m)
    BY <1>2
  <2>1. m.task \in Task /\ state[m.task] = "Running" /\ Receive(m)
    BY ResultMoves
  <2>2. \/ delayed' = delayed
        \/ delayed' = delayed \cup {m.task} /\ state'[m.task] = "Pending"
    BY ResultMoves DEF TypeOK
  <2>3. candidates' = candidates
    BY <2>1 DEF Receive
  <2> QED
    BY <2>1, <2>2, <2>3
<1>3. CASE ~StartPromote /\ ~\E m \in inbox : HandleResult(m)
  <2>1. candidates' \subseteq candidates
    BY <1>3 DEF Next, Step, AdmitInitial, AdmitFollowUp, AddTask, StartRun, Top, Shutdown,
      ForceStragglers, Sweep, Promote, EndPromote, Defer, DropPopped, Start,
      CloseWindow, Requeue, EndWindow, Receives, DiscardStale, NextFollowUp, WaitTimesOut,
      Caller, CancelTask, DrainPending, CancelAll, RequestShutdown, Environment,
      WorkerPanics, WorkerAnswers, TaskTimeoutElapses, RetryDelayElapses, ScopeNarrows,
      ClockTicks, ExternalCancel, Returned, vars
  <2>2. delayed' \subseteq delayed
    BY <1>3 DEF Next, Step, AdmitInitial, AdmitFollowUp, AddTask, StartRun, Top, Shutdown,
      ForceStragglers, Sweep, Promote, EndPromote, Defer, DropPopped, Start,
      CloseWindow, Requeue, EndWindow, Receives, DiscardStale, NextFollowUp, WaitTimesOut,
      Caller, CancelTask, DrainPending, CancelAll, RequestShutdown, Environment,
      WorkerPanics, WorkerAnswers, TaskTimeoutElapses, RetryDelayElapses, ScopeNarrows,
      ClockTicks, ExternalCancel, Returned, vars
  <2> QED
    BY <2>1, <2>2
<1> QED
  BY <1>1, <1>2, <1>3

\* A delay starts when its task goes back to Pending, which is no candidate.
LEMMA NextDelays ==
  ASSUME TaskInv, NoDelayedReady, [Next]_vars
  PROVE  NoDelayedReady'
  BY DelaySteps, StepMovesTasks DEF TaskInv, SafetyInv, QueueInv, NoDelayedReady, TaskMoves, Unmoved, Terminal

AttemptInv == OneAnswerPerAttempt /\ NoDelayedReady

\* and so does that of the attempts.
LEMMA AttemptsHold == Spec => []AttemptInv
<1>1. Init => AttemptInv
  BY DEF Init, AttemptInv, OneAnswerPerAttempt, NoDelayedReady
<1>2. TaskInv /\ TaskInv' /\ AttemptInv /\ [Next]_vars => AttemptInv'
  BY NextAnswers, NextDelays DEF AttemptInv, TaskInv, SafetyInv
<1> QED
  BY <1>1, <1>2, TasksHold, PTL DEF Spec

\* A task starts at most max_attempts times and once more than it was charged
\* a retry, no late answer passes for a later attempt's, and no task waiting
\* for its retry delay sits in the queue.
THEOREM AttemptsAreExact == Spec => []AttemptsExact
<1>1. TaskInv /\ AttemptInv => AttemptsExact
  BY DEF TaskInv, MoveInv, AttemptsByState, Allowed, AttemptsBounded, SafetyInv, QueueInv, Stored,
     QueueHoldsNoDelayed, ReadyTasks, AttemptInv, NoDelayedReady, AttemptsExact
<1> QED
  BY <1>1, TasksHold, AttemptsHold, PTL

-----------------------------------------------------------------------------
(* The ledger.                                                             *)

LedgerInv ==
  /\ LedgerExact
  /\ \A S \in SUBSET Task : IsFiniteSet(RetriesOf(S))

\* A task that is admitted is charged once, a retry is charged once, to the
\* run and to the module of the task; nothing else is charged.
LEMMA LedgerSteps ==
  ASSUME TaskInv, [Next]_vars
  PROVE  \/ /\ UNCHANGED <<acceptedTasks, moduleTasks, retries, moduleRetries>>
            /\ retryCount' = retryCount /\ Admitted' = Admitted
         \/ \E t \in Task :
              /\ t \notin Admitted /\ Admitted' = Admitted \cup {t}
              /\ LedgerAdmitsTask(t) /\ ChargeTask(t) /\ retryCount' = retryCount
         \/ \E t \in Task :
              /\ Admitted' = Admitted /\ LedgerAdmitsRetry(t) /\ ChargeRetry(t)
              /\ retryCount' = [retryCount EXCEPT ![t] = @ + 1]
<1> USE DEF control, records, queueVars, report, threads, ledger, environment
<1>m. TypeOK /\ \A t \in Task : TaskMoves(t)
  BY StepMovesTasks DEF TaskInv, SafetyInv
<1>1. CASE AdmitInitial \/ AdmitFollowUp
  <2> DEFINE t == Head(proposals)
  <2>1. t \in Task /\ AddTask(t)
    BY <1>1, <1>m, PopType DEF AdmitInitial, AdmitFollowUp, TypeOK
  <2> HIDE DEF t
  <2>2. retryCount' = retryCount
    BY <2>1 DEF AddTask
  <2>3. CASE AddVerdict(t) = "admitted"
    <3>1. /\ state' = [state EXCEPT ![t] = "Pending"] /\ ChargeTask(t)
          /\ state[t] = "Absent" /\ LedgerAdmitsTask(t)
      BY <2>1, <2>3 DEF AddTask, AddVerdict
    <3>2. t \notin Admitted /\ Admitted' = Admitted \cup {t}
      BY <1>m, <2>1, <3>1 DEF Admitted, TypeOK
    <3> QED
      BY <2>1, <2>2, <3>1, <3>2
  <2>4. CASE AddVerdict(t) # "admitted"
    BY <2>1, <2>2, <2>4 DEF AddTask, Admitted
  <2> QED
    BY <2>3, <2>4
<1>2. CASE \E m \in inbox : HandleResult(m)
  <2> PICK m \in inbox : HandleResult(m)
    BY <1>2
  <2>1. m.task \in Task /\ state[m.task] = "Running"
    BY <1>m, ResultMoves
  <2>2. \E s \in Terminal \cup {"Pending"} : state' = [state EXCEPT ![m.task] = s]
    BY <1>m, ResultMoves DEF Terminal
  <2>3. Admitted' = Admitted
    BY <1>m, <2>1, <2>2 DEF Admitted, TypeOK, Terminal
  <2>4. CASE ResultRetries(m)
    BY <2>1, <2>3, <2>4 DEF ResultRetries
  <2>5. CASE ~ResultRetries(m)
    BY <2>3, <2>5 DEF HandleResult, ResultOverflows, ResultSucceeds, ResultCancelled,
      ResultTooLateToRetry, ResultRetryBudget, ResultFails, EndWith
  <2> QED
    BY <2>4, <2>5
<1>3. CASE ~AdmitInitial /\ ~AdmitFollowUp /\ ~\E m \in inbox : HandleResult(m)
  <2>1. UNCHANGED <<acceptedTasks, moduleTasks, retries, moduleRetries, retryCount>>
    BY <1>3 DEF Next, Step, StartRun, Top, Shutdown,
      ForceStragglers, Sweep, StartPromote, Promote, EndPromote, Defer, DropPopped, Start,
      CloseWindow, Requeue, EndWindow, Receives, DiscardStale, NextFollowUp, WaitTimesOut,
      Caller, CancelTask, DrainPending, CancelAll, RequestShutdown, Environment,
      WorkerPanics, WorkerAnswers, TaskTimeoutElapses, RetryDelayElapses, ScopeNarrows,
      ClockTicks, ExternalCancel, Returned, vars
  <2>2. ASSUME NEW t \in Task PROVE state[t] = "Absent" <=> state'[t] = "Absent"
    <3>1. acceptedTasks \in Nat /\ TaskMoves(t)
      BY <1>m DEF TypeOK
    <3> QED
      BY <2>1, <3>1 DEF TaskMoves, Unmoved, Terminal
  <2> QED
    BY <2>1, <2>2 DEF Admitted
<1> QED
  BY <1>1, <1>2, <1>3

\* The evidence kept never exceeds its limit.
LEMMA EvidenceSteps ==
  ASSUME TypeOK, evidenceBytes <= MaxEvidence, [Next]_vars
  PROVE  evidenceBytes' <= MaxEvidence
<1> USE DEF control, records, queueVars, report, threads, ledger, environment
<1>1. CASE \E m \in inbox : HandleResult(m)
  BY <1>1 DEF HandleResult, ResultOverflows, ResultSucceeds, ResultCancelled,
    ResultTooLateToRetry, ResultRetries, ResultRetryBudget, ResultFails, ChargeRetry
<1>2. CASE ~\E m \in inbox : HandleResult(m)
  <2>1. evidenceBytes' = evidenceBytes
    BY <1>2 DEF Next, Step, AdmitInitial, AdmitFollowUp, AddTask, ChargeTask, StartRun, Top,
      Shutdown, ForceStragglers, Sweep, StartPromote, Promote, EndPromote, Defer, DropPopped,
      Start, CloseWindow, Requeue, EndWindow, Receives, DiscardStale, NextFollowUp,
      WaitTimesOut, Caller, CancelTask, DrainPending, CancelAll, RequestShutdown,
      Environment, WorkerPanics, WorkerAnswers, TaskTimeoutElapses, RetryDelayElapses,
      ScopeNarrows, ClockTicks, ExternalCancel, Returned, vars
  <2> QED
    BY <2>1
<1> QED
  BY <1>1, <1>2

\* One more retry of t is one more pair for every set that holds t.
LEMMA RetriesGrow ==
  ASSUME retryCount \in [Task -> Nat], NEW t \in Task, NEW S \in SUBSET Task,
         retryCount' = [retryCount EXCEPT ![t] = @ + 1], IsFiniteSet(RetriesOf(S))
  PROVE  /\ IsFiniteSet(RetriesOf(S)') /\ Cardinality(RetriesOf(S)) \in Nat
         /\ Cardinality(RetriesOf(S)') =
              Cardinality(RetriesOf(S)) + (IF t \in S THEN 1 ELSE 0)
<1> DEFINE n == retryCount[t] + 1
<1>1. n \in Nat /\ \A u \in Task : retryCount'[u] = IF u = t THEN n ELSE retryCount[u]
  OBVIOUS
<1>2. 1 .. n = (1 .. retryCount[t]) \cup {n} /\ n \notin 1 .. retryCount[t]
  BY <1>1
<1>3. CASE t \in S
  <2>1. <<t, n>> \notin RetriesOf(S)
    BY <1>2 DEF RetriesOf
  <2>2. RetriesOf(S)' = RetriesOf(S) \cup {<<t, n>>}
    BY <1>1, <1>2, <1>3 DEF RetriesOf
  <2> QED
    BY <1>3, <2>1, <2>2, FS_AddElement, FS_CardinalityType
<1>4. CASE t \notin S
  <2>1. RetriesOf(S)' = RetriesOf(S)
    BY <1>1, <1>4 DEF RetriesOf
  <2> QED
    BY <1>4, <2>1, FS_CardinalityType
<1> QED
  BY <1>3, <1>4

\* What is charged to a module is what its tasks were admitted and retried.
LEMMA NextLedger ==
  ASSUME TaskInv, TypeOK', LedgerInv, [Next]_vars
  PROVE  LedgerInv'
<1>t. TypeOK
  BY DEF TaskInv, SafetyInv
<1>f. \A S \in SUBSET Task : IsFiniteSet(S) /\ Cardinality(S) \in Nat
  BY SchedulerAssumption, FS_Subset, FS_CardinalityType DEF SchedulerAssumption
<1>a. /\ Admitted \in SUBSET Task /\ \A m \in ModuleName : TasksOf(m) \in SUBSET Task
      /\ \A m \in ModuleName : Admitted \cap TasksOf(m) \in SUBSET Task
  BY DEF Admitted, TasksOf
<1>c. /\ MaxTasks \in Nat /\ MaxRetries \in Nat /\ MaxEvidence \in Nat
      /\ ModuleMaxTasks \in [ModuleName -> Nat] /\ ModuleMaxRetries \in [ModuleName -> Nat]
      /\ \A t \in Task : Module[t] \in ModuleName
  BY SchedulerAssumption DEF SchedulerAssumption
<1>e. evidenceBytes' <= MaxEvidence
  BY <1>t, EvidenceSteps DEF LedgerInv, LedgerExact
<1>s. \A m \in ModuleName : TasksOf(m)' = TasksOf(m)
  BY DEF TasksOf
<1>1. CASE /\ UNCHANGED <<acceptedTasks, moduleTasks, retries, moduleRetries>>
           /\ retryCount' = retryCount /\ Admitted' = Admitted
  <2>1. \A S \in SUBSET Task : RetriesOf(S)' = RetriesOf(S)
    BY <1>1 DEF RetriesOf
  <2> QED
    BY <1>1, <1>a, <1>e, <1>s, <2>1 DEF LedgerInv, LedgerExact
<1>2. ASSUME NEW t \in Task, t \notin Admitted, Admitted' = Admitted \cup {t},
             LedgerAdmitsTask(t), ChargeTask(t), retryCount' = retryCount
      PROVE  LedgerInv'
  <2>1. \A S \in SUBSET Task : RetriesOf(S)' = RetriesOf(S)
    BY <1>2 DEF RetriesOf
  <2>2. /\ acceptedTasks' = acceptedTasks + 1 /\ acceptedTasks' <= MaxTasks
        /\ retries' = retries /\ moduleRetries' = moduleRetries
    BY <1>2, <1>t, <1>c DEF ChargeTask, LedgerAdmitsTask, TypeOK
  <2>3. acceptedTasks' = Cardinality(Admitted')
    BY <1>2, <1>a, <1>f, <2>2, FS_AddElement DEF LedgerInv, LedgerExact
  <2>4. ASSUME NEW m \in ModuleName
        PROVE  /\ moduleTasks'[m] = Cardinality(Admitted' \cap TasksOf(m))
               /\ moduleTasks'[m] <= ModuleMaxTasks[m]
    <3>1. moduleTasks[m] = Cardinality(Admitted \cap TasksOf(m)) /\ moduleTasks[m] <= ModuleMaxTasks[m]
      BY DEF LedgerInv, LedgerExact
    <3>2. moduleTasks' = [moduleTasks EXCEPT ![Module[t]] = @ + 1]
      BY <1>2 DEF ChargeTask
    <3>3. moduleTasks[Module[t]] < ModuleMaxTasks[Module[t]]
      BY <1>2 DEF LedgerAdmitsTask
    <3>4. CASE m = Module[t]
      <4>1. Admitted' \cap TasksOf(m) = (Admitted \cap TasksOf(m)) \cup {t}
        BY <1>2, <3>4 DEF TasksOf
      <4>2. Cardinality(Admitted' \cap TasksOf(m)) = Cardinality(Admitted \cap TasksOf(m)) + 1
        BY <1>2, <1>a, <1>f, <4>1, FS_AddElement
      <4>3. moduleTasks'[m] = moduleTasks[m] + 1 /\ moduleTasks[m] \in Nat
        BY <1>t, <3>2, <3>4 DEF TypeOK
      <4> QED
        BY <1>c, <3>1, <3>3, <3>4, <4>2, <4>3
    <3>5. CASE m # Module[t]
      <4>1. Admitted' \cap TasksOf(m) = Admitted \cap TasksOf(m)
        BY <1>2, <3>5 DEF TasksOf
      <4>2. moduleTasks'[m] = moduleTasks[m]
        BY <1>t, <3>2, <3>5 DEF TypeOK
      <4> QED
        BY <3>1, <4>1, <4>2
    <3> QED
      BY <3>4, <3>5
  <2> QED
    BY <1>a, <1>e, <1>s, <2>1, <2>2, <2>3, <2>4 DEF LedgerInv, LedgerExact
<1>3. ASSUME NEW t \in Task, Admitted' = Admitted, LedgerAdmitsRetry(t), ChargeRetry(t),
             retryCount' = [retryCount EXCEPT ![t] = @ + 1]
      PROVE  LedgerInv'
  <2>1. ASSUME NEW S \in SUBSET Task
        PROVE  /\ IsFiniteSet(RetriesOf(S)')
               /\ Cardinality(RetriesOf(S)') =
                    Cardinality(RetriesOf(S)) + (IF t \in S THEN 1 ELSE 0)
    BY <1>3, <1>t, RetriesGrow DEF TypeOK, LedgerInv
  <2>2. /\ retries' = retries + 1 /\ retries' <= MaxRetries
        /\ acceptedTasks' = acceptedTasks /\ moduleTasks' = moduleTasks
    BY <1>3, <1>t, <1>c DEF ChargeRetry, LedgerAdmitsRetry, TypeOK
  <2>3. retries' = Cardinality(RetriesOf(Task)')
    BY <2>1, <2>2 DEF LedgerInv, LedgerExact
  <2>4. ASSUME NEW m \in ModuleName
        PROVE  /\ moduleRetries'[m] = Cardinality(RetriesOf(TasksOf(m))')
               /\ moduleRetries'[m] <= ModuleMaxRetries[m]
    <3>1. /\ moduleRetries[m] = Cardinality(RetriesOf(TasksOf(m)))
          /\ moduleRetries[m] <= ModuleMaxRetries[m]
      BY DEF LedgerInv, LedgerExact
    <3>2. moduleRetries' = [moduleRetries EXCEPT ![Module[t]] = @ + 1]
      BY <1>3 DEF ChargeRetry
    <3>3. moduleRetries[Module[t]] < ModuleMaxRetries[Module[t]]
      BY <1>3 DEF LedgerAdmitsRetry
    <3>4. t \in TasksOf(m) <=> m = Module[t]
      BY DEF TasksOf
    <3>5. moduleRetries'[m] = moduleRetries[m] + (IF m = Module[t] THEN 1 ELSE 0)
          /\ moduleRetries[m] \in Nat
      <4>1. moduleRetries \in [ModuleName -> Nat]
        BY <1>t DEF TypeOK
      <4>2. m = Module[t] => moduleRetries'[m] = moduleRetries[m] + 1
        BY <3>2, <4>1
      <4>3. m # Module[t] => moduleRetries'[m] = moduleRetries[m]
        BY <3>2, <4>1
      <4> QED
        BY <4>1, <4>2, <4>3
    <3>6. Cardinality(RetriesOf(TasksOf(m))') =
            Cardinality(RetriesOf(TasksOf(m))) + (IF t \in TasksOf(m) THEN 1 ELSE 0)
      BY <1>a, <2>1
    <3> QED
      BY <1>c, <3>1, <3>3, <3>4, <3>5, <3>6
  <2> QED
    BY <1>3, <1>a, <1>e, <1>s, <2>1, <2>2, <2>3, <2>4 DEF LedgerInv, LedgerExact
<1> QED
  BY <1>1, <1>2, <1>3, LedgerSteps

\* Nothing is admitted or charged before the first task.
LEMMA InitLedger == Init => LedgerInv
<1> SUFFICES ASSUME Init PROVE LedgerInv
  OBVIOUS
<1>1. Admitted = {} /\ \A m \in ModuleName : Admitted \cap TasksOf(m) = {}
  BY DEF Init, Admitted
<1>2. ASSUME NEW S \in SUBSET Task PROVE RetriesOf(S) = {}
  BY DEF Init, RetriesOf
<1>3. IsFiniteSet({}) /\ Cardinality({}) = 0
  BY FS_EmptySet
<1>4. \A m \in ModuleName : RetriesOf(TasksOf(m)) = {}
  BY <1>2 DEF TasksOf
<1>5. /\ 0 <= MaxTasks /\ 0 <= MaxRetries /\ 0 <= MaxEvidence
      /\ \A m \in ModuleName : 0 <= ModuleMaxTasks[m] /\ 0 <= ModuleMaxRetries[m]
  BY SchedulerAssumption DEF SchedulerAssumption
<1>6. LedgerExact
  BY <1>1, <1>2, <1>3, <1>4, <1>5 DEF Init, LedgerExact
<1> QED
  BY <1>2, <1>3, <1>6 DEF LedgerInv

\* The ledger charges exactly what was admitted and retried, in all and per
\* module, and within every limit: a refused proposal costs nothing.
THEOREM LedgerIsExact == Spec => []LedgerExact
<1>1. TaskInv /\ TaskInv' /\ LedgerInv /\ [Next]_vars => LedgerInv'
  BY NextLedger DEF TaskInv, SafetyInv
<1>2. LedgerInv => LedgerExact
  BY DEF LedgerInv
<1> QED
  BY <1>1, <1>2, InitLedger, TasksHold, PTL DEF Spec

-----------------------------------------------------------------------------
(* What may not start any more, does not.                                  *)

\* A task starts only while the scope guard permits it, and after the run has
\* expired nothing starts, is admitted or is retried.
THEOREM NothingStartsLate == Spec => StartsAllowed
<1>1. TaskInv /\ [Next]_vars =>
        [\A t \in Task : state[t] # "Running" /\ state'[t] = "Running" => t \in permitted]_vars
  BY StepMovesTasks DEF TaskMoves, Unmoved, Terminal
<1>2. TaskInv /\ [Next]_vars =>
        [Expired /\ pc # "admit" =>
           /\ Admitted' = Admitted
           /\ \A t \in Task : attempt'[t] = attempt[t] /\ retryCount'[t] = retryCount[t]]_vars
  BY StepMovesTasks DEF TaskMoves, Unmoved, Terminal, Admitted
<1> QED
  BY <1>1, <1>2, TasksHold, PTL DEF Spec, StartsAllowed, StartsInScope, ExpiredStartsNothing

-----------------------------------------------------------------------------
(* A report that says Completed.                                           *)

WholeInv ==
  termination = "Completed" =>
    /\ notAdmitted = 0
    /\ \A t \in Task : state[t] = "Cancelled" => attempt[t] > 0 \/ t \in CallerCancels
                                                \/ CallerStops

\* What a step may do to the verdict and to the tasks it cancels.
LEMMA VerdictSteps ==
  ASSUME TaskInv, [Next]_vars
  PROVE  \/ termination' # "Completed"
         \/ /\ termination' = termination /\ notAdmitted' = notAdmitted
            /\ \A t \in Task : state[t] # "Cancelled" /\ state'[t] = "Cancelled" =>
                 state[t] = "Running" \/ t \in CallerCancels \/ CallerStops
<1> USE DEF control, records, queueVars, report, threads, ledger, environment, Truncate
<1>m. TypeOK /\ \A t \in Task : TaskMoves(t)
  BY StepMovesTasks DEF TaskInv, SafetyInv
<1>1. CASE AdmitInitial \/ AdmitFollowUp
  <2>1. \E t \in Task : AddTask(t)
    BY <1>1, <1>m, PopType DEF AdmitInitial, AdmitFollowUp, TypeOK
  <2> PICK t \in Task : AddTask(t)
    BY <2>1
  <2>2. CASE AddVerdict(t) = "admitted"
    <3>1. state' = [state EXCEPT ![t] = "Pending"] /\ UNCHANGED <<termination, notAdmitted>>
      BY <2>2 DEF AddTask
    <3> QED
      BY <1>m, <3>1 DEF TypeOK
  <2>3. CASE AddVerdict(t) # "admitted"
    BY <2>3 DEF AddTask
  <2> QED
    BY <2>2, <2>3
<1>2. CASE Caller
  BY <1>2 DEF Caller, CancelTask, DrainPending, CancelAll, RequestShutdown, CancelPending
<1>3. CASE \E m \in inbox : HandleResult(m)
  <2> PICK m \in inbox : HandleResult(m)
    BY <1>3
  <2>1. /\ m.task \in Task /\ state[m.task] = "Running"
        /\ \E s : state' = [state EXCEPT ![m.task] = s]
    BY <1>m, ResultMoves
  <2>2. \A t \in Task : state[t] # "Cancelled" /\ state'[t] = "Cancelled" => state[t] = "Running"
    BY <1>m, <2>1 DEF TypeOK
  <2>3. termination' # "Completed" \/ (termination' = termination /\ notAdmitted' = notAdmitted)
    BY DEF HandleResult, ResultOverflows, ResultSucceeds, ResultCancelled,
      ResultTooLateToRetry, ResultRetries, ResultRetryBudget, ResultFails
  <2> QED
    BY <2>2, <2>3
<1>4. CASE Shutdown
  BY <1>4 DEF Shutdown
<1>5. CASE ForceStragglers
  BY <1>5 DEF ForceStragglers, Running
<1>6. CASE ~(AdmitInitial \/ AdmitFollowUp) /\ ~Caller /\ ~Shutdown /\ ~ForceStragglers
           /\ ~\E m \in inbox : HandleResult(m)
  <2>1. termination' # "Completed" \/ (termination' = termination /\ notAdmitted' = notAdmitted)
    BY <1>6 DEF Next, Step, StartRun, Top,
      Sweep, StartPromote, Promote, EndPromote, Defer, DropPopped, Start,
      CloseWindow, Requeue, EndWindow, Receives, DiscardStale, NextFollowUp, WaitTimesOut,
      Environment, WorkerPanics, WorkerAnswers, TaskTimeoutElapses, RetryDelayElapses,
      ScopeNarrows, ClockTicks, ExternalCancel, Returned, vars
  <2>2. ASSUME NEW t \in Task, state[t] # "Cancelled" PROVE state'[t] # "Cancelled"
    <3>1. state \in [Task -> RecordState] /\ candidates \subseteq Task
      BY <1>m DEF TypeOK
    <3> QED
      BY <1>6, <2>2, <3>1 DEF Next, Step, StartRun, Top,
        Sweep, StartPromote, Promote, EndPromote, Defer, DropPopped, Start,
        CloseWindow, Requeue, EndWindow, Receives, DiscardStale, NextFollowUp, WaitTimesOut,
        Environment, WorkerPanics, WorkerAnswers, TaskTimeoutElapses, RetryDelayElapses,
        ScopeNarrows, ClockTicks, ExternalCancel, Returned, vars
  <2> QED
    BY <2>1, <2>2
<1> QED
  BY <1>1, <1>2, <1>3, <1>4, <1>5, <1>6

\* A report that says Completed hides no truncation: nothing was refused for a
\* budget or the deadline, and only what the caller cancelled never ran.
THEOREM CompletedReportsAreWhole == Spec => []CompletedMeansWhole
<1>1. Init => WholeInv
  BY DEF Init, WholeInv
<1>2. TaskInv /\ WholeInv /\ [Next]_vars => WholeInv'
  <2> SUFFICES ASSUME TaskInv, WholeInv, [Next]_vars, termination' = "Completed"
               PROVE  /\ notAdmitted' = 0
                      /\ \A t \in Task : state'[t] = "Cancelled" =>
                           attempt'[t] > 0 \/ t \in CallerCancels \/ CallerStops
    BY DEF WholeInv
  <2>1. /\ termination = "Completed" /\ notAdmitted' = 0
        /\ \A t \in Task : state[t] # "Cancelled" /\ state'[t] = "Cancelled" =>
             state[t] = "Running" \/ t \in CallerCancels \/ CallerStops
    BY VerdictSteps DEF WholeInv
  <2>2. ASSUME NEW t \in Task, state'[t] = "Cancelled"
        PROVE  attempt'[t] > 0 \/ t \in CallerCancels \/ CallerStops
    <3>1. TaskMoves(t) /\ attempt[t] \in Nat /\ retryCount[t] \in Nat
      BY StepMovesTasks DEF TaskInv, SafetyInv, TypeOK
    <3>2. attempt'[t] >= attempt[t] /\ attempt'[t] \in Nat
      BY <3>1 DEF TaskMoves, Unmoved
    <3>3. state[t] = "Running" => attempt[t] > 0
      BY <3>1 DEF TaskInv, MoveInv, AttemptsByState
    <3>4. state[t] = "Cancelled" => attempt[t] > 0 \/ t \in CallerCancels \/ CallerStops
      BY <2>1 DEF WholeInv
    <3>5. CASE state[t] # "Cancelled"
      BY <2>1, <2>2, <3>1, <3>2, <3>3, <3>5
    <3>6. CASE state[t] = "Cancelled"
      BY <3>1, <3>2, <3>4, <3>6
    <3> QED
      BY <3>5, <3>6
  <2> QED
    BY <2>1, <2>2
<1>3. WholeInv => CompletedMeansWhole
  BY DEF WholeInv, CompletedMeansWhole
<1> QED
  BY <1>1, <1>2, <1>3, TasksHold, PTL DEF Spec

-----------------------------------------------------------------------------
(* The order of the queue.                                                 *)

\* In an ordered queue, exactly the entries before Slot(t) have at least t's
\* priority.
LEMMA SlotSplits ==
  ASSUME queue \in Seq(Task), QueueOrdered, NEW t \in Task
  PROVE  \A i \in 1 .. Len(queue) : i < Slot(t) <=> Priority[queue[i]] >= Priority[t]
<1> DEFINE n == Len(queue)
           ahead == {i \in DOMAIN queue : Priority[queue[i]] >= Priority[t]}
<1>1. n \in Nat /\ DOMAIN queue = 1 .. n /\ \A i \in 1 .. n : queue[i] \in Task
  OBVIOUS
<1>2. Priority[t] \in Nat /\ \A i \in 1 .. n : Priority[queue[i]] \in Nat
  BY <1>1, SchedulerAssumption DEF SchedulerAssumption
<1>3. ahead \subseteq 1 .. n
  BY <1>1
<1>4. IsFiniteSet(ahead) /\ Cardinality(ahead) \in Nat /\ Slot(t) = 1 + Cardinality(ahead)
  <2>1. IsFiniteSet(1 .. n)
    BY <1>1, FS_Interval
  <2>2. IsFiniteSet(ahead)
    BY <1>3, <2>1, FS_Subset
  <2>3. Cardinality(ahead) \in Nat
    BY <2>2, FS_CardinalityType
  <2> QED
    BY <2>2, <2>3 DEF Slot
<1>5. ASSUME NEW i \in 1 .. n, Priority[queue[i]] >= Priority[t] PROVE i < Slot(t)
  <2>1. 1 .. i \subseteq ahead
    BY <1>1, <1>2, <1>5, SMTT(30) DEF QueueOrdered
  <2>2. Cardinality(1 .. i) = i
    BY <1>1, FS_Interval
  <2> HIDE DEF ahead
  <2>3. Cardinality(1 .. i) <= Cardinality(ahead)
    BY <1>4, <2>1, FS_Subset
  <2> QED
    BY <1>1, <1>4, <2>2, <2>3
<1>6. ASSUME NEW i \in 1 .. n, ~(Priority[queue[i]] >= Priority[t]) PROVE ~(i < Slot(t))
  <2>1. ahead \subseteq 1 .. (i - 1)
    BY <1>1, <1>2, <1>6, SMTT(30) DEF QueueOrdered
  <2>2. IsFiniteSet(1 .. (i - 1)) /\ Cardinality(1 .. (i - 1)) = i - 1
    <3>1. i - 1 \in Int /\ 1 \in Int /\ (1 > i - 1 => i - 1 = 0)
      BY <1>1
    <3> QED
      BY <3>1, FS_Interval
  <2>3. Cardinality(ahead) <= i - 1
    BY <2>1, <2>2, FS_Subset
  <2> HIDE DEF ahead
  <2> QED
    BY <1>1, <1>4, <2>3
<1> QED
  BY <1>5, <1>6

\* A push keeps the queue ordered.
LEMMA PushOrders ==
  ASSUME queue \in Seq(Task), QueueOrdered, NEW t \in Task, Push(t)
  PROVE  QueueOrdered'
<1> DEFINE n == Len(queue)
<1>1. n \in Nat /\ DOMAIN queue = 1 .. n /\ \A i \in 1 .. n : queue[i] \in Task
  OBVIOUS
<1>2. Slot(t) \in 1 .. n + 1
  BY SlotRange
<1>3. /\ DOMAIN queue' = 1 .. n + 1
      /\ \A i \in 1 .. n + 1 :
           queue'[i] = IF i < Slot(t) THEN queue[i] ELSE IF i = Slot(t) THEN t ELSE queue[i - 1]
  BY DEF Push
<1>4. Priority[t] \in Nat /\ \A i \in 1 .. n : Priority[queue[i]] \in Nat
  BY <1>1, SchedulerAssumption DEF SchedulerAssumption
<1>5. \A i \in 1 .. n : i < Slot(t) <=> Priority[queue[i]] >= Priority[t]
  BY SlotSplits
<1> SUFFICES ASSUME NEW i \in 1 .. n + 1, NEW j \in 1 .. n + 1, i < j
             PROVE  Priority[queue'[i]] >= Priority[queue'[j]]
  BY <1>3 DEF QueueOrdered
<1>6. CASE j < Slot(t)
  BY <1>1, <1>2, <1>3, <1>6 DEF QueueOrdered
<1>7. CASE j = Slot(t)
  BY <1>1, <1>2, <1>3, <1>5, <1>7
<1>8. CASE j > Slot(t)
  <2>1. queue'[j] = queue[j - 1] /\ j - 1 \in 1 .. n /\ Priority[t] >= Priority[queue[j - 1]]
    BY <1>1, <1>2, <1>3, <1>4, <1>5, <1>8
  <2>2. CASE i < Slot(t)
    <3>1. i \in 1 .. n /\ queue'[i] = queue[i]
      BY <1>1, <1>2, <1>3, <2>2
    <3>2. Priority[queue[i]] >= Priority[t]
      BY <1>5, <2>2, <3>1
    <3> QED
      BY <1>4, <2>1, <3>1, <3>2
  <2>3. CASE i = Slot(t)
    BY <1>2, <1>3, <2>1, <2>3
  <2>4. CASE i > Slot(t)
    <3>1. queue'[i] = queue[i - 1] /\ i - 1 \in 1 .. n /\ i - 1 < j - 1
      BY <1>1, <1>2, <1>3, <2>4
    <3> QED
      BY <1>1, <2>1, <3>1 DEF QueueOrdered
  <2> QED
    BY <1>2, <2>2, <2>3, <2>4
<1> QED
  BY <1>2, <1>6, <1>7, <1>8

\* So does a pop.
LEMMA PopOrders ==
  ASSUME queue \in Seq(Task), QueueOrdered, queue # <<>>, queue' = Tail(queue)
  PROVE  QueueOrdered'
<1> DEFINE n == Len(queue)
<1>1. n \in Nat /\ n > 0 /\ DOMAIN queue = 1 .. n
  OBVIOUS
<1>2. DOMAIN queue' = 1 .. n - 1 /\ \A i \in 1 .. n - 1 : queue'[i] = queue[i + 1]
  BY <1>1
<1>3. \A i, j \in 1 .. n - 1 : i < j => i + 1 \in 1 .. n /\ j + 1 \in 1 .. n /\ i + 1 < j + 1
  BY <1>1
<1> QED
  BY <1>1, <1>2, <1>3 DEF QueueOrdered

\* Whatever is deferred and requeued, the queue stays ordered.
LEMMA NextOrder ==
  ASSUME TypeOK, QueueOrdered, [Next]_vars
  PROVE  QueueOrdered'
<1> USE DEF control, records, queueVars, report, threads, ledger, environment
<1>1. queue \in Seq(Task) /\ deferred \in Seq(Task)
  BY DEF TypeOK
<1>2. CASE \E t \in Task : Promote(t)
  BY <1>1, <1>2, PushOrders DEF Promote, QueueOrdered
<1>3. CASE Requeue
  BY <1>1, <1>3, PopType, PushOrders DEF Requeue, QueueOrdered
<1>4. CASE Defer \/ DropPopped \/ Start
  BY <1>1, <1>4, PopOrders DEF Defer, DropPopped, Start, WindowOpen
<1>5. CASE Shutdown
  BY <1>5 DEF Shutdown, QueueOrdered
<1>6. CASE ~(\E t \in Task : Promote(t)) /\ ~Requeue /\ ~(Defer \/ DropPopped \/ Start) /\ ~Shutdown
  <2>1. queue' = queue
    BY <1>6 DEF Next, Step, AdmitInitial, AdmitFollowUp, AddTask, StartRun, Top,
      ForceStragglers, Sweep, StartPromote, EndPromote, CloseWindow, EndWindow, Receives,
      DiscardStale, HandleResult, ResultOverflows, ResultSucceeds, ResultCancelled,
      ResultTooLateToRetry, ResultRetries, ResultRetryBudget, ResultFails, Receive,
      NextFollowUp, WaitTimesOut, Caller, CancelTask, DrainPending, CancelAll,
      RequestShutdown, Environment, WorkerPanics, WorkerAnswers, TaskTimeoutElapses,
      RetryDelayElapses, ScopeNarrows, ClockTicks, ExternalCancel, Returned, vars
  <2> QED
    BY <2>1 DEF QueueOrdered
<1> QED
  BY <1>2, <1>3, <1>4, <1>5, <1>6

-----------------------------------------------------------------------------
(* The report.                                                             *)

\* A task is listed at most once, under the state it ended in; the run ends
\* only when every admitted task has ended, and the sweep lists the rest.
ListInv ==
  /\ \A t \in Task : \/ listed[t] = <<>>
                     \/ state[t] \in Terminal /\ listed[t] = <<state[t]>>
  /\ pc \in {"sweep", "done"} => \A t \in Task : state[t] \in Terminal \cup {"Absent"}
  /\ pc = "done" => \A t \in Task : state[t] \in Terminal => listed[t] = <<state[t]>>

\* What a step may do to the lists.
LEMMA ListSteps ==
  ASSUME TaskInv, ListInv, [Next]_vars, NEW t \in Task
  PROVE  \/ listed'[t] = listed[t]
         \/ state[t] \notin Terminal /\ listed'[t] = Append(listed[t], state'[t])
                                     /\ state'[t] \in Terminal
         \/ Sweep
<1> USE DEF control, records, queueVars, report, threads, ledger, environment
<1>t. TypeOK /\ state \in [Task -> RecordState] /\ listed \in [Task -> Seq(Terminal)]
  BY DEF TaskInv, SafetyInv, TypeOK
<1>1. CASE Shutdown
  BY <1>1 DEF Shutdown, Unstarted, Terminal
<1>2. CASE ForceStragglers
  BY <1>2 DEF ForceStragglers, Running, Terminal
<1>3. CASE DropPopped
  <2>1. Head(queue) \in Task /\ state[Head(queue)] = "Ready"
    BY <1>3, <1>t, HeadIsReady DEF DropPopped, WindowOpen, TaskInv, SafetyInv
  <2> QED
    BY <1>3, <1>t, <2>1 DEF DropPopped, Terminal
<1>4. CASE \E m \in inbox : HandleResult(m)
  <2> PICK m \in inbox : HandleResult(m)
    BY <1>4
  <2>1. m.task \in Task /\ state[m.task] = "Running"
    BY <1>t, ResultMoves
  <2>2. \/ listed' = listed
        \/ \E o \in Terminal : /\ state' = [state EXCEPT ![m.task] = o]
                               /\ listed' = [listed EXCEPT ![m.task] = Append(@, o)]
    BY <1>t, ResultMoves DEF Terminal
  <2> QED
    BY <1>t, <2>1, <2>2 DEF Terminal
<1>5. CASE WaitTimesOut
  BY <1>5 DEF TaskInv, SafetyInv, SlotInv, OverdueRunning, Running, WaitTimesOut, Terminal
<1>6. CASE ~Shutdown /\ ~ForceStragglers /\ ~DropPopped /\ ~WaitTimesOut /\ ~Sweep
           /\ ~\E m \in inbox : HandleResult(m)
  <2>1. listed' = listed
    BY <1>6 DEF Next, Step, AdmitInitial, AdmitFollowUp, AddTask, StartRun, Top,
      StartPromote, Promote, EndPromote, Defer, Start, CloseWindow, Requeue, EndWindow,
      Receives, DiscardStale, NextFollowUp, Caller, CancelTask, DrainPending, CancelAll,
      RequestShutdown, Environment, WorkerPanics, WorkerAnswers, TaskTimeoutElapses,
      RetryDelayElapses, ScopeNarrows, ClockTicks, ExternalCancel, Returned, vars
  <2> QED
    BY <2>1
<1> QED
  BY <1>1, <1>2, <1>3, <1>4, <1>5, <1>6

\* Only these steps lead to the end of the run, or take place there.
LEMMA EndSteps ==
  ASSUME TypeOK, [Next]_vars, pc' \in {"sweep", "done"}
  PROVE  \/ EndWindow \/ ForceStragglers \/ Sweep
         \/ pc' = pc /\ state' = state /\ listed' = listed
<1> USE DEF control, records, queueVars, report, threads, ledger, environment
<1>1. CASE AdmitInitial \/ AdmitFollowUp \/ StartRun \/ Top \/ Shutdown \/ StartPromote
           \/ EndPromote \/ (\E t \in Task : Promote(t))
  BY <1>1 DEF AdmitInitial, AdmitFollowUp, StartRun, Top, Shutdown, StartPromote,
    EndPromote, Promote
<1>2. CASE Defer \/ DropPopped \/ Start \/ CloseWindow \/ Requeue
  BY <1>2 DEF Defer, DropPopped, Start, WindowOpen, CloseWindow, Requeue
<1>3. CASE Receives
  BY <1>3 DEF Receives, DiscardStale, HandleResult, ResultOverflows, ResultSucceeds,
    ResultCancelled, ResultTooLateToRetry, ResultRetries, ResultRetryBudget, ResultFails,
    Continue
<1>4. CASE NextFollowUp \/ WaitTimesOut
  BY <1>4 DEF NextFollowUp, Continue, WaitTimesOut
<1>5. CASE Caller
  BY <1>5 DEF Caller, CancelTask, DrainPending, CancelAll, RequestShutdown
<1>6. CASE Environment
  BY <1>6 DEF Environment, WorkerPanics, WorkerAnswers, TaskTimeoutElapses,
    RetryDelayElapses, ScopeNarrows, ClockTicks, ExternalCancel
<1>7. CASE Returned \/ UNCHANGED vars
  BY <1>7 DEF Returned, vars
<1> QED
  BY <1>1, <1>2, <1>3, <1>4, <1>5, <1>6, <1>7 DEF Next, Step

\* Every task is listed once it has ended, under that state, and only once.
LEMMA NextLists ==
  ASSUME TaskInv, ListInv, [Next]_vars
  PROVE  ListInv'
<1> USE DEF control, records, queueVars, report, threads, ledger, environment
<1>t. /\ TypeOK /\ state \in [Task -> RecordState] /\ listed \in [Task -> Seq(Terminal)]
      /\ \A t \in Task : TaskMoves(t)
  BY StepMovesTasks DEF TaskInv, SafetyInv, TypeOK
<1>1. ASSUME NEW t \in Task
      PROVE listed'[t] = <<>> \/ (state'[t] \in Terminal /\ listed'[t] = <<state'[t]>>)
  <2>1. listed[t] = <<>> \/ (state[t] \in Terminal /\ listed[t] = <<state[t]>>)
    BY DEF ListInv
  <2>2. state[t] \in Terminal => state'[t] = state[t]
    BY <1>t DEF TaskMoves, Unmoved, Terminal
  <2>3. CASE listed'[t] = listed[t]
    BY <2>1, <2>2, <2>3
  <2>4. CASE state[t] \notin Terminal /\ listed'[t] = Append(listed[t], state'[t])
             /\ state'[t] \in Terminal
    <3>1. listed[t] = <<>>
      BY <2>1, <2>4
    <3>2. listed'[t] = <<state'[t]>>
      BY <2>4, <3>1
    <3> QED
      BY <2>4, <3>2
  <2>5. CASE Sweep
    <3>1. state' = state
      BY <2>5 DEF Sweep
    <3>2. listed'[t] = IF state[t] \in Terminal /\ state[t] \notin ToSet(listed[t])
                       THEN Append(listed[t], state[t]) ELSE listed[t]
      BY <2>5 DEF Sweep
    <3>3. CASE listed[t] = <<>>
      BY <3>1, <3>2, <3>3, EmptyElements
    <3>4. CASE state[t] \in Terminal /\ listed[t] = <<state[t]>>
      BY <3>1, <3>2, <3>4 DEF ToSet
    <3> QED
      BY <2>1, <3>3, <3>4
  <2> QED
    BY <2>3, <2>4, <2>5, ListSteps
<1>2. ASSUME pc' \in {"sweep", "done"}, NEW t \in Task
      PROVE  state'[t] \in Terminal \cup {"Absent"}
  <2>1. CASE EndWindow
    BY <1>2, <2>1 DEF EndWindow, Admitted
  <2>2. CASE ForceStragglers
    <3>1. state[t] \notin {"Pending", "Ready"}
      BY <2>2 DEF ForceStragglers, TaskInv, SafetyInv, QueueInv, Unstarted
    <3>2. state[t] \in RecordState
      BY <1>t
    <3>3. state'[t] = IF state[t] = "Running" THEN "Cancelled" ELSE state[t]
      BY <2>2 DEF ForceStragglers, Running
    <3> QED
      BY <3>1, <3>2, <3>3 DEF RecordState, TaskState, Terminal
  <2>3. CASE Sweep
    BY <2>3 DEF Sweep, ListInv
  <2>4. CASE pc' = pc /\ state' = state /\ listed' = listed
    BY <1>2, <2>4 DEF ListInv
  <2> QED
    BY <1>2, <1>t, <2>1, <2>2, <2>3, <2>4, EndSteps
<1>3. ASSUME pc' = "done", NEW t \in Task, state'[t] \in Terminal
      PROVE  listed'[t] = <<state'[t]>>
  <2>1. CASE EndWindow \/ ForceStragglers
    BY <1>3, <2>1 DEF EndWindow, ForceStragglers
  <2>2. CASE Sweep
    <3>1. state' = state
      BY <2>2 DEF Sweep
    <3>2. listed'[t] = IF state[t] \notin ToSet(listed[t]) THEN Append(listed[t], state[t])
                       ELSE listed[t]
      BY <1>3, <2>2, <3>1 DEF Sweep
    <3>3. CASE listed[t] = <<>>
      BY <3>1, <3>2, <3>3, EmptyElements
    <3>4. CASE listed[t] = <<state[t]>>
      BY <3>1, <3>2, <3>4 DEF ToSet
    <3> QED
      BY <3>3, <3>4 DEF ListInv
  <2>3. CASE pc' = pc /\ state' = state /\ listed' = listed
    BY <1>3, <2>3 DEF ListInv
  <2> QED
    BY <1>3, <1>t, <2>1, <2>2, <2>3, EndSteps
<1> QED
  BY <1>1, <1>2, <1>3 DEF ListInv

\* Every admitted task is reported in exactly one list, that of the state it
\* ended in; what has ever started had all of its dependencies succeed first;
\* and the queue is ordered by priority, whatever was deferred and requeued.
THEOREM RunIsExact == Spec => []RunExact
<1>1. Init => QueueOrdered /\ ListInv
  BY DEF Init, QueueOrdered, ListInv
<1>2. TaskInv /\ QueueOrdered /\ ListInv /\ [Next]_vars => QueueOrdered' /\ ListInv'
  BY NextOrder, NextLists DEF TaskInv, SafetyInv
<1>3. TaskInv /\ QueueOrdered /\ ListInv => RunExact
  BY DEF ReportedOnce, ListInv, Admitted, Terminal, RunExact, OrderKept, TaskInv, MoveInv
<1> QED
  BY <1>1, <1>2, <1>3, TasksHold, PTL DEF Spec
=============================================================================
