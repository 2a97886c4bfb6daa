----------------------------- MODULE Checkpoint -----------------------------
(***************************************************************************)
(* `rxscan --checkpoint P` and `rxscan --resume P` (src/src/run.rs and     *)
(* src/src/persistence.rs): runs that load the file, restore a scheduler   *)
(* from it, run it, and save it when run() has returned; each may fail or  *)
(* be killed on the way and another may follow.  What run() does to tasks  *)
(* is TaskLifecycle's, one task at a time: at its end every task is final, *)
(* which is Scheduler's ReportedOnce.                                      *)
(***************************************************************************)
EXTENDS TempFile, Sequences, Functions

CONSTANTS
  Task,
  Plan,        \* sequence of the Tasks that lowering produces, dependencies first
  Deps,        \* [Task -> SUBSET Task]
  FollowUps,   \* [Task -> SUBSET Task] what the engine proposes after a success
  MaxTasks,    \* the plan's task budget
  MaxOutputs,  \* outputs that fit in MAX_CHECKPOINT_BYTES
  SavesEarly,  \* the library's caller may save a scheduler it did not run
  MaxStarts    \* bound: runs started in one behaviour

VARIABLES
  pc,        \* [Process -> where its run is]
  state,     \* [Process -> [Task -> TaskState or "Absent"]]
  outputs,   \* [Process -> tasks whose output is kept]
  accepted,  \* [Process -> tasks charged to the ledger]
  starts,    \* runs started so far
  base,      \* history: [Process -> the checkpoint its run resumed, or None]
  ran        \* history: [Process -> tasks its run has executed]

run == <<state, outputs, accepted, starts, base, ran>>
vars == <<file, pc, run>>

Final == {"Succeeded", "Failed", "Cancelled", "TimedOut", "Skipped"}

TaskState == {"Pending", "Ready", "Running"} \cup Final

\* PersistedScanState
Document == [state : [Task -> TaskState \cup {"Absent"}],
             outputs : SUBSET Task]

Known(states) == {t \in Task : states[t] # "Absent"}

CheckpointInit ==
  /\ FileInit
  /\ pc = [p \in Process |-> "idle"]
  /\ state = [p \in Process |-> [t \in Task |-> "Absent"]]
  /\ outputs = [p \in Process |-> {}]
  /\ accepted = [p \in Process |-> 0]
  /\ starts = 0
  /\ base = [p \in Process |-> None]
  /\ ran = [p \in Process |-> {}]

At(p, from, to) == pc[p] = from /\ pc' = [pc EXCEPT ![p] = to]

\* The process is gone, and with it the scheduler.
Ends(p) ==
  /\ pc' = [pc EXCEPT ![p] = "idle"]
  /\ state' = [state EXCEPT ![p] = [t \in Task |-> "Absent"]]
  /\ outputs' = [outputs EXCEPT ![p] = {}]
  /\ accepted' = [accepted EXCEPT ![p] = 0]
  /\ base' = [base EXCEPT ![p] = None]
  /\ ran' = [ran EXCEPT ![p] = {}]
  /\ UNCHANGED starts

-----------------------------------------------------------------------------
(* Starting a run                                                          *)

\* What from_scheduler writes for a task, and what restore_task makes of
\* what it reads: work in flight starts over.
Interrupted(s) == IF s \in {"Running", "Ready"} THEN "Pending" ELSE s

\* The initial admission: the prefix of the plan that the budget allows.
StartFresh(p) ==
  LET admitted == {Plan[i] : i \in {j \in 1..Len(Plan) : j <= MaxTasks}}
  IN /\ starts < MaxStarts
     /\ At(p, "idle", "ready")
     /\ starts' = starts + 1
     /\ state' = [state EXCEPT ![p] =
                    [t \in Task |-> IF t \in admitted THEN "Pending" ELSE "Absent"]]
     /\ accepted' = [accepted EXCEPT ![p] = Cardinality(admitted)]
     /\ UNCHANGED <<file, outputs, base, ran>>

Oversized(document) == Cardinality(document.outputs) > MaxOutputs

\* load_checkpoint refuses a missing, unreadable or oversized file.
Loadable == Content \notin {None, Torn} /\ ~Oversized(Content)

\* A bug: every restored task is set back.
RestoredAll(states) ==
  [t \in Task |-> IF states[t] = "Absent" THEN "Absent" ELSE "Pending"]

Restored(states) == [t \in Task |-> Interrupted(states[t])]

\* A bug: restored outputs are not handed to the scheduler.
RestoredNoOutputs(document) == {}

\* restore_task keeps the output of a task that succeeded.
RestoredOutputs(document) ==
  {t \in document.outputs : document.state[t] = "Succeeded"}

\* A bug: restored tasks are not charged to the new ledger.
ChargedNothing(states) == 0

\* Every restored task is admitted to the new run's ledger.
Charged(states) == Cardinality(Known(states))

\* restore_scheduler_state stops at the first task the ledger refuses, and
\* the command fails.
Resume(p) ==
  /\ starts < MaxStarts
  /\ Loadable
  /\ pc[p] = "idle"
  /\ pc' = [pc EXCEPT ![p] = IF Charged(Content.state) <= MaxTasks THEN "ready" ELSE "refused"]
  /\ starts' = starts + 1
  /\ state' = [state EXCEPT ![p] = Restored(Content.state)]
  /\ outputs' = [outputs EXCEPT ![p] = RestoredOutputs(Content)]
  /\ accepted' = [accepted EXCEPT ![p] = Charged(Content.state)]
  /\ base' = [base EXCEPT ![p] = Content]
  /\ UNCHANGED <<file, ran>>

-----------------------------------------------------------------------------
(* Scheduler::run                                                          *)

Runnable(p, t) == state[p][t] = "Pending" /\ \A d \in Deps[t] : state[p][d] = "Succeeded"

\* A task runs, and ends without a stored output: it failed, was cancelled,
\* timed out, or its output overflowed the evidence budget.
RunWithoutOutput(p, t) ==
  /\ pc[p] = "ready"
  /\ Runnable(p, t)
  /\ \E s \in Final \ {"Skipped"} : state' = [state EXCEPT ![p][t] = s]
  /\ ran' = [ran EXCEPT ![p] = @ \cup {t}]
  /\ UNCHANGED <<file, pc, outputs, accepted, starts, base>>

\* A task succeeds, and its follow-ups are admitted as far as they are new
\* and the budget allows.
RunWithOutput(p, t) ==
  /\ pc[p] = "ready"
  /\ Runnable(p, t)
  /\ ran' = [ran EXCEPT ![p] = @ \cup {t}]
  /\ outputs' = [outputs EXCEPT ![p] = @ \cup {t}]
  /\ LET new == FollowUps[t] \ Known(state[p])
         room == IF accepted[p] < MaxTasks THEN MaxTasks - accepted[p] ELSE 0
     IN \E more \in SUBSET new :
          /\ Cardinality(more) = IF Cardinality(new) < room THEN Cardinality(new) ELSE room
          /\ state' = [state EXCEPT ![p] =
                         [u \in Task |-> IF u = t THEN "Succeeded"
                                         ELSE IF u \in more THEN "Pending" ELSE @[u]]]
          /\ accepted' = [accepted EXCEPT ![p] = @ + Cardinality(more)]
  /\ UNCHANGED <<file, pc, starts, base>>

SkipTask(p, t) ==
  /\ pc[p] = "ready"
  /\ state[p][t] = "Pending"
  /\ \E d \in Deps[t] : state[p][d] \in Final \ {"Succeeded"}
  /\ state' = [state EXCEPT ![p][t] = "Skipped"]
  /\ UNCHANGED <<file, pc, outputs, accepted, starts, base, ran>>

\* run() returns: nothing is left, or the deadline or a cancellation made
\* everything that was left final.
EndRun(p) ==
  LET left == {t \in Task : state[p][t] \notin Final \cup {"Absent"}}
  IN /\ At(p, "ready", "ended")
     /\ state' = [state EXCEPT ![p] = [t \in Task |-> IF t \in left THEN "Cancelled" ELSE @[t]]]
     /\ UNCHANGED <<file, outputs, accepted, starts, base, ran>>

\* An error while the output is written: execute returns before it saves.
OutputFails(p) == pc[p] = "ended" /\ Ends(p) /\ UNCHANGED file

-----------------------------------------------------------------------------
(* save_checkpoint                                                         *)

Snapshot(p) ==
  [state |-> [t \in Task |-> Interrupted(state[p][t])], outputs |-> outputs[p]]

BeginSave(p) ==
  /\ pc[p] \in {"ended"} \cup (IF SavesEarly THEN {"ready"} ELSE {})
  /\ pc' = [pc EXCEPT ![p] = "created"]
  /\ Opens(p)
  /\ UNCHANGED run

WriteCheckpoint(p) == At(p, "created", "written") /\ Writes(p, Snapshot(p)) /\ UNCHANGED run

WriteFails(p) ==
  /\ pc[p] = "created"
  /\ Closes(p)
  /\ Removes(p)
  /\ Ends(p)
  /\ UNCHANGED <<final, disk>>

TooLarge(p) ==
  LET written == temp[TempOf[p]]
  IN IF written = None \/ disk[written] = Torn THEN FALSE ELSE Oversized(disk[written])

RefuseSize(p) ==
  /\ pc[p] = "written"
  /\ TooLarge(p)
  /\ Removes(p)
  /\ Ends(p)
  /\ UNCHANGED <<final, disk, fd, lone>>

AcceptSize(p) == ~TooLarge(p) /\ At(p, "written", "sized") /\ UNCHANGED <<file, run>>

ReplaceCheckpoint(p) == pc[p] = "sized" /\ Renames(p) /\ Ends(p)

Kill(p) ==
  /\ pc[p] # "idle"
  /\ Closes(p)
  /\ Ends(p)
  /\ UNCHANGED <<final, temp, disk>>

CheckpointNext ==
  \E p \in Process :
    \/ StartFresh(p) \/ Resume(p)
    \/ \E t \in Task : RunWithoutOutput(p, t) \/ RunWithOutput(p, t) \/ SkipTask(p, t)
    \/ EndRun(p) \/ OutputFails(p)
    \/ BeginSave(p) \/ WriteCheckpoint(p) \/ WriteFails(p)
    \/ RefuseSize(p) \/ AcceptSize(p) \/ ReplaceCheckpoint(p) \/ Kill(p)

CheckpointSpec == CheckpointInit /\ [][CheckpointNext]_vars

-----------------------------------------------------------------------------
(* Properties                                                              *)

\* A checkpoint is in the file or there is none, and it always resumes:
\* whatever run was killed or failed while saving, the file is whole, within
\* the size cap, and its tasks fit the ledger of the run that restores it.
AlwaysResumes ==
  /\ Content # None => Loadable
  /\ \A p \in Process : pc[p] # "refused"

\* The task budget holds across resumes: restored tasks count against it, so
\* their follow-ups cannot take a resumed scan over it.
BudgetAcrossResumes == \A p \in Process : Cardinality(Known(state[p])) <= MaxTasks

\* Nothing that a checkpoint holds as finished runs again in a run resumed
\* from it.
FinishedNotRepeated ==
  \A p \in Process : base[p] # None =>
    \A t \in ran[p] : base[p].state[t] \notin Final

\* A scan stays one scan, however often it is resumed: one budget, and no
\* task twice.
ResumeKeepsPlan == BudgetAcrossResumes /\ FinishedNotRepeated

\* A resumed run that saves keeps the evidence of the runs before it.
EvidenceSurvives ==
  [][\A p \in Process :
       ReplaceCheckpoint(p) /\ base[p] # None => base[p].outputs \subseteq Content'.outputs]_vars

=============================================================================
