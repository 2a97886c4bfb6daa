------------------------------ MODULE JobStore ------------------------------
(***************************************************************************)
(* The jobs of the local server (src/src/web_api.rs): connection handlers  *)
(* create, cancel and stream jobs, one worker thread runs each job, and    *)
(* ServerHandle::shutdown stops the server, all through one mutex.  An     *)
(* action is what one thread does between taking that mutex and letting it *)
(* go (or reading an atomic flag without it).  What a scan does inside is  *)
(* Scheduler's; here it ends with one of its termination reasons.          *)
(***************************************************************************)
EXTENDS Naturals, FiniteSets, Sequences, Functions

CONSTANTS
  Job,
  ScanJob,      \* the jobs that are scans; the others are searches and investigations
  Client,       \* event streams
  MaxStored,    \* MAX_JOBS_STORED
  MaxRunning,   \* MAX_RUNNING_JOBS
  MaxEvents,    \* MAX_EVENTS_PER_JOB
  MaxRequests,  \* bound: connections accepted in one behaviour
  MaxProgress   \* bound: progress events of one run

ASSUME JobConstants ==
  /\ ScanJob \subseteq Job /\ IsFiniteSet(Job)
  /\ {MaxStored, MaxRunning, MaxEvents, MaxRequests, MaxProgress} \subseteq Nat
  /\ MaxStored >= MaxRunning /\ MaxEvents > 0

VARIABLES
  status,    \* [Job -> JobStatus, or "Absent" when it is not in the store]
  cancel,    \* [Job -> the cancel flag the job shares with its worker]
  events,    \* [Job -> sequence of events, each [seq, type]]
  eventSeq,  \* [Job -> number of the last event]
  order,     \* JobStore.order
  worker,    \* [Job -> where its worker thread is]
  progress,  \* [Job -> progress events its run has sent]
  cancelling,\* [Job -> cancel requests between the flag and their event]
  stream,    \* [Client -> the event stream it reads]
  pending,   \* connections accepted and not handled yet
  requests,  \* connections accepted so far
  shutdown,  \* the server: "up", "flagged", "cancelled"
  early,     \* history: jobs whose cancellation was accepted while queued
  ended      \* history: [Job -> number of its terminal event, 0 before]

store == <<status, events, eventSeq, order>>
server == <<pending, requests, shutdown>>
vars == <<store, cancel, worker, progress, cancelling, stream, server, early, ended>>

Live == {"Queued", "Running"}
Terminal == {"Completed", "Partial", "Failed", "Cancelled", "TimedOut"}

Stored == {j \in Job : status[j] # "Absent"}

NoStream == [job |-> CHOOSE j \in Job : TRUE, phase |-> "closed", cursor |-> 0, seen |-> {}]

JobInit ==
  /\ status = [j \in Job |-> "Absent"]
  /\ cancel = [j \in Job |-> FALSE]
  /\ events = [j \in Job |-> <<>>]
  /\ eventSeq = [j \in Job |-> 0]
  /\ order = <<>>
  /\ worker = [j \in Job |-> "none"]
  /\ progress = [j \in Job |-> 0]
  /\ cancelling = [j \in Job |-> 0]
  /\ stream = [c \in Client |-> NoStream]
  /\ pending = 0
  /\ requests = 0
  /\ shutdown = "up"
  /\ early = {}
  /\ ended = [j \in Job |-> 0]

-----------------------------------------------------------------------------
(* The store                                                               *)

Event(j, type) == [seq |-> eventSeq[j] + 1, type |-> type]

\* A bug: nothing is dropped.
PushedAll(s, e) == Append(s, e)

\* push_event: the oldest events go when there are more than MaxEvents.
Pushed(s, e) ==
  LET all == Append(s, e)
  IN IF Len(all) > MaxEvents THEN SubSeq(all, Len(all) - MaxEvents + 1, Len(all)) ELSE all

PushEvent(j, type) ==
  /\ events' = [events EXCEPT ![j] = Pushed(@, Event(j, type))]
  /\ eventSeq' = [eventSeq EXCEPT ![j] = @ + 1]

\* A bug: a job that failed is not announced.
FinishJobSilently(j, outcome) ==
  /\ status' = [status EXCEPT ![j] = outcome]
  /\ IF outcome = "Failed"
     THEN UNCHANGED <<events, eventSeq>>
     ELSE /\ events' = [events EXCEPT ![j] = Append(@, Event(j, "terminal"))]
          /\ eventSeq' = [eventSeq EXCEPT ![j] = @ + 1]
  /\ ended' = [ended EXCEPT ![j] = eventSeq[j] + 1]
  /\ UNCHANGED order

\* finish_job appends its event itself, past the cap of push_event.
FinishJob(j, outcome) ==
  /\ status' = [status EXCEPT ![j] = outcome]
  /\ events' = [events EXCEPT ![j] = Append(@, Event(j, "terminal"))]
  /\ eventSeq' = [eventSeq EXCEPT ![j] = @ + 1]
  /\ ended' = [ended EXCEPT ![j] = eventSeq'[j]]
  /\ UNCHANGED order

\* finish_job after a warning event, in one critical section.
FinishWithWarning(j, outcome) ==
  LET warned == Pushed(events[j], Event(j, "warning"))
  IN /\ status' = [status EXCEPT ![j] = outcome]
     /\ events' = [events EXCEPT ![j] =
                     Append(warned, [seq |-> eventSeq[j] + 2, type |-> "terminal"])]
     /\ eventSeq' = [eventSeq EXCEPT ![j] = @ + 2]
     /\ ended' = [ended EXCEPT ![j] = eventSeq'[j]]
     /\ UNCHANGED order

\* A bug: a job that waits for its worker does not count.
RunningCountStarted == Cardinality({j \in Job : status[j] = "Running"})

RunningCount == Cardinality({j \in Job : status[j] \in Live})

\* evict_oldest_terminal: the oldest terminal jobs by `order` go, until
\* there is room for one more.
Evicted ==
  LET over == {i \in DOMAIN order : status[order[i]] \in Terminal}
      excess == IF Cardinality(Stored) >= MaxStored THEN Cardinality(Stored) + 1 - MaxStored ELSE 0
  IN {order[i] : i \in {k \in over : Cardinality({m \in over : m <= k}) <= excess}}

-----------------------------------------------------------------------------
(* Connections                                                             *)

\* The acceptor loop looks at the shutdown flag; a connection it accepted
\* before has a thread of its own.
Accept ==
  /\ shutdown = "up"
  /\ requests < MaxRequests
  /\ requests' = requests + 1
  /\ pending' = pending + 1
  /\ UNCHANGED <<store, cancel, worker, progress, cancelling, stream, shutdown, early, ended>>

Handles == pending > 0 /\ pending' = pending - 1 /\ UNCHANGED <<requests, shutdown>>

\* The request is invalid, or for a job that is unknown or terminal, or a
\* read, or comes when too many jobs run: nothing changes.
HandleRefused ==
  /\ Handles
  /\ UNCHANGED <<store, cancel, worker, progress, cancelling, stream, early, ended>>

\* handle_scan_create, handle_investigation_create and
\* handle_username_search_create, from the lock to its drop.
HandleCreate(j) ==
  /\ Handles
  /\ status[j] = "Absent" /\ worker[j] = "none"
  /\ RunningCount < MaxRunning
  /\ status' = [k \in Job |-> IF k = j THEN "Queued"
                              ELSE IF k \in Evicted THEN "Absent" ELSE status[k]]
  /\ order' = SelectSeq(order, LAMBDA k : k \notin Evicted)
  /\ PushEvent(j, "job_started")
  /\ worker' = [worker EXCEPT ![j] = "spawned"]
  /\ UNCHANGED <<cancel, progress, cancelling, stream, early, ended>>

\* A bug: the handler finishes the job itself.
HandleCancelFinishes(j) ==
  /\ Handles
  /\ status[j] \in Live
  /\ cancel' = [cancel EXCEPT ![j] = TRUE]
  /\ FinishJob(j, "Cancelled")
  /\ UNCHANGED <<worker, progress, cancelling, stream, early>>

\* handle_job_cancel raises the flag, lets the lock go and takes it again.
HandleCancel(j) ==
  /\ Handles
  /\ status[j] \in Live
  /\ cancel' = [cancel EXCEPT ![j] = TRUE]
  /\ cancelling' = [cancelling EXCEPT ![j] = @ + 1]
  /\ early' = IF status[j] = "Queued" THEN early \cup {j} ELSE early
  /\ UNCHANGED <<store, worker, progress, stream, ended>>

AnnounceCancel(j) ==
  /\ cancelling[j] > 0
  /\ cancelling' = [cancelling EXCEPT ![j] = @ - 1]
  /\ IF status[j] = "Absent" THEN UNCHANGED <<events, eventSeq>> ELSE PushEvent(j, "progress")
  /\ UNCHANGED <<status, order, cancel, worker, progress, stream, server, early, ended>>

\* handle_job_events: replay from the start, or go on after the last event
\* an earlier stream of the job delivered, then follow.
OpenStream(c, j) ==
  /\ Handles
  /\ stream[c].phase = "closed"
  /\ status[j] # "Absent"
  /\ \/ stream' = [stream EXCEPT ![c] = [job |-> j, phase |-> "open", cursor |-> 0, seen |-> {}]]
     \/ stream[c].job = j /\ stream' = [stream EXCEPT ![c].phase = "open"]
  /\ UNCHANGED <<store, cancel, worker, progress, cancelling, early, ended>>

\* One turn of the stream's loop: the events after the cursor and whether
\* the job is terminal are read under one lock.
PollStream(c) ==
  LET s == stream[c]
      fresh == {e \in Range(events[s.job]) : e.seq > s.cursor}
  IN /\ s.phase = "open"
     /\ stream' = [stream EXCEPT ![c] =
          [job |-> s.job,
           phase |-> IF status[s.job] \notin Live THEN "ended"
                     ELSE IF shutdown # "up" THEN "closed" ELSE "open",
           cursor |-> IF fresh = {} THEN s.cursor ELSE eventSeq[s.job],
           seen |-> s.seen \cup {e.seq : e \in fresh}]]
     /\ UNCHANGED <<store, cancel, worker, progress, cancelling, server, early, ended>>

\* The client goes away: a frame could not be written, those before it were.
Disconnect(c) ==
  LET s == stream[c]
  IN /\ s.phase = "open"
     /\ \E last \in s.cursor..eventSeq[s.job] :
          stream' = [stream EXCEPT ![c] =
            [job |-> s.job, phase |-> "closed", cursor |-> last,
             seen |-> s.seen \cup {e.seq : e \in
                        {f \in Range(events[s.job]) : f.seq > s.cursor /\ f.seq <= last}}]]
     /\ UNCHANGED <<store, cancel, worker, progress, cancelling, server, early, ended>>

-----------------------------------------------------------------------------
(* Workers                                                                 *)

At(j, from, to) == worker[j] = from /\ worker' = [worker EXCEPT ![j] = to]

WorkerStarts(j) ==
  /\ At(j, "spawned", "started")
  /\ status' = [status EXCEPT ![j] = "Running"]
  /\ PushEvent(j, "progress")
  /\ UNCHANGED <<order, cancel, progress, cancelling, stream, server, early, ended>>

\* A bug: the flag is looked at before the job counts as running.
WorkerChecksEarly(j) ==
  /\ worker[j] \in {"spawned", "started"}
  /\ worker' = [worker EXCEPT ![j] = "checked"]
  /\ worker[j] = "spawned" => ~cancel[j]
  /\ UNCHANGED <<store, cancel, progress, cancelling, stream, server, early, ended>>

\* The cancel flag is read without the lock.
WorkerChecks(j) ==
  /\ At(j, "started", IF cancel[j] THEN "stopping" ELSE "checked")
  /\ UNCHANGED <<store, cancel, progress, cancelling, stream, server, early, ended>>

WorkerStops(j) ==
  /\ At(j, "stopping", "gone")
  /\ FinishJob(j, "Cancelled")
  /\ UNCHANGED <<cancel, progress, cancelling, stream, server, early>>

WorkerExecutes(j) ==
  /\ At(j, "checked", "executing")
  /\ PushEvent(j, "progress")
  /\ UNCHANGED <<status, order, cancel, progress, cancelling, stream, server, early, ended>>

\* The progress hook of a username search.
WorkerProgresses(j) ==
  /\ worker[j] = "executing" /\ j \notin ScanJob
  /\ progress[j] < MaxProgress
  /\ progress' = [progress EXCEPT ![j] = @ + 1]
  /\ PushEvent(j, "progress")
  /\ UNCHANGED <<status, order, cancel, worker, cancelling, stream, server, early, ended>>

\* A bug: an error returns without finishing the job.
WorkerFailsUnreported(j) ==
  /\ At(j, "executing", "gone")
  /\ PushEvent(j, "warning")
  /\ UNCHANGED <<status, order, cancel, progress, cancelling, stream, server, early, ended>>

\* An error of a search or investigation, or an internal failure of a scan.
WorkerFails(j) ==
  /\ At(j, "executing", "gone")
  /\ FinishWithWarning(j, "Failed")
  /\ UNCHANGED <<cancel, progress, cancelling, stream, server, early>>

\* execute_with_cancellation returned an error: no warning, but a log line.
ScanErrs(j) ==
  /\ j \in ScanJob
  /\ At(j, "executing", "gone")
  /\ FinishJob(j, "Failed")
  /\ UNCHANGED <<cancel, progress, cancelling, stream, server, early>>

\* The scan's report decides; it is UserCancelled only when the flag rose.
ScanEnds(j) ==
  /\ j \in ScanJob
  /\ At(j, "executing", "gone")
  /\ \E outcome \in {"Completed", "TimedOut", "Partial"} \cup (IF cancel[j] THEN {"Cancelled"} ELSE {}) :
       FinishJob(j, outcome)
  /\ UNCHANGED <<cancel, progress, cancelling, stream, server, early>>

\* A search or investigation that was told to stop reports what it has; a
\* project database that cannot be written is a warning.
SearchEnds(j) ==
  LET outcome == IF cancel[j] THEN "Cancelled" ELSE "Completed"
  IN
  /\ j \notin ScanJob
  /\ At(j, "executing", "gone")
  /\ FinishJob(j, outcome) \/ FinishWithWarning(j, outcome)
  /\ UNCHANGED <<cancel, progress, cancelling, stream, server, early>>

-----------------------------------------------------------------------------
(* Shutdown                                                                *)

RaiseShutdown ==
  /\ shutdown = "up"
  /\ shutdown' = "flagged"
  /\ UNCHANGED <<store, cancel, worker, progress, cancelling, stream, pending, requests, early, ended>>

CancelRunning ==
  /\ shutdown = "flagged"
  /\ shutdown' = "cancelled"
  /\ cancel' = [j \in Job |-> cancel[j] \/ status[j] \in Live]
  /\ UNCHANGED <<store, worker, progress, cancelling, stream, pending, requests, early, ended>>

-----------------------------------------------------------------------------

WorkerStep(j) ==
  \/ WorkerStarts(j) \/ WorkerChecks(j) \/ WorkerStops(j) \/ WorkerExecutes(j)
  \/ WorkerFails(j) \/ ScanErrs(j) \/ ScanEnds(j) \/ SearchEnds(j)

JobNext ==
  \/ Accept \/ HandleRefused \/ RaiseShutdown \/ CancelRunning
  \/ \E j \in Job : HandleCreate(j) \/ HandleCancel(j) \/ AnnounceCancel(j)
                    \/ WorkerProgresses(j) \/ WorkerStep(j)
  \/ \E c \in Client : PollStream(c) \/ Disconnect(c) \/ \E j \in Job : OpenStream(c, j)

JobSpec == JobInit /\ [][JobNext]_vars

\* A worker thread is scheduled, and the run it calls returns (Scheduler's
\* RunEnds); an open stream is polled every 200 ms.
FairJobSpec ==
  /\ JobSpec
  /\ \A j \in Job : WF_vars(WorkerStep(j))
  /\ \A c \in Client : WF_vars(PollStream(c))

-----------------------------------------------------------------------------
(* Properties                                                              *)

\* The state is well typed, the events of a job are numbered without gaps
\* up to event_seq, and a job is live exactly while its worker is.
TypeOK ==
  /\ status \in [Job -> {"Absent"} \cup Live \cup Terminal]
  /\ worker \in [Job -> {"none", "spawned", "started", "stopping", "checked", "executing", "gone"}]
  /\ early \subseteq {j \in Job : cancel[j]}
  /\ \A j \in Job :
       /\ \A i \in 1..Len(events[j]) : events[j][i].seq = eventSeq[j] - Len(events[j]) + i
       /\ status[j] = "Queued" <=> worker[j] = "spawned"
       /\ status[j] = "Running" <=> worker[j] \in {"started", "stopping", "checked", "executing"}

\* However creations, starts and ends interleave, at most MaxRunning jobs
\* are queued or running (src/src/web_api.rs:69).
RunningWithinLimit == Cardinality({j \in Job : status[j] \in Live}) <= MaxRunning

\* Whatever a late cancellation, a stream or the shutdown does, a job that
\* ended keeps its outcome until it is evicted.
OutcomeIsFinal ==
  [][\A j \in Job : status[j] \in Terminal => status'[j] \in {status[j], "Absent"}]_vars

\* A job whose cancellation was accepted while it was still queued is never
\* executed: the worker looks at the flag after it has made the job Running.
QueuedCancelNeverExecutes ==
  \A j \in early : worker[j] \notin {"checked", "executing"}

\* Jobs start only when they may: below the cap, and not cancelled before.
StartsWhenAllowed == RunningWithinLimit /\ QueuedCancelNeverExecutes

\* A stream that ends because its job is terminal has delivered the job's
\* terminal event, unless at least MaxEvents events came after that one before
\* the stream's last poll, which pushed it out (push_event). Only cancel
\* handlers that were between the two locks when the job ended announce
\* anything after it, and there may be so many: one thread per connection.
StreamSeesTheEnd ==
  \A c \in Client :
    LET s == stream[c]
    IN s.phase = "ended" => \/ ended[s.job] \in s.seen
                            \/ s.cursor >= ended[s.job] + MaxEvents

\* Every job that is created ends.
JobsEnd == \A j \in Job : status[j] = "Queued" ~> status[j] \in Terminal

\* src/src/web_api.rs:66 says that the store keeps at most MAX_JOBS_STORED
\* jobs and evicts the oldest terminal ones; `order`, by which the victim is
\* chosen, is never filled.
StoreWithinLimit == Cardinality(Stored) <= MaxStored

\* The events kept of a job stay within MAX_EVENTS_PER_JOB (web_api.rs:71)
\* and the terminal event, which finish_job appends without dropping any.
EventsBounded ==
  \A j \in Job : Len(events[j]) <= MaxEvents + (IF status[j] \in Terminal THEN 1 ELSE 0)

=============================================================================
