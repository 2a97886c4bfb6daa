-------------------------- MODULE SearchScheduler --------------------------
(***************************************************************************)
(* A username search (SearchScheduler of src/src/search.rs): providers are *)
(* queried in waves of threads, at most MaxConcurrency at once and         *)
(* MaxPerHost on one host; what does not fit is deferred to the next wave. *)
(* The user may cancel and the deadline may pass at any time; the loop     *)
(* looks at both once per wave, every thread before its request.  Whatever *)
(* happens, every provider must end in exactly one of the four counters.   *)
(* The rate limiter is left out: every caller builds it with a rate of 0,  *)
(* which lets every request through.                                       *)
(***************************************************************************)
EXTENDS Naturals, Sequences, FiniteSets

CONSTANTS
  Requested,      \* number of providers planned
  HostName,
  Host,           \* [Provider -> HostName], host_key
  Accepted,       \* the providers that accept the entity
  MaxProviders, MaxConcurrency, MaxPerHost

Provider == 1..Requested

ASSUME SearchConstants ==
  /\ {Requested, MaxProviders, MaxConcurrency, MaxPerHost} \subseteq Nat
  /\ Host \in [Provider -> HostName]

VARIABLES
  pc,         \* where run_with_progress is
  pending,    \* providers the wave has still to consider
  deferred,   \* providers left for the next wave
  thread,     \* [Provider -> its thread in this wave, or "none"]
  completed, skipped, cancelled, unscanned, truncated,   \* SearchAccounting
  observed,   \* providers with an observation
  flag,       \* the user's cancel flag
  expired,    \* the deadline has passed
  contacts,   \* history: [Provider -> requests sent to it]
  lateWaves   \* history: waves started after the flag rose or the deadline passed

accounting == <<completed, skipped, cancelled, unscanned, truncated>>
vars == <<pc, pending, deferred, thread, accounting, observed, flag, expired, contacts, lateWaves>>

Wave == {i \in Provider : thread[i] # "none"}
Ended == {"value", "error", "cancelled", "deadline"}

AdmittedCount == IF Requested < MaxProviders THEN Requested ELSE MaxProviders

\* A bug: a limit of zero is taken as it is.
AtLeastOneUnclamped(n) == n

AtLeastOne(n) == IF n = 0 THEN 1 ELSE n

Init ==
  /\ pc = "top"
  /\ pending = [i \in 1..AdmittedCount |-> i]
  /\ deferred = <<>>
  /\ thread = [i \in Provider |-> "none"]
  /\ completed = 0 /\ skipped = 0 /\ cancelled = 0
  /\ unscanned = Requested - AdmittedCount
  /\ truncated = (unscanned > 0)
  /\ observed = {}
  /\ flag = FALSE /\ expired = FALSE
  /\ contacts = [i \in Provider |-> 0]
  /\ lateWaves = 0

At(from, to) == pc = from /\ pc' = to

-----------------------------------------------------------------------------
(* The loop                                                                *)

Finish ==
  /\ pending = <<>>
  /\ At("top", "done")
  /\ UNCHANGED <<pending, deferred, thread, accounting, observed, flag, expired, contacts, lateWaves>>

StopCancelled ==
  /\ pending # <<>> /\ flag
  /\ At("top", "done")
  /\ cancelled' = cancelled + Len(pending)
  /\ pending' = <<>>
  /\ UNCHANGED <<deferred, thread, completed, skipped, unscanned, truncated, observed, flag,
                 expired, contacts, lateWaves>>

\* A bug: the loop trusts the threads to notice the flag.
NotCancelledUnread ==
  /\ pending # <<>>
  /\ At("top", "clock")
  /\ UNCHANGED <<pending, deferred, thread, accounting, observed, flag, expired, contacts, lateWaves>>

NotCancelled ==
  /\ pending # <<>> /\ ~flag
  /\ At("top", "clock")
  /\ UNCHANGED <<pending, deferred, thread, accounting, observed, flag, expired, contacts, lateWaves>>

StopExpired ==
  /\ expired
  /\ At("clock", "done")
  /\ unscanned' = unscanned + Len(pending)
  /\ truncated' = TRUE
  /\ pending' = <<>>
  /\ UNCHANGED <<deferred, thread, completed, skipped, cancelled, observed, flag,
                 expired, contacts, lateWaves>>

NotExpired ==
  /\ ~expired
  /\ At("clock", "select")
  /\ UNCHANGED <<pending, deferred, thread, accounting, observed, flag, expired, contacts, lateWaves>>

\* A bug: the host's count includes one more.
HasRoomOverHost(i) ==
  /\ Cardinality(Wave) < AtLeastOne(MaxConcurrency)
  /\ Cardinality({j \in Wave : Host[j] = Host[i]}) <= AtLeastOne(MaxPerHost)

HasRoom(i) ==
  /\ Cardinality(Wave) < AtLeastOne(MaxConcurrency)
  /\ Cardinality({j \in Wave : Host[j] = Host[i]}) < AtLeastOne(MaxPerHost)

\* A bug: what has no room in this wave is forgotten.
ConsiderDrops ==
  LET i == Head(pending)
  IN /\ pc = "select" /\ pending # <<>>
     /\ pending' = Tail(pending)
     /\ skipped' = IF i \in Accepted THEN skipped ELSE skipped + 1
     /\ thread' = IF i \in Accepted /\ HasRoom(i) THEN [thread EXCEPT ![i] = "spawned"] ELSE thread
     /\ UNCHANGED <<pc, deferred, completed, cancelled, unscanned, truncated, observed, flag,
                    expired, contacts, lateWaves>>

\* One turn of the loop that fills the wave.
Consider ==
  LET i == Head(pending)
  IN /\ pc = "select" /\ pending # <<>>
     /\ pending' = Tail(pending)
     /\ \/ /\ i \notin Accepted
           /\ skipped' = skipped + 1
           /\ UNCHANGED <<thread, deferred>>
        \/ /\ i \in Accepted /\ HasRoom(i)
           /\ thread' = [thread EXCEPT ![i] = "spawned"]
           /\ UNCHANGED <<skipped, deferred>>
        \/ /\ i \in Accepted /\ ~HasRoom(i)
           /\ deferred' = Append(deferred, i)
           /\ UNCHANGED <<skipped, thread>>
     /\ UNCHANGED <<pc, completed, cancelled, unscanned, truncated, observed, flag, expired,
                    contacts, lateWaves>>

StartWave ==
  /\ pending = <<>>
  /\ At("select", "wave")
  /\ lateWaves' = IF flag \/ expired THEN lateWaves + 1 ELSE lateWaves
  /\ UNCHANGED <<pending, deferred, thread, accounting, observed, flag, expired, contacts>>

\* A bug: a provider whose request failed is tried again.
CollectRetries ==
  LET with(ends) == {i \in Wave : thread[i] \in ends}
      again == CHOOSE s \in [1..Cardinality(with({"error"})) -> with({"error"})] :
                 \A x \in with({"error"}) : \E k \in DOMAIN s : s[k] = x
  IN /\ At("wave", "top")
     /\ \A i \in Wave : thread[i] \in Ended
     /\ completed' = completed + Cardinality(with({"value"}))
     /\ observed' = observed \cup with({"value"})
     /\ cancelled' = cancelled + Cardinality(with({"cancelled"}))
     /\ unscanned' = unscanned + Cardinality(with({"deadline"}))
     /\ truncated' = (truncated \/ with({"deadline"}) # {})
     /\ thread' = [i \in Provider |-> "none"]
     /\ pending' = deferred \o again
     /\ deferred' = <<>>
     /\ UNCHANGED <<skipped, flag, expired, contacts, lateWaves>>

\* A bug: a request that ran into the deadline only sets `truncated`.
CollectUncounted ==
  LET with(ends) == {i \in Wave : thread[i] \in ends}
  IN /\ At("wave", "top")
     /\ \A i \in Wave : thread[i] \in Ended
     /\ completed' = completed + Cardinality(with({"value", "error"}))
     /\ observed' = observed \cup with({"value", "error"})
     /\ cancelled' = cancelled + Cardinality(with({"cancelled"}))
     /\ truncated' = (truncated \/ with({"deadline"}) # {})
     /\ thread' = [i \in Provider |-> "none"]
     /\ pending' = deferred
     /\ deferred' = <<>>
     /\ UNCHANGED <<skipped, unscanned, flag, expired, contacts, lateWaves>>

\* Every thread is joined, then each result is counted; a panic is an error,
\* and an error is an observation.
Collect ==
  LET with(ends) == {i \in Wave : thread[i] \in ends}
  IN /\ At("wave", "top")
     /\ \A i \in Wave : thread[i] \in Ended
     /\ completed' = completed + Cardinality(with({"value", "error"}))
     /\ observed' = observed \cup with({"value", "error"})
     /\ cancelled' = cancelled + Cardinality(with({"cancelled"}))
     /\ unscanned' = unscanned + Cardinality(with({"deadline"}))
     /\ truncated' = (truncated \/ with({"deadline"}) # {})
     /\ thread' = [i \in Provider |-> "none"]
     /\ pending' = deferred
     /\ deferred' = <<>>
     /\ UNCHANGED <<skipped, flag, expired, contacts, lateWaves>>

-----------------------------------------------------------------------------
(* The threads of a wave, the user and the clock                           *)

Moves(i, from, to) ==
  /\ pc = "wave"
  /\ thread[i] = from
  /\ thread' = [thread EXCEPT ![i] = to]
  /\ UNCHANGED <<pc, pending, deferred, accounting, observed, flag, expired, lateWaves>>

\* SharedHttpClient::get reads the flag, then the deadline.
SendRequest(i) ==
  /\ ~flag /\ ~expired
  /\ Moves(i, "spawned", "contacting")
  /\ contacts' = [contacts EXCEPT ![i] = @ + 1]

\* An answer, an error, a panic, the flag or the deadline ends the thread.
ThreadEnds(i) ==
  /\ \E from \in {"spawned", "contacting"}, to \in Ended :
       /\ to = "value" => from = "contacting"
       /\ to = "cancelled" => flag
       /\ to = "deadline" => expired
       /\ Moves(i, from, to)
  /\ UNCHANGED contacts

Cancel ==
  /\ pc # "done" /\ ~flag
  /\ flag' = TRUE
  /\ UNCHANGED <<pc, pending, deferred, thread, accounting, observed, expired, contacts, lateWaves>>

DeadlinePasses ==
  /\ pc # "done" /\ ~expired
  /\ expired' = TRUE
  /\ UNCHANGED <<pc, pending, deferred, thread, accounting, observed, flag, contacts, lateWaves>>

-----------------------------------------------------------------------------

Loop ==
  \/ Finish \/ StopCancelled \/ NotCancelled \/ StopExpired \/ NotExpired
  \/ Consider \/ StartWave \/ Collect

Returned == pc = "done" /\ UNCHANGED vars

Next ==
  \/ Loop \/ Cancel \/ DeadlinePasses \/ Returned
  \/ \E i \in Provider : SendRequest(i) \/ ThreadEnds(i)

Spec == Init /\ [][Next]_vars

\* The calling thread runs, and a request ends: it has a timeout.
FairSpec ==
  /\ Spec
  /\ WF_vars(Loop)
  /\ \A i \in Provider : WF_vars(ThreadEnds(i))

-----------------------------------------------------------------------------
(* Properties                                                              *)

\* At every point, through deferral, panics, cancellation and the deadline,
\* every requested provider is in exactly one counter or still under way; at
\* the end this is the debug_assert of run_with_progress.
EveryProviderAccounted ==
  completed + skipped + cancelled + unscanned
    + Len(pending) + Len(deferred) + Cardinality(Wave) = Requested

\* A wave never has more threads than allowed, in all or on one host.
WaveWithinLimits ==
  /\ Cardinality(Wave) <= AtLeastOne(MaxConcurrency)
  /\ \A h \in HostName : Cardinality({i \in Wave : Host[i] = h}) <= AtLeastOne(MaxPerHost)

\* However often it is deferred, a provider is contacted at most once, and
\* every completed one has its one observation.
ContactedOnce ==
  /\ \A i \in Provider : contacts[i] <= 1
  /\ completed = Cardinality(observed)

\* A search that nobody cancelled and that met its deadline has left nothing
\* out, and `truncated` says exactly whether something was not scanned.
CompleteUnlessStopped ==
  /\ pc = "done" /\ ~flag /\ ~expired => completed + skipped = AdmittedCount
  /\ truncated <=> unscanned > 0

\* Once it is cancelled or out of time a search starts at most the wave it was
\* about to start.
StopsWithinOneWave == lateWaves <= 1

\* The search is exact: it counts everybody once, contacts nobody twice,
\* leaves nobody out, and keeps to its limits and to the cancel.
SearchExact ==
  /\ EveryProviderAccounted /\ ContactedOnce /\ CompleteUnlessStopped
  /\ WaveWithinLimits /\ StopsWithinOneWave

\* The search returns whatever the providers do: once the loop has begun a
\* turn, every wave takes at least one provider, whatever the limits.
SearchEnds == (pc # "top") ~> (pc = "done")
=============================================================================
