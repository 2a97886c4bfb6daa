----------------------------- MODULE PortPool -----------------------------
(***************************************************************************)
(* The portable scans (Windows, macOS): a few threads take ports from one  *)
(* shared queue, each blocks on its own connect() or on its own datagram,  *)
(* and all add to shared results (tcp_scanner.rs,                          *)
(* scan_ports_portable_with_connector; udp_scanner.rs,                     *)
(* scan_ports_udp_portable).                                               *)
(***************************************************************************)
EXTENDS Naturals, Sequences, FiniteSets

CONSTANTS PoolPorts,      \* 1..n, the requested ports sorted and deduplicated
          PoolWorkers,    \* the threads: max_concurrent clamped to 1..32 (16 for UDP)
          PoolRetries     \* max_retries

ASSUME PoolAssumption == /\ IsFiniteSet(PoolPorts) /\ PoolPorts = 1..Cardinality(PoolPorts)
                         /\ IsFiniteSet(PoolWorkers) /\ PoolRetries \in Nat

VARIABLES pq,        \* the shared queue of ports
          pw,        \* per thread: the port it holds (0: none), its try and its stage
          pprobes,   \* per port, the verdicts pushed for it
          pleft,     \* the unscanned counter
          pflags,    \* saw_cancelled, saw_truncated
          pudp,      \* which of the two scans this is
          pworld     \* the caller's token, the deadline, and whether the scan returned

poolvars == <<pq, pw, pprobes, pleft, pflags, pudp, pworld>>

PoolVerdicts == {"open", "closed", "silent", "error"}
Resting == [port |-> 0, try |-> 0, stage |-> "idle"]

PoolInit ==
    /\ pq = [i \in 1..Cardinality(PoolPorts) |-> i]
    /\ pw = [w \in PoolWorkers |-> Resting]
    /\ pprobes = [p \in PoolPorts |-> << >>]
    /\ pleft = 0
    /\ pflags = [cancelled |-> FALSE, truncated |-> FALSE]
    /\ pudp \in BOOLEAN
    /\ pworld = [cancelled |-> FALSE, expired |-> FALSE, over |-> FALSE]

PoolCancel == /\ ~ pworld.cancelled /\ ~ pworld.over
              /\ pworld' = [pworld EXCEPT !.cancelled = TRUE]
              /\ UNCHANGED <<pq, pw, pprobes, pleft, pflags, pudp>>

PoolExpire == /\ ~ pworld.expired /\ ~ pworld.over
              /\ pworld' = [pworld EXCEPT !.expired = TRUE]
              /\ UNCHANGED <<pq, pw, pprobes, pleft, pflags, pudp>>

\* A bug: the port is read from the queue before it is taken out.
PoolTakePeeks(w) ==
    /\ pw[w].stage = "idle" /\ pq # << >>
    /\ pw' = [pw EXCEPT ![w] = [port |-> Head(pq), try |-> 1, stage |-> "taken"]]
    /\ UNCHANGED <<pq, pprobes, pleft, pflags, pudp, pworld>>

PoolTake(w) ==
    /\ pw[w].stage = "idle" /\ pq # << >>
    /\ pw' = [pw EXCEPT ![w] = [port |-> Head(pq), try |-> 1, stage |-> "taken"]]
    /\ pq' = Tail(pq)
    /\ UNCHANGED <<pprobes, pleft, pflags, pudp, pworld>>

\* A bug: the port given up is not counted.
PoolGiveUpUncounted(w) ==
    /\ pw[w].stage \in {"taken", "trying"}
    /\ pworld.cancelled \/ pworld.expired
    /\ pflags' = [cancelled |-> pflags.cancelled \/ pworld.cancelled, truncated |-> TRUE]
    /\ pw' = [pw EXCEPT ![w] = Resting]
    /\ UNCHANGED <<pq, pprobes, pleft, pudp, pworld>>

\* A bug: the deadline is looked at for the first try only.
PoolGiveUpFirst(w) ==
    /\ pw[w].stage = "taken" \/ (pw[w].stage = "trying" /\ pworld.cancelled)
    /\ pworld.cancelled \/ pworld.expired
    /\ pflags' = [cancelled |-> pflags.cancelled \/ pworld.cancelled, truncated |-> TRUE]
    /\ pleft' = pleft + 1
    /\ pw' = [pw EXCEPT ![w] = Resting]
    /\ UNCHANGED <<pq, pprobes, pudp, pworld>>

\* The token, then the deadline, are looked at when a port is taken and
\* before every try: the port given up is counted as unscanned.
PoolGiveUp(w) ==
    /\ pw[w].stage \in {"taken", "trying"}
    /\ pworld.cancelled \/ pworld.expired
    /\ pflags' = [cancelled |-> pflags.cancelled \/ pworld.cancelled, truncated |-> TRUE]
    /\ pleft' = pleft + 1
    /\ pw' = [pw EXCEPT ![w] = Resting]
    /\ UNCHANGED <<pq, pprobes, pudp, pworld>>

PoolConclude(w, verdict) ==
    /\ pprobes' = [pprobes EXCEPT ![pw[w].port] = Append(@, [state |-> verdict, try |-> pw[w].try])]
    /\ pw' = [pw EXCEPT ![w] = Resting]
    /\ UNCHANGED <<pq, pleft, pflags, pudp, pworld>>

\* The first look passed; the UDP scan binds the one socket of this port.
PoolBegin(w) ==
    /\ pw[w].stage = "taken" /\ ~ pworld.cancelled /\ ~ pworld.expired
    /\ \/ /\ pw' = [pw EXCEPT ![w].stage = "trying"]
          /\ UNCHANGED <<pq, pprobes, pleft, pflags, pudp, pworld>>
       \/ pudp /\ PoolConclude(w, "error")

\* The second look passed, and the thread blocks in connect() or recv().
PoolTry(w) ==
    /\ pw[w].stage = "trying" /\ ~ pworld.cancelled /\ ~ pworld.expired
    /\ pw' = [pw EXCEPT ![w].stage = "blocked"]
    /\ UNCHANGED <<pq, pprobes, pleft, pflags, pudp, pworld>>

\* A bug: one try too many.
DecisionOnceMore(outcome, try) ==
    CASE outcome \in {"answered", "oversized"} -> "open"
      [] outcome = "refused" -> "closed"
      [] outcome = "timeout" -> IF try <= PoolRetries + 1 THEN "retry" ELSE "silent"
      [] outcome = "failure" -> "error"

\* decide_portable_recv_failure, and the same decisions of the TCP scan.
Decision(outcome, try) ==
    CASE outcome \in {"answered", "oversized"} -> "open"
      [] outcome = "refused" -> "closed"
      [] outcome = "timeout" -> IF try <= PoolRetries THEN "retry" ELSE "silent"
      [] outcome = "failure" -> "error"

\* A silent try that may be repeated goes round the loop; when the deadline
\* has passed meanwhile the TCP scan gives the port up at once.
PoolReturn(w) ==
    /\ pw[w].stage = "blocked"
    /\ \E outcome \in {"answered", "refused", "timeout", "failure"}
                        \cup (IF pudp THEN {"oversized"} ELSE {}) :
         LET d == Decision(outcome, pw[w].try) IN
         \/ /\ d = "retry" /\ ~ (pworld.expired /\ ~ pudp)
            /\ pw' = [pw EXCEPT ![w].try = @ + 1, ![w].stage = "trying"]
            /\ UNCHANGED <<pq, pprobes, pleft, pflags, pudp, pworld>>
         \/ /\ d = "retry" /\ pworld.expired /\ ~ pudp
            /\ pflags' = [pflags EXCEPT !.truncated = TRUE]
            /\ pleft' = pleft + 1
            /\ pw' = [pw EXCEPT ![w] = Resting]
            /\ UNCHANGED <<pq, pprobes, pudp, pworld>>
         \/ d # "retry" /\ PoolConclude(w, d)

\* Every thread found the queue empty and returned.
PoolJoin ==
    /\ pq = << >> /\ \A w \in PoolWorkers : pw[w].stage = "idle"
    /\ ~ pworld.over
    /\ pworld' = [pworld EXCEPT !.over = TRUE]
    /\ UNCHANGED <<pq, pw, pprobes, pleft, pflags, pudp>>

PoolStep(w) == PoolTake(w) \/ PoolGiveUp(w) \/ PoolBegin(w) \/ PoolTry(w) \/ PoolReturn(w)

PoolNext == PoolCancel \/ PoolExpire \/ PoolJoin \/ \E w \in PoolWorkers : PoolStep(w)

\* Threads are scheduled, and a blocked call returns within its timeout.
PoolFair == /\ WF_poolvars(PoolJoin)
            /\ \A w \in PoolWorkers : WF_poolvars(PoolStep(w))
PoolSpec == PoolInit /\ [][PoolNext]_poolvars /\ PoolFair

-----------------------------------------------------------------------------

PoolTypeOK ==
    /\ pq \in Seq(PoolPorts)
    /\ pw \in [PoolWorkers -> [port : PoolPorts \cup {0}, try : 0..PoolRetries + 1,
                               stage : {"idle", "taken", "trying", "blocked"}]]
    /\ pprobes \in [PoolPorts -> Seq([state : PoolVerdicts, try : 1..PoolRetries + 1])]
    /\ pleft \in 0..Cardinality(PoolPorts)
    /\ pflags \in [cancelled : BOOLEAN, truncated : BOOLEAN]
    /\ pudp \in BOOLEAN
    /\ pworld \in [cancelled : BOOLEAN, expired : BOOLEAN, over : BOOLEAN]

\* The pool keeps the promise of every scanner: the threads' counters, read
\* after the join, account for each requested port, and what any of them
\* concluded is what the caller gets.
PoolSweep == INSTANCE ProbeSweep WITH
    Ports <- PoolPorts, Verdicts <- PoolVerdicts,
    found <- [p \in PoolPorts |-> IF pprobes[p] = << >> THEN "none" ELSE pprobes[p][1].state],
    report <- [over |-> pworld.over,
               unscanned |-> IF pworld.over THEN pleft ELSE 0,
               truncated |-> pworld.over /\ (pflags.truncated \/ pleft > 0),
               cancelled |-> pworld.over /\ pflags.cancelled]

PoolKeepsPromise == PoolSweep!Spec

\* No two threads work on the same port, and none on a concluded one.
PoolOneThreadPerPort ==
    \A w \in PoolWorkers : pw[w].port # 0 =>
       /\ pprobes[pw[w].port] = << >>
       /\ \A v \in PoolWorkers \ {w} : pw[v].port # pw[w].port
       /\ \A i \in 1..Len(pq) : pq[i] # pw[w].port

\* The scan returns: once a thread has taken a port the queue is drained and
\* the threads joined, whatever the answers, the token and the deadline do.
PoolEnds == (\E w \in PoolWorkers : pw[w].stage # "idle") ~> pworld.over
=============================================================================
