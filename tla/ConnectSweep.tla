--------------------------- MODULE ConnectSweep ---------------------------
(***************************************************************************)
(* The TCP connect scan of Linux: one thread keeps a window of sockets     *)
(* whose connect() is in progress, polls them, and retries the silent ones *)
(* (tcp_scanner.rs, scan_ports_nonblocking).                               *)
(***************************************************************************)
EXTENDS Naturals, Sequences, FiniteSets, SequencesExt

CONSTANTS TcpPorts,       \* 1..n, the requested ports sorted and deduplicated
          TcpWindow,      \* ScanConfig.max_concurrent
          TcpRetries      \* ScanConfig.max_retries, 0 or 1

ASSUME TcpAssumption == /\ IsFiniteSet(TcpPorts) /\ TcpPorts = 1..Cardinality(TcpPorts)
                        /\ TcpWindow \in Nat \ {0}
                        /\ TcpRetries \in {0, 1}

VARIABLES tq,        \* queue: ports still to try, each with the number of that try
          tp,        \* pending: per port in flight, its try, the socket's answer, and
                     \* whether its deadline has passed
          tprobes,   \* per port, the verdicts pushed for it
          tphase,    \* where the loop stands: fill, poll or done
          tend,      \* what stopped the scan: nothing, the token, the deadline
          tworld     \* the caller's side: its token, and the overall deadline

tcpvars == <<tq, tp, tprobes, tphase, tend, tworld>>

TcpVerdicts == {"open", "closed", "silent", "error"}
TcpAnswers == TcpVerdicts \cup {"none"}     \* what SO_ERROR holds; none: no event yet

InFlight == DOMAIN tp

TcpInit ==
    /\ tq = [i \in 1..Cardinality(TcpPorts) |-> [port |-> i, try |-> 1]]
    /\ tp = << >>
    /\ tprobes = [p \in TcpPorts |-> << >>]
    /\ tphase = "fill" /\ tend = "nothing"
    /\ tworld = [cancelled |-> FALSE, expired |-> FALSE]

\* A bug: a port whose connect() is in progress counts as scanned.
TcpUnscannedQueued == Len(tq)

TcpUnscanned == Len(tq) + Cardinality(InFlight)

-----------------------------------------------------------------------------
(* The caller, the clock and the network. *)

TcpCancel == /\ ~ tworld.cancelled /\ tphase # "done"
             /\ tworld' = [tworld EXCEPT !.cancelled = TRUE]
             /\ UNCHANGED <<tq, tp, tprobes, tphase, tend>>

TcpExpire == /\ ~ tworld.expired /\ tphase # "done"
             /\ tworld' = [tworld EXCEPT !.expired = TRUE]
             /\ UNCHANGED <<tq, tp, tprobes, tphase, tend>>

TcpAnswer(p) == /\ tphase # "done" /\ tp[p].answer = "none"
                /\ \E a \in TcpVerdicts : tp' = [tp EXCEPT ![p].answer = a]
                /\ UNCHANGED <<tq, tprobes, tphase, tend, tworld>>

TcpLapse(p) == /\ tphase # "done" /\ ~ tp[p].due
               /\ tp' = [tp EXCEPT ![p].due = TRUE]
               /\ UNCHANGED <<tq, tprobes, tphase, tend, tworld>>

-----------------------------------------------------------------------------
(* The loop. *)

\* A bug: the loop looks at the clock only.
MayGoOnUntilDeadline == ~ tworld.expired

MayGoOn == ~ tworld.cancelled /\ ~ tworld.expired

\* A bug: one socket too many.
HasSlotAndOne == Cardinality(InFlight) <= TcpWindow

HasSlot == Cardinality(InFlight) < TcpWindow

\* The token is read before the deadline, before every connect and after
\* every poll; what was popped is pushed back before the loop is left.
TcpStop ==
    /\ tphase \in {"fill", "poll"} /\ TcpUnscanned > 0 /\ ~ MayGoOn
    /\ tend' = IF tworld.cancelled THEN "token" ELSE "deadline"
    /\ tphase' = "done"
    /\ UNCHANGED <<tq, tp, tprobes, tworld>>

\* One socket is opened and connect() called: its answer may be immediate.
TcpConnect ==
    /\ tphase = "fill" /\ MayGoOn
    /\ tq # << >> /\ HasSlot
    /\ tq' = Tail(tq)
    /\ LET item == Head(tq) IN
         \/ /\ tp' = [p \in InFlight \cup {item.port} |->
                        IF p = item.port
                        THEN [try |-> item.try, answer |-> "none", due |-> FALSE]
                        ELSE tp[p]]
            /\ UNCHANGED tprobes
         \/ /\ \E v \in TcpVerdicts :
                 tprobes' = [tprobes EXCEPT ![item.port] = Append(@, [state |-> v, try |-> item.try])]
            /\ UNCHANGED tp
    /\ UNCHANGED <<tphase, tend, tworld>>

\* The window is full, the queue is empty, or descriptors have run out
\* (EMFILE, ENFILE or ENOMEM: the port is pushed back and connects pause).
TcpEndFill ==
    /\ tphase = "fill" /\ InFlight # {}
    /\ tphase' = "poll"
    /\ UNCHANGED <<tq, tp, tprobes, tend, tworld>>

\* A bug: a verdict is pushed for every silent try.
ConcludedWithRetries(judged, again) == judged

\* The ports of a round that are through.
ConcludedNow(judged, again) == judged \ again

\* poll() and what follows. It reports the sockets that have an answer, or
\* none when it fails; interrupted, it goes round the loop. A silent try is
\* one whose socket says ETIMEDOUT, or which poll did not report and whose
\* deadline has passed.
TcpPoll ==
    \E ready \in {{}, {p \in InFlight : tp[p].answer # "none"}} :
    LET silent == {p \in ready : tp[p].answer = "silent"}
                    \cup {p \in InFlight \ ready : tp[p].due}
        again == {p \in silent : tp[p].try <= TcpRetries}
        judged == ready \cup silent
        verdict(p) == IF p \in silent THEN "silent" ELSE tp[p].answer
    IN  /\ tphase = "poll" /\ MayGoOn
        /\ tprobes' = [p \in TcpPorts |->
                         IF p \in ConcludedNow(judged, again)
                         THEN Append(tprobes[p], [state |-> verdict(p), try |-> tp[p].try])
                         ELSE tprobes[p]]
        /\ tp' = [p \in InFlight \ judged |-> tp[p]]
        /\ \E order \in SetToSeqs(again) :
              tq' = [i \in 1..Len(order) |-> [port |-> order[i], try |-> tp[order[i]].try + 1]] \o tq
        /\ tphase' = "fill"
        /\ UNCHANGED <<tend, tworld>>

TcpFinish ==
    /\ tphase = "fill" /\ TcpUnscanned = 0
    /\ tphase' = "done"
    /\ UNCHANGED <<tq, tp, tprobes, tend, tworld>>

TcpLoop == TcpStop \/ TcpConnect \/ TcpEndFill \/ TcpPoll \/ TcpFinish

TcpNext == \/ TcpLoop
           \/ TcpCancel \/ TcpExpire
           \/ \E p \in InFlight : TcpAnswer(p) \/ TcpLapse(p)

TcpFair == WF_tcpvars(TcpLoop)
TcpSpec == TcpInit /\ [][TcpNext]_tcpvars /\ TcpFair

-----------------------------------------------------------------------------

\* The state's shape: tries stay within the retry budget, the window within
\* its bound, and at most one verdict was pushed for a port.
TcpTypeOK ==
    /\ tq \in Seq([port : TcpPorts, try : 1..TcpRetries + 1])
    /\ InFlight \subseteq TcpPorts /\ Cardinality(InFlight) <= TcpWindow
    /\ \A p \in InFlight :
          tp[p] \in [try : 1..TcpRetries + 1, answer : TcpAnswers, due : BOOLEAN]
    /\ tprobes \in [TcpPorts -> Seq([state : TcpVerdicts, try : 1..TcpRetries + 1])]
    /\ tphase \in {"fill", "poll", "done"}
    /\ tend \in {"nothing", "token", "deadline"}
    /\ tworld \in [cancelled : BOOLEAN, expired : BOOLEAN]

Waiting(p) == {i \in 1..Len(tq) : tq[i].port = p}

\* Every requested port is in exactly one place: waiting in the queue, in
\* the window, or concluded, whatever the retries and push-backs did. This is
\* what makes probes + unscanned == requested true of a scan cut at any point.
TcpEachPortOnce ==
    \A p \in TcpPorts :
       Cardinality(Waiting(p)) + (IF p \in InFlight THEN 1 ELSE 0) + Len(tprobes[p]) = 1

\* The connect scan keeps the promise of every scanner (ScanOutcome).
TcpSweep == INSTANCE ProbeSweep WITH
    Ports <- TcpPorts, Verdicts <- TcpVerdicts,
    found <- [p \in TcpPorts |-> IF tprobes[p] = << >> THEN "none" ELSE tprobes[p][1].state],
    report <- [over |-> tphase = "done",
               unscanned |-> IF tphase = "done" THEN TcpUnscanned ELSE 0,
               truncated |-> tphase = "done" /\ (tend # "nothing" \/ TcpUnscanned > 0),
               cancelled |-> tphase = "done" /\ tend = "token"]

TcpKeepsPromise == TcpSweep!Spec

\* A cancelled scan comes back: the token is looked at in every round of the
\* loop, also while descriptors are exhausted and nothing can be connected.
TcpCancelReturns == tworld.cancelled ~> tphase = "done"
=============================================================================
