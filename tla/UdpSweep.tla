----------------------------- MODULE UdpSweep -----------------------------
(***************************************************************************)
(* The UDP scan of Linux: connected sockets in a polled window, silence    *)
(* retried, and every outcome counted even when its record is not kept     *)
(* (udp_scanner.rs, scan_ports_udp).                                       *)
(***************************************************************************)
EXTENDS Naturals, Sequences, FiniteSets, SequencesExt

CONSTANTS UdpPorts,       \* 1..n, the requested ports sorted and deduplicated
          UdpWindow,      \* UdpScanConfig.max_in_flight
          UdpRetries      \* UdpScanConfig.max_retries

ASSUME UdpAssumption == /\ IsFiniteSet(UdpPorts) /\ UdpPorts = 1..Cardinality(UdpPorts)
                        /\ UdpWindow \in Nat \ {0} /\ UdpRetries \in Nat

VARIABLES uq,        \* queue of [port, try]
          up,        \* per port in flight: its try, what its socket holds, whether the
                     \* socket got the very port it probes, whether the try has lapsed
          ucount,    \* outcomes counted, by state
          uprobes,   \* per port, the records kept
          uretain,   \* config.retain_detail
          uphase, uready, uend, uworld     \* as in ConnectSweep

udpvars == <<uq, up, ucount, uprobes, uretain, uphase, uready, uend, uworld>>

UdpStates == {"open", "closed", "silent", "error"}
UdpHeld == {"none", "reply", "refused", "failure"}

Probing == DOMAIN up
UdpUnscanned == Len(uq) + Cardinality(Probing)
UdpMayGoOn == ~ uworld.cancelled /\ ~ uworld.expired

UdpInit ==
    /\ uq = [i \in 1..Cardinality(UdpPorts) |-> [port |-> i, try |-> 1]]
    /\ up = << >> /\ uready = {}
    /\ ucount = [s \in UdpStates |-> 0]
    /\ uprobes = [p \in UdpPorts |-> << >>]
    /\ uretain \in BOOLEAN
    /\ uphase = "fill" /\ uend = "nothing"
    /\ uworld = [cancelled |-> FALSE, expired |-> FALSE]

\* A bug: what is not kept is not counted.
UdpRecordKept(verdict) ==
    LET kept == {p \in DOMAIN verdict : uretain \/ verdict[p] = "open"}
    IN  /\ ucount' = [s \in UdpStates |-> ucount[s] + Cardinality({p \in kept : verdict[p] = s})]
        /\ uprobes' = [p \in UdpPorts |-> IF p \in kept THEN Append(uprobes[p], verdict[p]) ELSE uprobes[p]]

\* UdpScanOutcome::record for several ports at once: all are counted; a
\* record is kept for an open port, and for the others when detail is kept.
UdpRecord(verdict) ==
    /\ ucount' = [s \in UdpStates |-> ucount[s] + Cardinality({p \in DOMAIN verdict : verdict[p] = s})]
    /\ uprobes' = [p \in UdpPorts |->
                     IF p \in DOMAIN verdict /\ (uretain \/ verdict[p] = "open")
                     THEN Append(uprobes[p], verdict[p]) ELSE uprobes[p]]

-----------------------------------------------------------------------------

UdpCancel == /\ ~ uworld.cancelled /\ uphase # "done"
             /\ uworld' = [uworld EXCEPT !.cancelled = TRUE]
             /\ UNCHANGED <<uq, up, ucount, uprobes, uretain, uphase, uready, uend>>

UdpExpire == /\ ~ uworld.expired /\ uphase # "done"
             /\ uworld' = [uworld EXCEPT !.expired = TRUE]
             /\ UNCHANGED <<uq, up, ucount, uprobes, uretain, uphase, uready, uend>>

UdpArrive(p) == /\ uphase # "done" /\ up[p].held = "none"
                /\ \E h \in UdpHeld \ {"none"} : up' = [up EXCEPT ![p].held = h]
                /\ UNCHANGED <<uq, ucount, uprobes, uretain, uphase, uready, uend, uworld>>

UdpLapse(p) == /\ uphase # "done" /\ ~ up[p].due
               /\ up' = [up EXCEPT ![p].due = TRUE]
               /\ UNCHANGED <<uq, ucount, uprobes, uretain, uphase, uready, uend, uworld>>

-----------------------------------------------------------------------------

UdpStop ==
    /\ uphase \in {"fill", "poll"} /\ UdpUnscanned > 0 /\ ~ UdpMayGoOn
    /\ uend' = IF uworld.cancelled THEN "token" ELSE "deadline"
    /\ uphase' = "done"
    /\ UNCHANGED <<uq, up, ucount, uprobes, uretain, uready, uworld>>

\* A socket is opened, connected and its datagram sent; a refusal seen at
\* once closes the port, any other failure is an error.
UdpSend ==
    /\ uphase = "fill" /\ UdpMayGoOn
    /\ uq # << >> /\ Cardinality(Probing) < UdpWindow
    /\ uq' = Tail(uq)
    /\ LET item == Head(uq) IN
         \/ /\ \E self \in BOOLEAN :
                 up' = [p \in Probing \cup {item.port} |->
                          IF p = item.port
                          THEN [try |-> item.try, held |-> "none", self |-> self, due |-> FALSE]
                          ELSE up[p]]
            /\ UNCHANGED <<ucount, uprobes>>
         \/ /\ \E v \in {"closed", "error"} : UdpRecord([p \in {item.port} |-> v])
            /\ UNCHANGED up
    /\ UNCHANGED <<uretain, uphase, uready, uend, uworld>>

UdpEndFill ==
    /\ uphase = "fill" /\ Probing # {}
    /\ uphase' = "poll"
    /\ UNCHANGED <<uq, up, ucount, uprobes, uretain, uready, uend, uworld>>

UdpPoll ==
    /\ uphase = "poll" /\ UdpMayGoOn
    /\ \/ /\ uphase' = "fill" /\ UNCHANGED uready
       \/ /\ uphase' = "judge"
          /\ uready' \in {{}, {p \in Probing : up[p].held # "none"}}
    /\ UNCHANGED <<uq, up, ucount, uprobes, uretain, uend, uworld>>

\* What a socket shows that says something of the target: the datagram read
\* on a socket bound to the probed port is taken for the probe itself.
Telling(p) == up[p].held \in {"refused", "failure"} \/ (up[p].held = "reply" /\ ~ up[p].self)
Told(p) == CASE up[p].held = "reply" -> "open"
             [] up[p].held = "refused" -> "closed"
             [] up[p].held = "failure" -> "error"

\* The sockets whose own probe came back after the poll: the second recv()
\* succeeds, its datagram is skipped, and the code goes on to read errno,
\* which no failed call of this socket has set.
Echoed(p) == p \notin uready /\ up[p].held = "reply" /\ up[p].self

\* A bug: one try too many.
UdpMayRetryOnceMore(p) == up[p].try <= UdpRetries + 1

UdpMayRetry(p) == up[p].try <= UdpRetries

\* A bug: only what the poll reported is read.
LookedReady(lapsed, denied) == {p \in uready : Telling(p)}

\* Ports concluded from what their socket shows.
Looked(lapsed, denied) == {p \in uready \cup (lapsed \ denied) : Telling(p)}

\* A lapsed try is looked at once more before it is retried; after a
\* cancellation or the deadline it goes back to the queue unconsumed (the
\* token may come in the middle of the round: then only some do).
UdpJudge ==
    LET lapsed == {p \in Probing : up[p].due /\ ~ (p \in uready /\ Telling(p))}
    IN \E denied \in (IF UdpMayGoOn THEN {{}} ELSE SUBSET lapsed) :
       \E misread \in SUBSET {p \in lapsed \ denied : Echoed(p)} :
       \E stale \in [misread -> {"closed", "error"}] :
    LET looked == Looked(lapsed, denied)
        mute == lapsed \ (denied \cup misread \cup looked)
        again == {p \in mute : UdpMayRetry(p)}
        lost == mute \ again
        drained == {p \in uready : up[p].held = "reply"}
    IN  /\ uphase = "judge"
        /\ UdpRecord([p \in looked \cup lost \cup misread |->
                         CASE p \in lost -> "silent"
                           [] p \in misread -> stale[p]
                           [] OTHER -> Told(p)])
        /\ up' = [p \in Probing \ (looked \cup lapsed) |->
                    IF p \in drained THEN [up[p] EXCEPT !.held = "none"] ELSE up[p]]
        /\ \E o1 \in SetToSeqs(denied), o2 \in SetToSeqs(again) :
              uq' = [i \in 1..Len(o2) |-> [port |-> o2[i], try |-> up[o2[i]].try + 1]]
                    \o [i \in 1..Len(o1) |-> [port |-> o1[i], try |-> up[o1[i]].try]] \o uq
        /\ uphase' = "fill" /\ uready' = {}
        /\ UNCHANGED <<uretain, uend, uworld>>

UdpFinish ==
    /\ uphase = "fill" /\ UdpUnscanned = 0
    /\ uphase' = "done"
    /\ UNCHANGED <<uq, up, ucount, uprobes, uretain, uready, uend, uworld>>

UdpNext == \/ UdpStop \/ UdpSend \/ UdpEndFill \/ UdpPoll \/ UdpJudge \/ UdpFinish
           \/ UdpCancel \/ UdpExpire
           \/ \E p \in Probing : UdpArrive(p) \/ UdpLapse(p)

UdpSpec == UdpInit /\ [][UdpNext]_udpvars

-----------------------------------------------------------------------------

UdpTypeOK ==
    /\ uq \in Seq([port : UdpPorts, try : 1..UdpRetries + 1])
    /\ Probing \subseteq UdpPorts /\ Cardinality(Probing) <= UdpWindow
    /\ \A p \in Probing : up[p] \in [try : 1..UdpRetries + 1, held : UdpHeld,
                                     self : BOOLEAN, due : BOOLEAN]
    /\ ucount \in [UdpStates -> Nat]
    /\ uprobes \in [UdpPorts -> Seq(UdpStates)]
    /\ uretain \in BOOLEAN
    /\ uphase \in {"fill", "poll", "judge", "done"} /\ uready \subseteq Probing
    /\ uend \in {"nothing", "token", "deadline"}
    /\ uworld \in [cancelled : BOOLEAN, expired : BOOLEAN]

Counted == ucount["open"] + ucount["closed"] + ucount["silent"] + ucount["error"]
KeptAs(s) == {p \in UdpPorts : uprobes[p] = <<s>>}

\* The counters are exact whether or not the records are kept: counted and
\* unscanned ports add up to the requested ones at every point of the scan,
\* and the kept records are those the counters speak of.
UdpCountsExact ==
    /\ Counted + UdpUnscanned = Cardinality(UdpPorts)
    /\ Cardinality(KeptAs("open")) = ucount["open"]
    /\ uretain => \A s \in UdpStates : Cardinality(KeptAs(s)) = ucount[s]
    /\ ~ uretain => \A p \in UdpPorts : uprobes[p] \in {<< >>, <<"open">>}

\* An answer that lies in the socket when its try lapses is not lost: unless
\* the scan is being stopped, the port is concluded from it, never retried
\* and never called silent ("must not trigger an unnecessary retry").
UdpLateAnswerCounts ==
    [][\A p \in Probing \ DOMAIN up' :
         Telling(p) /\ UdpMayGoOn =>
            /\ \A i \in 1..Len(uq') : uq'[i].port # p
            /\ uretain => uprobes'[p] = <<Told(p)>>]_udpvars

=============================================================================
