------------------------------ MODULE PortTask ------------------------------
(* A port discovery task, TCP or UDP, around the sweep of one address        *)
(* (src/src/tcp_discovery.rs, src/src/udp_discovery.rs): which addresses it  *)
(* scans, what it makes of the outcomes and what it reports when the scan    *)
(* is cut short. The sweep itself is ConnectSweep, UdpSweep or SynSweep; the *)
(* task sees what they promise: each port has a verdict or is unscanned.     *)
EXTENDS Naturals, FiniteSets, Sequences, FiniteSetsExt, SequencesExt

CONSTANTS TaskAddresses,  \* 1..n, the addresses of a name as they resolve
          TaskPorts,      \* every port
          CommonPorts,    \* the common profile
          DetailLimit,    \* MAX_DETAILED_PORT_EVENTS, MAX_DETAILED_UDP_EVENTS
          MaxTaskIps      \* MAX_IPS_PER_PORT_TASK, MAX_IPS_PER_UDP_TASK

ASSUME PortTaskAssumption ==
  /\ IsFiniteSet(TaskAddresses) /\ TaskAddresses = 1..Cardinality(TaskAddresses)
  /\ IsFiniteSet(TaskPorts) /\ CommonPorts \subseteq TaskPorts
  /\ DetailLimit \in Nat /\ MaxTaskIps \in Nat \ {0}

VARIABLES ktask,      \* the task: [transport, target, selection, narrowed]
          kscope,     \* addresses the guard permits now
          kworld,     \* [cancelled, expired]
          kphase,     \* "queued", "scanning", "ended"
          kips,       \* the addresses of the scan, in order
          kleft,      \* those still to scan
          kacct,      \* [counts, unscanned, truncated]
          kout,       \* [events, assets, findings, attempted, summary, requested]
          kresult,    \* "none", "cancelled", "failed", "empty", "done"
          kprobed     \* history: <<address, port, verdict>> of the sweeps

taskvars == <<ktask, kscope, kworld, kphase, kips, kleft, kacct, kout, kresult, kprobed>>

\* A port without an answer or in error is treated as a closed one is.
TaskVerdicts == {"open", "closed", "unknown"}
UdpTaskVerdicts == {"open", "closed"}
VerdictsOf(t) == IF t = "tcp" THEN TaskVerdicts ELSE UdpTaskVerdicts

\* A name resolves to several addresses in the resolver's order; an address,
\* or a name that spells one, is itself; a task may also have no target.
Targets == {"ip", "literal", "name", "unresolved", "none"}

NoAccount == [counts |-> [v \in TaskVerdicts |-> 0], unscanned |-> 0, truncated |-> FALSE]
NoOutput == [events |-> {}, assets |-> {}, findings |-> {}, attempted |-> {},
             summary |-> FALSE, requested |-> 0]

PortTaskInit ==
  /\ ktask \in [transport : {"tcp", "udp"}, target : Targets,
                narrowed : BOOLEAN,
                selection : {<<"common">>, <<"all">>} \cup ({"explicit"} \X (SUBSET TaskPorts \ {{}}))]
  /\ kscope \in SUBSET TaskAddresses
  /\ kworld = [cancelled |-> FALSE, expired |-> FALSE]
  /\ kphase = "queued" /\ kips = <<>> /\ kleft = <<>> /\ kacct = NoAccount /\ kout = NoOutput
  /\ kresult = "none" /\ kprobed = {}

\* ports_for_task: all ports of UDP are the common ones. A selection is
\* <<"common">>, <<"all">> or <<"explicit", ports>>.
TcpPortsFor(selection) ==
  CASE selection[1] = "common" -> CommonPorts
    [] selection[1] = "all" -> TaskPorts
    [] OTHER -> selection[2]
UdpPortsFor(selection) == IF selection[1] = "explicit" THEN selection[2] ELSE CommonPorts
AskedPorts ==
  IF ktask.transport = "tcp" THEN TcpPortsFor(ktask.selection) ELSE UdpPortsFor(ktask.selection)

Detailed == Cardinality(AskedPorts) <= DetailLimit

-----------------------------------------------------------------------------
(* Where the task looks.                                                     *)

\* resolve_scan_candidates: the addresses in scope, all of them for a name.
TaskCandidates ==
  CASE ktask.target = "name" -> kscope
    [] ktask.target \in {"ip", "literal"} -> kscope \cap {1}
    [] OTHER -> {}

\* The candidates as the resolver gives them, as many as one task scans.
InResolverOrder(addresses) ==
  {order \in SetToSeqs(addresses) : \A i, j \in DOMAIN order : i < j => order[i] < order[j]}
FirstOf(order) == IF Len(order) <= MaxTaskIps THEN order ELSE SubSeq(order, 1, MaxTaskIps)

\* The scope no longer holds the address the task was made for; names stay in
\* scope, their addresses may leave it.
StaleScope == ktask.target = "ip" /\ 1 \notin kscope

TaskEnds(how) == kphase' = "ended" /\ kresult' = how

\* A task cancelled before it sent anything, or out of scope, has no output;
\* one without addresses completes with an empty report.
EndsUnscanned ==
  /\ kphase = "queued"
  /\ \/ StaleScope /\ TaskEnds("failed") /\ kout' = kout
     \/ ~ StaleScope /\ kworld.cancelled /\ TaskEnds("cancelled") /\ kout' = kout
  /\ UNCHANGED <<ktask, kscope, kworld, kleft, kacct, kips, kprobed>>

FinishEmptyScan ==
  /\ kphase = "queued" /\ ~ StaleScope /\ ~ kworld.cancelled /\ TaskCandidates = {}
  /\ TaskEnds("empty")
  /\ kout' = [NoOutput EXCEPT !.requested = Cardinality(AskedPorts)]
  /\ UNCHANGED <<ktask, kscope, kworld, kleft, kacct, kips, kprobed>>

BeginScan ==
  /\ kphase = "queued" /\ ~ StaleScope /\ ~ kworld.cancelled /\ TaskCandidates # {}
  /\ kphase' = "scanning"
  /\ \E order \in InResolverOrder(TaskCandidates) : kips' = FirstOf(order) /\ kleft' = FirstOf(order)
  /\ UNCHANGED <<ktask, kscope, kworld, kacct, kout, kresult, kprobed>>

-----------------------------------------------------------------------------
(* One address after the other.                                              *)

Looking == kphase = "scanning" /\ kleft # <<>>

Cut(unscanned) == kacct' = [kacct EXCEPT !.truncated = TRUE, !.unscanned = @ + unscanned]

\* Cancelled before an address: it and those after it are unscanned.
CutByCancel ==
  /\ Looking /\ kworld.cancelled
  /\ Cut(Cardinality(AskedPorts) * Len(kleft)) /\ kleft' = <<>>
  /\ UNCHANGED <<ktask, kscope, kworld, kphase, kout, kresult, kips, kprobed>>

\* No time for an address: its ports are unscanned, and the scan ends.
CutByDeadline ==
  /\ Looking /\ ~ kworld.cancelled /\ Head(kleft) \in kscope /\ kworld.expired
  /\ Cut(Cardinality(AskedPorts)) /\ kleft' = <<>>
  /\ UNCHANGED <<ktask, kscope, kworld, kphase, kout, kresult, kips, kprobed>>

\* The scope was narrowed meanwhile: the address is passed over.
PassOverAddress ==
  /\ Looking /\ ~ kworld.cancelled /\ Head(kleft) \notin kscope
  /\ kleft' = Tail(kleft)
  /\ UNCHANGED <<ktask, kscope, kworld, kphase, kacct, kout, kresult, kips, kprobed>>

\* What the sweep of one address may return: every port has a verdict, unless
\* a cancellation or the deadline met it.
SweepOutcomes(cancelled, expired) ==
  {o \in UNION {[ps -> VerdictsOf(ktask.transport)] : ps \in SUBSET AskedPorts} :
     cancelled \/ expired \/ DOMAIN o = AskedPorts}
Unscanned(o) == Cardinality(AskedPorts \ DOMAIN o)

CountsWith(o) ==
  [v \in TaskVerdicts |-> kacct.counts[v] + Cardinality({p \in DOMAIN o : o[p] = v})]
Tally(o, cancelled) ==
  kacct' = [counts |-> CountsWith(o), unscanned |-> kacct.unscanned + Unscanned(o),
            truncated |-> kacct.truncated \/ cancelled \/ Unscanned(o) > 0]

\* A port that is open has an asset, an event, evidence and a finding,
\* whatever the detail; the others only in a scan of few ports, where
\* everything but an unknown state of TCP is an event as well.
ShownOpen(a, o) == {<<a, p, "open">> : p \in {q \in DOMAIN o : o[q] = "open"}}
ShownOther(a, o) == {<<a, p, o[p]>> : p \in {q \in DOMAIN o : Detailed /\ o[q] # "open"}}

PortEvents(shown) == {e \in shown : e[3] # "unknown"}
Emit(a, o) ==
  kout' = [kout EXCEPT !.findings = @ \cup ShownOpen(a, o),
                       !.assets = @ \cup ShownOpen(a, o) \cup ShownOther(a, o),
                       !.events = @ \cup PortEvents(ShownOpen(a, o) \cup ShownOther(a, o))]

\* The sweep of an address, which a cancellation or the deadline may meet.
\* Cancelled during the last address, the report says truncated as well;
\* during an earlier one, the ports of those after it are counted nowhere.
ScanAddress(transport) ==
  /\ Looking /\ ktask.transport = transport /\ ~ kworld.cancelled
  /\ Head(kleft) \in kscope /\ ~ kworld.expired
  /\ \E cancelled, expired \in BOOLEAN :
       /\ kworld' = [cancelled |-> cancelled, expired |-> expired]
       /\ \E o \in SweepOutcomes(cancelled, expired) :
            /\ Tally(o, cancelled) /\ Emit(Head(kleft), o)
            /\ kprobed' = kprobed \cup {<<Head(kleft), p, o[p]>> : p \in DOMAIN o}
       /\ kleft' = IF cancelled THEN <<>> ELSE Tail(kleft)
  /\ UNCHANGED <<ktask, kscope, kphase, kresult, kips>>

TcpScanAddress == ScanAddress("tcp")
UdpScanAddress == ScanAddress("udp")

-----------------------------------------------------------------------------
(* The report.                                                               *)

\* TCP says that all it was asked for was attempted; UDP reads the ports
\* from its events.
TcpAttempted == AskedPorts
UdpAttempted == {e[2] : e \in kout.events}

\* The summary is anchored to an asset of this output, if it has one.
CompletedReport(attempted) ==
  kout' = [kout EXCEPT !.attempted = IF Detailed THEN attempted ELSE {},
                       !.requested = Cardinality(AskedPorts),
                       !.summary = kout.assets # {}]

CompletePortScan ==
  /\ kphase = "scanning" /\ kleft = <<>> /\ ktask.transport = "tcp"
  /\ CompletedReport(TcpAttempted) /\ TaskEnds("done")
  /\ UNCHANGED <<ktask, kscope, kworld, kleft, kacct, kips, kprobed>>

CompleteUdpScan ==
  /\ kphase = "scanning" /\ kleft = <<>> /\ ktask.transport = "udp"
  /\ CompletedReport(UdpAttempted) /\ TaskEnds("done")
  /\ UNCHANGED <<ktask, kscope, kworld, kleft, kacct, kips, kprobed>>

-----------------------------------------------------------------------------
(* What the report of the scan says of it.                                   *)

Completed == kresult \in {"empty", "done"}
PortsAttempted == IF kacct.unscanned > kout.requested THEN 0 ELSE kout.requested - kacct.unscanned
HumanSummary == CASE kout.findings # {} -> "open ports"
                  [] kout.findings = {} /\ Completed -> "no open ports observed"
                  [] OTHER -> "no discovery completed"

-----------------------------------------------------------------------------

\* The caller cancels, the deadline passes, the scope narrows.
CancelTask ==
  /\ kphase # "ended" /\ ~ kworld.cancelled /\ kworld' = [kworld EXCEPT !.cancelled = TRUE]
  /\ UNCHANGED <<ktask, kscope, kphase, kleft, kacct, kout, kresult, kips, kprobed>>
ExpireTask ==
  /\ kphase # "ended" /\ ~ kworld.expired /\ kworld' = [kworld EXCEPT !.expired = TRUE]
  /\ UNCHANGED <<ktask, kscope, kphase, kleft, kacct, kout, kresult, kips, kprobed>>
NarrowScope ==
  /\ kphase # "ended" /\ ktask.narrowed
  /\ \E a \in kscope : kscope' = kscope \ {a}
  /\ ktask' = [ktask EXCEPT !.narrowed = FALSE]
  /\ UNCHANGED <<kworld, kphase, kleft, kacct, kout, kresult, kips, kprobed>>

PortTaskNext ==
  \/ EndsUnscanned \/ FinishEmptyScan \/ BeginScan
  \/ CutByCancel \/ CutByDeadline \/ PassOverAddress
  \/ TcpScanAddress \/ UdpScanAddress \/ CompletePortScan \/ CompleteUdpScan
  \/ CancelTask \/ ExpireTask \/ NarrowScope

PortTaskSpec == PortTaskInit /\ [][PortTaskNext]_taskvars

-----------------------------------------------------------------------------

PortTaskTypeOK ==
  /\ kphase \in {"queued", "scanning", "ended"}
  /\ kresult \in {"none", "cancelled", "failed", "empty", "done"}
  /\ Len(kips) <= MaxTaskIps
  /\ \E n \in 0..Len(kips) : kleft = SubSeq(kips, n + 1, Len(kips))
  /\ kacct.counts \in [TaskVerdicts -> Nat] /\ kacct.unscanned \in Nat

ProbedOf(a) == {e[2] : e \in {x \in kprobed : x[1] = a}}
SumCounts == kacct.counts["open"] + kacct.counts["closed"] + kacct.counts["unknown"]

\* What a task found is reported, however it was cut short: only a task that
\* sent nothing ends without a report, every open port has its finding, every
\* verdict is counted, and a report that does not say truncated covers every
\* port of every address that is still in scope. With one address, the
\* verdicts and the unscanned ports are the ports asked for.
PortTaskWhole ==
  /\ kresult \in {"cancelled", "failed", "empty"} => kprobed = {}
  /\ kresult = "done" =>
       /\ kout.findings = {e \in kprobed : e[3] = "open"}
       /\ SumCounts = Cardinality(kprobed)
       /\ ~ kacct.truncated => \A a \in Range(kips) : a \in kscope => ProbedOf(a) = AskedPorts
       /\ Len(kips) = 1 /\ kips[1] \in kscope =>
            SumCounts + kacct.unscanned = kout.requested /\ PortsAttempted = SumCounts
       /\ ktask.transport = "udp" /\ Detailed => kout.attempted = {e[2] : e \in kprobed}
  /\ HumanSummary = "no open ports observed" => \A e \in kprobed : e[3] # "open"
=============================================================================
