----------------------------- MODULE MCNetwork -----------------------------
(* Everything that sends requests, for TLC: each behaviour is about one of   *)
(* the scanners, a host's discovery, the resolver or the username search,    *)
(* which share no state; the others stay at their beginning.                 *)
EXTENDS ConnectSweep, UdpSweep, PortPool, SynSweep, PortTask, HostProbe, DnsProbe, SearchScheduler

VARIABLE focus

Focus == {"tcp", "udp", "pool", "syn", "task", "host", "dns", "search"}

Ports2 == 1..2
Ports3 == 1..3
TwoAddresses == 1..2
ThreeAddresses == 1..3

\* Six providers on two hosts: one does not accept the user name, one is
\* over max_providers.
HostNames == {"h1", "h2"}
HostOf == <<"h1", "h1", "h2", "h2", "h1", "h2">>
Accepting == {1, 2, 3, 5}

allvars == <<tcpvars, udpvars, poolvars, synvars, taskvars, hostvars, dnsvars, vars, focus>>

\* What a focus leaves open is open in its own behaviours only.
MCInit ==
  /\ focus \in Focus
  /\ TcpInit /\ UdpInit /\ PoolInit /\ SynInit /\ PortTaskInit /\ HostInit /\ DnsInit /\ Init
  /\ focus # "udp" => uretain
  /\ focus # "pool" => pudp
  /\ focus # "syn" => sworld.icmp
  /\ focus # "task" =>
       /\ ktask = [transport |-> "tcp", target |-> "none", narrowed |-> FALSE, selection |-> <<"all">>]
       /\ kscope = {}
  /\ focus # "host" => hsetup = [permitted |-> {}, link |-> TRUE, echo |-> TRUE, doors |-> TRUE]

Tcp == focus = "tcp" /\ TcpNext
Udp == focus = "udp" /\ UdpNext
Pool == focus = "pool" /\ PoolNext
Syn == focus = "syn" /\ SynNext
Task == focus = "task" /\ PortTaskNext
Hosts == focus = "host" /\ HostNext
Dns == focus = "dns" /\ DnsNext
Search == focus = "search" /\ Next

MCNext ==
  /\ UNCHANGED focus
  /\ \/ Tcp /\ UNCHANGED <<udpvars, poolvars, synvars, taskvars, hostvars, dnsvars, vars>>
     \/ Udp /\ UNCHANGED <<tcpvars, poolvars, synvars, taskvars, hostvars, dnsvars, vars>>
     \/ Pool /\ UNCHANGED <<tcpvars, udpvars, synvars, taskvars, hostvars, dnsvars, vars>>
     \/ Syn /\ UNCHANGED <<tcpvars, udpvars, poolvars, taskvars, hostvars, dnsvars, vars>>
     \/ Task /\ UNCHANGED <<tcpvars, udpvars, poolvars, synvars, hostvars, dnsvars, vars>>
     \/ Hosts /\ UNCHANGED <<tcpvars, udpvars, poolvars, synvars, taskvars, dnsvars, vars>>
     \/ Dns /\ UNCHANGED <<tcpvars, udpvars, poolvars, synvars, taskvars, hostvars, vars>>
     \/ Search /\ UNCHANGED <<tcpvars, udpvars, poolvars, synvars, taskvars, hostvars, dnsvars>>

\* The fairness of TcpSpec, PoolSpec and FairSpec.
MCFair ==
  /\ WF_tcpvars(focus = "tcp" /\ TcpLoop)
  /\ WF_poolvars(focus = "pool" /\ PoolJoin)
  /\ \A w \in PoolWorkers : WF_poolvars(focus = "pool" /\ PoolStep(w))
  /\ WF_vars(focus = "search" /\ Loop)
  /\ \A i \in Provider : WF_vars(focus = "search" /\ ThreadEnds(i))

MCSpec == MCInit /\ [][MCNext]_allvars /\ MCFair

-----------------------------------------------------------------------------
(* What the components promise, taken together.                            *)

\* Everything keeps to its limits: windows, retries, hops, budgets and scope.
NetworkWithinBounds ==
  /\ TcpTypeOK /\ UdpTypeOK /\ PoolTypeOK /\ SynTypeOK /\ PortTaskTypeOK /\ HostTypeOK /\ DnsTypeOK
  /\ SynWindowUsable /\ HostStaysInScope

\* No port is in two hands, reported twice or dropped, whichever way it is
\* scanned; the task around the scan reports what the scan found.
PortsExact ==
  /\ TcpEachPortOnce /\ SynEachPortOnce /\ UdpCountsExact /\ PoolOneThreadPerPort
  /\ PortTaskWhole

\* Names are asked for once, and no claim is left without an answer.
QueriesExact == DnsAskedOnce /\ DnsClaimsHaveOutcome

\* A cancelled sweep returns, the threads of a pool join, a search ends.
NetworkEnds == TcpCancelReturns /\ PoolEnds /\ SearchEnds
=============================================================================
