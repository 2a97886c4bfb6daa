---------------------------- MODULE OsInference ----------------------------
(* What a run says of a host's operating system and device role: the bounded *)
(* active probes of --os (src/src/os_active.rs, src/src/run.rs), rule-based  *)
(* classification with vetoes and ceilings (src/src/os_fingerprint.rs) and   *)
(* device roles (src/src/device.rs). A piece of evidence is a pair of its    *)
(* source and what it says; a rule's feature matches when the host has it.   *)
EXTENDS Naturals, Sequences, FiniteSets, FiniteSetsExt, SequencesExt

CONSTANTS OsWorlds,       \* the plans, hosts and rules that are tried
          OsMaxProbes     \* ActiveProbeConfig::max_probes

VARIABLES osworld,     \* [requested, raw, left, hosts, packs, devices]
          oscancel,    \* the process was asked to stop
          oslate,      \* the phase's time is over
          osqueue,     \* hosts not looked at yet
          osnow,       \* the ports still to be probed on the current host
          osprobed,    \* connections made, by host
          osheard,     \* what they showed, by host
          osnotes,     \* why a host was not probed, or that it was
          osreports,   \* OS reports, by host, or NotInferred
          osroles      \* device candidates, by host

osvars == <<osworld, oscancel, oslate, osqueue, osnow, osprobed, osheard, osnotes, osreports, osroles>>

FallbackPorts == <<80, 443, 22>>
Replies == {"open", "reset", "silence", "error"}
NotInferred == <<>>
HostsOf(world) == DOMAIN world.hosts

\* collect_host_evidence: a banner that names a platform counts under the event
\* it came with; SSH banners of services and findings are service evidence.
TokenAs(source, token) == IF token = "none" THEN {} ELSE {<<source, token>>}
EvidenceIn(event) ==
  CASE event.kind = "banner" -> TokenAs("banner_token", event.token)
    [] event.kind = "service" -> TokenAs("service_product", event.product) \cup TokenAs("ssh_banner", event.token)
    [] event.kind = "finding" -> TokenAs("ssh_banner", event.token)
PassiveOf(facts) == UNION {EvidenceIn(event) : event \in facts.events}
NoHost == [host |-> 0, ports |-> <<>>]

\* OsPack::validate, DevicePack::validate: ids are unique, caps and weights bounded.
Validated(pack) ==
  /\ \A r \in pack : /\ r.id \in Nat /\ r.cap \in 1 .. 90
                     /\ IsFiniteSet(r.features) /\ \A f \in r.features : f.weight \in 1 .. 50
  /\ \A r, s \in pack : r.id = s.id => r = s

ASSUME OsAssumption ==
  /\ OsMaxProbes \in Nat
  /\ \A world \in OsWorlds :
       /\ HostsOf(world) \subseteq Nat \ {0}
       /\ \A packs \in {world.packs, world.devices} :
            packs \in Seq(ToSet(packs)) /\ \A pack \in ToSet(packs) : Validated(pack)

OsInit ==
  /\ osworld \in OsWorlds
  /\ oscancel = FALSE
  \* checked_sub: a run that overran its deadline leaves no remainder, and then
  \* the phase keeps its whole budget; only an exact zero leaves none.
  /\ oslate = (osworld.left = "zero")
  \* A host is looked at for its ports or for what was heard from it.
  /\ osqueue = {h \in HostsOf(osworld) :
                 osworld.requested /\ (osworld.hosts[h].ports \/ PassiveOf(osworld.hosts[h]) # {})}
  /\ osnow = NoHost
  /\ osprobed = [h \in HostsOf(osworld) |-> {}]
  /\ osheard = [h \in HostsOf(osworld) |-> {}]
  /\ osnotes = [h \in HostsOf(osworld) |-> "none"]
  /\ osreports = NotInferred /\ osroles = NotInferred

-----------------------------------------------------------------------------
(* Active probes.                                                            *)

\* probe_host plans without the run's ports, so the fallback ports are used.
ProbePorts == SubSeq(FallbackPorts, 1, Min({OsMaxProbes, Len(FallbackPorts)}))

OsCancel == /\ ~oscancel /\ oscancel' = TRUE
            /\ UNCHANGED <<osworld, oslate, osqueue, osnow, osprobed, osheard, osnotes, osreports, osroles>>
OsTimePasses == /\ ~oslate /\ osqueue # {} /\ oslate' = TRUE
                /\ UNCHANGED <<osworld, oscancel, osqueue, osnow, osprobed, osheard, osnotes, osreports, osroles>>

\* The hosts are looked at in their order.
OsReadyFor(host) == osnow = NoHost /\ host \in osqueue /\ \A other \in osqueue : host <= other

\* A cancelled process ends the phase: the hosts after this one get no note.
StopOsPhase(host) ==
  /\ OsReadyFor(host) /\ oscancel
  /\ osqueue' = {} /\ osnotes' = [osnotes EXCEPT ![host] = "cancelled"]
  /\ UNCHANGED <<osworld, oscancel, oslate, osnow, osprobed, osheard, osreports, osroles>>

\* Why a host is left to passive evidence, in the order the code asks.
Unprobed(host) ==
  CASE oslate -> "exhausted"
    [] ~oslate /\ ~osworld.hosts[host].literal -> "hostname"
    [] ~oslate /\ osworld.hosts[host].literal /\ ~osworld.hosts[host].scoped -> "outside"
    [] OTHER -> IF osworld.raw THEN "none" ELSE "unavailable"

\* Mutant: the target's scope is not asked again before it is probed.
UnprobedUnscoped(host) ==
  CASE oslate -> "exhausted"
    [] ~oslate /\ ~osworld.hosts[host].literal -> "hostname"
    [] OTHER -> IF osworld.raw THEN "none" ELSE "unavailable"

SkipHost(host) ==
  /\ OsReadyFor(host) /\ ~oscancel /\ Unprobed(host) # "none"
  /\ osqueue' = osqueue \ {host} /\ osnotes' = [osnotes EXCEPT ![host] = Unprobed(host)]
  /\ UNCHANGED <<osworld, oscancel, oslate, osnow, osprobed, osheard, osreports, osroles>>

BeginHost(host) ==
  /\ OsReadyFor(host) /\ ~oscancel /\ Unprobed(host) = "none"
  /\ osnow' = [host |-> host, ports |-> ProbePorts]
  /\ UNCHANGED <<osworld, oscancel, oslate, osqueue, osprobed, osheard, osnotes, osreports, osroles>>

\* What one connection shows; a local error shows nothing.
Shows(reply) ==
  CASE reply = "open" -> {<<"tcp_timing", "latency">>, <<"tcp_behavior", "accepted">>}
    [] reply = "reset" -> {<<"tcp_behavior", "reset">>}
    [] reply = "silence" -> {<<"tcp_timing", "silent">>}
    [] reply = "error" -> {}

\* The token given to the probes is the phase's own: nothing cancels it.
ProbePort(reply) ==
  /\ osnow.ports # <<>>
  /\ osprobed' = [osprobed EXCEPT ![osnow.host] = @ \cup {Head(osnow.ports)}]
  /\ osheard' = [osheard EXCEPT ![osnow.host] = @ \cup Shows(reply)]
  /\ osnow' = [osnow EXCEPT !.ports = Tail(@)]
  /\ UNCHANGED <<osworld, oscancel, oslate, osqueue, osnotes, osreports, osroles>>

\* The probes are done, or the host's own time is over.
EndHost ==
  /\ osnow # NoHost
  /\ osnotes' = [osnotes EXCEPT ![osnow.host] = "planned"]
  /\ osnow' = NoHost /\ osqueue' = osqueue \ {osnow.host}
  /\ UNCHANGED <<osworld, oscancel, oslate, osprobed, osheard, osreports, osroles>>

-----------------------------------------------------------------------------
(* Rules.                                                                    *)

Flat(packs) == UNION ToSet(packs)

\* An OS rule id in two packs empties the database.
OsDb(packs) ==
  IF \E i, k \in DOMAIN packs : i < k /\ \E r \in packs[i], s \in packs[k] : r.id = s.id THEN {} ELSE Flat(packs)

\* A device rule id in two packs: the first pack's rule stays.
DeviceDb(packs) ==
  {r \in Flat(packs) : \E k \in DOMAIN packs :
     r \in packs[k] /\ \A i \in 1..(k - 1) : \A s \in packs[i] : s.id # r.id}

\* OsEvidence::class_of.
ClassOf(source) ==
  CASE source \in {"tcp_options", "tcp_window"} -> "TcpOptions"
    [] source = "tcp_timing" -> "TcpTiming"
    [] source \in {"ip_ttl", "ip_df"} -> "IpHeader"
    [] source = "tcp_behavior" -> "TransportBehavior"
    [] source \in {"ssh_banner", "service_product"} -> "ServiceEvidence"
    [] OTHER -> "ApplicationHint"

Hits(features, evidence) == {f \in features : f.shows \in evidence}
\* The sum of their weights, counted.
Weight(features) == Cardinality(UNION {{f} \X (1 .. f.weight) : f \in features})
Classes(features) == {ClassOf(f.shows[1]) : f \in features}
VetoedBy(rule, evidence) == rule.exclusions \cap evidence

\* confidence_for; classify_host uses the same shape with its own ceiling.
\* Mutant: one hint may say as much as two.
ConfidenceWithoutFloor(kinds, weight, ceiling, cap) == Min({30 + 15 * kinds + Min({weight, 25}), cap, 95})

Confidence(kinds, weight, ceiling, cap) ==
  LET raised == 30 + 15 * kinds + Min({weight, 25})
  IN  Min({IF kinds < 2 THEN Min({raised, ceiling}) ELSE raised, cap, 95})

\* A rule's verdict over a host's evidence, if it has one.
Verdicts(rules, evidence) ==
  {[rule |-> r, hits |-> Hits(r.features, evidence)] :
     r \in {r \in rules : VetoedBy(r, evidence) = {} /\ Hits(r.features, evidence) # {}}}
OsConfidence(v) == Confidence(Cardinality(Classes(v.hits)), Weight(v.hits), 65, v.rule.cap)

\* Families with their strongest rule, the first by id when they tie; a
\* family's conflicts are what vetoed any of its rules.
FamilyOf(family, verdicts, rules, evidence) ==
  LET own == {v \in verdicts : v.rule.family = family}
      best == CHOOSE v \in own : \A w \in own : \/ OsConfidence(v) > OsConfidence(w)
                                                \/ OsConfidence(v) = OsConfidence(w) /\ v.rule.id <= w.rule.id
  IN  [family |-> family, confidence |-> OsConfidence(best), matched |-> {f.shows : f \in best.hits},
       rules |-> {v.rule.id : v \in {v \in own : OsConfidence(v) = OsConfidence(best)}},
       conflicts |-> UNION {VetoedBy(r, evidence) : r \in {r \in rules : r.family = family}}]

Families(rules, evidence) ==
  LET verdicts == Verdicts(rules, evidence)
  IN  {FamilyOf(family, verdicts, rules, evidence) : family \in {v.rule.family : v \in verdicts}}

UnknownReason(rules, evidence) ==
  CASE evidence = {} -> "no evidence"
    [] evidence # {} /\ \E r \in rules : Hits(r.features, evidence) # {} -> "vetoed"
    [] OTHER -> "no match"

\* The evidence of a host: what was heard anyway and what the probes added.
EvidenceOf(host) == PassiveOf(osworld.hosts[host]) \cup osheard[host]

\* A host nobody has evidence of gets no report, even when --os was asked;
\* without --os an unknown host is not reported either.
OsReport(host) ==
  LET families == Families(OsDb(osworld.packs), EvidenceOf(host))
      reported == EvidenceOf(host) # {} /\ (families # {} \/ osworld.requested)
  IN  [reported |-> reported, families |-> families, note |-> osnotes[host],
       why |-> IF reported /\ families = {} THEN UnknownReason(OsDb(osworld.packs), EvidenceOf(host)) ELSE "known"]

ClassifyOs ==
  /\ osqueue = {} /\ osnow = NoHost /\ osreports = NotInferred
  /\ osreports' = [h \in HostsOf(osworld) |-> OsReport(h)]
  /\ UNCHANGED <<osworld, oscancel, oslate, osqueue, osnow, osprobed, osheard, osnotes, osroles>>

-----------------------------------------------------------------------------
(* Device roles.                                                             *)

\* Families and roles are numbers, in the order of their names.
Surer(c, d, name, other) == c.confidence > d.confidence \/ (c.confidence = d.confidence /\ name <= other)
Strongest(families) == CHOOSE f \in families : \A g \in families : Surer(f, g, f.family, g.family)

\* The graph's signals of a host and the strongest OS family, as one more kind.
SignalsOf(host) ==
  osworld.hosts[host].signals \cup
    IF osreports[host].families = {} THEN {}
    ELSE {<<"os_family", Strongest(osreports[host].families).family>>}

SignalKinds(features) == {f.shows[1] : f \in features}
VendorWeight(features) == Weight({f \in features : f.vendor})

RoleBy(rule, hits) ==
  [role |-> rule.role, rule |-> rule.id, kinds |-> SignalKinds(hits),
   confidence |-> Confidence(Cardinality(SignalKinds(hits)), Weight(hits), 55, rule.cap),
   vendor |-> VendorWeight(hits) >= 15]

\* One candidate per role, the strongest rule's.
RolesOf(signals) ==
  LET all == {RoleBy(r, Hits(r.features, signals)) :
                r \in {r \in DeviceDb(osworld.devices) : VetoedBy(r, signals) = {} /\ Hits(r.features, signals) # {}}}
  IN  {CHOOSE c \in all : c.role = role /\ \A d \in {d \in all : d.role = role} : Surer(c, d, c.rule, d.rule) :
         role \in {c.role : c \in all}}

ClassifyDevices ==
  /\ osreports # NotInferred /\ osroles = NotInferred
  /\ osroles' = [h \in HostsOf(osworld) |-> RolesOf(SignalsOf(h))]
  /\ UNCHANGED <<osworld, oscancel, oslate, osqueue, osnow, osprobed, osheard, osnotes, osreports>>

OsNext ==
  \/ OsCancel \/ OsTimePasses \/ EndHost \/ ClassifyOs \/ ClassifyDevices
  \/ \E h \in HostsOf(osworld) : StopOsPhase(h) \/ SkipHost(h) \/ BeginHost(h)
  \/ \E reply \in Replies : ProbePort(reply)

OsSpec == OsInit /\ [][OsNext]_osvars

-----------------------------------------------------------------------------
(* What the identification promises.                                         *)

OsTypeOK ==
  /\ \A h \in HostsOf(osworld) :
       /\ Cardinality(osprobed[h]) <= OsMaxProbes
       /\ osnotes[h] \in {"none", "cancelled", "exhausted", "hostname", "outside", "unavailable", "planned"}
  /\ osnow # NoHost => osnow.host \in osqueue /\ \A other \in osqueue : osnow.host <= other

\* Nothing is sent that was not asked for and allowed: only with --os, only to
\* literal addresses inside the scope, only where raw sockets are available;
\* and a host that was left out is told why when evidence of it is reported.
ProbesAllowed ==
  \A h \in HostsOf(osworld) :
    /\ osprobed[h] # {} => /\ osworld.requested /\ osworld.raw
                           /\ osworld.hosts[h].literal /\ osworld.hosts[h].scoped
    /\ osreports # NotInferred /\ osworld.requested /\ osreports[h].reported /\ ~oscancel => osnotes[h] # "none"

\* More than "possible" needs two classes of evidence, nothing passes its
\* rule's cap, no vetoed rule takes part, and the contradiction that vetoed a
\* rule of a reported family is shown with it.
OsJustified ==
  osreports # NotInferred =>
    \A h \in HostsOf(osworld) : \A f \in osreports[h].families :
      LET backing == {r \in OsDb(osworld.packs) : r.id \in f.rules}
          vetoed == {r \in OsDb(osworld.packs) : r.family = f.family /\ VetoedBy(r, EvidenceOf(h)) # {}}
      IN  /\ f.confidence > 65 => Cardinality({ClassOf(e[1]) : e \in f.matched}) >= 2
          /\ \A r \in backing : f.confidence <= r.cap
          /\ backing # {} /\ backing \cap vetoed = {}
          /\ \A r \in vetoed : VetoedBy(r, EvidenceOf(h)) \subseteq f.conflicts

\* Probing adds: whatever the passive evidence supports alone is still named,
\* as sure as before, unless what was heard contradicts it, visibly.
ProbingAdds ==
  osreports # NotInferred =>
    \A h \in HostsOf(osworld) : \A f \in Families(OsDb(osworld.packs), PassiveOf(osworld.hosts[h])) :
      \/ \E g \in osreports[h].families : g.family = f.family /\ g.confidence >= f.confidence
      \/ \E r \in OsDb(osworld.packs) : r.family = f.family /\ VetoedBy(r, osheard[h]) # {}

\* A role surer than a weak hint rests on two kinds of signals, and each role
\* is named once.
RolesJustified ==
  osroles # NotInferred =>
    \A h \in HostsOf(osworld) : \A c, d \in osroles[h] :
      /\ c.confidence > 55 => Cardinality(c.kinds) >= 2
      /\ c.role = d.role => c = d

OsSound == ProbesAllowed /\ OsJustified /\ ProbingAdds /\ RolesJustified
=============================================================================
