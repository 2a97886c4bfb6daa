----------------------------- MODULE Expansion -----------------------------
(***************************************************************************)
(* Expansion by evidence (decision.rs): every task that completes is given *)
(* to the decision engine, which proposes the next ones: a live host its   *)
(* ports, an open port its service, a web service its probe, the names and *)
(* addresses of a certificate their resolution and discovery, a resolved   *)
(* name its hosts.  The scheduler admits what it has not seen.  The tasks  *)
(* of a plan run in any order, and the tasks that resolve names share the  *)
(* registry of dns.rs: a limit of names per domain, and each query once.   *)
(***************************************************************************)
EXTENDS Naturals, Sequences, FiniteSets, Functions

-----------------------------------------------------------------------------
(***************************************************************************)
(* From a plan to its first tasks (lowering.rs, level.rs): which kinds of  *)
(* task the level, the workflow and the operator's flags make eligible,    *)
(* and which tasks each target of the plan is lowered to.                  *)
(*                                                                         *)
(* A plan is a record: goal and level; ping, udp and explicit, what the    *)
(* operator asked for by name; targets, a sequence; permitted, the targets *)
(* the scope permits; maxHosts, the host budget.  A target is a record:    *)
(* its form ("addr", "name" or "cidr"), at (the address, the name, or the  *)
(* network address) and hosts (the addresses of a range, in order).        *)
(*                                                                         *)
(* A task is its identity (execution.rs, canonical_task_id): kind, scope   *)
(* target, label (the "target" parameter) and the parameters that differ   *)
(* between the rules that propose it; reason and lineage are left out.     *)
(***************************************************************************)

Task(kind, at, label, source) == [kind |-> kind, at |-> at, label |-> label, source |-> source]

BaseKinds(level) ==
    {"validate"} \cup (IF level >= 2 THEN {"host"} ELSE {})
                 \cup (IF level >= 3 THEN {"port", "http"} ELSE {})
                 \cup (IF level >= 4 THEN {"service", "dns"} ELSE {})

AllowedKinds(goal) ==
    {"validate", "host", "port"}
        \cup (IF goal # "ports" THEN {"dns"} ELSE {})
        \cup (IF goal \in {"recon", "services", "full"} THEN {"service"} ELSE {})
        \cup (IF goal \in {"web", "full"} THEN {"http"} ELSE {})

\* eligible_task_kinds: a flag of the operator adds its kind at any level.
Eligible(plan) == (BaseKinds(plan.level) \cap AllowedKinds(plan.goal))
                      \cup (IF plan.ping THEN {"host"} ELSE {})
                      \cup (IF plan.explicit THEN {"port"} ELSE {})
                      \cup (IF plan.udp THEN {"udp"} ELSE {})

\* port_eligible_for_plan, which the decision engine asks.
PortEligible(plan) == plan.explicit
                          \/ "port" \in BaseKinds(plan.level) \cap AllowedKinds(plan.goal)

\* The identity of the one task of a kind for an address or a name.
SeedOf(kind, target) == Task(kind, target.at, target.at, IF kind = "port" THEN <<"none">> ELSE <<"plan">>)

\* The permitted hosts of a range, in order, as far as there is room.
Leading(plan, target, room) ==
    LET permitted == {i \in DOMAIN target.hosts : target.hosts[i] \in plan.permitted}
    IN  {target.hosts[i] : i \in {k \in permitted : Cardinality({j \in permitted : j <= k}) <= room}}

\* A bug: one host too many.
ExpandedOneMore(plan, target, room) == Leading(plan, target, room + 1)

\* expand_cidr_bounded.
Expanded(plan, target, room) == Leading(plan, target, room)

OfRange(kind, target, hosts) == {Task(kind, h, target.at, <<"cidr">>) : h \in hosts}
WholeRange(plan, target, kind) ==
    IF target.at \in plan.permitted THEN {Task(kind, target.at, target.at, <<"cidr">>)} ELSE {}

\* One kind of a range, when no host discovery gates it.
Spread(plan, target, kind, room) ==
    LET hosts == Expanded(plan, target, room)
    IN  [tasks |-> IF hosts = {} THEN WholeRange(plan, target, kind) ELSE OfRange(kind, target, hosts),
         room |-> room - Cardinality(hosts)]

\* lower_cidr_target.  With host discovery: a task for each host there is
\* room for, and of the rest only the validation.  Without: the TCP ports
\* take their hosts from the same room first, the UDP ports from what is left.
LowerRange(plan, target, room) ==
    LET kinds == Eligible(plan)
        single(some) == UNION {WholeRange(plan, target, k) : k \in some}
        nothing == [tasks |-> {}, room |-> room]
        tcp == IF "port" \in kinds THEN Spread(plan, target, "port", room) ELSE nothing
        udp == IF "udp" \in kinds THEN Spread(plan, target, "udp", tcp.room)
                                  ELSE [nothing EXCEPT !.room = tcp.room]
        hosts == Expanded(plan, target, room)
    IN  IF "host" \in kinds
        THEN [tasks |-> OfRange("host", target, hosts) \cup single({"validate"}),
              room |-> room - Cardinality(hosts)]
        ELSE [tasks |-> tcp.tasks \cup udp.tasks \cup single(kinds \ {"port", "udp"}),
              room |-> udp.room]

\* A single address out of scope refuses the whole plan; so does a name.
Refused(plan) == \/ plan.targets = <<>>
                 \/ \E i \in DOMAIN plan.targets :
                        LET t == plan.targets[i]
                        IN  t.at \notin plan.permitted /\ (t.form # "cidr" \/ Len(t.hosts) = 1)

\* lower_plan_to_tasks: the room for hosts passes from target to target.
Lowered(plan) ==
    LET ranged(i) == plan.targets[i].form = "cidr"
        room[i \in 0..Len(plan.targets)] ==
            IF i = 0 THEN IF plan.maxHosts = 0 THEN 1 ELSE plan.maxHosts
            ELSE IF ranged(i) THEN LowerRange(plan, plan.targets[i], room[i - 1]).room ELSE room[i - 1]
        lower(i) == IF ranged(i) THEN LowerRange(plan, plan.targets[i], room[i - 1]).tasks
                    ELSE {SeedOf(k, plan.targets[i]) : k \in Eligible(plan)}
    IN  IF Refused(plan) THEN {} ELSE UNION {lower(i) : i \in 1..Len(plan.targets)}

-----------------------------------------------------------------------------

CONSTANTS Worlds,      \* what there is to find: see WorldType
          Hosts, Names,
          MaxDepth,    \* MAX_DISCOVERY_DEPTH
          SanCap,      \* MAX_SAN_DNS_PROPOSALS = MAX_SAN_IP_PROPOSALS = the cap on a name's hosts
          MaxTasks,    \* the scheduler's task budget
          PerDomain,   \* per_domain_limit, by level
          MaxDomains,  \* MAX_DNS_DOMAINS
          MaxFails     \* bound: tasks that end without an output

\* From a service to the hosts of a name on its certificate it is two hops.
ASSUME ExpansionAssumption ==
    /\ MaxDepth \in Nat \ {0, 1} /\ SanCap \in Nat \ {0} /\ MaxTasks \in Nat \ {0} /\ MaxFails \in Nat
    /\ PerDomain \in [1..5 -> Nat \ {0}] /\ MaxDomains \in Nat \ {0}
    /\ Hosts \cap Names = {} /\ IsFiniteSet(Hosts \cup Names)

\* plan; state, what each host answers to discovery; listening, the hosts
\* with an open port; san, the names and addresses of the certificate each
\* service shows; resolves, the addresses of each name, and alias, the other
\* names that are asked for on the way to them; domain, the domain_key of each
\* name (an address is asked for like a name); web, the web services.
\* The budget for hosts is positive (execution.rs, validate), and the first
\* tasks of the plan fit into that of the tasks.
WorldType(w) ==
    /\ w.state \in [Hosts -> {"alive", "unreachable", "unknown"}]
    /\ w.listening \subseteq Hosts /\ w.web \subseteq w.listening
    /\ DOMAIN w.san = Hosts /\ \A h \in Hosts : Range(w.san[h]) \subseteq Hosts \cup Names
    /\ DOMAIN w.resolves = Names /\ \A n \in Names : Range(w.resolves[n]) \subseteq Hosts
    /\ w.alias \in [Names -> Seq(Names)] /\ DOMAIN w.domain = Hosts \cup Names
    /\ w.plan.targets \in Seq([form : {"addr", "name", "cidr"}, at : Hosts \cup Names, hosts : Seq(Hosts)])
    /\ w.plan.maxHosts \in Nat \ {0} /\ w.plan.level \in 1..5
    /\ IsFiniteSet(Lowered(w.plan)) /\ Cardinality(Lowered(w.plan)) <= MaxTasks

ASSUME WorldAssumption == \A w \in Worlds : WorldType(w)

VARIABLES xworld,     \* the world, with the plan
          xadmitted,  \* the scheduler's tasks: per task its lineage, and (ghost) its true distance
          xdone,      \* tasks whose output the engine has seen
          xfailed,    \* tasks that ended without an output
          xasked,     \* DnsRegistry: the names queried in this scan
          xclaimed,   \* DnsRegistry: the names that count in their domains
          xresolving, \* name tasks that made their claims (they may have ended since)
          xheard,     \* those of them whose own queries led to the addresses
          xtruncated  \* a proposal was refused for the task budget

expvars == <<xworld, xadmitted, xdone, xfailed, xasked, xclaimed, xresolving, xheard, xtruncated>>

Plan == xworld.plan
Permitted(at) == at \in Plan.permitted
Deep == Plan.goal # "ports"
\* A bug: a task that failed is taken up again.
WaitingAgain == DOMAIN xadmitted \ xdone

Waiting == DOMAIN xadmitted \ (xdone \cup xfailed)

\* The first SanCap different members of S that the sequence s names.
Some(s, S) ==
    LET named == {x \in S : \E i \in DOMAIN s : s[i] = x}
        before(x) == {y \in named : \E i \in DOMAIN s : s[i] = y /\ \A j \in DOMAIN s : s[j] = x => i < j}
    IN  {x \in named : Cardinality(before(x)) < SanCap}

\* The address a task is about: its own, or the first of its name.
AddressOf(t) == IF t.at \in Hosts THEN {t.at}
                ELSE {xworld.resolves[t.at][i] : i \in DOMAIN xworld.resolves[t.at] \cap {1}}

\* TcpDecisionEngine: the state of the address decides; the port task keeps
\* the host task's label, and no lineage.
HostRule(t) ==
    {Task("port", h, t.label, <<"none">>) : h \in
        {h \in AddressOf(t) : /\ PortEligible(Plan) /\ Permitted(h)
                             /\ \/ xworld.state[h] = "alive"
                                \/ xworld.state[h] = "unknown" /\ (Plan.explicit \/ Plan.level >= 3)}}

\* ServiceDecisionEngine: one task per open port, named by its address alone.
PortRule(t) ==
    {Task("service", h, h, <<"port">>) : h \in
        {h \in AddressOf(t) \cap xworld.listening :
            Plan.goal \in {"recon", "services", "web", "full"} /\ Permitted(h)}}

\* WebDecisionEngine.
WebRule(t) == IF t.at \in xworld.web /\ Plan.goal \in {"recon", "web", "full"} /\ Permitted(t.at)
              THEN {Task("http", t.at, t.label, <<"service">>)} ELSE {}

\* CertDecisionEngine: one hop deeper than the service's own lineage.
CertRule(t, depth) ==
    IF ~ Deep \/ depth >= MaxDepth THEN {}
    ELSE {Task("dns", n, n, <<"san">>) : n \in {n \in Some(xworld.san[t.at], Names) : Permitted(n)}}
            \cup {Task("host", h, h, <<"cert-san">>) : h \in {h \in Some(xworld.san[t.at], Hosts) : Permitted(h)}}

\* A bug: the addresses of a name in scope are taken to be in scope.
DnsRuleUnscoped(t, depth) ==
    IF ~ Deep \/ depth >= MaxDepth THEN {}
    ELSE {Task("host", h, h, <<"dns", t.at>>) : h \in Some(xworld.resolves[t.at], Hosts)}

\* DnsDecisionEngine.  Aliases reach it as events it does not look at.
DnsRule(t, depth) ==
    IF ~ Deep \/ depth >= MaxDepth THEN {}
    ELSE {Task("host", h, h, <<"dns", t.at>>) :
             h \in {h \in Some(xworld.resolves[t.at], Hosts) : Permitted(h)}}

\* Phase7Engine.follow_up_tasks.  A service task of the plan has no port.
FollowUps(t, depth) ==
    CASE t.kind = "host" -> HostRule(t)
      [] t.kind = "port" -> PortRule(t)
      [] t.kind = "service" /\ t.source = <<"port">> -> WebRule(t) \cup CertRule(t, depth)
      [] t.kind = "dns" /\ t.at \in Names -> DnsRule(t, depth)
      [] OTHER -> {}

\* child_lineage: only the evidence rules pass a depth on; a task of another
\* rule reads as a seed (parent_lineage).
ByEvidence(t) == t.source \in {<<"san">>, <<"cert-san">>} \cup {<<"dns", n>> : n \in Names}
ChildDepth(t, depth) == IF ByEvidence(t) THEN depth + 1 ELSE 0

\* Hops of evidence from a seed, counted whatever the tasks carry.
ChildHops(t, hops) == hops + (IF ByEvidence(t) THEN 1 ELSE 0)

ExpInit ==
    /\ xworld \in Worlds
    /\ xadmitted = [t \in Lowered(xworld.plan) |-> [depth |-> 0, hops |-> 0]]
    /\ xdone = {} /\ xfailed = {} /\ xasked = {} /\ xtruncated = FALSE
    /\ xclaimed = {} /\ xresolving = {} /\ xheard = {}

\* claim_domain_task: a name that counts already, another one of a domain below
\* its limit, or the first one of a domain while there is room for domains.
InDomain(n) == {m \in xclaimed : xworld.domain[m] = xworld.domain[n]}
DomainGrants(n) ==
    \/ n \in xclaimed
    \/ InDomain(n) # {} /\ Cardinality(InDomain(n)) < PerDomain[Plan.level]
    \/ InDomain(n) = {} /\ Cardinality({xworld.domain[m] : m \in xclaimed}) < MaxDomains

\* The names a name task queries one after the other.
Path(n) == IF n \in Names THEN <<n>> \o xworld.alias[n] ELSE <<n>>

\* What a name task claims before it ends (dns.rs, run; here its queries are one
\* step, and answered: DnsProbe has them one by one).  When its domain is full
\* it asks nothing, and at a name that was asked for before it stops.
Resolve(t) ==
    LET path == Path(t.at)
        granted == DomainGrants(t.at)
        unasked == {i \in DOMAIN path : \A j \in 1..i : path[j] \notin xasked}
    IN  /\ t \in Waiting /\ t.kind = "dns" /\ t \notin xresolving
        /\ xresolving' = xresolving \cup {t}
        /\ xclaimed' = IF granted THEN xclaimed \cup {t.at} ELSE xclaimed
        /\ xasked' = IF granted THEN xasked \cup {path[i] : i \in unasked} ELSE xasked
        /\ xheard' = IF granted /\ unasked = DOMAIN path THEN xheard \cup {t} ELSE xheard
        /\ UNCHANGED <<xworld, xadmitted, xdone, xfailed, xtruncated>>

\* A bug: a proposal of a task that is done runs it again.
DoneAgain(t, proposed) == (xdone \cup {t}) \ proposed

DoneWith(t, proposed) == xdone \cup {t}

\* A bug: a batch with a known task is refused as a whole.
FreshBatch(proposed) == IF proposed \cap DOMAIN xadmitted # {} THEN {} ELSE proposed

Fresh(proposed) == proposed \ DOMAIN xadmitted

\* Completion: the proposals that are new are admitted, while there is room;
\* the first proposal of a task gives it its lineage.
Complete(t) ==
    /\ t \in Waiting /\ (t.kind = "dns" => t \in xresolving)
    /\ LET silent == t.kind = "dns" /\ t \notin xheard
           proposed == IF silent THEN {} ELSE FollowUps(t, xadmitted[t].depth)
           fresh == Fresh(proposed)
           room == MaxTasks - Cardinality(DOMAIN xadmitted)
       IN  \E taken \in SUBSET fresh :
              /\ Cardinality(taken) = (IF Cardinality(fresh) < room THEN Cardinality(fresh) ELSE room)
              /\ xadmitted' = [u \in DOMAIN xadmitted \cup taken |->
                                 IF u \in DOMAIN xadmitted THEN xadmitted[u]
                                 ELSE [depth |-> ChildDepth(u, xadmitted[t].depth),
                                       hops |-> ChildHops(u, xadmitted[t].hops)]]
              /\ xtruncated' = (xtruncated \/ taken # fresh)
              /\ xdone' = DoneWith(t, proposed)
    /\ UNCHANGED <<xworld, xfailed, xasked, xclaimed, xresolving, xheard>>

\* A task ends without an output, a name task before or after its claims, which
\* it does not give back.
Fail(t) == /\ t \in Waiting /\ t.kind # "validate" /\ Cardinality(xfailed) < MaxFails
           /\ xfailed' = xfailed \cup {t}
           /\ UNCHANGED <<xworld, xadmitted, xdone, xasked, xclaimed, xresolving, xheard, xtruncated>>

ExpStep == \E t \in Waiting : Resolve(t) \/ Complete(t) \/ Fail(t)
ExpNext == ExpStep
ExpSpec == ExpInit /\ [][ExpNext]_expvars /\ WF_expvars(ExpStep)

-----------------------------------------------------------------------------
\* Every task the plan admits has its place and its state.
ExpTypeOK == /\ xworld \in Worlds /\ xdone \cap xfailed = {}
             /\ xdone \cup xfailed \cup xresolving \subseteq DOMAIN xadmitted /\ xheard \subseteq xresolving
             /\ \A t \in DOMAIN xadmitted : xadmitted[t].depth \in 0..MaxDepth
             /\ Cardinality(DOMAIN xadmitted) <= MaxTasks

\* What the seeds lead to when the tasks in silent say nothing: the least
\* set with the seeds and the follow-ups of its members.
Reached(silent) ==
    LET grow[i \in 0..MaxTasks + 1] ==
            IF i = 0 THEN Lowered(Plan)
            ELSE LET known == grow[i - 1]
                 IN  known \cup UNION {FollowUps(t, 0) : t \in known \ silent}
    IN  grow[MaxTasks + 1]

\* The names whose addresses the decision engine has seen, and the tasks that
\* said nothing: they failed, or resolve a name nobody heard.
HeardNames == {t.at : t \in xheard \cap xdone}
Silent == xfailed \cup {t \in DOMAIN xadmitted : t.kind = "dns" /\ t.at \notin HeardNames}

\* Why a name task that completed left its name unheard: the domain (or the
\* table of domains) is full without it, a task that had made its claims failed,
\* or a query of its path belonged to the path of another name.
Unheard(n) ==
    \/ n \notin xclaimed /\ ~ DomainGrants(n)
    \/ \E t \in xfailed \cap xresolving : t.at = n
    \/ \E m \in xclaimed \ {n} : Range(Path(m)) \cap Range(Path(n)) # {}

\* Every task is the seeds' or evidence's, and when all have ended the tasks
\* that ran are those the evidence reaches, in whatever order they completed
\* (decision.rs, the module's comment; execution.rs, follow-ups), up to the
\* names that were not heard. Which these are does depend on the order: of a
\* domain with more names than its limit, the first ones are resolved, and of
\* names with a common alias the first (dns.rs, DnsRegistry). For no other
\* reason is a name unheard whose task completed.
ExpConfluent ==
    Waiting = {} => /\ DOMAIN xadmitted \subseteq Reached(Silent)
                    /\ ~ xtruncated => DOMAIN xadmitted = Reached(Silent)
                    /\ \A t \in xdone : t.kind = "dns" => t.at \in HeardNames \/ Unheard(t.at)
                    /\ \A n \in xclaimed : Cardinality(InDomain(n)) <= PerDomain[Plan.level]

\* The scope is asked again by every rule: whatever evidence names an
\* address or a name outside it, no task goes there (CertDecisionEngine,
\* "out-of-scope names stay graph-recorded observations").
ExpInScope == \A t \in DOMAIN xadmitted : Permitted(t.at)

\* The hosts of all ranges together stay within the host budget.
SeedsWithinBudget ==
    LET spread == {t \in DOMAIN xadmitted : t.source = <<"cidr">> /\ t.at # t.label}
    IN  Cardinality(spread) <= Plan.maxHosts

\* Evidence that leads back to where it came from does not keep the scan
\* going: every expansion that began ends.
ExpSettles == (xdone # {}) ~> (Waiting = {})

\* decision.rs:36: chains stop MAX_DISCOVERY_DEPTH hops from a seed.
ChainsStop == \A t \in DOMAIN xadmitted : xadmitted[t].hops <= MaxDepth

=============================================================================
