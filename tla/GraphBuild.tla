----------------------------- MODULE GraphBuild -----------------------------
(* The evidence graph of a run (src/src/graph.rs): the events of its tasks   *)
(* become entities and edges within bounds, web endpoints are joined to the  *)
(* ports that serve them, classification adds its candidates                 *)
(* (src/src/run.rs), and clusters are proposed. An entity is named by what   *)
(* its id is made of.                                                        *)
EXTENDS Naturals, Sequences, FiniteSets, FiniteSetsExt, SequencesExt

CONSTANTS GraphWorlds,   \* [events, scope, families]: what the tasks observed
          MaxEntities,   \* MAX_GRAPH_ENTITIES
          MaxEdges       \* MAX_GRAPH_EDGES

VARIABLES gworld, gleft, ggraph, gphase

\* What is observed: a port at an address, a service with a confidence that
\* calibration leaves it, a page with where it was found or where it leads.
ObservedEvent(event) ==
  /\ event.kind \in {"port", "service", "tls", "ssh", "dns", "endpoint"}
  /\ event.kind \in {"port", "service", "tls", "ssh"} => event.at # "none"
  /\ event.kind = "service" => event.confidence \in 0..95
  /\ event.kind = "tls" => event.sans \in Seq(ToSet(event.sans))
  /\ event.kind = "endpoint" => event.relation \in {"none", "discovered_from", "redirects_to"}
ASSUME GraphAssumption ==
  /\ MaxEntities \in Nat /\ MaxEdges \in Nat
  /\ \A w \in GraphWorlds :
       IsFiniteSet(DOMAIN w.families) /\ \A event \in w.events : ObservedEvent(event)

graphvars == <<gworld, gleft, ggraph, gphase>>

Ip(address) == <<"ip", address>>
Name(host) == <<"name", host>>
Port(address, port) == <<"port", address, port>>
Service(address, port, label) == <<"service", address, port, label>>
Endpoint(host, port) == <<"endpoint", host, port>>
KindOfEntity(id) == id[1]

EmptyGraph == [entities |-> {}, edges |-> {}, truncated |-> FALSE]

-----------------------------------------------------------------------------
(* The two operations everything is made of.                                 *)

\* ensure_entity: one that is known stays as it was first seen.
EnsureEntity(graph, id) ==
  CASE id \in graph.entities -> graph
    [] id \notin graph.entities /\ Cardinality(graph.entities) >= MaxEntities -> [graph EXCEPT !.truncated = TRUE]
    [] OTHER -> [graph EXCEPT !.entities = @ \cup {id}]

SameEdge(e, f) == e.from = f.from /\ e.to = f.to /\ e.relation = f.relation
MaxOf(a, b) == IF a > b THEN a ELSE b

\* add_edge: between known entities only, once for a relation; the strongest
\* confidence stays, and the first one's notes. The ceiling of 95 is put on
\* the first observation, not on a stronger one that follows.
AddEdge(graph, edge) ==
  LET known == {e \in graph.edges : SameEdge(e, edge)}
  IN  IF edge.from = edge.to \/ ~({edge.from, edge.to} \subseteq graph.entities) THEN graph
      ELSE CASE known # {} ->
                  LET old == CHOOSE e \in known : TRUE
                  IN  [graph EXCEPT !.edges = (@ \ {old}) \cup {[old EXCEPT !.confidence = MaxOf(@, edge.confidence)]}]
             [] known = {} /\ Cardinality(graph.edges) >= MaxEdges -> [graph EXCEPT !.truncated = TRUE]
             [] OTHER -> [graph EXCEPT !.edges = @ \cup {[edge EXCEPT !.confidence = Min({@, 95})]}]
\* Mutant: an edge may name an entity that is not there.
AddEdgeUnchecked(graph, edge) ==
  IF Cardinality(graph.edges) >= MaxEdges THEN [graph EXCEPT !.truncated = TRUE]
  ELSE [graph EXCEPT !.edges = @ \cup {edge}]

Entity(id) == [entity |-> id, edge |-> <<>>]
Edge(from, to, relation, confidence) ==
  [entity |-> <<>>, edge |-> <<[from |-> from, to |-> to, relation |-> relation, confidence |-> confidence,
                                scope |-> "none"]>>]
Scoped(step, scope) == [step EXCEPT !.edge[1].scope = scope]

Apply(graph, step) == IF step.edge = <<>> THEN EnsureEntity(graph, step.entity) ELSE AddEdge(graph, step.edge[1])
Perform(graph, steps) ==
  LET after[k \in 0..Len(steps)] == IF k = 0 THEN graph ELSE Apply(after[k - 1], steps[k])
  IN  after[Len(steps)]

-----------------------------------------------------------------------------
(* What each event says.                                                     *)

PortSteps(e) == <<Entity(Ip(e.at)), Entity(Port(e.at, e.port)), Edge(Ip(e.at), Port(e.at, e.port), "listens_on", 90)>>

\* The port is put in again, its address is not: events may have been cut.
ServiceSteps(e) ==
  LET port == Port(e.at, e.port) service == Service(e.at, e.port, e.label)
      product == IF e.product = "none" THEN <<>>
                 ELSE <<Entity(<<"tech", e.product>>),
                        Edge(service, <<"tech", e.product>>, "suggests", Min({e.confidence, 90}))>>
  IN  <<Entity(port), Entity(service), Edge(port, service, "runs_service", e.confidence)>> \o product
        \o <<Entity(<<"fp", e.rule>>), Edge(service, <<"fp", e.rule>>, "identified_by", e.confidence)>>

\* Names in a certificate are told apart by the scope, never contacted here.
SanSteps(cert, names, scope) ==
  FlattenSeq([k \in DOMAIN names |->
    <<Entity(Name(names[k])),
      Scoped(Edge(cert, Name(names[k]), "has_san", 95), IF names[k] \in scope THEN "in" ELSE "outside")>>])

TlsSteps(e, scope) ==
  <<Entity(<<"cert", e.cert>>), Entity(Port(e.at, e.port)),
    Edge(Port(e.at, e.port), <<"cert", e.cert>>, "presents_certificate", 90)>> \o SanSteps(<<"cert", e.cert>>, e.sans, scope)

SshSteps(e) ==
  <<Entity(<<"key", e.key>>), Entity(Port(e.at, e.port)),
    Edge(Port(e.at, e.port), <<"key", e.key>>, "presents_ssh_host_key", 90)>>

\* An address record resolves a name; any other record only mentions it.
DnsSteps(e) ==
  IF e.address # "none"
  THEN <<Entity(Name(e.name)), Entity(Ip(e.address)), Edge(Name(e.name), Ip(e.address), "resolves_to", 85)>>
  ELSE <<Entity(Name(e.name)), Entity(<<"dns", e.name>>), Edge(Name(e.name), <<"dns", e.name>>, "references", 80)>>

\* A page links back to where it was found; a redirect to where it leads.
EndpointSteps(e) ==
  LET url == Endpoint(e.host, e.port)
  IN  IF e.other = <<>> THEN <<Entity(url)>>
      ELSE LET other == Endpoint(e.other[1], e.other[2])
           IN  <<Entity(url), Entity(other), Edge(url, other, e.relation, 90)>>

StepsOf(event) ==
  CASE event.kind = "port" -> PortSteps(event)
    [] event.kind = "service" -> ServiceSteps(event)
    [] event.kind = "tls" -> TlsSteps(event, gworld.scope)
    [] event.kind = "ssh" -> SshSteps(event)
    [] event.kind = "dns" -> DnsSteps(event)
    [] event.kind = "endpoint" -> EndpointSteps(event)

GraphInit == gworld \in GraphWorlds /\ gleft = gworld.events /\ ggraph = EmptyGraph /\ gphase = "events"

\* Tasks are taken in the order of their ids, which nothing here depends on.
IngestEvent(event) ==
  /\ gphase = "events" /\ event \in gleft
  /\ ggraph' = Perform(ggraph, StepsOf(event)) /\ gleft' = gleft \ {event}
  /\ UNCHANGED <<gworld, gphase>>

-----------------------------------------------------------------------------
(* The passes over the whole graph.                                          *)

ToOf(graph, from, relation) == {e.to : e \in {e \in graph.edges : e.from = from /\ e.relation = relation}}

\* The ports a URL may stand for: its own address, or those its name resolves
\* to; only ports that were observed count.
PortsServing(graph, url) ==
  ({Port(url[2], url[3])} \cup {Port(ip[2], url[3]) : ip \in ToOf(graph, Name(url[2]), "resolves_to")})
    \cap graph.entities
ServicesOn(graph, port) ==
  {s \in graph.entities : KindOfEntity(s) = "service" /\ s[2] = port[2] /\ s[3] = port[3]}

JoinSteps(graph, url) ==
  FlattenSeq(SetToSeq({
    <<Edge(url, port, "resolves_to_endpoint", 85)>> \o
      SetToSeq({Edge(url, s, "served_by", 85) : s \in ServicesOn(graph, port)}) : port \in PortsServing(graph, url)}))

JoinEndpoints ==
  /\ gphase = "events" /\ gleft = {}
  /\ LET urls == SetToSeq({id \in ggraph.entities : KindOfEntity(id) = "endpoint"})
     IN  ggraph' = Perform(ggraph, FlattenSeq([k \in DOMAIN urls |-> JoinSteps(ggraph, urls[k])]))
  /\ gphase' = "joined" /\ UNCHANGED <<gworld, gleft>>

\* collect_intelligence: the candidate, its edge, and only then the address the
\* edge starts from; an address nobody reported a port of loses the edge.
ClassifySteps(host, family) ==
  <<Entity(<<"os", host, family>>), Edge(Ip(host), <<"os", host, family>>, "identified_by", 70), Entity(Ip(host))>>

ClassifyHosts ==
  /\ gphase = "joined"
  /\ LET hosts == SetToSeq(DOMAIN gworld.families)
     IN  ggraph' = Perform(ggraph, FlattenSeq([k \in DOMAIN hosts |-> ClassifySteps(hosts[k], gworld.families[hosts[k]])]))
  /\ gphase' = "done" /\ UNCHANGED <<gworld, gleft>>

GraphNext == JoinEndpoints \/ ClassifyHosts \/ \E event \in gworld.events : IngestEvent(event)
GraphSpec == GraphInit /\ [][GraphNext]_graphvars

-----------------------------------------------------------------------------
(* What is read off the graph.                                               *)

Presenters(graph, id, relation) == {e.from : e \in {e \in graph.edges : e.to = id /\ e.relation = relation}}
Cluster(members, verdict) == [members |-> members, verdict |-> verdict]

\* reconcile_candidates: ports of one address are one target, everything that
\* is shared is only related.
Clusters(graph) ==
  LET ports == {id \in graph.entities : KindOfEntity(id) = "port"}
      at(address) == {p \in ports : p[2] = address}
      shared(relation) == {id \in graph.entities : Cardinality(Presenters(graph, id, relation)) > 1}
  IN  {Cluster({Ip(a)} \cup at(a), "same") : a \in {a \in {p[2] : p \in ports} : Cardinality(at(a)) >= 2}}
        \cup {Cluster({id} \cup Presenters(graph, id, "presents_certificate"), "related") :
                id \in shared("presents_certificate")}
        \cup {Cluster({id} \cup Presenters(graph, id, "presents_ssh_host_key"), "related") :
                id \in shared("presents_ssh_host_key")}
        \cup {Cluster({e.from, e.to}, "related") : e \in {e \in graph.edges : e.relation = "resolves_to"}}

\* find_path: breadth first over outgoing edges, each entity once.
Outward(graph, id) == {e.to : e \in {e \in graph.edges : e.from = id}}
\* What taking one path from the queue leaves.
Walk(graph, to, depth, walk) ==
  LET path == Head(walk.queue) rest == Tail(walk.queue) next == Outward(graph, Last(path))
  IN  IF Len(path) > depth THEN [walk EXCEPT !.queue = rest]
      ELSE IF to \in next THEN [walk EXCEPT !.queue = <<>>, !.found = Append(path, to)]
      ELSE [walk EXCEPT !.queue = rest \o SetToSeq({Append(path, id) : id \in next \ walk.seen}),
                        !.seen = @ \cup next]
\* Every entity is queued once.
PathFrom(graph, from, to, depth) ==
  LET taken[k \in 0..Cardinality(graph.entities)] ==
        IF k = 0 THEN [queue |-> <<<<from>>>>, seen |-> {from}, found |-> <<>>]
        ELSE IF taken[k - 1].queue = <<>> THEN taken[k - 1]
        ELSE Walk(graph, to, depth, taken[k - 1])
  IN  taken[Cardinality(graph.entities)].found
FindPath(graph, from, to, depth) ==
  IF ~({from, to} \subseteq graph.entities) THEN <<>>
  ELSE IF from = to THEN <<from>>
  ELSE PathFrom(graph, from, to, Min({MaxOf(depth, 1), 6}))

-----------------------------------------------------------------------------
(* What the graph promises.                                                  *)

GraphTypeOK ==
  /\ Cardinality(ggraph.entities) <= MaxEntities /\ Cardinality(ggraph.edges) <= MaxEdges
  /\ gphase \in {"events", "joined", "done"} /\ gleft \subseteq gworld.events

\* Every edge joins two entities of the graph, once for its relation, and no
\* surer than 95.
EdgesWellFormed ==
  \A e \in ggraph.edges :
    /\ e.from # e.to /\ {e.from, e.to} \subseteq ggraph.entities /\ e.confidence <= 95
    /\ \A f \in ggraph.edges : SameEdge(e, f) => e = f

\* A graph that is not marked as cut holds every entity the events name, and a
\* service's own certainty: the strongest event's.
NothingLostSilently ==
  gphase # "events" /\ ~ggraph.truncated =>
    \A event \in gworld.events : \A k \in DOMAIN StepsOf(event) :
      LET step == StepsOf(event)[k]
      IN  /\ step.edge = <<>> => step.entity \in ggraph.entities
          /\ step.edge # <<>> /\ step.edge[1].from # step.edge[1].to =>
               \E e \in ggraph.edges : SameEdge(e, step.edge[1]) /\ e.confidence >= step.edge[1].confidence

\* An endpoint is joined to a port exactly when the port was observed and the
\* URL's host is its address or resolves to it, whatever order the events came
\* in: no join is made up, none is missed.
JoinsExact ==
  gphase # "events" /\ ~ggraph.truncated =>
    \A u, p \in ggraph.entities : KindOfEntity(u) = "endpoint" /\ KindOfEntity(p) = "port" =>
      ((\E e \in ggraph.edges : e.from = u /\ e.to = p /\ e.relation = "resolves_to_endpoint")
        <=> /\ u[3] = p[3]
            /\ \/ u[2] = p[2]
               \/ \E d \in gworld.events : d.kind = "dns" /\ d.name = u[2] /\ d.address = p[2])

\* A shared certificate, key or name relates; only ports of one address are
\* proposed as one machine.
ReuseNeverMerges ==
  \A c \in Clusters(ggraph) : c.verdict = "same" =>
    \E ip \in c.members : KindOfEntity(ip) = "ip" /\ \A m \in c.members \ {ip} : KindOfEntity(m) = "port" /\ m[2] = ip[2]

\* A name only a certificate mentions stays a remark: the scope decides how it
\* is marked, and nothing but DNS resolves it.
SansOnlyNoted ==
  \A e \in ggraph.edges :
    /\ e.relation = "has_san" => e.scope = (IF e.to[2] \in gworld.scope THEN "in" ELSE "outside")
    /\ e.relation = "resolves_to" => \E d \in gworld.events : d.kind = "dns" /\ d.name = e.from[2]

\* A path is found exactly when there is one of at most that many edges, and
\* it is a shortest one.
Reached(from, n) ==
  LET layer[k \in 0..n] == IF k = 0 THEN {from} ELSE layer[k - 1] \cup UNION {Outward(ggraph, id) : id \in layer[k - 1]}
  IN  layer[n]
PathsShortest ==
  gphase = "done" =>
    \A from, to \in ggraph.entities : \A depth \in {1, 3} : from # to =>
      LET path == FindPath(ggraph, from, to, depth)
      IN  /\ (path # <<>>) <=> to \in Reached(from, depth)
          /\ path # <<>> => to \notin Reached(from, Len(path) - 2)

GraphSound ==
  EdgesWellFormed /\ NothingLostSilently /\ JoinsExact /\ ReuseNeverMerges /\ SansOnlyNoted /\ PathsShortest
=============================================================================
