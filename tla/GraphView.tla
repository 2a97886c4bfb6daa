------------------------------ MODULE GraphView ------------------------------
(* The view of a graph that the command line, the server and the explanations *)
(* draw (src/src/graph_view.rs): what is read from memory or page by page from *)
(* the project database, the filters and caps, the clusters that keep a large  *)
(* view small, the layers it is laid out in and the details of one node.       *)
(*                                                                             *)
(* Ids are numbers in the order of the strings they stand for. A world says    *)
(* what the source holds: entities [id, kind, scope, first, last] and edges,   *)
(* in their order, [from, to, rel, conf]; secret, the ids that masking changes; and the        *)
(* options. Kind 0 is a stored kind no longer known, Displayed a relation's    *)
(* display group.                                                              *)
EXTENDS Integers, Sequences, FiniteSets, FiniteSetsExt, SequencesExt

CONSTANTS ViewWorlds,     \* see ViewInit
          ViewPage,       \* 500, the rows of a page
          MinBudget,      \* 16, the smallest budget of a clustered view
          MinCluster,     \* 4, the smallest component that collapses
          MaxLinks        \* 64, incident edges and links of a node's detail

VARIABLES kworld,
          krows,     \* the database's entities, most recently seen first
          kload,     \* [sources, edges, frontier, seen, offset]
          kview,     \* the ViewGraph
          kcluster,  \* the clustered view and its members
          klayers,   \* bfs_layers
          kchanged,  \* history: an import committed while pages were read
          kstage     \* "load", "view", "cluster", "layout" or "done"

viewvars == <<kworld, krows, kload, kview, kcluster, klayers, kchanged, kstage>>

NoGraphView == [nodes |-> <<>>, edges |-> <<>>, truncated |-> FALSE]
NoClusters == [nodes |-> {}, edges |-> {}, members |-> <<>>]

\* display_rel_of, and EdgeRelation::parse.
Displayed(rel) == IF rel \in {1, 2} THEN 1 ELSE rel
KnownRel(e) == e.rel # 0
\* mask_text: a masked id takes the place of its secret.
Masked(id) == IF id \in kworld.secret THEN 90 ELSE id
MaskedEdge(e) == [e EXCEPT !.from = Masked(@), !.to = Masked(@)]

\* Sorting by a key, and the cap of a loop that stops before the element after
\* the last it may take.
Sorted(entities) == SortSeq(entities, LAMBDA a, b : Masked(a.id) < Masked(b.id))
EdgeBefore(a, b) ==
  \/ a.from < b.from
  \/ a.from = b.from /\ (a.to < b.to \/ (a.to = b.to /\ a.rel < b.rel))
Rank(i, accepted) == Cardinality({j \in accepted : j <= i})
Taken(accepted, limit) == {i \in accepted : Rank(i, accepted) <= limit}
Capped(accepted, length, limit) == \E i \in accepted : i < length /\ Rank(i, accepted) = limit
Pick(s, positions) == [k \in 1..Cardinality(positions) |-> s[CHOOSE i \in positions : Rank(i, positions) = k]]

-----------------------------------------------------------------------------
(* Reading the source.                                                       *)

EdgesOf(id) == SelectSeq(kworld.edges, LAMBDA e : e.from = id) \o SelectSeq(kworld.edges, LAMBDA e : e.to = id)
EntityOf(id) == {r \in ToSet(kworld.entities) : r.id = id}

\* build_from_scan_graph: everything at once.
ReadMemory ==
  /\ kstage = "load" /\ kworld.source = "memory" /\ kstage' = "view"
  /\ kload' = [kload EXCEPT !.sources = kworld.entities, !.edges = kworld.edges]
  /\ UNCHANGED <<kworld, krows, kview, kcluster, klayers, kchanged>>

\* build_from_db: one page, of entities_page; then the edges of the sources,
\* each from both of its ends, up to the limit.
IncidentEdges(sources) ==
  LET all == FlattenSeq([k \in DOMAIN sources |-> EdgesOf(sources[k].id)])
  IN  SubSeq(all, 1, Min({Len(all), kworld.edgeLimit}))
ReadPage ==
  /\ kstage = "load" /\ kworld.source = "db" /\ kworld.seed = 0
  /\ LET size == Min({kworld.nodeLimit, ViewPage})
         page == SubSeq(krows, kload.offset + 1, Min({Len(krows), kload.offset + size}))
         all == kload.sources \o page
         sources == SubSeq(all, 1, Min({Len(all), kworld.nodeLimit}))
         ordered == SortSeq(sources, LAMBDA a, b : a.id < b.id)
     IN  IF page = <<>> \/ Len(sources) >= kworld.nodeLimit \/ Len(page) < size
         THEN kstage' = "view" /\ kload' = [kload EXCEPT !.sources = ordered, !.edges = IncidentEdges(ordered)]
         ELSE kload' = [kload EXCEPT !.sources = sources, !.offset = @ + Len(page)] /\ UNCHANGED kstage
  /\ UNCHANGED <<kworld, krows, kview, kcluster, klayers, kchanged>>

\* A scan that is imported meanwhile sees an entity again.
ImportMeanwhile ==
  /\ kstage = "load" /\ kworld.source = "db" /\ kworld.import /\ ~kchanged /\ kchanged' = TRUE
  /\ \E k \in DOMAIN krows : krows' = <<krows[k]>> \o RemoveAt(krows, k)
  /\ UNCHANGED <<kworld, kload, kview, kcluster, klayers, kstage>>

\* build_from_db_seeded: the last of the frontier is expanded, its edges up to
\* the limit; a neighbour is seen even when the limit keeps it out.
Neighbour(e, id) == IF e.from = id THEN e.to ELSE e.from
Follow(load, e, id, depth) ==
  IF Len(load.edges) >= kworld.edgeLimit THEN load
  ELSE LET n == Neighbour(e, id)
           push == n \notin load.seen /\ Len(load.sources) + Len(load.frontier) < kworld.nodeLimit
       IN  [load EXCEPT !.edges = Append(@, e), !.seen = @ \cup {n},
                        !.frontier = IF push THEN Append(@, <<n, depth + 1>>) ELSE @]
ReadSeeded ==
  /\ kstage = "load" /\ kworld.source = "db" /\ kworld.seed # 0
  /\ IF kload.frontier = <<>> \/ Len(kload.sources) >= kworld.nodeLimit
     THEN kstage' = "view" /\ UNCHANGED kload
     ELSE LET top == Last(kload.frontier)
              rest == [kload EXCEPT !.frontier = Front(@)]
              row == EntityOf(top[1])
              found == [rest EXCEPT !.sources = Append(@, CHOOSE r \in row : TRUE)]
          IN  /\ kload' = IF row = {} THEN rest
                          ELSE IF top[2] >= kworld.depth THEN found
                          ELSE FoldLeft(LAMBDA load, e : Follow(load, e, top[1], top[2]), found, EdgesOf(top[1]))
              /\ UNCHANGED kstage
  /\ UNCHANGED <<kworld, krows, kview, kcluster, klayers, kchanged>>

-----------------------------------------------------------------------------
(* build_view.                                                               *)

\* The breadth-first neighbourhood of the seed, by its depths.
Links == {MaskedEdge(e) : e \in {e \in ToSet(kload.edges) : KnownRel(e) /\ e.conf >= kworld.minConf}}
Around(ids, links) == ids \cup {l.to : l \in {l \in links : l.from \in ids}} \cup {l.from : l \in {l \in links : l.to \in ids}}
Near(links) == LET near[d \in 0..kworld.depth] == IF d = 0 THEN {Masked(kworld.seed)} ELSE Around(near[d - 1], links)
               IN  near[kworld.depth]

Admits(r) ==
  /\ r.kind # 0 /\ (kworld.kinds = {} \/ r.kind \in kworld.kinds)
  /\ r.last >= kworld.since /\ r.first <= kworld.until
  /\ kworld.scope = "in" => r.scope # "out"
  /\ kworld.scope = "out" => r.scope = "out"
\* One edge for two ends and a display relation: the first by stored relation.
Distinct(links) ==
  SelectSeq(links, LAMBDA l : ~ \E k \in DOMAIN links :
    /\ links[k].from = l.from /\ links[k].to = l.to /\ Displayed(links[k].rel) = Displayed(l.rel)
    /\ links[k].rel < l.rel)
Once(links) == Pick(links, {k \in DOMAIN links : \A j \in 1..(k - 1) : links[j] # links[k]})
LinkStrength(id, links) == Max({0} \cup {l.conf : l \in {l \in links : id \in {l.from, l.to}}})

BuildView ==
  /\ kstage = "view" /\ kstage' = "cluster"
  /\ LET sources == Sorted(kload.sources)
         near == IF kworld.seed = 0 THEN {} ELSE Near(Links)
         admitted == {k \in DOMAIN sources : Admits(sources[k]) /\ (kworld.seed # 0 => Masked(sources[k].id) \in near)}
         rows == Pick(sources, Taken(admitted, kworld.nodeLimit))
         kept == {Masked(rows[k].id) : k \in DOMAIN rows}
         edges == SortSeq([k \in DOMAIN kload.edges |-> MaskedEdge(kload.edges[k])], EdgeBefore)
         drawn == {k \in DOMAIN edges : /\ edges[k].conf >= kworld.minConf /\ KnownRel(edges[k])
                                        /\ edges[k].from # edges[k].to /\ {edges[k].from, edges[k].to} \subseteq kept}
         links == Once(Distinct(Pick(edges, Taken(drawn, kworld.edgeLimit))))
     IN  kview' = [nodes |-> [k \in DOMAIN rows |->
                      [id |-> Masked(rows[k].id), kind |-> rows[k].kind, conf |-> LinkStrength(Masked(rows[k].id), ToSet(links))]],
                   edges |-> links,
                   truncated |-> \/ Capped(admitted, Len(sources), kworld.nodeLimit)
                                 \/ Capped(drawn, Len(edges), kworld.edgeLimit)
                                 \/ kworld.source = "db" /\ kworld.seed = 0 /\ Len(kload.sources) >= kworld.nodeLimit]
  /\ UNCHANGED <<kworld, krows, kload, kcluster, klayers, kchanged>>

-----------------------------------------------------------------------------
(* Clusters, layers and details of the view.                                 *)

Nodes == {n.id : n \in ToSet(kview.nodes)}
ViewLinks == ToSet(kview.edges)

\* Union-find over the edges: the smaller root takes the larger one's nodes.
Union(roots, e) ==
  LET a == roots[e.from] b == roots[e.to]
  IN  [n \in DOMAIN roots |-> IF roots[n] = Max({a, b}) THEN Min({a, b}) ELSE roots[n]]
Roots == FoldLeft(Union, [n \in Nodes |-> n], kview.edges)
MembersOf(root) == {n \in Nodes : Roots[n] = root}
Larger(a, b) ==
  LET x == Cardinality(MembersOf(a)) y == Cardinality(MembersOf(b)) IN x > y \/ (x = y /\ a < b)
LargestFirst ==
  LET all == {Roots[n] : n \in Nodes}
  IN  [k \in 1..Cardinality(all) |-> CHOOSE a \in all : Cardinality({b \in all : Larger(b, a)}) = k - 1]
Budget == Max({kworld.budget, MinBudget})
MinSize == Max({Cardinality(Nodes) \div Budget, MinCluster})
Collapse(state, root) ==
  LET size == Cardinality(MembersOf(root))
  IN  IF state.visible <= Budget \/ size < MinSize THEN state
      ELSE [visible |-> state.visible - size + 1, roots |-> Append(state.roots, root)]
Collapsed == FoldLeft(Collapse, [visible |-> Cardinality(Nodes), roots |-> <<>>], LargestFirst).roots

\* cluster_beyond: a supernode is minus its number; edges are moved onto it,
\* the strongest for two ends and a relation.
ClusterBeyond ==
  /\ kstage = "cluster" /\ kstage' = "layout"
  /\ LET supers == IF Cardinality(Nodes) <= Budget THEN <<>> ELSE Collapsed
         super(n) == IF \E k \in DOMAIN supers : supers[k] = Roots[n]
                     THEN -(CHOOSE k \in DOMAIN supers : supers[k] = Roots[n]) ELSE n
         moved == {[e EXCEPT !.from = super(@), !.to = super(@)] : e \in ViewLinks}
     IN  kcluster' = [nodes |-> {super(n) : n \in Nodes},
                      edges |-> {e \in moved : e.from # e.to /\ ~ \E f \in moved :
                                   f.from = e.from /\ f.to = e.to /\ Displayed(f.rel) = Displayed(e.rel) /\ f.conf > e.conf},
                      members |-> [k \in DOMAIN supers |-> MembersOf(supers[k])]]
  /\ UNCHANGED <<kworld, krows, kload, kview, klayers, kchanged>>

\* bfs_layers from root_of: the seed, or the first of the best connected; what
\* is not connected joins the last layer.
ViewDegree(n) == Cardinality(Around({n}, ViewLinks) \ {n})
RootOf == IF kworld.seed \in Nodes THEN kworld.seed
          ELSE Min({n \in Nodes : \A m \in Nodes : ViewDegree(m) <= ViewDegree(n)})
Layout ==
  /\ kstage = "layout"
  /\ IF Nodes = {} THEN kstage' = "done" /\ UNCHANGED klayers
     ELSE LET seen == UNION ToSet(klayers)
              next == IF klayers = <<>> THEN {RootOf} ELSE Around(Last(klayers), ViewLinks) \ seen
          IN  IF next # {} THEN klayers' = Append(klayers, next) /\ UNCHANGED kstage
              ELSE klayers' = [klayers EXCEPT ![Len(klayers)] = @ \cup (Nodes \ seen)] /\ kstage' = "done"
  /\ UNCHANGED <<kworld, krows, kload, kview, kcluster, kchanged>>

\* expand_neighbors: the loop stops at the edge that fills the limit.
ExpandNeighbors(node, limit) ==
  LET found[k \in 0..Len(kview.edges)] ==
        IF k = 0 THEN {}
        ELSE LET e == kview.edges[k] before == found[k - 1]
             IN  IF Cardinality(before) >= limit \/ node \notin {e.from, e.to} THEN before
                 ELSE before \cup {Neighbour(e, node)}
  IN  found[Len(kview.edges)]

\* node_detail: the strongest incident edges, and a link for each.
NodeDetail(node) ==
  LET incident == SortSeq(SelectSeq(kview.edges, LAMBDA e : node \in {e.from, e.to}),
                          LAMBDA a, b : a.conf > b.conf \/ (a.conf = b.conf /\ EdgeBefore(a, b)))
  IN  SubSeq(incident, 1, Min({Len(incident), MaxLinks}))

ViewInit ==
  /\ kworld \in ViewWorlds /\ kview = NoGraphView /\ kcluster = NoClusters /\ klayers = <<>>
  /\ krows = kworld.entities /\ kchanged = FALSE /\ kstage = "load"
  /\ kload = [sources |-> <<>>, edges |-> <<>>, offset |-> 0,
              seen |-> {kworld.seed}, frontier |-> IF kworld.seed = 0 THEN <<>> ELSE <<<<kworld.seed, 0>>>>]
ViewNext == ReadMemory \/ ReadPage \/ ImportMeanwhile \/ ReadSeeded \/ BuildView \/ ClusterBeyond \/ Layout
ViewSpec == ViewInit /\ [][ViewNext]_viewvars

-----------------------------------------------------------------------------
(* What a view promises.                                                     *)

ViewTypeOK ==
  /\ Len(kview.nodes) <= kworld.nodeLimit /\ Len(kview.edges) <= kworld.edgeLimit
  /\ Len(kload.sources) <= kworld.nodeLimit \/ kworld.source = "memory"
  /\ \A e \in ViewLinks : e.from # e.to /\ {e.from, e.to} \subseteq Nodes

\* A view shows no secret, nothing the filters leave out, and nothing beyond
\* the depth around its seed, however the edges were walked.
StoredLinks == {MaskedEdge(e) : e \in {e \in ToSet(kworld.edges) : KnownRel(e)}}
ViewFiltered ==
  /\ (Nodes \cup UNION {{e.from, e.to} : e \in ViewLinks}) \cap kworld.secret = {}
  /\ \A n \in Nodes : \E r \in ToSet(kworld.entities) :
       /\ Masked(r.id) = n /\ r.first <= kworld.until /\ kworld.since <= r.last
       /\ kworld.kinds # {} => r.kind \in kworld.kinds
       /\ r.scope = "out" => kworld.scope # "in"
       /\ r.scope # "out" => kworld.scope # "out"
  /\ kworld.seed # 0 => Nodes \subseteq Near(StoredLinks)

\* A view that says it is whole is whole, when it comes from memory; one that
\* was read page by page has every entity, if none was imported meanwhile.
ViewWhole ==
  kstage # "load" /\ kstage # "view" /\ ~kview.truncated /\ kworld.seed = 0 =>
    /\ ~kchanged => \A r \in ToSet(kworld.entities) :
           /\ r.kind \in (IF kworld.kinds = {} THEN 1..9 ELSE kworld.kinds) /\ r.first <= kworld.until /\ kworld.since <= r.last
           /\ kworld.scope = "all" \/ (r.scope = "out" <=> kworld.scope = "out")
           => Masked(r.id) \in Nodes
    /\ kworld.source = "memory" =>
         \A e \in StoredLinks : e.conf >= kworld.minConf /\ e.from # e.to /\ {e.from, e.to} \subseteq Nodes =>
           \E l \in ViewLinks : l.from = e.from /\ l.to = e.to /\ Displayed(l.rel) = Displayed(e.rel)

\* Clusters share out the nodes: whole components collapse, no edge crosses
\* out of one, and a view above its budget keeps small components only.
ClusterExact ==
  kstage \in {"layout", "done"} =>
    LET hidden == UNION ToSet(kcluster.members)
    IN  /\ \A n \in Nodes : n \in kcluster.nodes <=> n \notin hidden
        /\ \A j, k \in DOMAIN kcluster.members : j # k => kcluster.members[j] \cap kcluster.members[k] = {}
        /\ \A k \in DOMAIN kcluster.members : Around(kcluster.members[k], ViewLinks) = kcluster.members[k]
        /\ \A e \in ViewLinks : {e.from, e.to} \cap hidden = {} => \E f \in kcluster.edges : f.from = e.from /\ f.to = e.to
        /\ Cardinality(kcluster.nodes) > Budget =>
             \A n \in Nodes \ hidden : Cardinality(MembersOf(Roots[n])) < MinSize

\* Every node is laid out in one layer, and edges join neighbouring layers.
LayersSound ==
  kstage = "done" =>
    /\ UNION ToSet(klayers) = Nodes
    /\ \A j, k \in DOMAIN klayers : j # k => klayers[j] \cap klayers[k] = {}
    /\ \A e \in ViewLinks : \A j, k \in DOMAIN klayers : e.from \in klayers[j] /\ e.to \in klayers[k] => k <= j + 1 /\ j <= k + 1

\* The strength shown for a node is that of the first link of its details, and
\* expanding it shows neighbours up to the limit.
DetailAgrees ==
  kstage = "done" =>
    \A n \in ToSet(kview.nodes) :
      /\ n.conf = IF NodeDetail(n.id) = <<>> THEN 0 ELSE NodeDetail(n.id)[1].conf
      /\ \A limit \in 1..2 : Cardinality(ExpandNeighbors(n.id, limit)) = Min({limit, ViewDegree(n.id)})

ViewSound == ViewFiltered /\ ViewWhole /\ ClusterExact /\ LayersSound /\ DetailAgrees
=============================================================================
