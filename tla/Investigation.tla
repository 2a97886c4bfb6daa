--------------------------- MODULE Investigation ---------------------------
(* The passive investigation of src/src/investigate.rs: a seed is expanded   *)
(* into a graph of entities by small transforms, taken from a queue sorted   *)
(* by depth, entity and transform, within a depth and budgets; then the      *)
(* exposure lookup, then the network bridge, both only when asked for.       *)
(*                                                                           *)
(* An entity is a number; the numbers are in the order of the entities' ids, *)
(* which begin with their kind. What the outside knows of an entity is       *)
(* iworld.about[e], a record of the fields its kind's transforms read.       *)
EXTENDS Naturals, FiniteSets, Sequences, SequencesExt

CONSTANTS
  InvWorlds,   \* the seeds, configurations and outsides investigated
  MaxMisses    \* bound: queries that fail or find nothing in one behaviour

VARIABLES
  icancel,     \* the caller's cancel flag
  ilate,       \* the deadline has passed
  xproviders,  \* the providers asked, in order: [api, accepts, finds]
  xphase,      \* "idle", "asking", "reported"
  xnext,       \* index of the provider whose turn it is
  xacct,       \* ExposureAccounting
  xobs,        \* sequence of <<provider, status>>
  xfound,      \* exposures reported, in order
  xchecked,    \* history: providers that answered the question
  iworld,      \* which of InvWorlds
  iphase,      \* "expand", "exposure", "bridge", "done"
  ipending,    \* the queue: a set of <<depth, entity, transform>>
  idepth,      \* [entities -> depth, or Absent]
  iedges,      \* relationships, as <<from, to, relation>>
  iexpanded,   \* the (transform, entity) pairs taken up
  iacct,       \* InvestigationAccounting
  itruncated,  \* truncation_reasons
  iobserved,   \* entities some observation has as its input
  ibridge,     \* addresses the bridge has still to look at
  icontacted,  \* history: addresses connected to
  imisses      \* history: queries that failed or found nothing

\* The depth of an entity the graph has not.
Absent == 99

\* What the outside may know of an entity, by its kind: lists of entities,
\* which may be empty where the transform copes with that.
Lists(w) == Seq(DOMAIN w.kind)
Groups(w) == Seq(Lists(w) \ {<<>>})
KnownOf(w, e) ==
  LET about == w.about[e]
  IN /\ w.kind[e] = "username" => about.accounts \in Lists(w) /\ about.providers \in Nat
     /\ w.kind[e] = "account" => about.links \in Lists(w) \ {<<>>} /\ about.emails \in Lists(w)
     /\ w.kind[e] \in {"domain", "email"} => about.records \in Seq(Lists(w))
     /\ w.kind[e] = "domain" => about.certs \in Groups(w)
     /\ w.kind[e] = "email" => about.domain \in Lists(w)
     /\ w.kind[e] = "endpoint" =>
          about.host \in Lists(w) /\ about.forge \in Lists(w) /\ Len(about.forge) \in {0, 2} /\ about.snapshots \in Groups(w)
     /\ w.kind[e] = "ip" => about.names \in Lists(w) /\ about.range \in Lists(w) /\ about.open \in Lists(w)
     /\ w.kind[e] \in {"domain", "ip", "asn"} => about.registered \in Lists(w)
     /\ w.kind[e] = "repository" => about.metadata \in Lists(w)
     /\ w.kind[e] \in {"account", "domain", "endpoint", "ip", "asn", "repository", "username"} => about.permitted \in BOOLEAN

Lookup(w) == [api : BOOLEAN, accepts : BOOLEAN,
              finds : Seq([id : DOMAIN w.kind, source : DOMAIN w.kind, affects : Lists(w)])]

\* InvestigationConfig::validate refuses depths above MAX_DEPTH and budgets of 0
\* entities.
ASSUME InvAssumption ==
  /\ MaxMisses \in Nat
  /\ \A w \in InvWorlds :
       /\ w.kind \in Seq(STRING) /\ w.seed \in DOMAIN w.kind
       /\ \A e \in DOMAIN w.kind : KnownOf(w, e)
       /\ w.sources \in Seq(Lookup(w))
       /\ w.depth \in 0 .. Absent - 1 /\ w.entities \in Nat \ {0}
       /\ \A budget \in {w.relationships, w.http, w.dns, w.pivots} : budget \in Nat
       /\ w.exposure \in BOOLEAN /\ w.network \in BOOLEAN

xvars == <<icancel, ilate, xproviders, xphase, xnext, xacct, xobs, xfound, xchecked>>

invvars == <<xvars, iworld, iphase, ipending, idepth, iedges, iexpanded, iacct, itruncated,
             iobserved, ibridge, icontacted, imisses>>

Entities == DOMAIN iworld.kind
Kind(e) == iworld.kind[e]
About(e) == iworld.about[e]
FoundIn(depth) == {e \in DOMAIN depth : depth[e] # Absent}

-----------------------------------------------------------------------------
(* The exposure lookup of src/src/exposure.rs: run_exposure asks the         *)
(* configured providers one after the other whether an identifier is known   *)
(* to be exposed. The cancel flag and the clock are the investigation's.     *)

NoLookups == [completed |-> 0, skipped |-> 0, cancelled |-> 0, unscanned |-> 0]

ExposureInit ==
  /\ icancel = FALSE /\ ilate = FALSE
  /\ xproviders = <<>> /\ xphase = "idle" /\ xnext = 1 /\ xacct = NoLookups
  /\ xobs = <<>> /\ xfound = <<>> /\ xchecked = {}

-----------------------------------------------------------------------------

\* A cancelled run, a deadline or the wrong kind of identifier: the provider
\* is counted and not asked.
PassOver ==
  /\ xphase = "asking" /\ xnext \in DOMAIN xproviders
  /\ \/ icancel /\ xacct' = [xacct EXCEPT !.cancelled = @ + 1]
     \/ ~icancel /\ ilate /\ xacct' = [xacct EXCEPT !.unscanned = @ + 1]
     \/ /\ ~icancel /\ ~ilate /\ ~xproviders[xnext].accepts
        /\ xacct' = [xacct EXCEPT !.skipped = @ + 1]
  /\ xnext' = xnext + 1
  /\ UNCHANGED <<icancel, ilate, xproviders, xphase, xobs, xfound, xchecked>>

Queried == xphase = "asking" /\ xnext \in DOMAIN xproviders
           /\ ~icancel /\ ~ilate /\ xproviders[xnext].accepts

\* The provider answers; what it knows is reported, each with an observation.
Answered ==
  /\ Queried
  /\ LET found == xproviders[xnext].finds
     IN /\ xfound' = xfound \o found
        /\ xobs' = xobs \o [i \in DOMAIN found |-> <<xnext, "matched">>]
  /\ xacct' = [xacct EXCEPT !.completed = @ + 1]
  /\ xchecked' = xchecked \cup {xnext}
  /\ xnext' = xnext + 1
  /\ UNCHANGED <<icancel, ilate, xproviders, xphase>>

\* It fails: unavailable, not authorised, rate limited, malformed.
Failed ==
  /\ Queried
  /\ xobs' = Append(xobs, <<xnext, "failed">>)
  /\ xacct' = [xacct EXCEPT !.completed = @ + 1]
  /\ xnext' = xnext + 1
  /\ UNCHANGED <<icancel, ilate, xproviders, xphase, xfound, xchecked>>

\* The flag or the deadline is met inside the query; what it had is dropped.
CutShort ==
  /\ Queried
  /\ \/ icancel' = TRUE /\ xacct' = [xacct EXCEPT !.cancelled = @ + 1] /\ UNCHANGED ilate
     \/ ilate' = TRUE /\ xacct' = [xacct EXCEPT !.unscanned = @ + 1] /\ UNCHANGED icancel
  /\ xnext' = xnext + 1
  /\ UNCHANGED <<xproviders, xphase, xobs, xfound, xchecked>>

\* The providers without any observation are reported to know of nothing.
Unmatched(p) == xproviders[p].accepts /\ ~\E i \in DOMAIN xobs : xobs[i][1] = p

ReportExposure ==
  /\ xphase = "asking" /\ xnext \notin DOMAIN xproviders
  /\ LET clean == {p \in DOMAIN xproviders : Unmatched(p)}
         nth(i) == CHOOSE p \in clean : Cardinality({q \in clean : q <= p}) = i
     IN xobs' = xobs \o [i \in 1..Cardinality(clean) |-> <<nth(i), "no_match">>]
  /\ xphase' = "reported"
  /\ UNCHANGED <<icancel, ilate, xproviders, xnext, xacct, xfound, xchecked>>

ExposureStep == PassOver \/ Answered \/ Failed \/ CutShort \/ ReportExposure

-----------------------------------------------------------------------------

\* ExposureAccounting::check_invariant, at every moment: each provider whose
\* turn has come is exactly one of completed, skipped, cancelled, unscanned.
LookupsExact ==
  xacct.completed + xacct.skipped + xacct.cancelled + xacct.unscanned = xnext - 1

\* What exposure.rs:1050 promises: "checked and clean" is distinguishable from
\* "not checked", so no_match is only said of a provider that answered.
CleanMeansChecked == \A i \in DOMAIN xobs : xobs[i][2] = "no_match" => xobs[i][1] \in xchecked

-----------------------------------------------------------------------------
(* The registry. Transforms are numbered in the order of their ids.          *)

Entry(id, accepts, cost, contact) == [id |-> id, accepts |-> accepts, cost |-> cost, contact |-> contact]

Registry ==
  <<Entry("account_to_url", "account", 1, "http"), Entry("asn_to_rdap", "asn", 1, "http"),
    Entry("domain_to_ct", "domain", 1, "http"), Entry("domain_to_dns", "domain", 1, "dns"),
    Entry("domain_to_rdap", "domain", 1, "http"), Entry("email_to_mail_infra", "email", 1, "dns"),
    Entry("ip_to_ptr", "ip", 1, "dns"), Entry("ip_to_rdap", "ip", 1, "http"),
    Entry("repo_to_metadata", "repository", 1, "http"), Entry("url_to_archive", "endpoint", 1, "http"),
    Entry("url_to_domain", "endpoint", 0, "none"), Entry("url_to_repository", "endpoint", 0, "none"),
    Entry("username_to_account", "username", 1, "provider")>>

Transforms == DOMAIN Registry
ForEntity(e) == {t \in Transforms : Registry[t].accepts = Kind(e)}

-----------------------------------------------------------------------------
(* What each transform makes of the answers to its queries: the contacts it  *)
(* charges, the entities in order, the relationships in order. An answer is  *)
(* "ok", "nothing" (no data, or nothing that parses) or "error".             *)

Output(http, dns, entities, relationships) ==
  [http |-> http, dns |-> dns, entities |-> entities, relationships |-> relationships]
NoOutput == Output(0, 0, <<>>, <<>>)

To(from, ids, relation) == [i \in DOMAIN ids |-> <<from, ids[i], relation>>]

\* A transform of one HTTP query, which policy may forbid: errors are not
\* charged, and leave nothing.
OneFetch(answers, entities, relationships) ==
  CASE answers = <<>> \/ answers[1] = "error" -> NoOutput
    [] answers[1] = "nothing" -> Output(1, 0, <<>>, <<>>)
    [] OTHER -> Output(1, 0, entities, relationships)

\* A search that cannot run finds no account and charges nothing.
UsernameToAccount(e, answers) ==
  IF answers[1] = "ok"
  THEN Output(About(e).providers, 0, About(e).accounts, To(e, About(e).accounts, "has_account"))
  ELSE IF answers[1] = "error" THEN NoOutput ELSE Output(About(e).providers, 0, <<>>, <<>>)

\* The profile's own URL and its links, then its e-mail addresses. Unlike the
\* others it charges the fetch that failed.
AccountToUrl(e, answers) ==
  CASE answers = <<>> -> NoOutput
    [] answers[1] = "error" -> Output(1, 0, <<>>, <<>>)
    [] answers[1] = "nothing" -> Output(1, 0, <<Head(About(e).links)>>, <<<<e, Head(About(e).links), "links_to">>>>)
    [] OTHER -> Output(1, 0, About(e).links \o About(e).emails,
                       To(e, About(e).links, "links_to") \o To(e, About(e).emails, "references"))

\* The host of a URL is a domain or an address, or of no use.
UrlToDomain(e) == Output(0, 0, About(e).host, To(e, About(e).host, "references"))

\* A link into a forge names a repository and its owner.
UrlToRepository(e) ==
  LET forge == About(e).forge
  IN IF forge = <<>> THEN NoOutput
     ELSE Output(0, 0, forge, <<<<e, forge[1], "links_to">>, <<forge[1], forge[2], "references">>>>)

\* The records of the queries that were answered; errors are not charged.
Resolved(records, answers) ==
  FlattenSeq([q \in DOMAIN answers |-> IF answers[q] = "ok" THEN records[q] ELSE <<>>])
Charged(answers) == Cardinality({q \in DOMAIN answers : answers[q] # "error"})

DomainToDns(e, answers) ==
  LET ids == Resolved(About(e).records, answers)
  IN Output(0, Charged(answers), ids,
            [i \in DOMAIN ids |-> <<e, ids[i], IF Kind(ids[i]) = "ip" THEN "resolves_to" ELSE "references">>])

\* The domain behind the @, then its mail exchangers and texts.
EmailToMailInfra(e, answers) ==
  LET domain == About(e).domain
      ids == Resolved(About(e).records, answers)
  IN IF domain = <<>> THEN NoOutput
     ELSE Output(0, Charged(answers), domain \o ids,
                 To(e, domain, "references") \o To(domain[1], ids, "references"))

\* An entity that is no address literal is an error before any query.
IpToPtr(e, answers) ==
  IF answers = <<"ok">> THEN Output(0, 1, About(e).names, To(e, About(e).names, "reverse_resolves_to"))
  ELSE Output(0, Charged(answers), <<>>, <<>>)

\* emit_rdap_common: name servers and the organisations of the registration.
RdapCommon(e, before, answers) ==
  LET ids == before \o About(e).registered
  IN OneFetch(answers, ids, To(e, ids, "associated"))
DomainToRdap(e, answers) == RdapCommon(e, <<>>, answers)
IpToRdap(e, answers) == RdapCommon(e, About(e).range, answers)
AsnToRdap(e, answers) == RdapCommon(e, <<>>, answers)

\* Groups of ids whose first is linked to the entity and the rest to the first.
Grouped(e, groups, relation) ==
  FlattenSeq([g \in DOMAIN groups |->
                <<<<e, Head(groups[g]), "references">>>> \o To(Head(groups[g]), Tail(groups[g]), relation)])

\* Certificates with the names and addresses they were issued for.
DomainToCt(e, answers) ==
  OneFetch(answers, FlattenSeq(About(e).certs), Grouped(e, About(e).certs, "has_san"))

\* Snapshots with the hosts their addresses had.
UrlToArchive(e, answers) ==
  OneFetch(answers, FlattenSeq(About(e).snapshots), Grouped(e, About(e).snapshots, "references"))

\* The owner, and what the repository's metadata refers to.
RepoToMetadata(e, answers) ==
  OneFetch(answers, About(e).metadata, To(e, About(e).metadata, "refers"))

\* How many queries a transform makes when nothing stops it.
Queries(t, e) ==
  CASE Registry[t].contact = "none" -> 0
    [] Registry[t].id = "domain_to_dns" -> Len(About(e).records)
    [] Registry[t].id = "email_to_mail_infra" -> IF About(e).domain = <<>> THEN 0 ELSE Len(About(e).records)
    [] OTHER -> IF About(e).permitted THEN 1 ELSE 0

\* The two transforms with a query loop look at the flag and the clock in it.
Loops(t) == Registry[t].id \in {"domain_to_dns", "email_to_mail_infra"}

Execute(t, e, answers) ==
  LET id == Registry[t].id
  IN CASE id = "username_to_account" -> UsernameToAccount(e, answers)
       [] id = "account_to_url" -> AccountToUrl(e, answers)
       [] id = "url_to_domain" -> UrlToDomain(e)
       [] id = "url_to_repository" -> UrlToRepository(e)
       [] id = "domain_to_dns" -> DomainToDns(e, answers)
       [] id = "email_to_mail_infra" -> EmailToMailInfra(e, answers)
       [] id = "ip_to_ptr" -> IpToPtr(e, answers)
       [] id = "domain_to_rdap" -> DomainToRdap(e, answers)
       [] id = "ip_to_rdap" -> IpToRdap(e, answers)
       [] id = "asn_to_rdap" -> AsnToRdap(e, answers)
       [] id = "domain_to_ct" -> DomainToCt(e, answers)
       [] id = "url_to_archive" -> UrlToArchive(e, answers)
       [] id = "repo_to_metadata" -> RepoToMetadata(e, answers)

\* url_to_repository alone keeps silent about a URL that is none.
Observes(t, e) == Registry[t].id = "url_to_repository" => About(e).forge # <<>>

-----------------------------------------------------------------------------
(* Admission. The graph under construction is a record.                      *)

Graph == [depth |-> idepth, edges |-> iedges, pending |-> ipending, acct |-> iacct, truncated |-> itruncated]

\* The first of the elements of a sequence that are new, as many as there is
\* room for, and whether some had to be left out.
New(s, old) == {i \in DOMAIN s : s[i] \notin old /\ \A j \in 1..(i - 1) : s[j] # s[i]}
Taken(s, old, room) ==
  {s[i] : i \in {i \in New(s, old) : Cardinality({j \in New(s, old) : j <= i}) <= room}}
TooMany(s, old, room, reason) == IF Cardinality(New(s, old)) > room THEN {reason} ELSE {}

\* An entity that is known keeps its depth; a new one is recorded, and its
\* transforms are queued unless they are taken up already. Nothing deeper than
\* the depth asked for is recorded.
AdmitEntities(g, ids, depth, expanded) ==
  LET old == FoundIn(g.depth)
      room == iworld.entities - Cardinality(old)
      admitted == Taken(ids, old, room)
      follow == {<<depth, e, t>> : e \in admitted, t \in Transforms}
      queued == {x \in follow : x[3] \in ForEntity(x[2]) /\ <<x[3], x[2]>> \notin expanded}
  IN IF depth > iworld.depth THEN g
     ELSE [g EXCEPT !.depth = [e \in Entities |-> IF e \in admitted THEN depth ELSE @[e]],
                    !.pending = @ \cup queued,
                    !.acct.requested = @ + Cardinality(queued \ g.pending),
                    !.truncated = @ \cup TooMany(ids, old, room, "entity_budget")]

\* A bug: an edge to an entity that was refused is recorded.
AdmitRelationshipsDangling(g, edges) ==
  LET room == iworld.relationships - Cardinality(g.edges)
  IN [g EXCEPT !.edges = @ \cup Taken(edges, g.edges, room),
               !.truncated = @ \cup TooMany(edges, g.edges, room, "relationship_budget")]

\* An edge is recorded once, between entities that were admitted.
AdmitRelationships(g, edges) ==
  LET dangling == {edge \in ToSet(edges) : ~({edge[1], edge[2]} \subseteq FoundIn(g.depth))}
      out == g.edges \cup dangling
      room == iworld.relationships - Cardinality(g.edges)
  IN [g EXCEPT !.edges = @ \cup Taken(edges, out, room),
               !.truncated = @ \cup TooMany(edges, out, room, "relationship_budget")]

\* Contacts are charged one by one, up to the budget.
Charge(g, http, dns) ==
  LET over == (IF g.acct.http + http > iworld.http THEN {"http_budget"} ELSE {})
              \cup (IF g.acct.dns + dns > iworld.dns THEN {"dns_budget"} ELSE {})
  IN [g EXCEPT !.acct.http = IF @ + http > iworld.http THEN iworld.http ELSE @ + http,
               !.acct.dns = IF @ + dns > iworld.dns THEN iworld.dns ELSE @ + dns,
               !.truncated = @ \cup over]

Becomes(g) ==
  /\ idepth' = g.depth /\ iedges' = g.edges /\ ipending' = g.pending
  /\ iacct' = g.acct /\ itruncated' = g.truncated

\* A transform's contacts are charged, then its entities and its relationships
\* admitted.
Joined(before, output, depth, expanded) ==
  \E charged \in {Charge(before, output.http, output.dns)} :
  \E grown \in {AdmitEntities(charged, output.entities, depth, expanded)} :
  \E linked \in {AdmitRelationships(grown, output.relationships)} : Becomes(linked)

-----------------------------------------------------------------------------

InvInit ==
  /\ ExposureInit
  /\ iworld \in InvWorlds /\ iphase = "expand"
  /\ idepth = [e \in Entities |-> IF e = iworld.seed THEN 0 ELSE Absent]
  /\ ipending = {<<0, iworld.seed, t>> : t \in ForEntity(iworld.seed)}
  /\ iacct = [requested |-> Cardinality(ForEntity(iworld.seed)), completed |-> 0, skipped |-> 0,
              cancelled |-> 0, unscanned |-> 0, http |-> 0, dns |-> 0, scans |-> 0]
  /\ iedges = {} /\ iexpanded = {} /\ itruncated = {} /\ iobserved = {}
  /\ ibridge = {} /\ icontacted = {} /\ imisses = 0

\* The order of the queue.
Before(x, y) ==
  \/ x[1] < y[1]
  \/ x[1] = y[1] /\ x[2] < y[2]
  \/ x[1] = y[1] /\ x[2] = y[2] /\ x[3] < y[3]
NextPending == CHOOSE x \in ipending : \A y \in ipending \ {x} : Before(x, y)

\* The cancel flag is raised, or the deadline passes, at any time.
Interrupt ==
  /\ iphase # "done"
  /\ \/ ~icancel /\ icancel' = TRUE /\ UNCHANGED ilate
     \/ ~ilate /\ ilate' = TRUE /\ UNCHANGED icancel
  /\ UNCHANGED <<xproviders, xphase, xnext, xacct, xobs, xfound, xchecked, iworld, iphase, ipending,
                 idepth, iedges, iexpanded, iacct, itruncated, iobserved, ibridge, icontacted, imisses>>

\* A bug: what is left in the queue is forgotten.
InvStopForgets ==
  /\ iphase = "expand" /\ ipending # {} /\ (icancel \/ ilate)
  /\ itruncated' = itruncated \cup {IF icancel THEN "cancellation" ELSE "deadline"}
  /\ ipending' = {}
  /\ UNCHANGED <<xvars, iworld, iphase, idepth, iedges, iexpanded, iacct, iobserved, ibridge, icontacted, imisses>>

\* The loop ends: everything still queued is cancelled, or was not scanned.
InvStop ==
  /\ iphase = "expand" /\ ipending # {} /\ (icancel \/ ilate)
  /\ LET left == Cardinality(ipending)
     IN IF icancel
        THEN /\ iacct' = [iacct EXCEPT !.cancelled = @ + left]
             /\ itruncated' = itruncated \cup {"cancellation"}
        ELSE /\ iacct' = [iacct EXCEPT !.unscanned = @ + left]
             /\ itruncated' = itruncated \cup {"deadline"}
  /\ ipending' = {}
  /\ UNCHANGED <<xvars, iworld, iphase, idepth, iedges, iexpanded, iobserved, ibridge, icontacted, imisses>>

Running == iphase = "expand" /\ ipending # {} /\ ~icancel /\ ~ilate

Fits(t, depth) == depth + Registry[t].cost <= iworld.depth

\* What is beyond the depth, or was taken up before, is skipped; the pair
\* counts as taken up.
InvSkip ==
  /\ Running
  /\ LET e == NextPending[2]
         t == NextPending[3]
     IN /\ <<t, e>> \in iexpanded \/ ~Fits(t, idepth[e])
        /\ iexpanded' = iexpanded \cup {<<t, e>>}
  /\ ipending' = ipending \ {NextPending}
  /\ iacct' = [iacct EXCEPT !.skipped = @ + 1]
  /\ UNCHANGED <<xvars, iworld, iphase, idepth, iedges, itruncated, iobserved, ibridge, icontacted, imisses>>

\* The budget that refuses a transform before it starts.
Exhausted(t) ==
  IF Cardinality(FoundIn(idepth)) >= iworld.entities THEN {"entity_budget"}
  ELSE IF Cardinality(iedges) >= iworld.relationships THEN {"relationship_budget"}
  ELSE IF Registry[t].contact = "http" /\ iacct.http >= iworld.http THEN {"http_budget"}
  ELSE IF Registry[t].contact = "dns" /\ iacct.dns >= iworld.dns THEN {"dns_budget"}
  ELSE {}

InvRefuse ==
  /\ Running
  /\ LET e == NextPending[2]
         t == NextPending[3]
     IN /\ <<t, e>> \notin iexpanded /\ Fits(t, idepth[e]) /\ Exhausted(t) # {}
        /\ itruncated' = itruncated \cup Exhausted(t)
        /\ iexpanded' = iexpanded \cup {<<t, e>>}
  /\ ipending' = ipending \ {NextPending}
  /\ iacct' = [iacct EXCEPT !.unscanned = @ + 1]
  /\ UNCHANGED <<xvars, iworld, iphase, idepth, iedges, iobserved, ibridge, icontacted, imisses>>

Misses(answers) == Cardinality({q \in DOMAIN answers : answers[q] # "ok"})

\* The answers a transform may get: all of them, or in a query loop those
\* before the flag or the deadline is met.
Answers(t, e) ==
  {a \in UNION {[1..n -> {"ok", "nothing", "error"}] : n \in 0..Queries(t, e)} :
     /\ imisses + Misses(a) <= MaxMisses
     /\ Len(a) < Queries(t, e) => Loops(t)}

InvExpand ==
  /\ Running
  /\ LET e == NextPending[2]
         t == NextPending[3]
     IN /\ <<t, e>> \notin iexpanded /\ Fits(t, idepth[e]) /\ Exhausted(t) = {}
        /\ iexpanded' = iexpanded \cup {<<t, e>>}
        /\ iobserved' = IF Observes(t, e) THEN iobserved \cup {e} ELSE iobserved
        /\ \E answers \in Answers(t, e), stopped \in BOOLEAN, overdue \in BOOLEAN :
             /\ Len(answers) < Queries(t, e) => stopped \/ overdue
             /\ icancel' = stopped /\ ilate' = overdue
             /\ imisses' = imisses + Misses(answers)
             /\ \E output \in {Execute(t, e, answers)} :
                  Joined([Graph EXCEPT !.pending = @ \ {NextPending}, !.acct.completed = @ + 1,
                                         !.truncated = @ \cup (IF overdue THEN {"deadline"} ELSE {})],
                           output, idepth[e] + Registry[t].cost, iexpanded')
  /\ UNCHANGED <<xproviders, xphase, xnext, xacct, xobs, xfound, xchecked, iworld, iphase, ibridge, icontacted>>

\* The queue is empty: the exposure lookup is next, for the seeds it accepts
\* and where the depth has room for what it may find.
InvExpanded ==
  /\ iphase = "expand" /\ ipending = {}
  /\ iphase' = "exposure"
  /\ LET asked == iworld.exposure /\ Kind(iworld.seed) \in {"username", "domain", "email"} /\ iworld.depth >= 1
     IN IF asked THEN xphase' = "asking" /\ xproviders' = iworld.sources /\ UNCHANGED iobserved
        ELSE /\ iobserved' = IF iworld.exposure THEN iobserved \cup {iworld.seed} ELSE iobserved
             /\ UNCHANGED <<xphase, xproviders>>
  /\ UNCHANGED <<icancel, ilate, xnext, xacct, xobs, xfound, xchecked, iworld, ipending, idepth, iedges,
                 iexpanded, iacct, itruncated, ibridge, icontacted, imisses>>

InvExposure ==
  /\ iphase = "exposure" /\ ExposureStep
  /\ UNCHANGED <<iworld, iphase, ipending, idepth, iedges, iexpanded, iacct, itruncated, iobserved,
                 ibridge, icontacted, imisses>>

\* An observation of an API that matched or did not is charged as one request.
ApiAnswers == Cardinality({i \in DOMAIN xobs : xproviders[xobs[i][1]].api /\ xobs[i][2] \in {"matched", "no_match"}})

\* to_graph_items: each exposure, its source, the domain it affects.
GraphItems(found) ==
  LET items(x) == <<x.id, x.source>> \o x.affects
  IN Output(ApiAnswers, 0, FlattenSeq([i \in DOMAIN found |-> items(found[i])]),
            FlattenSeq([i \in DOMAIN found |->
              <<<<iworld.seed, found[i].id, "exposed_in">>>> \o To(found[i].id, Tail(items(found[i])), "reported")]))

\* A bug: every address of the graph is a candidate.
CandidatesAny(edges) == {e \in FoundIn(idepth) : Kind(e) = "ip"}

\* Where the bridge may go: addresses that some domain resolves to.
Candidates(edges) == {e \in Entities : Kind(e) = "ip" /\ \E edge \in edges : edge[2] = e /\ edge[3] = "resolves_to"}

\* What was found joins the graph; none of its transforms is queued. Then the
\* bridge takes its candidates.
InvExposed ==
  /\ iphase = "exposure" /\ xphase # "asking"
  /\ iphase' = "bridge"
  /\ LET everyPair == Transforms \X Entities
         found == IF xphase = "reported" THEN xfound ELSE <<>>
     IN \E output \in {GraphItems(found)} : Joined(Graph, output, 1, everyPair)
  /\ ibridge' = IF iworld.network THEN Candidates(iedges') ELSE {}
  /\ iobserved' = IF xobs # <<>> THEN iobserved \cup {iworld.seed} ELSE iobserved
  /\ UNCHANGED <<xvars, iworld, iexpanded, icontacted, imisses>>

NextAddress == CHOOSE e \in ibridge : \A f \in ibridge : e <= f
Bridging == iphase = "bridge" /\ ibridge # {} /\ ~icancel /\ ~ilate

BridgeStop ==
  /\ iphase = "bridge" /\ ibridge # {} /\ (icancel \/ ilate)
  /\ itruncated' = itruncated \cup {IF icancel THEN "cancellation" ELSE "deadline"}
  /\ ibridge' = {}
  /\ UNCHANGED <<xvars, iworld, iphase, ipending, idepth, iedges, iexpanded, iacct, iobserved, icontacted, imisses>>

\* An address outside the authorised scope is recorded as such.
BridgeReject ==
  /\ Bridging /\ NextAddress \notin iworld.scope
  /\ iobserved' = iobserved \cup {NextAddress}
  /\ ibridge' = ibridge \ {NextAddress}
  /\ UNCHANGED <<xvars, iworld, iphase, ipending, idepth, iedges, iexpanded, iacct, itruncated, icontacted, imisses>>

BridgeExhausted ==
  /\ Bridging /\ NextAddress \in iworld.scope /\ iacct.scans >= iworld.pivots
  /\ itruncated' = itruncated \cup {"network_pivot_budget"}
  /\ ibridge' = {}
  /\ UNCHANGED <<xvars, iworld, iphase, ipending, idepth, iedges, iexpanded, iacct, iobserved, icontacted, imisses>>

\* A port joins the graph with its edge; a budget ends the loop over them, so
\* at most one port is left without an edge.
Ports(ip, ports) ==
  LET room == iworld.relationships - Cardinality(iedges)
      within == SubSeq(ports, 1, IF Len(ports) <= room THEN Len(ports) ELSE room + 1)
  IN Output(0, 0, within, To(ip, within, "listens_on"))

\* One probe connects to the ports of an address until the flag or the
\* deadline is met; a private address is counted and not connected to.
BridgeProbe ==
  /\ Bridging /\ NextAddress \in iworld.scope /\ iacct.scans < iworld.pivots
  /\ LET ip == NextAddress
         open == IF ip \in iworld.private THEN <<>> ELSE About(ip).open
     IN /\ \E n \in 0..Len(open), stopped \in BOOLEAN, overdue \in BOOLEAN :
             /\ n < Len(open) => stopped \/ overdue
             /\ icancel' = stopped /\ ilate' = overdue
             /\ Joined([Graph EXCEPT !.acct.scans = @ + 1], Ports(ip, SubSeq(open, 1, n)), idepth[ip], {})
        /\ icontacted' = IF ip \in iworld.private THEN icontacted ELSE icontacted \cup {ip}
        /\ iobserved' = iobserved \cup {ip}
        /\ ibridge' = ibridge \ {ip}
  /\ UNCHANGED <<xproviders, xphase, xnext, xacct, xobs, xfound, xchecked, iworld, iphase, iexpanded, imisses>>

InvDone ==
  /\ iphase = "bridge" /\ ibridge = {}
  /\ iphase' = "done"
  /\ UNCHANGED <<xvars, iworld, ipending, idepth, iedges, iexpanded, iacct, itruncated, iobserved, ibridge,
                 icontacted, imisses>>

InvStep == \/ InvStop \/ InvSkip \/ InvRefuse \/ InvExpand \/ InvExpanded \/ InvExposure \/ InvExposed
           \/ BridgeStop \/ BridgeReject \/ BridgeExhausted \/ BridgeProbe \/ InvDone
InvNext == InvStep \/ Interrupt

\* execute is one call: it runs to its end.
InvSpec == InvInit /\ [][InvNext]_invvars /\ WF_invvars(InvStep)

-----------------------------------------------------------------------------
(* The report.                                                               *)

\* suggest_pivots: what a next investigation could start from, in order.
Seedable == {"domain", "host", "ip", "asn", "email", "repository", "organization", "username", "endpoint"}
ReportedSeed == CHOOSE e \in FoundIn(idepth) : \A f \in FoundIn(idepth) \ {e} :
                  idepth[e] < idepth[f] \/ (idepth[e] = idepth[f] /\ e < f)
Pivots ==
  {e \in FoundIn(idepth) \ (iobserved \cup {ReportedSeed}) :
     /\ Kind(e) \in Seedable
     /\ \E edge \in iedges : edge[2] = e}

-----------------------------------------------------------------------------

InvTypeOK ==
  /\ iphase \in {"expand", "exposure", "bridge", "done"}
  /\ \A x \in ipending : x[1] = idepth[x[2]] /\ x[3] \in ForEntity(x[2])
  /\ \A e \in FoundIn(idepth) : idepth[e] <= iworld.depth
  /\ iexpanded \subseteq Transforms \X Entities

\* InvestigationAccounting::check_invariant at every moment: each transform
\* requested is queued or exactly one of completed, skipped, cancelled and
\* not scanned, whichever of the flag, the deadline and the budgets ends it.
AccountingExact ==
  iacct.requested = iacct.completed + iacct.skipped + iacct.cancelled + iacct.unscanned + Cardinality(ipending)

\* An investigation that reports no truncation took up every transform of
\* every entity it reports, except what the exposure lookup and the bridge
\* added after the queue was empty.
UntruncatedIsWhole ==
  (iphase = "exposure" /\ itruncated = {}) =>
    \A e \in FoundIn(idepth) : \A t \in ForEntity(e) : <<t, e>> \in iexpanded

\* Entities, relationships, requests and pivots stay within their budgets.
InvWithinBudgets ==
  /\ Cardinality(FoundIn(idepth)) <= iworld.entities /\ Cardinality(iedges) <= iworld.relationships
  /\ iacct.http <= iworld.http /\ iacct.dns <= iworld.dns /\ iacct.scans <= iworld.pivots

\* Every relationship is between entities of the graph, and unless a
\* relationship was refused, every entity can be explained by a chain of them
\* that begins at the seed (explain_entity).
Explains(S) == iworld.seed \in S /\ \A edge \in iedges : edge[1] \in S => edge[2] \in S
GraphRooted ==
  /\ \A edge \in iedges : {edge[1], edge[2]} \subseteq FoundIn(idepth)
  /\ "relationship_budget" \notin itruncated =>
       \A S \in SUBSET FoundIn(idepth) : Explains(S) => S = FoundIn(idepth)

\* The bridge connects to addresses in the authorised scope only, only when it
\* was asked for, and only to those a domain was seen to resolve to: never to
\* one that a certificate or a link names.
PivotsAuthorized ==
  \A e \in icontacted : /\ iworld.network /\ e \in iworld.scope
                          /\ \E edge \in iedges : edge[2] = e /\ edge[3] = "resolves_to"

\* What the investigation found and did not look at is offered as a next step,
\* unless the relationship that led to it was refused.
LeadsOffered ==
  (iphase = "done" /\ "relationship_budget" \notin itruncated) =>
    {e \in FoundIn(idepth) \ iobserved : Kind(e) \in Seedable /\ e # iworld.seed} \subseteq Pivots \cup {ReportedSeed}

\* The investigation ends.
InvestigationEnds == (iphase = "expand") ~> (iphase = "done")
=============================================================================
