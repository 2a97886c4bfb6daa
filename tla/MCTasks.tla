------------------------------ MODULE MCTasks ------------------------------
(* The scheduler under its caller and what its tasks conclude, for TLC: each *)
(* behaviour is about one of them, the others stay at their beginning.       *)
EXTENDS Scheduler, MCScheduler, ServiceProbe, FingerprintMerge, OsInference, GraphBuild, WebFetch, ScanRun, Analysis, UsernameSearch, GraphView, Crawl

VARIABLE focus

Focus == {"scheduler", "service", "fusion", "os", "graph", "fetch", "run", "vuln", "analysis", "username", "view", "crawl"}

\* Servers: SSH, mail behind a 220 greeting, Redis after an unfamiliar line, and
\* two that speak only inside TLS.
LOCAL S(first, answers, mail, tls, inside) ==
  [first |-> first, answers |-> answers, mail |-> mail, tls |-> tls, inside |-> inside]
SshServer == S("ssh", {}, "odd", FALSE, "none")
FiveServers ==
  {SshServer, S("220", {}, "smtp", FALSE, "none"), S("line", {"redis"}, "odd", FALSE, "none"),
   S("silence", {"http"}, "odd", TRUE, "http"), S("silence", {}, "odd", TRUE, "smtp")}
FourTasks == {<<"ssh", 1>>, <<"smtps", 4>>, <<"other", 3>>, <<"https", 5>>}

\* Fingerprint packs: ids that collide across files and within one, rules that
\* agree with the built-in answer, contradict it, or belong to another protocol.
LOCAL R(id, protocol, product, confidence, version) ==
  [id |-> id, protocol |-> protocol, product |-> product, confidence |-> confidence,
   version |-> version, hits |-> TRUE]
SevenPacks ==
  {{R(1, "http", "p", 85, "v1")}, {R(1, "http", "q", 95, "v2"), R(2, "http", "p", 60, "v2")},
   {R(2, "http", "q", 60, "none"), R(3, "ssh", "p", 95, "v1")}, {R(3, "http", "p", 95, "v1")},
   {R(3, "http", "r", 95, "v1")}, {R(1, "http", "q", 85, "v1"), R(2, "http", "r", 60, "v2")},
   {R(1, "http", "p", 85, "v1"), R(1, "http", "q", 85, "v1")}}

UnclassifiedService == [protocol |-> "unknown", product |-> "none", version |-> "none", confidence |-> 20, signals |-> 0]
ObservedServices ==
  [protocol : {"http"}, product : {"none", "p"}, version : {"none", "v1"}, confidence : {80, 90}, signals : 0..2]
    \cup {UnclassifiedService}

\* Hosts: an address heard over SSH, one outside the scope, a hostname; rules of
\* two families, one of them contradicted by what a probe hears, one id in two
\* packs; device rules that share an id.
LOCAL F(source, says, weight) == [shows |-> <<source, says>>, weight |-> weight, vendor |-> source = "service_product"]
LOCAL O(id, family, cap, features, exclusions) ==
  [id |-> id, family |-> family, cap |-> cap, features |-> features, exclusions |-> exclusions]
LOCAL D(id, role, cap, features, exclusions) ==
  [id |-> id, role |-> role, cap |-> cap, features |-> features, exclusions |-> exclusions]
LinuxBySsh == O(1, 1, 90, {F("ssh_banner", "ubuntu", 25), F("tcp_behavior", "reset", 20)}, {})
LinuxBare == O(2, 1, 80, {F("ssh_banner", "ubuntu", 25)}, {<<"tcp_timing", "silent">>})
WindowsByTiming == O(3, 2, 85, {F("tcp_timing", "silent", 25), F("tcp_timing", "latency", 20)},
                    {<<"ssh_banner", "ubuntu">>})
Router == D(1, 1, 90, {F("service_product", "dropbear", 20), F("os_family", 1, 20)}, {})
RouterAgain == D(2, 1, 90, {F("service_product", "dropbear", 20)}, {})
Camera == D(2, 2, 90, {F("service_product", "dropbear", 20)}, {})
HostAt(literal, scoped, ports, events) ==
  [literal |-> literal, scoped |-> scoped, ports |-> ports, events |-> events,
   signals |-> {<<"service_product", "dropbear">>}]
Heard(kind, token) == [kind |-> kind, token |-> token, product |-> "dropbear"]
OsHosts == <<HostAt(TRUE, TRUE, TRUE, {Heard("service", "ubuntu"), Heard("banner", "ubuntu")}),
             HostAt(TRUE, FALSE, TRUE, {Heard("banner", "none")}),
             HostAt(FALSE, TRUE, FALSE, {Heard("finding", "ubuntu")})>>
OsCases ==
  [requested : BOOLEAN, raw : BOOLEAN, left : {"zero", "some", "overrun"},
   hosts : {OsHosts, <<HostAt(TRUE, TRUE, TRUE, {}), OsHosts[1]>>},
   packs : {<<{LinuxBySsh, LinuxBare}, {WindowsByTiming}>>, <<{LinuxBySsh}, {LinuxBySsh, WindowsByTiming}>>},
   devices : {<<{Router, RouterAgain}, {Camera}>>}]
QuietOs == [requested |-> FALSE, raw |-> TRUE, left |-> "some", hosts |-> <<>>, packs |-> <<>>, devices |-> <<>>]

OsCasesAndQuiet == OsCases \cup {QuietOs}

\* Two addresses under one certificate and one key, a name that resolves to one
\* of them, pages and redirects, and a service whose port event was cut.
PortAt(address, port) == [kind |-> "port", at |-> address, port |-> port]
ServiceAt(address, port, product, confidence) ==
  [kind |-> "service", at |-> address, port |-> port, label |-> "http", product |-> product,
   confidence |-> confidence, rule |-> "builtin"]
CertAt(address, sans) == [kind |-> "tls", at |-> address, port |-> 443, cert |-> "c", sans |-> sans]
KeyAt(address) == [kind |-> "ssh", at |-> address, port |-> 22, key |-> "k"]
Resolves(name, address) == [kind |-> "dns", name |-> name, address |-> address]
Page(host, port, other, relation) ==
  [kind |-> "endpoint", host |-> host, port |-> port, other |-> other, relation |-> relation]
GraphOf(events) == [events |-> events, scope |-> {"n"}, families |-> [h \in {"a", "b"} |-> "linux"]]
FiveGraphs ==
  {GraphOf({PortAt("a", 80), Resolves("n", "a"), Page("n", 80, <<>>, "none"), ServiceAt("a", 80, "p", 80),
            Page("a", 80, <<"n", 80>>, "redirects_to")}),
   GraphOf({CertAt("a", <<"n", "m">>), CertAt("b", <<"m">>), PortAt("b", 443), Page("b", 443, <<"m", 443>>, "discovered_from"),
            Resolves("m", "b")}),
   GraphOf({KeyAt("a"), KeyAt("b"), PortAt("a", 80), Resolves("n", "none"), ServiceAt("b", 22, "none", 95)}),
   GraphOf({ServiceAt("b", 80, "p", 60), ServiceAt("b", 80, "none", 90), Page("n", 80, <<>>, "none"),
            Resolves("n", "b"), Page("n", 80, <<"n", 80>>, "redirects_to")}),
   GraphOf({PortAt("a", 80), KeyAt("a"), CertAt("a", <<"n", "m">>), ServiceAt("a", 80, "p", 80), Resolves("n", "a"),
            Page("n", 80, <<>>, "none")})}
QuietGraph == [events |-> {}, scope |-> {}, families |-> <<>>]
FiveGraphsAndQuiet == FiveGraphs \cup {QuietGraph}

\* A name with a permitted and a foreign address redirects to itself, to an
\* address, to the other name, in a loop and out of the scope.
LOCAL Url(host, path) == <<"http", host, path>>
LOCAL To(url) == [kind |-> "redirect", to |-> url]
LOCAL Plain(kind) == [kind |-> kind, to |-> <<>>]
Answers ==
  [url \in {Url("n", "/"), <<"https", "n", "/">>, Url("n", "/a"), Url("m", "/"), Url("ip1", "/"), Url("ip3", "/")} |->
     CASE url = Url("n", "/") -> To(Url("n", "/a")) [] url = Url("n", "/a") -> To(Url("ip1", "/"))
       [] url = Url("ip1", "/") -> To(Url("m", "/")) [] url = Url("m", "/") -> To(Url("n", "/"))
       [] url = <<"https", "n", "/">> -> To(Url("ip3", "/")) [] OTHER -> Plain("page")]
LOCAL Fetch(task, level, answer, size) ==
  [task |-> task, level |-> level, permitted |-> {"n", "m", "ip1", "ip2"}, answer |-> answer,
   resolves |-> [h \in {"n", "m"} |-> IF h = "n" THEN <<"ip1", "ip2", "ip3">> ELSE <<"ip3">>],
   size |-> size, flips |-> {"ip1", "m"}]
LOCAL OfHost(host, ports) == [kind |-> "host", host |-> host, url |-> <<>>, ports |-> ports]
LOCAL OfUrl(url) == [kind |-> "url", host |-> url[2], url |-> url, ports |-> {}]
FourFetches ==
  {Fetch(OfHost("n", {}), 4, Answers, 2), Fetch(OfUrl(Url("n", "/a")), 3, [Answers EXCEPT ![Url("m", "/")] = Plain("malformed")], 4),
   Fetch(OfUrl(Url("n", "/")), 2, Answers, 2), Fetch(OfUrl(Url("ip1", "/")), 3, [Answers EXCEPT ![Url("ip1", "/")] = To(Url("n", "/a"))], 3)}
QuietFetch == Fetch([kind |-> "none", host |-> "n", url |-> <<>>, ports |-> {}], 1, Answers, 1)
FourFetchesAndQuiet == FourFetches \cup {QuietFetch}

\* Runs with and without a project, an output and a checkpoint, whose tasks
\* tried ports of two addresses and of a name.
LOCAL T(kind, host, ports, ok) == [kind |-> kind, host |-> host, ports |-> ports, ok |-> ok]
LOCAL Says(kind, port, says) == [kind |-> kind, port |-> port, says |-> says]
LOCAL Sv(host, product, version, confidence) ==
  [host |-> host, product |-> product, version |-> version, confidence |-> confidence]
Runs ==
  {[resume |-> resume, flags |-> flags, db |-> db, output |-> output, keep |-> TRUE, previous |-> previous,
    budget |-> budget, termination |-> returned,
    tasks |-> <<T("ports", "a", {1, 2, 5}, TRUE), T("ports", "a", {3}, TRUE), T("ports", "b", {2, 3}, FALSE),
                T("ports", "name", {1}, TRUE), T("host", "b", {}, TRUE), T("ports", "b", {4, 6}, TRUE)>>,
    outputs |-> (3 :> <<Rec("asset", 1), Rec("event", 2)>>) @@ (1 :> <<Rec("finding", 1)>>),
    facts |-> <<Says("finding", 465, ("service" :> "smtps")), Says("tls", 0, ("certificate" :> "c1")),
                Says("event", 443, ("service" :> "https") @@ ("product" :> "none")), Says("tls", 0, ("certificate" :> "c2")),
                Says("event", 443, ("service" :> "http") @@ ("product" :> "p")), Says("cert", 0, ("certificate" :> "c3")),
                Says("event", 443, ("product" :> "q")), Says("web", 80, ("endpoint" :> "u"))>>,
    services |-> <<Sv("a", "p", "v1", 90), Sv("a", "none", "v1", 50), Sv("b", "p", "v1", 60), Sv("b", "q", "v2", 60)>>,
    order |-> (<<"p", "v1">> :> 1) @@ (<<"q", "v2">> :> 2), advisories |-> ("p" :> 2) @@ ("q" :> 2)] :
   resume \in BOOLEAN, flags \in {{}, {"speed"}, {"ports"}}, db \in BOOLEAN, output \in {"file", "stdout", "none"},
   previous \in BOOLEAN, budget \in {3, 5, 20}, returned \in {"completed", "task_budget"}}
QuietRun == CHOOSE w \in Runs : ~w.resume /\ w.flags = {} /\ w.output = "none"

\* Datasets of one and two files, one with an id twice, one that cannot be read,
\* and software whose version is inside, outside, beyond or next to a range.
LOCAL N(parts) == [k \in DOMAIN parts |-> <<"n", parts[k]>>]
LOCAL B(op, version) == [op |-> op, version |-> version]
LOCAL A(id, vendor, affected) == [id |-> id, vendor |-> vendor, product |-> "p", affected |-> affected]
ShortParts == {<<"n", 0>>, <<"n", 1>>, <<"n", 2>>, <<"t", 1>>}
ShortVersions == {<<a>> : a \in ShortParts} \cup (ShortParts \X ShortParts) \cup ({<<"n", 1>>} \X ShortParts \X ShortParts)
InRange == A(1, "v", <<{B("atleast", N(<<1>>)), B("less", N(<<1, 2>>))}>>)
TwoRanges == A(2, "none", <<{B("greater", N(<<1, 0>>))}, {B("atmost", N(<<2>>))}>>)
NoRanges == A(3, "w", <<>>)
Exactly == A(4, "v", <<{B("exact", N(<<1, 1>>))}>>)
Backwards == A(5, "v", <<{B("atleast", N(<<2>>)), B("atmost", N(<<1>>))}>>)
LOCAL Of(advisories) == [kind |-> "dataset", advisories |-> advisories]
LOCAL Huge == [kind |-> "huge", advisories |-> <<>>]
LOCAL Bad == [kind |-> "malformed", advisories |-> <<>>]
VulnCases ==
  [files : {<<Of(<<InRange, TwoRanges>>), Of(<<NoRanges, Exactly>>)>>, <<Of(<<InRange>>), Huge, Of(<<TwoRanges, Exactly>>)>>,
            <<Of(<<InRange>>), Of(<<InRange>>)>>, <<Of(<<InRange>>), Bad>>, <<Of(<<Backwards>>)>>},
   identity : [product : {"p"}, vendor : {"v", "none"}, confidence : {40, 95}, versionConfidence : {30, 80},
               version : {NoVersion, <<>>, N(<<1>>), N(<<1, 1>>), N(<<1, 1, 1>>), N(<<1, 2, 0>>), N(<<2>>), N(<<3>>),
                          <<<<"n", 1>>, <<"n", 1>>, <<"t", 1>>>>, <<<<"n", 1>>, <<"t", 1>>>>}]]
QuietVuln == CHOOSE w \in VulnCases : w.files = <<Of(<<Backwards>>)>> /\ w.identity.version = <<>>

\* A saved scan with an asset recorded twice, names outside the scan, findings
\* drafted twice, and the difference to an earlier one, to none, or to another.
LOCAL I(name, kind, traits) == [name |-> name, kind |-> kind, traits |-> traits]
LOCAL L(name, kind, from, to) == [name |-> name, kind |-> kind, from |-> from, to |-> to]
LOCAL G(name, asset, severity, confidence, evidence) ==
  [name |-> name, asset |-> asset, severity |-> severity, confidence |-> confidence, evidence |-> evidence]
LOCAL C(of, name, change) == [of |-> of, name |-> name, change |-> change, reason |-> IF name = 2 THEN "expanded" ELSE "new"]
SavedScan(changes, sameScan) ==
  [assets |-> <<I(1, "port", {"open", "unusual"}), I(4, "host", {}), I(3, "web", {"sensitive", "soft404"}),
                I(2, "service", {}), I(1, "port", {"unusual"}), I(5, "other", {"out_of_scope"})>>,
   evidence |-> {<<1, 1>>, <<1, 2>>, <<2, 1>>, <<4, 3>>},
   relations |-> <<L(11, "dns", 4, 9), L(12, "dns", 4, 1), L(13, "reflects", 3, 0), L(11, "dns", 4, 9),
                   L(14, "other", 1, 4), L(15, "other", 4, 5), L(16, "dns", 0, 5)>>,
   findings |-> <<G(21, 4, "critical", 100, {1, 2}), G(22, 3, "info", 60, {}), G(21, 4, "critical", 90, {3}),
                  G(23, 9, "medium", 80, {1})>>,
   diff |-> [records |-> changes, sameScan |-> sameScan]]
AnalysisCases ==
  {SavedScan(<<>>, TRUE), SavedScan(<<C("finding", 21, "added")>>, FALSE)} \cup
  {[SavedScan(<<>>, TRUE) EXCEPT !.relations = <<>>, !.findings = <<>>, !.assets = SubSeq(@, 1, n)] : n \in {3, 4}} \cup
  {SavedScan(<<C("finding", 21, of21), C("asset", 1, "modified"), C("asset", 2, of2), C("relation", 11, "added"),
               C("asset", 7, "missing"), C("asset", 3, of3)>>, TRUE) :
     of21 \in {"added", "modified"}, of2 \in {"added", "missing"}, of3 \in {"missing", "modified"}}
QuietAnalysis == SavedScan(<<>>, TRUE)

\* Providers of two platforms on three hosts: one that is disabled, one for long
\* names only, one that a redirect leads to a host whose name has two answers;
\* packs that are refused.
LOCAL U(id, platform, url, health, redirects) ==
  [id |-> id, category |-> 1, sourceCategory |-> 1, platform |-> platform, health |-> health,
   verified |-> IF health = "live_verified" THEN "2026" ELSE "none", provisional |-> FALSE, url |-> <<"https", url, "/u">>,
   marks |-> {"name"}, success |-> {200}, missing |-> {404}, absence |-> {<<"https", "c", "/gone">>},
   login |-> {<<"https", "c", "/login">>}, redirects |-> redirects, shortest |-> 2, longest |-> IF id = 3 THEN 3 ELSE 8]
LOCAL Told(status, marks) == [status |-> status, to |-> NoUrl, marks |-> marks, huge |-> FALSE]
LOCAL Leads(url) == [status |-> 302, to |-> url, marks |-> {}, huge |-> FALSE]
LOCAL Searched(providers, first, to, huge, cancel, late) ==
  [providers |-> providers, selected |-> {}, excluded |-> {2}, categories |-> {1}, vocabulary |-> {1, 2},
   length |-> 4, resolves |-> ("a" :> {{"p1"}}) @@ ("b" :> {{"p2"}, {"p2", "inside"}, {}}) @@ ("c" :> {{"p1", "p2"}, {"inside"}}),
   answers |-> [url \in {<<"https", h, path>> : h \in {"a", "b", "c"}, path \in {"/u", "/gone", "/login", "/at"}} |->
                  IF url[2] = "a" THEN first
                  ELSE IF url[3] = "/at" THEN [Told(200, {"name", "optional"}) EXCEPT !.huge = huge]
                  ELSE IF url[2] = "b" THEN Leads(to) ELSE Told(200, IF url[3] = "/gone" THEN {"name"} ELSE {})],
   mayCancel |-> cancel, mayLapse |-> late]
ByA == U(1, "x", "a", "live_verified", 1)
OtherByA == U(2, "x", "a", "fixture_verified", 0)
OnlyLong == U(3, "y", "b", "live_verified", 0)
ByB == U(4, "y", "b", "live_verified", 2)
OffByC == U(5, "y", "c", "disabled", 2)
SameByB == U(6, "y", "b", "needs_review", 1)
AtC == <<"https", "c", "/at">>
UsernameCases ==
  {Searched(<<ByA, OtherByA, OnlyLong, OffByC>>, first, AtC, FALSE, FALSE, FALSE) :
     first \in {Told(200, {"name"}), Told(200, {}), Told(200, {"name", "missing"}), Told(200, {"name", "blocked"}),
                Told(404, {"name"}), Told(429, {}), Told(401, {}), Leads(<<"https", "a", "/u">>)}} \cup
  {Searched(<<ByB, OffByC, OtherByA>>, Told(429, {}), to, huge, FALSE, FALSE) : huge \in BOOLEAN,
     to \in {<<"https", "c", path>> : path \in {"/gone", "/login", "/at", "/u"}} \cup {<<"http", "c", "/at">>, <<"https", "ip", "/at">>}} \cup
  {Searched(<<OtherByA, OnlyLong, ByB, SameByB>>, Told(200, {"name"}), AtC, FALSE, stop[1], stop[2]) : stop \in {<<FALSE, FALSE>>, <<TRUE, FALSE>>, <<FALSE, TRUE>>}} \cup
  {[Searched(<<ByA, OtherByA>>, Told(429, {}), AtC, FALSE, FALSE, FALSE) EXCEPT ![field] = {9}] : field \in {"selected", "categories"}} \cup
  {[Searched(<<d>>, Told(429, {}), AtC, FALSE, FALSE, FALSE) EXCEPT !.excluded = {}] :
     d \in {[ByA EXCEPT !.url[1] = "http"], [ByA EXCEPT !.verified = "none"], [OtherByA EXCEPT !.marks = {}]}}
QuietUsername == CHOOSE w \in UsernameCases : w.selected = {9}

\* A graph of two components and a loner, with a secret id, a relation no longer
\* known and two that are drawn as one, seen through different options.
LOCAL V(id, kind, scope, seen) == [id |-> id, kind |-> kind, scope |-> scope, first |-> seen, last |-> seen]
LOCAL W(from, to, rel, conf) == [from |-> from, to |-> to, rel |-> rel, conf |-> conf]
SeenThings == <<V(5, 1, "out", 9), V(1, 1, "in", 8), V(3, 2, "none", 8), V(6, 1, "in", 7), V(2, 1, "none", 6), V(4, 0, "none", 5), V(7, 2, "none", 4)>>
SeenLinks == <<W(1, 2, 1, 40), W(1, 2, 2, 80), W(1, 4, 3, 90), W(2, 3, 3, 70), W(2, 3, 0, 99), W(3, 5, 3, 30), W(6, 7, 3, 60)>>
LOCAL Seen(source, seed, depth, nodes, edges) ==
  [source |-> source, entities |-> SeenThings, edges |-> SeenLinks, secret |-> {7}, seed |-> seed, depth |-> depth,
   nodeLimit |-> nodes, edgeLimit |-> edges, minConf |-> 0, kinds |-> {}, since |-> 0, until |-> 9, scope |-> "all",
   budget |-> 1, import |-> FALSE]
ViewCases ==
  {Seen(source, 0, 0, nodes, edges) : source \in {"memory", "db"}, nodes \in {2, 4, 8}, edges \in {3, 20}} \cup
  {Seen(source, seed, depth, nodes, 20) : source \in {"memory", "db"}, seed \in {1, 8}, depth \in {1, 2}, nodes \in {3, 8}} \cup
  {[Seen("memory", 0, 0, 8, 20) EXCEPT !.minConf = 50, !.budget = b] : b \in {3, 9}} \cup
  {[Seen("memory", 0, 0, 8, 20) EXCEPT !.edges = <<W(1, 3, 3, 50), W(2, 5, 3, 50), W(3, 5, 3, 50)>>]} \cup
  {[Seen("memory", 0, 0, 8, 20) EXCEPT !.kinds = {1}, !.scope = s] : s \in {"in", "out", "all"}} \cup
  {[Seen(source, 0, 0, 8, 20) EXCEPT !.since = 6, !.until = 8, !.import = TRUE] : source \in {"memory", "db"}}
QuietView == Seen("memory", 8, 1, 3, 20)

\* A site of three hosts, one unreachable and one out of scope, whose pages name
\* more links, scripts and sitemaps than a task reads.
NoRefs == [s \in {"link", "canonical", "form", "script", "image", "entry", "literal", "robots"} |-> <<>>]
LOCAL Doc(status, to, type, refs) ==
  [status |-> status, to |-> to, type |-> type, prefix |-> IF type = "none" THEN "html" ELSE "none", refs |-> refs,
   index |-> type = "xml", sitemaps |-> <<>>]
HomeRefs == [NoRefs EXCEPT !.link = <<<<"h", "/a">>, <<"o", "/x">>, <<"h", "/b">>>>, !.canonical = <<<<"h", "/">>>>,
  !.form = <<<<"h", "/login">>>>, !.script = <<<<"h", "/js">>, <<"o", "/js">>, <<"g", "/js">>>>, !.image = <<<<"h", "/img">>>>]
HomeSite(type, robots, sitemap) ==
  [u \in {"h", "g", "o"} \X {"/", "/s", "/t", "/a", "/js", "/robots.txt", "/m1", "/m2", "/m3", "/m4"} |->
     CASE u = <<"h", "/">> -> Doc(200, Nowhere, type, HomeRefs)
       [] u = <<"h", "/s">> -> Doc(302, <<"h", "/t">>, "html", NoRefs)
       [] u = <<"h", "/t">> -> Doc(301, <<"h", "/">>, "html", NoRefs)
       [] u = <<"h", "/js">> -> Doc(200, Nowhere, "js", [NoRefs EXCEPT !.literal = <<<<"h", "/api">>, <<"o", "/api">>>>])
       [] u = <<"h", "/robots.txt">> ->
            [Doc(robots, Nowhere, "text", [NoRefs EXCEPT !.robots = <<<<"h", "/admin">>>>])
               EXCEPT !.sitemaps = <<<<"o", "/m1">>, <<"h", "/m1">>, <<"h", "/m2">>, <<"h", "/m3">>>>]
       [] u = <<"h", "/m1">> -> Doc(sitemap, <<"h", "/m4">>, "xml", [NoRefs EXCEPT !.entry = <<<<"h", "/e">>>>])
       [] u = <<"h", "/m2">> -> Doc(302, <<"o", "/m1">>, "xml", NoRefs)
       [] OTHER -> Doc(404, Nowhere, IF u[2] = "/a" THEN "json" ELSE "xml", [NoRefs EXCEPT !.entry = <<<<"h", "/e">>>>])]
LOCAL Crawled(start, url, level, site) ==
  [start |-> start, target |-> "h", url |-> url, root |-> TRUE, ports |-> <<>>, level |-> level, scope |-> {"h", "g"},
   reachable |-> {"h", "o"}, site |-> site, claims |-> {}, fails |-> FALSE, mayLapse |-> FALSE, mayCancel |-> FALSE]
CrawlCases ==
  {[Crawled("host", <<"h", "/">>, level, HomeSite("html", 200, 302)) EXCEPT !.claims = claims] :
     level \in 1..5, claims \in {{}, {<<<<"h", "/js">>, "page">>}}} \cup
  {Crawled("param", url, 4, HomeSite(type, robots, 200)) : url \in {<<"h", "/">>, <<"h", "/t">>, <<"h", "/a">>, <<"o", "/">>},
     type \in {"none", "other", "txt"}, robots \in {200, 404}} \cup
  {[Crawled("url", <<"h", "/">>, 4, HomeSite("html", 200, 200)) EXCEPT !.fails = what = 1, !.mayLapse = what = 2, !.mayCancel = what = 3] : what \in 1..3} \cup
  {[Crawled("host", <<"h", "/">>, 3, HomeSite("html", 200, 200)) EXCEPT !.ports = <<"/a", "/t", "/">>, !.target = target] : target \in {"h", "o"}}
QuietCrawl == [Crawled("none", <<"h", "/">>, 1, HomeSite("html", 200, 200)) EXCEPT !.target = "o"]
CrawlCasesAndQuiet == CrawlCases \cup {QuietCrawl}

\* What a focus leaves open is open in its own behaviours only.
MCInit ==
  /\ focus \in Focus
  /\ focus # "service" =>
       /\ ztask = [port |-> "ssh", level |-> 1, context |-> FALSE]
       /\ zscope = {} /\ zserver = SshServer
  /\ focus # "fusion" =>
       /\ fdir = [file \in PackFiles |-> Absent]
       /\ fseen = UnclassifiedService
  /\ focus # "os" => osworld = QuietOs
  /\ focus # "graph" => gworld = QuietGraph
  /\ focus # "fetch" => yworld = QuietFetch
  /\ focus # "run" => rworld = QuietRun
  /\ focus # "vuln" => vworld = QuietVuln
  /\ focus # "analysis" => aworld = QuietAnalysis
  /\ focus # "username" => uworld = QuietUsername
  /\ focus # "view" => kworld = QuietView
  /\ focus # "crawl" => xworld = QuietCrawl
  /\ Init /\ ServiceInit /\ FusionInit /\ OsInit /\ GraphInit /\ FetchInit /\ RunInit /\ VulnInit /\ AnalysisInit /\ UsernameInit /\ ViewInit /\ CrawlInit
Scheduling == focus = "scheduler" /\ Next
Probing == focus = "service" /\ ServiceNext
Fusing == focus = "fusion" /\ FusionNext
Correlating == focus = "graph" /\ GraphNext
Fetching == focus = "fetch" /\ FetchNext
Driving == focus = "run" /\ RunNext
LookingUp == focus = "vuln" /\ VulnNext
Analysing == focus = "analysis" /\ AnalysisNext
Searching == focus = "username" /\ UsernameNext
Drawing == focus = "view" /\ ViewNext
Crawling == focus = "crawl" /\ CrawlNext
Identifying == focus = "os" /\ OsNext

\* What a behaviour is not about does not move.
Still(about, its) == IF focus = about THEN TRUE ELSE UNCHANGED its

MCNext ==
  /\ UNCHANGED focus
  /\ Scheduling \/ Probing \/ Fusing \/ Identifying \/ Correlating \/ Fetching \/ Driving \/ LookingUp \/ Analysing \/ Searching \/ Drawing \/ Crawling
  /\ Still("scheduler", vars) /\ Still("service", servicevars) /\ Still("fusion", fusionvars)
  /\ Still("os", osvars) /\ Still("graph", graphvars) /\ Still("fetch", fetchvars) /\ Still("run", runvars)
  /\ Still("vuln", vulnvars) /\ Still("analysis", analysisvars) /\ Still("username", uservars) /\ Still("view", viewvars) /\ Still("crawl", crawlvars)

\* The fairness of the scheduler's FairSpec.
MCSpec ==
  /\ MCInit /\ [][MCNext]_<<vars, servicevars, fusionvars, osvars, graphvars, fetchvars, runvars, vulnvars, analysisvars, uservars, viewvars, crawlvars, focus>>
  /\ WF_vars(focus = "scheduler" /\ Step)
  /\ \A t \in Task :
       /\ WF_vars(focus = "scheduler" /\ TaskTimeoutElapses(t))
       /\ WF_vars(focus = "scheduler" /\ RetryDelayElapses(t))

\* The scheduler's run() returns.
RunReturns == focus = "scheduler" => RunEnds

\* Every component keeps to its limits.
TasksWithinBounds == ServiceTypeOK /\ FusionTypeOK /\ OsTypeOK /\ GraphTypeOK /\ FetchTypeOK /\ RunTypeOK /\ VulnTypeOK /\ AnalysisTypeOK /\ UsernameTypeOK /\ ViewTypeOK /\ CrawlTypeOK

\* What is said of a service and of its product follows from what was heard.
ConclusionsJustified == ServiceJustified /\ FusionSound /\ OsSound /\ GraphSound /\ FetchSound /\ RunSound /\ VulnSound /\ AnalysisSound /\ UsernameSound /\ ViewSound /\ CrawlSound
=============================================================================
