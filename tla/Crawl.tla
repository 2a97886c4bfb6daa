-------------------------------- MODULE Crawl --------------------------------
(* One task of the crawler (src/src/crawl.rs): the pages it starts from, their *)
(* fetches with redirects, what their documents refer to, and the scripts, the *)
(* robots manifest and the sitemaps it reads on the way. The tasks that follow *)
(* are proposed by the decision engine from the candidates recorded here       *)
(* (Contacts and allowances of many tasks are WebSurvey's).                    *)
(*                                                                             *)
(* A URL is <<host, path>>. A site answers each with a document: [status, to   *)
(* (a redirect's target or NoUrl), type, prefix, refs, index, sitemaps], where *)
(* refs gives the URLs it refers to, in order, by source.                      *)
EXTENDS Naturals, Sequences, FiniteSets, FiniteSetsExt, SequencesExt

CONSTANTS CrawlWorlds,  \* see CrawlInit
          CrawlStarts,  \* MAX_CRAWL_STARTS
          PageLinks,    \* max_links_per_page
          PageScripts,  \* MAX_SCRIPTS_PER_PAGE
          RootSitemaps, \* MAX_SITEMAP_FILES_PER_ROOT
          PageFindings  \* MAX_CRAWL_FINDINGS

VARIABLES xworld,
          xagenda,   \* what the task has still to fetch: [kind, url, root]
          xfetch,    \* the fetch under way: [job, at, visited, hops]
          xclaims,   \* the contact registry: <<url, purpose>>
          xcontacts, \* requests made: [url, purpose, job]
          xtold,     \* candidates: [url, source, page, permitted, eligible]
          xpages,    \* documents read: [url, kind]
          xfindings, \* findings made
          xnotes,    \* budget notes: <<reason, url>>
          xlate,     \* less than CRAWL_PLANNING_FLOOR is left
          xstage     \* "start", "crawl", "done", "failed" or "cancelled"

crawlvars == <<xworld, xagenda, xfetch, xclaims, xcontacts, xtold, xpages, xfindings, xnotes, xlate, xstage>>

Nowhere == <<"none", "none">>
NoJob == [kind |-> "none", url |-> Nowhere, root |-> FALSE]
NoFetch == [job |-> NoJob, at |-> Nowhere, visited |-> {}, hops |-> 0]
Job(kind, url, root) == [kind |-> kind, url |-> url, root |-> root]

\* A site has a document for every URL that may be asked of it, and each refers
\* to a row of others.
Sources == {"link", "canonical", "form", "script", "image", "entry", "literal", "robots"}
Row(urls) == urls \in Seq(ToSet(urls))
ASSUME CrawlAssumption ==
  /\ CrawlStarts \in Nat /\ PageLinks \in Nat /\ PageScripts \in Nat /\ RootSitemaps \in Nat /\ PageFindings \in Nat
  /\ \A w \in CrawlWorlds :
       /\ w.level \in Nat /\ w.start \in {"none", "param", "url", "host"} /\ w.root \in BOOLEAN /\ Row(w.ports)
       /\ w.url \in DOMAIN w.site /\ \A path \in ToSet(w.ports) \cup {"/", "/s"} : <<w.url[1], path>> \in DOMAIN w.site
       /\ \A u \in DOMAIN w.site : LET d == w.site[u] IN
            /\ Row(d.sitemaps) /\ DOMAIN d.refs = Sources /\ \A source \in Sources : Row(d.refs[source])
            /\ <<u[1], "/robots.txt">> \in DOMAIN w.site
            /\ \A v \in ({d.to} \ {Nowhere}) \cup ToSet(d.sitemaps) \cup ToSet(d.refs.script) :
                 v[1] \notin w.scope \/ v \in DOMAIN w.site

\* CrawlPolicy.
FetchRobots == xworld.level >= 3
FetchSitemap == xworld.level >= 4
FetchJs == xworld.level >= 4
RedirectCap == IF xworld.level <= 2 THEN 0 ELSE IF xworld.level = 3 THEN 2 ELSE 4
Permits(url) == url[1] \in xworld.scope

-----------------------------------------------------------------------------
(* parse_task_target.                                                        *)

StartRoots(host) ==
  LET paths == IF xworld.ports = <<>> THEN <<"/", "/s">> ELSE SubSeq(xworld.ports, 1, Min({Len(xworld.ports), CrawlStarts}))
  IN  [k \in 1..Min({Len(paths), CrawlStarts}) |-> Job("page", <<host, paths[k]>>, TRUE)]
StartCrawl ==
  /\ xstage = "start"
  /\ LET jobs == IF xworld.start = "param" THEN <<Job("page", xworld.url, xworld.root)>>
                 ELSE IF xworld.start = "url" THEN <<Job("page", xworld.url, TRUE)>> ELSE StartRoots(xworld.url[1])
     IN  IF xworld.target \notin xworld.scope \/ xworld.start = "none" THEN xstage' = "failed" /\ UNCHANGED xagenda
         ELSE xstage' = "crawl" /\ xagenda' = jobs
  /\ UNCHANGED <<xworld, xfetch, xclaims, xcontacts, xtold, xpages, xfindings, xnotes, xlate>>

-----------------------------------------------------------------------------
(* fetch_document.                                                           *)

Idle == xfetch.job = NoJob
NoteFor(reason, url) == xnotes' = xnotes \cup {<<reason, url>>}

\* The head of the agenda: a page without time ends the task, another document
\* is passed over.
TakeJob ==
  /\ xstage = "crawl" /\ Idle /\ xagenda # <<>>
  /\ LET job == Head(xagenda)
     IN  \/ /\ ~Permits(job.url) /\ (job.kind = "page" => ~xlate)
            /\ xagenda' = Tail(xagenda) /\ UNCHANGED <<xfetch, xnotes>>
         \/ /\ xlate /\ (job.kind = "page" \/ Permits(job.url)) /\ UNCHANGED xfetch
            /\ xagenda' = IF job.kind = "page" THEN <<>> ELSE Tail(xagenda)
            /\ xnotes' = xnotes \cup {<<"deadline", xagenda[k].url>> : k \in IF job.kind = "page" THEN DOMAIN xagenda ELSE {1}}
         \/ /\ Permits(job.url) /\ ~xlate
            /\ xfetch' = [job |-> job, at |-> job.url, visited |-> {}, hops |-> 0]
            /\ xagenda' = Tail(xagenda) /\ UNCHANGED xnotes
  /\ UNCHANGED <<xworld, xclaims, xcontacts, xtold, xpages, xfindings, xlate, xstage>>

\* What ends a fetch before its request, in the order it is looked at.
Purpose == IF xfetch.hops = 0 THEN "page" ELSE "redirect"
Claimed == <<xfetch.at, Purpose>> \in xclaims
Obstacle ==
  IF xlate THEN "deadline" ELSE IF xfetch.at \in xfetch.visited THEN "loop"
  ELSE IF ~Permits(xfetch.at) THEN "scope" ELSE IF xfetch.at[1] \notin xworld.reachable THEN "address"
  ELSE IF Claimed THEN "claimed" ELSE "none"
GiveUp ==
  /\ xstage = "crawl" /\ ~Idle /\ Obstacle # "none"
  /\ xfetch' = NoFetch /\ NoteFor(Obstacle, xfetch.job.url)
  /\ UNCHANGED <<xworld, xagenda, xclaims, xcontacts, xtold, xpages, xfindings, xlate, xstage>>

DocumentAt == xworld.site[xfetch.at]
Redirects == DocumentAt.status \in 300..399 /\ DocumentAt.to # Nowhere
Refusal(to) ==
  IF xfetch.hops >= RedirectCap THEN "cap" ELSE IF to \in xfetch.visited \cup {xfetch.at} THEN "loop"
  ELSE IF ~Permits(to) THEN "scope" ELSE "none"
Contact ==
  /\ xclaims' = xclaims \cup {<<xfetch.at, Purpose>>}
  /\ xcontacts' = Append(xcontacts, [url |-> xfetch.at, purpose |-> Purpose, job |-> xfetch.job])
RequestFails ==
  /\ xstage = "crawl" /\ ~Idle /\ Obstacle = "none" /\ xworld.fails
  /\ Contact /\ xfetch' = NoFetch /\ NoteFor("failed", xfetch.job.url)
  /\ UNCHANGED <<xworld, xagenda, xtold, xpages, xfindings, xlate, xstage>>
RequestRedirects ==
  /\ xstage = "crawl" /\ ~Idle /\ Obstacle = "none" /\ Redirects
  /\ Contact
  /\ IF Refusal(DocumentAt.to) = "none"
     THEN /\ xfetch' = [xfetch EXCEPT !.at = DocumentAt.to, !.hops = @ + 1, !.visited = @ \cup {xfetch.at}]
          /\ UNCHANGED xnotes
     ELSE xfetch' = NoFetch /\ NoteFor(Refusal(DocumentAt.to), xfetch.job.url)
  /\ UNCHANGED <<xworld, xagenda, xtold, xpages, xfindings, xlate, xstage>>

-----------------------------------------------------------------------------
(* Documents.                                                                *)

\* classify_for_crawl: the path before the type, the type before the content.
Dispatch(url, d) ==
  IF url[2] = "/robots.txt" THEN "robots"
  ELSE CASE d.type \in {"html", "xml", "js"} -> d.type
         [] d.type \in {"text", "json"} -> "list" [] d.type = "txt" -> "robots"
         [] d.type = "none" /\ d.prefix \in {"html", "xml"} -> d.prefix [] OTHER -> "skip"

\* emit_candidate: a candidate out of scope is recorded and no more.
PageLike == {"link", "canonical", "stylesheet", "sitemap", "index", "robots"}
TellOf(url, source, page, eligible) ==
  [url |-> url, source |-> source, page |-> page, permitted |-> Permits(url),
   eligible |-> Permits(url) /\ eligible /\ source \in PageLike]
TellAll(urls, source, page, eligible) == {TellOf(u, source, page, eligible) : u \in ToSet(urls)}
Upto(urls, n) == SubSeq(urls, 1, Min({Len(urls), n}))
Entries(d) == IF d.index THEN "index" ELSE "sitemap"

\* crawl_document: stylesheets and frames are among the links.
Candidates(url, d) ==
  CASE Dispatch(url, d) = "html" ->
         TellAll(Upto(d.refs.link, PageLinks), "link", url, TRUE) \cup TellAll(d.refs.canonical, "canonical", url, TRUE)
           \cup TellAll(d.refs.form, "form", url, FALSE) \cup TellAll(Upto(d.refs.script, PageScripts), "script", url, FALSE)
           \cup TellAll(d.refs.image, "image", url, FALSE)
    [] Dispatch(url, d) = "xml" -> TellAll(d.refs.entry, Entries(d), url, TRUE)
    [] Dispatch(url, d) = "js" -> TellAll(d.refs.literal, "literal", url, TRUE)
    [] Dispatch(url, d) = "robots" -> TellAll(d.refs.robots, "robots", url, TRUE)
    [] Dispatch(url, d) = "list" -> TellAll(d.refs.entry, "sitemap", url, TRUE)
    [] OTHER -> {}
\* The URLs in scope among the first, up to a cap.
PermittedRow(urls, cap) ==
  LET row[k \in 0..Len(urls)] ==
        IF k = 0 THEN <<>>
        ELSE IF Permits(urls[k]) /\ Len(row[k - 1]) < cap THEN Append(row[k - 1], urls[k]) ELSE row[k - 1]
  IN  row
PermittedOf(urls, cap) == PermittedRow(urls, cap)[Len(urls)]
Scripts(url, d) ==
  IF Dispatch(url, d) = "html" /\ FetchJs THEN PermittedOf(Upto(d.refs.script, PageScripts), PageScripts) ELSE <<>>
JobsFor(urls, kind) == [k \in DOMAIN urls |-> Job(kind, urls[k], FALSE)]
CapNotes(url, d) ==
  {<<"links", url>> : k \in {k \in {1} : Dispatch(url, d) = "html" /\ Len(d.refs.link) > PageLinks}} \cup
  {<<"scripts", url>> : k \in {k \in {1} : Dispatch(url, d) = "html" /\ Len(d.refs.script) > PageScripts}} \cup
  {<<"content", url>> : k \in {k \in {1} : Dispatch(url, d) = "skip"}} \cup
  {<<"findings", url>> : k \in {k \in {1} : xfindings >= PageFindings}}

\* A script, whatever its status, gives its literals.
MineScript(url, d) ==
  /\ xtold' = xtold \cup TellAll(d.refs.literal, "literal", xfetch.job.url, TRUE)
  /\ UNCHANGED <<xagenda, xnotes, xfindings>>

\* crawl_robots_manifest: paths, and the sitemaps up to the cap; the one after
\* the last file that may be read ends the list.
InScope(urls) == {k \in DOMAIN urls : Permits(urls[k])}
Looked(urls) == {k \in DOMAIN urls : Len(PermittedRow(urls, RootSitemaps)[k - 1]) < RootSitemaps}
CrawlManifest(url, d) ==
  LET looked == IF FetchSitemap THEN Looked(d.sitemaps) ELSE {}
      files == IF FetchSitemap THEN PermittedOf(d.sitemaps, RootSitemaps) ELSE <<>>
  IN  IF d.status # 200 THEN UNCHANGED <<xagenda, xtold, xnotes, xfindings>>
      ELSE /\ xtold' = xtold \cup TellAll(d.refs.robots, "robots", url, TRUE)
                         \cup {TellOf(d.sitemaps[k], "index", url, FALSE) : k \in looked \ InScope(d.sitemaps)}
           /\ xagenda' = JobsFor(files, "sitemap") \o xagenda
           /\ xnotes' = xnotes \cup {<<"sitemaps", url>> : k \in {k \in {1} : FetchSitemap /\ looked # DOMAIN d.sitemaps}}
           /\ UNCHANGED xfindings
CrawlSitemap(url, d) ==
  /\ xtold' = IF d.status = 200 THEN xtold \cup TellAll(d.refs.entry, Entries(d), url, TRUE) ELSE xtold
  /\ UNCHANGED <<xagenda, xnotes, xfindings>>

\* crawl_page and crawl_document: what the document says, whatever its status,
\* then its scripts, and the manifest of a root.
CrawlPage(url, d) ==
  /\ xtold' = xtold \cup Candidates(url, d)
  /\ xagenda' = JobsFor(Scripts(url, d), "script")
                  \o (IF xfetch.job.root /\ FetchRobots THEN <<Job("robots", <<url[1], "/robots.txt">>, FALSE)>> ELSE <<>>) \o xagenda
  /\ xnotes' = xnotes \cup CapNotes(url, d)
  /\ xfindings' = Min({xfindings + 1, PageFindings})
ReadDocument ==
  /\ xstage = "crawl" /\ ~Idle /\ Obstacle = "none" /\ ~Redirects
  /\ Contact /\ xfetch' = NoFetch
  /\ xpages' = xpages \cup {[url |-> xfetch.at, kind |-> xfetch.job.kind]}
  /\ \/ xfetch.job.kind = "page" /\ CrawlPage(xfetch.at, DocumentAt)
     \/ xfetch.job.kind = "script" /\ MineScript(xfetch.at, DocumentAt)
     \/ xfetch.job.kind = "robots" /\ CrawlManifest(xfetch.at, DocumentAt)
     \/ xfetch.job.kind = "sitemap" /\ CrawlSitemap(xfetch.at, DocumentAt)
  /\ UNCHANGED <<xworld, xlate, xstage>>

-----------------------------------------------------------------------------
(* The task.                                                                 *)

TimeRunsOut ==
  /\ xstage = "crawl" /\ xworld.mayLapse /\ ~xlate /\ xlate' = TRUE
  /\ UNCHANGED <<xworld, xagenda, xfetch, xclaims, xcontacts, xtold, xpages, xfindings, xnotes, xstage>>
\* A cancelled task has no output; what it claimed stays claimed.
CancelCrawl ==
  /\ xstage = "crawl" /\ xworld.mayCancel /\ xstage' = "cancelled"
  /\ UNCHANGED <<xworld, xagenda, xfetch, xclaims, xcontacts, xtold, xpages, xfindings, xnotes, xlate>>
FinishCrawl ==
  /\ xstage = "crawl" /\ Idle /\ xagenda = <<>> /\ xstage' = "done"
  /\ UNCHANGED <<xworld, xagenda, xfetch, xclaims, xcontacts, xtold, xpages, xfindings, xnotes, xlate>>

CrawlInit ==
  /\ xworld \in CrawlWorlds /\ xclaims = xworld.claims /\ xstage = "start"
  /\ xagenda = <<>> /\ xfetch = NoFetch /\ xcontacts = <<>> /\ xtold = {} /\ xpages = {}
  /\ xfindings = 0 /\ xnotes = {} /\ xlate = FALSE
CrawlNext ==
  StartCrawl \/ TakeJob \/ GiveUp \/ RequestFails \/ RequestRedirects \/ ReadDocument \/ TimeRunsOut \/ CancelCrawl \/ FinishCrawl
CrawlSpec == CrawlInit /\ [][CrawlNext]_crawlvars

-----------------------------------------------------------------------------
(* What the crawl promises.                                                  *)

ReadAs(kind) == {p.url : p \in {p \in xpages : p.kind = kind}}
CrawlTypeOK ==
  /\ Cardinality({k \in DOMAIN xcontacts : xcontacts[k].job.kind = "sitemap" /\ xcontacts[k].purpose = "page"})
       <= RootSitemaps * Cardinality(ReadAs("robots"))
  /\ \A k \in DOMAIN xcontacts : xcontacts[k].purpose = "redirect" => xworld.level >= 3
  /\ xfindings <= PageFindings

\* Nothing out of scope is requested, nothing twice for one purpose, and no
\* path is guessed: a request is for a start, for what a document of this task
\* names, or for where a request was redirected. Forms are never submitted and
\* images never fetched.
ContactsNamed ==
  \A k \in DOMAIN xcontacts :
    LET c == xcontacts[k] earlier == {xcontacts[j] : j \in 1..(k - 1)}
    IN  /\ Permits(c.url)
        /\ <<c.url, c.purpose>> \notin xworld.claims
        /\ ~ \E e \in earlier : e.url = c.url /\ e.purpose = c.purpose
        /\ c.purpose = "redirect" => \E e \in earlier : xworld.site[e.url].to = c.url
        /\ c.purpose = "page" =>
             \/ c.job.kind = "page" /\ (c.url = xworld.url \/ (c.url[1] = xworld.url[1] /\ xworld.start = "host"))
             \/ c.job.kind = "script" /\ FetchJs /\ \E t \in xtold : t.url = c.url /\ t.source = "script"
             \/ c.job.kind = "robots" /\ FetchRobots /\ \E u \in ReadAs("page") : u[1] = c.url[1]
             \/ c.job.kind = "sitemap" /\ FetchSitemap /\ \E u \in ReadAs("robots") : c.url \in ToSet(xworld.site[u].sitemaps)

\* What may be crawled next is a page in scope that a document read here names,
\* and all that a page names is recorded, or a note says which cap cut it.
CandidatesHonest ==
  /\ \A t \in xtold : t.eligible => t.permitted /\ t.source \notin {"script", "literal", "form", "image"}
  /\ \A t \in xtold : t.permitted = (t.url[1] \in xworld.scope)
  /\ \A u \in ReadAs("page") : LET d == xworld.site[u] IN
       Dispatch(u, d) = "html" =>
         \A source \in {"link", "canonical", "form", "script", "image"} : \A v \in ToSet(d.refs[source]) :
           \/ \E t \in xtold : t.url = v /\ t.page = u /\ t.source = source
           \/ source = "link" /\ <<"links", u>> \in xnotes
           \/ source = "script" /\ <<"scripts", u>> \in xnotes

\* What was to be read and was not is in the notes.
NothingDroppedSilently ==
  xstage = "done" =>
    LET asked == {xcontacts[k].url : k \in DOMAIN xcontacts} noted(u) == \E n \in xnotes : n[2] = u
    IN  /\ FetchJs => \A t \in xtold : t.source = "script" /\ t.permitted => t.url \in asked \/ noted(t.url)
        /\ FetchSitemap => \A u \in ReadAs("robots") : xworld.site[u].status = 200 =>
             \A v \in ToSet(xworld.site[u].sitemaps) : v \in asked \/ noted(v) \/ ~Permits(v) \/ <<"sitemaps", u>> \in xnotes
        /\ \A k \in DOMAIN xcontacts : LET c == xcontacts[k] IN
             c.purpose = "page" => noted(c.url) \/ \E p \in xpages : p.kind = c.job.kind

CrawlSound == ContactsNamed /\ CandidatesHonest /\ NothingDroppedSilently
=============================================================================
