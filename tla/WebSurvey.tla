----------------------------- MODULE WebSurvey -----------------------------
(***************************************************************************)
(* The web stages of a scan, on one origin.  A probed endpoint is crawled; *)
(* the crawler's pages are compared with the answers to paths that do not  *)
(* exist (baseline.rs), paths of a list are tried (content.rs) and         *)
(* parameters are varied (fuzz.rs).  A task that ends proposes the next    *)
(* ones (decision.rs); all tasks run side by side and share the registry   *)
(* of contacts, the origin's baseline and the fuzzer's budget, which are   *)
(* saved with the scan and restored when it is resumed.                    *)
(***************************************************************************)
EXTENDS Naturals, Sequences, FiniteSets, SequencesExt

-----------------------------------------------------------------------------
(***************************************************************************)
(* The registry of requests already made in a scan (contact.rs), shared by *)
(* the crawler, the baseline, the content discovery and the fuzzer: who    *)
(* claims an address for a purpose may request it.                         *)
(***************************************************************************)

CONSTANTS Urls,          \* 1..n
          ContactsMax    \* MAX_CONTACT_REGISTRY_ENTRIES

ASSUME ContactsAssumption == /\ IsFiniteSet(Urls) /\ Urls = 1..Cardinality(Urls) /\ 1 \in Urls
                             /\ ContactsMax \in Nat \ {0}

\* RequestPurpose, in the order its values are declared (and sorted).
Rank == [crawl |-> 1, primary |-> 2, synthetic |-> 3, content |-> 4, redirect |-> 5, fuzz |-> 6]
Purposes == DOMAIN Rank

\* exact: the claims; by: the purpose an address is remembered for.
NoContacts == [exact |-> {}, by |-> [u \in Urls |-> "none"], full |-> FALSE]

\* A page the crawler fetched is no candidate for content, and neither is a
\* candidate twice; a crawl is held back by nothing but a crawl.
Held(c, u, purpose) == \/ purpose = "crawl" /\ c.by[u] = "crawl"
                       \/ purpose = "content" /\ c.by[u] \in {"content", "crawl"}

\* A bug: a request for one purpose holds back the others.
GrantedByAddress(c, u, purpose) == c.full \/ \A p \in Purposes : <<u, p>> \notin c.exact

\* A bug: what the registry remembers of an address is asked, not the claims.
GrantedByMemory(c, u, purpose) == c.full \/ ~ Held(c, u, purpose)

\* claim: does it grant?  A registry once full grants everything.
Granted(c, u, purpose) == c.full \/ (~ Held(c, u, purpose) /\ <<u, purpose>> \notin c.exact)

\* claim: and what it leaves.
Claimed(c, u, purpose) ==
    IF c.full \/ ~ Granted(c, u, purpose) THEN c
    ELSE [exact |-> c.exact \cup {<<u, purpose>>},
          by |-> IF purpose \in {"crawl", "content"} \/ c.by[u] = "none"
                 THEN [c.by EXCEPT ![u] = purpose] ELSE c.by,
          full |-> Cardinality(c.exact) + 1 >= ContactsMax]

\* A bug: an address is remembered for the last of its purposes.
RestoredLast(exact) ==
    [exact |-> exact,
     by |-> [u \in Urls |->
               LET of == {p \in Purposes : <<u, p>> \in exact}
               IN  IF of = {} THEN "none" ELSE CHOOSE p \in of : \A q \in of : Rank[p] >= Rank[q]],
     full |-> Cardinality(exact) >= ContactsMax]

\* snapshot and restore: the claims are kept, in sorted order, and an address
\* is remembered for the first of its purposes.
Restored(exact) ==
    [exact |-> exact,
     by |-> [u \in Urls |->
               LET of == {p \in Purposes : <<u, p>> \in exact}
               IN  IF of = {} THEN "none" ELSE CHOOSE p \in of : \A q \in of : Rank[p] <= Rank[q]],
     full |-> Cardinality(exact) >= ContactsMax]

-----------------------------------------------------------------------------

CONSTANTS Sites,          \* what there is to find: see SiteType
          MaxRedirects, Samples, FuzzLimit,
          MaxProposals,   \* MAX_CRAWL_PROPOSALS_PER_COMPLETION
          Slots,          \* tasks that run at the same time
          MaxWebResumes   \* bound: how often the scan is resumed

\* answer: per address 0 (none), itself (a page) or where it redirects to;
\* links, the addresses on a page; permitted; query, the addresses with a
\* parameter; words, the content candidates; missing: do paths that do not
\* exist get an answer; level; depth and pages, the policy of a crawl's root.
SiteType(s) == /\ s.answer \in [Urls -> Urls \cup {0}]
               /\ s.links \in [Urls -> Seq(Urls)] /\ s.words \in Seq(Urls) \ {<<>>}
               /\ s.permitted \cup s.query \subseteq Urls
               /\ s.missing \in BOOLEAN /\ s.level \in 1..5 /\ s.depth \in Nat /\ s.pages \in Nat

ASSUME SurveyAssumption ==
    /\ MaxRedirects \in Nat /\ Samples \in Nat /\ FuzzLimit \in Nat /\ MaxProposals \in Nat
    /\ Slots \in Nat \ {0} /\ MaxWebResumes \in Nat /\ \A s \in Sites : SiteType(s)

VARIABLES wsite, wwaiting,   \* the site; the tasks not begun
          wrunning,          \* per running task: its request, and what it found
          wdone,             \* tasks that ended
          wcontacts,         \* ContactRegistry
          wbaseline,         \* OriginBaselineRegistry: is the origin's baseline known
          wbudget,           \* FuzzOriginBudget: the plans of the origin
          wfetches,          \* ghost: per claim, how often it was requested
          wresumes

webvars == <<wsite, wwaiting, wrunning, wdone, wcontacts, wbaseline, wbudget, wfetches, wresumes>>

Admitted == wwaiting \cup DOMAIN wrunning \cup wdone
WebTask(kind, url, about) == [kind |-> kind, url |-> url, about |-> about]
Ok(u) == u \in wsite.permitted

\* A bug: the fetch of the page itself is not taken off the allowance.
AllowanceWhole(left) == left

AllowanceLeft(left) == IF left = 0 THEN 0 ELSE left - 1

\* plan_followups: the first candidates in order, as many as the allowance
\* and the cap let through, each with an equal share of what is left.
PlanFollowups(pages, depth, left) ==
    LET remaining == AllowanceLeft(left)
        wanted == Cardinality(pages)
        take == CHOOSE n \in {wanted, remaining, MaxProposals} :
                    \A m \in {wanted, remaining, MaxProposals} : n <= m
        first == {u \in pages : Cardinality({v \in pages : v <= u}) <= take}
    IN  IF depth = 0 \/ take = 0 THEN {}
        ELSE {[url |-> u, depth |-> depth - 1, left |-> remaining \div take] : u \in first}

\* CrawlDecisionEngine, for a crawl that fetched doc: what it links to and
\* the path to it has not visited.  The child's parent is the document.
CrawlRule(t, doc) ==
    LET seen == t.about.visited \cup {t.url}
        next == {u \in ToSet(wsite.links[doc]) : Ok(u) /\ u \notin seen}
    IN  {WebTask("crawl", p.url, [parent |-> doc, depth |-> p.depth, left |-> p.left, visited |-> seen]) :
            p \in PlanFollowups(next, t.about.depth, t.about.left)}
CrawlRoot(u) == WebTask("crawl", u, [parent |-> u, depth |-> wsite.depth, left |-> wsite.pages, visited |-> {}])

\* BaselineDecisionEngine: a task for each endpoint of the output; the first
\* of them characterises the origin, when nobody has.
BaselineRule(urls, first, source) ==
    {WebTask("baseline", u, [origin |-> (u = first /\ ~ wbaseline), source |-> source]) : u \in urls}

\* A bug: the content discovery does not wait for the baseline.
ContentRuleAtOnce(kind, urls, observed) ==
    IF \/ wsite.level >= 2 /\ kind \in {"http", "crawl"} /\ urls # {}
       \/ wsite.level >= 2 /\ kind = "baseline" /\ observed
    THEN {WebTask("content", 1, [hashes |-> (observed \/ wbaseline)])} ELSE {}

\* ContentDecisionEngine: at level 2 at the first sight of the origin, above
\* it once a baseline of the origin was observed; the hashes come with it.
ContentRule(kind, urls, observed) ==
    IF \/ wsite.level = 2 /\ kind \in {"http", "crawl"} /\ urls # {}
       \/ wsite.level >= 2 /\ kind = "baseline" /\ observed
    THEN {WebTask("content", 1, [hashes |-> (observed \/ wbaseline)])} ELSE {}

\* A bug: one plan too many.
FuzzGrantedOneMore(u) == FuzzLimit > 0 /\ (u \in wbudget \/ Cardinality(wbudget) <= FuzzLimit)

\* FuzzOriginBudget.claim, and FuzzDecisionEngine: a plan already there is
\* granted, a new one only within the limit.
FuzzGranted(u) == FuzzLimit > 0 /\ (u \in wbudget \/ Cardinality(wbudget) < FuzzLimit)

\* A task is identified by its plan and by the endpoint whose baseline led to it
\* (fuzz_plan_task_id): not by the address alone, since a redirect and its target
\* lead to the same plan. An address always answers the same here, so that the
\* signatures in the identity are those of the address.
FuzzRule(u, endpoint) == IF wsite.level >= 3 /\ u \in wsite.query /\ FuzzGranted(u)
                         THEN {WebTask("fuzz", u, [endpoint |-> endpoint])} ELSE {}

WebInit ==
    /\ wsite \in Sites
    /\ wwaiting = {WebTask("http", 1, [url |-> 1])} /\ wrunning = <<>> /\ wdone = {}
    /\ wcontacts = NoContacts /\ wbaseline = FALSE /\ wbudget = {}
    /\ wfetches = [c \in Urls \X Purposes |-> 0]
    /\ wresumes = 0

Request(url, purpose) == [at |-> url, purpose |-> purpose, hop |-> 0, visited |-> {}]

\* One hop of a task's request: the scope and the path so far are asked, then
\* the registry; what is granted is sent.  The hops after the first are
\* claimed as redirects.  (fetch_document; fetch_baseline, _content, _fuzz)
Hop(t, run) ==
    LET req == run.req
        purpose == IF req.hop = 0 THEN req.purpose ELSE "redirect"
        allowed == Ok(req.at) /\ req.at \notin req.visited /\ req.hop <= MaxRedirects
        granted == allowed /\ Granted(wcontacts, req.at, purpose)
        to == wsite.answer[req.at]
        follow == granted /\ to \notin {0, req.at} /\ Ok(to)
        \* a redirect out of the scope is a document, but not to the crawler
        doc == CASE ~ granted \/ to = 0 \/ follow -> 0
                 [] to # req.at /\ t.kind = "crawl" -> 0
                 [] OTHER -> req.at
        next == IF follow
                THEN [run EXCEPT !.req.at = to, !.req.hop = @ + 1, !.req.visited = @ \cup {req.at}]
                ELSE [run EXCEPT !.open = FALSE, !.found = IF doc = 0 THEN @ ELSE Append(@, doc)]
    IN  /\ wrunning' = [u \in DOMAIN wrunning \cup {t} |-> IF u = t THEN next ELSE wrunning[u]]
        /\ wcontacts' = IF granted THEN Claimed(wcontacts, req.at, purpose) ELSE wcontacts
        /\ wfetches' = IF granted THEN [wfetches EXCEPT ![<<req.at, purpose>>] = @ + 1] ELSE wfetches
        /\ UNCHANGED <<wsite, wdone, wbaseline, wbudget, wresumes>>

\* A task begins with the request for its own address; the content discovery
\* with the first candidate of its list.
WebStart(t) ==
    /\ t \in wwaiting /\ t.kind # "http" /\ Cardinality(DOMAIN wrunning) < Slots
    /\ wwaiting' = wwaiting \ {t}
    /\ Hop(t, IF t.kind = "content"
              THEN [req |-> Request(Head(wsite.words), "content"), todo |-> Tail(wsite.words),
                    found |-> <<>>, open |-> TRUE]
              ELSE [req |-> Request(t.url, IF t.kind = "baseline" THEN "primary" ELSE t.kind),
                    todo |-> <<>>, found |-> <<>>, open |-> TRUE])

WebHop(t) == /\ t \in DOMAIN wrunning /\ wrunning[t].open
             /\ UNCHANGED wwaiting
             /\ Hop(t, wrunning[t])

\* A bug: the list is not shortened.
WebCandidateStays(t) ==
    /\ t \in DOMAIN wrunning /\ ~ wrunning[t].open /\ wrunning[t].todo # <<>>
    /\ UNCHANGED wwaiting
    /\ Hop(t, [wrunning[t] EXCEPT !.req = Request(Head(wrunning[t].todo), "content"), !.open = TRUE])

\* The content discovery goes on to its next candidate
\* (process_candidate_line).
WebCandidate(t) ==
    /\ t \in DOMAIN wrunning /\ ~ wrunning[t].open /\ wrunning[t].todo # <<>>
    /\ UNCHANGED wwaiting
    /\ Hop(t, [wrunning[t] EXCEPT !.req = Request(Head(wrunning[t].todo), "content"), !.todo = Tail(@), !.open = TRUE])

\* What the ended task's output leads to; of a page, its permitted links.
Proposed(t, found, observed) ==
    CASE t.kind = "http" -> {CrawlRoot(u) : u \in ToSet(found)} \cup BaselineRule(ToSet(found), found[1], "confirmed")
                                \cup ContentRule("http", ToSet(found), FALSE)
      [] t.kind = "crawl" ->
             IF found = <<>> THEN {}
             ELSE LET links == wsite.links[found[1]]
                      ok == {i \in DOMAIN links : Ok(links[i])}
                      first == CHOOSE u \in Urls : \E i \in ok : u = links[i] /\ \A j \in ok : i <= j
                      urls == {links[i] : i \in ok}
                  IN  CrawlRule(t, found[1]) \cup BaselineRule(urls, first, "crawl")
                          \cup ContentRule("crawl", urls, FALSE)
      [] t.kind = "content" -> IF found = <<>> THEN {} ELSE BaselineRule(ToSet(found), found[1], "crawl")
      [] t.kind = "baseline" -> ContentRule("baseline", {}, observed)
                                    \cup (IF found = <<>> THEN {} ELSE FuzzRule(found[1], t.url))
      [] OTHER -> {}

\* A bug: a task that is done is admitted again.
NewOfWaiting(tasks) == tasks \ wwaiting

NewOf(tasks) == tasks \ Admitted

Ended(t, found, observed) ==
    /\ wdone' = wdone \cup {t}
    /\ wwaiting' = (wwaiting \ {t}) \cup NewOf(Proposed(t, found, observed))
    /\ wbaseline' = (wbaseline \/ observed)
    /\ wbudget' = IF t.kind = "baseline" /\ found # <<>> /\ FuzzRule(found[1], t.url) # {}
                  THEN wbudget \cup {found[1]} ELSE wbudget
    /\ UNCHANGED <<wsite, wcontacts, wresumes>>

\* The web probe of the origin: the endpoints of the chain of its first page.
WebProbed(t) ==
    /\ t \in wwaiting /\ t.kind = "http" /\ wsite.answer[t.url] # 0
    /\ LET to == wsite.answer[t.url]
       IN  Ended(t, IF to # t.url /\ Ok(to) /\ wsite.answer[to] # 0 THEN <<t.url, to>> ELSE <<t.url>>, FALSE)
    /\ UNCHANGED <<wrunning, wfetches>>

\* A task ends when nothing is left to request.  A baseline that fetched its
\* endpoint and was to characterise the origin first requests Samples paths
\* of its own, and observes the origin's baseline if they are answered.
WebEnd(t) ==
    LET run == wrunning[t]
        samples == IF t.kind = "baseline" /\ t.about.origin /\ run.found # <<>> /\ wsite.level >= 3
                   THEN Samples ELSE 0
    IN  /\ t \in DOMAIN wrunning /\ ~ run.open /\ run.todo = <<>>
        /\ Ended(t, run.found, samples > 0 /\ wsite.missing)
        /\ wfetches' = [wfetches EXCEPT ![<<1, "synthetic">>] = @ + samples]
        /\ wrunning' = [u \in DOMAIN wrunning \ {t} |-> wrunning[u]]

\* The scan is stopped, which ends the running tasks for good, and resumed
\* from a checkpoint that still holds the tasks not begun (a caller of the
\* library may save one); the registries are restored as they were saved.
WebResume ==
    /\ wresumes < MaxWebResumes /\ wrunning # <<>>
    /\ wresumes' = wresumes + 1
    /\ wdone' = wdone \cup DOMAIN wrunning
    /\ wrunning' = <<>>
    /\ wcontacts' = Restored(wcontacts.exact)
    /\ UNCHANGED <<wsite, wwaiting, wbaseline, wbudget, wfetches>>

WebStep == \/ \E t \in wwaiting : WebStart(t) \/ WebProbed(t)
           \/ \E t \in DOMAIN wrunning : WebHop(t) \/ WebCandidate(t) \/ WebEnd(t)
WebNext == WebStep \/ WebResume
WebSpec == WebInit /\ [][WebNext]_webvars /\ WF_webvars(WebStep)

-----------------------------------------------------------------------------
WebTypeOK == /\ wsite \in Sites /\ wwaiting \cap wdone = {} /\ wwaiting \cap DOMAIN wrunning = {}
             /\ wcontacts.exact \subseteq Urls \X Purposes /\ wcontacts.by \in [Urls -> Purposes \cup {"none"}]
             /\ wbudget \subseteq Urls /\ wresumes \in 0..MaxWebResumes

\* Whatever tasks run side by side, stop and begin again, an address is
\* requested once for a purpose, until the registry is full (contact.rs).
RequestedOnce == ~ wcontacts.full => \A c \in Urls \X (Purposes \ {"synthetic"}) : wfetches[c] <= 1

\* A registry that was saved and restored grants and refuses what the saved
\* one would: resuming neither repeats a request nor forbids a new one.
RestoredAsSaved == LET restored == Restored(wcontacts.exact)
                   IN  \A u \in Urls, p \in Purposes : Granted(restored, u, p) <=> Granted(wcontacts, u, p)

\* The tasks below a root, with it, are no more than its allowance
\* (plan_followups: "any subtree does at most pages_left fetches").
RootWithinAllowance ==
    \A u \in Urls : CrawlRoot(u) \in Admitted /\ (\A v \in Urls \ {u} : CrawlRoot(v) \notin Admitted)
        => Cardinality({t \in Admitted : t.kind = "crawl"}) <= IF wsite.pages = 0 THEN 1 ELSE wsite.pages

\* The crawler loses no page to another stage: when all has ended, every
\* permitted page some crawl was admitted for was fetched as a page, whatever
\* the content discovery requested before (contact.rs, claim).
CrawlReachesItsPages ==
    (wwaiting = {} /\ wrunning = <<>>)
        => \A t \in wdone : t.kind = "crawl" /\ Ok(t.url) => wfetches[<<t.url, "crawl">>] >= 1

\* The addresses whose parameters are varied stay within the origin's budget,
\* resumed or not. The tasks may be more: a plan that was granted is granted
\* again for each endpoint that leads to it.
FuzzWithinBudget == Cardinality({t.url : t \in {u \in Admitted : u.kind = "fuzz"}}) <= FuzzLimit

\* Above level 2 no path of the list is tried before the origin's answer to
\* a path that does not exist is known to the task that tries it.
ContentKnowsMissing == \A t \in Admitted : t.kind = "content" /\ wsite.level >= 3 => t.about.hashes

\* Pages that link to each other do not keep the survey going.
SurveyEnds == (wdone # {}) ~> (wwaiting = {} /\ wrunning = <<>>)

=============================================================================
