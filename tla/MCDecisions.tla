---------------------------- MODULE MCDecisions ----------------------------
(* What leads to what, for TLC: each behaviour is about the expansion of a   *)
(* plan by evidence, the web survey of one origin, the passive investigation *)
(* of one seed, or the jobs of a server that are given such things to do.    *)
EXTENDS Expansion, WebSurvey, Investigation, JobStore, TLC

CONSTANTS scan1, search1, c1

VARIABLE focus

\* Two jobs, one of them a scan, and one event stream.
TwoJobs == {scan1, search1}
Scans == {scan1}
OneClient == {c1}

-----------------------------------------------------------------------------
(* The worlds of Expansion: a network address, three hosts, two names.       *)

FourHosts == {"a0", "a1", "a2", "a3"}
TwoNames == {"n1", "n2"}

OfOne(goal, level, explicit) ==
  [goal |-> goal, level |-> level, ping |-> FALSE, udp |-> FALSE, explicit |-> explicit,
   targets |-> <<[form |-> "addr", at |-> "a1", hosts |-> <<>>]>>,
   permitted |-> FourHosts \cup TwoNames, maxHosts |-> 2]

\* The names are of one domain, the addresses of another.
OneDomain == [x \in FourHosts \cup TwoNames |-> IF x \in TwoNames THEN "n" ELSE "a"]
NoAlias == [n \in TwoNames |-> <<>>]

\* per_domain_limit, scaled down: one name at level 2, two above it.
Limit == <<1, 1, 2, 2, 2>>

\* a1 shows n1, which is a2, which shows n2, which is a3.
Chain(plan) ==
  [plan |-> plan, state |-> [h \in FourHosts |-> IF h = "a3" THEN "unknown" ELSE "alive"],
   listening |-> {"a1", "a2"}, web |-> {"a2"}, alias |-> NoAlias, domain |-> OneDomain,
   san |-> [h \in FourHosts |-> CASE h = "a1" -> <<"n1">> [] h = "a2" -> <<"n2">> [] OTHER -> <<>>],
   resolves |-> [n \in TwoNames |-> IF n = "n1" THEN <<"a2">> ELSE <<"a3">>]]

\* a1 and a2 show each other, and names that are both of them.
PingPong(plan) ==
  [plan |-> plan, state |-> [h \in FourHosts |-> IF h = "a3" THEN "unreachable" ELSE "alive"],
   listening |-> {"a1", "a2"}, web |-> {"a1"}, alias |-> NoAlias, domain |-> OneDomain,
   san |-> [h \in FourHosts |-> CASE h = "a1" -> <<"n1", "a2", "n1">> [] h = "a2" -> <<"a1", "n1">>
                                   [] OTHER -> <<"n2">>],
   resolves |-> [n \in TwoNames |-> IF n = "n1" THEN <<"a1", "a2">> ELSE <<"a1">>]]

\* a1 shows two names, of different addresses.
Fork(plan) ==
  [plan |-> plan, state |-> [h \in FourHosts |-> "alive"], listening |-> {"a1"}, web |-> {},
   alias |-> NoAlias, domain |-> OneDomain,
   san |-> [h \in FourHosts |-> IF h = "a1" THEN <<"n1", "n2">> ELSE <<>>],
   resolves |-> [n \in TwoNames |-> IF n = "n1" THEN <<"a2">> ELSE <<"a3">>]]

\* The same, but one name is the alias of the other.
Aliased(plan) ==
  [Fork(plan) EXCEPT !.alias["n1"] = <<"n2">>, !.resolves["n1"] = <<"a3">>]

\* Two ranges that share hosts; there is room for two hosts.
Ranges == <<[form |-> "cidr", at |-> "a0", hosts |-> <<"a1", "a2", "a3">>],
            [form |-> "cidr", at |-> "a2", hosts |-> <<"a2", "a3">>]>>

TenWorlds ==
  {Fork(OfOne("recon", 2, TRUE)), Fork(OfOne("full", 4, FALSE)), Aliased(OfOne("full", 3, FALSE)),
   Chain(OfOne("full", 3, FALSE)), Chain(OfOne("recon", 2, TRUE)), PingPong(OfOne("full", 3, FALSE)),
   PingPong([OfOne("recon", 2, TRUE) EXCEPT !.permitted = {"a1", "n1"}]),
   PingPong([OfOne("discover", 2, FALSE) EXCEPT !.targets = Ranges]),
   Chain([OfOne("ports", 1, TRUE) EXCEPT !.targets = Ranges, !.udp = TRUE]),
   Chain([OfOne("web", 2, FALSE) EXCEPT !.targets = <<[form |-> "name", at |-> "n1", hosts |-> <<>>]>>])}

-----------------------------------------------------------------------------
(* The sites of WebSurvey: three addresses.                                  *)

ThreeUrls == 1..3
Site(answer, links, level) ==
  [answer |-> answer, links |-> links, permitted |-> ThreeUrls, query |-> {2}, words |-> <<2, 3>>,
   missing |-> TRUE, level |-> level, depth |-> 2, pages |-> 3]

\* Pages that link to each other; an origin that redirects, at level 2, and at
\* level 3, where two endpoints lead to one fuzz plan; a redirect out of the
\* scope, and parameters on two pages.
FourSites ==
  {Site(<<1, 2, 3>>, <<<<2, 3>>, <<1, 3>>, <<>>>>, 3),
   Site(<<2, 2, 0>>, <<<<2>>, <<>>, <<>>>>, 2), Site(<<2, 2, 0>>, <<<<2>>, <<>>, <<>>>>, 3),
   [Site(<<1, 3, 3>>, <<<<2>>, <<>>, <<2>>>>, 3) EXCEPT
      !.permitted = {1, 2}, !.query = {1, 2}, !.missing = FALSE]}

-----------------------------------------------------------------------------
(* The worlds of Investigation.                                              *)


NoFields == [permitted |-> TRUE]
Limits == [depth |-> 3, entities |-> 20, relationships |-> 20, http |-> 9, dns |-> 9, pivots |-> 1,
           exposure |-> FALSE, sources |-> <<>>, network |-> FALSE, scope |-> {}, private |-> {}]

\* A profile with a link and an e-mail address of the same domain.
Profile ==
  [kind |-> <<"account", "domain", "email", "endpoint", "host", "ip", "username">>, seed |-> 7,
   about |-> <<[links |-> <<4>>, emails |-> <<3>>, permitted |-> TRUE],
               [records |-> <<<<6>>, <<5>>>>, registered |-> <<5>>, certs |-> <<>>, permitted |-> TRUE],
               [domain |-> <<2>>, records |-> <<<<5>>, <<>>>>],
               [host |-> <<2>>, forge |-> <<>>, snapshots |-> <<>>, permitted |-> TRUE],
               NoFields,
               [names |-> <<5>>, range |-> <<>>, registered |-> <<>>, permitted |-> TRUE, open |-> <<>>],
               [accounts |-> <<1>>, providers |-> 2, permitted |-> TRUE]>>] @@ Limits

Address(names, open) ==
  [names |-> names, range |-> <<>>, registered |-> <<>>, permitted |-> TRUE, open |-> open]

\* A domain with four addresses, of which a certificate names one and one is
\* out of scope; two sources know of an exposure.
Pivoting ==
  [kind |-> <<"cert", "domain", "exposure", "ip", "ip", "ip", "ip", "port", "source">>, seed |-> 2,
   about |-> <<NoFields,
               [records |-> <<<<4, 5>>, <<7>>>>, registered |-> <<>>, certs |-> <<<<1, 4, 6>>>>, permitted |-> TRUE],
               NoFields, Address(<<>>, <<>>), Address(<<>>, <<8>>), Address(<<>>, <<8>>), Address(<<>>, <<8>>),
               NoFields, NoFields>>]
  @@ [depth |-> 1, network |-> TRUE, scope |-> {5, 6, 7}, private |-> {7}, exposure |-> TRUE, pivots |-> 2,
      sources |-> <<[api |-> FALSE, accepts |-> TRUE, finds |-> <<[id |-> 3, source |-> 9, affects |-> <<2>>]>>],
                    [api |-> TRUE, accepts |-> TRUE, finds |-> <<>>]>>]
  @@ Limits

\* A link into a forge; the repository refers to the URL it was found at.
Forge ==
  [kind |-> <<"domain", "endpoint", "host", "organization", "repository", "snapshot">>, seed |-> 2,
   about |-> <<[records |-> <<<<>>>>, registered |-> <<4>>, certs |-> <<>>, permitted |-> TRUE],
               [host |-> <<1>>, forge |-> <<5, 4>>, snapshots |-> <<<<6, 3>>>>, permitted |-> TRUE],
               NoFields, NoFields, [metadata |-> <<4, 1, 2>>, permitted |-> TRUE], NoFields>>]
  @@ [entities |-> 5, relationships |-> 4, http |-> 2] @@ Limits

\* The registrations of an address; the budgets are smaller than the graph.
Registered ==
  [kind |-> <<"host", "ip", "organization", "prefix">>, seed |-> 2,
   about |-> <<NoFields,
               [names |-> <<1>>, range |-> <<4>>, registered |-> <<1, 3>>, permitted |-> TRUE, open |-> <<>>],
               NoFields, NoFields>>]
  @@ [entities |-> 3, http |-> 0, dns |-> 0] @@ Limits
AsnSeed == [kind |-> <<"asn", "organization">>, seed |-> 1, about |-> <<[registered |-> <<2>>, permitted |-> TRUE], NoFields>>]
           @@ Limits

SixInquiries ==
  {Profile, Pivoting, Forge, Registered, [Registered EXCEPT !.http = 1, !.dns = 1], AsnSeed}

-----------------------------------------------------------------------------

\* What a focus leaves open is open in its own behaviours only.
MCInit ==
  /\ focus \in {"expansion", "web", "inquiry", "jobs"}
  /\ ExpInit /\ WebInit /\ InvInit /\ JobInit
  /\ focus # "expansion" => xworld = Chain(OfOne("full", 3, FALSE))
  /\ focus # "web" => wsite.level = 2
  /\ focus # "inquiry" => iworld = AsnSeed

MCNext ==
  /\ UNCHANGED focus
  /\ \/ focus = "expansion" /\ ExpNext /\ UNCHANGED <<webvars, invvars, vars>>
     \/ focus = "web" /\ WebNext /\ UNCHANGED <<expvars, invvars, vars>>
     \/ focus = "inquiry" /\ InvNext /\ UNCHANGED <<expvars, webvars, vars>>
     \/ focus = "jobs" /\ JobNext /\ UNCHANGED <<expvars, webvars, invvars>>

\* The fairness of ExpSpec, WebSpec, InvSpec and FairJobSpec.
MCSpec == /\ MCInit /\ [][MCNext]_<<expvars, webvars, invvars, vars, focus>>
          /\ WF_expvars(focus = "expansion" /\ ExpStep)
          /\ WF_webvars(focus = "web" /\ WebStep)
          /\ WF_invvars(focus = "inquiry" /\ InvStep)
          /\ \A j \in Job : WF_vars(focus = "jobs" /\ WorkerStep(j))

-----------------------------------------------------------------------------
(* What the components promise, taken together.                            *)

\* Expansion, crawl, fuzzing and investigation keep to their budgets.
DecisionsWithinBounds ==
  /\ focus = "expansion" => ExpTypeOK /\ SeedsWithinBudget
  /\ focus = "web" => WebTypeOK /\ RootWithinAllowance /\ FuzzWithinBudget
  /\ focus = "inquiry" => InvTypeOK /\ InvWithinBudgets

\* What is requested was granted once, also by a registry that was restored; no
\* page is lost to another stage, and no path is tried too early.
ContactsExact ==
  focus = "web" => RequestedOnce /\ RestoredAsSaved /\ CrawlReachesItsPages /\ ContentKnowsMissing

\* The accounts of an investigation and of its exposure lookup add up, and one
\* that reports no truncation looked at everything it found.
InquiryExact ==
  focus = "inquiry" => AccountingExact /\ UntruncatedIsWhole /\ LookupsExact

\* Everything an investigation reports is explained from its seed, and what
\* it did not look at is offered as a next step.
InquiryExplained == focus = "inquiry" => GraphRooted /\ LeadsOffered

\* Whatever has begun ends: evidence that leads back to where it came from,
\* pages that link to each other, a cancellation or a deadline in the middle of
\* an investigation do not keep it going (ExpSettles, SurveyEnds and
\* InvestigationEnds, one for each focus).
HasBegun ==
  \/ focus = "expansion" /\ xdone # {}
  \/ focus = "web" /\ wdone # {}
  \/ focus = "inquiry" /\ iphase = "expand"
HasEnded ==
  \/ focus = "expansion" /\ Waiting = {}
  \/ focus = "web" /\ wwaiting = {} /\ wrunning = <<>>
  \/ focus = "inquiry" /\ iphase = "done"
DecisionsEnd == HasBegun ~> HasEnded
=============================================================================
