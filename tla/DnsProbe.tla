----------------------------- MODULE DnsProbe -----------------------------
(***************************************************************************)
(* Name resolution (dns.rs): one task per host name asks the resolver,     *)
(* follows aliases, and shares with the other tasks a registry of the      *)
(* queries already made in this scan.  The registry is saved with a        *)
(* checkpoint and restored when the scan is resumed.                       *)
(***************************************************************************)
EXTENDS Naturals, FiniteSets

CONSTANTS Names,         \* host names, all of one domain; each has its task
          MaxHops,       \* MAX_CNAME_HOPS
          PerDomain,     \* policy.per_domain_limit()
          RegistryMax,   \* MAX_DNS_REGISTRY_ENTRIES
          MaxResumes     \* bound: how often the scan is resumed

ASSUME DnsAssumption == /\ IsFiniteSet(Names) /\ MaxHops \in Nat \ {0}
                        /\ PerDomain \in Nat /\ RegistryMax \in Nat \ {0} /\ MaxResumes \in Nat

VARIABLES dtask,       \* per name, its task: stage, the name asked now, the hop, the aliases seen, the names asked
          dclaims,     \* DnsRegistryState.queries
          dfull,       \* DnsRegistryState.query_full
          dfilled,     \* ghost: it was full at some time, in this scan or before a resume
          dbudget,     \* DnsRegistryState.domains: the names admitted for the domain
          dtold,       \* tasks whose token is raised: timed out, or the scan stops
          dsettled,    \* ghost: names the resolver has answered for
          dheard,      \* ghost: names whose query some kept output reports
          dlost,       \* ghost: names claimed by a task whose output is not kept
          dresumes

dnsvars == <<dtask, dclaims, dfull, dfilled, dbudget, dtold, dsettled, dheard, dlost, dresumes>>

NotBegun == [stage |-> "ready", at |-> "none", hop |-> 0, seen |-> {}, asked |-> {}]
Running == {n \in Names : dtask[n].stage \in {"claim", "ask"}}

DnsInit ==
    /\ dtask = [n \in Names |-> NotBegun]
    /\ dclaims = {} /\ dfull = FALSE /\ dfilled = FALSE /\ dbudget = {}
    /\ dtold = {} /\ dsettled = {} /\ dheard = {} /\ dlost = {}
    /\ dresumes = 0

\* A bug: one name too many.
AdmitsOneMore(n) == n \in dbudget \/ Cardinality(dbudget) <= PerDomain

Admits(n) == n \in dbudget \/ Cardinality(dbudget) < PerDomain

\* claim_domain_task: a name already admitted stays admitted.
DnsStart(n) ==
    /\ dtask[n].stage = "ready"
    /\ IF Admits(n)
       THEN /\ dbudget' = dbudget \cup {n}
            /\ dtask' = [dtask EXCEPT ![n] = [stage |-> "claim", at |-> n, hop |-> 0, seen |-> {}, asked |-> {}]]
       ELSE /\ dtask' = [dtask EXCEPT ![n].stage = "refused"]
            /\ UNCHANGED dbudget
    /\ UNCHANGED <<dclaims, dfull, dfilled, dtold, dsettled, dheard, dlost, dresumes>>

\* The task returns.  The scheduler keeps the output of a task that ended
\* well and that it had not already given up.
DnsEnd(n, ok) ==
    /\ dtask' = [dtask EXCEPT ![n].stage = IF ok THEN "done" ELSE "cancelled"]
    /\ IF ok /\ n \notin dtold
       THEN dheard' = dheard \cup dtask[n].asked /\ UNCHANGED dlost
       ELSE dlost' = dlost \cup dtask[n].asked /\ UNCHANGED dheard

\* claim_query: a query somebody has claimed is skipped, and the task is
\* complete; a registry that was once full claims nothing and lets all pass.
DnsClaim(n) ==
    LET q == dtask[n].at IN
    /\ dtask[n].stage = "claim" /\ (n \in dtold => dtask[n].hop > 0)
    /\ IF ~ dfull /\ q \in dclaims
       THEN DnsEnd(n, TRUE) /\ UNCHANGED <<dclaims, dfull, dfilled>>
       ELSE /\ dclaims' = IF dfull THEN dclaims ELSE dclaims \cup {q}
            /\ dfull' = (dfull \/ Cardinality(dclaims') >= RegistryMax)
            /\ dfilled' = (dfilled \/ dfull')
            /\ dtask' = [dtask EXCEPT ![n].stage = "ask", ![n].asked = @ \cup {q}]
            /\ UNCHANGED <<dheard, dlost>>
    /\ UNCHANGED <<dbudget, dtold, dsettled, dresumes>>

\* The address is known: the records are retained and the chain ends.
DnsAnswer(n) ==
    /\ dtask[n].stage = "ask"
    /\ dsettled' = dsettled \cup {dtask[n].at}
    /\ DnsEnd(n, TRUE)
    /\ UNCHANGED <<dclaims, dfull, dfilled, dbudget, dtold, dresumes>>

\* A bug: the target of an alias is claimed when it is found.
DnsAliasClaims(n) ==
    /\ dtask[n].stage = "ask"
    /\ dsettled' = dsettled \cup {dtask[n].at}
    /\ \E next \in Names :
         /\ dclaims' = dclaims \cup {next}
         /\ IF next \in dtask[n].seen \cup dclaims \/ dtask[n].hop + 1 >= MaxHops
            THEN DnsEnd(n, TRUE)
            ELSE /\ dtask' = [dtask EXCEPT ![n] = [stage |-> "ask", at |-> next, hop |-> @.hop + 1,
                                 seen |-> @.seen \cup {next}, asked |-> @.asked \cup {next}]]
                 /\ UNCHANGED <<dheard, dlost>>
    /\ UNCHANGED <<dfull, dfilled, dbudget, dtold, dresumes>>

\* The name is an alias: its target is asked next, unless this chain met it
\* before or is at its last hop.
DnsAlias(n) ==
    /\ dtask[n].stage = "ask"
    /\ dsettled' = dsettled \cup {dtask[n].at}
    /\ \E next \in Names :
         IF next \in dtask[n].seen \/ dtask[n].hop + 1 >= MaxHops
         THEN DnsEnd(n, TRUE)
         ELSE /\ dtask' = [dtask EXCEPT ![n].stage = "claim", ![n].at = next, ![n].hop = @ + 1,
                                         ![n].seen = @ \cup {next}]
              /\ UNCHANGED <<dheard, dlost>>
    /\ UNCHANGED <<dclaims, dfull, dfilled, dbudget, dtold, dresumes>>

\* forget_query: a query that timed out or came back malformed may be made
\* again, by whoever comes to it next; a negative answer stands.
DnsFail(n) ==
    /\ dtask[n].stage = "ask"
    /\ \/ dsettled' = dsettled \cup {dtask[n].at} /\ UNCHANGED dclaims
       \/ dclaims' = dclaims \ {dtask[n].at} /\ UNCHANGED dsettled
    /\ DnsEnd(n, TRUE)
    /\ UNCHANGED <<dfull, dfilled, dbudget, dtold, dresumes>>

\* query_udp sees the token: the task returns Cancelled, its claim stays.
DnsCut(n) ==
    /\ dtask[n].stage = "ask" /\ n \in dtold
    /\ DnsEnd(n, FALSE)
    /\ UNCHANGED <<dclaims, dfull, dfilled, dbudget, dtold, dsettled, dresumes>>

\* The token is seen before the first query: nothing is claimed.
DnsQuit(n) ==
    /\ dtask[n].stage = "claim" /\ dtask[n].hop = 0 /\ n \in dtold
    /\ dtask' = [dtask EXCEPT ![n].stage = "cancelled"]
    /\ UNCHANGED <<dclaims, dfull, dfilled, dbudget, dtold, dsettled, dheard, dlost, dresumes>>

\* The scheduler gives a task up: its time has passed, or the scan stops.
DnsReap(n) ==
    /\ n \in Running \ dtold
    /\ dtold' = dtold \cup {n}
    /\ UNCHANGED <<dtask, dclaims, dfull, dfilled, dbudget, dsettled, dheard, dlost, dresumes>>

\* A bug: the registry of the resumed scan is empty.
DnsResumeForgets ==
    /\ Running = {} /\ dresumes < MaxResumes
    /\ dclaims' = {} /\ dfull' = FALSE
    /\ dresumes' = dresumes + 1
    /\ UNCHANGED <<dtask, dfilled, dbudget, dtold, dsettled, dheard, dlost>>

\* The scan is resumed from a checkpoint with tasks that had not begun: what
\* ended has ended for good, and the registry claims what it had claimed
\* (snapshot_queries, DnsRegistry::restore).
DnsResume ==
    /\ Running = {} /\ dresumes < MaxResumes
    /\ dfull' = (Cardinality(dclaims) >= RegistryMax)
    /\ dfilled' = (dfilled \/ dfull')
    /\ dresumes' = dresumes + 1
    /\ UNCHANGED <<dtask, dclaims, dbudget, dtold, dsettled, dheard, dlost>>

DnsStep(n) == \/ DnsStart(n) \/ DnsClaim(n)
              \/ DnsAnswer(n) \/ DnsAlias(n) \/ DnsFail(n) \/ DnsCut(n) \/ DnsQuit(n)

DnsNext == DnsResume \/ \E n \in Names : DnsStep(n) \/ DnsReap(n)

DnsSpec == DnsInit /\ [][DnsNext]_dnsvars

-----------------------------------------------------------------------------

DnsTypeOK ==
    /\ dtask \in [Names -> [stage : {"ready", "claim", "ask", "done", "refused", "cancelled"},
                            at : Names \cup {"none"}, hop : 0..MaxHops - 1, seen : SUBSET Names, asked : SUBSET Names]]
    /\ \A n \in Running : dtask[n].at \in Names
    /\ dclaims \cup dtold \cup dsettled \cup dheard \cup dlost \subseteq Names
    /\ dbudget \subseteq Names /\ Cardinality(dbudget) <= PerDomain
    /\ dfull \in BOOLEAN /\ dfilled \in BOOLEAN /\ dresumes \in 0..MaxResumes

Asking(q) == {n \in Names : dtask[n].stage = "ask" /\ dtask[n].at = q}

\* Unless the registry was full at some time (a resumed scan takes its claims,
\* not the queries made while it was full) no query is in flight twice, nor
\* made again once it was answered, whichever chains of aliases lead to it and
\* however often the scan is resumed.
DnsAskedOnce ==
    ~ dfilled => \A q \in Names : /\ Cardinality(Asking(q)) <= 1
                                  /\ q \in dsettled => Asking(q) = {}

\* A claim without a report: nobody is at it, and no output says what came
\* of it.
Orphaned(q) == /\ q \in dclaims \ dheard
               /\ \A n \in Running : q \notin dtask[n].asked

\* Only a task that was given up leaves such claims behind: chains that meet,
\* failures and resumed scans leave none.
DnsClaimsHaveOutcome == \A q \in Names : Orphaned(q) => q \in dlost
=============================================================================
