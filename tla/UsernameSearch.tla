--------------------------- MODULE UsernameSearch ---------------------------
(* The search for one username (src/src/search.rs): the pack of providers is *)
(* validated and planned, every planned provider that may know the name is   *)
(* asked over one HTTP client that pins the addresses it resolved, its answer *)
(* is classified, and what was found becomes a graph and an import. The waves *)
(* the requests come in are SearchScheduler's.                               *)
(*                                                                           *)
(* A URL is <<scheme, host, path>>; the host "ip" stands for a literal that   *)
(* is not public and "localhost" for itself. A page is a record: status, to   *)
(* (where a redirect leads, or NoUrl), marks (the markers it contains) and    *)
(* huge (longer than the provider's limit).                                  *)
EXTENDS Naturals, Sequences, FiniteSets

CONSTANTS UsernameWorlds, \* see UsernameInit
          MaxFlights,     \* max_concurrency
          PublicAddresses \* public_search_address_allowed

\* Providers are finitely many, and what is counted is a number.
ASSUME UsernameAssumption ==
  /\ MaxFlights \in Nat
  /\ \A w \in UsernameWorlds :
       /\ IsFiniteSet(DOMAIN w.providers) /\ w.length \in Nat
       /\ \A p \in DOMAIN w.providers :
            LET d == w.providers[p] IN d.redirects \in Nat /\ d.shortest \in Nat /\ d.longest \in Nat

VARIABLES uworld,
          uplan,     \* the providers planned, by index
          uflights,  \* per provider: [step, at, hops, addresses]
          uclients,  \* SharedHttpClient.clients: host -> pinned addresses
          usaid,     \* per provider: [status, confidence, page]
          uimport,   \* [accounts, termination, modules]
          ucontacts, \* history: <<provider, host, addresses>>
          ustopped,  \* the cancel flag, and whether the deadline has passed
          ustage     \* "plan", "search", "import", "done" or "refused"

uservars == <<uworld, uplan, uflights, uclients, usaid, uimport, ucontacts, ustopped, ustage>>

NoUrl == <<"none", "none", "none">>
Grounded(step) == [step |-> step, at |-> NoUrl, hops |-> 0, addresses |-> {}]
Unsaid == [status |-> "none", confidence |-> 0, page |-> NoUrl]
NoImport == [accounts |-> {}, termination |-> "none", modules |-> {}]
Sites == DOMAIN uworld.providers

-----------------------------------------------------------------------------
(* Planning.                                                                 *)

\* validate, of UsernameProviderDefinition: what a provider claims about its
\* verification agrees with itself.
Verified(d) == d.verified # "none"
ValidDefinition(d) ==
  /\ d.category = d.sourceCategory /\ d.marks # {} /\ d.url[1] = "https" /\ d.url[2] \notin {"localhost", "ip"}
  /\ d.shortest \in 1..d.longest /\ d.redirects <= 5
  /\ d.health = "live_verified" <=> Verified(d)
  /\ d.health = "live_verified" => ~d.provisional
ValidProviders == /\ \A p \in Sites : ValidDefinition(uworld.providers[p])
             /\ \A p, q \in Sites : uworld.providers[p].id = uworld.providers[q].id => p = q
IdsOf(providers) == {uworld.providers[p].id : p \in providers}
State(d) == CASE d.health = "disabled" -> "disabled" [] d.health = "needs_review" -> "unavailable" [] OTHER -> "usable"

\* plan_username_providers; {} stands for a selection that was not made.
KnownSelection == (uworld.selected \cup uworld.excluded) \subseteq IdsOf(Sites) /\ uworld.categories \subseteq uworld.vocabulary
PlannedSites ==
  {p \in Sites : LET d == uworld.providers[p]
                    IN  /\ uworld.selected # {} => d.id \in uworld.selected
                        /\ d.id \notin uworld.excluded
                        /\ uworld.categories # {} => d.category \in uworld.categories}
PlanUsernameProviders ==
  /\ ustage = "plan"
  /\ IF ValidProviders /\ KnownSelection
     THEN /\ ustage' = "search" /\ uplan' = PlannedSites
          /\ uflights' = [p \in Sites |-> Grounded(IF p \in PlannedSites THEN "waiting" ELSE "unplanned")]
     ELSE ustage' = "refused" /\ UNCHANGED <<uplan, uflights>>
  /\ UNCHANGED <<uworld, uclients, usaid, uimport, ucontacts, ustopped>>

\* username_skip_reason.
NameFits(d) == uworld.length \in d.shortest..d.longest
AcceptsName(p) == State(uworld.providers[p]) # "disabled" /\ NameFits(uworld.providers[p])

-----------------------------------------------------------------------------
(* Classification.                                                           *)

Judged(status, confidence) == [status |-> status, confidence |-> confidence]
\* classify: what speaks against an account is looked at first.
Classify(d, page) ==
  IF page.status = 429 THEN Judged("rate_limited", 0)
  ELSE IF page.status = 401 THEN Judged("authentication_required", 0)
  ELSE IF page.status = 403 \/ "blocked" \in page.marks THEN Judged("blocked", 0)
  ELSE IF page.status \in d.missing \/ "missing" \in page.marks THEN Judged("not_found", 0)
  ELSE IF page.status \notin d.success THEN Judged("unknown", 0)
  ELSE IF d.marks \subseteq page.marks THEN Judged("confirmed", IF "optional" \in page.marks THEN 94 ELSE 88)
  ELSE Judged("possible", 25)
Conclusion(d, url, page) ==
  IF page.huge THEN Judged("unknown", 0)
  ELSE IF url \in d.absence THEN Judged("not_found", 0)
  ELSE IF url \in d.login THEN Judged("authentication_required", 0)
  ELSE Classify(d, page)

-----------------------------------------------------------------------------
(* Requests.                                                                 *)

Flying == {p \in Sites : uflights[p].step \in {"look", "resolved", "send"}}
Closes(p, step, said) ==
  uflights' = [uflights EXCEPT ![p].step = step] /\ usaid' = [usaid EXCEPT ![p] = said]
Errs(p) == Closes(p, "answered", [status |-> "error", confidence |-> 0, page |-> NoUrl])

\* The scheduler counts a provider that does not accept the name, and asks
\* nobody after a cancellation or the deadline.
DispatchProvider(p) ==
  /\ ustage = "search" /\ uflights[p].step = "waiting"
  /\ \/ ustopped.cancel /\ uflights' = [uflights EXCEPT ![p].step = "cancelled"]
     \/ ~ustopped.cancel /\ ustopped.late /\ uflights' = [uflights EXCEPT ![p].step = "unscanned"]
     \/ /\ ~ustopped.cancel /\ ~ustopped.late /\ ~AcceptsName(p)
        /\ uflights' = [uflights EXCEPT ![p].step = "skipped"]
     \/ /\ ~ustopped.cancel /\ ~ustopped.late /\ AcceptsName(p) /\ Cardinality(Flying) < MaxFlights
        /\ uflights' = [uflights EXCEPT ![p] = [Grounded("look") EXCEPT !.at = uworld.providers[p].url]]
  /\ UNCHANGED <<uworld, uplan, uclients, usaid, uimport, ucontacts, ustopped, ustage>>

\* get, the head of its loop, and client_for: the pinned addresses of a host
\* are used again, and otherwise it is resolved, with the cache unlocked.
LookUp(p) ==
  /\ uflights[p].step = "look"
  /\ LET host == uflights[p].at[2]
     IN  \/ ustopped.cancel /\ Closes(p, "cancelled", Unsaid)
         \/ ~ustopped.cancel /\ ustopped.late /\ Closes(p, "unscanned", Unsaid)
         \/ /\ ~ustopped.cancel /\ ~ustopped.late /\ host \in DOMAIN uclients /\ UNCHANGED usaid
            /\ uflights' = [uflights EXCEPT ![p].step = "send", ![p].addresses = uclients[host]]
         \/ /\ ~ustopped.cancel /\ ~ustopped.late /\ host \notin DOMAIN uclients
            /\ \E found \in uworld.resolves[host] :
                 IF found = {} THEN Errs(p)
                 ELSE uflights' = [uflights EXCEPT ![p].step = "resolved", ![p].addresses = found] /\ UNCHANGED usaid
  /\ UNCHANGED <<uworld, uplan, uclients, uimport, ucontacts, ustopped, ustage>>

\* client_for: one address that is not public refuses the host.
PinClient(p) ==
  /\ uflights[p].step = "resolved"
  /\ LET host == uflights[p].at[2] found == uflights[p].addresses
     IN  IF found \subseteq PublicAddresses
         THEN /\ uclients' = [h \in DOMAIN uclients \cup {host} |-> IF h = host THEN found ELSE uclients[h]]
              /\ uflights' = [uflights EXCEPT ![p].step = "send"] /\ UNCHANGED usaid
         ELSE Errs(p) /\ UNCHANGED uclients
  /\ UNCHANGED <<uworld, uplan, uimport, ucontacts, ustopped, ustage>>

\* get: the request fails, is cut by the deadline, or is answered; a redirect
\* is followed to another public address over HTTPS.
Followed(p, to) ==
  /\ to[1] = "https" /\ to[2] \notin {"localhost", "ip", "none"} /\ uflights[p].hops < uworld.providers[p].redirects
SendRequest(p) ==
  /\ uflights[p].step = "send"
  /\ LET at == uflights[p].at page == uworld.answers[at]
     IN  \/ Errs(p)
         \/ ustopped.late /\ Closes(p, "unscanned", Unsaid)
         \/ ustopped.cancel /\ Closes(p, "cancelled", Unsaid)
         \/ /\ ~ustopped.cancel /\ page.to # NoUrl /\ Followed(p, page.to) /\ UNCHANGED usaid
            /\ uflights' = [uflights EXCEPT ![p].step = "look", ![p].at = page.to, ![p].hops = @ + 1]
         \/ ~ustopped.cancel /\ page.to # NoUrl /\ ~Followed(p, page.to) /\ Errs(p)
         \/ /\ ~ustopped.cancel /\ page.to = NoUrl
            /\ LET c == Conclusion(uworld.providers[p], at, page)
               IN  Closes(p, "answered", [status |-> c.status, confidence |-> c.confidence, page |-> at])
  /\ ucontacts' = ucontacts \cup {<<p, uflights[p].at, uflights[p].addresses>>}
  /\ UNCHANGED <<uworld, uplan, uclients, uimport, ustopped, ustage>>

StopSearch ==
  /\ ustage = "search"
  /\ \/ uworld.mayCancel /\ ~ustopped.cancel /\ ustopped' = [ustopped EXCEPT !.cancel = TRUE]
     \/ uworld.mayLapse /\ ~ustopped.late /\ ustopped' = [ustopped EXCEPT !.late = TRUE]
  /\ UNCHANGED <<uworld, uplan, uflights, uclients, usaid, uimport, ucontacts, ustage>>

-----------------------------------------------------------------------------
(* The report.                                                               *)

AtStep(step) == {p \in uplan : uflights[p].step = step}
TellReport ==
  /\ ustage = "search" /\ uplan = UNION {AtStep(step) : step \in {"answered", "skipped", "cancelled", "unscanned"}}
  /\ ustage' = "import"
  /\ UNCHANGED <<uworld, uplan, uflights, uclients, usaid, uimport, ucontacts, ustopped>>

\* add_username_observation_to_graph and persist_username_report: what the
\* accounts rest on; a cancellation is told before a deadline.
PersistUsernameReport ==
  /\ ustage = "import" /\ ustage' = "done"
  /\ LET positive == {p \in AtStep("answered") : usaid[p].status \in {"confirmed", "probable", "possible"}}
     IN  uimport' =
           [accounts |-> {[platform |-> uworld.providers[p].platform, by |-> p, confidence |-> usaid[p].confidence] : p \in positive},
            termination |-> IF AtStep("cancelled") # {} THEN "cancelled"
                            ELSE IF AtStep("unscanned") # {} THEN "deadline_or_budget" ELSE "complete",
            modules |-> {<<uworld.providers[p].id, usaid[p].status>> : p \in AtStep("answered")}]
  /\ UNCHANGED <<uworld, uplan, uflights, uclients, usaid, ucontacts, ustopped>>

UsernameInit ==
  /\ uworld \in UsernameWorlds /\ uplan = {} /\ uclients = <<>> /\ uimport = NoImport /\ ucontacts = {}
  /\ uflights = [p \in Sites |-> Grounded("unplanned")] /\ usaid = [p \in Sites |-> Unsaid]
  /\ ustopped = [cancel |-> FALSE, late |-> FALSE] /\ ustage = "plan"
UsernameNext ==
  \/ PlanUsernameProviders \/ StopSearch \/ TellReport \/ PersistUsernameReport
  \/ \E p \in Sites : DispatchProvider(p) \/ LookUp(p) \/ PinClient(p) \/ SendRequest(p)
UsernameSpec == UsernameInit /\ [][UsernameNext]_uservars

-----------------------------------------------------------------------------
(* What the search promises.                                                 *)

UsernameTypeOK ==
  /\ Cardinality(Flying) <= MaxFlights
  /\ \A p \in Sites : Cardinality({c \in ucontacts : c[1] = p}) <= uworld.providers[p].redirects + 1

\* Only providers of the plan that may know the name are contacted, over HTTPS,
\* and at public addresses that were checked, whatever a redirect, a second
\* resolution or another thread says of the host.
ContactsPublic ==
  \A c \in ucontacts :
    LET d == uworld.providers[c[1]]
    IN  /\ c[1] \in uplan /\ d.health # "disabled" /\ uworld.length >= d.shortest /\ uworld.length <= d.longest
        /\ uworld.selected = {} \/ d.id \in uworld.selected
        /\ d.id \notin uworld.excluded /\ (uworld.categories = {} \/ d.category \in uworld.categories)
        /\ c[2][1] = "https" /\ c[3] # {} /\ c[3] \subseteq PublicAddresses

\* An account is believed on a whole page with every required marker, where
\* nothing speaks against it; status alone makes it possible at most.
Contrary == {"blocked", "missing"}
AccountsEvidenced ==
  \A account \in uimport.accounts :
    LET p == account.by d == uworld.providers[p] url == usaid[p].page page == uworld.answers[url]
    IN  /\ page.status \in d.success \ d.missing /\ page.marks \cap Contrary = {} /\ ~page.huge
        /\ url \notin d.absence \cup d.login
        /\ account.confidence > 25 => d.marks \subseteq page.marks
        /\ \E c \in ucontacts : c[1] = p /\ c[2] = url

\* A search that says it is complete has an answer, or the reason for a skip,
\* of every planned provider; every outcome is counted once.
SearchAccounted ==
  ustage = "done" =>
    /\ uimport.termination = "complete" => \A p \in uplan : usaid[p].status # "none" \/ ~AcceptsName(p)
    /\ {m[1] : m \in uimport.modules} = IdsOf({p \in uplan : usaid[p].status # "none"})
    /\ Cardinality(uimport.modules) + Cardinality(AtStep("skipped")) + Cardinality(AtStep("cancelled"))
         + Cardinality(AtStep("unscanned")) = Cardinality(uplan)

UsernameSound == ContactsPublic /\ AccountsEvidenced /\ SearchAccounted
=============================================================================
