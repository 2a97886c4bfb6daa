--------------------------- MODULE ProjectHistory ---------------------------
(* The project database of src/src/project_db.rs, as those who write it do:  *)
(* a scan (run.rs) imports its graph, then its intelligence, compares itself *)
(* with the previous run, notes what deserves attention and stores its TLS   *)
(* postures; an investigation (investigate.rs) imports its graph and its     *)
(* evidence; `project-db diff` (main.rs) compares any two runs. Each step is *)
(* one transaction of one of several processes, each may be killed between.  *)
(*                                                                           *)
(* An entity is a tuple that begins with its kind. Times are not kept: runs  *)
(* are numbered in the order in which they finished, and imported in any.    *)
(* A table is a set or a function, so equal rows stored twice are one.       *)
EXTENDS Naturals, Sequences, FiniteSets

CONSTANTS
  Outcomes,   \* what a run came to, see Imported
  MaxWriters, \* bound: processes (and threads of the server) writing at a time
  MaxWork     \* bound: runs and `project-db diff` commands in one behaviour

\* What a run came to is that of a scan or of an investigation. An entity is
\* neither a relationship nor a match of an advisory. What an investigation
\* looked into is in its graph, and no task of a scan is one of the modules
\* that entities are credited to.
ASSUME OutcomesAssumption ==
  \A o \in Outcomes :
    /\ o.workflow \in {"scan", "investigation"} /\ o.truncated \in BOOLEAN
    /\ \A e \in DOMAIN o.graph : e[1] # "vuln" /\ \A p \in Outcomes : e \notin p.links
    /\ o.workflow = "investigation" => \A q \in o.observed : q.input \in DOMAIN o.graph
    /\ o.workflow = "scan" =>
         \A t \in o.tasks : \A p \in Outcomes : \A e \in DOMAIN p.graph : t.module # p.graph[e]

VARIABLES
  hruns,       \* scan_runs with their observations: [imported ids -> run]
  hentities,   \* entities: [entities -> [first, last, count]]
  hchanges,    \* changes
  hattention,  \* attention_events
  hevidence,   \* the runs evidence_store has rows of
  hjobs,       \* the processes in the order in which their run finished: what each is doing
  himports,    \* history: the imports in their order, with what was imported
  hcompared    \* history: <<new, old>> a scan recorded the changes of

historyvars == <<hruns, hentities, hchanges, hattention, hevidence, hjobs, himports, hcompared>>

None == 0
Over == [at |-> "over"]

-----------------------------------------------------------------------------
(* Coverage: what a run is taken to have looked at.                          *)

\* Mutant: tasks that failed count too.
CoverageOfAll(tasks, truncated) ==
  [about |-> UNION {t.about : t \in tasks}, modules |-> {t.module : t \in tasks}, truncated |-> truncated]

\* coverage_from_tasks: only tasks that succeeded count, each for the ports,
\* the host or the name it was about; truncated is what run.rs makes of the
\* termination, TRUE unless the scan Completed.
CoverageFromTasks(tasks, truncated) ==
  LET done == {t \in tasks : t.succeeded}
  IN [about |-> UNION {t.about : t \in done}, modules |-> {t.module : t \in done}, truncated |-> truncated]

\* persist_investigation: a transform with an observation counts, whatever
\* the observation's status; so does a name with a DNS observation, and a host
\* whose pivot was completed.
CoverageFromReport(observed, truncated) ==
  [about |-> {o.input : o \in {p \in observed : \/ p.transform = "domain_to_dns"
                                                \/ p.transform = "network_pivot" /\ p.status = "completed"}},
   modules |-> {<<"investigate", o.transform>> : o \in observed} \cup {<<"investigate", "seed">>},
   truncated |-> truncated]

\* The run as import_scan stores it: `graph` gives each entity the module that
\* observed it, `links` the relationships, `facts` what is said of services,
\* certificates and keys.
Imported(outcome) ==
  [workflow |-> outcome.workflow,
   cover |-> IF outcome.workflow = "investigation"
             THEN CoverageFromReport(outcome.observed, outcome.truncated)
             ELSE CoverageFromTasks(outcome.tasks, outcome.truncated),
   graph |-> outcome.graph, links |-> outcome.links, facts |-> outcome.facts,
   postures |-> << >>, candidates |-> << >>, software |-> {}, vulns |-> << >>]

-----------------------------------------------------------------------------
(* diff_scan_runs.                                                           *)

\* observations_by_entity: one row per entity, the later winning; a posture is
\* stored under the id of its port, after the port.
Row(run, e) ==
  IF e \in DOMAIN run.postures THEN [kind |-> "tls_posture", module |-> <<"rxscan", "service">>]
  ELSE [kind |-> e[1], module |-> run.graph[e]]
Rows(run) == [e \in DOMAIN run.graph \cup DOMAIN run.postures |-> Row(run, e)]

Change(type, e) == [type |-> type, entity |-> e, why |-> "observed"]
OfKind(rows, kinds) == {e \in DOMAIN rows : rows[e].kind \in kinds}

\* What was there, is not there now, and was looked at.
Gone(old, new, kinds, type) ==
  {Change(type, e) : e \in (OfKind(old.rows, kinds) \ OfKind(new.rows, kinds)) \cap new.cover.about}

PortChanges(old, new) ==
  {Change(IF e \in old.cover.about THEN "opened" ELSE "appeared", e) :
     e \in OfKind(new.rows, {"port"}) \ OfKind(old.rows, {"port"})}
  \cup Gone(old, new, {"port"}, "closed")

HostChanges(old, new) ==
  LET kinds == {"ip_address", "host"}
  IN {Change("appeared", e) : e \in OfKind(new.rows, kinds) \ OfKind(old.rows, kinds)}
     \cup Gone(old, new, kinds, "disappeared")

HostnameChanges(old, new) ==
  {Change("added", e) : e \in OfKind(new.rows, {"hostname"}) \ OfKind(old.rows, {"hostname"})}
  \cup Gone(old, new, {"hostname"}, "removed")

\* A fact <<what, subject>> of both runs that differs; of a service, whose
\* fact is <<product, version>>, the product first.
Differing(old, new) ==
  {[type |-> "changed", entity |-> IF f[1] = "service" THEN f ELSE f[2],
    why |-> IF f[1] # "service" THEN f[1]
            ELSE IF old.facts[f][1] # new.facts[f][1] THEN "product" ELSE "version"] :
     f \in {g \in DOMAIN old.facts \cap DOMAIN new.facts : old.facts[g] # new.facts[g]}}

\* A new service, certificate or key is added; a service of a new port appeared.
FactChanges(old, new) ==
  Differing(old, new)
  \cup {[type |-> IF f[1] = "service" /\ f[2] \notin OfKind(old.rows, {"port"}) THEN "appeared" ELSE "added",
         entity |-> IF f[1] = "service" THEN f ELSE f[2], why |-> f[1]] :
          f \in {g \in DOMAIN new.facts \ DOMAIN old.facts : g[1] \in {"service", "certificate", "ssh"}}}

\* A match <<advisory, product, version>> that is no longer made is removed
\* with the best explanation the new run has, vuln_resolution.
Matched(run) == {k \in DOMAIN run.vulns : run.vulns[k].outcome = "matched"}
VulnResolution(old, new, k) ==
  LET observed == {s[2] : s \in {t \in new.software : t[1] = k[2]}}
      datasets == {new.vulns[n].dataset : n \in {m \in DOMAIN new.vulns : m[1] = k[1]}}
  IN IF observed = {} THEN "coverage_insufficient"
     ELSE IF k[3] \notin observed THEN "resolved_by_software_change"
     ELSE IF datasets # {old.vulns[k].dataset} THEN "dataset_changed"
     ELSE "unknown"

VulnChanges(old, new) ==
  {Change("added", <<"vuln", k>>) : k \in Matched(new) \ Matched(old)}
  \cup {Change("confidence_changed", <<"vuln", k>>) :
          k \in {m \in Matched(new) \cap Matched(old) : old.vulns[m] # new.vulns[m]}}
  \cup {[type |-> "removed", entity |-> <<"vuln", k>>, why |-> VulnResolution(old, new, k)] :
          k \in Matched(old) \ Matched(new)}

\* Entities and links of investigations are removed when the module that
\* produced them counts as completed in the new run.
Investigative(row) == row.module[1] \in {"investigate", "exposure"}
Repeated(new, row) == Investigative(row) /\ row.module \in new.cover.modules

InvestigationChanges(old, new) ==
  {Change("added", e) : e \in {d \in DOMAIN new.rows \ DOMAIN old.rows : Investigative(new.rows[d])}}
  \cup {Change("removed", e) : e \in {d \in DOMAIN old.rows \ DOMAIN new.rows : Repeated(new, old.rows[d])}}

LinkChanges(old, new) ==
  {Change("added", l) : l \in new.links \ old.links}
  \cup {Change("removed", l) : l \in {m \in old.links \ new.links :
          \A e \in {m[1], m[2]} : e \in DOMAIN old.rows /\ Repeated(new, old.rows[e])}}

\* What a comparison reads of one run: its observations and edges, ...
ReadRows(run) == [rows |-> Rows(run), cover |-> run.cover, links |-> run.links,
                  facts |-> [f \in DOMAIN run.facts \cup {<<"tls", p>> : p \in DOMAIN run.postures} |->
                               IF f[1] = "tls" THEN run.postures[f[2]] ELSE run.facts[f]]]
\* ... and its OS and device candidates, software and vulnerabilities.
ReadTables(run) == [facts |-> run.candidates, software |-> run.software, vulns |-> run.vulns]

RowChanges(old, new) ==
  PortChanges(old, new) \cup HostChanges(old, new) \cup HostnameChanges(old, new) \cup LinkChanges(old, new)
  \cup InvestigationChanges(old, new) \cup FactChanges(old, new)

\* Candidates are facts <<"os" or "device", host>>, compared when both have them.
TableChanges(old, new) == Differing(old, new) \cup VulnChanges(old, new)

Between(old, new) ==
  RowChanges(ReadRows(old), ReadRows(new)) \cup TableChanges(ReadTables(old), ReadTables(new))

\* diff_scans of project_diff.rs, what the server shows of two runs: the first
\* row of an entity counts, and an absence is a removal when the new run was
\* whole and looked at the entity, a service's port or an endpoint's host.
Shown(old, new, e) ==
  LET subject == IF e[1] \in {"service", "web_endpoint"} THEN e[2] ELSE e
      missed == e \in DOMAIN old.graph \ DOMAIN new.graph
      looked == ~new.cover.truncated /\ subject \in new.cover.about
  IN CASE e \notin DOMAIN old.graph -> "added"
       [] e \in DOMAIN old.graph \cap DOMAIN new.graph -> "kept"
       [] missed /\ looked -> "removed"
       [] missed /\ ~looked -> "not_covered"

\* The last run but this one in the order of scan_ids, before it or after it.
Others(id) == DOMAIN hruns \ {id}
Previous(id) == IF Others(id) = {} THEN None ELSE CHOOSE p \in Others(id) : \A q \in Others(id) : p >= q

-----------------------------------------------------------------------------
(* generate_attention.                                                       *)

Notable(c) == \/ c.type = "opened"
              \/ c.type = "changed" /\ c.why \in {"certificate", "ssh", "version", "tls"}
PortsAsked(run) == Cardinality({e \in run.cover.about : e[1] = "port"})

\* What deserves attention: exposures and rotations since the previous run,
\* fewer than half of its ports asked for, vulnerabilities and old protocols
\* (and certificates about to expire, which need a clock and are left out).
Candidate(v) == \/ v.outcome = "matched"
                \/ v.outcome = "indeterminate" /\ v.confidence >= 60
Attention(run, previous) ==
  {[category |-> "vulnerability_candidate", entity |-> <<"vuln", k>>] :
     k \in {m \in DOMAIN run.vulns : Candidate(run.vulns[m])}}
  \cup {[category |-> "deprecated_tls", entity |-> p] : p \in {q \in DOMAIN run.postures : run.postures[q] = "old"}}
  \cup (IF previous = None THEN {}
        ELSE {[category |-> c.type, entity |-> c.entity] : c \in {d \in Between(hruns[previous], run) : Notable(d)}}
             \cup (IF 2 * PortsAsked(run) < PortsAsked(hruns[previous])
                   THEN {[category |-> "coverage_regression", entity |-> <<"scan">>]} ELSE {}))

-----------------------------------------------------------------------------
(* The steps.                                                                *)

HistoryInit ==
  /\ hruns = << >> /\ hentities = << >> /\ hchanges = {} /\ hattention = {} /\ hevidence = {}
  /\ hjobs = << >> /\ himports = << >> /\ hcompared = {}

Goes(w, job) == hjobs' = [hjobs EXCEPT ![w] = job]
At(w, step) == hjobs[w].at = step

MayBegin == Len(hjobs) < MaxWork /\ Cardinality({w \in DOMAIN hjobs : ~At(w, "over")}) < MaxWriters

\* A scan or an investigation ends; what is left is to persist it.
Finish ==
  /\ MayBegin
  /\ \E outcome \in Outcomes :
       hjobs' = Append(hjobs, [at |-> "import", run |-> Len(hjobs) + 1, outcome |-> outcome])
  /\ UNCHANGED <<hruns, hentities, hchanges, hattention, hevidence, himports, hcompared>>

\* The entity table after a run: what is new begins with it.
Upserted(entities, id, seen) ==
  [e \in DOMAIN entities \cup seen |->
     IF e \notin DOMAIN entities THEN [first |-> id, last |-> id, count |-> 1]
     ELSE IF e \in seen THEN [entities[e] EXCEPT !.last = id, !.count = @ + 1]
     ELSE entities[e]]

\* import_scan: the run, its entities, observations and relationships at once.
ImportScan(w) ==
  /\ At(w, "import")
  /\ LET id == hjobs[w].run
         run == Imported(hjobs[w].outcome)
     IN /\ hruns' = [r \in DOMAIN hruns \cup {id} |-> IF r = id THEN run ELSE hruns[r]]
        /\ hentities' = Upserted(hentities, id, DOMAIN run.graph)
        /\ himports' = Append(himports, [run |-> id, outcome |-> hjobs[w].outcome])
        /\ Goes(w, [hjobs[w] EXCEPT !.at = IF run.workflow = "investigation" THEN "evidence" ELSE "intelligence"])
  /\ UNCHANGED <<hchanges, hattention, hevidence, hcompared>>

\* store_evidence, with which persist_investigation ends.
StoreEvidence(w) ==
  /\ At(w, "evidence")
  /\ hevidence' = hevidence \cup {hjobs[w].run}
  /\ Goes(w, Over)
  /\ UNCHANGED <<hruns, hentities, hchanges, hattention, himports, hcompared>>

\* import_intelligence, and then the run before is looked up.
ImportIntelligence(w) ==
  /\ At(w, "intelligence")
  /\ LET id == hjobs[w].run
         outcome == hjobs[w].outcome
     IN /\ hruns' = [hruns EXCEPT ![id] = [@ EXCEPT !.postures = outcome.postures, !.candidates = outcome.candidates,
                                                    !.software = outcome.software, !.vulns = outcome.vulns]]
        /\ Goes(w, [at |-> IF Previous(id) = None THEN "attend" ELSE "rows", run |-> id, old |-> Previous(id),
                    command |-> FALSE, outcome |-> outcome, changes |-> {}])
  /\ UNCHANGED <<hentities, hchanges, hattention, hevidence, himports, hcompared>>

\* `project-db diff`: any two runs, in any order, also while they are written;
\* its --limit and the bounds on changes and events are not reached.
DiffCommand ==
  /\ MayBegin
  /\ \E new, old \in DOMAIN hruns :
       hjobs' = Append(hjobs, [at |-> "rows", run |-> new, old |-> old, command |-> TRUE, changes |-> {}])
  /\ UNCHANGED <<hruns, hentities, hchanges, hattention, hevidence, himports, hcompared>>

\* diff_scan_runs reads the observations, and after them the other tables.
CompareRows(w) ==
  /\ At(w, "rows")
  /\ LET j == hjobs[w]
     IN Goes(w, [j EXCEPT !.at = "tables", !.changes = RowChanges(ReadRows(hruns[j.old]), ReadRows(hruns[j.run]))])
  /\ UNCHANGED <<hruns, hentities, hchanges, hattention, hevidence, himports, hcompared>>

CompareTables(w) ==
  /\ At(w, "tables")
  /\ LET j == hjobs[w]
     IN Goes(w, [j EXCEPT !.at = "record",
                          !.changes = @ \cup TableChanges(ReadTables(hruns[j.old]), ReadTables(hruns[j.run]))])
  /\ UNCHANGED <<hruns, hentities, hchanges, hattention, hevidence, himports, hcompared>>

\* record_changes. A command is over, a scan goes on.
RecordChanges(w) ==
  /\ At(w, "record")
  /\ LET j == hjobs[w]
     IN /\ hchanges' = hchanges \cup {[new |-> j.run, old |-> j.old, change |-> c] : c \in j.changes}
        /\ IF j.command THEN Goes(w, Over) /\ UNCHANGED hcompared
           ELSE Goes(w, [j EXCEPT !.at = "attend"]) /\ hcompared' = hcompared \cup {<<j.run, j.old>>}
  /\ UNCHANGED <<hruns, hentities, hattention, hevidence, himports>>

\* generate_attention looks the run before up again and compares again.
GenerateAttention(w) ==
  /\ At(w, "attend")
  /\ LET j == hjobs[w]
     IN Goes(w, [at |-> "note", run |-> j.run, outcome |-> j.outcome,
                 events |-> Attention(hruns[j.run], Previous(j.run))])
  /\ UNCHANGED <<hruns, hentities, hchanges, hattention, hevidence, himports, hcompared>>

RecordAttention(w) ==
  /\ At(w, "note")
  /\ hattention' = hattention \cup {[run |-> hjobs[w].run, event |-> e] : e \in hjobs[w].events}
  /\ Goes(w, [at |-> "posture", run |-> hjobs[w].run, outcome |-> hjobs[w].outcome])
  /\ UNCHANGED <<hruns, hentities, hchanges, hevidence, himports, hcompared>>

\* store_tls_posture stores again what import_intelligence stored.
StorePosture(w) ==
  /\ At(w, "posture")
  /\ hruns' = [hruns EXCEPT ![hjobs[w].run].postures = hjobs[w].outcome.postures]
  /\ Goes(w, Over)
  /\ UNCHANGED <<hentities, hchanges, hattention, hevidence, himports, hcompared>>

\* The process is killed, or its next transaction fails and it gives up.
Killed(w) ==
  /\ ~At(w, "over")
  /\ Goes(w, Over)
  /\ UNCHANGED <<hruns, hentities, hchanges, hattention, hevidence, himports, hcompared>>

HistoryNext ==
  \/ Finish
  \/ DiffCommand
  \/ \E w \in DOMAIN hjobs :
       \/ ImportScan(w) \/ StoreEvidence(w) \/ ImportIntelligence(w)
       \/ CompareRows(w) \/ CompareTables(w) \/ RecordChanges(w)
       \/ GenerateAttention(w) \/ RecordAttention(w) \/ StorePosture(w) \/ Killed(w)

HistorySpec == HistoryInit /\ [][HistoryNext]_historyvars

-----------------------------------------------------------------------------
(* The properties.                                                           *)

\* The imports of runs that saw an entity.
Seeing(e) == {i \in DOMAIN himports : e \in DOMAIN himports[i].outcome.graph}

\* The entity table says what the runs say, in whatever order they were
\* imported and wherever their processes were killed: how many runs saw an
\* entity, and which of them was imported first and last (import_scan).
EntitiesMatchRuns ==
  /\ DOMAIN hentities = UNION {DOMAIN hruns[r].graph : r \in DOMAIN hruns}
  /\ \A e \in DOMAIN hentities :
       /\ hentities[e].count = Cardinality(Seeing(e))
       /\ \E i \in Seeing(e) : himports[i].run = hentities[e].first /\ \A k \in Seeing(e) : i <= k
       /\ \E i \in Seeing(e) : himports[i].run = hentities[e].last /\ \A k \in Seeing(e) : k <= i

\* What run r came to, and whether one of its tasks that succeeded asked for e.
Came(r) == LET i == CHOOSE k \in DOMAIN himports : himports[k].run = r IN himports[i].outcome
LookedFor(outcome, e) ==
  outcome.workflow = "scan" /\ \E t \in outcome.tasks : t.succeeded /\ e \in t.about

Removal(c) == c.type \in {"closed", "disappeared", "removed"}
OfScan(e) == e[1] \in {"port", "ip_address", "hostname"}
Missed(old, new) == DOMAIN old.graph \ DOMAIN new.graph

\* Whether an investigation repeated what had produced an entity: its seed is
\* always looked at, a transform when it left an observation.
TriedAgain(outcome, module) ==
  /\ outcome.workflow = "investigation" /\ module[1] = "investigate"
  /\ module[2] = "seed" \/ \E o \in outcome.observed : o.transform = module[2]

\* No stored removal of an entity is invented (diff_scan_runs): the earlier run
\* saw it and the later one did not - or it is a port under whose id there is a
\* posture instead - although a task that succeeded asked for it, or the
\* transform that had produced it left an observation.
RemovalsJustified ==
  \A c \in hchanges :
    LET e == c.change.entity
        old == Came(c.old)
        new == Came(c.new)
    IN Removal(c.change) /\ e \in DOMAIN hentities =>
         \/ e \in Missed(old, new) /\ (LookedFor(new, e) \/ TriedAgain(new, old.graph[e]))
         \/ e \in DOMAIN new.postures /\ LookedFor(new, e)

\* And none is forgotten: what a scan compared itself with had it, a task
\* asked for it and succeeded, the scan did not see it, so a removal is stored,
\* also when the scan was cut short: diff_scan_runs does not read `truncated`.
RemovalsStored ==
  \A pair \in hcompared :
    LET new == Came(pair[1])
        old == Came(pair[2])
    IN \A e \in Missed(old, new) :
         OfScan(e) /\ LookedFor(new, e) /\ e \notin DOMAIN old.postures =>
           \E c \in hchanges : <<c.new, c.old>> = pair /\ c.change.entity = e /\ Removal(c.change)

\* What the server shows as removed by a scan is what was missed although it
\* was looked for, and the scan was whole. The rows stored of the same two runs
\* (RemovalsStored) have what a truncated scan missed among them too: the two
\* comparisons agree on whole scans only.
ShownAgrees ==
  \A o, n \in DOMAIN hruns :
    \A e \in DOMAIN hruns[o].graph :
      LET new == Came(n)
      IN OfScan(e) /\ new.workflow = "scan" =>
           (Shown(hruns[o], hruns[n], e) = "removed"
              <=> e \notin DOMAIN hruns[n].graph /\ LookedFor(new, e) /\ ~new.truncated)

\* What the database holds is what the runs came to, and no step of any process
\* and no end of one between two steps makes it say more or less.
HistoryExact == EntitiesMatchRuns /\ RemovalsJustified /\ RemovalsStored /\ ShownAgrees

\* docs/INVESTIGATION.md:167-168 and 218-223: a provider that was blocked and
\* an investigation that was truncated leave UNKNOWN, never a removal (of what
\* an earlier run saw).
BlockedIsUnknown ==
  \A c \in hchanges :
    LET old == Came(c.old)
        new == Came(c.new)
    IN c.old < c.new /\ Removal(c.change) /\ c.change.entity \in DOMAIN old.graph /\ new.workflow = "investigation" =>
         /\ ~new.truncated
         /\ \A o \in new.observed :
              <<"investigate", o.transform>> = old.graph[c.change.entity] => o.status \in {"completed", "not_found"}

\* run.rs:565-567: "Coverage marks truncated scans so diffs never read absence
\* as removal."
TruncatedIsUnknown ==
  \A c \in hchanges :
    LET old == Came(c.old)
        new == Came(c.new)
    IN c.old < c.new /\ Removal(c.change) /\ c.change.entity \in DOMAIN old.graph /\ new.workflow = "scan" =>
         ~new.truncated

\* One of the two promises at least is kept. A behaviour that violates this
\* violates both: the stored changes have a removal against each.
AbsenceStaysUnknown == BlockedIsUnknown \/ TruncatedIsUnknown
=============================================================================
