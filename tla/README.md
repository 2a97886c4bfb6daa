# RXScan: TLA+ models and proofs

RXScan is a network scanner and investigation tool: a command line (and a local
web server) that turns a target into a bounded task list, runs the tasks on a
small number of worker threads under budgets, deadlines and a scope guard, and
writes outputs, checkpoints, a project file and a project database. This
directory models the parts of it whose correctness depends on order (threads,
callbacks, clocks, kills, files) or on rules that are hard to test by example
(what leads to what, what is counted, what is cut). TLC checks every model on
small instances; TLAPS proves the central theorems for every value of the
constants. All paths below are relative to the repository's root, which holds
the crate in `src/`; in the modules and in `PROJECT.json` a path
`src/src/x.rs` is the crate's `src/x.rs`.

## The system

A scan is: options -> `run.rs::execute_impl` -> scope and plan -> lowering to
tasks -> `execution.rs::Scheduler::run` with modules on worker threads -> the
decision engine's follow-ups, admitted by the same scheduler -> outputs ->
checkpoint -> analysis, diff, project import. The local server runs the same
`execute_with_cancellation` on a thread per job. Everything is threads,
mutexes, atomics and channels; there is no async runtime.

| Component | State | Operations | What is hard | Correct when |
|---|---|---|---|---|
| Task scheduler (`execution.rs`) | task records, priority queue, dispatch window, slot counter, ledger, report lists, deadline and cancel flags | `add_task`, `restore_task`, `run` (promote, dispatch, receive, reap, drain, sweep), `cancel_*`, `drain_pending`, `request_shutdown` | late answers of reaped workers, panics, retries against the deadline, an external flag read at many points, five places that free a slot | slots, queue, ledger and report are exact in every interleaving; a run ends; nothing starts after expiry |
| Execution driver (`run.rs`) | plan, scheduler, registries, what each stage wrote | load or plan, admit, run, write, summarise, save | a later stage fails, a budget cuts the output | what was left behind agrees with what was reported; a resumed run continues the checkpoint |
| Checkpoint (`persistence.rs`) | one file, and `<name>.tmp` | save, load, validate, restore | kill or full disk at any point; size caps on both sides | the file always resumes, no evidence and no budget is lost |
| Project file (`project.rs`) | one JSON file with a revision and a fingerprint | create, load, add scan, save | several processes, no lock, one temporary name | no reported import is lost, the file is whole |
| Project database (`project_db.rs`) | runs, entities, changes, attention, intelligence, postures | import, compare, list; one transaction each | kills between transactions, runs that covered different things, comparisons in any order | rows agree with the runs; a removal is only of what was looked for |
| Output (`output.rs`) | a stream to `<name>.tmp-<pid>` | create, write, finish, drop | kill during a long stream | the path holds one whole output |
| Local server (`web_api.rs`) | job store behind one mutex, a cancel flag per job, the shutdown flag | create, cancel, list, stream, shutdown; one worker thread per job | lock gaps, late cancels, streams that follow a buffer that drops, shutdown against accepted connections | limits hold, outcomes are final, streams deliver the end unless they fell behind the buffer, jobs end |
| Username search (`search.rs`) | provider vectors, accounting, per-host caps, pinned client | validate, plan, waves of threads, redirects, classify, import | accounting in every exit path; redirects to other hosts | requested = completed + skipped + cancelled + unscanned; each conclusion follows from a page |
| Planner, lowering and decision engine (`level.rs`, `lowering.rs`, `decision.rs`) | plan, known tasks, lineage | lower a plan; propose after each success | evidence that comes in any order, names out of scope, cycles, names that compete for a domain's places | the order does not matter but for the names that are heard, nothing leaves the scope, expansion ends |
| TCP/UDP/SYN scanners (`tcp_scanner.rs`, `udp_scanner.rs`, `syn.rs`) and the port task (`tcp_discovery.rs`, `udp_discovery.rs`) | a window of sockets or a shared cursor over ports, per-port results, pacer | connect, poll, retry, conclude; worker threads claim, probe, merge | cancellation, deadline and descriptor shortage between any two steps; late and duplicate answers | every port has one verdict or is counted unscanned |
| Host discovery, DNS, services (`host_discovery.rs`, `dns.rs`, `service_probe.rs`) | records of probes, the DNS query registry, a wave of probe threads | probe in turn, follow aliases, listen then ask | a claim by a task that gave up, a resume, an answer cut off | each state follows from records; each query is made once |
| Fingerprints, OS, devices, vulnerabilities, analysis | in-memory values | pure functions with caps and vetoes | numeric edges, cuts, order of rules | conclusions are justified by what was seen |
| Web stages (`crawl.rs`, `baseline.rs`, `content.rs`, `fuzz.rs`, `web.rs`, `contact.rs`) | contact registry, baselines, budgets | request, follow redirects, propose | claim-then-act, resumes, redirects out of scope | nothing is requested twice for a purpose; allowances hold |
| Investigation (`investigate.rs`, `exposure.rs`) | a queue of transforms, an evidence graph, accounting | expand a seed, ask providers, cross to the network | budgets and cancellation in the middle; forged registry data | all it did is accounted for, all it found is explained, it contacts only what was authorised |
| Evidence graph (`graph.rs`, `graph_view.rs`) | entities, edges, a paged view | add within bounds, join, cluster, filter | caps and cuts | the graph is what the events said; a view is a part of it |
| Pacing (`pacing.rs`) | window size | suggest | rounding, zero | between 1 and the window |
| Monitor (`monitor_run.rs`, `monitoring.rs`, `diff.rs`) | schedule, newest checkpoints, alert sinks | scan, keep, compare, tell | partial scans, a failing sink, a kill between any two files | what is told is confirmed, of consecutive scans, in the order of the sinks |
| CLI, terminal, reports, platform, app shell, extensions | none shared | parse, print, call the system | - | out of reach of a model checker |

`PROJECT.json` lists each component with its sources and status, and the
hazards with the line where each bites and the properties that cover it.

## Modules

Each module models one part, with one action per step between two points where
something else can act. Where a definition models code, `PROJECT.json` gives
the lines. A definition marked "A bug" is a mutant: the same definition as a
plausible mistake would have it, used only to see that a property notices.

| Module | Models | State and actions |
|---|---|---|
| `Scheduler` | `execution.rs`, admission in `run.rs` | One action per step of `Scheduler::run`; `pc` names the place in the loop (`top`, `promote`, `dispatch`, `requeue`, `wait`, `drain`, `sweep`, ...). `workers` and `inbox` are the threads and the channel. |
| `TaskLifecycle` | what the scheduler promises about a task | `state` and `attempt` only; one action per move. `Scheduler!ImplementsLifecycle` is the refinement. |
| `ServiceProbe`, `FingerprintMerge` | `service_probe.rs`, `service.rs`, `fingerprints.rs` | One probe task: greeting, mail question, the wave of threads, its conclusion; loading packs and merging their candidates into it. |
| `OsInference` | `os_active.rs`, `os_fingerprint.rs`, `device.rs` | The bounded active probes, then classification with vetoes and ceilings. |
| `GraphBuild`, `GraphView` | `graph.rs`, `graph_view.rs` | Events become entities and edges within bounds; a reader's bounded view. |
| `WebFetch`, `Crawl` | `web_probe.rs`, `web.rs`, `crawl.rs` | One web probe task (redirects, addresses, bounded reads); one crawl task (documents, references, candidates). |
| `ScanRun`, `Analysis` | `run.rs`, `vuln.rs`, `analysis.rs`, `report.rs` | The stages of a run with what each leaves behind, and its vulnerability dataset (`VulnSpec`); the signals of a saved scan. |
| `UsernameSearch` | `search.rs` | Validation and planning of providers, the pinned client, classification, import. |
| `ProbeSweep` | what every port scanner promises its caller | A port gets at most one verdict; the closing report accounts for all. |
| `ConnectSweep`, `UdpSweep`, `SynSweep` | `tcp_scanner.rs`, `udp_scanner.rs`, `syn.rs`, `pacing.rs` | The polled windows, retries, cancellation, deadline; the raw SYN sweep with its pacing and fallback. `ConnectSweep!TcpSweep` is a refinement of `ProbeSweep`. |
| `PortPool` | the portable thread pools | Threads take ports from one queue and add to shared results; a refinement of `ProbeSweep` as well. |
| `PortTask` | `tcp_discovery.rs`, `udp_discovery.rs` | The task around the sweeps of its addresses. |
| `HostProbe`, `DnsProbe` | `host_discovery.rs`, `discovery.rs`, `dns.rs` | Candidates and mechanisms in turn; tasks that share the query registry, saved and restored. |
| `SearchScheduler` | `search.rs` `run_with_progress` | The waves of a search: one action per turn of the loop and per step of a wave's thread. |
| `Expansion` | `level.rs`, `lowering.rs`, `decision.rs`, `dns.rs` | Lowering of a plan, then the rules of the decision engine, until nothing waits; a task that resolves a name first takes its place in the domain and its queries (`Resolve`). |
| `WebSurvey` | the web engines of `decision.rs`, `contact.rs`, `crawl.rs`, `baseline.rs`, `content.rs`, `fuzz.rs` | Tasks of one origin, side by side, with the contact registry and a resume. |
| `Investigation` | `investigate.rs`, `exposure.rs` | The queue of transforms, the exposure lookup, the network bridge. |
| `JobStore` | `web_api.rs` jobs, workers, streams, shutdown | One action per critical section of the store's mutex, and one per read of an atomic flag outside it. |
| `TempFile` | the file system under write-temp-and-rename | Entries name inodes; `Opens` truncates the inode behind an existing name, `Writes`, `Closes`, `Removes`, `Renames`. Shared by the next three. |
| `Cell` | what a replaced file promises | One `Put`. `OutputFile!ReplacesAtomically` is the refinement. |
| `Checkpoint` | `run.rs` load, restore, run, save; `persistence.rs` | A process is idle, `ready` (a scheduler is restored or planned), `ended`, `created`, `written`, `sized`. `Kill` and errors are actions. What `run()` does is one action per task: `Scheduler` has the detail. |
| `ProjectFile` | `project.rs` create, import, save | `load -> add_scan -> check -> create temp -> write -> rename`, each step interleaved with other processes. A project is the sequence of scans imported. |
| `OutputFile` | `AtomicFileWriter` of `output.rs` | As above, with a temporary name per process. |
| `ProjectHistory`, `Monitor` | `project_db.rs` and who writes it; `monitor_run.rs`, `diff.rs` | One action per transaction, or per file written and alert told; kills between. |
| `MCScheduler`, `MCTasks`, `MCNetwork`, `MCFiles`, `MCDecisions`, `MCHistory` | the instances TLC runs | `focus` says which component a behaviour is about: the others stay at their beginning, so the state spaces add up instead of multiplying. |
| `QueueLemmas` | lemmas about sequences, finite sets and induction | Used by the proof modules. |
| `SchedulerProofs`, `NetworkProofs`, `DecisionProofs`, `FileProofs`, `HistoryProofs`, `TaskProofs`, `RunProofs` | theorems | see below |

Composition: `Checkpoint`, `ProjectFile` and `OutputFile` extend `TempFile`;
`OutputFile` instantiates `Cell`, `Scheduler` instantiates `TaskLifecycle`,
`ConnectSweep` and `PortPool` instantiate `ProbeSweep`. Components that share
no state meet at what they promise: `Checkpoint` relies on `run()` returning
with every task final (`RunExact` of the scheduler), `JobStore` on the run a
worker calls returning (`RunReturns`), `PortTask` on the sweeps' verdicts,
`Crawl` and `UsernameSearch` on the registries and waves of `WebSurvey` and
`SearchScheduler`.

### Abstractions worth knowing

* `Scheduler`: time is `clock` (open, closing, passed), `overdue` (running
  tasks past their own timeout) and `delayed` (retries whose delay has not
  elapsed). Modules are their answers (`ok`, `cancelled`, `retryable`, `fatal`)
  or a panic, which sends nothing. A module answers `cancelled` only when its
  token, its deadline or the global one told it to (`ToldToStop`). Evidence is
  its size. The scope guard may narrow during a run in `tasks`, as the flipping
  guards of `tests/phase5_discovery.rs:974` and `tests/phase8_web.rs:1169` do;
  in `scheduler_core` it does not. The caller's `cancel_task`, `cancel_all`,
  `drain_pending` and `request_shutdown` take `&mut self` and so only run
  before `run()`.
* `TempFile`: an inode's content is a whole document or `Torn`. A writer whose
  inode somebody else opened or wrote meanwhile may leave either.
  Power loss is left out (the code does not sync the directory, and
  `docs/THREAT_MODEL.md:153` says so): after a kill the machine stays up.
* `Checkpoint`: a document's size is the number of outputs in it. `SavesEarly`
  lets a caller save a scheduler it has not run, as
  `tests/phase14_persistence.rs:1112` does; the shipped caller does not.
* `JobStore`: a scan ends with one of the termination reasons that
  `spawn_scan_worker` maps to a status; a job's events are their number and
  whether they are terminal.
* `Expansion`: a name is one query at each name on its way (the record types of
  a name ask alike, and every query is answered; `DnsProbe` has them one by one
  and failing), and the way of a name is given by the world.
* `WebSurvey`: an address always answers alike, so the response signatures in
  the identity of a fuzz task are those of its address and are left out; the
  endpoint whose baseline led to it is kept.
* The modules about rules (`Expansion`, `Investigation`, `GraphBuild`,
  `Analysis`, `ScanRun`, ...) take a *world*, a record of what there is to
  find, and model what the code makes of it. Names, pages and banners are
  members of small sets; what a matcher or a parser reads from them is a field
  of the world. A world that a run uses is in the run's MC module.

## What the runs check

Each run is listed in `PROJECT.json` with its properties, and each property of
a passing run has a mutant there: a plausible bug in a mapped definition under
which TLC finds the property violated in the same run.

Most runs check several components by `focus`, and many of their properties are
conjunctions of one part per component (`TasksWithinBounds`,
`ConclusionsJustified`, `NetworkWithinBounds`, `PortsExact`,
`DecisionsWithinBounds`, `DecisionsEnd`, `DatabaseExact`, `MonitorExact`). Only
one mutant of each is listed; every part has been broken by a mutant of its own
module while it was written.

| Run | Bounds | Shows |
|---|---|---|
| `scheduler_core` | 3 tasks (2 planned; 2 proposed, of which 1 is a duplicate), 2 kinds, 2 slots, 1 port slot, queue of 1, 1 retry, evidence of 1 | slots, caps, queue, ledger, answers, verdict, drain; the refinement of `TaskLifecycle` |
| `tasks` | scheduler: 4 tasks of 3 kinds, one without a module, module budgets, caller operations, a narrowing scope, fair. Conclusions: 4 service tasks against 5 servers; 7 fingerprint packs in 2 files, 2 candidates, 1 alternate; 2 host lists by 2 rule sets with 2 active probes; 5 graphs of up to 11 entities and 11 edges; 4 web tasks, bodies of 2, 2 dials; 216 combinations of run options and budgets; 5 vulnerability datasets, versions of up to 3 parts; 12 saved scans; up to 4 username providers on 3 hosts; views of 7 entities and 7 links; crawls of 2 starts, 2 links, 2 scripts, 2 sitemaps | each task is reported once, dependencies first, nothing out of scope, `run()` returns; every conclusion follows from what was seen, every bound holds |
| `network` | TCP: 3 ports, window 2, 1 retry; UDP and SYN: 2 ports, window 2, 1 retry; pool: 3 ports, 2 threads, 1 retry; port task: 3 addresses, 2 of them scanned, 2 ports; host: 2 candidates, 1 echo, 1 door; DNS: 3 names, 2 hops, 2 queries per domain, registry of 3, 1 resume; search: 6 providers of which 5 fit the cap, 2 hosts, 2 threads, per-host limit 0 (taken as 1); fair | every port, query and provider is counted once in every order of answers, cancellations and shortages; states follow from records; two refinements of `ProbeSweep`; what the code bounds ends |
| `decisions` | 10 plans (4 addresses, 2 names, 2 SANs, 2 failures; 1 name per domain at level 1 and 2, else 2; 1 domain); 4 sites of 3 URLs, 2 tasks at a time, 1 resume; 6 investigations, 1 unanswered request; 2 jobs, 1 may run, 1 stream, 4 connections, 2 events; fair | the order of answers does not matter but for the names that are heard; nothing leaves the scope; contacts are single; an investigation is accounted for, explained and authorised; outcomes are final, streams deliver the end unless it was pushed out, everything ends |
| `files` | 2 processes, 5 inodes, 4 output scans, 5 project commands of 3 scans; 3 runs of a plan of 2 with 2 follow-ups, budget 3, room for 2 outputs | imports kept as long as saves do not overlap; resume, budget, evidence; the refinement of `Cell` |
| `history` | 3 works of 2 writers, each with one of 5 outcomes; 2 monitor schedules of 2 scans out of 5, thresholds 1, 2 and 1, file and webhook | entities agree with runs, removals were looked for, alerts are confirmed and in order |
| `scheduler_verdict`, `project_unraced`, `jobstore_stored`, `expansion_chains`, `inquiry_clean`, `history_blocked` | | disagreements, see below |

Why these bounds are enough to be interesting: in `scheduler_core` a task can
be reaped and answer late while the other holds or frees the only port slot, a
retry competes with a follow-up for the queue's one place, and every budget can
be exhausted or not. In `tasks` three tasks of one kind make the fairness of
the window defer, and requeued tasks meet new ones. Three ports in a window of
two leave one to be claimed after an answer; with one retry a port is silent,
retried and given up. Three names with two hops make an alias of an alias, and
a registry of three can be full. A torn project takes two processes; losing an
import without an overlap takes a creation, two saves that overlapped and one
later save, hence four commands; by a create that starts the revisions anew it
takes five and three scans, as `files` has. A resume of a resume
(three starts) is where a budget or an output would leak. With `MaxEvents = 2`
and four connections the event buffer drops, and two cancellations announced
after the end push the terminal event out before the stream polls. The worlds of `decisions` contain a cycle of
certificates and names, a name out of scope, a range cut by the host budget,
hosts that answer differently, a
domain with more names than its limit (of which the first are resolved), a table
of domains that is full, and two names with an alias in common. On one of the
sites an endpoint redirects to another, so that one plan to fuzz becomes two
tasks. One of the five outcomes of `history` is a scan that was
cut short after its ports had been looked at.

Deadlock is checked in `scheduler_core`, where the returned run stutters
explicitly. It is off where the system may stop: when all commands, scans or
connections of the bound are used up, or the one task of a behaviour has ended.

### Disagreements between the code and its documentation

Six runs end in a violation; each checks one property that states what a
comment or document says. They are listed under `findings` with both sides
quoted:

* `scheduler_verdict`: a user's cancel can be reported as `GlobalDeadline`.
* `project_unraced`: after two saves overlapped (they share one temporary
  name), a later, lone save can drop an import.
* `jobstore_stored`: the job store never evicts, because `order` is never
  filled.
* `expansion_chains`: the depth of evidence starts anew at every port, so
  chains go past `MAX_DISCOVERY_DEPTH`.
* `inquiry_clean`: an exposure provider that was never asked is reported as
  knowing nothing.
* `history_blocked`: two promises in one run. An account behind a blocked
  provider is stored as removed (`BlockedIsUnknown`), and so is what a scan that
  was cut short missed (`TruncatedIsUnknown`): `diff_scan_runs` reads the
  coverage of a run but never its `truncated`. The run checks
  `AbsenceStaysUnknown`, the disjunction of the two, so that its behaviour has a
  removal against each.

Further behaviour of the code that the models follow, that differs from a
comment or a document, or that a caller may not expect, and that has no run of
its own:

* Scheduler: the fairness rule also defers when no other kind waits; a task that
  overflows the evidence budget is counted as admitted and as not admitted; work
  that was interrupted is saved as Cancelled, so a resume never picks it up.
* Server: a job created after the shutdown's cancellation pass runs on. A
  terminal event is pushed out of the buffer by as many late cancellation events
  as the buffer holds (200), if that many requests are between flag and event
  (`web_api.rs:3806-3807`; each connection has a thread, and nothing limits
  them) when the job ends. The stream then ends without it. This is the
  exception in `StreamSeesTheEnd`, and `decisions` reaches it.
* Fuzzing: `docs/CONFIGURATION.md:132` says "at most two fuzz tasks per origin"
  (four, eight at higher levels). `FuzzOriginBudget` counts plans and grants a
  known one again (`fuzz.rs:150-153`), and the task's id has the source endpoint
  and the baseline's signatures in it (`decision.rs:1618-1641`): a URL and one
  that redirects to it lead to two tasks for one plan. `FuzzWithinBudget` bounds
  the plans; `decisions` reaches more tasks than plans.
* Expansion: of a domain with more names than `per_domain_limit`
  (`dns.rs:161-168`), and of names whose aliases meet, the first to be asked for
  are resolved and the others complete without a record. Which hosts a scan
  finds then depends on the order in which its tasks run.
* Project: overlapping saves can leave a torn file. `project create` replaces a
  project without looking (`project.rs:1078`), and its revisions start anew, so
  that a command which loaded the old project can find its revision again and
  drop what was imported in between. In the database a scan's
  import commits before its intelligence, changes and attention, although
  `project_db.rs:15-17` says "atomically"; the posture of a port replaces the
  port's own intelligence row; `previous` is the last other run by finishing
  time, of any workflow; repeated `project-db diff` stores duplicates.
* Monitor: a partial scan's checkpoint becomes the next baseline
  (`monitor_run.rs:334-343`); the coverage of a comparison has no host
  dimension (`docs/CONFIGURATION.md:162`); an alert is lost when its webhook
  fails before the process is killed; console alerts come when the schedule
  ends.
* DNS: a registry that was full forgets, on resume, the queries it let through
  unclaimed; a query cut by the task's timeout keeps its claim.
* Scanners: `attempted_ports` lists all requested ports of a truncated scan
  (`tcp_discovery.rs:825-832`); with several addresses `ports_requested` counts
  once and `unscanned` per address.
* Services and fingerprints: a portless TLS fact goes to a host's single TLS
  port of any host (`run.rs`); candidates are cut to 4 in rule order before
  their strength is looked at; one duplicate id empties the whole database.
* Web: a body cut by the clock is reported whole and one exactly at the cap as
  cut (`web.rs:20-22`); frames become candidates although "images/frames are
  recorded, never fetched" (`crawl.rs:225-227`); error pages are mined.
* Search: a body that times out at the deadline is an error, not unscanned; a
  429 from a provider that signals absence by address says "not found".
* Analysis: `signals_truncated` ignores the cut to `top_signals`; the summary
  counts drafts before they are merged; the cut at `max_signals` is in
  insertion order.
* Graph view: the seeded load from the database walks depth first with nodes
  marked when first pushed, so it can miss nodes within the depth although it
  is called "seed-centered BFS" (`graph_view.rs:460`), and caps on that path
  never set `truncated` (`graph_view.rs:809-811`).
* Investigation: failed fetches are not charged to the budgets, one transform
  can exceed what is left (`investigate.rs:158`), and depth over URLs differs
  from depth over domains (`investigate.rs:35-37`).


### Fairness

* `Scheduler!FairSpec` (in `tasks`): the thread in `run()` keeps running
  (`WF(Step)`): every wait of the loop has a timeout of at most 50 ms
  (`next_wait_timeout`), so it never blocks for good. Time passes for task
  timeouts and retry delays. No answer of a worker, no deadline and no cancel
  is assumed.
* `ConnectSweep!TcpFair`, `PortPool!PoolFair`: the scanning thread runs, and a
  pool thread's blocking call returns (it has a timeout).
* `SearchScheduler!FairSpec`: the calling thread runs, and a wave's thread ends:
  its request has a timeout, and a panic is caught when it is joined.
* `Expansion`, `WebSurvey`, `Investigation`: a task that waits is run at last,
  which is what `RunReturns` shows of the scheduler and the loop of
  `investigate.rs` does by itself.
* `JobStore!FairJobSpec`: a job's thread is scheduled and the run it calls
  returns (a search is bounded by its deadline), and an open stream is polled
  every 200 ms. A panic inside a worker is not modelled, and would leave its
  job Running.

In a composed run each condition is guarded by its `focus`: it says nothing of
behaviours about another component.

## What is proved

All theorems hold for every value of the constants that satisfies the
assumption of the module: `SchedulerAssumption` (the plan's maps have the right
domains and the capacity is positive), `SearchConstants` (limits are natural
numbers, every provider has a host), the assumptions of the sweeps, of
`HostProbe` and of `DnsProbe` (finite sets of ports and names, natural limits),
`FileConstants` and `OutputConstants` (enough inodes; each process has a
temporary name of its own, as the process id in it gives), `JobConstants`
(finitely many jobs, natural limits, and at least one event is kept),
`ExpansionAssumption` with `WorldAssumption` (finitely many hosts and names; a
domain has room for one name and the table for one domain; a world's answers are about
them; the first tasks of its plan fit into the task budget, and the budget for
hosts is positive, as `validate` demands), `ContactsAssumption` and
`SurveyAssumption` (finitely many addresses; a site's pages, links and
candidates are addresses), `InvAssumption` (what the outside may answer about
each kind of entity names entities of the kinds that answer can contain),
`ThresholdsAssumption` (the command line's thresholds are numbers) and
`OutcomesAssumption` (an entity is neither a relationship nor a match of an
advisory; what an investigation looked into is in its graph; no task of a scan is
one of the modules entities are credited to), `FetchAssumption` (a read returns no
more than a body may have; the addresses of a name are sorted and different, as
`resolve_web_addresses` leaves them), `CrawlAssumption` (a site has a document for
every URL in scope that another names), `UsernameAssumption` (finitely many
providers, natural limits), `ServiceAssumption` (a port suggests what the
registry of probes knows, a level is 1 to 5), `FusionAssumption` (finitely many
pack files; a rule has passed the checks of `validate` on its fields, ids need not
be unique; a built-in finding has a confidence of at most 95, and an unclassified
service no product), `OsAssumption` (a rule pack passed `validate`: its ids are
unique, caps and weights within their bounds), `RunAssumption` (finitely many
tasks, outputs made of records with a size), `VulnAssumption` (a version is made of
numbers and texts, an advisory's range of one of the five comparisons) and
`GraphAssumption` (an event is one of those the graph takes in; a port, a service,
a certificate or a key was seen at an address; and a service's confidence is at
most 95, which is what `FusionTypeOK` says of a merged conclusion).

`SchedulerProofs`:

* `TypeCorrect`, `SlotsStayWithinCaps`, `QueueIsExact`, `DrainIsFinal`: the
  counter `active` of `run()` is the number of Running tasks, at most the
  effective concurrency, and no kind passes its cap; the Ready tasks are those
  in the queue or stashed by the window, each once, and what was popped always
  fits back; a shutdown, once it has cancelled the queue, lets nothing in again.

  Their invariant is `SafetyInv == TypeOK /\ QueueInv /\ SlotInv`. `RequeueFits`
  alone is not inductive: what a promotion pass may add is bounded only because
  the window is closed while it runs (`deferred` is empty outside of
  `dispatch` and `requeue`), and a promoted task is new to the queue only because
  the candidates of a pass stay Pending. `SlotInv` counts each kind's Running
  tasks and relies on `QueueInv` for "the head of the queue is Ready".

`SchedulerProofs`, what the scheduler does with each task:

* `SchedulerImplementsLifecycle`: every step of the scheduler is a step of
  `TaskLifecycle` or leaves it alone.
* `AttemptsAreExact`, `LedgerIsExact`: each attempt is answered at most once, by
  its own worker or by the clock, and what is charged to the ledger is the sum
  of what was admitted and kept.
* `NothingStartsLate`, `CompletedReportsAreWhole`, `RunIsExact`: nothing starts
  once the deadline or a cancellation was seen, or out of scope; a run that
  reports `Completed` left nothing undone; every admitted task is in exactly
  one list of the report, dependencies first, in the queue's order.

`NetworkProofs`:

* `PortsAreExact`, `NetworkStaysWithinBounds`: the TCP, UDP, SYN and pool
  sweeps and the port task account for every port, within their windows. The
  inductive invariants (`TcpInv`, `SynInv`, `UdpInv`, `PoolInv`, `TaskInv`)
  say how the ports are shared out between the queue, the window or the
  threads, and the verdicts; for the pool, that the number of ports left is
  that of the ports given up, and that the flag is raised only where one was.
* `ConnectScanKeepsPromise`, `PoolScanKeepsPromise`: refinements of
  `ProbeSweep`; a step of the window maps to several verdicts at once, which
  `Settle` allows, and the end of the scan to `Close`.
* `LateAnswersCount`: an answer that comes after its port was retried still
  decides it. `HostStatesAreJustified` (`HostInv`): the state of a host follows
  from the records kept. `QueriesAreExact` (`DnsInv`): no query is made twice,
  across aliases, given-up tasks and a resume.

`NetworkProofs`, the waves of a username search:

* `SearchIsExact`: accounting, waves within their limits, one contact each, a
  stop within one wave, and completeness.

  What it rests on is `PlaceInv`: a provider is in at most one of `pending`,
  `deferred`, the wave and the observed ones, and which of these can be nonempty
  depends on `pc`. Without it a thread could be started twice for one provider
  and the sum of the counters would not move by one. `ContactInv` adds that a
  contacted provider is in no list again, and `StopInv` that a late wave finds
  the loop leaving at its next look.

`DecisionProofs`, the jobs of the server:

* `JobsStartWhenAllowed`, `OutcomesAreFinal`. `WorkerInv` ties a job's status to
  the place of its worker; `Steps` lists what any of the server's steps may do
  to status, worker and flag, and `StepsCover` shows that the list is complete.
* `StreamsDeliverTheEnd`, for any number of connections. `EventsInv` says that
  the events kept are the last ones, numbered without a gap (`Numbered`), and
  that the terminal event is among them unless as many came after it as are kept
  at all; `StreamInv`, that a stream has seen the terminal event if its cursor is
  past it, unless it got there by a gap of that size. The exception stays in the
  property because nothing in the code limits how many handlers are between the
  flag and the event.

`DecisionProofs`, the expansion of a plan:

* `ExpansionStaysInScope`: every rule asks the scope again, and so does the
  lowering (`LoweredPermitted`, over the recursion of the host budget).
* `ExpansionIsConfluent`: in whatever order tasks complete, fail and make their
  claims, those admitted at the end are the ones evidence reaches from the first
  tasks without the names that were not heard, and there is a reason for each of
  these. `TreeInv` says that every admitted task is a first one or the follow-up
  of one that completed and was not silent, and that every follow-up of such a
  one is admitted unless the budget cut. `NamesInv` says of the registry that
  what was asked for is on the way of a name that counts, that a name that counts
  was heard by a task or shares its way with another, and that a task which was
  refused its place can never have it (`RefusalsStay`: the names of a domain, and
  the domains, only become more). `SameName` lets a task that heard stand for
  another of its name; `ShallowFollowUps` is why the lineage a task happened
  to get does not matter (at a service or a name it is below the limit, which
  needs `MaxDepth >= 2`). `RoundsAdmitted` and `RoundsCover` compare the result
  with `Reached`, which is defined by rounds, by induction over the rounds.

`DecisionProofs`, the survey of a web origin and the bounds of all that decides:

* `ContactsAreExact`. `WebInv` says that a task is in one of three places
  (`TasksInv`); that what the registry holds was requested, once as long as it
  is not full, and that a registry answers from its claims alone, whatever
  purpose it remembers an address for (`FetchedInv`, `GrantedByClaims`), which
  is why one that was restored decides as the saved one did; and that each plan
  to fuzz has its place in the budget (`BudgetInv`).
* `DecisionsStayWithinBounds`. For a crawl the bound on its tasks is not
  inductive: a crawl that waits may still lead to others. `SharesInv` counts
  shares instead: a crawl that has not ended stands for its whole allowance, one
  that has for itself, and `ChildShares` (from `FollowupShares`, which needs the
  division: `take * (remaining \div take) <= remaining`) shows that what a crawl
  gives up when it ends is enough for itself and its children. For the ranges
  of a plan, `LoweredFew` follows the room for hosts from target to target,
  by induction over the recursive function `room`; `DepthInv` says that no
  admitted task is deeper than the limit.

`DecisionProofs`, the investigation:

* `InquiriesAreExact`, `InquiriesAreExplained`, `PivotsStayAuthorized`. Their
  invariant `InquiryInv` says of the graph (`GraphOK`) that the accounts of
  transforms, contacts and budgets add up and that relationships are between
  found entities; that what was found was looked at, or is queued, unless
  something was cut and said to be (`WholeIn`); and that any set that holds the
  seed and is closed under relationships holds every entity, unless a
  relationship was refused (`RootedIn`), which says that a path exists without
  naming one. `ExposureOK` counts the lookup's providers; of the bridge it
  says that each address it may go to came out of a relationship of the graph
  and is in the authorised scope. What a transform brings in is *tied*
  (`TiedTo`, `TiedFlat`): each new entity comes with a relationship to it from
  one that was there or came before, so that the admission by prefixes, under
  the two budgets, keeps the graph connected.

`FileProofs`, the three files that are replaced as a whole. Its assumption
(`FilesAssumption` of `MCFiles`) says that tasks and scans are finitely many,
that a plan and its follow-ups are tasks, and that the marks for an absent or a
torn file are no documents.

* `OutputStaysWhole`, `OutputImplementsCell` (a refinement). `OutputInv` says
  that no inode has two names (`OwnInodes`) and what a process holds at each
  place of its scan (`Holds`). It rests on the temporary name of its own that
  each process has, which is what the project file lacks: with one name two
  writers share an inode.
* `SerialSavesKeepImports`: the project file is whole and holds every reported
  import, as long as no two saves overlap and no create starts over what another
  command had loaded. `ProjectInv` says, of a behaviour in which neither has
  happened, that one process at most is in the blind part of a save and the
  temporary file is its own (`Alone`), and that what a command loaded is still
  the beginning of what the file holds (`Current`), so that equal lengths
  (revisions) are equal projects. The second condition came out of this proof:
  without it `Current` is not inductive, and TLC confirmed the behaviour (five
  commands, three scans: see "Further behaviour" above).
* `CheckpointAlwaysResumes`, `EvidenceIsNotLost`. `CheckpointInv` says that what
  is at the path is `Resumable` and not oversized, what the temporary file holds
  at each place of a save (`SaveHolds`), and of the run in memory (`RunKeeps`)
  that its tasks are charged, that what is kept is the output of tasks that
  succeeded, and that what the resumed checkpoint holds as final is as it was
  and has not run. `RestoredOutputs` drops the output of a task that did not
  succeed, so that no evidence is lost needs the clause about outputs of every
  document, not only of the last.

`HistoryProofs`, the memory of a project:

* `AlertsAreExact`. `MonitorInv` says that the files are numbered without a gap
  (`Contiguous`), at which file each schedule is at each of its places
  (`Placed`), what of its alerts the sinks already hold (`Sunk`), and, of a
  behaviour in which no two schedules ran at a time, that the one that runs goes
  on where the directory ends (`Follows`). That what is told was looked for is
  a lemma about two checkpoints (`ConfirmedIsAbsent`), with one step per kind
  of task that can look for an entity: where `diff.rs` asks for more than one
  kind, `Absent` asks for each.
* `DatabaseIsExact`. `RunsInv` says that what is stored of a run is what it came
  to, before its postures or with them (`Stored`), and `JobsInv` what each
  process knows at each step: that the rows it compared justify every removal it
  holds (`Sound`), that every removal that is due is among them (`Whole`), and
  that neither is undone by what other processes write between its transactions.
  The postures are the reason why both need the stored form of a run: they are
  rows under the id of their port, stored last, so that a comparison may read
  them of one run and not of the other. `GoneIsMissed` and `DueIsGone` are the
  two directions for one comparison.

`TaskProofs`, single tasks that answer to the outside, as theorems of their own
specifications (`MCTasks` composes them for TLC):

* `FetchIsSound` (`FetchTypeOK`, `FetchSound`). `FetchInv` says that the URLs a
  chain has visited are one more than its redirects from the moment addresses are
  at hand until the answer is interpreted (`ChainOK`), that the requests of the
  present hop come last and for addresses not tried yet (`ContactsOK`), and that
  a start is still to be taken, is at hand, or something was said of it
  (`StartsOK`).
* `CrawlIsSound` (`CrawlTypeOK`, `CrawlSound`). `CrawlInv` says of every job on
  the agenda and at hand which document named it (`Named`), of every request
  that its URL and purpose are claimed, and of every script and sitemap to be
  read that it was asked for, noted, on the agenda or at hand before its first
  redirect (`Handled`). The bound on sitemaps counts the requests through the
  rows the manifests leave (`PermittedRowHas`, `UnionFew`).
* `UsernameSearchIsSound` (`UsernameTypeOK`, `UsernameSound`). The invariant says
  of each flight that it has made a request for each redirect it followed, to
  public addresses over HTTPS (`FlightOK`), and of what is said of a provider
  that the page it was read from bears it out (`SaidOK`).
* `ServiceIsSound` (`ServiceTypeOK`, `ServiceJustified`). `ServiceInv` says that a
  probe is still to be looked at, in the wave, or has its socket, and only one of
  them (`ServiceRows`), so that each connection takes one off the plan
  (`ServiceBudget`); that until the wave is over its answers are of different
  probes of it (`ServiceWave`), which is why asking for the answer to each probe
  of the plan in turn, and not in the order they came, finds them all; and that a
  greeting stays on its way into the conclusion, as the passive probe still to be
  judged or as the first banner kept (`ServiceKept`). That no probe of a plan is
  named twice is proved of `FirstOf` by induction over the plan (`FirstOfDistinct`).
* `FusionIsSound` (`FusionTypeOK`, `FusionSound`). `FusionInv` says that each file
  read was accepted or counted, that a loaded database is the union of the
  accepted packs with no id twice (`RuleSet`), and that a conclusion is what
  `finish_observation` makes of it. `ConcludedIs` derives the promises, whatever
  was observed: the rules of a database are linearly ordered by id and by strength
  (`RulesOrdered`), the first n of a linear order are at most n and all of them
  when they are fewer (`LeadingFew`), and calibration never lowers a confidence of
  at most 90 (`CalibratedIs`).
* `OsIsSound` (`OsTypeOK`, `OsSound`). `OsInv` says that only the host at hand has
  been probed among those still to come, and its connections and the ports left
  are at most the cap (`OsBudget`), that a host probed or at hand is allowed
  (`OsAllowed`), and that whatever there is evidence of was noted or will be
  (`OsNoted`). What a report says then follows from lemmas about the rules:
  `FamiliesJustified` for any evidence, and `FamiliesGrow` for more of it, which
  needs that `confidence_for` grows with the kinds and the weight of what was
  matched (`ConfidenceGrows`) and that the ids of a database are unique (`OsDbIs`).

`RunProofs`, a run and what it concludes:

* `RunIsSafe` (`RunTypeOK`, `CheckpointLast`, `WholeOrMarked`). `RunInv` says for
  each stage which rows are in the project and that what was written so far is the
  beginning of the stream that those rows give (`PrefixGrows`), cut at the first
  record that does not fit. That the bytes written are the sum of the sizes is an
  induction over the stream (`BytesAre`).
* `VersionOrderIsSound` and `MatchesAreJustified` (`VulnTypeOK`, `VulnSound`). Two
  versions are told apart at a first place or nowhere (`FirstAt`), and what is
  decided there is a `Verdict`; three versions have to be compared at the smaller of
  two such places. For a match, each bound of a range is judged by the order of two
  versions (`Requires`), and the candidates' order is linear (`RanksAre`: in a finite
  linear order there is one member of each rank).
* `GraphIsExact` (`GraphTypeOK` and `GraphSound` without `PathsShortest`). Everything
  the graph does is a sequence of two operations, so `GraphInv` is kept by each
  operation (`PerformKeeps`, an induction over the sequence): the graph only grows
  unless it says it is cut, an edge keeps its ends, scope and the greatest
  confidence. `JoinIs` says what the joins of pages and ports add, for any order of
  the events, and `SansOnlyNoted` needs of each step only the kind of its ends.

`QueueLemmas` holds what several of them need: popping and appending, finite
sets, and induction. The library's induction theorems take an operator as a
parameter, which the provers cannot instantiate; `SetInduction` states
induction for a set of numbers instead, and follows from the well-foundedness
of the finite sets. With it the existence of a recursive *function* and what it
computes can be proved (`RoundsExist`, and `Recursion` of `TaskProofs` for any
base and step), which is why the modules with theorems
use recursive functions and no RECURSIVE operator.

Model-checked only: liveness (`RunReturns`, `NetworkEnds`, `DecisionsEnd`,
`JobsEnd`), which the provers do not reach; and of `TasksWithinBounds` and
`ConclusionsJustified` the parts about the analysis of a saved scan and the view of
a graph, the summaries of a run (`CoverageExact`, `RowsFollowFacts`, `VulnsRun`) and
`PathsShortest`.

## Not modelled

Wire formats, HTTP and HTML parsing, signatures, printing, option parsing,
platform calls and the browser and Android shells: I/O or string work without
shared state. Within the modelled components: the field-by-field validation of
a checkpoint, the server's project and graph routes, entity extraction of the
investigation, document formats, hypotheses and the ARP engine, certificate
logs and RDAP packets. SQLite itself: a transaction is one step. Power loss.
The interactive terminal (`terminal.rs`) and the command line (`main.rs`)
choose what is run and print what came of it; nothing in them is shared with
another thread. `PROJECT.json` gives the reason for each component.

## What is left

* Proofs of the other parts of `TasksWithinBounds` and `ConclusionsJustified`.
* The server's graph and project routes, and the renderers' own limits.
