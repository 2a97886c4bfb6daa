------------------------------ MODULE Monitor ------------------------------
(* Scheduled monitoring (src/src/monitor_run.rs, `rxscan monitor` of         *)
(* main.rs): a schedule scans again and again, keeps each scan's checkpoint  *)
(* in its state directory, compares it with the one before (diff.rs), and    *)
(* tells of what it is sure of: in a file, to a webhook, and on the console. *)
(* Several schedules may use one directory, each may be killed, and cancelled *)
(* or broken off by a failing scan or sink.                                  *)
(*                                                                           *)
(* A checkpoint is what a comparison reads of it: its targets, scope and     *)
(* level, its tasks [kind, state, asked], and its assets, relationships and  *)
(* findings, each <<type, key>> with its value. What a task asks for is a    *)
(* port, a record type, a depth or a parameter. An asset's key begins with   *)
(* its kind, a port's goes on with its transport and number.                 *)
EXTENDS Naturals, Sequences, FiniteSets

CONSTANTS
  Scans,       \* the checkpoints a scan may end with
  Repeat,      \* --repeat
  ToFile,      \* whether there is an --alert-file
  ToWebhook,   \* whether there is a --webhook
  Thresholds,  \* [added, removed, changed], zero for never
  MaxSchedules \* bound: times `rxscan monitor` is started

\* The command line's thresholds are numbers.
ASSUME ThresholdsAssumption == Thresholds \in [added : Nat, removed : Nat, changed : Nat]

VARIABLES
  mfiles,    \* the state directory: [indices -> checkpoints]
  msched,    \* the schedules in the order of their start
  malerts,   \* the alert file
  mposted,   \* alerts the webhook accepted
  mshown,    \* alerts shown on the console
  moverlap,  \* history: whether two schedules ran at a time
  mtold      \* history: every alert that was due: what was compared, and what it calls removed

monitorvars == <<mfiles, msched, malerts, mposted, mshown, moverlap, mtold>>

NoFile == [index |-> 0, is |-> FALSE]
File(i) == [index |-> i, is |-> TRUE]

-----------------------------------------------------------------------------
(* diff.rs: what a scan covered.                                             *)

Bad == {"failed", "timed_out", "cancelled"}
Succeeded(scan) == {t.kind : t \in {u \in scan.tasks : u.state = "succeeded"}}
TerminalErrors(scan) == {t.kind : t \in {u \in scan.tasks : u.state \in Bad}}

\* record_task: what tasks that succeeded asked for; ports of the two
\* transports apart, record types ("all" when none is named), parameters.
Covered(scan, kind) == UNION {t.asked : t \in {u \in scan.tasks : u.state = "succeeded" /\ u.kind = kind}}
PortCovered(scan, port) == <<"port", port>> \in Covered(scan, "PortDiscovery")
UdpPortCovered(scan, port) == <<"port", port>> \in Covered(scan, "UdpDiscovery")
DnsTypes(scan) ==
  LET named == Covered(scan, "DnsProbe")
  IN IF named = {} /\ "DnsProbe" \in Succeeded(scan) THEN {<<"record", "all">>} ELSE named
CrawlDepth(scan) ==
  LET depths == {d[2] : d \in Covered(scan, "Crawl")} \cup {0}
  IN CHOOSE d \in depths : \A e \in depths : e <= d

\* Mutant: an error of another task of the kind is overlooked.
RanInBoth(kind, old, new) ==
  kind \in Succeeded(old) => kind \in Succeeded(new)

\* requires_network_safe: the kind met no error in the other scan, and ran
\* there if it did here.
NetworkSafe(kind, old, new) ==
  /\ kind \notin TerminalErrors(new)
  /\ kind \in Succeeded(old) => kind \in Succeeded(new)

\* The comparable_ functions: whether an absence from `new` of what `old` had
\* is one. With port discovery in `old`, any port must be asked for over TCP.
ComparableUrl(old, new, url) ==
  /\ url.content => "ContentDiscovery" \in Succeeded(new)
  /\ url.param # "" => NetworkSafe("Fuzz", old, new) /\ <<"param", url.param>> \in Covered(new, "Fuzz")
  /\ url.depth > 0 => "Crawl" \in Succeeded(new) /\ url.depth <= CrawlDepth(new)
  /\ url.status => NetworkSafe("HttpProbe", old, new)

ComparableAsset(old, new, key, value) ==
  LET kind == key[1]
      udp == kind = "port" /\ key[2] = "udp"
  IN /\ "PortDiscovery" \in Succeeded(old) =>
          NetworkSafe("PortDiscovery", old, new) /\ (kind = "port" => PortCovered(new, key[3]))
     /\ "UdpDiscovery" \in Succeeded(old) =>
          NetworkSafe("UdpDiscovery", old, new) /\ (udp => UdpPortCovered(new, key[3]))
     /\ CASE udp -> NetworkSafe("UdpDiscovery", old, new)
          [] kind = "port" /\ ~udp -> NetworkSafe("PortDiscovery", old, new)
          [] kind = "service" -> NetworkSafe("ServiceProbe", old, new)
          [] kind = "url" -> ComparableUrl(old, new, value)
          [] OTHER -> TRUE

ComparableRelationship(old, new, key) ==
  key[1] # "other" => NetworkSafe("DnsProbe", old, new) /\ \E type \in {key[1], "all"} : <<"record", type>> \in DnsTypes(new)

FindingKinds == {"ServiceProbe", "HttpProbe", "Baseline", "ContentDiscovery", "Fuzz", "DnsProbe"}
ComparableFinding(old, new) ==
  \A kind \in FindingKinds \cap Succeeded(old) : NetworkSafe(kind, old, new)

Comparable(old, new, e) ==
  CASE e[1] = "asset" -> ComparableAsset(old, new, e[2], old.seen[e])
    [] e[1] = "relationship" -> ComparableRelationship(old, new, e[2])
    [] e[1] = "finding" -> ComparableFinding(old, new)

\* compare_map and ReportBuilder::push: what the summary counts.
Added(old, new) == DOMAIN new.seen \ DOMAIN old.seen
Confirmed(old, new) ==
  {e \in DOMAIN old.seen \ DOMAIN new.seen :
     new.scope = old.scope /\ Comparable(old, new, e) /\ new.level >= old.level}
Changed(old, new) ==
  {e \in DOMAIN old.seen \cap DOMAIN new.seen : e[1] # "relationship" /\ old.seen[e] # new.seen[e]}
Incompatible(old, new) == old.targets # new.targets

\* meaningful_changes of monitoring.rs: the thresholds that are met.
Reached(changes, threshold) == threshold > 0 /\ Cardinality(changes) >= threshold
Reasons(old, new) ==
  {r \in {"added", "removed", "changed"} :
     Reached(CASE r = "added" -> Added(old, new)
               [] r = "removed" -> Confirmed(old, new)
               [] r = "changed" -> Changed(old, new), Thresholds[r])}

-----------------------------------------------------------------------------
(* The state directory.                                                      *)

Newest == CHOOSE i \in DOMAIN mfiles : \A j \in DOMAIN mfiles : i >= j
NewestCheckpoint == IF mfiles = << >> THEN NoFile ELSE File(Newest)
NextIndex == IF mfiles = << >> THEN 0 ELSE Newest + 1

-----------------------------------------------------------------------------
(* The steps of schedule s.                                                  *)

MonitorInit == /\ mfiles = << >> /\ msched = << >> /\ malerts = {} /\ mposted = {} /\ mshown = {}
               /\ moverlap = FALSE /\ mtold = {}

Is(s, step) == msched[s].at = step
Becomes(s, schedule) == msched' = [msched EXCEPT ![s] = schedule]
Ends(s) == Becomes(s, [at |-> "over"])
Running == {s \in DOMAIN msched : ~Is(s, "over")}

\* run_schedule begins: the newest checkpoint becomes the baseline.
Begin ==
  /\ Len(msched) < MaxSchedules
  /\ msched' = Append(msched, [at |-> "number", previous |-> NewestCheckpoint, cancelled |-> FALSE])
  /\ moverlap' = (moverlap \/ Running # {})
  /\ UNCHANGED <<mfiles, malerts, mposted, mshown, mtold>>

\* next_index reads the directory again.
Number(s) ==
  /\ Is(s, "number")
  /\ Becomes(s, [at |-> "iterate", previous |-> msched[s].previous, cancelled |-> msched[s].cancelled,
                 index |-> NextIndex, done |-> 0, due |-> {}, alerts |-> {}])
  /\ UNCHANGED <<mfiles, malerts, mposted, mshown, moverlap, mtold>>

\* The process's cancel flag rises at any time.
Cancel(s) ==
  /\ s \in Running /\ ~msched[s].cancelled
  /\ Becomes(s, [msched[s] EXCEPT !.cancelled = TRUE])
  /\ UNCHANGED <<mfiles, malerts, mposted, mshown, moverlap, mtold>>

\* The schedule is through its iterations, or cancelled between two of them:
\* run_monitor shows all its outcomes at once.
Show(s) ==
  /\ Is(s, "iterate") /\ (msched[s].done = Repeat \/ msched[s].cancelled)
  /\ mshown' = mshown \cup msched[s].alerts
  /\ Ends(s)
  /\ UNCHANGED <<mfiles, malerts, mposted, moverlap, mtold>>

\* run_iteration begins, and the cancel flag no longer keeps the scan from
\* ending with a checkpoint, of what was done until then.
Iterate(s) ==
  /\ Is(s, "iterate") /\ msched[s].done < Repeat /\ ~msched[s].cancelled
  /\ Becomes(s, [msched[s] EXCEPT !.at = "scan"])
  /\ UNCHANGED <<mfiles, malerts, mposted, mshown, moverlap, mtold>>

Scan(s) ==
  /\ Is(s, "scan")
  /\ \E scan \in Scans :
       mfiles' = [i \in DOMAIN mfiles \cup {msched[s].index} |-> IF i = msched[s].index THEN scan ELSE mfiles[i]]
  /\ Becomes(s, [msched[s] EXCEPT !.at = IF msched[s].previous.is THEN "compare" ELSE "done"])
  /\ UNCHANGED <<malerts, mposted, mshown, moverlap, mtold>>

\* The scan or a later step of the iteration fails: a cancelled schedule shows
\* what it has, any other ends with the error alone.
Fail(s) ==
  /\ IF msched[s].cancelled THEN mshown' = mshown \cup msched[s].alerts ELSE UNCHANGED mshown
  /\ Ends(s)

Broken(s) ==
  /\ msched[s].at \in {"scan", "compare", "file", "webhook"}
  /\ Fail(s)
  /\ UNCHANGED <<mfiles, malerts, mposted, moverlap, mtold>>

\* diff_checkpoints and meaningful_changes; what follows is the next sink.
Sink(file, webhook) == IF file THEN "file" ELSE IF webhook THEN "webhook" ELSE "done"
Compare(s) ==
  /\ Is(s, "compare")
  /\ LET m == msched[s]
         old == mfiles[m.previous.index]
         new == mfiles[m.index]
         alert == [index |-> m.index, before |-> m.previous.index, old |-> old, new |-> new,
                   removed |-> Confirmed(old, new)]
     IN IF Incompatible(old, new) THEN Fail(s) /\ UNCHANGED mtold
        ELSE IF Reasons(old, new) = {}
             THEN Becomes(s, [m EXCEPT !.at = "done"]) /\ UNCHANGED <<mshown, mtold>>
             ELSE /\ Becomes(s, [m EXCEPT !.at = Sink(ToFile, ToWebhook), !.due = {alert}])
                  /\ mtold' = mtold \cup {alert}
                  /\ UNCHANGED mshown
  /\ UNCHANGED <<mfiles, malerts, mposted, moverlap>>

AppendAlert(s) ==
  /\ Is(s, "file")
  /\ malerts' = malerts \cup msched[s].due
  /\ Becomes(s, [msched[s] EXCEPT !.at = Sink(FALSE, ToWebhook)])
  /\ UNCHANGED <<mfiles, mposted, mshown, moverlap, mtold>>

PostWebhook(s) ==
  /\ Is(s, "webhook")
  /\ mposted' = mposted \cup msched[s].due
  /\ Becomes(s, [msched[s] EXCEPT !.at = "done"])
  /\ UNCHANGED <<mfiles, malerts, mshown, moverlap, mtold>>

\* Back in run_schedule: the new checkpoint is the next baseline.
NextIteration(s) ==
  /\ Is(s, "done")
  /\ Becomes(s, [msched[s] EXCEPT !.at = "iterate", !.previous = File(msched[s].index),
                                  !.index = @ + 1, !.done = @ + 1,
                                  !.alerts = @ \cup msched[s].due, !.due = {}])
  /\ UNCHANGED <<mfiles, malerts, mposted, mshown, moverlap, mtold>>

\* The process is killed, which shows nothing.
KilledSchedule(s) ==
  /\ s \in Running
  /\ Ends(s)
  /\ UNCHANGED <<mfiles, malerts, mposted, mshown, moverlap, mtold>>

MonitorNext ==
  \/ Begin
  \/ \E s \in DOMAIN msched :
       \/ Number(s) \/ Cancel(s) \/ Show(s) \/ Iterate(s) \/ Scan(s) \/ Broken(s) \/ Compare(s)
       \/ AppendAlert(s) \/ PostWebhook(s) \/ NextIteration(s) \/ KilledSchedule(s)

MonitorSpec == MonitorInit /\ [][MonitorNext]_monitorvars

-----------------------------------------------------------------------------
(* The properties.                                                           *)

\* The kinds of task that look for what a scan saw, and what one has to have
\* asked to have looked for it.
Seekers(e, value) ==
  LET key == e[2]
  IN CASE e[1] = "asset" /\ key[1] = "port" -> {IF key[2] = "udp" THEN "UdpDiscovery" ELSE "PortDiscovery"}
       [] e[1] = "asset" /\ key[1] = "service" -> {"ServiceProbe"}
       [] e[1] = "asset" /\ key[1] = "url" ->
            (IF value.status THEN {"HttpProbe"} ELSE {}) \cup (IF value.param # "" THEN {"Fuzz"} ELSE {})
       [] e[1] = "relationship" /\ key[1] # "other" -> {"DnsProbe"}
       [] e[1] = "finding" -> FindingKinds
       [] OTHER -> {}

Asks(task, e, value) ==
  CASE task.kind \in {"PortDiscovery", "UdpDiscovery"} -> <<"port", e[2][3]>> \in task.asked
    [] task.kind = "DnsProbe" /\ e[1] = "relationship" ->
         task.asked = {} \/ \E type \in {e[2][1], "all"} : <<"record", type>> \in task.asked
    [] task.kind = "Fuzz" /\ e[1] = "asset" -> <<"param", value.param>> \in task.asked
    [] OTHER -> TRUE

\* An absence counts when the later scan is of no smaller scope or level and
\* every kind of task that looks for it, and did so in the earlier scan, asked
\* again and met no error (diff.rs).
Absent(old, new, e) ==
  /\ e \in DOMAIN old.seen \ DOMAIN new.seen
  /\ new.scope = old.scope /\ new.level >= old.level
  /\ \A kind \in Seekers(e, old.seen[e]) \cap Succeeded(old) :
       /\ \E t \in new.tasks : t.kind = kind /\ t.state = "succeeded" /\ Asks(t, e, old.seen[e])
       /\ \A t \in new.tasks : t.kind = kind => t.state \notin Bad

\* An alert is never about what is only not covered: what it counts as removed
\* is absent from a scan that looked for it (run_iteration, compare_map).
AlertsConfirmed ==
  \A a \in mtold :
    /\ a.old.targets = a.new.targets /\ a.old.seen # a.new.seen
    /\ \A e \in a.removed : Absent(a.old, a.new, e)

\* As long as schedules follow each other, killed and broken off as they may
\* be, no checkpoint is written twice, and every alert compares a scan with
\* the one just before it: no change is told of twice or over a gap.
OneAfterAnother ==
  ~moverlap =>
    /\ DOMAIN mfiles = {i \in DOMAIN mfiles : i < Cardinality(DOMAIN mfiles)}
    /\ \A a \in mtold : /\ a.index = a.before + 1
                        /\ a.old = mfiles[a.before] /\ a.new = mfiles[a.index]

\* The sinks come in order, whatever fails: what was posted is in the file, and
\* what the console shows was in both.
SinksInOrder ==
  /\ malerts \cup mposted \cup mshown \subseteq mtold
  /\ ToFile => mposted \cup mshown \subseteq malerts
  /\ ToWebhook => mshown \subseteq mposted

ScheduleExact == AlertsConfirmed /\ OneAfterAnother /\ SinksInOrder
=============================================================================
