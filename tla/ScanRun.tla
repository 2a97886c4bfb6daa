------------------------------ MODULE ScanRun ------------------------------
(* One run of a scan, from its options to its checkpoint (execute_impl of    *)
(* src/src/run.rs): what each stage leaves behind when a later one fails,    *)
(* what the output holds when its budget is too small, and the summaries     *)
(* that are drawn from the task outputs on the way.                          *)
EXTENDS Integers, Sequences, FiniteSets, FiniteSetsExt, SequencesExt

CONSTANTS RunWorlds,      \* what is asked for, and what the scheduler returns
          RunMaxVulns,    \* bound of the vulnerability records of one scan
          RunMaxSoftware  \* MAX_VULN_IDENTITIES

VARIABLES rworld,
          rstage,    \* the stage that runs next
          rdb,       \* kinds of rows this run has committed to the project
          rout,      \* records written to the stream
          rcut,      \* the stream met its budget
          rterm,     \* the termination the run reports
          rfile,     \* the file of --output: "old" or the records in it
          rsaved,    \* this run's checkpoint is in place
          rend       \* "no", "done", "refused", "failed" or "killed"

\* What is asked for, apart from the parts that only summaries read.
RecordKinds ==
  {"scheduler", "asset", "event", "evidence", "finding", "graph", "scan", "coverage", "vulnerability", "attention",
   "change", "termination"}
Record == [from : RecordKinds, size : Nat]
ASSUME RunAssumption ==
  \A w \in RunWorlds :
    /\ w.budget \in Nat /\ w.output \in {"file", "stdout", "none"}
    /\ DOMAIN w.outputs \subseteq Nat /\ IsFiniteSet(DOMAIN w.outputs)
    /\ \A id \in DOMAIN w.outputs : w.outputs[id] \in Seq(Record)

runvars == <<rworld, rstage, rdb, rout, rcut, rterm, rfile, rsaved, rend>>

-----------------------------------------------------------------------------
(* Coverage: what the succeeded tasks tried, as intervals of ports.          *)

\* compress_ports.
FirstPorts(ports) == {p \in ports : p - 1 \notin ports}
EndOf(ports, p) == Min({q \in ports : q >= p /\ q + 1 \notin ports})
Compress(ports) == [k \in 1..Cardinality(FirstPorts(ports)) |->
                      LET lo == SetToSortSeq(FirstPorts(ports), <)[k] IN <<lo, EndOf(ports, lo)>>]

\* insert_interval: one that touches the last one widens it.
ByStart(a, b) == a[1] < b[1] \/ (a[1] = b[1] /\ a[2] <= b[2])
Widen(merged, next) ==
  IF merged # <<>> /\ next[1] <= Last(merged)[2] + 1
  THEN Append(Front(merged), <<Last(merged)[1], Max({Last(merged)[2], next[2]})>>)
  ELSE Append(merged, next)
InsertInterval(intervals, next) == FoldLeft(Widen, <<>>, SortSeq(Append(intervals, next), ByStart))

\* coverage_from_scheduler and coverage_from_tasks: a hostname has no address
\* whose ports could be covered.
Covering == SelectSeq(rworld.tasks, LAMBDA t : t.ok /\ t.kind = "ports" /\ t.host # "name")
HostCovered(host) == \E k \in DOMAIN rworld.tasks : LET t == rworld.tasks[k] IN t.ok /\ t.kind = "host" /\ t.host = host
Attempted(host) ==
  FoldLeft(InsertInterval, <<>>,
           FlattenSeq([k \in DOMAIN Covering |-> IF Covering[k].host = host THEN Compress(Covering[k].ports) ELSE <<>>]))
PortCovered(host, port) == \E k \in DOMAIN Attempted(host) : port \in Attempted(host)[k][1]..Attempted(host)[k][2]
CoverageTruncated == rworld.termination # "completed"

-----------------------------------------------------------------------------
(* The port table of the summary, which has one row for a port.              *)

RowFields == {"service", "product", "banner", "endpoint", "certificate"}
NoRow == [f \in RowFields |-> "none"]
PortRow(rows, port) == IF port \in DOMAIN rows THEN rows[port] ELSE NoRow
\* A field keeps the first thing said of it.
SetEmpty(row, says) == [f \in RowFields |-> IF row[f] = "none" /\ f \in DOMAIN says THEN says[f] ELSE row[f]]
PutRow(rows, port, says) ==
  [p \in DOMAIN rows \cup {port} |-> IF p = port THEN SetEmpty(PortRow(rows, p), says) ELSE rows[p]]
\* A TLS fact without a port belongs to the one port that speaks TLS, if there
\* is one; mail inside TLS counts for events but not for certificates.
TlsNames(kind) == IF kind = "tls" THEN {"https", "tls", "smtps"} ELSE {"https", "tls"}
RowTargets(rows, fact) ==
  LET speaking == {p \in DOMAIN rows : rows[p].service \in TlsNames(fact.kind)}
  IN  IF fact.port # 0 THEN {fact.port}
      ELSE IF fact.kind \in {"tls", "cert"} /\ Cardinality(speaking) = 1 THEN speaking ELSE {}
TakeFact(rows, fact) == LET targets == RowTargets(rows, fact)
                        IN  IF targets = {} THEN rows ELSE PutRow(rows, CHOOSE p \in targets : TRUE, fact.says)
PortRows == FoldLeft(TakeFact, <<>>, rworld.facts)

-----------------------------------------------------------------------------
(* The software inventory and the vulnerabilities looked up for it.          *)

\* Services in the order of their ids; the first of a group gives its
\* confidence.
IdentityOf(service) == <<service.product, service.version>>
NamedServices(world) == SelectSeq(world.services, LAMBDA s : s.product # "none")
Groups(world) == {IdentityOf(NamedServices(world)[k]) : k \in DOMAIN NamedServices(world)}
Group(world, identity) == SelectSeq(NamedServices(world), LAMBDA s : IdentityOf(s) = identity)
Inventory(world) ==
  LET ordered == SetToSortSeq(Groups(world), LAMBDA a, b : world.order[a] < world.order[b])
      Members(k) == Group(world, ordered[k])
  IN  [k \in DOMAIN ordered |-> [identity |-> ordered[k], confidence |-> Members(k)[1].confidence,
                                 hosts |-> {Members(k)[j].host : j \in DOMAIN Members(k)}]]
\* A record names the first host of the group only.
Vulnerabilities(world) ==
  LET inventory == Inventory(world)
      looked == SubSeq(inventory, 1, Min({RunMaxSoftware, Len(inventory)}))
      Of(entry) == [j \in 1..world.advisories[entry.identity[1]] |->
                      [identity |-> entry.identity, advisory |-> j, host |-> Group(world, entry.identity)[1].host]]
      all == FlattenSeq([k \in DOMAIN looked |-> Of(looked[k])])
  IN  SubSeq(all, 1, Min({RunMaxVulns, Len(all)}))

-----------------------------------------------------------------------------
(* The output stream.                                                        *)

Rec(from, size) == [from |-> from, size |-> size]
IdAt(ids, k) == CHOOSE id \in ids : Cardinality({j \in ids : j < id}) = k - 1
TaskRecords(outputs) ==
  LET ids == DOMAIN outputs IN FlattenSeq([k \in 1..Cardinality(ids) |-> outputs[IdAt(ids, k)]])
\* write_outputs: the scheduler's events, the outputs by task, the graph, the
\* scan's own records, and what was concluded.
StreamOf(world, rows) ==
  <<Rec("scheduler", 1)>> \o TaskRecords(world.outputs) \o <<Rec("graph", 1), Rec("scan", 1), Rec("coverage", 1)>>
    \o (IF Vulnerabilities(world) = <<>> THEN <<>> ELSE <<Rec("vulnerability", 1)>>)
    \o (IF "attention" \in rows THEN <<Rec("attention", 1)>> ELSE <<>>)
    \o (IF "changes" \in rows THEN <<Rec("change", 1)>> ELSE <<>>)
Stream == StreamOf(rworld, rdb)
Bytes(records) ==
  LET upTo[k \in 0..Len(records)] == IF k = 0 THEN 0 ELSE upTo[k - 1] + records[k].size
  IN  upTo[Len(records)]
Mark == Rec("termination", 1)

-----------------------------------------------------------------------------
(* The stages.                                                               *)

OldFile == <<Rec("old", 0)>>
RunInit ==
  /\ rworld \in RunWorlds /\ rstage = "prepare" /\ rdb = {} /\ rout = <<>> /\ rcut = FALSE
  /\ rterm = "none" /\ rfile = OldFile /\ rsaved = FALSE /\ rend = "no"

AtStage(stage) == rend = "no" /\ rstage = stage
AfterImport == IF rworld.output = "none" THEN "checkpoint" ELSE "write"

\* validate_resume_cli: what a resumed run may not be told again.
ResumeRefuses == {"target", "goal", "level", "scope", "ports", "budgets", "wordlist", "config"}
Prepare ==
  /\ AtStage("prepare")
  /\ IF rworld.resume /\ rworld.flags \cap ResumeRefuses # {}
     THEN rend' = "refused" /\ UNCHANGED rstage
     ELSE rstage' = "scan" /\ UNCHANGED rend
  /\ UNCHANGED <<rworld, rdb, rout, rcut, rterm, rfile, rsaved>>
\* The scheduler returns; the rest works on what it has collected.
RunScheduler ==
  /\ AtStage("scan") /\ rterm' = rworld.termination
  /\ rstage' = (IF rworld.db THEN "import" ELSE AfterImport)
  /\ UNCHANGED <<rworld, rdb, rout, rcut, rfile, rsaved, rend>>

\* The project: each step commits on its own.
Commits(stage, rows, then) ==
  /\ AtStage(stage) /\ rdb' = rdb \cup rows /\ rstage' = then
  /\ UNCHANGED <<rworld, rout, rcut, rterm, rfile, rsaved, rend>>
ImportScan == Commits("import", {"scan"}, "intelligence")
ImportIntelligence == Commits("intelligence", {"intelligence"}, "changes")
RecordChanges == Commits("changes", IF rworld.previous THEN {"changes"} ELSE {}, "attention")
RecordAttention == Commits("attention", {"attention"}, "posture")
StorePosture == Commits("posture", {"posture"}, AfterImport)

\* A record that does not fit ends the stream; the mark is written if it fits.
WriteRecord ==
  /\ AtStage("write") /\ Len(rout) < Len(Stream)
  /\ LET record == Stream[Len(rout) + 1]
     IN  IF Bytes(rout) + record.size <= rworld.budget
         THEN rout' = Append(rout, record) /\ UNCHANGED <<rcut, rterm, rstage>>
         ELSE /\ rout' = IF Bytes(rout) + Mark.size <= rworld.budget THEN Append(rout, Mark) ELSE rout
              /\ rcut' = TRUE /\ rstage' = "finish"
              /\ rterm' = IF rterm = "completed" THEN "output_budget" ELSE rterm
  /\ UNCHANGED <<rworld, rdb, rfile, rsaved, rend>>
StreamEnds ==
  /\ AtStage("write") /\ Len(rout) = Len(Stream) /\ rstage' = "finish"
  /\ UNCHANGED <<rworld, rdb, rout, rcut, rterm, rfile, rsaved, rend>>
\* finish: the file is renamed over the old one; a stream to stdout is flushed.
FinishOutput ==
  /\ AtStage("finish") /\ rstage' = "checkpoint"
  /\ rfile' = IF rworld.output = "file" THEN rout ELSE rfile
  /\ UNCHANGED <<rworld, rdb, rout, rcut, rterm, rsaved, rend>>
SaveCheckpoint ==
  /\ AtStage("checkpoint") /\ rend' = "done" /\ rsaved' = rworld.keep
  /\ UNCHANGED <<rworld, rstage, rdb, rout, rcut, rterm, rfile>>

\* Every stage may fail, which ends the run, and the process may be killed.
StageFails ==
  /\ rend = "no" /\ rend' \in {"failed", "killed"}
  /\ UNCHANGED <<rworld, rstage, rdb, rout, rcut, rterm, rfile, rsaved>>

RunStages == Prepare \/ RunScheduler \/ ImportScan \/ ImportIntelligence \/ RecordChanges \/ RecordAttention
             \/ StorePosture \/ WriteRecord \/ StreamEnds \/ FinishOutput \/ SaveCheckpoint
RunNext == RunStages \/ StageFails
RunSpec == RunInit /\ [][RunNext]_runvars

-----------------------------------------------------------------------------
(* What a run promises.                                                      *)

RunTypeOK ==
  /\ rdb \subseteq {"scan", "intelligence", "changes", "attention", "posture"}
  /\ rend \in {"no", "done", "refused", "failed", "killed"} /\ Bytes(rout) <= rworld.budget

\* The checkpoint is the last thing a run leaves: with it, all that was asked
\* for is in place.
CheckpointLast ==
  rsaved => /\ rworld.db => {"scan", "intelligence", "attention", "posture"} \subseteq rdb
            /\ rworld.output = "file" => rfile = rout

\* A run that reports "completed" has written its whole stream; a file is the
\* old one or a prefix of the stream with at most the mark behind it.
WholeOrMarked ==
  /\ (rend = "done" /\ rterm = "completed" /\ rworld.output # "none") => rout = Stream
  /\ rfile # OldFile =>
       \/ rfile = Stream
       \/ /\ rcut /\ rterm # "completed"
          /\ \E n \in 0..(Len(Stream) - 1) : rfile \in {SubSeq(Stream, 1, n), Append(SubSeq(Stream, 1, n), Mark)}

\* A port counts as covered exactly when a task that succeeded tried it at that
\* address, and a run that was cut short says so.
CoverageExact ==
  rstage = "import" =>
  /\ \A host \in {"a", "b"} : \A port \in 1..6 :
       PortCovered(host, port) =
         (\E k \in DOMAIN rworld.tasks : LET t == rworld.tasks[k]
                                         IN t.ok /\ t.kind = "ports" /\ t.host = host /\ port \in t.ports)
  /\ \A host \in {"a", "b"} : \A k \in 1..(Len(Attempted(host)) - 1) : Attempted(host)[k][2] + 1 < Attempted(host)[k + 1][1]

\* What a row of the port table says was said of that port first, or of no port
\* while it was the only one known to speak TLS.
SpokenBefore(k, port, f) ==
  {j \in 1..(k - 1) : rworld.facts[j].port = port /\ f \in DOMAIN rworld.facts[j].says
                       /\ rworld.facts[j].says[f] # "none"}
RowsFollowFacts ==
  rend = "done" =>
  \A port \in DOMAIN PortRows : \A f \in RowFields :
    PortRows[port][f] # "none" =>
      \E k \in DOMAIN rworld.facts :
        LET fact == rworld.facts[k]
        IN  /\ f \in DOMAIN fact.says /\ fact.says[f] = PortRows[port][f]
            /\ SpokenBefore(k, port, f) = {}
            /\ \/ fact.port = port
               \/ /\ fact.port = 0 /\ fact.kind \in {"tls", "cert"}
                  /\ \A j \in 1..(k - 1) :
                       ("service" \in DOMAIN rworld.facts[j].says /\ rworld.facts[j].port \notin {0, port}
                         /\ SpokenBefore(j, rworld.facts[j].port, "service") = {})
                       => rworld.facts[j].says["service"] \notin TlsNames(fact.kind)

\* A vulnerability is recorded for a host that runs the product, in that
\* version.
VulnsRun ==
  rend = "done" =>
  LET found == Vulnerabilities(rworld)
  IN  \A k \in DOMAIN found : \E j \in DOMAIN rworld.services :
        /\ rworld.services[j].host = found[k].host
        /\ IdentityOf(rworld.services[j]) = found[k].identity

RunSound == CheckpointLast /\ WholeOrMarked /\ CoverageExact /\ RowsFollowFacts /\ VulnsRun

-----------------------------------------------------------------------------
(* The offline vulnerability dataset of a run (load_vuln_db, and             *)
(* src/src/vuln.rs): files are merged into one, versions are compared where  *)
(* their schemes agree, and an advisory is matched to what was observed.     *)

CONSTANTS VulnWorlds,   \* [files, identity]: dataset files in order, and software
          VersionsShort,\* versions the comparison is tried on
          MaxAdvisories,\* MAX_ADVISORIES_PER_FILE
          MaxIndexed,   \* advisories of a product that are looked at
          MaxMatches    \* candidates kept for an identity

VARIABLES vworld,
          vdataset,  \* the merged dataset, or NoDataset
          vmatches,  \* candidates, strongest first, or NotAsked
          vstage     \* "load", "query" or "done"

\* A part of a version is a number or a text.
VersionPart == {"n", "t"} \X Nat
\* An advisory names ranges of one or two bounds.
Operators == {"exact", "less", "atmost", "greater", "atleast"}
AdvisoryOK(advisory) ==
  /\ advisory.id \in Nat /\ advisory.affected \in Seq(ToSet(advisory.affected))
  /\ \A req \in ToSet(advisory.affected) : req # {} /\ \A bound \in req : bound.op \in Operators
ASSUME VulnAssumption ==
  /\ VersionsShort \subseteq Seq(VersionPart) /\ MaxAdvisories \in Nat /\ MaxIndexed \in Nat /\ MaxMatches \in Nat
  /\ \A w \in VulnWorlds :
       /\ w.identity.confidence \in Nat /\ w.identity.versionConfidence \in Nat
       /\ w.files \in Seq(ToSet(w.files))
       /\ \A file \in ToSet(w.files) :
            file.advisories \in Seq(ToSet(file.advisories)) /\ \A a \in ToSet(file.advisories) : AdvisoryOK(a)

vulnvars == <<vworld, vdataset, vmatches, vstage>>

NoDataset == <<>>
NotAsked == <<[id |-> 0, outcome |-> "none", confidence |-> 0, exact |-> FALSE]>>

-----------------------------------------------------------------------------
(* Versions: sequences of numeric and of textual parts, <<"n", k>> and       *)
(* <<"t", k>>.                                                               *)

NoVersion == <<<<"none", 0>>>>
ZeroPart == <<"n", 0>>
\* The first place where two versions are told apart; a version that ends is
\* continued by zeros, and nothing else.
PartAt(version, k) == IF k <= Len(version) THEN version[k] ELSE ZeroPart
Differs(a, b) == {k \in 1..Max({Len(a), Len(b)}) : PartAt(a, k) # PartAt(b, k)}
CompareVersions(a, b) ==
  IF Differs(a, b) = {} THEN "equal"
  ELSE LET k == Min(Differs(a, b))
       IN  IF k > Len(a) \/ k > Len(b) \/ a[k][1] # b[k][1] THEN "unknown"
           ELSE IF a[k][2] < b[k][2] THEN "less" ELSE "greater"

\* evaluate: a bound that cannot be compared leaves the answer open, unless the
\* other bound rules the version out.
Requires(op, order) ==
  IF order = "unknown" THEN "unknown"
  ELSE CASE op = "exact" -> IF order = "equal" THEN "yes" ELSE "no"
         [] op = "less" -> IF order = "less" THEN "yes" ELSE "no"
         [] op = "atmost" -> IF order # "greater" THEN "yes" ELSE "no"
         [] op = "greater" -> IF order = "greater" THEN "yes" ELSE "no"
         [] op = "atleast" -> IF order # "less" THEN "yes" ELSE "no"
\* A range is its two bounds.
EvaluateReq(req, version) ==
  LET answers == {Requires(bound.op, CompareVersions(version, bound.version)) : bound \in req}
  IN  IF "no" \in answers THEN "no" ELSE IF "unknown" \in answers THEN "unknown" ELSE "yes"

-----------------------------------------------------------------------------
(* The dataset.                                                              *)

\* load_vuln_db: one file that cannot be read leaves no dataset at all.
Readable(files) == \A k \in DOMAIN files : files[k].kind # "malformed"
Merged(files) ==
  LET kept == FlattenSeq([k \in DOMAIN files |-> IF files[k].kind = "huge" THEN <<>> ELSE files[k].advisories])
  IN  SubSeq(kept, 1, Min({MaxAdvisories, Len(kept)}))
\* A range is refused when its bounds are known to be in the wrong order.
ValidReq(req) ==
  \A low, high \in req :
    (low.op \in {"greater", "atleast"} /\ high.op \in {"less", "atmost"}) =>
      CompareVersions(low.version, high.version) # "greater"
\* from_dataset: two advisories with one id, or a bound out of order.
ValidDataset(advisories) ==
  /\ \A i, k \in DOMAIN advisories : advisories[i].id = advisories[k].id => i = k
  /\ \A k \in DOMAIN advisories : \A j \in DOMAIN advisories[k].affected : ValidReq(advisories[k].affected[j])

LoadVulnDb ==
  /\ vstage = "load" /\ vstage' = "query"
  /\ vdataset' = IF Readable(vworld.files) /\ ValidDataset(Merged(vworld.files)) THEN Merged(vworld.files) ELSE NoDataset
  /\ UNCHANGED <<vworld, vmatches>>

-----------------------------------------------------------------------------
(* Matching.                                                                 *)

VendorAgrees(advisory, identity) == advisory.vendor # "none" /\ advisory.vendor = identity.vendor
SomebodyElses(advisory, identity) ==
  advisory.vendor # "none" /\ identity.vendor # "none" /\ advisory.vendor # identity.vendor
LeastOf(a, b) == Min({a, b})
Candidate(advisory, outcome, confidence, exact) ==
  [id |-> advisory.id, outcome |-> outcome, confidence |-> confidence, exact |-> exact]

MatchAdvisory(advisory, identity) ==
  LET answers == {EvaluateReq(advisory.affected[j], identity.version) : j \in DOMAIN advisory.affected}
      whole == LeastOf(LeastOf(identity.confidence, Max({identity.versionConfidence, 50})), 90)
  IN  IF identity.version = <<>> THEN Candidate(advisory, "unknown", LeastOf(identity.confidence, 40), FALSE)
      ELSE IF identity.version = NoVersion \/ advisory.affected = <<>>
      THEN Candidate(advisory, "matched", LeastOf(identity.confidence, 45), FALSE)
      ELSE IF "no" \in answers THEN Candidate(advisory, "unaffected", LeastOf(identity.confidence, 60), TRUE)
      ELSE IF "unknown" \in answers THEN Candidate(advisory, "unknown", LeastOf(identity.confidence, 40), FALSE)
      ELSE Candidate(advisory, "matched", IF VendorAgrees(advisory, identity) THEN whole ELSE LeastOf(whole, 70), TRUE)

\* query: the bounds cut in the order of the dataset, and then it is sorted.
Earliest(places, n) == {k \in places : Cardinality({j \in places : j <= k}) <= n}
Likelier(c, d) == c.confidence > d.confidence \/ (c.confidence = d.confidence /\ c.id < d.id)
LikeliestFirst(candidates) ==
  [k \in 1..Cardinality(candidates) |->
     CHOOSE c \in candidates : Cardinality({d \in candidates : Likelier(d, c)}) = k - 1]
QueryDb(identity) ==
  LET indexed == {k \in DOMAIN vdataset : vdataset[k].product = identity.product}
      looked == {k \in Earliest(indexed, MaxIndexed) : ~SomebodyElses(vdataset[k], identity)}
  IN  LikeliestFirst({MatchAdvisory(vdataset[k], identity) : k \in Earliest(looked, MaxMatches)})
Query ==
  /\ vstage = "query" /\ vstage' = "done" /\ vmatches' = QueryDb(vworld.identity)
  /\ UNCHANGED <<vworld, vdataset>>

VulnInit == vworld \in VulnWorlds /\ vdataset = NoDataset /\ vmatches = NotAsked /\ vstage = "load"
VulnNext == LoadVulnDb \/ Query
VulnSpec == VulnInit /\ [][VulnNext]_vulnvars

-----------------------------------------------------------------------------
(* What a match promises.                                                    *)

VulnTypeOK == Len(vdataset) <= MaxAdvisories /\ Len(vmatches) <= Max({MaxMatches, 1})

\* The comparison never contradicts itself: it is the same from both sides, no
\* chain of known answers leads to the opposite one, and a trailing zero says
\* nothing.
Opposite(order) == CASE order = "less" -> "greater" [] order = "greater" -> "less" [] OTHER -> order
NotAfter(a, b) == CompareVersions(a, b) \in {"less", "equal"}
OrderConsistent ==
  /\ \A a \in VersionsShort : CompareVersions(a, Append(a, ZeroPart)) = "equal"
  /\ \A a, b \in VersionsShort : CompareVersions(a, b) = Opposite(CompareVersions(b, a))
  /\ \A a, b, c \in VersionsShort : NotAfter(a, b) /\ NotAfter(b, c) => CompareVersions(a, c) # "greater"

\* A version is said to be affected only if it lies inside every range, to be
\* unaffected exactly if a bound is known to shut it out, and once an advisory; without a comparable version the
\* confidence stays low, and for a product of an unnamed vendor below the top.
AdvisoryOf(id) == CHOOSE a \in Range(vdataset) : a.id = id
Bounds(advisory) == UNION {advisory.affected[j] : j \in DOMAIN advisory.affected}
AdmittedOrders == [exact |-> {"equal"}, less |-> {"less"}, atmost |-> {"less", "equal"},
             greater |-> {"greater"}, atleast |-> {"equal", "greater"}]
HoldsFor(bound, version) == CompareVersions(version, bound.version) \in AdmittedOrders[bound.op]
ShutsOut(bound, version) == CompareVersions(version, bound.version) \notin AdmittedOrders[bound.op] \cup {"unknown"}
MatchesJustified ==
  (vstage = "done" /\ vmatches # <<>>) => \A k \in DOMAIN vmatches :
    LET m == vmatches[k] advisory == AdvisoryOf(m.id) version == vworld.identity.version
    IN  /\ advisory.product = vworld.identity.product
        /\ m.exact /\ m.outcome = "matched" => \A b \in Bounds(advisory) : HoldsFor(b, version)
        /\ version \notin {NoVersion, <<>>} =>
             (m.outcome = "unaffected") = (\E b \in Bounds(advisory) : ShutsOut(b, version))
        /\ \A j \in 1..(k - 1) : vmatches[j].id # m.id
        /\ m.confidence > 60 => m.exact /\ m.outcome = "matched" /\ Bounds(advisory) # {}
        /\ m.confidence > 70 => VendorAgrees(advisory, vworld.identity)
        /\ \A j \in 1..(k - 1) : vmatches[j].confidence >= m.confidence
VulnSound == MatchesJustified /\ (vstage = "done" => OrderConsistent)
=============================================================================
