------------------------------ MODULE Analysis ------------------------------
(* The offline analysis of a saved scan and its report (src/src/analysis.rs,   *)
(* src/src/report.rs): every asset, DNS or reflection relationship, finding   *)
(* and inconclusive difference drafts a signal, drafts of one id are merged,  *)
(* and the strongest are reported. What a saved item is called is a number in *)
(* the order of its semantic key; the wording of labels and reasons is left   *)
(* out.                                                                       *)
EXTENDS Integers, Sequences, FiniteSets, FiniteSetsExt, SequencesExt

CONSTANTS AnalysisWorlds, \* saved scans, with the difference to another: see AnalysisInit
          MaxSignals,     \* AnalysisOptions.max_signals
          TopSignals,     \* AnalysisOptions.top_signals
          MaxRefs,        \* MAX_SIGNAL_EVIDENCE_REFS
          ReportTop,      \* ReportOptions.top_n
          DetailLimit     \* HUMAN_DETAIL_LIMIT

VARIABLES aworld,
          adrafts,  \* SignalBuilder.drafts: id -> draft
          atally,   \* SignalBuilder: [total, truncated, summary]
          areport,  \* AnalysisReport.top_signals
          amodel,   \* ReportModel
          astage    \* "assets", "relations", "findings", "uncertainty", "emit", "report", "done" or "refused"

analysisvars == <<aworld, adrafts, atally, areport, amodel, astage>>

-----------------------------------------------------------------------------
(* Scores.                                                                   *)

Ceilings == [evidence |-> 25, novelty |-> 25, exposure |-> 20, corroboration |-> 15,
             breadth |-> 10, context |-> 10, penalty |-> 30]
Nothing == [part \in DOMAIN Ceilings |-> 0]
Between(low, x, high) == Max({low, Min({x, high})})
Bounded(components) == [part \in DOMAIN Ceilings |-> Between(0, components[part], Ceilings[part])]
Total(components) ==
  LET c == Bounded(components)
  IN  Between(0, c.evidence + c.novelty + c.exposure + c.corroboration + c.breadth + c.context - c.penalty, 100)
Band(score) == CASE score >= 80 -> "high" [] score \in 50..79 -> "medium"
                 [] score \in 20..49 -> "low" [] OTHER -> "informational"

-----------------------------------------------------------------------------
(* Drafts. A signal's id is its type and the item it is about.               *)

Draft(type, category, name) ==
  [id |-> <<type, name>>, category |-> category, confidence |-> 70, components |-> Nothing,
   evidence |-> {}, related |-> {}, new |-> FALSE, changed |-> FALSE, persistent |-> TRUE,
   inconclusive |-> FALSE, external |-> FALSE]
Raised(draft, by) ==
  [draft EXCEPT !.components =
     [part \in DOMAIN Ceilings |-> @[part] + (IF part \in DOMAIN by THEN by[part] ELSE 0)]]
Worth(trait, item, points) == IF trait \in item.traits THEN points ELSE 0
FirstFew(set, n) == {x \in set : Cardinality({y \in set : y < x}) < n}

\* apply_diff.
ApplyDiff(draft, records) ==
  IF records = {} THEN draft
  ELSE LET record == CHOOSE r \in records : TRUE
           less == [draft EXCEPT !.confidence = Min({@, 45}), !.inconclusive = TRUE]
           known == CASE record.change = "added" ->
                           Raised([draft EXCEPT !.new = TRUE, !.persistent = FALSE],
                                  [novelty |-> IF record.reason = "expanded" THEN 12 ELSE 22])
                      [] record.change = "modified" ->
                           Raised([draft EXCEPT !.changed = TRUE, !.persistent = FALSE], [novelty |-> 18])
                      [] record.change = "missing" -> Raised([less EXCEPT !.persistent = FALSE], [penalty |-> 20])
       IN  IF record.change = "missing" THEN Raised(known, [penalty |-> 12]) ELSE known
\* build_diff_map, whose keys are the kind of an item and its semantic key.
RecordsOf(kind, name) == {r \in Range(aworld.diff.records) : r.of = kind /\ r.name = name}

Degree(asset) ==
  Cardinality({k \in DOMAIN aworld.relations : aworld.relations[k].from = asset})
    + Cardinality({k \in DOMAIN aworld.relations : aworld.relations[k].to = asset})
BreadthOf(asset) == [breadth |-> IF Degree(asset) >= 3 THEN Min({Degree(asset), 10}) ELSE 0]
\* The last record of an asset is the one that is analysed.
LastOf(items, name) == items[Max({k \in DOMAIN items : items[k].name = name})]
NamesIn(items) == {items[k].name : k \in DOMAIN items}
Corroborated(evidence) == [corroboration |-> IF Cardinality(evidence) > 1 THEN 6 ELSE 0]

\* port_signal, service_signal, web_signal, host_signal and info_signal.
Observed(asset) ==
  CASE asset.kind = "port" ->
         Raised(Draft("network", "network", asset.name),
                [evidence |-> 20, exposure |-> 8 + Worth("open", asset, 10), context |-> Worth("unusual", asset, 3)])
    [] asset.kind = "service" ->
         Raised(Draft("exposure", "service", asset.name), [evidence |-> 18, exposure |-> 14])
    [] asset.kind = "web" ->
         Raised(Draft("web", "web", asset.name),
                [evidence |-> 16, exposure |-> 10, context |-> Worth("sensitive", asset, 4),
                 penalty |-> Worth("soft404", asset, 20)])
    [] asset.kind = "host" ->
         Raised(Draft("informational", "informational", asset.name), [evidence |-> 12, exposure |-> 4])
    [] OTHER -> Draft("informational", "informational", asset.name)
AssetDraft(asset) ==
  LET evidence == {e[2] : e \in {e \in aworld.evidence : e[1] = asset.name}}
      observed == [Observed(asset) EXCEPT !.evidence = FirstFew(evidence, MaxRefs), !.related = {asset.name}]
  IN  ApplyDiff(Raised(Raised(observed, Corroborated(evidence)), BreadthOf(asset.name)), RecordsOf("asset", asset.name))

\* is_out_of_scope_relationship: an end that is no asset of the scan, or one
\* marked as out of scope.
Outside(relation) ==
  \E end \in {relation.from, relation.to} \ {0} :
    \/ end \notin NamesIn(aworld.assets)
    \/ "out_of_scope" \in LastOf(aworld.assets, end).traits
RelationDraft(relation) ==
  LET related == {relation.from, relation.to} \ {0}
      dns == Raised([Draft("dns", "dns", relation.name) EXCEPT !.related = related, !.external = Outside(relation)],
                    [evidence |-> 16, context |-> 6, penalty |-> IF Outside(relation) THEN 10 ELSE 0])
      reflects == Raised([Draft("web", "web", relation.name) EXCEPT !.related = related],
                         [evidence |-> 18, context |-> 10])
  IN  ApplyDiff(IF relation.kind = "dns" THEN dns ELSE reflects, RecordsOf("relation", relation.name))

Severities == [info |-> 2, low |-> 4, medium |-> 6, high |-> 8, critical |-> 10]
FindingDraft(finding) ==
  LET draft == [Draft("finding", "finding", finding.name) EXCEPT
                  !.confidence = finding.confidence, !.evidence = FirstFew(finding.evidence, MaxRefs),
                  !.related = {finding.asset}]
      present == IF finding.asset \in NamesIn(aworld.assets) THEN 8 ELSE 0
  IN  ApplyDiff(Raised(Raised(Raised(draft, Corroborated(finding.evidence)), BreadthOf(finding.asset)),
                       [evidence |-> Min({finding.confidence \div 4, 25}), exposure |-> present,
                        context |-> Severities[finding.severity]]),
                RecordsOf("finding", finding.name))

UncertaintyDraft(record) ==
  Raised([Draft("uncertainty", "uncertainty", record.name) EXCEPT !.confidence = 35, !.inconclusive = TRUE],
         [evidence |-> 8, context |-> 4, penalty |-> 18])

-----------------------------------------------------------------------------
(* SignalBuilder.                                                            *)

\* merge: the greatest of each part, but what a second draft corroborates.
MergeDrafts(existing, incoming) ==
  [existing EXCEPT
     !.confidence = Max({@, incoming.confidence}),
     !.components = [part \in DOMAIN Ceilings |->
                       CASE part = "corroboration" -> Min({@[part] + 4, 15})
                         [] part = "breadth" -> @[part]
                         [] OTHER -> Max({@[part], incoming.components[part]})],
     !.evidence = @ \cup incoming.evidence, !.related = @ \cup incoming.related,
     !.new = @ \/ incoming.new, !.changed = @ \/ incoming.changed, !.persistent = @ /\ incoming.persistent,
     !.inconclusive = @ \/ incoming.inconclusive, !.external = @ \/ incoming.external]

\* summarize_signal: what a draft is counted as, before it is merged.
Counted(draft) ==
  <<Band(Total(draft.components))>>
    \o (CASE draft.category = "service" -> <<"network">> [] draft.category = "uncertainty" -> <<"inconclusive">>
          [] draft.category = "informational" -> <<>> [] OTHER -> <<draft.category>>)
    \o (IF draft.changed \/ draft.new THEN <<"change">> ELSE <<>>)
    \o (IF draft.inconclusive THEN <<"inconclusive">> ELSE <<>>)
    \o (IF draft.components.breadth > 0 THEN <<"correlation">> ELSE <<>>)

\* push, over a sequence of drafts.
Pushed(drafts, new) ==
  LET into[k \in 0..Len(new)] ==
        IF k = 0 THEN drafts
        ELSE LET before == into[k - 1] draft == new[k]
             IN  IF draft.id \in DOMAIN before THEN [before EXCEPT ![draft.id] = MergeDrafts(@, draft)]
                 ELSE IF Cardinality(DOMAIN before) >= MaxSignals THEN before
                 ELSE [id \in DOMAIN before \cup {draft.id} |-> IF id = draft.id THEN draft ELSE before[id]]
  IN  into[Len(new)]
Refused(drafts, new) ==
  LET kept == DOMAIN Pushed(drafts, new) IN Len(SelectSeq(new, LAMBDA draft : draft.id \notin kept))
PushDrafts(new) ==
  /\ adrafts' = Pushed(adrafts, new)
  /\ atally' = [total |-> atally.total + Len(new), truncated |-> atally.truncated + Refused(adrafts, new),
                summary |-> atally.summary \o FlattenSeq([k \in DOMAIN new |-> Counted(new[k])])]

-----------------------------------------------------------------------------
(* analyze_state.                                                            *)

InOrder(names) == [k \in 1..Cardinality(names) |-> CHOOSE n \in names : Cardinality({m \in names : m < n}) = k - 1]
AnalyzeAssets ==
  /\ astage = "assets" /\ astage' = IF aworld.diff.sameScan THEN "relations" ELSE "refused"
  /\ IF aworld.diff.sameScan
     THEN LET names == InOrder(NamesIn(aworld.assets))
          IN  PushDrafts([k \in DOMAIN names |-> AssetDraft(LastOf(aworld.assets, names[k]))])
     ELSE UNCHANGED <<adrafts, atally>>
  /\ UNCHANGED <<aworld, areport, amodel>>

AnalyzeRelationships ==
  /\ astage = "relations" /\ astage' = "findings"
  /\ LET told == SelectSeq(aworld.relations, LAMBDA r : r.kind \in {"dns", "reflects"})
     IN  PushDrafts([k \in DOMAIN told |-> RelationDraft(told[k])])
  /\ UNCHANGED <<aworld, areport, amodel>>

AnalyzeFindings ==
  /\ astage = "findings" /\ astage' = "uncertainty"
  /\ PushDrafts([k \in DOMAIN aworld.findings |-> FindingDraft(aworld.findings[k])])
  /\ UNCHANGED <<aworld, areport, amodel>>

AnalyzeDiffUncertainty ==
  /\ astage = "uncertainty" /\ astage' = "emit"
  /\ LET missing == SelectSeq(aworld.diff.records, LAMBDA r : r.change = "missing")
     IN  PushDrafts([k \in DOMAIN missing |-> UncertaintyDraft(missing[k])])
  /\ UNCHANGED <<aworld, areport, amodel>>

Types == <<"exposure", "finding", "web", "network", "dns", "uncertainty", "informational">>
TypeRank(type) == CHOOSE k \in DOMAIN Types : Types[k] = type
Signal(draft) ==
  [draft |-> [draft EXCEPT !.components = Bounded(@), !.evidence = FirstFew(@, MaxRefs), !.related = FirstFew(@, MaxRefs)],
   score |-> Total(draft.components), band |-> Band(Total(draft.components))]
\* sort_signals.
RankKey(s) == <<100 - s.score, 100 - s.draft.confidence, TypeRank(s.draft.id[1]), s.draft.id[2]>>
Ahead(s, t) ==
  \E k \in 1..4 : RankKey(s)[k] < RankKey(t)[k] /\ \A j \in 1..(k - 1) : RankKey(s)[j] = RankKey(t)[j]
Emit ==
  /\ astage = "emit" /\ astage' = "report"
  /\ LET all == {Signal(adrafts[id]) : id \in DOMAIN adrafts}
         signals == [k \in 1..Cardinality(all) |-> CHOOSE s \in all : Cardinality({r \in all : Ahead(r, s)}) = k - 1]
     IN  areport' = SubSeq(signals, 1, Min({TopSignals, Len(signals)}))
  /\ UNCHANGED <<aworld, adrafts, atally, amodel>>

\* build_report_model: here the first record of an asset counts.
FirstRecordOf(items, name) == items[Min({k \in DOMAIN items : items[k].name = name})]
NoReportModel == [openPorts |-> 0, dns |-> 0, missing |-> 0, shown |-> 0, cut |-> FALSE]
BuildReportModel ==
  /\ astage = "report" /\ astage' = "done"
  /\ LET assets == NamesIn(aworld.assets)
         relations == NamesIn(aworld.relations)
         shown == Min({Len(areport), ReportTop})
     IN  amodel' = [openPorts |-> Cardinality({n \in assets :
                      LET asset == FirstRecordOf(aworld.assets, n) IN asset.kind = "port" /\ "open" \in asset.traits}),
                    dns |-> Cardinality({n \in relations : FirstRecordOf(aworld.relations, n).kind = "dns"}),
                    missing |-> Cardinality({k \in DOMAIN aworld.diff.records : aworld.diff.records[k].change = "missing"}),
                    shown |-> shown,
                    cut |-> \/ atally.total > shown \/ Cardinality(assets) > DetailLimit
                            \/ Cardinality(relations) > DetailLimit \/ Cardinality(NamesIn(aworld.findings)) > DetailLimit]
  /\ UNCHANGED <<aworld, adrafts, atally, areport>>

AnalysisInit ==
  /\ aworld \in AnalysisWorlds /\ adrafts = <<>> /\ areport = <<>> /\ amodel = NoReportModel /\ astage = "assets"
  /\ atally = [total |-> 0, truncated |-> 0, summary |-> <<>>]
AnalysisNext ==
  AnalyzeAssets \/ AnalyzeRelationships \/ AnalyzeFindings \/ AnalyzeDiffUncertainty \/ Emit \/ BuildReportModel
AnalysisSpec == AnalysisInit /\ [][AnalysisNext]_analysisvars

-----------------------------------------------------------------------------
(* What the analysis promises.                                               *)

AnalysisTypeOK ==
  /\ Cardinality(DOMAIN adrafts) <= MaxSignals /\ Len(areport) <= TopSignals
  /\ \A k \in DOMAIN areport : areport[k].score \in 0..100 /\ Cardinality(areport[k].draft.evidence) <= MaxRefs

\* A signal is said to be new, changed or missing exactly if the difference of
\* the two scans says so of the item it is about, and nothing inconclusive is
\* told with confidence, however often it was drafted.
KindOf(id) == IF id[1] = "finding" THEN "finding" ELSE IF id[2] \in NamesIn(aworld.assets) THEN "asset" ELSE "relation"
ChangesOf(id) == {r.change : r \in RecordsOf(KindOf(id), id[2])}
ChangesTold ==
  \A k \in DOMAIN areport :
    LET s == areport[k].draft
    IN  s.id[1] # "uncertainty" =>
          /\ s.new = ("added" \in ChangesOf(s.id)) /\ s.changed = ("modified" \in ChangesOf(s.id))
          /\ s.persistent = (ChangesOf(s.id) = {})
          /\ s.inconclusive => s.confidence <= 45

\* docs/CONFIGURATION.md:178: a band is attention, not severity: without news
\* no signal reaches the highest, and only findings do.
HighMeansNews ==
  \A k \in DOMAIN areport :
    areport[k].band = "high" => areport[k].draft.id[1] = "finding" /\ (areport[k].draft.new \/ areport[k].draft.changed)

\* Nothing that was kept is stronger than what is reported; every draft is
\* counted once, in one band; and a report that tells of no cut shows all.
StrongestReported ==
  /\ \A id \in DOMAIN adrafts : \A k \in DOMAIN areport :
       (\A j \in DOMAIN areport : areport[j].draft.id # id) => Total(adrafts[id].components) <= areport[k].score
  /\ atally.total = Len(SelectSeq(atally.summary, LAMBDA c : c \in {"high", "medium", "low", "informational"}))
  /\ Cardinality(DOMAIN adrafts) < MaxSignals => atally.truncated = 0
  /\ (astage = "done" /\ ~amodel.cut) => amodel.shown = Cardinality(DOMAIN adrafts) /\ atally.truncated = 0

AnalysisSound == astage \in {"report", "done"} => ChangesTold /\ HighMeansNews /\ StrongestReported
=============================================================================
