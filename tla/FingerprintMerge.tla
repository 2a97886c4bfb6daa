-------------------------- MODULE FingerprintMerge --------------------------
(* External fingerprint rules and what a built-in observation makes of them: *)
(* loading the packs (src/src/fingerprints.rs), merging the rules that match *)
(* (src/src/service.rs) and the conclusion (src/src/service_probe.rs). Texts *)
(* are abstracted to what they say: a rule matches or not, and its version   *)
(* extractor finds something or nothing.                                     *)
EXTENDS Naturals, Sequences, FiniteSets, FiniteSetsExt, SequencesExt

CONSTANTS PackFiles,      \* the pack files, numbered in the order of their paths
          Packs,          \* the sets of rules such a file may hold
          Observations,   \* what the built-in probes may have seen
          MaxCandidates,  \* MAX_CANDIDATES_PER_OBSERVATION
          MaxAlternates   \* MAX_ALTERNATES

VARIABLES fdir,       \* what each file holds; "absent" files are not there
          fseen,      \* the built-in observation
          fread,      \* files read so far, in order
          faccepted,  \* [packs, rejected]
          frules,     \* the compiled database, or NotLoaded
          fout        \* the conclusion

fusionvars == <<fdir, fseen, fread, faccepted, frules, fout>>

\* Rule ids are numbers, in their order.
Rule == [id : Nat, protocol : STRING, product : STRING \ {"none"}, confidence : 1..95,
         version : STRING, hits : BOOLEAN]
\* A service nobody classified has no product; signals corroborate.
BuiltinFinding ==
  {o \in [protocol : STRING, product : STRING, version : STRING, confidence : 0..95, signals : Nat] :
     IF o.protocol = "unknown" THEN o.product = "none" /\ o.version = "none" ELSE o.confidence > 0}

ASSUME FusionAssumption ==
  /\ PackFiles \subseteq Nat /\ IsFiniteSet(PackFiles) /\ MaxCandidates \in Nat /\ MaxAlternates \in Nat
  /\ Observations \subseteq BuiltinFinding
  /\ \A pack \in Packs : IsFiniteSet(pack) /\ pack \subseteq Rule

Malformed == <<"malformed">>
RulesOf(rules) == <<"rules", rules>>
Absent == <<"absent">>
NotLoaded == [loaded |-> FALSE, rules |-> {}]
Database(rules) == [loaded |-> TRUE, rules |-> rules]
NoAnswer == [done |-> FALSE, product |-> "none", version |-> "none", confidence |-> 0,
             versionConfidence |-> 0, alternates |-> {}, agreeing |-> {}, conflicts |-> {},
             suggested |-> {}, source |-> "none"]

FusionInit ==
  /\ fdir \in [PackFiles -> {RulesOf(pack) : pack \in Packs} \cup {Malformed, Absent}]
  /\ fseen \in Observations
  /\ fread = {} /\ faccepted = [packs |-> <<>>, rejected |-> 0] /\ frules = NotLoaded /\ fout = NoAnswer

-----------------------------------------------------------------------------
(* Loading.                                                                  *)

\* FingerprintPack::validate refuses a pack that names an id twice.
ValidPack(pack) == \A r, s \in pack : r.id = s.id => r = s
Accepts(file) == fdir[file][1] = "rules" /\ ValidPack(fdir[file][2])

\* load_dir_strict: files in the order of their paths; a bad one is counted
\* and skipped.
ReadPack ==
  /\ ~frules.loaded
  /\ LET unread == {f \in PackFiles : fdir[f] # Absent} \ fread
     IN  /\ unread # {}
         /\ LET file == Min(unread)
            IN  /\ fread' = fread \cup {file}
                /\ faccepted' = IF Accepts(file)
                                THEN [faccepted EXCEPT !.packs = Append(@, fdir[file][2])]
                                ELSE [faccepted EXCEPT !.rejected = @ + 1]
  /\ UNCHANGED <<fdir, fseen, frules, fout>>

\* find_duplicate_service_id.
SharedId ==
  \E i, k \in DOMAIN faccepted.packs : i < k /\
    \E r \in faccepted.packs[i], s \in faccepted.packs[k] : r.id = s.id

\* load_from_dir: an id in two packs empties the database, whatever else was
\* read.
Compile ==
  /\ ~frules.loaded
  /\ fread = {f \in PackFiles : fdir[f] # Absent}
  /\ IF SharedId
     THEN frules' = Database({}) /\ faccepted' = [packs |-> <<>>, rejected |-> 1]
     ELSE frules' = Database(UNION ToSet(faccepted.packs)) /\ UNCHANGED faccepted
  /\ UNCHANGED <<fdir, fseen, fread, fout>>

-----------------------------------------------------------------------------
(* Merging.                                                                  *)

\* The first n of some rules, in an order.
Leading(rules, before, n) == {r \in rules : Cardinality({s \in rules : <<s, r>> \in before}) < n}
ById == {p \in frules.rules \X frules.rules : p[1].id < p[2].id}
\* merge_external_candidates looks at the strongest first.
Stronger(r, s) == r.confidence > s.confidence \/ (r.confidence = s.confidence /\ r.id < s.id)
ByStrength == {p \in frules.rules \X frules.rules : Stronger(p[1], p[2])}

\* candidates_for: rules of the protocol that match, the first ones by id.
FittingRules == Leading({r \in frules.rules : r.protocol = fseen.protocol /\ r.hits}, ById, MaxCandidates)

\* candidates_for_unknown: of any protocol, and only as suggestions.
SuggestedRules == Leading({r \in frules.rules : r.hits}, ById, MaxCandidates)
StrongestOf(rules) == CHOOSE r \in rules : \A s \in rules \ {r} : Stronger(r, s)

\* calibrate_confidence: one for each independent signal, an exact version
\* without one stays at 90, nothing passes 95.
Calibrated(base, signals, exact) ==
  LET raised == base + Min({signals, 5})
  IN  Min({95, IF exact /\ signals = 0 THEN Min({raised, 90}) ELSE raised})

Agreeing == {r \in FittingRules : r.product = fseen.product}

\* One hypothesis per other product, the strongest rule's.
\* Mutant: every other product is listed.
OthersUncapped(product) == {r \in FittingRules : r.product # product}

Others(product) ==
  Leading({r \in FittingRules : r.product # product /\ \A s \in FittingRules \ {r} : s.product = r.product => Stronger(r, s)},
          ByStrength, MaxAlternates)

\* The rules' versions that differ from the observed one, in the database's
\* order.
Conflicts ==
  IF fseen.version = "none" THEN {}
  ELSE Leading({r \in Agreeing : r.version \notin {"none", fseen.version}}, ById, MaxAlternates)

FieldVersion(version, own, confidence) ==
  IF version = "none" THEN 0 ELSE IF own = 0 THEN Min({confidence, 90}) ELSE own

\* The built-in product stands; an agreeing rule may add the version it lacks.
KeepBuiltin ==
  LET versioned == {r \in Agreeing : r.version # "none"}
      adopts == fseen.version = "none" /\ versioned # {}
      adopted == StrongestOf(versioned)
      confidence == Calibrated(fseen.confidence, fseen.signals, fseen.version # "none")
      version == IF adopts THEN adopted.version ELSE fseen.version
      own == IF adopts THEN Min({adopted.confidence, fseen.confidence, 95}) ELSE 0
  IN  [done |-> TRUE, product |-> fseen.product, version |-> version, confidence |-> confidence,
       versionConfidence |-> FieldVersion(version, own, confidence), alternates |-> Others(fseen.product),
       agreeing |-> {r.id : r \in Agreeing}, conflicts |-> {r.id : r \in Conflicts},
       suggested |-> {}, source |-> "builtin"]

\* Without one the strongest rule supplies it, at 90 at most; its version
\* takes the place of an observed one.
AdoptStrongest ==
  LET best == StrongestOf(FittingRules)
      adopted == Min({best.confidence, 90})
      confidence == Calibrated(adopted, fseen.signals, best.version # "none")
      version == IF best.version # "none" THEN best.version ELSE fseen.version
      own == IF best.version # "none" THEN Min({best.confidence, adopted}) ELSE 0
  IN  [done |-> TRUE, product |-> best.product, version |-> version, confidence |-> confidence,
       versionConfidence |-> FieldVersion(version, own, confidence), alternates |-> Others(best.product),
       agreeing |-> {}, conflicts |-> {}, suggested |-> {}, source |-> "rule"]

NothingAdded ==
  LET confidence == Calibrated(fseen.confidence, fseen.signals, fseen.version # "none")
  IN  [NoAnswer EXCEPT !.done = TRUE, !.version = fseen.version, !.confidence = confidence,
                       !.versionConfidence = FieldVersion(fseen.version, 0, confidence), !.source = "builtin"]

\* An unclassified service keeps its confidence and gets suggestions only.
Unclassified ==
  [NoAnswer EXCEPT !.done = TRUE, !.confidence = fseen.confidence,
                   !.suggested = {r.id : r \in SuggestedRules}]

\* finish_observation.
FinishObservation ==
  CASE fseen.protocol = "unknown" -> Unclassified
    [] fseen.protocol # "unknown" /\ fseen.product # "none" -> KeepBuiltin
    [] fseen.protocol # "unknown" /\ fseen.product = "none" /\ FittingRules # {} -> AdoptStrongest
    [] OTHER -> NothingAdded
Conclude ==
  /\ frules.loaded /\ ~fout.done /\ fout' = FinishObservation
  /\ UNCHANGED <<fdir, fseen, fread, faccepted, frules>>

FusionNext == ReadPack \/ Compile \/ Conclude
FusionSpec == FusionInit /\ [][FusionNext]_fusionvars

-----------------------------------------------------------------------------
(* What the merge promises.                                                  *)

FusionTypeOK ==
  /\ Len(faccepted.packs) + faccepted.rejected <= Cardinality(PackFiles)
  /\ fout.confidence <= 95 /\ Cardinality(fout.alternates) <= MaxAlternates

\* "Built-in evidence is authoritative": a product that was observed stays,
\* with its version and the confidence it had without any rule; rules that
\* read the same bytes never add to it.
BuiltinStands ==
  fout.done /\ fseen.product # "none" =>
    /\ fout.product = fseen.product
    /\ fseen.version # "none" => fout.version = fseen.version
    /\ fout.confidence = Calibrated(fseen.confidence, fseen.signals, fseen.version # "none")

\* What was not observed is never surer than what it hangs on: a version than
\* its product, a rule's product than 90 and the signals, an unclassified
\* service names nothing.
NothingInflated ==
  fout.done =>
    /\ fout.product # "none" => fout.versionConfidence <= fout.confidence
    /\ fout.source = "rule" => fout.confidence <= 90 + fseen.signals
    /\ fseen.protocol = "unknown" => fout.product = "none" /\ fout.version = "none"

\* Ambiguity stays visible: every product a rule named is the conclusion or an
\* alternate as long as there is room, once, and no rule of another protocol
\* takes part.
ConflictsVisible ==
  fout.done /\ fseen.protocol # "unknown" =>
    /\ \A a, b \in fout.alternates : a.product = b.product => a = b
    /\ \A a \in fout.alternates : a.product # fout.product /\ a.protocol = fseen.protocol
    /\ Cardinality(fout.alternates) < MaxAlternates =>
         \A r \in FittingRules : r.product \in {fout.product} \cup {a.product : a \in fout.alternates}

\* No rule shadows another of the same id: the database holds each id once,
\* and every rule of an accepted pack.
NoShadowing ==
  frules.loaded =>
    /\ \A r, s \in frules.rules : r.id = s.id => r = s
    /\ frules.rules = UNION ToSet(faccepted.packs)

FusionSound == BuiltinStands /\ NothingInflated /\ ConflictsVisible /\ NoShadowing
=============================================================================
