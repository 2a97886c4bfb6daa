----------------------------- MODULE FileProofs -----------------------------
(***************************************************************************)
(* Theorems about the three files that are replaced as a whole, for any    *)
(* number of processes, scans, tasks and commands: the output path, the    *)
(* project file and the checkpoint.                                        *)
(***************************************************************************)
EXTENDS MCFiles, QueueLemmas, TLAPS

-----------------------------------------------------------------------------
(* The output path: each process has a temporary name of its own.          *)

Scan == 1..MaxScans

OutputType ==
  /\ pc \in [Process -> {"idle", "streaming", "synced"}]
  /\ scan \in [Process -> Nat] /\ scans \in Nat
  /\ ended \in SUBSET Scan
  /\ final \in Inode \cup {None}
  /\ temp \in [Names -> Inode \cup {None}]
  /\ fd \in [Process -> Inode \cup {None}]
  /\ disk \in [Inode -> Scan \cup {Torn}]

\* What a process holds at each place of its scan.
Holds(p) ==
  /\ pc[p] # "streaming" => fd[p] = None
  /\ pc[p] = "streaming" => fd[p] = temp[TempOf[p]]
  /\ pc[p] # "idle" => temp[TempOf[p]] # None /\ scan[p] \in Scan
  /\ pc[p] = "synced" => disk[temp[TempOf[p]]] = scan[p]

\* No inode has two names, so nobody writes to what another process, or a
\* reader of the output path, looks at.
OwnInodes ==
  /\ \A n \in Names : temp[n] # None => temp[n] # final
  /\ \A n, m \in Names : temp[n] # None /\ temp[n] = temp[m] => n = m

OutputInv ==
  /\ OutputType
  /\ lone = [p \in Process |-> TRUE]
  /\ \A p \in Process : Holds(p)
  /\ OwnInodes
  /\ final = None => ended = {}
  /\ final # None => disk[final] \in ended

\* The path is empty, nobody writes.
LEMMA OutputInvInit == OutputInit => OutputInv
  BY DEF OutputInit, FileInit, OutputType, Names, OwnInodes, Holds, OutputInv

\* A writer opens an inode that has no other name: its own leftover, or a new one.
LEMMA OpensOwn ==
  ASSUME OutputInv, NEW p \in Process, pc[p] = "idle", Opens(p)
  PROVE  \E i \in Inode :
           /\ temp' = [temp EXCEPT ![TempOf[p]] = i]
           /\ disk' = [disk EXCEPT ![i] = Torn]
           /\ fd' = [fd EXCEPT ![p] = i]
           /\ final' = final /\ lone' = [q \in Process |-> TRUE]
           /\ i # final
           /\ \A n \in Names : n # TempOf[p] => temp[n] # i
<1> DEFINE name == TempOf[p]
<1>1. PICK i \in Inode :
        /\ IF temp[name] = None THEN ~InUse(i) ELSE i = temp[name]
        /\ temp' = [temp EXCEPT ![name] = i]
        /\ disk' = [disk EXCEPT ![i] = Torn]
        /\ fd' = [fd EXCEPT ![p] = i]
        /\ lone' = [q \in Process |-> IF q = p THEN \A r \in Process \ {p} : fd[r] # i
                                               ELSE lone[q] /\ fd[q] # i]
        /\ UNCHANGED final
  BY DEF Opens
<1>2. name \in Names /\ i # None
  BY FileConstants DEF Names
<1>3. i # final /\ \A n \in Names : n # name => temp[n] # i
  BY <1>1, <1>2 DEF InUse, OutputInv, OwnInodes, OutputType
<1>4. ASSUME NEW q \in Process, q # p PROVE fd[q] # i /\ lone[q] = TRUE
  BY <1>2, <1>3, <1>4, OutputConstants DEF Names, OutputInv, Holds
<1>5. lone' = [q \in Process |-> TRUE]
  BY <1>1, <1>4
<1> QED
  BY <1>1, <1>3, <1>5

\* Every step keeps the invariant.
LEMMA OutputInvNext == OutputInv /\ [OutputNext]_vars => OutputInv'
<1> SUFFICES ASSUME OutputInv, [OutputNext]_vars PROVE OutputInv'
  OBVIOUS
<1>1. \A q \in Process : TempOf[q] \in Names
  BY DEF Names
<1>2. \A q, r \in Process : q # r => TempOf[q] # TempOf[r]
  BY OutputConstants
<1>3. None \notin Inode
  BY FileConstants
<1>4. CASE UNCHANGED vars
  BY <1>4 DEF vars, file, OutputInv, OutputType, OwnInodes, Holds
<1>5. ASSUME NEW p \in Process, CreateWriter(p) PROVE OutputInv'
  <2>1. PICK i \in Inode :
          /\ temp' = [temp EXCEPT ![TempOf[p]] = i]
          /\ disk' = [disk EXCEPT ![i] = Torn]
          /\ fd' = [fd EXCEPT ![p] = i]
          /\ final' = final /\ lone' = [q \in Process |-> TRUE]
          /\ i # final
          /\ \A n \in Names : n # TempOf[p] => temp[n] # i
    BY <1>5, OpensOwn DEF CreateWriter, At
  <2>2. /\ pc[p] = "idle" /\ pc' = [pc EXCEPT ![p] = "streaming"]
        /\ scans < MaxScans /\ scans' = scans + 1 /\ scan' = [scan EXCEPT ![p] = scans']
        /\ ended' = ended
    BY <1>5 DEF CreateWriter, At
  <2>3. scans' \in Scan /\ scans' \in Nat
    BY <2>2, OutputConstants DEF Scan, OutputInv, OutputType
  <2>4. OutputType'
    BY <1>1, <2>1, <2>2, <2>3 DEF OutputInv, OutputType
  <2>5. OwnInodes'
    BY <1>1, <2>1 DEF OutputInv, OutputType, OwnInodes
  <2>6. ASSUME NEW q \in Process PROVE Holds(q)'
    BY <1>1, <1>2, <1>3, <2>1, <2>2, <2>3 DEF Holds, OutputInv, OutputType
  <2>7. final # None => disk'[final] = disk[final]
    BY <2>1 DEF OutputInv, OutputType
  <2> QED
    BY <2>1, <2>2, <2>4, <2>5, <2>6, <2>7 DEF OutputInv
<1>6. ASSUME NEW p \in Process, SyncAll(p) PROVE OutputInv'
  <2> DEFINE i == temp[TempOf[p]]
  <2>1. pc[p] = "streaming" /\ fd[p] = i /\ i \in Inode /\ i # final /\ scan[p] \in Scan
        /\ lone[p] = TRUE
    BY <1>1, <1>6 DEF SyncAll, At, Holds, OutputInv, OwnInodes, OutputType
  <2>2. /\ disk' = [disk EXCEPT ![i] = scan[p]]
        /\ fd' = [fd EXCEPT ![p] = None]
        /\ pc' = [pc EXCEPT ![p] = "synced"]
        /\ UNCHANGED <<final, temp, scan, scans, ended>>
    BY <1>6, <2>1 DEF SyncAll, Writes, At
  <2>3. ASSUME NEW q \in Process, q # p PROVE fd[q] # i /\ temp[TempOf[q]] # i
    BY <1>1, <1>2, <1>3, <2>1, <2>3 DEF Holds, OutputInv, OwnInodes
  <2>4. lone' = [q \in Process |-> TRUE]
    BY <1>6, <2>1, <2>3 DEF SyncAll, Writes, OutputInv
  <2>5. OutputType'
    BY <2>1, <2>2 DEF OutputInv, OutputType
  <2>6. OwnInodes'
    BY <2>2 DEF OutputInv, OwnInodes
  <2>7. ASSUME NEW q \in Process PROVE Holds(q)'
    BY <1>1, <1>3, <2>1, <2>2, <2>3 DEF Holds, OutputInv, OutputType
  <2>8. final # None => disk'[final] = disk[final]
    BY <2>1, <2>2 DEF OutputInv, OutputType
  <2> QED
    BY <2>2, <2>4, <2>5, <2>6, <2>7, <2>8 DEF OutputInv
<1>7. ASSUME NEW p \in Process, DropWriter(p) PROVE OutputInv'
  <2>1. /\ pc[p] = "streaming" /\ pc' = [pc EXCEPT ![p] = "idle"]
        /\ fd' = [fd EXCEPT ![p] = None] /\ lone' = [lone EXCEPT ![p] = TRUE]
        /\ temp' = [temp EXCEPT ![TempOf[p]] = None]
        /\ UNCHANGED <<final, disk, scan, scans, ended>>
    BY <1>7 DEF DropWriter, At, Closes, Removes
  <2>2. OutputType' /\ lone' = [q \in Process |-> TRUE]
    BY <1>1, <2>1 DEF OutputInv, OutputType
  <2>3. OwnInodes'
    BY <1>1, <2>1 DEF OutputInv, OwnInodes, OutputType
  <2>4. ASSUME NEW q \in Process PROVE Holds(q)'
    BY <1>1, <1>2, <2>1 DEF Holds, OutputInv, OutputType
  <2> QED
    BY <2>1, <2>2, <2>3, <2>4 DEF OutputInv
<1>8. ASSUME NEW p \in Process, Finish(p) PROVE OutputInv'
  BY <1>1, <1>2, <1>3, <1>8 DEF Finish, At, Holds, OutputInv, OwnInodes, OutputType, Renames, Removes
<1>9. ASSUME NEW p \in Process, Kill(p) PROVE OutputInv'
  BY <1>9 DEF Kill, Closes, OutputInv, OutputType, OwnInodes, Holds
<1> QED
  BY <1>4, <1>5, <1>6, <1>7, <1>8, <1>9 DEF OutputNext

-----------------------------------------------------------------------------

\* However many scans write to one path and wherever they are killed, the path
\* holds the whole output of one that ended (AtomicFileWriter).
THEOREM OutputStaysWhole == OutputSpec => []OutputIsWhole
<1>1. OutputInv => OutputIsWhole
  BY OutputConstants DEF OutputInv, OutputType, Scan, OutputIsWhole, Content
<1> QED
  BY <1>1, OutputInvInit, OutputInvNext, PTL DEF OutputSpec

\* To a reader the path is a Cell: every step of every writer leaves it alone
\* or replaces one whole output by another.
THEOREM OutputImplementsCell == OutputSpec => ReplacesAtomically
<1>1. OutputInit => Stored!Init
  BY DEF OutputInit, FileInit, Stored!Init, Content
<1>2. OutputInv /\ [OutputNext]_vars => [Stored!Put]_Content
  BY FileConstants, OpensOwn, OutputInvNext DEF Stored!Put, Scan, vars, file, Content, CreateWriter, At,
     OutputInv, OutputType, SyncAll, Writes, Holds, OwnInodes, Names, DropWriter, Kill, Finish, Renames,
     OutputNext
<1> QED
  BY <1>1, <1>2, OutputInvInit, OutputInvNext, PTL DEF OutputSpec, ReplacesAtomically, Stored!Spec

-----------------------------------------------------------------------------
(* The project file: one temporary name, a revision that is compared.      *)

Proj == Project!Project
Saving == {"checked", "created", "written"}

\* s and r agree on their first n entries.
Agree(n, s, r) == n <= Len(s) /\ n <= Len(r) /\ \A i \in 1 .. n : s[i] = r[i]

ProjectType ==
  /\ pfinal \in Inode \cup {None}
  /\ ptemp \in [{SharedTemp[p] : p \in Process} -> Inode \cup {None}]
  /\ pdisk \in [Inode -> Proj \cup {Torn}]
  /\ pfd \in [Process -> Inode \cup {None}]
  /\ plone \in [Process -> BOOLEAN]
  /\ ppc \in [Process -> {"idle", "loaded", "imported"} \cup Saving]
  /\ held \in [Process -> Proj]
  /\ expected \in [Process -> (0 .. Cardinality(Scans)) \cup {None}]
  /\ raced \in BOOLEAN
  /\ \A p \in Process : pfd[p] # None <=> ppc[p] = "created"

\* What p may do with its temporary file: it is the only one that saves, and
\* the temporary file is not the project's.
Alone(p) ==
  /\ plone[p] = TRUE
  /\ ppc[p] \in Saving => \A q \in Process : ppc[q] \in Saving => q = p
  /\ ptemp[tmp] # None => ptemp[tmp] # pfinal
  /\ ppc[p] = "created" => pfd[p] = ptemp[tmp] /\ ptemp[tmp] # None
  /\ ppc[p] = "written" => ptemp[tmp] # None /\ pdisk[ptemp[tmp]] = held[p]

\* The project that p loaded is still the beginning of the project in the
\* file; when p saves, it was the whole of it.
Current(p) ==
  /\ ppc[p] \in {"loaded", "imported"} =>
       /\ expected[p] # None /\ pfinal # None
       /\ Agree(expected[p], held[p], pdisk[pfinal])
       /\ ppc[p] = "loaded" => Len(held[p]) = expected[p]
       /\ ppc[p] = "imported" => Len(held[p]) \in {expected[p], expected[p] + 1}
  /\ ppc[p] \in Saving =>
       IF expected[p] = None THEN held[p] = <<>>
       ELSE pfinal # None /\ Agree(Len(pdisk[pfinal]), held[p], pdisk[pfinal])

FileWhole ==
  /\ pfinal = None => acked = {}
  /\ pfinal # None => pdisk[pfinal] \in Proj /\ acked \subseteq Project!Range(pdisk[pfinal])

ProjectInv ==
  /\ ProjectType
  /\ raced = FALSE => FileWhole /\ \A p \in Process : Alone(p) /\ Current(p)

\* What a project is, written with this module's operators.
LEMMA ProjectSet ==
  Proj = {r \in UNION {[1 .. n -> Scans] : n \in 0 .. Cardinality(Scans)} :
            \A i, j \in DOMAIN r : r[i] = r[j] => i = j}
  BY DEF Project!Cardinality, Cardinality, Project!IsInjective, Proj, Project!Project

\* A project is a row of distinct scans.
LEMMA ProjectRow ==
  ASSUME NEW r \in Proj
  PROVE  /\ r \in Seq(Scans) /\ Len(r) \in 0 .. Cardinality(Scans) /\ r \in [1 .. Len(r) -> Scans]
         /\ DOMAIN r = 1 .. Len(r)
         /\ \A i, j \in 1 .. Len(r) : r[i] = r[j] => i = j
<1>1. PICK n \in 0 .. Cardinality(Scans) : r \in [1 .. n -> Scans]
  BY ProjectSet, Zenon
<1>2. Cardinality(Scans) \in Nat
  BY FS_CardinalityType, FilesAssumption DEF FilesAssumption
<1>3. n \in Nat /\ r \in Seq(Scans) /\ Len(r) = n
  BY <1>1, <1>2
<1>4. \A i, j \in DOMAIN r : r[i] = r[j] => i = j
  BY ProjectSet
<1> QED
  BY <1>1, <1>3, <1>4

\* A project starts without scans.
LEMMA EmptyProject == <<>> \in Proj /\ Len(<<>>) = 0
  BY FS_CardinalityType, FilesAssumption, ProjectSet DEF FilesAssumption

\* One more scan makes another project, which begins with the old one.
LEMMA LongerProject ==
  ASSUME NEW r \in Proj, NEW s \in Scans, s \notin Project!Range(r)
  PROVE  /\ Append(r, s) \in Proj /\ Len(Append(r, s)) = Len(r) + 1
         /\ \A i \in 1 .. Len(r) : Append(r, s)[i] = r[i]
         /\ Project!Range(Append(r, s)) = Project!Range(r) \cup {s}
<1> DEFINE n == Len(r)
           t == Append(r, s)
<1>1. /\ r \in Seq(Scans) /\ n \in Nat /\ DOMAIN r = 1 .. n
      /\ \A i, j \in 1 .. n : r[i] = r[j] => i = j
  BY FS_CardinalityType, FilesAssumption, ProjectRow DEF FilesAssumption
<1>2. /\ t \in Seq(Scans) /\ Len(t) = n + 1 /\ DOMAIN t = 1 .. n + 1
      /\ \A i \in 1 .. n : t[i] = r[i]
      /\ t[n + 1] = s
  BY <1>1
<1>3. \A i \in 1 .. n : r[i] # s
  BY <1>1 DEF Project!Range
<1>4. \A i, j \in 1 .. n + 1 : t[i] = t[j] => i = j
  BY <1>1, <1>2, <1>3
<1>5. n + 1 <= Cardinality(Scans)
  <2> HIDE DEF t, n
  <2>1. n + 1 \in Nat /\ t \in [1 .. n + 1 -> Scans]
    BY <1>1, <1>2, ElementOfSeq, LenProperties
  <2>2. t \in Injection(1 .. n + 1, Scans)
    BY <1>4, <2>1 DEF Injection, IsInjective
  <2>3. IsFiniteSet(Scans)
    BY FilesAssumption DEF FilesAssumption
  <2>4. Cardinality(1 .. n + 1) <= Cardinality(Scans)
    BY <2>2, <2>3, FS_Injection
  <2>5. n + 1 \in Int /\ 1 \in Int /\ n + 1 >= 1 /\ (n + 1) - 1 + 1 = n + 1
    BY <1>1
  <2>6. Cardinality(1 .. n + 1) = n + 1
    BY <2>5, FS_Interval
  <2> QED
    BY <2>4, <2>6
<1>6. t \in Proj
  <2>1. n + 1 \in 0 .. Cardinality(Scans)
    BY <1>1, <1>5, FS_CardinalityType, FilesAssumption DEF FilesAssumption
  <2>2. t \in [1 .. n + 1 -> Scans]
    BY <1>2, LenProperties
  <2> HIDE DEF t, n
  <2>3. t \in UNION {[1 .. m -> Scans] : m \in 0 .. Cardinality(Scans)}
    BY <2>1, <2>2
  <2> QED
    BY <1>2, <1>4, <2>3, ProjectSet
<1>7. Project!Range(t) = Project!Range(r) \cup {s}
  BY <1>1, <1>2 DEF Project!Range
<1> QED
  BY <1>2, <1>6, <1>7

\* Every process has the one temporary name, and no mark of absence is a value.
LEMMA Setup ==
  /\ \A p \in Process : SharedTemp[p] = tmp
  /\ {SharedTemp[p] : p \in Process} = {q \in {tmp} : Process # {}}
  /\ None \notin Inode /\ None \notin 0 .. Cardinality(Scans)
  /\ Cardinality(Scans) \in Nat
  /\ None \notin Proj /\ Torn \notin Proj
  BY FS_CardinalityType, FileConstants, FilesAssumption DEF FilesAssumption, SharedTemp, FileConstants, Proj

\* No project, no command.
LEMMA ProjectInvInit == Project!ProjectInit => ProjectInv
<1> SUFFICES ASSUME Project!ProjectInit PROVE ProjectInv
  OBVIOUS
<1> USE DEF Project!ProjectInit, Project!FileInit
<1>1. ProjectType
  BY Setup, EmptyProject DEF ProjectType
<1>2. FileWhole
  BY DEF FileWhole
<1>3. \A p \in Process : Alone(p) /\ Current(p)
  BY Setup DEF Alone, Current, Saving
<1> QED
  BY <1>1, <1>2, <1>3 DEF ProjectInv

\* Every step of a command keeps the types, whatever has raced.
LEMMA ProjectTypeNext == ProjectType /\ [Project!ProjectNext]_project => ProjectType'
<1> SUFFICES ASSUME ProjectType, [Project!ProjectNext]_project PROVE ProjectType'
  OBVIOUS
<1>1. CASE UNCHANGED project
  BY <1>1 DEF project, ProjectType
<1>2. ASSUME NEW p \in Process, Project!CreateProject(p) PROVE ProjectType'
  BY <1>2, EmptyProject DEF ProjectType, Project!CreateProject, Project!At, Project!EntersSave, Project!file, Saving
<1>3. ASSUME NEW p \in Process, Project!LoadProject(p) PROVE ProjectType'
  BY <1>3, ProjectRow DEF ProjectType, Project!LoadProject, Project!Content, Project!At, Project!Revision,
     Project!file, Saving
<1>4. ASSUME NEW p \in Process, Project!AddScan(p) PROVE ProjectType'
  BY <1>4, LongerProject DEF Project!AddScan, ProjectType, Project!At, Project!file, Saving
<1>5. ASSUME NEW p \in Process, Project!CheckRevision(p) \/ Project!RefuseConflict(p) PROVE ProjectType'
  BY <1>5 DEF ProjectType, Project!CheckRevision, Project!RefuseConflict, Project!At, Project!EntersSave, Project!file, Saving
<1>6. ASSUME NEW p \in Process, Project!OpenTemp(p) PROVE ProjectType'
  <2>1. PICK i \in Inode :
          /\ ptemp' = [ptemp EXCEPT ![tmp] = i] /\ pdisk' = [pdisk EXCEPT ![i] = Torn]
          /\ pfd' = [pfd EXCEPT ![p] = i]
          /\ plone' = [q \in Process |-> IF q = p THEN \A r \in Process \ {p} : pfd[r] # i
                                                  ELSE plone[q] /\ pfd[q] # i]
          /\ UNCHANGED pfinal
    BY <1>6, Setup DEF Project!OpenTemp, Project!Opens
  <2>2. ppc[p] = "checked" /\ ppc' = [ppc EXCEPT ![p] = "created"]
        /\ UNCHANGED <<held, expected, raced>>
    BY <1>6 DEF Project!OpenTemp, Project!At
  <2>3. plone' \in [Process -> BOOLEAN]
    BY <2>1
  <2>4. \A q \in Process : pfd'[q] # None <=> ppc'[q] = "created"
    BY <2>1, <2>2, Setup DEF ProjectType
  <2> QED
    BY <2>1, <2>2, <2>3, <2>4, Setup DEF ProjectType, Saving
<1>7. ASSUME NEW p \in Process, Project!WriteProject(p) PROVE ProjectType'
  <2>1. PICK doc \in {held[p], Torn} : pdisk' = [pdisk EXCEPT ![pfd[p]] = doc]
    BY <1>7 DEF Project!WriteProject, Project!Writes
  <2>2. /\ ppc[p] = "created" /\ ppc' = [ppc EXCEPT ![p] = "written"]
        /\ pfd' = [pfd EXCEPT ![p] = None]
        /\ plone' = [q \in Process |-> IF q = p THEN TRUE ELSE plone[q] /\ pfd[q] # pfd[p]]
        /\ UNCHANGED <<pfinal, ptemp, held, expected, raced>>
    BY <1>7 DEF Project!WriteProject, Project!Writes, Project!At
  <2>3. plone' \in [Process -> BOOLEAN]
    BY <2>2
  <2>4. \A q \in Process : pfd'[q] # None <=> ppc'[q] = "created"
    BY <2>2, Setup DEF ProjectType
  <2>5. pdisk' \in [Inode -> Proj \cup {Torn}]
    BY <2>1 DEF ProjectType
  <2> QED
    BY <2>2, <2>3, <2>4, <2>5, Setup DEF ProjectType, Saving
<1>8. ASSUME NEW p \in Process, Project!WriteFails(p) PROVE ProjectType'
  BY <1>8, Setup DEF ProjectType, Project!WriteFails, Project!Closes, Project!Removes, Project!At, Saving
<1>9. ASSUME NEW p \in Process, Project!ReplaceProject(p) PROVE ProjectType'
  BY <1>9, Setup DEF ProjectType, Project!ReplaceProject, Project!Renames, Project!Removes, Project!At, Saving
<1>10. ASSUME NEW p \in Process, Project!RenameFails(p) PROVE ProjectType'
  BY <1>10 DEF ProjectType, Project!RenameFails, Project!At, Project!file, Saving
<1>11. ASSUME NEW p \in Process, Project!Kill(p) PROVE ProjectType'
  BY <1>11 DEF ProjectType, Project!Kill, Project!Closes, Saving
<1> QED
  BY <1>1, <1>2, <1>3, <1>4, <1>5, <1>6, <1>7, <1>8, <1>9, <1>10, <1>11 DEF Project!ProjectNext

\* Steps that only move a process that does not save, or ends.
LEMMA QuietSteps ==
  ASSUME ProjectInv, raced = FALSE, NEW p \in Process, NEW to \in {"loaded", "imported", "idle"},
         ppc' = [ppc EXCEPT ![p] = to],
         pfinal' = pfinal, ptemp' = ptemp \/ ptemp' = [ptemp EXCEPT ![tmp] = None],
         pdisk' = pdisk, acked' = acked,
         pfd' = pfd \/ pfd' = [pfd EXCEPT ![p] = None],
         plone' = plone \/ plone' = [plone EXCEPT ![p] = TRUE],
         ptemp' = ptemp \/ ppc[p] \in Saving,
         \A q \in Process : q # p => held'[q] = held[q] /\ expected'[q] = expected[q],
         Current(p)'
  PROVE  FileWhole' /\ \A q \in Process : Alone(q)' /\ Current(q)'
<1> USE DEF ProjectInv
<1>1. FileWhole'
  BY DEF FileWhole
<1>2. ASSUME NEW q \in Process, q # p PROVE Alone(q)' /\ Current(q)'
  BY <1>2, Setup DEF ProjectType, Current, Alone, Saving
<1>3. Alone(p)'
  BY Setup DEF ProjectType, Alone, Saving
<1> QED
  BY <1>1, <1>2, <1>3

\* p begins to save and nobody else saves.
LEMMA SaveSteps ==
  ASSUME ProjectInv, raced = FALSE, NEW p \in Process,
         ppc' = [ppc EXCEPT ![p] = "checked"],
         \A q \in Process : ppc[q] \in Saving => q = p,
         UNCHANGED <<pfinal, ptemp, pdisk, pfd, plone, acked>>,
         \A q \in Process : q # p => held'[q] = held[q] /\ expected'[q] = expected[q],
         Current(p)'
  PROVE  FileWhole' /\ \A q \in Process : Alone(q)' /\ Current(q)'
<1> USE DEF ProjectInv
<1>1. FileWhole'
  BY DEF FileWhole
<1>2. ASSUME NEW q \in Process PROVE Alone(q)'
  BY <1>2 DEF Alone, Saving, ProjectType
<1>3. ASSUME NEW q \in Process, q # p PROVE Current(q)'
  BY <1>3 DEF Current, ProjectType
<1> QED
  BY <1>1, <1>2, <1>3

\* Every step of a command keeps the invariant.
LEMMA ProjectInvNext == ProjectInv /\ [Project!ProjectNext]_project => ProjectInv'
<1> SUFFICES ASSUME ProjectInv, [Project!ProjectNext]_project, raced' = FALSE
             PROVE  FileWhole' /\ \A q \in Process : Alone(q)' /\ Current(q)'
  BY ProjectTypeNext DEF ProjectInv
<1>1. CASE UNCHANGED project
  BY <1>1 DEF project, ProjectInv, FileWhole, Alone, Current
<1>2. ASSUME NEW p \in Process, Project!CreateProject(p)
      PROVE  FileWhole' /\ \A q \in Process : Alone(q)' /\ Current(q)'
  BY <1>2, SaveSteps DEF Project!CreateProject, Project!At, Project!EntersSave, Project!file, ProjectInv,
     ProjectType, Project!Saving, Saving, Current
<1>3. ASSUME NEW p \in Process, Project!LoadProject(p)
      PROVE  FileWhole' /\ \A q \in Process : Alone(q)' /\ Current(q)'
  <2>1. /\ ppc[p] = "idle" /\ ppc' = [ppc EXCEPT ![p] = "loaded"]
        /\ pfinal # None /\ pdisk[pfinal] # Torn
        /\ held' = [held EXCEPT ![p] = pdisk[pfinal]]
        /\ expected' = [expected EXCEPT ![p] = Len(pdisk[pfinal])]
        /\ UNCHANGED <<pfinal, ptemp, pdisk, pfd, plone, acked>> /\ raced = FALSE
    BY <1>3 DEF Project!LoadProject, Project!At, Project!file, Project!Content, Project!Revision
  <2>2. pdisk[pfinal] \in Proj /\ Len(pdisk[pfinal]) \in 0 .. Cardinality(Scans)
    BY <2>1, ProjectRow DEF ProjectInv, ProjectType
  <2>3. Current(p)'
    BY <2>1, <2>2, Setup DEF ProjectInv, ProjectType, Agree, Current, Saving
  <2>4. \A q \in Process : q # p => held'[q] = held[q] /\ expected'[q] = expected[q]
    BY <2>1 DEF ProjectInv, ProjectType
  <2> QED
    BY <2>1, <2>3, <2>4, QuietSteps
<1>4. ASSUME NEW p \in Process, Project!AddScan(p)
      PROVE  FileWhole' /\ \A q \in Process : Alone(q)' /\ Current(q)'
  <2>1. PICK s \in Scans : held' = [held EXCEPT ![p] = IF s \in Project!Range(@) THEN @ ELSE Append(@, s)]
    BY <1>4 DEF Project!AddScan
  <2>2. /\ ppc[p] = "loaded" /\ ppc' = [ppc EXCEPT ![p] = "imported"]
        /\ UNCHANGED <<pfinal, ptemp, pdisk, pfd, plone, acked, expected>> /\ raced = FALSE
    BY <1>4 DEF Project!AddScan, Project!At, Project!file
  <2>3. held[p] \in Proj /\ Len(held[p]) \in Nat
    BY ProjectRow, Setup DEF ProjectInv, ProjectType
  <2>4. held'[p] = held[p] \/ (/\ Len(held'[p]) = Len(held[p]) + 1
                                /\ \A i \in 1 .. Len(held[p]) : held'[p][i] = held[p][i])
    BY <2>1, <2>3, LongerProject DEF ProjectInv, ProjectType
  <2>5. Current(p)'
    BY <2>2, <2>3, <2>4 DEF Current, ProjectInv, Agree, ProjectType, Saving
  <2>6. \A q \in Process : q # p => held'[q] = held[q] /\ expected'[q] = expected[q]
    BY <2>1, <2>2 DEF ProjectInv, ProjectType
  <2> QED
    BY <2>2, <2>5, <2>6, QuietSteps
<1>5. ASSUME NEW p \in Process, Project!CheckRevision(p)
      PROVE  FileWhole' /\ \A q \in Process : Alone(q)' /\ Current(q)'
  <2>1. /\ ppc[p] = "imported" /\ ppc' = [ppc EXCEPT ![p] = "checked"]
        /\ ~Project!Conflicts(p)
        /\ UNCHANGED <<pfinal, ptemp, pdisk, pfd, plone, acked, held, expected>>
        /\ raced = FALSE /\ {q \in Process \ {p} : ppc[q] \in Saving} = {}
    BY <1>5 DEF Project!CheckRevision, Project!At, Project!EntersSave, Project!file, ProjectInv, ProjectType,
                Project!Saving, Saving
  <2> DEFINE r == pdisk[pfinal]
  <2>2. /\ expected[p] # None /\ pfinal # None /\ r \in Proj
        /\ Agree(expected[p], held[p], r)
        /\ Len(held[p]) \in {expected[p], expected[p] + 1}
    BY <2>1 DEF Current, ProjectInv, FileWhole
  <2>3. Len(r) = expected[p] /\ ~(Len(r) = Len(held[p]) /\ r # held[p])
    BY <2>1, <2>2, Setup DEF Project!Conflicts, Project!Content, Project!Revision
  <2>4. Agree(Len(r), held[p], r)
    BY <2>2, <2>3
  <2>5. Current(p)'
    BY <2>1, <2>2, <2>4 DEF ProjectInv, ProjectType, Current, Saving
  <2>6. \A q \in Process : q # p => held'[q] = held[q] /\ expected'[q] = expected[q]
    BY <2>1
  <2>7. \A q \in Process : ppc[q] \in Saving => q = p
    BY <2>1
  <2> QED
    BY <2>1, <2>5, <2>6, <2>7, SaveSteps
<1>6. ASSUME NEW p \in Process,
             Project!RefuseConflict(p) \/ Project!WriteFails(p) \/ Project!RenameFails(p) \/ Project!Kill(p)
      PROVE  FileWhole' /\ \A q \in Process : Alone(q)' /\ Current(q)'
  <2>1. /\ ppc' = [ppc EXCEPT ![p] = "idle"]
        /\ UNCHANGED <<pfinal, pdisk, acked, held, expected>> /\ raced = FALSE
    BY <1>6 DEF Project!RefuseConflict, Project!WriteFails, Project!RenameFails, Project!Kill, Project!At, Project!file
  <2>2. /\ ptemp' = ptemp \/ ptemp' = [ptemp EXCEPT ![tmp] = None]
        /\ pfd' = pfd \/ pfd' = [pfd EXCEPT ![p] = None]
        /\ plone' = plone \/ plone' = [plone EXCEPT ![p] = TRUE]
        /\ ptemp' = ptemp \/ ppc[p] \in Saving
    BY <1>6, Setup DEF Project!RefuseConflict, Project!WriteFails, Project!RenameFails, Project!Kill, Project!At,
                Project!file, Project!Closes, Project!Removes, Saving
  <2>3. Current(p)'
    BY <2>1 DEF Current, Saving, ProjectInv, ProjectType
  <2> QED
    BY <2>1, <2>2, <2>3, QuietSteps
<1>7. ASSUME NEW p \in Process, Project!OpenTemp(p)
      PROVE  FileWhole' /\ \A q \in Process : Alone(q)' /\ Current(q)'
  BY <1>7, Setup DEF Project!OpenTemp, Project!Opens, Project!At, Project!InUse, ProjectInv, Alone, ProjectType,
     Saving, Current, FileWhole
<1>8. ASSUME NEW p \in Process, Project!WriteProject(p)
      PROVE  FileWhole' /\ \A q \in Process : Alone(q)' /\ Current(q)'
  BY <1>8 DEF Project!WriteProject, Project!Writes, Project!At, ProjectInv, Alone, ProjectType, Saving, Current,
     FileWhole
<1>9. ASSUME NEW p \in Process, Project!ReplaceProject(p)
      PROVE  FileWhole' /\ \A q \in Process : Alone(q)' /\ Current(q)'
  <2> DEFINE i == ptemp[tmp]
  <2>1. /\ ppc[p] = "written" /\ ppc' = [ppc EXCEPT ![p] = "idle"]
        /\ i # None /\ pfinal' = i /\ ptemp' = [ptemp EXCEPT ![tmp] = None]
        /\ pdisk' = [j \in Inode |-> IF j = pfinal /\ \A q \in Process : pfd[q] # j THEN Torn ELSE pdisk[j]]
        /\ acked' = IF expected[p] = None THEN {} ELSE acked \cup Project!Range(held[p])
        /\ UNCHANGED <<pfd, plone, held, expected>> /\ raced = FALSE
        /\ expected[p] = None => \A q \in Process : ppc[q] \notin {"loaded", "imported"}
    BY <1>9, Setup DEF Project!ReplaceProject, Project!At, Project!Renames, Project!Removes, ProjectInv, ProjectType
  <2>2. Alone(p) /\ Current(p) /\ FileWhole /\ held[p] \in Proj
    BY <2>1 DEF ProjectInv, ProjectType
  <2>3. i \in Inode /\ i # pfinal /\ pdisk'[i] = held[p] /\ ptemp'[tmp] = None
    BY <2>1, <2>2, Setup DEF Alone, ProjectInv, ProjectType
  <2>4. \A q \in Process : q # p => ppc[q] \notin Saving /\ ppc'[q] = ppc[q]
    BY <2>1, <2>2 DEF Alone, ProjectInv, ProjectType, Saving
  <2>5. ppc'[p] = "idle"
    BY <2>1 DEF ProjectInv, ProjectType
  <2>6. \A q \in Process : Alone(q)'
    BY <2>1, <2>3, <2>4, <2>5 DEF Alone, Saving, ProjectInv
  <2>7. CASE expected[p] = None
    BY <2>1, <2>2, <2>3, <2>4, <2>5, <2>6, <2>7 DEF FileWhole, Current, Saving
  <2>8. CASE expected[p] # None
    <3> DEFINE r == pdisk[pfinal]
               s == held[p]
    <3>1. pfinal # None /\ Agree(Len(r), s, r) /\ r \in Proj
      BY <2>1, <2>2, <2>8 DEF Current, Saving, FileWhole
    <3>2. /\ DOMAIN r = 1 .. Len(r) /\ DOMAIN s = 1 .. Len(s) /\ Len(r) \in Nat /\ Len(s) \in Nat
      BY <2>2, <3>1, ProjectRow, Setup
    <3>3. Project!Range(r) \subseteq Project!Range(s)
      BY <3>1, <3>2 DEF Agree, Project!Range
    <3>4. FileWhole'
      BY <2>1, <2>2, <2>3, <2>8, <3>1, <3>3 DEF FileWhole
    <3>5. ASSUME NEW q \in Process PROVE Current(q)'
      <4>1. CASE q = p
        BY <2>5, <4>1 DEF Current, Saving
      <4>2. CASE q # p
        <5>1. Current(q) /\ ppc[q] \notin Saving /\ ppc'[q] = ppc[q] /\ expected[q] \in Nat \cup {None}
          BY <2>1, <2>4, <4>2, Setup DEF ProjectInv, ProjectType
        <5>2. ASSUME ppc[q] \in {"loaded", "imported"} PROVE Agree(expected[q], held[q], s)
          <6>1. expected[q] \in Nat /\ Agree(expected[q], held[q], r)
            BY <5>1, <5>2 DEF Current
          <6> HIDE DEF r, s
          <6> QED
            BY <3>1, <3>2, <6>1 DEF Agree
        <5> QED
          BY <2>1, <2>3, <5>1, <5>2 DEF Current
      <4> QED
        BY <4>1, <4>2
    <3> QED
      BY <2>6, <3>4, <3>5
  <2> QED
    BY <2>7, <2>8
<1> QED
  BY <1>1, <1>2, <1>3, <1>4, <1>5, <1>6, <1>7, <1>8, <1>9 DEF Project!ProjectNext

\* The commands of any number of processes on one project file, killed
\* anywhere: as long as no two saves overlap and no create starts over what
\* another command had loaded, no import that was reported is lost.
THEOREM SerialSavesKeepImports == MCSpec => []SerialSavesKeepAll
<1>1. MCInit => ProjectInv
  BY ProjectInvInit DEF MCInit
<1>2. ProjectInv /\ [MCNext]_<<vars, project, checkpoint, focus>> => ProjectInv'
  BY ProjectInvNext DEF MCNext
<1>3. ProjectInv => SerialSavesKeepAll
  BY Setup DEF ProjectInv, ProjectType, Project!TypeOK, Project!Saving, Saving, Proj,
     Project!SerialSavesKeepAll, FileWhole, Project!Content, SerialSavesKeepAll
<1> QED
  BY <1>1, <1>2, <1>3, PTL DEF MCSpec

-----------------------------------------------------------------------------
(* The checkpoint: one run at a time, resumed, failing or killed.          *)

\* A document that a resumed run can take: its outputs are of tasks that
\* succeeded, and its tasks fit the budget.
Resumable(doc) ==
  /\ doc \in Saved!Document
  /\ \A t \in doc.outputs : doc.state[t] = "Succeeded"
  /\ Cardinality(Saved!Known(doc.state)) <= MaxTasks

CheckpointType ==
  /\ cfinal \in RunInode \cup {None}
  /\ ctemp \in [{tmp} -> RunInode \cup {None}]
  /\ cdisk \in [RunInode -> Saved!Document \cup {Torn}]
  /\ cfd \in [{runner} -> RunInode \cup {None}]
  /\ clone = [p \in {runner} |-> TRUE]
  /\ cpc \in [{runner} -> {"idle", "ready", "ended", "created", "written", "sized"}]
  /\ state \in [{runner} -> [Task -> Saved!TaskState \cup {"Absent"}]]
  /\ outputs \in [{runner} -> SUBSET Task]
  /\ accepted \in [{runner} -> Nat]
  /\ base \in [{runner} -> Saved!Document \cup {None}]
  /\ ran \in [{runner} -> SUBSET Task]

\* The run's tasks are within the budget that it charged, what is kept is the
\* output of tasks that succeeded, and what the checkpoint it resumed holds as
\* finished is as it was.
RunKeeps ==
  /\ Cardinality(Saved!Known(state[runner])) <= accepted[runner]
  /\ accepted[runner] <= MaxTasks
  /\ \A t \in outputs[runner] : state[runner][t] = "Succeeded"
  /\ base[runner] # None =>
       /\ base[runner].outputs \subseteq outputs[runner]
       /\ \A t \in Task : base[runner].state[t] \in Saved!Final =>
            state[runner][t] = base[runner].state[t] /\ t \notin ran[runner]
  /\ cpc[runner] = "idle" => outputs[runner] = {} /\ base[runner] = None /\ ran[runner] = {}

\* The temporary file is not the checkpoint, and holds what the run's state is
\* once it is written.
SaveHolds ==
  /\ ctemp[tmp] # None => ctemp[tmp] # cfinal
  /\ cfd[runner] # None <=> cpc[runner] = "created"
  /\ cpc[runner] = "created" => cfd[runner] = ctemp[tmp]
  /\ cpc[runner] \in {"written", "sized"} =>
       ctemp[tmp] # None /\ cdisk[ctemp[tmp]] = Saved!Snapshot(runner)
  /\ cpc[runner] = "sized" => ~Saved!Oversized(cdisk[ctemp[tmp]])

CheckpointInv ==
  /\ CheckpointType
  /\ RunKeeps
  /\ SaveHolds
  /\ cfinal # None => Resumable(cdisk[cfinal]) /\ ~Saved!Oversized(cdisk[cfinal])

\* The instance counts as this module does.
LEMMA SavedSize == \A S : Saved!Cardinality(S) = Cardinality(S)
  BY DEF Saved!Cardinality, Cardinality

\* What the constants are, and that every set of tasks has a size.
LEMMA SavedSetup ==
  /\ IsFiniteSet(Task) /\ MaxTasks \in Nat /\ FollowUps \in [Task -> SUBSET Task] /\ Plan \in Seq(Task)
  /\ None \notin RunInode /\ None \notin Saved!Document /\ Torn \notin Saved!Document
  /\ \A S : S \subseteq Task => IsFiniteSet(S) /\ Cardinality(S) \in Nat
  BY FS_CardinalityType, FS_Subset, FilesAssumption DEF FilesAssumption

\* No checkpoint, no run.
LEMMA CheckpointInvInit == Saved!CheckpointInit => CheckpointInv
<1> SUFFICES ASSUME Saved!CheckpointInit PROVE CheckpointInv
  OBVIOUS
<1> USE DEF Saved!CheckpointInit, Saved!FileInit
<1>1. CheckpointType
  BY SavedSetup DEF CheckpointType, Saved!TaskState
<1>2. Saved!Known(state[runner]) = {}
  BY DEF Saved!Known
<1>3. RunKeeps
  BY <1>2, SavedSetup, FS_EmptySet DEF RunKeeps
<1>4. SaveHolds
  BY DEF SaveHolds
<1> QED
  BY <1>1, <1>3, <1>4 DEF CheckpointInv

\* A run that is over leaves nothing in memory.
LEMMA RunEnds ==
  ASSUME CheckpointInv, Saved!Ends(runner)
  PROVE  /\ RunKeeps'
         /\ cpc'[runner] = "idle"
         /\ cpc' \in [{runner} -> {"idle", "ready", "ended", "created", "written", "sized"}]
         /\ state' \in [{runner} -> [Task -> Saved!TaskState \cup {"Absent"}]]
         /\ outputs' \in [{runner} -> SUBSET Task]
         /\ accepted' \in [{runner} -> Nat]
         /\ base' \in [{runner} -> Saved!Document \cup {None}]
         /\ ran' \in [{runner} -> SUBSET Task]
<1> USE DEF CheckpointInv, CheckpointType
<1>1. /\ cpc' = [cpc EXCEPT ![runner] = "idle"]
      /\ state' = [state EXCEPT ![runner] = [t \in Task |-> "Absent"]]
      /\ outputs' = [outputs EXCEPT ![runner] = {}]
      /\ accepted' = [accepted EXCEPT ![runner] = 0]
      /\ base' = [base EXCEPT ![runner] = None]
      /\ ran' = [ran EXCEPT ![runner] = {}]
  BY DEF Saved!Ends
<1>2. Saved!Known(state'[runner]) = {}
  BY <1>1 DEF Saved!Known
<1>3. Cardinality({}) = 0
  BY FS_EmptySet
<1>4. RunKeeps'
  <2>1. outputs'[runner] = {} /\ accepted'[runner] = 0 /\ base'[runner] = None /\ ran'[runner] = {}
    BY <1>1
  <2>2. Cardinality(Saved!Known(state'[runner])) = 0
    BY <1>2, <1>3
  <2> QED
    BY <2>1, <2>2, SavedSetup DEF RunKeeps
<1> QED
  BY <1>1, <1>4

\* What the steps of a run leave alone.
LEMMA RunOnly ==
  ASSUME CheckpointInv, UNCHANGED <<cfinal, ctemp, cdisk, cfd, clone>>,
         cpc' \in [{runner} -> {"idle", "ready", "ended"}], cpc[runner] \in {"idle", "ready", "ended"},
         state' \in [{runner} -> [Task -> Saved!TaskState \cup {"Absent"}]],
         outputs' \in [{runner} -> SUBSET Task],
         accepted' \in [{runner} -> Nat],
         base' \in [{runner} -> Saved!Document \cup {None}],
         ran' \in [{runner} -> SUBSET Task],
         RunKeeps'
  PROVE  CheckpointInv'
  BY DEF CheckpointInv, CheckpointType, SaveHolds, Resumable

\* A fresh run starts with the part of the plan that the budget allows.
LEMMA StartInv == CheckpointInv /\ Saved!StartFresh(runner) => CheckpointInv'
<1> SUFFICES ASSUME CheckpointInv, Saved!StartFresh(runner) PROVE CheckpointInv'
  OBVIOUS
<1> USE DEF CheckpointInv
<1> DEFINE places == {j \in 1 .. Len(Plan) : j <= MaxTasks}
           planned == {Plan[i] : i \in places}
<1>1. /\ cpc[runner] = "idle" /\ cpc' = [cpc EXCEPT ![runner] = "ready"]
      /\ state' = [state EXCEPT ![runner] = [t \in Task |-> IF t \in planned THEN "Pending" ELSE "Absent"]]
      /\ accepted' = [accepted EXCEPT ![runner] = Saved!Cardinality(planned)]
      /\ UNCHANGED <<cfinal, ctemp, cdisk, cfd, clone, outputs, base, ran>>
  BY DEF Saved!StartFresh, Saved!At, Saved!file
<1>2. planned \subseteq Task /\ IsFiniteSet(planned) /\ Cardinality(planned) \in Nat
  BY ElementOfSeq, SavedSetup
<1>3. Cardinality(planned) <= MaxTasks
  <2>1. places \subseteq 1 .. MaxTasks /\ MaxTasks \in Int /\ 1 \in Int
    BY SavedSetup
  <2>2. IsFiniteSet(1 .. MaxTasks) /\ Cardinality(1 .. MaxTasks) = IF 1 > MaxTasks THEN 0 ELSE MaxTasks - 1 + 1
    BY <2>1, FS_Interval
  <2>3. IsFiniteSet(places) /\ Cardinality(places) <= Cardinality(1 .. MaxTasks)
    BY <2>1, <2>2, FS_Subset
  <2>4. Cardinality(planned) <= Cardinality(places)
    <3> DEFINE f == [i \in places |-> Plan[i]]
    <3>1. planned = {f[i] : i \in places} /\ DOMAIN f = places /\ f = [i \in places |-> f[i]]
      OBVIOUS
    <3> HIDE DEF planned, places, f
    <3> QED
      BY <2>3, <3>1, FiniteImage
  <2>5. Cardinality(places) \in Nat
    BY <2>3, FS_CardinalityType
  <2> HIDE DEF planned, places
  <2> QED
    BY <1>2, <2>2, <2>3, <2>4, <2>5, SavedSetup
<1> HIDE DEF planned
<1>4. Saved!Known(state'[runner]) = planned
  BY <1>1, <1>2 DEF Saved!Known, CheckpointType
<1>5. accepted'[runner] = Cardinality(planned) /\ accepted' \in [{runner} -> Nat]
  BY <1>1, <1>2, SavedSize DEF CheckpointType
<1>6. state' \in [{runner} -> [Task -> Saved!TaskState \cup {"Absent"}]]
      /\ cpc' \in [{runner} -> {"idle", "ready", "ended"}] /\ cpc'[runner] = "ready"
  BY <1>1 DEF CheckpointType, Saved!TaskState
<1>7. RunKeeps'
  BY <1>1, <1>2, <1>3, <1>4, <1>5, <1>6 DEF RunKeeps
<1> QED
  BY <1>1, <1>5, <1>6, <1>7, RunOnly DEF CheckpointType

\* A resumed run starts from what the checkpoint holds.
LEMMA ResumeInv == CheckpointInv /\ Saved!Resume(runner) => CheckpointInv'
<1> SUFFICES ASSUME CheckpointInv, Saved!Resume(runner) PROVE CheckpointInv'
  OBVIOUS
<1> USE DEF CheckpointInv
<1> DEFINE doc == cdisk[cfinal]
<1>1. cfinal # None /\ Saved!Content = doc /\ Resumable(doc)
  BY DEF Saved!Resume, Saved!Loadable, Saved!Content
<1> HIDE DEF doc
<1>2. Saved!Charged(doc.state) = Cardinality(Saved!Known(doc.state))
      /\ Cardinality(Saved!Known(doc.state)) <= MaxTasks /\ Cardinality(Saved!Known(doc.state)) \in Nat
  BY <1>1, SavedSize, SavedSetup DEF Resumable, Saved!Charged, Saved!Known
<1>3. /\ cpc[runner] = "idle" /\ cpc' = [cpc EXCEPT ![runner] = "ready"]
      /\ state' = [state EXCEPT ![runner] = Saved!Restored(doc.state)]
      /\ outputs' = [outputs EXCEPT ![runner] = Saved!RestoredOutputs(doc)]
      /\ accepted' = [accepted EXCEPT ![runner] = Saved!Charged(doc.state)]
      /\ base' = [base EXCEPT ![runner] = doc]
      /\ UNCHANGED <<cfinal, ctemp, cdisk, cfd, clone, ran>>
  BY <1>1, <1>2 DEF Saved!Resume, Saved!file
<1>4. doc \in Saved!Document /\ doc.state \in [Task -> Saved!TaskState \cup {"Absent"}] /\ doc.outputs \subseteq Task
  BY <1>1 DEF Resumable, Saved!Document
<1>5. Saved!RestoredOutputs(doc) = doc.outputs
  BY <1>1 DEF Resumable, Saved!RestoredOutputs
<1>6. /\ Saved!Restored(doc.state) \in [Task -> Saved!TaskState \cup {"Absent"}]
      /\ Saved!Known(Saved!Restored(doc.state)) = Saved!Known(doc.state)
      /\ \A t \in Task : doc.state[t] \in Saved!Final => Saved!Restored(doc.state)[t] = doc.state[t]
  BY <1>4 DEF Saved!Restored, Saved!Interrupted, Saved!Known, Saved!TaskState, Saved!Final
<1>7. /\ state'[runner] = Saved!Restored(doc.state) /\ outputs'[runner] = doc.outputs
      /\ accepted'[runner] = Cardinality(Saved!Known(doc.state)) /\ base'[runner] = doc
      /\ ran'[runner] = {} /\ cpc'[runner] = "ready"
  BY <1>2, <1>3, <1>5 DEF CheckpointType, RunKeeps
<1>8. RunKeeps'
  BY <1>1, <1>2, <1>4, <1>6, <1>7 DEF Resumable, Saved!Final, RunKeeps
<1>9. /\ cpc' \in [{runner} -> {"idle", "ready", "ended"}]
      /\ state' \in [{runner} -> [Task -> Saved!TaskState \cup {"Absent"}]]
      /\ outputs' \in [{runner} -> SUBSET Task]
      /\ accepted' \in [{runner} -> Nat]
      /\ base' \in [{runner} -> Saved!Document \cup {None}]
      /\ ran' \in [{runner} -> SUBSET Task]
  BY <1>2, <1>3, <1>4, <1>5, <1>6 DEF CheckpointType
<1> QED
  BY <1>3, <1>8, <1>9, RunOnly

\* Tasks that were not final move, none appears.
LEMMA MoveInv ==
  ASSUME CheckpointInv, cpc[runner] = "ready",
         UNCHANGED <<cfinal, ctemp, cdisk, cfd, clone, outputs, accepted, base>>,
         cpc' \in [{runner} -> {"ready", "ended"}],
         state' \in [{runner} -> [Task -> Saved!TaskState \cup {"Absent"}]],
         \A t \in Task : state[runner][t] \in Saved!Final \cup {"Absent"} => state'[runner][t] = state[runner][t],
         \A t \in Task : state[runner][t] # "Absent" => state'[runner][t] # "Absent",
         ran' \in [{runner} -> SUBSET Task],
         \A t \in ran'[runner] : t \in ran[runner] \/ state[runner][t] \notin Saved!Final
  PROVE  CheckpointInv'
<1> USE DEF CheckpointInv
<1>1. Saved!Known(state'[runner]) = Saved!Known(state[runner])
  BY DEF Saved!Known
<1>2. \A t \in outputs[runner] : t \in Task /\ "Succeeded" \in Saved!Final
  BY DEF CheckpointType, Saved!Final
<1>3. RunKeeps'
  BY <1>1, <1>2 DEF RunKeeps
<1> QED
  BY <1>3, RunOnly DEF CheckpointType

\* A task ends, is skipped, or is made final when run() returns.
LEMMA TasksMove ==
  ASSUME CheckpointInv,
         \/ \E t \in Task : Saved!RunWithoutOutput(runner, t) \/ Saved!SkipTask(runner, t)
         \/ Saved!EndRun(runner)
  PROVE  CheckpointInv'
<1> USE DEF CheckpointInv
<1>1. ASSUME NEW t \in Task, Saved!RunWithoutOutput(runner, t) PROVE CheckpointInv'
  BY <1>1, MoveInv DEF Saved!RunWithoutOutput, Saved!Runnable, Saved!file, CheckpointType, Saved!TaskState,
     Saved!Final
<1>2. ASSUME NEW t \in Task, Saved!SkipTask(runner, t) PROVE CheckpointInv'
  BY <1>2, MoveInv DEF Saved!SkipTask, Saved!file, CheckpointType, Saved!TaskState, Saved!Final
<1>3. CASE Saved!EndRun(runner)
  BY <1>3, MoveInv DEF Saved!EndRun, Saved!At, Saved!file, CheckpointType, Saved!TaskState, Saved!Final
<1> QED
  BY <1>1, <1>2, <1>3

\* A success adds its output and the follow-ups for which there is room.
LEMMA SuccessInv ==
  ASSUME CheckpointInv, NEW t \in Task, Saved!RunWithOutput(runner, t)
  PROVE  CheckpointInv'
<1> USE DEF CheckpointInv
<1> DEFINE known == Saved!Known(state[runner])
           new == FollowUps[t] \ known
           room == IF accepted[runner] < MaxTasks THEN MaxTasks - accepted[runner] ELSE 0
<1>1. PICK more \in SUBSET new :
        /\ Saved!Cardinality(more) = IF Saved!Cardinality(new) < room THEN Saved!Cardinality(new) ELSE room
        /\ state' = [state EXCEPT ![runner] =
                       [u \in Task |-> IF u = t THEN "Succeeded"
                                       ELSE IF u \in more THEN "Pending" ELSE state[runner][u]]]
        /\ accepted' = [accepted EXCEPT ![runner] = accepted[runner] + Saved!Cardinality(more)]
  BY DEF Saved!RunWithOutput
<1>2. /\ cpc[runner] = "ready" /\ state[runner][t] = "Pending"
      /\ ran' = [ran EXCEPT ![runner] = ran[runner] \cup {t}]
      /\ outputs' = [outputs EXCEPT ![runner] = outputs[runner] \cup {t}]
      /\ UNCHANGED <<cfinal, ctemp, cdisk, cfd, clone, cpc, base>>
  BY DEF Saved!RunWithOutput, Saved!Runnable, Saved!file
<1>3. /\ accepted[runner] \in Nat /\ MaxTasks \in Nat /\ new \subseteq Task /\ known \subseteq Task
      /\ Cardinality(new) \in Nat /\ Cardinality(more) \in Nat /\ Cardinality(known) \in Nat
      /\ IsFiniteSet(more) /\ IsFiniteSet(known)
  BY SavedSetup DEF Saved!Known, CheckpointType
<1>4. Cardinality(more) <= room /\ accepted[runner] + Cardinality(more) <= MaxTasks
  BY <1>1, <1>3, SavedSize DEF RunKeeps
<1>5. state'[runner] = [u \in Task |-> IF u = t THEN "Succeeded" ELSE IF u \in more THEN "Pending" ELSE state[runner][u]]
      /\ state' \in [{runner} -> [Task -> Saved!TaskState \cup {"Absent"}]]
  BY <1>1 DEF CheckpointType, Saved!TaskState, Saved!Final
<1>6. Saved!Known(state'[runner]) = known \cup more /\ known \cap more = {}
  BY <1>1, <1>2, <1>5, SavedSetup DEF Saved!Known
<1>7. accepted'[runner] = accepted[runner] + Cardinality(more) /\ accepted' \in [{runner} -> Nat]
  BY <1>1, <1>3, SavedSize DEF CheckpointInv, CheckpointType
<1>8. Cardinality(Saved!Known(state'[runner])) <= accepted'[runner]
  <2> HIDE DEF known, new
  <2>1. Cardinality(known \cup more) = Cardinality(known) + Cardinality(more)
    BY <1>3, <1>6, DisjointCount
  <2>2. Cardinality(known) <= accepted[runner]
    BY DEF RunKeeps, known
  <2> QED
    BY <1>3, <1>6, <1>7, <2>1, <2>2
<1>9. \A u \in Task : state[runner][u] \in Saved!Final => state'[runner][u] = state[runner][u] /\ u # t
  BY <1>1, <1>2, <1>5 DEF Saved!Known, Saved!Final
<1>10. RunKeeps'
  BY <1>2, <1>4, <1>5, <1>7, <1>8, <1>9 DEF CheckpointType, RunKeeps, Saved!Final
<1>11. /\ cpc' \in [{runner} -> {"idle", "ready", "ended"}]
       /\ outputs' \in [{runner} -> SUBSET Task] /\ ran' \in [{runner} -> SUBSET Task]
       /\ base' \in [{runner} -> Saved!Document \cup {None}]
  BY <1>2 DEF CheckpointType
<1> QED
  BY <1>2, <1>5, <1>7, <1>10, <1>11, RunOnly

\* A run whose state stays.
LEMMA RunStays ==
  ASSUME CheckpointInv, UNCHANGED Saved!run, cpc'[runner] # "idle"
  PROVE  /\ RunKeeps'
         /\ state' \in [{runner} -> [Task -> Saved!TaskState \cup {"Absent"}]]
         /\ outputs' \in [{runner} -> SUBSET Task]
         /\ accepted' \in [{runner} -> Nat]
         /\ base' \in [{runner} -> Saved!Document \cup {None}]
         /\ ran' \in [{runner} -> SUBSET Task]
         /\ Saved!Snapshot(runner)' = Saved!Snapshot(runner)
<1> USE DEF CheckpointInv, Saved!run
<1>1. RunKeeps'
  BY DEF RunKeeps
<1> QED
  BY <1>1 DEF CheckpointType, Saved!Snapshot

\* What a run writes is a document that a resumed run can take.
LEMMA SnapshotResumable ==
  ASSUME CheckpointInv
  PROVE  Resumable(Saved!Snapshot(runner)) /\ Saved!Snapshot(runner).outputs = outputs[runner]
<1> USE DEF CheckpointInv
<1> DEFINE doc == Saved!Snapshot(runner)
<1>1. /\ doc.state = [t \in Task |-> Saved!Interrupted(state[runner][t])] /\ doc.outputs = outputs[runner]
      /\ doc \in Saved!Document
  BY DEF Saved!Snapshot, Saved!Document, Saved!Interrupted, CheckpointType, Saved!TaskState, Saved!Final
<1>2. Saved!Known(doc.state) = Saved!Known(state[runner])
  BY <1>1 DEF Saved!Known, Saved!Interrupted
<1>3. \A t \in doc.outputs : doc.state[t] = "Succeeded"
  BY <1>1 DEF RunKeeps, Saved!Interrupted, CheckpointType
<1>4. Cardinality(Saved!Known(state[runner])) <= MaxTasks
  BY SavedSetup DEF Saved!Known, CheckpointType, RunKeeps
<1> HIDE DEF doc
<1>5. Resumable(doc)
  BY <1>1, <1>2, <1>3, <1>4 DEF Resumable
<1> QED
  BY <1>1, <1>5 DEF doc

\* The steps of a save, up to the rename, and what ends a run.
LEMMA SaveInv ==
  ASSUME CheckpointInv,
         \/ Saved!BeginSave(runner) \/ Saved!WriteCheckpoint(runner) \/ Saved!AcceptSize(runner)
         \/ Saved!OutputFails(runner) \/ Saved!WriteFails(runner) \/ Saved!RefuseSize(runner) \/ Saved!Kill(runner)
  PROVE  CheckpointInv'
<1> USE DEF CheckpointInv
<1> DEFINE Kept == cfinal # None => Resumable(cdisk[cfinal]) /\ ~Saved!Oversized(cdisk[cfinal])
<1>0. Kept /\ (ctemp[tmp] # None => ctemp[tmp] # cfinal) /\ [p \in {runner} |-> tmp][runner] = tmp
  BY DEF SaveHolds
<1>1. CASE Saved!BeginSave(runner)
  BY <1>0, <1>1, RunStays, SavedSetup DEF Saved!BeginSave, Saved!Opens, CheckpointType, Saved!InUse, SaveHolds,
     Resumable, Saved!Oversized
<1>2. CASE Saved!WriteCheckpoint(runner)
  BY <1>0, <1>2, RunStays, SavedSetup, SnapshotResumable DEF Saved!WriteCheckpoint, Saved!At, Saved!Writes,
     SaveHolds, CheckpointType, Resumable, Saved!Oversized
<1>3. CASE Saved!AcceptSize(runner)
  BY <1>0, <1>3, RunStays, SavedSetup, SnapshotResumable DEF Saved!AcceptSize, Saved!At, Saved!file,
     CheckpointType, SaveHolds, Resumable, Saved!TooLarge, Saved!Oversized
<1>4. CASE \/ Saved!OutputFails(runner) \/ Saved!WriteFails(runner)
           \/ Saved!RefuseSize(runner) \/ Saved!Kill(runner)
  BY <1>0, <1>4, RunEnds DEF Saved!OutputFails, Saved!WriteFails, Saved!RefuseSize, Saved!Kill, Saved!Removes,
     Saved!file, Saved!Closes, SaveHolds, CheckpointType, Resumable, Saved!Oversized
<1> QED
  BY <1>1, <1>2, <1>3, <1>4

\* The rename puts the whole state of the run at the checkpoint's path.
LEMMA ReplaceInv ==
  ASSUME CheckpointInv, Saved!ReplaceCheckpoint(runner)
  PROVE  /\ CheckpointInv'
         /\ Saved!Content' = Saved!Snapshot(runner)
<1> USE DEF CheckpointInv
<1> DEFINE i == ctemp[tmp]
<1>0. [p \in {runner} |-> tmp][runner] = tmp
  OBVIOUS
<1>1. /\ cpc[runner] = "sized" /\ i # None /\ cfinal' = i /\ ctemp' = [ctemp EXCEPT ![tmp] = None]
      /\ cdisk' = [j \in RunInode |-> IF j = cfinal /\ \A q \in {runner} : cfd[q] # j THEN Torn ELSE cdisk[j]]
      /\ UNCHANGED <<cfd, clone>> /\ Saved!Ends(runner)
  BY <1>0 DEF Saved!ReplaceCheckpoint, Saved!Renames, Saved!Removes
<1>2. /\ i \in RunInode /\ i # cfinal /\ cdisk[i] = Saved!Snapshot(runner) /\ ~Saved!Oversized(cdisk[i])
      /\ cfd[runner] = None
  BY <1>1 DEF SaveHolds, CheckpointType
<1>3. cdisk'[i] = Saved!Snapshot(runner)
  BY <1>1, <1>2
<1>4. CheckpointType'
  BY <1>1, <1>2, RunEnds DEF CheckpointType
<1>5. RunKeeps' /\ cpc'[runner] = "idle"
  BY <1>1, RunEnds
<1>6. SaveHolds'
  BY <1>1, <1>2, <1>5 DEF SaveHolds, CheckpointType
<1>7. cfinal' # None /\ cdisk'[cfinal'] = Saved!Snapshot(runner)
  BY <1>1, <1>3
<1>8. (cfinal # None => Resumable(cdisk[cfinal]) /\ ~Saved!Oversized(cdisk[cfinal]))'
  BY <1>2, <1>7, SnapshotResumable DEF Resumable, Saved!Oversized
<1>9. Saved!Content' = Saved!Snapshot(runner)
  BY <1>7 DEF Saved!Content
<1> QED
  BY <1>4, <1>5, <1>6, <1>8, <1>9

\* Every step of a run keeps the invariant.
LEMMA CheckpointInvNext == CheckpointInv /\ [Saved!CheckpointNext]_checkpoint => CheckpointInv'
<1> SUFFICES ASSUME CheckpointInv, [Saved!CheckpointNext]_checkpoint PROVE CheckpointInv'
  OBVIOUS
<1>1. CASE UNCHANGED checkpoint
  BY <1>1 DEF checkpoint, CheckpointInv, CheckpointType, RunKeeps, SaveHolds, Resumable, Saved!Oversized,
              Saved!Snapshot
<1>2. CASE Saved!CheckpointNext
  BY <1>2, ReplaceInv, ResumeInv, SaveInv, StartInv, SuccessInv, TasksMove DEF Saved!CheckpointNext
<1> QED
  BY <1>1, <1>2

\* Wherever runs of one scan fail or are killed: what is at the checkpoint's
\* path can be resumed, the budget holds across the resumes, and what was
\* saved as finished is not run again.
THEOREM CheckpointAlwaysResumes == MCSpec => []CheckpointResumes
<1>1. MCInit => CheckpointInv
  BY CheckpointInvInit DEF MCInit
<1>2. CheckpointInv /\ [MCNext]_<<vars, project, checkpoint, focus>> => CheckpointInv'
  BY CheckpointInvNext DEF MCNext
<1>3. CheckpointInv => CheckpointResumes
  <2> SUFFICES ASSUME CheckpointInv PROVE CheckpointResumes
    OBVIOUS
  <2> USE DEF CheckpointInv
  <2>1. Saved!AlwaysResumes
    BY SavedSetup DEF Saved!Content, Resumable, CheckpointType, Saved!AlwaysResumes, Saved!Loadable
  <2>2. Saved!BudgetAcrossResumes
    BY SavedSetup, SavedSize DEF Saved!Known, CheckpointType, RunKeeps, Saved!BudgetAcrossResumes
  <2>3. Saved!FinishedNotRepeated
    BY DEF Saved!FinishedNotRepeated, RunKeeps, CheckpointType
  <2> QED
    BY <2>1, <2>2, <2>3 DEF CheckpointResumes, Saved!ResumeKeepsPlan
<1> QED
  BY <1>1, <1>2, <1>3, PTL DEF MCSpec

\* A save of a resumed run keeps every output that was in the checkpoint.
THEOREM EvidenceIsNotLost == MCSpec => EvidenceSurvives
<1>1. MCInit => CheckpointInv
  BY CheckpointInvInit DEF MCInit
<1>2. [MCNext]_<<vars, project, checkpoint, focus>> => [Saved!CheckpointNext]_checkpoint
  BY DEF MCNext
<1>3. CheckpointInv /\ [MCNext]_<<vars, project, checkpoint, focus>> => CheckpointInv'
  BY <1>2, CheckpointInvNext
<1>4. CheckpointInv => [\A p \in {runner} : Saved!ReplaceCheckpoint(p) /\ base[p] # None
                           => base[p].outputs \subseteq Saved!Content'.outputs]_(Saved!vars)
  BY ReplaceInv, SnapshotResumable DEF CheckpointInv, RunKeeps
<1> QED
  BY <1>1, <1>3, <1>4, PTL DEF MCSpec, EvidenceSurvives, Saved!EvidenceSurvives
=============================================================================
