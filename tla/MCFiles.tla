------------------------------ MODULE MCFiles ------------------------------
(* The three documents processes replace as a whole, for TLC: the project   *)
(* file, which every process writes under the same temporary name (temp_path *)
(* of src/src/project.rs); the output file, for which each has a name of its *)
(* own (create_atomic_file_writer of src/src/output.rs); the checkpoint, of  *)
(* one process at a time that is killed and started again.                   *)
EXTENDS OutputFile, Sequences, TLC

CONSTANTS
  tmp,                                       \* the one temporary name of a project and of a checkpoint
  Scans, MaxCommands,                        \* for ProjectFile
  runner, RunInode, Task, Plan, Deps, FollowUps, SavesEarly,
  MaxTasks, MaxOutputs, MaxStarts            \* for Checkpoint

CONSTANTS p1, p2, i1, i2, i3, i4, i5, a, b, c, d, e

TwoProcesses == {p1, p2}
FiveInodes == {i1, i2, i3, i4, i5}
ThreeInodes == {i1, i2, i3}
TempOfPid == [p \in Process |-> <<"tmp", p>>]
SharedTemp == [p \in Process |-> tmp]

\* The scan of the checkpoint: b needs a, and a's success proposes c and d.
FourTasks == {a, b, c, d}
PlanAB == <<a, b>>
NeedsA == [t \in FourTasks |-> IF t = b THEN {a} ELSE {}]
ProposesCD == [t \in FourTasks |-> IF t = a THEN {c, d} ELSE {}]

\* The scans that are imported; two of them have the names of the follow-ups
\* (no behaviour is about both files), so that one symmetry serves both.
ThreeScans == {c, d, e}

\* Three inodes are interchangeable, and so are c and d.
Symmetry == Permutations(ThreeInodes) \cup Permutations({c, d})

VARIABLES focus,     \* which of the three files this behaviour is about
          pfinal, ptemp, pdisk, pfd, plone, ppc,   \* the project's file and its writers
          held, expected, commands, acked, overlap, raced,
          cfinal, ctemp, cdisk, cfd, clone, cpc,   \* the checkpoint and its scan
          state, outputs, accepted, starts, base, ran

Project == INSTANCE ProjectFile WITH
             TempOf <- SharedTemp, Scan <- Scans, pc <- ppc,
             final <- pfinal, temp <- ptemp, disk <- pdisk, fd <- pfd, lone <- plone

project == <<pfinal, ptemp, pdisk, pfd, plone, ppc, held, expected, commands, acked, overlap, raced>>

Saved == INSTANCE Checkpoint WITH
           Process <- {runner}, TempOf <- [p \in {runner} |-> tmp], Inode <- RunInode,
           final <- cfinal, temp <- ctemp, disk <- cdisk, fd <- cfd, lone <- clone, pc <- cpc

checkpoint == <<cfinal, ctemp, cdisk, cfd, clone, cpc, state, outputs, accepted, starts, base, ran>>

\* No project, and no checkpoint, is a mark for its absence.
ASSUME FilesAssumption ==
  /\ IsFiniteSet(Scans) /\ None \notin 0 .. Cardinality(Scans)
  /\ None \notin Project!Project /\ Torn \notin Project!Project
  /\ IsFiniteSet(Task) /\ Plan \in Seq(Task) /\ MaxTasks \in Nat
  /\ FollowUps \in [Task -> SUBSET Task]
  /\ None \notin RunInode
  /\ None \notin Saved!Document /\ Torn \notin Saved!Document

MCInit == /\ focus \in {"output", "project", "checkpoint"}
          /\ OutputInit /\ Project!ProjectInit /\ Saved!CheckpointInit

MCNext ==
  /\ UNCHANGED focus
  /\ \/ focus = "output" /\ OutputNext /\ UNCHANGED <<project, checkpoint>>
     \/ focus = "project" /\ Project!ProjectNext /\ UNCHANGED <<vars, checkpoint>>
     \/ focus = "checkpoint" /\ Saved!CheckpointNext /\ UNCHANGED <<vars, project>>

MCSpec == MCInit /\ [][MCNext]_<<vars, project, checkpoint, focus>>

\* The project file alone.
MCProjectSpec == MCInit /\ focus = "project" /\ [][MCNext]_<<vars, project, checkpoint, focus>>

\* As long as no two saves overlapped and no create started over what another
\* command had loaded, the project file is whole and keeps every import that
\* was reported.
SerialSavesKeepAll == Project!TypeOK /\ Project!SerialSavesKeepAll

\* The checkpoint always resumes, within one budget, with nothing finished
\* run again and no saved evidence lost.
CheckpointResumes == Saved!AlwaysResumes /\ Saved!ResumeKeepsPlan
EvidenceSurvives == Saved!EvidenceSurvives

\* See ProjectFile: even a lone save can lose imports.
UnracedSaveLosesNothing == Project!UnracedSaveLosesNothing
=============================================================================
