---------------------------- MODULE ProjectFile ----------------------------
(***************************************************************************)
(* The project file of src/src/project.rs: `rxscan project create` and     *)
(* `rxscan project add`, run by several processes on one path.  An import  *)
(* is load -> add_scan -> save_project, and save_project re-reads the file *)
(* and compares revisions before it writes a temporary file and renames    *)
(* it.  Nothing is locked, and every process uses the same temporary name. *)
(*                                                                         *)
(* A project is the sequence of the distinct scans imported into it: its   *)
(* revision and every import_sequence are positions in that sequence, and  *)
(* its fingerprint is a hash of the whole of it.                           *)
(***************************************************************************)
EXTENDS TempFile, Sequences, Functions

CONSTANTS
  Scan,         \* semantic fingerprints of the checkpoints that are imported
  MaxCommands   \* bound: commands started in one behaviour

VARIABLES
  pc,        \* [Process -> where the command is]
  held,      \* [Process -> the ProjectState in memory]
  expected,  \* [Process -> expected_revision, or None: create does not ask]
  commands,  \* commands started so far
  acked,     \* history: scans whose import has been reported, since create
  overlap,   \* history: [Process -> its save overlapped another's]
  raced      \* history: two saves overlapped, or a create and an import

vars == <<file, pc, held, expected, commands, acked, overlap, raced>>

Project == {s \in UNION {[1..n -> Scan] : n \in 0..Cardinality(Scan)} : IsInjective(s)}

Revision(project) == Len(project)

Saving == {"checked", "created", "written"}

ProjectInit ==
  /\ FileInit
  /\ pc = [p \in Process |-> "idle"]
  /\ held = [p \in Process |-> <<>>]
  /\ expected = [p \in Process |-> None]
  /\ commands = 0
  /\ acked = {}
  /\ overlap = [p \in Process |-> FALSE]
  /\ raced = FALSE

At(p, from, to) == pc[p] = from /\ pc' = [pc EXCEPT ![p] = to]

\* From here on p is inside the part of save_project that does not look at
\* the file again.
EntersSave(p) ==
  LET others == {q \in Process \ {p} : pc[q] \in Saving}
  IN /\ overlap' = [q \in Process |->
                      IF q = p THEN others # {} ELSE overlap[q] \/ q \in others]
     /\ raced' = (raced \/ others # {})

\* create_project: an empty project, saved without an expected revision,
\* over whatever the path holds.
CreateProject(p) ==
  /\ commands < MaxCommands
  /\ At(p, "idle", "checked")
  /\ commands' = commands + 1
  /\ held' = [held EXCEPT ![p] = <<>>]
  /\ expected' = [expected EXCEPT ![p] = None]
  /\ EntersSave(p)
  /\ UNCHANGED <<file, acked>>

\* add_checkpoint: load_project fails when there is no file or no whole one.
LoadProject(p) ==
  /\ commands < MaxCommands
  /\ Content \notin {None, Torn}
  /\ At(p, "idle", "loaded")
  /\ commands' = commands + 1
  /\ held' = [held EXCEPT ![p] = Content]
  /\ expected' = [expected EXCEPT ![p] = Revision(Content)]
  /\ UNCHANGED <<file, acked, overlap, raced>>

\* A bug: a known fingerprint is not recognised.
AddScanDuplicates(p) ==
  /\ At(p, "loaded", "imported")
  /\ \E s \in Scan : held' = [held EXCEPT ![p] = Append(@, s)]
  /\ UNCHANGED <<file, expected, commands, acked, overlap, raced>>

\* add_scan: a scan with a known semantic fingerprint changes nothing, but
\* the project is saved all the same.
AddScan(p) ==
  /\ At(p, "loaded", "imported")
  /\ \E s \in Scan :
       held' = [held EXCEPT ![p] = IF s \in Range(@) THEN @ ELSE Append(@, s)]
  /\ UNCHANGED <<file, expected, commands, acked, overlap, raced>>

\* A bug: the revision is not compared.
ConflictsUnchecked(p) == Content = Torn

\* save_project's own load, and what it refuses.
Conflicts(p) ==
  /\ Content # None
  /\ \/ Content = Torn
     \/ /\ Content # Torn
        /\ \/ Revision(Content) # expected[p]
           \/ Revision(Content) = Revision(held[p]) /\ Content # held[p]

CheckRevision(p) ==
  /\ ~Conflicts(p)
  /\ At(p, "imported", "checked")
  /\ EntersSave(p)
  /\ UNCHANGED <<file, held, expected, commands, acked>>

RefuseConflict(p) ==
  /\ Conflicts(p)
  /\ At(p, "imported", "idle")
  /\ UNCHANGED <<file, held, expected, commands, acked, overlap, raced>>

OpenTemp(p) ==
  /\ At(p, "checked", "created")
  /\ Opens(p)
  /\ UNCHANGED <<held, expected, commands, acked, overlap, raced>>

WriteProject(p) ==
  /\ At(p, "created", "written")
  /\ Writes(p, held[p])
  /\ UNCHANGED <<held, expected, commands, acked, overlap, raced>>

\* A full disk, or a project over MAX_PROJECT_BYTES: the temporary name is
\* removed, whoever owns it by now.
WriteFails(p) ==
  /\ At(p, "created", "idle")
  /\ Closes(p)
  /\ Removes(p)
  /\ UNCHANGED <<final, disk, held, expected, commands, acked, overlap, raced>>

\* The command reports its import.  A create starts the project over, also
\* under a command that has loaded it.
ReplaceProject(p) ==
  /\ At(p, "written", "idle")
  /\ Renames(p)
  /\ acked' = IF expected[p] = None THEN {} ELSE acked \cup Range(held[p])
  /\ raced' = (raced \/ (expected[p] = None /\ \E q \in Process : pc[q] \in {"loaded", "imported"}))
  /\ UNCHANGED <<held, expected, commands, overlap>>

\* Another process renamed or removed the temporary file first.
RenameFails(p) ==
  /\ temp[TempOf[p]] = None
  /\ At(p, "written", "idle")
  /\ UNCHANGED <<file, held, expected, commands, acked, overlap, raced>>

\* SIGKILL or a crash of the process; the machine stays up.
Kill(p) ==
  /\ pc[p] # "idle"
  /\ pc' = [pc EXCEPT ![p] = "idle"]
  /\ Closes(p)
  /\ UNCHANGED <<final, temp, disk, held, expected, commands, acked, overlap, raced>>

ProjectNext ==
  \E p \in Process :
    \/ CreateProject(p) \/ LoadProject(p) \/ AddScan(p)
    \/ CheckRevision(p) \/ RefuseConflict(p)
    \/ OpenTemp(p) \/ WriteProject(p) \/ WriteFails(p)
    \/ ReplaceProject(p) \/ RenameFails(p) \/ Kill(p)

ProjectSpec == ProjectInit /\ [][ProjectNext]_vars

-----------------------------------------------------------------------------
(* Properties                                                              *)

\* The state is well typed: what is on disk is a project or a torn file,
\* and only a process that is writing has the temporary file open.
TypeOK ==
  /\ final \in Inode \cup {None}
  /\ temp \in [{TempOf[p] : p \in Process} -> Inode \cup {None}]
  /\ disk \in [Inode -> Project \cup {Torn}]
  /\ pc \in [Process -> {"idle", "loaded", "imported"} \cup Saving]
  /\ held \in [Process -> Project]
  /\ \A p \in Process : fd[p] # None <=> pc[p] = "created"

\* As long as no two saves overlap and no create starts the project over under
\* a command that has loaded it, commands may interleave and be killed in any
\* order, and the file is whole and holds every import that was reported: a
\* command that loaded before another one saved is refused.  (After a create
\* the revisions start anew: another import can bring the file to the revision
\* that was loaded, and is then lost to the command that loaded before.)
SerialSavesKeepAll ==
  ~raced => \/ Content = None /\ acked = {}
            \/ Content \notin {None, Torn} /\ acked \subseteq Range(Content)

\* docs/THREAT_MODEL.md:153 says that a concurrent writer is detected by
\* revision and fingerprint.  A save that overlaps no other save should then
\* keep what the file holds; but the file's fingerprint is never compared
\* with the one that was loaded, and after two saves that did overlap a
\* revision can name two different projects.
UnracedSaveLosesNothing ==
  [][\A p \in Process :
       (ReplaceProject(p) /\ expected[p] # None /\ ~overlap[p] /\ Content \in Project)
         => Range(Content) \subseteq Range(Content')]_vars
=============================================================================
