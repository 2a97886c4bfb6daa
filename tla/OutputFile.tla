----------------------------- MODULE OutputFile -----------------------------
(***************************************************************************)
(* The scan output of `--output` (AtomicFileWriter of src/src/output.rs):  *)
(* the same replacement as a project's, but every process has a temporary  *)
(* name of its own (<name>.tmp-<pid>) and holds the file open for the      *)
(* whole scan.  A document is the output of one scan of one process.       *)
(***************************************************************************)
EXTENDS TempFile

CONSTANT MaxScans   \* bound: scans started in one behaviour

\* A process has a temporary name of its own: it ends in the process's id.
ASSUME OutputConstants ==
  /\ \A p, q \in Process : TempOf[p] = TempOf[q] => p = q
  /\ MaxScans \in Nat /\ None \notin 1..MaxScans

VARIABLES
  pc,      \* [Process -> where its scan is]
  scan,    \* [Process -> number of its current scan]
  scans,   \* scans started so far
  ended    \* history: scans whose output was reported as written

vars == <<file, pc, scan, scans, ended>>

OutputInit ==
  /\ FileInit
  /\ pc = [p \in Process |-> "idle"]
  /\ scan = [p \in Process |-> 0]
  /\ scans = 0
  /\ ended = {}

At(p, from, to) == pc[p] = from /\ pc' = [pc EXCEPT ![p] = to]

\* A bug: the scan streams to the output path itself.
CreateInPlace(p) ==
  /\ scans < MaxScans
  /\ At(p, "idle", "streaming")
  /\ \/ final = None /\ Opens(p)
     \/ /\ final # None
        /\ disk' = [disk EXCEPT ![final] = Torn]
        /\ fd' = [fd EXCEPT ![p] = final]
        /\ UNCHANGED <<final, temp, lone>>
  /\ scans' = scans + 1
  /\ scan' = [scan EXCEPT ![p] = scans']
  /\ UNCHANGED ended

\* create_atomic_file_writer; a temporary file a killed process with the
\* same pid left behind is truncated.
CreateWriter(p) ==
  /\ scans < MaxScans
  /\ At(p, "idle", "streaming")
  /\ Opens(p)
  /\ scans' = scans + 1
  /\ scan' = [scan EXCEPT ![p] = scans']
  /\ UNCHANGED ended

\* finish, up to sync_all.
SyncAll(p) ==
  /\ At(p, "streaming", "synced")
  /\ Writes(p, scan[p])
  /\ UNCHANGED <<scan, scans, ended>>

\* A write error, a full disk or an error of the scan: Drop removes the file.
DropWriter(p) ==
  /\ At(p, "streaming", "idle")
  /\ Closes(p)
  /\ Removes(p)
  /\ UNCHANGED <<final, disk, scan, scans, ended>>

\* A bug: the rename does not wait for the stream.
FinishEarly(p) ==
  /\ pc[p] \in {"streaming", "synced"}
  /\ pc' = [pc EXCEPT ![p] = "idle"]
  /\ Renames(p)
  /\ ended' = ended \cup {scan[p]}
  /\ UNCHANGED <<scan, scans>>

Finish(p) ==
  /\ At(p, "synced", "idle")
  /\ Renames(p)
  /\ ended' = ended \cup {scan[p]}
  /\ UNCHANGED <<scan, scans>>

Kill(p) ==
  /\ pc[p] # "idle"
  /\ pc' = [pc EXCEPT ![p] = "idle"]
  /\ Closes(p)
  /\ UNCHANGED <<final, temp, disk, scan, scans, ended>>

OutputNext ==
  \E p \in Process :
    CreateWriter(p) \/ SyncAll(p) \/ DropWriter(p) \/ Finish(p) \/ Kill(p)

OutputSpec == OutputInit /\ [][OutputNext]_vars

-----------------------------------------------------------------------------
(* Properties                                                              *)

\* Two scans that write to one path at the same time, killed at any point:
\* the path always holds the whole output of one scan that ended, as the
\* comment on AtomicFileWriter (src/src/output.rs:264) promises.
OutputIsWhole ==
  /\ Content \in ended \cup {None}
  /\ ended # {} => Content # None

\* To a reader the path is an atomic cell: it goes from one whole output to
\* another in one step, whatever else is written, dropped or killed.
Stored == INSTANCE Cell WITH Document <- 1..MaxScans, content <- Content

ReplacesAtomically == Stored!Spec
=============================================================================
