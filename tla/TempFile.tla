------------------------------ MODULE TempFile ------------------------------
(***************************************************************************)
(* One file that processes replace as a whole: write a temporary file      *)
(* beside it, sync, rename over it.  This is the file system as            *)
(* save_checkpoint (src/src/persistence.rs), save_project                  *)
(* (src/src/project.rs) and AtomicFileWriter (src/src/output.rs) use it:   *)
(* directory entries name inodes, File::create on an entry that exists     *)
(* truncates the inode behind it, and rename moves an entry, whoever wrote *)
(* the inode.                                                              *)
(***************************************************************************)
EXTENDS Naturals, FiniteSets

CONSTANTS
  Process,
  Inode,
  TempOf,     \* [Process -> names]: the temporary name a process writes to
  None,       \* no entry, no open file
  Torn        \* what an inode holds before, or after a disturbed, write

Names == {TempOf[p] : p \in Process}

ASSUME FileConstants ==
  /\ None \notin Inode
  /\ Cardinality(Inode) >= Cardinality(Process) + Cardinality(Names) + 1

VARIABLES
  final,    \* the inode behind the final name
  temp,     \* [Names -> inode or None]
  disk,     \* [Inode -> document or Torn]
  fd,       \* [Process -> the inode it is writing, or None]
  lone      \* [Process -> nobody else touched that inode since it opened it]

file == <<final, temp, disk, fd, lone>>

FileInit ==
  /\ final = None
  /\ temp = [n \in {TempOf[p] : p \in Process} |-> None]
  /\ disk = [i \in Inode |-> Torn]
  /\ fd = [p \in Process |-> None]
  /\ lone = [p \in Process |-> TRUE]

\* What a reader of the final name finds.
Content == IF final = None THEN None ELSE disk[final]

InUse(i) == \/ i = final
            \/ \E n \in DOMAIN temp : temp[n] = i
            \/ \E p \in Process : fd[p] = i

Opens(p) ==
  LET name == TempOf[p]
  IN \E i \in Inode :
       /\ IF temp[name] = None THEN ~InUse(i) ELSE i = temp[name]
       /\ temp' = [temp EXCEPT ![name] = i]
       /\ disk' = [disk EXCEPT ![i] = Torn]
       /\ fd' = [fd EXCEPT ![p] = i]
       /\ lone' = [q \in Process |-> IF q = p THEN \A r \in Process \ {p} : fd[r] # i
                                              ELSE lone[q] /\ fd[q] # i]
       /\ UNCHANGED final

\* The stream to the open file, its sync and its close.  Two writers with
\* the same inode open each write from their own offset: the file ends up
\* as the later one's document or as neither's.
Writes(p, document) ==
  /\ fd[p] # None
  /\ \E d \in {document} \cup (IF lone[p] THEN {} ELSE {Torn}) :
       disk' = [disk EXCEPT ![fd[p]] = d]
  /\ fd' = [fd EXCEPT ![p] = None]
  /\ lone' = [q \in Process |-> IF q = p THEN TRUE ELSE lone[q] /\ fd[q] # fd[p]]
  /\ UNCHANGED <<final, temp>>

\* An error on the way, or the end of the process: the file stays as it is.
Closes(p) ==
  /\ fd' = [fd EXCEPT ![p] = None]
  /\ lone' = [lone EXCEPT ![p] = TRUE]

Removes(p) == temp' = [temp EXCEPT ![TempOf[p]] = None]

\* rename(2) fails when the temporary name is gone.  The inode that was
\* behind the final name goes, unless somebody still writes to it.
Renames(p) ==
  /\ temp[TempOf[p]] # None
  /\ final' = temp[TempOf[p]]
  /\ disk' = [i \in Inode |-> IF i = final /\ \A q \in Process : fd[q] # i
                              THEN Torn ELSE disk[i]]
  /\ Removes(p)
  /\ UNCHANGED <<fd, lone>>
=============================================================================
