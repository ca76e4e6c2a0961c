----------------------- MODULE ArtifactTransactionInv -----------------------
(***************************************************************************)
(* The inductive invariant of ArtifactTransaction: what the flags of an    *)
(* artifact say about the disk in every loop.  TLC checks it as an         *)
(* invariant; ArtifactTransactionProofs proves it.                         *)
(***************************************************************************)
EXTENDS ArtifactTransaction

NoOSError     == \A r \in Faults : r.raises # "OSError"
NoMemoryError == \A r \in Faults : r.raises # "MemoryError"
NoLateError   == \A r \in Faults : ~ r.done

(* The failures under which no original is lost: only one kind of exception *)
(* occurs, or an exception means that the call had no effect.               *)
OneKindOfFault == NoOSError \/ NoMemoryError \/ NoLateError

StageLoop   == {"stageOpen", "stageWrite", "stageAbort"}
BackupLoop  == {"backupStat", "reserveOpen", "reserveClose", "reserveAbort", "backupRename"}
AfterCommit == {"clean", "drop", "recoverTemp", "recoverBackup"} \cup Ended

(* Once a destination is restored, no loop that unlinks committed           *)
(* destinations can run any more.                                           *)
PastUndo ==
  \/ pc \in {"recoverRestore", "recoverTemp", "recoverBackup"} \cup Ended
  \/ NoMemoryError /\ pc \in {"restore", "clean"}

(* The original is under its own name, and the flags protect it there ... *)
Kept(i) ==
  /\ dest[i] = original[i]
  /\ state[i].backup_completed => backup[i] = "absent"
  /\ (~ state[i].commit_started /\ ~ state[i].commit_completed) \/ PastUndo

(* ... or it is under the backup name, and the flags protect it there. *)
Saved(i) ==
  /\ backup[i] = original[i]
  /\ state[i].backup_name /\ state[i].backup_started
  /\ state[i].backup_completed \/ dest[i] = "absent"

(* Not moved yet: the backup loop has not reached i. *)
Unmoved(i) ==
  /\ dest[i] = original[i]
  /\ ~ state[i].backup_completed
  /\ ~ state[i].commit_started /\ ~ state[i].commit_completed

(* Moved by the backup loop. *)
Moved(i) == original[i] # "absent" => Saved(i) /\ state[i].backup_completed

Forward ==
  /\ pc \in {"directories", "aliases"} \cup StageLoop => \A i \in Artifacts : Unmoved(i)
  /\ pc \in BackupLoop => \A i \in Artifacts : IF i < n THEN Moved(i) ELSE Unmoved(i)
  /\ pc \in BackupLoop \ {"backupStat"} => original[n] # "absent"
  /\ pc = "backupRename" => state[n].backup_name /\ state[n].backup_started
  /\ pc = "commit" => \A i \in Artifacts : Moved(i)

Protected ==
  ~ completed => \A i \in Artifacts : original[i] # "absent" => Kept(i) \/ Saved(i)

(* What a recovery loop has learnt from its stat call is still true. *)
FoundIsTrue ==
  /\ pc \in {"undo", "recoverUndo"} /\ found # "unasked" => AsksTemporary(n)
  /\ pc \in {"restore", "recoverRestore"} /\ found \in {"absent", "present"} =>
       found = Answer(dest[n])
  /\ pc \notin {"undo", "recoverUndo", "restore", "recoverRestore"} \cup Ended =>
       found = "unasked"

Completion ==
  /\ completed => pc \in AfterCommit
  /\ pc = "drop" => completed

(* The clean-ups inside the helpers re-raise what failed. *)
RaisesWhatFails ==
  /\ pc \in {"stageAbort", "reserveAbort"} => pending # "none"
  /\ NoOSError => pc \notin {"undo", "restore"} /\ pending # "OSError"

(* The checks of the destinations run over the whole set before the first   *)
(* write.                                                                   *)
Checked ==
  /\ pc = "directories" => \A i \in Artifacts : i < n => original[i] # "dir"
  /\ pc = "aliases" => \A i \in Artifacts :
       original[i] # "dir" /\ (i < n => original[i] # "input")
  /\ pc \notin {"directories", "aliases"} \cup Ended =>
       \A i \in Artifacts : original[i] \in {"absent", "old"}

(* The staged files are complete before the backup loop starts, and the     *)
(* commit loop moves them in order. *)
Staged ==
  /\ pc \in StageLoop => \A i \in Artifacts : i < n => temp[i] = "new"
  /\ pc \in BackupLoop => \A i \in Artifacts : temp[i] = "new"
  /\ pc = "commit" => \A i \in Artifacts : IF i < n THEN dest[i] = "new" ELSE temp[i] = "new"
  /\ completed => AllNew

(* What holds whatever fails, and what holds when one kind of call fails. *)
BaseInv == /\ TypeOK /\ Forward /\ FoundIsTrue /\ Completion /\ RaisesWhatFails
           /\ Checked /\ Staged
IInv    == BaseInv /\ Protected
=============================================================================
