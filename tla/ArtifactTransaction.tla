------------------------- MODULE ArtifactTransaction -------------------------
(***************************************************************************)
(* write_artifacts of generator.py: replace a set of N generated files in  *)
(* an output directory.  The program stages every file under a temporary   *)
(* name, moves every existing destination to a reserved backup name, then  *)
(* renames the staged files over the destinations.  A failed system call   *)
(* starts the rollback; a MemoryError starts the allocation-light recovery.*)
(*                                                                         *)
(* One action is one system call, together with the assignments up to the  *)
(* next one.  A call may fail before or after its effect took place; the   *)
(* process may die between any two calls.                                  *)
(***************************************************************************)
EXTENDS Naturals

CONSTANTS
  N,           \* artifacts are 1..N, in the order of the `states` list
  Faults,      \* the ways a system call may fail in this instance
  MaxFaults,   \* bound on the number of failing calls in a behaviour
  CanCrash     \* whether the process may die between two calls

Artifacts == 1..N

(* How a call ends: which exception it raises, and whether it had its effect. *)
Result == [raises : {"none", "OSError", "MemoryError"}, done : BOOLEAN]
Ok     == [raises |-> "none", done |-> TRUE]

ASSUME NAssumption      == N \in Nat \ {0}
ASSUME FaultsAssumption == Faults \subseteq {r \in Result : r.raises # "none"}
ASSUME BoundAssumption  == MaxFaults \in Nat /\ CanCrash \in BOOLEAN

VARIABLES
  original,   \* what the destinations held when the call began
  dest,       \* what each destination name holds
  temp,       \* what each staged .tmp name holds
  backup,     \* what each reserved .bak name holds
  state,      \* the _ArtifactWriteState of each artifact
  pc,         \* which loop the process is in
  n,          \* the artifact that loop is at
  found,      \* answer of the last _destination_exists in a recovery loop
  pending,    \* the exception a clean-up inside a helper will re-raise
  completed,  \* the local variable `completed`
  report,     \* what the raised error says; {} is success
  faults      \* failing calls so far

files   == <<dest, temp, backup>>
vars    == <<original, dest, temp, backup, state, pc, n, found, pending,
             completed, report, faults>>

Content == {"absent", "old", "new", "partial", "empty", "dir", "input"}
Loops   == {"directories", "aliases", "stageOpen", "stageWrite", "stageAbort",
            "backupStat", "reserveOpen", "reserveClose", "reserveAbort",
            "backupRename", "commit", "undo", "restore", "clean", "drop",
            "recoverUndo", "recoverRestore", "recoverTemp", "recoverBackup"}
Ended   == {"done", "crashed"}
Reports == {"rejected", "failed", "stagingCleanupFailed", "rollbackFailed",
            "cleanupFailed", "MemoryError"}

(* A slot of `states` before the transaction: no names, every flag false. *)
NewState == [temporary_name |-> FALSE, backup_name |-> FALSE,
             backup_started |-> FALSE, backup_completed |-> FALSE,
             commit_started |-> FALSE, commit_completed |-> FALSE]

FilesOK ==
  /\ original \in [Artifacts -> {"absent", "old", "dir", "input"}]
  /\ dest \in [Artifacts -> Content]
  /\ temp \in [Artifacts -> {"absent", "partial", "new"}]
  /\ backup \in [Artifacts -> Content]

FlagsOK ==
  state \in [Artifacts -> [temporary_name : BOOLEAN, backup_name : BOOLEAN,
                           backup_started : BOOLEAN, backup_completed : BOOLEAN,
                           commit_started : BOOLEAN, commit_completed : BOOLEAN]]

ControlOK ==
  /\ pc \in Loops \cup Ended
  /\ n \in Artifacts
  /\ found \in {"unasked", "present", "absent", "unknown"}
  /\ pending \in {"none", "OSError", "MemoryError"}
  /\ completed \in BOOLEAN
  /\ report \subseteq Reports

(* Type invariant of the disk, of the transaction flags and of the control *)
(* state of write_artifacts. *)
TypeOK == FilesOK /\ FlagsOK /\ ControlOK /\ faults \in 0..MaxFaults

Init ==
  /\ original \in [Artifacts -> {"absent", "old", "dir", "input"}]
  /\ dest = original
  /\ temp = [i \in Artifacts |-> "absent"]
  /\ backup = [i \in Artifacts |-> "absent"]
  /\ state = [i \in Artifacts |-> NewState]
  /\ pc = "directories" /\ n = 1
  /\ found = "unasked" /\ pending = "none"
  /\ completed = FALSE /\ report = {} /\ faults = 0

-----------------------------------------------------------------------------
(* Control. *)

Call(r) ==
  \/ r = Ok /\ UNCHANGED faults
  \/ r \in Faults /\ faults < MaxFaults /\ faults' = faults + 1

(* The definitions named ...Variant are faulty versions of the definition   *)
(* that follows them; no action uses them.                                  *)

(* The loops that run forwards, and the two of each recovery that run over *)
(* reversed(states).                                                       *)
NextArtifactVariant(loop, after) ==   \* runs past the end of the list
  IF n <= N THEN pc' = loop /\ n' = n + 1 ELSE pc' = after /\ n' = 1

NextArtifact(loop, after) ==
  IF n < N THEN pc' = loop /\ n' = n + 1 ELSE pc' = after /\ n' = 1

PreviousArtifactVariant(loop, after, start) ==   \* forgets index -= 1
  IF n > 1 THEN pc' = loop /\ n' = n ELSE pc' = after /\ n' = start

PreviousArtifact(loop, after, start) ==
  IF n > 1 THEN pc' = loop /\ n' = n - 1 ELSE pc' = after /\ n' = start

(* MemoryError reaches the outer handler from any loop of the transaction: *)
(* the undo loops run only when the set is not complete.                   *)
RaiseMemoryErrorVariant ==   \* recovers a completed set too
  /\ report' = {"MemoryError"} /\ pc' = "recoverUndo" /\ n' = N

RaiseMemoryError ==
  /\ report' = {"MemoryError"}
  /\ IF completed THEN pc' = "recoverTemp" /\ n' = 1
                  ELSE pc' = "recoverUndo" /\ n' = N

(* An exception in the staging, backup or commit loop. *)
Raise(kind) ==
  IF kind = "OSError" THEN /\ report' = report \cup {"failed"}
                           /\ pc' = "undo" /\ n' = N
                      ELSE RaiseMemoryError

(* A check that refuses a destination, or whose stat call fails. *)
StopWith(message) == pc' = "done" /\ UNCHANGED n /\ report' = {message}
Reject            == StopWith("rejected")
CheckFails(r)     == StopWith(IF r.raises = "OSError" THEN "rejected" ELSE "MemoryError")

-----------------------------------------------------------------------------
(* Checks before the transaction: two loops of stat calls, nothing written. *)

InspectDirectory ==
  /\ pc = "directories"
  /\ \E r \in Faults \cup {Ok} :
       /\ Call(r)
       /\ \/ r # Ok /\ CheckFails(r)
          \/ r = Ok /\ dest[n] = "dir" /\ Reject
          \/ r = Ok /\ dest[n] # "dir" /\ NextArtifact("directories", "aliases") /\ UNCHANGED report
  /\ UNCHANGED <<original, files, state, found, pending, completed>>

AliasesInputVariant(i) == dest[i] = "input" /\ i # N   \* skips the last destination
AliasesInput(i) == dest[i] = "input"

RejectInputAlias ==
  /\ pc = "aliases"
  /\ \E r \in Faults \cup {Ok} :
       /\ Call(r)
       /\ \/ r # Ok /\ CheckFails(r)
          \/ r = Ok /\ AliasesInput(n) /\ Reject
          \/ r = Ok /\ ~ AliasesInput(n) /\ NextArtifact("aliases", "stageOpen") /\ UNCHANGED report
  /\ UNCHANGED <<original, files, state, found, pending, completed>>

-----------------------------------------------------------------------------
(* _write_staged_file for artifact n. *)

(* An O_EXCL open that fails created nothing; only the MemoryError that     *)
(* follows it inside _open_exclusive_file leaves a file to unlink.          *)
OpenResult == {r \in Faults \cup {Ok} : ~ (r.raises = "OSError" /\ r.done)}

StageOpen ==
  /\ pc = "stageOpen"
  /\ \E r \in OpenResult :
       /\ Call(r)
       /\ temp' = IF r.done THEN [temp EXCEPT ![n] = "partial"] ELSE temp
       /\ CASE r = Ok -> pc' = "stageWrite" /\ UNCHANGED <<n, pending, report>>
            [] r # Ok /\ r.done -> /\ pc' = "stageAbort" /\ pending' = "MemoryError"
                                   /\ UNCHANGED <<n, report>>
            [] OTHER -> Raise(r.raises) /\ UNCHANGED pending
  /\ UNCHANGED <<original, dest, backup, state, found, completed>>

(* write, flush, fsync, close, and the assignment of temporary_name *)
StageWriteVariant ==   \* takes a failed write for a staged file
  /\ pc = "stageWrite"
  /\ \E r \in Faults \cup {Ok} :
       /\ Call(r)
       /\ temp' = IF r.done THEN [temp EXCEPT ![n] = "new"] ELSE temp
  /\ state' = [state EXCEPT ![n].temporary_name = TRUE]
  /\ NextArtifact("stageOpen", "backupStat")
  /\ UNCHANGED <<original, dest, backup, found, pending, completed, report>>

StageWrite ==
  /\ pc = "stageWrite"
  /\ \E r \in Faults \cup {Ok} :
       /\ Call(r)
       /\ temp' = IF r.done THEN [temp EXCEPT ![n] = "new"] ELSE temp
       /\ IF r = Ok
          THEN /\ state' = [state EXCEPT ![n].temporary_name = TRUE]
               /\ NextArtifact("stageOpen", "backupStat")
               /\ UNCHANGED pending
          ELSE /\ pc' = "stageAbort" /\ pending' = r.raises
               /\ UNCHANGED <<state, n>>
  /\ UNCHANGED <<original, dest, backup, found, completed, report>>

(* The unlink in the except clauses.  After an OSError a second one is      *)
(* reported and a MemoryError escapes; after a MemoryError both are         *)
(* suppressed.                                                              *)
StageAbort ==
  /\ pc = "stageAbort"
  /\ \E r \in Faults \cup {Ok} :
       /\ Call(r)
       /\ temp' = IF r.done THEN [temp EXCEPT ![n] = "absent"] ELSE temp
       /\ IF pending = "MemoryError" \/ r.raises = "MemoryError"
          THEN RaiseMemoryError
          ELSE /\ report' = report \cup {"failed"} \cup
                    (IF r = Ok THEN {} ELSE {"stagingCleanupFailed"})
               /\ pc' = "undo" /\ n' = N
  /\ pending' = "none"
  /\ UNCHANGED <<original, dest, backup, state, found, completed>>

-----------------------------------------------------------------------------
(* The backup loop: reserve a name, then move the destination onto it. *)

BackupStat ==
  /\ pc = "backupStat"
  /\ \E r \in Faults \cup {Ok} :
       /\ Call(r)
       /\ CASE r # Ok -> Raise(r.raises)
            [] r = Ok /\ dest[n] = "absent" -> NextArtifact("backupStat", "commit") /\ UNCHANGED report
            [] OTHER -> pc' = "reserveOpen" /\ UNCHANGED <<n, report>>
  /\ UNCHANGED <<original, files, state, found, pending, completed>>

ReserveOpen ==
  /\ pc = "reserveOpen"
  /\ \E r \in OpenResult :
       /\ Call(r)
       /\ backup' = IF r.done THEN [backup EXCEPT ![n] = "empty"] ELSE backup
       /\ CASE r = Ok -> pc' = "reserveClose" /\ UNCHANGED <<n, pending, report>>
            [] r # Ok /\ r.done -> /\ pc' = "reserveAbort" /\ pending' = "MemoryError"
                                   /\ UNCHANGED <<n, report>>
            [] OTHER -> Raise(r.raises) /\ UNCHANGED pending
  /\ UNCHANGED <<original, dest, temp, state, found, completed>>

ReserveClose ==
  /\ pc = "reserveClose"
  /\ \E r \in Faults \cup {Ok} :
       /\ Call(r)
       /\ IF r = Ok
          THEN /\ state' = [state EXCEPT ![n].backup_name = TRUE, ![n].backup_started = TRUE]
               /\ pc' = "backupRename" /\ UNCHANGED pending
          ELSE /\ pc' = "reserveAbort" /\ pending' = r.raises
               /\ UNCHANGED state
  /\ UNCHANGED <<original, files, n, found, completed, report>>

(* Both kinds of failure of this unlink are suppressed: the name is lost. *)
ReserveAbort ==
  /\ pc = "reserveAbort"
  /\ \E r \in Faults \cup {Ok} :
       /\ Call(r)
       /\ backup' = IF r.done THEN [backup EXCEPT ![n] = "absent"] ELSE backup
  /\ Raise(pending)
  /\ pending' = "none"
  /\ UNCHANGED <<original, dest, temp, state, found, completed>>

BackupRename ==
  /\ pc = "backupRename"
  /\ \E r \in Faults \cup {Ok} :
       /\ Call(r)
       /\ IF r.done THEN /\ backup' = [backup EXCEPT ![n] = dest[n]]
                         /\ dest' = [dest EXCEPT ![n] = "absent"]
                    ELSE UNCHANGED <<dest, backup>>
       /\ IF r = Ok
          THEN /\ state' = [state EXCEPT ![n].backup_completed = TRUE]
               /\ NextArtifact("backupStat", "commit") /\ UNCHANGED report
          ELSE UNCHANGED state /\ Raise(r.raises)
  /\ UNCHANGED <<original, temp, found, pending, completed>>

-----------------------------------------------------------------------------
(* The commit loop. *)

CommitVariant ==   \* sets `completed` inside the loop
  /\ pc = "commit"
  /\ \E r \in Faults \cup {Ok} :
       /\ Call(r)
       /\ IF r.done THEN /\ dest' = [dest EXCEPT ![n] = temp[n]]
                         /\ temp' = [temp EXCEPT ![n] = "absent"]
                    ELSE UNCHANGED <<dest, temp>>
       /\ state' = [state EXCEPT ![n].commit_started = TRUE]
       /\ IF r = Ok THEN NextArtifact("commit", "clean") /\ UNCHANGED report
                    ELSE Raise(r.raises)
  /\ completed' = TRUE
  /\ UNCHANGED <<original, backup, found, pending>>

Commit ==
  /\ pc = "commit"
  /\ \E r \in Faults \cup {Ok} :
       /\ Call(r)
       /\ IF r.done THEN /\ dest' = [dest EXCEPT ![n] = temp[n]]
                         /\ temp' = [temp EXCEPT ![n] = "absent"]
                    ELSE UNCHANGED <<dest, temp>>
       /\ IF r = Ok
          THEN /\ state' = [state EXCEPT ![n].commit_started = TRUE,
                                         ![n].commit_completed = TRUE]
               /\ NextArtifact("commit", "clean")
               /\ completed' = (n = N)
               /\ UNCHANGED report
          ELSE /\ state' = [state EXCEPT ![n].commit_started = TRUE]
               /\ Raise(r.raises)
               /\ UNCHANGED completed
  /\ UNCHANGED <<original, backup, found, pending>>

-----------------------------------------------------------------------------
(* What both recoveries decide from the flags, and from one stat where the  *)
(* flags leave it open whether a rename took place.                         *)

AsksTemporary(i) ==
  /\ state[i].commit_started /\ ~ state[i].commit_completed
  /\ state[i].temporary_name

CommittedVariant(i) == state[i].commit_completed   \* does not look at the staged file
Committed(i) == state[i].commit_completed \/ found = "absent"

AsksDestination(i) ==
  state[i].backup_name /\ state[i].backup_started /\ ~ state[i].backup_completed

RestoresBackupVariant(i) == state[i].backup_name   \* restores a reservation never used
RestoresBackup(i) ==
  state[i].backup_name /\ (state[i].backup_completed \/ found = "absent")

DiscardsUnansweredVariant(i) ==   \* takes a failed stat for an existing destination
  state[i].backup_name /\ ~ RestoresBackup(i)
DiscardsUnstartedVariant(i) ==    \* keeps the reservation of a rename that failed
  state[i].backup_name /\ ~ RestoresBackup(i) /\ ~ state[i].backup_started

DiscardsReservation(i) ==
  /\ state[i].backup_name /\ ~ RestoresBackup(i)
  /\ ~ state[i].backup_started \/ found = "present"

Answer(content) == IF content = "absent" THEN "absent" ELSE "present"

(* One stat of a recovery loop: an error leaves the question open. *)
Ask(name) ==
  \E r \in Faults \cup {Ok} :
    /\ Call(r)
    /\ found' = IF r = Ok THEN Answer(name) ELSE "unknown"

-----------------------------------------------------------------------------
(* _rollback_artifact_transaction: an OSError is remembered, a MemoryError  *)
(* abandons the rollback for the recovery.                                  *)

RollbackStat(name) ==
  /\ found = "unasked"
  /\ \E r \in Faults \cup {Ok} :
       /\ Call(r)
       /\ IF r.raises = "MemoryError"
          THEN RaiseMemoryError /\ UNCHANGED found
          ELSE /\ found' = IF r = Ok THEN Answer(name) ELSE "unknown"
               /\ report' = IF r = Ok THEN report ELSE report \cup {"rollbackFailed"}
               /\ UNCHANGED <<pc, n>>
  /\ UNCHANGED <<original, files, state, pending, completed>>

UndoStat    == pc = "undo" /\ AsksTemporary(n) /\ RollbackStat(temp[n])
RestoreStat == pc = "restore" /\ AsksDestination(n) /\ RollbackStat(dest[n])

(* After a call of a rollback loop: go on, or leave it for the recovery. *)
RollbackNextVariant(r, loop, after, start) ==   \* drops the OSError
  /\ found' = "unasked"
  /\ IF r.raises = "MemoryError" THEN RaiseMemoryError
     ELSE PreviousArtifact(loop, after, start) /\ UNCHANGED report

RollbackNext(r, loop, after, start) ==
  /\ found' = "unasked"
  /\ CASE r.raises = "MemoryError" -> RaiseMemoryError
       [] r.raises = "OSError" -> /\ report' = report \cup {"rollbackFailed"}
                                  /\ PreviousArtifact(loop, after, start)
       [] OTHER -> PreviousArtifact(loop, after, start) /\ UNCHANGED report

(* The first loop has nothing to unlink, or unlinks a committed destination. *)
Undo ==
  /\ pc = "undo" /\ (AsksTemporary(n) => found # "unasked")
  /\ \E r \in Faults \cup {Ok} :
       /\ ~ Committed(n) => r = Ok
       /\ Call(r)
       /\ dest' = IF Committed(n) /\ r.done THEN [dest EXCEPT ![n] = "absent"] ELSE dest
       /\ state' = IF Committed(n) /\ r = Ok /\ dest[n] # "absent"
                   THEN [state EXCEPT ![n].commit_started = FALSE,
                                      ![n].commit_completed = FALSE]
                   ELSE state
       /\ RollbackNext(r, "undo", "restore", N)
  /\ UNCHANGED <<original, temp, backup, pending, completed>>

(* The second loop renames the backup over the destination; a backup that   *)
(* is not there makes the rename fail by itself.                            *)
Missing == [raises |-> "OSError", done |-> FALSE]

Restore ==
  /\ pc = "restore" /\ (AsksDestination(n) => found # "unasked")
  /\ RestoresBackup(n)
  /\ \E r \in Faults \cup {Ok, Missing} :
       /\ IF backup[n] = "absent" THEN r = Missing /\ UNCHANGED faults ELSE Call(r)
       /\ IF r.done THEN /\ dest' = [dest EXCEPT ![n] = backup[n]]
                         /\ backup' = [backup EXCEPT ![n] = "absent"]
                    ELSE UNCHANGED <<dest, backup>>
       /\ state' = IF r = Ok
                   THEN [state EXCEPT ![n] = [NewState EXCEPT
                                               !.temporary_name = state[n].temporary_name]]
                   ELSE state
       /\ RollbackNext(r, "restore", "clean", 1)
  /\ UNCHANGED <<original, temp, pending, completed>>

(* Or it unlinks an unused reservation, or has nothing to do. *)
Discard ==
  /\ pc = "restore" /\ (AsksDestination(n) => found # "unasked")
  /\ ~ RestoresBackup(n)
  /\ \E r \in Faults \cup {Ok} :
       /\ ~ DiscardsReservation(n) => r = Ok
       /\ Call(r)
       /\ backup' = IF DiscardsReservation(n) /\ r.done
                    THEN [backup EXCEPT ![n] = "absent"] ELSE backup
       /\ state' = IF DiscardsReservation(n) /\ r = Ok
                   THEN [state EXCEPT ![n].backup_name = FALSE, ![n].backup_started = FALSE]
                   ELSE state
       /\ RollbackNext(r, "restore", "clean", 1)
  /\ UNCHANGED <<original, dest, temp, pending, completed>>

-----------------------------------------------------------------------------
(* _recover_artifact_transaction_after_memory_error: every failure of a     *)
(* call is suppressed, and an unanswered question changes nothing.          *)

RecoverStat ==
  /\ found = "unasked"
  /\ \/ pc = "recoverUndo" /\ AsksTemporary(n) /\ Ask(temp[n])
     \/ pc = "recoverRestore" /\ AsksDestination(n) /\ Ask(dest[n])
  /\ UNCHANGED <<original, files, state, pc, n, pending, completed, report>>

RecoverUndo ==
  /\ pc = "recoverUndo" /\ (AsksTemporary(n) => found # "unasked")
  /\ \E r \in Faults \cup {Ok} :
       /\ ~ Committed(n) => r = Ok
       /\ Call(r)
       /\ dest' = IF Committed(n) /\ r.done THEN [dest EXCEPT ![n] = "absent"] ELSE dest
  /\ state' = IF Committed(n)
              THEN [state EXCEPT ![n].commit_started = FALSE, ![n].commit_completed = FALSE]
              ELSE state
  /\ found' = "unasked"
  /\ PreviousArtifact("recoverUndo", "recoverRestore", N)
  /\ UNCHANGED <<original, temp, backup, pending, completed, report>>

RecoverRestore ==
  /\ pc = "recoverRestore" /\ (AsksDestination(n) => found # "unasked")
  /\ \E r \in Faults \cup {Ok} :
       /\ ~ (RestoresBackup(n) \/ DiscardsReservation(n)) => r = Ok
       /\ Call(r)
       /\ CASE RestoresBackup(n) /\ r.done /\ backup[n] # "absent" ->
                 /\ dest' = [dest EXCEPT ![n] = backup[n]]
                 /\ backup' = [backup EXCEPT ![n] = "absent"]
            [] DiscardsReservation(n) /\ r.done ->
                 backup' = [backup EXCEPT ![n] = "absent"] /\ UNCHANGED dest
            [] OTHER -> UNCHANGED <<dest, backup>>
  /\ found' = "unasked"
  /\ PreviousArtifact("recoverRestore", "recoverTemp", 1)
  /\ UNCHANGED <<original, temp, state, pending, completed, report>>

(* The last loop, two unlinks per artifact; then the MemoryError goes on. *)
RecoverTemporary ==
  /\ pc = "recoverTemp"
  /\ \E r \in Faults \cup {Ok} :
       /\ ~ state[n].temporary_name => r = Ok
       /\ Call(r)
       /\ temp' = IF state[n].temporary_name /\ r.done
                  THEN [temp EXCEPT ![n] = "absent"] ELSE temp
  /\ pc' = "recoverBackup"
  /\ UNCHANGED <<original, dest, backup, state, n, found, pending, completed, report>>

RecoverBackup ==
  /\ pc = "recoverBackup"
  /\ \E r \in Faults \cup {Ok} :
       /\ ~ (completed /\ state[n].backup_name) => r = Ok
       /\ Call(r)
       /\ backup' = IF completed /\ state[n].backup_name /\ r.done
                    THEN [backup EXCEPT ![n] = "absent"] ELSE backup
  /\ NextArtifact("recoverTemp", "done")
  /\ UNCHANGED <<original, dest, temp, state, found, pending, completed, report>>

-----------------------------------------------------------------------------
(* The clean-up that follows a completed transaction and a rollback alike.  *)

(* A file that is already gone is no failure (_unlink_error). *)
CleanNextVariant(r, loop, after) ==   \* drops the OSError
  IF r.raises = "MemoryError" THEN RaiseMemoryError
  ELSE NextArtifact(loop, after) /\ UNCHANGED report

CleanNext(r, loop, after) ==
  CASE r.raises = "MemoryError" -> RaiseMemoryError
    [] r.raises = "OSError" -> /\ report' = report \cup {"cleanupFailed"}
                               /\ NextArtifact(loop, after)
    [] OTHER -> NextArtifact(loop, after) /\ UNCHANGED report

Clean ==
  /\ pc = "clean"
  /\ \E r \in Faults \cup {Ok} :
       /\ ~ state[n].temporary_name => r = Ok
       /\ Call(r)
       /\ temp' = IF state[n].temporary_name /\ r.done
                  THEN [temp EXCEPT ![n] = "absent"] ELSE temp
       /\ state' = IF r = Ok THEN [state EXCEPT ![n].temporary_name = FALSE] ELSE state
       /\ CleanNext(r, "clean", IF completed THEN "drop" ELSE "done")
  /\ UNCHANGED <<original, dest, backup, found, pending, completed>>

DropBackup ==
  /\ pc = "drop"
  /\ \E r \in Faults \cup {Ok} :
       /\ ~ state[n].backup_name => r = Ok
       /\ Call(r)
       /\ backup' = IF state[n].backup_name /\ r.done
                    THEN [backup EXCEPT ![n] = "absent"] ELSE backup
       /\ state' = IF state[n].backup_name /\ r = Ok
                   THEN [state EXCEPT ![n].backup_name = FALSE,
                                      ![n].backup_started = FALSE,
                                      ![n].backup_completed = FALSE]
                   ELSE state
       /\ CleanNext(r, "drop", "done")
  /\ UNCHANGED <<original, dest, temp, found, pending, completed>>

-----------------------------------------------------------------------------
(* The process dies: what is on the disk stays there. *)
Crash ==
  /\ CanCrash /\ pc \in Loops
  /\ pc' = "crashed"
  /\ UNCHANGED <<original, files, state, n, found, pending, completed, report, faults>>

Finished == pc \in Ended /\ UNCHANGED vars

Check    == InspectDirectory \/ RejectInputAlias
Stage    == StageOpen \/ StageWrite \/ StageAbort
BackUp   == BackupStat \/ ReserveOpen \/ ReserveClose \/ ReserveAbort \/ BackupRename
Rollback == UndoStat \/ Undo \/ RestoreStat \/ Restore \/ Discard
Recover  == RecoverStat \/ RecoverUndo \/ RecoverRestore \/ RecoverTemporary \/ RecoverBackup
Step     == Check \/ Stage \/ BackUp \/ Commit \/ Rollback \/ Clean \/ DropBackup \/ Recover
Next     == Step \/ Crash \/ Finished

Spec     == Init /\ [][Next]_vars

(* The process keeps executing until it returns, raises or dies. *)
Fairness == WF_vars(Step)
FairSpec == Spec /\ Fairness

-----------------------------------------------------------------------------
(* Properties. *)

NoLeftovers == \A i \in Artifacts : temp[i] = "absent" /\ backup[i] = "absent"
AllNew      == \A i \in Artifacts : dest[i] = "new"

(* Until the last rename of the commit loop has returned, every file that   *)
(* was there when the call began is still on the disk, under its own name   *)
(* or under its backup name: a crash, a rollback or a recovery at any point *)
(* finds it. *)
NoOriginalLost ==
  ~ completed => \A i \in Artifacts :
    original[i] # "absent" => original[i] \in {dest[i], backup[i]}

(* A call that returns or raises has replaced the whole set or left the set *)
(* as it was: an absent destination is absent again and no staged file stays *)
(* in place.  (One failing call at most.) *)
AllOrNothing ==
  pc = "done" => IF completed THEN AllNew ELSE dest = original

(* Whatever fails, an error that does not say the rollback failed means that *)
(* every destination is as it was; one that says only the clean-up failed,  *)
(* or no error, that every destination is new. *)
HonestReport ==
  pc = "done" /\ report \cap {"rollbackFailed", "MemoryError"} = {} =>
    IF "failed" \in report \/ "rejected" \in report THEN dest = original ELSE AllNew

(* An error message that mentions no failed clean-up and no failed rollback *)
(* means that no staged file and no copy of an original stays behind under  *)
(* a hidden name. *)
LeftoversReported ==
  pc = "done" /\ report \subseteq {"rejected", "failed"} =>
    \A i \in Artifacts : temp[i] = "absent" /\ backup[i] \in {"absent", "empty"}

(* With one failing call, only a call that reports a failed clean-up leaves *)
(* a transaction file behind, a MemoryError included. *)
CleanedUp ==
  pc = "done" /\ "cleanupFailed" \notin report => NoLeftovers

(* A destination that is a directory or an input file stops the whole call  *)
(* before its first write, whichever position it has in the set. *)
NothingWrittenWhenRejected ==
  (\E i \in Artifacts : original[i] \in {"dir", "input"}) => dest = original /\ NoLeftovers

(* No destination ever shows a half-written file or an empty reservation:   *)
(* what a reader sees under a final name is the original or the new file.   *)
NoTornDestination ==
  \A i \in Artifacts : dest[i] \in {"absent", original[i], "new"}

(* A new file appears under its final name only when every file of the set  *)
(* is completely staged or already in place and no original is left under   *)
(* its own name: the commit starts after the last thing likely to fail.     *)
PublishedAfterStaging ==
  [][(\E i \in Artifacts : dest'[i] = "new" /\ dest[i] # "new") =>
       \A i \in Artifacts : temp[i] = "new" \/ dest[i] = "new"]_vars

(* The completed set is final: no clean-up failure and no MemoryError after *)
(* the commit takes a new file away or brings an old one back. *)
CompletedIsFinal == [][completed => completed' /\ dest' = dest]_vars

(* write_artifacts ends: the recovery loops terminate whatever fails. *)
Terminates == <>(pc \in Ended)

(* "Parse all inputs, then atomically write their generated artifacts"      *)
(* (workflow.generate): a process that dies leaves one of the two sets.     *)
CrashAtomic == pc = "crashed" => dest = original \/ AllNew

(* "Replace the complete artifact set with rollback on any write failure"   *)
(* (write_artifacts): after a failed call each original file still exists.  *)
RollbackOnAnyFailure ==
  pc = "done" /\ ~ completed => \A i \in Artifacts :
    original[i] = "old" => "old" \in {dest[i], backup[i]}

(* The set the directory stands for: what a reader who knows the backup     *)
(* names can put back, until the commit is complete. *)
RecoverableSet == [i \in Artifacts |->
  IF completed \/ (original[i] # "absent" /\ backup[i] # original[i])
  THEN dest[i] ELSE original[i]]

Atomic == INSTANCE AtomicReplace WITH before <- original, set <- RecoverableSet,
                                      replaced <- completed

(* The transaction implements the abstract replacement: its steps change the *)
(* recoverable set once, from the original set to the new one, or never.    *)
ImplementsAtomicReplace == Atomic!Spec
=============================================================================
