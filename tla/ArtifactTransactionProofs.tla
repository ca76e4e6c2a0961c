---------------------- MODULE ArtifactTransactionProofs ----------------------
(***************************************************************************)
(* Proofs about ArtifactTransaction for every number of artifacts and      *)
(* every bound on the failing calls.                                       *)
(***************************************************************************)
EXTENDS ArtifactTransactionInv, TLAPS

(* What a call of os.open, os.replace, os.unlink, ... can return. *)
LEMMA CallFacts ==
  /\ Ok.raises = "none" /\ Ok.done = TRUE
  /\ \A r \in Faults \cup {Ok, Missing} :
       r.raises \in {"none", "OSError", "MemoryError"} /\ r.done \in BOOLEAN
  /\ \A r \in Faults : r.raises # "none"
<1>1. ASSUME NEW r \in Result
      PROVE r.raises \in {"none", "OSError", "MemoryError"} /\ r.done \in BOOLEAN
  BY DEF Result
<1>2. Ok \in Result /\ Missing \in Result
  BY DEF Ok, Missing, Result
<1>3. Faults \subseteq Result /\ \A r \in Faults : r.raises # "none"
  BY FaultsAssumption
<1> QED
  BY <1>1, <1>2, <1>3 DEF Ok

LEMMA CallBound ==
  ASSUME faults \in 0..MaxFaults, NEW r, Call(r)
  PROVE  faults' \in 0..MaxFaults
  BY BoundAssumption DEF Call

(* The loops over `states` and reversed(states) stay within the list. *)
LEMMA IndexFacts ==
  /\ 1 \in Artifacts /\ N \in Artifacts
  /\ \A i \in Artifacts : i < N => i + 1 \in Artifacts
  /\ \A i \in Artifacts : i > 1 => i - 1 \in Artifacts
  BY NAssumption DEF Artifacts

(* One step keeps the type of the disk: the renames move contents between   *)
(* names, the opens and unlinks write "partial", "empty" or "absent". *)
LEMMA FilesStep == TypeOK /\ [Next]_vars => FilesOK'
<1> SUFFICES ASSUME TypeOK, [Next]_vars PROVE FilesOK'
  OBVIOUS
<1> USE DEF TypeOK, FilesOK, ControlOK, Content
<1>1. CASE Check
  BY <1>1 DEF Check, InspectDirectory, RejectInputAlias, files
<1>2. CASE Stage
  BY <1>2 DEF Stage, StageOpen, StageWrite, StageAbort
<1>3. CASE BackUp
  <2>1. CASE BackupRename
    BY <2>1 DEF BackupRename
  <2> QED
    BY <1>3, <2>1 DEF BackUp, BackupStat, ReserveOpen, ReserveClose, ReserveAbort, files
<1>4. CASE Commit
  BY <1>4 DEF Commit
<1>5. CASE Rollback
  <2>1. CASE Restore
    BY <2>1 DEF Restore
  <2> QED
    BY <1>5, <2>1 DEF Rollback, UndoStat, Undo, RestoreStat, Discard, RollbackStat, files
<1>6. CASE Recover
  <2>1. CASE RecoverRestore
    BY <2>1 DEF RecoverRestore
  <2> QED
    BY <1>6, <2>1 DEF Recover, RecoverStat, RecoverUndo, RecoverTemporary, RecoverBackup, files
<1>7. CASE Clean \/ DropBackup
  BY <1>7 DEF Clean, DropBackup
<1>8. CASE Crash \/ UNCHANGED vars
  BY <1>8, BoundAssumption DEF Crash, vars, files
<1> QED
  BY <1>1, <1>2, <1>3, <1>4, <1>5, <1>6, <1>7, <1>8 DEF Next, Step, Finished

(* One step keeps the flags Booleans. *)
LEMMA FlagsStep == TypeOK /\ [Next]_vars => FlagsOK'
<1> SUFFICES ASSUME TypeOK, [Next]_vars PROVE FlagsOK'
  OBVIOUS
<1> USE DEF TypeOK, FlagsOK, ControlOK
<1>1. CASE Check \/ Stage
  BY <1>1 DEF Check, InspectDirectory, RejectInputAlias, Stage, StageOpen, StageWrite, StageAbort
<1>10. CASE BackUp
  <2>1. CASE ReserveClose
    BY ZenonT(40), <2>1 DEF ReserveClose
  <2> QED
    BY <1>10, <2>1 DEF BackUp, BackupRename, BackupStat, ReserveOpen, ReserveAbort
<1>2. CASE Commit
  BY ZenonT(40), <1>2 DEF Commit
<1>3. CASE UndoStat \/ Undo \/ RestoreStat
  BY ZenonT(40), <1>3 DEF UndoStat, Undo, RestoreStat, RollbackStat
<1>4. CASE Restore
  BY ZenonT(40), <1>4 DEF Restore, NewState
<1>5. CASE Discard
  <2> DEFINE discarded == [state[n] EXCEPT !.backup_name = FALSE, !.backup_started = FALSE]
  <2>1. state' = state \/ state' = [state EXCEPT ![n] = discarded]
    BY <1>5 DEF Discard
  <2>2. discarded \in [temporary_name : BOOLEAN, backup_name : BOOLEAN,
                       backup_started : BOOLEAN, backup_completed : BOOLEAN,
                       commit_started : BOOLEAN, commit_completed : BOOLEAN]
    OBVIOUS
  <2> HIDE DEF discarded
  <2> QED
    BY <2>1, <2>2
<1>6. CASE Recover
  BY ZenonT(40), <1>6 DEF Recover, RecoverStat, RecoverUndo, RecoverRestore, RecoverTemporary,
     RecoverBackup
<1>7. CASE Clean
  BY <1>7 DEF Clean
<1>8. CASE DropBackup
  <2> DEFINE dropped == [state[n] EXCEPT !.backup_name = FALSE, !.backup_started = FALSE,
                                         !.backup_completed = FALSE]
  <2>1. state' = state \/ state' = [state EXCEPT ![n] = dropped]
    BY <1>8 DEF DropBackup
  <2>2. dropped \in [temporary_name : BOOLEAN, backup_name : BOOLEAN,
                     backup_started : BOOLEAN, backup_completed : BOOLEAN,
                     commit_started : BOOLEAN, commit_completed : BOOLEAN]
    OBVIOUS
  <2> HIDE DEF dropped
  <2> QED
    BY <2>1, <2>2
<1>9. CASE Crash \/ UNCHANGED vars
  BY <1>9, BoundAssumption DEF Crash, vars
<1> QED
  BY <1>1, <1>2, <1>3, <1>4, <1>5, <1>6, <1>7, <1>8, <1>9, <1>10
     DEF Next, Step, Rollback, Finished

(* One step keeps the type of the control state: each variable by itself. *)
LEMMA ControlStep == TypeOK /\ [Next]_vars => ControlOK' /\ faults' \in 0..MaxFaults
<1> SUFFICES ASSUME TypeOK, [Next]_vars PROVE ControlOK' /\ faults' \in 0..MaxFaults
  OBVIOUS
<1> USE BoundAssumption
    DEF vars, Next, Step, Check, Stage, BackUp, Rollback, Recover, Finished,
        InspectDirectory, RejectInputAlias, StageOpen, StageWrite, StageAbort,
        BackupStat, ReserveOpen, ReserveClose, ReserveAbort, BackupRename, Commit,
        UndoStat, Undo, RestoreStat, Restore, Discard, RecoverStat, RecoverUndo,
        RecoverRestore, RecoverTemporary, RecoverBackup, Clean, DropBackup, Crash,
        RollbackStat, RollbackNext, CleanNext, OpenResult, Ask
<1>1. pc' \in Loops \cup Ended
  BY DEF TypeOK, ControlOK, Loops, Ended, Raise, RaiseMemoryError,
     Reject, StopWith, CheckFails, NextArtifact, PreviousArtifact
<1>2. n' \in Artifacts
  BY IndexFacts DEF TypeOK, ControlOK, Raise, RaiseMemoryError,
     Reject, StopWith, CheckFails, NextArtifact, PreviousArtifact
<1>3. report' \subseteq Reports
  BY DEF TypeOK, ControlOK, Reports, Raise, RaiseMemoryError, Reject, StopWith, CheckFails
<1>4. found' \in {"unasked", "present", "absent", "unknown"}
  BY DEF TypeOK, ControlOK, Answer
<1>5. pending' \in {"none", "OSError", "MemoryError"}
  BY CallFacts DEF TypeOK, ControlOK
<1>6. completed' \in BOOLEAN
  BY DEF TypeOK, ControlOK
<1>7. faults' \in 0..MaxFaults
  BY CallBound DEF TypeOK
<1> QED
  BY <1>1, <1>2, <1>3, <1>4, <1>5, <1>6, <1>7 DEF ControlOK

(* The flags and control variables start within their types. *)
LEMMA TypeInit == Init => TypeOK
<1> SUFFICES ASSUME Init PROVE TypeOK
  OBVIOUS
<1>1. FilesOK
  BY DEF Init, FilesOK, Content
<1>2. FlagsOK
  BY DEF Init, FlagsOK, NewState
<1>3. ControlOK
  BY IndexFacts DEF Init, ControlOK, Loops
<1>4. faults \in 0..MaxFaults
  BY BoundAssumption DEF Init
<1> QED
  BY <1>1, <1>2, <1>3, <1>4 DEF TypeOK

LEMMA TypeStep == TypeOK /\ [Next]_vars => TypeOK'
  BY FilesStep, FlagsStep, ControlStep DEF TypeOK

(* Every flag, slot and control variable keeps its type: write_artifacts's  *)
(* loops stay within the artifact list and its flags are Booleans.          *)
THEOREM Typing == Spec => []TypeOK
  BY TypeInit, TypeStep, PTL DEF Spec

-----------------------------------------------------------------------------
(* The invariant that holds whatever fails, part by part. *)

(* The forward loops leave each artifact unmoved before, and moved after,   *)
(* the backup loop has reached it. *)
LEMMA ForwardStep == BaseInv /\ [Next]_vars => Forward'
<1> SUFFICES ASSUME BaseInv, [Next]_vars PROVE Forward'
  OBVIOUS
<1> USE DEF BaseInv, TypeOK, FilesOK, FlagsOK, ControlOK, Forward, StageLoop, BackupLoop
<1> USE DEF Raise, RaiseMemoryError, Reject, StopWith, CheckFails, NextArtifact, PreviousArtifact
<1>1. CASE Check \/ StageOpen \/ StageAbort
  BY <1>1 DEF Check, InspectDirectory, RejectInputAlias, StageOpen, StageAbort, files, Unmoved
<1>2. CASE StageWrite
  <2>1. \A i \in Artifacts : Unmoved(i)'
    BY <1>2 DEF StageWrite, Unmoved
  <2>2. pc' \in {"stageOpen", "stageAbort"} \/ (pc' = "backupStat" /\ n' = 1)
    BY <1>2 DEF StageWrite
  <2> QED
    BY <2>1, <2>2 DEF Artifacts
<1>3. CASE BackupStat
  <2>1. \A i \in Artifacts : (Moved(i) => Moved(i)') /\ (Unmoved(i) => Unmoved(i)')
    BY <1>3 DEF BackupStat, files, Moved, Saved, Unmoved
  <2>2. \/ pc' \in {"undo", "recoverUndo", "recoverTemp"}
        \/ pc' = "reserveOpen" /\ n' = n /\ dest[n] # "absent"
        \/ pc' = "backupStat" /\ n' = n + 1 /\ dest[n] = "absent"
        \/ pc' = "commit" /\ n = N /\ dest[n] = "absent"
    BY <1>3, NAssumption DEF BackupStat, Artifacts
  <2>3. dest[n] = original[n]
    BY <1>3, NAssumption DEF BackupStat, Unmoved, Artifacts
  <2>4. dest[n] = "absent" => Moved(n)
    BY <2>3 DEF Moved
  <2> QED
    BY <1>3, <2>1, <2>2, <2>3, <2>4, NAssumption DEF BackupStat, Artifacts
<1>4. CASE ReserveOpen \/ ReserveAbort
  <2>1. \A i \in Artifacts : i # n /\ Moved(i) => Moved(i)'
    BY <1>4 DEF ReserveOpen, ReserveAbort, Moved, Saved
  <2>2. \A i \in Artifacts : Unmoved(i) => Unmoved(i)'
    BY <1>4 DEF ReserveOpen, ReserveAbort, Unmoved
  <2>3. \/ pc' \in {"undo", "recoverUndo", "recoverTemp"}
        \/ pc' \in {"reserveClose", "reserveAbort"} /\ n' = n /\ UNCHANGED original
    BY <1>4 DEF ReserveOpen, ReserveAbort
  <2>4. pc \in BackupLoop \ {"backupStat"}
    BY <1>4 DEF ReserveOpen, ReserveAbort
  <2>5. \A i \in Artifacts : IF i < n THEN Moved(i)' ELSE Unmoved(i)'
    <3> SUFFICES ASSUME NEW i \in Artifacts PROVE IF i < n THEN Moved(i)' ELSE Unmoved(i)'
      OBVIOUS
    <3>1. i < n => i # n
      BY NAssumption DEF Artifacts
    <3> QED
      BY <2>1, <2>2, <2>4, <3>1
  <2> QED
    BY <2>3, <2>4, <2>5
<1>5. CASE ReserveClose
  <2>1. \A i \in Artifacts : i # n /\ Moved(i) => Moved(i)'
    BY <1>5 DEF ReserveClose, Moved, Saved, files
  <2>2. \A i \in Artifacts : Unmoved(i) => Unmoved(i)'
    BY <1>5 DEF ReserveClose, Unmoved, files
  <2>3. \/ pc' = "reserveAbort" /\ n' = n /\ UNCHANGED original
        \/ /\ pc' = "backupRename" /\ n' = n /\ UNCHANGED original
           /\ state[n].backup_name' /\ state[n].backup_started'
    BY <1>5 DEF ReserveClose
  <2>4. pc \in BackupLoop \ {"backupStat"}
    BY <1>5 DEF ReserveClose
  <2>5. \A i \in Artifacts : IF i < n THEN Moved(i)' ELSE Unmoved(i)'
    <3> SUFFICES ASSUME NEW i \in Artifacts PROVE IF i < n THEN Moved(i)' ELSE Unmoved(i)'
      OBVIOUS
    <3>1. i < n => i # n
      BY NAssumption DEF Artifacts
    <3> QED
      BY <2>1, <2>2, <2>4, <3>1
  <2> QED
    BY <2>3, <2>4, <2>5
<1>6. CASE BackupRename
  <2> DEFINE NowMoved == \A i \in Artifacts : i = n => Moved(i)'
  <2>1. \A i \in Artifacts : i # n => (Moved(i) => Moved(i)') /\ (Unmoved(i) => Unmoved(i)')
    BY <1>6 DEF BackupRename, Moved, Saved, Unmoved
  <2>2. \/ pc' \in {"undo", "recoverUndo", "recoverTemp"}
        \/ NowMoved /\ pc' = "backupStat" /\ n' = n + 1
        \/ NowMoved /\ pc' = "commit" /\ n = N
    <3>1. CASE pc' \in {"undo", "recoverUndo", "recoverTemp"}
      BY <3>1
    <3>2. CASE pc' \notin {"undo", "recoverUndo", "recoverTemp"}
      <4>1. /\ backup' = [backup EXCEPT ![n] = dest[n]]
            /\ dest' = [dest EXCEPT ![n] = "absent"]
            /\ state' = [state EXCEPT ![n].backup_completed = TRUE]
            /\ UNCHANGED original
        BY <1>6, <3>2, CallFacts DEF BackupRename
      <4>2. NowMoved
        <5>1. dest[n] = original[n] /\ state[n].backup_name /\ state[n].backup_started
          BY <1>6, NAssumption DEF BackupRename, Unmoved, Artifacts
        <5>2. \A i \in Artifacts : i = n => backup'[i] = original'[i] /\ dest'[i] = "absent"
          BY <4>1, <5>1
        <5>3. \A i \in Artifacts : i = n =>
                state'[i].backup_name /\ state'[i].backup_started /\ state'[i].backup_completed
          BY <4>1, <5>1
        <5> QED
          BY <5>2, <5>3 DEF Moved, Saved
      <4>3. (pc' = "backupStat" /\ n' = n + 1) \/ (pc' = "commit" /\ n = N)
        BY <1>6, <3>2, NAssumption DEF BackupRename, Artifacts
      <4> QED
        BY <4>2, <4>3
    <3> QED
      BY <3>1, <3>2
  <2>3. \A i \in Artifacts : IF i < n THEN Moved(i) ELSE Unmoved(i)
    BY <1>6 DEF BackupRename
  <2>4. \A i \in Artifacts : /\ n' = n + 1 => (i < n' <=> i < n \/ i = n)
                             /\ n = N => i < n \/ i = n
                             /\ n' = n + 1 /\ ~ (i < n') => i # n
    BY NAssumption DEF Artifacts
  <2>5. CASE pc' \in {"undo", "recoverUndo", "recoverTemp"}
    BY <2>5
  <2>6. CASE NowMoved /\ pc' = "backupStat" /\ n' = n + 1
    <3>1. \A i \in Artifacts : IF i < n' THEN Moved(i)' ELSE Unmoved(i)'
      BY <2>1, <2>3, <2>4, <2>6
    <3> QED
      BY <2>6, <3>1
  <2>7. CASE NowMoved /\ pc' = "commit" /\ n = N
    <3>1. \A i \in Artifacts : Moved(i)'
      BY <2>1, <2>3, <2>4, <2>7
    <3> QED
      BY <2>7, <3>1
  <2> QED
    BY <2>2, <2>5, <2>6, <2>7
<1>7. CASE Commit
  <2>1. \A i \in Artifacts : Moved(i)'
    <3> SUFFICES ASSUME NEW i \in Artifacts, original[i] # "absent"
                 PROVE  Saved(i)' /\ state'[i].backup_completed
      BY <1>7 DEF Commit, Moved
    <3> QED
      BY SMTT(30), <1>7 DEF Commit, Moved, Saved
  <2>2. pc' \in {"commit", "clean", "undo", "recoverUndo", "recoverTemp"}
    BY <1>7 DEF Commit
  <2> QED
    BY <2>1, <2>2
<1>8. CASE Rollback \/ Recover \/ Clean \/ DropBackup
  <2>1. pc' \in {"undo", "restore", "clean", "drop", "done", "recoverUndo",
                 "recoverRestore", "recoverTemp", "recoverBackup"}
    BY <1>8 DEF Rollback, Recover, Clean, DropBackup, UndoStat, Undo, RestoreStat, Restore,
       Discard, RecoverStat, RecoverUndo, RecoverRestore, RecoverTemporary, RecoverBackup,
       RollbackStat, RollbackNext, CleanNext
  <2> QED
    BY <2>1
<1>9. CASE Crash
  BY <1>9, BoundAssumption DEF Crash
<1>10. CASE UNCHANGED vars
  BY <1>10 DEF vars, Moved, Unmoved, Saved
<1> QED
  BY <1>1, <1>2, <1>3, <1>4, <1>5, <1>6, <1>7, <1>8, <1>9, <1>10
     DEF Next, Step, Stage, BackUp, Finished

(* `completed` is only set by the last commit, and no loop before it runs   *)
(* again. *)
LEMMA CompletionStep == BaseInv /\ [Next]_vars => Completion'
<1> SUFFICES ASSUME BaseInv, [Next]_vars PROVE Completion'
  OBVIOUS
<1> USE CallFacts, NAssumption DEF BaseInv, TypeOK, ControlOK, Completion, AfterCommit,
        Artifacts, Ended, Answer,
        Raise, RaiseMemoryError, Reject, StopWith, CheckFails, NextArtifact, PreviousArtifact
<1>1. CASE Check
  BY <1>1 DEF Check, InspectDirectory, RejectInputAlias
<1>2. CASE Stage
  <2>1. CASE StageOpen
    BY <2>1 DEF StageOpen, OpenResult
  <2>2. CASE StageWrite
    BY <2>2 DEF StageWrite
  <2>3. CASE StageAbort
    BY <2>3 DEF StageAbort
  <2> QED
    BY <1>2, <2>1, <2>2, <2>3 DEF Stage
<1>3. CASE BackUp
  BY <1>3 DEF BackUp, BackupStat, ReserveOpen, ReserveClose, ReserveAbort, BackupRename,
     OpenResult
<1>4. CASE Commit
  <2>1. CASE Commit
    BY <2>1 DEF Commit
  <2> QED
    BY <1>4, <2>1 DEF Commit
<1>5. CASE Rollback
  <2>1. CASE UndoStat
    BY <2>1 DEF UndoStat, RollbackStat
  <2>2. CASE RestoreStat
    BY <2>2 DEF RestoreStat, RollbackStat
  <2>3. CASE Undo
    BY <2>3 DEF Undo, RollbackNext
  <2>4. CASE Restore
    BY <2>4 DEF Restore, RollbackNext
  <2>5. CASE Discard
    BY <2>5 DEF Discard, RollbackNext
  <2> QED
    BY <1>5, <2>1, <2>2, <2>3, <2>4, <2>5 DEF Rollback
<1>6. CASE Recover
  BY <1>6 DEF Recover, RecoverStat, RecoverUndo, RecoverRestore, RecoverTemporary,
     RecoverBackup, Ask
<1>7. CASE Clean \/ DropBackup
  <2>1. CASE Clean
    BY <2>1 DEF Clean, CleanNext
  <2>2. CASE DropBackup
    BY <2>2 DEF DropBackup, CleanNext
  <2> QED
    BY <1>7, <2>1, <2>2
<1>8. CASE Crash \/ UNCHANGED vars
  BY <1>8, BoundAssumption DEF Crash, vars
<1> QED
  BY <1>1, <1>2, <1>3, <1>4, <1>5, <1>6, <1>7, <1>8
     DEF Next, Step, Finished

(* The rollback starts only for an OSError. *)
LEMMA RaisesWhatFailsStep == BaseInv /\ [Next]_vars => RaisesWhatFails'
<1> SUFFICES ASSUME BaseInv, [Next]_vars PROVE RaisesWhatFails'
  OBVIOUS
<1> USE CallFacts DEF BaseInv, TypeOK, ControlOK, RaisesWhatFails, NoOSError, Call,
        Raise, RaiseMemoryError, Reject, StopWith, CheckFails, NextArtifact, PreviousArtifact
<1>1. CASE Check
  BY <1>1 DEF Check, InspectDirectory, RejectInputAlias
<1>2. CASE Stage
  <2>1. CASE StageOpen
    BY <2>1 DEF StageOpen, OpenResult
  <2>2. CASE StageWrite
    BY <2>2 DEF StageWrite
  <2>3. CASE StageAbort
    BY <2>3 DEF StageAbort
  <2> QED
    BY <1>2, <2>1, <2>2, <2>3 DEF Stage
<1>3. CASE BackUp
  <2>1. CASE BackupStat \/ BackupRename
    BY <2>1 DEF BackupStat, BackupRename
  <2>2. CASE ReserveOpen
    BY <2>2 DEF ReserveOpen, OpenResult
  <2>3. CASE ReserveClose
    BY <2>3 DEF ReserveClose
  <2>4. CASE ReserveAbort
    BY <2>4 DEF ReserveAbort
  <2> QED
    BY <1>3, <2>1, <2>2, <2>3, <2>4 DEF BackUp
<1>4. CASE Commit
  BY <1>4 DEF Commit
<1>5. CASE Rollback
  BY <1>5 DEF Rollback, UndoStat, Undo, RestoreStat, Restore, Discard, RollbackStat,
     RollbackNext, Missing
<1>6. CASE Recover
  BY <1>6 DEF Recover, RecoverStat, RecoverUndo, RecoverRestore, RecoverTemporary,
     RecoverBackup, Ask, Missing
<1>7. CASE Clean \/ DropBackup
  BY <1>7 DEF Clean, DropBackup, CleanNext
<1>8. CASE Crash \/ UNCHANGED vars
  BY <1>8, BoundAssumption DEF Crash, vars
<1> QED
  BY <1>1, <1>2, <1>3, <1>4, <1>5, <1>6, <1>7, <1>8
     DEF Next, Step, Finished

(* A recovery loop acts on what it saw in the same iteration. *)
LEMMA FoundIsTrueStep == BaseInv /\ [Next]_vars => FoundIsTrue'
<1> SUFFICES ASSUME BaseInv, [Next]_vars PROVE FoundIsTrue'
  OBVIOUS
<1> USE DEF BaseInv, TypeOK, ControlOK, FilesOK, FlagsOK, FoundIsTrue, AsksTemporary,
        AsksDestination, Answer, Ended, files,
        Raise, RaiseMemoryError, Reject, StopWith, CheckFails, NextArtifact, PreviousArtifact
<1>1. CASE Check
  BY <1>1 DEF Check, InspectDirectory, RejectInputAlias
<1>2. CASE Stage
  BY <1>2 DEF Stage, StageOpen, StageWrite, StageAbort, OpenResult
<1>3. CASE BackUp
  BY <1>3 DEF BackUp, BackupStat, ReserveOpen, ReserveClose, ReserveAbort, BackupRename,
     OpenResult
<1>4. CASE Commit
  BY <1>4 DEF Commit
<1>5. CASE Rollback
  BY <1>5 DEF Rollback, UndoStat, Undo, RestoreStat, Restore, Discard, RollbackStat,
     RollbackNext
<1>6. CASE Recover
  BY <1>6 DEF Recover, RecoverStat, RecoverUndo, RecoverRestore, RecoverTemporary,
     RecoverBackup, Ask
<1>7. CASE Clean \/ DropBackup
  BY <1>7 DEF Clean, DropBackup, CleanNext
<1>8. CASE Crash \/ UNCHANGED vars
  BY <1>8, BoundAssumption DEF Crash, vars
<1> QED
  BY <1>1, <1>2, <1>3, <1>4, <1>5, <1>6, <1>7, <1>8
     DEF Next, Step, Finished

(* No loop of the transaction starts before every destination is checked. *)
LEMMA CheckedStep == BaseInv /\ [Next]_vars => Checked'
<1> SUFFICES ASSUME BaseInv, [Next]_vars PROVE Checked'
  OBVIOUS
<1> USE NAssumption DEF BaseInv, TypeOK, ControlOK, FilesOK, Forward, Unmoved, Checked,
        Artifacts, Ended, files,
        Raise, RaiseMemoryError, Reject, StopWith, CheckFails, NextArtifact, PreviousArtifact
<1>1. CASE Check
  <2>1. CASE InspectDirectory
    BY <2>1 DEF InspectDirectory
  <2>2. CASE RejectInputAlias
    BY <2>2 DEF RejectInputAlias, AliasesInput
  <2> QED
    BY <1>1, <2>1, <2>2 DEF Check
<1>2. CASE Stage
  BY <1>2 DEF Stage, StageOpen, StageWrite, StageAbort, OpenResult
<1>3. CASE BackUp
  BY <1>3 DEF BackUp, BackupStat, ReserveOpen, ReserveClose, ReserveAbort, BackupRename,
     OpenResult
<1>4. CASE Commit
  BY <1>4 DEF Commit
<1>5. CASE Rollback
  BY <1>5 DEF Rollback, UndoStat, Undo, RestoreStat, Restore, Discard, RollbackStat,
     RollbackNext
<1>6. CASE Recover
  BY <1>6 DEF Recover, RecoverStat, RecoverUndo, RecoverRestore, RecoverTemporary,
     RecoverBackup, Ask
<1>7. CASE Clean \/ DropBackup
  BY <1>7 DEF Clean, DropBackup, CleanNext
<1>8. CASE Crash \/ UNCHANGED vars
  BY <1>8, BoundAssumption DEF Crash, vars
<1> QED
  BY <1>1, <1>2, <1>3, <1>4, <1>5, <1>6, <1>7, <1>8
     DEF Next, Step, Finished

(* The staged files stay complete until their commit, and after the commit  *)
(* the new files stay in place. *)
LEMMA StagedStep == BaseInv /\ [Next]_vars => Staged'
<1> SUFFICES ASSUME BaseInv, [Next]_vars PROVE Staged'
  OBVIOUS
<1> USE CallFacts, NAssumption DEF BaseInv, TypeOK, ControlOK, FilesOK, Completion, Staged,
        AllNew, StageLoop, BackupLoop, AfterCommit, Artifacts, Ended, files,
        Raise, RaiseMemoryError, Reject, StopWith, CheckFails, NextArtifact, PreviousArtifact
<1>1. CASE Check
  BY <1>1 DEF Check, InspectDirectory, RejectInputAlias
<1>2. CASE Stage
  <2>1. CASE StageOpen
    BY <2>1 DEF StageOpen, OpenResult
  <2>2. CASE StageWrite
    BY <2>2 DEF StageWrite
  <2>3. CASE StageAbort
    BY <2>3 DEF StageAbort
  <2> QED
    BY <1>2, <2>1, <2>2, <2>3 DEF Stage
<1>3. CASE BackUp
  BY <1>3 DEF BackUp, BackupStat, ReserveOpen, ReserveClose, ReserveAbort, BackupRename,
     OpenResult
<1>4. CASE Commit
  BY <1>4 DEF Commit
<1>5. CASE Rollback
  <2>1. CASE UndoStat
    BY <2>1 DEF UndoStat, RollbackStat
  <2>2. CASE RestoreStat
    BY <2>2 DEF RestoreStat, RollbackStat
  <2>3. CASE Undo
    BY <2>3 DEF Undo, RollbackNext
  <2>4. CASE Restore
    BY <2>4 DEF Restore, RollbackNext
  <2>5. CASE Discard
    BY <2>5 DEF Discard, RollbackNext
  <2> QED
    BY <1>5, <2>1, <2>2, <2>3, <2>4, <2>5 DEF Rollback
<1>6. CASE Recover
  BY <1>6 DEF Recover, RecoverStat, RecoverUndo, RecoverRestore, RecoverTemporary,
     RecoverBackup, Ask
<1>7. CASE Clean \/ DropBackup
  <2>1. CASE Clean
    BY <2>1 DEF Clean, CleanNext
  <2>2. CASE DropBackup
    BY <2>2 DEF DropBackup, CleanNext
  <2> QED
    BY <1>7, <2>1, <2>2
<1>8. CASE Crash \/ UNCHANGED vars
  BY <1>8, BoundAssumption DEF Crash, vars
<1> QED
  BY <1>1, <1>2, <1>3, <1>4, <1>5, <1>6, <1>7, <1>8
     DEF Next, Step, Finished

(* write_artifacts starts in the invariant: nothing is moved or staged. *)
LEMMA BaseInit == Init => BaseInv
<1> SUFFICES ASSUME Init PROVE BaseInv
  OBVIOUS
<1>1. TypeOK
  BY TypeInit
<1>2. \A i \in Artifacts : Unmoved(i)
  BY DEF Init, Unmoved, NewState
<1>3. pc = "directories" /\ n = 1 /\ found = "unasked" /\ pending = "none" /\ ~ completed
  BY DEF Init
<1>4. \A i \in Artifacts : ~ (i < n)
  BY <1>3, NAssumption DEF Artifacts
<1> QED
  BY <1>1, <1>2, <1>3, <1>4
     DEF BaseInv, Forward, FoundIsTrue, Completion, RaisesWhatFails, Checked, Staged,
         StageLoop, BackupLoop

LEMMA BaseStep == BaseInv /\ [Next]_vars => BaseInv'
  BY TypeStep, ForwardStep, FoundIsTrueStep, CompletionStep, RaisesWhatFailsStep,
     CheckedStep, StagedStep DEF BaseInv

(* The flags of every artifact describe the disk in each loop of            *)
(* write_artifacts, and `completed` means that every destination is new.    *)
THEOREM BaseInvariant == Spec => []BaseInv
  BY BaseInit, BaseStep, PTL DEF Spec

(* The steps that may follow the last commit leave the destinations alone. *)
LEMMA CompletedStep ==
  ASSUME BaseInv, [Next]_vars, completed PROVE completed' /\ dest' = dest
<1>1. pc \in AfterCommit
  BY DEF BaseInv, Completion
<1>2. Clean \/ DropBackup \/ RecoverTemporary \/ RecoverBackup \/ Crash \/ UNCHANGED vars
  BY <1>1 DEF Next, Step, Finished, Check, Stage, BackUp, Rollback, Recover, AfterCommit, Ended,
     InspectDirectory, RejectInputAlias, StageOpen, StageWrite, StageAbort, BackupStat,
     ReserveOpen, ReserveClose, ReserveAbort, BackupRename, Commit, UndoStat, Undo,
     RestoreStat, Restore, Discard, RecoverStat, RecoverUndo, RecoverRestore
<1> QED
  BY <1>2, BoundAssumption
     DEF Clean, DropBackup, RecoverTemporary, RecoverBackup, Crash, vars, files

(* After the last rename of the commit loop no failing clean-up and no      *)
(* MemoryError changes a destination again, whatever fails and however often. *)
THEOREM CompletedSetIsFinal == Spec => CompletedIsFinal
<1>1. BaseInv /\ [Next]_vars => [completed => completed' /\ dest' = dest]_vars
  BY CompletedStep
<1> QED
  BY <1>1, BaseInvariant, PTL DEF Spec, CompletedIsFinal

-----------------------------------------------------------------------------
(* No original is lost when one kind of call fails. *)

(* No step of the transaction loses the original of an artifact, whether it *)
(* is under its own name or under the backup name. *)
LEMMA ProtectedStep ==
  ASSUME OneKindOfFault PROVE IInv /\ [Next]_vars => Protected'
<1> SUFFICES ASSUME IInv, [Next]_vars, ~ completed',
                    NEW i \in Artifacts, original'[i] # "absent"
             PROVE  Kept(i)' \/ Saved(i)'
  BY DEF Protected
<1> USE DEF IInv, BaseInv, TypeOK, FilesOK, FlagsOK, ControlOK, Protected
<1> USE CallFacts
<1>0. CASE Check \/ Stage \/ BackUp \/ Commit
  <2> USE DEF Forward, StageLoop, BackupLoop
  <2>0. (Unmoved(i)' => Kept(i)') /\ (Moved(i)' => Saved(i)')
    BY DEF Unmoved, Moved, Kept
  <2>1. CASE Check \/ Stage
    <3>1. Unmoved(i)
      BY <2>1 DEF Check, InspectDirectory, RejectInputAlias, Stage, StageOpen, StageWrite, StageAbort
    <3>2. CASE Check
      BY <2>0, <3>1, <3>2 DEF Check, InspectDirectory, RejectInputAlias, files, Unmoved
    <3>3. CASE Stage
      <4>1. /\ UNCHANGED <<original, dest>>
            /\ state' = state \/ state' = [state EXCEPT ![n].temporary_name = TRUE]
        BY <3>3 DEF Stage, StageOpen, StageWrite, StageAbort
      <4> QED
        BY <2>0, <3>1, <4>1 DEF Unmoved
    <3> QED
      BY <2>1, <3>2, <3>3
  <2>2. CASE BackupStat \/ ReserveOpen \/ ReserveClose \/ ReserveAbort
    <3>1. i = n \/ i # n
      OBVIOUS
    <3>2. Unmoved(i) => Unmoved(i)'
      BY <2>2 DEF BackupStat, ReserveOpen, ReserveClose, ReserveAbort, files, Unmoved
    <3>3. i # n /\ Moved(i) => Moved(i)'
      BY <2>2 DEF BackupStat, ReserveOpen, ReserveClose, ReserveAbort, files, Moved, Saved
    <3>4. Unmoved(i) \/ (i # n /\ Moved(i))
      BY <2>2, NAssumption DEF BackupStat, ReserveOpen, ReserveClose, ReserveAbort, Artifacts
    <3> QED
      BY <2>0, <3>2, <3>3, <3>4
  <2>3. CASE BackupRename
    <3>1. Unmoved(i) \/ (i # n /\ Moved(i))
      BY <2>3, NAssumption DEF BackupRename, Artifacts
    <3>2. CASE i # n
      <4>1. (Unmoved(i) => Unmoved(i)') /\ (Moved(i) => Moved(i)')
        BY <2>3, <3>2 DEF BackupRename, Unmoved, Moved, Saved
      <4> QED
        BY <2>0, <3>1, <4>1
    <3>3. CASE i = n
      <4>1. dest[i] = original[i] /\ state[i].backup_name /\ state[i].backup_started
        BY <2>3, <3>1, <3>3 DEF BackupRename, Unmoved
      <4>2. Unmoved(i)
        BY <3>1, <3>3
      <4>3. \/ UNCHANGED <<original, dest, state>>
            \/ /\ backup'[i] = original'[i] /\ dest'[i] = "absent"
               /\ state'[i].backup_name /\ state'[i].backup_started
        BY <2>3, <3>3, <4>1 DEF BackupRename
      <4>4. UNCHANGED <<original, dest, state>> => Unmoved(i)'
        BY <4>2 DEF Unmoved
      <4> QED
        BY <2>0, <4>3, <4>4 DEF Saved
    <3> QED
      BY <3>2, <3>3
  <2>4. CASE Commit
    <3>1. Moved(i) => Moved(i)'
      BY SMTT(30), <2>4 DEF Commit, Moved, Saved
    <3> QED
      BY <2>0, <2>4, <3>1 DEF Commit
  <2> QED
    BY <1>0, <2>1, <2>2, <2>3, <2>4 DEF BackUp
<1>1. CASE UndoStat \/ RestoreStat \/ RecoverStat
  <2>1. UNCHANGED <<original, dest, backup, state, completed>>
    BY <1>1 DEF UndoStat, RestoreStat, RecoverStat, RollbackStat, files
  <2>2. PastUndo => PastUndo'
    <3>1. CASE UndoStat
      BY <3>1 DEF UndoStat, PastUndo, Ended
    <3>2. CASE RestoreStat
      <4>1. NoMemoryError => pc' = pc
        BY <3>2 DEF RestoreStat, RollbackStat, Call, NoMemoryError
      <4> QED
        BY <3>2, <4>1 DEF RestoreStat, PastUndo, Ended
    <3>3. CASE RecoverStat
      BY <3>3 DEF RecoverStat, PastUndo
    <3> QED
      BY <1>1, <3>1, <3>2, <3>3
  <2> QED
    BY <2>1, <2>2 DEF Kept, Saved
<1>2. CASE Undo \/ RecoverUndo
  <2>1. ~ completed /\ ~ PastUndo /\ UNCHANGED <<original, backup>>
    BY <1>2 DEF Undo, RecoverUndo, PastUndo, Ended
  <2>2. CASE Kept(i)
    <3>1. ~ state[i].commit_started /\ ~ state[i].commit_completed
      BY <2>1, <2>2 DEF Kept
    <3>2. i = n => ~ Committed(n)
      BY <1>2, <3>1 DEF Committed, FoundIsTrue, AsksTemporary, Undo, RecoverUndo
    <3>3. dest'[i] = dest[i] /\ state'[i] = state[i]
      <4>1. CASE i = n
        BY <1>2, <3>2, <4>1 DEF Undo, RecoverUndo
      <4>2. CASE i # n
        BY <1>2, <4>2 DEF Undo, RecoverUndo
      <4> QED
        BY <4>1, <4>2
    <3> QED
      BY <2>1, <2>2, <3>1, <3>3 DEF Kept
  <2>3. CASE Saved(i)
    <3>1. dest'[i] \in {dest[i], "absent"}
      BY <1>2 DEF Undo, RecoverUndo
    <3>2. /\ state'[i].backup_name = state[i].backup_name
          /\ state'[i].backup_started = state[i].backup_started
          /\ state'[i].backup_completed = state[i].backup_completed
      <4>1. \/ state' = state
            \/ state' = [state EXCEPT ![n].commit_started = FALSE, ![n].commit_completed = FALSE]
        BY <1>2 DEF Undo, RecoverUndo
      <4> QED
        BY <4>1
    <3> QED
      BY <2>1, <2>3, <3>1, <3>2 DEF Saved
  <2>4. original[i] # "absent"
    BY <2>1
  <2> QED
    BY <2>1, <2>2, <2>3, <2>4
<1>3. CASE Restore
  <2>1. ~ completed /\ UNCHANGED <<original, completed>> /\ pc = "restore" /\ RestoresBackup(n)
    BY <1>3 DEF Restore
  <2>2. original[i] # "absent" /\ (Kept(i) \/ Saved(i))
    BY <2>1
  <2>3. NoMemoryError => pc' \in {"restore", "clean"}
    <3>1. PICK r \in Faults \cup {Ok, Missing} :
            (r = Missing \/ Call(r)) /\ RollbackNext(r, "restore", "clean", 1)
      BY <1>3 DEF Restore
    <3>2. NoMemoryError => r.raises # "MemoryError"
      BY <3>1 DEF Call, NoMemoryError, Missing
    <3> QED
      BY <3>1, <3>2 DEF RollbackNext, PreviousArtifact
  <2>4. PastUndo => PastUndo'
    BY <2>1, <2>3 DEF PastUndo, Ended
  <2>5. CASE i # n
    <3>1. UNCHANGED <<dest[i], backup[i], state[i]>>
      BY <1>3, <2>5 DEF Restore
    <3> QED
      BY <2>1, <2>2, <2>4, <3>1 DEF Kept, Saved
  <2>6. CASE i = n
    <3>1. CASE backup[i] = "absent"
      <4>1. UNCHANGED <<dest, backup, state>>
        BY <1>3, <2>6, <3>1 DEF Restore, Missing, Ok
      <4> QED
        BY <2>1, <2>2, <2>4, <4>1 DEF Kept, Saved
    <3>2. CASE backup[i] # "absent"
      <4>1. Saved(i)
        BY <1>3, <2>1, <2>2, <2>6, <3>2 DEF Kept, RestoresBackup, FoundIsTrue, Answer
      <4>2. PICK r \in Faults \cup {Ok, Missing} :
              /\ Call(r)
              /\ IF r.done THEN dest'[i] = backup[i] /\ backup'[i] = "absent"
                           ELSE UNCHANGED <<dest, backup>>
              /\ r = Ok => ~ state'[i].backup_completed /\ ~ state'[i].commit_started
                            /\ ~ state'[i].commit_completed
              /\ r # Ok => UNCHANGED state
              /\ r.raises # "none" => r # Ok
        BY <1>3, <2>6, <3>2 DEF Restore, NewState
      <4>3. CASE ~ r.done
        BY <2>1, <4>1, <4>2, <4>3 DEF Saved
      <4>4. CASE r = Ok
        BY <2>1, <4>1, <4>2, <4>4 DEF Kept, Saved
      <4>5. CASE r.done /\ r # Ok
        <5>1. NoMemoryError
          BY <1>3, <4>2, <4>5 DEF OneKindOfFault, NoLateError, Call, RaisesWhatFails, Restore
        <5>2. PastUndo'
          BY <2>3, <5>1 DEF PastUndo, NoMemoryError
        <5> QED
          BY <2>1, <4>1, <4>2, <4>5, <5>2 DEF Kept, Saved
      <4> QED
        BY <4>3, <4>4, <4>5
    <3> QED
      BY <3>1, <3>2
  <2> QED
    BY <2>5, <2>6
<1>4. CASE Discard
  <2>1. ~ completed /\ UNCHANGED <<original, dest, completed>> /\ pc = "restore"
    BY <1>4 DEF Discard
  <2>2. PastUndo => PastUndo'
    BY <1>4 DEF Discard, RollbackNext, PreviousArtifact, NoMemoryError, PastUndo, Call, Ended
  <2>3. /\ state'[i].commit_started = state[i].commit_started
        /\ state'[i].commit_completed = state[i].commit_completed
        /\ state'[i].backup_completed = state[i].backup_completed
    BY <1>4 DEF Discard
  <2>4. CASE Kept(i)
    <3>1. backup'[i] \in {backup[i], "absent"}
      BY <1>4 DEF Discard
    <3> QED
      BY <2>1, <2>2, <2>3, <2>4, <3>1 DEF Kept
  <2>5. CASE Saved(i)
    <3>1. original[i] # "absent"
      BY <2>1
    <3>2. i = n => ~ DiscardsReservation(n)
      BY <1>4, <2>5, <3>1 DEF Discard, Saved, DiscardsReservation, RestoresBackup, FoundIsTrue, Answer
    <3>3. backup'[i] = backup[i] /\ state'[i] = state[i]
      <4>1. CASE i = n
        BY <1>4, <3>2, <4>1 DEF Discard
      <4>2. CASE i # n
        BY <1>4, <4>2 DEF Discard
      <4> QED
        BY <4>1, <4>2
    <3> QED
      BY <2>1, <2>5, <3>3 DEF Saved
  <2> QED
    BY <2>1, <2>4, <2>5
<1>5. CASE RecoverRestore
  <2>1. ~ completed /\ UNCHANGED <<original, state, completed>> /\ PastUndo'
    BY <1>5 DEF RecoverRestore, PreviousArtifact, PastUndo
  <2>2. original[i] # "absent" /\ (Kept(i) \/ Saved(i))
    BY <2>1
  <2>3. CASE i # n
    <3>1. dest'[i] = dest[i] /\ backup'[i] = backup[i]
      BY <1>5, <2>3 DEF RecoverRestore
    <3> QED
      BY <2>1, <2>2, <3>1 DEF Kept, Saved
  <2>4. CASE i = n
    <3>1. CASE Kept(i)
      <4>1. RestoresBackup(n) => backup[n] = "absent"
        BY <1>5, <2>2, <2>4, <3>1 DEF RecoverRestore, Kept, RestoresBackup, FoundIsTrue, Answer
      <4>2. dest'[i] = dest[i] /\ backup'[i] \in {backup[i], "absent"}
        BY <1>5, <2>4, <4>1 DEF RecoverRestore
      <4> QED
        BY <2>1, <3>1, <4>2 DEF Kept
    <3>2. CASE Saved(i)
      <4>1. ~ DiscardsReservation(n)
        BY <1>5, <2>2, <2>4, <3>2 DEF RecoverRestore, Saved, DiscardsReservation, RestoresBackup,
           FoundIsTrue, Answer
      <4>2. \/ dest'[i] = backup[i] /\ backup'[i] = "absent"
            \/ UNCHANGED <<dest, backup>>
        BY <1>5, <2>4, <4>1 DEF RecoverRestore
      <4> QED
        BY <2>1, <3>2, <4>2 DEF Kept, Saved
    <3> QED
      BY <2>2, <3>1, <3>2
  <2> QED
    BY <2>3, <2>4
<1>6. CASE RecoverTemporary \/ RecoverBackup
  <2>1. ~ completed /\ PastUndo' /\ UNCHANGED <<original, dest, state, completed>>
    BY <1>6 DEF RecoverTemporary, RecoverBackup, NextArtifact, PastUndo, Ended
  <2>2. backup' = backup
    BY <1>6, <2>1 DEF RecoverTemporary, RecoverBackup
  <2> QED
    BY <2>1, <2>2 DEF Kept, Saved
<1>7. CASE Clean
  <2>1. ~ completed /\ UNCHANGED <<original, dest, backup, completed>>
    BY <1>7 DEF Clean
  <2>2. PastUndo => PastUndo'
    BY <1>7, <2>1 DEF Clean, CleanNext, NextArtifact, NoMemoryError, PastUndo, Call, Ended
  <2>3. /\ state'[i].commit_started = state[i].commit_started
        /\ state'[i].commit_completed = state[i].commit_completed
        /\ state'[i].backup_completed = state[i].backup_completed
        /\ state'[i].backup_started = state[i].backup_started
        /\ state'[i].backup_name = state[i].backup_name
    BY <1>7 DEF Clean
  <2> QED
    BY <2>1, <2>2, <2>3 DEF Kept, Saved
<1>8. CASE DropBackup
  BY <1>8 DEF DropBackup, Completion
<1>9. CASE Crash
  <2>1. PastUndo' /\ UNCHANGED <<original, dest, backup, state, completed>>
    BY <1>9, BoundAssumption DEF Crash, PastUndo, Ended, files
  <2> QED
    BY <2>1 DEF Kept, Saved
<1>10. CASE UNCHANGED vars
  <2>1. UNCHANGED <<original, dest, backup, state, completed, pc>>
    BY <1>10 DEF vars
  <2> QED
    BY <2>1 DEF Kept, Saved, PastUndo
<1> QED
  BY <1>0, <1>1, <1>2, <1>3, <1>4, <1>5, <1>6, <1>7, <1>8, <1>9, <1>10
     DEF Next, Step, Rollback, Recover, Finished

(* The full invariant, when one kind of call fails. *)
THEOREM FullInvariant == ASSUME OneKindOfFault PROVE Spec => []IInv
<1>1. Init => IInv
  <2> SUFFICES ASSUME Init PROVE Protected
    BY BaseInit DEF IInv
  <2>1. \A i \in Artifacts : Kept(i)
    BY DEF Init, NewState, Kept
  <2> QED
    BY <2>1 DEF Protected
<1>2. IInv /\ [Next]_vars => IInv'
  BY BaseStep, ProtectedStep DEF IInv
<1> QED
  BY <1>1, <1>2, PTL DEF Spec

(* As long as only OSErrors, only MemoryErrors, or only failures without an *)
(* effect occur, every original file is on the disk until the set is        *)
(* complete: at every crash point, in every rollback and recovery, for any  *)
(* number of artifacts and of failing calls. *)
THEOREM OriginalsSurvive == ASSUME OneKindOfFault PROVE Spec => []NoOriginalLost
<1>1. IInv => NoOriginalLost
  BY DEF IInv, Protected, Kept, Saved, NoOriginalLost
<1> QED
  BY <1>1, FullInvariant, PTL

(* write_artifacts implements the abstract replacement of AtomicReplace     *)
(* under the same assumption: the recoverable set changes in the step that  *)
(* completes the commit loop and in no other. *)
THEOREM Refinement == ASSUME OneKindOfFault PROVE Spec => ImplementsAtomicReplace
<1> DEFINE NewSet == [i \in Artifacts |-> "new"]
<1>1. IInv => RecoverableSet = IF completed THEN NewSet ELSE original
  <2> SUFFICES ASSUME IInv PROVE RecoverableSet = IF completed THEN NewSet ELSE original
    OBVIOUS
  <2>1. CASE completed
    <3>1. \A i \in Artifacts : RecoverableSet[i] = "new"
      BY <2>1 DEF RecoverableSet, IInv, BaseInv, Staged, AllNew
    <3> QED
      BY <2>1, <3>1 DEF RecoverableSet
  <2>2. CASE ~ completed
    <3>1. \A i \in Artifacts : RecoverableSet[i] = original[i]
      BY <2>2 DEF RecoverableSet, IInv, Protected, Kept, Saved
    <3> QED
      BY <2>2, <3>1 DEF RecoverableSet, IInv, BaseInv, TypeOK, FilesOK
  <2> QED
    BY <2>1, <2>2
<1>2. (IInv => RecoverableSet = IF completed THEN NewSet ELSE original)'
  BY <1>1, PTL
<1>3. Init => Atomic!Init
  <2>1. Init => \A i \in Artifacts : RecoverableSet[i] = original[i]
    BY DEF Init, RecoverableSet
  <2> QED
    BY <2>1 DEF Init, Atomic!Init, RecoverableSet
<1>4. IInv /\ IInv' /\ [Next]_vars => [Atomic!Next]_<<original, RecoverableSet, completed>>
  <2> SUFFICES ASSUME IInv, IInv', [Next]_vars
               PROVE  [Atomic!Next]_<<original, RecoverableSet, completed>>
    OBVIOUS
  <2>1. original' = original
    BY BoundAssumption
       DEF Next, Step, Check, Stage, BackUp, Rollback, Recover, Finished, vars, files,
       InspectDirectory, RejectInputAlias, StageOpen, StageWrite, StageAbort, BackupStat,
       ReserveOpen, ReserveClose, ReserveAbort, BackupRename, Commit, UndoStat, Undo,
       RestoreStat, Restore, Discard, RecoverStat, RecoverUndo, RecoverRestore, RollbackStat,
       RecoverTemporary, RecoverBackup, Clean, DropBackup, Crash
  <2>2. completed => completed'
    BY CompletedStep DEF IInv
  <2>3. CASE completed
    BY <1>1, <1>2, <2>1, <2>2, <2>3
  <2>4. CASE ~ completed /\ ~ completed'
    <3>1. RecoverableSet' = RecoverableSet
      BY <1>1, <1>2, <2>1, <2>4
    <3> QED
      BY <2>1, <2>4, <3>1 DEF IInv, BaseInv, TypeOK, ControlOK
  <2>5. CASE ~ completed /\ completed'
    <3>1. Commit
      BY <2>5, BoundAssumption
         DEF Next, Step, Check, Stage, BackUp, Rollback, Recover, Finished, vars,
         InspectDirectory, RejectInputAlias, StageOpen, StageWrite, StageAbort, BackupStat,
         ReserveOpen, ReserveClose, ReserveAbort, BackupRename, UndoStat, Undo,
         RestoreStat, Restore, Discard, RecoverStat, RecoverUndo, RecoverRestore, RollbackStat,
         RecoverTemporary, RecoverBackup, Clean, DropBackup, Crash
    <3>2. \A i \in Artifacts : original[i] \in {"absent", "old"}
      BY <3>1 DEF Commit, IInv, BaseInv, Checked, Ended
    <3>3. RecoverableSet' = NewSet
      BY <1>2, <2>5
    <3> QED
      BY <2>1, <2>5, <3>2, <3>3 DEF Atomic!Next, Atomic!Replace
  <2> QED
    BY <2>3, <2>4, <2>5 DEF IInv, BaseInv, TypeOK, ControlOK
<1> QED
  BY <1>3, <1>4, FullInvariant, PTL DEF Spec, ImplementsAtomicReplace, Atomic!Spec


-----------------------------------------------------------------------------
(* What a reader of the output directory sees while write_artifacts runs,  *)
(* for any number of files and whatever fails: no torn file, no new file   *)
(* before the whole set is staged, nothing at all when the set is refused; *)
(* and what a reader of the error message may conclude from it.  Last, the *)
(* two promises the code keeps as long as one call fails at most.          *)
(* A reservation is empty only while its original is under its own name,    *)
(* and no flag sends a loop to take it away from there.                     *)
Reserved(i) ==
  /\ dest[i] = original[i] /\ original[i] # "absent"
  /\ ~ state[i].backup_completed
  /\ ~ state[i].commit_started /\ ~ state[i].commit_completed

WholeFiles ==
  \A i \in Artifacts :
    /\ dest[i] \in {"absent", original[i], "new"}
    /\ backup[i] \in {"absent", "empty", original[i]}
    /\ backup[i] = "empty" => Reserved(i)

LEMMA WholeStep == BaseInv /\ WholeFiles /\ [Next]_vars => WholeFiles'
<1> SUFFICES ASSUME BaseInv, WholeFiles, [Next]_vars PROVE WholeFiles'
  OBVIOUS
<1> USE CallFacts DEF BaseInv, TypeOK, FilesOK, FlagsOK, ControlOK, WholeFiles, Reserved, files
<1>1. CASE Check
  BY <1>1 DEF Check, InspectDirectory, RejectInputAlias
<1>2. CASE Stage
  <2>1. UNCHANGED <<original, dest, backup>>
    BY <1>2 DEF Stage, StageOpen, StageWrite, StageAbort
  <2>2. \A i \in Artifacts : /\ state'[i].backup_completed = state[i].backup_completed
                             /\ state'[i].commit_started = state[i].commit_started
                             /\ state'[i].commit_completed = state[i].commit_completed
    <3>1. state' = state \/ state' = [state EXCEPT ![n].temporary_name = TRUE]
      BY <1>2 DEF Stage, StageOpen, StageWrite, StageAbort
    <3> QED
      BY <3>1
  <2> QED
    BY <2>1, <2>2
<1>3. CASE BackUp
  <2>1. CASE BackupStat
    BY <2>1 DEF BackupStat
  <2>2. CASE ReserveOpen
    <3>1. Unmoved(n) /\ original[n] # "absent"
      BY <2>2, NAssumption DEF ReserveOpen, Forward, BackupLoop, Artifacts
    <3> QED
      BY <2>2, <3>1 DEF ReserveOpen, Unmoved
  <2>3. CASE ReserveClose
    BY <2>3 DEF ReserveClose
  <2>4. CASE ReserveAbort
    BY <2>4 DEF ReserveAbort
  <2>5. CASE BackupRename
    <3>1. Unmoved(n)
      BY <2>5, NAssumption DEF BackupRename, Forward, BackupLoop, Artifacts
    <3> QED
      BY <2>5, <3>1 DEF BackupRename, Unmoved
  <2> QED
    BY <1>3, <2>1, <2>2, <2>3, <2>4, <2>5 DEF BackUp
<1>4. CASE Commit
  <2>1. temp[n] = "new" /\ Moved(n)
    BY <1>4, NAssumption DEF Commit, Staged, Forward, Artifacts
  <2>2. backup[n] # "empty"
    BY <2>1 DEF Moved, Saved
  <2> QED
    BY <1>4, <2>1, <2>2 DEF Commit
<1>5. CASE Rollback
  <2>1. CASE UndoStat \/ RestoreStat
    BY <2>1 DEF UndoStat, RestoreStat, RollbackStat
  <2>2. CASE Undo
    <3>1. backup[n] = "empty" => ~ Committed(n)
      BY <2>2 DEF Undo, Committed, FoundIsTrue, AsksTemporary
    <3> QED
      BY <2>2, <3>1 DEF Undo
  <2>3. CASE Restore
    <3>1. backup[n] # "empty"
      BY <2>3 DEF Restore, RestoresBackup, FoundIsTrue, Answer
    <3> QED
      BY <2>3, <3>1 DEF Restore, NewState
  <2>4. CASE Discard
    BY <2>4 DEF Discard
  <2> QED
    BY <1>5, <2>1, <2>2, <2>3, <2>4 DEF Rollback
<1>6. CASE Recover
  <2>1. CASE RecoverStat
    BY <2>1 DEF RecoverStat
  <2>2. CASE RecoverUndo
    <3>1. backup[n] = "empty" => ~ Committed(n)
      BY <2>2 DEF RecoverUndo, Committed, FoundIsTrue, AsksTemporary
    <3> QED
      BY <2>2, <3>1 DEF RecoverUndo
  <2>3. CASE RecoverRestore
    <3>1. RestoresBackup(n) => backup[n] # "empty"
      BY <2>3 DEF RecoverRestore, RestoresBackup, FoundIsTrue, Answer
    <3> QED
      BY <2>3, <3>1 DEF RecoverRestore
  <2>4. CASE RecoverTemporary \/ RecoverBackup
    BY <2>4 DEF RecoverTemporary, RecoverBackup
  <2> QED
    BY <1>6, <2>1, <2>2, <2>3, <2>4 DEF Recover
<1>7. CASE Clean \/ DropBackup
  <2>1. CASE Clean
    BY <2>1 DEF Clean
  <2>2. CASE DropBackup
    <3>1. dest[n] = "new"
      BY <2>2 DEF DropBackup, Completion, Staged, AllNew
    <3>2. backup[n] # "empty"
      BY <3>1
    <3> QED
      BY <2>2, <3>2 DEF DropBackup
  <2> QED
    BY <1>7, <2>1, <2>2
<1>8. CASE Crash \/ UNCHANGED vars
  BY <1>8 DEF Crash, vars
<1> QED
  BY <1>1, <1>2, <1>3, <1>4, <1>5, <1>6, <1>7, <1>8 DEF Next, Step, Finished

LEMMA WholeInit == Init => WholeFiles
  BY DEF Init, WholeFiles

LEMMA WholeInvariant == Spec => [](BaseInv /\ WholeFiles)
<1>1. BaseInv /\ WholeFiles /\ [Next]_vars => (BaseInv /\ WholeFiles)'
  BY BaseStep, WholeStep
<1> QED
  BY <1>1, BaseInit, WholeInit, PTL DEF Spec

(* Whatever fails, a final name shows the original, the new file or         *)
(* nothing.                                                                 *)
THEOREM ReadersSeeWholeFiles == Spec => []NoTornDestination
<1>1. WholeFiles => NoTornDestination
  BY DEF WholeFiles, NoTornDestination
<1> QED
  BY <1>1, WholeInvariant, PTL

(* Whatever fails, a new file appears only when the whole set is staged.    *)
THEOREM PublicationIsLast == Spec => PublishedAfterStaging
<1>1. ASSUME BaseInv, WholeFiles, [Next]_vars,
             NEW i \in Artifacts, dest'[i] = "new", dest[i] # "new"
      PROVE  \A k \in Artifacts : temp[k] = "new" \/ dest[k] = "new"
  <2> USE <1>1 DEF BaseInv, TypeOK, FilesOK, ControlOK, WholeFiles
  <2>1. Commit
    <3>1. ~ Restore
      BY DEF Restore
    <3>2. ~ RecoverRestore
      BY DEF RecoverRestore
    <3> QED
      BY <3>1, <3>2 DEF Next, Step, Finished, Check, Stage, BackUp, Rollback, Recover, vars, files,
         InspectDirectory, RejectInputAlias, StageOpen, StageWrite, StageAbort, BackupStat,
         ReserveOpen, ReserveClose, ReserveAbort, BackupRename, UndoStat, Undo, RestoreStat,
         Discard, RollbackStat, RecoverStat, RecoverUndo, RecoverTemporary, RecoverBackup,
         Clean, DropBackup, Crash
  <2> QED
    BY <2>1 DEF Commit, Staged
<1>2. BaseInv /\ WholeFiles /\ [Next]_vars =>
        [(\E i \in Artifacts : dest'[i] = "new" /\ dest[i] # "new") =>
           \A i \in Artifacts : temp[i] = "new" \/ dest[i] = "new"]_vars
  BY <1>1
<1> QED
  BY <1>2, WholeInvariant, PTL DEF Spec, PublishedAfterStaging

-----------------------------------------------------------------------------
Refused == \E i \in Artifacts : original[i] \in {"dir", "input"}

Untouched ==
  Refused => /\ pc \in {"directories", "aliases"} \cup Ended
             /\ dest = original /\ NoLeftovers

(* A directory or an input among the destinations: nothing is ever written. *)
THEOREM RefusedSetsAreUntouched == Spec => []NothingWrittenWhenRejected
<1>1. Init => Untouched
  BY DEF Init, Untouched, NoLeftovers
<1>2. BaseInv /\ Untouched /\ [Next]_vars => Untouched'
  <2> SUFFICES ASSUME BaseInv, Untouched, [Next]_vars, Refused' PROVE Untouched'
    BY DEF Untouched
  <2>1. original' = original
    BY DEF Next, Step, Finished, Check, Stage, BackUp, Rollback, Recover, vars, InspectDirectory,
       RejectInputAlias, StageOpen, StageWrite, StageAbort, BackupStat, ReserveOpen, ReserveClose,
       ReserveAbort, BackupRename, Commit, UndoStat, Undo, RestoreStat, Restore, Discard,
       RollbackStat, RecoverStat, RecoverUndo, RecoverRestore, RecoverTemporary, RecoverBackup,
       Clean, DropBackup, Crash
  <2>2. Refused
    BY <2>1 DEF Refused
  <2>3. pc' \in {"directories", "aliases"} \cup Ended
    <3>1. BaseInv'
      BY BaseStep
    <3>2. Checked'
      BY <3>1 DEF BaseInv
    <3> QED
      BY <3>2 DEF Checked, Refused
  <2>4. UNCHANGED files
    <3>1. pc \in {"directories", "aliases", "done", "crashed"}
      BY <2>2 DEF Untouched, Ended
    <3>2. InspectDirectory \/ RejectInputAlias \/ Crash \/ UNCHANGED vars
      BY <3>1 DEF Next, Step, Finished, Check, Stage, BackUp, Rollback, Recover, StageOpen,
         StageWrite, StageAbort, BackupStat, ReserveOpen, ReserveClose, ReserveAbort, BackupRename,
         Commit, UndoStat, Undo, RestoreStat, Restore, Discard, RecoverStat, RecoverUndo,
         RecoverRestore, RecoverTemporary, RecoverBackup, Clean, DropBackup
    <3> QED
      BY <3>2 DEF InspectDirectory, RejectInputAlias, Crash, vars, files
  <2> QED
    BY <2>1, <2>2, <2>3, <2>4 DEF Untouched, NoLeftovers, files
<1>3. Untouched => NothingWrittenWhenRejected
  BY DEF Untouched, Refused, NothingWrittenWhenRejected
<1> QED
  BY <1>1, <1>2, <1>3, BaseInvariant, PTL DEF Spec

-----------------------------------------------------------------------------
(* What a rollback in which every call worked has to start from, and what   *)
(* its first loop makes of it.                                              *)
InPlace(i) ==
  /\ dest[i] = original[i] /\ ~ state[i].backup_completed
  /\ ~ state[i].commit_started /\ ~ state[i].commit_completed
  /\ original[i] = "absent" => ~ state[i].backup_name

SetAside(i) ==
  /\ original[i] # "absent" /\ dest[i] = "absent" /\ backup[i] = original[i]
  /\ state[i].backup_name /\ state[i].backup_started
  /\ ~ state[i].commit_started /\ ~ state[i].commit_completed

Replaced(i) ==
  /\ IF original[i] = "absent" THEN ~ state[i].backup_name /\ ~ state[i].backup_completed
     ELSE /\ backup[i] = original[i] /\ state[i].backup_name
          /\ state[i].backup_started /\ state[i].backup_completed
  /\ state[i].commit_started /\ state[i].temporary_name
  /\ IF state[i].commit_completed THEN dest[i] = "new"
     ELSE (temp[i] = "new" /\ dest[i] = "absent") \/ (temp[i] = "absent" /\ dest[i] = "new")

Undoable(i) == InPlace(i) \/ SetAside(i) \/ Replaced(i)
Ready(i)    == dest[i] = "absent" /\ (InPlace(i) \/ (SetAside(i) /\ state[i].backup_completed))

Undone(i) ==
  \/ /\ dest[i] = original[i] /\ ~ state[i].backup_completed
     /\ original[i] = "absent" => ~ state[i].backup_name
  \/ /\ original[i] # "absent" /\ dest[i] = "absent" /\ backup[i] = original[i]
     /\ state[i].backup_name /\ state[i].backup_started

Checks  == {"directories", "aliases"}
RecoverLoops == {"recoverUndo", "recoverRestore", "recoverTemp", "recoverBackup"}
Trusted == report \cap {"rollbackFailed", "MemoryError"} = {}

WayBack ==
  /\ pc \in Checks \cup StageLoop => \A i \in Artifacts : InPlace(i)
  /\ pc \in StageLoop => \A i \in Artifacts : i < n => state[i].temporary_name
  /\ pc \in BackupLoop \cup {"commit"} => \A i \in Artifacts : state[i].temporary_name
  /\ pc \in BackupLoop => \A i \in Artifacts : IF i < n THEN Ready(i) ELSE InPlace(i)
  /\ pc = "commit" => \A i \in Artifacts :
       IF i < n THEN Replaced(i) /\ state[i].commit_completed ELSE Ready(i)
  /\ pc = "undo" /\ Trusted => \A i \in Artifacts : IF i > n THEN Undone(i) ELSE Undoable(i)
  /\ pc = "restore" /\ Trusted => \A i \in Artifacts :
       IF i > n THEN dest[i] = original[i] ELSE Undone(i)
  /\ pc \in {"clean", "done"} /\ Trusted /\ ~ completed => dest = original

(* What the message says of the loop the program is in, and what the flag   *)
(* of the last stat call rests on.                                          *)
Message ==
  /\ pc \in Checks \cup StageLoop \cup BackupLoop \cup {"commit"} => report = {}
  /\ pc \in {"undo", "restore", "clean"} /\ ~ completed => "failed" \in report
  /\ pc \in {"recoverUndo", "recoverRestore", "recoverTemp", "recoverBackup"} =>
       "MemoryError" \in report
  /\ completed => report \cap {"failed", "rejected"} = {}
  /\ pc = "done" /\ ~ completed => report \cap {"failed", "rejected", "MemoryError"} # {}
  /\ pc = "undo" /\ found \in {"absent", "present"} => found = Answer(temp[n])
  /\ pc \in {"undo", "restore"} /\ found = "unknown" => "rollbackFailed" \in report

(* Hidden names: each file under one is known to the flags, until a call    *)
(* that fails is reported.                                                  *)
Silent == report \subseteq {"rejected", "failed"}

Hidden ==
  /\ pc \in Checks => NoLeftovers
  /\ Silent /\ pc # "crashed" => \A i \in Artifacts :
       /\ temp[i] # "absent" =>
            state[i].temporary_name \/ (pc \in {"stageWrite", "stageAbort"} /\ i = n)
       /\ backup[i] \notin {"absent", "empty"} => state[i].backup_name
       /\ pc = "clean" /\ i < n => temp[i] = "absent"
       /\ pc \in {"drop", "done"} => temp[i] = "absent"
       /\ pc = "restore" /\ i > n => backup[i] \in {"absent", "empty"}
       /\ pc = "drop" /\ i < n => backup[i] \in {"absent", "empty"}
       /\ pc = "clean" /\ ~ completed => backup[i] \in {"absent", "empty"}
       /\ pc = "done" => backup[i] \in {"absent", "empty"}

ReportInv == WayBack /\ Message /\ Hidden

-----------------------------------------------------------------------------
LEMMA ReportInit == Init => ReportInv
  BY DEF Init, ReportInv, WayBack, Message, Hidden, InPlace, NewState, NoLeftovers, Checks,
     StageLoop, BackupLoop

(* A crash, and a MemoryError that is on its way out, promise nothing. *)
LEMMA Excused ==
  ASSUME \/ pc' = "crashed"
         \/ pc' \in RecoverLoops \cup {"done"} /\ "MemoryError" \in report',
         completed' => report' \cap {"failed", "rejected"} = {}
  PROVE  ReportInv'
<1>1. pc' = "crashed" \/ (~ Trusted' /\ ~ Silent')
  BY DEF Trusted, Silent
<1>2. pc' \notin Checks \cup StageLoop \cup BackupLoop
                 \cup {"commit", "undo", "restore", "clean", "drop"}
  BY DEF RecoverLoops, Checks, StageLoop, BackupLoop
<1>3. WayBack'
  BY <1>1, <1>2 DEF WayBack
<1>4. Message'
  BY <1>2 DEF Message, RecoverLoops
<1>5. Hidden'
  BY <1>1, <1>2 DEF Hidden
<1> QED
  BY <1>3, <1>4, <1>5 DEF ReportInv

LEMMA Escapes == ASSUME RaiseMemoryError, UNCHANGED completed PROVE ReportInv'
  BY Excused DEF RaiseMemoryError, RecoverLoops

LEMMA ReportStays == ASSUME ReportInv, UNCHANGED vars PROVE ReportInv'
<1>1. WayBack'
  BY DEF vars, ReportInv, WayBack, InPlace, SetAside, Replaced, Undoable, Ready, Undone, Trusted
<1>2. Message'
  BY DEF vars, ReportInv, Message
<1>3. Hidden'
  BY DEF vars, ReportInv, Hidden, Silent, NoLeftovers
<1> QED
  BY <1>1, <1>2, <1>3 DEF ReportInv

-----------------------------------------------------------------------------
LEMMA CheckReport == ASSUME BaseInv, ReportInv, Check PROVE ReportInv'
<1>1. UNCHANGED <<original, files, state, found, completed>> /\ pc \in Checks
  BY DEF Check, InspectDirectory, RejectInputAlias, Checks
<1>2. ~ completed /\ found = "unasked"
  BY <1>1 DEF BaseInv, Completion, FoundIsTrue, AfterCommit, Checks, Ended
<1>3. report = {} /\ NoLeftovers /\ \A i \in Artifacts : InPlace(i)
  BY <1>1 DEF ReportInv, Message, Hidden, WayBack
<1>4. NoLeftovers' /\ \A i \in Artifacts : InPlace(i)'
  BY <1>1, <1>3 DEF NoLeftovers, InPlace, files
<1>5. CASE pc' = "done" /\ report' = {"MemoryError"}
  BY <1>1, <1>2, <1>5, Excused
<1>6. CASE pc' = "done" /\ report' = {"rejected"}
  <2>1. dest' = original'
    BY <1>1, <1>3 DEF BaseInv, TypeOK, FilesOK, InPlace, files
  <2>2. WayBack'
    BY <1>6, <2>1 DEF WayBack, Checks, StageLoop, BackupLoop
  <2>3. Message'
    BY <1>1, <1>2, <1>6 DEF Message, Checks, StageLoop, BackupLoop
  <2>4. Hidden'
    BY <1>4, <1>6 DEF Hidden, NoLeftovers, Checks
  <2> QED
    BY <2>2, <2>3, <2>4 DEF ReportInv
<1>7. CASE pc' \in {"directories", "aliases", "stageOpen"} /\ UNCHANGED report
           /\ (pc' = "stageOpen" => n' = 1)
  <2>1. WayBack'
    BY <1>4, <1>7 DEF WayBack, Checks, StageLoop, BackupLoop, BaseInv, TypeOK, Artifacts
  <2>2. Message'
    BY <1>1, <1>2, <1>3, <1>7 DEF Message, Checks, StageLoop, BackupLoop
  <2>3. Hidden'
    BY <1>4, <1>7 DEF Hidden, NoLeftovers, Checks
  <2> QED
    BY <2>1, <2>2, <2>3 DEF ReportInv
<1> QED
  BY <1>5, <1>6, <1>7, CallFacts DEF Check, InspectDirectory, RejectInputAlias, CheckFails, Reject,
     StopWith, NextArtifact

(* The rollback begins with flags that know every hidden file. *)
LEMMA UndoBegins ==
  ASSUME pc' = "undo", n' = N, ~ completed', found' = "unasked", "failed" \in report',
         \A i \in Artifacts : Undoable(i)',
         Silent' => \A i \in Artifacts :
           /\ temp'[i] # "absent" => state'[i].temporary_name
           /\ backup'[i] \notin {"absent", "empty"} => state'[i].backup_name
  PROVE  ReportInv'
<1>1. \A i \in Artifacts : ~ (i > n')
  BY NAssumption DEF Artifacts
<1>2. WayBack'
  BY <1>1 DEF WayBack, Checks, StageLoop, BackupLoop
<1>3. Message'
  BY DEF Message, Checks, StageLoop, BackupLoop
<1>4. Hidden'
  BY DEF Hidden, Checks
<1> QED
  BY <1>2, <1>3, <1>4 DEF ReportInv

LEMMA StageReport == ASSUME BaseInv, ReportInv, Stage PROVE ReportInv'
<1> USE CallFacts DEF BaseInv, TypeOK, FilesOK, FlagsOK, ControlOK
<1>1. UNCHANGED <<original, dest, backup, found, completed>> /\ pc \in StageLoop
  BY DEF Stage, StageOpen, StageWrite, StageAbort, StageLoop
<1>2. ~ completed /\ found = "unasked" /\ n \in Artifacts
  BY <1>1 DEF Completion, FoundIsTrue, AfterCommit, StageLoop, Ended
<1>3. report = {} /\ \A i \in Artifacts : InPlace(i) /\ (i < n => state[i].temporary_name)
  BY <1>1 DEF ReportInv, Message, WayBack
<1>4. \A i \in Artifacts :
        /\ temp[i] # "absent" =>
             state[i].temporary_name \/ (pc \in {"stageWrite", "stageAbort"} /\ i = n)
        /\ backup[i] \notin {"absent", "empty"} => state[i].backup_name
  BY <1>1, <1>3 DEF ReportInv, Hidden, Silent, StageLoop
<1>5. state' = state \/ state' = [state EXCEPT ![n].temporary_name = TRUE]
  BY DEF Stage, StageOpen, StageWrite, StageAbort
<1>6. \A i \in Artifacts : InPlace(i)'
  BY <1>1, <1>3, <1>5 DEF InPlace
<1>7. \A i \in Artifacts : /\ state[i].temporary_name => state'[i].temporary_name
                           /\ state'[i].backup_name = state[i].backup_name
  BY <1>5
<1>8. ASSUME pc' \in StageLoop, UNCHANGED report,
             \A i \in Artifacts : i < n' => state'[i].temporary_name,
             \A i \in Artifacts : temp'[i] # "absent" =>
               state'[i].temporary_name \/ (pc' \in {"stageWrite", "stageAbort"} /\ i = n')
      PROVE  ReportInv'
  <2>1. WayBack'
    BY <1>6, <1>8 DEF WayBack, Checks, StageLoop, BackupLoop
  <2>2. Message'
    BY <1>1, <1>2, <1>3, <1>8 DEF Message, Checks, StageLoop, BackupLoop
  <2>3. Hidden'
    BY <1>1, <1>4, <1>7, <1>8 DEF Hidden, Checks, StageLoop
  <2> QED
    BY <2>1, <2>2, <2>3 DEF ReportInv
<1>9. ASSUME pc' = "undo", n' = N, UNCHANGED state, "failed" \in report',
             Silent' => \A i \in Artifacts : temp'[i] # "absent" => state[i].temporary_name
      PROVE  ReportInv'
  BY <1>1, <1>2, <1>4, <1>6, <1>9, UndoBegins DEF Undoable
<1>10. CASE StageOpen
  <2> PICK r \in OpenResult :
        /\ Call(r)
        /\ temp' = IF r.done THEN [temp EXCEPT ![n] = "partial"] ELSE temp
        /\ \/ pc' \in {"stageWrite", "stageAbort"} /\ UNCHANGED <<n, report>>
           \/ ~ r.done /\ r # Ok /\ Raise(r.raises)
    BY <1>10 DEF StageOpen
  <2>1. UNCHANGED state /\ pc = "stageOpen"
    BY <1>10 DEF StageOpen
  <2>2. CASE pc' \in {"stageWrite", "stageAbort"} /\ UNCHANGED <<n, report>>
    <3>1. \A i \in Artifacts : i # n => temp'[i] = temp[i]
      OBVIOUS
    <3> QED
      BY <1>3, <1>4, <1>8, <2>1, <2>2, <3>1 DEF StageLoop
  <2>3. CASE ~ r.done /\ Raise(r.raises)
    <3>1. CASE RaiseMemoryError
      BY <1>1, <3>1, Escapes
    <3>2. CASE pc' = "undo" /\ n' = N /\ report' = report \cup {"failed"}
      BY <1>4, <1>9, <2>1, <2>3, <3>2
    <3> QED
      BY <2>3, <3>1, <3>2 DEF Raise
  <2> QED
    BY <2>2, <2>3
<1>11. CASE StageWrite
  <2>1. CASE pc' = "stageAbort" /\ UNCHANGED <<state, n, report>>
    <3>1. \A i \in Artifacts : i # n => temp'[i] = temp[i]
      BY <1>11 DEF StageWrite
    <3> QED
      BY <1>3, <1>4, <1>8, <1>11, <2>1, <3>1 DEF StageLoop, StageWrite
  <2>2. CASE /\ temp' = [temp EXCEPT ![n] = "new"] /\ UNCHANGED report
             /\ state' = [state EXCEPT ![n].temporary_name = TRUE]
             /\ NextArtifact("stageOpen", "backupStat")
    <3>1. \A i \in Artifacts : /\ i <= n => state'[i].temporary_name
                               /\ i # n => temp'[i] = temp[i]
      <4>1. \A i \in Artifacts : i <= n => i < n \/ i = n
        BY <1>2 DEF Artifacts
      <4> QED
        BY <1>2, <1>3, <2>2, <4>1
    <3>2. \A i \in Artifacts : temp'[i] # "absent" => state'[i].temporary_name
      BY <1>4, <1>7, <2>2, <3>1, <1>2, NAssumption DEF Artifacts
    <3>3. CASE pc' = "stageOpen" /\ n' = n + 1
      <4>1. \A i \in Artifacts : i < n' => state'[i].temporary_name
        BY <1>2, <3>1, <3>3 DEF Artifacts
      <4> QED
        BY <1>8, <2>2, <3>2, <3>3, <4>1 DEF StageLoop
    <3>4. CASE pc' = "backupStat" /\ n' = 1 /\ n >= N
      <4>1. \A i \in Artifacts : state'[i].temporary_name /\ ~ (i < n')
        BY <1>2, <3>1, <3>4, NAssumption DEF Artifacts
      <4>2. WayBack'
        BY <1>6, <3>4, <4>1 DEF WayBack, Checks, StageLoop, BackupLoop
      <4>3. Message'
        BY <1>1, <1>2, <1>3, <2>2, <3>4 DEF Message, Checks, StageLoop, BackupLoop
      <4>4. Hidden'
        BY <1>1, <1>4, <1>7, <3>2, <3>4 DEF Hidden, Checks
      <4> QED
        BY <4>2, <4>3, <4>4 DEF ReportInv
    <3> QED
      BY <1>2, <2>2, <3>3, <3>4, NAssumption DEF NextArtifact, Artifacts
  <2> QED
    BY <1>11, <2>1, <2>2 DEF StageWrite
<1>12. CASE StageAbort
  <2> PICK r \in Faults \cup {Ok} :
        /\ temp' = IF r.done THEN [temp EXCEPT ![n] = "absent"] ELSE temp
        /\ \/ RaiseMemoryError
           \/ /\ report' = report \cup {"failed"} \cup
                   (IF r = Ok THEN {} ELSE {"stagingCleanupFailed"})
              /\ pc' = "undo" /\ n' = N
    BY <1>12 DEF StageAbort
  <2>1. CASE RaiseMemoryError
    BY <1>1, <2>1, Escapes
  <2>2. CASE /\ report' = report \cup {"failed"} \cup
                   (IF r = Ok THEN {} ELSE {"stagingCleanupFailed"})
             /\ pc' = "undo" /\ n' = N
    <3>1. Silent' => r = Ok
      BY <2>2 DEF Silent
    <3>2. Silent' => \A i \in Artifacts : temp'[i] # "absent" => state[i].temporary_name
      <4> SUFFICES ASSUME Silent', NEW i \in Artifacts, temp'[i] # "absent"
            PROVE state[i].temporary_name
        OBVIOUS
      <4>1. temp' = [temp EXCEPT ![n] = "absent"]
        BY <3>1
      <4> QED
        BY <1>2, <1>4, <4>1
    <3>3. UNCHANGED state
      BY <1>12 DEF StageAbort
    <3> QED
      BY <1>9, <2>2, <3>2, <3>3
  <2> QED
    BY <2>1, <2>2
<1> QED
  BY <1>10, <1>11, <1>12 DEF Stage

LEMMA BackUpReport == ASSUME BaseInv, WholeFiles, ReportInv, BackUp PROVE ReportInv'
<1> USE CallFacts DEF BaseInv, TypeOK, FilesOK, FlagsOK, ControlOK
<1>1. UNCHANGED <<original, temp, found, completed>> /\ pc \in BackupLoop
  <2>1. CASE BackupStat
    BY <2>1 DEF BackupStat, files, BackupLoop
  <2>2. CASE ReserveOpen \/ ReserveClose
    BY <2>2 DEF ReserveOpen, ReserveClose, files, BackupLoop
  <2>3. CASE ReserveAbort \/ BackupRename
    BY <2>3 DEF ReserveAbort, BackupRename, BackupLoop
  <2> QED
    BY <2>1, <2>2, <2>3 DEF BackUp
<1>2. ~ completed /\ found = "unasked" /\ n \in Artifacts
  BY <1>1 DEF Completion, FoundIsTrue, AfterCommit, BackupLoop, Ended
<1>3. /\ report = {}
      /\ \A i \in Artifacts : state[i].temporary_name /\ (IF i < n THEN Ready(i) ELSE InPlace(i))
  BY <1>1 DEF ReportInv, Message, WayBack
<1>4. \A i \in Artifacts : backup[i] \notin {"absent", "empty"} => state[i].backup_name
  BY <1>1, <1>3 DEF ReportInv, Hidden, Silent, BackupLoop
<1>5. InPlace(n) /\ \A i \in Artifacts : Undoable(i)
  <2>1. ~ (n < n)
    BY <1>2 DEF Artifacts
  <2> QED
    BY <1>2, <1>3, <2>1 DEF Undoable, Ready
<1>6. pc \in BackupLoop \ {"backupStat"} => original[n] # "absent"
  BY DEF Forward
(* The loop goes on, ... *)
<1>7. ASSUME pc' \in BackupLoop, UNCHANGED report,
             \A i \in Artifacts : state'[i].temporary_name,
             \A i \in Artifacts : IF i < n' THEN Ready(i)' ELSE InPlace(i)',
             \A i \in Artifacts : backup'[i] \notin {"absent", "empty"} => state'[i].backup_name
      PROVE  ReportInv'
  <2>1. WayBack'
    BY <1>7 DEF WayBack, Checks, StageLoop, BackupLoop
  <2>2. Message'
    BY <1>1, <1>2, <1>3, <1>7 DEF Message, Checks, StageLoop, BackupLoop
  <2>3. Hidden'
    BY <1>7 DEF Hidden, Checks, BackupLoop
  <2> QED
    BY <2>1, <2>2, <2>3 DEF ReportInv
(* ... ends, ... *)
<1>8. ASSUME NextArtifact("backupStat", "commit"), UNCHANGED report,
             \A i \in Artifacts : state'[i].temporary_name,
             \A i \in Artifacts : IF i <= n THEN Ready(i)' ELSE InPlace(i)',
             \A i \in Artifacts : backup'[i] \notin {"absent", "empty"} => state'[i].backup_name
      PROVE  ReportInv'
  <2>1. \A i \in Artifacts : i < n + 1 <=> i <= n
    BY <1>2 DEF Artifacts
  <2>2. CASE pc' = "backupStat" /\ n' = n + 1
    <3>1. \A i \in Artifacts : IF i < n' THEN Ready(i)' ELSE InPlace(i)'
      BY <1>8, <2>1, <2>2
    <3> QED
      BY <1>7, <1>8, <2>2, <3>1 DEF BackupLoop
  <2>3. CASE pc' = "commit" /\ n' = 1 /\ n >= N
    <3>1. \A i \in Artifacts : i <= n
      BY <1>2, <2>3, NAssumption DEF Artifacts
    <3>2. \A i \in Artifacts : Ready(i)' /\ ~ (i < n')
      BY <1>8, <2>3, <3>1 DEF Artifacts
    <3>3. WayBack'
      BY <1>8, <2>3, <3>2 DEF WayBack, Checks, StageLoop, BackupLoop
    <3>4. Message'
      BY <1>1, <1>2, <1>3, <1>8, <2>3 DEF Message, Checks, StageLoop, BackupLoop
    <3>5. Hidden'
      BY <1>8, <2>3 DEF Hidden, Checks
    <3> QED
      BY <3>3, <3>4, <3>5 DEF ReportInv
  <2> QED
    BY <1>2, <1>8, <2>2, <2>3, NAssumption DEF NextArtifact, Artifacts
(* ... or is left for one of the two recoveries. *)
<1>9. ASSUME NEW kind \in {"OSError", "MemoryError"}, Raise(kind), \A i \in Artifacts : Undoable(i)',
             \A i \in Artifacts : state'[i].temporary_name,
             \A i \in Artifacts : backup'[i] \notin {"absent", "empty"} => state'[i].backup_name
      PROVE  ReportInv'
  <2>1. CASE RaiseMemoryError
    BY <1>1, <2>1, Escapes
  <2>2. CASE pc' = "undo" /\ n' = N /\ report' = report \cup {"failed"}
    BY <1>1, <1>2, <1>9, <2>2, UndoBegins
  <2> QED
    BY <1>9, <2>1, <2>2 DEF Raise
<1>10. CASE BackupStat
  <2>1. UNCHANGED <<dest, backup, state>>
    BY <1>10 DEF BackupStat, files
  <2>2. \A i \in Artifacts : /\ Ready(i) => Ready(i)'
                             /\ InPlace(i) => InPlace(i)'
                             /\ Undoable(i) => Undoable(i)'
    BY <1>1, <2>1 DEF Ready, InPlace, SetAside, Replaced, Undoable
  <2> PICK r \in Faults \cup {Ok} :
        \/ r # Ok /\ Raise(r.raises)
        \/ dest[n] = "absent" /\ NextArtifact("backupStat", "commit") /\ UNCHANGED report
        \/ pc' = "reserveOpen" /\ UNCHANGED <<n, report>>
    BY <1>10 DEF BackupStat
  <2>3. CASE r # Ok /\ Raise(r.raises)
    BY <1>3, <1>4, <1>5, <1>9, <2>1, <2>2, <2>3
  <2>4. CASE dest[n] = "absent" /\ NextArtifact("backupStat", "commit") /\ UNCHANGED report
    <3>1. Ready(n)
      BY <1>5, <2>4 DEF Ready
    <3>2. \A i \in Artifacts : IF i <= n THEN Ready(i)' ELSE InPlace(i)'
      <4>1. \A i \in Artifacts : i <= n <=> i < n \/ i = n
        BY <1>2 DEF Artifacts
      <4> QED
        BY <1>3, <2>2, <3>1, <4>1
    <3> QED
      BY <1>3, <1>4, <1>8, <2>1, <2>4, <3>2
  <2>5. CASE pc' = "reserveOpen" /\ UNCHANGED <<n, report>>
    BY <1>3, <1>4, <1>7, <2>1, <2>2, <2>5 DEF BackupLoop
  <2> QED
    BY <2>3, <2>4, <2>5
<1>11. CASE ReserveOpen \/ ReserveAbort
  <2>1. UNCHANGED <<dest, state>> /\ original[n] # "absent"
    BY <1>6, <1>11 DEF ReserveOpen, ReserveAbort, BackupLoop
  <2>2. /\ \A i \in Artifacts : i # n => backup'[i] = backup[i]
        /\ backup'[n] \in {backup[n], "absent", "empty"}
    <3>1. \/ backup' = backup \/ backup' = [backup EXCEPT ![n] = "empty"]
          \/ backup' = [backup EXCEPT ![n] = "absent"]
      BY <1>11 DEF ReserveOpen, ReserveAbort
    <3> QED
      BY <1>2, <3>1
  <2>3. \A i \in Artifacts : backup'[i] \notin {"absent", "empty"} => state'[i].backup_name
    BY <1>4, <2>1, <2>2
  <2>4. \A i \in Artifacts : IF i < n THEN Ready(i)' ELSE InPlace(i)'
    <3>1. ASSUME NEW i \in Artifacts, i < n PROVE Ready(i)'
      <4>1. i # n /\ Ready(i)
        BY <1>2, <1>3, <3>1 DEF Artifacts
      <4> QED
        BY <1>1, <2>1, <2>2, <4>1 DEF Ready, InPlace, SetAside
    <3>2. ASSUME NEW i \in Artifacts, ~ (i < n) PROVE InPlace(i)'
      BY <1>1, <1>3, <2>1, <3>2 DEF InPlace
    <3> QED
      BY <3>1, <3>2
  <2>5. \A i \in Artifacts : Undoable(i)'
    BY <2>4 DEF Ready, Undoable
  <2>6. CASE pc' \in {"reserveClose", "reserveAbort"} /\ UNCHANGED <<n, report>>
    BY <1>3, <1>7, <2>1, <2>3, <2>4, <2>6 DEF BackupLoop
  <2>7. CASE \E kind \in {"OSError", "MemoryError"} : Raise(kind)
    BY <1>3, <1>9, <2>1, <2>3, <2>5, <2>7
  <2>8. CASE ReserveOpen
    BY <2>6, <2>7, <2>8 DEF ReserveOpen, OpenResult
  <2>9. CASE ReserveAbort
    BY <2>7, <2>9 DEF ReserveAbort, RaisesWhatFails
  <2> QED
    BY <1>11, <2>8, <2>9
<1>12. CASE ReserveClose
  <2>1. UNCHANGED <<dest, backup, n, report>> /\ original[n] # "absent"
        /\ pc' \in {"backupRename", "reserveAbort"}
        /\ \/ UNCHANGED state
           \/ state' = [state EXCEPT ![n].backup_name = TRUE, ![n].backup_started = TRUE]
    BY <1>6, <1>12 DEF ReserveClose, BackupLoop, files
  <2>2. \A i \in Artifacts : /\ state'[i].temporary_name = state[i].temporary_name
                             /\ state[i].backup_name => state'[i].backup_name
                             /\ Ready(i) /\ i # n => Ready(i)'
                             /\ InPlace(i) => InPlace(i)'
    BY <1>1, <2>1 DEF Ready, InPlace, SetAside
  <2>3. \A i \in Artifacts : i < n => i # n
    BY <1>2 DEF Artifacts
  <2> QED
    BY <1>3, <1>4, <1>7, <2>1, <2>2, <2>3 DEF BackupLoop
<1>13. CASE BackupRename
  <2>1. state[n].backup_name /\ state[n].backup_started /\ original[n] # "absent"
        /\ backup[n] \in {"absent", "empty", original[n]}
    BY <1>2, <1>6, <1>13 DEF BackupRename, Forward, BackupLoop, WholeFiles
  <2> PICK r \in Faults \cup {Ok} :
        /\ IF r.done THEN /\ backup' = [backup EXCEPT ![n] = dest[n]]
                          /\ dest' = [dest EXCEPT ![n] = "absent"]
                     ELSE UNCHANGED <<dest, backup>>
        /\ IF r = Ok
           THEN /\ state' = [state EXCEPT ![n].backup_completed = TRUE]
                /\ NextArtifact("backupStat", "commit") /\ UNCHANGED report
           ELSE UNCHANGED state /\ Raise(r.raises)
    BY <1>13 DEF BackupRename
  <2>2. \A i \in Artifacts : /\ state'[i].temporary_name = state[i].temporary_name
                             /\ state'[i].backup_name = state[i].backup_name
                             /\ i # n => /\ state'[i] = state[i] /\ dest'[i] = dest[i]
                                         /\ backup'[i] = backup[i]
    BY <1>2
  <2>3. \A i \in Artifacts : backup'[i] \notin {"absent", "empty"} => state'[i].backup_name
    BY <1>4, <2>1, <2>2
  <2>4. \A i \in Artifacts : i # n => /\ Ready(i) => Ready(i)'
                                      /\ InPlace(i) => InPlace(i)'
    BY <1>1, <2>2 DEF Ready, InPlace, SetAside
  <2>5. CASE r = Ok
    <3>1. \A i \in Artifacts : i = n => Ready(i)'
      BY <1>1, <1>2, <1>5, <2>1, <2>5 DEF Ready, InPlace, SetAside
    <3>2. \A i \in Artifacts : IF i <= n THEN Ready(i)' ELSE InPlace(i)'
      <4>1. \A i \in Artifacts : i <= n <=> i < n \/ i = n
        BY <1>2 DEF Artifacts
      <4> QED
        BY <1>3, <2>4, <3>1, <4>1
    <3> QED
      BY <1>3, <1>8, <2>2, <2>3, <2>5, <3>2
  <2>6. CASE r # Ok
    <3>1. \A i \in Artifacts : i = n => InPlace(i)' \/ SetAside(i)'
      BY <1>1, <1>2, <1>5, <2>1, <2>6 DEF InPlace, SetAside
    <3>2. \A i \in Artifacts : Undoable(i)'
      BY <1>3, <2>4, <3>1 DEF Undoable, Ready
    <3> QED
      BY <1>3, <1>9, <2>2, <2>3, <2>6, <3>2
  <2> QED
    BY <2>5, <2>6
<1> QED
  BY <1>10, <1>11, <1>12, <1>13 DEF BackUp

LEMMA CommitReport == ASSUME BaseInv, ReportInv, Commit PROVE ReportInv'
<1> USE CallFacts DEF BaseInv, TypeOK, FilesOK, FlagsOK, ControlOK
<1>1. UNCHANGED <<original, backup, found>> /\ pc = "commit" /\ n \in Artifacts
  BY DEF Commit
<1>2. ~ completed /\ found = "unasked" /\ temp[n] = "new"
  <2>1. ~ (n < n)
    BY <1>1 DEF Artifacts
  <2> QED
    BY <1>1, <2>1 DEF Completion, FoundIsTrue, Staged, AfterCommit, Ended
<1>3. /\ report = {}
      /\ \A i \in Artifacts : state[i].temporary_name
      /\ \A i \in Artifacts : IF i < n THEN Replaced(i) /\ state[i].commit_completed
                                       ELSE Ready(i)
  BY <1>1 DEF ReportInv, Message, WayBack
<1>4. \A i \in Artifacts : backup[i] \notin {"absent", "empty"} => state[i].backup_name
  BY <1>1, <1>3 DEF ReportInv, Hidden, Silent
<1>5. PICK r \in Faults \cup {Ok} :
        /\ IF r.done THEN /\ dest' = [dest EXCEPT ![n] = temp[n]]
                          /\ temp' = [temp EXCEPT ![n] = "absent"]
                     ELSE UNCHANGED <<dest, temp>>
        /\ IF r = Ok
           THEN /\ state' = [state EXCEPT ![n].commit_started = TRUE,
                                          ![n].commit_completed = TRUE]
                /\ NextArtifact("commit", "clean")
                /\ completed' = (n = N) /\ UNCHANGED report
           ELSE /\ state' = [state EXCEPT ![n].commit_started = TRUE]
                /\ Raise(r.raises) /\ UNCHANGED completed
  BY DEF Commit
<1>6. \A i \in Artifacts : /\ state'[i].temporary_name = state[i].temporary_name
                           /\ state'[i].backup_name = state[i].backup_name
                           /\ i # n => /\ state'[i] = state[i] /\ dest'[i] = dest[i]
                                       /\ temp'[i] = temp[i]
  BY <1>1, <1>5
<1>7. \A i \in Artifacts : i # n => /\ Ready(i) => Ready(i)'
                                    /\ Replaced(i) => Replaced(i)'
  BY <1>1, <1>6 DEF Ready, InPlace, SetAside, Replaced
<1>8. ~ (n < n) /\ Ready(n)
  BY <1>1, <1>3 DEF Artifacts
<1>9. \A i \in Artifacts : i = n => Replaced(i)' /\ (r = Ok => state'[i].commit_completed)
  BY <1>1, <1>2, <1>3, <1>5, <1>8 DEF Ready, InPlace, SetAside, Replaced
<1>10. CASE r # Ok
  <2>1. \A i \in Artifacts : Undoable(i)'
    BY <1>3, <1>7, <1>9 DEF Undoable, Ready
  <2>2. CASE RaiseMemoryError
    BY <1>5, <1>10, <2>2, Escapes
  <2>3. CASE pc' = "undo" /\ n' = N /\ report' = report \cup {"failed"}
    BY <1>1, <1>2, <1>3, <1>4, <1>5, <1>6, <1>10, <2>1, <2>3, UndoBegins
  <2> QED
    BY <1>5, <1>10, <2>2, <2>3 DEF Raise
<1>11. CASE r = Ok
  <2>1. \A i \in Artifacts : IF i <= n THEN Replaced(i)' /\ state'[i].commit_completed
                                       ELSE Ready(i)'
    <3>1. \A i \in Artifacts : i <= n <=> i < n \/ i = n
      BY <1>1 DEF Artifacts
    <3> QED
      BY <1>3, <1>6, <1>7, <1>9, <1>11, <3>1
  <2>2. ASSUME pc' = "commit" \/ (pc' = "clean" /\ n' = 1 /\ completed') PROVE Hidden'
    <3>1. \A i \in Artifacts : ~ (i < 1)
      BY DEF Artifacts
    <3> QED
      BY <1>1, <1>3, <1>4, <1>6, <2>2, <3>1 DEF Hidden, Checks
  <2>3. CASE pc' = "commit" /\ n' = n + 1 /\ ~ completed'
    <3>1. \A i \in Artifacts : i < n' <=> i <= n
      BY <1>1, <2>3 DEF Artifacts
    <3>2. WayBack'
      BY <1>3, <1>6, <2>1, <2>3, <3>1 DEF WayBack, Checks, StageLoop, BackupLoop
    <3>3. Message'
      BY <1>1, <1>2, <1>3, <1>5, <1>11, <2>3 DEF Message
    <3> QED
      BY <2>2, <2>3, <3>2, <3>3 DEF ReportInv
  <2>4. CASE pc' = "clean" /\ n' = 1 /\ completed'
    <3>1. WayBack'
      BY <2>4 DEF WayBack, Checks, StageLoop, BackupLoop
    <3>2. Message'
      BY <1>1, <1>2, <1>3, <1>5, <1>11, <2>4 DEF Message, Checks, StageLoop, BackupLoop
    <3> QED
      BY <2>2, <2>4, <3>1, <3>2 DEF ReportInv
  <2>5. CASE n < N
    <3>1. n # N
      BY <1>1, <2>5, NAssumption DEF Artifacts
    <3> QED
      BY <1>5, <1>11, <2>3, <2>5, <3>1 DEF NextArtifact
  <2>6. CASE ~ (n < N)
    <3>1. n = N
      BY <1>1, <2>6, NAssumption DEF Artifacts
    <3> QED
      BY <1>5, <1>11, <2>4, <2>6, <3>1 DEF NextArtifact
  <2> QED
    BY <2>5, <2>6
<1> QED
  BY <1>10, <1>11

-----------------------------------------------------------------------------
(* The rollback. *)

LEMMA StatReport == ASSUME BaseInv, ReportInv, UndoStat \/ RestoreStat PROVE ReportInv'
<1>1. UNCHANGED <<original, files, state, completed>> /\ pc \in {"undo", "restore"}
      /\ found = "unasked"
  BY DEF UndoStat, RestoreStat, RollbackStat
<1>2. ~ completed /\ "failed" \in report
  BY <1>1 DEF BaseInv, Completion, AfterCommit, Ended, ReportInv, Message
<1>3. PICK r \in Faults \cup {Ok}, name \in {temp[n], dest[n]} :
        /\ pc = "undo" => name = temp[n]
        /\ IF r.raises = "MemoryError" THEN RaiseMemoryError
           ELSE /\ found' = IF r = Ok THEN Answer(name) ELSE "unknown"
                /\ report' = IF r = Ok THEN report ELSE report \cup {"rollbackFailed"}
                /\ UNCHANGED <<pc, n>>
  BY DEF UndoStat, RestoreStat, RollbackStat
<1>4. CASE RaiseMemoryError
  BY <1>1, <1>4, Escapes
<1>5. CASE /\ found' = IF r = Ok THEN Answer(name) ELSE "unknown"
           /\ report' = IF r = Ok THEN report ELSE report \cup {"rollbackFailed"}
           /\ UNCHANGED <<pc, n>>
  <2>1. (Trusted' => Trusted) /\ (Silent' => Silent)
    BY <1>5 DEF Trusted, Silent
  <2>2. \A i \in Artifacts : /\ Undone(i) => Undone(i)'
                             /\ Undoable(i) => Undoable(i)'
    BY <1>1 DEF files, Undone, Undoable, InPlace, SetAside, Replaced
  <2>3. WayBack'
    <3>1. pc' = "undo" /\ Trusted' => \A i \in Artifacts : IF i > n' THEN Undone(i)'
                                                                     ELSE Undoable(i)'
      BY <1>5, <2>1, <2>2 DEF ReportInv, WayBack
    <3>2. pc' = "restore" /\ Trusted' => \A i \in Artifacts :
            IF i > n' THEN dest'[i] = original'[i] ELSE Undone(i)'
      BY <1>1, <1>5, <2>1, <2>2 DEF ReportInv, WayBack, files
    <3> QED
      BY <1>1, <1>5, <3>1, <3>2 DEF WayBack, Checks, StageLoop, BackupLoop
  <2>4. Message'
    BY <1>1, <1>2, <1>3, <1>5 DEF Message, Checks, StageLoop, BackupLoop, Answer, files
  <2>5. Hidden'
    BY <1>1, <1>5, <2>1 DEF ReportInv, Hidden, Checks, files
  <2> QED
    BY <2>3, <2>4, <2>5 DEF ReportInv
<1> QED
  BY <1>3, <1>4, <1>5

(* The first loop takes away what the commit loop put in place. *)
LEMMA UndoReport == ASSUME BaseInv, ReportInv, Undo PROVE ReportInv'
<1> USE CallFacts DEF BaseInv, TypeOK, FilesOK, FlagsOK, ControlOK
<1>1. UNCHANGED <<original, temp, backup, completed>> /\ pc = "undo" /\ n \in Artifacts
      /\ found' = "unasked"
  BY DEF Undo, RollbackNext
<1>2. ~ completed /\ "failed" \in report
  BY <1>1 DEF Completion, AfterCommit, Ended, ReportInv, Message
<1>3. PICK r \in Faults \cup {Ok} :
        /\ dest' = IF Committed(n) /\ r.done THEN [dest EXCEPT ![n] = "absent"] ELSE dest
        /\ state' = IF Committed(n) /\ r = Ok /\ dest[n] # "absent"
                    THEN [state EXCEPT ![n].commit_started = FALSE,
                                       ![n].commit_completed = FALSE]
                    ELSE state
        /\ RollbackNext(r, "undo", "restore", N)
  BY DEF Undo
<1>4. CASE RaiseMemoryError
  BY <1>1, <1>4, Escapes
<1>5. CASE /\ PreviousArtifact("undo", "restore", N)
           /\ \/ r = Ok /\ UNCHANGED report
              \/ report' = report \cup {"rollbackFailed"}
  <2>1. (Trusted' => Trusted /\ r = Ok) /\ (Silent' => Silent)
    BY <1>5 DEF Trusted, Silent
  <2>2. \A i \in Artifacts :
          /\ state'[i].temporary_name = state[i].temporary_name
          /\ state'[i].backup_name = state[i].backup_name
          /\ state'[i].backup_started = state[i].backup_started
          /\ state'[i].backup_completed = state[i].backup_completed
          /\ i # n => state'[i] = state[i] /\ dest'[i] = dest[i]
    BY <1>1, <1>3
  <2>3. \A i \in Artifacts : i # n => /\ Undone(i) => Undone(i)'
                                      /\ Undoable(i) => Undoable(i)'
    BY <1>1, <2>2 DEF Undone, Undoable, InPlace, SetAside, Replaced
  <2>4. ASSUME Trusted' PROVE \A i \in Artifacts : i = n => Undone(i)'
    <3>1. Undoable(n) /\ r = Ok /\ found # "unknown"
      <4>1. ~ (n > n)
        BY <1>1 DEF Artifacts
      <4> QED
        BY <1>1, <2>1, <2>4, <4>1 DEF ReportInv, WayBack, Message, Trusted
    <3>2. dest' = IF Committed(n) THEN [dest EXCEPT ![n] = "absent"] ELSE dest
      BY <1>3, <3>1
    <3>3. CASE InPlace(n) \/ SetAside(n)
      <4>1. ~ Committed(n)
        BY <1>1, <3>3 DEF Committed, InPlace, SetAside, FoundIsTrue, AsksTemporary
      <4> QED
        BY <1>1, <2>2, <3>2, <3>3, <4>1 DEF InPlace, SetAside, Undone
    <3>4. CASE Replaced(n)
      <4>1. dest'[n] = "absent"
        <5>1. CASE Committed(n)
          BY <1>1, <3>2, <5>1
        <5>2. CASE ~ Committed(n)
          <6>1. ~ state[n].commit_completed /\ found = "present"
            BY <1>1, <3>1, <3>4, <5>2 DEF Committed, Replaced, AsksTemporary, Undo
          <6>2. Answer(temp[n]) = "present"
            BY <1>1, <6>1 DEF ReportInv, Message
          <6> QED
            BY <3>2, <3>4, <5>2, <6>1, <6>2 DEF Replaced, Answer
        <5> QED
          BY <5>1, <5>2
      <4> QED
        BY <1>1, <2>2, <3>4, <4>1 DEF Replaced, Undone
    <3> QED
      BY <3>1, <3>3, <3>4 DEF Undoable
  <2>5. Trusted' => \A i \in Artifacts : IF i > n - 1 THEN Undone(i)' ELSE Undoable(i)'
    <3>1. \A i \in Artifacts : /\ i > n - 1 => i > n \/ i = n
                               /\ ~ (i > n - 1) => i # n /\ ~ (i > n)
      BY <1>1 DEF Artifacts
    <3>2. Trusted' => \A i \in Artifacts : IF i > n THEN Undone(i) ELSE Undoable(i)
      BY <1>1, <2>1 DEF ReportInv, WayBack
    <3>3. \A i \in Artifacts : i > n => i # n
      BY <1>1 DEF Artifacts
    <3> QED
      BY <2>3, <2>4, <3>1, <3>2, <3>3
  <2>6. Hidden'
    <3>1. pc' \in {"undo", "restore"} /\ (pc' = "restore" => n' = N)
      BY <1>5 DEF PreviousArtifact
    <3>2. \A i \in Artifacts : ~ (i > N)
      BY NAssumption DEF Artifacts
    <3> QED
      BY <1>1, <2>1, <2>2, <3>1, <3>2 DEF ReportInv, Hidden, Checks
  <2>7. CASE pc' = "undo" /\ n' = n - 1
    <3>1. WayBack'
      BY <2>5, <2>7 DEF WayBack, Checks, StageLoop, BackupLoop
    <3>2. Message'
      BY <1>1, <1>2, <1>5, <2>7 DEF Message, Checks, StageLoop, BackupLoop
    <3> QED
      BY <2>6, <3>1, <3>2 DEF ReportInv
  <2>8. CASE pc' = "restore" /\ n' = N /\ ~ (n > 1)
    <3>1. \A i \in Artifacts : i > n - 1 /\ ~ (i > N)
      BY <1>1, <2>8, NAssumption DEF Artifacts
    <3>2. WayBack'
      BY <2>5, <2>8, <3>1 DEF WayBack, Checks, StageLoop, BackupLoop
    <3>3. Message'
      BY <1>1, <1>2, <1>5, <2>8 DEF Message, Checks, StageLoop, BackupLoop
    <3> QED
      BY <2>6, <3>2, <3>3 DEF ReportInv
  <2> QED
    BY <1>5, <2>7, <2>8 DEF PreviousArtifact
<1> QED
  BY <1>3, <1>4, <1>5 DEF RollbackNext

(* The second loop brings the originals back, or gives the reservation of   *)
(* one that was never moved away. *)
LEMMA SecondLoopReport ==
  ASSUME BaseInv, WholeFiles, ReportInv, Restore \/ Discard
  PROVE  ReportInv'
<1> USE CallFacts DEF BaseInv, TypeOK, FilesOK, FlagsOK, ControlOK
<1>1. UNCHANGED <<original, temp, completed>> /\ pc = "restore" /\ n \in Artifacts
      /\ found' = "unasked" /\ (AsksDestination(n) => found # "unasked")
  BY DEF Restore, Discard, RollbackNext
<1>2. ~ completed /\ "failed" \in report
  BY <1>1 DEF Completion, AfterCommit, Ended, ReportInv, Message
<1>3. PICK r \in Faults \cup {Ok, Missing} : RollbackNext(r, "restore", "clean", 1)
        /\ (Restore => /\ RestoresBackup(n)
                       /\ backup[n] = "absent" => r = Missing
                       /\ r = Ok => /\ dest' = [dest EXCEPT ![n] = backup[n]]
                                    /\ backup' = [backup EXCEPT ![n] = "absent"])
        /\ (Discard => /\ ~ RestoresBackup(n) /\ dest' = dest
                       /\ r = Ok => backup' = IF DiscardsReservation(n)
                                              THEN [backup EXCEPT ![n] = "absent"] ELSE backup)
  <2>1. CASE Restore
    BY <2>1 DEF Restore, Discard
  <2>2. CASE Discard
    BY <2>2 DEF Restore, Discard
  <2> QED
    BY <2>1, <2>2
<1>4. CASE RaiseMemoryError
  BY <1>1, <1>4, Escapes
<1>5. CASE PreviousArtifact("restore", "clean", 1) /\ report' = report \cup {"rollbackFailed"}
  <2>1. ~ Trusted' /\ ~ Silent'
    BY <1>5 DEF Trusted, Silent
  <2>2. pc' \in {"restore", "clean"}
    BY <1>5 DEF PreviousArtifact
  <2>3. WayBack'
    BY <2>1, <2>2 DEF WayBack, Checks, StageLoop, BackupLoop
  <2>4. Message'
    BY <1>1, <1>2, <1>5, <2>2 DEF Message, Checks, StageLoop, BackupLoop
  <2>5. Hidden'
    BY <2>1, <2>2 DEF Hidden, Checks
  <2> QED
    BY <2>3, <2>4, <2>5 DEF ReportInv
<1>6. CASE PreviousArtifact("restore", "clean", 1) /\ UNCHANGED report /\ r = Ok
  <2>1. \A i \in Artifacts :
          /\ state'[i].temporary_name = state[i].temporary_name
          /\ i # n => state'[i] = state[i] /\ dest'[i] = dest[i] /\ backup'[i] = backup[i]
    <3>1. CASE Restore
      <4>1. \/ state' = state
            \/ state' = [state EXCEPT ![n] = [NewState EXCEPT
                            !.temporary_name = state[n].temporary_name]]
        BY <3>1 DEF Restore
      <4> QED
        BY <1>1, <1>3, <1>6, <3>1, <4>1 DEF NewState
    <3>2. CASE Discard
      <4>1. \/ state' = state
            \/ state' = [state EXCEPT ![n].backup_name = FALSE, ![n].backup_started = FALSE]
        BY <3>2 DEF Discard
      <4> QED
        BY <1>1, <1>3, <1>6, <3>2, <4>1
    <3> QED
      BY <3>1, <3>2
  <2>2. ASSUME Trusted PROVE dest'[n] = original[n]
    <3>1. Undone(n) /\ found # "unknown"
      <4>1. ~ (n > n)
        BY <1>1 DEF Artifacts
      <4> QED
        BY <1>1, <2>2, <4>1 DEF ReportInv, WayBack, Message, Trusted
    <3>2. found \in {"absent", "present"} => found = Answer(dest[n])
      BY <1>1 DEF FoundIsTrue
    <3>3. CASE Restore
      <4>1. backup[n] # "absent" /\ dest'[n] = backup[n] /\ RestoresBackup(n)
        <5>1. r # Missing
          BY <1>6 DEF Missing
        <5> QED
          BY <1>1, <1>3, <1>6, <3>3, <5>1
      <4>2. CASE dest[n] = original[n] /\ ~ state[n].backup_completed
                 /\ (original[n] = "absent" => ~ state[n].backup_name)
        <5>1. found = "absent" /\ state[n].backup_name
          BY <4>1, <4>2 DEF RestoresBackup
        <5>2. original[n] = "absent"
          BY <3>2, <4>2, <5>1 DEF Answer
        <5> QED
          BY <4>2, <5>1, <5>2
      <4> QED
        BY <3>1, <4>1, <4>2 DEF Undone
    <3>4. CASE Discard
      <4>1. ~ RestoresBackup(n) /\ dest' = dest
        BY <1>3, <3>4
      <4>2. CASE /\ original[n] # "absent" /\ dest[n] = "absent" /\ backup[n] = original[n]
                 /\ state[n].backup_name /\ state[n].backup_started
        <5>1. ~ state[n].backup_completed /\ found # "absent"
          BY <4>1, <4>2 DEF RestoresBackup
        <5>2. found = "present"
          BY <1>1, <3>1, <4>2, <5>1 DEF AsksDestination
        <5> QED
          BY <3>2, <4>2, <5>2 DEF Answer
      <4> QED
        BY <3>1, <4>1, <4>2 DEF Undone
    <3> QED
      BY <3>3, <3>4
  <2>3. Silent => /\ backup'[n] \in {"absent", "empty"}
                  /\ \A i \in Artifacts : backup'[i] \notin {"absent", "empty"} =>
                       state'[i].backup_name
    <3>1. Silent => \A i \in Artifacts : backup[i] \notin {"absent", "empty"} =>
                      state[i].backup_name
      BY <1>1 DEF ReportInv, Hidden
    <3>2. Silent => backup'[n] \in {"absent", "empty"}
      <4>1. CASE Restore
        BY <1>1, <1>3, <1>6, <4>1
      <4>2. CASE Discard /\ DiscardsReservation(n)
        BY <1>1, <1>3, <1>6, <4>2
      <4>3. CASE Discard /\ ~ DiscardsReservation(n) /\ Silent
        <5>1. ~ RestoresBackup(n) /\ backup' = backup
          BY <1>3, <1>6, <4>3
        <5>2. "rollbackFailed" \notin report
          BY <4>3 DEF Silent
        <5>3. found # "unknown"
          BY <1>1, <5>2 DEF ReportInv, Message
        <5>4. ~ state[n].backup_name
          BY <1>1, <4>3, <5>1, <5>3 DEF RestoresBackup, DiscardsReservation, AsksDestination
        <5> QED
          BY <1>1, <3>1, <4>3, <5>1, <5>4
      <4> QED
        BY <4>1, <4>2, <4>3
    <3> QED
      BY <1>1, <2>1, <3>1, <3>2
  <2>4. (Trusted' <=> Trusted) /\ (Silent' <=> Silent)
    BY <1>6 DEF Trusted, Silent
  <2>5. Trusted' => \A i \in Artifacts : IF i > n - 1 THEN dest'[i] = original[i] ELSE Undone(i)'
    <3>1. \A i \in Artifacts : /\ i > n - 1 => i > n \/ i = n
                               /\ ~ (i > n - 1) => i # n /\ ~ (i > n)
                               /\ i > n => i # n
      BY <1>1 DEF Artifacts
    <3>2. Trusted' => \A i \in Artifacts : IF i > n THEN dest[i] = original[i] ELSE Undone(i)
      BY <1>1, <2>4 DEF ReportInv, WayBack
    <3>3. \A i \in Artifacts : i # n /\ Undone(i) => Undone(i)'
      BY <1>1, <2>1 DEF Undone
    <3> QED
      BY <2>1, <2>2, <2>4, <3>1, <3>2, <3>3
  <2>6. Silent' => \A i \in Artifacts :
          /\ temp'[i] # "absent" => state'[i].temporary_name
          /\ backup'[i] \notin {"absent", "empty"} => state'[i].backup_name
          /\ i > n - 1 => backup'[i] \in {"absent", "empty"}
    <3>1. Silent => \A i \in Artifacts : /\ temp[i] # "absent" => state[i].temporary_name
                                         /\ i > n => backup[i] \in {"absent", "empty"}
      BY <1>1 DEF ReportInv, Hidden
    <3>2. \A i \in Artifacts : /\ i > n - 1 => i > n \/ i = n
                               /\ i > n => i # n
      BY <1>1 DEF Artifacts
    <3> QED
      BY <1>1, <2>1, <2>3, <2>4, <3>1, <3>2
  <2>7. CASE pc' = "restore" /\ n' = n - 1
    <3>1. WayBack'
      BY <1>1, <2>5, <2>7 DEF WayBack, Checks, StageLoop, BackupLoop
    <3>2. Message'
      BY <1>1, <1>2, <1>6, <2>7 DEF Message, Checks, StageLoop, BackupLoop
    <3>3. Hidden'
      BY <2>6, <2>7 DEF Hidden, Checks
    <3> QED
      BY <3>1, <3>2, <3>3 DEF ReportInv
  <2>8. CASE pc' = "clean" /\ n' = 1 /\ ~ (n > 1)
    <3>1. \A i \in Artifacts : i > n - 1 /\ ~ (i < 1)
      BY <1>1, <2>8 DEF Artifacts
    <3>2. Trusted' => dest' = original'
      <4>1. dest' \in [Artifacts -> Content] /\ original \in [Artifacts -> Content]
        <5>1. FilesOK'
          BY FilesStep DEF Next, Step, Rollback
        <5> QED
          BY <5>1 DEF Content
      <4> QED
        BY <1>1, <2>5, <3>1, <4>1
    <3>3. WayBack'
      BY <2>8, <3>2 DEF WayBack, Checks, StageLoop, BackupLoop
    <3>4. Message'
      BY <1>1, <1>2, <1>6, <2>8 DEF Message, Checks, StageLoop, BackupLoop
    <3>5. Hidden'
      BY <2>6, <2>8, <3>1 DEF Hidden, Checks
    <3> QED
      BY <3>3, <3>4, <3>5 DEF ReportInv
  <2> QED
    BY <1>6, <2>7, <2>8 DEF PreviousArtifact
<1>7. r.raises \in {"MemoryError", "OSError"} \/ r = Ok
  BY DEF Missing, Ok, Result
<1>8. CASE r.raises = "MemoryError"
  BY <1>3, <1>4, <1>8 DEF RollbackNext
<1>9. CASE r.raises = "OSError"
  BY <1>3, <1>5, <1>9 DEF RollbackNext
<1>10. CASE r = Ok
  BY <1>3, <1>6, <1>10 DEF RollbackNext, Ok
<1> QED
  BY <1>7, <1>8, <1>9, <1>10

-----------------------------------------------------------------------------
(* The clean-up of the staged names, and of the backups of a complete set.  *)
LEMMA CleanUpReport ==
  ASSUME BaseInv, ReportInv, Clean \/ DropBackup
  PROVE  ReportInv'
<1> USE CallFacts DEF BaseInv, TypeOK, FilesOK, FlagsOK, ControlOK
<1> DEFINE after == IF pc = "clean" /\ completed THEN "drop" ELSE "done"
<1>1. /\ UNCHANGED <<original, dest, completed, found, pending>> /\ n \in Artifacts
      /\ Clean => pc = "clean" /\ UNCHANGED backup
      /\ DropBackup => pc = "drop" /\ UNCHANGED temp
      /\ pc \in {"clean", "drop"} /\ (pc = "drop" => completed)
  BY DEF Clean, DropBackup, Completion
<1>2. PICK r \in Faults \cup {Ok} :
        /\ CleanNext(r, pc, after)
        /\ r = Ok => \A i \in Artifacts :
             IF i # n THEN temp'[i] = temp[i] /\ backup'[i] = backup[i] /\ state'[i] = state[i]
             ELSE /\ Clean => /\ state'[i].backup_name = state[i].backup_name
                              /\ IF state[i].temporary_name THEN temp'[i] = "absent"
                                 ELSE temp'[i] = temp[i] /\ ~ state'[i].temporary_name
                  /\ DropBackup =>
                       /\ state'[i].temporary_name = state[i].temporary_name
                       /\ IF state[i].backup_name THEN backup'[i] = "absent"
                          ELSE backup'[i] = backup[i] /\ ~ state'[i].backup_name
  <2>1. CASE Clean
    <3>1. PICK r \in Faults \cup {Ok} :
            /\ ~ state[n].temporary_name => r = Ok
            /\ Call(r)
            /\ temp' = IF state[n].temporary_name /\ r.done
                       THEN [temp EXCEPT ![n] = "absent"] ELSE temp
            /\ state' = IF r = Ok THEN [state EXCEPT ![n].temporary_name = FALSE] ELSE state
            /\ CleanNext(r, "clean", IF completed THEN "drop" ELSE "done")
      BY <2>1 DEF Clean
    <3>2. CleanNext(r, pc, after)
      BY <1>1, <2>1, <3>1
    <3>3. ~ DropBackup
      BY <1>1, <2>1 DEF DropBackup
    <3> QED
      BY ZenonT(40), <1>1, <2>1, <3>1, <3>2, <3>3
  <2>2. CASE DropBackup
    <3>1. PICK r \in Faults \cup {Ok} :
            /\ ~ state[n].backup_name => r = Ok
            /\ Call(r)
            /\ backup' = IF state[n].backup_name /\ r.done
                         THEN [backup EXCEPT ![n] = "absent"] ELSE backup
            /\ state' = IF state[n].backup_name /\ r = Ok
                        THEN [state EXCEPT ![n].backup_name = FALSE,
                                           ![n].backup_started = FALSE,
                                           ![n].backup_completed = FALSE]
                        ELSE state
            /\ CleanNext(r, "drop", "done")
      BY <2>2 DEF DropBackup
    <3>2. CleanNext(r, pc, after)
      BY <1>1, <2>2, <3>1
    <3>3. ~ Clean
      BY <1>1, <2>2 DEF Clean
    <3> QED
      BY <1>1, <2>2, <3>1, <3>2, <3>3
  <2> QED
    BY <2>1, <2>2
<1>3. CASE RaiseMemoryError
  BY <1>1, <1>3, Escapes
<1>4. /\ ~ completed => "failed" \in report
      /\ completed => report \cap {"failed", "rejected"} = {}
  BY <1>1 DEF ReportInv, Message
<1>5. Trusted /\ ~ completed => dest = original
  BY <1>1 DEF ReportInv, WayBack
<1>6. ASSUME NextArtifact(pc, after), report' = report \/ report' = report \cup {"cleanupFailed"}
      PROVE  WayBack' /\ Message'
  <2>1. /\ pc' \in {"clean", "drop", "done"} /\ (pc' = "drop" => completed)
        /\ Trusted' <=> Trusted
    BY <1>1, <1>6 DEF NextArtifact, Trusted
  <2>2. WayBack'
    BY <1>1, <1>5, <2>1 DEF WayBack, Checks, StageLoop, BackupLoop
  <2>3. Message'
    BY <1>1, <1>4, <1>6, <2>1 DEF Message, Checks, StageLoop, BackupLoop
  <2> QED
    BY <2>2, <2>3
<1>7. CASE NextArtifact(pc, after) /\ report' = report \cup {"cleanupFailed"}
  <2>1. ~ Silent' /\ pc' \notin Checks
    BY <1>1, <1>7 DEF Silent, NextArtifact, Checks
  <2> QED
    BY <1>6, <1>7, <2>1 DEF ReportInv, Hidden
<1>8. CASE NextArtifact(pc, after) /\ UNCHANGED report /\ r = Ok
  <2>1. Silent' <=> Silent
    BY <1>8 DEF Silent
  <2>2. Silent => \A i \in Artifacts :
          /\ temp[i] # "absent" => state[i].temporary_name
          /\ backup[i] \notin {"absent", "empty"} => state[i].backup_name
          /\ pc = "clean" /\ i < n => temp[i] = "absent"
          /\ pc = "drop" => temp[i] = "absent"
          /\ pc = "drop" /\ i < n => backup[i] \in {"absent", "empty"}
          /\ pc = "clean" /\ ~ completed => backup[i] \in {"absent", "empty"}
    BY <1>1 DEF ReportInv, Hidden
  <2>3. Silent => \A i \in Artifacts :
          /\ temp'[i] # "absent" => state'[i].temporary_name
          /\ backup'[i] \notin {"absent", "empty"} => state'[i].backup_name
          /\ pc = "clean" /\ i = n => temp'[i] = "absent"
          /\ pc = "drop" => temp'[i] = "absent"
          /\ pc = "drop" /\ i = n => backup'[i] \in {"absent", "empty"}
          /\ pc = "clean" /\ ~ completed => backup'[i] \in {"absent", "empty"}
          /\ i # n => temp'[i] = temp[i] /\ backup'[i] = backup[i]
    <3>1. CASE Clean
      BY <1>1, <1>2, <1>8, <2>2, <3>1
    <3>2. CASE DropBackup
      BY <1>1, <1>2, <1>8, <2>2, <3>2
    <3> QED
      BY <3>1, <3>2
  <2>4. CASE n < N /\ pc' = pc /\ n' = n + 1
    <3>1. \A i \in Artifacts : i < n + 1 => i = n \/ (i # n /\ i < n)
      BY <1>1 DEF Artifacts
    <3>2. Silent' => \A i \in Artifacts :
            /\ pc = "clean" /\ i < n + 1 => temp'[i] = "absent"
            /\ pc = "drop" /\ i < n + 1 => backup'[i] \in {"absent", "empty"}
      BY <2>1, <2>2, <2>3, <3>1
    <3>3. Hidden'
      BY <1>1, <2>1, <2>3, <2>4, <3>2 DEF Hidden, Checks
    <3> QED
      BY <1>6, <1>8, <3>3 DEF ReportInv
  <2>5. CASE ~ (n < N) /\ pc' = after /\ n' = 1
    <3>1. \A i \in Artifacts : (i = n \/ (i # n /\ i < n)) /\ ~ (i < 1)
      BY <1>1, <2>5, NAssumption DEF Artifacts
    <3>2. Silent' => \A i \in Artifacts :
            /\ temp'[i] = "absent"
            /\ pc = "drop" \/ ~ completed => backup'[i] \in {"absent", "empty"}
      BY <1>1, <2>1, <2>2, <2>3, <3>1
    <3>3. Hidden'
      BY <1>1, <2>1, <2>3, <2>5, <3>1, <3>2 DEF Hidden, Checks
    <3> QED
      BY <1>6, <1>8, <3>3 DEF ReportInv
  <2> QED
    BY <1>8, <2>4, <2>5 DEF NextArtifact
<1>9. r.raises \in {"MemoryError", "OSError"} \/ r = Ok
  OBVIOUS
<1>10. CASE r.raises = "MemoryError"
  BY <1>2, <1>3, <1>10 DEF CleanNext
<1>11. CASE r.raises = "OSError"
  BY <1>2, <1>7, <1>11 DEF CleanNext
<1>12. CASE r = Ok
  BY <1>2, <1>8, <1>12 DEF CleanNext
<1> QED
  BY <1>9, <1>10, <1>11, <1>12

LEMMA RecoverReport == ASSUME BaseInv, ReportInv, Recover PROVE ReportInv'
<1>1. /\ pc \in RecoverLoops /\ "MemoryError" \in report
      /\ UNCHANGED <<report, completed>> /\ pc' \in RecoverLoops \cup {"done"}
  BY DEF Recover, RecoverStat, RecoverUndo, RecoverRestore, RecoverTemporary, RecoverBackup,
     NextArtifact, PreviousArtifact, RecoverLoops, ReportInv, Message
<1>2. completed => report \cap {"failed", "rejected"} = {}
  BY DEF ReportInv, Message
<1> QED
  BY <1>1, <1>2, Excused

LEMMA CrashReport == ASSUME ReportInv, Crash PROVE ReportInv'
  BY Excused DEF Crash, ReportInv, Message

(* What the message and the flags say holds whatever fails. *)
LEMMA ReportStep == BaseInv /\ WholeFiles /\ ReportInv /\ [Next]_vars => ReportInv'
<1> SUFFICES ASSUME BaseInv, WholeFiles, ReportInv, [Next]_vars PROVE ReportInv'
  OBVIOUS
<1>1. CASE Check
  BY <1>1, CheckReport
<1>2. CASE Stage
  BY <1>2, StageReport
<1>3. CASE BackUp
  BY <1>3, BackUpReport
<1>4. CASE Commit
  BY <1>4, CommitReport
<1>5. CASE Rollback
  BY <1>5, StatReport, UndoReport, SecondLoopReport DEF Rollback
<1>6. CASE Clean \/ DropBackup
  BY <1>6, CleanUpReport
<1>7. CASE Recover
  BY <1>7, RecoverReport
<1>8. CASE Crash
  BY <1>8, CrashReport
<1>9. CASE UNCHANGED vars
  BY <1>9, ReportStays
<1> QED
  BY <1>1, <1>2, <1>3, <1>4, <1>5, <1>6, <1>7, <1>8, <1>9 DEF Next, Step, Finished

LEMMA ReportInvariant == Spec => [](BaseInv /\ ReportInv)
<1>1. Init => ReportInv
  BY ReportInit
<1>2. BaseInv /\ WholeFiles /\ ReportInv /\ [Next]_vars => ReportInv'
  BY ReportStep
<1> QED
  BY <1>1, <1>2, WholeInvariant, PTL DEF Spec

(* Whatever fails, and in whatever order: an error that does not say that   *)
(* the rollback failed means that every destination is as it was, no error, *)
(* or one of the clean-up alone, that every destination is new. *)
THEOREM MessagesAreHonest == Spec => []HonestReport
<1>1. BaseInv /\ ReportInv => HonestReport
  <2> SUFFICES ASSUME BaseInv, ReportInv, pc = "done", Trusted
               PROVE  IF "failed" \in report \/ "rejected" \in report
                      THEN dest = original ELSE AllNew
    BY DEF HonestReport, Trusted
  <2>1. CASE completed
    BY <2>1 DEF BaseInv, Staged, ReportInv, Message
  <2>2. CASE ~ completed
    BY <2>2 DEF ReportInv, WayBack, Message, Trusted
  <2> QED
    BY <2>1, <2>2
<1> QED
  BY <1>1, ReportInvariant, PTL

(* A message that mentions no failed clean-up and no failed rollback means  *)
(* that no staged file and no copy of an original stays under a hidden name *)
(* (an empty reservation may). *)
THEOREM SilenceMeansNoLeftovers == Spec => []LeftoversReported
<1>1. ReportInv => LeftoversReported
  BY DEF ReportInv, Hidden, LeftoversReported, Silent
<1> QED
  BY <1>1, ReportInvariant, PTL

-----------------------------------------------------------------------------
(* One failing call at most.  After it no other call fails, so that both    *)
(* recoveries run to their ends.                                            *)
Failed == \/ pc \in RecoverLoops \cup {"stageAbort", "reserveAbort", "undo", "restore"}
          \/ pc = "clean" /\ ~ completed
          \/ "cleanupFailed" \in report

OneMessage ==
  /\ Failed => faults = MaxFaults
  /\ pc \in {"undo", "restore"} \/ (pc = "clean" /\ ~ completed) => report = {"failed"}
  /\ pc \in RecoverLoops => report = {"MemoryError"}

(* The recovery after a MemoryError finds and leaves what the rollback does. *)
SecondWay ==
  /\ pc = "recoverUndo" => \A i \in Artifacts : IF i > n THEN Undone(i) ELSE Undoable(i)
  /\ pc = "recoverRestore" => \A i \in Artifacts :
       IF i > n THEN dest[i] = original[i] ELSE Undone(i)
  /\ pc \in {"recoverTemp", "recoverBackup", "done"} /\ ~ completed => dest = original
  /\ pc \in {"recoverUndo", "recoverRestore"} => found # "unknown"
  /\ pc = "recoverUndo" /\ found # "unasked" => found = Answer(temp[n])

(* Where a staged file or a backup can still be. *)
MayHaveTemp(i) ==
  /\ state[i].temporary_name \/ (pc \in {"stageWrite", "stageAbort"} /\ i = n)
  /\ pc \notin {"drop", "done"}
  /\ pc \in {"clean", "recoverTemp"} => ~ (i < n)
  /\ pc = "recoverBackup" => i > n
MayHaveBackup(i) ==
  /\ state[i].backup_name \/ (pc \in {"reserveClose", "reserveAbort"} /\ i = n)
  /\ pc # "done"
  /\ pc \in {"restore", "recoverRestore"} => ~ (i > n)
  /\ pc \in {"clean", "recoverTemp", "recoverBackup"} => completed
  /\ pc \in {"drop", "recoverTemp", "recoverBackup"} => ~ (i < n)

AllKnown ==
  "cleanupFailed" \notin report /\ pc # "crashed" => \A i \in Artifacts :
    /\ temp[i] # "absent" => MayHaveTemp(i)
    /\ backup[i] # "absent" => MayHaveBackup(i)

OneFault == OneMessage /\ SecondWay /\ AllKnown

LEMMA CallOnce ==
  ASSUME MaxFaults <= 1, TypeOK, NEW r, Call(r)
  PROVE  \/ r = Ok /\ UNCHANGED faults
         \/ r \in Faults /\ faults # MaxFaults /\ faults' = MaxFaults
  BY BoundAssumption DEF Call, TypeOK

LEMMA OneFaultInit == Init => OneFault
  BY DEF Init, OneFault, OneMessage, SecondWay, AllKnown, Failed, RecoverLoops

(* The transaction goes on, ... *)
LEMMA GoesOn ==
  ASSUME pc' \in Checks \cup StageLoop \cup BackupLoop \cup {"commit"}, report' = {},
         pc' \in {"stageAbort", "reserveAbort"} => faults' = MaxFaults,
         \A i \in Artifacts :
           /\ temp'[i] # "absent" =>
                state'[i].temporary_name \/ (pc' \in {"stageWrite", "stageAbort"} /\ i = n')
           /\ backup'[i] # "absent" =>
                state'[i].backup_name \/ (pc' \in {"reserveClose", "reserveAbort"} /\ i = n')
  PROVE  OneFault'
<1> USE DEF Checks, StageLoop, BackupLoop, RecoverLoops
<1>1. OneMessage' /\ SecondWay'
  BY DEF OneMessage, SecondWay, Failed
<1>2. AllKnown'
  BY DEF AllKnown, MayHaveTemp, MayHaveBackup
<1> QED
  BY <1>1, <1>2 DEF OneFault

(* ... or one of the two recoveries begins, with flags that know every file. *)
LEMMA RecoveryBegins ==
  ASSUME \/ pc' = "undo" /\ report' = {"failed"}
         \/ pc' = "recoverUndo" /\ report' = {"MemoryError"},
         n' = N, ~ completed', found' = "unasked", faults' = MaxFaults,
         \A i \in Artifacts :
           /\ Undoable(i)'
           /\ temp'[i] # "absent" => state'[i].temporary_name
           /\ backup'[i] # "absent" => state'[i].backup_name
  PROVE  OneFault'
<1>1. \A i \in Artifacts : ~ (i > n')
  BY NAssumption DEF Artifacts
<1>2. OneMessage' /\ SecondWay'
  BY <1>1 DEF OneMessage, SecondWay, Failed, RecoverLoops
<1>3. AllKnown'
  BY DEF AllKnown, MayHaveTemp, MayHaveBackup
<1> QED
  BY <1>2, <1>3 DEF OneFault

LEMMA RaiseBegins ==
  ASSUME NEW kind \in {"OSError", "MemoryError"}, Raise(kind), report = {}, ~ completed,
         ~ completed', found' = "unasked", faults' = MaxFaults,
         \A i \in Artifacts :
           /\ Undoable(i)'
           /\ temp'[i] # "absent" => state'[i].temporary_name
           /\ backup'[i] # "absent" => state'[i].backup_name
  PROVE  OneFault'
  BY RecoveryBegins DEF Raise, RaiseMemoryError

LEMMA CheckOnce == ASSUME BaseInv, ReportInv, Check PROVE OneFault'
<1>1. UNCHANGED <<original, files, state, found, completed>> /\ pc \in Checks
  BY DEF Check, InspectDirectory, RejectInputAlias, Checks
<1>2. ~ completed /\ found = "unasked" /\ report = {} /\ NoLeftovers
      /\ \A i \in Artifacts : InPlace(i)
  BY <1>1 DEF BaseInv, Completion, FoundIsTrue, AfterCommit, Checks, Ended, ReportInv, Message,
     Hidden, WayBack
<1>3. NoLeftovers' /\ dest' = original'
  BY <1>1, <1>2 DEF NoLeftovers, BaseInv, TypeOK, FilesOK, InPlace, files
<1>4. CASE pc' = "done" /\ report' \in {{"MemoryError"}, {"rejected"}}
  <2>1. OneMessage' /\ SecondWay'
    BY <1>3, <1>4 DEF OneMessage, SecondWay, Failed, RecoverLoops
  <2>2. AllKnown'
    BY <1>3 DEF AllKnown, NoLeftovers
  <2> QED
    BY <2>1, <2>2 DEF OneFault
<1>5. CASE pc' \in {"directories", "aliases", "stageOpen"} /\ UNCHANGED report
  BY <1>2, <1>3, <1>5, GoesOn DEF NoLeftovers, Checks, StageLoop, BackupLoop
<1> QED
  BY <1>4, <1>5, CallFacts DEF Check, InspectDirectory, RejectInputAlias, CheckFails, Reject,
     StopWith, NextArtifact

LEMMA StageOnce == ASSUME MaxFaults <= 1, BaseInv, ReportInv, OneFault, Stage PROVE OneFault'
<1> USE CallFacts DEF BaseInv, TypeOK, FilesOK, FlagsOK, ControlOK
<1>1. UNCHANGED <<original, dest, backup, found, completed>> /\ pc \in StageLoop
  BY DEF Stage, StageOpen, StageWrite, StageAbort, StageLoop
<1>2. ~ completed /\ found = "unasked" /\ n \in Artifacts /\ report = {}
  BY <1>1 DEF Completion, FoundIsTrue, AfterCommit, StageLoop, Ended, ReportInv, Message
<1>3. \A i \in Artifacts :
        /\ InPlace(i)
        /\ temp[i] # "absent" =>
             state[i].temporary_name \/ (pc \in {"stageWrite", "stageAbort"} /\ i = n)
        /\ backup[i] # "absent" => state[i].backup_name
  BY <1>1, <1>2 DEF ReportInv, WayBack, OneFault, AllKnown, MayHaveTemp, MayHaveBackup, StageLoop
<1>4. state' = state \/ state' = [state EXCEPT ![n].temporary_name = TRUE]
  BY DEF Stage, StageOpen, StageWrite, StageAbort
<1>5. \A i \in Artifacts : /\ InPlace(i)' /\ Undoable(i)'
                           /\ backup'[i] # "absent" => state'[i].backup_name
  BY <1>1, <1>3, <1>4 DEF InPlace, Undoable
<1>6. CASE StageOpen
  <2> PICK r \in OpenResult :
        /\ Call(r)
        /\ temp' = IF r.done THEN [temp EXCEPT ![n] = "partial"] ELSE temp
        /\ \/ r = Ok /\ pc' = "stageWrite" /\ UNCHANGED <<n, report>>
           \/ r # Ok /\ pc' = "stageAbort" /\ UNCHANGED <<n, report>>
           \/ ~ r.done /\ r # Ok /\ Raise(r.raises)
    BY <1>6 DEF StageOpen
  <2>1. UNCHANGED state /\ pc = "stageOpen" /\ (r # Ok => faults' = MaxFaults)
    BY <1>6, CallOnce DEF StageOpen
  <2>2. \A i \in Artifacts : temp'[i] # "absent" => state'[i].temporary_name \/ i = n
    BY <1>3, <2>1
  <2>3. CASE pc' \in {"stageWrite", "stageAbort"} /\ UNCHANGED <<n, report>>
    BY <1>2, <1>5, <2>1, <2>2, <2>3, GoesOn DEF StageLoop
  <2>4. CASE ~ r.done /\ r # Ok /\ Raise(r.raises)
    <3>1. \A i \in Artifacts : temp'[i] # "absent" => state'[i].temporary_name
      BY <1>3, <2>1, <2>4
    <3> QED
      BY <1>1, <1>2, <1>5, <2>1, <2>4, <3>1, RaiseBegins DEF OpenResult
  <2> QED
    BY <2>3, <2>4
<1>7. CASE StageWrite
  <2>1. \A i \in Artifacts : temp'[i] # "absent" => state'[i].temporary_name \/ i = n
    <3>1. \A i \in Artifacts : i # n => temp'[i] = temp[i] /\ state'[i] = state[i]
      BY <1>2, <1>4, <1>7 DEF StageWrite
    <3> QED
      BY <1>3, <3>1
  <2>2. CASE pc' = "stageAbort" /\ UNCHANGED <<n, report>> /\ faults' = MaxFaults
    BY <1>2, <1>5, <2>1, <2>2, GoesOn DEF StageLoop
  <2>3. CASE pc' \in {"stageOpen", "backupStat"} /\ state'[n].temporary_name /\ UNCHANGED report
    <3>1. \A i \in Artifacts : temp'[i] # "absent" => state'[i].temporary_name
      BY <2>1, <2>3
    <3> QED
      BY <1>2, <1>5, <2>3, <3>1, GoesOn DEF StageLoop, BackupLoop
  <2>4. PICK r \in Faults \cup {Ok} :
          /\ Call(r) 
          /\ IF r = Ok
             THEN /\ state' = [state EXCEPT ![n].temporary_name = TRUE]
                  /\ pc' \in {"stageOpen", "backupStat"}
             ELSE pc' = "stageAbort" /\ UNCHANGED n
    BY <1>7 DEF StageWrite, NextArtifact
  <2>5. UNCHANGED report /\ (r # Ok => faults' = MaxFaults)
    BY <1>7, <2>4, CallOnce DEF StageWrite
  <2> QED
    BY <1>2, <2>2, <2>3, <2>4, <2>5
<1>8. CASE StageAbort
  <2>1. faults = MaxFaults
    BY <1>8 DEF StageAbort, OneFault, OneMessage, Failed
  <2>2. UNCHANGED faults /\ temp' = [temp EXCEPT ![n] = "absent"] /\ UNCHANGED state
        /\ \/ RaiseMemoryError
           \/ report' = {"failed"} /\ pc' = "undo" /\ n' = N
    BY <1>2, <1>8, <2>1, CallOnce DEF StageAbort
  <2>3. \A i \in Artifacts : temp'[i] # "absent" => state'[i].temporary_name
    BY <1>2, <1>3, <2>2
  <2> QED
    BY <1>1, <1>2, <1>5, <2>1, <2>2, <2>3, RecoveryBegins DEF RaiseMemoryError
<1> QED
  BY <1>6, <1>7, <1>8 DEF Stage

LEMMA BackUpOnce ==
  ASSUME MaxFaults <= 1, BaseInv, WholeFiles, ReportInv, OneFault, BackUp
  PROVE  OneFault'
<1> USE CallFacts DEF BaseInv, TypeOK, FilesOK, FlagsOK, ControlOK
<1>1. UNCHANGED <<original, temp, found, completed>> /\ pc \in BackupLoop
  <2>1. CASE BackupStat
    BY <2>1 DEF BackupStat, files, BackupLoop
  <2>2. CASE ReserveOpen \/ ReserveClose
    BY <2>2 DEF ReserveOpen, ReserveClose, files, BackupLoop
  <2>3. CASE ReserveAbort \/ BackupRename
    BY <2>3 DEF ReserveAbort, BackupRename, BackupLoop
  <2> QED
    BY <2>1, <2>2, <2>3 DEF BackUp
<1>2. ~ completed /\ found = "unasked" /\ n \in Artifacts /\ report = {}
  BY <1>1 DEF Completion, FoundIsTrue, AfterCommit, BackupLoop, Ended, ReportInv, Message
<1>3. \A i \in Artifacts :
        /\ Undoable(i) /\ state[i].temporary_name
        /\ i < n => Ready(i)
        /\ ~ (i < n) => InPlace(i)
        /\ backup[i] # "absent" =>
             state[i].backup_name \/ (pc \in {"reserveClose", "reserveAbort"} /\ i = n)
  BY <1>1, <1>2 DEF ReportInv, WayBack, Undoable, Ready, OneFault, AllKnown, MayHaveBackup,
     BackupLoop
<1>4. InPlace(n) /\ (pc # "backupStat" => original[n] # "absent")
  <2>1. ~ (n < n)
    BY <1>2 DEF Artifacts
  <2> QED
    BY <1>1, <1>2, <1>3, <2>1 DEF Forward
(* What the steps share. *)
<1>5. ASSUME \A i \in Artifacts :
               IF i # n
               THEN dest'[i] = dest[i] /\ backup'[i] = backup[i] /\ state'[i] = state[i]
               ELSE state'[i].temporary_name /\ (InPlace(i)' \/ SetAside(i)')
      PROVE  \A i \in Artifacts :
               /\ Undoable(i)' /\ state'[i].temporary_name
               /\ i # n /\ backup'[i] # "absent" => state'[i].backup_name
  <2>1. \A i \in Artifacts : i # n => Undoable(i)'
    BY <1>1, <1>3, <1>5 DEF Undoable, InPlace, SetAside, Replaced
  <2>2. \A i \in Artifacts : i = n => Undoable(i)'
    BY <1>5 DEF Undoable
  <2> QED
    BY <1>3, <1>5, <2>1, <2>2
<1>6. CASE BackupStat
  <2>1. UNCHANGED <<dest, backup, state>> /\ pc = "backupStat"
    BY <1>6 DEF BackupStat, files
  <2>2. \A i \in Artifacts : i = n => InPlace(i)'
    BY <1>1, <1>4, <2>1 DEF InPlace
  <2>3. \A i \in Artifacts : /\ Undoable(i)' /\ state'[i].temporary_name
                             /\ backup'[i] # "absent" => state'[i].backup_name
    BY <1>3, <1>5, <2>1, <2>2
  <2> PICK r \in Faults \cup {Ok} :
        /\ Call(r)
        /\ \/ r # Ok /\ Raise(r.raises)
           \/ NextArtifact("backupStat", "commit") /\ UNCHANGED report
           \/ pc' = "reserveOpen" /\ UNCHANGED <<n, report>>
    BY <1>6 DEF BackupStat
  <2>4. CASE r # Ok /\ Raise(r.raises)
    BY <1>1, <1>2, <2>3, <2>4, CallOnce, RaiseBegins
  <2>5. CASE pc' \in {"backupStat", "commit", "reserveOpen"} /\ UNCHANGED report
    BY <1>2, <2>3, <2>5, GoesOn DEF BackupLoop
  <2> QED
    BY <2>4, <2>5 DEF NextArtifact
<1>7. CASE ReserveOpen
  <2> PICK r \in OpenResult :
        /\ Call(r)
        /\ backup' = IF r.done THEN [backup EXCEPT ![n] = "empty"] ELSE backup
        /\ \/ r = Ok /\ pc' = "reserveClose" /\ UNCHANGED <<n, report>>
           \/ r # Ok /\ pc' = "reserveAbort" /\ UNCHANGED <<n, report>>
           \/ ~ r.done /\ r # Ok /\ Raise(r.raises)
    BY <1>7 DEF ReserveOpen
  <2>1. UNCHANGED <<dest, state>> /\ pc = "reserveOpen" /\ (r # Ok => faults' = MaxFaults)
    BY <1>7, CallOnce DEF ReserveOpen
  <2>2. \A i \in Artifacts : i = n => InPlace(i)'
    BY <1>1, <1>4, <2>1 DEF InPlace
  <2>3. \A i \in Artifacts : /\ Undoable(i)' /\ state'[i].temporary_name
                             /\ i # n /\ backup'[i] # "absent" => state'[i].backup_name
    BY <1>3, <1>5, <2>1, <2>2
  <2>4. CASE pc' \in {"reserveClose", "reserveAbort"} /\ UNCHANGED <<n, report>>
    BY <1>2, <2>1, <2>3, <2>4, GoesOn DEF BackupLoop
  <2>5. CASE ~ r.done /\ r # Ok /\ Raise(r.raises)
    <3>1. backup[n] # "absent" => state[n].backup_name
      BY <1>2, <1>3, <2>1
    <3>2. \A i \in Artifacts : backup'[i] # "absent" => state'[i].backup_name
      BY <2>1, <2>3, <2>5, <3>1
    <3> QED
      BY <1>1, <1>2, <2>1, <2>3, <2>5, <3>2, RaiseBegins DEF OpenResult
  <2> QED
    BY <2>4, <2>5
<1>8. CASE ReserveClose
  <2>1. UNCHANGED <<dest, backup, n, report>> /\ original[n] # "absent" /\ pc = "reserveClose"
        /\ \/ pc' = "reserveAbort" /\ UNCHANGED state /\ faults' = MaxFaults
           \/ /\ pc' = "backupRename"
              /\ state' = [state EXCEPT ![n].backup_name = TRUE, ![n].backup_started = TRUE]
    BY <1>4, <1>8, CallOnce DEF ReserveClose, files
  <2>2. \A i \in Artifacts : IF i # n THEN state'[i] = state[i]
                             ELSE state'[i].temporary_name /\ InPlace(i)'
    BY <1>1, <1>2, <1>3, <1>4, <2>1 DEF InPlace
  <2>3. \A i \in Artifacts : /\ Undoable(i)' /\ state'[i].temporary_name
                             /\ i # n /\ backup'[i] # "absent" => state'[i].backup_name
    BY <1>5, <2>1, <2>2
  <2>4. pc' = "backupRename" => state'[n].backup_name
    BY <1>2, <2>1
  <2> QED
    BY <1>2, <2>1, <2>3, <2>4, GoesOn DEF BackupLoop
<1>9. CASE ReserveAbort
  <2>1. faults = MaxFaults /\ pc = "reserveAbort"
    BY <1>9 DEF ReserveAbort, OneFault, OneMessage, Failed
  <2>2. UNCHANGED <<faults, dest, state>> /\ backup' = [backup EXCEPT ![n] = "absent"]
        /\ Raise(pending)
    BY <1>9, <2>1, CallOnce DEF ReserveAbort
  <2>3. \A i \in Artifacts : i = n => InPlace(i)'
    BY <1>1, <1>4, <2>2 DEF InPlace
  <2>4. \A i \in Artifacts : /\ Undoable(i)' /\ state'[i].temporary_name
                             /\ i # n /\ backup'[i] # "absent" => state'[i].backup_name
    BY <1>3, <1>5, <2>2, <2>3
  <2>5. \A i \in Artifacts : backup'[i] # "absent" => state'[i].backup_name
    BY <1>2, <2>2, <2>4
  <2>6. pending \in {"OSError", "MemoryError"}
    BY <2>1 DEF RaisesWhatFails
  <2> QED
    BY <1>1, <1>2, <2>1, <2>2, <2>4, <2>5, <2>6, RaiseBegins
<1>10. CASE BackupRename
  <2>1. state[n].backup_name /\ state[n].backup_started /\ original[n] # "absent"
        /\ pc = "backupRename"
    BY <1>4, <1>10 DEF BackupRename, Forward
  <2> PICK r \in Faults \cup {Ok} :
        /\ Call(r)
        /\ IF r.done THEN /\ backup' = [backup EXCEPT ![n] = dest[n]]
                          /\ dest' = [dest EXCEPT ![n] = "absent"]
                     ELSE UNCHANGED <<dest, backup>>
        /\ IF r = Ok
           THEN /\ state' = [state EXCEPT ![n].backup_completed = TRUE]
                /\ NextArtifact("backupStat", "commit") /\ UNCHANGED report
           ELSE UNCHANGED state /\ Raise(r.raises)
    BY <1>10 DEF BackupRename
  <2>2. \A i \in Artifacts :
          /\ state'[i].temporary_name
          /\ state'[i].backup_name = state[i].backup_name
          /\ i # n => /\ state'[i] = state[i] /\ dest'[i] = dest[i]
                      /\ backup'[i] = backup[i]
    <3>1. state' = state \/ state' = [state EXCEPT ![n].backup_completed = TRUE]
      OBVIOUS
    <3>2. \A i \in Artifacts : /\ state'[i].temporary_name = state[i].temporary_name
                               /\ state'[i].backup_name = state[i].backup_name
                               /\ i # n => state'[i] = state[i]
      BY <1>2, <3>1
    <3>3. \A i \in Artifacts : i # n => dest'[i] = dest[i] /\ backup'[i] = backup[i]
      BY <1>2
    <3> QED
      BY <1>3, <3>2, <3>3
  <2>3. \A i \in Artifacts : i = n => InPlace(i)' \/ SetAside(i)'
    BY <1>1, <1>2, <1>4, <2>1 DEF InPlace, SetAside
  <2>4. \A i \in Artifacts : /\ Undoable(i)' /\ state'[i].temporary_name
                             /\ backup'[i] # "absent" => state'[i].backup_name
    BY <1>5, <2>1, <2>2, <2>3
  <2>5. CASE r = Ok
    <3>1. pc' \in {"backupStat", "commit"} /\ UNCHANGED report
      BY <2>5 DEF NextArtifact
    <3> QED
      BY <1>2, <2>4, <3>1, GoesOn DEF BackupLoop
  <2>6. CASE r # Ok
    BY <1>1, <1>2, <2>4, <2>6, CallOnce, RaiseBegins
  <2> QED
    BY <2>5, <2>6
<1> QED
  BY <1>6, <1>7, <1>8, <1>9, <1>10 DEF BackUp

LEMMA CommitOnce == ASSUME MaxFaults <= 1, BaseInv, ReportInv, OneFault, Commit PROVE OneFault'
<1> USE CallFacts DEF BaseInv, TypeOK, FilesOK, FlagsOK, ControlOK
<1>1. UNCHANGED <<original, backup, found>> /\ pc = "commit" /\ n \in Artifacts
  BY DEF Commit
<1>2. ~ completed /\ found = "unasked" /\ temp[n] = "new" /\ report = {} /\ Ready(n)
  <2>1. ~ (n < n)
    BY <1>1 DEF Artifacts
  <2> QED
    BY <1>1, <2>1 DEF Completion, FoundIsTrue, Staged, AfterCommit, Ended, ReportInv, Message,
       WayBack
<1>3. \A i \in Artifacts :
        /\ Undoable(i) /\ state[i].temporary_name
        /\ backup[i] # "absent" => state[i].backup_name
  BY <1>1, <1>2 DEF ReportInv, WayBack, Undoable, Ready, OneFault, AllKnown, MayHaveBackup
<1>4. PICK r \in Faults \cup {Ok} :
        /\ Call(r)
        /\ IF r.done THEN /\ dest' = [dest EXCEPT ![n] = temp[n]]
                          /\ temp' = [temp EXCEPT ![n] = "absent"]
                     ELSE UNCHANGED <<dest, temp>>
        /\ IF r = Ok
           THEN /\ state' = [state EXCEPT ![n].commit_started = TRUE,
                                          ![n].commit_completed = TRUE]
                /\ NextArtifact("commit", "clean")
                /\ completed' = (n = N) /\ UNCHANGED report
           ELSE /\ state' = [state EXCEPT ![n].commit_started = TRUE]
                /\ Raise(r.raises) /\ UNCHANGED completed
  BY DEF Commit
<1>5. \A i \in Artifacts : /\ state'[i].temporary_name = state[i].temporary_name
                           /\ state'[i].backup_name = state[i].backup_name
                           /\ i # n => /\ state'[i] = state[i] /\ dest'[i] = dest[i]
                                       /\ temp'[i] = temp[i]
  BY <1>1, <1>4
<1>6. \A i \in Artifacts : i # n /\ Undoable(i) => Undoable(i)'
  BY <1>1, <1>5 DEF Undoable, InPlace, SetAside, Replaced
<1>7. \A i \in Artifacts : i = n => Replaced(i)'
  BY <1>1, <1>2, <1>3, <1>4 DEF Ready, InPlace, SetAside, Replaced
<1>8. \A i \in Artifacts :
        /\ Undoable(i)'
        /\ state'[i].temporary_name
        /\ backup'[i] # "absent" => state'[i].backup_name
  BY <1>1, <1>3, <1>5, <1>6, <1>7 DEF Undoable
<1>9. CASE r # Ok
  BY <1>1, <1>2, <1>4, <1>8, <1>9, CallOnce, RaiseBegins
<1>10. CASE r = Ok /\ pc' = "commit"
  BY <1>1, <1>2, <1>4, <1>8, <1>10, GoesOn
<1>11. CASE r = Ok /\ pc' = "clean" /\ n' = 1 /\ completed'
  <2>1. OneMessage' /\ SecondWay'
    BY <1>2, <1>4, <1>11 DEF OneMessage, SecondWay, Failed, RecoverLoops
  <2>2. \A i \in Artifacts : ~ (i < n')
    BY <1>11 DEF Artifacts
  <2>3. AllKnown'
    BY <1>8, <1>11, <2>2 DEF AllKnown, MayHaveTemp, MayHaveBackup
  <2> QED
    BY <2>1, <2>3 DEF OneFault
<1>12. CASE r = Ok
  <2>1. n < N \/ n = N
    BY <1>1, NAssumption DEF Artifacts
  <2> QED
    BY <1>4, <1>10, <1>11, <1>12, <2>1, NAssumption DEF NextArtifact
<1> QED
  BY <1>9, <1>12

(* What the loops of both recoveries meet at an artifact. *)
LEMMA FirstLoop ==
  ASSUME BaseInv, pc \in {"undo", "recoverUndo"}, Undoable(n), found # "unknown",
         AsksTemporary(n) => found # "unasked", found # "unasked" => found = Answer(temp[n])
  PROVE  IF Committed(n) THEN Replaced(n) ELSE Undone(n)
<1> USE DEF BaseInv, TypeOK, FilesOK, FlagsOK, ControlOK
<1>1. CASE InPlace(n) \/ SetAside(n)
  BY <1>1 DEF Committed, InPlace, SetAside, FoundIsTrue, AsksTemporary, Undone
<1>2. CASE Replaced(n) /\ ~ Committed(n)
  <2>1. AsksTemporary(n) /\ found = "present"
    BY <1>2 DEF Committed, Replaced, AsksTemporary
  <2>2. temp[n] # "absent"
    BY <2>1 DEF Answer
  <2> QED
    BY <1>2, <2>1, <2>2 DEF Committed, Replaced, Undone
<1> QED
  BY <1>1, <1>2 DEF Undoable

LEMMA SecondLoop ==
  ASSUME BaseInv, pc \in {"restore", "recoverRestore"}, Undone(n), found # "unknown",
         AsksDestination(n) => found # "unasked", backup[n] # "absent" => state[n].backup_name
  PROVE  IF RestoresBackup(n) THEN backup[n] = original[n] /\ backup[n] # "absent"
         ELSE dest[n] = original[n] /\ (backup[n] # "absent" => DiscardsReservation(n))
<1> USE DEF BaseInv, TypeOK, FilesOK, FlagsOK, ControlOK
<1>1. found \in {"absent", "present"} => found = Answer(dest[n])
  BY DEF FoundIsTrue
<1>2. CASE /\ dest[n] = original[n] /\ ~ state[n].backup_completed
           /\ original[n] = "absent" => ~ state[n].backup_name
  BY <1>1, <1>2 DEF RestoresBackup, DiscardsReservation, AsksDestination, Answer
<1>3. CASE /\ original[n] # "absent" /\ dest[n] = "absent" /\ backup[n] = original[n]
           /\ state[n].backup_name /\ state[n].backup_started
  BY <1>1, <1>3 DEF RestoresBackup, AsksDestination, Answer
<1> QED
  BY <1>2, <1>3 DEF Undone

LEMMA RollbackOnce ==
  ASSUME MaxFaults <= 1, BaseInv, ReportInv, OneFault, Rollback
  PROVE  OneFault'
<1> USE CallFacts DEF BaseInv, TypeOK, FilesOK, FlagsOK, ControlOK
<1>1. pc \in {"undo", "restore"} /\ n \in Artifacts /\ UNCHANGED <<original, temp, completed>>
  BY DEF Rollback, UndoStat, RestoreStat, RollbackStat, Undo, Restore, Discard, files
<1>2. report = {"failed"} /\ faults = MaxFaults /\ ~ completed /\ Trusted
  BY <1>1 DEF OneFault, OneMessage, Failed, Completion, AfterCommit, Ended, Trusted
<1>3. \A i \in Artifacts :
        /\ temp[i] # "absent" => state[i].temporary_name
        /\ backup[i] # "absent" => state[i].backup_name /\ (pc = "restore" => ~ (i > n))
  BY <1>1, <1>2 DEF OneFault, AllKnown, MayHaveTemp, MayHaveBackup
<1>4. ASSUME pc' \in {"undo", "restore", "clean"}, UNCHANGED <<report, faults>>,
             \A i \in Artifacts :
               /\ temp'[i] # "absent" => state'[i].temporary_name
               /\ backup'[i] # "absent" =>
                    /\ state'[i].backup_name /\ pc' # "clean"
                    /\ pc' = "restore" => ~ (i > n')
               /\ pc' = "clean" => ~ (i < n')
      PROVE  OneFault'
  <2>1. OneMessage' /\ SecondWay'
    BY <1>1, <1>2, <1>4 DEF OneMessage, SecondWay, Failed, RecoverLoops
  <2>2. AllKnown'
    BY <1>4 DEF AllKnown, MayHaveTemp, MayHaveBackup
  <2> QED
    BY <2>1, <2>2 DEF OneFault
<1>5. CASE UndoStat \/ RestoreStat
  <2>1. UNCHANGED <<backup, state, pc, n, report, faults>>
    BY <1>2, <1>5, CallOnce DEF UndoStat, RestoreStat, RollbackStat, files
  <2> QED
    BY <1>1, <1>3, <1>4, <2>1
<1>6. CASE Undo
  <2>1. /\ UNCHANGED <<backup, faults>> /\ PreviousArtifact("undo", "restore", N)
        /\ UNCHANGED report
        /\ state' = state \/ state' = [state EXCEPT ![n].commit_started = FALSE,
                                                    ![n].commit_completed = FALSE]
    BY <1>2, <1>6, CallOnce DEF Undo, RollbackNext
  <2>2. \A i \in Artifacts : /\ state'[i].temporary_name = state[i].temporary_name
                             /\ state'[i].backup_name = state[i].backup_name
    BY <2>1
  <2>3. pc' \in {"undo", "restore"} /\ (pc' = "restore" => n' = N)
    BY <2>1 DEF PreviousArtifact
  <2>4. \A i \in Artifacts : ~ (i > N)
    BY NAssumption DEF Artifacts
  <2> QED
    BY <1>1, <1>3, <1>4, <2>1, <2>2, <2>3, <2>4
<1>7. CASE Restore \/ Discard
  <2>1. pc = "restore" /\ (AsksDestination(n) => found # "unasked")
    BY <1>7 DEF Restore, Discard
  <2>2. Undone(n) /\ found # "unknown"
    <3>1. ~ (n > n)
      BY <1>1 DEF Artifacts
    <3> QED
      BY <1>1, <1>2, <2>1, <3>1 DEF ReportInv, WayBack, Message
  <2>3. IF RestoresBackup(n) THEN backup[n] = original[n] /\ backup[n] # "absent"
        ELSE backup[n] # "absent" => DiscardsReservation(n)
    BY <1>1, <1>3, <2>1, <2>2, SecondLoop
  <2>4. /\ UNCHANGED <<faults, report>> /\ PreviousArtifact("restore", "clean", 1)
        /\ backup' = [backup EXCEPT ![n] = "absent"] \/ (backup' = backup /\ backup[n] = "absent")
        /\ \A i \in Artifacts : /\ state'[i].temporary_name = state[i].temporary_name
                                /\ i # n => state'[i].backup_name = state[i].backup_name
    <3>1. CASE Restore
      <4>1. PICK r \in Faults \cup {Ok, Missing} :
              /\ IF backup[n] = "absent" THEN r = Missing /\ UNCHANGED faults ELSE Call(r)
              /\ IF r.done THEN /\ dest' = [dest EXCEPT ![n] = backup[n]]
                                /\ backup' = [backup EXCEPT ![n] = "absent"]
                           ELSE UNCHANGED <<dest, backup>>
              /\ state' = IF r = Ok
                          THEN [state EXCEPT ![n] = [NewState EXCEPT
                                                      !.temporary_name = state[n].temporary_name]]
                          ELSE state
              /\ RollbackNext(r, "restore", "clean", 1)
        BY <3>1 DEF Restore
      <4>2. r = Ok /\ UNCHANGED faults
        BY <1>2, <2>3, <3>1, <4>1, CallOnce DEF Restore
      <4>3. \A i \in Artifacts : /\ state'[i].temporary_name = state[i].temporary_name
                                 /\ i # n => state'[i].backup_name = state[i].backup_name
        BY <1>1, <4>1, <4>2 DEF NewState
      <4> QED
        BY <4>1, <4>2, <4>3 DEF RollbackNext
    <3>2. CASE Discard
      <4>1. PICK r \in Faults \cup {Ok} :
              /\ Call(r)
              /\ backup' = IF DiscardsReservation(n) /\ r.done
                           THEN [backup EXCEPT ![n] = "absent"] ELSE backup
              /\ state' = IF DiscardsReservation(n) /\ r = Ok
                          THEN [state EXCEPT ![n].backup_name = FALSE, ![n].backup_started = FALSE]
                          ELSE state
              /\ RollbackNext(r, "restore", "clean", 1)
        BY <3>2 DEF Discard
      <4>2. r = Ok /\ UNCHANGED faults
        BY <1>2, <4>1, CallOnce
      <4>3. \A i \in Artifacts : /\ state'[i].temporary_name = state[i].temporary_name
                                 /\ i # n => state'[i].backup_name = state[i].backup_name
        BY <1>1, <4>1
      <4> QED
        BY <2>3, <3>2, <4>1, <4>2, <4>3 DEF RollbackNext, Discard
    <3> QED
      BY <1>7, <3>1, <3>2
  <2>5. \A i \in Artifacts : IF i = n THEN backup'[i] = "absent" ELSE backup'[i] = backup[i]
    BY <1>1, <2>4
  <2>6. CASE pc' = "restore" /\ n' = n - 1
    <3>1. \A i \in Artifacts : i > n - 1 => i > n \/ i = n
      BY <1>1 DEF Artifacts
    <3> QED
      BY <1>1, <1>3, <1>4, <2>1, <2>4, <2>5, <2>6, <3>1
  <2>7. CASE pc' = "clean" /\ n' = 1 /\ ~ (n > 1)
    <3>1. \A i \in Artifacts : (i > n \/ i = n) /\ ~ (i < 1)
      BY <1>1, <2>7 DEF Artifacts
    <3> QED
      BY <1>1, <1>3, <1>4, <2>1, <2>4, <2>5, <2>7, <3>1
  <2> QED
    BY <2>4, <2>6, <2>7 DEF PreviousArtifact
<1> QED
  BY <1>5, <1>6, <1>7 DEF Rollback

LEMMA CleanUpOnce ==
  ASSUME MaxFaults <= 1, BaseInv, ReportInv, OneFault, Clean \/ DropBackup
  PROVE  OneFault'
<1> USE CallFacts DEF BaseInv, TypeOK, FilesOK, FlagsOK, ControlOK
<1> DEFINE after == IF pc = "clean" /\ completed THEN "drop" ELSE "done"
<1>1. /\ UNCHANGED <<original, dest, completed, found>> /\ n \in Artifacts
      /\ pc \in {"clean", "drop"} /\ (pc = "drop" => completed)
      /\ ~ completed => dest = original /\ report = {"failed"} /\ faults = MaxFaults
  <2>1. /\ UNCHANGED <<original, dest, completed, found>> /\ n \in Artifacts
        /\ pc \in {"clean", "drop"} /\ (pc = "drop" => completed)
    BY DEF Clean, DropBackup, Completion
  <2>2. ~ completed => report = {"failed"} /\ faults = MaxFaults
    BY <2>1 DEF OneFault, OneMessage, Failed
  <2> QED
    BY <2>1, <2>2 DEF ReportInv, WayBack, Trusted
<1>2. PICK r \in Faults \cup {Ok} :
        /\ Call(r) /\ CleanNext(r, pc, after)
        /\ \A i \in Artifacts :
             /\ state'[i].temporary_name = IF pc = "clean" /\ i = n /\ r = Ok THEN FALSE
                                           ELSE state[i].temporary_name
             /\ state'[i].backup_name = IF pc = "drop" /\ i = n /\ r = Ok THEN FALSE
                                        ELSE state[i].backup_name
             /\ temp'[i] = IF pc = "clean" /\ i = n /\ state[n].temporary_name /\ r.done
                           THEN "absent" ELSE temp[i]
             /\ backup'[i] = IF pc = "drop" /\ i = n /\ state[n].backup_name /\ r.done
                             THEN "absent" ELSE backup[i]
  <2>1. CASE Clean
    <3>1. PICK r \in Faults \cup {Ok} :
            /\ ~ state[n].temporary_name => r = Ok
            /\ Call(r)
            /\ temp' = IF state[n].temporary_name /\ r.done
                       THEN [temp EXCEPT ![n] = "absent"] ELSE temp
            /\ state' = IF r = Ok THEN [state EXCEPT ![n].temporary_name = FALSE] ELSE state
            /\ CleanNext(r, "clean", IF completed THEN "drop" ELSE "done")
      BY <2>1 DEF Clean
    <3>2. pc = "clean" /\ UNCHANGED backup
      BY <2>1 DEF Clean
    <3>3. CleanNext(r, pc, after)
      BY <3>1, <3>2
    <3>4. \A i \in Artifacts :
            /\ state'[i].temporary_name = IF i = n /\ r = Ok THEN FALSE
                                          ELSE state[i].temporary_name
            /\ state'[i].backup_name = state[i].backup_name
            /\ temp'[i] = IF i = n /\ state[n].temporary_name /\ r.done
                          THEN "absent" ELSE temp[i]
      BY <1>1, <3>1
    <3>5. \A i \in Artifacts :
             /\ state'[i].temporary_name = IF pc = "clean" /\ i = n /\ r = Ok THEN FALSE
                                           ELSE state[i].temporary_name
             /\ state'[i].backup_name = IF pc = "drop" /\ i = n /\ r = Ok THEN FALSE
                                        ELSE state[i].backup_name
             /\ temp'[i] = IF pc = "clean" /\ i = n /\ state[n].temporary_name /\ r.done
                           THEN "absent" ELSE temp[i]
             /\ backup'[i] = IF pc = "drop" /\ i = n /\ state[n].backup_name /\ r.done
                             THEN "absent" ELSE backup[i]
      BY <3>2, <3>4
    <3> QED
      BY <3>1, <3>3, <3>5
  <2>2. CASE DropBackup
    <3>1. PICK r \in Faults \cup {Ok} :
            /\ ~ state[n].backup_name => r = Ok
            /\ Call(r)
            /\ backup' = IF state[n].backup_name /\ r.done
                         THEN [backup EXCEPT ![n] = "absent"] ELSE backup
            /\ state' = IF state[n].backup_name /\ r = Ok
                        THEN [state EXCEPT ![n].backup_name = FALSE,
                                           ![n].backup_started = FALSE,
                                           ![n].backup_completed = FALSE]
                        ELSE state
            /\ CleanNext(r, "drop", "done")
      BY <2>2 DEF DropBackup
    <3>2. pc = "drop" /\ UNCHANGED temp
      BY <2>2 DEF DropBackup
    <3>3. CleanNext(r, pc, after)
      BY <3>1, <3>2
    <3>4. \A i \in Artifacts :
            /\ state'[i].backup_name = IF i = n /\ r = Ok THEN FALSE ELSE state[i].backup_name
            /\ state'[i].temporary_name = state[i].temporary_name
            /\ backup'[i] = IF i = n /\ state[n].backup_name /\ r.done
                            THEN "absent" ELSE backup[i]
      BY <1>1, <3>1
    <3>5. \A i \in Artifacts :
             /\ state'[i].temporary_name = IF pc = "clean" /\ i = n /\ r = Ok THEN FALSE
                                           ELSE state[i].temporary_name
             /\ state'[i].backup_name = IF pc = "drop" /\ i = n /\ r = Ok THEN FALSE
                                        ELSE state[i].backup_name
             /\ temp'[i] = IF pc = "clean" /\ i = n /\ state[n].temporary_name /\ r.done
                           THEN "absent" ELSE temp[i]
             /\ backup'[i] = IF pc = "drop" /\ i = n /\ state[n].backup_name /\ r.done
                             THEN "absent" ELSE backup[i]
      BY <3>2, <3>4
    <3> QED
      BY <3>1, <3>3, <3>5
  <2> QED
    BY <2>1, <2>2
<1>3. CASE r = Ok
  <2>1. UNCHANGED <<report, faults>> /\ NextArtifact(pc, after)
    BY <1>2, <1>3, CallOnce DEF CleanNext
  <2>2. OneMessage' /\ SecondWay'
    <3>1. pc' \in {"clean", "drop", "done"}
      BY <1>1, <2>1 DEF NextArtifact
    <3> QED
      BY <1>1, <2>1, <3>1 DEF OneFault, OneMessage, SecondWay, Failed, RecoverLoops
  <2>3. AllKnown'
    <3> SUFFICES ASSUME "cleanupFailed" \notin report, NEW i \in Artifacts
                 PROVE  /\ temp'[i] # "absent" => MayHaveTemp(i)'
                        /\ backup'[i] # "absent" => MayHaveBackup(i)'
      BY <2>1 DEF AllKnown
    <3>1. /\ temp[i] # "absent" => MayHaveTemp(i)
          /\ backup[i] # "absent" => MayHaveBackup(i)
      BY <1>1 DEF OneFault, AllKnown
    <3>2. CASE n < N /\ pc' = pc /\ n' = n + 1
      <4>1. i < n' => i < n \/ i = n
        BY <1>1, <3>2 DEF Artifacts
      <4> QED
        BY <1>1, <1>2, <1>3, <3>1, <3>2, <4>1 DEF MayHaveTemp, MayHaveBackup
    <3>3. CASE ~ (n < N) /\ pc' = after /\ n' = 1
      <4>1. (i < n \/ i = n) /\ ~ (i < n')
        BY <1>1, <3>3, NAssumption DEF Artifacts
      <4> QED
        BY <1>1, <1>2, <1>3, <3>1, <3>3, <4>1 DEF MayHaveTemp, MayHaveBackup
    <3> QED
      BY <2>1, <3>2, <3>3 DEF NextArtifact
  <2> QED
    BY <2>2, <2>3 DEF OneFault
<1>4. CASE r # Ok
  <2>1. faults' = MaxFaults /\ completed /\ "cleanupFailed" \notin report
    BY <1>1, <1>2, <1>4, CallOnce DEF OneFault, OneMessage, Failed
  <2>2. CASE r.raises = "OSError"
    <3>1. "cleanupFailed" \in report' /\ pc' \in {"clean", "drop", "done"}
      BY <1>1, <1>2, <2>2 DEF CleanNext, NextArtifact
    <3>2. OneMessage' /\ SecondWay'
      BY <1>1, <2>1, <3>1 DEF OneMessage, SecondWay, Failed, RecoverLoops
    <3> QED
      BY <3>1, <3>2 DEF OneFault, AllKnown
  <2>3. CASE r.raises = "MemoryError"
    <3>1. pc' = "recoverTemp" /\ n' = 1 /\ report' = {"MemoryError"}
      BY <1>2, <2>1, <2>3 DEF CleanNext, RaiseMemoryError
    <3>2. OneMessage' /\ SecondWay'
      BY <1>1, <2>1, <3>1 DEF OneMessage, SecondWay, Failed, RecoverLoops
    <3>3. \A i \in Artifacts : /\ temp[i] # "absent" => MayHaveTemp(i)
                               /\ backup[i] # "absent" => MayHaveBackup(i)
      BY <1>1, <2>1 DEF OneFault, AllKnown
    <3>4. \A i \in Artifacts : ~ (i < n')
      BY <3>1 DEF Artifacts
    <3>5. AllKnown'
      BY <1>1, <1>2, <1>4, <2>1, <3>1, <3>3, <3>4 DEF AllKnown, MayHaveTemp, MayHaveBackup
    <3> QED
      BY <3>2, <3>5 DEF OneFault
  <2> QED
    BY <1>4, <2>2, <2>3
<1> QED
  BY <1>3, <1>4

LEMMA RecoverOnce ==
  ASSUME MaxFaults <= 1, BaseInv, OneFault, Recover
  PROVE  OneFault'
<1> USE CallFacts DEF BaseInv, TypeOK, FilesOK, FlagsOK, ControlOK
<1>1. pc \in RecoverLoops /\ n \in Artifacts /\ UNCHANGED <<original, completed, report>>
  BY DEF Recover, RecoverStat, RecoverUndo, RecoverRestore, RecoverTemporary, RecoverBackup,
     RecoverLoops, files
<1>2. report = {"MemoryError"} /\ faults = MaxFaults
      /\ (pc \in {"recoverUndo", "recoverRestore"} => ~ completed)
  BY <1>1 DEF OneFault, OneMessage, Failed, Completion, AfterCommit, Ended
<1>3. \A i \in Artifacts : /\ temp[i] # "absent" => MayHaveTemp(i)
                           /\ backup[i] # "absent" => MayHaveBackup(i)
  BY <1>1, <1>2 DEF OneFault, AllKnown, RecoverLoops
<1>4. ASSUME UNCHANGED faults, pc' \in RecoverLoops \cup {"done"}, SecondWay',
             \A i \in Artifacts : /\ temp'[i] # "absent" => MayHaveTemp(i)'
                                  /\ backup'[i] # "absent" => MayHaveBackup(i)'
      PROVE  OneFault'
  <2>1. OneMessage'
    BY <1>1, <1>2, <1>4 DEF OneMessage, RecoverLoops
  <2> QED
    BY <1>4, <2>1 DEF OneFault, AllKnown
<1>5. CASE RecoverStat
  <2>1. /\ UNCHANGED <<dest, temp, backup, state, pc, n, faults>>
        /\ pc \in {"recoverUndo", "recoverRestore"}
        /\ found' = Answer(IF pc = "recoverUndo" THEN temp[n] ELSE dest[n])
    BY <1>2, <1>5, CallOnce DEF RecoverStat, Ask, files
  <2>2. \A i \in Artifacts : /\ Undone(i) => Undone(i)'
                             /\ Undoable(i) => Undoable(i)'
    BY <1>1, <2>1 DEF Undone, Undoable, InPlace, SetAside, Replaced
  <2>3. SecondWay'
    BY <1>1, <2>1, <2>2 DEF OneFault, SecondWay, Answer
  <2> QED
    BY <1>1, <1>3, <1>4, <2>1, <2>3 DEF MayHaveTemp, MayHaveBackup
<1>6. CASE RecoverUndo
  <2>1. /\ pc = "recoverUndo" /\ (AsksTemporary(n) => found # "unasked")
        /\ UNCHANGED <<temp, backup, faults>> /\ found' = "unasked"
        /\ PreviousArtifact("recoverUndo", "recoverRestore", N)
        /\ dest' = IF Committed(n) THEN [dest EXCEPT ![n] = "absent"] ELSE dest
        /\ state' = IF Committed(n)
                    THEN [state EXCEPT ![n].commit_started = FALSE, ![n].commit_completed = FALSE]
                    ELSE state
    <3>1. PICK r \in Faults \cup {Ok} :
            /\ Call(r)
            /\ dest' = IF Committed(n) /\ r.done THEN [dest EXCEPT ![n] = "absent"] ELSE dest
      BY <1>6 DEF RecoverUndo
    <3>2. r = Ok /\ UNCHANGED faults
      BY <1>2, <3>1, CallOnce
    <3>3. dest' = IF Committed(n) THEN [dest EXCEPT ![n] = "absent"] ELSE dest
      BY <3>1, <3>2
    <3> QED
      BY <1>6, <3>2, <3>3 DEF RecoverUndo
  <2>2. IF Committed(n) THEN Replaced(n) ELSE Undone(n)
    <3>1. ~ (n > n)
      BY <1>1 DEF Artifacts
    <3> QED
      BY <1>1, <2>1, <3>1, FirstLoop DEF OneFault, SecondWay
  <2>3. \A i \in Artifacts :
          /\ state'[i].temporary_name = state[i].temporary_name
          /\ state'[i].backup_name = state[i].backup_name
          /\ state'[i].backup_started = state[i].backup_started
          /\ state'[i].backup_completed = state[i].backup_completed
          /\ i # n => state'[i] = state[i] /\ dest'[i] = dest[i]
    <3>1. CASE Committed(n)
      BY <1>1, <2>1, <3>1
    <3>2. CASE ~ Committed(n)
      BY <1>1, <2>1, <3>2
    <3> QED
      BY <3>1, <3>2
  <2>4. \A i \in Artifacts : IF i = n THEN Undone(i)'
                             ELSE (Undone(i) => Undone(i)') /\ (Undoable(i) => Undoable(i)')
    <3>1. \A i \in Artifacts : i = n => Undone(i)'
      <4>1. CASE Committed(n)
        BY <1>1, <2>1, <2>2, <2>3, <4>1 DEF Replaced, Undone
      <4>2. CASE ~ Committed(n)
        BY <1>1, <2>1, <2>2, <2>3, <4>2 DEF Undone
      <4> QED
        BY <4>1, <4>2
    <3>2. \A i \in Artifacts : i # n => (Undone(i) => Undone(i)') /\ (Undoable(i) => Undoable(i)')
      BY <1>1, <2>1, <2>3 DEF Undone, Undoable, InPlace, SetAside, Replaced
    <3> QED
      BY <3>1, <3>2
  <2>5. \A i \in Artifacts : IF i > n THEN Undone(i) ELSE Undoable(i)
    BY <2>1 DEF OneFault, SecondWay
  <2>6. CASE pc' = "recoverUndo" /\ n' = n - 1
    <3>1. \A i \in Artifacts : IF i > n - 1 THEN i = n \/ (i # n /\ i > n) ELSE i # n /\ ~ (i > n)
      BY <1>1 DEF Artifacts
    <3>2. SecondWay'
      BY <2>1, <2>4, <2>5, <2>6, <3>1 DEF SecondWay
    <3> QED
      BY <1>3, <1>4, <2>1, <2>3, <2>6, <3>2 DEF MayHaveTemp, MayHaveBackup, RecoverLoops
  <2>7. CASE pc' = "recoverRestore" /\ n' = N /\ ~ (n > 1)
    <3>1. \A i \in Artifacts : (i = n \/ (i # n /\ i > n)) /\ ~ (i > N)
      BY <1>1, <2>7, NAssumption DEF Artifacts
    <3>2. SecondWay'
      BY <2>1, <2>4, <2>5, <2>7, <3>1 DEF SecondWay
    <3> QED
      BY <1>3, <1>4, <2>1, <2>3, <2>7, <3>1, <3>2 DEF MayHaveTemp, MayHaveBackup, RecoverLoops
  <2> QED
    BY <2>1, <2>6, <2>7 DEF PreviousArtifact
<1>7. CASE RecoverRestore
  <2>1. /\ pc = "recoverRestore" /\ (AsksDestination(n) => found # "unasked")
        /\ UNCHANGED <<temp, state, faults>> /\ found' = "unasked"
        /\ PreviousArtifact("recoverRestore", "recoverTemp", 1)
        /\ CASE RestoresBackup(n) /\ backup[n] # "absent" ->
                  /\ dest' = [dest EXCEPT ![n] = backup[n]]
                  /\ backup' = [backup EXCEPT ![n] = "absent"]
             [] DiscardsReservation(n) ->
                  backup' = [backup EXCEPT ![n] = "absent"] /\ UNCHANGED dest
             [] OTHER -> UNCHANGED <<dest, backup>>
    BY <1>2, <1>7, CallOnce DEF RecoverRestore, DiscardsReservation
  <2>2. IF RestoresBackup(n) THEN backup[n] = original[n] /\ backup[n] # "absent"
        ELSE dest[n] = original[n] /\ (backup[n] # "absent" => DiscardsReservation(n))
    <3>1. ~ (n > n)
      BY <1>1 DEF Artifacts
    <3>2. backup[n] # "absent" => state[n].backup_name
      BY <1>1, <1>3, <2>1 DEF MayHaveBackup
    <3> QED
      BY <1>1, <2>1, <3>1, <3>2, SecondLoop DEF OneFault, SecondWay
  <2>3. \A i \in Artifacts : IF i = n THEN dest'[i] = original[i] /\ backup'[i] = "absent"
                             ELSE dest'[i] = dest[i] /\ backup'[i] = backup[i]
    BY <1>1, <2>1, <2>2 DEF DiscardsReservation
  <2>4. \A i \in Artifacts : i # n => (Undone(i) => Undone(i)')
    BY <1>1, <2>1, <2>3 DEF Undone
  <2>5. \A i \in Artifacts : IF i > n THEN dest[i] = original[i] ELSE Undone(i)
    BY <2>1 DEF OneFault, SecondWay
  <2>6. CASE pc' = "recoverRestore" /\ n' = n - 1
    <3>1. \A i \in Artifacts : IF i > n - 1 THEN i = n \/ (i # n /\ i > n) ELSE i # n /\ ~ (i > n)
      BY <1>1 DEF Artifacts
    <3>2. SecondWay'
      BY <1>1, <2>1, <2>3, <2>4, <2>5, <2>6, <3>1 DEF SecondWay
    <3> QED
      BY <1>3, <1>4, <2>1, <2>3, <2>6, <3>1, <3>2 DEF MayHaveTemp, MayHaveBackup, RecoverLoops
  <2>7. CASE pc' = "recoverTemp" /\ n' = 1 /\ ~ (n > 1)
    <3>1. \A i \in Artifacts : (i = n \/ (i # n /\ i > n)) /\ ~ (i < 1)
      BY <1>1, <2>7, NAssumption DEF Artifacts
    <3>2. dest' = original'
      <4>1. dest' \in [Artifacts -> Content] /\ original \in [Artifacts -> Content]
        <5>1. FilesOK'
          BY <1>7, FilesStep DEF Next, Step, Recover
        <5> QED
          BY <5>1 DEF Content
      <4> QED
        BY <1>1, <2>3, <2>5, <3>1, <4>1
    <3>3. SecondWay'
      BY <2>7, <3>2 DEF SecondWay
    <3> QED
      BY <1>3, <1>4, <2>1, <2>3, <2>7, <3>1, <3>3 DEF MayHaveTemp, MayHaveBackup, RecoverLoops
  <2> QED
    BY <2>1, <2>6, <2>7 DEF PreviousArtifact
<1>8. CASE RecoverTemporary
  <2>1. pc = "recoverTemp" /\ pc' = "recoverBackup"
        /\ UNCHANGED <<dest, backup, state, n, faults>>
        /\ temp' = IF state[n].temporary_name THEN [temp EXCEPT ![n] = "absent"] ELSE temp
    BY <1>2, <1>8, CallOnce DEF RecoverTemporary
  <2>2. SecondWay'
    BY <1>1, <2>1 DEF OneFault, SecondWay
  <2>3. \A i \in Artifacts : ~ (i < n) => i > n \/ i = n
    BY <1>1 DEF Artifacts
  <2> QED
    BY <1>1, <1>3, <1>4, <2>1, <2>2, <2>3 DEF MayHaveTemp, MayHaveBackup, RecoverLoops
<1>9. CASE RecoverBackup
  <2>1. pc = "recoverBackup" /\ UNCHANGED <<dest, temp, state, faults>>
        /\ NextArtifact("recoverTemp", "done")
        /\ backup' = IF completed /\ state[n].backup_name
                     THEN [backup EXCEPT ![n] = "absent"] ELSE backup
    BY <1>2, <1>9, CallOnce DEF RecoverBackup
  <2>2. SecondWay'
    BY <1>1, <2>1 DEF OneFault, SecondWay, NextArtifact
  <2>3. CASE pc' = "recoverTemp" /\ n' = n + 1
    <3>1. \A i \in Artifacts : (i < n + 1 => i < n \/ i = n) /\ (i > n => ~ (i < n + 1))
      BY <1>1 DEF Artifacts
    <3> QED
      BY <1>1, <1>3, <1>4, <2>1, <2>2, <2>3, <3>1 DEF MayHaveTemp, MayHaveBackup, RecoverLoops
  <2>4. CASE pc' = "done" /\ ~ (n < N)
    <3>1. \A i \in Artifacts : ~ (i > n) /\ (i = n \/ i < n)
      BY <1>1, <2>4, NAssumption DEF Artifacts
    <3> QED
      BY <1>1, <1>3, <1>4, <2>1, <2>2, <2>4, <3>1 DEF MayHaveTemp, MayHaveBackup
  <2> QED
    BY <2>1, <2>3, <2>4 DEF NextArtifact
<1> QED
  BY <1>5, <1>6, <1>7, <1>8, <1>9 DEF Recover

LEMMA OneFaultStep ==
  MaxFaults <= 1 /\ BaseInv /\ WholeFiles /\ ReportInv /\ OneFault /\ [Next]_vars => OneFault'
<1> SUFFICES ASSUME MaxFaults <= 1, BaseInv, WholeFiles, ReportInv, OneFault, [Next]_vars
             PROVE  OneFault'
  OBVIOUS
<1>1. CASE Check \/ Stage \/ BackUp \/ Commit
  BY <1>1, CheckOnce, StageOnce, BackUpOnce, CommitOnce
<1>2. CASE Rollback \/ Clean \/ DropBackup \/ Recover
  BY <1>2, RollbackOnce, CleanUpOnce, RecoverOnce
<1>3. CASE Crash
  <2>1. OneMessage' /\ SecondWay'
    BY <1>3 DEF Crash, OneFault, OneMessage, SecondWay, Failed, RecoverLoops
  <2> QED
    BY <1>3, <2>1 DEF Crash, OneFault, AllKnown
<1>4. CASE UNCHANGED vars
  <2>1. OneMessage'
    BY <1>4 DEF vars, OneFault, OneMessage, Failed
  <2>2. SecondWay'
    BY <1>4 DEF vars, files, OneFault, SecondWay, Undone, Undoable, InPlace, SetAside, Replaced
  <2>3. AllKnown'
    BY <1>4 DEF vars, files, OneFault, AllKnown, MayHaveTemp, MayHaveBackup
  <2> QED
    BY <2>1, <2>2, <2>3 DEF OneFault
<1> QED
  BY <1>1, <1>2, <1>3, <1>4 DEF Next, Step, Finished

LEMMA OneFaultInvariant == ASSUME MaxFaults <= 1 PROVE Spec => [](BaseInv /\ OneFault)
<1>1. BaseInv /\ WholeFiles /\ ReportInv /\ OneFault /\ [Next]_vars => OneFault'
  BY OneFaultStep
<1> QED
  BY <1>1, OneFaultInit, ReportInvariant, WholeInvariant, PTL DEF Spec

(* If at most one call fails, of whatever kind and wherever, the set is     *)
(* replaced as a whole or is as it was when the call began.                 *)
THEOREM OneFaultKeepsTheSetWhole == ASSUME MaxFaults <= 1 PROVE Spec => []AllOrNothing
<1>1. BaseInv /\ OneFault => AllOrNothing
  BY DEF BaseInv, Staged, OneFault, SecondWay, AllOrNothing
<1> QED
  BY <1>1, OneFaultInvariant, PTL

(* If at most one call fails, a transaction file is left only by a call     *)
(* that says its clean-up failed.                                           *)
THEOREM OneFaultLeavesNothing == ASSUME MaxFaults <= 1 PROVE Spec => []CleanedUp
<1>1. OneFault => CleanedUp
  BY DEF OneFault, AllKnown, MayHaveTemp, MayHaveBackup, CleanedUp, NoLeftovers
<1> QED
  BY <1>1, OneFaultInvariant, PTL
=============================================================================
