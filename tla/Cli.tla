---------------------------------- MODULE Cli ----------------------------------
(***************************************************************************)
(* One call of the program: main and _run of cli.py, load_config, and the  *)
(* workflow under them, step by step to the exit code.  What the steps do  *)
(* inside has modules of its own (InputScan, TableStatement, BatchPlan,    *)
(* ArtifactTransaction); here each has the results those modules show it   *)
(* to have.  The input may be replaced by other processes at any time, and *)
(* standard output may be a closed pipe or a full disk.                    *)
(***************************************************************************)
EXTENDS Integers, Sequences, FiniteSets, HiveStorage

CONSTANTS
  Calls,        \* the calls of this instance: command, configuration, UTF-8, standard output
  Inputs,       \* what the input path can lead to: a kind and the .sql files with their verdicts
  MaxChanges    \* how often other processes replace it

Verdicts == {"accepted", "refused", "collides"}   \* refused by the parser, or by the plan of the batch

ASSUME InputsAssumption  == \A there \in Inputs :
  there.files \in Seq(Verdicts) /\ (there.kind \in {"file", "link"} => Len(there.files) <= 1)
ASSUME CallsAssumption   == \A c \in Calls : LET s == c.config.storage
                            IN  IsText(s.delimiter) /\ IsText(s.escape) /\ IsText(s.null)
ASSUME ChangesAssumption == MaxChanges \in Nat

VARIABLES
  call,       \* command, config, utf8, stdout: fixed
  input,      \* what the path leads to now
  changes,
  stage,      \* where _run is, in Stages
  found,      \* what the scan discovered
  parsed,     \* how many of those files have been parsed
  inspected,  \* what the input was at the stat of `inspect`, as a sequence
  set,        \* the output directory: "old", "new" or "mixed"
  raised,     \* the exception on its way to main
  reason,     \* what its message says
  buffer,     \* standard output: "empty", "text", "written"
  silenced,   \* standard output leads to /dev/null
  exit        \* the exit code, -1 before

vars == <<call, input, changes, stage, found, parsed, inspected, set, raised, reason, buffer,
          silenced, exit>>

(* The order of the calls in main and _run. *)
StagesVariant(command) ==   \* reports before it writes
  CASE command = "generate" -> <<"start", "load", "scan", "parse", "plan", "print", "write", "close", "flush">>
    [] command = "validate" -> <<"start", "load", "scan", "parse", "plan", "print", "flush">>
    [] command = "inspect"  -> <<"start", "load", "stat", "scan", "parse", "plan", "print", "flush">>
    [] OTHER                -> <<"start">>
Stages(command) ==
  CASE command = "generate" -> <<"start", "load", "scan", "parse", "plan", "write", "close", "print", "flush">>
    [] command = "validate" -> <<"start", "load", "scan", "parse", "plan", "print", "flush">>
    [] command = "inspect"  -> <<"start", "load", "stat", "scan", "parse", "plan", "print", "flush">>
    [] OTHER                -> <<"start">>

Running  == raised = "none" /\ exit = -1 /\ stage <= Len(Stages(call.command))
At(name) == Running /\ Stages(call.command)[stage] = name

Init ==
  /\ call \in Calls /\ input \in Inputs /\ changes = 0 /\ stage = 1
  /\ found = <<>> /\ parsed = 0 /\ inspected = <<>> /\ set = "old"
  /\ raised = "none" /\ reason = "none" /\ buffer = "empty" /\ silenced = FALSE /\ exit = -1

(* How a step of _run ends: it goes on, or raises an exception. *)
Goes == stage' = stage + 1 /\ UNCHANGED <<raised, reason>>
Raise(exception, message) == raised' = exception /\ reason' = message /\ UNCHANGED stage
Refuse  == Raise("error", "refused")     \* a TableFactoryError
NoSpace == Raise("memory", "memory")
(* prepare and generate turn a MemoryError into a TableFactoryError. *)
NoSpaceInside == Raise("error", "memory")

Untouched == UNCHANGED <<call, input, changes, exit>>

-----------------------------------------------------------------------------
(* Other processes. *)
Replace ==
  /\ exit = -1 /\ changes < MaxChanges
  /\ input' \in Inputs \ {input} /\ changes' = changes + 1
  /\ UNCHANGED <<call, stage, found, parsed, inspected, set, raised, reason, buffer, silenced, exit>>

(* _require_utf8_runtime, then argparse, then the current directory.  For   *)
(* --help and for wrong arguments argparse leaves with its own exit code.   *)
Start ==
  /\ At("start") /\ Untouched /\ UNCHANGED <<found, parsed, inspected, set, buffer, silenced>>
  /\ \/ NoSpace
     \/ ~ call.utf8 /\ Refuse
     \/ call.utf8 /\ call.command \notin {"help", "wrong"} /\ (Goes \/ Refuse)
Argparse ==
  /\ At("start") /\ call.utf8 /\ call.command \in {"help", "wrong"}
  /\ IF call.command = "help" THEN exit' = 0 /\ buffer' = "text" ELSE exit' = 2 /\ UNCHANGED buffer
  /\ UNCHANGED <<call, input, changes, stage, found, parsed, inspected, set, raised, reason, silenced>>

(* load_config: the file, its YAML, its version, its sections. *)
ConfigAccepted(config) == config.file = "version 3" /\ StorageAccepted(config.storage)
Load ==
  /\ At("load") /\ Untouched /\ UNCHANGED <<found, parsed, inspected, set, buffer, silenced>>
  /\ \/ NoSpace
     \/ IF ConfigAccepted(call.config) THEN Goes ELSE Refuse

(* The stat of `inspect`, which follows links. *)
InspectableVariant(there) == there.kind \notin {"none", "unreadable"}
Inspectable(there) == there.kind \in {"file", "link"}
StatInput ==
  /\ At("stat") /\ Untouched /\ UNCHANGED <<found, parsed, set, buffer, silenced>>
  /\ \/ NoSpace /\ UNCHANGED inspected
     \/ IF Inspectable(input) THEN Goes /\ inspected' = <<input>> ELSE Refuse /\ UNCHANGED inspected

(* _scan_sql_files up to its first file. *)
Scan ==
  /\ At("scan") /\ Untouched /\ UNCHANGED <<parsed, inspected, set, buffer, silenced>>
  /\ \/ (NoSpaceInside \/ Raise("os", "close")) /\ UNCHANGED found
     \/ IF input.kind \in {"file", "directory"} /\ input.files # <<>>
        THEN Goes /\ found' = input.files
        ELSE Refuse /\ UNCHANGED found

(* One round of _parse_files: the next file, which others may have changed  *)
(* meanwhile, is read and parsed.  An error closes the scan, and a failing  *)
(* close replaces it.                                                       *)
Parse ==
  /\ At("parse") /\ Untouched /\ UNCHANGED <<found, inspected, set, buffer, silenced>>
  /\ \/ /\ parsed < Len(found) /\ found[parsed + 1] # "refused"
        /\ parsed' = parsed + 1 /\ UNCHANGED <<stage, raised, reason>>
     \/ /\ parsed < Len(found) /\ UNCHANGED parsed
        /\ \/ Refuse /\ (found[parsed + 1] = "refused" \/ changes > 0)
           \/ NoSpaceInside
           \/ Raise("os", "close")
     \/ parsed = Len(found) /\ UNCHANGED parsed /\ (Goes \/ Raise("os", "close"))

(* _prepare: the batch as a whole, and all artifacts in memory. *)
Plan ==
  /\ At("plan") /\ Untouched /\ UNCHANGED <<found, parsed, inspected, set, buffer, silenced>>
  /\ \/ NoSpaceInside
     \/ IF \E n \in DOMAIN found : found[n] = "collides" THEN Refuse ELSE Goes

(* write_artifacts: it cannot open the directory, or may not replace what   *)
(* is in it, or has replaced the set or not; a failed rollback and a failed *)
(* clean-up are said to be so; memory may run out in the recovery.          *)
Write ==
  /\ At("write") /\ Untouched /\ UNCHANGED <<found, parsed, inspected, buffer, silenced>>
  /\ \/ Goes /\ set' = "new"
     \/ (Refuse \/ Raise("error", "forbidden") \/ Raise("error", "restored")) /\ UNCHANGED set
     \/ Raise("error", "unrestored") /\ set' \in {"old", "mixed"}
     \/ Raise("error", "leftovers") /\ set' = "new"
     \/ NoSpaceInside /\ set' \in {"old", "new", "mixed"}

(* The close of the output directory, in a finally clause, if it was opened. *)
CloseOutput ==
  /\ At("close") /\ Untouched /\ UNCHANGED <<found, parsed, inspected, set, buffer, silenced>>
  /\ Goes \/ Raise("os", "close")
CloseAfterError ==
  /\ raised = "error" /\ exit = -1 /\ Untouched
  /\ Stages(call.command)[stage] = "write" /\ reason # "refused"
  /\ raised' = "os" /\ reason' = "close"
  /\ UNCHANGED <<stage, found, parsed, inspected, set, buffer, silenced>>

(* print fills the buffer, which may have to be written out; main flushes   *)
(* it.                                                                      *)
StreamFails ==
  \/ call.stdout = "pipe" /\ Raise("pipe", "pipe")
  \/ call.stdout = "full" /\ Raise("os", "output")
Say ==
  /\ At("print") /\ Untouched /\ UNCHANGED <<found, parsed, inspected, set, silenced>>
  /\ \/ Goes /\ buffer' = "text"
     \/ StreamFails /\ buffer' = "text"
     \/ NoSpace /\ buffer' \in {"empty", "text"}
Flush ==
  /\ At("flush") /\ Untouched /\ UNCHANGED <<found, parsed, inspected, set, silenced>>
  /\ \/ Goes /\ call.stdout = "open" /\ buffer' = "written"
     \/ StreamFails /\ UNCHANGED buffer
     \/ NoSpace /\ UNCHANGED buffer

-----------------------------------------------------------------------------
(* The handlers of main. *)
Leave(code) ==
  exit' = code /\ UNCHANGED <<call, input, changes, stage, found, parsed, inspected, set, buffer, raised, reason>>

Return      == raised = "none" /\ exit = -1 /\ stage > Len(Stages(call.command)) /\ Leave(0) /\ UNCHANGED silenced
BrokenPipe  == raised = "pipe" /\ exit = -1 /\ Leave(0) /\ silenced' \in BOOLEAN
OutOfMemory == raised = "memory" /\ exit = -1 /\ Leave(2) /\ UNCHANGED silenced
Expected    == raised = "error" /\ exit = -1 /\ Leave(2) /\ UNCHANGED silenced
Traceback   == raised = "os" /\ exit = -1 /\ Leave(1) /\ UNCHANGED silenced

(* The interpreter flushes what is left as it ends. *)
Shutdown ==
  /\ exit \in {0, 1, 2} /\ buffer = "text" /\ ~ silenced
  /\ IF call.stdout = "open" THEN buffer' = "written" /\ UNCHANGED exit
     ELSE exit' = 120 /\ UNCHANGED buffer
  /\ UNCHANGED <<call, input, changes, stage, found, parsed, inspected, set, raised, reason, silenced>>
Ended == exit # -1 /\ (buffer # "text" \/ silenced \/ exit = 120) /\ UNCHANGED vars

Next ==
  \/ Replace
  \/ Start \/ Argparse \/ Load \/ StatInput \/ Scan \/ Parse \/ Plan \/ Write \/ CloseOutput \/ CloseAfterError
  \/ Say \/ Flush
  \/ Return \/ BrokenPipe \/ OutOfMemory \/ Expected \/ Traceback
  \/ Shutdown \/ Ended

Spec == Init /\ [][Next]_vars
-----------------------------------------------------------------------------
(* Properties. *)

Accepted == parsed = Len(found) /\ {found[n] : n \in DOMAIN found} = {"accepted"}

(* The exit code says what was done, whatever happens to standard output:   *)
(* with 0 everything was accepted and, by generate, written, even if the    *)
(* report met a closed pipe; a refusal leaves the old set, and an error     *)
(* after the replacement is never called a refusal.  Only generate writes,  *)
(* and only with a whole input accepted.                                    *)
ExitIsTrue ==
  LET does == call.command \in {"generate", "validate", "inspect"} IN
  /\ exit = 0 /\ does => Accepted /\ raised \in {"none", "pipe"}
  /\ exit = 0 /\ call.command = "generate" => set = "new"
  /\ exit = 2 /\ reason \in {"none", "refused", "forbidden", "restored"} => set = "old"
  /\ exit = 2 /\ reason = "leftovers" => set = "new"
  /\ set # "old" => call.command = "generate" /\ Accepted /\ ConfigAccepted(call.config)

(* What is printed is true: a report of generate stands for a complete set, *)
(* and what inspect shows is one file, unless another process put a         *)
(* directory there after the stat.                                          *)
OutputIsTrue ==
  /\ buffer # "empty" /\ call.command = "generate" => set = "new"
  /\ buffer # "empty" /\ call.command = "inspect" =>
       found # <<>> /\ (Len(found) = 1 \/ found # inspected[1].files)

(* With every accepted configuration Hive reads in the target table what it *)
(* wrote there: NULL is told from the text null_value, and no text moves    *)
(* the border of a field.                                                   *)
StorageIsRead == At("scan") => ReadsBack(call.config.storage)
=============================================================================
