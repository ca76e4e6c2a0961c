# TLA+ models of table-factory

table-factory is a command line program. It reads Hive `CREATE TABLE`
statements from a file or a directory of `.sql` files, derives the names of
target tables in Hive and Greenplum, and writes up to six SQL files for each
table. Nothing runs concurrently inside it; what makes it hard are the file
system it shares with other processes, system calls that fail half way, the
memory that runs out inside a clean-up, and checks that must hold over a whole
batch although they are made table by table.

Paths below are relative to `src/src/table_factory/`.

## 1. Inventory

| component | state it keeps | operations | called by |
|---|---|---|---|
| artifact transaction (`generator.py`) | one `_ArtifactWriteState` per file, the local `completed`, the output directory | `write_artifacts` and its loops, `_rollback_artifact_transaction`, `_recover_artifact_transaction_after_memory_error` | `workflow.generate` |
| input scan (`workflow.py`, `path_safety.open_verified_entry`) | stack of pending directories, `_ScanBudget`, discovered files, byte counts; open descriptors | the generator `_scan_sql_files`, `_collect_sql_metadata`, `_reopen_scanned_entry`, `_read_utf8` | `_parse_files`, one file at a time |
| batch planning and naming (`workflow.py`, `naming.py`, `type_mapper.py`, part of `generator.py`) | counts, list of plans, the dictionaries of sources and targets, the set of file names | `_parse_files`, `_prepare`, `build_target_names`, `_ensure_unique_targets`, `ensure_unique_artifact_names` | `generate`, `validate`, `inspect` |
| path pinning (`path_safety.py`) | one open directory descriptor | `open_pinned_path`, with or without creating directories, `open_verified_entry` | scan (input root), transaction (output directory), `_input_file_identities` |
| DDL parser (`parser.py`) | cursor, quote and depth counters, list of tables | `parse_hive_ddl`: the masks, the loops that find where a statement ends, the grammars of columns, types, constraints, defaults and clauses | `_parse_files` |
| configuration (`config.py`) | nesting depth while loading | `load_config`, `_load_storage` | `cli` |
| command line (`cli.py`) | exit code, the state of stdout and stderr | `main`, `_run` | the shell |
| renderers (`hive_renderer.py`, `greenplum_renderer.py`, `liquibase_renderer.py`, `sql.py`) | none | one text for one plan | `iter_artifacts` |

How they interact. `cli.main` loads the configuration and calls `generate`.
`prepare` runs the scan as a generator: `_parse_files` takes one file's text,
parses it, and only then lets the scan open the next file; an error in the
parser closes the generator. The parsed tables become plans, the plans are
checked against each other, every artifact is rendered in memory, and only then
`write_artifacts` opens the output directory. It gets the identities (device,
inode) of the files read, so that it never replaces an input.

What is hard, and what makes each part correct:

- *Transaction.* Any call may fail, before or after it took effect, also inside
  the rollback; a `MemoryError` may interrupt everything, the rollback included;
  the process may die. Correct means: the whole set or nothing, no original
  lost, nothing half-written under a final name, an error message that says
  what the disk looks like, and clean-up loops that end.
- *Scan.* Other processes rename, create, remove and extend files between any
  two system calls. Correct means: what is read is what the discovery checked,
  the limits hold for the bytes really read, nothing is read twice, skipped or
  out of order, and the scan ends.
- *Batch.* Tables of different files may derive the same names in many ways.
  Correct means: an accepted batch has no two tables that write to one place
  and none that overwrites the source of another; a refused one has a conflict;
  nothing is dropped.
- *Path pinning.* A component changes between its stat, its creation and its
  open. Correct means: what is opened is what was looked at, component by
  component, and no link is followed but one only root can have made.
- *Parser.* Five loops (comment masking, quote mask, matching parenthesis,
  statement end, top-level parts) each keep their own quote state and start at
  different places; they must agree on where a statement starts and ends.
  Correct means: no text of the document is lost between statements or taken
  for a part of another one, what a statement says is read exactly, and what is
  generated from it says the same.
- *Configuration.* Three short texts decide whether Hive can tell NULL from a
  value and one field from the next.
- *Command line.* The exit code and what is printed must be true whatever
  happens to the input path, to standard output and to the memory.

`PROJECT.json` lists these hazards at their lines, with the properties that
cover them and the reason where none does yet.

## 2. Modules

| module | what it is |
|---|---|
| `AtomicReplace` | what `write_artifacts` promises: the set changes once, completely, or never |
| `ArtifactTransaction` | `write_artifacts`, one action per system call |
| `ArtifactTransactionInv` | its inductive invariant |
| `ArtifactTransactionProofs` | theorems: flags and disk, lost originals, refinement; what a reader of the directory sees, and of the error message |
| `InputScan` | `_scan_sql_files`, one action per system call, beside other processes |
| `InputScanProofs` | theorems: what is read, in which order, and that an undisturbed scan is exact |
| `BatchPlan` | `_parse_files` and `_prepare`, one action per round of a loop |
| `BatchPlanProofs` | theorems: accepted batches are safe and complete, refused ones collide |
| `PinnedPath` | `open_pinned_path` for its three callers, one action per system call, beside other processes |
| `PinnedPathProofs` | theorems about it |
| `DdlScan` | `parse_hive_ddl`: from a document to its statements |
| `DdlScanProofs` | theorems: the masks are exact, statements are whole, none is lost, the limits hold |
| `TableStatement` | one statement: columns, clauses, checks, and the statement generated from it |
| `TableStatementProofs` | theorems: the clauses are cut where they end, whatever the statement; comments keep their meaning |
| `HiveNumbers`, `HiveStrings` | the type of a numeric literal; string literals read and written (used by `TableStatement`) |
| `Cli` | `main` and `_run` over the results of all other parts, to the exit code |
| `HiveStorage` | `_load_storage` and what Hive makes of its values (used by `Cli`) |
| `CliProofs` | theorems about `Cli` and `HiveStorage` |
| `RecursiveFunctions` | lemmas: recursive functions exist, and induction over a set (used by the proofs) |
| `MCArtifactTransaction`, `MCInputScan`, `MCBatchPlan`, `MCPinnedPath`, `MCDdlScan`, `MCTableStatement`, `MCCli` | instances for TLC |

How they compose. `DdlScan` cuts a document into statements, whose texts are the
inputs of `TableStatement`; the names of the tables so read are the batches of
`BatchPlan`; `Cli` runs scan, parser, plan and transaction one after the other,
each with the results its own module shows it to have (a file is accepted or
refused, a batch collides, a set is old, new or mixed and the message says
which). `PinnedPath` ends where `InputScan` and `ArtifactTransaction` begin, at
an open directory.

Definitions whose name ends in `Variant` are faulty versions of the definition
that follows them (a dropped test, an index off by one). No action uses them;
each shows that some property notices when the code is broken that way.

Plan. Done, in this order: the transaction, the scan, the batch, path pinning,
the scanners of the parser, the statement with its literals and the round trip
through the renderer, the storage configuration, the command line. Left:

- proofs: the properties of `TableStatement` that section 8 names as checked only;
- models: `_UniqueKeySafeLoader` of `config.py`; the other values of the
  configuration and the other rendered texts, one pattern or one fixed statement
  each.

## 3. The artifact transaction

### State and actions

An artifact is a number, its place in the list `states`. `dest`, `temp` and
`backup` are what its three names hold in the output directory: nothing, the
old file, the new file, a part of it, the empty reservation, a directory, or a
file that is one of the inputs. `state` is the `_ArtifactWriteState`, with the
names reduced to whether they are set. `pc` names the loop, `n` the artifact it
is at. `report` collects what the error message says.

Each action is one `os` call with the assignments up to the next call:

| loop of the code | actions |
|---|---|
| checks of the destinations, `_reject_input_aliases` | `InspectDirectory`, `RejectInputAlias` |
| `_write_staged_file` | `StageOpen`, `StageWrite`, `StageAbort` |
| backup loop, `_reserved_backup_name` | `BackupStat`, `ReserveOpen`, `ReserveClose`, `ReserveAbort`, `BackupRename` |
| commit loop | `Commit` |
| `_rollback_artifact_transaction` | `UndoStat`, `Undo`, `RestoreStat`, `Restore`, `Discard` |
| `_recover_artifact_transaction_after_memory_error` | `RecoverUndo`, `RecoverRestore`, `RecoverTemporary`, `RecoverBackup` |
| clean-up of temporary files and backups | `Clean`, `DropBackup` |

### Failures

A call's `Result` is the exception it raises and whether it took effect all the
same. `Faults` is the set of results an instance allows, `MaxFaults` bounds how
many calls fail. An `OSError` after the effect is what a network file system
reports when the answer was lost; a `MemoryError` after the effect is one the
interpreter raises while the call returns. An exclusive `open` that raises
`OSError` has created nothing. `Crash` ends the process between two calls.

Left out: other writers in the output directory (the repository's README
excludes them), `KeyboardInterrupt` (no handler catches it), an empty list of
artifacts, and name collisions between random temporary names (the code retries
until the exclusive open succeeds). The directory is opened in `PinnedPath` and
closed in `Cli`.

### Runs

| run | instance | question |
|---|---|---|
| `one_fault` | 3 files, one failing call of any kind, crash | Is the result the whole set or nothing (`AllOrNothing`), without left-overs (`CleanedUp`), are all files staged before one is published (`PublishedAfterStaging`), does it end (`Terminates`)? |
| `os_faults` | 3 files, 6 failing calls that raise `OSError`, crash | Is the invariant of the proofs an invariant (`IInv`), is no original lost (`NoOriginalLost`), is `AtomicReplace` implemented? |
| `any_faults` | 3 files, 4 failing calls of both kinds mixed, crash | Does the message tell the truth (`HonestReport`, `LeftoversReported`), is nothing torn (`NoTornDestination`), is a completed set final (`CompletedIsFinal`), and a refused set untouched (`NothingWrittenWhenRejected`)? |
| `crash_atomic` | 2 files, no failing call, crash | violated: a process that dies in the commit leaves neither set |
| `lost_original` | 2 files, 3 failing calls, `MemoryError` after the effect | violated: an original is gone |

Three files are the first, a middle and the last one of each loop, and the
initial states hold every combination of absent, old, directory and input. Six
`OSError`s let the transaction fail and its rollback fail at every later call
for two of the files; four mixed faults let the commit fail, the rollback fail,
the memory run out in it and the recovery fail again.

Fairness: `FairSpec` is weak fairness of the steps of the program, not of
`Crash`. The program is one thread of blocking calls; it is scheduled as long as
it lives. `Terminates` therefore says that no loop runs for ever.

### What the violated runs show

`lost_original`. The commit fails; the rollback's unlink of the already
replaced destination fails too, so `commit_completed` stays set; the rollback
then renames the backup over the destination, and the `MemoryError` comes
between this rename and the assignments that clear the flags
(`generator.py:425-429`). The recovery finds `commit_completed`, unlinks the
destination - which is the restored original - and finds no backup to rename.
The docstring promises "rollback on any write failure". It needs three failures
in a row, one of them a `MemoryError` at one place.

`crash_atomic`. The docstring of `workflow.generate` says "atomically write";
the repository's README says the set is not crash-atomic. The model agrees with
the README.

### Proofs

For any number of files, faults and bound on the faults
(`ArtifactTransactionProofs`):

- `Typing`: `TypeOK`, split by variable groups (files, flags, control).
- `BaseInvariant`: what holds whatever fails. `Forward` says what the flags mean
  in each forward loop, `Checked` and `Staged` that the loops before have done
  their work for the whole set, `FoundIsTrue` that the answer of a stat is still
  true when it is used, `Completion` where `completed` may be set.
- `CompletedSetIsFinal`: from `BaseInvariant`, as an action property.
- `FullInvariant`: `IInv`, which adds `Protected`: each original is under its
  own name and no flag sends a loop to remove it (`Kept`), or under the backup
  name and the flags send the recovery to bring it back (`Saved`).
  `NoOriginalLost` alone is not inductive: it does not say what the flags will
  do next.
- `OriginalsSurvive` and `Refinement`: `NoOriginalLost` and the implementation
  of `AtomicReplace`, from `FullInvariant`.

The last three assume `OneKindOfFault`: only `OSError`s occur, or only
`MemoryError`s, or an exception means that the call had no effect.
`lost_original` shows that they do not hold without it. The refinement maps the
abstract set to what can be recovered from final and backup names
(`RecoverableSet`) and the abstract step to the last rename.

The others assume nothing about the faults, so that they hold where originals
can be lost as well:

- `ReadersSeeWholeFiles`, `PublicationIsLast`, `RefusedSetsAreUntouched`
  (`NoTornDestination`, `PublishedAfterStaging`, `NothingWrittenWhenRejected`).
  The strengthening is `WholeFiles`: a backup name holds an empty reservation
  only while its original is in place, and no flag makes a loop rename it
  (`Reserved`).
- `MessagesAreHonest`, `SilenceMeansNoLeftovers` (`HonestReport`,
  `LeftoversReported`). The strengthening is `ReportInv`, in three parts.
  `WayBack` says what a rollback in which every call works has to start from
  (`Undoable`), what its first loop makes of it (`Undone`) and that the second
  loop ends at the original set; it is claimed only while the message admits no
  failed rollback. `Message` says what the message must already contain in each
  loop. `Hidden` says that each file under a hidden name is known to a flag, as
  long as no failure has been admitted. The proof has one lemma per loop.

Two more theorems of this module assume `MaxFaults <= 1`, a bound and no number
of files or kind of exception: `OneFaultKeepsTheSetWhole` (`AllOrNothing`) and
`OneFaultLeavesNothing` (`CleanedUp`). The strengthening is `OneFault`. It says
that a message of failure, and every loop a failure leads to, has used up the one
fault, so that what follows works (`OneMessage`); that the two recoveries find
what `WayBack` says even after a `MemoryError`, which `WayBack` itself no longer
speaks of (`SecondWay`); and that a flag knows of each hidden file at every step
(`AllKnown`, which unlike `Hidden` also holds for a `MemoryError`). The bound is
needed: with more failures the rollback itself may fail, and with those of
`lost_original` an original is gone.

Only model-checked: the liveness property `Terminates`.

### Noted while modelling

- When closing and unlinking a fresh reservation both fail
  (`generator.py:291-296`), an empty `.bak` file stays and no message says so;
  `LeftoversReported` allows exactly this file.
- `os.close` in the last `finally` (`generator.py:673-674`) may raise an
  `OSError` after a complete replacement; it leaves `generate` unconverted
  (section 9).

## 4. The input scan

### State and actions

The file system is `tree`, a map from directory and name to a node, and `size`.
A node stands for a device and inode, the identity the code compares
(`FileIdentity`); its kind never changes. Symbolic links are plain or trusted
(owned by root in a directory only root writes to, the exception of
`_trusted_system_symlink_at`), and lead to one node. Names are numbers in their
sorting order; no name of an instance is a prefix of another one, so that
comparing components gives the order of the joined paths.

`pending`, `budget`, `found`, `opened` and `read` are the variables of the same
purpose in the code. `walk` is the `_reopen_scanned_entry` in progress: the
directory it holds open (`at`), the components it has left (`rest`) and the
node the last stat saw (`checked`).

| code | actions |
|---|---|
| `_collect_sql_metadata` | `PopDirectory`, `ListDirectory`, `StatEntry`, `EndDirectory`, `NothingFound` |
| `_reopen_scanned_entry`, `open_verified_entry` | `WalkStat`, `WalkOpen` |
| loop of `_scan_sql_files`, `_read_utf8` | `NextFile`, `DirectFile`, `ReadFile` |
| the consumer: next file, or close after an error | `Resume`, `Close` |
| a failing call, no memory, bytes that are not UTF-8 | `CallFails` |
| other processes | `Move`, `Remove`, `Create`, `Resize` (together `Interfere`) |

A descriptor keeps its node when the name changes: `dir.node`, `walk.at`.
`Interfere` keeps the tree a tree (no directory below itself, no second name for
a directory), as the kernel does. Not in the model: an inode number that is used
again for a new file, which no comparison of identities could notice; a change
between the two stats of a link, which only selects between two refusals. The
root is opened in `PinnedPath`.

### Runs

`input_quiet`: three directories nested in every way, two files, a link to a
directory and a node that is neither; and one directory of three `.sql` names
for the two files, one more than `MaxFiles`. Each limit is low enough to be met and
exceeded. A tree with too many bytes is refused by the reading, too, should the
discovery let it pass; the first of the two checks is not told from the second. `QuietScanIsExact` compares every outcome with a definition that
looks at the whole tree at once: a scan that ends normally has read exactly the
`.sql` files, and a refusal has its reason.

`input_busy`: two directories, two files, a plain and a trusted link, up to two
changes between any two calls. Two changes are what it takes to exchange two
entries, or to replace one and put it back. `ReadsWhatItFound`, `BytesBounded`,
`CompleteInOrder`, and `Terminates` under weak fairness of the scanner alone:
the scanner is one thread that no other process blocks, since it opens
regular files and directories only, without locks. `MaxChanges` bounds the other
processes; the argument for termination does not use the bound, because
directories enter the stack only while `budget.directories` grows.

### Proofs

`InputScanProofs`, for any tree, limits and number of changes. `ScanInvariant`
says that the walk for a file is a walk for an element of `found`, that after
its last component the open node is the registered one, and that what is read
so far is within the limits. `OnlyFoundFilesAreRead` (`ReadsWhatItFound`) and
`ReadsAreBounded` (`BytesBounded`) follow. Neither needs an assumption about
the other processes: every check is made on the descriptor that is read, and
`ByteLimit` is computed from bytes read, not from sizes.

`ScansAreCompleteInOrder` is `CompleteInOrder`, for any tree, limits and changes. `OrderInv` says that the files read are those of
`found` that come first: sorted (`Sorted`), before every unread one
(`RestIsLater`), and all that are no longer unread (`PathsAreRead`); the walk
under way is for the first unread file (`FetchesTheFirst`). The limit on the
number of files carries over from the discovery, whose budget counts what is
found, to the files read (`Counted`).

`ScannerTyping` is `TypeOK`. `TypeInv` adds what keeps the counters one above
their limits at most (`WithinBudget`), and that each walk starts at a directory
that is one whatever the tree becomes (`RootIsAbove`, `Placed`). It needs that
the limit on directories admits the root itself, and that a directory has
finitely many names.

`QuietScansAreExact` is `QuietScanIsExact`: as long as no other process has changed
anything, the outcome is that of a definition over all paths of the tree, for
any tree, sizes and limits. `QuietInv` relates the scan under way to the whole tree:

- `Explored`: with `C` the entries met so far, `L` those that were looked at and `W`
  the directories that wait, an entry has been met exactly when its directory
  was looked at and does not wait any more. At the end nothing waits, so that
  induction over the length of paths (`ExploredAll`) gives every entry of the tree.
- `Tally`: the counts of the budget are the numbers of entries, directories and
  files among these sets, and the sum of their sizes. A count above its limit is
  therefore the count of a part of the tree, and the tree is above it too, since
  a sum over a set does not depend on the order (`AddsUp`) and grows with the
  set (`SumGrows`).
- Nothing that was found has moved: each walk is `OnTheWay` to its entry, so that
  the reading never finds a change, and no limit that the discovery has not
  found (`FetchedFits`).

`SameSets` and `SameLimits` tie the sets of the proof to the definitions the
property is made of.

Only model-checked: `Terminates`.

## 5. The batch

### State and actions

A text is a sequence of tokens. `Fold` is NFKC and casefold; three sets of
tokens say which checks of `naming.py` a token fails. The separators of a
qualified name are not tokens: the program turns them, like every odd character,
into one underscore when it builds a file name, so that the tables `a.b` and
`a_b` have the same file names. A name of which nothing is left ("table" in
`_safe_stem`) is not in the instances.

| code | actions and operators |
|---|---|
| `_parse_files` | `ParseFile`, `TooMany` |
| `_prepare`, number of artifacts | `CountArtifacts` |
| `build_target_names`, `map_table_columns` | `PlanTable`, `TableOK` and its parts |
| `_ensure_unique_targets` | `RegisterSource`, `CheckTargets` |
| `ensure_unique_artifact_names` | `CheckNames` |
| `iter_artifacts` | `RenderPlan` |

Left out: the names of columns and NUL in comments (`naming.py:100-107`), which
are in `TableStatement`; the order of the checks of one table, which all have
the same outcome.

### Run

`batch`: one or two files with one or two tables each from a pool of eight, in
which names collide by case, by qualification (`a.b` and `ab` as the tokens `a`,
`b`), by the templates, by truncation and with the target of another table;
files that do not parse; tables refused for each reason; seven configurations,
among them one with a single Greenplum schema and one whose Hive template is a
constant. The limits are such that two files together exceed what each of them
keeps. `AcceptedIsSafe`, `NothingDropped`, `CollisionIsReal`. Collisions and
overwritten sources concern two tables, so that batches of two tables show every
kind; batches of three and four add the order.

There is no liveness property: every loop is a `for` over a finite list.

### Proofs

`BatchPlanProofs`, for any batch, configuration and limits. `PlanInv` says what
the dictionaries know of the plans a loop has passed (`Registered`,
`TargetChecked`, `NameChecked`). `AcceptedIsSafe` is not inductive by itself: it
speaks of the end only. The argument has two parts: `LookupsSuffice` - when all
sources are registered, the two lookups find every source a plan could
overwrite, also one without a database - and, for two plans, the later one meets
the entries of the earlier one. It needs that the set of roles is not empty, else
no file name would be compared.

The other direction is `CollisionIsReal` (`RefusalIsReal`): a batch refused for a collision has one. `RefusalInv` traces
every entry of the dictionaries and of the set of file names back to a plan the
loops have passed (`SourcesOfPlans`, `TargetsOfPlans`, `NamesOfPlans`).
`PlannerTyping` is `TypeOK`.

`NoTableIsDropped` is `NothingDropped`. Its recursive concatenation of the files
is the function `TablesOf` (`TablesGathered`), and `Gathered` says in each loop
that what is parsed is the part of it before the current file, within the limits
the earlier files left. Nothing is left to TLC here alone.

## 6. Path pinning

### State and actions

The file system is `tree`, as in `InputScan`. `at` is the node `current_fd` is
open on, `i` the component to resolve next, `checked` the entry
`checked_status` is about. `trail` is history: for each component, the
directory it was looked up in, what the stat saw, what the open met and where it
led. `caller` is one of the three users of the function and decides whether
missing directories are made, what the last component may be, and what the
caller reports for each exception (`Reported`).

| code | actions and operators |
|---|---|
| the stat of a component and its refusals | `Stat`, `Inspects`, `Trusted` |
| `mkdir` of a missing component, the stat after it | `MakeDirectory`, `StatAgain` |
| `open_verified_entry` | `OpenEntry`, `Opened`, `Refuses` |
| the return, and the test of `_input_file_identities` | `ReturnPinned` |
| a failing call | `CallFails` |
| other processes | `Move`, `Remove`, `Create` (together `Interfere`) |

A directory is *sealed* when it belongs to root and nobody else can write to it;
other processes change no sealed directory. This is the one assumption about
them: it is what `_trusted_system_symlink_at` asks of a directory before it
lets a link in it be followed.

### Run

`pinned_path`: paths of up to three components below `/`, over 60 trees in
which the components are directories, files, links of root or of a user, a
dangling link, something else, or missing; two changes at any point and one
failing call. Three components are a first, a middle and a last one; two changes
exchange two entries or replace one and put it back. `NeverDiverted`, and
`QuietIsExact`: with nobody interfering the outcome agrees with a definition
that resolves the whole path at once. No liveness: the loop runs over the
components of one path.

### Proofs

`PinnedPathProofs`, for any file system, path and number of changes:
`TypeCorrect` (`TypeOK`) and `WalkIsPinned` (`NeverDiverted`). The invariant
adds `LinkStays` (a link that passed the check is still there when it is opened,
because its directory is sealed) and `AtTheEnd` (the walk stands where the
component opened last has led).

`QuietWalkIsExact` is `QuietIsExact`. The definition it compares with resolves the
path by recursion; `ResolvedLeads` gives the sequence of nodes it goes through
(`Leads`, one `Further` a component), and `QuietInv` keeps the walk on it: the
components behind are still the entries of the tree that were looked up
(`Walked`), and so is the one between its stat and its open.

Left out: `has_untrusted_symlink_component`, which no command calls; the number
of open descriptors.

## 7. From a document to its statements

### State and actions

A document is a sequence of tokens, in which every character that matters to a
loop (quotes, backslash, comment delimiters, parentheses, angle brackets, comma,
semicolon, dot, line break) is a token of its own, and any other text is a
`word`. `cleaned` is the text with its comments masked, `quoted` the mask of the
positions in quotes, `pos` where `finditer` searches on, `cursor` the end of the
last statement.

| code | actions and operators |
|---|---|
| `_without_comments`, `_quoted_character_mask` | `Clean`, `WithoutComments`, `QuotedMask` |
| `_quoted_scan_step` | `ScanStep` |
| `_CREATE_TABLE` and `finditer` | `Openings`, `NextMatch`, `SkipQuotedMatch` |
| `_matching_parenthesis_end`, `_statement_end` | `Closings`, `StatementEnd` |
| `_top_level_parts`, `_columns`, the partition columns | `Parts`, `Columns`, `TailColumns` |
| one round of the loop of `parse_hive_ddl` | `ParseStatement`, `Statement` |
| the end of the document | `EndDocument` |

What a column definition or a clause says is accepted here when nothing stands
outside its quotes and parentheses that could not stand in one; `TableStatement`
says the rest.

### Run

`ddl_scan`: six families of documents, put together from pieces in every order
- lexical (quotes, escapes, comment delimiters), nested (statements in, after
and before others), quoted (a statement around quotes, comments and another
`CREATE TABLE`), named (qualified names), listed (columns and partition columns
at the limits, after a plain and a quoted name), late (statements among the
partition columns); about 90,000 documents. At most two tables and three columns, so
that one statement more, and one column more in either list, meets a limit.

`MasksAreExact` and `StatementsAreWhole` compare the five loops with one reading
of the document by its lexemes, which has no state and looks for the end of each
lexeme at once. `NothingLost`: an accepted document is nothing but its tables;
a `CREATE TABLE` is the start of one or stands in parentheses of one, those of
its columns or those of its partition columns. `LimitsHold`: no document gets
more than its limits, and one that is refused for a limit has more `CREATE`, or
more commas and parentheses, than the limit.

There is no liveness property here and in the next two sections: every loop
runs over a finite text or list.

### Proofs

`DdlScanProofs`, for any document over the tokens and any limits. The states of
the loops are functions defined by recursion over the positions of a text; each
is given a name (`CommentStates`, `ScanStates`, `LevelsOf`), shown to exist and
to be the one the model computes, and then only its equation is used.

- `ScanTyping` (`TypeOK`). `Masked`, the invariant behind the next one, says that
  after `Clean` both masks are those of the whole document.
- `MasksFollowLexemes` (`MasksAreExact`). A position is between two lexemes
  exactly when the loop is outside quotes and comments there, so both go through
  the document in step (`Begins`, `ReadOn`). The hard part is a quoted value: that
  the state machine which takes quotes and escapes in pairs is in the second half
  of a pair exactly when the run of quotes, or of backslashes, before it is odd
  (`ValueStates`).
- `StatementsEndRight` (`StatementsAreWhole`). A loop that starts outside quotes
  agrees with the loop over the whole text from there on (`ScanFrom`), and the
  header of a statement leads from one such place to another (`Header`,
  `PairedRun` for the doubled quotes of a name). Depth is a difference of two
  counts (`Deep`), so that it can be split at any position; the parenthesis that
  is found is the pair of the opening one (`ClosingIs`).
- `NoStatementIsLost` (`NothingLost`). That the tables are in order is no
  invariant: `finditer` searches on inside the parentheses of the statement just
  read, and a statement found there moves `cursor` back. `Kept` says what is true
  instead: the tables are in order, or the document is `Trapped`, with a closing
  parenthesis at or after `cursor` that no statement read from now on can contain.
  It is between two statements in the end, and the document is refused.

- `LimitsAreKept` (`LimitsHold`). That a counter is below its limit is easy where
  it is tested; that a refusal is deserved is not, since a statement may be read
  out of the parentheses of another, and the columns of both are counted.
  `Counted` says where the count comes from: a `CREATE` before `pos` for each
  table, and for each column a mark of its own. The marks of a list are its
  opening parenthesis and the commas one level below it (`Owned`). Lists that open
  at different places share no mark, even one inside the other (`OwnedApart`), and
  the list that opens a statement is never one of a statement's partition
  columns, which stand in its tail (`ListsApart`). So there are at least as
  many marks as columns counted, and one column too many means one mark too many.

## 8. One statement

### State and actions

`TableStatement` reads the two texts of a statement, the columns and the tail
after them, as tokens: words, signs, and as one token each what one pattern of
the source takes as a whole (a phrase such as `PARTITIONED BY`, a qualified
name, a number, a string). Parsing operators return the set of positions after
what they read, empty when it is not there.

| code | actions and operators |
|---|---|
| `_columns`, `_split_column_clauses`, `_parse_column_clauses` | `ParseColumns`, `ColumnList`, `ClausesAt`, `ColumnClauses` |
| `_TypeParser`, `_canonical_primitive_type` | `Types`, `Canonical` |
| `_default_value_end`, `_validate_default_value` | `Defaults`, `DefaultFits` |
| `_column_constraint`, `_validate_table_constraint`, `_constraint_modifiers_end` | `ColumnConstraint`, `TableConstraint`, `Modifiers` |
| `_parse_table_tail`, one clause a round | `ParseComment`, `ParsePartitioned`, `ParseClustered`, `ParseSkewed`, `ParseRow`, `ParseStored`, `ParseLocation`, `ParseProperties`, `ParseOther` |
| `_validate_constraint_state`, `_validate_structural_references` | `CheckTable` |
| column names and comments in `naming.py` | `PlanTable` |
| `render_hive_create_physical` | `RenderTable` |
| `_infer_default_literal_type`, `_decimal_literal_type` | `HiveNumbers` |
| `_quoted_literal`; `hive_string` and `greenplum_string` of `sql.py` | `HiveStrings` |

A table that is accepted is rendered, and the same grammar reads the text again,
in the place of Hive (`generated`).

### Run

`table_statement`: one family of statements for each part of the grammar -
clauses in every order, storage clauses, lists of columns, skewed values, types,
constraint clauses, table constraints, defaults (small numbers and those where
rounding adds a digit, in every written form, at every decimal type), and
comments made of up to three escapes and characters. Nesting, the lengths of CHAR
and VARCHAR, and precision are bounded at 1 or 2 instead of the code's 100 (32 for
casts), 255, 65535 and 38, and a DEFAULT at 6 tokens instead of 255 characters,
which a cast of a string to a date has and a cast of a typed date exceeds; so the
value at and the value above each limit occur.

`TypesAreExact` compares with the types of the grammar generated from the inside
out. `ClausesInOrder` and `ReferencesResolve` read the same facts off the
statement's text. `DefaultsAreExact` compares the decimal types with a
definition by nearest multiples, and measures an accepted cast by its parentheses. `GeneratedIsRead` is the round trip of columns,
types and comments.

Left out: `_qualified_name`, which `DdlScan` has; the patterns inside one token
(identifiers, dates), which are classes of tokens; the lengths of names and of
integers; exponents of three digits and more. Tokens are taken to be separated:
the program refuses `UNIQUE(a)` and `CHECK(x)` without a blank as a column
definition, while it takes `PRIMARY KEY(a)`.

### Proofs

`TableStatementProofs`, for any statements, numbers, limits and classes of names.
It uses that a statement is made of texts (`InputsAssumption`) and that no number is
a word a clause starts with (`NumberTokens`).

`TypeInvariant` (`TypeOK`) and `ClausesInOrderAlways` (`ClausesInOrder`) follow
from `ReadInv`. The property reads the tail in a way the parser does not: it counts
parentheses from the start of the tail and takes every clause word outside
them. `Depth` is that count for a part of the text, and a part is `Plain` if it
ends at the depth it starts at and has no clause word at that depth; parts that follow
each other are plain together (`PlainThen`), and so is a group in parentheses
(`PlainGroup`). What each clause's reader takes behind its first word is shown
to be plain (`PartitionedEnds`, `ClusteredEnds`, `RowEnds`, ...), in `RowEnds` by
induction over the options (the recursive function has values: `OptionsExist`). `SKEWED BY ... STORED AS DIRECTORIES` is the
exception, the only clause with the word of another one inside; the parser and the property
decide it alike (`SkewedRead`). `ReadTo` then says that the clauses read so
far are those of the text before the rest, in increasing order, with the last
one in `last`; a tail the renderer wrote (`RenderedTail`) starts over.

`CommentsKeepTheirMeaning`: whatever a comment's literal is, what the program decodes
from it and lets pass (`NoNul`) is read unchanged by Hive from what `hive_string`
writes and by PostgreSQL from what `greenplum_string` writes, for comments of
any length. What is written is the pieces of its characters (`Pieces`, `Token`), and
the reader goes from piece to piece: from the start of the piece of a character it
says this character and goes on where the next one starts (`TokenRead`). For Hive
(`HiveReadsBack`) this distinguishes the pair of a backslash and a wildcard, the
escapes with a letter, the other control characters as `\u00XX`, and all else; it needs
that the text has no NUL and no surrogates, and of the latter a decoded text has none
(`JoinedIsWhole`). `GreenplumReadsBack` needs nothing.

Only model-checked are the properties that compare with a definition made for
small texts:

- `TypesAreExact`: its `TypeTexts` are all types over a few names, with up to two
  fields in a STRUCT. The parser takes any number of them.
- `ReferencesResolve`: it finds the lists in a statement by their words, so that a
  name which is such a word (a referenced table named `UNIQUE`) is taken for the start of
  a list. The statements of the run have no such names.
- `DefaultsAreExact`: it finds the defaults of a statement by their order in the text, and
  compares a rounding by powers of ten with one by nearest multiples, which is not
  linear arithmetic.
- `GeneratedIsRead`: its part about Greenplum holds by `CommentsKeepTheirMeaning`. The rest
  needs that quoted names are taken apart as they were put together, and names
  are strings, of which the provers know neither parts nor length.

## 9. The command line

### State and actions

A call is a command, a configuration, whether the runtime uses UTF-8, and what
standard output is (open, a closed pipe, a full disk). `stage` is where `_run`
is in the list of `Stages`, which is its order of calls. `set` is the output
directory as a whole. `raised` is the exception on its way to `main`, `reason`
what its message says, and `buffer` the standard output. `input` may be replaced
by other processes at any time (`Replace`).

| code | actions |
|---|---|
| `_require_utf8_runtime`, `argparse` | `Start`, `Argparse` |
| `load_config` with `_load_storage` | `Load`, `StorageAccepted` |
| the stat of `inspect` | `StatInput` |
| the workflow | `Scan`, `Parse`, `Plan`, `Write` |
| the close of the output directory | `CloseOutput`, `CloseAfterError` |
| `print`, `flush` | `Say`, `Flush` |
| the handlers of `main` | `Return`, `BrokenPipe`, `OutOfMemory`, `Expected`, `Traceback` |
| the interpreter's last flush (external) | `Shutdown` |

`Write` has the results `ArtifactTransaction` is shown to have: its message is
honest (`MessagesAreHonest`), except that after a failed rollback or a
`MemoryError` the set may be mixed. A refusal before the output directory is open
("refused") is told from one after it, for what is in the directory ("forbidden"):
only after the latter can the close of the directory fail (`CloseAfterError`).

### Run

`cli`: every command, with and without UTF-8, with every state of standard
output and every soundness of the configuration; an input that is missing,
unreadable, special, a link, a file or a directory of up to two files that are
accepted, refused or collide; two replacements. And `validate` with every
storage section over a small alphabet of delimiter, backslash, letter, digit and
a character that is not ASCII, with null values of up to three characters (and
one of four, above the limit).

`ExitIsTrue` and `OutputIsTrue` relate exit code, message, output and the set.
`StorageIsRead`: with an accepted storage section Hive reads every row back, by
a model of its delimited text format, over values of up to three characters. It
allows one exception, which the run found: a null value of two escapes and `N`
is the escaped form of the text escape, `N`, which is then read as NULL. The
comment at `config.py:507-509` claims only that null_value itself, as a text,
cannot be mistaken, and this holds.

### Proofs

`CliProofs`, for any calls, inputs and number of replacements: `ExitCodeIsTrue`
(`ExitIsTrue`) and `ReportIsTrue` (`OutputIsTrue`). `CliInv` says what the steps
behind the current stage have seen to (`Progress`), that the set changes in one
step and the message knows how it went (`SetIsOld`, `Message`), and that only
the last stages touch standard output (`Output`).

`EveryStorageIsRead` is `StorageIsRead`, for any alphabet, any storage section and
texts of any length. Each recursive function of `HiveStorage` is first shown to
satisfy its equation. What is written for a text (`Encodes`) is then a *whole*
field (`Whole`): there is a set of positions where its tokens start, none of them
a delimiter, and no token crosses its end. The places where the text's characters
are written (`Place`) are such a set. The reader that looks for the end of a field
goes from one of these positions to the next, and so stops at the delimiter after
the field and nowhere else (`Parsing`, `WholeFieldIsRead`); what it cuts out says
the text again (`Saying`). An accepted null value is whole as well, and an escaped
form is never shorter than its text, so that no text is written as the null value
but the one the property names. The storage section's texts are assumed to be
texts (`CallsAssumption`, `TextsAssumption`), which TLC checks for the instance.

Left out: the wording on standard error, `KeyboardInterrupt`, an empty artifact
set (every output disabled), and the parts of `load_config` other than the file,
its version and `hive.storage`, which either accept or refuse.

### Noted while modelling

- An `OSError` from closing the output directory, from closing the scan or from
  standard output (other than a broken pipe) is no `TableFactoryError`: it
  leaves `main` as a traceback, with exit code 1, after a complete replacement
  too; 120 when the interpreter's last flush fails as well.
- A broken pipe ends with exit code 0, unless leading standard output to
  `/dev/null` fails too (120).

## 10. What no model says

Liveness and statements with ENABLED stay with TLC. So do, so far, four properties
of `TableStatement` (section 8). Functions defined by recursion are within reach of
the proofs by the lemmas of `RecursiveFunctions`, in which a set stands where the
library's induction theorems take a predicate: `Recursion` says that a function
with given equations exists when each value depends on smaller arguments only, and
`IntervalInduction`, `DownwardInduction` and `RankInduction` are the induction that
goes with it.

Not modelled: `discover_sql_files`, which no command calls; the table of types
in `map_hive_type`; the loader of YAML with its duplicate-key test; the values
of the configuration that are one pattern over one string; the texts of the
renderers other than the physical Hive table, which put names and literals into
fixed statements; the wording of messages.

Noted at the border of the models, where the code is on the safe side:

- `hive_string` would not round-trip a NUL before two octal digits; the check
  `naming.py:104` keeps NUL out of every comment.
- The names `I` and `ı` have one key in Hive's comparison and two in the
  collision check; the models take the two keys from one small set of names.
