------------------------------ MODULE BatchPlan ------------------------------
(***************************************************************************)
(* From parsed files to the set of artifacts: the limits of _parse_files,  *)
(* the names build_target_names derives for each table, and the checks     *)
(* that no two tables of the batch, in whatever files they are, write to   *)
(* the same place or over each other's source (workflow.py, naming.py,     *)
(* generator.py).                                                          *)
(*                                                                         *)
(* A text is a sequence of tokens; what separates them (an underscore, the *)
(* dot of a qualified name) is what the program turns into one underscore. *)
(***************************************************************************)
EXTENDS Naturals, Sequences, FiniteSets, FiniteSetsExt

CONSTANTS
  Tokens,
  Fold,            \* NFKC and casefold of a token
  ControlTokens,   \* with a control, format or separator character
  DotTokens,       \* with a dot or a colon
  OddTokens,       \* with a character that is no letter, digit, _ or -
  Roles,           \* ARTIFACT_ROLES
  MaxTables,       \* _MAX_TABLES
  MaxColumns,      \* _MAX_COLUMNS
  MaxArtifacts,    \* _MAX_ARTIFACTS
  MaxIdentifier,   \* _GREENPLUM_IDENTIFIER_BYTES, in tokens
  MaxStem,         \* _MAX_STEM_BYTES, in tokens
  Batches,         \* the inputs of this instance
  Configs          \* the configurations of this instance

Text == Seq(Tokens)

(* A parsed table; <<>> stands for the missing database. `mappable` says    *)
(* whether map_table_columns knows the types of all of its columns.  A file *)
(* that parses has a table (parse_hive_ddl).                                *)
Table == [database : Text, name : Text, columns : Seq(Text), mappable : BOOLEAN]
File  == {f \in [parses : BOOLEAN, tables : Seq(Table)] : f.parses => f.tables # <<>>}

(* A name template: a prefix (the replica), then the fields it uses. *)
Template == [prefix : Text, database : BOOLEAN, table : BOOLEAN]
Config   == [hiveDatabase : Text, externalSchema : Text, physicalSchema : Text,
             hive : Template, external : Template, physical : Template,
             enabled : SUBSET Roles]

ASSUME FoldAssumption    == Fold \in [Tokens -> Tokens]
ASSUME OddAssumption     == ControlTokens \cup DotTokens \subseteq OddTokens
ASSUME BatchesAssumption == \A batch \in Batches : batch \in Seq(File) /\ batch # <<>>
ASSUME ConfigsAssumption == Configs \subseteq Config
ASSUME RolesAssumption   == Roles # {} /\ IsFiniteSet(Roles)
ASSUME LimitsAssumption  == {MaxTables, MaxColumns, MaxArtifacts, MaxIdentifier, MaxStem}
                              \subseteq Nat

VARIABLES
  files, config,       \* the inputs
  pc,                  \* the loop the program is in
  i,                   \* where that loop is
  parsed,              \* the tables read so far
  plans,               \* the list `planned`
  qualified,           \* keys of qualified_hive_sources
  unqualified,         \* keys of unqualified_hive_sources
  hiveTargets,         \* keys of hive_targets
  greenplumTargets,    \* keys of greenplum_targets
  filenames,           \* the set `names` of ensure_unique_artifact_names
  duplicates           \* whether it found a duplicate

inputs == <<files, config>>
keys   == <<qualified, unqualified, hiveTargets, greenplumTargets, filenames, duplicates>>
vars   == <<inputs, pc, i, parsed, plans, keys>>

Init ==
  /\ files \in Batches /\ config \in Configs
  /\ pc = "parse" /\ i = 1
  /\ parsed = <<>> /\ plans = <<>>
  /\ qualified = {} /\ unqualified = {} /\ hiveTargets = {} /\ greenplumTargets = {}
  /\ filenames = {} /\ duplicates = FALSE

-----------------------------------------------------------------------------
Comparison(text) == [k \in DOMAIN text |-> Fold[text[k]]]

Render(template, table) ==
  template.prefix \o (IF template.database THEN table.database ELSE <<>>)
                  \o (IF template.table THEN table.name ELSE <<>>)

(* What build_target_names derives from a table. *)
Plan(table) == [source   |-> table,
                hive     |-> Render(config.hive, table),
                external |-> Render(config.external, table),
                physical |-> Render(config.physical, table)]

HiveKey(plan)  == <<Comparison(config.hiveDatabase), Comparison(plan.hive)>>
ExternalKey(plan) == <<Comparison(config.externalSchema), Comparison(plan.external)>>
PhysicalKey(plan) == <<Comparison(config.physicalSchema), Comparison(plan.physical)>>
SourceKey(table)  == <<Comparison(table.database), Comparison(table.name)>>

(* _safe_stem replaces odd characters like separators and cuts long names;  *)
(* ensure_unique_artifact_names compares the names of all roles, enabled or *)
(* not.                                                                     *)
Stem(table) ==
  LET whole == SelectSeq(table.database \o table.name, LAMBDA token : token \notin OddTokens) IN
    SubSeq(whole, 1, IF Len(whole) < MaxStem THEN Len(whole) ELSE MaxStem)
(* The definitions named ...Variant are faulty versions of the definition   *)
(* that follows them; no action uses them.                                  *)
FilenamesVariant(plan) ==   \* leaves the database out
  {<<Comparison(plan.source.name), role>> : role \in Roles}
Filenames(plan) == {<<Comparison(Stem(plan.source)), role>> : role \in Roles}

-----------------------------------------------------------------------------
(* _validate_source_values, _validate_column_names, _render_name_template   *)
(* and the checks of one table against itself.                              *)

Has(text, tokens) == \E k \in DOMAIN text : text[k] \in tokens

SourceValuesOK(table) ==
  \A text \in {table.database, table.name} \cup {table.columns[c] : c \in DOMAIN table.columns} :
    ~ Has(text, ControlTokens)

ColumnNamesOK(table) ==
  \A c \in DOMAIN table.columns :
    /\ \A d \in DOMAIN table.columns :
         d < c => Comparison(table.columns[d]) # Comparison(table.columns[c])
    /\ ~ Has(table.columns[c], DotTokens)
    /\ Len(table.columns[c]) <= MaxIdentifier

RendersOK(template, table) ==
  LET text == Render(template, table) IN
    /\ template.database => table.database # <<>>
    /\ text # <<>> /\ ~ Has(text, OddTokens)

TemplatesOK(table) ==
  LET plan == Plan(table) IN
    /\ \A template \in {config.hive, config.external, config.physical} :
         RendersOK(template, table)
    /\ Len(plan.external) <= MaxIdentifier /\ Len(plan.physical) <= MaxIdentifier

OwnSourceOK(table) ==
  ~ /\ Comparison(table.name) = Comparison(Plan(table).hive)
    /\ \/ table.database = <<>>
       \/ Comparison(table.database) = Comparison(config.hiveDatabase)

OwnTargetsOK(table) == ExternalKey(Plan(table)) # PhysicalKey(Plan(table))

TableOK(table) ==
  /\ SourceValuesOK(table) /\ ColumnNamesOK(table) /\ TemplatesOK(table)
  /\ OwnSourceOK(table) /\ OwnTargetsOK(table) /\ table.mappable

-----------------------------------------------------------------------------
Reject(kind)     == pc' = kind /\ UNCHANGED i

(* The loops over files, tables and plans. *)
AdvanceVariant(loop, end, count) ==   \* one round too many
  IF i <= count THEN pc' = loop /\ i' = i + 1 ELSE pc' = end /\ i' = 1
Advance(loop, end, count) ==
  IF i < count THEN pc' = loop /\ i' = i + 1 ELSE pc' = end /\ i' = 1

ColumnCount(tables) == MapThenSumSet(LAMBDA k : Len(tables[k].columns), DOMAIN tables)

(* _parse_files: parse_hive_ddl gets what is left of the limits; a document *)
(* that is over a limit and malformed is refused for what comes first.      *)
TooManyVariant(tables) ==   \* each file has its own limits
  Len(tables) > MaxTables \/ ColumnCount(tables) > MaxColumns
TooMany(tables) ==
  Len(parsed \o tables) > MaxTables \/ ColumnCount(parsed \o tables) > MaxColumns

ParseFile ==
  /\ pc = "parse"
  /\ LET file == files[i] IN
       \/ ~ file.parses /\ Reject("syntax") /\ UNCHANGED parsed
       \/ TooMany(file.tables) /\ Reject("limit") /\ UNCHANGED parsed
       \/ /\ file.parses /\ ~ TooMany(file.tables)
          /\ parsed' = parsed \o file.tables
          /\ Advance("parse", "count", Len(files))
  /\ UNCHANGED <<inputs, plans, keys>>

CountArtifacts ==
  /\ pc = "count"
  /\ IF Len(parsed) * Cardinality(config.enabled) > MaxArtifacts
     THEN pc' = "limit" ELSE pc' = "plan"
  /\ UNCHANGED <<inputs, i, parsed, plans, keys>>

PlanTable ==
  /\ pc = "plan"
  /\ IF TableOK(parsed[i])
     THEN plans' = Append(plans, Plan(parsed[i])) /\ Advance("plan", "sources", Len(parsed))
     ELSE Reject("invalid table") /\ UNCHANGED plans
  /\ UNCHANGED <<inputs, parsed, keys>>

(* _ensure_unique_targets, its first loop ... *)
RegisterSource ==
  /\ pc = "sources"
  /\ LET source == plans[i].source IN
       IF source.database = <<>>
       THEN unqualified' = unqualified \cup {Comparison(source.name)} /\ UNCHANGED qualified
       ELSE qualified' = qualified \cup {SourceKey(source)} /\ UNCHANGED unqualified
  /\ Advance("sources", "targets", Len(plans))
  /\ UNCHANGED <<inputs, parsed, plans, hiveTargets, greenplumTargets, filenames, duplicates>>

(* ... and its second one; nothing reads what a refused batch leaves in the *)
(* dictionaries.                                                            *)
HitsSourceVariant(plan) == HiveKey(plan) \in qualified   \* forgets unqualified sources
HitsSource(plan) == HiveKey(plan) \in qualified \/ Comparison(plan.hive) \in unqualified

HitsGreenplumTarget(plan) ==
  \/ {ExternalKey(plan), PhysicalKey(plan)} \cap greenplumTargets # {}
  \/ ExternalKey(plan) = PhysicalKey(plan)

CheckTargets ==
  /\ pc = "targets"
  /\ LET plan == plans[i] IN
       IF HiveKey(plan) \in hiveTargets \/ HitsSource(plan) \/ HitsGreenplumTarget(plan)
       THEN Reject("collision") /\ UNCHANGED <<hiveTargets, greenplumTargets>>
       ELSE /\ hiveTargets' = hiveTargets \cup {HiveKey(plan)}
            /\ greenplumTargets' = greenplumTargets \cup {ExternalKey(plan), PhysicalKey(plan)}
            /\ Advance("targets", "names", Len(plans))
  /\ UNCHANGED <<inputs, parsed, plans, qualified, unqualified, filenames, duplicates>>

(* ensure_unique_artifact_names: it collects all names before it refuses. *)
CheckNames ==
  /\ pc = "names"
  /\ LET names == Filenames(plans[i]) IN
       /\ duplicates' = (duplicates \/ names \cap filenames # {})
       /\ filenames' = filenames \cup names
       /\ Advance("names", IF duplicates' THEN "collision" ELSE "render", Len(plans))
  /\ UNCHANGED <<inputs, parsed, plans, qualified, unqualified, hiveTargets, greenplumTargets>>

(* iter_artifacts: a renderer may refuse a plan.  The test of               *)
(* ensure_unique_artifacts repeats the last one for a part of its names.    *)
RenderPlan ==
  /\ pc = "render"
  /\ \/ Advance("render", "accepted", Len(plans))
     \/ Reject("not rendered")
  /\ UNCHANGED <<inputs, parsed, plans, keys>>

Ended    == {"accepted", "syntax", "limit", "invalid table", "collision", "not rendered"}
Finished == pc \in Ended /\ UNCHANGED vars

Check == RegisterSource \/ CheckTargets \/ CheckNames
Step  == ParseFile \/ CountArtifacts \/ PlanTable \/ Check \/ RenderPlan
Next  == Step \/ Finished
Spec  == Init /\ [][Next]_vars

-----------------------------------------------------------------------------
(* Properties. *)

(* What a plan's INSERT writes is the source table of another plan; an      *)
(* unqualified source may be in any database.                               *)
Overwrites(plan, table) ==
  /\ Comparison(plan.hive) = Comparison(table.name)
  /\ \/ table.database = <<>>
     \/ Comparison(config.hiveDatabase) = Comparison(table.database)

GreenplumKeys(plan) == {ExternalKey(plan), PhysicalKey(plan)}

Conflict(p, q) ==
  \/ HiveKey(p) = HiveKey(q)
  \/ GreenplumKeys(p) \cap GreenplumKeys(q) # {}
  \/ Comparison(Stem(p.source)) = Comparison(Stem(q.source))

(* An accepted batch has no two tables, of one file or of two, that write   *)
(* to the same Hive table, Greenplum table or file, and no table that       *)
(* writes over the source of any table of the batch. *)
AcceptedIsSafe ==
  pc = "accepted" =>
    /\ \A j, k \in DOMAIN plans : ~ Overwrites(plans[j], plans[k].source)
    /\ \A j, k \in DOMAIN plans : j # k => ~ Conflict(plans[j], plans[k])
    /\ \A k \in DOMAIN plans : ExternalKey(plans[k]) # PhysicalKey(plans[k])

(* An accepted batch has a plan for every table of every file, in the order *)
(* of the files, and stays within the limits. *)
NothingDropped ==
  pc = "accepted" =>
    LET all[f \in 0..Len(files)] == IF f = 0 THEN <<>> ELSE all[f - 1] \o files[f].tables
        tables == all[Len(files)]
    IN  /\ plans = [k \in DOMAIN tables |-> Plan(tables[k])]
        /\ Len(tables) <= MaxTables /\ ColumnCount(tables) <= MaxColumns
        /\ Len(tables) * Cardinality(config.enabled) <= MaxArtifacts

(* A batch is refused for a collision only if two of its tables collide:    *)
(* the verdict does not depend on the order of the tables. *)
CollisionIsReal ==
  pc = "collision" =>
    \E j, k \in DOMAIN parsed :
      \/ Overwrites(Plan(parsed[j]), parsed[k])
      \/ j # k /\ Conflict(Plan(parsed[j]), Plan(parsed[k]))

(* Type invariant of the planner. *)
TypeOK ==
  /\ files \in Seq(File) /\ config \in Config
  /\ pc \in {"parse", "count", "plan", "sources", "targets", "names", "render"} \cup Ended
  /\ pc = "parse" => i \in DOMAIN files
  /\ pc \in {"plan", "sources", "targets", "names", "render"} => i \in DOMAIN parsed
  /\ parsed \in Seq(Table) /\ Len(plans) <= Len(parsed)
  /\ \A k \in DOMAIN plans : plans[k] = Plan(parsed[k])
  /\ duplicates \in BOOLEAN
=============================================================================
