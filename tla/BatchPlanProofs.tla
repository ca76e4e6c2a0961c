--------------------------- MODULE BatchPlanProofs ---------------------------
(***************************************************************************)
(* The batch checks are sufficient for every batch and configuration: the  *)
(* dictionaries of _ensure_unique_targets and the name set of              *)
(* ensure_unique_artifact_names hold what the loops have passed, so that   *)
(* no later plan can collide with an earlier one unnoticed.  They are      *)
(* necessary as well: whatever the dictionaries hold was put there by a    *)
(* table of the batch, so that a batch refused for a collision has one.    *)
(***************************************************************************)
EXTENDS BatchPlan, RecursiveFunctions, FiniteSetTheorems, SequenceTheorems, TLAPS

PlanRecord == [source : Table, hive : Text, external : Text, physical : Text]

CheckLoops == {"sources", "targets", "names", "render"}

Typed ==
  /\ files \in Seq(File) /\ files # <<>> /\ config \in Config
  /\ parsed \in Seq(Table) /\ plans \in Seq(PlanRecord)
  /\ pc \in {"parse", "count", "plan"} \cup CheckLoops \cup Ended

Indexed ==
  /\ i \in Nat \ {0}
  /\ pc = "parse" => i <= Len(files)
  /\ pc \in {"count", "plan"} => parsed # <<>>
  /\ pc \in {"parse", "count"} => Len(plans) = 0
  /\ pc = "count" => i = 1
  /\ pc = "plan" => i <= Len(parsed) /\ Len(plans) = i - 1
  /\ pc \in CheckLoops => i <= Len(plans)

(* What the dictionaries and sets say about the plans a loop has passed. *)
Registered(k) ==
  LET source == plans[k].source IN
    IF source.database = <<>> THEN Comparison(source.name) \in unqualified
                              ELSE SourceKey(source) \in qualified

TargetChecked(k) ==
  /\ HiveKey(plans[k]) \in hiveTargets
  /\ GreenplumKeys(plans[k]) \subseteq greenplumTargets
  /\ ExternalKey(plans[k]) # PhysicalKey(plans[k])
  /\ \A j \in DOMAIN plans : ~ Overwrites(plans[k], plans[j].source)
  /\ \A j \in 1..(k - 1) :
       /\ HiveKey(plans[j]) # HiveKey(plans[k])
       /\ GreenplumKeys(plans[j]) \cap GreenplumKeys(plans[k]) = {}

NameChecked(k) ==
  /\ Filenames(plans[k]) \subseteq filenames
  /\ ~ duplicates => \A j \in 1..(k - 1) :
       Comparison(Stem(plans[j].source)) # Comparison(Stem(plans[k].source))

Passed ==
  /\ pc = "sources" => \A k \in 1..(i - 1) : Registered(k)
  /\ pc \in {"targets", "names", "render", "accepted"} =>
       \A k \in DOMAIN plans : Registered(k)
  /\ pc = "targets" => \A k \in 1..(i - 1) : TargetChecked(k)
  /\ pc \in {"names", "render", "accepted"} => \A k \in DOMAIN plans : TargetChecked(k)
  /\ pc = "names" => \A k \in 1..(i - 1) : NameChecked(k)
  /\ pc \in {"render", "accepted"} => ~ duplicates /\ \A k \in DOMAIN plans : NameChecked(k)

PlanInv == Typed /\ Indexed /\ Passed

-----------------------------------------------------------------------------
LEMMA RenderIsText ==
  ASSUME NEW template \in Template, NEW table \in Table
  PROVE  Render(template, table) \in Text
<1>1. template.prefix \in Seq(Tokens) /\ table.database \in Seq(Tokens)
      /\ table.name \in Seq(Tokens) /\ <<>> \in Seq(Tokens)
  BY DEF Template, Table, Text
<1> DEFINE d == IF template.database THEN table.database ELSE <<>>
           t == IF template.table THEN table.name ELSE <<>>
<1>2. d \in Seq(Tokens) /\ t \in Seq(Tokens)
  BY <1>1
<1>3. template.prefix \o d \o t \in Seq(Tokens)
  BY <1>1, <1>2
<1> QED
  BY <1>3 DEF Render, Text

LEMMA PlanIsRecord ==
  ASSUME config \in Config, NEW table \in Table
  PROVE  Plan(table) \in PlanRecord
<1>1. config.hive \in Template /\ config.external \in Template /\ config.physical \in Template
  BY DEF Config
<1> QED
  BY <1>1, RenderIsText DEF Plan, PlanRecord

LEMMA PlanInit == Init => PlanInv
<1> SUFFICES ASSUME Init PROVE PlanInv
  OBVIOUS
<1>1. files \in Seq(File) /\ files # <<>> /\ config \in Config
  BY BatchesAssumption, ConfigsAssumption DEF Init
<1>2. Typed /\ Indexed
  <2>1. Len(files) \in Nat /\ Len(files) # 0
    BY <1>1
  <2> QED
    BY <1>1, <2>1 DEF Init, Typed, Indexed, CheckLoops, Ended
<1>3. Passed
  BY DEF Init, Passed
<1> QED
  BY <1>2, <1>3 DEF PlanInv

-----------------------------------------------------------------------------
(* Reading and planning. *)

LEMMA ParseStep == ASSUME PlanInv, ParseFile PROVE PlanInv'
<1> DEFINE file == files[i]
<1>1. UNCHANGED <<inputs, plans, keys>>
  BY DEF ParseFile
<1>2. file \in File /\ i \in Nat /\ Len(plans) = 0 /\ i <= Len(files)
  BY DEF ParseFile, PlanInv, Typed, Indexed
<1>3. file.tables \in Seq(Table) /\ (file.parses => file.tables # <<>>)
  BY <1>2 DEF File
<1>4. parsed \in Seq(Table)
  BY DEF PlanInv, Typed
<1>5. CASE pc' \in {"syntax", "limit"} /\ UNCHANGED <<parsed, i>>
  BY <1>1, <1>5 DEF PlanInv, Typed, Indexed, Passed, CheckLoops, Ended, inputs
<1>6. CASE /\ file.parses /\ parsed' = parsed \o file.tables
           /\ Advance("parse", "count", Len(files))
  <2>1. parsed' \in Seq(Table) /\ parsed' # <<>>
    BY <1>3, <1>4, <1>6
  <2>2. \/ pc' = "parse" /\ i' = i + 1 /\ i' <= Len(files)
        \/ pc' = "count" /\ i' = 1
    BY <1>2, <1>6 DEF Advance, PlanInv, Typed
  <2>3. Typed'
    BY <1>1, <2>1, <2>2 DEF PlanInv, Typed, inputs
  <2>4. Indexed'
    BY <1>1, <1>2, <2>1, <2>2 DEF Indexed, CheckLoops, inputs
  <2>5. Passed'
    BY <2>2 DEF Passed
  <2> QED
    BY <2>3, <2>4, <2>5 DEF PlanInv
<1> QED
  BY <1>5, <1>6 DEF ParseFile, Reject

LEMMA CountStep == ASSUME PlanInv, CountArtifacts PROVE PlanInv'
<1>1. UNCHANGED <<inputs, i, parsed, plans, keys>> /\ pc = "count" /\ pc' \in {"limit", "plan"}
  BY DEF CountArtifacts
<1>2. Len(parsed) \in Nat /\ Len(parsed) # 0 /\ i = 1 /\ Len(plans) = 0
  BY <1>1 DEF PlanInv, Typed, Indexed
<1>3. Typed'
  BY <1>1 DEF PlanInv, Typed, inputs, Ended
<1>4. Indexed'
  BY <1>1, <1>2 DEF PlanInv, Typed, Indexed, CheckLoops
<1>5. Passed'
  BY <1>1 DEF Passed
<1> QED
  BY <1>3, <1>4, <1>5 DEF PlanInv

LEMMA PlanStep == ASSUME PlanInv, PlanTable PROVE PlanInv'
<1>1. UNCHANGED <<inputs, parsed, keys>> /\ pc = "plan"
  BY DEF PlanTable
<1>2. i \in 1..Len(parsed) /\ Len(plans) = i - 1 /\ Len(parsed) \in Nat
  BY <1>1 DEF PlanInv, Typed, Indexed
<1>3. parsed[i] \in Table /\ config \in Config
  BY <1>2 DEF PlanInv, Typed
<1>4. CASE pc' = "invalid table" /\ UNCHANGED <<plans, i>>
  BY <1>1, <1>4 DEF PlanInv, Typed, Indexed, Passed, CheckLoops, Ended, inputs
<1>5. CASE plans' = Append(plans, Plan(parsed[i])) /\ Advance("plan", "sources", Len(parsed))
  <2>1. plans' \in Seq(PlanRecord) /\ Len(plans') = i
    BY <1>2, <1>3, <1>5, PlanIsRecord DEF PlanInv, Typed
  <2>2. \/ pc' = "plan" /\ i' = i + 1 /\ i' <= Len(parsed)
        \/ pc' = "sources" /\ i' = 1
    BY <1>2, <1>5 DEF Advance
  <2>3. Typed'
    BY <1>1, <2>1, <2>2 DEF PlanInv, Typed, CheckLoops, inputs
  <2>4. Indexed'
    BY <1>1, <1>2, <2>1, <2>2 DEF PlanInv, Indexed, CheckLoops
  <2>5. Passed'
    BY <2>2 DEF Passed
  <2> QED
    BY <2>3, <2>4, <2>5 DEF PlanInv
<1> QED
  BY <1>4, <1>5 DEF PlanTable, Reject

-----------------------------------------------------------------------------
(* What a loop has recorded of a plan stays recorded. *)

LEMMA RegisteredStays ==
  ASSUME UNCHANGED <<inputs, plans>>, NEW k, Registered(k),
         qualified \subseteq qualified', unqualified \subseteq unqualified'
  PROVE  Registered(k)'
BY DEF Registered, SourceKey, Comparison

LEMMA TargetStays ==
  ASSUME UNCHANGED <<inputs, plans>>, NEW k, TargetChecked(k),
         hiveTargets \subseteq hiveTargets', greenplumTargets \subseteq greenplumTargets'
  PROVE  TargetChecked(k)'
<1>1. /\ HiveKey(plans[k])' \in hiveTargets'
      /\ GreenplumKeys(plans[k])' \subseteq greenplumTargets'
      /\ ExternalKey(plans[k])' # PhysicalKey(plans[k])'
  BY DEF TargetChecked, HiveKey, GreenplumKeys, ExternalKey, PhysicalKey, Comparison, inputs
<1>2. \A j \in DOMAIN plans' : ~ Overwrites(plans[k], plans[j].source)'
  BY DEF TargetChecked, Overwrites, Comparison, inputs
<1>3. ASSUME NEW j \in 1..(k - 1)
      PROVE  /\ HiveKey(plans[j])' # HiveKey(plans[k])'
             /\ GreenplumKeys(plans[j])' \cap GreenplumKeys(plans[k])' = {}
  BY DEF TargetChecked, HiveKey, GreenplumKeys, ExternalKey, PhysicalKey, Comparison, inputs
<1> QED
  BY <1>1, <1>2, <1>3 DEF TargetChecked

LEMMA NameStays ==
  ASSUME UNCHANGED <<inputs, plans>>, NEW k, NameChecked(k),
         filenames \subseteq filenames', ~ duplicates' => ~ duplicates
  PROVE  NameChecked(k)'
BY DEF NameChecked, Filenames

(* The loops over the plans leave the tables and plans alone. *)
LEMMA CheckTyping ==
  ASSUME PlanInv, UNCHANGED <<inputs, parsed, plans>>, pc \in CheckLoops,
         \/ pc' \in Ended /\ i' \in Nat \ {0}
         \/ pc' \in CheckLoops /\ i' \in 1..Len(plans)
  PROVE  Typed' /\ Indexed'
<1>1. Typed'
  BY DEF PlanInv, Typed, inputs, CheckLoops, Ended
<1>2. Len(plans) \in Nat /\ plans' = plans
  BY DEF PlanInv, Typed
<1>3. i' \in Nat \ {0} /\ (pc' \in CheckLoops => i' <= Len(plans'))
  <2>1. CASE pc' \in Ended /\ i' \in Nat \ {0}
    BY <2>1 DEF CheckLoops, Ended
  <2>2. CASE pc' \in CheckLoops /\ i' \in 1..Len(plans)
    BY <1>2, <2>2
  <2> QED
    BY <2>1, <2>2
<1>4. pc' \notin {"parse", "count", "plan"}
  BY DEF CheckLoops, Ended
<1>5. Indexed'
  BY <1>3, <1>4 DEF Indexed
<1> QED
  BY <1>1, <1>5

LEMMA LoopBounds ==
  ASSUME PlanInv, pc \in CheckLoops
  PROVE  i \in Nat /\ 1 <= i /\ i <= Len(plans) /\ Len(plans) \in Nat
<1>1. plans \in Seq(PlanRecord) /\ i \in Nat \ {0} /\ i <= Len(plans)
  BY DEF PlanInv, Typed, Indexed
<1> QED
  BY <1>1

LEMMA SourceStep == ASSUME PlanInv, RegisterSource PROVE PlanInv'
<1>1. /\ UNCHANGED <<inputs, parsed, plans, hiveTargets, greenplumTargets, filenames, duplicates>>
      /\ pc = "sources"
      /\ qualified \subseteq qualified' /\ unqualified \subseteq unqualified'
  BY DEF RegisterSource
<1>2. i \in Nat /\ 1 <= i /\ i <= Len(plans) /\ Len(plans) \in Nat
  BY <1>1, LoopBounds DEF CheckLoops
<1>3. ASSUME NEW k, k = i PROVE Registered(k)'
  BY <1>1, <1>3 DEF RegisterSource, Registered, SourceKey, Comparison
<1>4. \A k \in 1..i : Registered(k)'
  <2>1. \A k \in 1..(i - 1) : Registered(k)'
    BY <1>1, RegisteredStays DEF PlanInv, Passed
  <2> QED
    BY <1>2, <1>3, <2>1
<1>5. \/ pc' = "sources" /\ i' = i + 1 /\ i < Len(plans)
      \/ pc' = "targets" /\ i' = 1 /\ i = Len(plans)
  BY <1>1, <1>2 DEF RegisterSource, Advance
<1>6. Typed' /\ Indexed'
  <2>1. pc' \in CheckLoops /\ i' \in 1..Len(plans)
    BY <1>2, <1>5 DEF CheckLoops
  <2> QED
    BY <1>1, <2>1, CheckTyping DEF CheckLoops
<1>7. Passed'
  <2>1. CASE pc' = "sources" /\ i' = i + 1
    <3>1. \A k \in 1..(i' - 1) : Registered(k)'
      BY <1>2, <1>4, <2>1
    <3> QED
      BY <2>1, <3>1 DEF Passed
  <2>2. CASE pc' = "targets" /\ i' = 1 /\ i = Len(plans)
    <3>1. \A k \in DOMAIN plans' : Registered(k)'
      BY <1>1, <1>2, <1>4, <2>2
    <3> QED
      BY <2>2, <3>1 DEF Passed
  <2> QED
    BY <1>5, <2>1, <2>2
<1> QED
  BY <1>6, <1>7 DEF PlanInv

-----------------------------------------------------------------------------
(* Two lookups find every source that an INSERT would write over. *)
LEMMA LookupsSuffice ==
  ASSUME NEW plan, NEW k, Registered(k), ~ HitsSource(plan)
  PROVE  ~ Overwrites(plan, plans[k].source)
BY DEF Registered, HitsSource, Overwrites, HiveKey, SourceKey

LEMMA TargetStep == ASSUME PlanInv, CheckTargets PROVE PlanInv'
<1> DEFINE plan == plans[i]
<1>1. /\ UNCHANGED <<inputs, parsed, plans, qualified, unqualified, filenames, duplicates>>
      /\ pc = "targets"
  BY DEF CheckTargets
<1>2. i \in Nat /\ 1 <= i /\ i <= Len(plans) /\ Len(plans) \in Nat
  BY <1>1, LoopBounds DEF CheckLoops
<1>3. \A k \in DOMAIN plans : Registered(k)'
  BY <1>1, RegisteredStays DEF PlanInv, Passed
<1>4. CASE pc' = "collision" /\ i' = i
  <2>1. Typed' /\ Indexed'
    BY <1>1, <1>2, <1>4, CheckTyping DEF CheckLoops, Ended
  <2>2. Passed'
    BY <1>4 DEF Passed
  <2> QED
    BY <2>1, <2>2 DEF PlanInv
<1>5. CASE /\ HiveKey(plan) \notin hiveTargets /\ ~ HitsSource(plan) /\ ~ HitsGreenplumTarget(plan)
           /\ hiveTargets' = hiveTargets \cup {HiveKey(plan)}
           /\ greenplumTargets' = greenplumTargets \cup {ExternalKey(plan), PhysicalKey(plan)}
           /\ Advance("targets", "names", Len(plans))
  <2>1. \A k \in 1..(i - 1) : TargetChecked(k)
    BY <1>1 DEF PlanInv, Passed
  <2>2. \A j \in DOMAIN plans : ~ Overwrites(plan, plans[j].source)
    BY <1>1, <1>5, LookupsSuffice DEF PlanInv, Passed
  <2>3. ASSUME NEW j \in 1..(i - 1)
        PROVE  /\ HiveKey(plans[j]) # HiveKey(plan)
               /\ GreenplumKeys(plans[j]) \cap GreenplumKeys(plan) = {}
    <3>1. HiveKey(plans[j]) \in hiveTargets /\ GreenplumKeys(plans[j]) \subseteq greenplumTargets
      BY <2>1 DEF TargetChecked
    <3> QED
      BY <1>5, <3>1 DEF HitsGreenplumTarget, GreenplumKeys
  <2>4. ASSUME NEW k, k = i PROVE TargetChecked(k)'
    <3>1. /\ HiveKey(plans[k])' \in hiveTargets'
          /\ GreenplumKeys(plans[k])' \subseteq greenplumTargets'
          /\ ExternalKey(plans[k])' # PhysicalKey(plans[k])'
      BY <1>1, <1>5, <2>4 DEF HiveKey, GreenplumKeys, ExternalKey, PhysicalKey, Comparison, inputs,
                        HitsGreenplumTarget
    <3>2. \A j \in DOMAIN plans' : ~ Overwrites(plans[k], plans[j].source)'
      BY <1>1, <2>2, <2>4 DEF Overwrites, Comparison, inputs
    <3>3. ASSUME NEW j \in 1..(k - 1)
          PROVE  /\ HiveKey(plans[j])' # HiveKey(plans[k])'
                 /\ GreenplumKeys(plans[j])' \cap GreenplumKeys(plans[k])' = {}
      BY <1>1, <2>3, <2>4 DEF HiveKey, GreenplumKeys, ExternalKey, PhysicalKey, Comparison, inputs
    <3> QED
      BY <3>1, <3>2, <3>3 DEF TargetChecked
  <2>5. \A k \in 1..i : TargetChecked(k)'
    <3>1. \A k \in 1..(i - 1) : TargetChecked(k)'
      BY <1>1, <1>5, <2>1, TargetStays
    <3> QED
      BY <1>2, <2>4, <3>1
  <2>6. \/ pc' = "targets" /\ i' = i + 1 /\ i < Len(plans)
        \/ pc' = "names" /\ i' = 1 /\ i = Len(plans)
    BY <1>2, <1>5 DEF Advance
  <2>7. Typed' /\ Indexed'
    <3>1. pc' \in CheckLoops /\ i' \in 1..Len(plans)
      BY <1>2, <2>6 DEF CheckLoops
    <3> QED
      BY <1>1, <3>1, CheckTyping DEF CheckLoops
  <2>8. CASE pc' = "targets" /\ i' = i + 1
    <3>1. \A k \in 1..(i' - 1) : TargetChecked(k)'
      BY <1>2, <2>5, <2>8
    <3>2. Passed'
      BY <1>1, <1>3, <2>8, <3>1 DEF Passed
    <3> QED
      BY <2>7, <3>2 DEF PlanInv
  <2>9. CASE pc' = "names" /\ i' = 1 /\ i = Len(plans)
    <3>1. (\A k \in DOMAIN plans' : TargetChecked(k)') /\ 1..(i' - 1) = {}
      BY <1>1, <1>2, <2>5, <2>9
    <3>2. Passed'
      BY <1>1, <1>3, <2>9, <3>1 DEF Passed
    <3> QED
      BY <2>7, <3>2 DEF PlanInv
  <2> QED
    BY <2>6, <2>8, <2>9
<1> QED
  BY <1>4, <1>5 DEF CheckTargets, Reject

LEMMA NameStep == ASSUME PlanInv, CheckNames PROVE PlanInv'
<1> DEFINE names == Filenames(plans[i])
<1>1. /\ UNCHANGED <<inputs, parsed, plans, qualified, unqualified, hiveTargets, greenplumTargets>>
      /\ pc = "names"
      /\ filenames' = filenames \cup names
      /\ ~ duplicates' => ~ duplicates /\ names \cap filenames = {}
  BY DEF CheckNames
<1>2. i \in Nat /\ 1 <= i /\ i <= Len(plans) /\ Len(plans) \in Nat
  BY <1>1, LoopBounds DEF CheckLoops
<1>3. \A k \in DOMAIN plans : Registered(k)' /\ TargetChecked(k)'
  BY <1>1, RegisteredStays, TargetStays DEF PlanInv, Passed
<1>4. \A k \in 1..(i - 1) : NameChecked(k)
  BY <1>1 DEF PlanInv, Passed
<1>5. ASSUME ~ duplicates', NEW j \in 1..(i - 1)
      PROVE  Comparison(Stem(plans[j].source)) # Comparison(Stem(plans[i].source))
  <2>1. Filenames(plans[j]) \subseteq filenames /\ names \cap filenames = {}
    BY <1>1, <1>4, <1>5 DEF NameChecked
  <2> QED
    BY <2>1, RolesAssumption DEF Filenames
<1>6. ASSUME NEW k, k = i PROVE NameChecked(k)'
  <2>1. Filenames(plans[k])' \subseteq filenames'
    BY <1>1, <1>6 DEF Filenames
  <2>2. ASSUME ~ duplicates', NEW j \in 1..(k - 1)
        PROVE  Comparison(Stem(plans[j].source))' # Comparison(Stem(plans[k].source))'
    <3>1. /\ Comparison(Stem(plans[j].source))' = Comparison(Stem(plans[j].source))
          /\ Comparison(Stem(plans[k].source))' = Comparison(Stem(plans[k].source))
      BY <1>1
    <3> QED
      BY <1>5, <1>6, <2>2, <3>1
  <2> QED
    BY <2>1, <2>2 DEF NameChecked
<1>7. \A k \in 1..i : NameChecked(k)'
  <2>1. \A k \in 1..(i - 1) : NameChecked(k)'
    BY <1>1, <1>4, NameStays
  <2> QED
    BY <1>2, <1>6, <2>1
<1>8. \/ pc' = "names" /\ i' = i + 1 /\ i < Len(plans)
      \/ pc' = "render" /\ ~ duplicates' /\ i' = 1 /\ i = Len(plans)
      \/ pc' = "collision" /\ i' = 1 /\ i = Len(plans)
  BY <1>1, <1>2 DEF CheckNames, Advance
<1>9. Typed' /\ Indexed'
  <2>1. \/ pc' \in Ended /\ i' \in Nat \ {0}
        \/ pc' \in CheckLoops /\ i' \in 1..Len(plans)
    <3>1. CASE pc' = "names" /\ i' = i + 1 /\ i < Len(plans)
      BY <1>2, <3>1 DEF CheckLoops
    <3>2. CASE pc' = "render" /\ i' = 1 /\ i = Len(plans)
      BY <1>2, <3>2 DEF CheckLoops
    <3>3. CASE pc' = "collision" /\ i' = 1
      BY <3>3 DEF Ended
    <3> QED
      BY <1>8, <3>1, <3>2, <3>3
  <2> QED
    BY <1>1, <2>1, CheckTyping DEF CheckLoops
<1>10. CASE pc' = "names" /\ i' = i + 1
  <2>1. \A k \in 1..(i' - 1) : NameChecked(k)'
    BY <1>2, <1>7, <1>10
  <2>2. Passed'
    BY <1>1, <1>3, <1>10, <2>1 DEF Passed
  <2> QED
    BY <1>9, <2>2 DEF PlanInv
<1>11. CASE pc' = "render" /\ ~ duplicates' /\ i = Len(plans)
  <2>1. \A k \in DOMAIN plans' : NameChecked(k)'
    BY <1>1, <1>2, <1>7, <1>11
  <2>2. Passed'
    BY <1>1, <1>3, <1>11, <2>1 DEF Passed
  <2> QED
    BY <1>9, <2>2 DEF PlanInv
<1>12. CASE pc' = "collision"
  BY <1>9, <1>12 DEF PlanInv, Passed
<1> QED
  BY <1>8, <1>10, <1>11, <1>12

LEMMA RenderStep == ASSUME PlanInv, RenderPlan PROVE PlanInv'
<1>1. UNCHANGED <<inputs, parsed, plans, keys>> /\ pc = "render"
  BY DEF RenderPlan
<1>2. i \in Nat /\ 1 <= i /\ i <= Len(plans) /\ Len(plans) \in Nat
  BY <1>1, LoopBounds DEF CheckLoops
<1>3. \/ pc' = "render" /\ i' = i + 1 /\ i < Len(plans)
      \/ pc' = "accepted" /\ i' = 1
      \/ pc' = "not rendered" /\ i' = i
  BY <1>2 DEF RenderPlan, Advance, Reject
<1>4. Typed' /\ Indexed'
  <2>1. \/ pc' \in Ended /\ i' \in Nat \ {0}
        \/ pc' \in CheckLoops /\ i' \in 1..Len(plans)
    <3>1. CASE pc' = "render" /\ i' = i + 1 /\ i < Len(plans)
      BY <1>2, <3>1 DEF CheckLoops
    <3>2. CASE pc' = "accepted" /\ i' = 1
      BY <3>2 DEF Ended
    <3>3. CASE pc' = "not rendered" /\ i' = i
      <4>1. i \in Nat /\ i # 0
        BY <1>2
      <4>2. i' \in Nat \ {0}
        BY <3>3, <4>1
      <4>3. pc' \in Ended
        BY <3>3 DEF Ended
      <4> QED
        BY <4>2, <4>3
    <3> QED
      BY <1>3, <3>1, <3>2, <3>3
  <2> QED
    BY <1>1, <2>1, CheckTyping DEF CheckLoops
<1>5. \A k \in DOMAIN plans' : Registered(k)' /\ TargetChecked(k)' /\ NameChecked(k)'
  BY <1>1, RegisteredStays, TargetStays, NameStays DEF PlanInv, Passed, keys
<1>6. Passed'
  BY <1>1, <1>3, <1>5 DEF Passed, PlanInv, keys
<1> QED
  BY <1>4, <1>6 DEF PlanInv

LEMMA Stutter == ASSUME PlanInv, UNCHANGED vars PROVE PlanInv'
<1>1. Typed' /\ Indexed'
  BY DEF PlanInv, Typed, Indexed, vars, inputs
<1>2. \A k : /\ Registered(k) => Registered(k)'
             /\ TargetChecked(k) => TargetChecked(k)'
             /\ NameChecked(k) => NameChecked(k)'
  BY RegisteredStays, TargetStays, NameStays DEF vars, keys
<1>3. Passed'
  BY <1>2 DEF Passed, PlanInv, vars, keys
<1> QED
  BY <1>1, <1>3 DEF PlanInv

(* The dictionaries cover the plans already passed, in every state. *)
THEOREM PlanInvariant == Spec => []PlanInv
<1>1. ASSUME PlanInv, [Next]_vars PROVE PlanInv'
  BY <1>1, ParseStep, CountStep, PlanStep, SourceStep, TargetStep, NameStep, RenderStep, Stutter
     DEF Next, Step, Check, Finished
<1> QED
  BY <1>1, PlanInit, PTL DEF Spec

LEMMA InvImpliesSafe == ASSUME PlanInv PROVE AcceptedIsSafe
<1> SUFFICES ASSUME pc = "accepted" PROVE AcceptedIsSafe
  BY DEF AcceptedIsSafe
<1>1. /\ \A k \in DOMAIN plans : TargetChecked(k) /\ NameChecked(k)
      /\ ~ duplicates
  BY DEF PlanInv, Passed
<1>2. DOMAIN plans \subseteq Nat \ {0}
  BY DEF PlanInv, Typed
<1>3. ASSUME NEW j \in DOMAIN plans, NEW k \in DOMAIN plans, j < k
      PROVE  ~ Conflict(plans[j], plans[k]) /\ ~ Conflict(plans[k], plans[j])
  <2>1. j \in 1..(k - 1)
    BY <1>2, <1>3
  <2>2. /\ HiveKey(plans[j]) # HiveKey(plans[k])
        /\ GreenplumKeys(plans[j]) \cap GreenplumKeys(plans[k]) = {}
        /\ Comparison(Stem(plans[j].source)) # Comparison(Stem(plans[k].source))
    BY <1>1, <2>1 DEF TargetChecked, NameChecked
  <2> QED
    BY <2>2 DEF Conflict
<1>4. \A j, k \in DOMAIN plans : j # k => j < k \/ k < j
  BY <1>2
<1> QED
  BY <1>1, <1>3, <1>4 DEF AcceptedIsSafe, TargetChecked

(* No accepted batch, whatever its files, tables and names, has two tables  *)
(* that write to one place, or one that overwrites another's source.        *)
THEOREM AcceptedBatchesAreSafe == Spec => []AcceptedIsSafe
BY PlanInvariant, InvImpliesSafe, PTL

-----------------------------------------------------------------------------
(* Each plan is the plan of its table, which passed the check against itself. *)
Planned ==
  \A k \in DOMAIN plans :
    /\ k \in DOMAIN parsed /\ plans[k] = Plan(parsed[k])
    /\ ExternalKey(plans[k]) # PhysicalKey(plans[k])

SourcesOfPlans ==
  /\ \A key \in qualified : \E k \in DOMAIN plans : key = SourceKey(plans[k].source)
  /\ \A key \in unqualified : \E k \in DOMAIN plans :
       plans[k].source.database = <<>> /\ key = Comparison(plans[k].source.name)

TargetsOfPlans(passed) ==
  /\ \A key \in hiveTargets : \E k \in passed : key = HiveKey(plans[k])
  /\ \A key \in greenplumTargets : \E k \in passed : key \in GreenplumKeys(plans[k])

NamesOfPlans(passed) ==
  \A name \in filenames : \E k \in passed : name \in Filenames(plans[k])

Collides ==
  \E j, k \in DOMAIN plans :
    \/ Overwrites(plans[j], plans[k].source)
    \/ j # k /\ Conflict(plans[j], plans[k])

Recorded ==
  /\ pc \in {"parse", "count", "plan"} => qualified = {} /\ unqualified = {}
  /\ pc \in {"parse", "count", "plan", "sources"} => hiveTargets = {} /\ greenplumTargets = {}
  /\ pc \in {"parse", "count", "plan", "sources", "targets"} => filenames = {} /\ ~ duplicates
  /\ pc \in {"sources", "targets"} => SourcesOfPlans
  /\ pc = "targets" => TargetsOfPlans(1..(i - 1))
  /\ pc = "names" => NamesOfPlans(1..(i - 1)) /\ (duplicates => Collides)
  /\ pc = "collision" => Collides

RefusalInv == Planned /\ Recorded

-----------------------------------------------------------------------------
LEMMA RefusalInit == Init => RefusalInv
<1> SUFFICES ASSUME Init PROVE RefusalInv
  OBVIOUS
<1>1. DOMAIN plans = {}
  BY DEF Init
<1> QED
  BY <1>1 DEF Init, RefusalInv, Planned, Recorded

(* The loops over the plans leave the plans as they are. *)
LEMMA PlansStay ==
  ASSUME UNCHANGED <<inputs, parsed, plans>>
  PROVE  /\ Planned => Planned'
         /\ Collides => Collides'
<1>1. ASSUME NEW p, NEW q
      PROVE  /\ Plan(p)' = Plan(p)
             /\ ExternalKey(p)' = ExternalKey(p) /\ PhysicalKey(p)' = PhysicalKey(p)
             /\ Overwrites(p, q)' <=> Overwrites(p, q)
             /\ Conflict(p, q)' <=> Conflict(p, q)
  <2>1. config' = config
    BY DEF inputs
  <2>2. Plan(p)' = Plan(p)
    BY <2>1 DEF Plan, Render
  <2>3. ExternalKey(p)' = ExternalKey(p) /\ PhysicalKey(p)' = PhysicalKey(p)
    BY <2>1 DEF ExternalKey, PhysicalKey, Comparison
  <2>4. Overwrites(p, q)' <=> Overwrites(p, q)
    BY <2>1 DEF Overwrites, Comparison
  <2>5. Conflict(p, q)' <=> Conflict(p, q)
    BY <2>1 DEF Conflict, HiveKey, GreenplumKeys, ExternalKey, PhysicalKey, Comparison
  <2> QED
    BY <2>2, <2>3, <2>4, <2>5
<1> QED
  BY <1>1 DEF Planned, Collides

LEMMA CollisionFound ==
  ASSUME NEW j \in DOMAIN plans, NEW k \in DOMAIN plans,
         \/ Overwrites(plans[j], plans[k].source)
         \/ j # k /\ Conflict(plans[j], plans[k])
  PROVE  Collides
BY DEF Collides

LEMMA RefusalReading == ASSUME PlanInv, RefusalInv, ParseFile \/ CountArtifacts PROVE RefusalInv'
<1>1. UNCHANGED <<inputs, plans, keys>> /\ pc \in {"parse", "count"} /\ Len(plans) = 0
  BY DEF ParseFile, CountArtifacts, PlanInv, Indexed
<1>2. DOMAIN plans = {} /\ DOMAIN plans' = {}
  BY <1>1 DEF PlanInv, Typed
<1>3. pc' \in {"parse", "count", "plan", "syntax", "limit"}
  BY DEF ParseFile, CountArtifacts, Reject, Advance
<1> QED
  BY <1>1, <1>2, <1>3 DEF RefusalInv, Planned, Recorded, keys

LEMMA RefusalPlanning == ASSUME PlanInv, RefusalInv, PlanTable PROVE RefusalInv'
<1>1. UNCHANGED <<inputs, parsed, keys>> /\ pc = "plan"
  BY DEF PlanTable
<1>2. i \in 1..Len(parsed) /\ Len(plans) = i - 1 /\ Len(parsed) \in Nat /\ plans \in Seq(PlanRecord)
      /\ parsed \in Seq(Table)
  BY <1>1 DEF PlanInv, Typed, Indexed
<1>3. CASE pc' = "invalid table" /\ UNCHANGED <<plans, i>>
  BY <1>1, <1>3, PlansStay DEF RefusalInv, Recorded
<1>4. CASE TableOK(parsed[i]) /\ plans' = Append(plans, Plan(parsed[i]))
           /\ Advance("plan", "sources", Len(parsed))
  <2>1. pc' \in {"plan", "sources"}
    BY <1>4 DEF Advance
  <2>2. ASSUME NEW p
        PROVE  Plan(p)' = Plan(p) /\ ExternalKey(p)' = ExternalKey(p)
               /\ PhysicalKey(p)' = PhysicalKey(p)
    BY <1>1 DEF inputs, Plan, Render, ExternalKey, PhysicalKey, Comparison
  <2>3. ASSUME NEW k \in DOMAIN plans'
        PROVE  /\ k \in DOMAIN parsed' /\ plans'[k] = Plan(parsed[k])
               /\ ExternalKey(plans'[k]) # PhysicalKey(plans'[k])
    <3>1. k \in 1..i /\ DOMAIN parsed = 1..Len(parsed) /\ DOMAIN plans = 1..(i - 1)
      BY <1>2, <1>4
    <3>2. CASE k = i
      <4>1. plans'[k] = Plan(parsed[i])
        BY <1>2, <1>4, <3>2
      <4> QED
        BY <1>1, <1>2, <1>4, <3>1, <3>2, <4>1 DEF TableOK, OwnTargetsOK
    <3>3. CASE k # i
      <4>1. k \in DOMAIN plans /\ plans'[k] = plans[k]
        BY <1>2, <1>4, <3>1, <3>3
      <4> QED
        BY <1>1, <4>1 DEF RefusalInv, Planned
    <3> QED
      BY <3>2, <3>3
  <2>4. Planned'
    BY <1>1, <2>2, <2>3 DEF Planned
  <2>5. Recorded'
    BY <1>1, <2>1 DEF RefusalInv, Recorded, SourcesOfPlans, keys
  <2> QED
    BY <2>4, <2>5 DEF RefusalInv
<1> QED
  BY <1>1, <1>3, <1>4 DEF PlanTable, Reject

-----------------------------------------------------------------------------
LEMMA RefusalSource == ASSUME PlanInv, RefusalInv, RegisterSource PROVE RefusalInv'
<1>1. /\ UNCHANGED <<inputs, parsed, plans, hiveTargets, greenplumTargets, filenames, duplicates>>
      /\ pc = "sources" /\ pc' \in {"sources", "targets"}
  BY DEF RegisterSource, Advance
<1>2. i \in DOMAIN plans
  BY <1>1, LoopBounds DEF CheckLoops, PlanInv, Typed
<1>3. SourcesOfPlans'
  <2>1. ASSUME NEW t PROVE SourceKey(t)' = SourceKey(t)
    BY DEF SourceKey, Comparison
  <2>2. ASSUME NEW t PROVE Comparison(t)' = Comparison(t)
    BY DEF Comparison
  <2>3. \A key \in qualified' : \E k \in DOMAIN plans : key = SourceKey(plans[k].source)
    BY <1>1, <1>2 DEF RegisterSource, RefusalInv, Recorded, SourcesOfPlans
  <2>4. \A key \in unqualified' : \E k \in DOMAIN plans :
          plans[k].source.database = <<>> /\ key = Comparison(plans[k].source.name)
    BY <1>1, <1>2 DEF RegisterSource, RefusalInv, Recorded, SourcesOfPlans
  <2> QED
    BY <1>1, <2>1, <2>2, <2>3, <2>4 DEF SourcesOfPlans
<1>4. pc' = "targets" => TargetsOfPlans(1..(i - 1))'
  BY <1>1 DEF RefusalInv, Recorded, TargetsOfPlans
<1> QED
  BY <1>1, <1>3, <1>4, PlansStay DEF RefusalInv, Recorded, TargetsOfPlans

LEMMA RefusalTarget == ASSUME PlanInv, RefusalInv, CheckTargets PROVE RefusalInv'
<1> DEFINE plan == plans[i]
<1>1. /\ UNCHANGED <<inputs, parsed, plans, qualified, unqualified, filenames, duplicates>>
      /\ pc = "targets"
  BY DEF CheckTargets
<1>2. i \in Nat /\ i \in DOMAIN plans /\ DOMAIN plans = 1..Len(plans) /\ Len(plans) \in Nat
  BY <1>1, LoopBounds DEF CheckLoops, PlanInv, Typed
<1>3. SourcesOfPlans /\ TargetsOfPlans(1..(i - 1)) /\ filenames = {} /\ ~ duplicates /\ Planned
  BY <1>1 DEF RefusalInv, Recorded
<1>4. Planned'
  BY <1>1, <1>3, PlansStay
<1>5. ASSUME NEW p
      PROVE HiveKey(p)' = HiveKey(p) /\ GreenplumKeys(p)' = GreenplumKeys(p)
  BY <1>1 DEF inputs, HiveKey, GreenplumKeys, ExternalKey, PhysicalKey, Comparison
<1>6. CASE /\ HiveKey(plan) \in hiveTargets \/ HitsSource(plan) \/ HitsGreenplumTarget(plan)
           /\ pc' = "collision"
  <2>1. ASSUME HiveKey(plan) \in hiveTargets PROVE Collides
    <3>1. PICK k \in 1..(i - 1) : HiveKey(plan) = HiveKey(plans[k])
      BY <1>3, <2>1 DEF TargetsOfPlans
    <3> QED
      <4>1. k \in DOMAIN plans /\ i # k /\ Conflict(plans[i], plans[k])
        BY <1>2, <3>1 DEF Conflict
      <4> QED
        BY <1>2, <4>1, CollisionFound
  <2>2. ASSUME HiveKey(plan) \in qualified PROVE Collides
    <3>1. PICK k \in DOMAIN plans : HiveKey(plan) = SourceKey(plans[k].source)
      BY <1>3, <2>2 DEF SourcesOfPlans
    <3>2. Overwrites(plan, plans[k].source)
      BY <3>1 DEF Overwrites, HiveKey, SourceKey
    <3> QED
      BY <1>2, <3>2, CollisionFound
  <2>3. ASSUME Comparison(plan.hive) \in unqualified PROVE Collides
    <3>1. PICK k \in DOMAIN plans : plans[k].source.database = <<>>
                                    /\ Comparison(plan.hive) = Comparison(plans[k].source.name)
      BY <1>3, <2>3 DEF SourcesOfPlans
    <3>2. Overwrites(plan, plans[k].source)
      BY <3>1 DEF Overwrites
    <3> QED
      BY <1>2, <3>2, CollisionFound
  <2>4. ASSUME {ExternalKey(plan), PhysicalKey(plan)} \cap greenplumTargets # {} PROVE Collides
    <3>1. PICK key \in GreenplumKeys(plan) : key \in greenplumTargets
      BY <2>4 DEF GreenplumKeys
    <3>2. PICK k \in 1..(i - 1) : key \in GreenplumKeys(plans[k])
      BY <1>3, <3>1 DEF TargetsOfPlans
    <3>3. Conflict(plan, plans[k])
      BY <3>1, <3>2 DEF Conflict
    <3> QED
      <4>1. k \in DOMAIN plans /\ i # k
        BY <1>2
      <4> QED
        BY <1>2, <3>3, <4>1, CollisionFound
  <2>5. Collides
    <3>1. ExternalKey(plan) # PhysicalKey(plan)
      BY <1>2, <1>3 DEF Planned
    <3> QED
      BY <1>6, <2>1, <2>2, <2>3, <2>4, <3>1 DEF HitsSource, HitsGreenplumTarget
  <2> QED
    BY <1>1, <1>4, <1>6, <2>5, PlansStay DEF RefusalInv, Recorded
<1>7. CASE /\ hiveTargets' = hiveTargets \cup {HiveKey(plan)}
           /\ greenplumTargets' = greenplumTargets \cup {ExternalKey(plan), PhysicalKey(plan)}
           /\ Advance("targets", "names", Len(plans))
  <2>1. \A key \in hiveTargets' : \E k \in 1..i : key = HiveKey(plans[k])
    BY <1>2, <1>3, <1>7 DEF TargetsOfPlans
  <2>2. \A key \in greenplumTargets' : \E k \in 1..i : key \in GreenplumKeys(plans[k])
    BY <1>2, <1>3, <1>7 DEF TargetsOfPlans, GreenplumKeys
  <2>3. (pc' = "targets" /\ i' = i + 1) \/ pc' = "names"
    BY <1>7 DEF Advance
  <2>4. pc' = "targets" => TargetsOfPlans(1..(i - 1))'
    <3> SUFFICES ASSUME pc' = "targets" PROVE TargetsOfPlans(1..(i - 1))'
      OBVIOUS
    <3>1. i' - 1 = i
      BY <1>2, <2>3
    <3> QED
      BY <1>1, <1>5, <2>1, <2>2, <3>1 DEF TargetsOfPlans
  <2>5. SourcesOfPlans'
    BY <1>1, <1>3 DEF SourcesOfPlans, SourceKey, Comparison
  <2>6. pc' = "names" => NamesOfPlans(1..(i - 1))'
    BY <1>1, <1>3 DEF NamesOfPlans
  <2> QED
    BY <1>1, <1>3, <1>4, <2>3, <2>4, <2>5, <2>6 DEF RefusalInv, Recorded
<1> QED
  BY <1>1, <1>6, <1>7 DEF CheckTargets, Reject

LEMMA RefusalName == ASSUME PlanInv, RefusalInv, CheckNames PROVE RefusalInv'
<1> DEFINE names == Filenames(plans[i])
<1>1. /\ UNCHANGED <<inputs, parsed, plans>> /\ pc = "names"
      /\ duplicates' = (duplicates \/ names \cap filenames # {})
      /\ filenames' = filenames \cup names
      /\ Advance("names", IF duplicates' THEN "collision" ELSE "render", Len(plans))
  BY DEF CheckNames
<1>2. i \in Nat /\ i \in DOMAIN plans /\ DOMAIN plans = 1..Len(plans) /\ Len(plans) \in Nat
  BY <1>1, LoopBounds DEF CheckLoops, PlanInv, Typed
<1>3. NamesOfPlans(1..(i - 1)) /\ (duplicates => Collides)
  BY <1>1 DEF RefusalInv, Recorded
<1>4. Planned'
  BY <1>1, PlansStay DEF RefusalInv
<1>5. duplicates' => Collides
  <2> SUFFICES ASSUME names \cap filenames # {} PROVE Collides
    BY <1>1, <1>3
  <2>1. PICK name \in names : name \in filenames
    OBVIOUS
  <2>2. PICK k \in 1..(i - 1) : name \in Filenames(plans[k])
    BY <1>3, <2>1 DEF NamesOfPlans
  <2>3. Comparison(Stem(plans[i].source)) = Comparison(Stem(plans[k].source))
    BY <2>1, <2>2 DEF Filenames
  <2> QED
    BY <1>2, <2>3 DEF Collides, Conflict
<1>6. duplicates' => Collides'
  BY <1>1, <1>5, PlansStay
<1>7. \A name \in filenames' : \E k \in 1..i : name \in Filenames(plans[k])
  BY <1>1, <1>2, <1>3 DEF NamesOfPlans
<1>8. pc' = "names" => NamesOfPlans(1..(i - 1))'
  <2> SUFFICES ASSUME pc' = "names" PROVE NamesOfPlans(1..(i - 1))'
    OBVIOUS
  <2>1. i' = i + 1 /\ i' - 1 = i
    BY <1>1, <1>2 DEF Advance
  <2>2. ASSUME NEW p PROVE Filenames(p)' = Filenames(p)
    BY DEF Filenames
  <2> QED
    BY <1>1, <1>7, <2>1, <2>2 DEF NamesOfPlans
<1>9. pc' \in {"names", "render"} \/ (pc' = "collision" /\ duplicates')
  <2>1. Advance("names", IF duplicates' THEN "collision" ELSE "render", Len(plans))
    BY <1>1
  <2>2. pc' = "names" \/ pc' = (IF duplicates' THEN "collision" ELSE "render")
    BY <2>1 DEF Advance
  <2> QED
    BY <2>2
<1> QED
  BY <1>4, <1>6, <1>8, <1>9 DEF RefusalInv, Recorded

LEMMA RefusalRender == ASSUME RefusalInv, RenderPlan PROVE RefusalInv'
<1>1. UNCHANGED <<inputs, parsed, plans>> /\ pc' \in {"render", "accepted", "not rendered"}
  BY DEF RenderPlan, Advance, Reject
<1> QED
  BY <1>1, PlansStay DEF RefusalInv, Recorded

LEMMA RefusalStutter == ASSUME RefusalInv, UNCHANGED vars PROVE RefusalInv'
<1>1. UNCHANGED <<inputs, parsed, plans, pc, i, keys>>
  BY DEF vars
<1>2. SourcesOfPlans => SourcesOfPlans'
  BY <1>1 DEF SourcesOfPlans, SourceKey, Comparison, keys
<1>3. TargetsOfPlans(1..(i - 1)) => TargetsOfPlans(1..(i - 1))'
  BY <1>1 DEF TargetsOfPlans, HiveKey, GreenplumKeys, ExternalKey, PhysicalKey, Comparison,
     keys, inputs
<1>4. NamesOfPlans(1..(i - 1)) => NamesOfPlans(1..(i - 1))'
  BY <1>1 DEF NamesOfPlans, Filenames, keys
<1> QED
  BY <1>1, <1>2, <1>3, <1>4, PlansStay DEF RefusalInv, Recorded, keys

-----------------------------------------------------------------------------
(* In every state the dictionaries hold only what a table of the batch put  *)
(* there, and each plan is the plan of its table.                           *)
THEOREM RefusalInvariant == Spec => []RefusalInv
<1>1. Init => PlanInv /\ RefusalInv
  BY PlanInit, RefusalInit
<1>2. PlanInv /\ RefusalInv /\ [Next]_vars => RefusalInv'
  <2> SUFFICES ASSUME PlanInv, RefusalInv, [Next]_vars PROVE RefusalInv'
    OBVIOUS
  <2>1. CASE ParseFile \/ CountArtifacts
    BY <2>1, RefusalReading
  <2>2. CASE PlanTable
    BY <2>2, RefusalPlanning
  <2>3. CASE RegisterSource
    BY <2>3, RefusalSource
  <2>4. CASE CheckTargets
    BY <2>4, RefusalTarget
  <2>5. CASE CheckNames
    BY <2>5, RefusalName
  <2>6. CASE RenderPlan
    BY <2>6, RefusalRender
  <2>7. CASE UNCHANGED vars
    BY <2>7, RefusalStutter
  <2> QED
    BY <2>1, <2>2, <2>3, <2>4, <2>5, <2>6, <2>7 DEF Next, Step, Check, Finished
<1> QED
  BY <1>1, <1>2, PlanInvariant, PTL DEF Spec

(* A batch refused for a collision has two tables that collide, or one that *)
(* overwrites a source of the batch: no entry of a dictionary is left over  *)
(* from anything but a table, and the order of the tables does not decide.  *)
THEOREM RefusalIsReal == Spec => []CollisionIsReal
<1>1. RefusalInv => CollisionIsReal
  <2> SUFFICES ASSUME RefusalInv, pc = "collision"
        PROVE  \E j, k \in DOMAIN parsed :
                 \/ Overwrites(Plan(parsed[j]), parsed[k])
                 \/ j # k /\ Conflict(Plan(parsed[j]), Plan(parsed[k]))
    BY DEF CollisionIsReal
  <2>1. PICK j, k \in DOMAIN plans : \/ Overwrites(plans[j], plans[k].source)
                                     \/ j # k /\ Conflict(plans[j], plans[k])
    BY DEF RefusalInv, Recorded, Collides
  <2>2. /\ j \in DOMAIN parsed /\ plans[j] = Plan(parsed[j])
        /\ k \in DOMAIN parsed /\ plans[k] = Plan(parsed[k])
    BY DEF RefusalInv, Planned
  <2>3. plans[k].source = parsed[k]
    BY <2>2 DEF Plan
  <2> QED
    BY <2>1, <2>2, <2>3
<1> QED
  BY <1>1, RefusalInvariant, PTL

VerdictTyped == duplicates \in BOOLEAN

(* The planner is well typed in every state: its plans are those of the     *)
(* tables read, in order, and its position is inside the list it runs over. *)
THEOREM PlannerTyping == Spec => []TypeOK
<1>1. Init => VerdictTyped
  BY DEF Init, VerdictTyped
<1>2. VerdictTyped /\ [Next]_vars => VerdictTyped'
  <2>1. [Next]_vars => (duplicates' = duplicates) \/ CheckNames
    BY DEF Next, Step, Check, Finished, ParseFile, CountArtifacts, PlanTable, RegisterSource,
       CheckTargets, RenderPlan, vars, keys
  <2> QED
    BY <2>1 DEF CheckNames, VerdictTyped
<1>3. PlanInv /\ RefusalInv /\ VerdictTyped => TypeOK
  <2> SUFFICES ASSUME PlanInv, RefusalInv, VerdictTyped PROVE TypeOK
    OBVIOUS
  <2>1. /\ DOMAIN plans = 1..Len(plans) /\ DOMAIN parsed = 1..Len(parsed)
        /\ DOMAIN files = 1..Len(files) /\ i \in Nat \ {0}
        /\ Len(plans) \in Nat /\ Len(parsed) \in Nat /\ Len(files) \in Nat
    BY DEF PlanInv, Typed, Indexed
  <2>2. DOMAIN plans \subseteq DOMAIN parsed
    BY DEF RefusalInv, Planned
  <2>3. Len(plans) <= Len(parsed)
    BY <2>1, <2>2
  <2>4. /\ pc = "parse" => i \in DOMAIN files
        /\ pc \in {"plan", "sources", "targets", "names", "render"} => i \in DOMAIN parsed
    BY <2>1, <2>3 DEF PlanInv, Indexed, CheckLoops
  <2> QED
    BY <2>3, <2>4 DEF TypeOK, PlanInv, Typed, RefusalInv, Planned, CheckLoops,
       VerdictTyped
<1> QED
  BY <1>1, <1>2, <1>3, PlanInvariant, RefusalInvariant, PTL DEF Spec

-----------------------------------------------------------------------------
(* The sum over the tables, by induction over the sets of their positions.  *)
LEMMA ColumnCountTyping == ASSUME NEW tables \in Seq(Table) PROVE ColumnCount(tables) \in Nat
<1> DEFINE D == SUBSET (1..Len(tables))
           pick(s) == CHOOSE x \in s : TRUE
           size(k) == Len(tables[k].columns)
           body(s, sum) == IF s = {} THEN 0 ELSE size(pick(s)) + sum[s \ {pick(s)}]
           Sums(sum) == sum = [s \in D |-> body(s, sum)]
           rank == [s \in D |-> Cardinality(s)]
           F == [s \in D |-> [sum \in [D -> Nat] |-> body(s, sum)]]
           bound == Len(tables) + 1
<1>1. Len(tables) \in Nat /\ DOMAIN tables = 1..Len(tables)
  OBVIOUS
<1>2. \A k \in 1..Len(tables) : size(k) \in Nat
  BY DEF Table, Text
<1>3. /\ rank \in [D -> Nat] /\ bound \in Nat
      /\ \A s \in D : IsFiniteSet(s) /\ rank[s] < bound
  <2>1. IsFiniteSet(1..Len(tables)) /\ Cardinality(1..Len(tables)) = Len(tables)
    BY <1>1, FS_Interval
  <2>2. \A s \in D : IsFiniteSet(s) /\ Cardinality(s) \in Nat /\ Cardinality(s) <= Len(tables)
    BY <2>1, FS_Subset, FS_CardinalityType
  <2> QED
    BY <1>1, <2>2
<1>4. ASSUME NEW s \in D, s # {}
      PROVE  pick(s) \in s /\ s \ {pick(s)} \in D /\ rank[s \ {pick(s)}] < rank[s]
  <2>1. pick(s) \in s
    BY <1>4
  <2> HIDE DEF pick
  <2>2. s \ {pick(s)} \in D
    OBVIOUS
  <2>3. Cardinality(s \ {pick(s)}) = Cardinality(s) - 1 /\ Cardinality(s) \in Nat
    BY <1>3, <2>1, FS_RemoveElement, FS_CardinalityType
  <2>4. rank[s \ {pick(s)}] = Cardinality(s \ {pick(s)}) /\ rank[s] = Cardinality(s)
    BY <2>2
  <2> HIDE DEF rank, D
  <2> QED
    BY <2>1, <2>2, <2>3, <2>4
<1>5. ASSUME NEW s \in D, NEW sum \in [D -> Nat] PROVE body(s, sum) \in Nat
  <2>1. CASE s # {}
    <3>1. pick(s) \in 1..Len(tables) /\ s \ {pick(s)} \in D
      BY <1>4, <2>1
    <3> HIDE DEF size, pick, D
    <3>2. size(pick(s)) \in Nat /\ sum[s \ {pick(s)}] \in Nat
      BY <1>2, <3>1
    <3> QED
      BY <2>1, <3>2
  <2> QED
    BY <2>1
<1>6. Recursive(D, Nat, rank, bound, F)
  <2>1. F \in [D -> [[D -> Nat] -> Nat]]
    <3> HIDE DEF body, D
    <3> QED
      BY <1>5
  <2>2. \A s \in D : \A g, h \in [D -> Nat] :
          (\A t \in D : rank[t] < rank[s] => g[t] = h[t]) => F[s][g] = F[s][h]
    <3> SUFFICES ASSUME NEW s \in D, NEW g \in [D -> Nat], NEW h \in [D -> Nat],
                        \A t \in D : rank[t] < rank[s] => g[t] = h[t]
                 PROVE  body(s, g) = body(s, h)
      <4> HIDE DEF body, D, rank
      <4> QED
        OBVIOUS
    <3>1. CASE s # {}
      <4> DEFINE rest == s \ {pick(s)}
      <4>1. rest \in D /\ rank[rest] < rank[s]
        <5> HIDE DEF rank, D, pick
        <5> QED
          BY <1>4, <3>1
      <4> HIDE DEF rank, D, pick, size, rest
      <4>2. g[rest] = h[rest]
        BY <4>1
      <4>3. body(s, g) = size(pick(s)) + g[rest] /\ body(s, h) = size(pick(s)) + h[rest]
        BY <3>1, Zenon DEF rest
      <4> HIDE DEF body
      <4> QED
        BY <4>2, <4>3
    <3>2. CASE s = {}
      BY <3>2, Zenon
    <3> HIDE DEF body
    <3> QED
      BY <3>1, <3>2
  <2> HIDE DEF F, D, rank, bound
  <2> QED
    BY <1>3, <2>1, <2>2 DEF Recursive
<1>7. \E sum \in [D -> Nat] : Sums(sum)
  <2>1. PICK sum \in [D -> Nat] : \A s \in D : sum[s] = F[s][sum]
    <3> DEFINE A == Nat
    <3>1. A # {} /\ Recursive(D, A, rank, bound, F)
      BY <1>6
    <3> HIDE DEF F, D, rank, bound, A
    <3>2. \E sum \in [D -> A] : \A s \in D : sum[s] = F[s][sum]
      BY <3>1, Recursion, SMTT(60)
    <3> QED
      BY <3>2 DEF A
  <2> HIDE DEF body, D
  <2> QED
    BY <2>1
<1>8. ASSUME NEW sum, Sums(sum) PROVE \A s \in D : sum[s] \in Nat
  <2> DEFINE P == {s \in D : sum[s] \in Nat}
  <2>1. ASSUME NEW s \in D, \A t \in D : rank[t] < rank[s] => t \in P PROVE s \in P
    <3>1. sum[s] = body(s, sum)
      <4> HIDE DEF body, D
      <4> QED
        BY <1>8
    <3>2. CASE s # {}
      <4>1. pick(s) \in 1..Len(tables) /\ s \ {pick(s)} \in D /\ rank[s \ {pick(s)}] < rank[s]
        BY <1>4, <3>2
      <4> HIDE DEF size, pick, D, rank
      <4>2. size(pick(s)) \in Nat /\ sum[s \ {pick(s)}] \in Nat
        BY <1>2, <2>1, <4>1
      <4> QED
        BY <3>1, <3>2, <4>2
    <3>3. CASE s = {}
      BY <3>1, <3>3
    <3> QED
      BY <3>2, <3>3
  <2>2. \A s \in D : (\A t \in D : rank[t] < rank[s] => t \in P) => s \in P
    <3> HIDE DEF P, D, rank
    <3> QED
      BY <2>1
  <2> HIDE DEF P, D, rank
  <2>3. D \subseteq P
    BY <1>3, <2>2, RankInduction
  <2> QED
    BY <2>3 DEF P
<1>9. ColumnCount(tables) = (CHOOSE sum : Sums(sum))[1..Len(tables)]
  BY <1>1 DEF ColumnCount, MapThenSumSet, MapThenFoldSet
<1>10. Sums(CHOOSE sum : Sums(sum))
  <2> HIDE DEF Sums, D
  <2> QED
    BY <1>7
<1>11. 1..Len(tables) \in D
  OBVIOUS
<1> HIDE DEF Sums, D
<1> QED
  BY <1>8, <1>9, <1>10, <1>11

-----------------------------------------------------------------------------
(* The tables of the first files, in their order.                           *)
GatherEquation(batch, all) ==
  all = [f \in 0..Len(batch) |-> IF f = 0 THEN <<>> ELSE all[f - 1] \o batch[f].tables]
TablesOf(batch) == CHOOSE all : GatherEquation(batch, all)

LEMMA TablesGathered ==
  ASSUME NEW batch \in Seq(File)
  PROVE  /\ GatherEquation(batch, TablesOf(batch))
         /\ TablesOf(batch)[0] = <<>>
         /\ \A f \in 1..Len(batch) : TablesOf(batch)[f] = TablesOf(batch)[f - 1] \o batch[f].tables
<1> DEFINE D == 0..Len(batch)
           A == Seq(Table)
           next == [f \in D |-> [t \in A |-> IF f = 0 THEN t ELSE t \o batch[f].tables]]
<1>1. Len(batch) \in Nat
  OBVIOUS
<1>2. ASSUME NEW f \in D, NEW t \in A
      PROVE  (IF f = 0 THEN t ELSE t \o batch[f].tables) \in A
  <2>1. CASE f # 0
    <3>1. batch[f] \in File
      BY <1>1, <2>1
    <3>2. batch[f].tables \in A
      BY <3>1 DEF File
    <3> HIDE DEF A
    <3>3. t \o batch[f].tables \in A
      BY <3>2, ConcatProperties DEF A
    <3> QED
      BY <2>1, <3>3
  <2> QED
    BY <2>1
<1>3. next \in [D -> [A -> A]]
  <2> HIDE DEF A, D
  <2> QED
    BY <1>2
<1>4. <<>> \in A
  OBVIOUS
<1>5. Iterates(0, Len(batch), A, <<>>, next)
  <2> HIDE DEF A, next
  <2> QED
    BY <1>1, <1>3, <1>4 DEF Iterates
<1>6. PICK all \in [D -> A] : \A f \in D : all[f] = IF f = 0 THEN <<>> ELSE next[f][all[f - 1]]
  <2> HIDE DEF A, next
  <2> QED
    BY <1>5, Iteration
<1>7. \A f \in D : all[f] = IF f = 0 THEN <<>> ELSE all[f - 1] \o batch[f].tables
  <2> SUFFICES ASSUME NEW f \in D, f # 0 PROVE all[f] = all[f - 1] \o batch[f].tables
    BY <1>6, Zenon
  <2>1. f - 1 \in D
    BY <1>1
  <2> HIDE DEF A
  <2>2. all[f - 1] \in A
    BY <2>1
  <2> QED
    BY <1>6, <2>2
<1>8. GatherEquation(batch, all)
  <2> HIDE DEF A, next
  <2> QED
    BY <1>7 DEF GatherEquation
<1>9. GatherEquation(batch, TablesOf(batch))
  BY <1>8, Zenon DEF TablesOf
<1> DEFINE body(f) == IF f = 0 THEN <<>> ELSE TablesOf(batch)[f - 1] \o batch[f].tables
<1>10. \A f \in D : TablesOf(batch)[f] = body(f)
  <2>1. TablesOf(batch) = [f \in D |-> body(f)]
    BY <1>9, Zenon DEF GatherEquation
  <2> HIDE DEF body
  <2> QED
    BY <2>1
<1>11. 0 \in D /\ \A f \in 1..Len(batch) : f \in D /\ f # 0
  BY <1>1
<1> QED
  BY <1>9, <1>10, <1>11, Zenon

Planning == {"plan", "accepted"} \cup CheckLoops

Gathered ==
  /\ pc = "parse" => parsed = TablesOf(files)[i - 1]
  /\ pc \in {"count"} \cup Planning =>
       /\ parsed = TablesOf(files)[Len(files)]
       /\ Len(parsed) <= MaxTables /\ ColumnCount(parsed) <= MaxColumns
  /\ pc \in Planning => Len(parsed) * Cardinality(config.enabled) <= MaxArtifacts
  /\ pc \in Planning \ {"plan"} => Len(plans) = Len(parsed)

LEMMA Within == \A a, b \in Nat : ~ (a > b) => a <= b
  OBVIOUS

LEMMA GatheredInit == Init => Gathered
<1> SUFFICES ASSUME Init PROVE Gathered
  OBVIOUS
<1>1. files \in Seq(File)
  BY BatchesAssumption DEF Init
<1>2. TablesOf(files)[0] = <<>>
  BY <1>1, TablesGathered
<1>3. i - 1 = 0 /\ parsed = <<>> /\ pc = "parse"
  BY DEF Init
<1> QED
  BY <1>2, <1>3 DEF Gathered, Planning, CheckLoops

LEMMA GatheredParse == ASSUME PlanInv, Gathered, ParseFile PROVE Gathered'
<1> DEFINE tables == files[i].tables
<1>1. files' = files /\ pc = "parse"
  BY DEF ParseFile, inputs
<1>2. /\ files \in Seq(File) /\ Len(files) \in Nat /\ i \in 1..Len(files) /\ parsed \in Seq(Table)
  BY <1>1 DEF PlanInv, Typed, Indexed
<1>3. parsed = TablesOf(files)[i - 1]
  BY <1>1 DEF Gathered
<1>4. CASE pc' \in {"syntax", "limit"}
  BY <1>4 DEF Gathered, Planning, CheckLoops
<1>5. CASE /\ ~ TooMany(tables) /\ parsed' = parsed \o tables
           /\ Advance("parse", "count", Len(files))
  <2>1. parsed' = TablesOf(files)[i]
    BY <1>2, <1>3, <1>5, TablesGathered
  <2>2. CASE pc' = "parse"
    <3>1. i' = i + 1 /\ i' - 1 = i
      BY <1>2, <1>5, <2>2 DEF Advance
    <3> QED
      BY <1>1, <2>1, <2>2, <3>1 DEF Gathered, Planning, CheckLoops
  <2>3. CASE pc' = "count"
    <3>1. i = Len(files)
      BY <1>2, <1>5, <2>3 DEF Advance
    <3>2. parsed' \in Seq(Table)
      <4>1. files[i] \in File
        BY <1>2
      <4>2. tables \in Seq(Table)
        BY <4>1 DEF File
      <4> QED
        BY <1>2, <1>5, <4>2
    <3>3. ~ (Len(parsed') > MaxTables) /\ ~ (ColumnCount(parsed') > MaxColumns)
      BY <1>5 DEF TooMany
    <3>4. /\ Len(parsed') \in Nat /\ ColumnCount(parsed') \in Nat
          /\ MaxTables \in Nat /\ MaxColumns \in Nat
      BY <3>2, ColumnCountTyping, LimitsAssumption
    <3>5. Len(parsed') <= MaxTables /\ ColumnCount(parsed') <= MaxColumns
      BY <3>3, <3>4, Within
    <3>6. ColumnCount(parsed)' = ColumnCount(parsed')
      OBVIOUS
    <3> QED
      BY <1>1, <2>1, <2>3, <3>1, <3>5, <3>6 DEF Gathered, Planning, CheckLoops
  <2>4. pc' \in {"parse", "count"}
    BY <1>5 DEF Advance
  <2> QED
    BY <2>2, <2>3, <2>4
<1> QED
  BY <1>4, <1>5 DEF ParseFile, Reject

LEMMA GatheredCount == ASSUME PlanInv, Gathered, CountArtifacts PROVE Gathered'
<1>1. UNCHANGED <<inputs, parsed>> /\ pc = "count" /\ pc' \in {"limit", "plan"}
  BY DEF CountArtifacts
<1>2. pc' = "plan" => Len(parsed) * Cardinality(config.enabled) <= MaxArtifacts
  <2> SUFFICES ASSUME pc' = "plan"
               PROVE  Len(parsed) * Cardinality(config.enabled) <= MaxArtifacts
    OBVIOUS
  <2>1. ~ (Len(parsed) * Cardinality(config.enabled) > MaxArtifacts)
    BY DEF CountArtifacts
  <2>2. Len(parsed) \in Nat /\ MaxArtifacts \in Nat
    BY LimitsAssumption DEF PlanInv, Typed
  <2>3. Cardinality(config.enabled) \in Nat
    <3>1. config.enabled \subseteq Roles
      BY DEF PlanInv, Typed, Config
    <3> QED
      BY <3>1, RolesAssumption, FS_Subset, FS_CardinalityType
  <2>4. \A a, b \in Nat : a * b \in Nat
    OBVIOUS
  <2>5. Len(parsed) * Cardinality(config.enabled) \in Nat
    BY <2>2, <2>3, <2>4
  <2> QED
    BY <2>1, <2>2, <2>5, Within
<1>3. files' = files /\ config' = config /\ parsed' = parsed
  BY <1>1 DEF inputs
<1>4. ColumnCount(parsed)' = ColumnCount(parsed)
  BY <1>3
<1> QED
  BY <1>1, <1>2, <1>3, <1>4 DEF Gathered, Planning, CheckLoops

LEMMA GatheredPlan == ASSUME PlanInv, Gathered, PlanTable PROVE Gathered'
<1>1. files' = files /\ config' = config /\ parsed' = parsed /\ pc = "plan"
  BY DEF PlanTable, inputs
<1>2. ColumnCount(parsed)' = ColumnCount(parsed)
  BY <1>1
<1>3. CASE pc' = "invalid table"
  BY <1>3 DEF Gathered, Planning, CheckLoops
<1>4. CASE plans' = Append(plans, Plan(parsed[i])) /\ Advance("plan", "sources", Len(parsed))
  <2>1. /\ plans \in Seq(PlanRecord) /\ Len(plans) = i - 1 /\ i \in Nat /\ i <= Len(parsed)
        /\ Len(parsed) \in Nat
    BY <1>1 DEF PlanInv, Typed, Indexed
  <2>2. pc' = "plan" \/ (pc' = "sources" /\ ~ (i < Len(parsed)))
    BY <1>4 DEF Advance
  <2>3. Len(plans') = i
    BY <1>4, <2>1
  <2>4. pc' = "sources" => Len(plans') = Len(parsed')
    BY <1>1, <2>1, <2>2, <2>3
  <2> QED
    BY <1>1, <1>2, <2>2, <2>4 DEF Gathered, Planning, CheckLoops
<1> QED
  BY <1>3, <1>4 DEF PlanTable, Reject

LEMMA GatheredStays ==
  ASSUME Gathered, UNCHANGED <<inputs, parsed, plans>>, pc \in CheckLoops,
         pc' \in CheckLoops \cup {"accepted", "collision", "not rendered"}
  PROVE  Gathered'
<1>1. files' = files /\ config' = config /\ parsed' = parsed /\ plans' = plans
  BY DEF inputs
<1>2. ColumnCount(parsed)' = ColumnCount(parsed)
  BY <1>1
<1> QED
  BY <1>1, <1>2 DEF Gathered, Planning, CheckLoops

LEMMA GatheredStutter == ASSUME Gathered, UNCHANGED vars PROVE Gathered'
<1>1. files' = files /\ config' = config /\ parsed' = parsed /\ plans' = plans /\ pc' = pc /\ i' = i
  BY DEF vars, inputs
<1>2. ColumnCount(parsed)' = ColumnCount(parsed)
  BY <1>1
<1> QED
  BY <1>1, <1>2 DEF Gathered

(* In every state the tables read are those of the files passed, in order.  *)
LEMMA GatheredInvariant == Spec => []Gathered
<1>1. PlanInv /\ Gathered /\ [Next]_vars => Gathered'
  <2> SUFFICES ASSUME PlanInv, Gathered, [Next]_vars PROVE Gathered'
    OBVIOUS
  <2>1. CASE Check \/ RenderPlan
    <3>1. /\ UNCHANGED <<inputs, parsed, plans>> /\ pc \in CheckLoops
          /\ pc' \in CheckLoops \cup {"accepted", "collision", "not rendered"}
      BY <2>1 DEF Check, RegisterSource, CheckTargets, CheckNames, RenderPlan, Advance, Reject,
                  CheckLoops
    <3> QED
      BY <3>1, GatheredStays
  <2>2. CASE UNCHANGED vars
    BY <2>2, GatheredStutter
  <2> QED
    BY <2>1, <2>2, GatheredParse, GatheredCount, GatheredPlan DEF Next, Step, Finished
<1> QED
  BY <1>1, GatheredInit, PlanInvariant, PTL DEF Spec

(* An accepted batch has a plan for every table of every file, in the order *)
(* of the files, and all of them together are within the limits.            *)
THEOREM NoTableIsDropped == Spec => []NothingDropped
<1>1. ASSUME PlanInv, RefusalInv, Gathered PROVE NothingDropped
  <2> SUFFICES ASSUME pc = "accepted" PROVE NothingDropped
    BY DEF NothingDropped
  <2>1. /\ parsed = TablesOf(files)[Len(files)]
        /\ Len(parsed) <= MaxTables /\ ColumnCount(parsed) <= MaxColumns
        /\ Len(parsed) * Cardinality(config.enabled) <= MaxArtifacts
        /\ Len(plans) = Len(parsed)
    BY <1>1 DEF Gathered, Planning
  <2>2. plans = [k \in DOMAIN parsed |-> Plan(parsed[k])]
    <3>1. plans \in Seq(PlanRecord) /\ DOMAIN plans = DOMAIN parsed
      BY <1>1, <2>1 DEF PlanInv, Typed
    <3>2. \A k \in DOMAIN plans : plans[k] = Plan(parsed[k])
      BY <1>1 DEF RefusalInv, Planned
    <3>3. plans = [k \in DOMAIN plans |-> plans[k]]
      BY <3>1
    <3> QED
      BY <3>1, <3>2, <3>3
  <2> DEFINE Limits(tables) ==
               /\ plans = [k \in DOMAIN tables |-> Plan(tables[k])]
               /\ Len(tables) <= MaxTables /\ ColumnCount(tables) <= MaxColumns
               /\ Len(tables) * Cardinality(config.enabled) <= MaxArtifacts
  <2>3. Limits(parsed)
    BY <2>1, <2>2
  <2>4. NothingDropped <=> Limits(TablesOf(files)[Len(files)])
    BY Zenon DEF NothingDropped, TablesOf, GatherEquation
  <2> HIDE DEF Limits
  <2> QED
    BY <2>1, <2>3, <2>4
<1> QED
  BY <1>1, PlanInvariant, RefusalInvariant, GatheredInvariant, PTL
=============================================================================
