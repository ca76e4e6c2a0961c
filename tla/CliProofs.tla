------------------------------- MODULE CliProofs -------------------------------
(***************************************************************************)
(* For every call, configuration and input, and any number of changes of   *)
(* the input: the exit code and the report of generate are true; and Hive  *)
(* reads back what it wrote with every storage section that is accepted.   *)
(***************************************************************************)
EXTENDS Cli, RecursiveFunctions, SequenceTheorems, TLAPS

Does  == call.command \in {"generate", "validate", "inspect"}
Shift == IF call.command = "inspect" THEN 1 ELSE 0   \* for the stat

(* What the steps of _run that are behind it have seen to. *)
Loaded  == Does /\ stage > 2 => ConfigAccepted(call.config)
Scanned == Does /\ stage > 3 + Shift => found # <<>>
Parsed  == Does /\ stage > 4 + Shift => parsed = Len(found)
Planned == Does /\ stage > 5 + Shift => \A n \in DOMAIN found : found[n] # "collides"
Written == call.command = "generate" /\ stage > 6 => set = "new"

Progress == Loaded /\ Scanned /\ Parsed /\ Planned /\ Written

Types ==
  /\ input \in Inputs /\ stage \in Nat \ {0} /\ found \in Seq(Verdicts)
  /\ parsed \in Nat /\ parsed <= Len(found) /\ \A n \in 1..parsed : found[n] # "refused"

(* Nothing is parsed before the scan has ended. *)
Unparsed == Does /\ stage < 4 + Shift => parsed = 0

(* What `inspect` saw was one file. *)
Seen == call.command = "inspect" /\ stage > 3 => Len(inspected[1].files) <= 1

(* The set changes in one step, and the message knows how it went. *)
SetIsOld == set # "old" =>
  /\ call.command = "generate" /\ stage >= 6
  /\ stage = 6 => raised # "none"
Message ==
  /\ raised = "none" <=> reason = "none"
  /\ reason \in {"refused", "forbidden", "restored"} => set = "old"
  /\ reason = "leftovers" => set = "new"

(* Standard output is touched by the last two steps only. *)
Reporting == Does /\ stage > (IF call.command = "generate" THEN 7 ELSE 5 + Shift)
Output    == raised = "pipe" \/ (Does /\ buffer # "empty") => Reporting

Codes ==
  /\ exit = 0 => raised \in {"none", "pipe"}
  /\ exit = 0 /\ raised = "none" /\ Does => Reporting
  /\ exit = 2 /\ raised = "none" => set = "old"

CliInv == Types /\ Progress /\ Unparsed /\ Seen /\ SetIsOld /\ Message /\ Output /\ Codes

-----------------------------------------------------------------------------
(* Where the steps of _run stand in the list of stages. *)
LEMMA Places ==
  ASSUME stage \in Nat \ {0}
  PROVE  /\ At("start") => stage = 1
         /\ At("load")  => Does /\ stage = 2
         /\ At("stat")  => call.command = "inspect" /\ stage = 3
         /\ At("scan")  => Does /\ stage = 3 + Shift
         /\ At("parse") => Does /\ stage = 4 + Shift
         /\ At("plan")  => Does /\ stage = 5 + Shift
         /\ At("write") => call.command = "generate" /\ stage = 6
         /\ At("close") => call.command = "generate" /\ stage = 7
         /\ At("print") => Does /\ stage = (IF call.command = "generate" THEN 8 ELSE 6 + Shift)
         /\ At("flush") => Does /\ stage = (IF call.command = "generate" THEN 9 ELSE 7 + Shift)
<1>1. CASE call.command = "generate"
  BY <1>1 DEF At, Running, Stages, Does, Shift
<1>2. CASE call.command = "validate"
  BY <1>2 DEF At, Running, Stages, Does, Shift
<1>3. CASE call.command = "inspect"
  BY <1>3 DEF At, Running, Stages, Does, Shift
<1>4. CASE ~ Does
  <2>1. Stages(call.command) = <<"start">>
    BY <1>4 DEF Stages, Does
  <2> QED
    BY <2>1 DEF At, Running
<1> QED
  BY <1>1, <1>2, <1>3, <1>4 DEF Does

LEMMA LastStage ==
  ASSUME stage \in Nat \ {0}, Does, stage > Len(Stages(call.command))
  PROVE  Reporting
<1>1. CASE call.command = "generate"
  BY <1>1 DEF Stages, Reporting, Shift
<1>2. CASE call.command = "validate"
  BY <1>2 DEF Stages, Reporting, Shift
<1>3. CASE call.command = "inspect"
  BY <1>3 DEF Stages, Reporting, Shift
<1> QED
  BY <1>1, <1>2, <1>3 DEF Does

-----------------------------------------------------------------------------
LEMMA CliInit == Init => CliInv
<1> SUFFICES ASSUME Init PROVE CliInv
  OBVIOUS
<1>1. Types
  BY DEF Init, Types
<1>2. Progress /\ Unparsed /\ Seen /\ SetIsOld /\ Message /\ Output /\ Codes
  BY DEF Init, Progress, Loaded, Scanned, Parsed, Planned, Written, Unparsed, Seen, Shift,
         SetIsOld, Message,
         Output, Codes
<1> QED
  BY <1>1, <1>2 DEF CliInv

(* A step of _run that goes on, with the set, the scan and the output as    *)
(* they were.                                                               *)
LEMMA GoingStep ==
  ASSUME CliInv, Running, Goes, Untouched, UNCHANGED <<found, parsed, set, buffer>>,
         IF call.command = "inspect" /\ stage = 3 THEN Len(inspected'[1].files) <= 1
         ELSE inspected' = inspected,
         Does /\ stage = 2 => ConfigAccepted(call.config),
         Does => stage # 3 + Shift,
         Does /\ stage = 4 + Shift => parsed = Len(found),
         Does /\ stage = 5 + Shift => \A n \in DOMAIN found : found[n] # "collides",
         call.command = "generate" => stage # 6
  PROVE  CliInv'
<1>1. Types'
  BY DEF CliInv, Types, Untouched, Goes
<1>2. Progress' /\ Unparsed' /\ Seen'
  BY DEF CliInv, Types, Progress, Loaded, Scanned, Parsed, Planned, Written, Unparsed, Seen,
         Shift, Does, Untouched, Goes
<1>3. SetIsOld' /\ Message'
  BY DEF CliInv, Types, SetIsOld, Message, Untouched, Goes, Running
<1>4. Output'
  BY DEF CliInv, Types, Output, Reporting, Does, Shift, Untouched, Goes, Running
<1>5. Codes'
  BY DEF CliInv, Codes, Running, Untouched, Goes
<1> QED
  BY <1>1, <1>2, <1>3, <1>4, <1>5 DEF CliInv

(* A step of _run that raises an exception; standard output fails in the    *)
(* last two steps only, and the set may have changed while it was written.  *)
LEMMA RaisingStep ==
  ASSUME CliInv, Running, Untouched, UNCHANGED <<stage, found, parsed, inspected>>,
         raised' # "none", reason' # "none",
         set' = set \/ (call.command = "generate" /\ stage = 6),
         reason' \in {"refused", "forbidden", "restored"} => set' = "old",
         reason' = "leftovers" => set' = "new",
         raised' = "pipe" \/ buffer' # buffer => Reporting
  PROVE  CliInv'
<1>1. Types'
  BY DEF CliInv, Types, Untouched
<1>2. Progress' /\ Unparsed' /\ Seen'
  BY DEF CliInv, Types, Progress, Loaded, Scanned, Parsed, Planned, Written, Unparsed, Seen,
         Shift, Does, Untouched
<1>3. SetIsOld' /\ Message'
  BY DEF CliInv, Types, SetIsOld, Message, Untouched
<1>4. Output'
  BY DEF CliInv, Output, Reporting, Does, Shift, Untouched
<1>5. Codes'
  BY DEF CliInv, Codes, Running, Untouched
<1> QED
  BY <1>1, <1>2, <1>3, <1>4, <1>5 DEF CliInv

(* The steps of _run. *)
LEMMA RunStep ==
  ASSUME CliInv,
         Start \/ Load \/ StatInput \/ Scan \/ Parse \/ Plan \/ Write \/ CloseOutput \/ Say \/ Flush
  PROVE  CliInv'
<1> USE Places DEF CliInv, Types, Refuse, NoSpace, NoSpaceInside, Raise
<1>1. ASSUME Start PROVE CliInv'
  <2>1. CASE Goes /\ Does
    BY <1>1, <2>1, GoingStep DEF Start, At, Shift
  <2>2. CASE Goes /\ ~ Does
    BY <1>1, <2>2, GoingStep DEF Start, At, Shift
  <2>3. CASE ~ Goes
    BY <1>1, <2>3, RaisingStep DEF Start, At, SetIsOld
  <2> QED
    BY <2>1, <2>2, <2>3
<1>2. ASSUME Load PROVE CliInv'
  <2>1. CASE Goes
    BY <1>2, <2>1, GoingStep DEF Load, Goes, At, Shift
  <2>2. CASE ~ Goes
    BY <1>2, <2>2, RaisingStep DEF Load, At, SetIsOld
  <2> QED
    BY <2>1, <2>2
<1>3. ASSUME StatInput PROVE CliInv'
  <2>1. CASE Goes
    BY <1>3, <2>1, GoingStep, InputsAssumption DEF StatInput, Inspectable, Goes, At, Shift
  <2>2. CASE ~ Goes
    BY <1>3, <2>2, RaisingStep DEF StatInput, At, SetIsOld
  <2> QED
    BY <2>1, <2>2
<1>4. ASSUME Scan PROVE CliInv'
  <2>1. CASE Goes
    <3>1. Types'
      <4>1. parsed = 0
        BY <1>4 DEF Scan, Unparsed, Seen, Shift
      <4> QED
        BY <1>4, <2>1, <4>1, InputsAssumption DEF Scan, Goes, Untouched
    <3>2. Progress' /\ Unparsed' /\ Seen'
      BY <1>4, <2>1 DEF Scan, Goes, Untouched, Progress, Loaded, Scanned, Parsed, Planned, Written,
         Unparsed, Seen, Shift, Does
    <3>3. SetIsOld' /\ Message' /\ Codes'
      BY <1>4, <2>1 DEF Scan, At, Running, Goes, Untouched, SetIsOld, Message, Codes
    <3>4. Output'
      BY <1>4, <2>1 DEF Scan, At, Running, Goes, Untouched, Output, Reporting, Does, Shift
    <3> QED
      BY <3>1, <3>2, <3>3, <3>4
  <2>2. CASE ~ Goes
    BY <1>4, <2>2, RaisingStep DEF Scan, At, SetIsOld, Shift, Does
  <2> QED
    BY <2>1, <2>2
<1>5. ASSUME Parse PROVE CliInv'
  <2>1. CASE Goes
    BY <1>5, <2>1, GoingStep DEF Parse, Goes, At, Shift
  <2>2. CASE parsed' = parsed + 1
    <3>1. Untouched /\ UNCHANGED <<found, inspected, set, buffer, stage, raised, reason>>
      BY <1>5, <2>2 DEF Parse, Goes
    <3>2. parsed < Len(found) /\ found[parsed + 1] # "refused" /\ At("parse")
      BY <1>5, <2>2 DEF Parse
    <3>3. Types' /\ SetIsOld' /\ Message'
      BY <2>2, <3>1, <3>2 DEF Untouched, SetIsOld, Message
    <3>4. Progress' /\ Output' /\ Codes' /\ Unparsed' /\ Seen'
      BY <2>2, <3>1, <3>2 DEF Untouched, Progress, Loaded, Scanned, Parsed, Planned, Written,
         Shift, Does, Output, Reporting, Codes, Unparsed, Seen
    <3> QED
      BY <3>3, <3>4
  <2>3. CASE ~ Goes /\ parsed' # parsed + 1
    BY <1>5, <2>3, RaisingStep DEF Parse, At, SetIsOld, Shift, Does
  <2> QED
    BY <2>1, <2>2, <2>3
<1>6. ASSUME Plan PROVE CliInv'
  <2>1. CASE Goes
    BY <1>6, <2>1, GoingStep DEF Plan, Goes, At, Shift
  <2>2. CASE ~ Goes
    BY <1>6, <2>2, RaisingStep DEF Plan, At, SetIsOld, Shift, Does
  <2> QED
    BY <2>1, <2>2
<1>7. ASSUME Write PROVE CliInv'
  <2>1. CASE Goes
    <3>1. Types' /\ Progress' /\ Unparsed' /\ Seen'
      BY <1>7, <2>1 DEF Write, At, Running, Goes, Untouched, Progress, Loaded, Scanned, Parsed,
         Planned, Written, Shift, Does, Unparsed, Seen
    <3>2. SetIsOld' /\ Message' /\ Codes'
      BY <1>7, <2>1 DEF Write, At, Running, Goes, Untouched, SetIsOld, Message, Codes
    <3>3. Output'
      BY <1>7, <2>1 DEF Write, At, Running, Goes, Untouched, Output, Reporting, Does, Shift
    <3> QED
      BY <3>1, <3>2, <3>3
  <2>2. CASE ~ Goes
    BY <1>7, <2>2, RaisingStep DEF Write, At, Running, SetIsOld
  <2> QED
    BY <2>1, <2>2
<1>8. ASSUME CloseOutput PROVE CliInv'
  <2>1. CASE Goes
    BY <1>8, <2>1, GoingStep DEF CloseOutput, At, Shift
  <2>2. CASE ~ Goes
    BY <1>8, <2>2, RaisingStep DEF CloseOutput, At
  <2> QED
    BY <2>1, <2>2
<1>9. ASSUME Say PROVE CliInv'
  <2>1. CASE Goes
    <3>1. Types' /\ Progress' /\ Unparsed' /\ Seen'
      BY <1>9, <2>1 DEF Say, At, Running, Goes, Untouched, Progress, Loaded, Scanned, Parsed,
         Planned, Written, Shift, Does, Unparsed, Seen
    <3>2. SetIsOld' /\ Message' /\ Codes'
      BY <1>9, <2>1 DEF Say, At, Running, Goes, Untouched, SetIsOld, Message, Codes
    <3>3. Output'
      BY <1>9, <2>1 DEF Say, At, Running, Goes, Untouched, Output, Reporting, Does, Shift
    <3> QED
      BY <3>1, <3>2, <3>3
  <2>2. CASE ~ Goes
    BY <1>9, <2>2, RaisingStep DEF Say, StreamFails, At, Reporting, Shift
  <2> QED
    BY <2>1, <2>2
<1>10. ASSUME Flush PROVE CliInv'
  <2>1. CASE Goes
    <3>1. Types' /\ Progress' /\ Unparsed' /\ Seen'
      BY <1>10, <2>1 DEF Flush, At, Running, Goes, Untouched, Progress, Loaded, Scanned, Parsed,
         Planned, Written, Shift, Does, Unparsed, Seen
    <3>2. SetIsOld' /\ Message' /\ Codes'
      BY <1>10, <2>1 DEF Flush, At, Running, Goes, Untouched, SetIsOld, Message, Codes
    <3>3. Output'
      BY <1>10, <2>1 DEF Flush, At, Running, Goes, Untouched, Output, Reporting, Does, Shift
    <3> QED
      BY <3>1, <3>2, <3>3
  <2>2. CASE ~ Goes
    BY <1>10, <2>2, RaisingStep DEF Flush, StreamFails, At, Reporting, Shift
  <2> QED
    BY <2>1, <2>2
<1> QED
  BY <1>1, <1>2, <1>3, <1>4, <1>5, <1>6, <1>7, <1>8, <1>9, <1>10

(* Other processes, and main: nothing but the code and the streams changes. *)
LEMMA EndingStep ==
  ASSUME CliInv,
         \/ Replace \/ Argparse \/ CloseAfterError
         \/ Return \/ BrokenPipe \/ OutOfMemory \/ Expected \/ Traceback \/ Shutdown \/ Ended
  PROVE  CliInv'
<1> USE DEF CliInv, Types
<1>1. UNCHANGED <<call, stage, found, parsed, inspected, set>> /\ input' \in Inputs
  BY DEF Replace, Argparse, CloseAfterError, Untouched, Return, BrokenPipe, OutOfMemory, Expected,
         Traceback, Leave, Shutdown, Ended, vars
<1>2. Types' /\ Progress' /\ Unparsed' /\ Seen'
  BY <1>1 DEF Progress, Loaded, Scanned, Parsed, Planned, Written, Unparsed, Seen, Shift, Does
<1>3. ASSUME Replace \/ Ended PROVE SetIsOld' /\ Message' /\ Output' /\ Codes'
  BY <1>1, <1>3 DEF Replace, Ended, vars, SetIsOld, Message, Output, Reporting, Does, Shift, Codes
<1>4. ASSUME Argparse PROVE SetIsOld' /\ Message' /\ Output' /\ Codes'
  <2>1. ~ Does /\ stage = 1
    BY <1>4, Places DEF Argparse, Does
  <2>2. exit' \in {0, 2} /\ raised = "none" /\ UNCHANGED <<raised, reason>>
    BY <1>4 DEF Argparse, At, Running
  <2> QED
    BY <1>1, <2>1, <2>2 DEF SetIsOld, Message, Output, Reporting, Does, Shift, Codes
<1>5. ASSUME CloseAfterError PROVE SetIsOld' /\ Message' /\ Output' /\ Codes'
  BY <1>1, <1>5 DEF CloseAfterError, Untouched, SetIsOld, Message, Output, Reporting, Does, Shift,
     Codes
<1>6. ASSUME Return PROVE SetIsOld' /\ Message' /\ Output' /\ Codes'
  <2>1. Does => Reporting
    BY <1>6, LastStage DEF Return
  <2> QED
    BY <1>1, <1>6, <2>1 DEF Return, Leave, SetIsOld, Message, Output, Reporting, Does, Shift, Codes
<1>7. ASSUME BrokenPipe \/ OutOfMemory \/ Expected \/ Traceback
      PROVE  SetIsOld' /\ Message' /\ Output' /\ Codes'
  BY <1>1, <1>7 DEF BrokenPipe, OutOfMemory, Expected, Traceback, Leave, SetIsOld, Message, Output,
     Reporting, Does, Shift, Codes
<1>8. ASSUME Shutdown PROVE SetIsOld' /\ Message' /\ Output' /\ Codes'
  BY <1>1, <1>8 DEF Shutdown, SetIsOld, Message, Output, Reporting, Does, Shift, Codes
<1> QED
  BY <1>2, <1>3, <1>4, <1>5, <1>6, <1>7, <1>8

LEMMA CliNext == CliInv /\ [Next]_vars => CliInv'
<1> SUFFICES ASSUME CliInv, [Next]_vars PROVE CliInv'
  OBVIOUS
<1>1. CASE UNCHANGED vars
  BY <1>1 DEF vars, CliInv, Types, Progress, Loaded, Scanned, Parsed, Planned, Written,
     Unparsed, Seen, SetIsOld, Message, Output, Reporting, Does, Shift, Codes
<1>2. CASE Next
  BY <1>2, RunStep, EndingStep DEF Next
<1> QED
  BY <1>1, <1>2

LEMMA CliInvariant == Spec => []CliInv
  BY CliInit, CliNext, PTL DEF Spec

-----------------------------------------------------------------------------
(* What the last steps, and a set that is not the old one, stand for. *)
LEMMA AllAccepted ==
  ASSUME CliInv, Does, stage > 5 + Shift
  PROVE  Accepted /\ ConfigAccepted(call.config)
<1>1. found # <<>> /\ parsed = Len(found) /\ \A n \in DOMAIN found : found[n] # "collides"
  BY DEF CliInv, Types, Progress, Scanned, Parsed, Planned, Shift
<1>2. \A n \in DOMAIN found : found[n] = "accepted"
  BY <1>1 DEF CliInv, Types, Verdicts
<1>3. 1 \in DOMAIN found
  BY <1>1 DEF CliInv, Types
<1>4. Accepted
  BY <1>1, <1>2, <1>3 DEF Accepted
<1>5. ConfigAccepted(call.config)
  BY DEF CliInv, Types, Progress, Loaded, Shift
<1> QED
  BY <1>4, <1>5

(* Whatever fails, is replaced or runs out: the exit code is true.          *)
THEOREM ExitCodeIsTrue == Spec => []ExitIsTrue
<1>1. ASSUME CliInv PROVE ExitIsTrue
  <2>1. ASSUME exit = 0, Does PROVE Accepted /\ raised \in {"none", "pipe"}
    <3>1. Reporting
      BY <1>1, <2>1 DEF CliInv, Codes, Output
    <3>2. stage > 5 + Shift
      BY <1>1, <3>1 DEF CliInv, Types, Reporting, Shift, Does
    <3> QED
      BY <1>1, <2>1, <3>2, AllAccepted DEF CliInv, Codes
  <2>2. ASSUME exit = 0, call.command = "generate" PROVE set = "new"
    <3>1. Reporting
      BY <1>1, <2>2 DEF CliInv, Codes, Output, Does
    <3> QED
      BY <1>1, <2>2, <3>1 DEF CliInv, Types, Reporting, Progress, Written
  <2>3. exit = 2 /\ reason \in {"none", "refused", "forbidden", "restored"} => set = "old"
    BY <1>1 DEF CliInv, Codes, Message
  <2>4. exit = 2 /\ reason = "leftovers" => set = "new"
    BY <1>1 DEF CliInv, Message
  <2>5. ASSUME set # "old"
        PROVE  call.command = "generate" /\ Accepted /\ ConfigAccepted(call.config)
    BY <1>1, <2>5, AllAccepted DEF CliInv, Types, SetIsOld, Does, Shift
  <2> QED
    BY <2>1, <2>2, <2>3, <2>4, <2>5 DEF ExitIsTrue, Does
<1> QED
  BY <1>1, CliInvariant, PTL

LEMMA OneIsBetween == \A n \in Nat : n >= 1 /\ n <= 1 => n = 1
  OBVIOUS

(* What is printed is true, whenever it is printed.                         *)
THEOREM ReportIsTrue == Spec => []OutputIsTrue
<1>1. ASSUME CliInv PROVE OutputIsTrue
  <2>1. ASSUME buffer # "empty", call.command = "generate" PROVE set = "new"
    BY <1>1, <2>1 DEF CliInv, Types, Output, Reporting, Does, Progress, Written
  <2>2. ASSUME buffer # "empty", call.command = "inspect"
        PROVE  found # <<>> /\ (Len(found) = 1 \/ found # inspected[1].files)
    <3>1. stage > 5 + Shift /\ Does
      BY <1>1, <2>2 DEF CliInv, Output, Reporting, Does
    <3>2. found # <<>> /\ Len(inspected[1].files) <= 1
      BY <1>1, <2>2, <3>1 DEF CliInv, Types, Progress, Scanned, Seen, Shift
    <3>3. Len(found) >= 1
      BY <1>1, <3>2 DEF CliInv, Types
    <3>4. found = inspected[1].files => Len(found) <= 1
      BY <3>2
    <3>5. Len(found) \in Nat
      BY <1>1 DEF CliInv, Types
    <3>6. found = inspected[1].files => Len(found) = 1
      BY <3>3, <3>4, <3>5, OneIsBetween, Zenon
    <3> QED
      BY <3>2, <3>6
  <2> QED
    BY <2>1, <2>2 DEF OutputIsTrue
<1> QED
  BY <1>1, CliInvariant, PTL

-----------------------------------------------------------------------------
(* The storage section.  Its texts are sequences over one alphabet. *)
Alphabet == Printable \cup UNION {{text[k] : k \in DOMAIN text} : text \in Texts}

LEMMA TextType == ASSUME NEW text \in Texts PROVE text \in Seq(Alphabet)
<1>1. Len(text) \in Nat /\ text = [k \in 1..Len(text) |-> text[k]]
  BY TextsAssumption DEF IsText
<1>2. DOMAIN text = 1..Len(text)
  BY <1>1
<1>3. \A k \in 1..Len(text) : text[k] \in Alphabet
  BY <1>2 DEF Alphabet
<1>4. text \in [1..Len(text) -> Alphabet]
  BY <1>1, <1>3
<1> QED
  BY <1>1, <1>4

(* An accepted section. *)
Usable(s, d, e) ==
  /\ s.delimiter = <<d>> /\ s.escape = <<e>> /\ d # e
  /\ d \in Alphabet /\ e \in Alphabet
  /\ s.null \in Seq(Alphabet) /\ s.null # <<>>
  /\ \A k \in 1..Len(s.null) : s.null[k] # d
  /\ \E k \in 1..Len(s.null) : s.null[k] = e
  /\ s.null[Len(s.null)] # e

StorageTexts(s) == IsText(s.delimiter) /\ IsText(s.escape) /\ IsText(s.null)

LEMMA OneCharacter ==
  ASSUME NEW text, IsText(text), Len(text) = 1
  PROVE  text = <<text[1]>>
<1>1. text = [k \in 1..1 |-> text[k]]
  BY DEF IsText
<1>2. [k \in 1..1 |-> text[k]] = <<text[1]>>
  OBVIOUS
<1> QED
  BY <1>1, <1>2

LEMMA AcceptedIsUsable ==
  ASSUME NEW s, StorageAccepted(s), StorageTexts(s)
  PROVE  Usable(s, s.delimiter[1], s.escape[1])
<1> DEFINE d == s.delimiter[1]
           e == s.escape[1]
<1>1. s.delimiter = <<d>> /\ s.escape = <<e>> /\ d \in Printable /\ e \in Printable
  BY OneCharacter DEF StorageAccepted, StorageCharacter, StorageTexts
<1>2. s.delimiter # s.escape
  BY DEF StorageAccepted
<1>3. d # e
  BY <1>1, <1>2
<1>4. /\ s.null # <<>> /\ (\A k \in DOMAIN s.null : s.null[k] \in Printable)
      /\ ~ Holds(s.null, d) /\ Holds(s.null, e) /\ s.null[Len(s.null)] # e
  BY DEF StorageAccepted, NullValue
<1>5. Len(s.null) \in Nat /\ s.null = [k \in 1..Len(s.null) |-> s.null[k]]
  BY DEF StorageTexts, IsText
<1>6. DOMAIN s.null = 1..Len(s.null)
  BY <1>5
<1>7. s.null \in Seq(Alphabet)
  <2>1. s.null \in [1..Len(s.null) -> Alphabet]
    BY <1>4, <1>5, <1>6 DEF Alphabet
  <2> QED
    BY <1>5, <2>1
<1> HIDE DEF d, e
<1>8. Usable(s, d, e)
  BY <1>1, <1>3, <1>4, <1>6, <1>7 DEF Usable, Holds, Alphabet
<1> QED
  BY <1>8 DEF d, e

-----------------------------------------------------------------------------
(* What is written for a text, from its k-th character on. *)
Escaped(s, c) == (IF <<c>> \in {s.delimiter, s.escape} THEN s.escape ELSE <<>>) \o <<c>>

FieldEquation(s, text, from) ==
  from = [k \in 1..(Len(text) + 1) |->
            IF k > Len(text) THEN <<>>
            ELSE (IF <<text[k]>> \in {s.delimiter, s.escape} THEN s.escape ELSE <<>>)
                   \o <<text[k]>> \o from[k + 1]]

LEMMA FieldDefined ==
  ASSUME NEW s, NEW d, NEW e, Usable(s, d, e), NEW text \in Seq(Alphabet)
  PROVE  \E from : FieldEquation(s, text, from) /\ Field(s, text) = from[1]
<1> DEFINE D == 1..(Len(text) + 1)
           A == Seq(Alphabet)
           body(k, from) == IF k > Len(text) THEN <<>> ELSE Escaped(s, text[k]) \o from[k + 1]
           F == [k \in D |-> [from \in [D -> A] |-> body(k, from)]]
<1>1. Len(text) \in Nat
  OBVIOUS
<1>2. ASSUME NEW k \in D, NEW from \in [D -> A] PROVE body(k, from) \in A
  <2>1. CASE k \in 1..Len(text)
    <3>1. text[k] \in Alphabet /\ k + 1 \in D /\ <<>> \in A /\ s.escape \in A
      BY <2>1 DEF Usable
    <3>2. Escaped(s, text[k]) \in A /\ from[k + 1] \in A
      BY <3>1 DEF Escaped
    <3> QED
      BY <3>2
  <2>2. CASE k > Len(text)
    BY <2>2
  <2> QED
    BY <1>1, <2>1, <2>2
<1>3. F \in [D -> [[D -> A] -> A]]
  <2> HIDE DEF body
  <2> QED
    BY <1>2
<1>4. ASSUME NEW k \in D, NEW g \in [D -> A], NEW h \in [D -> A],
             \A j \in D : j > k => g[j] = h[j]
      PROVE  F[k][g] = F[k][h]
  <2>1. k <= Len(text) => k + 1 \in D /\ k + 1 > k
    BY <1>1
  <2>2. body(k, g) = body(k, h)
    BY <1>1, <1>4, <2>1
  <2> HIDE DEF body
  <2> QED
    BY <2>2
<1>5. Descends(1, Len(text) + 1, A, F)
  <2>1. \A k \in D : \A g, h \in [D -> A] :
          (\A j \in D : j > k => g[j] = h[j]) => F[k][g] = F[k][h]
    <3> HIDE DEF D, A, F
    <3> QED
      BY <1>4
  <2>2. A # {} /\ 1 \in Int /\ Len(text) + 1 \in Int
    BY <1>1
  <2> HIDE DEF F, A
  <2> QED
    BY <1>3, <2>1, <2>2, Zenon DEF Descends
<1>6. PICK f \in [D -> A] : \A k \in D : f[k] = F[k][f]
  <2> HIDE DEF F, A
  <2> QED
    BY <1>5, DownwardRecursion
<1>7. FieldEquation(s, text, f)
  <2>1. \A k \in D : f[k] = body(k, f)
    <3> HIDE DEF body
    <3> QED
      BY <1>6
  <2>2. f = [k \in D |-> body(k, f)]
    <3> HIDE DEF body
    <3> QED
      BY <2>1
  <2> QED
    BY <2>2 DEF FieldEquation, Escaped
<1>8. FieldEquation(s, text, CHOOSE from : FieldEquation(s, text, from))
  BY <1>7
<1> QED
  BY <1>8 DEF Field, FieldEquation

(* What a field says, and what the fields of a line are, from the k-th      *)
(* character on.                                                            *)
SaysEquation(s, field, from) ==
  from = [k \in 1..(Len(field) + 2) |->
            IF k > Len(field) THEN <<>>
            ELSE IF <<field[k]>> = s.escape /\ k < Len(field)
            THEN <<field[k + 1]>> \o from[k + 2]
            ELSE <<field[k]>> \o from[k + 1]]

LEMMA SaysDefined ==
  ASSUME NEW s, NEW field \in Seq(Alphabet)
  PROVE  \E from : /\ SaysEquation(s, field, from)
                   /\ Says(s, field) = IF field = s.null THEN {} ELSE {from[1]}
<1> DEFINE D == 1..(Len(field) + 2)
           A == Seq(Alphabet)
           body(k, from) == IF k > Len(field) THEN <<>>
                            ELSE IF <<field[k]>> = s.escape /\ k < Len(field)
                            THEN <<field[k + 1]>> \o from[k + 2]
                            ELSE <<field[k]>> \o from[k + 1]
           F == [k \in D |-> [from \in [D -> A] |-> body(k, from)]]
<1>1. Len(field) \in Nat
  OBVIOUS
<1>2. ASSUME NEW k \in D, NEW from \in [D -> A] PROVE body(k, from) \in A
  <2>1. CASE k > Len(field)
    BY <2>1
  <2>2. CASE k \in 1..Len(field) /\ <<field[k]>> = s.escape /\ k < Len(field)
    <3>1. field[k + 1] \in Alphabet /\ k + 2 \in D
      BY <2>2
    <3>2. <<field[k + 1]>> \in A /\ from[k + 2] \in A
      BY <3>1
    <3> QED
      BY <2>2, <3>2
  <2>3. CASE k \in 1..Len(field) /\ ~ (<<field[k]>> = s.escape /\ k < Len(field))
    <3>1. field[k] \in Alphabet /\ k + 1 \in D
      BY <2>3
    <3>2. <<field[k]>> \in A /\ from[k + 1] \in A
      BY <3>1
    <3> QED
      BY <2>3, <3>2
  <2> QED
    BY <1>1, <2>1, <2>2, <2>3
<1>3. F \in [D -> [[D -> A] -> A]]
  <2> HIDE DEF body
  <2> QED
    BY <1>2
<1>4. ASSUME NEW k \in D, NEW g \in [D -> A], NEW h \in [D -> A],
             \A j \in D : j > k => g[j] = h[j]
      PROVE  F[k][g] = F[k][h]
  <2>1. k <= Len(field) => k + 1 \in D /\ k + 2 \in D /\ k + 1 > k /\ k + 2 > k
    BY <1>1
  <2>2. k <= Len(field) => g[k + 1] = h[k + 1] /\ g[k + 2] = h[k + 2]
    BY <1>4, <2>1
  <2>3. body(k, g) = body(k, h)
    BY <1>1, <2>2
  <2> HIDE DEF body
  <2> QED
    BY <2>3
<1>5. Descends(1, Len(field) + 2, A, F)
  <2>1. \A k \in D : \A g, h \in [D -> A] :
          (\A j \in D : j > k => g[j] = h[j]) => F[k][g] = F[k][h]
    <3> HIDE DEF D, A, F
    <3> QED
      BY <1>4
  <2>2. A # {} /\ 1 \in Int /\ Len(field) + 2 \in Int
    BY <1>1
  <2> HIDE DEF F, A
  <2> QED
    BY <1>3, <2>1, <2>2, Zenon DEF Descends
<1>6. PICK f \in [D -> A] : \A k \in D : f[k] = F[k][f]
  <2> HIDE DEF F, A
  <2> QED
    BY <1>5, DownwardRecursion
<1>7. SaysEquation(s, field, f)
  <2>1. \A k \in D : f[k] = body(k, f)
    <3> HIDE DEF body
    <3> QED
      BY <1>6
  <2>2. f = [k \in D |-> body(k, f)]
    <3> HIDE DEF body
    <3> QED
      BY <2>1
  <2> QED
    BY <2>2 DEF SaysEquation
<1>8. SaysEquation(s, field, CHOOSE from : SaysEquation(s, field, from))
  BY <1>7
<1> QED
  BY <1>8 DEF Says, SaysEquation

Token(s, line, k) == IF <<line[k]>> = s.escape /\ k < Len(line) THEN 2 ELSE 1
Joined(s, line, k, rest) ==
  IF <<line[k]>> = s.delimiter THEN <<<<>>>> \o rest
  ELSE <<SubSeq(line, k, k + Token(s, line, k) - 1) \o rest[1]>> \o Tail(rest)
FieldsEquation(s, line, from) ==
  from = [k \in 1..(Len(line) + 2) |->
            IF k > Len(line) THEN <<<<>>>> ELSE Joined(s, line, k, from[k + Token(s, line, k)])]

LEMMA FieldsDefined ==
  ASSUME NEW s, NEW line \in Seq(Alphabet)
  PROVE  \E from : FieldsEquation(s, line, from) /\ Fields(s, line) = from[1]
<1> DEFINE D == 1..(Len(line) + 2)
           A == Seq(Seq(Alphabet)) \ {<<>>}
           body(k, from) == IF k > Len(line) THEN <<<<>>>>
                            ELSE Joined(s, line, k, from[k + Token(s, line, k)])
           F == [k \in D |-> [from \in [D -> A] |-> body(k, from)]]
<1>1. Len(line) \in Nat
  OBVIOUS
<1>2. ASSUME NEW k \in 1..Len(line), NEW rest \in A PROVE Joined(s, line, k, rest) \in A
  <2>1. /\ rest[1] \in Seq(Alphabet) /\ Tail(rest) \in Seq(Seq(Alphabet))
        /\ <<<<>>>> \in Seq(Seq(Alphabet))
    <3>1. rest \in Seq(Seq(Alphabet)) /\ rest # <<>>
      OBVIOUS
    <3>2. Len(rest) \in Nat \ {0}
      BY <3>1
    <3> QED
      BY <3>1, <3>2
  <2>2. SubSeq(line, k, k + Token(s, line, k) - 1) \in Seq(Alphabet)
    <3>1. \A j \in k..(k + Token(s, line, k) - 1) : line[j] \in Alphabet
      BY DEF Token
    <3>2. k \in Int /\ k + Token(s, line, k) - 1 \in Int
      BY DEF Token
    <3> QED
      BY <3>1, <3>2, SubSeqProperties
  <2> DEFINE first == SubSeq(line, k, k + Token(s, line, k) - 1) \o rest[1]
             tail == Tail(rest)
  <2>3. first \in Seq(Alphabet) /\ tail \in Seq(Seq(Alphabet))
    BY <2>1, <2>2
  <2> HIDE DEF first, tail
  <2>4. <<first>> \o tail \in A
    <3>1. <<first>> \in Seq(Seq(Alphabet)) /\ <<first>> # <<>>
      BY <2>3
    <3> QED
      BY <2>3, <3>1, ConcatEqualIffEmpty, ConcatProperties
  <2>5. <<<<>>>> \o rest \in A
    BY <2>1, ConcatEqualIffEmpty, ConcatProperties
  <2> QED
    BY <2>4, <2>5 DEF Joined, first, tail
<1>3. ASSUME NEW k \in D, NEW from \in [D -> A] PROVE body(k, from) \in A
  <2>1. CASE k \in 1..Len(line)
    <3>1. k + Token(s, line, k) \in D
      BY <2>1 DEF Token
    <3>2. from[k + Token(s, line, k)] \in A
      BY <3>1
    <3> HIDE DEF A
    <3> QED
      BY <1>2, <2>1, <3>2
  <2>2. CASE k > Len(line)
    <3>1. <<<<>>>> \in A
      OBVIOUS
    <3> QED
      BY <2>2, <3>1
  <2> QED
    BY <1>1, <2>1, <2>2
<1>4. F \in [D -> [[D -> A] -> A]]
  <2> HIDE DEF body, A
  <2> QED
    BY <1>3
<1>5. ASSUME NEW k \in D, NEW g \in [D -> A], NEW h \in [D -> A],
             \A j \in D : j > k => g[j] = h[j]
      PROVE  F[k][g] = F[k][h]
  <2>1. k <= Len(line) => k + Token(s, line, k) \in D /\ k + Token(s, line, k) > k
    BY <1>1 DEF Token
  <2>2. k <= Len(line) => g[k + Token(s, line, k)] = h[k + Token(s, line, k)]
    BY <1>5, <2>1
  <2>3. body(k, g) = body(k, h)
    BY <1>1, <2>2
  <2> HIDE DEF body, A
  <2> QED
    BY <2>3
<1>6. Descends(1, Len(line) + 2, A, F)
  <2>1. \A k \in D : \A g, h \in [D -> A] :
          (\A j \in D : j > k => g[j] = h[j]) => F[k][g] = F[k][h]
    <3> HIDE DEF D, A, F
    <3> QED
      BY <1>5
  <2>2. A # {} /\ 1 \in Int /\ Len(line) + 2 \in Int
    <3>1. <<<<>>>> \in A
      OBVIOUS
    <3> HIDE DEF A
    <3> QED
      BY <1>1, <3>1
  <2> HIDE DEF F, A
  <2> QED
    BY <1>4, <2>1, <2>2, Zenon DEF Descends
<1>7. PICK f \in [D -> A] : \A k \in D : f[k] = F[k][f]
  <2> HIDE DEF F, A
  <2> QED
    BY <1>6, DownwardRecursion
<1>8. FieldsEquation(s, line, f)
  <2>1. \A k \in D : f[k] = body(k, f)
    <3> HIDE DEF body, A
    <3> QED
      BY <1>7
  <2>2. f = [k \in D |-> body(k, f)]
    <3> HIDE DEF body, A
    <3> QED
      BY <2>1
  <2> QED
    BY <2>2 DEF FieldsEquation
<1>9. FieldsEquation(s, line, CHOOSE from : FieldsEquation(s, line, from))
  BY <1>8
<1> QED
  BY <1>9 DEF Fields, FieldsEquation, Joined, Token

-----------------------------------------------------------------------------
(* S holds where the tokens of the field start: none is a delimiter, and an *)
(* escape character has the character it escapes in the same field.         *)
Whole(v, S, d, e) ==
  /\ S \subseteq 1..(Len(v) + 1) /\ 1 \in S
  /\ \A k \in S : k <= Len(v) =>
       /\ v[k] # d
       /\ IF v[k] = e THEN k < Len(v) /\ k + 2 \in S ELSE k + 1 \in S

LEMMA NullIsWhole ==
  ASSUME NEW s, NEW d, NEW e, Usable(s, d, e)
  PROVE  Whole(s.null, 1..(Len(s.null) + 1), d, e)
<1>1. Len(s.null) \in Nat
  BY DEF Usable
<1>2. \A k \in 1..(Len(s.null) + 1) : k <= Len(s.null) =>
        /\ s.null[k] # d
        /\ s.null[k] = e => k < Len(s.null)
  BY <1>1 DEF Usable
<1> QED
  BY <1>1, <1>2 DEF Whole

LEMMA Parts ==
  ASSUME NEW A, NEW a \in Seq(A), NEW b \in Seq(A)
  PROVE  /\ a \o b \in Seq(A) /\ Len(a) \in Nat /\ Len(b) \in Nat
         /\ Len(a \o b) = Len(a) + Len(b)
         /\ \A i \in 1..Len(a) : (a \o b)[i] = a[i]
         /\ \A i \in 1..Len(b) : (a \o b)[Len(a) + i] = b[i]
  OBVIOUS

LEMMA ShortSequences ==
  ASSUME NEW A, NEW a \in A, NEW b \in A
  PROVE  /\ <<a>> \o <<b>> = <<a, b>> /\ <<>> \o <<b>> = <<b>>
         /\ <<a>> \in Seq(A) /\ Len(<<a>>) = 1 /\ <<a>>[1] = a
         /\ <<a, b>> \in Seq(A) /\ Len(<<a, b>>) = 2 /\ <<a, b>>[1] = a /\ <<a, b>>[2] = b
<1>1. /\ <<a>> \in Seq(A) /\ Len(<<a>>) = 1 /\ <<a>>[1] = a
      /\ <<b>> \in Seq(A) /\ Len(<<b>>) = 1 /\ <<b>>[1] = b
      /\ <<a, b>> \in Seq(A) /\ Len(<<a, b>>) = 2 /\ <<a, b>>[1] = a /\ <<a, b>>[2] = b
  OBVIOUS
<1> DEFINE x == <<a>>
           y == <<b>>
           z == <<a, b>>
<1>2. x \o y \in Seq(A) /\ Len(x \o y) = 2 /\ (x \o y)[1] = a /\ (x \o y)[2] = b
  <2> HIDE DEF x, y
  <2> QED
    BY <1>1, ConcatProperties DEF x, y
<1>3. x \o y = z
  <2> HIDE DEF x, y, z
  <2>1. z \in Seq(A) /\ Len(z) = 2 /\ z[1] = a /\ z[2] = b
    BY <1>1 DEF z
  <2>2. \A i \in 1..2 : (x \o y)[i] = z[i]
    <3>1. \A i \in 1..2 : i = 1 \/ i = 2
      OBVIOUS
    <3> QED
      BY <1>2, <2>1, <3>1
  <2>3. x \o y \in Seq(A) /\ Len(x \o y) = Len(z)
    BY <1>2, <2>1
  <2>4. \A i \in 1..Len(z) : (x \o y)[i] = z[i]
    BY <2>1, <2>2
  <2> QED
    BY <2>1, <2>3, <2>4, SeqEqual
<1>4. <<>> \o y = y
  <2> HIDE DEF y
  <2> QED
    BY <1>1, ConcatEmptySeq DEF y
<1> QED
  BY <1>1, <1>3, <1>4

(* from holds what is written for the text, from each of its characters on. *)
Encoded(d, e, c) == IF c \in {d, e} THEN <<e, c>> ELSE <<c>>
Encodes(d, e, text, from) ==
  /\ d \in Alphabet /\ e \in Alphabet /\ d # e
  /\ text \in Seq(Alphabet)
  /\ from[Len(text) + 1] = <<>>
  /\ \A k \in 1..Len(text) : from[k] = Encoded(d, e, text[k]) \o from[k + 1]

LEMMA FieldEncodes ==
  ASSUME NEW s, NEW d, NEW e, Usable(s, d, e), NEW text \in Seq(Alphabet)
  PROVE  \E from : Encodes(d, e, text, from) /\ Field(s, text) = from[1]
<1>1. PICK from : FieldEquation(s, text, from) /\ Field(s, text) = from[1]
  BY FieldDefined
<1>2. Len(text) \in Nat
  OBVIOUS
<1> DEFINE body(k) == IF k > Len(text) THEN <<>>
                      ELSE (IF <<text[k]>> \in {s.delimiter, s.escape} THEN s.escape ELSE <<>>)
                             \o <<text[k]>> \o from[k + 1]
<1>3. \A k \in 1..(Len(text) + 1) : from[k] = body(k)
  <2>1. from = [k \in 1..(Len(text) + 1) |-> body(k)]
    BY <1>1 DEF FieldEquation
  <2> HIDE DEF body
  <2> QED
    BY <2>1
<1>4. from[Len(text) + 1] = <<>>
  <2>1. Len(text) + 1 \in 1..(Len(text) + 1) /\ Len(text) + 1 > Len(text)
    BY <1>2
  <2>2. body(Len(text) + 1) = <<>>
    BY <2>1, Zenon
  <2> HIDE DEF body
  <2> QED
    BY <1>3, <2>1, <2>2
<1>5. ASSUME NEW k \in 1..Len(text)
      PROVE  from[k] = Encoded(d, e, text[k]) \o from[k + 1]
  <2>1. text[k] \in Alphabet /\ e \in Alphabet
    BY DEF Usable
  <2>2. body(k) = (IF <<text[k]>> \in {s.delimiter, s.escape} THEN s.escape ELSE <<>>)
                    \o <<text[k]>> \o from[k + 1]
    <3>1. ~ (k > Len(text))
      BY <1>2
    <3> QED
      BY <3>1, Zenon
  <2>3. <<text[k]>> \in {s.delimiter, s.escape} <=> text[k] \in {d, e}
    BY DEF Usable
  <2>4. (IF <<text[k]>> \in {s.delimiter, s.escape} THEN s.escape ELSE <<>>) \o <<text[k]>>
          = Encoded(d, e, text[k])
    <3>1. s.escape = <<e>>
      BY DEF Usable
    <3>2. <<e>> \o <<text[k]>> = <<e, text[k]>> /\ <<>> \o <<text[k]>> = <<text[k]>>
      BY <2>1, ShortSequences
    <3> QED
      BY <2>3, <3>1, <3>2 DEF Encoded
  <2>5. from[k] = body(k)
    BY <1>2, <1>3
  <2> HIDE DEF body
  <2> QED
    BY <2>2, <2>4, <2>5
<1> QED
  BY <1>1, <1>4, <1>5 DEF Encodes, Usable

LEMMA EncodedTyping ==
  ASSUME NEW d, NEW e, NEW text, NEW from, Encodes(d, e, text, from)
  PROVE  \A k \in 1..(Len(text) + 1) : from[k] \in Seq(Alphabet)
<1>1. Len(text) \in Nat
  BY DEF Encodes
<1> DEFINE P == {k \in 1..(Len(text) + 1) : from[k] \in Seq(Alphabet)}
<1>2. ASSUME NEW k \in 1..(Len(text) + 1),
             \A j \in 1..(Len(text) + 1) : j > k => j \in P
      PROVE  k \in P
  <2>1. CASE k = Len(text) + 1
    <3>1. from[k] = <<>>
      BY <2>1 DEF Encodes
    <3>2. <<>> \in Seq(Alphabet)
      OBVIOUS
    <3> QED
      BY <3>1, <3>2, Zenon
  <2>2. CASE k # Len(text) + 1
    <3>1. k \in 1..Len(text) /\ k + 1 \in 1..(Len(text) + 1) /\ k + 1 > k
      BY <1>1, <2>2
    <3>2. from[k + 1] \in Seq(Alphabet)
      BY <1>2, <3>1
    <3>3. Encoded(d, e, text[k]) \in Seq(Alphabet)
      BY <3>1 DEF Encodes, Encoded
    <3>4. from[k] = Encoded(d, e, text[k]) \o from[k + 1]
      BY <3>1 DEF Encodes
    <3> QED
      BY <3>2, <3>3, <3>4, ConcatProperties
  <2> QED
    BY <2>1, <2>2
<1>3. 1 \in Int /\ Len(text) + 1 \in Int
  BY <1>1
<1>4. \A k \in 1..(Len(text) + 1) :
        (\A j \in 1..(Len(text) + 1) : j > k => j \in P) => k \in P
  <2> HIDE DEF P
  <2> QED
    BY <1>2
<1> HIDE DEF P
<1>5. 1..(Len(text) + 1) \subseteq P
  BY <1>3, <1>4, DownwardInduction
<1> QED
  BY <1>5 DEF P

LEMMA WrittenOnce ==
  ASSUME NEW d, NEW e, NEW text, NEW from, Encodes(d, e, text, from), NEW k \in 1..Len(text)
  PROVE  IF text[k] \in {d, e}
         THEN /\ Len(from[k]) = Len(from[k + 1]) + 2
              /\ from[k][1] = e /\ from[k][2] = text[k]
              /\ \A i \in 1..Len(from[k + 1]) : from[k][2 + i] = from[k + 1][i]
         ELSE /\ Len(from[k]) = Len(from[k + 1]) + 1
              /\ from[k][1] = text[k]
              /\ \A i \in 1..Len(from[k + 1]) : from[k][1 + i] = from[k + 1][i]
<1> DEFINE more == from[k + 1]
<1>1. Len(text) \in Nat /\ k + 1 \in 1..(Len(text) + 1)
  BY DEF Encodes
<1>2. more \in Seq(Alphabet) /\ Len(more) \in Nat
  BY <1>1, EncodedTyping
<1>3. from[k] = Encoded(d, e, text[k]) \o more
  BY DEF Encodes
<1>4. text[k] \in Alphabet /\ e \in Alphabet
  BY DEF Encodes
<1> HIDE DEF more
<1>5. CASE text[k] \in {d, e}
  <2> DEFINE one == <<e, text[k]>>
  <2>1. one \in Seq(Alphabet) /\ Len(one) = 2 /\ one[1] = e /\ one[2] = text[k]
    BY <1>4, ShortSequences
  <2>2. from[k] = one \o more
    BY <1>3, <1>5 DEF Encoded
  <2> HIDE DEF one
  <2>3. /\ Len(from[k]) = Len(more) + 2 /\ from[k][1] = e /\ from[k][2] = text[k]
        /\ \A i \in 1..Len(more) : from[k][2 + i] = more[i]
    <3>1. /\ Len(one \o more) = Len(one) + Len(more)
          /\ \A i \in 1..Len(one) : (one \o more)[i] = one[i]
          /\ \A i \in 1..Len(more) : (one \o more)[Len(one) + i] = more[i]
      <4>1. one \in Seq(Alphabet) /\ more \in Seq(Alphabet)
        BY <1>2, <2>1
      <4> QED
        BY <4>1, Parts
    <3> QED
      BY <1>2, <2>1, <2>2, <3>1
  <2> QED
    BY <1>5, <2>3 DEF more
<1>6. CASE text[k] \notin {d, e}
  <2> DEFINE one == <<text[k]>>
  <2>1. one \in Seq(Alphabet) /\ Len(one) = 1 /\ one[1] = text[k]
    BY <1>4, ShortSequences
  <2>2. from[k] = one \o more
    BY <1>3, <1>6 DEF Encoded
  <2> HIDE DEF one
  <2>3. /\ Len(from[k]) = Len(more) + 1 /\ from[k][1] = text[k]
        /\ \A i \in 1..Len(more) : from[k][1 + i] = more[i]
    <3>1. /\ Len(one \o more) = Len(one) + Len(more)
          /\ \A i \in 1..Len(one) : (one \o more)[i] = one[i]
          /\ \A i \in 1..Len(more) : (one \o more)[Len(one) + i] = more[i]
      <4>1. one \in Seq(Alphabet) /\ more \in Seq(Alphabet)
        BY <1>2, <2>1
      <4> QED
        BY <4>1, Parts
    <3> QED
      BY <1>2, <2>1, <2>2, <3>1
  <2> QED
    BY <1>6, <2>3 DEF more
<1> QED
  BY <1>5, <1>6

(* Where what is written from the k-th character on stands in the field. *)
Place(from, k) == Len(from[1]) + 1 - Len(from[k])

EndsWith(f, t) ==
  /\ Len(t) \in Nat /\ Len(f) \in Nat /\ Len(t) <= Len(f)
  /\ \A i \in 1..Len(t) : f[(Len(f) - Len(t)) + i] = t[i]

LEMMA SuffixStands ==
  ASSUME NEW d, NEW e, NEW text, NEW from, Encodes(d, e, text, from),
         NEW k \in 1..(Len(text) + 1)
  PROVE  EndsWith(from[1], from[k])
<1> DEFINE D == 1..(Len(text) + 1)
           n == Len(from[1])
           P == {j \in D : /\ Len(from[j]) <= n
                           /\ \A i \in 1..Len(from[j]) : from[1][(n - Len(from[j])) + i] = from[j][i]}
<1>1. Len(text) \in Nat /\ 1 \in D
  BY DEF Encodes
<1>2. \A j \in D : Len(from[j]) \in Nat
  <2>1. \A j \in D : from[j] \in Seq(Alphabet)
    BY EncodedTyping
  <2> QED
    BY <2>1
<1>3. n \in Nat
  BY <1>1, <1>2
<1>4. 1 \in P
  <2>1. \A i \in 1..n : (n - n) + i = i
    BY <1>3
  <2> QED
    BY <1>1, <1>3, <2>1
<1>5. ASSUME NEW h \in D, h # 1, h - 1 \in P PROVE h \in P
  <2> DEFINE j == h - 1
             a == IF text[j] \in {d, e} THEN 2 ELSE 1
             l == Len(from[h])
             m == Len(from[j])
  <2>1. j \in 1..Len(text) /\ j + 1 = h /\ j \in D
    BY <1>1, <1>5
  <2>2. /\ a \in {1, 2} /\ m = l + a
        /\ \A i \in 1..l : from[j][a + i] = from[h][i]
    <3>1. CASE text[j] \in {d, e}
      <4>1. a = 2
        BY <3>1
      <4>2. /\ Len(from[j]) = Len(from[j + 1]) + 2
            /\ \A i \in 1..Len(from[j + 1]) : from[j][2 + i] = from[j + 1][i]
        <5> HIDE DEF j
        <5> QED
          BY <2>1, <3>1, WrittenOnce
      <4> HIDE DEF a, j
      <4> QED
        BY <2>1, <4>1, <4>2
    <3>2. CASE text[j] \notin {d, e}
      <4>1. a = 1
        BY <3>2
      <4>2. /\ Len(from[j]) = Len(from[j + 1]) + 1
            /\ \A i \in 1..Len(from[j + 1]) : from[j][1 + i] = from[j + 1][i]
        <5> HIDE DEF j
        <5> QED
          BY <2>1, <3>2, WrittenOnce
      <4> HIDE DEF a, j
      <4> QED
        BY <2>1, <4>1, <4>2
    <3> QED
      BY <3>1, <3>2
  <2>3. l \in Nat /\ m \in Nat
    BY <1>2, <2>1
  <2>4. /\ m <= n
        /\ \A i \in 1..m : from[1][(n - m) + i] = from[j][i]
    BY <1>5
  <2> HIDE DEF n, a, j, l, m
  <2>5. ASSUME NEW i \in 1..l PROVE from[1][(n - l) + i] = from[h][i]
    <3>1. a + i \in 1..m /\ (n - m) + (a + i) = (n - l) + i
      BY <1>3, <2>2, <2>3
    <3> QED
      BY <2>2, <2>4, <3>1
  <2>6. l <= n
    BY <1>3, <2>2, <2>3, <2>4
  <2> QED
    BY <2>5, <2>6 DEF n, l
<1>6. D \subseteq P
  <2> HIDE DEF P, D
  <2>1. \A h \in D : h # 1 /\ h - 1 \in P => h \in P
    BY <1>5
  <2>2. Hereditary(1, Len(text) + 1, P)
    BY <1>1, <1>4, <2>1 DEF Hereditary, D
  <2> QED
    BY <2>2, IntervalInduction DEF D
<1> QED
  BY <1>2, <1>3, <1>6 DEF EndsWith

LEMMA PlaceTyping ==
  ASSUME NEW d, NEW e, NEW text, NEW from, Encodes(d, e, text, from)
  PROVE  /\ Len(text) \in Nat /\ Len(from[1]) \in Nat
         /\ \A k \in 1..(Len(text) + 1) : Place(from, k) \in 1..(Len(from[1]) + 1)
         /\ Place(from, 1) = 1 /\ Place(from, Len(text) + 1) = Len(from[1]) + 1
<1>1. Len(text) \in Nat /\ from[Len(text) + 1] = <<>>
  BY DEF Encodes
<1>2. \A k \in 1..(Len(text) + 1) :
        /\ Len(from[k]) \in Nat /\ Len(from[1]) \in Nat /\ Len(from[k]) <= Len(from[1])
  BY SuffixStands DEF EndsWith
<1>3. Len(from[1]) \in Nat
  BY <1>1, <1>2
<1>4. \A k \in 1..(Len(text) + 1) : Place(from, k) \in 1..(Len(from[1]) + 1)
  <2>1. \A l, n \in Nat : l <= n => n + 1 - l \in 1..(n + 1)
    OBVIOUS
  <2> QED
    BY <1>2, <1>3, <2>1 DEF Place
<1>5. Place(from, 1) = 1
  BY <1>3 DEF Place
<1>6. Len(from[Len(text) + 1]) = 0
  BY <1>1
<1>7. Place(from, Len(text) + 1) = Len(from[1]) + 1
  BY <1>3, <1>6 DEF Place
<1> QED
  BY <1>1, <1>3, <1>4, <1>5, <1>7

LEMMA FieldPlaces ==
  ASSUME NEW d, NEW e, NEW text, NEW from, Encodes(d, e, text, from), NEW k \in 1..Len(text)
  PROVE  IF text[k] \in {d, e}
         THEN /\ Place(from, k) < Len(from[1])
              /\ from[1][Place(from, k)] = e /\ from[1][Place(from, k) + 1] = text[k]
              /\ Place(from, k + 1) = Place(from, k) + 2
         ELSE /\ Place(from, k) <= Len(from[1])
              /\ from[1][Place(from, k)] = text[k]
              /\ Place(from, k + 1) = Place(from, k) + 1
<1> DEFINE n == Len(from[1])
           l == Len(from[k])
           m == Len(from[k + 1])
<1>1. Len(text) \in Nat /\ k \in 1..(Len(text) + 1) /\ k + 1 \in 1..(Len(text) + 1)
  BY DEF Encodes
<1>2. /\ l \in Nat /\ n \in Nat /\ l <= n
      /\ \A i \in 1..l : from[1][(n - l) + i] = from[k][i]
  <2>1. EndsWith(from[1], from[k])
    BY <1>1, SuffixStands
  <2> QED
    BY <2>1 DEF EndsWith
<1>3. m \in Nat
  <2>1. EndsWith(from[1], from[k + 1])
    BY <1>1, SuffixStands
  <2> QED
    BY <2>1 DEF EndsWith
<1>4. /\ l >= 1 => from[1][n + 1 - l] = from[k][1]
      /\ l >= 2 => from[1][(n + 1 - l) + 1] = from[k][2]
  <2>1. (n - l) + 1 = n + 1 - l /\ (n - l) + 2 = (n + 1 - l) + 1
    BY <1>2
  <2>2. (l >= 1 => 1 \in 1..l) /\ (l >= 2 => 2 \in 1..l)
    BY <1>2
  <2> HIDE DEF n, l
  <2> QED
    BY <1>2, <2>1, <2>2
<1>5. Place(from, k) = n + 1 - l /\ Place(from, k + 1) = n + 1 - m
  BY DEF Place
<1>6. CASE text[k] \in {d, e}
  <2>1. l = m + 2 /\ from[k][1] = e /\ from[k][2] = text[k]
    BY <1>6, WrittenOnce
  <2> HIDE DEF n, l, m
  <2>2. l >= 1 /\ l >= 2 /\ n + 1 - l < n /\ n + 1 - m = n + 1 - l + 2
    BY <1>2, <1>3, <2>1
  <2> QED
    BY <1>4, <1>5, <1>6, <2>1, <2>2 DEF n
<1>7. CASE text[k] \notin {d, e}
  <2>1. l = m + 1 /\ from[k][1] = text[k]
    BY <1>7, WrittenOnce
  <2> HIDE DEF n, l, m
  <2>2. l >= 1 /\ n + 1 - l <= n /\ n + 1 - m = n + 1 - l + 1
    BY <1>2, <1>3, <2>1
  <2> QED
    BY <1>4, <1>5, <1>7, <2>1, <2>2 DEF n
<1> QED
  BY <1>6, <1>7

(* A written text is a whole field: its tokens start at the places.        *)
LEMMA FieldIsWhole ==
  ASSUME NEW d, NEW e, NEW text, NEW from, Encodes(d, e, text, from)
  PROVE  Whole(from[1], {Place(from, k) : k \in 1..(Len(text) + 1)}, d, e)
<1> DEFINE S == {Place(from, k) : k \in 1..(Len(text) + 1)}
<1>1. /\ Len(text) \in Nat /\ Len(from[1]) \in Nat
      /\ \A k \in 1..(Len(text) + 1) : Place(from, k) \in 1..(Len(from[1]) + 1)
      /\ Place(from, 1) = 1 /\ Place(from, Len(text) + 1) = Len(from[1]) + 1
  BY PlaceTyping
<1>2. S \subseteq 1..(Len(from[1]) + 1) /\ 1 \in S
  BY <1>1
<1>3. ASSUME NEW k \in 1..(Len(text) + 1), Place(from, k) <= Len(from[1])
      PROVE  /\ from[1][Place(from, k)] # d
             /\ IF from[1][Place(from, k)] = e
                THEN Place(from, k) < Len(from[1]) /\ Place(from, k) + 2 \in S
                ELSE Place(from, k) + 1 \in S
  <2>1. k \in 1..Len(text) /\ k + 1 \in 1..(Len(text) + 1)
    BY <1>1, <1>3
  <2>2. Place(from, k + 1) \in S
    BY <2>1
  <2>3. d # e
    BY DEF Encodes
  <2> HIDE DEF S
  <2> QED
    BY <2>1, <2>2, <2>3, FieldPlaces
<1> HIDE DEF S
<1>4. \A p \in S : \E k \in 1..(Len(text) + 1) : p = Place(from, k)
  BY DEF S
<1> QED
  BY <1>2, <1>3, <1>4 DEF Whole, S

(* null_value, which holds an escape character, is shorter than what is     *)
(* written for it.                                                          *)
LEMMA EscapesLengthen ==
  ASSUME NEW d, NEW e, NEW text, NEW from, Encodes(d, e, text, from),
         \E i \in 1..Len(text) : text[i] \in {d, e}
  PROVE  Len(from[1]) > Len(text)
<1> DEFINE D == 1..(Len(text) + 1)
           L == Len(text)
           Special(k) == \E i \in k..L : text[i] \in {d, e}
           P == {k \in D : /\ Len(from[k]) \in Nat /\ Len(from[k]) >= L + 1 - k
                           /\ Special(k) => Len(from[k]) > L + 1 - k}
<1>1. L \in Nat /\ 1 \in D
  BY DEF Encodes
<1>2. \A k \in D : Len(from[k]) \in Nat
  <2>1. \A k \in D : from[k] \in Seq(Alphabet)
    BY EncodedTyping
  <2> QED
    BY <2>1
<1>3. ASSUME NEW k \in D, \A j \in D : j > k => j \in P PROVE k \in P
  <2>1. CASE k = L + 1
    <3>1. ~ Special(k)
      BY <1>1, <2>1
    <3> HIDE DEF Special, L
    <3> QED
      BY <1>1, <1>2, <2>1, <3>1
  <2>2. CASE k # L + 1
    <3> DEFINE l == Len(from[k])
               m == Len(from[k + 1])
    <3>1. k \in 1..L /\ k + 1 \in D /\ k + 1 > k
      BY <1>1, <2>2
    <3>2. m \in Nat /\ m >= L + 1 - (k + 1) /\ (Special(k + 1) => m > L + 1 - (k + 1))
      <4> HIDE DEF Special, L
      <4> QED
        BY <1>3, <3>1
    <3>3. CASE text[k] \in {d, e}
      <4>1. l = m + 2
        <5> HIDE DEF D
        <5> QED
          BY <3>1, <3>3, WrittenOnce
      <4> HIDE DEF Special, L, l, m
      <4>2. l \in Nat /\ l >= L + 1 - k /\ l > L + 1 - k
        BY <1>1, <3>1, <3>2, <4>1
      <4> QED
        BY <4>2 DEF l
    <3>4. CASE text[k] \notin {d, e}
      <4>1. l = m + 1
        <5> HIDE DEF D
        <5> QED
          BY <3>1, <3>4, WrittenOnce
      <4>2. Special(k) => Special(k + 1)
        <5> SUFFICES ASSUME NEW i \in k..L, text[i] \in {d, e} PROVE Special(k + 1)
          OBVIOUS
        <5>1. i # k
          BY <3>4
        <5>2. i \in (k + 1)..L
          BY <1>1, <3>1, <5>1
        <5> QED
          BY <5>2
      <4> HIDE DEF Special, L, l, m
      <4>3. l \in Nat /\ l >= L + 1 - k /\ (Special(k) => l > L + 1 - k)
        BY <1>1, <3>1, <3>2, <4>1, <4>2
      <4> QED
        BY <4>3 DEF l
    <3> QED
      BY <3>3, <3>4
  <2> QED
    BY <2>1, <2>2
<1>4. D \subseteq P
  <2>1. \A k \in D : (\A j \in D : j > k => j \in P) => k \in P
    <3> HIDE DEF P, D
    <3> QED
      BY <1>3
  <2>2. 1 \in Int /\ L + 1 \in Int
    BY <1>1
  <2> HIDE DEF P
  <2> QED
    BY <2>1, <2>2, DownwardInduction
<1>5. Special(1)
  OBVIOUS
<1> HIDE DEF Special
<1>6. Len(from[1]) > L + 1 - 1
  BY <1>1, <1>4, <1>5
<1> QED
  BY <1>1, <1>6

-----------------------------------------------------------------------------
(* What a field that was written for a text says. *)
Saying(d, e, field, from) ==
  /\ field \in Seq(Alphabet)
  /\ \A p \in 1..(Len(field) + 2) :
       from[p] = IF p > Len(field) THEN <<>>
                 ELSE IF field[p] = e /\ p < Len(field) THEN <<field[p + 1]>> \o from[p + 2]
                 ELSE <<field[p]>> \o from[p + 1]

LEMMA SaysDecodes ==
  ASSUME NEW s, NEW d, NEW e, Usable(s, d, e), NEW field \in Seq(Alphabet)
  PROVE  \E from : /\ Saying(d, e, field, from)
                   /\ Says(s, field) = IF field = s.null THEN {} ELSE {from[1]}
<1>1. PICK from : /\ SaysEquation(s, field, from)
                  /\ Says(s, field) = IF field = s.null THEN {} ELSE {from[1]}
  BY SaysDefined
<1> DEFINE body(k) == IF k > Len(field) THEN <<>>
                      ELSE IF <<field[k]>> = s.escape /\ k < Len(field)
                      THEN <<field[k + 1]>> \o from[k + 2]
                      ELSE <<field[k]>> \o from[k + 1]
<1>2. \A k \in 1..(Len(field) + 2) : from[k] = body(k)
  <2>1. from = [k \in 1..(Len(field) + 2) |-> body(k)]
    BY <1>1 DEF SaysEquation
  <2> HIDE DEF body
  <2> QED
    BY <2>1
<1>3. \A k : <<field[k]>> = s.escape <=> field[k] = e
  BY DEF Usable
<1>4. \A k \in 1..(Len(field) + 2) :
        body(k) = IF k > Len(field) THEN <<>>
                  ELSE IF field[k] = e /\ k < Len(field) THEN <<field[k + 1]>> \o from[k + 2]
                  ELSE <<field[k]>> \o from[k + 1]
  BY <1>3, Zenon
<1> HIDE DEF body
<1>5. Saying(d, e, field, from)
  BY <1>2, <1>4 DEF Saying
<1> QED
  BY <1>1, <1>5

LEMMA SaysWhatWasWritten ==
  ASSUME NEW d, NEW e, NEW text, NEW from, Encodes(d, e, text, from),
         NEW says, Saying(d, e, from[1], says)
  PROVE  says[1] = text
<1> DEFINE D == 1..(Len(text) + 1)
           f == from[1]
           Left(k) == SubSeq(text, k, Len(text))
           P == {k \in D : says[Place(from, k)] = Left(k)}
<1>1. /\ Len(text) \in Nat /\ Len(f) \in Nat
      /\ \A k \in D : Place(from, k) \in 1..(Len(f) + 1)
      /\ Place(from, 1) = 1 /\ Place(from, Len(text) + 1) = Len(f) + 1
  BY PlaceTyping
<1>2. text \in Seq(Alphabet)
  BY DEF Encodes
<1>3. \A p \in 1..(Len(f) + 2) :
       says[p] = IF p > Len(f) THEN <<>>
                 ELSE IF f[p] = e /\ p < Len(f) THEN <<f[p + 1]>> \o says[p + 2]
                 ELSE <<f[p]>> \o says[p + 1]
  BY DEF Saying
<1>4. ASSUME NEW k \in D, \A j \in D : j > k => j \in P PROVE k \in P
  <2> DEFINE p == Place(from, k)
  <2>1. CASE k = Len(text) + 1
    <3>1. p = Len(f) + 1 /\ p \in 1..(Len(f) + 2) /\ p > Len(f)
      BY <1>1, <2>1
    <3>2. says[p] = <<>>
      BY <1>3, <3>1
    <3>3. Left(k) = <<>>
      BY <1>1, <2>1, SubSeqEmpty
    <3> QED
      BY <3>2, <3>3
  <2>2. CASE k # Len(text) + 1
    <3>1. k \in 1..Len(text) /\ k + 1 \in D /\ k + 1 > k /\ Len(text) \in k..Len(text)
      BY <1>1, <2>2
    <3>2. says[Place(from, k + 1)] = Left(k + 1)
      <4> HIDE DEF Left, D
      <4> QED
        BY <1>4, <3>1
    <3>3. Left(k) = <<text[k]>> \o Left(k + 1)
      BY <1>2, <3>1, SubSeqRecursiveFirst
    <3>4. p \in 1..(Len(f) + 2) /\ p \in Nat
      <4>1. p \in 1..(Len(f) + 1)
        BY <1>1
      <4> HIDE DEF p, f
      <4> QED
        BY <1>1, <4>1
    <3>5. d # e
      BY DEF Encodes
    <3>6. says[p] = <<text[k]>> \o says[Place(from, k + 1)]
      <4>1. CASE text[k] \in {d, e}
        <5>1. p < Len(f) /\ f[p] = e /\ f[p + 1] = text[k] /\ Place(from, k + 1) = p + 2
          <6> HIDE DEF D
          <6> QED
            BY <3>1, <4>1, FieldPlaces
        <5> HIDE DEF p, f
        <5>2. ~ (p > Len(f))
          BY <1>1, <3>4, <5>1
        <5>3. says[p] = <<f[p + 1]>> \o says[p + 2]
          BY <1>3, <3>4, <5>1, <5>2, Zenon
        <5> QED
          BY <5>1, <5>3
      <4>2. CASE text[k] \notin {d, e}
        <5>1. p <= Len(f) /\ f[p] = text[k] /\ Place(from, k + 1) = p + 1
          <6> HIDE DEF D
          <6> QED
            BY <3>1, <4>2, FieldPlaces
        <5> HIDE DEF p, f
        <5>2. ~ (p > Len(f)) /\ f[p] # e
          BY <1>1, <3>4, <4>2, <5>1
        <5>3. says[p] = <<f[p]>> \o says[p + 1]
          BY <1>3, <3>4, <5>2, Zenon
        <5> QED
          BY <5>1, <5>3
      <4> QED
        BY <4>1, <4>2
    <3> QED
      BY <3>2, <3>3, <3>6
  <2> QED
    BY <2>1, <2>2
<1>5. D \subseteq P
  <2>1. \A k \in D : (\A j \in D : j > k => j \in P) => k \in P
    <3> HIDE DEF P, D
    <3> QED
      BY <1>4
  <2>2. 1 \in Int /\ Len(text) + 1 \in Int
    BY <1>1
  <2> HIDE DEF P
  <2> QED
    BY <2>1, <2>2, DownwardInduction
<1>6. 1 \in D
  BY <1>1
<1>7. Left(1) = text
  BY <1>2, SubSeqFull
<1> HIDE DEF Left
<1> QED
  BY <1>1, <1>5, <1>6, <1>7

-----------------------------------------------------------------------------
(* The fields of a line, from each of its characters on. *)
Parsing(s, d, e, line, fields) ==
  /\ Usable(s, d, e)
  /\ line \in Seq(Alphabet)
  /\ FieldsEquation(s, line, fields)

(* The text v stands in the line after its first off characters. *)
Stands(v, line, off) ==
  /\ v \in Seq(Alphabet) /\ off \in Nat
  /\ off + Len(v) <= Len(line)
  /\ \A j \in 1..Len(v) : line[off + j] = v[j]

LEMMA FieldsFrom ==
  ASSUME NEW s, NEW d, NEW e, NEW line, NEW fields, Parsing(s, d, e, line, fields)
  PROVE  /\ Len(line) \in Nat
         /\ fields[Len(line) + 1] = <<<<>>>>
         /\ \A k \in 1..Len(line) : fields[k] = Joined(s, line, k, fields[k + Token(s, line, k)])
         /\ \A k \in 1..Len(line) : Token(s, line, k) = IF line[k] = e /\ k < Len(line) THEN 2 ELSE 1
<1>1. Len(line) \in Nat
  BY DEF Parsing
<1> DEFINE body(k) == IF k > Len(line) THEN <<<<>>>>
                      ELSE Joined(s, line, k, fields[k + Token(s, line, k)])
<1>2. fields = [k \in 1..(Len(line) + 2) |-> body(k)]
  BY DEF Parsing, FieldsEquation
<1>3. \A k \in 1..(Len(line) + 2) : fields[k] = body(k)
  <2> HIDE DEF body
  <2> QED
    BY <1>2
<1>4. fields[Len(line) + 1] = <<<<>>>>
  <2>1. Len(line) + 1 \in 1..(Len(line) + 2) /\ Len(line) + 1 > Len(line)
    BY <1>1
  <2>2. body(Len(line) + 1) = <<<<>>>>
    BY <2>1, Zenon
  <2> HIDE DEF body
  <2> QED
    BY <1>3, <2>1, <2>2
<1>5. ASSUME NEW k \in 1..Len(line)
      PROVE  fields[k] = Joined(s, line, k, fields[k + Token(s, line, k)])
  <2>1. k \in 1..(Len(line) + 2) /\ ~ (k > Len(line))
    BY <1>1
  <2>2. body(k) = Joined(s, line, k, fields[k + Token(s, line, k)])
    BY <2>1, Zenon
  <2> HIDE DEF body
  <2> QED
    BY <1>3, <2>1, <2>2
<1>6. \A k : <<line[k]>> = s.escape <=> line[k] = e
  BY DEF Parsing, Usable
<1>7. \A k \in 1..Len(line) : Token(s, line, k) = IF line[k] = e /\ k < Len(line) THEN 2 ELSE 1
  BY <1>6, Zenon DEF Token
<1> QED
  BY <1>1, <1>4, <1>5, <1>7

(* v is read as a field of the line, with the fields rest after it. *)
Reading(s, d, e, line, fields, v, off, S, rest) ==
  /\ Parsing(s, d, e, line, fields)
  /\ Stands(v, line, off) /\ Whole(v, S, d, e)
  /\ rest \in Seq(Seq(Alphabet)) /\ fields[off + Len(v) + 1] = <<<<>>>> \o rest
Skip(v, j, e) == IF v[j] = e THEN 2 ELSE 1
ReadFrom(fields, v, off, rest, j) == fields[off + j] = <<SubSeq(v, j, Len(v))>> \o rest

(* A step inside a field: its token is put before what follows of it. *)
LEMMA TokenIsPut ==
  ASSUME NEW s, NEW d, NEW e, NEW line, NEW fields, NEW v, NEW off, NEW S, NEW rest,
         Reading(s, d, e, line, fields, v, off, S, rest),
         NEW j \in S, j <= Len(v),
         ReadFrom(fields, v, off, rest, j + Skip(v, j, e))
  PROVE  ReadFrom(fields, v, off, rest, j)
<1> DEFINE k == off + j
           skip == Skip(v, j, e)
           l == Len(v)
<1> USE DEF Reading
<1>1. l \in Nat /\ off \in Nat /\ Len(line) \in Nat /\ off + l <= Len(line) /\ v \in Seq(Alphabet)
  BY DEF Stands, Parsing
<1>2. j \in 1..l /\ v[j] # d /\ skip \in {1, 2} /\ j + skip - 1 \in 1..l
  BY <1>1 DEF Whole, Skip
<1>0. skip = IF v[j] = e THEN 2 ELSE 1
  BY DEF Skip
<1> HIDE DEF skip
<1>3. k \in 1..Len(line) /\ line[k] = v[j] /\ (skip = 2 => k < Len(line))
  <2>1. line[k] = v[j]
    BY <1>2 DEF Stands
  <2>2. \A i \in 1..l : off + i \in 1..Len(line)
    BY <1>1
  <2>3. skip = 2 => j + 1 <= l
    BY <1>1, <1>2
  <2> HIDE DEF l
  <2>4. k \in 1..Len(line) /\ (skip = 2 => k < Len(line))
    BY <1>1, <1>2, <2>2, <2>3
  <2> QED
    BY <2>1, <2>4
<1>4. Token(s, line, k) = skip
  <2>1. Token(s, line, k) = IF line[k] = e /\ k < Len(line) THEN 2 ELSE 1
    BY <1>3, FieldsFrom
  <2> HIDE DEF k
  <2> QED
    BY <1>0, <1>3, <2>1
<1>5. SubSeq(line, k, k + skip - 1) = SubSeq(v, j, j + skip - 1)
  <2> DEFINE a == SubSeq(line, k, k + skip - 1)
             b == SubSeq(v, j, j + skip - 1)
  <2>1. \A i \in 0..(skip - 1) : line[k + i] = v[j + i] /\ v[j + i] \in Alphabet
    <3> SUFFICES ASSUME NEW i \in 0..(skip - 1) PROVE line[k + i] = v[j + i] /\ v[j + i] \in Alphabet
      OBVIOUS
    <3>1. j + i \in 1..l /\ off + (j + i) = k + i
      BY <1>1, <1>2
    <3> QED
      BY <1>1, <3>1 DEF Stands
  <2>2. \A m \in k..(k + skip - 1) : line[m] \in Alphabet
    <3> SUFFICES ASSUME NEW m \in k..(k + skip - 1) PROVE line[m] \in Alphabet
      OBVIOUS
    <3>1. m - k \in 0..(skip - 1) /\ k + (m - k) = m
      BY <1>1, <1>2
    <3> QED
      BY <2>1, <3>1
  <2>3. \A m \in j..(j + skip - 1) : v[m] \in Alphabet
    <3> SUFFICES ASSUME NEW m \in j..(j + skip - 1) PROVE v[m] \in Alphabet
      OBVIOUS
    <3>1. m - j \in 0..(skip - 1) /\ j + (m - j) = m
      BY <1>1, <1>2
    <3> QED
      BY <2>1, <3>1
  <2>4. k \in Int /\ k + skip - 1 \in Int /\ j \in Int /\ j + skip - 1 \in Int
    BY <1>1, <1>2
  <2>5. /\ a \in Seq(Alphabet) /\ Len(a) = skip
        /\ \A i \in 1..skip : a[i] = line[k + i - 1]
    <3> DEFINE last == k + skip - 1
    <3>1. k <= last /\ last - k + 1 = skip
      BY <1>2, <2>4
    <3>2. \A m \in k..last : line[m] \in Alphabet
      BY <2>2
    <3>3. k \in Int /\ last \in Int
      BY <2>4
    <3>4. a = SubSeq(line, k, last)
      OBVIOUS
    <3> HIDE DEF k, last, a
    <3> QED
      BY <3>1, <3>2, <3>3, <3>4, SubSeqProperties
  <2>6. /\ b \in Seq(Alphabet) /\ Len(b) = skip
        /\ \A i \in 1..skip : b[i] = v[j + i - 1]
    <3> DEFINE last == j + skip - 1
    <3>1. j <= last /\ last - j + 1 = skip
      BY <1>2, <2>4
    <3>2. \A m \in j..last : v[m] \in Alphabet
      BY <2>3
    <3>3. j \in Int /\ last \in Int
      BY <2>4
    <3>4. b = SubSeq(v, j, last)
      OBVIOUS
    <3> HIDE DEF last, b
    <3> QED
      BY <3>1, <3>2, <3>3, <3>4, SubSeqProperties
  <2> HIDE DEF a, b
  <2>7. \A i \in 1..skip : a[i] = b[i]
    <3> SUFFICES ASSUME NEW i \in 1..skip PROVE a[i] = b[i]
      OBVIOUS
    <3>1. i - 1 \in 0..(skip - 1) /\ k + (i - 1) = k + i - 1 /\ j + (i - 1) = j + i - 1
      BY <1>1, <1>2
    <3> QED
      BY <2>1, <2>5, <2>6, <3>1
  <2>8. a = b
    BY <2>5, <2>6, <2>7, SeqEqual
  <2> QED
    BY <2>8 DEF a, b
<1>6. <<line[k]>> # s.delimiter
  BY <1>2, <1>3 DEF Parsing, Usable
<1> DEFINE more == SubSeq(v, j + skip, l)
<1>7. more \in Seq(Alphabet)
  <2>1. j + skip \in Int /\ l \in Int /\ \A m \in (j + skip)..l : v[m] \in Alphabet
    BY <1>1, <1>2
  <2> QED
    BY <2>1, SubSeqProperties
<1>8. fields[k] = <<SubSeq(line, k, k + skip - 1) \o fields[k + skip][1]>> \o Tail(fields[k + skip])
  <2>1. fields[k] = Joined(s, line, k, fields[k + skip])
    <3> HIDE DEF k
    <3>1. fields[k] = Joined(s, line, k, fields[k + Token(s, line, k)])
      BY <1>3, FieldsFrom
    <3> QED
      BY <1>4, <3>1
  <2> HIDE DEF k
  <2> QED
    BY <1>4, <1>6, <2>1, Zenon DEF Joined
<1>9. fields[k + skip] = <<more>> \o rest
  <2>1. fields[off + (j + skip)] = <<more>> \o rest
    BY DEF ReadFrom, skip
  <2>2. off + (j + skip) = k + skip
    BY <1>1, <1>2
  <2> HIDE DEF k
  <2> QED
    BY <2>1, <2>2
<1>10. fields[k + skip][1] = more /\ Tail(fields[k + skip]) = rest
  <2> HIDE DEF more
  <2>1. (<<more>> \o rest)[1] = more /\ Tail(<<more>> \o rest) = rest
    BY <1>7
  <2> QED
    BY <1>9, <2>1
<1>11. SubSeq(v, j, j + skip - 1) \o more = SubSeq(v, j, l)
  <2>1. /\ j \in 1..(Len(v) + 1) /\ j + skip - 1 \in (j - 1)..Len(v)
        /\ l \in (j + skip - 1)..Len(v) /\ (j + skip - 1) + 1 = j + skip
    BY <1>1, <1>2
  <2>2. SubSeq(v, j, j + skip - 1) \o SubSeq(v, (j + skip - 1) + 1, l) = SubSeq(v, j, l)
    BY <1>1, <2>1, ConcatAdjacentSubSeq
  <2> QED
    BY <2>1, <2>2
<1> HIDE DEF more, k, l
<1>12. fields[k] = <<SubSeq(v, j, l)>> \o rest
  BY <1>5, <1>8, <1>10, <1>11
<1> QED
  BY <1>12 DEF k, l, ReadFrom

(* A whole field in a line is read as one field. *)
LEMMA WholeFieldIsRead ==
  ASSUME NEW s, NEW d, NEW e, NEW line, NEW fields, NEW v, NEW off, NEW S, NEW rest,
         Reading(s, d, e, line, fields, v, off, S, rest)
  PROVE  ReadFrom(fields, v, off, rest, 1) /\ SubSeq(v, 1, Len(v)) = v
<1> DEFINE D == 1..(Len(v) + 1)
           l == Len(v)
           P == {j \in D : j \in S => ReadFrom(fields, v, off, rest, j)}
<1>1. l \in Nat /\ off \in Nat /\ v \in Seq(Alphabet) /\ Whole(v, S, d, e)
  BY DEF Reading, Stands
<1>2. ASSUME NEW j \in D, \A h \in D : h > j => h \in P PROVE j \in P
  <2> SUFFICES ASSUME j \in S PROVE ReadFrom(fields, v, off, rest, j)
    OBVIOUS
  <2>1. CASE j = l + 1
    <3>1. SubSeq(v, j, l) = <<>>
      BY <1>1, <2>1, SubSeqEmpty
    <3>2. off + j = off + l + 1
      BY <1>1, <2>1
    <3>3. fields[off + l + 1] = <<<<>>>> \o rest
      BY DEF Reading
    <3> QED
      BY <3>1, <3>2, <3>3, Zenon DEF ReadFrom
  <2>2. CASE j # l + 1
    <3> DEFINE skip == Skip(v, j, e)
    <3>1. j <= l /\ j \in Nat
      BY <1>1, <2>2
    <3>2. skip \in {1, 2} /\ j + skip \in S /\ j + skip \in D
      BY <1>1, <3>1 DEF Whole, Skip
    <3>3. j + skip > j
      BY <3>1, <3>2
    <3>4. ReadFrom(fields, v, off, rest, j + skip)
      <4> HIDE DEF D, skip
      <4> QED
        BY <1>2, <3>2, <3>3
    <3> QED
      BY <3>1, <3>4, TokenIsPut
  <2> QED
    BY <2>1, <2>2
<1>3. D \subseteq P
  <2>1. \A j \in D : (\A h \in D : h > j => h \in P) => j \in P
    <3> HIDE DEF P, D
    <3> QED
      BY <1>2
  <2>2. 1 \in Int /\ l + 1 \in Int
    BY <1>1
  <2> HIDE DEF P
  <2> QED
    BY <2>1, <2>2, DownwardInduction
<1>4. 1 \in D /\ 1 \in S
  BY <1>1 DEF Whole
<1>5. SubSeq(v, 1, l) = v
  BY <1>1, SubSeqFull
<1> HIDE DEF D
<1>6. ReadFrom(fields, v, off, rest, 1)
  BY <1>3, <1>4
<1> QED
  BY <1>5, <1>6

(* A value of a column as it is written: whole, and saying what it said.    *)
IsField(v, d, e) == v \in Seq(Alphabet) /\ \E S : Whole(v, S, d, e)

LEMMA OneField ==
  ASSUME NEW s, NEW d, NEW e, Usable(s, d, e), NEW v, IsField(v, d, e)
  PROVE  Fields(s, v) = <<v>>
<1>1. v \in Seq(Alphabet) /\ Len(v) \in Nat
  BY DEF IsField
<1>2. PICK S : Whole(v, S, d, e)
  BY DEF IsField
<1>3. PICK fields : FieldsEquation(s, v, fields) /\ Fields(s, v) = fields[1]
  BY <1>1, FieldsDefined
<1>4. Parsing(s, d, e, v, fields)
  BY <1>1, <1>3 DEF Parsing
<1>5. Stands(v, v, 0)
  BY <1>1 DEF Stands
<1>6. <<>> \in Seq(Seq(Alphabet)) /\ <<<<>>>> \o <<>> = <<<<>>>> /\ <<v>> \o <<>> = <<v>>
  BY <1>1
<1>7. fields[Len(v) + 1] = <<<<>>>>
  BY <1>4, FieldsFrom
<1>8. 0 + Len(v) + 1 = Len(v) + 1 /\ 0 + 1 = 1
  BY <1>1
<1>9. fields[0 + Len(v) + 1] = <<<<>>>> \o <<>>
  BY <1>6, <1>7, <1>8
<1>10. fields[0 + 1] = <<v>> \o <<>>
  <2>1. Reading(s, d, e, v, fields, v, 0, S, <<>>)
    BY <1>2, <1>4, <1>5, <1>6, <1>9 DEF Reading
  <2>2. ReadFrom(fields, v, 0, <<>>, 1) /\ SubSeq(v, 1, Len(v)) = v
    BY <2>1, WholeFieldIsRead
  <2> QED
    BY <2>2, Zenon DEF ReadFrom
<1> QED
  BY <1>3, <1>6, <1>8, <1>10

LEMMA TwoFields ==
  ASSUME NEW s, NEW d, NEW e, Usable(s, d, e),
         NEW v, IsField(v, d, e), NEW w, IsField(w, d, e)
  PROVE  Fields(s, v \o s.delimiter \o w) = <<v, w>>
<1> DEFINE line == v \o s.delimiter \o w
           l == Len(v)
           m == Len(w)
<1>1. v \in Seq(Alphabet) /\ l \in Nat /\ w \in Seq(Alphabet) /\ m \in Nat
  BY DEF IsField
<1>2. PICK S : Whole(v, S, d, e)
  BY DEF IsField
<1>3. PICK T : Whole(w, T, d, e)
  BY DEF IsField
<1>4. s.delimiter = <<d>> /\ d \in Alphabet /\ e \in Alphabet /\ d # e
  BY DEF Usable
<1>5. /\ line \in Seq(Alphabet) /\ Len(line) = l + 1 + m
      /\ \A i \in 1..l : line[i] = v[i]
      /\ line[l + 1] = d
      /\ \A i \in 1..m : line[l + 1 + i] = w[i]
  <2> DEFINE one == <<d>>
             head == v \o one
  <2>1. one \in Seq(Alphabet) /\ Len(one) = 1 /\ one[1] = d
    BY <1>4
  <2> HIDE DEF one
  <2>2. /\ head \in Seq(Alphabet) /\ Len(head) = l + 1
        /\ \A i \in 1..l : head[i] = v[i]
        /\ head[l + 1] = d
    <3>1. /\ head \in Seq(Alphabet) /\ Len(head) = Len(v) + Len(one)
          /\ \A i \in 1..Len(v) : head[i] = v[i]
          /\ \A i \in 1..Len(one) : head[Len(v) + i] = one[i]
      <4>1. v \in Seq(Alphabet) /\ one \in Seq(Alphabet)
        BY <1>1, <2>1
      <4> HIDE DEF l, m
      <4> QED
        BY <4>1, ConcatProperties
    <3> HIDE DEF head
    <3> QED
      BY <2>1, <3>1
  <2>3. line = head \o w
    BY <1>4 DEF one
  <2> HIDE DEF head, line
  <2>4. /\ line \in Seq(Alphabet) /\ Len(line) = Len(head) + Len(w)
        /\ \A i \in 1..Len(head) : line[i] = head[i]
        /\ \A i \in 1..Len(w) : line[Len(head) + i] = w[i]
    <3>1. /\ head \o w \in Seq(Alphabet) /\ Len(head \o w) = Len(head) + Len(w)
          /\ \A i \in 1..Len(head) : (head \o w)[i] = head[i]
          /\ \A i \in 1..Len(w) : (head \o w)[Len(head) + i] = w[i]
      <4>1. head \in Seq(Alphabet) /\ w \in Seq(Alphabet)
        BY <1>1, <2>2
      <4> HIDE DEF l, m
      <4> QED
        BY <4>1, ConcatProperties
    <3> QED
      BY <2>3, <3>1
  <2> HIDE DEF l, m
  <2>5. \A i \in 1..(l + 1) : line[i] = head[i]
    BY <2>2, <2>4
  <2>6. \A i \in 1..l : i \in 1..(l + 1)
    BY <1>1
  <2>7. l + 1 \in 1..(l + 1)
    BY <1>1
  <2>8. /\ Len(line) = l + 1 + m
        /\ \A i \in 1..m : line[l + 1 + i] = w[i]
    BY <2>2, <2>4 DEF m
  <2> QED
    BY <2>2, <2>4, <2>5, <2>6, <2>7, <2>8
<1>6. PICK fields : FieldsEquation(s, line, fields) /\ Fields(s, line) = fields[1]
  <2> HIDE DEF line
  <2> QED
    BY <1>5, FieldsDefined
<1>7. Parsing(s, d, e, line, fields)
  <2> HIDE DEF line
  <2> QED
    BY <1>5, <1>6 DEF Parsing
<1> HIDE DEF line
<1>8. Stands(v, line, 0) /\ Stands(w, line, l + 1)
  <2> HIDE DEF l, m
  <2>1. 0 + l <= Len(line) /\ (l + 1) + m <= Len(line) /\ l + 1 \in Nat
    BY <1>1, <1>5
  <2>2. \A i \in 1..l : line[0 + i] = v[i]
    BY <1>1, <1>5
  <2> QED
    BY <1>1, <1>5, <2>1, <2>2 DEF Stands, l, m
<1>9. /\ <<>> \in Seq(Seq(Alphabet)) /\ <<w>> \in Seq(Seq(Alphabet))
      /\ <<<<>>>> \o <<>> = <<<<>>>> /\ <<w>> \o <<>> = <<w>>
      /\ <<v>> \o <<w>> = <<v, w>>
  <2>1. v \in Seq(Alphabet) /\ w \in Seq(Alphabet)
    BY <1>1
  <2>2. <<v>> \o <<w>> = <<v, w>> /\ <<w>> \in Seq(Seq(Alphabet))
    BY <2>1, ShortSequences
  <2> QED
    BY <1>1, <2>2
<1>10. fields[l + 2] = <<w>>
  <2>1. fields[Len(line) + 1] = <<<<>>>>
    BY <1>7, FieldsFrom
  <2>2. (l + 1) + m + 1 = Len(line) + 1 /\ (l + 1) + 1 = l + 2
    <3> HIDE DEF l, m
    <3> QED
      BY <1>1, <1>5
  <2>3. fields[(l + 1) + m + 1] = <<<<>>>> \o <<>>
    BY <1>9, <2>1, <2>2
  <2> HIDE DEF l
  <2>4. fields[(l + 1) + 1] = <<w>> \o <<>>
    <3>1. fields[(l + 1) + Len(w) + 1] = <<<<>>>> \o <<>>
      BY <2>3
    <3>2. Reading(s, d, e, line, fields, w, l + 1, T, <<>>)
      BY <1>3, <1>7, <1>8, <1>9, <3>1 DEF Reading
    <3>3. ReadFrom(fields, w, l + 1, <<>>, 1) /\ SubSeq(w, 1, Len(w)) = w
      BY <3>2, WholeFieldIsRead
    <3> QED
      BY <3>3, Zenon DEF ReadFrom
  <2> QED
    BY <1>9, <2>2, <2>4
<1>11. fields[l + 1] = <<<<>>>> \o <<w>>
  <2> HIDE DEF l, m
  <2>1. l + 1 \in 1..Len(line) /\ (l + 1) + 1 = l + 2
    BY <1>1, <1>5
  <2>2. Token(s, line, l + 1) = 1
    <3>1. Token(s, line, l + 1) = IF line[l + 1] = e /\ l + 1 < Len(line) THEN 2 ELSE 1
      BY <1>7, <2>1, FieldsFrom
    <3> QED
      BY <1>4, <1>5, <3>1
  <2>3. fields[l + 1] = Joined(s, line, l + 1, fields[(l + 1) + Token(s, line, l + 1)])
    BY <1>7, <2>1, FieldsFrom
  <2>4. <<line[l + 1]>> = s.delimiter
    BY <1>4, <1>5
  <2>5. fields[l + 1] = <<<<>>>> \o fields[l + 2]
    BY <2>1, <2>2, <2>3, <2>4 DEF Joined
  <2> QED
    BY <1>10, <2>5
<1>12. fields[0 + 1] = <<v>> \o <<w>>
  <2>1. fields[0 + Len(v) + 1] = <<<<>>>> \o <<w>>
    <3>1. 0 + Len(v) + 1 = l + 1
      BY <1>1
    <3> HIDE DEF l
    <3> QED
      BY <1>11, <3>1
  <2> QED
    <3>1. Reading(s, d, e, line, fields, v, 0, S, <<w>>)
      BY <1>2, <1>7, <1>8, <1>9, <2>1 DEF Reading
    <3>2. ReadFrom(fields, v, 0, <<w>>, 1) /\ SubSeq(v, 1, Len(v)) = v
      BY <3>1, WholeFieldIsRead
    <3> QED
      BY <3>2, Zenon DEF ReadFrom
<1>13. fields[1] = <<v, w>>
  BY <1>9, <1>12
<1> QED
  BY <1>6, <1>13 DEF line

-----------------------------------------------------------------------------
(* The values of a row. *)
Values == {{}} \cup {{t} : t \in Texts}
Value(s, x) == IF x = {} THEN s.null ELSE Field(s, CHOOSE t \in x : TRUE)
Mistaken(s, x) == \E t \in x : t # s.null /\ Field(s, t) = s.null

LEMMA ValueIsField ==
  ASSUME NEW s, NEW d, NEW e, Usable(s, d, e), NEW x \in Values
  PROVE  /\ IsField(Value(s, x), d, e)
         /\ Says(s, Value(s, x)) = IF Mistaken(s, x) THEN {} ELSE x
<1>1. CASE x = {}
  <2>1. Value(s, x) = s.null /\ ~ Mistaken(s, x)
    BY <1>1 DEF Value, Mistaken
  <2>2. IsField(s.null, d, e)
    BY NullIsWhole DEF IsField, Usable
  <2>3. s.null \in Seq(Alphabet)
    BY DEF Usable
  <2>4. Says(s, s.null) = {}
    <3>1. PICK from : Says(s, s.null) = IF s.null = s.null THEN {} ELSE {from[1]}
      BY <2>3, SaysDecodes
    <3> QED
      BY <3>1
  <2> QED
    BY <1>1, <2>1, <2>2, <2>4
<1>2. CASE x # {}
  <2>1. PICK t \in Texts : x = {t}
    BY <1>2 DEF Values
  <2>2. t \in Seq(Alphabet)
    BY TextType
  <2>3. (CHOOSE u \in x : TRUE) = t
    BY <2>1
  <2>4. PICK from : Encodes(d, e, t, from) /\ Field(s, t) = from[1]
    BY <2>2, FieldEncodes
  <2>5. Value(s, x) = from[1]
    BY <1>2, <2>3, <2>4 DEF Value
  <2>6. from[1] \in Seq(Alphabet)
    <3>1. 1 \in 1..(Len(t) + 1)
      BY <2>4 DEF Encodes
    <3> QED
      BY <2>4, <3>1, EncodedTyping
  <2>7. IsField(from[1], d, e)
    <3>1. Whole(from[1], {Place(from, k) : k \in 1..(Len(t) + 1)}, d, e)
      BY <2>4, FieldIsWhole
    <3> QED
      BY <2>6, <3>1 DEF IsField
  <2>8. PICK says : /\ Saying(d, e, from[1], says)
                    /\ Says(s, from[1]) = IF from[1] = s.null THEN {} ELSE {says[1]}
    <3> DEFINE field == from[1]
    <3>1. field \in Seq(Alphabet)
      BY <2>6
    <3> HIDE DEF field
    <3>2. \E says : /\ Saying(d, e, field, says)
                    /\ Says(s, field) = IF field = s.null THEN {} ELSE {says[1]}
      BY <3>1, SaysDecodes
    <3> QED
      BY <3>2 DEF field
  <2>9. says[1] = t
    BY <2>4, <2>8, SaysWhatWasWritten
  <2>10. t = s.null => from[1] # s.null
    <3> SUFFICES ASSUME t = s.null PROVE from[1] # s.null
      OBVIOUS
    <3>1. \E i \in 1..Len(t) : t[i] \in {d, e}
      BY DEF Usable
    <3>2. Len(from[1]) > Len(t)
      BY <2>4, <3>1, EscapesLengthen
    <3>3. Len(t) \in Nat
      BY <2>2
    <3> QED
      BY <3>2, <3>3
  <2>11. Mistaken(s, x) <=> from[1] = s.null
    BY <2>1, <2>4, <2>10 DEF Mistaken
  <2> QED
    BY <2>1, <2>5, <2>7, <2>8, <2>9, <2>11
<1> QED
  BY <1>1, <1>2

LEMMA LineOfOne ==
  ASSUME NEW s, NEW row \in [1..1 -> Values]
  PROVE  Line(s, row) = Value(s, row[1])
<1> DEFINE value(n) == IF row[n] = {} THEN s.null ELSE Field(s, CHOOSE t \in row[n] : TRUE)
           body(n, from) == IF n = Len(row) THEN value(n) ELSE value(n) \o s.delimiter \o from[n + 1]
           Good(from) == from = [n \in 1..Len(row) |-> body(n, from)]
           h == [n \in 1..1 |-> value(n)]
<1>1. Len(row) = 1
  OBVIOUS
<1>2. Line(s, row) = (CHOOSE from : Good(from))[1]
  BY DEF Line
<1>3. Good(h)
  <2>1. \A n \in 1..1 : n = Len(row)
    BY <1>1
  <2>2. \A n \in 1..1 : body(n, h) = value(n)
    <3> HIDE DEF value, h
    <3> QED
      BY <2>1
  <2> HIDE DEF value, body
  <2> QED
    BY <1>1, <2>2
<1>4. \A from : Good(from) => from[1] = value(1)
  <2> SUFFICES ASSUME NEW from, Good(from) PROVE from[1] = value(1)
    OBVIOUS
  <2>1. from[1] = body(1, from)
    <3> HIDE DEF value, body
    <3> QED
      BY <1>1
  <2> HIDE DEF value, Good
  <2> QED
    BY <1>1, <2>1
<1> HIDE DEF Good, value
<1>5. Line(s, row) = value(1)
  BY <1>2, <1>3, <1>4
<1> QED
  BY <1>5 DEF value, Value

LEMMA LineOfTwo ==
  ASSUME NEW s, NEW row \in [1..2 -> Values]
  PROVE  Line(s, row) = Value(s, row[1]) \o s.delimiter \o Value(s, row[2])
<1> DEFINE value(n) == IF row[n] = {} THEN s.null ELSE Field(s, CHOOSE t \in row[n] : TRUE)
           body(n, from) == IF n = Len(row) THEN value(n) ELSE value(n) \o s.delimiter \o from[n + 1]
           Good(from) == from = [n \in 1..Len(row) |-> body(n, from)]
           whole == value(1) \o s.delimiter \o value(2)
           h == [n \in 1..2 |-> IF n = 2 THEN value(2) ELSE whole]
<1>1. Len(row) = 2
  OBVIOUS
<1>2. Line(s, row) = (CHOOSE from : Good(from))[1]
  BY DEF Line
<1>3. Good(h)
  <2>1. h[2] = value(2) /\ h[1] = whole /\ h = [n \in 1..2 |-> h[n]]
    <3> HIDE DEF value, whole
    <3> QED
      OBVIOUS
  <2>2. body(2, h) = value(2)
    <3> HIDE DEF value, h
    <3> QED
      BY <1>1
  <2>3. body(1, h) = whole
    <3>1. body(1, h) = value(1) \o s.delimiter \o h[2]
      <4> HIDE DEF value, h
      <4> QED
        BY <1>1
    <3> HIDE DEF value, h, body
    <3> QED
      BY <2>1, <3>1 DEF whole
  <2>4. \A n \in 1..2 : n = 1 \/ n = 2
    OBVIOUS
  <2> HIDE DEF value, body, whole, h
  <2>5. \A n \in 1..2 : h[n] = body(n, h)
    BY <2>1, <2>2, <2>3, <2>4
  <2>6. h = [n \in 1..2 |-> body(n, h)]
    BY <2>1, <2>5
  <2> QED
    BY <1>1, <2>6
<1>4. \A from : Good(from) => from[1] = whole
  <2> SUFFICES ASSUME NEW from, Good(from) PROVE from[1] = whole
    OBVIOUS
  <2>1. from[1] = body(1, from) /\ from[2] = body(2, from)
    <3> HIDE DEF value, body
    <3> QED
      BY <1>1
  <2>2. body(2, from) = value(2)
    <3> HIDE DEF value, Good
    <3> QED
      BY <1>1
  <2>3. body(1, from) = value(1) \o s.delimiter \o from[2]
    <3> HIDE DEF value, Good
    <3> QED
      BY <1>1
  <2> HIDE DEF value, Good, body
  <2> QED
    BY <2>1, <2>2, <2>3 DEF whole
<1> HIDE DEF Good, value, whole
<1>5. Line(s, row) = whole
  BY <1>2, <1>3, <1>4
<1> QED
  BY <1>5 DEF whole, value, Value

(* Every accepted section brings the rows back. *)
LEMMA AcceptedReadsBack ==
  ASSUME NEW s, StorageAccepted(s), StorageTexts(s)
  PROVE  ReadsBack(s)
<1> DEFINE d == s.delimiter[1]
           e == s.escape[1]
<1>1. Usable(s, d, e)
  BY AcceptedIsUsable
<1> HIDE DEF d, e
<1>2. ASSUME NEW row \in [1..1 -> Values]
      PROVE  Row(s, Line(s, row)) = [n \in 1..1 |-> IF Mistaken(s, row[n]) THEN {} ELSE row[n]]
  <2> DEFINE v == Value(s, row[1])
  <2>1. row[1] \in Values
    OBVIOUS
  <2>2. IsField(v, d, e) /\ Says(s, v) = IF Mistaken(s, row[1]) THEN {} ELSE row[1]
    BY <1>1, <2>1, ValueIsField
  <2>3. Line(s, row) = v
    BY LineOfOne
  <2> HIDE DEF v
  <2>4. Fields(s, v) = <<v>>
    BY <1>1, <2>2, OneField
  <2>5. Row(s, v) = [n \in DOMAIN <<v>> |-> Says(s, <<v>>[n])]
    BY <2>4 DEF Row
  <2>6. Row(s, v) = [n \in 1..1 |-> Says(s, v)]
    BY <2>5
  <2>7. \A n \in 1..1 : n = 1
    OBVIOUS
  <2> QED
    BY <2>2, <2>3, <2>6, <2>7
<1>3. ASSUME NEW row \in [1..2 -> Values]
      PROVE  Row(s, Line(s, row)) = [n \in 1..2 |-> IF Mistaken(s, row[n]) THEN {} ELSE row[n]]
  <2> DEFINE v == Value(s, row[1])
             w == Value(s, row[2])
  <2>1. row[1] \in Values /\ row[2] \in Values
    OBVIOUS
  <2>2. /\ IsField(v, d, e) /\ Says(s, v) = IF Mistaken(s, row[1]) THEN {} ELSE row[1]
        /\ IsField(w, d, e) /\ Says(s, w) = IF Mistaken(s, row[2]) THEN {} ELSE row[2]
    BY <1>1, <2>1, ValueIsField
  <2>3. Line(s, row) = v \o s.delimiter \o w
    BY LineOfTwo
  <2> HIDE DEF v, w
  <2>4. Fields(s, v \o s.delimiter \o w) = <<v, w>>
    BY <1>1, <2>2, TwoFields
  <2>5. Row(s, v \o s.delimiter \o w) = [n \in DOMAIN <<v, w>> |-> Says(s, <<v, w>>[n])]
    BY <2>4 DEF Row
  <2>6. /\ DOMAIN <<v, w>> = 1..2 /\ <<v, w>>[1] = v /\ <<v, w>>[2] = w
    OBVIOUS
  <2>7. \A n \in 1..2 : n = 1 \/ n = 2
    OBVIOUS
  <2>8. \A n \in 1..2 : Says(s, <<v, w>>[n]) = IF Mistaken(s, row[n]) THEN {} ELSE row[n]
    BY <2>2, <2>6, <2>7
  <2> QED
    BY <2>3, <2>5, <2>6, <2>8
<1>4. \A m \in 1..2 : \A row \in [1..m -> Values] :
        Row(s, Line(s, row)) = [n \in 1..m |-> IF Mistaken(s, row[n]) THEN {} ELSE row[n]]
  <2>1. \A m \in 1..2 : m = 1 \/ m = 2
    OBVIOUS
  <2> QED
    BY <1>2, <1>3, <2>1
<1> QED
  BY <1>4 DEF ReadsBack, Values, Mistaken

-----------------------------------------------------------------------------
LEMMA CallIsFixed == Spec => [](call \in Calls)
<1> DEFINE Known == call \in Calls
<1>1. Init => Known
  BY DEF Init
<1>2. ASSUME Known, [Next]_vars PROVE Known'
  <2>1. call' = call
    <3>1. CASE UNCHANGED vars
      BY <3>1 DEF vars
    <3>2. CASE Replace \/ Start \/ Argparse \/ Load \/ StatInput \/ Scan \/ Parse
      BY <3>2 DEF Replace, Start, Argparse, Load, StatInput, Scan, Parse, Untouched
    <3>3. CASE Plan \/ Write \/ CloseOutput \/ CloseAfterError \/ Say \/ Flush
      BY <3>3 DEF Plan, Write, CloseOutput, CloseAfterError, Say, Flush, Untouched
    <3>4. CASE Return \/ BrokenPipe \/ OutOfMemory \/ Expected \/ Traceback
      BY <3>4 DEF Return, BrokenPipe, OutOfMemory, Expected, Traceback, Leave
    <3>5. CASE Shutdown \/ Ended
      BY <3>5 DEF Shutdown, Ended, vars
    <3> QED
      BY <1>2, <3>1, <3>2, <3>3, <3>4, <3>5 DEF Next
  <2> QED
    BY <1>2, <2>1
<1> QED
  BY <1>1, <1>2, PTL DEF Spec

(* With every accepted configuration, every row of one or two columns comes *)
(* back from the line it was written as, whatever its texts.                *)
THEOREM EveryStorageIsRead == Spec => []StorageIsRead
<1> DEFINE Known == call \in Calls
<1>1. ASSUME CliInv, Known PROVE StorageIsRead
  <2> SUFFICES ASSUME At("scan") PROVE ReadsBack(call.config.storage)
    BY DEF StorageIsRead
  <2>1. ConfigAccepted(call.config)
    <3>1. Does /\ stage = 3 + Shift
      BY <1>1, Places DEF CliInv, Types
    <3> QED
      BY <1>1, <3>1 DEF CliInv, Progress, Loaded, Shift
  <2>2. StorageTexts(call.config.storage)
    BY <1>1, CallsAssumption DEF StorageTexts
  <2> QED
    BY <2>1, <2>2, AcceptedReadsBack DEF ConfigAccepted
<1> QED
  BY <1>1, CliInvariant, CallIsFixed, PTL
=============================================================================
