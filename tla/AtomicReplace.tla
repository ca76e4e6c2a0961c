---------------------------- MODULE AtomicReplace ----------------------------
(***************************************************************************)
(* What write_artifacts promises its caller (generator.py, "Replace the    *)
(* complete artifact set with rollback on any write failure"): the set a   *)
(* reader can recover from the directory changes once, from what was there *)
(* to the complete new set, or never.                                      *)
(***************************************************************************)
CONSTANT Artifacts

VARIABLES
  before,      \* the set before the call
  set,         \* the set the directory stands for
  replaced     \* whether the replacement took place

TypeOK ==
  /\ before \in [Artifacts -> {"absent", "old", "dir", "input"}]
  /\ set \in [Artifacts -> {"absent", "old", "dir", "input", "new"}]
  /\ replaced \in BOOLEAN

Init ==
  /\ before \in [Artifacts -> {"absent", "old", "dir", "input"}]
  /\ set = before
  /\ replaced = FALSE

Replace ==
  /\ ~ replaced
  /\ \A i \in Artifacts : before[i] \in {"absent", "old"}
  /\ set' = [i \in Artifacts |-> "new"]
  /\ replaced' = TRUE
  /\ UNCHANGED before

Next == Replace
Spec == Init /\ [][Next]_<<before, set, replaced>>
=============================================================================
