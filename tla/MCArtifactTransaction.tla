------------------------ MODULE MCArtifactTransaction ------------------------
(* Instances of ArtifactTransaction for TLC: the kinds of failing calls. *)
EXTENDS ArtifactTransactionInv

OSErrors == {[raises |-> "OSError", done |-> d] : d \in BOOLEAN}
AnyFault == [raises : {"OSError", "MemoryError"}, done : BOOLEAN]
NoFault  == {}

(* An OSError reports that the call did nothing; a MemoryError comes from   *)
(* the interpreter and may follow a rename that took place.                 *)
ErrorsAfterTheCall == {[raises |-> "OSError", done |-> FALSE],
                       [raises |-> "MemoryError", done |-> TRUE]}
=============================================================================
