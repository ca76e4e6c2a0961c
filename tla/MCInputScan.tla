----------------------------- MODULE MCInputScan -----------------------------
(* Small input trees for TLC.  The name 1 has another suffix, the name 2    *)
(* ends in .sql, and so do 3 and 4; both links lead to a directory.         *)
EXTENDS InputScan

MCNames    == {1, 2}
MCSqlNames == {2}

KindOf(nodes) == [x \in nodes |-> CASE x \in {"top", "sub", "deep"} -> "dir"
                                    [] x \in {"f", "g"}             -> "file"
                                    [] OTHER                        -> x]
LinksOf(nodes) == [x \in nodes \cap {"link", "syslink"} |-> "sub"]

(* Trees nobody changes: three nested directories in every arrangement of   *)
(* the first two names, and one directory of three .sql files.              *)
QuietNodes  == {"top", "sub", "deep", "f", "g", "link", "other"}
QuietKind   == KindOf(QuietNodes)
QuietLinkTo == LinksOf(QuietNodes)
QuietNames    == MCNames \cup {3, 4}
QuietSqlNames == MCSqlNames \cup {3, 4}
Nested ==
  {[d \in {"top", "sub", "deep"} |->
      CASE d = "top" -> t [] d = "sub" -> s [] OTHER -> [x \in MCNames |-> "none"]] :
     t \in {t \in [MCNames -> {"none", "sub", "f", "link", "other"}] : t # [x \in MCNames |-> "sub"]},
     s \in {s \in [MCNames -> {"none", "deep", "f", "g"}] : s # [x \in MCNames |-> "deep"]}}
  \cup {[d \in {"top", "sub", "deep"} |->
            CASE d = "top" -> <<"sub", "deep">> [] OTHER -> [x \in MCNames |-> IF x = 1 THEN "none" ELSE f]] :
           f \in {"none", "f", "g"}}
QuietTrees ==
  {[d \in {"top", "sub", "deep"} |-> [x \in QuietNames |-> IF x \in MCNames THEN t[d][x] ELSE "none"]] : t \in Nested}
  \cup {[d \in {"top", "sub", "deep"} |->
            [x \in QuietNames |-> IF d = "top" /\ x \in QuietSqlNames THEN files[x] ELSE "none"]] :
           files \in [QuietSqlNames -> {"f", "g"}]}

(* Trees other processes change: with a subdirectory, and without one. *)
BusyNodes  == {"top", "sub", "f", "g", "link", "syslink"}
BusyKind   == KindOf(BusyNodes)
BusyLinkTo == LinksOf(BusyNodes)
BusyTrees  ==
  {[d \in {"top", "sub"} |-> IF d = "top" THEN [x \in MCNames |-> IF x = 1 THEN one ELSE "f"]
                                          ELSE [x \in MCNames |-> IF x = 1 THEN "none" ELSE "g"]] :
     one \in {"sub", "none"}}
=============================================================================
