---------------------------- MODULE MCPinnedPath ----------------------------
(* Paths of up to three components: "/" belongs to root, what is below it   *)
(* to a user.                                                               *)
EXTENDS PinnedPath

MCNodes  == {"root", "user", "d", "e", "f", "other", "rlink", "ulink", "dangling"}
MCKind   == [x \in MCNodes |-> CASE x \in {"root", "user", "d", "e"}        -> "dir"
                                 [] x = "f"                                -> "file"
                                 [] x = "other"                            -> "other"
                                 [] OTHER                                  -> "link"]
MCLinkTo == [x \in Links |-> IF x = "dangling" THEN None ELSE "user"]
MCRootLinks == {"rlink", "dangling"}
MCSealed    == {"root"}
MCNames     == {1, 2}
MCRequests  == {<<>>, <<1>>, <<1, 2>>, <<1, 2, 1>>}
MCTrees ==
  {[x \in Dirs |-> CASE x = "root" -> <<top, None>>
                     [] x = "user" -> <<None, sub>>
                     [] x = "d"    -> <<deep, None>>
                     [] OTHER      -> <<None, None>>] :
     top \in {None, "user", "rlink", "ulink", "dangling"},
     sub \in {None, "d", "f", "ulink", "rlink", "other"}, deep \in {None, "f"}}
=============================================================================
