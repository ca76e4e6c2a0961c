------------------------------ MODULE PinnedPath ------------------------------
(***************************************************************************)
(* open_pinned_path of path_safety.py: resolve a path component by         *)
(* component, each one relative to the descriptor of the one before, while *)
(* other processes rename, create and remove the directories it walks      *)
(* through.  Three callers use it: _open_input_root, write_artifacts (which *)
(* has missing directories made) and _input_file_identities.               *)
(*                                                                         *)
(* One action is one system call and the checks up to the next one.  An    *)
(* entry leads to a node (a device and inode), whose kind never changes.   *)
(***************************************************************************)
EXTENDS Naturals, Sequences, FiniteSets

CONSTANTS
  Nodes,       \* what entries lead to
  Kind,        \* "dir", "file", "link", "other"
  LinkTo,      \* where a link leads: a node that is no link, or None
  None,
  Root,        \* the directory "/"
  RootLinks,   \* the links root owns
  Sealed,      \* directories of root that nobody else can write to
  Names,       \* component names
  Trees,       \* directory contents at the start
  Requests,    \* the paths of this instance
  MaxChanges,  \* bound on the changes other processes make
  MaxFaults    \* bound on the calls that fail by themselves

Dirs  == {d \in Nodes : Kind[d] = "dir"}
Files == {f \in Nodes : Kind[f] = "file"}
Links == {l \in Nodes : Kind[l] = "link"}

ASSUME NodesAssumption ==
  /\ None \notin Nodes
  /\ Kind \in [Nodes -> {"dir", "file", "link", "other"}]
  /\ LinkTo \in [Links -> (Nodes \ Links) \cup {None}]
  /\ Root \in Dirs /\ RootLinks \subseteq Links /\ Sealed \subseteq Dirs
ASSUME TreesAssumption ==
  /\ Trees \subseteq [Dirs -> [Names -> Nodes \cup {None}]]
  /\ Requests \subseteq Seq(Names)
ASSUME BoundsAssumption == MaxChanges \in Nat /\ MaxFaults \in Nat

Callers == {"input", "output", "identity"}

VARIABLES
  tree, changes,  \* the file system
  caller, path,   \* who asks, and for what
  i,              \* the component to resolve next
  pc,
  at,             \* the node current_fd is open on
  checked,        \* the entry checked_status is about
  trail,          \* history: the components opened so far
  faults,
  outcome         \* "none", "opened" or what the caller raises

fs   == <<tree, changes>>
vars == <<fs, caller, path, i, pc, at, checked, trail, faults, outcome>>
request == <<caller, path>>

Creates == caller = "output"   \* create_directory

Init ==
  /\ tree \in Trees /\ changes = 0
  /\ caller \in Callers /\ path \in Requests /\ i = 1
  /\ pc = "next" /\ at = Root /\ checked = None /\ trail = <<>>
  /\ faults = 0 /\ outcome = "none"

Final == i = Len(path)
Left  == i <= Len(path)   \* a component is left

(* What each caller makes of an exception of open_pinned_path. *)
InputError(exception) ==
  CASE exception = "symlink"  -> IF Final THEN "link" ELSE "link component"
    [] exception = "identity" -> "changed"
    [] exception = "missing"  -> "missing"
    [] OTHER                  -> "cannot open"
OutputError(exception) ==
  CASE exception = "symlink"         -> "link component"
    [] exception = "identity"        -> "changed"
    [] exception = "not a directory" -> "not a directory"
    [] OTHER                         -> "cannot open"
Reported(exception) ==
  CASE caller = "input"    -> InputError(exception)
    [] caller = "output"   -> OutputError(exception)
    [] caller = "identity" -> "cannot open"

Raise(exception) == pc' = "ended" /\ outcome' = Reported(exception)

CallFails ==
  /\ pc # "ended" /\ faults < MaxFaults
  /\ faults' = faults + 1
  /\ Raise("failed")
  /\ UNCHANGED <<fs, request, i, at, checked, trail>>

-----------------------------------------------------------------------------
(* open_pinned_path and open_verified_entry. *)
(* The definitions named ...Variant are faulty versions of the definition   *)
(* that follows them; no action uses them.                                  *)

Entry == tree[at][path[i]]
ExpectedVariant == Dirs \cup Files   \* forgets that more components follow
Expected == IF Creates \/ ~ Final THEN Dirs ELSE Dirs \cup Files

TrustedVariant(link) == link \in RootLinks   \* whoever may write to the directory
Trusted(link) == link \in RootLinks /\ at \in Sealed   \* _trusted_system_symlink_at

(* The refusals between the stat and the open. *)
Inspects(entry) ==
  CASE entry \in Links /\ ~ Trusted(entry) -> Raise("symlink") /\ UNCHANGED checked
    [] entry \notin Links \cup Expected    ->
         /\ Raise(IF Expected = Dirs THEN "not a directory" ELSE "failed")
         /\ UNCHANGED checked
    [] OTHER -> checked' = entry /\ pc' = "open" /\ UNCHANGED outcome

Stat ==
  /\ pc = "next" /\ Left
  /\ IF Entry # None THEN Inspects(Entry)
     ELSE IF Creates THEN pc' = "mkdir" /\ UNCHANGED <<checked, outcome>>
     ELSE Raise("missing") /\ UNCHANGED checked
  /\ UNCHANGED <<fs, request, i, at, trail, faults>>

Linked == {tree[d][x] : d \in Dirs, x \in Names}
Unused == {d \in Dirs \ (Linked \cup Sealed \cup {Root}) : \A x \in Names : tree[d][x] = None}

(* FileExistsError is suppressed. *)
MakeDirectory ==
  /\ pc = "mkdir"
  /\ pc' = "restat"
  /\ IF Entry # None THEN UNCHANGED tree
     ELSE \E d \in Unused : tree' = [tree EXCEPT ![at][path[i]] = d]
  /\ UNCHANGED <<changes, request, i, at, checked, trail, faults, outcome>>

StatAgain ==
  /\ pc = "restat"
  /\ IF Entry # None THEN Inspects(Entry) ELSE Raise("missing") /\ UNCHANGED checked
  /\ UNCHANGED <<fs, request, i, at, trail, faults>>

(* O_NOFOLLOW unless the stat saw a (trusted) link. *)
Opened == IF checked \in Links /\ Entry \in Links THEN LinkTo[Entry] ELSE Entry

(* What the kernel and the fstat refuse. *)
RefusesVariant(node) ==   \* forgets to compare the identities
  IF node = None THEN "missing"
  ELSE IF node \notin Expected
       THEN IF Expected = Dirs THEN "not a directory" ELSE "failed"
  ELSE "nothing"
Refuses(node) ==
  IF node = None THEN "missing"
  ELSE IF node \notin Expected
       THEN IF Expected = Dirs THEN "not a directory" ELSE "failed"
  ELSE IF checked \notin Links /\ node # checked THEN "identity"
  ELSE "nothing"

OpenEntry ==
  /\ pc = "open"
  /\ IF Refuses(Opened) # "nothing"
     THEN Raise(Refuses(Opened)) /\ UNCHANGED <<i, at, checked, trail>>
     ELSE /\ trail' = Append(trail, [dir |-> at, checked |-> checked, entry |-> Entry,
                                     node |-> Opened])
          /\ at' = Opened /\ i' = i + 1 /\ checked' = None
          /\ pc' = "next" /\ UNCHANGED outcome
  /\ UNCHANGED <<fs, request, faults>>

(* The descriptor is returned; _input_file_identities wants a regular file. *)
ReturnPinned ==
  /\ pc = "next" /\ ~ Left
  /\ pc' = "ended"
  /\ outcome' = IF caller = "identity" /\ at \notin Files THEN "cannot open" ELSE "opened"
  /\ UNCHANGED <<fs, request, i, at, checked, trail, faults>>

-----------------------------------------------------------------------------
(* Other processes; none of them can write to a sealed directory. *)

Entries == {<<d, x>> : d \in Dirs \ Sealed, x \in Names}
Change  == pc # "ended" /\ changes < MaxChanges /\ changes' = changes + 1

Move(from, to) ==
  /\ Change
  /\ from # to /\ tree[from[1]][from[2]] \notin {None, to[1]}
  /\ tree[to[1]][to[2]] \notin Dirs
  /\ tree' = [[tree EXCEPT ![to[1]][to[2]] = tree[from[1]][from[2]]]
                   EXCEPT ![from[1]][from[2]] = None]

Remove(entry) ==
  /\ Change
  /\ tree[entry[1]][entry[2]] # None
  /\ tree' = [tree EXCEPT ![entry[1]][entry[2]] = None]

Create(entry, node) ==
  /\ Change
  /\ tree[entry[1]][entry[2]] = None
  /\ node # Root /\ (node \in Dirs => node \notin Linked \cup Sealed \cup {entry[1]})
  /\ tree' = [tree EXCEPT ![entry[1]][entry[2]] = node]

Interfere ==
  /\ \/ \E from, to \in Entries : Move(from, to)
     \/ \E entry \in Entries : Remove(entry)
     \/ \E entry \in Entries, node \in Nodes : Create(entry, node)
  /\ UNCHANGED <<request, i, pc, at, checked, trail, faults, outcome>>

Finished == pc = "ended" /\ UNCHANGED vars

Resolve == Stat \/ MakeDirectory \/ StatAgain \/ OpenEntry \/ ReturnPinned \/ CallFails
Next    == Resolve \/ Interfere \/ Finished
Spec    == Init /\ [][Next]_vars

-----------------------------------------------------------------------------
(* Properties. *)

Step == [dir : Dirs, checked : Nodes, entry : Nodes, node : Dirs \cup Files]

(* Type invariant: while a component is left, current_fd is a directory. *)
TypeOK ==
  /\ tree \in [Dirs -> [Names -> Nodes \cup {None}]] /\ changes \in 0..MaxChanges
  /\ caller \in Callers /\ path \in Seq(Names) /\ i \in 1..(Len(path) + 1)
  /\ pc \in {"next", "mkdir", "restat", "open", "ended"}
  /\ at \in Dirs \cup Files /\ (Left => at \in Dirs)
  /\ checked \in Nodes \cup {None} /\ trail \in Seq(Step) /\ faults \in 0..MaxFaults
  /\ pc \in {"mkdir", "restat", "open"} => Left
  /\ pc = "open" => checked \in Nodes

(* Whatever other processes do between the calls, each component opened is  *)
(* what the stat had seen, links included, each one was looked up in the    *)
(* node opened before it, and no link led on but one of root in a directory *)
(* only root can write to (the claim of the two docstrings about trusted    *)
(* links).                                                                  *)
NeverDiverted ==
  \A k \in DOMAIN trail :
    /\ trail[k].dir = IF k = 1 THEN Root ELSE trail[k - 1].node
    /\ trail[k].entry = trail[k].checked
    /\ IF trail[k].entry \in Links
       THEN /\ trail[k].entry \in RootLinks /\ trail[k].dir \in Sealed
            /\ trail[k].node = LinkTo[trail[k].entry]
       ELSE trail[k].node = trail[k].entry

(* Reference definition: the node at the end of a path whose links are all  *)
(* trusted.                                                                 *)
Resolved ==
  LET follow(d, entry) == IF entry \notin Links THEN entry
                          ELSE IF entry \in RootLinks /\ d \in Sealed THEN LinkTo[entry] ELSE None
      node[k \in 0..Len(path)] ==
        IF k = 0 THEN Root
        ELSE IF node[k - 1] \in Dirs
             THEN follow(node[k - 1], tree[node[k - 1]][path[k]]) ELSE None
  IN  node[Len(path)]

(* With nobody interfering the path is opened exactly when it names what    *)
(* the caller may use, and an output path does so afterwards unless a link  *)
(* or a file is in its way: no directory is refused, and none made in a     *)
(* place the path does not lead to.                                         *)
QuietIsExact ==
  pc = "ended" /\ changes = 0 /\ faults = 0 =>
    /\ outcome = "opened" => at = Resolved
    /\ outcome = "opened" <=>
         Resolved \in CASE caller = "input"    -> Dirs \cup Files
                              [] caller = "output"   -> Dirs
                              [] caller = "identity" -> Files
    /\ outcome = "missing" => Resolved = None
=============================================================================
