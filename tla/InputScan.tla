------------------------------ MODULE InputScan ------------------------------
(***************************************************************************)
(* _scan_sql_files of workflow.py: find the .sql files below the input     *)
(* root, then open and read them one at a time, while other processes      *)
(* rename, create, remove and extend files under the same root.            *)
(*                                                                         *)
(* One action is one system call of the scanner and the checks up to the   *)
(* next one.  Directory entries lead to nodes (a node is a device and      *)
(* inode, FileIdentity); the kind of a node never changes.                 *)
(***************************************************************************)
EXTENDS Naturals, Sequences, FiniteSetsExt

CONSTANTS
  Nodes,          \* what entries lead to
  Kind,           \* "dir", "file", "link", "syslink" (trusted), "other"
  LinkTo,         \* where a link leads: a node or None
  None,
  Names,          \* entry names, numbered in their sorting order
  SqlNames,       \* those that end in .sql
  MaxDepth,       \* _MAX_INPUT_DIRECTORY_DEPTH
  MaxDirectories, \* _MAX_INPUT_DIRECTORIES
  MaxEntries,     \* _MAX_INPUT_ENTRIES
  MaxFiles,       \* _MAX_INPUT_SQL_FILES
  MaxFileBytes,   \* _MAX_INPUT_SQL_FILE_BYTES
  MaxBytes,       \* _MAX_INPUT_SQL_BYTES
  Sizes,          \* file sizes of this instance
  Trees,          \* directory contents the input may have at the start
  MaxChanges      \* bound on the changes other processes make

Kinds  == {"dir", "file", "link", "syslink", "other"}
Paths  == Seq(Names)            \* relative to the root
IsLink(k) == k \in {"link", "syslink"}
Dirs   == {d \in Nodes : Kind[d] = "dir"}
Files  == {f \in Nodes : Kind[f] = "file"}

ASSUME NodesAssumption ==
  /\ None \notin Nodes
  /\ Kind \in [Nodes -> Kinds]
  /\ LinkTo \in [{l \in Nodes : IsLink(Kind[l])} -> Nodes \cup {None}]
  /\ \A l \in DOMAIN LinkTo : LinkTo[l] = None \/ ~ IsLink(Kind[LinkTo[l]])
ASSUME NamesAssumption == Names \subseteq Nat /\ IsFiniteSet(Names) /\ SqlNames \subseteq Names
ASSUME LimitsAssumption ==
  /\ {MaxDepth, MaxDirectories, MaxEntries, MaxFiles, MaxFileBytes, MaxBytes} \subseteq Nat
  /\ MaxDirectories >= 1   \* the root
  /\ Sizes \subseteq Nat /\ MaxChanges \in Nat
ASSUME TreesAssumption == Trees \subseteq [Dirs -> [Names -> Nodes \cup {None}]]

VARIABLES
  (* the file system *)
  tree, size, root, rootIsSql, changes,
  (* the scanner *)
  pc,          \* what it does next
  pending,     \* the stack pending_directories
  dir,         \* the _PendingDirectory it lists, with the node it holds open
  names,       \* entries of dir it has not looked at
  children,    \* child_directories
  budget,      \* the _ScanBudget
  found,       \* the list `discovered`
  walk,        \* the _reopen_scanned_entry in progress
  opened,      \* opened_byte_count
  read,        \* actual_byte_count
  scanned,     \* the _ScannedSql records it has yielded
  outcome      \* how it ended

fs      == <<tree, size, root, rootIsSql, changes>>
listing == <<pending, dir, names, children, budget, found>>
reading == <<opened, read, scanned>>
vars    == <<fs, pc, listing, walk, reading, outcome>>

NoWalk == [for |-> "none", entry |-> [path |-> <<>>, node |-> None],
           at |-> None, rest |-> <<>>, checked |-> None]
NoDir  == [path |-> <<>>, node |-> None, depth |-> 0]

Init ==
  /\ tree \in Trees /\ size \in [Files -> Sizes]
  /\ root \in Dirs \cup Files /\ rootIsSql \in BOOLEAN /\ changes = 0
  /\ pc = IF root \in Dirs THEN "pop" ELSE "direct"
  /\ pending = IF root \in Dirs THEN <<[path |-> <<>>, node |-> root, depth |-> 0]>> ELSE <<>>
  /\ dir = NoDir /\ names = {} /\ children = <<>>
  /\ budget = [directories |-> IF root \in Dirs THEN 1 ELSE 0,
               entries |-> 0, files |-> 0, bytes |-> 0]
  /\ found = {} /\ walk = NoWalk
  /\ opened = 0 /\ read = 0 /\ scanned = <<>>
  /\ outcome = "none"

(* A TableFactoryError ends the generator. *)
Stop(message) == pc' = "ended" /\ outcome' = message

(* Any call of the scanner may fail by itself; it runs out of memory and    *)
(* meets bytes that are not UTF-8 in the same way. *)
CallFails ==
  /\ pc \in {"list", "stat", "walk", "open", "read"}
  /\ Stop("failed")
  /\ UNCHANGED <<fs, listing, walk, reading>>

-----------------------------------------------------------------------------
(* _register_sql_file: the limits, in the order of the code. *)
(* The definitions named ...Variant are faulty versions of the definition   *)
(* that follows them; no action uses them.                                  *)
ExceededVariant(b) == b.files >= MaxFiles \/ b.bytes > MaxBytes   \* one file too few
Exceeded(b) == b.files > MaxFiles \/ b.bytes > MaxBytes

Registers(path, node) ==
  LET b == [budget EXCEPT !.files = @ + 1, !.bytes = @ + size[node]] IN
    /\ budget' = b
    /\ IF size[node] > MaxFileBytes \/ Exceeded(b)
       THEN Stop("limit") /\ UNCHANGED found
       ELSE found' = found \cup {[path |-> path, node |-> node]} /\ UNCHANGED <<pc, outcome>>

(* _collect_sql_metadata. *)
PoppedVariant == pending   \* reads the top of the stack and leaves it there
Popped == SubSeq(pending, 1, Len(pending) - 1)

PopDirectory ==
  /\ pc = "pop" /\ pending # <<>>
  /\ LET top == pending[Len(pending)] IN
       /\ pending' = Popped
       /\ dir' = top
       /\ IF top.path = <<>>
          THEN pc' = "list" /\ UNCHANGED walk
          ELSE /\ pc' = "walk"
               /\ walk' = [for |-> "directory", entry |-> [path |-> top.path, node |-> top.node],
                           at |-> root, rest |-> top.path, checked |-> None]
  /\ UNCHANGED <<fs, names, children, budget, found, reading, outcome>>

(* _bounded_directory_names *)
ListDirectory ==
  /\ pc = "list"
  /\ LET present == {x \in Names : tree[dir.node][x] # None}
         entries == budget.entries + Cardinality(present)
     IN  /\ budget' = [budget EXCEPT !.entries =
                          IF entries > MaxEntries THEN MaxEntries + 1 ELSE entries]
         /\ IF entries > MaxEntries
            THEN Stop("limit") /\ UNCHANGED names
            ELSE names' = present /\ pc' = "stat" /\ UNCHANGED outcome
  /\ children' = <<>>
  /\ UNCHANGED <<fs, pending, dir, found, walk, reading>>

(* One entry, in sorting order. *)
StatEntry ==
  /\ pc = "stat" /\ names # {}
  /\ \E x \in names :
       LET node == tree[dir.node][x]
           path == Append(dir.path, x)
       IN
         /\ \A y \in names : x <= y
         /\ names' = names \ {x}
         /\ \/ node = None /\ Stop("failed") /\ UNCHANGED <<children, budget, found>>
            \/ /\ node # None /\ IsLink(Kind[node])
               /\ IF x \in SqlNames \/ LinkTo[node] \in Dirs
                  THEN Stop("link") ELSE UNCHANGED <<pc, outcome>>
               /\ UNCHANGED <<children, budget, found>>
            \/ /\ node \in Dirs
               /\ IF dir.depth + 1 > MaxDepth
                  THEN Stop("limit") /\ UNCHANGED <<children, budget>>
                  ELSE /\ budget' = [budget EXCEPT !.directories = @ + 1]
                       /\ IF budget'.directories > MaxDirectories
                          THEN Stop("limit") /\ UNCHANGED children
                          ELSE /\ children' = Append(children,
                                    [path |-> path, node |-> node, depth |-> dir.depth + 1])
                               /\ UNCHANGED <<pc, outcome>>
               /\ UNCHANGED found
            \/ /\ node \in Files /\ x \in SqlNames
               /\ Registers(path, node) /\ UNCHANGED children
            \/ /\ node # None /\ ~ IsLink(Kind[node]) /\ node \notin Dirs
               /\ ~ (node \in Files /\ x \in SqlNames)
               /\ UNCHANGED <<pc, outcome, children, budget, found>>
  /\ UNCHANGED <<fs, pending, dir, walk, reading>>

Reversed(s) == [i \in 1..Len(s) |-> s[Len(s) + 1 - i]]

EndDirectory ==
  /\ pc = "stat" /\ names = {}
  /\ pending' = pending \o Reversed(children)
  /\ pc' = "pop"
  /\ UNCHANGED <<fs, dir, names, children, budget, found, walk, reading, outcome>>

NothingFound ==
  /\ pc = "pop" /\ pending = <<>>
  /\ IF found = {} THEN Stop("no input") ELSE pc' = "next" /\ UNCHANGED outcome
  /\ UNCHANGED <<fs, listing, walk, reading>>

-----------------------------------------------------------------------------
(* _reopen_scanned_entry: from the root, component by component, a stat and *)
(* an open_verified_entry each.                                             *)

Final == Len(walk.rest) = 1

(* The identity check of an entry found during the discovery. *)
ChangedVariant(node) == FALSE   \* trusts the path
Changed(node) == node # walk.entry.node

WalkStat ==
  /\ pc = "walk"
  /\ LET node == tree[walk.at][Head(walk.rest)] IN
       IF node = None \/ (Final /\ Changed(node))
       THEN Stop("changed") /\ UNCHANGED walk
       ELSE /\ walk' = [walk EXCEPT !.checked = node]
            /\ pc' = "open" /\ UNCHANGED outcome
  /\ UNCHANGED <<fs, listing, reading>>

(* What os.open returns: O_NOFOLLOW unless the stat saw a trusted link. *)
OpenedNode ==
  LET entry == tree[walk.at][Head(walk.rest)] IN
    IF entry # None /\ IsLink(Kind[entry]) /\ Kind[walk.checked] = "syslink"
    THEN LinkTo[entry] ELSE entry

Expected == IF Final /\ walk.for = "regular" THEN "file" ELSE "dir"

VerifiedVariant(node) ==   \* believes the stat of a directory
  /\ Kind[walk.checked] \in {Expected, "syslink"}
  /\ node # None /\ (Expected = "file" => Kind[node] = "file")
  /\ ~ (Final /\ Changed(node))

Verified(node) ==
  /\ Kind[walk.checked] \in {Expected, "syslink"}
  /\ node # None /\ Kind[node] = Expected
  /\ Kind[walk.checked] = "syslink" \/ node = walk.checked
  /\ ~ (Final /\ Changed(node))

(* The sizes the descriptor shows, against the limits. *)
Measures(node) ==
  /\ opened' = opened + size[node]
  /\ IF size[node] > MaxFileBytes \/ opened' > MaxBytes
     THEN Stop("limit") ELSE pc' = "read" /\ UNCHANGED outcome

WalkOpen ==
  /\ pc = "open"
  /\ LET node == OpenedNode IN
       \/ /\ ~ Verified(node)
          /\ Stop("changed") /\ UNCHANGED <<walk, opened, dir>>
       \/ /\ Verified(node) /\ ~ Final
          /\ walk' = [walk EXCEPT !.at = node, !.rest = Tail(@), !.checked = None]
          /\ pc' = "walk" /\ UNCHANGED <<opened, outcome, dir>>
       \/ /\ Verified(node) /\ Final /\ walk.for = "directory"
          /\ dir' = [dir EXCEPT !.node = node]
          /\ pc' = "list" /\ UNCHANGED <<walk, opened, outcome>>
       \/ /\ Verified(node) /\ Final /\ walk.for = "regular"
          /\ walk' = [walk EXCEPT !.at = node]
          /\ Measures(node) /\ UNCHANGED dir
  /\ UNCHANGED <<fs, pending, names, children, budget, found, read, scanned>>

-----------------------------------------------------------------------------
(* The loop over the discovered files, sorted by their paths. *)

(* No name is a prefix of another one here, so that the order of the joined *)
(* paths is that of their components.                                       *)
Before(p, q) ==
  \E k \in 1..Len(q) :
    /\ \A j \in 1..(k - 1) : j <= Len(p) /\ p[j] = q[j]
    /\ k > Len(p) \/ p[k] < q[k]

UnreadVariant ==   \* takes two links to one file for one input
  {f \in found : \A k \in DOMAIN scanned : scanned[k].node # f.node}
Unread  == {f \in found : \A k \in DOMAIN scanned : scanned[k].path # f.path}

NextFile ==
  /\ pc = "next"
  /\ \/ Unread = {} /\ Stop("done") /\ UNCHANGED walk
     \/ \E f \in Unread :
          /\ \A g \in Unread : f = g \/ Before(f.path, g.path)
          /\ walk' = [for |-> "regular", entry |-> f, at |-> root, rest |-> f.path,
                      checked |-> None]
          /\ pc' = "walk" /\ UNCHANGED outcome
  /\ UNCHANGED <<fs, listing, reading>>

(* An input that is a file itself. *)
DirectFile ==
  /\ pc = "direct"
  /\ IF ~ rootIsSql
     THEN Stop("not SQL") /\ UNCHANGED <<budget, found, walk>>
     ELSE /\ budget' = [budget EXCEPT !.files = 1, !.bytes = size[root]]
          /\ IF size[root] > MaxFileBytes \/ Exceeded(budget')
             THEN Stop("limit") /\ UNCHANGED <<found, walk>>
             ELSE /\ found' = {[path |-> <<>>, node |-> root]}
                  /\ walk' = [NoWalk EXCEPT !.entry.node = root, !.at = root]
                  /\ pc' = "read" /\ UNCHANGED outcome
  /\ UNCHANGED <<fs, pending, dir, names, children, reading>>

(* _read_utf8 reads one byte more than it may return. *)
ByteLimitVariant ==   \* counts the sizes checked before the read
  LET left == MaxBytes - (opened - size[walk.at])
  IN  IF left < MaxFileBytes THEN left ELSE MaxFileBytes
ByteLimit ==
  LET left == MaxBytes - read IN IF left < MaxFileBytes THEN left ELSE MaxFileBytes

ReadFile ==
  /\ pc = "read"
  /\ LET bytes == size[walk.at] IN
       IF bytes > ByteLimit
       THEN Stop("limit") /\ UNCHANGED <<read, scanned>>
       ELSE /\ read' = read + bytes
            /\ scanned' = Append(scanned, [path |-> walk.entry.path, node |-> walk.at,
                                           bytes |-> bytes])
            /\ pc' = "yield" /\ UNCHANGED outcome
  /\ UNCHANGED <<fs, listing, walk, opened>>

(* The consumer, _parse_files, asks for the next file or closes the         *)
(* generator after an error of its own.                                     *)
Resume ==
  /\ pc = "yield"
  /\ pc' = "next" /\ UNCHANGED <<fs, listing, walk, reading, outcome>>

Close ==
  /\ pc = "yield"
  /\ Stop("closed") /\ UNCHANGED <<fs, listing, walk, reading>>

-----------------------------------------------------------------------------
(* Other processes. *)

Entries == {<<d, x>> : d \in Dirs, x \in Names}
Linked  == {tree[e[1]][e[2]] : e \in Entries} \ {None}

Change == pc # "ended" /\ changes < MaxChanges /\ changes' = changes + 1

(* What can be reached through a node. *)
Inside(node) ==
  LET reach[k \in 0..Cardinality(Dirs)] ==
        IF k = 0 THEN {node}
        ELSE reach[k - 1] \cup {tree[d][x] : d \in reach[k - 1] \cap Dirs, x \in Names}
  IN  reach[Cardinality(Dirs)]

(* rename: replaces no directory and moves none below itself *)
Move(from, to) ==
  /\ Change
  /\ from # to /\ tree[from[1]][from[2]] # None
  /\ to[1] \notin Inside(tree[from[1]][from[2]])
  /\ tree[to[1]][to[2]] \notin Dirs
  /\ tree' = [[tree EXCEPT ![to[1]][to[2]] = tree[from[1]][from[2]]]
                   EXCEPT ![from[1]][from[2]] = None]
  /\ UNCHANGED <<size, root, rootIsSql>>

(* unlink, or a rename out of the tree *)
Remove(at) ==
  /\ Change
  /\ tree[at[1]][at[2]] # None
  /\ tree' = [tree EXCEPT ![at[1]][at[2]] = None]
  /\ UNCHANGED <<size, root, rootIsSql>>

(* A new directory, file or link, a hard link, or a rename into the tree. *)
Create(at, node) ==
  /\ Change
  /\ tree[at[1]][at[2]] = None
  /\ node # root /\ (node \in Dirs => node \notin Linked /\ at[1] \notin Inside(node))
  /\ tree' = [tree EXCEPT ![at[1]][at[2]] = node]
  /\ UNCHANGED <<size, root, rootIsSql>>

Resize(file, bytes) ==
  /\ Change
  /\ size[file] # bytes
  /\ size' = [size EXCEPT ![file] = bytes]
  /\ UNCHANGED <<tree, root, rootIsSql>>

Interfere ==
  /\ \/ \E from, to \in Entries : Move(from, to)
     \/ \E at \in Entries : Remove(at)
     \/ \E at \in Entries, node \in Nodes : Create(at, node)
     \/ \E file \in Files, bytes \in Sizes : Resize(file, bytes)
  /\ UNCHANGED <<pc, listing, walk, reading, outcome>>

Finished == pc = "ended" /\ UNCHANGED vars

Collect == PopDirectory \/ ListDirectory \/ StatEntry \/ EndDirectory \/ NothingFound
ReadOne == NextFile \/ WalkStat \/ WalkOpen \/ DirectFile \/ ReadFile \/ Resume \/ Close
Scan    == Collect \/ ReadOne \/ CallFails
Next    == Scan \/ Interfere \/ Finished

Spec     == Init /\ [][Next]_vars
FairSpec == Spec /\ WF_vars(Scan)

-----------------------------------------------------------------------------
(* Properties. *)

Outcomes == {"none", "done", "closed", "failed", "changed", "link", "limit", "no input",
             "not SQL"}
Found    == [path : Paths, node : Files]

(* Type invariant of the scanner. *)
TypeOK ==
  /\ tree \in [Dirs -> [Names -> Nodes \cup {None}]] /\ size \in [Files -> Sizes]
  /\ pc \in {"pop", "list", "stat", "walk", "open", "next", "direct", "read", "yield", "ended"}
  /\ \A k \in DOMAIN pending : pending[k].node \in Dirs /\ pending[k].depth = Len(pending[k].path)
  /\ names \subseteq Names
  /\ budget.directories <= MaxDirectories + 1 /\ budget.entries <= MaxEntries + 1
  /\ budget.files <= MaxFiles + 1
  /\ found \subseteq Found
  /\ pc \in {"list", "stat"} => dir.node \in Dirs
  /\ pc \in {"walk", "open"} => walk.at \in Dirs /\ walk.rest # <<>>
  /\ pc = "read" => walk.at \in Files
  /\ outcome \in Outcomes /\ (outcome = "none" <=> pc # "ended")

(* Whatever other processes do, what is read is a regular file that the     *)
(* discovery registered under the same path: a file, link or directory put  *)
(* in its place later is never read instead. *)
ReadsWhatItFound ==
  \A k \in DOMAIN scanned : [path |-> scanned[k].path, node |-> scanned[k].node] \in found

(* No file read and no number of files read together exceed the byte limits, *)
(* although the files may grow after their sizes were checked. *)
BytesBounded ==
  /\ read <= MaxBytes
  /\ \A k \in DOMAIN scanned : scanned[k].bytes <= MaxFileBytes

(* A scan that ends normally has read every file it found, each one once,   *)
(* in the order of their paths and no more than the limit, whatever changed *)
(* meanwhile. *)
CompleteInOrder ==
  /\ Len(scanned) <= MaxFiles
  /\ \A j, k \in DOMAIN scanned : j < k => Before(scanned[j].path, scanned[k].path)
  /\ outcome = "done" => found = {[path |-> scanned[k].path, node |-> scanned[k].node] :
                                    k \in DOMAIN scanned}

(* Reference definition: the node at the end of a path. *)
NodeAt(path) ==
  LET at[k \in 0..Len(path)] ==
        IF k = 0 THEN root
        ELSE IF at[k - 1] \in Dirs THEN tree[at[k - 1]][path[k]] ELSE None
  IN  at[Len(path)]

AllPaths == {p \in UNION {[1..k -> Names] : k \in 1..(MaxDepth + 1)} : NodeAt(p) # None}
SqlFiles == {p \in AllPaths : p[Len(p)] \in SqlNames /\ NodeAt(p) \in Files}
BadLinks == {p \in AllPaths : /\ IsLink(Kind[NodeAt(p)])
                              /\ p[Len(p)] \in SqlNames \/ LinkTo[NodeAt(p)] \in Dirs}

OverLimit ==
  \/ \E p \in AllPaths : Len(p) = MaxDepth + 1 /\ NodeAt(p) \in Dirs
  \/ \E p \in SqlFiles : size[NodeAt(p)] > MaxFileBytes
  \/ MapThenSumSet(LAMBDA p : size[NodeAt(p)], SqlFiles) > MaxBytes
  \/ Cardinality(SqlFiles) > MaxFiles
  \/ Cardinality(AllPaths) > MaxEntries
  \/ Cardinality({p \in AllPaths : NodeAt(p) \in Dirs}) + 1 > MaxDirectories

(* A tree nobody changes is read exactly: a scan that ends normally has     *)
(* read all of its .sql files, no limit is exceeded and no link forbidden,  *)
(* and a scan that refuses the tree has that reason in the tree.            *)
QuietScanIsExact ==
  changes = 0 /\ root \in Dirs =>
    /\ outcome = "done" => /\ {scanned[k].path : k \in DOMAIN scanned} = SqlFiles
                           /\ BadLinks = {} /\ ~ OverLimit
    /\ outcome = "link" => BadLinks # {}
    /\ outcome = "limit" => OverLimit
    /\ outcome = "no input" => SqlFiles = {}
    /\ outcome # "changed"

(* The scan ends while other processes keep changing the tree. *)
Terminates == <>(pc = "ended")
=============================================================================
