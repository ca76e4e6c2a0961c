--------------------------- MODULE InputScanProofs ---------------------------
(***************************************************************************)
(* For every tree, every limit and any number of changes by other          *)
(* processes: the scanner reads only the files it registered, and never    *)
(* more bytes than the limits allow; and its loop over the found files is  *)
(* complete and in order: each registered file is read once, at its place  *)
(* in the order of the paths, or the scan is refused.  Then its type        *)
(* invariant, which the other two do not need, and last what it promises   *)
(* of a tree nobody changes: it reads exactly the .sql files there are.    *)
(***************************************************************************)
EXTENDS InputScan, RecursiveFunctions, FiniteSetTheorems, TLAPS

Directory == [path : Paths, node : Dirs, depth : Nat]
Scanned   == [path : Paths, node : Files, bytes : Nat]

DirTyped ==
  /\ dir = [path |-> dir.path, node |-> dir.node, depth |-> dir.depth]
  /\ dir.path \in Paths /\ dir.depth \in Nat

WalkTyped ==
  walk = [for |-> walk.for, entry |-> walk.entry, at |-> walk.at, rest |-> walk.rest,
          checked |-> walk.checked]

Typed ==
  /\ size \in [Files -> Nat]
  /\ root \in Dirs \cup Files
  /\ pending \in Seq(Directory) /\ children \in Seq(Directory)
  /\ names \subseteq Names
  /\ found \subseteq Found
  /\ read \in Nat
  /\ scanned \in Seq(Scanned)
  /\ DirTyped /\ WalkTyped

(* What the walk is after is in the list of found files, and the descriptor *)
(* it ends with is the node of that entry. *)
WalkIsAfterFound ==
  /\ pc = "direct" => root \in Files /\ scanned = <<>>
  /\ pc \in {"walk", "open"} => walk.for \in {"directory", "regular"}
  /\ pc \in {"walk", "open"} /\ walk.for = "regular" => walk.entry \in found
  /\ pc = "read" => [path |-> walk.entry.path, node |-> walk.at] \in found

ScanInv == Typed /\ WalkIsAfterFound /\ ReadsWhatItFound /\ BytesBounded

-----------------------------------------------------------------------------
(* Reversing the child directories keeps them a sequence of directories. *)
LEMMA ReversedIsSequence ==
  ASSUME NEW S, NEW s \in Seq(S)
  PROVE  Reversed(s) \in Seq(S)
<1>1. Len(s) \in Nat
  OBVIOUS
<1>2. \A i \in 1..Len(s) : s[Len(s) + 1 - i] \in S
  <2> TAKE i \in 1..Len(s)
  <2>1. Len(s) + 1 - i \in 1..Len(s)
    BY <1>1
  <2> QED
    BY <2>1
<1> QED
  BY <1>1, <1>2 DEF Reversed

(* The limit of one read leaves the sum of the reads below its limit. *)
LEMMA ByteLimitBounds ==
  ASSUME read \in Nat, read <= MaxBytes, NEW bytes \in Nat, ~ (bytes > ByteLimit)
  PROVE  read + bytes <= MaxBytes /\ bytes <= MaxFileBytes
  BY LimitsAssumption DEF ByteLimit

LEMMA ScanInit == Init => ScanInv
<1> SUFFICES ASSUME Init PROVE ScanInv
  OBVIOUS
<1>1. Typed
  <2>1. size \in [Files -> Nat] /\ root \in Dirs \cup Files
    BY LimitsAssumption DEF Init
  <2>2. <<[path |-> <<>>, node |-> root, depth |-> 0]>> \in Seq(Directory) \/ root \notin Dirs
    BY DEF Directory, Paths
  <2>3. pending \in Seq(Directory) /\ children \in Seq(Directory)
    BY <2>2 DEF Init
  <2> QED
    BY <2>1, <2>3 DEF Init, Typed, DirTyped, WalkTyped, NoDir, NoWalk, Paths
<1>2. WalkIsAfterFound
  BY DEF Init, WalkIsAfterFound, Dirs, Files
<1>3. ReadsWhatItFound /\ BytesBounded
  BY LimitsAssumption DEF Init, ReadsWhatItFound, BytesBounded
<1> QED
  BY <1>1, <1>2, <1>3 DEF ScanInv

-----------------------------------------------------------------------------
(* A step that reads no file and whose found files only grow. *)
LEMMA NothingRead ==
  ASSUME ScanInv, found \subseteq found', UNCHANGED <<read, scanned>>
  PROVE  ReadsWhatItFound' /\ BytesBounded'
<1>1. ReadsWhatItFound'
  BY DEF ScanInv, ReadsWhatItFound
<1>2. BytesBounded'
  BY DEF ScanInv, BytesBounded
<1> QED
  BY <1>1, <1>2

LEMMA PopStep == ASSUME ScanInv, PopDirectory PROVE ScanInv'
<1> DEFINE top == pending[Len(pending)]
<1>1. pending # <<>> /\ pending \in Seq(Directory)
  BY DEF PopDirectory, ScanInv, Typed
<1>2. top \in Directory /\ Popped \in Seq(Directory)
  BY <1>1 DEF Popped
<1>3. Typed'
  <2>1. pending' \in Seq(Directory) /\ dir' = top
    BY <1>2 DEF PopDirectory
  <2>2. DirTyped'
    BY <2>1, <1>2 DEF DirTyped, Directory
  <2>3. WalkTyped'
    BY DEF PopDirectory, WalkTyped, ScanInv, Typed
  <2> QED
    BY <2>1, <2>2, <2>3 DEF PopDirectory, ScanInv, Typed, fs, reading
<1>4. WalkIsAfterFound'
  BY DEF PopDirectory, WalkIsAfterFound
<1>5. ReadsWhatItFound' /\ BytesBounded'
  BY NothingRead DEF PopDirectory, reading
<1> QED
  BY <1>3, <1>4, <1>5 DEF ScanInv

(* The steps that leave the directory stack, the found files and the walk. *)
LEMMA ListStep == ASSUME ScanInv, ListDirectory PROVE ScanInv'
<1>1. Typed'
  <2>1. names' \subseteq Names /\ children' \in Seq(Directory)
    BY DEF ListDirectory, ScanInv, Typed
  <2> QED
    BY <2>1 DEF ListDirectory, ScanInv, Typed, DirTyped, WalkTyped, fs, reading
<1>2. WalkIsAfterFound'
  BY DEF ListDirectory, Stop, WalkIsAfterFound
<1>3. ReadsWhatItFound' /\ BytesBounded'
  BY NothingRead DEF ListDirectory, reading
<1> QED
  BY <1>1, <1>2, <1>3 DEF ScanInv

LEMMA StatStep == ASSUME ScanInv, StatEntry PROVE ScanInv'
<1> PICK x \in names :
      LET node == tree[dir.node][x]
          path == Append(dir.path, x)
      IN /\ names' = names \ {x}
         /\ \/ UNCHANGED <<children, found>>
            \/ /\ node \in Dirs /\ UNCHANGED found
               /\ children' = Append(children,
                     [path |-> path, node |-> node, depth |-> dir.depth + 1])
            \/ node \in Files /\ Registers(path, node) /\ UNCHANGED children
  BY DEF StatEntry
<1> DEFINE node == tree[dir.node][x]
           path == Append(dir.path, x)
<1>1. x \in Names /\ dir.path \in Seq(Names) /\ dir.depth \in Nat
  BY DEF ScanInv, Typed, DirTyped, Paths
<1>2. path \in Paths
  BY <1>1 DEF Paths
<1>3. children' \in Seq(Directory)
  <2>1. CASE UNCHANGED children
    BY <2>1 DEF ScanInv, Typed
  <2>2. CASE /\ node \in Dirs
             /\ children' = Append(children,
                   [path |-> path, node |-> node, depth |-> dir.depth + 1])
    <3>1. [path |-> path, node |-> node, depth |-> dir.depth + 1] \in Directory
      BY <2>2, <1>1, <1>2 DEF Directory
    <3>2. children \in Seq(Directory)
      BY DEF ScanInv, Typed
    <3> QED
      BY <3>1, <3>2, <2>2
  <2> QED
    BY <2>1, <2>2
<1>4. found \subseteq found' /\ found' \subseteq Found
  <2>1. CASE UNCHANGED found
    BY <2>1 DEF ScanInv, Typed
  <2>2. CASE node \in Files /\ Registers(path, node)
    <3>1. found' = found \/ found' = found \cup {[path |-> path, node |-> node]}
      BY <2>2 DEF Registers
    <3>2. [path |-> path, node |-> node] \in Found /\ found \subseteq Found
      BY <2>2, <1>2 DEF Found, ScanInv, Typed
    <3> QED
      BY <3>1, <3>2
  <2> QED
    BY <2>1, <2>2
<1>5. UNCHANGED <<fs, pending, dir, walk, read, scanned, opened>>
  BY DEF StatEntry, reading
<1>6. Typed'
  <2>1. names' \subseteq Names
    BY DEF ScanInv, Typed
  <2> QED
    BY <1>3, <1>4, <1>5, <2>1 DEF ScanInv, Typed, DirTyped, WalkTyped, fs
<1>7. pc' \in {"stat", "ended"}
  BY DEF StatEntry, Registers, Stop
<1>8. WalkIsAfterFound'
  BY <1>7 DEF WalkIsAfterFound
<1>9. ReadsWhatItFound' /\ BytesBounded'
  BY NothingRead, <1>4, <1>5
<1> QED
  BY <1>6, <1>8, <1>9 DEF ScanInv

LEMMA EndStep == ASSUME ScanInv, EndDirectory PROVE ScanInv'
<1>1. pending' \in Seq(Directory)
  <2>1. Reversed(children) \in Seq(Directory) /\ pending \in Seq(Directory)
    BY ReversedIsSequence DEF ScanInv, Typed
  <2> QED
    BY <2>1 DEF EndDirectory
<1>2. Typed'
  BY <1>1 DEF EndDirectory, ScanInv, Typed, DirTyped, WalkTyped, fs, reading
<1>3. WalkIsAfterFound'
  BY DEF EndDirectory, WalkIsAfterFound
<1>4. ReadsWhatItFound' /\ BytesBounded'
  BY NothingRead DEF EndDirectory, reading
<1> QED
  BY <1>2, <1>3, <1>4 DEF ScanInv

(* The steps that only move the control on, and those of other processes. *)
LEMMA ControlSteps ==
  ASSUME ScanInv, NothingFound \/ CallFails \/ Resume \/ Close
  PROVE  ScanInv'
<1>1. UNCHANGED <<fs, listing, walk, reading>> /\ pc' \in {"ended", "next"}
  BY DEF NothingFound, CallFails, Resume, Close, Stop
<1>2. Typed'
  BY <1>1 DEF ScanInv, Typed, DirTyped, WalkTyped, fs, listing, reading
<1>3. WalkIsAfterFound'
  BY <1>1 DEF WalkIsAfterFound
<1>4. ReadsWhatItFound' /\ BytesBounded'
  BY NothingRead, <1>1 DEF reading, listing
<1> QED
  BY <1>2, <1>3, <1>4 DEF ScanInv

LEMMA InterfereStep == ASSUME ScanInv, Interfere PROVE ScanInv'
<1>1. UNCHANGED <<pc, listing, walk, reading, root>>
  BY DEF Interfere, Move, Remove, Create, Resize
<1>2. size' \in [Files -> Nat]
  <2>1. CASE UNCHANGED size
    BY <2>1 DEF ScanInv, Typed
  <2>2. CASE \E file \in Files, bytes \in Sizes : size' = [size EXCEPT ![file] = bytes]
    BY <2>2, LimitsAssumption DEF ScanInv, Typed
  <2> QED
    BY <2>1, <2>2 DEF Interfere, Move, Remove, Create, Resize
<1>3. Typed'
  BY <1>1, <1>2 DEF ScanInv, Typed, DirTyped, WalkTyped, listing, reading
<1>4. WalkIsAfterFound'
  BY <1>1 DEF ScanInv, WalkIsAfterFound, listing, reading
<1>5. ReadsWhatItFound' /\ BytesBounded'
  BY NothingRead, <1>1 DEF reading, listing
<1> QED
  BY <1>3, <1>4, <1>5 DEF ScanInv

-----------------------------------------------------------------------------
(* The steps of the reading loop. *)

LEMMA NextFileStep == ASSUME ScanInv, NextFile PROVE ScanInv'
<1>1. \/ UNCHANGED walk /\ pc' = "ended"
      \/ \E f \in found : walk' = [for |-> "regular", entry |-> f, at |-> root,
                                   rest |-> f.path, checked |-> None] /\ pc' = "walk"
  BY DEF NextFile, Stop, Unread
<1>2. UNCHANGED <<fs, listing, reading>>
  BY DEF NextFile
<1>3. WalkTyped'
  BY <1>1 DEF ScanInv, Typed, WalkTyped
<1>4. Typed'
  BY <1>2, <1>3 DEF ScanInv, Typed, DirTyped, fs, listing, reading
<1>5. WalkIsAfterFound'
  BY <1>1, <1>2 DEF WalkIsAfterFound, listing
<1>6. ReadsWhatItFound' /\ BytesBounded'
  BY NothingRead, <1>2 DEF reading, listing
<1> QED
  BY <1>4, <1>5, <1>6 DEF ScanInv

LEMMA WalkStatStep == ASSUME ScanInv, WalkStat PROVE ScanInv'
<1>1. /\ UNCHANGED <<fs, listing, reading>>
      /\ \/ UNCHANGED walk /\ pc' = "ended"
         \/ (\E node : walk' = [walk EXCEPT !.checked = node]) /\ pc' = "open"
  BY DEF WalkStat, Stop
<1>2. WalkTyped' /\ walk'.for = walk.for /\ walk'.entry = walk.entry
  BY <1>1 DEF ScanInv, Typed, WalkTyped
<1>3. Typed'
  BY <1>1, <1>2 DEF ScanInv, Typed, DirTyped, fs, listing, reading
<1>4. WalkIsAfterFound'
  BY <1>1, <1>2 DEF WalkStat, ScanInv, WalkIsAfterFound, listing
<1>5. ReadsWhatItFound' /\ BytesBounded'
  BY NothingRead, <1>1 DEF reading, listing
<1> QED
  BY <1>3, <1>4, <1>5 DEF ScanInv

(* The descriptor a walk to a file ends with is the node of its entry. *)
LEMMA WalkOpenStep == ASSUME ScanInv, WalkOpen PROVE ScanInv'
<1> DEFINE node == OpenedNode
<1>1. UNCHANGED <<fs, pending, names, children, budget, found, read, scanned>>
  BY DEF WalkOpen
<1>2. pc = "open" /\ walk.for \in {"directory", "regular"}
  BY DEF WalkOpen, ScanInv, WalkIsAfterFound
<1>3. CASE UNCHANGED <<walk, dir>> /\ pc' \in {"ended", "list"}
  <2>1. Typed'
    BY <1>1, <1>3 DEF ScanInv, Typed, DirTyped, WalkTyped, fs
  <2>2. WalkIsAfterFound'
    BY <1>3 DEF WalkIsAfterFound
  <2>3. ReadsWhatItFound' /\ BytesBounded'
    BY NothingRead, <1>1
  <2> QED
    BY <2>1, <2>2, <2>3 DEF ScanInv
<1>4. CASE /\ UNCHANGED walk /\ pc' = "list"
           /\ dir' = [dir EXCEPT !.node = node]
  <2>1. DirTyped'
    BY <1>4 DEF ScanInv, Typed, DirTyped
  <2>2. Typed'
    BY <1>1, <1>4, <2>1 DEF ScanInv, Typed, WalkTyped, fs
  <2>3. WalkIsAfterFound'
    BY <1>4 DEF WalkIsAfterFound
  <2>4. ReadsWhatItFound' /\ BytesBounded'
    BY NothingRead, <1>1
  <2> QED
    BY <2>2, <2>3, <2>4 DEF ScanInv
<1>5. CASE /\ UNCHANGED dir /\ pc' = "walk"
           /\ walk' = [walk EXCEPT !.at = node, !.rest = Tail(@), !.checked = None]
  <2>1. WalkTyped' /\ walk'.for = walk.for /\ walk'.entry = walk.entry
    BY <1>5 DEF ScanInv, Typed, WalkTyped
  <2>2. Typed'
    BY <1>1, <1>5, <2>1 DEF ScanInv, Typed, DirTyped, fs
  <2>3. WalkIsAfterFound'
    BY <1>1, <1>2, <1>5, <2>1 DEF ScanInv, WalkIsAfterFound
  <2>4. ReadsWhatItFound' /\ BytesBounded'
    BY NothingRead, <1>1
  <2> QED
    BY <2>2, <2>3, <2>4 DEF ScanInv
<1>6. CASE /\ Verified(node) /\ Final /\ walk.for = "regular"
           /\ UNCHANGED dir /\ pc' \in {"ended", "read"}
           /\ walk' = [walk EXCEPT !.at = node]
  <2>1. WalkTyped' /\ walk'.entry = walk.entry /\ walk'.at = node
    BY <1>6 DEF ScanInv, Typed, WalkTyped
  <2>2. Typed'
    BY <1>1, <1>6, <2>1 DEF ScanInv, Typed, DirTyped, fs
  <2>3. walk.entry \in found /\ walk.entry \in Found /\ node = walk.entry.node
    BY <1>2, <1>6 DEF ScanInv, Typed, WalkIsAfterFound, Verified, Changed
  <2>4. [path |-> walk.entry.path, node |-> node] = walk.entry
    BY <2>3 DEF Found
  <2>5. WalkIsAfterFound'
    BY <1>1, <1>6, <2>1, <2>3, <2>4 DEF WalkIsAfterFound
  <2>6. ReadsWhatItFound' /\ BytesBounded'
    BY NothingRead, <1>1
  <2> QED
    BY <2>2, <2>5, <2>6 DEF ScanInv
<1> QED
  BY <1>3, <1>4, <1>5, <1>6 DEF WalkOpen, Stop, Measures

LEMMA DirectStep == ASSUME ScanInv, DirectFile PROVE ScanInv'
<1>1. UNCHANGED <<fs, pending, dir, names, children, reading>>
  BY DEF DirectFile
<1>2. root \in Files
  BY DEF DirectFile, ScanInv, WalkIsAfterFound
<1>3. \/ pc' = "ended" /\ UNCHANGED <<found, walk>>
      \/ /\ pc' = "read" /\ found' = {[path |-> <<>>, node |-> root]}
         /\ walk' = [NoWalk EXCEPT !.entry.node = root, !.at = root]
  BY DEF DirectFile, Stop
<1>4. CASE pc' = "ended" /\ UNCHANGED <<found, walk>>
  <2>1. Typed'
    BY <1>1, <1>4 DEF ScanInv, Typed, DirTyped, WalkTyped, fs, reading
  <2>2. WalkIsAfterFound'
    BY <1>4 DEF WalkIsAfterFound
  <2>3. ReadsWhatItFound' /\ BytesBounded'
    BY NothingRead, <1>1, <1>4 DEF reading
  <2> QED
    BY <2>1, <2>2, <2>3 DEF ScanInv
<1>5. CASE /\ pc' = "read" /\ found' = {[path |-> <<>>, node |-> root]}
           /\ walk' = [NoWalk EXCEPT !.entry.node = root, !.at = root]
  <2>1. walk' = [for |-> "none", entry |-> [path |-> <<>>, node |-> root],
                 at |-> root, rest |-> <<>>, checked |-> None]
    BY <1>5 DEF NoWalk
  <2>2. found' \subseteq Found
    BY <1>2, <1>5 DEF Found, Paths
  <2>3. Typed'
    BY <1>1, <2>1, <2>2 DEF ScanInv, Typed, DirTyped, WalkTyped, fs, reading
  <2>4. walk'.entry.path = <<>> /\ walk'.at = root
    BY <2>1
  <2>5. WalkIsAfterFound'
    BY <1>5, <2>4 DEF WalkIsAfterFound
  <2>6. scanned' = <<>> /\ read' = read
    BY <1>1 DEF DirectFile, ScanInv, WalkIsAfterFound, reading
  <2>7. ReadsWhatItFound' /\ BytesBounded'
    BY <2>6 DEF ReadsWhatItFound, BytesBounded, ScanInv
  <2> QED
    BY <2>3, <2>5, <2>7 DEF ScanInv
<1> QED
  BY <1>3, <1>4, <1>5

LEMMA ReadStep == ASSUME ScanInv, ReadFile PROVE ScanInv'
<1> DEFINE bytes == size[walk.at]
           record == [path |-> walk.entry.path, node |-> walk.at, bytes |-> bytes]
<1>1. UNCHANGED <<fs, listing, walk, opened>> /\ pc' \in {"ended", "yield"}
  BY DEF ReadFile, Stop
<1>2. [path |-> walk.entry.path, node |-> walk.at] \in found /\ found \subseteq Found
  BY DEF ReadFile, ScanInv, Typed, WalkIsAfterFound
<1>3. walk.entry.path \in Paths /\ walk.at \in Files
  <2>1. [path |-> walk.entry.path, node |-> walk.at] \in Found
    BY <1>2
  <2> QED
    BY <2>1 DEF Found
<1>4. bytes \in Nat /\ record \in Scanned
  BY <1>3 DEF ScanInv, Typed, Scanned
<1>5. scanned \in Seq(Scanned) /\ read \in Nat /\ read <= MaxBytes
  BY DEF ScanInv, Typed, BytesBounded
<1>6. WalkIsAfterFound'
  BY <1>1 DEF WalkIsAfterFound
<1>7. CASE UNCHANGED <<read, scanned>>
  <2>1. Typed'
    BY <1>1, <1>7 DEF ScanInv, Typed, DirTyped, WalkTyped, fs, listing
  <2>2. ReadsWhatItFound' /\ BytesBounded'
    BY NothingRead, <1>1, <1>7 DEF listing
  <2> QED
    BY <1>6, <2>1, <2>2 DEF ScanInv
<1>8. CASE ~ (bytes > ByteLimit) /\ read' = read + bytes /\ scanned' = Append(scanned, record)
  <2>1. read' <= MaxBytes /\ bytes <= MaxFileBytes /\ read' \in Nat
    BY <1>4, <1>5, <1>8, ByteLimitBounds
  <2>2. scanned' \in Seq(Scanned)
    BY <1>4, <1>5, <1>8
  <2>3. Typed'
    BY <1>1, <2>1, <2>2 DEF ScanInv, Typed, DirTyped, WalkTyped, fs, listing
  <2>4. \A k \in DOMAIN scanned' :
          (k \in DOMAIN scanned /\ scanned'[k] = scanned[k]) \/ scanned'[k] = record
    BY <1>4, <1>5, <1>8
  <2>5. ReadsWhatItFound'
    <3>1. found' = found
      BY <1>1 DEF listing
    <3>2. \A k \in DOMAIN scanned' :
            [path |-> scanned'[k].path, node |-> scanned'[k].node] \in found
      BY <2>4, <1>2 DEF ScanInv, ReadsWhatItFound
    <3> QED
      BY <3>1, <3>2 DEF ReadsWhatItFound
  <2>6. BytesBounded'
    BY <2>1, <2>4 DEF ScanInv, BytesBounded
  <2> QED
    BY <1>6, <2>3, <2>5, <2>6 DEF ScanInv
<1> QED
  BY <1>7, <1>8 DEF ReadFile

-----------------------------------------------------------------------------
LEMMA ScanStep == ScanInv /\ [Next]_vars => ScanInv'
<1> SUFFICES ASSUME ScanInv, [Next]_vars PROVE ScanInv'
  OBVIOUS
<1>1. CASE Collect
  BY <1>1, PopStep, ListStep, StatStep, EndStep, ControlSteps DEF Collect
<1>2. CASE ReadOne
  BY <1>2, NextFileStep, WalkStatStep, WalkOpenStep, DirectStep, ReadStep, ControlSteps
    DEF ReadOne
<1>3. CASE CallFails \/ Interfere
  BY <1>3, ControlSteps, InterfereStep
<1>4. CASE UNCHANGED vars
  <2>1. UNCHANGED <<fs, pc, listing, walk, reading>>
    BY <1>4 DEF vars
  <2>2. Typed' /\ WalkIsAfterFound'
    BY <2>1 DEF ScanInv, Typed, DirTyped, WalkTyped, WalkIsAfterFound, fs, listing, reading
  <2>3. ReadsWhatItFound' /\ BytesBounded'
    BY <2>1, NothingRead DEF listing, reading
  <2> QED
    BY <2>2, <2>3 DEF ScanInv
<1> QED
  BY <1>1, <1>2, <1>3, <1>4 DEF Next, Scan, Finished

THEOREM ScanInvariant == Spec => []ScanInv
  BY ScanInit, ScanStep, PTL DEF Spec

(* What is read was registered under the same path: the identity check of   *)
(* _reopen_scanned_entry closes the window between discovery and read.      *)
THEOREM OnlyFoundFilesAreRead == Spec => []ReadsWhatItFound
<1>1. ScanInv => ReadsWhatItFound
  BY DEF ScanInv
<1> QED
  BY <1>1, ScanInvariant, PTL

(* The byte limits of workflow.py hold for what is read, not only for the   *)
(* sizes that were checked.                                                 *)
THEOREM ReadsAreBounded == Spec => []BytesBounded
<1>1. ScanInv => BytesBounded
  BY DEF ScanInv
<1> QED
  BY <1>1, ScanInvariant, PTL

-----------------------------------------------------------------------------
IsRead(f) == \E k \in DOMAIN scanned : scanned[k].path = f.path /\ scanned[k].node = f.node

(* What holds of the found and the read files alone. *)
Sorted == \A j, k \in DOMAIN scanned : j < k => Before(scanned[j].path, scanned[k].path)
RestIsLater == \A k \in DOMAIN scanned, f \in Unread : Before(scanned[k].path, f.path)
PathsAreRead == \A f \in found \ Unread : IsRead(f)
Counted == IsFiniteSet(found) /\ Len(scanned) + Cardinality(Unread) <= MaxFiles

Core == Sorted /\ RestIsLater /\ PathsAreRead /\ Counted

(* What it takes from the program's position. *)
Collecting ==
  pc \in {"pop", "list", "stat", "direct"} \/ (pc \in {"walk", "open"} /\ walk.for = "directory")
Fetching == pc = "read" \/ (pc \in {"walk", "open"} /\ walk.for = "regular")

BudgetTyped ==
  budget = [directories |-> budget.directories, entries |-> budget.entries,
            files |-> budget.files, bytes |-> budget.bytes]

NothingReadYet ==
  Collecting => scanned = <<>> /\ budget.files \in Nat /\ Cardinality(found) <= budget.files
FetchesTheFirst ==
  Fetching => /\ walk.entry \in Unread
              /\ \A g \in Unread : g = walk.entry \/ Before(walk.entry.path, g.path)
OpensIt == pc = "read" => walk.at = walk.entry.node
EndsEmpty == outcome = "done" => pc = "ended" /\ Unread = {}

Control == BudgetTyped /\ NothingReadYet /\ FetchesTheFirst /\ OpensIt /\ EndsEmpty

OrderInv == Core /\ Control

-----------------------------------------------------------------------------
LEMMA BeforeIsIrreflexive ==
  ASSUME NEW p \in Paths PROVE ~ Before(p, p)
<1>1. Names \subseteq Nat /\ p \in Seq(Names)
  BY NamesAssumption DEF Paths
<1>2. ASSUME NEW k \in 1..Len(p) PROVE ~ (k > Len(p) \/ p[k] < p[k])
  <2>1. Len(p) \in Nat /\ p[k] \in Names
    BY <1>1
  <2>2. p[k] \in Nat
    BY <1>1, <2>1
  <2> QED
    BY <2>1, <2>2
<1> QED
  BY <1>2 DEF Before

(* A list of read files that has not begun says nothing of the found ones. *)
LEMMA CoreBeforeReading ==
  ASSUME scanned = <<>>, IsFiniteSet(found), Cardinality(found) <= MaxFiles
  PROVE  Core /\ Unread = found
<1>1. DOMAIN scanned = {} /\ Len(scanned) = 0
  OBVIOUS
<1>2. Unread = found
  BY <1>1 DEF Unread
<1>3. Cardinality(found) \in Nat
  BY FS_CardinalityType
<1> QED
  BY <1>1, <1>2, <1>3 DEF Core, Sorted, RestIsLater, PathsAreRead, Counted

LEMMA CoreAfterFinding ==
  ASSUME scanned' = <<>>, IsFiniteSet(found'), Cardinality(found') <= MaxFiles
  PROVE  Core' /\ Unread' = found'
<1>1. DOMAIN scanned' = {} /\ Len(scanned') = 0
  OBVIOUS
<1>2. Unread' = found'
  BY <1>1 DEF Unread
<1>3. Cardinality(found') \in Nat
  BY FS_CardinalityType
<1> QED
  BY <1>1, <1>2, <1>3 DEF Core, Sorted, RestIsLater, PathsAreRead, Counted

LEMMA CoreStays ==
  ASSUME Core, UNCHANGED <<found, scanned>>
  PROVE  Core' /\ Unread' = Unread
<1>1. Unread' = Unread
  BY DEF Unread
<1> QED
  BY <1>1 DEF Core, Sorted, RestIsLater, PathsAreRead, Counted, IsRead

LEMMA OrderInit == Init => OrderInv
<1> SUFFICES ASSUME Init PROVE OrderInv
  OBVIOUS
<1>1. found = {} /\ scanned = <<>>
  BY DEF Init
<1>2. IsFiniteSet(found) /\ Cardinality(found) = 0 /\ MaxFiles \in Nat
  BY <1>1, FS_EmptySet, LimitsAssumption
<1>3. Core
  BY <1>1, <1>2, CoreBeforeReading
<1>4. Control
  BY <1>1, <1>2 DEF Init, Control, BudgetTyped, NothingReadYet, FetchesTheFirst, Fetching,
     OpensIt, EndsEmpty
<1> QED
  BY <1>3, <1>4 DEF OrderInv

-----------------------------------------------------------------------------
(* The discovery: the steps that register nothing, ... *)
LEMMA CollectSteps ==
  ASSUME OrderInv, ScanInv, PopDirectory \/ ListDirectory \/ EndDirectory \/ NothingFound
  PROVE  OrderInv'
<1>1. UNCHANGED <<found, scanned>> /\ Collecting /\ pc # "ended"
  BY DEF PopDirectory, ListDirectory, EndDirectory, NothingFound, Collecting, reading, listing
<1>2. budget' = budget \/ \E n : budget' = [budget EXCEPT !.entries = n]
  BY DEF PopDirectory, ListDirectory, EndDirectory, NothingFound, listing
<1>3. BudgetTyped' /\ budget'.files = budget.files
  BY <1>2 DEF OrderInv, Control, BudgetTyped
<1>4. Core' /\ Unread' = Unread
  BY <1>1, CoreStays DEF OrderInv
<1>5. ~ Fetching' /\ pc' # "read"
  <2>1. pc' \in {"pop", "list", "stat", "next", "ended", "walk"}
    BY <1>1 DEF PopDirectory, ListDirectory, EndDirectory, NothingFound, Stop
  <2>2. pc' = "walk" => walk'.for = "directory"
    BY DEF PopDirectory, ListDirectory, EndDirectory, NothingFound, Stop
  <2> QED
    BY <2>1, <2>2 DEF Fetching
<1>6. outcome' # "done"
  BY <1>1 DEF PopDirectory, ListDirectory, EndDirectory, NothingFound, Stop, OrderInv, Control,
     EndsEmpty
<1> QED
  BY <1>1, <1>3, <1>4, <1>5, <1>6 DEF OrderInv, Control, NothingReadYet, FetchesTheFirst,
     OpensIt, EndsEmpty

(* ... and the one that does: the budget counts what it registers. *)
LEMMA StatOrder == ASSUME OrderInv, ScanInv, StatEntry PROVE OrderInv'
<1>1. /\ pc = "stat" /\ pc' \in {"stat", "ended"} /\ UNCHANGED <<scanned, walk>>
      /\ outcome' \in {outcome, "failed", "link", "limit"}
  BY DEF StatEntry, Registers, Stop, reading
<1>2. /\ scanned = <<>> /\ budget.files \in Nat /\ Cardinality(found) <= budget.files
      /\ IsFiniteSet(found) /\ outcome # "done" /\ Cardinality(found) <= MaxFiles
  <2>1. Collecting
    BY <1>1 DEF Collecting
  <2>2. /\ scanned = <<>> /\ budget.files \in Nat /\ Cardinality(found) <= budget.files
        /\ IsFiniteSet(found) /\ outcome # "done"
        /\ Len(scanned) + Cardinality(Unread) <= MaxFiles
    BY <1>1, <2>1 DEF OrderInv, Core, Control, NothingReadYet, Counted, EndsEmpty
  <2>3. Unread = found /\ Len(scanned) = 0
    BY <2>2 DEF Unread
  <2>4. Cardinality(found) \in Nat
    BY <2>2, FS_CardinalityType
  <2> QED
    BY <2>2, <2>3, <2>4
<1>3. Cardinality(found) \in Nat /\ MaxFiles \in Nat
  BY <1>2, FS_CardinalityType, LimitsAssumption
<1>4. /\ BudgetTyped' /\ budget'.files \in Nat
      /\ IsFiniteSet(found') /\ Cardinality(found') <= budget'.files
      /\ Cardinality(found') <= MaxFiles
  <2>1. \/ UNCHANGED <<found, budget>>
        \/ UNCHANGED found /\ budget' = [budget EXCEPT !.directories = @ + 1]
        \/ \E path, node : Registers(path, node)
    BY DEF StatEntry
  <2>2. CASE UNCHANGED <<found, budget>>
    BY <1>2, <2>2 DEF OrderInv, Control, BudgetTyped
  <2>3. CASE UNCHANGED found /\ budget' = [budget EXCEPT !.directories = @ + 1]
    BY <1>2, <2>3 DEF OrderInv, Control, BudgetTyped
  <2>4. CASE \E path, node : Registers(path, node)
    <3> PICK path, node : Registers(path, node)
      BY <2>4
    <3> DEFINE record == [path |-> path, node |-> node]
    <3>1. budget' = [budget EXCEPT !.files = @ + 1, !.bytes = @ + size[node]]
      BY DEF Registers
    <3>2. BudgetTyped' /\ budget'.files = budget.files + 1
      BY <1>2, <3>1 DEF OrderInv, Control, BudgetTyped
    <3>3. \/ UNCHANGED found
          \/ found' = found \cup {record} /\ ~ (budget'.files > MaxFiles)
      BY <3>1 DEF Registers, Exceeded
    <3>4. /\ IsFiniteSet(found \cup {record})
          /\ Cardinality(found \cup {record}) <= Cardinality(found) + 1
          /\ Cardinality(found \cup {record}) \in Nat
      <4>1. /\ IsFiniteSet(found \cup {record})
            /\ Cardinality(found \cup {record}) =
                 IF record \in found THEN Cardinality(found) ELSE Cardinality(found) + 1
        BY <1>2, FS_AddElement
      <4> QED
        BY <1>3, <4>1
    <3>5. CASE UNCHANGED found
      BY <1>2, <1>3, <3>2, <3>5
    <3>6. CASE found' = found \cup {record} /\ ~ (budget'.files > MaxFiles)
      <4>1. IsFiniteSet(found') /\ Cardinality(found') \in Nat
            /\ Cardinality(found') <= Cardinality(found) + 1
        BY <3>4, <3>6
      <4>2. budget'.files \in Nat /\ budget'.files <= MaxFiles
        BY <1>2, <1>3, <3>2, <3>6
      <4> QED
        BY <1>2, <1>3, <3>2, <4>1, <4>2
    <3> QED
      BY <3>3, <3>5, <3>6
  <2> QED
    BY <2>1, <2>2, <2>3, <2>4
<1>5. Core'
  <2>1. scanned' = <<>>
    BY <1>1, <1>2
  <2> QED
    BY <2>1, <1>4, CoreAfterFinding
<1>6. Control'
  BY <1>1, <1>2, <1>4 DEF Control, NothingReadYet, FetchesTheFirst, Fetching, OpensIt, EndsEmpty
<1> QED
  BY <1>5, <1>6 DEF OrderInv

(* An input that is a file is found and fetched in one step. *)
LEMMA DirectOrder == ASSUME OrderInv, ScanInv, DirectFile PROVE OrderInv'
<1>1. pc = "direct" /\ UNCHANGED scanned /\ scanned = <<>> /\ outcome # "done"
  BY DEF DirectFile, reading, OrderInv, Control, NothingReadYet, Collecting, EndsEmpty
<1>2. BudgetTyped'
  BY DEF DirectFile, OrderInv, Control, BudgetTyped
<1>3. CASE UNCHANGED found /\ pc' = "ended" /\ outcome' \in {"not SQL", "limit"}
  <2>1. Core' /\ Unread' = Unread
    BY <1>1, <1>3, CoreStays DEF OrderInv
  <2> QED
    BY <1>2, <1>3, <2>1 DEF OrderInv, Control, NothingReadYet, Collecting, FetchesTheFirst,
       Fetching, OpensIt, EndsEmpty
<1>4. CASE /\ found' = {[path |-> <<>>, node |-> root]} /\ ~ (budget'.files > MaxFiles)
           /\ walk' = [NoWalk EXCEPT !.entry.node = root, !.at = root]
           /\ budget' = [budget EXCEPT !.files = 1, !.bytes = size[root]]
           /\ pc' = "read" /\ UNCHANGED outcome
  <2>1. walk' = [for |-> "none", entry |-> [path |-> <<>>, node |-> root],
                 at |-> root, rest |-> <<>>, checked |-> None]
    BY <1>4 DEF NoWalk
  <2>2. budget'.files = 1 /\ MaxFiles \in Nat
    BY <1>4, LimitsAssumption DEF OrderInv, Control, BudgetTyped
  <2>3. IsFiniteSet(found') /\ Cardinality(found') = 1
    BY <1>4, FS_Singleton
  <2>4. Core' /\ Unread' = found'
    BY <1>1, <1>4, <2>2, <2>3, CoreAfterFinding
  <2>5. FetchesTheFirst' /\ OpensIt'
    <3>1. /\ walk'.entry = [path |-> <<>>, node |-> root] /\ walk'.at = root
          /\ walk'.entry.node = root
      BY <2>1
    <3>2. Unread' = {walk'.entry}
      BY <1>4, <2>4, <3>1
    <3>3. FetchesTheFirst'
      BY <3>2 DEF FetchesTheFirst
    <3> QED
      BY <3>1, <3>3 DEF OpensIt
  <2>6. NothingReadYet' /\ EndsEmpty'
    BY <1>1, <1>4 DEF NothingReadYet, Collecting, EndsEmpty
  <2> QED
    BY <1>2, <2>4, <2>5, <2>6 DEF OrderInv, Control
<1> QED
  BY <1>3, <1>4 DEF DirectFile, Stop, Exceeded

-----------------------------------------------------------------------------
(* The steps that leave the found and the read files, and the control of    *)
(* the reading loop. *)
LEMMA OrderStays ==
  ASSUME OrderInv, UNCHANGED <<found, scanned, budget>>,
         Collecting' => Collecting,
         Fetching' => Fetching /\ walk'.entry = walk.entry,
         pc' = "read" => walk'.at = walk'.entry.node,
         outcome' = "done" => outcome = "done" /\ pc' = pc
  PROVE  OrderInv'
<1>1. Core' /\ Unread' = Unread
  BY CoreStays DEF OrderInv
<1> QED
  BY <1>1 DEF OrderInv, Control, BudgetTyped, NothingReadYet, FetchesTheFirst, OpensIt, EndsEmpty

LEMMA ControlOrder ==
  ASSUME OrderInv, CallFails \/ Resume \/ Close \/ Interfere \/ UNCHANGED vars
  PROVE  OrderInv'
<1>1. UNCHANGED <<found, scanned, budget, walk>>
  BY DEF CallFails, Resume, Close, Interfere, listing, reading, vars
<1>2. CASE UNCHANGED <<pc, outcome>>
  BY <1>1, <1>2, OrderStays DEF OrderInv, Control, OpensIt, Collecting, Fetching
<1>3. CASE pc' \in {"ended", "next"} /\ pc # "ended" /\ outcome' \in {"failed", "closed", outcome}
  BY <1>1, <1>3, OrderStays DEF OrderInv, Control, EndsEmpty, Collecting, Fetching
<1> QED
  BY <1>2, <1>3 DEF CallFails, Resume, Close, Interfere, Stop, vars

LEMMA WalkOrder == ASSUME OrderInv, ScanInv, WalkStat \/ WalkOpen PROVE OrderInv'
<1>1. /\ UNCHANGED <<found, scanned, budget>> /\ pc \in {"walk", "open"}
      /\ pc' \in {"walk", "open", "list", "read", "ended"}
      /\ outcome' \in {outcome, "changed", "limit"}
  BY DEF WalkStat, WalkOpen, Measures, Stop, listing, reading
<1>2. walk'.entry = walk.entry /\ walk'.for = walk.for
  BY DEF WalkStat, WalkOpen, ScanInv, Typed, WalkTyped
<1>3. outcome # "done"
  BY <1>1 DEF OrderInv, Control, EndsEmpty
<1>4. walk.for \in {"directory", "regular"}
  BY <1>1 DEF ScanInv, WalkIsAfterFound
<1>5. pc' = "list" => walk.for = "directory"
  BY DEF WalkStat, WalkOpen, Measures, Stop
<1>6. pc' = "read" => walk.for = "regular" /\ walk'.at = walk'.entry.node
  <2> SUFFICES ASSUME pc' = "read"
        PROVE walk.for = "regular" /\ walk'.at = walk'.entry.node
    OBVIOUS
  <2>1. /\ Verified(OpenedNode) /\ Final /\ walk.for = "regular"
        /\ walk' = [walk EXCEPT !.at = OpenedNode]
    BY DEF WalkStat, WalkOpen, Stop
  <2>2. OpenedNode = walk.entry.node
    BY <2>1 DEF Verified, Changed
  <2>3. walk'.at = OpenedNode
    BY <2>1 DEF ScanInv, Typed, WalkTyped
  <2> QED
    BY <1>2, <2>1, <2>2, <2>3
<1> QED
  BY <1>1, <1>2, <1>3, <1>4, <1>5, <1>6, OrderStays DEF Collecting, Fetching

-----------------------------------------------------------------------------
LEMMA NextOrder == ASSUME OrderInv, ScanInv, NextFile PROVE OrderInv'
<1>1. UNCHANGED <<found, scanned, budget>> /\ pc = "next"
  BY DEF NextFile, listing, reading
<1>2. Core' /\ Unread' = Unread
  BY <1>1, CoreStays DEF OrderInv
<1>3. BudgetTyped'
  BY <1>1 DEF OrderInv, Control, BudgetTyped
<1>4. CASE Unread = {} /\ Stop("done") /\ UNCHANGED walk
  BY <1>2, <1>3, <1>4 DEF OrderInv, Control, Stop, NothingReadYet, Collecting, FetchesTheFirst,
     Fetching, OpensIt, EndsEmpty
<1>5. CASE /\ pc' = "walk" /\ UNCHANGED outcome
           /\ \E f \in Unread :
                /\ \A g \in Unread : f = g \/ Before(f.path, g.path)
                /\ walk' = [for |-> "regular", entry |-> f, at |-> root, rest |-> f.path,
                            checked |-> None]
  <2>1. FetchesTheFirst'
    BY <1>2, <1>5 DEF FetchesTheFirst
  <2>2. ~ Collecting' /\ pc' # "read"
    BY <1>5 DEF Collecting
  <2>3. outcome' # "done"
    BY <1>1, <1>5 DEF OrderInv, Control, EndsEmpty
  <2> QED
    BY <1>2, <1>3, <2>1, <2>2, <2>3 DEF OrderInv, Control, NothingReadYet, OpensIt, EndsEmpty
<1> QED
  BY <1>4, <1>5 DEF NextFile

(* The file read is the first of those that are left. *)
LEMMA ReadOrder == ASSUME OrderInv, ScanInv, ReadFile PROVE OrderInv'
<1> DEFINE entry == walk.entry
           record == [path |-> walk.entry.path, node |-> walk.at, bytes |-> size[walk.at]]
<1>1. UNCHANGED <<found, budget, walk>> /\ pc = "read" /\ pc' \in {"ended", "yield"}
      /\ outcome' \in {outcome, "limit"}
  BY DEF ReadFile, Stop, listing
<1>2. ~ Collecting' /\ ~ Fetching' /\ pc' # "read" /\ outcome' # "done"
  BY <1>1 DEF Collecting, Fetching, OrderInv, Control, EndsEmpty
<1>3. Control'
  BY <1>1, <1>2 DEF OrderInv, Control, BudgetTyped, NothingReadYet, FetchesTheFirst, OpensIt,
     EndsEmpty
<1>4. CASE UNCHANGED scanned
  BY <1>1, <1>3, <1>4, CoreStays DEF OrderInv
<1>5. CASE scanned' = Append(scanned, record)
  <2>1. entry \in Unread /\ record.node = entry.node
        /\ \A g \in Unread : g = entry \/ Before(entry.path, g.path)
    BY <1>1 DEF OrderInv, Control, FetchesTheFirst, Fetching, OpensIt
  <2>2. Unread \subseteq found /\ found \subseteq Found /\ entry.path \in Paths
    <3>1. Unread \subseteq found /\ found \subseteq Found
      BY DEF Unread, ScanInv, Typed
    <3> QED
      BY <2>1, <3>1 DEF Found
  <2>3. \A g \in Unread : g.path = entry.path => g = entry
    BY <2>1, <2>2, BeforeIsIrreflexive
  <2>4. /\ scanned \in Seq(Scanned) /\ Len(scanned) \in Nat
        /\ DOMAIN scanned = 1..Len(scanned)
        /\ DOMAIN scanned' = 1..(Len(scanned) + 1) /\ Len(scanned') = Len(scanned) + 1
        /\ \A k \in DOMAIN scanned : k # Len(scanned) + 1 /\ scanned'[k] = scanned[k]
        /\ scanned'[Len(scanned) + 1] = record
    <3>1. scanned \in Seq(Scanned)
      BY DEF ScanInv, Typed
    <3> QED
      BY <1>5, <3>1
  <2>5. Unread' = Unread \ {entry}
    <3>1. ASSUME NEW f \in found
          PROVE  f \in Unread' <=> f \in Unread /\ f.path # entry.path
      <4>1. (\A k \in DOMAIN scanned' : scanned'[k].path # f.path)
              <=> (\A k \in DOMAIN scanned : scanned[k].path # f.path) /\ record.path # f.path
        BY <2>4
      <4> QED
        BY <1>1, <4>1 DEF Unread
    <3> QED
      BY <1>1, <2>1, <2>2, <2>3, <3>1 DEF Unread
  <2>6. Sorted'
    <3>1. ASSUME NEW j \in DOMAIN scanned', NEW k \in DOMAIN scanned', j < k
          PROVE  Before(scanned'[j].path, scanned'[k].path)
      <4>1. j \in DOMAIN scanned
        BY <2>4, <3>1
      <4>2. CASE k \in DOMAIN scanned
        BY <2>4, <3>1, <4>1, <4>2 DEF OrderInv, Core, Sorted
      <4>3. CASE k = Len(scanned) + 1
        BY <2>1, <2>4, <4>1, <4>3 DEF OrderInv, Core, RestIsLater
      <4> QED
        BY <2>4, <4>2, <4>3
    <3> QED
      BY <3>1 DEF Sorted
  <2>7. RestIsLater'
    <3>1. ASSUME NEW k \in DOMAIN scanned', NEW f \in Unread'
          PROVE  Before(scanned'[k].path, f.path)
      <4>1. f \in Unread /\ f # entry
        BY <2>5
      <4>2. CASE k \in DOMAIN scanned
        BY <2>4, <4>1, <4>2 DEF OrderInv, Core, RestIsLater
      <4>3. CASE k = Len(scanned) + 1
        BY <2>1, <2>4, <4>1, <4>3
      <4> QED
        BY <2>4, <4>2, <4>3
    <3> QED
      BY <3>1 DEF RestIsLater
  <2>8. PathsAreRead'
    <3>1. ASSUME NEW f \in found \ Unread' PROVE IsRead(f)'
      <4>1. CASE f = entry
        BY <2>1, <2>4, <4>1 DEF IsRead
      <4>2. CASE f # entry
        <5>1. IsRead(f)
          BY <2>5, <4>2 DEF OrderInv, Core, PathsAreRead
        <5> QED
          BY <2>4, <5>1 DEF IsRead
      <4> QED
        BY <4>1, <4>2
    <3> QED
      BY <1>1, <3>1 DEF PathsAreRead
  <2>9. Counted'
    <3>1. IsFiniteSet(found) /\ Len(scanned) + Cardinality(Unread) <= MaxFiles
      BY DEF OrderInv, Core, Counted
    <3>2. IsFiniteSet(Unread) /\ Cardinality(Unread) \in Nat
      BY <2>2, <3>1, FS_Subset, FS_CardinalityType
    <3>3. Cardinality(Unread') = Cardinality(Unread) - 1
      BY <2>1, <2>5, <3>2, FS_RemoveElement
    <3> QED
      BY <1>1, <2>4, <3>1, <3>2, <3>3, LimitsAssumption DEF Counted
  <2> QED
    BY <1>3, <2>6, <2>7, <2>8, <2>9 DEF OrderInv, Core
<1> QED
  BY <1>4, <1>5 DEF ReadFile

-----------------------------------------------------------------------------
(* In every state the files read are the first ones of those found. *)
THEOREM OrderInvariant == Spec => []OrderInv
<1>1. ScanInv /\ OrderInv /\ [Next]_vars => OrderInv'
  BY CollectSteps, StatOrder, DirectOrder, ControlOrder, WalkOrder, NextOrder, ReadOrder
    DEF Next, Scan, Collect, ReadOne, Finished
<1> QED
  BY <1>1, OrderInit, ScanInvariant, PTL DEF Spec

(* Whatever other processes do: a scan that ends normally has read every    *)
(* file it registered, each once and in the order of their paths, and never *)
(* more files than the limit. *)
THEOREM ScansAreCompleteInOrder == Spec => []CompleteInOrder
<1>1. ScanInv /\ OrderInv => CompleteInOrder
  <2> SUFFICES ASSUME ScanInv, OrderInv PROVE CompleteInOrder
    OBVIOUS
  <2>1. Len(scanned) <= MaxFiles
    <3>1. IsFiniteSet(found) /\ Len(scanned) + Cardinality(Unread) <= MaxFiles
      BY DEF OrderInv, Core, Counted
    <3>2. Unread \subseteq found
      BY DEF Unread
    <3>3. Cardinality(Unread) \in Nat
      BY <3>1, <3>2, FS_Subset, FS_CardinalityType
    <3>4. Len(scanned) \in Nat
      BY DEF ScanInv, Typed
    <3> QED
      BY <3>1, <3>3, <3>4, LimitsAssumption
  <2>2. ASSUME outcome = "done"
        PROVE  found = {[path |-> scanned[k].path, node |-> scanned[k].node] :
                          k \in DOMAIN scanned}
    <3>1. \A f \in found : IsRead(f) /\ f = [path |-> f.path, node |-> f.node]
      BY <2>2 DEF OrderInv, Core, Control, EndsEmpty, PathsAreRead, ScanInv, Typed, Found
    <3>2. \A k \in DOMAIN scanned :
            [path |-> scanned[k].path, node |-> scanned[k].node] \in found
      BY DEF ScanInv, ReadsWhatItFound
    <3> QED
      BY <3>1, <3>2 DEF IsRead
  <2> QED
    BY <2>1, <2>2 DEF CompleteInOrder, OrderInv, Core, Sorted
<1> QED
  BY <1>1, ScanInvariant, OrderInvariant, PTL

-----------------------------------------------------------------------------
(* What the type invariant takes: the stack holds each directory with its   *)
(* depth, the budget stays below its limits as long as the scan goes on,    *)
(* and a walk starts at a directory and has a component left.               *)
Nested(d) == d.depth = Len(d.path)

TreeTyped == tree \in [Dirs -> [Names -> Nodes \cup {None}]] /\ size \in [Files -> Sizes]
DepthsMatch ==
  /\ Nested(dir)
  /\ \A k \in DOMAIN pending : Nested(pending[k])
  /\ \A k \in DOMAIN children : Nested(children[k])
WithinBudget ==
  /\ budget.directories \in 0..(MaxDirectories + 1) /\ budget.files \in 0..(MaxFiles + 1)
  /\ budget.entries \in 0..(MaxEntries + 1)
  /\ pc # "ended" => budget.directories <= MaxDirectories /\ budget.files <= MaxFiles
RootIsAbove ==
  /\ root \in Dirs => \A f \in found : f.path # <<>>
  /\ root \in Files => /\ pc \in {"direct", "read", "yield", "next", "ended"}
                       /\ pc = "read" => \A f \in found : f.path = walk.entry.path
                       /\ pc \in {"yield", "next"} => Unread = {}
  /\ pc = "direct" => root \in Files
Placed ==
  /\ pc \in {"pop", "list", "stat", "walk", "open", "next", "direct", "read", "yield", "ended"}
  /\ pc \in {"list", "stat"} => dir.node \in Dirs
  /\ pc \in {"walk", "open"} => /\ walk.at \in Dirs
                                /\ walk.rest \in Seq(Names) /\ walk.rest # <<>>
  /\ outcome \in Outcomes /\ (outcome = "none" <=> pc # "ended")

TypeInv == TreeTyped /\ DepthsMatch /\ WithinBudget /\ RootIsAbove /\ Placed

LEMMA RootKind == ScanInv => (root \in Dirs <=> root \notin Files)
  BY DEF ScanInv, Typed, Dirs, Files

LEMMA TypeInit == Init => TypeInv
<1> SUFFICES ASSUME Init PROVE TypeInv
  OBVIOUS
<1>1. TreeTyped
  BY TreesAssumption DEF Init, TreeTyped
<1>2. DepthsMatch
  BY DEF Init, DepthsMatch, Nested, NoDir
<1>3. WithinBudget
  BY LimitsAssumption DEF Init, WithinBudget
<1>4. RootIsAbove /\ Placed
  BY DEF Init, RootIsAbove, Placed, Outcomes, Dirs, Files
<1> QED
  BY <1>1, <1>2, <1>3, <1>4 DEF TypeInv

LEMMA TreeStep == ASSUME TypeInv, [Next]_vars PROVE TreeTyped' /\ (UNCHANGED root)
<1>1. CASE UNCHANGED fs
  BY <1>1 DEF TypeInv, TreeTyped, fs
<1>2. CASE Interfere
  <2> USE NodesAssumption DEF TypeInv, TreeTyped
  <2>1. \A e \in Entries : e[1] \in Dirs /\ e[2] \in Names
    BY DEF Entries
  <2>2. CASE \E from, to \in Entries : Move(from, to)
    <3> PICK from \in Entries, to \in Entries : Move(from, to)
      BY <2>2
    <3> DEFINE moved == [tree EXCEPT ![to[1]][to[2]] = tree[from[1]][from[2]]]
    <3>1. moved \in [Dirs -> [Names -> Nodes \cup {None}]]
      BY <2>1
    <3>2. tree' = [moved EXCEPT ![from[1]][from[2]] = None] /\ UNCHANGED <<size, root>>
      BY DEF Move
    <3> HIDE DEF moved
    <3> QED
      BY <2>1, <3>1, <3>2
  <2>3. CASE \E at \in Entries : Remove(at)
    BY <2>1, <2>3 DEF Remove
  <2>4. CASE \E at \in Entries, node \in Nodes : Create(at, node)
    BY <2>1, <2>4 DEF Create
  <2>5. CASE \E file \in Files, bytes \in Sizes : Resize(file, bytes)
    BY <2>5 DEF Resize
  <2> QED
    BY <1>2, <2>2, <2>3, <2>4, <2>5 DEF Interfere
<1>3. Scan => UNCHANGED fs
  BY DEF Scan, Collect, ReadOne, PopDirectory, ListDirectory, StatEntry, EndDirectory,
     NothingFound, NextFile, WalkStat, WalkOpen, DirectFile, ReadFile, Resume, Close, CallFails
<1> QED
  BY <1>1, <1>2, <1>3 DEF Next, Finished, vars

LEMMA DepthStep == ASSUME ScanInv, TypeInv, [Next]_vars PROVE DepthsMatch'
<1> USE DEF TypeInv, DepthsMatch
<1>1. /\ pending \in Seq(Directory) /\ children \in Seq(Directory)
      /\ DirTyped /\ dir.path \in Seq(Names)
  BY DEF ScanInv, Typed, DirTyped, Paths
<1>2. CASE PopDirectory
  <2> DEFINE top == pending[Len(pending)]
  <2>1. Len(pending) \in DOMAIN pending /\ DOMAIN Popped \subseteq DOMAIN pending
        /\ \A k \in DOMAIN Popped : Popped[k] = pending[k]
    BY <1>1, <1>2 DEF PopDirectory, Popped
  <2> QED
    BY <1>2, <2>1 DEF PopDirectory
<1>3. CASE ListDirectory
  BY <1>3 DEF ListDirectory
<1>4. CASE StatEntry
  <2>1. PICK node, x :
          /\ x \in Names
          /\ \/ UNCHANGED children
             \/ children' = Append(children,
                   [path |-> Append(dir.path, x), node |-> node, depth |-> dir.depth + 1])
    BY <1>4 DEF StatEntry, ScanInv, Typed
  <2> DEFINE child == [path |-> Append(dir.path, x), node |-> node, depth |-> dir.depth + 1]
  <2>2. Nested(child)
    BY <1>1 DEF Nested
  <2>3. \A k \in DOMAIN children' : Nested(children'[k])
    <3> HIDE DEF child
    <3>1. CASE children' = Append(children, child)
      BY <1>1, <2>2, <3>1
    <3> QED
      BY <2>1, <3>1 DEF child
  <2> QED
    BY <1>4, <2>3 DEF StatEntry
<1>5. CASE EndDirectory
  <2>1. \A k \in DOMAIN Reversed(children) : Nested(Reversed(children)[k])
    BY <1>1 DEF Reversed
  <2>2. Reversed(children) \in Seq(Directory)
    BY <1>1, ReversedIsSequence
  <2> HIDE DEF TypeInv
  <2>3. \A k \in DOMAIN pending' : Nested(pending'[k])
    <3> DEFINE more == Reversed(children)
    <3>1. pending' = pending \o more
      BY <1>5 DEF EndDirectory
    <3>2. \A k \in 1..(Len(pending) + Len(more)) :
            pending'[k] = IF k <= Len(pending) THEN pending[k] ELSE more[k - Len(pending)]
      BY <1>1, <2>2, <3>1
    <3>3. DOMAIN pending' = 1..(Len(pending) + Len(more))
      BY <1>1, <2>2, <3>1
    <3>4. Len(pending) \in Nat /\ Len(more) \in Nat
          /\ DOMAIN pending = 1..Len(pending) /\ DOMAIN more = 1..Len(more)
      BY <1>1, <2>2
    <3> HIDE DEF more
    <3>5. \A k \in DOMAIN pending : Nested(pending[k])
      BY DEF TypeInv
    <3>6. \A k \in DOMAIN more : Nested(more[k])
      BY <2>1 DEF more
    <3> QED
      BY <3>2, <3>3, <3>4, <3>5, <3>6
  <2> QED
    BY <1>5, <2>3 DEF EndDirectory, TypeInv
<1>6. CASE WalkOpen
  <2>1. UNCHANGED <<pending, children>> /\ (dir' = dir \/ dir' = [dir EXCEPT !.node = OpenedNode])
    BY <1>6 DEF WalkOpen
  <2>2. Nested(dir)'
    BY <1>1, <2>1 DEF Nested, DirTyped
  <2> QED
    BY <2>1, <2>2
<1>7. CASE UNCHANGED <<dir, pending, children>>
  BY <1>7
<1>8. NothingFound \/ NextFile \/ WalkStat \/ DirectFile \/ ReadFile \/ Resume \/ Close
      \/ CallFails \/ Interfere \/ UNCHANGED vars => UNCHANGED <<dir, pending, children>>
  BY DEF NothingFound, NextFile, WalkStat, DirectFile, ReadFile, Resume, Close, CallFails,
     Interfere, listing, vars
<1> QED
  BY <1>2, <1>3, <1>4, <1>5, <1>6, <1>7, <1>8 DEF Next, Scan, Collect, ReadOne, Finished

LEMMA BudgetStep == ASSUME ScanInv, OrderInv, TypeInv, [Next]_vars PROVE WithinBudget'
<1>1. BudgetTyped /\ WithinBudget
  BY DEF OrderInv, Control, TypeInv
<1>2. /\ MaxDirectories \in Nat /\ MaxFiles \in Nat /\ MaxEntries \in Nat
  BY LimitsAssumption
<1>3. CASE ListDirectory
  <2> DEFINE present == {x \in Names : tree[dir.node][x] # None}
             entries == budget.entries + Cardinality(present)
             n == IF entries > MaxEntries THEN MaxEntries + 1 ELSE entries
  <2>1. Cardinality(present) \in Nat
    BY FS_Subset, FS_CardinalityType, NamesAssumption
  <2>2. n \in 0..(MaxEntries + 1)
    <3> HIDE DEF present
    <3> QED
      BY <1>1, <1>2, <2>1 DEF WithinBudget
  <2>3. budget' = [budget EXCEPT !.entries = n] /\ pc = "list"
    BY <1>3 DEF ListDirectory
  <2> HIDE DEF n
  <2> QED
    BY <1>1, <2>2, <2>3 DEF BudgetTyped, WithinBudget
<1>4. CASE StatEntry
  <2>1. pc = "stat"
    BY <1>4 DEF StatEntry
  <2>2. PICK path, node :
          \/ UNCHANGED budget
          \/ /\ budget' = [budget EXCEPT !.directories = @ + 1]
             /\ budget'.directories > MaxDirectories => pc' = "ended"
          \/ Registers(path, node)
    BY <1>4 DEF StatEntry, Stop
  <2>3. CASE UNCHANGED budget
    BY <1>1, <2>1, <2>3 DEF WithinBudget
  <2>4. CASE /\ budget' = [budget EXCEPT !.directories = @ + 1]
             /\ budget'.directories > MaxDirectories => pc' = "ended"
    BY <1>1, <1>2, <2>1, <2>4 DEF BudgetTyped, WithinBudget
  <2>5. CASE Registers(path, node)
    <3>1. /\ budget' = [budget EXCEPT !.files = @ + 1, !.bytes = @ + size[node]]
          /\ budget'.files > MaxFiles => pc' = "ended"
      BY <2>5 DEF Registers, Exceeded, Stop
    <3> QED
      BY <1>1, <1>2, <2>1, <3>1 DEF BudgetTyped, WithinBudget
  <2> QED
    BY <2>2, <2>3, <2>4, <2>5
<1>5. CASE DirectFile
  <2>1. /\ pc = "direct"
        /\ \/ UNCHANGED budget /\ pc' = "ended"
           \/ /\ budget' = [budget EXCEPT !.files = 1, !.bytes = size[root]]
              /\ budget'.files > MaxFiles => pc' = "ended"
    BY <1>5 DEF DirectFile, Exceeded, Stop
  <2>2. CASE UNCHANGED budget /\ pc' = "ended"
    BY <1>1, <2>2 DEF WithinBudget
  <2>3. CASE /\ budget' = [budget EXCEPT !.files = 1, !.bytes = size[root]]
             /\ budget'.files > MaxFiles => pc' = "ended"
    <3>1. /\ budget'.files = 1 /\ budget'.directories = budget.directories
          /\ budget'.entries = budget.entries
      BY <1>1, <2>3 DEF BudgetTyped
    <3> QED
      <4>1. pc' # "ended" => 1 <= MaxFiles
        BY <1>2, <2>1, <2>3, <3>1
      <4>2. pc # "ended"
        BY <2>1
      <4>3. 1 \in 0..(MaxFiles + 1)
        BY <1>2
      <4> QED
        BY <1>1, <3>1, <4>1, <4>2, <4>3 DEF WithinBudget
  <2> QED
    BY <2>1, <2>2, <2>3
<1>6. CASE UNCHANGED budget /\ (pc = "ended" => pc' = "ended")
  BY <1>1, <1>6 DEF WithinBudget
<1>7. PopDirectory \/ EndDirectory \/ NothingFound \/ NextFile \/ WalkStat \/ WalkOpen \/ ReadFile
      \/ Resume \/ Close \/ CallFails \/ Interfere \/ UNCHANGED vars
        => UNCHANGED budget /\ (pc = "ended" => pc' = "ended")
  BY DEF PopDirectory, EndDirectory, NothingFound, NextFile, WalkStat, WalkOpen, ReadFile, Resume,
     Close, CallFails, Interfere, listing, vars
<1> QED
  BY <1>3, <1>4, <1>5, <1>6, <1>7 DEF Next, Scan, Collect, ReadOne, Finished

(* An input that is a file has nothing left to read after it.               *)
LEMMA RootStep == ASSUME ScanInv, OrderInv, TypeInv, [Next]_vars PROVE RootIsAbove'
<1> USE RootKind DEF TypeInv, RootIsAbove
<1>1. UNCHANGED root
  BY TreeStep
<1>2. CASE PopDirectory \/ ListDirectory \/ EndDirectory \/ NothingFound \/ WalkStat \/ WalkOpen
  <2>1. pc \in {"pop", "list", "stat", "walk", "open"} /\ pc' # "direct" /\ UNCHANGED found
    BY <1>2 DEF PopDirectory, ListDirectory, EndDirectory, NothingFound, WalkStat, WalkOpen, Stop,
                Measures, listing
  <2> QED
    BY <1>1, <2>1
<1>3. CASE StatEntry
  <2>1. /\ pc = "stat" /\ pc' # "direct"
        /\ \/ UNCHANGED found
           \/ \E x, node : found' = found \cup {[path |-> Append(dir.path, x), node |-> node]}
    BY <1>3 DEF StatEntry, Stop, Registers
  <2>2. \A x : Append(dir.path, x) # <<>>
    <3>1. dir.path \in Seq(Names)
      BY DEF ScanInv, Typed, DirTyped, Paths
    <3>2. \A x : Append(dir.path, x)[Len(dir.path) + 1] = x /\ Len(Append(dir.path, x)) = Len(dir.path) + 1
      BY <3>1
    <3>3. Len(dir.path) + 1 # 0 /\ Len(<<>>) = 0
      BY <3>1
    <3> QED
      BY <3>2, <3>3
  <2> QED
    BY <1>1, <2>1, <2>2
<1>4. CASE NextFile
  <2>1. root \in Files => pc' = "ended"
    BY <1>4 DEF NextFile, Stop
  <2>2. pc' # "direct" /\ UNCHANGED found
    BY <1>4 DEF NextFile, Stop, listing
  <2> QED
    BY <1>1, <2>1, <2>2
<1>5. CASE DirectFile
  <2>1. root \in Files
    BY <1>5 DEF DirectFile
  <2>2. \/ pc' = "ended"
        \/ /\ pc' = "read" /\ found' = {[path |-> <<>>, node |-> root]}
           /\ walk' = [NoWalk EXCEPT !.entry.node = root, !.at = root]
    BY <1>5 DEF DirectFile, Stop
  <2>3. CASE pc' = "ended"
    BY <1>1, <2>1, <2>3
  <2>4. CASE /\ pc' = "read" /\ found' = {[path |-> <<>>, node |-> root]}
             /\ walk' = [NoWalk EXCEPT !.entry.node = root, !.at = root]
    <3>1. walk'.entry.path = <<>>
      BY <2>4 DEF NoWalk
    <3> QED
      BY <1>1, <2>1, <2>4, <3>1
  <2> QED
    BY <2>2, <2>3, <2>4
<1>6. CASE ReadFile
  <2>1. /\ pc = "read" /\ UNCHANGED <<found, walk>>
        /\ \/ pc' = "ended"
           \/ /\ pc' = "yield"
              /\ scanned' = Append(scanned, [path |-> walk.entry.path, node |-> walk.at,
                                             bytes |-> size[walk.at]])
    BY <1>6 DEF ReadFile, Stop, listing
  <2>2. ASSUME root \in Files, pc' = "yield" PROVE Unread' = {}
    <3> DEFINE record == [path |-> walk.entry.path, node |-> walk.at, bytes |-> size[walk.at]]
    <3>1. scanned \in Seq(Scanned) /\ scanned' = Append(scanned, record)
          /\ record.path = walk.entry.path
      BY <2>1, <2>2 DEF ScanInv, Typed
    <3>2. Len(scanned') \in DOMAIN scanned' /\ scanned'[Len(scanned')].path = walk.entry.path
      <4> HIDE DEF record
      <4> QED
        BY <3>1
    <3>3. \A f \in found : f.path = walk.entry.path
      BY <2>1, <2>2
    <3> QED
      BY <2>1, <3>2, <3>3 DEF Unread
  <2> QED
    BY <1>1, <2>1, <2>2
<1>7. CASE Resume \/ Close
  <2>1. pc = "yield" /\ pc' \in {"next", "ended"} /\ UNCHANGED <<found, scanned>>
    BY <1>7 DEF Resume, Close, Stop, listing, reading
  <2>2. Unread' = Unread
    BY <2>1 DEF Unread
  <2> QED
    BY <1>1, <2>1, <2>2
<1>8. CASE CallFails
  BY <1>1, <1>8 DEF CallFails, Stop, listing
<1>9. CASE Interfere \/ UNCHANGED vars
  <2>1. UNCHANGED <<pc, found, scanned, walk>>
    BY <1>9 DEF Interfere, vars, listing, reading
  <2>2. Unread' = Unread
    BY <2>1 DEF Unread
  <2> QED
    BY <1>1, <2>1, <2>2
<1> QED
  BY <1>2, <1>3, <1>4, <1>5, <1>6, <1>7, <1>8, <1>9 DEF Next, Scan, Collect, ReadOne, Finished

(* What a walk finds under a name. *)
LEMMA OpenedType ==
  ASSUME TypeInv, pc = "open", OpenedNode # None
  PROVE  OpenedNode \in Nodes
<1>1. Head(walk.rest) \in Names /\ walk.at \in Dirs
  BY DEF TypeInv, Placed
<1> QED
  BY <1>1, NodesAssumption DEF TypeInv, TreeTyped, OpenedNode, IsLink

LEMMA PlacedStep == ASSUME ScanInv, OrderInv, TypeInv, [Next]_vars PROVE Placed'
<1> USE DEF Placed
<1>0. Placed
  BY DEF TypeInv
<1>1. CASE PopDirectory
  <2> DEFINE top == pending[Len(pending)]
  <2>1. top \in Directory /\ pc = "pop"
    BY <1>1 DEF PopDirectory, ScanInv, Typed
  <2>2. root \in Dirs
    BY <2>1, RootKind DEF TypeInv, RootIsAbove, ScanInv, Typed
  <2>3. /\ dir' = top /\ UNCHANGED outcome
        /\ IF top.path = <<>> THEN pc' = "list"
           ELSE /\ pc' = "walk"
                /\ walk' = [for |-> "directory", entry |-> [path |-> top.path, node |-> top.node],
                            at |-> root, rest |-> top.path, checked |-> None]
    BY <1>1 DEF PopDirectory
  <2>4. top.node \in Dirs /\ top.path \in Seq(Names)
    BY <2>1 DEF Directory, Paths
  <2>5. CASE top.path = <<>>
    BY <1>0, <2>1, <2>3, <2>4, <2>5
  <2>6. CASE top.path # <<>>
    <3>1. walk'.at = root /\ walk'.rest = top.path
      BY <2>3, <2>6
    <3> QED
      BY <1>0, <2>1, <2>2, <2>3, <2>4, <2>6, <3>1
  <2> QED
    BY <2>5, <2>6
<1>2. CASE ListDirectory \/ StatEntry \/ EndDirectory \/ NothingFound
  <2>1. /\ pc \in {"pop", "list", "stat"} /\ UNCHANGED dir
        /\ \/ pc' \in {"list", "stat"} /\ UNCHANGED outcome /\ pc # "pop"
           \/ pc' \in {"pop", "next"} /\ UNCHANGED outcome
           \/ pc' = "ended" /\ outcome' \in Outcomes \ {"none"}
    BY <1>2 DEF ListDirectory, StatEntry, EndDirectory, NothingFound, Stop, Registers, Outcomes,
                listing
  <2> QED
    BY <1>0, <2>1
<1>3. CASE NextFile
  <2>1. CASE pc' = "ended"
    <3>1. outcome' = "done"
      BY <1>3, <2>1 DEF NextFile, Stop
    <3> QED
      BY <2>1, <3>1 DEF Outcomes
  <2>2. CASE pc' # "ended"
    <3>1. PICK f \in Unread : /\ walk' = [for |-> "regular", entry |-> f, at |-> root,
                                          rest |-> f.path, checked |-> None]
                              /\ pc = "next" /\ pc' = "walk" /\ UNCHANGED outcome
      BY <1>3, <2>2 DEF NextFile, Stop
    <3>2. root \in Dirs
      BY <3>1 DEF TypeInv, RootIsAbove, ScanInv, Typed
    <3>3. f \in found /\ f.path \in Seq(Names) /\ f.path # <<>>
      BY <3>2 DEF Unread, TypeInv, RootIsAbove, ScanInv, Typed, Found, Paths
    <3>4. walk'.at = root /\ walk'.rest = f.path
      BY <3>1
    <3> QED
      BY <1>0, <3>1, <3>2, <3>3, <3>4
  <2> QED
    BY <2>1, <2>2
<1>4. CASE WalkStat
  <2>1. /\ pc = "walk"
        /\ \/ pc' = "ended" /\ outcome' = "changed"
           \/ /\ \E node : walk' = [walk EXCEPT !.checked = node]
              /\ pc' = "open" /\ UNCHANGED outcome
    BY <1>4 DEF WalkStat, Stop
  <2>2. pc' = "open" => walk'.at = walk.at /\ walk'.rest = walk.rest
    BY <2>1 DEF ScanInv, Typed, WalkTyped
  <2> QED
    BY <1>0, <2>1, <2>2 DEF Outcomes
<1>5. CASE WalkOpen
  <2> DEFINE node == OpenedNode
  <2>1. pc = "open" /\ walk.rest \in Seq(Names) /\ walk.rest # <<>>
    BY <1>0, <1>5 DEF WalkOpen
  <2>2. Verified(node) => node \in Nodes /\ Kind[node] = Expected
    BY <2>1, OpenedType DEF Verified
  <2>3. CASE pc' = "ended"
    <3>1. outcome' \in {"changed", "limit"}
      BY <1>5, <2>3 DEF WalkOpen, Stop, Measures
    <3> QED
      BY <2>3, <3>1 DEF Outcomes
  <2>4. CASE Verified(node) /\ ~ Final /\ pc' = "walk"
    <3>1. walk' = [walk EXCEPT !.at = node, !.rest = Tail(@), !.checked = None] /\ UNCHANGED outcome
      BY <1>5, <2>4 DEF WalkOpen, Stop, Measures
    <3>2. walk'.at = node /\ walk'.rest = Tail(walk.rest)
      BY <3>1 DEF ScanInv, Typed, WalkTyped
    <3>3. node \in Dirs
      BY <2>2, <2>4 DEF Expected, Dirs
    <3>4. Tail(walk.rest) \in Seq(Names) /\ Tail(walk.rest) # <<>>
      <4>1. Len(walk.rest) \in Nat \ {0, 1}
        BY <2>1, <2>4 DEF Final
      <4>2. Tail(walk.rest) \in Seq(Names) /\ Len(Tail(walk.rest)) = Len(walk.rest) - 1
        BY <2>1
      <4>3. Len(walk.rest) - 1 # 0
        BY <4>1
      <4> DEFINE rest == Tail(walk.rest)
      <4>4. rest \in Seq(Names) /\ Len(rest) # 0
        BY <4>2, <4>3
      <4> HIDE DEF rest
      <4>5. rest # <<>>
        BY <4>4
      <4> QED
        BY <4>4, <4>5 DEF rest
    <3> QED
      BY <1>0, <2>1, <2>4, <3>1, <3>2, <3>3, <3>4
  <2>5. CASE Verified(node) /\ walk.for = "directory" /\ pc' = "list"
    <3>1. dir' = [dir EXCEPT !.node = node] /\ UNCHANGED outcome
      BY <1>5, <2>5 DEF WalkOpen, Stop, Measures
    <3>2. dir'.node = node
      BY <3>1 DEF ScanInv, Typed, DirTyped
    <3>3. node \in Dirs
      BY <2>2, <2>5 DEF Expected, Dirs
    <3> QED
      BY <1>0, <2>1, <2>5, <3>1, <3>2, <3>3
  <2>6. CASE pc' = "read"
    <3>1. UNCHANGED outcome
      BY <1>5, <2>6 DEF WalkOpen, Stop, Measures
    <3> QED
      BY <1>0, <2>1, <2>6, <3>1
  <2> QED
    BY <1>5, <2>3, <2>4, <2>5, <2>6 DEF WalkOpen, Stop, Measures
<1>6. CASE DirectFile \/ ReadFile \/ Resume \/ Close \/ CallFails
  <2>1. /\ pc # "ended"
        /\ \/ pc' \in {"read", "yield", "next"} /\ UNCHANGED outcome
           \/ pc' = "ended" /\ outcome' \in Outcomes \ {"none"}
    BY <1>6 DEF DirectFile, ReadFile, Resume, Close, CallFails, Stop, Outcomes
  <2> QED
    BY <1>0, <2>1
<1>7. CASE Interfere \/ UNCHANGED vars
  BY <1>0, <1>7 DEF Interfere, vars, listing
<1> QED
  BY <1>1, <1>2, <1>3, <1>4, <1>5, <1>6, <1>7 DEF Next, Scan, Collect, ReadOne, Finished

(* What the type invariant needs holds in every state. *)
THEOREM TypeInductive == Spec => []TypeInv
<1>1. ScanInv /\ OrderInv /\ TypeInv /\ [Next]_vars => TypeInv'
  BY TreeStep, DepthStep, BudgetStep, RootStep, PlacedStep DEF TypeInv
<1> QED
  BY <1>1, TypeInit, ScanInvariant, OrderInvariant, PTL DEF Spec

(* The walks start at a directory of the tree and have a component left,    *)
(* the stack knows the depth of each directory, and the counters of the     *)
(* budget stop one beyond their limits, whatever the tree becomes.          *)
THEOREM ScannerTyping == Spec => []TypeOK
<1>1. TypeInv /\ ScanInv => TypeOK
  <2> SUFFICES ASSUME TypeInv, ScanInv PROVE TypeOK
    OBVIOUS
  <2>1. TreeTyped /\ names \subseteq Names /\ found \subseteq Found
    BY DEF TypeInv, ScanInv, Typed
  <2>2. \A k \in DOMAIN pending : pending[k].node \in Dirs /\ pending[k].depth = Len(pending[k].path)
    <3>1. pending \in Seq(Directory)
      BY DEF ScanInv, Typed
    <3>2. \A k \in DOMAIN pending : pending[k] \in Directory
      BY <3>1
    <3> QED
      BY <3>2 DEF Directory, TypeInv, DepthsMatch, Nested
  <2>3. /\ budget.directories <= MaxDirectories + 1 /\ budget.entries <= MaxEntries + 1
        /\ budget.files <= MaxFiles + 1
    BY LimitsAssumption DEF TypeInv, WithinBudget
  <2>4. pc = "read" => walk.at \in Files
    BY <2>1 DEF ScanInv, WalkIsAfterFound, Found
  <2> QED
    BY <2>1, <2>2, <2>3, <2>4 DEF TypeOK, TypeInv, TreeTyped, Placed
<1> QED
  BY <1>1, ScanInvariant, TypeInductive, PTL

-----------------------------------------------------------------------------
(* The sums of the values of g over the parts of a finite set, as           *)
(* MapThenSumSet defines them.                                              *)
Sums(S, g, total) ==
  total = [s \in SUBSET S |-> IF s = {} THEN 0
                              ELSE LET x == CHOOSE x \in s : TRUE IN g[x] + total[s \ {x}]]
Totals(S, g) == CHOOSE total : Sums(S, g, total)

LEMMA SumsExist ==
  ASSUME NEW S, IsFiniteSet(S), NEW g \in [S -> Nat]
  PROVE  Totals(S, g) \in [SUBSET S -> Nat] /\ Sums(S, g, Totals(S, g))
<1> DEFINE D == SUBSET S
           first(s) == CHOOSE x \in s : TRUE
           rank == [s \in D |-> Cardinality(s)]
           F == [s \in D |-> [f \in [D -> Nat] |-> IF s = {} THEN 0 ELSE g[first(s)] + f[s \ {first(s)}]]]
<1>1. \A s \in D : /\ IsFiniteSet(s) /\ Cardinality(s) \in Nat /\ Cardinality(s) < Cardinality(S) + 1
                   /\ s # {} => /\ first(s) \in s /\ s \ {first(s)} \in D
                                /\ Cardinality(s \ {first(s)}) < Cardinality(s)
  <2> SUFFICES ASSUME NEW s \in D
               PROVE  /\ IsFiniteSet(s) /\ Cardinality(s) \in Nat /\ Cardinality(s) < Cardinality(S) + 1
                      /\ s # {} => /\ first(s) \in s /\ s \ {first(s)} \in D
                                   /\ Cardinality(s \ {first(s)}) < Cardinality(s)
    OBVIOUS
  <2>1. IsFiniteSet(s) /\ Cardinality(s) \in Nat /\ Cardinality(S) \in Nat /\ Cardinality(s) <= Cardinality(S)
    BY FS_Subset, FS_CardinalityType
  <2>2. ASSUME s # {} PROVE first(s) \in s /\ s \ {first(s)} \in D
    BY <2>2
  <2>3. ASSUME s # {} PROVE Cardinality(s \ {first(s)}) < Cardinality(s)
    <3> DEFINE x == first(s)
    <3>1. x \in s
      BY <2>3
    <3> HIDE DEF x
    <3>2. IsFiniteSet(s \ {x}) /\ Cardinality(s \ {x}) = Cardinality(s) - 1
      BY <2>1, <3>1, FS_RemoveElement
    <3> QED
      BY <2>1, <3>2 DEF x
  <2> QED
    BY <2>1, <2>2, <2>3
<1>2. Cardinality(S) + 1 \in Nat
  BY FS_CardinalityType
<1> HIDE DEF first
<1>3. F \in [D -> [[D -> Nat] -> Nat]]
  <2> SUFFICES ASSUME NEW s \in D, NEW f \in [D -> Nat]
               PROVE  (IF s = {} THEN 0 ELSE g[first(s)] + f[s \ {first(s)}]) \in Nat
    BY DEF D
  <2>1. ASSUME s # {} PROVE g[first(s)] \in Nat /\ f[s \ {first(s)}] \in Nat
    BY <1>1, <2>1
  <2> QED
    BY <2>1
<1>4. \A s \in D : \A f, h \in [D -> Nat] :
        (\A r \in D : rank[r] < rank[s] => f[r] = h[r]) => F[s][f] = F[s][h]
  <2> SUFFICES ASSUME NEW s \in D, NEW f \in [D -> Nat], NEW h \in [D -> Nat],
                      \A r \in D : rank[r] < rank[s] => f[r] = h[r]
               PROVE  F[s][f] = F[s][h]
    OBVIOUS
  <2>1. s # {} => f[s \ {first(s)}] = h[s \ {first(s)}]
    BY <1>1
  <2> QED
    BY <2>1
<1>5. Recursive(D, Nat, rank, Cardinality(S) + 1, F)
  <2>1. rank \in [D -> Nat] /\ \A s \in D : rank[s] < Cardinality(S) + 1
    BY <1>1
  <2> HIDE DEF rank, F, D
  <2> QED
    BY <1>2, <1>3, <1>4, <2>1 DEF Recursive
<1>6. PICK f \in [D -> Nat] : \A s \in D : f[s] = F[s][f]
  <2> HIDE DEF rank, F, D
  <2> QED
    BY <1>5, Recursion
<1>7. Sums(S, g, f)
  <2>1. \A s \in D : f[s] = IF s = {} THEN 0 ELSE g[first(s)] + f[s \ {first(s)}]
    BY <1>6
  <2>2. f = [s \in D |-> IF s = {} THEN 0 ELSE g[first(s)] + f[s \ {first(s)}]]
    BY <2>1
  <2> QED
    BY <2>2 DEF Sums, first
<1> DEFINE total == Totals(S, g)
<1>8. Sums(S, g, total)
  BY <1>7 DEF Totals
<1> HIDE DEF total
<1>9. total = [s \in D |-> IF s = {} THEN 0 ELSE g[first(s)] + total[s \ {first(s)}]]
  BY <1>8 DEF Sums, first
<1>10. \A s \in D : total[s] = IF s = {} THEN 0 ELSE g[first(s)] + total[s \ {first(s)}]
  BY <1>9
<1> DEFINE P == {s \in D : total[s] \in Nat}
<1>11. D \subseteq P
  <2>1. \A s \in D : (\A r \in D : rank[r] < rank[s] => r \in P) => s \in P
    <3> SUFFICES ASSUME NEW s \in D, \A r \in D : rank[r] < rank[s] => r \in P PROVE total[s] \in Nat
      OBVIOUS
    <3>0. s \in D => total[s] = IF s = {} THEN 0 ELSE g[first(s)] + total[s \ {first(s)}]
      BY <1>10
    <3>1. CASE s = {}
      <4>1. total[s] = 0
        BY <3>0, <3>1
      <4> QED
        BY <4>1
    <3>2. CASE s # {}
      <4> DEFINE c == first(s)
      <4>1. s \ {c} \in P /\ c \in S
        BY <1>1, <3>2
      <4>2. total[s] = g[c] + total[s \ {c}]
        BY <3>0, <3>2
      <4> HIDE DEF c
      <4>3. g[c] \in Nat /\ total[s \ {c}] \in Nat
        BY <4>1
      <4> QED
        BY <4>2, <4>3
    <3> QED
      BY <3>1, <3>2
  <2>2. rank \in [D -> Nat]
    BY <1>1
  <2> HIDE DEF rank, D, P
  <2> QED
    BY <2>1, <2>2, RankInduction
<1>12. total \in [D -> Nat]
  <2> HIDE DEF D
  <2>1. total = [s \in D |-> total[s]]
    BY <1>9
  <2>2. \A s \in D : total[s] \in Nat
    BY <1>11
  <2> QED
    BY <2>1, <2>2
<1> QED
  BY <1>8, <1>12 DEF total

(* The order in which the values are added does not matter. *)
AddsUp(S, g, total) ==
  /\ total[{}] = 0
  /\ \A s \in SUBSET S : total[s] \in Nat
  /\ \A s \in SUBSET S : \A x \in s : total[s] = g[x] + total[s \ {x}]

LEMMA SumIs ==
  ASSUME NEW S, IsFiniteSet(S), NEW g \in [S -> Nat]
  PROVE  AddsUp(S, g, Totals(S, g))
<1> DEFINE D == SUBSET S
           total == Totals(S, g)
           first(s) == CHOOSE x \in s : TRUE
           rank == [s \in D |-> Cardinality(s)]
<1>1. total \in [D -> Nat] /\ Sums(S, g, total)
  BY SumsExist
<1> HIDE DEF total
<1>2. \A s \in D : total[s] = IF s = {} THEN 0 ELSE g[first(s)] + total[s \ {first(s)}]
  <2>1. total = [s \in D |-> IF s = {} THEN 0 ELSE g[first(s)] + total[s \ {first(s)}]]
    BY <1>1 DEF Sums
  <2> HIDE DEF first, D
  <2> QED
    BY <2>1
<1>3. \A s \in D : rank[s] \in Nat /\ \A x \in s : s \ {x} \in D /\ rank[s \ {x}] < rank[s]
  <2> SUFFICES ASSUME NEW s \in D
               PROVE  rank[s] \in Nat /\ \A x \in s : s \ {x} \in D /\ rank[s \ {x}] < rank[s]
    OBVIOUS
  <2>1. IsFiniteSet(s) /\ Cardinality(s) \in Nat
    BY FS_Subset, FS_CardinalityType
  <2>2. ASSUME NEW x \in s PROVE Cardinality(s \ {x}) < Cardinality(s)
    <3>1. IsFiniteSet(s \ {x}) /\ Cardinality(s \ {x}) = Cardinality(s) - 1
      BY <2>1, FS_RemoveElement
    <3> QED
      BY <2>1, <3>1
  <2> QED
    BY <2>1, <2>2
<1>4. \A s \in D : s # {} => first(s) \in s
  OBVIOUS
<1> HIDE DEF first
<1> DEFINE P == {s \in D : \A x \in s : total[s] = g[x] + total[s \ {x}]}
<1>5. ASSUME NEW s \in D, \A r \in D : rank[r] < rank[s] => r \in P, NEW x \in s
      PROVE  total[s] = g[x] + total[s \ {x}]
  <2> DEFINE c == first(s)
  <2>1. c \in s /\ total[s] = g[c] + total[s \ {c}]
    BY <1>2, <1>4
  <2> HIDE DEF c
  <2>2. CASE c = x
    BY <2>1, <2>2
  <2>3. CASE c # x
    <3>1. s \ {c} \in P /\ s \ {x} \in P
      BY <1>3, <1>5, <2>1
    <3>2. x \in s \ {c} /\ c \in s \ {x} /\ (s \ {c}) \ {x} = (s \ {x}) \ {c}
      BY <2>1, <2>3
    <3>3. total[s \ {c}] = g[x] + total[(s \ {c}) \ {x}]
      BY <3>1, <3>2
    <3>4. total[s \ {x}] = g[c] + total[(s \ {x}) \ {c}]
      BY <3>1, <3>2
    <3>5. g[x] \in Nat /\ g[c] \in Nat /\ total[(s \ {x}) \ {c}] \in Nat
      <4>1. x \in S /\ c \in S /\ (s \ {x}) \ {c} \in D
        BY <2>1
      <4> QED
        BY <1>1, <4>1
    <3> DEFINE u == total[(s \ {x}) \ {c}]
               v == g[x]
               w == g[c]
    <3>6. u \in Nat /\ v \in Nat /\ w \in Nat
      BY <3>5
    <3>7. total[s] = w + (v + u) /\ total[s \ {x}] = w + u
      BY <2>1, <3>2, <3>3, <3>4
    <3> HIDE DEF u, w
    <3>8. w + (v + u) = v + (w + u)
      BY <3>6
    <3> QED
      BY <3>7, <3>8
  <2> QED
    BY <2>2, <2>3
<1>6. D \subseteq P
  <2>1. rank \in [D -> Nat]
    BY <1>3
  <2>2. \A s \in D : (\A r \in D : rank[r] < rank[s] => r \in P) => s \in P
    <3> HIDE DEF rank
    <3> QED
      BY <1>5
  <2> HIDE DEF rank, D, P
  <2> QED
    BY <2>1, <2>2, RankInduction
<1>7. {} \in D
  OBVIOUS
<1> QED
  BY <1>1, <1>2, <1>6, <1>7 DEF AddsUp, total

LEMMA SumGrows ==
  ASSUME NEW S, IsFiniteSet(S), NEW g \in [S -> Nat], NEW r \in SUBSET S, NEW s \in SUBSET r
  PROVE  Totals(S, g)[s] <= Totals(S, g)[r]
<1> DEFINE D == SUBSET S
           total == Totals(S, g)
           rank == [u \in D |-> Cardinality(u)]
           P == {u \in D : \A v \in SUBSET u : total[v] <= total[u]}
<1>1. /\ \A u \in D : total[u] \in Nat
      /\ \A u \in D : \A x \in u : total[u] = g[x] + total[u \ {x}]
  BY SumIs DEF AddsUp
<1> HIDE DEF total
<1>2. \A u \in D : rank[u] \in Nat /\ \A x \in u : u \ {x} \in D /\ rank[u \ {x}] < rank[u]
  <2> SUFFICES ASSUME NEW u \in D
               PROVE  rank[u] \in Nat /\ \A x \in u : u \ {x} \in D /\ rank[u \ {x}] < rank[u]
    OBVIOUS
  <2>1. IsFiniteSet(u) /\ Cardinality(u) \in Nat
    BY FS_Subset, FS_CardinalityType
  <2>2. ASSUME NEW x \in u PROVE Cardinality(u \ {x}) < Cardinality(u)
    <3>1. IsFiniteSet(u \ {x}) /\ Cardinality(u \ {x}) = Cardinality(u) - 1
      BY <2>1, FS_RemoveElement
    <3> QED
      BY <2>1, <3>1
  <2> QED
    BY <2>1, <2>2
<1>3. ASSUME NEW u \in D, \A w \in D : rank[w] < rank[u] => w \in P, NEW v \in SUBSET u
      PROVE  total[v] <= total[u]
  <2>1. CASE v = u
    BY <1>1, <2>1
  <2>2. CASE v # u
    <3>1. PICK x \in u : x \notin v
      BY <2>2
    <3>2. u \ {x} \in P /\ v \in SUBSET (u \ {x})
      BY <1>2, <1>3, <3>1
    <3>3. total[v] <= total[u \ {x}]
      BY <3>2
    <3>4. total[u] = g[x] + total[u \ {x}] /\ g[x] \in Nat /\ total[u \ {x}] \in Nat /\ total[v] \in Nat
      BY <1>1
    <3> QED
      BY <3>3, <3>4
  <2> QED
    BY <2>1, <2>2
<1>4. D \subseteq P
  <2>1. rank \in [D -> Nat]
    BY <1>2
  <2>2. \A u \in D : (\A w \in D : rank[w] < rank[u] => w \in P) => u \in P
    <3> HIDE DEF rank
    <3> QED
      BY <1>3
  <2> HIDE DEF rank, D, P
  <2> QED
    BY <2>1, <2>2, RankInduction
<1> QED
  BY <1>4 DEF total

-----------------------------------------------------------------------------
(* A tree: its directories, its root and the sizes of its files. *)
World(tr, rt, sz) ==
  /\ tr \in [Dirs -> [Names -> Nodes \cup {None}]]
  /\ rt \in Dirs
  /\ sz \in [Files -> Nat]

(* NodeAt, of any tree: the nodes on the way along a path, and the last of them. *)
Trail(tr, rt, path) ==
  CHOOSE at : at = [k \in 0..Len(path) |->
                      IF k = 0 THEN rt
                      ELSE IF at[k - 1] \in Dirs THEN tr[at[k - 1]][path[k]] ELSE None]
Node(tr, rt, path) == Trail(tr, rt, path)[Len(path)]

Leads(tr, rt, path, at) ==
  /\ at \in [0..Len(path) -> Nodes \cup {None}]
  /\ at[0] = rt
  /\ \A k \in 1..Len(path) :
       at[k] = IF at[k - 1] \in Dirs THEN tr[at[k - 1]][path[k]] ELSE None

(* There is one such way along every path. *)
LEMMA TrailLeads ==
  ASSUME NEW tr, NEW rt, NEW sz, World(tr, rt, sz), NEW path \in Paths
  PROVE  Leads(tr, rt, path, Trail(tr, rt, path))
<1> DEFINE n == Len(path)
           A == Nodes \cup {None}
           step(k, a) == IF a \in Dirs THEN tr[a][path[k]] ELSE None
           next == [k \in 0..n |-> [a \in A |-> IF k = 0 THEN None ELSE step(k, a)]]
           body(f, k) == IF k = 0 THEN rt ELSE step(k, f[k - 1])
<1>1. n \in Nat /\ \A k \in 1..n : path[k] \in Names
  BY DEF Paths
<1>2. rt \in A /\ Dirs \subseteq A
  BY DEF World, Dirs
<1> HIDE DEF n
<1>3. ASSUME NEW k \in 1..n, NEW a PROVE step(k, a) \in A
  BY <1>1 DEF World
<1>4. next \in [0..n -> [A -> A]]
  <2> SUFFICES ASSUME NEW k \in 0..n, NEW a \in A
               PROVE  (IF k = 0 THEN None ELSE step(k, a)) \in A
    OBVIOUS
  <2>1. CASE k = 0
    BY <2>1
  <2>2. CASE k # 0
    <3>1. k \in 1..n
      BY <1>1, <2>2
    <3> HIDE DEF step
    <3> QED
      BY <1>3, <2>2, <3>1
  <2> QED
    BY <2>1, <2>2
<1>5. Iterates(0, n, A, rt, next)
  <2> HIDE DEF next, A
  <2> QED
    BY <1>1, <1>2, <1>4 DEF Iterates
<1>6. PICK f \in [0..n -> A] : \A k \in 0..n : f[k] = IF k = 0 THEN rt ELSE next[k][f[k - 1]]
  <2> HIDE DEF next, A
  <2> QED
    BY <1>5, Iteration
<1>7. ASSUME NEW k \in 0..n PROVE f[k] = body(f, k)
  <2>1. CASE k = 0
    BY <1>6, <2>1
  <2>2. CASE k # 0
    <3>1. k - 1 \in 0..n /\ f[k - 1] \in A
      BY <1>1, <2>2
    <3> HIDE DEF step, A
    <3>2. next[k][f[k - 1]] = step(k, f[k - 1])
      BY <2>2, <3>1
    <3> QED
      BY <1>6, <2>2, <3>2
  <2> QED
    BY <2>1, <2>2
<1> HIDE DEF step
<1>8. f = [k \in 0..n |-> body(f, k)]
  BY <1>7
<1> DEFINE at == Trail(tr, rt, path)
<1>9. at = [k \in 0..n |-> body(at, k)]
  BY <1>8 DEF Trail, n, step
<1> HIDE DEF at
<1>10. \A k \in 0..n : at[k] = body(at, k)
  <2> HIDE DEF body
  <2> QED
    BY <1>9
<1>11. \A k \in 0..n : at[k] \in A
  <2>1. \A k \in 0..n : k = 0 \/ k \in 1..n
    BY <1>1
  <2> HIDE DEF A
  <2> QED
    BY <1>2, <1>3, <1>10, <2>1
<1>12. at \in [0..n -> A]
  <2> HIDE DEF body, A
  <2>1. at = [k \in 0..n |-> at[k]]
    BY <1>9
  <2> QED
    BY <1>11, <2>1
<1>13. at[0] = rt /\ \A k \in 1..n : at[k] = step(k, at[k - 1])
  <2>1. 0 \in 0..n /\ \A k \in 1..n : k \in 0..n /\ k # 0
    BY <1>1
  <2> QED
    BY <1>10, <2>1
<1> QED
  BY <1>12, <1>13 DEF Leads, n, at, step

SameStart(p, q, n) ==
  /\ n \in Nat /\ Len(p) \in Nat /\ Len(q) \in Nat
  /\ n <= Len(p) /\ n <= Len(q)
  /\ \A k \in 1..n : p[k] = q[k]

(* Paths that agree so far lead to the same node. *)
LEMMA TrailsAgree ==
  ASSUME NEW tr, NEW rt, NEW p, NEW q, NEW f, NEW g, NEW n,
         SameStart(p, q, n), Leads(tr, rt, p, f), Leads(tr, rt, q, g)
  PROVE  f[n] = g[n]
<1> USE DEF SameStart
<1> DEFINE P == {k \in 0..n : f[k] = g[k]}
<1>1. 0 \in P
  BY DEF Leads
<1>2. ASSUME NEW k \in 0..n, k # 0, k - 1 \in P PROVE k \in P
  <2>1. k \in 1..n /\ k \in 1..Len(p) /\ k \in 1..Len(q)
    BY <1>2
  <2>2. /\ f[k] = IF f[k - 1] \in Dirs THEN tr[f[k - 1]][p[k]] ELSE None
        /\ g[k] = IF g[k - 1] \in Dirs THEN tr[g[k - 1]][q[k]] ELSE None
    BY <2>1 DEF Leads
  <2>3. f[k - 1] = g[k - 1] /\ p[k] = q[k]
    BY <1>2, <2>1
  <2> QED
    BY <2>2, <2>3
<1>3. Hereditary(0, n, P)
  <2> HIDE DEF P
  <2> QED
    BY <1>1, <1>2 DEF Hereditary
<1>4. 0..n \subseteq P
  BY <1>3, IntervalInduction
<1> QED
  BY <1>4

(* Where the root, an entry of a directory, and any path lead. *)
LEMMA RootNode ==
  ASSUME NEW tr, NEW rt, NEW sz, World(tr, rt, sz)
  PROVE  Node(tr, rt, <<>>) = rt
<1>1. <<>> \in Paths /\ Len(<<>>) = 0
  BY DEF Paths
<1> QED
  BY <1>1, TrailLeads DEF Leads, Node

LEMMA NodeTyped ==
  ASSUME NEW tr, NEW rt, NEW sz, World(tr, rt, sz), NEW p \in Paths
  PROVE  Node(tr, rt, p) \in Nodes \cup {None}
<1>1. Len(p) \in 0..Len(p)
  BY DEF Paths
<1> QED
  BY <1>1, TrailLeads DEF Leads, Node

LEMMA ChildNode ==
  ASSUME NEW tr, NEW rt, NEW sz, World(tr, rt, sz), NEW p \in Paths, NEW x \in Names
  PROVE  Node(tr, rt, Append(p, x)) =
           IF Node(tr, rt, p) \in Dirs THEN tr[Node(tr, rt, p)][x] ELSE None
<1> DEFINE q == Append(p, x)
           f == Trail(tr, rt, p)
           g == Trail(tr, rt, q)
           n == Len(p)
<1>1. /\ q \in Paths /\ n \in Nat /\ Len(q) = n + 1 /\ q[n + 1] = x
      /\ \A k \in 1..n : p[k] = q[k]
  BY DEF Paths
<1>2. Leads(tr, rt, p, f) /\ Leads(tr, rt, q, g)
  BY <1>1, TrailLeads
<1> HIDE DEF f, g, q, n
<1>3. f[n] = g[n]
  <2>1. SameStart(p, q, n)
    BY <1>1 DEF SameStart, n
  <2> QED
    BY <1>2, <2>1, TrailsAgree
<1>4. g[n + 1] = IF g[n] \in Dirs THEN tr[g[n]][x] ELSE None
  <2>1. n + 1 \in 1..Len(q) /\ (n + 1) - 1 = n
    BY <1>1
  <2> QED
    BY <1>1, <1>2, <2>1 DEF Leads
<1>5. Node(tr, rt, q) = g[n + 1] /\ Node(tr, rt, p) = f[n]
  BY <1>1 DEF Node, f, g, n
<1> QED
  BY <1>3, <1>4, <1>5 DEF q

(* Whatever lies above an entry is a directory. *)
LEMMA NodeAbove ==
  ASSUME NEW tr, NEW rt, NEW sz, World(tr, rt, sz), NEW p \in Paths, NEW r \in Paths, r # <<>>,
         Node(tr, rt, p \o r) # None
  PROVE  Node(tr, rt, p) \in Dirs
<1> DEFINE q == p \o r
           f == Trail(tr, rt, p)
           g == Trail(tr, rt, q)
           n == Len(p)
           m == Len(q)
<1>1. /\ q \in Paths /\ n \in Nat /\ m \in Nat /\ m > n /\ \A k \in 1..n : p[k] = q[k]
  BY DEF Paths
<1>2. Leads(tr, rt, p, f) /\ Leads(tr, rt, q, g)
  BY <1>1, TrailLeads
<1> HIDE DEF f, g, q
<1>3. f[n] = g[n]
  <2>1. SameStart(p, q, n)
    BY <1>1 DEF SameStart
  <2> HIDE DEF n
  <2> QED
    BY <1>2, <2>1, TrailsAgree
<1>4. Node(tr, rt, q) = g[m] /\ Node(tr, rt, p) = f[n]
  BY DEF Node, f, g
<1> HIDE DEF n, m
<1>5. SUFFICES ASSUME g[n] \notin Dirs PROVE g[m] = None
  BY <1>3, <1>4 DEF q
<1> DEFINE P == {k \in (n + 1)..m : g[k] = None}
<1>6. ASSUME NEW k \in (n + 1)..m, g[k - 1] \notin Dirs PROVE k \in P
  <2>1. k \in 1..Len(q)
    BY <1>1 DEF m
  <2> QED
    BY <1>2, <1>6, <2>1 DEF Leads
<1>7. None \notin Dirs
  BY NodesAssumption DEF Dirs
<1>8. n + 1 \in P
  <2>1. n + 1 \in (n + 1)..m /\ (n + 1) - 1 = n
    BY <1>1
  <2> HIDE DEF P
  <2> QED
    BY <1>5, <1>6, <2>1
<1>9. ASSUME NEW k \in (n + 1)..m, k - 1 \in P PROVE k \in P
  <2>1. g[k - 1] = None
    BY <1>9
  <2> HIDE DEF P
  <2> QED
    BY <1>6, <1>7, <2>1
<1>10. Hereditary(n + 1, m, P)
  <2>1. n + 1 \in Int /\ m \in Int
    BY <1>1
  <2> HIDE DEF P
  <2> QED
    BY <1>8, <1>9, <2>1 DEF Hereditary
<1>11. (n + 1)..m \subseteq P
  BY <1>10, IntervalInduction
<1>12. m \in (n + 1)..m
  BY <1>1
<1> QED
  BY <1>11, <1>12

-----------------------------------------------------------------------------
(* The entries of a tree, to the depth that the limit looks at. *)
All(tr, rt) == {p \in Paths : Len(p) \in 1..(MaxDepth + 1) /\ Node(tr, rt, p) # None}
Sql(tr, rt) == {p \in All(tr, rt) : p[Len(p)] \in SqlNames /\ Node(tr, rt, p) \in Files}
Bad(tr, rt) == {p \in All(tr, rt) : /\ IsLink(Kind[Node(tr, rt, p)])
                                    /\ p[Len(p)] \in SqlNames \/ LinkTo[Node(tr, rt, p)] \in Dirs}
Below(tr, rt) == {p \in All(tr, rt) : Node(tr, rt, p) \in Dirs}

(* There are finitely many paths of a bounded length. *)
LEMMA ShortPathsAreFinite ==
  ASSUME NEW n \in Nat
  PROVE  IsFiniteSet({p \in Paths : Len(p) <= n})
<1> DEFINE Short(k) == {p \in Paths : Len(p) <= k}
           S == {k \in Nat : IsFiniteSet(Short(k))}
<1>1. 0 \in S
  <2>1. \A p \in Paths : Len(p) <= 0 => p = <<>>
    BY DEF Paths
  <2>2. Short(0) \in SUBSET {<<>>}
    BY <2>1
  <2> HIDE DEF Short
  <2> QED
    BY <2>2, FS_Singleton, FS_Subset
<1>2. ASSUME NEW k \in Nat, k \in S PROVE k + 1 \in S
  <2> DEFINE f == [q \in Short(k) \X Names |-> Append(q[1], q[2])]
             T == {f[q] : q \in Short(k) \X Names}
  <2>1. IsFiniteSet(Short(k) \X Names)
    <3> HIDE DEF Short
    <3> QED
      BY <1>2, NamesAssumption, FS_Product
  <2>2. IsFiniteSet(T)
    <3>1. f \in Surjection(Short(k) \X Names, T)
      <4> HIDE DEF Short
      <4> QED
        BY DEF Surjection
    <3> HIDE DEF f, T, Short
    <3> QED
      BY <2>1, <3>1, FS_Surjection
  <2>3. Short(k + 1) \subseteq {<<>>} \cup T
    <3> SUFFICES ASSUME NEW p \in Paths, Len(p) <= k + 1, p # <<>> PROVE p \in T
      OBVIOUS
    <3> DEFINE front == SubSeq(p, 1, Len(p) - 1)
               x == p[Len(p)]
    <3>1. front \in Paths /\ x \in Names /\ p = Append(front, x) /\ Len(front) <= k
      BY DEF Paths
    <3>2. <<front, x>> \in Short(k) \X Names
      BY <3>1
    <3>3. f[<<front, x>>] = p
      <4> HIDE DEF Short, front, x
      <4> QED
        BY <3>1, <3>2
    <3> QED
      BY <3>2, <3>3
  <2>4. IsFiniteSet({<<>>} \cup T)
    <3> HIDE DEF T
    <3> QED
      BY <2>2, FS_Singleton, FS_Union
  <2>5. IsFiniteSet(Short(k + 1))
    <3> HIDE DEF Short, T
    <3> QED
      BY <2>3, <2>4, FS_Subset
  <2> QED
    BY <2>5
<1>3. Nat \subseteq S
  <2> HIDE DEF S
  <2> QED
    BY <1>1, <1>2, NatSetInduction
<1> QED
  BY <1>3

LEMMA AllIsFinite ==
  ASSUME NEW tr, NEW rt
  PROVE  IsFiniteSet(All(tr, rt))
<1>1. MaxDepth + 1 \in Nat
  BY LimitsAssumption
<1> DEFINE Short == {p \in Paths : Len(p) <= MaxDepth + 1}
<1>2. IsFiniteSet(Short)
  BY <1>1, ShortPathsAreFinite
<1>3. All(tr, rt) \in SUBSET Short
  BY <1>1 DEF All
<1> HIDE DEF Short
<1> QED
  BY <1>2, <1>3, FS_Subset

(* Every path but the root's is a name below a shorter path. *)
LEMMA PathSplits ==
  ASSUME NEW p \in Paths, p # <<>>
  PROVE  \E q \in Paths, x \in Names : p = Append(q, x) /\ Len(p) = Len(q) + 1
<1> DEFINE front == SubSeq(p, 1, Len(p) - 1)
           x == p[Len(p)]
<1>1. front \in Paths /\ x \in Names /\ p = Append(front, x)
  BY DEF Paths
<1> HIDE DEF front, x
<1>2. Len(p) = Len(front) + 1
  BY <1>1 DEF Paths
<1> QED
  BY <1>1, <1>2

LEMMA AppendIsInjective ==
  ASSUME NEW p \in Paths, NEW q \in Paths, NEW x \in Names, NEW y \in Names,
         Append(p, x) = Append(q, y)
  PROVE  p = q /\ x = y
<1>1. /\ Append(p, x) \in Paths
      /\ Len(Append(p, x)) = Len(p) + 1 /\ Len(Append(q, y)) = Len(q) + 1
      /\ Append(p, x)[Len(p) + 1] = x /\ Append(q, y)[Len(q) + 1] = y
      /\ \A k \in 1..Len(p) : Append(p, x)[k] = p[k]
      /\ \A k \in 1..Len(q) : Append(q, y)[k] = q[k]
      /\ Len(p) \in Nat /\ Len(q) \in Nat
  BY DEF Paths
<1>2. Len(p) = Len(q) /\ x = y
  BY <1>1
<1>3. \A k \in 1..Len(p) : p[k] = q[k]
  BY <1>1, <1>2
<1> QED
  BY <1>2, <1>3 DEF Paths

-----------------------------------------------------------------------------
(* A search that has met the entries of C, has looked at those of L, and    *)
(* still has to list the directories of W: an entry is in C exactly when    *)
(* its directory has been listed.                                           *)
Explored(tr, rt, C, L, W) ==
  /\ L \subseteq C /\ C \subseteq All(tr, rt)
  /\ W \subseteq L \cup {<<>>}
  /\ \A p \in Paths, x \in Names :
       Append(p, x) \in All(tr, rt) =>
         (Append(p, x) \in C <=> p \in (L \cup {<<>>}) \ W)

(* What is in the directory d. *)
Within(tr, rt, d) == {Append(d, x) : x \in {y \in Names : Node(tr, rt, Append(d, y)) # None}}

LEMMA ExploredFirst ==
  ASSUME NEW tr, NEW rt
  PROVE  Explored(tr, rt, {}, {}, {<<>>})
BY DEF Explored

LEMMA ExploredListed ==
  ASSUME NEW tr, NEW rt, NEW C, NEW W, NEW d \in W, d \in Paths, Len(d) <= MaxDepth,
         Explored(tr, rt, C, C, W)
  PROVE  /\ C \cap Within(tr, rt, d) = {}
         /\ Within(tr, rt, d) \subseteq All(tr, rt)
         /\ Explored(tr, rt, C \cup Within(tr, rt, d), C, W \ {d})
<1> DEFINE K == Within(tr, rt, d)
<1>1. ASSUME NEW x \in Names PROVE Append(d, x) \in K <=> Append(d, x) \in All(tr, rt)
  <2>1. Append(d, x) \in Paths /\ Len(Append(d, x)) \in 1..(MaxDepth + 1)
    BY LimitsAssumption DEF Paths
  <2>2. ASSUME Append(d, x) \in K PROVE Node(tr, rt, Append(d, x)) # None
    BY <2>2 DEF Within
  <2>3. ASSUME Node(tr, rt, Append(d, x)) # None PROVE Append(d, x) \in K
    BY <2>3 DEF Within
  <2> QED
    BY <2>1, <2>2, <2>3 DEF All
<1>2. ASSUME NEW e \in K PROVE \E x \in Names : e = Append(d, x)
  BY DEF Within
<1> HIDE DEF K
<1>3. K \subseteq All(tr, rt)
  BY <1>1, <1>2
<1>4. C \cap K = {}
  BY <1>1, <1>2 DEF Explored
<1>5. ASSUME NEW p \in Paths, NEW x \in Names, Append(p, x) \in All(tr, rt)
      PROVE  Append(p, x) \in C \cup K <=> p \in (C \cup {<<>>}) \ (W \ {d})
  <2>1. CASE p = d
    <3>1. d \in C \cup {<<>>}
      BY DEF Explored
    <3> QED
      BY <1>1, <1>5, <2>1, <3>1
  <2>2. CASE p # d
    <3>1. Append(p, x) \notin K
      <4> SUFFICES ASSUME Append(p, x) \in K PROVE FALSE
        OBVIOUS
      <4>1. PICK y \in Names : Append(p, x) = Append(d, y)
        BY <1>2
      <4> QED
        BY <2>2, <4>1, AppendIsInjective
    <3>2. Append(p, x) \in C <=> p \in (C \cup {<<>>}) \ W
      BY <1>5 DEF Explored
    <3> QED
      BY <2>2, <3>1, <3>2
  <2> QED
    BY <2>1, <2>2
<1> QED
  BY <1>3, <1>4, <1>5 DEF Explored, K

(* Looking at an entry; a directory waits then. *)
LEMMA ExploredLooked ==
  ASSUME NEW tr, NEW rt, NEW sz, World(tr, rt, sz),
         NEW C, NEW L, NEW W, NEW p \in C \ L, Explored(tr, rt, C, L, W)
  PROVE  /\ Node(tr, rt, p) \in Dirs => Explored(tr, rt, C, L \cup {p}, W \cup {p})
         /\ Node(tr, rt, p) \notin Dirs => Explored(tr, rt, C, L \cup {p}, W)
<1>1. p \in Paths /\ p # <<>> /\ p \in All(tr, rt)
  BY DEF Explored, All, Paths
<1>2. ASSUME NEW x \in Names, Append(p, x) \in All(tr, rt)
      PROVE  Append(p, x) \notin C /\ Node(tr, rt, p) \in Dirs
  <2>1. p \notin (L \cup {<<>>}) \ W
    BY <1>1
  <2>2. Node(tr, rt, p) \in Dirs
    BY <1>1, <1>2, ChildNode DEF All
  <2> QED
    BY <1>1, <1>2, <2>1, <2>2 DEF Explored
<1>3. p \notin W
  BY <1>1 DEF Explored
<1>4. ASSUME NEW q \in Paths, NEW x \in Names, Append(q, x) \in All(tr, rt)
      PROVE  /\ Append(q, x) \in C <=> q \in ((L \cup {p}) \cup {<<>>}) \ (W \cup {p})
             /\ Node(tr, rt, p) \notin Dirs =>
                  (Append(q, x) \in C <=> q \in ((L \cup {p}) \cup {<<>>}) \ W)
  <2>1. Append(q, x) \in C <=> q \in (L \cup {<<>>}) \ W
    BY <1>4 DEF Explored
  <2>2. CASE q = p
    BY <1>2, <1>4, <2>2
  <2>3. CASE q # p
    BY <2>1, <2>3
  <2> QED
    BY <2>2, <2>3
<1>5. C \subseteq All(tr, rt) /\ L \cup {p} \subseteq C /\ W \cup {p} \subseteq (L \cup {p}) \cup {<<>>}
  BY DEF Explored
<1> QED
  BY <1>4, <1>5 DEF Explored

(* At the end everything has been met. *)
LEMMA ExploredAll ==
  ASSUME NEW tr, NEW rt, NEW sz, World(tr, rt, sz), NEW C, Explored(tr, rt, C, C, {})
  PROVE  C = All(tr, rt)
<1> DEFINE S == {n \in Nat : \A p \in All(tr, rt) : Len(p) <= n => p \in C}
<1>1. 0 \in S
  BY LimitsAssumption DEF All
<1>2. ASSUME NEW n \in Nat, n \in S PROVE n + 1 \in S
  <2> SUFFICES ASSUME NEW p \in All(tr, rt), Len(p) <= n + 1 PROVE p \in C
    OBVIOUS
  <2>1. p \in Paths /\ p # <<>> /\ Len(p) \in 1..(MaxDepth + 1) /\ Node(tr, rt, p) # None
    BY DEF All, Paths
  <2>2. PICK q \in Paths, x \in Names : p = Append(q, x) /\ Len(p) = Len(q) + 1
    BY <2>1, PathSplits
  <2>3. Node(tr, rt, q) \in Dirs
    BY <2>1, <2>2, ChildNode
  <2>4. None \notin Dirs
    BY NodesAssumption DEF Dirs
  <2>5. q = <<>> \/ q \in C
    <3>1. CASE q # <<>>
      <4>1. Len(q) \in Nat /\ Len(q) # 0
        BY <3>1 DEF Paths
      <4>2. q \in All(tr, rt)
        BY <2>1, <2>2, <2>3, <2>4, <4>1, LimitsAssumption DEF All
      <4>3. Len(q) <= n
        BY <2>2, <4>1
      <4> QED
        BY <1>2, <4>2, <4>3
    <3> QED
      BY <3>1
  <2> QED
    BY <2>2, <2>5 DEF Explored
<1>3. Nat \subseteq S
  <2> HIDE DEF S
  <2> QED
    BY <1>1, <1>2, NatSetInduction
<1>4. ASSUME NEW p \in All(tr, rt) PROVE p \in C
  <2>1. Len(p) \in Nat
    BY DEF All, Paths
  <2> QED
    BY <1>3, <2>1
<1> QED
  BY <1>4 DEF Explored

-----------------------------------------------------------------------------
(* The bytes in the .sql files at some of the paths. *)
FileBytes(tr, rt, sz) == [p \in Sql(tr, rt) |-> sz[Node(tr, rt, p)]]
Bytes(tr, rt, sz, S)  == Totals(Sql(tr, rt), FileBytes(tr, rt, sz))[S]

(* OverLimit, of any tree. *)
Over(tr, rt, sz) ==
  \/ \E p \in All(tr, rt) : Len(p) = MaxDepth + 1 /\ Node(tr, rt, p) \in Dirs
  \/ \E p \in Sql(tr, rt) : sz[Node(tr, rt, p)] > MaxFileBytes
  \/ Bytes(tr, rt, sz, Sql(tr, rt)) > MaxBytes
  \/ Cardinality(Sql(tr, rt)) > MaxFiles
  \/ Cardinality(All(tr, rt)) > MaxEntries
  \/ Cardinality(Below(tr, rt)) + 1 > MaxDirectories

(* What the scanner has counted when it has met the entries of C and looked *)
(* at those of L, and no limit stopped it. *)
Records(tr, rt, S) == {[path |-> p, node |-> Node(tr, rt, p)] : p \in S}

Registered(tr, rt, sz, L, list, files, bytes) ==
  /\ list = Records(tr, rt, Sql(tr, rt) \cap L)
  /\ \A p \in Sql(tr, rt) \cap L : sz[Node(tr, rt, p)] <= MaxFileBytes
  /\ files = Cardinality(Sql(tr, rt) \cap L) /\ files <= MaxFiles
  /\ bytes = Bytes(tr, rt, sz, Sql(tr, rt) \cap L) /\ bytes <= MaxBytes
Entered(tr, rt, L, directories) ==
  /\ \A p \in Below(tr, rt) \cap L : Len(p) <= MaxDepth
  /\ directories = 1 + Cardinality(Below(tr, rt) \cap L) /\ directories <= MaxDirectories
Met(C, entries) == entries = Cardinality(C) /\ entries <= MaxEntries

Tally(tr, rt, sz, C, L, list, b) ==
  /\ Registered(tr, rt, sz, L, list, b.files, b.bytes)
  /\ Entered(tr, rt, L, b.directories)
  /\ Met(C, b.entries)
  /\ Bad(tr, rt) \cap L = {}

LEMMA PartsAreFinite ==
  ASSUME NEW tr, NEW rt
  PROVE  /\ IsFiniteSet(Sql(tr, rt)) /\ Sql(tr, rt) \subseteq All(tr, rt)
         /\ IsFiniteSet(Below(tr, rt)) /\ Below(tr, rt) \subseteq All(tr, rt)
         /\ IsFiniteSet(All(tr, rt))
<1>1. Sql(tr, rt) \in SUBSET All(tr, rt) /\ Below(tr, rt) \in SUBSET All(tr, rt)
  BY DEF Sql, Below
<1>2. IsFiniteSet(All(tr, rt))
  BY AllIsFinite
<1> QED
  BY <1>1, <1>2, FS_Subset

(* The sum of the sizes grows by that of each file. *)
LEMMA SizesTyped ==
  ASSUME NEW tr, NEW rt, NEW sz, World(tr, rt, sz)
  PROVE  FileBytes(tr, rt, sz) \in [Sql(tr, rt) -> Nat]
<1>1. \A p \in Sql(tr, rt) : sz[Node(tr, rt, p)] \in Nat
  BY DEF World, Sql
<1> QED
  BY <1>1 DEF FileBytes

LEMMA BytesAddUp ==
  ASSUME NEW tr, NEW rt, NEW sz, World(tr, rt, sz)
  PROVE  /\ Bytes(tr, rt, sz, {}) = 0
         /\ \A S \in SUBSET Sql(tr, rt) :
              /\ Bytes(tr, rt, sz, S) \in Nat
              /\ Bytes(tr, rt, sz, S) <= Bytes(tr, rt, sz, Sql(tr, rt))
              /\ \A p \in Sql(tr, rt) \ S :
                   Bytes(tr, rt, sz, S \cup {p}) = Bytes(tr, rt, sz, S) + sz[Node(tr, rt, p)]
<1> DEFINE D == Sql(tr, rt)
           g == FileBytes(tr, rt, sz)
           total == Totals(D, g)
<1>1. IsFiniteSet(D) /\ g \in [D -> Nat]
  BY PartsAreFinite, SizesTyped
<1>2. \A p \in D : g[p] = sz[Node(tr, rt, p)]
  BY DEF FileBytes
<1> HIDE DEF D, g
<1>3. AddsUp(D, g, total)
  BY <1>1, SumIs
<1>4. \A s \in SUBSET D : total[s] <= total[D]
  <2>1. D \in SUBSET D
    OBVIOUS
  <2> QED
    BY <1>1, <2>1, SumGrows
<1> HIDE DEF total
<1>5. ASSUME NEW s \in SUBSET D, NEW p \in D \ s PROVE total[s \cup {p}] = total[s] + g[p]
  <2>1. s \cup {p} \in SUBSET D /\ p \in s \cup {p} /\ (s \cup {p}) \ {p} = s /\ g[p] \in Nat
    BY <1>1
  <2>2. total[s] \in Nat
    BY <1>3 DEF AddsUp
  <2>3. total[s \cup {p}] = g[p] + total[s]
    BY <1>3, <2>1 DEF AddsUp
  <2> QED
    BY <2>1, <2>2, <2>3
<1>6. \A s : Bytes(tr, rt, sz, s) = total[s]
  BY DEF Bytes, total, D, g
<1> QED
  BY <1>2, <1>3, <1>4, <1>5, <1>6 DEF AddsUp, D

LEMMA CardinalitiesGrow ==
  ASSUME NEW S, IsFiniteSet(S), NEW L \in SUBSET S
  PROVE  /\ Cardinality(L) \in Nat /\ Cardinality(S) \in Nat /\ Cardinality(L) <= Cardinality(S)
         /\ \A x \in S \ L : Cardinality(L \cup {x}) = Cardinality(L) + 1
<1>1. IsFiniteSet(L) /\ Cardinality(L) <= Cardinality(S)
  BY FS_Subset
<1> QED
  BY <1>1, FS_CardinalityType, FS_AddElement

(* The counts at the start, after a directory is listed, and after an entry *)
(* is looked at: they stay the counts, or a limit is exceeded. *)
LEMMA TallyFirst ==
  ASSUME NEW tr, NEW rt, NEW sz, World(tr, rt, sz), NEW b,
         b.directories = 1, b.entries = 0, b.files = 0, b.bytes = 0
  PROVE  Tally(tr, rt, sz, {}, {}, {}, b)
<1>1. Cardinality({}) = 0
  BY FS_EmptySet
<1>2. Sql(tr, rt) \cap {} = {} /\ Below(tr, rt) \cap {} = {} /\ Bad(tr, rt) \cap {} = {}
  OBVIOUS
<1>3. Bytes(tr, rt, sz, {}) = 0
  BY BytesAddUp
<1>4. /\ MaxFiles \in Nat /\ MaxBytes \in Nat /\ MaxEntries \in Nat
      /\ MaxDirectories \in Nat /\ 1 <= MaxDirectories
  BY LimitsAssumption
<1>5. Registered(tr, rt, sz, {}, {}, b.files, b.bytes)
  BY <1>1, <1>2, <1>3, <1>4 DEF Registered, Records
<1>6. Entered(tr, rt, {}, b.directories) /\ Met({}, b.entries)
  BY <1>1, <1>2, <1>4 DEF Entered, Met
<1> QED
  BY <1>2, <1>5, <1>6 DEF Tally

LEMMA TallyListed ==
  ASSUME NEW tr, NEW rt, NEW sz, NEW C, NEW L, NEW list, NEW b, Tally(tr, rt, sz, C, L, list, b),
         C \subseteq All(tr, rt), NEW K, K \subseteq All(tr, rt), C \cap K = {}
  PROVE  /\ b.entries \in Nat /\ Cardinality(K) \in Nat
         /\ b.entries + Cardinality(K) > MaxEntries => Over(tr, rt, sz)
         /\ \A c : /\ b.entries + Cardinality(K) <= MaxEntries
                   /\ c.entries = b.entries + Cardinality(K)
                   /\ c.files = b.files /\ c.bytes = b.bytes /\ c.directories = b.directories
                   => Tally(tr, rt, sz, C \cup K, L, list, c)
<1>1. IsFiniteSet(All(tr, rt)) /\ IsFiniteSet(C) /\ IsFiniteSet(K)
  BY AllIsFinite, FS_Subset
<1>2. /\ Cardinality(C) \in Nat /\ Cardinality(K) \in Nat /\ Cardinality(All(tr, rt)) \in Nat
      /\ Cardinality(C \cup K) <= Cardinality(All(tr, rt))
  <2>1. C \cup K \in SUBSET All(tr, rt)
    OBVIOUS
  <2> QED
    BY <1>1, <2>1, FS_CardinalityType, FS_Subset
<1>3. Cardinality(C \cup K) = Cardinality(C) + Cardinality(K)
  <2>1. Cardinality(C \cup K) = Cardinality(C) + Cardinality(K) - Cardinality({})
    BY <1>1, FS_Union
  <2> QED
    BY <1>2, <2>1, FS_EmptySet
<1>4. b.entries = Cardinality(C)
  BY DEF Tally, Met
<1>5. ASSUME b.entries + Cardinality(K) > MaxEntries PROVE Over(tr, rt, sz)
  <2>1. MaxEntries \in Nat
    BY LimitsAssumption
  <2>2. Cardinality(All(tr, rt)) > MaxEntries
    BY <1>2, <1>3, <1>4, <1>5, <2>1
  <2> QED
    BY <2>2 DEF Over
<1>6. ASSUME NEW c, b.entries + Cardinality(K) <= MaxEntries,
             c.entries = b.entries + Cardinality(K),
             c.files = b.files, c.bytes = b.bytes, c.directories = b.directories
      PROVE  Tally(tr, rt, sz, C \cup K, L, list, c)
  <2>1. Met(C \cup K, c.entries)
    BY <1>3, <1>4, <1>6 DEF Met
  <2> QED
    BY <1>6, <2>1 DEF Tally
<1> QED
  BY <1>2, <1>4, <1>5, <1>6

(* An entry that is neither a directory nor a .sql file nor a bad link. *)
LEMMA TallyPassed ==
  ASSUME NEW tr, NEW rt, NEW sz, NEW C, NEW L, NEW list, NEW b, Tally(tr, rt, sz, C, L, list, b),
         NEW p, p \notin Sql(tr, rt), p \notin Below(tr, rt), p \notin Bad(tr, rt)
  PROVE  Tally(tr, rt, sz, C, L \cup {p}, list, b)
<1>1. /\ Sql(tr, rt) \cap (L \cup {p}) = Sql(tr, rt) \cap L
      /\ Below(tr, rt) \cap (L \cup {p}) = Below(tr, rt) \cap L
      /\ Bad(tr, rt) \cap (L \cup {p}) = Bad(tr, rt) \cap L
  OBVIOUS
<1> QED
  BY <1>1 DEF Tally, Registered, Entered

LEMMA TallyEntered ==
  ASSUME NEW tr, NEW rt, NEW sz, NEW C, NEW L, NEW list, NEW b, Tally(tr, rt, sz, C, L, list, b),
         NEW p \in Below(tr, rt) \ L
  PROVE  /\ b.directories \in Nat
         /\ Len(p) > MaxDepth => Over(tr, rt, sz)
         /\ b.directories + 1 > MaxDirectories => Over(tr, rt, sz)
         /\ \A c : /\ Len(p) <= MaxDepth /\ b.directories + 1 <= MaxDirectories
                   /\ c.directories = b.directories + 1
                   /\ c.files = b.files /\ c.bytes = b.bytes /\ c.entries = b.entries
                   => Tally(tr, rt, sz, C, L \cup {p}, list, c)
<1> DEFINE B == Below(tr, rt)
<1>1. IsFiniteSet(B)
  BY PartsAreFinite
<1>2. p \in All(tr, rt) /\ Node(tr, rt, p) \in Dirs /\ p \notin Sql(tr, rt) /\ p \notin Bad(tr, rt)
  BY DEF Below, Sql, Bad, Dirs, Files, IsLink
<1>3. B \cap (L \cup {p}) = (B \cap L) \cup {p} /\ p \in B /\ p \notin B \cap L
  OBVIOUS
<1> HIDE DEF B
<1>4. /\ Cardinality(B \cap L) \in Nat /\ Cardinality(B) \in Nat
      /\ Cardinality((B \cap L) \cup {p}) = Cardinality(B \cap L) + 1
      /\ Cardinality((B \cap L) \cup {p}) <= Cardinality(B)
  <2>1. B \cap L \in SUBSET B /\ (B \cap L) \cup {p} \in SUBSET B /\ p \in B \ (B \cap L)
    BY <1>3
  <2> QED
    BY <1>1, <2>1, CardinalitiesGrow
<1>5. b.directories = 1 + Cardinality(B \cap L)
  BY DEF Tally, Entered, B
<1>6. MaxDirectories \in Nat /\ MaxDepth \in Nat /\ Len(p) \in 1..(MaxDepth + 1)
  BY <1>2, LimitsAssumption DEF All
<1>7. ASSUME Len(p) > MaxDepth PROVE Over(tr, rt, sz)
  <2>1. Len(p) = MaxDepth + 1
    BY <1>6, <1>7
  <2> QED
    BY <1>2, <2>1 DEF Over
<1>8. ASSUME b.directories + 1 > MaxDirectories PROVE Over(tr, rt, sz)
  <2>1. Cardinality(B) + 1 > MaxDirectories
    BY <1>4, <1>5, <1>6, <1>8
  <2> QED
    BY <2>1 DEF Over, B
<1>9. ASSUME NEW c, Len(p) <= MaxDepth, b.directories + 1 <= MaxDirectories,
             c.directories = b.directories + 1,
             c.files = b.files, c.bytes = b.bytes, c.entries = b.entries
      PROVE  Tally(tr, rt, sz, C, L \cup {p}, list, c)
  <2>1. /\ Sql(tr, rt) \cap (L \cup {p}) = Sql(tr, rt) \cap L
        /\ Bad(tr, rt) \cap (L \cup {p}) = Bad(tr, rt) \cap L
    BY <1>2
  <2>2. \A q \in B \cap (L \cup {p}) : Len(q) <= MaxDepth
    BY <1>3, <1>9 DEF Tally, Entered, B
  <2>3. c.directories = 1 + Cardinality(B \cap (L \cup {p})) /\ c.directories <= MaxDirectories
    <3>1. Cardinality(B \cap (L \cup {p})) = Cardinality(B \cap L) + 1
      BY <1>3, <1>4
    <3> QED
      BY <1>4, <1>5, <1>9, <3>1
  <2>4. Entered(tr, rt, L \cup {p}, c.directories)
    BY <2>2, <2>3 DEF Entered, B
  <2> QED
    BY <1>9, <2>1, <2>4 DEF Tally, Registered
<1>10. b.directories \in Nat
  BY <1>4, <1>5
<1> QED
  BY <1>7, <1>8, <1>9, <1>10

LEMMA TallyRegistered ==
  ASSUME NEW tr, NEW rt, NEW sz, World(tr, rt, sz),
         NEW C, NEW L, NEW list, NEW b, Tally(tr, rt, sz, C, L, list, b),
         NEW p \in Sql(tr, rt) \ L, NEW node, node = Node(tr, rt, p)
  PROVE  /\ b.files \in Nat /\ b.bytes \in Nat /\ sz[node] \in Nat
         /\ sz[node] > MaxFileBytes => Over(tr, rt, sz)
         /\ b.files + 1 > MaxFiles => Over(tr, rt, sz)
         /\ b.bytes + sz[node] > MaxBytes => Over(tr, rt, sz)
         /\ \A c : /\ sz[node] <= MaxFileBytes
                   /\ b.files + 1 <= MaxFiles /\ b.bytes + sz[node] <= MaxBytes
                   /\ c.files = b.files + 1 /\ c.bytes = b.bytes + sz[node]
                   /\ c.directories = b.directories /\ c.entries = b.entries
                   => Tally(tr, rt, sz, C, L \cup {p}, list \cup {[path |-> p, node |-> node]}, c)
<1> DEFINE B == Sql(tr, rt)
           new == [path |-> p, node |-> node]
<1>1. IsFiniteSet(B)
  BY PartsAreFinite
<1>2. p \in All(tr, rt) /\ node \in Files /\ p \notin Below(tr, rt) /\ p \notin Bad(tr, rt)
  BY DEF Below, Sql, Bad, Dirs, Files, IsLink
<1>3. B \cap (L \cup {p}) = (B \cap L) \cup {p} /\ p \in B /\ p \notin B \cap L
  OBVIOUS
<1>4. sz[node] \in Nat
  BY <1>2 DEF World
<1>5. B \cap L \in SUBSET B /\ (B \cap L) \cup {p} \in SUBSET B /\ p \in B \ (B \cap L) /\ B \in SUBSET B
  BY <1>3
<1>6. /\ Bytes(tr, rt, sz, B \cap L) \in Nat /\ Bytes(tr, rt, sz, B) \in Nat
      /\ Bytes(tr, rt, sz, (B \cap L) \cup {p}) = Bytes(tr, rt, sz, B \cap L) + sz[node]
      /\ Bytes(tr, rt, sz, (B \cap L) \cup {p}) <= Bytes(tr, rt, sz, B)
  BY <1>5, BytesAddUp
<1> HIDE DEF B
<1>7. /\ Cardinality(B \cap L) \in Nat /\ Cardinality(B) \in Nat
      /\ Cardinality((B \cap L) \cup {p}) = Cardinality(B \cap L) + 1
      /\ Cardinality((B \cap L) \cup {p}) <= Cardinality(B)
  BY <1>1, <1>5, CardinalitiesGrow
<1>8. b.files = Cardinality(B \cap L) /\ b.bytes = Bytes(tr, rt, sz, B \cap L)
  BY DEF Tally, Registered, B
<1>9. MaxFiles \in Nat /\ MaxBytes \in Nat /\ MaxFileBytes \in Nat
  BY LimitsAssumption
<1>10. ASSUME sz[node] > MaxFileBytes PROVE Over(tr, rt, sz)
  BY <1>3, <1>10 DEF Over, B
<1>11. ASSUME b.files + 1 > MaxFiles PROVE Over(tr, rt, sz)
  <2>1. Cardinality(B) > MaxFiles
    BY <1>7, <1>8, <1>9, <1>11
  <2> QED
    BY <2>1 DEF Over, B
<1>12. ASSUME b.bytes + sz[node] > MaxBytes PROVE Over(tr, rt, sz)
  <2>1. Bytes(tr, rt, sz, B) > MaxBytes
    BY <1>4, <1>6, <1>8, <1>9, <1>12
  <2> QED
    BY <2>1 DEF Over, B
<1>13. ASSUME NEW c, sz[node] <= MaxFileBytes,
              b.files + 1 <= MaxFiles, b.bytes + sz[node] <= MaxBytes,
              c.files = b.files + 1, c.bytes = b.bytes + sz[node],
              c.directories = b.directories, c.entries = b.entries
       PROVE  Tally(tr, rt, sz, C, L \cup {p}, list \cup {new}, c)
  <2>1. /\ Below(tr, rt) \cap (L \cup {p}) = Below(tr, rt) \cap L
        /\ Bad(tr, rt) \cap (L \cup {p}) = Bad(tr, rt) \cap L
    BY <1>2
  <2>2. list \cup {new} = Records(tr, rt, B \cap (L \cup {p}))
    BY <1>3 DEF Tally, Registered, Records, B
  <2>3. \A q \in B \cap (L \cup {p}) : sz[Node(tr, rt, q)] <= MaxFileBytes
    BY <1>3, <1>13 DEF Tally, Registered, B
  <2>4. c.files = Cardinality(B \cap (L \cup {p})) /\ c.files <= MaxFiles
    BY <1>3, <1>7, <1>8, <1>13
  <2>5. c.bytes = Bytes(tr, rt, sz, B \cap (L \cup {p})) /\ c.bytes <= MaxBytes
    BY <1>3, <1>6, <1>8, <1>13
  <2> HIDE DEF new
  <2>6. Registered(tr, rt, sz, L \cup {p}, list \cup {new}, c.files, c.bytes)
    BY <2>2, <2>3, <2>4, <2>5 DEF Registered, B
  <2> QED
    BY <1>13, <2>1, <2>6 DEF Tally, Entered
<1> QED
  BY <1>4, <1>6, <1>7, <1>8, <1>10, <1>11, <1>12, <1>13

(* When everything has been looked at, the list is complete. *)
LEMMA TallyAll ==
  ASSUME NEW tr, NEW rt, NEW sz, World(tr, rt, sz), NEW list, NEW b,
         Tally(tr, rt, sz, All(tr, rt), All(tr, rt), list, b)
  PROVE  list = Records(tr, rt, Sql(tr, rt)) /\ Bad(tr, rt) = {} /\ ~ Over(tr, rt, sz)
<1> DEFINE A == All(tr, rt)
           B == Sql(tr, rt)
           E == Below(tr, rt)
<1>1. B \cap A = B /\ E \cap A = E /\ Bad(tr, rt) \cap A = Bad(tr, rt)
  BY DEF Sql, Below, Bad
<1>2. /\ MaxDepth \in Nat /\ MaxDirectories \in Nat /\ MaxEntries \in Nat
      /\ MaxFiles \in Nat /\ MaxFileBytes \in Nat /\ MaxBytes \in Nat
  BY LimitsAssumption
<1>3. Cardinality(B) \in Nat /\ Cardinality(E) \in Nat /\ Cardinality(A) \in Nat
  BY PartsAreFinite, FS_CardinalityType
<1>4. Bytes(tr, rt, sz, B) \in Nat /\ \A p \in B : sz[Node(tr, rt, p)] \in Nat
  BY BytesAddUp DEF World, Sql
<1>5. /\ list = Records(tr, rt, B)
      /\ \A p \in B : sz[Node(tr, rt, p)] <= MaxFileBytes
      /\ Cardinality(B) <= MaxFiles
      /\ Bytes(tr, rt, sz, B) <= MaxBytes
  BY <1>1 DEF Tally, Registered
<1>6. /\ \A p \in E : Len(p) <= MaxDepth
      /\ 1 + Cardinality(E) <= MaxDirectories
      /\ Cardinality(A) <= MaxEntries
      /\ Bad(tr, rt) = {}
  BY <1>1 DEF Tally, Entered, Met
<1>7. ~ (\E p \in A : Len(p) = MaxDepth + 1 /\ Node(tr, rt, p) \in Dirs)
  BY <1>2, <1>6 DEF Below
<1>8. ~ (\E p \in B : sz[Node(tr, rt, p)] > MaxFileBytes)
  <2> SUFFICES ASSUME NEW p \in B, sz[Node(tr, rt, p)] > MaxFileBytes PROVE FALSE
    OBVIOUS
  <2> DEFINE n == sz[Node(tr, rt, p)]
  <2>1. n \in Nat /\ n <= MaxFileBytes /\ n > MaxFileBytes
    BY <1>4, <1>5
  <2> HIDE DEF n
  <2> QED
    BY <1>2, <2>1
<1>9. /\ ~ (Bytes(tr, rt, sz, B) > MaxBytes)
      /\ ~ (Cardinality(B) > MaxFiles)
      /\ ~ (Cardinality(A) > MaxEntries)
      /\ ~ (Cardinality(E) + 1 > MaxDirectories)
  <2> HIDE DEF A, B, E
  <2> QED
    BY <1>2, <1>3, <1>4, <1>5, <1>6
<1> QED
  BY <1>5, <1>6, <1>7, <1>8, <1>9 DEF Over

-----------------------------------------------------------------------------
(* A function with these values is unique in its largest one. *)
LEMMA SumsAgree ==
  ASSUME NEW S, IsFiniteSet(S), NEW g, NEW a, NEW b, Sums(S, g, a), Sums(S, g, b)
  PROVE  a[S] = b[S]
<1> DEFINE D == SUBSET S
           first(s) == CHOOSE x \in s : TRUE
           value(f, s) == IF s = {} THEN 0 ELSE g[first(s)] + f[s \ {first(s)}]
           rank == [s \in D |-> Cardinality(s)]
           P == {s \in D : a[s] = b[s]}
<1>1. a = [s \in D |-> value(a, s)] /\ b = [s \in D |-> value(b, s)]
  BY DEF Sums
<1>2. \A s \in D : s # {} => first(s) \in s
  OBVIOUS
<1>3. \A s \in D : a[s] = value(a, s) /\ b[s] = value(b, s)
  <2> HIDE DEF value
  <2> QED
    BY <1>1
<1> HIDE DEF first
<1>4. \A s \in D : rank[s] \in Nat /\ \A x \in s : s \ {x} \in D /\ rank[s \ {x}] < rank[s]
  <2> SUFFICES ASSUME NEW s \in D
               PROVE  rank[s] \in Nat /\ \A x \in s : s \ {x} \in D /\ rank[s \ {x}] < rank[s]
    OBVIOUS
  <2>1. IsFiniteSet(s) /\ Cardinality(s) \in Nat
    BY FS_Subset, FS_CardinalityType
  <2>2. ASSUME NEW x \in s PROVE Cardinality(s \ {x}) < Cardinality(s)
    <3>1. IsFiniteSet(s \ {x}) /\ Cardinality(s \ {x}) = Cardinality(s) - 1
      BY <2>1, FS_RemoveElement
    <3> QED
      BY <2>1, <3>1
  <2> QED
    BY <2>1, <2>2
<1>5. ASSUME NEW s \in D, \A r \in D : rank[r] < rank[s] => r \in P PROVE s \in P
  <2>1. CASE s = {}
    BY <1>3, <2>1
  <2>2. CASE s # {}
    <3>1. s \ {first(s)} \in P
      BY <1>2, <1>4, <1>5, <2>2
    <3> QED
      BY <1>3, <2>2, <3>1
  <2> QED
    BY <2>1, <2>2
<1>6. D \subseteq P
  <2>1. rank \in [D -> Nat]
    BY <1>4
  <2>2. \A s \in D : (\A r \in D : rank[r] < rank[s] => r \in P) => s \in P
    <3> HIDE DEF rank, P, D
    <3> QED
      BY <1>5
  <2> HIDE DEF rank, D, P
  <2> QED
    BY <2>1, <2>2, RankInduction
<1> QED
  BY <1>6

(* The sum of the model, as the fold of the community modules computes it. *)
FileSums(total) ==
  total = [s \in SUBSET SqlFiles |->
             IF s = {} THEN 0
             ELSE LET x == CHOOSE x \in s : TRUE IN size[NodeAt(x)] + total[s \ {x}]]

LEMMA FoldSums ==
  MapThenSumSet(LAMBDA p : size[NodeAt(p)], SqlFiles) = (CHOOSE total : FileSums(total))[SqlFiles]
BY Zenon DEF MapThenSumSet, MapThenFoldSet, FileSums

(* The definitions above are those of the model, of its present tree. *)
LEMMA SameNode ==
  ASSUME NEW p
  PROVE  NodeAt(p) = Node(tree, root, p)
BY DEF NodeAt, Node, Trail

LEMMA SamePaths == AllPaths = All(tree, root)
<1> DEFINE D == MaxDepth + 1
           U == UNION {[1..k -> Names] : k \in 1..D}
<1>1. D \in Nat
  BY LimitsAssumption
<1> HIDE DEF D
<1>2. ASSUME NEW p \in U PROVE p \in Paths /\ Len(p) \in 1..D
  <2>1. PICK k \in 1..D : p \in [1..k -> Names]
    OBVIOUS
  <2>2. k \in Nat
    BY <1>1
  <2>3. p \in Seq(Names) /\ Len(p) = k
    BY <2>1, <2>2
  <2> QED
    BY <2>3 DEF Paths
<1>3. ASSUME NEW p \in Paths, Len(p) \in 1..D PROVE p \in U
  <2>1. p \in [1..Len(p) -> Names]
    BY DEF Paths
  <2> QED
    BY <1>3, <2>1
<1>4. U = {p \in Paths : Len(p) \in 1..D}
  BY <1>2, <1>3
<1>5. AllPaths = {p \in U : Node(tree, root, p) # None}
  BY SameNode DEF AllPaths, D
<1> HIDE DEF U
<1> QED
  BY <1>4, <1>5 DEF All, D

LEMMA SameSets == SqlFiles = Sql(tree, root) /\ BadLinks = Bad(tree, root)
<1>1. SqlFiles = Sql(tree, root)
  BY SameNode, SamePaths DEF SqlFiles, Sql
<1>2. BadLinks = Bad(tree, root)
  BY SameNode, SamePaths DEF BadLinks, Bad
<1> QED
  BY <1>1, <1>2

LEMMA SameBytes ==
  ASSUME World(tree, root, size)
  PROVE  MapThenSumSet(LAMBDA p : size[NodeAt(p)], SqlFiles)
           = Bytes(tree, root, size, Sql(tree, root))
<1> DEFINE S == Sql(tree, root)
           g == FileBytes(tree, root, size)
           first(s) == CHOOSE x \in s : TRUE
<1>1. IsFiniteSet(S) /\ g \in [S -> Nat]
  BY PartsAreFinite, SizesTyped
<1>2. \A x \in S : size[NodeAt(x)] = g[x]
  BY SameNode DEF FileBytes
<1>3. ASSUME NEW total PROVE FileSums(total) <=> Sums(S, g, total)
  <2> DEFINE theirs(s) == IF s = {} THEN 0 ELSE size[NodeAt(first(s))] + total[s \ {first(s)}]
             ours(s) == IF s = {} THEN 0 ELSE g[first(s)] + total[s \ {first(s)}]
  <2>1. \A s \in SUBSET S : s # {} => first(s) \in S
    OBVIOUS
  <2> HIDE DEF S, g, first
  <2>2. \A s \in SUBSET S : theirs(s) = ours(s)
    BY <1>2, <2>1
  <2>3. FileSums(total) <=> total = [s \in SUBSET S |-> theirs(s)]
    BY SameSets DEF FileSums, S, first
  <2>4. Sums(S, g, total) <=> total = [s \in SUBSET S |-> ours(s)]
    BY DEF Sums, first
  <2> HIDE DEF theirs, ours
  <2>5. [s \in SUBSET S |-> theirs(s)] = [s \in SUBSET S |-> ours(s)]
    BY <2>2
  <2> QED
    BY <2>3, <2>4, <2>5
<1> DEFINE a == Totals(S, g)
           b == CHOOSE total : FileSums(total)
<1> HIDE DEF S, g
<1>4. Sums(S, g, a)
  BY <1>1, SumsExist
<1>5. FileSums(b)
  <2> HIDE DEF a
  <2> QED
    BY <1>3, <1>4
<1> HIDE DEF a, b
<1>6. Sums(S, g, b)
  BY <1>3, <1>5
<1>7. a[S] = b[S]
  BY <1>1, <1>4, <1>6, SumsAgree
<1>8. S = SqlFiles
  BY SameSets DEF S
<1> QED
  BY <1>7, <1>8, FoldSums DEF Bytes, a, b, g, S

LEMMA SameLimits ==
  ASSUME World(tree, root, size)
  PROVE  OverLimit <=> Over(tree, root, size)
<1>1. {p \in AllPaths : NodeAt(p) \in Dirs} = Below(tree, root)
  BY SameNode, SamePaths DEF Below
<1>2. /\ (\E p \in AllPaths : Len(p) = MaxDepth + 1 /\ NodeAt(p) \in Dirs)
           <=> (\E p \in All(tree, root) : Len(p) = MaxDepth + 1 /\ Node(tree, root, p) \in Dirs)
      /\ (\E p \in SqlFiles : size[NodeAt(p)] > MaxFileBytes)
           <=> (\E p \in Sql(tree, root) : size[Node(tree, root, p)] > MaxFileBytes)
  BY SameNode, SamePaths, SameSets
<1> QED
  BY <1>1, <1>2, SamePaths, SameSets, SameBytes DEF OverLimit, Over

-----------------------------------------------------------------------------
(* The invariant of a scan whose tree nobody changes, for each position of  *)
(* the program.  The directories that wait, in the stack, in child_directories *)
(* or as the one in progress, are where the search has not been yet.        *)
Quiet == changes = 0 /\ root \in Dirs

RightNodes(tr, rt, s) == \A k \in DOMAIN s : s[k].node = Node(tr, rt, s[k].path)
Distinct(s) == \A j, k \in DOMAIN s : s[j].path = s[k].path => j = k
PathsOf(s) == {s[k].path : k \in DOMAIN s}
Ahead(d, xs) == {Append(d, x) : x \in xs}

StackIsRight ==
  pc # "ended" => /\ Distinct(pending) /\ RightNodes(tree, root, pending)
                  /\ Distinct(children) /\ RightNodes(tree, root, children)

AtDirectory == pc = "list" \/ (pc \in {"walk", "open"} /\ walk.for = "directory")
Reading     == pc \in {"next", "yield", "read"} \/ (pc \in {"walk", "open"} /\ walk.for = "regular")

Searching(C, L, W) ==
  Explored(tree, root, C, L, W) /\ Tally(tree, root, size, C, L, found, budget)

PopsRight == pc = "pop" => \E C : Searching(C, C, PathsOf(pending))
ListsRight ==
  AtDirectory =>
    /\ dir.node \in Dirs /\ dir.node = Node(tree, root, dir.path)
    /\ dir.path \notin PathsOf(pending)
    /\ \E C : Searching(C, C, PathsOf(pending) \cup {dir.path})
LooksRight ==
  pc = "stat" =>
    /\ dir.node = Node(tree, root, dir.path)
    /\ PathsOf(pending) \cap PathsOf(children) = {}
    /\ \E C : /\ Ahead(dir.path, names) \subseteq C
              /\ Searching(C, C \ Ahead(dir.path, names), PathsOf(pending) \cup PathsOf(children))

(* A walk is at the node of the part of the path it has gone. *)
OnTheWay(tr, rt, w) ==
  \E gone \in Paths : w.entry.path = gone \o w.rest /\ w.at = Node(tr, rt, gone)
WalksRight ==
  pc \in {"walk", "open"} =>
    /\ walk.entry.node = Node(tree, root, walk.entry.path)
    /\ OnTheWay(tree, root, walk)
    /\ walk.for = "directory" => walk.entry.path = dir.path
    /\ pc = "open" => walk.checked = tree[walk.at][Head(walk.rest)]

(* The discovery has found every .sql file, and nothing to refuse. *)
Complete(tr, rt, sz, list) == list = Records(tr, rt, Sql(tr, rt)) /\ Bad(tr, rt) = {} /\ ~ Over(tr, rt, sz)
ReadsRight ==
  Reading =>
    /\ Complete(tree, root, size, found)
    /\ PathsOf(scanned) \subseteq Sql(tree, root)
    /\ read = Bytes(tree, root, size, PathsOf(scanned))
    /\ opened = IF pc = "read" THEN read + size[walk.at] ELSE read
StartsAtZero == Collecting => read = 0 /\ opened = 0

EndsRight ==
  pc = "ended" =>
    /\ outcome = "done" => /\ PathsOf(scanned) = Sql(tree, root)
                           /\ Bad(tree, root) = {} /\ ~ Over(tree, root, size)
    /\ outcome = "link" => Bad(tree, root) # {}
    /\ outcome = "limit" => Over(tree, root, size)
    /\ outcome = "no input" => Sql(tree, root) = {}
    /\ outcome # "changed"

QuietParts ==
  /\ StackIsRight /\ PopsRight /\ ListsRight /\ LooksRight
  /\ WalksRight /\ ReadsRight /\ StartsAtZero /\ EndsRight
QuietInv == changes \in Nat /\ (Quiet => QuietParts)

(* What the lemmas about the steps of the scanner start from. *)
QuietStepAhead ==
  /\ root \in Dirs /\ World(tree, root, size) /\ ScanInv /\ OrderInv /\ TypeInv /\ QuietParts
  /\ tree' = tree /\ root' = root /\ size' = size

-----------------------------------------------------------------------------
(* The entries of a directory and their paths. *)
LEMMA EntriesOfDirectory ==
  ASSUME NEW d \in Paths
  PROVE  /\ \A x \in Names : Append(d, x) \in Paths /\ Append(d, x) # <<>>
                             /\ Append(d, x)[Len(Append(d, x))] = x
                             /\ Len(Append(d, x)) = Len(d) + 1
         /\ \A xs \in SUBSET Names : \A x \in xs : Ahead(d, xs \ {x}) = Ahead(d, xs) \ {Append(d, x)}
<1>1. ASSUME NEW x \in Names
      PROVE  /\ Append(d, x) \in Paths /\ Append(d, x) # <<>>
             /\ Append(d, x)[Len(Append(d, x))] = x
             /\ Len(Append(d, x)) = Len(d) + 1
  BY DEF Paths
<1>2. ASSUME NEW xs \in SUBSET Names, NEW x \in xs
      PROVE  Ahead(d, xs \ {x}) = Ahead(d, xs) \ {Append(d, x)}
  <2>1. \A y \in xs : Append(d, y) = Append(d, x) => x = y
    BY AppendIsInjective
  <2> QED
    BY <2>1 DEF Ahead
<1> QED
  BY <1>1, <1>2

(* What _bounded_directory_names counts is what is in the directory. *)
LEMMA ListedDirectory ==
  ASSUME NEW tr, NEW rt, NEW sz, World(tr, rt, sz), NEW d \in Paths, NEW node \in Dirs,
         node = Node(tr, rt, d), NEW present, present = {x \in Names : tr[node][x] # None}
  PROVE  /\ Within(tr, rt, d) = Ahead(d, present)
         /\ Cardinality(present) = Cardinality(Within(tr, rt, d))
<1>1. \A x \in Names : Node(tr, rt, Append(d, x)) = tr[node][x]
  BY ChildNode
<1>2. Within(tr, rt, d) = Ahead(d, present)
  BY <1>1 DEF Within, Ahead
<1> DEFINE f == [x \in present |-> Append(d, x)]
           K == Ahead(d, present)
<1>3. IsFiniteSet(present)
  <2>1. present \in SUBSET Names
    OBVIOUS
  <2> QED
    BY <2>1, NamesAssumption, FS_Subset
<1>4. f \in Surjection(present, K)
  BY DEF Surjection, Ahead
<1>5. f \in Injection(present, K)
  <2>1. f \in [present -> K]
    BY DEF Ahead
  <2>2. \A x, y \in present : f[x] = f[y] => x = y
    <3> SUFFICES ASSUME NEW x \in present, NEW y \in present, f[x] = f[y] PROVE x = y
      OBVIOUS
    <3>1. Append(d, x) = Append(d, y) /\ x \in Names /\ y \in Names
      OBVIOUS
    <3> QED
      BY <3>1, AppendIsInjective
  <2> HIDE DEF f, K
  <2> QED
    BY <2>1, <2>2 DEF Injection, IsInjective
<1>6. Cardinality(K) = Cardinality(present)
  <2> HIDE DEF f, K
  <2> QED
    BY <1>3, <1>4, <1>5, FS_Surjection
<1> QED
  BY <1>2, <1>6

(* The directories that wait are no deeper than the limit. *)
LEMMA WaitingIsShallow ==
  ASSUME NEW tr, NEW rt, NEW sz, NEW C, NEW W, NEW list, NEW b,
         Explored(tr, rt, C, C, W), Tally(tr, rt, sz, C, C, list, b),
         NEW d \in W, Node(tr, rt, d) \in Dirs
  PROVE  Len(d) <= MaxDepth
<1>1. CASE d = <<>>
  BY <1>1, LimitsAssumption
<1>2. CASE d # <<>>
  <2>1. d \in C /\ d \in All(tr, rt)
    BY <1>2 DEF Explored
  <2> QED
    BY <2>1 DEF Tally, Entered, Below
<1> QED
  BY <1>1, <1>2

-----------------------------------------------------------------------------
(* A scan that fails or is closed promises nothing; one that refuses the    *)
(* tree must have the reason. *)
LEMMA QuietEnds ==
  ASSUME pc' = "ended", outcome' \notin {"done", "link", "limit", "no input", "changed"}
  PROVE  QuietParts'
BY DEF QuietParts, StackIsRight, PopsRight, ListsRight, AtDirectory, LooksRight, WalksRight,
    ReadsRight, Reading, StartsAtZero, Collecting, EndsRight

LEMMA QuietRefuses ==
  ASSUME QuietStepAhead, pc' = "ended", 
         \/ outcome' = "link" /\ Bad(tree, root) # {}
         \/ outcome' = "limit" /\ Over(tree, root, size)
         \/ outcome' = "no input" /\ Sql(tree, root) = {}
  PROVE  QuietParts'
BY DEF QuietStepAhead, QuietParts, StackIsRight, PopsRight, ListsRight, AtDirectory,
    LooksRight, WalksRight, ReadsRight, Reading, StartsAtZero, Collecting, EndsRight

(* Popping an element leaves the others where they are. *)
LEMMA FrontOfSequence ==
  ASSUME NEW S, NEW s \in Seq(S), s # <<>>
  PROVE  /\ SubSeq(s, 1, Len(s) - 1) \in Seq(S)
         /\ Len(SubSeq(s, 1, Len(s) - 1)) = Len(s) - 1
         /\ \A k \in 1..(Len(s) - 1) : SubSeq(s, 1, Len(s) - 1)[k] = s[k]
<1> DEFINE m == Len(s) - 1
<1>1. m \in Nat /\ Len(s) = m + 1
  OBVIOUS
<1>2. DOMAIN s = 1..(m + 1)
  BY <1>1
<1> HIDE DEF m
<1>3. SubSeq(s, 1, m) \in Seq(S)
  BY <1>1
<1>4. Len(SubSeq(s, 1, m)) = m
  BY <1>1, <1>2
<1>5. \A k \in 1..m : SubSeq(s, 1, m)[k] = s[k]
  BY <1>1, <1>2
<1> QED
  BY <1>3, <1>4, <1>5 DEF m

(* The discovery. *)
LEMMA QuietPop == ASSUME QuietStepAhead, PopDirectory PROVE QuietParts'
<1> DEFINE n == Len(pending)
           top == pending[n]
<1>1. /\ root \in Dirs /\ World(tree, root, size) /\ pending \in Seq(Directory)
      /\ tree' = tree /\ root' = root /\ size' = size
      /\ QuietParts
  BY DEF QuietStepAhead, ScanInv, Typed
<1>2. /\ pc = "pop" /\ pending # <<>>
      /\ pending' = Popped /\ dir' = top
      /\ \/ pc' = "list" /\ UNCHANGED walk
         \/ /\ pc' = "walk"
            /\ walk' = [for |-> "directory", entry |-> [path |-> top.path, node |-> top.node],
                        at |-> root, rest |-> top.path, checked |-> None]
      /\ UNCHANGED <<children, budget, found, opened, read>>
  BY DEF PopDirectory, reading
<1>3. /\ n \in Nat \ {0} /\ top \in Directory
      /\ Popped \in Seq(Directory) /\ Len(Popped) = n - 1
      /\ \A k \in 1..(n - 1) : Popped[k] = pending[k]
  <2>1. n \in Nat \ {0}
    BY <1>1, <1>2
  <2>2. top \in Directory
    BY <1>1, <2>1
  <2>3. Popped \in Seq(Directory) /\ Len(Popped) = n - 1 /\ \A k \in 1..(n - 1) : Popped[k] = pending[k]
    BY <1>1, <1>2, FrontOfSequence DEF Popped
  <2> QED
    BY <2>1, <2>2, <2>3
<1>4. /\ DOMAIN pending = 1..n /\ DOMAIN Popped = 1..(n - 1)
      /\ n \in 1..n /\ n \notin 1..(n - 1)
      /\ \A k \in 1..n : k = n \/ k \in 1..(n - 1)
      /\ \A k \in 1..(n - 1) : k \in 1..n
  BY <1>1, <1>3
<1>5. top.path \in Paths /\ top.node \in Dirs
  BY <1>3 DEF Directory
<1> HIDE DEF n
<1>6. Distinct(pending) /\ RightNodes(tree, root, pending) /\ Distinct(children) /\ RightNodes(tree, root, children)
  BY <1>1, <1>2 DEF QuietParts, StackIsRight
<1>7. /\ top.node = Node(tree, root, top.path)
      /\ Distinct(Popped) /\ RightNodes(tree, root, Popped)
      /\ top.path \notin PathsOf(Popped)
      /\ PathsOf(pending) = PathsOf(Popped) \cup {top.path}
  <2>1. Distinct(Popped) /\ RightNodes(tree, root, Popped)
    BY <1>3, <1>4, <1>6 DEF Distinct, RightNodes
  <2>2. top.node = Node(tree, root, top.path)
    BY <1>4, <1>6 DEF RightNodes
  <2>3. top.path \notin PathsOf(Popped)
    BY <1>3, <1>4, <1>6 DEF Distinct, PathsOf
  <2>4. PathsOf(pending) = PathsOf(Popped) \cup {top.path}
    BY <1>3, <1>4 DEF PathsOf
  <2> QED
    BY <2>1, <2>2, <2>3, <2>4
<1> HIDE DEF top
<1>8. PICK C : Searching(C, C, PathsOf(pending))
  BY <1>1, <1>2 DEF QuietParts, PopsRight
<1>10. StackIsRight'
  BY <1>1, <1>2, <1>6, <1>7 DEF StackIsRight
<1>11. ListsRight'
  <2>1. Explored(tree, root, C, C, PathsOf(Popped) \cup {top.path}) /\ Tally(tree, root, size, C, C, found, budget)
    BY <1>7, <1>8 DEF Searching
  <2> QED
    BY <1>1, <1>2, <1>5, <1>7, <2>1 DEF ListsRight, Searching
<1>12. WalksRight'
  <2> SUFFICES ASSUME pc' = "walk" PROVE WalksRight'
    BY <1>2 DEF WalksRight
  <2>1. walk' = [for |-> "directory", entry |-> [path |-> top.path, node |-> top.node],
                 at |-> root, rest |-> top.path, checked |-> None]
    BY <1>2
  <2>2. <<>> \in Paths /\ top.path = <<>> \o top.path /\ root = Node(tree, root, <<>>)
    BY <1>1, <1>5, RootNode DEF Paths
  <2>3. OnTheWay(tree, root, walk')
    BY <2>1, <2>2 DEF OnTheWay
  <2> QED
    BY <1>1, <1>2, <1>7, <2>1, <2>3 DEF WalksRight
<1>13. StartsAtZero'
  BY <1>1, <1>2 DEF QuietParts, StartsAtZero, Collecting
<1>14. ReadsRight'
  <2>1. pc' = "list" \/ (pc' = "walk" /\ walk'.for = "directory")
    BY <1>2
  <2> QED
    BY <2>1 DEF ReadsRight, Reading
<1>15. PopsRight' /\ LooksRight' /\ EndsRight'
  BY <1>2 DEF PopsRight, LooksRight, EndsRight
<1> QED
  BY <1>10, <1>11, <1>12, <1>13, <1>14, <1>15 DEF QuietParts

LEMMA QuietEnd == ASSUME QuietStepAhead, EndDirectory PROVE QuietParts'
<1> DEFINE back == Reversed(children)
           n == Len(pending)
           m == Len(children)
           all == pending \o back
<1>1. /\ root \in Dirs /\ World(tree, root, size)
      /\ pending \in Seq(Directory) /\ children \in Seq(Directory)
      /\ tree' = tree /\ root' = root /\ size' = size
      /\ QuietParts
  BY DEF QuietStepAhead, ScanInv, Typed
<1>2. /\ pc = "stat" /\ names = {} /\ pc' = "pop"
      /\ pending' = all
      /\ UNCHANGED <<children, budget, found, opened, read>>
  BY DEF EndDirectory, reading
<1>3. /\ n \in Nat /\ m \in Nat /\ DOMAIN pending = 1..n /\ DOMAIN children = 1..m
  BY <1>1
<1>4. back \in Seq(Directory) /\ Len(back) = m /\ \A k \in 1..m : back[k] = children[m + 1 - k]
  <2>1. back \in Seq(Directory)
    BY <1>1, ReversedIsSequence
  <2>2. Len(back) = m
    BY <1>3 DEF Reversed
  <2> QED
    BY <2>1, <2>2 DEF Reversed
<1> HIDE DEF back
<1>5. /\ DOMAIN all = 1..(n + m)
      /\ \A k \in 1..n : all[k] = pending[k]
      /\ \A k \in (n + 1)..(n + m) : all[k] = children[m + 1 - (k - n)]
  <2>1. all \in Seq(Directory) /\ Len(all) = n + m
    BY <1>1, <1>3, <1>4
  <2>2. \A k \in 1..n : all[k] = pending[k]
    BY <1>1, <1>3, <1>4
  <2>3. ASSUME NEW k \in (n + 1)..(n + m) PROVE all[k] = children[m + 1 - (k - n)]
    <3>1. all[k] = back[k - n] /\ k - n \in 1..m
      BY <1>1, <1>3, <1>4
    <3> QED
      BY <1>4, <3>1
  <2> QED
    BY <2>1, <2>2, <2>3
<1> HIDE DEF n, m, all
<1>6. /\ Distinct(pending) /\ RightNodes(tree, root, pending) /\ Distinct(children) /\ RightNodes(tree, root, children)
      /\ PathsOf(pending) \cap PathsOf(children) = {}
  BY <1>1, <1>2 DEF QuietParts, StackIsRight, LooksRight
<1>7. /\ \A k \in 1..n : k \in 1..(n + m)
      /\ \A k \in 1..(n + m) : k \in 1..n \/ (k \in (n + 1)..(n + m) /\ m + 1 - (k - n) \in 1..m)
      /\ \A k \in 1..m : /\ (n + 1) + (m - k) \in (n + 1)..(n + m)
                         /\ (n + 1) + (m - k) \in 1..(n + m)
                         /\ m + 1 - (((n + 1) + (m - k)) - n) = k
  BY <1>3
<1>8. ASSUME NEW k \in DOMAIN all
      PROVE  \/ k \in 1..n /\ all[k] = pending[k] /\ all[k].path \in PathsOf(pending)
             \/ /\ k \in (n + 1)..(n + m) /\ m + 1 - (k - n) \in 1..m
                /\ all[k] = children[m + 1 - (k - n)] /\ all[k].path \in PathsOf(children)
  BY <1>3, <1>5, <1>7 DEF PathsOf
<1>9. RightNodes(tree, root, all)
  BY <1>3, <1>6, <1>8 DEF RightNodes
<1>10. Distinct(all)
  <2> SUFFICES ASSUME NEW j \in DOMAIN all, NEW k \in DOMAIN all, all[j].path = all[k].path
               PROVE  j = k
    BY DEF Distinct
  <2>1. CASE j \in 1..n /\ k \in 1..n
    BY <1>3, <1>5, <1>6, <2>1 DEF Distinct
  <2>2. CASE j \notin 1..n /\ k \notin 1..n
    <3>1. /\ m + 1 - (j - n) \in 1..m /\ all[j] = children[m + 1 - (j - n)]
          /\ m + 1 - (k - n) \in 1..m /\ all[k] = children[m + 1 - (k - n)]
      BY <1>8, <2>2
    <3>2. m + 1 - (j - n) = m + 1 - (k - n)
      BY <1>3, <1>6, <3>1 DEF Distinct
    <3>3. j \in Int /\ k \in Int
      BY <1>5
    <3> QED
      BY <1>3, <3>2, <3>3
  <2>3. ASSUME NEW i \in DOMAIN all PROVE i \in 1..n => all[i].path \in PathsOf(pending)
    BY <1>3, <1>5 DEF PathsOf
  <2>4. ASSUME NEW i \in DOMAIN all PROVE i \notin 1..n => all[i].path \in PathsOf(children)
    BY <1>8
  <2>5. CASE j \in 1..n /\ k \notin 1..n
    BY <1>6, <2>3, <2>4, <2>5
  <2>6. CASE j \notin 1..n /\ k \in 1..n
    BY <1>6, <2>3, <2>4, <2>6
  <2> QED
    BY <2>1, <2>2, <2>5, <2>6
<1>11. PathsOf(all) = PathsOf(pending) \cup PathsOf(children)
  <2>1. PathsOf(all) \subseteq PathsOf(pending) \cup PathsOf(children)
    BY <1>8 DEF PathsOf
  <2>2. PathsOf(pending) \subseteq PathsOf(all)
    BY <1>3, <1>5, <1>7 DEF PathsOf
  <2>3. PathsOf(children) \subseteq PathsOf(all)
    <3> SUFFICES ASSUME NEW k \in 1..m PROVE children[k].path \in PathsOf(all)
      BY <1>3 DEF PathsOf
    <3> DEFINE j == (n + 1) + (m - k)
    <3>1. j \in (n + 1)..(n + m) /\ j \in 1..(n + m) /\ m + 1 - (j - n) = k
      BY <1>7
    <3> HIDE DEF j
    <3>2. all[j] = children[k] /\ j \in DOMAIN all
      BY <1>5, <3>1
    <3> QED
      BY <3>2 DEF PathsOf
  <2> QED
    BY <2>1, <2>2, <2>3
<1>12. PopsRight'
  <2>1. Ahead(dir.path, names) = {}
    BY <1>2 DEF Ahead
  <2>2. PICK C : Searching(C, C \ {}, PathsOf(pending) \cup PathsOf(children))
    BY <1>1, <1>2, <2>1 DEF QuietParts, LooksRight
  <2>3. C \ {} = C
    OBVIOUS
  <2>4. Explored(tree, root, C, C, PathsOf(all)) /\ Tally(tree, root, size, C, C, found, budget)
    BY <1>11, <2>2, <2>3 DEF Searching
  <2> QED
    BY <1>1, <1>2, <2>4 DEF PopsRight, Searching
<1>13. StackIsRight'
  BY <1>1, <1>2, <1>6, <1>9, <1>10 DEF StackIsRight
<1>14. StartsAtZero'
  BY <1>1, <1>2 DEF QuietParts, StartsAtZero, Collecting
<1>15. ListsRight' /\ LooksRight' /\ WalksRight' /\ ReadsRight' /\ EndsRight'
  BY <1>2 DEF ListsRight, AtDirectory, LooksRight, WalksRight, ReadsRight, Reading, EndsRight
<1> QED
  BY <1>12, <1>13, <1>14, <1>15 DEF QuietParts

LEMMA QuietNothing == ASSUME QuietStepAhead, NothingFound PROVE QuietParts'
<1>1. /\ root \in Dirs /\ World(tree, root, size) /\ QuietParts
      /\ tree' = tree /\ root' = root /\ size' = size
  BY DEF QuietStepAhead
<1>2. /\ pc = "pop" /\ pending = <<>>
      /\ UNCHANGED <<pending, children, found, opened, read, scanned>>
      /\ \/ found = {} /\ pc' = "ended" /\ outcome' = "no input"
         \/ pc' = "next"
  BY DEF NothingFound, Stop, listing, reading
<1>3. PathsOf(pending) = {}
  <2>1. pending = <<>>
    BY <1>2
  <2> QED
    BY <2>1 DEF PathsOf
<1>4. PICK C : Searching(C, C, {})
  BY <1>1, <1>2, <1>3 DEF QuietParts, PopsRight
<1>5. C = All(tree, root)
  BY <1>1, <1>4, ExploredAll DEF Searching
<1>6. Complete(tree, root, size, found)
  BY <1>1, <1>4, <1>5, TallyAll DEF Searching, Complete
<1>7. CASE found = {} /\ pc' = "ended" /\ outcome' = "no input"
  <2>1. Sql(tree, root) = {}
    BY <1>6, <1>7 DEF Complete, Records
  <2> QED
    BY <1>7, <2>1, QuietRefuses
<1>8. CASE pc' = "next"
  <2>1. scanned = <<>>
    BY <1>2 DEF QuietStepAhead, OrderInv, Control, NothingReadYet, Collecting
  <2>2. PathsOf(scanned) = {}
    BY <2>1 DEF PathsOf
  <2>3. read = 0 /\ opened = 0
    BY <1>1, <1>2 DEF QuietParts, StartsAtZero, Collecting
  <2>4. Bytes(tree, root, size, {}) = 0
    BY <1>1, BytesAddUp
  <2>5. ReadsRight'
    BY <1>1, <1>2, <1>6, <1>8, <2>2, <2>3, <2>4 DEF ReadsRight
  <2>6. StackIsRight'
    BY <1>1, <1>2, <1>8 DEF QuietParts, StackIsRight
  <2>7. PopsRight' /\ ListsRight' /\ LooksRight' /\ WalksRight' /\ StartsAtZero' /\ EndsRight'
    BY <1>8 DEF PopsRight, ListsRight, AtDirectory, LooksRight, WalksRight, StartsAtZero,
        Collecting, EndsRight
  <2> QED
    BY <2>5, <2>6, <2>7 DEF QuietParts
<1> QED
  BY <1>2, <1>7, <1>8

LEMMA QuietList == ASSUME QuietStepAhead, ListDirectory PROVE QuietParts'
<1> DEFINE present == {x \in Names : tree[dir.node][x] # None}
           entries == budget.entries + Cardinality(present)
           K == Within(tree, root, dir.path)
<1>1. /\ root \in Dirs /\ World(tree, root, size) /\ QuietParts /\ dir.path \in Paths
      /\ tree' = tree /\ root' = root /\ size' = size
  BY DEF QuietStepAhead, ScanInv, Typed, DirTyped
<1>2. /\ pc = "list"
      /\ budget' = [budget EXCEPT !.entries = IF entries > MaxEntries THEN MaxEntries + 1 ELSE entries]
      /\ \/ entries > MaxEntries /\ pc' = "ended" /\ outcome' = "limit"
         \/ ~ (entries > MaxEntries) /\ names' = present /\ pc' = "stat"
      /\ children' = <<>>
      /\ UNCHANGED <<pending, dir, found, opened, read>>
  BY DEF ListDirectory, Stop, reading
<1>3. /\ dir.node \in Dirs /\ dir.node = Node(tree, root, dir.path)
      /\ dir.path \notin PathsOf(pending)
  BY <1>1, <1>2 DEF QuietParts, ListsRight, AtDirectory
<1>4. PICK C : Searching(C, C, PathsOf(pending) \cup {dir.path})
  BY <1>1, <1>2 DEF QuietParts, ListsRight, AtDirectory
<1>5. K = Ahead(dir.path, present) /\ Cardinality(present) = Cardinality(K)
  BY <1>1, <1>3, ListedDirectory
<1> HIDE DEF present, K
<1> DEFINE W == PathsOf(pending) \cup {dir.path}
<1>6. Explored(tree, root, C, C, W) /\ Tally(tree, root, size, C, C, found, budget)
  BY <1>4 DEF Searching
<1>7. dir.path \in W /\ W \ {dir.path} = PathsOf(pending)
  BY <1>3
<1> HIDE DEF W
<1>8. Len(dir.path) <= MaxDepth
  BY <1>3, <1>6, <1>7, WaitingIsShallow
<1>9. C \cap K = {} /\ K \subseteq All(tree, root) /\ C \subseteq All(tree, root)
      /\ Explored(tree, root, C \cup K, C, PathsOf(pending))
  <2>1. C \subseteq All(tree, root)
    BY <1>6 DEF Explored
  <2>2. /\ C \cap Within(tree, root, dir.path) = {}
        /\ Within(tree, root, dir.path) \subseteq All(tree, root)
        /\ Explored(tree, root, C \cup Within(tree, root, dir.path), C, W \ {dir.path})
    BY <1>1, <1>6, <1>7, <1>8, ExploredListed
  <2> QED
    BY <1>7, <2>1, <2>2 DEF K
<1>10. /\ budget.entries \in Nat /\ Cardinality(K) \in Nat
       /\ budget.entries + Cardinality(K) > MaxEntries => Over(tree, root, size)
       /\ \A c : /\ budget.entries + Cardinality(K) <= MaxEntries
                 /\ c.entries = budget.entries + Cardinality(K)
                 /\ c.files = budget.files /\ c.bytes = budget.bytes
                 /\ c.directories = budget.directories
                 => Tally(tree, root, size, C \cup K, C, found, c)
  BY <1>6, <1>9, TallyListed
<1>11. entries = budget.entries + Cardinality(K) /\ entries \in Nat
  BY <1>5, <1>10
<1>12. CASE entries > MaxEntries /\ pc' = "ended" /\ outcome' = "limit"
  <2>1. Over(tree, root, size)
    BY <1>10, <1>11, <1>12
  <2> QED
    BY <1>12, <2>1, QuietRefuses
<1>13. CASE ~ (entries > MaxEntries) /\ names' = present /\ pc' = "stat"
  <2>1. /\ budget' = [budget EXCEPT !.entries = entries]
    BY <1>2, <1>13
  <2>2. budget = [directories |-> budget.directories, entries |-> budget.entries,
                  files |-> budget.files, bytes |-> budget.bytes]
    BY DEF QuietStepAhead, OrderInv, Control, BudgetTyped
  <2> HIDE DEF entries
  <2>3. /\ budget'.entries = entries /\ budget'.files = budget.files
        /\ budget'.bytes = budget.bytes /\ budget'.directories = budget.directories
    BY <2>1, <2>2
  <2>4. entries <= MaxEntries
    BY <1>11, <1>13, LimitsAssumption
  <2>5. Tally(tree, root, size, C \cup K, C, found, budget')
    BY <1>10, <1>11, <2>3, <2>4
  <2>6. (C \cup K) \ K = C /\ K \subseteq C \cup K
    BY <1>9
  <2>7. PathsOf(children') = {} /\ Distinct(children') /\ RightNodes(tree, root, children')
    <3>1. children' = <<>>
      BY <1>2
    <3> QED
      BY <3>1 DEF PathsOf, Distinct, RightNodes
  <2>8. PathsOf(pending) \cup {} = PathsOf(pending) /\ PathsOf(pending) \cap {} = {}
    OBVIOUS
  <2>9. LooksRight'
    <3> DEFINE D == C \cup K
    <3>1. /\ K \subseteq D /\ D \ K = C
          /\ Explored(tree, root, D, C, PathsOf(pending))
          /\ Tally(tree, root, size, D, C, found, budget')
      BY <1>9, <2>5, <2>6
    <3> HIDE DEF D
    <3>2. K = Ahead(dir'.path, names')
      BY <1>2, <1>5, <1>13
    <3>3. /\ tree' = tree /\ root' = root /\ size' = size /\ found' = found
          /\ pending' = pending /\ dir' = dir
      BY <1>1, <1>2
    <3> QED
      BY <1>3, <2>7, <2>8, <3>1, <3>2, <3>3 DEF LooksRight, Searching
  <2>10. StackIsRight'
    BY <1>1, <1>2, <1>13, <2>7 DEF QuietParts, StackIsRight
  <2>11. StartsAtZero'
    BY <1>1, <1>2, <1>13 DEF QuietParts, StartsAtZero, Collecting
  <2>12. PopsRight' /\ ListsRight' /\ WalksRight' /\ ReadsRight' /\ EndsRight'
    BY <1>13 DEF PopsRight, ListsRight, AtDirectory, WalksRight, ReadsRight, Reading, EndsRight
  <2> QED
    BY <2>9, <2>10, <2>11, <2>12 DEF QuietParts
<1> QED
  BY <1>2, <1>12, <1>13

(* What has been met and looked at when the entry x of dir comes next. *)
AtEntry(x, p, node, C, L) ==
  /\ pc = "stat" /\ x \in names /\ x \in Names
  /\ p = Append(dir.path, x) /\ node = tree[dir.node][x]
  /\ p \in C \ L /\ p \in All(tree, root) /\ node = Node(tree, root, p) /\ p[Len(p)] = x
  /\ Len(p) = Len(dir.path) + 1 /\ dir.depth = Len(dir.path) /\ p \in Paths
  /\ Explored(tree, root, C, L, PathsOf(pending) \cup PathsOf(children))
  /\ Tally(tree, root, size, C, L, found, budget)
  /\ Ahead(dir.path, names \ {x}) \subseteq C
  /\ C \ Ahead(dir.path, names \ {x}) = L \cup {p}

LEMMA EntryIsMet ==
  ASSUME QuietStepAhead, pc = "stat", NEW x \in names
  PROVE  \E C, L : AtEntry(x, Append(dir.path, x), tree[dir.node][x], C, L)
<1> DEFINE p == Append(dir.path, x)
           node == tree[dir.node][x]
           A == Ahead(dir.path, names)
<1>1. /\ root \in Dirs /\ World(tree, root, size) /\ QuietParts
      /\ dir.path \in Paths /\ x \in Names /\ names \in SUBSET Names
      /\ dir.node \in Dirs /\ dir.depth = Len(dir.path)
  BY DEF QuietStepAhead, ScanInv, Typed, DirTyped, TypeInv, Placed, DepthsMatch, Nested
<1>2. PICK C : A \subseteq C /\ Searching(C, C \ A, PathsOf(pending) \cup PathsOf(children))
  BY <1>1 DEF QuietParts, LooksRight
<1>3. dir.node = Node(tree, root, dir.path)
  BY <1>1 DEF QuietParts, LooksRight
<1>4. p \in A
  BY DEF Ahead
<1>5. /\ p \in Paths /\ p[Len(p)] = x /\ Len(p) = Len(dir.path) + 1
      /\ Ahead(dir.path, names \ {x}) = A \ {p}
  BY <1>1, EntriesOfDirectory
<1>6. node = Node(tree, root, p)
  BY <1>1, <1>3, ChildNode
<1> HIDE DEF p, node, A
<1>7. /\ Explored(tree, root, C, C \ A, PathsOf(pending) \cup PathsOf(children))
      /\ Tally(tree, root, size, C, C \ A, found, budget)
  BY <1>2 DEF Searching
<1>8. p \in C \ (C \ A) /\ A \ {p} \subseteq C /\ C \ (A \ {p}) = (C \ A) \cup {p}
  BY <1>2, <1>4
<1>9. p \in All(tree, root)
  BY <1>7, <1>8 DEF Explored
<1>10. AtEntry(x, p, node, C, C \ A)
  BY <1>1, <1>5, <1>6, <1>7, <1>8, <1>9 DEF AtEntry, p, node
<1> QED
  BY <1>10 DEF p, node

(* The scanner goes on to the next entry. *)
LEMMA QuietGoesOn ==
  ASSUME QuietStepAhead, NEW x, NEW p, NEW node, NEW C, NEW L, AtEntry(x, p, node, C, L),
         UNCHANGED <<pending, dir, opened, read>>, names' = names \ {x}, pc' = "stat",
         Tally(tree, root, size, C, L \cup {p}, found', budget'),
         \/ node \notin Dirs /\ UNCHANGED children
         \/ /\ node \in Dirs
            /\ children' = Append(children, [path |-> p, node |-> node, depth |-> dir.depth + 1])
  PROVE  QuietParts'
<1> DEFINE new == [path |-> p, node |-> node, depth |-> dir.depth + 1]
           m == Len(children)
<1>1. /\ root \in Dirs /\ World(tree, root, size) /\ QuietParts /\ children \in Seq(Directory)
      /\ tree' = tree /\ root' = root /\ size' = size /\ pending' = pending /\ dir' = dir
  BY DEF QuietStepAhead, ScanInv, Typed
<1>2. /\ p \in C \ L /\ node = Node(tree, root, p) /\ p # <<>> /\ pc = "stat"
      /\ Explored(tree, root, C, L, PathsOf(pending) \cup PathsOf(children))
      /\ Ahead(dir.path, names') \subseteq C
      /\ C \ Ahead(dir.path, names') = L \cup {p}
  <2>1. p # <<>>
    BY DEF AtEntry, All
  <2> QED
    BY <2>1 DEF AtEntry
<1>3. p \notin PathsOf(pending) /\ p \notin PathsOf(children)
  BY <1>2 DEF Explored
<1>4. /\ Distinct(pending) /\ RightNodes(tree, root, pending) /\ Distinct(children) /\ RightNodes(tree, root, children)
      /\ dir.node = Node(tree, root, dir.path)
      /\ PathsOf(pending) \cap PathsOf(children) = {}
  BY <1>1, <1>2 DEF QuietParts, StackIsRight, LooksRight
<1>5. /\ Distinct(children') /\ RightNodes(tree, root, children')
      /\ PathsOf(pending) \cap PathsOf(children') = {}
      /\ Explored(tree, root, C, L \cup {p}, PathsOf(pending) \cup PathsOf(children'))
  <2>1. CASE node \notin Dirs /\ UNCHANGED children
    BY <1>1, <1>2, <1>4, <2>1, ExploredLooked
  <2>2. CASE node \in Dirs /\ children' = Append(children, new)
    <3>1. /\ m \in Nat /\ DOMAIN children = 1..m /\ DOMAIN children' = 1..(m + 1)
          /\ \A k \in 1..m : children'[k] = children[k]
          /\ children'[m + 1] = new
      <4> HIDE DEF new
      <4>1. new \in {new} \cup Directory /\ children \in Seq({new} \cup Directory)
        BY <1>1
      <4> QED
        BY <2>2, <4>1
    <3>2. new.path = p /\ new.node = node
      OBVIOUS
    <3> HIDE DEF m, new
    <3>3. \A k \in 1..(m + 1) : k \in 1..m \/ k = m + 1
      BY <3>1
    <3>4. \A k \in 1..m : k \in 1..(m + 1) /\ k # m + 1
      BY <3>1
    <3>5. m + 1 \in 1..(m + 1)
      BY <3>1
    <3>6. PathsOf(children') = PathsOf(children) \cup {p}
      BY <3>1, <3>2, <3>3, <3>4, <3>5 DEF PathsOf
    <3>7. RightNodes(tree, root, children')
      BY <1>2, <1>4, <3>1, <3>2, <3>3 DEF RightNodes
    <3>8. Distinct(children')
      <4> SUFFICES ASSUME NEW j \in 1..(m + 1), NEW k \in 1..(m + 1), children'[j].path = children'[k].path
                   PROVE  j = k
        BY <3>1 DEF Distinct
      <4>1. \A i \in 1..m : children'[i].path # p
        BY <1>3, <3>1 DEF PathsOf
      <4>2. CASE j \in 1..m /\ k \in 1..m
        BY <1>4, <3>1, <4>2 DEF Distinct
      <4> QED
        BY <3>1, <3>2, <3>3, <4>1, <4>2
    <3>9. /\ Explored(tree, root, C, L \cup {p}, (PathsOf(pending) \cup PathsOf(children)) \cup {p})
      BY <1>1, <1>2, <2>2, ExploredLooked
    <3>10. (PathsOf(pending) \cup PathsOf(children)) \cup {p} = PathsOf(pending) \cup PathsOf(children')
      BY <3>6
    <3>11. PathsOf(pending) \cap PathsOf(children') = {}
      BY <1>3, <1>4, <3>6
    <3> QED
      BY <3>7, <3>8, <3>9, <3>10, <3>11
  <2> QED
    BY <2>1, <2>2
<1>6. LooksRight'
  BY <1>1, <1>2, <1>4, <1>5 DEF LooksRight, Searching
<1>7. StackIsRight'
  BY <1>1, <1>4, <1>5 DEF StackIsRight
<1>8. StartsAtZero'
  BY <1>1, <1>2 DEF QuietParts, StartsAtZero, Collecting
<1>9. PopsRight' /\ ListsRight' /\ WalksRight' /\ ReadsRight' /\ EndsRight'
  BY DEF PopsRight, ListsRight, AtDirectory, WalksRight, ReadsRight, Reading, EndsRight
<1> QED
  BY <1>6, <1>7, <1>8, <1>9 DEF QuietParts

LEMMA QuietStat == ASSUME QuietStepAhead, StatEntry PROVE QuietParts'
<1>1. /\ root \in Dirs /\ World(tree, root, size) /\ pc = "stat"
      /\ UNCHANGED <<pending, dir, opened, read>>
      /\ outcome = "none"
  BY DEF QuietStepAhead, TypeInv, Placed, StatEntry, reading
<1>2. PICK x \in names :
        LET node == tree[dir.node][x]
            path == Append(dir.path, x)
        IN
          /\ names' = names \ {x}
          /\ \/ pc' = "ended" /\ outcome' = "failed"
             \/ /\ node # None /\ IsLink(Kind[node])
                /\ \/ /\ x \in SqlNames \/ LinkTo[node] \in Dirs
                      /\ pc' = "ended" /\ outcome' = "link"
                   \/ /\ ~ (x \in SqlNames \/ LinkTo[node] \in Dirs)
                      /\ UNCHANGED <<pc, children, budget, found>>
             \/ /\ node \in Dirs
                /\ \/ /\ dir.depth + 1 > MaxDepth
                      /\ pc' = "ended" /\ outcome' = "limit"
                   \/ /\ ~ (dir.depth + 1 > MaxDepth)
                      /\ budget' = [budget EXCEPT !.directories = @ + 1]
                      /\ \/ /\ budget'.directories > MaxDirectories
                            /\ pc' = "ended" /\ outcome' = "limit"
                         \/ /\ ~ (budget'.directories > MaxDirectories)
                            /\ children' = Append(children,
                                      [path |-> path, node |-> node, depth |-> dir.depth + 1])
                            /\ UNCHANGED <<pc, found>>
             \/ /\ node \in Files /\ x \in SqlNames
                /\ budget' = [budget EXCEPT !.files = @ + 1, !.bytes = @ + size[node]]
                /\ UNCHANGED children
                /\ \/ /\ size[node] > MaxFileBytes \/ Exceeded(budget')
                      /\ pc' = "ended" /\ outcome' = "limit"
                   \/ /\ ~ (size[node] > MaxFileBytes \/ Exceeded(budget'))
                      /\ found' = found \cup {[path |-> path, node |-> node]}
                      /\ UNCHANGED pc
             \/ /\ node # None /\ ~ IsLink(Kind[node]) /\ node \notin Dirs
                /\ ~ (node \in Files /\ x \in SqlNames)
                /\ UNCHANGED <<pc, children, budget, found>>
  BY DEF StatEntry, Stop, Registers
<1> DEFINE node == tree[dir.node][x]
           p == Append(dir.path, x)
<1>3. PICK C, L : AtEntry(x, p, node, C, L)
  BY <1>1, EntryIsMet
<1> HIDE DEF node, p
<1>4. /\ x \in Names /\ p \in C \ L /\ p \in All(tree, root) /\ node = Node(tree, root, p) /\ p[Len(p)] = x
      /\ Len(p) = dir.depth + 1 /\ p \notin L
      /\ Tally(tree, root, size, C, L, found, budget)
  BY <1>3 DEF AtEntry
<1>5. /\ p \in Sql(tree, root) <=> x \in SqlNames /\ node \in Files
      /\ p \in Below(tree, root) <=> node \in Dirs
      /\ p \in Bad(tree, root) <=> IsLink(Kind[node]) /\ (x \in SqlNames \/ LinkTo[node] \in Dirs)
  BY <1>4 DEF Sql, Below, Bad
<1>6. budget = [directories |-> budget.directories, entries |-> budget.entries,
                files |-> budget.files, bytes |-> budget.bytes]
  BY DEF QuietStepAhead, OrderInv, Control, BudgetTyped
<1>7. names' = names \ {x}
  BY <1>2
<1>8. CASE pc' = "ended" /\ outcome' = "failed"
  BY <1>8, QuietEnds
<1>9. CASE /\ node # None /\ IsLink(Kind[node])
           /\ \/ /\ x \in SqlNames \/ LinkTo[node] \in Dirs
                 /\ pc' = "ended" /\ outcome' = "link"
              \/ /\ ~ (x \in SqlNames \/ LinkTo[node] \in Dirs)
                 /\ UNCHANGED <<pc, children, budget, found>>
  <2>1. CASE (x \in SqlNames \/ LinkTo[node] \in Dirs) /\ pc' = "ended" /\ outcome' = "link"
    <3>1. Bad(tree, root) # {}
      BY <1>5, <1>9, <2>1
    <3> QED
      BY <2>1, <3>1, QuietRefuses
  <2>2. CASE /\ ~ (x \in SqlNames \/ LinkTo[node] \in Dirs)
             /\ UNCHANGED <<pc, children, budget, found>>
    <3>1. p \notin Sql(tree, root) /\ p \notin Below(tree, root) /\ p \notin Bad(tree, root) /\ node \notin Dirs
      BY <1>5, <1>9, <2>2 DEF Dirs, Files, IsLink
    <3>2. Tally(tree, root, size, C, L \cup {p}, found, budget)
      BY <1>4, <3>1, TallyPassed
    <3> QED
      BY <1>1, <1>3, <1>7, <2>2, <3>1, <3>2, QuietGoesOn
  <2> QED
    BY <1>9, <2>1, <2>2
<1>10. CASE /\ node \in Dirs
            /\ \/ /\ dir.depth + 1 > MaxDepth
                  /\ pc' = "ended" /\ outcome' = "limit"
               \/ /\ ~ (dir.depth + 1 > MaxDepth)
                  /\ budget' = [budget EXCEPT !.directories = @ + 1]
                  /\ \/ /\ budget'.directories > MaxDirectories
                        /\ pc' = "ended" /\ outcome' = "limit"
                     \/ /\ ~ (budget'.directories > MaxDirectories)
                        /\ children' = Append(children,
                                  [path |-> p, node |-> node, depth |-> dir.depth + 1])
                        /\ UNCHANGED <<pc, found>>
  <2>1. p \in Below(tree, root) \ L
    BY <1>4, <1>5, <1>10
  <2>2. /\ budget.directories \in Nat
        /\ Len(p) > MaxDepth => Over(tree, root, size)
        /\ budget.directories + 1 > MaxDirectories => Over(tree, root, size)
        /\ \A c : /\ Len(p) <= MaxDepth /\ budget.directories + 1 <= MaxDirectories
                  /\ c.directories = budget.directories + 1
                  /\ c.files = budget.files /\ c.bytes = budget.bytes /\ c.entries = budget.entries
                  => Tally(tree, root, size, C, L \cup {p}, found, c)
    BY <1>4, <2>1, TallyEntered
  <2>3. CASE dir.depth + 1 > MaxDepth /\ pc' = "ended" /\ outcome' = "limit"
    BY <1>4, <2>2, <2>3, QuietRefuses
  <2>4. CASE /\ ~ (dir.depth + 1 > MaxDepth)
             /\ budget' = [budget EXCEPT !.directories = @ + 1]
             /\ \/ /\ budget'.directories > MaxDirectories
                   /\ pc' = "ended" /\ outcome' = "limit"
                \/ /\ ~ (budget'.directories > MaxDirectories)
                   /\ children' = Append(children,
                             [path |-> p, node |-> node, depth |-> dir.depth + 1])
                   /\ UNCHANGED <<pc, found>>
    <3>1. /\ budget'.directories = budget.directories + 1 /\ budget'.files = budget.files
          /\ budget'.bytes = budget.bytes /\ budget'.entries = budget.entries
      BY <1>6, <2>4
    <3>2. CASE budget'.directories > MaxDirectories /\ pc' = "ended" /\ outcome' = "limit"
      BY <2>2, <3>1, <3>2, QuietRefuses
    <3>3. CASE /\ ~ (budget'.directories > MaxDirectories)
               /\ children' = Append(children, [path |-> p, node |-> node, depth |-> dir.depth + 1])
               /\ UNCHANGED <<pc, found>>
      <4>1. Len(p) <= MaxDepth /\ budget.directories + 1 <= MaxDirectories
        <5>1. Len(p) \in Nat /\ ~ (Len(p) > MaxDepth)
          BY <1>4, <2>4 DEF All
        <5>2. budget.directories + 1 \in Nat /\ ~ (budget.directories + 1 > MaxDirectories)
          BY <2>2, <3>1, <3>3
        <5> QED
          BY <5>1, <5>2, LimitsAssumption
      <4>2. Tally(tree, root, size, C, L \cup {p}, found', budget')
        <5>1. found' = found
          BY <3>3
        <5> QED
          BY <2>2, <3>1, <4>1, <5>1
      <4> QED
        BY <1>1, <1>3, <1>7, <1>10, <3>3, <4>2, QuietGoesOn
    <3> QED
      BY <2>4, <3>2, <3>3
  <2> QED
    BY <1>10, <2>3, <2>4
<1>11. CASE /\ node \in Files /\ x \in SqlNames
            /\ budget' = [budget EXCEPT !.files = @ + 1, !.bytes = @ + size[node]]
            /\ UNCHANGED children
            /\ \/ /\ size[node] > MaxFileBytes \/ Exceeded(budget')
                  /\ pc' = "ended" /\ outcome' = "limit"
               \/ /\ ~ (size[node] > MaxFileBytes \/ Exceeded(budget'))
                  /\ found' = found \cup {[path |-> p, node |-> node]}
                  /\ UNCHANGED pc
  <2>1. p \in Sql(tree, root) \ L
    BY <1>4, <1>5, <1>11
  <2>2. /\ budget.files \in Nat /\ budget.bytes \in Nat /\ size[node] \in Nat
        /\ size[node] > MaxFileBytes => Over(tree, root, size)
        /\ budget.files + 1 > MaxFiles => Over(tree, root, size)
        /\ budget.bytes + size[node] > MaxBytes => Over(tree, root, size)
        /\ \A c : /\ size[node] <= MaxFileBytes
                  /\ budget.files + 1 <= MaxFiles /\ budget.bytes + size[node] <= MaxBytes
                  /\ c.files = budget.files + 1 /\ c.bytes = budget.bytes + size[node]
                  /\ c.directories = budget.directories /\ c.entries = budget.entries
                  => Tally(tree, root, size, C, L \cup {p}, found \cup {[path |-> p, node |-> node]}, c)
    BY <1>1, <1>4, <2>1, TallyRegistered
  <2>3. /\ budget'.files = budget.files + 1 /\ budget'.bytes = budget.bytes + size[node]
        /\ budget'.directories = budget.directories /\ budget'.entries = budget.entries
    BY <1>6, <1>11
  <2>4. CASE /\ size[node] > MaxFileBytes \/ Exceeded(budget')
             /\ pc' = "ended" /\ outcome' = "limit"
    <3>1. Over(tree, root, size)
      BY <2>2, <2>3, <2>4 DEF Exceeded
    <3> QED
      BY <2>4, <3>1, QuietRefuses
  <2>5. CASE /\ ~ (size[node] > MaxFileBytes \/ Exceeded(budget'))
             /\ found' = found \cup {[path |-> p, node |-> node]}
             /\ UNCHANGED pc
    <3>1. ~ (size[node] > MaxFileBytes) /\ ~ (budget'.files > MaxFiles) /\ ~ (budget'.bytes > MaxBytes)
      BY <2>5 DEF Exceeded
    <3>2. size[node] <= MaxFileBytes /\ budget.files + 1 <= MaxFiles /\ budget.bytes + size[node] <= MaxBytes
      BY <2>2, <2>3, <3>1, LimitsAssumption
    <3>3. Tally(tree, root, size, C, L \cup {p}, found', budget')
      <4>1. found' = found \cup {[path |-> p, node |-> node]}
        BY <2>5
      <4> QED
        BY <2>2, <2>3, <3>2, <4>1
    <3>4. node \notin Dirs
      BY <1>11 DEF Files, Dirs
    <3> QED
      BY <1>1, <1>3, <1>7, <1>11, <2>5, <3>3, <3>4, QuietGoesOn
  <2> QED
    BY <1>11, <2>4, <2>5
<1>12. CASE /\ node # None /\ ~ IsLink(Kind[node]) /\ node \notin Dirs
            /\ ~ (node \in Files /\ x \in SqlNames)
            /\ UNCHANGED <<pc, children, budget, found>>
  <2>1. p \notin Sql(tree, root) /\ p \notin Below(tree, root) /\ p \notin Bad(tree, root)
    BY <1>5, <1>12
  <2>2. Tally(tree, root, size, C, L \cup {p}, found, budget)
    BY <1>4, <2>1, TallyPassed
  <2> QED
    BY <1>1, <1>3, <1>7, <1>12, <2>2, QuietGoesOn
<1> QED
  BY <1>2, <1>8, <1>9, <1>10, <1>11, <1>12 DEF node, p

(* The next component of a walk leads on to where the path leads. *)
LeadsOn(gone, next) ==
  /\ gone \in Paths /\ walk.entry.path = gone \o Tail(walk.rest)
  /\ next = tree[walk.at][Head(walk.rest)] /\ next = Node(tree, root, gone)
  /\ next # None
  /\ Final => next = walk.entry.node /\ Kind[next] = Expected
  /\ ~ Final => next \in Dirs /\ Expected = "dir" /\ Tail(walk.rest) # <<>>

LEMMA WalkLeadsOn ==
  ASSUME QuietStepAhead, pc \in {"walk", "open"}
  PROVE  \E gone, next : LeadsOn(gone, next)
<1> DEFINE rest == walk.rest
           h == Head(rest)
           t == Tail(rest)
<1>1. /\ root \in Dirs /\ World(tree, root, size) /\ QuietParts
      /\ walk.at \in Dirs /\ rest \in Paths /\ rest # <<>>
      /\ walk.for \in {"directory", "regular"}
  BY DEF QuietStepAhead, ScanInv, WalkIsAfterFound, TypeInv, Placed, Paths
<1>2. /\ walk.entry.path \in Paths
      /\ walk.for = "regular" => walk.entry.node \in Files
      /\ walk.for = "directory" => walk.entry.node \in Dirs
      /\ walk.entry.node = Node(tree, root, walk.entry.path)
  <2>1. walk.entry.node = Node(tree, root, walk.entry.path)
    BY <1>1 DEF QuietParts, WalksRight
  <2>2. CASE walk.for = "regular"
    <3>1. walk.entry \in Found
      BY <2>2 DEF QuietStepAhead, ScanInv, Typed, WalkIsAfterFound
    <3> QED
      BY <2>1, <2>2, <3>1 DEF Found
  <2>3. CASE walk.for = "directory"
    <3>1. walk.entry.path = dir.path /\ dir.path \in Paths
      BY <1>1, <2>3 DEF QuietParts, WalksRight, QuietStepAhead, ScanInv, Typed, DirTyped
    <3>2. dir.node \in Dirs /\ dir.node = Node(tree, root, dir.path)
      BY <1>1, <2>3 DEF QuietParts, ListsRight, AtDirectory
    <3> QED
      BY <2>1, <2>3, <3>1, <3>2
  <2> QED
    BY <1>1, <2>2, <2>3
<1>3. PICK done \in Paths : walk.entry.path = done \o rest /\ walk.at = Node(tree, root, done)
  BY <1>1 DEF QuietParts, WalksRight, OnTheWay
<1> HIDE DEF rest
<1>4. h \in Names /\ t \in Paths /\ Len(t) = Len(rest) - 1 /\ Len(rest) \in Nat
  BY <1>1 DEF Paths
<1> DEFINE gone == Append(done, h)
           next == tree[walk.at][h]
<1>5. gone \in Paths /\ done \o rest = gone \o t
  BY <1>1, <1>4 DEF Paths
<1>6. next = Node(tree, root, gone)
  BY <1>1, <1>3, <1>4, ChildNode
<1>7. None \notin Nodes /\ Node(tree, root, walk.entry.path) # None
  <2>1. None \notin Nodes
    BY NodesAssumption
  <2> QED
    BY <1>1, <1>2, <2>1 DEF Dirs, Files
<1> HIDE DEF gone, next, h, t
<1>8. walk.entry.path = gone \o t
  BY <1>3, <1>5
<1>9. CASE Final
  <2>1. Len(t) = 0
    BY <1>4, <1>9 DEF Final, rest
  <2>2. t = <<>> /\ gone \o <<>> = gone
    BY <1>4, <1>5, <2>1 DEF Paths
  <2>3. next = walk.entry.node
    BY <1>2, <1>6, <1>8, <2>2
  <2>4. Kind[next] = Expected
    BY <1>1, <1>2, <1>9, <2>3 DEF Expected, Files, Dirs
  <2>5. next # None
    BY <1>2, <1>7, <2>3
  <2>6. LeadsOn(gone, next)
    BY <1>5, <1>6, <1>8, <1>9, <2>3, <2>4, <2>5 DEF LeadsOn, h, t, rest, next
  <2> QED
    BY <2>6
<1>10. CASE ~ Final
  <2>1. t # <<>>
    <3>1. Len(rest) # 0
      BY <1>1 DEF Paths
    <3>2. Len(rest) # 1
      BY <1>10 DEF Final, rest
    <3>3. Len(t) # 0
      BY <1>4, <3>1, <3>2
    <3> QED
      BY <3>3
  <2>2. next \in Dirs
    BY <1>1, <1>4, <1>5, <1>6, <1>7, <1>8, <2>1, NodeAbove
  <2>3. next # None
    BY <1>7, <2>2 DEF Dirs
  <2>4. Expected = "dir"
    BY <1>10 DEF Expected
  <2>5. LeadsOn(gone, next)
    BY <1>5, <1>6, <1>8, <1>10, <2>1, <2>2, <2>3, <2>4 DEF LeadsOn, h, t, rest, next
  <2> QED
    BY <2>5
<1> QED
  BY <1>9, <1>10

LEMMA QuietWalkStat == ASSUME QuietStepAhead, WalkStat PROVE QuietParts'
<1> DEFINE node == tree[walk.at][Head(walk.rest)]
<1>1. /\ pc = "walk" /\ QuietParts /\ root \in Dirs
      /\ tree' = tree /\ root' = root /\ size' = size
      /\ UNCHANGED <<pending, dir, names, children, budget, found, opened, read, scanned>>
      /\ \/ (node = None \/ (Final /\ Changed(node))) /\ pc' = "ended"
         \/ walk' = [walk EXCEPT !.checked = node] /\ pc' = "open"
  BY DEF QuietStepAhead, WalkStat, Stop, listing, reading
<1>2. PICK gone, next : LeadsOn(gone, next)
  BY <1>1, WalkLeadsOn
<1>3. ~ (node = None \/ (Final /\ Changed(node)))
  BY <1>2 DEF LeadsOn, Changed
<1>4. walk' = [walk EXCEPT !.checked = node] /\ pc' = "open"
  BY <1>1, <1>3 DEF WalkStat
<1>5. walk = [for |-> walk.for, entry |-> walk.entry, at |-> walk.at, rest |-> walk.rest,
              checked |-> walk.checked]
  BY DEF QuietStepAhead, ScanInv, Typed, WalkTyped
<1> HIDE DEF node
<1>6. /\ walk'.for = walk.for /\ walk'.entry = walk.entry /\ walk'.at = walk.at
      /\ walk'.rest = walk.rest /\ walk'.checked = node
  BY <1>4, <1>5
<1>7. WalksRight'
  <2>1. OnTheWay(tree, root, walk) /\ walk.entry.node = Node(tree, root, walk.entry.path)
        /\ (walk.for = "directory" => walk.entry.path = dir.path)
    BY <1>1 DEF QuietParts, WalksRight
  <2>2. OnTheWay(tree, root, walk')
    BY <1>6, <2>1 DEF OnTheWay
  <2> QED
    BY <1>1, <1>4, <1>6, <2>1, <2>2 DEF WalksRight, node
<1>8. ListsRight'
  BY <1>1, <1>4, <1>6 DEF QuietParts, ListsRight, AtDirectory, Searching
<1>9. ReadsRight'
  BY <1>1, <1>4, <1>6 DEF QuietParts, ReadsRight, Reading
<1>10. StartsAtZero' /\ StackIsRight'
  BY <1>1, <1>4, <1>6 DEF QuietParts, StartsAtZero, Collecting, StackIsRight
<1>11. PopsRight' /\ LooksRight' /\ EndsRight'
  BY <1>4 DEF PopsRight, LooksRight, EndsRight
<1> QED
  BY <1>7, <1>8, <1>9, <1>10, <1>11 DEF QuietParts

(* The file that is fetched is one of the tree's .sql files and not read yet: *)
(* what it adds stays within the limits.                                      *)
LEMMA FetchedFits ==
  ASSUME QuietStepAhead, Reading, Fetching
  PROVE  /\ walk.entry.node \in Files /\ size[walk.entry.node] \in Nat /\ read \in Nat
         /\ size[walk.entry.node] <= MaxFileBytes
         /\ read + size[walk.entry.node] <= MaxBytes
         /\ walk.entry.path \in Sql(tree, root)
         /\ Bytes(tree, root, size, PathsOf(scanned) \cup {walk.entry.path})
              = read + size[walk.entry.node]
<1> DEFINE p == walk.entry.path
           D == PathsOf(scanned)
           n == size[walk.entry.node]
<1>1. /\ root \in Dirs /\ World(tree, root, size) /\ QuietParts /\ read \in Nat
  BY DEF QuietStepAhead, ScanInv, Typed
<1>2. walk.entry \in found /\ walk.entry \in Unread
  BY DEF QuietStepAhead, OrderInv, Control, FetchesTheFirst, Unread
<1>3. /\ Complete(tree, root, size, found)
      /\ D \subseteq Sql(tree, root) /\ read = Bytes(tree, root, size, D)
  BY <1>1 DEF QuietParts, ReadsRight
<1>4. p \in Sql(tree, root) /\ walk.entry.node = Node(tree, root, p)
  BY <1>2, <1>3 DEF Complete, Records
<1>5. p \notin D
  BY <1>2 DEF Unread, PathsOf
<1>6. walk.entry.node \in Files /\ n \in Nat
  BY <1>1, <1>4 DEF Sql, World
<1> HIDE DEF D, p
<1>7. ~ (n > MaxFileBytes) /\ ~ (Bytes(tree, root, size, Sql(tree, root)) > MaxBytes)
  BY <1>3, <1>4 DEF Complete, Over
<1>8. D \cup {p} \in SUBSET Sql(tree, root) /\ D \in SUBSET Sql(tree, root)
      /\ p \in Sql(tree, root) \ D /\ Sql(tree, root) \in SUBSET Sql(tree, root)
  BY <1>3, <1>4, <1>5
<1>9. /\ Bytes(tree, root, size, D \cup {p}) = read + n
      /\ Bytes(tree, root, size, D \cup {p}) <= Bytes(tree, root, size, Sql(tree, root))
      /\ Bytes(tree, root, size, Sql(tree, root)) \in Nat
  BY <1>1, <1>3, <1>4, <1>8, BytesAddUp
<1> HIDE DEF n
<1>10. n <= MaxFileBytes /\ read + n <= MaxBytes
  BY <1>1, <1>6, <1>7, <1>9, LimitsAssumption
<1> QED
  BY <1>1, <1>4, <1>6, <1>9, <1>10 DEF D, p, n

LEMMA QuietWalkOpen == ASSUME QuietStepAhead, WalkOpen PROVE QuietParts'
<1> DEFINE node == OpenedNode
<1>1. /\ pc = "open" /\ QuietParts /\ root \in Dirs /\ read \in Nat
      /\ tree' = tree /\ root' = root /\ size' = size
      /\ UNCHANGED <<pending, names, children, budget, found, read, scanned>>
      /\ walk = [for |-> walk.for, entry |-> walk.entry, at |-> walk.at, rest |-> walk.rest,
                 checked |-> walk.checked]
      /\ walk.for \in {"directory", "regular"}
  BY DEF QuietStepAhead, ScanInv, Typed, WalkTyped, WalkIsAfterFound, WalkOpen
<1>2. PICK gone, next : LeadsOn(gone, next)
  BY <1>1, WalkLeadsOn
<1>3. walk.checked = next
  BY <1>1, <1>2 DEF QuietParts, WalksRight, LeadsOn
<1>4. node = next /\ Verified(node)
  <2>1. Kind[next] = Expected /\ Kind[next] \in {"file", "dir"}
    BY <1>2 DEF LeadsOn, Expected, Dirs
  <2>2. node = next
    BY <1>2, <2>1 DEF OpenedNode, LeadsOn, IsLink
  <2> QED
    BY <1>2, <1>3, <2>1, <2>2 DEF Verified, Changed, LeadsOn
<1> HIDE DEF node
<1>5. \/ /\ ~ Final
         /\ walk' = [walk EXCEPT !.at = node, !.rest = Tail(@), !.checked = None]
         /\ pc' = "walk" /\ UNCHANGED <<opened, outcome, dir>>
      \/ /\ Final /\ walk.for = "directory"
         /\ dir' = [dir EXCEPT !.node = node]
         /\ pc' = "list" /\ UNCHANGED <<walk, opened, outcome>>
      \/ /\ Final /\ walk.for = "regular"
         /\ walk' = [walk EXCEPT !.at = node]
         /\ Measures(node) /\ UNCHANGED dir
  BY <1>4 DEF WalkOpen, node
<1>6. CASE /\ ~ Final
           /\ walk' = [walk EXCEPT !.at = node, !.rest = Tail(@), !.checked = None]
           /\ pc' = "walk" /\ UNCHANGED <<opened, outcome, dir>>
  <2>1. /\ walk'.for = walk.for /\ walk'.entry = walk.entry /\ walk'.at = node
        /\ walk'.rest = Tail(walk.rest)
    BY <1>1, <1>6
  <2>2. OnTheWay(tree, root, walk')
    BY <1>2, <1>4, <2>1 DEF OnTheWay, LeadsOn
  <2>3. WalksRight'
    BY <1>1, <1>6, <2>1, <2>2 DEF QuietParts, WalksRight
  <2>4. ListsRight'
    BY <1>1, <1>6, <2>1 DEF QuietParts, ListsRight, AtDirectory, Searching
  <2>5. ReadsRight'
    BY <1>1, <1>6, <2>1 DEF QuietParts, ReadsRight, Reading
  <2>6. StartsAtZero' /\ StackIsRight'
    BY <1>1, <1>6, <2>1 DEF QuietParts, StartsAtZero, Collecting, StackIsRight
  <2>7. PopsRight' /\ LooksRight' /\ EndsRight'
    BY <1>6 DEF PopsRight, LooksRight, EndsRight
  <2> QED
    BY <2>3, <2>4, <2>5, <2>6, <2>7 DEF QuietParts
<1>7. CASE /\ Final /\ walk.for = "directory"
           /\ dir' = [dir EXCEPT !.node = node]
           /\ pc' = "list" /\ UNCHANGED <<walk, opened, outcome>>
  <2>1. /\ dir.node \in Dirs /\ dir.node = Node(tree, root, dir.path)
        /\ dir.path \notin PathsOf(pending)
        /\ \E C : Searching(C, C, PathsOf(pending) \cup {dir.path})
    BY <1>1, <1>7 DEF QuietParts, ListsRight, AtDirectory
  <2>2. node = dir.node
    <3>1. node = walk.entry.node
      BY <1>2, <1>4, <1>7 DEF LeadsOn
    <3>2. walk.entry.node = Node(tree, root, dir.path)
      BY <1>1, <1>7 DEF QuietParts, WalksRight
    <3> QED
      BY <2>1, <3>1, <3>2
  <2>3. dir' = dir
    <3>1. dir = [path |-> dir.path, node |-> dir.node, depth |-> dir.depth]
      BY DEF QuietStepAhead, ScanInv, Typed, DirTyped
    <3> QED
      BY <1>7, <2>2, <3>1
  <2>4. ListsRight'
    BY <1>1, <1>7, <2>1, <2>3 DEF ListsRight, Searching
  <2>5. StartsAtZero' /\ StackIsRight'
    BY <1>1, <1>7 DEF QuietParts, StartsAtZero, Collecting, StackIsRight
  <2>6. PopsRight' /\ LooksRight' /\ WalksRight' /\ ReadsRight' /\ EndsRight'
    BY <1>7 DEF PopsRight, LooksRight, WalksRight, ReadsRight, Reading, EndsRight
  <2> QED
    BY <2>4, <2>5, <2>6 DEF QuietParts
<1>8. CASE /\ Final /\ walk.for = "regular"
           /\ walk' = [walk EXCEPT !.at = node]
           /\ Measures(node) /\ UNCHANGED dir
  <2>1. Reading /\ Fetching
    BY <1>1, <1>8 DEF Reading, Fetching
  <2>2. node = walk.entry.node
    BY <1>2, <1>4, <1>8 DEF LeadsOn
  <2>3. opened = read
    BY <1>1, <2>1 DEF QuietParts, ReadsRight
  <2> DEFINE n == size[node]
  <2>4. n \in Nat /\ n <= MaxFileBytes /\ read + n <= MaxBytes
    BY <2>1, <2>2, FetchedFits
  <2>5. opened' = read + n /\ pc' = "read"
    <3>1. opened' = read + n
      BY <1>8, <2>3 DEF Measures
    <3> HIDE DEF n
    <3>2. ~ (n > MaxFileBytes \/ opened' > MaxBytes)
      BY <1>1, <2>4, <3>1, LimitsAssumption
    <3> QED
      BY <1>8, <3>1, <3>2 DEF Measures, n
  <2>6. walk'.at = node
    BY <1>1, <1>8
  <2>7. ReadsRight'
    <3>1. /\ Complete(tree, root, size, found)
          /\ PathsOf(scanned) \subseteq Sql(tree, root)
          /\ read = Bytes(tree, root, size, PathsOf(scanned))
      BY <1>1, <2>1 DEF QuietParts, ReadsRight
    <3> QED
      BY <1>1, <2>5, <2>6, <3>1 DEF ReadsRight
  <2>8. StackIsRight'
    BY <1>1, <2>5 DEF QuietParts, StackIsRight
  <2>9. PopsRight' /\ ListsRight' /\ LooksRight' /\ WalksRight' /\ StartsAtZero' /\ EndsRight'
    BY <2>5 DEF PopsRight, ListsRight, AtDirectory, LooksRight, WalksRight, StartsAtZero,
        Collecting, EndsRight
  <2> QED
    BY <2>7, <2>8, <2>9 DEF QuietParts
<1> QED
  BY <1>5, <1>6, <1>7, <1>8

(* The loop over the found files. *)
LEMMA QuietNext == ASSUME QuietStepAhead, NextFile PROVE QuietParts'
<1>1. /\ root \in Dirs /\ World(tree, root, size) /\ QuietParts /\ found \subseteq Found
      /\ tree' = tree /\ root' = root /\ size' = size /\ pc = "next"
      /\ UNCHANGED <<pending, children, found, opened, read, scanned>>
      /\ \/ Unread = {} /\ pc' = "ended" /\ outcome' = "done"
         \/ \E f \in Unread :
              /\ walk' = [for |-> "regular", entry |-> f, at |-> root, rest |-> f.path,
                          checked |-> None]
              /\ pc' = "walk"
  BY DEF QuietStepAhead, ScanInv, Typed, NextFile, Stop, listing, reading
<1>2. /\ Complete(tree, root, size, found)
      /\ PathsOf(scanned) \subseteq Sql(tree, root)
      /\ read = Bytes(tree, root, size, PathsOf(scanned)) /\ opened = read
  BY <1>1 DEF QuietParts, ReadsRight, Reading
<1>3. CASE Unread = {} /\ pc' = "ended" /\ outcome' = "done"
  <2>1. Sql(tree, root) \subseteq PathsOf(scanned)
    <3> SUFFICES ASSUME NEW p \in Sql(tree, root) PROVE p \in PathsOf(scanned)
      OBVIOUS
    <3> DEFINE f == [path |-> p, node |-> Node(tree, root, p)]
    <3>1. f \in found /\ f.path = p
      BY <1>2 DEF Complete, Records
    <3> HIDE DEF f
    <3>2. f \notin Unread
      BY <1>3
    <3> QED
      BY <3>1, <3>2 DEF Unread, PathsOf
  <2>2. PathsOf(scanned) = Sql(tree, root)
    BY <1>2, <2>1
  <2>3. EndsRight'
    BY <1>1, <1>2, <1>3, <2>2 DEF EndsRight, Complete
  <2>4. StackIsRight' /\ PopsRight' /\ ListsRight' /\ LooksRight' /\ WalksRight' /\ ReadsRight' /\ StartsAtZero'
    BY <1>3 DEF StackIsRight, PopsRight, ListsRight, AtDirectory, LooksRight, WalksRight,
        ReadsRight, Reading, StartsAtZero, Collecting
  <2> QED
    BY <2>3, <2>4 DEF QuietParts
<1>4. CASE \E f \in Unread :
              /\ walk' = [for |-> "regular", entry |-> f, at |-> root, rest |-> f.path,
                          checked |-> None]
              /\ pc' = "walk"
  <2>1. PICK f \in Unread :
          /\ walk' = [for |-> "regular", entry |-> f, at |-> root, rest |-> f.path, checked |-> None]
          /\ pc' = "walk"
    BY <1>4
  <2>2. f \in found /\ f.path \in Paths /\ f.node = Node(tree, root, f.path)
    <3>1. f \in found
      BY DEF Unread
    <3> QED
      BY <1>1, <1>2, <3>1 DEF Found, Complete, Records
  <2>3. /\ walk'.for = "regular" /\ walk'.entry = f /\ walk'.at = root /\ walk'.rest = f.path
    BY <2>1
  <2>4. WalksRight'
    <3>1. <<>> \in Paths /\ f.path = <<>> \o f.path /\ root = Node(tree, root, <<>>)
      BY <1>1, <2>2, RootNode DEF Paths
    <3>2. OnTheWay(tree, root, walk')
      BY <2>3, <3>1 DEF OnTheWay
    <3> QED
      BY <1>1, <2>1, <2>2, <2>3, <3>2 DEF WalksRight
  <2>5. ReadsRight'
    BY <1>1, <1>2, <2>1 DEF ReadsRight
  <2>6. StackIsRight'
    BY <1>1, <2>1 DEF QuietParts, StackIsRight
  <2>7. PopsRight' /\ ListsRight' /\ LooksRight' /\ StartsAtZero' /\ EndsRight'
    BY <2>1, <2>3 DEF PopsRight, ListsRight, AtDirectory, LooksRight, StartsAtZero, Collecting,
        EndsRight
  <2> QED
    BY <2>4, <2>5, <2>6, <2>7 DEF QuietParts
<1> QED
  BY <1>1, <1>3, <1>4

LEMMA QuietRead == ASSUME QuietStepAhead, ReadFile PROVE QuietParts'
<1> DEFINE n == size[walk.at]
           record == [path |-> walk.entry.path, node |-> walk.at, bytes |-> n]
<1>1. /\ root \in Dirs /\ World(tree, root, size) /\ QuietParts /\ pc = "read"
      /\ tree' = tree /\ root' = root /\ size' = size
      /\ UNCHANGED <<pending, children, found, opened>>
      /\ scanned \in Seq(Scanned)
  BY DEF QuietStepAhead, ScanInv, Typed, ReadFile, listing
<1>2. walk.at = walk.entry.node
  BY <1>1 DEF QuietStepAhead, OrderInv, Control, OpensIt
<1>3. /\ n \in Nat /\ read \in Nat
      /\ n <= MaxFileBytes /\ read + n <= MaxBytes
      /\ walk.entry.path \in Sql(tree, root)
      /\ Bytes(tree, root, size, PathsOf(scanned) \cup {walk.entry.path}) = read + n
  <2>1. Reading /\ Fetching
    BY <1>1 DEF Reading, Fetching
  <2> QED
    BY <1>2, <2>1, FetchedFits
<1> HIDE DEF n
<1>4. ~ (n > ByteLimit)
  BY <1>3, LimitsAssumption DEF ByteLimit
<1>5. read' = read + n /\ scanned' = Append(scanned, record) /\ pc' = "yield"
  BY <1>4 DEF ReadFile, n
<1>6. PathsOf(scanned') = PathsOf(scanned) \cup {walk.entry.path}
  <2> DEFINE m == Len(scanned)
  <2>1. /\ m \in Nat /\ DOMAIN scanned = 1..m /\ DOMAIN scanned' = 1..(m + 1)
        /\ \A k \in 1..m : scanned'[k] = scanned[k]
        /\ scanned'[m + 1] = record
    <3> HIDE DEF record
    <3>1. record \in {record} \cup Scanned /\ scanned \in Seq({record} \cup Scanned)
      BY <1>1
    <3> QED
      BY <1>5, <3>1
  <2>2. record.path = walk.entry.path
    OBVIOUS
  <2> HIDE DEF m, record
  <2>3. \A k \in 1..(m + 1) : k \in 1..m \/ k = m + 1
    BY <2>1
  <2>4. m + 1 \in 1..(m + 1) /\ \A k \in 1..m : k \in 1..(m + 1)
    BY <2>1
  <2> QED
    BY <2>1, <2>2, <2>3, <2>4 DEF PathsOf
<1>7. /\ Complete(tree, root, size, found)
      /\ PathsOf(scanned) \subseteq Sql(tree, root)
      /\ opened = read + n
  BY <1>1 DEF QuietParts, ReadsRight, Reading, n
<1>8. PathsOf(scanned') \subseteq Sql(tree, root)
  BY <1>3, <1>6, <1>7
<1>9. read' = Bytes(tree, root, size, PathsOf(scanned')) /\ opened' = read'
  BY <1>1, <1>3, <1>5, <1>6, <1>7
<1>10. ReadsRight'
  BY <1>1, <1>5, <1>7, <1>8, <1>9 DEF ReadsRight
<1>11. StackIsRight'
  BY <1>1, <1>5 DEF QuietParts, StackIsRight
<1>12. PopsRight' /\ ListsRight' /\ LooksRight' /\ WalksRight' /\ StartsAtZero' /\ EndsRight'
  BY <1>5 DEF PopsRight, ListsRight, AtDirectory, LooksRight, WalksRight, StartsAtZero,
      Collecting, EndsRight
<1> QED
  BY <1>10, <1>11, <1>12 DEF QuietParts

LEMMA QuietResume == ASSUME QuietStepAhead, Resume PROVE QuietParts'
<1>1. /\ QuietParts /\ pc = "yield" /\ pc' = "next"
      /\ tree' = tree /\ root' = root /\ size' = size
      /\ UNCHANGED <<pending, children, found, opened, read, scanned>>
  BY DEF QuietStepAhead, Resume, listing, reading
<1>2. ReadsRight'
  BY <1>1 DEF QuietParts, ReadsRight, Reading
<1>3. StackIsRight'
  BY <1>1 DEF QuietParts, StackIsRight
<1>4. PopsRight' /\ ListsRight' /\ LooksRight' /\ WalksRight' /\ StartsAtZero' /\ EndsRight'
  BY <1>1 DEF PopsRight, ListsRight, AtDirectory, LooksRight, WalksRight, StartsAtZero,
      Collecting, EndsRight
<1> QED
  BY <1>2, <1>3, <1>4 DEF QuietParts

LEMMA QuietStutter == ASSUME QuietStepAhead, UNCHANGED vars PROVE QuietParts'
<1>1. /\ QuietParts /\ UNCHANGED <<tree, size, root, pc, pending, dir, names, children, budget, found>>
      /\ UNCHANGED <<walk, opened, read, scanned, outcome>>
  BY DEF QuietStepAhead, vars, fs, listing, reading
<1>2. StackIsRight' /\ PopsRight' /\ ListsRight' /\ LooksRight'
  BY <1>1 DEF QuietParts, StackIsRight, PopsRight, ListsRight, AtDirectory, LooksRight, Searching
<1>3. WalksRight' /\ ReadsRight' /\ StartsAtZero' /\ EndsRight'
  BY <1>1 DEF QuietParts, WalksRight, ReadsRight, Reading, StartsAtZero, Collecting, EndsRight
<1> QED
  BY <1>2, <1>3 DEF QuietParts

(* The invariant holds at the start, and every step keeps it. *)
LEMMA QuietInit == Init => QuietInv
<1> SUFFICES ASSUME Init PROVE QuietInv
  OBVIOUS
<1>1. changes \in Nat
  BY DEF Init
<1>2. ASSUME Quiet PROVE QuietParts
  <2> DEFINE top == [path |-> <<>>, node |-> root, depth |-> 0]
  <2>1. /\ root \in Dirs /\ pc = "pop" /\ pending = <<top>> /\ children = <<>>
        /\ found = {} /\ read = 0 /\ opened = 0
        /\ budget = [directories |-> 1, entries |-> 0, files |-> 0, bytes |-> 0]
    BY <1>2 DEF Init, Quiet
  <2>2. World(tree, root, size)
    BY <2>1, TreesAssumption, LimitsAssumption DEF Init, World
  <2>3. /\ budget.directories = 1 /\ budget.entries = 0 /\ budget.files = 0 /\ budget.bytes = 0
    BY <2>1
  <2>4. Explored(tree, root, {}, {}, {<<>>}) /\ Tally(tree, root, size, {}, {}, found, budget)
    BY <2>1, <2>2, <2>3, ExploredFirst, TallyFirst
  <2>5. /\ DOMAIN pending = {1} /\ pending[1] = top /\ top.path = <<>> /\ top.node = root
    BY <2>1
  <2>6. Node(tree, root, <<>>) = root
    BY <2>2, RootNode
  <2> HIDE DEF top
  <2>7. PathsOf(pending) = {<<>>}
    BY <2>5 DEF PathsOf
  <2>8. PopsRight
    BY <2>4, <2>7 DEF PopsRight, Searching
  <2>9. StackIsRight
    BY <2>1, <2>5, <2>6 DEF StackIsRight, Distinct, RightNodes
  <2>10. ListsRight /\ LooksRight /\ WalksRight /\ ReadsRight /\ StartsAtZero /\ EndsRight
    BY <2>1 DEF ListsRight, AtDirectory, LooksRight, WalksRight, ReadsRight, Reading,
        StartsAtZero, Collecting, EndsRight
  <2> QED
    BY <2>8, <2>9, <2>10 DEF QuietParts
<1> QED
  BY <1>1, <1>2 DEF QuietInv

LEMMA QuietStep ==
  ASSUME ScanInv, OrderInv, TypeInv, QuietInv, [Next]_vars
  PROVE  QuietInv'
<1>1. CASE Interfere
  <2>1. changes \in Nat /\ changes' = changes + 1
    BY <1>1 DEF QuietInv, Interfere, Move, Remove, Create, Resize, Change
  <2>2. changes' \in Nat /\ changes' # 0
    BY <2>1
  <2> QED
    BY <2>2 DEF QuietInv, Quiet
<1>2. CASE Scan \/ UNCHANGED vars
  <2>1. UNCHANGED fs
    BY <1>2 DEF Scan, Collect, ReadOne, CallFails, PopDirectory, ListDirectory, StatEntry,
        EndDirectory,
                NothingFound, NextFile, WalkStat, WalkOpen, DirectFile, ReadFile, Resume, Close, vars
  <2>2. tree' = tree /\ root' = root /\ size' = size /\ changes' = changes
    BY <2>1 DEF fs
  <2> SUFFICES ASSUME root \in Dirs, QuietParts PROVE QuietParts'
    BY <2>2 DEF QuietInv, Quiet
  <2>3. QuietStepAhead
    <3>1. World(tree, root, size)
      BY DEF World, ScanInv, Typed, TypeInv, TreeTyped
    <3> QED
      BY <2>2, <3>1 DEF QuietStepAhead
  <2>4. CASE CallFails \/ Close \/ DirectFile
    <3>1. ~ DirectFile
      BY DEF DirectFile, TypeInv, RootIsAbove, Dirs, Files
    <3>2. pc' = "ended" /\ outcome' \in {"failed", "closed"}
      BY <2>4, <3>1 DEF CallFails, Close, Stop
    <3> QED
      BY <3>2, QuietEnds
  <2> QED
    BY <1>2, <2>3, <2>4, QuietPop, QuietList, QuietStat, QuietEnd, QuietNothing, QuietNext,
       QuietWalkStat, QuietWalkOpen, QuietRead, QuietResume, QuietStutter
    DEF Scan, Collect, ReadOne
<1> QED
  BY <1>1, <1>2 DEF Next, Finished

(* For every tree and all limits: when    no other process changes anything  *)
(* during the scan, one that ends normally has read all the .sql files of   *)
(* the tree, in which there is no forbidden link and no limit exceeded; and *)
(* a scan that refuses the tree has that reason in it. *)
THEOREM QuietScansAreExact == Spec => []QuietScanIsExact
<1>1. ScanInv /\ TypeInv /\ QuietInv => QuietScanIsExact
  <2> SUFFICES ASSUME ScanInv, TypeInv, QuietInv, changes = 0, root \in Dirs
               PROVE  /\ outcome = "done" => /\ {scanned[k].path : k \in DOMAIN scanned} = SqlFiles
                                             /\ BadLinks = {} /\ ~ OverLimit
                      /\ outcome = "link" => BadLinks # {}
                      /\ outcome = "limit" => OverLimit
                      /\ outcome = "no input" => SqlFiles = {}
                      /\ outcome # "changed"
    BY DEF QuietScanIsExact
  <2>1. World(tree, root, size)
    BY DEF World, ScanInv, Typed, TypeInv, TreeTyped
  <2>2. EndsRight /\ (pc # "ended" => outcome = "none")
    BY DEF QuietInv, Quiet, QuietParts, TypeInv, Placed
  <2> QED
    BY <2>1, <2>2, SameSets, SameLimits DEF EndsRight, PathsOf
<1>2. ScanInv /\ OrderInv /\ TypeInv /\ QuietInv /\ [Next]_vars => QuietInv'
  BY QuietStep
<1> QED
  BY <1>1, <1>2, QuietInit, ScanInvariant, OrderInvariant, TypeInductive, PTL DEF Spec
=============================================================================
