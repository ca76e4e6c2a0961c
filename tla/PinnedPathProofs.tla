-------------------------- MODULE PinnedPathProofs --------------------------
(***************************************************************************)
(* For every file system, every path and any number of changes by other    *)
(* processes: open_pinned_path opens what it looked at, component by       *)
(* component, and follows only the links of root; and if nobody else       *)
(* changes anything it opens exactly the paths it should.                  *)
(***************************************************************************)
EXTENDS PinnedPath, RecursiveFunctions, TLAPS

(* A link that passed the check is still there when it is opened: nobody    *)
(* else can write to its directory. *)
LinkStays ==
  pc = "open" /\ checked \in Links => Trusted(checked) /\ Entry = checked

(* The walk stands where the component opened last has led. *)
AtTheEnd == at = IF trail = <<>> THEN Root ELSE trail[Len(trail)].node

PinInv == TypeOK /\ LinkStays /\ AtTheEnd /\ NeverDiverted

USE DEF Dirs, Files, Links

-----------------------------------------------------------------------------
LEMMA PinInit == Init => PinInv
  BY SMTT(30), NodesAssumption, TreesAssumption, BoundsAssumption
     DEF Init, PinInv, TypeOK, LinkStays, AtTheEnd, NeverDiverted, Callers, Left, Step

(* The tests before an open lead to "open" with the entry, or to the end. *)
LEMMA InspectsResult ==
  ASSUME TypeOK, Left, Inspects(Entry), Entry # None
  PROVE  \/ /\ pc' = "open" /\ checked' = Entry /\ Entry \in Nodes
            /\ Entry \in Links => Trusted(Entry)
         \/ pc' = "ended" /\ checked' = checked
<1>1. Entry \in Nodes
  <2>1. path[i] \in Names
    BY DEF TypeOK, Left
  <2> QED
    BY <2>1 DEF TypeOK, Entry
<1> QED
  BY <1>1 DEF Inspects, Raise

(* Steps that look, or end the walk, and open nothing. *)
LEMMA LookingStep ==
  ASSUME PinInv, UNCHANGED <<fs, request, i, at, trail>>, faults' \in 0..MaxFaults,
         \/ /\ Left /\ pc' = "open" /\ checked' = Entry /\ Entry \in Nodes
            /\ Entry \in Links => Trusted(Entry)
         \/ pc' \in {"mkdir", "ended"} /\ checked' = checked /\ (pc' = "mkdir" => Left)
  PROVE  PinInv'
<1>1. TypeOK'
  BY DEF PinInv, TypeOK, fs, request, Left, Step
<1>2. LinkStays'
  BY DEF LinkStays, Trusted, Entry, fs, request
<1>3. AtTheEnd' /\ NeverDiverted'
  BY DEF PinInv, AtTheEnd, NeverDiverted
<1> QED
  BY <1>1, <1>2, <1>3 DEF PinInv

LEMMA MakingStep ==
  ASSUME PinInv, MakeDirectory
  PROVE  PinInv'
<1>1. path[i] \in Names /\ at \in Dirs /\ Left
  BY DEF PinInv, TypeOK, MakeDirectory, Left
<1>2. tree' \in [Dirs -> [Names -> Nodes \cup {None}]]
  <2>1. CASE Entry # None
    BY <2>1 DEF MakeDirectory, PinInv, TypeOK
  <2>2. CASE Entry = None
    <3>1. PICK d \in Unused : tree' = [tree EXCEPT ![at][path[i]] = d]
      BY <2>2 DEF MakeDirectory
    <3>2. d \in Nodes
      BY DEF Unused
    <3> QED
      BY <1>1, <3>1, <3>2 DEF PinInv, TypeOK
  <2> QED
    BY <2>1, <2>2
<1>3. TypeOK'
  BY <1>1, <1>2 DEF MakeDirectory, PinInv, TypeOK, request, Left, Step
<1>4. LinkStays' /\ AtTheEnd' /\ NeverDiverted'
  BY DEF MakeDirectory, PinInv, LinkStays, AtTheEnd, NeverDiverted
<1> QED
  BY <1>3, <1>4 DEF PinInv

(* An accepted open leads to what was checked, or through a link of root. *)
LEMMA OpenedIsChecked ==
  ASSUME PinInv, pc = "open", Refuses(Opened) = "nothing"
  PROVE  /\ Opened \in Expected /\ Entry = checked
         /\ checked \notin Links => Opened = checked
         /\ checked \in Links => /\ checked \in RootLinks /\ at \in Sealed
                                 /\ Opened = LinkTo[checked]
<1>1. Opened # None /\ Opened \in Expected
  BY DEF Refuses
<1>2. CASE checked \in Links
  BY <1>1, <1>2 DEF PinInv, LinkStays, Trusted, Opened
<1>3. CASE checked \notin Links
  BY <1>1, <1>3 DEF Refuses, Opened
<1> QED
  BY <1>1, <1>2, <1>3

LEMMA OpeningStep ==
  ASSUME PinInv, OpenEntry, Refuses(Opened) = "nothing"
  PROVE  PinInv'
<1> DEFINE step == [dir |-> at, checked |-> checked, entry |-> Entry, node |-> Opened]
<1>1. /\ trail' = Append(trail, step)
      /\ at' = Opened /\ i' = i + 1 /\ checked' = None /\ pc' = "next"
      /\ UNCHANGED <<fs, request, faults>>
  BY DEF OpenEntry
<1>2. /\ Opened \in Expected /\ Entry = checked
      /\ checked \notin Links => Opened = checked
      /\ checked \in Links => checked \in RootLinks /\ at \in Sealed /\ Opened = LinkTo[checked]
  BY OpenedIsChecked DEF OpenEntry
<1>3. Opened \in Dirs \cup Files /\ (~ Final => Opened \in Dirs) /\ checked \in Nodes /\ at \in Dirs
      /\ Left
  BY <1>2 DEF Expected, OpenEntry, PinInv, TypeOK
<1>4. step \in Step
  BY <1>2, <1>3 DEF Step
<1>5. i' \in 1..(Len(path') + 1) /\ (Left' => ~ Final)
  BY <1>1, <1>3 DEF request, PinInv, TypeOK, Left, Final
<1>6. TypeOK'
  <2>1. trail' \in Seq(Step)
    BY <1>1, <1>4 DEF PinInv, TypeOK
  <2> QED
    BY <1>1, <1>3, <1>5, <2>1 DEF PinInv, TypeOK, fs, request
<1>7. Len(trail) \in Nat /\ Len(trail') = Len(trail) + 1 /\ trail'[Len(trail')] = step
      /\ \A k \in 1..Len(trail) : trail'[k] = trail[k]
  BY <1>1 DEF PinInv, TypeOK
<1>8. AtTheEnd' /\ LinkStays'
  BY <1>1, <1>7 DEF AtTheEnd, LinkStays
<1>9. NeverDiverted'
  <2> SUFFICES ASSUME NEW k \in 1..Len(trail')
               PROVE  /\ trail'[k].dir = IF k = 1 THEN Root ELSE trail'[k - 1].node
                      /\ trail'[k].entry = trail'[k].checked
                      /\ IF trail'[k].entry \in Links
                         THEN /\ trail'[k].entry \in RootLinks /\ trail'[k].dir \in Sealed
                              /\ trail'[k].node = LinkTo[trail'[k].entry]
                         ELSE trail'[k].node = trail'[k].entry
    BY <1>6 DEF NeverDiverted, TypeOK
  <2>1. CASE k \in 1..Len(trail)
    <3>1. trail'[k] = trail[k] /\ (k # 1 => trail'[k - 1] = trail[k - 1]) /\ k \in DOMAIN trail
      BY <1>7, <2>1 DEF PinInv, TypeOK
    <3> QED
      BY <3>1 DEF PinInv, NeverDiverted
  <2>2. CASE k = Len(trail')
    <3>1. at = IF k = 1 THEN Root ELSE trail'[k - 1].node
      <4>1. trail = <<>> <=> Len(trail) = 0
        BY DEF PinInv, TypeOK
      <4> QED
        BY <1>7, <2>2, <4>1 DEF PinInv, AtTheEnd
    <3>2. trail'[k] = step
      BY <1>7, <2>2
    <3>3. step.dir = at /\ step.entry = Entry /\ step.checked = checked /\ step.node = Opened
      OBVIOUS
    <3> QED
      BY <1>2, <3>1, <3>2, <3>3
  <2> QED
    BY <1>7, <2>1, <2>2
<1> QED
  BY <1>6, <1>8, <1>9 DEF PinInv

(* Other processes keep the directories directories, and leave the sealed   *)
(* ones alone. *)
LEMMA InterferingStep ==
  ASSUME PinInv, Interfere
  PROVE  PinInv'
<1>1. /\ tree' \in [Dirs -> [Names -> Nodes \cup {None}]]
      /\ \A d \in Sealed : tree'[d] = tree[d]
      /\ changes' \in 0..MaxChanges
  <2>1. \A e \in Entries : e[1] \in Dirs \ Sealed /\ e[2] \in Names
    BY DEF Entries
  <2>2. changes \in 0..MaxChanges /\ changes < MaxChanges /\ changes' = changes + 1
        => changes' \in 0..MaxChanges
    BY BoundsAssumption
  <2>3. CASE \E from, to \in Entries : Move(from, to)
    BY SMTT(30), <2>1, <2>2, <2>3, NodesAssumption DEF Move, Change, PinInv, TypeOK
  <2>4. CASE \E e \in Entries : Remove(e)
    BY <2>1, <2>2, <2>4, NodesAssumption DEF Remove, Change, PinInv, TypeOK
  <2>5. CASE \E e \in Entries, node \in Nodes : Create(e, node)
    BY <2>1, <2>2, <2>5, NodesAssumption DEF Create, Change, PinInv, TypeOK
  <2> QED
    BY <2>3, <2>4, <2>5 DEF Interfere
<1>2. UNCHANGED <<request, i, pc, at, checked, trail, faults, outcome>>
  BY DEF Interfere
<1>3. TypeOK'
  BY <1>1, <1>2 DEF PinInv, TypeOK, request, Left, Step
<1>4. LinkStays'
  <2>1. pc = "open" /\ checked \in Links => at \in Sealed
    BY DEF PinInv, LinkStays, Trusted
  <2> QED
    BY <1>1, <1>2, <2>1 DEF PinInv, LinkStays, Trusted, Entry, request
<1>5. AtTheEnd' /\ NeverDiverted'
  BY <1>2 DEF PinInv, AtTheEnd, NeverDiverted
<1> QED
  BY <1>3, <1>4, <1>5 DEF PinInv

LEMMA PinNext == PinInv /\ [Next]_vars => PinInv'
<1> SUFFICES ASSUME PinInv, [Next]_vars PROVE PinInv'
  OBVIOUS
<1>f. faults \in 0..MaxFaults /\ (faults < MaxFaults => faults + 1 \in 0..MaxFaults)
  BY BoundsAssumption DEF PinInv, TypeOK
<1>1. CASE Stat
  <2>1. CASE Entry # None
    BY <1>1, <1>f, <2>1, InspectsResult, LookingStep DEF Stat, PinInv
  <2>2. CASE Entry = None
    BY <1>1, <1>f, <2>2, LookingStep DEF Stat, Raise
  <2> QED
    BY <2>1, <2>2
<1>2. CASE MakeDirectory
  BY <1>2, MakingStep
<1>3. CASE StatAgain
  <2>l. Left
    BY <1>3 DEF StatAgain, PinInv, TypeOK
  <2>1. CASE Entry # None
    BY <1>3, <1>f, <2>l, <2>1, InspectsResult, LookingStep DEF StatAgain, PinInv
  <2>2. CASE Entry = None
    BY <1>3, <1>f, <2>2, LookingStep DEF StatAgain, Raise
  <2> QED
    BY <2>1, <2>2
<1>4. CASE OpenEntry
  <2>1. CASE Refuses(Opened) = "nothing"
    BY <1>4, <2>1, OpeningStep
  <2>2. CASE Refuses(Opened) # "nothing"
    BY <1>4, <1>f, <2>2, LookingStep DEF OpenEntry, Raise
  <2> QED
    BY <2>1, <2>2
<1>5. CASE ReturnPinned
  BY <1>5, <1>f, LookingStep DEF ReturnPinned
<1>6. CASE CallFails
  BY <1>6, <1>f, LookingStep DEF CallFails, Raise
<1>7. CASE Interfere
  BY <1>7, InterferingStep
<1>8. CASE UNCHANGED vars
  BY <1>8 DEF vars, fs, request, PinInv, TypeOK, LinkStays, AtTheEnd, NeverDiverted, Trusted,
              Entry, Left, Step
<1> QED
  BY <1>1, <1>2, <1>3, <1>4, <1>5, <1>6, <1>7, <1>8 DEF Next, Resolve, Finished

(* While a component is left the walk stands on a directory, for every path *)
(* and file system.                                                         *)
THEOREM TypeCorrect == Spec => []TypeOK
<1>1. Init => PinInv
  BY PinInit
<1>2. PinInv /\ [Next]_vars => PinInv'
  BY PinNext
<1>3. PinInv => TypeOK
  BY DEF PinInv
<1> QED
  BY <1>1, <1>2, <1>3, PTL DEF Spec

(* However often other processes change the directories on the way, the     *)
(* walk of open_pinned_path leads nowhere but through what it looked at and *)
(* through links of root.                                                   *)
THEOREM WalkIsPinned == Spec => []NeverDiverted
<1>1. Init => PinInv
  BY PinInit
<1>2. PinInv /\ [Next]_vars => PinInv'
  BY PinNext
<1>3. PinInv => NeverDiverted
  BY DEF PinInv
<1> QED
  BY <1>1, <1>2, <1>3, PTL DEF Spec

-----------------------------------------------------------------------------
(* What an entry of the directory d leads to. *)
Follow(d, entry) ==
  IF entry \notin Links THEN entry
  ELSE IF entry \in RootLinks /\ d \in Sealed THEN LinkTo[entry] ELSE None

(* One component further, from the node before. *)
Further(node, k) ==
  IF node \in Dirs THEN Follow(node, tree[node][path[k]]) ELSE None

(* node[k] is where the first k components lead. *)
Leads(node) ==
  /\ node \in [0..Len(path) -> Nodes \cup {None}]
  /\ \A k \in 0..Len(path) : node[k] = IF k = 0 THEN Root ELSE Further(node[k - 1], k)

LEMMA FollowType ==
  ASSUME NEW d, NEW entry \in Nodes \cup {None}
  PROVE  Follow(d, entry) \in Nodes \cup {None}
  BY NodesAssumption DEF Follow

LEMMA ResolvedLeads ==
  ASSUME TypeOK
  PROVE  \E node : Leads(node) /\ Resolved = node[Len(path)]
<1> DEFINE D == 0..Len(path)
           A == Nodes \cup {None}
           E(g) == g = [k \in D |-> IF k = 0 THEN Root ELSE Further(g[k - 1], k)]
           next == [k \in D |-> [n \in A |-> IF k = 0 THEN Root ELSE Further(n, k)]]
           chosen == CHOOSE g : E(g)
<1>3. Len(path) \in Nat
  BY DEF TypeOK
<1>0. Root \in Nodes
  BY NodesAssumption, Zenon
<1>1. next \in [D -> [A -> A]]
  <2>1. ASSUME NEW k \in D, NEW n \in A, k # 0 PROVE Further(n, k) \in A
    <3>1. path[k] \in Names
      BY <2>1 DEF TypeOK
    <3>2. n \in Dirs => tree[n][path[k]] \in A
      BY <3>1 DEF TypeOK
    <3> QED
      BY <3>2, FollowType DEF Further
  <2> QED
    BY <1>0, <2>1
<1>2. PICK f \in [D -> A] :
        \A k \in D : f[k] = IF k = 0 THEN Root ELSE next[k][f[k - 1]]
  <2>1. Root \in A
    BY <1>0
  <2> HIDE DEF A, next
  <2>2. Iterates(0, Len(path), A, Root, next)
    BY <1>1, <1>3, <2>1 DEF Iterates
  <2> QED
    BY <2>2, Iteration
<1>4. E(f)
  <2>1. ASSUME NEW k \in D PROVE f[k] = IF k = 0 THEN Root ELSE Further(f[k - 1], k)
    <3>1. k # 0 => k - 1 \in D
      BY <1>3
    <3>2. k # 0 => f[k - 1] \in A
      BY <3>1
    <3>3. k # 0 => next[k][f[k - 1]] = Further(f[k - 1], k)
      BY <3>1, <3>2
    <3> HIDE DEF next
    <3> QED
      BY <1>2, <3>3
  <2> QED
    BY <2>1
<1>5. E(chosen)
  <2> HIDE DEF E
  <2> QED
    BY <1>4
<1>6. \A k \in D : chosen[k] = IF k = 0 THEN Root ELSE Further(chosen[k - 1], k)
  <2> HIDE DEF chosen
  <2> QED
    BY <1>5
<1>7. \A k \in D : chosen[k] \in A
  <2> DEFINE P == {k \in D : chosen[k] \in A}
  <2> HIDE DEF chosen
  <2>1. 0 \in P
    <3>1. chosen[0] = Root /\ Root \in Nodes
      BY <1>0, <1>3, <1>6
    <3> QED
      BY <1>3, <3>1
  <2>2. \A k \in D : k # 0 /\ k - 1 \in P => k \in P
    <3> SUFFICES ASSUME NEW k \in D, k # 0, k - 1 \in P PROVE k \in P
      OBVIOUS
    <3>1. chosen[k] = Further(chosen[k - 1], k)
      BY <1>3, <1>6
    <3>2. next[k][chosen[k - 1]] = Further(chosen[k - 1], k)
      OBVIOUS
    <3> HIDE DEF next
    <3> QED
      BY <1>1, <3>1, <3>2
  <2>3. 0..Len(path) \subseteq P
    <3> HIDE DEF P
    <3>1. Hereditary(0, Len(path), P)
      BY <1>3, <2>1, <2>2 DEF Hereditary
    <3> QED
      BY <3>1, IntervalInduction
  <2> QED
    BY <2>3
<1>8. chosen = [k \in D |-> IF k = 0 THEN Root ELSE Further(chosen[k - 1], k)]
  <2> HIDE DEF chosen
  <2> QED
    BY <1>5
<1>9. Leads(chosen)
  <2> HIDE DEF chosen
  <2> QED
    BY <1>6, <1>7, <1>8 DEF Leads
<1>10. Resolved = chosen[Len(path)]
  BY DEF Resolved, Further, Follow
<1> QED
  BY <1>9, <1>10

-----------------------------------------------------------------------------
(* As long as nobody interferes, what was opened is still there, so that    *)
(* the walk stands where the components before the next one lead. *)
Walked ==
  /\ Len(trail) = i - 1
  /\ \A k \in DOMAIN trail : tree[trail[k].dir][path[k]] = trail[k].entry
  /\ Creates => at \in Dirs
  /\ pc = "open" => /\ Entry = checked
                    /\ Entry \in Links => Trusted(Entry)
                    /\ Entry \notin Links => Entry \in Expected

QuietInv ==
  changes = 0 /\ faults = 0 => (pc # "ended" => Walked) /\ QuietIsExact

LEMMA ResolvedStays ==
  ASSUME UNCHANGED <<tree, path>>
  PROVE  Resolved' = Resolved
<1>1. tree' = tree /\ path' = path
  OBVIOUS
<1> QED
  BY <1>1 DEF Resolved

(* What a caller can use. *)
Wanted == CASE caller = "input"    -> Dirs \cup Files
            [] caller = "output"   -> Dirs
            [] caller = "identity" -> Files

LEMMA WalkedLeads ==
  ASSUME PinInv, Walked, NEW node, Leads(node)
  PROVE  at = node[i - 1] /\ (Left => node[i] = Follow(at, Entry))
<1> DEFINE P == {k \in 0..(i - 1) : node[k] = IF k = 0 THEN Root ELSE trail[k].node}
<1>1. /\ Len(path) \in Nat /\ i \in 1..(Len(path) + 1) /\ Len(trail) = i - 1
      /\ DOMAIN trail = 1..(i - 1)
  BY DEF PinInv, TypeOK, Walked
<1>2. \A k \in 0..Len(path) : node[k] = IF k = 0 THEN Root ELSE Further(node[k - 1], k)
  BY DEF Leads
<1>3. 0 \in P
  BY <1>1, <1>2
<1>4. ASSUME NEW k \in 0..(i - 1), k # 0, k - 1 \in P PROVE k \in P
  <2>1. k \in DOMAIN trail /\ k \in 0..Len(path)
    BY <1>1, <1>4
  <2>2. node[k - 1] = trail[k].dir
    BY <1>4, <2>1 DEF PinInv, NeverDiverted
  <2>3. trail[k] \in Step
    BY <2>1 DEF PinInv, TypeOK
  <2>4. node[k - 1] \in Dirs
    BY <2>2, <2>3 DEF Step
  <2>5. node[k] = Follow(trail[k].dir, trail[k].entry)
    BY <1>2, <1>4, <2>1, <2>2, <2>4 DEF Further, Walked
  <2>6. Follow(trail[k].dir, trail[k].entry) = trail[k].node
    BY <2>1 DEF PinInv, NeverDiverted, Follow
  <2> QED
    BY <1>4, <2>5, <2>6
<1>5. 0..(i - 1) \subseteq P
  <2>1. Hereditary(0, i - 1, P)
    <3> HIDE DEF P
    <3> QED
      BY <1>1, <1>3, <1>4 DEF Hereditary
  <2> HIDE DEF P
  <2> QED
    BY <2>1, IntervalInduction
<1>6. at = node[i - 1]
  <2>1. i - 1 \in 0..(i - 1)
    BY <1>1
  <2>2. trail = <<>> <=> i - 1 = 0
    BY <1>1 DEF PinInv, TypeOK
  <2> QED
    BY <1>1, <1>5, <2>1, <2>2 DEF PinInv, AtTheEnd
<1>7. Left => node[i] = Follow(at, Entry)
  <2> SUFFICES ASSUME Left PROVE node[i] = Follow(at, Entry)
    OBVIOUS
  <2>1. i \in 0..Len(path) /\ i # 0 /\ at \in Dirs
    BY <1>1 DEF Left, PinInv, TypeOK
  <2> QED
    BY <1>2, <1>6, <2>1 DEF Further, Entry
<1> QED
  BY <1>6, <1>7

(* A component that leads to no directory ends the path or leads nowhere.   *)
LEMMA ResolvedHere ==
  ASSUME PinInv, Walked
  PROVE  /\ ~ Left => Resolved = at
         /\ Left /\ Final => Resolved = Follow(at, Entry)
         /\ Left /\ ~ Final /\ Follow(at, Entry) \notin Dirs => Resolved = None
<1>1. PICK node : Leads(node) /\ Resolved = node[Len(path)]
  BY ResolvedLeads DEF PinInv
<1>2. /\ at = node[i - 1] /\ (Left => node[i] = Follow(at, Entry))
      /\ Len(path) \in Nat /\ i \in 1..(Len(path) + 1)
  BY <1>1, WalkedLeads DEF PinInv, TypeOK
<1>3. ~ Left => Resolved = at
  <2>1. ~ Left => i - 1 = Len(path)
    BY <1>2 DEF Left
  <2> QED
    BY <1>1, <1>2, <2>1
<1>4. Left /\ Final => Resolved = Follow(at, Entry)
  BY <1>1, <1>2 DEF Final
<1>5. ASSUME Left, ~ Final, Follow(at, Entry) \notin Dirs PROVE Resolved = None
  <2> DEFINE P == {k \in (i + 1)..Len(path) : node[k] = None}
  <2>1. \A k \in (i + 1)..Len(path) : k \in 0..Len(path) /\ k # 0 /\ node[k] = Further(node[k - 1], k)
    BY <1>1, <1>2 DEF Leads
  <2>2. i + 1 \in (i + 1)..Len(path)
    BY <1>2, <1>5 DEF Left, Final
  <2>3. i + 1 \in P
    <3>1. (i + 1) - 1 = i
      BY <1>2
    <3> QED
      BY <1>2, <1>5, <2>1, <2>2, <3>1 DEF Further
  <2>4. ASSUME NEW k \in (i + 1)..Len(path), k # i + 1, k - 1 \in P PROVE k \in P
    <3>1. node[k - 1] \notin Dirs
      BY <2>4, NodesAssumption
    <3> QED
      BY <2>1, <2>4, <3>1 DEF Further
  <2>5. (i + 1)..Len(path) \subseteq P
    <3>1. Hereditary(i + 1, Len(path), P)
      <4> HIDE DEF P
      <4> QED
        BY <1>2, <2>3, <2>4 DEF Hereditary
    <3> HIDE DEF P
    <3> QED
      BY <3>1, IntervalInduction
  <2>6. Len(path) \in (i + 1)..Len(path)
    BY <1>2, <2>2
  <2> QED
    BY <1>1, <2>5, <2>6
<1> QED
  BY <1>3, <1>4, <1>5

(* A component that cannot be used refuses the whole path rightly. *)
LEMMA RefusedRightly ==
  ASSUME PinInv, Walked, Left, NEW leads, Follow(at, Entry) = leads,
         leads \notin Expected
  PROVE  Resolved \notin Wanted /\ (leads = None => Resolved = None)
<1>1. None \notin Nodes /\ caller \in Callers
  BY NodesAssumption DEF PinInv, TypeOK
<1>2. CASE Final
  BY <1>1, <1>2, ResolvedHere DEF Expected, Wanted, Callers, Creates
<1>3. CASE ~ Final
  BY <1>1, <1>3, ResolvedHere DEF Expected, Wanted, Callers, Creates
<1> QED
  BY <1>2, <1>3

LEMMA RaisedRightly ==
  ASSUME PinInv, Walked, Left, NEW leads, Follow(at, Entry) = leads, leads \notin Expected,
         UNCHANGED <<tree, request>>, NEW e,
         e \in {"symlink", "missing", "not a directory", "failed"}, e = "missing" => leads = None,
         Raise(e)
  PROVE  QuietIsExact'
<1>1. Resolved' = Resolved /\ Wanted' = Wanted
  BY ResolvedStays DEF Wanted, request
<1>2. Resolved \notin Wanted /\ (leads = None => Resolved = None)
  BY RefusedRightly
<1>3. caller \in Callers
  BY DEF PinInv, TypeOK
<1>4. outcome' # "opened" /\ (outcome' = "missing" => e = "missing")
  BY <1>3 DEF Raise, Reported, InputError, OutputError, Callers
<1> QED
  BY <1>1, <1>2, <1>4 DEF QuietIsExact, Wanted

LEMMA QuietInit == Init => QuietInv
<1> SUFFICES ASSUME Init PROVE QuietInv
  OBVIOUS
<1>1. Walked
  BY NodesAssumption DEF Init, Walked
<1>2. QuietIsExact
  BY DEF Init, QuietIsExact
<1> QED
  BY <1>1, <1>2 DEF QuietInv

(* The tests before the open, with nobody interfering. *)
LEMMA QuietInspects ==
  ASSUME PinInv, Walked, Left, pc # "ended", Entry # None, Inspects(Entry),
         UNCHANGED <<fs, request, i, at, trail, faults>>
  PROVE  QuietInv'
<1>1. CASE Entry \in Links /\ ~ Trusted(Entry)
  <2>1. Follow(at, Entry) = None
    BY <1>1 DEF Follow, Trusted
  <2>2. None \notin Expected
    BY NodesAssumption DEF Expected
  <2>3. QuietIsExact' /\ pc' = "ended"
    <3>1. Raise("symlink")
      BY <1>1 DEF Inspects
    <3> QED
      BY <2>1, <2>2, <3>1, RaisedRightly DEF Raise, fs
  <2> QED
    BY <2>3 DEF QuietInv
<1>2. CASE Entry \notin Links \cup Expected
  <2>1. Follow(at, Entry) = Entry
    BY <1>2 DEF Follow
  <2>2. QuietIsExact' /\ pc' = "ended"
    <3> DEFINE e == IF Expected = Dirs THEN "not a directory" ELSE "failed"
    <3>1. Raise(e)
      BY <1>2 DEF Inspects
    <3>2. e \in {"symlink", "missing", "not a directory", "failed"} /\ e # "missing"
      OBVIOUS
    <3> HIDE DEF e
    <3> QED
      BY <1>2, <2>1, <3>1, <3>2, RaisedRightly DEF Raise, fs
  <2> QED
    BY <2>2 DEF QuietInv
<1>3. CASE Entry \in Links \cup Expected /\ (Entry \in Links => Trusted(Entry))
  <2>1. checked' = Entry /\ pc' = "open"
    BY <1>3 DEF Inspects
  <2>2. Entry' = Entry /\ Expected' = Expected
    BY DEF Entry, Expected, fs, request, Creates, Final
  <2>3. Trusted(Entry)' <=> Trusted(Entry)
    BY <2>2 DEF Trusted
  <2>4. Walked'
    BY <1>3, <2>1, <2>2, <2>3 DEF Walked, fs, request, Creates
  <2>5. QuietIsExact'
    BY <2>1 DEF QuietIsExact
  <2> QED
    BY <2>4, <2>5 DEF QuietInv
<1> QED
  BY <1>1, <1>2, <1>3

(* A missing component. *)
LEMMA QuietMissing ==
  ASSUME PinInv, Walked, Left, Entry = None, Raise("missing"), UNCHANGED <<fs, request>>
  PROVE  QuietInv'
<1>1. Follow(at, Entry) = None /\ None \notin Expected
  BY NodesAssumption DEF Follow, Expected
<1>2. QuietIsExact' /\ pc' = "ended"
  BY <1>1, RaisedRightly DEF Raise, fs
<1> QED
  BY <1>2 DEF QuietInv

(* A directory made where nothing was: no component opened before is there. *)
LEMMA QuietMaking ==
  ASSUME PinInv, Walked, MakeDirectory
  PROVE  QuietInv'
<1>1. /\ path[i] \in Names /\ at \in Dirs /\ Left /\ tree \in [Dirs -> [Names -> Nodes \cup {None}]]
      /\ trail \in Seq(Step)
  BY DEF PinInv, TypeOK, MakeDirectory, Left
<1>2. \A d \in Dirs, x \in Names : tree[d][x] # None => tree'[d][x] = tree[d][x]
  <2>1. CASE Entry # None
    BY <2>1 DEF MakeDirectory
  <2>2. CASE Entry = None
    <3>1. PICK d \in Unused : tree' = [tree EXCEPT ![at][path[i]] = d]
      BY <2>2 DEF MakeDirectory
    <3> QED
      BY <1>1, <2>2, <3>1 DEF Entry
  <2> QED
    BY <2>1, <2>2
<1>3. pc' = "restat" /\ UNCHANGED <<request, i, at, trail>>
  BY DEF MakeDirectory
<1>4. \A k \in DOMAIN trail : tree'[trail[k].dir][path[k]] = trail[k].entry
  <2> SUFFICES ASSUME NEW k \in DOMAIN trail PROVE tree'[trail[k].dir][path[k]] = trail[k].entry
    OBVIOUS
  <2>1. trail[k] \in Step /\ path[k] \in Names
    BY <1>1 DEF Walked, PinInv, TypeOK
  <2>2. tree[trail[k].dir][path[k]] = trail[k].entry
    BY DEF Walked
  <2>3. trail[k].dir \in Dirs /\ trail[k].entry \in Nodes
    BY <2>1 DEF Step
  <2>4. trail[k].entry # None
    BY <2>3, NodesAssumption
  <2> QED
    BY <1>2, <2>1, <2>2, <2>3, <2>4
<1>5. Walked'
  BY <1>3, <1>4 DEF Walked, request, Creates
<1>6. QuietIsExact'
  BY <1>3 DEF QuietIsExact
<1> QED
  BY <1>5, <1>6 DEF QuietInv

LEMMA QuietOpening ==
  ASSUME PinInv, Walked, OpenEntry
  PROVE  QuietInv'
<1>1. /\ Entry = checked /\ Left /\ checked \in Nodes
      /\ Entry \in Links => Trusted(Entry)
      /\ Entry \notin Links => Entry \in Expected
      /\ UNCHANGED <<fs, request, faults>>
  BY DEF Walked, OpenEntry, PinInv, TypeOK
<1>2. Opened = Follow(at, Entry)
  BY <1>1 DEF Opened, Follow, Trusted
<1>3. CASE Refuses(Opened) # "nothing"
  <2>0. checked \notin Links => Opened = checked
    BY <1>1 DEF Opened
  <2> HIDE DEF Links
  <2>1. Opened \notin Expected
    <3>1. None \notin Expected
      BY NodesAssumption DEF Expected
    <3> QED
      BY <1>3, <2>0, <3>1 DEF Refuses
  <2>2. /\ Refuses(Opened) \in {"symlink", "missing", "not a directory", "failed"}
        /\ Refuses(Opened) = "missing" => Opened = None
    <3>1. CASE Opened = None
      BY <3>1 DEF Refuses
    <3>2. CASE Opened # None
      <4> HIDE DEF Dirs
      <4>1. Refuses(Opened) = IF Expected = Dirs THEN "not a directory" ELSE "failed"
        BY <2>1, <3>2 DEF Refuses
      <4> QED
        BY <4>1
    <3> QED
      BY <3>1, <3>2
  <2>3. Raise(Refuses(Opened))
    BY <1>3 DEF OpenEntry
  <2>4. QuietIsExact' /\ pc' = "ended"
    BY <1>1, <1>2, <2>1, <2>2, <2>3, RaisedRightly DEF Raise, fs
  <2> QED
    BY <2>4 DEF QuietInv
<1>4. CASE Refuses(Opened) = "nothing"
  <2> DEFINE step == [dir |-> at, checked |-> checked, entry |-> Entry, node |-> Opened]
  <2>1. trail' = Append(trail, step) /\ at' = Opened /\ i' = i + 1 /\ pc' = "next"
    BY <1>4 DEF OpenEntry
  <2>2. Opened \in Expected
    BY <1>4, OpenedIsChecked DEF OpenEntry
  <2>3. /\ Len(trail) = i - 1 /\ i \in Nat /\ Len(trail') = Len(trail) + 1
        /\ DOMAIN trail' = 1..i /\ DOMAIN trail = 1..(i - 1) /\ trail'[i] = step
        /\ \A k \in 1..(i - 1) : trail'[k] = trail[k]
    BY <2>1 DEF Walked, PinInv, TypeOK
  <2>4. \A k \in DOMAIN trail' : tree[trail'[k].dir][path[k]] = trail'[k].entry
    <3>1. tree[step.dir][path[i]] = step.entry
      BY DEF Entry
    <3> HIDE DEF step
    <3>2. \A k \in 1..i : k = i \/ k \in 1..(i - 1)
      BY <2>3
    <3> QED
      BY <2>3, <3>1, <3>2 DEF Walked
  <2>5. Creates => Opened \in Dirs
    BY <2>2 DEF Expected
  <2>6. Walked'
    <3>1. Len(trail') = i' - 1
      BY <2>1, <2>3
    <3> QED
      BY <1>1, <2>1, <2>4, <2>5, <3>1 DEF Walked, fs, request, Creates
  <2>7. QuietIsExact'
    BY <2>1 DEF QuietIsExact
  <2> QED
    BY <2>6, <2>7 DEF QuietInv
<1> QED
  BY <1>3, <1>4

LEMMA QuietReturning ==
  ASSUME PinInv, Walked, ReturnPinned
  PROVE  QuietInv'
<1>1. Resolved = at
  BY ResolvedHere DEF ReturnPinned
<1>2. Resolved' = Resolved /\ Wanted' = Wanted /\ at' = at
  BY ResolvedStays DEF Wanted, request, ReturnPinned, fs
<1>3. at \in Dirs \cup Files /\ caller \in Callers /\ (Creates => at \in Dirs)
  BY DEF PinInv, TypeOK, Walked
<1>4. /\ pc' = "ended" /\ outcome' \in {"opened", "cannot open"}
      /\ outcome' = "opened" <=> at \in Wanted
  BY <1>3 DEF ReturnPinned, Wanted, Callers, Creates
<1>5. QuietIsExact'
  BY <1>1, <1>2, <1>4 DEF QuietIsExact, Wanted
<1> QED
  BY <1>4, <1>5 DEF QuietInv

LEMMA QuietStep == PinInv /\ QuietInv /\ [Next]_vars => QuietInv'
<1> SUFFICES ASSUME PinInv, QuietInv, [Next]_vars, changes' = 0, faults' = 0 PROVE QuietInv'
  BY DEF QuietInv
<1>1. CASE Resolve /\ ~ CallFails
  <2>1. changes = 0 /\ faults = 0 /\ pc # "ended"
    BY <1>1 DEF Resolve, Stat, MakeDirectory, StatAgain, OpenEntry, ReturnPinned, fs
  <2>2. Walked
    BY <2>1 DEF QuietInv
  <2>3. CASE Stat
    <3>1. CASE Entry # None
      BY <2>1, <2>2, <2>3, <3>1, QuietInspects DEF Stat
    <3>2. CASE Entry = None /\ Creates
      <4>1. pc' = "mkdir" /\ UNCHANGED <<fs, request, i, at, trail, faults>>
        BY <2>3, <3>2 DEF Stat
      <4>2. Walked' /\ QuietIsExact'
        BY <2>2, <4>1 DEF Walked, QuietIsExact, fs, request, Creates
      <4> QED
        BY <4>2 DEF QuietInv
    <3>3. CASE Entry = None /\ ~ Creates
      BY <2>2, <2>3, <3>3, QuietMissing DEF Stat
    <3> QED
      BY <3>1, <3>2, <3>3
  <2>4. CASE MakeDirectory
    BY <2>2, <2>4, QuietMaking
  <2>5. CASE StatAgain
    <3>1. Left
      BY <2>5 DEF StatAgain, PinInv, TypeOK
    <3>2. CASE Entry # None
      BY <2>1, <2>2, <2>5, <3>1, <3>2, QuietInspects DEF StatAgain
    <3>3. CASE Entry = None
      BY <2>2, <2>5, <3>1, <3>3, QuietMissing DEF StatAgain
    <3> QED
      BY <3>2, <3>3
  <2>6. CASE OpenEntry
    BY <2>2, <2>6, QuietOpening
  <2>7. CASE ReturnPinned
    BY <2>2, <2>7, QuietReturning
  <2> QED
    BY <1>1, <2>3, <2>4, <2>5, <2>6, <2>7 DEF Resolve
<1>2. CASE CallFails
  <2>1. faults' = faults + 1 /\ faults \in Nat
    BY <1>2, BoundsAssumption DEF CallFails, PinInv, TypeOK
  <2> QED
    BY <2>1
<1>3. CASE Interfere
  <2>1. changes' = changes + 1 /\ changes \in Nat
    <3>1. Change
      BY <1>3 DEF Interfere, Move, Remove, Create
    <3> QED
      BY <3>1, BoundsAssumption DEF Change, PinInv, TypeOK
  <2> QED
    BY <2>1
<1>4. CASE UNCHANGED vars
  <2>1. Entry' = Entry /\ Expected' = Expected /\ Resolved' = Resolved
    BY <1>4, ResolvedStays DEF vars, fs, Entry, Expected, Creates, Final
  <2>2. Walked' <=> Walked
    BY <1>4, <2>1 DEF vars, fs, Walked, Creates, Trusted
  <2>3. QuietIsExact' <=> QuietIsExact
    BY <1>4, <2>1 DEF vars, fs, QuietIsExact
  <2> QED
    BY <1>4, <2>2, <2>3 DEF QuietInv, vars, fs
<1> QED
  BY <1>1, <1>2, <1>3, <1>4 DEF Next, Finished

(* With nobody interfering and no call failing, for every file system and   *)
(* every path: open_pinned_path opens exactly the paths it should, each one *)
(* at the node its components lead to.                                      *)
THEOREM QuietWalkIsExact == Spec => []QuietIsExact
<1>1. Init => PinInv /\ QuietInv
  BY PinInit, QuietInit
<1>2. PinInv /\ QuietInv /\ [Next]_vars => (PinInv /\ QuietInv)'
  BY PinNext, QuietStep
<1>3. PinInv /\ QuietInv => QuietIsExact
  BY DEF QuietInv, QuietIsExact
<1> QED
  BY <1>1, <1>2, <1>3, PTL DEF Spec
=============================================================================
