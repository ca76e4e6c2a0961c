------------------------- MODULE RecursiveFunctions -------------------------
(***************************************************************************)
(* Induction over data, with sets in the place of predicates: the lemmas   *)
(* about functions defined by recursion that the other proofs need.        *)
(***************************************************************************)
EXTENDS Integers, TLAPS, WellFoundedInduction

LEMMA NatSetInduction ==
  ASSUME NEW S, 0 \in S, \A n \in Nat : n \in S => n + 1 \in S
  PROVE  Nat \subseteq S
<1> DEFINE T == Nat \ S
           R == OpToRel(<, Nat)
<1>1. SUFFICES ASSUME T # {} PROVE FALSE
  OBVIOUS
<1>2. IsWellFoundedOn(R, Nat)
  BY NatLessThanWellFounded
<1>3. PICK x \in T : \A y \in T : <<y, x>> \notin R
  <2> HIDE DEF R, T
  <2>1. T \subseteq Nat
    BY DEF T
  <2> QED
    BY <1>1, <1>2, <2>1, WFMin, Zenon
<1>4. \A y \in Nat : y < x => y \in S
  BY <1>3 DEF OpToRel
<1>5. x # 0 /\ x \in Nat
  BY <1>3
<1>6. x - 1 \in Nat /\ x - 1 < x
  BY <1>5
<1> QED
  BY <1>4, <1>5, <1>6

(* Induction over the rank of the elements of D. *)
LEMMA RankInduction ==
  ASSUME NEW D, NEW rank \in [D -> Nat], NEW P,
         \A x \in D : (\A y \in D : rank[y] < rank[x] => y \in P) => x \in P
  PROVE  D \subseteq P
<1> DEFINE S == {d \in Nat : \A x \in D : rank[x] < d => x \in P}
<1>1. 0 \in S
  OBVIOUS
<1>2. \A d \in Nat : d \in S => d + 1 \in S
  <2> SUFFICES ASSUME NEW d \in Nat, d \in S, NEW x \in D, rank[x] < d + 1 PROVE x \in P
    OBVIOUS
  <2>1. \A y \in D : rank[y] < rank[x] => rank[y] < d
    OBVIOUS
  <2> QED
    BY <2>1
<1>3. Nat \subseteq S
  <2> HIDE DEF S
  <2> QED
    BY <1>1, <1>2, NatSetInduction
<1>4. \A x \in D : rank[x] + 1 \in Nat /\ rank[x] < rank[x] + 1
  OBVIOUS
<1> QED
  BY <1>3, <1>4

(* F gives the value at x from a function on D, and looks at its values of  *)
(* lower rank only. *)
Recursive(D, A, rank, bound, F) ==
  /\ rank \in [D -> Nat]
  /\ bound \in Nat
  /\ \A x \in D : rank[x] < bound
  /\ F \in [D -> [[D -> A] -> A]]
  /\ \A x \in D : \A g, h \in [D -> A] :
       (\A y \in D : rank[y] < rank[x] => g[y] = h[y]) => F[x][g] = F[x][h]

(* There is a function with these values. *)
LEMMA Recursion ==
  ASSUME NEW D, NEW A, A # {}, NEW rank, NEW bound, NEW F, Recursive(D, A, rank, bound, F)
  PROVE  \E f \in [D -> A] : \A x \in D : f[x] = F[x][f]
<1> USE DEF Recursive
<1> PICK any \in A : TRUE
  OBVIOUS
<1> DEFINE Good(f, d) == \A x \in D : rank[x] < d => f[x] = F[x][f]
           S == {d \in Nat : \E f \in [D -> A] : Good(f, d)}
<1>1. 0 \in S
  <2>1. [x \in D |-> any] \in [D -> A] /\ Good([x \in D |-> any], 0)
    OBVIOUS
  <2> QED
    BY <2>1
<1>2. ASSUME NEW d \in Nat, NEW f \in [D -> A], Good(f, d)
      PROVE  \E g \in [D -> A] : Good(g, d + 1)
  <2> DEFINE g == [x \in D |-> IF rank[x] = d THEN F[x][f] ELSE f[x]]
  <2>1. g \in [D -> A]
    <3>1. \A x \in D : F[x] \in [[D -> A] -> A]
      OBVIOUS
    <3>2. \A x \in D : F[x][f] \in A
      BY <1>2, <3>1, Zenon
    <3>3. \A x \in D : f[x] \in A
      OBVIOUS
    <3> QED
      BY <3>2, <3>3
  <2>2. ASSUME NEW x \in D, rank[x] < d + 1 PROVE g[x] = F[x][g]
    <3>1. \A y \in D : rank[y] < rank[x] => g[y] = f[y]
      BY <2>2
    <3>2. F[x][g] = F[x][f]
      <4> HIDE DEF g
      <4> QED
        BY <2>1, <3>1
    <3>3. g[x] = F[x][f]
      <4>1. rank[x] = d \/ rank[x] < d
        <5>1. rank[x] \in Nat
          OBVIOUS
        <5>2. \A m \in Nat : m < d + 1 => m = d \/ m < d
          OBVIOUS
        <5> HIDE DEF Good
        <5> QED
          BY <2>2, <5>1, <5>2
      <4> QED
        BY <1>2, <4>1
    <3> QED
      BY <3>2, <3>3
  <2> QED
    BY <2>1, <2>2
<1>3. Nat \subseteq S
  <2>1. \A d \in Nat : d \in S => d + 1 \in S
    <3> HIDE DEF Good
    <3> QED
      BY <1>2
  <2> HIDE DEF S
  <2> QED
    BY <1>1, <2>1, NatSetInduction
<1>4. PICK f \in [D -> A] : Good(f, bound)
  BY <1>3
<1> QED
  BY <1>4

-----------------------------------------------------------------------------
(* The same for intervals, where a value depends on the one before.         *)
Hereditary(from, to, P) ==
  /\ from \in Int /\ to \in Int
  /\ from <= to => from \in P
  /\ \A k \in from..to : k # from /\ k - 1 \in P => k \in P

LEMMA IntervalInduction ==
  ASSUME NEW from, NEW to, NEW P, Hereditary(from, to, P)
  PROVE  from..to \subseteq P
<1> USE DEF Hereditary
<1> DEFINE S == {d \in Nat : from + d <= to => from + d \in P}
<1>1. 0 \in S
  OBVIOUS
<1>2. ASSUME NEW d \in Nat, d \in S PROVE d + 1 \in S
  <2> SUFFICES ASSUME from + (d + 1) <= to PROVE from + (d + 1) \in P
    OBVIOUS
  <2>1. /\ from + d \in P /\ from + (d + 1) \in from..to
        /\ from + (d + 1) # from /\ (from + (d + 1)) - 1 = from + d
    BY <1>2
  <2> QED
    BY <2>1
<1>3. Nat \subseteq S
  <2> HIDE DEF S
  <2> QED
    BY <1>1, <1>2, NatSetInduction
<1>4. ASSUME NEW k \in from..to PROVE k \in P
  <2>1. k - from \in Nat /\ from + (k - from) = k /\ k <= to
    OBVIOUS
  <2>2. k - from \in S
    BY <1>3, <2>1
  <2> QED
    BY <2>1, <2>2
<1> QED
  BY <1>4

Iterates(from, to, A, first, next) ==
  /\ from \in Int /\ to \in Int
  /\ first \in A
  /\ next \in [from..to -> [A -> A]]

LEMMA Iteration ==
  ASSUME NEW from, NEW to, NEW A, NEW first, NEW next, Iterates(from, to, A, first, next)
  PROVE  \E f \in [from..to -> A] :
           \A k \in from..to : f[k] = IF k = from THEN first ELSE next[k][f[k - 1]]
<1> USE DEF Iterates
<1> DEFINE D == from..to
           rank == [k \in D |-> k - from]
           bound == IF from <= to THEN to - from + 1 ELSE 0
           F == [k \in D |-> [g \in [D -> A] |-> IF k = from THEN first ELSE next[k][g[k - 1]]]]
<1>1. rank \in [D -> Nat] /\ bound \in Nat /\ \A k \in D : rank[k] < bound
  OBVIOUS
<1>2. ASSUME NEW k \in D, k # from PROVE k - 1 \in D /\ rank[k - 1] < rank[k]
  BY <1>2
<1>3. ASSUME NEW k \in D, NEW g \in [D -> A]
      PROVE  (IF k = from THEN first ELSE next[k][g[k - 1]]) \in A
  <2>1. CASE k # from
    <3>1. next[k] \in [A -> A] /\ g[k - 1] \in A
      BY <1>2, <2>1
    <3> QED
      BY <2>1, <3>1
  <2> QED
    BY <2>1
<1>4. F \in [D -> [[D -> A] -> A]]
  BY <1>3
<1>5. ASSUME NEW k \in D, NEW g \in [D -> A], NEW h \in [D -> A],
             \A j \in D : rank[j] < rank[k] => g[j] = h[j]
      PROVE  F[k][g] = F[k][h]
  <2>1. CASE k # from
    <3>1. g[k - 1] = h[k - 1]
      BY <1>2, <1>5, <2>1
    <3> QED
      BY <3>1
  <2> QED
    BY <2>1
<1>6. PICK f \in [D -> A] : \A k \in D : f[k] = F[k][f]
  <2>1. \A k \in D : \A g, h \in [D -> A] :
          (\A j \in D : rank[j] < rank[k] => g[j] = h[j]) => F[k][g] = F[k][h]
    <3> HIDE DEF D, rank, F
    <3> QED
      BY <1>5
  <2> HIDE DEF D, rank, bound, F
  <2>2. Recursive(D, A, rank, bound, F)
    BY <1>1, <1>4, <2>1 DEF Recursive
  <2> QED
    BY <2>2, Recursion
<1> QED
  BY <1>6

(* A function that keeps to these values is of this type. *)
Unrolls(from, to, A, first, next, f) ==
  /\ Iterates(from, to, A, first, next)
  /\ f = [k \in from..to |-> f[k]]
  /\ from <= to => f[from] = first
  /\ \A k \in from..to : k # from /\ f[k - 1] \in A => f[k] = next[k][f[k - 1]]

LEMMA Unrolling ==
  ASSUME NEW from, NEW to, NEW A, NEW first, NEW next, NEW f, Unrolls(from, to, A, first, next, f)
  PROVE  f \in [from..to -> A]
<1> DEFINE P == {k \in from..to : f[k] \in A}
<1>1. from \in Int /\ to \in Int /\ first \in A /\ next \in [from..to -> [A -> A]]
  BY DEF Unrolls, Iterates
<1>2. from <= to => from \in P
  BY <1>1 DEF Unrolls
<1>3. ASSUME NEW k \in from..to, k # from, k - 1 \in P PROVE k \in P
  <2>1. f[k] = next[k][f[k - 1]] /\ f[k - 1] \in A /\ next[k] \in [A -> A]
    BY <1>1, <1>3 DEF Unrolls
  <2> QED
    BY <2>1
<1> HIDE DEF P
<1>4. Hereditary(from, to, P)
  BY <1>1, <1>2, <1>3 DEF Hereditary
<1>5. from..to \subseteq P
  BY <1>1, <1>4, IntervalInduction
<1>6. \A k \in from..to : f[k] \in A
  BY <1>5 DEF P
<1> DEFINE D == from..to
<1>7. f = [k \in D |-> f[k]]
  BY DEF Unrolls
<1> HIDE DEF D
<1> QED
  BY <1>6, <1>7 DEF D

-----------------------------------------------------------------------------
(* ... and where it depends on those after it.                              *)
LEMMA DownwardInduction ==
  ASSUME NEW from \in Int, NEW to \in Int, NEW P,
         \A k \in from..to : (\A j \in from..to : j > k => j \in P) => k \in P
  PROVE  from..to \subseteq P
<1> DEFINE D == from..to
           rank == [k \in D |-> to - k]
<1>1. rank \in [D -> Nat]
  OBVIOUS
<1>2. \A k \in D : (\A j \in D : rank[j] < rank[k] => j \in P) => k \in P
  <2> SUFFICES ASSUME NEW k \in D, \A j \in D : rank[j] < rank[k] => j \in P PROVE k \in P
    OBVIOUS
  <2>1. \A j \in D : j > k => rank[j] < rank[k]
    OBVIOUS
  <2> QED
    BY <2>1
<1> HIDE DEF D, rank
<1>3. D \subseteq P
  BY <1>1, <1>2, RankInduction
<1> QED
  BY <1>3 DEF D

Descends(from, to, A, F) ==
  /\ from \in Int /\ to \in Int /\ A # {}
  /\ F \in [from..to -> [[from..to -> A] -> A]]
  /\ \A k \in from..to : \A g, h \in [from..to -> A] :
       (\A j \in from..to : j > k => g[j] = h[j]) => F[k][g] = F[k][h]

LEMMA DownwardRecursion ==
  ASSUME NEW from, NEW to, NEW A, NEW F, Descends(from, to, A, F)
  PROVE  \E f \in [from..to -> A] : \A k \in from..to : f[k] = F[k][f]
<1> DEFINE D == from..to
           rank == [k \in D |-> to - k]
           bound == IF from <= to THEN to - from + 1 ELSE 0
<1>1. from \in Int /\ to \in Int
  BY DEF Descends
<1>2. rank \in [D -> Nat] /\ bound \in Nat /\ \A k \in D : rank[k] < bound
  BY <1>1
<1>3. ASSUME NEW k \in D, NEW g \in [D -> A], NEW h \in [D -> A],
             \A j \in D : rank[j] < rank[k] => g[j] = h[j]
      PROVE  F[k][g] = F[k][h]
  <2>1. \A j \in D : j > k => rank[j] < rank[k]
    BY <1>1
  <2>2. \A j \in D : j > k => g[j] = h[j]
    BY <1>3, <2>1
  <2> QED
    BY <2>2 DEF Descends
<1>4. \A k \in D : \A g, h \in [D -> A] :
        (\A j \in D : rank[j] < rank[k] => g[j] = h[j]) => F[k][g] = F[k][h]
  <2> HIDE DEF D, rank
  <2> QED
    BY <1>3
<1>5. F \in [D -> [[D -> A] -> A]] /\ A # {}
  BY DEF Descends
<1> HIDE DEF D, rank, bound
<1>6. Recursive(D, A, rank, bound, F)
  BY <1>2, <1>4, <1>5 DEF Recursive
<1>7. \E f \in [D -> A] : \A k \in D : f[k] = F[k][f]
  BY <1>5, <1>6, Recursion
<1> QED
  BY <1>7 DEF D

(* The usual form: where it does not stop, a value depends on one later one.*)
Jumps(from, to, A, stop, base, next, step) ==
  /\ from \in Int /\ to \in Int /\ base \in A
  /\ \A k \in (from..to) \ stop : next[k] \in from..to /\ next[k] > k
  /\ \A k \in (from..to) \ stop : step[k] \in [A -> A]

LEMMA JumpRecursion ==
  ASSUME NEW from, NEW to, NEW A, NEW stop, NEW base, NEW next, NEW step,
         Jumps(from, to, A, stop, base, next, step)
  PROVE  \E f \in [from..to -> A] :
           \A k \in from..to : f[k] = IF k \in stop THEN base ELSE step[k][f[next[k]]]
<1> DEFINE D == from..to
           body(k, g) == IF k \in stop THEN base ELSE step[k][g[next[k]]]
           F == [k \in D |-> [g \in [D -> A] |-> body(k, g)]]
<1>1. /\ from \in Int /\ to \in Int /\ base \in A
      /\ \A k \in D \ stop : next[k] \in D /\ next[k] > k
      /\ \A k \in D \ stop : step[k] \in [A -> A]
  BY DEF Jumps
<1> HIDE DEF D
<1>2. ASSUME NEW k \in D, NEW g \in [D -> A] PROVE body(k, g) \in A
  <2>1. CASE k \notin stop
    <3>1. g[next[k]] \in A /\ step[k] \in [A -> A]
      BY <1>1, <2>1
    <3> QED
      BY <2>1, <3>1
  <2> QED
    BY <1>1, <2>1
<1>3. F \in [D -> [[D -> A] -> A]]
  <2> HIDE DEF body
  <2> QED
    BY <1>2
<1>4. ASSUME NEW k \in D, NEW g \in [D -> A], NEW h \in [D -> A],
             \A j \in D : j > k => g[j] = h[j]
      PROVE  F[k][g] = F[k][h]
  <2>1. body(k, g) = body(k, h)
    BY <1>1, <1>4
  <2> HIDE DEF body
  <2> QED
    BY <2>1
<1>5. \A k \in D : \A g, h \in [D -> A] : (\A j \in D : j > k => g[j] = h[j]) => F[k][g] = F[k][h]
  <2> HIDE DEF F
  <2> QED
    BY <1>4
<1> HIDE DEF F
<1>6. Descends(from, to, A, F)
  BY <1>1, <1>3, <1>5, Zenon DEF Descends, D
<1>7. PICK f \in [D -> A] : \A k \in D : f[k] = F[k][f]
  BY <1>6, DownwardRecursion DEF D
<1>8. \A k \in D : f[k] = body(k, f)
  <2> HIDE DEF body
  <2> QED
    BY <1>7 DEF F
<1> QED
  BY <1>8 DEF D

(* A function that keeps to these values is of this type. *)
JumpsTo(from, to, A, stop, base, next, step, f) ==
  /\ Jumps(from, to, A, stop, base, next, step)
  /\ f = [k \in from..to |-> f[k]]
  /\ \A k \in from..to : IF k \in stop THEN f[k] = base
                         ELSE f[next[k]] \in A => f[k] = step[k][f[next[k]]]

LEMMA JumpTyping ==
  ASSUME NEW from, NEW to, NEW A, NEW stop, NEW base, NEW next, NEW step, NEW f,
         JumpsTo(from, to, A, stop, base, next, step, f)
  PROVE  f \in [from..to -> A]
<1> DEFINE P == {k \in from..to : f[k] \in A}
<1>1. /\ from \in Int /\ to \in Int /\ base \in A
      /\ \A k \in (from..to) \ stop : next[k] \in from..to /\ next[k] > k
      /\ \A k \in (from..to) \ stop : step[k] \in [A -> A]
      /\ \A k \in from..to : IF k \in stop THEN f[k] = base
                             ELSE f[next[k]] \in A => f[k] = step[k][f[next[k]]]
  BY DEF Jumps, JumpsTo
<1>2. ASSUME NEW k \in from..to, \A j \in from..to : j > k => j \in P PROVE k \in P
  <2>1. CASE k \in stop
    BY <1>1, <2>1
  <2>2. CASE k \notin stop
    <3>1. f[next[k]] \in A
      BY <1>1, <1>2, <2>2
    <3>2. step[k] \in [A -> A] /\ f[k] = step[k][f[next[k]]]
      BY <1>1, <2>2, <3>1
    <3> QED
      BY <3>1, <3>2
  <2> QED
    BY <2>1, <2>2
<1> HIDE DEF P
<1>3. from..to \subseteq P
  BY <1>1, <1>2, DownwardInduction
<1> DEFINE D == from..to
<1>4. \A k \in D : f[k] \in A
  BY <1>3 DEF P
<1>5. f = [k \in D |-> f[k]]
  BY DEF JumpsTo
<1> HIDE DEF D
<1> QED
  BY <1>4, <1>5 DEF D
=============================================================================
