------------------------ MODULE TableStatementProofs ------------------------
(***************************************************************************)
(* Proofs about TableStatement and HiveStrings: for any statements.        *)
(***************************************************************************)
EXTENDS TableStatement, RecursiveFunctions, SequenceTheorems, FiniteSetTheorems, TLAPS

-----------------------------------------------------------------------------
(* Texts that are written and read again.  From position p on, `text` is w. *)
Ends(text, p, w) ==
  /\ p \in 1..(Len(text) + 1) /\ Len(text) = p - 1 + Len(w)
  /\ \A i \in 1..Len(w) : text[p - 1 + i] = w[i]

LEMMA EndsSplit ==
  ASSUME NEW text \in Seq(Nat), NEW p \in Int, NEW a \in Seq(Nat), NEW w \in Seq(Nat), Ends(text, p, a \o w)
  PROVE  /\ p \in 1..(Len(text) + 1) /\ p + Len(a) \in 1..(Len(text) + 1) /\ Ends(text, p + Len(a), w)
         /\ Len(text) = p - 1 + Len(a) + Len(w)
         /\ \A i \in 1..Len(a) : text[p - 1 + i] = a[i]
<1>1. /\ Len(a) \in Nat /\ Len(w) \in Nat /\ Len(text) \in Nat
      /\ Len(a \o w) = Len(a) + Len(w)
      /\ \A i \in 1..(Len(a) + Len(w)) : (a \o w)[i] = IF i <= Len(a) THEN a[i] ELSE w[i - Len(a)]
  BY ConcatProperties
<1> DEFINE m == Len(a)
           n == Len(w)
           c == a \o w
<1>2. /\ p \in 1..(Len(text) + 1) /\ Len(text) = p - 1 + (m + n)
      /\ \A i \in 1..(m + n) : text[p - 1 + i] = c[i]
  BY <1>1 DEF Ends
<1>3. ASSUME NEW i \in 1..m PROVE text[p - 1 + i] = a[i]
  <2>1. i \in 1..(m + n) /\ i <= m
    BY <1>1
  <2>2. c[i] = a[i]
    BY <1>1, <2>1
  <2> HIDE DEF c, m, n
  <2> QED
    BY <1>2, <2>1, <2>2
<1>4. ASSUME NEW i \in 1..n PROVE text[p + m - 1 + i] = w[i]
  <2>1. m + i \in 1..(m + n) /\ (m + i) - m = i /\ ~ (m + i <= m)
    BY <1>1
  <2>2. c[m + i] = w[i]
    BY <1>1, <2>1
  <2>3. text[p - 1 + (m + i)] = c[m + i]
    BY <1>2, <2>1
  <2>4. p - 1 + (m + i) = p + m - 1 + i
    BY <1>1, <1>2
  <2> QED
    BY <2>2, <2>3, <2>4
<1>5. p + m \in 1..(Len(text) + 1) /\ Len(text) = p + m - 1 + n
  BY <1>1, <1>2
<1>6. Ends(text, p + m, w)
  <2>1. \A r \in 1..(Len(text) + 1) :
          Len(text) = r - 1 + Len(w) /\ (\A i \in 1..Len(w) : text[r - 1 + i] = w[i]) => Ends(text, r, w)
    BY DEF Ends
  <2> QED
    <3>1. p \in Int /\ m \in Int /\ n \in Int /\ p + m \in Int
      BY <1>1, <1>2
    <3> HIDE DEF m, n
    <3> QED
      BY <1>4, <1>5, <2>1, <3>1 DEF n
<1> QED
  BY <1>1, <1>2, <1>3, <1>5, <1>6

(* A text is at its own first position, or at the second after one more.    *)
LEMMA EndsAtOnce ==
  ASSUME NEW w \in Seq(Nat), NEW c \in Nat, NEW text, text = <<c>> \o w
  PROVE  text \in Seq(Nat) /\ Ends(text, 2, w) /\ text[1] = c /\ Len(text) = 1 + Len(w)
<1>1. /\ <<c>> \in Seq(Nat) /\ Len(<<c>>) = 1
  OBVIOUS
<1>2. /\ <<c>> \o w \in Seq(Nat) /\ Len(<<c>> \o w) = 1 + Len(w) /\ Len(w) \in Nat
      /\ \A i \in 1..(1 + Len(w)) : (<<c>> \o w)[i] = IF i <= 1 THEN <<c>>[i] ELSE w[i - 1]
  BY <1>1, ConcatProperties
<1>3. text[1] = c
  BY <1>2
<1>4. ASSUME NEW i \in 1..Len(w) PROVE text[2 - 1 + i] = w[i]
  <2>1. 1 + i \in 1..(1 + Len(w)) /\ ~ (1 + i <= 1) /\ (1 + i) - 1 = i /\ 2 - 1 + i = 1 + i
    BY <1>2
  <2> QED
    BY <1>2, <2>1
<1> QED
  BY <1>2, <1>3, <1>4 DEF Ends

LEMMA TwoAtOnce ==
  ASSUME NEW a \in Nat, NEW b \in Nat
  PROVE  <<a>> \o <<b>> = <<a, b>>
<1>1. <<a>> \in Seq(Nat) /\ <<b>> \in Seq(Nat) /\ <<a, b>> \in Seq(Nat)
      /\ Len(<<a>>) = 1 /\ Len(<<b>>) = 1 /\ Len(<<a, b>>) = 2
      /\ <<a>>[1] = a /\ <<b>>[1] = b /\ <<a, b>>[1] = a /\ <<a, b>>[2] = b
  OBVIOUS
<1> DEFINE c == <<a>> \o <<b>>
           d == <<a, b>>
<1>2. c \in Seq(Nat) /\ Len(c) = 2 /\ c[1] = a /\ c[2] = b
  <2>1. /\ c \in Seq(Nat) /\ Len(c) = 1 + 1
        /\ \A i \in 1..(1 + 1) : c[i] = IF i <= 1 THEN <<a>>[i] ELSE <<b>>[i - 1]
    BY <1>1, ConcatProperties
  <2> HIDE DEF c
  <2> QED
    BY <1>1, <2>1
<1>3. \A i \in 1..2 : c[i] = d[i]
  <2> HIDE DEF c, d
  <2>1. \A i \in 1..2 : i = 1 \/ i = 2
    OBVIOUS
  <2> QED
    BY <1>1, <1>2, <2>1 DEF d
<1> HIDE DEF c, d
<1>4. c = d
  BY <1>1, <1>2, <1>3, SeqEqual DEF d
<1> QED
  BY <1>4 DEF c, d

(* The rest of a value from k on. *)
Rest(value, k) == SubSeq(value, k, Len(value))

LEMMA RestIs ==
  ASSUME NEW value \in Seq(Nat), NEW k \in 1..(Len(value) + 1)
  PROVE  /\ Rest(value, k) \in Seq(Nat)
         /\ k = Len(value) + 1 => Rest(value, k) = <<>>
         /\ k <= Len(value) => Rest(value, k) = <<value[k]>> \o Rest(value, k + 1)
         /\ k < Len(value) => Rest(value, k) = <<value[k], value[k + 1]>> \o Rest(value, k + 2)
<1>1. Len(value) \in Nat /\ \A i \in 1..Len(value) : value[i] \in Nat
  OBVIOUS
<1>2. Rest(value, k) \in Seq(Nat)
  <2>1. \A i \in k..Len(value) : value[i] \in Nat
    BY <1>1
  <2> QED
    BY <1>1, <2>1, SubSeqProperties DEF Rest
<1>3. ASSUME k = Len(value) + 1 PROVE Rest(value, k) = <<>>
  BY <1>1, <1>3, SubSeqEmpty DEF Rest
<1>4. \A m \in 1..Len(value) : Rest(value, m) = <<value[m]>> \o Rest(value, m + 1)
  <2> TAKE m \in 1..Len(value)
  <2>1. Len(value) \in m..Len(value)
    BY <1>1
  <2> QED
    BY <2>1, SubSeqRecursiveFirst DEF Rest
<1>5. ASSUME k < Len(value) PROVE Rest(value, k) = <<value[k], value[k + 1]>> \o Rest(value, k + 2)
  <2>1. k \in 1..Len(value) /\ k + 1 \in 1..Len(value) /\ (k + 1) + 1 = k + 2
    BY <1>1, <1>5
  <2>2. Rest(value, k) = <<value[k]>> \o (<<value[k + 1]>> \o Rest(value, k + 2))
    <3>1. Rest(value, k) = <<value[k]>> \o Rest(value, k + 1)
      BY <1>4, <2>1
    <3>2. Rest(value, k + 1) = <<value[k + 1]>> \o Rest(value, k + 2)
      BY <1>4, <2>1
    <3> QED
      BY <3>1, <3>2
  <2>3. Rest(value, k + 2) \in Seq(Nat)
    <3>1. \A i \in (k + 2)..Len(value) : value[i] \in Nat
      BY <1>1
    <3> QED
      BY <1>1, <3>1, SubSeqProperties DEF Rest
  <2>4. <<value[k]>> \in Seq(Nat) /\ <<value[k + 1]>> \in Seq(Nat)
    BY <1>1, <2>1
  <2>5. <<value[k]>> \o <<value[k + 1]>> = <<value[k], value[k + 1]>>
    BY <2>4, TwoAtOnce
  <2> QED
    BY <2>2, <2>3, <2>4, <2>5, ConcatAssociative
<1>6. ASSUME k <= Len(value) PROVE Rest(value, k) = <<value[k]>> \o Rest(value, k + 1)
  BY <1>1, <1>4, <1>6
<1> QED
  BY <1>2, <1>3, <1>5, <1>6

(* All of these functions put together, from the last position to the       *)
(* first, what single positions are written as; `base` is the end of it.    *)
Piecewise(from, to, stop, first, next) ==
  /\ from \in Int /\ to \in Int
  /\ \A k \in (from..to) \ stop : next[k] \in from..to /\ next[k] > k
  /\ \A k \in (from..to) \ stop : first[k] \in Seq(Nat)
Pieces(from, to, stop, base, first, next, f) ==
  f = [k \in from..to |-> IF k \in stop THEN base ELSE first[k] \o f[next[k]]]

LEMMA PiecesDefined ==
  ASSUME NEW from, NEW to, NEW stop, NEW base \in Seq(Nat), NEW first, NEW next,
         Piecewise(from, to, stop, first, next)
  PROVE  /\ \E f : Pieces(from, to, stop, base, first, next, f)
         /\ \A f : Pieces(from, to, stop, base, first, next, f) => f \in [from..to -> Seq(Nat)]
<1> DEFINE D == from..to
           A == Seq(Nat)
           step == [k \in D |-> [r \in A |-> first[k] \o r]]
<1>1. /\ from \in Int /\ to \in Int
      /\ \A k \in D \ stop : next[k] \in D /\ next[k] > k
      /\ \A k \in D \ stop : first[k] \in A
  BY DEF Piecewise
<1>2. \A k \in D \ stop : \A r \in A : first[k] \o r \in A
  BY <1>1, ConcatProperties
<1>3. \A k \in D \ stop : step[k] \in [A -> A] /\ \A r \in A : step[k][r] = first[k] \o r
  <2> HIDE DEF A
  <2> QED
    BY <1>2
<1> HIDE DEF A, step
<1>4. Jumps(from, to, A, stop, base, next, step)
  BY <1>1, <1>3 DEF Jumps, A
<1>5. \E f : Pieces(from, to, stop, base, first, next, f)
  <2>1. PICK f \in [D -> A] : \A k \in D : f[k] = IF k \in stop THEN base ELSE step[k][f[next[k]]]
    BY <1>4, JumpRecursion
  <2> HIDE DEF D
  <2>2. \A k \in D : f[k] = IF k \in stop THEN base ELSE first[k] \o f[next[k]]
    <3> SUFFICES ASSUME NEW k \in D PROVE f[k] = IF k \in stop THEN base ELSE first[k] \o f[next[k]]
      OBVIOUS
    <3>1. CASE k \in stop
      BY <2>1, <3>1
    <3>2. CASE k \notin stop
      <4>1. f[next[k]] \in A
        BY <1>1, <3>2
      <4> QED
        BY <1>3, <2>1, <3>2, <4>1
    <3> QED
      BY <3>1, <3>2
  <2>3. f = [k \in D |-> IF k \in stop THEN base ELSE first[k] \o f[next[k]]]
    BY <2>2
  <2> QED
    BY <2>3 DEF Pieces, D
<1>6. ASSUME NEW f, Pieces(from, to, stop, base, first, next, f) PROVE f \in [D -> A]
  <2> HIDE DEF D
  <2>1. f = [k \in D |-> IF k \in stop THEN base ELSE first[k] \o f[next[k]]]
    BY <1>6 DEF Pieces, D
  <2>2. f = [k \in D |-> f[k]] /\ \A k \in D : f[k] = IF k \in stop THEN base ELSE first[k] \o f[next[k]]
    BY <2>1
  <2>3. \A k \in D : IF k \in stop THEN f[k] = base ELSE f[next[k]] \in A => f[k] = step[k][f[next[k]]]
    <3> SUFFICES ASSUME NEW k \in D
                 PROVE  IF k \in stop THEN f[k] = base ELSE f[next[k]] \in A => f[k] = step[k][f[next[k]]]
      OBVIOUS
    <3>1. CASE k \in stop
      BY <2>2, <3>1
    <3>2. CASE k \notin stop
      BY <1>3, <2>2, <3>2
    <3> QED
      BY <3>1, <3>2
  <2>4. JumpsTo(from, to, A, stop, base, next, step, f)
    BY <1>4, <2>2, <2>3, Zenon DEF JumpsTo, D
  <2> QED
    BY <2>4, JumpTyping DEF D
<1> QED
  BY <1>5, <1>6 DEF A

(* greenplum_string and PostgreSQL: each character of the value is one or   *)
(* two of the text.                                                         *)
GreenplumWrites(value, from) ==
  from = [k \in 1..(Len(value) + 1) |->
            IF k > Len(value) THEN <<SingleQuote>>
            ELSE (IF value[k] \in {Backslash, SingleQuote} THEN <<value[k], value[k]>>
                  ELSE <<value[k]>>) \o from[k + 1]]
GreenplumSays(text, from) ==
  from = [k \in 2..(Len(text) + 1) |->
            IF k >= Len(text) THEN <<>>
            ELSE IF text[k] \in {Backslash, SingleQuote} THEN <<text[k + 1]>> \o from[k + 2]
            ELSE <<text[k]>> \o from[k + 1]]

LEMMA GreenplumWritten ==
  ASSUME NEW value \in Seq(Nat)
  PROVE  \E from \in [1..(Len(value) + 1) -> Seq(Nat)] :
           GreenplumWrites(value, from) /\ GreenplumString(value) = <<SingleQuote>> \o from[1]
<1> DEFINE D == 1..(Len(value) + 1)
           first == [k \in D |-> IF value[k] \in {Backslash, SingleQuote} THEN <<value[k], value[k]>>
                                 ELSE <<value[k]>>]
           stop == {k \in D : k > Len(value)}
           next == [k \in D |-> k + 1]
           written(f) == Pieces(1, Len(value) + 1, stop, <<SingleQuote>>, first, next, f)
           c == CHOOSE from : GreenplumWrites(value, from)
<1>1. Len(value) \in Nat /\ <<SingleQuote>> \in Seq(Nat)
  BY DEF SingleQuote
<1>2. \A k \in D \ stop : first[k] \in Seq(Nat)
  <2> SUFFICES ASSUME NEW k \in D \ stop PROVE first[k] \in Seq(Nat)
    OBVIOUS
  <2>1. value[k] \in Nat
    BY <1>1
  <2>2. <<value[k]>> \in Seq(Nat) /\ <<value[k], value[k]>> \in Seq(Nat)
    BY <2>1
  <2> QED
    BY <2>2
<1>3. \A k \in D \ stop : next[k] \in D /\ next[k] > k
  BY <1>1
<1>4. Piecewise(1, Len(value) + 1, stop, first, next)
  <2> HIDE DEF stop, first, next
  <2> QED
    BY <1>1, <1>2, <1>3 DEF Piecewise
<1>5. \A f : GreenplumWrites(value, f) <=> written(f)
  BY DEF GreenplumWrites, Pieces
<1>6. (\E f : written(f)) /\ (\A f : written(f) => f \in [D -> Seq(Nat)])
  <2> HIDE DEF stop, first, next
  <2> QED
    BY <1>1, <1>4, PiecesDefined
<1>7. GreenplumWrites(value, c) /\ c \in [D -> Seq(Nat)]
  <2> HIDE DEF written
  <2> QED
    BY <1>5, <1>6
<1>8. GreenplumString(value) = <<SingleQuote>> \o c[1]
  BY DEF GreenplumString, GreenplumWrites
<1> QED
  BY <1>7, <1>8

(* What PostgreSQL reads in what greenplum_string of sql.py has written is  *)
(* the value, for every text.                                               *)
THEOREM GreenplumReadsBack ==
  ASSUME NEW value \in Seq(Nat)
  PROVE  GreenplumReads(GreenplumString(value)) = value
<1> DEFINE n == Len(value)
           text == GreenplumString(value)
<1>1. n \in Nat /\ \A k \in 1..n : value[k] \in Nat
  OBVIOUS
<1>0. /\ \A k \in 1..(n + 1) : k = n + 1 => Rest(value, k) = <<>>
      /\ \A k \in 1..(n + 1) : k <= n => Rest(value, k) = <<value[k]>> \o Rest(value, k + 1)
      /\ Rest(value, 1) = value
  BY RestIs, SubSeqFull DEF Rest
<1>2. PICK w \in [1..(n + 1) -> Seq(Nat)] : GreenplumWrites(value, w) /\ text = <<SingleQuote>> \o w[1]
  BY GreenplumWritten
<1> HIDE DEF text
<1>w. \A k \in 1..(n + 1) : w[k] \in Seq(Nat)
  OBVIOUS
<1> DEFINE double(k) == value[k] \in {Backslash, SingleQuote}
<1>3. /\ w[n + 1] = <<SingleQuote>>
      /\ \A k \in 1..n : double(k) => w[k] = <<value[k], value[k]>> \o w[k + 1]
      /\ \A k \in 1..n : ~ double(k) => w[k] = <<value[k]>> \o w[k + 1]
  <2>1. \A k \in 1..(n + 1) :
        w[k] = IF k > n THEN <<SingleQuote>>
               ELSE (IF double(k) THEN <<value[k], value[k]>> ELSE <<value[k]>>) \o w[k + 1]
    BY <1>2 DEF GreenplumWrites
  <2>2. \A k \in 1..n : k \in 1..(n + 1) /\ ~ (k > n)
    BY <1>1
  <2>3. n + 1 \in 1..(n + 1) /\ n + 1 > n
    BY <1>1
  <2> HIDE DEF n, double
  <2> QED
    BY <2>1, <2>2, <2>3
<1> HIDE DEF n
<1>4. text \in Seq(Nat) /\ Ends(text, 2, w[1]) /\ Len(text) \in Nat
  <2>1. w[1] \in Seq(Nat) /\ SingleQuote \in Nat
    BY <1>1, <1>w DEF SingleQuote
  <2>2. text \in Seq(Nat) /\ Ends(text, 2, w[1])
    BY <1>2, <2>1, EndsAtOnce
  <2> QED
    BY <2>2
<1> DEFINE D == 2..(Len(text) + 1)
           first == [k \in D |-> IF text[k] \in {Backslash, SingleQuote} THEN <<text[k + 1]>> ELSE <<text[k]>>]
           next == [k \in D |-> IF text[k] \in {Backslash, SingleQuote} THEN k + 2 ELSE k + 1]
           stop == {k \in D : k >= Len(text)}
           said(f) == Pieces(2, Len(text) + 1, stop, <<>>, first, next, f)
           c == CHOOSE from : GreenplumSays(text, from)
<1>5. \A k \in D \ stop : first[k] \in Seq(Nat) /\ next[k] \in D /\ next[k] > k
  <2> SUFFICES ASSUME NEW k \in D \ stop PROVE first[k] \in Seq(Nat) /\ next[k] \in D /\ next[k] > k
    OBVIOUS
  <2>1. k \in 1..Len(text) /\ k + 1 \in 1..Len(text)
    BY <1>4
  <2>2. text[k] \in Nat /\ text[k + 1] \in Nat
    BY <1>4, <2>1, ElementOfSeq
  <2>3. <<text[k]>> \in Seq(Nat) /\ <<text[k + 1]>> \in Seq(Nat)
    BY <2>2
  <2>4. next[k] \in D /\ next[k] > k
    BY <1>4, <2>1
  <2> QED
    BY <2>3, <2>4
<1>6. Piecewise(2, Len(text) + 1, stop, first, next)
  <2> HIDE DEF stop, first, next
  <2> QED
    BY <1>4, <1>5 DEF Piecewise
<1>7. \A f : GreenplumSays(text, f) <=> said(f)
  <2> SUFFICES ASSUME NEW f PROVE GreenplumSays(text, f) <=> said(f)
    OBVIOUS
  <2>1. \A k \in D :
          (IF k >= Len(text) THEN <<>>
           ELSE IF text[k] \in {Backslash, SingleQuote} THEN <<text[k + 1]>> \o f[k + 2]
           ELSE <<text[k]>> \o f[k + 1])
          = IF k \in stop THEN <<>> ELSE first[k] \o f[next[k]]
    OBVIOUS
  <2> HIDE DEF stop, first, next
  <2> QED
    BY <2>1 DEF GreenplumSays, Pieces
<1>8. (\E f : said(f)) /\ (\A f : said(f) => f \in [D -> Seq(Nat)])
  <2>1. <<>> \in Seq(Nat)
    OBVIOUS
  <2> HIDE DEF stop, first, next
  <2> QED
    BY <1>6, <2>1, PiecesDefined
<1>9. GreenplumSays(text, c)
  <2> HIDE DEF said
  <2> QED
    BY <1>7, <1>8
<1>10. GreenplumReads(text) = c[2]
  BY DEF GreenplumReads, GreenplumSays
<1> HIDE DEF c
<1> DEFINE m == Len(text)
           escaped(p) == text[p] \in {Backslash, SingleQuote}
<1>11. /\ \A p \in D : p >= m => c[p] = <<>>
       /\ \A p \in D : p < m /\ escaped(p) => c[p] = <<text[p + 1]>> \o c[p + 2]
       /\ \A p \in D : p < m /\ ~ escaped(p) => c[p] = <<text[p]>> \o c[p + 1]
  <2>1. \A p \in D : c[p] = IF p >= m THEN <<>>
                            ELSE IF escaped(p) THEN <<text[p + 1]>> \o c[p + 2]
                            ELSE <<text[p]>> \o c[p + 1]
    BY <1>9 DEF GreenplumSays
  <2>2. m \in Int /\ D \subseteq Int
    BY <1>4
  <2> HIDE DEF m, D, escaped
  <2>3. \A p \in D : p < m <=> ~ (p >= m)
    BY <2>2
  <2> QED
    BY <2>1, <2>3
<1>d. m \in Nat /\ D = 2..(m + 1)
  BY <1>4
<1>e. /\ text \in Seq(Nat)
      /\ \A p \in Int : \A v : Ends(text, p, v) => m = p - 1 + Len(v) /\ p \in 1..(m + 1)
  BY <1>4 DEF Ends
<1>f. \A p \in Int : \A a, v \in Seq(Nat) : Ends(text, p, a \o v) =>
        /\ p + Len(a) \in 1..(m + 1) /\ Ends(text, p + Len(a), v) /\ m = p - 1 + Len(a) + Len(v)
        /\ \A i \in 1..Len(a) : text[p - 1 + i] = a[i]
  <2> HIDE DEF D, stop, first, next, double, escaped, said
  <2> QED
    BY <1>4, EndsSplit
<1> HIDE DEF m, n, double, escaped
<1> HIDE DEF D, stop, first, next
<1>g. \A k \in 1..(n + 1) : Len(w[k]) >= 1
  <2> SUFFICES ASSUME NEW k \in 1..(n + 1) PROVE Len(w[k]) >= 1
    OBVIOUS
  <2>1. CASE k = n + 1
    <3>1. Len(<<SingleQuote>>) = 1
      OBVIOUS
    <3>2. w[k] = <<SingleQuote>>
      BY <1>3, <2>1, Zenon
    <3> QED
      BY <3>1, <3>2
  <2>2. CASE k \in 1..n
    <3>1. value[k] \in Nat /\ k + 1 \in 1..(n + 1)
      BY <1>1, <2>2
    <3>2. /\ <<value[k]>> \in Seq(Nat) /\ <<value[k], value[k]>> \in Seq(Nat)
          /\ Len(<<value[k]>>) = 1 /\ Len(<<value[k], value[k]>>) = 2
      BY <3>1
    <3>3. PICK a \in Seq(Nat) : Len(a) >= 1 /\ w[k] = a \o w[k + 1]
      <4>1. CASE double(k)
        <5>1. w[k] = <<value[k], value[k]>> \o w[k + 1]
          BY <1>3, <2>2, <4>1, Zenon
        <5>2. Len(<<value[k], value[k]>>) >= 1
          BY <3>2
        <5> QED
          BY <3>2, <5>1, <5>2, Zenon
      <4>2. CASE ~ double(k)
        <5>1. w[k] = <<value[k]>> \o w[k + 1]
          BY <1>3, <2>2, <4>2, Zenon
        <5>2. Len(<<value[k]>>) >= 1
          BY <3>2
        <5> QED
          BY <3>2, <5>1, <5>2, Zenon
      <4> QED
        BY <4>1, <4>2
    <3>4. Len(a \o w[k + 1]) = Len(a) + Len(w[k + 1]) /\ Len(w[k + 1]) \in Nat
      BY <1>w, <3>1, ConcatProperties
    <3> QED
      BY <3>3, <3>4
  <2> QED
    BY <1>1, <2>1, <2>2
<1> DEFINE Right == {k \in 1..(n + 1) : \A p \in D : Ends(text, p, w[k]) => c[p] = Rest(value, k)}
<1>12. ASSUME NEW k \in 1..(n + 1), \A j \in 1..(n + 1) : j > k => j \in Right
       PROVE  k \in Right
  <2> SUFFICES ASSUME NEW p \in D, Ends(text, p, w[k]) PROVE c[p] = Rest(value, k)
    OBVIOUS
  <2>0. p \in Int /\ k \in Int
    BY <1>d
  <2>1. CASE k = n + 1
    <3>1. w[k] = <<SingleQuote>>
      BY <1>3, <2>1
    <3>2. m = p - 1 + 1
      <4>1. Len(<<SingleQuote>>) = 1
        OBVIOUS
      <4> QED
        BY <1>e, <2>0, <3>1, <4>1
    <3>3. c[p] = <<>>
      BY <1>11, <2>0, <3>2
    <3> QED
      BY <1>0, <2>1, <3>3
  <2>2. CASE k \in 1..n /\ double(k)
    <3> DEFINE a == <<value[k], value[k]>>
    <3>1. /\ value[k] \in Nat /\ k + 1 \in 1..(n + 1) /\ k + 1 > k /\ k <= n
      BY <1>1, <2>2
    <3>2. a \in Seq(Nat) /\ Len(a) = 2 /\ a[1] = value[k] /\ a[2] = value[k]
      BY <3>1
    <3> HIDE DEF a
    <3>3. Ends(text, p, a \o w[k + 1]) /\ w[k + 1] \in Seq(Nat)
      BY <1>3, <1>w, <2>2, <3>1, Zenon DEF a
    <3>4. /\ p + 2 \in 1..(m + 1) /\ Ends(text, p + 2, w[k + 1])
          /\ m = p - 1 + 2 + Len(w[k + 1]) /\ \A i \in 1..2 : text[p - 1 + i] = a[i]
      <4>1. /\ p + Len(a) \in 1..(m + 1) /\ Ends(text, p + Len(a), w[k + 1])
            /\ m = p - 1 + Len(a) + Len(w[k + 1])
            /\ \A i \in 1..Len(a) : text[p - 1 + i] = a[i]
        BY <1>f, <2>0, <3>2, <3>3, Zenon
      <4> QED
        BY <3>2, <4>1
    <3>5. text[p] = value[k] /\ text[p + 1] = value[k]
      <4>1. 1 \in 1..2 /\ 2 \in 1..2 /\ p - 1 + 1 = p /\ p - 1 + 2 = p + 1
        BY <2>0
      <4> QED
        BY <3>2, <3>4, <4>1
    <3>6. p + 2 \in D /\ p < m
      <4>1. p + 2 \in 1..(m + 1)
        BY <3>4
      <4> QED
        BY <1>d, <2>0, <4>1
    <3>7. escaped(p)
      BY <2>2, <3>5 DEF escaped, double
    <3>8. c[p] = <<text[p + 1]>> \o c[p + 2]
      BY <1>11, <3>6, <3>7, Zenon
    <3>9. c[p + 2] = Rest(value, k + 1)
      BY <1>12, <3>1, <3>4, <3>6
    <3> QED
      BY <1>0, <3>1, <3>5, <3>8, <3>9
  <2>3. CASE k \in 1..n /\ ~ double(k)
    <3> DEFINE a == <<value[k]>>
    <3>1. /\ value[k] \in Nat /\ k + 1 \in 1..(n + 1) /\ k + 1 > k /\ k <= n
      BY <1>1, <2>3
    <3>2. a \in Seq(Nat) /\ Len(a) = 1 /\ a[1] = value[k]
      BY <3>1
    <3> HIDE DEF a
    <3>3. Ends(text, p, a \o w[k + 1]) /\ w[k + 1] \in Seq(Nat)
      BY <1>3, <1>w, <2>3, <3>1, Zenon DEF a
    <3>4. /\ p + 1 \in 1..(m + 1) /\ Ends(text, p + 1, w[k + 1])
          /\ m = p - 1 + 1 + Len(w[k + 1]) /\ \A i \in 1..1 : text[p - 1 + i] = a[i]
      <4>1. /\ p + Len(a) \in 1..(m + 1) /\ Ends(text, p + Len(a), w[k + 1])
            /\ m = p - 1 + Len(a) + Len(w[k + 1])
            /\ \A i \in 1..Len(a) : text[p - 1 + i] = a[i]
        BY <1>f, <2>0, <3>2, <3>3, Zenon
      <4> QED
        BY <3>2, <4>1
    <3>5. text[p] = value[k]
      <4>1. 1 \in 1..1 /\ p - 1 + 1 = p
        BY <2>0
      <4> QED
        BY <3>2, <3>4, <4>1
    <3>6. Len(w[k + 1]) >= 1
      BY <1>g, <3>1
    <3>7. p + 1 \in D /\ p < m
      BY <1>d, <2>0, <3>4, <3>6
    <3>8. ~ escaped(p)
      BY <2>3, <3>5 DEF escaped, double
    <3>9. c[p] = <<text[p]>> \o c[p + 1]
      BY <1>11, <3>7, <3>8, Zenon
    <3>10. c[p + 1] = Rest(value, k + 1)
      BY <1>12, <3>1, <3>4, <3>7
    <3> QED
      BY <1>0, <3>1, <3>5, <3>9, <3>10
  <2> QED
    BY <1>1, <2>1, <2>2, <2>3
<1> HIDE DEF Right
<1>13. 1..(n + 1) \subseteq Right
  <2>1. 1 \in Int /\ n + 1 \in Int
    BY <1>1
  <2> QED
    BY <1>12, <2>1, DownwardInduction
<1>14. c[2] = Rest(value, 1)
  <2>1. 2 \in D
    BY <1>4, <1>d, <1>e
  <2>2. 1 \in Right
    BY <1>1, <1>13
  <2> QED
    BY <1>4, <2>1, <2>2 DEF Right
<1> QED
  BY <1>0, <1>10, <1>14 DEF text

-----------------------------------------------------------------------------
(* hive_string and _quoted_literal: digits and letters of escapes.          *)
LEMMA HexDigits ==
  /\ \A d \in DOMAIN HexValue : HexValue[d] \in 0..15
  /\ \A n \in 0..15 : Digit(n) \in DOMAIN HexValue /\ HexValue[Digit(n)] = n
<1>1. /\ DOMAIN HexValue = {Digit(n) : n \in 0..15} \cup 65..70
      /\ \A d \in DOMAIN HexValue :
           HexValue[d] = CHOOSE n \in 0..15 : Digit(n) = d \/ (d \in 65..70 /\ n = d - 55)
  BY DEF HexValue
<1>2. ASSUME NEW d \in DOMAIN HexValue PROVE HexValue[d] \in 0..15
  <2>1. \E n \in 0..15 : Digit(n) = d \/ (d \in 65..70 /\ n = d - 55)
    <3>1. CASE d \in {Digit(n) : n \in 0..15}
      BY <3>1
    <3>2. CASE d \in 65..70
      <4>1. d - 55 \in 0..15
        BY <3>2
      <4> QED
        BY <3>2, <4>1
    <3> QED
      BY <1>1, <1>2, <3>1, <3>2
  <2> QED
    BY <1>1, <1>2, <2>1
<1>3. ASSUME NEW n \in 0..15 PROVE Digit(n) \in DOMAIN HexValue /\ HexValue[Digit(n)] = n
  <2>1. Digit(n) \in DOMAIN HexValue
    BY <1>1
  <2>2. \A k \in 0..15 : (Digit(k) = Digit(n) => k = n) /\ Digit(n) \notin 65..70
    BY DEF Digit
  <2>3. HexValue[Digit(n)] = CHOOSE k \in 0..15 : Digit(k) = Digit(n) \/ (Digit(n) \in 65..70 /\ k = Digit(n) - 55)
    BY <1>1, <2>1
  <2> QED
    BY <2>1, <2>2, <2>3
<1> QED
  BY <1>2, <1>3

LEMMA OctalDigits ==
  \A d \in Octal : d \in 48..55
BY DEF Octal, Digit

Coded == {48, 98, 110, 114, 116, 90}
LEMMA LettersAre ==
  /\ DOMAIN Letters = Coded
  /\ Letters[48] = NUL /\ Letters[98] = BS /\ Letters[110] = LF
  /\ Letters[114] = CR /\ Letters[116] = TAB /\ Letters[90] = SUB
BY DEF Letters, Coded

(* What a character of a value is escaped as is read as this character.     *)
Escaped == {SingleQuote, DoubleQuote, BS, LF, CR, TAB, Backslash, SUB}
LEMMA EscapesAre ==
  /\ DOMAIN Escapes = Escaped \cup {NUL}
  /\ \A c \in Escaped :
       /\ Escapes[c] \in Nat /\ Escapes[c] \notin {117, 48, 49, Percent, Underscore}
       /\ IF Escapes[c] \in Coded THEN Letters[Escapes[c]] = c ELSE Escapes[c] = c
<1>1. DOMAIN Escapes = Escaped \cup {NUL}
  BY DEF Escapes, Escaped
<1>2. \A c \in Escaped : Escapes[c] = IF \E l \in Coded : Letters[l] = c
                                      THEN CHOOSE l \in Coded : Letters[l] = c ELSE c
  BY LettersAre DEF Escapes, Escaped
<1>3. \A l \in Coded : \/ l = 48 /\ Letters[l] = 0
                       \/ l = 98 /\ Letters[l] = 8
                       \/ l = 110 /\ Letters[l] = 10
                       \/ l = 114 /\ Letters[l] = 13
                       \/ l = 116 /\ Letters[l] = 9
                       \/ l = 90 /\ Letters[l] = 26
  BY LettersAre DEF Coded, NUL, BS, LF, CR, TAB, SUB
<1>4. ASSUME NEW c \in Escaped
      PROVE  /\ Escapes[c] \in Nat /\ Escapes[c] \notin {117, 48, 49, Percent, Underscore}
             /\ IF Escapes[c] \in Coded THEN Letters[Escapes[c]] = c ELSE Escapes[c] = c
  <2>0. c \in {39, 34, 8, 10, 13, 9, 92, 26}
    BY DEF Escaped, SingleQuote, DoubleQuote, BS, LF, CR, TAB, Backslash, SUB
  <2>1. CASE \E l \in Coded : Letters[l] = c
    <3>1. Escapes[c] \in Coded /\ Letters[Escapes[c]] = c
      BY <1>2, <2>1
    <3>2. Escapes[c] # 48
      BY <1>3, <2>0, <3>1
    <3> QED
      BY <3>1, <3>2 DEF Coded, Percent, Underscore
  <2>2. CASE ~ \E l \in Coded : Letters[l] = c
    <3>1. Escapes[c] = c
      BY <1>2, <2>2
    <3> QED
      BY <2>0, <2>2, <3>1 DEF Percent, Underscore, Coded
  <2> QED
    BY <2>1, <2>2
<1> QED
  BY <1>1, <1>4

(* The cases of an escape.                                                  *)
HexAt(text, k) == \A i \in (k + 2)..(k + 5) : text[i] \in DOMAIN HexValue
UnicodeAt(text, k) == text[k + 1] = 117 /\ k + 6 <= Len(text)
OctalAt(text, k) == /\ k + 3 < Len(text) /\ text[k + 1] \in {48, 49}
                    /\ \A i \in (k + 2)..(k + 3) : text[i] \in Octal
CodeAt(text, k) == Hex(text, k + 2, 3) + Hex(text, k + 3, 2) + Hex(text, k + 4, 1) + Hex(text, k + 5, 0)

LEMMA EscapeIs ==
  ASSUME NEW text, NEW k
  PROVE  /\ UnicodeAt(text, k) => /\ Escape(text, k).length = 6
                                  /\ HexAt(text, k) => Escape(text, k).meaning = {<<CodeAt(text, k)>>}
                                  /\ ~ HexAt(text, k) => Escape(text, k).meaning = {}
         /\ ~ UnicodeAt(text, k) =>
              IF OctalAt(text, k)
              THEN /\ Escape(text, k).length = 4
                   /\ Escape(text, k).meaning = {<<64 * (text[k + 1] - 48) + 8 * (text[k + 2] - 48) + text[k + 3] - 48>>}
              ELSE /\ Escape(text, k).length = 2
                   /\ Escape(text, k).meaning =
                        IF text[k + 1] \in {Percent, Underscore} THEN {<<Backslash, text[k + 1]>>}
                        ELSE IF text[k + 1] \in DOMAIN Letters THEN {<<Letters[text[k + 1]]>>}
                        ELSE {<<text[k + 1]>>}
BY DEF Escape, UnicodeAt, HexAt, OctalAt, CodeAt

Four(a, b, c, d) == 4096 * a + 256 * b + 16 * c + d
LEMMA CodeIs ==
  ASSUME NEW text, NEW k \in Int, HexAt(text, k)
  PROVE  /\ CodeAt(text, k) = Four(HexValue[text[k + 2]], HexValue[text[k + 3]],
                                  HexValue[text[k + 4]], HexValue[text[k + 5]])
         /\ CodeAt(text, k) \in Nat
<1>1. /\ k + 2 \in (k + 2)..(k + 5) /\ k + 3 \in (k + 2)..(k + 5)
      /\ k + 4 \in (k + 2)..(k + 5) /\ k + 5 \in (k + 2)..(k + 5)
  OBVIOUS
<1>2. /\ HexValue[text[k + 2]] \in 0..15 /\ HexValue[text[k + 3]] \in 0..15
      /\ HexValue[text[k + 4]] \in 0..15 /\ HexValue[text[k + 5]] \in 0..15
  BY <1>1, HexDigits DEF HexAt
<1>3. 16^3 = 4096 /\ 16^2 = 256 /\ 16^1 = 16 /\ 16^0 = 1
  OBVIOUS
<1>4. PICK a \in 0..15, b \in 0..15, c \in 0..15, d \in 0..15 :
        /\ a = HexValue[text[k + 2]] /\ b = HexValue[text[k + 3]]
        /\ c = HexValue[text[k + 4]] /\ d = HexValue[text[k + 5]]
  BY <1>2
<1>5. Hex(text, k + 2, 3) = a * 4096 /\ Hex(text, k + 3, 2) = b * 256
      /\ Hex(text, k + 4, 1) = c * 16 /\ Hex(text, k + 5, 0) = d * 1
  BY <1>3, <1>4 DEF Hex
<1>6. CodeAt(text, k) = a * 4096 + b * 256 + c * 16 + d * 1
  BY <1>5 DEF CodeAt
<1>7. a * 4096 + b * 256 + c * 16 + d * 1 = 4096 * a + 256 * b + 16 * c + d
      /\ 4096 * a + 256 * b + 16 * c + d \in Nat
  OBVIOUS
<1>8. CodeAt(text, k) = Four(a, b, c, d) /\ CodeAt(text, k) \in Nat
  BY <1>6, <1>7 DEF Four
<1> QED
  BY <1>4, <1>8, Zenon

(* An escape ends before the literal does, and means a text.                *)
LEMMA EscapeTyped ==
  ASSUME NEW text \in Seq(Nat), NEW k \in 1..(Len(text) - 2)
  PROVE  /\ Escape(text, k).length \in {2, 4, 6} /\ k + Escape(text, k).length <= Len(text)
         /\ Escape(text, k).meaning \in SUBSET Seq(Nat)
<1>1. Len(text) \in Nat /\ k \in Int /\ k + 1 \in 1..Len(text) /\ k + 2 \in 1..Len(text)
  OBVIOUS
<1>2. text[k + 1] \in Nat
  BY <1>1, ElementOfSeq
<1>3. CASE UnicodeAt(text, k)
  <2>1. CASE HexAt(text, k)
    <3>1. CodeAt(text, k) \in Nat
      BY <1>1, <2>1, CodeIs
    <3>2. <<CodeAt(text, k)>> \in Seq(Nat)
      BY <3>1
    <3>3. Escape(text, k).length = 6 /\ Escape(text, k).meaning = {<<CodeAt(text, k)>>}
      BY <1>3, <2>1, EscapeIs
    <3> QED
      BY <1>3, <3>2, <3>3 DEF UnicodeAt
  <2>2. CASE ~ HexAt(text, k)
    BY <1>3, <2>2, EscapeIs DEF UnicodeAt
  <2> QED
    BY <2>1, <2>2
<1>4. CASE ~ UnicodeAt(text, k) /\ OctalAt(text, k)
  <2>1. text[k + 1] \in {48, 49} /\ text[k + 2] \in 48..55 /\ text[k + 3] \in 48..55 /\ k + 3 < Len(text)
    <3>1. k + 2 \in (k + 2)..(k + 3) /\ k + 3 \in (k + 2)..(k + 3)
      BY <1>1
    <3> QED
      BY <1>4, <3>1, OctalDigits DEF OctalAt
  <2> DEFINE c == 64 * (text[k + 1] - 48) + 8 * (text[k + 2] - 48) + text[k + 3] - 48
  <2>2. c \in Nat
    <3> DEFINE x == text[k + 1]
               y == text[k + 2]
               z == text[k + 3]
    <3>1. x \in {48, 49} /\ y \in 48..55 /\ z \in 48..55 /\ c = 64 * (x - 48) + 8 * (y - 48) + z - 48
      BY <2>1
    <3> HIDE DEF x, y, z, c
    <3> QED
      BY <3>1
  <2>3. Escape(text, k).length = 4 /\ Escape(text, k).meaning = {<<c>>}
    BY <1>4, EscapeIs
  <2> HIDE DEF c
  <2>4. <<c>> \in Seq(Nat)
    BY <2>2
  <2> QED
    BY <1>1, <2>1, <2>3, <2>4
<1>5. CASE ~ UnicodeAt(text, k) /\ ~ OctalAt(text, k)
  <2>1. \A l \in DOMAIN Letters : Letters[l] \in Nat
    BY LettersAre DEF Coded, NUL, BS, LF, CR, TAB, SUB
  <2>2. /\ Escape(text, k).length = 2
        /\ \/ Escape(text, k).meaning = {<<Backslash, text[k + 1]>>}
           \/ text[k + 1] \in DOMAIN Letters /\ Escape(text, k).meaning = {<<Letters[text[k + 1]]>>}
           \/ Escape(text, k).meaning = {<<text[k + 1]>>}
    BY <1>5, EscapeIs
  <2>3. Backslash \in Nat
    BY DEF Backslash
  <2>4. /\ <<Backslash, text[k + 1]>> \in Seq(Nat) /\ <<text[k + 1]>> \in Seq(Nat)
        /\ \A l \in DOMAIN Letters : <<Letters[l]>> \in Seq(Nat)
    BY <1>2, <2>1, <2>3
  <2>5. Escape(text, k).meaning \in SUBSET Seq(Nat)
    <3> DEFINE S == Seq(Nat)
    <3> HIDE DEF S
    <3>1. /\ <<Backslash, text[k + 1]>> \in S /\ <<text[k + 1]>> \in S
          /\ \A l \in DOMAIN Letters : <<Letters[l]>> \in S
      BY <2>4 DEF S
    <3>2. \A x \in S : {x} \in SUBSET S
      OBVIOUS
    <3>3. Escape(text, k).meaning \in SUBSET S
      BY <2>2, <3>1, <3>2, Zenon
    <3> QED
      BY <3>3 DEF S
  <2>6. k + 2 <= Len(text)
    BY <1>1
  <2> QED
    BY <2>2, <2>5, <2>6
<1> QED
  BY <1>3, <1>4, <1>5

-----------------------------------------------------------------------------
(* hive_string: what the character, or the pair, at k is written as, and    *)
(* where it goes on.                                                        *)
PairAt(value, k) == k < Len(value) /\ value[k] = Backslash /\ value[k + 1] \in {Percent, Underscore}
Control(c) == <<Backslash, 117, 48, 48, Digit(c \div 16), Digit(c % 16)>>
WrittenAs(c) == IF c \in DOMAIN Escapes THEN <<Backslash, Escapes[c]>>
                ELSE IF c < 32 THEN Control(c) ELSE <<c>>
Token(value, k) == IF PairAt(value, k) THEN <<value[k], value[k + 1]>> ELSE WrittenAs(value[k])
Meant(value, k) == IF PairAt(value, k) THEN <<value[k], value[k + 1]>> ELSE <<value[k]>>
After(value, k) == IF PairAt(value, k) THEN k + 2 ELSE k + 1

HiveWrites(value, from) ==
  from = [k \in 1..(Len(value) + 1) |->
            IF k > Len(value) THEN <<SingleQuote>>
            ELSE IF PairAt(value, k) THEN <<value[k], value[k + 1]>> \o from[k + 2]
            ELSE WrittenAs(value[k]) \o from[k + 1]]

LEMMA ControlIs ==
  ASSUME NEW c \in Nat, c < 32
  PROVE  /\ Digit(c \div 16) \in DOMAIN HexValue /\ HexValue[Digit(c \div 16)] = c \div 16
         /\ Digit(c % 16) \in DOMAIN HexValue /\ HexValue[Digit(c % 16)] = c % 16
         /\ 16 * (c \div 16) + (c % 16) = c
         /\ c \div 16 \in Nat /\ c % 16 \in Nat
         /\ Control(c) \in Seq(Nat) /\ Len(Control(c)) = 6
         /\ Control(c)[1] = Backslash /\ Control(c)[2] = 117 /\ Control(c)[3] = 48 /\ Control(c)[4] = 48
         /\ Control(c)[5] = Digit(c \div 16) /\ Control(c)[6] = Digit(c % 16)
<1>1. c \div 16 \in 0..1 /\ c % 16 \in 0..15 /\ 16 * (c \div 16) + (c % 16) = c
  OBVIOUS
<1>2. c \div 16 \in 0..15
  BY <1>1
<1>3. \A n \in 0..15 : Digit(n) \in Nat
  BY DEF Digit
<1>4. \A x, y \in Nat : LET s == <<Backslash, 117, 48, 48, x, y>> IN
        /\ s \in Seq(Nat) /\ Len(s) = 6 /\ s[1] = Backslash /\ s[2] = 117 /\ s[3] = 48 /\ s[4] = 48
        /\ s[5] = x /\ s[6] = y
  BY DEF Backslash
<1>5. Digit(c \div 16) \in Nat /\ Digit(c % 16) \in Nat
  BY <1>1, <1>2, <1>3
<1>6. /\ Digit(c \div 16) \in DOMAIN HexValue /\ HexValue[Digit(c \div 16)] = c \div 16
      /\ Digit(c % 16) \in DOMAIN HexValue /\ HexValue[Digit(c % 16)] = c % 16
  BY <1>1, <1>2, HexDigits
<1> DEFINE x == Digit(c \div 16)
           y == Digit(c % 16)
<1>7. LET s == <<Backslash, 117, 48, 48, x, y>> IN
        /\ s \in Seq(Nat) /\ Len(s) = 6 /\ s[1] = Backslash /\ s[2] = 117 /\ s[3] = 48 /\ s[4] = 48
        /\ s[5] = x /\ s[6] = y
  <2> HIDE DEF x, y
  <2>1. x \in Nat /\ y \in Nat
    BY <1>5 DEF x, y
  <2> QED
    BY <1>4, <2>1
<1>8. c \div 16 \in Nat /\ c % 16 \in Nat
  BY <1>1
<1> QED
  BY <1>1, <1>6, <1>7, <1>8, Zenon DEF Control

LEMMA TokenTyped ==
  ASSUME NEW value \in Seq(Nat), NEW k \in 1..Len(value)
  PROVE  /\ Token(value, k) \in Seq(Nat) /\ Len(Token(value, k)) >= 1
         /\ Meant(value, k) \in Seq(Nat)
         /\ After(value, k) \in 1..(Len(value) + 1) /\ After(value, k) > k
         /\ Rest(value, k) = Meant(value, k) \o Rest(value, After(value, k))
<1>0. k \in 1..(Len(value) + 1)
  OBVIOUS
<1>1. Len(value) \in Nat /\ value[k] \in Nat /\ k \in Int /\ k <= Len(value)
  BY ElementOfSeq
<1>2. CASE PairAt(value, k)
  <2>1. k < Len(value) /\ k + 1 \in 1..Len(value)
    BY <1>1, <1>2 DEF PairAt
  <2>2. value[k + 1] \in Nat
    BY <2>1, ElementOfSeq
  <2>3. <<value[k], value[k + 1]>> \in Seq(Nat) /\ Len(<<value[k], value[k + 1]>>) = 2
    BY <1>1, <2>2
  <2>4. Rest(value, k) = <<value[k], value[k + 1]>> \o Rest(value, k + 2)
    BY <1>0, <2>1, RestIs
  <2> QED
    BY <1>1, <1>2, <2>1, <2>3, <2>4 DEF Token, Meant, After
<1>3. CASE ~ PairAt(value, k)
  <2>1. <<value[k]>> \in Seq(Nat) /\ Len(<<value[k]>>) = 1
    BY <1>1
  <2>2. Rest(value, k) = <<value[k]>> \o Rest(value, k + 1)
    BY <1>0, <1>1, RestIs
  <2>3. WrittenAs(value[k]) \in Seq(Nat) /\ Len(WrittenAs(value[k])) >= 1
    <3>1. CASE value[k] \in DOMAIN Escapes
      <4>1. Escapes[value[k]] \in Nat
        <5>1. CASE value[k] \in Escaped
          BY <5>1, EscapesAre
        <5>2. CASE value[k] = NUL
          <6>1. Escapes[NUL] = CHOOSE l \in DOMAIN Letters : Letters[l] = NUL
            BY LettersAre DEF Escapes, Coded
          <6>2. \E l \in DOMAIN Letters : Letters[l] = NUL
            BY LettersAre DEF Coded
          <6> QED
            BY <5>2, <6>1, <6>2, LettersAre DEF Coded
        <5> QED
          BY <3>1, <5>1, <5>2, EscapesAre
      <4>2. Backslash \in Nat
        BY DEF Backslash
      <4>3. <<Backslash, Escapes[value[k]]>> \in Seq(Nat) /\ Len(<<Backslash, Escapes[value[k]]>>) = 2
        BY <4>1, <4>2
      <4> QED
        BY <3>1, <4>3 DEF WrittenAs
    <3>2. CASE value[k] \notin DOMAIN Escapes /\ value[k] < 32
      BY <1>1, <3>2, ControlIs DEF WrittenAs
    <3>3. CASE value[k] \notin DOMAIN Escapes /\ ~ (value[k] < 32)
      BY <2>1, <3>3 DEF WrittenAs
    <3> QED
      BY <3>1, <3>2, <3>3
  <2> QED
    BY <1>1, <1>3, <2>1, <2>2, <2>3 DEF Token, Meant, After
<1> QED
  BY <1>2, <1>3

LEMMA HiveWritten ==
  ASSUME NEW value \in Seq(Nat)
  PROVE  \E from \in [1..(Len(value) + 1) -> Seq(Nat)] :
           /\ from[Len(value) + 1] = <<SingleQuote>>
           /\ \A k \in 1..Len(value) : from[k] = Token(value, k) \o from[After(value, k)]
           /\ HiveString(value) = <<SingleQuote>> \o from[1]
<1> DEFINE D == 1..(Len(value) + 1)
           first == [k \in D |-> Token(value, k)]
           stop == {k \in D : k > Len(value)}
           next == [k \in D |-> After(value, k)]
           written(f) == Pieces(1, Len(value) + 1, stop, <<SingleQuote>>, first, next, f)
           c == CHOOSE from : HiveWrites(value, from)
<1>1. Len(value) \in Nat /\ <<SingleQuote>> \in Seq(Nat)
  BY DEF SingleQuote
<1>2. \A k \in D \ stop : k \in 1..Len(value)
  BY <1>1
<1>3. \A k \in D \ stop : first[k] \in Seq(Nat) /\ next[k] \in D /\ next[k] > k
  BY <1>2, TokenTyped
<1>4. Piecewise(1, Len(value) + 1, stop, first, next)
  <2> HIDE DEF stop, first, next
  <2> QED
    BY <1>1, <1>3 DEF Piecewise
<1>5. \A f : HiveWrites(value, f) <=> written(f)
  <2> SUFFICES ASSUME NEW f PROVE HiveWrites(value, f) <=> written(f)
    OBVIOUS
  <2>1. \A k \in D :
          (IF k > Len(value) THEN <<SingleQuote>>
           ELSE IF PairAt(value, k) THEN <<value[k], value[k + 1]>> \o f[k + 2]
           ELSE WrittenAs(value[k]) \o f[k + 1])
          = IF k \in stop THEN <<SingleQuote>> ELSE first[k] \o f[next[k]]
    BY DEF Token, After
  <2> HIDE DEF stop, first, next
  <2> QED
    BY <2>1 DEF HiveWrites, Pieces
<1>6. (\E f : written(f)) /\ (\A f : written(f) => f \in [D -> Seq(Nat)])
  <2> HIDE DEF stop, first, next
  <2> QED
    BY <1>1, <1>4, PiecesDefined
<1>7. written(c) /\ c \in [D -> Seq(Nat)]
  <2> HIDE DEF written
  <2> QED
    BY <1>5, <1>6
<1>8. HiveString(value) = <<SingleQuote>> \o c[1]
  BY DEF HiveString, HiveWrites, PairAt, WrittenAs, Control
<1>9. c = [k \in D |-> IF k \in stop THEN <<SingleQuote>> ELSE first[k] \o c[next[k]]]
  <2> HIDE DEF stop, first, next, c
  <2> QED
    BY <1>7 DEF Pieces
<1> HIDE DEF c
<1>10. c[Len(value) + 1] = <<SingleQuote>>
  <2>1. Len(value) + 1 \in stop /\ Len(value) + 1 \in D
    BY <1>1
  <2> HIDE DEF stop, first, next
  <2> QED
    BY <1>9, <2>1
<1>11. \A k \in 1..Len(value) : c[k] = Token(value, k) \o c[After(value, k)]
  <2> SUFFICES ASSUME NEW k \in 1..Len(value) PROVE c[k] = Token(value, k) \o c[After(value, k)]
    OBVIOUS
  <2>1. k \in D /\ k \notin stop /\ first[k] = Token(value, k) /\ next[k] = After(value, k)
    BY <1>1
  <2> HIDE DEF stop, first, next
  <2> QED
    BY <1>9, <2>1
<1> QED
  BY <1>7, <1>8, <1>10, <1>11

-----------------------------------------------------------------------------
(* _quoted_literal: what is read at p, and where it goes on.                *)
EscapeAt(text, p) == text[p] = Backslash /\ p < Len(text) - 1
Says(text, p) == IF text[p] = text[1] THEN {<<text[1]>>}
                 ELSE IF EscapeAt(text, p) THEN Escape(text, p).meaning ELSE {<<text[p]>>}
Leap(text, p) == IF text[p] = text[1] THEN p + 2
                 ELSE IF EscapeAt(text, p) THEN p + Escape(text, p).length ELSE p + 1
Joins(S, R) == {s \o r : s \in S, r \in R}

LEMMA JoinsIs ==
  \A S, R, x : x \in Joins(S, R) <=> \E s \in S : \E r \in R : x = s \o r
BY DEF Joins

HiveRead(text, k, from) ==
  IF k >= Len(text) THEN {<<>>}
  ELSE IF text[k] = text[1] THEN {<<text[1]>> \o r : r \in from[k + 2]}
  ELSE IF text[k] = Backslash /\ k < Len(text) - 1
  THEN Joins(Escape(text, k).meaning, from[k + Escape(text, k).length])
  ELSE {<<text[k]>> \o r : r \in from[k + 1]}
HiveSays(text, from) == from = [k \in 2..(Len(text) + 1) |-> HiveRead(text, k, from)]

LEMMA HiveReadIs ==
  ASSUME NEW text, NEW k, NEW from
  PROVE  HiveRead(text, k, from) =
           IF k >= Len(text) THEN {<<>>} ELSE Joins(Says(text, k), from[Leap(text, k)])
<1>1. \A x, T : {x \o r : r \in T} = Joins({x}, T)
  BY DEF Joins
<1>2. CASE k >= Len(text)
  BY <1>2 DEF HiveRead
<1>3. CASE ~ (k >= Len(text)) /\ text[k] = text[1]
  <2>1. HiveRead(text, k, from) = {<<text[1]>> \o r : r \in from[k + 2]}
    BY <1>3 DEF HiveRead
  <2>2. Says(text, k) = {<<text[1]>>} /\ Leap(text, k) = k + 2
    BY <1>3 DEF Says, Leap
  <2>3. {<<text[1]>> \o r : r \in from[k + 2]} = Joins({<<text[1]>>}, from[k + 2])
    BY <1>1
  <2> QED
    BY <1>3, <2>1, <2>2, <2>3
<1>4. CASE ~ (k >= Len(text)) /\ text[k] # text[1] /\ EscapeAt(text, k)
  <2>1. HiveRead(text, k, from) = Joins(Escape(text, k).meaning, from[k + Escape(text, k).length])
    BY <1>4 DEF HiveRead, EscapeAt
  <2>2. Says(text, k) = Escape(text, k).meaning /\ Leap(text, k) = k + Escape(text, k).length
    BY <1>4 DEF Says, Leap
  <2> QED
    BY <1>4, <2>1, <2>2
<1>5. CASE ~ (k >= Len(text)) /\ text[k] # text[1] /\ ~ EscapeAt(text, k)
  <2>1. HiveRead(text, k, from) = {<<text[k]>> \o r : r \in from[k + 1]}
    BY <1>5 DEF HiveRead, EscapeAt
  <2>2. Says(text, k) = {<<text[k]>>} /\ Leap(text, k) = k + 1
    BY <1>5 DEF Says, Leap
  <2>3. {<<text[k]>> \o r : r \in from[k + 1]} = Joins({<<text[k]>>}, from[k + 1])
    BY <1>1
  <2> QED
    BY <1>5, <2>1, <2>2, <2>3
<1> QED
  BY <1>2, <1>3, <1>4, <1>5

LEMMA SaysTyped ==
  ASSUME NEW text \in Seq(Nat), NEW p \in 2..Len(text), p < Len(text)
  PROVE  Says(text, p) \in SUBSET Seq(Nat) /\ Leap(text, p) \in 2..(Len(text) + 1) /\ Leap(text, p) > p
<1>1. Len(text) \in Nat /\ p \in Int /\ p \in 1..Len(text) /\ 1 \in 1..Len(text)
  OBVIOUS
<1>2. text[p] \in Nat /\ text[1] \in Nat
  BY <1>1, ElementOfSeq
<1>3. <<text[p]>> \in Seq(Nat) /\ <<text[1]>> \in Seq(Nat)
  BY <1>2
<1>4. CASE text[p] = text[1]
  BY <1>1, <1>3, <1>4 DEF Says, Leap
<1>5. CASE text[p] # text[1] /\ EscapeAt(text, p)
  <2>1. p \in 1..(Len(text) - 2)
    BY <1>1, <1>5 DEF EscapeAt
  <2>2. /\ Escape(text, p).length \in {2, 4, 6} /\ p + Escape(text, p).length <= Len(text)
        /\ Escape(text, p).meaning \in SUBSET Seq(Nat)
    BY <2>1, EscapeTyped
  <2>3. Says(text, p) = Escape(text, p).meaning /\ Leap(text, p) = p + Escape(text, p).length
    BY <1>5 DEF Says, Leap
  <2> DEFINE l == Escape(text, p).length
  <2> HIDE DEF l
  <2>4. l \in Int /\ l > 0 /\ p + l <= Len(text) /\ Leap(text, p) = p + l
    BY <2>2, <2>3 DEF l
  <2>5. Leap(text, p) \in 2..(Len(text) + 1) /\ Leap(text, p) > p
    BY <1>1, <2>4
  <2> QED
    BY <2>2, <2>3, <2>5
<1>6. CASE text[p] # text[1] /\ ~ EscapeAt(text, p)
  BY <1>1, <1>3, <1>6 DEF Says, Leap
<1> QED
  BY <1>4, <1>5, <1>6

LEMMA HiveDecoded ==
  ASSUME NEW text \in Seq(Nat), Len(text) >= 1
  PROVE  \E from \in [2..(Len(text) + 1) -> SUBSET Seq(Nat)] :
           /\ \A p \in 2..(Len(text) + 1) : p >= Len(text) => from[p] = {<<>>}
           /\ \A p \in 2..Len(text) : p < Len(text) => from[p] = Joins(Says(text, p), from[Leap(text, p)])
           /\ Decoded(text) = UNION {Joined(s) : s \in from[2]}
<1> DEFINE D == 2..(Len(text) + 1)
           A == SUBSET Seq(Nat)
           stop == {k \in D : k >= Len(text)}
           next == [k \in D |-> Leap(text, k)]
           step == [k \in D |-> [R \in A |-> Joins(Says(text, k), R)]]
           c == CHOOSE from : HiveSays(text, from)
<1>1. Len(text) \in Nat /\ {<<>>} \in A
  OBVIOUS
<1>2. \A k \in D \ stop : /\ Says(text, k) \in A /\ Leap(text, k) \in D /\ Leap(text, k) > k
                         /\ k \in 2..Len(text) /\ k < Len(text)
  <2> SUFFICES ASSUME NEW k \in D \ stop
               PROVE  /\ Says(text, k) \in A /\ Leap(text, k) \in D /\ Leap(text, k) > k
                      /\ k \in 2..Len(text) /\ k < Len(text)
    OBVIOUS
  <2>1. k \in 2..Len(text) /\ k < Len(text)
    BY <1>1
  <2> QED
    BY <2>1, SaysTyped
<1>3. \A S, R \in A : Joins(S, R) \in A
  <2> SUFFICES ASSUME NEW S \in A, NEW R \in A PROVE Joins(S, R) \in A
    OBVIOUS
  <2>1. \A s \in S : \A r \in R : s \o r \in Seq(Nat)
    <3> SUFFICES ASSUME NEW s \in S, NEW r \in R PROVE s \o r \in Seq(Nat)
      OBVIOUS
    <3>1. s \in Seq(Nat) /\ r \in Seq(Nat)
      OBVIOUS
    <3> QED
      BY <3>1, ConcatProperties
  <2> QED
    <3>1. \A x \in Joins(S, R) : x \in Seq(Nat)
      <4> SUFFICES ASSUME NEW x \in Joins(S, R) PROVE x \in Seq(Nat)
        OBVIOUS
      <4>1. \E s \in S : \E r \in R : x = s \o r
        BY JoinsIs
      <4> QED
        BY <2>1, <4>1
    <3> QED
      BY <3>1
<1>4. \A k \in D \ stop : step[k] \in [A -> A]
  <2> HIDE DEF A, stop
  <2> QED
    BY <1>2, <1>3
<1>5. Jumps(2, Len(text) + 1, A, stop, {<<>>}, next, step)
  <2> HIDE DEF A, stop, step
  <2> QED
    BY <1>1, <1>2, <1>4 DEF Jumps
<1>6. \A k \in D : \A R : HiveRead(text, k, R)
                         = IF k \in stop THEN {<<>>} ELSE Joins(Says(text, k), R[Leap(text, k)])
  BY HiveReadIs
<1>7. PICK f \in [D -> A] : \A k \in D : f[k] = IF k \in stop THEN {<<>>} ELSE step[k][f[next[k]]]
  <2> HIDE DEF A, stop, step, next
  <2> QED
    BY <1>5, JumpRecursion
<1>8. HiveSays(text, f)
  <2>1. \A k \in D : f[k] = IF k \in stop THEN {<<>>} ELSE Joins(Says(text, k), f[Leap(text, k)])
    <3> SUFFICES ASSUME NEW k \in D PROVE f[k] = IF k \in stop THEN {<<>>} ELSE Joins(Says(text, k), f[Leap(text, k)])
      OBVIOUS
    <3>1. CASE k \notin stop
      <4>1. f[Leap(text, k)] \in A
        BY <1>2, <1>7, <3>1
      <4>2. step[k][f[Leap(text, k)]] = Joins(Says(text, k), f[Leap(text, k)]) /\ next[k] = Leap(text, k)
        <5> HIDE DEF A
        <5> QED
          BY <4>1
      <4> HIDE DEF A, D, stop, step, next
      <4> QED
        BY <1>7, <3>1, <4>2
    <3>2. CASE k \in stop
      <4> HIDE DEF A, D, stop, step, next
      <4> QED
        BY <1>7, <3>2
    <3> QED
      BY <3>1, <3>2
  <2>2. f = [k \in D |-> f[k]]
    BY <1>7
  <2> HIDE DEF A, stop, step, next
  <2> QED
    BY <1>6, <2>1, <2>2 DEF HiveSays
<1>9. HiveSays(text, c)
  <2> HIDE DEF D, A, stop, step, next
  <2> QED
    BY <1>8
<1>10. Decoded(text) = UNION {Joined(s) : s \in c[2]}
  BY DEF Decoded, HiveSays, HiveRead, Joins
<1> HIDE DEF c
<1>11. /\ c = [k \in D |-> c[k]]
       /\ \A k \in D : c[k] = IF k \in stop THEN {<<>>} ELSE Joins(Says(text, k), c[Leap(text, k)])
  <2> HIDE DEF A, stop, step, next
  <2> QED
    BY <1>6, <1>9 DEF HiveSays
<1>12. \A k \in D : IF k \in stop THEN c[k] = {<<>>} ELSE c[next[k]] \in A => c[k] = step[k][c[next[k]]]
  <2> SUFFICES ASSUME NEW k \in D
               PROVE  IF k \in stop THEN c[k] = {<<>>} ELSE c[next[k]] \in A => c[k] = step[k][c[next[k]]]
    OBVIOUS
  <2>1. next[k] = Leap(text, k) /\ \A R \in A : step[k][R] = Joins(Says(text, k), R)
    <3> HIDE DEF A
    <3> QED
      OBVIOUS
  <2> HIDE DEF A, D, stop, step, next
  <2> QED
    BY <1>11, <2>1
<1>13. c \in [D -> A]
  <2>1. JumpsTo(2, Len(text) + 1, A, stop, {<<>>}, next, step, c)
    <3> HIDE DEF A, stop, step, next
    <3> QED
      BY <1>5, <1>11, <1>12, Zenon DEF JumpsTo
  <2> HIDE DEF A, stop, step, next
  <2> QED
    BY <2>1, JumpTyping
<1>14. \A p \in D : p >= Len(text) => c[p] = {<<>>}
  BY <1>11
<1>15. \A p \in 2..Len(text) : p < Len(text) => c[p] = Joins(Says(text, p), c[Leap(text, p)])
  <2> SUFFICES ASSUME NEW p \in 2..Len(text), p < Len(text)
               PROVE  c[p] = Joins(Says(text, p), c[Leap(text, p)])
    OBVIOUS
  <2>1. p \in D /\ p \notin stop
    BY <1>1
  <2> HIDE DEF D, stop
  <2> QED
    BY <1>11, <2>1
<1> QED
  BY <1>10, <1>13, <1>14, <1>15

-----------------------------------------------------------------------------
(* What is written for a character, or a pair, is read as it.               *)
LEMMA TokenRead ==
  ASSUME NEW value \in Seq(Nat), NEW k \in 1..Len(value), value[k] # NUL,
         NEW text \in Seq(Nat), text[1] = SingleQuote, NEW p \in Int, NEW w \in Seq(Nat), Len(w) >= 1,
         Ends(text, p, Token(value, k) \o w)
  PROVE  /\ p < Len(text) /\ Says(text, p) = {Meant(value, k)}
         /\ Leap(text, p) = p + Len(Token(value, k)) /\ Ends(text, p + Len(Token(value, k)), w)
<1> DEFINE a == Token(value, k)
           c == value[k]
           m == Len(text)
           n == Len(a)
<1>1. a \in Seq(Nat) /\ n \in Nat /\ n >= 1 /\ c \in Nat /\ m \in Nat /\ k \in Int
  <2>1. a \in Seq(Nat) /\ n >= 1
    BY TokenTyped
  <2>2. c \in Nat
    BY ElementOfSeq
  <2> HIDE DEF a
  <2> QED
    BY <2>1, <2>2
<1>2. /\ Ends(text, p + n, w) /\ m = p - 1 + n + Len(w) /\ p \in 1..(m + 1)
      /\ \A i \in 1..n : text[p - 1 + i] = a[i]
  <2> HIDE DEF a, m, n
  <2>1. a \in Seq(Nat) /\ Ends(text, p, a \o w) /\ n = Len(a) /\ m = Len(text)
    BY <1>1 DEF a, n, m
  <2>2. /\ p \in 1..(Len(text) + 1) /\ Ends(text, p + Len(a), w)
        /\ Len(text) = p - 1 + Len(a) + Len(w)
        /\ \A i \in 1..Len(a) : text[p - 1 + i] = a[i]
    <3>1. \A b \in Seq(Nat) : Ends(text, p, b \o w) =>
            /\ p \in 1..(Len(text) + 1) /\ Ends(text, p + Len(b), w)
            /\ Len(text) = p - 1 + Len(b) + Len(w)
            /\ \A i \in 1..Len(b) : text[p - 1 + i] = b[i]
      BY EndsSplit
    <3> QED
      BY <2>1, <3>1, Zenon
  <2> QED
    BY <2>1, <2>2
<1>3. /\ Len(w) \in Nat /\ p < m /\ p + n <= m /\ text[p] = a[1]
      /\ (n >= 2 => p < m - 1 /\ text[p + 1] = a[2])
  <2> HIDE DEF a, m, n
  <2>1. Len(w) \in Nat
    OBVIOUS
  <2>2. p < m /\ p + n <= m /\ (n >= 2 => p < m - 1)
    BY <1>1, <1>2, <2>1
  <2>3. 1 \in 1..n /\ p - 1 + 1 = p
    BY <1>1
  <2>4. n >= 2 => 2 \in 1..n /\ p - 1 + 2 = p + 1
    BY <1>1
  <2> QED
    BY <1>2, <2>1, <2>2, <2>3, <2>4
<1>q. SingleQuote = 39 /\ Backslash = 92 /\ Percent = 37 /\ Underscore = 95
  BY DEF SingleQuote, Backslash, Percent, Underscore
<1>4. SUFFICES Says(text, p) = {Meant(value, k)} /\ Leap(text, p) = p + n
  BY <1>2, <1>3
<1>5. CASE PairAt(value, k)
  <2>1. c = Backslash /\ value[k + 1] \in {Percent, Underscore} /\ a = <<c, value[k + 1]>> /\ Meant(value, k) = a
    BY <1>5 DEF PairAt, Token, Meant
  <2>2. n = 2 /\ a[1] = Backslash /\ a[2] = value[k + 1]
    BY <2>1
  <2> HIDE DEF a, n, m, c
  <2>3. EscapeAt(text, p) /\ text[p] # text[1] /\ text[p + 1] \in {Percent, Underscore}
    <3>1. text[p] = Backslash /\ text[p + 1] = value[k + 1] /\ p < m - 1
      BY <1>3, <2>2
    <3> QED
      BY <1>q, <2>1, <3>1 DEF EscapeAt, m
  <2>4. ~ UnicodeAt(text, p) /\ ~ OctalAt(text, p)
    <3>1. text[p + 1] # 117 /\ text[p + 1] \notin {48, 49}
      <4>1. \A z \in {Percent, Underscore} : z # 117 /\ z \notin {48, 49}
        BY <1>q
      <4> QED
        BY <2>3, <4>1, Zenon
    <3> QED
      BY <3>1 DEF UnicodeAt, OctalAt
  <2>5. Escape(text, p).length = 2 /\ Escape(text, p).meaning = {<<Backslash, text[p + 1]>>}
    BY <2>3, <2>4, EscapeIs
  <2>6. <<Backslash, text[p + 1]>> = a
    BY <1>3, <2>1, <2>2
  <2> QED
    BY <2>1, <2>2, <2>3, <2>5, <2>6 DEF Says, Leap
<1>6. CASE ~ PairAt(value, k) /\ c \in Escaped
  <2>1. a = <<Backslash, Escapes[c]>> /\ Meant(value, k) = <<c>>
    BY <1>6, EscapesAre DEF Token, Meant, WrittenAs
  <2>2. n = 2 /\ a[1] = Backslash /\ a[2] = Escapes[c]
    BY <2>1
  <2> HIDE DEF a, n, m, c
  <2>3. /\ Escapes[c] \notin {117, 48, 49, Percent, Underscore}
        /\ IF Escapes[c] \in Coded THEN Letters[Escapes[c]] = c ELSE Escapes[c] = c
    BY <1>6, EscapesAre
  <2>4. EscapeAt(text, p) /\ text[p] # text[1] /\ text[p + 1] = Escapes[c]
    BY <1>3, <1>q, <2>2 DEF EscapeAt, m
  <2>5. ~ UnicodeAt(text, p) /\ ~ OctalAt(text, p)
    BY <2>3, <2>4 DEF UnicodeAt, OctalAt
  <2>6. Escape(text, p).length = 2 /\ Escape(text, p).meaning = {<<c>>}
    <3>1. /\ Escape(text, p).length = 2
          /\ Escape(text, p).meaning = IF text[p + 1] \in {Percent, Underscore} THEN {<<Backslash, text[p + 1]>>}
                                       ELSE IF text[p + 1] \in DOMAIN Letters THEN {<<Letters[text[p + 1]]>>}
                                       ELSE {<<text[p + 1]>>}
      BY <2>5, EscapeIs
    <3>2. DOMAIN Letters = Coded
      BY LettersAre
    <3> QED
      BY <2>3, <2>4, <3>1, <3>2
  <2> QED
    BY <2>1, <2>2, <2>4, <2>6 DEF Says, Leap
<1>7. CASE ~ PairAt(value, k) /\ c \notin Escaped /\ c < 32
  <2>1. c \notin DOMAIN Escapes
    BY <1>7, EscapesAre
  <2>2. a = Control(c) /\ Meant(value, k) = <<c>>
    BY <1>7, <2>1 DEF Token, Meant, WrittenAs
  <2> DEFINE x == c \div 16
             y == c % 16
  <2>3. /\ n = 6 /\ a[1] = Backslash /\ a[2] = 117 /\ a[3] = 48 /\ a[4] = 48 /\ a[5] = Digit(x) /\ a[6] = Digit(y)
        /\ Digit(x) \in DOMAIN HexValue /\ HexValue[Digit(x)] = x
        /\ Digit(y) \in DOMAIN HexValue /\ HexValue[Digit(y)] = y
        /\ 16 * x + y = c /\ x \in Nat /\ y \in Nat
    <3>1. c \in Nat /\ c < 32 /\ n = Len(a)
      BY <1>1, <1>7
    <3> HIDE DEF a, n, c
    <3> QED
      BY <2>2, <3>1, ControlIs
  <2> HIDE DEF a, n, m, c, x, y
  <2>4. text[p + 1] = 117 /\ text[p + 2] = 48 /\ text[p + 3] = 48 /\ text[p + 4] = Digit(x) /\ text[p + 5] = Digit(y)
    <3>1. /\ 3 \in 1..n /\ 4 \in 1..n /\ 5 \in 1..n /\ 6 \in 1..n
          /\ p - 1 + 3 = p + 2 /\ p - 1 + 4 = p + 3 /\ p - 1 + 5 = p + 4 /\ p - 1 + 6 = p + 5
      BY <2>3
    <3>2. /\ text[p - 1 + 3] = a[3] /\ text[p - 1 + 4] = a[4]
          /\ text[p - 1 + 5] = a[5] /\ text[p - 1 + 6] = a[6]
      BY <1>2, <3>1
    <3> QED
      BY <1>3, <2>3, <3>1, <3>2
  <2>5. EscapeAt(text, p) /\ text[p] # text[1] /\ UnicodeAt(text, p)
    BY <1>1, <1>3, <1>q, <2>3, <2>4 DEF EscapeAt, UnicodeAt, m
  <2>6. 48 \in DOMAIN HexValue /\ HexValue[48] = 0
    <3>1. 0 \in 0..15 /\ Digit(0) = 48
      BY DEF Digit
    <3> QED
      BY <3>1, HexDigits
  <2>7. HexAt(text, p)
    <3> SUFFICES ASSUME NEW i \in (p + 2)..(p + 5) PROVE text[i] \in DOMAIN HexValue
      BY DEF HexAt
    <3>1. i = p + 2 \/ i = p + 3 \/ i = p + 4 \/ i = p + 5
      OBVIOUS
    <3> QED
      <4>1. /\ text[p + 2] \in DOMAIN HexValue /\ text[p + 3] \in DOMAIN HexValue
            /\ text[p + 4] \in DOMAIN HexValue /\ text[p + 5] \in DOMAIN HexValue
        BY <2>3, <2>4, <2>6
      <4> QED
        BY <3>1, <4>1, Zenon
  <2>8. CodeAt(text, p) = c
    <3>1. CodeAt(text, p) = Four(HexValue[text[p + 2]], HexValue[text[p + 3]],
                                 HexValue[text[p + 4]], HexValue[text[p + 5]])
      BY <2>7, CodeIs, Zenon
    <3>2. CodeAt(text, p) = Four(0, 0, x, y)
      BY <2>3, <2>4, <2>6, <3>1, Zenon
    <3> QED
      BY <2>3, <3>2 DEF Four
  <2>9. Escape(text, p).length = 6 /\ Escape(text, p).meaning = {<<c>>}
    BY <2>5, <2>7, <2>8, EscapeIs
  <2> QED
    BY <2>2, <2>3, <2>5, <2>9 DEF Says, Leap
<1>8. CASE ~ PairAt(value, k) /\ c \notin Escaped /\ ~ (c < 32)
  <2>1. c \notin DOMAIN Escapes
    BY <1>8, EscapesAre
  <2>2. a = <<c>> /\ Meant(value, k) = <<c>>
    BY <1>8, <2>1 DEF Token, Meant, WrittenAs
  <2>3. n = 1 /\ a[1] = c
    BY <2>2
  <2> HIDE DEF a, n, m, c
  <2>4. c # SingleQuote /\ c # Backslash
    BY <1>8 DEF Escaped
  <2>5. text[p] # text[1] /\ ~ EscapeAt(text, p) /\ text[p] = c
    BY <1>3, <2>3, <2>4 DEF EscapeAt
  <2> QED
    BY <2>2, <2>3, <2>5 DEF Says, Leap
<1> QED
  BY <1>5, <1>6, <1>7, <1>8

(* A text without surrogates has none to join. *)
Whole(text) == \A k \in DOMAIN text : text[k] \notin High \cup Low
JoinPair(text, k) == k < Len(text) /\ text[k] \in High /\ text[k + 1] \in Low
Joining(text, k, from) ==
  IF k > Len(text) THEN {<<>>}
  ELSE IF JoinPair(text, k)
  THEN {<<65536 + 1024 * (text[k] - 55296) + text[k + 1] - 56320>> \o r : r \in from[k + 2]}
  ELSE {<<text[k]>> \o r : r \in IF text[k] \in High \cup Low THEN {} ELSE from[k + 1]}
JoinedBy(text, from) == from = [k \in 1..(Len(text) + 1) |-> Joining(text, k, from)]

LEMMA WholeJoined ==
  ASSUME NEW value \in Seq(Nat), Whole(value)
  PROVE  Joined(value) = {value}
<1> DEFINE n == Len(value)
           D == 1..(n + 1)
           f == [k \in D |-> {Rest(value, k)}]
           c == CHOOSE from : JoinedBy(value, from)
<1>1. n \in Nat /\ DOMAIN value = 1..n
  OBVIOUS
<1>2. \A k \in D : \A g : Joining(value, k, g) = IF k = n + 1 THEN {<<>>} ELSE {<<value[k]>> \o r : r \in g[k + 1]}
  <2> SUFFICES ASSUME NEW k \in D, NEW g
               PROVE  Joining(value, k, g) = IF k = n + 1 THEN {<<>>} ELSE {<<value[k]>> \o r : r \in g[k + 1]}
    OBVIOUS
  <2>1. CASE k = n + 1
    BY <1>1, <2>1 DEF Joining
  <2>2. CASE k # n + 1
    <3>1. k \in 1..n /\ ~ (k > n)
      BY <1>1, <2>2
    <3>2. value[k] \notin High \cup Low
      BY <1>1, <3>1 DEF Whole
    <3>3. ~ JoinPair(value, k)
      BY <3>2 DEF JoinPair
    <3> QED
      BY <2>2, <3>1, <3>2, <3>3 DEF Joining
  <2> QED
    BY <2>1, <2>2
<1>3. /\ \A k \in D : k = n + 1 => Rest(value, k) = <<>>
      /\ \A k \in D : k # n + 1 => Rest(value, k) = <<value[k]>> \o Rest(value, k + 1) /\ k + 1 \in D
      /\ Rest(value, 1) = value
  <2>1. Rest(value, 1) = value
    BY SubSeqFull DEF Rest
  <2>2. \A k \in D : k # n + 1 => k <= n /\ k + 1 \in D
    BY <1>1
  <2> QED
    BY <2>1, <2>2, RestIs
<1> HIDE DEF n
<1>4. JoinedBy(value, f)
  <2>1. \A k \in D : f[k] = Joining(value, k, f)
    <3> SUFFICES ASSUME NEW k \in D PROVE f[k] = Joining(value, k, f)
      OBVIOUS
    <3>1. CASE k = n + 1
      BY <1>2, <1>3, <3>1
    <3>2. CASE k # n + 1
      <4>1. f[k + 1] = {Rest(value, k + 1)} /\ f[k] = {Rest(value, k)}
        BY <1>3, <3>2
      <4>2. {<<value[k]>> \o r : r \in f[k + 1]} = {<<value[k]>> \o Rest(value, k + 1)}
        BY <4>1
      <4> QED
        BY <1>2, <1>3, <3>2, <4>1, <4>2
    <3> QED
      BY <3>1, <3>2
  <2>2. f = [k \in D |-> f[k]]
    OBVIOUS
  <2> HIDE DEF f
  <2> QED
    BY <2>1, <2>2 DEF JoinedBy, n
<1>5. JoinedBy(value, c)
  <2> HIDE DEF f
  <2> QED
    BY <1>4
<1>6. Joined(value) = c[1]
  BY DEF Joined, JoinedBy, Joining, JoinPair
<1> HIDE DEF c
<1>7. \A k \in D : c[k] = Joining(value, k, c)
  BY <1>5 DEF JoinedBy, n
<1> DEFINE P == {k \in D : c[k] = {Rest(value, k)}}
<1>8. ASSUME NEW k \in D, \A j \in D : j > k => j \in P PROVE k \in P
  <2>1. CASE k = n + 1
    BY <1>2, <1>3, <1>7, <2>1
  <2>2. CASE k # n + 1
    <3>1. k + 1 \in D /\ k + 1 > k
      BY <1>1, <1>3, <2>2
    <3>2. c[k + 1] = {Rest(value, k + 1)}
      BY <1>8, <3>1
    <3>3. c[k] = {<<value[k]>> \o r : r \in c[k + 1]}
      BY <1>2, <1>7, <2>2
    <3>4. c[k] = {<<value[k]>> \o Rest(value, k + 1)}
      BY <3>2, <3>3
    <3> QED
      BY <1>3, <2>2, <3>4
  <2> QED
    BY <2>1, <2>2
<1> HIDE DEF P
<1>9. D \subseteq P
  <2>1. 1 \in Int /\ n + 1 \in Int
    BY <1>1
  <2> QED
    BY <1>8, <2>1, DownwardInduction
<1>10. 1 \in P
  BY <1>1, <1>9
<1> QED
  BY <1>3, <1>6, <1>10 DEF P

-----------------------------------------------------------------------------
(* hive_string and _quoted_literal: a text without NUL and single           *)
(* surrogates is read exactly from the literal written for it.              *)
THEOREM HiveReadsBack ==
  ASSUME NEW value \in Seq(Nat), Whole(value), NoNul(value)
  PROVE  Decoded(HiveString(value)) = {value}
<1> DEFINE n == Len(value)
           text == HiveString(value)
           m == Len(text)
<1>1. n \in Nat /\ DOMAIN value = 1..n
  OBVIOUS
<1>2. PICK w \in [1..(n + 1) -> Seq(Nat)] :
        /\ w[n + 1] = <<SingleQuote>>
        /\ \A k \in 1..n : w[k] = Token(value, k) \o w[After(value, k)]
        /\ text = <<SingleQuote>> \o w[1]
  BY HiveWritten
<1> HIDE DEF text
<1>3. \A k \in 1..n : /\ value[k] # NUL /\ k \in 1..Len(value) /\ k \in 1..(n + 1)
                      /\ Token(value, k) \in Seq(Nat) /\ Len(Token(value, k)) >= 1
                      /\ Meant(value, k) \in Seq(Nat)
                      /\ After(value, k) \in 1..(n + 1) /\ After(value, k) > k
                      /\ Rest(value, k) = Meant(value, k) \o Rest(value, After(value, k))
  <2> SUFFICES ASSUME NEW k \in 1..n
               PROVE  /\ value[k] # NUL /\ k \in 1..Len(value) /\ k \in 1..(n + 1)
                      /\ Token(value, k) \in Seq(Nat) /\ Len(Token(value, k)) >= 1
                      /\ Meant(value, k) \in Seq(Nat)
                      /\ After(value, k) \in 1..(n + 1) /\ After(value, k) > k
                      /\ Rest(value, k) = Meant(value, k) \o Rest(value, After(value, k))
    OBVIOUS
  <2>1. value[k] # NUL /\ k \in 1..(n + 1)
    BY <1>1 DEF NoNul
  <2> QED
    BY <2>1, TokenTyped
<1>4. \A k \in 1..(n + 1) : w[k] \in Seq(Nat) /\ Len(w[k]) >= 1
  <2> SUFFICES ASSUME NEW k \in 1..(n + 1) PROVE w[k] \in Seq(Nat) /\ Len(w[k]) >= 1
    OBVIOUS
  <2>1. CASE k = n + 1
    <3>1. Len(<<SingleQuote>>) = 1
      OBVIOUS
    <3>2. w[k] = <<SingleQuote>>
      BY <1>2, <2>1
    <3>3. w[k] \in Seq(Nat)
      OBVIOUS
    <3> QED
      BY <3>1, <3>2, <3>3
  <2>2. CASE k # n + 1
    <3>1. k \in 1..n
      BY <1>1, <2>2
    <3>2. w[After(value, k)] \in Seq(Nat) /\ w[k] = Token(value, k) \o w[After(value, k)]
      BY <1>2, <1>3, <3>1
    <3>3. \A a, b \in Seq(Nat) : Len(a) >= 1 => Len(a \o b) >= 1
      BY ConcatProperties
    <3> QED
      BY <1>2, <1>3, <3>1, <3>2, <3>3
  <2> QED
    BY <2>1, <2>2
<1>5. text \in Seq(Nat) /\ Ends(text, 2, w[1]) /\ text[1] = SingleQuote /\ m \in Nat /\ m >= 1
  <2>1. w[1] \in Seq(Nat) /\ SingleQuote \in Nat
    BY <1>1, <1>4 DEF SingleQuote
  <2>2. text \in Seq(Nat) /\ Ends(text, 2, w[1]) /\ text[1] = SingleQuote /\ Len(text) = 1 + Len(w[1])
    <3>1. \A c \in Nat, v \in Seq(Nat) : text = <<c>> \o v =>
            text \in Seq(Nat) /\ Ends(text, 2, v) /\ text[1] = c /\ Len(text) = 1 + Len(v)
      BY EndsAtOnce
    <3> QED
      BY <1>2, <2>1, <3>1
  <2>3. Len(w[1]) \in Nat
    BY <2>1
  <2> QED
    BY <2>2, <2>3
<1>6. PICK c \in [2..(m + 1) -> SUBSET Seq(Nat)] :
        /\ \A p \in 2..(m + 1) : p >= m => c[p] = {<<>>}
        /\ \A p \in 2..m : p < m => c[p] = Joins(Says(text, p), c[Leap(text, p)])
        /\ Decoded(text) = UNION {Joined(s) : s \in c[2]}
  BY <1>5, HiveDecoded
<1>7. /\ \A k \in 1..(n + 1) : k = n + 1 => Rest(value, k) = <<>>
      /\ Rest(value, 1) = value
  BY RestIs, SubSeqFull DEF Rest
<1>8. \A p \in Int : \A v : Ends(text, p, v) => m = p - 1 + Len(v)
  BY DEF Ends
<1>9. \A k \in 1..n : \A p \in Int : Ends(text, p, w[k]) =>
        /\ p < m /\ Says(text, p) = {Meant(value, k)}
        /\ Leap(text, p) = p + Len(Token(value, k)) /\ Ends(text, p + Len(Token(value, k)), w[After(value, k)])
  <2> SUFFICES ASSUME NEW k \in 1..n, NEW p \in Int, Ends(text, p, w[k])
               PROVE  /\ p < m /\ Says(text, p) = {Meant(value, k)}
                      /\ Leap(text, p) = p + Len(Token(value, k))
                      /\ Ends(text, p + Len(Token(value, k)), w[After(value, k)])
    OBVIOUS
  <2>1. /\ w[After(value, k)] \in Seq(Nat) /\ Len(w[After(value, k)]) >= 1
        /\ w[k] = Token(value, k) \o w[After(value, k)] /\ value[k] # NUL /\ k \in 1..Len(value)
    BY <1>2, <1>3, <1>4
  <2> DEFINE r == w[After(value, k)]
  <2> HIDE DEF m, r
  <2>2. r \in Seq(Nat) /\ Len(r) >= 1 /\ Ends(text, p, Token(value, k) \o r)
    BY <2>1 DEF r
  <2>3. /\ p < Len(text) /\ Says(text, p) = {Meant(value, k)}
        /\ Leap(text, p) = p + Len(Token(value, k)) /\ Ends(text, p + Len(Token(value, k)), r)
    BY <1>5, <2>1, <2>2, TokenRead
  <2> QED
    BY <2>3 DEF m, r
<1> HIDE DEF m, n
<1> DEFINE Right == {k \in 1..(n + 1) : \A p \in 2..(m + 1) : Ends(text, p, w[k]) => c[p] = {Rest(value, k)}}
<1>10. ASSUME NEW k \in 1..(n + 1), \A j \in 1..(n + 1) : j > k => j \in Right
       PROVE  k \in Right
  <2> SUFFICES ASSUME NEW p \in 2..(m + 1), Ends(text, p, w[k]) PROVE c[p] = {Rest(value, k)}
    OBVIOUS
  <2>0. p \in Int /\ k \in Int
    OBVIOUS
  <2>1. CASE k = n + 1
    <3>1. w[k] = <<SingleQuote>> /\ Len(<<SingleQuote>>) = 1
      BY <1>2, <2>1
    <3>2. m = p - 1 + 1
      BY <1>8, <2>0, <3>1
    <3> QED
      BY <1>5, <1>6, <1>7, <2>0, <2>1, <3>2
  <2>2. CASE k # n + 1
    <3> DEFINE j == After(value, k)
               q == p + Len(Token(value, k))
    <3>1. k \in 1..n
      BY <1>1, <2>2 DEF n
    <3>2. p < m /\ Says(text, p) = {Meant(value, k)} /\ Leap(text, p) = q /\ Ends(text, q, w[j])
      BY <1>9, <2>0, <3>1
    <3>3. j \in 1..(n + 1) /\ j > k /\ Len(Token(value, k)) \in Nat /\ Len(Token(value, k)) >= 1
      BY <1>3, <3>1
    <3>4. w[j] \in Seq(Nat) /\ Len(w[j]) >= 1
      BY <1>4, <3>3
    <3>5. Rest(value, k) = Meant(value, k) \o Rest(value, j)
      BY <1>3, <3>1
    <3> HIDE DEF j, q
    <3>6. q \in Int /\ q > p
      BY <2>0, <3>3 DEF q
    <3>7. m = q - 1 + Len(w[j])
      BY <1>8, <3>2, <3>6
    <3>8. q \in 2..(m + 1) /\ p \in 2..m
      BY <1>5, <2>0, <3>2, <3>4, <3>6, <3>7
    <3>9. c[q] = {Rest(value, j)}
      BY <1>10, <3>2, <3>3, <3>8
    <3>10. c[p] = Joins({Meant(value, k)}, {Rest(value, j)})
      BY <1>6, <3>2, <3>8, <3>9
    <3>11. \A a, b : Joins({a}, {b}) = {a \o b}
      BY DEF Joins
    <3> QED
      BY <3>5, <3>10, <3>11, Zenon
  <2> QED
    BY <2>1, <2>2
<1> HIDE DEF Right
<1>11. 1..(n + 1) \subseteq Right
  <2>1. 1 \in Int /\ n + 1 \in Int
    BY <1>1 DEF n
  <2> QED
    BY <1>10, <2>1, DownwardInduction
<1>12. c[2] = {value}
  <2>1. 2 \in 2..(m + 1) /\ 1 \in 1..(n + 1)
    BY <1>1, <1>5 DEF n
  <2> QED
    BY <1>5, <1>7, <1>11, <2>1 DEF Right
<1>13. Decoded(text) = Joined(value)
  BY <1>6, <1>12
<1> QED
  BY <1>13, WholeJoined DEF text

(* What a literal says has no surrogates left.                              *)
Wholes == {v \in Seq(Nat) : Whole(v)}
JoinedAs(text, k) ==
  IF JoinPair(text, k) THEN {<<65536 + 1024 * (text[k] - 55296) + text[k + 1] - 56320>>}
  ELSE IF text[k] \in High \cup Low THEN {} ELSE {<<text[k]>>}
JoinedNext(text, k) == IF JoinPair(text, k) THEN k + 2 ELSE k + 1

LEMMA JoiningIs ==
  ASSUME NEW text, NEW k, NEW from
  PROVE  Joining(text, k, from) =
           IF k > Len(text) THEN {<<>>} ELSE Joins(JoinedAs(text, k), from[JoinedNext(text, k)])
<1>1. \A x, T : {x \o r : r \in T} = Joins({x}, T)
  BY DEF Joins
<1>2. \A T : Joins({}, T) = {}
  <2> SUFFICES ASSUME NEW T, NEW x \in Joins({}, T) PROVE FALSE
    OBVIOUS
  <2> QED
    BY JoinsIs
<1>3. \A x : {x \o r : r \in {}} = {}
  OBVIOUS
<1>4. CASE k > Len(text)
  BY <1>4 DEF Joining
<1>5. CASE ~ (k > Len(text)) /\ JoinPair(text, k)
  <2> DEFINE x == <<65536 + 1024 * (text[k] - 55296) + text[k + 1] - 56320>>
  <2>1. Joining(text, k, from) = {x \o r : r \in from[k + 2]}
    BY <1>5 DEF Joining
  <2>2. JoinedAs(text, k) = {x} /\ JoinedNext(text, k) = k + 2
    BY <1>5 DEF JoinedAs, JoinedNext
  <2> HIDE DEF x
  <2>3. {x \o r : r \in from[k + 2]} = Joins({x}, from[k + 2])
    BY <1>1
  <2> QED
    BY <1>5, <2>1, <2>2, <2>3
<1>6. CASE ~ (k > Len(text)) /\ ~ JoinPair(text, k)
  <2> DEFINE x == <<text[k]>>
  <2>1. Joining(text, k, from) = {x \o r : r \in IF text[k] \in High \cup Low THEN {} ELSE from[k + 1]}
    BY <1>6 DEF Joining
  <2>2. JoinedNext(text, k) = k + 1
    BY <1>6 DEF JoinedNext
  <2>3. CASE text[k] \in High \cup Low
    <3>1. JoinedAs(text, k) = {}
      BY <1>6, <2>3 DEF JoinedAs
    <3>2. Joining(text, k, from) = {x \o r : r \in {}}
      BY <2>1, <2>3
    <3> HIDE DEF x
    <3> QED
      BY <1>2, <1>3, <1>6, <2>2, <3>1, <3>2
  <2>4. CASE text[k] \notin High \cup Low
    <3>1. JoinedAs(text, k) = {x}
      BY <1>6, <2>4 DEF JoinedAs
    <3>2. Joining(text, k, from) = {x \o r : r \in from[k + 1]}
      BY <2>1, <2>4
    <3> HIDE DEF x
    <3>3. {x \o r : r \in from[k + 1]} = Joins({x}, from[k + 1])
      BY <1>1
    <3> QED
      BY <1>6, <2>2, <3>1, <3>2, <3>3
  <2> QED
    BY <2>3, <2>4
<1> QED
  BY <1>4, <1>5, <1>6

LEMMA WholesGrow ==
  ASSUME NEW x \in Nat, x \notin High \cup Low, NEW r \in Wholes
  PROVE  <<x>> \o r \in Wholes
<1>1. r \in Seq(Nat) /\ Len(r) \in Nat /\ DOMAIN r = 1..Len(r) /\ \A i \in 1..Len(r) : r[i] \notin High \cup Low
  BY DEF Wholes, Whole
<1>2. <<x>> \in Seq(Nat) /\ Len(<<x>>) = 1 /\ <<x>>[1] = x
  OBVIOUS
<1> DEFINE s == <<x>> \o r
<1>3. s \in Seq(Nat) /\ Len(s) = 1 + Len(r) /\ \A i \in 1..(1 + Len(r)) : s[i] = IF i <= 1 THEN <<x>>[i] ELSE r[i - 1]
  BY <1>1, <1>2, ConcatProperties
<1> HIDE DEF s
<1>4. \A i \in DOMAIN s : s[i] \notin High \cup Low
  <2> SUFFICES ASSUME NEW i \in 1..(1 + Len(r)) PROVE s[i] \notin High \cup Low
    BY <1>1, <1>3
  <2>1. CASE i = 1
    <3>1. s[i] = x
      BY <1>1, <1>2, <1>3, <2>1
    <3> QED
      BY <3>1
  <2>2. CASE i # 1
    <3>1. i - 1 \in 1..Len(r) /\ ~ (i <= 1)
      BY <1>1, <2>2
    <3>2. s[i] = r[i - 1]
      BY <1>3, <3>1
    <3> QED
      BY <1>1, <3>1, <3>2
  <2> QED
    BY <2>1, <2>2
<1> QED
  BY <1>3, <1>4 DEF Wholes, Whole, s

LEMMA AboveSurrogates ==
  \A z \in Nat : z > 57343 => z \notin High \cup Low
BY DEF High, Low

LEMMA JoinedIsWhole ==
  ASSUME NEW text \in Seq(Nat)
  PROVE  Joined(text) \subseteq Wholes
<1> DEFINE n == Len(text)
           D == 1..(n + 1)
           A == SUBSET Wholes
           stop == {k \in D : k > n}
           next == [k \in D |-> JoinedNext(text, k)]
           step == [k \in D |-> [R \in A |-> Joins(JoinedAs(text, k), R)]]
           c == CHOOSE from : JoinedBy(text, from)
<1>1. n \in Nat /\ {<<>>} \in A
  <2>1. <<>> \in Wholes
    BY DEF Wholes, Whole
  <2> QED
    BY <2>1
<1>2. \A k \in D \ stop : JoinedNext(text, k) \in D /\ JoinedNext(text, k) > k
  BY <1>1 DEF JoinedNext, JoinPair
<1>3. \A k \in D \ stop : \A s \in JoinedAs(text, k) : \E x \in Nat : s = <<x>> /\ x \notin High \cup Low
  <2> SUFFICES ASSUME NEW k \in D \ stop, NEW s \in JoinedAs(text, k)
               PROVE  \E x \in Nat : s = <<x>> /\ x \notin High \cup Low
    OBVIOUS
  <2>1. CASE JoinPair(text, k)
    <3> DEFINE x == 65536 + 1024 * (text[k] - 55296) + text[k + 1] - 56320
    <3>1. text[k] \in 55296..56319 /\ text[k + 1] \in 56320..57343
      BY <2>1 DEF JoinPair, High, Low
    <3>3. x \in Nat /\ x > 57343
      <4> DEFINE u == text[k]
                 y == text[k + 1]
      <4>1. u \in 55296..56319 /\ y \in 56320..57343 /\ x = 65536 + 1024 * (u - 55296) + y - 56320
        BY <3>1
      <4> HIDE DEF u, x, y
      <4> QED
        BY <4>1
    <3>4. s = <<x>>
      BY <2>1 DEF JoinedAs
    <3> HIDE DEF x
    <3>5. x \notin High \cup Low
      BY <3>3, AboveSurrogates
    <3> QED
      BY <3>3, <3>4, <3>5
  <2>2. CASE ~ JoinPair(text, k)
    <3>1. k \in 1..Len(text)
      BY <1>1
    <3>2. text[k] \in Nat
      BY <3>1, ElementOfSeq
    <3>3. text[k] \notin High \cup Low /\ s = <<text[k]>>
      BY <2>2 DEF JoinedAs
    <3> QED
      BY <3>2, <3>3
  <2> QED
    BY <2>1, <2>2
<1>4. \A k \in D \ stop : \A R \in A : Joins(JoinedAs(text, k), R) \in A
  <2> SUFFICES ASSUME NEW k \in D \ stop, NEW R \in A, NEW v \in Joins(JoinedAs(text, k), R) PROVE v \in Wholes
    OBVIOUS
  <2>1. PICK s \in JoinedAs(text, k) : \E r \in R : v = s \o r
    <3> DEFINE S == JoinedAs(text, k)
    <3> HIDE DEF A, D, stop, S
    <3>1. v \in Joins(S, R)
      BY DEF S
    <3>2. \E s \in S : \E r \in R : v = s \o r
      BY <3>1, JoinsIs
    <3> QED
      BY <3>2 DEF S
  <2>2. PICK r \in R : v = s \o r
    BY <2>1
  <2>3. PICK x \in Nat : s = <<x>> /\ x \notin High \cup Low
    BY <1>3
  <2>4. r \in Wholes
    OBVIOUS
  <2> HIDE DEF A, D, stop
  <2>5. <<x>> \o r \in Wholes
    BY <2>3, <2>4, WholesGrow
  <2> QED
    BY <2>2, <2>3, <2>5
<1>5. \A k \in D \ stop : step[k] \in [A -> A]
  <2> HIDE DEF A, stop
  <2> QED
    BY <1>4
<1>6. Jumps(1, n + 1, A, stop, {<<>>}, next, step)
  <2>1. 1 \in Int /\ n + 1 \in Int
    BY <1>1
  <2> HIDE DEF A, stop, step
  <2> QED
    BY <1>1, <1>2, <1>5, <2>1 DEF Jumps
<1>7. \A k \in D : \A R : Joining(text, k, R)
                         = IF k \in stop THEN {<<>>} ELSE Joins(JoinedAs(text, k), R[JoinedNext(text, k)])
  BY JoiningIs
<1>8. PICK f \in [D -> A] : \A k \in D : f[k] = IF k \in stop THEN {<<>>} ELSE step[k][f[next[k]]]
  <2> HIDE DEF A, stop, step, next, n
  <2> QED
    BY <1>6, JumpRecursion
<1>9. JoinedBy(text, f)
  <2>1. \A k \in D : f[k] = IF k \in stop THEN {<<>>} ELSE Joins(JoinedAs(text, k), f[JoinedNext(text, k)])
    <3> SUFFICES ASSUME NEW k \in D
                 PROVE  f[k] = IF k \in stop THEN {<<>>} ELSE Joins(JoinedAs(text, k), f[JoinedNext(text, k)])
      OBVIOUS
    <3>1. CASE k \notin stop
      <4>1. f[JoinedNext(text, k)] \in A
        BY <1>2, <1>8, <3>1
      <4>2. /\ step[k][f[JoinedNext(text, k)]] = Joins(JoinedAs(text, k), f[JoinedNext(text, k)])
            /\ next[k] = JoinedNext(text, k)
        <5> HIDE DEF A
        <5> QED
          BY <4>1
      <4> HIDE DEF A, D, stop, step, next
      <4> QED
        BY <1>8, <3>1, <4>2
    <3>2. CASE k \in stop
      <4> HIDE DEF A, D, stop, step, next
      <4> QED
        BY <1>8, <3>2
    <3> QED
      BY <3>1, <3>2
  <2>2. f = [k \in D |-> f[k]]
    BY <1>8
  <2> HIDE DEF A, stop, step, next
  <2> QED
    BY <1>7, <2>1, <2>2 DEF JoinedBy
<1>10. JoinedBy(text, c)
  <2> HIDE DEF D, A, stop, step, next
  <2> QED
    BY <1>9
<1>11. Joined(text) = c[1]
  BY DEF Joined, JoinedBy, Joining, JoinPair
<1> HIDE DEF c
<1>12. /\ c = [k \in D |-> c[k]]
       /\ \A k \in D : c[k] = IF k \in stop THEN {<<>>} ELSE Joins(JoinedAs(text, k), c[JoinedNext(text, k)])
  <2> HIDE DEF A, stop, step, next
  <2> QED
    BY <1>7, <1>10 DEF JoinedBy
<1>13. \A k \in D : IF k \in stop THEN c[k] = {<<>>} ELSE c[next[k]] \in A => c[k] = step[k][c[next[k]]]
  <2> SUFFICES ASSUME NEW k \in D
               PROVE  IF k \in stop THEN c[k] = {<<>>} ELSE c[next[k]] \in A => c[k] = step[k][c[next[k]]]
    OBVIOUS
  <2>1. next[k] = JoinedNext(text, k) /\ \A R \in A : step[k][R] = Joins(JoinedAs(text, k), R)
    <3> HIDE DEF A
    <3> QED
      OBVIOUS
  <2> HIDE DEF A, D, stop, step, next
  <2> QED
    BY <1>12, <2>1
<1>14. c \in [D -> A]
  <2>1. JumpsTo(1, n + 1, A, stop, {<<>>}, next, step, c)
    <3> HIDE DEF A, stop, step, next, n
    <3> QED
      BY <1>6, <1>12, <1>13, Zenon DEF JumpsTo
  <2> HIDE DEF A, stop, step, next, n
  <2> QED
    BY <2>1, JumpTyping
<1> QED
  BY <1>1, <1>11, <1>14

(* A comment as the program read it, from whatever literal, once it has     *)
(* passed the check for NUL: Hive and Greenplum read it unchanged from what *)
(* hive_string and greenplum_string of sql.py write.                        *)
THEOREM CommentsKeepTheirMeaning ==
  ASSUME NEW text \in Seq(Nat), Len(text) >= 1, NEW value \in Decoded(text), NoNul(value)
  PROVE  /\ Decoded(HiveString(value)) = {value}
         /\ GreenplumReads(GreenplumString(value)) = value
<1>1. PICK c \in [2..(Len(text) + 1) -> SUBSET Seq(Nat)] : Decoded(text) = UNION {Joined(s) : s \in c[2]}
  BY HiveDecoded
<1>2. PICK s \in c[2] : value \in Joined(s)
  BY <1>1
<1>3. s \in Seq(Nat)
  <2>1. Len(text) \in Nat /\ 2 \in 2..(Len(text) + 1)
    OBVIOUS
  <2> QED
    BY <1>1, <2>1
<1>4. value \in Seq(Nat) /\ Whole(value)
  <2>1. value \in Wholes
    BY <1>2, <1>3, JoinedIsWhole
  <2> QED
    BY <2>1 DEF Wholes
<1> QED
  BY <1>4, HiveReadsBack, GreenplumReadsBack

-----------------------------------------------------------------------------
(* How deep in parentheses a part of a text ends.                           *)
Depth(t, from, to) == Count(t, "(", from, to) - Count(t, ")", from, to)

LEMMA CountParts ==
  ASSUME NEW t, NEW token, NEW from \in Int, NEW mid \in Int, NEW to \in Int, from <= mid + 1, mid <= to
  PROVE  /\ Count(t, token, from, to) = Count(t, token, from, mid) + Count(t, token, mid + 1, to)
         /\ Count(t, token, from, to) \in Nat /\ Count(t, token, from, mid) \in Nat
         /\ Count(t, token, mid + 1, to) \in Nat
<1> DEFINE A == {k \in from..mid : t[k] = token}
           B == {k \in (mid + 1)..to : t[k] = token}
           C == {k \in from..to : t[k] = token}
<1>1. IsFiniteSet(A) /\ IsFiniteSet(B)
  <2>1. IsFiniteSet(from..mid) /\ IsFiniteSet((mid + 1)..to) /\ A \subseteq from..mid /\ B \subseteq (mid + 1)..to
    BY FS_Interval
  <2> QED
    BY <2>1, FS_Subset
<1>2. C = A \cup B /\ A \cap B = {}
  OBVIOUS
<1>3. Cardinality({}) = 0
  BY FS_EmptySet
<1> HIDE DEF A, B, C
<1>4. Cardinality(C) = Cardinality(A) + Cardinality(B) - Cardinality(A \cap B) /\ IsFiniteSet(C)
  BY <1>1, <1>2, FS_Union
<1>5. Cardinality(A) \in Nat /\ Cardinality(B) \in Nat /\ Cardinality(C) \in Nat
  BY <1>1, <1>4, FS_CardinalityType
<1>6. Cardinality(C) = Cardinality(A) + Cardinality(B)
  <2>1. Cardinality(A \cap B) = 0
    BY <1>2, <1>3
  <2> QED
    BY <1>4, <1>5, <2>1
<1> QED
  BY <1>5, <1>6 DEF Count, A, B, C

LEMMA CountTyped ==
  ASSUME NEW t, NEW token, NEW from \in Int, NEW to \in Int
  PROVE  /\ Count(t, token, from, to) \in Nat
         /\ to < from => Count(t, token, from, to) = 0
<1> DEFINE A == {k \in from..to : t[k] = token}
<1>1. IsFiniteSet(A)
  <2>1. IsFiniteSet(from..to) /\ A \subseteq from..to
    BY FS_Interval
  <2> QED
    BY <2>1, FS_Subset
<1>2. to < from => A = {}
  OBVIOUS
<1> HIDE DEF A
<1>3. Cardinality(A) \in Nat /\ (to < from => Cardinality(A) = 0)
  BY <1>1, <1>2, FS_CardinalityType, FS_EmptySet
<1> QED
  BY <1>3 DEF Count, A

(* From `from` to `to`, u is what t is `by` positions later.                *)
Shifted(t, u, from, to, by) == \A k \in from..to : u[k] = t[by + k]

LEMMA CountSame ==
  ASSUME NEW t, NEW u, NEW token, NEW from \in Int, NEW to \in Int, NEW by \in Int,
         Shifted(t, u, from, to, by)
  PROVE  Count(u, token, from, to) = Count(t, token, by + from, by + to)
<1> DEFINE A == {k \in from..to : u[k] = token}
           B == {k \in (by + from)..(by + to) : t[k] = token}
           f == [k \in A |-> by + k]
<1>1. IsFiniteSet(A)
  <2>1. IsFiniteSet(from..to) /\ A \subseteq from..to
    BY FS_Interval
  <2> QED
    BY <2>1, FS_Subset
<1>2. f \in Bijection(A, B)
  <2>1. f \in [A -> B]
    BY DEF Shifted
  <2>2. \A a, b \in A : f[a] = f[b] => a = b
    OBVIOUS
  <2>3. \A b \in B : \E a \in A : f[a] = b
    <3> SUFFICES ASSUME NEW b \in B PROVE b - by \in A /\ f[b - by] = b
      OBVIOUS
    <3>1. b - by \in from..to /\ by + (b - by) = b
      OBVIOUS
    <3> QED
      BY <3>1 DEF Shifted
  <2> HIDE DEF A, B, f
  <2> QED
    BY <2>1, <2>2, <2>3 DEF Bijection, Injection, Surjection, IsInjective
<1>3. Cardinality(A) = Cardinality(B)
  <2> HIDE DEF A, B, f
  <2> QED
    BY <1>1, <1>2, FS_Bijection DEF ExistsBijection
<1> QED
  BY <1>3 DEF Count

LEMMA DepthParts ==
  ASSUME NEW t, NEW from \in Int, NEW mid \in Int, NEW to \in Int, from <= mid + 1, mid <= to
  PROVE  /\ Depth(t, from, to) = Depth(t, from, mid) + Depth(t, mid + 1, to)
         /\ Depth(t, from, to) \in Int /\ Depth(t, from, mid) \in Int /\ Depth(t, mid + 1, to) \in Int
<1> DEFINE c(token, a, b) == Count(t, token, a, b)
<1>1. \A token : /\ c(token, from, to) = c(token, from, mid) + c(token, mid + 1, to)
                 /\ c(token, from, to) \in Nat /\ c(token, from, mid) \in Nat /\ c(token, mid + 1, to) \in Nat
  BY CountParts
<1> DEFINE o1 == c("(", from, to)  o2 == c("(", from, mid)  o3 == c("(", mid + 1, to)
           c1 == c(")", from, to)  c2 == c(")", from, mid)  c3 == c(")", mid + 1, to)
<1>2. /\ o1 = o2 + o3 /\ c1 = c2 + c3
      /\ o1 \in Nat /\ o2 \in Nat /\ o3 \in Nat /\ c1 \in Nat /\ c2 \in Nat /\ c3 \in Nat
  BY <1>1
<1>3. /\ Depth(t, from, to) = o1 - c1 /\ Depth(t, from, mid) = o2 - c2
      /\ Depth(t, mid + 1, to) = o3 - c3
  BY DEF Depth
<1> HIDE DEF o1, o2, o3, c1, c2, c3
<1> QED
  BY <1>2, <1>3

LEMMA DepthTyped ==
  ASSUME NEW t, NEW from \in Int, NEW to \in Int
  PROVE  /\ Depth(t, from, to) \in Int
         /\ to < from => Depth(t, from, to) = 0
         /\ Depth(t, from, to) = 0 <=> Count(t, "(", from, to) = Count(t, ")", from, to)
BY CountTyped DEF Depth

LEMMA DepthSame ==
  ASSUME NEW t, NEW u, NEW from \in Int, NEW to \in Int, NEW by \in Int,
         Shifted(t, u, from, to, by)
  PROVE  Depth(u, from, to) = Depth(t, by + from, by + to)
<1>1. ASSUME NEW token PROVE Count(u, token, from, to) = Count(t, token, by + from, by + to)
  BY CountSame
<1> QED
  BY <1>1 DEF Depth

LEMMA DepthOne ==
  ASSUME NEW t, NEW k \in Int, t[k] \notin {"(", ")"}
  PROVE  Depth(t, k, k) = 0
<1>1. {j \in k..k : t[j] = "("} = {} /\ {j \in k..k : t[j] = ")"} = {}
  OBVIOUS
<1>2. Count(t, "(", k, k) = 0 /\ Count(t, ")", k, k) = 0
  BY <1>1, FS_EmptySet DEF Count
<1> QED
  BY <1>2 DEF Depth

(* The words clauses start with, and texts without one outside parentheses. *)
Starts(token) == \E n \in 1..8 : token \in ClauseStarts[n]

LEMMA StartWords ==
  \A token : Starts(token) <=> token \in {"COMMENT", "PARTITIONED BY", "CLUSTERED BY", "SKEWED BY", "ROW FORMAT",
                                          "STORED AS", "STORED BY", "LOCATION", "TBLPROPERTIES"}
<1> SUFFICES ASSUME NEW token
             PROVE  Starts(token) <=> token \in {"COMMENT", "PARTITIONED BY", "CLUSTERED BY", "SKEWED BY", "ROW FORMAT",
                                          "STORED AS", "STORED BY", "LOCATION", "TBLPROPERTIES"}
  OBVIOUS
<1>1. \A n \in 1..8 : n = 1 \/ n = 2 \/ n = 3 \/ n = 4 \/ n = 5 \/ n = 6 \/ n = 7 \/ n = 8
  OBVIOUS
<1>2. Starts(token) <=> \/ token \in ClauseStarts[1] \/ token \in ClauseStarts[2] \/ token \in ClauseStarts[3]
                        \/ token \in ClauseStarts[4] \/ token \in ClauseStarts[5] \/ token \in ClauseStarts[6]
                        \/ token \in ClauseStarts[7] \/ token \in ClauseStarts[8]
  <2>1. 1 \in 1..8 /\ 2 \in 1..8 /\ 3 \in 1..8 /\ 4 \in 1..8 /\ 5 \in 1..8 /\ 6 \in 1..8 /\ 7 \in 1..8 /\ 8 \in 1..8
    OBVIOUS
  <2> QED
    BY <1>1, <2>1, Zenon DEF Starts
<1>3. /\ ClauseStarts[1] = {"COMMENT"} /\ ClauseStarts[2] = {"PARTITIONED BY"}
      /\ ClauseStarts[3] = {"CLUSTERED BY"} /\ ClauseStarts[4] = {"SKEWED BY"}
      /\ ClauseStarts[5] = {"ROW FORMAT"} /\ ClauseStarts[6] = {"STORED AS", "STORED BY"}
      /\ ClauseStarts[7] = {"LOCATION"} /\ ClauseStarts[8] = {"TBLPROPERTIES"}
  BY DEF ClauseStarts
<1> QED
  BY <1>2, <1>3, Zenon

Bracket(token) == token \in {"(", ")"}

Plain(t, i, j) ==
  /\ i \in 1..(Len(t) + 1) /\ j \in i..(Len(t) + 1) /\ Depth(t, i, j - 1) = 0
  /\ \A k \in i..(j - 1) : Depth(t, i, k) = 0 => ~ Starts(t[k])

LEMMA PlainNothing ==
  ASSUME NEW t, Len(t) \in Nat, NEW i \in 1..(Len(t) + 1)
  PROVE  Plain(t, i, i)
BY DepthTyped DEF Plain

LEMMA PlainOne ==
  ASSUME NEW t, Len(t) \in Nat, NEW i \in 1..Len(t), ~ Bracket(t[i]), ~ Starts(t[i])
  PROVE  Plain(t, i, i + 1)
<1>1. Depth(t, i, i) = 0
  BY DepthOne DEF Bracket
<1>2. (i + 1) - 1 = i /\ \A k \in i..i : k = i
  OBVIOUS
<1> QED
  BY <1>1, <1>2 DEF Plain

LEMMA PlainThen ==
  ASSUME NEW t, Len(t) \in Nat, NEW i, NEW j, NEW k, Plain(t, i, j), Plain(t, j, k)
  PROVE  Plain(t, i, k)
<1>1. /\ i \in 1..(Len(t) + 1) /\ j \in i..(Len(t) + 1) /\ Depth(t, i, j - 1) = 0
      /\ k \in j..(Len(t) + 1) /\ Depth(t, j, k - 1) = 0 /\ i \in Int /\ j \in Int /\ k \in Int
  BY DEF Plain
<1>2. \A m \in Int : m >= j - 1 => Depth(t, i, m) = Depth(t, j, m)
  <2> SUFFICES ASSUME NEW m \in Int, m >= j - 1 PROVE Depth(t, i, m) = Depth(t, j, m)
    OBVIOUS
  <2>1. i <= (j - 1) + 1 /\ j - 1 <= m /\ j - 1 \in Int /\ (j - 1) + 1 = j
    BY <1>1
  <2>2. /\ Depth(t, i, m) = Depth(t, i, j - 1) + Depth(t, (j - 1) + 1, m)
        /\ Depth(t, (j - 1) + 1, m) \in Int
    <3>1. \A a, b, c \in Int : a <= b + 1 /\ b <= c =>
            Depth(t, a, c) = Depth(t, a, b) + Depth(t, b + 1, c) /\ Depth(t, b + 1, c) \in Int
      BY DepthParts
    <3> QED
      BY <1>1, <2>1, <3>1
  <2> QED
    BY <1>1, <2>1, <2>2
<1>3. ASSUME NEW m \in i..(k - 1), Depth(t, i, m) = 0 PROVE ~ Starts(t[m])
  <2>1. CASE m \in i..(j - 1)
    BY <1>3, <2>1 DEF Plain
  <2>2. CASE m \in j..(k - 1)
    <3>1. Depth(t, j, m) = 0
      BY <1>1, <1>2, <1>3, <2>2
    <3> QED
      BY <2>2, <3>1 DEF Plain
  <2> QED
    BY <1>1, <2>1, <2>2
<1>4. Depth(t, i, k - 1) = 0
  BY <1>1, <1>2
<1> QED
  BY <1>1, <1>3, <1>4 DEF Plain

LEMMA LeastOf ==
  ASSUME NEW S \in SUBSET Nat, S # {}
  PROVE  Least(S) \in S /\ \A l \in S : Least(S) <= l
<1>1. \E k \in S : \A l \in S : k <= l
  <2> SUFFICES ASSUME \A k \in S : \E l \in S : ~ (k <= l) PROVE FALSE
    OBVIOUS
  <2> DEFINE rank == [n \in Nat |-> n]
             P == Nat \ S
  <2>1. rank \in [Nat -> Nat] /\ \A x \in Nat : (\A y \in Nat : rank[y] < rank[x] => y \in P) => x \in P
    <3> SUFFICES ASSUME NEW x \in Nat, \A y \in Nat : y < x => y \in P, x \in S PROVE FALSE
      OBVIOUS
    <3>1. PICK l \in S : ~ (x <= l)
      OBVIOUS
    <3>2. l \in Nat /\ l < x
      BY <3>1
    <3> QED
      BY <3>2
  <2> HIDE DEF rank, P
  <2>2. Nat \subseteq P
    BY <2>1, RankInduction
  <2> QED
    BY <2>2 DEF P
<1> QED
  BY <1>1 DEF Least

LEMMA DepthStep ==
  ASSUME NEW t, NEW i \in Int, NEW k \in Int, i <= k
  PROVE  /\ Depth(t, i, k) = Depth(t, i, k - 1) + Depth(t, k, k)
         /\ Depth(t, i, k) \in Int /\ Depth(t, i, k - 1) \in Int
         /\ t[k] = "(" => Depth(t, k, k) = 1
         /\ t[k] = ")" => Depth(t, k, k) = 0 - 1
         /\ t[k] # "(" /\ t[k] # ")" => Depth(t, k, k) = 0
<1>1. Depth(t, i, k) = Depth(t, i, k - 1) + Depth(t, k, k) /\ Depth(t, i, k) \in Int /\ Depth(t, i, k - 1) \in Int
  <2>1. i <= (k - 1) + 1 /\ k - 1 <= k /\ k - 1 \in Int /\ (k - 1) + 1 = k
    OBVIOUS
  <2> QED
    BY <2>1, DepthParts
<1>2. Cardinality({}) = 0 /\ Cardinality({k}) = 1
  BY FS_Singleton, FS_EmptySet
<1>3. ASSUME t[k] = "(" PROVE Depth(t, k, k) = 1
  <2>1. {j \in k..k : t[j] = "("} = {k} /\ {j \in k..k : t[j] = ")"} = {}
    BY <1>3
  <2> QED
    BY <1>2, <2>1 DEF Depth, Count
<1>4. ASSUME t[k] = ")" PROVE Depth(t, k, k) = 0 - 1
  <2>1. {j \in k..k : t[j] = ")"} = {k} /\ {j \in k..k : t[j] = "("} = {}
    BY <1>4
  <2> QED
    BY <1>2, <2>1 DEF Depth, Count
<1> QED
  BY <1>1, <1>3, <1>4, DepthOne

LEMMA PlainGroup ==
  ASSUME NEW t, Len(t) \in Nat, DOMAIN t = 1..Len(t), NEW i \in 1..(Len(t) + 1), NEW e \in Group(t, i)
  PROVE  /\ Plain(t, i, e) /\ e > i + 1 /\ t[e - 1] = ")"
         /\ i \in 1..Len(t) /\ t[i] = "("
<1> DEFINE closed == {k \in i..Len(t) : Count(t, "(", i, k) = Count(t, ")", i, k)}
<1>1. At(t, i) = "(" /\ closed # {} /\ e = Least(closed) + 1
  BY DEF Group
<1>2. i \in 1..Len(t) /\ t[i] = "("
  BY <1>1 DEF At
<1>3. closed = {k \in i..Len(t) : Depth(t, i, k) = 0}
  BY DepthTyped
<1> HIDE DEF closed
<1>4. PICK c \in closed : c = Least(closed) /\ \A l \in closed : c <= l
  <2>1. closed \subseteq Nat
    BY <1>3
  <2> QED
    BY <1>1, <2>1, LeastOf
<1>5. c \in i..Len(t) /\ e = c + 1 /\ Depth(t, i, c) = 0
  BY <1>1, <1>3, <1>4
<1>d. \A k \in Int : i <= k =>
        /\ Depth(t, i, k) = Depth(t, i, k - 1) + Depth(t, k, k)
        /\ Depth(t, i, k) \in Int /\ Depth(t, i, k - 1) \in Int /\ Depth(t, k, k) \in {0 - 1, 0, 1}
        /\ t[k] # ")" => Depth(t, k, k) \in {0, 1}
  <2> SUFFICES ASSUME NEW k \in Int, i <= k
               PROVE  /\ Depth(t, i, k) = Depth(t, i, k - 1) + Depth(t, k, k)
                      /\ Depth(t, i, k) \in Int /\ Depth(t, i, k - 1) \in Int /\ Depth(t, k, k) \in {0 - 1, 0, 1}
                      /\ t[k] # ")" => Depth(t, k, k) \in {0, 1}
    OBVIOUS
  <2>1. i \in Int
    OBVIOUS
  <2>2. /\ Depth(t, i, k) = Depth(t, i, k - 1) + Depth(t, k, k)
        /\ Depth(t, i, k) \in Int /\ Depth(t, i, k - 1) \in Int
        /\ t[k] = "(" => Depth(t, k, k) = 1
        /\ t[k] = ")" => Depth(t, k, k) = 0 - 1
        /\ t[k] # "(" /\ t[k] # ")" => Depth(t, k, k) = 0
    BY <2>1, DepthStep
  <2> QED
    BY <2>2
<1>6. Depth(t, i, i) = 1
  BY <1>2, DepthStep
<1>7. c > i
  BY <1>5, <1>6
<1>8. \A k \in i..(c - 1) : Depth(t, i, k) # 0
  <2> SUFFICES ASSUME NEW k \in i..(c - 1), Depth(t, i, k) = 0 PROVE FALSE
    OBVIOUS
  <2>1. k \in closed
    BY <1>3, <1>5
  <2> QED
    BY <1>4, <1>5, <2>1
<1>9. \A k \in i..(c - 1) : Depth(t, i, k) >= 1
  <2> DEFINE P == {k \in i..(c - 1) : Depth(t, i, k) >= 1}
  <2>1. i \in P
    BY <1>5, <1>6, <1>7
  <2>2. ASSUME NEW k \in i..(c - 1), k # i, k - 1 \in P PROVE k \in P
    <3>1. Depth(t, i, k) = Depth(t, i, k - 1) + Depth(t, k, k) /\ Depth(t, i, k) \in Int
          /\ Depth(t, i, k - 1) \in Int /\ Depth(t, k, k) \in {0 - 1, 0, 1}
      <4>1. k \in Int /\ i <= k
        BY <1>5
      <4> QED
        BY <4>1, <1>d, Zenon
    <3> QED
      BY <1>8, <2>2, <3>1
  <2> HIDE DEF P
  <2>3. Hereditary(i, c - 1, P)
    BY <1>2, <1>5, <2>1, <2>2 DEF Hereditary
  <2>4. i..(c - 1) \subseteq P
    BY <2>3, IntervalInduction
  <2> QED
    BY <2>4 DEF P
<1>10. t[c] = ")"
  <2>1. /\ Depth(t, i, c) = Depth(t, i, c - 1) + Depth(t, c, c) /\ Depth(t, i, c - 1) \in Int
        /\ t[c] # ")" => Depth(t, c, c) \in {0, 1}
    BY <1>5, <1>d
  <2>2. Depth(t, i, c - 1) >= 1
    BY <1>5, <1>7, <1>9
  <2> QED
    BY <1>5, <2>1, <2>2
<1>11. ~ Starts(")")
  BY StartWords
<1>12. (c + 1) - 1 = c /\ \A k \in i..c : k \in i..(c - 1) \/ k = c
  BY <1>5
<1> QED
  BY <1>2, <1>5, <1>7, <1>8, <1>10, <1>11, <1>12 DEF Plain

IsText(t) == t \in Seq({t[k] : k \in DOMAIN t})

LEMMA TextIs ==
  ASSUME NEW t, IsText(t)
  PROVE  Len(t) \in Nat /\ DOMAIN t = 1..Len(t)
BY DEF IsText

LEMMA SequenceIsText ==
  ASSUME NEW S, NEW t \in Seq(S)
  PROVE  IsText(t)
<1>1. Len(t) \in Nat /\ DOMAIN t = 1..Len(t) /\ t = [k \in 1..Len(t) |-> t[k]]
  OBVIOUS
<1> DEFINE A == {t[k] : k \in DOMAIN t}
<1>2. \A k \in 1..Len(t) : t[k] \in A
  BY <1>1
<1>3. t \in [1..Len(t) -> A]
  <2> HIDE DEF A
  <2> QED
    BY <1>1, <1>2
<1>4. t \in Seq(A)
  <2> HIDE DEF A
  <2> QED
    BY <1>1, <1>3
<1> QED
  BY <1>4 DEF IsText

(* Words that start no clause and are no bracket.                           *)
Words(S) == "end" \notin S /\ \A token \in S : ~ Bracket(token) /\ ~ Starts(token)

LEMMA PlainWord ==
  ASSUME NEW t, IsText(t), NEW i \in 1..(Len(t) + 1), NEW S, Words(S), At(t, i) \in S
  PROVE  Plain(t, i, i + 1) /\ i \in 1..Len(t) /\ At(t, i) = t[i]
<1>1. Len(t) \in Nat /\ DOMAIN t = 1..Len(t)
  BY TextIs
<1>2. i \in 1..Len(t) /\ At(t, i) = t[i]
  BY <1>1 DEF At, Words
<1> QED
  BY <1>1, <1>2, PlainOne DEF Words

LEMMA OtherWords ==
  /\ Words(Strings) /\ Words(Formats) /\ Words(DOMAIN Numbers)
  /\ Words({"ON"}) /\ Words({"SORTED BY"}) /\ Words({"INTO"}) /\ Words({"BUCKETS"}) /\ Words({"OUTPUTFORMAT"})
  /\ Words({"INPUTFORMAT"}) /\ Words({"SERDE"}) /\ Words({"DELIMITED"}) /\ Words({"WITH SERDEPROPERTIES"})
  /\ Words({"FIELDS TERMINATED BY", "ESCAPED BY", "COLLECTION ITEMS TERMINATED BY",
            "MAP KEYS TERMINATED BY", "LINES TERMINATED BY", "NULL DEFINED AS"})
<1>1. Words(DOMAIN Numbers)
  <2>1. \A n \in DOMAIN Numbers : n \notin Punctuation /\ n # "end" /\ ~ Starts(n)
    BY NumberTokens, Zenon DEF Starts
  <2> QED
    BY <2>1 DEF Words, Bracket, Punctuation
<1> QED
  BY <1>1, StartWords DEF Words, Bracket, Strings, Formats

LEMMA ClauseFields ==
  ASSUME NEW e, NEW x
  PROVE  /\ Clause(e).end = e /\ [Clause(e) EXCEPT !.comment = x].end = e
         /\ [Clause(e) EXCEPT !.partitions = x].end = e
         /\ [Clause(e) EXCEPT !.references = x].end = e
BY DEF Clause

(* How such texts are put together. *)
LEMMA PlainRules ==
  ASSUME NEW t, IsText(t)
  PROVE  /\ Len(t) \in Nat
         /\ \A i \in 1..(Len(t) + 1) : Plain(t, i, i)
         /\ \A i, j : Plain(t, i, j) => i \in 1..(Len(t) + 1) /\ j \in 1..(Len(t) + 1) /\ i <= j
         /\ \A i, j, k : Plain(t, i, j) /\ Plain(t, j, k) => Plain(t, i, k)
         /\ \A i \in 1..(Len(t) + 1) : \A S : Words(S) /\ At(t, i) \in S => Plain(t, i, i + 1) /\ i \in 1..Len(t)
         /\ \A i \in 1..(Len(t) + 1) : \A e \in Group(t, i) :
              Plain(t, i, e) /\ i \in 1..Len(t) /\ e > i + 1 /\ t[e - 1] = ")"
<1>1. Len(t) \in Nat /\ DOMAIN t = 1..Len(t)
  BY TextIs
<1>2. \A i \in 1..(Len(t) + 1) : Plain(t, i, i)
  BY <1>1, PlainNothing
<1>3. \A i, j : Plain(t, i, j) => i \in 1..(Len(t) + 1) /\ j \in 1..(Len(t) + 1) /\ i <= j
  <2> SUFFICES ASSUME NEW i, NEW j, Plain(t, i, j)
               PROVE  i \in 1..(Len(t) + 1) /\ j \in 1..(Len(t) + 1) /\ i <= j
    OBVIOUS
  <2> QED
    BY <1>1 DEF Plain
<1>4. ASSUME NEW i, NEW j, NEW k, Plain(t, i, j), Plain(t, j, k) PROVE Plain(t, i, k)
  BY <1>1, <1>4, PlainThen
<1>5. ASSUME NEW i \in 1..(Len(t) + 1), NEW S, Words(S), At(t, i) \in S
      PROVE  Plain(t, i, i + 1) /\ i \in 1..Len(t)
  BY <1>5, PlainWord
<1>6. ASSUME NEW i \in 1..(Len(t) + 1), NEW e \in Group(t, i)
      PROVE  Plain(t, i, e) /\ i \in 1..Len(t) /\ e > i + 1 /\ t[e - 1] = ")"
  BY <1>1, <1>6, PlainGroup
<1> QED
  BY <1>1, <1>2, <1>3, <1>4, <1>5, <1>6

LEMMA OneWord ==
  ASSUME NEW t, IsText(t), NEW i \in 1..(Len(t) + 1), NEW S, Words(S), NEW k \in One(t, i, S)
  PROVE  Plain(t, i, k) /\ k \in 1..(Len(t) + 1) /\ k = i + 1
<1>1. At(t, i) \in S /\ k = i + 1
  BY DEF One
<1>2. Plain(t, i, i + 1) /\ i \in 1..Len(t) /\ Len(t) \in Nat
  BY <1>1, PlainRules
<1> QED
  BY <1>1, <1>2

(* What a list in parentheses is. *)
LEMMA IdentifierLists ==
  ASSUME NEW t, NEW i, NEW l \in Listed(t, i, IdentifierList)
  PROVE  l.end \in Group(t, i) /\ l.value \in IdentifierList(Inside(t, i, l.end))
<1>1. PICK e \in Group(t, i) : l \in {[end |-> e, value |-> v] : v \in IdentifierList(Inside(t, i, e))}
  BY Zenon DEF Listed
<1>2. PICK v \in IdentifierList(Inside(t, i, e)) : l = [end |-> e, value |-> v]
  BY <1>1, Zenon
<1>3. l.end = e /\ l.value = v
  BY <1>2, Zenon
<1> QED
  BY <1>3, Zenon

LEMMA SortLists ==
  ASSUME NEW t, NEW i, NEW l \in Listed(t, i, SortList)
  PROVE  l.end \in Group(t, i) /\ l.value \in SortList(Inside(t, i, l.end))
<1>1. PICK e \in Group(t, i) : l \in {[end |-> e, value |-> v] : v \in SortList(Inside(t, i, e))}
  BY Zenon DEF Listed
<1>2. PICK v \in SortList(Inside(t, i, e)) : l = [end |-> e, value |-> v]
  BY <1>1, Zenon
<1>3. l.end = e /\ l.value = v
  BY <1>2, Zenon
<1> QED
  BY <1>3, Zenon

LEMMA PropertyLists ==
  ASSUME NEW t, NEW i, NEW l \in Listed(t, i, PropertyList)
  PROVE  l.end \in Group(t, i) /\ l.value \in PropertyList(Inside(t, i, l.end))
<1>1. PICK e \in Group(t, i) : l \in {[end |-> e, value |-> v] : v \in PropertyList(Inside(t, i, e))}
  BY Zenon DEF Listed
<1>2. PICK v \in PropertyList(Inside(t, i, e)) : l = [end |-> e, value |-> v]
  BY <1>1, Zenon
<1>3. l.end = e /\ l.value = v
  BY <1>2, Zenon
<1> QED
  BY <1>3, Zenon

LEMMA PartitionLists ==
  ASSUME NEW t, NEW i, NEW l \in Listed(t, i, LAMBDA list : ColumnList(list, FALSE))
  PROVE  l.end \in Group(t, i) /\ l.value \in ColumnList(Inside(t, i, l.end), FALSE)
<1>1. PICK e \in Group(t, i) : l \in {[end |-> e, value |-> v] : v \in ColumnList(Inside(t, i, e), FALSE)}
  BY Zenon DEF Listed
<1>2. PICK v \in ColumnList(Inside(t, i, e), FALSE) : l = [end |-> e, value |-> v]
  BY <1>1, Zenon
<1>3. l.end = e /\ l.value = v
  BY <1>2, Zenon
<1> QED
  BY <1>3, Zenon

(* From its start to its end, a clause has no other start in it.            *)
LEMMA CommentEnds ==
  ASSUME NEW t, IsText(t), Len(t) >= 1, NEW c \in CommentClause(t)
  PROVE  Plain(t, 2, c.end)
<1>1. Len(t) \in Nat /\ 2 \in 1..(Len(t) + 1)
  BY TextIs
<1>2. PICK e \in Comment(t, 1) : c = [Clause(e) EXCEPT !.comment = Decoded(stmt.text)]
  BY DEF CommentClause
<1>3. e = 3 /\ At(t, 2) \in Strings
  <2>1. e \in One(t, 1 + 1, Strings)
    BY <1>2 DEF Comment
  <2> QED
    BY <2>1 DEF One
<1> QED
  <2>1. Plain(t, 2, 2 + 1) /\ 2 + 1 = 3
    <3>1. At(t, 2) \in Strings /\ Words(Strings)
      BY <1>3, OtherWords
    <3> QED
      BY <1>1, <3>1, PlainRules
  <2> QED
    BY <1>2, <1>3, <2>1, ClauseFields

LEMMA PartitionedEnds ==
  ASSUME NEW t, IsText(t), Len(t) >= 1, NEW c \in PartitionedClause(t)
  PROVE  Plain(t, 2, c.end)
<1>1. Len(t) \in Nat /\ DOMAIN t = 1..Len(t) /\ 2 \in 1..(Len(t) + 1)
  BY TextIs
<1>2. PICK l \in Listed(t, 2, LAMBDA list : ColumnList(list, FALSE)) :
        c = [Clause(l.end) EXCEPT !.partitions = l.value.columns]
  BY DEF PartitionedClause
<1>e. l.end \in Group(t, 2)
  BY PartitionLists
<1>3. c.end = l.end
  BY <1>2, ClauseFields
<1> QED
  BY <1>1, <1>3, <1>e, PlainRules

LEMMA LocationEnds ==
  ASSUME NEW t, IsText(t), Len(t) >= 1, NEW c \in LocationClause(t)
  PROVE  Plain(t, 2, c.end)
<1>1. Len(t) \in Nat /\ 2 \in 1..(Len(t) + 1)
  BY TextIs
<1>2. c = Clause(3) /\ At(t, 2) \in Strings
  BY DEF LocationClause, One
<1>3. Plain(t, 2, 2 + 1) /\ 2 + 1 = 3
  <2>1. At(t, 2) \in Strings /\ Words(Strings)
    BY <1>2, OtherWords
  <2> QED
    BY <1>1, <2>1, PlainRules
<1> QED
  BY <1>2, <1>3, ClauseFields

LEMMA PropertiesEnds ==
  ASSUME NEW t, IsText(t), Len(t) >= 1, NEW c \in PropertiesClause(t)
  PROVE  Plain(t, 2, c.end)
<1>1. Len(t) \in Nat /\ DOMAIN t = 1..Len(t) /\ 2 \in 1..(Len(t) + 1)
  BY TextIs
<1>2. PICK l \in Listed(t, 2, PropertyList) : c = Clause(l.end)
  BY DEF PropertiesClause
<1>3. c.end \in Group(t, 2)
  BY <1>2, PropertyLists, ClauseFields
<1> QED
  BY <1>1, <1>3, PlainRules

LEMMA ClusteredEnds ==
  ASSUME NEW t, IsText(t), Len(t) >= 1, NEW c \in ClusteredClause(t)
  PROVE  Plain(t, 2, c.end)
<1>1. Len(t) \in Nat /\ DOMAIN t = 1..Len(t) /\ 2 \in 1..(Len(t) + 1)
  BY TextIs
<1> DEFINE sorts(l) == IF At(t, l.end) = "SORTED BY"
                       THEN {[end |-> s.end, references |-> <<l.value>> \o SortReferences(s.value)] :
                               s \in Listed(t, l.end + 1, SortList)}
                       ELSE {[end |-> l.end, references |-> <<l.value>>]}
           buckets(i) == {j + 1 : j \in {j \in Integer(t, i + 1) : /\ At(t, i) = "INTO" /\ At(t, j) = "BUCKETS"
                                                                   /\ Value(t[j - 1]) > 0}}
<1>2. PICK l \in Listed(t, 2, IdentifierList) :
        c \in UNION {{[Clause(e) EXCEPT !.references = s.references] : e \in buckets(s.end)} : s \in sorts(l)}
  BY DEF ClusteredClause
<1>3. PICK s \in sorts(l) : c \in {[Clause(e) EXCEPT !.references = s.references] : e \in buckets(s.end)}
  BY <1>2
<1>4. PICK e \in buckets(s.end) : c = [Clause(e) EXCEPT !.references = s.references]
  BY <1>3
<1>5. l.end \in Group(t, 2)
  BY IdentifierLists
<1>r. /\ \A i \in 1..(Len(t) + 1) : \A S : Words(S) /\ At(t, i) \in S => Plain(t, i, i + 1) /\ i \in 1..Len(t)
      /\ \A i, j : Plain(t, i, j) => i \in 1..(Len(t) + 1) /\ j \in 1..(Len(t) + 1) /\ i <= j
      /\ \A i, j, k : Plain(t, i, j) /\ Plain(t, j, k) => Plain(t, i, k)
      /\ \A i \in 1..(Len(t) + 1) : \A g \in Group(t, i) : Plain(t, i, g)
  BY PlainRules
<1>o. Words({"INTO"}) /\ Words({"BUCKETS"}) /\ Words({"SORTED BY"}) /\ Words(DOMAIN Numbers)
  BY OtherWords
<1>6. Plain(t, 2, l.end) /\ l.end \in 1..(Len(t) + 1)
  BY <1>1, <1>5, <1>r
<1>s. s.end = l.end \/ (At(t, l.end) = "SORTED BY" /\ s.end \in Group(t, l.end + 1))
  <2>1. CASE At(t, l.end) = "SORTED BY"
    <3>1. PICK g \in Listed(t, l.end + 1, SortList) :
            s = [end |-> g.end, references |-> <<l.value>> \o SortReferences(g.value)]
      BY <2>1, Zenon
    <3>2. s.end = g.end
      BY <3>1, Zenon
    <3> QED
      BY <2>1, <3>2, SortLists, Zenon
  <2>2. CASE At(t, l.end) # "SORTED BY"
    <3>1. s = [end |-> l.end, references |-> <<l.value>>]
      BY <2>2, Zenon
    <3> QED
      BY <3>1, Zenon
  <2> QED
    BY <2>1, <2>2
<1>t. /\ At(t, s.end) = "INTO"
      /\ \E j \in Integer(t, s.end + 1) : e = j + 1 /\ At(t, j) = "BUCKETS"
  BY Zenon
<1>u. c.end = e
  BY <1>4, ClauseFields
<1> DEFINE m == s.end
           q == l.end
<1> SUFFICES ASSUME NEW u, NEW p, NEW f, u = m, p = q, f = e,
                    Plain(t, 2, p), p \in 1..(Len(t) + 1),
                    u = p \/ (At(t, p) = "SORTED BY" /\ u \in Group(t, p + 1)),
                    At(t, u) = "INTO", \E j \in Integer(t, u + 1) : f = j + 1 /\ At(t, j) = "BUCKETS"
             PROVE  Plain(t, 2, f)
  BY <1>6, <1>s, <1>t, <1>u
<1> HIDE DEF sorts, buckets, m, q
<1>8. Plain(t, 2, u) /\ u \in 1..(Len(t) + 1)
  <2>1. CASE u = p
    BY <2>1
  <2>2. CASE At(t, p) \in {"SORTED BY"} /\ u \in Group(t, p + 1)
    <3>1. Plain(t, p, p + 1) /\ p + 1 \in 1..(Len(t) + 1)
      BY <1>o, <1>r, <2>2
    <3>2. Plain(t, p + 1, u)
      BY <1>r, <2>2, <3>1
    <3> QED
      BY <1>r, <3>1, <3>2
  <2> QED
    BY <2>1, <2>2
<1>10. At(t, u + 1) \in DOMAIN Numbers /\ \E j : j = (u + 1) + 1 /\ f = j + 1 /\ At(t, j) \in {"BUCKETS"}
  BY DEF Integer
<1>11. Plain(t, u, u + 1) /\ u + 1 \in 1..(Len(t) + 1)
  <2>1. At(t, u) \in {"INTO"}
    OBVIOUS
  <2> QED
    BY <1>8, <1>o, <1>r, <2>1
<1>12. Plain(t, u + 1, (u + 1) + 1) /\ (u + 1) + 1 \in 1..(Len(t) + 1)
  BY <1>10, <1>11, <1>o, <1>r
<1>13. Plain(t, (u + 1) + 1, f)
  <2>1. f = ((u + 1) + 1) + 1 /\ At(t, (u + 1) + 1) \in {"BUCKETS"}
    BY <1>10, Zenon
  <2> DEFINE b == (u + 1) + 1
  <2>2. b \in 1..(Len(t) + 1) /\ At(t, b) \in {"BUCKETS"} /\ f = b + 1
    BY <1>12, <2>1
  <2> HIDE DEF b
  <2>3. Plain(t, b, b + 1)
    BY <1>o, <1>r, <2>2, Zenon
  <2> QED
    BY <2>2, <2>3 DEF b
<1> QED
  <2>1. Plain(t, 2, u + 1)
    BY <1>8, <1>11, <1>r, Zenon
  <2>2. Plain(t, 2, (u + 1) + 1)
    BY <1>12, <1>r, <2>1, Zenon
  <2> QED
    BY <1>13, <1>r, <2>2, Zenon

(* WITH SERDEPROPERTIES. *)
LEMMA SerdeEnds ==
  ASSUME NEW t, IsText(t), NEW i \in 1..(Len(t) + 1), NEW e \in SerdeProperties(t, i)
  PROVE  Plain(t, i, e)
<1>r. /\ Len(t) \in Nat
      /\ \A k \in 1..(Len(t) + 1) : Plain(t, k, k)
      /\ \A k \in 1..(Len(t) + 1) : \A S : Words(S) /\ At(t, k) \in S => Plain(t, k, k + 1) /\ k \in 1..Len(t)
      /\ \A k, l, m : Plain(t, k, l) /\ Plain(t, l, m) => Plain(t, k, m)
      /\ \A k \in 1..(Len(t) + 1) : \A g \in Group(t, k) : Plain(t, k, g)
  BY PlainRules
<1>1. CASE At(t, i) \in {"WITH SERDEPROPERTIES"}
  <2>1. PICK l \in Listed(t, i + 1, PropertyList) : e = l.end
    BY <1>1 DEF SerdeProperties
  <2>2. e \in Group(t, i + 1)
    BY <2>1, PropertyLists
  <2>3. Plain(t, i, i + 1) /\ i \in 1..Len(t)
    BY <1>1, <1>r, OtherWords, Zenon
  <2>4. i + 1 \in 1..(Len(t) + 1)
    BY <1>r, <2>3
  <2>5. Plain(t, i + 1, e)
    BY <1>r, <2>2, <2>4, Zenon
  <2> QED
    BY <1>r, <2>3, <2>5, Zenon
<1>2. CASE At(t, i) \notin {"WITH SERDEPROPERTIES"}
  <2>1. e = i
    BY <1>2 DEF SerdeProperties
  <2> QED
    BY <1>r, <2>1
<1> QED
  BY <1>1, <1>2

LEMMA StoredEnds ==
  ASSUME NEW t, IsText(t), Len(t) >= 1, NEW c \in StoredClause(t)
  PROVE  Plain(t, 2, c.end)
<1>r. /\ Len(t) \in Nat /\ 2 \in 1..(Len(t) + 1)
      /\ \A k \in 1..(Len(t) + 1) : \A S : Words(S) /\ At(t, k) \in S => Plain(t, k, k + 1) /\ k \in 1..Len(t)
      /\ \A k, l, m : Plain(t, k, l) /\ Plain(t, l, m) => Plain(t, k, m)
  BY PlainRules
<1>n. \A k \in 1..Len(t) : k + 1 \in 1..(Len(t) + 1)
  BY <1>r
<1>3n. 2 + 1 = 3
  OBVIOUS
<1>o. Words(Strings) /\ Words(Formats) /\ Words({"OUTPUTFORMAT"}) /\ Words({"INPUTFORMAT"})
  BY OtherWords
<1> DEFINE output(i) == UNION {One(t, j, Strings) : j \in One(t, i, {"OUTPUTFORMAT"})}
           ends == CASE t[1] = "STORED BY" -> UNION {SerdeProperties(t, i) : i \in One(t, 2, Strings)}
                     [] At(t, 2) = "INPUTFORMAT" /\ t[1] = "STORED AS" -> UNION {output(i) : i \in One(t, 3, Strings)}
                     [] OTHER -> One(t, 2, Formats)
<1>1. \E e \in ends : c = Clause(e)
  BY DEF StoredClause, Then
<1>2. PICK e \in ends : c.end = e
  <2> HIDE DEF ends
  <2>1. PICK e \in ends : c = Clause(e)
    BY <1>1
  <2> QED
    BY <2>1, ClauseFields
<1>w. \A i, S, e2 : e2 \in One(t, i, S) => At(t, i) \in S /\ e2 = i + 1
  BY DEF One
<1>w2. \A i, S, e2 : i \in 1..(Len(t) + 1) /\ Words(S) /\ e2 \in One(t, i, S) =>
         Plain(t, i, e2) /\ e2 \in 1..(Len(t) + 1) /\ e2 = i + 1
  BY OneWord
<1>3. CASE t[1] = "STORED BY"
  <2>1. e \in UNION {SerdeProperties(t, i) : i \in One(t, 2, Strings)}
    BY <1>3
  <2>2. PICK i \in One(t, 2, Strings) : e \in SerdeProperties(t, i)
    BY <2>1
  <2>3. Plain(t, 2, i) /\ i \in 1..(Len(t) + 1)
    BY <1>o, <1>r, <1>w2, Zenon
  <2>4. Plain(t, i, e)
    BY <2>2, <2>3, SerdeEnds
  <2> QED
    BY <1>2, <1>r, <2>3, <2>4, Zenon
<1>4. CASE t[1] # "STORED BY" /\ At(t, 2) \in {"INPUTFORMAT"} /\ t[1] = "STORED AS"
  <2>1. e \in UNION {output(i) : i \in One(t, 3, Strings)}
    BY <1>4
  <2>2. PICK i \in One(t, 3, Strings) : e \in output(i)
    BY <2>1
  <2>3. PICK j \in One(t, i, {"OUTPUTFORMAT"}) : e \in One(t, j, Strings)
    BY <2>2
  <2>4. Plain(t, 2, 2 + 1) /\ 2 \in 1..Len(t)
    BY <1>4, <1>o, <1>r, Zenon
  <2>5. Plain(t, 2, 3) /\ 3 \in 1..(Len(t) + 1)
    BY <1>n, <1>3n, <2>4, Zenon
  <2>6. Plain(t, 3, i) /\ i \in 1..(Len(t) + 1)
    BY <1>o, <1>w2, <2>5, Zenon
  <2>7. Plain(t, i, j) /\ j \in 1..(Len(t) + 1)
    BY <1>o, <1>w2, <2>6, Zenon
  <2>8. Plain(t, j, e)
    BY <1>o, <1>w2, <2>3, <2>7, Zenon
  <2>9. Plain(t, 2, i)
    BY <1>r, <2>5, <2>6, Zenon
  <2>10. Plain(t, 2, j)
    BY <1>r, <2>7, <2>9, Zenon
  <2> QED
    BY <1>2, <1>r, <2>8, <2>10, Zenon
<1>5. CASE ~ (t[1] = "STORED BY") /\ ~ (At(t, 2) \in {"INPUTFORMAT"} /\ t[1] = "STORED AS")
  <2>1. e \in One(t, 2, Formats)
    BY <1>5
  <2> QED
    BY <1>2, <1>o, <1>r, <1>w2, <2>1, Zenon
<1> QED
  BY <1>3, <1>4, <1>5

DirectoriesAt(t, k) == <<At(t, k), At(t, k + 1)>> = <<"STORED AS", "DIRECTORIES">>

LEMMA SkewedEnds ==
  ASSUME NEW t, IsText(t), Len(t) >= 1, NEW c \in SkewedClause(t)
  PROVE  \E g : /\ Plain(t, 2, g) /\ t[g - 1] = ")" /\ g > 2
                /\ c.end = IF DirectoriesAt(t, g) THEN g + 2 ELSE g
<1>r. /\ Len(t) \in Nat /\ 2 \in 1..(Len(t) + 1)
      /\ \A k \in 1..(Len(t) + 1) : \A S : Words(S) /\ At(t, k) \in S => Plain(t, k, k + 1) /\ k \in 1..Len(t)
      /\ \A k, l, m : Plain(t, k, l) /\ Plain(t, l, m) => Plain(t, k, m)
      /\ \A k \in 1..(Len(t) + 1) : \A g \in Group(t, k) : Plain(t, k, g) /\ g > k + 1 /\ t[g - 1] = ")"
      /\ \A k, l : Plain(t, k, l) => k \in 1..(Len(t) + 1) /\ l \in 1..(Len(t) + 1) /\ k <= l
  BY PlainRules
<1> DEFINE directories(e) == IF <<At(t, e), At(t, e + 1)>> = <<"STORED AS", "DIRECTORIES">> THEN e + 2 ELSE e
           values(l) == Listed(t, l.end + 1, LAMBDA list : SkewedValues(list, Len(l.value)))
<1>1. PICK l \in Listed(t, 2, IdentifierList) :
        c \in {[Clause(directories(v.end)) EXCEPT !.references = <<l.value>>] :
                 v \in {v \in values(l) : At(t, l.end) = "ON"}}
  BY DEF SkewedClause
<1>2. PICK v \in values(l) : At(t, l.end) = "ON" /\ c = [Clause(directories(v.end)) EXCEPT !.references = <<l.value>>]
  BY <1>1
<1>3. c.end = directories(v.end)
  BY <1>2, ClauseFields
<1>4. l.end \in Group(t, 2)
  BY IdentifierLists
<1>5. v.end \in Group(t, l.end + 1)
  <2> DEFINE value(e) == SkewedValues(Inside(t, l.end + 1, e), Len(l.value))
  <2>1. PICK e \in Group(t, l.end + 1) : v \in {[end |-> e, value |-> x] : x \in value(e)}
    BY Zenon DEF Listed
  <2>2. PICK x \in value(e) : v = [end |-> e, value |-> x]
    BY <2>1, Zenon
  <2> QED
    BY <2>2, Zenon
<1> HIDE DEF values
<1> SUFFICES ASSUME NEW p, NEW g, p \in Group(t, 2), At(t, p) \in {"ON"}, g \in Group(t, p + 1),
                    c.end = directories(g)
             PROVE  Plain(t, 2, g) /\ t[g - 1] = ")" /\ g > 2
  BY <1>2, <1>3, <1>4, <1>5 DEF DirectoriesAt
<1> HIDE DEF directories
<1>6. Plain(t, 2, p) /\ p \in 1..(Len(t) + 1)
  BY <1>r, Zenon
<1>7. Plain(t, p, p + 1) /\ p \in 1..Len(t)
  BY <1>6, <1>r, OtherWords, Zenon
<1>8. p + 1 \in 1..(Len(t) + 1)
  BY <1>7, <1>r
<1>9. Plain(t, p + 1, g) /\ g > (p + 1) + 1 /\ t[g - 1] = ")"
  BY <1>8, <1>r, Zenon
<1>10. Plain(t, 2, p + 1)
  BY <1>6, <1>7, <1>r, Zenon
<1>11. Plain(t, 2, g)
  BY <1>9, <1>10, <1>r, Zenon
<1>12. g \in Int /\ p \in Int /\ p >= 1
  BY <1>7, <1>11, <1>r
<1> QED
  BY <1>9, <1>11, <1>12

(* The options of ROW FORMAT DELIMITED.                                     *)
RowEnd(token) == token \in UNION {ClauseStarts[n] : n \in 1..8} \cup {"AS", "end"}
NextOption(t, i, given) ==
  {n \in 1..6 : /\ RowOptions[n] = t[i] /\ \A m \in given : m < n
                /\ n = 2 => 1 \in given}
OptionEnds(t, f) ==
  f = [place \in (1..(Len(t) + 2)) \X SUBSET (1..6) |->
         IF RowEnd(At(t, place[1])) THEN {place[1]}
         ELSE UNION {UNION {f[<<j, place[2] \cup {n}>>] : j \in One(t, place[1] + 1, Strings)} :
                       n \in NextOption(t, place[1], place[2])}]

LEMMA OptionsExist ==
  ASSUME NEW t, IsText(t)
  PROVE  \E f : OptionEnds(t, f)
<1>1. Len(t) \in Nat /\ DOMAIN t = 1..Len(t)
  BY TextIs
<1> DEFINE I == 1..(Len(t) + 2)
           G == SUBSET (1..6)
           D == I \X G
           A == SUBSET Int
           rank == [x \in D |-> Len(t) + 2 - x[1]]
           bound == Len(t) + 2
           one(g, given, n, j) == g[<<j, given \cup {n}>>]
           later(i, given, g) ==
             UNION {UNION {one(g, given, n, j) : j \in One(t, i + 1, Strings)} : n \in NextOption(t, i, given)}
           body(x, g) == IF RowEnd(At(t, x[1])) THEN {x[1]} ELSE later(x[1], x[2], g)
           F == [x \in D |-> [g \in [D -> A] |-> body(x, g)]]
<1>2. rank \in [D -> Nat] /\ bound \in Nat /\ \A x \in D : rank[x] < bound
  BY <1>1
<1>3. \A i \in I, given \in G : \A j \in One(t, i + 1, Strings) : \A n \in NextOption(t, i, given) :
        /\ <<j, given \cup {n}>> \in D /\ rank[<<j, given \cup {n}>>] < rank[<<i, given>>]
  <2> SUFFICES ASSUME NEW i \in I, NEW given \in G, NEW j \in One(t, i + 1, Strings),
                      NEW n \in NextOption(t, i, given)
               PROVE  /\ <<j, given \cup {n}>> \in D /\ rank[<<j, given \cup {n}>>] < rank[<<i, given>>]
    OBVIOUS
  <2>1. At(t, i + 1) \in Strings /\ j = (i + 1) + 1
    BY DEF One
  <2>2. i + 1 \in 1..Len(t)
    <3>1. "end" \notin Strings
      BY DEF Strings
    <3> QED
      BY <1>1, <2>1, <3>1 DEF At
  <2>3. j \in I /\ j > i /\ n \in 1..6
    BY <1>1, <2>1, <2>2 DEF NextOption
  <2>4. given \cup {n} \in G
    BY <2>3
  <2>5. <<j, given \cup {n}>> \in D /\ <<i, given>> \in D
    BY <2>3, <2>4
  <2>6. \A y \in D : rank[y] = Len(t) + 2 - y[1]
    OBVIOUS
  <2>7. <<j, given \cup {n}>>[1] = j /\ <<i, given>>[1] = i
    OBVIOUS
  <2> HIDE DEF rank, D
  <2>8. rank[<<j, given \cup {n}>>] = Len(t) + 2 - j /\ rank[<<i, given>>] = Len(t) + 2 - i
    BY <2>5, <2>6, <2>7
  <2>9. rank[<<j, given \cup {n}>>] < rank[<<i, given>>]
    BY <1>1, <2>3, <2>8
  <2> QED
    BY <2>5, <2>9
<1>u. \A i, given, g, z : z \in later(i, given, g) <=>
        \E n \in NextOption(t, i, given) : \E j \in One(t, i + 1, Strings) : z \in one(g, given, n, j)
  <2> HIDE DEF one
  <2> QED
    OBVIOUS
<1>4. ASSUME NEW x \in D, NEW g \in [D -> A] PROVE body(x, g) \in A
  <2>1. x[1] \in I /\ x[2] \in G /\ I \subseteq Int
    BY <1>1
  <2>2. later(x[1], x[2], g) \in A
    <3> SUFFICES ASSUME NEW j \in One(t, x[1] + 1, Strings), NEW n \in NextOption(t, x[1], x[2])
                 PROVE  g[<<j, x[2] \cup {n}>>] \in A
      <4> HIDE DEF later
      <4>1. ASSUME NEW z \in later(x[1], x[2], g) PROVE z \in Int
        BY <1>u
      <4> QED
        BY <4>1
    <3> HIDE DEF D, A, I, G, rank
    <3>1. <<j, x[2] \cup {n}>> \in D
      BY <1>3, <2>1
    <3> QED
      BY <3>1
  <2>3. {x[1]} \in A
    BY <2>1
  <2> HIDE DEF D, A, I, G, later
  <2> QED
    BY <2>2, <2>3
<1>5. F \in [D -> [[D -> A] -> A]]
  <2> HIDE DEF body, D, A
  <2> QED
    BY <1>4
<1>6. ASSUME NEW x \in D, NEW g \in [D -> A], NEW h \in [D -> A],
             \A y \in D : rank[y] < rank[x] => g[y] = h[y]
      PROVE  F[x][g] = F[x][h]
  <2>1. x[1] \in I /\ x[2] \in G /\ x = <<x[1], x[2]>>
    OBVIOUS
  <2>2. later(x[1], x[2], g) = later(x[1], x[2], h)
    <3>1. \A j \in One(t, x[1] + 1, Strings) : \A n \in NextOption(t, x[1], x[2]) :
            g[<<j, x[2] \cup {n}>>] = h[<<j, x[2] \cup {n}>>]
      <4> HIDE DEF D, A, I, G, rank
      <4> QED
        BY <1>3, <1>6, <2>1
    <3> HIDE DEF D, A, I, G, rank
    <3>2. \A z : z \in later(x[1], x[2], g) <=> z \in later(x[1], x[2], h)
      <4> HIDE DEF later
      <4> QED
        BY <1>u, <3>1
    <3> HIDE DEF later
    <3> QED
      BY <3>2
  <2>3. body(x, g) = body(x, h)
    <3> HIDE DEF D, A, I, G, rank, later
    <3> QED
      BY <2>2
  <2> HIDE DEF D, A, I, G, rank, later, body
  <2> QED
    BY <2>3
<1>7. \E f \in [D -> A] : \A x \in D : f[x] = F[x][f]
  <2>1. A # {}
    OBVIOUS
  <2>2. Recursive(D, A, rank, bound, F)
    <3> HIDE DEF D, A, rank, bound, F
    <3> QED
      BY <1>2, <1>5, <1>6 DEF Recursive
  <2> HIDE DEF D, A, rank, bound, F
  <2> QED
    BY <2>1, <2>2, Recursion
<1>8. PICK f \in [D -> A] : \A x \in D : f[x] = body(x, f)
  <2> HIDE DEF D, A, body
  <2> QED
    BY <1>7
<1>9. f = [x \in D |-> body(x, f)]
  <2> HIDE DEF D, A, body
  <2> QED
    BY <1>8
<1>10. OptionEnds(t, f)
  BY <1>9 DEF OptionEnds
<1> QED
  BY <1>10

LEMMA RowEnds ==
  ASSUME NEW t, IsText(t), Len(t) >= 1, NEW c \in RowClause(t)
  PROVE  Plain(t, 2, c.end)
<1>r. /\ Len(t) \in Nat /\ 2 \in 1..(Len(t) + 1)
      /\ \A k \in 1..(Len(t) + 1) : Plain(t, k, k)
      /\ \A k \in 1..(Len(t) + 1) : \A S : Words(S) /\ At(t, k) \in S => Plain(t, k, k + 1) /\ k \in 1..Len(t)
      /\ \A k, l, m : Plain(t, k, l) /\ Plain(t, l, m) => Plain(t, k, m)
  BY PlainRules
<1>n. \A k \in 1..Len(t) : k + 1 \in 1..(Len(t) + 1)
  BY <1>r
<1> DEFINE option == CHOOSE f : OptionEnds(t, f)
           ends == CASE At(t, 2) = "SERDE"     -> UNION {SerdeProperties(t, i) : i \in One(t, 3, Strings)}
                     [] At(t, 2) = "DELIMITED" -> option[<<3, {}>>]
                     [] OTHER                  -> {}
<1>0. OptionEnds(t, option)
  BY OptionsExist
<1>1. \E e \in ends : c = Clause(e)
  BY DEF RowClause, OptionEnds, RowEnd, NextOption, Then

<1>2. PICK e \in ends : c.end = e
  <2> HIDE DEF ends
  <2>1. PICK e \in ends : c = Clause(e)
    BY <1>1
  <2> QED
    BY <2>1, ClauseFields
<1> HIDE DEF option
<1>o. Words(Strings) /\ Words({"SERDE"}) /\ Words({"DELIMITED"}) /\ Words({RowOptions[n] : n \in 1..6})
  <2>1. \A n \in 1..6 : n = 1 \/ n = 2 \/ n = 3 \/ n = 4 \/ n = 5 \/ n = 6
    OBVIOUS
  <2>2. {RowOptions[n] : n \in 1..6} \subseteq
          {"FIELDS TERMINATED BY", "ESCAPED BY", "COLLECTION ITEMS TERMINATED BY",
           "MAP KEYS TERMINATED BY", "LINES TERMINATED BY", "NULL DEFINED AS"}
    <3>1. /\ RowOptions[1] = "FIELDS TERMINATED BY" /\ RowOptions[2] = "ESCAPED BY"
          /\ RowOptions[3] = "COLLECTION ITEMS TERMINATED BY" /\ RowOptions[4] = "MAP KEYS TERMINATED BY"
          /\ RowOptions[5] = "LINES TERMINATED BY" /\ RowOptions[6] = "NULL DEFINED AS"
      BY DEF RowOptions
    <3> QED
      BY <2>1, <3>1, Zenon
  <2>3. \A S, T : S \subseteq T /\ Words(T) => Words(S)
    BY DEF Words
  <2> QED
    BY <2>2, <2>3, OtherWords
<1>w. \A i, S, k : k \in One(t, i, S) => At(t, i) \in S /\ k = i + 1
  BY DEF One
<1>v. \A i, S, k : i \in 1..(Len(t) + 1) /\ Words(S) /\ k \in One(t, i, S) =>
         Plain(t, i, k) /\ k \in 1..(Len(t) + 1) /\ k = i + 1
  BY OneWord
<1> DEFINE D == (1..(Len(t) + 2)) \X SUBSET (1..6)
<1>e. \A place \in D : \A k \in option[place] :
        \/ k = place[1]
        \/ \E n \in NextOption(t, place[1], place[2]) : \E j \in One(t, place[1] + 1, Strings) :
             k \in option[<<j, place[2] \cup {n}>>]
  <2>1. \A place \in D :
          option[place] = IF RowEnd(At(t, place[1])) THEN {place[1]}
                          ELSE UNION {UNION {option[<<j, place[2] \cup {n}>>] : j \in One(t, place[1] + 1, Strings)} :
                                        n \in NextOption(t, place[1], place[2])}
    BY <1>0, Zenon DEF OptionEnds
  <2> DEFINE part(place, j, n) == option[<<j, place[2] \cup {n}>>]
             all(place) == UNION {UNION {part(place, j, n) : j \in One(t, place[1] + 1, Strings)} :
                                    n \in NextOption(t, place[1], place[2])}
  <2>2. \A place \in D : option[place] = IF RowEnd(At(t, place[1])) THEN {place[1]} ELSE all(place)
    BY <2>1, Zenon
  <2>3. \A place, k : k \in all(place) =>
          \E n \in NextOption(t, place[1], place[2]) : \E j \in One(t, place[1] + 1, Strings) : k \in part(place, j, n)
    <3> HIDE DEF part
    <3> QED
      OBVIOUS
  <2> HIDE DEF D, all
  <2> QED
    BY <2>2, <2>3
<1> DEFINE P == {i \in 1..(Len(t) + 1) : \A given \in SUBSET (1..6) : \A k \in option[<<i, given>>] : Plain(t, i, k)}
<1>p. ASSUME NEW i \in 1..(Len(t) + 1), \A j \in 1..(Len(t) + 1) : j > i => j \in P
      PROVE  i \in P
  <2> SUFFICES ASSUME NEW given \in SUBSET (1..6), NEW k \in option[<<i, given>>] PROVE Plain(t, i, k)
    OBVIOUS
  <2>1. <<i, given>> \in D /\ <<i, given>>[1] = i /\ <<i, given>>[2] = given
    BY <1>r
  <2>2. CASE k = i
    BY <1>r, <2>2
  <2>3. ASSUME NEW n \in NextOption(t, i, given), NEW j \in One(t, i + 1, Strings),
               k \in option[<<j, given \cup {n}>>]
        PROVE  Plain(t, i, k)
    <3>1. n \in 1..6 /\ RowOptions[n] = t[i]
      BY DEF NextOption
    <3>2. At(t, i + 1) \in Strings
      BY <1>w
    <3>3. i \in 1..Len(t)
      <4>1. i + 1 \in DOMAIN t
        BY <1>o, <3>2 DEF At, Words
      <4> QED
        BY <1>r, <4>1, TextIs
    <3>4. Plain(t, i, i + 1) /\ i + 1 \in 1..(Len(t) + 1)
      <4>1. At(t, i) \in {RowOptions[m] : m \in 1..6}
        BY <1>r, <3>1, <3>3, TextIs DEF At
      <4> QED
        BY <1>n, <1>o, <1>r, <3>3, <4>1, Zenon
    <3>5. Plain(t, i + 1, j) /\ j \in 1..(Len(t) + 1) /\ j = (i + 1) + 1
      BY <1>o, <1>v, <3>4, Zenon
    <3>6. j > i /\ given \cup {n} \in SUBSET (1..6)
      BY <3>1, <3>5
    <3>7. Plain(t, j, k)
      BY <1>p, <2>3, <3>5, <3>6
    <3>8. Plain(t, i, j)
      BY <1>r, <3>4, <3>5, Zenon
    <3> QED
      BY <1>r, <3>7, <3>8, Zenon
  <2>4. k = i \/ \E n \in NextOption(t, i, given) : \E j \in One(t, i + 1, Strings) :
                   k \in option[<<j, given \cup {n}>>]
    <3> DEFINE place == <<i, given>>
    <3>1. place \in D /\ place[1] = i /\ place[2] = given /\ k \in option[place]
      BY <2>1
    <3> HIDE DEF place, D
    <3> QED
      BY <1>e, <3>1
  <2> QED
    BY <2>2, <2>3, <2>4
<1> HIDE DEF P
<1>q. 1..(Len(t) + 1) \subseteq P
  <2>1. 1 \in Int /\ Len(t) + 1 \in Int
    BY <1>r
  <2> QED
    BY <1>p, <2>1, DownwardInduction
<1>3. ASSUME At(t, 2) \in {"SERDE"} \/ At(t, 2) \in {"DELIMITED"}
      PROVE  Plain(t, 2, 3) /\ 3 \in 1..(Len(t) + 1)
  <2>1. Plain(t, 2, 2 + 1) /\ 2 \in 1..Len(t)
    BY <1>3, <1>o, <1>r, Zenon
  <2>2. 2 + 1 = 3
    OBVIOUS
  <2> QED
    BY <1>n, <2>1, <2>2, Zenon
<1>4. CASE At(t, 2) = "SERDE"
  <2>1. PICK i \in One(t, 3, Strings) : e \in SerdeProperties(t, i)
    BY <1>4
  <2>2. Plain(t, 3, i) /\ i \in 1..(Len(t) + 1)
    BY <1>3, <1>4, <1>o, <1>v, Zenon
  <2>3. Plain(t, i, e)
    BY <2>1, <2>2, SerdeEnds
  <2>4. Plain(t, 2, i)
    BY <1>3, <1>4, <1>r, <2>2, Zenon
  <2> QED
    BY <1>2, <1>r, <2>3, <2>4, Zenon
<1>5. CASE At(t, 2) = "DELIMITED"
  <2>1. e \in option[<<3, {}>>]
    BY <1>5
  <2>2. 3 \in P
    BY <1>3, <1>5, <1>q
  <2>3. Plain(t, 3, e)
    BY <2>1, <2>2 DEF P
  <2> QED
    BY <1>2, <1>3, <1>5, <1>r, <2>3, Zenon
<1>6. At(t, 2) = "SERDE" \/ At(t, 2) = "DELIMITED"
  <2>1. At(t, 2) # "SERDE" /\ At(t, 2) # "DELIMITED" => ends = {}
    OBVIOUS
  <2> HIDE DEF ends
  <2> QED
    BY <2>1
<1> QED
  BY <1>4, <1>5, <1>6

-----------------------------------------------------------------------------
(* The clauses of a tail t, as ClausesInOrder finds them.                   *)
Bare(t) == {k \in DOMAIN t : Depth(t, 1, k) = 0 /\ Starts(t[k])}
SkewedEnd(t, k) ==
  /\ DirectoriesAt(t, k) /\ At(t, k - 1) = ")"
  /\ \E l \in Bare(t) : t[l] = "SKEWED BY" /\ l < k /\ (l + 1)..(k - 1) \cap Bare(t) = {}
ClausesOf(t) == {k \in Bare(t) : ~ SkewedEnd(t, k)}
OrderOf(t, k) == CHOOSE n \in 1..8 : t[k] \in ClauseStarts[n]
Increasing(t, S) == \A k, l \in S : k < l => OrderOf(t, k) < OrderOf(t, l)
Before(t, p) == {k \in ClausesOf(t) : k < p}

(* The clauses before p are read, and no other: `left` is what follows,     *)
(* `given` the clauses seen and `last` the last of them.                    *)
ReadTo(t, left, given, last, p) ==
  /\ p \in 1..(Len(t) + 1) /\ left = SubSeq(t, p, Len(t)) /\ Depth(t, 1, p - 1) = 0
  /\ given = {OrderOf(t, k) : k \in Before(t, p)} /\ Increasing(t, Before(t, p))
  /\ given \subseteq 1..last /\ last \in given \cup {0}
  /\ p \in Bare(t) => ~ SkewedEnd(t, p)

LEMMA OrderIs ==
  ASSUME NEW t, NEW k, NEW n \in 1..8, t[k] \in ClauseStarts[n]
  PROVE  OrderOf(t, k) = n /\ Starts(t[k])
<1> DEFINE x == t[k]
<1>1. \A i \in 1..8 : i = 1 \/ i = 2 \/ i = 3 \/ i = 4 \/ i = 5 \/ i = 6 \/ i = 7 \/ i = 8
  OBVIOUS
<1>2. /\ ClauseStarts[1] = {"COMMENT"} /\ ClauseStarts[2] = {"PARTITIONED BY"}
      /\ ClauseStarts[3] = {"CLUSTERED BY"} /\ ClauseStarts[4] = {"SKEWED BY"}
      /\ ClauseStarts[5] = {"ROW FORMAT"} /\ ClauseStarts[6] = {"STORED AS", "STORED BY"}
      /\ ClauseStarts[7] = {"LOCATION"} /\ ClauseStarts[8] = {"TBLPROPERTIES"}
  BY DEF ClauseStarts
<1> DEFINE place(y) == CASE y = "COMMENT" -> 1 [] y = "PARTITIONED BY" -> 2 [] y = "CLUSTERED BY" -> 3
                         [] y = "SKEWED BY" -> 4 [] y = "ROW FORMAT" -> 5 [] y = "STORED AS" -> 6
                         [] y = "STORED BY" -> 6 [] y = "LOCATION" -> 7 [] y = "TBLPROPERTIES" -> 8
<1>3. /\ place("COMMENT") = 1 /\ place("PARTITIONED BY") = 2 /\ place("CLUSTERED BY") = 3
      /\ place("SKEWED BY") = 4 /\ place("ROW FORMAT") = 5 /\ place("STORED AS") = 6
      /\ place("STORED BY") = 6 /\ place("LOCATION") = 7 /\ place("TBLPROPERTIES") = 8
  OBVIOUS
<1> HIDE DEF place
<1>4. \A i \in 1..8 : \A y \in ClauseStarts[i] : place(y) = i
  BY <1>1, <1>2, <1>3
<1>5. OrderOf(t, k) \in 1..8 /\ t[k] \in ClauseStarts[OrderOf(t, k)]
  BY DEF OrderOf
<1>6. OrderOf(t, k) = n
  BY <1>4, <1>5
<1> QED
  BY <1>6 DEF Starts

(* `left` is what follows in t from p on. *)
Follows(t, left, p) ==
  /\ IsText(left) /\ Len(left) = Len(t) - p + 1
  /\ \A i \in 1..Len(left) : left[i] = t[p - 1 + i]
  /\ \A i \in Nat \ {0} : At(left, i) = At(t, p - 1 + i)

LEMMA LeftIs ==
  ASSUME NEW t, IsText(t), NEW p \in Int, p \in 1..(Len(t) + 1), NEW left, left = SubSeq(t, p, Len(t))
  PROVE  Follows(t, left, p)
<1>1. Len(t) \in Nat /\ DOMAIN t = 1..Len(t)
  BY TextIs
<1> DEFINE S == {t[k] : k \in DOMAIN t}
<1>2. \A i \in p..Len(t) : t[i] \in S
  BY <1>1
<1>3. /\ left \in Seq(S) /\ Len(left) = Len(t) - p + 1
      /\ \A i \in 1..(Len(t) - p + 1) : left[i] = t[p + i - 1]
  <2>1. /\ left \in Seq(S) /\ Len(left) = IF p <= Len(t) THEN Len(t) - p + 1 ELSE 0
        /\ \A i \in 1..(Len(t) - p + 1) : left[i] = t[p + i - 1]
    <3> HIDE DEF S
    <3> QED
      BY <1>1, <1>2, SubSeqProperties
  <2> QED
    BY <1>1, <2>1
<1>4. IsText(left)
  BY <1>3, SequenceIsText
<1>5. DOMAIN left = 1..Len(left)
  BY <1>4, TextIs
<1>6. \A i \in 1..Len(left) : left[i] = t[p - 1 + i]
  <2>1. \A i \in 1..(Len(t) - p + 1) : p + i - 1 = p - 1 + i
    BY <1>1
  <2> QED
    BY <1>3, <2>1
<1>7. ASSUME NEW i \in Nat \ {0} PROVE At(left, i) = At(t, p - 1 + i)
  <2>1. i \in DOMAIN left <=> p - 1 + i \in DOMAIN t
    BY <1>1, <1>3, <1>5
  <2> QED
    BY <1>5, <1>6, <2>1 DEF At
<1> QED
  BY <1>3, <1>4, <1>6, <1>7 DEF Follows

(* The next clause is read: `to` is where it ends.                          *)
LEMMA ClauseRead ==
  ASSUME NEW t, IsText(t), NEW left, NEW given, NEW last \in Int, NEW p \in Int, ReadTo(t, left, given, last, p),
         p \in ClausesOf(t), NEW n \in 1..8, OrderOf(t, p) = n, n \notin given, n >= last,
         NEW to \in Int, to > p, to <= Len(t) + 1, Depth(t, 1, to - 1) = 0,
         \A k \in ClausesOf(t) : ~ (p < k /\ k < to),
         to \in Bare(t) => ~ SkewedEnd(t, to)
  PROVE  ReadTo(t, SubSeq(left, to - p + 1, Len(left)), given \cup {n}, n, to)
<1>1. Len(t) \in Nat /\ DOMAIN t = 1..Len(t) /\ ClausesOf(t) \subseteq 1..Len(t) /\ p \in 1..Len(t)
  BY TextIs DEF ClausesOf, Bare
<1>2. Before(t, to) = Before(t, p) \cup {p}
  BY <1>1 DEF Before
<1>3. given \cup {n} = {OrderOf(t, k) : k \in Before(t, to)}
  <2>1. given = {OrderOf(t, k) : k \in Before(t, p)}
    BY DEF ReadTo
  <2> QED
    BY <1>2, <2>1
<1>4. last \in Nat /\ \A m \in given : m \in Int /\ m < n
  <2>1. given \subseteq 1..last /\ last \in given \cup {0}
    BY DEF ReadTo
  <2>2. last \in Int
    <3>1. \A m \in 1..last : m \in Int
      OBVIOUS
    <3> QED
      BY <2>1, <3>1
  <2> QED
    BY <2>1, <2>2
<1>5. Increasing(t, Before(t, to))
  <2> SUFFICES ASSUME NEW k \in Before(t, to), NEW l \in Before(t, to), k < l
               PROVE  OrderOf(t, k) < OrderOf(t, l)
    BY DEF Increasing
  <2>1. CASE k \in Before(t, p) /\ l \in Before(t, p)
    BY <2>1 DEF ReadTo, Increasing
  <2>2. CASE k \in Before(t, p) /\ l = p
    <3>1. OrderOf(t, k) \in given
      BY <2>2 DEF ReadTo
    <3> QED
      BY <1>4, <2>2, <3>1
  <2>3. CASE k = p /\ l \in Before(t, to)
    <3>1. \A j \in Before(t, p) : j < p /\ j \in Int
      BY <1>1 DEF Before
    <3> QED
      BY <1>1, <1>2, <2>3, <3>1
  <2> QED
    BY <1>2, <2>1, <2>2, <2>3
<1>6. SubSeq(left, to - p + 1, Len(left)) = SubSeq(t, to, Len(t))
  <2> DEFINE S == {t[k] : k \in DOMAIN t}
  <2>1. left = SubSeq(t, p, Len(t)) /\ Len(left) = Len(t) - p + 1
    <3>1. left = SubSeq(t, p, Len(t)) /\ p \in 1..(Len(t) + 1)
      BY DEF ReadTo
    <3>2. Follows(t, left, p)
      BY <3>1, LeftIs
    <3> QED
      BY <3>1, <3>2 DEF Follows
  <2>2. CASE to = Len(t) + 1
    <3>1. SubSeq(left, to - p + 1, Len(left)) = <<>>
      BY <1>1, <2>1, <2>2, SubSeqEmpty
    <3>2. SubSeq(t, to, Len(t)) = <<>>
      BY <1>1, <2>2, SubSeqEmpty
    <3> QED
      BY <3>1, <3>2
  <2>3. CASE to <= Len(t)
    <3>1. to - p + 1 \in 1..(Len(t) - p + 1) /\ Len(left) \in 1..(Len(t) - p + 1) /\ Len(t) \in 1..Len(t)
          /\ p + (to - p + 1) - 1 = to /\ p + Len(left) - 1 = Len(t)
      BY <1>1, <2>1, <2>3
    <3>2. t \in Seq(S)
      BY DEF IsText
    <3> HIDE DEF S
    <3>3. \A a, b \in 1..(Len(t) - p + 1) : SubSeq(SubSeq(t, p, Len(t)), a, b) = SubSeq(t, p + a - 1, p + b - 1)
      BY <1>1, <3>1, <3>2, SubSeqOfSubSeq
    <3> QED
      BY <2>1, <3>1, <3>3
  <2> QED
    BY <1>1, <2>2, <2>3
<1>7. given \cup {n} \subseteq 1..n
  <2>1. given \subseteq 1..last
    BY DEF ReadTo
  <2> QED
    BY <1>4, <2>1
<1>8. to \in 1..(Len(t) + 1) /\ n \in (given \cup {n}) \cup {0}
  BY <1>1
<1> QED
  BY <1>3, <1>5, <1>6, <1>7, <1>8 DEF ReadTo

(* Clause n starts at p, and `left` is what follows. *)
Here(t, left, p, n) ==
  /\ p \in ClausesOf(t) /\ p \in 1..Len(t) /\ OrderOf(t, p) = n /\ t[p] \in ClauseStarts[n]
  /\ Depth(t, 1, p) = 0 /\ IsText(left) /\ Len(left) >= 1
  /\ Len(left) = Len(t) - p + 1 /\ \A i \in Nat \ {0} : At(left, i) = At(t, p - 1 + i)
  /\ \A i \in 1..Len(left) : left[i] = t[p - 1 + i]

LEMMA ClauseHere ==
  ASSUME NEW t, IsText(t), NEW left, NEW given, NEW last \in Int, NEW p \in Int, ReadTo(t, left, given, last, p),
         NEW n \in 1..8, At(left, 1) \in ClauseStarts[n]
  PROVE  Here(t, left, p, n)
<1>1. Len(t) \in Nat /\ DOMAIN t = 1..Len(t)
  BY TextIs
<1>2. p \in 1..(Len(t) + 1) /\ left = SubSeq(t, p, Len(t)) /\ Depth(t, 1, p - 1) = 0
  BY DEF ReadTo
<1>3. /\ IsText(left) /\ Len(left) = Len(t) - p + 1
      /\ \A i \in 1..Len(left) : left[i] = t[p - 1 + i]
      /\ \A i \in Nat \ {0} : At(left, i) = At(t, p - 1 + i)
  <2>1. Follows(t, left, p)
    BY <1>2, LeftIs
  <2> QED
    BY <2>1 DEF Follows
<1>4. Starts(At(left, 1)) /\ ~ Starts("end") /\ ~ Starts("(") /\ ~ Starts(")")
  <2>1. Starts(At(left, 1))
    BY DEF Starts
  <2>2. ~ Starts("end") /\ ~ Starts("(") /\ ~ Starts(")")
    BY StartWords
  <2> QED
    BY <2>1, <2>2
<1>5. 1 \in DOMAIN left
  BY <1>4, Zenon DEF At
<1>6. p \in 1..Len(t) /\ At(left, 1) = t[p]
  <2>1. Len(left) >= 1 /\ DOMAIN left = 1..Len(left)
    BY <1>3, <1>5, TextIs
  <2>2. p - 1 + 1 = p /\ 1 \in Nat \ {0}
    BY <1>2
  <2>3. p \in 1..Len(t)
    BY <1>1, <1>2, <1>3, <2>1
  <2> QED
    BY <1>1, <1>3, <2>2, <2>3 DEF At
<1>7. OrderOf(t, p) = n
  BY <1>6, OrderIs
<1>8. Depth(t, 1, p) = 0
  <2>1. Depth(t, p, p) = 0
    BY <1>4, <1>6, DepthOne
  <2>2. 1 \in Int /\ p \in Int /\ 1 <= p
    BY <1>6
  <2> QED
    BY <1>2, <2>1, <2>2, DepthStep
<1>9. p \in ClausesOf(t)
  BY <1>1, <1>4, <1>6, <1>8 DEF ClausesOf, Bare, ReadTo
<1> QED
  BY <1>1, <1>3, <1>6, <1>7, <1>8, <1>9 DEF Here

LEMMA ClauseRefused ==
  ASSUME NEW t, IsText(t), NEW left, NEW given, NEW last \in Int, NEW p \in Int, ReadTo(t, left, given, last, p),
         NEW n \in 1..8, At(left, 1) \in ClauseStarts[n], n \in given \/ ~ (n >= last)
  PROVE  ~ Increasing(t, ClausesOf(t))
<1>1. p \in ClausesOf(t) /\ OrderOf(t, p) = n /\ p \in 1..Len(t) /\ Len(t) \in Nat
  BY ClauseHere, TextIs DEF Here
<1>2. /\ given = {OrderOf(t, k) : k \in Before(t, p)} /\ given \subseteq 1..last /\ last \in given \cup {0}
  BY DEF ReadTo
<1>3. PICK m \in given : ~ (m < n) /\ m \in Int
  <2>1. CASE n \in given
    BY <2>1
  <2>2. CASE ~ (n >= last)
    <3>1. last \in Int
      <4>1. \A m \in 1..last : m \in Int
        OBVIOUS
      <4> QED
        BY <1>2, <4>1
    <3>2. last # 0 /\ last \in given
      BY <1>2, <2>2, <3>1
    <3> QED
      BY <2>2, <3>1, <3>2
  <2> QED
    BY <2>1, <2>2
<1>4. PICK k \in Before(t, p) : m = OrderOf(t, k)
  BY <1>2
<1>5. k \in ClausesOf(t) /\ k < p
  BY DEF Before
<1> QED
  BY <1>1, <1>3, <1>4, <1>5 DEF Increasing

LEMMA AllRead ==
  ASSUME NEW t, IsText(t), NEW given, NEW last \in Int, NEW p \in Int, ReadTo(t, <<>>, given, last, p)
  PROVE  Increasing(t, ClausesOf(t)) /\ {OrderOf(t, k) : k \in ClausesOf(t)} = given
<1>1. Len(t) \in Nat /\ DOMAIN t = 1..Len(t) /\ ClausesOf(t) \subseteq 1..Len(t)
  BY TextIs DEF ClausesOf, Bare
<1>2. p = Len(t) + 1
  <2>1. p \in 1..(Len(t) + 1) /\ <<>> = SubSeq(t, p, Len(t))
    BY DEF ReadTo
  <2>2. Len(<<>>) = Len(t) - p + 1
    <3>1. Follows(t, <<>>, p)
      BY <2>1, LeftIs
    <3> QED
      BY <3>1 DEF Follows
  <2>3. Len(<<>>) = 0
    OBVIOUS
  <2> QED
    BY <1>1, <2>1, <2>2, <2>3
<1>3. ClausesOf(t) = Before(t, p)
  BY <1>1, <1>2 DEF Before
<1> QED
  BY <1>3 DEF ReadTo

(* What follows the start of a clause without starts outside parentheses.   *)
LEMMA PlainInside ==
  ASSUME NEW t, IsText(t), NEW left, NEW given, NEW last \in Int, NEW p \in Int, ReadTo(t, left, given, last, p),
         NEW n \in 1..8, At(left, 1) \in ClauseStarts[n], NEW e \in Int, Plain(left, 2, e)
  PROVE  /\ e \in Int /\ e >= 2 /\ p + e - 1 <= Len(t) + 1
         /\ Depth(t, 1, p + e - 2) = 0
         /\ \A k \in Bare(t) : ~ (p < k /\ k < p + e - 1)
<1>1. Len(t) \in Nat /\ DOMAIN t = 1..Len(t)
  BY TextIs
<1>2. /\ p \in 1..Len(t) /\ Depth(t, 1, p) = 0 /\ IsText(left) /\ Len(left) >= 1
      /\ Len(left) = Len(t) - p + 1 /\ \A i \in 1..Len(left) : left[i] = t[p - 1 + i]
  <2>1. Here(t, left, p, n)
    BY ClauseHere
  <2> QED
    BY <2>1 DEF Here
<1>3. e \in 2..(Len(left) + 1) /\ Depth(left, 2, e - 1) = 0
      /\ \A k \in 2..(e - 1) : Depth(left, 2, k) = 0 => ~ Starts(left[k])
  BY DEF Plain
<1>4. Len(left) \in Nat /\ e \in Int
  BY <1>2, <1>3, TextIs
<1>5. \A m \in 1..Len(left) : Depth(t, 1, p - 1 + m) = Depth(left, 2, m)
  <2> SUFFICES ASSUME NEW m \in 1..Len(left) PROVE Depth(t, 1, p - 1 + m) = Depth(left, 2, m)
    OBVIOUS
  <2>1. Depth(left, 2, m) = Depth(t, p - 1 + 2, p - 1 + m)
    <3>1. Shifted(t, left, 2, m, p - 1)
      BY <1>2, <1>4 DEF Shifted
    <3>2. 2 \in Int /\ m \in Int /\ p - 1 \in Int
      BY <1>2
    <3> QED
      BY <3>1, <3>2, DepthSame
  <2>2. Depth(t, 1, p - 1 + m) = Depth(t, 1, p) + Depth(t, p + 1, p - 1 + m)
        /\ Depth(t, p + 1, p - 1 + m) \in Int
    <3>1. 1 <= p + 1 /\ p <= p - 1 + m /\ p \in Int /\ 1 \in Int /\ p - 1 + m \in Int
      BY <1>2
    <3>2. \A a, b, c \in Int : a <= b + 1 /\ b <= c =>
            Depth(t, a, c) = Depth(t, a, b) + Depth(t, b + 1, c) /\ Depth(t, b + 1, c) \in Int
      BY DepthParts
    <3> QED
      BY <3>1, <3>2
  <2>3. p - 1 + 2 = p + 1
    BY <1>2
  <2> QED
    BY <1>2, <2>1, <2>2, <2>3
<1>6. p + e - 1 <= Len(t) + 1 /\ Depth(t, 1, p + e - 2) = 0
  <2>1. e - 1 \in 1..Len(left) /\ p - 1 + (e - 1) = p + e - 2
    BY <1>2, <1>3, <1>4
  <2> QED
    BY <1>2, <1>3, <1>4, <1>5, <2>1
<1>7. ASSUME NEW k \in Bare(t), p < k, k < p + e - 1 PROVE FALSE
  <2>1. k \in 1..Len(t) /\ Depth(t, 1, k) = 0 /\ Starts(t[k])
    BY <1>1 DEF Bare
  <2> DEFINE m == k - p + 1
  <2>2. m \in 2..(e - 1) /\ m \in 1..Len(left) /\ p - 1 + m = k
    BY <1>2, <1>3, <1>4, <1>7, <2>1
  <2> HIDE DEF m
  <2> QED
    BY <1>2, <1>3, <1>5, <2>1, <2>2
<1> QED
  BY <1>3, <1>4, <1>6, <1>7

(* A clause is read, but SKEWED BY. *)
LEMMA FourIs ==
  4 \in 1..8 /\ ClauseStarts[4] = {"SKEWED BY"}
<1>1. 4 \in 1..8
  OBVIOUS
<1>2. ClauseStarts[4] = {"SKEWED BY"}
  BY DEF ClauseStarts
<1> QED
  BY <1>1, <1>2

LEMMA ReadOn ==
  ASSUME NEW t, IsText(t), NEW left, NEW given, NEW last \in Int, NEW p \in Int, ReadTo(t, left, given, last, p),
         NEW n \in 1..8, At(left, 1) \in ClauseStarts[n], n \notin given, n >= last, n # 4,
         NEW e \in Int, Plain(left, 2, e)
  PROVE  \E q \in Int : ReadTo(t, SubSeq(left, e, Len(left)), given \cup {n}, n, q)
<1> DEFINE to == p + e - 1
<1>1. /\ e \in Int /\ e >= 2 /\ p + e - 1 <= Len(t) + 1
      /\ Depth(t, 1, p + e - 2) = 0
      /\ \A k \in Bare(t) : ~ (p < k /\ k < p + e - 1)
  BY PlainInside
<1>2. p \in ClausesOf(t) /\ OrderOf(t, p) = n
  <2>1. Here(t, left, p, n)
    BY ClauseHere
  <2> QED
    BY <2>1 DEF Here
<1>3. to \in Int /\ to > p /\ to <= Len(t) + 1 /\ to - 1 = p + e - 2 /\ to - p + 1 = e
  BY <1>1
<1>4. Depth(t, 1, to - 1) = 0 /\ \A k \in Bare(t) : ~ (p < k /\ k < to)
  BY <1>1, <1>3
<1>5. p \in Bare(t) /\ Bare(t) \subseteq Int
  <2>1. DOMAIN t = 1..Len(t) /\ Len(t) \in Nat
    BY TextIs
  <2> QED
    BY <1>2, <2>1 DEF ClausesOf, Bare
<1> HIDE DEF to
<1>6. ASSUME SkewedEnd(t, to) PROVE FALSE
  <2>1. PICK l \in Bare(t) : t[l] = "SKEWED BY" /\ l < to /\ (l + 1)..(to - 1) \cap Bare(t) = {}
    BY <1>6 DEF SkewedEnd
  <2>2. ~ (l < p)
    <3>1. l \in Int /\ p \in Int /\ to \in Int /\ p < to
      BY <1>3, <1>5
    <3>2. l < p => p \in (l + 1)..(to - 1)
      BY <3>1
    <3> QED
      BY <1>5, <2>1, <3>2
  <2>3. ~ (p < l)
    BY <1>4, <2>1
  <2>4. l = p
    BY <1>5, <2>2, <2>3
  <2>5. t[p] \in ClauseStarts[4] /\ 4 \in 1..8
    <3>1. t[p] = "SKEWED BY"
      BY <2>1, <2>4
    <3> QED
      BY <3>1, FourIs
  <2>6. OrderOf(t, p) = 4
    BY <2>5, OrderIs
  <2> QED
    BY <1>2, <2>6
<1>7. \A k \in ClausesOf(t) : ~ (p < k /\ k < to)
  BY <1>4 DEF ClausesOf
<1>8. ReadTo(t, SubSeq(left, to - p + 1, Len(left)), given \cup {n}, n, to)
  BY <1>2, <1>3, <1>4, <1>6, <1>7, ClauseRead
<1> QED
  BY <1>3, <1>8

(* e is where a SKEWED BY with its lists up to g ends. *)
Directed(t, g, e) == t[g - 1] = ")" /\ e = IF DirectoriesAt(t, g) THEN g + 2 ELSE g

(* SKEWED BY is read, with the directories that may end it. *)
LEMMA SkewedRead ==
  ASSUME NEW t, IsText(t), NEW left, NEW given, NEW last \in Int, NEW p \in Int, ReadTo(t, left, given, last, p),
         NEW n \in 1..8, n = 4, At(left, 1) \in ClauseStarts[n], n \notin given, n >= last,
         NEW g \in Int, Plain(left, 2, g), g > 2,
         NEW e \in Int, Directed(left, g, e)
  PROVE  \E q \in Int : ReadTo(t, SubSeq(left, e, Len(left)), given \cup {n}, n, q)
<1>0. ClauseStarts[n] = {"SKEWED BY"}
  BY FourIs
<1>1. /\ g \in Int /\ g >= 2 /\ p + g - 1 <= Len(t) + 1
      /\ Depth(t, 1, p + g - 2) = 0
      /\ \A k \in Bare(t) : ~ (p < k /\ k < p + g - 1)
  BY PlainInside
<1>2. /\ p \in ClausesOf(t) /\ OrderOf(t, p) = n /\ p \in 1..Len(t) /\ t[p] \in ClauseStarts[n]
      /\ Len(left) = Len(t) - p + 1 /\ \A i \in Nat \ {0} : At(left, i) = At(t, p - 1 + i)
      /\ \A i \in 1..Len(left) : left[i] = t[p - 1 + i]
  <2>1. Here(t, left, p, n)
    BY ClauseHere
  <2> QED
    BY <2>1 DEF Here
<1> DEFINE h == p + g - 1
<1>3. h \in Int /\ h > p + 1 /\ h <= Len(t) + 1 /\ h - 1 = p + g - 2 /\ h - p + 1 = g /\ h = p - 1 + g
      /\ h + 1 = p - 1 + (g + 1)
  <2>1. /\ h \in Int /\ h > p + 1 /\ h - 1 = p + g - 2 /\ h - p + 1 = g /\ h = p - 1 + g
        /\ h + 1 = p - 1 + (g + 1)
    OBVIOUS
  <2>2. h <= Len(t) + 1
    BY <1>1
  <2> HIDE DEF h
  <2> QED
    BY <2>1, <2>2
<1>4. Depth(t, 1, h - 1) = 0 /\ \A k \in Bare(t) : ~ (p < k /\ k < h)
  BY <1>1, <1>3
<1>5. p \in Bare(t) /\ Bare(t) \subseteq Int /\ Len(t) \in Nat /\ DOMAIN t = 1..Len(t) /\ Bare(t) \subseteq DOMAIN t
  <2>1. DOMAIN t = 1..Len(t) /\ Len(t) \in Nat
    BY TextIs
  <2> QED
    BY <1>2, <2>1 DEF ClausesOf, Bare
<1>6. At(left, g) = At(t, h) /\ At(left, g + 1) = At(t, h + 1)
  <2>1. g \in Nat \ {0} /\ g + 1 \in Nat \ {0}
    BY <1>1
  <2> QED
    BY <1>2, <1>3, <2>1
<1>7. t[h - 1] = ")"
  <2>1. g - 1 \in 1..Len(left) /\ p - 1 + (g - 1) = h - 1
    BY <1>1, <1>2, <1>3, <1>5
  <2> QED
    BY <1>2, <2>1 DEF Directed
<1>8. DirectoriesAt(left, g) <=> At(t, h) = "STORED AS" /\ At(t, h + 1) = "DIRECTORIES"
  BY <1>6 DEF DirectoriesAt
<1> HIDE DEF h
<1>9. CASE ~ DirectoriesAt(left, g)
  <2>1. ~ SkewedEnd(t, h)
    BY <1>8, <1>9 DEF SkewedEnd, DirectoriesAt
  <2>2. \A k \in ClausesOf(t) : ~ (p < k /\ k < h)
    BY <1>4 DEF ClausesOf
  <2>3. h > p /\ e = h - p + 1
    BY <1>3, <1>5, <1>9 DEF Directed
  <2>4. ReadTo(t, SubSeq(left, h - p + 1, Len(left)), given \cup {n}, n, h)
    BY <1>2, <1>3, <1>4, <2>1, <2>2, <2>3, ClauseRead
  <2> QED
    BY <1>3, <2>3, <2>4
<1>10. CASE DirectoriesAt(left, g)
  <2>1. At(t, h) = "STORED AS" /\ At(t, h + 1) = "DIRECTORIES"
    BY <1>8, <1>10
  <2>a. h \in DOMAIN t /\ h + 1 \in DOMAIN t
    BY <2>1 DEF At
  <2>2. h \in 1..Len(t) /\ h + 1 \in 1..Len(t)
    BY <1>5, <2>a
  <2>b. t[h] = "STORED AS" /\ t[h + 1] = "DIRECTORIES"
    BY <2>1, <2>a DEF At
  <2>3. Depth(t, 1, h) = 0 /\ Depth(t, 1, h + 1) = 0
    <3>1. Depth(t, h, h) = 0
      BY <1>3, <2>b, DepthOne
    <3>2. Depth(t, h + 1, h + 1) = 0
      <4>1. h + 1 \in Int
        BY <1>3
      <4> QED
        BY <2>b, <4>1, DepthOne
    <3>3. \A a, c \in Int : a <= c => Depth(t, a, c) = Depth(t, a, c - 1) + Depth(t, c, c)
      BY DepthStep
    <3>4. 1 \in Int /\ h + 1 \in Int /\ 1 <= h /\ 1 <= h + 1 /\ h + 1 - 1 = h
      BY <1>3, <2>2
    <3>6. Depth(t, 1, h + 1) = Depth(t, 1, h) + Depth(t, h + 1, h + 1)
      <4> DEFINE u == h + 1
      <4>1. u \in Int /\ 1 <= u /\ 1 \in Int
        BY <3>4
      <4>2. u - 1 = h
        BY <1>3
      <4> HIDE DEF u
      <4>3. Depth(t, 1, u) = Depth(t, 1, u - 1) + Depth(t, u, u)
        BY <4>1, DepthStep
      <4>4. Depth(t, 1, u) = Depth(t, 1, h) + Depth(t, u, u)
        BY <4>2, <4>3
      <4> QED
        BY <4>4 DEF u
    <3>5. Depth(t, 1, h) = 0
      BY <1>3, <1>4, <3>1, <3>3, <3>4
    <3> QED
      BY <3>2, <3>5, <3>6
  <2>4. Starts(t[h]) /\ ~ Starts(t[h + 1])
    BY <2>b, StartWords
  <2>5. SkewedEnd(t, h)
    <3>1. At(t, h - 1) = ")"
      <4>1. h - 1 \in DOMAIN t
        BY <1>2, <1>3, <1>5, <2>2
      <4> QED
        BY <1>7, <4>1 DEF At
    <3>2. t[p] = "SKEWED BY"
      BY <1>0, <1>2
    <3>4. p < h
      BY <1>3
    <3>3. (p + 1)..(h - 1) \cap Bare(t) = {}
      BY <1>3, <1>4, <1>5
    <3> QED
      BY <1>5, <2>1, <3>1, <3>2, <3>3, <3>4 DEF SkewedEnd, DirectoriesAt
  <2>6. ASSUME NEW k \in ClausesOf(t), p < k, k < h + 2 PROVE FALSE
    <3>1. k \in Bare(t) /\ ~ SkewedEnd(t, k)
      BY DEF ClausesOf
    <3>2. k \in Int /\ ~ (k < h) /\ k < h + 2
      BY <1>4, <1>5, <2>6, <3>1
    <3>5. h \in Int
      BY <1>3
    <3>3. k = h \/ k = h + 1
      BY <3>2, <3>5
    <3>4. Starts(t[k])
      BY <3>1 DEF Bare
    <3> QED
      BY <2>4, <2>5, <3>1, <3>3, <3>4
  <2>c. e = g + 2
    BY <1>10 DEF Directed
  <2> DEFINE to == h + 2
  <2>7. to \in Int /\ to > p /\ to <= Len(t) + 1 /\ e = to - p + 1
    BY <1>3, <1>5, <2>2, <2>c
  <2>d. to - 1 = h + 1
    BY <1>3
  <2> HIDE DEF to
  <2>8. ~ SkewedEnd(t, to)
    <3>1. At(t, to - 1) # ")"
      BY <2>1, <2>d
    <3> QED
      BY <3>1 DEF SkewedEnd
  <2>9. Depth(t, 1, to - 1) = 0
    BY <2>3, <2>d
  <2>10. \A k \in ClausesOf(t) : ~ (p < k /\ k < to)
    BY <2>6 DEF to
  <2>11. ReadTo(t, SubSeq(left, to - p + 1, Len(left)), given \cup {n}, n, to)
    BY <1>2, <2>7, <2>8, <2>9, <2>10, ClauseRead
  <2> QED
    BY <2>7, <2>11
<1> QED
  BY <1>9, <1>10


-----------------------------------------------------------------------------
(* The inductive invariant: the clauses seen are those before what is left. *)
ReadInv ==
  /\ pc \in {"columns", "tail", "parsed", "planned", "ended"}
  /\ outcome \in {"none", "columns", "duplicate", "order", "clause", "constraint", "reference",
                  "names", "comment", "read"}
  /\ outcome = "none" <=> pc # "ended"
  /\ IsText(stmt.tail) /\ previous \in Int
  /\ \E p \in Int : ReadTo(stmt.tail, rest, seen, previous, p)
  /\ Accepted => rest = <<>>
  /\ outcome \in {"order", "duplicate"} => ~ Increasing(stmt.tail, ClausesOf(stmt.tail))

(* At the start of a tail nothing is read. *)
LEMMA NothingRead ==
  ASSUME NEW t, IsText(t)
  PROVE  \E p \in Int : ReadTo(t, t, {}, 0, p)
<1>1. Len(t) \in Nat /\ DOMAIN t = 1..Len(t) /\ t \in Seq({t[k] : k \in DOMAIN t})
  BY TextIs DEF IsText
<1>2. t = SubSeq(t, 1, Len(t))
  <2> DEFINE S == {t[k] : k \in DOMAIN t}
  <2>1. t \in Seq(S)
    BY <1>1
  <2> HIDE DEF S
  <2> QED
    BY <1>1, <2>1
<1>3. Depth(t, 1, 1 - 1) = 0
  <2>1. \A a, b \in Int : b < a => Depth(t, a, b) = 0
    BY DepthTyped
  <2>2. 1 \in Int /\ 1 - 1 \in Int /\ 1 - 1 < 1
    OBVIOUS
  <2> QED
    BY <2>1, <2>2
<1>4. Bare(t) \subseteq 1..Len(t)
  BY <1>1 DEF Bare
<1>5. Before(t, 1) = {}
  BY <1>1, <1>4 DEF Before, ClausesOf
<1>6. ~ SkewedEnd(t, 1)
  <2>1. \A l \in Bare(t) : ~ (l < 1)
    BY <1>1, <1>4
  <2> QED
    BY <2>1 DEF SkewedEnd
<1>7. {OrderOf(t, k) : k \in Before(t, 1)} = {} /\ Increasing(t, Before(t, 1))
  BY <1>5 DEF Increasing
<1>8. 1 \in 1..(Len(t) + 1) /\ 1 \in Int
  BY <1>1
<1>9. ReadTo(t, t, {}, 0, 1)
  BY <1>2, <1>3, <1>6, <1>7, <1>8 DEF ReadTo
<1> QED
  BY <1>8, <1>9

LEMMA ReadInvInit ==
  ASSUME Init
  PROVE  ReadInv
<1>1. IsText(stmt.tail)
  <2>1. stmt.tail \in Seq(STRING)
    BY InputsAssumption DEF Init
  <2> QED
    BY <2>1, SequenceIsText
<1>2. \E p \in Int : ReadTo(stmt.tail, stmt.tail, {}, 0, p)
  BY <1>1, NothingRead
<1>3. pc = "columns" /\ outcome = "none" /\ rest = stmt.tail /\ seen = {} /\ previous = 0
  BY DEF Init
<1>4. \E p \in Int : ReadTo(stmt.tail, rest, seen, previous, p)
  BY <1>2, <1>3
<1> QED
  BY <1>1, <1>3, <1>4 DEF ReadInv, Accepted

(* A clause n is read, and S is what parsing it gives. *)
Reads(n, S) ==
  /\ pc = "tail" /\ At(rest, 1) \in ClauseStarts[n]
  /\ IF Repeated(n) THEN Refuse("duplicate")
     ELSE IF ~ InOrder(n) THEN Refuse("order")
     ELSE IF S = {} THEN Refuse("clause")
     ELSE \E c \in S :
       /\ seen' = seen \cup {n} /\ previous' = n
       /\ rest' = SubSeq(rest, c.end, Len(rest))
       /\ references' = references \o c.references
       /\ partitions' = partitions \o c.partitions
       /\ comment' = comment \cup c.comment
       /\ UNCHANGED <<stmt, generated, pc, columns, constraints, plan, outcome>>
Advances(n, S) ==
  \A p \in Int : \A c \in S :
    ReadTo(stmt.tail, rest, seen, previous, p) /\ n \notin seen /\ n >= previous =>
      \E q \in Int : ReadTo(stmt.tail, SubSeq(rest, c.end, Len(rest)), seen \cup {n}, n, q)
PlainEnds(S) == \A c \in S : Plain(rest, 2, c.end)

LEMMA PlainAdvances ==
  ASSUME ReadInv, NEW n \in 1..8, n # 4, At(rest, 1) \in ClauseStarts[n], NEW S, PlainEnds(S)
  PROVE  Advances(n, S)
<1> SUFFICES ASSUME NEW p \in Int, NEW c \in S, ReadTo(stmt.tail, rest, seen, previous, p), n \notin seen, n >= previous
             PROVE  \E q \in Int : ReadTo(stmt.tail, SubSeq(rest, c.end, Len(rest)), seen \cup {n}, n, q)
  BY DEF Advances
<1>1. IsText(stmt.tail) /\ previous \in Int
  BY DEF ReadInv
<1>2. Plain(rest, 2, c.end)
  BY DEF PlainEnds
<1>3. c.end \in Int
  <2>1. c.end \in 2..(Len(rest) + 1)
    BY <1>2 DEF Plain
  <2> QED
    BY <2>1
<1> QED
  BY <1>1, <1>2, <1>3, ReadOn

LEMMA SkewedAdvances ==
  ASSUME ReadInv, At(rest, 1) \in ClauseStarts[4]
  PROVE  Advances(4, SkewedClause(rest))
<1> DEFINE n == 4
<1>0. n \in 1..8 /\ n = 4 /\ At(rest, 1) \in ClauseStarts[n]
  BY FourIs
<1> HIDE DEF n
<1> SUFFICES ASSUME NEW p \in Int, NEW c \in SkewedClause(rest), ReadTo(stmt.tail, rest, seen, previous, p),
                    n \notin seen, n >= previous
             PROVE  \E q \in Int : ReadTo(stmt.tail, SubSeq(rest, c.end, Len(rest)), seen \cup {n}, n, q)
  BY <1>0 DEF Advances
<1>1. IsText(stmt.tail) /\ previous \in Int
  BY DEF ReadInv
<1>2. IsText(rest) /\ Len(rest) >= 1
  BY <1>0, <1>1, ClauseHere DEF Here
<1>3. PICK g : /\ Plain(rest, 2, g) /\ rest[g - 1] = ")" /\ g > 2
               /\ c.end = IF DirectoriesAt(rest, g) THEN g + 2 ELSE g
  BY <1>2, SkewedEnds
<1>4. g \in Int /\ g > 2
  <2>1. g \in 2..(Len(rest) + 1)
    BY <1>3 DEF Plain
  <2> QED
    BY <1>3, <2>1
<1>5. c.end \in Int
  BY <1>3, <1>4
<1>6. Directed(rest, g, c.end)
  BY <1>3 DEF Directed
<1>7. Plain(rest, 2, g)
  BY <1>3
<1> QED
  BY <1>0, <1>1, <1>4, <1>5, <1>6, <1>7, SkewedRead

LEMMA ReadsKeep ==
  ASSUME ReadInv, NEW n \in 1..8, NEW S, Reads(n, S), Advances(n, S)
  PROVE  ReadInv'
<1>1. IsText(stmt.tail) /\ previous \in Int /\ pc = "tail" /\ outcome = "none" /\ At(rest, 1) \in ClauseStarts[n]
  BY DEF ReadInv, Reads
<1>2. PICK p \in Int : ReadTo(stmt.tail, rest, seen, previous, p)
  BY DEF ReadInv
<1>3. CASE (Refuse("duplicate") /\ n \in seen) \/ (Refuse("order") /\ ~ (n >= previous))
  <2>1. ~ Increasing(stmt.tail, ClausesOf(stmt.tail))
    BY <1>1, <1>2, <1>3, ClauseRefused
  <2>2. /\ pc' = "ended" /\ outcome' \in {"duplicate", "order"} /\ stmt' = stmt /\ rest' = rest
        /\ seen' = seen /\ previous' = previous
    BY <1>3 DEF Refuse, table
  <2> QED
    BY <1>1, <1>2, <2>1, <2>2 DEF ReadInv, Accepted
<1>4. CASE Refuse("clause")
  <2>2. /\ pc' = "ended" /\ outcome' = "clause" /\ stmt' = stmt /\ rest' = rest
        /\ seen' = seen /\ previous' = previous
    BY <1>4 DEF Refuse, table
  <2> QED
    BY <1>1, <1>2, <2>2 DEF ReadInv, Accepted
<1>5. ASSUME n \notin seen, n >= previous, NEW c \in S, seen' = seen \cup {n}, previous' = n,
             rest' = SubSeq(rest, c.end, Len(rest)), UNCHANGED <<stmt, pc, outcome>>
      PROVE  ReadInv'
  <2>1. PICK q \in Int : ReadTo(stmt.tail, SubSeq(rest, c.end, Len(rest)), seen \cup {n}, n, q)
    BY <1>2, <1>5 DEF Advances
  <2>2. ReadTo(stmt'.tail, rest', seen', previous', q)
    BY <1>5, <2>1
  <2> QED
    BY <1>1, <1>5, <2>2 DEF ReadInv, Accepted
<1>6. CASE n \notin seen /\ n >= previous /\ S # {}
  <2>1. \E c \in S :
          /\ seen' = seen \cup {n} /\ previous' = n
          /\ rest' = SubSeq(rest, c.end, Len(rest))
          /\ references' = references \o c.references
          /\ partitions' = partitions \o c.partitions
          /\ comment' = comment \cup c.comment
          /\ UNCHANGED <<stmt, generated, pc, columns, constraints, plan, outcome>>
    BY <1>6, Zenon DEF Reads, Repeated, InOrder
  <2>2. PICK c \in S : /\ seen' = seen \cup {n} /\ previous' = n
                       /\ rest' = SubSeq(rest, c.end, Len(rest))
                       /\ UNCHANGED <<stmt, generated, pc, columns, constraints, plan, outcome>>
    BY <2>1, Zenon
  <2>3. UNCHANGED <<stmt, pc, outcome>>
    BY <2>2
  <2> QED
    BY <1>5, <1>6, <2>2, <2>3
<1>7. CASE n \in seen
  <2>1. Refuse("duplicate")
    BY <1>7, Zenon DEF Reads, Repeated
  <2> QED
    BY <1>3, <1>7, <2>1
<1>8. CASE n \notin seen /\ ~ (n >= previous)
  BY <1>3, <1>8, Zenon DEF Reads, Repeated, InOrder
<1>9. CASE n \notin seen /\ n >= previous /\ S = {}
  BY <1>4, <1>9, Zenon DEF Reads, Repeated, InOrder
<1> QED
  BY <1>6, <1>7, <1>8, <1>9

(* The tail that is written is a text. *)
LEMMA RenderedTail ==
  IsText(Rendered.tail)
<1> DEFINE note(comments) == IF comments = {} THEN <<>> ELSE <<"COMMENT", "lit">>
           fixed == <<"ROW FORMAT", "DELIMITED", "FIELDS TERMINATED BY", "lit", "ESCAPED BY", "lit",
                      "NULL DEFINED AS", "lit", "STORED AS", "TEXTFILE">>
           S == {"COMMENT", "lit", "ROW FORMAT", "DELIMITED", "DELIMITED", "FIELDS TERMINATED BY", "ESCAPED BY",
                 "NULL DEFINED AS", "STORED AS", "TEXTFILE"}
<1>1. Rendered.tail = note(plan[1].comment) \o fixed
  BY DEF Rendered
<1>2. fixed \in Seq(S)
  <2>1. /\ "ROW FORMAT" \in S /\ "DELIMITED" \in S /\ "FIELDS TERMINATED BY" \in S /\ "lit" \in S
        /\ "ESCAPED BY" \in S /\ "NULL DEFINED AS" \in S /\ "STORED AS" \in S /\ "TEXTFILE" \in S
    OBVIOUS
  <2> HIDE DEF S
  <2>2. \A a, b, c, d, e, f, g, h \in S : <<a, b, c, d, e, d, f, d, g, h>> \in Seq(S)
    OBVIOUS
  <2> QED
    BY <2>1, <2>2, Zenon
<1>3. note(plan[1].comment) \in Seq(S)
  <2>1. "COMMENT" \in S /\ "lit" \in S
    OBVIOUS
  <2> HIDE DEF S
  <2>2. <<"COMMENT", "lit">> \in Seq(S) /\ <<>> \in Seq(S)
    BY <2>1
  <2> HIDE DEF fixed
  <2> QED
    BY <2>2, Zenon
<1> HIDE DEF note, fixed, S
<1>4. Rendered.tail \in Seq(S)
  BY <1>1, <1>2, <1>3, ConcatProperties
<1> QED
  BY <1>4, SequenceIsText

LEMMA ReadInvStep ==
  ASSUME ReadInv, [Next]_vars
  PROVE  ReadInv'
<1> USE DEF ReadInv
<1>1. ASSUME UNCHANGED <<stmt, rest, seen, previous>>,
             pc' \in {"columns", "tail", "parsed", "planned", "ended"},
             outcome' \in {"none", "columns", "clause", "constraint", "reference", "names", "comment", "read"},
             outcome' = "none" <=> pc' # "ended",
             Accepted' => rest = <<>>
      PROVE  ReadInv'
  <2>1. \E p \in Int : ReadTo(stmt'.tail, rest', seen', previous', p)
    BY <1>1
  <2> QED
    BY <1>1, <2>1
<1> DEFINE Refused(message) ==
             /\ Refuse(message)
             /\ \/ message \in {"columns", "clause", "constraint", "reference"}
                \/ message \in {"names", "comment"} /\ pc = "parsed"
<1>2. ASSUME NEW message, Refused(message) PROVE ReadInv'
  BY <1>1, <1>2 DEF Refuse, table, Accepted
<1> HIDE DEF Refused
<1>3. CASE ParseColumns
  <2>1. CASE Refuse("columns")
    <3>1. Refused("columns")
      BY <2>1 DEF Refused
    <3> QED
      BY <1>2, <3>1
  <2>2. CASE pc = "columns" /\ pc' = "tail" /\ UNCHANGED <<stmt, rest, seen, previous, outcome>>
    BY <1>1, <2>2 DEF Accepted
  <2> QED
    BY <1>3, <2>1, <2>2 DEF ParseColumns
<1>c. /\ 1 \in 1..8 /\ 2 \in 1..8 /\ 3 \in 1..8 /\ 4 \in 1..8 /\ 5 \in 1..8 /\ 6 \in 1..8 /\ 7 \in 1..8
      /\ 8 \in 1..8 /\ 1 # 4 /\ 2 # 4 /\ 3 # 4 /\ 5 # 4 /\ 6 # 4 /\ 7 # 4 /\ 8 # 4
  OBVIOUS
<1>t. ASSUME NEW n \in 1..8, At(rest, 1) \in ClauseStarts[n] PROVE IsText(rest) /\ Len(rest) >= 1
  <2>1. PICK p \in Int : ReadTo(stmt.tail, rest, seen, previous, p)
    OBVIOUS
  <2> QED
    BY <1>t, <2>1, ClauseHere DEF Here
<1>k. ASSUME NEW n \in 1..8, n # 4, NEW S, Reads(n, S), IsText(rest) /\ Len(rest) >= 1 => PlainEnds(S) PROVE ReadInv'
  <2>1. At(rest, 1) \in ClauseStarts[n]
    BY <1>k DEF Reads
  <2>2. Advances(n, S)
    BY <1>k, <1>t, <2>1, PlainAdvances
  <2> QED
    BY <1>k, <2>2, ReadsKeep
<1> HIDE DEF ReadInv
<1>4. CASE ParseComment
  <2>1. Reads(1, CommentClause(rest))
    BY <1>4 DEF ParseComment, ParseClause, Reads
  <2>2. IsText(rest) /\ Len(rest) >= 1 => PlainEnds(CommentClause(rest))
    BY CommentEnds DEF PlainEnds
  <2> QED
    BY <1>c, <1>k, <2>1, <2>2
<1>5. CASE ParsePartitioned
  <2>1. Reads(2, PartitionedClause(rest))
    BY <1>5 DEF ParsePartitioned, ParseClause, Reads
  <2>2. IsText(rest) /\ Len(rest) >= 1 => PlainEnds(PartitionedClause(rest))
    BY PartitionedEnds DEF PlainEnds
  <2> QED
    BY <1>c, <1>k, <2>1, <2>2
<1>6. CASE ParseClustered
  <2>1. Reads(3, ClusteredClause(rest))
    BY <1>6 DEF ParseClustered, ParseClause, Reads
  <2>2. IsText(rest) /\ Len(rest) >= 1 => PlainEnds(ClusteredClause(rest))
    BY ClusteredEnds DEF PlainEnds
  <2> QED
    BY <1>c, <1>k, <2>1, <2>2
<1>7. CASE ParseRow
  <2>1. Reads(5, RowClause(rest))
    BY <1>7 DEF ParseRow, ParseClause, Reads
  <2>2. IsText(rest) /\ Len(rest) >= 1 => PlainEnds(RowClause(rest))
    BY RowEnds DEF PlainEnds
  <2> QED
    BY <1>c, <1>k, <2>1, <2>2
<1>8. CASE ParseStored
  <2>1. Reads(6, StoredClause(rest))
    BY <1>8 DEF ParseStored, ParseClause, Reads
  <2>2. IsText(rest) /\ Len(rest) >= 1 => PlainEnds(StoredClause(rest))
    BY StoredEnds DEF PlainEnds
  <2> QED
    BY <1>c, <1>k, <2>1, <2>2
<1>9. CASE ParseLocation
  <2>1. Reads(7, LocationClause(rest))
    BY <1>9 DEF ParseLocation, ParseClause, Reads
  <2>2. IsText(rest) /\ Len(rest) >= 1 => PlainEnds(LocationClause(rest))
    BY LocationEnds DEF PlainEnds
  <2> QED
    BY <1>c, <1>k, <2>1, <2>2
<1>10. CASE ParseProperties
  <2>1. Reads(8, PropertiesClause(rest))
    BY <1>10 DEF ParseProperties, ParseClause, Reads
  <2>2. IsText(rest) /\ Len(rest) >= 1 => PlainEnds(PropertiesClause(rest))
    BY PropertiesEnds DEF PlainEnds
  <2> QED
    BY <1>c, <1>k, <2>1, <2>2
<1>11. CASE ParseSkewed
  <2>1. Reads(4, SkewedClause(rest))
    BY <1>11 DEF ParseSkewed, ParseClause, Reads
  <2>2. Advances(4, SkewedClause(rest))
    BY <2>1, SkewedAdvances DEF Reads
  <2> QED
    BY <1>c, <2>1, <2>2, ReadsKeep
<1>12. CASE ParseOther
  <2>1. Refused("clause")
    BY <1>12 DEF ParseOther, Refused
  <2> QED
    BY <1>2, <2>1
<1>13. CASE CheckTable
  <2>1. CASE Refuse("constraint") \/ Refuse("reference")
    <3>1. Refused("constraint") \/ Refused("reference")
      BY <2>1 DEF Refused
    <3> QED
      BY <1>2, <3>1
  <2>2. CASE pc = "tail" /\ pc' = "parsed" /\ rest = <<>> /\ UNCHANGED <<stmt, rest, seen, previous, outcome>>
    BY <1>1, <2>2 DEF ReadInv
  <2> QED
    BY <1>13, <2>1, <2>2 DEF CheckTable, table
<1>14. CASE PlanTable
  <2>1. CASE pc = "parsed" /\ (Refuse("names") \/ Refuse("comment"))
    <3>1. Refused("names") \/ Refused("comment")
      BY <2>1 DEF Refused
    <3> QED
      BY <1>2, <3>1
  <2>2. CASE pc = "parsed" /\ pc' = "planned" /\ UNCHANGED <<stmt, rest, seen, previous, outcome>>
    BY <1>1, <2>2 DEF ReadInv, Accepted
  <2> QED
    BY <1>14, <2>1, <2>2 DEF PlanTable, table
<1>15. CASE RenderTable
  <2>1. IsText(Rendered.tail)
    BY RenderedTail
  <2>2. \E p \in Int : ReadTo(Rendered.tail, Rendered.tail, {}, 0, p)
    BY <2>1, NothingRead
  <2>3. /\ pc = "planned" /\ pc' = "columns" /\ outcome' = outcome /\ outcome = "none"
        /\ stmt' = Rendered /\ rest' = stmt'.tail /\ seen' = {} /\ previous' = 0
    BY <1>15 DEF RenderTable, ReadInv
  <2>4. \E p \in Int : ReadTo(stmt'.tail, rest', seen', previous', p)
    BY <2>2, <2>3
  <2>5. IsText(stmt'.tail) /\ previous' \in Int
    BY <2>1, <2>3
  <2> QED
    BY <2>3, <2>4, <2>5 DEF ReadInv, Accepted
<1>16. CASE Read
  BY <1>1, <1>16 DEF Read, table, ReadInv, Accepted
<1>17. CASE Finished \/ UNCHANGED vars
  <2>1. UNCHANGED <<stmt, generated, pc, rest, table, plan, outcome>>
    BY <1>17 DEF Finished, vars
  <2>2. UNCHANGED <<stmt, pc, rest, seen, previous, outcome>>
    BY <2>1 DEF table
  <2>3. \E p \in Int : ReadTo(stmt'.tail, rest', seen', previous', p)
    BY <2>2 DEF ReadInv
  <2> QED
    BY <2>2, <2>3 DEF ReadInv, Accepted
<1> QED
  BY <1>3, <1>4, <1>5, <1>6, <1>7, <1>8, <1>9, <1>10, <1>11, <1>12, <1>13, <1>14, <1>15, <1>16, <1>17 DEF Next

LEMMA ReadInvInvariant ==
  Spec => []ReadInv
<1>1. Init => ReadInv
  BY ReadInvInit
<1>2. ReadInv /\ [Next]_vars => ReadInv'
  BY ReadInvStep
<1> QED
  BY <1>1, <1>2, PTL DEF Spec

(* Type correctness, at every moment: what is left to read is the end of    *)
(* the tail, and the last clause the latest of those seen.                  *)
THEOREM TypeInvariant ==
  Spec => []TypeOK
<1>1. ReadInv => TypeOK
  <2> SUFFICES ASSUME ReadInv PROVE TypeOK
    OBVIOUS
  <2>1. PICK p \in Int : ReadTo(stmt.tail, rest, seen, previous, p)
    BY DEF ReadInv
  <2> DEFINE k == p - 1
  <2>2. k \in 0..Len(stmt.tail) /\ k + 1 = p
    <3>1. p \in 1..(Len(stmt.tail) + 1) /\ Len(stmt.tail) \in Nat
      BY <2>1, TextIs DEF ReadTo, ReadInv
    <3> QED
      BY <3>1
  <2> HIDE DEF k
  <2>3. rest = SubSeq(stmt.tail, k + 1, Len(stmt.tail))
    BY <2>1, <2>2 DEF ReadTo
  <2>4. seen \subseteq 1..previous /\ previous \in seen \cup {0}
    BY <2>1 DEF ReadTo
  <2> QED
    BY <2>2, <2>3, <2>4 DEF ReadInv, TypeOK
<1> QED
  BY <1>1, ReadInvInvariant, PTL

(* Whatever the statement: a tail is accepted only with each clause at most *)
(* once and in order, and is refused for the order of its clauses only when *)
(* it has another.                                                          *)
THEOREM ClausesInOrderAlways ==
  Spec => []ClausesInOrder
<1>1. ReadInv => ClausesInOrder
  <2> SUFFICES ASSUME ReadInv PROVE ClausesInOrder
    OBVIOUS
  <2> DEFINE t == stmt.tail
             bare(k) == Count(t, "(", 1, k) = Count(t, ")", 1, k)
             all == {k \in DOMAIN t : bare(k) /\ \E n \in 1..8 : t[k] \in ClauseStarts[n]}
             directories(k) ==
               /\ <<t[k], At(t, k + 1)>> = <<"STORED AS", "DIRECTORIES">> /\ At(t, k - 1) = ")"
               /\ \E l \in all : t[l] = "SKEWED BY" /\ l < k /\ (l + 1)..(k - 1) \cap all = {}
             starts == {k \in all : ~ directories(k)}
             order(k) == CHOOSE n \in 1..8 : t[k] \in ClauseStarts[n]
             increasing == \A k, l \in starts : k < l => order(k) < order(l)
  <2>1. all = Bare(t)
    <3>1. DOMAIN t \subseteq Int /\ 1 \in Int
      BY TextIs DEF ReadInv
    <3>2. \A k \in Int : Depth(t, 1, k) = 0 <=> bare(k)
      BY DepthTyped
    <3> HIDE DEF t, bare
    <3> QED
      BY <3>1, <3>2 DEF Bare, Starts
  <2>2. starts = ClausesOf(t)
    <3>1. \A k \in Bare(t) : At(t, k) = t[k]
      BY DEF Bare, At
    <3> HIDE DEF all, t
    <3>2. \A k \in Bare(t) : directories(k) <=> SkewedEnd(t, k)
      BY <2>1, <3>1 DEF SkewedEnd, DirectoriesAt
    <3> HIDE DEF directories
    <3> QED
      BY <2>1, <3>2 DEF ClausesOf
  <2>3. \A k : order(k) = OrderOf(t, k)
    BY DEF OrderOf
  <2>4. increasing <=> Increasing(t, ClausesOf(t))
    <3> HIDE DEF starts, t, order
    <3> QED
      BY <2>2, <2>3 DEF Increasing
  <2>5. {order(k) : k \in starts} = {OrderOf(t, k) : k \in ClausesOf(t)}
    <3> HIDE DEF starts, t, order
    <3> QED
      BY <2>2, <2>3
  <2>6. ClausesInOrder <=> /\ Accepted => increasing /\ {order(k) : k \in starts} = seen
                           /\ outcome \in {"order", "duplicate"} => ~ increasing
    BY DEF ClausesInOrder
  <2>7. Accepted => Increasing(t, ClausesOf(t)) /\ {OrderOf(t, k) : k \in ClausesOf(t)} = seen
    <3>1. PICK p \in Int : ReadTo(stmt.tail, rest, seen, previous, p)
      BY DEF ReadInv
    <3>2. Accepted => rest = <<>>
      BY DEF ReadInv
    <3>3. IsText(stmt.tail) /\ previous \in Int
      BY DEF ReadInv
    <3>4. ReadTo(stmt.tail, <<>>, seen, previous, p) =>
            Increasing(t, ClausesOf(t)) /\ {OrderOf(t, k) : k \in ClausesOf(t)} = seen
      BY <3>3, AllRead
    <3> QED
      BY <3>1, <3>2, <3>4
  <2>8. outcome \in {"order", "duplicate"} => ~ Increasing(t, ClausesOf(t))
    BY DEF ReadInv
  <2> HIDE DEF starts, t, order, increasing
  <2> QED
    BY <2>4, <2>5, <2>6, <2>7, <2>8
<1> QED
  BY <1>1, ReadInvInvariant, PTL
=============================================================================
