--------------------------- MODULE DdlScanProofs ---------------------------
(***************************************************************************)
(* Theorems of DdlScan, for any document and any limits.                   *)
(***************************************************************************)
EXTENDS DdlScan, RecursiveFunctions, FiniteSetTheorems, FunctionTheorems, TLAPS

(* Positions. *)
LEMMA LeastIs ==
  ASSUME NEW S, S \subseteq Nat, S # {}
  PROVE  Least(S) \in S /\ \A l \in S : Least(S) <= l
<1> DEFINE P == {n \in Nat : \A m \in S : ~ (m < n)}
<1>1. \E k \in S : \A l \in S : k <= l
  <2>1. SUFFICES ASSUME \A k \in S : \E l \in S : ~ (k <= l) PROVE FALSE
    OBVIOUS
  <2>2. 0 \in P
    OBVIOUS
  <2>3. ASSUME NEW n \in Nat, n \in P PROVE n + 1 \in P
    <3>1. ASSUME NEW m \in S, m < n + 1 PROVE FALSE
      <4>1. m = n
        BY <2>3, <3>1
      <4>2. PICK l \in S : ~ (m <= l)
        BY <2>1
      <4> QED
        BY <2>3, <4>1, <4>2
    <3> QED
      BY <3>1
  <2>4. Nat \subseteq P
    <3> HIDE DEF P
    <3> QED
      BY <2>2, <2>3, NatSetInduction
  <2>5. PICK m \in S : TRUE
    OBVIOUS
  <2>6. m + 1 \in Nat /\ m < m + 1
    OBVIOUS
  <2>7. m + 1 \in P
    <3> HIDE DEF P
    <3> QED
      BY <2>4, <2>6
  <2> QED
    BY <2>6, <2>7
<1> QED
  BY <1>1, Zenon DEF Least

(* Least is the only element with this property. *)
LEMMA LeastIsOnly ==
  ASSUME NEW S, S \subseteq Nat, NEW k \in S, \A l \in S : k <= l
  PROVE  Least(S) = k
<1>1. Least(S) \in S /\ \A l \in S : Least(S) <= l
  BY LeastIs
<1>2. Least(S) <= k /\ k <= Least(S) /\ Least(S) \in Nat /\ k \in Nat
  BY <1>1
<1> QED
  BY <1>2

LEMMA AtPosition ==
  ASSUME NEW A, NEW text \in Seq(A), NEW k, At(text, k) # "end"
  PROVE  k \in 1..Len(text) /\ At(text, k) = text[k]
  BY DEF At

-----------------------------------------------------------------------------
(* Typing. *)
LEMMA OpeningsInside ==
  ASSUME NEW text \in Seq(Tokens), NEW k, NEW o \in Openings(text, k)
  PROVE  o \in 1..Len(text) /\ text[o] = "("
<1>1. At(text, o) = "("
  BY DEF Openings
<1> QED
  BY <1>1, AtPosition

LEMMA StatementEndInside ==
  ASSUME NEW text \in Seq(Tokens), NEW from \in Nat
  PROVE  /\ StatementEnd(text, from) \in 2..(Len(text) + 1) \cup {Len(text) + 1}
         /\ from <= Len(text) + 1 => StatementEnd(text, from) >= from
<1> DEFINE S == {k \in PlainFrom(text, from) : At(text, k) = "semicolon"}
           T == {k + 1 : k \in S} \cup {Len(text) + 1}
<1>1. S \subseteq from..(Len(text) + 1)
  BY DEF PlainFrom
<1>2. \A k \in S : k \in 1..Len(text)
  BY AtPosition
<1>0. Len(text) \in Nat
  OBVIOUS
<1>3. T \subseteq Nat /\ T # {}
  <2> HIDE DEF S
  <2> QED
    BY <1>0, <1>2
<1>4. Least(T) \in T
  <2> HIDE DEF T
  <2> QED
    BY <1>3, LeastIs
<1>5. StatementEnd(text, from) = Least(T)
  BY DEF StatementEnd
<1>6. CASE Least(T) = Len(text) + 1
  BY <1>0, <1>5, <1>6
<1>7. CASE \E k \in S : Least(T) = k + 1
  <2>1. PICK k \in S : Least(T) = k + 1
    BY <1>7
  <2>2. k \in 1..Len(text) /\ k \in from..(Len(text) + 1)
    BY <1>1, <1>2, <2>1
  <2> HIDE DEF T, S
  <2>3. StatementEnd(text, from) = k + 1
    BY <1>5, <2>1
  <2> QED
    BY <1>0, <2>2, <2>3
<1> QED
  BY <1>4, <1>6, <1>7

LEMMA ClosingsInside ==
  ASSUME NEW text \in Seq(Tokens), NEW opening \in 1..Len(text), NEW k \in Closings(text, opening)
  PROVE  k \in opening..Len(text)
  BY DEF Closings

-----------------------------------------------------------------------------
(* The states of the loops, one for each position and one for the end.      *)
States == [in : {"none"} \cup Quotes \cup CommentKinds, skip : BOOLEAN]

LEMMA StepTypes ==
  ASSUME NEW text \in Seq(Tokens), NEW k \in 1..Len(text), NEW s \in States
  PROVE  ScanStep(text, k, s) \in States /\ CommentStep(text, k, s) \in States
<1>1. ScanStep(text, k, s) \in States
  BY DEF ScanStep, States, Quote, Plain
<1> QED
  BY <1>1 DEF CommentStep, States, Comment, Plain, CommentKinds

CommentEquation(text, state) ==
  state = [k \in 1..(Len(text) + 1) |->
             IF k = 1 THEN Plain ELSE CommentStep(text, k - 1, state[k - 1])]
CommentStates(text) == CHOOSE state : CommentEquation(text, state)

LEMMA CommentStatesRun ==
  ASSUME NEW text \in Seq(Tokens)
  PROVE  /\ CommentEquation(text, CommentStates(text))
         /\ CommentStates(text) \in [1..(Len(text) + 1) -> States]
         /\ CommentStates(text)[1] = Plain
         /\ \A k \in 1..Len(text) :
              CommentStates(text)[k + 1] = CommentStep(text, k, CommentStates(text)[k])
<1> DEFINE D == 1..(Len(text) + 1)
           next == [k \in D |-> [s \in States |-> IF k = 1 THEN s ELSE CommentStep(text, k - 1, s)]]
           C == CommentStates(text)
<1>1. Len(text) \in Nat /\ Plain \in States
  BY DEF Plain, States
<1>2. ASSUME NEW k \in D, NEW s \in States
      PROVE  (IF k = 1 THEN s ELSE CommentStep(text, k - 1, s)) \in States
  <2>1. k # 1 => k - 1 \in 1..Len(text)
    BY <1>1
  <2> QED
    BY <2>1, StepTypes
<1>3. next \in [D -> [States -> States]]
  <2> HIDE DEF D
  <2> QED
    BY <1>2
<1>4. PICK state \in [D -> States] :
        \A k \in D : state[k] = IF k = 1 THEN Plain ELSE next[k][state[k - 1]]
  <2> HIDE DEF next
  <2>1. Iterates(1, Len(text) + 1, States, Plain, next)
    BY <1>1, <1>3 DEF Iterates
  <2> QED
    BY <2>1, Iteration
<1>5. ASSUME NEW k \in D, k # 1 PROVE k - 1 \in D /\ state[k - 1] \in States
  BY <1>1, <1>5
<1>6. \A k \in D : state[k] = IF k = 1 THEN Plain ELSE CommentStep(text, k - 1, state[k - 1])
  <2> HIDE DEF D
  <2> QED
    BY <1>4, <1>5
<1>7. CommentEquation(text, state)
  <2> HIDE DEF next
  <2> QED
    BY <1>6 DEF CommentEquation
<1>8. CommentEquation(text, C)
  BY <1>7, Zenon DEF CommentStates
<1> HIDE DEF C, next
<1>9. \A k \in D : C[k] = IF k = 1 THEN Plain ELSE CommentStep(text, k - 1, C[k - 1])
  BY <1>8 DEF CommentEquation
<1>10. ASSUME NEW k \in D, k # 1, C[k - 1] \in States PROVE C[k] = next[k][C[k - 1]]
  <2>1. C[k] = CommentStep(text, k - 1, C[k - 1])
    BY <1>9, <1>10
  <2> QED
    BY <1>10, <2>1 DEF next
<1>11. C \in [D -> States]
  <2>1. C = [k \in D |-> C[k]]
    BY <1>8, <1>9 DEF CommentEquation
  <2>2. 1 <= Len(text) + 1 => C[1] = Plain
    BY <1>1, <1>9
  <2>3. Iterates(1, Len(text) + 1, States, Plain, next)
    BY <1>1, <1>3 DEF Iterates
  <2>4. Unrolls(1, Len(text) + 1, States, Plain, next, C)
    BY <1>10, <2>1, <2>2, <2>3 DEF Unrolls
  <2> QED
    BY <2>4, Unrolling
<1>12. \A k \in 1..Len(text) : k + 1 \in D /\ k + 1 # 1 /\ (k + 1) - 1 = k
  BY <1>1
<1>13. 1 \in D
  BY <1>1
<1>14. C[1] = Plain
  BY <1>9, <1>13
<1>15. ASSUME NEW k \in 1..Len(text) PROVE C[k + 1] = CommentStep(text, k, C[k])
  BY <1>9, <1>12
<1> QED
  BY <1>8, <1>11, <1>14, <1>15 DEF C

ScanEquation(text, from, state) ==
  state = [k \in from..(Len(text) + 1) |->
             IF k = from THEN Plain ELSE ScanStep(text, k - 1, state[k - 1])]
ScanStates(text, from) == CHOOSE state : ScanEquation(text, from, state)

LEMMA ScanStatesRun ==
  ASSUME NEW text \in Seq(Tokens), NEW from \in 1..(Len(text) + 1)
  PROVE  /\ ScanEquation(text, from, ScanStates(text, from))
         /\ ScanStates(text, from) \in [from..(Len(text) + 1) -> States]
         /\ ScanStates(text, from)[from] = Plain
         /\ \A k \in from..Len(text) :
              ScanStates(text, from)[k + 1] = ScanStep(text, k, ScanStates(text, from)[k])
<1> DEFINE D == from..(Len(text) + 1)
           next == [k \in D |-> [s \in States |-> IF k = from THEN s ELSE ScanStep(text, k - 1, s)]]
           C == ScanStates(text, from)
<1>1. Len(text) \in Nat /\ Plain \in States /\ from \in D /\ from <= Len(text) + 1
  BY DEF Plain, States
<1>2. ASSUME NEW k \in D, NEW s \in States
      PROVE  (IF k = from THEN s ELSE ScanStep(text, k - 1, s)) \in States
  <2>1. k # from => k - 1 \in 1..Len(text)
    BY <1>1
  <2> QED
    BY <2>1, StepTypes
<1>3. next \in [D -> [States -> States]]
  <2> HIDE DEF D
  <2> QED
    BY <1>2
<1>4. Iterates(from, Len(text) + 1, States, Plain, next)
  <2> HIDE DEF next
  <2> QED
    BY <1>1, <1>3 DEF Iterates
<1>5. PICK state \in [D -> States] :
        \A k \in D : state[k] = IF k = from THEN Plain ELSE next[k][state[k - 1]]
  <2> HIDE DEF next
  <2> QED
    BY <1>4, Iteration
<1>6. ASSUME NEW k \in D, k # from PROVE k - 1 \in D /\ state[k - 1] \in States
  BY <1>1, <1>6
<1>7. \A k \in D : state[k] = IF k = from THEN Plain ELSE ScanStep(text, k - 1, state[k - 1])
  <2> HIDE DEF D
  <2> QED
    BY <1>5, <1>6
<1>8. ScanEquation(text, from, state)
  <2> HIDE DEF next
  <2> QED
    BY <1>7 DEF ScanEquation
<1>9. ScanEquation(text, from, C)
  BY <1>8, Zenon DEF ScanStates
<1> HIDE DEF C, next
<1>10. \A k \in D : C[k] = IF k = from THEN Plain ELSE ScanStep(text, k - 1, C[k - 1])
  BY <1>9 DEF ScanEquation
<1>11. ASSUME NEW k \in D, k # from, C[k - 1] \in States PROVE C[k] = next[k][C[k - 1]]
  <2>1. C[k] = ScanStep(text, k - 1, C[k - 1])
    BY <1>10, <1>11
  <2> QED
    BY <1>11, <2>1 DEF next
<1>12. C \in [D -> States]
  <2>1. C = [k \in D |-> C[k]]
    BY <1>9, <1>10 DEF ScanEquation
  <2>2. C[from] = Plain
    BY <1>1, <1>10
  <2>3. Unrolls(from, Len(text) + 1, States, Plain, next, C)
    BY <1>4, <1>11, <2>1, <2>2 DEF Unrolls
  <2> QED
    BY <2>3, Unrolling
<1>13. C[from] = Plain
  BY <1>1, <1>10
<1>14. ASSUME NEW k \in from..Len(text) PROVE C[k + 1] = ScanStep(text, k, C[k])
  <2>1. k + 1 \in D /\ k + 1 # from /\ (k + 1) - 1 = k
    BY <1>1
  <2> QED
    BY <1>10, <2>1
<1> QED
  BY <1>9, <1>12, <1>13, <1>14 DEF C

LEMMA PlainFromIs ==
  ASSUME NEW text, NEW from
  PROVE  PlainFrom(text, from)
           = {k \in from..(Len(text) + 1) : ScanStates(text, from)[k] = Plain}
  BY Zenon DEF PlainFrom, ScanStates, ScanEquation

InComment(text, k) ==
  {CommentStates(text)[k].in, CommentStates(text)[k + 1].in} \cap CommentKinds # {}

(* The cleaned text has the tokens of the document or a blank.              *)
LEMMA CleanedText ==
  ASSUME NEW text \in Seq(Tokens)
  PROVE  /\ WithoutComments(text).text
              = [k \in DOMAIN text |-> IF text[k] # "nl" /\ InComment(text, k) THEN "blank" ELSE text[k]]
         /\ WithoutComments(text).complete
              <=> CommentStates(text)[Len(text) + 1] \in {Plain, Comment("line")}
<1> DEFINE C == CommentStates(text)
           D == 1..(Len(text) + 1)
           all == [k \in D |-> C[k]]
           masked(k) == text[k] # "nl" /\ {all[k].in, all[k + 1].in} \cap CommentKinds # {}
<1>1. WithoutComments(text)
        = [text |-> [k \in DOMAIN text |-> IF masked(k) THEN "blank" ELSE text[k]],
           complete |-> all[Len(text) + 1] \in {Plain, Comment("line")}]
  BY DEF WithoutComments, CommentStates, CommentEquation
<1>2. Len(text) \in Nat /\ DOMAIN text = 1..Len(text) /\ Len(text) + 1 \in D
  OBVIOUS
<1>3. \A k \in DOMAIN text : k \in D /\ k + 1 \in D
  BY <1>2
<1>4. \A k \in DOMAIN text : masked(k) <=> text[k] # "nl" /\ InComment(text, k)
  <2> HIDE DEF D, C
  <2> QED
    BY <1>3, Zenon DEF InComment, C
<1>5. all[Len(text) + 1] = C[Len(text) + 1]
  <2> HIDE DEF D, C
  <2> QED
    BY <1>2
<1> HIDE DEF masked, all
<1> DEFINE new == [k \in DOMAIN text |-> IF masked(k) THEN "blank" ELSE text[k]]
           done == all[Len(text) + 1] \in {Plain, Comment("line")}
<1>6. WithoutComments(text).text = new /\ WithoutComments(text).complete = done
  <2>1. WithoutComments(text) = [text |-> new, complete |-> done]
    BY <1>1
  <2> HIDE DEF new, done
  <2> QED
    BY <2>1
<1> QED
  BY <1>4, <1>5, <1>6, Zenon DEF C

LEMMA CleanedTyping ==
  ASSUME NEW text \in Seq(Tokens)
  PROVE  /\ WithoutComments(text).text \in Seq(Tokens)
         /\ Len(WithoutComments(text).text) = Len(text)
         /\ \A k \in 1..Len(text) : WithoutComments(text).text[k] \in {text[k], "blank"}
<1> DEFINE new == WithoutComments(text).text
           M == {k \in DOMAIN text : text[k] # "nl" /\ InComment(text, k)}
<1>1. new = [k \in DOMAIN text |-> IF k \in M THEN "blank" ELSE text[k]]
  <2>1. \A k \in DOMAIN text : text[k] # "nl" /\ InComment(text, k) <=> k \in M
    OBVIOUS
  <2> HIDE DEF M
  <2> QED
    BY <2>1, CleanedText
<1>3. DOMAIN text = 1..Len(text) /\ Len(text) \in Nat /\ \A k \in DOMAIN text : text[k] \in Tokens
  OBVIOUS
<1>4. "blank" \in Tokens
  BY DEF Tokens, Blanks
<1> HIDE DEF new, M
<1>5. new \in [1..Len(text) -> Tokens]
  BY <1>1, <1>3, <1>4
<1>6. new \in Seq(Tokens) /\ Len(new) = Len(text)
  BY <1>3, <1>5
<1> QED
  BY <1>1, <1>3, <1>6 DEF new

-----------------------------------------------------------------------------
(* The quotes that _quoted_character_mask finds in the cleaned text are     *)
(* those the masking of comments has gone through.                          *)
Tidy(s)    == s \in States /\ (s.in \notin Quotes => ~ s.skip)
Visible(s) == IF s.in \in CommentKinds THEN Plain ELSE s
Opens(text, k) == <<At(text, k), At(text, k + 1)>> \in {<<"-", "-">>, <<"/", "*">>}

LEMMA StateForms ==
  ASSUME NEW s, Tidy(s)
  PROVE  \/ s = Plain
         \/ \E kind \in CommentKinds : s = Comment(kind) /\ s.in = kind
         \/ s.in \in Quotes /\ s # Plain /\ \A kind \in CommentKinds : s # Comment(kind)
  BY DEF Tidy, States, Plain, Comment, CommentKinds, Quotes

LEMMA KindsApart ==
  /\ \A kind \in CommentKinds : Comment(kind) # Plain /\ kind \notin Quotes /\ kind # "none"
  /\ "none" \notin Quotes
  /\ Plain.in = "none"
  BY DEF CommentKinds, Quotes, Comment, Plain

LEMMA PlainSteps ==
  ASSUME NEW text, NEW k
  PROVE  ScanStep(text, k, Plain)
           = IF text[k] \in Quotes THEN Quote(text[k], FALSE) ELSE Plain
  BY DEF ScanStep, Plain

LEMMA ScanTidy ==
  ASSUME NEW text \in Seq(Tokens), NEW k \in 1..Len(text), NEW s, Tidy(s), s.in \notin CommentKinds
  PROVE  Tidy(ScanStep(text, k, s)) /\ ScanStep(text, k, s).in \notin CommentKinds
<1>1. ScanStep(text, k, s) \in States
  BY StepTypes DEF Tidy
<1>2. CASE s = Plain
  <2>1. CASE text[k] \in Quotes
    <3>1. ScanStep(text, k, s) = Quote(text[k], FALSE)
      BY <1>2, <2>1, PlainSteps
    <3>2. Quote(text[k], FALSE).in = text[k]
      BY DEF Quote
    <3> QED
      BY <1>1, <2>1, <3>1, <3>2, KindsApart DEF Tidy
  <2>2. CASE text[k] \notin Quotes
    <3>1. ScanStep(text, k, s) = Plain /\ ~ Plain.skip
      BY <1>2, <2>2, PlainSteps DEF Plain
    <3> QED
      BY <1>1, <3>1, KindsApart DEF Tidy
  <2> QED
    BY <2>1, <2>2
<1>3. CASE s.in \in Quotes
  <2>1. ScanStep(text, k, s) = Plain \/ \E b \in BOOLEAN : ScanStep(text, k, s) = Quote(s.in, b)
    BY <1>3 DEF ScanStep, Tidy, States, Quotes, Quote
  <2> QED
    BY <1>1, <1>3, <2>1 DEF Tidy, Plain, Quote, Quotes, CommentKinds
<1> QED
  BY <1>2, <1>3, StateForms, KindsApart

LEMMA CommentSteps ==
  ASSUME NEW text \in Seq(Tokens), NEW k \in 1..Len(text), NEW s, Tidy(s)
  PROVE  /\ s.in \in CommentKinds =>
              CommentStep(text, k, s) \in {Plain} \cup {Comment(kind) : kind \in CommentKinds}
         /\ s = Plain /\ Opens(text, k) =>
              \E kind \in {"line", "opening"} : CommentStep(text, k, s) = Comment(kind)
         /\ s.in \notin CommentKinds /\ ~ (s = Plain /\ Opens(text, k)) =>
              CommentStep(text, k, s) = ScanStep(text, k, s)
<1> DEFINE two == <<At(text, k), At(text, k + 1)>>
<1>1. ASSUME NEW kind \in CommentKinds, s = Comment(kind)
      PROVE  CommentStep(text, k, s) \in {Plain} \cup {Comment(other) : other \in CommentKinds}
  <2>1. Comment(kind) # Plain
    BY KindsApart
  <2>2. \A other \in CommentKinds : kind = other <=> s = Comment(other)
    BY <1>1 DEF Comment
  <2> HIDE DEF two
  <2> QED
    BY <1>1, <2>1, <2>2 DEF CommentStep, CommentKinds, two
<1>2. CASE s = Plain
  <2>1. \A kind \in CommentKinds : s # Comment(kind)
    BY <1>2, KindsApart
  <2>2. <<"-", "-">> # <<"/", "*">>
    OBVIOUS
  <2>3. CommentStep(text, k, s) = IF two = <<"-", "-">> THEN Comment("line")
                                  ELSE IF two = <<"/", "*">> THEN Comment("opening")
                                  ELSE ScanStep(text, k, s)
    <3> HIDE DEF two
    <3> QED
      BY <1>2, <2>1, <2>2 DEF CommentStep, CommentKinds, two
  <2> HIDE DEF two
  <2> QED
    BY <1>2, <2>3, KindsApart DEF Opens, two
<1>3. CASE s.in \in Quotes /\ s # Plain /\ \A kind \in CommentKinds : s # Comment(kind)
  <2>1. CommentStep(text, k, s) = ScanStep(text, k, s)
    BY <1>3 DEF CommentStep, CommentKinds
  <2> QED
    BY <1>3, <2>1, KindsApart
<1> QED
  BY <1>1, <1>2, <1>3, StateForms, KindsApart

-----------------------------------------------------------------------------
Agree(text, new, k) ==
  LET c == CommentStates(text)[k] IN
    Tidy(c) /\ ScanStates(new, 1)[k] = Visible(c)

(* One step of the two loops. *)
LEMMA MaskStep ==
  ASSUME NEW text \in Seq(Tokens), NEW k \in 1..Len(text),
         Agree(text, WithoutComments(text).text, k)
  PROVE  Agree(text, WithoutComments(text).text, k + 1)
<1> DEFINE new == WithoutComments(text).text
           C == CommentStates(text)
           S == ScanStates(new, 1)
<1>1. /\ Len(text) \in Nat /\ new \in Seq(Tokens) /\ Len(new) = Len(text)
      /\ \A j \in 1..Len(text) :
           new[j] = IF text[j] # "nl" /\ InComment(text, j) THEN "blank" ELSE text[j]
  <2>1. new \in Seq(Tokens) /\ Len(new) = Len(text) /\ Len(text) \in Nat
    BY CleanedTyping
  <2>2. new = [j \in DOMAIN text |-> IF text[j] # "nl" /\ InComment(text, j) THEN "blank" ELSE text[j]]
    BY CleanedText
  <2>3. DOMAIN text = 1..Len(text)
    OBVIOUS
  <2> HIDE DEF new
  <2> QED
    BY <2>1, <2>2, <2>3
<1>2. /\ \A j \in 1..Len(text) : C[j + 1] = CommentStep(text, j, C[j])
      /\ \A j \in 1..(Len(text) + 1) : C[j] \in States
  BY CommentStatesRun
<1>3. S[k + 1] = ScanStep(new, k, S[k])
  BY <1>1, ScanStatesRun
<1>4. Tidy(C[k]) /\ S[k] = Visible(C[k])
  BY DEF Agree
<1> HIDE DEF new, C, S
<1>5. CASE C[k].in \in CommentKinds
  <2>1. C[k + 1] \in {Plain} \cup {Comment(kind) : kind \in CommentKinds}
    BY <1>2, <1>4, <1>5, CommentSteps
  <2>2. Tidy(C[k + 1]) /\ Visible(C[k + 1]) = Plain
    <3>1. CASE C[k + 1] = Plain
      BY <3>1, KindsApart DEF Tidy, Visible, Plain, States
    <3>2. ASSUME NEW kind \in CommentKinds, C[k + 1] = Comment(kind)
          PROVE  Tidy(C[k + 1]) /\ Visible(C[k + 1]) = Plain
      BY <3>2, KindsApart DEF Tidy, Visible, Comment, States
    <3> QED
      BY <2>1, <3>1, <3>2
  <2>3. new[k] \notin Quotes
    BY <1>1, <1>5 DEF InComment, C, Quotes
  <2>4. S[k + 1] = Plain
    BY <1>3, <1>4, <1>5, <2>3, PlainSteps DEF Visible
  <2> QED
    BY <2>2, <2>4 DEF Agree, C, S, new
<1>6. CASE C[k] = Plain /\ Opens(text, k)
  <2>1. PICK kind \in CommentKinds : C[k + 1] = Comment(kind)
    BY <1>2, <1>4, <1>6, CommentSteps DEF CommentKinds
  <2>2. Tidy(C[k + 1]) /\ Visible(C[k + 1]) = Plain /\ C[k + 1].in = kind
    BY <2>1, KindsApart DEF Tidy, Visible, Comment, States
  <2>3. new[k] \notin Quotes
    <3>1. text[k] \in {"-", "/"}
      BY <1>6 DEF Opens, At
    <3>2. InComment(text, k)
      BY <2>1, <2>2 DEF InComment, C
    <3> QED
      BY <1>1, <3>1, <3>2 DEF Quotes
  <2>4. S[k + 1] = Plain
    BY <1>3, <1>4, <1>6, <2>3, PlainSteps, KindsApart DEF Visible
  <2> QED
    BY <2>2, <2>4 DEF Agree, C, S, new
<1>7. CASE C[k].in \notin CommentKinds /\ ~ (C[k] = Plain /\ Opens(text, k))
  <2>1. C[k + 1] = ScanStep(text, k, C[k])
    BY <1>2, <1>4, <1>7, CommentSteps
  <2>2. Tidy(C[k + 1]) /\ C[k + 1].in \notin CommentKinds
    BY <1>4, <1>7, <2>1, ScanTidy
  <2>3. new[k] = text[k]
    BY <1>1, <1>7, <2>2 DEF InComment, C
  <2>4. S[k] = C[k]
    BY <1>4, <1>7 DEF Visible
  <2>5. ASSUME NEW q \in Quotes
        PROVE  At(new, k + 1) = q <=> At(text, k + 1) = q
    <3>1. CASE k + 1 \notin 1..Len(text)
      BY <1>1, <3>1 DEF At
    <3>2. CASE k + 1 \in 1..Len(text)
      <4>1. At(new, k + 1) = new[k + 1] /\ At(text, k + 1) = text[k + 1]
        BY <1>1, <3>2 DEF At
      <4>2. text[k + 1] = q => ~ InComment(text, k + 1)
        <5> SUFFICES ASSUME text[k + 1] = q PROVE ~ InComment(text, k + 1)
          OBVIOUS
        <5>1. ~ Opens(text, k + 1)
          BY <4>1 DEF Opens, Quotes
        <5>2. C[(k + 1) + 1] = CommentStep(text, k + 1, C[k + 1])
          BY <1>2, <3>2
        <5>3. C[(k + 1) + 1] = ScanStep(text, k + 1, C[k + 1])
          BY <2>2, <3>2, <5>1, <5>2, CommentSteps
        <5>4. C[(k + 1) + 1].in \notin CommentKinds
          BY <2>2, <3>2, <5>3, ScanTidy
        <5> QED
          BY <2>2, <5>4 DEF InComment, C
      <4>3. new[k + 1] # text[k + 1] => new[k + 1] = "blank" /\ InComment(text, k + 1)
        BY <1>1, <3>2
      <4>4. "blank" \notin Quotes
        BY DEF Quotes
      <4> QED
        BY <4>1, <4>2, <4>3, <4>4
    <3> QED
      BY <3>1, <3>2
  <2>6. ScanStep(new, k, C[k]) = ScanStep(text, k, C[k])
    <3>1. C[k].in \in Quotes => (At(new, k + 1) = C[k].in <=> At(text, k + 1) = C[k].in)
      BY <2>5
    <3>2. C[k] = Plain \/ C[k].in \in Quotes
      BY <1>4, <1>7, StateForms
    <3> QED
      BY <1>1, <2>3, <3>1, <3>2, PlainSteps, KindsApart DEF ScanStep
  <2> QED
    BY <1>3, <2>1, <2>2, <2>4, <2>6 DEF Agree, Visible, C, S, new
<1> QED
  BY <1>4, <1>5, <1>6, <1>7

LEMMA MasksAgree ==
  ASSUME NEW text \in Seq(Tokens), NEW k \in 1..(Len(text) + 1)
  PROVE  Agree(text, WithoutComments(text).text, k)
<1> DEFINE new == WithoutComments(text).text
           P == {j \in 1..(Len(text) + 1) : Agree(text, new, j)}
<1>1. Len(text) \in Nat /\ new \in Seq(Tokens) /\ Len(new) = Len(text)
  BY CleanedTyping
<1>2. 1 \in P
  <2>1. CommentStates(text)[1] = Plain /\ ScanStates(new, 1)[1] = Plain
    BY <1>1, CommentStatesRun, ScanStatesRun
  <2>2. Tidy(Plain) /\ Visible(Plain) = Plain
    BY KindsApart DEF Tidy, Visible, Plain, States
  <2> HIDE DEF new
  <2> QED
    BY <1>1, <2>1, <2>2 DEF Agree
<1>3. ASSUME NEW j \in 1..(Len(text) + 1), j # 1, j - 1 \in P PROVE j \in P
  <2>1. j - 1 \in 1..Len(text) /\ (j - 1) + 1 = j
    BY <1>1, <1>3
  <2> QED
    BY <1>3, <2>1, MaskStep
<1> HIDE DEF P
<1>4. Hereditary(1, Len(text) + 1, P)
  BY <1>1, <1>2, <1>3 DEF Hereditary
<1>5. 1..(Len(text) + 1) \subseteq P
  BY <1>1, <1>4, IntervalInduction
<1> QED
  BY <1>5 DEF P

-----------------------------------------------------------------------------
(* Runs of one token: the reading by lexemes counts them at once, the loops *)
(* go through them in steps.                                                *)
LEMMA GreatestIs ==
  ASSUME NEW S, S \subseteq Int, NEW g \in S, \A l \in S : l <= g
  PROVE  Greatest(S) = g
<1>1. \E k \in S : \A l \in S : k >= l
  OBVIOUS
<1>2. Greatest(S) \in S /\ \A l \in S : Greatest(S) >= l
  BY <1>1, Zenon DEF Greatest
<1>3. Greatest(S) >= g /\ Greatest(S) <= g /\ Greatest(S) \in S
  BY <1>2
<1>4. Greatest(S) \in Int /\ g \in Int
  BY <1>3
<1> QED
  BY <1>3, <1>4

LEMMA GreatestExists ==
  ASSUME NEW S, NEW n \in Nat, S \subseteq 0..n, S # {}
  PROVE  Greatest(S) \in S /\ \A l \in S : l <= Greatest(S)
<1> DEFINE T == {n - l : l \in S}
<1>1. T \subseteq Nat /\ T # {}
  <2>1. \A l \in S : n - l \in Nat
    OBVIOUS
  <2>2. PICK l \in S : TRUE
    OBVIOUS
  <2>3. n - l \in T
    BY <2>2
  <2> QED
    BY <2>1, <2>3
<1>2. Least(T) \in T /\ \A l \in T : Least(T) <= l
  <2> HIDE DEF T
  <2> QED
    BY <1>1, LeastIs
<1> DEFINE m == Least(T)
<1>3. PICK g \in S : m = n - g
  <2>1. m \in T
    BY <1>2
  <2> HIDE DEF m
  <2> QED
    BY <2>1
<1>4. ASSUME NEW l \in S PROVE l <= g
  <2>1. n - l \in T
    OBVIOUS
  <2>2. n - g <= n - l
    BY <1>2, <1>3, <2>1
  <2>3. n \in Int /\ g \in Int /\ l \in Int
    OBVIOUS
  <2> HIDE DEF m
  <2> QED
    BY <2>2, <2>3
<1>5. Greatest(S) = g
  <2>1. S \subseteq Int
    OBVIOUS
  <2> QED
    BY <1>4, <2>1, GreatestIs
<1> QED
  BY <1>4, <1>5

LEMMA Runs ==
  ASSUME sql \in Seq(Tokens), NEW t, NEW from \in 1..Len(sql), NEW k \in from..Len(sql)
  PROVE  /\ RunBefore(t, k, from) \in 0..(k - from)
         /\ RunBefore(t, from, from) = 0
         /\ k # from => RunBefore(t, k, from)
                          = IF sql[k] = t THEN RunBefore(t, k - 1, from) + 1 ELSE 0
<1> DEFINE S(m) == {l \in from..m : l = from \/ sql[l] # t}
<1>1. Len(sql) \in Nat
  OBVIOUS
<1>2. ASSUME NEW m \in from..Len(sql) PROVE Greatest(S(m)) \in S(m)
  <2>1. S(m) \subseteq 0..m /\ from \in S(m) /\ m \in Nat
    BY <1>1
  <2> HIDE DEF S
  <2> QED
    BY <2>1, GreatestExists
<1>3. \A m : RunBefore(t, m, from) = m - Greatest(S(m))
  BY DEF RunBefore
<1>4. RunBefore(t, k, from) \in 0..(k - from)
  <2>1. Greatest(S(k)) \in from..k
    BY <1>2
  <2> HIDE DEF S
  <2> QED
    BY <1>1, <1>3, <2>1
<1>5. RunBefore(t, from, from) = 0
  <2>1. from \in from..Len(sql)
    BY <1>1
  <2>2. Greatest(S(from)) = from
    BY <1>2, <2>1
  <2> HIDE DEF S
  <2> QED
    BY <1>3, <2>2
<1>6. ASSUME k # from, sql[k] = t PROVE RunBefore(t, k, from) = RunBefore(t, k - 1, from) + 1
  <2>1. S(k) = S(k - 1)
    BY <1>1, <1>6
  <2>2. k - 1 \in from..Len(sql)
    BY <1>1, <1>6
  <2>3. Greatest(S(k - 1)) \in Int
    BY <1>2, <2>2
  <2> HIDE DEF S
  <2> QED
    BY <1>1, <1>3, <2>1, <2>3
<1>7. ASSUME k # from, sql[k] # t PROVE RunBefore(t, k, from) = 0
  <2>1. k \in S(k) /\ (\A l \in S(k) : l <= k) /\ S(k) \subseteq Int
    BY <1>1, <1>7
  <2> HIDE DEF S
  <2>2. Greatest(S(k)) = k
    BY <2>1, GreatestIs
  <2> QED
    BY <1>1, <1>3, <2>2
<1> QED
  BY <1>4, <1>5, <1>6, <1>7

LEMMA Parity ==
  \A n \in Int : n % 2 \in {0, 1} /\ (n + 1) % 2 = 1 - (n % 2)
  OBVIOUS

(* What has been read of the value that starts at `from` when its token at  *)
(* m has been: the number of quotes and of escapes just before decide       *)
(* whether the next token is half of a pair.                                *)
QuotesAt(from, m)  == RunBefore(sql[from], m, from)
EscapesAt(from, m) == IF sql[from] = "backquote" THEN 0 ELSE RunBefore("escape", m, from) % 2
SlashAt(from, m)   == EscapesAt(from, m - QuotesAt(from, m))
Halved(from, m)    == (QuotesAt(from, m) - SlashAt(from, m)) % 2 = 1

LEMMA EndsIs ==
  ASSUME NEW from, NEW k
  PROVE  Ends(from, k) <=> sql[k] = sql[from] /\ At(sql, k + 1) # sql[from] /\ Halved(from, k)
  BY Zenon DEF Ends, Halved, SlashAt, EscapesAt, QuotesAt

(* What one more token changes. *)
LEMMA HalvedSteps ==
  ASSUME sql \in Seq(Tokens), NEW from \in 1..Len(sql), sql[from] \in Quotes
  PROVE  /\ ~ Halved(from, from)
         /\ \A k \in (from + 1)..Len(sql) :
              /\ sql[k] = sql[from] => (Halved(from, k) <=> ~ Halved(from, k - 1))
              /\ sql[k] # sql[from] /\ (sql[k] # "escape" \/ sql[from] = "backquote") => ~ Halved(from, k)
              /\ sql[k] = "escape" /\ sql[from] # "backquote" =>
                   IF sql[k - 1] = sql[from] /\ k - 1 # from THEN Halved(from, k)
                   ELSE Halved(from, k) <=> ~ Halved(from, k - 1)
<1> DEFINE q == sql[from]
           r(m) == QuotesAt(from, m)
           e(m) == RunBefore("escape", m, from)
<1>1. Len(sql) \in Nat /\ "escape" # q /\ from \in from..Len(sql)
  BY DEF Quotes
<1>2. \A m \in from..Len(sql) : r(m) \in 0..(m - from) /\ e(m) \in 0..(m - from)
  BY Runs DEF QuotesAt
<1>3. r(from) = 0 /\ e(from) = 0
  BY <1>1, Runs DEF QuotesAt
<1>4. ASSUME NEW m \in from..Len(sql), m # from
      PROVE  /\ r(m) = IF sql[m] = q THEN r(m - 1) + 1 ELSE 0
             /\ e(m) = IF sql[m] = "escape" THEN e(m - 1) + 1 ELSE 0
  BY <1>4, Runs DEF QuotesAt
<1> HIDE DEF q, r, e
<1>5. \A m : Halved(from, m) <=> (r(m) - EscapesAt(from, m - r(m))) % 2 = 1
  BY DEF Halved, SlashAt, r
<1>6. \A m : EscapesAt(from, m) = IF q = "backquote" THEN 0 ELSE e(m) % 2
  BY DEF EscapesAt, q, e
<1>7. ~ Halved(from, from)
  BY <1>1, <1>3, <1>5, <1>6
<1>8. \A m \in from..Len(sql) : EscapesAt(from, m) \in {0, 1}
  BY <1>1, <1>2, <1>6, Parity
<1>9. \A m \in from..Len(sql) : r(m) = 0 => (Halved(from, m) <=> EscapesAt(from, m) = 1)
  <2> SUFFICES ASSUME NEW m \in from..Len(sql), r(m) = 0
               PROVE  Halved(from, m) <=> EscapesAt(from, m) = 1
    OBVIOUS
  <2>1. m - r(m) = m
    BY <1>1
  <2>2. Halved(from, m) <=> (0 - EscapesAt(from, m)) % 2 = 1
    BY <1>5, <2>1
  <2> QED
    BY <1>8, <2>2
<1>10. ASSUME NEW k \in (from + 1)..Len(sql)
       PROVE  /\ sql[k] = q => (Halved(from, k) <=> ~ Halved(from, k - 1))
              /\ sql[k] # q /\ (sql[k] # "escape" \/ q = "backquote") => ~ Halved(from, k)
              /\ sql[k] = "escape" /\ q # "backquote" =>
                   IF sql[k - 1] = q /\ k - 1 # from THEN Halved(from, k)
                   ELSE Halved(from, k) <=> ~ Halved(from, k - 1)
  <2>1. k \in from..Len(sql) /\ k # from /\ k - 1 \in from..Len(sql)
    BY <1>1
  <2>2. CASE sql[k] = q
    <3>1. r(k) = r(k - 1) + 1 /\ r(k - 1) \in Nat
      BY <1>2, <1>4, <2>1, <2>2
    <3>2. k - r(k) = (k - 1) - r(k - 1)
      BY <2>1, <3>1
    <3> DEFINE s == EscapesAt(from, (k - 1) - r(k - 1))
    <3>3. s \in {0, 1}
      <4>1. (k - 1) - r(k - 1) \in from..Len(sql)
        <5>1. r(k - 1) \in 0..((k - 1) - from)
          BY <1>2, <2>1
        <5> QED
          BY <1>1, <2>1, <5>1
      <4> QED
        BY <1>8, <4>1
    <3>4. Halved(from, k) <=> ((r(k - 1) + 1) - s) % 2 = 1
      BY <1>5, <3>1, <3>2
    <3>5. Halved(from, k - 1) <=> (r(k - 1) - s) % 2 = 1
      BY <1>5
    <3> HIDE DEF s
    <3>6. (r(k - 1) - s) \in Int /\ (r(k - 1) + 1) - s = (r(k - 1) - s) + 1
      BY <3>1, <3>3
    <3>7. ((r(k - 1) + 1) - s) % 2 = 1 <=> ~ ((r(k - 1) - s) % 2 = 1)
      BY <3>6, Parity
    <3> QED
      BY <1>1, <2>2, <3>4, <3>5, <3>7
  <2>3. CASE sql[k] # q
    <3>1. r(k) = 0
      BY <1>4, <2>1, <2>3
    <3>2. Halved(from, k) <=> EscapesAt(from, k) = 1
      BY <1>9, <2>1, <3>1
    <3>3. CASE sql[k] # "escape" \/ q = "backquote"
      <4>1. EscapesAt(from, k) = 0
        BY <1>4, <1>6, <2>1, <3>3
      <4> QED
        BY <2>3, <3>2, <3>3, <4>1
    <3>4. CASE sql[k] = "escape" /\ q # "backquote"
      <4>0. (k - 1) - from \in Int
        BY <1>1
      <4>1. EscapesAt(from, k) = (e(k - 1) + 1) % 2 /\ EscapesAt(from, k - 1) = e(k - 1) % 2
        BY <1>4, <1>6, <2>1, <3>4
      <4>2. e(k - 1) \in Int
        <5>1. e(k - 1) \in 0..((k - 1) - from)
          BY <1>2, <2>1
        <5> QED
          BY <5>1
      <4>3. EscapesAt(from, k) = 1 <=> EscapesAt(from, k - 1) = 0
        BY <4>1, <4>2, Parity
      <4>4. CASE sql[k - 1] = q /\ k - 1 # from
        <5>1. e(k - 1) = 0
          BY <1>1, <1>4, <2>1, <4>4
        <5> QED
          BY <2>3, <3>2, <3>4, <4>1, <4>3, <4>4, <5>1
      <4>5. CASE ~ (sql[k - 1] = q /\ k - 1 # from)
        <5>1. r(k - 1) = 0
          BY <1>3, <1>4, <2>1, <4>5
        <5>2. Halved(from, k - 1) <=> EscapesAt(from, k - 1) = 1
          BY <1>9, <2>1, <5>1
        <5>3. EscapesAt(from, k - 1) \in {0, 1}
          BY <1>8, <2>1
        <5> QED
          BY <2>3, <3>2, <3>4, <4>3, <4>5, <5>2, <5>3
      <4> QED
        BY <4>4, <4>5
    <3> QED
      BY <3>3, <3>4
  <2> QED
    BY <2>2, <2>3
<1> QED
  BY <1>7, <1>10 DEF q

LEMMA QuoteSteps ==
  ASSUME NEW text, NEW k, NEW q \in Quotes, NEW b \in BOOLEAN
  PROVE  ScanStep(text, k, Quote(q, b))
           = IF b THEN Quote(q, FALSE)
             ELSE IF text[k] = q THEN IF At(text, k + 1) = q THEN Quote(q, TRUE) ELSE Plain
             ELSE Quote(q, q # "backquote" /\ text[k] = "escape" /\ k < Len(text))
<1>1. Quote(q, b).in = q /\ Quote(q, b).skip = b /\ q # "none"
  BY DEF Quote, Quotes
<1> HIDE DEF Quote
<1>2. CASE b
  BY <1>1, <1>2 DEF ScanStep
<1>3. CASE ~ b
  BY <1>1, <1>3, Zenon DEF ScanStep
<1> QED
  BY <1>2, <1>3

(* In the value that starts at `from`. *)
InValue(from, m) ==
  /\ CommentStates(sql)[m].in = sql[from]
  /\ m <= Len(sql) => CommentStates(sql)[m] = Quote(sql[from], Halved(from, m - 1))

LEMMA ValueStep ==
  ASSUME sql \in Seq(Tokens), NEW from \in 1..Len(sql), sql[from] \in Quotes,
         NEW m \in (from + 1)..Len(sql), InValue(from, m), m - 1 # from => ~ Ends(from, m - 1)
  PROVE  IF Ends(from, m) THEN CommentStates(sql)[m + 1] = Plain ELSE InValue(from, m + 1)
<1> DEFINE C == CommentStates(sql)
           q == sql[from]
           b == Halved(from, m - 1)
           next == C[m + 1]
<1>1. Len(sql) \in Nat /\ m \in 1..Len(sql)
  OBVIOUS
<1>2. C[m] = Quote(q, b) /\ b \in BOOLEAN
  BY <1>1 DEF InValue, Halved
<1>3. C[m].in = q /\ Tidy(C[m])
  <2>1. C[m] \in States
    BY <1>1, CommentStatesRun
  <2>2. C[m].in = q
    BY <1>2 DEF Quote
  <2> QED
    BY <2>1, <2>2 DEF Tidy
<1>4. next = ScanStep(sql, m, C[m])
  <2>1. q \notin CommentKinds /\ q # "none"
    BY KindsApart
  <2>2. C[m] # Plain
    BY <1>3, <2>1, KindsApart
  <2>3. next = CommentStep(sql, m, C[m])
    BY <1>1, CommentStatesRun
  <2> HIDE DEF q, C, next
  <2> QED
    BY <1>1, <1>3, <2>1, <2>2, <2>3, CommentSteps
<1>5. next = IF b THEN Quote(q, FALSE)
             ELSE IF sql[m] = q THEN IF At(sql, m + 1) = q THEN Quote(q, TRUE) ELSE Plain
             ELSE Quote(q, q # "backquote" /\ sql[m] = "escape" /\ m < Len(sql))
  <2>1. q \in Quotes
    OBVIOUS
  <2> HIDE DEF b, q, next, C
  <2>2. next = ScanStep(sql, m, Quote(q, b))
    BY <1>2, <1>4
  <2> QED
    BY <1>2, <2>1, <2>2, QuoteSteps, ZenonT(30)
<1>6. /\ sql[m] = q => (Halved(from, m) <=> ~ b)
      /\ sql[m] # q /\ (sql[m] # "escape" \/ q = "backquote") => ~ Halved(from, m)
      /\ sql[m] = "escape" /\ q # "backquote" =>
           IF sql[m - 1] = q /\ m - 1 # from THEN Halved(from, m) ELSE Halved(from, m) <=> ~ b
  BY HalvedSteps
<1>7. Ends(from, m) <=> sql[m] = q /\ At(sql, m + 1) # q /\ Halved(from, m)
  BY EndsIs
<1>8. sql[m] # q /\ sql[m - 1] = q /\ m - 1 # from => ~ b
  <2>1. At(sql, (m - 1) + 1) = sql[m]
    BY <1>1 DEF At
  <2> QED
    BY <2>1, EndsIs
<1>9. InValue(from, m + 1) <=> /\ next.in = q
                               /\ m < Len(sql) => next = Quote(q, Halved(from, m))
  <2>1. (m + 1) - 1 = m /\ (m + 1 <= Len(sql) <=> m < Len(sql))
    BY <1>1
  <2> QED
    BY <2>1 DEF InValue
<1>10. Halved(from, m) \in BOOLEAN /\ \A c : Quote(q, c).in = q
  BY DEF Halved, Quote
<1>11. "escape" # q
  BY DEF Quotes
<1> HIDE DEF b, q, next, C
<1>12. CASE b
  <2>1. next = Quote(q, FALSE)
    BY <1>5, <1>12
  <2>2. ~ Halved(from, m)
    BY <1>6, <1>8, <1>12
  <2> QED
    BY <1>7, <1>9, <1>10, <2>1, <2>2
<1>13. CASE ~ b /\ sql[m] = q
  <2>1. Halved(from, m)
    BY <1>6, <1>13
  <2>2. CASE At(sql, m + 1) = q
    BY <1>5, <1>7, <1>9, <1>10, <1>13, <2>1, <2>2
  <2>3. CASE At(sql, m + 1) # q
    BY <1>5, <1>7, <1>13, <2>1, <2>3 DEF next, C
  <2> QED
    BY <2>2, <2>3
<1>14. CASE ~ b /\ sql[m] # q
  <2>1. Halved(from, m) <=> q # "backquote" /\ sql[m] = "escape"
    BY <1>6, <1>14
  <2>2. m < Len(sql) => next = Quote(q, Halved(from, m))
    <3>1. m < Len(sql) => (Halved(from, m) <=> q # "backquote" /\ sql[m] = "escape" /\ m < Len(sql))
      BY <2>1
    <3>2. next = Quote(q, q # "backquote" /\ sql[m] = "escape" /\ m < Len(sql))
      BY <1>5, <1>14
    <3> QED
      BY <1>10, <3>1, <3>2
  <2>3. next.in = q
    BY <1>5, <1>10, <1>14
  <2> QED
    BY <1>7, <1>9, <1>14, <2>2, <2>3
<1> QED
  BY <1>2, <1>12, <1>13, <1>14

LEMMA ValueStates ==
  ASSUME sql \in Seq(Tokens), NEW from \in 1..Len(sql), sql[from] \in Quotes,
         CommentStates(sql)[from] = Plain,
         NEW m \in (from + 1)..(Len(sql) + 1), \A j \in (from + 1)..(m - 1) : ~ Ends(from, j)
  PROVE  InValue(from, m)
<1> DEFINE C == CommentStates(sql)
           D == (from + 1)..(Len(sql) + 1)
           P == {l \in D : (\A j \in (from + 1)..(l - 1) : ~ Ends(from, j)) => InValue(from, l)}
<1>1. Len(sql) \in Nat
  OBVIOUS
<1>2. from + 1 \in P
  <2>1. ~ Opens(sql, from)
    BY DEF Opens, At, Quotes
  <2>2. C[from + 1] = CommentStep(sql, from, Plain) /\ Tidy(Plain)
    <3>1. Tidy(Plain)
      BY KindsApart DEF Tidy, Plain, States
    <3> QED
      BY <3>1, CommentStatesRun
  <2>3. CommentStep(sql, from, Plain) = ScanStep(sql, from, Plain)
    BY <2>1, <2>2, CommentSteps, KindsApart
  <2>4. C[from + 1] = Quote(sql[from], FALSE)
    BY <2>2, <2>3, PlainSteps
  <2>5. (from + 1) - 1 = from /\ from + 1 \in D
    BY <1>1
  <2>6. ~ Halved(from, from) /\ Halved(from, from) \in BOOLEAN
    BY HalvedSteps DEF Halved
  <2>7. InValue(from, from + 1)
    <3>1. Halved(from, (from + 1) - 1) = FALSE
      BY <2>5, <2>6
    <3>2. C[from + 1] = Quote(sql[from], Halved(from, (from + 1) - 1))
      BY <2>4, <3>1
    <3>3. Quote(sql[from], FALSE).in = sql[from]
      BY DEF Quote
    <3> HIDE DEF C
    <3> QED
      BY <2>4, <3>2, <3>3 DEF InValue, C
  <2> QED
    BY <2>5, <2>7
<1>3. ASSUME NEW l \in D, l # from + 1, l - 1 \in P PROVE l \in P
  <2> SUFFICES ASSUME \A j \in (from + 1)..(l - 1) : ~ Ends(from, j) PROVE InValue(from, l)
    OBVIOUS
  <2>1. l - 1 \in (from + 1)..Len(sql) /\ (l - 1) + 1 = l
    BY <1>1, <1>3
  <2>2. InValue(from, l - 1)
    BY <1>1, <1>3
  <2>3. ~ Ends(from, l - 1) /\ ((l - 1) - 1 # from => ~ Ends(from, (l - 1) - 1))
    BY <1>1, <2>1
  <2> QED
    BY <2>1, <2>2, <2>3, ValueStep
<1> HIDE DEF P
<1>4. Hereditary(from + 1, Len(sql) + 1, P)
  BY <1>1, <1>2, <1>3 DEF Hereditary
<1>5. D \subseteq P
  BY <1>1, <1>4, IntervalInduction
<1> QED
  BY <1>5 DEF P

-----------------------------------------------------------------------------
(* The lexeme that starts at k.                                             *)
Dashes(k)  == sql[k] = "-" /\ At(sql, k + 1) = "-"
SlashStar(k) == sql[k] = "/" /\ At(sql, k + 1) = "*"

LEMMA LexemeKinds ==
  ASSUME NEW k
  PROVE  LexemeEnds(k)
           = IF Dashes(k) THEN {l \in k..Len(sql) : At(sql, l + 1) \in {"nl", "end"}}
             ELSE IF SlashStar(k)
                  THEN {l \in (k + 3)..Len(sql) : sql[l - 1] = "*" /\ sql[l] = "/"}
             ELSE IF sql[k] \in Quotes THEN {l \in (k + 1)..Len(sql) : Ends(k, l)}
             ELSE {k}
<1> DEFINE two == <<sql[k], At(sql, k + 1)>>
           lines == {l \in k..Len(sql) : At(sql, l + 1) \in {"nl", "end"}}
           blocks == {l \in (k + 3)..Len(sql) : <<sql[l - 1], sql[l]>> = <<"*", "/">>}
           values == {l \in (k + 1)..Len(sql) : Ends(k, l)}
<1>1. LexemeEnds(k) = CASE two = <<"-", "-">> -> lines
                        [] two = <<"/", "*">> -> blocks
                        [] sql[k] \in Quotes -> values
                        [] OTHER -> {k}
  BY Zenon DEF LexemeEnds
<1>2. /\ two = <<"-", "-">> <=> Dashes(k)
      /\ two = <<"/", "*">> <=> SlashStar(k)
  BY DEF Dashes, SlashStar
<1>3. /\ ~ (Dashes(k) /\ SlashStar(k)) /\ ~ (Dashes(k) /\ sql[k] \in Quotes)
      /\ ~ (SlashStar(k) /\ sql[k] \in Quotes)
  BY DEF Dashes, SlashStar, Quotes
<1>4. blocks = {l \in (k + 3)..Len(sql) : sql[l - 1] = "*" /\ sql[l] = "/"}
  OBVIOUS
<1> HIDE DEF two, lines, blocks, values
<1>5. LexemeEnds(k) = IF Dashes(k) THEN lines ELSE IF SlashStar(k) THEN blocks
                      ELSE IF sql[k] \in Quotes THEN values ELSE {k}
  BY <1>1, <1>2, <1>3
<1> QED
  BY <1>4, <1>5 DEF lines, values

LEMMA KindSteps ==
  ASSUME NEW text, NEW k
  PROVE  /\ CommentStep(text, k, Comment("line"))
              = IF text[k] = "nl" THEN Plain ELSE Comment("line")
         /\ CommentStep(text, k, Comment("opening")) = Comment("block")
         /\ CommentStep(text, k, Comment("block"))
              = IF At(text, k) = "*" /\ At(text, k + 1) = "/" THEN Comment("closing")
                ELSE Comment("block")
         /\ CommentStep(text, k, Comment("closing")) = Plain
         /\ At(text, k) = "-" /\ At(text, k + 1) = "-" => CommentStep(text, k, Plain) = Comment("line")
         /\ At(text, k) = "/" /\ At(text, k + 1) = "*" => CommentStep(text, k, Plain) = Comment("opening")
<1>1. /\ Plain \notin {Comment("line"), Comment("opening"), Comment("block"), Comment("closing")}
      /\ Comment("line") \notin {Comment("opening"), Comment("block"), Comment("closing")}
      /\ Comment("opening") \notin {Comment("block"), Comment("closing")}
      /\ Comment("block") # Comment("closing")
  BY DEF Plain, Comment
<1> HIDE DEF Plain, Comment
<1>2. <<"-", "-">> # <<"/", "*">>
  OBVIOUS
<1> DEFINE two == <<At(text, k), At(text, k + 1)>>
<1>3. /\ two = <<"-", "-">> <=> At(text, k) = "-" /\ At(text, k + 1) = "-"
      /\ two = <<"/", "*">> <=> At(text, k) = "/" /\ At(text, k + 1) = "*"
      /\ two = <<"*", "/">> <=> At(text, k) = "*" /\ At(text, k + 1) = "/"
  OBVIOUS
<1>4. \A s : CommentStep(text, k, s) =
        CASE s = Plain /\ two = <<"-", "-">> -> Comment("line")
          [] s = Plain /\ two = <<"/", "*">> -> Comment("opening")
          [] s = Comment("line")              -> IF text[k] = "nl" THEN Plain ELSE s
          [] s = Comment("opening")           -> Comment("block")
          [] s = Comment("block")             -> IF two = <<"*", "/">> THEN Comment("closing") ELSE s
          [] s = Comment("closing")           -> Plain
          [] OTHER                            -> ScanStep(text, k, s)
  BY Zenon DEF CommentStep
<1> HIDE DEF two
<1> QED
  BY <1>1, <1>2, <1>3, <1>4

InQuote(j)   == \/ CommentStates(sql)[j].in \in Quotes
                \/ CommentStates(sql)[j] = Plain /\ sql[j] \in Quotes
Begins(k)    == /\ k \in 1..(Len(sql) + 1)
                /\ \/ CommentStates(sql)[k] = Plain
                   \/ /\ CommentStates(sql)[k] = Comment("line")
                      /\ k = Len(sql) + 1 \/ sql[k] = "nl"
Reads(k, e)  == /\ e \in k..Len(sql) /\ Begins(e + 1)
                /\ \A j \in k..e :
                     /\ InQuote(j) <=> sql[k] \in Quotes
                     /\ sql[j] # "nl" => (InComment(sql, j) <=> sql[k] \in {"-", "/"} /\ e > k)
Unclosed     == CommentStates(sql)[Len(sql) + 1] \notin {Plain, Comment("line")}

LEMMA LineComment ==
  ASSUME sql \in Seq(Tokens), NEW k \in 1..Len(sql), CommentStates(sql)[k] = Plain, Dashes(k)
  PROVE  LexemeEnds(k) # {} /\ Reads(k, Least(LexemeEnds(k)))
<1> DEFINE C == CommentStates(sql)
           D == (k + 1)..(Len(sql) + 1)
           E == LexemeEnds(k)
           P == {l \in D : (\A j \in k..(l - 2) : j \notin E) => C[l] = Comment("line")}
           e == Least(E)
<1>1. Len(sql) \in Nat /\ k \in Nat /\ k >= 1
  OBVIOUS
<1>2. E = {l \in k..Len(sql) : At(sql, l + 1) \in {"nl", "end"}}
  BY LexemeKinds
<1>3. \A j \in 1..Len(sql) : C[j + 1] = CommentStep(sql, j, C[j])
  BY CommentStatesRun
<1>4. At(sql, k) = "-" /\ At(sql, k + 1) = "-" /\ \A j \in 1..Len(sql) : At(sql, j) = sql[j]
  BY DEF Dashes, At
<1>5. C[k + 1] = Comment("line")
  BY <1>3, <1>4, KindSteps
<1>6. ASSUME NEW l \in D, l # k + 1, l - 1 \in P PROVE l \in P
  <2> SUFFICES ASSUME \A j \in k..(l - 2) : j \notin E PROVE C[l] = Comment("line")
    OBVIOUS
  <2>1. l - 1 \in 1..Len(sql) /\ (l - 1) + 1 = l /\ l - 2 \in k..Len(sql) /\ (l - 2) + 1 = l - 1
    BY <1>1, <1>6
  <2>2. C[l - 1] = Comment("line")
    BY <1>1, <1>6, <2>1
  <2>3. sql[l - 1] # "nl"
    <3>1. l - 2 \notin E /\ At(sql, l - 1) = sql[l - 1]
      BY <1>1, <1>4, <2>1
    <3> QED
      BY <1>2, <2>1, <3>1
  <2>4. C[l] = CommentStep(sql, l - 1, C[l - 1])
    BY <1>3, <2>1
  <2> QED
    BY <2>2, <2>3, <2>4, KindSteps
<1>7. k + 1 \in P
  BY <1>1, <1>5
<1>8. D \subseteq P
  <2> HIDE DEF P
  <2>1. Hereditary(k + 1, Len(sql) + 1, P)
    BY <1>1, <1>6, <1>7 DEF Hereditary
  <2> QED
    BY <1>1, <2>1, IntervalInduction
<1>9. E \subseteq Nat /\ Len(sql) \in E
  <2>1. Len(sql) \in k..Len(sql)
    BY <1>1
  <2>2. At(sql, Len(sql) + 1) = "end"
    BY <1>1 DEF At
  <2> QED
    BY <1>1, <1>2, <2>1, <2>2
<1>10. e \in E /\ \A l \in E : e <= l
  <2> HIDE DEF E
  <2> QED
    BY <1>9, LeastIs
<1> HIDE DEF e, E
<1>11. e \in k..Len(sql) /\ At(sql, e + 1) \in {"nl", "end"} /\ e > k
  <2>1. e \in k..Len(sql) /\ At(sql, e + 1) \in {"nl", "end"}
    BY <1>2, <1>10
  <2> QED
    BY <1>1, <1>4, <2>1
<1>12. ASSUME NEW l \in (k + 1)..(e + 1) PROVE C[l] = Comment("line")
  <2>1. l \in D /\ \A j \in k..(l - 2) : j < e
    BY <1>1, <1>11
  <2>2. \A j \in k..(l - 2) : j \notin E
    <3> SUFFICES ASSUME NEW j \in k..(l - 2), j \in E PROVE FALSE
      OBVIOUS
    <3>1. j < e /\ e <= j /\ j \in Int /\ e \in Int
      BY <1>10, <1>11, <2>1
    <3> QED
      BY <3>1
  <2> QED
    BY <1>8, <2>1, <2>2
<1>13. Begins(e + 1)
  <2>1. C[e + 1] = Comment("line") /\ e + 1 \in 1..(Len(sql) + 1)
    BY <1>1, <1>11, <1>12
  <2>2. e + 1 = Len(sql) + 1 \/ sql[e + 1] = "nl"
    <3> SUFFICES ASSUME e + 1 # Len(sql) + 1 PROVE sql[e + 1] = "nl"
      OBVIOUS
    <3>1. e + 1 \in 1..Len(sql)
      BY <1>1, <1>11
    <3>2. At(sql, e + 1) = sql[e + 1] /\ sql[e + 1] \in Tokens
      BY <1>4, <3>1
    <3> QED
      BY <1>11, <3>2 DEF Tokens, Quotes, Blanks
  <2> QED
    BY <2>1, <2>2 DEF Begins, C
<1>14. ASSUME NEW j \in k..e
       PROVE  ~ InQuote(j) /\ InComment(sql, j)
  <2>1. Comment("line").in = "line" /\ "line" \in CommentKinds /\ "line" \notin Quotes
    BY DEF Comment, CommentKinds, Quotes
  <2>2. C[j + 1] = Comment("line")
    BY <1>1, <1>11, <1>12
  <2>3. InComment(sql, j)
    BY <2>1, <2>2 DEF InComment, C
  <2>4. CASE j = k
    BY <2>3, <2>4, KindsApart DEF InQuote, Dashes, Quotes
  <2>5. CASE j # k
    <3>1. C[j] = Comment("line")
      BY <1>1, <1>11, <1>12, <2>5
    <3> QED
      BY <2>1, <2>3, <3>1, KindsApart DEF InQuote, C
  <2> QED
    BY <2>4, <2>5
<1> QED
  BY <1>9, <1>11, <1>13, <1>14 DEF Reads, Dashes, Quotes, e, E

LEMMA BlockComment ==
  ASSUME sql \in Seq(Tokens), NEW k \in 1..Len(sql), CommentStates(sql)[k] = Plain, SlashStar(k)
  PROVE  IF LexemeEnds(k) = {} THEN Unclosed ELSE Reads(k, Least(LexemeEnds(k)))
<1> DEFINE C == CommentStates(sql)
           D == (k + 2)..(Len(sql) + 1)
           E == LexemeEnds(k)
           P == {l \in D : (\A j \in (k + 3)..l : j \notin E) => C[l] = Comment("block")}
           e == Least(E)
<1>1. Len(sql) \in Nat /\ k \in Nat /\ k >= 1
  OBVIOUS
<1>2. \A j \in 1..Len(sql) : C[j + 1] = CommentStep(sql, j, C[j])
  BY CommentStatesRun
<1>3. k + 1 \in 1..Len(sql) /\ (k + 1) + 1 = k + 2
  BY <1>1 DEF SlashStar, At
<1>4. At(sql, k) = "/" /\ At(sql, k + 1) = "*" /\ \A j \in 1..Len(sql) : At(sql, j) = sql[j]
  BY DEF SlashStar, At
<1>5. E = {l \in (k + 3)..Len(sql) : sql[l - 1] = "*" /\ sql[l] = "/"}
  <2>1. ~ Dashes(k)
    BY DEF SlashStar, Dashes
  <2> QED
    BY <2>1, LexemeKinds
<1>6. C[k + 1] = Comment("opening") /\ C[k + 2] = Comment("block")
  <2>1. C[k + 1] = Comment("opening")
    BY <1>2, <1>4, KindSteps
  <2>2. C[k + 2] = CommentStep(sql, k + 1, C[k + 1])
    BY <1>2, <1>3
  <2> QED
    BY <2>1, <2>2, KindSteps
<1>7. ASSUME NEW l \in (k + 2)..Len(sql), C[l] = Comment("block")
      PROVE  C[l + 1] = IF l + 1 \in E THEN Comment("closing") ELSE Comment("block")
  <2>1. l \in 1..Len(sql) /\ l + 1 >= k + 3 /\ (l + 1) - 1 = l
    BY <1>1, <1>7
  <2>2. At(sql, l) = "*" /\ At(sql, l + 1) = "/" <=> l + 1 \in E
    <3>1. At(sql, l) = sql[l]
      BY <1>4, <2>1
    <3>2. CASE l + 1 \in 1..Len(sql)
      BY <1>1, <1>4, <1>5, <2>1, <3>1, <3>2
    <3>3. CASE l + 1 \notin 1..Len(sql)
      BY <1>1, <1>5, <2>1, <3>3 DEF At
    <3> QED
      BY <3>2, <3>3
  <2>3. C[l + 1] = CommentStep(sql, l, C[l])
    BY <1>2, <2>1
  <2> QED
    BY <1>7, <2>2, <2>3, KindSteps
<1>8. ASSUME NEW l \in D, l # k + 2, l - 1 \in P PROVE l \in P
  <2> SUFFICES ASSUME \A j \in (k + 3)..l : j \notin E PROVE C[l] = Comment("block")
    OBVIOUS
  <2>1. l - 1 \in (k + 2)..Len(sql) /\ (l - 1) + 1 = l /\ l \in (k + 3)..l
    BY <1>1, <1>8
  <2>2. C[l - 1] = Comment("block")
    BY <1>1, <1>8, <2>1
  <2>3. l \notin E
    BY <2>1
  <2> QED
    BY <1>7, <2>1, <2>2, <2>3
<1>9. k + 2 \in P
  BY <1>1, <1>3, <1>6
<1>10. D \subseteq P
  <2> HIDE DEF P
  <2>1. Hereditary(k + 2, Len(sql) + 1, P)
    BY <1>1, <1>8, <1>9 DEF Hereditary
  <2> QED
    BY <1>1, <2>1, IntervalInduction
<1>11. \A kind \in {"opening", "block", "closing"} :
          Comment(kind).in \in CommentKinds /\ Comment(kind) # Plain /\ Comment(kind).in \notin Quotes
  BY DEF Comment, CommentKinds, Quotes, Plain
<1>12. CASE E = {}
  <2>1. Len(sql) + 1 \in D
    BY <1>1, <1>3
  <2>2. C[Len(sql) + 1] = Comment("block")
    BY <1>10, <1>12, <2>1
  <2>3. Comment("block") \notin {Plain, Comment("line")}
    BY DEF Comment, Plain
  <2> QED
    BY <1>12, <2>2, <2>3 DEF Unclosed
<1>13. CASE E # {}
  <2>1. e \in E /\ \A l \in E : e <= l
    <3>1. E \subseteq Nat
      BY <1>1, <1>5
    <3> HIDE DEF E
    <3> QED
      BY <1>13, <3>1, LeastIs
  <2> HIDE DEF e, E
  <2>2. e \in (k + 3)..Len(sql)
    BY <1>5, <2>1
  <2>3. ASSUME NEW l \in (k + 2)..(e - 1) PROVE C[l] = Comment("block")
    <3>1. l \in D
      BY <1>1, <2>2
    <3>2. \A j \in (k + 3)..l : j \notin E
      <4> SUFFICES ASSUME NEW j \in (k + 3)..l, j \in E PROVE FALSE
        OBVIOUS
      <4>1. e <= j /\ j < e /\ j \in Int /\ e \in Int
        BY <1>1, <2>1, <2>2
      <4> QED
        BY <4>1
    <3> QED
      BY <1>10, <3>1, <3>2
  <2>4. C[e] = Comment("closing") /\ C[e + 1] = Plain
    <3>1. e - 1 \in (k + 2)..Len(sql) /\ e - 1 \in (k + 2)..(e - 1) /\ (e - 1) + 1 = e /\ e \in 1..Len(sql)
      BY <1>1, <2>2
    <3>2. C[e] = Comment("closing")
      BY <1>7, <2>1, <2>3, <3>1
    <3>3. C[e + 1] = CommentStep(sql, e, C[e])
      BY <1>2, <3>1
    <3> QED
      BY <3>2, <3>3, KindSteps
  <2>5. Begins(e + 1)
    <3>1. e + 1 \in 1..(Len(sql) + 1)
      BY <1>1, <2>2
    <3> QED
      BY <2>4, <3>1 DEF Begins, C
  <2>6. ASSUME NEW j \in (k + 1)..e
        PROVE  \E kind \in {"opening", "block", "closing"} : C[j] = Comment(kind)
    <3>1. j = k + 1 \/ j = e \/ j \in (k + 2)..(e - 1)
      BY <1>1, <2>2
    <3> QED
      BY <1>6, <2>3, <2>4, <3>1
  <2>7. ASSUME NEW j \in k..e PROVE ~ InQuote(j) /\ InComment(sql, j)
    <3>1. CASE j = k
      <4>1. k + 1 \in (k + 1)..e
        BY <1>1, <2>2
      <4>2. ~ InQuote(k)
        BY KindsApart DEF InQuote, SlashStar, Quotes
      <4> QED
        BY <1>6, <1>11, <3>1, <4>2 DEF InComment, C
    <3>2. CASE j # k
      <4>1. j \in (k + 1)..e
        BY <1>1, <2>2, <3>2
      <4> QED
        BY <1>11, <2>6, <4>1 DEF InQuote, InComment, C
    <3> QED
      BY <3>1, <3>2
  <2>8. Reads(k, e)
    <3>1. sql[k] \notin Quotes /\ sql[k] \in {"-", "/"} /\ e > k /\ e \in k..Len(sql)
      BY <1>1, <2>2 DEF SlashStar, Quotes
    <3> QED
      BY <2>5, <2>7, <3>1 DEF Reads
  <2> QED
    BY <1>13, <2>8 DEF e, E
<1> QED
  BY <1>12, <1>13

LEMMA ValueLexeme ==
  ASSUME sql \in Seq(Tokens), NEW k \in 1..Len(sql), CommentStates(sql)[k] = Plain, sql[k] \in Quotes
  PROVE  IF LexemeEnds(k) = {} THEN Unclosed ELSE Reads(k, Least(LexemeEnds(k)))
<1> DEFINE C == CommentStates(sql)
           E == LexemeEnds(k)
           e == Least(E)
<1>1. Len(sql) \in Nat /\ k \in Nat /\ k >= 1 /\ sql[k] \notin {"-", "/"}
  BY DEF Quotes
<1>2. E = {l \in (k + 1)..Len(sql) : Ends(k, l)}
  <2>1. ~ Dashes(k) /\ ~ SlashStar(k)
    BY DEF SlashStar, Dashes, Quotes
  <2> QED
    BY <2>1, LexemeKinds
<1>3. ASSUME NEW m \in (k + 1)..(Len(sql) + 1), \A j \in (k + 1)..(m - 1) : ~ Ends(k, j)
      PROVE  InValue(k, m)
  BY <1>3, ValueStates
<1>4. \A m : InValue(k, m) => C[m].in = sql[k]
  BY DEF InValue
<1>5. CASE E = {}
  <2>1. Len(sql) + 1 \in (k + 1)..(Len(sql) + 1) /\ (Len(sql) + 1) - 1 = Len(sql)
    BY <1>1
  <2>2. C[Len(sql) + 1].in = sql[k]
    BY <1>2, <1>3, <1>4, <1>5, <2>1
  <2>3. Plain.in \notin Quotes /\ Comment("line").in \notin Quotes
    BY DEF Plain, Comment, Quotes
  <2> QED
    BY <1>5, <2>2, <2>3 DEF Unclosed
<1>6. CASE E # {}
  <2>1. e \in E /\ \A l \in E : e <= l
    <3>1. E \subseteq Nat
      BY <1>1, <1>2
    <3> HIDE DEF E
    <3> QED
      BY <1>6, <3>1, LeastIs
  <2> HIDE DEF e, E
  <2>2. e \in (k + 1)..Len(sql) /\ Ends(k, e)
    BY <1>2, <2>1
  <2>3. ASSUME NEW j \in (k + 1)..(e - 1) PROVE ~ Ends(k, j)
    <3>1. j \in (k + 1)..Len(sql) /\ j < e
      BY <1>1, <2>2
    <3>2. j \in E => e <= j
      BY <2>1
    <3>3. j \in Int /\ e \in Int
      BY <2>2
    <3> QED
      BY <1>2, <3>1, <3>2, <3>3
  <2>4. ASSUME NEW m \in (k + 1)..e PROVE InValue(k, m)
    <3>1. m \in (k + 1)..(Len(sql) + 1) /\ \A j \in (k + 1)..(m - 1) : j \in (k + 1)..(e - 1)
      BY <1>1, <2>2
    <3> QED
      BY <1>3, <2>3, <3>1
  <2>5. C[e + 1] = Plain
    <3>1. e \in (k + 1)..e /\ (e - 1 # k => e - 1 \in (k + 1)..(e - 1))
      BY <1>1, <2>2
    <3>2. InValue(k, e) /\ (e - 1 # k => ~ Ends(k, e - 1))
      BY <2>3, <2>4, <3>1
    <3> QED
      BY <2>2, <3>2, ValueStep
  <2>6. Begins(e + 1)
    <3>1. e + 1 \in 1..(Len(sql) + 1)
      BY <1>1, <2>2
    <3> QED
      BY <2>5, <3>1 DEF Begins, C
  <2>7. ASSUME NEW j \in k..e PROVE InQuote(j) /\ C[j].in \notin CommentKinds
    <3>1. CASE j = k
      BY <3>1, KindsApart DEF InQuote, C
    <3>2. CASE j # k
      <4>1. j \in (k + 1)..e
        BY <1>1, <2>2, <3>2
      <4>2. C[j].in = sql[k]
        BY <1>4, <2>4, <4>1
      <4> QED
        BY <4>2, KindsApart DEF InQuote, C
    <3> QED
      BY <3>1, <3>2
  <2>8. ASSUME NEW j \in k..e PROVE ~ InComment(sql, j)
    <3>1. j + 1 \in k..e \/ j + 1 = e + 1
      BY <1>1, <2>2
    <3>2. C[j + 1].in \notin CommentKinds
      <4>1. Plain.in \notin CommentKinds
        BY KindsApart
      <4> QED
        BY <2>5, <2>7, <3>1, <4>1
    <3> QED
      BY <2>7, <3>2 DEF InComment, C
  <2>9. Reads(k, e)
    <3>1. e \in k..Len(sql)
      BY <1>1, <2>2
    <3> QED
      BY <1>1, <2>6, <2>7, <2>8, <3>1 DEF Reads
  <2> QED
    BY <1>6, <2>9 DEF e, E
<1> QED
  BY <1>5, <1>6

LEMMA OneToken ==
  ASSUME sql \in Seq(Tokens), NEW k \in 1..Len(sql), Begins(k),
         ~ (CommentStates(sql)[k] = Plain /\ (Dashes(k) \/ SlashStar(k) \/ sql[k] \in Quotes))
  PROVE  LexemeEnds(k) = {k} /\ Reads(k, k)
<1> DEFINE C == CommentStates(sql)
<1>1. Len(sql) \in Nat /\ k + 1 \in 1..(Len(sql) + 1) /\ k \in k..Len(sql) /\ ~ (k > k)
  OBVIOUS
<1>2. C[k + 1] = CommentStep(sql, k, C[k]) /\ C[k] \in States
  BY <1>1, CommentStatesRun
<1>3. CASE C[k] = Plain
  <2>1. ~ Opens(sql, k)
    BY <1>3 DEF Opens, Dashes, SlashStar, At
  <2>2. Tidy(Plain)
    BY <1>2, <1>3, KindsApart DEF Tidy, Plain
  <2>3. C[k + 1] = Plain
    <3>1. C[k + 1] = ScanStep(sql, k, Plain)
      BY <1>2, <1>3, <2>1, <2>2, CommentSteps, KindsApart
    <3> QED
      BY <1>3, <3>1, PlainSteps
  <2>4. LexemeEnds(k) = {k}
    BY <1>3, LexemeKinds
  <2>5. ~ InQuote(k) /\ ~ InComment(sql, k) /\ Begins(k + 1) /\ sql[k] \notin Quotes
    BY <1>1, <1>3, <2>3, KindsApart DEF InQuote, InComment, Begins, C
  <2>6. \A j \in k..k : j = k
    OBVIOUS
  <2> QED
    BY <1>1, <2>4, <2>5, <2>6 DEF Reads
<1>4. CASE C[k] # Plain
  <2>1. C[k] = Comment("line") /\ sql[k] = "nl"
    BY <1>1, <1>4 DEF Begins, C
  <2>2. C[k + 1] = Plain
    BY <1>2, <2>1, KindSteps
  <2>3. ~ Dashes(k) /\ ~ SlashStar(k) /\ sql[k] \notin Quotes
    BY <2>1 DEF Dashes, SlashStar, Quotes
  <2>4. LexemeEnds(k) = {k}
    BY <2>3, LexemeKinds
  <2>5. ~ InQuote(k)
    BY <1>4, <2>1 DEF InQuote, C, Comment, Quotes
  <2>6. Begins(k + 1) /\ \A j \in k..k : j = k
    BY <1>1, <2>2 DEF Begins, C
  <2> QED
    BY <1>1, <2>1, <2>3, <2>4, <2>5, <2>6 DEF Reads
<1> QED
  BY <1>3, <1>4

(* One lexeme of the reading is one run of the loop.                        *)
LEMMA LexemeOf ==
  ASSUME sql \in Seq(Tokens), NEW k \in 1..Len(sql), Begins(k)
  PROVE  IF LexemeEnds(k) = {} THEN Unclosed ELSE Reads(k, Least(LexemeEnds(k)))
<1>1. CASE CommentStates(sql)[k] = Plain /\ Dashes(k)
  BY <1>1, LineComment
<1>2. CASE CommentStates(sql)[k] = Plain /\ SlashStar(k)
  BY <1>2, BlockComment
<1>3. CASE CommentStates(sql)[k] = Plain /\ sql[k] \in Quotes
  BY <1>3, ValueLexeme
<1>4. CASE ~ (CommentStates(sql)[k] = Plain /\ (Dashes(k) \/ SlashStar(k) \/ sql[k] \in Quotes))
  <2>1. LexemeEnds(k) = {k} /\ Reads(k, k)
    BY <1>4, OneToken
  <2>2. Least({k}) = k
    <3>1. {k} \subseteq Nat /\ k \in {k} /\ \A l \in {k} : k <= l
      OBVIOUS
    <3> QED
      BY <3>1, LeastIsOnly
  <2> QED
    BY <2>1, <2>2
<1> QED
  BY <1>1, <1>2, <1>3, <1>4

(* All lexemes from k on.                                                   *)
LexemesEquation(from) ==
  from = [k \in 1..(Len(sql) + 1) |->
            IF k > Len(sql) THEN {}
            ELSE IF LexemeEnds(k) = {} THEN {<<k, 0>>}
            ELSE {<<k, Least(LexemeEnds(k))>>} \cup from[Least(LexemeEnds(k)) + 1]]
LexemesFrom == CHOOSE from : LexemesEquation(from)

LEMMA LexemeEndsInside ==
  ASSUME sql \in Seq(Tokens), NEW k \in 1..Len(sql), LexemeEnds(k) # {}
  PROVE  Least(LexemeEnds(k)) \in k..Len(sql)
<1>1. Len(sql) \in Nat /\ k \in k..Len(sql)
  OBVIOUS
<1>2. LexemeEnds(k) \subseteq k..Len(sql)
  <2>1. LexemeEnds(k) = {l \in k..Len(sql) : At(sql, l + 1) \in {"nl", "end"}}
          \/ LexemeEnds(k) = {l \in (k + 3)..Len(sql) : sql[l - 1] = "*" /\ sql[l] = "/"}
          \/ LexemeEnds(k) = {l \in (k + 1)..Len(sql) : Ends(k, l)}
          \/ LexemeEnds(k) = {k}
    BY LexemeKinds
  <2>2. (k + 3)..Len(sql) \subseteq k..Len(sql) /\ (k + 1)..Len(sql) \subseteq k..Len(sql)
    BY <1>1
  <2> QED
    BY <1>1, <2>1, <2>2
<1>3. Least(LexemeEnds(k)) \in LexemeEnds(k)
  <2>1. LexemeEnds(k) \subseteq Nat
    BY <1>1, <1>2
  <2> QED
    BY <2>1, LeastIs
<1> QED
  BY <1>2, <1>3

LEMMA LexemesRun ==
  ASSUME sql \in Seq(Tokens)
  PROVE  /\ Lexemes = LexemesFrom[1]
         /\ LexemesFrom[Len(sql) + 1] = {}
         /\ \A k \in 1..Len(sql) :
              LexemesFrom[k] = IF LexemeEnds(k) = {} THEN {<<k, 0>>}
                               ELSE {<<k, Least(LexemeEnds(k))>>}
                                      \cup LexemesFrom[Least(LexemeEnds(k)) + 1]
<1> DEFINE D == 1..(Len(sql) + 1)
           A == SUBSET (Nat \X Nat)
           e(k) == Least(LexemeEnds(k))
           value(k, g) == IF k > Len(sql) THEN {}
                          ELSE IF LexemeEnds(k) = {} THEN {<<k, 0>>}
                          ELSE {<<k, e(k)>>} \cup g[e(k) + 1]
           F == [k \in D |-> [g \in [D -> A] |-> value(k, g)]]
<1>1. Len(sql) \in Nat
  OBVIOUS
<1>2. ASSUME NEW k \in D, ~ (k > Len(sql)), LexemeEnds(k) # {}
      PROVE  e(k) \in Nat /\ e(k) + 1 \in D /\ e(k) + 1 > k
  <2>1. k \in 1..Len(sql)
    BY <1>1, <1>2
  <2>2. e(k) \in k..Len(sql)
    BY <1>2, <2>1, LexemeEndsInside
  <2> HIDE DEF e
  <2> QED
    BY <1>1, <2>1, <2>2
<1>3. ASSUME NEW k \in D, NEW g \in [D -> A] PROVE value(k, g) \in A
  <2>1. CASE k > Len(sql) \/ LexemeEnds(k) = {}
    BY <1>1, <2>1
  <2>2. CASE ~ (k > Len(sql)) /\ LexemeEnds(k) # {}
    <3>1. e(k) \in Nat /\ e(k) + 1 \in D
      BY <1>2, <2>2
    <3> HIDE DEF e, D
    <3>2. g[e(k) + 1] \in A /\ k \in Nat
      BY <3>1 DEF D
    <3> QED
      BY <2>2, <3>1, <3>2
  <2> QED
    BY <2>1, <2>2
<1>4. ASSUME NEW k \in D, NEW g \in [D -> A], NEW h \in [D -> A],
             \A j \in D : j > k => g[j] = h[j]
      PROVE  value(k, g) = value(k, h)
  <2>1. CASE k > Len(sql) \/ LexemeEnds(k) = {}
    BY <2>1
  <2>2. CASE ~ (k > Len(sql)) /\ LexemeEnds(k) # {}
    <3>1. e(k) + 1 \in D /\ e(k) + 1 > k
      BY <1>2, <2>2
    <3> HIDE DEF e, D
    <3>2. g[e(k) + 1] = h[e(k) + 1]
      BY <1>4, <3>1
    <3> QED
      BY <2>2, <3>2
  <2> QED
    BY <2>1, <2>2
<1> HIDE DEF value
<1>5. Descends(1, Len(sql) + 1, A, F)
  <2> HIDE DEF A, D
  <2>1. F \in [D -> [[D -> A] -> A]]
    BY <1>3
  <2>2. \A k \in D : \A g, h \in [D -> A] :
          (\A j \in D : j > k => g[j] = h[j]) => F[k][g] = F[k][h]
    BY <1>4
  <2>3. A # {}
    BY DEF A
  <2>4. D = 1..(Len(sql) + 1) /\ 1 \in Int /\ Len(sql) + 1 \in Int
    BY <1>1 DEF D
  <2> HIDE DEF F
  <2> QED
    BY <2>1, <2>2, <2>3, <2>4, Zenon DEF Descends
<1>6. PICK f \in [D -> A] : \A k \in D : f[k] = F[k][f]
  <2> HIDE DEF A, F
  <2> QED
    BY <1>5, DownwardRecursion
<1>7. LexemesEquation(f)
  <2> HIDE DEF A, D
  <2>1. \A k \in D : f[k] = value(k, f)
    BY <1>6
  <2>2. f = [k \in D |-> value(k, f)]
    BY <1>6, <2>1
  <2> QED
    BY <2>2 DEF LexemesEquation, D, value
<1>8. LexemesEquation(LexemesFrom)
  BY <1>7, Zenon DEF LexemesFrom
<1>9. \A k \in D : LexemesFrom[k] = value(k, LexemesFrom)
  BY <1>8 DEF LexemesEquation, value
<1>10. Lexemes = LexemesFrom[1]
  BY Zenon DEF Lexemes, LexemesFrom, LexemesEquation
<1>11. Len(sql) + 1 \in D /\ Len(sql) + 1 > Len(sql) /\ \A k \in 1..Len(sql) : k \in D /\ ~ (k > Len(sql))
  BY <1>1
<1> HIDE DEF D, e
<1>12. LexemesFrom[Len(sql) + 1] = {}
  BY <1>9, <1>11 DEF value
<1>13. ASSUME NEW k \in 1..Len(sql)
       PROVE  LexemesFrom[k] = IF LexemeEnds(k) = {} THEN {<<k, 0>>}
                               ELSE {<<k, e(k)>>} \cup LexemesFrom[e(k) + 1]
  BY <1>9, <1>11 DEF value
<1> QED
  BY <1>10, <1>12, <1>13 DEF e

QuoteLexemes(S)   == {l \in S : sql[l[1]] \in Quotes}
CommentLexemes(S) == {l \in S : /\ sql[l[1]] \in {"-", "/"} /\ l[2] > l[1]}

Covers(k, S) ==
  /\ \A j : j \in Covered(QuoteLexemes(S)) <=> j \in k..Len(sql) /\ InQuote(j)
  /\ \A j \in Covered(CommentLexemes(S)) : j \in k..Len(sql)
  /\ \A j \in k..Len(sql) :
       sql[j] # "nl" => (InComment(sql, j) <=> j \in Covered(CommentLexemes(S)))

LEMMA ReadOn ==
  ASSUME sql \in Seq(Tokens), NEW k \in 1..Len(sql), NEW e \in k..Len(sql), Reads(k, e),
         NEW S, Covers(e + 1, S)
  PROVE  Covers(k, {<<k, e>>} \cup S)
<1> DEFINE T == {<<k, e>>} \cup S
           q == sql[k] \in Quotes
           c == sql[k] \in {"-", "/"} /\ e > k
<1>1. Len(sql) \in Nat /\ \A j : j \in k..Len(sql) <=> j \in k..e \/ j \in (e + 1)..Len(sql)
  OBVIOUS
<1>2. \A j : ~ (j \in k..e /\ j \in (e + 1)..Len(sql))
  BY <1>1
<1>0. /\ \A R, j : j \in Covered(R) <=> \E l \in R : j \in l[1]..l[2]
      /\ <<k, e>>[1] = k /\ <<k, e>>[2] = e
  BY DEF Covered
<1>3. \A j : j \in Covered(QuoteLexemes(T)) <=> (q /\ j \in k..e) \/ j \in Covered(QuoteLexemes(S))
  <2> DEFINE l0 == <<k, e>>
             Q(l) == sql[l[1]] \in Quotes
  <2>1. \A l : l \in T <=> l = l0 \/ l \in S
    OBVIOUS
  <2>2. Q(l0) <=> q
    BY <1>0
  <2>3. \A R : \A l : l \in QuoteLexemes(R) <=> l \in R /\ Q(l)
    BY DEF QuoteLexemes
  <2> HIDE DEF T, q, Q, l0
  <2>4. l0[1] = k /\ l0[2] = e
    BY <1>0 DEF l0
  <2>5. \A l : l \in QuoteLexemes(T) <=> (l = l0 /\ q) \/ l \in QuoteLexemes(S)
    BY <2>1, <2>2, <2>3
  <2> QED
    BY <1>0, <2>4, <2>5
<1>4. \A j : j \in Covered(CommentLexemes(T)) <=> (c /\ j \in k..e) \/ j \in Covered(CommentLexemes(S))
  <2> DEFINE l0 == <<k, e>>
             Q(l) == sql[l[1]] \in {"-", "/"} /\ l[2] > l[1]
  <2>1. \A l : l \in T <=> l = l0 \/ l \in S
    OBVIOUS
  <2>2. Q(l0) <=> c
    BY <1>0
  <2>3. \A R : \A l : l \in CommentLexemes(R) <=> l \in R /\ Q(l)
    BY DEF CommentLexemes
  <2> HIDE DEF T, c, Q, l0
  <2>4. l0[1] = k /\ l0[2] = e
    BY <1>0 DEF l0
  <2>5. \A l : l \in CommentLexemes(T) <=> (l = l0 /\ c) \/ l \in CommentLexemes(S)
    BY <2>1, <2>2, <2>3
  <2> QED
    BY <1>0, <2>4, <2>5
<1>5. \A j \in k..e : /\ InQuote(j) <=> q
                      /\ sql[j] # "nl" => (InComment(sql, j) <=> c)
  BY DEF Reads
<1> HIDE DEF T, q, c
<1>6. \A j : j \in Covered(QuoteLexemes(T)) <=> j \in k..Len(sql) /\ InQuote(j)
  BY <1>1, <1>2, <1>3, <1>5 DEF Covers
<1>7. \A j \in Covered(CommentLexemes(T)) : j \in k..Len(sql)
  BY <1>1, <1>4 DEF Covers
<1>8. ASSUME NEW j \in k..Len(sql), sql[j] # "nl"
      PROVE  InComment(sql, j) <=> j \in Covered(CommentLexemes(T))
  <2>1. j \in Covered(CommentLexemes(S)) => j \in (e + 1)..Len(sql)
    BY DEF Covers
  <2>2. j \in (e + 1)..Len(sql) => (InComment(sql, j) <=> j \in Covered(CommentLexemes(S)))
    BY <1>8 DEF Covers
  <2> QED
    BY <1>1, <1>2, <1>4, <1>5, <1>8, <2>1, <2>2
<1> QED
  BY <1>6, <1>7, <1>8 DEF Covers, T

(* The reading from k on is what the loop does from k on. *)
LEMMA ReadingIs ==
  ASSUME sql \in Seq(Tokens), NEW k \in 1..(Len(sql) + 1), Begins(k)
  PROVE  /\ (\E l \in LexemesFrom[k] : l[2] = 0) <=> Unclosed
         /\ ~ Unclosed => Covers(k, LexemesFrom[k])
<1> DEFINE L == LexemesFrom
           D == 1..(Len(sql) + 1)
           Good(m) == /\ (\E l \in L[m] : l[2] = 0) <=> Unclosed
                      /\ ~ Unclosed => Covers(m, L[m])
           P == {m \in D : Begins(m) => Good(m)}
<1>1. Len(sql) \in Nat
  OBVIOUS
<1>2. Len(sql) + 1 \in P
  <2>1. L[Len(sql) + 1] = {}
    BY LexemesRun
  <2>2. SUFFICES ASSUME Begins(Len(sql) + 1) PROVE Good(Len(sql) + 1)
    BY <1>1
  <2>3. ~ Unclosed
    BY <2>2 DEF Begins, Unclosed
  <2>4. Covers(Len(sql) + 1, {})
    <3>1. \A j : j \notin (Len(sql) + 1)..Len(sql)
      BY <1>1
    <3> QED
      BY <3>1 DEF Covers, Covered, QuoteLexemes, CommentLexemes
  <2> HIDE DEF L
  <2> QED
    BY <2>1, <2>3, <2>4
<1>3. ASSUME NEW m \in D, \A j \in D : j > m => j \in P PROVE m \in P
  <2> SUFFICES ASSUME Begins(m), m # Len(sql) + 1 PROVE Good(m)
    BY <1>2
  <2>1. m \in 1..Len(sql)
    BY <1>1
  <2> DEFINE E == LexemeEnds(m)
             e == Least(E)
  <2>2. IF E = {} THEN Unclosed ELSE Reads(m, e)
    BY <2>1, LexemeOf
  <2>3. L[m] = IF E = {} THEN {<<m, 0>>} ELSE {<<m, e>>} \cup L[e + 1]
    BY <2>1, LexemesRun
  <2> HIDE DEF L, E, e
  <2>4. CASE E = {}
    <3>1. Unclosed /\ L[m] = {<<m, 0>>} /\ <<m, 0>>[2] = 0
      BY <2>2, <2>3, <2>4
    <3> QED
      BY <3>1
  <2>5. CASE E # {}
    <3>1. Reads(m, e) /\ e \in m..Len(sql) /\ Begins(e + 1)
      BY <2>2, <2>5 DEF Reads
    <3>2. e + 1 \in D /\ e + 1 > m /\ e # 0
      BY <1>1, <2>1, <3>1
    <3>3. Good(e + 1)
      BY <1>3, <3>1, <3>2
    <3>4. L[m] = {<<m, e>>} \cup L[e + 1]
      BY <2>3, <2>5
    <3>5. (\E l \in L[m] : l[2] = 0) <=> (\E l \in L[e + 1] : l[2] = 0)
      BY <3>2, <3>4
    <3>6. ~ Unclosed => Covers(m, L[m])
      BY <2>1, <3>1, <3>3, <3>4, ReadOn
    <3> QED
      BY <3>3, <3>5, <3>6
  <2> QED
    BY <2>4, <2>5
<1>4. D \subseteq P
  <2> HIDE DEF P
  <2>1. 1 \in Int /\ Len(sql) + 1 \in Int
    BY <1>1
  <2>2. \A m \in 1..(Len(sql) + 1) : (\A j \in 1..(Len(sql) + 1) : j > m => j \in P) => m \in P
    BY <1>3
  <2> QED
    BY <2>1, <2>2, DownwardInduction
<1> QED
  BY <1>4

LEMMA WholeReading ==
  ASSUME sql \in Seq(Tokens)
  PROVE  /\ (\E l \in Lexemes : l[2] = 0) <=> ~ WithoutComments(sql).complete
         /\ WithoutComments(sql).complete =>
              /\ QuotedMask(WithoutComments(sql).text) = InQuotes
              /\ WithoutComments(sql).text
                   = [k \in DOMAIN sql |-> IF k \in Commented /\ sql[k] # "nl" THEN "blank" ELSE sql[k]]
<1> DEFINE C == CommentStates(sql)
           new == WithoutComments(sql).text
<1>1. Len(sql) \in Nat /\ DOMAIN sql = 1..Len(sql) /\ 1 \in 1..(Len(sql) + 1)
  OBVIOUS
<1>2. Begins(1)
  BY <1>1, CommentStatesRun DEF Begins
<1>3. WithoutComments(sql).complete <=> ~ Unclosed
  BY CleanedText DEF Unclosed
<1>4. /\ (\E l \in Lexemes : l[2] = 0) <=> Unclosed
      /\ ~ Unclosed => Covers(1, Lexemes)
  BY <1>1, <1>2, ReadingIs, LexemesRun
<1>5. InQuotes = Covered(QuoteLexemes(Lexemes)) /\ Commented = Covered(CommentLexemes(Lexemes))
  BY DEF InQuotes, Commented, QuoteLexemes, CommentLexemes
<1>6. ASSUME ~ Unclosed PROVE QuotedMask(new) = InQuotes
  <2>1. new \in Seq(Tokens) /\ Len(new) = Len(sql) /\ DOMAIN new = 1..Len(sql)
    <3>1. new \in Seq(Tokens) /\ Len(new) = Len(sql)
      BY CleanedTyping
    <3> HIDE DEF new
    <3> QED
      BY <3>1
  <2>2. QuotedMask(new) = {k \in DOMAIN new : k \notin PlainFrom(new, 1) \/ new[k] \in Quotes}
    BY DEF QuotedMask
  <2>3. ASSUME NEW k \in 1..Len(sql)
        PROVE  k \notin PlainFrom(new, 1) \/ new[k] \in Quotes <=> InQuote(k)
    <3>1. k \in 1..(Len(sql) + 1) /\ k \in 1..(Len(new) + 1)
      BY <1>1, <2>1
    <3>2. Tidy(C[k]) /\ ScanStates(new, 1)[k] = Visible(C[k])
      BY <3>1, MasksAgree DEF Agree
    <3>3. k \in PlainFrom(new, 1) <=> Visible(C[k]) = Plain
      BY <3>1, <3>2, PlainFromIs
    <3>4. new[k] = IF sql[k] # "nl" /\ InComment(sql, k) THEN "blank" ELSE sql[k]
      <4>1. new = [j \in DOMAIN sql |-> IF sql[j] # "nl" /\ InComment(sql, j) THEN "blank" ELSE sql[j]]
        BY CleanedText
      <4> HIDE DEF new
      <4> QED
        BY <1>1, <4>1
    <3>5. CASE C[k].in \in Quotes
      <4>1. Visible(C[k]) # Plain
        BY <3>5, KindsApart DEF Visible
      <4> QED
        BY <3>3, <3>5, <4>1 DEF InQuote, C
    <3>6. CASE C[k].in \in CommentKinds
      <4>1. Visible(C[k]) = Plain /\ C[k].in \notin Quotes /\ C[k] # Plain
        BY <3>6, KindsApart DEF Visible
      <4>2. new[k] \notin Quotes
        BY <3>4, <3>6 DEF InComment, C, Quotes
      <4> QED
        BY <3>3, <4>1, <4>2 DEF InQuote, C
    <3>7. CASE C[k] = Plain
      <4>1. Visible(C[k]) = Plain /\ C[k].in \notin Quotes
        BY <3>7, KindsApart DEF Visible
      <4>2. new[k] \in Quotes <=> sql[k] \in Quotes
        <5>1. SUFFICES ASSUME sql[k] \in Quotes PROVE ~ InComment(sql, k)
          BY <3>4 DEF Quotes
        <5>2. ~ Opens(sql, k)
          BY <5>1, <1>1 DEF Opens, At, Quotes
        <5>3. C[k + 1] = CommentStep(sql, k, C[k])
          BY CommentStatesRun
        <5>4. C[k + 1] = ScanStep(sql, k, C[k]) /\ C[k].in \notin CommentKinds
          BY <3>2, <3>7, <5>2, <5>3, CommentSteps, KindsApart
        <5>5. C[k + 1].in \notin CommentKinds
          BY <3>2, <5>4, ScanTidy
        <5> QED
          BY <5>4, <5>5 DEF InComment, C
      <4> QED
        BY <3>3, <3>7, <4>1, <4>2 DEF InQuote, C
    <3> QED
      BY <3>2, <3>5, <3>6, <3>7, StateForms, KindsApart
  <2>4. \A k : k \in InQuotes <=> k \in 1..Len(sql) /\ InQuote(k)
    BY <1>4, <1>5, <1>6 DEF Covers
  <2> HIDE DEF new
  <2> QED
    BY <2>1, <2>2, <2>3, <2>4
<1>7. ASSUME ~ Unclosed
      PROVE  new = [k \in DOMAIN sql |-> IF k \in Commented /\ sql[k] # "nl" THEN "blank" ELSE sql[k]]
  <2>1. new = [k \in DOMAIN sql |-> IF sql[k] # "nl" /\ InComment(sql, k) THEN "blank" ELSE sql[k]]
    BY CleanedText
  <2>2. \A k \in DOMAIN sql : sql[k] # "nl" => (InComment(sql, k) <=> k \in Commented)
    BY <1>1, <1>4, <1>5, <1>7 DEF Covers
  <2> HIDE DEF new
  <2> QED
    BY <2>1, <2>2
<1> QED
  BY <1>3, <1>4, <1>6, <1>7

Typed ==
  /\ sql \in Seq(Tokens)
  /\ cleaned \in Seq(Tokens)
  /\ pc = "clean" => cleaned = <<>> /\ tables = <<>> /\ pos = 1 /\ cursor = 1
  /\ pc = "match" => /\ Len(cleaned) = Len(sql)
                     /\ \A k \in 1..Len(sql) : cleaned[k] \in {sql[k], "blank"}
  /\ TypeOK

LEMMA TypedInit == Init => Typed
  BY DocumentsAssumption DEF Init, Typed, TypeOK, Outcomes

LEMMA TypedClean ==
  ASSUME Typed, Clean
  PROVE  Typed'
<1> USE DEF Typed, TypeOK
<1>0. "unterminated" \in Outcomes /\ "unterminated" # "none"
  BY DEF Outcomes
<1> DEFINE new == WithoutComments(sql).text
<1>1. /\ new \in Seq(Tokens)
      /\ Len(new) = Len(sql)
      /\ \A k \in 1..Len(sql) : new[k] \in {sql[k], "blank"}
  BY CleanedTyping
<1>2. \/ pc' = "ended" /\ outcome' = "unterminated" /\ UNCHANGED <<cleaned, quoted>>
      \/ cleaned' = new /\ pc' = "match" /\ UNCHANGED outcome
  BY DEF Clean, Stop
<1>3. pc = "clean" /\ UNCHANGED <<sql, pos, cursor, matched, tables>>
  BY DEF Clean
<1> HIDE DEF new
<1>4. sql' \in Seq(Tokens) /\ cleaned' \in Seq(Tokens)
  BY <1>1, <1>2, <1>3
<1>5. pos' \in 1..(Len(sql') + 1) /\ cursor' \in 1..(Len(sql') + 1)
  BY <1>3
<1>6. pc' = "match" => /\ Len(cleaned') = Len(sql')
                       /\ \A k \in 1..Len(sql') : cleaned'[k] \in {sql'[k], "blank"}
  BY <1>1, <1>2, <1>3
<1>7. pc' # "clean" => cleaned' = <<>> \/ Len(cleaned') = Len(sql')
  BY <1>1, <1>2, <1>3
<1> QED
  BY <1>0, <1>2, <1>3, <1>4, <1>5, <1>6, <1>7

-----------------------------------------------------------------------------
(* What a round makes of the statement that starts at k. *)
EndOf(close)           == StatementEnd(cleaned, close + 1)
ListOf(opening, close) == Slice(cleaned, opening + 1, close - 1)
RestOf(close)          ==
  Slice(cleaned, close + 1, IF cleaned[EndOf(close) - 1] = "semicolon" THEN EndOf(close) - 2 ELSE EndOf(close) - 1)
ColumnsOf(opening, close) == Columns(Definitions(ListOf(opening, close)), MaxColumns - Used, TRUE)
TailsOf(opening, close)   ==
  TailColumns(RestOf(close), MaxColumns - Used - ColumnsOf(opening, close).count)

Adds(k, opening, close) == \E tail \in TailsOf(opening, close) :
  LET columns == ColumnsOf(opening, close) IN
    /\ columns.error = "none" /\ tail.error = "none"
    /\ tables' = Append(tables, [start |-> k, opening |-> opening, close |-> close, end |-> EndOf(close),
                                 columns |-> columns.count, partitions |-> tail.count])
    /\ cursor' = EndOf(close) /\ pos' = opening + 1
    /\ UNCHANGED <<pc, outcome>>

Refusals == Outcomes \ {"none", "unterminated", "parsed"}
Refused  == \E message \in Refusals : Refuse(message)

LEMMA ErrorsTyped ==
  ASSUME NEW definitions, NEW max, NEW allow
  PROVE  Columns(definitions, max, allow).error \in {"none", "columnLimit", "definition"}
  BY DEF Columns

(* What the tail of a statement shows outside quotes and parentheses, and   *)
(* its list in parentheses.                                                 *)
Solid(text) == {k \in Flat(text, Levels(text, 1)) : text[k] \notin Blanks}
Shows(text, tokens) ==
  /\ Cardinality(Solid(text)) = Len(tokens)
  /\ \A k \in Solid(text) : text[k] = tokens[Cardinality(Solid(text) \cap (1..k))]
Lists(text) ==
  {Slice(text, k + 1, Least(Closings(text, k)) - 1) :
     k \in {k \in Flat(text, Levels(text, 1)) : text[k] = "(" /\ Closings(text, k) # {}}}

LEMMA TailOf ==
  ASSUME NEW text, NEW max, NEW tail \in TailColumns(text, max)
  PROVE  \/ /\ \E marks \in {<<>>, <<"quote">>} : Shows(text, marks)
            /\ tail = [count |-> 0, error |-> "none"]
         \/ /\ \E marks \in {<<"part", "(">>, <<"quote", "part", "(">>} : Shows(text, marks)
            /\ \E list \in Lists(text) : tail = Columns(Definitions(list), max, FALSE)
         \/ tail = [count |-> 0, error |-> "tail"]
<1> DEFINE plain == \E marks \in {<<>>, <<"quote">>} : Shows(text, marks)
           listed == \E marks \in {<<"part", "(">>, <<"quote", "part", "(">>} : Shows(text, marks)
           lists == Lists(text)
           result(list) == {Columns(definitions, max, FALSE) : definitions \in {Definitions(list)}}
           none == {[count |-> 0, error |-> "none"]}
           refused == {[count |-> 0, error |-> "tail"]}
           results == UNION {result(list) : list \in lists}
<1>1. tail \in CASE plain -> none
                 [] listed /\ lists # {} -> results
                 [] OTHER -> refused
  BY Zenon DEF TailColumns, Shows, Solid, Lists
<1>2. tail \in results => \E list \in lists : tail = Columns(Definitions(list), max, FALSE)
  OBVIOUS
<1>3. ~ (plain /\ listed)
  <2>1. plain => Cardinality(Solid(text)) \in {0, 1}
    BY DEF Shows
  <2>2. listed => Cardinality(Solid(text)) \in {2, 3}
    BY DEF Shows
  <2> QED
    BY <2>1, <2>2
<1> HIDE DEF plain, listed, lists, result, results
<1>4. \/ plain /\ tail \in none
      \/ listed /\ tail \in results
      \/ tail \in refused
  BY <1>1, <1>3
<1> QED
  BY <1>2, <1>4 DEF plain, listed, lists

LEMMA TailErrorsTyped ==
  ASSUME NEW text, NEW max, NEW tail \in TailColumns(text, max)
  PROVE  tail.error \in {"none", "columnLimit", "definition", "tail"}
<1>1. \/ tail \in {[count |-> 0, error |-> "none"], [count |-> 0, error |-> "tail"]}
      \/ \E definitions : tail = Columns(definitions, max, FALSE)
  BY TailOf, Zenon
<1>2. ASSUME NEW definitions, tail = Columns(definitions, max, FALSE)
      PROVE  tail.error \in {"none", "columnLimit", "definition"}
  BY <1>2, ErrorsTyped, Zenon
<1>3. CASE tail = [count |-> 0, error |-> "none"]
  BY <1>3
<1>4. CASE tail = [count |-> 0, error |-> "tail"]
  BY <1>4
<1> QED
  BY <1>1, <1>2, <1>3, <1>4, Zenon

LEMMA StatementResults ==
  ASSUME NEW k, NEW opening, NEW close, Statement(k, opening, close)
  PROVE  \/ ColumnsOf(opening, close).error # "none" /\ Refuse(ColumnsOf(opening, close).error)
         \/ \E tail \in TailsOf(opening, close) :
              ColumnsOf(opening, close).error = "none" /\ tail.error # "none" /\ Refuse(tail.error)
         \/ Refuse("name")
         \/ Adds(k, opening, close)
<1> DEFINE columns == ColumnsOf(opening, close)
           name == Slice(cleaned, k + 1, opening - 1)
           Result(end, cols, tail) ==
             \/ cols.error # "none" /\ Refuse(cols.error)
             \/ cols.error = "none" /\ tail.error # "none" /\ Refuse(tail.error)
             \/ /\ {cols.error, tail.error} = {"none"}
                /\ ~ NameIsQualified(name) /\ Refuse("name")
             \/ /\ {cols.error, tail.error} = {"none"}
                /\ NameIsQualified(name)
                /\ tables' = Append(tables, [start |-> k, opening |-> opening, close |-> close, end |-> end,
                                             columns |-> cols.count, partitions |-> tail.count])
                /\ cursor' = end /\ pos' = opening + 1
                /\ UNCHANGED <<pc, outcome>>
<1>0. \E end \in {EndOf(close)} :
      \E list \in {ListOf(opening, close)} :
      \E last \in {IF cleaned[end - 1] = "semicolon" THEN end - 2 ELSE end - 1} :
      \E rest \in {Slice(cleaned, close + 1, last)} :
      \E definitions \in {Definitions(list)} :
      \E cols \in {Columns(definitions, MaxColumns - Used, TRUE)} :
      \E tail \in TailColumns(rest, MaxColumns - Used - cols.count) : Result(end, cols, tail)
  BY Zenon DEF Statement, EndOf, ListOf
<1>1. PICK tail \in TailsOf(opening, close) : Result(EndOf(close), columns, tail)
  <2> HIDE DEF Result
  <2> QED
    BY <1>0, Zenon DEF RestOf, ColumnsOf, TailsOf
<1>2. {columns.error, tail.error} = {"none"} => columns.error = "none" /\ tail.error = "none"
  OBVIOUS
<1> QED
  BY <1>1, <1>2, Zenon DEF Adds

LEMMA StatementAdds ==
  ASSUME NEW k, NEW opening, NEW close, Statement(k, opening, close)
  PROVE  Refused \/ Adds(k, opening, close)
<1> DEFINE columns == ColumnsOf(opening, close)
<1>1. columns.error # "none" => columns.error \in Refusals
  BY ErrorsTyped DEF ColumnsOf, Outcomes, Refusals
<1>2. \A tail \in TailsOf(opening, close) : tail.error # "none" => tail.error \in Refusals
  BY TailErrorsTyped DEF TailsOf, Outcomes, Refusals
<1>3. "name" \in Refusals
  BY DEF Outcomes, Refusals
<1>4. \/ columns.error # "none" /\ Refuse(columns.error)
      \/ \E tail \in TailsOf(opening, close) :
           columns.error = "none" /\ tail.error # "none" /\ Refuse(tail.error)
      \/ Refuse("name")
      \/ Adds(k, opening, close)
  BY StatementResults
<1> HIDE DEF columns
<1> QED
  BY <1>1, <1>2, <1>3, <1>4, Zenon DEF Refused

LEMMA RoundResults ==
  ASSUME ParseStatement
  PROVE  /\ pc = "match" /\ UNCHANGED <<sql, cleaned, quoted>>
         /\ \E k \in NextMatch \ quoted : \E opening \in Opening(k) :
              \/ Len(tables) >= MaxTables /\ Refuse("tableLimit")
              \/ \E message \in {"statement", "unclosed"} : Refuse(message)
              \/ /\ Len(tables) < MaxTables /\ Separated(cursor, k - 1)
                 /\ Closings(cleaned, opening) # {}
                 /\ Statement(k, opening, Least(Closings(cleaned, opening)))
<1>1. pc = "match" /\ UNCHANGED <<sql, cleaned, quoted>>
  BY DEF ParseStatement
<1>2. PICK k \in NextMatch \ quoted : \E opening \in Opening(k) :
       \/ Len(tables) >= MaxTables /\ Refuse("tableLimit")
       \/ Len(tables) < MaxTables /\ ~ Separated(cursor, k - 1) /\ Refuse("statement")
       \/ /\ Len(tables) < MaxTables /\ Separated(cursor, k - 1)
          /\ \E closings \in {Closings(cleaned, opening)} :
               \/ closings = {} /\ Refuse("unclosed")
               \/ \E close \in {Least(S) : S \in {closings} \ {{}}} : Statement(k, opening, close)
  BY Zenon DEF ParseStatement
<1>3. PICK opening \in Opening(k) :
       \/ Len(tables) >= MaxTables /\ Refuse("tableLimit")
       \/ Len(tables) < MaxTables /\ ~ Separated(cursor, k - 1) /\ Refuse("statement")
       \/ /\ Len(tables) < MaxTables /\ Separated(cursor, k - 1)
          /\ \E closings \in {Closings(cleaned, opening)} :
               \/ closings = {} /\ Refuse("unclosed")
               \/ \E close \in {Least(S) : S \in {closings} \ {{}}} : Statement(k, opening, close)
  BY <1>2, Zenon
<1>4. \/ Len(tables) >= MaxTables /\ Refuse("tableLimit")
      \/ \E message \in {"statement", "unclosed"} : Refuse(message)
      \/ /\ Len(tables) < MaxTables /\ Separated(cursor, k - 1)
         /\ Closings(cleaned, opening) # {} /\ Statement(k, opening, Least(Closings(cleaned, opening)))
  BY <1>3
<1> QED
  BY <1>1, <1>4

LEMMA RoundOf ==
  ASSUME ParseStatement
  PROVE  /\ pc = "match" /\ UNCHANGED <<sql, cleaned, quoted>>
         /\ \/ Refused
            \/ \E k \in NextMatch \ quoted : \E opening \in Opening(k) :
                 /\ Len(tables) < MaxTables /\ Separated(cursor, k - 1)
                 /\ Closings(cleaned, opening) # {}
                 /\ Adds(k, opening, Least(Closings(cleaned, opening)))
<1>1. {"tableLimit", "statement", "unclosed"} \subseteq Refusals
  BY DEF Refusals, Outcomes
<1>2. PICK k \in NextMatch \ quoted : \E opening \in Opening(k) :
        \/ Len(tables) >= MaxTables /\ Refuse("tableLimit")
        \/ \E message \in {"statement", "unclosed"} : Refuse(message)
        \/ /\ Len(tables) < MaxTables /\ Separated(cursor, k - 1)
           /\ Closings(cleaned, opening) # {}
           /\ Statement(k, opening, Least(Closings(cleaned, opening)))
  BY RoundResults, Zenon
<1>3. PICK opening \in Opening(k) :
        \/ Len(tables) >= MaxTables /\ Refuse("tableLimit")
        \/ \E message \in {"statement", "unclosed"} : Refuse(message)
        \/ /\ Len(tables) < MaxTables /\ Separated(cursor, k - 1)
           /\ Closings(cleaned, opening) # {}
           /\ Statement(k, opening, Least(Closings(cleaned, opening)))
  BY <1>2, Zenon
<1>4. Statement(k, opening, Least(Closings(cleaned, opening)))
        => Refused \/ Adds(k, opening, Least(Closings(cleaned, opening)))
  BY StatementAdds
<1>5. (\E message \in {"tableLimit", "statement", "unclosed"} : Refuse(message)) => Refused
  BY <1>1, Zenon DEF Refused
<1> QED
  BY <1>3, <1>4, <1>5, RoundResults

(* The parenthesis a match ends with is one of the document. *)
LEMMA MatchInside ==
  ASSUME cleaned \in Seq(Tokens), NEW k \in NextMatch, NEW opening \in Opening(k)
  PROVE  /\ k \in 1..Len(cleaned) /\ k >= pos /\ k \in Matches(cleaned)
         /\ opening \in Openings(cleaned, k) /\ \A o \in Openings(cleaned, k) : opening <= o
         /\ opening \in 1..Len(cleaned) /\ cleaned[opening] = "("
<1>1. k = Least(Candidates) /\ Candidates # {}
  BY DEF NextMatch
<1>2. Candidates \subseteq 1..Len(cleaned) /\ 1..Len(cleaned) \subseteq Nat
  BY DEF Candidates, Matches
<1>3. k \in Candidates
  BY <1>1, <1>2, LeastIs
<1>4. opening = Least(Openings(cleaned, k)) /\ Openings(cleaned, k) # {}
  BY <1>3 DEF Opening, Candidates, Matches
<1>5. Openings(cleaned, k) \subseteq 1..Len(cleaned)
  BY OpeningsInside
<1>6. opening \in Openings(cleaned, k) /\ \A o \in Openings(cleaned, k) : opening <= o
  BY <1>4, <1>5, LeastIs
<1> QED
  BY <1>2, <1>3, <1>6, OpeningsInside DEF Candidates

LEMMA TypedRound ==
  ASSUME Typed, ParseStatement
  PROVE  Typed'
<1>1. pc = "match" /\ UNCHANGED <<sql, cleaned, quoted>>
  BY RoundOf
<1>0. cleaned \in Seq(Tokens) /\ Len(cleaned) \in Nat /\ Len(cleaned) = Len(sql)
  BY <1>1 DEF Typed
<1>2. CASE Refused
  <2>1. PICK message \in Refusals : Refuse(message)
    BY <1>2 DEF Refused
  <2>2. pc' = "ended" /\ outcome' = message /\ UNCHANGED <<cursor, tables, pos>>
    BY <2>1 DEF Refuse, Stop
  <2> QED
    BY <1>1, <2>2 DEF Typed, TypeOK, Refusals
<1>3. ASSUME NEW k \in NextMatch, NEW opening \in Opening(k), Closings(cleaned, opening) # {},
             Adds(k, opening, Least(Closings(cleaned, opening)))
      PROVE  Typed'
  <2> DEFINE close == Least(Closings(cleaned, opening))
  <2>1. opening \in 1..Len(cleaned)
    BY MatchInside DEF Typed
  <2>2. close \in opening..Len(cleaned)
    <3>1. Closings(cleaned, opening) \subseteq opening..Len(cleaned)
      BY <2>1, ClosingsInside DEF Typed
    <3>2. opening..Len(cleaned) \subseteq Nat
      BY <2>1
    <3> QED
      BY <1>3, <3>1, <3>2, LeastIs
  <2> HIDE DEF close
  <2>3. EndOf(close) \in 1..(Len(cleaned) + 1)
    <3>1. close + 1 \in Nat /\ close + 1 <= Len(cleaned) + 1 /\ close + 1 >= 1 /\ Len(cleaned) \in Nat
      BY <1>0, <2>1, <2>2
    <3> QED
      BY <1>0, <3>1, StatementEndInside DEF EndOf
  <2>4. pos' = opening + 1 /\ cursor' = EndOf(close) /\ UNCHANGED <<pc, outcome>>
    BY <1>3 DEF Adds, close
  <2> QED
    BY <1>0, <1>1, <2>1, <2>3, <2>4 DEF Typed, TypeOK
<1> QED
  BY <1>2, <1>3, RoundOf

LEMMA TypedStep == Typed /\ [Next]_vars => Typed'
<1> SUFFICES ASSUME Typed, [Next]_vars PROVE Typed'
  OBVIOUS
<1>1. CASE SkipQuotedMatch
  <2>1. PICK k \in NextMatch \cap quoted : \E opening \in Opening(k) : pos' = opening + 1
    BY <1>1 DEF SkipQuotedMatch
  <2>2. PICK opening \in Opening(k) : pos' = opening + 1
    BY <2>1
  <2>3. opening \in 1..Len(cleaned) /\ k \in NextMatch
    BY MatchInside DEF Typed
  <2>4. pc = "match" /\ UNCHANGED <<sql, cleaned, quoted, pc, cursor, matched, tables, outcome>>
    BY <1>1 DEF SkipQuotedMatch
  <2>5. Len(cleaned) \in Nat /\ Len(cleaned) = Len(sql)
    BY <2>4 DEF Typed
  <2> QED
    BY <2>2, <2>3, <2>4, <2>5 DEF Typed, TypeOK
<1>2. CASE EndDocument
  BY <1>2 DEF EndDocument, Stop, Typed, TypeOK, Outcomes
<1>3. CASE Finished \/ UNCHANGED vars
  BY <1>3 DEF Finished, vars, Typed, TypeOK, Outcomes
<1> QED
  BY <1>1, <1>2, <1>3, TypedClean, TypedRound DEF Next

LEMMA TypedInvariant == Spec => []Typed
  BY TypedInit, TypedStep, PTL DEF Spec

(* Every reachable state of the scan is well typed: where finditer goes on  *)
(* and where the last statement ended are positions of the document, whose  *)
(* length the masking of comments does not change.                          *)
THEOREM ScanTyping == Spec => []TypeOK
<1>1. Typed => TypeOK
  BY DEF Typed
<1> QED
  BY <1>1, TypedInvariant, PTL

-----------------------------------------------------------------------------
(* The masks.                                                               *)
Masked ==
  LET result == WithoutComments(sql) IN
    /\ outcome = "unterminated" => pc = "ended" /\ tables = <<>> /\ ~ result.complete
    /\ pc # "clean" /\ outcome # "unterminated" =>
         result.complete /\ cleaned = result.text /\ quoted = QuotedMask(cleaned)

LEMMA MaskedStep ==
  ASSUME Typed, Masked, [Next]_vars
  PROVE  Masked'
<1> DEFINE result == WithoutComments(sql)
<1>0. outcome = "none" <=> pc # "ended"
  BY DEF Typed, TypeOK
<1>1. CASE Clean
  <2>1. sql' = sql /\ tables' = tables /\ tables = <<>> /\ pc = "clean"
    BY <1>1 DEF Clean, Typed
  <2>2. \/ ~ result.complete /\ pc' = "ended" /\ outcome' = "unterminated"
        \/ /\ result.complete /\ cleaned' = result.text /\ quoted' = QuotedMask(result.text)
           /\ pc' = "match" /\ outcome' = outcome
    BY <1>1 DEF Clean, Stop
  <2> HIDE DEF result
  <2>3. WithoutComments(sql)' = result
    BY <2>1, Zenon DEF result
  <2> QED
    BY <1>0, <2>1, <2>2, <2>3 DEF Masked
<1>2. CASE ParseStatement
  <2>1. pc = "match" /\ UNCHANGED <<sql, cleaned, quoted>>
    BY <1>2, RoundOf
  <2>2. (pc' = "ended" /\ outcome' # "unterminated") \/ UNCHANGED <<pc, outcome>>
    BY <1>2, RoundOf DEF Refused, Refusals, Refuse, Stop, Adds
  <2>3. WithoutComments(sql)' = result /\ QuotedMask(cleaned)' = QuotedMask(cleaned)
    BY <2>1
  <2> HIDE DEF result
  <2> QED
    BY <1>0, <2>1, <2>2, <2>3 DEF Masked, result
<1>3. CASE SkipQuotedMatch \/ EndDocument \/ Finished \/ UNCHANGED vars
  <2>1. UNCHANGED <<sql, cleaned, quoted, tables>>
    BY <1>3 DEF SkipQuotedMatch, EndDocument, Finished, vars
  <2>2. (pc = "match" /\ pc' = "ended" /\ outcome' # "unterminated") \/ UNCHANGED <<pc, outcome>>
    BY <1>3 DEF SkipQuotedMatch, EndDocument, Finished, vars, Stop
  <2>3. WithoutComments(sql)' = result /\ QuotedMask(cleaned)' = QuotedMask(cleaned)
    BY <2>1
  <2> HIDE DEF result
  <2> QED
    BY <1>0, <2>1, <2>2, <2>3 DEF Masked, result
<1> QED
  BY <1>1, <1>2, <1>3 DEF Next

LEMMA MaskedInvariant == Spec => []Masked
<1>1. Init => Masked
  BY DEF Init, Masked
<1>2. Typed /\ Masked /\ [Next]_vars => Masked'
  BY MaskedStep
<1> QED
  BY <1>1, <1>2, TypedInvariant, PTL DEF Spec

LEMMA MaskedExactly ==
  ASSUME Typed, Masked
  PROVE  MasksAreExact
<1>1. sql \in Seq(Tokens)
  BY DEF Typed
<1>2. /\ (\E l \in Lexemes : l[2] = 0) <=> ~ WithoutComments(sql).complete
      /\ WithoutComments(sql).complete =>
           /\ QuotedMask(WithoutComments(sql).text) = InQuotes
           /\ WithoutComments(sql).text
                = [k \in DOMAIN sql |-> IF k \in Commented /\ sql[k] # "nl" THEN "blank" ELSE sql[k]]
  BY <1>1, WholeReading
<1>3. outcome = "none" <=> pc # "ended"
  BY DEF Typed, TypeOK
<1> HIDE DEF Typed
<1>4. /\ pc = "match" => WithoutComments(sql).complete /\ cleaned = WithoutComments(sql).text
                         /\ quoted = QuotedMask(cleaned)
      /\ pc = "ended" => (outcome = "unterminated" <=> ~ WithoutComments(sql).complete)
  BY <1>3 DEF Masked
<1> QED
  BY <1>2, <1>4, Zenon DEF MasksAreExact

(* The loops that go through the document token by token find the comments  *)
(* and the quotes that a reading by whole lexemes finds, and refuse exactly *)
(* the documents with a lexeme that has no end, whatever the document.      *)
THEOREM MasksFollowLexemes == Spec => []MasksAreExact
<1>1. Typed /\ Masked => MasksAreExact
  BY MaskedExactly
<1> QED
  BY <1>1, TypedInvariant, MaskedInvariant, PTL

-----------------------------------------------------------------------------
(* Text outside quotes.  The loops over one statement start in the middle   *)
(* of the document, at places that are outside quotes, and from there agree *)
(* with the loop that goes through all of it.                               *)
Free(text, k) == ScanStates(text, 1)[k] = Plain
Found(text, token) == {k \in DOMAIN text : Free(text, k) /\ text[k] = token}

LEMMA FreeOn ==
  ASSUME NEW text \in Seq(Tokens), NEW from \in 1..(Len(text) + 1), NEW to \in from..(Len(text) + 1),
         Free(text, from), \A j \in from..(to - 1) : text[j] \notin Quotes
  PROVE  \A j \in from..to : Free(text, j)
<1> DEFINE P == {j \in from..to : Free(text, j)}
<1>1. Len(text) \in Nat /\ from \in P /\ 1 \in 1..(Len(text) + 1)
  OBVIOUS
<1>2. ASSUME NEW j \in from..to, j # from, j - 1 \in P PROVE j \in P
  <2>1. j - 1 \in from..(to - 1) /\ j - 1 \in 1..Len(text) /\ (j - 1) + 1 = j
    BY <1>1, <1>2
  <2>2. ScanStates(text, 1)[j] = ScanStep(text, j - 1, Plain)
    <3>1. ScanStates(text, 1)[(j - 1) + 1] = ScanStep(text, j - 1, ScanStates(text, 1)[j - 1])
      BY <1>1, <2>1, ScanStatesRun
    <3>2. ScanStates(text, 1)[j - 1] = Plain
      BY <1>2 DEF Free
    <3> QED
      BY <2>1, <3>1, <3>2
  <2> QED
    BY <2>1, <2>2, PlainSteps DEF Free
<1> HIDE DEF P
<1>3. from..to \subseteq P
  <2>1. Hereditary(from, to, P)
    BY <1>1, <1>2 DEF Hereditary
  <2> QED
    BY <2>1, IntervalInduction
<1> QED
  BY <1>3 DEF P

LEMMA ScanFrom ==
  ASSUME NEW text \in Seq(Tokens), NEW from \in 1..(Len(text) + 1), Free(text, from)
  PROVE  \A k \in from..(Len(text) + 1) : ScanStates(text, from)[k] = ScanStates(text, 1)[k]
<1> DEFINE R == ScanStates(text, from)
           S == ScanStates(text, 1)
           P == {k \in from..(Len(text) + 1) : R[k] = S[k]}
<1>1. Len(text) \in Nat /\ 1 \in 1..(Len(text) + 1)
  OBVIOUS
<1>2. from \in P
  <2>1. R[from] = Plain
    BY ScanStatesRun
  <2> QED
    BY <1>1, <2>1 DEF Free
<1>3. ASSUME NEW k \in from..(Len(text) + 1), k # from, k - 1 \in P PROVE k \in P
  <2>1. k - 1 \in from..Len(text) /\ k - 1 \in 1..Len(text) /\ (k - 1) + 1 = k
    BY <1>1, <1>3
  <2>2. R[k] = ScanStep(text, k - 1, R[k - 1])
    BY <2>1, ScanStatesRun
  <2>3. S[k] = ScanStep(text, k - 1, S[k - 1])
    BY <1>1, <2>1, ScanStatesRun
  <2> HIDE DEF R, S
  <2> QED
    BY <1>3, <2>2, <2>3
<1> HIDE DEF P
<1>4. from..(Len(text) + 1) \subseteq P
  <2>1. Hereditary(from, Len(text) + 1, P)
    BY <1>1, <1>2, <1>3 DEF Hereditary
  <2> QED
    BY <2>1, IntervalInduction
<1> QED
  BY <1>4 DEF P

LEMMA BlanksSkipped ==
  ASSUME NEW text \in Seq(Tokens), NEW k \in 1..(Len(text) + 1)
  PROVE  /\ SkipBlanks(text, k) \in k..(Len(text) + 1)
         /\ \A j \in k..(SkipBlanks(text, k) - 1) : text[j] \in Blanks
         /\ At(text, k) \notin Blanks => SkipBlanks(text, k) = k
<1> DEFINE S == {l \in k..(Len(text) + 1) : At(text, l) \notin Blanks}
           l == SkipBlanks(text, k)
<1>1. Len(text) \in Nat /\ \A j \in 1..Len(text) : At(text, j) = text[j]
  BY DEF At
<1>2. Len(text) + 1 \in S
  BY <1>1 DEF At, Blanks
<1>3. S \subseteq Nat /\ l = Least(S)
  BY DEF SkipBlanks
<1>4. l \in S /\ \A j \in S : l <= j
  <2> HIDE DEF S, l
  <2> QED
    BY <1>2, <1>3, LeastIs
<1>5. ASSUME At(text, k) \notin Blanks PROVE l = k
  <2>1. k \in S /\ l >= k /\ l \in Int /\ k \in Int
    BY <1>1, <1>4, <1>5
  <2>2. l <= k
    BY <1>4, <2>1
  <2> QED
    BY <2>1, <2>2
<1>6. ASSUME NEW j \in k..(l - 1) PROVE text[j] \in Blanks
  <2> HIDE DEF l
  <2>1. j \in k..(Len(text) + 1) /\ j \in 1..Len(text) /\ j < l
    BY <1>1, <1>4
  <2>2. j \notin S
    BY <1>4, <2>1
  <2> QED
    BY <1>1, <2>1, <2>2
<1> QED
  BY <1>4, <1>5, <1>6

(* Names in backquotes.                                                     *)
PairedEquation(text, k, paired) ==
  paired = [l \in k..Len(text) |->
              l = k \/ (text[l] # "backquote" /\ paired[l - 1])
                    \/ (l > k + 1 /\ text[l] = "backquote" /\ text[l - 1] = "backquote" /\ paired[l - 2])]
Paired(text, k) == CHOOSE paired : PairedEquation(text, k, paired)

LEMMA PairedRun ==
  ASSUME NEW text \in Seq(Tokens), NEW k \in 1..Len(text)
  PROVE  \A l \in k..Len(text) : Paired(text, k)[l] =>
           l = k \/ (text[l] # "backquote" /\ Paired(text, k)[l - 1])
                 \/ (l > k + 1 /\ text[l] = "backquote" /\ text[l - 1] = "backquote"
                     /\ Paired(text, k)[l - 2])
<1> DEFINE D == k..Len(text)
           A == [D -> BOOLEAN]
           value(l, g) == l = k \/ (text[l] # "backquote" /\ g[l - 1])
                 \/ (l > k + 1 /\ text[l] = "backquote" /\ text[l - 1] = "backquote" /\ g[l - 2])
           rank == [l \in D |-> l - k]
           F == [l \in D |-> [g \in A |-> value(l, g)]]
           bound == Len(text) + 1
<1>1. Len(text) \in Nat
  OBVIOUS
<1>2. rank \in [D -> Nat] /\ bound \in Nat /\ \A l \in D : rank[l] < bound
  BY <1>1
<1>3. F \in [D -> [A -> BOOLEAN]]
  <2>1. \A l \in D, g \in A : value(l, g) \in BOOLEAN
    BY Zenon
  <2> HIDE DEF value, D, A
  <2> QED
    BY <2>1
<1>4. ASSUME NEW l \in D, NEW g \in A, NEW h \in A, \A j \in D : rank[j] < rank[l] => g[j] = h[j]
      PROVE  F[l][g] = F[l][h]
  <2>1. l # k => l - 1 \in D /\ rank[l - 1] < rank[l]
    BY <1>1
  <2>2. l > k + 1 => l - 2 \in D /\ rank[l - 2] < rank[l]
    BY <1>1
  <2>3. (l # k => g[l - 1] = h[l - 1]) /\ (l > k + 1 => g[l - 2] = h[l - 2])
    <3> HIDE DEF rank, D
    <3> QED
      BY <1>4, <2>1, <2>2
  <2>4. value(l, g) = value(l, h)
    BY <2>3, Zenon
  <2> HIDE DEF value, D, A
  <2> QED
    BY <2>4
<1>5. PICK f \in A : \A l \in D : f[l] = F[l][f]
  <2>1. \A l \in D : \A g, h \in A : (\A j \in D : rank[j] < rank[l] => g[j] = h[j]) => F[l][g] = F[l][h]
    <3> HIDE DEF F, rank, D, A
    <3> QED
      BY <1>4
  <2> HIDE DEF F, rank, D, bound
  <2>2. Recursive(D, BOOLEAN, rank, bound, F)
    BY <1>2, <1>3, <2>1 DEF Recursive
  <2>3. BOOLEAN # {}
    OBVIOUS
  <2> QED
    BY <2>2, <2>3, Recursion
<1>6. PairedEquation(text, k, f)
  <2>1. \A l \in D : f[l] = value(l, f)
    <3> HIDE DEF D, A, value
    <3> QED
      BY <1>5
  <2>2. f = [l \in D |-> value(l, f)]
    <3> HIDE DEF D, value
    <3> QED
      BY <2>1
  <2> QED
    BY <2>2, Zenon DEF PairedEquation
<1>7. PairedEquation(text, k, Paired(text, k))
  BY <1>6, Zenon DEF Paired
<1> DEFINE p == Paired(text, k)
<1>8. p = [l \in D |-> value(l, p)]
  BY <1>7, Zenon DEF PairedEquation
<1> HIDE DEF p
<1>9. \A l \in D : p[l] = value(l, p)
  <2> HIDE DEF value, D
  <2> QED
    BY <1>8
<1> QED
  BY <1>9, Zenon DEF p

LEMMA NameSteps ==
  ASSUME NEW text, NEW k
  PROVE  /\ ScanStep(text, k, Quote("backquote", TRUE)) = Quote("backquote", FALSE)
         /\ text[k] # "backquote" =>
              ScanStep(text, k, Quote("backquote", FALSE)) = Quote("backquote", FALSE)
         /\ text[k] = "backquote" =>
              ScanStep(text, k, Quote("backquote", FALSE))
                = IF At(text, k + 1) = "backquote" THEN Quote("backquote", TRUE) ELSE Plain
<1> DEFINE q == "backquote"
           step(b) == IF b THEN Quote(q, FALSE)
             ELSE IF text[k] = q THEN IF At(text, k + 1) = q THEN Quote(q, TRUE) ELSE Plain
             ELSE Quote(q, q # "backquote" /\ text[k] = "escape" /\ k < Len(text))
<1>1. q \in Quotes /\ TRUE \in BOOLEAN /\ FALSE \in BOOLEAN
  BY DEF Quotes
<1>2. \A b \in BOOLEAN : ScanStep(text, k, Quote(q, b)) = step(b)
  BY <1>1, QuoteSteps, Zenon
<1>3. ScanStep(text, k, Quote(q, TRUE)) = step(TRUE) /\ ScanStep(text, k, Quote(q, FALSE)) = step(FALSE)
  <2> HIDE DEF step
  <2> QED
    BY <1>1, <1>2, Zenon
<1>4. Quote(q, q # "backquote" /\ text[k] = "escape" /\ k < Len(text)) = Quote(q, FALSE)
  OBVIOUS
<1> QED
  BY <1>3, <1>4, Zenon

(* A state in a name is the quote alone after every whole piece of it.      *)
LEMMA PairedStates ==
  ASSUME NEW text \in Seq(Tokens), NEW k \in 1..Len(text), Free(text, k), text[k] = "backquote"
  PROVE  \A l \in k..Len(text) : Paired(text, k)[l] =>
           /\ ScanStates(text, 1)[l + 1] = Quote("backquote", FALSE)
           /\ \A j \in (k + 1)..(l + 1) : ~ Free(text, j)
<1> DEFINE S == ScanStates(text, 1)
           q == "backquote"
           In(l) == S[l + 1] = Quote(q, FALSE) /\ \A j \in (k + 1)..(l + 1) : ~ Free(text, j)
           D == k..Len(text)
           P == {l \in D : \A j \in D : j <= l /\ Paired(text, k)[j] => In(j)}
<1>1. Len(text) \in Nat /\ 1 \in 1..(Len(text) + 1) /\ q \in Quotes
  BY DEF Quotes
<1>2. \A l \in 1..Len(text) : S[l + 1] = ScanStep(text, l, S[l])
  BY <1>1, ScanStatesRun
<1>3. \A b \in BOOLEAN : Quote(q, b) # Plain
  BY DEF Quote, Plain
<1>4. \A l : Free(text, l) <=> S[l] = Plain
  BY DEF Free
<1> HIDE DEF S
<1>5. In(k)
  <2>1. S[k + 1] = Quote(q, FALSE)
    BY <1>1, <1>2, <1>4, PlainSteps
  <2>2. \A j \in (k + 1)..(k + 1) : j = k + 1
    OBVIOUS
  <2> QED
    BY <1>3, <1>4, <2>1, <2>2
<1>6. ASSUME NEW l \in D, l # k, Paired(text, k)[l], \A j \in D : j < l /\ Paired(text, k)[j] => In(j)
      PROVE  In(l)
  <2>1. l \in 1..Len(text) /\ l - 1 \in D /\ l - 1 < l /\ (l - 1) + 1 = l
    BY <1>1, <1>6
  <2>2. CASE text[l] # q /\ Paired(text, k)[l - 1]
    <3>1. In(l - 1)
      BY <1>6, <2>1, <2>2
    <3>2. S[l] = Quote(q, FALSE)
      BY <2>1, <3>1
    <3>3. S[l + 1] = Quote(q, FALSE)
      <4>1. S[l + 1] = ScanStep(text, l, Quote(q, FALSE))
        BY <1>2, <2>1, <3>2
      <4> QED
        BY <2>2, <4>1, NameSteps
    <3>4. \A j \in (k + 1)..(l + 1) : j \in (k + 1)..((l - 1) + 1) \/ j = l + 1
      BY <2>1
    <3> QED
      BY <1>3, <1>4, <3>1, <3>3, <3>4
  <2>3. CASE l > k + 1 /\ text[l] = q /\ text[l - 1] = q /\ Paired(text, k)[l - 2]
    <3>1. l - 2 \in D /\ l - 2 < l /\ (l - 2) + 1 = l - 1 /\ l - 1 \in 1..Len(text)
      BY <1>1, <2>1, <2>3
    <3>2. In(l - 2)
      BY <1>6, <2>3, <3>1
    <3>3. S[l - 1] = Quote(q, FALSE) /\ At(text, (l - 1) + 1) = q
      <4>1. S[l - 1] = Quote(q, FALSE)
        BY <3>1, <3>2
      <4>2. At(text, l) = q
        BY <2>1, <2>3 DEF At
      <4> QED
        BY <2>1, <4>1, <4>2
    <3>4. S[l] = Quote(q, TRUE)
      <4>1. S[l] = ScanStep(text, l - 1, Quote(q, FALSE))
        BY <1>2, <2>1, <3>1, <3>3
      <4> QED
        BY <2>3, <3>3, <4>1, NameSteps
    <3>5. S[l + 1] = Quote(q, FALSE)
      <4>1. S[l + 1] = ScanStep(text, l, Quote(q, TRUE))
        BY <1>2, <2>1, <3>4
      <4> QED
        BY <4>1, NameSteps
    <3>6. \A j \in (k + 1)..(l + 1) : j \in (k + 1)..((l - 2) + 1) \/ j = l \/ j = l + 1
      BY <2>1, <3>1
    <3>7. ~ Free(text, l) /\ ~ Free(text, l + 1)
      BY <1>3, <1>4, <3>4, <3>5
    <3> QED
      BY <3>2, <3>5, <3>6, <3>7
  <2> QED
    BY <1>6, <2>2, <2>3, PairedRun, Zenon
<1> HIDE DEF In
<1>7. k \in P
  <2>1. \A j \in D : j <= k => j = k
    BY <1>1
  <2> QED
    BY <1>1, <1>5, <2>1
<1>8. ASSUME NEW l \in D, l # k, l - 1 \in P PROVE l \in P
  <2>1. \A j \in D : j < l => j <= l - 1
    BY <1>1
  <2>2. \A j \in D : j < l /\ Paired(text, k)[j] => In(j)
    BY <1>8, <2>1
  <2>3. Paired(text, k)[l] => In(l)
    BY <1>6, <1>8, <2>2
  <2>4. \A j \in D : j <= l => j < l \/ j = l
    BY <1>1
  <2> QED
    BY <2>2, <2>3, <2>4
<1> HIDE DEF P
<1>9. D \subseteq P
  <2>1. Hereditary(k, Len(text), P)
    BY <1>1, <1>7, <1>8 DEF Hereditary
  <2> QED
    BY <2>1, IntervalInduction
<1>10. \A l \in D : l <= l
  BY <1>1
<1>11. \A l \in D : Paired(text, k)[l] => In(l)
  BY <1>9, <1>10 DEF P
<1> QED
  BY <1>11 DEF In, S

(* What may stand between CREATE TABLE and the parenthesis.                 *)
Harmless(text, j) == \/ text[j] \in {"word", "dot"} \cup Blanks \cup Quotes
                     \/ ~ Free(text, j)

LEMMA NameIs ==
  ASSUME NEW text \in Seq(Tokens), NEW b \in 1..(Len(text) + 1), Free(text, b),
         NEW e \in IdentifierEnds(text, b), At(text, e) # "backquote"
  PROVE  /\ e \in (b + 1)..(Len(text) + 1) /\ Free(text, e)
         /\ \A j \in b..(e - 1) : Harmless(text, j)
<1> DEFINE q == "backquote"
           ends == {l \in (b + 2)..Len(text) : text[l] = q}
           S == ScanStates(text, 1)
<1>1. Len(text) \in Nat /\ 1 \in 1..(Len(text) + 1)
  OBVIOUS
<1>2. \/ At(text, b) = "word" /\ e = b + 1
      \/ At(text, b) = q /\ \E l \in ends : Paired(text, b)[l - 1] /\ e = l + 1
  <2> DEFINE named == {l + 1 : l \in {l \in ends : Paired(text, b)[l - 1]}}
  <2>1. e \in CASE At(text, b) = "word" -> {b + 1} [] At(text, b) = q -> named [] OTHER -> {}
    BY Zenon DEF IdentifierEnds, Paired, PairedEquation
  <2>2. e \in named => \E l \in ends : Paired(text, b)[l - 1] /\ e = l + 1
    OBVIOUS
  <2>3. "word" # q
    OBVIOUS
  <2> HIDE DEF named
  <2> QED
    BY <2>1, <2>2, <2>3
<1>3. b \in 1..Len(text) /\ text[b] = At(text, b)
  BY <1>1, <1>2 DEF At
<1>4. \A l \in 1..Len(text) : S[l + 1] = ScanStep(text, l, S[l])
  BY <1>1, ScanStatesRun
<1>5. \A l : Free(text, l) <=> S[l] = Plain
  BY DEF Free
<1> HIDE DEF S
<1>6. CASE At(text, b) = "word" /\ e = b + 1
  <2>1. S[b + 1] = Plain
    <3>1. "word" \notin Quotes
      BY DEF Quotes
    <3> QED
      BY <1>3, <1>4, <1>5, <1>6, <3>1, PlainSteps
  <2>2. \A j \in b..(e - 1) : j = b
    BY <1>6
  <2>3. Harmless(text, b)
    BY <1>3, <1>6 DEF Harmless
  <2> QED
    BY <1>1, <1>3, <1>5, <1>6, <2>1, <2>2, <2>3
<1>7. ASSUME At(text, b) = q, NEW l \in ends, Paired(text, b)[l - 1], e = l + 1
      PROVE  /\ e \in (b + 1)..(Len(text) + 1) /\ Free(text, e)
             /\ \A j \in b..(e - 1) : Harmless(text, j)
  <2>1. l \in (b + 2)..Len(text) /\ text[l] = q /\ l - 1 \in b..Len(text) /\ (l - 1) + 1 = l
        /\ l \in 1..Len(text)
    BY <1>1, <1>3, <1>7
  <2>2. S[l] = Quote(q, FALSE) /\ \A j \in (b + 1)..l : ~ Free(text, j)
    <3>1. /\ ScanStates(text, 1)[(l - 1) + 1] = Quote("backquote", FALSE)
          /\ \A j \in (b + 1)..((l - 1) + 1) : ~ Free(text, j)
      BY <1>3, <1>7, <2>1, PairedStates
    <3> QED
      BY <2>1, <3>1 DEF S
  <2>3. S[l + 1] = Plain
    <3>1. S[l + 1] = ScanStep(text, l, Quote(q, FALSE))
      BY <1>4, <2>1, <2>2
    <3> QED
      BY <1>7, <2>1, <3>1, NameSteps
  <2>4. \A j \in b..(e - 1) : j = b \/ j \in (b + 1)..l
    BY <1>3, <1>7, <2>1
  <2>5. Harmless(text, b)
    BY <1>3, <1>7 DEF Harmless, Quotes
  <2>6. e \in (b + 1)..(Len(text) + 1)
    BY <1>1, <1>3, <1>7, <2>1
  <2> QED
    BY <1>5, <1>7, <2>2, <2>3, <2>4, <2>5, <2>6 DEF Harmless
<1> QED
  BY <1>2, <1>6, <1>7

(* From a position outside quotes over blanks. *)
LEMMA BlanksFree ==
  ASSUME NEW text \in Seq(Tokens), NEW k \in 1..(Len(text) + 1), Free(text, k)
  PROVE  /\ SkipBlanks(text, k) \in k..(Len(text) + 1)
         /\ Free(text, SkipBlanks(text, k))
         /\ \A j \in k..(SkipBlanks(text, k) - 1) : Harmless(text, j)
<1> DEFINE l == SkipBlanks(text, k)
<1>1. l \in k..(Len(text) + 1) /\ \A j \in k..(l - 1) : text[j] \in Blanks
  BY BlanksSkipped
<1>2. Blanks \cap Quotes = {}
  BY DEF Blanks, Quotes
<1> HIDE DEF l
<1>3. \A j \in k..l : Free(text, j)
  BY <1>1, <1>2, FreeOn
<1>4. l \in k..l
  BY <1>1
<1> QED
  BY <1>1, <1>3, <1>4 DEF l, Harmless

LEMMA NameAndBlanks ==
  ASSUME NEW text \in Seq(Tokens), NEW k \in 1..(Len(text) + 1), Free(text, k),
         NEW e \in IdentifierEnds(text, SkipBlanks(text, k)),
         NEW token \in {"dot", "("}, At(text, SkipBlanks(text, e)) = token
  PROVE  /\ SkipBlanks(text, e) \in (k + 1)..Len(text)
         /\ Free(text, SkipBlanks(text, e)) /\ text[SkipBlanks(text, e)] = token
         /\ \A j \in k..(SkipBlanks(text, e) - 1) : Harmless(text, j)
<1> DEFINE b == SkipBlanks(text, k)
           o == SkipBlanks(text, e)
<1>1. /\ b \in k..(Len(text) + 1) /\ Free(text, b)
      /\ \A j \in k..(b - 1) : Harmless(text, j)
  BY BlanksFree
<1>2. At(text, e) # "backquote"
  <2> SUFFICES ASSUME At(text, e) = "backquote" PROVE FALSE
    OBVIOUS
  <2>1. At(text, e) \notin Blanks
    BY DEF Blanks
  <2>2. e \in 1..Len(text)
    BY DEF At
  <2>3. e \in 1..(Len(text) + 1)
    BY <2>2
  <2>4. o = e
    BY <2>1, <2>3, BlanksSkipped
  <2> QED
    BY <2>4
<1> HIDE DEF b
<1>3. /\ e \in (b + 1)..(Len(text) + 1) /\ Free(text, e)
      /\ \A j \in b..(e - 1) : Harmless(text, j)
  BY <1>1, <1>2, NameIs DEF b
<1>4. Len(text) \in Nat /\ e \in 1..(Len(text) + 1)
  BY <1>1, <1>3
<1>5. /\ o \in e..(Len(text) + 1) /\ Free(text, o)
      /\ \A j \in e..(o - 1) : Harmless(text, j)
  BY <1>3, <1>4, BlanksFree
<1>6. o \in 1..Len(text) /\ text[o] = token
  BY AtPosition
<1> HIDE DEF o
<1>7. ASSUME NEW j \in k..(o - 1) PROVE Harmless(text, j)
  <2>1. j \in k..(b - 1) \/ j \in b..(e - 1) \/ j \in e..(o - 1)
    BY <1>1, <1>3, <1>5
  <2> QED
    BY <1>1, <1>3, <1>5, <2>1
<1>8. o \in (k + 1)..Len(text)
  BY <1>1, <1>3, <1>4, <1>5, <1>6
<1> QED
  BY <1>5, <1>6, <1>7, <1>8 DEF o

LEMMA Header ==
  ASSUME NEW text \in Seq(Tokens), NEW k \in 1..Len(text), Free(text, k), text[k] = "create",
         NEW o \in Openings(text, k)
  PROVE  /\ o \in (k + 1)..Len(text) /\ Free(text, o) /\ text[o] = "("
         /\ \A j \in (k + 1)..(o - 1) : Harmless(text, j)
<1> DEFINE first  == IdentifierEnds(text, SkipBlanks(text, k + 1))
           dots   == {d \in {SkipBlanks(text, e) : e \in first} : At(text, d) = "dot"}
           second == UNION {IdentifierEnds(text, SkipBlanks(text, d + 1)) : d \in dots}
<1>1. Len(text) \in Nat /\ k + 1 \in 1..(Len(text) + 1)
  OBVIOUS
<1>2. Free(text, k + 1)
  <2>1. "create" \notin Quotes /\ 1 \in 1..(Len(text) + 1) /\ k \in 1..Len(text)
    BY <1>1 DEF Quotes
  <2>2. ScanStates(text, 1)[k + 1] = ScanStep(text, k, ScanStates(text, 1)[k])
    BY <2>1, ScanStatesRun
  <2> QED
    BY <2>1, <2>2, PlainSteps DEF Free
<1>3. \E e \in first \cup second : o = SkipBlanks(text, e) /\ At(text, o) = "("
  <2>1. o \in {o1 \in {SkipBlanks(text, e) : e \in first \cup second} : At(text, o1) = "("}
    BY DEF Openings
  <2> HIDE DEF first, second
  <2> QED
    BY <2>1
<1>4. CASE \E e \in first : o = SkipBlanks(text, e) /\ At(text, o) = "("
  <2>1. PICK e \in first : o = SkipBlanks(text, e) /\ At(text, o) = "("
    BY <1>4
  <2>2. /\ o \in ((k + 1) + 1)..Len(text) /\ Free(text, o) /\ text[o] = "("
        /\ \A j \in (k + 1)..(o - 1) : Harmless(text, j)
    BY <1>1, <1>2, <2>1, NameAndBlanks
  <2> QED
    BY <1>1, <2>2
<1>5. CASE \E e \in second : o = SkipBlanks(text, e) /\ At(text, o) = "("
  <2>1. PICK e \in second : o = SkipBlanks(text, e) /\ At(text, o) = "("
    BY <1>5
  <2>2. PICK d \in dots : e \in IdentifierEnds(text, SkipBlanks(text, d + 1))
    BY <2>1
  <2>3. PICK e1 \in first : d = SkipBlanks(text, e1) /\ At(text, d) = "dot"
    BY <2>2
  <2>4. /\ d \in ((k + 1) + 1)..Len(text) /\ Free(text, d) /\ text[d] = "dot"
        /\ \A j \in (k + 1)..(d - 1) : Harmless(text, j)
    BY <1>1, <1>2, <2>3, NameAndBlanks
  <2>5. d \in 1..Len(text) /\ d + 1 \in 1..(Len(text) + 1)
    BY <1>1, <2>4
  <2>6. Free(text, d + 1)
    <3>1. "dot" \notin Quotes /\ 1 \in 1..(Len(text) + 1)
      BY <1>1 DEF Quotes
    <3>2. ScanStates(text, 1)[d + 1] = ScanStep(text, d, ScanStates(text, 1)[d])
      BY <2>5, <3>1, ScanStatesRun
    <3> QED
      BY <2>4, <3>1, <3>2, PlainSteps DEF Free
  <2>7. /\ o \in ((d + 1) + 1)..Len(text) /\ Free(text, o) /\ text[o] = "("
        /\ \A j \in (d + 1)..(o - 1) : Harmless(text, j)
    BY <2>1, <2>2, <2>5, <2>6, NameAndBlanks
  <2>8. Harmless(text, d)
    BY <2>4 DEF Harmless
  <2>9. ASSUME NEW j \in (k + 1)..(o - 1) PROVE Harmless(text, j)
    <3>1. j \in (k + 1)..(d - 1) \/ j = d \/ j \in (d + 1)..(o - 1)
      BY <1>1, <2>4, <2>7
    <3> QED
      BY <2>4, <2>7, <2>8, <3>1
  <2> QED
    BY <1>1, <2>4, <2>7, <2>9
<1> QED
  BY <1>3, <1>4, <1>5

-----------------------------------------------------------------------------
(* The levels, and the depth in parentheses as a count.                     *)
LevelStates == [scan : States, round : Int, angle : Int, from : Int]
LevelStart(from) == [scan |-> Plain, round |-> 0, angle |-> 0, from |-> from]
LevelEquation(text, from, level) ==
  level = [k \in from..(Len(text) + 1) |->
             IF k = from THEN LevelStart(from) ELSE LevelStep(text, k - 1, level[k - 1])]
LevelsOf(text, from) == CHOOSE level : LevelEquation(text, from, level)

LEMMA TurnIs ==
  /\ Turn("(") = 1 /\ Turn(")") = -1
  /\ \A token : token \notin {"(", ")"} => Turn(token) = 0
  /\ \A token : Turn(token) \in {-1, 0, 1}
  BY DEF Turn

LEMMA LevelStepIs ==
  ASSUME NEW text \in Seq(Tokens), NEW k \in 1..Len(text), NEW l \in LevelStates
  PROVE  /\ LevelStep(text, k, l) \in LevelStates
         /\ LevelStep(text, k, l).scan = ScanStep(text, k, l.scan)
         /\ LevelStep(text, k, l).round = IF l.scan = Plain THEN l.round + Turn(text[k]) ELSE l.round
         /\ LevelStep(text, k, l).from
              = IF l.scan = Plain /\ text[k] = "comma" /\ l.round = 0 /\ l.angle = 0 THEN k + 1 ELSE l.from
<1> DEFINE flat(token) == l.scan = Plain /\ text[k] = token /\ l.round = 0
           scan  == ScanStep(text, k, l.scan)
           round == IF l.scan = Plain THEN l.round + Turn(text[k]) ELSE l.round
           angle == CASE flat("<") -> l.angle + 1
                      [] flat(">") /\ l.angle > 0 -> l.angle - 1
                      [] OTHER -> l.angle
           from  == IF flat("comma") /\ l.angle = 0 THEN k + 1 ELSE l.from
<1>1. LevelStep(text, k, l) = [scan |-> scan, round |-> round, angle |-> angle, from |-> from]
  BY Zenon DEF LevelStep
<1>2. l.scan \in States /\ l.round \in Int /\ l.angle \in Int /\ l.from \in Int
  BY DEF LevelStates
<1>3. scan \in States
  BY <1>2, StepTypes
<1>4. round \in Int
  BY <1>2, TurnIs
<1>5. angle \in Int
  BY <1>2
<1>6. from \in Int
  BY <1>2
<1>7. flat("comma") /\ l.angle = 0
        <=> l.scan = Plain /\ text[k] = "comma" /\ l.round = 0 /\ l.angle = 0
  OBVIOUS
<1>8. from = IF l.scan = Plain /\ text[k] = "comma" /\ l.round = 0 /\ l.angle = 0 THEN k + 1 ELSE l.from
  BY <1>7
<1> HIDE DEF scan, round, angle, from
<1> QED
  BY <1>1, <1>3, <1>4, <1>5, <1>6, <1>8 DEF LevelStates, scan, round

LEMMA LevelsRun ==
  ASSUME NEW text \in Seq(Tokens), NEW from \in 1..(Len(text) + 1)
  PROVE  /\ Levels(text, from) \in [from..(Len(text) + 1) -> LevelStates]
         /\ Levels(text, from)[from] = LevelStart(from)
         /\ \A k \in from..Len(text) :
              Levels(text, from)[k + 1] = LevelStep(text, k, Levels(text, from)[k])
<1> DEFINE D == from..(Len(text) + 1)
           next == [k \in D |-> [s \in LevelStates |-> IF k = from THEN s ELSE LevelStep(text, k - 1, s)]]
           C == LevelsOf(text, from)
           first == LevelStart(from)
<1>1. Len(text) \in Nat /\ first \in LevelStates /\ from \in D /\ from <= Len(text) + 1
  BY DEF Plain, States, LevelStates, LevelStart
<1>2. ASSUME NEW k \in D, NEW s \in LevelStates
      PROVE  (IF k = from THEN s ELSE LevelStep(text, k - 1, s)) \in LevelStates
  <2>1. k # from => k - 1 \in 1..Len(text)
    BY <1>1
  <2> QED
    BY <2>1, LevelStepIs
<1> HIDE DEF first
<1>3. next \in [D -> [LevelStates -> LevelStates]]
  <2> HIDE DEF D
  <2> QED
    BY <1>2
<1>4. Iterates(from, Len(text) + 1, LevelStates, first, next)
  <2> HIDE DEF next
  <2> QED
    BY <1>1, <1>3 DEF Iterates
<1>5. PICK state \in [D -> LevelStates] :
        \A k \in D : state[k] = IF k = from THEN first ELSE next[k][state[k - 1]]
  <2> HIDE DEF next
  <2> QED
    BY <1>4, Iteration
<1>6. ASSUME NEW k \in D, k # from PROVE k - 1 \in D /\ state[k - 1] \in LevelStates
  BY <1>1, <1>6
<1>7. \A k \in D : state[k] = IF k = from THEN first ELSE LevelStep(text, k - 1, state[k - 1])
  <2> HIDE DEF D
  <2> QED
    BY <1>5, <1>6
<1>8. LevelEquation(text, from, state)
  <2> HIDE DEF next
  <2> QED
    BY <1>7 DEF LevelEquation, first
<1>9. LevelEquation(text, from, C)
  BY <1>8, Zenon DEF LevelsOf
<1> HIDE DEF C, next
<1>10. \A k \in D : C[k] = IF k = from THEN first ELSE LevelStep(text, k - 1, C[k - 1])
  BY <1>9 DEF LevelEquation, first
<1>11. ASSUME NEW k \in D, k # from, C[k - 1] \in LevelStates PROVE C[k] = next[k][C[k - 1]]
  <2>1. C[k] = LevelStep(text, k - 1, C[k - 1])
    BY <1>10, <1>11
  <2> QED
    BY <1>11, <2>1 DEF next
<1>12. C \in [D -> LevelStates]
  <2>1. C = [k \in D |-> C[k]]
    BY <1>9, <1>10 DEF LevelEquation, first
  <2>2. C[from] = first
    BY <1>1, <1>10
  <2>3. Unrolls(from, Len(text) + 1, LevelStates, first, next, C)
    BY <1>4, <1>11, <2>1, <2>2 DEF Unrolls
  <2> QED
    BY <2>3, Unrolling
<1>13. C[from] = first
  BY <1>1, <1>10
<1>14. ASSUME NEW k \in from..Len(text) PROVE C[k + 1] = LevelStep(text, k, C[k])
  <2>1. k + 1 \in D /\ k + 1 # from /\ (k + 1) - 1 = k
    BY <1>1
  <2> QED
    BY <1>10, <2>1
<1>15. Levels(text, from) = [k \in D |-> C[k]]
  BY Zenon DEF Levels, LevelsOf, LevelEquation, LevelStart, C
<1>16. Levels(text, from) = C
  <2> HIDE DEF D
  <2> QED
    BY <1>12, <1>15
<1> QED
  BY <1>12, <1>13, <1>14, <1>16 DEF first

LEMMA LevelsScan ==
  ASSUME NEW text \in Seq(Tokens), NEW from \in 1..(Len(text) + 1)
  PROVE  \A k \in from..(Len(text) + 1) : Levels(text, from)[k].scan = ScanStates(text, from)[k]
<1> DEFINE L == Levels(text, from)
           S == ScanStates(text, from)
           P == {k \in from..(Len(text) + 1) : L[k].scan = S[k]}
<1>1. Len(text) \in Nat
  OBVIOUS
<1>2. from \in P
  <2>1. L[from] = LevelStart(from) /\ S[from] = Plain
    BY LevelsRun, ScanStatesRun
  <2> HIDE DEF L, S
  <2> QED
    BY <1>1, <2>1 DEF LevelStart
<1>3. ASSUME NEW k \in from..(Len(text) + 1), k # from, k - 1 \in P PROVE k \in P
  <2>1. k - 1 \in from..Len(text) /\ k - 1 \in 1..Len(text) /\ (k - 1) + 1 = k
        /\ k - 1 \in from..(Len(text) + 1)
    BY <1>1, <1>3
  <2>2. L[(k - 1) + 1] = LevelStep(text, k - 1, L[k - 1]) /\ L[k - 1] \in LevelStates
    BY <2>1, LevelsRun
  <2>3. S[(k - 1) + 1] = ScanStep(text, k - 1, S[k - 1])
    BY <2>1, ScanStatesRun
  <2> HIDE DEF L, S
  <2>4. L[k].scan = ScanStep(text, k - 1, L[k - 1].scan)
    BY <2>1, <2>2, LevelStepIs, SMTT(20)
  <2> QED
    BY <1>3, <2>1, <2>3, <2>4
<1> HIDE DEF P
<1>4. from..(Len(text) + 1) \subseteq P
  <2>1. Hereditary(from, Len(text) + 1, P)
    BY <1>1, <1>2, <1>3 DEF Hereditary
  <2> QED
    BY <2>1, IntervalInduction
<1> QED
  BY <1>4 DEF P

Deep(text, from, to) ==
  Cardinality(Found(text, "(") \cap (from..to)) - Cardinality(Found(text, ")") \cap (from..to))

LEMMA CountSplit ==
  ASSUME NEW S, NEW a \in Int, NEW b \in Int, NEW c \in Int, a <= b + 1, b <= c
  PROVE  /\ Cardinality(S \cap (a..c)) = Cardinality(S \cap (a..b)) + Cardinality(S \cap ((b + 1)..c))
         /\ Cardinality(S \cap (a..c)) \in Nat
         /\ Cardinality(S \cap (a..b)) \in Nat
         /\ Cardinality(S \cap ((b + 1)..c)) \in Nat
<1> DEFINE T == S \cap (a..b)
           U == S \cap ((b + 1)..c)
<1>1. IsFiniteSet(S \cap (a..c)) /\ IsFiniteSet(T) /\ IsFiniteSet(U)
  <2>1. IsFiniteSet(a..b) /\ IsFiniteSet((b + 1)..c) /\ IsFiniteSet(a..c)
    BY FS_Interval
  <2> QED
    BY <2>1, FS_Intersection
<1>2. S \cap (a..c) = T \cup U /\ T \cap U = {}
  <2>1. \A x : x \in a..c <=> x \in a..b \/ x \in (b + 1)..c
    OBVIOUS
  <2>2. \A x : ~ (x \in a..b /\ x \in (b + 1)..c)
    OBVIOUS
  <2> QED
    BY <2>1, <2>2
<1> HIDE DEF T, U
<1>3. Cardinality(T \cup U) = Cardinality(T) + Cardinality(U) - 0
  BY <1>1, <1>2, FS_Union, FS_EmptySet
<1>4. Cardinality(T) \in Nat /\ Cardinality(U) \in Nat /\ Cardinality(S \cap (a..c)) \in Nat
  BY <1>1, FS_CardinalityType
<1>5. Cardinality(S \cap (a..c)) = Cardinality(T) + Cardinality(U)
  <2>1. Cardinality(S \cap (a..c)) = Cardinality(T \cup U)
    BY <1>2
  <2> QED
    BY <1>3, <1>4, <2>1
<1> QED
  BY <1>4, <1>5 DEF T, U

LEMMA CountOne ==
  ASSUME NEW S, NEW k \in Int
  PROVE  /\ Cardinality(S \cap (k..k)) = IF k \in S THEN 1 ELSE 0
         /\ \A j \in Int : j < k => Cardinality(S \cap (k..j)) = 0
<1>1. S \cap (k..k) = IF k \in S THEN {k} ELSE {}
  <2>1. k..k = {k}
    OBVIOUS
  <2> QED
    BY <2>1
<1>2. \A j \in Int : j < k => S \cap (k..j) = {}
  <2>1. \A j \in Int : j < k => k..j = {}
    OBVIOUS
  <2> QED
    BY <2>1
<1> QED
  BY <1>1, <1>2, FS_EmptySet, FS_Singleton

LEMMA DeepSplit ==
  ASSUME NEW text, NEW a \in Int, NEW b \in Int, NEW c \in Int, a <= b + 1, b <= c
  PROVE  /\ Deep(text, a, c) = Deep(text, a, b) + Deep(text, b + 1, c)
         /\ Deep(text, a, b) \in Int /\ Deep(text, a, c) \in Int /\ Deep(text, b + 1, c) \in Int
<1> DEFINE count(token, from, to) == Cardinality(Found(text, token) \cap (from..to))
<1>1. \A token : /\ count(token, a, c) = count(token, a, b) + count(token, b + 1, c)
                 /\ count(token, a, c) \in Nat /\ count(token, a, b) \in Nat
                 /\ count(token, b + 1, c) \in Nat
  <2> TAKE token
  <2> DEFINE S == Found(text, token)
  <2>1. /\ Cardinality(S \cap (a..c)) = Cardinality(S \cap (a..b)) + Cardinality(S \cap ((b + 1)..c))
        /\ Cardinality(S \cap (a..c)) \in Nat
        /\ Cardinality(S \cap (a..b)) \in Nat
        /\ Cardinality(S \cap ((b + 1)..c)) \in Nat
    <3> HIDE DEF S
    <3> QED
      BY CountSplit
  <2> QED
    BY <2>1
<1>2. \A from, to : Deep(text, from, to) = count("(", from, to) - count(")", from, to)
  BY DEF Deep
<1> HIDE DEF count
<1> QED
  BY <1>1, <1>2

LEMMA DeepStep ==
  ASSUME NEW text, NEW from \in Int, NEW k \in Int, from <= k
  PROVE  /\ Deep(text, from, k) = Deep(text, from, k - 1)
              + (IF k \in DOMAIN text /\ Free(text, k) THEN Turn(text[k]) ELSE 0)
         /\ Deep(text, from, k - 1) \in Int
         /\ Deep(text, from, from - 1) = 0
<1>1. /\ Deep(text, from, k) = Deep(text, from, k - 1) + Deep(text, (k - 1) + 1, k)
      /\ Deep(text, from, k - 1) \in Int
  BY DeepSplit
<1>2. Deep(text, k, k) = IF k \in DOMAIN text /\ Free(text, k) THEN Turn(text[k]) ELSE 0
  BY CountOne, TurnIs DEF Deep, Found
<1>3. Deep(text, from, from - 1) = 0
  BY CountOne DEF Deep
<1>4. (k - 1) + 1 = k
  OBVIOUS
<1> QED
  BY <1>1, <1>2, <1>3, <1>4

LEMMA LevelsRound ==
  ASSUME NEW text \in Seq(Tokens), NEW from \in 1..(Len(text) + 1), Free(text, from)
  PROVE  \A k \in from..(Len(text) + 1) : /\ Levels(text, from)[k].round = Deep(text, from, k - 1)
                                          /\ Levels(text, from)[k].scan = Plain <=> Free(text, k)
<1> DEFINE L == Levels(text, from)
           P == {k \in from..(Len(text) + 1) : L[k].round = Deep(text, from, k - 1)}
<1>1. Len(text) \in Nat /\ DOMAIN text = 1..Len(text)
  OBVIOUS
<1>2. \A k \in from..(Len(text) + 1) : L[k].scan = Plain <=> Free(text, k)
  BY LevelsScan, ScanFrom DEF Free
<1>3. from \in P
  <2>1. L[from] = LevelStart(from)
    BY LevelsRun
  <2>2. Deep(text, from, from - 1) = 0
    <3>1. from \in Int /\ from <= from
      BY <1>1
    <3> QED
      BY <3>1, DeepStep
  <2> HIDE DEF L
  <2> QED
    BY <1>1, <2>1, <2>2 DEF LevelStart
<1>4. ASSUME NEW k \in from..(Len(text) + 1), k # from, k - 1 \in P PROVE k \in P
  <2>1. k - 1 \in from..Len(text) /\ k - 1 \in 1..Len(text) /\ (k - 1) + 1 = k
        /\ k - 1 \in from..(Len(text) + 1) /\ from \in Int /\ k - 1 \in Int
    BY <1>1, <1>4
  <2>2. L[(k - 1) + 1] = LevelStep(text, k - 1, L[k - 1]) /\ L[k - 1] \in LevelStates
    BY <2>1, LevelsRun
  <2>3. L[k - 1].scan = Plain <=> Free(text, k - 1)
    BY <1>2, <2>1
  <2>4. L[k - 1].round = Deep(text, from, (k - 1) - 1)
    BY <1>4
  <2> HIDE DEF L
  <2>5. L[k].round = IF Free(text, k - 1) THEN L[k - 1].round + Turn(text[k - 1]) ELSE L[k - 1].round
    BY <2>1, <2>2, <2>3, LevelStepIs, SMTT(20)
  <2>6. /\ Deep(text, from, k - 1) = Deep(text, from, (k - 1) - 1)
             + (IF k - 1 \in DOMAIN text /\ Free(text, k - 1) THEN Turn(text[k - 1]) ELSE 0)
        /\ Deep(text, from, (k - 1) - 1) \in Int
    BY <2>1, DeepStep
  <2>7. k - 1 \in DOMAIN text
    BY <1>1, <2>1
  <2>8. L[k].round = Deep(text, from, k - 1)
    BY <2>4, <2>5, <2>6, <2>7
  <2> QED
    BY <2>8
<1> HIDE DEF P
<1>5. from..(Len(text) + 1) \subseteq P
  <2>1. Hereditary(from, Len(text) + 1, P)
    BY <1>1, <1>3, <1>4 DEF Hereditary
  <2> QED
    BY <2>1, IntervalInduction
<1> HIDE DEF L
<1> QED
  BY <1>2, <1>5 DEF P, L

(* The parenthesis at `opening` closes where the depth comes back to zero.  *)
Pair(text, opening, close) ==
  /\ opening \in Found(text, "(") /\ close \in Found(text, ")") /\ opening < close
  /\ Deep(text, opening, close) = 0
  /\ \A j \in opening..(close - 1) : Deep(text, opening, j) > 0

LEMMA PairEnds ==
  ASSUME NEW text \in Seq(Tokens), NEW opening, NEW close, Pair(text, opening, close)
  PROVE  /\ opening \in 1..Len(text) /\ close \in (opening + 1)..Len(text)
         /\ close + 1 \in 1..(Len(text) + 1) /\ Free(text, close + 1)
<1>1. Len(text) \in Nat /\ DOMAIN text = 1..Len(text) /\ 1 \in 1..(Len(text) + 1)
  OBVIOUS
<1>2. opening \in 1..Len(text) /\ close \in 1..Len(text) /\ opening < close
      /\ Free(text, close) /\ text[close] = ")"
  BY <1>1 DEF Pair, Found
<1>3. Free(text, close + 1)
  <2>1. ScanStates(text, 1)[close + 1] = ScanStep(text, close, ScanStates(text, 1)[close])
    BY <1>1, <1>2, ScanStatesRun
  <2>2. text[close] \notin Quotes
    BY <1>2 DEF Quotes
  <2> QED
    BY <1>2, <2>1, <2>2, PlainSteps DEF Free
<1> QED
  BY <1>1, <1>2, <1>3

LEMMA ClosingIs ==
  ASSUME NEW text \in Seq(Tokens), NEW opening \in Found(text, "("), Closings(text, opening) # {}
  PROVE  Pair(text, opening, Least(Closings(text, opening)))
<1> DEFINE L == Levels(text, opening)
           E == Closings(text, opening)
           close == Least(E)
           D == opening..close
           P == {k \in D : Deep(text, opening, k - 1) > 0 \/ k = opening}
<1>1. Len(text) \in Nat /\ DOMAIN text = 1..Len(text) /\ opening \in 1..Len(text)
      /\ Free(text, opening) /\ text[opening] = "("
  BY DEF Found
<1>2. E = {k \in opening..Len(text) : L[k].round > 0 /\ L[k + 1].round = 0}
  BY DEF Closings
<1>3. \A k \in opening..(Len(text) + 1) : L[k].round = Deep(text, opening, k - 1)
  <2>1. opening \in 1..(Len(text) + 1)
    BY <1>1
  <2> QED
    BY <1>1, <2>1, LevelsRound
<1>4. close \in E /\ \A k \in E : close <= k
  <2>1. E \subseteq Nat /\ E # {}
    BY <1>1, <1>2
  <2> HIDE DEF E
  <2> QED
    BY <2>1, LeastIs
<1> HIDE DEF L, E, close
<1>5. \A k \in opening..Len(text) : /\ k \in E <=> Deep(text, opening, k - 1) > 0 /\ Deep(text, opening, k) = 0
                                    /\ k \in DOMAIN text
  <2>1. \A k \in opening..Len(text) : k \in opening..(Len(text) + 1) /\ k + 1 \in opening..(Len(text) + 1)
                                      /\ (k + 1) - 1 = k /\ k \in DOMAIN text
    BY <1>1
  <2> QED
    BY <1>2, <1>3, <2>1
<1>6. close \in opening..Len(text)
  BY <1>2, <1>4
<1>7. ASSUME NEW k \in opening..Len(text)
      PROVE  /\ Deep(text, opening, k) = Deep(text, opening, k - 1)
                  + (IF Free(text, k) THEN Turn(text[k]) ELSE 0)
             /\ Deep(text, opening, k - 1) \in Int /\ Deep(text, opening, opening - 1) = 0
  <2>1. opening \in Int /\ k \in Int /\ opening <= k /\ k \in DOMAIN text
    BY <1>1
  <2> QED
    BY <2>1, DeepStep
<1>8. Deep(text, opening, opening) = 1 /\ Deep(text, opening, opening - 1) = 0
  <2>1. opening \in opening..Len(text)
    BY <1>1
  <2> QED
    BY <1>1, <1>7, <2>1, TurnIs
<1>9. ASSUME NEW k \in D, k # opening, k - 1 \in P PROVE k \in P
  <2>1. k - 1 \in opening..Len(text) /\ k - 1 < close /\ k - 1 \in Int /\ close \in Int /\ (k - 1) + 1 = k
    BY <1>1, <1>6, <1>9
  <2>2. CASE k - 1 = opening
    BY <1>8, <2>2
  <2>3. CASE Deep(text, opening, (k - 1) - 1) > 0
    <3>1. k - 1 \notin E
      <4>1. ~ (close <= k - 1)
        BY <2>1
      <4> QED
        BY <1>4, <4>1
    <3>2. Deep(text, opening, k - 1) # 0
      BY <1>5, <2>1, <2>3, <3>1
    <3>3. /\ Deep(text, opening, k - 1) = Deep(text, opening, (k - 1) - 1)
                  + (IF Free(text, k - 1) THEN Turn(text[k - 1]) ELSE 0)
          /\ Deep(text, opening, (k - 1) - 1) \in Int
      BY <1>7, <2>1
    <3>4. Turn(text[k - 1]) \in {-1, 0, 1}
      BY TurnIs
    <3>5. Deep(text, opening, k - 1) > 0
      BY <2>3, <3>2, <3>3, <3>4
    <3> QED
      BY <3>5
  <2> QED
    BY <1>9, <2>2, <2>3
<1>10. D \subseteq P
  <2>1. opening \in P /\ opening \in Int /\ close \in Int
    BY <1>1, <1>6
  <2> HIDE DEF P
  <2>2. Hereditary(opening, close, P)
    BY <1>9, <2>1 DEF Hereditary
  <2> QED
    BY <2>2, IntervalInduction
<1>11. ASSUME NEW j \in opening..(close - 1) PROVE Deep(text, opening, j) > 0
  <2>1. j + 1 \in D /\ j + 1 # opening /\ (j + 1) - 1 = j
    BY <1>1, <1>6
  <2>2. j + 1 \in P
    BY <1>10, <2>1
  <2> QED
    BY <2>1, <2>2
<1>12. Deep(text, opening, close) = 0 /\ Deep(text, opening, close - 1) > 0
  BY <1>4, <1>5, <1>6
<1>13. Free(text, close) /\ text[close] = ")" /\ close # opening
  <2>1. /\ Deep(text, opening, close) = Deep(text, opening, close - 1)
                  + (IF Free(text, close) THEN Turn(text[close]) ELSE 0)
        /\ Deep(text, opening, close - 1) \in Int
    BY <1>6, <1>7
  <2>2. Free(text, close) /\ Turn(text[close]) < 0
    BY <1>12, <2>1, TurnIs
  <2>3. text[close] = ")"
    BY <2>2, TurnIs
  <2> QED
    BY <1>8, <1>12, <2>2, <2>3
<1>14. close \in Found(text, ")") /\ opening < close
  <2>1. close \in DOMAIN text /\ opening <= close /\ opening \in Int /\ close \in Int
    BY <1>1, <1>6
  <2> QED
    BY <1>13, <2>1 DEF Found
<1> QED
  BY <1>11, <1>12, <1>14 DEF Pair, close, E

-----------------------------------------------------------------------------
(* Slices, and the end of a statement.                                      *)
LEMMA SliceIs ==
  ASSUME NEW text \in Seq(Tokens), NEW from \in 1..(Len(text) + 1), NEW last \in (from - 1)..Len(text)
  PROVE  /\ Slice(text, from, last) \in Seq(Tokens)
         /\ Len(Slice(text, from, last)) = last - from + 1
         /\ \A i \in 1..(last - from + 1) : Slice(text, from, last)[i] = text[from - 1 + i]
<1>1. Len(text) \in Nat /\ from \in Int /\ last \in Int
  OBVIOUS
<1> DEFINE rest == SubSeq(text, from, last)
           n == last - from + 1
<1>2. rest = [i \in 1..n |-> text[from - 1 + i]]
  <2>1. rest = [i \in 1..n |-> text[i + from - 1]]
    BY <1>1
  <2>2. \A i \in 1..n : i + from - 1 = from - 1 + i
    BY <1>1
  <2> QED
    BY <2>1, <2>2
<1>3. n \in Nat /\ \A i \in 1..n : from - 1 + i \in 1..Len(text)
  BY <1>1
<1>4. \A i \in 1..n : text[from - 1 + i] \in Tokens
  BY <1>3
<1> HIDE DEF rest, n
<1>5. rest \in Seq(Tokens) /\ Len(rest) = n
  BY <1>2, <1>3, <1>4
<1>6. \A i \in 1..n : rest[i] = text[from - 1 + i]
  BY <1>2
<1> QED
  BY <1>5, <1>6 DEF rest, n, Slice

LEMMA SliceFree ==
  ASSUME NEW text \in Seq(Tokens), NEW from \in 1..(Len(text) + 1), NEW last \in (from - 1)..Len(text),
         Free(text, from)
  PROVE  \A i \in 1..(last - from + 1) :
           Free(Slice(text, from, last), i) <=> Free(text, from - 1 + i)
<1> DEFINE rest == Slice(text, from, last)
           n == last - from + 1
           R == ScanStates(rest, 1)
           S == ScanStates(text, 1)
           P == {i \in 1..n : R[i] = S[from - 1 + i]}
<1>1. /\ Len(text) \in Nat /\ from \in Int /\ last \in Int /\ n \in Nat
      /\ rest \in Seq(Tokens) /\ Len(rest) = n /\ \A i \in 1..n : rest[i] = text[from - 1 + i]
  BY SliceIs
<1>2. R[1] = Plain /\ \A i \in 1..n : R[i + 1] = ScanStep(rest, i, R[i])
  <2>1. 1 \in 1..(Len(rest) + 1)
    BY <1>1
  <2>2. rest \in Seq(Tokens)
    BY <1>1
  <2>3. Len(rest) = n
    BY <1>1
  <2> HIDE DEF rest
  <2>4. R[1] = Plain /\ \A i \in 1..Len(rest) : R[i + 1] = ScanStep(rest, i, R[i])
    BY <2>1, <2>2, ScanStatesRun
  <2> HIDE DEF R, n
  <2> QED
    BY <2>3, <2>4
<1>3. S[from] = Plain /\ \A k \in 1..Len(text) : S[k + 1] = ScanStep(text, k, S[k])
  <2>1. 1 \in 1..(Len(text) + 1)
    BY <1>1
  <2>2. \A k \in 1..Len(text) : S[k + 1] = ScanStep(text, k, S[k])
    BY <2>1, ScanStatesRun
  <2> QED
    BY <2>2 DEF Free
<1> HIDE DEF rest, R, S, n
<1>4. 1 <= n => 1 \in P
  <2>1. from - 1 + 1 = from
    BY <1>1
  <2> QED
    BY <1>1, <1>2, <1>3, <2>1
<1>5. ASSUME NEW i \in 1..n, i # 1, i - 1 \in P PROVE i \in P
  <2> DEFINE k == from - 1 + (i - 1)
  <2>1. i - 1 \in 1..n /\ (i - 1) + 1 = i /\ k \in 1..Len(text) /\ k + 1 = from - 1 + i /\ k + 1 \in 1..Len(text)
    BY <1>1, <1>5 DEF n
  <2>2. rest[i - 1] = text[k] /\ At(rest, (i - 1) + 1) = At(text, k + 1)
    <3>1. rest[i - 1] = text[k] /\ rest[i] = text[k + 1]
      BY <1>1, <2>1
    <3>2. i \in DOMAIN rest /\ k + 1 \in DOMAIN text
      BY <1>1, <2>1
    <3> HIDE DEF k
    <3> QED
      BY <2>1, <3>1, <3>2 DEF At
  <2>3. i - 1 < Len(rest) /\ k < Len(text)
    BY <1>1, <2>1
  <2> HIDE DEF k
  <2>4. ScanStep(rest, i - 1, S[k]) = ScanStep(text, k, S[k])
    BY <2>2, <2>3, Zenon DEF ScanStep
  <2>5. R[(i - 1) + 1] = ScanStep(rest, i - 1, R[i - 1]) /\ S[k + 1] = ScanStep(text, k, S[k])
    BY <1>2, <1>3, <2>1
  <2>6. R[i - 1] = S[k]
    BY <1>5 DEF k
  <2> QED
    BY <2>1, <2>4, <2>5, <2>6
<1> HIDE DEF P
<1>6. 1..n \subseteq P
  <2>1. Hereditary(1, n, P)
    BY <1>1, <1>4, <1>5 DEF Hereditary
  <2> QED
    BY <2>1, IntervalInduction
<1> QED
  BY <1>6 DEF P, Free, R, S, rest, n

LEMMA SliceDeep ==
  ASSUME NEW text \in Seq(Tokens), NEW from \in 1..(Len(text) + 1), NEW last \in (from - 1)..Len(text),
         Free(text, from)
  PROVE  \A i \in 0..(last - from + 1) :
           Deep(Slice(text, from, last), 1, i) = Deep(text, from, from - 1 + i)
<1> DEFINE rest == Slice(text, from, last)
           n == last - from + 1
           P == {i \in 0..n : Deep(rest, 1, i) = Deep(text, from, from - 1 + i)}
<1>1. /\ Len(text) \in Nat /\ from \in Int /\ last \in Int /\ n \in Nat
      /\ rest \in Seq(Tokens) /\ Len(rest) = n /\ \A i \in 1..n : rest[i] = text[from - 1 + i]
  BY SliceIs
<1>2. \A i \in 1..n : Free(rest, i) <=> Free(text, from - 1 + i)
  BY SliceFree
<1> HIDE DEF rest
<1>3. 0 \in P
  <2>1. Deep(rest, 1, 1 - 1) = 0 /\ Deep(text, from, from - 1) = 0
    <3>1. 1 \in Int /\ 1 <= 1 /\ from <= from
      BY <1>1
    <3> QED
      BY <1>1, <3>1, DeepStep
  <2>2. 1 - 1 = 0 /\ from - 1 + 0 = from - 1 /\ 0 \in 0..n
    BY <1>1
  <2> QED
    BY <2>1, <2>2
<1>4. ASSUME NEW i \in 0..n, i # 0, i - 1 \in P PROVE i \in P
  <2> DEFINE k == from - 1 + i
  <2>1. i \in 1..n /\ i \in DOMAIN rest /\ k \in DOMAIN text /\ k \in Int /\ from <= k /\ i >= 1
        /\ k - 1 = from - 1 + (i - 1)
    BY <1>1, <1>4
  <2>2. Deep(rest, 1, i) = Deep(rest, 1, i - 1)
          + (IF i \in DOMAIN rest /\ Free(rest, i) THEN Turn(rest[i]) ELSE 0)
    BY <2>1, DeepStep
  <2>3. Deep(text, from, k) = Deep(text, from, k - 1)
          + (IF k \in DOMAIN text /\ Free(text, k) THEN Turn(text[k]) ELSE 0)
    BY <1>1, <2>1, DeepStep
  <2>4. Deep(rest, 1, i - 1) = Deep(text, from, k - 1)
    BY <1>4, <2>1
  <2>5. rest[i] = text[k] /\ (Free(rest, i) <=> Free(text, k))
    BY <1>1, <1>2, <2>1
  <2> QED
    BY <2>1, <2>2, <2>3, <2>4, <2>5
<1> HIDE DEF P
<1>5. 0..n \subseteq P
  <2>1. Hereditary(0, n, P)
    BY <1>1, <1>3, <1>4 DEF Hereditary
  <2> QED
    BY <2>1, IntervalInduction
<1> QED
  BY <1>5 DEF P, rest

Ending(text, from) == {k \in Found(text, "semicolon") : k >= from}

LEMMA EndingIs ==
  ASSUME NEW text \in Seq(Tokens), NEW from \in 1..(Len(text) + 1), Free(text, from)
  PROVE  StatementEnd(text, from) = Least({k + 1 : k \in Ending(text, from)} \cup {Len(text) + 1})
<1> DEFINE last == {k \in PlainFrom(text, from) : At(text, k) = "semicolon"}
<1>1. Len(text) \in Nat /\ DOMAIN text = 1..Len(text)
  OBVIOUS
<1>2. \A k : k \in PlainFrom(text, from) <=> k \in from..(Len(text) + 1) /\ Free(text, k)
  BY ScanFrom, PlainFromIs DEF Free
<1>3. last = Ending(text, from)
  <2>1. ASSUME NEW k \in last PROVE k \in Ending(text, from)
    <3>1. k \in 1..Len(text) /\ text[k] = "semicolon"
      BY AtPosition
    <3> QED
      BY <1>1, <1>2, <3>1 DEF Ending, Found
  <2>2. ASSUME NEW k \in Ending(text, from) PROVE k \in last
    <3>1. k \in 1..Len(text) /\ k >= from /\ Free(text, k) /\ text[k] = "semicolon"
      BY <1>1 DEF Ending, Found
    <3>2. k \in from..(Len(text) + 1) /\ At(text, k) = "semicolon"
      BY <1>1, <3>1 DEF At
    <3> QED
      BY <1>2, <3>1, <3>2
  <2> QED
    BY <2>1, <2>2
<1>4. StatementEnd(text, from) = Least({k + 1 : k \in last} \cup {Len(text) + 1})
  BY Zenon DEF StatementEnd
<1> QED
  BY <1>3, <1>4, Zenon

(* A tail that is accepted shows no statement and closes nothing it has not *)
(* opened.                                                                  *)
Shown(text) ==
  \/ \E marks \in {<<>>, <<"quote">>} : Shows(text, marks)
  \/ (\E marks \in {<<"part", "(">>, <<"quote", "part", "(">>} : Shows(text, marks)) /\ Lists(text) # {}
Closed(text, from, last) ==
  \A j \in from..last :
    /\ Deep(text, from, j) >= 0
    /\ Free(text, j) /\ Deep(text, from, j - 1) = 0 => text[j] # "create"
    /\ Deep(text, from, j - 1) > 0 =>
         \E q, p : Pair(text, q, p) /\ from <= q /\ q < j /\ j <= p /\ p <= last

LEMMA SolidShown ==
  ASSUME NEW text \in Seq(Tokens), Shown(text), NEW k \in Solid(text)
  PROVE  text[k] \in {"quote", "part", "("}
<1> DEFINE S == Solid(text)
           n == Cardinality(S \cap (1..k))
<1>1. PICK marks \in {<<>>, <<"quote">>, <<"part", "(">>, <<"quote", "part", "(">>} : Shows(text, marks)
  BY Zenon DEF Shown
<1>2. S \subseteq 1..Len(text) /\ k \in 1..k /\ IsFiniteSet(1..Len(text)) /\ k \in Int
  <2>1. S \subseteq 1..Len(text)
    BY DEF Solid, Flat
  <2>2. Len(text) \in Int
    OBVIOUS
  <2> HIDE DEF S
  <2>3. k \in 1..k /\ k \in Int
    BY <2>1 DEF S
  <2> QED
    BY <2>1, <2>2, <2>3, FS_Interval
<1> HIDE DEF S
<1>3. IsFiniteSet(S) /\ IsFiniteSet(S \cap (1..k))
  BY <1>2, FS_Subset, FS_Intersection
<1>4. n \in Nat /\ n # 0 /\ n <= Cardinality(S)
  <2>1. S \cap (1..k) # {}
    BY <1>2 DEF S
  <2> QED
    BY <1>3, <2>1, FS_CardinalityType, FS_EmptySet, FS_Intersection
<1>5. Cardinality(S) = Len(marks) /\ text[k] = marks[n]
  BY <1>1 DEF Shows, S
<1> HIDE DEF n
<1>6. CASE marks = <<>>
  BY <1>4, <1>5, <1>6
<1>7. CASE marks = <<"quote">>
  <2>1. n = 1
    BY <1>4, <1>5, <1>7
  <2> QED
    BY <1>5, <1>7, <2>1
<1>8. CASE marks = <<"part", "(">>
  <2>1. n = 1 \/ n = 2
    BY <1>4, <1>5, <1>8
  <2> QED
    BY <1>5, <1>8, <2>1
<1>9. CASE marks = <<"quote", "part", "(">>
  <2>1. n = 1 \/ n = 2 \/ n = 3
    BY <1>4, <1>5, <1>9
  <2> QED
    BY <1>5, <1>9, <2>1
<1> QED
  BY <1>1, <1>6, <1>7, <1>8, <1>9

(* There is one parenthesis to see.                                         *)
LEMMA OneOpening ==
  ASSUME NEW text \in Seq(Tokens), Shown(text), NEW o \in Solid(text), text[o] = "("
  PROVE  /\ Lists(text) # {}
         /\ \A k \in Solid(text) : text[k] = "(" => k = o
<1> DEFINE count(a, b) == Cardinality(Solid(text) \cap (a..b))
<1>0. ASSUME NEW a \in Int, NEW b \in Int, NEW c \in Int, a <= b + 1, b <= c
      PROVE  count(a, c) = count(a, b) + count(b + 1, c) /\ count(b + 1, c) \in Nat
  <2> DEFINE S == Solid(text)
  <2>1. /\ Cardinality(S \cap (a..c)) = Cardinality(S \cap (a..b)) + Cardinality(S \cap ((b + 1)..c))
        /\ Cardinality(S \cap (a..c)) \in Nat
        /\ Cardinality(S \cap (a..b)) \in Nat
        /\ Cardinality(S \cap ((b + 1)..c)) \in Nat
    <3> HIDE DEF S
    <3> QED
      BY <1>0, CountSplit
  <2> QED
    BY <2>1
<1> DEFINE S == Solid(text)
           n(k) == Cardinality(S \cap (1..k))
<1>1. S \subseteq 1..Len(text) /\ Len(text) \in Nat
  BY DEF Solid, Flat
<1> HIDE DEF S
<1>2. \A k \in S : n(k) \in Nat /\ n(k) # 0
  <2> TAKE k \in S
  <2>1. k \in 1..k /\ IsFiniteSet(1..k)
    BY <1>1, FS_Interval
  <2>2. S \cap (1..k) # {} /\ IsFiniteSet(S \cap (1..k))
    BY <2>1, FS_Intersection
  <2> QED
    BY <2>2, FS_CardinalityType, FS_EmptySet
<1>3. ASSUME NEW k \in S, NEW l \in S, k < l PROVE n(k) < n(l)
  <2>1. k \in Int /\ l \in Int /\ 1 <= k + 1 /\ k <= l /\ 1 \in Int
    BY <1>1, <1>3
  <2>2. /\ Cardinality(S \cap (1..l)) = Cardinality(S \cap (1..k)) + Cardinality(S \cap ((k + 1)..l))
        /\ Cardinality(S \cap ((k + 1)..l)) \in Nat
    <3> HIDE DEF count
    <3>1. count(1, l) = count(1, k) + count(k + 1, l) /\ count(k + 1, l) \in Nat
      BY <1>0, <2>1
    <3> QED
      BY <3>1 DEF count, S
  <2>3. l \in S \cap ((k + 1)..l)
    BY <1>3, <2>1
  <2>4. IsFiniteSet(S \cap ((k + 1)..l))
    <3>1. IsFiniteSet((k + 1)..l)
      BY <2>1, FS_Interval
    <3> QED
      BY <3>1, FS_Intersection
  <2>5. Cardinality(S \cap ((k + 1)..l)) # 0
    BY <2>3, <2>4, FS_EmptySet
  <2> QED
    BY <1>2, <2>2, <2>5
<1>4. ASSUME NEW marks, Shows(text, marks), NEW k \in S
      PROVE  text[k] = marks[n(k)] /\ n(k) <= Len(marks) /\ Cardinality(S) = Len(marks)
  <2>1. IsFiniteSet(S)
    <3>1. IsFiniteSet(1..Len(text))
      BY <1>1, FS_Interval
    <3> QED
      BY <1>1, <3>1, FS_Subset
  <2>2. n(k) <= Cardinality(S)
    BY <2>1, FS_Intersection
  <2> QED
    BY <1>4, <2>2 DEF Shows, S
<1> HIDE DEF n
<1>5. ~ \E marks \in {<<>>, <<"quote">>} : Shows(text, marks)
  <2>1. o \in S
    BY DEF S
  <2>2. SUFFICES ASSUME NEW marks \in {<<>>, <<"quote">>}, Shows(text, marks) PROVE FALSE
    OBVIOUS
  <2>3. marks[n(o)] = "(" /\ n(o) <= Len(marks) /\ n(o) \in Nat /\ n(o) # 0
    BY <1>2, <1>4, <2>1, <2>2
  <2>4. CASE marks = <<>>
    BY <2>3, <2>4
  <2>5. CASE marks = <<"quote">>
    <3>1. n(o) = 1
      BY <2>3, <2>5
    <3> QED
      BY <2>3, <2>5, <3>1
  <2> QED
    BY <2>2, <2>4, <2>5
<1>6. PICK marks \in {<<"part", "(">>, <<"quote", "part", "(">>} : Shows(text, marks) /\ Lists(text) # {}
  BY <1>5, Zenon DEF Shown
<1>7. ASSUME NEW k \in S, text[k] = "(" PROVE n(k) = Len(marks)
  <2>1. marks[n(k)] = "(" /\ n(k) <= Len(marks) /\ n(k) \in Nat /\ n(k) # 0
    BY <1>2, <1>4, <1>6, <1>7
  <2>2. CASE marks = <<"part", "(">>
    <3>1. n(k) = 1 \/ n(k) = 2
      BY <2>1, <2>2
    <3> QED
      BY <2>1, <2>2, <3>1
  <2>3. CASE marks = <<"quote", "part", "(">>
    <3>1. n(k) = 1 \/ n(k) = 2 \/ n(k) = 3
      BY <2>1, <2>3
    <3> QED
      BY <2>1, <2>3, <3>1
  <2> QED
    BY <2>2, <2>3
<1>8. ASSUME NEW k \in S, text[k] = "(" PROVE k = o
  <2>1. o \in S /\ text[o] = "("
    BY DEF S
  <2>2. n(k) = n(o) /\ n(k) \in Nat
    BY <1>2, <1>7, <1>8, <2>1
  <2>3. ~ (k < o) /\ ~ (o < k)
    BY <1>3, <1>8, <2>1, <2>2
  <2> QED
    BY <1>1, <2>1, <2>3
<1> QED
  BY <1>6, <1>8 DEF S

LEMMA ShownCloses ==
  ASSUME NEW text \in Seq(Tokens), Shown(text)
  PROVE  Closed(text, 1, Len(text))
<1> DEFINE L == Levels(text, 1)
           In(j) == \E q, p : Pair(text, q, p) /\ 1 <= q /\ q <= j /\ j < p /\ Deep(text, 1, q - 1) = 0
           P == {j \in 0..Len(text) : Deep(text, 1, j) = 0 \/ (Deep(text, 1, j) > 0 /\ In(j))}
<1>1. Len(text) \in Nat /\ 1 \in 1..(Len(text) + 1) /\ 1 \in Int /\ DOMAIN text = 1..Len(text)
  OBVIOUS
<1>2. Free(text, 1)
  BY <1>1, ScanStatesRun DEF Free
<1>3. \A k \in 1..(Len(text) + 1) : L[k].round = Deep(text, 1, k - 1) /\ (L[k].scan = Plain <=> Free(text, k))
  BY <1>1, <1>2, LevelsRound
<1>4. ASSUME NEW j \in 1..Len(text), Free(text, j), Deep(text, 1, j - 1) = 0
      PROVE  /\ text[j] \in Blanks \cup {"quote", "part", "("}
             /\ j \in Flat(text, L)
  <2>1. j \in Flat(text, L)
    BY <1>1, <1>3, <1>4 DEF Flat
  <2>2. text[j] \notin Blanks => j \in Solid(text)
    BY <2>1 DEF Solid
  <2> QED
    BY <2>1, <2>2, SolidShown
<1>5. ASSUME NEW j \in 1..Len(text), Free(text, j), Deep(text, 1, j - 1) = 0, text[j] = "("
      PROVE  \E p : Pair(text, j, p)
  <2>1. j \in Solid(text)
    BY <1>4, <1>5 DEF Solid, Blanks
  <2>2. Lists(text) # {}
    BY <1>5, <2>1, OneOpening
  <2>3. PICK k \in Flat(text, L) : text[k] = "(" /\ Closings(text, k) # {}
    BY <2>2, Zenon DEF Lists
  <2>4. k \in Solid(text)
    BY <2>3 DEF Solid, Blanks
  <2>5. k = j
    BY <1>5, <2>1, <2>3, <2>4, OneOpening
  <2>6. j \in Found(text, "(")
    BY <1>1, <1>5 DEF Found
  <2> QED
    BY <2>3, <2>5, <2>6, ClosingIs
<1>6. 0 \in P
  <2>1. 1 <= 1 /\ 1 - 1 = 0
    OBVIOUS
  <2>2. Deep(text, 1, 1 - 1) = 0
    BY <1>1, <2>1, DeepStep
  <2> QED
    BY <1>1, <2>1, <2>2
<1> HIDE DEF L
<1>7. ASSUME NEW j \in 0..Len(text), j # 0, j - 1 \in P PROVE j \in P
  <2>1. j \in 1..Len(text) /\ 1 <= j /\ j \in Int /\ j \in DOMAIN text
    BY <1>1, <1>7
  <2>2. /\ Deep(text, 1, j) = Deep(text, 1, j - 1)
              + (IF j \in DOMAIN text /\ Free(text, j) THEN Turn(text[j]) ELSE 0)
        /\ Deep(text, 1, j - 1) \in Int
    BY <1>1, <2>1, DeepStep
  <2>3. CASE Deep(text, 1, j - 1) = 0 /\ ~ Free(text, j)
    BY <1>7, <2>2, <2>3
  <2>4. CASE Deep(text, 1, j - 1) = 0 /\ Free(text, j) /\ text[j] # "("
    <3>1. text[j] # ")"
      BY <1>4, <2>1, <2>4 DEF Blanks
    <3>2. Turn(text[j]) = 0
      BY <2>4, <3>1, TurnIs
    <3> QED
      BY <1>7, <2>2, <2>4, <3>2
  <2>5. CASE Deep(text, 1, j - 1) = 0 /\ Free(text, j) /\ text[j] = "("
    <3>1. Turn(text[j]) = 1
      BY <2>5, TurnIs
    <3>2. Deep(text, 1, j) = 1
      BY <2>1, <2>2, <2>5, <3>1
    <3>3. PICK p : Pair(text, j, p)
      BY <1>5, <2>1, <2>5
    <3>4. j < p
      BY <3>3 DEF Pair
    <3>5. j <= j
      BY <2>1
    <3>6. In(j)
      BY <2>1, <2>5, <3>3, <3>4, <3>5
    <3> HIDE DEF In
    <3> QED
      BY <1>7, <3>2, <3>6
  <2>6. CASE Deep(text, 1, j - 1) # 0
    <3>1. PICK q, p : Pair(text, q, p) /\ 1 <= q /\ q <= j - 1 /\ j - 1 < p /\ Deep(text, 1, q - 1) = 0
      BY <1>7, <2>6
    <3>2. q \in 1..Len(text) /\ p \in (q + 1)..Len(text)
      BY <3>1, PairEnds
    <3>3. q \in Int /\ p \in Int /\ q - 1 \in Int /\ 1 <= (q - 1) + 1 /\ q - 1 <= j /\ (q - 1) + 1 = q /\ j <= p
      BY <1>1, <2>1, <3>1, <3>2
    <3>4. Deep(text, 1, j) = Deep(text, 1, q - 1) + Deep(text, (q - 1) + 1, j)
          /\ Deep(text, (q - 1) + 1, j) \in Int
      BY <1>1, <2>1, <3>3, DeepSplit
    <3>5. Deep(text, 1, j) = Deep(text, q, j)
      BY <3>1, <3>3, <3>4
    <3>6. CASE j = p
      BY <1>7, <3>1, <3>5, <3>6 DEF Pair
    <3>7. CASE j # p
      <4>1. j \in q..(p - 1) /\ j < p /\ q <= j
        BY <2>1, <3>1, <3>3, <3>7
      <4>2. Deep(text, 1, j) > 0
        BY <3>1, <3>5, <4>1 DEF Pair
      <4>3. In(j)
        BY <3>1, <4>1
      <4> HIDE DEF In
      <4> QED
        BY <1>7, <4>2, <4>3
    <3> QED
      BY <3>6, <3>7
  <2> QED
    BY <2>3, <2>4, <2>5, <2>6
<1> HIDE DEF P
<1>8. 0..Len(text) \subseteq P
  <2>1. Hereditary(0, Len(text), P)
    BY <1>1, <1>6, <1>7 DEF Hereditary
  <2> QED
    BY <2>1, IntervalInduction
<1>9. ASSUME NEW j \in 1..Len(text)
      PROVE  /\ Deep(text, 1, j) >= 0
             /\ Deep(text, 1, j - 1) > 0 =>
                  \E q, p : Pair(text, q, p) /\ 1 <= q /\ q < j /\ j <= p /\ p <= Len(text)
  <2>1. j \in P /\ j - 1 \in P /\ j \in Int
    BY <1>1, <1>8
  <2>2. Deep(text, 1, j) >= 0
    <3> HIDE DEF In
    <3>1. Deep(text, 1, j) = 0 \/ Deep(text, 1, j) > 0
      BY <2>1 DEF P
    <3>2. Deep(text, 1, j) \in Int
      BY <1>1, <2>1, DeepSplit
    <3> QED
      BY <3>1, <3>2
  <2>3. ASSUME Deep(text, 1, j - 1) > 0
        PROVE  \E q, p : Pair(text, q, p) /\ 1 <= q /\ q < j /\ j <= p /\ p <= Len(text)
    <3>1. PICK q, p : Pair(text, q, p) /\ 1 <= q /\ q <= j - 1 /\ j - 1 < p
      BY <2>1, <2>3 DEF P
    <3>2. q \in 1..Len(text) /\ p \in (q + 1)..Len(text)
      BY <3>1, PairEnds
    <3>3. q < j /\ j <= p /\ p <= Len(text)
      BY <1>1, <2>1, <3>1, <3>2
    <3> QED
      BY <3>1, <3>3
  <2> QED
    BY <2>2, <2>3
<1>10. "create" \notin Blanks \cup {"quote", "part", "("}
  BY DEF Blanks
<1>11. \A j \in 1..Len(text) : Free(text, j) /\ Deep(text, 1, j - 1) = 0 => text[j] # "create"
  BY <1>4, <1>10
<1> QED
  BY <1>9, <1>11 DEF Closed

(* A pair in a slice is one in the text.                                    *)
LEMMA SlicePair ==
  ASSUME NEW text \in Seq(Tokens), NEW from \in 1..(Len(text) + 1), NEW last \in (from - 1)..Len(text),
         Free(text, from), NEW q, NEW p, Pair(Slice(text, from, last), q, p)
  PROVE  /\ Pair(text, from - 1 + q, from - 1 + p)
         /\ q \in 1..(last - from + 1) /\ p \in 1..(last - from + 1)
<1> DEFINE rest == Slice(text, from, last)
           n == last - from + 1
<1>1. /\ Len(text) \in Nat /\ from \in Int /\ last \in Int /\ n \in Nat
      /\ rest \in Seq(Tokens) /\ Len(rest) = n /\ \A i \in 1..n : rest[i] = text[from - 1 + i]
  BY SliceIs
<1>2. \A i \in 1..n : Free(rest, i) <=> Free(text, from - 1 + i)
  BY SliceFree
<1>3. \A i \in 0..n : Deep(rest, 1, i) = Deep(text, from, from - 1 + i)
  BY SliceDeep
<1>0. Pair(rest, q, p)
  OBVIOUS
<1> HIDE DEF rest
<1> DEFINE a == from - 1 + q
           b == from - 1 + p
<1>4. q \in 1..n /\ p \in 1..n /\ q < p
  BY <1>0, <1>1 DEF Pair, Found
<1>5. q \in DOMAIN rest /\ p \in DOMAIN rest /\ q \in 1..Len(rest)
  BY <1>1, <1>4
<1>6. a \in DOMAIN text /\ b \in DOMAIN text /\ a < b /\ a \in Int /\ b \in Int
  BY <1>1, <1>4
<1>7. a \in Found(text, "(") /\ b \in Found(text, ")")
  BY <1>0, <1>1, <1>2, <1>4, <1>6 DEF Pair, Found
<1>8. ASSUME NEW i \in q..p PROVE Deep(rest, q, i) = Deep(text, a, from - 1 + i)
  <2>1. i \in 0..n /\ q - 1 \in 0..n /\ i \in Int /\ q \in Int /\ q - 1 \in Int /\ 1 <= (q - 1) + 1
        /\ q - 1 <= i /\ (q - 1) + 1 = q
    BY <1>1, <1>4
  <2>2. Deep(rest, 1, i) = Deep(rest, 1, q - 1) + Deep(rest, (q - 1) + 1, i)
        /\ Deep(rest, 1, q - 1) \in Int /\ Deep(rest, (q - 1) + 1, i) \in Int
    <3>1. \A y, z \in Int : 1 <= y + 1 /\ y <= z =>
            /\ Deep(rest, 1, z) = Deep(rest, 1, y) + Deep(rest, y + 1, z)
            /\ Deep(rest, 1, y) \in Int /\ Deep(rest, y + 1, z) \in Int
      BY DeepSplit
    <3> QED
      BY <2>1, <3>1
  <2>3. /\ a - 1 \in Int /\ from - 1 + i \in Int /\ from <= (a - 1) + 1 /\ a - 1 <= from - 1 + i
        /\ (a - 1) + 1 = a /\ a - 1 = from - 1 + (q - 1)
    BY <1>1, <1>4, <2>1
  <2>4. Deep(text, from, from - 1 + i) = Deep(text, from, a - 1) + Deep(text, (a - 1) + 1, from - 1 + i)
        /\ Deep(text, from, a - 1) \in Int /\ Deep(text, (a - 1) + 1, from - 1 + i) \in Int
    <3> HIDE DEF a
    <3> QED
      <4>1. \A x, y, z \in Int : x <= y + 1 /\ y <= z =>
              /\ Deep(text, x, z) = Deep(text, x, y) + Deep(text, y + 1, z)
              /\ Deep(text, x, y) \in Int /\ Deep(text, y + 1, z) \in Int
        BY DeepSplit
      <4> QED
        BY <1>1, <2>3, <4>1
  <2>5. Deep(rest, 1, i) = Deep(text, from, from - 1 + i)
        /\ Deep(rest, 1, q - 1) = Deep(text, from, from - 1 + (q - 1))
    BY <1>3, <2>1
  <2> HIDE DEF a
  <2> QED
    BY <2>1, <2>2, <2>3, <2>4, <2>5
<1>9. Deep(text, a, b) = 0
  <2>1. p \in q..p
    BY <1>1, <1>4
  <2> HIDE DEF a
  <2>2. Deep(rest, q, p) = Deep(text, a, from - 1 + p)
    BY <1>8, <2>1
  <2> QED
    BY <1>0, <2>2 DEF Pair
<1>10. ASSUME NEW j \in a..(b - 1) PROVE Deep(text, a, j) > 0
  <2> DEFINE i == j - from + 1
  <2>1. i \in q..p /\ i \in q..(p - 1) /\ from - 1 + i = j
    BY <1>1, <1>4, <1>6
  <2> HIDE DEF a, b, i
  <2>2. Deep(rest, q, i) = Deep(text, a, j)
    BY <1>8, <2>1
  <2>3. Deep(rest, q, i) > 0
    BY <1>0, <2>1 DEF Pair
  <2> QED
    BY <2>2, <2>3
<1> HIDE DEF a, b
<1>11. Pair(text, a, b)
  BY <1>6, <1>7, <1>9, <1>10 DEF Pair
<1> QED
  BY <1>4, <1>11 DEF a, b

LEMMA TailCloses ==
  ASSUME NEW text \in Seq(Tokens), NEW from \in 1..(Len(text) + 1), NEW last \in (from - 1)..Len(text),
         Free(text, from), Shown(Slice(text, from, last))
  PROVE  Closed(text, from, last)
<1> DEFINE rest == Slice(text, from, last)
           n == last - from + 1
<1>1. /\ Len(text) \in Nat /\ from \in Int /\ last \in Int /\ n \in Nat
      /\ rest \in Seq(Tokens) /\ Len(rest) = n /\ \A i \in 1..n : rest[i] = text[from - 1 + i]
  BY SliceIs
<1>2. \A i \in 1..n : Free(rest, i) <=> Free(text, from - 1 + i)
  BY SliceFree
<1>3. \A i \in 0..n : Deep(rest, 1, i) = Deep(text, from, from - 1 + i)
  BY SliceDeep
<1> HIDE DEF rest
<1>4. Closed(rest, 1, n)
  <2>1. Closed(rest, 1, Len(rest))
    BY <1>1, ShownCloses DEF rest
  <2> HIDE DEF n
  <2> QED
    BY <1>1, <2>1
<1>5. ASSUME NEW q, NEW p, Pair(rest, q, p)
      PROVE  /\ Pair(text, from - 1 + q, from - 1 + p)
             /\ q \in 1..n /\ p \in 1..n
  BY <1>5, SlicePair DEF rest, n
<1>6. ASSUME NEW j \in from..last
      PROVE  /\ Deep(text, from, j) >= 0
             /\ Free(text, j) /\ Deep(text, from, j - 1) = 0 => text[j] # "create"
             /\ Deep(text, from, j - 1) > 0 =>
                  \E q, p : Pair(text, q, p) /\ from <= q /\ q < j /\ j <= p /\ p <= last
  <2> DEFINE i == j - from + 1
  <2>1. /\ i \in 1..n /\ i \in 0..n /\ i - 1 \in 0..n /\ i \in Int /\ j \in Int
        /\ from - 1 + i = j /\ from - 1 + (i - 1) = j - 1
    <3>1. j \in Int /\ from <= j /\ j <= last
      BY <1>1
    <3>2. i \in Int /\ i >= 1 /\ i <= n /\ from - 1 + i = j /\ from - 1 + (i - 1) = j - 1
      BY <1>1, <3>1
    <3> HIDE DEF i, n
    <3> QED
      BY <1>1, <3>1, <3>2
  <2>2. n = last - from + 1
    OBVIOUS
  <2> HIDE DEF i, n
  <2>3. /\ Deep(rest, 1, i) = Deep(text, from, j) /\ Deep(rest, 1, i - 1) = Deep(text, from, j - 1)
        /\ rest[i] = text[j] /\ (Free(rest, i) <=> Free(text, j))
    BY <1>1, <1>2, <1>3, <2>1
  <2>4. /\ Deep(rest, 1, i) >= 0
        /\ Free(rest, i) /\ Deep(rest, 1, i - 1) = 0 => rest[i] # "create"
        /\ Deep(rest, 1, i - 1) > 0 =>
             \E q, p : Pair(rest, q, p) /\ 1 <= q /\ q < i /\ i <= p /\ p <= n
    BY <1>4, <2>1 DEF Closed
  <2>5. ASSUME Deep(text, from, j - 1) > 0
        PROVE  \E q, p : Pair(text, q, p) /\ from <= q /\ q < j /\ j <= p /\ p <= last
    <3>1. PICK q, p : Pair(rest, q, p) /\ 1 <= q /\ q < i /\ i <= p /\ p <= n
      BY <2>3, <2>4, <2>5
    <3>2. Pair(text, from - 1 + q, from - 1 + p) /\ q \in 1..n /\ p \in 1..n
      BY <1>5, <3>1
    <3>3. from <= from - 1 + q /\ from - 1 + q < j /\ j <= from - 1 + p /\ from - 1 + p <= last
      BY <1>1, <2>1, <2>2, <3>1, <3>2
    <3> QED
      BY <3>2, <3>3
  <2> QED
    BY <2>3, <2>4, <2>5
<1> QED
  BY <1>6 DEF Closed

(* The list of partition columns: nothing but its name and a comment is     *)
(* between it and the columns.                                              *)
LEMMA TopShown ==
  ASSUME NEW text \in Seq(Tokens), Shown(text), NEW o \in Solid(text), text[o] = "("
  PROVE  /\ o \in Found(text, "(") /\ Deep(text, 1, o - 1) = 0
         /\ \A j \in 1..(o - 1) : Deep(text, 1, j) = 0 /\ (Free(text, j) => text[j] # "create")
<1> DEFINE L == Levels(text, 1)
           P == {j \in 0..(o - 1) : Deep(text, 1, j) = 0}
<1>1. Len(text) \in Nat /\ 1 \in 1..(Len(text) + 1) /\ 1 \in Int /\ DOMAIN text = 1..Len(text)
  OBVIOUS
<1>2. Free(text, 1)
  BY <1>1, ScanStatesRun DEF Free
<1>3. \A k \in 1..(Len(text) + 1) : L[k].round = Deep(text, 1, k - 1) /\ (L[k].scan = Plain <=> Free(text, k))
  BY <1>1, <1>2, LevelsRound
<1>4. o \in 1..Len(text) /\ L[o].scan = Plain /\ L[o].round = 0
  BY <1>1 DEF Solid, Flat
<1> HIDE DEF L
<1>5. o \in Int /\ o \in 1..(Len(text) + 1)
  BY <1>1, <1>4
<1>6. o \in Found(text, "(") /\ Deep(text, 1, o - 1) = 0
  BY <1>1, <1>3, <1>4, <1>5 DEF Found
<1>7. ASSUME NEW j \in 1..(o - 1), Free(text, j), Deep(text, 1, j - 1) = 0
      PROVE  text[j] \in Blanks \cup {"quote", "part"}
  <2>1. j \in 1..Len(text) /\ j \in 1..(Len(text) + 1) /\ j # o
    BY <1>1, <1>4, <1>5
  <2>2. j \in Flat(text, L)
    BY <1>1, <1>3, <1>7, <2>1 DEF Flat
  <2>3. CASE text[j] \in Blanks
    BY <2>3
  <2>4. CASE text[j] \notin Blanks
    <3>1. j \in Solid(text)
      BY <2>2, <2>4 DEF Solid, L
    <3>2. text[j] # "("
      BY <2>1, <3>1, OneOpening
    <3> QED
      BY <3>1, <3>2, SolidShown
  <2> QED
    BY <2>3, <2>4
<1>8. 0 \in P
  <2>1. 1 <= 1 /\ 1 - 1 = 0
    OBVIOUS
  <2>2. Deep(text, 1, 1 - 1) = 0
    BY <1>1, <2>1, DeepStep
  <2> QED
    BY <1>4, <1>5, <2>1, <2>2
<1>9. ASSUME NEW j \in 0..(o - 1), j # 0, j - 1 \in P PROVE j \in P
  <2>1. j \in 1..(o - 1) /\ j \in Int /\ 1 <= j
    BY <1>5, <1>9
  <2>2. /\ Deep(text, 1, j) = Deep(text, 1, j - 1)
              + (IF j \in DOMAIN text /\ Free(text, j) THEN Turn(text[j]) ELSE 0)
    BY <1>1, <2>1, DeepStep
  <2>3. Free(text, j) => Turn(text[j]) = 0
    <3>1. "(" \notin Blanks \cup {"quote", "part"} /\ ")" \notin Blanks \cup {"quote", "part"}
      BY DEF Blanks
    <3> QED
      BY <1>7, <1>9, <2>1, <3>1, TurnIs
  <2> QED
    BY <1>9, <2>2, <2>3
<1> HIDE DEF P
<1>10. 0..(o - 1) \subseteq P
  <2>1. Hereditary(0, o - 1, P)
    BY <1>4, <1>5, <1>8, <1>9 DEF Hereditary
  <2> QED
    BY <2>1, IntervalInduction
<1>11. ASSUME NEW j \in 1..(o - 1) PROVE Deep(text, 1, j) = 0 /\ (Free(text, j) => text[j] # "create")
  <2>1. j \in 0..(o - 1) /\ j - 1 \in 0..(o - 1)
    BY <1>5
  <2>2. "create" \notin Blanks \cup {"quote", "part"}
    BY DEF Blanks
  <2> QED
    BY <1>7, <1>10, <2>1, <2>2 DEF P
<1> QED
  BY <1>6, <1>11


(* Nothing between `from` and the parenthesis at `o` but what may stand     *)
(* before a list of partition columns.                                      *)
Top(text, from, o) ==
  /\ o \in Found(text, "(") /\ o >= from
  /\ \A j \in from..(o - 1) : Deep(text, from, j) = 0 /\ (Free(text, j) => text[j] # "create")

LEMMA TailListed ==
  ASSUME NEW text \in Seq(Tokens), NEW from \in 1..(Len(text) + 1), NEW last \in (from - 1)..Len(text),
         Free(text, from), Shown(Slice(text, from, last)), NEW list \in Lists(Slice(text, from, last))
  PROVE  \E o, c : Pair(text, o, c) /\ list = Slice(text, o + 1, c - 1) /\ Top(text, from, o)
<1> DEFINE rest == Slice(text, from, last)
           n == last - from + 1
<1>1. /\ Len(text) \in Nat /\ from \in Int /\ last \in Int /\ n \in Nat
      /\ rest \in Seq(Tokens) /\ Len(rest) = n /\ \A i \in 1..n : rest[i] = text[from - 1 + i]
  BY SliceIs
<1>2. /\ \A i \in 1..n : Free(rest, i) <=> Free(text, from - 1 + i)
      /\ \A i \in 0..n : Deep(rest, 1, i) = Deep(text, from, from - 1 + i)
  BY SliceFree, SliceDeep
<1>3. PICK k : /\ k \in Flat(rest, Levels(rest, 1)) /\ rest[k] = "(" /\ Closings(rest, k) # {}
               /\ list = Slice(rest, k + 1, Least(Closings(rest, k)) - 1)
  BY Zenon DEF Lists
<1> DEFINE e == Least(Closings(rest, k))
<1>4. Shown(rest)
  OBVIOUS
<1>5. \A q, p : Pair(rest, q, p) => Pair(text, from - 1 + q, from - 1 + p) /\ q \in 1..n /\ p \in 1..n
  BY SlicePair
<1> HIDE DEF rest
<1>6. k \in Solid(rest)
  BY <1>3 DEF Solid, Blanks
<1>7. k \in Found(rest, "(") /\ \A j \in 1..(k - 1) : Deep(rest, 1, j) = 0 /\ (Free(rest, j) => rest[j] # "create")
  BY <1>1, <1>3, <1>4, <1>6, TopShown
<1>8. Pair(rest, k, e)
  BY <1>1, <1>3, <1>7, ClosingIs
<1>9. list = Slice(rest, k + 1, e - 1)
  BY <1>3
<1> HIDE DEF e
<1>10. k \in 1..n /\ e \in 1..n /\ k < e /\ Pair(text, from - 1 + k, from - 1 + e)
  BY <1>5, <1>8 DEF Pair
<1> DEFINE o == from - 1 + k
           c == from - 1 + e
<1>11. k \in Int /\ e \in Int /\ o \in Int /\ c \in Int /\ o >= from /\ from - 1 \in Int
  BY <1>1, <1>10
<1>12. Top(text, from, o)
  <2>1. o \in Found(text, "(")
    BY <1>10 DEF Pair
  <2>2. ASSUME NEW j \in from..(o - 1) PROVE Deep(text, from, j) = 0 /\ (Free(text, j) => text[j] # "create")
    <3> DEFINE i == j - from + 1
    <3>1. i \in 1..(k - 1) /\ i \in 0..n /\ i \in 1..n /\ from - 1 + i = j
      BY <1>1, <1>10, <1>11
    <3> HIDE DEF i, n
    <3> QED
      BY <1>1, <1>2, <1>7, <3>1
  <2> QED
    BY <1>11, <2>1, <2>2 DEF Top
<1>13. list = Slice(text, o + 1, c - 1)
  <2> DEFINE m == (e - 1) - (k + 1) + 1
             there == Slice(text, o + 1, c - 1)
  <2>1. /\ k + 1 \in 1..(Len(rest) + 1) /\ e - 1 \in ((k + 1) - 1)..Len(rest)
        /\ o + 1 \in 1..(Len(text) + 1) /\ c - 1 \in ((o + 1) - 1)..Len(text)
        /\ (c - 1) - (o + 1) + 1 = m /\ m \in Nat
        /\ \A i \in 1..m : /\ k + i \in 1..n /\ (k + 1) - 1 + i = k + i
                           /\ (o + 1) - 1 + i = from - 1 + (k + i)
    <3>1. n = last - from + 1 /\ last <= Len(text) /\ from >= 1
      OBVIOUS
    <3> HIDE DEF n
    <3> QED
      BY <1>1, <1>10, <1>11, <3>1
  <2>2. list \in Seq(Tokens) /\ Len(list) = m /\ \A i \in 1..m : list[i] = rest[(k + 1) - 1 + i]
    BY <1>1, <1>9, <2>1, SliceIs
  <2>3. there \in Seq(Tokens) /\ Len(there) = m /\ \A i \in 1..m : there[i] = text[(o + 1) - 1 + i]
    <3>1. /\ there \in Seq(Tokens) /\ Len(there) = (c - 1) - (o + 1) + 1
          /\ \A i \in 1..((c - 1) - (o + 1) + 1) : there[i] = text[(o + 1) - 1 + i]
      <4> HIDE DEF o, c
      <4> QED
        BY <2>1, SliceIs
    <3>2. (c - 1) - (o + 1) + 1 = m
      BY <2>1
    <3> HIDE DEF there, o, c, m
    <3> QED
      BY <3>1, <3>2
  <2> HIDE DEF there, o, c, m
  <2>4. ASSUME NEW i \in 1..m PROVE list[i] = there[i]
    <3>1. list[i] = rest[(k + 1) - 1 + i] /\ there[i] = text[(o + 1) - 1 + i]
      BY <2>2, <2>3
    <3>2. k + i \in 1..n /\ (k + 1) - 1 + i = k + i /\ (o + 1) - 1 + i = from - 1 + (k + i)
      BY <2>1
    <3>3. rest[k + i] = text[from - 1 + (k + i)]
      BY <1>1, <3>2
    <3> QED
      BY <3>1, <3>2, <3>3
  <2>5. list = [i \in 1..m |-> list[i]] /\ there = [i \in 1..m |-> there[i]]
    BY <2>2, <2>3
  <2>6. list = there
    BY <2>4, <2>5
  <2> QED
    BY <2>6 DEF there
<1> HIDE DEF o, c
<1>14. Pair(text, o, c)
  BY <1>10 DEF o, c
<1> QED
  BY <1>12, <1>13, <1>14

-----------------------------------------------------------------------------
(* What every table is.                                                     *)
Whole(text, t) ==
  /\ t.start \in Found(text, "create") /\ t.start < t.opening
  /\ \A j \in (t.start + 1)..(t.opening - 1) : Harmless(text, j)
  /\ Pair(text, t.opening, t.close)
  /\ t.end = StatementEnd(text, t.close + 1)
  /\ \E last \in t.close..Len(text) :
       /\ Closed(text, t.close + 1, last)
       /\ last = t.end - 1 \/ (last = t.end - 2 /\ text[last + 1] = "semicolon")

LEMMA EndsAfter ==
  ASSUME NEW text \in Seq(Tokens), NEW from \in 1..(Len(text) + 1), Free(text, from)
  PROVE  /\ StatementEnd(text, from) \in from..(Len(text) + 1)
         /\ \A k \in Ending(text, from) : StatementEnd(text, from) <= k + 1
         /\ \/ StatementEnd(text, from) = Len(text) + 1
            \/ StatementEnd(text, from) - 1 \in Ending(text, from)
<1> DEFINE T == {k + 1 : k \in Ending(text, from)} \cup {Len(text) + 1}
           end == StatementEnd(text, from)
<1>1. Len(text) \in Nat /\ from \in Nat
  OBVIOUS
<1>2. \A k \in Ending(text, from) : k \in from..Len(text)
  BY <1>1 DEF Ending, Found
<1>3. end = Least(T)
  BY EndingIs
<1>4. end \in T /\ \A l \in T : end <= l
  <2>1. T \subseteq Nat /\ T # {}
    BY <1>1, <1>2
  <2> HIDE DEF T, end
  <2> QED
    BY <1>3, <2>1, LeastIs
<1> HIDE DEF end
<1>5. \A k \in Ending(text, from) : end <= k + 1
  BY <1>4
<1>6. CASE end = Len(text) + 1
  BY <1>1, <1>5, <1>6 DEF end
<1>7. CASE \E k \in Ending(text, from) : end = k + 1
  <2>1. PICK k \in Ending(text, from) : end = k + 1
    BY <1>7
  <2>2. k \in from..Len(text) /\ end - 1 = k
    BY <1>2, <2>1
  <2>3. end \in from..(Len(text) + 1)
    BY <1>1, <2>1, <2>2
  <2> QED
    BY <1>5, <2>1, <2>2, <2>3 DEF end
<1> QED
  BY <1>4, <1>6, <1>7

(* Where the statement of a match is, whether it is accepted or not.        *)
LEMMA MatchHeader ==
  ASSUME Typed, Masked, pc = "match", NEW k \in NextMatch \ quoted, NEW opening \in Opening(k)
  PROVE  /\ cleaned \in Seq(Tokens) /\ Len(cleaned) \in Nat /\ DOMAIN cleaned = 1..Len(cleaned)
         /\ k \in 1..Len(cleaned) /\ k >= pos /\ k \in Found(cleaned, "create")
         /\ opening \in (k + 1)..Len(cleaned) /\ Free(cleaned, opening) /\ cleaned[opening] = "("
         /\ \A j \in (k + 1)..(opening - 1) : Harmless(cleaned, j)
<1>1. cleaned \in Seq(Tokens) /\ Len(cleaned) \in Nat /\ DOMAIN cleaned = 1..Len(cleaned)
      /\ outcome # "unterminated"
  BY DEF Typed, TypeOK
<1>2. /\ k \in 1..Len(cleaned) /\ k >= pos /\ opening \in Openings(cleaned, k)
  BY <1>1, MatchInside
<1>3. k \in Found(cleaned, "create")
  <2>1. At(cleaned, k) = "create"
    BY <1>2 DEF Openings
  <2>2. cleaned[k] = "create"
    BY <1>1, <1>2, <2>1 DEF At
  <2>3. quoted = {j \in DOMAIN cleaned : j \notin PlainFrom(cleaned, 1) \/ cleaned[j] \in Quotes}
    BY <1>1 DEF Masked, QuotedMask
  <2>4. k \in PlainFrom(cleaned, 1)
    BY <1>1, <1>2, <2>3
  <2>5. Free(cleaned, k)
    BY <2>4, PlainFromIs DEF Free
  <2> QED
    BY <1>1, <1>2, <2>2, <2>5 DEF Found
<1>4. /\ opening \in (k + 1)..Len(cleaned) /\ Free(cleaned, opening) /\ cleaned[opening] = "("
      /\ \A j \in (k + 1)..(opening - 1) : Harmless(cleaned, j)
  BY <1>1, <1>2, <1>3, Header DEF Found
<1> QED
  BY <1>1, <1>2, <1>3, <1>4

LEMMA RoundShape ==
  ASSUME Typed, Masked, pc = "match", NEW k \in NextMatch \ quoted, NEW opening \in Opening(k),
         Closings(cleaned, opening) # {}
  PROVE  LET close == Least(Closings(cleaned, opening)) IN
         /\ k \in Found(cleaned, "create") /\ k >= pos /\ k < opening
         /\ \A j \in (k + 1)..(opening - 1) : Harmless(cleaned, j)
         /\ Pair(cleaned, opening, close)
         /\ EndOf(close) = StatementEnd(cleaned, close + 1)
         /\ \E last \in close..Len(cleaned) :
              /\ last = EndOf(close) - 1 \/ (last = EndOf(close) - 2 /\ cleaned[last + 1] = "semicolon")
              /\ RestOf(close) = Slice(cleaned, close + 1, last)
<1> DEFINE close == Least(Closings(cleaned, opening))
           end == EndOf(close)
           last == IF cleaned[end - 1] = "semicolon" THEN end - 2 ELSE end - 1
<1>1. cleaned \in Seq(Tokens) /\ Len(cleaned) \in Nat /\ DOMAIN cleaned = 1..Len(cleaned)
  BY MatchHeader
<1>2. k \in 1..Len(cleaned) /\ k >= pos
  BY MatchHeader
<1>3. k \in Found(cleaned, "create")
  BY MatchHeader
<1>4. /\ opening \in (k + 1)..Len(cleaned) /\ Free(cleaned, opening) /\ cleaned[opening] = "("
      /\ \A j \in (k + 1)..(opening - 1) : Harmless(cleaned, j)
  BY MatchHeader
<1>5. opening \in Found(cleaned, "(")
  BY <1>1, <1>2, <1>4 DEF Found
<1>6. Pair(cleaned, opening, close)
  BY <1>1, <1>5, ClosingIs
<1> HIDE DEF close
<1>7. close \in (opening + 1)..Len(cleaned) /\ close + 1 \in 1..(Len(cleaned) + 1) /\ Free(cleaned, close + 1)
      /\ cleaned[close] = ")"
  BY <1>1, <1>6, PairEnds DEF Pair, Found
<1>8. end \in (close + 1)..(Len(cleaned) + 1) /\ end = StatementEnd(cleaned, close + 1)
  BY <1>1, <1>7, EndsAfter DEF EndOf
<1> HIDE DEF end
<1>9. /\ last \in close..Len(cleaned) /\ last \in ((close + 1) - 1)..Len(cleaned)
      /\ last = end - 1 \/ (last = end - 2 /\ cleaned[last + 1] = "semicolon")
  <2>1. close \in Int /\ end \in Int /\ close >= 1
    <3>1. k \in Int /\ k >= 1
      BY <1>2
    <3>2. opening \in Int /\ opening > k
      BY <1>1, <1>4, <3>1
    <3>3. close \in Int /\ close > opening
      BY <1>1, <1>7, <3>2
    <3> QED
      BY <1>1, <1>8, <3>1, <3>2, <3>3
  <2>2. CASE cleaned[end - 1] = "semicolon"
    <3>1. end - 1 # close
      BY <1>7, <2>2
    <3>2. last = end - 2 /\ last + 1 = end - 1
      BY <2>1, <2>2
    <3> HIDE DEF last
    <3> QED
      BY <1>1, <1>8, <2>1, <2>2, <3>1, <3>2
  <2>3. CASE cleaned[end - 1] # "semicolon"
    <3>1. last = end - 1
      BY <2>3
    <3> HIDE DEF last
    <3> QED
      BY <1>1, <1>8, <2>1, <3>1
  <2> QED
    BY <2>2, <2>3
<1>10. RestOf(close) = Slice(cleaned, close + 1, last)
  BY DEF RestOf, end, last
<1> HIDE DEF last
<1>11. k < opening
  BY <1>2, <1>4
<1> QED
  BY <1>2, <1>3, <1>4, <1>6, <1>8, <1>9, <1>10, <1>11 DEF close, end

(* What its tail is, when it is more than one that cannot be a tail.        *)
LEMMA RoundTail ==
  ASSUME cleaned \in Seq(Tokens), NEW opening, NEW close, Pair(cleaned, opening, close),
         NEW last \in close..Len(cleaned), RestOf(close) = Slice(cleaned, close + 1, last),
         NEW tail \in TailsOf(opening, close), tail.error # "tail"
  PROVE  /\ Closed(cleaned, close + 1, last)
         /\ \/ tail = [count |-> 0, error |-> "none"]
            \/ \E o, c : /\ Pair(cleaned, o, c) /\ Top(cleaned, close + 1, o)
                          /\ tail = Columns(Definitions(Slice(cleaned, o + 1, c - 1)),
                                            MaxColumns - Used - ColumnsOf(opening, close).count, FALSE)
<1> DEFINE rest == RestOf(close)
           max == MaxColumns - Used - ColumnsOf(opening, close).count
<1>1. /\ Len(cleaned) \in Nat /\ opening \in 1..Len(cleaned) /\ close \in (opening + 1)..Len(cleaned)
      /\ close + 1 \in 1..(Len(cleaned) + 1) /\ Free(cleaned, close + 1)
  BY PairEnds
<1>2. last \in ((close + 1) - 1)..Len(cleaned)
  BY <1>1
<1>3. tail \in TailColumns(rest, max) /\ tail # [count |-> 0, error |-> "tail"]
  BY DEF TailsOf
<1>4. rest = Slice(cleaned, close + 1, last)
  OBVIOUS
<1> HIDE DEF rest, max
<1>5. Shown(rest)
  <2>1. ASSUME NEW list \in Lists(rest) PROVE Lists(rest) # {}
    BY <2>1
  <2> QED
    BY <1>3, <2>1, TailOf, Zenon DEF Shown
<1>6. Closed(cleaned, close + 1, last)
  BY <1>1, <1>2, <1>4, <1>5, TailCloses
<1>7. \/ tail = [count |-> 0, error |-> "none"]
      \/ \E list \in Lists(rest) : tail = Columns(Definitions(list), max, FALSE)
  BY <1>3, TailOf, Zenon
<1>8. ASSUME NEW list \in Lists(rest), tail = Columns(Definitions(list), max, FALSE)
      PROVE  \E o, c : /\ Pair(cleaned, o, c) /\ Top(cleaned, close + 1, o)
                       /\ tail = Columns(Definitions(Slice(cleaned, o + 1, c - 1)), max, FALSE)
  <2>1. \E o, c : Pair(cleaned, o, c) /\ list = Slice(cleaned, o + 1, c - 1) /\ Top(cleaned, close + 1, o)
    BY <1>1, <1>2, <1>4, <1>5, <1>8, TailListed
  <2> QED
    BY <1>8, <2>1, Zenon
<1> QED
  BY <1>6, <1>7, <1>8 DEF max

LEMMA RoundWhole ==
  ASSUME Typed, Masked, pc = "match", NEW k \in NextMatch \ quoted, NEW opening \in Opening(k),
         Closings(cleaned, opening) # {}, Adds(k, opening, Least(Closings(cleaned, opening)))
  PROVE  \E t : /\ tables' = Append(tables, t) /\ Whole(cleaned, t)
                /\ t.start = k /\ t.opening = opening /\ k >= pos
                /\ cursor' = t.end /\ pos' = opening + 1 /\ UNCHANGED <<pc, outcome>>
                /\ t.close = Least(Closings(cleaned, opening))
                /\ ColumnsOf(opening, t.close).error = "none" /\ t.columns = ColumnsOf(opening, t.close).count
                /\ \E tail \in TailsOf(opening, t.close) : tail.error = "none" /\ t.partitions = tail.count
<1> DEFINE close == Least(Closings(cleaned, opening))
           end == EndOf(close)
<1>1. cleaned \in Seq(Tokens)
  BY DEF Typed
<1>2. /\ k \in Found(cleaned, "create") /\ k >= pos /\ k < opening
      /\ \A j \in (k + 1)..(opening - 1) : Harmless(cleaned, j)
      /\ Pair(cleaned, opening, close)
      /\ end = StatementEnd(cleaned, close + 1)
      /\ \E last \in close..Len(cleaned) :
           /\ last = end - 1 \/ (last = end - 2 /\ cleaned[last + 1] = "semicolon")
           /\ RestOf(close) = Slice(cleaned, close + 1, last)
  BY RoundShape
<1>3. PICK last \in close..Len(cleaned) :
        /\ last = end - 1 \/ (last = end - 2 /\ cleaned[last + 1] = "semicolon")
        /\ RestOf(close) = Slice(cleaned, close + 1, last)
  BY <1>2
<1>4. PICK tail \in TailsOf(opening, close) :
         /\ ColumnsOf(opening, close).error = "none" /\ tail.error = "none"
         /\ tables' = Append(tables, [start |-> k, opening |-> opening, close |-> close, end |-> end,
                                      columns |-> ColumnsOf(opening, close).count,
                                      partitions |-> tail.count])
         /\ cursor' = end /\ pos' = opening + 1 /\ UNCHANGED <<pc, outcome>>
  BY Zenon DEF Adds
<1> HIDE DEF close, end
<1>5. Closed(cleaned, close + 1, last)
  BY <1>1, <1>2, <1>3, <1>4, RoundTail
<1> DEFINE t == [start |-> k, opening |-> opening, close |-> close, end |-> end,
                 columns |-> ColumnsOf(opening, close).count, partitions |-> tail.count]
<1>6. /\ t.start = k /\ t.opening = opening /\ t.close = close /\ t.end = end
      /\ t.columns = ColumnsOf(opening, close).count /\ t.partitions = tail.count
      /\ tables' = Append(tables, t)
  BY <1>4
<1> HIDE DEF t
<1>7. Whole(cleaned, t)
  BY <1>2, <1>3, <1>5, <1>6 DEF Whole
<1> QED
  BY <1>2, <1>4, <1>6, <1>7 DEF close


LEMMA WholeEnds ==
  ASSUME NEW text \in Seq(Tokens), NEW t, Whole(text, t)
  PROVE  /\ Len(text) \in Nat /\ t.start \in 1..Len(text) /\ t.opening \in (t.start + 1)..Len(text)
         /\ t.close \in (t.opening + 1)..Len(text) /\ t.end \in (t.close + 1)..(Len(text) + 1)
         /\ t.start \in Int /\ t.opening \in Int /\ t.close \in Int /\ t.end \in Int
         /\ t.close + 1 \in 1..(Len(text) + 1) /\ Free(text, t.close + 1)
<1>1. Len(text) \in Nat /\ DOMAIN text = 1..Len(text)
  OBVIOUS
<1>2. t.start \in 1..Len(text) /\ t.start < t.opening
  BY <1>1 DEF Whole, Found
<1>3. /\ t.opening \in 1..Len(text) /\ t.close \in (t.opening + 1)..Len(text)
      /\ t.close + 1 \in 1..(Len(text) + 1) /\ Free(text, t.close + 1)
  BY PairEnds DEF Whole
<1>4. t.end \in (t.close + 1)..(Len(text) + 1)
  BY <1>3, EndsAfter DEF Whole
<1>5. t.start \in Int /\ t.opening \in Int
  BY <1>1, <1>2, <1>3
<1>6. t.close \in Int
  BY <1>1, <1>3, <1>5
<1>7. t.end \in Int
  BY <1>1, <1>4, <1>6
<1> QED
  BY <1>1, <1>2, <1>3, <1>4, <1>5, <1>6, <1>7

(* Where a position of a statement can be.                                  *)
LEMMA WholePlaces ==
  ASSUME NEW text \in Seq(Tokens), NEW t, Whole(text, t), NEW k \in t.start..(t.end - 1)
  PROVE  \/ k = t.start
         \/ k \in (t.start + 1)..(t.opening - 1) /\ Harmless(text, k)
         \/ k = t.opening
         \/ k \in (t.opening + 1)..(t.close - 1)
         \/ k = t.close
         \/ \E last \in t.close..Len(text) :
              /\ Closed(text, t.close + 1, last) /\ last < t.end /\ k \in (t.close + 1)..last
         \/ text[k] = "semicolon"
<1>1. /\ Len(text) \in Nat /\ t.start \in 1..Len(text) /\ t.opening \in (t.start + 1)..Len(text)
      /\ t.close \in (t.opening + 1)..Len(text) /\ t.end \in (t.close + 1)..(Len(text) + 1)
      /\ t.start \in Int /\ t.opening \in Int /\ t.close \in Int /\ t.end \in Int
  BY WholeEnds
<1>2. k \in Int
  BY <1>1
<1>3. CASE k <= t.close
  <2>1. \A j \in (t.start + 1)..(t.opening - 1) : Harmless(text, j)
    BY DEF Whole
  <2> QED
    <3>1. /\ k = t.start \/ k \in (t.start + 1)..(t.opening - 1) \/ k >= t.opening
          /\ k >= t.opening => k = t.opening \/ k \in (t.opening + 1)..(t.close - 1) \/ k = t.close
      BY <1>1, <1>2, <1>3, SMTT(20)
    <3> QED
      BY <2>1, <3>1, Zenon
<1>4. CASE k > t.close
  <2>1. PICK last \in t.close..Len(text) :
          /\ Closed(text, t.close + 1, last)
          /\ last = t.end - 1 \/ (last = t.end - 2 /\ text[last + 1] = "semicolon")
    BY DEF Whole
  <2>2. last \in Int /\ last < t.end
    BY <1>1, <2>1
  <2>3. CASE k <= last
    <3>1. k \in (t.close + 1)..last
      BY <1>1, <1>2, <1>4, <2>2, <2>3
    <3> QED
      BY <2>1, <2>2, <3>1
  <2>4. CASE k > last
    <3>1. k = last + 1 /\ last = t.end - 2
      BY <1>1, <1>2, <2>1, <2>2, <2>4
    <3>2. t.end - 2 # t.end - 1
      BY <1>1
    <3> QED
      BY <2>1, <3>1, <3>2
  <2> QED
    BY <1>2, <2>2, <2>3, <2>4
<1> QED
  BY <1>1, <1>2, <1>3, <1>4

(* A pair that opens before a statement and does not close before it closes *)
(* after it.                                                                *)
LEMMA Enclosed ==
  ASSUME NEW text \in Seq(Tokens), NEW t, Whole(text, t), NEW q, NEW p, Pair(text, q, p),
         q < t.start, t.start < p
  PROVE  p >= t.end
<1>1. /\ Len(text) \in Nat /\ t.start \in 1..Len(text) /\ t.opening \in (t.start + 1)..Len(text)
      /\ t.close \in (t.opening + 1)..Len(text) /\ t.end \in (t.close + 1)..(Len(text) + 1)
      /\ t.start \in Int /\ t.opening \in Int /\ t.close \in Int /\ t.end \in Int
  BY WholeEnds
<1>2. q \in 1..Len(text) /\ p \in (q + 1)..Len(text)
  BY PairEnds
<1>3. q \in Int /\ p \in Int
  BY <1>1, <1>2
<1>4. p \in DOMAIN text /\ text[p] = ")" /\ Free(text, p) /\ Deep(text, q, p) = 0
      /\ \A j \in q..(p - 1) : Deep(text, q, j) > 0
  BY DEF Pair, Found
<1>5. SUFFICES ASSUME p < t.end PROVE FALSE
  BY <1>1, <1>3
<1>6. p \in t.start..(t.end - 1)
  BY <1>1, <1>3, <1>5
<1>7. ASSUME NEW m \in Int, q <= m, m < p, Deep(text, m + 1, p) >= 0 PROVE FALSE
  <2>1. q <= m + 1 /\ m <= p /\ m \in q..(p - 1)
    BY <1>3, <1>7
  <2>2. Deep(text, q, p) = Deep(text, q, m) + Deep(text, m + 1, p)
        /\ Deep(text, q, m) \in Int /\ Deep(text, q, p) \in Int /\ Deep(text, m + 1, p) \in Int
    BY <1>3, <2>1, DeepSplit
  <2>3. Deep(text, q, m) > 0
    BY <1>4, <2>1
  <2> QED
    BY <1>4, <1>7, <2>2, <2>3
<1>8. ~ Harmless(text, p)
  BY <1>4 DEF Harmless, Blanks, Quotes
<1>9. text[t.opening] = "(" /\ text[p] # "(" /\ text[p] # "semicolon"
  BY <1>4 DEF Whole, Pair, Found
<1>10. CASE p \in (t.opening + 1)..t.close
  <2>1. t.opening - 1 \in Int /\ q <= t.opening - 1 /\ t.opening - 1 < p /\ (t.opening - 1) + 1 = t.opening
    BY <1>1, <1>3, <1>10
  <2>2. Deep(text, t.opening, p) >= 0
    <3>1. p = t.close \/ p \in t.opening..(t.close - 1)
      BY <1>1, <1>3, <1>10
    <3>2. Deep(text, t.opening, t.close) = 0
          /\ \A j \in t.opening..(t.close - 1) : Deep(text, t.opening, j) > 0
      BY DEF Whole, Pair
    <3>3. CASE p = t.close
      BY <3>2, <3>3
    <3>4. CASE p \in t.opening..(t.close - 1)
      <4>1. Deep(text, t.opening, p) > 0
        BY <3>2, <3>4
      <4>2. Deep(text, t.opening, p) \in Int
        BY <1>1, <1>3, <1>10, DeepSplit
      <4> QED
        BY <4>1, <4>2
    <3> QED
      BY <3>1, <3>3, <3>4
  <2> QED
    BY <1>7, <2>1, <2>2
<1>11. ASSUME NEW last \in t.close..Len(text), Closed(text, t.close + 1, last), p \in (t.close + 1)..last
       PROVE  FALSE
  <2>1. q <= t.close /\ t.close < p
    BY <1>1, <1>3, <1>11
  <2>2. Deep(text, t.close + 1, p) >= 0
    BY <1>11 DEF Closed
  <2> QED
    BY <1>1, <1>7, <2>1, <2>2
<1>12. p # t.start
  BY <1>1, <1>3
<1>13. p \in (t.opening + 1)..(t.close - 1) \/ p = t.close => p \in (t.opening + 1)..t.close
  BY <1>1
<1> QED
  BY <1>6, <1>8, <1>9, <1>10, <1>11, <1>12, <1>13, WholePlaces

(* A CREATE in a statement that is not its first word is in parentheses     *)
(* that close before the statement ends.                                    *)
LEMMA CreateInside ==
  ASSUME NEW text \in Seq(Tokens), NEW t, Whole(text, t), NEW k \in Found(text, "create"),
         k \in t.start..(t.end - 1), k # t.start
  PROVE  /\ k \in t.opening..(t.end - 1) /\ Deep(text, t.opening, k) > 0
         /\ \E q, p : Pair(text, q, p) /\ t.opening <= q /\ q < k /\ k < p
<1>1. /\ Len(text) \in Nat /\ t.start \in 1..Len(text) /\ t.opening \in (t.start + 1)..Len(text)
      /\ t.close \in (t.opening + 1)..Len(text) /\ t.end \in (t.close + 1)..(Len(text) + 1)
      /\ t.start \in Int /\ t.opening \in Int /\ t.close \in Int /\ t.end \in Int
  BY WholeEnds
<1>2. k \in DOMAIN text /\ text[k] = "create" /\ Free(text, k) /\ k \in Int /\ k < t.end
  BY <1>1 DEF Found
<1>3. ~ Harmless(text, k) /\ text[k] # "semicolon"
  BY <1>2 DEF Harmless, Blanks, Quotes
<1>4. /\ Pair(text, t.opening, t.close)
      /\ text[t.opening] = "(" /\ text[t.close] = ")" /\ Deep(text, t.opening, t.close) = 0
      /\ \A j \in t.opening..(t.close - 1) : Deep(text, t.opening, j) > 0
  BY DEF Whole, Pair, Found
<1>5. k # t.opening /\ k # t.close
  BY <1>2, <1>4
<1>6. CASE k \in (t.opening + 1)..(t.close - 1)
  <2>1. k \in t.opening..(t.close - 1) /\ k \in t.opening..(t.end - 1)
        /\ t.opening <= t.opening /\ t.opening < k /\ k < t.close
    BY <1>1, <1>2, <1>6
  <2> QED
    BY <1>4, <2>1
<1>7. ASSUME NEW last \in t.close..Len(text), Closed(text, t.close + 1, last), k \in (t.close + 1)..last
      PROVE  /\ k \in t.opening..(t.end - 1) /\ Deep(text, t.opening, k) > 0
             /\ \E q, p : Pair(text, q, p) /\ t.opening <= q /\ q < k /\ k < p
  <2> DEFINE from == t.close + 1
  <2>1. from \in Int /\ from <= k /\ k - 1 \in Int /\ t.opening <= k /\ k <= t.end - 1
    BY <1>1, <1>2, <1>7
  <2>2. /\ Deep(text, from, k) >= 0
        /\ (Deep(text, from, k - 1) = 0 => text[k] # "create")
        /\ Deep(text, from, k - 1) > 0 =>
             \E q, p : Pair(text, q, p) /\ from <= q /\ q < k /\ k <= p /\ p <= last
    BY <1>2, <1>7 DEF Closed
  <2> HIDE DEF from
  <2>3. Deep(text, from, k) = Deep(text, from, k - 1) + Turn(text[k]) /\ Deep(text, from, k - 1) \in Int
    BY <1>2, <2>1, DeepStep
  <2>4. Turn(text[k]) = 0
    BY <1>2, TurnIs
  <2>5. Deep(text, from, k - 1) > 0 /\ Deep(text, from, k) > 0
    BY <1>2, <2>2, <2>3, <2>4
  <2>6. PICK q, p : Pair(text, q, p) /\ from <= q /\ q < k /\ k <= p /\ p <= last
    BY <2>2, <2>5
  <2>7. q \in 1..Len(text) /\ p \in (q + 1)..Len(text) /\ text[p] = ")"
    BY <2>6, PairEnds DEF Pair, Found
  <2>8. k < p /\ t.opening <= q
    BY <1>1, <1>2, <2>6, <2>7 DEF from
  <2>9. Deep(text, t.opening, k) > 0
    <3>1. t.opening <= t.close + 1 /\ t.close <= k
      BY <1>1, <2>1 DEF from
    <3>2. Deep(text, t.opening, k) = Deep(text, t.opening, t.close) + Deep(text, t.close + 1, k)
          /\ Deep(text, t.close + 1, k) \in Int
      <4>1. \A x, y, z \in Int : x <= y + 1 /\ y <= z =>
              Deep(text, x, z) = Deep(text, x, y) + Deep(text, y + 1, z) /\ Deep(text, y + 1, z) \in Int
        BY DeepSplit
      <4> QED
        BY <1>1, <1>2, <3>1, <4>1
    <3> QED
      BY <1>4, <2>5, <3>2 DEF from
  <2> QED
    BY <1>1, <1>2, <2>1, <2>6, <2>8, <2>9
<1> QED
  BY <1>3, <1>5, <1>6, <1>7, WholePlaces


-----------------------------------------------------------------------------
(* The tables, one after another.  A match inside the parentheses of a      *)
(* statement that was read makes the tables overlap; then a ")" is left     *)
(* that is between no two statements, and the document is refused.          *)
Separators == Blanks \cup {"semicolon"}
Inside(k)  == \E n \in DOMAIN tables : k \in tables[n].start..(tables[n].end - 1)
Ordered ==
  /\ tables = <<>> => cursor = 1
  /\ tables # <<>> => cursor = tables[Len(tables)].end /\ pos > tables[Len(tables)].opening
  /\ \A n \in 2..Len(tables) : tables[n - 1].end <= tables[n].start
  /\ \A k \in 1..(cursor - 1) : Inside(k) \/ cleaned[k] \in Separators
Trapped == \E q, p : Pair(cleaned, q, p) /\ q < pos /\ p >= cursor
Kept ==
  /\ \E R : tables \in Seq(R)
  /\ \A n \in DOMAIN tables : Whole(cleaned, tables[n])
  /\ Ordered \/ Trapped
  /\ outcome = "parsed" => Ordered /\ Separated(cursor, Len(cleaned))

LEMMA AppendIs ==
  ASSUME NEW R, NEW s \in Seq(R), NEW e
  PROVE  /\ Append(s, e) \in Seq(R \cup {e})
         /\ Append(s, e) # <<>> /\ Len(s) \in Nat /\ Len(Append(s, e)) = Len(s) + 1
         /\ DOMAIN s = 1..Len(s) /\ DOMAIN Append(s, e) = 1..(Len(s) + 1)
         /\ Append(s, e)[Len(s) + 1] = e
         /\ \A n \in 1..Len(s) : Append(s, e)[n] = s[n]
<1>1. s \in Seq(R \cup {e}) /\ e \in R \cup {e}
  OBVIOUS
<1>2. Append(s, e) \in Seq(R \cup {e}) /\ Len(Append(s, e)) = Len(s) + 1 /\ Len(s) \in Nat
  BY <1>1
<1>3. DOMAIN s = 1..Len(s) /\ DOMAIN Append(s, e) = 1..(Len(s) + 1)
  BY <1>1, <1>2
<1>4. Append(s, e) # <<>>
  BY <1>2
<1> QED
  BY <1>1, <1>2, <1>3, <1>4

LEMMA OpeningAfter ==
  ASSUME NEW text \in Seq(Tokens), NEW k \in 1..Len(text), NEW o \in Openings(text, k)
  PROVE  o > k
<1> DEFINE first  == IdentifierEnds(text, SkipBlanks(text, k + 1))
           dots   == {d \in {SkipBlanks(text, e) : e \in first} : At(text, d) = "dot"}
           second == UNION {IdentifierEnds(text, SkipBlanks(text, d + 1)) : d \in dots}
<1>1. Len(text) \in Nat /\ k \in Nat
  OBVIOUS
<1>2. ASSUME NEW from \in 1..(Len(text) + 1) PROVE SkipBlanks(text, from) \in from..(Len(text) + 1)
  <2> DEFINE S == {l \in from..(Len(text) + 1) : At(text, l) \notin Blanks}
  <2>1. At(text, Len(text) + 1) \notin Blanks
    BY <1>1 DEF At, Blanks
  <2>2. Len(text) + 1 \in S /\ S \subseteq Nat
    BY <1>1, <2>1
  <2> HIDE DEF S
  <2>3. Least(S) \in S
    BY <2>2, LeastIs
  <2> QED
    BY <2>3 DEF S, SkipBlanks
<1>3. ASSUME NEW from \in 1..(Len(text) + 1), NEW e \in IdentifierEnds(text, from)
      PROVE  e \in (from + 1)..(Len(text) + 1)
  <2> DEFINE ends == {l \in (from + 2)..Len(text) : text[l] = "backquote"}
  <2>1. \/ At(text, from) = "word" /\ e = from + 1
        \/ \E l \in ends : e = l + 1
    BY Zenon DEF IdentifierEnds
  <2>2. At(text, from) = "word" => from \in 1..Len(text)
    BY AtPosition
  <2> QED
    BY <1>1, <2>1, <2>2
<1>4. \A e \in first : e \in (k + 2)..(Len(text) + 1)
  <2>1. SkipBlanks(text, k + 1) \in (k + 1)..(Len(text) + 1)
    BY <1>1, <1>2
  <2>2. SkipBlanks(text, k + 1) \in 1..(Len(text) + 1)
    BY <1>1, <2>1
  <2>3. \A e \in first : e \in (SkipBlanks(text, k + 1) + 1)..(Len(text) + 1)
    BY <1>3, <2>2
  <2> QED
    BY <1>1, <2>1, <2>3
<1>5. \A d \in dots : d \in (k + 2)..Len(text)
  <2> TAKE d \in dots
  <2>1. PICK e \in first : d = SkipBlanks(text, e)
    OBVIOUS
  <2>2. e \in (k + 2)..(Len(text) + 1) /\ e \in 1..(Len(text) + 1)
    BY <1>1, <1>4
  <2>3. d \in e..(Len(text) + 1)
    BY <1>2, <2>1, <2>2
  <2>4. d \in 1..Len(text)
    BY AtPosition
  <2> QED
    BY <1>1, <2>2, <2>3, <2>4
<1>6. \A e \in second : e \in (k + 2)..(Len(text) + 1)
  <2> TAKE e \in second
  <2>1. PICK d \in dots : e \in IdentifierEnds(text, SkipBlanks(text, d + 1))
    OBVIOUS
  <2>2. d \in (k + 2)..Len(text) /\ d + 1 \in 1..(Len(text) + 1)
    BY <1>1, <1>5, <2>1
  <2>3. SkipBlanks(text, d + 1) \in (d + 1)..(Len(text) + 1)
    BY <1>2, <2>2
  <2>4. SkipBlanks(text, d + 1) \in 1..(Len(text) + 1)
    BY <1>1, <2>2, <2>3
  <2>5. e \in (SkipBlanks(text, d + 1) + 1)..(Len(text) + 1)
    BY <1>3, <2>1, <2>4
  <2> QED
    BY <1>1, <2>2, <2>3, <2>5
<1>7. PICK e \in first \cup second : o = SkipBlanks(text, e)
  BY Zenon DEF Openings
<1>8. e \in (k + 2)..(Len(text) + 1) /\ e \in 1..(Len(text) + 1)
  BY <1>1, <1>4, <1>6
<1>9. o \in e..(Len(text) + 1)
  BY <1>2, <1>7, <1>8
<1> QED
  BY <1>1, <1>8, <1>9

(* A statement that was read.                                               *)
LEMMA RoundKept ==
  ASSUME Typed, Masked, Kept, pc = "match", UNCHANGED cleaned, NEW t, Whole(cleaned, t), t.start >= pos,
         Separated(cursor, t.start - 1),
         tables' = Append(tables, t), cursor' = t.end, pos' = t.opening + 1, UNCHANGED <<pc, outcome>>
  PROVE  Kept'
<1>1. cleaned \in Seq(Tokens) /\ outcome = "none" /\ pos \in Nat /\ cursor \in Nat
  BY DEF Typed, TypeOK
<1>2. PICK R : tables \in Seq(R)
  BY DEF Kept
<1>3. /\ tables' \in Seq(R \cup {t})
      /\ tables' # <<>> /\ Len(tables) \in Nat /\ Len(tables') = Len(tables) + 1
      /\ DOMAIN tables = 1..Len(tables) /\ DOMAIN tables' = 1..(Len(tables) + 1)
      /\ tables'[Len(tables) + 1] = t
      /\ \A n \in 1..Len(tables) : tables'[n] = tables[n]
  BY <1>2, AppendIs
<1>4. /\ Len(cleaned) \in Nat /\ t.start \in 1..Len(cleaned) /\ t.opening \in (t.start + 1)..Len(cleaned)
      /\ t.close \in (t.opening + 1)..Len(cleaned) /\ t.end \in (t.close + 1)..(Len(cleaned) + 1)
      /\ t.start \in Int /\ t.opening \in Int /\ t.close \in Int /\ t.end \in Int
  BY <1>1, WholeEnds
<1>5. t.start \in Found(cleaned, "create") /\ cleaned[t.start] = "create"
  BY DEF Whole, Found
<1>6. ASSUME NEW n \in DOMAIN tables' PROVE Whole(cleaned', tables'[n])
  <2>1. CASE n = Len(tables) + 1
    BY <1>3, <2>1
  <2>2. CASE n \in 1..Len(tables)
    <3>1. tables'[n] = tables[n] /\ n \in DOMAIN tables
      BY <1>3, <2>2
    <3> QED
      BY <3>1 DEF Kept
  <2> QED
    BY <1>3, <2>1, <2>2
<1>7. ASSUME NEW q, NEW p, Pair(cleaned, q, p), q < t.start, t.start < p PROVE Trapped'
  <2>1. p >= t.end
    BY <1>1, <1>7, Enclosed
  <2>2. q \in 1..Len(cleaned)
    BY <1>1, <1>7, PairEnds
  <2>3. q < pos'
    BY <1>4, <1>7, <2>2
  <2>4. Pair(cleaned', q, p)
    BY <1>7
  <2> QED
    BY <2>1, <2>3, <2>4 DEF Trapped
<1>8. ASSUME Ordered, t.start >= cursor PROVE Ordered'
  <2>1. cursor' = tables'[Len(tables')].end /\ pos' > tables'[Len(tables')].opening
    BY <1>3, <1>4
  <2>2. ASSUME NEW n \in 2..Len(tables') PROVE tables'[n - 1].end <= tables'[n].start
    <3>1. CASE n = Len(tables) + 1
      <4>1. n - 1 = Len(tables) /\ n - 1 \in 1..Len(tables) /\ tables # <<>>
        BY <1>2, <1>3, <3>1
      <4>2. tables[Len(tables)].end = cursor /\ tables'[n - 1] = tables[Len(tables)] /\ tables'[n] = t
        BY <1>3, <1>8, <3>1, <4>1 DEF Ordered
      <4> QED
        BY <1>8, <4>2
    <3>2. CASE n \in 2..Len(tables)
      <4>1. n \in 1..Len(tables) /\ n - 1 \in 1..Len(tables)
        BY <1>3, <3>2
      <4>2. tables'[n] = tables[n] /\ tables'[n - 1] = tables[n - 1]
        BY <1>3, <4>1
      <4> QED
        BY <1>8, <3>2, <4>2 DEF Ordered
    <3> QED
      BY <1>3, <3>1, <3>2
  <2>3. ASSUME NEW k \in 1..(t.end - 1)
        PROVE  \/ \E n \in DOMAIN tables' : k \in tables'[n].start..(tables'[n].end - 1)
               \/ cleaned[k] \in Separators
    <3>1. CASE k < cursor /\ Inside(k)
      <4>1. PICK n \in DOMAIN tables : k \in tables[n].start..(tables[n].end - 1)
        BY <3>1 DEF Inside
      <4>2. n \in DOMAIN tables' /\ tables'[n] = tables[n]
        BY <1>3
      <4> QED
        BY <4>1, <4>2
    <3>2. CASE k < cursor /\ ~ Inside(k)
      <4>1. k \in 1..(cursor - 1)
        BY <1>1, <1>4, <3>2
      <4> QED
        BY <1>8, <3>2, <4>1 DEF Ordered
    <3>3. CASE k >= cursor /\ k < t.start
      <4>1. k \in cursor..(t.start - 1)
        BY <1>1, <1>4, <3>3
      <4> QED
        BY <4>1 DEF Separated, Separators
    <3>4. CASE k >= t.start
      <4>1. k \in t.start..(t.end - 1) /\ Len(tables) + 1 \in DOMAIN tables'
        BY <1>3, <1>4, <3>4
      <4> QED
        BY <1>3, <4>1
    <3>5. k < cursor \/ (k >= cursor /\ k < t.start) \/ k >= t.start
      BY <1>1, <1>4
    <3> QED
      BY <3>1, <3>2, <3>3, <3>4, <3>5, Zenon
  <2>4. \A k \in 1..(cursor' - 1) : Inside(k)' \/ cleaned'[k] \in Separators
    BY <2>3 DEF Inside
  <2> QED
    BY <1>3, <2>1, <2>2, <2>4 DEF Ordered
<1>9. ASSUME Ordered, t.start < cursor PROVE Trapped'
  <2> DEFINE n == Len(tables)
             last == tables[n]
  <2>1. tables # <<>>
    BY <1>4, <1>9 DEF Ordered
  <2>2. n \in DOMAIN tables /\ n \in Int
    BY <1>2, <1>3, <2>1
  <2>3. Whole(cleaned, last) /\ cursor = last.end /\ pos > last.opening
    BY <1>9, <2>1, <2>2 DEF Kept, Ordered
  <2> HIDE DEF last
  <2>4. /\ last.start \in Int /\ last.opening \in Int /\ last.opening \in (last.start + 1)..Len(cleaned)
        /\ last.end \in Int
    BY <1>1, <2>3, WholeEnds
  <2>5. t.start \in last.start..(last.end - 1) /\ t.start # last.start
    BY <1>1, <1>4, <1>9, <2>3, <2>4, SMTT(20)
  <2>6. PICK q, p : Pair(cleaned, q, p) /\ last.opening <= q /\ q < t.start /\ t.start < p
    BY <1>1, <1>5, <2>3, <2>5, CreateInside
  <2> QED
    BY <1>7, <2>6
<1>10. ASSUME Trapped PROVE Trapped'
  <2>1. PICK q, p : Pair(cleaned, q, p) /\ q < pos /\ p >= cursor
    BY <1>10 DEF Trapped
  <2>2. q \in 1..Len(cleaned) /\ p \in (q + 1)..Len(cleaned) /\ cleaned[p] = ")"
    BY <1>1, <2>1, PairEnds DEF Pair, Found
  <2>3. q \in Int /\ p \in Int /\ q < t.start
    BY <1>1, <1>4, <2>1, <2>2
  <2>4. p # t.start
    BY <1>5, <2>2
  <2>5. ~ p < t.start
    <3>1. ")" \notin Blanks \cup {"semicolon"}
      BY DEF Blanks
    <3>2. p < t.start => p \in cursor..(t.start - 1)
      BY <1>1, <1>4, <2>1, <2>3
    <3> QED
      BY <2>2, <3>1, <3>2 DEF Separated
  <2> QED
    BY <1>4, <1>7, <2>1, <2>3, <2>4, <2>5
<1>11. Ordered' \/ Trapped'
  <2>1. Ordered \/ Trapped
    BY DEF Kept
  <2>2. t.start >= cursor \/ t.start < cursor
    BY <1>1, <1>4
  <2> QED
    BY <1>8, <1>9, <1>10, <2>1, <2>2
<1>12. \E S : tables' \in Seq(S)
  BY <1>3
<1> QED
  BY <1>1, <1>6, <1>11, <1>12 DEF Kept

LEMMA KeptStep ==
  ASSUME Typed, Masked, Kept, [Next]_vars
  PROVE  Kept'
<1>0. /\ outcome = "none" <=> pc # "ended"
      /\ pc = "clean" => tables = <<>> /\ pos = 1 /\ cursor = 1
      /\ cleaned \in Seq(Tokens) /\ pos \in Nat /\ cursor \in Nat
  BY DEF Typed, TypeOK
<1>1. CASE Clean
  <2>1. tables' = <<>> /\ cursor' = 1 /\ outcome' # "parsed" /\ tables = <<>>
    BY <1>0, <1>1 DEF Clean, Stop
  <2>2. Ordered'
    <3>1. \A k : k \notin 1..(1 - 1)
      OBVIOUS
    <3>2. Len(tables') = 0 /\ \A k : k \notin 2..0
      BY <2>1
    <3> QED
      BY <2>1, <3>1, <3>2 DEF Ordered
  <2>3. (\E R : tables' \in Seq(R)) /\ DOMAIN tables' = {}
    BY <2>1 DEF Kept
  <2> QED
    BY <2>1, <2>2, <2>3 DEF Kept
<1>2. CASE SkipQuotedMatch
  <2>1. PICK k \in NextMatch \cap quoted : \E opening \in Opening(k) : pos' = opening + 1
    BY <1>2 DEF SkipQuotedMatch
  <2>2. PICK opening \in Opening(k) : pos' = opening + 1
    BY <2>1
  <2>3. k \in 1..Len(cleaned) /\ k >= pos /\ opening \in Openings(cleaned, k) /\ opening \in 1..Len(cleaned)
    BY <1>0, <2>2, MatchInside
  <2>4. opening > k
    BY <1>0, <2>3, OpeningAfter
  <2>5. k \in Int /\ opening \in Int
    BY <2>3
  <2>6. pos' \in Int /\ pos' >= pos
    BY <1>0, <2>2, <2>3, <2>4, <2>5
  <2>7. UNCHANGED <<cleaned, tables, cursor, outcome>> /\ outcome # "parsed"
    BY <1>0, <1>2 DEF SkipQuotedMatch
  <2>8. Ordered => Ordered'
    <3>1. ASSUME Ordered, tables # <<>> PROVE pos' > tables[Len(tables)].opening
      <4>1. Len(tables) \in DOMAIN tables
        BY <3>1 DEF Kept
      <4>2. tables[Len(tables)].opening \in Int
        BY <1>0, <4>1, WholeEnds DEF Kept
      <4> QED
        BY <1>0, <2>6, <3>1, <4>2 DEF Ordered
    <3> QED
      BY <2>7, <3>1 DEF Ordered, Inside
  <2>9. Trapped => Trapped'
    <3>1. ASSUME NEW q, NEW p, Pair(cleaned, q, p), q < pos, p >= cursor PROVE Trapped'
      <4>1. q \in Int
        <5>1. q \in 1..Len(cleaned)
          BY <1>0, <3>1, PairEnds
        <5> QED
          BY <5>1
      <4>2. q < pos'
        BY <1>0, <2>6, <3>1, <4>1
      <4> QED
        BY <2>7, <3>1, <4>2 DEF Trapped
    <3> QED
      BY <3>1 DEF Trapped
  <2> QED
    BY <2>7, <2>8, <2>9 DEF Kept
<1>3. CASE ParseStatement
  <2>1. pc = "match" /\ cleaned' = cleaned
    BY <1>3, RoundOf
  <2>2. CASE Refused
    <3>1. PICK message \in Refusals : Refuse(message)
      BY <2>2 DEF Refused
    <3>2. UNCHANGED <<cursor, tables, pos>> /\ outcome' # "parsed"
      BY <3>1 DEF Refuse, Stop, Refusals
    <3>3. (Ordered => Ordered') /\ (Trapped => Trapped')
      BY <2>1, <3>2 DEF Ordered, Inside, Trapped
    <3> QED
      BY <2>1, <3>2, <3>3 DEF Kept
  <2>3. ASSUME NEW k \in NextMatch \ quoted, NEW opening \in Opening(k), Separated(cursor, k - 1),
               Closings(cleaned, opening) # {}, Adds(k, opening, Least(Closings(cleaned, opening)))
        PROVE  Kept'
    <3>1. PICK t : /\ tables' = Append(tables, t) /\ Whole(cleaned, t)
                   /\ t.start = k /\ t.opening = opening /\ k >= pos
                   /\ cursor' = t.end /\ pos' = opening + 1 /\ UNCHANGED <<pc, outcome>>
      BY <2>1, <2>3, RoundWhole
    <3>2. UNCHANGED cleaned /\ t.start >= pos /\ Separated(cursor, t.start - 1) /\ pos' = t.opening + 1
      BY <2>1, <2>3, <3>1
    <3> QED
      BY <2>1, <3>1, <3>2, RoundKept
  <2> QED
    BY <1>3, <2>2, <2>3, RoundOf
<1>4. CASE EndDocument
  <2>1. UNCHANGED <<cleaned, pos, cursor, tables>>
    BY <1>4 DEF EndDocument
  <2>2. outcome' = "parsed" => Separated(cursor, Len(cleaned))
    BY <1>4 DEF EndDocument, Stop
  <2>3. (Ordered => Ordered') /\ (Trapped => Trapped') /\ (Separated(cursor, Len(cleaned)) => Separated(cursor, Len(cleaned))')
    BY <2>1 DEF Ordered, Inside, Trapped, Separated
  <2>4. ASSUME Separated(cursor, Len(cleaned)), Trapped PROVE FALSE
    <3>1. PICK q, p : Pair(cleaned, q, p) /\ q < pos /\ p >= cursor
      BY <2>4 DEF Trapped
    <3>2. q \in 1..Len(cleaned) /\ p \in (q + 1)..Len(cleaned) /\ cleaned[p] = ")"
      BY <1>0, <3>1, PairEnds DEF Pair, Found
    <3>3. p \in cursor..Len(cleaned)
      BY <1>0, <3>1, <3>2
    <3>4. ")" \notin Blanks \cup {"semicolon"}
      BY DEF Blanks
    <3> QED
      BY <2>4, <3>2, <3>3, <3>4 DEF Separated
  <2> QED
    BY <2>1, <2>2, <2>3, <2>4 DEF Kept
<1>5. CASE Finished \/ UNCHANGED vars
  <2>1. UNCHANGED <<cleaned, pos, cursor, tables, outcome>>
    BY <1>5 DEF Finished, vars
  <2>2. (Ordered => Ordered') /\ (Trapped => Trapped') /\ (Separated(cursor, Len(cleaned)) => Separated(cursor, Len(cleaned))')
    BY <2>1 DEF Ordered, Inside, Trapped, Separated
  <2> QED
    BY <2>1, <2>2 DEF Kept
<1> QED
  BY <1>1, <1>2, <1>3, <1>4, <1>5 DEF Next

LEMMA KeptInvariant == Spec => []Kept
<1>1. Init => Kept
  <2> SUFFICES ASSUME Init PROVE Kept
    OBVIOUS
  <2>1. tables = <<>> /\ cursor = 1 /\ outcome = "none"
    BY DEF Init
  <2>2. Ordered
    <3>1. \A k : k \notin 1..(1 - 1)
      OBVIOUS
    <3>2. Len(tables) = 0 /\ \A k : k \notin 2..0
      BY <2>1
    <3> QED
      BY <2>1, <3>1, <3>2 DEF Ordered
  <2>3. tables \in Seq({}) /\ DOMAIN tables = {}
    BY <2>1
  <2> QED
    BY <2>1, <2>2, <2>3 DEF Kept
<1>2. Typed /\ Masked /\ Kept /\ [Next]_vars => Kept'
  BY KeptStep
<1> QED
  BY <1>1, <1>2, TypedInvariant, MaskedInvariant, PTL DEF Spec


(* Outside quotes and comments of the document is outside quotes of the     *)
(* cleaned text, but for blanks.                                            *)
LEMMA OutsideIs ==
  ASSUME Typed, Masked, pc # "clean", outcome # "unterminated"
  PROVE  /\ DOMAIN cleaned = 1..Len(sql) /\ DOMAIN sql = 1..Len(sql) /\ Len(cleaned) = Len(sql)
         /\ Len(sql) \in Nat
         /\ \A k \in 1..Len(sql) : k \notin InQuotes <=> Free(cleaned, k) /\ cleaned[k] \notin Quotes
         /\ \A token : token \notin Quotes \cup Blanks => Outside(token) = Found(cleaned, token)
<1>1. sql \in Seq(Tokens) /\ cleaned \in Seq(Tokens)
  BY DEF Typed
<1>2. /\ WithoutComments(sql).complete /\ cleaned = WithoutComments(sql).text
      /\ quoted = QuotedMask(cleaned)
  BY DEF Masked
<1>3. /\ QuotedMask(cleaned) = InQuotes
      /\ cleaned = [k \in DOMAIN sql |-> IF k \in Commented /\ sql[k] # "nl" THEN "blank" ELSE sql[k]]
  BY <1>1, <1>2, WholeReading
<1>4. /\ DOMAIN cleaned = 1..Len(sql) /\ DOMAIN sql = 1..Len(sql) /\ Len(sql) \in Nat
      /\ DOMAIN cleaned = 1..Len(cleaned) /\ Len(cleaned) \in Nat
  BY <1>1, <1>3
<1>5. Len(cleaned) = Len(sql)
  BY <1>4
<1>6. ASSUME NEW k \in 1..Len(sql)
      PROVE  k \notin InQuotes <=> Free(cleaned, k) /\ cleaned[k] \notin Quotes
  <2>1. InQuotes = {j \in DOMAIN cleaned : j \notin PlainFrom(cleaned, 1) \/ cleaned[j] \in Quotes}
    BY <1>3 DEF QuotedMask
  <2>2. k \in 1..(Len(cleaned) + 1)
    BY <1>4, <1>5
  <2>3. k \in PlainFrom(cleaned, 1) <=> Free(cleaned, k)
    BY <2>2, PlainFromIs DEF Free
  <2> QED
    BY <1>4, <2>1, <2>3
<1>7. ASSUME NEW token, token \notin Quotes \cup Blanks, NEW k
      PROVE  k \in Outside(token) <=> k \in Found(cleaned, token)
  <2>1. k \in 1..Len(sql) =>
          cleaned[k] = IF k \in Commented /\ sql[k] # "nl" THEN "blank" ELSE sql[k]
    BY <1>3, <1>4
  <2>2. token # "blank" /\ token # "nl"
    BY <1>7 DEF Blanks
  <2>3. ASSUME k \in Outside(token) PROVE k \in Found(cleaned, token)
    <3>1. k \in 1..Len(sql) /\ k \notin InQuotes /\ k \notin Commented /\ sql[k] = token
      BY <1>4, <2>3 DEF Outside
    <3>2. cleaned[k] = token
      BY <2>1, <3>1
    <3> QED
      BY <1>4, <1>6, <3>1, <3>2 DEF Found
  <2>4. ASSUME k \in Found(cleaned, token) PROVE k \in Outside(token)
    <3>1. k \in 1..Len(sql) /\ Free(cleaned, k) /\ cleaned[k] = token
      BY <1>4, <2>4 DEF Found
    <3>2. k \notin InQuotes
      BY <1>6, <1>7, <3>1
    <3>3. ~ (k \in Commented /\ sql[k] # "nl") /\ sql[k] = token
      BY <2>1, <2>2, <3>1
    <3>4. k \notin Commented
      BY <2>2, <3>3
    <3> QED
      BY <1>4, <3>1, <3>2, <3>3, <3>4 DEF Outside
  <2> QED
    BY <2>3, <2>4
<1>8. \A token : token \notin Quotes \cup Blanks => Outside(token) = Found(cleaned, token)
  <2> TAKE token
  <2> HAVE token \notin Quotes \cup Blanks
  <2>1. Outside(token) \subseteq DOMAIN sql /\ Found(cleaned, token) \subseteq DOMAIN cleaned
    BY DEF Outside, Found
  <2> QED
    BY <1>7, <2>1
<1> QED
  BY <1>4, <1>5, <1>6, <1>8

LEMMA DepthIs ==
  ASSUME Typed, Masked, pc # "clean", outcome # "unterminated"
  PROVE  /\ \A from, to : Depth(from, to) = Deep(cleaned, from, to)
         /\ \A token \in {"create", "(", ")", "semicolon"} : Outside(token) = Found(cleaned, token)
<1>1. \A token \in {"create", "(", ")", "semicolon"} : token \notin Quotes \cup Blanks
  BY DEF Quotes, Blanks
<1>2. \A token \in {"create", "(", ")", "semicolon"} : Outside(token) = Found(cleaned, token)
  BY <1>1, OutsideIs
<1> QED
  BY <1>2 DEF Depth, Deep

(* A statement ends where the reading of the whole document says.           *)
LEMMA WholeInDocument ==
  ASSUME Typed, Masked, pc # "clean", outcome # "unterminated", NEW t, Whole(cleaned, t)
  PROVE  /\ t.start \in Outside("create") /\ t.opening \in Outside("(")
         /\ t.close = Least({k \in Outside(")") : k > t.start /\ Depth(t.opening, k) = 0})
         /\ t.end = Least({k \in 1..(Len(sql) + 1) : \/ k = Len(sql) + 1
                                                     \/ k - 1 > t.close /\ k - 1 \in Outside("semicolon")})
<1>1. /\ cleaned \in Seq(Tokens) /\ Len(cleaned) = Len(sql) /\ DOMAIN cleaned = 1..Len(sql)
  BY OutsideIs DEF Typed
<1>2. /\ \A from, to : Depth(from, to) = Deep(cleaned, from, to)
      /\ Outside("create") = Found(cleaned, "create") /\ Outside("(") = Found(cleaned, "(")
      /\ Outside(")") = Found(cleaned, ")") /\ Outside("semicolon") = Found(cleaned, "semicolon")
  BY DepthIs
<1>3. /\ Len(cleaned) \in Nat /\ t.start \in 1..Len(cleaned) /\ t.opening \in (t.start + 1)..Len(cleaned)
      /\ t.close \in (t.opening + 1)..Len(cleaned) /\ t.end \in (t.close + 1)..(Len(cleaned) + 1)
      /\ t.start \in Int /\ t.opening \in Int /\ t.close \in Int /\ t.end \in Int
      /\ t.close + 1 \in 1..(Len(cleaned) + 1) /\ Free(cleaned, t.close + 1)
  BY <1>1, WholeEnds
<1>4. t.start \in Outside("create") /\ t.opening \in Outside("(")
  BY <1>2 DEF Whole, Pair
<1>5. t.close = Least({k \in Outside(")") : k > t.start /\ Depth(t.opening, k) = 0})
  <2> DEFINE X == {k \in Outside(")") : k > t.start /\ Depth(t.opening, k) = 0}
  <2>1. t.close \in Found(cleaned, ")") /\ Deep(cleaned, t.opening, t.close) = 0 /\ cleaned[t.opening] = "("
        /\ \A j \in t.opening..(t.close - 1) : Deep(cleaned, t.opening, j) > 0
    BY DEF Whole, Pair, Found
  <2>2. t.close \in X
    BY <1>2, <1>3, <2>1
  <2>3. X \subseteq Nat
    BY <1>1, <1>2 DEF Found
  <2>4. ASSUME NEW k \in X PROVE t.close <= k
    <3>1. k \in Nat /\ cleaned[k] = ")" /\ Free(cleaned, k) /\ k > t.start /\ Deep(cleaned, t.opening, k) = 0
      BY <1>2, <2>3 DEF Found
    <3>2. ~ Harmless(cleaned, k)
      BY <3>1 DEF Harmless, Blanks, Quotes
    <3>3. k \notin (t.start + 1)..(t.opening - 1)
      BY <3>2 DEF Whole
    <3>4. k \notin t.opening..(t.close - 1)
      BY <2>1, <3>1
    <3> QED
      BY <1>3, <3>1, <3>3, <3>4
  <2> HIDE DEF X
  <2>5. Least(X) = t.close
    BY <2>2, <2>3, <2>4, LeastIsOnly
  <2> QED
    BY <2>5 DEF X
<1>6. t.end = Least({k \in 1..(Len(sql) + 1) : \/ k = Len(sql) + 1
                                               \/ k - 1 > t.close /\ k - 1 \in Outside("semicolon")})
  <2> DEFINE X == {k \in 1..(Len(sql) + 1) : \/ k = Len(sql) + 1
                                             \/ k - 1 > t.close /\ k - 1 \in Outside("semicolon")}
             from == t.close + 1
  <2>1. t.end = StatementEnd(cleaned, from)
    BY DEF Whole
  <2> HIDE DEF from
  <2>2. /\ \A k \in Ending(cleaned, from) : t.end <= k + 1
        /\ \/ t.end = Len(cleaned) + 1
           \/ t.end - 1 \in Ending(cleaned, from)
    BY <1>1, <1>3, <2>1, EndsAfter DEF from
  <2>3. X \subseteq Nat
    BY <1>1, <1>3
  <2>4. t.end \in X
    <3>1. t.end \in 1..(Len(sql) + 1)
      BY <1>1, <1>3
    <3>2. CASE t.end = Len(cleaned) + 1
      BY <1>1, <3>1, <3>2
    <3>3. CASE t.end - 1 \in Ending(cleaned, from)
      <4>1. t.end - 1 \in Outside("semicolon") /\ t.end - 1 >= from
        BY <1>2, <3>3 DEF Ending
      <4>2. t.end - 1 > t.close
        BY <1>3, <4>1 DEF from
      <4> QED
        BY <3>1, <4>1, <4>2
    <3> QED
      BY <2>2, <3>2, <3>3
  <2>5. ASSUME NEW k \in X PROVE t.end <= k
    <3>1. k \in Nat
      BY <2>3
    <3>2. CASE k = Len(sql) + 1
      BY <1>1, <1>3, <3>2
    <3>3. CASE k - 1 > t.close /\ k - 1 \in Outside("semicolon")
      <4>1. k - 1 >= from
        BY <1>3, <3>1, <3>3 DEF from
      <4>2. k - 1 \in Ending(cleaned, from)
        BY <1>2, <3>3, <4>1 DEF Ending
      <4>3. t.end <= (k - 1) + 1
        BY <2>2, <4>2
      <4> QED
        BY <3>1, <4>3
    <3> QED
      BY <3>2, <3>3
  <2> HIDE DEF X
  <2>6. Least(X) = t.end
    BY <2>3, <2>4, <2>5, LeastIsOnly
  <2> QED
    BY <2>6 DEF X
<1> QED
  BY <1>4, <1>5, <1>6

(* Each statement that is read starts, opens and closes outside the quotes  *)
(* and comments of the whole document, and ends at the first semicolon      *)
(* there that can end it: the loop that looks for the parenthesis, and the  *)
(* one that looks for the semicolon, start in the middle of the document    *)
(* and lose nothing by it.                                                  *)
THEOREM StatementsEndRight == Spec => []StatementsAreWhole
<1>1. Typed /\ Masked /\ Kept => StatementsAreWhole
  <2> SUFFICES ASSUME Typed, Masked, Kept, NEW n \in DOMAIN tables
               PROVE  LET t == tables[n] IN
                        /\ t.start \in Outside("create") /\ t.opening \in Outside("(")
                        /\ t.close = Least({k \in Outside(")") : k > t.start /\ Depth(t.opening, k) = 0})
                        /\ t.end = Least({k \in 1..(Len(sql) + 1) :
                                            \/ k = Len(sql) + 1
                                            \/ k - 1 > t.close /\ k - 1 \in Outside("semicolon")})
    BY DEF StatementsAreWhole
  <2>1. tables # <<>>
    OBVIOUS
  <2>2. pc # "clean" /\ outcome # "unterminated"
    BY <2>1 DEF Typed, Masked
  <2>3. Whole(cleaned, tables[n])
    BY DEF Kept
  <2> QED
    BY <2>2, <2>3, WholeInDocument
<1> QED
  BY <1>1, TypedInvariant, MaskedInvariant, KeptInvariant, PTL

(* A document that is accepted is nothing but its tables, in order and      *)
(* apart: no CREATE TABLE outside quotes and comments is passed over.       *)
THEOREM NoStatementIsLost == Spec => []NothingLost
<1>1. Typed /\ Masked /\ Kept => NothingLost
  <2> SUFFICES ASSUME Typed, Masked, Kept, outcome = "parsed" PROVE NothingLost
    BY DEF NothingLost
  <2> DEFINE inside == UNION {tables[n].start..(tables[n].end - 1) : n \in DOMAIN tables}
  <2>1. pc # "clean" /\ outcome # "unterminated" /\ cleaned \in Seq(Tokens) /\ cursor \in Nat
    BY DEF Typed, TypeOK
  <2>2. /\ DOMAIN cleaned = 1..Len(sql) /\ DOMAIN sql = 1..Len(sql) /\ Len(cleaned) = Len(sql)
        /\ Len(sql) \in Nat
        /\ \A k \in 1..Len(sql) : k \notin InQuotes <=> Free(cleaned, k) /\ cleaned[k] \notin Quotes
    BY <2>1, OutsideIs
  <2>3. \A from, to : Depth(from, to) = Deep(cleaned, from, to)
    BY <2>1, DepthIs
  <2>4. Ordered /\ Separated(cursor, Len(cleaned))
    BY DEF Kept
  <2>5. \A k : k \in inside <=> Inside(k)
    BY DEF Inside
  <2> HIDE DEF inside
  <2>6. \A n \in 2..Len(tables) : tables[n - 1].end <= tables[n].start
    BY <2>4 DEF Ordered
  <2>7. ASSUME NEW k \in DOMAIN sql, ~ Inside(k) PROVE cleaned[k] \in Blanks \cup {"semicolon"}
    <3>1. k \in 1..(cursor - 1) \/ k \in cursor..Len(cleaned)
      BY <2>1, <2>2
    <3> QED
      BY <2>4, <2>7, <3>1 DEF Ordered, Separated, Separators
  <2>8. ASSUME NEW k \in DOMAIN sql \ InQuotes, cleaned[k] = "create"
        PROVE  \E n \in DOMAIN tables :
                 \/ k = tables[n].start
                 \/ k \in tables[n].opening..(tables[n].end - 1) /\ Depth(tables[n].opening, k) > 0
    <3>1. k \in Found(cleaned, "create")
      BY <2>2, <2>8 DEF Found
    <3>2. "create" \notin Blanks \cup {"semicolon"}
      BY DEF Blanks
    <3>3. PICK n \in DOMAIN tables : k \in tables[n].start..(tables[n].end - 1)
      BY <2>7, <2>8, <3>2 DEF Inside
    <3>4. Whole(cleaned, tables[n])
      BY DEF Kept
    <3>5. k = tables[n].start \/ (k \in tables[n].opening..(tables[n].end - 1)
                                  /\ Deep(cleaned, tables[n].opening, k) > 0)
      BY <2>1, <3>1, <3>3, <3>4, CreateInside
    <3> QED
      BY <2>3, <3>5
  <2> QED
    BY <2>5, <2>6, <2>7, <2>8 DEF NothingLost, inside
<1> QED
  BY <1>1, TypedInvariant, MaskedInvariant, KeptInvariant, PTL


-----------------------------------------------------------------------------
(* The limits.  First how many elements a set has.                          *)
LEMMA CountApart ==
  ASSUME NEW S, NEW T, IsFiniteSet(S), IsFiniteSet(T), S \cap T = {}
  PROVE  /\ IsFiniteSet(S \cup T) /\ Cardinality(S) \in Nat /\ Cardinality(T) \in Nat
         /\ Cardinality(S \cup T) = Cardinality(S) + Cardinality(T)
<1>1. IsFiniteSet(S \cup T) /\ Cardinality(S \cup T) = Cardinality(S) + Cardinality(T) - Cardinality({})
  BY FS_Union
<1>2. Cardinality(S) \in Nat /\ Cardinality(T) \in Nat /\ Cardinality({}) = 0
  BY FS_CardinalityType, FS_EmptySet
<1> QED
  BY <1>1, <1>2

LEMMA CountInto ==
  ASSUME NEW S, NEW T, IsFiniteSet(T), NEW f \in [S -> T], \A a, b \in S : f[a] = f[b] => a = b
  PROVE  /\ IsFiniteSet(S) /\ Cardinality(S) \in Nat /\ Cardinality(T) \in Nat
         /\ Cardinality(S) <= Cardinality(T)
<1>1. f \in Injection(S, T)
  BY Fun_IsInj
<1>2. IsFiniteSet(S) /\ Cardinality(S) <= Cardinality(T)
  BY <1>1, FS_Injection
<1> QED
  BY <1>2, FS_CardinalityType

(* What the tables have used: column_count.                                 *)
UsedEquation(s, count) ==
  count = [n \in 0..Len(s) |-> IF n = 0 THEN 0 ELSE count[n - 1] + s[n].columns + s[n].partitions]
UsedBy(s) == CHOOSE count : UsedEquation(s, count)
Listing(s) ==
  /\ Len(s) \in Nat /\ DOMAIN s = 1..Len(s)
  /\ \A n \in 1..Len(s) : s[n].columns \in Nat /\ s[n].partitions \in Nat

LEMMA UsedIs == Used = UsedBy(tables)[Len(tables)]
  BY Zenon DEF Used, UsedBy, UsedEquation

LEMMA UsedRuns ==
  ASSUME NEW s, Listing(s)
  PROVE  /\ UsedBy(s) \in [0..Len(s) -> Nat] /\ UsedBy(s)[0] = 0
         /\ \A n \in 1..Len(s) : UsedBy(s)[n] = UsedBy(s)[n - 1] + s[n].columns + s[n].partitions
<1> DEFINE D == 0..Len(s)
           next == [n \in D |-> [a \in Nat |-> IF n = 0 THEN a ELSE a + s[n].columns + s[n].partitions]]
           C == UsedBy(s)
<1>1. Len(s) \in Nat /\ 0 \in D /\ \A n \in 1..Len(s) : s[n].columns \in Nat /\ s[n].partitions \in Nat
  BY DEF Listing
<1>2. ASSUME NEW n \in D, NEW a \in Nat
      PROVE  (IF n = 0 THEN a ELSE a + s[n].columns + s[n].partitions) \in Nat
  <2>1. n # 0 => n \in 1..Len(s)
    BY <1>1
  <2> QED
    BY <1>1, <2>1
<1>3. next \in [D -> [Nat -> Nat]]
  <2> HIDE DEF D
  <2> QED
    BY <1>2
<1>4. Iterates(0, Len(s), Nat, 0, next)
  <2> HIDE DEF next
  <2> QED
    BY <1>1, <1>3 DEF Iterates
<1>5. PICK count \in [D -> Nat] : \A n \in D : count[n] = IF n = 0 THEN 0 ELSE next[n][count[n - 1]]
  <2> HIDE DEF next
  <2> QED
    BY <1>4, Iteration
<1>6. ASSUME NEW n \in D, n # 0 PROVE n - 1 \in D /\ count[n - 1] \in Nat
  BY <1>1, <1>6
<1>7. \A n \in D : count[n] = IF n = 0 THEN 0 ELSE count[n - 1] + s[n].columns + s[n].partitions
  <2> HIDE DEF D
  <2> QED
    BY <1>5, <1>6
<1>8. UsedEquation(s, count)
  <2> HIDE DEF next
  <2> QED
    BY <1>7 DEF UsedEquation
<1>9. UsedEquation(s, C)
  BY <1>8, Zenon DEF UsedBy
<1> HIDE DEF C, next
<1>10. \A n \in D : C[n] = IF n = 0 THEN 0 ELSE C[n - 1] + s[n].columns + s[n].partitions
  BY <1>9 DEF UsedEquation
<1>11. ASSUME NEW n \in D, n # 0, C[n - 1] \in Nat PROVE C[n] = next[n][C[n - 1]]
  <2>1. C[n] = C[n - 1] + s[n].columns + s[n].partitions
    BY <1>10, <1>11
  <2> QED
    BY <1>11, <2>1 DEF next
<1>12. C \in [D -> Nat]
  <2>1. C = [n \in D |-> C[n]]
    BY <1>9, <1>10 DEF UsedEquation
  <2>2. C[0] = 0
    BY <1>1, <1>10
  <2>3. Unrolls(0, Len(s), Nat, 0, next, C)
    BY <1>4, <1>11, <2>1, <2>2 DEF Unrolls
  <2> QED
    BY <2>3, Unrolling
<1>13. C[0] = 0
  BY <1>1, <1>10
<1>14. ASSUME NEW n \in 1..Len(s) PROVE C[n] = C[n - 1] + s[n].columns + s[n].partitions
  <2>1. n \in D /\ n # 0
    BY <1>1
  <2> QED
    BY <1>10, <2>1
<1> QED
  BY <1>12, <1>13, <1>14 DEF C

(* One table more.                                                          *)
LEMMA UsedAppend ==
  ASSUME NEW s, NEW r, Listing(s), Listing(r), Len(r) = Len(s) + 1, \A n \in 1..Len(s) : r[n] = s[n]
  PROVE  /\ UsedBy(r)[Len(r)] = UsedBy(s)[Len(s)] + r[Len(r)].columns + r[Len(r)].partitions
         /\ UsedBy(s)[Len(s)] \in Nat
<1> DEFINE P == {n \in 0..Len(s) : UsedBy(r)[n] = UsedBy(s)[n]}
<1>1. Len(s) \in Nat /\ Len(s) \in 0..Len(s) /\ Len(r) \in 1..Len(r) /\ Len(r) - 1 = Len(s)
  BY DEF Listing
<1>2. 0 \in P
  BY <1>1, UsedRuns
<1>3. ASSUME NEW n \in 0..Len(s), n # 0, n - 1 \in P PROVE n \in P
  <2>1. n \in 1..Len(s) /\ n \in 1..Len(r) /\ r[n] = s[n]
    BY <1>1, <1>3
  <2>2. UsedBy(r)[n] = UsedBy(r)[n - 1] + r[n].columns + r[n].partitions
    BY <2>1, UsedRuns
  <2>3. UsedBy(s)[n] = UsedBy(s)[n - 1] + s[n].columns + s[n].partitions
    BY <2>1, UsedRuns
  <2> QED
    BY <1>3, <2>1, <2>2, <2>3
<1> HIDE DEF P
<1>4. 0..Len(s) \subseteq P
  <2>1. Hereditary(0, Len(s), P)
    BY <1>1, <1>2, <1>3 DEF Hereditary
  <2> QED
    BY <2>1, IntervalInduction
<1>5. UsedBy(r)[Len(s)] = UsedBy(s)[Len(s)]
  BY <1>1, <1>4 DEF P
<1>6. UsedBy(r)[Len(r)] = UsedBy(r)[Len(r) - 1] + r[Len(r)].columns + r[Len(r)].partitions
  BY <1>1, UsedRuns
<1>7. UsedBy(s)[Len(s)] \in Nat
  BY <1>1, UsedRuns
<1> QED
  BY <1>1, <1>5, <1>6, <1>7

(* One element for each column.                                             *)
ColumnsUpTo(s, m) == UNION {{n} \X (1..(s[n].columns + s[n].partitions)) : n \in 1..m}

LEMMA ColumnsCounted ==
  ASSUME NEW s, Listing(s)
  PROVE  Cardinality(ColumnsUpTo(s, Len(s))) = UsedBy(s)[Len(s)]
<1> DEFINE K(m) == ColumnsUpTo(s, m)
           P == {m \in 0..Len(s) : IsFiniteSet(K(m)) /\ Cardinality(K(m)) = UsedBy(s)[m]}
<1>1. Len(s) \in Nat /\ \A n \in 1..Len(s) : s[n].columns \in Nat /\ s[n].partitions \in Nat
  BY DEF Listing
<1>2. 0 \in P
  <2>1. K(0) = {}
    BY DEF ColumnsUpTo
  <2>2. 0 \in 0..Len(s) /\ UsedBy(s)[0] = 0
    BY <1>1, UsedRuns
  <2> HIDE DEF K
  <2> QED
    BY <2>1, <2>2, FS_EmptySet
<1>3. ASSUME NEW m \in 0..Len(s), m # 0, m - 1 \in P PROVE m \in P
  <2> DEFINE x == s[m].columns + s[m].partitions
             New == {m} \X (1..x)
  <2>1. m \in 1..Len(s) /\ x \in Nat /\ m - 1 \in 0..Len(s) /\ m \in Int
    BY <1>1, <1>3
  <2>2. K(m) = K(m - 1) \cup New
    <3>1. 1..m = 1..(m - 1) \cup {m}
      BY <2>1
    <3> QED
      BY <3>1, Zenon DEF ColumnsUpTo
  <2>3. K(m - 1) \cap New = {}
    <3>1. SUFFICES ASSUME NEW e \in K(m - 1), e \in New PROVE FALSE
      OBVIOUS
    <3>2. PICK n \in 1..(m - 1) : e \in {n} \X (1..(s[n].columns + s[n].partitions))
      BY DEF ColumnsUpTo
    <3>3. e[1] = n /\ e[1] = m
      BY <3>1, <3>2
    <3> QED
      BY <2>1, <3>2, <3>3
  <2>4. IsFiniteSet(New) /\ Cardinality(New) = x
    <3> HIDE DEF x
    <3>1. IsFiniteSet({m}) /\ Cardinality({m}) = 1
      BY FS_Singleton
    <3>2. IsFiniteSet(1..x) /\ Cardinality(1..x) = IF 1 > x THEN 0 ELSE x - 1 + 1
      <4>1. 1 \in Int /\ x \in Int
        BY <2>1
      <4> QED
        BY <4>1, FS_Interval
    <3>3. IsFiniteSet(New) /\ Cardinality(New) = Cardinality({m}) * Cardinality(1..x)
      BY <3>1, <3>2, FS_Product
    <3>4. Cardinality(1..x) = x
      BY <2>1, <3>2
    <3> HIDE DEF New
    <3> QED
      BY <2>1, <3>1, <3>3, <3>4
  <2>5. IsFiniteSet(K(m - 1)) /\ Cardinality(K(m - 1)) = UsedBy(s)[m - 1]
    BY <1>3
  <2>6. UsedBy(s)[m] = UsedBy(s)[m - 1] + s[m].columns + s[m].partitions /\ UsedBy(s)[m - 1] \in Nat
    BY <2>1, UsedRuns
  <2>7. s[m].columns \in Nat /\ s[m].partitions \in Nat
    BY <1>1, <2>1
  <2> HIDE DEF K, New
  <2>8. IsFiniteSet(K(m)) /\ Cardinality(K(m)) = Cardinality(K(m - 1)) + Cardinality(New)
    BY <2>2, <2>3, <2>4, <2>5, CountApart
  <2>9. Cardinality(K(m)) = UsedBy(s)[m]
    BY <2>4, <2>5, <2>6, <2>7, <2>8
  <2> QED
    BY <2>8, <2>9
<1> HIDE DEF P
<1>4. 0..Len(s) \subseteq P
  <2>1. Hereditary(0, Len(s), P)
    BY <1>1, <1>2, <1>3 DEF Hereditary
  <2> QED
    BY <2>1, IntervalInduction
<1>5. Len(s) \in 0..Len(s)
  BY <1>1
<1> QED
  BY <1>4, <1>5 DEF P


(* A definition ends at a comma outside quotes and parentheses, or with the *)
(* text; no two end at the same place.                                      *)
Commas(text) == {k \in Found(text, "comma") : Deep(text, 1, k - 1) = 0}

LEMMA DefinitionsEnd ==
  ASSUME NEW text \in Seq(Tokens)
  PROVE  /\ \A d \in Definitions(text) : d.end \in Commas(text) \cup {Len(text) + 1}
         /\ \A d, e \in Definitions(text) : d.end = e.end => d = e
<1> DEFINE L == Levels(text, 1)
           last == Len(text) + 1
           cuts == {k \in DOMAIN text : L[k + 1].from > L[k].from}
           whole == L[last].scan = Plain /\ L[last].round = 0 /\ L[last].angle = 0
           inner(k) == Strip(Slice(text, L[k].from, k - 1))
           outer == IF whole THEN inner(last) ELSE <<>>
           body(k) == IF k = last THEN outer ELSE inner(k)
<1>1. Len(text) \in Nat /\ 1 \in 1..(Len(text) + 1) /\ DOMAIN text = 1..Len(text) /\ last \notin DOMAIN text
  OBVIOUS
<1>2. Free(text, 1)
  BY <1>1, ScanStatesRun DEF Free
<1>3. \A k \in 1..(Len(text) + 1) : L[k].round = Deep(text, 1, k - 1) /\ (L[k].scan = Plain <=> Free(text, k))
  BY <1>1, <1>2, LevelsRound
<1>4. L \in [1..(Len(text) + 1) -> LevelStates]
      /\ \A k \in 1..Len(text) : L[k + 1] = LevelStep(text, k, L[k])
  BY <1>1, LevelsRun
<1>5. Definitions(text) = {[end |-> p.end, kind |-> Definition(p.body)] : p \in Parts(text, L)}
  <2>1. UNION {Parts(text, level) : level \in {L}} = Parts(text, L)
    <3> HIDE DEF L
    <3> QED
      OBVIOUS
  <2> QED
    BY <2>1, Zenon DEF Definitions
<1>6. Parts(text, L) = {[end |-> k, body |-> inner(k)] : k \in cuts} \cup {[end |-> last, body |-> outer]}
  BY Zenon DEF Parts
<1> HIDE DEF L
<1>7. cuts \subseteq Commas(text)
  <2> SUFFICES ASSUME NEW k \in cuts PROVE k \in Commas(text)
    OBVIOUS
  <2>1. k \in 1..Len(text) /\ k \in 1..(Len(text) + 1) /\ L[k] \in LevelStates
    BY <1>1, <1>4
  <2>2. L[k + 1].from
          = IF L[k].scan = Plain /\ text[k] = "comma" /\ L[k].round = 0 /\ L[k].angle = 0 THEN k + 1 ELSE L[k].from
    BY <1>4, <2>1, LevelStepIs
  <2>3. L[k].from \in Int
    BY <2>1 DEF LevelStates
  <2>4. L[k].scan = Plain /\ text[k] = "comma" /\ L[k].round = 0
    BY <2>2, <2>3
  <2> QED
    BY <1>1, <1>3, <2>1, <2>4 DEF Commas, Found
<1> HIDE DEF cuts, inner, outer, whole, last
<1>8. ASSUME NEW d \in Definitions(text)
      PROVE  d.end \in cuts \cup {last} /\ d = [end |-> d.end, kind |-> Definition(body(d.end))]
  <2>1. PICK p \in Parts(text, L) : d = [end |-> p.end, kind |-> Definition(p.body)]
    BY <1>5
  <2>2. CASE p = [end |-> last, body |-> outer]
    <3>1. p.end = last /\ p.body = body(last)
      BY <2>2
    <3> HIDE DEF body
    <3> QED
      BY <2>1, <3>1
  <2>3. CASE \E k \in cuts : p = [end |-> k, body |-> inner(k)]
    <3>1. PICK k \in cuts : p = [end |-> k, body |-> inner(k)]
      BY <2>3
    <3>2. k # last
      BY <1>1, <3>1 DEF cuts
    <3>3. p.end = k /\ p.body = body(k)
      BY <3>1, <3>2
    <3> HIDE DEF body
    <3> QED
      BY <2>1, <3>1, <3>3
  <2> QED
    BY <1>6, <2>2, <2>3
<1> HIDE DEF body
<1>9. \A d, e \in Definitions(text) : d.end = e.end => d = e
  <2> TAKE d, e \in Definitions(text)
  <2> HAVE d.end = e.end
  <2>1. d = [end |-> d.end, kind |-> Definition(body(d.end))]
    BY <1>8
  <2>2. e = [end |-> e.end, kind |-> Definition(body(e.end))]
    BY <1>8
  <2> QED
    BY <2>1, <2>2
<1> QED
  BY <1>7, <1>8, <1>9 DEF last

(* The definitions of a list that are read, and those that were too many.   *)
LEMMA ColumnsWithin ==
  ASSUME NEW D, IsFiniteSet(D), NEW N \in Nat, \A d \in D : d.end \in 0..N,
         \A d, e \in D : d.end = e.end => d = e, NEW max \in Nat, NEW allow \in BOOLEAN
  PROVE  /\ Columns(D, max, allow).count \in Nat
         /\ Columns(D, max, allow).count <= Cardinality(D) /\ Cardinality(D) \in Nat
         /\ Columns(D, max, allow).error = "none" => Columns(D, max, allow).count <= max
         /\ Columns(D, max, allow).error = "columnLimit" => Cardinality(D) > max
<1> DEFINE before(d) == {e \in D : e.end < d.end /\ e.kind = "column"}
           limited(d) == d.kind \in {"column", "malformed"} /\ Cardinality(before(d)) >= max
           refused == {d \in D : \/ d.kind \in {"empty", "malformed"} \/ limited(d)
                                 \/ d.kind = "constraint" /\ ~ allow}
           columns == {d \in D : d.kind = "column"}
           count == Columns(D, max, allow).count
           error == Columns(D, max, allow).error
<1>1. /\ count = Cardinality(columns)
      /\ error = "none" => refused = {} /\ columns # {}
      /\ error = "columnLimit" => \E d \in D : limited(d)
  <2>1. count = Cardinality(columns)
    BY DEF Columns
  <2>2. error = CASE \E d \in refused : limited(d) /\ \A e \in refused : d.end <= e.end -> "columnLimit"
                  [] refused = {} /\ ~ (\A d \in D : d.kind # "column") -> "none"
                  [] OTHER -> "definition"
    BY Zenon DEF Columns
  <2> HIDE DEF limited, error
  <2>3. error = "none" => refused = {} /\ ~ (\A d \in D : d.kind # "column")
    <3> HIDE DEF refused
    <3> QED
      BY <2>2
  <2>4. error = "columnLimit" => \E d \in refused : limited(d)
    <3> HIDE DEF refused
    <3> QED
      BY <2>2
  <2> QED
    BY <2>1, <2>3, <2>4
<1> HIDE DEF count, error
<1>2. /\ IsFiniteSet(columns) /\ Cardinality(columns) \in Nat /\ Cardinality(D) \in Nat
      /\ Cardinality(columns) <= Cardinality(D)
  BY FS_Subset, FS_CardinalityType
<1>3. ASSUME NEW d \in D
      PROVE  /\ IsFiniteSet(before(d)) /\ Cardinality(before(d)) \in Nat /\ d \notin before(d)
             /\ Cardinality(before(d) \cup {d}) = Cardinality(before(d)) + 1
  <2>1. d \notin before(d)
    BY <1>3
  <2>2. before(d) \in SUBSET D
    OBVIOUS
  <2> HIDE DEF before
  <2>3. IsFiniteSet(before(d)) /\ Cardinality(before(d)) \in Nat
    BY <2>2, FS_Subset, FS_CardinalityType
  <2> QED
    BY <2>1, <2>3, FS_AddElement
<1>4. ASSUME NEW d \in D, limited(d) PROVE Cardinality(D) > max
  <2>1. before(d) \cup {d} \in SUBSET D
    OBVIOUS
  <2>2. Cardinality(before(d)) >= max
    BY <1>4
  <2> HIDE DEF before
  <2>3. Cardinality(before(d) \cup {d}) <= Cardinality(D)
    BY <2>1, FS_Subset
  <2> QED
    BY <1>2, <1>3, <2>2, <2>3
<1>5. ASSUME refused = {}, columns # {} PROVE Cardinality(columns) <= max
  <2> DEFINE ends == {d.end : d \in columns}
  <2>1. ends \subseteq 0..N /\ ends # {}
    BY <1>5
  <2>2. Greatest(ends) \in ends /\ \A l \in ends : l <= Greatest(ends)
    <3> HIDE DEF ends
    <3> QED
      BY <2>1, GreatestExists
  <2>3. PICK d \in columns : d.end = Greatest(ends)
    BY <2>2
  <2>4. columns = before(d) \cup {d}
    <3>1. ASSUME NEW e \in columns, e # d PROVE e.end < d.end
      <4>1. e.end <= d.end /\ e.end # d.end /\ e.end \in 0..N /\ d.end \in 0..N
        BY <2>2, <2>3, <3>1
      <4> QED
        BY <4>1
    <3> QED
      BY <3>1
  <2>5. d \in D /\ d.kind = "column" /\ ~ limited(d)
    BY <1>5
  <2>6. ~ (Cardinality(before(d)) >= max)
    BY <2>5
  <2> HIDE DEF before, columns, limited
  <2>7. Cardinality(columns) = Cardinality(before(d)) + 1 /\ Cardinality(before(d)) \in Nat
    BY <1>3, <2>4, <2>5
  <2> QED
    BY <2>6, <2>7
<1> QED
  BY <1>1, <1>2, <1>4, <1>5 DEF count, error


(* The parenthesis and the commas a list of columns has to itself.          *)
Owned(text, o) ==
  {m \in Found(text, "(") \cup Found(text, "comma") :
     /\ m >= o /\ Deep(text, o, m) = 1 /\ \A j \in o..m : Deep(text, o, j) >= 1}
OwnedBy(text, O) == UNION {Owned(text, o) : o \in O}

LEMMA OwnedApart ==
  ASSUME NEW text \in Seq(Tokens), NEW a \in Found(text, "("), NEW b \in Found(text, "("), a < b
  PROVE  Owned(text, a) \cap Owned(text, b) = {}
<1> SUFFICES ASSUME NEW m \in Owned(text, a), m \in Owned(text, b) PROVE FALSE
  OBVIOUS
<1>1. a \in Int /\ b \in Int /\ m \in Int /\ b - 1 \in Int
  BY DEF Found, Owned
<1>2. m >= b /\ Deep(text, a, m) = 1 /\ Deep(text, b, m) = 1 /\ \A j \in a..m : Deep(text, a, j) >= 1
  BY DEF Owned
<1>3. a <= (b - 1) + 1 /\ b - 1 <= m /\ b - 1 \in a..m /\ (b - 1) + 1 = b
  BY <1>1, <1>2
<1>4. Deep(text, a, m) = Deep(text, a, b - 1) + Deep(text, (b - 1) + 1, m) /\ Deep(text, a, b - 1) \in Int
  BY <1>1, <1>3, DeepSplit
<1>5. Deep(text, a, b - 1) >= 1
  BY <1>2, <1>3
<1> QED
  BY <1>2, <1>3, <1>4, <1>5

LEMMA OwnedMore ==
  ASSUME NEW text \in Seq(Tokens), NEW O, O \subseteq Found(text, "("), NEW o \in Found(text, "("), o \notin O
  PROVE  /\ Cardinality(OwnedBy(text, O \cup {o})) = Cardinality(OwnedBy(text, O)) + Cardinality(Owned(text, o))
         /\ Cardinality(OwnedBy(text, O)) \in Nat /\ Cardinality(Owned(text, o)) \in Nat
         /\ IsFiniteSet(Owned(text, o))
         /\ IsFiniteSet(Found(text, "(") \cup Found(text, "comma"))
         /\ Cardinality(OwnedBy(text, O)) <= Cardinality(Found(text, "(") \cup Found(text, "comma"))
         /\ Cardinality(Found(text, "(") \cup Found(text, "comma")) \in Nat
<1> DEFINE marks == Found(text, "(") \cup Found(text, "comma")
<1>1. IsFiniteSet(marks)
  <2>1. marks \subseteq 1..Len(text)
    BY DEF Found
  <2>2. 1 \in Int /\ Len(text) \in Int
    OBVIOUS
  <2> HIDE DEF marks
  <2> QED
    BY <2>1, <2>2, FS_Interval, FS_Subset
<1>2. OwnedBy(text, O) \in SUBSET marks /\ Owned(text, o) \in SUBSET marks
  BY DEF OwnedBy, Owned
<1>3. OwnedBy(text, O \cup {o}) = OwnedBy(text, O) \cup Owned(text, o)
  BY DEF OwnedBy
<1>4. OwnedBy(text, O) \cap Owned(text, o) = {}
  <2>1. ASSUME NEW a \in O PROVE Owned(text, a) \cap Owned(text, o) = {}
    <3>1. a \in Found(text, "(") /\ a \in Int /\ o \in Int /\ a # o
      BY DEF Found
    <3>2. CASE a < o
      BY <3>1, <3>2, OwnedApart
    <3>3. CASE o < a
      <4>1. Owned(text, o) \cap Owned(text, a) = {}
        BY <3>1, <3>3, OwnedApart
      <4> QED
        BY <4>1
    <3> QED
      BY <3>1, <3>2, <3>3
  <2> QED
    BY <2>1 DEF OwnedBy
<1> HIDE DEF marks
<1>5. IsFiniteSet(OwnedBy(text, O)) /\ IsFiniteSet(Owned(text, o))
      /\ Cardinality(OwnedBy(text, O)) <= Cardinality(marks)
  BY <1>1, <1>2, FS_Subset
<1> QED
  BY <1>1, <1>3, <1>4, <1>5, CountApart, FS_CardinalityType DEF marks

(* A list has no more definitions than that.                                *)
LEMMA ListOwned ==
  ASSUME NEW text \in Seq(Tokens), NEW o, NEW c, Pair(text, o, c)
  PROVE  LET D == Definitions(Slice(text, o + 1, c - 1)) IN
         /\ IsFiniteSet(D) /\ Cardinality(D) \in Nat /\ Cardinality(D) <= Cardinality(Owned(text, o))
         /\ \A d \in D : d.end \in 0..(Len(text) + 1)
         /\ \A d, e \in D : d.end = e.end => d = e
<1> DEFINE list == Slice(text, o + 1, c - 1)
           D == Definitions(list)
           n == (c - 1) - (o + 1) + 1
           f == [d \in D |-> IF d.end = n + 1 THEN o ELSE o + d.end]
<1>1. Len(text) \in Nat /\ o \in 1..Len(text) /\ c \in (o + 1)..Len(text)
      /\ o \in Found(text, "(") /\ Deep(text, o, c) = 0
      /\ \A j \in o..(c - 1) : Deep(text, o, j) > 0
  BY PairEnds DEF Pair
<1>2. o \in Int /\ c \in Int /\ o + 1 \in Int /\ c - 1 \in Int
      /\ o + 1 \in 1..(Len(text) + 1) /\ c - 1 \in ((o + 1) - 1)..Len(text) /\ n \in Nat /\ n = c - 1 - o
  BY <1>1
<1>3. Deep(text, o, o) = 1
  <2>1. o <= o /\ o \in DOMAIN text /\ Free(text, o) /\ Turn(text[o]) = 1
    BY <1>1, <1>2, TurnIs DEF Found
  <2>2. Deep(text, o, o) = Deep(text, o, o - 1) + (IF o \in DOMAIN text /\ Free(text, o) THEN Turn(text[o]) ELSE 0)
        /\ Deep(text, o, o - 1) = 0
    BY <1>2, <2>1, DeepStep
  <2> QED
    BY <2>1, <2>2
<1>4. Free(text, o + 1)
  <2>1. ScanStates(text, 1)[o + 1] = ScanStep(text, o, ScanStates(text, 1)[o])
    BY <1>1, ScanStatesRun
  <2>2. Free(text, o) /\ text[o] \notin Quotes /\ o \in 1..Len(text)
    BY <1>1 DEF Found, Quotes
  <2> QED
    BY <2>1, <2>2, PlainSteps DEF Free
<1>5. /\ list \in Seq(Tokens) /\ Len(list) = n /\ \A i \in 1..n : list[i] = text[o + i]
  <2>1. /\ list \in Seq(Tokens) /\ Len(list) = n /\ \A i \in 1..n : list[i] = text[(o + 1) - 1 + i]
    BY <1>2, SliceIs
  <2>2. \A i \in 1..n : (o + 1) - 1 + i = o + i
    BY <1>2
  <2> HIDE DEF list, n
  <2> QED
    BY <2>1, <2>2
<1>6. /\ \A i \in 1..n : Free(list, i) <=> Free(text, (o + 1) - 1 + i)
      /\ \A i \in 0..n : Deep(list, 1, i) = Deep(text, o + 1, (o + 1) - 1 + i)
  BY <1>2, <1>4, SliceFree, SliceDeep
<1> HIDE DEF list
<1>7. /\ \A d \in D : d.end \in Commas(list) \cup {n + 1}
      /\ \A d, e \in D : d.end = e.end => d = e
  <2>1. /\ \A d \in D : d.end \in Commas(list) \cup {Len(list) + 1}
        /\ \A d, e \in D : d.end = e.end => d = e
    BY <1>5, DefinitionsEnd
  <2> HIDE DEF D, n
  <2> QED
    BY <1>5, <2>1
<1>8. ASSUME NEW k \in Commas(list) PROVE k \in 1..n /\ o + k \in Owned(text, o)
  <2>1. k \in 1..n /\ k \in 0..n /\ k - 1 \in 0..n /\ k \in Int
        /\ Free(list, k) /\ list[k] = "comma" /\ Deep(list, 1, k - 1) = 0
    <3>1. k \in DOMAIN list /\ DOMAIN list = 1..n /\ Free(list, k) /\ list[k] = "comma" /\ Deep(list, 1, k - 1) = 0
      BY <1>5 DEF Commas, Found
    <3> HIDE DEF n
    <3> QED
      BY <1>2, <3>1
  <2>2. (o + 1) - 1 + k = o + k /\ (o + 1) - 1 + (k - 1) = (o + k) - 1 /\ o + k \in DOMAIN text
        /\ o + k \in Int /\ o + 1 <= o + k /\ o + k <= c - 1
    BY <1>1, <1>2, <2>1
  <2> HIDE DEF n
  <2>3. Free(text, o + k) /\ text[o + k] = "comma" /\ Deep(text, o + 1, (o + k) - 1) = 0
    BY <1>5, <1>6, <2>1, <2>2
  <2>4. o + k \in Found(text, "comma")
    BY <2>2, <2>3 DEF Found
  <2>5. Deep(text, o + 1, o + k) = 0
    <3>1. \A from, x \in Int : from <= x =>
            Deep(text, from, x) = Deep(text, from, x - 1)
              + (IF x \in DOMAIN text /\ Free(text, x) THEN Turn(text[x]) ELSE 0)
      BY DeepStep
    <3>2. Deep(text, o + 1, o + k) = Deep(text, o + 1, (o + k) - 1) + Turn(text[o + k])
      BY <1>2, <2>2, <2>3, <3>1
    <3>3. Turn(text[o + k]) = 0
      BY <2>3, TurnIs
    <3> QED
      BY <2>3, <3>2, <3>3
  <2>6. Deep(text, o, o + k) = 1
    <3>1. \A x, y, z \in Int : x <= y + 1 /\ y <= z =>
            Deep(text, x, z) = Deep(text, x, y) + Deep(text, y + 1, z) /\ Deep(text, y + 1, z) \in Int
      BY DeepSplit
    <3>2. o <= o + 1 /\ o <= o + k
      BY <1>2, <2>2
    <3>3. Deep(text, o, o + k) = Deep(text, o, o) + Deep(text, o + 1, o + k)
      BY <1>2, <2>2, <3>1, <3>2
    <3> QED
      BY <1>3, <2>5, <3>3
  <2>7. ASSUME NEW j \in o..(o + k) PROVE Deep(text, o, j) >= 1
    <3>1. j \in o..(c - 1) /\ j \in Int /\ o <= j + 1 /\ j <= j
      BY <1>2, <2>2
    <3>2. Deep(text, o, j) > 0 /\ Deep(text, o, j) \in Int
      BY <1>1, <1>2, <3>1, DeepSplit
    <3> QED
      BY <3>2
  <2>8. o + k >= o
    BY <1>2, <2>2
  <2> QED
    BY <2>1, <2>4, <2>6, <2>7, <2>8 DEF Owned
<1>9. o \in Owned(text, o)
  <2>1. \A j \in o..o : Deep(text, o, j) >= 1
    BY <1>2, <1>3
  <2> QED
    BY <1>1, <1>2, <1>3, <2>1 DEF Owned
<1>10. IsFiniteSet(Owned(text, o))
  <2>1. Owned(text, o) \subseteq 1..Len(text)
    BY DEF Owned, Found
  <2>2. 1 \in Int /\ Len(text) \in Int
    BY <1>1
  <2> QED
    BY <2>1, <2>2, FS_Interval, FS_Subset
<1> HIDE DEF D, n
<1>11. f \in [D -> Owned(text, o)]
  BY <1>7, <1>8, <1>9
<1>12. ASSUME NEW d \in D, NEW e \in D, f[d] = f[e] PROVE d = e
  <2>1. f[d] = (IF d.end = n + 1 THEN o ELSE o + d.end) /\ f[e] = (IF e.end = n + 1 THEN o ELSE o + e.end)
    OBVIOUS
  <2>2. /\ d.end = n + 1 \/ d.end \in 1..n
        /\ e.end = n + 1 \/ e.end \in 1..n
    BY <1>7, <1>8
  <2>3. o \in Int /\ n \in Nat /\ d.end \in Int /\ e.end \in Int
    BY <1>2, <2>2
  <2> HIDE DEF f
  <2>4. (IF d.end = n + 1 THEN o ELSE o + d.end) = (IF e.end = n + 1 THEN o ELSE o + e.end)
    BY <1>12, <2>1
  <2>5. d.end = e.end
    BY <2>2, <2>3, <2>4
  <2> QED
    BY <1>7, <2>5
<1> HIDE DEF f
<1>13. IsFiniteSet(D) /\ Cardinality(D) \in Nat /\ Cardinality(D) <= Cardinality(Owned(text, o))
  BY <1>10, <1>11, <1>12, CountInto
<1>14. \A d \in D : d.end \in 0..(Len(text) + 1)
  <2> TAKE d \in D
  <2>1. d.end = n + 1 \/ d.end \in 1..n
    BY <1>7, <1>8
  <2>2. n <= Len(text)
    BY <1>1, <1>2
  <2> QED
    BY <1>1, <1>2, <2>1, <2>2
<1> QED
  BY <1>7, <1>13, <1>14 DEF D, list


(* No two of these lists open at the same place.                            *)
LEMMA PairsApart ==
  ASSUME NEW text \in Seq(Tokens), NEW a, NEW b, NEW c, Pair(text, a, c), Pair(text, b, c), a < b
  PROVE  FALSE
<1>1. /\ Len(text) \in Nat /\ a \in 1..Len(text) /\ b \in 1..Len(text)
      /\ c \in (a + 1)..Len(text) /\ c \in (b + 1)..Len(text)
  BY PairEnds
<1>2. a \in Int /\ b \in Int /\ c \in Int /\ b - 1 \in Int /\ a <= (b - 1) + 1 /\ b - 1 <= c /\ (b - 1) + 1 = b
      /\ b - 1 \in a..(c - 1)
  BY <1>1
<1>3. Deep(text, a, c) = Deep(text, a, b - 1) + Deep(text, (b - 1) + 1, c) /\ Deep(text, a, b - 1) \in Int
  BY <1>2, DeepSplit
<1>4. Deep(text, a, c) = 0 /\ Deep(text, b, c) = 0 /\ Deep(text, a, b - 1) > 0
  BY <1>2 DEF Pair
<1> QED
  BY <1>2, <1>3, <1>4

LEMMA TopsApart ==
  ASSUME NEW text \in Seq(Tokens), NEW a \in Found(text, ")"), NEW b \in Found(text, ")"), a < b,
         NEW o, Top(text, a + 1, o), Top(text, b + 1, o)
  PROVE  FALSE
<1>1. a \in Int /\ b \in Int /\ o \in Int /\ a + 1 \in Int /\ o >= b + 1
  BY DEF Found, Top
<1>2. \A j \in (a + 1)..(o - 1) : Deep(text, a + 1, j) = 0
  BY DEF Top
<1>3. b \in (a + 1)..(o - 1) /\ a + 1 <= b /\ a + 1 \in Int
  BY <1>1
<1>4. b \in DOMAIN text /\ Free(text, b) /\ Turn(text[b]) = -1
  BY TurnIs DEF Found
<1>5. \A from, x \in Int : from <= x =>
        /\ Deep(text, from, x) = Deep(text, from, x - 1)
              + (IF x \in DOMAIN text /\ Free(text, x) THEN Turn(text[x]) ELSE 0)
        /\ Deep(text, from, from - 1) = 0
  BY DeepStep
<1>6. Deep(text, a + 1, b) = Deep(text, a + 1, b - 1) + Turn(text[b]) /\ Deep(text, a + 1, (a + 1) - 1) = 0
  BY <1>1, <1>3, <1>4, <1>5
<1>7. Deep(text, a + 1, b - 1) = 0
  <2>1. b - 1 \in (a + 1)..(o - 1) \/ b - 1 = (a + 1) - 1
    BY <1>1, <1>3
  <2> QED
    BY <1>2, <1>6, <2>1
<1> QED
  BY <1>2, <1>3, <1>4, <1>6, <1>7

LEMMA TopOfAnother ==
  ASSUME NEW text \in Seq(Tokens), NEW k \in Found(text, "create"), NEW o, k < o,
         \A j \in (k + 1)..(o - 1) : Harmless(text, j),
         NEW c \in Found(text, ")"), Top(text, c + 1, o)
  PROVE  FALSE
<1>1. k \in Int /\ c \in Int /\ o \in Int /\ o >= c + 1
  BY DEF Found, Top
<1>2. k \in DOMAIN text /\ c \in DOMAIN text /\ text[k] = "create" /\ text[c] = ")" /\ Free(text, c) /\ Free(text, k)
  BY DEF Found
<1>3. CASE c < k
  <2>1. k \in (c + 1)..(o - 1)
    BY <1>1, <1>3
  <2> QED
    BY <1>2, <2>1 DEF Top
<1>4. CASE k < c
  <2>1. c \in (k + 1)..(o - 1)
    BY <1>1, <1>4
  <2>2. Harmless(text, c)
    BY <2>1
  <2> QED
    BY <1>2, <2>2 DEF Harmless, Blanks, Quotes
<1> QED
  BY <1>1, <1>2, <1>3, <1>4

(* The lists of the tables, and that they are other than those of the       *)
(* statement that is read.                                                  *)
Firsts(s) == {s[n].opening : n \in 1..Len(s)}
Seconds(text, s, T) == \A o \in T : \E n \in 1..Len(s) : Top(text, s[n].close + 1, o)

LEMMA ListsApart ==
  ASSUME NEW text \in Seq(Tokens), NEW s, \A n \in 1..Len(s) : Whole(text, s[n]),
         NEW p \in Int, \A n \in 1..Len(s) : s[n].opening < p,
         NEW T, Seconds(text, s, T),
         NEW k \in Found(text, "create"), k >= p, NEW opening, NEW close, Pair(text, opening, close), k < opening,
         \A j \in (k + 1)..(opening - 1) : Harmless(text, j)
  PROVE  /\ Firsts(s) \cup T \subseteq Found(text, "(") /\ opening \in Found(text, "(")
         /\ opening \notin Firsts(s) \cup T
         /\ \A o : Top(text, close + 1, o) => o \in Found(text, "(") /\ o \notin Firsts(s) \cup T \cup {opening}
<1>1. /\ opening \in Found(text, "(") /\ close \in Found(text, ")") /\ opening < close
      /\ opening \in Int /\ close \in Int /\ k \in Int
  BY DEF Pair, Found
<1>2. ASSUME NEW n \in 1..Len(s)
      PROVE  /\ s[n].opening \in Found(text, "(") /\ s[n].close \in Found(text, ")")
             /\ s[n].opening \in Int /\ s[n].close \in Int /\ s[n].opening < opening /\ s[n].opening < s[n].close
             /\ Pair(text, s[n].opening, s[n].close)
             /\ s[n].start \in Found(text, "create") /\ s[n].start < s[n].opening
             /\ \A j \in (s[n].start + 1)..(s[n].opening - 1) : Harmless(text, j)
  <2>1. Whole(text, s[n]) /\ s[n].opening < p
    OBVIOUS
  <2>2. /\ Pair(text, s[n].opening, s[n].close)
        /\ s[n].start \in Found(text, "create") /\ s[n].start < s[n].opening
        /\ \A j \in (s[n].start + 1)..(s[n].opening - 1) : Harmless(text, j)
    BY <2>1 DEF Whole
  <2>3. s[n].opening \in Found(text, "(") /\ s[n].close \in Found(text, ")") /\ s[n].opening < s[n].close
    BY <2>2 DEF Pair
  <2>4. s[n].opening \in Int /\ s[n].close \in Int
    BY <2>3 DEF Found
  <2>5. s[n].opening < opening
    BY <1>1, <2>1, <2>4
  <2> QED
    BY <2>2, <2>3, <2>4, <2>5
<1>3. Firsts(s) \cup T \subseteq Found(text, "(")
  BY <1>2 DEF Firsts, Seconds, Top
<1>4. opening \notin Firsts(s) \cup T
  <2>1. opening \notin Firsts(s)
    BY <1>1, <1>2 DEF Firsts
  <2>2. ASSUME opening \in T PROVE FALSE
    <3>1. PICK n \in 1..Len(s) : Top(text, s[n].close + 1, opening)
      BY <2>2 DEF Seconds
    <3>2. s[n].close \in Found(text, ")")
      BY <1>2
    <3> QED
      BY <3>1, <3>2, TopOfAnother
  <2> QED
    BY <2>1, <2>2
<1>5. ASSUME NEW o, Top(text, close + 1, o)
      PROVE  o \in Found(text, "(") /\ o \notin Firsts(s) \cup T \cup {opening}
  <2>1. o \in Found(text, "(") /\ o >= close + 1 /\ o \in Int
    BY <1>5 DEF Top, Found
  <2>2. o # opening
    BY <1>1, <2>1
  <2>3. o \notin Firsts(s)
    BY <1>1, <1>2, <2>1 DEF Firsts
  <2>4. ASSUME o \in T PROVE FALSE
    <3>1. PICK n \in 1..Len(s) : Top(text, s[n].close + 1, o)
      BY <2>4 DEF Seconds
    <3>2. /\ s[n].close \in Found(text, ")") /\ s[n].close \in Int
          /\ Pair(text, s[n].opening, s[n].close) /\ s[n].opening < opening
      BY <1>2
    <3>3. CASE s[n].close = close
      BY <3>2, <3>3, PairsApart
    <3>4. CASE s[n].close < close
      BY <1>1, <1>5, <3>1, <3>2, <3>4, TopsApart
    <3>5. CASE close < s[n].close
      BY <1>1, <1>5, <3>1, <3>2, <3>5, TopsApart
    <3> QED
      BY <1>1, <3>2, <3>3, <3>4, <3>5
  <2> QED
    BY <2>1, <2>2, <2>3, <2>4
<1> QED
  BY <1>1, <1>3, <1>4, <1>5

(* One list more.                                                           *)
LEMMA ListFits ==
  ASSUME NEW text \in Seq(Tokens), NEW O, O \subseteq Found(text, "("), NEW o, NEW c, Pair(text, o, c), o \notin O,
         NEW used \in Nat, used <= MaxColumns, used <= Cardinality(OwnedBy(text, O)), NEW allow \in BOOLEAN
  PROVE  LET result == Columns(Definitions(Slice(text, o + 1, c - 1)), MaxColumns - used, allow) IN
         /\ result.count \in Nat
         /\ result.error = "none" =>
              /\ used + result.count <= MaxColumns
              /\ used + result.count <= Cardinality(OwnedBy(text, O \cup {o}))
         /\ result.error = "columnLimit" => Cardinality(Found(text, "(") \cup Found(text, "comma")) > MaxColumns
<1> DEFINE D == Definitions(Slice(text, o + 1, c - 1))
           max == MaxColumns - used
           result == Columns(D, max, allow)
<1>1. o \in Found(text, "(")
  BY DEF Pair
<1>2. /\ Cardinality(OwnedBy(text, O \cup {o})) = Cardinality(OwnedBy(text, O)) + Cardinality(Owned(text, o))
      /\ Cardinality(OwnedBy(text, O)) \in Nat /\ Cardinality(Owned(text, o)) \in Nat
  BY <1>1, OwnedMore
<1>3. Cardinality(OwnedBy(text, O \cup {o})) <= Cardinality(Found(text, "(") \cup Found(text, "comma"))
      /\ Cardinality(Found(text, "(") \cup Found(text, "comma")) \in Nat
  <2> DEFINE marks == Found(text, "(") \cup Found(text, "comma")
  <2>1. marks \subseteq 1..Len(text) /\ OwnedBy(text, O \cup {o}) \in SUBSET marks
    BY DEF Found, OwnedBy, Owned
  <2>2. 1 \in Int /\ Len(text) \in Int
    OBVIOUS
  <2> HIDE DEF marks
  <2>3. IsFiniteSet(marks)
    BY <2>1, <2>2, FS_Interval, FS_Subset
  <2>4. Cardinality(OwnedBy(text, O \cup {o})) <= Cardinality(marks) /\ Cardinality(marks) \in Nat
    BY <2>1, <2>3, FS_Subset, FS_CardinalityType
  <2> QED
    BY <2>4 DEF marks
<1>4. /\ IsFiniteSet(D) /\ Cardinality(D) \in Nat /\ Cardinality(D) <= Cardinality(Owned(text, o))
      /\ \A d \in D : d.end \in 0..(Len(text) + 1)
      /\ \A d, e \in D : d.end = e.end => d = e
  BY ListOwned
<1>5. max \in Nat /\ Len(text) + 1 \in Nat /\ MaxColumns \in Nat
  BY LimitsAssumption
<1> HIDE DEF D
<1>6. /\ result.count \in Nat /\ result.count <= Cardinality(D)
      /\ result.error = "none" => result.count <= max
      /\ result.error = "columnLimit" => Cardinality(D) > max
  <2> HIDE DEF max
  <2> QED
    BY <1>4, <1>5, ColumnsWithin
<1> HIDE DEF result
<1>7. result.error = "none" =>
        /\ used + result.count <= MaxColumns
        /\ used + result.count <= Cardinality(OwnedBy(text, O \cup {o}))
  BY <1>2, <1>4, <1>5, <1>6
<1>8. result.error = "columnLimit" => Cardinality(Found(text, "(") \cup Found(text, "comma")) > MaxColumns
  <2> DEFINE all == Cardinality(Found(text, "(") \cup Found(text, "comma"))
  <2>1. Cardinality(OwnedBy(text, O \cup {o})) <= all /\ all \in Nat
    BY <1>3
  <2> HIDE DEF all
  <2>2. result.error = "columnLimit" => all > MaxColumns
    BY <1>2, <1>4, <1>5, <1>6, <2>1
  <2> QED
    BY <2>2 DEF all
<1> QED
  BY <1>6, <1>7, <1>8 DEF result, D


(* A CREATE for each table.                                                 *)
LEMMA CreatesBefore ==
  ASSUME NEW text \in Seq(Tokens), NEW k \in Found(text, "create"), NEW p \in Nat, 1 <= p, p <= k,
         NEW q \in Nat, k < q, q <= Len(text) + 1
  PROVE  /\ Cardinality(Found(text, "create") \cap (1..(q - 1))) \in Nat
         /\ Cardinality(Found(text, "create") \cap (1..(p - 1))) \in Nat
         /\ Cardinality(Found(text, "create") \cap (1..(q - 1)))
              >= Cardinality(Found(text, "create") \cap (1..(p - 1))) + 1
         /\ Cardinality(Found(text, "create")) \in Nat
         /\ Cardinality(Found(text, "create")) >= Cardinality(Found(text, "create") \cap (1..(q - 1)))
<1> DEFINE S == Found(text, "create")
<1>1. S \subseteq 1..Len(text) /\ Len(text) \in Nat /\ k \in S /\ k \in Int
  BY DEF Found
<1> HIDE DEF S
<1>2. IsFiniteSet(S) /\ Cardinality(S) \in Nat
  <2>1. 1 \in Int /\ Len(text) \in Int
    BY <1>1
  <2> QED
    BY <1>1, <2>1, FS_Interval, FS_Subset, FS_CardinalityType
<1>3. Cardinality(S \cap (1..(q - 1))) <= Cardinality(S)
  <2>1. S \cap (1..(q - 1)) \in SUBSET S
    OBVIOUS
  <2> QED
    BY <1>2, <2>1, FS_Subset
<1> DEFINE U == S \cap (((p - 1) + 1)..(q - 1))
<1>4. /\ Cardinality(S \cap (1..(q - 1))) = Cardinality(S \cap (1..(p - 1))) + Cardinality(U)
      /\ Cardinality(S \cap (1..(q - 1))) \in Nat
      /\ Cardinality(S \cap (1..(p - 1))) \in Nat
      /\ Cardinality(U) \in Nat
  <2>1. \A a, b, c \in Int : a <= b + 1 /\ b <= c =>
          /\ Cardinality(S \cap (a..c)) = Cardinality(S \cap (a..b)) + Cardinality(S \cap ((b + 1)..c))
          /\ Cardinality(S \cap (a..c)) \in Nat
          /\ Cardinality(S \cap (a..b)) \in Nat
          /\ Cardinality(S \cap ((b + 1)..c)) \in Nat
    BY CountSplit
  <2>2. 1 \in Int /\ p - 1 \in Int /\ q - 1 \in Int /\ 1 <= (p - 1) + 1 /\ p - 1 <= q - 1
    BY <1>1
  <2> QED
    BY <2>1, <2>2
<1>5. Cardinality(U) # 0
  <2>1. k \in U
    BY <1>1
  <2>2. IsFiniteSet(U)
    <3>1. U \in SUBSET S
      OBVIOUS
    <3> HIDE DEF U
    <3> QED
      BY <1>2, <3>1, FS_Subset
  <2> HIDE DEF U
  <2> QED
    BY <2>1, <2>2, FS_EmptySet
<1> HIDE DEF U
<1>6. Cardinality(S \cap (1..(q - 1))) >= Cardinality(S \cap (1..(p - 1))) + 1
  <2> DEFINE x == Cardinality(S \cap (1..(q - 1)))
             y == Cardinality(S \cap (1..(p - 1)))
  <2>1. x = y + Cardinality(U) /\ x \in Nat /\ y \in Nat /\ Cardinality(U) \in Nat
    BY <1>4
  <2> HIDE DEF x, y
  <2>2. x >= y + 1
    BY <1>5, <2>1
  <2> QED
    BY <2>2 DEF x, y
<1> QED
  BY <1>2, <1>3, <1>4, <1>6 DEF S

(* The limits hold because what is counted is there: a CREATE before `pos`  *)
(* for each table, and a mark of its own for each column.                   *)
Backed(text, s, p) ==
  /\ Listing(s) /\ Len(s) <= MaxTables /\ UsedBy(s)[Len(s)] <= MaxColumns
  /\ \A n \in 1..Len(s) : s[n].opening < p
  /\ Len(s) <= Cardinality(Found(text, "create") \cap (1..(p - 1)))
  /\ \E T : Seconds(text, s, T) /\ UsedBy(s)[Len(s)] <= Cardinality(OwnedBy(text, Firsts(s) \cup T))
Limited ==
  /\ outcome = "tableLimit" => Cardinality(Found(cleaned, "create")) > MaxTables
  /\ outcome = "columnLimit" => Cardinality(Found(cleaned, "(") \cup Found(cleaned, "comma")) > MaxColumns
Counted == Backed(cleaned, tables, pos) /\ Limited

LEMMA RoundFits ==
  ASSUME Typed, Masked, Kept, Backed(cleaned, tables, pos), pc = "match",
         NEW k \in NextMatch \ quoted, NEW opening \in Opening(k), Closings(cleaned, opening) # {}
  PROVE  LET close == Least(Closings(cleaned, opening))
             columns == ColumnsOf(opening, close)
             marks == Cardinality(Found(cleaned, "(") \cup Found(cleaned, "comma")) IN
         /\ columns.count \in Nat
         /\ columns.error = "columnLimit" => marks > MaxColumns
         /\ columns.error = "none" => \A tail \in TailsOf(opening, close) :
              /\ tail.error = "columnLimit" => marks > MaxColumns
              /\ tail.error = "none" =>
                   /\ tail.count \in Nat /\ Used + columns.count + tail.count <= MaxColumns
                   /\ \E T : /\ \A o \in T : \/ \E n \in 1..Len(tables) : Top(cleaned, tables[n].close + 1, o)
                                             \/ Top(cleaned, close + 1, o)
                             /\ Used + columns.count + tail.count
                                  <= Cardinality(OwnedBy(cleaned, (Firsts(tables) \cup {opening}) \cup T))
<1> DEFINE close == Least(Closings(cleaned, opening))
           columns == ColumnsOf(opening, close)
           marks == Cardinality(Found(cleaned, "(") \cup Found(cleaned, "comma"))
           used == UsedBy(tables)[Len(tables)]
<1>1. cleaned \in Seq(Tokens) /\ pos \in Nat /\ MaxColumns \in Nat
  BY LimitsAssumption DEF Typed, TypeOK
<1>2. /\ k \in Found(cleaned, "create") /\ k >= pos /\ k < opening
      /\ \A j \in (k + 1)..(opening - 1) : Harmless(cleaned, j)
      /\ Pair(cleaned, opening, close)
      /\ \E last \in close..Len(cleaned) : RestOf(close) = Slice(cleaned, close + 1, last)
  BY RoundShape
<1>3. Used = used
  BY UsedIs
<1>4. /\ Listing(tables) /\ used <= MaxColumns /\ \A n \in 1..Len(tables) : tables[n].opening < pos
  BY DEF Backed
<1>5. PICK T : Seconds(cleaned, tables, T) /\ used <= Cardinality(OwnedBy(cleaned, Firsts(tables) \cup T))
  BY DEF Backed
<1>6. used \in Nat /\ Len(tables) \in Nat
  <2>1. Len(tables) \in 0..Len(tables) /\ Len(tables) \in Nat
    BY <1>4 DEF Listing
  <2> QED
    BY <1>4, <2>1, UsedRuns
<1>7. \A n \in 1..Len(tables) : Whole(cleaned, tables[n])
  BY <1>4 DEF Kept, Listing
<1> HIDE DEF close, used
<1> DEFINE O == Firsts(tables) \cup T
<1>8. /\ O \subseteq Found(cleaned, "(") /\ opening \in Found(cleaned, "(") /\ opening \notin O
      /\ \A o : Top(cleaned, close + 1, o) => o \in Found(cleaned, "(") /\ o \notin O \cup {opening}
  <2>1. pos \in Int
    BY <1>1
  <2> QED
    BY <1>1, <1>2, <1>4, <1>5, <1>7, <2>1, ListsApart
<1> HIDE DEF O
<1>9. used <= Cardinality(OwnedBy(cleaned, O))
  BY <1>5 DEF O
<1>10. columns = Columns(Definitions(Slice(cleaned, opening + 1, close - 1)), MaxColumns - used, TRUE)
  BY <1>3 DEF ColumnsOf, ListOf
<1> HIDE DEF columns
<1>11. /\ columns.count \in Nat
       /\ columns.error = "none" =>
            /\ used + columns.count <= MaxColumns
            /\ used + columns.count <= Cardinality(OwnedBy(cleaned, O \cup {opening}))
       /\ columns.error = "columnLimit" => marks > MaxColumns
  <2>1. TRUE \in BOOLEAN
    OBVIOUS
  <2> QED
    BY <1>1, <1>2, <1>4, <1>6, <1>8, <1>9, <1>10, <2>1, ListFits
<1>12. ASSUME columns.error = "none", NEW tail \in TailsOf(opening, close), tail.error # "tail"
       PROVE  \/ tail = [count |-> 0, error |-> "none"]
              \/ \E o, c : /\ Pair(cleaned, o, c) /\ Top(cleaned, close + 1, o)
                           /\ tail = Columns(Definitions(Slice(cleaned, o + 1, c - 1)),
                                             MaxColumns - (used + columns.count), FALSE)
  <2>1. MaxColumns - used - columns.count = MaxColumns - (used + columns.count)
    BY <1>1, <1>6, <1>11
  <2>2. \/ tail = [count |-> 0, error |-> "none"]
        \/ \E o, c : /\ Pair(cleaned, o, c) /\ Top(cleaned, close + 1, o)
                     /\ tail = Columns(Definitions(Slice(cleaned, o + 1, c - 1)),
                                       MaxColumns - used - columns.count, FALSE)
    <3>1. PICK last \in close..Len(cleaned) : RestOf(close) = Slice(cleaned, close + 1, last)
      BY <1>2
    <3>2. \/ tail = [count |-> 0, error |-> "none"]
          \/ \E o, c : /\ Pair(cleaned, o, c) /\ Top(cleaned, close + 1, o)
                       /\ tail = Columns(Definitions(Slice(cleaned, o + 1, c - 1)),
                                         MaxColumns - Used - ColumnsOf(opening, close).count, FALSE)
      <4>1. /\ cleaned \in Seq(Tokens) /\ Pair(cleaned, opening, close)
            /\ RestOf(close) = Slice(cleaned, close + 1, last)
            /\ tail \in TailsOf(opening, close) /\ tail.error # "tail"
        BY <1>1, <1>2, <1>12, <3>1
      <4>2. /\ Closed(cleaned, close + 1, last)
            /\ \/ tail = [count |-> 0, error |-> "none"]
               \/ \E o, c : /\ Pair(cleaned, o, c) /\ Top(cleaned, close + 1, o)
                             /\ tail = Columns(Definitions(Slice(cleaned, o + 1, c - 1)),
                                               MaxColumns - Used - ColumnsOf(opening, close).count, FALSE)
        BY <4>1, RoundTail
      <4> QED
        BY <4>2
    <3> QED
      BY <1>3, <3>2, Zenon DEF columns
  <2> QED
    BY <2>1, <2>2
<1>13. ASSUME columns.error = "none", NEW tail, tail = [count |-> 0, error |-> "none"]
       PROVE  /\ tail.error # "columnLimit" /\ tail.count \in Nat
              /\ used + columns.count + tail.count <= MaxColumns
              /\ used + columns.count + tail.count
                   <= Cardinality(OwnedBy(cleaned, (Firsts(tables) \cup {opening}) \cup T))
  <2>1. O \cup {opening} = (Firsts(tables) \cup {opening}) \cup T
    BY DEF O
  <2>2. used + columns.count + tail.count = used + columns.count /\ tail.error = "none" /\ tail.count \in Nat
    BY <1>6, <1>11, <1>13
  <2> QED
    BY <1>11, <1>13, <2>1, <2>2
<1>14. ASSUME columns.error = "none", NEW tail, NEW o, NEW c, Pair(cleaned, o, c), Top(cleaned, close + 1, o),
              tail = Columns(Definitions(Slice(cleaned, o + 1, c - 1)), MaxColumns - (used + columns.count), FALSE)
       PROVE  /\ tail.error = "columnLimit" => marks > MaxColumns
              /\ tail.error = "none" =>
                   /\ tail.count \in Nat /\ used + columns.count + tail.count <= MaxColumns
                   /\ used + columns.count + tail.count
                        <= Cardinality(OwnedBy(cleaned, (Firsts(tables) \cup {opening}) \cup (T \cup {o})))
  <2> DEFINE here == O \cup {opening}
             now == used + columns.count
  <2>1. here \subseteq Found(cleaned, "(") /\ o \notin here
    BY <1>8, <1>14
  <2>2. here \cup {o} = (Firsts(tables) \cup {opening}) \cup (T \cup {o})
    BY DEF O
  <2>3. now \in Nat /\ now <= MaxColumns /\ now <= Cardinality(OwnedBy(cleaned, here)) /\ FALSE \in BOOLEAN
    BY <1>6, <1>11, <1>14
  <2> HIDE DEF here, now
  <2>4. tail = Columns(Definitions(Slice(cleaned, o + 1, c - 1)), MaxColumns - now, FALSE)
    BY <1>14 DEF now
  <2>5. /\ tail.count \in Nat
        /\ tail.error = "none" =>
             /\ now + tail.count <= MaxColumns
             /\ now + tail.count <= Cardinality(OwnedBy(cleaned, here \cup {o}))
        /\ tail.error = "columnLimit" => marks > MaxColumns
    <3> DEFINE list == Columns(Definitions(Slice(cleaned, o + 1, c - 1)), MaxColumns - now, FALSE)
    <3>1. /\ list.count \in Nat
          /\ list.error = "none" =>
               /\ now + list.count <= MaxColumns
               /\ now + list.count <= Cardinality(OwnedBy(cleaned, here \cup {o}))
          /\ list.error = "columnLimit" => Cardinality(Found(cleaned, "(") \cup Found(cleaned, "comma")) > MaxColumns
      BY <1>1, <1>14, <2>1, <2>3, ListFits
    <3> HIDE DEF list
    <3>2. tail = list
      BY <2>4 DEF list
    <3> QED
      BY <3>1, <3>2 DEF marks
  <2> QED
    BY <2>2, <2>5 DEF now
<1> HIDE DEF marks
<1>15. ASSUME columns.error = "none", NEW tail \in TailsOf(opening, close)
       PROVE  /\ tail.error = "columnLimit" => marks > MaxColumns
              /\ tail.error = "none" =>
                   /\ tail.count \in Nat /\ used + columns.count + tail.count <= MaxColumns
                   /\ \E S : /\ \A o \in S : \/ \E n \in 1..Len(tables) : Top(cleaned, tables[n].close + 1, o)
                                             \/ Top(cleaned, close + 1, o)
                             /\ used + columns.count + tail.count
                                  <= Cardinality(OwnedBy(cleaned, (Firsts(tables) \cup {opening}) \cup S))
  <2>1. \A o \in T : \E n \in 1..Len(tables) : Top(cleaned, tables[n].close + 1, o)
    BY <1>5 DEF Seconds
  <2>2. CASE tail = [count |-> 0, error |-> "none"]
    BY <1>13, <1>15, <2>1, <2>2
  <2>3. ASSUME NEW o, NEW c, Pair(cleaned, o, c), Top(cleaned, close + 1, o),
               tail = Columns(Definitions(Slice(cleaned, o + 1, c - 1)), MaxColumns - (used + columns.count), FALSE)
        PROVE  /\ tail.error = "columnLimit" => marks > MaxColumns
               /\ tail.error = "none" =>
                    /\ tail.count \in Nat /\ used + columns.count + tail.count <= MaxColumns
                    /\ \E S : /\ \A b \in S : \/ \E n \in 1..Len(tables) : Top(cleaned, tables[n].close + 1, b)
                                              \/ Top(cleaned, close + 1, b)
                              /\ used + columns.count + tail.count
                                   <= Cardinality(OwnedBy(cleaned, (Firsts(tables) \cup {opening}) \cup S))
    <3>1. \A b \in T \cup {o} : \/ \E n \in 1..Len(tables) : Top(cleaned, tables[n].close + 1, b)
                                \/ Top(cleaned, close + 1, b)
      BY <2>1, <2>3
    <3>2. /\ tail.error = "columnLimit" => marks > MaxColumns
          /\ tail.error = "none" =>
               /\ tail.count \in Nat /\ used + columns.count + tail.count <= MaxColumns
               /\ used + columns.count + tail.count
                    <= Cardinality(OwnedBy(cleaned, (Firsts(tables) \cup {opening}) \cup (T \cup {o})))
      BY <1>14, <1>15, <2>3
    <3> QED
      BY <3>1, <3>2, Zenon
  <2>4. CASE tail.error = "tail"
    BY <2>4
  <2> QED
    BY <1>12, <1>15, <2>2, <2>3, <2>4, Zenon
<1> QED
  BY <1>3, <1>11, <1>15 DEF close, columns, marks


LEMMA RoundCounted ==
  ASSUME Typed, Masked, Kept, Backed(cleaned, tables, pos), pc = "match", Len(tables) < MaxTables,
         NEW k \in NextMatch \ quoted, NEW opening \in Opening(k), Closings(cleaned, opening) # {},
         Adds(k, opening, Least(Closings(cleaned, opening)))
  PROVE  Backed(cleaned, tables', pos') /\ outcome' = outcome
<1> DEFINE close == Least(Closings(cleaned, opening))
           columns == ColumnsOf(opening, close)
           n == Len(tables)
<1>1. cleaned \in Seq(Tokens) /\ pos \in 1..(Len(sql) + 1) /\ sql \in Seq(Tokens) /\ MaxTables \in Nat
  BY LimitsAssumption DEF Typed, TypeOK
<1>2. PICK t : /\ tables' = Append(tables, t)
               /\ t.opening = opening /\ pos' = opening + 1 /\ UNCHANGED outcome
               /\ t.close = close
               /\ columns.error = "none" /\ t.columns = columns.count
               /\ \E tail \in TailsOf(opening, close) : tail.error = "none" /\ t.partitions = tail.count
  <2>1. \E t : /\ tables' = Append(tables, t) /\ Whole(cleaned, t)
               /\ t.start = k /\ t.opening = opening /\ k >= pos
               /\ cursor' = t.end /\ pos' = opening + 1 /\ UNCHANGED <<pc, outcome>>
               /\ t.close = close
               /\ ColumnsOf(opening, t.close).error = "none" /\ t.columns = ColumnsOf(opening, t.close).count
               /\ \E tail \in TailsOf(opening, t.close) : tail.error = "none" /\ t.partitions = tail.count
    BY RoundWhole
  <2> HIDE DEF close
  <2>2. PICK t : /\ tables' = Append(tables, t)
                 /\ t.opening = opening /\ pos' = opening + 1 /\ UNCHANGED <<pc, outcome>>
                 /\ t.close = close
                 /\ ColumnsOf(opening, t.close).error = "none" /\ t.columns = ColumnsOf(opening, t.close).count
                 /\ \E tail \in TailsOf(opening, t.close) : tail.error = "none" /\ t.partitions = tail.count
    BY <2>1, Zenon
  <2>3. outcome' = outcome
    BY <2>2
  <2> QED
    BY <2>2, <2>3
<1>3. PICK tail \in TailsOf(opening, close) : tail.error = "none" /\ t.partitions = tail.count
  BY <1>2
<1>4. k \in Found(cleaned, "create") /\ k >= pos /\ k < opening /\ Pair(cleaned, opening, close)
  BY RoundShape
<1>5. /\ columns.count \in Nat /\ tail.count \in Nat
      /\ Used + columns.count + tail.count <= MaxColumns
      /\ \E T : /\ \A o \in T : \/ \E m \in 1..Len(tables) : Top(cleaned, tables[m].close + 1, o)
                                \/ Top(cleaned, close + 1, o)
                /\ Used + columns.count + tail.count
                     <= Cardinality(OwnedBy(cleaned, (Firsts(tables) \cup {opening}) \cup T))
  BY <1>2, <1>3, RoundFits
<1>6. PICK T : /\ \A o \in T : \/ \E m \in 1..Len(tables) : Top(cleaned, tables[m].close + 1, o)
                               \/ Top(cleaned, close + 1, o)
               /\ Used + columns.count + tail.count
                    <= Cardinality(OwnedBy(cleaned, (Firsts(tables) \cup {opening}) \cup T))
  BY <1>5
<1> HIDE DEF close, columns
<1>7. PICK R : tables \in Seq(R)
  BY DEF Kept
<1>8. /\ n \in Nat /\ Len(tables') = n + 1
      /\ DOMAIN tables = 1..n /\ DOMAIN tables' = 1..(n + 1)
      /\ tables'[n + 1] = t
      /\ \A m \in 1..n : tables'[m] = tables[m]
  BY <1>2, <1>7, AppendIs
<1>9. /\ Listing(tables) /\ \A m \in 1..n : tables[m].opening < pos
      /\ n <= Cardinality(Found(cleaned, "create") \cap (1..(pos - 1)))
  BY DEF Backed
<1> HIDE DEF n
<1>10. Listing(tables')
  <2>1. ASSUME NEW m \in 1..(n + 1) PROVE tables'[m].columns \in Nat /\ tables'[m].partitions \in Nat
    <3>1. CASE m = n + 1
      BY <1>2, <1>3, <1>5, <1>8, <3>1
    <3>2. CASE m \in 1..n
      BY <1>8, <1>9, <3>2 DEF Listing, n
    <3> QED
      BY <1>8, <3>1, <3>2
  <2> QED
    BY <1>8, <2>1 DEF Listing
<1>11. UsedBy(tables')[Len(tables')] = Used + columns.count + tail.count
  <2>1. n = Len(tables)
    BY DEF n
  <2>2. UsedBy(tables')[Len(tables')]
          = UsedBy(tables)[n] + tables'[Len(tables')].columns + tables'[Len(tables')].partitions
    BY <1>8, <1>9, <1>10, <2>1, UsedAppend
  <2>3. tables'[Len(tables')] = t
    BY <1>8
  <2> QED
    BY <1>2, <1>3, <2>1, <2>2, <2>3, UsedIs
<1>12. opening \in 1..Len(cleaned) /\ Len(cleaned) \in Nat
  BY <1>1, <1>4, PairEnds
<1>13. pos \in Nat /\ 1 <= pos /\ pos <= k /\ k \in Int /\ opening + 1 \in Nat /\ k < opening + 1
       /\ opening + 1 <= Len(cleaned) + 1
  <2>1. k \in Int
    BY <1>1, <1>4 DEF Found
  <2>2. Len(sql) \in Nat
    BY <1>1
  <2> QED
    BY <1>1, <1>4, <1>12, <2>1, <2>2
<1>14. \A m \in 1..(n + 1) : tables'[m].opening < pos'
  <2>1. ASSUME NEW m \in 1..n PROVE tables'[m].opening < opening + 1
    <3>1. tables'[m] = tables[m] /\ tables[m].opening < pos
      BY <1>8, <1>9
    <3>2. tables[m].opening \in Int
      <4>1. Whole(cleaned, tables[m])
        BY <1>8 DEF Kept
      <4>2. tables[m].opening \in Found(cleaned, "(")
        BY <4>1 DEF Whole, Pair
      <4> QED
        BY <1>1, <4>2 DEF Found
    <3> QED
      BY <1>4, <1>12, <1>13, <3>1, <3>2
  <2>2. tables'[n + 1].opening < opening + 1
    BY <1>2, <1>8, <1>12
  <2> QED
    BY <1>2, <1>8, <2>1, <2>2
<1>15. n + 1 <= Cardinality(Found(cleaned, "create") \cap (1..(pos' - 1)))
  <2> DEFINE was == Cardinality(Found(cleaned, "create") \cap (1..(pos - 1)))
             is == Cardinality(Found(cleaned, "create") \cap (1..((opening + 1) - 1)))
  <2>1. is >= was + 1 /\ is \in Nat /\ was \in Nat
    BY <1>1, <1>4, <1>13, CreatesBefore
  <2>2. n <= was
    BY <1>9
  <2>3. Cardinality(Found(cleaned, "create") \cap (1..(pos' - 1))) = is
    BY <1>2
  <2> HIDE DEF was, is
  <2> QED
    BY <1>8, <2>1, <2>2, <2>3
<1>16. Seconds(cleaned, tables', T)
  <2> SUFFICES ASSUME NEW o \in T PROVE \E m \in 1..Len(tables') : Top(cleaned, tables'[m].close + 1, o)
    BY DEF Seconds
  <2>1. ASSUME NEW m \in 1..Len(tables), Top(cleaned, tables[m].close + 1, o)
        PROVE  \E i \in 1..Len(tables') : Top(cleaned, tables'[i].close + 1, o)
    <3>1. m \in 1..n /\ m \in 1..Len(tables') /\ tables'[m] = tables[m]
      BY <1>8 DEF n
    <3> QED
      BY <2>1, <3>1
  <2>2. ASSUME Top(cleaned, close + 1, o) PROVE \E i \in 1..Len(tables') : Top(cleaned, tables'[i].close + 1, o)
    <3>1. n + 1 \in 1..Len(tables') /\ tables'[n + 1].close = close
      BY <1>2, <1>8
    <3> QED
      BY <2>2, <3>1
  <2> QED
    BY <1>6, <2>1, <2>2
<1>17. Firsts(tables') = Firsts(tables) \cup {opening}
  <2>1. ASSUME NEW x \in Firsts(tables') PROVE x \in Firsts(tables) \cup {opening}
    <3>1. PICK m \in 1..(n + 1) : x = tables'[m].opening
      BY <1>8 DEF Firsts
    <3>2. m \in 1..n \/ m = n + 1
      BY <1>8
    <3> QED
      BY <1>2, <1>8, <3>1, <3>2 DEF Firsts, n
  <2>2. ASSUME NEW x \in Firsts(tables) PROVE x \in Firsts(tables')
    <3>1. PICK m \in 1..n : x = tables[m].opening
      BY DEF Firsts, n
    <3>2. m \in 1..(n + 1) /\ x = tables'[m].opening
      BY <1>8, <3>1
    <3> QED
      BY <1>8, <3>2 DEF Firsts
  <2>3. opening \in Firsts(tables')
    <3>1. n + 1 \in 1..Len(tables') /\ tables'[n + 1].opening = opening
      BY <1>2, <1>8
    <3> QED
      BY <3>1 DEF Firsts
  <2> QED
    BY <2>1, <2>2, <2>3
<1>18. Len(tables') <= MaxTables
  BY <1>1, <1>8 DEF n
<1>19. UsedBy(tables')[Len(tables')] <= Cardinality(OwnedBy(cleaned, Firsts(tables') \cup T))
  BY <1>6, <1>11, <1>17
<1>20. UsedBy(tables')[Len(tables')] <= MaxColumns
  BY <1>5, <1>11
<1> QED
  BY <1>2, <1>8, <1>10, <1>14, <1>15, <1>16, <1>18, <1>19, <1>20 DEF Backed

LEMMA RefusedLimited ==
  ASSUME Typed, Masked, Kept, Counted, ParseStatement, outcome' \in {"tableLimit", "columnLimit"}
  PROVE  Limited'
<1>1. outcome = "none" /\ pc = "match" /\ UNCHANGED cleaned
  BY RoundOf DEF Typed, TypeOK
<1>2. cleaned \in Seq(Tokens) /\ pos \in 1..(Len(sql) + 1) /\ sql \in Seq(Tokens) /\ MaxTables \in Nat
  BY LimitsAssumption DEF Typed, TypeOK
<1>3. PICK k \in NextMatch \ quoted : \E opening \in Opening(k) :
        \/ Len(tables) >= MaxTables /\ Refuse("tableLimit")
        \/ \E message \in {"statement", "unclosed"} : Refuse(message)
        \/ /\ Len(tables) < MaxTables /\ Separated(cursor, k - 1)
           /\ Closings(cleaned, opening) # {}
           /\ Statement(k, opening, Least(Closings(cleaned, opening)))
  BY RoundResults, Zenon
<1>4. PICK opening \in Opening(k) :
        \/ Len(tables) >= MaxTables /\ Refuse("tableLimit")
        \/ \E message \in {"statement", "unclosed"} : Refuse(message)
        \/ /\ Len(tables) < MaxTables /\ Separated(cursor, k - 1)
           /\ Closings(cleaned, opening) # {}
           /\ Statement(k, opening, Least(Closings(cleaned, opening)))
  BY <1>3, Zenon
<1>5. \A message : Refuse(message) => outcome' = message
  BY DEF Refuse, Stop
<1>6. CASE Len(tables) >= MaxTables /\ Refuse("tableLimit")
  <2>1. k \in Found(cleaned, "create") /\ k >= pos
    BY <1>1, MatchHeader
  <2>2. k \in 1..Len(cleaned) /\ Len(cleaned) \in Nat /\ Len(sql) \in Nat
    BY <1>2, <2>1 DEF Found
  <2>3. pos \in Nat /\ 1 <= pos /\ pos <= k /\ k + 1 \in Nat /\ k < k + 1 /\ k + 1 <= Len(cleaned) + 1
    BY <1>2, <2>1, <2>2
  <2> DEFINE was == Cardinality(Found(cleaned, "create") \cap (1..(pos - 1)))
             is == Cardinality(Found(cleaned, "create") \cap (1..((k + 1) - 1)))
             all == Cardinality(Found(cleaned, "create"))
  <2>4. is >= was + 1 /\ is \in Nat /\ was \in Nat /\ all \in Nat /\ all >= is
    BY <1>2, <2>1, <2>3, CreatesBefore
  <2>5. Len(tables) <= was /\ Len(tables) \in Nat
    BY DEF Counted, Backed, Listing
  <2> HIDE DEF was, is
  <2>6. all > MaxTables
    <3> HIDE DEF all
    <3> QED
      BY <1>2, <1>6, <2>4, <2>5
  <2>7. outcome' = "tableLimit"
    BY <1>5, <1>6
  <2> QED
    BY <1>1, <2>6, <2>7 DEF Limited
<1>7. CASE \E message \in {"statement", "unclosed"} : Refuse(message)
  BY <1>5, <1>7
<1>8. CASE /\ Closings(cleaned, opening) # {}
           /\ Statement(k, opening, Least(Closings(cleaned, opening)))
  <2> DEFINE close == Least(Closings(cleaned, opening))
             marks == Cardinality(Found(cleaned, "(") \cup Found(cleaned, "comma"))
  <2>1. /\ ColumnsOf(opening, close).error = "columnLimit" => marks > MaxColumns
        /\ ColumnsOf(opening, close).error = "none" => \A tail \in TailsOf(opening, close) :
             tail.error = "columnLimit" => marks > MaxColumns
    BY <1>1, <1>8, RoundFits DEF Counted
  <2>2. \/ ColumnsOf(opening, close).error # "none" /\ Refuse(ColumnsOf(opening, close).error)
        \/ \E tail \in TailsOf(opening, close) :
             ColumnsOf(opening, close).error = "none" /\ tail.error # "none" /\ Refuse(tail.error)
        \/ Refuse("name")
        \/ Adds(k, opening, close)
    BY <1>8, StatementResults
  <2>3. ColumnsOf(opening, close).error \in {"none", "columnLimit", "definition"}
        /\ \A tail \in TailsOf(opening, close) : tail.error \in {"none", "columnLimit", "definition", "tail"}
    BY ErrorsTyped, TailErrorsTyped DEF ColumnsOf, TailsOf
  <2>4. ~ Adds(k, opening, close)
    <3>1. Adds(k, opening, close) => outcome' = outcome
      BY DEF Adds
    <3> QED
      BY <1>1, <3>1
  <2> HIDE DEF close, marks
  <2>5. outcome' = "columnLimit" /\ marks > MaxColumns
    <3>1. CASE ColumnsOf(opening, close).error # "none" /\ Refuse(ColumnsOf(opening, close).error)
      BY <1>5, <2>1, <2>3, <3>1
    <3>2. ASSUME NEW tail \in TailsOf(opening, close), ColumnsOf(opening, close).error = "none",
                 tail.error # "none", Refuse(tail.error)
          PROVE  outcome' = "columnLimit" /\ marks > MaxColumns
      BY <1>5, <2>1, <2>3, <3>2
    <3>3. CASE Refuse("name")
      BY <1>5, <3>3
    <3> QED
      BY <2>2, <2>4, <3>1, <3>2, <3>3
  <2> QED
    BY <1>1, <2>5 DEF Limited, marks
<1> QED
  BY <1>4, <1>6, <1>7, <1>8

LEMMA BackedStart == \A text : Backed(text, <<>>, 1)
<1> TAKE text
<1>1. Len(<<>>) = 0 /\ DOMAIN <<>> = 1..0 /\ \A n : n \notin 1..0
  OBVIOUS
<1>2. Listing(<<>>)
  BY <1>1 DEF Listing
<1>3. UsedBy(<<>>)[Len(<<>>)] = 0
  BY <1>1, <1>2, UsedRuns
<1>4. MaxTables \in Nat /\ MaxColumns \in Nat
  BY LimitsAssumption
<1>5. Found(text, "create") \cap (1..(1 - 1)) = {}
  BY <1>1
<1>6. OwnedBy(text, Firsts(<<>>) \cup {}) = {} /\ Seconds(text, <<>>, {})
  BY <1>1 DEF OwnedBy, Firsts, Seconds
<1>7. Len(<<>>) <= Cardinality(Found(text, "create") \cap (1..(1 - 1)))
  BY <1>1, <1>5, FS_EmptySet
<1>8. UsedBy(<<>>)[Len(<<>>)] <= Cardinality(OwnedBy(text, Firsts(<<>>) \cup {}))
  BY <1>3, <1>6, FS_EmptySet
<1>9. Len(<<>>) <= MaxTables /\ UsedBy(<<>>)[Len(<<>>)] <= MaxColumns
  BY <1>1, <1>3, <1>4
<1>10. \A n \in 1..Len(<<>>) : <<>>[n].opening < 1
  BY <1>1
<1> QED
  BY <1>2, <1>6, <1>7, <1>8, <1>9, <1>10, Zenon DEF Backed

LEMMA BackedOn ==
  ASSUME NEW text, NEW s, NEW p \in Int, Backed(text, s, p), NEW q \in Int, p <= q,
         \A n \in 1..Len(s) : s[n].opening \in Int
  PROVE  Backed(text, s, q)
<1> DEFINE before == Found(text, "create") \cap (1..(p - 1))
           upto == Found(text, "create") \cap (1..(q - 1))
<1>1. IsFiniteSet(1..(q - 1)) /\ upto \in SUBSET (1..(q - 1)) /\ before \in SUBSET upto
  <2>1. 1 \in Int /\ q - 1 \in Int
    OBVIOUS
  <2> QED
    BY <2>1, FS_Interval
<1> HIDE DEF before, upto
<1>2. IsFiniteSet(upto) /\ IsFiniteSet(before) /\ Cardinality(before) <= Cardinality(upto)
      /\ Cardinality(before) \in Nat /\ Cardinality(upto) \in Nat
  BY <1>1, FS_Subset, FS_CardinalityType
<1>3. Len(s) <= Cardinality(before) /\ Len(s) \in Nat
  BY DEF Backed, Listing, before
<1>4. Len(s) <= Cardinality(upto)
  BY <1>2, <1>3
<1>5. \A n \in 1..Len(s) : s[n].opening < q
  BY DEF Backed
<1> QED
  BY <1>4, <1>5 DEF Backed, upto

LEMMA CountedStep ==
  ASSUME Typed, Masked, Kept, Counted, [Next]_vars
  PROVE  Counted'
<1>0. /\ outcome = "none" <=> pc # "ended"
      /\ pc = "clean" => tables = <<>> /\ pos = 1
      /\ cleaned \in Seq(Tokens) /\ pos \in Int /\ Backed(cleaned, tables, pos) /\ Limited
  BY DEF Typed, TypeOK, Counted
<1>1. CASE Clean
  <2>1. tables' = <<>> /\ pos' = 1 /\ outcome' \in {"none", "unterminated"}
    BY <1>0, <1>1 DEF Clean, Stop
  <2>2. Backed(cleaned', tables', pos')
    BY <2>1, BackedStart
  <2> QED
    BY <2>1, <2>2 DEF Counted, Limited
<1>2. CASE SkipQuotedMatch
  <2>1. PICK k \in NextMatch \cap quoted : \E opening \in Opening(k) : pos' = opening + 1
    BY <1>2 DEF SkipQuotedMatch
  <2>2. PICK opening \in Opening(k) : pos' = opening + 1
    BY <2>1
  <2>3. k \in 1..Len(cleaned) /\ k >= pos /\ opening \in Openings(cleaned, k) /\ opening \in 1..Len(cleaned)
    BY <1>0, <2>2, MatchInside
  <2>4. opening > k
    BY <1>0, <2>3, OpeningAfter
  <2>5. pos' \in Int /\ pos <= pos'
    BY <1>0, <2>2, <2>3, <2>4
  <2>6. UNCHANGED <<cleaned, tables, outcome>>
    BY <1>2 DEF SkipQuotedMatch
  <2>7. \A n \in 1..Len(tables) : tables[n].opening \in Int
    <3> TAKE n \in 1..Len(tables)
    <3>1. n \in DOMAIN tables
      BY <1>0 DEF Backed, Listing
    <3>2. Whole(cleaned, tables[n])
      BY <3>1 DEF Kept
    <3> QED
      BY <1>0, <3>2, WholeEnds
  <2>8. Backed(cleaned, tables, pos')
    BY <1>0, <2>5, <2>7, BackedOn
  <2> QED
    BY <1>0, <2>6, <2>8 DEF Counted, Limited
<1>3. CASE ParseStatement
  <2>1. pc = "match" /\ cleaned' = cleaned /\ outcome = "none"
    BY <1>0, <1>3, RoundOf
  <2>2. CASE Refused
    <3>1. PICK message \in Refusals : Refuse(message)
      BY <2>2 DEF Refused
    <3>2. UNCHANGED <<tables, pos>>
      BY <3>1 DEF Refuse
    <3>3. Limited'
      <4>1. CASE outcome' \in {"tableLimit", "columnLimit"}
        BY <1>3, <4>1, RefusedLimited
      <4>2. CASE outcome' \notin {"tableLimit", "columnLimit"}
        BY <4>2 DEF Limited
      <4> QED
        BY <4>1, <4>2
    <3> QED
      BY <1>0, <2>1, <3>2, <3>3 DEF Counted
  <2>3. ASSUME NEW k \in NextMatch \ quoted, NEW opening \in Opening(k), Len(tables) < MaxTables,
               Closings(cleaned, opening) # {}, Adds(k, opening, Least(Closings(cleaned, opening)))
        PROVE  Counted'
    <3>1. Backed(cleaned, tables', pos') /\ outcome' = outcome
      BY <1>0, <2>1, <2>3, RoundCounted
    <3> QED
      BY <2>1, <3>1 DEF Counted, Limited
  <2> QED
    BY <1>3, <2>2, <2>3, RoundOf
<1>4. CASE EndDocument
  <2>1. UNCHANGED <<cleaned, pos, tables>> /\ outcome' \in {"noStatement", "parsed", "statement"}
    BY <1>4 DEF EndDocument, Stop
  <2> QED
    BY <1>0, <2>1 DEF Counted, Limited
<1>5. CASE Finished \/ UNCHANGED vars
  <2>1. UNCHANGED <<cleaned, pos, tables, outcome>>
    BY <1>5 DEF Finished, vars
  <2> QED
    BY <1>0, <2>1 DEF Counted, Limited
<1> QED
  BY <1>1, <1>2, <1>3, <1>4, <1>5 DEF Next

LEMMA CountedInvariant == Spec => []Counted
<1>1. Init => Counted
  BY BackedStart DEF Init, Counted, Limited
<1>2. Typed /\ Masked /\ Kept /\ Counted /\ [Next]_vars => Counted'
  BY CountedStep
<1> QED
  BY <1>1, <1>2, TypedInvariant, MaskedInvariant, KeptInvariant, PTL DEF Spec

(* No document gets more tables or columns than it may have, and none is    *)
(* refused for having too many that has not: each column that was counted   *)
(* has a comma or a parenthesis that no other column has, in whatever list  *)
(* of whatever statement it was found, one inside the other included.       *)
THEOREM LimitsAreKept == Spec => []LimitsHold
<1>1. Typed /\ Masked /\ Counted => LimitsHold
  <2> SUFFICES ASSUME Typed, Masked, Counted PROVE LimitsHold
    OBVIOUS
  <2>1. /\ Listing(tables) /\ Len(tables) <= MaxTables /\ UsedBy(tables)[Len(tables)] <= MaxColumns
    BY DEF Counted, Backed
  <2>2. Cardinality(UNION {{n} \X (1..(tables[n].columns + tables[n].partitions)) : n \in DOMAIN tables})
          <= MaxColumns
    <3>1. ColumnsUpTo(tables, Len(tables))
            = UNION {{n} \X (1..(tables[n].columns + tables[n].partitions)) : n \in DOMAIN tables}
      BY <2>1, Zenon DEF ColumnsUpTo, Listing
    <3>2. Cardinality(ColumnsUpTo(tables, Len(tables))) = UsedBy(tables)[Len(tables)]
      BY <2>1, ColumnsCounted
    <3> QED
      BY <2>1, <3>1, <3>2
  <2>3. ASSUME outcome \in {"tableLimit", "columnLimit"}
        PROVE  /\ Outside("create") = Found(cleaned, "create")
               /\ Outside("(") = Found(cleaned, "(") /\ Outside("comma") = Found(cleaned, "comma")
    <3>1. pc # "clean" /\ outcome # "unterminated"
      BY <2>3 DEF Typed, TypeOK
    <3>2. "create" \notin Quotes \cup Blanks /\ "(" \notin Quotes \cup Blanks /\ "comma" \notin Quotes \cup Blanks
      BY DEF Quotes, Blanks
    <3> QED
      BY <3>1, <3>2, OutsideIs
  <2>4. outcome = "tableLimit" => Cardinality(Outside("create")) > MaxTables
    BY <2>3 DEF Counted, Limited
  <2>5. outcome = "columnLimit" => Cardinality(Outside("(") \cup Outside("comma")) > MaxColumns
    BY <2>3 DEF Counted, Limited
  <2> QED
    BY <2>1, <2>2, <2>4, <2>5 DEF LimitsHold
<1> QED
  BY <1>1, TypedInvariant, MaskedInvariant, CountedInvariant, PTL
=============================================================================
