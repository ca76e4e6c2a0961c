------------------------------- MODULE DdlScan -------------------------------
(***************************************************************************)
(* parse_hive_ddl of parser.py: find the CREATE TABLE statements of a      *)
(* document and where each of them ends.  The comments are masked first;   *)
(* five loops then walk the same text, each one with its own idea of what  *)
(* is inside quotes, starting at different places.                         *)
(*                                                                         *)
(* A text is a sequence of tokens.  "create" stands for CREATE up to TABLE *)
(* and the blanks after it, "part" for PARTITIONED BY, "key" for the first *)
(* word of a table constraint, "word" for any other text without one of    *)
(* the characters below; all other tokens are one character.  What a       *)
(* definition or clause says is the subject of TableStatement; here it is  *)
(* accepted when nothing stands outside its quotes and parentheses that    *)
(* could not stand in one.                                                 *)
(***************************************************************************)
EXTENDS Integers, Sequences, FiniteSets

CONSTANTS
  Documents,   \* the texts of this instance
  MaxTables,   \* max_tables
  MaxColumns   \* max_columns

Quotes == {"quote", "dquote", "backquote"}
Blanks == {"blank", "nl"}
Tokens == Quotes \cup Blanks \cup
  {"create", "part", "key", "word", "escape", "-", "/", "*", "(", ")", "<", ">",
   "comma", "semicolon", "dot"}

ASSUME DocumentsAssumption == Documents \subseteq Seq(Tokens)
ASSUME LimitsAssumption    == MaxTables \in Nat /\ MaxColumns \in Nat

VARIABLES
  sql,      \* the document
  cleaned,  \* the same without its comments
  quoted,   \* the positions _quoted_character_mask marks
  pc,
  pos,      \* where finditer searches on
  cursor,   \* after the last statement
  matched,
  tables,   \* where each table starts and ends, and its number of columns
  outcome

vars == <<sql, cleaned, quoted, pc, pos, cursor, matched, tables, outcome>>

Init ==
  /\ sql \in Documents /\ cleaned = <<>> /\ quoted = {}
  /\ pc = "clean" /\ pos = 1 /\ cursor = 1
  /\ matched = FALSE /\ tables = <<>> /\ outcome = "none"

Stop(message) == pc' = "ended" /\ outcome' = message

-----------------------------------------------------------------------------
(* Positions in texts.  The definitions named ...Variant are faulty         *)
(* versions of the definition that follows them; no action uses them.       *)

Least(S)    == CHOOSE k \in S : \A l \in S : k <= l
Greatest(S) == CHOOSE k \in S : \A l \in S : k >= l
At(text, k) == IF k \in DOMAIN text THEN text[k] ELSE "end"
Slice(text, from, to) == SubSeq(text, from, to)   \* both included
Strip(text) ==
  LET solid == {k \in DOMAIN text : text[k] \notin Blanks}
  IN  IF solid = {} THEN <<>>
      ELSE Slice(text, Least(solid), Greatest(solid))

(* _quoted_scan_step, one token at a time: `skip` is on at the second token *)
(* of a pair that the loop takes in one step. *)
Plain == [in |-> "none", skip |-> FALSE]
Quote(q, skips) == [in |-> q, skip |-> skips]

ScanStepVariant(text, k, s) ==   \* a backslash hides nothing
  CASE s.skip                                          -> Quote(s.in, FALSE)
    [] ~ s.skip /\ s.in = "none"                       ->
         IF text[k] \in Quotes THEN Quote(text[k], FALSE) ELSE Plain
    [] ~ s.skip /\ s.in # "none" /\ text[k] = s.in     ->
         IF At(text, k + 1) = s.in THEN Quote(s.in, TRUE) ELSE Plain
    [] OTHER                                           -> s
ScanStep(text, k, s) ==
  CASE s.skip                                          -> Quote(s.in, FALSE)
    [] ~ s.skip /\ s.in = "none"                       ->
         IF text[k] \in Quotes THEN Quote(text[k], FALSE) ELSE Plain
    [] ~ s.skip /\ s.in # "none" /\ text[k] = s.in     ->
         IF At(text, k + 1) = s.in THEN Quote(s.in, TRUE) ELSE Plain
    [] OTHER                                           ->
         Quote(s.in, s.in # "backquote" /\ text[k] = "escape" /\ k < Len(text))

(* What a loop that starts outside quotes at `from` takes for text outside  *)
(* quotes. *)
PlainFrom(text, from) ==
  LET state[k \in from..(Len(text) + 1)] ==
        IF k = from THEN Plain ELSE ScanStep(text, k - 1, state[k - 1])
  IN  {k \in from..(Len(text) + 1) : state[k] = Plain}

-----------------------------------------------------------------------------
(* _without_comments: the two loops inside it are two more states. *)

Comment(kind) == [in |-> kind, skip |-> FALSE]
CommentStep(text, k, s) ==
  LET two == <<At(text, k), At(text, k + 1)>> IN
    CASE s = Plain /\ two = <<"-", "-">>             -> Comment("line")
      [] s = Plain /\ two = <<"/", "*">>             -> Comment("opening")
      [] s = Comment("line")                         -> IF text[k] = "nl" THEN Plain ELSE s
      [] s = Comment("opening")                      -> Comment("block")
      [] s = Comment("block")                        -> IF two = <<"*", "/">> THEN Comment("closing")
                                                        ELSE s
      [] s = Comment("closing")                      -> Plain
      [] OTHER                                       -> ScanStep(text, k, s)

CommentKinds == {"line", "opening", "block", "closing"}

WithoutCommentsVariant(text) ==   \* takes the comments out
  LET state[k \in 1..(Len(text) + 1)] ==
        IF k = 1 THEN Plain ELSE CommentStep(text, k - 1, state[k - 1])
      kept(k) == {state[k].in, state[k + 1].in} \cap CommentKinds = {}
      keep(pair) == kept(pair[1])
      left == SelectSeq([k \in DOMAIN text |-> <<k, text[k]>>], keep)
  IN  [text |-> [n \in DOMAIN left |-> left[n][2]],
       complete |-> state[Len(text) + 1] \in {Plain, Comment("line")}]
WithoutComments(text) ==
  LET state[k \in 1..(Len(text) + 1)] ==
        IF k = 1 THEN Plain ELSE CommentStep(text, k - 1, state[k - 1])
      all == [k \in 1..(Len(text) + 1) |-> state[k]]
      masked(k) == /\ text[k] # "nl"
                   /\ {all[k].in, all[k + 1].in} \cap CommentKinds # {}
  IN  [text |-> [k \in DOMAIN text |-> IF masked(k) THEN "blank" ELSE text[k]],
       complete |-> all[Len(text) + 1] \in {Plain, Comment("line")}]

(* The positions inside quotes; the quotes themselves are among them. *)
QuotedMask(text) ==
  UNION {{k \in DOMAIN text : k \notin plain \/ text[k] \in Quotes} : plain \in {PlainFrom(text, 1)}}

(* What a "/*" or a quote opens has an end. *)
Clean ==
  /\ pc = "clean"
  /\ \E result \in {WithoutComments(sql)} :
       \/ ~ result.complete /\ Stop("unterminated") /\ UNCHANGED <<cleaned, quoted>>
       \/ /\ result.complete
          /\ cleaned' = result.text /\ quoted' = QuotedMask(result.text)
          /\ pc' = "match" /\ UNCHANGED outcome
  /\ UNCHANGED <<sql, pos, cursor, matched, tables>>

-----------------------------------------------------------------------------
(* The pattern _CREATE_TABLE. *)

SkipBlanks(text, k) == Least({l \in k..(Len(text) + 1) : At(text, l) \notin Blanks})

(* Ends of the identifiers that start at k: in backquotes every backquote   *)
(* is one of two. *)
IdentifierEnds(text, k) ==
  LET ends == {l \in (k + 2)..Len(text) : text[l] = "backquote"}
      paired[l \in k..Len(text)] ==   \* the tokens after k up to l are whole
        l = k \/ (text[l] # "backquote" /\ paired[l - 1])
              \/ (l > k + 1 /\ text[l] = "backquote" /\ text[l - 1] = "backquote" /\ paired[l - 2])
  IN  CASE At(text, k) = "word" -> {k + 1}
        [] At(text, k) = "backquote"    -> {l + 1 : l \in {l \in ends : paired[l - 1]}}
        [] OTHER                -> {}

(* The parenthesis a match that starts at k ends with. *)
Openings(text, k) ==
  LET first  == IdentifierEnds(text, SkipBlanks(text, k + 1))
      dots   == {d \in {SkipBlanks(text, e) : e \in first} : At(text, d) = "dot"}
      second == UNION {IdentifierEnds(text, SkipBlanks(text, d + 1)) : d \in dots}
  IN  IF At(text, k) # "create" THEN {}
      ELSE {o \in {SkipBlanks(text, e) : e \in first \cup second} : At(text, o) = "("}

Matches(text) == {k \in DOMAIN text : Openings(text, k) # {}}

(* _qualified_name: whether the name has at most one database. *)
NameIsQualified(text) ==
  LET name == Strip(text)
      dots == {k \in DOMAIN name : name[k] = "dot"}
      bare == dots \cap PlainFrom(name, 1)
  IN  bare = {} /\ At(name, 1) = "backquote" =>
        /\ Cardinality(dots) <= 1
        /\ \A k \in dots : k > 2 /\ k < Len(name) - 1

-----------------------------------------------------------------------------
(* The loops that look for the end of something. *)

Turn(token) == CASE token = "(" -> 1 [] token = ")" -> -1 [] OTHER -> 0

(* What the loops keep: the quotes, the depth in parentheses and in angle   *)
(* brackets, and where the current part starts; level[k] is before k.       *)
LevelStep(text, k, l) ==
  LET bare(token) == l.scan = Plain /\ text[k] = token
      flat(token) == bare(token) /\ l.round = 0
  IN  [scan  |-> ScanStep(text, k, l.scan),
       round |-> IF l.scan = Plain THEN l.round + Turn(text[k]) ELSE l.round,
       angle |-> CASE flat("<")                 -> l.angle + 1
                   [] flat(">") /\ l.angle > 0  -> l.angle - 1
                   [] OTHER                     -> l.angle,
       from  |-> IF flat("comma") /\ l.angle = 0 THEN k + 1 ELSE l.from]
Levels(text, from) ==
  LET level[k \in from..(Len(text) + 1)] ==
        IF k = from THEN [scan |-> Plain, round |-> 0, angle |-> 0, from |-> from]
        ELSE LevelStep(text, k - 1, level[k - 1])
  IN  [k \in from..(Len(text) + 1) |-> level[k]]

(* _matching_parenthesis_end: where the one that opens at `opening` closes. *)
Closings(text, opening) ==
  UNION {{k \in opening..Len(text) : level[k].round > 0 /\ level[k + 1].round = 0} :
           level \in {Levels(text, opening)}}

Flat(text, level) == {k \in DOMAIN text : level[k].scan = Plain /\ level[k].round = 0}

(* _statement_end: the position after the statement. *)
StatementEndVariant(text, from) ==   \* does not see the quotes
  LET last == {k \in from..Len(text) : text[k] = "semicolon"}
  IN  Least({k + 1 : k \in last} \cup {Len(text) + 1})
StatementEnd(text, from) ==
  LET last == {k \in PlainFrom(text, from) : At(text, k) = "semicolon"}
  IN  Least({k + 1 : k \in last} \cup {Len(text) + 1})

-----------------------------------------------------------------------------
(* _columns: the definitions in order, up to the first that is refused. *)

(* Outside quotes and parentheses a definition has nothing but words. *)
Bare == {"word", "key", "<", ">", "comma", "("} \cup Blanks \cup Quotes
Definition(body) ==
  CASE body = <<>>          -> "empty"
    [] At(body, 1) = "key"  -> "constraint"
    [] At(body, 1) = "word" /\ \A level \in {Levels(body, 1)} :
         \A k \in Flat(body, level) : body[k] \in Bare -> "column"
    [] OTHER                -> "malformed"

(* _top_level_parts: the definitions by their ends.  A text that does not   *)
(* balance has no last one, which is found out when it is due: an empty one *)
(* stands for it.                                                           *)
Parts(text, level) ==
  LET last == Len(text) + 1
      cuts == {k \in DOMAIN text : level[k + 1].from > level[k].from}
      whole == level[last].scan = Plain /\ level[last].round = 0 /\ level[last].angle = 0
  IN  {[end |-> k, body |-> Strip(Slice(text, level[k].from, k - 1))] : k \in cuts}
      \cup {[end |-> last, body |-> IF whole THEN Strip(Slice(text, level[last].from, last - 1))
                                   ELSE <<>>]}
Definitions(text) ==
  {[end |-> p.end, kind |-> Definition(p.body)] :
     p \in UNION {Parts(text, level) : level \in {Levels(text, 1)}}}

(* The result for a set of definitions. *)
Columns(definitions, max, allowConstraints) ==
  LET before(d) == Cardinality({e \in definitions : e.end < d.end /\ e.kind = "column"})
      limited(d) == d.kind \in {"column", "malformed"} /\ before(d) >= max
      refused == {d \in definitions : \/ d.kind \in {"empty", "malformed"} \/ limited(d)
                                      \/ d.kind = "constraint" /\ ~ allowConstraints}
      none == \A d \in definitions : d.kind # "column"
  IN  [count |-> Cardinality({d \in definitions : d.kind = "column"}),
       error |-> CASE \E d \in refused : limited(d) /\ \A e \in refused : d.end <= e.end
                                           -> "columnLimit"
                   [] refused = {} /\ ~ none -> "none"
                   [] OTHER                -> "definition"]

(* _parse_table_tail, as far as the end of a statement depends on it: a     *)
(* comment, then the partition columns.  The result is the one element.     *)
TailColumns(text, max) ==
  LET solid(level) == {k \in Flat(text, level) : text[k] \notin Blanks}
      shows(level, tokens) ==   \* the solid ones are these, in this order
        /\ Cardinality(solid(level)) = Len(tokens)
        /\ \A k \in solid(level) : text[k] = tokens[Cardinality(solid(level) \cap (1..k))]
      opens(level) == {k \in Flat(text, level) : text[k] = "(" /\ Closings(text, k) # {}}
      lists(level) == {Slice(text, k + 1, Least(Closings(text, k)) - 1) : k \in opens(level)}
      result(list) == {Columns(definitions, max, FALSE) : definitions \in {Definitions(list)}}
  IN  UNION {CASE \E marks \in {<<>>, <<"quote">>} : shows(level, marks)
                                                -> {[count |-> 0, error |-> "none"]}
               [] /\ \E marks \in {<<"part", "(">>, <<"quote", "part", "(">>} : shows(level, marks)
                  /\ lists(level) # {}          -> UNION {result(list) : list \in lists(level)}
               [] OTHER                         -> {[count |-> 0, error |-> "tail"]}
               : level \in {Levels(text, 1)}}

-----------------------------------------------------------------------------
(* The loop over the matches. *)

(* The next match, if there is one: where it starts and its parenthesis. *)
Candidates == {k \in Matches(cleaned) : k >= pos}
NextMatch  == {Least(S) : S \in {Candidates} \ {{}}}
Opening(k) == {Least(S) : S \in {Openings(cleaned, k)}}

(* finditer goes on after a match in quotes as it does after any other. *)
SkipQuotedMatch ==
  /\ pc = "match"
  /\ \E k \in NextMatch \cap quoted : \E opening \in Opening(k) : pos' = opening + 1
  /\ UNCHANGED <<sql, cleaned, quoted, pc, cursor, matched, tables, outcome>>

(* Nothing between two statements; nothing at all when `to` comes first.    *)
SeparatedVariant(from, to) == TRUE   \* skips what it does not know
Separated(from, to) == \A k \in from..to : cleaned[k] \in Blanks \cup {"semicolon"}

(* column_count: what the tables read so far have used of max_columns.      *)
UsedVariant ==   \* forgets the partition columns
  LET count[n \in 0..Len(tables)] == IF n = 0 THEN 0 ELSE count[n - 1] + tables[n].columns
  IN  count[Len(tables)]
Used ==
  LET count[n \in 0..Len(tables)] ==
        IF n = 0 THEN 0 ELSE count[n - 1] + tables[n].columns + tables[n].partitions
  IN  count[Len(tables)]

Refuse(message) == Stop(message) /\ UNCHANGED <<cursor, tables, pos>>

(* The statement that starts at k: slices of it, their columns and its name. *)
Statement(k, opening, close) ==
  \E end \in {StatementEnd(cleaned, close + 1)} :
  \E list \in {Slice(cleaned, opening + 1, close - 1)} :
  \E last \in {IF cleaned[end - 1] = "semicolon" THEN end - 2 ELSE end - 1} :
  \E rest \in {Slice(cleaned, close + 1, last)} :
  \E definitions \in {Definitions(list)} :
  \E columns \in {Columns(definitions, MaxColumns - Used, TRUE)} :
  \E tail \in TailColumns(rest, MaxColumns - Used - columns.count) :
    \/ columns.error # "none" /\ Refuse(columns.error)
    \/ columns.error = "none" /\ tail.error # "none" /\ Refuse(tail.error)
    \/ /\ {columns.error, tail.error} = {"none"}
       /\ ~ NameIsQualified(Slice(cleaned, k + 1, opening - 1)) /\ Refuse("name")
    \/ /\ {columns.error, tail.error} = {"none"}
       /\ NameIsQualified(Slice(cleaned, k + 1, opening - 1))
       /\ tables' = Append(tables, [start |-> k, opening |-> opening, close |-> close, end |-> end,
                                    columns |-> columns.count, partitions |-> tail.count])
       /\ cursor' = end /\ pos' = opening + 1
       /\ UNCHANGED <<pc, outcome>>

ParseStatement ==
  /\ pc = "match" /\ matched' = TRUE
  /\ \E k \in NextMatch \ quoted : \E opening \in Opening(k) :
       \/ Len(tables) >= MaxTables /\ Refuse("tableLimit")
       \/ Len(tables) < MaxTables /\ ~ Separated(cursor, k - 1) /\ Refuse("statement")
       \/ /\ Len(tables) < MaxTables /\ Separated(cursor, k - 1)
          /\ \E closings \in {Closings(cleaned, opening)} :
               \/ closings = {} /\ Refuse("unclosed")
               \/ \E close \in {Least(S) : S \in {closings} \ {{}}} : Statement(k, opening, close)
  /\ UNCHANGED <<sql, cleaned, quoted>>

EndDocument ==
  /\ pc = "match" /\ NextMatch = {}
  /\ Stop(IF ~ matched THEN "noStatement"
          ELSE IF Separated(cursor, Len(cleaned)) THEN "parsed" ELSE "statement")
  /\ UNCHANGED <<sql, cleaned, quoted, pos, cursor, matched, tables>>

Finished == pc = "ended" /\ UNCHANGED vars

Next == Clean \/ SkipQuotedMatch \/ ParseStatement \/ EndDocument \/ Finished
Spec == Init /\ [][Next]_vars

-----------------------------------------------------------------------------
(* Properties.  First a reading of the document by its lexemes, without any *)
(* state: where the lexeme that starts at a position ends.                  *)

(* A quote ends the value that starts at `from` when it is the last of a    *)
(* run of quotes and is not half of a pair; the first of the run is no      *)
(* quote after an odd number of backslashes.                                *)
RunBefore(token, k, from) ==
  k - Greatest({l \in from..k : l = from \/ sql[l] # token})
Ends(from, k) ==
  LET q     == sql[from]
      run   == RunBefore(q, k, from)
      slash == IF q = "backquote" THEN 0 ELSE RunBefore("escape", k - run, from) % 2
  IN  sql[k] = q /\ At(sql, k + 1) # q /\ (run - slash) % 2 = 1

LexemeEnds(k) ==   \* the last position of the lexeme, if there is one
  LET two == <<sql[k], At(sql, k + 1)>> IN
    CASE two = <<"-", "-">>  -> {l \in k..Len(sql) : /\ At(sql, l + 1) \in {"nl", "end"}}
      [] two = <<"/", "*">>  -> {l \in (k + 3)..Len(sql) : <<sql[l - 1], sql[l]>> = <<"*", "/">>}
      [] sql[k] \in Quotes   -> {l \in (k + 1)..Len(sql) : Ends(k, l)}
      [] OTHER               -> {k}

Lexemes ==   \* <<first, last>>; the last position is 0 if the lexeme has no end
  LET from[k \in 1..(Len(sql) + 1)] ==
        IF k > Len(sql) THEN {}
        ELSE IF LexemeEnds(k) = {} THEN {<<k, 0>>}
        ELSE {<<k, Least(LexemeEnds(k))>>} \cup from[Least(LexemeEnds(k)) + 1]
  IN  from[1]

Covered(S)  == UNION {l[1]..l[2] : l \in S}
Commented   == Covered({l \in Lexemes : /\ sql[l[1]] \in {"-", "/"} /\ l[2] > l[1]})
InQuotes    == Covered({l \in Lexemes : sql[l[1]] \in Quotes})

Outside(token)   == {k \in DOMAIN sql \ (InQuotes \cup Commented) : sql[k] = token}
Depth(from, to)  ==
  Cardinality(Outside("(") \cap (from..to)) - Cardinality(Outside(")") \cap (from..to))

Outcomes == {"none", "unterminated", "tableLimit", "columnLimit", "statement", "unclosed",
             "definition", "tail", "name", "noStatement", "parsed"}

(* Type invariant. *)
TypeOK ==
  /\ pc \in {"clean", "match", "ended"} /\ outcome \in Outcomes
  /\ outcome = "none" <=> pc # "ended"
  /\ pos \in 1..(Len(sql) + 1) /\ cursor \in 1..(Len(sql) + 1)
  /\ pc # "clean" => cleaned = <<>> \/ Len(cleaned) = Len(sql)

(* The masks, made token by token, are those of the document's lexemes, and *)
(* they move nothing: an offset into the cleaned text is one into the       *)
(* document, whose text the tables keep.                                    *)
MasksAreExact ==
  /\ pc = "match" =>
       /\ quoted = InQuotes
       /\ cleaned = [k \in DOMAIN sql |-> IF k \in Commented /\ sql[k] # "nl" THEN "blank" ELSE sql[k]]
  /\ pc = "ended" => (outcome = "unterminated" <=> \E l \in Lexemes : l[2] = 0)

(* Wherever the loops over one statement start, they agree about the quotes *)
(* with the reading of the whole document: a statement starts, opens,       *)
(* closes and ends outside quotes and comments, and ends at the first       *)
(* semicolon of the document that can end it.                               *)
StatementsAreWhole ==
  \A n \in DOMAIN tables :
    LET t == tables[n] IN
      /\ t.start \in Outside("create") /\ t.opening \in Outside("(")
      /\ t.close = Least({k \in Outside(")") : k > t.start /\ Depth(t.opening, k) = 0})
      /\ t.end = Least({k \in 1..(Len(sql) + 1) : \/ k = Len(sql) + 1
                                                  \/ k - 1 > t.close /\ k - 1 \in Outside("semicolon")})

(* A document that is accepted is nothing but its tables: the statements    *)
(* are in order and do not overlap, between them is nothing, and no         *)
(* statement starts inside another one outside its parentheses: those of    *)
(* the columns, or those of the partition columns.                          *)
NothingLost ==
  outcome = "parsed" =>
    LET inside == UNION {tables[n].start..(tables[n].end - 1) : n \in DOMAIN tables} IN
      /\ \A n \in 2..Len(tables) : tables[n - 1].end <= tables[n].start
      /\ \A k \in DOMAIN sql \ inside : cleaned[k] \in Blanks \cup {"semicolon"}
      /\ \A k \in DOMAIN sql \ InQuotes :
           cleaned[k] = "create" => \E n \in DOMAIN tables :
             \/ k = tables[n].start
             \/ k \in tables[n].opening..(tables[n].end - 1) /\ Depth(tables[n].opening, k) > 0

(* No document gets more tables or columns than it may have, the partition  *)
(* columns included, and a limit is named only where the document has more: *)
(* a CREATE each, or a comma or parenthesis before each column.             *)
LimitsHold ==
  /\ Len(tables) <= MaxTables
  /\ Cardinality(UNION {{n} \X (1..(tables[n].columns + tables[n].partitions)) : n \in DOMAIN tables})
       <= MaxColumns
  /\ outcome = "tableLimit" => Cardinality(Outside("create")) > MaxTables
  /\ outcome = "columnLimit" => Cardinality(Outside("(") \cup Outside("comma")) > MaxColumns
=============================================================================
