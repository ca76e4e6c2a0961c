--------------------------- MODULE TableStatement ---------------------------
(***************************************************************************)
(* What a CREATE TABLE statement says: the column definitions and clauses  *)
(* parser.py accepts, what it keeps of them, and the checks over the whole *)
(* statement.  The accepted table is then written as hive_renderer.py      *)
(* writes it, and the same grammar reads the result, in the place of Hive. *)
(*                                                                         *)
(* DdlScan finds the two texts of a statement.  Here a text is a sequence  *)
(* of tokens: words and signs, and as one token each what one pattern of   *)
(* the source takes as a whole: "PARTITIONED BY", a qualified name, a      *)
(* number, and a quoted string, which is "lit" or, if it is a valid date   *)
(* or time, "day" or "moment".  The characters of the comments, all the    *)
(* same in one statement, are its `text`.                                  *)
(***************************************************************************)
EXTENDS Integers, FiniteSets, SequencesExt, HiveNumbers, HiveStrings


CONSTANTS
  Inputs,        \* the statements of this instance
  Numbers,       \* number tokens, as literals
  Fold,          \* what `hive`, `collision` and `lower` make of a name, if it changes
  TypeNesting,   \* _MAX_TYPE_NESTING
  CastNesting,   \* _MAX_DEFAULT_CAST_NESTING
  MaxLength,     \* of CHAR, and of VARCHAR
  MaxDefault,    \* _MAX_DEFAULT_VALUE_LENGTH, in tokens
  Primitives     \* the primitive types there are

Strings     == {"lit", "day", "moment"}
Punctuation == {"(", ")", "<", ">", ",", ":", "="}
Phrases     == {"NOT NULL", "PRIMARY KEY", "FOREIGN KEY", "NOT ENFORCED", "PARTITIONED BY",
                "CLUSTERED BY", "SORTED BY", "SKEWED BY", "ROW FORMAT", "STORED AS", "STORED BY",
                "WITH SERDEPROPERTIES", "NULLS FIRST", "NULLS LAST", "WITH LOCAL TIME ZONE",
                "FIELDS TERMINATED BY", "ESCAPED BY", "COLLECTION ITEMS TERMINATED BY",
                "MAP KEYS TERMINATED BY", "LINES TERMINATED BY", "NULL DEFINED AS"}

ASSUME NestingAssumption == {TypeNesting, CastNesting, MaxDefault} \subseteq Nat
ASSUME LengthAssumption  == MaxLength \in [{"CHAR", "VARCHAR"} -> Nat]
ASSUME NumbersAssumption == \A n \in DOMAIN Numbers : Numbers[n] \in Literal
ASSUME FoldAssumption    == DOMAIN Fold = {"hive", "collision", "lower"}
ASSUME InputsAssumption  ==
  \A s \in Inputs : s.columns \in Seq(STRING) /\ s.tail \in Seq(STRING) /\ s.text \in Seq(Nat)

VARIABLES
  stmt,         \* external, the columns' text, the tail, the comments' text
  generated,    \* whether it is what the renderer wrote
  pc,
  rest,         \* `remaining`
  seen, previous,   \* the clauses so far, and previous_order
  columns, partitions, constraints, references,
  comment,      \* the table's, as a set
  plan,         \* the table that was accepted, as a sequence
  outcome

table == <<seen, previous, columns, partitions, constraints, references, comment>>
vars  == <<stmt, generated, pc, rest, table, plan, outcome>>

Init ==
  /\ stmt \in Inputs /\ generated = FALSE /\ pc = "columns" /\ rest = stmt.tail
  /\ seen = {} /\ previous = 0 /\ columns = <<>> /\ partitions = <<>>
  /\ constraints = <<>> /\ references = <<>> /\ comment = {}
  /\ plan = <<>> /\ outcome = "none"

Refuse(message) ==
  pc' = "ended" /\ outcome' = message /\ UNCHANGED <<stmt, generated, rest, table, plan>>

-----------------------------------------------------------------------------
(* Reading tokens.  What reads something from position i returns the set of *)
(* positions after it: one, or none if it is not there.  The definitions    *)
(* named ...Variant are faulty versions of the definition that follows      *)
(* them; no action uses them.                                               *)

At(t, i)       == IF i \in DOMAIN t THEN t[i] ELSE "end"
One(t, i, S)   == IF At(t, i) \in S THEN {i + 1} ELSE {}
May(t, i, S)   == IF At(t, i) \in S THEN i + 1 ELSE i
Then(ends, P(_)) == UNION {P(i) : i \in ends}
Least(S)       == CHOOSE k \in S : \A l \in S : k <= l

Quoted(name)   == "quoted " \o name
IsQuoted(token) == Len(token) > 7 /\ SubSeq(token, 1, 7) = "quoted "
Unquote(token) == IF IsQuoted(token) THEN SubSeq(token, 8, Len(token)) ELSE token
Key(kind, name) == IF name \in DOMAIN Fold[kind] THEN Fold[kind][name] ELSE name

NotNames == Strings \cup Punctuation \cup Phrases \cup DOMAIN Numbers \cup {"end"}
Name(token) == token \notin NotNames
Identifier(t, i) == IF Name(At(t, i)) THEN {i + 1} ELSE {}
Word(t, i)       == IF IsQuoted(At(t, i)) THEN {} ELSE Identifier(t, i)

(* _parenthesized_contents: the end of what opens at i, and what is in it. *)
Count(t, token, from, to) == Cardinality({k \in from..to : t[k] = token})
Group(t, i) ==
  LET closed == {k \in i..Len(t) : Count(t, "(", i, k) = Count(t, ")", i, k)}
  IN  IF At(t, i) = "(" /\ closed # {} THEN {Least(closed) + 1} ELSE {}
Inside(t, i, end) == SubSeq(t, i + 1, end - 2)

(* _top_level_parts. *)
Parts(t) ==
  LET flat(k) == Count(t, "(", 1, k) = Count(t, ")", 1, k)
      angle[k \in 0..Len(t)] ==
        IF k = 0 THEN 0
        ELSE IF ~ flat(k) THEN angle[k - 1]
        ELSE CASE t[k] = "<" -> angle[k - 1] + 1
               [] t[k] = ">" -> IF angle[k - 1] > 0 THEN angle[k - 1] - 1 ELSE 0
               [] OTHER      -> angle[k - 1]
      bounds == {0, Len(t) + 1} \cup {k \in DOMAIN t : t[k] = "," /\ flat(k) /\ angle[k] = 0}
      bound(n) == CHOOSE b \in bounds : Cardinality({c \in bounds : c < b}) = n
      balanced == /\ \A k \in DOMAIN t : Count(t, "(", 1, k) >= Count(t, ")", 1, k)
                  /\ flat(Len(t)) /\ angle[Len(t)] = 0
  IN  IF balanced
      THEN {[n \in 1..(Cardinality(bounds) - 1) |-> SubSeq(t, bound(n - 1) + 1, bound(n) - 1)]}
      ELSE {}

(* A list in parentheses at i: its end and the value `List` gives it. *)
Listed(t, i, List(_)) ==
  UNION {{[end |-> end, value |-> v] : v \in List(Inside(t, i, end))} : end \in Group(t, i)}

Distinct(kind, names) ==
  \A m, n \in DOMAIN names : m # n => Key(kind, names[m]) # Key(kind, names[n])
Names(parts, Ends(_)) ==   \* every part starts with a name, and has its end
  LET names == [n \in DOMAIN parts |-> Unquote(At(parts[n], 1))]
  IN  IF /\ \A n \in DOMAIN parts : Name(At(parts[n], 1)) /\ Ends(parts[n]) = Len(parts[n]) + 1
         /\ Distinct("collision", names)
      THEN {names} ELSE {}
AfterName(part) == 2
AfterSort(part) == May(part, May(part, 2, {"ASC", "DESC"}), {"NULLS FIRST", "NULLS LAST"})

IdentifierList(t) == UNION {Names(parts, AfterName) : parts \in Parts(t)}
SortList(t)       == UNION {Names(parts, AfterSort) : parts \in Parts(t)}
PropertyList(t)   ==
  {parts \in Parts(t) : \A n \in DOMAIN parts : \E k, v \in Strings : parts[n] = <<k, "=", v>>}

-----------------------------------------------------------------------------
(* _TypeParser. *)

SimpleTypes == {"INT", "INTEGER", "BIGINT", "TINYINT", "SMALLINT", "STRING", "BOOLEAN", "DATE",
                "TIMESTAMP", "FLOAT", "VOID"}
Completion  == [TIMESTAMP |-> "WITH LOCAL TIME ZONE", DOUBLE |-> "PRECISION", REAL |-> "PRECISION"]

Value(token) == Numbers[token].digits
Integer(t, i) ==   \* digits alone
  {i + 1 : n \in {n \in {At(t, i)} \cap DOMAIN Numbers : /\ Numbers[n].form = "integer" /\ ~ Numbers[n].signed
                                                       /\ Numbers[n].suffix = "none"}}

(* The parameters of DECIMAL; and CHAR or VARCHAR at i, with its length. *)
Precision(t, i) ==
  LET scale(j) == IF At(t, j) = "," THEN Integer(t, j + 1) ELSE {j}
      legal(j) == /\ Value(t[i + 1]) \in 1..MaxPrecision
                  /\ j > i + 3 => Value(t[j - 1]) <= Value(t[i + 1])
      ends == Then(Integer(t, i + 1), scale)
  IN  IF At(t, i) # "(" THEN {i} ELSE {j + 1 : j \in {j \in ends : At(t, j) = ")" /\ legal(j)}}
Length(t, i) ==
  {j + 1 : j \in {j \in Integer(t, i + 2) : /\ At(t, i + 1) = "(" /\ At(t, j) = ")"
                                            /\ Value(t[i + 2]) \in 1..MaxLength[t[i]]}}

(* The type at i, inside `depth` others: its end and whether it is          *)
(* primitive.  A word the grammar does not know is a type of its own.       *)
Separated(t, i, Item(_)) ==
  LET items[j \in 1..(Len(t) + 2)] ==
        UNION {IF At(t, e) = "," THEN items[e + 1] ELSE {e} : e \in Item(j)}
  IN  items[i]

TooDeepVariant(depth) == depth >= TypeNesting
TooDeep(depth)        == depth > TypeNesting
Types(t) ==
  LET type[i \in 1..(Len(t) + 2), depth \in 0..(TypeNesting + 1)] ==
        LET name == At(t, i)
            before(sign, ends) == {e + 1 : e \in {e \in ends : At(t, e) = sign}}
            open     == before("<", {i + 1})
            inner(j) == {r.end : r \in type[j, depth + 1]}
            key(j)   == {r.end : r \in {r \in type[j, depth + 1] : r.primitive}}
            field(j) == UNION {IF At(t, e) = "COMMENT" THEN One(t, e + 1, Strings) ELSE {e} :
                                 e \in Then(before(":", Identifier(t, j)), inner)}
            complex  == CASE name = "ARRAY"     -> Then(open, inner)
                          [] name = "MAP"       -> Then(before(",", Then(open, key)), inner)
                          [] name = "UNIONTYPE" -> Then(open, LAMBDA j : Separated(t, j, inner))
                          [] name = "STRUCT"    -> Then(open, LAMBDA j : Separated(t, j, field))
            simple   == CASE name \in DOMAIN Completion      -> {May(t, i + 1, {Completion[name]})}
                          [] name \in {"DECIMAL", "NUMERIC"} -> Precision(t, i + 1)
                          [] name \in {"CHAR", "VARCHAR"}    -> Length(t, i)
                          [] OTHER                           -> Word(t, i)
        IN  IF TooDeep(depth) THEN {}
            ELSE IF name \in {"ARRAY", "MAP", "UNIONTYPE", "STRUCT"}
            THEN {[end |-> e, primitive |-> FALSE] : e \in before(">", complex)}
            ELSE {[end |-> e, primitive |-> TRUE] : e \in simple}
  IN  type
ValidType(t) == \E r \in Types(t)[1, 0] : r.end = Len(t) + 1

(* _canonical_primitive_type, of a valid type. *)
Aliases == {<<<<"DOUBLE", "PRECISION">>, <<"DOUBLE">>>>, <<<<"INTEGER">>, <<"INT">>>>,
            <<<<"REAL">>, <<"FLOAT">>>>,
            <<<<"TIMESTAMP", "WITH LOCAL TIME ZONE">>, <<"TIMESTAMPLOCALTZ">>>>}
Canonical(t) ==
  LET name == {a[2] : a \in {a \in Aliases : a[1] = t}}
      number(i) == Value(t[i])
  IN  CASE name # {} -> name
        [] t[1] \in {"DECIMAL", "NUMERIC"} ->
             {Decimal(IF Len(t) > 1 THEN number(3) ELSE 10, IF Len(t) > 4 THEN number(5) ELSE 0)}
        [] t[1] \in {"CHAR", "VARCHAR"}    -> {<<t[1], number(3)>>}
        [] OTHER -> {n \in {t} : Len(t) = 1 /\ t[1] \in (SimpleTypes \cup {"DOUBLE"}) \ {"VOID"}}

-----------------------------------------------------------------------------
(* Literals and DEFAULT values. *)

TypedLiteral == [DATE |-> "day", TIMESTAMP |-> "moment", TIMESTAMPLOCALTZ |-> "none"]
LiteralEnds(t, i, signs) ==   \* _literal_end
  CASE At(t, i) \in DOMAIN TypedLiteral        -> One(t, i + 1, Strings)
    [] At(t, i) \in DOMAIN Numbers             -> {i + 1 : n \in {n \in {t[i]} : signs \/ ~ Numbers[n].signed}}
    [] OTHER -> One(t, i, Strings \cup {"TRUE", "FALSE", "NULL"})

LiteralType(t, i) ==   \* _infer_default_literal_type, without NULL
  CASE At(t, i) \in Strings             -> {<<"STRING">>}
    [] At(t, i) \in DOMAIN TypedLiteral -> {<<k>> : k \in {k \in {t[i]} : t[i + 1] = TypedLiteral[k]}}
    [] At(t, i) \in {"TRUE", "FALSE"}   -> {<<"BOOLEAN">>}
    [] At(t, i) \in DOMAIN Numbers      -> NumberType(Numbers[t[i]])
    [] OTHER                            -> {}

(* _default_value_end: the value at i, inside `depth` casts and before      *)
(* `limit`: its end, its type and whether it is a bare NULL.                *)
CurrentValues == [CURRENT_DATE |-> "DATE", CURRENT_TIMESTAMP |-> "TIMESTAMP", CURRENT_USER |-> "STRING"]

Defaults(t) ==
  LET value[i \in 1..(Len(t) + 2), limit \in 1..(Len(t) + 2), depth \in 0..(CastNesting + 1)] ==
        LET token == IF i < limit THEN At(t, i) ELSE "end"
            parens == <<At(t, i + 1), At(t, i + 2)>> = <<"(", ")">>
            as(end) == {k \in (i + 2)..(end - 2) :
                          t[k] = "AS" /\ Count(t, "(", i + 2, k) = Count(t, ")", i + 2, k)}
            cast(end, k) ==
              LET target == SubSeq(t, k + 1, end - 2)
              IN  {[end |-> end, type |-> Canonical(target), null |-> FALSE] :
                     v \in {v \in value[i + 2, k, depth + 1] :
                              /\ v.end = k /\ (v.null \/ v.type # {})
                              /\ target # <<>> /\ ValidType(target) /\ Canonical(target) # {}}}
        IN  IF depth > CastNesting THEN {}
            ELSE IF token = "CAST"
            THEN UNION {UNION {cast(end, k) : k \in as(end)} :
                          end \in {end \in Group(t, i + 1) : Cardinality(as(end)) = 1}}
            ELSE IF token \in DOMAIN CurrentValues
            THEN {[end |-> IF parens THEN i + 3 ELSE i + 1, type |-> {<<CurrentValues[token]>>}, null |-> FALSE] :
                    n \in {n \in {token} : n = "CURRENT_USER" => parens}}
            ELSE {[end |-> e, type |-> LiteralType(t, i), null |-> token = "NULL"] :
                    e \in {e \in LiteralEnds(t, i, TRUE) : e <= limit}}
  IN  value

-----------------------------------------------------------------------------
(* Constraints. *)

Enforcements == {"ENABLE", "DISABLE", "ENFORCED", "NOT ENFORCED"}
Keys == {"PRIMARY KEY", "UNIQUE", "FOREIGN KEY"}

(* _constraint_modifiers_end. *)
Modifiers(t, i, kind) ==
  LET v == May(t, i, Enforcements)
      r == May(t, v, {"VALIDATE", "NOVALIDATE"})
      end == May(t, r, {"RELY", "NORELY"})
      given == end > i
      enforcement == IF v > i THEN t[i] ELSE "none"
  IN  {e \in {end} : /\ given => enforcement # "none"
                     /\ enforcement \in {"ENFORCED", "NOT ENFORCED"} => r = v
                     /\ r > v => t[v] # "VALIDATE"
                     /\ kind = "DEFAULT" => end = v /\ enforcement # "NOT ENFORCED"
                     /\ kind \in Keys => enforcement \in {"DISABLE", "NOT ENFORCED"}}

(* _optional_constraint_name: where the constraint starts. *)
Named(t, i) == IF At(t, i) = "CONSTRAINT" THEN Identifier(t, i + 1) ELSE {i}
Constraint(t, i, from, kind, names) ==
  [kind |-> kind, names |-> names, called |-> IF i > from THEN {Unquote(t[i - 1])} ELSE {},
   value |-> {}]

(* Where the columns of the other table follow. *)
Referenced(t, i) ==
  IF At(t, i) = "REFERENCES" THEN Identifier(t, i + 1) ELSE {}

(* _column_constraint, of the column that t defines. *)
ColumnConstraint(t, from) ==
  UNION {
    LET kind == At(t, i)
        simple(k, j) == {[end |-> e, constraint |-> Constraint(t, i, from, k, <<Unquote(t[1])>>)] : e \in Modifiers(t, j, k)}
    IN  CASE kind \in {"NOT NULL", "PRIMARY KEY", "UNIQUE"} -> simple(kind, i + 1)
          [] kind = "REFERENCES" ->
               UNION {UNION {simple("FOREIGN KEY", l.end) : l \in {l \in Listed(t, j, IdentifierList) : Len(l.value) = 1}} :
                        j \in Referenced(t, i)}
          [] kind = "DEFAULT" ->
               UNION {{[end |-> e, constraint |-> [Constraint(t, i, from, kind, <<Unquote(t[1])>>) EXCEPT !.value = {v}]] :
                         e \in Modifiers(t, v.end, kind)} :
                        v \in {v \in Defaults(t)[i + 1, Len(t) + 1, 0] : v.end - i - 1 <= MaxDefault}}
          [] OTHER -> {} : i \in Named(t, from)}

(* _validate_table_constraint. *)
TableConstraint(t) ==
  LET all(S) == {c \in S : c.end = Len(t) + 1}
      key(i, kind, end, names) ==
        {[end |-> e, constraint |-> Constraint(t, i, 1, kind, names)] : e \in Modifiers(t, end, kind)}
      foreign(i, local) ==
        UNION {UNION {key(i, "FOREIGN KEY", l.end, local.value) :
                        l \in {l \in Listed(t, j, IdentifierList) : Len(l.value) = Len(local.value)}} :
                 j \in Referenced(t, local.end)}
  IN  UNION {
        CASE At(t, i) \in {"PRIMARY KEY", "UNIQUE"} ->
               all(UNION {key(i, t[i], l.end, l.value) : l \in Listed(t, i + 1, IdentifierList)})
          [] At(t, i) = "FOREIGN KEY" ->
               all(UNION {foreign(i, l) : l \in Listed(t, i + 1, IdentifierList)})
          [] OTHER -> {} : i \in Named(t, 1)}
-----------------------------------------------------------------------------
(* Column definitions. *)

ClauseKeywords == {"CHECK", "COMMENT", "CONSTRAINT", "DEFAULT", "NOT NULL", "PRIMARY KEY",
                   "REFERENCES", "UNIQUE"}
TableConstraints == {"CONSTRAINT", "PRIMARY KEY", "FOREIGN KEY", "UNIQUE", "CHECK"}

Comment(t, i) == IF Decoded(stmt.text) = {} THEN {} ELSE One(t, i + 1, Strings)

(* _split_column_clauses: where the clauses of a definition begin. *)
ClausesAt(d) ==
  LET outside(k) == /\ Count(d, "(", 2, k - 1) = Count(d, ")", 2, k - 1)
                    /\ Count(d, "<", 2, k - 1) = Count(d, ">", 2, k - 1)
  IN  Least({k \in 2..Len(d) : d[k] \in ClauseKeywords /\ outside(k)} \cup {Len(d) + 1})

(* _parse_column_clauses: the constraint, as a sequence, and the comment. *)
ColumnClauses(d, i, allowConstraints) ==
  LET constraint == IF At(d, i) \in {"COMMENT", "end"} THEN {[end |-> i, list |-> <<>>]}
                    ELSE {[end |-> c.end, list |-> <<c.constraint>>] :
                            c \in {c \in ColumnConstraint(d, i) : allowConstraints}}
      comments(c) == IF At(d, c.end) = "COMMENT" THEN Comment(d, c.end) ELSE {c.end}
  IN  {[constraints |-> c.list, comment |-> IF At(d, c.end) = "COMMENT" THEN Decoded(stmt.text) ELSE {}] :
         c \in {c \in constraint : Len(d) + 1 \in comments(c)}}

(* _validate_default_value. *)
DefaultFits(type, value) == ~ value.null /\ value.type # {} /\ value.type = Canonical(type)

Column(d, allowConstraints) ==
  LET legal(type, c) ==
        /\ Name(At(d, 1)) /\ type # <<>> /\ ValidType(type)
        /\ \A n \in DOMAIN c.constraints : \A v \in c.constraints[n].value : DefaultFits(type, v)
      columnOf(type, c) == [name |-> Unquote(At(d, 1)), type |-> type, comment |-> c.comment]
  IN  UNION {UNION {{[columns |-> <<columnOf(type, c)>>, constraints |-> c.constraints] :
                       c \in {c \in ColumnClauses(d, start, allowConstraints) : legal(type, c)}} :
                      type \in {SubSeq(d, 2, start - 1)}} : start \in {ClausesAt(d)}}

(* _columns. *)
OneOfEach(sets) ==
  {one \in [DOMAIN sets -> UNION {sets[n] : n \in DOMAIN sets}] : \A n \in DOMAIN sets : one[n] \in sets[n]}
Definition(d, allowConstraints) ==
  IF At(d, 1) \in TableConstraints
  THEN {[columns |-> <<>>, constraints |-> <<c.constraint>>] : c \in {c \in TableConstraint(d) : allowConstraints}}
  ELSE Column(d, allowConstraints)
ColumnList(t, allowConstraints) ==   \* every part has one definition
  {list \in
     UNION {{[columns     |-> FlattenSeq([n \in DOMAIN parts |-> one[n].columns]),
              constraints |-> FlattenSeq([n \in DOMAIN parts |-> one[n].constraints])] :
               one \in OneOfEach([n \in DOMAIN parts |-> Definition(parts[n], allowConstraints)])} :
              parts \in Parts(t)} :
   list.columns # <<>>}

ParseColumns ==
  /\ pc = "columns"
  /\ \E lists \in {ColumnList(stmt.columns, TRUE)} :
       \/ lists = {} /\ Refuse("columns")
       \/ \E list \in lists :
            /\ columns' = list.columns /\ constraints' = list.constraints /\ pc' = "tail"
            /\ UNCHANGED <<stmt, generated, rest, seen, previous, partitions, references, comment,
                           plan, outcome>>

-----------------------------------------------------------------------------
(* _parse_table_tail: one action per clause.  A clause at the start of t    *)
(* has an end, and may have references and partition columns.               *)

ClauseStarts == <<{"COMMENT"}, {"PARTITIONED BY"}, {"CLUSTERED BY"}, {"SKEWED BY"}, {"ROW FORMAT"},
                  {"STORED AS", "STORED BY"}, {"LOCATION"}, {"TBLPROPERTIES"}>>
ASSUME NumberTokens ==   \* no number is a sign, or a word a clause starts with
  DOMAIN Numbers \cap (Punctuation \cup {"end"} \cup UNION {ClauseStarts[n] : n \in 1..8}) = {}
Clause(end) == [end |-> end, references |-> <<>>, partitions |-> <<>>, comment |-> {}]

CommentClause(t) == {[Clause(e) EXCEPT !.comment = Decoded(stmt.text)] : e \in Comment(t, 1)}

PartitionedClause(t) ==
  {[Clause(l.end) EXCEPT !.partitions = l.value.columns] :
     l \in Listed(t, 2, LAMBDA list : ColumnList(list, FALSE))}

SortReferencesVariant(list) == <<>>   \* forgets what it sorts by
SortReferences(list) == <<list>>
ClusteredClause(t) ==
  LET sorts(l) == IF At(t, l.end) = "SORTED BY"
                  THEN {[end |-> s.end, references |-> <<l.value>> \o SortReferences(s.value)] :
                          s \in Listed(t, l.end + 1, SortList)}
                  ELSE {[end |-> l.end, references |-> <<l.value>>]}
      buckets(i) == {j + 1 : j \in {j \in Integer(t, i + 1) : /\ At(t, i) = "INTO" /\ At(t, j) = "BUCKETS"
                                                              /\ Value(t[j - 1]) > 0}}
  IN  UNION {UNION {{[Clause(e) EXCEPT !.references = s.references] : e \in buckets(s.end)} :
                      s \in sorts(l)} : l \in Listed(t, 2, IdentifierList)}

(* _validate_skewed_values. *)
SkewedValues(t, arity) ==
  LET scalar(p) == LiteralEnds(p, 1, FALSE) = {Len(p) + 1}
      tuple(p)  == /\ Group(p, 1) = {Len(p) + 1}
                   /\ \E items \in Parts(Inside(p, 1, Len(p) + 1)) :
                        Len(items) = arity /\ \A n \in DOMAIN items : scalar(items[n])
  IN  {parts \in Parts(t) : \/ arity = 1 /\ \A n \in DOMAIN parts : scalar(parts[n])
                            \/ \A n \in DOMAIN parts : tuple(parts[n])}
SkewedClause(t) ==
  LET directories(e) == IF <<At(t, e), At(t, e + 1)>> = <<"STORED AS", "DIRECTORIES">> THEN e + 2 ELSE e
  IN  UNION {{[Clause(directories(v.end)) EXCEPT !.references = <<l.value>>] :
                v \in {v \in Listed(t, l.end + 1, LAMBDA list : SkewedValues(list, Len(l.value))) :
                         At(t, l.end) = "ON"}} : l \in Listed(t, 2, IdentifierList)}

SerdeProperties(t, i) ==
  IF At(t, i) = "WITH SERDEPROPERTIES" THEN {l.end : l \in Listed(t, i + 1, PropertyList)} ELSE {i}

RowOptions == <<"FIELDS TERMINATED BY", "ESCAPED BY", "COLLECTION ITEMS TERMINATED BY",
                "MAP KEYS TERMINATED BY", "LINES TERMINATED BY", "NULL DEFINED AS">>
RowClause(t) ==
  LET option[place \in (1..(Len(t) + 2)) \X SUBSET (1..6)] ==   \* the position, and the options so far
        LET i == place[1]
            given == place[2]
        IN  IF At(t, i) \in UNION {ClauseStarts[n] : n \in 1..8} \cup {"AS", "end"} THEN {i}
            ELSE UNION {Then(One(t, i + 1, Strings), LAMBDA j : option[<<j, given \cup {n}>>]) :
                          n \in {n \in 1..6 : /\ RowOptions[n] = t[i] /\ \A m \in given : m < n
                                              /\ n = 2 => 1 \in given}}
      ends == CASE At(t, 2) = "SERDE"     -> Then(One(t, 3, Strings), LAMBDA i : SerdeProperties(t, i))
                [] At(t, 2) = "DELIMITED" -> option[<<3, {}>>]
                [] OTHER                  -> {}
  IN  {Clause(e) : e \in ends}

Formats == {"TEXTFILE", "ORC"}
StoredClause(t) ==
  LET output(i) == Then(One(t, i, {"OUTPUTFORMAT"}), LAMBDA j : One(t, j, Strings))
      ends == CASE t[1] = "STORED BY"        -> Then(One(t, 2, Strings), LAMBDA i : SerdeProperties(t, i))
                [] At(t, 2) = "INPUTFORMAT" /\ t[1] = "STORED AS" -> Then(One(t, 3, Strings), output)
                [] OTHER                     -> One(t, 2, Formats)
  IN  {Clause(e) : e \in ends}

LocationClause(t)   == {Clause(e) : e \in One(t, 2, Strings)}
PropertiesClause(t) == {Clause(l.end) : l \in Listed(t, 2, PropertyList)}

(* _record_table_clause, then the clause. *)
InOrderVariant(order) == order # previous   \* only sees neighbours
InOrder(order) == order >= previous
RepeatedVariant(order) == FALSE
Repeated(order) == order \in seen
ParseClause(order, Parse(_)) ==
  /\ pc = "tail" /\ At(rest, 1) \in ClauseStarts[order]
  /\ IF Repeated(order) THEN Refuse("duplicate")
     ELSE IF ~ InOrder(order) THEN Refuse("order")
     ELSE IF Parse(rest) = {} THEN Refuse("clause")
     ELSE \E c \in Parse(rest) :
       /\ seen' = seen \cup {order} /\ previous' = order
       /\ rest' = SubSeq(rest, c.end, Len(rest))
       /\ references' = references \o c.references
       /\ partitions' = partitions \o c.partitions
       /\ comment' = comment \cup c.comment
       /\ UNCHANGED <<stmt, generated, pc, columns, constraints, plan, outcome>>

ParseComment     == ParseClause(1, CommentClause)
ParsePartitioned == ParseClause(2, PartitionedClause)
ParseClustered   == ParseClause(3, ClusteredClause)
ParseSkewed      == ParseClause(4, SkewedClause)
ParseRow         == ParseClause(5, RowClause)
ParseStored      == ParseClause(6, StoredClause)
ParseLocation    == ParseClause(7, LocationClause)
ParseProperties  == ParseClause(8, PropertiesClause)
ParseOther ==
  /\ pc = "tail" /\ rest # <<>> /\ \A n \in 1..8 : rest[1] \notin ClauseStarts[n]
  /\ Refuse("clause")

-----------------------------------------------------------------------------
(* _validate_constraint_state and _validate_structural_references. *)
ConstraintsHold ==
  LET named == {n \in DOMAIN constraints : constraints[n].called # {}}
      name(n) == Key("lower", CHOOSE c \in constraints[n].called : TRUE)
  IN  /\ \A m, n \in named : m # n => name(m) # name(n)
      /\ Cardinality({n \in DOMAIN constraints : constraints[n].kind = "PRIMARY KEY"}) <= 1
      /\ stmt.external => \A n \in DOMAIN constraints : constraints[n].kind # "DEFAULT"
ReferencesHold ==
  LET ordinary == {Key("hive", columns[n].name) : n \in DOMAIN columns}
      keys == {constraints[n].names : n \in {n \in DOMAIN constraints : constraints[n].kind \in Keys}}
  IN  \A names \in keys \cup {references[n] : n \in DOMAIN references} :
        \A k \in DOMAIN names : Key("hive", names[k]) \in ordinary

CheckTable ==
  /\ pc = "tail" /\ rest = <<>>
  /\ IF ~ ConstraintsHold THEN Refuse("constraint")
     ELSE IF ~ ReferencesHold THEN Refuse("reference")
     ELSE pc' = "parsed" /\ UNCHANGED <<stmt, generated, rest, table, plan, outcome>>

(* _validate_column_names, and the comments in _validate_source_values;     *)
(* BatchPlan has the other names.                                           *)
NoNulVariant(text) == TRUE
NoNul(text) == \A k \in DOMAIN text : text[k] # NUL
PlanTable ==
  LET all == columns \o partitions
      comments == comment \cup UNION {all[n].comment : n \in DOMAIN all}
  IN  /\ pc = "parsed" /\ ~ generated
      /\ IF ~ Distinct("collision", [n \in DOMAIN all |-> all[n].name]) THEN Refuse("names")
         ELSE IF \E text \in comments : ~ NoNul(text) THEN Refuse("comment")
         ELSE /\ plan' = <<[columns |-> all, comment |-> comment]>> /\ pc' = "planned"
              /\ UNCHANGED <<stmt, generated, rest, table, outcome>>

(* render_hive_create_physical, and its text in the place of a source. *)
Rendered ==
  LET note(comments) == IF comments = {} THEN <<>> ELSE <<"COMMENT", "lit">>
      definition(n) == (IF n > 1 THEN <<",">> ELSE <<>>) \o <<Quoted(plan[1].columns[n].name)>>
                         \o plan[1].columns[n].type \o note(plan[1].columns[n].comment)
      text == UNION {plan[1].columns[n].comment : n \in DOMAIN plan[1].columns} \cup plan[1].comment
  IN  [external |-> FALSE,
       columns  |-> FlattenSeq([n \in DOMAIN plan[1].columns |-> definition(n)]),
       tail     |-> note(plan[1].comment)
                      \o <<"ROW FORMAT", "DELIMITED", "FIELDS TERMINATED BY", "lit", "ESCAPED BY", "lit",
                           "NULL DEFINED AS", "lit", "STORED AS", "TEXTFILE">>,
       text     |-> HiveString(IF text = {} THEN <<>> ELSE CHOOSE c \in text : TRUE)]
RenderTable ==
  /\ pc = "planned"
  /\ stmt' = Rendered /\ rest' = stmt'.tail /\ generated' = TRUE /\ pc' = "columns"
  /\ seen' = {} /\ previous' = 0 /\ columns' = <<>> /\ partitions' = <<>>
  /\ constraints' = <<>> /\ references' = <<>> /\ comment' = {}
  /\ UNCHANGED <<plan, outcome>>

Read == pc = "parsed" /\ generated /\ pc' = "ended" /\ outcome' = "read"
          /\ UNCHANGED <<stmt, generated, rest, table, plan>>

Finished == pc = "ended" /\ UNCHANGED vars

Next ==
  \/ ParseColumns
  \/ ParseComment \/ ParsePartitioned \/ ParseClustered \/ ParseSkewed
  \/ ParseRow \/ ParseStored \/ ParseLocation \/ ParseProperties \/ ParseOther
  \/ CheckTable \/ PlanTable \/ RenderTable \/ Read \/ Finished
Spec == Init /\ [][Next]_vars
-----------------------------------------------------------------------------
(* Properties. *)

Accepted == pc \in {"parsed", "planned"} \/ outcome \in {"names", "comment", "read"}

(* Type invariant: what is left to read is the end of the tail, and the     *)
(* last clause is the latest of those seen.                                 *)
TypeOK ==
  /\ pc \in {"columns", "tail", "parsed", "planned", "ended"}
  /\ outcome \in {"none", "columns", "duplicate", "order", "clause", "constraint", "reference",
                  "names", "comment", "read"}
  /\ outcome = "none" <=> pc # "ended"
  /\ \E k \in 0..Len(stmt.tail) : rest = SubSeq(stmt.tail, k + 1, Len(stmt.tail))
  /\ seen \subseteq 1..previous /\ previous \in seen \cup {0}

(* The types of the grammar, from the inside out. *)
TypeTexts ==
  LET field(t)  == {<<"x", ":">> \o t, <<"x", ":">> \o t \o <<"COMMENT", "lit">>}
      texts[n \in 0..TypeNesting] ==
        IF n = 0 THEN Primitives
        ELSE LET fields == UNION {field(t) : t \in texts[n - 1]} IN
          Primitives
          \cup {<<"ARRAY", "<">> \o t \o <<">">> : t \in texts[n - 1]}
          \cup {<<"MAP", "<">> \o k \o <<",">> \o t \o <<">">> : k \in Primitives, t \in texts[n - 1]}
          \cup {<<"UNIONTYPE", "<">> \o t \o <<">">> : t \in texts[n - 1]}
          \cup {<<"UNIONTYPE", "<">> \o t \o <<",">> \o u \o <<">">> : t, u \in texts[n - 1]}
          \cup {<<"STRUCT", "<">> \o f \o <<">">> : f \in fields}
          \cup {<<"STRUCT", "<">> \o f \o <<",">> \o g \o <<">">> : f, g \in fields}
  IN  texts[TypeNesting]

(* The types the parser takes are those of the grammar, to the last level   *)
(* of nesting: it takes no other text for a type, nothing of the clauses    *)
(* after it, and refuses none.                                              *)
TypesAreExact ==
  /\ \A n \in DOMAIN columns : columns[n].type \in TypeTexts
  /\ \A n \in DOMAIN partitions : partitions[n].type \in TypeTexts
  /\ outcome = "columns" => Tail(stmt.columns) \notin TypeTexts \/ stmt.columns[1] # "a"

(* A tail is accepted only with each clause at most once and in Hive's      *)
(* order, and is refused for the order of its clauses only when it has      *)
(* another: what belongs to a clause is never taken for the next one, nor   *)
(* the other way round.                                                     *)
ClausesInOrder ==
  LET t == stmt.tail
      bare(k) == Count(t, "(", 1, k) = Count(t, ")", 1, k)
      all == {k \in DOMAIN t : bare(k) /\ \E n \in 1..8 : t[k] \in ClauseStarts[n]}
      directories(k) ==   \* the end of a SKEWED BY
        /\ <<t[k], At(t, k + 1)>> = <<"STORED AS", "DIRECTORIES">> /\ At(t, k - 1) = ")"
        /\ \E l \in all : t[l] = "SKEWED BY" /\ l < k /\ (l + 1)..(k - 1) \cap all = {}
      starts == {k \in all : ~ directories(k)}
      order(k) == CHOOSE n \in 1..8 : t[k] \in ClauseStarts[n]
      increasing == \A k, l \in starts : k < l => order(k) < order(l)
  IN  /\ Accepted => increasing /\ {order(k) : k \in starts} = seen
      /\ outcome \in {"order", "duplicate"} => ~ increasing

(* Read from the statement: every name a clause or key lists is that of an  *)
(* ordinary column, whatever the order they come in and the case they are   *)
(* written in; a constraint name is given once, and one primary key; and no *)
(* external table has a default.                                            *)
ReferencesResolve ==
  LET d == stmt.columns   t == stmt.tail
      starts == {1} \cup {k + 1 : k \in {k \in DOMAIN d : d[k] = "," /\ Count(d, "(", 1, k) = Count(d, ")", 1, k)
                                                          /\ Count(d, "<", 1, k) = Count(d, ">", 1, k)}}
      ordinary == {Key("hive", Unquote(d[k])) : k \in {k \in starts : d[k] \notin TableConstraints}}
      listed(text, words) ==
        UNION {UNION {{text[i] : i \in k..(e - 1)} : e \in Group(text, k + 1)} :
                 k \in {k \in DOMAIN text : text[k] \in words}}
      plain == {"(", ")", ",", "ASC", "DESC", "NULLS FIRST", "NULLS LAST"} \cup Phrases \cup {"UNIQUE"}
      names == (listed(d, Keys) \cup listed(t, {"CLUSTERED BY", "SORTED BY", "SKEWED BY"})) \ plain
      named == {k \in DOMAIN d : d[k] = "CONSTRAINT"}
  IN  Accepted =>
        /\ {Key("hive", Unquote(name)) : name \in names} \subseteq ordinary
        /\ \A k, l \in named : k # l => Key("lower", Unquote(d[k + 1])) # Key("lower", Unquote(d[l + 1]))
        /\ Cardinality({k \in DOMAIN d : d[k] = "PRIMARY KEY"}) <= 1
        /\ stmt.external => \A k \in DOMAIN d : d[k] # "DEFAULT"

(* The type of the number m * 10^e, with r units of 10^-s nearest to it,    *)
(* half up: the finest rounding that fits MaxPrecision digits.              *)
DecimalOf(m, e) ==
  LET unit(s) == 10^(- e - s)
      nearest(s) == IF e + s >= 0 THEN m * 10^(e + s) ELSE (2 * m + unit(s)) \div (2 * unit(s))
      digits(s, r) ==   \* precision and scale of r units of 10^-s, written without trailing zeros
        LET short == Least({z \in 0..s : \A u \in z..s : r % 10^(s - z) = 0})
            units == r \div 10^(s - short)
        IN  <<Least({p \in 1..(MaxPrecision * 2 + 4) : p >= short /\ units < 10^p}), short>>
      fits == {s \in 0..MaxPrecision : digits(s, nearest(s))[1] <= MaxPrecision}
      best == CHOOSE s \in fits : \A u \in fits : u <= s
  IN  {<<"DECIMAL">> \o digits(best, nearest(best)) : s \in {s \in {0} : fits # {}}}

(* A DEFAULT has exactly the type of its column.  Read from the statement:  *)
(* a cast is accepted only if the outermost one names that type, and if its *)
(* whole text is not too long; and a decimal number is accepted exactly if  *)
(* it has that type in Hive, which rounds it where the precision ends.      *)
DefaultsAreExact ==
  LET d == stmt.columns
      at == {k \in DOMAIN d : d[k] = "DEFAULT"}
      defaults == {n \in DOMAIN constraints : constraints[n].kind = "DEFAULT"}
      type(n) == columns[CHOOSE c \in DOMAIN columns : <<columns[c].name>> = constraints[n].names].type
      lastAs(k, e) == CHOOSE l \in k..e : d[l] = "AS" /\ \A m \in (l + 1)..(e - 1) : d[m] # "AS"
      number == d[Len(d)]
      decimal(n) == \/ n.suffix = "BD"
                    \/ n.suffix = "none" /\ n.form = "point"
                    \/ n.suffix = "none" /\ n.form = "integer" /\ n.digits > Largest["BIGINT"]
  IN  /\ pc = "tail" => \A k \in at, n \in defaults :
           d[k + 1] = "CAST" /\ Cardinality({l \in at : l < k}) = Cardinality({m \in defaults : m < n}) =>
             \A e \in Group(d, k + 2) : /\ Canonical(SubSeq(d, lastAs(k, e) + 1, e - 2)) = Canonical(type(n))
                                        /\ e <= k + 1 + MaxDefault
      /\ pc # "columns" /\ Len(d) > 2 /\ d[Len(d) - 1] = "DEFAULT" /\ number \in DOMAIN Numbers =>
           LET declared == SubSeq(d, 2, Len(d) - 2)
               meant == DecimalOf(Numbers[number].digits, Numbers[number].exponent)
           IN  decimal(Numbers[number]) /\ meant # {} =>
                 (outcome = "columns" <=> Canonical(declared) # meant)

(* What the program writes for a table is a statement of the same grammar   *)
(* and says the same: every column, partition columns included, with its    *)
(* type and comment, and nothing else; and the comments reach Greenplum     *)
(* unchanged.                                                               *)
GeneratedIsRead ==
  /\ generated => outcome \in {"none", "read"}
  /\ outcome = "read" =>
       /\ columns = plan[1].columns /\ comment = plan[1].comment
       /\ partitions = <<>> /\ constraints = <<>> /\ references = <<>>
  /\ plan # <<>> =>
       \A text \in plan[1].comment \cup UNION {plan[1].columns[n].comment : n \in DOMAIN plan[1].columns} :
         GreenplumReads(GreenplumString(text)) = text
=============================================================================
