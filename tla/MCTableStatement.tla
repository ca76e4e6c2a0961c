-------------------------- MODULE MCTableStatement --------------------------
(* Statements put together from pieces, one set for each part of the grammar. *)
EXTENDS TableStatement, TLC

Pieces(list) == LET text[n \in 0..Len(list)] == IF n = 0 THEN <<>> ELSE text[n - 1] \o list[n]
                IN  text[Len(list)]
UpTo(n, pieces) == {Pieces(p) : p \in UNION {[1..k -> pieces] : k \in 0..n}}
Each(words) == {<<w>> : w \in words}

Says == <<39, 120, 39>>
Statement(definitions, tail) ==   \* DdlScan ends a column list where its parenthesis does
  {[external |-> FALSE, columns |-> d, tail |-> t, text |-> Says] :
     d \in {d \in definitions : Group(<<"(">> \o d \o <<")">>, 1) = {Len(d) + 3}}, t \in tail}

TwoColumns == <<"a", "INT", ",", "b", "STRING">>

(* Clauses in any order and number, whole and cut short. *)
Tails == UpTo(3, {<<"COMMENT", "lit">>, <<"PARTITIONED BY", "(", "p", "INT", ")">>,
                  <<"CLUSTERED BY", "(", "a", ")", "INTO", "2", "BUCKETS">>,
                  <<"SKEWED BY", "(", "a", ")", "ON", "(", "1", ")">>, <<"STORED AS", "DIRECTORIES">>,
                  <<"ROW FORMAT", "DELIMITED">>, <<"STORED AS", "ORC">>, <<"LOCATION", "lit">>,
                  <<"TBLPROPERTIES", "(", "lit", "=", "lit", ")">>})
Storage == UpTo(3, {<<"ROW FORMAT", "SERDE">>, <<"STORED BY">>, <<"STORED AS", "INPUTFORMAT">>,
                    <<"OUTPUTFORMAT">>, <<"lit">>, <<"WITH SERDEPROPERTIES", "(">>, <<"lit", "=", "lit">>,
                    <<",">>, <<")">>, <<"AS">>})
Between(from, texts, to) == {from \o t \o to : t \in texts}
Buckets == <<")", "INTO", "2", "BUCKETS">>
Lists ==
  Between(<<"CLUSTERED BY", "(">>, UpTo(3, Each({"a", "A", "b", "p", "quoted a", ",", "lit"})), Buckets)
  \cup Between(<<"PARTITIONED BY", "(", "p", "INT", ")", "CLUSTERED BY", "(", "a", ")", "SORTED BY", "(">>,
               UpTo(4, Each({"a", "b", "p", ",", "ASC", "NULLS LAST"})), Buckets)
  \cup Between(<<"CLUSTERED BY", "(", "a", ")", "INTO">>, UpTo(2, Each({"0", "2", "BUCKETS"})), <<>>)
Skews == Between(<<"SKEWED BY", "(">>,
                 Between(<<"a", ")", "ON", "(">>, UpTo(4, Each({"1", "-1", "lit", ",", "(", ")"})), <<")">>)
                 \cup Between(<<"a", ",", "b", ")", "ON", "(">>,
                              UpTo(3, {<<"1">>, <<",">>, <<"(", "1", ",">>, <<"lit", ")">>}), <<")">>), <<>>)

(* Types, column clauses, defaults and constraints. *)
TypeColumns ==
  UNION {Between(<<"a">> \o opening,
                 UpTo(4, {<<"INT">>, <<"ARRAY", "<">>, <<">">>, <<",">>, <<"x", ":">>, <<"COMMENT", "lit">>}), <<>>) :
           opening \in {<<>>, <<"ARRAY", "<">>, <<"MAP", "<", "INT">>, <<"MAP", "<">>, <<"STRUCT", "<", "x", ":">>,
                        <<"UNIONTYPE", "<">>}}
  \cup Between(<<"a", "DECIMAL">>, UpTo(5, Each({"(", "1", "2", ",", ")"})), <<>>)
  \cup Between(<<"a">>, UpTo(3, Each({"DOUBLE", "TIMESTAMP", "PRECISION", "WITH LOCAL TIME ZONE", "CHAR"})), <<>>)
  \cup {<<"a", t, "(", n, ")">> : t \in {"CHAR", "VARCHAR"}, n \in {"0", "1", "2", "3", "20001", "100001"}}
  \cup {<<"a", "DECIMAL", "(", n, ")">> : n \in {"3", "20001"}}
Clauses ==
  UNION {Between(<<"a", "INT">> \o kind,
                 UpTo(3, {<<"DISABLE">>, <<"ENABLE">>, <<"NOT ENFORCED">>, <<"NOVALIDATE">>, <<"VALIDATE">>,
                          <<"RELY">>, <<"COMMENT", "lit">>, <<"UNIQUE">>}), <<>>) :
           kind \in {<<>>, <<"NOT NULL">>, <<"CONSTRAINT", "c">>, <<"CONSTRAINT", "c", "UNIQUE">>, <<"DEFAULT", "1">>,
                     <<"REFERENCES", "x", "(", "y", ")">>, <<"REFERENCES", "x", "(", "y", ",", "z", ")">>}}
Constraints ==
  UNION {{Pieces([n \in 1..(2 * k - 1) |-> IF n % 2 = 1 THEN list[(n + 1) \div 2] ELSE <<",">>]) :
            list \in [1..k -> {<<"a", "INT", "PRIMARY KEY", "DISABLE">>, <<"b", "STRING">>,
                               <<"B", "INT", "CONSTRAINT", "c", "UNIQUE", "DISABLE">>,
                               <<"PRIMARY KEY", "(", "A", ")", "NOT ENFORCED">>,
                               <<"CONSTRAINT", "C", "UNIQUE", "(", "b", ",", "a", ")", "DISABLE">>,
                               <<"CONSTRAINT", "d", "FOREIGN KEY", "(", "a", ")", "REFERENCES", "x",
                                 "(", "y", ")", "DISABLE", "NOVALIDATE">>,
                               <<"FOREIGN KEY", "(", "a", ")", "REFERENCES", "x", "(", "y", ",", "a", ")", "DISABLE">>,
                               <<"a", "INT", "DEFAULT", "1">>, <<"UNIQUE", "(", "p", ")", "DISABLE">>}]} : k \in 1..3}

\* A number is written as its digits and, in front of them, the place of its form in this list.
Forms == <<[form |-> "integer", exponent |-> 0, suffix |-> "none"], [form |-> "integer", exponent |-> 0, suffix |-> "Y"],
           [form |-> "integer", exponent |-> 0, suffix |-> "S"], [form |-> "integer", exponent |-> 0, suffix |-> "L"],
           [form |-> "integer", exponent |-> 0, suffix |-> "BD"], [form |-> "integer", exponent |-> 0, suffix |-> "D"],
           [form |-> "point", exponent |-> -1, suffix |-> "none"], [form |-> "point", exponent |-> -2, suffix |-> "none"],
           [form |-> "point", exponent |-> -3, suffix |-> "none"], [form |-> "point", exponent |-> -4, suffix |-> "none"],
           [form |-> "exponent", exponent |-> -1, suffix |-> "none"], [form |-> "exponent", exponent |-> -1, suffix |-> "BD"],
           [form |-> "exponent", exponent |-> 1, suffix |-> "BD"]>>
Numerals ==
  {<<ToString(m + 10000 * (k - 1)), [digits |-> m, signed |-> FALSE] @@ Forms[k]>> :
     k \in DOMAIN Forms, m \in 0..12 \cup {94, 95, 99, 100, 104, 105, 200, 994, 995, 1000, 9949, 9950}}
  \cup {<<"-1", [digits |-> 1, signed |-> TRUE] @@ Forms[1]>>}
MCNumbers == [name \in {n[1] : n \in Numerals} |-> (CHOOSE n \in Numerals : n[1] = name)[2]]

DecimalTexts == {<<"DECIMAL", "(", p[1], ",", p[2], ")">> :
                   p \in {<<"1", "0">>, <<"1", "1">>, <<"2", "0">>, <<"2", "1">>, <<"2", "2">>}}
Defaults2 ==
  {<<"a">> \o t \o <<"DEFAULT", n>> : t \in DecimalTexts \cup Each({"TINYINT", "SMALLINT", "INT", "BIGINT", "DOUBLE"}),
                                      n \in DOMAIN MCNumbers}
  \cup {<<"a", "DATE", "DEFAULT">> \o casts \o v \o ends :
           casts \in UpTo(3, {<<"CAST", "(">>}), v \in {<<"1">>, <<"NULL">>, <<"DATE", "day">>, <<"lit">>, <<"CURRENT_DATE">>},
           ends \in UpTo(3, {<<"AS", "DATE", ")">>, <<"AS", "INT", ")">>})}
  \cup {<<"a", t, "DEFAULT">> \o v : t \in {"STRING", "BOOLEAN", "TIMESTAMP", "INT"},
          v \in {<<"lit">>, <<"TRUE">>, <<"TIMESTAMP", "moment">>, <<"TIMESTAMP", "day">>, <<"NULL">>, <<"-1">>,
                 <<"CURRENT_USER">>, <<"CURRENT_USER", "(", ")">>, <<"CURRENT_TIMESTAMP", "(", ")">>}}

(* Comments: every sequence of up to three escapes and characters. *)
Characters ==
  {<<c>> : c \in {48, 49, 37, 120, 10, 34}} \cup {<<39, 39>>}
  \cup {<<92, c>> : c \in {48, 49, 110, 37, 39, 92, 120}}
  \cup {<<92, 117, 48, 48, 48, 49>>, <<92, 117, 100, 56, 51, 100>>, <<92, 117, 100, 101, 48, 48>>}
Commented ==
  {[external |-> FALSE, columns |-> <<"a", "INT", "COMMENT", "lit", ",", "quoted UNIQUE", "INT">>,
    tail |-> <<"COMMENT", "lit", "PARTITIONED BY", "(", "p", "ARRAY", "<", "INT", ">", ")">>,
    text |-> <<39>> \o t \o <<39>>] : t \in UpTo(3, Characters)}

MCInputs ==
  Statement({TwoColumns}, Tails \cup Storage \cup Lists \cup Skews)
  \cup Statement(TypeColumns \cup Clauses \cup Defaults2, {<<>>})
  \cup {[external |-> x, columns |-> d, tail |-> <<>>, text |-> Says] : x \in BOOLEAN, d \in Constraints}
  \cup Commented

MCFold == [hive |-> ("A" :> "a" @@ "B" :> "b"), collision |-> ("A" :> "a" @@ "B" :> "b"), lower |-> ("C" :> "c")]
MCMaxLength == [CHAR |-> 1, VARCHAR |-> 2]
MCLargest == [TINYINT |-> 1, SMALLINT |-> 2, INT |-> 3, BIGINT |-> 5]
MCPrimitives ==
  Each({"INT", "INTEGER", "BIGINT", "TINYINT", "SMALLINT", "STRING", "BOOLEAN", "DATE", "TIMESTAMP", "DOUBLE",
        "DECIMAL", "x", "PRECISION"})
  \cup {<<"DECIMAL", "(", n, ")">> : n \in {"1", "2"}} \cup DecimalTexts
  \cup {<<"CHAR", "(", "1", ")">>} \cup {<<"VARCHAR", "(", n, ")">> : n \in {"1", "2"}}
  \cup {<<"DOUBLE", "PRECISION">>, <<"TIMESTAMP", "WITH LOCAL TIME ZONE">>}
=============================================================================
