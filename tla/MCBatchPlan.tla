----------------------------- MODULE MCBatchPlan -----------------------------
(* Small batches for TLC: up to two files of up to two tables from a pool   *)
(* in which spelling, qualification and derived names collide in every way. *)
EXTENDS BatchPlan

MCTokens == {"a", "b", "B", "t", "p", "e", "ctl", "dot", "odd"}
MCFold   == [x \in MCTokens |-> IF x = "B" THEN "b" ELSE x]

T(database, name) == [database |-> database, name |-> name, columns |-> << <<"a">> >>,
                      mappable |-> TRUE]

Pool ==
  {T(<<"a">>, <<"b">>), T(<<"a">>, <<"B">>), T(<<>>, <<"a", "b">>), T(<<"t">>, <<"p", "b">>),
   T(<<>>, <<"p", "b">>), T(<<"a">>, <<"e", "b">>), T(<<"b">>, <<"b">>),
   [T(<<"a">>, <<"t">>) EXCEPT !.columns = << <<"a">>, <<"b">> >>]}

(* Tables build_target_names or map_table_columns refuses. *)
Broken ==
  {[T(<<"a">>, <<"b">>) EXCEPT !.columns = c] :
      c \in {<< <<"b">>, <<"B">> >>, << <<"dot">> >>, << <<"a", "a", "a", "a">> >>, << <<"ctl">> >>}}
  \cup {T(<<"a">>, <<"odd">>), T(<<"a">>, <<"a", "a", "b">>),
        [T(<<"a">>, <<"b">>) EXCEPT !.mappable = FALSE]}

Two       == {<<s>> : s \in Pool} \cup {<<s, t>> : s, t \in Pool}
MCFiles   == [parses : {TRUE}, tables : Two]
MCBatches ==
  {<<f>> : f \in MCFiles} \cup {<<f, g>> : f, g \in MCFiles}
  \cup {<<[parses |-> FALSE, tables |-> ts]>> : ts \in {<<>>} \cup Two}
  \cup {<<[parses |-> TRUE, tables |-> <<T(<<"b">>, <<"b">>), t>>]>> : t \in Broken}

MCTemplate(prefix, database, table) == [prefix |-> prefix, database |-> database, table |-> table]
MCConfig(external, enabled, hive, ext, phys) ==
  [hiveDatabase |-> <<"t">>, externalSchema |-> external, physicalSchema |-> <<"a">>,
   hive |-> hive, external |-> ext, physical |-> phys, enabled |-> enabled]

ByTable    == MCTemplate(<<"p">>, FALSE, TRUE)
ByDatabase == MCTemplate(<<>>, TRUE, TRUE)
External   == MCTemplate(<<"e">>, FALSE, TRUE)
Bare       == MCTemplate(<<>>, FALSE, TRUE)
Constant   == MCTemplate(<<"p">>, FALSE, FALSE)

Few   == {"create", "insert"}
Every == {"create", "insert", "grant"}

MCConfigs == {MCConfig(<<"e">>, Few, ByTable, External, Bare),      \* as in the default configuration
              MCConfig(<<"a">>, Few, ByTable, External, Bare),      \* one Greenplum schema
              MCConfig(<<"a">>, Few, ByDatabase, ByDatabase, External),
              MCConfig(<<"e">>, Few, ByDatabase, ByDatabase, ByDatabase),
              MCConfig(<<"a">>, Few, Bare, Bare, Bare),
              MCConfig(<<"e">>, Every, Constant, External, Bare),
              MCConfig(<<"e">>, Every, ByTable, External, Bare)}
=============================================================================
