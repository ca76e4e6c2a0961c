--------------------------------- MODULE MCCli ---------------------------------
(* Every command with sound and unsound configurations, output streams and  *)
(* inputs; and every storage section of a small alphabet with validate.     *)
EXTENDS Cli, TLC

MCPrintable == {",", "/", "N", "1"}   \* "/" stands for a backslash
MCDigits    == {"1"}
MCMaxNull   == 3

TextsOf(characters, length) == UNION {[1..n -> characters] : n \in 0..length}
MCTexts == TextsOf({",", "/", "N"}, 2) \cup [1..3 -> {"/", "N"}]

Characters == {<<",">>, <<"/">>, <<"N">>, <<"1">>, <<"~">>, <<>>, <<",", ",">>}   \* "~" is not ASCII
Storages == [delimiter : Characters, escape : Characters,
             null : TextsOf({",", "/", "N"}, 3) \cup {<<"/", "~">>, <<"/", "N", "N", "N">>}]
Usual == [delimiter |-> <<",">>, escape |-> <<"/">>, null |-> <<"/", "N">>]

MCCalls ==
  [command : {"help", "wrong", "generate", "validate", "inspect"}, utf8 : BOOLEAN,
   stdout : {"open", "pipe", "full"},
   config : {[file |-> f, storage |-> Usual] : f \in {"absent", "malformed", "version 2", "version 3"}}]
  \cup {[command |-> "validate", utf8 |-> TRUE, stdout |-> "open",
         config |-> [file |-> "version 3", storage |-> s]] : s \in Storages}

MCInputs ==
  {[kind |-> k, files |-> <<>>] : k \in {"none", "unreadable", "special", "file", "directory"}}
  \cup {[kind |-> k, files |-> <<v>>] : k \in {"link", "file"}, v \in {"accepted", "refused", "collides"}}
  \cup {[kind |-> "directory", files |-> <<v, w>>] : v, w \in {"accepted", "refused", "collides"}}
=============================================================================
