----------------------------- MODULE MCDdlScan -----------------------------
(* Documents put together from pieces. *)
EXTENDS DdlScan

Joined(pieces) == LET text[n \in 0..Len(pieces)] ==
                        IF n = 0 THEN <<>> ELSE text[n - 1] \o pieces[n]
                  IN  text[Len(pieces)]
UpTo(n, pieces) == UNION {[1..k -> pieces] : k \in 0..n}

Create == <<"create", "word", "(", "word">>

(* Every order of quotes, escapes and comment delimiters. *)
Lexical == UpTo(5, {"quote", "backquote", "escape", "-", "nl", "/", "*"})

(* Statements within, after and before others, and in quotes. *)
Nested == {Joined(<<Create>> \o p) : p \in UpTo(6, {Create, <<"(">>, <<")">>, <<"semicolon">>, <<"quote">>})}

(* A statement around quotes, comments and names. *)
Quoted == {Joined(<<Create>> \o p \o <<<<")">>, <<"semicolon">>>>) :
             p \in UpTo(4, {<<"quote">>, <<"backquote">>, <<"escape">>, <<")">>, <<"semicolon">>,
                            <<"-", "-">>, <<"nl">>, <<"create">>, <<"word">>})}
Named  == {<<"create">> \o p \o <<"(", "word", ")">> :
             p \in {p \in UpTo(5, {"backquote", "word", "dot", "blank", "("}) :
                      \A k \in 2..Len(p) : p[k - 1] # "word" \/ p[k] # "word"}}

(* Column lists and partition columns at the limits, after either name. *)
Listed == {Joined(<<name>> \o p \o <<<<")">>>>) :
             name \in {Create, <<"create", "backquote", "word", "backquote", "(", "word">>},
             p \in UpTo(5, {<<"comma", "word">>, <<"comma", "key">>, <<"<">>, <<">">>, <<")">>,
                            <<"part", "(", "word">>, <<"semicolon", "create", "word", "(", "word">>})}

(* Statements within the partition columns. *)
Late   == {Joined(<<Create, <<")", "part", "(", "word">>>> \o p \o <<<<")">>>>) :
             p \in UpTo(4, {<<"create">>, <<"word">>, <<"(">>, <<")">>, <<"semicolon">>, <<"comma">>})}

MCDocuments == Lexical \cup Nested \cup Quoted \cup Named \cup Listed \cup Late
=============================================================================
