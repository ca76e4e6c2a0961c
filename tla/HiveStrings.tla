----------------------------- MODULE HiveStrings -----------------------------
(***************************************************************************)
(* Comments on their way through the program: _quoted_literal of parser.py *)
(* decodes a Hive literal, hive_string and greenplum_string of sql.py      *)
(* write it again.  A text is a sequence of code points.                   *)
(***************************************************************************)
EXTENDS Naturals, Sequences

NUL == 0   BS == 8   TAB == 9   LF == 10   CR == 13   SUB == 26
DoubleQuote == 34   Percent == 37   SingleQuote == 39   Underscore == 95   Backslash == 92

Digit(n) == IF n < 10 THEN 48 + n ELSE 87 + n   \* 0123456789abcdef
HexValue == [c \in {Digit(n) : n \in 0..15} \cup 65..70 |->
               CHOOSE n \in 0..15 : Digit(n) = c \/ (c \in 65..70 /\ n = c - 55)]
Octal == {Digit(n) : n \in 0..7}

(* `escapes` when a literal is read (0 b n r t Z), and when one is written. *)
Letters == [c \in {48, 98, 110, 114, 116, 90} |->
              CASE c = 48  -> NUL [] c = 98  -> BS  [] c = 110 -> LF
                [] c = 114 -> CR  [] c = 116 -> TAB [] c = 90  -> SUB]
Escapes == [c \in {NUL, SingleQuote, DoubleQuote, BS, LF, CR, TAB, Backslash, SUB} |->
              IF \E l \in DOMAIN Letters : Letters[l] = c
              THEN CHOOSE l \in DOMAIN Letters : Letters[l] = c ELSE c]

High == 55296..56319   \* surrogates
Low  == 56320..57343

(* Pairs of surrogates become one character; a single one is refused. *)
Joined(text) ==
  LET pair(k) == k < Len(text) /\ text[k] \in High /\ text[k + 1] \in Low
      from[k \in 1..(Len(text) + 1)] ==
        IF k > Len(text) THEN {<<>>}
        ELSE IF pair(k)
        THEN {<<65536 + 1024 * (text[k] - 55296) + text[k + 1] - 56320>> \o rest : rest \in from[k + 2]}
        ELSE {<<text[k]>> \o rest : rest \in IF text[k] \in High \cup Low THEN {} ELSE from[k + 1]}
  IN  from[1]

(* _quoted_literal: what a literal says, if it is one.  Its last character  *)
(* is the closing quote.  The escape at k has a length and a meaning.       *)
Hex(text, k, places) == HexValue[text[k]] * 16^places
Escape(text, k) ==
  LET next    == text[k + 1]
      unicode == next = 117 /\ k + 6 <= Len(text)
      hex     == \A i \in (k + 2)..(k + 5) : text[i] \in DOMAIN HexValue
      octal   == /\ k + 3 < Len(text) /\ next \in {48, 49}
                 /\ \A i \in (k + 2)..(k + 3) : text[i] \in Octal
      says(length, meaning) == [length |-> length, meaning |-> meaning]
  IN  IF unicode
      THEN says(6, IF hex THEN {<<Hex(text, k + 2, 3) + Hex(text, k + 3, 2)
                                  + Hex(text, k + 4, 1) + Hex(text, k + 5, 0)>>} ELSE {})
      ELSE IF octal
      THEN says(4, {<<64 * (next - 48) + 8 * (text[k + 2] - 48) + text[k + 3] - 48>>})
      ELSE IF next \in {Percent, Underscore} THEN says(2, {<<Backslash, next>>})
      ELSE IF next \in DOMAIN Letters THEN says(2, {<<Letters[next]>>})
      ELSE says(2, {<<next>>})

Decoded(text) ==
  LET end == Len(text)
      from[k \in 2..(end + 1)] ==
        IF k >= end THEN {<<>>}
        ELSE IF text[k] = text[1] THEN {<<text[1]>> \o r : r \in from[k + 2]}
        ELSE IF text[k] = Backslash /\ k < end - 1
        THEN LET e == Escape(text, k) IN {s \o r : s \in e.meaning, r \in from[k + e.length]}
        ELSE {<<text[k]>> \o r : r \in from[k + 1]}
  IN  UNION {Joined(s) : s \in from[2]}

(* hive_string. *)
HiveString(value) ==
  LET pair(k) == k < Len(value) /\ value[k] = Backslash /\ value[k + 1] \in {Percent, Underscore}
      control(c) == <<Backslash, 117, 48, 48, Digit(c \div 16), Digit(c % 16)>>
      from[k \in 1..(Len(value) + 1)] ==
        IF k > Len(value) THEN <<SingleQuote>>
        ELSE IF pair(k) THEN <<value[k], value[k + 1]>> \o from[k + 2]
        ELSE (IF value[k] \in DOMAIN Escapes THEN <<Backslash, Escapes[value[k]]>>
              ELSE IF value[k] < 32 THEN control(value[k])
              ELSE <<value[k]>>) \o from[k + 1]
  IN  <<SingleQuote>> \o from[1]

(* greenplum_string, after its E. *)
GreenplumString(value) ==
  LET from[k \in 1..(Len(value) + 1)] ==
        IF k > Len(value) THEN <<SingleQuote>>
        ELSE (IF value[k] \in {Backslash, SingleQuote} THEN <<value[k], value[k]>>
              ELSE <<value[k]>>) \o from[k + 1]
  IN  <<SingleQuote>> \o from[1]

(* What PostgreSQL reads in such a literal. *)
GreenplumReads(text) ==
  LET from[k \in 2..(Len(text) + 1)] ==
        IF k >= Len(text) THEN <<>>
        ELSE IF text[k] \in {Backslash, SingleQuote} THEN <<text[k + 1]>> \o from[k + 2]
        ELSE <<text[k]>> \o from[k + 1]
  IN  from[2]
=============================================================================
