----------------------------- MODULE HiveStorage -----------------------------
(***************************************************************************)
(* hive.storage of the configuration: the field delimiter, the escape      *)
(* character and the text that stands for NULL in the lines of the target  *)
(* table, as config.py accepts them, and what Hive makes of them.  A text  *)
(* is a sequence of characters.                                            *)
(***************************************************************************)
EXTENDS Naturals, Sequences

CONSTANTS
  Printable,   \* the printable ASCII characters of this instance
  Digits,      \* those that are digits
  MaxNull,     \* the length of null_value, 32
  Texts        \* the values of columns, of this instance

ASSUME DigitsAssumption == Digits \subseteq Printable
ASSUME NullAssumption   == MaxNull \in Nat

IsText(text) == Len(text) \in Nat /\ text = [k \in 1..Len(text) |-> text[k]]
ASSUME TextsAssumption  == \A text \in Texts : IsText(text)

Holds(text, character) == \E k \in DOMAIN text : text[k] = character

(* _storage_character. *)
StorageCharacter(text) == Len(text) = 1 /\ text[1] \in Printable \ Digits

(* The checks of null_value, once the two characters are accepted. *)
NullValueVariant(null, delimiter, escape) ==   \* accepts a plain word
  /\ null # <<>> /\ Len(null) <= MaxNull /\ \A k \in DOMAIN null : null[k] \in Printable
  /\ ~ Holds(null, delimiter) /\ null[Len(null)] # escape
NullValue(null, delimiter, escape) ==
  /\ null # <<>> /\ Len(null) <= MaxNull /\ \A k \in DOMAIN null : null[k] \in Printable
  /\ ~ Holds(null, delimiter) /\ Holds(null, escape) /\ null[Len(null)] # escape

(* _load_storage. *)
StorageAccepted(s) ==
  /\ StorageCharacter(s.delimiter) /\ StorageCharacter(s.escape) /\ s.delimiter # s.escape
  /\ NullValue(s.null, s.delimiter[1], s.escape[1])

-----------------------------------------------------------------------------
(* Hive's side.  A value is a set: empty for NULL, else of one text.        *)

Field(s, text) ==   \* the text with what has a meaning escaped
  LET from[k \in 1..(Len(text) + 1)] ==
        IF k > Len(text) THEN <<>>
        ELSE (IF <<text[k]>> \in {s.delimiter, s.escape} THEN s.escape ELSE <<>>)
               \o <<text[k]>> \o from[k + 1]
  IN  from[1]

Line(s, row) ==
  LET value(n) == IF row[n] = {} THEN s.null ELSE Field(s, CHOOSE t \in row[n] : TRUE)
      from[n \in 1..Len(row)] ==
        IF n = Len(row) THEN value(n) ELSE value(n) \o s.delimiter \o from[n + 1]
  IN  from[1]

(* The fields of a line as they stand there, and what a field says. *)
Fields(s, line) ==
  LET from[k \in 1..(Len(line) + 2)] ==   \* the fields from k, the first one begun before
        IF k > Len(line) THEN <<<<>>>>
        ELSE LET skip == IF <<line[k]>> = s.escape /\ k < Len(line) THEN 2 ELSE 1
                 rest == from[k + skip]
             IN  IF <<line[k]>> = s.delimiter THEN <<<<>>>> \o rest
                 ELSE <<SubSeq(line, k, k + skip - 1) \o rest[1]>> \o Tail(rest)
  IN  from[1]
Says(s, field) ==
  LET from[k \in 1..(Len(field) + 2)] ==
        IF k > Len(field) THEN <<>>
        ELSE IF <<field[k]>> = s.escape /\ k < Len(field) THEN <<field[k + 1]>> \o from[k + 2]
        ELSE <<field[k]>> \o from[k + 1]
  IN  IF field = s.null THEN {} ELSE {from[1]}
Row(s, line) == LET fields == Fields(s, line) IN [n \in DOMAIN fields |-> Says(s, fields[n])]

(* Every row comes back, but for the one text that null_value is the        *)
(* escaped form of, if it is one; and that is not null_value itself.        *)
ReadsBack(s) ==
  LET values == {{}} \cup {{t} : t \in Texts}
      mistaken(value) == \E t \in value : t # s.null /\ Field(s, t) = s.null
  IN  \A m \in 1..2 : \A row \in [1..m -> values] :
        Row(s, Line(s, row)) = [n \in 1..m |-> IF mistaken(row[n]) THEN {} ELSE row[n]]
=============================================================================
