----------------------------- MODULE HiveNumbers -----------------------------
(***************************************************************************)
(* The type Hive gives a numeric literal (_infer_default_literal_type and  *)
(* _decimal_literal_type of parser.py).  A literal is the number digits *  *)
(* 10^exponent, how it is written, and its suffix; its sign plays no part. *)
(***************************************************************************)
EXTENDS Integers, FiniteSetsExt

CONSTANTS
  MaxPrecision,   \* 38
  Largest         \* of TINYINT, SMALLINT, INT, BIGINT

Literal == [digits : Nat, exponent : Int, form : {"integer", "point", "exponent"},
            suffix : {"none", "Y", "S", "L", "D", "BD"}, signed : BOOLEAN]

ASSUME PrecisionAssumption == MaxPrecision \in Nat \ {0}
ASSUME LargestAssumption   == Largest \in [{"TINYINT", "SMALLINT", "INT", "BIGINT"} -> Nat]

(* A type is a sequence of tokens; no type is an empty set of them. *)
Decimal(precision, scale) == <<"DECIMAL", precision, scale>>

DigitCount[n \in Nat] == IF n < 10 THEN 1 ELSE 1 + DigitCount[n \div 10]
Zeros[n \in Nat]      == IF n % 10 # 0 THEN 0 ELSE 1 + Zeros[n \div 10]   \* trailing ones

(* decimal_shape: digits before the point, digits after it, and of both. *)
Shape(digits, exponent) ==
  LET significant == DigitCount[digits] - Zeros[digits]
      point       == exponent + Zeros[digits]
  IN  IF point >= 0
      THEN [precision |-> significant + point, scale |-> 0, integer |-> significant + point]
      ELSE [precision |-> Max({significant, - point}), scale |-> - point,
            integer |-> significant + point]

(* The number in units of 10^-scale, rounded half up. *)
QuantizeVariant(digits, exponent, scale) ==   \* cuts the rest off
  LET places == exponent + scale
  IN  IF places >= 0 THEN digits * 10^places ELSE digits \div 10^(- places)
Quantize(digits, exponent, scale) ==
  LET places == exponent + scale
  IN  IF places >= 0 THEN digits * 10^places
      ELSE (digits + 5 * 10^(- places - 1)) \div 10^(- places)

DecimalType(digits, exponent) ==
  IF digits = 0 THEN {Decimal(1, 0)}
  ELSE LET shape    == Shape(digits, exponent)
           maxScale == Min({MaxPrecision, MaxPrecision - shape.integer, shape.scale})
           rounded  == Quantize(digits, exponent, maxScale)
           short    == IF shape.scale > maxScale /\ rounded > 0 THEN Shape(rounded, - maxScale)
                       ELSE shape
       IN  CASE shape.integer > MaxPrecision                    -> {}
             [] shape.integer <= MaxPrecision /\ shape.scale > maxScale /\ rounded = 0 -> {Decimal(1, 0)}
             [] OTHER -> IF Max({short.integer, short.precision}) > MaxPrecision THEN {}
                         ELSE {Decimal(short.precision, short.scale)}

(* _infer_default_literal_type, of a numeric literal. *)
SuffixTypes == [Y |-> "TINYINT", S |-> "SMALLINT", L |-> "BIGINT"]
NumberType(l) ==
  LET value   == l.digits * 10^l.exponent   \* of an integer
      decimal == DecimalType(l.digits, l.exponent)
      double  == {<<"DOUBLE">>}
  IN  CASE l.suffix = "BD"                -> decimal
        [] l.suffix \in DOMAIN SuffixTypes   ->
             IF l.form = "integer" /\ value <= Largest[SuffixTypes[l.suffix]]
             THEN {<<SuffixTypes[l.suffix]>>} ELSE {}
        [] l.suffix = "D" \/ (l.suffix = "none" /\ l.form = "exponent") -> double
        [] l.suffix = "none" /\ l.form = "point"   -> IF decimal = {} THEN double ELSE decimal
        [] l.suffix = "none" /\ l.form = "integer" ->
             IF value <= Largest["INT"] THEN {<<"INT">>}
             ELSE IF value <= Largest["BIGINT"] THEN {<<"BIGINT">>}
             ELSE IF decimal = {} THEN double ELSE decimal
=============================================================================
