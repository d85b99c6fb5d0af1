------------------------------ MODULE JsonConvert ------------------------------
(***************************************************************************)
(* The conversions of a Json::Value: what it is, what isConvertibleTo()    *)
(* says it can become, and what the as...() functions make of it.  Widths  *)
(* and the precision of doubles are parameters.  All numbers are kept      *)
(* doubled, so that a fraction, which is modelled as one half, is one too. *)
(***************************************************************************)
EXTENDS Integers

CONSTANTS
  maxInt,              \* of Int; UInt goes to 2 * maxInt + 1
  maxInt64,            \* of Int64, the largest integer
  Exact,               \* up to here a double holds every integer
  double(_),           \* an integer as a double: the nearest one
  Reals                \* the doubles that values hold

VARIABLES operand, answer
vars == <<operand, answer>>

minInt == - maxInt - 1
maxUInt == 2 * maxInt + 1
minInt64 == - maxInt64 - 1
maxUInt64 == 2 * maxInt64 + 1

(* What doubles are like: the small integers are doubles, and so is the    *)
(* least integer; larger ones are rounded in order, an integer that is a   *)
(* double already to itself.                                               *)
Integers64 == minInt64..maxUInt64
Whole == Integers64 \cup {r \div 2 : r \in {q \in Reals : q % 2 = 0}}
ConvertAssumption ==
  /\ maxInt \in Nat /\ maxInt64 \in Nat /\ Exact \in Nat /\ Reals \subseteq Int
  /\ maxUInt <= Exact /\ maxInt <= maxInt64
  /\ \A n \in Whole : double(n) \in Int
  /\ \A m, n \in Whole : m <= n => double(m) <= double(n)
  /\ \A n \in Integers64 : n \in -Exact..Exact \/ n = minInt64 => double(n) = n
  /\ \A r \in Reals : r % 2 = 0 => double(r \div 2) = r \div 2

Of(type, S) == [type : {type}, twice : S]
Doubled(S) == {2 * n : n \in S}
Operands ==
  Of("int", Doubled(minInt64..maxInt64)) \cup Of("uint", Doubled(0..maxUInt64))
    \cup Of("real", Reals)
    \cup Of("boolean", {0, 2}) \cup Of("null", {0})
    \cup Of("string", {0, 2}) \cup Of("array", {0, 2}) \cup Of("object", {0, 2})   \* empty or not

Types == {"null", "int", "uint", "real", "boolean", "string", "array", "object"}

-------------------------------------------------------------------------------
(* What a value is. *)

Between(v, low, high) == 2 * low <= v.twice /\ v.twice <= 2 * high
IsIntegral(v) == v.twice % 2 = 0
InRange(v, low, high) == Between(v, double(low), double(high))

isInt(v) ==
  \/ v.type = "int" /\ Between(v, minInt, maxInt)
  \/ v.type = "uint" /\ Between(v, 0, maxInt)
  \/ v.type = "real" /\ InRange(v, minInt, maxInt) /\ IsIntegral(v)

isUInt(v) ==
  \/ v.type \in {"int", "uint"} /\ Between(v, 0, maxUInt)
  \/ v.type = "real" /\ InRange(v, 0, maxUInt) /\ IsIntegral(v)

(* A double must stay below double(maxInt64), which is maxInt64 + 1. *)
isInt64(v) ==
  \/ v.type = "int"
  \/ v.type = "uint" /\ Between(v, 0, maxInt64)
  \/ /\ v.type = "real" /\ IsIntegral(v)
     /\ 2 * double(minInt64) <= v.twice /\ v.twice < 2 * double(maxInt64)

isUInt64(v) ==
  \/ v.type = "int" /\ v.twice >= 0
  \/ v.type = "uint"
  \/ v.type = "real" /\ 0 <= v.twice /\ v.twice < 2 * double(maxUInt64) /\ IsIntegral(v)

isIntegral(v) == isInt64(v) \/ isUInt64(v)
isDouble(v) == v.type = "real" \/ isIntegral(v)
isNumeric(v) == isIntegral(v) \/ isDouble(v)

-------------------------------------------------------------------------------
(* What the conversions answer.  A cast of a double to an integer type it  *)
(* does not fit in is undefined.                                           *)

Throws == [is |-> "thrown", twice |-> 0]
Undefined == [is |-> "undefined", twice |-> 0]
Answer(n) == [is |-> "number", twice |-> n]

Cast(v, low, high) ==
  LET cut == IF v.twice >= 0 THEN (v.twice \div 2) * 2 ELSE - ((- v.twice) \div 2) * 2
  IN IF cut \in 2 * low..2 * high THEN Answer(cut) ELSE Undefined

AsInteger(v, fits, low, high) ==
  CASE v.type \in {"int", "uint"} -> IF fits THEN Cast(v, low, high) ELSE Throws
    [] v.type = "real" -> IF InRange(v, low, high) THEN Cast(v, low, high) ELSE Throws
    [] v.type \in {"null", "boolean"} -> Answer(v.twice)
    [] OTHER -> Throws

asInt(v) == AsInteger(v, isInt(v), minInt, maxInt)
asUInt(v) == AsInteger(v, isUInt(v), 0, maxUInt)
asInt64(v) == AsInteger(v, isInt64(v), minInt64, maxInt64)
asUInt64(v) == AsInteger(v, isUInt64(v), 0, maxUInt64)

IsPlain(v) == v.type \in {"null", "boolean", "int", "uint", "real"}

asDouble(v) ==
  CASE v.type \in {"int", "uint"} -> Answer(2 * double(v.twice \div 2))
    [] v.type \in {"real", "null", "boolean"} -> Answer(v.twice)
    [] OTHER -> Throws

asBool(v) == IF IsPlain(v) THEN Answer(IF v.twice = 0 THEN 0 ELSE 2) ELSE Throws

(* Which text it is does not matter here. *)
asString(v) == IF IsPlain(v) \/ v.type = "string" THEN Answer(v.twice) ELSE Throws

(* Mutant: whatever is a number can become an integer. *)
isConvertibleToAny(v, other) == isNumeric(v) \/ v.type = other

isConvertibleTo(v, other) ==
  CASE other = "null" ->
         \/ isNumeric(v) /\ v.twice = 0
         \/ v.type \in {"boolean", "string", "array", "object"} /\ v.twice = 0
         \/ v.type = "null"
    [] other = "int" ->
         isInt(v) \/ (v.type = "real" /\ InRange(v, minInt, maxInt)) \/ v.type \in {"boolean", "null"}
    [] other = "uint" ->
         isUInt(v) \/ (v.type = "real" /\ InRange(v, 0, maxUInt)) \/ v.type \in {"boolean", "null"}
    [] other \in {"real", "boolean"} -> isNumeric(v) \/ v.type \in {"boolean", "null"}
    [] other = "string" -> isNumeric(v) \/ v.type \in {"boolean", "string", "null"}
    [] other \in {"array", "object"} -> v.type \in {other, "null"}

(* The function that belongs to a type. *)
As(v, other) ==
  CASE other = "int" -> asInt(v)
    [] other = "uint" -> asUInt(v)
    [] other = "real" -> asDouble(v)
    [] other = "boolean" -> asBool(v)
    [] other = "string" -> asString(v)

Conversions == {"int", "uint", "real", "boolean", "string"}

-------------------------------------------------------------------------------
Unasked == [is |-> "unasked", twice |-> 0]

Init == operand \in Operands /\ answer = Unasked

Next ==
  /\ answer = Unasked
  /\ \/ \E other \in Conversions : answer' = As(operand, other)
     \/ answer' = asInt64(operand)
     \/ answer' = asUInt64(operand)
  /\ UNCHANGED operand

Spec == Init /\ [][Next]_vars

-------------------------------------------------------------------------------
(* What a value says of itself its conversions keep: where it is           *)
(* convertible it is converted, without an exception and without undefined *)
(* behaviour; where it is an integer of some width it is converted         *)
(* exactly, at the limits of the types, where doubles are rounded, too;    *)
(* and it converts to null if it is the zero of its type.                  *)
ConvertibleConverts ==
  /\ \A other \in Conversions : isConvertibleTo(operand, other) => As(operand, other).is = "number"
  /\ isInt(operand) => asInt(operand) = Answer(operand.twice)
  /\ isUInt(operand) => asUInt(operand) = Answer(operand.twice)
  /\ isInt64(operand) => asInt64(operand) = Answer(operand.twice)
  /\ isUInt64(operand) => asUInt64(operand) = Answer(operand.twice)
  /\ isConvertibleTo(operand, "null") /\ IsPlain(operand) => asBool(operand) = Answer(0)
===============================================================================
