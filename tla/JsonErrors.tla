------------------------------ MODULE JsonErrors ------------------------------
(***************************************************************************)
(* The errors of a Json::Reader: those of the parser, and those that the   *)
(* caller adds for a value, at the offsets the value had in the document   *)
(* it was read from, which need not be the last one.                       *)
(***************************************************************************)
EXTENDS Integers, Sequences, FiniteSets

CONSTANTS MaxLength, MaxErrors    \* bound documents and errors

VARIABLES
  length,              \* of the document read last
  values,              \* the offsets of the values the caller has
  errors_              \* where they are, counted from begin_

vars == <<length, values, errors_>>

(* What 0 - 1 is as an offset: a location before the document. *)
Wrapped == MaxLength + 1
location(offset) == IF offset = Wrapped THEN -1 ELSE offset

Ranges(n) == {[start_ |-> i, limit_ |-> j] : i \in 0..n, j \in 0..n}
Read(n) == {v \in Ranges(n) : v.start_ <= v.limit_}

(* A dropped placeholder is put one byte before its separator at p. *)
Dropped(n) == {[start_ |-> IF p = 0 THEN Wrapped ELSE p - 1, limit_ |-> p] : p \in 0..n - 1}

Token(start, limit, extra) == [start_ |-> start, end_ |-> limit, extra_ |-> extra]

Init == length = 0 /\ values = {} /\ errors_ = << >>

parse ==
  /\ length' \in 0..MaxLength
  /\ \E v \in Read(length') \cup Dropped(length') : values' = {v} \cup values
  /\ errors_' = << >>

addError ==
  /\ errors_ = << >>
  /\ \E token \in Read(length) : errors_' = <<Token(token.start_, token.limit_, {})>>
  /\ UNCHANGED <<length, values>>

(* Refused if the value lies outside; its end counts from the end.         *)
pushError(v) ==
  /\ Len(errors_) < MaxErrors
  /\ v.start_ <= length /\ v.limit_ <= length
  /\ errors_' = Append(errors_, Token(location(v.start_), length + v.limit_, {}))
  /\ UNCHANGED <<length, values>>

(* The start of extra is not looked at. *)
pushErrorWith(v, extra) ==
  /\ Len(errors_) < MaxErrors
  /\ v.start_ <= length /\ v.limit_ <= length /\ extra.limit_ <= length
  /\ errors_' = Append(errors_, Token(location(v.start_), location(v.limit_), {location(extra.start_)}))
  /\ UNCHANGED <<length, values>>

Next ==
  \/ parse
  \/ addError
  \/ \E v \in values : pushError(v) \/ \E extra \in values : pushErrorWith(v, extra)

Spec == Init /\ [][Next]_vars

(* For TLC: the caller keeps two values at most. *)
TwoValues == Cardinality(values) <= 2

-------------------------------------------------------------------------------
(* "The offsets give the [start, limit) range of bytes within the text."   *)
LimitsAreInText == \A i \in 1..Len(errors_) : errors_[i].end_ \in 0..length
===============================================================================
