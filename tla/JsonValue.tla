------------------------------- MODULE JsonValue -------------------------------
(***************************************************************************)
(* Json::Value as a container: an array is a map from indices to elements, *)
(* in which an element may be missing, an object is a map from names to    *)
(* members.  The elements themselves are payloads.  A call that            *)
(* JSON_ASSERT_MESSAGE refuses throws before it changes anything: a        *)
(* stuttering step.                                                        *)
(***************************************************************************)
EXTENDS Integers, Sequences, SequencesExt, FiniteSetsExt

CONSTANTS
  Item,                \* payloads of elements and members, with "null"
  Key,                 \* names of members
  MaxSize,             \* indices stay below (bounds the model)
  Comment,             \* texts of comments
  SparseArrays         \* elements may be created beyond the end of an array

VARIABLES
  v, w,                \* two values: a payload and a comment
  removed,             \* what removeMember() and removeIndex() put out
  aborted              \* an assert() has failed

vars == <<v, w, removed, aborted>>

ASSUME ValueAssumption ==
  /\ "null" \in Item /\ MaxSize \in Nat \ {0} /\ SparseArrays \in BOOLEAN

ValueType == {"null", "scalar", "array", "object"}
Empty == [k \in {} |-> "null"]

(* The constructors: initBasic() leaves the comments empty. *)
Value(type) == [type |-> type, map |-> Empty, comment |-> "none"]

Init == v = Value("null") /\ w = Value("null") /\ removed = "null" /\ aborted = FALSE

-------------------------------------------------------------------------------
(* Reading. *)

Indices(x) == DOMAIN x.map

size(x) ==
  CASE x.type = "array" -> IF Indices(x) = {} THEN 0 ELSE Max(Indices(x)) + 1
    [] x.type = "object" -> Cardinality(Indices(x))
    [] x.type \in {"null", "scalar"} -> 0

(* operator[] const, and find(): a missing entry is null. *)
At(x, key) == IF key \in DOMAIN x.map THEN x.map[key] ELSE "null"

-------------------------------------------------------------------------------
(* Writing.  operator[] turns a null into an array or an object first, by  *)
(* an assignment that takes its comments along.                            *)

Become(x, type) == IF x.type = "null" THEN Value(type) ELSE x

Store(x, key, item) ==
  [x EXCEPT !.map = [k \in DOMAIN x.map \cup {key} |-> IF k = key THEN item ELSE x.map[k]]]

Without(x, Keys) == [x EXCEPT !.map = [k \in DOMAIN x.map \ Keys |-> x.map[k]]]

(* operator[](ArrayIndex), resolveReference(): created if it is missing. *)
Reach(x, key, type) ==
  LET y == Become(x, type) IN IF key \in DOMAIN y.map THEN y ELSE Store(y, key, "null")

MayBecome(x, type) == x.type \in {"null", type}

(* v = Value(type), v = w: copy and swap. *)
Assign ==
  /\ \E type \in ValueType : v' = Value(type)
  /\ UNCHANGED <<w, removed, aborted>>

Copy ==
  /\ v' = w
  /\ UNCHANGED <<w, removed, aborted>>

swap ==
  /\ v' = w /\ w' = v
  /\ UNCHANGED <<removed, aborted>>

swapPayload ==
  /\ v' = [w EXCEPT !.comment = v.comment] /\ w' = [v EXCEPT !.comment = w.comment]
  /\ UNCHANGED <<removed, aborted>>

clear ==
  /\ v.type # "scalar"
  /\ v' = [v EXCEPT !.map = Empty]
  /\ UNCHANGED <<w, removed, aborted>>

(* Indices that a call may use. *)
Within(n) == SparseArrays \/ n <= size(v)

(* Only the last of the new elements is created; when elements are dropped *)
(* an assert() holds the size against the one asked for.                   *)
resize(n) ==
  /\ MayBecome(v, "array") /\ Within(n - 1)
  /\ LET x == Become(v, "array")
         y == IF n > size(x) THEN Reach(x, n - 1, "array") ELSE Without(x, n..MaxSize)
     IN IF n = 0 \/ size(y) = n THEN v' = y /\ UNCHANGED aborted
        ELSE aborted' = TRUE /\ UNCHANGED v
  /\ UNCHANGED <<w, removed>>

(* v[i], and v[i] = item *)
Element(i) ==
  /\ MayBecome(v, "array") /\ Within(i)
  /\ v' = Reach(v, i, "array")
  /\ UNCHANGED <<w, removed, aborted>>

SetElement(i, item) ==
  /\ MayBecome(v, "array") /\ Within(i)
  /\ v' = Store(Become(v, "array"), i, item)
  /\ UNCHANGED <<w, removed, aborted>>

append(item) ==
  /\ MayBecome(v, "array") /\ size(v) < MaxSize
  /\ v' = Store(Become(v, "array"), size(v), item)
  /\ UNCHANGED <<w, removed, aborted>>

Member(key) ==
  /\ MayBecome(v, "object")
  /\ v' = Reach(v, key, "object")
  /\ UNCHANGED <<w, removed, aborted>>

SetMember(key, item) ==
  /\ MayBecome(v, "object")
  /\ v' = Store(Become(v, "object"), key, item)
  /\ UNCHANGED <<w, removed, aborted>>

removeMember(key) ==
  /\ v.type = "object" /\ key \in DOMAIN v.map
  /\ removed' = v.map[key]
  /\ v' = Without(v, {key})
  /\ UNCHANGED <<w, aborted>>

(* Mutant: the last element is not taken away. *)
removeIndexKeepingLast(i) ==
  /\ v.type = "array" /\ i \in DOMAIN v.map
  /\ removed' = v.map[i]
  /\ v' = [v EXCEPT !.map = [j \in DOMAIN v.map \cup i..size(v) - 2 |->
                               IF j < i \/ j = size(v) - 1 THEN v.map[j] ELSE At(v, j + 1)]]
  /\ UNCHANGED <<w, aborted>>

(* The elements behind the index move down, missing ones as nulls. *)
removeIndex(i) ==
  /\ v.type = "array" /\ i \in DOMAIN v.map
  /\ removed' = v.map[i]
  /\ v' = [v EXCEPT !.map = [j \in {k \in DOMAIN v.map : k < i} \cup i..size(v) - 2 |->
                               IF j < i THEN v.map[j] ELSE At(v, j + 1)]]
  /\ UNCHANGED <<w, aborted>>

setComment(comment) ==
  /\ v' = [v EXCEPT !.comment = comment]
  /\ UNCHANGED <<w, removed, aborted>>

Call ==
  \/ Assign
  \/ Copy
  \/ swap
  \/ swapPayload
  \/ clear
  \/ \E n \in 0..MaxSize : resize(n)
  \/ \E i \in 0..MaxSize - 1 : Element(i) \/ removeIndex(i) \/ \E item \in Item : SetElement(i, item)
  \/ \E item \in Item : append(item)
  \/ \E key \in Key : Member(key) \/ removeMember(key) \/ \E item \in Item : SetMember(key, item)
  \/ \E comment \in Comment : setComment(comment)

Next == ~ aborted /\ Call

Spec == Init /\ [][Next]_vars

-------------------------------------------------------------------------------
(* A value that is built densely is the sequence, or the function, that    *)
(* JsonContainer describes, and each call does there what it is to do:     *)
(* indices and elements keep together.                                     *)
elements == IF v.type = "array" THEN [i \in 1..size(v) |-> At(v, i - 1)] ELSE << >>
members == IF v.type = "object" THEN v.map ELSE Empty
Container == INSTANCE JsonContainer WITH type <- v.type

IsContainer ==
  /\ Container!Spec
  /\ [][/\ clear => Container!Clear
        /\ \A n \in 0..MaxSize : resize(n) => Container!Resize(n)
        /\ \A i \in 0..MaxSize - 1 :
             /\ Element(i) => Container!Touch(i)
             /\ removeIndex(i) => Container!RemoveIndex(i)
             /\ \A item \in Item : SetElement(i, item) => Container!Put(i, item)
        /\ \A item \in Item : append(item) => Container!Put(Len(elements), item)
        /\ \A key \in Key :
             /\ removeMember(key) => Container!RemoveMember(key)
             /\ \A item \in Item : SetMember(key, item) => Container!PutMember(key, item)]_vars

(* resize() asserts that the array has the size that was asked for. *)
SizeIsAsked == ~ aborted
===============================================================================
