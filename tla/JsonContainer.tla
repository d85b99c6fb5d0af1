----------------------------- MODULE JsonContainer -----------------------------
(***************************************************************************)
(* What a Json::Value promises to be: nothing, a scalar, a sequence of     *)
(* elements, or a function from names to members.                          *)
(***************************************************************************)
EXTENDS Naturals, Sequences, SequencesExt

CONSTANTS Item, Key, MaxSize

VARIABLES type, elements, members
container == <<type, elements, members>>

NoMembers == [k \in {} |-> "null"]

Init == type = "null" /\ elements = << >> /\ members = NoMembers

Padded(s, n) == [i \in 1..n |-> IF i <= Len(s) THEN s[i] ELSE "null"]

IsSequence == type \in {"null", "array"}
IsFunction == type \in {"null", "object"}

(* Any value may be assigned. *)
Assign ==
  /\ type' \in {"null", "scalar", "array", "object"}
  /\ elements' \in IF type' = "array" THEN BoundedSeq(Item, MaxSize) ELSE {<< >>}
  /\ members' \in IF type' = "object" THEN UNION {[S -> Item] : S \in SUBSET Key} ELSE {NoMembers}

Clear == elements' = << >> /\ members' = NoMembers /\ UNCHANGED type

Resize(n) ==
  /\ IsSequence /\ type' = "array"
  /\ elements' = Padded(elements, n)
  /\ UNCHANGED members

(* v[i], and v[i] = x *)
Touch(i) == Resize(IF i < Len(elements) THEN Len(elements) ELSE i + 1)
Put(i, x) ==
  /\ IsSequence /\ type' = "array"
  /\ elements' = [Padded(elements, IF i < Len(elements) THEN Len(elements) ELSE i + 1)
                    EXCEPT ![i + 1] = x]
  /\ UNCHANGED members

RemoveIndex(i) ==
  /\ type = "array" /\ i < Len(elements)
  /\ elements' = RemoveAt(elements, i + 1)
  /\ UNCHANGED <<type, members>>

PutMember(k, x) ==
  /\ IsFunction /\ type' = "object"
  /\ members' = [j \in DOMAIN members \cup {k} |-> IF j = k THEN x ELSE members[j]]
  /\ UNCHANGED elements

RemoveMember(k) ==
  /\ type = "object"
  /\ members' = [j \in DOMAIN members \ {k} |-> members[j]]
  /\ UNCHANGED <<type, elements>>

Next ==
  \/ Assign
  \/ Clear
  \/ \E n \in 0..MaxSize : Resize(n)
  \/ \E i \in 0..MaxSize - 1 : Touch(i) \/ RemoveIndex(i) \/ \E x \in Item : Put(i, x)
  \/ \E k \in Key : RemoveMember(k) \/ \E x \in Item : PutMember(k, x)

Spec == Init /\ [][Next]_container
===============================================================================
