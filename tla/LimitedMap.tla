------------------------------ MODULE LimitedMap ------------------------------
(***************************************************************************)
(* LimitedMap (limited_map.hpp, limited_map.tpp): a std::map of price      *)
(* levels, best price first, with an iterator m_end that is moved by at    *)
(* most one position per operation so that begin() .. end() is always the  *)
(* best m_depth levels.  An iterator is the key it points to, or End for   *)
(* m_map.end(): std::map iterators stay on their element when others come  *)
(* and go.                                                                 *)
(***************************************************************************)
EXTENDS Naturals, FiniteSets

CONSTANTS
  Key,              \* template parameter Key: prices
  Value,            \* template parameter Value: amounts
  Depth,            \* m_depth
  Comparator(_, _), \* template parameter Comparator: std::less, std::greater
  End               \* the past-the-end position m_map.end()

ASSUME LimitedMapAssumption ==
  /\ Value \subseteq Nat
  /\ Depth \in Nat
  /\ End \notin Key

(* What std::map demands of its comparator, for unsigned integer keys. *)
ASSUME ComparatorAssumption ==
  /\ \A a, b \in Key : Comparator(a, b) \in BOOLEAN
  /\ \A a \in Key : ~ Comparator(a, a)
  /\ \A a, b \in Key : a = b \/ Comparator(a, b) \/ Comparator(b, a)
  /\ \A a, b, c \in Key : Comparator(a, b) /\ Comparator(b, c) => Comparator(a, c)

VARIABLES
  m_map,  \* the levels: a function from the present prices to payloads
  m_end   \* where the user's walk over the levels stops

vars == <<m_map, m_end>>

Payload == [value : Value, prev_value : Value \cup {0}]

NewPayload(v) == [value |-> v, prev_value |-> 0]

-------------------------------------------------------------------------------
(* Iterators. *)

(* k comes before position p in the map's order. *)
Before(k, p) == p = End \/ Comparator(k, p)

(* --p in a map whose keys are K. *)
Pred(K, p) ==
  CHOOSE k \in K : /\ Before(k, p)
                   /\ \A j \in K : Before(j, p) => j = k \/ Comparator(j, k)

(* ++p in a map whose keys are K. *)
Succ(K, p) ==
  LET later == {k \in K : Comparator(p, k)}
  IN  IF later = {}
      THEN End
      ELSE CHOOSE k \in later : \A j \in later : j = k \/ Comparator(k, j)

(* The levels a loop from begin() to end() visits. *)
Walk == {k \in DOMAIN m_map : Before(k, m_end)}

-------------------------------------------------------------------------------
(* Operations. *)

Init ==
  /\ m_map = << >>
  /\ m_end = End

(* update() of a present key: the old value becomes prev_value. *)
Overwrite(key, value) ==
  /\ key \in DOMAIN m_map
  /\ m_map' = [m_map EXCEPT ![key] = [value      |-> value,
                                      prev_value |-> m_map[key].value]]
  /\ UNCHANGED m_end

Inserted(key, value) ==
  [k \in DOMAIN m_map \cup {key} |->
     IF k = key THEN NewPayload(value) ELSE m_map[k]]

(* Mutant: m_end stays where it was when the new key goes in front of it. *)
EndAfterInsertLazy(K, key) ==
  IF m_end = End THEN Pred(K, End) ELSE m_end

(* Mutant: the decision is made without looking at the new key's place. *)
EndAfterInsertEager(K, key) == Pred(K, m_end)

(* Where update() leaves m_end once the map has more than m_depth keys K. *)
EndAfterInsert(K, key) ==
  CASE m_end = End                          -> Pred(K, End)
    [] m_end # End /\ Comparator(key, m_end)  -> Pred(K, m_end)
    [] m_end # End /\ ~Comparator(key, m_end) -> m_end

(* Mutant: the level that leaves the window keeps its prev_value. *)
ForgetNothing(map, k) == map

(* The level the walk now stops at is no longer shown: forget what was     *)
(* printed of it.  (When it is the new key itself the code returns early;  *)
(* its prev_value is 0 already.)                                           *)
Forget(map, k) == [map EXCEPT ![k].prev_value = 0]

(* update() of a new key. *)
Insert(key, value) ==
  LET grown == Inserted(key, value)
      K     == DOMAIN m_map \cup {key}
  IN  /\ key \notin DOMAIN m_map
      /\ \/ /\ Cardinality(K) <= Depth
            /\ m_map' = grown
            /\ m_end' = End
         \/ /\ Cardinality(K) > Depth
            /\ m_end' = EndAfterInsert(K, key)
            /\ m_map' = Forget(grown, EndAfterInsert(K, key))

Update(key, value) == Overwrite(key, value) \/ Insert(key, value)

(* Mutant: erasing the very level m_end points to does not move m_end. *)
EndAfterEraseDangling(key) ==
  IF Comparator(key, m_end) THEN Succ(DOMAIN m_map, m_end) ELSE m_end

(* Where erase() moves m_end when more than m_depth levels will remain. *)
EndAfterErase(key) ==
  IF Comparator(key, m_end) \/ key = m_end THEN Succ(DOMAIN m_map, m_end) ELSE m_end

Erase(key) ==
  \/ /\ key \notin DOMAIN m_map
     /\ UNCHANGED vars
  \/ /\ key \in DOMAIN m_map
     /\ \/ /\ Cardinality(DOMAIN m_map) - 1 <= Depth
           /\ m_end' = End
        \/ /\ Cardinality(DOMAIN m_map) - 1 > Depth
           /\ m_end' = EndAfterErase(key)
     /\ m_map' = [k \in DOMAIN m_map \ {key} |-> m_map[k]]

Clear ==
  /\ m_map' = << >>
  /\ m_end' = End

(* The user walks the levels and marks each as printed (print_level in     *)
(* order_book.cpp).                                                        *)
MarkPrinted ==
  /\ m_map' = [k \in DOMAIN m_map |->
                 IF k \in Walk
                 THEN [m_map[k] EXCEPT !.prev_value = m_map[k].value]
                 ELSE m_map[k]]
  /\ UNCHANGED m_end

Next ==
  \/ \E key \in Key, value \in Value : Update(key, value)
  \/ \E key \in Key : Erase(key)
  \/ Clear
  \/ MarkPrinted

Spec == Init /\ [][Next]_vars

-------------------------------------------------------------------------------
(* Properties. *)

(* The map holds payloads, and m_end points to an element of the map or    *)
(* past its end: it never dangles on an erased element.                    *)
TypeOK ==
  /\ DOMAIN m_map \subseteq Key
  /\ IsFiniteSet(DOMAIN m_map)
  /\ m_map \in [DOMAIN m_map -> Payload]
  /\ m_end \in DOMAIN m_map \cup {End}

(* m_end is past the end exactly while everything fits, and otherwise has  *)
(* m_depth levels before it.  erase() relies on it: it reads m_end->first  *)
(* without asking whether m_end is m_map.end().                            *)
EndMarksDepth ==
  \/ m_end = End /\ Cardinality(DOMAIN m_map) <= Depth
  \/ m_end \in DOMAIN m_map /\ Cardinality(Walk) = Depth

Table == INSTANCE TopLevels WITH
  levels <- [k \in DOMAIN m_map |-> m_map[k].value],
  window <- Walk

(* A walk from begin() to end() visits exactly the best m_depth levels,    *)
(* whatever updates and erasures came before and wherever they were.       *)
WalkIsBest == Walk = Table!Best(DOMAIN m_map)

(* A level that drops out of the window keeps no trace of what was last    *)
(* printed of it, so it counts as changed when it comes back unmodified.   *)
DroppedIsForgotten ==
  [][\A k \in Walk : k \in DOMAIN m_map' /\ ~Before(k, m_end)'
                       => m_map'[k].prev_value = 0]_vars

(* The map with the moving iterator implements the table with the          *)
(* recomputed window.                                                      *)
ImplementsTable == Table!Spec
===============================================================================
