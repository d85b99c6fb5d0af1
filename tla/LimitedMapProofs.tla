--------------------------- MODULE LimitedMapProofs ---------------------------
(***************************************************************************)
(* Proofs about LimitedMap, for every set of keys, every strict total      *)
(* order on them and every depth.                                          *)
(***************************************************************************)
EXTENDS LimitedMap, FiniteSetTheorems, TLAPS

-------------------------------------------------------------------------------
(* Positions in a finite set of keys. *)

(* A finite non-empty set that a relation R orders totally has an element  *)
(* R puts after all the others.                                            *)
LEMMA ExtremeExists ==
  ASSUME NEW R, NEW S, IsFiniteSet(S), S # {},
         \A a, b \in S : a = b \/ <<a, b>> \in R \/ <<b, a>> \in R,
         \A a, b, c \in S : <<a, b>> \in R /\ <<b, c>> \in R => <<a, c>> \in R
  PROVE  \E k \in S : \A j \in S : j = k \/ <<j, k>> \in R
<1> DEFINE HasLast(U) == \E k \in U : \A j \in U : j = k \/ <<j, k>> \in R
           Bad == {U \in FiniteSubsetsOf(S) : U # {} /\ ~ HasLast(U)}
<1>1. SUFFICES ASSUME Bad # {} PROVE FALSE
  BY DEF FiniteSubsetsOf
<1>2. IsWellFoundedOn(StrictSubsetOrdering(S), FiniteSubsetsOf(S))
  BY FS_StrictSubsetOrderingWellFounded
<1>3. PICK U \in Bad : \A V \in Bad : <<V, U>> \notin StrictSubsetOrdering(S)
  <2> HIDE DEF HasLast
  <2>1. Bad \subseteq FiniteSubsetsOf(S)
    OBVIOUS
  <2> HIDE DEF Bad
  <2> QED BY <1>1, <1>2, <2>1, WFMin
<1>4. PICK x \in U : TRUE
  OBVIOUS
<1>5. U \ {x} \in FiniteSubsetsOf(S)
  BY FS_RemoveElement DEF FiniteSubsetsOf
<1>6. <<U \ {x}, U>> \in StrictSubsetOrdering(S)
  BY <1>4 DEF StrictSubsetOrdering, FiniteSubsetsOf
<1>7. CASE U \ {x} = {}
  <2>1. U = {x}
    BY <1>7, <1>4
  <2> QED BY <2>1
<1>8. CASE U \ {x} # {}
  <2>1. HasLast(U \ {x})
    BY <1>3, <1>5, <1>6, <1>8
  <2>2. PICK k \in U \ {x} : \A j \in U \ {x} : j = k \/ <<j, k>> \in R
    BY <2>1
  <2>3. k \in S /\ x \in S /\ \A j \in U : j \in S
    BY <1>3, <1>4 DEF FiniteSubsetsOf
  <2>4. CASE <<x, k>> \in R
    <3>1. \A j \in U : j = k \/ <<j, k>> \in R
      BY <2>2, <2>4
    <3> QED BY <3>1, <2>2
  <2>5. CASE <<k, x>> \in R
    <3>1. \A j \in U : j = x \/ <<j, x>> \in R
      BY <2>2, <2>3, <2>5
    <3> QED BY <3>1, <1>4
  <2> QED BY <2>2, <2>3, <2>4, <2>5
<1> QED BY <1>7, <1>8

(* --p is the key immediately before p, whenever some key is before p.     *)
LEMMA PredIsLastBefore ==
  ASSUME NEW K \in SUBSET Key, IsFiniteSet(K), NEW p,
         \E k \in K : Before(k, p)
  PROVE  /\ Pred(K, p) \in K
         /\ Before(Pred(K, p), p)
         /\ \A j \in K : Before(j, p) => j = Pred(K, p) \/ Comparator(j, Pred(K, p))
<1> DEFINE S == {k \in K : Before(k, p)}
           R == {ab \in Key \X Key : Comparator(ab[1], ab[2])}
<1>1. \E k \in S : \A j \in S : j = k \/ <<j, k>> \in R
  <2>1. IsFiniteSet(S) /\ S # {}
    BY FS_Subset
  <2>2. \A a, b \in S : a = b \/ <<a, b>> \in R \/ <<b, a>> \in R
    BY ComparatorAssumption
  <2>3. \A a, b, c \in S : <<a, b>> \in R /\ <<b, c>> \in R => <<a, c>> \in R
    BY ComparatorAssumption
  <2> HIDE DEF S, R
  <2> QED BY <2>1, <2>2, <2>3, ExtremeExists
<1>2. \E k \in K : /\ Before(k, p)
                   /\ \A j \in K : Before(j, p) => j = k \/ Comparator(j, k)
  BY <1>1
<1> QED BY <1>2 DEF Pred

(* ++p is the key immediately after p, whenever some key is after p.       *)
LEMMA SuccIsFirstAfter ==
  ASSUME NEW K \in SUBSET Key, IsFiniteSet(K), NEW p,
         \E k \in K : Comparator(p, k)
  PROVE  /\ Succ(K, p) \in K
         /\ Comparator(p, Succ(K, p))
         /\ \A j \in K : Comparator(p, j) => j = Succ(K, p) \/ Comparator(Succ(K, p), j)
<1> DEFINE S == {k \in K : Comparator(p, k)}
           R == {ab \in Key \X Key : Comparator(ab[2], ab[1])}
<1>1. \E k \in S : \A j \in S : j = k \/ <<j, k>> \in R
  <2>1. IsFiniteSet(S) /\ S # {}
    BY FS_Subset
  <2>2. \A a, b \in S : a = b \/ <<a, b>> \in R \/ <<b, a>> \in R
    BY ComparatorAssumption
  <2>3. \A a, b, c \in S : <<a, b>> \in R /\ <<b, c>> \in R => <<a, c>> \in R
    BY ComparatorAssumption
  <2> HIDE DEF S, R
  <2> QED BY <2>1, <2>2, <2>3, ExtremeExists
<1>2. \E k \in S : \A j \in S : j = k \/ Comparator(k, j)
  BY <1>1
<1> QED BY <1>2 DEF Succ

(* Sliding the window: one key in, one key out, the same size.             *)
LEMMA RemoveOne ==
  ASSUME NEW S, IsFiniteSet(S), NEW x \in S, NEW n \in Nat, Cardinality(S) = n + 1
  PROVE  Cardinality(S \ {x}) = n
<1>1. Cardinality(S \ {x}) = Cardinality(S) - 1
  BY FS_RemoveElement
<1> QED BY <1>1

-------------------------------------------------------------------------------
(* The inductive invariant: the iterator is valid and marks the depth. *)

IInv == TypeOK /\ EndMarksDepth

(* The shape of the levels before m_end, in either kind of state.          *)
LEMMA WalkFinite ==
  ASSUME IInv
  PROVE  /\ IsFiniteSet(DOMAIN m_map) /\ Cardinality(DOMAIN m_map) \in Nat
         /\ IsFiniteSet(Walk) /\ Cardinality(Walk) \in Nat
BY FS_Subset, FS_CardinalityType DEF IInv, TypeOK, Walk

LEMMA InitEstablishes == Init => IInv
<1> SUFFICES ASSUME Init PROVE IInv
  OBVIOUS
<1>1. DOMAIN m_map = {}
  BY DEF Init
<1>2. m_map \in [{} -> Payload]
  BY <1>1 DEF Init
<1>3. IsFiniteSet({}) /\ Cardinality({}) = 0
  BY FS_EmptySet
<1> QED
  BY <1>1, <1>2, <1>3, LimitedMapAssumption DEF IInv, TypeOK, EndMarksDepth, Init

LEMMA OverwritePreserves ==
  ASSUME IInv, NEW key \in Key, NEW value \in Value, Overwrite(key, value)
  PROVE  IInv'
<1>1. DOMAIN m_map' = DOMAIN m_map /\ m_end' = m_end
  BY DEF Overwrite, IInv, TypeOK
<1>2. m_map' \in [DOMAIN m_map' -> Payload]
  BY <1>1 DEF Overwrite, IInv, TypeOK, Payload
<1>3. Walk' = Walk
  BY <1>1 DEF Walk, Before
<1> QED
  BY <1>1, <1>2, <1>3 DEF IInv, TypeOK, EndMarksDepth

(* --m_end from m_map.end(), in a map that has just outgrown the depth.    *)
LEMMA InsertFirstBeyond ==
  ASSUME IInv, NEW key \in Key, key \notin DOMAIN m_map, m_end = End,
         Cardinality(DOMAIN m_map \cup {key}) > Depth,
         NEW K, K = DOMAIN m_map \cup {key},
         NEW p, p = EndAfterInsert(K, key)
  PROVE  p \in K /\ Cardinality({k \in K : Before(k, p)}) = Depth
<1>1. K \in SUBSET Key /\ IsFiniteSet(K) /\ Cardinality(K) = Cardinality(DOMAIN m_map) + 1
  BY FS_AddElement DEF IInv, TypeOK
<1>2. Cardinality(K) = Depth + 1
  BY <1>1, LimitedMapAssumption, WalkFinite DEF IInv, TypeOK, EndMarksDepth
<1>3. p = Pred(K, End)
  BY DEF EndAfterInsert
<1>4. /\ p \in K
      /\ \A j \in K : j = p \/ Comparator(j, p)
  BY <1>1, <1>3, PredIsLastBefore DEF Before
<1>5. p # End /\ ~ Comparator(p, p)
  BY <1>1, <1>4, ComparatorAssumption, LimitedMapAssumption
<1>6. {k \in K : Before(k, p)} = K \ {p}
  BY <1>4, <1>5 DEF Before
<1> QED
  BY <1>1, <1>2, <1>4, <1>6, RemoveOne, LimitedMapAssumption

(* m_end->first steps back by one when the new key lands in front of it.   *)
LEMMA InsertBeforeEnd ==
  ASSUME IInv, NEW key \in Key, key \notin DOMAIN m_map, m_end # End,
         NEW K, K = DOMAIN m_map \cup {key},
         NEW p, p = EndAfterInsert(K, key)
  PROVE  p \in K /\ Cardinality({k \in K : Before(k, p)}) = Depth
<1>1. K \in SUBSET Key /\ IsFiniteSet(K) /\ m_end \in K /\ m_end \in Key
  BY FS_AddElement DEF IInv, TypeOK
<1>2. Cardinality(Walk) = Depth /\ key \notin Walk /\ IsFiniteSet(Walk)
  BY WalkFinite DEF IInv, EndMarksDepth, Walk
<1>3. Walk = {k \in DOMAIN m_map : Comparator(k, m_end)}
  BY DEF Walk, Before
<1>4. CASE ~ Comparator(key, m_end)
  <2>1. p = m_end
    BY <1>4 DEF EndAfterInsert
  <2>2. {k \in K : Before(k, p)} = Walk
    BY <1>3, <1>4, <2>1 DEF Before
  <2> QED BY <1>1, <1>2, <2>1, <2>2
<1>5. CASE Comparator(key, m_end)
  <2>1. p = Pred(K, m_end)
    BY <1>5 DEF EndAfterInsert
  <2>2. /\ p \in K
        /\ Before(p, m_end)
        /\ \A j \in K : Before(j, m_end) => j = p \/ Comparator(j, p)
    BY <1>1, <1>5, <2>1, PredIsLastBefore DEF Before
  <2>3. p \in Key /\ p # End /\ ~ Comparator(p, p) /\ Comparator(p, m_end)
    BY <1>1, <2>2, ComparatorAssumption, LimitedMapAssumption DEF Before
  <2>4. \A k \in K : Comparator(k, p) => Comparator(k, m_end)
    BY <1>1, <2>3, ComparatorAssumption
  <2>5. {k \in K : Before(k, p)} = (Walk \cup {key}) \ {p}
    BY <1>3, <1>5, <2>2, <2>3, <2>4 DEF Before
  <2>6. p \in Walk \cup {key}
    BY <1>3, <2>2, <2>3
  <2>7. /\ IsFiniteSet(Walk \cup {key})
        /\ Cardinality(Walk \cup {key}) = Depth + 1
    BY <1>2, FS_AddElement
  <2>8. Cardinality((Walk \cup {key}) \ {p}) = Depth
    BY <2>6, <2>7, RemoveOne, LimitedMapAssumption
  <2> QED BY <2>2, <2>5, <2>8
<1> QED BY <1>4, <1>5

LEMMA InsertPreserves ==
  ASSUME IInv, NEW key \in Key, NEW value \in Value, Insert(key, value)
  PROVE  IInv'
<1> DEFINE K == DOMAIN m_map \cup {key}
           grown == Inserted(key, value)
<1>1. key \notin DOMAIN m_map /\ K \subseteq Key /\ IsFiniteSet(K)
  BY FS_AddElement DEF Insert, IInv, TypeOK
<1>2. grown \in [K -> Payload]
  BY LimitedMapAssumption DEF Inserted, NewPayload, Payload, IInv, TypeOK
<1>3. CASE Cardinality(K) <= Depth /\ m_map' = grown /\ m_end' = End
  <2>1. DOMAIN m_map' = K
    BY <1>2, <1>3
  <2> QED BY <1>1, <1>2, <1>3, <2>1 DEF IInv, TypeOK, EndMarksDepth
<1>4. CASE /\ Cardinality(K) > Depth
           /\ m_end' = EndAfterInsert(K, key)
           /\ m_map' = Forget(grown, EndAfterInsert(K, key))
  <2>1. m_map' \in [K -> Payload] /\ DOMAIN m_map' = K
    BY <1>2, <1>4 DEF Forget, Payload
  <2>2. m_end' \in K /\ Cardinality({k \in K : Before(k, m_end')}) = Depth
    <3>1. CASE m_end = End
      BY <1>1, <1>4, <3>1, InsertFirstBeyond
    <3>2. CASE m_end # End
      BY <1>1, <1>4, <3>2, InsertBeforeEnd
    <3> QED BY <3>1, <3>2
  <2>3. Walk' = {k \in K : Before(k, m_end')}
    BY <2>1 DEF Walk, Before
  <2> QED BY <1>1, <2>1, <2>2, <2>3 DEF IInv, TypeOK, EndMarksDepth
<1> QED BY <1>3, <1>4 DEF Insert

(* ++m_end when the erased key is at or before it: a later key exists, and *)
(* the walk keeps its length.                                              *)
LEMMA EraseBeyond ==
  ASSUME IInv, NEW key \in DOMAIN m_map, Cardinality(DOMAIN m_map) - 1 > Depth,
         NEW p, p = EndAfterErase(key)
  PROVE  /\ p \in DOMAIN m_map \ {key}
         /\ Cardinality({k \in DOMAIN m_map \ {key} : Before(k, p)}) = Depth
<1> DEFINE D == DOMAIN m_map
<1>1. D \subseteq Key /\ IsFiniteSet(D) /\ Cardinality(D) \in Nat /\ Depth \in Nat
  BY WalkFinite, LimitedMapAssumption DEF IInv, TypeOK
<1>2. /\ m_end \in D /\ m_end # End /\ Cardinality(Walk) = Depth
      /\ IsFiniteSet(Walk)
  BY <1>1, WalkFinite, LimitedMapAssumption DEF IInv, EndMarksDepth
<1>3. Walk = {k \in D : Comparator(k, m_end)}
  BY <1>2 DEF Walk, Before
<1>4. m_end \notin Walk
  BY <1>1, <1>2, <1>3, ComparatorAssumption
<1>5. /\ IsFiniteSet(Walk \cup {m_end})
      /\ Cardinality(Walk \cup {m_end}) = Depth + 1
  BY <1>2, <1>4, FS_AddElement
<1>6. CASE Comparator(key, m_end) \/ key = m_end
  <2>1. \E k \in D : Comparator(m_end, k)
    <3>1. D # Walk \cup {m_end}
      BY <1>1, <1>5
    <3>2. PICK k \in D : k \notin Walk \cup {m_end}
      BY <1>2, <1>3, <3>1
    <3> QED BY <1>1, <1>2, <1>3, <3>2, ComparatorAssumption
  <2>2. p = Succ(D, m_end)
    BY <1>6 DEF EndAfterErase
  <2>3. /\ p \in D
        /\ Comparator(m_end, p)
        /\ \A j \in D : Comparator(m_end, j) => j = p \/ Comparator(p, j)
    BY <1>1, <2>1, <2>2, SuccIsFirstAfter
  <2>4. p # key /\ p # End /\ p # m_end
    BY <1>1, <1>2, <1>6, <2>3, ComparatorAssumption, LimitedMapAssumption
  <2>5. \A k \in D : Comparator(k, p) <=> k \in Walk \cup {m_end}
    BY <1>1, <1>2, <1>3, <2>3, ComparatorAssumption
  <2>6. {k \in D \ {key} : Before(k, p)} = (Walk \cup {m_end}) \ {key}
    BY <1>2, <1>3, <2>4, <2>5 DEF Before
  <2>7. key \in Walk \cup {m_end}
    BY <1>3, <1>6
  <2>8. Cardinality((Walk \cup {m_end}) \ {key}) = Depth
    BY <1>1, <1>5, <2>7, RemoveOne
  <2> QED BY <2>3, <2>4, <2>6, <2>8
<1>7. CASE ~ Comparator(key, m_end) /\ key # m_end
  <2>1. p = m_end
    BY <1>7 DEF EndAfterErase
  <2>2. {k \in D \ {key} : Before(k, p)} = Walk
    BY <1>2, <1>3, <1>7, <2>1 DEF Before
  <2> QED BY <1>2, <1>7, <2>1, <2>2
<1> QED BY <1>6, <1>7

LEMMA ErasePreserves ==
  ASSUME IInv, NEW key \in Key, Erase(key)
  PROVE  IInv'
<1> DEFINE D == DOMAIN m_map \ {key}
<1>1. CASE UNCHANGED vars
  BY <1>1 DEF vars, IInv, TypeOK, EndMarksDepth, Walk, Before
<1>2. CASE /\ key \in DOMAIN m_map
           /\ m_map' = [k \in D |-> m_map[k]]
           /\ \/ Cardinality(DOMAIN m_map) - 1 <= Depth /\ m_end' = End
              \/ Cardinality(DOMAIN m_map) - 1 > Depth /\ m_end' = EndAfterErase(key)
  <2>1. /\ D \subseteq Key /\ IsFiniteSet(D)
        /\ Cardinality(D) = Cardinality(DOMAIN m_map) - 1
    BY <1>2, FS_RemoveElement DEF IInv, TypeOK
  <2>2. m_map' \in [D -> Payload] /\ DOMAIN m_map' = D
    BY <1>2 DEF IInv, TypeOK
  <2>3. CASE Cardinality(DOMAIN m_map) - 1 <= Depth /\ m_end' = End
    BY <2>1, <2>2, <2>3 DEF IInv, TypeOK, EndMarksDepth
  <2>4. CASE Cardinality(DOMAIN m_map) - 1 > Depth /\ m_end' = EndAfterErase(key)
    <3>1. m_end' \in D /\ Cardinality({k \in D : Before(k, m_end')}) = Depth
      BY <1>2, <2>4, EraseBeyond
    <3>2. Walk' = {k \in D : Before(k, m_end')}
      BY <2>2 DEF Walk, Before
    <3> QED BY <2>1, <2>2, <3>1, <3>2 DEF IInv, TypeOK, EndMarksDepth
  <2> QED BY <1>2, <2>3, <2>4
<1> QED BY <1>1, <1>2 DEF Erase

LEMMA ClearPreserves == Clear => IInv'
<1> SUFFICES ASSUME Clear PROVE IInv'
  OBVIOUS
<1>1. DOMAIN m_map' = {} /\ m_map' \in [{} -> Payload] /\ m_end' = End
  BY DEF Clear
<1>2. IsFiniteSet({}) /\ Cardinality({}) = 0
  BY FS_EmptySet
<1> QED BY <1>1, <1>2, LimitedMapAssumption DEF IInv, TypeOK, EndMarksDepth

LEMMA MarkPrintedPreserves ==
  ASSUME IInv, MarkPrinted
  PROVE  IInv'
<1>1. DOMAIN m_map' = DOMAIN m_map /\ m_end' = m_end
  BY DEF MarkPrinted
<1>2. m_map' \in [DOMAIN m_map' -> Payload]
  BY <1>1 DEF MarkPrinted, IInv, TypeOK, Payload
<1>3. Walk' = Walk
  BY <1>1 DEF Walk, Before
<1> QED BY <1>1, <1>2, <1>3 DEF IInv, TypeOK, EndMarksDepth

LEMMA StepPreserves == IInv /\ [Next]_vars => IInv'
<1> SUFFICES ASSUME IInv, [Next]_vars PROVE IInv'
  OBVIOUS
<1>1. CASE \E key \in Key, value \in Value : Update(key, value)
  BY <1>1, OverwritePreserves, InsertPreserves DEF Update
<1>2. CASE \E key \in Key : Erase(key)
  BY <1>2, ErasePreserves
<1>3. CASE Clear
  BY <1>3, ClearPreserves
<1>4. CASE MarkPrinted
  BY <1>4, MarkPrintedPreserves
<1>5. CASE UNCHANGED vars
  BY <1>5 DEF vars, IInv, TypeOK, EndMarksDepth, Walk, Before
<1> QED BY <1>1, <1>2, <1>3, <1>4, <1>5 DEF Next

LEMMA Invariance == Spec => []IInv
<1> QED BY InitEstablishes, StepPreserves, PTL DEF Spec

(* m_end is always m_map.end() or an element of the map (limited_map.tpp   *)
(* update, erase, clear): no operation leaves it on an erased element.     *)
THEOREM TypeCorrect == Spec => []TypeOK
<1>1. IInv => TypeOK
  BY DEF IInv
<1> QED BY <1>1, Invariance, PTL

(* m_end has m_depth levels before it, or is m_map.end() when there are    *)
(* not more than m_depth: in particular erase() never reads through        *)
(* m_map.end(), which it does not check.                                   *)
THEOREM EndAlwaysMarksDepth == Spec => []EndMarksDepth
<1>1. IInv => EndMarksDepth
  BY DEF IInv
<1> QED BY <1>1, Invariance, PTL

-------------------------------------------------------------------------------
(* The window is the best m_depth levels. *)

LEMMA InvariantGivesBest ==
  ASSUME IInv
  PROVE  WalkIsBest
<1> DEFINE D == DOMAIN m_map
           Better(k) == {j \in D : Comparator(j, k)}
<1>1. /\ D \subseteq Key /\ IsFiniteSet(D) /\ Depth \in Nat
      /\ IsFiniteSet(Walk) /\ Walk \subseteq D
      /\ Cardinality(D) \in Nat /\ Cardinality(Walk) \in Nat
  BY WalkFinite, LimitedMapAssumption DEF IInv, TypeOK, Walk
<1>2. \A k \in D : IsFiniteSet(Better(k)) /\ Cardinality(Better(k)) \in Nat
  BY <1>1, FS_Subset, FS_CardinalityType
<1>3. ASSUME NEW k \in Walk PROVE Cardinality(Better(k)) < Depth
  <2>1. Better(k) \subseteq Walk \ {k}
    <3>1. CASE m_end = End
      BY <1>1, <3>1, ComparatorAssumption DEF Walk, Before
    <3>2. CASE m_end \in D
      BY <1>1, <3>2, ComparatorAssumption, LimitedMapAssumption DEF Walk, Before
    <3> QED BY <3>1, <3>2 DEF IInv, TypeOK
  <2>2. /\ IsFiniteSet(Walk \ {k})
        /\ Cardinality(Walk \ {k}) = Cardinality(Walk) - 1
    BY <1>1, FS_RemoveElement
  <2>3. Cardinality(Better(k)) <= Cardinality(Walk \ {k})
    BY <2>1, <2>2, FS_Subset
  <2>4. Cardinality(Walk) <= Depth
    <3>1. CASE m_end = End
      <4>1. Walk = D
        BY <3>1 DEF Walk, Before
      <4> QED BY <3>1, <4>1, LimitedMapAssumption DEF IInv, TypeOK, EndMarksDepth
    <3>2. CASE m_end \in D
      BY <1>1, <3>2, LimitedMapAssumption DEF IInv, EndMarksDepth
    <3> QED BY <3>1, <3>2 DEF IInv, TypeOK
  <2>5. Cardinality(Better(k)) \in Nat
    BY <1>1, <1>2
  <2> HIDE DEF Better
  <2> QED BY <1>1, <2>2, <2>3, <2>4, <2>5
<1>4. ASSUME NEW k \in D, k \notin Walk PROVE Cardinality(Better(k)) >= Depth
  <2>1. m_end \in D /\ m_end # End /\ Cardinality(Walk) = Depth
    BY <1>1, <1>4, LimitedMapAssumption DEF IInv, TypeOK, EndMarksDepth, Walk, Before
  <2>2. k = m_end \/ Comparator(m_end, k)
    BY <1>1, <1>4, <2>1, ComparatorAssumption DEF Walk, Before
  <2>3. Walk \subseteq Better(k)
    BY <1>1, <2>1, <2>2, ComparatorAssumption DEF Walk, Before
  <2>4. Cardinality(Walk) <= Cardinality(Better(k))
    BY <1>2, <2>3, FS_Subset
  <2> QED BY <1>1, <1>2, <2>1, <2>4
<1>5. Table!Best(D) = {k \in D : Cardinality(Better(k)) < Depth}
  <2>1. \A S : Table!Cardinality(S) = Cardinality(S)
    BY DEF Table!Cardinality, Cardinality
  <2> QED BY <2>1 DEF Table!Best
<1>6. Walk = {k \in D : Cardinality(Better(k)) < Depth}
  BY <1>1, <1>2, <1>3, <1>4
<1> QED BY <1>5, <1>6 DEF WalkIsBest

(* Whatever the order of updates and erasures, a walk from begin() to      *)
(* end() visits exactly the levels that fewer than m_depth levels beat.    *)
THEOREM WalkAlwaysBest == Spec => []WalkIsBest
<1> QED BY InvariantGivesBest, Invariance, PTL

-------------------------------------------------------------------------------
(* LimitedMap implements the table of levels with its window. *)

(* The refinement mapping of the table. *)
Levels == [k \in DOMAIN m_map |-> m_map[k].value]

LEMMA InitMapsToInit ==
  ASSUME Init
  PROVE  Table!Init
<1>1. DOMAIN m_map = {}
  BY DEF Init
<1>2. Levels = << >>
  BY <1>1 DEF Levels
<1>3. Walk = {}
  BY <1>1 DEF Walk
<1> QED BY <1>2, <1>3 DEF Table!Init, Levels

LEMMA UpdateMapsToSet ==
  ASSUME IInv, WalkIsBest', NEW key \in Key, NEW value \in Value, Update(key, value)
  PROVE  Table!Set(key, value)
<1>1. DOMAIN m_map' = DOMAIN m_map \cup {key}
  BY DEF Update, Overwrite, Insert, Inserted, Forget, IInv, TypeOK
<1>2. \A k \in DOMAIN m_map' :
        m_map'[k].value = IF k = key THEN value ELSE m_map[k].value
  <2>1. CASE Overwrite(key, value)
    BY <2>1 DEF Overwrite, IInv, TypeOK
  <2>2. CASE Insert(key, value)
    <3>1. \A k \in DOMAIN m_map \cup {key} :
            Inserted(key, value)[k].value = IF k = key THEN value ELSE m_map[k].value
      BY DEF Inserted, NewPayload
    <3>2. Inserted(key, value) \in [DOMAIN m_map \cup {key} -> Payload]
      BY LimitedMapAssumption DEF Inserted, NewPayload, Payload, IInv, TypeOK
    <3> QED BY <2>2, <3>1, <3>2, <1>1 DEF Insert, Forget, Payload
  <2> QED BY <2>1, <2>2 DEF Update
<1>3. Levels' = Table!With(Levels, key, value)
  BY <1>1, <1>2 DEF Levels, Table!With
<1>4. DOMAIN Levels' = DOMAIN m_map'
  BY DEF Levels
<1> QED BY <1>3, <1>4 DEF Table!Set, WalkIsBest, Levels

LEMMA EraseMapsToRemove ==
  ASSUME IInv, WalkIsBest', NEW key \in Key, Erase(key)
  PROVE  Table!Remove(key)
<1>1. m_map' = [k \in DOMAIN m_map \ {key} |-> m_map[k]]
  <2>1. CASE key \notin DOMAIN m_map
    BY <2>1 DEF Erase, vars, IInv, TypeOK
  <2>2. CASE key \in DOMAIN m_map
    BY <2>2 DEF Erase
  <2> QED BY <2>1, <2>2
<1>2. Levels' = Table!Without(Levels, key)
  BY <1>1 DEF Levels, Table!Without
<1>3. DOMAIN Levels' = DOMAIN m_map'
  BY DEF Levels
<1> QED BY <1>2, <1>3 DEF Table!Remove, WalkIsBest, Levels

LEMMA StepMapsToStep ==
  ASSUME IInv, WalkIsBest', [Next]_vars
  PROVE  [Table!Next]_(Table!vars)
<1>1. CASE \E key \in Key, value \in Value : Update(key, value)
  BY <1>1, UpdateMapsToSet DEF Table!Next
<1>2. CASE \E key \in Key : Erase(key)
  BY <1>2, EraseMapsToRemove DEF Table!Next
<1>3. CASE Clear
  <2>1. DOMAIN m_map' = {}
    BY <1>3 DEF Clear
  <2>2. Levels' = << >> /\ Walk' = {}
    BY <2>1 DEF Levels, Walk
  <2> QED BY <2>2 DEF Table!Next, Table!RemoveAll, Levels
<1>4. CASE MarkPrinted
  <2>1. DOMAIN m_map' = DOMAIN m_map /\ m_end' = m_end
    BY <1>4 DEF MarkPrinted
  <2>2. Walk' = Walk
    BY <2>1 DEF Walk, Before
  <2>3. \A k \in DOMAIN m_map : m_map'[k].value = m_map[k].value
    BY <1>4 DEF MarkPrinted, IInv, TypeOK, Payload
  <2>4. Levels' = Levels
    BY <2>1, <2>3 DEF Levels
  <2> QED BY <2>2, <2>4 DEF Table!vars, Levels
<1>5. CASE UNCHANGED vars
  BY <1>5 DEF vars, Table!vars, Walk, Before
<1> QED BY <1>1, <1>2, <1>3, <1>4, <1>5 DEF Next

(* Seen through begin() and end(), the map and its moving iterator behave  *)
(* as a plain table of levels whose window is recomputed at every step.    *)
THEOREM Implementation == Spec => ImplementsTable
<1>1. Init => Table!Init
  BY InitMapsToInit
<1>2. IInv /\ IInv' /\ [Next]_vars => [Table!Next]_(Table!vars)
  <2>1. IInv' => WalkIsBest'
    BY InvariantGivesBest, PTL
  <2> QED BY <2>1, StepMapsToStep
<1> QED BY <1>1, <1>2, Invariance, PTL DEF Spec, ImplementsTable, Table!Spec

-------------------------------------------------------------------------------
(* What leaves the window. *)

LEMMA InsertDropsForgotten ==
  ASSUME IInv, NEW key \in Key, NEW value \in Value, Insert(key, value),
         NEW k \in Walk, ~ Before(k, m_end')
  PROVE  m_map'[k].prev_value = 0
<1> DEFINE K == DOMAIN m_map \cup {key}
           grown == Inserted(key, value)
           p == EndAfterInsert(K, key)
<1>1. /\ m_end' = p /\ m_map' = Forget(grown, p)
      /\ DOMAIN grown = K /\ k \in K
  BY DEF Insert, Before, Inserted, Walk
<1>2. K \in SUBSET Key /\ IsFiniteSet(K)
  BY FS_AddElement DEF IInv, TypeOK
<1>3. ASSUME NEW q, p = Pred(K, q), Before(k, q)
      PROVE  p = k
  <2>1. k = Pred(K, q) \/ Comparator(k, Pred(K, q))
    BY <1>1, <1>2, <1>3, PredIsLastBefore
  <2> QED
    BY <2>1, <1>1, <1>3 DEF Before
<1>4. p = k
  <2>1. CASE m_end = End
    BY <2>1, <1>3 DEF EndAfterInsert, Before
  <2>2. CASE m_end # End /\ Comparator(key, m_end)
    BY <2>2, <1>3 DEF EndAfterInsert, Walk
  <2>3. CASE m_end # End /\ ~ Comparator(key, m_end)
    BY <2>3, <1>1 DEF EndAfterInsert, Walk
  <2> QED
    BY <2>1, <2>2, <2>3
<1>5. grown[k] \in [value : Value, prev_value : Value \cup {0}]
  BY <1>1 DEF Inserted, NewPayload, IInv, TypeOK, Payload, Walk
<1> QED
  BY <1>1, <1>4, <1>5 DEF Forget

LEMMA EraseDropsNothing ==
  ASSUME IInv, NEW key \in Key, Erase(key),
         NEW k \in Walk, k \in DOMAIN m_map'
  PROVE  Before(k, m_end')
<1>1. k \in DOMAIN m_map /\ Before(k, m_end) /\ DOMAIN m_map \in SUBSET Key /\ IsFiniteSet(DOMAIN m_map)
  BY DEF Walk, IInv, TypeOK
<1>2. CASE m_end' = m_end \/ m_end' = End
  BY <1>1, <1>2 DEF Before
<1>3. CASE m_end' = Succ(DOMAIN m_map, m_end) /\ m_end' # End /\ m_end # End
  <2>1. \E j \in DOMAIN m_map : Comparator(m_end, j)
    BY <1>3 DEF Succ
  <2>2. Comparator(m_end, m_end') /\ m_end' \in Key /\ m_end \in Key
    BY <1>1, <1>3, <2>1, SuccIsFirstAfter DEF IInv, TypeOK
  <2> QED
    BY <1>1, <1>3, <2>2, ComparatorAssumption DEF Before
<1>4. m_end = End => Cardinality(DOMAIN m_map) <= Depth
  BY LimitedMapAssumption DEF IInv, TypeOK, EndMarksDepth
<1>5. m_end = End /\ key \in DOMAIN m_map => Cardinality(DOMAIN m_map) - 1 <= Depth
  BY <1>4, WalkFinite, LimitedMapAssumption
<1> QED
  BY <1>2, <1>3, <1>5, WalkFinite, LimitedMapAssumption DEF Erase, EndAfterErase, vars

(* A level that drops out of the window keeps no trace of what was last    *)
(* printed of it, whatever made it drop out.                               *)
THEOREM DroppedAlwaysForgotten == Spec => DroppedIsForgotten
<1> DEFINE Forgets == \A k \in Walk : k \in DOMAIN m_map' /\ ~Before(k, m_end)'
                                      => m_map'[k].prev_value = 0
<1>1. IInv /\ [Next]_vars => [Forgets]_vars
  <2> SUFFICES ASSUME IInv, Next, NEW k \in Walk, k \in DOMAIN m_map', ~ Before(k, m_end)'
               PROVE  m_map'[k].prev_value = 0
    OBVIOUS
  <2>1. ASSUME NEW key \in Key, NEW value \in Value, Update(key, value)
        PROVE  m_map'[k].prev_value = 0
    <3>1. CASE Overwrite(key, value)
      BY <3>1 DEF Overwrite, Walk, Before
    <3>2. CASE Insert(key, value)
      BY <3>2, InsertDropsForgotten DEF Before
    <3> QED
      BY <2>1, <3>1, <3>2 DEF Update
  <2>2. ASSUME NEW key \in Key, Erase(key)
        PROVE  m_map'[k].prev_value = 0
    BY <2>2, EraseDropsNothing DEF Before
  <2>3. CASE Clear
    BY <2>3 DEF Clear
  <2>4. CASE MarkPrinted
    BY <2>4 DEF MarkPrinted, Walk, Before
  <2> QED
    BY <2>1, <2>2, <2>3, <2>4 DEF Next
<1> QED
  BY <1>1, Invariance, PTL DEF Spec, DroppedIsForgotten
===============================================================================
