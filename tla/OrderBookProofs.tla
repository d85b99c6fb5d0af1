--------------------------- MODULE OrderBookProofs ---------------------------
(***************************************************************************)
(* Proofs about OrderBook and its display, for every set of prices,        *)
(* amounts and timestamps and every depth.                                 *)
(*                                                                         *)
(* Nothing proved of LimitedMap can be cited for its two instances, so     *)
(* what a side does is restated for a side s, "BUY" or "SELL", of which    *)
(* only the order of the prices depends (Better); that either instance     *)
(* does just that are the two lemmas BidsUpdate and AsksUpdate.            *)
(***************************************************************************)
EXTENDS OrderBookDisplay, FiniteSetTheorems, TLAPS

Side == {"BUY", "SELL"}

(* A payload, in the terms of this module. *)
Level == [value : Stored, prev_value : Stored \cup {0}]

(* A map of levels, whatever their order. *)
IsLevels(map) == DOMAIN map \subseteq Price /\ map \in [DOMAIN map -> Level]

Ledger == [amount : [Side -> [Price -> Amount]], time : Timestamp \cup {0}]

-------------------------------------------------------------------------------
(* The prices of a side. *)

Better(s, a, b) == IF s = "BUY" THEN a > b ELSE a < b

(* k comes before position p. *)
Prior(s, k, p) == p = End \/ Better(s, k, p)

(* The levels between begin() and the position e. *)
Shown(s, K, e) == {k \in K : Prior(s, k, e)}

(* Position e marks the depth of the prices K. *)
Placed(s, K, e) ==
  /\ K \subseteq Price /\ IsFiniteSet(K)
  /\ \/ e = End /\ Cardinality(K) <= Depth
     \/ e \in K /\ Cardinality(Shown(s, K, e)) = Depth

(* k is the last price of K before p, and the first after it. *)
Latest(s, K, p, k) ==
  /\ k \in K /\ Prior(s, k, p)
  /\ \A j \in K : Prior(s, j, p) => j = k \/ Better(s, j, k)

Earliest(s, K, p, k) ==
  /\ k \in K /\ Better(s, p, k)
  /\ \A j \in K : Better(s, p, j) => j = k \/ Better(s, k, j)

LEMMA BetterIsOrder ==
  ASSUME NEW s \in Side
  PROVE  /\ \A a \in Price : ~ Better(s, a, a)
         /\ \A a, b \in Price : a = b \/ Better(s, a, b) \/ Better(s, b, a)
         /\ \A a, b, c \in Price : Better(s, a, b) /\ Better(s, b, c) => Better(s, a, c)
         /\ \A a, b \in Price : Better(s, a, b) => ~ Better(s, b, a)
BY OrderBookAssumption DEF Better

(* A finite non-empty set that a relation R orders totally has an element  *)
(* R puts after all the others.                                            *)
LEMMA ExtremeExists ==
  ASSUME NEW R, NEW S, IsFiniteSet(S), S # {},
         \A a, b \in S : a = b \/ <<a, b>> \in R \/ <<b, a>> \in R,
         \A a, b, c \in S : <<a, b>> \in R /\ <<b, c>> \in R => <<a, c>> \in R
  PROVE  \E k \in S : \A j \in S : j = k \/ <<j, k>> \in R
<1> DEFINE HasLast(U) == \E k \in U : \A j \in U : j = k \/ <<j, k>> \in R
           Bad == {U \in FiniteSubsetsOf(S) : U # {} /\ ~ HasLast(U)}
<1>1. SUFFICES ASSUME Bad # {} PROVE FALSE
  BY DEF FiniteSubsetsOf
<1>2. IsWellFoundedOn(StrictSubsetOrdering(S), FiniteSubsetsOf(S))
  BY FS_StrictSubsetOrderingWellFounded
<1>3. PICK U \in Bad : \A V \in Bad : <<V, U>> \notin StrictSubsetOrdering(S)
  <2> HIDE DEF HasLast
  <2>1. Bad \subseteq FiniteSubsetsOf(S)
    OBVIOUS
  <2> HIDE DEF Bad
  <2> QED BY <1>1, <1>2, <2>1, WFMin
<1>4. PICK x \in U : TRUE
  OBVIOUS
<1>5. U \ {x} \in FiniteSubsetsOf(S)
  BY FS_RemoveElement DEF FiniteSubsetsOf
<1>6. <<U \ {x}, U>> \in StrictSubsetOrdering(S)
  BY <1>4 DEF StrictSubsetOrdering, FiniteSubsetsOf
<1>7. CASE U \ {x} = {}
  <2>1. U = {x}
    BY <1>7, <1>4
  <2> QED BY <2>1
<1>8. CASE U \ {x} # {}
  <2>1. HasLast(U \ {x})
    BY <1>3, <1>5, <1>6, <1>8
  <2>2. PICK k \in U \ {x} : \A j \in U \ {x} : j = k \/ <<j, k>> \in R
    BY <2>1
  <2>3. k \in S /\ x \in S /\ \A j \in U : j \in S
    BY <1>3, <1>4 DEF FiniteSubsetsOf
  <2>4. CASE <<x, k>> \in R
    <3>1. \A j \in U : j = k \/ <<j, k>> \in R
      BY <2>2, <2>4
    <3> QED BY <3>1, <2>2
  <2>5. CASE <<k, x>> \in R
    <3>1. \A j \in U : j = x \/ <<j, x>> \in R
      BY <2>2, <2>3, <2>5
    <3> QED BY <3>1, <1>4
  <2> QED BY <2>2, <2>3, <2>4, <2>5
<1> QED BY <1>7, <1>8

(* Sliding the window: one key in, one key out, the same size.             *)
LEMMA RemoveOne ==
  ASSUME NEW S, IsFiniteSet(S), NEW x \in S, NEW n \in Nat, Cardinality(S) = n + 1
  PROVE  Cardinality(S \ {x}) = n
<1>1. Cardinality(S \ {x}) = Cardinality(S) - 1
  BY FS_RemoveElement
<1> QED BY <1>1

LEMMA LatestExists ==
  ASSUME NEW s \in Side, NEW K, K \subseteq Price, IsFiniteSet(K), NEW p,
         \E k \in K : Prior(s, k, p)
  PROVE  \E k : Latest(s, K, p, k)
<1> DEFINE S == {k \in K : Prior(s, k, p)}
           R == {ab \in Price \X Price : Better(s, ab[1], ab[2])}
<1>1. IsFiniteSet(S) /\ S # {}
  BY FS_Subset
<1>2. \A a, b \in S : a = b \/ <<a, b>> \in R \/ <<b, a>> \in R
  BY BetterIsOrder
<1>3. \A a, b, c \in S : <<a, b>> \in R /\ <<b, c>> \in R => <<a, c>> \in R
  BY BetterIsOrder
<1>4. \E k \in S : \A j \in S : j = k \/ <<j, k>> \in R
  <2> HIDE DEF S, R
  <2> QED
    BY <1>1, <1>2, <1>3, ExtremeExists
<1> QED
  BY <1>4 DEF Latest

LEMMA EarliestExists ==
  ASSUME NEW s \in Side, NEW K, K \subseteq Price, IsFiniteSet(K), NEW p,
         \E k \in K : Better(s, p, k)
  PROVE  \E k : Earliest(s, K, p, k)
<1> DEFINE S == {k \in K : Better(s, p, k)}
           R == {ab \in Price \X Price : Better(s, ab[2], ab[1])}
<1>1. IsFiniteSet(S) /\ S # {}
  BY FS_Subset
<1>2. \A a, b \in S : a = b \/ <<a, b>> \in R \/ <<b, a>> \in R
  BY BetterIsOrder
<1>3. \A a, b, c \in S : <<a, b>> \in R /\ <<b, c>> \in R => <<a, c>> \in R
  BY BetterIsOrder
<1>4. \E k \in S : \A j \in S : j = k \/ <<j, k>> \in R
  <2> HIDE DEF S, R
  <2> QED
    BY <1>1, <1>2, <1>3, ExtremeExists
<1> QED
  BY <1>4 DEF Earliest

LEMMA ShownFinite ==
  ASSUME NEW s, NEW K, NEW e, IsFiniteSet(K)
  PROVE  /\ IsFiniteSet(Shown(s, K, e)) /\ Cardinality(Shown(s, K, e)) \in Nat
         /\ Cardinality(K) \in Nat /\ Shown(s, K, e) \subseteq K
BY FS_Subset, FS_CardinalityType DEF Shown

-------------------------------------------------------------------------------
(* Positions that keep marking the depth. *)

(* A new price, and the window one more than it: the position steps back   *)
(* when the price lands in front of it.  Only the level it then points to  *)
(* leaves the window.                                                      *)
LEMMA PlacedAfterInsert ==
  ASSUME NEW s \in Side, NEW K, NEW e, Placed(s, K, e),
         NEW p \in Price, p \notin K, NEW e2,
         NEW L, L = K \cup {p}, Cardinality(L) > Depth,
         IF e = End \/ Better(s, p, e) THEN Latest(s, L, e, e2) ELSE e2 = e
  PROVE  /\ Placed(s, L, e2) /\ e2 \in L
         /\ \A k \in K : Prior(s, k, e) /\ ~ Prior(s, k, e2) => k = e2
<1>1. /\ L \subseteq Price /\ IsFiniteSet(L) /\ Cardinality(L) = Cardinality(K) + 1
      /\ K \subseteq Price /\ IsFiniteSet(K) /\ Cardinality(K) \in Nat
      /\ Depth \in Nat /\ End \notin Price
  BY FS_AddElement, ShownFinite, OrderBookAssumption DEF Placed
<1>2. CASE e = End
  <2>1. Cardinality(L) = Depth + 1
    BY <1>1, <1>2 DEF Placed
  <2>2. e2 \in L /\ \A j \in L : j = e2 \/ Better(s, j, e2)
    BY <1>2 DEF Latest, Prior
  <2>3. e2 # End /\ ~ Better(s, e2, e2)
    BY <1>1, <2>2, BetterIsOrder
  <2>4. Shown(s, L, e2) = L \ {e2}
    BY <2>2, <2>3 DEF Shown, Prior
  <2>5. Cardinality(Shown(s, L, e2)) = Depth
    BY <1>1, <2>1, <2>2, <2>4, RemoveOne
  <2> QED
    BY <1>1, <2>2, <2>5 DEF Placed, Prior
<1>3. CASE e # End
  <2>1. e \in K /\ e \in Price /\ Cardinality(Shown(s, K, e)) = Depth
    BY <1>1, <1>3 DEF Placed
  <2>2. IsFiniteSet(Shown(s, K, e)) /\ Shown(s, K, e) = {k \in K : Better(s, k, e)}
    <3>1. IsFiniteSet(Shown(s, K, e))
      BY <1>1, ShownFinite
    <3>2. Shown(s, K, e) = {k \in K : Better(s, k, e)}
      BY <1>3 DEF Shown, Prior
    <3> QED
      BY <3>1, <3>2
  <2>3. CASE ~ Better(s, p, e)
    <3>1. e2 = e
      BY <1>3, <2>3
    <3>2. Shown(s, L, e2) = Shown(s, K, e)
      BY <1>3, <2>3, <3>1 DEF Shown, Prior
    <3> QED
      BY <1>1, <2>1, <3>1, <3>2 DEF Placed
  <2>4. CASE Better(s, p, e)
    <3>1. /\ e2 \in L /\ Better(s, e2, e)
          /\ \A j \in L : Better(s, j, e) => j = e2 \/ Better(s, j, e2)
      BY <1>3, <2>4 DEF Latest, Prior
    <3>2. e2 \in Price /\ e2 # End /\ ~ Better(s, e2, e2)
      BY <1>1, <3>1, BetterIsOrder
    <3>3. \A k \in L : Better(s, k, e2) => Better(s, k, e)
      BY <1>1, <2>1, <3>1, <3>2, BetterIsOrder
    <3>4. Shown(s, L, e2) = (Shown(s, K, e) \cup {p}) \ {e2}
      BY <2>2, <2>4, <3>1, <3>2, <3>3 DEF Shown, Prior
    <3>5. /\ e2 \in Shown(s, K, e) \cup {p}
          /\ IsFiniteSet(Shown(s, K, e) \cup {p})
          /\ Cardinality(Shown(s, K, e) \cup {p}) = Depth + 1
      BY <2>1, <2>2, <3>1, FS_AddElement
    <3>6. Cardinality(Shown(s, L, e2)) = Depth
      <4>1. PICK S : S = Shown(s, K, e) \cup {p}
        OBVIOUS
      <4>2. Cardinality(S \ {e2}) = Depth
        BY <1>1, <3>5, <4>1, RemoveOne
      <4> QED
        BY <3>4, <4>1, <4>2
    <3> QED
      BY <1>1, <1>3, <3>1, <3>2, <3>6 DEF Placed, Prior
  <2> QED
    BY <2>3, <2>4
<1> QED
  BY <1>2, <1>3

(* A price less, and still more than the window: the position steps on     *)
(* when the price was at or before it.  No level leaves the window.        *)
LEMMA PlacedAfterErase ==
  ASSUME NEW s \in Side, NEW K, NEW e, Placed(s, K, e),
         NEW p \in K, Cardinality(K) - 1 > Depth, NEW e2,
         IF Better(s, p, e) \/ p = e
         THEN (\E j \in K : Better(s, e, j)) => Earliest(s, K, e, e2)
         ELSE e2 = e
  PROVE  /\ Placed(s, K \ {p}, e2)
         /\ \A k \in K \ {p} : Prior(s, k, e) => Prior(s, k, e2)
<1> DEFINE W == Shown(s, K, e)
<1>1. /\ K \subseteq Price /\ IsFiniteSet(K) /\ Cardinality(K) \in Nat
      /\ Depth \in Nat /\ End \notin Price /\ IsFiniteSet(K \ {p})
  BY FS_RemoveElement, ShownFinite, OrderBookAssumption DEF Placed
<1>2. /\ e \in K /\ e \in Price /\ e # End /\ Cardinality(W) = Depth /\ IsFiniteSet(W)
      /\ W = {k \in K : Better(s, k, e)}
  <2>1. e \in K /\ e \in Price /\ e # End /\ Cardinality(W) = Depth
    BY <1>1 DEF Placed
  <2>2. IsFiniteSet(W)
    BY <1>1, ShownFinite
  <2>3. W = {k \in K : Better(s, k, e)}
    BY <2>1 DEF Shown, Prior
  <2> QED
    BY <2>1, <2>2, <2>3
<1>3. e \notin W
  BY <1>1, <1>2, BetterIsOrder
<1>4. IsFiniteSet(W \cup {e}) /\ Cardinality(W \cup {e}) = Depth + 1
  BY <1>2, <1>3, FS_AddElement
<1>5. CASE Better(s, p, e) \/ p = e
  <2>1. \E k \in K : Better(s, e, k)
    <3>1. K # W \cup {e}
      <4> HIDE DEF W
      <4> SUFFICES ASSUME K = W \cup {e} PROVE FALSE
        OBVIOUS
      <4> QED
        BY <1>1, <1>4
    <3>2. PICK k \in K : k \notin W \cup {e}
      BY <1>2, <3>1
    <3> QED
      BY <1>1, <1>2, <3>2, BetterIsOrder
  <2>2. /\ e2 \in K /\ Better(s, e, e2)
        /\ \A j \in K : Better(s, e, j) => j = e2 \/ Better(s, e2, j)
    BY <1>5, <2>1 DEF Earliest
  <2>3. e2 # p /\ e2 # End /\ e2 # e /\ e2 \in Price /\ p \in Price
    BY <1>1, <1>2, <1>5, <2>2, BetterIsOrder
  <2>4. \A k \in K : Better(s, k, e2) <=> k \in W \cup {e}
    BY <1>1, <1>2, <2>2, <2>3, BetterIsOrder
  <2>5. Shown(s, K \ {p}, e2) = (W \cup {e}) \ {p}
    BY <1>2, <2>3, <2>4 DEF Shown, Prior
  <2>6. p \in W \cup {e}
    BY <1>2, <1>5
  <2>7. Cardinality(Shown(s, K \ {p}, e2)) = Depth
    <3>1. PICK S : S = W \cup {e}
      OBVIOUS
    <3>2. Cardinality(S \ {p}) = Depth
      BY <1>1, <1>4, <2>6, <3>1, RemoveOne
    <3> QED
      BY <2>5, <3>1, <3>2
  <2> QED
    BY <1>1, <1>2, <2>2, <2>3, <2>4, <2>7 DEF Placed, Prior
<1>6. CASE ~ (Better(s, p, e) \/ p = e)
  <2>1. e2 = e
    BY <1>6
  <2>2. Shown(s, K \ {p}, e2) = W
    BY <1>2, <1>6, <2>1 DEF Shown, Prior
  <2> QED
    BY <1>1, <1>2, <1>6, <2>1, <2>2 DEF Placed
<1> QED
  BY <1>5, <1>6

(* What lies before such a position are the levels that fewer than Depth   *)
(* levels beat.                                                            *)
LEMMA PlacedShowsBest ==
  ASSUME NEW s \in Side, NEW K, NEW e, Placed(s, K, e)
  PROVE  Shown(s, K, e) = {k \in K : Cardinality({j \in K : Better(s, j, k)}) < Depth}
<1> DEFINE W == Shown(s, K, e)
           Beats(k) == {j \in K : Better(s, j, k)}
<1>1. /\ K \subseteq Price /\ IsFiniteSet(K) /\ Cardinality(K) \in Nat
      /\ Depth \in Nat /\ End \notin Price
      /\ IsFiniteSet(W) /\ Cardinality(W) \in Nat /\ W \subseteq K
  BY ShownFinite, OrderBookAssumption DEF Placed
<1>2. \A k \in K : IsFiniteSet(Beats(k)) /\ Cardinality(Beats(k)) \in Nat
  BY <1>1, FS_Subset, FS_CardinalityType
<1>3. ASSUME NEW k \in W PROVE Cardinality(Beats(k)) < Depth
  <2>1. Beats(k) \subseteq W \ {k}
    BY <1>1, BetterIsOrder DEF Shown, Prior, Placed
  <2>2. IsFiniteSet(W \ {k}) /\ Cardinality(W \ {k}) = Cardinality(W) - 1
    BY <1>1, FS_RemoveElement
  <2>3. Cardinality(Beats(k)) <= Cardinality(W \ {k})
    BY <2>1, <2>2, FS_Subset
  <2>4. Cardinality(W) <= Depth
    <3>1. e = End => W = K
      BY DEF Shown, Prior
    <3> QED
      BY <1>1, <3>1 DEF Placed
  <2>5. Cardinality(Beats(k)) \in Nat
    BY <1>1, <1>2
  <2> HIDE DEF W, Beats
  <2> QED
    BY <1>1, <2>2, <2>3, <2>4, <2>5
<1>4. ASSUME NEW k \in K, k \notin W PROVE Cardinality(Beats(k)) >= Depth
  <2>1. e \in K /\ e # End /\ Cardinality(W) = Depth
    BY <1>1, <1>4 DEF Placed, Shown, Prior
  <2>2. k = e \/ Better(s, e, k)
    BY <1>1, <1>4, <2>1, BetterIsOrder DEF Shown, Prior
  <2>3. W \subseteq Beats(k)
    BY <1>1, <2>1, <2>2, BetterIsOrder DEF Shown, Prior
  <2>4. Cardinality(W) <= Cardinality(Beats(k))
    BY <1>2, <2>3, FS_Subset
  <2> QED
    BY <1>1, <1>2, <2>1, <2>4
<1> HIDE DEF Beats
<1>5. W = {k \in K : Cardinality(Beats(k)) < Depth}
  BY <1>1, <1>2, <1>3, <1>4
<1> QED
  BY <1>5 DEF Beats

(* While there is a level, one is shown: main() makes the book with a      *)
(* depth of at least one.                                                  *)
LEMMA SomethingShown ==
  ASSUME NEW s \in Side, NEW K, NEW e, Placed(s, K, e)
  PROVE  Shown(s, K, e) = {} <=> K = {}
<1>1. CASE e = End
  BY <1>1 DEF Shown, Prior
<1>2. CASE e \in K /\ Cardinality(Shown(s, K, e)) = Depth
  BY <1>2, FS_EmptySet, OrderBookAssumption
<1> QED
  BY <1>1, <1>2 DEF Placed

-------------------------------------------------------------------------------
(* One map. *)

(* What was printed of a level is set, its amount stays. *)
Marked(l, v) == [value |-> l.value, prev_value |-> v]

LEMMA LevelMarked ==
  ASSUME NEW l \in Level, NEW v \in Stored \cup {0}
  PROVE  [l EXCEPT !.prev_value = v] = Marked(l, v)
BY DEF Level, Marked

(* What a new amount does to a map of levels, and to the table of its      *)
(* amounts.                                                                *)
LEMMA AmountSet ==
  ASSUME NEW map, IsLevels(map), NEW grown, NEW p \in Price, NEW v \in Stored,
         DOMAIN grown = DOMAIN map \cup {p},
         \A k \in DOMAIN grown : grown[k].value = IF k = p THEN v ELSE map[k].value
  PROVE  AmountAt(grown) = [AmountAt(map) EXCEPT ![p] = v]
BY DEF AmountAt, IsLevels

LEMMA AmountRemoved ==
  ASSUME NEW map, IsLevels(map), NEW p \in Price, NEW less,
         less = [k \in DOMAIN map \ {p} |-> map[k]]
  PROVE  /\ IsLevels(less)
         /\ AmountAt(less) = [AmountAt(map) EXCEPT ![p] = 0]
BY DEF AmountAt, IsLevels

(* update() of a present price. *)
LEMMA AmountOverwritten ==
  ASSUME NEW map, IsLevels(map), NEW p \in DOMAIN map, NEW v \in Stored, NEW map2,
         map2 = [map EXCEPT ![p] = [value |-> v, prev_value |-> map[p].value]]
  PROVE  /\ IsLevels(map2)
         /\ AmountAt(map2) = [AmountAt(map) EXCEPT ![p] = v]
<1>1. map[p].value \in Stored /\ p \in Price
  BY DEF IsLevels, Level
<1>2. /\ DOMAIN map2 = DOMAIN map \cup {p} /\ DOMAIN map2 = DOMAIN map
      /\ \A k \in DOMAIN map2 : map2[k] = IF k = p THEN [value |-> v, prev_value |-> map[p].value]
                                                   ELSE map[k]
  OBVIOUS
<1>3. IsLevels(map2)
  BY <1>1, <1>2 DEF IsLevels, Level
<1>4. \A k \in DOMAIN map2 : map2[k].value = IF k = p THEN v ELSE map[k].value
  BY <1>2
<1>5. AmountAt(map2) = [AmountAt(map) EXCEPT ![p] = v]
  BY <1>1, <1>2, <1>4 DEF AmountAt
<1> QED
  BY <1>3, <1>5

(* update() of a new price, before the level beyond the window forgets     *)
(* what was printed of it.                                                 *)
LEMMA AmountInserted ==
  ASSUME NEW map, IsLevels(map), NEW p \in Price, p \notin DOMAIN map, NEW v \in Stored,
         NEW grown,
         grown = [k \in DOMAIN map \cup {p} |->
                    IF k = p THEN [value |-> v, prev_value |-> 0] ELSE map[k]]
  PROVE  /\ IsLevels(grown)
         /\ AmountAt(grown) = [AmountAt(map) EXCEPT ![p] = v]
<1>1. /\ DOMAIN grown = DOMAIN map \cup {p} /\ grown \in [DOMAIN grown -> Level]
      /\ \A k \in DOMAIN grown : grown[k].value = IF k = p THEN v ELSE map[k].value
  BY DEF IsLevels, Level
<1>2. IsLevels(grown)
  BY <1>1 DEF IsLevels
<1>3. AmountAt(grown) = [AmountAt(map) EXCEPT ![p] = v]
  BY <1>1, AmountSet
<1> QED
  BY <1>2, <1>3

(* That level, which may be any, keeps its amount. *)
LEMMA AmountKept ==
  ASSUME NEW map, IsLevels(map), NEW map2, DOMAIN map2 = DOMAIN map,
         \A j \in DOMAIN map : \/ map2[j] = map[j]
                               \/ \E v \in Stored \cup {0} : map2[j] = Marked(map[j], v),
         map2 = [j \in DOMAIN map |-> map2[j]]
  PROVE  IsLevels(map2) /\ AmountAt(map2) = AmountAt(map)
<1>1. ASSUME NEW j \in DOMAIN map
      PROVE  map2[j] \in Level /\ map2[j].value = map[j].value
  <2>1. map[j] \in Level
    BY DEF IsLevels
  <2>2. CASE map2[j] = map[j]
    BY <2>1, <2>2
  <2>3. ASSUME NEW v \in Stored \cup {0}, map2[j] = Marked(map[j], v)
        PROVE  map2[j] \in Level /\ map2[j].value = map[j].value
    BY <2>1, <2>3 DEF Level, Marked
  <2> QED
    BY <2>2, <2>3
<1>2. map2 \in [DOMAIN map -> Level]
  BY <1>1
<1> QED
  BY <1>1, <1>2 DEF IsLevels, AmountAt

-------------------------------------------------------------------------------
(* One side. *)

Overwritten(map, p, v) == [map EXCEPT ![p] = [value |-> v, prev_value |-> map[p].value]]

Grown(map, p, v) ==
  [k \in DOMAIN map \cup {p} |-> IF k = p THEN [value |-> v, prev_value |-> 0] ELSE map[k]]

Forgotten(map, k) == [map EXCEPT ![k].prev_value = 0]

Without(map, p) == [k \in DOMAIN map \ {p} |-> map[k]]

(* LimitedMap::update(). *)
Inserts(s, map, e, map2, e2, p, v) ==
  LET K == DOMAIN map \cup {p}
  IN  \/ Cardinality(K) <= Depth /\ map2 = Grown(map, p, v) /\ e2 = End
      \/ /\ Cardinality(K) > Depth /\ map2 = Forgotten(Grown(map, p, v), e2)
         /\ IF e = End \/ Better(s, p, e) THEN Latest(s, K, e, e2) ELSE e2 = e

Updates(s, map, e, map2, e2, p, v) ==
  \/ p \in DOMAIN map /\ map2 = Overwritten(map, p, v) /\ e2 = e
  \/ p \notin DOMAIN map /\ Inserts(s, map, e, map2, e2, p, v)

(* LimitedMap::erase(). *)
Erases(s, map, e, map2, e2, p) ==
  LET K == DOMAIN map
  IN  \/ p \notin K /\ map2 = map /\ e2 = e
      \/ /\ p \in K /\ map2 = Without(map, p)
         /\ IF Cardinality(K) - 1 <= Depth THEN e2 = End
            ELSE IF Better(s, p, e) \/ p = e
            THEN (\E j \in K : Better(s, e, j)) => Earliest(s, K, e, e2)
            ELSE e2 = e

(* OrderBook::add() on one side. *)
Sets(s, map, e, map2, e2, p, v) ==
  IF v = 0 THEN Erases(s, map, e, map2, e2, p) ELSE Updates(s, map, e, map2, e2, p, v)

(* What was printed of the other levels stays, but of one that leaves the  *)
(* window, which is forgotten.                                             *)
OthersKept(s, map, e, map2, e2, p) ==
  \A k \in DOMAIN map2 \ {p} :
    /\ k \in DOMAIN map /\ map2[k].value = map[k].value
    /\ map2[k].prev_value = map[k].prev_value \/ map2[k].prev_value = 0
    /\ Prior(s, k, e) /\ ~ Prior(s, k, e2) => map2[k].prev_value = 0

(* The level set remembers the amount it had, unless it is new. *)
LevelSet(map, map2, p, v) ==
  p \in DOMAIN map2 =>
    /\ v # 0 /\ map2[p].value = v
    /\ map2[p].prev_value = IF p \in DOMAIN map THEN map[p].value ELSE 0

LEMMA AfterOverwrite ==
  ASSUME NEW s \in Side, NEW map, IsLevels(map), NEW e, Placed(s, DOMAIN map, e),
         NEW p \in DOMAIN map, NEW v \in Stored, NEW map2, map2 = Overwritten(map, p, v)
  PROVE  /\ IsLevels(map2) /\ Placed(s, DOMAIN map2, e)
         /\ AmountAt(map2) = [AmountAt(map) EXCEPT ![p] = v]
         /\ OthersKept(s, map, e, map2, e, p) /\ LevelSet(map, map2, p, v)
<1>1. IsLevels(map2) /\ AmountAt(map2) = [AmountAt(map) EXCEPT ![p] = v]
  BY AmountOverwritten DEF Overwritten
<1>2. /\ DOMAIN map2 = DOMAIN map
      /\ \A k \in DOMAIN map : k # p => map2[k] = map[k]
      /\ map2[p] = [value |-> v, prev_value |-> map[p].value]
  BY DEF Overwritten
<1>3. OthersKept(s, map, e, map2, e, p)
  BY <1>2 DEF OthersKept
<1>4. LevelSet(map, map2, p, v)
  BY <1>2 DEF LevelSet, Stored
<1> QED
  BY <1>1, <1>2, <1>3, <1>4

LEMMA AfterInsert ==
  ASSUME NEW s \in Side, NEW map, IsLevels(map), NEW e, Placed(s, DOMAIN map, e),
         NEW p \in Price, p \notin DOMAIN map, NEW v \in Stored, NEW map2, NEW e2,
         Inserts(s, map, e, map2, e2, p, v)
  PROVE  /\ IsLevels(map2) /\ Placed(s, DOMAIN map2, e2)
         /\ AmountAt(map2) = [AmountAt(map) EXCEPT ![p] = v]
         /\ OthersKept(s, map, e, map2, e2, p) /\ LevelSet(map, map2, p, v)
<1>0. PICK K : K = DOMAIN map \cup {p}
  OBVIOUS
<1>1. PICK grown : grown = Grown(map, p, v)
  OBVIOUS
<1>2. /\ DOMAIN grown = K
      /\ \A k \in K : grown[k] = IF k = p THEN [value |-> v, prev_value |-> 0] ELSE map[k]
  BY <1>0, <1>1 DEF Grown
<1>3. IsLevels(grown) /\ AmountAt(grown) = [AmountAt(map) EXCEPT ![p] = v]
  BY <1>1, AmountInserted DEF Grown
<1>4. K \subseteq Price /\ IsFiniteSet(K)
  BY <1>0, FS_AddElement DEF Placed
<1>5. v # 0
  BY DEF Stored
<1>6. CASE Cardinality(K) <= Depth /\ map2 = grown /\ e2 = End
  <2>1. Placed(s, DOMAIN map2, e2)
    BY <1>2, <1>4, <1>6 DEF Placed
  <2>2. OthersKept(s, map, e, map2, e2, p) /\ LevelSet(map, map2, p, v)
    BY <1>0, <1>2, <1>5, <1>6 DEF OthersKept, LevelSet, Prior
  <2> QED
    BY <1>3, <1>6, <2>1, <2>2
<1>7. CASE /\ Cardinality(K) > Depth /\ map2 = Forgotten(grown, e2)
           /\ IF e = End \/ Better(s, p, e) THEN Latest(s, K, e, e2) ELSE e2 = e
  <2>1. /\ Placed(s, K, e2) /\ e2 \in K
        /\ \A k \in DOMAIN map : Prior(s, k, e) /\ ~ Prior(s, k, e2) => k = e2
    <3>1. PICK D : D = DOMAIN map
      OBVIOUS
    <3> QED
      BY <1>0, <1>7, <3>1, PlacedAfterInsert
  <2>2. \A k \in K : grown[k] \in Level
    BY <1>2, <1>3 DEF IsLevels
  <2>3. /\ DOMAIN map2 = K /\ map2 = [k \in K |-> map2[k]]
        /\ \A k \in K : map2[k] = IF k = e2 THEN [grown[k] EXCEPT !.prev_value = 0] ELSE grown[k]
    BY <1>2, <1>7 DEF Forgotten
  <2>4. \A k \in K : map2[k] = IF k = e2 THEN Marked(grown[k], 0) ELSE grown[k]
    BY <2>2, <2>3, LevelMarked
  <2>5. IsLevels(map2) /\ AmountAt(map2) = AmountAt(grown)
    BY <1>2, <1>3, <2>3, <2>4, AmountKept
  <2>6. \A k \in K : /\ map2[k].value = grown[k].value
                     /\ map2[k].prev_value = IF k = e2 THEN 0 ELSE grown[k].prev_value
    <3>1. /\ \A l : Marked(l, 0).value = l.value /\ Marked(l, 0).prev_value = 0
      BY DEF Marked
    <3> SUFFICES ASSUME NEW k \in K
                 PROVE  /\ map2[k].value = grown[k].value
                        /\ map2[k].prev_value = IF k = e2 THEN 0 ELSE grown[k].prev_value
      OBVIOUS
    <3>2. CASE k = e2
      BY <2>4, <3>1, <3>2
    <3>3. CASE k # e2
      BY <2>4, <3>3
    <3> QED
      BY <3>2, <3>3
  <2>7. OthersKept(s, map, e, map2, e2, p)
    BY <1>0, <1>2, <2>1, <2>3, <2>6 DEF OthersKept
  <2>8. LevelSet(map, map2, p, v)
    BY <1>2, <1>5, <2>3, <2>6 DEF LevelSet
  <2> QED
    BY <1>3, <2>1, <2>3, <2>5, <2>7, <2>8
<1> QED
  BY <1>0, <1>1, <1>6, <1>7 DEF Inserts

LEMMA AfterErase ==
  ASSUME NEW s \in Side, NEW map, IsLevels(map), NEW e, Placed(s, DOMAIN map, e),
         NEW p \in Price, NEW map2, NEW e2, Erases(s, map, e, map2, e2, p)
  PROVE  /\ IsLevels(map2) /\ Placed(s, DOMAIN map2, e2)
         /\ AmountAt(map2) = [AmountAt(map) EXCEPT ![p] = 0]
         /\ OthersKept(s, map, e, map2, e2, p) /\ p \notin DOMAIN map2
<1>1. CASE p \notin DOMAIN map /\ map2 = map /\ e2 = e
  <2>1. AmountAt(map2) = [AmountAt(map) EXCEPT ![p] = 0]
    BY <1>1 DEF AmountAt
  <2> QED
    BY <1>1, <2>1 DEF OthersKept
<1>2. CASE p \in DOMAIN map /\ map2 = Without(map, p)
  <2>1. IsLevels(map2) /\ AmountAt(map2) = [AmountAt(map) EXCEPT ![p] = 0]
    BY <1>2, AmountRemoved DEF Without
  <2>2. DOMAIN map2 = DOMAIN map \ {p} /\ \A k \in DOMAIN map2 : map2[k] = map[k]
    BY <1>2 DEF Without
  <2>3. PICK K : K = DOMAIN map
    OBVIOUS
  <2>4. /\ Placed(s, K \ {p}, e2)
        /\ \A k \in K \ {p} : Prior(s, k, e) => Prior(s, k, e2)
    <3>1. /\ K \subseteq Price /\ IsFiniteSet(K) /\ IsFiniteSet(K \ {p})
          /\ Cardinality(K \ {p}) = Cardinality(K) - 1 /\ Cardinality(K) \in Nat
      BY <1>2, <2>3, FS_RemoveElement, FS_CardinalityType DEF Placed
    <3>2. CASE Cardinality(K) - 1 <= Depth /\ e2 = End
      BY <3>1, <3>2 DEF Placed, Prior
    <3>3. CASE /\ Cardinality(K) - 1 > Depth
               /\ IF Better(s, p, e) \/ p = e
                  THEN (\E j \in K : Better(s, e, j)) => Earliest(s, K, e, e2)
                  ELSE e2 = e
      <4>1. p \in K /\ Placed(s, K, e)
        BY <1>2, <2>3
      <4> QED
        BY <3>3, <4>1, PlacedAfterErase
    <3> QED
      BY <1>2, <2>3, <3>1, <3>2, <3>3, OrderBookAssumption DEF Erases
  <2> QED
    BY <2>1, <2>2, <2>3, <2>4 DEF OthersKept
<1> QED
  BY <1>1, <1>2 DEF Erases

LEMMA AfterSet ==
  ASSUME NEW s \in Side, NEW map, IsLevels(map), NEW e, Placed(s, DOMAIN map, e),
         NEW p \in Price, NEW v \in Amount, NEW map2, NEW e2,
         Sets(s, map, e, map2, e2, p, v)
  PROVE  /\ IsLevels(map2) /\ Placed(s, DOMAIN map2, e2)
         /\ AmountAt(map2) = [AmountAt(map) EXCEPT ![p] = v]
         /\ OthersKept(s, map, e, map2, e2, p) /\ LevelSet(map, map2, p, v)
<1>1. CASE v = 0
  BY <1>1, AfterErase DEF Sets, LevelSet
<1>2. CASE v # 0 /\ p \in DOMAIN map /\ map2 = Overwritten(map, p, v) /\ e2 = e
  BY <1>2, AfterOverwrite DEF Stored
<1>3. CASE v # 0 /\ p \notin DOMAIN map /\ Inserts(s, map, e, map2, e2, p, v)
  BY <1>3, AfterInsert DEF Stored
<1> QED
  BY <1>1, <1>2, <1>3 DEF Sets, Updates

(* print() on one side. *)
Prints(s, map, e, map2) ==
  /\ DOMAIN map2 = DOMAIN map
  /\ \A k \in DOMAIN map :
       map2[k] = IF k \in Shown(s, DOMAIN map, e) THEN Marked(map[k], map[k].value) ELSE map[k]

LEMMA AfterPrint ==
  ASSUME NEW s \in Side, NEW map, IsLevels(map), NEW e, NEW map2,
         Prints(s, map, e, map2), map2 = [k \in DOMAIN map |-> map2[k]]
  PROVE  IsLevels(map2) /\ AmountAt(map2) = AmountAt(map)
<1>1. \A k \in DOMAIN map : map[k].value \in Stored
  BY DEF IsLevels, Level
<1> QED
  BY <1>1, AmountKept DEF Prints

-------------------------------------------------------------------------------
(* Either side of the book is such a side. *)

EndOf(s) == IF s = "BUY" THEN bid_end ELSE ask_end

LEMMA BidsNeighbours ==
  ASSUME NEW K, K \subseteq Price, IsFiniteSet(K), NEW q
  PROVE  /\ (\E k \in K : Prior("BUY", k, q)) => Latest("BUY", K, q, Bids!Pred(K, q))
         /\ (\E k \in K : Better("BUY", q, k)) => Earliest("BUY", K, q, Bids!Succ(K, q))
<1>1. ASSUME \E k \in K : Prior("BUY", k, q)
      PROVE  Latest("BUY", K, q, Bids!Pred(K, q))
  <2>1. \E k : Latest("BUY", K, q, k)
    BY <1>1, LatestExists DEF Side
  <2> QED
    BY <2>1 DEF Latest, Prior, Better, Bids!Pred, Bids!Before, Greater
<1>2. ASSUME \E k \in K : Better("BUY", q, k)
      PROVE  Earliest("BUY", K, q, Bids!Succ(K, q))
  <2>1. \E k : Earliest("BUY", K, q, k)
    BY <1>2, EarliestExists DEF Side
  <2> QED
    BY <1>2, <2>1 DEF Earliest, Better, Bids!Succ, Greater
<1> QED
  BY <1>1, <1>2

LEMMA AsksNeighbours ==
  ASSUME NEW K, K \subseteq Price, IsFiniteSet(K), NEW q
  PROVE  /\ (\E k \in K : Prior("SELL", k, q)) => Latest("SELL", K, q, Asks!Pred(K, q))
         /\ (\E k \in K : Better("SELL", q, k)) => Earliest("SELL", K, q, Asks!Succ(K, q))
<1>1. ASSUME \E k \in K : Prior("SELL", k, q)
      PROVE  Latest("SELL", K, q, Asks!Pred(K, q))
  <2>1. \E k : Latest("SELL", K, q, k)
    BY <1>1, LatestExists DEF Side
  <2> QED
    BY <2>1 DEF Latest, Prior, Better, Asks!Pred, Asks!Before, Less
<1>2. ASSUME \E k \in K : Better("SELL", q, k)
      PROVE  Earliest("SELL", K, q, Asks!Succ(K, q))
  <2>1. \E k : Earliest("SELL", K, q, k)
    BY <1>2, EarliestExists DEF Side
  <2> QED
    BY <1>2, <2>1 DEF Earliest, Better, Asks!Succ, Less
<1> QED
  BY <1>1, <1>2

LEMMA BidsUpdate ==
  ASSUME IsLevels(bid_map), Placed("BUY", DOMAIN bid_map, bid_end),
         NEW o \in Order, UpdateBids(o)
  PROVE  Sets("BUY", bid_map, bid_end, bid_map', bid_end', o.price, o.amount)
<1>1. PICK p \in Price, v \in Amount : p = o.price /\ v = o.amount
  BY OrderBookAssumption DEF Order
<1>2. \A S : Bids!Cardinality(S) = Cardinality(S)
  BY DEF Bids!Cardinality, Cardinality
<1>3. PICK K : K = DOMAIN bid_map /\ K \subseteq Price /\ IsFiniteSet(K) /\ IsFiniteSet(K \cup {p})
  BY FS_AddElement DEF Placed
<1>4. CASE v = 0 /\ Bids!Erase(p)
  <2>1. CASE p \notin K
    BY <1>1, <1>3, <1>4, <2>1 DEF Bids!Erase, Bids!vars, Sets, Erases
  <2>2. CASE p \in K
    <3>1. /\ bid_map' = Without(bid_map, p)
          /\ IF Cardinality(K) - 1 <= Depth THEN bid_end' = End ELSE bid_end' = Bids!EndAfterErase(p)
      BY <1>2, <1>3, <1>4, <2>2, FS_CardinalityType, OrderBookAssumption DEF Bids!Erase, Without
    <3>2. Bids!EndAfterErase(p) = IF Better("BUY", p, bid_end) \/ p = bid_end
                                  THEN Bids!Succ(K, bid_end) ELSE bid_end
      BY <1>3 DEF Bids!EndAfterErase, Better, Greater
    <3>3. (\E k \in K : Better("BUY", bid_end, k)) => Earliest("BUY", K, bid_end, Bids!Succ(K, bid_end))
      BY <1>3, BidsNeighbours
    <3> QED
      BY <1>1, <1>3, <1>4, <2>2, <3>1, <3>2, <3>3 DEF Sets, Erases
  <2> QED
    BY <2>1, <2>2
<1>5. CASE v # 0 /\ Bids!Overwrite(p, v)
  BY <1>1, <1>5 DEF Bids!Overwrite, Sets, Updates, Overwritten
<1>6. CASE v # 0 /\ Bids!Insert(p, v)
  <2>1. PICK L : L = K \cup {p} /\ L \subseteq Price /\ IsFiniteSet(L) /\ p \in L
    BY <1>3
  <2>2. Bids!Inserted(p, v) = Grown(bid_map, p, v)
    BY DEF Bids!Inserted, Bids!NewPayload, Grown
  <2>3. /\ p \notin K
        /\ \/ Cardinality(L) <= Depth /\ bid_map' = Grown(bid_map, p, v) /\ bid_end' = End
           \/ /\ Cardinality(L) > Depth /\ bid_end' = Bids!EndAfterInsert(L, p)
              /\ bid_map' = Forgotten(Grown(bid_map, p, v), bid_end')
    BY <1>2, <1>3, <1>6, <2>1, <2>2 DEF Bids!Insert, Bids!Forget, Forgotten
  <2>4. IF bid_end = End \/ Better("BUY", p, bid_end)
        THEN Latest("BUY", L, bid_end, Bids!EndAfterInsert(L, p))
        ELSE Bids!EndAfterInsert(L, p) = bid_end
    <3>1. CASE bid_end = End
      BY <2>1, <3>1, BidsNeighbours DEF Bids!EndAfterInsert, Prior
    <3>2. CASE bid_end # End /\ Better("BUY", p, bid_end)
      <4>1. Bids!EndAfterInsert(L, p) = Bids!Pred(L, bid_end)
        BY <3>2 DEF Bids!EndAfterInsert, Better, Greater
      <4>2. \E k \in L : Prior("BUY", k, bid_end)
        BY <2>1, <3>2 DEF Prior
      <4> QED
        BY <2>1, <3>2, <4>1, <4>2, BidsNeighbours
    <3>3. CASE bid_end # End /\ ~ Better("BUY", p, bid_end)
      BY <3>3 DEF Bids!EndAfterInsert, Better, Greater
    <3> QED
      BY <3>1, <3>2, <3>3
  <2>5. Inserts("BUY", bid_map, bid_end, bid_map', bid_end', p, v)
    BY <1>3, <2>1, <2>3, <2>4 DEF Inserts
  <2> QED
    BY <1>1, <1>3, <1>6, <2>3, <2>5 DEF Sets, Updates
<1> QED
  BY <1>1, <1>4, <1>5, <1>6 DEF UpdateBids, Bids!Update

LEMMA AsksUpdate ==
  ASSUME IsLevels(ask_map), Placed("SELL", DOMAIN ask_map, ask_end),
         NEW o \in Order, UpdateAsks(o)
  PROVE  Sets("SELL", ask_map, ask_end, ask_map', ask_end', o.price, o.amount)
<1>1. PICK p \in Price, v \in Amount : p = o.price /\ v = o.amount
  BY OrderBookAssumption DEF Order
<1>2. \A S : Asks!Cardinality(S) = Cardinality(S)
  BY DEF Asks!Cardinality, Cardinality
<1>3. PICK K : K = DOMAIN ask_map /\ K \subseteq Price /\ IsFiniteSet(K) /\ IsFiniteSet(K \cup {p})
  BY FS_AddElement DEF Placed
<1>4. CASE v = 0 /\ Asks!Erase(p)
  <2>1. CASE p \notin K
    BY <1>1, <1>3, <1>4, <2>1 DEF Asks!Erase, Asks!vars, Sets, Erases
  <2>2. CASE p \in K
    <3>1. /\ ask_map' = Without(ask_map, p)
          /\ IF Cardinality(K) - 1 <= Depth THEN ask_end' = End ELSE ask_end' = Asks!EndAfterErase(p)
      BY <1>2, <1>3, <1>4, <2>2, FS_CardinalityType, OrderBookAssumption DEF Asks!Erase, Without
    <3>2. Asks!EndAfterErase(p) = IF Better("SELL", p, ask_end) \/ p = ask_end
                                  THEN Asks!Succ(K, ask_end) ELSE ask_end
      BY <1>3 DEF Asks!EndAfterErase, Better, Less
    <3>3. (\E k \in K : Better("SELL", ask_end, k)) => Earliest("SELL", K, ask_end, Asks!Succ(K, ask_end))
      BY <1>3, AsksNeighbours
    <3> QED
      BY <1>1, <1>3, <1>4, <2>2, <3>1, <3>2, <3>3 DEF Sets, Erases
  <2> QED
    BY <2>1, <2>2
<1>5. CASE v # 0 /\ Asks!Overwrite(p, v)
  BY <1>1, <1>5 DEF Asks!Overwrite, Sets, Updates, Overwritten
<1>6. CASE v # 0 /\ Asks!Insert(p, v)
  <2>1. PICK L : L = K \cup {p} /\ L \subseteq Price /\ IsFiniteSet(L) /\ p \in L
    BY <1>3
  <2>2. Asks!Inserted(p, v) = Grown(ask_map, p, v)
    BY DEF Asks!Inserted, Asks!NewPayload, Grown
  <2>3. /\ p \notin K
        /\ \/ Cardinality(L) <= Depth /\ ask_map' = Grown(ask_map, p, v) /\ ask_end' = End
           \/ /\ Cardinality(L) > Depth /\ ask_end' = Asks!EndAfterInsert(L, p)
              /\ ask_map' = Forgotten(Grown(ask_map, p, v), ask_end')
    BY <1>2, <1>3, <1>6, <2>1, <2>2 DEF Asks!Insert, Asks!Forget, Forgotten
  <2>4. IF ask_end = End \/ Better("SELL", p, ask_end)
        THEN Latest("SELL", L, ask_end, Asks!EndAfterInsert(L, p))
        ELSE Asks!EndAfterInsert(L, p) = ask_end
    <3>1. CASE ask_end = End
      BY <2>1, <3>1, AsksNeighbours DEF Asks!EndAfterInsert, Prior
    <3>2. CASE ask_end # End /\ Better("SELL", p, ask_end)
      <4>1. Asks!EndAfterInsert(L, p) = Asks!Pred(L, ask_end)
        BY <3>2 DEF Asks!EndAfterInsert, Better, Less
      <4>2. \E k \in L : Prior("SELL", k, ask_end)
        BY <2>1, <3>2 DEF Prior
      <4> QED
        BY <2>1, <3>2, <4>1, <4>2, AsksNeighbours
    <3>3. CASE ask_end # End /\ ~ Better("SELL", p, ask_end)
      BY <3>3 DEF Asks!EndAfterInsert, Better, Less
    <3> QED
      BY <3>1, <3>2, <3>3
  <2>5. Inserts("SELL", ask_map, ask_end, ask_map', ask_end', p, v)
    BY <1>3, <2>1, <2>3, <2>4 DEF Inserts
  <2> QED
    BY <1>1, <1>3, <1>6, <2>3, <2>5 DEF Sets, Updates
<1> QED
  BY <1>1, <1>4, <1>5, <1>6 DEF UpdateAsks, Asks!Update

LEMMA BidsPrint ==
  ASSUME Bids!MarkPrinted, IsLevels(bid_map)
  PROVE  /\ Prints("BUY", bid_map, bid_end, bid_map') /\ bid_end' = bid_end
         /\ bid_map' = [k \in DOMAIN bid_map |-> bid_map'[k]]
<1>1. \A k \in DOMAIN bid_map :
        [bid_map[k] EXCEPT !.prev_value = bid_map[k].value] = Marked(bid_map[k], bid_map[k].value)
  <2>1. \A k \in DOMAIN bid_map : bid_map[k] \in Level /\ bid_map[k].value \in Stored
    BY DEF IsLevels, Level
  <2> QED
    BY <2>1, LevelMarked
<1>2. Bids!Walk = Shown("BUY", DOMAIN bid_map, bid_end)
  BY DEF Bids!Walk, Bids!Before, Shown, Prior, Better, Greater
<1> QED
  BY <1>1, <1>2 DEF Bids!MarkPrinted, Prints

LEMMA AsksPrint ==
  ASSUME Asks!MarkPrinted, IsLevels(ask_map)
  PROVE  /\ Prints("SELL", ask_map, ask_end, ask_map') /\ ask_end' = ask_end
         /\ ask_map' = [k \in DOMAIN ask_map |-> ask_map'[k]]
<1>1. \A k \in DOMAIN ask_map :
        [ask_map[k] EXCEPT !.prev_value = ask_map[k].value] = Marked(ask_map[k], ask_map[k].value)
  <2>1. \A k \in DOMAIN ask_map : ask_map[k] \in Level /\ ask_map[k].value \in Stored
    BY DEF IsLevels, Level
  <2> QED
    BY <2>1, LevelMarked
<1>2. Asks!Walk = Shown("SELL", DOMAIN ask_map, ask_end)
  BY DEF Asks!Walk, Asks!Before, Shown, Prior, Better, Less
<1> QED
  BY <1>1, <1>2 DEF Asks!MarkPrinted, Prints

-------------------------------------------------------------------------------
(* The book. *)

ShownOf(s) == Shown(s, DOMAIN MapOf(s), EndOf(s))

SidesPlaced ==
  \A s \in Side : IsLevels(MapOf(s)) /\ Placed(s, DOMAIN MapOf(s), EndOf(s))

(* A level that would be printed without highlight is on the screen with   *)
(* this amount, or was set to the amount it had.  Outside the window only  *)
(* the second can be: what leaves it is forgotten.                         *)
Explained ==
  \A s \in Side : \A k \in DOMAIN MapOf(s) :
    MapOf(s)[k].value = MapOf(s)[k].prev_value =>
      \/ <<s, k>> \in echoed
      \/ k \in ShownOf(s) /\ k \in DOMAIN screen[s] /\ screen[s][k] = MapOf(s)[k].value

(* The inductive invariant.  The time of the ledger is that of the book,   *)
(* so that both take the same orders.                                      *)
Inv ==
  /\ crashed \in BOOLEAN
  /\ SidesPlaced
  /\ ledger \in Ledger /\ ledger.time = m_last_timestamp
  /\ BookFollowsOrders
  /\ crashed \/ Explained

LEMMA AddIs ==
  ASSUME SidesPlaced, NEW o \in Order, Add(o)
  PROVE  /\ ~ crashed /\ crashed' = crashed
         /\ \/ /\ ~ Recent(o)
               /\ UNCHANGED <<bid_map, bid_end, ask_map, ask_end, m_last_timestamp>>
            \/ /\ Recent(o) /\ m_last_timestamp' = o.timestamp
               /\ Sets(o.type, MapOf(o.type), EndOf(o.type),
                       MapOf(o.type)', EndOf(o.type)', o.price, o.amount)
               /\ \A t \in Side \ {o.type} : MapOf(t)' = MapOf(t) /\ EndOf(t)' = EndOf(t)
<1>1. ~ crashed /\ crashed' = crashed /\ o.type \in Side
  BY DEF Add, Order, Side
<1>2. CASE ~ Recent(o)
  BY <1>1, <1>2 DEF Add, book
<1>3. CASE Recent(o) /\ o.type = "BUY"
  <2>1. UpdateBids(o) /\ ask_map' = ask_map /\ ask_end' = ask_end /\ m_last_timestamp' = o.timestamp
    BY <1>3 DEF Add
  <2>2. IsLevels(bid_map) /\ Placed("BUY", DOMAIN bid_map, bid_end)
    BY DEF SidesPlaced, Side, MapOf, EndOf
  <2>3. Sets("BUY", bid_map, bid_end, bid_map', bid_end', o.price, o.amount)
    BY <2>1, <2>2, BidsUpdate
  <2> QED
    BY <1>1, <1>3, <2>1, <2>3 DEF MapOf, EndOf, Side
<1>4. CASE Recent(o) /\ o.type = "SELL"
  <2>1. UpdateAsks(o) /\ bid_map' = bid_map /\ bid_end' = bid_end /\ m_last_timestamp' = o.timestamp
    BY <1>4 DEF Add
  <2>2. IsLevels(ask_map) /\ Placed("SELL", DOMAIN ask_map, ask_end)
    BY DEF SidesPlaced, Side, MapOf, EndOf
  <2>3. Sets("SELL", ask_map, ask_end, ask_map', ask_end', o.price, o.amount)
    BY <2>1, <2>2, AsksUpdate
  <2> QED
    BY <1>1, <1>4, <2>1, <2>3 DEF MapOf, EndOf, Side
<1> QED
  BY <1>1, <1>2, <1>3, <1>4 DEF Side

LEMMA WalksAreShown ==
  /\ Bids!Walk = ShownOf("BUY") /\ Asks!Walk = ShownOf("SELL")
  /\ \A s \in Side : PrintedOf(s) = ShownOf(s)
<1>1. Bids!Walk = ShownOf("BUY")
  BY DEF Bids!Walk, Bids!Before, ShownOf, MapOf, EndOf, Shown, Prior, Better, Greater
<1>2. Asks!Walk = ShownOf("SELL")
  BY DEF Asks!Walk, Asks!Before, ShownOf, MapOf, EndOf, Shown, Prior, Better, Less
<1> QED
  BY <1>1, <1>2 DEF PrintedOf, PrintedAsks, Side

LEMMA PrintIs ==
  ASSUME SidesPlaced, PrintBook
  PROVE  /\ ~ crashed /\ m_last_timestamp' = m_last_timestamp
         /\ \/ /\ crashed' = TRUE /\ DOMAIN ask_map = {}
               /\ UNCHANGED <<bid_map, bid_end, ask_map, ask_end>>
            \/ /\ crashed' = crashed /\ DOMAIN ask_map # {}
               /\ \A s \in Side : /\ Prints(s, MapOf(s), EndOf(s), MapOf(s)')
                                  /\ MapOf(s)' = [k \in DOMAIN MapOf(s) |-> MapOf(s)'[k]]
                                  /\ EndOf(s)' = EndOf(s)
<1>1. ~ crashed /\ m_last_timestamp' = m_last_timestamp
  BY DEF PrintBook
<1>2. IsLevels(bid_map) /\ IsLevels(ask_map) /\ Placed("SELL", DOMAIN ask_map, ask_end)
  BY DEF SidesPlaced, Side, MapOf, EndOf
<1>3. Asks!Walk = {} <=> DOMAIN ask_map = {}
  BY <1>2, WalksAreShown, SomethingShown DEF ShownOf, MapOf, EndOf, Side
<1>4. CASE Asks!Walk = {} /\ crashed' = TRUE /\ UNCHANGED book
  BY <1>1, <1>3, <1>4 DEF book
<1>5. CASE Asks!Walk # {} /\ Bids!MarkPrinted /\ Asks!MarkPrinted /\ UNCHANGED crashed
  <2>1. /\ Prints("BUY", bid_map, bid_end, bid_map') /\ bid_end' = bid_end
        /\ bid_map' = [k \in DOMAIN bid_map |-> bid_map'[k]]
    BY <1>2, <1>5, BidsPrint
  <2>2. /\ Prints("SELL", ask_map, ask_end, ask_map') /\ ask_end' = ask_end
        /\ ask_map' = [k \in DOMAIN ask_map |-> ask_map'[k]]
    BY <1>2, <1>5, AsksPrint
  <2>3. ASSUME NEW s \in Side
        PROVE  /\ Prints(s, MapOf(s), EndOf(s), MapOf(s)')
               /\ MapOf(s)' = [k \in DOMAIN MapOf(s) |-> MapOf(s)'[k]]
               /\ EndOf(s)' = EndOf(s)
    <3>1. CASE s = "BUY"
      BY <2>1, <3>1 DEF MapOf, EndOf
    <3>2. CASE s = "SELL"
      BY <2>2, <3>2 DEF MapOf, EndOf
    <3> QED
      BY <3>1, <3>2 DEF Side
  <2> QED
    BY <1>1, <1>3, <1>5, <2>3
<1> QED
  BY <1>1, <1>4, <1>5 DEF PrintBook

LEMMA NoLevels ==
  /\ IsLevels(<< >>) /\ AmountAt(<< >>) = [p \in Price |-> 0]
  /\ \A s \in Side : Placed(s, DOMAIN << >>, End)
<1>1. DOMAIN << >> = {} /\ << >> \in [{} -> Level]
  OBVIOUS
<1>2. \A s \in Side : Placed(s, {}, End)
  BY FS_EmptySet, OrderBookAssumption DEF Placed
<1> QED
  BY <1>1, <1>2 DEF IsLevels, AmountAt

(* What the ledger says of an empty book. *)
LEMMA EmptyLedgerFollows ==
  /\ EmptyLedger \in Ledger /\ EmptyLedger.time = 0
  /\ \A side \in Side : EmptyLedger.amount[side] = [p \in Price |-> 0]
BY OrderBookAssumption DEF EmptyLedger, Ledger, Side

-------------------------------------------------------------------------------
(* The invariant is kept. *)

LEMMA InitEstablishes == DInit => Inv
<1> SUFFICES ASSUME DInit PROVE Inv
  OBVIOUS
<1>1. /\ bid_map = << >> /\ ask_map = << >> /\ bid_end = End /\ ask_end = End
      /\ m_last_timestamp = 0 /\ ledger = EmptyLedger /\ crashed = FALSE
  BY DEF DInit, Init, Bids!Init, Asks!Init
<1>2. SidesPlaced
  BY <1>1, NoLevels DEF SidesPlaced, MapOf, EndOf
<1>3. BookFollowsOrders
  BY <1>1, NoLevels, EmptyLedgerFollows DEF BookFollowsOrders, MapOf, Side
<1>4. Explained
  <2>1. \A s \in Side : DOMAIN MapOf(s) = {}
    BY <1>1 DEF MapOf
  <2> QED
    BY <2>1 DEF Explained
<1> QED
  BY <1>1, <1>2, <1>3, <1>4, EmptyLedgerFollows DEF Inv

(* What an order that is taken does to its side and the other. *)
LEMMA AddChanges ==
  ASSUME Inv, NEW o \in Order, Add(o), Recent(o)
  PROVE  /\ o.type \in Side /\ o.price \in Price /\ o.amount \in Amount
         /\ SidesPlaced' /\ m_last_timestamp' = o.timestamp
         /\ AmountAt(MapOf(o.type)') = [AmountAt(MapOf(o.type)) EXCEPT ![o.price] = o.amount]
         /\ OthersKept(o.type, MapOf(o.type), EndOf(o.type), MapOf(o.type)', EndOf(o.type)', o.price)
         /\ LevelSet(MapOf(o.type), MapOf(o.type)', o.price, o.amount)
         /\ \A t \in Side \ {o.type} : MapOf(t)' = MapOf(t) /\ EndOf(t)' = EndOf(t)
<1>1. PICK s \in Side, p \in Price, v \in Amount : s = o.type /\ p = o.price /\ v = o.amount
  BY OrderBookAssumption DEF Order, Side
<1>2. /\ m_last_timestamp' = o.timestamp
      /\ Sets(s, MapOf(s), EndOf(s), MapOf(s)', EndOf(s)', p, v)
      /\ \A t \in Side \ {s} : MapOf(t)' = MapOf(t) /\ EndOf(t)' = EndOf(t)
  BY <1>1, AddIs DEF Inv
<1>3. IsLevels(MapOf(s)) /\ Placed(s, DOMAIN MapOf(s), EndOf(s))
  BY DEF Inv, SidesPlaced
<1>4. /\ IsLevels(MapOf(s)') /\ Placed(s, DOMAIN MapOf(s)', EndOf(s)')
      /\ AmountAt(MapOf(s)') = [AmountAt(MapOf(s)) EXCEPT ![p] = v]
      /\ OthersKept(s, MapOf(s), EndOf(s), MapOf(s)', EndOf(s)', p)
      /\ LevelSet(MapOf(s), MapOf(s)', p, v)
  BY <1>2, <1>3, AfterSet
<1>5. SidesPlaced'
  <2> SUFFICES ASSUME NEW t \in Side
               PROVE  IsLevels(MapOf(t)') /\ Placed(t, DOMAIN MapOf(t)', EndOf(t)')
    BY DEF SidesPlaced, IsLevels, Placed, Shown, Prior
  <2>1. CASE t = s
    BY <1>4, <2>1
  <2>2. CASE t # s
    BY <1>2, <2>2 DEF Inv, SidesPlaced
  <2> QED
    BY <2>1, <2>2
<1> QED
  BY <1>1, <1>2, <1>4, <1>5

(* What was shown of the side the order is for is still explained.         *)
LEMMA SideExplained ==
  ASSUME Inv, NEW o \in Order, DAdd(o), Recent(o),
         NEW k \in DOMAIN MapOf(o.type)',
         MapOf(o.type)'[k].value = MapOf(o.type)'[k].prev_value
  PROVE  \/ <<o.type, k>> \in echoed'
         \/ k \in ShownOf(o.type)' /\ k \in DOMAIN screen'[o.type]
            /\ screen'[o.type][k] = MapOf(o.type)'[k].value
<1>1. PICK s \in Side, p \in Price, v \in Amount : s = o.type /\ p = o.price /\ v = o.amount
  BY OrderBookAssumption DEF Order, Side
<1>2. PICK map, e, map2, e2 : map = MapOf(s) /\ e = EndOf(s) /\ map2 = MapOf(s)' /\ e2 = EndOf(s)'
  OBVIOUS
<1>3. /\ OthersKept(s, map, e, map2, e2, p) /\ LevelSet(map, map2, p, v)
      /\ IsLevels(map) /\ IsLevels(map2) /\ k \in DOMAIN map2 /\ map2[k].value = map2[k].prev_value
  <2>1. Add(o)
    BY DEF DAdd
  <2>2. SidesPlaced' /\ SidesPlaced
    BY <2>1, AddChanges DEF Inv
  <2>3. IsLevels(MapOf(s)) /\ IsLevels(MapOf(s)')
    BY <2>2 DEF SidesPlaced, IsLevels
  <2> QED
    BY <1>1, <1>2, <2>1, <2>3, AddChanges
<1>4. map2[k].value # 0
  BY <1>3 DEF IsLevels, Level, Stored
<1>5. /\ ~ crashed /\ screen' = screen
      /\ echoed' = IF Echoes(o) THEN echoed \cup {<<s, p>>} ELSE echoed
  BY <1>1 DEF DAdd, Add
<1>6. ShownOf(s) = Shown(s, DOMAIN map, e) /\ ShownOf(s)' = Shown(s, DOMAIN map2, e2)
  BY <1>2 DEF ShownOf, Shown, Prior
<1>7. CASE k = p
  <2>1. p \in DOMAIN map /\ map[p].value = v
    BY <1>3, <1>4, <1>7 DEF LevelSet
  <2>2. Echoes(o)
    BY <1>1, <1>2, <2>1 DEF Echoes
  <2> QED
    BY <1>1, <1>5, <1>7, <2>2
<1>8. CASE k # p
  <2>1. /\ k \in DOMAIN map /\ map2[k].value = map[k].value
        /\ map2[k].prev_value = map[k].prev_value
        /\ ~ (Prior(s, k, e) /\ ~ Prior(s, k, e2))
    BY <1>3, <1>4, <1>8 DEF OthersKept
  <2>2. \/ <<s, k>> \in echoed
        \/ k \in ShownOf(s) /\ k \in DOMAIN screen[s] /\ screen[s][k] = map[k].value
    BY <1>2, <1>3, <1>5, <2>1 DEF Inv, Explained
  <2>3. k \in ShownOf(s) => k \in ShownOf(s)'
    BY <1>3, <1>6, <2>1 DEF Shown
  <2> QED
    BY <1>1, <1>2, <1>5, <2>1, <2>2, <2>3
<1> QED
  BY <1>7, <1>8

LEMMA TakenExplained ==
  ASSUME Inv, NEW o \in Order, DAdd(o), Recent(o)
  PROVE  Explained'
<1>1. /\ ~ crashed /\ screen' = screen /\ echoed \subseteq echoed' /\ Add(o)
  BY DEF DAdd, Add
<1>2. \A t \in Side \ {o.type} : MapOf(t)' = MapOf(t) /\ EndOf(t)' = EndOf(t)
  BY <1>1, AddChanges
<1> SUFFICES ASSUME NEW s \in Side, NEW k \in DOMAIN MapOf(s)',
                    MapOf(s)'[k].value = MapOf(s)'[k].prev_value
             PROVE  \/ <<s, k>> \in echoed'
                    \/ k \in ShownOf(s)' /\ k \in DOMAIN screen'[s]
                       /\ screen'[s][k] = MapOf(s)'[k].value
  BY DEF Explained
<1>3. CASE s = o.type
  BY <1>3, SideExplained
<1>4. CASE s # o.type
  <2>1. MapOf(s)' = MapOf(s) /\ ShownOf(s)' = ShownOf(s)
    BY <1>2, <1>4 DEF ShownOf, Shown, Prior
  <2>2. \/ <<s, k>> \in echoed
        \/ k \in ShownOf(s) /\ k \in DOMAIN screen[s] /\ screen[s][k] = MapOf(s)[k].value
    BY <1>1, <2>1 DEF Inv, Explained
  <2> QED
    BY <1>1, <2>1, <2>2
<1> QED
  BY <1>3, <1>4

LEMMA UnchangedPreserves ==
  ASSUME Inv, UNCHANGED <<bid_map, bid_end, ask_map, ask_end, m_last_timestamp, ledger>>,
         crashed' \in BOOLEAN, crashed' \/ UNCHANGED <<crashed, screen, echoed>>
  PROVE  Inv'
<1>1. SidesPlaced' /\ BookFollowsOrders'
  BY DEF Inv, SidesPlaced, MapOf, EndOf, IsLevels, Placed, Shown, Prior, BookFollowsOrders, AmountAt
<1>2. crashed' \/ Explained'
  BY DEF Inv, Explained, MapOf, EndOf, ShownOf, Shown, Prior
<1> QED
  BY <1>1, <1>2 DEF Inv

(* The ledger books an order exactly when the book takes it, at the same   *)
(* price of the same side.                                                 *)
LEMMA AddPreserves ==
  ASSUME Inv, NEW o \in Order, DAdd(o)
  PROVE  Inv'
<1>1. /\ o.timestamp \in Timestamp /\ o.timestamp \in Nat /\ m_last_timestamp \in Nat
      /\ ledger.time = m_last_timestamp /\ Add(o) /\ SidesPlaced
  BY OrderBookAssumption DEF Order, Inv, Ledger, DAdd
<1>2. CASE ~ Recent(o)
  <2>1. UNCHANGED <<bid_map, bid_end, ask_map, ask_end, m_last_timestamp, crashed>>
    BY <1>1, <1>2, AddIs
  <2>2. ledger' = ledger /\ echoed' = echoed /\ screen' = screen
    BY <1>1, <1>2 DEF DAdd, Recent, Echoes
  <2> QED
    BY <2>1, <2>2, UnchangedPreserves DEF Inv
<1>3. CASE Recent(o)
  <2>1. PICK s \in Side, p \in Price, v \in Amount : s = o.type /\ p = o.price /\ v = o.amount
    BY OrderBookAssumption DEF Order, Side
  <2>2. /\ SidesPlaced' /\ m_last_timestamp' = o.timestamp /\ crashed' = crashed
        /\ AmountAt(MapOf(s)') = [AmountAt(MapOf(s)) EXCEPT ![p] = v]
        /\ \A t \in Side \ {s} : MapOf(t)' = MapOf(t)
    BY <1>1, <1>3, <2>1, AddChanges DEF Add
  <2>3. ledger' = [ledger EXCEPT !.amount[s][p] = v, !.time = o.timestamp]
    BY <1>1, <1>3, <2>1 DEF DAdd, Recent, Booked
  <2>4. /\ ledger' \in Ledger /\ ledger'.time = o.timestamp
        /\ ledger'.amount = [ledger.amount EXCEPT ![s] = [ledger.amount[s] EXCEPT ![p] = v]]
    BY <1>1, <2>3 DEF Ledger, Inv
  <2>5. ASSUME NEW t \in Side PROVE AmountAt(MapOf(t)') = ledger'.amount[t]
    <3>1. AmountAt(MapOf(t)) = ledger.amount[t] /\ ledger.amount \in [Side -> [Price -> Amount]]
      BY DEF Inv, BookFollowsOrders, Side, Ledger
    <3>2. CASE t = s
      BY <2>2, <2>4, <3>1, <3>2
    <3>3. CASE t # s
      BY <2>2, <2>4, <3>1, <3>3
    <3> QED
      BY <3>2, <3>3
  <2>6. BookFollowsOrders'
    BY <2>5 DEF BookFollowsOrders, Side, AmountAt
  <2>7. Explained'
    BY <1>3, TakenExplained
  <2> QED
    BY <2>2, <2>4, <2>6, <2>7 DEF Inv
<1> QED
  BY <1>2, <1>3

LEMMA PrintPreserves ==
  ASSUME Inv, DPrint
  PROVE  Inv'
<1>1. PrintBook /\ SidesPlaced /\ ledger' = ledger
  BY DEF DPrint, Inv
<1>2. ~ crashed /\ m_last_timestamp' = m_last_timestamp
  BY <1>1, PrintIs
<1>3. CASE crashed' = TRUE /\ UNCHANGED <<bid_map, bid_end, ask_map, ask_end>>
  BY <1>1, <1>2, <1>3, UnchangedPreserves
<1>4. CASE /\ crashed' = crashed
           /\ \A s \in Side : /\ Prints(s, MapOf(s), EndOf(s), MapOf(s)')
                              /\ MapOf(s)' = [k \in DOMAIN MapOf(s) |-> MapOf(s)'[k]]
                              /\ EndOf(s)' = EndOf(s)
  <2>1. ASSUME NEW s \in Side
        PROVE  /\ IsLevels(MapOf(s)') /\ AmountAt(MapOf(s)') = AmountAt(MapOf(s))
               /\ DOMAIN MapOf(s)' = DOMAIN MapOf(s) /\ EndOf(s)' = EndOf(s)
               /\ ShownOf(s)' = ShownOf(s) /\ IsLevels(MapOf(s))
    <3>1. IsLevels(MapOf(s))
      BY <1>1 DEF SidesPlaced
    <3>2. /\ Prints(s, MapOf(s), EndOf(s), MapOf(s)') /\ EndOf(s)' = EndOf(s)
          /\ MapOf(s)' = [k \in DOMAIN MapOf(s) |-> MapOf(s)'[k]]
      BY <1>4
    <3>3. IsLevels(MapOf(s)') /\ AmountAt(MapOf(s)') = AmountAt(MapOf(s))
      BY <3>1, <3>2, AfterPrint
    <3>4. DOMAIN MapOf(s)' = DOMAIN MapOf(s)
      BY <3>2 DEF Prints
    <3>5. ShownOf(s)' = ShownOf(s)
      BY <3>2, <3>4 DEF ShownOf, Shown, Prior
    <3> QED
      BY <3>1, <3>2, <3>3, <3>4, <3>5
  <2>2. SidesPlaced'
    <3> SUFFICES ASSUME NEW s \in Side
                 PROVE  IsLevels(MapOf(s)') /\ Placed(s, DOMAIN MapOf(s)', EndOf(s)')
      BY DEF SidesPlaced, IsLevels, Placed, Shown, Prior
    <3> QED
      BY <1>1, <2>1 DEF SidesPlaced
  <2>3. BookFollowsOrders'
    BY <1>1, <2>1 DEF Inv, BookFollowsOrders, Side, AmountAt
  <2>4. Explained'
    <3>1. /\ echoed' = {e \in echoed : e[2] \notin PrintedOf(e[1])}
          /\ screen' = [BUY |-> Lines("BUY"), SELL |-> Lines("SELL")]
      BY <1>2, <1>4 DEF DPrint
    <3> SUFFICES ASSUME NEW s \in Side, NEW k \in DOMAIN MapOf(s)',
                        MapOf(s)'[k].value = MapOf(s)'[k].prev_value
                 PROVE  \/ <<s, k>> \in echoed'
                        \/ k \in ShownOf(s)' /\ k \in DOMAIN screen'[s]
                           /\ screen'[s][k] = MapOf(s)'[k].value
      BY DEF Explained
    <3>2. PICK map, map2 : map = MapOf(s) /\ map2 = MapOf(s)'
      OBVIOUS
    <3>3. k \in DOMAIN map /\ Prints(s, map, EndOf(s), map2) /\ ShownOf(s)' = ShownOf(s)
      BY <1>4, <2>1, <3>2
    <3>4. PrintedOf(s) = ShownOf(s)
      BY WalksAreShown
    <3>5. screen'[s] = [q \in ShownOf(s) |-> map[q].value]
      BY <3>1, <3>2, <3>4 DEF Lines, Side
    <3>6. CASE k \in ShownOf(s)
      <4>1. map2[k].value = map[k].value
        BY <3>2, <3>3, <3>6 DEF Prints, ShownOf, Marked
      <4> QED
        BY <3>2, <3>3, <3>5, <3>6, <4>1
    <3>7. CASE k \notin ShownOf(s)
      <4>1. map2[k] = map[k]
        BY <3>2, <3>3, <3>7 DEF Prints, ShownOf
      <4>2. <<s, k>> \in echoed
        BY <1>2, <3>2, <3>3, <3>7, <4>1 DEF Inv, Explained
      <4> QED
        BY <3>1, <3>4, <3>7, <4>2
    <3> QED
      BY <3>6, <3>7
  <2> QED
    BY <1>1, <1>2, <1>4, <2>2, <2>3, <2>4 DEF Inv
<1> QED
  BY <1>1, <1>3, <1>4, PrintIs

LEMMA ClearPreserves ==
  ASSUME Inv, DClear
  PROVE  Inv'
<1>1. /\ bid_map' = << >> /\ ask_map' = << >> /\ bid_end' = End /\ ask_end' = End
      /\ m_last_timestamp' = 0 /\ ledger' = EmptyLedger /\ crashed' = crashed
  BY DEF DClear, Clear, Bids!Clear, Asks!Clear
<1>2. \A s \in Side : MapOf(s)' = << >> /\ EndOf(s)' = End
  BY <1>1 DEF MapOf, EndOf
<1>3. SidesPlaced'
  <2> SUFFICES ASSUME NEW s \in Side
               PROVE  IsLevels(MapOf(s)') /\ Placed(s, DOMAIN MapOf(s)', EndOf(s)')
    BY DEF SidesPlaced, IsLevels, Placed, Shown, Prior
  <2> QED
    BY <1>2, NoLevels
<1>4. BookFollowsOrders'
  BY <1>1, NoLevels, EmptyLedgerFollows DEF BookFollowsOrders, MapOf, Side, AmountAt
<1>5. Explained'
  <2>1. \A s \in Side : DOMAIN MapOf(s)' = {}
    BY <1>2
  <2> QED
    BY <2>1 DEF Explained
<1> QED
  BY <1>1, <1>3, <1>4, <1>5, EmptyLedgerFollows DEF Inv

LEMMA Invariance == DSpec => []Inv
<1>1. Inv /\ [DNext]_dvars => Inv'
  <2> SUFFICES ASSUME Inv, [DNext]_dvars PROVE Inv'
    OBVIOUS
  <2>1. CASE UNCHANGED dvars
    BY <2>1, UnchangedPreserves DEF dvars, vars, book, Inv
  <2> QED
    BY <2>1, AddPreserves, PrintPreserves, ClearPreserves DEF DNext
<1> QED
  BY InitEstablishes, <1>1, PTL DEF DSpec

(* Whatever the prices, amounts, times and depth: the book is what its     *)
(* orders make it (OrderBook::add, LimitedMap::update and erase): none     *)
(* that is recent enough is lost, none is booked at another price or side, *)
(* and moving the window touches no amount.                                *)
THEOREM BookAlwaysFollowsOrders == DSpec => []BookFollowsOrders
<1>1. Inv => BookFollowsOrders
  BY DEF Inv
<1> QED
  BY <1>1, Invariance, PTL

-------------------------------------------------------------------------------
(* The screen. *)

LEMMA PrintShowsBest ==
  ASSUME Inv, DPrint, ~ crashed'
  PROVE  /\ screen'.BUY  = Amounts(bid_map, BestBids(DOMAIN bid_map))
         /\ screen'.SELL = Amounts(ask_map, BestAsks(DOMAIN ask_map))
<1>1. screen' = [BUY |-> Lines("BUY"), SELL |-> Lines("SELL")]
  BY DEF DPrint
<1>2. /\ Placed("BUY", DOMAIN bid_map, bid_end)
      /\ Placed("SELL", DOMAIN ask_map, ask_end)
  BY DEF Inv, SidesPlaced, MapOf, EndOf, Side
<1>3. ShownOf("BUY") = BestBids(DOMAIN bid_map)
  <2>1. ShownOf("BUY") = {k \in DOMAIN bid_map :
                            Cardinality({j \in DOMAIN bid_map : Better("BUY", j, k)}) < Depth}
    BY <1>2, PlacedShowsBest DEF ShownOf, MapOf, EndOf, Side
  <2> QED
    BY <2>1 DEF BestBids, Better
<1>4. ShownOf("SELL") = BestAsks(DOMAIN ask_map)
  <2>1. ShownOf("SELL") = {k \in DOMAIN ask_map :
                            Cardinality({j \in DOMAIN ask_map : Better("SELL", j, k)}) < Depth}
    BY <1>2, PlacedShowsBest DEF ShownOf, MapOf, EndOf, Side
  <2> QED
    BY <2>1 DEF BestAsks, Better
<1>5. PrintedOf("BUY") = ShownOf("BUY") /\ PrintedOf("SELL") = ShownOf("SELL")
  BY WalksAreShown DEF Side
<1> QED
  BY <1>1, <1>3, <1>4, <1>5 DEF Lines, Amounts, MapOf

(* What print() writes is the best m_depth levels of either side, each     *)
(* with its amount in the book, however the book came about, although      *)
(* print() goes by the iterators alone.                                    *)
THEOREM ScreenAlwaysBest == DSpec => ScreenShowsBest
<1> DEFINE Shows == screen' # screen =>
                      /\ screen'.BUY  = Amounts(bid_map, BestBids(DOMAIN bid_map))
                      /\ screen'.SELL = Amounts(ask_map, BestAsks(DOMAIN ask_map))
<1>1. Inv /\ [DNext]_dvars => [Shows]_dvars
  <2> SUFFICES ASSUME Inv, DNext, screen' # screen
               PROVE  /\ screen'.BUY  = Amounts(bid_map, BestBids(DOMAIN bid_map))
                      /\ screen'.SELL = Amounts(ask_map, BestAsks(DOMAIN ask_map))
    OBVIOUS
  <2>1. DPrint /\ ~ crashed'
    BY DEF DNext, DAdd, DClear, DPrint
  <2> QED
    BY <2>1, PrintShowsBest
<1> QED
  BY <1>1, Invariance, PTL DEF DSpec, ScreenShowsBest

(* A line without highlight shows what was on the screen already, unless   *)
(* the level was set again to the amount it had: LimitedMap::update()      *)
(* forgets a level that leaves the window whichever operation pushes it    *)
(* out, and erase() lets levels in only with what they were given.         *)
THEOREM ChangesAlwaysMarked == DSpec => NoSilentChange
<1> DEFINE Silent ==
             DPrint /\ ~ crashed' =>
               \A side \in {"BUY", "SELL"} :
                 \A p \in PrintedOf(side) \ Highlighted(side) :
                   \/ <<side, p>> \in echoed
                   \/ p \in DOMAIN screen[side] /\ screen[side][p] = MapOf(side)[p].value
<1>1. Inv => Silent
  <2> SUFFICES ASSUME Inv, DPrint, NEW s \in Side, NEW p \in PrintedOf(s) \ Highlighted(s)
               PROVE  \/ <<s, p>> \in echoed
                      \/ p \in DOMAIN screen[s] /\ screen[s][p] = MapOf(s)[p].value
    BY DEF Side
  <2>1. ~ crashed
    BY DEF DPrint, PrintBook
  <2>2. p \in DOMAIN MapOf(s)
    BY WalksAreShown DEF ShownOf, Shown
  <2>3. MapOf(s)[p].value = MapOf(s)[p].prev_value
    BY DEF Highlighted
  <2> QED
    BY <2>1, <2>2, <2>3 DEF Inv, Explained
<1> HIDE DEF Silent
<1>2. Inv /\ [DNext]_dvars => [Silent]_dvars
  BY <1>1
<1>3. DSpec => [][Silent]_dvars
  BY <1>2, Invariance, PTL DEF DSpec
<1> QED
  BY <1>3 DEF Silent, NoSilentChange

-------------------------------------------------------------------------------
(* The book implements the plain table of amounts. *)

Table == [BUY |-> AmountAt(bid_map), SELL |-> AmountAt(ask_map)]

LEMMA TableOf == \A s \in Side : Table[s] = AmountAt(MapOf(s))
BY DEF Table, MapOf, Side

LEMMA AddMapsToAdd ==
  ASSUME Inv, NEW o \in Order, Add(o)
  PROVE  Plain!Add(o) /\ o \in Plain!Order
<1>1. o \in Plain!Order
  BY OrderBookAssumption DEF Order, Plain!Order, Plain!Side
<1>2. ~ crashed /\ crashed' = crashed
  BY DEF Add
<1>3. CASE ~ Recent(o)
  <2>1. UNCHANGED <<bid_map, ask_map, m_last_timestamp>>
    BY <1>3 DEF Add, book
  <2>2. Table' = Table
    BY <2>1 DEF Table, AmountAt
  <2>3. o.timestamp < m_last_timestamp
    <3>1. o.timestamp \in Nat /\ m_last_timestamp \in Nat
      BY OrderBookAssumption DEF Order, Inv, Ledger
    <3> QED
      BY <1>3, <3>1 DEF Recent
  <2> QED
    BY <1>1, <1>2, <2>1, <2>2, <2>3 DEF Plain!Add, Plain!Ignore, Table
<1>4. CASE Recent(o)
  <2>1. PICK s \in Side, p \in Price, v \in Amount : s = o.type /\ p = o.price /\ v = o.amount
    BY OrderBookAssumption DEF Order, Side
  <2>2. /\ AmountAt(MapOf(s)') = [AmountAt(MapOf(s)) EXCEPT ![p] = v]
        /\ \A t \in Side \ {s} : MapOf(t)' = MapOf(t)
        /\ m_last_timestamp' = o.timestamp
    BY <1>4, <2>1, AddChanges
  <2>3. Table' = [Table EXCEPT ![s] = [Table[s] EXCEPT ![p] = v]]
    <3>1. ASSUME NEW t \in Side
          PROVE  Table'[t] = IF t = s THEN [Table[s] EXCEPT ![p] = v] ELSE Table[t]
      <4>1. Table'[t] = AmountAt(MapOf(t)')
        BY DEF Table, MapOf, Side, AmountAt
      <4> QED
        BY <2>2, <4>1, TableOf
    <3>2. /\ DOMAIN Table = Side /\ DOMAIN Table' = Side
          /\ Table' = [t \in Side |-> Table'[t]] /\ Table = [t \in Side |-> Table[t]]
      BY DEF Table, Side
    <3> HIDE DEF Table
    <3> QED
      BY <3>1, <3>2
  <2>4. o.timestamp >= m_last_timestamp
    BY <1>4 DEF Recent
  <2> QED
    BY <1>1, <1>2, <2>1, <2>2, <2>3, <2>4 DEF Plain!Add, Plain!Take, Table
<1> QED
  BY <1>3, <1>4

LEMMA PrintMapsToPrint ==
  ASSUME Inv, DPrint
  PROVE  Plain!PrintBook
<1>1. PrintBook /\ SidesPlaced
  BY DEF DPrint, Inv
<1>2. Plain!Levels("SELL") = DOMAIN ask_map
  <2>1. IsLevels(ask_map)
    BY <1>1 DEF SidesPlaced, MapOf, Side
  <2>2. /\ DOMAIN ask_map \subseteq Price
        /\ \A p \in Price : AmountAt(ask_map)[p] # 0 <=> p \in DOMAIN ask_map
    BY <2>1 DEF IsLevels, Level, Stored, AmountAt
  <2>3. Plain!Levels("SELL") = {p \in Price : AmountAt(ask_map)[p] # 0}
    BY DEF Plain!Levels
  <2> QED
    BY <2>2, <2>3
<1>3. crashed' = (DOMAIN ask_map = {})
  BY <1>1, PrintIs DEF Inv
<1>4. Table' = Table
  <2>1. Inv'
    BY PrintPreserves
  <2>2. ledger' = ledger
    BY DEF DPrint
  <2>3. \A s \in Side : AmountAt(MapOf(s)') = AmountAt(MapOf(s))
    BY <2>1, <2>2 DEF Inv, BookFollowsOrders, Side, AmountAt
  <2> QED
    BY <2>3 DEF Table, MapOf, Side, AmountAt
<1> QED
  BY <1>1, <1>2, <1>3, <1>4, PrintIs DEF Plain!PrintBook, Table

LEMMA ClearMapsToClear ==
  ASSUME Inv, DClear
  PROVE  Plain!Clear
<1>1. /\ bid_map' = << >> /\ ask_map' = << >> /\ m_last_timestamp' = 0
      /\ ~ crashed /\ crashed' = crashed
  BY DEF DClear, Clear, Bids!Clear, Asks!Clear
<1>2. AmountAt(bid_map)' = [p \in Price |-> 0] /\ AmountAt(ask_map)' = [p \in Price |-> 0]
  BY <1>1, NoLevels DEF AmountAt
<1> QED
  BY <1>1, <1>2 DEF Plain!Clear, Plain!NoLevels, Plain!Side

(* Seen through its amounts, the book is a plain table that takes every    *)
(* order at least as recent as the last, and print() dies (on the iterator *)
(* before the end of an empty m_ask) exactly when nothing is on sale.      *)
THEOREM Implementation == DSpec => ImplementsPriceBook
<1>1. DInit => Plain!Init
  <2> SUFFICES ASSUME DInit PROVE Plain!Init
    OBVIOUS
  <2>1. bid_map = << >> /\ ask_map = << >> /\ m_last_timestamp = 0 /\ crashed = FALSE
    BY DEF DInit, Init, Bids!Init, Asks!Init
  <2> QED
    BY <2>1, NoLevels DEF Plain!Init, Plain!NoLevels, Plain!Side
<1>2. Inv /\ [DNext]_dvars => [Plain!Next]_(Plain!vars)
  <2> SUFFICES ASSUME Inv, [DNext]_dvars PROVE [Plain!Next]_(Plain!vars)
    OBVIOUS
  <2>1. CASE \E o \in Order : DAdd(o)
    BY <2>1, AddMapsToAdd DEF DAdd, Plain!Next
  <2>2. CASE DPrint
    BY <2>2, PrintMapsToPrint DEF Plain!Next
  <2>3. CASE DClear
    BY <2>3, ClearMapsToClear DEF Plain!Next
  <2>4. CASE UNCHANGED dvars
    BY <2>4 DEF dvars, vars, book, Plain!vars, AmountAt
  <2> QED
    BY <2>1, <2>2, <2>3, <2>4 DEF DNext
<1> QED
  BY <1>1, <1>2, Invariance, PTL DEF DSpec, ImplementsPriceBook, Plain!Spec
===============================================================================
